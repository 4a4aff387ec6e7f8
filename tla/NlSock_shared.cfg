SPECIFICATION Spec
CONSTANTS
    main = main
    mc_recv = mc_recv
    Thread = {main, mc_recv}
    Batches <- Single
    MaxBatch = 1
    SeqLimit = 13
    MaxFaults = 0
INVARIANTS TransactRight
