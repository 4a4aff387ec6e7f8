SPECIFICATION FairSpec
CONSTANTS
    main = main
    mc_recv = mc_recv
    Thread = {main}
    Batches <- UpToThree
    MaxBatch = 3
    SeqLimit = 13
    MaxFaults = 2
INVARIANTS TypeOK TransactRight
PROPERTY DoneStaysDone TransactReturns
