SPECIFICATION FairSpec
CONSTANTS
    a = a
    b = b
    None = None
    Host = {a, b}
    Port = {1, 2, 3}
    Remote = {b}
    RemotePort = 1
    Stream <- OneStream
    MaxQueue = 2
    MaxOutages = 1
    MaxMoves = 1
INVARIANTS
    TypeOK
    FlowsPaired
PROPERTY StaleFlowsDie
CHECK_DEADLOCK FALSE
