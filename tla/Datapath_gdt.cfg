SPECIFICATION Spec
CONSTANTS
    a = a
    s1 = s1
    s2 = s2
    s3 = s3
    p1 = p1
    p2 = p2
    sFlow = sFlow
    sFail = sFail
    sDeep = sDeep
    NULL = NULL
    Id = {s1, s2, s3}
    Local = s1
    Mac = {a}
    Bit = {0, 1, 2}
    NFuncs = 2
    Hash <- HashTwo
    BF_GDT_MAX_FILTERS = 2
    Ptr = {p1, p2}
    Cpu = {1}
    FlowActions <- Lists
    Sample = {sFlow, sFail, sDeep}
    Nested <- NestedLists
    Arrays <- SomeArrays
INVARIANTS
    TypeOK
    SlotsMakeTable
    SearchReadsLive
    SearchComplete
    SearchSound
    PacketDisposedOnce
PROPERTY PacketDone
CHECK_DEADLOCK FALSE
