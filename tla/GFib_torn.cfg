SPECIFICATION Spec
CONSTANTS
    s1 = s1
    s2 = s2
    a = a
    b = b
    Id = {s1, s2}
    Mac = {a, b}
    Bit = {0, 1, 2}
    NFuncs = 2
    Hash <- HashTorn
    Hosts <- HostsTorn
    BF_GDT_MAX_FILTERS = 3
    MaxStops = 1
    MaxInFlight = 2
INVARIANTS TypeOK TablesWellFormed FiltersSound NeverEncapToSelf LearnedAreLocal DpFollows
PROPERTY NothingForgotten
