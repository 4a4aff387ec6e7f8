SPECIFICATION FairSpec
CONSTANTS
    s1 = s1
    s2 = s2
    a = a
    b = b
    Id = {s1, s2}
    Mac = {a, b}
    Bit = {0, 1}
    NFuncs = 1
    Hash <- HashBoth
    Hosts <- HostsTorn
    BF_GDT_MAX_FILTERS = 2
    MaxStops = 1
    MaxInFlight = 2
PROPERTY GdtConverges
