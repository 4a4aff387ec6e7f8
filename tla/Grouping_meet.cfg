SPECIFICATION FairSpec
CONSTANTS
    s1 = s1
    s2 = s2
    Dcm <- DcmList
    Ddcm = {s2}
    Gid = {0, 255}
    NoFile = NoFile
    MaxInits = 3
    MaxInFlight = 1
INVARIANTS TypeOK GroupIsolation GroupAddresses
PROPERTY DefaultGroupHears
