SPECIFICATION FairSpec
CONSTANTS
    s1 = s1
    s2 = s2
    Dcm <- DcmList
    Ddcm = {s2}
    Gid = {0, 1}
    NoFile = NoFile
    MaxInits = 2
    MaxInFlight = 1
PROPERTY GroupHears
