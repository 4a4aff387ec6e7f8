SPECIFICATION FairSpec
CONSTANTS
    Bridge = {b1, b2}
    NoBridge = NoBridge
    MaxCreates = 2
PROPERTY KeepsBroadcasting
