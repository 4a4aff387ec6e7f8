SPECIFICATION FairSpec
CONSTANTS
    Bridge = {b1}
    NoBridge = NoBridge
    MaxCreates = 3
INVARIANTS TypeOK NoUseAfterFree MutexExclusion
PROPERTY EndMcastReturns OnlyOthersEndTheWait KeepsBroadcasting
