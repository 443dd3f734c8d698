SPECIFICATION FairSpec
CONSTANTS
    k1 = k1
    k2 = k2
    k3 = k3
    k4 = k4
    k5 = k5
    folder = folder
    old1 = old1
    old2 = old2
    NoKey = NoKey
    Keys <- NarrowKeys
    Pages <- NarrowPages
    ZeroSize <- NoKeys
    CompletedBefore <- NoKeys
    Workers = 1
    Failures = {"failed", "fatal"}
    ListFails = TRUE
INVARIANT TypeOK
PROPERTIES
    GroupReturns
    UncutRunExits
    SignalExits
