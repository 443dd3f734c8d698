SPECIFICATION FairSpec
CONSTANTS
    k1 = k1
    k2 = k2
    old = old
    NoKey = NoKey
    Keys <- MCKeys
    Pages <- MCPages
    ZeroSize <- NoKeys
    CompletedBefore <- MCCompleted
    Workers = 1
    ListFails = FALSE
PROPERTY DryRunReturns
