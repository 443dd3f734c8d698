SPECIFICATION Spec
CONSTANTS
    k1 = k1
    k2 = k2
    k3 = k3
    k4 = k4
    k5 = k5
    folder = folder
    old1 = old1
    old2 = old2
    NoKey = NoKey
    Keys <- WideKeys
    Pages <- WidePages
    ZeroSize <- WideZeroSize
    CompletedBefore <- WideCompleted
    Workers = 2
    Failures = {"failed", "fatal"}
    ListFails = FALSE
INVARIANT ShutdownFinishesInFlight
