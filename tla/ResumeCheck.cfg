SPECIFICATION Spec
CONSTANTS
    NoFile = NoFile
    Corrupt = Corrupt
    Keys <- MCKeys
    RemoteFlags <- NoFlags
    LocalFlags <- CheckFlags
    MaxRuns = 3
    MaxChanges = 0
    MaxFaults = 1
INVARIANT CheckedIsVerified
