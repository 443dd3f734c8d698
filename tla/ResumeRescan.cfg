SPECIFICATION Spec
CONSTANTS
    NoFile = NoFile
    Corrupt = Corrupt
    Keys <- MCKeys
    RemoteFlags <- NoFlags
    LocalFlags <- RescanFlags
    MaxRuns = 3
    MaxChanges = 1
    MaxFaults = 1
INVARIANT RescanIsHonoured
