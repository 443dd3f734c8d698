SPECIFICATION Spec
CONSTANTS
    NoFile = NoFile
    Corrupt = Corrupt
    Keys <- MCKeys
    RemoteFlags <- PlainFlags
    LocalFlags <- NoFlags
    MaxRuns = 2
    MaxChanges = 0
    MaxFaults = 0
PROPERTY LogIsAppendOnly
