SPECIFICATION Spec
CONSTANTS
    NoFile = NoFile
    Corrupt = Corrupt
    Keys <- MCKeys
    RemoteFlags <- MCRemoteFlags
    LocalFlags <- MCLocalFlags
    MaxRuns = 3
    MaxChanges = 1
    MaxFaults = 1
INVARIANTS
    TypeOK
    LedgerSound
    AlreadyCompleteSound
    CompareAgrees
    FinalSyncIsLast
PROPERTIES
    RecordedUntouched
