SPECIFICATION Spec
CONSTANTS
    plain = plain
    multi = multi
    v1 = v1
    v2 = v2
    NoObject = NoObject
    Keys <- MCKeys
    Contents <- MCContents
    SizeOf <- MCSizeOf
    Listed <- MCListed
    Multipart <- MCMultipart
    MaxRetries = 1
    Faults <- MCFaults
    CloseAmbiguous = TRUE
    MaxOverwrites = 1
INVARIANTS
    TypeOK
    CompletedVerified
    GivesUpForCause
PROPERTIES
    CancelNotRetried
    LedgerSpec
