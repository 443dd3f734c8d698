SPECIFICATION Spec
CONSTANTS
    plain = plain
    multi = multi
    v1 = v1
    v2 = v2
    NoObject = NoObject
    Keys <- MCKeys
    Contents <- MCContents
    SizeOf <- MCSizeOf
    Listed <- MCListed
    Multipart <- MCMultipart
    MaxRetries = 1
    Faults <- MCTransient
    CloseAmbiguous = FALSE
    MaxOverwrites = 0
INVARIANT TransientIsRetried
