SPECIFICATION Spec
CONSTANTS
    plain = plain
    multi = multi
    v1 = v1
    v2 = v2
    NoObject = NoObject
    Keys <- MCKeys
    Contents <- MCContents
    SizeOf <- MCSizeOf
    Listed <- MCListed
    Multipart <- MCMultipart
    MaxRetries = 0
    Faults <- MCEndOfBody
    CloseAmbiguous = FALSE
    MaxOverwrites = 0
INVARIANT NoCorruptLeft
