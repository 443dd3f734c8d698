SPECIFICATION ProgramSpec
CONSTANTS
    a = a
    b = b
    five = five
    tabbed = tabbed
    Time = Time
    Size = Size
    MD5 = MD5
    Junk = Junk
    Keys <- MCKeys
    Pieces <- MCPieces
    Numeric <- MCNumeric
    MaxLines = 3
    MaxTears = 1
    Speeds <- MCSpeeds
    scalingLevels <- MCLevels
INVARIANTS
    LoadedWasMarked
    KillLosesNothing
    TearsStayLocal
    LevelsMeasured
    StallsAreConsecutive
    PlateauNotRecommended
