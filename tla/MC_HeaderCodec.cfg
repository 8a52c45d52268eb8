CONSTANTS
    HostLittleEndian = TRUE
    Ids <- MCIds
    FlagWords <- MCFlagWords
    Counts <- MCCounts
SPECIFICATION Spec
INVARIANTS TypeOK HeaderRoundTrip NoOutOfBoundsRead WireBigEndian
