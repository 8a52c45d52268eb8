CONSTANTS
    HostLittleEndian = FALSE
    Ids <- MCIds
    FlagWords <- MCFlagWords
    Counts <- MCCounts
SPECIFICATION Spec
INVARIANTS WireBigEndian
