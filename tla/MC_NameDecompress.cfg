CONSTANTS
    Packets <- MCPackets
    MaxHops <- MCMaxHops
    MaxNameLen <- MCMaxNameLen
SPECIFICATION Spec
INVARIANTS
    TypeOK
    NoOutOfBoundsRead
    OutWithinCapacity
    WireLenIsTopLevelExtent
PROPERTIES
    Termination
