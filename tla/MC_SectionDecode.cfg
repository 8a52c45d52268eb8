CONSTANTS
    Packets <- MCPackets
    MaxHops <- MCMaxHops
    MaxNameLen <- MCMaxNameLen
SPECIFICATION Spec
INVARIANTS
    
    NoOutOfBoundsRead
    AdvanceConsistent
    RdataWithinPacket
