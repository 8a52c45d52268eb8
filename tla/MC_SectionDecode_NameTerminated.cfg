CONSTANTS
    Packets <- MCLongLabelPackets
    MaxHops <- CodeMaxHops
    MaxNameLen <- CodeMaxNameLen
SPECIFICATION Spec
INVARIANT
    SectionNameTerminated
