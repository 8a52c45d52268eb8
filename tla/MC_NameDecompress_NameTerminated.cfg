CONSTANTS
    Packets <- MCPackets
    MaxHops <- MCMaxHops
    MaxNameLen <- MCMaxNameLen
SPECIFICATION Spec
INVARIANT
    NameTerminated
