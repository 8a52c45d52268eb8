CONSTANTS
    HostLittleEndian = FALSE
    Names <- MCNames
    Ttls <- MCTtls
    Ips <- MCIps
    Packets <- MCPackets
SPECIFICATION Spec
INVARIANTS
    ARecordLayout
