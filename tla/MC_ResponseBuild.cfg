CONSTANTS
    HostLittleEndian = TRUE
    Names <- MCNames
    Ttls <- MCTtls
    Ips <- MCIps
    Packets <- MCPackets
SPECIFICATION Spec
INVARIANTS
    ARecordLayout
    RecordRoundTrip
