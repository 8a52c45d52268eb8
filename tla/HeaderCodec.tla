----------------------------- MODULE HeaderCodec -----------------------------
(***************************************************************************)
(* dnsasm_build_header and dnsasm_parse_header (src/dnsasm/src/dnsasm.c).  *)
(* A header is built into a 12-byte buffer, and the buffer is handed to    *)
(* the parser with a length the caller chooses (a datagram may be cut      *)
(* short).  Both functions move each 16-bit field through a uint16_t      *)
(* pointer cast and bswap16, so the bytes they produce and read depend on  *)
(* the host's byte order, the constant HostLittleEndian of ByteOrder.      *)
(***************************************************************************)
EXTENDS Integers, Sequences, ByteOrder

CONSTANTS
    Ids,               \* values given for id
    FlagWords,         \* values given for flags
    Counts             \* values given for the four section counts

ASSUME FieldsAssumption ==
    /\ Ids \subseteq Word16 /\ Ids # {}
    /\ FlagWords \subseteq Word16 /\ FlagWords # {}
    /\ Counts \subseteq Word16 /\ Counts # {}

DNS_HEADER_SIZE == 12
DNSASM_OK == 0
DNSASM_ERR_SHORT == -1

\* The six 16-bit fields, numbered in wire order: id, flags, qdcount,
\* ancount, nscount, arcount.  Field j is at offset 2(j - 1).
Field == 1..6
FLAGS == 2

VARIABLES
    wire,     \* the caller's buffer: the 12 bytes dnsasm_build_header wrote
    sent,     \* the field values given to dnsasm_build_header
    len,      \* the len given to dnsasm_parse_header
    hdr,      \* *out of dnsasm_parse_header (meaningful once ret = DNSASM_OK)
    ret,      \* its return value
    readIdx,  \* buffer positions the parser read
    phase     \* "build", "parse", "done"

vars == <<wire, sent, len, hdr, ret, readIdx, phase>>

\* Mutant of HeaderBytes: the fields stored without bswap16.
HeaderBytesNoSwap(f) ==
    [k \in 1..12 |-> StoreU16(f[(k + 1) \div 2])[2 - (k % 2)]]

\* The 12 bytes dnsasm_build_header writes: field j at offset 2(j - 1).
HeaderBytes(f) ==
    [k \in 1..12 |-> StoreU16(Bswap16(f[(k + 1) \div 2]))[2 - (k % 2)]]

\* Mutant of HeaderFits: `len < DNS_HEADER_SIZE - 1`.
HeaderFitsByOne(n) == n >= DNS_HEADER_SIZE - 1

\* The early return of dnsasm_parse_header: `len < DNS_HEADER_SIZE`.
HeaderFits(n) == n >= DNS_HEADER_SIZE

\* Mutant of ParseFlags: the opcode masked with 0x07.
ParseFlagsOpcodeMask7(f) ==
    [qr |-> (f \div 32768) % 2, opcode |-> (f \div 2048) % 8,
     aa |-> (f \div 1024) % 2, tc |-> (f \div 512) % 2,
     rd |-> (f \div 256) % 2, ra |-> (f \div 128) % 2, rcode |-> f % 16]

\* The sub-fields: (flags >> s) & m is (f \div 2^s) % (m + 1), for the
\* shifts 15, 11, 10, 9, 8, 7 and 0.
ParseFlags(f) ==
    [qr |-> (f \div 32768) % 2, opcode |-> (f \div 2048) % 16,
     aa |-> (f \div 1024) % 2, tc |-> (f \div 512) % 2,
     rd |-> (f \div 256) % 2, ra |-> (f \div 128) % 2, rcode |-> f % 16]

\* The six fields read back: bswap16 of the load at offset 2(j - 1).
ParseFields(b) == [j \in Field |-> Bswap16(LoadU16(b, 2 * j - 2))]

Init ==
    /\ wire = <<>>
    /\ sent = [j \in Field |-> 0]
    /\ len = 0
    /\ hdr = [fields |-> sent, bits |-> ParseFlags(0)]
    /\ ret = DNSASM_OK
    /\ readIdx = {}
    /\ phase = "build"

\* dnsasm_build_header(out, id, flags, qdcount, ancount, nscount, arcount).
BuildHeader ==
    /\ phase = "build"
    /\ \E id \in Ids, flags \in FlagWords, qd, an, ns, ar \in Counts :
         LET f == <<id, flags, qd, an, ns, ar>>
         IN  /\ sent' = f
             /\ wire' = HeaderBytes(f)
    /\ phase' = "parse"
    /\ UNCHANGED <<len, hdr, ret, readIdx>>

\* dnsasm_parse_header(wire, n, &hdr) for a length n of the caller's choice.
ParseHeader ==
    /\ phase = "parse"
    /\ \E n \in 0..Len(wire) :
         /\ len' = n
         /\ \/ /\ ~HeaderFits(n)
               /\ ret' = DNSASM_ERR_SHORT
               /\ UNCHANGED <<hdr, readIdx>>
            \/ /\ HeaderFits(n)
               /\ LET fs == ParseFields(wire)
                  IN  hdr' = [fields |-> fs, bits |-> ParseFlags(fs[FLAGS])]
               /\ ret' = DNSASM_OK
               /\ readIdx' = 0..(DNS_HEADER_SIZE - 1)
    /\ phase' = "done"
    /\ UNCHANGED <<wire, sent>>

\* Both calls have returned.
Returned ==
    /\ phase = "done"
    /\ UNCHANGED vars

Next == BuildHeader \/ ParseHeader \/ Returned

Spec == Init /\ [][Next]_vars /\ WF_vars(Next)

-----------------------------------------------------------------------------
(* Properties *)

BitsType == [qr : 0..1, opcode : 0..15, aa : 0..1, tc : 0..1,
             rd : 0..1, ra : 0..1, rcode : 0..15]

\* Every variable holds a value of its C type.
TypeOK ==
    /\ wire \in Seq(Byte)
    /\ sent \in [Field -> Word16]
    /\ len \in Nat
    /\ hdr \in [fields : [Field -> Word16], bits : BitsType]
    /\ ret \in {DNSASM_OK, DNSASM_ERR_SHORT}
    /\ readIdx \subseteq Nat
    /\ phase \in {"build", "parse", "done"}

\* The flags word recomposed from the parsed sub-fields and the reserved
\* bits 4-6: the reference for what the masks and shifts must extract.
Recompose(b, z) ==
    b.qr * 32768 + b.opcode * 2048 + b.aa * 1024 + b.tc * 512
      + b.rd * 256 + b.ra * 128 + z * 16 + b.rcode

\* spec 8: dnsasm_parse_header of what dnsasm_build_header wrote returns
\* the six values given, and sub-fields that, with the reserved bits,
\* make up the flags word bit for bit.
HeaderRoundTrip ==
    (phase = "done" /\ ret = DNSASM_OK) =>
        /\ hdr.fields = sent
        /\ \E z \in 0..7 : Recompose(hdr.bits, z) = sent[FLAGS]

\* dnsasm_parse_header reads nothing beyond len, and nothing at all when it
\* returns DNSASM_ERR_SHORT.
NoOutOfBoundsRead ==
    /\ readIdx \subseteq 0..(len - 1)
    /\ (ret = DNSASM_ERR_SHORT => readIdx = {})

\* spec 6: the header is big-endian on the wire: the high byte of each
\* field comes first, whatever the host.
WireBigEndian ==
    phase # "build" =>
        \A j \in Field :
            /\ wire[2 * j - 1] = sent[j] \div 256
            /\ wire[2 * j] = sent[j] % 256

=============================================================================
