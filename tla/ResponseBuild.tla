----------------------------- MODULE ResponseBuild -----------------------------
(***************************************************************************)
(* dnsasm_copy_question and dnsasm_build_a_record (dnsasm.c 251-289): the  *)
(* encoders that write into a caller buffer, sized by the caller.  The A   *)
(* record's numeric fields go through bswap16/bswap32 and pointer-cast     *)
(* stores at out + pos, where pos advances field by field.  The record is  *)
(* then read back with the loads dnsasm_parse_rr makes (dnsasm.c 210-223). *)
(***************************************************************************)
EXTENDS Integers, Sequences, ByteOrder

CONSTANTS
    Names,     \* (name, name_len) arguments, as byte sequences
    Ttls,      \* ttl arguments
    Ips,       \* ip arguments: 4 bytes, network order
    Packets    \* source packets of dnsasm_copy_question

ASSUME InputsAssumption ==
    /\ Names \subseteq Seq(Byte)
    /\ Ttls \subseteq Word32
    /\ Ips \subseteq [1..4 -> Byte]
    /\ Packets \subseteq Seq(Byte)

DNS_TYPE_A == 1
DNS_CLASS_IN == 1
A_RDLENGTH == 4

VARIABLES
    out,    \* the caller's buffer: out[k + 1] is the byte at out + k
    ret,    \* the value returned: the number of bytes written
    call,   \* the call made and its arguments, or "none"
    phase   \* "idle", "done"

vars == <<out, ret, call, phase>>

\* A store or memcpy of the bytes bs at out + p.
Write(o, p, bs) ==
    [k \in DOMAIN o \cup ((p + 1)..(p + Len(bs))) |->
        IF k \in (p + 1)..(p + Len(bs)) THEN bs[k - p] ELSE o[k]]

\* Mutant of ARecordAdvances: the last `pos += 4`, after the address, left
\* out.
ARecordAdvancesNoIp(name) == <<Len(name), 2, 2, 4, 2, 0>>

\* The `pos +=` of each field: name, type, class, ttl, rdlength, rdata.
ARecordAdvances(name) == <<Len(name), 2, 2, 4, 2, 4>>

\* The bytes of the stores of type, class, ttl and rdlength.
TypeField == StoreU16(Bswap16(DNS_TYPE_A))
ClassField == StoreU16(Bswap16(DNS_CLASS_IN))
TtlField(ttl) == StoreU32(Bswap32(ttl))
RdlengthField == StoreU16(Bswap16(A_RDLENGTH))

\* The buffer after dnsasm_build_a_record(out, name, name_len, ttl, ip),
\* and the pos it returns.
ARecordOut(name, ttl, ip) ==
    LET adv == ARecordAdvances(name)
        p1 == adv[1]
        p2 == p1 + adv[2]
        p3 == p2 + adv[3]
        p4 == p3 + adv[4]
        p5 == p4 + adv[5]
        o1 == Write(<<>>, 0, name)
        o2 == Write(o1, p1, TypeField)
        o3 == Write(o2, p2, ClassField)
        o4 == Write(o3, p3, TtlField(ttl))
        o5 == Write(o4, p4, RdlengthField)
    IN  [bytes |-> Write(o5, p5, ip), pos |-> p5 + adv[6]]

Init ==
    /\ out = <<>>
    /\ ret = 0
    /\ call = "none"
    /\ phase = "idle"

\* dnsasm_copy_question(out, packet, offset, qlen), for the offset and
\* qlen of a question inside the packet (the caller's bound).
CopyQuestion ==
    /\ phase = "idle"
    /\ \E pkt \in Packets :
         \E offset \in 0..Len(pkt), qlen \in 0..Len(pkt) :
            /\ offset + qlen <= Len(pkt)
            /\ out' = Write(out, 0, SubSeq(pkt, offset + 1, offset + qlen))
            /\ ret' = qlen
            /\ call' = [fn |-> "copy", pkt |-> pkt, offset |-> offset, qlen |-> qlen]
    /\ phase' = "done"

\* dnsasm_build_a_record(out, name, name_len, ttl, ip).
BuildARecord ==
    /\ phase = "idle"
    /\ \E name \in Names, ttl \in Ttls, ip \in Ips :
         LET r == ARecordOut(name, ttl, ip)
         IN  /\ out' = r.bytes
             /\ ret' = r.pos
             /\ call' = [fn |-> "arecord", name |-> name, ttl |-> ttl, ip |-> ip]
    /\ phase' = "done"

\* The call has returned.
Returned ==
    /\ phase = "done"
    /\ UNCHANGED vars

Next == CopyQuestion \/ BuildARecord \/ Returned

Spec == Init /\ [][Next]_vars /\ WF_vars(Next)

\* The fixed fields dnsasm_parse_rr reads at pos: type, class, ttl and
\* rdlength through bswap16/bswap32 of pointer-cast loads.
ParseRRFixed(b, pos) ==
    [type |-> Bswap16(LoadU16(b, pos)), class |-> Bswap16(LoadU16(b, pos + 2)),
     ttl |-> Bswap32(LoadU32(b, pos + 4)), rdlength |-> Bswap16(LoadU16(b, pos + 8))]

-----------------------------------------------------------------------------
(* Properties *)

\* dnsasm_parse_rr, applied to the record dnsasm_build_a_record wrote,
\* reads back type A, class IN, the ttl given and rdlength 4, the 4 address
\* bytes as rdata, and ends its record at the pos the builder returned.
RecordRoundTrip ==
    (phase = "done" /\ call.fn = "arecord") =>
        LET n == Len(call.name)
            f == ParseRRFixed(out, n)
        IN  /\ f = [type |-> DNS_TYPE_A, class |-> DNS_CLASS_IN,
                    ttl |-> call.ttl, rdlength |-> A_RDLENGTH]
            /\ SubSeq(out, n + 11, n + 10 + f.rdlength) = call.ip
            /\ ret = n + 10 + f.rdlength
            /\ DOMAIN out = 1..ret

\* spec 4.5: the A record is the name bytes, then type A, class IN, the
\* ttl, rdlength 4 and the address, all numbers big-endian.
ARecordLayout ==
    (phase = "done" /\ call.fn = "arecord") =>
        out = call.name \o <<0, DNS_TYPE_A>> \o <<0, DNS_CLASS_IN>>
                \o <<call.ttl[1], call.ttl[2], call.ttl[3], call.ttl[4]>>
                \o <<0, A_RDLENGTH>> \o call.ip

=============================================================================
