---------------------------- MODULE SectionDecode ----------------------------
(***************************************************************************)
(* dnsasm_parse_question and dnsasm_parse_rr (src/dnsasm/src/dnsasm.c):    *)
(* both call dnsasm_decompress_name at the offset, then check and read     *)
(* their fixed-width trailer.  The name call is the loop of               *)
(* NameDecompress, instantiated with the same state; the trailer is one    *)
(* step once the name call has returned.                                   *)
(*                                                                         *)
(* The trailer's type, class and TTL values are not told apart by any      *)
(* property and are left out; their reads are recorded in readIdx.         *)
(***************************************************************************)
EXTENDS Integers, Sequences, FiniteSets

CONSTANTS Packets, MaxHops, MaxNameLen

VARIABLES
    buf, off, pos, out, wire, counting, hops, pc, err, readIdx, visited,
    kind,        \* "question" (dnsasm_parse_question) or "rr" (dnsasm_parse_rr)
    phase,       \* "name" until the name call returns, then "done"
    resError,    \* result.error
    resOffset,   \* result.offset: the offset after the section
    wireLenOut,  \* out->wire_len, a uint16_t
    rdlength,    \* out->rdlength (rr only)
    rdataAt      \* out->rdata - packet (rr only)

N == INSTANCE NameDecompress

nameVars == <<buf, off, pos, out, wire, counting, hops, pc, err, readIdx, visited>>
sectionVars == <<kind, phase, resError, resOffset, wireLenOut, rdlength, rdataAt>>
vars == <<nameVars, sectionVars>>

\* Bytes of the fixed trailer: qtype + qclass, or type + class + ttl + rdlength.
QuestionTrailer == 4
RRTrailer == 10

\* A uint16_t cast.
U16(x) == x % 65536

\* bswap16 of the 16-bit load at packet + i.
Read16(i) == N!ByteAt(i) * 256 + N!ByteAt(i + 1)

\* Mutant of HasRoom: `pos + n > len + 1`, one byte too lenient.
HasRoomByOne(p, n) == p + n <= N!PacketLen + 1

\* The fixed-width check: `pos + n > len` is DNSASM_ERR_SHORT.
HasRoom(p, n) == p + n <= N!PacketLen

\* Mutant of RdataFits: the rdata check left out.
RdataFitsUnchecked(q, rdl) == TRUE

\* `pos + out->rdlength > len` is DNSASM_ERR_SHORT.
RdataFits(q, rdl) == q + rdl <= N!PacketLen

\* Mutant of AfterSection: the consumed count returned instead of the
\* offset after the section.
AfterSectionRelative(p, n) == p + n - off

\* result.offset: the offset after the n bytes at p.
AfterSection(p, n) == p + n

\* Return with result = {e, 0}.
Fail(e) ==
    /\ phase' = "done" /\ resError' = e /\ resOffset' = 0

Init ==
    /\ N!Init
    /\ kind \in {"question", "rr"}
    /\ phase = "name"
    /\ resError = N!DNSASM_OK
    /\ resOffset = 0
    /\ wireLenOut = 0
    /\ rdlength = 0
    /\ rdataAt = 0

\* One iteration of the name call (dnsasm.c:162 / dnsasm.c:195).
NameStep ==
    /\ phase = "name"
    /\ N!LoopExit \/ N!Pointer \/ N!Terminator \/ N!Label
    /\ UNCHANGED sectionVars

\* The name call failed: its result is returned unchanged.
NameFailed ==
    /\ phase = "name"
    /\ pc = "done"
    /\ err # N!DNSASM_OK
    /\ Fail(err)
    /\ readIdx' = {}
    /\ UNCHANGED <<kind, wireLenOut, rdlength, rdataAt>>
    /\ UNCHANGED <<buf, off, pos, out, wire, counting, hops, pc, err, visited>>

\* After a successful name: the check for 4 more bytes, then qtype and
\* qclass, out->wire_len and the offset after the question.
ParseQuestionTrailer ==
    /\ phase = "name"
    /\ pc = "done"
    /\ err = N!DNSASM_OK
    /\ kind = "question"
    /\ LET p == off + wire IN
         \/ /\ ~HasRoom(p, QuestionTrailer)
            /\ Fail(N!DNSASM_ERR_SHORT)
            /\ readIdx' = {}
            /\ UNCHANGED wireLenOut
         \/ /\ HasRoom(p, QuestionTrailer)
            /\ phase' = "done"
            /\ resError' = N!DNSASM_OK
            /\ resOffset' = AfterSection(p, QuestionTrailer)
            /\ wireLenOut' = U16(wire + QuestionTrailer)
            /\ readIdx' = p..(p + QuestionTrailer - 1)
    /\ UNCHANGED <<kind, rdlength, rdataAt>>
    /\ UNCHANGED <<buf, off, pos, out, wire, counting, hops, pc, err, visited>>

\* After a successful name: the check for 10 more bytes, the fixed fields,
\* the check that rdlength bytes follow, and the rdata view.
ParseRRTrailer ==
    /\ phase = "name"
    /\ pc = "done"
    /\ err = N!DNSASM_OK
    /\ kind = "rr"
    /\ LET p == off + wire IN
         \/ /\ ~HasRoom(p, RRTrailer)
            /\ Fail(N!DNSASM_ERR_SHORT)
            /\ readIdx' = {}
            /\ UNCHANGED <<wireLenOut, rdlength, rdataAt>>
         \/ /\ HasRoom(p, RRTrailer)
            /\ LET rdl == Read16(p + 8)
                   q == p + RRTrailer
               IN  /\ rdlength' = rdl
                   /\ readIdx' = p..(q - 1)
                   /\ \/ /\ ~RdataFits(q, rdl)
                         /\ Fail(N!DNSASM_ERR_SHORT)
                         /\ UNCHANGED <<wireLenOut, rdataAt>>
                      \/ /\ RdataFits(q, rdl)
                         /\ phase' = "done"
                         /\ resError' = N!DNSASM_OK
                         /\ resOffset' = AfterSection(q, rdl)
                         /\ rdataAt' = q
                         /\ wireLenOut' = U16(wire + RRTrailer + rdl)
    /\ UNCHANGED kind
    /\ UNCHANGED <<buf, off, pos, out, wire, counting, hops, pc, err, visited>>

\* The section call has returned.
Returned ==
    /\ phase = "done"
    /\ UNCHANGED vars

Next == NameStep \/ NameFailed \/ ParseQuestionTrailer \/ ParseRRTrailer \/ Returned

Spec == Init /\ [][Next]_vars /\ WF_vars(Next)

SectionSucceeded == phase = "done" /\ resError = N!DNSASM_OK

-----------------------------------------------------------------------------
(* Properties *)

\* Every section variable holds a value of its type.
TypeOK ==
    /\ N!TypeOK
    /\ kind \in {"question", "rr"}
    /\ phase \in {"name", "done"}
    /\ resError \in N!ErrorCode
    /\ resOffset \in Nat
    /\ wireLenOut \in 0..65535
    /\ rdlength \in 0..65535
    /\ rdataAt \in Nat

\* No read of the name loop or of the trailer goes past the packet.
NoOutOfBoundsRead == N!NoOutOfBoundsRead

\* A successful section lets the caller advance: result.offset is the
\* offset plus out->wire_len, it lies within the packet, and the name's
\* consumed count is the extent of its own encoding.
AdvanceConsistent ==
    SectionSucceeded =>
        /\ resOffset = off + wireLenOut
        /\ resOffset <= N!PacketLen
        /\ wire = N!TopLevelExtent(off)

\* The rdata view of a successful record is the rdlength bytes after the
\* fixed fields, inside the packet (it borrows from the packet).
RdataWithinPacket ==
    (SectionSucceeded /\ kind = "rr") =>
        /\ rdataAt = off + wire + RRTrailer
        /\ rdataAt + rdlength = resOffset
        /\ resOffset <= N!PacketLen

\* spec 4.3/4.4: the name of a successfully decoded question or record is
\* terminated by the zero-length label.
SectionNameTerminated ==
    SectionSucceeded => (Len(out) > 0 /\ out[Len(out)] = 0)

=============================================================================
