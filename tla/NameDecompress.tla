--------------------------- MODULE NameDecompress ---------------------------
(***************************************************************************)
(* The DNS name decompression loop of dnsasm_decompress_name               *)
(* (src/dnsasm/src/dnsasm.c).  One call is a behaviour: Init picks the     *)
(* packet and the offset the caller passes, every step is one iteration of *)
(* the `while (pos < len)` loop, and the call returns when pc = "done".    *)
(*                                                                         *)
(* Bytes are 0..255 as in the code.  Positions are the code's 0-based      *)
(* offsets; packet[i] is buf[i + 1].                                       *)
(***************************************************************************)
EXTENDS Integers, Sequences, FiniteSets

CONSTANTS
    Packets,      \* the packets (byte sequences) a caller may pass
    MaxHops,      \* the loop-detection bound, 127 in the code
    MaxNameLen    \* DNS_MAX_NAME_LEN, 255 in the code

Byte == 0..255

ASSUME PacketsAssumption == Packets \subseteq Seq(Byte) /\ Packets # {}
ASSUME MaxHopsAssumption == MaxHops \in Nat
ASSUME MaxNameLenAssumption == MaxNameLen \in Nat

\* Error codes of include/dnsasm.h
DNSASM_OK           == 0
DNSASM_ERR_SHORT    == -1
DNSASM_ERR_NAME     == -2
DNSASM_ERR_POINTER  == -3
DNSASM_ERR_LOOP     == -4
DNSASM_ERR_OVERFLOW == -5

ErrorCode == {DNSASM_OK, DNSASM_ERR_SHORT, DNSASM_ERR_NAME,
              DNSASM_ERR_POINTER, DNSASM_ERR_LOOP, DNSASM_ERR_OVERFLOW}

\* Largest length of a regular label: `label_len > 63` is DNSASM_ERR_NAME.
MaxLabelLen == 63

VARIABLES
    buf,       \* packet[0 .. len-1]
    off,       \* the offset argument
    pos,       \* size_t pos
    out,       \* out[0 .. out_pos-1]: the decompressed bytes written so far
    wire,      \* size_t wire_len
    counting,  \* int counting_wire
    hops,      \* int ptr_count
    pc,        \* "loop" while iterating, "done" once returned
    err,       \* result.error once returned
    readIdx,   \* the packet positions the last iteration read
    visited    \* the positions whose length byte has been read

vars == <<buf, off, pos, out, wire, counting, hops, pc, err, readIdx, visited>>

PacketLen == Len(buf)

\* packet[i].  The code only reads below len; a read beyond it (undefined
\* behaviour) yields 0 here, and NoOutOfBoundsRead flags the step.
ByteAt(i) == IF 0 <= i /\ i < PacketLen THEN buf[i + 1] ELSE 0

\* packet[i .. i+n-1]
Span(i, n) == [k \in 1..n |-> ByteAt(i + k - 1)]

\* (label_len & 0xC0) == 0xC0
IsPointer(b) == b >= 192

\* Mutant of PtrTarget: the length byte taken as a signed char and the
\* 0x3F mask dropped, so a pointer's target is negative.
PtrTargetSigned(b1, b2) == (b1 - 256) * 256 + b2

\* ((label_len & 0x3F) << 8) | packet[pos + 1]
PtrTarget(b1, b2) == (b1 - 192) * 256 + b2

\* The checks of the pointer branch, in the code's order: the result is the
\* error returned, or DNSASM_OK when the pointer is followed.
PointerCheck(p) ==
    IF p + 1 >= PacketLen THEN DNSASM_ERR_SHORT
    ELSE IF hops + 1 > MaxHops THEN DNSASM_ERR_LOOP
    ELSE IF PtrTarget(ByteAt(p), ByteAt(p + 1)) >= p THEN DNSASM_ERR_POINTER
    ELSE DNSASM_OK

\* Mutant of LabelCheck: bounds check `pos + label_len > len` (off by one).
LabelCheckShortByOne(p, b) ==
    IF b > MaxLabelLen THEN DNSASM_ERR_NAME
    ELSE IF p + b > PacketLen THEN DNSASM_ERR_SHORT
    ELSE IF Len(out) + 1 + b > MaxNameLen THEN DNSASM_ERR_OVERFLOW
    ELSE DNSASM_OK

\* Mutant of LabelCheck: overflow check `out_pos + label_len > MAX`, which
\* leaves no room for the terminator.
LabelCheckNoTerminatorRoom(p, b) ==
    IF b > MaxLabelLen THEN DNSASM_ERR_NAME
    ELSE IF p + 1 + b > PacketLen THEN DNSASM_ERR_SHORT
    ELSE IF Len(out) + b > MaxNameLen THEN DNSASM_ERR_OVERFLOW
    ELSE DNSASM_OK

\* The checks of the regular-label branch, in the code's order.
LabelCheck(p, b) ==
    IF b > MaxLabelLen THEN DNSASM_ERR_NAME
    ELSE IF p + 1 + b > PacketLen THEN DNSASM_ERR_SHORT
    ELSE IF Len(out) + 1 + b > MaxNameLen THEN DNSASM_ERR_OVERFLOW
    ELSE DNSASM_OK

\* An early `return result` with result.error = e.
Return(e) == pc' = "done" /\ err' = e

Init ==
    /\ buf \in Packets
    /\ off \in 0..Len(buf)
    /\ pos = off
    /\ out = <<>>
    /\ wire = 0
    /\ counting = TRUE
    /\ hops = 0
    /\ pc = "loop"
    /\ err = DNSASM_OK
    /\ readIdx = {}
    /\ visited = {}

\* `while (pos < len)` fails: the loop ends and the call reports success.
LoopExit ==
    /\ pc = "loop"
    /\ pos >= PacketLen
    /\ Return(DNSASM_OK)
    /\ readIdx' = {}
    /\ UNCHANGED <<buf, off, pos, out, wire, counting, hops, visited>>

\* Mutant of Pointer: the naive decoder, with no hop counter and a pointer
\* accepted unless it points forward (`ptr > pos`).
PointerNoLoopDetection ==
    /\ pc = "loop"
    /\ pos < PacketLen
    /\ IsPointer(ByteAt(pos))
    /\ visited' = visited \cup {pos}
    /\ IF pos + 1 >= PacketLen
       THEN Return(DNSASM_ERR_SHORT) /\ readIdx' = {pos}
            /\ UNCHANGED <<pos, wire, counting>>
       ELSE /\ readIdx' = {pos, pos + 1}
            /\ wire' = IF counting THEN wire + 2 ELSE wire
            /\ counting' = FALSE
            /\ LET t == PtrTarget(ByteAt(pos), ByteAt(pos + 1)) IN
                 \/ t > pos /\ Return(DNSASM_ERR_POINTER) /\ UNCHANGED pos
                 \/ t <= pos /\ pos' = t /\ UNCHANGED <<pc, err>>
    /\ UNCHANGED <<buf, off, out, hops>>

\* A length byte with its top two bits set: a compression pointer.  The
\* wire count is frozen and the hop counter incremented before the loop
\* and direction checks, as in the code.
Pointer ==
    /\ pc = "loop"
    /\ pos < PacketLen
    /\ IsPointer(ByteAt(pos))
    /\ visited' = visited \cup {pos}
    /\ LET e == PointerCheck(pos) IN
         IF e = DNSASM_ERR_SHORT
         THEN /\ Return(e)
              /\ readIdx' = {pos}
              /\ UNCHANGED <<pos, wire, counting, hops>>
         ELSE /\ readIdx' = {pos, pos + 1}
              /\ wire' = IF counting THEN wire + 2 ELSE wire
              /\ counting' = FALSE
              /\ hops' = hops + 1
              /\ \/ e # DNSASM_OK /\ Return(e) /\ UNCHANGED pos
                 \/ e = DNSASM_OK /\ pos' = PtrTarget(ByteAt(pos), ByteAt(pos + 1))
                                  /\ UNCHANGED <<pc, err>>
    /\ UNCHANGED <<buf, off, out>>

\* Mutant of Terminator: the terminator byte counted even after a pointer.
TerminatorCountsAlways ==
    /\ pc = "loop"
    /\ pos < PacketLen
    /\ ByteAt(pos) = 0
    /\ out' = Append(out, 0)
    /\ wire' = wire + 1
    /\ Return(DNSASM_OK)
    /\ readIdx' = {pos}
    /\ visited' = visited \cup {pos}
    /\ UNCHANGED <<buf, off, pos, counting, hops>>

\* A zero length byte: the terminator is written and the call succeeds.
Terminator ==
    /\ pc = "loop"
    /\ pos < PacketLen
    /\ ByteAt(pos) = 0
    /\ out' = Append(out, 0)
    /\ wire' = IF counting THEN wire + 1 ELSE wire
    /\ Return(DNSASM_OK)
    /\ readIdx' = {pos}
    /\ visited' = visited \cup {pos}
    /\ UNCHANGED <<buf, off, pos, counting, hops>>

\* Any other length byte: a regular label, checked and then copied.
Label ==
    /\ pc = "loop"
    /\ pos < PacketLen
    /\ LET b == ByteAt(pos)
           e == LabelCheck(pos, b)
       IN  /\ b # 0
           /\ ~IsPointer(b)
           /\ \/ /\ e # DNSASM_OK
                 /\ Return(e)
                 /\ readIdx' = {pos}
                 /\ UNCHANGED <<pos, out, wire>>
              \/ /\ e = DNSASM_OK
                 /\ out' = Append(out, b) \o Span(pos + 1, b)
                 /\ wire' = IF counting THEN wire + 1 + b ELSE wire
                 /\ pos' = pos + 1 + b
                 /\ readIdx' = {pos + k : k \in 0..b}
                 /\ UNCHANGED <<pc, err>>
    /\ visited' = visited \cup {pos}
    /\ UNCHANGED <<buf, off, counting, hops>>

\* The call has returned; the caller holds the result.
Returned ==
    /\ pc = "done"
    /\ UNCHANGED vars

Next == LoopExit \/ Pointer \/ Terminator \/ Label \/ Returned

\* The loop is sequential code: an iteration that can run does run.
Spec == Init /\ [][Next]_vars /\ WF_vars(Next)

\* The result of the call: wire bytes consumed in result.offset on success,
\* result = {error, 0} on an early return (result.offset is never set).
ResultOffset == IF err = DNSASM_OK THEN wire ELSE 0

Succeeded == pc = "done" /\ err = DNSASM_OK

-----------------------------------------------------------------------------
(***************************************************************************)
(* Reference: the extent of the name's own encoding at p0, the labels up   *)
(* to and including the first terminator or pointer, without following    *)
(* any pointer.  A caller adds the consumed count to the offset to reach   *)
(* the bytes after the name.                                               *)
(***************************************************************************)
TopLevelExtent(p0) ==
    LET ext[p \in Nat] ==
          IF p >= PacketLen THEN p
          ELSE IF IsPointer(ByteAt(p)) THEN p + 2
          ELSE IF ByteAt(p) = 0 THEN p + 1
          ELSE ext[p + 1 + ByteAt(p)]
    IN  ext[p0] - p0

-----------------------------------------------------------------------------
(* Properties *)

\* Every variable holds a value of its type.
TypeOK ==
    /\ buf \in Seq(Byte)
    /\ off \in 0..Len(buf)
    /\ pos \in Nat
    /\ out \in Seq(Byte)
    /\ wire \in Nat
    /\ counting \in BOOLEAN
    /\ hops \in Nat
    /\ pc \in {"loop", "done"}
    /\ err \in ErrorCode
    /\ readIdx \subseteq Nat
    /\ visited \subseteq Nat

\* No iteration reads packet[i] for i >= len: every read of a length byte,
\* of the pointer's second byte and of the label bytes (the memcpy) is
\* preceded by a bounds check that covers it.
NoOutOfBoundsRead == readIdx \subseteq 0..(PacketLen - 1)

\* The decompressed name never overruns out[], which holds
\* DNS_MAX_NAME_LEN + 1 bytes (dnsasm_question_t.name, dnsasm_rr_t.name):
\* the overflow check leaves room for the terminator.
OutWithinCapacity == Len(out) <= MaxNameLen + 1

\* On success the consumed count is exactly the extent of the name's own
\* encoding: labels count until the first pointer, which counts 2 and
\* freezes the count, so chained pointers add nothing.
WireLenIsTopLevelExtent ==
    Succeeded => wire = TopLevelExtent(off)

\* Every call returns, whatever the packet: pointers followed are bounded
\* by the hop counter and the backward rule, labels by the output limit.
Termination == <>(pc = "done")

-----------------------------------------------------------------------------
(* Statements of the spec that the code does not keep (violation runs) *)

\* spec 3/4.2: a decompressed name is a sequence of labels terminated by a
\* zero-length label; a successful decode ends with the terminator byte.
NameTerminated ==
    Succeeded => (Len(out) > 0 /\ out[Len(out)] = 0)

\* spec 3: a decompressed name never exceeds 255 (MaxNameLen) bytes.
NameWithinLimit == Len(out) <= MaxNameLen

\* spec 4.2: the strict-backward-pointer rule "is what prevents infinite
\* loops without needing a visited-set": no length byte is read twice.
NoPositionRevisited ==
    [][(pc = "loop" /\ pos < PacketLen) => pos \notin visited]_vars

=============================================================================
