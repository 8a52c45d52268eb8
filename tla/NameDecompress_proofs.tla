------------------------ MODULE NameDecompress_proofs ------------------------
(***************************************************************************)
(* Proofs about the name decompression loop, for every packet and every    *)
(* value of MaxHops and MaxNameLen.                                        *)
(***************************************************************************)
EXTENDS NameDecompress, TLAPS

USE MaxHopsAssumption, MaxNameLenAssumption

\* An element of a sequence over S is in S.
LEMMA ElementOfSeq ==
    ASSUME NEW S, NEW s \in Seq(S), NEW i \in 1..Len(s)
    PROVE  s[i] \in S
OBVIOUS

\* The length of a concatenation.
LEMMA ConcatLen ==
    ASSUME NEW S, NEW s \in Seq(S), NEW t \in Seq(S)
    PROVE  Len(s \o t) = Len(s) + Len(t)
OBVIOUS

\* Every byte the loop reads, in or out of bounds, is a byte.
LEMMA ByteAtType ==
    ASSUME buf \in Seq(Byte), NEW i \in Nat
    PROVE  ByteAt(i) \in Byte
<1>1. CASE i < Len(buf)
  <2>1. i + 1 \in 1..Len(buf)
    BY <1>1
  <2>2. buf[i + 1] \in Byte
    BY <2>1, ElementOfSeq
  <2>3. QED
    BY <1>1, <2>2 DEF ByteAt, PacketLen
<1>2. CASE ~(i < Len(buf))
  BY <1>2 DEF ByteAt, PacketLen, Byte
<1>3. QED
  BY <1>1, <1>2

\* The label bytes copied by memcpy form a byte string.
LEMMA SpanType ==
    ASSUME buf \in Seq(Byte), NEW i \in Nat, NEW n \in Nat
    PROVE  Span(i, n) \in Seq(Byte)
<1>1. \A k \in 1..n : ByteAt(i + k - 1) \in Byte
  BY ByteAtType
<1>2. QED
  BY <1>1 DEF Span

\* A followed pointer's target is a position.
LEMMA PtrTargetType ==
    ASSUME NEW hi \in Byte, NEW lo \in Byte, hi >= 192
    PROVE  PtrTarget(hi, lo) \in Nat
BY DEF PtrTarget, Byte

\* A byte is a natural number.
LEMMA ByteNat ==
    ASSUME NEW b \in Byte
    PROVE  b \in Nat
BY DEF Byte

\* The positions of a label read by memcpy are positions.
LEMMA RangeType ==
    ASSUME NEW p \in Nat, NEW n \in Byte
    PROVE  {p + k : k \in 0..n} \subseteq Nat
BY DEF Byte

\* The checks of both branches return one of the code's error codes.
LEMMA CheckType ==
    ASSUME NEW p, NEW b
    PROVE  /\ PointerCheck(p) \in ErrorCode
           /\ LabelCheck(p, b) \in ErrorCode
BY DEF PointerCheck, LabelCheck, ErrorCode, DNSASM_OK, DNSASM_ERR_SHORT,
       DNSASM_ERR_NAME, DNSASM_ERR_POINTER, DNSASM_ERR_LOOP, DNSASM_ERR_OVERFLOW

\* One iteration, or the return, keeps every variable in its type.
LEMMA TypeCorrectStep == TypeOK /\ [Next]_vars => TypeOK'
<1> SUFFICES ASSUME TypeOK, [Next]_vars PROVE TypeOK'
  OBVIOUS
<1>1. CASE LoopExit
  BY <1>1 DEF LoopExit, Return, TypeOK, ErrorCode, DNSASM_OK
<1>2. CASE Pointer
  <2> DEFINE hi == ByteAt(pos)
             lo == ByteAt(pos + 1)
             chk == PointerCheck(pos)
  <2>1. hi \in Byte /\ lo \in Byte
    BY ByteAtType DEF TypeOK
  <2>2. chk \in ErrorCode
    BY CheckType
  <2>3. visited' \subseteq Nat /\ UNCHANGED <<buf, off, out>>
    BY <1>2 DEF Pointer, TypeOK
  <2>4. CASE chk = DNSASM_ERR_SHORT
    <3>1. pc' = "done" /\ err' = chk /\ readIdx' = {pos}
          /\ UNCHANGED <<pos, wire, counting, hops>>
      BY <1>2, <2>4 DEF Pointer, Return
    <3>2. QED
      BY <2>2, <2>3, <3>1 DEF TypeOK
  <2>5. CASE chk # DNSASM_ERR_SHORT
    <3>1. /\ readIdx' = {pos, pos + 1}
          /\ wire' = IF counting THEN wire + 2 ELSE wire
          /\ counting' = FALSE
          /\ hops' = hops + 1
      BY <1>2, <2>5 DEF Pointer
    <3>2. readIdx' \subseteq Nat /\ wire' \in Nat /\ counting' \in BOOLEAN /\ hops' \in Nat
      <4>1. readIdx' \subseteq Nat /\ counting' \in BOOLEAN /\ hops' \in Nat
        <5>1. readIdx' \subseteq Nat
          BY <3>1 DEF TypeOK
        <5>2. counting' \in BOOLEAN
          BY <3>1
        <5>3. hops' \in Nat
          BY <3>1 DEF TypeOK
        <5>4. QED
          BY <5>1, <5>2, <5>3
      <4>2. wire' \in Nat
        <5>1. CASE counting
          BY <3>1, <5>1 DEF TypeOK
        <5>2. CASE ~counting
          BY <3>1, <5>2 DEF TypeOK
        <5>3. QED
          BY <5>1, <5>2
      <4>3. QED
        BY <4>1, <4>2
    <3>3. CASE chk # DNSASM_OK
      <4>1. pc' = "done" /\ err' = chk /\ UNCHANGED pos
        BY <1>2, <2>5, <3>3 DEF Pointer, Return
      <4>2. QED
        BY <2>2, <2>3, <3>2, <4>1 DEF TypeOK
    <3>4. CASE chk = DNSASM_OK
      <4>1. hi >= 192
        BY <1>2 DEF Pointer, IsPointer
      <4>2. PtrTarget(hi, lo) \in Nat
        BY <2>1, <4>1, PtrTargetType
      <4>3. pos' = PtrTarget(hi, lo) /\ UNCHANGED <<pc, err>>
        BY <1>2, <2>5, <3>4 DEF Pointer
      <4>4. QED
        BY <2>3, <3>2, <4>2, <4>3 DEF TypeOK
    <3>5. QED
      BY <3>3, <3>4
  <2>6. QED
    BY <2>4, <2>5
<1>3. CASE Terminator
  BY <1>3 DEF Terminator, Return, TypeOK, Byte, ErrorCode, DNSASM_OK
<1>4. CASE Label
  <2> DEFINE len == ByteAt(pos)
             chk == LabelCheck(pos, len)
  <2>1. len \in Byte
    BY ByteAtType DEF TypeOK
  <2>2. chk \in ErrorCode
    BY CheckType
  <2>3. visited' \subseteq Nat /\ UNCHANGED <<buf, off, counting, hops>>
    BY <1>4 DEF Label, TypeOK
  <2>4. CASE chk # DNSASM_OK
    <3>1. pc' = "done" /\ err' = chk /\ readIdx' = {pos}
          /\ UNCHANGED <<pos, out, wire>>
      BY <1>4, <2>4 DEF Label, Return
    <3>2. QED
      BY <2>2, <2>3, <3>1 DEF TypeOK
  <2>5. CASE chk = DNSASM_OK
    <3>1. /\ out' = Append(out, len) \o Span(pos + 1, len)
          /\ wire' = IF counting THEN wire + 1 + len ELSE wire
          /\ pos' = pos + 1 + len
          /\ readIdx' = {pos + k : k \in 0..len}
          /\ UNCHANGED <<pc, err>>
      BY <1>4, <2>5 DEF Label
    <3>2. Append(out, len) \o Span(pos + 1, len) \in Seq(Byte)
      <4>1. len \in Nat /\ pos + 1 \in Nat
        BY <2>1, ByteNat DEF TypeOK
      <4>2. Span(pos + 1, len) \in Seq(Byte)
        BY <4>1, SpanType DEF TypeOK
      <4>3. Append(out, len) \in Seq(Byte)
        BY <2>1 DEF TypeOK
      <4>4. QED
        BY <4>2, <4>3
    <3>3. {pos + k : k \in 0..len} \subseteq Nat
      BY <2>1, RangeType DEF TypeOK
    <3>4. pos + 1 + len \in Nat /\ (IF counting THEN wire + 1 + len ELSE wire) \in Nat
      BY <2>1, ByteNat DEF TypeOK
    <3>5. QED
      BY <2>3, <3>1, <3>2, <3>3, <3>4 DEF TypeOK
  <2>6. QED
    BY <2>4, <2>5
<1>5. CASE Returned
  BY <1>5 DEF Returned, vars, TypeOK
<1>6. CASE UNCHANGED vars
  BY <1>6 DEF vars, TypeOK
<1>7. QED
  BY <1>1, <1>2, <1>3, <1>4, <1>5, <1>6 DEF Next
\* Type correctness of every state of every call.
THEOREM TypeCorrect == Spec => []TypeOK
<1>1. Init => TypeOK
  BY PacketsAssumption DEF Init, TypeOK, ErrorCode, DNSASM_OK
<1>2. TypeOK /\ [Next]_vars => TypeOK'
  BY TypeCorrectStep
<1>3. QED
  BY <1>1, <1>2, PTL DEF Spec

-----------------------------------------------------------------------------
(***************************************************************************)
(* Memory safety.  NoOutOfBoundsRead and OutWithinCapacity are not        *)
(* inductive alone: the label step keeps out[] within capacity only       *)
(* because, while the loop runs, out[] still leaves room for the          *)
(* terminator.  IInv adds that fact and the type invariant.               *)
(***************************************************************************)
RoomForTerminator == pc = "loop" => Len(out) <= MaxNameLen

IInv == TypeOK /\ RoomForTerminator /\ NoOutOfBoundsRead /\ OutWithinCapacity

\* A pointer whose check is not DNSASM_ERR_SHORT has its second byte in
\* the packet.
LEMMA PointerCheckBounds ==
    ASSUME buf \in Seq(Byte), NEW p \in Nat, PointerCheck(p) # DNSASM_ERR_SHORT
    PROVE  p + 1 < PacketLen
BY DEF PointerCheck, PacketLen, DNSASM_OK, DNSASM_ERR_SHORT, DNSASM_ERR_LOOP,
       DNSASM_ERR_POINTER

\* A label that passes its checks lies in the packet and fits in out[].
LEMMA LabelCheckBounds ==
    ASSUME buf \in Seq(Byte), out \in Seq(Byte), MaxNameLen \in Nat,
           NEW p \in Nat, NEW b \in Byte, LabelCheck(p, b) = DNSASM_OK
    PROVE  /\ p + 1 + b <= PacketLen
           /\ Len(out) + 1 + b <= MaxNameLen
BY DEF LabelCheck, DNSASM_OK, DNSASM_ERR_NAME, DNSASM_ERR_SHORT,
       DNSASM_ERR_OVERFLOW, Byte, PacketLen

LEMMA IInvInit == Init => IInv
BY PacketsAssumption, MaxNameLenAssumption
   DEF Init, IInv, TypeOK, RoomForTerminator, NoOutOfBoundsRead,
       OutWithinCapacity, ErrorCode, DNSASM_OK

LEMMA IInvStep == IInv /\ [Next]_vars => IInv'
<1> SUFFICES ASSUME IInv, [Next]_vars PROVE IInv'
  OBVIOUS
<1>1. TypeOK'
  BY TypeCorrectStep DEF IInv
<1>2. CASE LoopExit
  BY <1>1, <1>2 DEF LoopExit, Return, IInv, RoomForTerminator,
     NoOutOfBoundsRead, OutWithinCapacity
<1>3. CASE Pointer
  <2>1. buf' = buf /\ out' = out /\ pos < PacketLen /\ pc = "loop"
    BY <1>3 DEF Pointer
  <2>2. CASE PointerCheck(pos) = DNSASM_ERR_SHORT
    <3>1. readIdx' = {pos} /\ pc' = "done"
      BY <1>3, <2>2 DEF Pointer, Return
    <3>2. QED
      BY <1>1, <2>1, <3>1, MaxNameLenAssumption
         DEF IInv, TypeOK, RoomForTerminator, NoOutOfBoundsRead, OutWithinCapacity, PacketLen
  <2>3. CASE PointerCheck(pos) # DNSASM_ERR_SHORT
    <3>1. readIdx' = {pos, pos + 1}
      BY <1>3, <2>3 DEF Pointer
    <3>2. pos + 1 < PacketLen
      BY <2>3, PointerCheckBounds DEF IInv, TypeOK
    <3>3. RoomForTerminator'
      BY <2>1 DEF IInv, RoomForTerminator
    <3>4. QED
      BY <1>1, <2>1, <3>1, <3>2, <3>3
         DEF IInv, TypeOK, NoOutOfBoundsRead, OutWithinCapacity, PacketLen
  <2>4. QED
    BY <2>2, <2>3
<1>4. CASE Terminator
  <2>1. out' = Append(out, 0) /\ readIdx' = {pos} /\ pos < PacketLen
        /\ buf' = buf /\ pc = "loop" /\ pc' = "done"
    BY <1>4 DEF Terminator, Return
  <2>2. Len(out') <= MaxNameLen + 1
    BY <2>1 DEF IInv, TypeOK, RoomForTerminator
  <2>3. QED
    BY <1>1, <2>1, <2>2
       DEF IInv, TypeOK, RoomForTerminator, NoOutOfBoundsRead, OutWithinCapacity, PacketLen
<1>5. CASE Label
  <2> DEFINE len == ByteAt(pos)
             chk == LabelCheck(pos, len)
  <2>1. len \in Byte
    BY ByteAtType DEF IInv, TypeOK
  <2>2. buf' = buf /\ pos < PacketLen /\ pc = "loop"
    BY <1>5 DEF Label
  <2>3. CASE chk # DNSASM_OK
    <3>1. readIdx' = {pos} /\ pc' = "done" /\ out' = out
      BY <1>5, <2>3 DEF Label, Return
    <3>2. QED
      BY <1>1, <2>2, <3>1
         DEF IInv, TypeOK, RoomForTerminator, NoOutOfBoundsRead, OutWithinCapacity, PacketLen
  <2>4. CASE chk = DNSASM_OK
    <3>1. /\ out' = Append(out, len) \o Span(pos + 1, len)
          /\ readIdx' = {pos + k : k \in 0..len}
          /\ pc' = pc
      BY <1>5, <2>4 DEF Label
    <3>2. pos + 1 + len <= PacketLen /\ Len(out) + 1 + len <= MaxNameLen
      BY <2>1, <2>4, LabelCheckBounds DEF IInv, TypeOK
    <3>3. Len(Span(pos + 1, len)) = len
      BY <2>1, ByteNat DEF Span, IInv, TypeOK
    <3>4. Len(out') = Len(out) + 1 + len
      <4>1. len \in Nat /\ pos + 1 \in Nat
        BY <2>1, ByteNat DEF IInv, TypeOK
      <4>2. Span(pos + 1, len) \in Seq(Byte)
        BY <4>1, SpanType DEF IInv, TypeOK
      <4>3. Len(Append(out, len)) = Len(out) + 1
        BY DEF IInv, TypeOK
      <4>4. Append(out, len) \in Seq(Byte)
        BY <2>1 DEF IInv, TypeOK
      <4>5. Len(Append(out, len) \o Span(pos + 1, len))
              = Len(Append(out, len)) + Len(Span(pos + 1, len))
        BY <4>2, <4>4, ConcatLen
      <4>6. QED
        BY <3>1, <3>3, <4>3, <4>5
    <3>5. readIdx' \subseteq 0..(PacketLen - 1)
      <4>1. SUFFICES ASSUME NEW k \in 0..len PROVE pos + k \in 0..(PacketLen - 1)
        BY <3>1
      <4>2. len \in Nat
        BY <2>1, ByteNat
      <4>3. QED
        BY <3>2, <4>2 DEF IInv, TypeOK, PacketLen
    <3>6. QED
      BY <1>1, <2>2, <3>1, <3>2, <3>4, <3>5
         DEF IInv, RoomForTerminator, NoOutOfBoundsRead, OutWithinCapacity, PacketLen
  <2>5. QED
    BY <2>3, <2>4
<1>6. CASE Returned \/ UNCHANGED vars
  BY <1>6 DEF Returned, vars, IInv, TypeOK, RoomForTerminator,
     NoOutOfBoundsRead, OutWithinCapacity, PacketLen
<1>7. QED
  BY <1>2, <1>3, <1>4, <1>5, <1>6 DEF Next

\* Every read of the packet is in bounds and out[] is never overrun, for
\* every packet, offset, hop bound and name-length bound.
THEOREM MemorySafety == Spec => [](NoOutOfBoundsRead /\ OutWithinCapacity)
<1>1. IInv => NoOutOfBoundsRead /\ OutWithinCapacity
  BY DEF IInv
<1>2. QED
  BY IInvInit, IInvStep, <1>1, PTL DEF Spec
=============================================================================
