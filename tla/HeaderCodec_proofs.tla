-------------------------- MODULE HeaderCodec_proofs --------------------------
(***************************************************************************)
(* Proofs about HeaderCodec for all field values and both byte orders:    *)
(* the header is well typed, dnsasm_parse_header returns exactly what     *)
(* dnsasm_build_header was given, and on a little-endian host the header  *)
(* is big-endian on the wire.                                             *)
(***************************************************************************)
EXTENDS HeaderCodec, TLAPS

USE HostOrderAssumption

-----------------------------------------------------------------------------
(* Integer division by a positive constant *)

\* x \div a is the quotient and x % a the remainder of x by a.
LEMMA DivMod ==
    ASSUME NEW x \in Nat, NEW a \in Nat \ {0}
    PROVE  /\ x \div a \in Nat
           /\ (x % a) \in 0..(a - 1)
           /\ x = a * (x \div a) + (x % a)
           /\ a * (x \div a) <= x
           /\ x < a * (x \div a) + a
  BY SMT

\* The quotient is the only q with a * q <= x < a * q + a.
LEMMA DivUnique ==
    ASSUME NEW x \in Nat, NEW a \in Nat \ {0}, NEW q \in Int,
           a * q <= x, x < a * q + a
    PROVE  x \div a = q
  BY SMT

\* Two shifts right are one shift by their sum.
LEMMA DivDiv ==
    ASSUME NEW x \in Nat, NEW a \in Nat \ {0}, NEW m \in Nat \ {0}
    PROVE  (x \div a) \div m = x \div (a * m)
  <1> DEFINE p == x \div a
             q == x \div (a * m)
  <1>1. a * m \in Nat \ {0}
    OBVIOUS
  <1>2. p \in Nat /\ a * p <= x /\ x < a * p + a
    BY DivMod
  <1>3. q \in Nat /\ (a * m) * q <= x /\ x < (a * m) * q + a * m
    BY <1>1, DivMod
  <1>4. a * (m * q) <= x /\ x < a * (m * q + m)
    BY <1>3
  <1>5. m * q <= p
    <2>1. SUFFICES ASSUME p < m * q PROVE FALSE
      OBVIOUS
    <2>2. a * (p + 1) <= a * (m * q)
      BY <2>1, <1>2, <1>3
    <2>3. QED  BY <1>2, <1>4, <2>2
  <1>6. p < m * q + m
    <2>1. SUFFICES ASSUME m * q + m <= p PROVE FALSE
      OBVIOUS
    <2>2. a * (m * q + m) <= a * p
      BY <2>1
    <2>3. QED  BY <1>2, <1>4, <2>2
  <1>7. \A y \in Nat, r \in Int : m * r <= y /\ y < m * r + m => y \div m = r
    BY DivUnique
  <1>8. QED  BY <1>2, <1>3, <1>5, <1>6, <1>7

-----------------------------------------------------------------------------
(* Arithmetic on one 16-bit word *)

\* A 16-bit value is its high byte times 256 plus its low byte.
LEMMA ByteSplit ==
    ASSUME NEW v \in Word16
    PROVE  /\ v \div 256 \in Byte /\ v % 256 \in Byte
           /\ v = 256 * (v \div 256) + (v % 256)
  BY DEF Word16, Byte

\* bswap16 of a 16-bit value exchanges its two bytes.
LEMMA Bswap16Bytes ==
    ASSUME NEW v \in Word16
    PROVE  /\ Bswap16(v) = (v % 256) * 256 + v \div 256
           /\ Bswap16(v) \in Word16
  BY DEF Bswap16, Word16

\* The two bytes of x * 256 + y are x and y.
LEMMA BytePair ==
    ASSUME NEW x \in Byte, NEW y \in Byte
    PROVE  /\ (x * 256 + y) % 256 = y
           /\ (x * 256 + y) \div 256 = x
  BY DEF Byte

\* The bytes a store of v writes are bytes.
LEMMA StoreBytes ==
    ASSUME NEW v \in Word16
    PROVE  StoreU16(v)[1] \in Byte /\ StoreU16(v)[2] \in Byte
  <1>1. v \div 256 \in Byte /\ v % 256 \in Byte
    BY ByteSplit
  <1>2. CASE HostLittleEndian = TRUE
    BY <1>1, <1>2 DEF StoreU16
  <1>3. CASE HostLittleEndian = FALSE
    BY <1>1, <1>3 DEF StoreU16
  <1>4. QED  BY <1>2, <1>3

\* A load from where a store of v put its two bytes returns v.
LEMMA LoadStore ==
    ASSUME NEW v \in Word16, NEW b, NEW i \in Nat,
           b[i + 1] = StoreU16(v)[1], b[i + 2] = StoreU16(v)[2]
    PROVE  LoadU16(b, i) = v
  <1>1. v \div 256 \in Byte /\ v % 256 \in Byte /\ v = 256 * (v \div 256) + (v % 256)
    BY ByteSplit
  <1>2. CASE HostLittleEndian = TRUE
    <2>1. b[i + 1] = v % 256 /\ b[i + 2] = v \div 256
      BY <1>2 DEF StoreU16
    <2>2. LoadU16(b, i) = b[i + 1] + 256 * b[i + 2]
      BY <1>2 DEF LoadU16
    <2>3. QED  BY <1>1, <2>1, <2>2 DEF Word16
  <1>3. CASE HostLittleEndian = FALSE
    <2>1. b[i + 1] = v \div 256 /\ b[i + 2] = v % 256
      BY <1>3 DEF StoreU16
    <2>2. LoadU16(b, i) = 256 * b[i + 1] + b[i + 2]
      BY <1>3 DEF LoadU16
    <2>3. QED  BY <1>1, <2>1, <2>2 DEF Word16
  <1>4. QED  BY <1>2, <1>3

\* bswap16 is its own inverse on 16-bit values.
LEMMA Bswap16Twice ==
    ASSUME NEW v \in Word16
    PROVE  Bswap16(Bswap16(v)) = v
  <1> DEFINE w == Bswap16(v)
  <1>1. w = (v % 256) * 256 + v \div 256 /\ w \in Word16
    BY Bswap16Bytes
  <1>2. Bswap16(w) = (w % 256) * 256 + w \div 256
    BY <1>1, Bswap16Bytes
  <1>3. v \div 256 \in Byte /\ v % 256 \in Byte /\ v = 256 * (v \div 256) + (v % 256)
    BY ByteSplit
  <1>4. w % 256 = v \div 256 /\ w \div 256 = v % 256
    BY <1>1, <1>3, BytePair
  <1>5. QED  BY <1>2, <1>3, <1>4 DEF Word16

\* The seven extracted sub-fields and the reserved bits 4-6, weighted by
\* their bit positions, add up to the flags word.
LEMMA FlagsSum ==
    ASSUME NEW f \in Word16
    PROVE  32768 * ((f \div 32768) % 2) + 2048 * ((f \div 2048) % 16)
             + 1024 * ((f \div 1024) % 2) + 512 * ((f \div 512) % 2)
             + 256 * ((f \div 256) % 2) + 128 * ((f \div 128) % 2)
             + 16 * ((f \div 16) % 8) + (f % 16) = f
  <1> DEFINE r == f % 16
             z == (f \div 16) % 8
             q7 == f \div 128
             b7 == (f \div 128) % 2
             q8 == f \div 256
             b8 == (f \div 256) % 2
             q9 == f \div 512
             b9 == (f \div 512) % 2
             q10 == f \div 1024
             b10 == (f \div 1024) % 2
             q11 == f \div 2048
             op == (f \div 2048) % 16
             q15 == f \div 32768
             b15 == (f \div 32768) % 2
  <1>1. /\ f \in Int /\ r \in Int /\ z \in Int /\ q7 \in Int /\ b7 \in Int
        /\ q8 \in Int /\ b8 \in Int /\ q9 \in Int /\ b9 \in Int /\ q10 \in Int
        /\ b10 \in Int /\ q11 \in Int /\ op \in Int /\ q15 \in Int /\ b15 \in Int
    BY DEF Word16
  \* One shift at a time: each quotient is twice (or 16 times) the next
  \* plus the bits in between.
  <1>2. f = 128 * q7 + 16 * z + r
    BY DEF Word16
  <1>3. q7 = 2 * q8 + b7
    BY DEF Word16
  <1>4. q8 = 2 * q9 + b8
    BY DEF Word16
  <1>5. q9 = 2 * q10 + b9
    BY DEF Word16
  <1>6. q10 = 2 * q11 + b10
    BY DEF Word16
  <1>7. q11 = 16 * q15 + op
    BY DEF Word16
  <1>8. b15 = q15
    BY DEF Word16
  <1>9. 32768 * b15 + 2048 * op + 1024 * b10 + 512 * b9 + 256 * b8 + 128 * b7
          + 16 * z + r = f
    <2> HIDE DEF r, z, q7, b7, q8, b8, q9, b9, q10, b10, q11, op, q15, b15
    <2> QED  BY <1>1, <1>2, <1>3, <1>4, <1>5, <1>6, <1>7, <1>8
  <1>10. QED  BY <1>9

\* The masks and shifts of dnsasm_parse_header take a flags word apart into
\* sub-fields of their width, which with the reserved bits 4-6 make it up.
LEMMA FlagsDecompose ==
    ASSUME NEW f \in Word16
    PROVE  /\ ParseFlags(f) \in BitsType
           /\ Recompose(ParseFlags(f), (f \div 16) % 8) = f
  <1>1. ParseFlags(f) \in BitsType
    BY DEF ParseFlags, BitsType, Word16
  <1>2. Recompose(ParseFlags(f), (f \div 16) % 8)
          = 32768 * ((f \div 32768) % 2) + 2048 * ((f \div 2048) % 16)
             + 1024 * ((f \div 1024) % 2) + 512 * ((f \div 512) % 2)
             + 256 * ((f \div 256) % 2) + 128 * ((f \div 128) % 2)
             + 16 * ((f \div 16) % 8) + (f % 16)
    BY DEF Recompose, ParseFlags, Word16
  <1>3. QED  BY <1>1, <1>2, FlagsSum

-----------------------------------------------------------------------------
(* The 12 bytes of dnsasm_build_header *)

\* bswap16 returns a uint16_t whatever int it is given.
LEMMA Bswap16Int ==
    ASSUME NEW x \in Int
    PROVE  Bswap16(x) \in Word16
  BY DEF Bswap16, Word16

\* Bytes 2j - 1 and 2j of the header are the store of field j, swapped.
LEMMA HeaderBytesAt ==
    ASSUME NEW f \in [Field -> Word16], NEW j \in Field
    PROVE  /\ HeaderBytes(f)[2 * j - 1] = StoreU16(Bswap16(f[j]))[1]
           /\ HeaderBytes(f)[2 * j] = StoreU16(Bswap16(f[j]))[2]
  <1>1. /\ 2 * j - 1 \in 1..12 /\ 2 * j \in 1..12
        /\ (2 * j - 1 + 1) \div 2 = j /\ 2 - ((2 * j - 1) % 2) = 1
        /\ (2 * j + 1) \div 2 = j /\ 2 - ((2 * j) % 2) = 2
    BY DEF Field
  <1>2. QED  BY <1>1 DEF HeaderBytes

\* The header is a sequence of 12 bytes.
LEMMA HeaderBytesType ==
    ASSUME NEW f \in [Field -> Word16]
    PROVE  HeaderBytes(f) \in Seq(Byte) /\ Len(HeaderBytes(f)) = 12
  <1>1. \A k \in 1..12 : (k + 1) \div 2 \in Field /\ 2 - (k % 2) \in {1, 2}
    BY DEF Field
  <1>2. \A j \in Field : StoreU16(Bswap16(f[j]))[1] \in Byte
                         /\ StoreU16(Bswap16(f[j]))[2] \in Byte
    BY Bswap16Bytes, StoreBytes
  <1>3. HeaderBytes(f) \in [1..12 -> Byte]
    BY <1>1, <1>2 DEF HeaderBytes
  <1>4. Len(HeaderBytes(f)) = 12
    BY DEF HeaderBytes
  <1>5. QED  BY <1>3, <1>4 DEF HeaderBytes

\* dnsasm_parse_header reads back the fields dnsasm_build_header wrote.
LEMMA ParseBuilt ==
    ASSUME NEW f \in [Field -> Word16]
    PROVE  ParseFields(HeaderBytes(f)) = f
  <1>1. ASSUME NEW j \in Field
        PROVE  Bswap16(LoadU16(HeaderBytes(f), 2 * j - 2)) = f[j]
    <2>1. Bswap16(f[j]) \in Word16
      BY Bswap16Bytes
    <2>2. 2 * j - 2 \in Nat /\ 2 * j - 2 + 1 = 2 * j - 1 /\ 2 * j - 2 + 2 = 2 * j
      BY DEF Field
    <2>3. LoadU16(HeaderBytes(f), 2 * j - 2) = Bswap16(f[j])
      BY <2>1, <2>2, HeaderBytesAt, LoadStore
    <2>4. QED  BY <2>3, Bswap16Twice
  <1>2. QED  BY <1>1 DEF ParseFields

\* On a little-endian host, the swapped store puts the high byte first.
LEMMA LittleEndianStore ==
    ASSUME NEW v \in Word16, HostLittleEndian
    PROVE  StoreU16(Bswap16(v)) = <<v \div 256, v % 256>>
  <1>1. Bswap16(v) = (v % 256) * 256 + v \div 256
    BY Bswap16Bytes
  <1>2. v \div 256 \in Byte /\ v % 256 \in Byte
    BY ByteSplit
  <1>3. Bswap16(v) % 256 = v \div 256 /\ Bswap16(v) \div 256 = v % 256
    BY <1>1, <1>2, BytePair
  <1>4. QED  BY <1>3 DEF StoreU16

-----------------------------------------------------------------------------
(* The inductive invariant *)

\* Until the parser runs the buffer is what the builder wrote and nothing
\* has been read; after a successful parse the header is the decoding of
\* the fields sent and exactly the 12 header bytes, all within len, were
\* read; after a failed one nothing was.
IInv ==
    /\ TypeOK
    /\ phase # "build" => wire = HeaderBytes(sent)
    /\ phase # "done" => readIdx = {}
    /\ (phase = "done" /\ ret = DNSASM_OK) =>
          /\ hdr = [fields |-> sent, bits |-> ParseFlags(sent[FLAGS])]
          /\ DNS_HEADER_SIZE <= len
          /\ readIdx = 0..(DNS_HEADER_SIZE - 1)
    /\ (phase = "done" /\ ret = DNSASM_ERR_SHORT) => readIdx = {}

LEMMA IInvInit == Init => IInv
  <1> SUFFICES ASSUME Init PROVE IInv
    OBVIOUS
  <1>1. [j \in Field |-> 0] \in [Field -> Word16]
    BY DEF Word16
  <1>2. ParseFlags(0) \in BitsType
    <2>1. 0 \in Word16  BY DEF Word16
    <2>2. QED  BY <2>1, FlagsDecompose
  <1>3. TypeOK
    BY <1>1, <1>2 DEF Init, TypeOK
  <1>4. QED  BY <1>3 DEF Init, IInv

LEMMA IInvStep == IInv /\ [Next]_vars => IInv'
  <1> SUFFICES ASSUME IInv, [Next]_vars PROVE IInv'
    OBVIOUS
  <1>0. TypeOK
    BY DEF IInv
  <1>1. CASE BuildHeader
    <2>1. PICK id \in Ids, flags \in FlagWords, qd \in Counts, an \in Counts,
               ns \in Counts, ar \in Counts :
            /\ sent' = <<id, flags, qd, an, ns, ar>>
            /\ wire' = HeaderBytes(<<id, flags, qd, an, ns, ar>>)
      BY <1>1 DEF BuildHeader
    <2>2. /\ phase = "build" /\ phase' = "parse"
          /\ len' = len /\ hdr' = hdr /\ ret' = ret /\ readIdx' = readIdx
      BY <1>1 DEF BuildHeader
    <2>3. sent' \in [Field -> Word16]
      BY <2>1, FieldsAssumption DEF Field
    <2>4. wire' = HeaderBytes(sent') /\ wire' \in Seq(Byte)
      BY <2>1, <2>3, HeaderBytesType
    <2>5. readIdx = {}
      BY <2>2 DEF IInv
    <2>6. TypeOK'
      BY <1>0, <2>2, <2>3, <2>4 DEF TypeOK
    <2>7. QED  BY <2>2, <2>4, <2>5, <2>6 DEF IInv
  <1>2. CASE ParseHeader
    <2>1. PICK n \in 0..Len(wire) :
            /\ len' = n
            /\ \/ /\ ~HeaderFits(n)
                  /\ ret' = DNSASM_ERR_SHORT
                  /\ hdr' = hdr /\ readIdx' = readIdx
               \/ /\ HeaderFits(n)
                  /\ hdr' = [fields |-> ParseFields(wire),
                             bits |-> ParseFlags(ParseFields(wire)[FLAGS])]
                  /\ ret' = DNSASM_OK
                  /\ readIdx' = 0..(DNS_HEADER_SIZE - 1)
      BY <1>2 DEF ParseHeader
    <2>2. /\ phase = "parse" /\ phase' = "done" /\ wire' = wire /\ sent' = sent
      BY <1>2 DEF ParseHeader
    <2>3. wire = HeaderBytes(sent) /\ readIdx = {}
      BY <2>2 DEF IInv
    <2>4. n \in Nat
      BY <1>0 DEF TypeOK
    <2>5. CASE ~HeaderFits(n)
      <3>1. ret' = DNSASM_ERR_SHORT /\ hdr' = hdr /\ readIdx' = {}
        BY <2>1, <2>3, <2>5
      <3>2. TypeOK'
        BY <1>0, <2>1, <2>2, <2>4, <3>1 DEF TypeOK
      <3>3. QED  BY <2>2, <2>3, <3>1, <3>2 DEF IInv, DNSASM_OK, DNSASM_ERR_SHORT
    <2>6. CASE HeaderFits(n)
      <3>1. sent \in [Field -> Word16]
        BY <1>0 DEF TypeOK
      <3>2. ParseFields(wire) = sent
        BY <2>3, <3>1, ParseBuilt
      <3>3. /\ hdr' = [fields |-> sent, bits |-> ParseFlags(sent[FLAGS])]
            /\ ret' = DNSASM_OK
            /\ readIdx' = 0..(DNS_HEADER_SIZE - 1)
        BY <2>1, <2>6, <3>2 DEF HeaderFits
      <3>4. ParseFlags(sent[FLAGS]) \in BitsType
        BY <3>1, FlagsDecompose DEF Field, FLAGS
      <3>5. DNS_HEADER_SIZE <= len'
        BY <2>1, <2>6 DEF HeaderFits
      <3>6. TypeOK'
        BY <1>0, <2>1, <2>2, <2>4, <3>1, <3>3, <3>4 DEF TypeOK, DNS_HEADER_SIZE
      <3>7. QED  BY <2>2, <2>3, <3>3, <3>5, <3>6 DEF IInv, DNSASM_OK, DNSASM_ERR_SHORT
    <2>7. QED  BY <2>1, <2>5, <2>6
  <1>3. CASE Returned \/ UNCHANGED vars
    <2>1. /\ wire' = wire /\ sent' = sent /\ len' = len /\ hdr' = hdr
          /\ ret' = ret /\ readIdx' = readIdx /\ phase' = phase
      BY <1>3 DEF Returned, vars
    <2>2. QED  BY <2>1 DEF IInv, TypeOK
  <1>4. QED  BY <1>1, <1>2, <1>3 DEF Next

-----------------------------------------------------------------------------
(* Theorems *)

\* The invariant holds in every state of every behaviour.
LEMMA IInvAlways == Spec => []IInv
  BY IInvInit, IInvStep, PTL DEF Spec

\* dnsasm_build_header and dnsasm_parse_header keep every variable within
\* its C type, for every field value and either byte order.
THEOREM TypeCorrect == Spec => []TypeOK
  <1>1. IInv => TypeOK
    BY DEF IInv
  <1>2. QED  BY <1>1, IInvAlways, PTL

\* For every id, flags and counts, dnsasm_parse_header of the bytes
\* dnsasm_build_header wrote returns them, and sub-fields that make up the
\* flags word with its reserved bits (spec 8's round trip).
THEOREM RoundTrip == Spec => []HeaderRoundTrip
  <1>1. IInv => HeaderRoundTrip
    <2> SUFFICES ASSUME IInv, phase = "done", ret = DNSASM_OK
                 PROVE  /\ hdr.fields = sent
                        /\ \E z \in 0..7 : Recompose(hdr.bits, z) = sent[FLAGS]
      BY DEF HeaderRoundTrip
    <2>1. hdr = [fields |-> sent, bits |-> ParseFlags(sent[FLAGS])]
      BY DEF IInv
    <2>2. sent[FLAGS] \in Word16
      BY DEF IInv, TypeOK, Field, FLAGS
    <2>3. Recompose(ParseFlags(sent[FLAGS]), (sent[FLAGS] \div 16) % 8) = sent[FLAGS]
      BY <2>2, FlagsDecompose
    <2>4. (sent[FLAGS] \div 16) % 8 \in 0..7
      BY <2>2 DEF Word16
    <2>5. QED  BY <2>1, <2>3, <2>4
  <1>2. QED  BY <1>1, IInvAlways, PTL

\* dnsasm_parse_header never reads past the len it is given, and reads
\* nothing when the buffer is shorter than a header.
THEOREM HeaderMemorySafety == Spec => []NoOutOfBoundsRead
  <1>1. IInv => NoOutOfBoundsRead
    <2> SUFFICES ASSUME IInv PROVE NoOutOfBoundsRead
      OBVIOUS
    <2>1. CASE phase = "done" /\ ret = DNSASM_OK
      <3>1. DNS_HEADER_SIZE <= len /\ readIdx = 0..(DNS_HEADER_SIZE - 1) /\ len \in Nat
        BY <2>1 DEF IInv, TypeOK
      <3>2. QED  BY <2>1, <3>1 DEF NoOutOfBoundsRead, DNS_HEADER_SIZE, DNSASM_OK, DNSASM_ERR_SHORT
    <2>2. CASE phase = "done" /\ ret = DNSASM_ERR_SHORT
      BY <2>2 DEF IInv, NoOutOfBoundsRead
    <2>3. CASE phase # "done"
      BY <2>3 DEF IInv, NoOutOfBoundsRead
    <2>4. QED  BY <2>1, <2>2, <2>3 DEF IInv, TypeOK
  <1>2. QED  BY <1>1, IInvAlways, PTL

\* On a little-endian host the header dnsasm_build_header writes is
\* big-endian on the wire (spec 6); the bswap16 of the code is right only
\* there.
THEOREM LittleEndianWire == ASSUME HostLittleEndian PROVE Spec => []WireBigEndian
  <1>1. IInv => WireBigEndian
    <2> SUFFICES ASSUME IInv, phase # "build", NEW j \in Field
                 PROVE  /\ wire[2 * j - 1] = sent[j] \div 256
                        /\ wire[2 * j] = sent[j] % 256
      BY DEF WireBigEndian
    <2>1. wire = HeaderBytes(sent) /\ sent \in [Field -> Word16]
      BY DEF IInv, TypeOK
    <2>2. StoreU16(Bswap16(sent[j])) = <<sent[j] \div 256, sent[j] % 256>>
      BY <2>1, LittleEndianStore
    <2>3. QED  BY <2>1, <2>2, HeaderBytesAt
  <1>2. QED  BY <1>1, IInvAlways, PTL

=============================================================================
