-------------------------- MODULE ResponseBuild_proofs --------------------------
(***************************************************************************)
(* Proofs about dnsasm_build_a_record, for every name, ttl and address and *)
(* either host byte order: the record reads back through the loads of     *)
(* dnsasm_parse_rr, and on a little-endian host it is laid out as the spec *)
(* says.                                                                    *)
(***************************************************************************)
EXTENDS ResponseBuild, SequenceTheorems, TLAPS

USE HostOrderAssumption

-----------------------------------------------------------------------------
(* Byte order *)

\* The byte swaps of the three 16-bit constants the builder stores, and
\* back.
LEMMA Bswap16Consts ==
    /\ Bswap16(1) = 256 /\ Bswap16(256) = 1
    /\ Bswap16(4) = 1024 /\ Bswap16(1024) = 4
  BY DEF Bswap16

\* A uint32_t is the tuple of its four bytes.
LEMMA Word32Tuple ==
    ASSUME NEW x \in Word32
    PROVE  x = <<x[1], x[2], x[3], x[4]>>
  BY DEF Word32

\* bswap32 reverses the four bytes.
LEMMA Bswap32Bytes ==
    ASSUME NEW x \in Word32
    PROVE  Bswap32(x) = <<x[4], x[3], x[2], x[1]>>
  <1>1. \A d \in 1..4 : x[d] \in Nat
    BY DEF Word32, Byte
  <1>2. QED
    BY <1>1 DEF Bswap32, Or4, Mask, Shr, Shl

-----------------------------------------------------------------------------
(* Writes at the end of the buffer *)

\* A function on 1..n is a sequence of length n.
LEMMA FunSeq ==
    ASSUME NEW n \in Nat, NEW f \in [1..n -> Byte]
    PROVE  f \in Seq(Byte) /\ Len(f) = n
  <1>1. f \in Seq(Byte)
    BY SeqDef
  <1>2. DOMAIN f = 1..Len(f) /\ Len(f) \in Nat
    BY <1>1, LenProperties
  <1>3. QED
    BY <1>1, <1>2

\* The concatenation of two byte sequences.
LEMMA ConcatByte ==
    ASSUME NEW s \in Seq(Byte), NEW t \in Seq(Byte)
    PROVE  /\ s \o t \in Seq(Byte)
           /\ Len(s \o t) = Len(s) + Len(t)
           /\ \A k \in 1..(Len(s) + Len(t)) :
                 (s \o t)[k] = IF k <= Len(s) THEN s[k] ELSE t[k - Len(s)]
  BY ConcatProperties

\* A store or memcpy at out + Len(out) appends its bytes.
LEMMA WriteAppend ==
    ASSUME NEW o \in Seq(Byte), NEW bs \in Seq(Byte)
    PROVE  Write(o, Len(o), bs) = o \o bs
  <1> DEFINE L == Len(o) + Len(bs)
             W == [k \in 1..L |-> IF k <= Len(o) THEN o[k] ELSE bs[k - Len(o)]]
  <1>1. /\ o \o bs \in Seq(Byte)
        /\ Len(o \o bs) = L
        /\ \A k \in 1..L : (o \o bs)[k] = IF k <= Len(o) THEN o[k] ELSE bs[k - Len(o)]
    BY ConcatByte
  <1>2. /\ Len(o) \in Nat /\ DOMAIN o = 1..Len(o) /\ o \in [1..Len(o) -> Byte]
        /\ Len(bs) \in Nat /\ bs \in [1..Len(bs) -> Byte]
    BY LenProperties
  <1>3. DOMAIN o \cup ((Len(o) + 1)..(Len(o) + Len(bs))) = 1..L
    BY <1>2
  <1>4. Write(o, Len(o), bs) = W
    BY <1>3 DEF Write
  <1>5. W \in [1..L -> Byte]
    BY <1>2
  <1>6. W \in Seq(Byte) /\ Len(W) = L
    BY <1>2, <1>5, FunSeq
  <1>7. QED
    BY <1>1, <1>4, <1>6, SeqEqual

\* A 16-bit store writes a sequence of two bytes.
LEMMA StoreU16Seq ==
    ASSUME NEW v \in Word16
    PROVE  StoreU16(v) \in Seq(Byte) /\ Len(StoreU16(v)) = 2
  <1>1. /\ <<v % 256, v \div 256>> \in [1..2 -> Byte]
        /\ <<v \div 256, v % 256>> \in [1..2 -> Byte]
    BY DEF Word16, Byte
  <1>2. <<v % 256, v \div 256>> \in Seq(Byte) /\ Len(<<v % 256, v \div 256>>) = 2
    BY <1>1, FunSeq
  <1>3. <<v \div 256, v % 256>> \in Seq(Byte) /\ Len(<<v \div 256, v % 256>>) = 2
    BY <1>1, FunSeq
  <1>4. CASE HostLittleEndian
    BY <1>2, <1>4 DEF StoreU16
  <1>5. CASE ~HostLittleEndian
    BY <1>3, <1>5 DEF StoreU16
  <1>6. QED
    BY <1>4, <1>5

\* The fields are byte sequences of 2, 2, 4 and 2 bytes.
LEMMA FieldsSeq ==
    ASSUME NEW ttl \in Word32
    PROVE  /\ TypeField \in Seq(Byte) /\ Len(TypeField) = 2
           /\ ClassField \in Seq(Byte) /\ Len(ClassField) = 2
           /\ TtlField(ttl) \in Seq(Byte) /\ Len(TtlField(ttl)) = 4
           /\ RdlengthField \in Seq(Byte) /\ Len(RdlengthField) = 2
  <1>1. Bswap32(ttl) \in Word32
    BY Bswap32Bytes DEF Word32
  <1>2. /\ TypeField = StoreU16(256) /\ ClassField = StoreU16(256)
        /\ RdlengthField = StoreU16(1024)
    BY Bswap16Consts DEF TypeField, ClassField, RdlengthField, DNS_TYPE_A,
                         DNS_CLASS_IN, A_RDLENGTH
  <1>3. StoreU16(256) \in Seq(Byte) /\ Len(StoreU16(256)) = 2
    BY StoreU16Seq DEF Word16
  <1>4. StoreU16(1024) \in Seq(Byte) /\ Len(StoreU16(1024)) = 2
    BY StoreU16Seq DEF Word16
  <1>5. TtlField(ttl) \in [1..4 -> Byte]
    BY <1>1 DEF TtlField, StoreU32, Word32
  <1>6. TtlField(ttl) \in Seq(Byte) /\ Len(TtlField(ttl)) = 4
    BY <1>5, FunSeq
  <1>7. QED
    BY <1>2, <1>3, <1>4, <1>6

\* The buffer dnsasm_build_a_record leaves is the name followed by the
\* fields, each appended at the pos reached so far; it returns the length.
LEMMA ARecordConcat ==
    ASSUME NEW name \in Seq(Byte), NEW ttl \in Word32, NEW ip \in [1..4 -> Byte]
    PROVE  LET r == ARecordOut(name, ttl, ip)
           IN  /\ r.bytes = name \o TypeField \o ClassField \o TtlField(ttl)
                              \o RdlengthField \o ip
               /\ r.pos = Len(name) + 14
  <1> DEFINE n == Len(name)
             o2 == name \o TypeField
             o3 == o2 \o ClassField
             o4 == o3 \o TtlField(ttl)
             o5 == o4 \o RdlengthField
  <1>1. /\ n \in Nat /\ DOMAIN name = 1..n /\ name \in [1..n -> Byte]
        /\ ip \in Seq(Byte) /\ Len(ip) = 4
    BY LenProperties, FunSeq
  <1>0. /\ TypeField \in Seq(Byte) /\ Len(TypeField) = 2
        /\ ClassField \in Seq(Byte) /\ Len(ClassField) = 2
        /\ TtlField(ttl) \in Seq(Byte) /\ Len(TtlField(ttl)) = 4
        /\ RdlengthField \in Seq(Byte) /\ Len(RdlengthField) = 2
    BY FieldsSeq
  <1>2. Write(<<>>, 0, name) = name
    <2>1. Write(<<>>, 0, name) = [k \in 1..n |-> name[k]]
      BY <1>1 DEF Write
    <2>2. QED
      BY <1>1, <2>1
  <1>3. Write(name, n, TypeField) = o2 /\ o2 \in Seq(Byte) /\ Len(o2) = n + 2
    <2>1. Write(name, Len(name), TypeField) = o2 /\ o2 \in Seq(Byte) /\ Len(o2) = Len(name) + Len(TypeField)
      BY <1>1, <1>0, WriteAppend, ConcatByte
    <2>2. QED
      BY <1>1, <1>0, <2>1
  <1>4. Write(o2, n + 2, ClassField) = o3 /\ o3 \in Seq(Byte) /\ Len(o3) = n + 4
    <2>1. Write(o2, Len(o2), ClassField) = o3 /\ o3 \in Seq(Byte) /\ Len(o3) = Len(o2) + Len(ClassField)
      BY <1>3, <1>0, WriteAppend, ConcatByte
    <2>2. QED
      BY <1>3, <1>0, <2>1
  <1>5. Write(o3, n + 4, TtlField(ttl)) = o4 /\ o4 \in Seq(Byte) /\ Len(o4) = n + 8
    <2>1. Write(o3, Len(o3), TtlField(ttl)) = o4 /\ o4 \in Seq(Byte) /\ Len(o4) = Len(o3) + Len(TtlField(ttl))
      BY <1>4, <1>0, WriteAppend, ConcatByte
    <2>2. QED
      BY <1>4, <1>0, <2>1
  <1>6. Write(o4, n + 8, RdlengthField) = o5 /\ o5 \in Seq(Byte) /\ Len(o5) = n + 10
    <2>1. Write(o4, Len(o4), RdlengthField) = o5 /\ o5 \in Seq(Byte) /\ Len(o5) = Len(o4) + Len(RdlengthField)
      BY <1>5, <1>0, WriteAppend, ConcatByte
    <2>2. QED
      BY <1>5, <1>0, <2>1
  <1>7. Write(o5, n + 10, ip) = o5 \o ip
    BY <1>1, <1>6, WriteAppend
  <1>8. /\ ARecordOut(name, ttl, ip).bytes =
             Write(Write(Write(Write(Write(Write(<<>>, 0, name), n, TypeField),
                                           n + 2, ClassField),
                                     n + 4, TtlField(ttl)),
                               n + 8, RdlengthField),
                         n + 10, ip)
        /\ ARecordOut(name, ttl, ip).pos = n + 14
    BY <1>1 DEF ARecordOut, ARecordAdvances
  <1>9. ARecordOut(name, ttl, ip).bytes = o5 \o ip
    <2>1. Write(Write(<<>>, 0, name), n, TypeField) = o2
      BY <1>2, <1>3
    <2>2. Write(Write(Write(<<>>, 0, name), n, TypeField), n + 2, ClassField) = o3
      BY <2>1, <1>4
    <2>3. Write(Write(Write(Write(<<>>, 0, name), n, TypeField), n + 2, ClassField),
                n + 4, TtlField(ttl)) = o4
      BY <2>2, <1>5
    <2>4. Write(Write(Write(Write(Write(<<>>, 0, name), n, TypeField), n + 2, ClassField),
                      n + 4, TtlField(ttl)), n + 8, RdlengthField) = o5
      BY <2>3, <1>6
    <2>5. Write(Write(Write(Write(Write(Write(<<>>, 0, name), n, TypeField), n + 2, ClassField),
                            n + 4, TtlField(ttl)), n + 8, RdlengthField), n + 10, ip) = o5 \o ip
      BY <2>4, <1>7
    <2>6. QED
      BY <2>5, <1>8
  <1>10. ARecordOut(name, ttl, ip).pos = n + 14
    BY <1>8
  <1>11. QED
    BY <1>9, <1>10

\* Where each field of the record lies in the buffer: the bytes at
\* out + n + 0 .. out + n + 13, after the n bytes of the name.
LEMMA ARecordBytes ==
    ASSUME NEW name \in Seq(Byte), NEW ttl \in Word32, NEW ip \in [1..4 -> Byte]
    PROVE  LET b == ARecordOut(name, ttl, ip).bytes
               n == Len(name)
           IN  /\ b \in Seq(Byte) /\ Len(b) = n + 14
               /\ \A j \in 1..2 : b[n + j] = TypeField[j]
               /\ \A j \in 1..2 : b[n + 2 + j] = ClassField[j]
               /\ \A j \in 1..4 : b[n + 4 + j] = TtlField(ttl)[j]
               /\ \A j \in 1..2 : b[n + 8 + j] = RdlengthField[j]
               /\ \A j \in 1..4 : b[n + 10 + j] = ip[j]
  <1> DEFINE n == Len(name)
             o2 == name \o TypeField
             o3 == o2 \o ClassField
             o4 == o3 \o TtlField(ttl)
             o5 == o4 \o RdlengthField
             b == o5 \o ip
  <1>1. n \in Nat /\ ip \in Seq(Byte) /\ Len(ip) = 4
    BY LenProperties, FunSeq
  <1>0. /\ TypeField \in Seq(Byte) /\ Len(TypeField) = 2
        /\ ClassField \in Seq(Byte) /\ Len(ClassField) = 2
        /\ TtlField(ttl) \in Seq(Byte) /\ Len(TtlField(ttl)) = 4
        /\ RdlengthField \in Seq(Byte) /\ Len(RdlengthField) = 2
    BY FieldsSeq
  <1>2. ARecordOut(name, ttl, ip).bytes = b
    BY ARecordConcat
  <1>3. /\ o2 \in Seq(Byte) /\ Len(o2) = n + 2
        /\ \A k \in 1..(n + 2) : o2[k] = IF k <= n THEN name[k] ELSE TypeField[k - n]
    <2>1. /\ o2 \in Seq(Byte) /\ Len(o2) = Len(name) + Len(TypeField)
          /\ \A k \in 1..(Len(name) + Len(TypeField)) :
                o2[k] = IF k <= Len(name) THEN name[k] ELSE TypeField[k - Len(name)]
      BY <1>0, <1>1, ConcatByte
    <2>2. QED
      BY <1>0, <1>1, <2>1
  <1>4. /\ o3 \in Seq(Byte) /\ Len(o3) = n + 4
        /\ \A k \in 1..(n + 4) : o3[k] = IF k <= n + 2 THEN o2[k] ELSE ClassField[k - (n + 2)]
    <2>1. /\ o3 \in Seq(Byte) /\ Len(o3) = Len(o2) + Len(ClassField)
          /\ \A k \in 1..(Len(o2) + Len(ClassField)) :
                o3[k] = IF k <= Len(o2) THEN o2[k] ELSE ClassField[k - Len(o2)]
      BY <1>0, <1>1, <1>3, ConcatByte
    <2>2. QED
      BY <1>0, <1>1, <1>3, <2>1
  <1>5. /\ o4 \in Seq(Byte) /\ Len(o4) = n + 8
        /\ \A k \in 1..(n + 8) : o4[k] = IF k <= n + 4 THEN o3[k] ELSE TtlField(ttl)[k - (n + 4)]
    <2>1. /\ o4 \in Seq(Byte) /\ Len(o4) = Len(o3) + Len(TtlField(ttl))
          /\ \A k \in 1..(Len(o3) + Len(TtlField(ttl))) :
                o4[k] = IF k <= Len(o3) THEN o3[k] ELSE TtlField(ttl)[k - Len(o3)]
      BY <1>0, <1>1, <1>4, ConcatByte
    <2>2. QED
      BY <1>0, <1>1, <1>4, <2>1
  <1>6. /\ o5 \in Seq(Byte) /\ Len(o5) = n + 10
        /\ \A k \in 1..(n + 10) : o5[k] = IF k <= n + 8 THEN o4[k] ELSE RdlengthField[k - (n + 8)]
    <2>1. /\ o5 \in Seq(Byte) /\ Len(o5) = Len(o4) + Len(RdlengthField)
          /\ \A k \in 1..(Len(o4) + Len(RdlengthField)) :
                o5[k] = IF k <= Len(o4) THEN o4[k] ELSE RdlengthField[k - Len(o4)]
      BY <1>0, <1>1, <1>5, ConcatByte
    <2>2. QED
      BY <1>0, <1>1, <1>5, <2>1
  <1>7. /\ b \in Seq(Byte) /\ Len(b) = n + 14
        /\ \A k \in 1..(n + 14) : b[k] = IF k <= n + 10 THEN o5[k] ELSE ip[k - (n + 10)]
    <2>1. /\ b \in Seq(Byte) /\ Len(b) = Len(o5) + Len(ip)
          /\ \A k \in 1..(Len(o5) + Len(ip)) :
                b[k] = IF k <= Len(o5) THEN o5[k] ELSE ip[k - Len(o5)]
      BY <1>0, <1>1, <1>6, ConcatByte
    <2>2. QED
      BY <1>0, <1>1, <1>6, <2>1
  <1>8. ASSUME NEW j \in 1..2 PROVE b[n + j] = TypeField[j]
    <2>0. /\ n + j \in 1..(n + 14)
          /\ n + j <= n + 10
          /\ n + j \in 1..(n + 10)
          /\ n + j <= n + 8
          /\ n + j \in 1..(n + 8)
          /\ n + j <= n + 4
          /\ n + j \in 1..(n + 4)
          /\ n + j <= n + 2
          /\ n + j \in 1..(n + 2)
          /\ ~(n + j <= n)
          /\ (n + j) - (n) = j
      BY <1>1
    <2>1. b[n + j] = o5[n + j]
      BY <2>0, <1>7
    <2>2. o5[n + j] = o4[n + j]
      BY <2>0, <1>6
    <2>3. o4[n + j] = o3[n + j]
      BY <2>0, <1>5
    <2>4. o3[n + j] = o2[n + j]
      BY <2>0, <1>4
    <2>5. o2[n + j] = TypeField[j]
      BY <2>0, <1>3
    <2>6. QED
      BY <2>1, <2>2, <2>3, <2>4, <2>5
  <1>9. ASSUME NEW j \in 1..2 PROVE b[n + 2 + j] = ClassField[j]
    <2>0. /\ n + 2 + j \in 1..(n + 14)
          /\ n + 2 + j <= n + 10
          /\ n + 2 + j \in 1..(n + 10)
          /\ n + 2 + j <= n + 8
          /\ n + 2 + j \in 1..(n + 8)
          /\ n + 2 + j <= n + 4
          /\ n + 2 + j \in 1..(n + 4)
          /\ ~(n + 2 + j <= n + 2)
          /\ (n + 2 + j) - (n + 2) = j
      BY <1>1
    <2>1. b[n + 2 + j] = o5[n + 2 + j]
      BY <2>0, <1>7
    <2>2. o5[n + 2 + j] = o4[n + 2 + j]
      BY <2>0, <1>6
    <2>3. o4[n + 2 + j] = o3[n + 2 + j]
      BY <2>0, <1>5
    <2>4. o3[n + 2 + j] = ClassField[j]
      BY <2>0, <1>4
    <2>5. QED
      BY <2>1, <2>2, <2>3, <2>4
  <1>10. ASSUME NEW j \in 1..4 PROVE b[n + 4 + j] = TtlField(ttl)[j]
    <2>0. /\ n + 4 + j \in 1..(n + 14)
          /\ n + 4 + j <= n + 10
          /\ n + 4 + j \in 1..(n + 10)
          /\ n + 4 + j <= n + 8
          /\ n + 4 + j \in 1..(n + 8)
          /\ ~(n + 4 + j <= n + 4)
          /\ (n + 4 + j) - (n + 4) = j
      BY <1>1
    <2>1. b[n + 4 + j] = o5[n + 4 + j]
      BY <2>0, <1>7
    <2>2. o5[n + 4 + j] = o4[n + 4 + j]
      BY <2>0, <1>6
    <2>3. o4[n + 4 + j] = TtlField(ttl)[j]
      BY <2>0, <1>5
    <2>4. QED
      BY <2>1, <2>2, <2>3
  <1>11. ASSUME NEW j \in 1..2 PROVE b[n + 8 + j] = RdlengthField[j]
    <2>0. /\ n + 8 + j \in 1..(n + 14)
          /\ n + 8 + j <= n + 10
          /\ n + 8 + j \in 1..(n + 10)
          /\ ~(n + 8 + j <= n + 8)
          /\ (n + 8 + j) - (n + 8) = j
      BY <1>1
    <2>1. b[n + 8 + j] = o5[n + 8 + j]
      BY <2>0, <1>7
    <2>2. o5[n + 8 + j] = RdlengthField[j]
      BY <2>0, <1>6
    <2>3. QED
      BY <2>1, <2>2
  <1>12. ASSUME NEW j \in 1..4 PROVE b[n + 10 + j] = ip[j]
    <2>0. /\ n + 10 + j \in 1..(n + 14)
          /\ ~(n + 10 + j <= n + 10)
          /\ (n + 10 + j) - (n + 10) = j
      BY <1>1
    <2>1. b[n + 10 + j] = ip[j]
      BY <2>0, <1>7
    <2>2. QED
      BY <2>1
  <1>13. QED
    BY <1>2, <1>7, <1>8, <1>9, <1>10, <1>11, <1>12

\* A uint16_t load from where a store of v wrote reads v back, on either
\* host.
LEMMA LoadStoreU16 ==
    ASSUME NEW v \in Word16, NEW b, NEW i \in Nat,
           b[i + 1] = StoreU16(v)[1], b[i + 2] = StoreU16(v)[2]
    PROVE  LoadU16(b, i) = v
  <1>1. CASE HostLittleEndian
    BY <1>1 DEF LoadU16, StoreU16, Word16
  <1>2. CASE ~HostLittleEndian
    BY <1>2 DEF LoadU16, StoreU16, Word16
  <1>3. QED
    BY <1>1, <1>2

\* A uint32_t load from where a store of v wrote reads v back, on either
\* host.
LEMMA LoadStoreU32 ==
    ASSUME NEW v \in Word32, NEW b, NEW i \in Nat,
           \A j \in 1..4 : b[i + j] = StoreU32(v)[j]
    PROVE  LoadU32(b, i) = v
  <1>1. v = <<v[1], v[2], v[3], v[4]>>
    BY Word32Tuple
  <1>2. CASE HostLittleEndian
    BY <1>1, <1>2 DEF LoadU32, StoreU32
  <1>3. CASE ~HostLittleEndian
    BY <1>1, <1>3 DEF LoadU32, StoreU32
  <1>4. QED
    BY <1>2, <1>3

\* dnsasm_parse_rr reads back, from the record dnsasm_build_a_record
\* wrote, type A, class IN, the ttl given, rdlength 4 and the address, on
\* either host.
LEMMA ARecordReadBack ==
    ASSUME NEW name \in Seq(Byte), NEW ttl \in Word32, NEW ip \in [1..4 -> Byte]
    PROVE  LET b == ARecordOut(name, ttl, ip).bytes
               n == Len(name)
           IN  /\ ParseRRFixed(b, n) = [type |-> DNS_TYPE_A, class |-> DNS_CLASS_IN,
                                        ttl |-> ttl, rdlength |-> A_RDLENGTH]
               /\ SubSeq(b, n + 11, n + 14) = ip
               /\ DOMAIN b = 1..(n + 14)
  <1> DEFINE b == ARecordOut(name, ttl, ip).bytes
             n == Len(name)
  <1>1. /\ b \in Seq(Byte) /\ Len(b) = n + 14
        /\ \A j \in 1..2 : b[n + j] = TypeField[j]
        /\ \A j \in 1..2 : b[n + 2 + j] = ClassField[j]
        /\ \A j \in 1..4 : b[n + 4 + j] = TtlField(ttl)[j]
        /\ \A j \in 1..2 : b[n + 8 + j] = RdlengthField[j]
        /\ \A j \in 1..4 : b[n + 10 + j] = ip[j]
    BY ARecordBytes
  <1>2. n \in Nat /\ DOMAIN b = 1..(n + 14)
    BY <1>1, LenProperties
  <1>3. /\ TypeField = StoreU16(256) /\ ClassField = StoreU16(256)
        /\ RdlengthField = StoreU16(1024)
    BY Bswap16Consts DEF TypeField, ClassField, RdlengthField, DNS_TYPE_A,
                         DNS_CLASS_IN, A_RDLENGTH
  <1>4. /\ 256 \in Word16 /\ 1024 \in Word16
        /\ n + 2 \in Nat /\ n + 4 \in Nat /\ n + 8 \in Nat
    BY <1>2 DEF Word16
  <1>5. LoadU16(b, n) = 256
    <2>1. b[n + 1] = StoreU16(256)[1] /\ b[n + 2] = StoreU16(256)[2]
      BY <1>1, <1>3
    <2>2. QED
      BY <1>2, <1>4, <2>1, LoadStoreU16
  <1>6. LoadU16(b, n + 2) = 256
    <2>1. b[(n + 2) + 1] = StoreU16(256)[1] /\ b[(n + 2) + 2] = StoreU16(256)[2]
      BY <1>1, <1>2, <1>3
    <2>2. QED
      BY <1>4, <2>1, LoadStoreU16
  <1>7. LoadU16(b, n + 8) = 1024
    <2>1. b[(n + 8) + 1] = StoreU16(1024)[1] /\ b[(n + 8) + 2] = StoreU16(1024)[2]
      BY <1>1, <1>2, <1>3
    <2>2. QED
      BY <1>4, <2>1, LoadStoreU16
  <1>8. LoadU32(b, n + 4) = Bswap32(ttl)
    <2>1. Bswap32(ttl) \in Word32
      BY Bswap32Bytes DEF Word32
    <2>2. \A j \in 1..4 : b[(n + 4) + j] = StoreU32(Bswap32(ttl))[j]
      BY <1>1, <1>2 DEF TtlField
    <2>3. QED
      BY <1>4, <2>1, <2>2, LoadStoreU32
  <1>9. Bswap32(Bswap32(ttl)) = ttl
    <2>1. Bswap32(ttl) = <<ttl[4], ttl[3], ttl[2], ttl[1]>>
      BY Bswap32Bytes
    <2>2. <<ttl[4], ttl[3], ttl[2], ttl[1]>> \in Word32
      BY DEF Word32
    <2>3. Bswap32(<<ttl[4], ttl[3], ttl[2], ttl[1]>>) = <<ttl[1], ttl[2], ttl[3], ttl[4]>>
      BY <2>2, Bswap32Bytes
    <2>4. QED
      BY <2>1, <2>3, Word32Tuple
  <1>10. ParseRRFixed(b, n) = [type |-> DNS_TYPE_A, class |-> DNS_CLASS_IN,
                               ttl |-> ttl, rdlength |-> A_RDLENGTH]
    BY <1>5, <1>6, <1>7, <1>8, <1>9, Bswap16Consts
       DEF ParseRRFixed, DNS_TYPE_A, DNS_CLASS_IN, A_RDLENGTH
  <1>11. SubSeq(b, n + 11, n + 14) = ip
    <2>1. \A k \in (n + 11)..(n + 14) : b[k] \in Byte
      BY <1>1, <1>2
    <2>2. /\ SubSeq(b, n + 11, n + 14) \in Seq(Byte)
          /\ Len(SubSeq(b, n + 11, n + 14)) = 4
          /\ \A k \in 1..4 : SubSeq(b, n + 11, n + 14)[k] = b[n + 11 + k - 1]
      BY <1>2, <2>1, SubSeqProperties
    <2>3. ip \in Seq(Byte) /\ Len(ip) = 4
      BY FunSeq
    <2>4. ASSUME NEW k \in 1..4 PROVE SubSeq(b, n + 11, n + 14)[k] = ip[k]
      <3>1. SubSeq(b, n + 11, n + 14)[k] = b[n + 10 + k]
        BY <1>2, <2>2
      <3>2. b[n + 10 + k] = ip[k]
        BY <1>1
      <3>3. QED
        BY <3>1, <3>2
    <2>5. QED
      BY <2>2, <2>3, <2>4, SeqEqual
  <1>12. QED
    BY <1>2, <1>10, <1>11

\* On a little-endian host the stores of the swapped values write the
\* fields high byte first.
LEMMA LittleEndianFields ==
    ASSUME HostLittleEndian, NEW ttl \in Word32
    PROVE  /\ TypeField = <<0, DNS_TYPE_A>> /\ ClassField = <<0, DNS_CLASS_IN>>
           /\ TtlField(ttl) = <<ttl[1], ttl[2], ttl[3], ttl[4]>>
           /\ RdlengthField = <<0, A_RDLENGTH>>
  <1>1. /\ TypeField = StoreU16(256) /\ ClassField = StoreU16(256)
        /\ RdlengthField = StoreU16(1024)
    BY Bswap16Consts DEF TypeField, ClassField, RdlengthField, DNS_TYPE_A,
                         DNS_CLASS_IN, A_RDLENGTH
  <1>2. StoreU16(256) = <<0, 1>> /\ StoreU16(1024) = <<0, 4>>
    BY DEF StoreU16
  <1>3. TtlField(ttl) = <<ttl[1], ttl[2], ttl[3], ttl[4]>>
    BY Bswap32Bytes DEF TtlField, StoreU32
  <1>4. QED
    BY <1>1, <1>2, <1>3 DEF DNS_TYPE_A, DNS_CLASS_IN, A_RDLENGTH

-----------------------------------------------------------------------------
(* The inductive invariant *)

\* Once dnsasm_build_a_record has returned, the buffer and the return
\* value are what it computes from the arguments of the call.
IInv ==
    /\ phase \in {"idle", "done"}
    /\ (phase = "done" /\ call.fn = "arecord") =>
          /\ call.name \in Names /\ call.ttl \in Ttls /\ call.ip \in Ips
          /\ out = ARecordOut(call.name, call.ttl, call.ip).bytes
          /\ ret = ARecordOut(call.name, call.ttl, call.ip).pos

LEMMA IInvInit == Init => IInv
  BY DEF Init, IInv

LEMMA IInvStep == IInv /\ [Next]_vars => IInv'
  <1> SUFFICES ASSUME IInv, [Next]_vars PROVE IInv'
    OBVIOUS
  <1>1. CASE CopyQuestion
    <2>1. phase' = "done" /\ call'.fn = "copy"
      BY <1>1 DEF CopyQuestion
    <2>2. QED
      BY <2>1 DEF IInv
  <1>2. CASE BuildARecord
    <2>1. PICK name \in Names, ttl \in Ttls, ip \in Ips :
             /\ out' = ARecordOut(name, ttl, ip).bytes
             /\ ret' = ARecordOut(name, ttl, ip).pos
             /\ call' = [fn |-> "arecord", name |-> name, ttl |-> ttl, ip |-> ip]
      BY <1>2 DEF BuildARecord
    <2>2. phase' = "done"
      BY <1>2 DEF BuildARecord
    <2>3. QED
      BY <2>1, <2>2 DEF IInv
  <1>3. CASE Returned
    BY <1>3 DEF Returned, vars, IInv
  <1>4. CASE UNCHANGED vars
    BY <1>4 DEF vars, IInv
  <1>5. QED
    BY <1>1, <1>2, <1>3, <1>4 DEF Next

LEMMA IInvAlways == Spec => []IInv
  BY IInvInit, IInvStep, PTL DEF Spec

-----------------------------------------------------------------------------
(* Theorems *)

\* dnsasm_parse_rr reads back every A record dnsasm_build_a_record writes,
\* for every name, ttl and address and on either host: the property
\* RecordRoundTrip that run arecord checks on a small instance.
THEOREM RecordRoundTripHolds == Spec => []RecordRoundTrip
  <1>1. IInv => RecordRoundTrip
    <2> SUFFICES ASSUME IInv, phase = "done", call.fn = "arecord"
                 PROVE  RecordRoundTrip
      BY DEF RecordRoundTrip
    <2>1. /\ call.name \in Seq(Byte) /\ call.ttl \in Word32 /\ call.ip \in [1..4 -> Byte]
          /\ out = ARecordOut(call.name, call.ttl, call.ip).bytes
          /\ ret = ARecordOut(call.name, call.ttl, call.ip).pos
      BY InputsAssumption DEF IInv
    <2>2. /\ ParseRRFixed(out, Len(call.name)) =
                [type |-> DNS_TYPE_A, class |-> DNS_CLASS_IN,
                 ttl |-> call.ttl, rdlength |-> A_RDLENGTH]
          /\ SubSeq(out, Len(call.name) + 11, Len(call.name) + 14) = call.ip
          /\ DOMAIN out = 1..(Len(call.name) + 14)
      BY <2>1, ARecordReadBack
    <2>3. ret = Len(call.name) + 14
      BY <2>1, ARecordConcat
    <2>4. ParseRRFixed(out, Len(call.name)).rdlength = 4
      BY <2>2 DEF A_RDLENGTH
    <2>5. Len(call.name) + 10 + ParseRRFixed(out, Len(call.name)).rdlength
            = Len(call.name) + 14
      BY <2>1, <2>4
    <2>6. QED
      BY <2>2, <2>3, <2>5 DEF RecordRoundTrip, A_RDLENGTH
  <1>2. QED
    BY <1>1, IInvAlways, PTL

\* On a little-endian host every A record dnsasm_build_a_record writes is
\* laid out as spec 4.5 says, all numbers big-endian: the property
\* ARecordLayout of run arecord, for every name, ttl and address.
THEOREM ARecordLayoutLE ==
    ASSUME HostLittleEndian
    PROVE  Spec => []ARecordLayout
  <1>1. IInv => ARecordLayout
    <2> SUFFICES ASSUME IInv, phase = "done", call.fn = "arecord"
                 PROVE  ARecordLayout
      BY DEF ARecordLayout
    <2>1. /\ call.name \in Seq(Byte) /\ call.ttl \in Word32 /\ call.ip \in [1..4 -> Byte]
          /\ out = ARecordOut(call.name, call.ttl, call.ip).bytes
      BY InputsAssumption DEF IInv
    <2>2. out = call.name \o TypeField \o ClassField \o TtlField(call.ttl)
                  \o RdlengthField \o call.ip
      BY <2>1, ARecordConcat
    <2>3. /\ TypeField = <<0, DNS_TYPE_A>> /\ ClassField = <<0, DNS_CLASS_IN>>
          /\ TtlField(call.ttl) = <<call.ttl[1], call.ttl[2], call.ttl[3], call.ttl[4]>>
          /\ RdlengthField = <<0, A_RDLENGTH>>
      BY <2>1, LittleEndianFields
    <2>4. QED
      BY <2>2, <2>3 DEF ARecordLayout
  <1>2. QED
    BY <1>1, IInvAlways, PTL

=============================================================================
