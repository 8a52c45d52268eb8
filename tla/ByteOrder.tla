------------------------------ MODULE ByteOrder ------------------------------
(***************************************************************************)
(* The byte-order primitives of dnsasm.c: bswap16 and bswap32, and the     *)
(* 16- and 32-bit loads and stores the code makes through uint16_t and     *)
(* uint32_t pointer casts.  What such an access writes or reads depends on *)
(* the host's byte order, the constant HostLittleEndian.                   *)
(***************************************************************************)
EXTENDS Integers, Sequences

CONSTANT HostLittleEndian  \* the byte order of pointer-cast loads and stores

ASSUME HostOrderAssumption == HostLittleEndian \in BOOLEAN

Byte == 0..255

\* uint16_t (written as a filtered set, so that membership is a pair of
\* bounds)
Word16 == {x \in Nat : x <= 65535}

\* uint32_t, as its four bytes, most significant first: x[1] is bits 24-31
\* and x[4] bits 0-7.  Every mask and shift of the code is a whole number
\* of bytes, so the byte form is exact.
Word32 == [1..4 -> Byte]

\* Mutant of Bswap16: the int-promoted result not truncated to uint16_t.
Bswap16NoTrunc(x) == x \div 256 + x * 256

\* bswap16: (x >> 8) | (x << 8), returned as uint16_t.  The two halves
\* have no bit in common, so the OR is their sum.
Bswap16(x) == (x \div 256 + x * 256) % 65536

\* x >> 8k and x << 8k (truncated to uint32_t).
Shr(x, k) == [d \in 1..4 |-> IF d > k THEN x[d - k] ELSE 0]
Shl(x, k) == [d \in 1..4 |-> IF d + k <= 4 THEN x[d + k] ELSE 0]

\* x & m for the one-byte mask m with byte d set (0xff is byte 4,
\* 0xff000000 byte 1).
Mask(x, d) == [e \in 1..4 |-> IF e = d THEN x[e] ELSE 0]

\* The OR of four values with disjoint masks: the byte-wise sum.
Or4(a, b, c, e) == [d \in 1..4 |-> a[d] + b[d] + c[d] + e[d]]

\* Mutant of Bswap32: the second term shifted by 16 instead of 8.
Bswap32Shift16(x) ==
    Or4(Mask(Shr(x, 3), 4), Mask(Shr(x, 2), 3), Mask(Shl(x, 1), 2), Mask(Shl(x, 3), 1))

\* bswap32: ((x >> 24) & 0xff) | ((x >> 8) & 0xff00) | ((x << 8) & 0xff0000)
\*          | ((x << 24) & 0xff000000).
Bswap32(x) ==
    Or4(Mask(Shr(x, 3), 4), Mask(Shr(x, 1), 3), Mask(Shl(x, 1), 2), Mask(Shl(x, 3), 1))

\* The two bytes a store of the uint16_t v writes, in memory order.
StoreU16(v) ==
    IF HostLittleEndian THEN <<v % 256, v \div 256>> ELSE <<v \div 256, v % 256>>

\* A uint16_t load from buffer position i (0-based).
LoadU16(b, i) ==
    IF HostLittleEndian THEN b[i + 1] + 256 * b[i + 2]
                        ELSE 256 * b[i + 1] + b[i + 2]

\* The four bytes a store of the uint32_t v writes, in memory order.
StoreU32(v) ==
    IF HostLittleEndian THEN <<v[4], v[3], v[2], v[1]>> ELSE <<v[1], v[2], v[3], v[4]>>

\* A uint32_t load from buffer position i (0-based).
LoadU32(b, i) ==
    IF HostLittleEndian THEN <<b[i + 4], b[i + 3], b[i + 2], b[i + 1]>>
                        ELSE <<b[i + 1], b[i + 2], b[i + 3], b[i + 4]>>

==============================================================================
