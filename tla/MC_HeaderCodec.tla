---------------------------- MODULE MC_HeaderCodec ----------------------------
(* Field values that set every flag bit on and off, and every byte of a     *)
(* count to zero and non-zero; the header of spec 8's end-to-end example.   *)
EXTENDS HeaderCodec

MCIds == {0, 4660, 65535}               \* 0x0000, 0x1234, 0xFFFF
MCFlagWords == {256, 34176, 31247}       \* 0x0100, 0x8580, 0x7A0F
MCCounts == {0, 1, 256}
=============================================================================
