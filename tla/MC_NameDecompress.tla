------------------------- MODULE MC_NameDecompress -------------------------
(***************************************************************************)
(* Small instances of NameDecompress for TLC.  The packets are every byte  *)
(* string up to a length over a few byte values chosen so that each       *)
(* branch of the loop occurs: 0 (terminator), small label lengths, 64 (a   *)
(* length byte > 63), 192 (pointer high byte 0xC0; its second byte is the *)
(* target), and pointer targets 0..3.                                      *)
(***************************************************************************)
EXTENDS NameDecompress

\* All byte strings over S of length at most n.
StringsUpTo(S, n) == UNION {[1..k -> S] : k \in 0..n}

\* Every string up to 5 bytes over a rich alphabet, and every 7-byte string
\* over an alphabet that admits three chained pointers.
MCPackets ==
    StringsUpTo({0, 1, 2, 64, 192}, 5) \cup [1..7 -> {0, 1, 3, 192}]

MCMaxHops == 2
MCMaxNameLen == 4
=============================================================================
