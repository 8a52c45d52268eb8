-------------------------- MODULE MC_SectionDecode --------------------------
(***************************************************************************)
(* Small instances of SectionDecode.  Question packets are every string    *)
(* up to 7 bytes over terminator, label length 1 and pointer byte.  Record *)
(* packets are a short name, the 8 bytes of type, class and ttl (their     *)
(* values are never interpreted), an rdlength of 0..2 or 256, and rdata;   *)
(* every prefix of such a packet is included, so that each trailer check   *)
(* fails somewhere.                                                        *)
(***************************************************************************)
EXTENDS SectionDecode

StringsUpTo(S, n) == UNION {[1..k -> S] : k \in 0..n}

Prefixes(s) == {SubSeq(s, 1, k) : k \in 0..Len(s)}

RRPackets ==
    UNION {Prefixes(name \o [i \in 1..8 |-> 0] \o rdl \o rdata) :
             name \in StringsUpTo({0, 1, 192}, 3),
             rdl \in {<<0, 0>>, <<0, 1>>, <<0, 2>>, <<1, 0>>},
             rdata \in StringsUpTo({0}, 2)}

MCPackets == StringsUpTo({0, 1, 192}, 7) \cup RRPackets

\* Seven-byte packets whose first label can reach over a later pointer to
\* the end of the packet: 06 c0 00 .. is a label of six bytes at offset 0
\* that contains the pointer at offset 1.
MCLongLabelPackets == [1..7 -> {0, 6, 192}]

\* The code's own bounds.
CodeMaxHops == 127
CodeMaxNameLen == 255

MCMaxHops == 2
MCMaxNameLen == 4
=============================================================================
