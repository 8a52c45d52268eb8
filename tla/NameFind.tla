------------------------------- MODULE NameFind -------------------------------
(***************************************************************************)
(* dnsasm_name_find and the dnsasm_name_equal it calls (dnsasm.c 294-340). *)
(* The haystack is an array of entries, each a pointer to a buffer the     *)
(* caller owns: an entry is modelled by the bytes of its buffer.  For each *)
(* entry the finder walks its label lengths to compute hay_len, then       *)
(* compares it with the needle byte by byte, folding A-Z to a-z.           *)
(***************************************************************************)
EXTENDS Integers, Sequences

CONSTANTS
    Needles,    \* the (needle, needle_len) pairs given, as byte sequences
    Haystacks   \* the haystack arrays given: sequences of entry buffers

Byte == 0..255

ASSUME InputsAssumption ==
    /\ Needles \subseteq Seq(Byte)
    /\ Haystacks \subseteq Seq(Seq(Byte))

DNS_MAX_NAME_LEN == 255
NOT_FOUND == -1

VARIABLES
    needle,    \* needle[0 .. needle_len - 1]
    hay,       \* haystack[0 .. count - 1], each entry the bytes of its buffer
    i,         \* the loop index of dnsasm_name_find
    pos,       \* the walk position in haystack[i]
    hayLen,    \* hay_len
    result,    \* the return value
    pc,        \* "for", "walk", "equal", "done"
    hayReads   \* the <<entry, position>> pairs read so far

vars == <<needle, hay, i, pos, hayLen, result, pc, hayReads>>

\* haystack[k][p]; a read past the entry's buffer is undefined and is
\* recorded in hayReads; the model reads 0 there.
HayAt(k, p) == IF p < Len(hay[k + 1]) THEN hay[k + 1][p + 1] ELSE 0

\* Mutant of Fold: 'Z' left out of the folded range.
FoldBelowZ(c) == IF c >= 65 /\ c < 90 THEN c + 32 ELSE c

\* `ca += 32` for 'A' <= ca <= 'Z' (lines 305-306), on any byte.
Fold(c) == IF c >= 65 /\ c <= 90 THEN c + 32 ELSE c

\* dnsasm_name_equal(needle, needle_len, haystack[k], n) = 0.
NameEqual(k, n) ==
    Len(needle) = n /\ \A p \in 0..(n - 1) : Fold(needle[p + 1]) = Fold(HayAt(k, p))

\* The positions of haystack[k] dnsasm_name_equal reads: none when the
\* lengths differ, else up to and including the first mismatch.
ComparedPositions(k, n) ==
    LET M == {p \in 0..(n - 1) : Fold(needle[p + 1]) # Fold(HayAt(k, p))}
    IN  IF Len(needle) # n THEN {}
        ELSE IF M = {} THEN 0..(n - 1)
        ELSE 0..(CHOOSE m \in M : \A q \in M : m <= q)

\* Mutant of WalkStep: the length byte itself not skipped.
WalkStepNoPrefix(p) == p + HayAt(i, p)

\* `pos += 1 + hay[pos]`.
WalkStep(p) == p + 1 + HayAt(i, p)

\* The walk's condition `hay[pos] != 0 && pos < DNS_MAX_NAME_LEN`: the
\* byte is read before the bound is tested.
WalkContinues(p) == HayAt(i, p) # 0 /\ p < DNS_MAX_NAME_LEN

Init ==
    /\ needle \in Needles
    /\ hay \in Haystacks
    /\ i = 0
    /\ pos = 0
    /\ hayLen = 0
    /\ result = NOT_FOUND
    /\ pc = "for"
    /\ hayReads = {}

\* The head of `for (i = 0; i < count; i++)`: start walking haystack[i],
\* or return -1.
ForHead ==
    /\ pc = "for"
    /\ \/ /\ i < Len(hay)
          /\ pos' = 0
          /\ pc' = "walk"
          /\ UNCHANGED result
       \/ /\ i >= Len(hay)
          /\ result' = NOT_FOUND
          /\ pc' = "done"
          /\ UNCHANGED pos
    /\ UNCHANGED <<needle, hay, i, hayLen, hayReads>>

\* One test of the walk's condition, and its body or `hay_len = pos + 1`.
Walk ==
    /\ pc = "walk"
    /\ hayReads' = hayReads \cup {<<i, pos>>}
    /\ \/ /\ WalkContinues(pos)
          /\ pos' = WalkStep(pos)
          /\ UNCHANGED <<hayLen, pc>>
       \/ /\ ~WalkContinues(pos)
          /\ hayLen' = pos + 1
          /\ pc' = "equal"
          /\ UNCHANGED pos
    /\ UNCHANGED <<needle, hay, i, result>>

\* The call of dnsasm_name_equal and `return (int)i`, or the next entry.
Equal ==
    /\ pc = "equal"
    /\ hayReads' = hayReads \cup {<<i, p>> : p \in ComparedPositions(i, hayLen)}
    /\ \/ /\ NameEqual(i, hayLen)
          /\ result' = i
          /\ pc' = "done"
          /\ UNCHANGED i
       \/ /\ ~NameEqual(i, hayLen)
          /\ i' = i + 1
          /\ pc' = "for"
          /\ UNCHANGED result
    /\ UNCHANGED <<needle, hay, pos, hayLen>>

\* The call has returned.
Returned ==
    /\ pc = "done"
    /\ UNCHANGED vars

Next == ForHead \/ Walk \/ Equal \/ Returned

Spec == Init /\ [][Next]_vars /\ WF_vars(Next)

-----------------------------------------------------------------------------
(* Reference: names compared label by label (RFC 4343)                     *)

\* The labels of a well-formed wire name, in order.
LabelsOf(n) ==
    LET L[p \in 0..Len(n)] ==
            IF p >= Len(n) \/ n[p + 1] = 0 THEN <<>>
            ELSE <<SubSeq(n, p + 2, p + 1 + n[p + 1])>>
                   \o L[IF p + 1 + n[p + 1] <= Len(n) THEN p + 1 + n[p + 1] ELSE Len(n)]
    IN  L[0]

\* ASCII letters equal up to case, every other byte exactly.
CaseEq(x, y) == x = y \/ {x, y} \in {{u, u + 32} : u \in 65..90}

\* Two names are the same name: the same number of labels, each of the
\* same length and equal up to ASCII case.
SameName(a, b) ==
    LET la == LabelsOf(a)
        lb == LabelsOf(b)
    IN  /\ Len(la) = Len(lb)
        /\ \A k \in 1..Len(la) :
              /\ Len(la[k]) = Len(lb[k])
              /\ \A c \in 1..Len(la[k]) : CaseEq(la[k][c], lb[k][c])

-----------------------------------------------------------------------------
(* Properties *)

\* dnsasm_name_find returns the index of the first entry that is the same
\* name as the needle up to ASCII case, and -1 when there is none: the
\* byte-wise fold of dnsasm_name_equal, which also folds the length bytes,
\* agrees with a label-wise comparison (spec, open question on folding).
FindCorrect ==
    pc = "done" =>
        LET M == {k \in 0..(Len(hay) - 1) : SameName(needle, hay[k + 1])}
        IN  result = IF M = {} THEN NOT_FOUND
                     ELSE CHOOSE k \in M : \A q \in M : k <= q

\* The length walk and the comparison read only bytes of the entry's own
\* buffer.
NoOutOfBoundsRead ==
    \A r \in hayReads : r[2] < Len(hay[r[1] + 1])

\* spec: the walk over an entry is "bounded by the 255-byte maximum", so
\* no byte at or beyond offset 255 of an entry is ever read.
ScanBounded ==
    \A r \in hayReads : r[2] < DNS_MAX_NAME_LEN

=============================================================================
