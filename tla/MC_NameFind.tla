------------------------------ MODULE MC_NameFind ------------------------------
EXTENDS NameFind

\* Label bytes: the ends of the folded range and their lower-case images.
MCLetters == {65, 90, 97, 122}

\* Well-formed names of up to five bytes; a three-byte label and two
\* one-byte labels give names of the same length and different shape.
MCNames ==
    {<<0>>}
    \cup {<<1, x, 0>> : x \in MCLetters}
    \cup {<<2, x, y, 0>> : x, y \in MCLetters}
    \cup {<<1, x, 1, y, 0>> : x, y \in MCLetters}
    \cup {<<3, x, y, z, 0>> : x, y, z \in {65, 97}}

MCNeedles == MCNames

\* Arrays of up to two entries.
MCHaystacks == {<<>>} \cup {<<e>> : e \in MCNames} \cup {<<e, f>> : e, f \in MCNames}

\* A 256-byte name buffer (the size of dnsasm_question_t.name) holding
\* maximal 63-byte labels and no terminator.
MCUnterminated == [p \in 1..256 |-> IF (p - 1) % 64 = 0 THEN 63 ELSE 97]

MCMalformedHaystacks == {<<MCUnterminated>>}

MCMalformedNeedles == {<<1, 97, 0>>}
================================================================================
