CONSTANTS
    Needles <- MCNeedles
    Haystacks <- MCHaystacks
SPECIFICATION Spec
INVARIANTS
    FindCorrect
    NoOutOfBoundsRead
