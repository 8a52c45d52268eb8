CONSTANTS
    Needles <- MCMalformedNeedles
    Haystacks <- MCMalformedHaystacks
SPECIFICATION Spec
INVARIANTS
    ScanBounded
