\* The engine with the placeholder derivation of the code
SPECIFICATION Spec
CONSTANTS
    t1 = t1
    t2 = t2
    a1 = a1
    a2 = a2
    NULL = NULL
    Threads <- MCThreads
    Addr <- MCAddr
    FormatCodes <- MCFormatCodes
    DerivedCounts <- MCShippedCounts
    MaxU32 = 3
INVARIANTS
    ZeroMeansFailure

SYMMETRY Symmetry
