\* The engine's invariants and its refinement of ProofWorkflow
SPECIFICATION Spec
CONSTANTS
    t1 = t1
    t2 = t2
    a1 = a1
    a2 = a2
    NULL = NULL
    Threads <- MCThreads
    Addr <- MCAddr
    FormatCodes <- MCFormatCodes
    DerivedCounts <- MCDerivedCounts
    MaxU32 = 3
INVARIANTS
    TypeOK
    CountersTrackProof
    ErrorReflectsLastCall
PROPERTY ImplementsWorkflow

SYMMETRY Symmetry
