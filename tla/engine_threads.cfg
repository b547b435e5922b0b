\* Calls taken apart into loads and stores implement the atomic engine
SPECIFICATION ThreadsSpec
CONSTANTS
    t1 = t1
    t2 = t2
    a1 = a1
    a2 = a2
    NULL = NULL
    Threads <- MCThreads
    Addr <- MCAddr
    FormatCodes <- MCFormatCodes
    DerivedCounts <- MCDerivedCounts
    MaxU32 = 1
INVARIANTS ThreadsTypeOK EnginesAtRest
PROPERTY ImplementsAtomicEngine
SYMMETRY Symmetry
VIEW WithoutReplies
