\* Clients of the engine, the memory they own and the ends of their sessions
SPECIFICATION ClientSpec
CONSTANTS
    c1 = c1
    c2 = c2
    a1 = a1
    a2 = a2
    a3 = a3
    NULL = NULL
    Threads <- MCClients
    Addr <- MCAddr
    FormatCodes <- MCFormatCodes
    DerivedCounts <- MCDerivedCounts
    MaxU32 = 3
    Scripts <- MCScripts
INVARIANTS
    ClientTypeOK
    HeapAccounted
    OutcomesAreTrue
PROPERTIES
    SessionsGoOn
    CallsAreLegal
