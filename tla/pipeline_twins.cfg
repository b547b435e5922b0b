\* "Each interface produces an Idris2 module": two names that differ in '-' and '_'
SPECIFICATION Spec
CONSTANTS
    p1 = p1
    p2 = p2
    Procs <- MCProcs
    Manifests <- MCTwins
    Editions <- MCEditions
    Safe <- MCSafe
    Slashed <- MCSlashed
INVARIANTS
    EveryInterfaceHasItsModule
SYMMETRY Symmetry
