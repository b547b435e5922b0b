\* generate: concurrent runs, crashes, I/O errors, edits
SPECIFICATION Spec
CONSTANTS
    p1 = p1
    p2 = p2
    Procs <- MCProcs
    Manifests <- MCManifests
    Editions <- MCEditions
    Safe <- MCSafe
    Slashed <- MCSlashed
INVARIANTS
    TypeOK
    PublishedIsCoherent
    ReferencedFilesExist
SYMMETRY Symmetry
