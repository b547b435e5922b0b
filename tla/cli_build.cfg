\* What build finds where generate left the artifacts
SPECIFICATION Spec
CONSTANTS
    p1 = p1
    p2 = p2
    Cmds <- MCCmds
    Manifests <- MCManifests
    Template <- MCTemplate
    Outputs <- MCOutputs
INVARIANT BuildFindsTheScript
