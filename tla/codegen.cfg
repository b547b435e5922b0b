SPECIFICATION Spec
CONSTANTS
    Safe <- MCSafe
    Texts <- MCTexts
    Manifests <- MCManifests
INVARIANTS
    TypeOK
    ContractsHonourManifest
    PanicLeavesNoArtifact
    NamesDefinedBeforeUse
    ArgumentsAgree
    BridgeDeclaresOnce
\* a run of generate ends
CHECK_DEADLOCK FALSE
