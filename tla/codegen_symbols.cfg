SPECIFICATION Spec
CONSTANTS
    Safe <- MCSafe
    Texts <- MCTexts
    Manifests <- ExampleOnly
INVARIANTS
    ForeignSymbolsExported
\* a run of generate ends
CHECK_DEADLOCK FALSE
