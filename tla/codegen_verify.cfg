SPECIFICATION Spec
CONSTANTS
    Safe <- MCSafe
    Texts <- MCTexts
    Manifests <- ExampleOnly
INVARIANTS
    EveryNamedFunctionVerified
\* a run of generate ends
CHECK_DEADLOCK FALSE
