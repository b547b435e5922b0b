SPECIFICATION Spec
CONSTANTS
    Safe <- MCSafe
    Texts <- MCTexts
    Manifests <- ExampleOnly
INVARIANTS
    PreconditionsCheckedOnEveryCall
\* a run of generate ends
CHECK_DEADLOCK FALSE
