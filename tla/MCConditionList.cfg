SPECIFICATION Spec
CONSTANTS
    Texts <- MCTexts
    MaxCalls <- MCMaxCalls
INVARIANTS
    TypeOK
    UniqueTypes
PROPERTIES
    ActsAsMap
    TimeNeedsTransition
\* the history ends with its last call
CHECK_DEADLOCK FALSE
