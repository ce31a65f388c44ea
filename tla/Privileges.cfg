SPECIFICATION Spec
CONSTANTS
    Requests = 2
INVARIANTS
    TypeOK
    PromptsAreSeen
PROPERTIES
    CallSpec
    CallsEnd
CHECK_DEADLOCK FALSE
