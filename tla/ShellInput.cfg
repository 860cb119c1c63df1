SPECIFICATION Spec
CONSTANTS
    Keyboards <- MCKeyboards
    InputSize = 7
    MaxToken = 5
    TokenSize = 4
    MaxArgs = 3
    Statuses <- MCStatuses
INVARIANTS
    NothingLeaked
PROPERTIES
    ImplementsStream
