\* Two administrators and one place; values that are fine, that the cross validator
\* rejects, and that are out of range; up to two lines at once.
CONSTANTS
    NULL = NULL
    Client = {c1, c2}
    MaxConnections = 1
    Valid = {v1, v2}
    CrossInvalid = {x}
    OutOfRange = {y}
    Requests <- Lines
    MaxLines = 2
SPECIFICATION FairSpec
INVARIANTS TypeOK ConnectionsCounted
PROPERTIES ImplementsOption SlotsAreFreed RequestsAnswered
