\* Four lines, a channel of one, two sessions.
SPECIFICATION FairSpec
CONSTANTS
    Sessions = {one, two}
    InputSize = 1
    MaxLines = 4
INVARIANTS
    FewUnderWay
PROPERTIES
    ImplementsLineQueue
    AllHandled
    LookUpsEnd
CHECK_DEADLOCK FALSE
