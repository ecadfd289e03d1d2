CONSTANTS
    Scripts <- MCScripts
    Reasons <- MCReasons

SPECIFICATION FairSpec

INVARIANTS
    ResponsesRead

PROPERTIES
    ImplementsChannel
    SessionProceeds

\* A session has ended with its connection.
CHECK_DEADLOCK FALSE
