\* Storing and finding statements of one to four entities.
SPECIFICATION Spec
CONSTANTS
    Null = Null
    DigitBits = 2
    OctetsOf <- MCOctetsOf
    EntitySet <- MCEntitySet
    Templates <- MCTemplates
    Statements <- MCStatements
    Databases <- MCDatabases
    Queries <- MCQueries
    MaxId = 7
    MaxGone = 1
    MaxRestarts = 1
INVARIANTS
    StatementsUnique
    RowFoundSaysIt
    RepetitionsFindTheirRow
    EMailsCloaked
    NothingForeignFound
    NothingMissed
CHECK_DEADLOCK FALSE
