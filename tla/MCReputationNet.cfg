\* Safety of two nodes with users, connections and restarts.
SPECIFICATION Spec
CONSTANTS
    template = template
    spammer = spammer
    host = host
    alice = alice
    bob = bob
    typed = 1
    synced = 1
    connected = 1
    restarted = 2
    lost = 0
    Nodes = {alice, bob}
    TemplateName = template
    DataNames = {spammer}
    Entities = {host}
    None = None
    Dates = {0, 1, 2}
    Valids = {0, 1}
    Serials = {0}
    OwnValid = 1
    AnswerValid = 0
    InboxSize = 2
    AnswerLimit = 2
    FirstDay = 1
    Databases <- MCDatabases
    Limits <- MCLimits
    MaxEvents = 4
INVARIANTS
    TypeOK
    StaleOnlyByOwn
    SignerHolds
CHECK_DEADLOCK FALSE
