\* An answer with statements of a template that is not known.
SPECIFICATION Spec
CONSTANTS
    template = template
    spammer = spammer
    host = host
    alice = alice
    bob = bob
    typed = 0
    synced = 1
    connected = 0
    restarted = 0
    lost = 0
    Nodes = {alice, bob}
    TemplateName = template
    DataNames = {spammer}
    Entities = {host}
    None = None
    Dates = {0, 1, 2}
    Valids = {0, 1}
    Serials = {0}
    OwnValid = 1
    AnswerValid = 0
    InboxSize = 2
    AnswerLimit = 2
    FirstDay = 1
    Databases <- MCDatabases
    Limits <- MCLimits
    MaxEvents = 1
PROPERTY
    AnswersPersist
CHECK_DEADLOCK FALSE
