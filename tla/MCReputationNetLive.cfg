\* Progress of two nodes; a message may be lost.
SPECIFICATION FairSpec
CONSTANTS
    template = template
    spammer = spammer
    host = host
    alice = alice
    bob = bob
    typed = 1
    synced = 1
    connected = 0
    restarted = 0
    lost = 1
    Nodes = {alice, bob}
    TemplateName = template
    DataNames = {spammer}
    Entities = {host}
    None = None
    Dates = {0, 1, 2}
    Valids = {1}
    Serials = {0}
    OwnValid = 1
    AnswerValid = 1
    InboxSize = 5
    AnswerLimit = 1
    FirstDay = 1
    Databases <- MCDatabases
    Limits <- MCLimits
    MaxEvents = 3
PROPERTIES
    FallsSilent
    
    PublishedArrives
CHECK_DEADLOCK FALSE
