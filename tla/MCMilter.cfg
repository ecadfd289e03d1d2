\* One session over several messages, with the storage changing.
SPECIFICATION FairSpec
CONSTANTS
    host = host
    sender = sender
    spam = spam
    dialup = dialup
    friend = friend
    s1 = s1
    Sessions = {s1}
    Entities = {host, sender}
    Statements = {spam, dialup, friend}
    name <- Mcname
    Concerning <- MCConcerning
    Null = Null
    MentionLists <- MCMentionLists
    MaxDay = 2
    InputSize = 2
INVARIANTS
    TypeOK
    InStep
    VerdictCoversTold
    VerdictRestsOnTold
PROPERTY
    EveryCommandAnswered
CHECK_DEADLOCK FALSE
