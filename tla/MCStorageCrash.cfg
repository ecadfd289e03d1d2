\* A crash between deleting an overridden opinion and inserting the new one.
SPECIFICATION Spec
CONSTANTS
    root = root
    signer = signer
    spammer = spammer
    host = host
    own1 = own1
    own2 = own2
    peer = peer
    RootTemplate = root
    SignerTemplate = signer
    DataTemplates <- MCTemplates
    Entities = {host}
    Keys = {own1, own2, peer}
    OwnKeys = {own1, own2}
    Null = Null
    Inputs <- MCInputs
    Batches <- MCBatches
    Dates = {0, 1}
    Valids = {0, 1}
    Serials = {0, 1}
    DefaultValid = 1
    MaxId = 9
    MaxCrashes = 1
    CrashDuringReplace = TRUE
PROPERTY
    OnlyOverriddenDeleted
