CONSTANTS
    Handlers = {h1}
    h1 = h1
    NoLock = NoLock
    Surfaces = {"tap", "shared"}
    Plans <- MCPlans
    Attempts = 2
    NetworkLimit = 2
    InlineLimit = 1
    Retries = 1
    MaxUpdates = 1
    Losable = {"caller", "other", "inline"}
SPECIFICATION FairSpec
INVARIANTS
    NoDoublePost
    
    DrainIsThorough
PROPERTIES
    UpdatesEnd
CHECK_DEADLOCK FALSE
