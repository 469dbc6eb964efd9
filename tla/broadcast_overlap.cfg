SPECIFICATION Spec
CONSTANTS
    w1 = w1
    w2 = w2
    op = op
    none = none
    nobody = nobody
    Users = {1, 2}
    Speaks <- Tongues
    Languages = {"en", "es", "gl"}
    Fallback = "en"
    Contents <- Uploads
    Operators = {op}
    Workers = {w1, w2}
    Broadcasts = {1}
    MaxAttempts = 2
    MaxTries = 2
    BatchSize = 2
    NoRow = none
    Nobody = nobody
SYMMETRY AnyWorker
INVARIANTS
    ReportsAreTrue
PROPERTIES
    RecipientsAreServed
CHECK_DEADLOCK FALSE
