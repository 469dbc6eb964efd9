CONSTANTS
    ann = ann
    bob = bob
    r1 = r1
    r2 = r2
    m1 = m1
    m2 = m2
    none = none
    host = host
    People = {ann}
    Rows = {r1, r2}
    Meetings = {m1, m2}
    Hosted = {m1}
    Grace = 0
    AnswerWindow = 0
    LastDay = 2
    LastTap = 1
    MaxTaps = 2
    MaxCrashes = 1
    NoRow = none
    Stranger = host
SPECIFICATION FairSpec
PROPERTIES
    
    GraceRunsFromTheFirst
    AccountsSettle
CHECK_DEADLOCK FALSE
