SPECIFICATION SupportersFairSpec
CONSTANTS
    a = a
    pa = pa
    c1 = c1
    w1 = w1
    job = job
    nosub = nosub
    nolink = nolink
    nobody = nobody
    Users = {a}
    Patrons = {pa}
    Codes = {c1}
    Workers = {w1}
    Amounts = {3}
    PatronMin = 2
    OrganizerMin = 3
    GrantLevels = {2}
    GroupAdmins = {}
    Budgets <- MCBudgets
    MaxTries = 2
    NoSub = nosub
    NoLink = nolink
    Nobody = nobody
    Job = job
INVARIANTS
    LevelsAreBacked
PROPERTIES
    PatronsGetTheirTier
CHECK_DEADLOCK FALSE
