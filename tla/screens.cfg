SPECIFICATION MCSpec
CONSTANTS
    p1 = p1
    p2 = p2
    p3 = p3
    pa = pa
    x1 = x1
    x2 = x2
    c1 = c1
    c2 = c2
    w1 = w1
    w2 = w2
    h1 = h1
    h2 = h2
    Zones <- MCZones
    Day = 4
    MaxDuration = 5
    HorizonDays = 2
    Unlimited = Unlimited
    LastNow = 10
    LastDate = 19
    NoDate = NoDate
    Meetings = {x1, x2}
    Photos = {p1, p2, p3}
    MaxPhotos = 2
    InitialPhotos <- MCPhotos
    FlowsInPlay = {"timezone", "timeout", "reminder", "description", "photos", "place", "pin", "limit", "title", "start", "end", "create", "invite"}
    MaxTaps = 3
    NoMeeting = NoMeeting
    NoFlow = NoFlow
    NoSlot = NoSlot
    Own = {1, 2, 3}
    Others = {4}
    Prompts = {x1, x2}
    PageSize = 2
    MaxListChanges = 2
    Announced = {pa}
    Rooms = {x1, x2}
    Postings = {1, 2}
    MaxRedeliveries = 1
    Requests = {x1, x2}
    Ttl = 1
    Tolerance = 1
    Ahead = 1
    MaxNow = 4
    MaxConsents = 1
    MaxFaults = 2
    Handlers = {h1, h2}
    Surfaces = {"text", "query"}
    Plans <- MCPlans
    Attempts = 1
    NetworkLimit = 1
    InlineLimit = 1
    Retries = 0
    MaxUpdates = 4
    Losable = {}
    NoLock = NoLock
    Users = {x1, x2}
    Patrons = {pa}
    Codes = {c1, c2}
    Workers = {w1, w2}
    Amounts = {3}
    PatronMin = 2
    OrganizerMin = 3
    GrantLevels = {2}
    GroupAdmins = {}
    Budgets <- MCBudgets
    MaxTries = 1
    NoSub = NoSub
    NoLink = NoLink
    Nobody = Nobody
    Job = Job
SYMMETRY Alike
INVARIANTS
    DatesAreRight
    CardReadsAsTyped
    ConversationsStayApart
    SearchIsExact
    LinksAreProven
    LinksAreExclusive
    OneUpdatePerKey
PROPERTIES
    AnswersLandWhereAsked
    ListsAreReliable
    CardsAreHonoured
CHECK_DEADLOCK FALSE
