SPECIFICATION AccessFairSpec
CONSTANTS
    w1 = w1
    w2 = w2
    bob = bob
    Webs = {w1, w2}
    Job = job
    Patrons = {bob}
    PageOf <- MCPageOf
    Shapes = {"old", "new"}
    FirstShape = "old"
    MaxSeeds = 2
    MaxReleases = 1
    MaxBoots = 2
    MaxFaults = 1
    MaxChanges = 1
INVARIANTS
    CredentialIsNotLost
    WebhookWorks
PROPERTIES
    LapsesAreReal
    PledgesAreLearnt
CHECK_DEADLOCK FALSE
