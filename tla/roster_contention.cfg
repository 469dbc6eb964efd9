SPECIFICATION Spec
CONSTANTS
    owner = owner
    ann = ann
    bob = bob
    guest = guest
    none = none
    nobody = nobody
    free = free
    s1 = s1
    s2 = s2
    Users = {owner, ann, bob}
    Owner = owner
    Guests = {}
    Newcomers = {}
    Erasers = {}
    Slots = {s1, s2}
    Flags = {"waiting_list", "lock_on_start"}
    Limits = {1, 2}
    Tiers = {none}
    NoLimit = none
    NoUser = nobody
    NoSlot = free
    MaxRequests = 5
SYMMETRY Interchangeable
PROPERTIES
    NobodyIsWronged
    LongestWaitingFirst
    AdmissionWithinCapacity
    BehavesAtomically
CHECK_DEADLOCK FALSE
