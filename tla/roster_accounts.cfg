SPECIFICATION FairSpec
CONSTANTS
    owner = owner
    ann = ann
    bob = bob
    guest = guest
    none = none
    nobody = nobody
    free = free
    s1 = s1
    s2 = s2
    Users = {owner, ann}
    Owner = owner
    Guests = {guest}
    Newcomers = {ann}
    Erasers = {ann}
    Slots = {s1, s2}
    Flags = {"allow_invitation"}
    Limits = {}
    Tiers = {1, none}
    NoLimit = none
    NoUser = nobody
    NoSlot = free
    MaxRequests = 3

    
PROPERTIES
    RequestsEnd
CHECK_DEADLOCK FALSE
