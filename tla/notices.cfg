SPECIFICATION FairSpec
CONSTANTS
    ann = ann
    bob = bob
    People = {ann, bob}
    Lead <- MCLead
    LastNow = 2
    MaxStops = 1
    MaxFaults = 1
    Edits = 2
    NoDate = NoDate
INVARIANTS
    NoNoticeTwice
PROPERTIES
    NoticesReachTheDue
    
