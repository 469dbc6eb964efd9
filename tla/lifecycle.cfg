SPECIFICATION FairSpec
CONSTANTS
    hike = hike
    dinner = dinner
    free = free
    patron = patron
    Meetings = {hike}
    Tiers = {free, patron}
    Retention <- Kept
    Dateless <- Undated
    Cap <- Allowed
    LeftLife = 0
    Lead = 1
    Dates = {1}
    Answers = {"delivered", "unreachable", "opted_out", "failed"}
    Horizon = 4
    Never = Never
INVARIANTS
    RowCoherent
PROPERTIES
    DeletionIsDue
    MeetingsComeToAnEnd
