SPECIFICATION Spec
CONSTANTS
    hike = hike
    dinner = dinner
    free = free
    patron = patron
    Meetings = {hike}
    Tiers = {free}
    Retention <- Kept
    Dateless <- Undated
    Cap <- Allowed
    LeftLife = 0
    Lead = 1
    Dates = {}
    Answers = {"delivered"}
    Horizon = 4
    Never = Never
PROPERTIES
    ActiveMeetingsAreSpared
