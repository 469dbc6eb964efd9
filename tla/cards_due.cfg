SPECIFICATION FairSpec
CONSTANTS
    mine = mine
    near = near
    far = far
    none = none
    h1 = h1
    h2 = h2
    Cards = {mine, near}
    Tapped = {mine}
    Siblings <- Together
    Handlers = {h1, h2}
    Contents = {0, 1}
    Answers = {"ok", "refused", "unanswered", "gone"}
    NoCard = none
    MaxChanges = 3
INVARIANTS
    NoCardForgotten
    DigestsAreTruthful
PROPERTIES
    CardsCatchUp
CHECK_DEADLOCK FALSE
