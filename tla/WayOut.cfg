SPECIFICATION Spec
CONSTANTS
    Yards = {y1}
    Posts = {p1}
    Addresses = {mine, other}
    Own = mine
    Runs = {r1}
    Period = 1
    Nothing = Nothing
    MaxLinks = 4
    MaxNow = 2
    MaxActs = 3
INVARIANTS
    WayOutSurvives
CHECK_DEADLOCK FALSE
