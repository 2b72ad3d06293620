SPECIFICATION Spec
CONSTANTS
    Yards = {y1, y2}
    Posts = {p1, p2}
    Addresses = {mine, other}
    Own = mine
    Runs = {r1, r2}
    Period = 1
    Nothing = Nothing
    MaxLinks = 4
    MaxNow = 2
    MaxActs = 2
CONSTRAINT MailboxesOrPosts
SYMMETRY Interchangeable
INVARIANTS
    ConfirmedIsProven
    RepliesFollowMail
    EachPostOnce
    NoPostPassedOver
PROPERTIES
    CancelledSendsStay
    RunKeepsWayOut
CHECK_DEADLOCK FALSE
