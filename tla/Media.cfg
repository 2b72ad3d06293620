SPECIFICATION Spec
CONSTANTS
    p1 = p1
    c1 = c1
    Posts = {p1}
    Replies = {c1}
    Members = {m1}
    ReplyTo <- MCReplyTo
    Assets = {a1, a2}
    Requests = {r1, r2}
    Clips = {a2}
    MaxCrashes = 1
    Nothing = Nothing
INVARIANTS FilesAndRows DeletedIsPurged
PROPERTIES ClipsResolve
CHECK_DEADLOCK FALSE
