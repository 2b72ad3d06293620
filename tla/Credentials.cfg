SPECIFICATION Spec
CONSTANTS
    Members = {m1}
    WithLogin = {m1}
    Caps = {c1, c2, c3}
    Requests = {r1}
    Nothing = Nothing
    FirstPassword = FirstPassword
    MaxRevocations = 2
SYMMETRY Interchangeable
INVARIANTS
    LiveIsFresh
PROPERTY
    DeadStaysDead
