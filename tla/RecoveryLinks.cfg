SPECIFICATION Spec
CONSTANTS
    Members = {m1}
    WithLogin = {m1}
    Caps = {c1, c2}
    Requests = {r1, r2}
    Nothing = Nothing
    FirstPassword = FirstPassword
    MaxRevocations = 1
SYMMETRY Interchangeable
INVARIANT OneLiveRecoveryLink
