------------------------------ MODULE MCInvites ------------------------------
(* The founder on one side, and a household still to be made on the other.  *)
EXTENDS Invites, TLC

CONSTANTS home, new, s1, s2

MCPods == {home, new}
MCSides == {s1, s2}
MCSidesOf == [p \in MCPods |-> IF p = home THEN {s1} ELSE {s2}]

Interchangeable == Permutations(Links) \cup Permutations(Members \ {Founder})
=============================================================================
