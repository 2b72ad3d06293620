---------------------------- MODULE MCMemberships ----------------------------
(* A household on each side and one group on the first side: the smallest   *)
(* family where a group keeps a member on a side, where a second household  *)
(* can be taken away, and where two members can leave one group together.   *)
(* The pages are about one of the members.                                  *)
EXTENDS HouseholdPages, FiniteSets, TLC

CONSTANTS m1, h1, h2, g, s1, s2

MCPods == {h1, h2, g}
MCHouseholds == {h1, h2}
MCSides == {s1, s2}
MCSidesOf == [p \in MCPods |-> IF p = h2 THEN {s2} ELSE {s1}]

\* Once a group has been raced, one request at a time; once there is a confirm page, one
\* member beside its subject.
OneMore ==
    /\ raced # {} => Cardinality({r \in Requests : Busy(r)}) <= 1
    /\ page # <<>> => Cardinality({m \in Members : standing[m] # "none"}) <= 2

Interchangeable == Permutations(Members \ {Target}) \cup Permutations(Requests)
=============================================================================
