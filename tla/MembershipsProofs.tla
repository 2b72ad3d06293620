-------------------------- MODULE MembershipsProofs --------------------------
(***************************************************************************)
(* Memberships proved for every family: any number of people, households,  *)
(* groups, sides and overlapping requests; and, on top of it, the confirm  *)
(* pages, with any number of tabs and pages, which change nothing of what  *)
(* Memberships guarantees: a page is what its confirmation does.           *)
(***************************************************************************)
EXTENDS HouseholdPages, TLAPS

(* Which pods a request of each kind is about, and what it may write.       *)
WellFormed(q) ==
    /\ q.op = "leave" => q.todo = {} /\ \E p \in Groups : q.pods = {p}
    /\ q.op \in {"leaving", "creating", "adding"} => q.pods \subseteq Groups
    /\ q.op = "detaching" => q.pods \subseteq Households
    /\ q.op = "removing" => q.pods = Pods
    /\ q.todo \subseteq q.pods
    /\ \A p \in Groups : q.heir[p] # Unchanged => p \in q.pods

Shapes == \A r \in Requests : Busy(r) => WellFormed(req[r])

ShapeInv == TypeOK /\ Shapes

LEMMA NewTypes ==
    ASSUME NEW op \in Ops, NEW m \in Members, NEW pods \in SUBSET Pods
    PROVE  /\ New(op, m, pods) \in Request
           /\ New(op, m, pods).op = op /\ New(op, m, pods).member = m
           /\ New(op, m, pods).pods = pods /\ New(op, m, pods).owner = Nobody
           /\ New(op, m, pods).losing = {} /\ New(op, m, pods).todo = {}
           /\ \A p \in Groups : New(op, m, pods).heir[p] = Unchanged
  BY DEF New, Request, Owners

(* The record a request opens with.                                         *)
LEMMA LeaveTypes ==
    ASSUME TypeOK, NEW m \in Members, NEW p \in Groups
    PROVE  LET q == [New("leave", m, {p}) EXCEPT !.owner = owner[p]] IN
           /\ q \in Request /\ WellFormed(q)
           /\ q.op = "leave" /\ q.member = m /\ q.pods = {p} /\ q.owner = owner[p]
  BY DEF New, Request, Owners, TypeOK, WellFormed, Groups, Ops

LEMMA DetachTypes ==
    ASSUME TypeOK, NEW m \in Members, NEW h \in Households
    PROVE  LET q == [New("detaching", m, {h}) EXCEPT !.losing = SidesLost(m, h)] IN
           /\ q \in Request /\ WellFormed(q)
           /\ q.op = "detaching" /\ q.member = m /\ q.pods = {h}
           /\ q.losing = SidesLost(m, h)
<1>1. h \in Pods /\ SidesLost(m, h) \subseteq Sides
  BY HouseholdAssumption, SidesAssumption DEF SidesLost
<1> QED
  BY <1>1 DEF New, Request, Owners, TypeOK, WellFormed, Groups, Ops

LEMMA RemovalTypes ==
    ASSUME TypeOK, NEW m \in Members
    PROVE  LET q == [New("removing", m, Pods) EXCEPT
                        !.owner = m, !.losing = SidesOn(m),
                        !.todo = {p \in Groups : owner[p] = m}] IN
           /\ q \in Request /\ WellFormed(q)
           /\ q.op = "removing" /\ q.member = m /\ q.pods = Pods /\ q.owner = m
           /\ q.losing = SidesOn(m) /\ q.todo = {p \in Groups : owner[p] = m}
           /\ \A p \in Groups : q.heir[p] = Unchanged
<1>1. SidesOn(m) \subseteq Sides
  BY SidesAssumption DEF SidesOn, SidesVia, PodsOf
<1> QED
  BY <1>1 DEF New, Request, Owners, TypeOK, WellFormed, Groups, Ops

LEMMA ArrivalTypes ==
    ASSUME NEW op \in {"adding", "creating"}, NEW m \in Members, NEW p \in Groups
    PROVE  New(op, m, {p}) \in Request /\ WellFormed(New(op, m, {p}))
  BY NewTypes DEF WellFormed, Groups, Ops

LEMMA RewriteShapes ==
    ASSUME ShapeInv, NEW r \in Requests, NEW q \in Request, WellFormed(q),
           req' = [req EXCEPT ![r] = q], UNCHANGED <<made, in, owner, standing, raced>>
    PROVE  ShapeInv'
<1>1. req \in [Requests -> Request \cup {Nobody}]
  BY DEF ShapeInv, TypeOK
<1>2. TypeOK'
  BY <1>1 DEF ShapeInv, TypeOK
<1>3. ASSUME NEW s \in Requests, Busy(s)' PROVE WellFormed(req[s])'
  <2>1. CASE s = r
    BY <1>1, <2>1 DEF WellFormed
  <2>2. CASE s # r
    BY <1>1, <1>3, <2>2 DEF WellFormed, ShapeInv, Shapes, Busy
  <2> QED
    BY <2>1, <2>2
<1> QED
  BY <1>2, <1>3 DEF ShapeInv, Shapes

LEMMA OpenTypes ==
    ASSUME ShapeInv, NEW r \in Requests, NEW q \in Request, WellFormed(q), Open(r, q)
    PROVE  ShapeInv'
  BY RewriteShapes DEF Open

(* A request that ends leaves the others as they were.                      *)
LEMMA FinishShapes ==
    ASSUME ShapeInv, NEW r \in Requests, Finish(r)
    PROVE  /\ req' \in [Requests -> Request \cup {Nobody}]
           /\ ~Busy(r)'
           /\ \A s \in Requests \ {r} : req'[s] = req[s]
           /\ Shapes'
<1>1. req' = [req EXCEPT ![r] = Nobody] /\ req \in [Requests -> Request \cup {Nobody}]
  BY DEF ShapeInv, TypeOK, Finish
<1>2. \A s \in Requests \ {r} : req'[s] = req[s]
  BY <1>1
<1>3. ~Busy(r)'
  BY <1>1 DEF Busy
<1>4. ASSUME NEW s \in Requests, Busy(s)' PROVE WellFormed(req[s])'
  <2>1. s # r /\ req'[s] = req[s] /\ Busy(s)
    BY <1>2, <1>3, <1>4 DEF Busy
  <2> QED
    BY <2>1 DEF WellFormed, ShapeInv, Shapes
<1> QED
  BY <1>1, <1>2, <1>3, <1>4 DEF Shapes

LEMMA SameShapes ==
    ASSUME ShapeInv, UNCHANGED req
    PROVE  Shapes'
  BY DEF ShapeInv, Shapes, WellFormed, Busy

(* A member who hands a group on hands it to somebody, or to nobody.        *)
LEMMA SuccessionTypes ==
    ASSUME NEW q \in Request, NEW roster \in SUBSET Members
    PROVE  Succession(q, roster) \subseteq Owners \cup {Unchanged}
  BY DEF Succession, Owners, Request

(* What LockForLeave and HandOn write in their own slot.                    *)
LEMMA LockForLeaveWrites ==
    ASSUME ShapeInv, NEW r \in Requests, LockForLeave(r)
    PROVE  /\ Busy(r) /\ req[r] \in Request /\ req[r].op = "leave" /\ WellFormed(req[r])
           /\ \E p \in Groups :
                /\ req[r].pods = {p}
                /\ req' = [req EXCEPT ![r] =
                            [req[r] EXCEPT !.op = "leaving",
                                           !.losing = SidesLost(req[r].member, p),
                                           !.todo = {p}]]
<1>1. Busy(r) /\ req[r] \in Request /\ req[r].op = "leave" /\ WellFormed(req[r])
  BY DEF ShapeInv, Shapes, TypeOK, LockForLeave, At, Busy
<1>2. PICK p \in Groups : req[r].pods = {p}
  BY <1>1 DEF WellFormed
<1>3. req' = [req EXCEPT ![r].op = "leaving",
                         ![r].losing = SidesLost(req[r].member, p),
                         ![r].todo = {p}]
  BY <1>2 DEF LockForLeave
<1>4. req' = [req EXCEPT ![r] = [req[r] EXCEPT !.op = "leaving",
                                   !.losing = SidesLost(req[r].member, p), !.todo = {p}]]
  BY <1>1, <1>3 DEF ShapeInv, TypeOK, Request
<1> QED
  BY <1>1, <1>2, <1>4

LEMMA HandOnWrites ==
    ASSUME ShapeInv, NEW r \in Requests, NEW p \in Groups, HandOn(r, p)
    PROVE  /\ Busy(r) /\ req[r] \in Request /\ WellFormed(req[r]) /\ p \in req[r].todo
           /\ \E heir \in Succession(req[r], RosterOf(p) \ {req[r].member}) :
                /\ heir \in Owners \cup {Unchanged}
                /\ req' = [req EXCEPT ![r] =
                            [req[r] EXCEPT !.todo = req[r].todo \ {p},
                                           !.heir = [req[r].heir EXCEPT ![p] = heir]]]
<1>1. Busy(r) /\ req[r] \in Request /\ WellFormed(req[r]) /\ p \in req[r].todo
  BY DEF ShapeInv, Shapes, TypeOK, HandOn, Busy
<1>2. PICK heir \in Succession(req[r], RosterOf(p) \ {req[r].member}) :
        req' = [req EXCEPT ![r].todo = req[r].todo \ {p}, ![r].heir[p] = heir]
  BY DEF HandOn
<1>3. heir \in Owners \cup {Unchanged}
  BY <1>1, <1>2, SuccessionTypes DEF RosterOf
<1>4. req' = [req EXCEPT ![r] = [req[r] EXCEPT !.todo = req[r].todo \ {p},
                                   !.heir = [req[r].heir EXCEPT ![p] = heir]]]
  BY <1>1, <1>2 DEF Request, ShapeInv, TypeOK
<1> QED
  BY <1>1, <1>2, <1>3, <1>4

-----------------------------------------------------------------------------
LEMMA ShapeStep == ShapeInv /\ [Next]_vars => ShapeInv'
<1> SUFFICES ASSUME ShapeInv, [Next]_vars PROVE ShapeInv'
  OBVIOUS
<1>1. CASE Arriving
  <2>1. ASSUME NEW h \in Households, InviteHousehold(h) PROVE ShapeInv'
    BY <2>1, HouseholdAssumption, SameShapes DEF InviteHousehold, ShapeInv, TypeOK
  <2>2. ASSUME NEW m \in Members, NEW h \in Households, Join(m, h) PROVE ShapeInv'
    BY <2>2, HouseholdAssumption, SameShapes DEF Join, ShapeInv, TypeOK
  <2>3. ASSUME NEW m \in Members, NEW h \in Households, AddToHousehold(m, h)
        PROVE  ShapeInv'
    BY <2>3, HouseholdAssumption, SameShapes DEF AddToHousehold, ShapeInv, TypeOK
  <2>4. ASSUME NEW r \in Requests, NEW m \in Members, NEW p \in Pods, OpenGroup(r, m, p)
        PROVE  ShapeInv'
    BY <2>4, ArrivalTypes, OpenTypes DEF OpenGroup
  <2>5. ASSUME NEW r \in Requests, NEW m \in Members, NEW p \in Pods,
               NEW actor \in Members, OpenAdd(r, actor, p, m)
        PROVE  ShapeInv'
    BY <2>5, ArrivalTypes, OpenTypes DEF OpenAdd
  <2>6. ASSUME NEW r \in Requests, InsertMembership(r) PROVE ShapeInv'
    <3>1. req[r] \in Request
      BY <2>6 DEF InsertMembership, At, Busy, ShapeInv, TypeOK
    <3>2. TypeOK'
      BY <2>6, <3>1, FinishShapes
         DEF InsertMembership, ShapeInv, TypeOK, Request, Overlapping, Owners
    <3> QED
      BY <2>6, <3>2, FinishShapes DEF InsertMembership, ShapeInv
  <2> QED
    BY <1>1, <2>1, <2>2, <2>3, <2>4, <2>5, <2>6 DEF Arriving
<1>2. CASE Departing
  <2>1. ASSUME NEW r \in Requests, NEW m \in Members, NEW p \in Pods, OpenLeave(r, m, p)
        PROVE  ShapeInv'
    BY <2>1, LeaveTypes, OpenTypes DEF OpenLeave, ShapeInv
  <2>2. ASSUME NEW r \in Requests, NEW m \in Members, NEW h \in Pods, LockForDetach(r, m, h)
        PROVE  ShapeInv'
    BY <2>2, DetachTypes, OpenTypes DEF LockForDetach, ShapeInv
  <2>3. ASSUME NEW r \in Requests, NEW m \in Members, LockForRemoval(r, m)
        PROVE  ShapeInv'
    BY <2>3, RemovalTypes, OpenTypes DEF LockForRemoval, ShapeInv
  <2>4. ASSUME NEW r \in Requests, LockForLeave(r) PROVE ShapeInv'
    <3>1. PICK p \in Groups :
            /\ req[r].pods = {p}
            /\ req' = [req EXCEPT ![r] = [req[r] EXCEPT !.op = "leaving",
                          !.losing = SidesLost(req[r].member, p), !.todo = {p}]]
      BY <2>4, LockForLeaveWrites
    <3> DEFINE q == [req[r] EXCEPT !.op = "leaving",
                        !.losing = SidesLost(req[r].member, p), !.todo = {p}]
    <3>2. req[r] \in Request /\ req[r].op = "leave" /\ WellFormed(req[r])
      BY <2>4, LockForLeaveWrites
    <3>3. SidesLost(req[r].member, p) \subseteq Sides
      BY SidesAssumption DEF SidesLost, Groups
    <3>4. q \in Request /\ WellFormed(q)
      BY <3>1, <3>2, <3>3 DEF Request, Ops, WellFormed
    <3> QED
      BY <2>4, <3>1, <3>4, RewriteShapes DEF LockForLeave
  <2>5. ASSUME NEW r \in Requests, NEW p \in Groups, HandOn(r, p) PROVE ShapeInv'
    <3>1. PICK heir \in Owners \cup {Unchanged} :
            req' = [req EXCEPT ![r] = [req[r] EXCEPT !.todo = req[r].todo \ {p},
                                         !.heir = [req[r].heir EXCEPT ![p] = heir]]]
      BY <2>5, HandOnWrites
    <3> DEFINE q == [req[r] EXCEPT !.todo = req[r].todo \ {p},
                                   !.heir = [req[r].heir EXCEPT ![p] = heir]]
    <3>2. req[r] \in Request /\ WellFormed(req[r]) /\ p \in req[r].todo
      BY <2>5, HandOnWrites
    <3>3. q \in Request /\ WellFormed(q)
      BY <3>1, <3>2 DEF Request, WellFormed
    <3> QED
      BY <2>5, <3>1, <3>3, RewriteShapes DEF HandOn
  <2>6. ASSUME NEW r \in Requests, Abandon(r) PROVE ShapeInv'
    BY <2>6, FinishShapes DEF Abandon, ShapeInv, TypeOK
  <2>7. ASSUME NEW r \in Requests, Commit(r) PROVE ShapeInv'
    <3>1. req[r] \in Request
      BY <2>7 DEF Commit, Busy, ShapeInv, TypeOK
    <3>2. TypeOK'
      BY <2>7, <3>1, FinishShapes
         DEF Commit, ShapeInv, TypeOK, Request, Overlapping, Owners
    <3> QED
      BY <2>7, <3>2, FinishShapes DEF Commit, ShapeInv
  <2> QED
    BY <1>2, <2>1, <2>2, <2>3, <2>4, <2>5, <2>6, <2>7 DEF Departing
<1>3. CASE UNCHANGED vars
  BY <1>3, SameShapes DEF vars, ShapeInv, TypeOK
<1> QED
  BY <1>1, <1>2, <1>3 DEF Next

(* Every reachable state is well typed, and every request in flight is      *)
(* about the pods its kind is about.                                        *)
THEOREM ShapeInvariant == Spec => []ShapeInv
<1>1. Init => ShapeInv
  BY DEF Init, ShapeInv, TypeOK, Owners, Shapes, Busy
<1> QED
  BY <1>1, ShapeStep, PTL DEF Spec

(* Memberships keeps its types.                                             *)
THEOREM TypeCorrect == Spec => []TypeOK
<1>1. ShapeInv => TypeOK
  BY DEF ShapeInv
<1> QED
  BY <1>1, ShapeInvariant, PTL

-----------------------------------------------------------------------------
(* Locks.  What the request that holds a member's row relies on until its   *)
(* commit.                                                                  *)

(* Only people who have joined have memberships, or requests about them.    *)
Placed ==
    /\ \A m \in Members, p \in Pods : <<m, p>> \in in => standing[m] # "none"
    /\ \A r \in Requests : Busy(r) => standing[req[r].member] # "none"

OneHolder ==
    \A r, s \in Requests, m \in Members : Holds(r, m) /\ Holds(s, m) => r = s

(* A household the member stays in, and the sides the commit takes.         *)
KeepsHousehold(q) ==
    q.op = "detaching" => \E h \in Households \ q.pods : <<q.member, h>> \in in
Covers(q) ==
    SidesOn(q.member) \ SidesVia(PodsOf(q.member) \ q.pods) \subseteq q.losing

Decided ==
    \A r \in Requests, m \in Members :
        Holds(r, m) => KeepsHousehold(req[r]) /\ Covers(req[r])

LockInv == Placed /\ OneHolder /\ Decided

(* What a request that takes the lock of m has just read of m.              *)
Reads(q, m) ==
    \/ \E p \in Groups : q.op = "leaving" /\ q.pods = {p} /\ q.losing = SidesLost(m, p)
    \/ \E h \in Households :
        /\ q.op = "detaching" /\ q.pods = {h} /\ q.losing = SidesLost(m, h)
        /\ ~IsTheirLastHousehold(m, h)
    \/ q.op = "removing" /\ q.losing = SidesOn(m)

TakesLock(s, m) ==
    /\ Unlocked(m)
    /\ UNCHANGED in
    /\ \A t \in Requests \ {s} : req'[t] = req[t]
    /\ Reads(req'[s], m)

GoesOn(s) ==
    /\ req'[s].op = req[s].op /\ req'[s].member = req[s].member
    /\ req'[s].pods = req[s].pods /\ req'[s].losing = req[s].losing

(* A lock held after a step was held before it, or has just been taken.     *)
LEMMA LockOrigin ==
    ASSUME ShapeInv, Next, NEW s \in Requests, NEW m \in Members, Holds(s, m)'
    PROVE  (Holds(s, m) /\ GoesOn(s)) \/ TakesLock(s, m)
<1>1. req \in [Requests -> Request \cup {Nobody}]
  BY DEF ShapeInv, TypeOK
<1>2. ASSUME req'[s] = req[s] PROVE Holds(s, m) /\ GoesOn(s)
  BY <1>2 DEF Holds, Busy, GoesOn
<1>3. CASE Arriving
  <2>1. ASSUME NEW h \in Households, InviteHousehold(h) PROVE Holds(s, m) /\ GoesOn(s)
    BY <2>1, <1>2 DEF InviteHousehold
  <2>2. ASSUME NEW n \in Members, NEW h \in Households, Join(n, h) \/ AddToHousehold(n, h)
        PROVE  Holds(s, m) /\ GoesOn(s)
    BY <2>2, <1>2 DEF Join, AddToHousehold
  <2>3. ASSUME NEW r \in Requests, NEW n \in Members, NEW p \in Pods,
               NEW op \in {"adding", "creating"}, Open(r, New(op, n, {p}))
        PROVE  Holds(s, m) /\ GoesOn(s)
    <3>1. CASE s = r
      BY <1>1, <2>3, <3>1 DEF Open, Holds, New
    <3>2. CASE s # r
      BY <1>1, <1>2, <2>3, <3>2 DEF Open
    <3> QED
      BY <3>1, <3>2
  <2>4. ASSUME NEW r \in Requests, InsertMembership(r) PROVE Holds(s, m) /\ GoesOn(s)
    BY <1>2, <2>4, FinishShapes DEF InsertMembership, Holds
  <2> QED
    BY <1>3, <2>1, <2>2, <2>3, <2>4 DEF Arriving, OpenGroup, OpenAdd
<1>4. CASE Departing
  <2>1. ASSUME NEW r \in Requests, NEW n \in Members, NEW p \in Pods, OpenLeave(r, n, p)
        PROVE  Holds(s, m) /\ GoesOn(s)
    <3>1. CASE s = r
      BY <1>1, <2>1, <3>1 DEF OpenLeave, Open, Holds, New
    <3>2. CASE s # r
      BY <1>1, <1>2, <2>1, <3>2 DEF OpenLeave, Open
    <3> QED
      BY <3>1, <3>2
  <2>2. ASSUME NEW r \in Requests, NEW n \in Members, NEW h \in Pods, LockForDetach(r, n, h)
        PROVE  (Holds(s, m) /\ GoesOn(s)) \/ TakesLock(s, m)
    <3> DEFINE q == [New("detaching", n, {h}) EXCEPT !.losing = SidesLost(n, h)]
    <3>1. CASE s = r
      <4>1. req'[s] = q /\ \A t \in Requests \ {s} : req'[t] = req[t]
        BY <1>1, <2>2, <3>1 DEF LockForDetach, Open
      <4>2. q.op = "detaching" /\ q.member = n /\ q.pods = {h} /\ q.losing = SidesLost(n, h)
        BY DEF New
      <4>3. n = m
        BY <4>1, <4>2 DEF Holds
      <4> HIDE DEF q
      <4> QED
        BY <2>2, <4>1, <4>2, <4>3 DEF TakesLock, Reads, LockForDetach, Open
    <3>2. CASE s # r
      BY <1>1, <1>2, <2>2, <3>2 DEF LockForDetach, Open
    <3> QED
      BY <3>1, <3>2
  <2>3. ASSUME NEW r \in Requests, NEW n \in Members, LockForRemoval(r, n)
        PROVE  (Holds(s, m) /\ GoesOn(s)) \/ TakesLock(s, m)
    <3> DEFINE q == [New("removing", n, Pods) EXCEPT
                        !.owner = n, !.losing = SidesOn(n),
                        !.todo = {p \in Groups : owner[p] = n}]
    <3>1. CASE s = r
      <4>1. req'[s] = q /\ \A t \in Requests \ {s} : req'[t] = req[t]
        BY <1>1, <2>3, <3>1 DEF LockForRemoval, Open
      <4>2. q.op = "removing" /\ q.member = n /\ q.losing = SidesOn(n)
        BY DEF New
      <4>3. n = m
        BY <4>1, <4>2 DEF Holds
      <4> HIDE DEF q
      <4> QED
        BY <2>3, <4>1, <4>2, <4>3 DEF TakesLock, Reads, LockForRemoval, Open
    <3>2. CASE s # r
      BY <1>1, <1>2, <2>3, <3>2 DEF LockForRemoval, Open
    <3> QED
      BY <3>1, <3>2
  <2>4. ASSUME NEW r \in Requests, LockForLeave(r)
        PROVE  (Holds(s, m) /\ GoesOn(s)) \/ TakesLock(s, m)
    <3>1. PICK p \in Groups :
            /\ req[r].pods = {p}
            /\ req' = [req EXCEPT ![r] = [req[r] EXCEPT !.op = "leaving",
                          !.losing = SidesLost(req[r].member, p), !.todo = {p}]]
      BY <2>4, LockForLeaveWrites
    <3>2. CASE s = r
      <4>1. /\ req'[s].op = "leaving" /\ req'[s].member = req[s].member
            /\ req'[s].pods = {p} /\ req'[s].losing = SidesLost(req[s].member, p)
            /\ \A t \in Requests \ {s} : req'[t] = req[t]
        BY <1>1, <2>4, <3>1, <3>2, LockForLeaveWrites DEF Request
      <4>2. req[s].member = m
        BY <4>1 DEF Holds
      <4> QED
        BY <2>4, <3>2, <4>1, <4>2 DEF TakesLock, Reads, LockForLeave
    <3>3. CASE s # r
      BY <1>1, <1>2, <3>1, <3>3
    <3> QED
      BY <3>2, <3>3
  <2>5. ASSUME NEW r \in Requests, NEW p \in Groups, HandOn(r, p)
        PROVE  Holds(s, m) /\ GoesOn(s)
    <3>1. PICK heir \in Owners \cup {Unchanged} :
            req' = [req EXCEPT ![r] = [req[r] EXCEPT !.todo = req[r].todo \ {p},
                                         !.heir = [req[r].heir EXCEPT ![p] = heir]]]
      BY <2>5, HandOnWrites
    <3>2. CASE s = r
      <4>1. Busy(s) /\ GoesOn(s)
        BY <1>1, <2>5, <3>1, <3>2, HandOnWrites DEF Request, GoesOn
      <4> QED
        BY <4>1 DEF Holds, GoesOn
    <3>3. CASE s # r
      BY <1>1, <1>2, <3>1, <3>3
    <3> QED
      BY <3>2, <3>3
  <2>6. ASSUME NEW r \in Requests, Abandon(r) \/ Commit(r) PROVE Holds(s, m) /\ GoesOn(s)
    BY <1>2, <2>6, FinishShapes DEF Abandon, Commit, Holds
  <2> QED
    BY <1>4, <2>1, <2>2, <2>3, <2>4, <2>5, <2>6 DEF Departing
<1> QED
  BY <1>3, <1>4 DEF Next

(* While a request holds a member's row, nobody else changes what the       *)
(* member is in.                                                            *)
LEMMA HeldStill ==
    ASSUME ShapeInv, LockInv, Next, NEW s \in Requests, NEW m \in Members,
           Holds(s, m), Holds(s, m)'
    PROVE  \A p \in Pods : <<m, p>> \in in' <=> <<m, p>> \in in
<1>1. ~Unlocked(m)
  BY DEF Unlocked
<1>2. standing[m] # "none"
  BY DEF LockInv, Placed, Holds
<1>3. CASE Arriving
  <2>1. ASSUME NEW h \in Households, InviteHousehold(h) PROVE in' = in
    BY <2>1 DEF InviteHousehold
  <2>2. ASSUME NEW n \in Members, NEW h \in Households, Join(n, h) \/ AddToHousehold(n, h)
        PROVE  \A p \in Pods : <<m, p>> \in in' <=> <<m, p>> \in in
    BY <1>1, <1>2, <2>2 DEF Join, AddToHousehold
  <2>3. ASSUME NEW r \in Requests, NEW n \in Members, NEW p \in Pods,
               OpenGroup(r, n, p) \/ \E actor \in Members : OpenAdd(r, actor, p, n)
        PROVE  in' = in
    BY <2>3 DEF OpenGroup, OpenAdd, Open
  <2>4. ASSUME NEW r \in Requests, InsertMembership(r)
        PROVE  \A p \in Pods : <<m, p>> \in in' <=> <<m, p>> \in in
    BY <1>1, <2>4 DEF InsertMembership
  <2> QED
    BY <1>3, <2>1, <2>2, <2>3, <2>4 DEF Arriving
<1>4. CASE Departing
  <2>1. ASSUME NEW r \in Requests, Commit(r)
        PROVE  \A p \in Pods : <<m, p>> \in in' <=> <<m, p>> \in in
    <3>1. r # s
      BY <2>1, FinishShapes DEF Commit, Holds
    <3>2. req[r].member # m
      BY <2>1, <3>1 DEF Commit, LockInv, OneHolder, Holds
    <3> QED
      BY <2>1, <3>2 DEF Commit
  <2>2. ASSUME NEW r \in Requests, LockForLeave(r) \/ Abandon(r) PROVE in' = in
    BY <2>2 DEF LockForLeave, Abandon
  <2>3. ASSUME NEW r \in Requests, NEW p \in Groups, HandOn(r, p) PROVE in' = in
    BY <2>3 DEF HandOn
  <2>4. ASSUME NEW r \in Requests, NEW n \in Members, NEW p \in Pods,
               OpenLeave(r, n, p) \/ LockForDetach(r, n, p) \/ LockForRemoval(r, n)
        PROVE  in' = in
    BY <2>4 DEF OpenLeave, LockForDetach, LockForRemoval, Open
  <2> QED
    BY <1>4, <2>1, <2>2, <2>3, <2>4, HouseholdAssumption DEF Departing
<1> QED
  BY <1>3, <1>4 DEF Next

(* Nobody is forgotten, and whoever is loaded or placed has joined.         *)
LEMMA PlacedStep ==
    ASSUME ShapeInv, Placed, Next
    PROVE  Placed'
<1> USE DEF Placed
<1>1. req \in [Requests -> Request \cup {Nobody}] /\ standing \in [Members -> {"none", "member", "removed"}]
  BY DEF ShapeInv, TypeOK
<1>2. ASSUME UNCHANGED <<in, standing>>, NEW r \in Requests,
             \A s \in Requests \ {r} : req'[s] = req[s],
             Busy(r)' => standing[req'[r].member] # "none"
      PROVE  Placed'
  BY <1>2 DEF Busy
<1>3. CASE Arriving
  <2>1. ASSUME NEW h \in Households, InviteHousehold(h) PROVE Placed'
    BY <2>1 DEF InviteHousehold, Busy
  <2>2. ASSUME NEW m \in Members, NEW h \in Households, Join(m, h) \/ AddToHousehold(m, h)
        PROVE  Placed'
    <3>1. /\ in' = in \cup {<<m, h>>} /\ req' = req
          /\ standing' = [standing EXCEPT ![m] = "member"]
      BY <2>2 DEF Join, AddToHousehold
    <3>2. \A r \in Requests : Busy(r) => req[r].member \in Members
      BY <1>1 DEF Busy, Request
    <3> QED
      BY <1>1, <3>1, <3>2 DEF Busy
  <2>3. ASSUME NEW r \in Requests, NEW m \in Members, NEW p \in Pods,
               NEW op \in {"adding", "creating"}, standing[m] # "none", Open(r, New(op, m, {p}))
        PROVE  Placed'
    BY <1>1, <1>2, <2>3 DEF Open, New
  <2>4. ASSUME NEW r \in Requests, NEW m \in Members, NEW p \in Pods, OpenGroup(r, m, p)
        PROVE  Placed'
    BY <2>3, <2>4 DEF OpenGroup
  <2>5. ASSUME NEW r \in Requests, NEW m \in Members, NEW p \in Pods,
               NEW actor \in Members, OpenAdd(r, actor, p, m)
        PROVE  Placed'
    <3>1. PICK q \in Pods : <<m, q>> \in in
      BY <2>5 DEF OpenAdd, SidesOn, SidesVia, PodsOf
    <3> QED
      BY <2>3, <2>5, <3>1 DEF OpenAdd
  <2>6. ASSUME NEW r \in Requests, InsertMembership(r) PROVE Placed'
    <3>1. Busy(r) /\ standing' = standing /\ in' = in \cup ({req[r].member} \X req[r].pods)
      BY <2>6 DEF InsertMembership, At
    <3> QED
      BY <2>6, <3>1, FinishShapes DEF InsertMembership, Busy
  <2> QED
    BY <1>3, <2>1, <2>2, <2>4, <2>5, <2>6 DEF Arriving
<1>4. CASE Departing
  <2>1. ASSUME NEW r \in Requests, NEW m \in Members, NEW p \in Pods, OpenLeave(r, m, p)
        PROVE  Placed'
    BY <1>1, <1>2, <2>1 DEF OpenLeave, Open, New
  <2>2. ASSUME NEW r \in Requests, NEW m \in Members, NEW p \in Pods, LockForDetach(r, m, p)
        PROVE  Placed'
    BY <1>1, <1>2, <2>2 DEF LockForDetach, Open, New
  <2>3. ASSUME NEW r \in Requests, NEW m \in Members, LockForRemoval(r, m) PROVE Placed'
    BY <1>1, <1>2, <2>3 DEF LockForRemoval, Open, New
  <2>4. ASSUME NEW r \in Requests, LockForLeave(r) PROVE Placed'
    <3>1. PICK p \in Groups :
            req' = [req EXCEPT ![r] = [req[r] EXCEPT !.op = "leaving",
                          !.losing = SidesLost(req[r].member, p), !.todo = {p}]]
      BY <2>4, LockForLeaveWrites
    <3>2. Busy(r) /\ req'[r].member = req[r].member
      BY <1>1, <2>4, <3>1, LockForLeaveWrites DEF Request
    <3> QED
      BY <1>1, <1>2, <2>4, <3>1, <3>2 DEF LockForLeave
  <2>5. ASSUME NEW r \in Requests, NEW p \in Groups, HandOn(r, p) PROVE Placed'
    <3>1. PICK heir \in Owners \cup {Unchanged} :
            req' = [req EXCEPT ![r] = [req[r] EXCEPT !.todo = req[r].todo \ {p},
                                         !.heir = [req[r].heir EXCEPT ![p] = heir]]]
      BY <2>5, HandOnWrites
    <3>2. Busy(r) /\ req'[r].member = req[r].member
      BY <1>1, <2>5, <3>1, HandOnWrites DEF Request
    <3> QED
      BY <1>1, <1>2, <2>5, <3>1, <3>2 DEF HandOn
  <2>6. ASSUME NEW r \in Requests, Abandon(r) PROVE Placed'
    BY <1>2, <2>6, FinishShapes DEF Abandon
  <2>7. ASSUME NEW r \in Requests, Commit(r) PROVE Placed'
    <3>1. /\ in' \subseteq in
          /\ \A m \in Members : standing'[m] = standing[m] \/ standing'[m] = "removed"
      BY <1>1, <2>7 DEF Commit
    <3>2. \A s \in Requests : Busy(s)' => Busy(s) /\ req'[s] = req[s] /\ req[s].member \in Members
      BY <1>1, <2>7, FinishShapes DEF Commit, Busy, Request
    <3> QED
      BY <3>1, <3>2
  <2> QED
    BY <1>4, <2>1, <2>2, <2>3, <2>4, <2>5, <2>6, <2>7 DEF Departing
<1> QED
  BY <1>3, <1>4 DEF Next

LEMMA SideOf ==
    ASSUME NEW pods \in SUBSET Pods, NEW side
    PROVE  side \in SidesVia(pods) <=> \E p \in pods : side \in SidesOf[p]
  BY DEF SidesVia

(* Reading under the lock decides right.                                    *)
LEMMA ReadsDecide ==
    ASSUME NEW q \in Request, NEW m \in Members, q.member = m, Reads(q, m)
    PROVE  KeepsHousehold(q) /\ Covers(q)
<1>1. KeepsHousehold(q)
  BY HouseholdAssumption DEF KeepsHousehold, Reads, IsTheirLastHousehold, PodsOf
<1>2. ASSUME NEW p \in Pods, q.pods = {p}, q.losing = SidesLost(m, p) PROVE Covers(q)
  BY <1>2 DEF Covers, SidesLost, SidesOn, SidesVia
<1>3. ASSUME q.losing = SidesOn(m) PROVE Covers(q)
  BY <1>3 DEF Covers
<1> QED
  BY <1>1, <1>2, <1>3, HouseholdAssumption DEF Reads, Groups

LEMMA LockStep ==
    ASSUME ShapeInv, ShapeInv', LockInv, Next
    PROVE  LockInv'
<1>1. Placed'
  BY PlacedStep DEF LockInv
<1>2. ASSUME NEW r \in Requests, NEW s \in Requests, NEW m \in Members,
             Holds(r, m)', Holds(s, m)', r # s
      PROVE  FALSE
  <2>1. CASE TakesLock(s, m)
    <3>1. req'[r] = req[r]
      BY <1>2, <2>1 DEF TakesLock
    <3>2. Holds(r, m)
      BY <1>2, <3>1 DEF Holds, Busy
    <3> QED
      BY <2>1, <3>2 DEF TakesLock, Unlocked
  <2>2. CASE TakesLock(r, m)
    <3>1. req'[s] = req[s]
      BY <1>2, <2>2 DEF TakesLock
    <3>2. Holds(s, m)
      BY <1>2, <3>1 DEF Holds, Busy
    <3> QED
      BY <2>2, <3>2 DEF TakesLock, Unlocked
  <2>3. CASE Holds(r, m) /\ Holds(s, m)
    BY <1>2, <2>3 DEF LockInv, OneHolder
  <2> QED
    BY <1>2, <2>1, <2>2, <2>3, LockOrigin
<1>3. ASSUME NEW s \in Requests, NEW m \in Members, Holds(s, m)'
      PROVE  (KeepsHousehold(req[s]) /\ Covers(req[s]))'
  <2>1. req'[s] \in Request /\ req'[s].member = m
    BY <1>3 DEF Holds, Busy, ShapeInv, TypeOK
  <2>2. CASE TakesLock(s, m)
    <3>1. in' = in /\ Reads(req'[s], m)
      BY <2>2 DEF TakesLock
    <3>2. KeepsHousehold(req'[s]) /\ Covers(req'[s])
      BY <2>1, <3>1, ReadsDecide
    <3> QED
      BY <3>1, <3>2 DEF KeepsHousehold, Covers, SidesOn, PodsOf
  <2>3. CASE Holds(s, m) /\ GoesOn(s)
    <3>1. \A p \in Pods : <<m, p>> \in in' <=> <<m, p>> \in in
      BY <1>3, <2>3, HeldStill
    <3>2. KeepsHousehold(req[s]) /\ Covers(req[s]) /\ req[s].member = m
      BY <2>3 DEF LockInv, Decided, Holds
    <3>3. PodsOf(m)' = PodsOf(m)
      BY <3>1 DEF PodsOf
    <3>4. Covers(req[s])'
      BY <2>3, <3>2, <3>3 DEF Covers, SidesOn, GoesOn
    <3>5. KeepsHousehold(req[s])'
      BY <2>3, <3>1, <3>2, HouseholdAssumption DEF KeepsHousehold, GoesOn
    <3> QED
      BY <3>4, <3>5
  <2> QED
    BY <1>3, <2>2, <2>3, LockOrigin
<1> QED
  BY <1>1, <1>2, <1>3 DEF LockInv, OneHolder, Decided

(* No member's row has two holders, and what its holder decided on stays    *)
(* true until it commits.                                                   *)
THEOREM LockInvariant == Spec => [](ShapeInv /\ LockInv)
<1>1. Init => LockInv
  BY DEF Init, LockInv, Placed, OneHolder, Decided, Holds, Busy
<1>2. ShapeInv /\ ShapeInv' /\ LockInv /\ [Next]_vars => LockInv'
  <2>1. ASSUME LockInv, UNCHANGED vars PROVE LockInv'
    BY <2>1 DEF vars, LockInv, Placed, OneHolder, Decided, Holds, Busy,
                KeepsHousehold, Covers, SidesOn, PodsOf
  <2> QED
    BY <2>1, LockStep
<1> QED
  BY <1>1, <1>2, ShapeInvariant, PTL DEF Spec

-----------------------------------------------------------------------------
(* Nobody is stranded: a commit of a leave takes groups only, one of a      *)
(* detachment leaves the household that was seen under the lock.            *)
LEMMA HouseholdStep ==
    ASSUME ShapeInv, LockInv, HouseholdKept, Next
    PROVE  HouseholdKept'
<1> SUFFICES ASSUME NEW m \in Members, standing'[m] = "member"
             PROVE  \E h \in Households : <<m, h>> \in in'
  BY HouseholdAssumption DEF HouseholdKept, PodsOf
<1> DEFINE Kept == \E h \in Households : <<m, h>> \in in
<1>1. standing[m] = "member" => Kept
  BY DEF HouseholdKept, PodsOf
<1>2. standing \in [Members -> {"none", "member", "removed"}]
  BY DEF ShapeInv, TypeOK
<1>3. CASE Arriving
  <2>1. ASSUME NEW n \in Members, NEW h \in Households, Join(n, h) \/ AddToHousehold(n, h)
        PROVE  \E k \in Households : <<m, k>> \in in'
    BY <1>1, <1>2, <2>1 DEF Join, AddToHousehold
  <2>2. ASSUME standing' = standing, in \subseteq in'
        PROVE  \E h \in Households : <<m, h>> \in in'
    BY <1>1, <2>2
  <2> QED
    BY <1>3, <2>1, <2>2
       DEF Arriving, InviteHousehold, OpenGroup, OpenAdd, Open, InsertMembership
<1>4. CASE Departing
  <2>1. ASSUME NEW r \in Requests, Commit(r) PROVE \E h \in Households : <<m, h>> \in in'
    <3>1. /\ req[r] \in Request /\ WellFormed(req[r]) /\ Holds(r, req[r].member)
          /\ in' = in \ ({req[r].member} \X req[r].pods)
      BY <2>1 DEF Commit, Busy, ShapeInv, Shapes, TypeOK
    <3>2. CASE req[r].member # m
      BY <1>1, <1>2, <2>1, <3>1, <3>2 DEF Commit
    <3>3. CASE req[r].member = m /\ req[r].op = "leaving"
      BY <1>1, <2>1, <3>1, <3>3 DEF Commit, WellFormed, Groups
    <3>4. CASE req[r].member = m /\ req[r].op = "detaching"
      BY <3>1, <3>4 DEF LockInv, Decided, KeepsHousehold
    <3>5. CASE req[r].member = m /\ req[r].op = "removing"
      BY <1>2, <2>1, <3>5 DEF Commit
    <3> QED
      BY <3>1, <3>2, <3>3, <3>4, <3>5 DEF Holds
  <2>2. ASSUME UNCHANGED <<in, standing>> PROVE \E h \in Households : <<m, h>> \in in'
    BY <1>1, <2>2
  <2> QED
    BY <1>4, <2>1, <2>2 DEF Departing, OpenLeave, LockForDetach, LockForRemoval, Open,
                            HandOn, LockForLeave, Abandon
<1> QED
  BY <1>3, <1>4 DEF Next

(* HouseholdKept: nobody who has not been removed is ever without a         *)
(* household, whatever overlaps.                                            *)
THEOREM NobodyIsStranded == Spec => []HouseholdKept
<1>1. Init => HouseholdKept
  BY DEF Init, HouseholdKept
<1>2. ShapeInv /\ LockInv /\ HouseholdKept /\ [Next]_vars => HouseholdKept'
  <2>1. ASSUME HouseholdKept, UNCHANGED vars PROVE HouseholdKept'
    BY <2>1 DEF vars, HouseholdKept, PodsOf
  <2> QED
    BY <2>1, HouseholdStep
<1> QED
  BY <1>1, <1>2, LockInvariant, PTL DEF Spec

(* EveryLossIsRevoked: only a commit takes a side from anybody, and it      *)
(* takes none but those its own revocation covered.                         *)
THEOREM LossesAreRevoked == Spec => EveryLossIsRevoked
<1> DEFINE Revoked ==
      \A m \in Members : \A side \in SidesOn(m) \ SidesOn(m)' :
        \E r \in Requests :
            Busy(r) /\ ~Busy(r)' /\ req[r].member = m /\ side \in req[r].losing
<1>1. ShapeInv /\ LockInv /\ [Next]_vars => [Revoked]_vars
  <2> SUFFICES ASSUME ShapeInv, LockInv, Next,
                      NEW m \in Members, NEW side \in SidesOn(m) \ SidesOn(m)'
               PROVE  \E r \in Requests :
                        Busy(r) /\ ~Busy(r)' /\ req[r].member = m /\ side \in req[r].losing
    OBVIOUS
  <2>1. ~(in \subseteq in')
    BY DEF SidesOn, SidesVia, PodsOf
  <2>2. PICK r \in Requests : Commit(r)
    <3>1. ~Arriving
      BY <2>1 DEF Arriving, InviteHousehold, Join, AddToHousehold, OpenGroup, OpenAdd,
                  Open, InsertMembership
    <3> QED
      BY <2>1, <3>1 DEF Next, Departing, OpenLeave, LockForDetach, LockForRemoval, Open,
                        HandOn, LockForLeave, Abandon
  <2>3. /\ req[r] \in Request /\ Holds(r, req[r].member) /\ Busy(r) /\ ~Busy(r)'
        /\ in' = in \ ({req[r].member} \X req[r].pods)
    BY <2>2, FinishShapes DEF Commit, Busy, ShapeInv, TypeOK
  <2>4. req[r].member = m
    <3>1. ASSUME req[r].member # m PROVE PodsOf(m)' = PodsOf(m)
      BY <2>3, <3>1 DEF PodsOf
    <3> QED
      BY <3>1 DEF SidesOn
  <2>5. PodsOf(m)' = PodsOf(m) \ req[r].pods
    BY <2>3, <2>4 DEF PodsOf
  <2>6. side \in SidesOn(m) \ SidesVia(PodsOf(m) \ req[r].pods)
    BY <2>5 DEF SidesOn, SidesVia
  <2>7. side \in req[r].losing
    BY <2>3, <2>4, <2>6 DEF LockInv, Decided, Covers
  <2> QED
    BY <2>3, <2>4, <2>7
<1> QED
  BY <1>1, LockInvariant, PTL DEF Spec, EveryLossIsRevoked

-----------------------------------------------------------------------------
(* Succession.  As long as nobody else has changed a group, a request still *)
(* knows its owner and its roster: the heir it names is the right one.      *)

HandedOn(q, p) ==
    p \in q.todo \/ q.heir[p] \in Succession(q, RosterOf(p) \ {q.member})

InStep(q, p) ==
    /\ q.op = "leave" => q.owner = owner[p]
    /\ q.op = "leaving" => q.owner = owner[p] /\ HandedOn(q, p)
    /\ q.op = "removing" =>
        /\ q.owner = q.member
        /\ IF owner[p] = q.member THEN HandedOn(q, p)
           ELSE p \notin q.todo /\ q.heir[p] = Unchanged
    /\ q.op = "adding" => p \in made /\ RosterOf(p) # {}

AllInStep ==
    \A r \in Requests, p \in Groups \ raced :
        Busy(r) /\ p \in req[r].pods => InStep(req[r], p)

SuccessionInv == OrderlySuccession /\ AllInStep

(* A step that leaves group p and its roster alone.                         *)
Still(p) ==
    /\ RosterOf(p)' = RosterOf(p)
    /\ owner'[p] = owner[p]
    /\ p \in made' <=> p \in made
    /\ p \notin raced' => p \notin raced

LEMMA InStepStays ==
    ASSUME AllInStep, NEW s \in Requests, NEW p \in Groups \ raced', Still(p),
           req'[s] = req[s], Busy(s)', p \in req'[s].pods
    PROVE  InStep(req[s], p)'
<1>1. InStep(req[s], p)
  BY DEF AllInStep, Busy, Still
<1> QED
  BY <1>1 DEF InStep, HandedOn, Succession, Still

(* Only an insert and a commit touch groups, and only those of the request. *)
LEMMA OthersStill ==
    ASSUME ShapeInv, Next, NEW p \in Groups,
           \A r \in Requests : InsertMembership(r) \/ Commit(r) => p \notin req[r].pods
    PROVE  Still(p)
<1>0. ASSUME UNCHANGED <<made, in, owner, raced>> PROVE Still(p)
  BY <1>0 DEF Still, RosterOf
<1>1. ASSUME NEW h \in Households, InviteHousehold(h) PROVE Still(p)
  BY <1>1 DEF InviteHousehold, Still, RosterOf, Groups
<1>2. ASSUME NEW m \in Members, NEW h \in Households, Join(m, h) \/ AddToHousehold(m, h)
      PROVE  Still(p)
  BY <1>2 DEF Join, AddToHousehold, Still, RosterOf, Groups
<1>3. ASSUME NEW r \in Requests, InsertMembership(r) PROVE Still(p)
  <2>1. p \notin req[r].pods
    BY <1>3
  <2>2. RosterOf(p)' = RosterOf(p)
    BY <1>3, <2>1 DEF InsertMembership, RosterOf
  <2>3. owner'[p] = owner[p]
    BY <1>3, <2>1 DEF InsertMembership
  <2> QED
    BY <1>3, <2>1, <2>2, <2>3 DEF InsertMembership, Still
<1>4. ASSUME NEW r \in Requests, Commit(r) PROVE Still(p)
  <2>1. p \notin req[r].pods /\ req[r] \in Request /\ WellFormed(req[r])
    BY <1>4 DEF Commit, Busy, ShapeInv, Shapes, TypeOK
  <2>2. RosterOf(p)' = RosterOf(p)
    BY <1>4, <2>1 DEF Commit, RosterOf
  <2>3. owner'[p] = owner[p]
    BY <1>4, <2>1 DEF Commit, WellFormed
  <2> QED
    BY <1>4, <2>1, <2>2, <2>3 DEF Commit, Still
<1>5. CASE Arriving
  BY <1>0, <1>1, <1>2, <1>3, <1>5 DEF Arriving, OpenGroup, OpenAdd, Open
<1>6. CASE Departing
  BY <1>0, <1>4, <1>6 DEF Departing, OpenLeave, LockForDetach, LockForRemoval, Open,
                          HandOn, LockForLeave, Abandon
<1> QED
  BY <1>5, <1>6 DEF Next

(* A new request, or one that has just taken its lock or named an heir.     *)
LEMMA RewrittenInStep ==
    ASSUME ShapeInv, AllInStep, NEW r \in Requests, NEW q \in Request,
           req' = [req EXCEPT ![r] = q], UNCHANGED <<made, in, owner, raced>>,
           \A p \in Groups \ raced : p \in q.pods => InStep(q, p)
    PROVE  AllInStep'
<1>1. req \in [Requests -> Request \cup {Nobody}]
  BY DEF ShapeInv, TypeOK
<1> SUFFICES ASSUME NEW s \in Requests, NEW p \in Groups \ raced', Busy(s)', p \in req'[s].pods
             PROVE  InStep(req[s], p)'
  BY DEF AllInStep
<1>2. CASE s = r
  <2>1. req'[s] = q /\ InStep(q, p)
    BY <1>1, <1>2
  <2> QED
    BY <1>1, <2>1 DEF InStep, HandedOn, Succession, RosterOf
<1>3. CASE s # r
  BY <1>1, <1>3, InStepStays DEF Still, RosterOf
<1> QED
  BY <1>2, <1>3

LEMMA OpenedInStep ==
    ASSUME ShapeInv, AllInStep, NEW r \in Requests, NEW q \in Request, Open(r, q),
           \A p \in Groups \cap q.pods : InStep(q, p)
    PROVE  AllInStep'
  BY RewrittenInStep DEF Open

(* The request that ends takes nobody by surprise: a group another request  *)
(* is about becomes a raced one.                                            *)
LEMMA EndedInStep ==
    ASSUME ShapeInv, AllInStep, Next, NEW r \in Requests, Finish(r),
           \A p \in Groups \cap req[r].pods :
               Still(p) \/ (Busy(r) /\ raced' = raced \cup Overlapping(r)),
           \A p \in Groups \ req[r].pods : Still(p)
    PROVE  AllInStep'
<1> SUFFICES ASSUME NEW s \in Requests, NEW p \in Groups \ raced', Busy(s)', p \in req'[s].pods
             PROVE  InStep(req[s], p)'
  BY DEF AllInStep
<1>1. s # r /\ req'[s] = req[s] /\ Busy(s)
  BY FinishShapes DEF Busy
<1>2. Still(p)
  BY <1>1 DEF Overlapping
<1> QED
  BY <1>1, <1>2, InStepStays

LEMMA InStepStep ==
    ASSUME ShapeInv, AllInStep, Next
    PROVE  AllInStep'
<1>1. ASSUME UNCHANGED req, \A p \in Groups : Still(p) PROVE AllInStep'
  BY <1>1, InStepStays DEF AllInStep
<1>2. ASSUME NEW r \in Requests, InsertMembership(r) \/ Commit(r) PROVE AllInStep'
  <2>1. Finish(r) /\ Busy(r) /\ raced' = raced \cup Overlapping(r)
    BY <1>2 DEF InsertMembership, Commit, At
  <2>2. ASSUME NEW p \in Groups \ req[r].pods PROVE Still(p)
    <3>1. ASSUME NEW s \in Requests, InsertMembership(s) \/ Commit(s) PROVE s = r
      <4>1. Finish(s) /\ Busy(s)
        BY <3>1 DEF InsertMembership, Commit, At
      <4> QED
        BY <2>1, <4>1, FinishShapes DEF Busy
    <3> QED
      BY <2>2, <3>1, OthersStill
  <2> QED
    BY <2>1, <2>2, EndedInStep
<1>3. CASE Arriving
  <2>1. ASSUME NEW h \in Households, InviteHousehold(h) PROVE AllInStep'
    BY <1>1, <2>1 DEF InviteHousehold, Still, RosterOf, Groups
  <2>2. ASSUME NEW m \in Members, NEW h \in Households, Join(m, h) \/ AddToHousehold(m, h)
        PROVE  AllInStep'
    BY <1>1, <2>2 DEF Join, AddToHousehold, Still, RosterOf, Groups
  <2>3. ASSUME NEW r \in Requests, NEW m \in Members, NEW p \in Pods, OpenGroup(r, m, p)
        PROVE  AllInStep'
    <3>1. p \in Groups /\ New("creating", m, {p}) \in Request
          /\ Open(r, New("creating", m, {p}))
      BY <2>3, ArrivalTypes DEF OpenGroup
    <3>2. New("creating", m, {p}).op = "creating"
      BY DEF New
    <3> QED
      BY <3>1, <3>2, OpenedInStep DEF InStep
  <2>4. ASSUME NEW r \in Requests, NEW m \in Members, NEW p \in Pods,
               NEW actor \in Members, OpenAdd(r, actor, p, m)
        PROVE  AllInStep'
    <3>1. p \in Groups /\ New("adding", m, {p}) \in Request
          /\ Open(r, New("adding", m, {p})) /\ p \in made /\ actor \in RosterOf(p)
      BY <2>4, ArrivalTypes DEF OpenAdd, RosterOf
    <3>2. New("adding", m, {p}).op = "adding" /\ New("adding", m, {p}).pods = {p}
      BY DEF New
    <3> QED
      BY <3>1, <3>2, OpenedInStep DEF InStep
  <2>5. ASSUME NEW r \in Requests, InsertMembership(r) PROVE AllInStep'
    BY <1>2, <2>5
  <2> QED
    BY <1>3, <2>1, <2>2, <2>3, <2>4, <2>5 DEF Arriving
<1>4. CASE Departing
  <2>1. ASSUME NEW r \in Requests, NEW m \in Members, NEW p \in Pods, OpenLeave(r, m, p)
        PROVE  AllInStep'
    <3> DEFINE q == [New("leave", m, {p}) EXCEPT !.owner = owner[p]]
    <3>1. /\ q \in Request /\ q.op = "leave" /\ q.pods = {p} /\ q.owner = owner[p]
          /\ Open(r, q)
      BY <2>1, LeaveTypes DEF OpenLeave, ShapeInv
    <3> QED
      BY <3>1, OpenedInStep DEF InStep
  <2>2. ASSUME NEW r \in Requests, NEW m \in Members, NEW h \in Pods, LockForDetach(r, m, h)
        PROVE  AllInStep'
    <3> DEFINE q == [New("detaching", m, {h}) EXCEPT !.losing = SidesLost(m, h)]
    <3>1. q \in Request /\ q.op = "detaching" /\ Open(r, q)
      BY <2>2, DetachTypes DEF LockForDetach, ShapeInv
    <3> QED
      BY <3>1, OpenedInStep DEF InStep
  <2>3. ASSUME NEW r \in Requests, NEW m \in Members, LockForRemoval(r, m) PROVE AllInStep'
    <3> DEFINE q == [New("removing", m, Pods) EXCEPT
                        !.owner = m, !.losing = SidesOn(m),
                        !.todo = {p \in Groups : owner[p] = m}]
    <3>1. /\ q \in Request /\ q.op = "removing" /\ q.member = m /\ q.owner = m
          /\ q.todo = {p \in Groups : owner[p] = m}
          /\ \A p \in Groups : q.heir[p] = Unchanged
          /\ Open(r, q)
      BY <2>3, RemovalTypes DEF LockForRemoval, ShapeInv
    <3>2. \A p \in Groups : InStep(q, p)
      BY <3>1 DEF InStep, HandedOn
    <3> QED
      BY <3>1, <3>2, OpenedInStep
  <2>4. ASSUME NEW r \in Requests, LockForLeave(r) PROVE AllInStep'
    <3>1. PICK p \in Groups :
            /\ req[r].pods = {p}
            /\ req' = [req EXCEPT ![r] = [req[r] EXCEPT !.op = "leaving",
                          !.losing = SidesLost(req[r].member, p), !.todo = {p}]]
      BY <2>4, LockForLeaveWrites
    <3> DEFINE q == [req[r] EXCEPT !.op = "leaving",
                        !.losing = SidesLost(req[r].member, p), !.todo = {p}]
    <3>2. Busy(r) /\ req[r] \in Request /\ req[r].op = "leave"
      BY <2>4, LockForLeaveWrites
    <3>3. SidesLost(req[r].member, p) \subseteq Sides
      BY SidesAssumption DEF SidesLost, Groups
    <3>4. /\ q \in Request /\ q.op = "leaving" /\ q.pods = {p} /\ q.todo = {p}
          /\ q.owner = req[r].owner
      BY <3>1, <3>2, <3>3 DEF Request, Ops
    <3>5. p \notin raced => InStep(q, p)
      BY <3>1, <3>2, <3>4 DEF AllInStep, InStep, HandedOn
    <3>6. UNCHANGED <<made, in, owner, raced>>
      BY <2>4 DEF LockForLeave
    <3>7. req' = [req EXCEPT ![r] = q]
      BY <3>1
    <3> HIDE DEF q
    <3> QED
      BY <3>4, <3>5, <3>6, <3>7, RewrittenInStep
  <2>5. ASSUME NEW r \in Requests, NEW p \in Groups, HandOn(r, p) PROVE AllInStep'
    <3>1. PICK heir \in Succession(req[r], RosterOf(p) \ {req[r].member}) :
            /\ heir \in Owners \cup {Unchanged}
            /\ req' = [req EXCEPT ![r] = [req[r] EXCEPT !.todo = req[r].todo \ {p},
                                         !.heir = [req[r].heir EXCEPT ![p] = heir]]]
      BY <2>5, HandOnWrites
    <3> DEFINE q == [req[r] EXCEPT !.todo = req[r].todo \ {p},
                                   !.heir = [req[r].heir EXCEPT ![p] = heir]]
    <3>2. Busy(r) /\ req[r] \in Request /\ WellFormed(req[r]) /\ p \in req[r].todo
      BY <2>5, HandOnWrites
    <3>3. /\ q \in Request /\ q.op = req[r].op /\ q.pods = req[r].pods
          /\ q.owner = req[r].owner /\ q.member = req[r].member
          /\ q.todo = req[r].todo \ {p} /\ q.heir[p] = heir
          /\ \A g \in Groups \ {p} : q.heir[g] = req[r].heir[g]
      BY <3>1, <3>2 DEF Request
    <3>4. UNCHANGED <<made, in, owner, raced>>
      BY <2>5 DEF HandOn
    <3>5. req' = [req EXCEPT ![r] = q]
      BY <3>1
    <3> HIDE DEF q
    <3>6. \A roster : Succession(q, roster) = Succession(req[r], roster)
      BY <3>3 DEF Succession
    <3>7. ASSUME NEW g \in Groups \ raced, g \in q.pods PROVE InStep(q, g)
      <4>1. InStep(req[r], g)
        BY <3>2, <3>3, <3>7 DEF AllInStep
      <4>2. HandedOn(req[r], g) => HandedOn(q, g)
        BY <3>1, <3>3, <3>6 DEF HandedOn
      <4>3. g \notin req[r].todo => g \notin q.todo /\ q.heir[g] = req[r].heir[g]
        BY <3>2, <3>3
      <4> QED
        BY <3>3, <4>1, <4>2, <4>3 DEF InStep
    <3> QED
      BY <3>3, <3>4, <3>5, <3>7, RewrittenInStep
  <2>6. ASSUME NEW r \in Requests, Abandon(r) PROVE AllInStep'
    BY <2>6, EndedInStep DEF Abandon, Still, RosterOf
  <2>7. ASSUME NEW r \in Requests, Commit(r) PROVE AllInStep'
    BY <1>2, <2>7
  <2> QED
    BY <1>4, <2>1, <2>2, <2>3, <2>4, <2>5, <2>6, <2>7 DEF Departing
<1> QED
  BY <1>3, <1>4 DEF Next

(* A group nobody has raced for passes from owner to heir inside itself.    *)
LEMMA OwnersStep ==
    ASSUME ShapeInv, SuccessionInv, Next
    PROVE  OrderlySuccession'
<1> SUFFICES ASSUME NEW p \in Groups, p \in made', p \notin raced'
             PROVE  OwnedFromInside(p)'
  BY DEF OrderlySuccession
<1>1. CASE Still(p)
  BY <1>1 DEF SuccessionInv, OrderlySuccession, OwnedFromInside, Still
<1>2. ASSUME NEW r \in Requests, InsertMembership(r), p \in req[r].pods
      PROVE  OwnedFromInside(p)'
  <2>1. Busy(r) /\ req[r] \in Request /\ req[r].op \in {"adding", "creating"} /\ p \notin raced
    BY <1>2 DEF InsertMembership, At, Busy, ShapeInv, TypeOK
  <2>2. RosterOf(p)' = RosterOf(p) \cup {req[r].member}
    BY <1>2, <2>1 DEF InsertMembership, RosterOf, Request
  <2>3. CASE req[r].op = "creating"
    BY <1>2, <2>2, <2>3 DEF InsertMembership, OwnedFromInside
  <2>4. CASE req[r].op = "adding"
    <3>1. p \in made /\ RosterOf(p) # {}
      BY <1>2, <2>1, <2>4 DEF SuccessionInv, AllInStep, InStep
    <3>2. owner[p] \in RosterOf(p) /\ owner' = owner
      BY <1>2, <2>1, <2>4, <3>1
         DEF SuccessionInv, OrderlySuccession, OwnedFromInside, InsertMembership
    <3> QED
      BY <2>2, <3>2 DEF OwnedFromInside
  <2> QED
    BY <2>1, <2>3, <2>4
<1>3. ASSUME NEW r \in Requests, Commit(r), p \in req[r].pods
      PROVE  OwnedFromInside(p)'
  <2> DEFINE q == req[r]
             roster == RosterOf(p) \ {q.member}
  <2>1. /\ Busy(r) /\ q \in Request /\ WellFormed(q) /\ q.todo = {} /\ p \notin raced /\ p \in made
        /\ q.op \in {"leaving", "detaching", "removing"}
    BY <1>3 DEF Commit, Busy, ShapeInv, Shapes, TypeOK, Holds
  <2>2. RosterOf(p)' = roster
    BY <1>3, <2>1 DEF Commit, RosterOf, Request
  <2>3. owner'[p] = IF q.heir[p] = Unchanged THEN owner[p] ELSE q.heir[p]
    BY <1>3 DEF Commit
  <2>4. InStep(q, p) /\ OwnedFromInside(p)
    BY <1>3, <2>1 DEF SuccessionInv, AllInStep, OrderlySuccession
  <2>5. Unchanged \notin roster /\ Nobody # Unchanged /\ Nobody \notin roster
    BY NobodyAssumption DEF RosterOf
  <2>6. CASE q.owner = owner[p] /\ q.heir[p] \in Succession(q, roster)
    BY <2>2, <2>3, <2>4, <2>5, <2>6 DEF Succession, OwnedFromInside
  <2>7. CASE q.op = "removing" /\ owner[p] # q.member
    BY <2>2, <2>3, <2>4, <2>7 DEF InStep, OwnedFromInside
  <2>8. q.op # "detaching"
    BY <1>3, <2>1 DEF WellFormed, Groups
  <2> QED
    BY <2>1, <2>4, <2>6, <2>7, <2>8 DEF InStep, HandedOn
<1> QED
  BY <1>1, <1>2, <1>3, OthersStill

(* OrderlySuccession: a group no two requests have changed at once is owned *)
(* by one of its members, and ownerless only while empty.                   *)
THEOREM GroupsPassOnInOrder == Spec => []OrderlySuccession
<1>1. Init => SuccessionInv
  BY DEF Init, SuccessionInv, OrderlySuccession, AllInStep, Busy
<1>2. ShapeInv /\ SuccessionInv /\ [Next]_vars => SuccessionInv'
  <2>1. ASSUME SuccessionInv, UNCHANGED vars PROVE SuccessionInv'
    <3>1. OrderlySuccession'
      BY <2>1 DEF vars, SuccessionInv, OrderlySuccession, OwnedFromInside, RosterOf
    <3>2. AllInStep'
      BY <2>1, InStepStays DEF vars, SuccessionInv, AllInStep, Still, RosterOf
    <3> QED
      BY <3>1, <3>2 DEF SuccessionInv
  <2> QED
    BY <2>1, InStepStep, OwnersStep DEF SuccessionInv
<1>3. SuccessionInv => OrderlySuccession
  BY DEF SuccessionInv
<1> QED
  BY <1>1, <1>2, <1>3, ShapeInvariant, PTL DEF Spec

-----------------------------------------------------------------------------
(* The confirm pages.                                                       *)

(* A page changes somebody's households only by the steps of Memberships.   *)
LEMMA DoesIsAStep == ASSUME NEW p, Does(p) PROVE Next
<1>1. CASE p.act = "add" /\ AddToHousehold(Target, p.pod)
  BY <1>1, TargetAssumption DEF Next, Arriving, AddToHousehold
<1>2. CASE p.act = "create" /\ \E h \in Households \ made :
              SidesOf[h] = p.yards /\ AddToHousehold(Target, h)
  BY <1>2, TargetAssumption DEF Next, Arriving
<1>3. CASE p.act = "remove" /\ \E r \in Requests : LockForDetach(r, Target, p.pod)
  <2>1. PICK r \in Requests : LockForDetach(r, Target, p.pod)
    BY <1>3
  <2>2. p.pod \in Pods
    BY <2>1, HouseholdAssumption DEF LockForDetach
  <2> QED
    BY <2>1, <2>2, TargetAssumption DEF Next, Departing
<1> QED
  BY <1>1, <1>2, <1>3 DEF Does

LEMMA PagesStep == ASSUME [PagesNext]_<<vars, pages>> PROVE [Next]_vars
<1>1. ASSUME NEW t \in Tabs, Visiting(t) PROVE [Next]_vars
  <2>1. CASE \E nonce \in 0 .. Len(page) :
                \/ \E act \in {"add", "remove"}, pod \in Households : Submit(t, act, pod, {}, nonce)
                \/ \E yards \in SUBSET Sides : Submit(t, "create", Nobody, yards, nonce)
    BY <2>1 DEF Submit
  <2>2. CASE CarryOut(t)
    BY <2>2, DoesIsAStep DEF CarryOut
  <2>3. CASE Answer(t) \/ Fail(t)
    BY <2>3 DEF Answer, Fail
  <2> QED
    BY <1>1, <2>1, <2>2, <2>3 DEF Visiting
<1>2. CASE UNCHANGED <<vars, pages>>
  BY <1>2
<1> QED
  BY <1>1, <1>2 DEF PagesNext

(* The pages implement Memberships: whatever holds of its behaviours holds  *)
(* of an admin's confirm pages in front of them (core/household_views.py).  *)
THEOREM PagesImplementMemberships == PagesSpec => Spec
<1>1. PagesInit => Init
  BY DEF PagesInit
<1>2. [PagesNext]_<<vars, pages>> => [Next]_vars
  BY PagesStep
<1> QED
  BY <1>1, <1>2, PTL DEF PagesSpec, Spec

(* Nobody is left without a household by a page either.                     *)
THEOREM PagesStrandNobody == PagesSpec => []HouseholdKept
  BY PagesImplementMemberships, NobodyIsStranded, PTL

(* A side that a confirmed change takes away is revoked with it.            *)
THEOREM PagesRevokeLosses == PagesSpec => EveryLossIsRevoked
  BY PagesImplementMemberships, LossesAreRevoked, PTL

(* Groups that are not raced pass on in order, with the pages as without.   *)
THEOREM PagesPassOnInOrder == PagesSpec => []OrderlySuccession
  BY PagesImplementMemberships, GroupsPassOnInOrder, PTL

-----------------------------------------------------------------------------
(* What is proposed to somebody who is in the given pods.                   *)
ProposalTo(held, act, pod, yards) ==
    [act |-> act, pod |-> pod, yards |-> yards,
     gained |-> CASE act = "add" -> SidesOf[pod] \ SidesVia(held)
                  [] act = "create" -> yards \ SidesVia(held)
                  [] act = "remove" -> {},
     lost |-> IF act = "remove" THEN SidesOf[pod] \ SidesVia(held \ {pod}) ELSE {}]

LEMMA ProposalIsTo ==
    ASSUME NEW act, NEW pod, NEW yards
    PROVE  Proposal(act, pod, yards) = ProposalTo(PodsOf(Target), act, pod, yards)
  BY DEF Proposal, ProposalTo, SidesOn, SidesLost

Sayings ==
    {ProposalTo(held, act, pod, yards) :
        held \in SUBSET Pods, act \in {"add", "create", "remove"},
        pod \in Pods \cup {Nobody}, yards \in SUBSET Sides}

(* A session whose nonce is spent on nothing but the page that carries it.  *)
Bound(s, said) ==
    /\ s.intent \in 0 .. Len(said)
    /\ s.intent # 0 => s.shown = Fingerprint(said[s.intent])

(* What a visit is about to do is what its page said, computed from the     *)
(* pods the person was in when it was checked.                              *)
Agreed(v, said) ==
    /\ v.nonce \in 1 .. Len(said)
    /\ v.keeps = Blank
    /\ v.does = said[v.nonce]
    /\ v.does.act \in {"add", "create", "remove"}
    /\ v.does = ProposalTo(v.saw, v.does.act, v.does.pod, v.does.yards)

Sound(v, said) ==
    /\ v.at \in {"none", "asked", "acting", "acted"}
    /\ v.at \in {"asked", "acted"} => Bound(v.keeps, said)
    /\ v.at = "acting" => Agreed(v, said)

PagesInv ==
    /\ page \in Seq(Sayings)
    /\ visit = [t \in Tabs |-> visit[t]]
    /\ Bound(session, page)
    /\ \A t \in Tabs : Sound(visit[t], page)

LEMMA PagesStart == PagesInit => PagesInv
<1> SUFFICES ASSUME PagesInit PROVE PagesInv
  OBVIOUS
<1>1. page \in Seq(Sayings) /\ Len(page) = 0
  BY DEF PagesInit
<1>2. Bound(session, page)
  BY <1>1 DEF PagesInit, Bound, Blank
<1>3. \A t \in Tabs : Sound(visit[t], page)
  BY DEF PagesInit, Sound, NoVisit
<1> QED
  BY <1>1, <1>2, <1>3 DEF PagesInv, PagesInit

(* A page is added behind those there are.                                  *)
LEMMA PagesStay ==
    ASSUME NEW said \in Seq(Sayings), NEW p \in Sayings
    PROVE  /\ Append(said, p) \in Seq(Sayings)
           /\ \A s : Bound(s, said) => Bound(s, Append(said, p))
           /\ \A v : Sound(v, said) => Sound(v, Append(said, p))
<1> DEFINE more == Append(said, p)
<1>1. more \in Seq(Sayings) /\ Len(said) \in Nat /\ Len(more) = Len(said) + 1
  OBVIOUS
<1>2. \A n \in 1 .. Len(said) : more[n] = said[n]
  OBVIOUS
<1> HIDE DEF more
<1>3. ASSUME NEW s, Bound(s, said) PROVE Bound(s, more)
  BY <1>1, <1>2, <1>3 DEF Bound, Fingerprint
<1>4. ASSUME NEW v, Agreed(v, said) PROVE Agreed(v, more)
  BY <1>1, <1>2, <1>4 DEF Agreed
<1> QED
  BY <1>1, <1>3, <1>4 DEF more, Sound

(* The proposal on a page is one of the sayings.                            *)
LEMMA ProposalIsASaying ==
    ASSUME NEW act \in {"add", "create", "remove"},
           NEW pod \in Pods \cup {Nobody}, NEW yards \in SUBSET Sides
    PROVE  Proposal(act, pod, yards) \in Sayings
<1>1. PodsOf(Target) \in SUBSET Pods
  BY DEF PodsOf
<1> QED
  BY <1>1, ProposalIsTo DEF Sayings

LEMMA SubmitKeeps ==
    ASSUME PagesInv, NEW t \in Tabs,
           NEW act \in {"add", "create", "remove"}, NEW pod \in Pods \cup {Nobody},
           NEW yards \in SUBSET Sides, NEW nonce \in 0 .. Len(page),
           Submit(t, act, pod, yards, nonce)
    PROVE  PagesInv'
<1> DEFINE p == Proposal(act, pod, yards)
<1>1. p \in Sayings /\ Len(page) \in Nat
  BY ProposalIsASaying DEF PagesInv
<1>2. p = ProposalTo(PodsOf(Target), act, pod, yards) /\ p.act = act /\ p.pod = pod /\ p.yards = yards
  BY ProposalIsTo DEF ProposalTo
<1>3. session' = session
  BY DEF Submit
<1>4. CASE /\ Confirms(nonce, p) /\ page' = page
           /\ visit' = [visit EXCEPT ![t] = [at |-> "acting", nonce |-> nonce, does |-> p,
                                             saw |-> PodsOf(Target), keeps |-> Blank]]
  <2>1. p = page[nonce] /\ nonce \in 1 .. Len(page)
    BY <1>1, <1>4 DEF Confirms, PagesInv, Bound, Fingerprint
  <2> HIDE DEF p
  <2>2. Agreed([at |-> "acting", nonce |-> nonce, does |-> p, saw |-> PodsOf(Target), keeps |-> Blank],
               page)
    BY <1>2, <2>1 DEF Agreed
  <2>3. \A u \in Tabs : Sound(visit'[u], page)
    BY <1>4, <2>2 DEF PagesInv, Sound
  <2>4. visit' = [u \in Tabs |-> visit'[u]]
    BY <1>4 DEF PagesInv
  <2> QED
    BY <1>3, <1>4, <2>3, <2>4 DEF PagesInv
<1>5. CASE /\ page' = Append(page, p)
           /\ visit' = [visit EXCEPT ![t] = [at |-> "asked",
                            keeps |-> [shown |-> Fingerprint(p), intent |-> Len(page) + 1]]]
  <2> HIDE DEF p
  <2>1. /\ page' \in Seq(Sayings) /\ Bound(session', page')
        /\ \A u \in Tabs : Sound(visit[u], page')
    BY <1>1, <1>3, <1>5, PagesStay DEF PagesInv
  <2>2. Len(page') = Len(page) + 1 /\ page'[Len(page) + 1] = p
    BY <1>1, <1>5 DEF PagesInv
  <2>3. Sound([at |-> "asked", keeps |-> [shown |-> Fingerprint(p), intent |-> Len(page) + 1]], page')
    BY <1>1, <2>2 DEF Sound, Bound
  <2>4. \A u \in Tabs : Sound(visit'[u], page')
    BY <1>5, <2>1, <2>3 DEF PagesInv
  <2>5. visit' = [u \in Tabs |-> visit'[u]]
    BY <1>5 DEF PagesInv
  <2> QED
    BY <2>1, <2>4, <2>5 DEF PagesInv
<1> QED
  BY <1>4, <1>5 DEF Submit

(* The tab that moves on keeps the page, the session, or takes it over.     *)
LEMMA VisitKeeps ==
    ASSUME PagesInv, NEW t \in Tabs, CarryOut(t) \/ Answer(t) \/ Fail(t)
    PROVE  PagesInv'
<1>1. page' = page
  BY DEF CarryOut, Answer, Fail
<1>2. visit' = [u \in Tabs |-> visit'[u]]
  BY DEF CarryOut, Answer, Fail, PagesInv
<1>3. Sound(NoVisit, page)
  BY DEF Sound, NoVisit
<1>4. CASE CarryOut(t)
  <2>1. visit[t].keeps = Blank /\ Len(page) \in Nat
    BY <1>4 DEF CarryOut, PagesInv, Sound, Agreed
  <2>2. Sound([at |-> "acted", keeps |-> visit[t].keeps], page)
    BY <2>1 DEF Sound, Bound, Blank
  <2>3. \A u \in Tabs : visit'[u] = visit[u] \/ visit'[u] = [at |-> "acted", keeps |-> visit[t].keeps]
    BY <1>4 DEF CarryOut, PagesInv
  <2> QED
    BY <1>1, <1>2, <1>4, <2>2, <2>3 DEF PagesInv, CarryOut
<1>5. CASE Answer(t) \/ Fail(t)
  <2>1. Bound(session', page)
    BY <1>5 DEF Answer, Fail, PagesInv, Sound
  <2>2. \A u \in Tabs : visit'[u] = visit[u] \/ visit'[u] = NoVisit
    BY <1>5 DEF Answer, Fail, PagesInv
  <2> QED
    BY <1>1, <1>2, <1>3, <2>1, <2>2 DEF PagesInv
<1> QED
  BY <1>4, <1>5

LEMMA PagesKeep == PagesInv /\ [PagesNext]_<<vars, pages>> => PagesInv'
<1> SUFFICES ASSUME PagesInv, [PagesNext]_<<vars, pages>> PROVE PagesInv'
  OBVIOUS
<1>1. ASSUME UNCHANGED pages PROVE PagesInv'
  BY <1>1 DEF PagesInv, pages
<1>2. ASSUME NEW t \in Tabs, Visiting(t) PROVE PagesInv'
  <2>1. ASSUME NEW nonce \in 0 .. Len(page), NEW act \in {"add", "remove"}, NEW pod \in Households,
               Submit(t, act, pod, {}, nonce)
        PROVE  PagesInv'
    <3>1. pod \in Pods \cup {Nobody}
      BY HouseholdAssumption
    <3> QED
      BY <2>1, <3>1, SubmitKeeps
  <2>2. ASSUME NEW nonce \in 0 .. Len(page), NEW yards \in SUBSET Sides,
               Submit(t, "create", Nobody, yards, nonce)
        PROVE  PagesInv'
    BY <2>2, SubmitKeeps
  <2> QED
    BY <1>2, <2>1, <2>2, VisitKeeps DEF Visiting
<1> QED
  BY <1>1, <1>2 DEF PagesNext

(* What a visit does, done to somebody in the pods it saw, gives and takes  *)
(* the sides its page named.                                                *)
LEMMA DoneAsSaid ==
    ASSUME PagesInv, NEW t \in Tabs, CarryOut(t), visit[t].saw = PodsOf(Target)
    PROVE  ~ Unsaid(t)
<1> DEFINE does == visit[t].does
           held == PodsOf(Target)
<1>1. page[visit[t].nonce] = does /\ does.act \in {"add", "create", "remove"}
  BY DEF CarryOut, PagesInv, Sound, Agreed
<1>2. does = ProposalTo(held, does.act, does.pod, does.yards)
  BY DEF CarryOut, PagesInv, Sound, Agreed
<1>3. CASE UNCHANGED vars
  BY <1>3 DEF Unsaid, vars, SidesOn, SidesVia, PodsOf, Busy
<1>4. CASE does.act = "add" /\ AddToHousehold(Target, does.pod)
  <2>1. SidesOn(Target)' \subseteq SidesOn(Target) \cup SidesOf[does.pod]
    BY <1>4 DEF AddToHousehold, SidesOn, SidesVia, PodsOf
  <2>2. does.gained = SidesOf[does.pod] \ SidesOn(Target)
    BY <1>2, <1>4 DEF ProposalTo, SidesOn
  <2>3. UNCHANGED req
    BY <1>4 DEF AddToHousehold
  <2> QED
    BY <1>1, <2>1, <2>2, <2>3 DEF Unsaid, Busy
<1>5. CASE does.act = "create" /\ \E h \in Households \ made :
              SidesOf[h] = does.yards /\ AddToHousehold(Target, h)
  <2>1. PICK h \in Households \ made : SidesOf[h] = does.yards /\ AddToHousehold(Target, h)
    BY <1>5
  <2>2. SidesOn(Target)' \subseteq SidesOn(Target) \cup does.yards
    BY <2>1 DEF AddToHousehold, SidesOn, SidesVia, PodsOf
  <2>3. does.gained = does.yards \ SidesOn(Target)
    BY <1>2, <1>5 DEF ProposalTo, SidesOn
  <2>4. UNCHANGED req
    BY <2>1 DEF AddToHousehold
  <2> QED
    BY <1>1, <2>2, <2>3, <2>4 DEF Unsaid, Busy
<1>6. CASE does.act = "remove" /\ \E r \in Requests : LockForDetach(r, Target, does.pod)
  <2>1. PICK r \in Requests : LockForDetach(r, Target, does.pod)
    BY <1>6
  <2>2. UNCHANGED in
    BY <2>1 DEF LockForDetach, Open
  <2>3. does.lost = SidesLost(Target, does.pod)
    BY <1>2, <1>6 DEF ProposalTo, SidesLost
  <2>4. \A q \in Requests : ~Busy(q) /\ Busy(q)' => req'[q].losing = SidesLost(Target, does.pod)
    BY <2>1 DEF LockForDetach, Open, New, Busy
  <2> QED
    BY <1>1, <2>2, <2>3, <2>4 DEF Unsaid, SidesOn, SidesVia, PodsOf
<1> QED
  BY <1>3, <1>4, <1>5, <1>6 DEF CarryOut, Does

(* A confirmed change hands out and takes away no side that its page did    *)
(* not name, whatever happened between the two submits                      *)
(* (household_views._fingerprint).                                          *)
THEOREM ConfirmedAsSaid == PagesSpec => NothingUnsaid
<1>1. PagesInit => PagesInv
  BY PagesStart
<1>2. PagesInv /\ [PagesNext]_<<vars, pages>> => PagesInv'
  BY PagesKeep
<1>3. PagesInv /\ [PagesNext]_<<vars, pages>> =>
        [\A t \in Tabs :
            visit[t].at = "acting" /\ visit'[t].at = "acted" /\ visit[t].saw = PodsOf(Target)
                => ~ Unsaid(t)]_<<vars, pages>>
  <2> SUFFICES ASSUME PagesInv, PagesNext, NEW t \in Tabs,
                      visit[t].at = "acting", visit'[t].at = "acted", visit[t].saw = PodsOf(Target)
               PROVE  ~ Unsaid(t)
    OBVIOUS
  <2>1. PICK u \in Tabs : Visiting(u)
    BY DEF PagesNext, pages
  <2>2. u = t
    BY <2>1 DEF Visiting, Submit, CarryOut, Answer, Fail, PagesInv
  <2>3. CarryOut(t)
    BY <2>1, <2>2 DEF Visiting, Submit, Answer, Fail, PagesInv, NoVisit
  <2> QED
    BY <2>3, DoneAsSaid
<1> QED
  BY <1>1, <1>2, <1>3, PTL DEF PagesSpec, NothingUnsaid
=============================================================================
