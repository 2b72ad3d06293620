---------------------------- MODULE Memberships ----------------------------
(***************************************************************************)
(* Households, ad-hoc groups and who owns them: core/pods.py,              *)
(* core/households.py and the teardown half of core/removal.py, run by     *)
(* concurrent requests under READ COMMITTED.                               *)
(*                                                                         *)
(* A request that changes somebody's memberships locks that person's       *)
(* Member row, reads, decides, and publishes everything at its commit.     *)
(* The pod row is never locked, and a pod object read before the lock is   *)
(* used after it.  An insert takes no lock, but its foreign keys are       *)
(* checked at its commit, which waits for whoever holds the member row.    *)
(*                                                                         *)
(* Not here: the credentials and invitations a shrink voids (Credentials,  *)
(* Invites), who may administer whom, mutes and house rules.  Which        *)
(* member has been in a group longest is any of them.                      *)
(***************************************************************************)
CONSTANTS
    Members,
    Pods,           \* every pod that may ever be made
    Households,     \* those of kind HOUSEHOLD; the others are ad hoc
    Sides,          \* the yards
    SidesOf,        \* the yards of a pod, fixed when it is made
    Requests,       \* slots for handlers in flight
    Nobody,         \* no owner, an idle slot
    Unchanged       \* an owner column the request does not write

ASSUME HouseholdAssumption == Households \subseteq Pods
ASSUME SidesAssumption == SidesOf \in [Pods -> SUBSET Sides]
ASSUME NobodyAssumption == Nobody \notin Members /\ Unchanged \notin Members
                           /\ Nobody # Unchanged

VARIABLES
    made,       \* the pods that exist
    in,         \* PodMembership: pairs <<member, pod>>
    owner,      \* Pod.owner
    req,        \* what the handler in each slot has read and decided
    standing,   \* history: never joined, a member, or removed
    raced       \* history: the pods two overlapping requests have changed

vars == <<made, in, owner, req, standing, raced>>

Groups == Pods \ Households
Owners == Members \cup {Nobody}

(* The member whose row it locks or inserts, the pods it touches, the       *)
(* owner on the pod object it holds, the sides its revocation covered, the  *)
(* groups still to hand on, and the owners it will write.                   *)
Ops == {"leave", "leaving", "detaching", "removing", "adding", "creating"}
Request == [op : Ops, member : Members, pods : SUBSET Pods, owner : Owners,
            losing : SUBSET Sides, todo : SUBSET Groups,
            heir : [Groups -> Owners \cup {Unchanged}]]

ASSUME IdleAssumption == Nobody \notin Request

TypeOK ==
    /\ made \subseteq Pods
    /\ in \subseteq Members \X Pods
    /\ owner \in [Groups -> Owners]
    /\ req \in [Requests -> Request \cup {Nobody}]
    /\ standing \in [Members -> {"none", "member", "removed"}]
    /\ raced \subseteq Groups

Init ==
    /\ made = {}
    /\ in = {}
    /\ owner = [p \in Groups |-> Nobody]
    /\ req = [r \in Requests |-> Nobody]
    /\ standing = [m \in Members |-> "none"]
    /\ raced = {}

-----------------------------------------------------------------------------
PodsOf(m) == {p \in Pods : <<m, p>> \in in}
RosterOf(p) == {m \in Members : <<m, p>> \in in}
SidesVia(pods) == UNION {SidesOf[p] : p \in pods}
SidesOn(m) == SidesVia(PodsOf(m))

(* households.sides_lost and is_their_last_household, from live rows.       *)
SidesLost_OfPods(m, p) == {p} \ (PodsOf(m) \ {p})     \* mutation: pod ids kept
IsTheirLastHousehold_AnyPod(m, p) ==                 \* mutation: a group counts
    PodsOf(m) \subseteq {p}
SidesLost(m, p) == SidesOf[p] \ SidesVia(PodsOf(m) \ {p})
IsTheirLastHousehold(m, p) == PodsOf(m) \cap Households \subseteq {p}

Busy(r) == req[r] # Nobody
At(r, op) == Busy(r) /\ req[r].op = op

(* Member.objects.select_for_update() is held from these steps to the end.  *)
Holds(r, m) ==
    /\ Busy(r)
    /\ req[r].op \in {"leaving", "detaching", "removing"}
    /\ req[r].member = m
Unlocked_Always(m) == m \in Members     \* mutation: select_for_update forgotten
Unlocked(m) == \A r \in Requests : ~Holds(r, m)

New(op, m, pods) ==
    [op |-> op, member |-> m, pods |-> pods, owner |-> Nobody, losing |-> {},
     todo |-> {}, heir |-> [p \in Groups |-> Unchanged]]

Open(r, request) ==
    /\ ~Busy(r)
    /\ req' = [req EXCEPT ![r] = request]
    /\ UNCHANGED <<made, in, owner, standing, raced>>

Finish(r) == req' = [req EXCEPT ![r] = Nobody]

(* The groups that another request in flight is also changing.              *)
Overlapping(r) ==
    {p \in Groups \cap req[r].pods :
        \E s \in Requests \ {r} : Busy(s) /\ p \in req[s].pods}

(* Refused ("their last household"), killed, or chosen as the victim of a   *)
(* deadlock: the transaction rolls back.                                    *)
Abandon(r) ==
    /\ Busy(r)
    /\ Finish(r)
    /\ UNCHANGED <<made, in, owner, standing, raced>>

-----------------------------------------------------------------------------
(* Arriving.                                                                *)

(* admin_views.invite_household makes the pod its invitation leads into.    *)
InviteHousehold(h) ==
    /\ h \in Households \ made
    /\ made' = made \cup {h}
    /\ UNCHANGED <<in, owner, req, standing, raced>>

(* invites.redeem_invite, as setup, new_elder and supervised.create: a new  *)
(* Member row and its first membership commit together.                     *)
Join(m, h) ==
    /\ standing[m] = "none" /\ h \in Households \cap made
    /\ in' = in \cup {<<m, h>>}
    /\ standing' = [standing EXCEPT ![m] = "member"]
    /\ UNCHANGED <<made, owner, req, raced>>

(* households.add_to_household and create_household_and_add: everything     *)
(* they read, they read under the lock.  A removed member may come back.    *)
AddToHousehold(m, h) ==
    /\ standing[m] # "none" /\ h \in Households
    /\ Unlocked(m)
    /\ <<m, h>> \notin in
    /\ made' = made \cup {h}
    /\ in' = in \cup {<<m, h>>}
    /\ standing' = [standing EXCEPT ![m] = "member"]
    /\ UNCHANGED <<owner, req, raced>>

(* pod_views.pod_create, then pods.create_adhoc_pod.                        *)
OpenGroup(r, m, p) ==
    /\ p \in Groups \ made
    /\ standing[m] = "member"
    /\ SidesOf[p] \subseteq SidesOn(m)
    /\ Open(r, New("creating", m, {p}))

(* pod_views.pod_add_member, then pods.add_member_to_pod: the owner names   *)
(* somebody they can see who shares a side with the group; get_or_create    *)
(* finds the row of somebody already in it, and nothing changes.            *)
OpenAdd(r, actor, p, m) ==
    /\ p \in Groups \cap made
    /\ standing[actor] = "member" /\ <<actor, p>> \in in
    /\ SidesOn(actor) \cap SidesOn(m) # {}
    /\ owner[p] = actor
    /\ SidesOf[p] \cap SidesOn(m) # {}
    /\ <<m, p>> \notin in
    /\ Open(r, New("adding", m, {p}))

(* The insert of either commits when the member's row is free.              *)
InsertMembership(r) ==
    LET q == req[r] IN
    /\ At(r, "adding") \/ (At(r, "creating") /\ q.pods \cap made = {})
    /\ Unlocked(q.member)
    /\ made' = made \cup q.pods
    /\ in' = in \cup ({q.member} \X q.pods)
    /\ owner' = IF q.op = "adding" THEN owner
                ELSE [p \in Groups |-> IF p \in q.pods THEN q.member ELSE owner[p]]
    /\ raced' = raced \cup Overlapping(r)
    /\ Finish(r)
    /\ UNCHANGED standing

-----------------------------------------------------------------------------
(* Leaving, being taken out, being removed.                                 *)

(* pod_views.pod_leave reads the pod, and with it the owner ...             *)
OpenLeave(r, m, p) ==
    /\ p \in Groups /\ <<m, p>> \in in
    /\ standing[m] = "member"
    /\ Open(r, [New("leave", m, {p}) EXCEPT !.owner = owner[p]])

(* ... and pods.leave_pod locks the member, refuses to strand them and      *)
(* revokes over the sides that go.                                          *)
LockForLeave(r) ==
    LET m == req[r].member IN
    /\ At(r, "leave")
    /\ Unlocked(m)
    /\ \E p \in req[r].pods :
        /\ ~IsTheirLastHousehold(m, p)
        /\ req' = [req EXCEPT ![r].op = "leaving",
                              ![r].losing = SidesLost(m, p),
                              ![r].todo = req[r].pods]
    /\ UNCHANGED <<made, in, owner, standing, raced>>

(* households.remove_from_household, up to the revocation.                  *)
LockForDetach(r, m, h) ==
    /\ h \in Households
    /\ Unlocked(m)
    /\ <<m, h>> \in in /\ ~IsTheirLastHousehold(m, h)
    /\ Open(r, [New("detaching", m, {h}) EXCEPT !.losing = SidesLost(m, h)])

(* removal.remove_member, up to the list of groups the member owns.         *)
LockForRemoval(r, m) ==
    /\ standing[m] # "none"
    /\ Unlocked(m)
    /\ Open(r, [New("removing", m, Pods) EXCEPT
                    !.owner = m, !.losing = SidesOn(m),
                    !.todo = {p \in Groups : owner[p] = m}])

(* pods.succeed_owner, after the request has deleted its own membership.    *)
(* The owner it tests is the one on the pod object; the roster is live.     *)
Succession_KeepsOwner(q, roster) == {Unchanged}    \* mutation: never handed on
Succession(q, roster) ==
    IF q.owner \in roster THEN {Unchanged}
    ELSE IF roster # {} THEN roster
    ELSE {IF q.owner = Nobody THEN Unchanged ELSE Nobody}

HandOn(r, p) ==
    LET q == req[r] IN
    /\ Busy(r) /\ p \in q.todo
    /\ \E heir \in Succession(q, RosterOf(p) \ {q.member}) :
        req' = [req EXCEPT ![r].todo = q.todo \ {p}, ![r].heir[p] = heir]
    /\ UNCHANGED <<made, in, owner, standing, raced>>

(* The commit: the foreign key of a new owner waits for that member's row.  *)
Commit(r) ==
    LET q == req[r] IN
    /\ Busy(r) /\ Holds(r, q.member) /\ q.todo = {}
    /\ \A p \in Groups : q.heir[p] \in Members => Unlocked(q.heir[p])
    /\ in' = in \ ({q.member} \X q.pods)
    /\ owner' = [p \in Groups |-> IF q.heir[p] = Unchanged THEN owner[p]
                                  ELSE q.heir[p]]
    /\ standing' = IF q.op = "removing"
                   THEN [standing EXCEPT ![q.member] = "removed"] ELSE standing
    /\ raced' = raced \cup Overlapping(r)
    /\ Finish(r)
    /\ UNCHANGED made

-----------------------------------------------------------------------------
Arriving ==
    \/ \E h \in Households : InviteHousehold(h)
    \/ \E m \in Members, h \in Households : Join(m, h) \/ AddToHousehold(m, h)
    \/ \E r \in Requests, m \in Members, p \in Pods :
        \/ OpenGroup(r, m, p)
        \/ \E actor \in Members : OpenAdd(r, actor, p, m)
    \/ \E r \in Requests : InsertMembership(r)

Departing ==
    \/ \E r \in Requests, m \in Members, p \in Pods :
        \/ OpenLeave(r, m, p)
        \/ LockForDetach(r, m, p)
    \/ \E r \in Requests, m \in Members : LockForRemoval(r, m)
    \/ \E r \in Requests, p \in Groups : HandOn(r, p)
    \/ \E r \in Requests : LockForLeave(r) \/ Commit(r) \/ Abandon(r)

Next == Arriving \/ Departing

Spec == Init /\ [][Next]_vars

-----------------------------------------------------------------------------
(* Properties.                                                              *)

(* A member who has not been removed is in a household, whichever way two   *)
(* leaves and household changes interleave: the state                       *)
(* households.remove_from_household exists to refuse, where somebody        *)
(* "resolves nobody through the guard including themselves".                *)
HouseholdKept ==
    \A m \in Members :
        standing[m] = "member" => PodsOf(m) \cap Households # {}

(* Whenever a commit takes a side of the family from a member, the          *)
(* revocation of the same transaction covered that side: two shrinks that   *)
(* each count on the pod the other deletes would lose a side unrevoked.     *)
EveryLossIsRevoked ==
    [][\A m \in Members : \A side \in SidesOn(m) \ SidesOn(m)' :
        \E r \in Requests :
            Busy(r) /\ ~Busy(r)' /\ req[r].member = m /\ side \in req[r].losing]_vars

(* A group belongs to one of its members, and to nobody only while empty.   *)
OwnedFromInside(p) ==
    IF RosterOf(p) = {} THEN owner[p] = Nobody ELSE owner[p] \in RosterOf(p)

(* Ownership follows membership as long as no two changes to one group      *)
(* overlap: what pods.succeed_owner does achieve.                           *)
OrderlySuccession == \A p \in (Groups \cap made) \ raced : OwnedFromInside(p)

(* "Ownership follows membership" (core/pods.py:166, core/removal.py:148),  *)
(* said without that condition.                                             *)
OwnershipFollowsMembership == \A p \in Groups \cap made : OwnedFromInside(p)

(* "a removed member ... loses every credential AND their membership, in    *)
(* one atomic act" (core/removal.py:3).                                     *)
RemovedHoldNothing ==
    \A m \in Members : standing[m] = "removed" => PodsOf(m) = {}
=============================================================================
