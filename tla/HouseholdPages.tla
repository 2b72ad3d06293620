--------------------------- MODULE HouseholdPages ---------------------------
(***************************************************************************)
(* The two pages by which an admin changes somebody's households           *)
(* (core/household_views.py, core/handover.py), on top of Memberships.     *)
(*                                                                         *)
(* The first submit is answered with a page that says which sides the      *)
(* person would gain or lose; it carries a nonce, and the session keeps    *)
(* the nonce and a fingerprint of what the page said.  A second submit     *)
(* that matches both is carried out, in a transaction that locks the       *)
(* person's row and asks again.  The session is read when a request        *)
(* begins and written whole when it is answered.  Meanwhile everything in  *)
(* Memberships goes on, other admins' changes to the same person included. *)
(*                                                                         *)
(* Every key of the session names the person, so one person is enough.     *)
(***************************************************************************)
EXTENDS Memberships, Naturals, Sequences

CONSTANTS
    Target,       \* the person whose households are changed
    Tabs,         \* requests of the admin that may be under way at once
    MaxPages      \* bound on the confirm pages

ASSUME TargetAssumption == Target \in Members
ASSUME PagesAssumption == MaxPages \in Nat

VARIABLES
    session,   \* household_shown and household_intent
    visit,     \* visit[t]: what the request of the tab t has read and decided
    page       \* page[n]: what the confirm page with the nonce n says

pages == <<session, visit, page>>

NoVisit == [at |-> "none"]
Blank == [shown |-> Nobody, intent |-> 0]

PagesInit ==
    /\ Init
    /\ session = Blank /\ visit = [t \in Tabs |-> NoVisit]
    /\ page = <<>>

-----------------------------------------------------------------------------
\* _proposal, with sides_gained or sides_lost.
Proposal(act, pod, yards) ==
    [act |-> act, pod |-> pod, yards |-> yards,
     gained |-> CASE act = "add" -> SidesOf[pod] \ SidesOn(Target)
                  [] act = "create" -> yards \ SidesOn(Target)
                  [] act = "remove" -> {},
     lost |-> IF act = "remove" THEN SidesLost(Target, pod) ELSE {}]

\* Mutant: the household alone, as the nonce once was all there was.
Fingerprint_Household(p) == [act |-> p.act, pod |-> p.pod, yards |-> p.yards]

Fingerprint(p) == p

\* check_add, check_create, check_remove.
Refused(p) ==
    CASE p.act = "add" -> <<Target, p.pod>> \in in
      [] p.act = "create" -> p.yards = {}
      [] p.act = "remove" -> <<Target, p.pod>> \notin in \/ IsTheirLastHousehold(Target, p.pod)

\* consume_intent, and the fingerprint before it.
Confirms(nonce, p) == session.shown = Fingerprint(p) /\ nonce # 0 /\ nonce = session.intent

Submit(t, act, pod, yards, nonce) ==
    LET p == Proposal(act, pod, yards)
        visits(v) == visit' = [visit EXCEPT ![t] = v]
    IN
    /\ visit[t] = NoVisit /\ standing[Target] # "none"
    /\ act # "create" => pod \in made
    /\ \/ /\ Confirms(nonce, p)
          /\ visits([at |-> "acting", nonce |-> nonce, does |-> p,
                     saw |-> PodsOf(Target), keeps |-> Blank])
          /\ UNCHANGED page
       \/ /\ ~ Confirms(nonce, p) /\ ~ Refused(p) /\ Len(page) < MaxPages
          /\ page' = Append(page, p)
          /\ visits([at |-> "asked",
                     keeps |-> [shown |-> Fingerprint(p), intent |-> Len(page) + 1]])
    /\ UNCHANGED <<session, vars>>

Does(p) ==
    \/ p.act = "add" /\ AddToHousehold(Target, p.pod)
    \/ p.act = "create" /\ \E h \in Households \ made :
           SidesOf[h] = p.yards /\ AddToHousehold(Target, h)
    \/ p.act = "remove" /\ \E r \in Requests : LockForDetach(r, Target, p.pod)

\* _carry_out: refused under the lock, or done.
CarryOut(t) ==
    /\ visit[t].at = "acting"
    /\ \/ Unlocked(Target) /\ Refused(visit[t].does) /\ UNCHANGED vars
       \/ Does(visit[t].does)
    /\ visit' = [visit EXCEPT ![t] = [at |-> "acted", keeps |-> @.keeps]]
    /\ UNCHANGED <<session, page>>

Answer(t) ==
    /\ visit[t].at \in {"asked", "acted"}
    /\ session' = visit[t].keeps
    /\ visit' = [visit EXCEPT ![t] = NoVisit]
    /\ UNCHANGED <<page, vars>>

\* A crash or a 500: the session is not written.
Fail(t) ==
    /\ visit[t] # NoVisit
    /\ visit' = [visit EXCEPT ![t] = NoVisit]
    /\ UNCHANGED <<session, page, vars>>

Visiting(t) ==
    \/ \E nonce \in 0 .. Len(page) :
          \/ \E act \in {"add", "remove"}, pod \in Households : Submit(t, act, pod, {}, nonce)
          \/ \E yards \in SUBSET Sides : Submit(t, "create", Nobody, yards, nonce)
    \/ CarryOut(t) \/ Answer(t) \/ Fail(t)

PagesNext == (Next /\ UNCHANGED pages) \/ \E t \in Tabs : Visiting(t)

PagesSpec == PagesInit /\ [][PagesNext]_<<vars, pages>>

-----------------------------------------------------------------------------
(* A confirmed change hands the person no side, and takes none, that the   *)
(* confirm page did not name, whatever happened between the two submits,   *)
(* unless something more happened within the second (_fingerprint).        *)
Unsaid(t) ==
    LET said == page[visit[t].nonce]
    IN \/ SidesOn(Target)' \ SidesOn(Target) \notin SUBSET said.gained
       \/ \E r \in Requests : ~Busy(r) /\ Busy(r)' /\ req'[r].losing \notin SUBSET said.lost

NothingUnsaid ==
    [][\A t \in Tabs :
          visit[t].at = "acting" /\ visit'[t].at = "acted" /\ visit[t].saw = PodsOf(Target)
              => ~ Unsaid(t)]_<<vars, pages>>

(* The same, whatever happens within the second submit.                    *)
PageAndActAgree ==
    [][\A t \in Tabs : visit[t].at = "acting" /\ visit'[t].at = "acted" => ~ Unsaid(t)]_<<vars, pages>>

(* A confirmation is spent on one change: no two requests carry it out.    *)
SpentOnce ==
    \A t, u \in Tabs :
        t # u /\ visit[t].at = "acting" /\ visit[u].at = "acting" => visit[t].nonce # visit[u].nonce
=============================================================================
