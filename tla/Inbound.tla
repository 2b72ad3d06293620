------------------------------ MODULE Inbound ------------------------------
(***************************************************************************)
(* Replying by email (core/inbound.py, core/inbound_webhook.py,            *)
(* core/reply_addresses.py, core/commenting.py).                           *)
(*                                                                         *)
(* The provider posts an event for every mail and posts it again until it  *)
(* is answered 200; it may also post one event twice.  Each event is one   *)
(* web request and, ATOMIC_REQUESTS being set, one transaction: the        *)
(* comment, the ledger row and the quarantine row commit or roll back      *)
(* together.                                                               *)
(*                                                                         *)
(* Whether a rate counter stands at its ceiling depends on every other     *)
(* mail of the last minutes: here it may at any time.                      *)
(***************************************************************************)
EXTENDS Naturals, FiniteSets

CONSTANTS
    Messages,       \* the mails
    Addresses,      \* reply addresses, each of one member and one post
    AddressOf,      \* the one each mail was sent to
    Mixes,          \* the shapes the mails may have between them
    Requests,       \* slots for webhook requests
    MaxFailures,    \* bound on failed requests and lost answers
    MaxDuplicates,  \* bound on events posted although one is under way or answered
    Nothing         \* an idle slot, no outcome yet

Shapes == {"reply", "blank", "forged", "garbled", "nameless"}

ASSUME AddressAssumption ==
    /\ Mixes \subseteq [Messages -> Shapes]
    /\ AddressOf \in [Messages -> Addresses]
    /\ Nothing \notin {"posted", "bounced", "quarantined", "unrecorded", "duplicate", "dropped"}
ASSUME BoundsAssumption == MaxFailures \in Nat /\ MaxDuplicates \in Nat

VARIABLES
    shape,     \* shape[m]: what the mail m is
    live,      \* the addresses that resolve
    sees,      \* those whose member can see their post
    ledger,    \* InboundLedger
    comments,  \* comments[m]: the comments made from m
    turned,    \* history: the mails turned away with a bounce, a row or a spent budget
    pending,   \* those the provider has not had answered
    req,       \* req[r]: the request in slot r
    failed,    \* history: failed requests and lost answers
    doubled    \* history: events posted a second time

vars == <<shape, live, sees, ledger, comments, turned, pending,
          req, failed, doubled>>

Outcomes == {"posted", "bounced", "quarantined", "unrecorded", "duplicate", "dropped"}
Request ==
    [msg : Messages, began : BOOLEAN, noted : BOOLEAN,
     step : {"fetch", "resolve", "admit", "commit", "answer"},
     outcome : Outcomes \cup {Nothing}]

TypeOK ==
    /\ shape \in Mixes
    /\ live \subseteq Addresses /\ sees \subseteq Addresses
    /\ ledger \subseteq Messages
    /\ comments \in [Messages -> Nat]
    /\ turned \subseteq Messages /\ pending \subseteq Messages
    /\ req \in [Requests -> Request \cup {Nothing}]
    /\ failed \in 0 .. MaxFailures /\ doubled \in 0 .. MaxDuplicates

Init ==
    /\ shape \in Mixes
    /\ live = Addresses /\ sees = Addresses
    /\ ledger = {} /\ turned = {} /\ pending = Messages
    /\ comments = [m \in Messages |-> 0]
    /\ req = [r \in Requests |-> Nothing]
    /\ failed = 0 /\ doubled = 0

-----------------------------------------------------------------------------
Idle(r) == req[r] = Nothing
Free(r) == Idle(r) /\ r = CHOOSE q \in Requests : Idle(q)
At(r, step) == ~Idle(r) /\ req[r].step = step
Becomes(r, record) == req' = [req EXCEPT ![r] = record]
Underway(m) == \E r \in Requests : ~Idle(r) /\ req[r].msg = m
Ends(r, outcome) == Becomes(r, [req[r] EXCEPT !.outcome = outcome, !.step = "commit"])

(* The event arrives.                                                       *)
Open(r, m) ==
    /\ Free(r)
    /\ Becomes(r, [msg |-> m, began |-> AddressOf[m] \in live, noted |-> FALSE,
                   step |-> "fetch", outcome |-> Nothing])
    /\ UNCHANGED <<shape, live, sees, ledger, comments, turned, pending, failed>>
Deliver(r, m) ==
    m \in pending /\ ~Underway(m) /\ Open(r, m) /\ UNCHANGED doubled
DeliverAgain(r, m) ==
    /\ (m \in pending => Underway(m)) /\ doubled < MaxDuplicates
    /\ Open(r, m)
    /\ doubled' = doubled + 1

(* The message is fetched from the provider.  A fetch that is refused or    *)
(* out of time, a payload that names no one trustworthy recipient and a     *)
(* mail that cannot be parsed are one row, until the budget of such rows    *)
(* is spent.  An event that names no mail to fetch is let go.               *)
Fetch(r) ==
    /\ At(r, "fetch")
    /\ IF shape[req[r].msg] = "nameless" THEN Ends(r, "dropped")
       ELSE \/ Ends(r, "quarantined") \/ Ends(r, "unrecorded")
            \/ shape[req[r].msg] # "garbled" /\ Becomes(r, [req[r] EXCEPT !.step = "resolve"])
    /\ UNCHANGED <<shape, live, sees, ledger, comments, turned, pending, failed, doubled>>

(* reply_addresses.resolve(): an address that is unknown, voided, of an     *)
(* earlier generation or superseded for too long bounces.  Then the rate.   *)
Resolves_Unchecked(a) == TRUE     \* mutation: the row exists, and that is all
Resolves(a) == a \in live
Resolve(r) ==
    /\ At(r, "resolve")
    /\ IF Resolves(AddressOf[req[r].msg])
       THEN Becomes(r, [req[r] EXCEPT !.step = "admit"]) \/ Ends(r, "quarantined")
       ELSE Ends(r, "bounced")
    /\ UNCHANGED <<shape, live, sees, ledger, comments, turned, pending, failed, doubled>>

(* From: against the member's subscription, the ledger, the separator and,  *)
(* in create_comment(), the audience of the post once more.  The insert     *)
(* waits for another delivery that has inserted the same row.               *)
LedgerNow_AtOnce(m) == ledger \cup {m}  \* mutation: a transaction of its own
LedgerNow(m) == ledger
Admit(r) ==
    /\ At(r, "admit")
    /\ LET m == req[r].msg
       IN  /\ ~\E q \in Requests \ {r} : ~Idle(q) /\ req[q].msg = m /\ req[q].noted
           /\ CASE shape[m] = "forged" -> Ends(r, "quarantined") /\ UNCHANGED ledger
                [] shape[m] # "forged" /\ m \in ledger ->
                     Ends(r, "duplicate") /\ UNCHANGED ledger
                [] OTHER ->
                     /\ ledger' = LedgerNow(m)
                     /\ Becomes(r, [req[r] EXCEPT !.noted = TRUE, !.step = "commit",
                            !.outcome = IF shape[m] = "blank" THEN "quarantined"
                                        ELSE IF AddressOf[m] \in sees THEN "posted"
                                        ELSE "bounced"])
    /\ UNCHANGED <<shape, live, sees, comments, turned, pending, failed, doubled>>

(* The transaction commits and what it wrote is there for all.              *)
Recorded_Nothing(m) == ledger                    \* mutation: no row for the mail
Recorded_Address(m) == ledger \cup {AddressOf[m]} \* mutation: the wrong key
Recorded(m) == ledger \cup {m}
Commit(r) ==
    /\ At(r, "commit")
    /\ LET m == req[r].msg
       IN  /\ ledger' = IF req[r].noted THEN Recorded(m) ELSE ledger
           /\ comments' = IF req[r].outcome = "posted"
                          THEN [comments EXCEPT ![m] = @ + 1] ELSE comments
           /\ turned' = IF req[r].outcome \in {"posted", "duplicate", "dropped"} THEN turned
                        ELSE turned \cup {m}
           /\ Becomes(r, [req[r] EXCEPT !.step = "answer", !.noted = FALSE])
    /\ UNCHANGED <<shape, live, sees, pending, failed, doubled>>

Answer(r) ==
    /\ At(r, "answer")
    /\ pending' = pending \ {req[r].msg}
    /\ Becomes(r, Nothing)
    /\ UNCHANGED <<shape, live, sees, ledger, comments, turned, failed, doubled>>

(* An error of the fetch other than a timeout, of the database, a killed    *)
(* process: 500 or nothing, and everything rolls back.  After the commit    *)
(* only the answer can be lost.                                             *)
Fail(r) ==
    /\ ~Idle(r) /\ failed < MaxFailures
    /\ failed' = failed + 1
    /\ Becomes(r, Nothing)
    /\ UNCHANGED <<shape, live, sees, ledger, comments, turned, pending,
                   doubled>>

-----------------------------------------------------------------------------
(* A revocation, a lost side, a group left or the end of the grace; the     *)
(* post deleted, a group or side left, or joined again.                     *)
Retire(a) ==
    /\ a \in live /\ live' = live \ {a}
    /\ UNCHANGED <<shape, sees, ledger, comments, turned, pending, req, failed, doubled>>
LoseSight(a) ==
    /\ a \in sees /\ sees' = sees \ {a}
    /\ UNCHANGED <<shape, live, ledger, comments, turned, pending, req, failed, doubled>>
RegainSight(a) ==
    /\ a \in Addresses \ sees /\ sees' = sees \cup {a}
    /\ UNCHANGED <<shape, live, ledger, comments, turned, pending, req, failed, doubled>>

Continue(r) ==
    Fetch(r) \/ Resolve(r) \/ Admit(r) \/ Commit(r) \/ Answer(r)

Next ==
    \/ \E r \in Requests, m \in Messages : Deliver(r, m) \/ DeliverAgain(r, m)
    \/ \E r \in Requests : Continue(r) \/ Fail(r)
    \/ \E a \in Addresses : Retire(a) \/ LoseSight(a) \/ RegainSight(a)

(* The provider posts what is not answered again, and requests go on.       *)
Spec ==
    /\ Init /\ [][Next]_vars
    /\ \A m \in Messages : WF_vars(\E r \in Requests : Deliver(r, m))
    /\ \A r \in Requests : WF_vars(Continue(r))

-----------------------------------------------------------------------------
Fate == [m \in Messages |->
    IF comments[m] = 1 THEN "posted"
    ELSE IF comments[m] > 1 THEN "posted twice"
    ELSE IF m \in pending THEN "waiting" ELSE "settled"]

(* However often, late or concurrently the provider delivers, whatever      *)
(* fails: a mail becomes one comment at most, and in the end the provider   *)
(* is told it was dealt with (inbound.py: "a re-poll never posts twice";    *)
(* inbound_webhook.handle_inbound: an error is answered 500 and retried).   *)
Box == INSTANCE ReplyBox WITH fate <- Fate
RepliesSettleOnce == Box!Spec

(* A delivery that began after its address was voided, or its member's      *)
(* credentials were rotated, posts nothing, whatever it overlaps with.      *)
DeadAddressesAreSilent ==
    \A r \in Requests : ~Idle(r) /\ req[r].outcome = "posted" => req[r].began

(* Nothing the provider was told is dealt with has vanished: it is a        *)
(* comment, a bounce, a row on the administrator's panel, or the budget for *)
(* such rows was spent (quarantine_transport_refusal: "a refusal that       *)
(* leaves no trace is indistinguishable from mail that never arrived"); an  *)
(* event that named no mail is all that goes without one.                   *)
AnsweredLeavesATrace ==
    \A m \in Messages \ pending :
        shape[m] = "nameless" \/ comments[m] > 0 \/ m \in turned
=============================================================================
