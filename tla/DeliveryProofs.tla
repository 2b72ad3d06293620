--------------------------- MODULE DeliveryProofs ---------------------------
(***************************************************************************)
(* What mail that comes in, notifications that go out and a wipe of the    *)
(* demo family promise for any number of mails, members, browsers,         *)
(* registrations and pods, however many requests fail, are posted twice or *)
(* are cut short by a crash. That a mail is settled in the end and that    *)
(* every browser hears in the end are liveness properties and are left to  *)
(* TLC. Push and Demo keep lists of rows, and share the lemmas on what is  *)
(* left of a list.                                                         *)
(***************************************************************************)
EXTENDS Inbound, Push, Demo, SequenceTheorems, WellFoundedInduction, TLAPS

LEMMA TypeHolds == Spec => []TypeOK
  <1>1. Init => TypeOK
    BY BoundsAssumption DEF Init, TypeOK
  <1>2. TypeOK /\ [Next]_vars => TypeOK'
    <2> SUFFICES ASSUME TypeOK, [Next]_vars PROVE TypeOK'
      OBVIOUS
    <2> USE DEF TypeOK
    <2>0. ASSUME NEW r \in Requests, ~ Idle(r) PROVE req[r] \in Request
      BY <2>0 DEF Idle
    <2>1. ASSUME NEW r \in Requests, NEW m \in Messages, Open(r, m), doubled' \in 0 .. MaxDuplicates
          PROVE  TypeOK'
      <3>1. [msg |-> m, began |-> AddressOf[m] \in live, noted |-> FALSE, step |-> "fetch",
             outcome |-> Nothing] \in Request
        BY DEF Request
      <3> QED
        BY <2>1, <3>1 DEF Open, Becomes
    <2>2. ASSUME NEW r \in Requests, NEW m \in Messages, Deliver(r, m) \/ DeliverAgain(r, m) PROVE TypeOK'
      <3>1. doubled' \in 0 .. MaxDuplicates
        BY <2>2, BoundsAssumption DEF Deliver, DeliverAgain
      <3> QED
        BY <2>1, <2>2, <3>1 DEF Deliver, DeliverAgain
    <2>3. ASSUME NEW r \in Requests, ~ Idle(r), NEW outcome \in Outcomes
          PROVE  [req[r] EXCEPT !.outcome = outcome, !.step = "commit"] \in Request
      BY <2>0, <2>3 DEF Request
    <2>4. ASSUME NEW r \in Requests, Fetch(r) PROVE TypeOK'
      <3>1. [req[r] EXCEPT !.step = "resolve"] \in Request
        BY <2>0, <2>4 DEF Fetch, At, Request
      <3> QED
        BY <2>3, <2>4, <3>1 DEF Fetch, At, Ends, Becomes, Outcomes
    <2>5. ASSUME NEW r \in Requests, Resolve(r) PROVE TypeOK'
      <3>1. [req[r] EXCEPT !.step = "admit"] \in Request
        BY <2>0, <2>5 DEF Resolve, At, Request
      <3> QED
        BY <2>3, <2>5, <3>1 DEF Resolve, At, Ends, Becomes, Outcomes
    <2>6. ASSUME NEW r \in Requests, Admit(r) PROVE TypeOK'
      <3>1. ~ Idle(r) /\ req[r] \in Request
        BY <2>0, <2>6 DEF Admit, At
      <3>2. UNCHANGED <<shape, live, sees, comments, turned, pending, failed, doubled>>
        BY <2>6 DEF Admit
      <3>3. CASE UNCHANGED ledger /\ (Ends(r, "quarantined") \/ Ends(r, "duplicate"))
        BY <2>3, <3>1, <3>2, <3>3 DEF Ends, Becomes, Outcomes
      <3>4. CASE ledger' = ledger /\ \E outcome \in Outcomes :
                   Becomes(r, [req[r] EXCEPT !.noted = TRUE, !.step = "commit", !.outcome = outcome])
        <4>1. PICK outcome \in Outcomes :
                Becomes(r, [req[r] EXCEPT !.noted = TRUE, !.step = "commit", !.outcome = outcome])
          BY <3>4
        <4>2. [req[r] EXCEPT !.noted = TRUE, !.step = "commit", !.outcome = outcome] \in Request
          BY <3>1 DEF Request
        <4> QED
          BY <3>2, <3>4, <4>1, <4>2 DEF Becomes
      <3> QED
        BY <2>6, <3>3, <3>4 DEF Admit, LedgerNow, Outcomes
    <2>7. ASSUME NEW r \in Requests, Commit(r) PROVE TypeOK'
      <3>1. req[r] \in Request
        BY <2>0, <2>7 DEF Commit, At
      <3>2. [req[r] EXCEPT !.step = "answer", !.noted = FALSE] \in Request
        BY <3>1 DEF Request
      <3>3. req[r].msg \in Messages
        BY <3>1 DEF Request
      <3>4. ledger' \subseteq Messages /\ turned' \subseteq Messages /\ comments' \in [Messages -> Nat]
        BY <2>7, <3>3 DEF Commit, Recorded
      <3> QED
        BY <2>7, <3>2, <3>4 DEF Commit, Becomes
    <2>8. ASSUME NEW r \in Requests, Answer(r) \/ Fail(r) PROVE TypeOK'
      BY <2>8, BoundsAssumption DEF Answer, Fail, Becomes
    <2>9. ASSUME NEW a \in Addresses, Retire(a) \/ LoseSight(a) \/ RegainSight(a) PROVE TypeOK'
      BY <2>9 DEF Retire, LoseSight, RegainSight
    <2>10. CASE UNCHANGED vars
      BY <2>10 DEF vars
    <2> QED
      BY <2>2, <2>4, <2>5, <2>6, <2>7, <2>8, <2>9, <2>10 DEF Next, Continue
  <1> QED
    BY <1>1, <1>2, PTL DEF Spec

-----------------------------------------------------------------------------
(* One request.                                                            *)

(* What a request knows.  Its parts: a request that came when its address  *)
(* was dead does not pass resolve(); a ledger row not yet committed is of  *)
(* a mail the ledger lacks, and only such a request posts; a duplicate is  *)
(* of a mail that the ledger has; an answer is about a mail with a trace,  *)
(* or one that needs none, and so is an event let go.                      *)
Sound(q, now, rows, traced) ==
    /\ AddressOf[q.msg] \in now => q.began
    /\ q.step = "admit" \/ q.outcome = "posted" \/ q.noted => q.began
    /\ q.noted => q.step = "commit" /\ q.msg \notin rows
    /\ q.outcome = "posted" => q.step \in {"commit", "answer"}
    /\ q.step = "commit" /\ q.outcome = "posted" => q.noted
    /\ q.step \in {"fetch", "resolve", "admit"} => q.outcome = Nothing /\ ~ q.noted
    /\ q.step = "commit" /\ q.outcome = "duplicate" => q.msg \in rows
    /\ q.step = "answer" \/ q.outcome = "dropped" => q.msg \in traced

Traced == {m \in Messages : shape[m] = "nameless" \/ comments[m] > 0 \/ m \in turned}

SoundInv ==
    /\ \A r \in Requests : req[r] # Nothing => Sound(req[r], live, ledger, Traced)
    /\ \A r, q \in Requests :
          /\ req[r] # Nothing /\ req[q] # Nothing /\ r # q
          /\ req[r].noted /\ req[q].noted
          => req[r].msg # req[q].msg
    /\ ledger \subseteq Traced
    /\ Messages \ pending \subseteq Traced
    /\ \A m \in Messages : comments[m] <= 1 /\ (comments[m] = 1 => m \in ledger)

(* What a request knows stays true while addresses die and traces appear,  *)
(* and mails other than those it has a ledger row for enter the ledger.    *)
LEMMA SoundLasts ==
  ASSUME NEW q, NEW now, NEW later, NEW rows, NEW more, NEW traced, NEW wider,
         Sound(q, now, rows, traced), later \subseteq now, rows \subseteq more, traced \subseteq wider,
         q.noted => q.msg \notin more
  PROVE  Sound(q, later, more, wider)
  BY DEF Sound

(* One request goes on, with nothing committed.                            *)
LEMMA Moved ==
  ASSUME TypeOK, SoundInv, NEW r \in Requests, NEW x, Becomes(r, x),
         UNCHANGED <<shape, live, ledger, comments, turned>>, Messages \ pending' \subseteq Traced,
         x # Nothing => Sound(x, live, ledger, Traced),
         x # Nothing /\ x.noted => \A q \in Requests \ {r} :
             req[q] # Nothing /\ req[q].noted => req[q].msg # x.msg
  PROVE  SoundInv'
  <1>1. \A q \in Requests : req'[q] = IF q = r THEN x ELSE req[q]
    BY DEF TypeOK, Becomes
  <1>2. Traced' = Traced
    BY DEF Traced
  <1>3. \A q \in Requests : req'[q] # Nothing => Sound(req'[q], live, ledger, Traced)
    BY <1>1 DEF SoundInv
  <1>4. \A p, q \in Requests :
          /\ req'[p] # Nothing /\ req'[q] # Nothing /\ p # q
          /\ req'[p].noted /\ req'[q].noted
          => req'[p].msg # req'[q].msg
    BY <1>1 DEF SoundInv
  <1> QED
    BY <1>2, <1>3, <1>4 DEF SoundInv

LEMMA FetchSound == ASSUME TypeOK, SoundInv, NEW r \in Requests, Fetch(r) PROVE SoundInv'
  <1> DEFINE q == req[r]
  <1>1. q \in Request /\ q # Nothing /\ q.step = "fetch" /\ Sound(q, live, ledger, Traced)
    BY DEF TypeOK, SoundInv, Fetch, At, Idle
  <1>2. PICK x : /\ Becomes(r, x)
                 /\ \/ \E outcome \in {"quarantined", "unrecorded", "dropped"} :
                          /\ x = [q EXCEPT !.outcome = outcome, !.step = "commit"]
                          /\ outcome = "dropped" => shape[q.msg] = "nameless"
                    \/ x = [q EXCEPT !.step = "resolve"]
    BY DEF Fetch, Ends
  <1>3. Sound(x, live, ledger, Traced) /\ ~ x.noted
    BY <1>1, <1>2, AddressAssumption DEF Sound, Request, Traced
  <1> QED
    BY <1>2, <1>3, Moved DEF Fetch, SoundInv

LEMMA ResolveSound == ASSUME TypeOK, SoundInv, NEW r \in Requests, Resolve(r) PROVE SoundInv'
  <1> DEFINE q == req[r]
  <1>1. q \in Request /\ q # Nothing /\ q.step = "resolve" /\ Sound(q, live, ledger, Traced)
    BY DEF TypeOK, SoundInv, Resolve, At, Idle
  <1>2. PICK x : /\ Becomes(r, x)
                 /\ \/ \E outcome \in {"quarantined", "bounced"} :
                          x = [q EXCEPT !.outcome = outcome, !.step = "commit"]
                    \/ x = [q EXCEPT !.step = "admit"] /\ AddressOf[q.msg] \in live
    BY DEF Resolve, Resolves, Ends
  <1>3. Sound(x, live, ledger, Traced) /\ ~ x.noted
    BY <1>1, <1>2, AddressAssumption DEF Sound, Request
  <1> QED
    BY <1>2, <1>3, Moved DEF Resolve, SoundInv

LEMMA AdmitSound == ASSUME TypeOK, SoundInv, NEW r \in Requests, Admit(r) PROVE SoundInv'
  <1> DEFINE q == req[r]
  <1>1. q \in Request /\ q # Nothing /\ q.step = "admit" /\ Sound(q, live, ledger, Traced)
    BY DEF TypeOK, SoundInv, Admit, At, Idle
  <1>2. \A p \in Requests \ {r} : req[p] # Nothing /\ req[p].noted => req[p].msg # q.msg
    BY DEF Admit, Idle
  <1>3. UNCHANGED <<shape, live, ledger, comments, turned, pending>>
    BY DEF Admit, LedgerNow
  <1>4. PICK x : /\ Becomes(r, x)
                 /\ \/ x = [q EXCEPT !.outcome = "quarantined", !.step = "commit"]
                    \/ x = [q EXCEPT !.outcome = "duplicate", !.step = "commit"] /\ q.msg \in ledger
                    \/ /\ q.msg \notin ledger \/ shape[q.msg] = "forged"
                       /\ shape[q.msg] # "forged"
                       /\ \E outcome \in {"quarantined", "posted", "bounced"} :
                             x = [q EXCEPT !.noted = TRUE, !.step = "commit", !.outcome = outcome]
    BY DEF Admit, Ends
  <1>5. Sound(x, live, ledger, Traced) /\ (x.noted => x.msg = q.msg)
    BY <1>1, <1>4, AddressAssumption DEF Sound, Request
  <1>6. \A p \in Requests \ {r} : x.noted /\ req[p] # Nothing /\ req[p].noted => req[p].msg # x.msg
    BY <1>2, <1>5
  <1>7. Messages \ pending' \subseteq Traced
    BY <1>3 DEF SoundInv
  <1> QED
    BY <1>3, <1>4, <1>5, <1>6, <1>7, Moved

(* What a commit leaves: one comment at most, and a trace of the mail.     *)
LEMMA CommitSound == ASSUME TypeOK, SoundInv, NEW r \in Requests, Commit(r) PROVE SoundInv'
  <1> DEFINE q == req[r]
             m == q.msg
             x == [q EXCEPT !.step = "answer", !.noted = FALSE]
  <1>1. q \in Request /\ q # Nothing /\ q.step = "commit" /\ Sound(q, live, ledger, Traced) /\ m \in Messages
    BY DEF TypeOK, SoundInv, Commit, At, Idle, Request
  <1>2. /\ ledger' = IF q.noted THEN ledger \cup {m} ELSE ledger
        /\ comments' = IF q.outcome = "posted" THEN [comments EXCEPT ![m] = @ + 1] ELSE comments
        /\ turned' = IF q.outcome \in {"posted", "duplicate", "dropped"} THEN turned
                     ELSE turned \cup {m}
        /\ Becomes(r, x) /\ UNCHANGED <<shape, live, pending>>
    BY DEF Commit, Recorded
  <1>3. comments \in [Messages -> Nat] /\ ledger \subseteq Traced
    BY DEF TypeOK, SoundInv
  <1>4. \A n \in Messages : comments'[n] = IF n = m /\ q.outcome = "posted" THEN comments[n] + 1 ELSE comments[n]
    BY <1>1, <1>2, <1>3
  <1>5. Traced \subseteq Traced' /\ m \in Traced'
    <2>1. Traced \subseteq Traced'
      BY <1>2, <1>3, <1>4 DEF Traced
    <2>2. CASE q.outcome \in {"duplicate", "dropped"}
      BY <1>1, <1>3, <2>1, <2>2 DEF Sound
    <2>3. CASE q.outcome = "posted"
      <3>1. comments'[m] > 0
        BY <1>1, <1>3, <1>4, <2>3
      <3>2. m \in Messages
        BY <1>1
      <3> HIDE DEF m
      <3> QED
        BY <2>1, <3>1, <3>2 DEF Traced
    <2>4. CASE q.outcome \notin {"posted", "duplicate", "dropped"}
      BY <1>1, <1>2, <2>4 DEF Traced
    <2> QED
      BY <2>1, <2>2, <2>3, <2>4
  <1>6. ledger \subseteq ledger' /\ ledger' \subseteq Traced'
    BY <1>2, <1>3, <1>5
  <1>7. Sound(x, live', ledger', Traced')
    BY <1>1, <1>2, <1>5 DEF Sound, Request
  <1>8. ~ x.noted
    BY <1>1 DEF Request
  <1>9. \A p \in Requests : req'[p] = IF p = r THEN x ELSE req[p]
    BY <1>2 DEF TypeOK, Becomes
  <1>10. ASSUME NEW p \in Requests, p # r, req[p] # Nothing PROVE Sound(req[p], live', ledger', Traced')
    <2>1. Sound(req[p], live, ledger, Traced)
      BY <1>10 DEF SoundInv
    <2>2. req[p].noted => req[p].msg \notin ledger'
      BY <1>1, <1>2, <1>10, <2>1 DEF SoundInv, Sound
    <2> HIDE DEF x, q, m
    <2> QED
      BY <1>2, <1>5, <1>6, <2>1, <2>2, SoundLasts
  <1>11. \A n \in Messages : comments'[n] <= 1 /\ (comments'[n] = 1 => n \in ledger')
    <2>1. CASE q.outcome = "posted"
      <3>1. q.noted /\ m \notin ledger
        BY <1>1, <2>1 DEF Sound
      <3>2. comments[m] = 0
        BY <1>1, <1>3, <3>1 DEF SoundInv
      <3> QED
        BY <1>1, <1>2, <1>4, <1>6, <2>1, <3>1, <3>2 DEF SoundInv
    <2>2. CASE q.outcome # "posted"
      BY <1>4, <1>6, <2>2 DEF SoundInv
    <2> QED
      BY <2>1, <2>2
  <1>12. Messages \ pending' \subseteq Traced'
    BY <1>2, <1>5 DEF SoundInv
  <1>13. \A p \in Requests : req'[p] # Nothing => Sound(req'[p], live', ledger', Traced')
    BY <1>7, <1>9, <1>10
  <1>14. \A p, s \in Requests :
          /\ req'[p] # Nothing /\ req'[s] # Nothing /\ p # s
          /\ req'[p].noted /\ req'[s].noted
          => req'[p].msg # req'[s].msg
    BY <1>8, <1>9 DEF SoundInv
  <1> HIDE DEF x, q, m
  <1> QED
    BY <1>6, <1>11, <1>12, <1>13, <1>14 DEF SoundInv

LEMMA SoundHolds == Spec => []SoundInv
  <1>1. Init => SoundInv
    BY DEF Init, SoundInv
  <1>2. TypeOK /\ SoundInv /\ [Next]_vars => SoundInv'
    <2> SUFFICES ASSUME TypeOK, SoundInv, [Next]_vars PROVE SoundInv'
      OBVIOUS
    <2>1. ASSUME NEW r \in Requests, NEW m \in Messages, Open(r, m) PROVE SoundInv'
      <3> DEFINE x == [msg |-> m, began |-> AddressOf[m] \in live, noted |-> FALSE,
                       step |-> "fetch", outcome |-> Nothing]
      <3>1. Becomes(r, x) /\ UNCHANGED <<shape, live, ledger, comments, turned, pending>>
        BY <2>1 DEF Open
      <3>2. Sound(x, live, ledger, Traced) /\ ~ x.noted
        BY AddressAssumption DEF Sound
      <3>3. Messages \ pending' \subseteq Traced
        BY <3>1 DEF SoundInv
      <3> HIDE DEF x
      <3> QED
        BY <3>1, <3>2, <3>3, Moved
    <2>2. ASSUME NEW r \in Requests, Answer(r) PROVE SoundInv'
      <3>1. Sound(req[r], live, ledger, Traced) /\ req[r].step = "answer"
        BY <2>2 DEF Answer, At, Idle, SoundInv
      <3>2. Messages \ pending' \subseteq Traced
        BY <2>2, <3>1 DEF Answer, SoundInv, Sound
      <3> QED
        BY <2>2, <3>2, Moved DEF Answer
    <2>3. ASSUME NEW r \in Requests, Fail(r) PROVE SoundInv'
      BY <2>3, Moved DEF Fail, SoundInv
    <2>4. ASSUME live' \subseteq live, UNCHANGED <<shape, ledger, comments, turned, pending, req>> PROVE SoundInv'
      <3>1. Traced' = Traced
        BY <2>4 DEF Traced
      <3>2. \A r \in Requests : req[r] # Nothing => Sound(req[r], live', ledger, Traced)
        BY <2>4 DEF SoundInv, Sound
      <3> QED
        BY <2>4, <3>1, <3>2 DEF SoundInv
    <2>5. ASSUME NEW a \in Addresses, Retire(a) \/ LoseSight(a) \/ RegainSight(a) PROVE SoundInv'
      BY <2>4, <2>5 DEF Retire, LoseSight, RegainSight
    <2>6. CASE UNCHANGED vars
      BY <2>4, <2>6 DEF vars
    <2> QED
      BY <2>1, <2>2, <2>3, <2>5, <2>6, FetchSound, ResolveSound, AdmitSound, CommitSound
         DEF Next, Deliver, DeliverAgain, Continue
  <1> QED
    BY <1>1, <1>2, TypeHolds, PTL DEF Spec

(* A delivery that came after its address had been voided posts nothing,   *)
(* whatever it overlaps with (reply_addresses.resolve).                    *)
THEOREM DeadStaySilent == Spec => []DeadAddressesAreSilent
  <1>1. SoundInv => DeadAddressesAreSilent
    BY DEF SoundInv, Sound, DeadAddressesAreSilent, Idle
  <1> QED
    BY <1>1, SoundHolds, PTL

(* What the provider was told is dealt with is a comment, or was turned    *)
(* away with a bounce, a row or a spent budget (quarantine_transport_refusal). *)
THEOREM AnswersLeaveTraces == Spec => []AnsweredLeavesATrace
  <1>1. SoundInv => AnsweredLeavesATrace
    BY DEF SoundInv, Traced, AnsweredLeavesATrace
  <1> QED
    BY <1>1, SoundHolds, PTL

-----------------------------------------------------------------------------
(* The refinement.                                                         *)

(* A step that makes one comment at most, and ends one wait at most.       *)
LEMMA FateMoves ==
  ASSUME TypeOK, TypeOK', SoundInv, SoundInv', NEW m \in Messages,
         \A n \in Messages \ {m} : comments'[n] = comments[n] /\ (n \in pending' <=> n \in pending),
         \/ comments'[m] = comments[m] /\ (m \in pending' => m \in pending)
         \/ comments'[m] = comments[m] + 1 /\ (m \in pending' <=> m \in pending)
  PROVE  [Box!Next]_Fate
  <1>1. \A n \in Messages \ {m} : Fate'[n] = Fate[n]
    BY DEF Fate
  <1>2. \A n \in Messages : comments[n] \in {0, 1} /\ comments'[n] \in Nat /\ comments'[n] <= 1
    BY DEF TypeOK, SoundInv
  <1>3. ASSUME NEW n \in Messages
        PROVE  /\ Fate[n] = IF comments[n] = 1 THEN "posted"
                            ELSE IF n \in pending THEN "waiting" ELSE "settled"
               /\ Fate'[n] = IF comments'[n] = 1 THEN "posted"
                             ELSE IF n \in pending' THEN "waiting" ELSE "settled"
    <2>1. ~ (comments[n] > 1) /\ ~ (comments'[n] > 1)
      BY <1>2
    <2> QED
      BY <2>1 DEF Fate
  <1>4. Fate = [n \in Messages |-> Fate[n]] /\ Fate' = [n \in Messages |-> Fate'[n]]
    BY DEF Fate
  <1>5. ASSUME NEW f, Fate'[m] = f PROVE Fate' = [Fate EXCEPT ![m] = f]
    BY <1>1, <1>4, <1>5
  <1>6. CASE comments'[m] = comments[m] + 1
    <2>1. comments[m] = 0 /\ comments'[m] = 1
      BY <1>2, <1>6
    <2>2. Fate'[m] = "posted" /\ Fate[m] \in {"waiting", "settled"}
      BY <1>3, <2>1
    <2> QED
      BY <1>5, <2>2 DEF Box!Next, Box!Post, Box!Becomes
  <1>7. CASE comments'[m] = comments[m] /\ (m \in pending' => m \in pending)
    <2>1. CASE Fate'[m] = Fate[m]
      BY <1>1, <1>4, <2>1
    <2>2. CASE Fate'[m] # Fate[m]
      <3>1. Fate[m] = "waiting" /\ Fate'[m] = "settled"
        BY <1>3, <1>7, <2>2
      <3> QED
        BY <1>5, <3>1 DEF Box!Next, Box!Settle, Box!Becomes
    <2> QED
      BY <2>1, <2>2
  <1> QED
    BY <1>6, <1>7, <1>2

LEMMA StepMaps == ASSUME TypeOK, TypeOK', SoundInv, SoundInv', [Next]_vars PROVE [Box!Next]_Fate
  <1>1. ASSUME UNCHANGED <<comments, pending>> PROVE [Box!Next]_Fate
    BY <1>1 DEF Fate
  <1>2. ASSUME NEW r \in Requests, Commit(r) PROVE [Box!Next]_Fate
    <2> DEFINE m == req[r].msg
    <2>1. m \in Messages /\ comments \in [Messages -> Nat]
      BY <1>2 DEF TypeOK, Commit, At, Idle, Request
    <2>2. UNCHANGED pending
      BY <1>2 DEF Commit
    <2>3. comments' = [comments EXCEPT ![m] = @ + 1] \/ comments' = comments
      BY <1>2 DEF Commit
    <2> HIDE DEF m
    <2>4. \A n \in Messages \ {m} : comments'[n] = comments[n]
      BY <2>1, <2>3
    <2>5. comments'[m] = comments[m] \/ comments'[m] = comments[m] + 1
      BY <2>1, <2>3
    <2> QED
      BY <2>1, <2>2, <2>4, <2>5, FateMoves
  <1>3. ASSUME NEW r \in Requests, Answer(r) PROVE [Box!Next]_Fate
    <2> DEFINE m == req[r].msg
    <2>1. m \in Messages
      BY <1>3 DEF TypeOK, Answer, At, Idle, Request
    <2>2. UNCHANGED comments /\ pending' = pending \ {m}
      BY <1>3 DEF Answer
    <2> HIDE DEF m
    <2> QED
      BY <2>1, <2>2, FateMoves
  <1>4. ASSUME NEW r \in Requests, Fetch(r) \/ Resolve(r) \/ Admit(r) \/ Fail(r)
        PROVE  UNCHANGED <<comments, pending>>
    BY <1>4 DEF Fetch, Resolve, Admit, Fail
  <1>5. ASSUME NEW r \in Requests, NEW m \in Messages, Deliver(r, m) \/ DeliverAgain(r, m)
        PROVE  UNCHANGED <<comments, pending>>
    BY <1>5 DEF Deliver, DeliverAgain, Open
  <1>6. ASSUME NEW a \in Addresses, Retire(a) \/ LoseSight(a) \/ RegainSight(a)
        PROVE  UNCHANGED <<comments, pending>>
    BY <1>6 DEF Retire, LoseSight, RegainSight
  <1>7. UNCHANGED vars => UNCHANGED <<comments, pending>>
    BY DEF vars
  <1> QED
    BY <1>1, <1>2, <1>3, <1>4, <1>5, <1>6, <1>7 DEF Next, Continue

(* The webhook implements the safety of ReplyBox: a mail is settled once,  *)
(* and becomes one comment at most, however often it is delivered and      *)
(* whatever fails ("a re-poll never posts twice", inbound.py).             *)
THEOREM OneCommentEach == Spec => Box!Init /\ [][Box!Next]_Fate
  <1>1. Init => Box!Init
    BY DEF Init, Box!Init, Fate
  <1>2. TypeOK /\ TypeOK' /\ SoundInv /\ SoundInv' /\ [Next]_vars => [Box!Next]_Fate
    BY StepMaps
  <1> QED
    BY <1>1, <1>2, TypeHolds, SoundHolds, PTL DEF Spec

-----------------------------------------------------------------------------
(* Web push. The lists of registrations are sequences, and the lemmas say  *)
(* what taking elements out of one, joining two and adding to one leave.   *)

(* Induction, as the principle of the least number.                         *)
LEMMA Least == ASSUME NEW S \in SUBSET Nat, S # {} PROVE \E m \in S : \A k \in S : m <= k
<1> DEFINE R == OpToRel(<, Nat)
<1>1. IsWellFoundedOn(R, Nat)
  BY NatLessThanWellFounded
<1>2. \A x, y \in Nat : x < y => <<x, y>> \in R
  BY DEF OpToRel
<1> HIDE DEF R
<1>3. PICK m \in S : \A y \in S : ~ (<<y, m>> \in R)
  BY <1>1, WFMin
<1>4. ASSUME NEW k \in S PROVE m <= k
  <2>1. m \in Nat /\ k \in Nat
    OBVIOUS
  <2>2. ~ (k < m)
    BY <1>2, <1>3, <2>1
  <2> QED
    BY <2>1, <2>2
<1> QED
  BY <1>4

(* What Without leaves: the elements that are not taken out, none twice     *)
(* that was not there twice.  The function it is made with exists on every  *)
(* prefix of the sequence, and what it is there follows the same way.       *)
LEMMA WithoutIs ==
  ASSUME NEW S, NEW s \in Seq(S), NEW out
  PROVE  /\ Without(s, out) \in Seq(S)
         /\ ToSet(Without(s, out)) = ToSet(s) \ out
         /\ IsInjective(s) => IsInjective(Without(s, out))
<1> DEFINE Body(f, i) == IF i = 0 THEN <<>>
            ELSE IF s[i] \in out THEN f[i - 1] ELSE Append(f[i - 1], s[i])
   Works(f, n) == f = [i \in 0 .. n |-> Body(f, i)]
   Bad == {n \in 0 .. Len(s) : ~ \E f : Works(f, n)}
<1>0. Len(s) \in Nat /\ \A i \in 1 .. Len(s) : s[i] \in S
  OBVIOUS
<1>1. Bad = {}
  <2> SUFFICES ASSUME Bad # {} PROVE FALSE
    OBVIOUS
  <2>0. Bad \in SUBSET Nat
    BY <1>0
  <2>1. PICK n \in Bad : \A k \in Bad : n <= k
    BY <2>0, Least
  <2>2. CASE n = 0
    <3> DEFINE f == [i \in 0 .. 0 |-> <<>>]
    <3>1. Works(f, 0)
      OBVIOUS
    <3> QED
      BY <2>1, <2>2, <3>1
  <2>3. CASE n # 0
    <3>1. n - 1 \in 0 .. Len(s) /\ ~ (n <= n - 1)
      BY <1>0, <2>1, <2>3
    <3>2. PICK g : Works(g, n - 1)
      BY <2>1, <3>1
    <3> DEFINE f == [i \in 0 .. n |-> IF i = n THEN Body(g, n) ELSE g[i]]
    <3>3. \A i \in 0 .. n - 1 : g[i] = Body(g, i)
      BY <3>2
    <3>4. \A i \in 0 .. n : f[i] = Body(f, i)
      BY <3>1, <3>3, <2>3
    <3>5. Works(f, n)
      BY <3>4
    <3> QED
      BY <2>1, <3>5
  <2> QED
    BY <2>2, <2>3
<1> HIDE DEF Works
<1>2. \E f : Works(f, Len(s))
  BY <1>0, <1>1
<1> USE DEF Works
<1> DEFINE kept == CHOOSE f : Works(f, Len(s))
<1>3. Works(kept, Len(s))
  BY <1>2
<1>4. Without(s, out) = kept[Len(s)]
  BY DEF Without
<1> HIDE DEF kept
<1>5. kept[0] = <<>> /\ \A i \in 1 .. Len(s) :
         kept[i] = IF s[i] \in out THEN kept[i - 1] ELSE Append(kept[i - 1], s[i])
  <2>1. 0 \in 0 .. Len(s) /\ \A i \in 1 .. Len(s) : i \in 0 .. Len(s) /\ i # 0
    BY <1>0
  <2>2. \A i \in 0 .. Len(s) : kept[i] = Body(kept, i)
    BY <1>3
  <2> QED
    BY <2>1, <2>2
<1> HIDE DEF Body, Works, Bad
<1> DEFINE Ahead(i) == {s[j] : j \in 1 .. i}
    Sieved(i) ==
      /\ kept[i] \in Seq(S)
      /\ {kept[i][j] : j \in 1 .. Len(kept[i])} = Ahead(i) \ out
      /\ IsInjective(s) => \A j, k \in 1 .. Len(kept[i]) : kept[i][j] = kept[i][k] => j = k
    Wrong == {i \in 0 .. Len(s) : ~Sieved(i)}
<1>6. Sieved(0)
  BY <1>5
<1>7. ASSUME NEW i \in 1 .. Len(s), Sieved(i - 1) PROVE Sieved(i)
  <2>1. i \in Nat /\ i - 1 \in Nat /\ s[i] \in S /\ 1 .. i = (1 .. i - 1) \cup {i}
    BY <1>0
  <2>2. Ahead(i) = Ahead(i - 1) \cup {s[i]}
    BY <2>1
  <2>3. CASE s[i] \in out
    <3>1. kept[i] = kept[i - 1]
      BY <1>5, <2>3
    <3> HIDE DEF Ahead
    <3> QED
      BY <1>7, <2>2, <2>3, <3>1
  <2>4. CASE s[i] \notin out
    <3> DEFINE a == kept[i - 1]
    <3>1. kept[i] = Append(a, s[i])
      BY <1>5, <2>4
    <3>2. a \in Seq(S) /\ Len(a) \in Nat
      BY <1>7
    <3>3. {a[j] : j \in 1 .. Len(a)} = Ahead(i - 1) \ out
      BY <1>7
    <3>4. IsInjective(s) => \A j, k \in 1 .. Len(a) : a[j] = a[k] => j = k
      BY <1>7
    <3>5. IsInjective(s) => s[i] \notin Ahead(i - 1)
      BY <1>0, <2>1 DEF IsInjective
    <3> HIDE DEF a, Ahead
    <3>6. /\ kept[i] \in Seq(S) /\ Len(kept[i]) = Len(a) + 1
          /\ \A j \in 1 .. Len(a) : kept[i][j] = a[j]
          /\ kept[i][Len(a) + 1] = s[i]
      BY <2>1, <3>1, <3>2
    <3>7. 1 .. Len(kept[i]) = (1 .. Len(a)) \cup {Len(a) + 1}
      BY <3>2, <3>6
    <3>8. {kept[i][j] : j \in 1 .. Len(kept[i])} = {a[j] : j \in 1 .. Len(a)} \cup {s[i]}
      BY <3>6, <3>7
    <3>9. {kept[i][j] : j \in 1 .. Len(kept[i])} = Ahead(i) \ out
      BY <2>2, <2>4, <3>3, <3>8
    <3>10. ASSUME IsInjective(s), NEW j \in 1 .. Len(kept[i]), NEW k \in 1 .. Len(kept[i]),
                  kept[i][j] = kept[i][k]
           PROVE  j = k
      <4>1. \A l \in 1 .. Len(a) : a[l] # s[i]
        BY <3>3, <3>5, <3>10
      <4> QED
        BY <3>4, <3>6, <3>7, <3>10, <4>1
    <3> QED
      BY <3>6, <3>9, <3>10
  <2> QED
    BY <2>3, <2>4
<1> HIDE DEF Sieved, Ahead
<1>8. Wrong = {}
  <2> SUFFICES ASSUME Wrong # {} PROVE FALSE
    OBVIOUS
  <2>0. Wrong \in SUBSET Nat
    BY <1>0
  <2>1. PICK n \in Wrong : \A k \in Wrong : n <= k
    BY <2>0, Least
  <2>2. n \in 1 .. Len(s) /\ n - 1 \in 0 .. Len(s) /\ ~ (n <= n - 1)
    BY <1>0, <1>6, <2>1
  <2>3. Sieved(n - 1)
    BY <2>1, <2>2
  <2> QED
    BY <1>7, <2>1, <2>2, <2>3
<1>9. Sieved(Len(s))
  BY <1>0, <1>8
<1>10. ToSet(s) = Ahead(Len(s))
  BY <1>0 DEF ToSet, Ahead
<1>11. /\ Without(s, out) \in Seq(S)
       /\ {Without(s, out)[j] : j \in 1 .. Len(Without(s, out))} = ToSet(s) \ out
       /\ IsInjective(s) => \A j, k \in 1 .. Len(Without(s, out)) :
                               Without(s, out)[j] = Without(s, out)[k] => j = k
  BY <1>4, <1>9, <1>10 DEF Sieved
<1>12. DOMAIN Without(s, out) = 1 .. Len(Without(s, out))
  BY <1>11
<1> HIDE DEF Without
<1> QED
  BY <1>11, <1>12 DEF ToSet, IsInjective

LEMMA ConcatIs ==
  ASSUME NEW S, NEW s \in Seq(S), NEW t \in Seq(S)
  PROVE  /\ s \o t \in Seq(S)
         /\ ToSet(s \o t) = ToSet(s) \cup ToSet(t)
         /\ IsInjective(s) /\ IsInjective(t) /\ ToSet(s) \cap ToSet(t) = {} => IsInjective(s \o t)
  <1>1. /\ s \o t \in Seq(S) /\ Len(s \o t) = Len(s) + Len(t)
        /\ \A i \in 1 .. Len(s) + Len(t) :
              (s \o t)[i] = IF i <= Len(s) THEN s[i] ELSE t[i - Len(s)]
    BY ConcatProperties
  <1>2. /\ Len(s) \in Nat /\ Len(t) \in Nat
        /\ DOMAIN s = 1 .. Len(s) /\ DOMAIN t = 1 .. Len(t)
        /\ DOMAIN (s \o t) = 1 .. Len(s) + Len(t)
    BY <1>1
  <1> DEFINE u == s \o t
             m == Len(s)
             n == Len(t)
  <1>3. /\ m \in Nat /\ n \in Nat /\ DOMAIN s = 1 .. m /\ DOMAIN t = 1 .. n
        /\ DOMAIN u = 1 .. m + n
        /\ \A i \in 1 .. m : u[i] = s[i]
        /\ \A i \in m + 1 .. m + n : u[i] = t[i - m] /\ i - m \in 1 .. n
        /\ \A i \in 1 .. n : u[i + m] = t[i] /\ i + m \in m + 1 .. m + n
        /\ 1 .. m + n = (1 .. m) \cup (m + 1 .. m + n)
    BY <1>1, <1>2
  <1>4. u \in Seq(S)
    BY <1>1
  <1> HIDE DEF u, m, n
  <1>5. ToSet(u) = ToSet(s) \cup ToSet(t)
    <2>1. ASSUME NEW x \in ToSet(u) PROVE x \in ToSet(s) \cup ToSet(t)
      BY <1>3, <2>1 DEF ToSet
    <2>2. ASSUME NEW x \in ToSet(s) PROVE x \in ToSet(u)
      <3>1. PICK i \in 1 .. m : x = s[i]
        BY <1>3, <2>2 DEF ToSet
      <3>2. i \in 1 .. m + n /\ u[i] = x
        BY <1>3, <3>1
      <3> QED
        BY <1>3, <3>2 DEF ToSet
    <2>3. ASSUME NEW x \in ToSet(t) PROVE x \in ToSet(u)
      <3>1. PICK i \in 1 .. n : x = t[i]
        BY <1>3, <2>3 DEF ToSet
      <3>2. i + m \in 1 .. m + n /\ u[i + m] = x
        BY <1>3, <3>1
      <3> QED
        BY <1>3, <3>2 DEF ToSet
    <2> QED
      BY <2>1, <2>2, <2>3
  <1>6. ASSUME IsInjective(s), IsInjective(t), ToSet(s) \cap ToSet(t) = {} PROVE IsInjective(u)
    <2> SUFFICES ASSUME NEW i \in 1 .. m + n, NEW j \in 1 .. m + n, u[i] = u[j] PROVE i = j
      BY <1>3 DEF IsInjective
    <2>0. \A k \in 1 .. m, l \in 1 .. n : s[k] # t[l]
      <3>1. ASSUME NEW k \in 1 .. m, NEW l \in 1 .. n PROVE s[k] \in ToSet(s) /\ t[l] \in ToSet(t)
        BY <1>3 DEF ToSet
      <3> QED
        BY <1>6, <3>1
    <2>1. CASE i \in 1 .. m /\ j \in 1 .. m
      BY <1>3, <1>6, <2>1 DEF IsInjective
    <2>2. CASE i \in m + 1 .. m + n /\ j \in m + 1 .. m + n
      <3>1. i - m \in 1 .. n /\ j - m \in 1 .. n /\ t[i - m] = t[j - m]
        BY <1>3, <2>2
      <3>2. i - m = j - m
        BY <1>3, <1>6, <3>1 DEF IsInjective
      <3> QED
        BY <1>3, <3>2
    <2>3. CASE i \in 1 .. m /\ j \in m + 1 .. m + n
      <3>1. u[i] = s[i] /\ u[j] = t[j - m] /\ j - m \in 1 .. n
        BY <1>3, <2>3
      <3> QED
        BY <2>0, <2>3, <3>1
    <2>4. CASE j \in 1 .. m /\ i \in m + 1 .. m + n
      <3>1. u[j] = s[j] /\ u[i] = t[i - m] /\ i - m \in 1 .. n
        BY <1>3, <2>4
      <3> QED
        BY <2>0, <2>4, <3>1
    <2> QED
      BY <1>3, <2>1, <2>2, <2>3, <2>4
  <1> QED
    BY <1>4, <1>5, <1>6 DEF u

LEMMA AppendIs ==
  ASSUME NEW S, NEW s \in Seq(S), NEW e \in S
  PROVE  /\ Append(s, e) \in Seq(S)
         /\ ToSet(Append(s, e)) = ToSet(s) \cup {e}
         /\ IsInjective(s) /\ e \notin ToSet(s) => IsInjective(Append(s, e))
  <1>1. <<e>> \in Seq(S) /\ ToSet(<<e>>) = {e} /\ IsInjective(<<e>>)
    BY DEF ToSet, IsInjective
  <1>2. Append(s, e) = s \o <<e>>
    BY AppendIsConcat
  <1> QED
    <2>1. IsInjective(s) /\ e \notin ToSet(s) =>
            IsInjective(s) /\ IsInjective(<<e>>) /\ ToSet(s) \cap ToSet(<<e>>) = {}
      BY <1>1
    <2>2. /\ s \o <<e>> \in Seq(S)
          /\ ToSet(s \o <<e>>) = ToSet(s) \cup ToSet(<<e>>)
          /\ IsInjective(s) /\ IsInjective(<<e>>) /\ ToSet(s) \cap ToSet(<<e>>) = {}
               => IsInjective(s \o <<e>>)
      BY <1>1, ConcatIs
    <2> QED
      BY <1>1, <1>2, <2>1, <2>2

-----------------------------------------------------------------------------
(* The inductive invariant.  A registration is in one of the two lists and  *)
(* there once, and its own count of refusals is the number its service gave *)
(* in a row.  A fan-out read each key once, and what it read of a           *)
(* registration that is still there is still so: only the fan-out itself    *)
(* counts, and a new registration never takes a key it is about to send to. *)
Ledger ==
  /\ row \in [Keys -> Row \cup {None}] /\ told \in [Keys -> 0 .. MaxRefusals]
  /\ waiting \in Seq(Keys) /\ served \in Seq(Keys)
  /\ IsInjective(waiting) /\ IsInjective(served) /\ ToSet(waiting) \cap ToSet(served) = {}
  /\ \A k \in Keys : Stored(k) <=> k \in ToSet(waiting) \cup ToSet(served)
  /\ \A k \in Keys : Stored(k) => told[k] = row[k].fails
ToDo ==
  run # None =>
    /\ run.todo \in Seq(Device) /\ run.todo # <<>> /\ run.spent \in Nat /\ run.spent < Budget
    /\ \A i, j \in DOMAIN run.todo : run.todo[i].key = run.todo[j].key => i = j
    /\ \A i \in DOMAIN run.todo : Stored(run.todo[i].key) => run.todo[i].fails = told[run.todo[i].key]
Others ==
  /\ hears \subseteq Members /\ jobs \in Seq(Writers)
  /\ changes \in 0 .. MaxChanges /\ crashes \in 0 .. MaxCrashes
Agree == Ledger /\ ToDo /\ Others

LEMMA RowsAre ==
  /\ \A r \in Row : r # None /\ r.fails \in 0 .. MaxRefusals - 1 /\ r.browser \in Browsers
                    /\ r.member \in Members
  /\ MaxRefusals \in Nat /\ MaxRefusals > 0
BY NoneAssumption, PushBounds DEF Row

(* The same row with another count.                                         *)
LEMMA Recounted ==
  ASSUME NEW r \in Row, NEW n \in 0 .. MaxRefusals - 1
  PROVE  [r EXCEPT !.fails = n] \in Row /\ [r EXCEPT !.fails = n].fails = n
BY DEF Row

(* Taking registrations away leaves the others as they were.                *)
LEMMA DropKeeps ==
  ASSUME Ledger, NEW keys, Dropped(keys), told' \in [Keys -> 0 .. MaxRefusals],
         \A k \in Keys \ keys : told'[k] = told[k]
  PROVE  /\ Ledger'
         /\ \A k \in Keys : Stored(k)' <=> Stored(k) /\ k \notin keys
  <1>1. /\ waiting' \in Seq(Keys) /\ ToSet(waiting') = ToSet(waiting) \ keys
        /\ IsInjective(waiting')
    BY WithoutIs DEF Ledger, Dropped
  <1>2. /\ served' \in Seq(Keys) /\ ToSet(served') = ToSet(served) \ keys
        /\ IsInjective(served')
    BY WithoutIs DEF Ledger, Dropped
  <1>3. /\ row' \in [Keys -> Row \cup {None}]
        /\ \A k \in Keys : row'[k] = IF k \in keys THEN None ELSE row[k]
    BY DEF Ledger, Dropped
  <1>4. \A k \in Keys : Stored(k)' <=> Stored(k) /\ k \notin keys
    BY <1>3 DEF Stored
  <1>5. \A k \in Keys : Stored(k)' => told'[k] = row'[k].fails
    BY <1>3, <1>4 DEF Ledger, Stored
  <1>6. \A k \in Keys : Stored(k)' <=> k \in ToSet(waiting') \cup ToSet(served')
    BY <1>1, <1>2, <1>4 DEF Ledger
  <1> QED
    BY <1>1, <1>2, <1>3, <1>4, <1>5, <1>6 DEF Ledger

(* What is read stays right while no count and no key of it changes.        *)
LEMMA ToDoKept ==
  ASSUME ToDo, run' = run,
         \A k \in Keys : Held(k) => (Stored(k)' => Stored(k)) /\ told'[k] = told[k]
  PROVE  ToDo'
  <1> SUFFICES ASSUME run # None PROVE
        \A i \in DOMAIN run.todo : Stored(run.todo[i].key)' => run.todo[i].fails = told'[run.todo[i].key]
    BY DEF ToDo
  <1>1. ASSUME NEW i \in DOMAIN run.todo PROVE run.todo[i].key \in Keys /\ Held(run.todo[i].key)
    <2>1. run.todo \in Seq(Device)
      BY DEF ToDo
    <2>2. run.todo[i] \in Device /\ run.todo[i] \in ToSet(run.todo)
      BY <2>1 DEF ToSet
    <2> QED
      BY <2>2 DEF Device, Held
  <1> QED
    BY <1>1 DEF ToDo

(* The fan-out goes on with the rest of its list, or ends.                  *)
LEMMA ToDoMoves ==
  ASSUME Ledger, ToDo, run # None, NEW cost \in {0, 1},
         run' = Fanout(Tail(run.todo), run.spent + cost),
         \A k \in Keys \ {Head(run.todo).key} : (Stored(k)' => Stored(k)) /\ told'[k] = told[k]
  PROVE  ToDo'
  <1> DEFINE s == run.todo
             t == Tail(s)
  <1>1. /\ s \in Seq(Device) /\ s # <<>> /\ run.spent \in Nat /\ run.spent < Budget
        /\ \A i, j \in DOMAIN s : s[i].key = s[j].key => i = j
        /\ \A i \in DOMAIN s : Stored(s[i].key) => s[i].fails = told[s[i].key]
    BY DEF ToDo
  <1>2. /\ t \in Seq(Device) /\ Head(s) = s[1] /\ 1 \in DOMAIN s
        /\ DOMAIN t = 1 .. Len(s) - 1 /\ DOMAIN s = 1 .. Len(s) /\ Len(s) \in Nat
        /\ \A i \in DOMAIN t : t[i] = s[i + 1] /\ i + 1 \in DOMAIN s /\ i + 1 # 1
    BY <1>1
  <1> SUFFICES ASSUME run' # None PROVE ToDo'
    BY DEF ToDo
  <1>3. run' = [todo |-> t, spent |-> run.spent + cost] /\ t # <<>> /\ ~ (run.spent + cost >= Budget)
    BY DEF Fanout
  <1> HIDE DEF s, t
  <1>4. run'.todo = t /\ run'.spent = run.spent + cost
    BY <1>3
  <1>5. run'.spent \in Nat /\ run'.spent < Budget
    BY <1>1, <1>3, <1>4, PushBounds
  <1>6. \A i, j \in DOMAIN t : t[i].key = t[j].key => i = j
    <2> SUFFICES ASSUME NEW i \in DOMAIN t, NEW j \in DOMAIN t, t[i].key = t[j].key PROVE i = j
      OBVIOUS
    <2>1. s[i + 1].key = s[j + 1].key /\ i + 1 \in DOMAIN s /\ j + 1 \in DOMAIN s
      BY <1>2
    <2>2. i + 1 = j + 1
      BY <1>1, <2>1
    <2> QED
      BY <1>2, <2>2
  <1>7. ASSUME NEW i \in DOMAIN t, row'[t[i].key] # None PROVE t[i].fails = told'[t[i].key]
    <2>1. t[i] = s[i + 1] /\ i + 1 \in DOMAIN s /\ i + 1 # 1 /\ s[i + 1] \in Device
      BY <1>1, <1>2
    <2>2. t[i].key \in Keys /\ t[i].key # Head(s).key
      BY <1>1, <1>2, <2>1 DEF Device
    <2>3. Stored(t[i].key) /\ told'[t[i].key] = told[t[i].key]
      BY <1>7, <2>2 DEF s, Stored
    <2> QED
      BY <1>1, <2>1, <2>3
  <1> QED
    BY <1>2, <1>3, <1>4, <1>5, <1>6, <1>7 DEF ToDo, Stored

(* A fan-out begins with the registrations as they are, each once.          *)
LEMMA ToDoBegins ==
  ASSUME Ledger, NEW m \in Members, run' = Fanout(Listed(m), 0), UNCHANGED <<row, told>>
  PROVE  ToDo'
  <1> DEFINE out == {k \in Keys : Stored(k) /\ row[k].member \notin Recipients(m)}
             keys == Without(waiting \o served, out)
  <1>1. /\ waiting \o served \in Seq(Keys) /\ IsInjective(waiting \o served)
        /\ ToSet(waiting \o served) = ToSet(waiting) \cup ToSet(served)
    BY ConcatIs DEF Ledger
  <1>2. /\ keys \in Seq(Keys) /\ IsInjective(keys)
        /\ ToSet(keys) = ToSet(waiting \o served) \ out
    BY <1>1, WithoutIs
  <1>3. \A k \in ToSet(keys) : k \in Keys /\ row[k] \in Row /\ told[k] = row[k].fails
    <2>1. ASSUME NEW k \in ToSet(waiting) \cup ToSet(served) PROVE k \in Keys
      <3>1. waiting \in Seq(Keys) /\ served \in Seq(Keys)
        BY DEF Ledger
      <3> QED
        BY <2>1, <3>1 DEF ToSet
    <2>2. \A k \in ToSet(keys) : k \in Keys /\ Stored(k)
      BY <1>1, <1>2, <2>1 DEF Ledger
    <2> QED
      BY <2>2 DEF Ledger, Stored
  <1>4. /\ DOMAIN keys = 1 .. Len(keys) /\ Len(keys) \in Nat
        /\ \A i \in DOMAIN keys : keys[i] \in ToSet(keys)
    <2>1. \A z \in Seq(Keys) : /\ DOMAIN z = 1 .. Len(z) /\ Len(z) \in Nat
                               /\ \A i \in DOMAIN z : z[i] \in ToSet(z)
      BY DEF ToSet
    <2> QED
      BY <1>2, <2>1
  <1>5. Listed(m) = [i \in DOMAIN keys |->
            [key |-> keys[i], browser |-> row[keys[i]].browser, fails |-> row[keys[i]].fails]]
    BY DEF Listed
  <1> HIDE DEF keys, out
  <1> DEFINE s == Listed(m)
  <1>6. DOMAIN s = 1 .. Len(keys) /\ \A i \in 1 .. Len(keys) :
            /\ s[i] \in Device /\ s[i].key = keys[i] /\ s[i].fails = told[s[i].key]
    BY <1>3, <1>4, <1>5, RowsAre DEF Device
  <1>7. s \in Seq(Device)
    <2>1. s = [i \in 1 .. Len(keys) |-> s[i]]
      BY <1>4, <1>5
    <2> HIDE DEF s
    <2> QED
      BY <1>4, <1>6, <2>1, IsASeq
  <1>8. \A i, j \in DOMAIN s : s[i].key = s[j].key => i = j
    BY <1>2, <1>4, <1>6 DEF IsInjective
  <1> HIDE DEF s
  <1> SUFFICES ASSUME run' # None PROVE ToDo'
    BY DEF ToDo
  <1>9. run' = [todo |-> s, spent |-> 0] /\ s # <<>>
    BY DEF Fanout, s
  <1>10. run'.todo = s /\ run'.spent = 0 /\ 0 < Budget
    BY <1>9, PushBounds
  <1> QED
    BY <1>6, <1>7, <1>8, <1>9, <1>10 DEF ToDo

LEMMA SubscribeKeeps ==
  ASSUME Agree, NEW m \in Members, NEW b \in Browsers, NEW k \in Keys, Subscribe(m, b, k)
  PROVE  Agree'
  <1>1. /\ changes < MaxChanges /\ changes' = changes + 1 /\ ~ Stored(k) /\ ~ Held(k)
        /\ row' = [q \in Keys |->
               IF q = k THEN [member |-> m, browser |-> b, fails |-> 0]
               ELSE IF q \in RowsOf(b) THEN None ELSE row[q]]
        /\ waiting' = Append(Without(waiting, RowsOf(b)), k)
        /\ served' = Without(served, RowsOf(b))
        /\ told' = [told EXCEPT ![k] = 0]
        /\ UNCHANGED <<hears, jobs, run, crashes>>
    BY DEF Subscribe, Change, Unused
  <1>2. [member |-> m, browser |-> b, fails |-> 0] \in Row
    BY PushBounds DEF Row
  <1>3. /\ row' \in [Keys -> Row \cup {None}] /\ told' \in [Keys -> 0 .. MaxRefusals]
        /\ row'[k].fails = 0 /\ row'[k] # None /\ told'[k] = 0
        /\ \A q \in Keys : q # k =>
              /\ told'[q] = told[q]
              /\ row'[q] = IF q \in RowsOf(b) THEN None ELSE row[q]
    BY <1>1, <1>2, RowsAre DEF Agree, Ledger
  <1>4. \A q \in Keys : Stored(q)' <=> q = k \/ (Stored(q) /\ q \notin RowsOf(b))
    BY <1>3 DEF Stored
  <1> DEFINE left == Without(waiting, RowsOf(b))
  <1>5. left \in Seq(Keys) /\ IsInjective(left) /\ ToSet(left) = ToSet(waiting) \ RowsOf(b)
    BY WithoutIs DEF Agree, Ledger
  <1>6. /\ served' \in Seq(Keys) /\ IsInjective(served')
        /\ ToSet(served') = ToSet(served) \ RowsOf(b)
    BY <1>1, WithoutIs DEF Agree, Ledger
  <1>7. k \notin ToSet(waiting) \cup ToSet(served)
    BY <1>1 DEF Agree, Ledger
  <1> HIDE DEF left
  <1>8. /\ waiting' \in Seq(Keys) /\ IsInjective(waiting')
        /\ ToSet(waiting') = (ToSet(waiting) \ RowsOf(b)) \cup {k}
    <2>1. waiting' = Append(left, k)
      BY <1>1 DEF left
    <2> QED
      BY <1>5, <1>7, <2>1, AppendIs
  <1>9. \A q \in Keys : Stored(q)' => told'[q] = row'[q].fails
    BY <1>3, <1>4 DEF Agree, Ledger, Stored
  <1>10. \A q \in Keys : Stored(q)' <=> q \in ToSet(waiting') \cup ToSet(served')
    BY <1>4, <1>6, <1>8 DEF Agree, Ledger
  <1>11. ToSet(waiting') \cap ToSet(served') = {}
    BY <1>6, <1>7, <1>8 DEF Agree, Ledger
  <1>12. Ledger'
    BY <1>3, <1>6, <1>8, <1>9, <1>10, <1>11 DEF Ledger
  <1>13. ToDo'
    BY <1>1, <1>3, <1>4, ToDoKept DEF Agree
  <1>14. Others'
    BY <1>1, PushBounds DEF Agree, Others
  <1> QED
    BY <1>12, <1>13, <1>14 DEF Agree

(* A browser or its member turns notifications off, or the member goes.     *)
LEMMA DropsKeep ==
  ASSUME Agree, NEW keys, Change, Dropped(keys), hears' \subseteq hears,
         UNCHANGED <<jobs, run, told, crashes>>
  PROVE  Agree'
  <1>1. Ledger' /\ \A k \in Keys : Stored(k)' <=> Stored(k) /\ k \notin keys
    BY DropKeeps DEF Agree, Ledger
  <1>2. ToDo'
    BY <1>1, ToDoKept DEF Agree
  <1>3. Others'
    BY PushBounds DEF Agree, Others, Change
  <1> QED
    BY <1>1, <1>2, <1>3 DEF Agree

LEMMA SameRows ==
  ASSUME Agree, UNCHANGED <<row, waiting, served, told>> PROVE Ledger' /\ (run' = run => ToDo')
  <1>1. \A k \in Keys : Stored(k)' <=> Stored(k)
    BY DEF Stored
  <1> QED
    BY <1>1, ToDoKept DEF Agree, Ledger, Stored

(* What the worker makes of one answer.                                     *)
LEMMA SendKeeps ==
  ASSUME Agree, NEW answer \in Takes \cup Refusals \cup Silences, Send(answer)
  PROVE  /\ Agree'
         /\ \A k \in Keys : Stored(k) /\ ~Stored(k)' => told'[k] = MaxRefusals
  <1> DEFINE d == Head(run.todo)
             k == d.key
             count == IF answer \in Takes THEN 0
                      ELSE IF answer = "gone" THEN MaxRefusals
                      ELSE IF answer = "refused" /\ told[k] < MaxRefusals THEN told[k] + 1
                      ELSE told[k]
  <1>1. run # None /\ d \in Device /\ (Stored(k) => d.fails = told[k])
    <2>1. run # None
      BY DEF Send
    <2>2. 1 \in DOMAIN run.todo /\ d = run.todo[1] /\ run.todo \in Seq(Device)
      BY <2>1 DEF Agree, ToDo
    <2> QED
      BY <2>1, <2>2 DEF Agree, ToDo
  <1>2. k \in Keys /\ d.fails \in 0 .. MaxRefusals - 1
    BY <1>1 DEF Device
  <1>3. /\ IF ~Stored(k) THEN UNCHANGED <<row, waiting, served>>
           ELSE IF answer \in Takes THEN Delivered(d)
           ELSE IF Counted(answer) THEN Refused(d, answer)
           ELSE UNCHANGED <<row, waiting, served>>
        /\ told' = [told EXCEPT ![k] = count]
        /\ run' = Fanout(Tail(run.todo), run.spent + IF answer \in Costly THEN 1 ELSE 0)
        /\ UNCHANGED <<hears, jobs, changes, crashes>>
    BY DEF Send
  <1> HIDE DEF k, d
  <1>4. /\ told' \in [Keys -> 0 .. MaxRefusals] /\ told'[k] = count
        /\ \A q \in Keys \ {k} : told'[q] = told[q]
    BY <1>2, <1>3, RowsAre DEF Agree, Ledger
  <1> HIDE DEF count
  <1>5. /\ Ledger'
        /\ \A q \in Keys \ {k} : Stored(q)' => Stored(q)
        /\ \A q \in Keys : Stored(q) /\ ~Stored(q)' => told'[q] = MaxRefusals
    <2>1. CASE ~ Stored(k) \/ (answer \notin Takes /\ ~Counted(answer))
      <3>1. UNCHANGED <<row, waiting, served>>
        BY <1>3, <2>1
      <3>2. Stored(k) => told'[k] = told[k]
        BY <1>4, <2>1 DEF count, Counted, Takes, Refusals, Silences
      <3>3. \A q \in Keys : Stored(q)' <=> Stored(q)
        BY <3>1 DEF Stored
      <3> QED
        BY <1>2, <1>4, <3>1, <3>2, <3>3 DEF Agree, Ledger
    <2>2. CASE Stored(k) /\ answer \in Takes
      <3>1. Delivered(d) /\ told'[k] = 0
        BY <1>3, <1>4, <2>2 DEF count
      <3>2. /\ row' = [row EXCEPT ![k] = [row[k] EXCEPT !.fails = 0]]
            /\ waiting' = Without(waiting, {k}) /\ served' = Append(Without(served, {k}), k)
        BY <3>1 DEF Delivered, Behind, k
      <3>3. row[k] \in Row
        BY <1>2, <2>2 DEF Agree, Ledger, Stored
      <3>4. [row[k] EXCEPT !.fails = 0] \in Row /\ [row[k] EXCEPT !.fails = 0].fails = 0
        BY <3>3, Recounted, RowsAre
      <3>5. /\ row' \in [Keys -> Row \cup {None}] /\ row'[k] \in Row /\ row'[k].fails = 0
            /\ \A q \in Keys \ {k} : row'[q] = row[q]
        BY <1>2, <3>2, <3>4 DEF Agree, Ledger
      <3>6. \A q \in Keys : Stored(q)' <=> Stored(q)
        BY <1>2, <2>2, <3>5, RowsAre DEF Stored
      <3>7. /\ waiting' \in Seq(Keys) /\ IsInjective(waiting')
            /\ ToSet(waiting') = ToSet(waiting) \ {k}
        BY <3>2, WithoutIs DEF Agree, Ledger
      <3> DEFINE left == Without(served, {k})
      <3>8. /\ left \in Seq(Keys) /\ IsInjective(left)
            /\ ToSet(left) = ToSet(served) \ {k}
        BY WithoutIs DEF Agree, Ledger
      <3> HIDE DEF left
      <3>9. /\ served' \in Seq(Keys) /\ IsInjective(served')
            /\ ToSet(served') = (ToSet(served) \ {k}) \cup {k}
        <4>1. served' = Append(left, k)
          BY <3>2 DEF left
        <4> QED
          BY <1>2, <3>8, <4>1, AppendIs
      <3>10. \A q \in Keys : Stored(q)' => told'[q] = row'[q].fails
        BY <1>4, <3>1, <3>5, <3>6 DEF Agree, Ledger
      <3>11. \A q \in Keys : Stored(q)' <=> q \in ToSet(waiting') \cup ToSet(served')
        BY <2>2, <3>6, <3>7, <3>9 DEF Agree, Ledger
      <3>12. ToSet(waiting') \cap ToSet(served') = {}
        BY <3>7, <3>9 DEF Agree, Ledger
      <3> QED
        BY <1>4, <3>5, <3>6, <3>7, <3>9, <3>10, <3>11, <3>12 DEF Ledger
    <2>3. CASE Stored(k) /\ answer \notin Takes /\ Counted(answer)
      <3>1. Refused(d, answer) /\ answer \in {"refused", "gone"} /\ d.fails = told[k]
        BY <1>1, <1>3, <2>3 DEF Counted, Refusals
      <3>2. told'[k] = IF answer = "gone" THEN MaxRefusals ELSE d.fails + 1
        BY <1>2, <1>4, <2>3, <3>1, RowsAre DEF count
      <3>3. CASE Condemns(answer, d.fails + 1)
        <4>1. Dropped({k}) /\ told'[k] = MaxRefusals
          BY <1>2, <3>1, <3>2, <3>3, RowsAre DEF Refused, Condemns, k
        <4>2. Ledger' /\ \A q \in Keys : Stored(q)' <=> Stored(q) /\ q \notin {k}
          BY <1>4, <4>1, DropKeeps DEF Agree
        <4> QED
          BY <4>1, <4>2
      <3>4. CASE ~ Condemns(answer, d.fails + 1)
        <4>1. /\ row' = [row EXCEPT ![k] = [row[k] EXCEPT !.fails = d.fails + 1]]
              /\ UNCHANGED <<waiting, served>>
          BY <3>1, <3>4 DEF Refused, k
        <4>2. /\ d.fails + 1 \in 0 .. MaxRefusals - 1
              /\ told'[k] = d.fails + 1
          BY <1>2, <3>2, <3>4, RowsAre DEF Condemns
        <4>3. row[k] \in Row
          BY <1>2, <2>3 DEF Agree, Ledger, Stored
        <4> DEFINE n == d.fails + 1
        <4> HIDE DEF n
        <4>4. /\ [row[k] EXCEPT !.fails = n] \in Row /\ [row[k] EXCEPT !.fails = n].fails = n
          BY <4>2, <4>3, Recounted DEF n
        <4>5. /\ row' \in [Keys -> Row \cup {None}] /\ row'[k] \in Row /\ row'[k].fails = n
              /\ \A q \in Keys \ {k} : row'[q] = row[q]
          BY <1>2, <4>1, <4>4 DEF Agree, Ledger, n
        <4>6. \A q \in Keys : Stored(q)' <=> Stored(q)
          BY <1>2, <2>3, <4>5, RowsAre DEF Stored
        <4>7. \A q \in Keys : Stored(q)' => told'[q] = row'[q].fails
          BY <1>4, <4>2, <4>5, <4>6 DEF Agree, Ledger, n
        <4> QED
          BY <1>4, <4>1, <4>5, <4>6, <4>7 DEF Agree, Ledger
      <3> QED
        BY <3>3, <3>4
    <2> QED
      BY <2>1, <2>2, <2>3
  <1>6. ToDo'
    <2> DEFINE cost == IF answer \in Costly THEN 1 ELSE 0
    <2>1. cost \in {0, 1} /\ run' = Fanout(Tail(run.todo), run.spent + cost)
      BY <1>3
    <2> HIDE DEF cost
    <2>2. \A q \in Keys \ {Head(run.todo).key} : (Stored(q)' => Stored(q)) /\ told'[q] = told[q]
      BY <1>4, <1>5 DEF k, d
    <2> QED
      BY <1>1, <2>1, <2>2, ToDoMoves DEF Agree
  <1>7. Others'
    BY <1>3 DEF Agree, Others
  <1> QED
    BY <1>5, <1>6, <1>7 DEF Agree

LEMMA AgreeStep == Agree /\ [PushNext]_pushVars => Agree'
  <1> SUFFICES ASSUME Agree, [PushNext]_pushVars PROVE Agree'
    OBVIOUS
  <1>1. ASSUME NEW m \in Members, NEW b \in Browsers, Unsubscribe(m, b) PROVE Agree'
    BY <1>1, DropsKeep DEF Unsubscribe
  <1>2. ASSUME NEW m \in Members, NEW b \in Browsers, NEW k \in Keys, Subscribe(m, b, k)
        PROVE  Agree'
    BY <1>2, SubscribeKeeps
  <1>3. ASSUME NEW m \in Members, Removed(m) PROVE Agree'
    BY <1>3, DropsKeep DEF Removed
  <1>4. ASSUME NEW m \in Members, Prefer(m) PROVE Agree'
    <2>1. Ledger' /\ ToDo'
      BY <1>4, SameRows DEF Prefer
    <2>2. Others'
      BY <1>4, PushBounds DEF Prefer, Change, Agree, Others
    <2> QED
      BY <2>1, <2>2 DEF Agree
  <1>5. ASSUME NEW m \in Writers, Write(m) PROVE Agree'
    <2>1. Ledger' /\ ToDo'
      BY <1>5, SameRows DEF Write
    <2>2. Others'
      BY <1>5 DEF Write, Agree, Others
    <2> QED
      BY <2>1, <2>2 DEF Agree
  <1>6. ASSUME NEW m \in Writers, Delete(m) PROVE Agree'
    <2>1. Ledger' /\ ToDo'
      BY <1>6, SameRows DEF Delete
    <2>2. Without(jobs, {m}) \in Seq(Writers)
      BY WithoutIs DEF Agree, Others
    <2>3. Others'
      BY <1>6, <2>2, PushBounds DEF Delete, Change, Agree, Others
    <2> QED
      BY <2>1, <2>3 DEF Agree
  <1>7. CASE Take
    <2>1. Head(jobs) \in Members /\ Tail(jobs) \in Seq(Writers)
      BY <1>7, WritersAssumption DEF Take, Agree, Others
    <2>2. Ledger'
      BY <1>7, SameRows DEF Take
    <2>3. ToDo'
      BY <1>7, <2>1, ToDoBegins DEF Take, Agree
    <2>4. Others'
      BY <1>7, <2>1 DEF Take, Agree, Others
    <2> QED
      BY <2>2, <2>3, <2>4 DEF Agree
  <1>8. CASE Work
    BY <1>8, SendKeeps DEF Work
  <1>9. CASE Crash
    <2>1. Ledger'
      BY <1>9, SameRows DEF Crash
    <2>2. ToDo' /\ Others'
      BY <1>9, PushBounds DEF Crash, ToDo, Agree, Others
    <2> QED
      BY <2>1, <2>2 DEF Agree
  <1>10. CASE UNCHANGED pushVars
    <2>1. Ledger' /\ ToDo'
      BY <1>10, SameRows DEF pushVars
    <2>2. Others'
      BY <1>10 DEF pushVars, Agree, Others
    <2> QED
      BY <2>1, <2>2 DEF Agree
  <1> QED
    BY <1>1, <1>2, <1>3, <1>4, <1>5, <1>6, <1>7, <1>8, <1>9, <1>10 DEF PushNext

LEMMA AgreeAtFirst == PushInit => Agree
  <1> SUFFICES ASSUME PushInit PROVE Agree
    OBVIOUS
  <1>1. ToSet(<<>>) = {} /\ IsInjective(<<>>)
    BY DEF ToSet, IsInjective
  <1>2. Ledger
    BY <1>1, PushBounds DEF PushInit, Ledger, Stored
  <1>3. ToDo /\ Others
    BY PushBounds DEF PushInit, ToDo, Others
  <1> QED
    BY <1>2, <1>3 DEF Agree

LEMMA Agreed == PushSpec => []Agree
BY AgreeAtFirst, AgreeStep, PTL DEF PushSpec

(* The rows, the two lists and the list a fan-out is at are what they are   *)
(* said to be, and the lists together name just the rows there are.         *)
THEOREM RegistrationsTyped == PushSpec => []PushTypeOK
  <1>1. ASSUME Agree PROVE PushTypeOK
    <2>1. ToSet(waiting \o served) = ToSet(waiting) \cup ToSet(served)
      BY <1>1, ConcatIs DEF Agree, Ledger
    <2>2. run # None => run.todo \in Seq(Device) /\ run.spent \in 0 .. Budget
      BY <1>1, PushBounds DEF Agree, ToDo
    <2> QED
      BY <1>1, <2>1, <2>2 DEF Agree, Ledger, Others, Stored, PushTypeOK
  <1> QED
    BY <1>1, Agreed, PTL

(* Only a service's own word about a registration ends it, and when it has  *)
(* given it MaxRefusals times in a row it does, however sends, crashes,     *)
(* changes of hands and removals are interleaved: push._failed, _prune.     *)
THEOREM RefusalsDecideAlone == PushSpec => RefusalsDecide
  <1>1. Agree => \A k \in Keys : Stored(k) => told[k] < MaxRefusals
    <2> SUFFICES ASSUME Agree, NEW k \in Keys, Stored(k) PROVE told[k] < MaxRefusals
      OBVIOUS
    <2>1. told[k] = row[k].fails /\ row[k] \in Row
      BY DEF Agree, Ledger, Stored
    <2>2. row[k].fails \in 0 .. MaxRefusals - 1
      BY <2>1, RowsAre
    <2> QED
      BY <2>1, <2>2, RowsAre
  <1>2. ASSUME Agree, [PushNext]_pushVars
        PROVE  [\A k \in Keys : Stored(k) /\ ~Stored(k)' /\ run' # run => told'[k] = MaxRefusals]_pushVars
    <2>1. CASE Work
      BY <1>2, <2>1, SendKeeps DEF Work
    <2>2. CASE ~Work
      <3>1. UNCHANGED run \/ UNCHANGED row
        BY <1>2, <2>2 DEF PushNext, pushVars, Unsubscribe, Subscribe, Removed, Prefer, Write,
                          Delete, Take, Crash
      <3> QED
        BY <3>1 DEF Stored
    <2> QED
      BY <2>1, <2>2
  <1> QED
    BY <1>1, <1>2, Agreed, PTL DEF PushSpec, RefusalsDecide

-----------------------------------------------------------------------------
(* The demo family.  While a wipe is under way, what it will delete is what *)
(* it has locked; no post that it refused to take has come into reach, and  *)
(* no one it would have stranded has, but for those who moved meanwhile.    *)
Upright ==
  /\ DemoTypeOK
  /\ op.at # "wiping" => strays = {}
  /\ op.at = "previewed" => op.rows \subseteq there
PostsOutOfReach == \A i \in RealWords(FALSE) : word[i].pod \notin marked
HomesOutOfReach ==
  \A p \in (People \cap there) \ (strays \cup marked) :
     HasHome(p, there, there) => HasHome(p, there \ marked, there \ marked)
Careful == op.at = "wiping" => op.rows = marked /\ PostsOutOfReach /\ HomesOutOfReach

LEMMA SuccessorsAre ==
  ASSUME NEW now \in People \cup {Nobody}, NEW members \in Seq(People)
  PROVE  Successor(now, members) \in People \cup {Nobody}
BY DEF Successor

(* A word is one of the old ones, or the one that was added.                *)
LEMMA WordsGrow ==
  ASSUME DemoTypeOK, NEW w \in Word, word' = Append(word, w)
  PROVE  /\ word' \in Seq(Word) /\ DOMAIN word' = (DOMAIN word) \cup {Len(word) + 1}
         /\ \A i \in DOMAIN word : word'[i] = word[i]
         /\ word'[Len(word) + 1] = w
BY DEF DemoTypeOK

(* What a change of words alone keeps: no live post of somebody real may    *)
(* come into a pod that goes.                                               *)
LEMMA WordsKeep ==
  ASSUME Upright, Careful, word' \in Seq(Word),
         UNCHANGED <<there, marked, roster, owner, op, strays, moves>>,
         \A i \in DOMAIN word' : word'[i].kept /\ word'[i].live /\ word'[i].on = 0 =>
            \/ /\ i \in DOMAIN word /\ word[i].kept /\ word[i].live /\ word[i].on = 0
               /\ word'[i].author = word[i].author /\ word'[i].pod = word[i].pod
            \/ ~Locked(word'[i].pod)
  PROVE  Upright' /\ Careful'
  <1>1. Upright'
    BY DEF Upright, DemoTypeOK
  <1>2. ASSUME op.at = "wiping" PROVE op'.rows = marked' /\ PostsOutOfReach' /\ HomesOutOfReach'
    <2>1. op.rows = marked /\ PostsOutOfReach /\ HomesOutOfReach
      BY <1>2 DEF Careful
    <2>2. PostsOutOfReach'
      BY <1>2, <2>1 DEF PostsOutOfReach, RealWords, Locked
    <2>3. HomesOutOfReach'
      BY <2>1 DEF HomesOutOfReach, HasHome, In
    <2> QED
      BY <2>1, <2>2, <2>3
  <1> QED
    BY <1>1, <1>2 DEF Careful

LEMMA FamilyWrites ==
  ASSUME Upright, Careful, NEW p \in People,
         \/ \E g \in Pods : Post(p, g)
         \/ \E i \in DOMAIN word : Reply(p, i)
  PROVE  /\ Upright' /\ Careful' /\ UNCHANGED op
         /\ \A i \in DOMAIN word : word'[i].kept = word[i].kept
  <1>1. ASSUME NEW g \in Pods, Post(p, g) PROVE Upright' /\ Careful' /\ UNCHANGED op
           /\ \A i \in DOMAIN word : word'[i].kept = word[i].kept
    <2> DEFINE w == [author |-> p, pod |-> g, on |-> 0,
                     live |-> TRUE, pictures |-> FALSE, kept |-> TRUE]
    <2>1. w \in Word /\ w.pod = g /\ word' = Append(word, w) /\ ~Locked(g)
          /\ UNCHANGED <<there, marked, roster, owner, op, strays, moves>>
      BY <1>1, DemoBounds DEF Post, Word
    <2> HIDE DEF w
    <2>2. /\ word' \in Seq(Word) /\ DOMAIN word' = (DOMAIN word) \cup {Len(word) + 1}
          /\ \A i \in DOMAIN word : word'[i] = word[i]
          /\ word'[Len(word) + 1] = w
      BY <2>1, WordsGrow DEF Upright
    <2> QED
      BY <2>1, <2>2, WordsKeep
  <1>2. ASSUME NEW i \in DOMAIN word, Reply(p, i) PROVE Upright' /\ Careful' /\ UNCHANGED op
           /\ \A j \in DOMAIN word : word'[j].kept = word[j].kept
    <2> DEFINE w == [author |-> p, pod |-> word[i].pod, on |-> i,
                     live |-> TRUE, pictures |-> FALSE, kept |-> TRUE]
    <2>0. word[i] \in Word /\ i \in 1 .. Len(word) /\ Len(word) \in Nat
      BY DEF Upright, DemoTypeOK
    <2>1. /\ w.on = i /\ word' = Append(word, w) /\ Len(word) < MaxWords
          /\ UNCHANGED <<there, marked, roster, owner, op, strays, moves>>
      BY <1>2 DEF Reply
    <2>2. i \in 0 .. MaxWords /\ i # 0
      BY <2>0, <2>1, DemoBounds
    <2>3. w \in Word
      BY <2>0, <2>2 DEF Word
    <2> HIDE DEF w
    <2>4. /\ word' \in Seq(Word) /\ DOMAIN word' = (DOMAIN word) \cup {Len(word) + 1}
          /\ \A j \in DOMAIN word : word'[j] = word[j]
          /\ word'[Len(word) + 1] = w
      BY <2>1, <2>3, WordsGrow DEF Upright
    <2> QED
      BY <2>1, <2>2, <2>4, WordsKeep
  <1> QED
    BY <1>1, <1>2

LEMMA FamilyEdits ==
  ASSUME Upright, Careful, NEW i \in DOMAIN word, Attach(i) \/ DeleteWord(i)
  PROVE  /\ Upright' /\ Careful' /\ UNCHANGED op
         /\ \A j \in DOMAIN word : word'[j].kept = word[j].kept
  <1>0. word \in Seq(Word) /\ word[i] \in Word /\ word[i].live \in BOOLEAN
        /\ word[i].pictures \in BOOLEAN /\ word[i].kept \in BOOLEAN
    <2>1. word \in Seq(Word)
      BY DEF Upright, DemoTypeOK
    <2>2. word[i] \in Word
      BY <2>1
    <2> QED
      BY <2>1, <2>2 DEF Word
  <1>1. PICK w \in Word :
          /\ word' = [word EXCEPT ![i] = w]
          /\ w.author = word[i].author /\ w.pod = word[i].pod /\ w.on = word[i].on
          /\ w.kept = word[i].kept /\ (w.live => word[i].live)
    <2>1. CASE Attach(i)
      <3> DEFINE w == [word[i] EXCEPT !.pictures = TRUE]
      <3>1. w \in Word /\ w.author = word[i].author /\ w.pod = word[i].pod /\ w.on = word[i].on
            /\ w.kept = word[i].kept /\ w.live = word[i].live
        BY <1>0 DEF Word
      <3>2. word' = [word EXCEPT ![i] = w]
        BY <2>1 DEF Attach
      <3> QED
        BY <3>1, <3>2
    <2>2. CASE DeleteWord(i)
      <3> DEFINE w == [word[i] EXCEPT !.live = FALSE, !.pictures = FALSE]
      <3>1. w \in Word /\ w.author = word[i].author /\ w.pod = word[i].pod /\ w.on = word[i].on
            /\ w.kept = word[i].kept /\ w.live = FALSE
        BY <1>0 DEF Word
      <3>2. word' = [word EXCEPT ![i] = w]
        BY <1>0, <2>2 DEF DeleteWord
      <3> QED
        BY <3>1, <3>2
    <2> QED
      BY <2>1, <2>2
  <1>2. UNCHANGED <<there, marked, roster, owner, op, strays, moves>>
    BY DEF Attach, DeleteWord
  <1>3. /\ word' \in Seq(Word) /\ DOMAIN word' = DOMAIN word /\ word'[i] = w
        /\ \A j \in DOMAIN word : j # i => word'[j] = word[j]
    BY <1>0, <1>1
  <1> QED
    BY <1>1, <1>2, <1>3, WordsKeep

(* Who moves while the wipe is under way is a stray; the others are where   *)
(* they were.                                                               *)
LEMMA RostersMove ==
  ASSUME Upright, Careful, NEW p \in People, Strays(p), UNCHANGED <<there, marked, op>>,
         roster' \in [Pods -> Seq(People)], owner' \in [Clubs -> People \cup {Nobody}],
         word' \in Seq(Word), moves' \in 0 .. MaxMoves,
         \A g \in Pods, q \in People \ {p} : q \in ToSet(roster'[g]) <=> q \in ToSet(roster[g]),
         \A i \in DOMAIN word' : word'[i].kept /\ word'[i].live /\ word'[i].on = 0 =>
            /\ i \in DOMAIN word /\ word[i].kept /\ word[i].live /\ word[i].on = 0
            /\ word'[i].author = word[i].author /\ word'[i].pod = word[i].pod
  PROVE  Upright' /\ Careful'
  <1>1. Upright'
    BY DEF Upright, DemoTypeOK, Strays
  <1>2. ASSUME op.at = "wiping" PROVE op'.rows = marked' /\ PostsOutOfReach' /\ HomesOutOfReach'
    <2>1. op.rows = marked /\ PostsOutOfReach /\ HomesOutOfReach
      BY <1>2 DEF Careful
    <2>2. PostsOutOfReach'
      BY <2>1 DEF PostsOutOfReach, RealWords
    <2>3. \A q \in People \ {p} : In(q)' = In(q)
      BY DEF In
    <2>4. HomesOutOfReach'
      <3> SUFFICES ASSUME NEW q \in (People \cap there) \ (strays' \cup marked), HasHome(q, there, there)'
                   PROVE  HasHome(q, there \ marked, there \ marked)'
        BY DEF HomesOutOfReach
      <3>1. q # p /\ q \in (People \cap there) \ (strays \cup marked)
        BY <1>2 DEF Strays
      <3>2. HasHome(q, there, there)
        BY <2>3, <3>1 DEF HasHome
      <3>3. HasHome(q, there \ marked, there \ marked)
        BY <2>1, <3>1, <3>2 DEF HomesOutOfReach
      <3> QED
        BY <2>3, <3>1, <3>3 DEF HasHome
    <2> QED
      BY <2>1, <2>2, <2>4
  <1> QED
    BY <1>1, <1>2 DEF Careful

LEMMA FamilyMoves ==
  ASSUME Upright, Careful, NEW p \in People,
         \/ \E g \in Pods : Join(p, g) \/ Leave(p, g)
         \/ Depart(p)
  PROVE  /\ Upright' /\ Careful' /\ UNCHANGED op
         /\ \A i \in DOMAIN word : word'[i].kept = word[i].kept
  <1>0. /\ roster \in [Pods -> Seq(People)] /\ owner \in [Clubs -> People \cup {Nobody}]
        /\ word \in Seq(Word) /\ Clubs \subseteq Pods
    BY PodsAssumption DEF Upright, DemoTypeOK
  <1>1. \A g \in Pods : /\ Without(roster[g], {p}) \in Seq(People)
                        /\ ToSet(Without(roster[g], {p})) = ToSet(roster[g]) \ {p}
    BY <1>0, WithoutIs
  <1>2. \A h \in Clubs : Successor(owner[h], Without(roster[h], {p})) \in People \cup {Nobody}
    BY <1>0, <1>1, SuccessorsAre
  <1>3. Move => moves' \in 0 .. MaxMoves
    BY DemoBounds DEF Move, Upright, DemoTypeOK
  <1>4. ASSUME NEW g \in Pods, Join(p, g) PROVE Upright' /\ Careful'
    <2>1. /\ roster' = [roster EXCEPT ![g] = Append(roster[g], p)]
          /\ Move /\ Strays(p) /\ UNCHANGED <<there, marked, owner, word, op>>
      BY <1>4 DEF Join
    <2>2. /\ Append(roster[g], p) \in Seq(People)
          /\ ToSet(Append(roster[g], p)) = ToSet(roster[g]) \cup {p}
      BY <1>0, AppendIs
    <2>3. /\ roster' \in [Pods -> Seq(People)]
          /\ \A h \in Pods, q \in People \ {p} : q \in ToSet(roster'[h]) <=> q \in ToSet(roster[h])
      BY <1>0, <2>1, <2>2
    <2> QED
      BY <1>0, <1>3, <2>1, <2>3, RostersMove
  <1>5. ASSUME NEW g \in Pods, Leave(p, g) PROVE Upright' /\ Careful'
    <2>1. /\ roster' = [roster EXCEPT ![g] = Without(roster[g], {p})]
          /\ owner' = [h \in Clubs |-> IF h = g THEN Successor(owner[h], Without(roster[h], {p}))
                                       ELSE owner[h]]
          /\ Move /\ Strays(p) /\ UNCHANGED <<there, marked, word, op>>
      BY <1>5 DEF Leave
    <2>2. owner' \in [Clubs -> People \cup {Nobody}]
      BY <1>0, <1>2, <2>1
    <2>3. /\ roster' \in [Pods -> Seq(People)]
          /\ \A h \in Pods, q \in People \ {p} : q \in ToSet(roster'[h]) <=> q \in ToSet(roster[h])
      BY <1>0, <1>1, <2>1
    <2> QED
      BY <1>0, <1>3, <2>1, <2>2, <2>3, RostersMove
  <1>6. ASSUME Depart(p) PROVE Upright' /\ Careful' /\ \A i \in DOMAIN word : word'[i].kept = word[i].kept
    <2>1. /\ roster' = [g \in Pods |-> Without(roster[g], {p})]
          /\ owner' = [h \in Clubs |-> Successor(owner[h], Without(roster[h], {p}))]
          /\ Move /\ Strays(p) /\ UNCHANGED <<there, marked, op>>
          /\ \/ word' = word
             \/ word' = [i \in DOMAIN word |-> IF word[i].author = p
                             THEN [word[i] EXCEPT !.live = FALSE, !.pictures = FALSE] ELSE word[i]]
      BY <1>6 DEF Depart
    <2>2. owner' \in [Clubs -> People \cup {Nobody}]
      BY <1>2, <2>1
    <2>3. /\ roster' \in [Pods -> Seq(People)]
          /\ \A h \in Pods, q \in People \ {p} : q \in ToSet(roster'[h]) <=> q \in ToSet(roster[h])
      BY <1>1, <2>1
    <2>4. \A w \in Word : LET v == [w EXCEPT !.live = FALSE, !.pictures = FALSE]
                          IN  v \in Word /\ v.kept = w.kept /\ ~v.live
      BY DEF Word
    <2>5. \A i \in DOMAIN word : word[i] \in Word
      BY <1>0
    <2>6. /\ DOMAIN word' = DOMAIN word
          /\ \A i \in DOMAIN word : /\ word'[i] \in Word /\ word'[i].kept = word[i].kept
                                    /\ word'[i] = word[i] \/ ~word'[i].live
      BY <2>1, <2>4, <2>5
    <2>7. word' \in Seq(Word)
      <3>1. CASE word' = word
        BY <1>0, <3>1
      <3>2. CASE word' # word
        <4>1. word' = [i \in DOMAIN word |-> IF word[i].author = p
                           THEN [word[i] EXCEPT !.live = FALSE, !.pictures = FALSE] ELSE word[i]]
          BY <2>1, <3>2
        <4>2. word' = [i \in DOMAIN word |-> word'[i]]
          BY <4>1
        <4>3. DOMAIN word = 1 .. Len(word) /\ Len(word) \in Nat
          BY <1>0
        <4>4. /\ word' = [i \in 1 .. Len(word) |-> word'[i]]
              /\ \A i \in 1 .. Len(word) : word'[i] \in Word
          BY <2>6, <4>2, <4>3
        <4> QED
          BY <4>3, <4>4, IsASeq
      <3> QED
        BY <3>1, <3>2
    <2>8. Upright' /\ Careful'
      BY <1>3, <2>1, <2>2, <2>3, <2>6, <2>7, RostersMove
    <2> QED
      BY <2>6, <2>8
  <1> QED
    BY <1>4, <1>5, <1>6 DEF Join, Leave, Depart

(* A pod is made on sides that stay: a home for who makes it, and for       *)
(* nobody else.                                                             *)
LEMMA PodsAreMade ==
  ASSUME Upright, Careful, NEW p \in People, NEW g \in Pods, MakePod(p, g)
  PROVE  Upright' /\ Careful' /\ UNCHANGED <<op, word>>
  <1>1. /\ p \in there /\ g \notin there /\ SidesOf[g] \subseteq there
        /\ ~Locked(p) /\ \A y \in SidesOf[g] : ~Locked(y)
        /\ there' = there \cup {g} /\ roster' = [roster EXCEPT ![g] = <<p>>]
        /\ owner' = [h \in Clubs |-> IF h = g THEN p ELSE owner[h]]
        /\ Move /\ UNCHANGED <<marked, word, op, strays>>
    BY DEF MakePod
  <1>2. /\ roster \in [Pods -> Seq(People)] /\ owner \in [Clubs -> People \cup {Nobody}]
        /\ there \subseteq People \cup Pods \cup Sides /\ marked \subseteq there
    BY DEF Upright, DemoTypeOK
  <1>3. <<p>> \in Seq(People) /\ ToSet(<<p>>) = {p}
    BY DEF ToSet
  <1>4. roster' \in [Pods -> Seq(People)] /\ owner' \in [Clubs -> People \cup {Nobody}]
    BY <1>1, <1>2, <1>3
  <1>5. moves' \in 0 .. MaxMoves
    BY <1>1, DemoBounds DEF Move, Upright, DemoTypeOK
  <1>6. Upright'
    BY <1>1, <1>2, <1>4, <1>5 DEF Upright, DemoTypeOK
  <1>7. ASSUME op.at = "wiping" PROVE op'.rows = marked' /\ PostsOutOfReach' /\ HomesOutOfReach'
    <2>1. op.rows = marked /\ PostsOutOfReach /\ HomesOutOfReach
      BY <1>7 DEF Careful
    <2>2. PostsOutOfReach'
      BY <1>1, <2>1 DEF PostsOutOfReach, RealWords
    <2>3. HomesOutOfReach'
      <3> SUFFICES ASSUME NEW q \in (People \cap there') \ (strays \cup marked),
                          NEW h \in Pods, q \in ToSet(roster'[h]), h \in there',
                          SidesOf[h] \cap there' # {}
                   PROVE  HasHome(q, there \ marked, there \ marked)'
        BY <1>1 DEF HomesOutOfReach, HasHome, In
      <3>1. q \in there
        BY <1>1, PodsAssumption
      <3>2. CASE h = g
        <4>1. g \notin marked /\ SidesOf[g] \cap marked = {} /\ SidesOf[g] # {}
          BY <1>1, <1>2, <1>7, <2>1, <3>2 DEF Locked
        <4>2. g \in In(q)' /\ g \in there' \ marked' /\ SidesOf[g] \cap (there' \ marked') # {}
          BY <1>1, <3>2, <4>1 DEF In
        <4> QED
          BY <4>2 DEF HasHome
      <3>3. CASE h # g
        <4>1. h \in there /\ roster'[h] = roster[h]
          BY <1>1, <1>2, <3>3
        <4>2. HasHome(q, there \ marked, there \ marked) \/ SidesOf[h] \cap there = {}
          BY <2>1, <3>1, <4>1 DEF HomesOutOfReach, HasHome, In
        <4>3. SidesOf[h] \cap there # {}
          BY <1>1, PodsAssumption
        <4>4. PICK f \in Pods : /\ q \in ToSet(roster[f]) /\ f \in there \ marked
                                /\ SidesOf[f] \cap (there \ marked) # {}
          BY <4>2, <4>3 DEF HasHome, In
        <4>5. f # g /\ roster'[f] = roster[f]
          BY <1>1, <1>2, <4>4
        <4> QED
          BY <1>1, <4>4, <4>5 DEF HasHome, In
      <3> QED
        BY <3>2, <3>3
    <2> QED
      BY <1>1, <2>1, <2>2, <2>3
  <1> QED
    BY <1>1, <1>6, <1>7 DEF Careful

LEMMA MarkingKeeps ==
  ASSUME Upright, Careful,
         \/ \E named \in SUBSET Sides, andDeparted \in BOOLEAN : Preview(named, andDeparted)
         \/ Stamp \/ Unmark
  PROVE  Upright' /\ Careful' /\ UNCHANGED word
  <1>1. ASSUME NEW named \in SUBSET Sides, NEW andDeparted \in BOOLEAN, Preview(named, andDeparted)
        PROVE  Upright' /\ op'.at # "wiping" /\ UNCHANGED word
    <2>1. /\ op = NoCommand /\ named \subseteq there
          /\ op' = Plan(named, andDeparted)
          /\ UNCHANGED <<there, marked, roster, owner, word, strays, moves>>
      BY <1>1 DEF Preview
    <2>2. op'.at = "previewed" /\ op'.rows = Selected(named, andDeparted)
      BY <2>1 DEF Plan
    <2>3. Selected(named, andDeparted) \subseteq there
      BY <2>1 DEF Selected, PodsWithin, Departed
    <2> QED
      BY <2>1, <2>2, <2>3 DEF Upright, DemoTypeOK, NoCommand
  <1>2. CASE Stamp
    <2>1. op' = NoCommand /\ UNCHANGED <<there, roster, owner, word, strays, moves>>
          /\ marked' \subseteq marked \cup op.rows /\ op.at = "previewed"
      BY <1>2 DEF Stamp
    <2> QED
      BY <2>1 DEF Upright, DemoTypeOK, NoCommand, Careful
  <1>3. CASE Unmark
    BY <1>3 DEF Unmark, Upright, DemoTypeOK, NoCommand, Careful
  <1> QED
    BY <1>1, <1>2, <1>3 DEF Careful

(* What is refused is out of reach when the wipe begins.                    *)
LEMMA WipeBegins == ASSUME Upright, WipeBegin PROVE Upright' /\ Careful' /\ UNCHANGED word
  <1>1. /\ op = NoCommand /\ ~Trespass /\ Stranded = {}
        /\ op' = [at |-> "wiping", rows |-> marked]
        /\ UNCHANGED <<there, marked, roster, owner, word, strays, moves>>
    BY DEF WipeBegin
  <1>2. Upright'
    BY <1>1 DEF Upright, DemoTypeOK, NoCommand
  <1>3. PostsOutOfReach'
    <2>1. \A i \in RealWords(FALSE) : ~Doomed(i)
      BY <1>1 DEF Trespass, RealWords, AlreadyDeleted
    <2> QED
      BY <1>1, <2>1 DEF PostsOutOfReach, RealWords, Doomed
  <1>4. HomesOutOfReach'
    BY <1>1 DEF HomesOutOfReach, Stranded, HasHome, SidesLeft, In
  <1> QED
    BY <1>1, <1>2, <1>3, <1>4 DEF Careful

(* What the wipe deletes.                                                   *)
LEMMA WipeEnds ==
  ASSUME Upright, Careful, WipeEnd
  PROVE  /\ Upright' /\ Careful' /\ op.at = "wiping" /\ there' = there \ marked
         /\ \A g \in Pods : g \notin marked => ToSet(roster'[g]) = ToSet(roster[g]) \ marked
         /\ \A i \in RealWords(FALSE) : word'[i].kept
  <1>1. /\ op.at = "wiping" /\ there' = there \ marked
        /\ word' = [i \in DOMAIN word |-> IF Doomed(i) THEN Purged(word[i]) ELSE word[i]]
        /\ roster' = [g \in Pods |-> IF g \in marked THEN <<>> ELSE Without(roster[g], marked)]
        /\ owner' = [g \in Clubs |->
               IF g \in marked THEN Nobody
               ELSE IF owner[g] \in marked THEN Successor(Nobody, roster'[g]) ELSE owner[g]]
        /\ marked' = {} /\ op' = NoCommand /\ strays' = {} /\ moves' = moves
    BY DEF WipeEnd
  <1>2. /\ roster \in [Pods -> Seq(People)] /\ owner \in [Clubs -> People \cup {Nobody}]
        /\ word \in Seq(Word) /\ Clubs \subseteq Pods /\ PostsOutOfReach
    BY <1>1, PodsAssumption DEF Upright, DemoTypeOK, Careful
  <1>3. \A g \in Pods : /\ Without(roster[g], marked) \in Seq(People)
                        /\ ToSet(Without(roster[g], marked)) = ToSet(roster[g]) \ marked
    BY <1>2, WithoutIs
  <1>4. roster' \in [Pods -> Seq(People)]
    <2>1. <<>> \in Seq(People)
      OBVIOUS
    <2> QED
      BY <1>1, <1>3, <2>1
  <1>5. owner' \in [Clubs -> People \cup {Nobody}]
    <2>1. \A g \in Clubs : Successor(Nobody, roster'[g]) \in People \cup {Nobody}
      BY <1>2, <1>4, SuccessorsAre
    <2> QED
      BY <1>1, <1>2, <2>1
  <1>6. \A w \in Word : Purged(w) \in Word
    BY DEF Word, Purged
  <1>7. word' \in Seq(Word)
    <2>1. DOMAIN word = 1 .. Len(word) /\ Len(word) \in Nat /\ \A i \in 1 .. Len(word) : word[i] \in Word
      BY <1>2
    <2>2. word' = [i \in 1 .. Len(word) |-> word'[i]]
      BY <1>1, <2>1
    <2>3. \A i \in 1 .. Len(word) : word'[i] \in Word
      BY <1>1, <1>6, <2>1
    <2> QED
      BY <2>1, <2>2, <2>3, IsASeq
  <1>8. \A i \in RealWords(FALSE) : word'[i].kept
    <2>1. \A i \in RealWords(FALSE) : i \in DOMAIN word /\ ~Doomed(i) /\ word[i].kept
      BY <1>2 DEF PostsOutOfReach, RealWords, Doomed
    <2> QED
      BY <1>1, <2>1
  <1>9. Upright' /\ Careful'
    BY <1>1, <1>4, <1>5, <1>7 DEF Upright, DemoTypeOK, NoCommand, Careful
  <1> QED
    BY <1>1, <1>3, <1>8, <1>9

LEMMA DemoSteps ==
  ASSUME Upright, Careful, [DemoNext]_demoVars
  PROVE  /\ Upright' /\ Careful'
         /\ \A i \in RealWords(FALSE) : word'[i].kept
         /\ op.at = "wiping" /\ op' = NoCommand => WipeEnd \/ WipeCrash
  <1> DEFINE Goal == /\ Upright' /\ Careful'
                     /\ \A i \in RealWords(FALSE) : word'[i].kept
                     /\ op.at = "wiping" /\ op' = NoCommand => WipeEnd \/ WipeCrash
  <1>0. NoCommand.at # "wiping" /\ \A i \in RealWords(FALSE) : i \in DOMAIN word /\ word[i].kept
    BY DEF NoCommand, RealWords
  <1>1. ASSUME NEW p \in People, (\E g \in Pods : Post(p, g)) \/ \E i \in DOMAIN word : Reply(p, i)
        PROVE  Goal
    BY <1>0, <1>1, FamilyWrites
  <1>2. ASSUME NEW i \in DOMAIN word, Attach(i) \/ DeleteWord(i) PROVE Goal
    BY <1>0, <1>2, FamilyEdits
  <1>3. ASSUME NEW p \in People, (\E g \in Pods : Join(p, g) \/ Leave(p, g)) \/ Depart(p) PROVE Goal
    BY <1>0, <1>3, FamilyMoves
  <1>4. ASSUME NEW p \in People, NEW g \in Pods, MakePod(p, g) PROVE Goal
    BY <1>0, <1>4, PodsAreMade
  <1>5. CASE \/ \E named \in SUBSET Sides, andDeparted \in BOOLEAN : Preview(named, andDeparted)
             \/ Stamp \/ Unmark
    <2>1. op.at # "wiping"
      BY <1>0, <1>5 DEF Preview, Stamp, Unmark
    <2>2. Upright' /\ Careful' /\ UNCHANGED word
      BY <1>5, MarkingKeeps
    <2> QED
      BY <1>0, <2>1, <2>2
  <1>6. CASE WipeBegin
    <2>1. op.at # "wiping"
      BY <1>0, <1>6 DEF WipeBegin
    <2> QED
      BY <1>0, <1>6, <2>1, WipeBegins
  <1>7. CASE WipeEnd
    BY <1>7, WipeEnds
  <1>8. CASE WipeCrash
    <2>1. /\ op' = NoCommand /\ strays' = {} /\ UNCHANGED <<there, marked, roster, owner, word, moves>>
      BY <1>8 DEF WipeCrash
    <2>2. Upright' /\ Careful'
      BY <2>1 DEF Upright, DemoTypeOK, NoCommand, Careful
    <2> QED
      BY <1>0, <1>8, <2>1, <2>2
  <1>9. CASE UNCHANGED demoVars
    <2>1. UNCHANGED <<there, marked, roster, owner, word, op, strays, moves>>
      BY <1>9 DEF demoVars
    <2>2. Upright'
      BY <2>1 DEF Upright, DemoTypeOK
    <2>3. Careful'
      BY <2>1 DEF Careful, PostsOutOfReach, HomesOutOfReach, RealWords, HasHome, In
    <2> QED
      BY <1>0, <2>1, <2>2, <2>3
  <1>10. \/ \E p \in People, g \in Pods : Post(p, g) \/ Join(p, g) \/ MakePod(p, g) \/ Leave(p, g)
         \/ \E i \in DOMAIN word : (\E p \in People : Reply(p, i)) \/ Attach(i) \/ DeleteWord(i)
         \/ \E p \in People : Depart(p)
         \/ \E named \in SUBSET Sides, andDeparted \in BOOLEAN : Preview(named, andDeparted)
         \/ Stamp \/ Unmark \/ WipeBegin \/ WipeEnd \/ WipeCrash \/ UNCHANGED demoVars
    BY DEF DemoNext
  <1>11. CASE \E p \in People, g \in Pods : Post(p, g) \/ Join(p, g) \/ MakePod(p, g) \/ Leave(p, g)
    <2>1. PICK p \in People, g \in Pods : Post(p, g) \/ Join(p, g) \/ MakePod(p, g) \/ Leave(p, g)
      BY <1>11
    <2> QED
      BY <1>1, <1>3, <1>4, <2>1
  <1>12. CASE \E i \in DOMAIN word : (\E p \in People : Reply(p, i)) \/ Attach(i) \/ DeleteWord(i)
    <2>1. PICK i \in DOMAIN word : (\E p \in People : Reply(p, i)) \/ Attach(i) \/ DeleteWord(i)
      BY <1>12
    <2> QED
      BY <1>1, <1>2, <2>1
  <1>13. CASE \E p \in People : Depart(p)
    BY <1>3, <1>13
  <1>14. Goal
    BY <1>5, <1>6, <1>7, <1>8, <1>9, <1>10, <1>11, <1>12, <1>13
  <1> QED
    BY <1>14

LEMMA CarefulHolds == DemoSpec => [](Upright /\ Careful)
  <1>1. DemoInit => Upright /\ Careful
    <2> SUFFICES ASSUME DemoInit PROVE Upright /\ Careful
      OBVIOUS
    <2>1. owner \in [Clubs -> People \cup {Nobody}]
      BY PodsAssumption DEF DemoInit
    <2>2. Upright
      BY <2>1, PodsAssumption, DemoBounds DEF DemoInit, Upright, DemoTypeOK, NoCommand
    <2> QED
      BY <2>2 DEF DemoInit, Careful, NoCommand
  <1>2. Upright /\ Careful /\ [DemoNext]_demoVars => (Upright /\ Careful)'
    BY DemoSteps
  <1> QED
    BY <1>1, <1>2, PTL DEF DemoSpec

(* Rows, rosters, owners and words are what they are said to be, and only   *)
(* what is there is marked.                                                 *)
THEOREM DemoTyped == DemoSpec => []DemoTypeOK
  <1>1. Upright => DemoTypeOK
    BY DEF Upright
  <1> QED
    BY <1>1, CarefulHolds, PTL

(* No wipe takes a live post of somebody real, though it was written after  *)
(* the wipe had looked: its pod is locked (demo_data.wipe).                 *)
THEOREM RealPostsAreLeft == DemoSpec => RealPostsStay
  <1>1. Upright /\ Careful /\ [DemoNext]_demoVars => [\A i \in RealWords(FALSE) : word'[i].kept]_demoVars
    BY DemoSteps
  <1> QED
    BY <1>1, CarefulHolds, PTL DEF DemoSpec, RealPostsStay

(* Who had a home when the wipe began, and did not move, has one when it is *)
(* over (_refuse_if_it_strands_anyone, and the locks that keep pods and     *)
(* sides from being joined to what goes).                                   *)
THEOREM HomesAreLeft == DemoSpec => HomesSurvive
  <1>1. ASSUME Upright, Careful, [DemoNext]_demoVars,
               NEW p \in (People \cap there') \ strays, HasHome(p, there, there),
               op.at = "wiping", op' = NoCommand
        PROVE  \E g \in Pods \cap there' : p \in ToSet(roster'[g]) /\ SidesOf[g] \cap there' # {}
    <2>1. CASE WipeEnd
      <3>1. /\ there' = there \ marked
            /\ \A g \in Pods : g \notin marked => ToSet(roster'[g]) = ToSet(roster[g]) \ marked
        BY <1>1, <2>1, WipeEnds
      <3>2. HasHome(p, there \ marked, there \ marked)
        BY <1>1, <3>1 DEF Careful, HomesOutOfReach
      <3>3. PICK g \in Pods : /\ p \in ToSet(roster[g]) /\ g \in there \ marked
                              /\ SidesOf[g] \cap (there \ marked) # {}
        BY <3>2 DEF HasHome, In
      <3> QED
        BY <3>1, <3>3
    <2>2. CASE WipeCrash
      <3>1. there' = there /\ roster' = roster
        BY <2>2 DEF WipeCrash
      <3> QED
        BY <1>1, <3>1 DEF HasHome, In
    <2> QED
      BY <1>1, <2>1, <2>2, DemoSteps
  <1>2. Upright /\ Careful /\ [DemoNext]_demoVars =>
          [\A p \in (People \cap there') \ strays :
              HasHome(p, there, there) /\ op.at = "wiping" /\ op' = NoCommand =>
                  \E g \in Pods \cap there' : p \in ToSet(roster'[g]) /\ SidesOf[g] \cap there' # {}]_demoVars
    BY <1>1
  <1> QED
    BY <1>2, CarefulHolds, PTL DEF DemoSpec, HomesSurvive
=============================================================================
