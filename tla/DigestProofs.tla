---------------------------- MODULE DigestProofs ----------------------------
(***************************************************************************)
(* Digest proved for any number of sides, posts, mailboxes, links, runs    *)
(* and ticks.                                                              *)
(***************************************************************************)
EXTENDS Digest, TLAPS

Open(r) == runs[r] # Nothing /\ runs[r].sending # Nothing

(* What the row locks give: one transaction at a time, and what a send has  *)
(* read stays as it was until it commits.                                   *)
Locked ==
    /\ form # Nothing => (form.locks <=> Enrolled)
    /\ \A r, s \in Runs : Open(r) /\ Open(s) => r = s
    /\ \A r \in Runs : Open(r) =>
        /\ Wanted /\ form = Nothing
        /\ runs[r].todo \in SUBSET Yards /\ runs[r].sending \in on
        /\ WindowStart(runs[r].sending) < runs[r].at

(* A maximum without an induction: the newest issue is added last.          *)
Newest ==
    /\ issues # {} => \E i \in issues : \A j \in issues : j.to <= i.to
    /\ \A y \in Yards : IssuesOf(y) # {} =>
        \E i \in IssuesOf(y) : \A j \in IssuesOf(y) : j.to <= i.to

Base == TypeOK /\ Locked /\ Newest

-----------------------------------------------------------------------------
LEMMA NothingApart ==
    /\ Nothing \notin Times /\ Nothing \notin Links
    /\ Times \subseteq Nat /\ Links \subseteq Nat
  BY NothingAssumption, BoundsAssumption DEF Times, Links

(* The newest end of a set of issues.                                       *)
LEMMA NewestEnd ==
    ASSUME NEW S, \A j \in S : j.to \in Nat, NEW i \in S, \A j \in S : j.to <= i.to
    PROVE  Max(Ends(S)) = i.to
<1>1. i.to \in Ends(S) /\ \A t \in Ends(S) : t \in Nat /\ i.to >= t
  BY DEF Ends
<1>2. \A t \in Ends(S) : (\A u \in Ends(S) : t >= u) => t = i.to
  BY <1>1
<1> QED
  BY <1>1, <1>2 DEF Max

LEMMA WindowStarts ==
    ASSUME TypeOK, Newest, Wanted, NEW y \in Yards
    PROVE  /\ WindowStart(y) \in Times
           /\ \A j \in IssuesOf(y) : j.to <= WindowStart(y)
           /\ IssuesOf(y) = {} => WindowStart(y) = sub.confirmed
           /\ IssuesOf(y) # {} => \E i \in IssuesOf(y) : WindowStart(y) = i.to
<1>1. CASE IssuesOf(y) = {}
  BY <1>1 DEF WindowStart, TypeOK, Wanted, Enrolled, Subscription, Maybe
<1>2. CASE IssuesOf(y) # {}
  <2>1. PICK i \in IssuesOf(y) : \A j \in IssuesOf(y) : j.to <= i.to
    BY <1>2 DEF Newest
  <2>2. IssuesOf(y) \subseteq issues /\ \A j \in IssuesOf(y) : j.to \in Nat
    BY NothingApart DEF IssuesOf, TypeOK, Issue
  <2>3. Max(Ends(IssuesOf(y))) = i.to
    BY <2>1, <2>2, NewestEnd
  <2>4. i.to \in Times
    BY <2>2 DEF TypeOK, Issue
  <2> QED
    BY <1>2, <2>1, <2>3, <2>4 DEF WindowStart
<1> QED
  BY <1>1, <1>2

(* While a send holds the locks, nobody else touches what it has read.      *)
LEMMA LockHolds ==
    ASSUME TypeOK, Locked, Sending,
           \/ MemberSteps \/ FamilySteps \/ NudgeRotate
           \/ \E delivered \in BOOLEAN : NudgeMail(delivered)
    PROVE  UNCHANGED <<sub, form, on>>
<1>1. ~Unlocked
  BY DEF Unlocked
<1>2. Enrolled /\ form = Nothing
  BY DEF Sending, Locked, Open, Wanted
<1>3. ASSUME MemberSteps PROVE UNCHANGED <<sub, form, on>>
  BY <1>1, <1>2, <1>3 DEF MemberSteps, Resubscribe, OpenSubscribe, CommitSubscribe,
     AbandonSubscribe, Confirm, TapAccountLink, SetEnabled, Unsubscribe
<1>4. ASSUME FamilySteps PROVE UNCHANGED <<sub, form, on>>
  BY <1>1, <1>4 DEF FamilySteps, LoseSide, Remove, GainSide, CommitPost, DeletePost, Tick
<1>5. ~NudgeRotate
  BY <1>1 DEF NudgeRotate
<1>6. ASSUME NEW delivered \in BOOLEAN, NudgeMail(delivered)
      PROVE  UNCHANGED <<sub, form, on>>
  BY <1>6 DEF NudgeMail
<1> QED
  BY <1>3, <1>4, <1>5, <1>6

(* Everybody but a run leaves the runs, the issues and the reply addresses. *)
LEMMA OthersKeepRuns ==
    ASSUME \/ MemberSteps \/ FamilySteps \/ NudgeRotate
           \/ \E delivered \in BOOLEAN : NudgeMail(delivered)
    PROVE  UNCHANGED <<runs, issues, replies, mails>>
<1>1. ASSUME MemberSteps PROVE UNCHANGED <<runs, issues, replies, mails>>
  BY <1>1 DEF MemberSteps, Resubscribe, OpenSubscribe, CommitSubscribe,
     AbandonSubscribe, Confirm, TapAccountLink, SetEnabled, Unsubscribe, inbox
<1>2. ASSUME FamilySteps PROVE UNCHANGED <<runs, issues, replies, mails>>
  BY <1>2 DEF FamilySteps, LoseSide, Remove, GainSide, CommitPost, DeletePost, Tick, inbox
<1>3. ASSUME NudgeRotate PROVE UNCHANGED <<runs, issues, replies, mails>>
  BY <1>3 DEF NudgeRotate, inbox
<1>4. ASSUME NEW delivered \in BOOLEAN, NudgeMail(delivered)
      PROVE  UNCHANGED <<runs, issues, replies, mails>>
  BY <1>4 DEF NudgeMail
<1> QED
  BY <1>1, <1>2, <1>3, <1>4

-----------------------------------------------------------------------------
(* Types.                                                                   *)

LEMMA ActTypes ==
    ASSUME TypeOK, Act
    PROVE  acts' \in 0 .. MaxActs
  BY BoundsAssumption DEF TypeOK, Act

LEMMA ConfirmedForTypes ==
    ASSUME TypeOK, NEW a \in Addresses
    PROVE  ConfirmedFor(a) \in Maybe(Times)
<1>1. Enrolled => sub.confirmed \in Maybe(Times)
  BY DEF TypeOK, Maybe, Enrolled, Subscription
<1> QED
  BY <1>1 DEF ConfirmedFor, TypeOK, Maybe

LEMMA MemberTypes ==
    ASSUME TypeOK, MemberSteps
    PROVE  TypeOK'
<1> USE DEF inbox
<1>a. sub # Nothing => sub \in Subscription
  BY DEF TypeOK, Maybe
<1>1. ASSUME NEW a \in Addresses, Resubscribe(a) PROVE TypeOK'
  BY <1>a, <1>1, ActTypes DEF TypeOK, Resubscribe, Enrolled, Subscription, Maybe
<1>2. ASSUME NEW a \in Addresses, NEW b \in BOOLEAN, OpenSubscribe(a, b) PROVE TypeOK'
  <2>1. form' \in Form
    BY <1>2, ConfirmedForTypes DEF OpenSubscribe, Form, Enrolled
  <2> QED
    BY <1>2, <2>1, ActTypes DEF TypeOK, OpenSubscribe, Maybe
<1>3. ASSUME CommitSubscribe PROVE TypeOK'
  <2>1. PICK confirm \in Fresh : \E stop \in Draws(Known \cup {confirm}) :
            /\ sub' = [address |-> form.address, enabled |-> TRUE,
                       confirmed |-> form.confirmed,
                       confirm |-> IF form.own THEN Nothing ELSE confirm,
                       stop |-> stop]
            /\ letters' = IF form.own THEN letters
                                      ELSE letters \cup {<<form.address, confirm>>}
    BY <1>3 DEF CommitSubscribe
  <2>2. confirm \in Links /\ \A known : Draws(known) \subseteq Links
    BY DEF Fresh, Draws
  <2>3. form \in Form
    BY <1>3 DEF CommitSubscribe, TypeOK, Maybe
  <2>4. sub' \in Subscription
    BY <2>1, <2>2, <2>3 DEF Subscription, Form, Maybe
  <2>5. letters' \subseteq Addresses \X Links
    BY <2>1, <2>2, <2>3 DEF Form, TypeOK
  <2> QED
    BY <1>3, <2>4, <2>5 DEF TypeOK, CommitSubscribe, Maybe
<1>4. ASSUME AbandonSubscribe PROVE TypeOK'
  BY <1>4 DEF TypeOK, AbandonSubscribe, Maybe
<1>5. ASSUME NEW a \in Addresses, NEW link \in Links, Confirm(a, link) PROVE TypeOK'
  BY <1>a, <1>5 DEF TypeOK, Confirm, Enrolled, Subscription, Maybe
<1>6. ASSUME TapAccountLink PROVE TypeOK'
  BY <1>a, <1>6, OwnAssumption
     DEF TypeOK, TapAccountLink, ReceiverMatches, Enrolled, Subscription, Maybe
<1>7. ASSUME NEW b \in BOOLEAN, SetEnabled(b) PROVE TypeOK'
  BY <1>a, <1>7, ActTypes DEF TypeOK, SetEnabled, Enrolled, Subscription, Maybe
<1>8. ASSUME NEW link \in Links, Unsubscribe(link) PROVE TypeOK'
  BY <1>a, <1>8 DEF TypeOK, Unsubscribe, Enrolled, Subscription, Maybe
<1> QED
  BY <1>1, <1>2, <1>3, <1>4, <1>5, <1>6, <1>7, <1>8 DEF MemberSteps

LEMMA VoidedTypes ==
    ASSUME TypeOK, Enrolled
    PROVE  Voided \in Subscription /\ [Voided EXCEPT !.enabled = FALSE] \in Subscription
<1>1. sub \in Subscription
  BY DEF TypeOK, Maybe, Enrolled
<1> QED
  BY <1>1 DEF Voided, Subscription, Maybe

LEMMA FamilyTypes ==
    ASSUME TypeOK, FamilySteps
    PROVE  TypeOK'
<1> USE DEF inbox
<1>1. ASSUME NEW y \in Yards, LoseSide(y) PROVE TypeOK'
  BY <1>1, VoidedTypes, ActTypes DEF TypeOK, LoseSide, Maybe
<1>2. ASSUME NEW y \in Yards, GainSide(y) PROVE TypeOK'
  BY <1>2, ActTypes DEF TypeOK, GainSide
<1>3. ASSUME Remove PROVE TypeOK'
  BY <1>3, VoidedTypes, ActTypes DEF TypeOK, Remove, Maybe
<1>4. ASSUME NEW p \in Posts, NEW yards \in SUBSET Yards, NEW at \in Times,
             CommitPost(p, yards, at)
      PROVE  TypeOK'
  <2>1. [yards |-> yards, at |-> at, late |-> at # now, down |-> FALSE] \in Post
    BY DEF Post
  <2>2. posts' \in [Posts -> Maybe(Post)]
    BY <1>4, <2>1 DEF CommitPost, TypeOK, Maybe
  <2> QED
    BY <1>4, <2>2 DEF TypeOK, CommitPost
<1>5. ASSUME NEW p \in Posts, DeletePost(p) PROVE TypeOK'
  <2>1. posts[p] \in Post
    BY <1>5 DEF DeletePost, TypeOK, Maybe
  <2>2. [posts[p] EXCEPT !.down = TRUE] \in Post
    BY <2>1 DEF Post
  <2>3. posts' \in [Posts -> Maybe(Post)]
    BY <1>5, <2>2 DEF DeletePost, TypeOK, Maybe
  <2> QED
    BY <1>5, <2>3 DEF TypeOK, DeletePost
<1>6. ASSUME Tick PROVE TypeOK'
  BY <1>6, BoundsAssumption DEF TypeOK, Tick, Times
<1> QED
  BY <1>1, <1>2, <1>3, <1>4, <1>5, <1>6 DEF FamilySteps

LEMMA NudgeTypes ==
    ASSUME TypeOK, NudgeRotate \/ \E delivered \in BOOLEAN : NudgeMail(delivered)
    PROVE  TypeOK'
<1> USE DEF inbox
<1>1. ASSUME NudgeRotate PROVE TypeOK'
  <2>1. sub \in Subscription /\ Fresh \subseteq Links
    BY <1>1 DEF NudgeRotate, Wanted, Enrolled, TypeOK, Maybe, Fresh, Draws
  <2> QED
    BY <1>1, <2>1, ActTypes DEF TypeOK, NudgeRotate, Subscription, Maybe
<1>2. ASSUME NEW delivered \in BOOLEAN, NudgeMail(delivered) PROVE TypeOK'
  BY <1>2 DEF TypeOK, NudgeMail, Maybe
<1> QED
  BY <1>1, <1>2

(* What a run's own steps write in its slot.                                *)
LEMMA SlotTypes ==
    ASSUME TypeOK, NEW r \in Runs, NEW q \in Maybe(Run), runs' = [runs EXCEPT ![r] = q]
    PROVE  /\ runs' \in [Runs -> Maybe(Run)]
           /\ runs'[r] = q /\ \A s \in Runs \ {r} : runs'[s] = runs[s]
  BY DEF TypeOK

LEMMA DoneWrites ==
    ASSUME TypeOK, Locked, NEW r \in Runs, Open(r), NEW raw \in Maybe(Links), Done(r, raw)
    PROVE  /\ runs' \in [Runs -> Maybe(Run)]
           /\ \A s \in Runs \ {r} : runs'[s] = runs[s]
           /\ runs'[r].at = runs[r].at /\ runs'[r].raw = raw
           /\ runs'[r].sending = Nothing
           /\ \A s \in Runs : ~Open(s)'
<1>1. runs[r] \in Run /\ runs[r].todo \in SUBSET Yards
  BY DEF TypeOK, Maybe, Locked, Open
<1> DEFINE q == [runs[r] EXCEPT !.todo = @ \ {runs[r].sending},
                                !.sending = Nothing, !.raw = raw]
<1>2. q \in Run /\ q.at = runs[r].at /\ q.raw = raw /\ q.sending = Nothing
  BY <1>1 DEF Run, Maybe
<1>3. runs' = [runs EXCEPT ![r] = q]
  BY DEF Done
<1>4. /\ runs' \in [Runs -> Maybe(Run)]
      /\ runs'[r] = q /\ \A s \in Runs \ {r} : runs'[s] = runs[s]
  BY <1>2, <1>3, SlotTypes DEF Maybe
<1>5. \A s \in Runs \ {r} : ~Open(s)
  BY DEF Locked
<1>6. \A s \in Runs \ {r} : ~Open(s)'
  BY <1>4, <1>5 DEF Open
<1>7. ~Open(r)'
  BY <1>2, <1>4 DEF Open
<1> QED
  BY <1>2, <1>4, <1>6, <1>7

LEMMA StopLinkTypes ==
    ASSUME TypeOK, NEW r \in Runs, runs[r] # Nothing
    PROVE  StopLinks(r) \subseteq Links
<1>1. runs[r] \in Run
  BY DEF TypeOK, Maybe
<1> QED
  BY <1>1 DEF StopLinks, Fresh, Draws, Run, Maybe

(* The window a send is about.                                              *)
LEMMA SendTypes ==
    ASSUME Base, NEW r \in Runs, Open(r)
    PROVE  /\ runs[r] \in Run /\ runs[r].sending \in Yards /\ sub \in Subscription
           /\ WindowStart(runs[r].sending) \in Times /\ runs[r].at \in Times
           /\ WindowStart(runs[r].sending) < runs[r].at
           /\ runs[r].raw \in Maybe(Links) /\ StopLinks(r) \subseteq Links
           /\ WindowPosts(runs[r].sending, runs[r].at) \subseteq Posts
           /\ \A refused \in BOOLEAN : NewIssue(r, refused) \in Issue
           /\ \A link \in Links, kept \in BOOLEAN :
                NewMail(r, WindowPosts(runs[r].sending, runs[r].at), link, kept) \in Mail
<1>1. runs[r] \in Run /\ Wanted /\ runs[r].sending # Nothing
  BY DEF Base, TypeOK, Maybe, Locked, Open
<1>2. runs[r].sending \in Yards /\ runs[r].at \in Times /\ runs[r].raw \in Maybe(Links)
  BY <1>1 DEF Run, Maybe
<1>3. sub \in Subscription
  BY <1>1 DEF Base, TypeOK, Maybe, Wanted, Enrolled
<1>4. WindowStart(runs[r].sending) \in Times
  BY <1>1, <1>2, WindowStarts DEF Base
<1>5. WindowStart(runs[r].sending) < runs[r].at
  BY DEF Base, Locked
<1>6. StopLinks(r) \subseteq Links
  BY StopLinkTypes DEF Base, Open
<1>7. WindowPosts(runs[r].sending, runs[r].at) \subseteq Posts
  BY DEF WindowPosts
<1>8. ASSUME NEW refused \in BOOLEAN PROVE NewIssue(r, refused) \in Issue
  BY <1>2, <1>4 DEF NewIssue, Issue
<1>9. ASSUME NEW link \in Links, NEW kept \in BOOLEAN
      PROVE  NewMail(r, WindowPosts(runs[r].sending, runs[r].at), link, kept) \in Mail
  BY <1>2, <1>4, <1>7 DEF NewMail, Mail
<1> QED
  BY <1>1, <1>2, <1>3, <1>4, <1>5, <1>6, <1>7, <1>8, <1>9

LEMMA RunTypes ==
    ASSUME Base, NEW r \in Runs, RunSteps(r)
    PROVE  TypeOK'
<1> USE DEF inbox
<1>a. ASSUME NEW q \in Maybe(Run), runs' = [runs EXCEPT ![r] = q]
      PROVE  runs' \in [Runs -> Maybe(Run)]
  BY <1>a, SlotTypes DEF Base
<1>b. ASSUME NEW raw \in Maybe(Links), Open(r), Done(r, raw)
      PROVE  runs' \in [Runs -> Maybe(Run)]
  BY <1>b, DoneWrites DEF Base
<1>c. runs[r] # Nothing => runs[r] \in Run
  BY DEF Base, TypeOK, Maybe
<1>1. ASSUME StartRun(r) PROVE TypeOK'
  <2>1. [at |-> now, todo |-> Nothing, raw |-> Nothing, sending |-> Nothing] \in Run
    BY DEF Base, TypeOK, Run, Maybe
  <2>2. runs' \in [Runs -> Maybe(Run)]
    BY <1>1, <1>a, <2>1 DEF StartRun, Maybe
  <2> QED
    BY <1>1, <2>2 DEF Base, TypeOK, StartRun
<1>2. ASSUME ListYards(r) PROVE TypeOK'
  <2>1. [runs[r] EXCEPT !.todo = on] \in Run
    BY <1>2, <1>c DEF ListYards, Base, TypeOK, Run, Maybe
  <2>2. runs' \in [Runs -> Maybe(Run)]
    BY <1>2, <1>a, <2>1 DEF ListYards, Maybe
  <2> QED
    BY <1>2, <2>2 DEF Base, TypeOK, ListYards
<1>3. ASSUME NEW y \in Yards, Skip(r, y) PROVE TypeOK'
  <2>1. runs[r] \in Run /\ runs[r].todo \in SUBSET Yards
    BY <1>3, <1>c DEF Skip, Turn, Run, Maybe
  <2>2. [runs[r] EXCEPT !.todo = @ \ {y}] \in Run
    BY <2>1 DEF Run, Maybe
  <2>3. runs' \in [Runs -> Maybe(Run)]
    BY <1>3, <1>a, <2>2 DEF Skip, Maybe
  <2> QED
    BY <1>3, <2>3 DEF Base, TypeOK, Skip
<1>4. ASSUME NEW y \in Yards, Look(r, y) PROVE TypeOK'
  <2>1. [runs[r] EXCEPT !.sending = y] \in Run
    BY <1>4, <1>c DEF Look, Turn, Run, Maybe
  <2>2. runs' \in [Runs -> Maybe(Run)]
    BY <1>4, <1>a, <2>1 DEF Look, Maybe
  <2> QED
    BY <1>4, <2>2 DEF Base, TypeOK, Look
<1>5. ASSUME FindEmpty(r) \/ Crash(r) PROVE TypeOK'
  <2>1. Open(r) /\ Done(r, runs[r].raw)
    BY <1>5 DEF FindEmpty, Crash, Open
  <2>2. runs' \in [Runs -> Maybe(Run)]
    BY <2>1, <1>b, SendTypes
  <2> QED
    BY <1>5, <2>2 DEF Base, TypeOK, FindEmpty, Crash
<1>6. ASSUME Deliver(r) PROVE TypeOK'
  <2>1. Open(r)
    BY <1>6 DEF Deliver, Open
  <2> DEFINE y == runs[r].sending
             built == WindowPosts(y, runs[r].at)
  <2>2. PICK link \in StopLinks(r) :
            /\ sub' = IF runs[r].raw = Nothing THEN [sub EXCEPT !.stop = link]
                                               ELSE sub
            /\ mails' = mails \cup {NewMail(r, built, link, TRUE)}
            /\ held' = held \cup {link}
            /\ lastLink' = IF sub'.stop = link THEN link ELSE lastLink
            /\ Done(r, link)
    BY <1>6 DEF Deliver
  <2>3. link \in Links /\ y \in Yards /\ WindowStart(y) \in Times
    BY <2>1, SendTypes
  <2>4. sub' \in Subscription
    BY <2>1, <2>2, <2>3, SendTypes DEF Subscription, Maybe
  <2>5. runs' \in [Runs -> Maybe(Run)]
    BY <2>1, <2>2, <2>3, <1>b DEF Maybe
  <2>6. mails' \subseteq Mail
    BY <2>1, <2>2, <2>3, SendTypes DEF Base, TypeOK
  <2>7. issues' \subseteq Issue
    BY <1>6, <2>1, SendTypes DEF Deliver, Base, TypeOK
  <2>8. replies' \in [Yards -> Maybe(Times)]
    BY <1>6, <2>3 DEF Deliver, Base, TypeOK, Maybe
  <2>9. held' \subseteq Links /\ lastLink' \in Maybe(Links)
    BY <2>2, <2>3 DEF Base, TypeOK, Maybe
  <2> QED
    BY <1>6, <2>4, <2>5, <2>6, <2>7, <2>8, <2>9 DEF Deliver, Base, TypeOK, Maybe
<1>7. ASSUME Refuse(r) PROVE TypeOK'
  <2>1. Open(r) /\ Done(r, runs[r].raw)
    BY <1>7 DEF Refuse, RecordRefusal, Open
  <2>2. runs' \in [Runs -> Maybe(Run)]
    BY <2>1, <1>b, SendTypes
  <2>3. issues' \subseteq Issue
    BY <1>7, <2>1, SendTypes DEF Refuse, RecordRefusal, Base, TypeOK
  <2> QED
    BY <1>7, <2>2, <2>3 DEF Base, TypeOK, Refuse, RecordRefusal
<1>8. ASSUME LoseCommit(r) PROVE TypeOK'
  <2>1. Open(r) /\ Done(r, runs[r].raw)
    BY <1>8 DEF LoseCommit, Open
  <2>2. runs' \in [Runs -> Maybe(Run)]
    BY <2>1, <1>b, SendTypes
  <2>3. mails' \subseteq Mail /\ held' \subseteq Links
    BY <1>8, <2>1, SendTypes DEF LoseCommit, Base, TypeOK
  <2> QED
    BY <1>8, <2>2, <2>3, ActTypes DEF Base, TypeOK, LoseCommit
<1>9. ASSUME EndRun(r) PROVE TypeOK'
  <2>1. runs' \in [Runs -> Maybe(Run)]
    BY <1>9, <1>a DEF EndRun, Maybe
  <2> QED
    BY <1>9, <2>1 DEF Base, TypeOK, EndRun
<1> QED
  BY <1>1, <1>2, <1>3, <1>4, <1>5, <1>6, <1>7, <1>8, <1>9 DEF RunSteps

-----------------------------------------------------------------------------
(* The locks.                                                               *)

LEMMA SameWindows ==
    ASSUME UNCHANGED issues, sub'.confirmed = sub.confirmed
    PROVE  \A y : IssuesOf(y)' = IssuesOf(y) /\ WindowStart(y)' = WindowStart(y)
<1>1. \A y : IssuesOf(y)' = IssuesOf(y)
  BY DEF IssuesOf
<1> QED
  BY <1>1 DEF WindowStart

(* A row once made stays; only a commit makes one.                          *)
LEMMA RowsStay ==
    ASSUME TypeOK, Locked,
           \/ MemberSteps \/ FamilySteps \/ NudgeRotate
           \/ \E delivered \in BOOLEAN : NudgeMail(delivered)
    PROVE  form' # Nothing => (form'.locks <=> Enrolled')
<1>a. Enrolled => sub \in Subscription
  BY DEF TypeOK, Maybe, Enrolled
<1>b. Nothing \notin Subscription
  BY RowsAssumption
<1>1. ASSUME NEW a \in Addresses, Resubscribe(a) PROVE form' = Nothing
  BY <1>1 DEF Resubscribe
<1>2. ASSUME NEW a \in Addresses, NEW b \in BOOLEAN, OpenSubscribe(a, b)
      PROVE  form'.locks <=> Enrolled'
  BY <1>2 DEF OpenSubscribe, Enrolled
<1>3. ASSUME CommitSubscribe \/ AbandonSubscribe PROVE form' = Nothing
  BY <1>3 DEF CommitSubscribe, AbandonSubscribe
<1>4. ASSUME \/ \E a \in Addresses, link \in Links : Confirm(a, link)
             \/ TapAccountLink
             \/ \E b \in BOOLEAN : SetEnabled(b)
             \/ \E link \in Links : Unsubscribe(link)
      PROVE  form' = form /\ (Enrolled' <=> Enrolled)
  <2>1. form' = form
    BY <1>4 DEF Confirm, TapAccountLink, SetEnabled, Unsubscribe
  <2>2. CASE UNCHANGED sub
    BY <2>1, <2>2 DEF Enrolled
  <2>3. CASE sub' # sub
    <3>1. Enrolled
      BY <1>4, <2>3 DEF Confirm, TapAccountLink, ReceiverMatches, SetEnabled, Unsubscribe
    <3>2. now \in Times
      BY DEF TypeOK
    <3>3. [sub EXCEPT !.confirmed = now, !.confirm = Nothing] \in Subscription
      BY <1>a, <3>1, <3>2 DEF Subscription, Maybe
    <3>4. \A t \in BOOLEAN : [sub EXCEPT !.enabled = t] \in Subscription
      BY <1>a, <3>1 DEF Subscription
    <3>5. sub' \in Subscription
      BY <1>4, <2>3, <3>3, <3>4
         DEF Confirm, TapAccountLink, ReceiverMatches, SetEnabled, Unsubscribe
    <3> QED
      BY <1>b, <2>1, <3>1, <3>5 DEF Enrolled
  <2> QED
    BY <2>2, <2>3
<1>5. ASSUME FamilySteps PROVE form' = form /\ (Enrolled' <=> Enrolled)
  <2>1. form' = form
    BY <1>5 DEF FamilySteps, LoseSide, Remove, GainSide, CommitPost, DeletePost, Tick
  <2>2. sub' = sub \/ (Enrolled /\ sub' \in {Voided, [Voided EXCEPT !.enabled = FALSE]})
    BY <1>5 DEF FamilySteps, LoseSide, Remove, GainSide, CommitPost, DeletePost, Tick
  <2> QED
    BY <1>b, <2>1, <2>2, VoidedTypes DEF Enrolled
<1>6. ASSUME NudgeRotate PROVE form' = form /\ (Enrolled' <=> Enrolled)
  <2>1. PICK link \in Fresh : sub' = [sub EXCEPT !.stop = link]
    BY <1>6 DEF NudgeRotate
  <2>2. Enrolled /\ link \in Links
    BY <1>6, <2>1 DEF NudgeRotate, Wanted, Fresh, Draws
  <2>3. sub' \in Subscription
    BY <1>a, <2>1, <2>2 DEF Subscription, Maybe
  <2> QED
    BY <1>6, <1>b, <2>2, <2>3 DEF NudgeRotate, Enrolled
<1>7. ASSUME NEW delivered \in BOOLEAN, NudgeMail(delivered)
      PROVE  form' = form /\ (Enrolled' <=> Enrolled)
  BY <1>7 DEF NudgeMail, Enrolled
<1>8. form' = Nothing \/ (form'.locks <=> Enrolled') \/ (form' = form /\ (Enrolled' <=> Enrolled))
  BY <1>1, <1>2, <1>3, <1>4, <1>5, <1>6, <1>7 DEF MemberSteps
<1> QED
  BY <1>8 DEF Locked

LEMMA OthersLocked ==
    ASSUME TypeOK, Locked,
           \/ MemberSteps \/ FamilySteps \/ NudgeRotate
           \/ \E delivered \in BOOLEAN : NudgeMail(delivered)
    PROVE  Locked'
<1>1. UNCHANGED <<runs, issues>>
  BY OthersKeepRuns
<1>2. form' # Nothing => (form'.locks <=> Enrolled')
  BY RowsStay
<1>3. \A s \in Runs : Open(s)' <=> Open(s)
  BY <1>1 DEF Open
<1>4. ASSUME NEW s \in Runs, Open(s)
      PROVE  /\ Wanted' /\ form' = Nothing
             /\ runs'[s].todo \in SUBSET Yards /\ runs'[s].sending \in on'
             /\ WindowStart(runs[s].sending)' < runs'[s].at
  <2>1. UNCHANGED <<sub, form, on>>
    BY <1>4, LockHolds DEF Sending, Open
  <2>2. WindowStart(runs[s].sending)' = WindowStart(runs[s].sending)
    BY <1>1, <2>1, SameWindows
  <2> QED
    BY <1>1, <1>4, <2>1, <2>2 DEF Locked, Wanted, Enrolled
<1> QED
  BY <1>1, <1>2, <1>3, <1>4 DEF Locked

(* A run's step leaves the row where it was, a new link at most.            *)
LEMMA RunsKeepRow ==
    ASSUME Base, NEW r \in Runs, RunSteps(r)
    PROVE  /\ UNCHANGED <<now, verified, form, on, posts, nudge, letters, proven>>
           /\ \/ UNCHANGED sub
              \/ \E link \in Links : sub \in Subscription /\ sub' = [sub EXCEPT !.stop = link]
           /\ Enrolled' <=> Enrolled
<1> USE DEF inbox
<1>1. CASE Deliver(r)
  <2>1. Open(r)
    BY <1>1 DEF Deliver, Open
  <2>2. PICK link \in StopLinks(r) :
            sub' = IF runs[r].raw = Nothing THEN [sub EXCEPT !.stop = link] ELSE sub
    BY <1>1 DEF Deliver
  <2>3. link \in Links /\ sub \in Subscription
    BY <2>1, SendTypes
  <2>4. sub' \in Subscription
    BY <2>2, <2>3 DEF Subscription, Maybe
  <2> QED
    BY <1>1, <2>2, <2>3, <2>4, RowsAssumption DEF Deliver, Enrolled
<1>2. CASE ~Deliver(r)
  BY <1>2 DEF RunSteps, StartRun, ListYards, Skip, Look, FindEmpty, Refuse, RecordRefusal,
     Crash, LoseCommit, EndRun, Enrolled
<1> QED
  BY <1>1, <1>2

LEMMA RunLocked ==
    ASSUME Base, NEW r \in Runs, RunSteps(r)
    PROVE  Locked'
<1>a. TypeOK /\ Locked
  BY DEF Base
<1>b. form' # Nothing => (form'.locks <=> Enrolled')
  BY <1>a, RunsKeepRow DEF Locked
<1>c. ASSUME \A s \in Runs : ~Open(s)' PROVE Locked'
  BY <1>b, <1>c DEF Locked
<1>d. ASSUME UNCHANGED <<sub, issues>>,
             \A s \in Runs : Open(s)' =>
                /\ Open(s) /\ runs'[s].todo \in SUBSET Yards
                /\ runs'[s].sending = runs[s].sending /\ runs'[s].at = runs[s].at
      PROVE  Locked'
  <2>1. \A s \in Runs : Open(s)' =>
            WindowStart(runs[s].sending)' = WindowStart(runs[s].sending)
    BY <1>d, SameWindows
  <2>2. Wanted' <=> Wanted
    BY <1>d DEF Wanted, Enrolled
  <2>3. UNCHANGED <<form, on>>
    BY RunsKeepRow
  <2>4. \A s \in Runs : Open(s)' =>
            /\ Wanted' /\ form' = Nothing
            /\ runs'[s].todo \in SUBSET Yards /\ runs'[s].sending \in on'
            /\ WindowStart(runs[s].sending)' < runs'[s].at
    BY <1>a, <1>d, <2>1, <2>2, <2>3 DEF Locked
  <2>5. \A s, t \in Runs : Open(s)' /\ Open(t)' => s = t
    BY <1>a, <1>d DEF Locked
  <2> QED
    BY <1>b, <2>4, <2>5 DEF Locked
<1>e. ASSUME NEW q \in Maybe(Run), runs' = [runs EXCEPT ![r] = q], UNCHANGED <<sub, issues>>,
             q = Nothing \/ q.sending = Nothing
      PROVE  Locked'
  <2>1. runs'[r] = q /\ \A s \in Runs \ {r} : runs'[s] = runs[s]
    BY <1>a, <1>e, SlotTypes
  <2>2. ~Open(r)'
    BY <1>e, <2>1 DEF Open
  <2>3. \A s \in Runs : Open(s)' => Open(s) /\ runs'[s] = runs[s]
    BY <2>1, <2>2 DEF Open
  <2> QED
    BY <1>a, <1>d, <1>e, <2>3 DEF Locked
<1>f. runs[r] # Nothing => runs[r] \in Run
  BY <1>a DEF TypeOK, Maybe
<1>1. ASSUME StartRun(r) PROVE Locked'
  <2> DEFINE q == [at |-> now, todo |-> Nothing, raw |-> Nothing, sending |-> Nothing]
  <2>1. q \in Maybe(Run) /\ q.sending = Nothing
    BY <1>a DEF TypeOK, Run, Maybe
  <2>2. runs' = [runs EXCEPT ![r] = q] /\ UNCHANGED <<sub, issues>>
    BY <1>1 DEF StartRun
  <2> QED
    BY <1>e, <2>1, <2>2
<1>2. ASSUME ListYards(r) PROVE Locked'
  <2> DEFINE q == [runs[r] EXCEPT !.todo = on]
  <2>1. /\ q \in Maybe(Run) /\ q.todo \in SUBSET Yards
        /\ q.sending = runs[r].sending /\ q.at = runs[r].at
    BY <1>2, <1>a, <1>f DEF ListYards, TypeOK, Run, Maybe
  <2>2. runs' = [runs EXCEPT ![r] = q] /\ UNCHANGED <<sub, issues>> /\ runs[r] # Nothing
    BY <1>2 DEF ListYards
  <2>3. runs'[r] = q /\ \A s \in Runs \ {r} : runs'[s] = runs[s]
    BY <1>a, <2>1, <2>2, SlotTypes
  <2>4. Open(r)' => Open(r)
    BY <2>1, <2>2, <2>3 DEF Open
  <2>5. \A s \in Runs \ {r} : Open(s)' => Open(s) /\ runs[s].todo \in SUBSET Yards
    BY <1>a, <2>3 DEF Open, Locked
  <2> QED
    BY <1>d, <2>1, <2>2, <2>3, <2>4, <2>5
<1>3. ASSUME NEW y \in Yards, Skip(r, y) PROVE Locked'
  <2> DEFINE q == [runs[r] EXCEPT !.todo = @ \ {y}]
  <2>1. runs[r] \in Run /\ runs[r].todo \in SUBSET Yards /\ runs[r].sending = Nothing
    BY <1>3, <1>f DEF Skip, Turn, Run, Maybe
  <2>2. q \in Maybe(Run) /\ q.sending = Nothing
    BY <2>1 DEF Run, Maybe
  <2>3. runs' = [runs EXCEPT ![r] = q] /\ UNCHANGED <<sub, issues>>
    BY <1>3 DEF Skip
  <2> QED
    BY <1>e, <2>2, <2>3
<1>4. ASSUME NEW y \in Yards, Look(r, y) PROVE Locked'
  <2> DEFINE q == [runs[r] EXCEPT !.sending = y]
  <2>1. runs[r] \in Run /\ runs[r].todo \in SUBSET Yards
    BY <1>4, <1>f DEF Look, Turn, Run, Maybe
  <2>2. /\ q \in Maybe(Run) /\ q.sending = y
        /\ q.todo = runs[r].todo /\ q.at = runs[r].at
    BY <2>1 DEF Run, Maybe
  <2>3. runs' = [runs EXCEPT ![r] = q] /\ UNCHANGED <<sub, issues, form, on>>
    BY <1>4 DEF Look
  <2>4. runs'[r] = q /\ \A s \in Runs \ {r} : runs'[s] = runs[s]
    BY <1>a, <2>2, <2>3, SlotTypes
  <2> HIDE DEF q
  <2>5. Unlocked /\ Wanted /\ y \in on /\ WindowStart(y) < runs[r].at
    BY <1>4 DEF Look, Turn, Worth
  <2>6. \A s \in Runs : ~Open(s)
    BY <2>5 DEF Unlocked, Sending, Open
  <2>7. \A s \in Runs : Open(s)' => s = r
    BY <2>4, <2>6 DEF Open
  <2>8. form = Nothing
    BY <1>a, <2>5 DEF Unlocked, Locked, Wanted
  <2>9. Wanted' /\ WindowStart(runs[r].sending)' < runs'[r].at
    <3>1. \A x : WindowStart(x)' = WindowStart(x)
      BY <2>3, SameWindows
    <3>2. WindowStart(runs[r].sending)' = WindowStart(y)
      BY <2>2, <2>4, <3>1
    <3> QED
      BY <2>2, <2>3, <2>4, <2>5, <3>2 DEF Wanted, Enrolled
  <2>10. /\ runs'[r].todo \in SUBSET Yards /\ runs'[r].sending \in on'
    BY <2>1, <2>2, <2>3, <2>4, <2>5
  <2>11. \A s \in Runs : Open(s)' =>
            /\ Wanted' /\ form' = Nothing
            /\ runs'[s].todo \in SUBSET Yards /\ runs'[s].sending \in on'
            /\ WindowStart(runs[s].sending)' < runs'[s].at
    BY ONLY <2>3, <2>7, <2>8, <2>9, <2>10
  <2>12. \A s, t \in Runs : Open(s)' /\ Open(t)' => s = t
    BY <2>7
  <2> QED
    BY <1>b, <2>11, <2>12 DEF Locked
<1>5. ASSUME FindEmpty(r) \/ Crash(r) \/ Refuse(r) \/ LoseCommit(r) PROVE Locked'
  <2>1. Open(r) /\ Done(r, runs[r].raw)
    BY <1>5 DEF FindEmpty, Crash, Refuse, RecordRefusal, LoseCommit, Open
  <2> QED
    BY <1>a, <1>c, <2>1, SendTypes, DoneWrites
<1>6. ASSUME Deliver(r) PROVE Locked'
  <2>1. Open(r) /\ \E link \in StopLinks(r) : Done(r, link)
    BY <1>6 DEF Deliver, Open
  <2>2. \E link \in Maybe(Links) : Done(r, link)
    BY <2>1, SendTypes DEF Maybe
  <2> QED
    BY <1>a, <1>c, <2>1, <2>2, DoneWrites
<1>7. ASSUME EndRun(r) PROVE Locked'
  <2>1. Nothing \in Maybe(Run) /\ runs' = [runs EXCEPT ![r] = Nothing] /\ UNCHANGED <<sub, issues>>
    BY <1>7 DEF EndRun, Maybe
  <2> QED
    BY <1>e, <2>1
<1> QED
  BY <1>1, <1>2, <1>3, <1>4, <1>5, <1>6, <1>7 DEF RunSteps

-----------------------------------------------------------------------------
(* The newest issue.                                                        *)

(* What a run's step does to the issues, and to the messages.               *)
LEMMA RunWrites ==
    ASSUME NEW r \in Runs, RunSteps(r)
    PROVE  \/ UNCHANGED <<issues, mails, replies>>
           \/ Refuse(r) \/ LoseCommit(r) \/ Deliver(r)
  BY DEF RunSteps, StartRun, ListYards, Skip, Look, FindEmpty, Crash, EndRun, inbox

LEMMA RunIssues ==
    ASSUME NEW r \in Runs, RunSteps(r)
    PROVE  \/ UNCHANGED issues
           \/ Open(r) /\ \E refused \in BOOLEAN : issues' = issues \cup {NewIssue(r, refused)}
<1>1. CASE Refuse(r)
  BY <1>1 DEF Refuse, RecordRefusal, Open
<1>2. CASE LoseCommit(r)
  BY <1>2 DEF LoseCommit
<1>3. CASE Deliver(r)
  BY <1>3 DEF Deliver, Open
<1> QED
  BY <1>1, <1>2, <1>3, RunWrites

LEMMA AddNewest ==
    ASSUME TypeOK, Newest, NEW i \in Issue, issues' = issues \cup {i}
    PROVE  Newest'
<1>1. \A j \in issues' : j.to \in Nat
  BY NothingApart DEF TypeOK, Issue
<1>2. issues' # {} => \E k \in issues' : \A j \in issues' : j.to <= k.to
  <2>1. CASE issues = {}
    BY <1>1, <2>1
  <2>2. CASE issues # {}
    <3>1. PICK k \in issues : \A j \in issues : j.to <= k.to
      BY <2>2 DEF Newest
    <3>2. CASE i.to <= k.to
      BY <1>1, <3>1, <3>2
    <3>3. CASE k.to <= i.to
      BY <1>1, <3>1, <3>3
    <3> QED
      BY <1>1, <3>1, <3>2, <3>3
  <2> QED
    BY <2>1, <2>2
<1>3. ASSUME NEW y \in Yards, IssuesOf(y)' # {}
      PROVE  \E k \in IssuesOf(y)' : \A j \in IssuesOf(y)' : j.to <= k.to
  <2>1. IssuesOf(y)' = IssuesOf(y) \cup {j \in {i} : j.yard = y}
    BY DEF IssuesOf
  <2>2. \A j \in IssuesOf(y)' : j.to \in Nat
    BY <1>1 DEF IssuesOf
  <2>3. CASE i.yard # y
    BY <1>3, <2>1, <2>3 DEF Newest
  <2>4. CASE i.yard = y /\ IssuesOf(y) = {}
    BY <2>1, <2>2, <2>4
  <2>5. CASE i.yard = y /\ IssuesOf(y) # {}
    <3>1. PICK k \in IssuesOf(y) : \A j \in IssuesOf(y) : j.to <= k.to
      BY <2>5 DEF Newest
    <3>2. IssuesOf(y)' = IssuesOf(y) \cup {i}
      BY <2>1, <2>5
    <3>3. CASE i.to <= k.to
      BY <2>2, <3>1, <3>2, <3>3
    <3>4. CASE k.to <= i.to
      BY <2>2, <3>1, <3>2, <3>4
    <3> QED
      BY <2>2, <3>1, <3>2, <3>3, <3>4
  <2> QED
    BY <2>3, <2>4, <2>5
<1> QED
  BY <1>2, <1>3 DEF Newest

LEMMA SameNewest ==
    ASSUME Newest, UNCHANGED issues
    PROVE  Newest'
  BY DEF Newest, IssuesOf

-----------------------------------------------------------------------------
(* The base of everything below.                                            *)

LEMMA NextSteps ==
    ASSUME Next
    PROVE  \/ \/ MemberSteps \/ FamilySteps \/ NudgeRotate
              \/ \E delivered \in BOOLEAN : NudgeMail(delivered)
           \/ \E r \in Runs : RunSteps(r)
  BY DEF Next

LEMMA BaseStep ==
    ASSUME Base, Next
    PROVE  Base'
<1>1. TypeOK /\ Locked /\ Newest
  BY DEF Base
<1>2. CASE \/ MemberSteps \/ FamilySteps \/ NudgeRotate
           \/ \E delivered \in BOOLEAN : NudgeMail(delivered)
  <2>1. TypeOK'
    BY <1>1, <1>2, MemberTypes, FamilyTypes, NudgeTypes
  <2>2. Locked'
    BY <1>1, <1>2, OthersLocked
  <2>3. UNCHANGED issues
    BY <1>2, OthersKeepRuns
  <2> QED
    BY <1>1, <2>1, <2>2, <2>3, SameNewest DEF Base
<1>3. ASSUME NEW r \in Runs, RunSteps(r) PROVE Base'
  <2>1. TypeOK' /\ Locked'
    BY <1>3, RunTypes, RunLocked
  <2>2. CASE UNCHANGED issues
    BY <1>1, <2>1, <2>2, SameNewest DEF Base
  <2>3. CASE Open(r) /\ \E refused \in BOOLEAN : issues' = issues \cup {NewIssue(r, refused)}
    BY <1>1, <2>1, <2>3, SendTypes, AddNewest DEF Base
  <2> QED
    BY <1>3, <2>2, <2>3, RunIssues
<1> QED
  BY <1>2, <1>3, NextSteps

LEMMA BaseInit ==
    ASSUME Init
    PROVE  Base
<1>1. TypeOK
  BY OwnAssumption, BoundsAssumption DEF Init, TypeOK, Maybe, Times
<1>2. Locked /\ Newest
  BY DEF Init, Locked, Newest, Open, IssuesOf
<1> QED
  BY <1>1, <1>2 DEF Base

LEMMA BaseStutter ==
    ASSUME Base, UNCHANGED vars
    PROVE  Base'
<1>1. TypeOK'
  BY DEF Base, TypeOK, vars, inbox
<1>2. Locked' /\ Newest'
  BY DEF Base, Locked, Newest, Open, Wanted, Enrolled, WindowStart, IssuesOf, Ends, vars
<1> QED
  BY <1>1, <1>2 DEF Base

(* Every reachable row, run, issue and message is one the model describes,  *)
(* and the row locks hold: one send at a time, and nothing it has read      *)
(* changes before it commits (_send_one's select_for_update).               *)
THEOREM BaseHolds == Spec => []Base
<1>1. Init => Base
  BY BaseInit
<1>2. Base /\ [Next]_vars => Base'
  BY BaseStep, BaseStutter
<1> QED
  BY <1>1, <1>2, PTL DEF Spec

(* Digest keeps its types.                                                  *)
THEOREM TypeCorrect == Spec => []TypeOK
<1>1. Base => TypeOK
  BY DEF Base
<1> QED
  BY <1>1, BaseHolds, PTL

-----------------------------------------------------------------------------
(* Only a proven address is written to.                                     *)

(* A subscribe that has decided may find the world moved on; what it will   *)
(* write was proven when it decided, and a proof is not taken back.  A link *)
(* the row waits for went to the address the row is for.                    *)
Proven ==
    /\ Enrolled /\ sub.confirmed # Nothing => sub.address \in proven
    /\ form # Nothing /\ form.confirmed # Nothing => form.address \in proven
    /\ verified => Own \in proven
    /\ Enrolled => \A letter \in letters : sub.confirm = letter[2] => letter[1] = sub.address

LEMMA LettersHaveLinks ==
    ASSUME TypeOK
    PROVE  \A letter \in letters : letter[2] # Nothing /\ letter[2] \in Known
<1>1. \A letter \in letters : letter[2] \in Links
  BY DEF TypeOK
<1>2. \A letter \in letters : letter[2] \in Known
  BY DEF Known
<1> QED
  BY <1>1, <1>2, NothingApart

(* A step that leaves the address as it is.                                 *)
LEMMA SameAddress ==
    ASSUME TypeOK, Proven, UNCHANGED <<form, verified, letters, proven>>,
           \/ UNCHANGED sub
           \/ /\ Enrolled
              /\ sub'.address = sub.address /\ sub'.confirmed = sub.confirmed
              /\ sub'.confirm \in {sub.confirm, Nothing}
    PROVE  Proven'
<1>1. CASE UNCHANGED sub
  BY <1>1 DEF Proven, Enrolled
<1>2. CASE /\ Enrolled
           /\ sub'.address = sub.address /\ sub'.confirmed = sub.confirmed
           /\ sub'.confirm \in {sub.confirm, Nothing}
  BY <1>2, LettersHaveLinks DEF Proven, Enrolled
<1> QED
  BY <1>1, <1>2

LEMMA MemberProven ==
    ASSUME TypeOK, Proven, MemberSteps
    PROVE  Proven'
<1> USE DEF inbox
<1>a. Enrolled => sub \in Subscription
  BY DEF TypeOK, Maybe, Enrolled
<1>b. now # Nothing
  BY NothingApart DEF TypeOK
<1>1. ASSUME NEW b \in BOOLEAN, Enrolled, sub' = [sub EXCEPT !.enabled = b],
             UNCHANGED <<form, verified, letters, proven>>
      PROVE  Proven'
  <2>1. sub'.address = sub.address /\ sub'.confirmed = sub.confirmed /\ sub'.confirm = sub.confirm
    BY <1>a, <1>1 DEF Subscription
  <2> QED
    BY <1>1, <2>1, SameAddress
<1>2. ASSUME NEW a \in Addresses, Resubscribe(a) PROVE Proven'
  BY <1>1, <1>2 DEF Resubscribe
<1>3. ASSUME NEW a \in Addresses, NEW b \in BOOLEAN, OpenSubscribe(a, b) PROVE Proven'
  <2>1. form'.address = a /\ form'.confirmed = ConfirmedFor(a)
    BY <1>3 DEF OpenSubscribe
  <2>2. ConfirmedFor(a) # Nothing => a \in proven
    BY DEF ConfirmedFor, Proven
  <2>3. UNCHANGED <<sub, verified, letters, proven>>
    BY <1>3 DEF OpenSubscribe
  <2> QED
    BY <2>1, <2>2, <2>3 DEF Proven, Enrolled
<1>4. ASSUME CommitSubscribe PROVE Proven'
  <2>1. PICK confirm \in Fresh :
            /\ \E stop \in Draws(Known \cup {confirm}) :
                sub' = [address |-> form.address, enabled |-> TRUE,
                        confirmed |-> form.confirmed,
                        confirm |-> IF form.own THEN Nothing ELSE confirm,
                        stop |-> stop]
            /\ letters' = IF form.own THEN letters
                                      ELSE letters \cup {<<form.address, confirm>>}
    BY <1>4 DEF CommitSubscribe
  <2>2. /\ sub'.address = form.address /\ sub'.confirmed = form.confirmed
        /\ sub'.confirm = IF form.own THEN Nothing ELSE confirm
    BY <2>1
  <2>3. \A letter \in letters : letter[2] # confirm /\ letter[2] # Nothing
    BY <2>1, LettersHaveLinks DEF Fresh, Draws
  <2>4. \A letter \in letters' : sub'.confirm = letter[2] => letter[1] = sub'.address
    BY <2>1, <2>2, <2>3
  <2>5. form # Nothing /\ form' = Nothing /\ UNCHANGED <<verified, proven>>
    BY <1>4 DEF CommitSubscribe
  <2> QED
    BY <2>2, <2>4, <2>5 DEF Proven
<1>5. ASSUME AbandonSubscribe PROVE Proven'
  BY <1>5 DEF AbandonSubscribe, Proven, Enrolled
<1>6. ASSUME NEW a \in Addresses, NEW link \in Links, Confirm(a, link) PROVE Proven'
  <2>1. /\ sub'.address = sub.address /\ sub'.confirmed = now /\ sub'.confirm = Nothing
        /\ Enrolled
    BY <1>a, <1>6 DEF Confirm, Subscription
  <2>2. sub.address = a
    BY <1>6 DEF Confirm, Proven
  <2>3. proven' = proven \cup {a} /\ UNCHANGED <<form, verified, letters>>
    BY <1>6 DEF Confirm
  <2> QED
    BY <2>1, <2>2, <2>3, LettersHaveLinks DEF Proven
<1>7. ASSUME TapAccountLink PROVE Proven'
  <2>1. proven' = proven \cup {Own} /\ UNCHANGED <<form, letters>>
    BY <1>7 DEF TapAccountLink
  <2>2. CASE ReceiverMatches
    <3>1. /\ sub'.address = Own /\ sub.address = Own /\ sub'.confirm = Nothing
      BY <1>a, <1>7, <2>2 DEF TapAccountLink, ReceiverMatches, Subscription
    <3> QED
      BY <2>1, <3>1, LettersHaveLinks DEF Proven
  <2>3. CASE ~ReceiverMatches
    <3>1. UNCHANGED sub
      BY <1>7, <2>3 DEF TapAccountLink
    <3> QED
      BY <2>1, <3>1 DEF Proven, Enrolled
  <2> QED
    BY <2>2, <2>3
<1>8. ASSUME NEW b \in BOOLEAN, SetEnabled(b) PROVE Proven'
  BY <1>1, <1>8 DEF SetEnabled
<1>9. ASSUME NEW link \in Links, Unsubscribe(link) PROVE Proven'
  BY <1>1, <1>9 DEF Unsubscribe
<1> QED
  BY <1>2, <1>3, <1>4, <1>5, <1>6, <1>7, <1>8, <1>9 DEF MemberSteps

LEMMA ProvenStep ==
    ASSUME Base, Proven, Next
    PROVE  Proven'
<1> USE DEF inbox
<1>a. TypeOK
  BY DEF Base
<1>b. Enrolled => sub \in Subscription
  BY <1>a DEF TypeOK, Maybe, Enrolled
<1>1. CASE MemberSteps
  BY <1>a, <1>1, MemberProven
<1>2. ASSUME FamilySteps PROVE Proven'
  <2>1. /\ UNCHANGED <<form, verified, letters, proven>>
        /\ sub' = sub \/ (Enrolled /\ sub' \in {Voided, [Voided EXCEPT !.enabled = FALSE]})
    BY <1>2 DEF FamilySteps, LoseSide, Remove, GainSide, CommitPost, DeletePost, Tick
  <2>2. Enrolled => \A row \in {Voided, [Voided EXCEPT !.enabled = FALSE]} :
            row.address = sub.address /\ row.confirmed = sub.confirmed /\ row.confirm = Nothing
    BY <1>b DEF Voided, Subscription
  <2> QED
    BY <1>a, <2>1, <2>2, SameAddress
<1>c. ASSUME NEW link, Enrolled, sub' = [sub EXCEPT !.stop = link]
      PROVE  /\ sub'.address = sub.address /\ sub'.confirmed = sub.confirmed
             /\ sub'.confirm = sub.confirm
  BY <1>b, <1>c DEF Subscription
<1>3. ASSUME NudgeRotate PROVE Proven'
  <2>1. /\ UNCHANGED <<form, verified, letters, proven>> /\ Enrolled
        /\ \E link : sub' = [sub EXCEPT !.stop = link]
    BY <1>3 DEF NudgeRotate, Wanted
  <2> QED
    BY <1>a, <1>c, <2>1, SameAddress
<1>4. ASSUME NEW delivered \in BOOLEAN, NudgeMail(delivered) PROVE Proven'
  BY <1>a, <1>4, SameAddress DEF NudgeMail
<1>5. ASSUME NEW r \in Runs, RunSteps(r) PROVE Proven'
  <2>1. UNCHANGED <<form, verified, letters, proven>>
    BY <1>5, RunsKeepRow
  <2>2. \/ UNCHANGED sub
        \/ Enrolled /\ \E link : sub' = [sub EXCEPT !.stop = link]
    BY <1>5, RunsKeepRow, RowsAssumption DEF Enrolled
  <2> QED
    BY <1>a, <1>c, <2>1, <2>2, SameAddress
<1> QED
  BY <1>1, <1>2, <1>3, <1>4, <1>5 DEF Next

LEMMA ProvenHolds == Spec => []Proven
<1>1. Init => Proven
  BY DEF Init, Proven, Enrolled
<1>2. Base /\ Proven /\ [Next]_vars => Proven'
  <2>1. ASSUME Proven, UNCHANGED vars PROVE Proven'
    BY <2>1 DEF Proven, Enrolled, vars, inbox
  <2> QED
    BY <2>1, ProvenStep
<1> QED
  BY <1>1, <1>2, BaseHolds, PTL DEF Spec

(* Family content only follows an address whose holder tapped a link mailed *)
(* there, for any number of mailboxes, letters and concurrent requests      *)
(* (digesting.subscribe, confirm, signals.py).                              *)
THEOREM OnlyProvenAddresses == Spec => []ConfirmedIsProven
<1>1. Proven => ConfirmedIsProven
  BY DEF Proven, ConfirmedIsProven, Wanted
<1> QED
  BY <1>1, ProvenHolds, PTL

(* A message leaves only while the email is on, its address proven and the  *)
(* side the member's, whatever was read when its run began (the second read *)
(* under lock in _send_one).                                                *)
THEOREM CancelledStay == Spec => CancelledSendsStay
<1>1. Base /\ Proven /\ [Next]_vars =>
        (mails' # mails =>
            /\ Wanted /\ sub.address \in proven
            /\ \A m \in mails' \ mails : m.yard \in on /\ sub' # Nothing)
  <2> SUFFICES ASSUME Base, Proven, Next, mails' # mails
               PROVE  /\ Wanted /\ sub.address \in proven
                      /\ \A m \in mails' \ mails : m.yard \in on /\ sub' # Nothing
    BY DEF vars, inbox
  <2>1. PICK r \in Runs : RunSteps(r)
    BY NextSteps, OthersKeepRuns
  <2>2. Open(r) /\ \A m \in mails' \ mails : m.yard = runs[r].sending
    <3>1. CASE Refuse(r)
      BY <3>1 DEF Refuse, RecordRefusal, inbox
    <3>2. CASE LoseCommit(r)
      BY <3>2 DEF LoseCommit, NewMail, Open
    <3>3. CASE Deliver(r)
      BY <3>3 DEF Deliver, NewMail, Open
    <3> QED
      BY <2>1, <3>1, <3>2, <3>3, RunWrites
  <2>3. Wanted /\ runs[r].sending \in on
    BY <2>2 DEF Base, Locked
  <2>4. sub' # Nothing
    BY <2>1, <2>3, RunsKeepRow DEF Wanted, Enrolled
  <2> QED
    BY <2>2, <2>3, <2>4 DEF Proven, Wanted
<1> QED
  BY <1>1, BaseHolds, ProvenHolds, PTL DEF Spec, CancelledSendsStay

(* However a run's step ends, the stored way out is then the one in a       *)
(* message that has been delivered, or the one that was there.              *)
THEOREM RunsKeepWayOut == Spec => RunKeepsWayOut
<1>1. Base /\ [Next]_vars =>
        (runs' # runs /\ sub' # sub => sub'.stop = lastLink' /\ sub'.stop \in held')
  <2> SUFFICES ASSUME Base, Next, runs' # runs, sub' # sub
               PROVE  sub'.stop = lastLink' /\ sub'.stop \in held'
    BY DEF vars
  <2>1. PICK r \in Runs : RunSteps(r)
    BY NextSteps, OthersKeepRuns
  <2>2. Deliver(r)
    BY <2>1 DEF RunSteps, StartRun, ListYards, Skip, Look, FindEmpty, Refuse,
       RecordRefusal, Crash, LoseCommit, EndRun
  <2>3. Open(r)
    BY <2>2 DEF Deliver, Open
  <2>4. sub \in Subscription
    BY <2>3, SendTypes
  <2>5. PICK link \in StopLinks(r) :
            /\ sub' = [sub EXCEPT !.stop = link]
            /\ held' = held \cup {link}
            /\ lastLink' = IF sub'.stop = link THEN link ELSE lastLink
    BY <2>2 DEF Deliver
  <2>6. sub'.stop = link
    BY <2>4, <2>5 DEF Subscription
  <2> QED
    BY <2>5, <2>6
<1> QED
  BY <1>1, BaseHolds, PTL DEF Spec, RunKeepsWayOut

-----------------------------------------------------------------------------
(* No post twice.                                                           *)

(* The windows of a side do not overlap, and every message that was kept    *)
(* has the window of one of them, and posts of that window only.            *)
Apart ==
    /\ \A i, j \in issues : i.yard = j.yard /\ i # j => i.to <= j.from \/ j.to <= i.from
    /\ \A m \in mails : m.kept =>
        \E i \in issues : i.yard = m.yard /\ i.from = m.from /\ i.to = m.to
    /\ \A m \in mails : \A p \in m.posts :
        posts[p] # Nothing /\ m.from <= posts[p].at /\ posts[p].at < m.to
    /\ \A m, n \in mails : m.kept /\ n.kept /\ m.yard = n.yard /\ m.to = n.to => m = n

(* A post keeps what it was committed with, and once down stays down; the   *)
(* clock does not go back.                                                  *)
LEMMA PostsStay ==
    ASSUME TypeOK, Next
    PROVE  /\ now <= now'
           /\ \A p \in Posts : posts[p] # Nothing =>
                /\ posts'[p] # Nothing
                /\ posts'[p].yards = posts[p].yards /\ posts'[p].at = posts[p].at
                /\ posts'[p].late <=> posts[p].late
                /\ posts[p].down => posts'[p].down
           /\ \A p \in Posts : posts[p] = Nothing /\ posts'[p] # Nothing =>
                posts'[p].late \/ posts'[p].at = now
<1> USE DEF inbox
<1>a. now \in Nat /\ posts \in [Posts -> Maybe(Post)] /\ Nothing \notin Post
  BY NothingApart, RowsAssumption DEF TypeOK
<1>1. CASE UNCHANGED <<posts, now>>
  BY <1>a, <1>1
<1>2. CASE Tick
  BY <1>a, <1>2 DEF Tick
<1>3. ASSUME NEW p \in Posts, NEW yards \in SUBSET Yards, NEW at \in Times,
             CommitPost(p, yards, at)
      PROVE  /\ now' = now /\ posts[p] = Nothing
             /\ posts'[p].late \/ posts'[p].at = now
             /\ \A q \in Posts \ {p} : posts'[q] = posts[q]
  BY <1>a, <1>3 DEF CommitPost
<1>4. ASSUME NEW p \in Posts, DeletePost(p)
      PROVE  /\ now' = now /\ posts[p] # Nothing /\ posts'[p] # Nothing
             /\ posts'[p].yards = posts[p].yards /\ posts'[p].at = posts[p].at
             /\ posts'[p].late <=> posts[p].late
             /\ posts'[p].down
             /\ \A q \in Posts \ {p} : posts'[q] = posts[q]
  <2>1. posts[p] \in Post
    BY <1>a, <1>4 DEF DeletePost, Maybe
  <2>2. posts'[p] = [posts[p] EXCEPT !.down = TRUE] /\ \A q \in Posts \ {p} : posts'[q] = posts[q]
    BY <1>a, <1>4 DEF DeletePost
  <2>3. posts'[p] \in Post
    BY <2>1, <2>2 DEF Post
  <2> QED
    BY <1>a, <1>4, <2>1, <2>2, <2>3 DEF DeletePost, Post
<1>5. \/ UNCHANGED <<posts, now>> \/ Tick
      \/ \E p \in Posts, yards \in SUBSET Yards, at \in Times : CommitPost(p, yards, at)
      \/ \E p \in Posts : DeletePost(p)
  <2>1. CASE MemberSteps
    BY <2>1 DEF MemberSteps, Resubscribe, OpenSubscribe, CommitSubscribe, AbandonSubscribe,
       Confirm, TapAccountLink, SetEnabled, Unsubscribe
  <2>2. CASE FamilySteps
    BY <2>2 DEF FamilySteps, LoseSide, Remove, GainSide
  <2>3. CASE NudgeRotate \/ \E delivered \in BOOLEAN : NudgeMail(delivered)
    BY <2>3 DEF NudgeRotate, NudgeMail
  <2>4. CASE \E r \in Runs : RunSteps(r)
    BY <2>4 DEF RunSteps, StartRun, ListYards, Skip, Look, FindEmpty, Refuse, RecordRefusal,
       Crash, LoseCommit, EndRun, Deliver
  <2> QED
    BY <2>1, <2>2, <2>3, <2>4 DEF Next
<1> QED
  BY <1>a, <1>1, <1>2, <1>3, <1>4, <1>5

(* The issues and the messages after a run's step: how each outcome adds to *)
(* them.                                                                    *)
LEMMA Outcomes ==
    ASSUME Base, NEW r \in Runs, RunSteps(r), ~ UNCHANGED <<issues, mails, replies>>
    PROVE  LET y == runs[r].sending
               built == WindowPosts(y, runs[r].at)
           IN  /\ Open(r)
               /\ \/ /\ issues' = issues \cup {NewIssue(r, TRUE)}
                     /\ UNCHANGED <<mails, replies>>
                  \/ /\ \E link \in Links : mails' = mails \cup {NewMail(r, built, link, FALSE)}
                     /\ UNCHANGED <<issues, replies>>
                  \/ /\ issues' = issues \cup {NewIssue(r, FALSE)}
                     /\ \E link \in Links : mails' = mails \cup {NewMail(r, built, link, TRUE)}
                     /\ replies' = [replies EXCEPT ![y] = WindowStart(y)]
<1>1. CASE Refuse(r)
  BY <1>1 DEF Refuse, RecordRefusal, Open, inbox
<1>2. CASE LoseCommit(r)
  <2>1. Open(r)
    BY <1>2 DEF LoseCommit, Open
  <2> QED
    BY <1>2, <2>1, SendTypes DEF LoseCommit
<1>3. CASE Deliver(r)
  <2>1. Open(r)
    BY <1>3 DEF Deliver, Open
  <2> QED
    BY <1>3, <2>1, SendTypes DEF Deliver
<1> QED
  BY <1>1, <1>2, <1>3, RunWrites

(* What is sent is of its window.                                           *)
LEMMA WindowPostsIn ==
    ASSUME NEW y, NEW to
    PROVE  \A p \in WindowPosts(y, to) :
             /\ p \in Posts /\ posts[p] # Nothing /\ y \in posts[p].yards
             /\ WindowStart(y) <= posts[p].at /\ posts[p].at < to
  BY DEF WindowPosts, InWindow, Visible

(* A window opens where the side's others have closed.                      *)
LEMMA NewWindows ==
    ASSUME Base, NEW r \in Runs, Open(r), NEW refused \in BOOLEAN
    PROVE  LET new == NewIssue(r, refused) IN
           /\ new \in Issue /\ new.yard = runs[r].sending /\ new.from = WindowStart(new.yard)
           /\ new.to = runs[r].at /\ new.refused = refused /\ new.from < new.to
           /\ new.from \in Nat /\ new.to \in Nat
           /\ \A i \in issues : i.yard = new.yard =>
                i.to \in Nat /\ i.to <= new.from /\ i.to < new.to
<1> DEFINE new == NewIssue(r, refused)
<1>1. /\ new.yard = runs[r].sending /\ new.from = WindowStart(new.yard)
      /\ new.to = runs[r].at /\ new.refused = refused
  BY DEF NewIssue
<1>2. new \in Issue /\ new.from \in Nat /\ new.to \in Nat /\ new.from < new.to
  BY <1>1, SendTypes, NothingApart
<1>3. Wanted /\ runs[r].sending \in Yards
  BY SendTypes DEF Base, Locked
<1>4. ASSUME NEW i \in issues, i.yard = new.yard
      PROVE  i.to \in Nat /\ i.to <= new.from
  <2>1. i \in IssuesOf(new.yard) /\ i.to \in Nat
    BY <1>4, NothingApart DEF IssuesOf, Base, TypeOK, Issue
  <2> QED
    BY <1>1, <1>3, <2>1, WindowStarts DEF Base
<1>5. \A i \in issues : i.yard = new.yard => i.to < new.to
  BY <1>2, <1>4
<1> QED
  BY <1>1, <1>2, <1>4, <1>5

LEMMA SameApart ==
    ASSUME Base, Apart, Next, UNCHANGED <<issues, mails>>
    PROVE  Apart'
<1>1. TypeOK
  BY DEF Base
<1>2. \A m \in mails : m.posts \subseteq Posts
  BY <1>1 DEF TypeOK, Mail
<1>3. \A m \in mails : \A p \in m.posts :
        posts'[p] # Nothing /\ m.from <= posts'[p].at /\ posts'[p].at < m.to
  BY <1>1, <1>2, PostsStay DEF Apart
<1> QED
  BY <1>3 DEF Apart

LEMMA ApartStep ==
    ASSUME Base, Apart, Next
    PROVE  Apart'
<1>1. CASE \/ MemberSteps \/ FamilySteps \/ NudgeRotate
           \/ \E delivered \in BOOLEAN : NudgeMail(delivered)
  BY <1>1, OthersKeepRuns, SameApart
<1>2. ASSUME NEW r \in Runs, RunSteps(r) PROVE Apart'
  <2> DEFINE y == runs[r].sending
             built == WindowPosts(y, runs[r].at)
  <2>a. UNCHANGED posts
    BY <1>2, RunsKeepRow
  <2>1. CASE UNCHANGED <<issues, mails>>
    BY <2>1, SameApart
  <2>2. CASE ~ UNCHANGED <<issues, mails>>
    <3>1. Open(r)
      BY <1>2, <2>2, Outcomes
    <3>2. \A refused \in BOOLEAN :
            LET new == NewIssue(r, refused) IN
            /\ new.yard = y /\ new.from = WindowStart(y) /\ new.to = runs[r].at
            /\ \A i \in issues : i.yard = y => i.to <= new.from /\ i.to < new.to
      BY <3>1, NewWindows
    <3>3. \A link, kept :
            LET n == NewMail(r, built, link, kept) IN
            /\ n.yard = y /\ n.from = WindowStart(y) /\ n.to = runs[r].at
            /\ n.posts = built /\ n.kept = kept
      BY DEF NewMail
    <3>4. \A i, j \in issues' : i.yard = j.yard /\ i # j => i.to <= j.from \/ j.to <= i.from
      <4>1. CASE UNCHANGED issues
        BY <4>1 DEF Apart
      <4>2. ASSUME NEW refused \in BOOLEAN, issues' = issues \cup {NewIssue(r, refused)}
            PROVE  \A i, j \in issues' :
                     i.yard = j.yard /\ i # j => i.to <= j.from \/ j.to <= i.from
        BY <3>2, <4>2 DEF Apart
      <4> QED
        BY <1>2, <2>2, <4>1, <4>2, Outcomes
    <3>5. \A m \in mails' : m.kept =>
            \E i \in issues' : i.yard = m.yard /\ i.from = m.from /\ i.to = m.to
      <4>1. ASSUME NEW m \in mails, m.kept
            PROVE  \E i \in issues' : i.yard = m.yard /\ i.from = m.from /\ i.to = m.to
        <5>1. issues \subseteq issues'
          BY <1>2, <2>2, Outcomes
        <5> QED
          BY <4>1, <5>1 DEF Apart
      <4>2. ASSUME NEW link \in Links, mails' = mails \cup {NewMail(r, built, link, FALSE)}
            PROVE  \A m \in mails' \ mails : ~m.kept
        BY <4>2 DEF NewMail
      <4>3. ASSUME NEW link \in Links, mails' = mails \cup {NewMail(r, built, link, TRUE)},
                   issues' = issues \cup {NewIssue(r, FALSE)}
            PROVE  \A m \in mails' \ mails :
                     \E i \in issues' : i.yard = m.yard /\ i.from = m.from /\ i.to = m.to
        <5>1. \A m \in mails' \ mails :
                m.yard = y /\ m.from = WindowStart(y) /\ m.to = runs[r].at
          BY <4>3 DEF NewMail
        <5>2. NewIssue(r, FALSE) \in issues'
          BY <4>3
        <5> QED
          BY <3>2, <5>1, <5>2
      <4>4. \/ UNCHANGED mails
            \/ \E link \in Links : mails' = mails \cup {NewMail(r, built, link, FALSE)}
            \/ /\ issues' = issues \cup {NewIssue(r, FALSE)}
               /\ \E link \in Links : mails' = mails \cup {NewMail(r, built, link, TRUE)}
        BY <1>2, <2>2, Outcomes
      <4> QED
        BY <4>1, <4>2, <4>3, <4>4
    <3>6. mails' = mails \/
          \E link \in Links, kept \in BOOLEAN : mails' = mails \cup {NewMail(r, built, link, kept)}
      BY <1>2, <2>2, Outcomes
    <3>7. \A m \in mails' : \A p \in m.posts :
            posts'[p] # Nothing /\ m.from <= posts'[p].at /\ posts'[p].at < m.to
      BY <2>a, <3>3, <3>6, WindowPostsIn DEF Apart
    <3>8. \A m \in mails : m.kept /\ m.yard = y => m.to < runs[r].at /\ m.to # runs[r].at
      <4>1. \A m \in mails : m.kept /\ m.yard = y => \E i \in issues : i.yard = y /\ i.to = m.to
        BY DEF Apart
      <4>2. \A i \in issues : i.yard = y => i.to < runs[r].at /\ i.to # runs[r].at
        <5>1. NewIssue(r, TRUE).yard = y /\ NewIssue(r, TRUE).to = runs[r].at
          BY <3>2
        <5>2. \A i \in issues : i.yard = y => i.to \in Nat /\ i.to < runs[r].at
          BY <3>1, <5>1, NewWindows
        <5> QED
          BY <3>1, <5>2, SendTypes, NothingApart
      <4> QED
        BY <4>1, <4>2
    <3>9. \A m, n \in mails' : m.kept /\ n.kept /\ m.yard = n.yard /\ m.to = n.to => m = n
      BY <3>3, <3>6, <3>8 DEF Apart
    <3> QED
      BY <3>4, <3>5, <3>7, <3>9 DEF Apart
  <2> QED
    BY <2>1, <2>2
<1> QED
  BY <1>1, <1>2, NextSteps

LEMMA ApartHolds == Spec => []Apart
<1>1. Init => Apart
  BY DEF Init, Apart
<1>2. Base /\ Apart /\ [Next]_vars => Apart'
  <2>1. ASSUME Apart, UNCHANGED vars PROVE Apart'
    BY <2>1 DEF Apart, vars, inbox
  <2> QED
    BY <2>1, ApartStep
<1> QED
  BY <1>1, <1>2, BaseHolds, PTL DEF Spec

(* No side mails a post twice unless a commit was lost after the relay had  *)
(* accepted, for any number of overlapping runs, posts and sides (the       *)
(* half-open windows and the lock of _send_one).                            *)
THEOREM PostsMailedOnce == Spec => []EachPostOnce
<1>1. Base /\ Apart => EachPostOnce
  <2> SUFFICES ASSUME Base, Apart, NEW m \in mails, NEW n \in mails, m # n, m.kept, n.kept,
                      m.yard = n.yard, NEW p \in m.posts, p \in n.posts
               PROVE  FALSE
    BY DEF EachPostOnce
  <2>1. m.to # n.to
    BY DEF Apart
  <2>2. PICK i \in issues : i.yard = m.yard /\ i.from = m.from /\ i.to = m.to
    BY DEF Apart
  <2>3. PICK j \in issues : j.yard = n.yard /\ j.from = n.from /\ j.to = n.to
    BY DEF Apart
  <2>4. m.to <= n.from \/ n.to <= m.from
    BY <2>1, <2>2, <2>3 DEF Apart
  <2>5. /\ m.from <= posts[p].at /\ posts[p].at < m.to
        /\ n.from <= posts[p].at /\ posts[p].at < n.to
        /\ posts[p] # Nothing
    BY DEF Apart
  <2>6. posts[p].at \in Nat /\ m.to \in Nat /\ n.to \in Nat /\ m.from \in Nat /\ n.from \in Nat
    <3>1. p \in Posts /\ m \in Mail /\ n \in Mail
      BY DEF Base, TypeOK, Mail
    <3>2. posts[p] \in Post
      BY <2>5, <3>1 DEF Base, TypeOK, Maybe
    <3> QED
      BY <3>1, <3>2, NothingApart DEF Mail, Post
  <2> QED
    BY <2>4, <2>5, <2>6
<1> QED
  BY <1>1, BaseHolds, ApartHolds, PTL

-----------------------------------------------------------------------------
(* One way out for a run, and the reply addresses of the newest message.    *)

(* What a run's step does to its slot.                                      *)
LEMMA SlotMoves ==
    ASSUME Base, NEW r \in Runs, RunSteps(r)
    PROVE  /\ \A s \in Runs \ {r} : runs'[s] = runs[s]
           /\ \/ StartRun(r)
              \/ runs'[r] = Nothing
              \/ runs[r] # Nothing /\ Deliver(r) /\ runs'[r].at = runs[r].at
              \/ runs[r] # Nothing /\ ~Deliver(r)
                 /\ runs'[r].at = runs[r].at /\ runs'[r].raw = runs[r].raw
<1>a. TypeOK /\ Locked /\ runs \in [Runs -> Maybe(Run)]
  BY DEF Base, TypeOK
<1>b. runs[r] # Nothing => runs[r] \in Run
  BY <1>a DEF Maybe
<1>1. CASE Open(r) /\ ~EndRun(r) /\ ~ListYards(r) /\ ~Deliver(r)
  <2>1. Done(r, runs[r].raw)
    BY <1>1 DEF RunSteps, StartRun, Skip, Look, Turn, FindEmpty, Refuse, RecordRefusal,
       Crash, LoseCommit, Open
  <2> QED
    BY <1>a, <1>1, <2>1, SendTypes, DoneWrites DEF Open
<1>2. CASE Deliver(r)
  <2>1. Open(r) /\ \E link \in StopLinks(r) : Done(r, link)
    BY <1>2 DEF Deliver, Open
  <2>2. \E link \in Maybe(Links) : Done(r, link)
    BY <2>1, SendTypes DEF Maybe
  <2> QED
    BY <1>a, <1>2, <2>1, <2>2, DoneWrites DEF Open
<1>3. CASE StartRun(r) \/ EndRun(r)
  BY <1>a, <1>3 DEF StartRun, EndRun
<1>4. CASE ListYards(r) /\ ~Deliver(r)
  BY <1>a, <1>b, <1>4 DEF ListYards, Run
<1>5. ASSUME NEW y \in Yards, Skip(r, y) \/ Look(r, y), ~Deliver(r)
      PROVE  /\ \A s \in Runs \ {r} : runs'[s] = runs[s]
             /\ runs[r] # Nothing /\ runs'[r].at = runs[r].at /\ runs'[r].raw = runs[r].raw
  BY <1>a, <1>b, <1>5 DEF Skip, Look, Turn, Run
<1>6. FindEmpty(r) \/ Refuse(r) \/ Crash(r) \/ LoseCommit(r) => Open(r)
  BY DEF FindEmpty, Refuse, RecordRefusal, Crash, LoseCommit, Open
<1> QED
  BY <1>1, <1>2, <1>3, <1>4, <1>5, <1>6 DEF RunSteps

(* A run remembers the link of everything it has had delivered.             *)
Linked ==
    /\ RunSharesOneLink
    /\ \A r \in Runs : runs[r] # Nothing =>
        \A m \in mails : m.kept /\ m.run = r /\ m.to = runs[r].at => m.link = runs[r].raw

(* Nothing that was kept carries the start of a run that is about to begin. *)
LEMMA StartsAfterMail ==
    ASSUME Base, Apart, Due, NEW m \in mails, m.kept
    PROVE  m.to # now
<1>1. PICK i \in issues : i.to = m.to
  BY DEF Apart
<1>2. PICK k \in issues : \A j \in issues : j.to <= k.to
  BY <1>1 DEF Base, Newest
<1>3. \A j \in issues : j.to \in Nat
  BY NothingApart DEF Base, TypeOK, Issue
<1>4. Anchor = k.to
  BY <1>1, <1>2, <1>3, NewestEnd DEF Anchor
<1>5. k.to + Period <= now /\ now \in Nat
  BY <1>4, NothingApart DEF Due, Base, TypeOK
<1> QED
  BY <1>1, <1>2, <1>3, <1>5, PeriodAssumption

LEMMA LinkedStep ==
    ASSUME Base, Apart, Linked, Next
    PROVE  Linked'
<1>1. CASE \/ MemberSteps \/ FamilySteps \/ NudgeRotate
           \/ \E delivered \in BOOLEAN : NudgeMail(delivered)
  <2>1. UNCHANGED <<runs, mails>>
    BY <1>1, OthersKeepRuns
  <2> QED
    BY <2>1 DEF Linked, RunSharesOneLink
<1>2. ASSUME NEW r \in Runs, RunSteps(r), UNCHANGED mails, ~Deliver(r) PROVE Linked'
  <2>1. RunSharesOneLink'
    BY <1>2 DEF Linked, RunSharesOneLink
  <2>2. ASSUME NEW s \in Runs, runs'[s] # Nothing, NEW m \in mails,
               m.kept, m.run = s, m.to = runs'[s].at
        PROVE  m.link = runs'[s].raw
    <3>1. CASE s # r
      BY <1>2, <2>2, <3>1, SlotMoves DEF Linked
    <3>2. CASE s = r /\ StartRun(r)
      <4>1. Due /\ runs'[r].at = now
        BY <3>2 DEF StartRun, Base, TypeOK
      <4> QED
        BY <2>2, <3>2, <4>1, StartsAfterMail
    <3>3. CASE s = r /\ ~StartRun(r)
      BY <1>2, <2>2, <3>3, SlotMoves DEF Linked
    <3> QED
      BY <3>1, <3>2, <3>3
  <2> QED
    BY <1>2, <2>1, <2>2 DEF Linked
<1>3. ASSUME NEW r \in Runs, LoseCommit(r) PROVE Linked'
  <2>1. Open(r) /\ Done(r, runs[r].raw)
    BY <1>3 DEF LoseCommit, Open
  <2>2. mails \subseteq mails' /\ \A m \in mails' \ mails : ~m.kept
    BY <1>3 DEF LoseCommit, NewMail
  <2>3. RunSharesOneLink'
    BY <2>2 DEF Linked, RunSharesOneLink
  <2>4. \A s \in Runs : runs'[s] # Nothing =>
            runs[s] # Nothing /\ runs'[s].at = runs[s].at /\ runs'[s].raw = runs[s].raw
    BY <2>1, SendTypes, DoneWrites DEF Base, Open
  <2> QED
    BY <2>2, <2>3, <2>4 DEF Linked
<1>4. ASSUME NEW r \in Runs, Deliver(r) PROVE Linked'
  <2> DEFINE built == WindowPosts(runs[r].sending, runs[r].at)
  <2>1. RunSteps(r) /\ ~StartRun(r) /\ Open(r)
    BY <1>4 DEF RunSteps, StartRun, Deliver, Open
  <2>2. PICK link \in StopLinks(r) :
            mails' = mails \cup {NewMail(r, built, link, TRUE)} /\ Done(r, link)
    BY <1>4 DEF Deliver
  <2> DEFINE new == NewMail(r, built, link, TRUE)
  <2>3. new.run = r /\ new.to = runs[r].at /\ new.link = link /\ link \in Links
    BY <2>1, <2>2, SendTypes DEF NewMail
  <2>4. /\ \A s \in Runs \ {r} : runs'[s] = runs[s]
        /\ runs'[r].at = runs[r].at /\ runs'[r].raw = link
    BY <2>1, <2>2, <2>3, DoneWrites DEF Base, Maybe
  <2>5. ASSUME NEW m \in mails, m.kept, m.run = r, m.to = runs[r].at PROVE m.link = link
    <3>1. m.link = runs[r].raw /\ m.link \in Links
      BY <2>1, <2>5 DEF Linked, Open, Base, TypeOK, Mail
    <3> QED
      BY <2>2, <3>1, NothingApart DEF StopLinks
  <2>6. RunSharesOneLink'
    <3>1. \A m \in mails' : m.kept /\ m.run = r /\ m.to = runs[r].at => m.link = link
      BY <2>2, <2>3, <2>5
    <3>2. \A m \in mails' : ~(m.run = r /\ m.to = runs[r].at) => m \in mails
      BY <2>2, <2>3
    <3> QED
      BY <3>1, <3>2 DEF Linked, RunSharesOneLink
  <2>7. ASSUME NEW s \in Runs, runs'[s] # Nothing, NEW m \in mails',
               m.kept, m.run = s, m.to = runs'[s].at
        PROVE  m.link = runs'[s].raw
    <3>1. CASE s = r
      BY <2>2, <2>3, <2>4, <2>5, <2>7, <3>1
    <3>2. CASE s # r
      BY <2>2, <2>3, <2>4, <2>7, <3>2 DEF Linked
    <3> QED
      BY <3>1, <3>2
  <2> QED
    BY <2>6, <2>7 DEF Linked
<1>5. ASSUME NEW r \in Runs, RunSteps(r), ~LoseCommit(r), ~Deliver(r) PROVE UNCHANGED mails
  BY <1>5, RunWrites DEF Refuse, RecordRefusal, inbox
<1> QED
  BY <1>1, <1>2, <1>3, <1>4, <1>5, NextSteps

(* The messages of one run share one unsubscribe link (send_due_digests     *)
(* hands the first side's raw token on to the next).                        *)
THEOREM OneLinkPerRun == Spec => []RunSharesOneLink
<1>1. Init => Linked
  BY DEF Init, Linked, RunSharesOneLink
<1>2. Base /\ Apart /\ Linked /\ [Next]_vars => Linked'
  <2>1. ASSUME Linked, UNCHANGED vars PROVE Linked'
    BY <2>1 DEF Linked, RunSharesOneLink, vars, inbox
  <2> QED
    BY <2>1, LinkedStep
<1>3. Linked => RunSharesOneLink
  BY DEF Linked
<1> QED
  BY <1>1, <1>2, <1>3, BaseHolds, ApartHolds, PTL DEF Spec

LEMMA RepliesStep ==
    ASSUME Base, RepliesFollowMail, Next
    PROVE  RepliesFollowMail'
<1> DEFINE Sent(y) == {i \in IssuesOf(y) : ~i.refused}
           Follows(y) == IF Sent(y) = {} THEN replies[y] = Nothing
                         ELSE \E i \in Sent(y) : i.to = Max(Ends(Sent(y))) /\ replies[y] = i.from
<1>a. \A y \in Yards : Follows(y)
  BY DEF RepliesFollowMail
<1>b. ASSUME NEW y \in Yards, Sent(y)' = Sent(y), replies'[y] = replies[y] PROVE Follows(y)'
  <2>1. Follows(y)
    BY <1>a
  <2> QED
    BY <1>b, <2>1
<1>c. ASSUME \A y \in Yards : Follows(y)' PROVE RepliesFollowMail'
  BY <1>c DEF RepliesFollowMail
<1>1. CASE UNCHANGED <<issues, replies>>
  <2>1. \A y \in Yards : Sent(y)' = Sent(y) /\ replies'[y] = replies[y]
    BY <1>1 DEF IssuesOf
  <2> QED
    BY <2>1, <1>b, <1>c
<1>2. ASSUME NEW r \in Runs, Open(r), issues' = issues \cup {NewIssue(r, TRUE)}, UNCHANGED replies
      PROVE  RepliesFollowMail'
  <2>1. NewIssue(r, TRUE).refused
    BY DEF NewIssue
  <2>2. \A y \in Yards : Sent(y)' = Sent(y) /\ replies'[y] = replies[y]
    BY <1>2, <2>1 DEF IssuesOf
  <2> QED
    BY <2>2, <1>b, <1>c
<1>3. ASSUME NEW r \in Runs, Open(r), issues' = issues \cup {NewIssue(r, FALSE)},
             replies' = [replies EXCEPT ![runs[r].sending] = WindowStart(runs[r].sending)]
      PROVE  RepliesFollowMail'
  <2> DEFINE x == runs[r].sending
             new == NewIssue(r, FALSE)
  <2>1. /\ new.yard = x /\ new.from = WindowStart(x) /\ new.refused = FALSE /\ new.to \in Nat
        /\ \A i \in issues : i.yard = x => i.to \in Nat /\ i.to < new.to
    BY <1>3, NewWindows
  <2> HIDE DEF new
  <2>2. ASSUME NEW y \in Yards, y # x PROVE Follows(y)'
    <3>1. Sent(y)' = Sent(y)
      BY <1>3, <2>1, <2>2 DEF IssuesOf, new
    <3>2. replies'[y] = replies[y]
      BY <1>3, <2>2 DEF Base, TypeOK
    <3> QED
      BY <3>1, <3>2, <1>b
  <2>3. ASSUME NEW y \in Yards, y = x PROVE Follows(y)'
    <3>1. Sent(y)' = {i \in issues : i.yard = y /\ ~i.refused} \cup {new}
      BY <1>3, <2>1, <2>3 DEF IssuesOf, new
    <3>2. new \in Sent(y)' /\ \A i \in Sent(y)' : i.to \in Nat /\ i.to <= new.to
      BY <2>1, <2>3, <3>1
    <3> HIDE DEF Sent
    <3>3. Max(Ends(Sent(y)')) = new.to
      BY <3>2, NewestEnd
    <3>4. replies'[y] = new.from
      BY <1>3, <2>1, <2>3 DEF Base, TypeOK
    <3> QED
      BY <3>2, <3>3, <3>4
  <2> QED
    BY <2>2, <2>3, <1>c
<1>4. CASE \/ MemberSteps \/ FamilySteps \/ NudgeRotate
           \/ \E delivered \in BOOLEAN : NudgeMail(delivered)
  BY <1>4, <1>1, OthersKeepRuns
<1>5. ASSUME NEW r \in Runs, RunSteps(r) PROVE RepliesFollowMail'
  BY <1>1, <1>2, <1>3, <1>5, Outcomes
<1> QED
  BY <1>4, <1>5, NextSteps

(* The reply addresses that are current on a side are those of the newest   *)
(* message delivered there (mint_for_issue inside _send_one's savepoint).   *)
THEOREM RepliesOfNewest == Spec => []RepliesFollowMail
<1>1. Init => RepliesFollowMail
  BY DEF Init, RepliesFollowMail, IssuesOf
<1>2. Base /\ RepliesFollowMail /\ [Next]_vars => RepliesFollowMail'
  <2>1. ASSUME RepliesFollowMail, UNCHANGED vars PROVE RepliesFollowMail'
    BY <2>1 DEF RepliesFollowMail, IssuesOf, Ends, vars
  <2> QED
    BY <2>1, RepliesStep
<1> QED
  BY <1>1, <1>2, BaseHolds, PTL DEF Spec

-----------------------------------------------------------------------------
(* No post passed over.                                                     *)

Since(c) ==
    c # Nothing => \A y \in Yards : IssuesOf(y) # {} => \E k \in IssuesOf(y) : k.from <= c

(* Nothing lies ahead of the clock, and a side's windows, which begin no    *)
(* later than the address was proven, leave no gap between them.            *)
Chained ==
    /\ \A r \in Runs : runs[r] # Nothing => runs[r].at <= now
    /\ \A i \in issues : i.from < i.to /\ i.to <= now
    /\ \A i, k \in issues : \A t \in Nat :
        k.yard = i.yard /\ k.from <= t /\ t < i.to
        => \E j \in issues : j.yard = i.yard /\ j.from <= t /\ t < j.to
    /\ Enrolled => Since(sub.confirmed)
    /\ form # Nothing => Since(form.confirmed)

Standing(p) == posts[p] # Nothing /\ ~posts[p].down /\ ~posts[p].late

(* A window that was not refused has a message with all that still stands.  *)
Carried ==
    \A j \in issues : ~j.refused =>
        \E m \in mails :
            /\ m.kept /\ m.yard = j.yard /\ m.from = j.from
            /\ \A p \in Posts :
                (/\ Standing(p) /\ j.yard \in posts[p].yards
                 /\ j.from <= posts[p].at /\ posts[p].at < j.to)
                => p \in m.posts

LEMMA Numbers ==
    ASSUME TypeOK
    PROVE  /\ now \in Nat
           /\ \A i \in issues : i.from \in Nat /\ i.to \in Nat /\ i.yard \in Yards
           /\ \A r \in Runs : runs[r] # Nothing => runs[r].at \in Nat
           /\ \A p \in Posts : posts[p] # Nothing => posts[p].at \in Nat
           /\ Enrolled /\ sub.confirmed # Nothing => sub.confirmed \in Nat
  BY NothingApart DEF TypeOK, Issue, Run, Post, Maybe, Enrolled, Subscription

LEMMA SinceNow ==
    ASSUME TypeOK, Chained
    PROVE  Since(now)
<1>1. \A i \in issues : i.from <= now
  BY Numbers DEF Chained
<1> QED
  BY <1>1 DEF Since, IssuesOf

LEMMA OthersChained ==
    ASSUME Base, Chained, Next, UNCHANGED issues,
           \/ MemberSteps \/ FamilySteps \/ NudgeRotate
           \/ \E delivered \in BOOLEAN : NudgeMail(delivered)
    PROVE  Chained'
<1> USE DEF inbox
<1>a. TypeOK /\ Base'
  BY BaseStep DEF Base
<1>b. UNCHANGED runs /\ now <= now'
  BY <1>a, OthersKeepRuns, PostsStay
<1>c. /\ \A r \in Runs : runs'[r] # Nothing => runs'[r].at <= now'
      /\ \A i \in issues' : i.from < i.to /\ i.to <= now'
  BY <1>a, <1>b, Numbers DEF Chained, Base, TypeOK, Times
<1>d. ASSUME NEW c PROVE Since(c)' <=> Since(c)
  BY DEF Since, IssuesOf
<1>e. Enrolled => sub \in Subscription
  BY <1>a DEF TypeOK, Maybe, Enrolled
<1> DEFINE Dates == {now, Nothing}
                      \cup (IF Enrolled THEN {sub.confirmed} ELSE {})
                      \cup (IF form # Nothing THEN {form.confirmed} ELSE {})
<1>f. \A c \in Dates : Since(c)
  BY <1>a, SinceNow DEF Chained, Since
<1>1. ASSUME MemberSteps
      PROVE  /\ Enrolled' => sub'.confirmed \in Dates
             /\ form' # Nothing => form'.confirmed \in Dates
  <2>1. ASSUME NEW a \in Addresses, Resubscribe(a)
        PROVE  sub'.confirmed \in Dates /\ form' = Nothing
    BY <1>e, <2>1 DEF Resubscribe, Subscription
  <2>2. ASSUME NEW a \in Addresses, NEW b \in BOOLEAN, OpenSubscribe(a, b)
        PROVE  UNCHANGED sub /\ form'.confirmed \in Dates
    BY <2>2 DEF OpenSubscribe, ConfirmedFor
  <2>3. ASSUME CommitSubscribe PROVE sub'.confirmed \in Dates /\ form' = Nothing
    BY <2>3 DEF CommitSubscribe
  <2>4. ASSUME AbandonSubscribe PROVE UNCHANGED sub /\ form' = Nothing
    BY <2>4 DEF AbandonSubscribe
  <2>5. ASSUME NEW a \in Addresses, NEW link \in Links, Confirm(a, link)
        PROVE  sub'.confirmed \in Dates /\ UNCHANGED form
    BY <1>e, <2>5 DEF Confirm, Subscription
  <2>6. ASSUME TapAccountLink
        PROVE  (Enrolled' => sub'.confirmed \in Dates) /\ UNCHANGED form
    BY <1>e, <2>6 DEF TapAccountLink, ReceiverMatches, Subscription, Enrolled
  <2>7. ASSUME NEW b \in BOOLEAN, SetEnabled(b)
        PROVE  sub'.confirmed \in Dates /\ UNCHANGED form
    BY <1>e, <2>7 DEF SetEnabled, Subscription
  <2>8. ASSUME NEW link \in Links, Unsubscribe(link)
        PROVE  sub'.confirmed \in Dates /\ UNCHANGED form
    BY <1>e, <2>8 DEF Unsubscribe, Subscription
  <2> QED
    BY <1>1, <2>1, <2>2, <2>3, <2>4, <2>5, <2>6, <2>7, <2>8 DEF MemberSteps, Enrolled
<1>2. ASSUME FamilySteps
      PROVE  /\ Enrolled' => sub'.confirmed \in Dates
             /\ form' # Nothing => form'.confirmed \in Dates
  <2>1. /\ UNCHANGED form
        /\ sub' = sub \/ (Enrolled /\ sub' \in {Voided, [Voided EXCEPT !.enabled = FALSE]})
    BY <1>2 DEF FamilySteps, LoseSide, Remove, GainSide, CommitPost, DeletePost, Tick
  <2>2. Enrolled => \A row \in {Voided, [Voided EXCEPT !.enabled = FALSE]} :
            row.confirmed = sub.confirmed
    BY <1>e DEF Voided, Subscription
  <2> QED
    BY <2>1, <2>2 DEF Enrolled
<1>3. ASSUME NudgeRotate \/ \E delivered \in BOOLEAN : NudgeMail(delivered)
      PROVE  /\ Enrolled' => sub'.confirmed \in Dates
             /\ form' # Nothing => form'.confirmed \in Dates
  <2>1. /\ UNCHANGED form
        /\ \/ UNCHANGED sub
           \/ Enrolled /\ \E link : sub' = [sub EXCEPT !.stop = link]
    <3>1. CASE NudgeRotate
      BY <3>1 DEF NudgeRotate, Wanted
    <3>2. CASE \E delivered \in BOOLEAN : NudgeMail(delivered)
      BY <3>2 DEF NudgeMail
    <3> QED
      BY <1>3, <3>1, <3>2
  <2>2. UNCHANGED sub \/ (Enrolled /\ sub'.confirmed = sub.confirmed)
    BY <1>e, <2>1 DEF Subscription
  <2> QED
    BY <2>1, <2>2 DEF Enrolled
<1>4. (Enrolled => Since(sub.confirmed))' /\ (form # Nothing => Since(form.confirmed))'
  <2> HIDE DEF Dates
  <2> QED
    BY <1>1, <1>2, <1>3, <1>d, <1>f
<1> QED
  BY <1>c, <1>4 DEF Chained

LEMMA RunChained ==
    ASSUME Base, Chained, NEW r \in Runs, RunSteps(r)
    PROVE  Chained'
<1>a. TypeOK /\ Base' /\ TypeOK'
  BY BaseStep DEF Base, Next
<1>b. UNCHANGED <<now, form>> /\ (Enrolled' <=> Enrolled)
  BY RunsKeepRow
<1>c. Enrolled => sub'.confirmed = sub.confirmed
  BY RunsKeepRow DEF Subscription
<1>d. \A s \in Runs : runs'[s] # Nothing => runs'[s].at <= now'
  <2>1. StartRun(r) => runs'[r].at = now
    BY <1>a DEF StartRun, TypeOK
  <2> QED
    BY <1>a, <1>b, <2>1, SlotMoves, Numbers DEF Chained
<1>1. CASE UNCHANGED issues
  <2>1. \A c : Since(c)' <=> Since(c)
    BY <1>1 DEF Since, IssuesOf
  <2>2. (Enrolled => Since(sub.confirmed))' /\ (form # Nothing => Since(form.confirmed))'
    BY <1>b, <1>c, <2>1 DEF Chained
  <2> QED
    BY <1>1, <1>b, <1>d, <2>2 DEF Chained
<1>2. ASSUME NEW refused \in BOOLEAN, Open(r), issues' = issues \cup {NewIssue(r, refused)}
      PROVE  Chained'
  <2> DEFINE new == NewIssue(r, refused)
  <2>1. /\ new.from = WindowStart(new.yard) /\ new.to = runs[r].at /\ new.from < new.to
        /\ new.from \in Nat /\ new.to \in Nat /\ new.yard \in Yards
        /\ \A i \in issues : i.yard = new.yard => i.to <= new.from
    BY <1>2, NewWindows DEF Issue
  <2>2. Wanted /\ form = Nothing /\ runs[r].at <= now
    BY <1>2 DEF Base, Locked, Open, Chained
  <2>3. /\ IssuesOf(new.yard) = {} => new.from = sub.confirmed
        /\ IssuesOf(new.yard) # {} => \E e \in issues : e.yard = new.yard /\ new.from = e.to
    BY <1>a, <2>1, <2>2, WindowStarts DEF Base, IssuesOf
  <2> HIDE DEF new
  <2>4. \A i \in issues' : i.from < i.to /\ i.to <= now'
    BY <1>2, <1>b, <2>1, <2>2 DEF Chained, new
  <2>5. ASSUME NEW i \in issues', NEW k \in issues', NEW t \in Nat,
               k.yard = i.yard, k.from <= t, t < i.to
        PROVE  \E j \in issues' : j.yard = i.yard /\ j.from <= t /\ t < j.to
    <3>1. issues' = issues \cup {new}
      BY <1>2 DEF new
    <3>2. CASE i.yard = new.yard /\ new.from <= t
      <4>1. t < new.to
        BY <1>a, <2>1, <2>5, <3>1, <3>2, Numbers
      <4> QED
        BY <3>1, <3>2, <4>1
    <3>3. CASE i.yard = new.yard /\ t < new.from
      <4>1. k \in issues
        BY <2>1, <2>5, <3>1, <3>3
      <4>2. PICK e \in issues : e.yard = new.yard /\ new.from = e.to
        BY <2>3, <2>5, <3>3, <4>1 DEF IssuesOf
      <4>3. \E j \in issues : j.yard = e.yard /\ j.from <= t /\ t < j.to
        BY <2>5, <3>3, <4>1, <4>2 DEF Chained
      <4> QED
        BY <3>1, <3>3, <4>2, <4>3
    <3>4. CASE i.yard # new.yard
      BY <2>5, <3>1, <3>4 DEF Chained
    <3> QED
      BY <2>1, <3>2, <3>3, <3>4
  <2>6. ASSUME NEW y \in Yards, IssuesOf(y)' # {}, sub.confirmed # Nothing
        PROVE  \E k \in IssuesOf(y)' : k.from <= sub.confirmed
    <3>1. IssuesOf(y)' = IssuesOf(y) \cup {i \in {new} : i.yard = y}
      BY <1>2 DEF IssuesOf, new
    <3>2. CASE IssuesOf(y) = {}
      <4>1. new.yard = y /\ new \in IssuesOf(y)'
        BY <2>6, <3>1, <3>2
      <4>2. new.from = sub.confirmed
        BY <2>3, <3>2, <4>1
      <4> QED
        BY <2>1, <4>1, <4>2
    <3>3. CASE IssuesOf(y) # {}
      <4>1. \E k \in IssuesOf(y) : k.from <= sub.confirmed
        BY <2>2, <2>6, <3>3 DEF Chained, Since, Wanted
      <4> QED
        BY <3>1, <4>1
    <3> QED
      BY <3>2, <3>3
  <2>7. (Enrolled => Since(sub.confirmed))'
    BY <1>c, <2>2, <2>6 DEF Since, Wanted
  <2>8. form' = Nothing
    BY <1>b, <2>2
  <2> QED
    BY <1>d, <2>4, <2>5, <2>7, <2>8 DEF Chained
<1> QED
  BY <1>1, <1>2, RunIssues

LEMMA CarriedStep ==
    ASSUME Base, Chained, Carried, Next
    PROVE  Carried'
<1>a. TypeOK
  BY DEF Base
<1>1. CASE UNCHANGED <<issues, mails>>
  <2>1. ASSUME NEW j \in issues, NEW p \in Posts, Standing(p)', j.yard \in posts'[p].yards,
               j.from <= posts'[p].at, posts'[p].at < j.to
        PROVE  Standing(p) /\ posts'[p].yards = posts[p].yards /\ posts'[p].at = posts[p].at
    <3>1. j.to <= now
      BY DEF Chained
    <3>2. posts[p] # Nothing
      <4>1. posts[p] = Nothing => posts'[p].at = now
        BY <1>a, <2>1, PostsStay DEF Standing
      <4> QED
        BY <1>a, <2>1, <3>1, <4>1, Numbers
    <3> QED
      BY <1>a, <2>1, <3>2, PostsStay DEF Standing
  <2> QED
    BY <1>1, <2>1 DEF Carried
<1>b. ASSUME UNCHANGED posts, mails \subseteq mails'
      PROVE  \A j \in issues : ~j.refused =>
                \E m \in mails' :
                    /\ m.kept /\ m.yard = j.yard /\ m.from = j.from
                    /\ \A p \in Posts :
                        (/\ Standing(p)' /\ j.yard \in posts'[p].yards
                         /\ j.from <= posts'[p].at /\ posts'[p].at < j.to)
                        => p \in m.posts
  BY <1>b DEF Carried, Standing
<1>2. ASSUME NEW r \in Runs, RunSteps(r), ~ UNCHANGED <<issues, mails>> PROVE Carried'
  <2> DEFINE y == runs[r].sending
             built == WindowPosts(y, runs[r].at)
  <2>1. UNCHANGED posts /\ Open(r) /\ y \in on
    BY <1>2, RunsKeepRow, Outcomes DEF Base, Locked
  <2>2. CASE issues' = issues \cup {NewIssue(r, TRUE)} /\ UNCHANGED mails
    <3>1. \A j \in issues' : ~j.refused => j \in issues
      BY <2>2 DEF NewIssue
    <3> QED
      BY <1>b, <2>1, <2>2, <3>1 DEF Carried
  <2>3. CASE UNCHANGED issues /\ mails \subseteq mails'
    BY <1>b, <2>1, <2>3 DEF Carried
  <2>4. ASSUME NEW link \in Links, issues' = issues \cup {NewIssue(r, FALSE)},
               mails' = mails \cup {NewMail(r, built, link, TRUE)}
        PROVE  Carried'
    <3> DEFINE new == NewIssue(r, FALSE)
               m == NewMail(r, built, link, TRUE)
    <3>1. /\ new.yard = y /\ new.from = WindowStart(y) /\ new.to = runs[r].at
          /\ m.kept = TRUE /\ m.yard = y /\ m.from = WindowStart(y) /\ m.posts = built
      BY DEF NewIssue, NewMail
    <3>2. m \in mails'
      BY <2>4
    <3>3. ASSUME NEW p \in Posts, Standing(p), y \in posts[p].yards,
                 WindowStart(y) <= posts[p].at, posts[p].at < runs[r].at
          PROVE  p \in built
      BY <2>1, <3>3 DEF WindowPosts, InWindow, Visible, Standing
    <3>4. \A p \in Posts : Standing(p)' <=> Standing(p)
      BY <2>1 DEF Standing
    <3> HIDE DEF new, m, built, y
    <3>5. \E n \in mails' :
            /\ n.kept /\ n.yard = new.yard /\ n.from = new.from
            /\ \A p \in Posts :
                (/\ Standing(p)' /\ new.yard \in posts'[p].yards
                 /\ new.from <= posts'[p].at /\ posts'[p].at < new.to)
                => p \in n.posts
      BY <2>1, <3>1, <3>2, <3>3, <3>4
    <3>6. issues' = issues \cup {new} /\ mails \subseteq mails'
      BY <2>4 DEF new, m
    <3> QED
      BY <1>b, <2>1, <3>5, <3>6 DEF Carried
  <2>5. \/ issues' = issues \cup {NewIssue(r, TRUE)} /\ UNCHANGED mails
        \/ UNCHANGED issues /\ mails \subseteq mails'
        \/ /\ issues' = issues \cup {NewIssue(r, FALSE)}
           /\ \E link \in Links : mails' = mails \cup {NewMail(r, built, link, TRUE)}
    BY <1>2, Outcomes
  <2> QED
    BY <2>2, <2>3, <2>4, <2>5
<1>3. CASE \/ MemberSteps \/ FamilySteps \/ NudgeRotate
           \/ \E delivered \in BOOLEAN : NudgeMail(delivered)
  BY <1>1, <1>3, OthersKeepRuns
<1> QED
  BY <1>1, <1>2, <1>3, NextSteps

(* A side's runs pass over no post that still stands, for any number of     *)
(* posts, sides and overlapping, crashing or refused runs (_window_start    *)
(* and window_posts).                                                       *)
THEOREM NothingPassedOver == Spec => []NoPostPassedOver
<1>1. Init => Chained /\ Carried
  BY DEF Init, Chained, Carried, Enrolled
<1>2. Base /\ Chained /\ Carried /\ [Next]_vars => Chained' /\ Carried'
  <2>1. ASSUME Chained, Carried, UNCHANGED vars PROVE Chained' /\ Carried'
    BY <2>1 DEF Chained, Carried, Since, Standing, IssuesOf, Enrolled, vars, inbox
  <2>2. ASSUME Base, Chained, Carried, Next PROVE Chained'
    BY <2>2, NextSteps, OthersKeepRuns, OthersChained, RunChained
  <2> QED
    BY <2>1, <2>2, CarriedStep
<1>3. Base /\ Chained /\ Carried => NoPostPassedOver
  <2> SUFFICES ASSUME Base, Chained, Carried, NEW p \in Posts, NEW i \in issues,
                      Standing(p), Wanted, sub.confirmed <= posts[p].at,
                      i.yard \in posts[p].yards, posts[p].at < i.to
               PROVE  \E j \in IssuesOf(i.yard) :
                        /\ j.from <= posts[p].at /\ posts[p].at < j.to
                        /\ \/ j.refused
                           \/ \E m \in mails : /\ m.kept /\ m.yard = j.yard
                                               /\ m.from = j.from /\ p \in m.posts
    BY DEF NoPostPassedOver, Standing
  <2>1. TypeOK /\ posts[p].at \in Nat /\ sub.confirmed \in Nat /\ i.yard \in Yards
    BY Numbers DEF Base, Standing, Wanted
  <2>2. PICK k \in issues : k.yard = i.yard /\ k.from <= sub.confirmed /\ k.from \in Nat
    <3>1. i \in IssuesOf(i.yard)
      BY DEF IssuesOf
    <3>2. \E k \in IssuesOf(i.yard) : k.from <= sub.confirmed
      BY <2>1, <3>1 DEF Chained, Since, Wanted
    <3> QED
      BY <2>1, <3>2, Numbers DEF IssuesOf
  <2>3. k.from <= posts[p].at
    BY <2>1, <2>2
  <2>4. PICK j \in issues : j.yard = i.yard /\ j.from <= posts[p].at /\ posts[p].at < j.to
    BY <2>1, <2>2, <2>3 DEF Chained
  <2>5. j \in IssuesOf(i.yard)
    BY <2>4 DEF IssuesOf
  <2>6. ~j.refused => \E m \in mails : /\ m.kept /\ m.yard = j.yard
                                       /\ m.from = j.from /\ p \in m.posts
    BY <2>4 DEF Carried
  <2> QED
    BY <2>4, <2>5, <2>6
<1> QED
  BY <1>1, <1>2, <1>3, BaseHolds, PTL DEF Spec
=============================================================================
