-------------------------------- MODULE Push --------------------------------
(***************************************************************************)
(* Web push (core/push.py, core/push_views.py, the two push jobs of        *)
(* core/tasks.py).                                                         *)
(*                                                                         *)
(* A browser that turns notifications on is one registration, a row.  Each *)
(* post and reply defers a job; the one worker reads the recipients and    *)
(* all their registrations, least recently delivered first, and sends to   *)
(* one after the other until a budget of time is spent.  Meanwhile browsers*)
(* come, go and change hands.                                              *)
(*                                                                         *)
(* last_success_at and created_at are only ever compared: the order they   *)
(* give is kept instead.  Time is counted in costly sends, those whose     *)
(* service hangs or takes its time.                                        *)
(***************************************************************************)
EXTENDS Naturals, FiniteSets, Sequences, SequencesExt, Lists

CONSTANTS
    Members,
    Writers,      \* those of them who write
    Browsers,     \* each with an endpoint of its own
    Keys,         \* primary keys of PushSubscription
    Answers,      \* Answers[b]: what the push service of b may do with a send
    Budget,       \* DELIVERY_BUDGET, in costly sends
    MaxRefusals,  \* MAX_CONSECUTIVE_FAILURES
    MaxDevices,   \* MAX_DEVICES_PER_MEMBER
    MaxChanges,   \* bound on the acts of members
    MaxCrashes,   \* bound on the worker's crashes
    None       \* no row, no fan-out under way

Takes == {"took", "took its time"}
Refusals == {"refused", "gone"}         \* another 4xx; 404 and 410
Silences == {"hung", "unwell"}          \* out of time; 429, 5xx, no route, not allowed
Costly == {"took its time", "hung"}

ASSUME WritersAssumption == Writers \subseteq Members
ASSUME AnswersAssumption ==
    Answers \in [Browsers -> SUBSET (Takes \cup Refusals \cup Silences)]
ASSUME PushBounds ==
    /\ Budget \in Nat \ {0} /\ MaxRefusals \in Nat \ {0} /\ MaxDevices \in Nat
    /\ MaxChanges \in Nat /\ MaxCrashes \in Nat

VARIABLES
    row,      \* row[k]: the registration with the key k
    waiting,  \* their keys: those never delivered to, in the order they were made in
    served,   \* the others, least recently delivered first
    hears,    \* members who may see what is written and want to be told
    jobs,     \* push_new_post and push_reply jobs by author, first come first served
    run,      \* the fan-out under way: what is left of the list, what is spent
    told,     \* history: told[k], refusals in a row of the registration k
    changes, crashes

pushVars == <<row, waiting, served, hears, jobs, run, told, changes, crashes>>

Row == [member : Members, browser : Browsers, fails : 0 .. MaxRefusals - 1]
Device == [key : Keys, browser : Browsers, fails : 0 .. MaxRefusals - 1]

ASSUME NoneAssumption == {None} \cap Row = {}

PushTypeOK ==
    /\ row \in [Keys -> Row \cup {None}]
    /\ waiting \in Seq(Keys) /\ served \in Seq(Keys)
    /\ \A k \in Keys : row[k] # None <=> k \in ToSet(waiting \o served)
    /\ hears \subseteq Members /\ jobs \in Seq(Writers)
    /\ run # None => run.todo \in Seq(Device) /\ run.spent \in 0 .. Budget
    /\ told \in [Keys -> 0 .. MaxRefusals]
    /\ changes \in 0 .. MaxChanges /\ crashes \in 0 .. MaxCrashes

PushInit ==
    /\ row = [k \in Keys |-> None]
    /\ waiting = <<>> /\ served = <<>>
    /\ hears = Members /\ jobs = <<>> /\ run = None
    /\ told = [k \in Keys |-> 0]
    /\ changes = 0 /\ crashes = 0

-----------------------------------------------------------------------------
Stored(k) == row[k] # None
Held(k) == run # None /\ \E d \in ToSet(run.todo) : d.key = k
Unused(k) == ~Stored(k) /\ ~Held(k)
RowsOf(b) == {k \in Keys : Stored(k) /\ row[k].browser = b}
Devices(m) == {k \in Keys : Stored(k) /\ row[k].member = m}

Dropped(keys) ==
    /\ row' = [k \in Keys |-> IF k \in keys THEN None ELSE row[k]]
    /\ waiting' = Without(waiting, keys) /\ served' = Without(served, keys)

Change == changes < MaxChanges /\ changes' = changes + 1

(* Turning notifications on: the row of this browser, whoever's it was, is  *)
(* deleted and a new one made, behind the others never delivered to.        *)
Subscribe(m, b, k) ==
    /\ Change /\ Unused(k) /\ k = CHOOSE q \in Keys : Unused(q)
    /\ RowsOf(b) \cap Devices(m) # {} \/ Cardinality(Devices(m)) < MaxDevices
    /\ row' = [q \in Keys |->
           IF q = k THEN [member |-> m, browser |-> b, fails |-> 0]
           ELSE IF q \in RowsOf(b) THEN None ELSE row[q]]
    /\ waiting' = Append(Without(waiting, RowsOf(b)), k)
    /\ served' = Without(served, RowsOf(b))
    /\ told' = [told EXCEPT ![k] = 0]
    /\ UNCHANGED <<hears, jobs, run, crashes>>

(* Turning them off on this browser, or taking a device off the list.       *)
Unsubscribe(m, b) ==
    /\ Change /\ RowsOf(b) \cap Devices(m) # {}
    /\ Dropped(RowsOf(b) \cap Devices(m))
    /\ UNCHANGED <<hears, jobs, run, told, crashes>>

(* remove_member drops the rows, and with them all the member hears.        *)
Removed(m) ==
    /\ Change /\ m \in hears
    /\ Dropped(Devices(m)) /\ hears' = hears \ {m}
    /\ UNCHANGED <<jobs, run, told, crashes>>

(* The two switches, a side or group left or joined, supervision.           *)
Prefer(m) ==
    /\ Change
    /\ hears' = IF m \in hears THEN hears \ {m} ELSE hears \cup {m}
    /\ UNCHANGED <<row, waiting, served, jobs, run, told, crashes>>

-----------------------------------------------------------------------------
(* A post or reply is committed and its job deferred; a post deleted before *)
(* the worker takes it is a job that sends nothing.                         *)
Write(m) ==
    /\ m \notin ToSet(jobs) /\ jobs' = Append(jobs, m)
    /\ UNCHANGED <<row, waiting, served, hears, run, told, changes, crashes>>

Delete(m) ==
    /\ Change /\ m \in ToSet(jobs) /\ jobs' = Without(jobs, {m})
    /\ UNCHANGED <<row, waiting, served, hears, run, told, crashes>>

(* Recipients, then their registrations, all read before the first send.    *)
Recipients(m) == hears \ {m}
Fanout(todo, spent) ==
    IF todo = <<>> \/ spent >= Budget THEN None ELSE [todo |-> todo, spent |-> spent]
Listed(m) ==
    LET keys == Without(waiting \o served,
                        {k \in Keys : Stored(k) /\ row[k].member \notin Recipients(m)})
    IN  [i \in DOMAIN keys |->
            [key |-> keys[i], browser |-> row[keys[i]].browser, fails |-> row[keys[i]].fails]]

Take ==
    /\ run = None /\ jobs # <<>>
    /\ jobs' = Tail(jobs) /\ run' = Fanout(Listed(Head(jobs)), 0)
    /\ UNCHANGED <<row, waiting, served, hears, told, changes, crashes>>

(* send_one() and _failed(): every write is by primary key, so it finds     *)
(* nothing when the registration has been replaced.  A silence is no        *)
(* evidence and is not counted.                                             *)
Behind_First(k) ==       \* mutation: the first delivery orders the list for good
    IF k \in ToSet(served) THEN served ELSE Append(served, k)
Behind(k) == Append(Without(served, {k}), k)
Counted_Silences(answer) == answer \notin Takes      \* mutation: outages count
Counted(answer) == answer \in Refusals
Condemns(answer, count) == answer = "gone" \/ count >= MaxRefusals

Delivered(d) ==
    /\ row' = [row EXCEPT ![d.key].fails = 0]
    /\ waiting' = Without(waiting, {d.key}) /\ served' = Behind(d.key)
Refused(d, answer) ==
    IF Condemns(answer, d.fails + 1) THEN Dropped({d.key})
    ELSE row' = [row EXCEPT ![d.key].fails = d.fails + 1] /\ UNCHANGED <<waiting, served>>

Send(answer) ==
    /\ run # None
    /\ LET d == Head(run.todo)
       IN  /\ answer \in Answers[d.browser]
           /\ IF ~Stored(d.key) THEN UNCHANGED <<row, waiting, served>>
              ELSE IF answer \in Takes THEN Delivered(d)
              ELSE IF Counted(answer) THEN Refused(d, answer)
              ELSE UNCHANGED <<row, waiting, served>>
           /\ told' = [told EXCEPT ![d.key] =
                  IF answer \in Takes THEN 0
                  ELSE IF answer = "gone" THEN MaxRefusals
                  ELSE IF answer = "refused" /\ @ < MaxRefusals THEN @ + 1 ELSE @]
    /\ run' = Fanout(Tail(run.todo), run.spent + IF answer \in Costly THEN 1 ELSE 0)
    /\ UNCHANGED <<hears, jobs, changes, crashes>>

(* The worker dies; the job it ran is not run again.                        *)
Crash ==
    /\ run # None /\ crashes < MaxCrashes
    /\ crashes' = crashes + 1 /\ run' = None
    /\ UNCHANGED <<row, waiting, served, hears, jobs, told, changes>>

-----------------------------------------------------------------------------
Work == \E answer \in Takes \cup Refusals \cup Silences : Send(answer)

PushNext ==
    \/ \E m \in Members, b \in Browsers : Unsubscribe(m, b) \/ \E k \in Keys : Subscribe(m, b, k)
    \/ \E m \in Members : Removed(m) \/ Prefer(m)
    \/ \E m \in Writers : Write(m) \/ Delete(m)
    \/ Take \/ Work \/ Crash

(* The family goes on writing, and the worker takes what is deferred and    *)
(* comes to the end of every send: each has a timeout.                      *)
PushSpec ==
    /\ PushInit /\ [][PushNext]_pushVars
    /\ WF_pushVars(Take) /\ WF_pushVars(Work)
    /\ \A m \in Writers : WF_pushVars(Write(m))

-----------------------------------------------------------------------------
(* A browser whose service takes what it is sent, registered to a member    *)
(* who hears of some other member's writing, is notified again and again,   *)
(* as long as the registrations that may hang cannot spend the budget among *)
(* themselves: a budget spent on others then never leaves it out for ever   *)
(* (_deliver: least recently delivered first is "the only ordering under    *)
(* which the budget's promise ... is true").                                *)
Reachable(b) ==
    /\ Answers[b] # {} /\ Answers[b] \subseteq Takes
    /\ \E k \in RowsOf(b) : row[k].member \in hears /\ Writers \ {row[k].member} # {}
Notified(b) == run # None /\ Head(run.todo).browser = b /\ Work
Stragglers == {b \in Browsers : RowsOf(b) # {} /\ "hung" \in Answers[b]}
EveryoneHears ==
    \A b \in Browsers :
        <>[](Reachable(b) /\ Cardinality(Stragglers) < Budget) => []<><<Notified(b)>>_pushVars

(* Not so without that: what hangs is not counted, so it is never deleted,  *)
(* is never delivered to, so it is sent to first, and may take the whole    *)
(* budget every time ("the next post notifies them").                       *)
NobodyStarves ==
    \A b \in Browsers : <>[]Reachable(b) => []<><<Notified(b)>>_pushVars

(* Only a service's own word about a registration ends it, and when it has  *)
(* said so often enough in a row it does; an outage, a send to a former     *)
(* registration of the same browser or a budget spent never does            *)
(* (push._failed: "counting them emptied the family's whole subscription    *)
(* table after five posts of an outage").                                   *)
RefusalsDecide ==
    /\ [](\A k \in Keys : Stored(k) => told[k] < MaxRefusals)
    /\ [][\A k \in Keys : Stored(k) /\ ~Stored(k)' /\ run' # run => told'[k] = MaxRefusals]_pushVars
=============================================================================
