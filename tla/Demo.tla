-------------------------------- MODULE Demo --------------------------------
(***************************************************************************)
(* Fixture data and how it is taken out of a living instance               *)
(* (core/demo_marking.py, core/demo_data.py and their two commands).       *)
(*                                                                         *)
(* The operator marks whole sides of the family; what lies entirely inside *)
(* them is marked with them.  Later a wipe locks the marked rows, collects *)
(* what would go with them, refuses if that reaches what real people made  *)
(* or strands anyone, and only then deletes.  Meanwhile people post,       *)
(* reply, delete, move and make pods.  The operator is taken to run one    *)
(* command at a time: the deletes read the marker afresh, and nothing in   *)
(* the code would keep a second command from marking more in between.      *)
(*                                                                         *)
(* A row that is locked by the wipe cannot be the target of a new          *)
(* reference until the wipe commits.  Reactions, faces, sessions and       *)
(* logins go with their member and are left out; so are supervised         *)
(* children.                                                               *)
(***************************************************************************)
EXTENDS Naturals, FiniteSets, Sequences, SequencesExt, Lists

CONSTANTS
    People, Pods, Sides,
    Clubs,        \* the ad-hoc pods
    SidesOf,      \* SidesOf[g]: the sides the pod g is on
    Settled,      \* Settled[g]: who is in the pod g at first, in the order they came
    Later,        \* the pods that are not made yet
    Foreign,      \* the pods that carry another generator's marker
    MaxWords,     \* bound on posts and replies
    MaxMoves,     \* bound on changes of pods
    Nobody

ASSUME PodsAssumption ==
    /\ Clubs \cup Later \cup Foreign \subseteq Pods 
    /\ People \cap Pods = {} /\ Pods \cap Sides = {}
    /\ SidesOf \in [Pods -> SUBSET Sides] /\ Settled \in [Pods -> Seq(People)]
    /\ \A g \in Later : Settled[g] = <<>>
ASSUME DemoBounds == MaxWords \in Nat /\ MaxMoves \in Nat /\ Nobody \notin People

VARIABLES
    there,     \* the people, pods and sides that have a row
    marked,    \* those whose seeded_by is the marker
    roster,    \* roster[g]: its members, in the order they came
    owner,     \* owner[g] of a club
    word,      \* posts and replies, by primary key
    op,        \* the command under way
    strays,    \* history: those who changed pods while a wipe was under way
    moves

demoVars == <<there, marked, roster, owner, word, op, strays, moves>>

In(p) == {g \in Pods : p \in ToSet(roster[g])}

NoCommand == [at |-> "idle", rows |-> {}]

Word == [author : People, pod : Pods, on : 0 .. MaxWords, live : BOOLEAN, pictures : BOOLEAN, kept : BOOLEAN]

DemoTypeOK ==
    /\ there \subseteq People \cup Pods \cup Sides /\ marked \subseteq there
    /\ roster \in [Pods -> Seq(People)] /\ owner \in [Clubs -> People \cup {Nobody}]
    /\ word \in Seq(Word)
    /\ op.at \in {"idle", "previewed", "wiping"} /\ op.rows \subseteq People \cup Pods \cup Sides
    /\ strays \subseteq People /\ moves \in 0 .. MaxMoves

DemoInit ==
    /\ there = (People \cup Pods \cup Sides) \ Later
    /\ marked = {}
    /\ roster = Settled
    /\ owner = [g \in Clubs |-> IF Settled[g] = <<>> THEN Nobody ELSE Head(Settled[g])]
    /\ word = <<>>
    /\ op = NoCommand /\ strays = {} /\ moves = 0

-----------------------------------------------------------------------------
(* What the family does.                                                   *)

\* Mutant: the marked rows are read without FOR UPDATE.
Locked_Nothing(x) == FALSE

Locked(x) == op.at = "wiping" /\ x \in op.rows

Post(p, g) ==
    /\ g \in In(p) /\ ~ Locked(p) /\ ~ Locked(g) /\ Len(word) < MaxWords
    /\ word' = Append(word, [author |-> p, pod |-> g, on |-> 0,
                             live |-> TRUE, pictures |-> FALSE, kept |-> TRUE])
    /\ UNCHANGED <<there, marked, roster, owner, op, strays, moves>>

\* Nothing locks the post that is replied to.
Reply(p, i) ==
    /\ word[i].kept /\ word[i].live /\ word[i].on = 0 /\ word[i].pod \in In(p)
    /\ ~ Locked(p) /\ Len(word) < MaxWords
    /\ word' = Append(word, [author |-> p, pod |-> word[i].pod, on |-> i,
                             live |-> TRUE, pictures |-> FALSE, kept |-> TRUE])
    /\ UNCHANGED <<there, marked, roster, owner, op, strays, moves>>

\* A picture may be attached to a row that has been deleted meanwhile.
Attach(i) ==
    /\ word[i].kept /\ ~ word[i].pictures
    /\ word' = [word EXCEPT ![i].pictures = TRUE]
    /\ UNCHANGED <<there, marked, roster, owner, op, strays, moves>>

DeleteWord(i) ==
    /\ word[i].kept /\ word[i].live
    /\ word' = [word EXCEPT ![i].live = FALSE, ![i].pictures = FALSE]
    /\ UNCHANGED <<there, marked, roster, owner, op, strays, moves>>

Move == moves < MaxMoves /\ moves' = moves + 1

Strays(p) == strays' = IF op.at = "wiping" THEN strays \cup {p} ELSE strays

Join(p, g) ==
    /\ {p, g} \subseteq there /\ g \notin In(p) /\ Move
    /\ ~ Locked(p) /\ ~ Locked(g)
    /\ roster' = [roster EXCEPT ![g] = Append(@, p)]
    /\ Strays(p)
    /\ UNCHANGED <<there, marked, owner, word, op>>

\* A pod made by one of the people, on sides that are there.
MakePod(p, g) ==
    /\ p \in there /\ g \in Later \ there /\ SidesOf[g] \subseteq there /\ Move
    /\ ~ Locked(p) /\ \A y \in SidesOf[g] : ~ Locked(y)
    /\ there' = there \cup {g}
    /\ roster' = [roster EXCEPT ![g] = <<p>>]
    /\ owner' = [h \in Clubs |-> IF h = g THEN p ELSE owner[h]]
    /\ UNCHANGED <<marked, word, op, strays>>

\* succeed_owner: the one who has been there longest, if the owner is no longer there.
Successor(now, members) ==
    IF now \in ToSet(members) THEN now ELSE IF members = <<>> THEN Nobody ELSE Head(members)

\* Nobody leaves their last household; an owner who leaves hands on, to an unlocked row.
Leave(p, g) ==
    /\ g \in In(p) /\ ~ Locked(p) /\ Move
    /\ g \in Clubs \/ In(p) \ (Clubs \cup {g}) # {}
    /\ roster' = [roster EXCEPT ![g] = Without(@, {p})]
    /\ owner' = [h \in Clubs |-> IF h = g THEN Successor(owner[h], Without(roster[h], {p})) ELSE owner[h]]
    /\ \A h \in Clubs : owner'[h] # owner[h] => ~ Locked(owner'[h])
    /\ Strays(p)
    /\ UNCHANGED <<there, marked, word, op>>

\* remove_member: no pods are left, what was written stays, or is deleted.
Depart(p) ==
    /\ p \in there /\ In(p) # {} /\ ~ Locked(p) /\ Move
    /\ roster' = [g \in Pods |-> Without(roster[g], {p})]
    /\ owner' = [h \in Clubs |-> Successor(owner[h], Without(roster[h], {p}))]
    /\ \A h \in Clubs : owner'[h] # owner[h] => ~ Locked(owner'[h])
    /\ \/ word' = word
       \/ word' = [i \in DOMAIN word |-> IF word[i].author = p
                       THEN [word[i] EXCEPT !.live = FALSE, !.pictures = FALSE] ELSE word[i]]
    /\ Strays(p)
    /\ UNCHANGED <<there, marked, op>>

-----------------------------------------------------------------------------
(* Marking, by containment.                                                *)

PodsWithin(named) ==
    {g \in there \cap Pods : SidesOf[g] # {} /\ SidesOf[g] \subseteq named}

\* In no pod, having written inside and nowhere else.
Departed(pods) ==
    {p \in there \cap People :
        /\ In(p) = {}
        /\ \E i \in DOMAIN word : word[i].kept /\ word[i].author = p
        /\ \A i \in DOMAIN word : word[i].kept /\ word[i].author = p => word[i].pod \in pods}

Selected(named, andDeparted) ==
    LET pods == PodsWithin(named)
    IN named \cup pods \cup {p \in there \cap People : In(p) # {} /\ In(p) \subseteq pods}
             \cup (IF andDeparted THEN Departed(pods) ELSE {})

Plan(named, andDeparted) ==
    [at |-> "previewed", rows |-> Selected(named, andDeparted),
     named |-> named, andDeparted |-> andDeparted]

\* The command prints the plan; what another generator marked is refused.
Preview(named, andDeparted) ==
    /\ op = NoCommand /\ named # {} /\ named \subseteq there
    /\ Plan(named, andDeparted).rows \cap Foreign = {}
    /\ op' = Plan(named, andDeparted)
    /\ UNCHANGED <<there, marked, roster, owner, word, strays, moves>>

\* Selected again, and stamped only if that is what was previewed.
Stamp ==
    /\ op.at = "previewed"
    /\ marked' = IF Selected(op.named, op.andDeparted) = op.rows THEN marked \cup op.rows ELSE marked
    /\ op' = NoCommand
    /\ UNCHANGED <<there, roster, owner, word, strays, moves>>

Unmark ==
    /\ op = NoCommand /\ marked # {}
    /\ marked' = {}
    /\ UNCHANGED <<there, roster, owner, word, op, strays, moves>>

-----------------------------------------------------------------------------
(* The wipe.                                                               *)

\* The closure: what is written by the marked or in their pods, and replies to that.
Doomed(i) ==
    /\ word[i].kept
    /\ \/ word[i].author \in marked \/ word[i].pod \in marked
       \/ word[i].on # 0 /\ word[word[i].on].author \in marked

\* Deleted through the product, and its pictures with it.
AlreadyDeleted(i) == ~ word[i].live /\ ~ word[i].pictures

\* Written by someone real.
Trespass == \E i \in DOMAIN word :
    Doomed(i) /\ word[i].author \notin marked /\ ~ AlreadyDeleted(i)

HasHome(p, pods, sides) == \E g \in In(p) \cap pods : SidesOf[g] \cap sides # {}

\* A pod that survives is a home if one of its sides does.  Mutant: any side.
SidesLeft_All == Sides

SidesLeft == there \ marked

Stranded ==
    {p \in (there \cap People) \ marked : In(p) # {} /\ ~ HasHome(p, there \ marked, SidesLeft)}

WipeBegin ==
    /\ op = NoCommand /\ marked # {}
    /\ ~ Trespass /\ Stranded = {}
    /\ op' = [at |-> "wiping", rows |-> marked]
    /\ UNCHANGED <<there, marked, roster, owner, word, strays, moves>>

\* With its files.
Purged(w) == [w EXCEPT !.kept = FALSE, !.pictures = FALSE]

\* The deletions cascade afresh; the clubs that lose their owner are handed on.
WipeEnd ==
    /\ op.at = "wiping"
    /\ there' = there \ marked
    /\ word' = [i \in DOMAIN word |-> IF Doomed(i) THEN Purged(word[i]) ELSE word[i]]
    /\ roster' = [g \in Pods |->
           IF g \in marked THEN <<>> ELSE Without(roster[g], marked)]
    /\ owner' = [g \in Clubs |->
           IF g \in marked THEN Nobody
           ELSE IF owner[g] \in marked THEN Successor(Nobody, roster'[g]) ELSE owner[g]]
    /\ marked' = {}
    /\ op' = NoCommand /\ strays' = {}
    /\ UNCHANGED moves

\* Rolled back.
WipeCrash ==
    /\ op.at = "wiping"
    /\ op' = NoCommand /\ strays' = {}
    /\ UNCHANGED <<there, marked, roster, owner, word, moves>>

-----------------------------------------------------------------------------
DemoNext ==
    \/ \E p \in People, g \in Pods : Post(p, g) \/ Join(p, g) \/ MakePod(p, g) \/ Leave(p, g)
    \/ \E i \in DOMAIN word : (\E p \in People : Reply(p, i)) \/ Attach(i) \/ DeleteWord(i)
    \/ \E p \in People : Depart(p)
    \/ \E named \in SUBSET Sides, andDeparted \in BOOLEAN : Preview(named, andDeparted)
    \/ Stamp \/ Unmark \/ WipeBegin \/ WipeEnd \/ WipeCrash

DemoSpec == DemoInit /\ [][DemoNext]_demoVars

-----------------------------------------------------------------------------
(* No wipe takes a live post of somebody who is not part of the fixture,   *)
(* however late it was written (the locks of wipe).                        *)
RealWords(replies) ==
    {i \in DOMAIN word : word[i].kept /\ word[i].live /\ word[i].author \notin marked
                         /\ (replies \/ word[i].on = 0)}

RealPostsStay == [][\A i \in RealWords(FALSE) : word'[i].kept]_demoVars

(* A wipe leaves nobody without a pod on a side who had one, other than by *)
(* a move of their own meanwhile (_refuse_if_it_strands_anyone).           *)
HomesSurvive ==
    [][\A p \in (People \cap there') \ strays :
          HasHome(p, there, there) /\ op.at = "wiping" /\ op' = NoCommand =>
              \E g \in Pods \cap there' : p \in ToSet(roster'[g]) /\ SidesOf[g] \cap there' # {}]_demoVars

(* A reply by somebody real is never taken either.                         *)
RealRepliesStay == [][\A i \in RealWords(TRUE) : word'[i].kept]_demoVars

(* A wipe strands nobody, whoever moves meanwhile.                         *)
NobodyStranded ==
    [][\A p \in People \cap there' :
          HasHome(p, there, there) /\ op.at = "wiping" /\ op' = NoCommand =>
              \E g \in Pods \cap there' : p \in ToSet(roster'[g]) /\ SidesOf[g] \cap there' # {}]_demoVars
=============================================================================
