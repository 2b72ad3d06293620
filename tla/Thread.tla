------------------------------- MODULE Thread -------------------------------
(***************************************************************************)
(* Posts, replies and reactions, who may see them, and how they go         *)
(* (core/posting.py, commenting.py, reacting.py, moderation.py,            *)
(* scoping.py, and the views of core/feed_views.py).                       *)
(*                                                                         *)
(* A request reads the rows it is about first, through the reader's own    *)
(* eyes, and writes some columns of them later; every query sees what has  *)
(* been committed by then.  Between two queries of one request the other   *)
(* requests run, the roster changes and people are removed.                *)
(*                                                                         *)
(* Wording, pictures, notifications and the name left on a removed         *)
(* person's rows are not modelled here.                                    *)
(***************************************************************************)
EXTENDS Naturals, FiniteSets, Sequences

CONSTANTS
    People, Admins, Pods,
    Does,         \* bound: Does[op], those who make the request op
    Moved,        \* bound: Moved[p], the pods p is put into or taken out of
    Audiences,    \* bound: the audiences they pick
    InstanceAdmins,   \* those Admins who administer every member
    Groups,       \* the ad-hoc pods; the others are households
    Sides,        \* Sides[g]: the yards of the pod g
    Founding,     \* Founding[p]: the pods p is in at first
    Kinds,        \* of reactions
    Tabs,         \* requests that may be under way at once
    Muted,        \* Muted[p]: the pods p has muted in the feed
    PageSize,     \* _PAGE_SIZE
    LastTick,     \* bound on the clock
    MaxPosts, MaxReplies, MaxReactions,   \* bounds on the rows ever written
    MaxMoves,     \* bound on the changes of the roster
    Nobody

ASSUME PeopleAssumption ==
    Nobody \notin People /\ Admins \subseteq People /\ InstanceAdmins \subseteq Admins
ASSUME DoesAssumption ==
    Does \in [{"post", "edit", "delete", "take down", "reply", "react", "read",
               "delete reply", "take reply down", "add", "leave"} -> SUBSET People]
AllSides == UNION {Sides[g] : g \in Pods}

ASSUME PodsAssumption ==
    /\ Groups \subseteq Pods /\ Founding \in [People -> SUBSET Pods] /\ Muted \in [People -> SUBSET Pods]
    /\ Moved \in [People -> SUBSET Pods]
    /\ Audiences \subseteq SUBSET AllSides
ASSUME BoundsAssumption == {PageSize, LastTick, MaxPosts, MaxReplies, MaxReactions, MaxMoves} \subseteq Nat

VARIABLES
    in,        \* in[p]: PodMembership
    removed,   \* those remove_member has been run on
    slipped,   \* history: those of them a late insert has put into a group again
    post, reply, reaction,    \* the rows, by primary key
    now,       \* the clock, in edit windows
    asked,     \* asked[t]: what the request of the tab t has read and decided
    been,      \* history: been[t], the sides the reader of the page t has been on meanwhile
    met,       \* history: met[t], those who have been on such a side meanwhile
    moves

vars == <<in, removed, slipped, post, reply, reaction, now, asked, been, met, moves>>

-----------------------------------------------------------------------------
(* The audience queries of core/scoping.py.                                *)

YardsOf(p) == UNION {Sides[g] : g \in in[p]}

\* own is what an earlier query of the same request has read: member_yard_ids is
\* evaluated before the query it goes into.
VisibleMembers(own) == {q \in People : YardsOf(q) \cap own # {}}

VisiblePosts(p) ==
    {i \in DOMAIN post :
        /\ ~ post[i].dead
        /\ \/ post[i].to = {} /\ post[i].pod \in in[p]
           \/ post[i].to \cap YardsOf(p) # {}}

\* Mutant: the replies inherit the audience of the post alone.
VisibleReplies_OfThePost(p, own) ==
    {r \in DOMAIN reply : ~ reply[r].dead /\ reply[r].on \in VisiblePosts(p)}

VisibleReplies(p, own) ==
    {r \in DOMAIN reply :
        ~ reply[r].dead /\ reply[r].on \in VisiblePosts(p) /\ reply[r].author \in VisibleMembers(own)}

VisibleReactions(p, own) ==
    {r \in DOMAIN reaction :
        /\ reaction[r].there
        /\ reaction[r].on \in VisiblePosts(p) /\ reaction[r].who \in VisibleMembers(own)}

\* The feed leaves the posts of muted pods out.
Feed(p) == {i \in VisiblePosts(p) : post[i].pod \notin Muted[p]}

-----------------------------------------------------------------------------
Idle == [op |-> "none"]

Init ==
    /\ in = Founding /\ removed = {} /\ slipped = {}
    /\ post = <<>> /\ reply = <<>> /\ reaction = <<>>
    /\ now = 0
    /\ asked = [t \in Tabs |-> Idle]
    /\ been = [t \in Tabs |-> {}] /\ met = [t \in Tabs |-> {}]
    /\ moves = 0

\* Who is logged in: removal deactivates the login, but not a request under way.
Begins(t, p) == asked[t] = Idle /\ p \notin removed

Goes(t, request) == asked' = [asked EXCEPT ![t] = request]

Done(t) == Goes(t, Idle)

Pages == {"read", "replies", "listed", "reactions", "page"}

Now(t, op) == asked[t] # Idle /\ asked[t].op = op

-----------------------------------------------------------------------------
(* Posting and its edit window.                                            *)

\* create_post reads the author's pods and yards before its transaction.
Compose(t, p, g, to) ==
    /\ Begins(t, p)
    /\ g \in in[p]
    /\ to \subseteq YardsOf(p)
    /\ Goes(t, [op |-> "post", who |-> p, pod |-> g, to |-> IF g \in Groups THEN {} ELSE to])
    /\ UNCHANGED <<in, removed, slipped, post, reply, reaction, now>>

InsertPost(t) ==
    /\ Now(t, "post") /\ Len(post) < MaxPosts
    /\ post' = Append(post, [author |-> asked[t].who, pod |-> asked[t].pod, to |-> asked[t].to,
                             at |-> now, edited |-> FALSE, dead |-> FALSE, by |-> Nobody])
    /\ Done(t)
    /\ UNCHANGED <<in, removed, slipped, reply, reaction, now>>

\* require_visible_post, and what each view asks of the row it has read.
OpenPost(t, p, i, op) ==
    /\ Begins(t, p)
    /\ i \in VisiblePosts(p)
    /\ op \in {"edit", "delete"} => post[i].author = p
    /\ op = "edit" => post[i].at = now
    /\ op = "take down" => p \in Admins
    /\ Goes(t, [op |-> op, who |-> p, on |-> i, row |-> post[i], sure |-> FALSE])
    /\ UNCHANGED <<in, removed, slipped, post, reply, reaction, now>>

\* Mutant: save() without update_fields, every column as it was read.
Edited_WholeRow(row, read) == [read EXCEPT !.edited = TRUE]

\* The columns each save names, on the row as it is by then.
Edited(row, read) == [row EXCEPT !.edited = TRUE]
Deleted(row, read) == [row EXCEPT !.dead = TRUE]
TakenDown(row, read, moderator) == [row EXCEPT !.dead = TRUE, !.by = moderator]

EditPost(t) ==
    /\ Now(t, "edit")
    /\ LET i == asked[t].on
       IN IF post[i].at = now
          THEN post' = [post EXCEPT ![i] = Edited(@, asked[t].row)]
          ELSE post' = post
    /\ Done(t)
    /\ UNCHANGED <<in, removed, slipped, reply, reaction, now>>

DeletePost(t) ==
    /\ Now(t, "delete")
    /\ post' = [post EXCEPT ![asked[t].on] = Deleted(@, asked[t].row)]
    /\ Done(t)
    /\ UNCHANGED <<in, removed, slipped, reply, reaction, now>>

-----------------------------------------------------------------------------
(* Replying and reacting look at the audience again; so does a takedown.   *)

\* A refusal ends the request.
Confirm(t, sight) ==
    IF asked[t].on \in sight THEN Goes(t, [asked[t] EXCEPT !.sure = TRUE]) ELSE Done(t)

LookAgain(t) ==
    /\ \E op \in {"take down", "reply"} : Now(t, op)
    /\ ~ asked[t].sure
    /\ Confirm(t, VisiblePosts(asked[t].who))
    /\ UNCHANGED <<in, removed, slipped, post, reply, reaction, now>>

TakeDownPost(t) ==
    /\ Now(t, "take down") /\ asked[t].sure
    /\ post' = [post EXCEPT ![asked[t].on] = TakenDown(@, asked[t].row, asked[t].who)]
    /\ Done(t)
    /\ UNCHANGED <<in, removed, slipped, reply, reaction, now>>

CreateReply(t) ==
    /\ Now(t, "reply") /\ asked[t].sure /\ Len(reply) < MaxReplies
    /\ reply' = Append(reply, [author |-> asked[t].who, on |-> asked[t].on,
                               dead |-> FALSE, by |-> Nobody])
    /\ Done(t)
    /\ UNCHANGED <<in, removed, slipped, post, reaction, now>>

\* require_visible_comment, in its two queries; the author deletes, an admin takes down.
AskForReply(t, p, op) ==
    /\ Begins(t, p)
    /\ Goes(t, [op |-> "asks", who |-> p, want |-> op, own |-> YardsOf(p)])
    /\ UNCHANGED <<in, removed, slipped, post, reply, reaction, now>>

OpenReply(t, r) ==
    /\ Now(t, "asks")
    /\ LET a == asked[t]
       IN IF /\ r \in VisibleReplies(a.who, a.own)
             /\ IF a.want = "delete reply" THEN reply[r].author = a.who ELSE a.who \in Admins
          THEN Goes(t, [op |-> a.want, who |-> a.who, on |-> r, row |-> reply[r]])
          ELSE Done(t)
    /\ UNCHANGED <<in, removed, slipped, post, reply, reaction, now>>

DeleteReply(t) ==
    /\ Now(t, "delete reply")
    /\ reply' = [reply EXCEPT ![asked[t].on] = Deleted(@, asked[t].row)]
    /\ Done(t)
    /\ UNCHANGED <<in, removed, slipped, post, reaction, now>>

\* moderation.take_down_comment asks again, in two queries again.
SidesForReply(t) ==
    /\ Now(t, "take reply down")
    /\ LET a == asked[t]
       IN Goes(t, [op |-> "asks again", who |-> a.who, on |-> a.on, row |-> a.row,
                   own |-> YardsOf(a.who), sure |-> FALSE])
    /\ UNCHANGED <<in, removed, slipped, post, reply, reaction, now>>

LookAgainAtReply(t) ==
    /\ Now(t, "asks again") /\ ~ asked[t].sure
    /\ Confirm(t, VisibleReplies(asked[t].who, asked[t].own))
    /\ UNCHANGED <<in, removed, slipped, post, reply, reaction, now>>

TakeDownReply(t) ==
    /\ Now(t, "asks again") /\ asked[t].sure
    /\ reply' = [reply EXCEPT ![asked[t].on] = TakenDown(@, asked[t].row, asked[t].who)]
    /\ Done(t)
    /\ UNCHANGED <<in, removed, slipped, post, reaction, now>>

Mine(p, i) == {r \in DOMAIN reaction : reaction[r].there /\ reaction[r].who = p /\ reaction[r].on = i}

\* toggle_reaction reads the member's row, if there is one, ...
OpenReaction(t, kind) ==
    /\ Now(t, "react")
    /\ LET i == asked[t].on
           p == asked[t].who
       IN IF i \in VisiblePosts(p)
          THEN Goes(t, [op |-> "tap", who |-> p, on |-> i, kind |-> kind,
                        had |-> {r \in Mine(p, i) : reaction[r].kind = kind}])
          ELSE Done(t)
    /\ UNCHANGED <<in, removed, slipped, post, reply, reaction, now>>

\* ... and deletes that row, or updates or creates the one there is.
Tap(t) ==
    /\ Now(t, "tap")
    /\ LET a == asked[t]
           mine == Mine(a.who, a.on)
       IN \/ /\ a.had # {}
             /\ reaction' = [r \in DOMAIN reaction |->
                    IF r \in a.had THEN [reaction[r] EXCEPT !.there = FALSE] ELSE reaction[r]]
          \/ /\ a.had = {} /\ mine # {}
             /\ reaction' = [r \in DOMAIN reaction |->
                    IF r \in mine THEN [reaction[r] EXCEPT !.kind = a.kind] ELSE reaction[r]]
          \/ /\ a.had = {} /\ mine = {} /\ Len(reaction) < MaxReactions
             /\ reaction' = Append(reaction,
                    [who |-> a.who, on |-> a.on, kind |-> a.kind, there |-> TRUE])
    /\ Done(t)
    /\ UNCHANGED <<in, removed, slipped, post, reply, now>>

-----------------------------------------------------------------------------
(* The page of a post names who replied, then who reacted; a page of the   *)
(* feed counts the replies and names who reacted.                          *)

Newer(i, j) == post[i].at > post[j].at \/ (post[i].at = post[j].at /\ i > j)

OpenFeed(t, p) ==
    /\ Begins(t, p)
    /\ LET page == {i \in Feed(p) : Cardinality({j \in Feed(p) : Newer(j, i)}) < PageSize}
       IN Goes(t, [op |-> "listed", who |-> p, of |-> page, names |-> {}])
    /\ UNCHANGED <<in, removed, slipped, post, reply, reaction, now>>

SidesForReplies(t) ==
    /\ Now(t, "read")
    /\ LET a == asked[t]
       IN Goes(t, [op |-> "replies", who |-> a.who, on |-> a.on, own |-> YardsOf(a.who)])
    /\ UNCHANGED <<in, removed, slipped, post, reply, reaction, now>>

ReadReplies(t) ==
    /\ Now(t, "replies")
    /\ LET a == asked[t]
           mine == {r \in VisibleReplies(a.who, a.own) : reply[r].on = a.on}
       IN Goes(t, [op |-> "listed", who |-> a.who, of |-> {a.on},
                   names |-> {reply[r].author : r \in mine}])
    /\ UNCHANGED <<in, removed, slipped, post, reply, reaction, now>>

SidesForReactions(t) ==
    /\ Now(t, "listed")
    /\ LET a == asked[t]
       IN Goes(t, [op |-> "reactions", who |-> a.who, of |-> a.of, names |-> a.names,
                   own |-> YardsOf(a.who)])
    /\ UNCHANGED <<in, removed, slipped, post, reply, reaction, now>>

ReadReactions(t) ==
    /\ Now(t, "reactions")
    /\ LET a == asked[t]
           theirs == {r \in VisibleReactions(a.who, a.own) : reaction[r].on \in a.of}
       IN Goes(t, [op |-> "page", who |-> a.who,
                   names |-> a.names \cup {reaction[r].who : r \in theirs}])
    /\ UNCHANGED <<in, removed, slipped, post, reply, reaction, now>>

ClosePage(t) ==
    /\ Now(t, "page")
    /\ Done(t)
    /\ UNCHANGED <<in, removed, slipped, post, reply, reaction, now>>

-----------------------------------------------------------------------------
(* The roster, and the clock.                                              *)

\* add_member_to_pod looks, without a lock (owners are in Memberships: here anyone in the
\* group may add to it), ...
OpenAdd(t, a, p, g) ==
    /\ Begins(t, a)
    /\ g \in in[a] \cap Groups
    /\ Sides[g] \cap YardsOf(p) # {}
    /\ Goes(t, [op |-> "add", who |-> a, whom |-> p, pod |-> g])
    /\ UNCHANGED <<in, removed, slipped, post, reply, reaction, now>>

\* ... and inserts, wherever the one it adds is by then.
Join(t) ==
    /\ Now(t, "add")
    /\ LET p == asked[t].whom
       IN /\ in' = [in EXCEPT ![p] = @ \cup {asked[t].pod}]
          /\ slipped' = slipped \cup ({p} \cap removed)
    /\ Done(t)
    /\ UNCHANGED <<removed, post, reply, reaction, now>>

\* can_change_household_membership: the instance admin moves anyone, a yard admin whoever
\* is on their sides only, and no other admin.
MayMove(a, p, g) ==
    \/ a \in InstanceAdmins
    \/ /\ a \in Admins /\ p \notin Admins
       /\ YardsOf(p) # {} /\ YardsOf(p) \cup Sides[g] \subseteq YardsOf(a)

\* households.add_to_household, under the lock that a removal takes too; whoever was
\* removed is a member again.
AddToHousehold(a, p, g) ==
    /\ a \notin removed /\ g \notin Groups /\ g \notin in[p]
    /\ MayMove(a, p, g)
    /\ in' = [in EXCEPT ![p] = @ \cup {g}]
    /\ removed' = removed \ {p} /\ slipped' = slipped \ {p}
    /\ UNCHANGED <<post, reply, reaction, now, asked>>

\* leave_pod and remove_from_household: no one is left without a household.
Leave(p, g) ==
    /\ g \in in[p]
    /\ in[p] \ (Groups \cup {g}) # {}
    /\ in' = [in EXCEPT ![p] = @ \ {g}]
    /\ UNCHANGED <<removed, slipped, post, reply, reaction, now, asked>>

\* remove_member: the memberships go, and on request what the member wrote.
\* Rows already deleted are left as they are.
Gone(rows, p) ==
    [i \in DOMAIN rows |-> IF rows[i].author = p THEN Deleted(rows[i], rows[i]) ELSE rows[i]]

\* Mutant: removal keeps the memberships of ad-hoc pods.
RemovedFrom_Households(p) == [in EXCEPT ![p] = @ \cap Groups]

RemovedFrom(p) == [in EXCEPT ![p] = {}]

RemoveMember(p, content) ==
    /\ removed' = removed \cup {p} /\ slipped' = slipped \ {p}
    /\ in' = RemovedFrom(p)
    /\ IF content = "delete"
       THEN post' = Gone(post, p) /\ reply' = Gone(reply, p)
       ELSE UNCHANGED <<post, reply>>
    /\ UNCHANGED <<reaction, now, asked>>

Tick ==
    /\ now < LastTick
    /\ now' = now + 1
    /\ UNCHANGED <<in, removed, slipped, post, reply, reaction, asked>>

-----------------------------------------------------------------------------
Writing(t) ==
    \/ \E p \in Does["post"], g \in Pods, to \in Audiences : Compose(t, p, g, to)
    \/ InsertPost(t)
    \/ EditPost(t) \/ DeletePost(t)
    \/ LookAgain(t) \/ TakeDownPost(t) \/ CreateReply(t)
    \/ DeleteReply(t) \/ SidesForReply(t) \/ LookAgainAtReply(t) \/ TakeDownReply(t)
    \/ \E kind \in Kinds : OpenReaction(t, kind)
    \/ Tap(t)

Reading(t) ==
    \/ \E op \in {"edit", "delete", "take down", "reply", "react", "read"} :
          \E p \in Does[op], i \in DOMAIN post : OpenPost(t, p, i, op)
    \/ \E op \in {"delete reply", "take reply down"} :
          \E p \in Does[op] : AskForReply(t, p, op)
    \/ \E r \in 1 .. MaxReplies : OpenReply(t, r)
    \/ \E p \in Does["read"] : OpenFeed(t, p)
    \/ SidesForReplies(t) \/ ReadReplies(t)
    \/ SidesForReactions(t) \/ ReadReactions(t) \/ ClosePage(t)
    \/ \E a \in Does["add"], p \in People : \E g \in Moved[p] : OpenAdd(t, a, p, g)

Roster ==
    \/ \E t \in Tabs : Join(t)
    \/ \E a \in Admins, p \in People : \E g \in Moved[p] : AddToHousehold(a, p, g)
    \/ \E p \in People : \E g \in Moved[p] : Leave(p, g)
    \/ \E p \in Does["leave"], content \in {"keep", "delete"} : RemoveMember(p, content)

\* The histories of each page, begun and dropped with the request for it.
Watch ==
    /\ been' = [t \in Tabs |->
          IF asked'[t].op \in Pages THEN been[t] \cup YardsOf(asked[t].who)' ELSE {}]
    /\ met' = [t \in Tabs |->
          IF asked'[t].op \in Pages THEN met[t] \cup VisibleMembers(been[t])' ELSE {}]

Next ==
    /\ \/ ((\E t \in Tabs : Writing(t) \/ Reading(t)) \/ Tick) /\ UNCHANGED moves
       \/ moves < MaxMoves /\ moves' = moves + 1 /\ Roster
    /\ Watch

Spec == Init /\ [][Next]_vars

-----------------------------------------------------------------------------
Row == [author : People, pod : Pods, to : SUBSET AllSides, at : 0 .. LastTick,
        edited : BOOLEAN, dead : BOOLEAN, by : People \cup {Nobody}]

TypeOK ==
    /\ in \in [People -> SUBSET Pods] /\ removed \subseteq People /\ slipped \subseteq People
    /\ post \in Seq(Row)
    /\ reply \in Seq([author : People, on : 1 .. MaxPosts, dead : BOOLEAN, by : People \cup {Nobody}])
    /\ reaction \in Seq([who : People, on : 1 .. MaxPosts, kind : Kinds, there : BOOLEAN])
    /\ been \in [Tabs -> SUBSET AllSides] /\ met \in [Tabs -> SUBSET People]
    /\ now \in 0 .. LastTick /\ moves \in 0 .. MaxMoves

(* What is deleted stays deleted, and a takedown stays signed, whichever   *)
(* requests held the row before that and write to it after (the            *)
(* update_fields of posting.py, commenting.py and moderation.py).          *)
StaysGone(rows, later) ==
    \A i \in DOMAIN rows :
        /\ rows[i].dead => later[i].dead
        /\ rows[i].by # Nobody => later[i].by # Nobody

GoneStaysGone == [][StaysGone(post, post') /\ StaysGone(reply, reply')]_vars

(* A post to both sides of the family is read on both sides, and yet its   *)
(* page names, among those who replied or reacted, only people who were,   *)
(* while it was being read, on a side that its reader had been on in that  *)
(* time: nobody whose sides have all been foreign to the reader meanwhile  *)
(* (visible_comments, visible_reactions).                                  *)
SidesStayApart ==
    \A t \in Tabs : Now(t, "page") => asked[t].names \subseteq met[t]

(* Not so for sharing a side with the reader when named: the reader's      *)
(* sides are an earlier query (member_yard_ids).                           *)
NamedAreNear ==
    [][\A t \in Tabs :
          /\ ReadReplies(t) => asked'[t].names \subseteq VisibleMembers(YardsOf(asked[t].who))
          /\ ReadReactions(t) =>
                asked'[t].names \subseteq asked[t].names \cup VisibleMembers(YardsOf(asked[t].who))]_vars

(* Once someone is removed, nobody is shown a reply or reaction of theirs, *)
(* whichever sides the reader's own query has found, and they are shown    *)
(* nothing, even if it lands after the removal, by a request that was      *)
(* under way (removal.py, scoping.py).  Those that an addition decided     *)
(* before the removal has put into a group after it are not spoken of.     *)
RemovedAreUnheard ==
    \A p \in removed \ slipped :
        /\ VisiblePosts(p) = {}
        /\ \A q \in People :
              /\ \A r \in VisibleReplies(q, AllSides) : reply[r].author # p
              /\ \A r \in VisibleReactions(q, AllSides) : reaction[r].who # p

(* Said of everyone removed it is not so (pods.add_member_to_pod).         *)
AllRemovedAreOut == \A p \in removed : in[p] = {}

(* Whoever first took a post down stays on record.                         *)
FirstTakedownStands ==
    [][\A i \in DOMAIN post : post[i].by # Nobody => post'[i].by = post[i].by]_vars
=============================================================================
