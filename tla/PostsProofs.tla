---------------------------- MODULE PostsProofs -----------------------------
(***************************************************************************)
(* What Thread and Staging promise, for any family: any number of people,  *)
(* pods, sides, requests under way and drafts, and any roster.             *)
(***************************************************************************)
EXTENDS Thread, Staging, SequenceTheorems, FiniteSetTheorems, TLAPS

OnPosts == {"edit", "delete", "take down", "reply", "react", "read"}
OnReplies == {"delete reply", "take reply down"}

ReplyRow == [author : People, on : 1 .. MaxPosts, dead : BOOLEAN, by : People \cup {Nobody}]
ReactionRow == [who : People, on : 1 .. MaxPosts, kind : Kinds, there : BOOLEAN]

(* What a request under way may have read.                                 *)
PostRequest == [op : OnPosts, who : People, on : 1 .. MaxPosts, row : Row, sure : BOOLEAN]
ReplyRequest == [op : OnReplies, who : People, on : Nat, row : ReplyRow]
AgainRequest == [op : {"asks again"}, who : People, on : Nat, row : ReplyRow, own : SUBSET AllSides,
                 sure : BOOLEAN]
ComposeRequest == [op : {"post"}, who : People, pod : Pods, to : SUBSET AllSides]
TapRequest == [op : {"tap"}, who : People, on : 1 .. MaxPosts, kind : Kinds, had : SUBSET Nat]
AskRequest == [op : {"asks"}, who : People, want : OnReplies, own : SUBSET AllSides]
RepliesRequest == [op : {"replies"}, who : People, on : 1 .. MaxPosts, own : SUBSET AllSides]
ListedRequest == [op : {"listed"}, who : People, of : SUBSET (1 .. MaxPosts), names : SUBSET People]
ReactionsRequest == [op : {"reactions"}, who : People, of : SUBSET (1 .. MaxPosts),
                     names : SUBSET People, own : SUBSET AllSides]
PageRequest == [op : {"page"}, who : People, names : SUBSET People]
AddRequest == [op : {"add"}, who : People, whom : People, pod : Pods]

Request ==
    [op : {"none"}] \cup PostRequest \cup ReplyRequest \cup AgainRequest \cup ComposeRequest
    \cup TapRequest \cup AskRequest \cup RepliesRequest \cup ListedRequest \cup ReactionsRequest
    \cup PageRequest \cup AddRequest

(* The type of everything but the histories of the pages.                  *)
Typed ==
    /\ in \in [People -> SUBSET Pods] /\ removed \subseteq People /\ slipped \subseteq People
    /\ post \in Seq(Row) /\ Len(post) <= MaxPosts
    /\ reply \in Seq(ReplyRow)
    /\ reaction \in Seq(ReactionRow)
    /\ now \in 0 .. LastTick /\ moves \in 0 .. MaxMoves
    /\ asked \in [Tabs -> Request]

LEMMA Bounded == MaxPosts \in Nat /\ LastTick \in Nat /\ MaxMoves \in Nat
  BY BoundsAssumption

LEMMA PodSides == ASSUME NEW g \in Pods PROVE Sides[g] \subseteq AllSides
  BY DEF AllSides

(* A request under way turns into another and nothing else happens.        *)
LEMMA OnlyAsked ==
  ASSUME Typed, NEW t \in Tabs, NEW r \in Request, Goes(t, r),
         UNCHANGED <<in, removed, slipped, post, reply, reaction, now, moves>>
  PROVE  Typed'
  <1>1. asked' \in [Tabs -> Request]
    BY DEF Typed, Goes
  <1> QED
    BY <1>1 DEF Typed

LEMMA IdleIsRequest == Idle \in Request
  BY DEF Idle, Request

(* Members of the parts of Request, by what they ask.                      *)
LEMMA RequestKinds ==
  ASSUME NEW r \in Request
  PROVE  /\ r.op \in OnPosts => r \in PostRequest
         /\ r.op \in OnReplies => r \in ReplyRequest
         /\ r.op = "asks again" => r \in AgainRequest
         /\ r.op = "post" => r \in ComposeRequest
         /\ r.op = "tap" => r \in TapRequest
         /\ r.op = "asks" => r \in AskRequest
         /\ r.op = "replies" => r \in RepliesRequest
         /\ r.op = "listed" => r \in ListedRequest
         /\ r.op = "reactions" => r \in ReactionsRequest
         /\ r.op = "page" => r \in PageRequest
         /\ r.op = "add" => r \in AddRequest
  BY DEF Request, OnPosts, OnReplies, PostRequest, ReplyRequest, AgainRequest, ComposeRequest, TapRequest,
         AskRequest, RepliesRequest, ListedRequest, ReactionsRequest, PageRequest, AddRequest

LEMMA IsRequest ==
  ASSUME NEW r, \/ r \in PostRequest \/ r \in ReplyRequest \/ r \in AgainRequest \/ r \in ComposeRequest
                \/ r \in TapRequest \/ r \in AskRequest \/ r \in RepliesRequest \/ r \in ListedRequest
                \/ r \in ReactionsRequest \/ r \in PageRequest \/ r \in AddRequest
  PROVE  r \in Request
  BY DEF Request

LEMMA OwnSides == ASSUME Typed, NEW p \in People PROVE YardsOf(p) \in SUBSET AllSides
  BY DEF Typed, YardsOf, AllSides

(* What each reader sees is made of rows there are.                        *)
LEMMA SightIsRows ==
  ASSUME Typed, NEW p \in People, NEW own
  PROVE  /\ VisiblePosts(p) \subseteq DOMAIN post
         /\ DOMAIN post \subseteq 1 .. MaxPosts
         /\ \A i \in DOMAIN post : post[i] \in Row
         /\ DOMAIN reply \subseteq Nat
         /\ \A r \in DOMAIN reply : reply[r] \in ReplyRow
         /\ DOMAIN reaction \subseteq Nat
         /\ \A r \in DOMAIN reaction : reaction[r] \in ReactionRow
         /\ VisibleReplies(p, own) \subseteq DOMAIN reply
         /\ VisibleReactions(p, own) \subseteq DOMAIN reaction
         /\ VisibleMembers(own) \subseteq People
  <1>1. DOMAIN post = 1 .. Len(post) /\ Len(post) \in Nat /\ \A i \in DOMAIN post : post[i] \in Row
    BY DEF Typed
  <1>2. DOMAIN reply = 1 .. Len(reply) /\ Len(reply) \in Nat
    BY DEF Typed
  <1>3. DOMAIN reaction = 1 .. Len(reaction) /\ Len(reaction) \in Nat
    BY DEF Typed
  <1>4. \A r \in DOMAIN reply : reply[r] \in ReplyRow
    BY DEF Typed
  <1>5. \A r \in DOMAIN reaction : reaction[r] \in ReactionRow
    BY DEF Typed
  <1>6. DOMAIN post \subseteq 1 .. MaxPosts
    BY <1>1, Bounded DEF Typed
  <1>7. DOMAIN reply \subseteq Nat /\ DOMAIN reaction \subseteq Nat
    BY <1>2, <1>3
  <1> QED
    BY <1>1, <1>4, <1>5, <1>6, <1>7 DEF VisiblePosts, VisibleReplies, VisibleReactions, VisibleMembers

(* A sequence with one element rewritten keeps its type and its length.    *)
LEMMA Rewritten ==
  ASSUME NEW S, NEW q \in Seq(S), NEW i, NEW x, i \in DOMAIN q => x \in S
  PROVE  [q EXCEPT ![i] = x] \in Seq(S) /\ Len([q EXCEPT ![i] = x]) = Len(q)
  <1>1. CASE i \in DOMAIN q
    BY <1>1, ExceptSeq
  <1>2. CASE i \notin DOMAIN q
    <2>1. [q EXCEPT ![i] = x] = [j \in DOMAIN q |-> q[j]]
      BY <1>2
    <2>2. q = [j \in DOMAIN q |-> q[j]]
      OBVIOUS
    <2> QED
      BY <2>1, <2>2
  <1> QED
    BY <1>1, <1>2

LEMMA SavedPost ==
  ASSUME NEW row \in Row, NEW read, NEW a \in People
  PROVE  Edited(row, read) \in Row /\ Deleted(row, read) \in Row /\ TakenDown(row, read, a) \in Row
  BY DEF Row, Edited, Deleted, TakenDown

LEMMA SavedReply ==
  ASSUME NEW row \in ReplyRow, NEW read, NEW a \in People
  PROVE  Deleted(row, read) \in ReplyRow /\ TakenDown(row, read, a) \in ReplyRow
  BY DEF ReplyRow, Deleted, TakenDown

(* A save to one post, and the request that made it has ended.             *)
LEMMA PostSaved ==
  ASSUME Typed, NEW t \in Tabs, NEW i, NEW x, i \in DOMAIN post => x \in Row,
         post' = [post EXCEPT ![i] = x], Done(t),
         UNCHANGED <<in, removed, slipped, reply, reaction, now, moves>>
  PROVE  Typed'
  <1>1. post \in Seq(Row)
    BY DEF Typed
  <1>2. post' \in Seq(Row) /\ Len(post') = Len(post)
    BY <1>1, Rewritten
  <1>3. asked' \in [Tabs -> Request]
    BY IdleIsRequest DEF Typed, Done, Goes
  <1> QED
    BY <1>2, <1>3 DEF Typed

LEMMA ReplySaved ==
  ASSUME Typed, NEW t \in Tabs, NEW i, NEW x, i \in DOMAIN reply => x \in ReplyRow,
         reply' = [reply EXCEPT ![i] = x], Done(t),
         UNCHANGED <<in, removed, slipped, post, reaction, now, moves>>
  PROVE  Typed'
  <1>1. reply \in Seq(ReplyRow)
    BY DEF Typed
  <1>2. reply' \in Seq(ReplyRow)
    BY <1>1, Rewritten
  <1>3. asked' \in [Tabs -> Request]
    BY IdleIsRequest DEF Typed, Done, Goes
  <1> QED
    BY <1>2, <1>3 DEF Typed

(* Every element of a sequence rewritten.                                  *)
LEMMA AllRewritten ==
  ASSUME NEW S, NEW q \in Seq(S), NEW f, DOMAIN f = DOMAIN q, f = [i \in DOMAIN f |-> f[i]],
         \A i \in DOMAIN q : f[i] \in S
  PROVE  f \in Seq(S) /\ Len(f) = Len(q)
  <1>1. DOMAIN q = 1 .. Len(q) /\ Len(q) \in Nat
    BY LenProperties
  <1>2. f \in [1 .. Len(q) -> S]
    BY <1>1
  <1> QED
    BY <1>1, <1>2

LEMMA WritingTyped == ASSUME Typed, NEW t \in Tabs, Writing(t), UNCHANGED moves PROVE Typed'
  <1> DEFINE r == asked[t]
  <1>0. /\ r \in Request
        /\ now \in 0 .. LastTick
        /\ post \in Seq(Row) /\ Len(post) \in Nat
        /\ asked \in [Tabs -> Request]
    BY DEF Typed
  <1>1. ASSUME NEW p \in Does["post"], NEW g \in Pods, NEW to \in Audiences, Compose(t, p, g, to)
        PROVE  Typed'
    <2>1. p \in People /\ to \in SUBSET AllSides
      BY DoesAssumption, PodsAssumption DEF AllSides
    <2>2. [op |-> "post", who |-> p, pod |-> g, to |-> IF g \in Groups THEN {} ELSE to] \in Request
      BY <2>1, IsRequest DEF ComposeRequest
    <2> QED
      BY <1>1, <2>2, OnlyAsked DEF Compose
  <1>2. CASE InsertPost(t)
    <2> DEFINE row == [author |-> r.who, pod |-> r.pod, to |-> r.to, at |-> now, edited |-> FALSE,
                       dead |-> FALSE, by |-> Nobody]
    <2>1. r \in ComposeRequest
      BY <1>0, <1>2, RequestKinds DEF InsertPost, Now
    <2>2. row \in Row
      BY <1>0, <2>1 DEF Row, ComposeRequest
    <2>3. post' = Append(post, row) /\ Len(post) < MaxPosts
      BY <1>2 DEF InsertPost
    <2>4. post' \in Seq(Row) /\ Len(post') = Len(post) + 1
      BY <1>0, <2>2, <2>3, AppendProperties
    <2>5. Len(post') <= MaxPosts
      BY <1>0, <2>3, <2>4, Bounded
    <2>6. asked' \in [Tabs -> Request]
      BY <1>0, <1>2, IdleIsRequest DEF InsertPost, Done, Goes
    <2>7. UNCHANGED <<in, removed, slipped, reply, reaction, now, moves>>
      BY <1>2 DEF InsertPost
    <2> QED
      BY <2>4, <2>5, <2>6, <2>7 DEF Typed
  <1>3. CASE EditPost(t)
    <2>1. r \in PostRequest
      BY <1>0, <1>3, RequestKinds DEF EditPost, Now, OnPosts
    <2>2. r.who \in People
      BY <2>1 DEF PostRequest, ReplyRequest, AgainRequest
    <2>3. r.on \in DOMAIN post => Edited(post[r.on], r.row) \in Row
      BY <2>2, SightIsRows, SavedPost
    <2>4. CASE post' = [post EXCEPT ![r.on] = Edited(post[r.on], r.row)]
      BY <1>3, <2>3, <2>4, PostSaved DEF EditPost
    <2>5. CASE post' = post
      BY <1>3, <2>5, IdleIsRequest, OnlyAsked DEF EditPost, Done
    <2> QED
      BY <1>3, <2>4, <2>5 DEF EditPost
  <1>4. CASE DeletePost(t)
    <2>1. r \in PostRequest
      BY <1>0, <1>4, RequestKinds DEF DeletePost, Now, OnPosts
    <2>2. r.who \in People
      BY <2>1 DEF PostRequest, ReplyRequest, AgainRequest
    <2>3. r.on \in DOMAIN post => Deleted(post[r.on], r.row) \in Row
      BY <2>2, SightIsRows, SavedPost
    <2> QED
      BY <1>4, <2>3, PostSaved DEF DeletePost
  <1>5. ASSUME NEW sight, Confirm(t, sight), r \in PostRequest \/ r \in AgainRequest,
               UNCHANGED <<in, removed, slipped, post, reply, reaction, now, moves>>
        PROVE  Typed'
    <2>1. [r EXCEPT !.sure = TRUE] \in PostRequest \/ [r EXCEPT !.sure = TRUE] \in AgainRequest
      BY <1>5 DEF PostRequest, AgainRequest
    <2>2. [r EXCEPT !.sure = TRUE] \in Request
      BY <2>1, IsRequest
    <2> QED
      BY <1>5, <2>2, IdleIsRequest, OnlyAsked DEF Confirm, Done
  <1>6. CASE LookAgain(t)
    BY <1>0, <1>5, <1>6, RequestKinds DEF LookAgain, Now, OnPosts
  <1>7. CASE TakeDownPost(t)
    <2>1. r \in PostRequest
      BY <1>0, <1>7, RequestKinds DEF TakeDownPost, Now, OnPosts
    <2>2. r.who \in People
      BY <2>1 DEF PostRequest, ReplyRequest, AgainRequest
    <2>3. r.on \in DOMAIN post => TakenDown(post[r.on], r.row, r.who) \in Row
      BY <2>2, SightIsRows, SavedPost
    <2> QED
      BY <1>7, <2>3, PostSaved DEF TakeDownPost
  <1>8. CASE CreateReply(t)
    <2> DEFINE row == [author |-> r.who, on |-> r.on, dead |-> FALSE, by |-> Nobody]
    <2>1. r \in PostRequest
      BY <1>0, <1>8, RequestKinds DEF CreateReply, Now, OnPosts
    <2>2. row \in ReplyRow
      BY <2>1 DEF ReplyRow, PostRequest
    <2>3. reply \in Seq(ReplyRow)
      BY DEF Typed
    <2>4. reply' = Append(reply, row)
      BY <1>8 DEF CreateReply
    <2>5. reply' \in Seq(ReplyRow)
      BY <2>2, <2>3, <2>4, AppendProperties
    <2>6. asked' \in [Tabs -> Request]
      BY <1>0, <1>8, IdleIsRequest DEF CreateReply, Done, Goes
    <2>7. UNCHANGED <<in, removed, slipped, post, reaction, now, moves>>
      BY <1>8 DEF CreateReply
    <2> QED
      BY <2>5, <2>6, <2>7 DEF Typed
  <1>9. CASE DeleteReply(t)
    <2>1. r \in ReplyRequest
      BY <1>0, <1>9, RequestKinds DEF DeleteReply, Now, OnReplies
    <2>2. r.who \in People
      BY <2>1 DEF PostRequest, ReplyRequest, AgainRequest
    <2>3. r.on \in DOMAIN reply => Deleted(reply[r.on], r.row) \in ReplyRow
      BY <2>2, SightIsRows, SavedReply
    <2> QED
      BY <1>9, <2>3, ReplySaved DEF DeleteReply
  <1>10. CASE LookAgainAtReply(t)
    BY <1>0, <1>5, <1>10, RequestKinds DEF LookAgainAtReply, Now
  <1>11. CASE TakeDownReply(t)
    <2>1. r \in AgainRequest
      BY <1>0, <1>11, RequestKinds DEF TakeDownReply, Now
    <2>2. r.who \in People
      BY <2>1 DEF PostRequest, ReplyRequest, AgainRequest
    <2>3. r.on \in DOMAIN reply => TakenDown(reply[r.on], r.row, r.who) \in ReplyRow
      BY <2>2, SightIsRows, SavedReply
    <2> QED
      BY <1>11, <2>3, ReplySaved DEF TakeDownReply
  <1>12. ASSUME NEW kind \in Kinds, OpenReaction(t, kind) PROVE Typed'
    <2> DEFINE had == {x \in Mine(r.who, r.on) : reaction[x].kind = kind}
               tap == [op |-> "tap", who |-> r.who, on |-> r.on, kind |-> kind, had |-> had]
    <2>1. r \in PostRequest
      BY <1>0, <1>12, RequestKinds DEF OpenReaction, Now, OnPosts
    <2>2. r.who \in People /\ r.on \in 1 .. MaxPosts
      BY <2>1 DEF PostRequest
    <2>3. had \in SUBSET Nat
      BY <2>2, SightIsRows DEF Mine
    <2> HIDE DEF had
    <2>4. tap \in Request
      BY <2>2, <2>3, IsRequest DEF TapRequest
    <2>5. Goes(t, tap) \/ Done(t)
      BY <1>12 DEF OpenReaction, had
    <2> QED
      BY <1>12, <2>4, <2>5, IdleIsRequest, OnlyAsked DEF OpenReaction, Done
  <1>13. CASE Tap(t)
    <2> DEFINE mine == Mine(r.who, r.on)
    <2>1. r \in TapRequest
      BY <1>0, <1>13, RequestKinds DEF Tap, Now
    <2>2. reaction \in Seq(ReactionRow)
      BY DEF Typed
    <2>3. \A x \in DOMAIN reaction : reaction[x] \in ReactionRow
      BY <2>2
    <2>4. reaction' \in Seq(ReactionRow)
      <3>1. CASE reaction' = [x \in DOMAIN reaction |->
                   IF x \in r.had THEN [reaction[x] EXCEPT !.there = FALSE] ELSE reaction[x]]
        <4>1. \A x \in DOMAIN reaction : reaction'[x] \in ReactionRow
          BY <2>3, <3>1 DEF ReactionRow
        <4> QED
          BY <2>2, <3>1, <4>1, AllRewritten
      <3>2. CASE reaction' = [x \in DOMAIN reaction |->
                   IF x \in mine THEN [reaction[x] EXCEPT !.kind = r.kind] ELSE reaction[x]]
        <4>1. \A x \in DOMAIN reaction : reaction'[x] \in ReactionRow
          <5> HIDE DEF mine
          <5> QED
            BY <2>1, <2>3, <3>2 DEF ReactionRow, TapRequest
        <4> QED
          BY <2>2, <3>2, <4>1, AllRewritten
      <3>3. CASE reaction' = Append(reaction,
                   [who |-> r.who, on |-> r.on, kind |-> r.kind, there |-> TRUE])
        <4>1. [who |-> r.who, on |-> r.on, kind |-> r.kind, there |-> TRUE] \in ReactionRow
          BY <2>1 DEF ReactionRow, TapRequest
        <4> QED
          BY <2>2, <3>3, <4>1, AppendProperties
      <3> QED
        BY <1>13, <3>1, <3>2, <3>3 DEF Tap
    <2>5. asked' \in [Tabs -> Request]
      BY <1>0, <1>13, IdleIsRequest DEF Tap, Done, Goes
    <2>6. UNCHANGED <<in, removed, slipped, post, reply, now, moves>>
      BY <1>13 DEF Tap
    <2> QED
      BY <2>4, <2>5, <2>6 DEF Typed
  <1>14. CASE SidesForReply(t)
    <2> DEFINE again == [op |-> "asks again", who |-> r.who, on |-> r.on, row |-> r.row,
                         own |-> YardsOf(r.who), sure |-> FALSE]
    <2>1. r \in ReplyRequest
      BY <1>0, <1>14, RequestKinds DEF SidesForReply, Now, OnReplies
    <2>2. again \in AgainRequest
      BY <2>1, OwnSides DEF ReplyRequest, AgainRequest
    <2>3. Goes(t, again)
      BY <1>14 DEF SidesForReply
    <2> HIDE DEF again
    <2> QED
      BY <1>14, <2>2, <2>3, IsRequest, OnlyAsked DEF SidesForReply
  <1> HIDE DEF r
  <1> QED
    BY <1>1, <1>2, <1>3, <1>4, <1>6, <1>7, <1>8, <1>9, <1>10, <1>11, <1>12, <1>13, <1>14 DEF Writing

LEMMA ReadingTyped == ASSUME Typed, NEW t \in Tabs, Reading(t), UNCHANGED moves PROVE Typed'
  <1> DEFINE r == asked[t]
  <1>0. r \in Request
    BY DEF Typed
  <1>1. ASSUME NEW op \in OnPosts, NEW p \in Does[op], NEW i \in DOMAIN post, OpenPost(t, p, i, op)
        PROVE  Typed'
    <2>1. p \in People
      BY DoesAssumption DEF OnPosts
    <2>2. i \in 1 .. MaxPosts /\ post[i] \in Row
      BY <2>1, SightIsRows
    <2>3. [op |-> op, who |-> p, on |-> i, row |-> post[i], sure |-> FALSE]
            \in PostRequest
      BY <2>1, <2>2 DEF PostRequest
    <2>4. [op |-> op, who |-> p, on |-> i, row |-> post[i], sure |-> FALSE] \in Request
      BY <2>3, IsRequest
    <2> QED
      BY <1>1, <2>4, OnlyAsked DEF OpenPost
  <1>2. ASSUME NEW op \in OnReplies, NEW p \in Does[op], AskForReply(t, p, op)
        PROVE  Typed'
    <2>1. p \in People
      BY DoesAssumption DEF OnReplies
    <2>2. [op |-> "asks", who |-> p, want |-> op, own |-> YardsOf(p)] \in AskRequest
      BY <2>1, OwnSides DEF AskRequest
    <2>3. Goes(t, [op |-> "asks", who |-> p, want |-> op, own |-> YardsOf(p)])
      BY <1>2 DEF AskForReply
    <2> QED
      BY <1>2, <2>2, <2>3, IsRequest, OnlyAsked DEF AskForReply
  <1>7. ASSUME NEW i, OpenReply(t, i) PROVE Typed'
    <2> DEFINE found == [op |-> r.want, who |-> r.who, on |-> i, row |-> reply[i]]
    <2>1. r \in AskRequest
      BY <1>0, <1>7, RequestKinds DEF OpenReply, Now
    <2>2. r.who \in People /\ r.want \in OnReplies
      BY <2>1 DEF AskRequest
    <2>3. ASSUME i \in VisibleReplies(r.who, r.own) PROVE found \in Request
      <3>1. i \in Nat /\ reply[i] \in ReplyRow
        BY <2>2, <2>3, SightIsRows
      <3>2. found \in ReplyRequest
        BY <2>2, <3>1 DEF ReplyRequest
      <3> QED
        BY <3>2, IsRequest
    <2>4. Done(t) \/ (i \in VisibleReplies(r.who, r.own) /\ Goes(t, found))
      BY <1>7 DEF OpenReply
    <2> HIDE DEF found
    <2> QED
      BY <1>7, <2>3, <2>4, IdleIsRequest, OnlyAsked DEF OpenReply, Done
  <1>3. ASSUME NEW p \in Does["read"], OpenFeed(t, p) PROVE Typed'
    <2> DEFINE page == {i \in Feed(p) : Cardinality({j \in Feed(p) : Newer(j, i)}) < PageSize}
    <2>1. p \in People
      BY DoesAssumption
    <2>2. page \in SUBSET (1 .. MaxPosts)
      BY <2>1, SightIsRows DEF Feed
    <2> HIDE DEF page
    <2>3. [op |-> "listed", who |-> p, of |-> page, names |-> {}] \in Request
      BY <2>1, <2>2, IsRequest DEF ListedRequest
    <2> QED
      BY <1>3, <2>3, OnlyAsked DEF OpenFeed, page
  <1>4. CASE ReadReplies(t)
    <2> DEFINE names == {reply[x].author : x \in {y \in VisibleReplies(r.who, r.own) : reply[y].on = r.on}}
    <2>1. r \in RepliesRequest
      BY <1>0, <1>4, RequestKinds DEF ReadReplies, Now
    <2>2. r.who \in People /\ r.on \in 1 .. MaxPosts
      BY <2>1 DEF RepliesRequest
    <2>3. names \in SUBSET People
      BY <2>2, SightIsRows DEF ReplyRow
    <2> HIDE DEF names
    <2>4. [op |-> "listed", who |-> r.who, of |-> {r.on}, names |-> names] \in Request
      BY <2>2, <2>3, IsRequest DEF ListedRequest
    <2> QED
      BY <1>4, <2>4, OnlyAsked DEF ReadReplies, names
  <1>5. CASE ReadReactions(t)
    <2> DEFINE names == {reaction[x].who : x \in {y \in VisibleReactions(r.who, r.own) : reaction[y].on \in r.of}}
    <2>1. r \in ReactionsRequest
      BY <1>0, <1>5, RequestKinds DEF ReadReactions, Now
    <2>2. r.who \in People /\ r.names \in SUBSET People
      BY <2>1 DEF ReactionsRequest
    <2>3. names \in SUBSET People
      BY <2>2, SightIsRows DEF ReactionRow
    <2> HIDE DEF names
    <2>4. [op |-> "page", who |-> r.who, names |-> r.names \cup names] \in Request
      BY <2>2, <2>3, IsRequest DEF PageRequest
    <2> QED
      BY <1>5, <2>4, OnlyAsked DEF ReadReactions, names
  <1>8. CASE SidesForReplies(t)
    <2>1. r \in PostRequest
      BY <1>0, <1>8, RequestKinds DEF SidesForReplies, Now, OnPosts
    <2>2. [op |-> "replies", who |-> r.who, on |-> r.on, own |-> YardsOf(r.who)] \in RepliesRequest
      BY <2>1, OwnSides DEF PostRequest, RepliesRequest
    <2>3. Goes(t, [op |-> "replies", who |-> r.who, on |-> r.on, own |-> YardsOf(r.who)])
      BY <1>8 DEF SidesForReplies
    <2> HIDE DEF r
    <2> QED
      BY <1>8, <2>2, <2>3, IsRequest, OnlyAsked DEF SidesForReplies
  <1>9. CASE SidesForReactions(t)
    <2> DEFINE next == [op |-> "reactions", who |-> r.who, of |-> r.of, names |-> r.names,
                        own |-> YardsOf(r.who)]
    <2>1. r \in ListedRequest
      BY <1>0, <1>9, RequestKinds DEF SidesForReactions, Now
    <2>2. next \in ReactionsRequest
      BY <2>1, OwnSides DEF ListedRequest, ReactionsRequest
    <2>3. Goes(t, next)
      BY <1>9 DEF SidesForReactions
    <2> HIDE DEF next
    <2> QED
      BY <1>9, <2>2, <2>3, IsRequest, OnlyAsked DEF SidesForReactions
  <1>10. ASSUME NEW a \in Does["add"], NEW p \in People, NEW g \in Moved[p], OpenAdd(t, a, p, g) PROVE Typed'
    <2>1. a \in People /\ g \in Pods
      BY DoesAssumption, PodsAssumption
    <2>2. [op |-> "add", who |-> a, whom |-> p, pod |-> g] \in Request
      BY <2>1, IsRequest DEF AddRequest
    <2> QED
      BY <1>10, <2>2, OnlyAsked DEF OpenAdd
  <1>6. CASE ClosePage(t)
    BY <1>6, IdleIsRequest, OnlyAsked DEF ClosePage, Done
  <1> QED
    BY <1>1, <1>2, <1>3, <1>4, <1>5, <1>6, <1>7, <1>8, <1>9, <1>10 DEF Reading, OnPosts, OnReplies

(* The rows of a member who is removed keep their shape.                   *)
LEMMA GoneTyped ==
  ASSUME Typed, NEW p \in People
  PROVE  /\ Gone(post, p) \in Seq(Row) /\ Len(Gone(post, p)) = Len(post)
         /\ Gone(reply, p) \in Seq(ReplyRow)
  <1>1. post \in Seq(Row) /\ reply \in Seq(ReplyRow)
    BY DEF Typed
  <1>2. \A i \in DOMAIN post : Gone(post, p)[i] \in Row
    BY SightIsRows, SavedPost DEF Gone
  <1>3. \A i \in DOMAIN reply : Gone(reply, p)[i] \in ReplyRow
    BY SightIsRows, SavedReply DEF Gone
  <1>4. DOMAIN Gone(post, p) = DOMAIN post /\ Gone(post, p) = [i \in DOMAIN Gone(post, p) |-> Gone(post, p)[i]]
    BY DEF Gone
  <1>5. DOMAIN Gone(reply, p) = DOMAIN reply
        /\ Gone(reply, p) = [i \in DOMAIN Gone(reply, p) |-> Gone(reply, p)[i]]
    BY DEF Gone
  <1> HIDE DEF Gone
  <1>6. Gone(post, p) \in Seq(Row) /\ Len(Gone(post, p)) = Len(post)
    BY <1>1, <1>2, <1>4, AllRewritten
  <1>7. Gone(reply, p) \in Seq(ReplyRow)
    BY <1>1, <1>3, <1>5, AllRewritten
  <1> QED
    BY <1>6, <1>7

LEMMA RosterTyped ==
  ASSUME Typed, Roster, moves < MaxMoves, moves' = moves + 1
  PROVE  Typed'
  <1>1. moves' \in 0 .. MaxMoves
    BY Bounded DEF Typed
  <1>2. in \in [People -> SUBSET Pods] /\ removed \subseteq People /\ slipped \subseteq People
    BY DEF Typed
  <1>3. ASSUME NEW t \in Tabs, Join(t) PROVE Typed'
    <2> DEFINE r == asked[t]
    <2>1. r \in AddRequest
      BY <1>3, RequestKinds DEF Join, Now, Typed
    <2>2. r.whom \in People /\ r.pod \in Pods
      BY <2>1 DEF AddRequest
    <2>3. in' = [in EXCEPT ![r.whom] = @ \cup {r.pod}] /\ slipped' = slipped \cup ({r.whom} \cap removed)
      BY <1>3 DEF Join
    <2> HIDE DEF r
    <2>4. in' \in [People -> SUBSET Pods] /\ slipped' \subseteq People
      BY <1>2, <2>2, <2>3
    <2>5. asked' \in [Tabs -> Request]
      BY <1>3, IdleIsRequest DEF Join, Done, Goes, Typed
    <2>6. UNCHANGED <<removed, post, reply, reaction, now>>
      BY <1>3 DEF Join
    <2> QED
      BY <1>1, <1>2, <2>4, <2>5, <2>6 DEF Typed
  <1>4. ASSUME NEW a \in Admins, NEW p \in People, NEW g \in Moved[p], AddToHousehold(a, p, g) PROVE Typed'
    <2>1. g \in Pods
      BY PodsAssumption
    <2>2. in' \in [People -> SUBSET Pods] /\ removed' \subseteq People /\ slipped' \subseteq People
      BY <1>2, <1>4, <2>1 DEF AddToHousehold
    <2>3. UNCHANGED <<post, reply, reaction, now, asked>>
      BY <1>4 DEF AddToHousehold
    <2> QED
      BY <1>1, <2>2, <2>3 DEF Typed
  <1>5. ASSUME NEW p \in People, NEW g \in Moved[p], Leave(p, g) PROVE Typed'
    <2>1. in' \in [People -> SUBSET Pods]
      BY <1>2, <1>5 DEF Leave
    <2>2. UNCHANGED <<removed, slipped, post, reply, reaction, now, asked>>
      BY <1>5 DEF Leave
    <2> QED
      BY <1>1, <2>1, <2>2 DEF Typed
  <1>6. ASSUME NEW p \in Does["leave"], NEW content \in {"keep", "delete"}, RemoveMember(p, content)
        PROVE  Typed'
    <2>0. p \in People
      BY DoesAssumption
    <2>1. in' \in [People -> SUBSET Pods] /\ removed' \subseteq People /\ slipped' \subseteq People
      BY <1>2, <1>6, <2>0 DEF RemoveMember, RemovedFrom
    <2>2. UNCHANGED <<reaction, now, asked>>
      BY <1>6 DEF RemoveMember
    <2>3. post' \in Seq(Row) /\ Len(post') <= MaxPosts /\ reply' \in Seq(ReplyRow)
      <3>1. \/ (post' = Gone(post, p) /\ reply' = Gone(reply, p))
            \/ UNCHANGED <<post, reply>>
        BY <1>6 DEF RemoveMember
      <3> QED
        BY <2>0, <3>1, GoneTyped DEF Typed
    <2> QED
      BY <1>1, <2>1, <2>2, <2>3 DEF Typed
  <1> QED
    BY <1>3, <1>4, <1>5, <1>6 DEF Roster

LEMMA TypedHolds == Spec => []Typed
  <1>1. Init => Typed
    <2> SUFFICES ASSUME Init PROVE Typed
      OBVIOUS
    <2>1. in \in [People -> SUBSET Pods] /\ removed \subseteq People /\ slipped \subseteq People
      BY PodsAssumption DEF Init
    <2>2. asked \in [Tabs -> Request]
      BY IdleIsRequest DEF Init
    <2>3. now \in 0 .. LastTick /\ moves \in 0 .. MaxMoves /\ Len(post) <= MaxPosts
      BY Bounded DEF Init
    <2>4. post = <<>> /\ reply = <<>> /\ reaction = <<>>
      BY DEF Init
    <2>5. post \in Seq(Row) /\ reply \in Seq(ReplyRow) /\ reaction \in Seq(ReactionRow)
      BY <2>4
    <2> QED
      BY <2>1, <2>2, <2>3, <2>5 DEF Typed
  <1>2. Typed /\ [Next]_vars => Typed'
    <2> SUFFICES ASSUME Typed, [Next]_vars PROVE Typed'
      OBVIOUS
    <2>1. CASE Tick /\ UNCHANGED moves
      <3>1. now' \in 0 .. LastTick
        BY <2>1, Bounded DEF Typed, Tick
      <3>2. UNCHANGED <<in, removed, slipped, post, reply, reaction, asked, moves>>
        BY <2>1 DEF Tick
      <3> QED
        BY <3>1, <3>2 DEF Typed
    <2>2. CASE UNCHANGED vars
      BY <2>2 DEF vars, Typed
    <2> QED
      BY <2>1, <2>2, WritingTyped, ReadingTyped, RosterTyped DEF Next
  <1> QED
    BY <1>1, <1>2, PTL DEF Spec

(* What a request does without the roster's leave.                         *)
LEMMA RosterIsLeft ==
  ASSUME (\E t \in Tabs : Writing(t) \/ Reading(t)) \/ Tick \/ UNCHANGED vars
  PROVE  UNCHANGED <<in, removed, slipped>>
  <1>1. ASSUME NEW t \in Tabs, Writing(t) PROVE UNCHANGED <<in, removed, slipped>>
    BY <1>1 DEF Writing, Compose, InsertPost, EditPost, DeletePost, LookAgain, TakeDownPost, CreateReply,
                DeleteReply, SidesForReply, LookAgainAtReply, TakeDownReply, OpenReaction, Tap
  <1>2. ASSUME NEW t \in Tabs, Reading(t) PROVE UNCHANGED <<in, removed, slipped>>
    BY <1>2 DEF Reading, OpenPost, AskForReply, OpenReply, OpenFeed, SidesForReplies, ReadReplies,
                SidesForReactions, ReadReactions, ClosePage, OpenAdd
  <1> QED
    BY <1>1, <1>2 DEF Tick, vars

-----------------------------------------------------------------------------
(* Those who were removed.                                                 *)

(* A removed person is in no pod, but for the late insert of an addition   *)
(* decided before; whoever an admin puts into a household is a member      *)
(* again.                                                                  *)
OutOfAllPods == \A p \in removed \ slipped : in[p] = {}

LEMMA OutOfAllPodsHolds == Spec => []OutOfAllPods
  <1>1. Init => OutOfAllPods
    BY DEF Init, OutOfAllPods
  <1>2. Typed /\ OutOfAllPods /\ [Next]_vars => OutOfAllPods'
    <2> SUFFICES ASSUME Typed, OutOfAllPods, [Next]_vars PROVE OutOfAllPods'
      OBVIOUS
    <2>0. in \in [People -> SUBSET Pods] /\ removed \subseteq People
      BY DEF Typed
    <2>1. CASE UNCHANGED <<in, removed, slipped>>
      BY <2>1 DEF OutOfAllPods
    <2>2. ASSUME NEW t \in Tabs, Join(t) PROVE OutOfAllPods'
      <3> DEFINE p == asked[t].whom
      <3>1. /\ in' = [in EXCEPT ![p] = @ \cup {asked[t].pod}]
            /\ slipped' = slipped \cup ({p} \cap removed)
            /\ removed' = removed
        BY <2>2 DEF Join
      <3> HIDE DEF p
      <3> QED
        BY <2>0, <3>1 DEF OutOfAllPods
    <2>3. ASSUME NEW a, NEW p \in People, NEW g, AddToHousehold(a, p, g) PROVE OutOfAllPods'
      BY <2>0, <2>3 DEF AddToHousehold, OutOfAllPods
    <2>4. ASSUME NEW p \in People, NEW g, Leave(p, g) PROVE OutOfAllPods'
      BY <2>0, <2>4 DEF Leave, OutOfAllPods
    <2>5. ASSUME NEW p \in People, NEW content, RemoveMember(p, content) PROVE OutOfAllPods'
      BY <2>0, <2>5 DEF RemoveMember, RemovedFrom, OutOfAllPods
    <2>6. Roster => OutOfAllPods'
      BY <2>2, <2>3, <2>4, <2>5, DoesAssumption DEF Roster
    <2> QED
      BY <2>1, <2>6, RosterIsLeft DEF Next
  <1> QED
    BY <1>1, <1>2, TypedHolds, PTL DEF Spec

(* Nobody is shown a reply or a reaction of somebody who was removed, and  *)
(* those removed are shown nothing, whichever requests of theirs land      *)
(* after the removal, unless an addition decided before it has put them    *)
(* into a group after it (removal.py, scoping.py, pods.py).                *)
THEOREM RemovedGoUnheard == Spec => []RemovedAreUnheard
  <1>1. OutOfAllPods => RemovedAreUnheard
    <2> SUFFICES ASSUME OutOfAllPods, NEW p \in removed \ slipped
                 PROVE  /\ VisiblePosts(p) = {}
                        /\ \A q \in People :
                              /\ \A r \in VisibleReplies(q, AllSides) : reply[r].author # p
                              /\ \A r \in VisibleReactions(q, AllSides) : reaction[r].who # p
      BY DEF RemovedAreUnheard
    <2>1. in[p] = {}
      BY DEF OutOfAllPods
    <2>2. YardsOf(p) = {}
      BY <2>1 DEF YardsOf
    <2>3. VisiblePosts(p) = {}
      BY <2>1, <2>2 DEF VisiblePosts
    <2>4. p \notin VisibleMembers(AllSides)
      BY <2>2 DEF VisibleMembers
    <2> QED
      BY <2>3, <2>4 DEF VisibleReplies, VisibleReactions
  <1> QED
    BY <1>1, OutOfAllPodsHolds, PTL

-----------------------------------------------------------------------------
(* Both sides of a family on one page.                                     *)

(* What a page goes by: the sides its queries have read are of those the   *)
(* reader has been on, and so are all whom it has named.                   *)
PagesRemember ==
    \A t \in Tabs : asked[t].op \in Pages =>
        /\ YardsOf(asked[t].who) \subseteq been[t]
        /\ VisibleMembers(been[t]) \subseteq met[t]
        /\ asked[t].op \in {"replies", "reactions"} => asked[t].own \subseteq been[t]
        /\ asked[t].op \in {"listed", "reactions", "page"} => asked[t].names \subseteq met[t]

(* How a page comes to be what it is after a step.                         *)
NextOfPage(t) ==
    \/ asked'[t] = asked[t]
    \/ asked'[t].op = "read"
    \/ asked'[t].op = "listed" /\ asked'[t].names = {}
    \/ SidesForReplies(t) \/ ReadReplies(t) \/ SidesForReactions(t) \/ ReadReactions(t)

LEMMA PagesByReading ==
  ASSUME Typed, [Next]_vars, NEW t \in Tabs, asked'[t].op \in Pages
  PROVE  NextOfPage(t)
  <1>0. asked \in [Tabs -> Request]
    BY DEF Typed
  <1>1. ASSUME NEW u \in Tabs, NEW r, Goes(u, r), r.op \notin Pages PROVE NextOfPage(t)
    <2>1. asked'[t] = IF t = u THEN r ELSE asked[t]
      BY <1>0, <1>1 DEF Goes
    <2> QED
      BY <1>1, <2>1 DEF NextOfPage
  <1>2. ASSUME NEW u \in Tabs, Done(u) PROVE NextOfPage(t)
    BY <1>1, <1>2 DEF Done, Idle, Pages
  <1>3. ASSUME NEW u \in Tabs, NEW sight, Confirm(u, sight), asked[u] \in PostRequest \/ asked[u] \in AgainRequest,
               asked[u].op \in {"take down", "reply", "asks again"}
        PROVE  NextOfPage(t)
    <2> DEFINE r == [asked[u] EXCEPT !.sure = TRUE]
    <2>1. r.op = asked[u].op
      BY <1>3 DEF PostRequest, AgainRequest
    <2>2. Goes(u, r) \/ Done(u)
      BY <1>3 DEF Confirm
    <2>3. r.op \notin Pages
      BY <1>3, <2>1 DEF Pages
    <2> HIDE DEF r
    <2> QED
      BY <1>1, <1>2, <2>2, <2>3
  <1>4. ASSUME NEW u \in Tabs, Writing(u) PROVE NextOfPage(t)
    <2>1. ASSUME NEW p, NEW g, NEW to, Compose(u, p, g, to) PROVE NextOfPage(t)
      BY <1>1, <2>1 DEF Compose, Pages
    <2>2. CASE LookAgain(u)
      BY <1>0, <1>3, <2>2, RequestKinds DEF LookAgain, Now, OnPosts
    <2>3. CASE LookAgainAtReply(u)
      BY <1>0, <1>3, <2>3, RequestKinds DEF LookAgainAtReply, Now
    <2>4. CASE SidesForReply(u)
      BY <1>1, <2>4 DEF SidesForReply, Pages
    <2>5. ASSUME NEW kind, OpenReaction(u, kind) PROVE NextOfPage(t)
      <3>1. Done(u) \/ \E r : Goes(u, r) /\ r.op = "tap"
        BY <2>5 DEF OpenReaction
      <3> QED
        BY <1>1, <1>2, <3>1 DEF Pages
    <2> QED
      BY <1>2, <1>4, <2>1, <2>2, <2>3, <2>4, <2>5
         DEF Writing, InsertPost, EditPost, DeletePost, TakeDownPost, CreateReply, DeleteReply, TakeDownReply, Tap
  <1>5. ASSUME NEW u \in Tabs, Reading(u) PROVE NextOfPage(t)
    <2>1. ASSUME NEW op \in OnPosts, NEW p, NEW i, OpenPost(u, p, i, op) PROVE NextOfPage(t)
      <3> DEFINE opened == [op |-> op, who |-> p, on |-> i, row |-> post[i], sure |-> FALSE]
      <3>0. Goes(u, opened) /\ opened.op = op
        BY <2>1 DEF OpenPost
      <3> HIDE DEF opened
      <3>1. PICK r : Goes(u, r) /\ r.op = op
        BY <3>0
      <3>2. asked'[t] = IF t = u THEN r ELSE asked[t]
        BY <1>0, <3>1 DEF Goes
      <3> QED
        BY <3>1, <3>2 DEF NextOfPage, OnPosts, Pages
    <2>2. ASSUME NEW op, NEW p, AskForReply(u, p, op) PROVE NextOfPage(t)
      BY <1>1, <2>2 DEF AskForReply, Pages
    <2>3. ASSUME NEW i, OpenReply(u, i) PROVE NextOfPage(t)
      <3>1. asked[u] \in AskRequest
        BY <1>0, <2>3, RequestKinds DEF OpenReply, Now
      <3>2. asked[u].want \in OnReplies
        BY <3>1 DEF AskRequest
      <3> DEFINE found == [op |-> asked[u].want, who |-> asked[u].who, on |-> i, row |-> reply[i]]
      <3>3. Done(u) \/ Goes(u, found)
        BY <2>3 DEF OpenReply
      <3>4. found.op = asked[u].want
        OBVIOUS
      <3> HIDE DEF found
      <3> QED
        BY <1>1, <1>2, <3>2, <3>3, <3>4 DEF OnReplies, Pages
    <2>4. ASSUME NEW p, OpenFeed(u, p) PROVE NextOfPage(t)
      <3>1. PICK r : Goes(u, r) /\ r.op = "listed" /\ r.names = {}
        BY <2>4 DEF OpenFeed
      <3>2. asked'[t] = IF t = u THEN r ELSE asked[t]
        BY <1>0, <3>1 DEF Goes
      <3> QED
        BY <3>1, <3>2 DEF NextOfPage
    <2>5. CASE SidesForReplies(u) \/ ReadReplies(u) \/ SidesForReactions(u) \/ ReadReactions(u)
      <3>1. t # u => asked'[t] = asked[t]
        BY <1>0, <2>5 DEF SidesForReplies, ReadReplies, SidesForReactions, ReadReactions, Goes
      <3> QED
        BY <2>5, <3>1 DEF NextOfPage
    <2>6. CASE ClosePage(u)
      BY <1>2, <2>6 DEF ClosePage
    <2>7. ASSUME NEW a, NEW p, NEW g, OpenAdd(u, a, p, g) PROVE NextOfPage(t)
      BY <1>1, <2>7 DEF OpenAdd, Pages
    <2> QED
      BY <1>5, <2>1, <2>2, <2>3, <2>4, <2>5, <2>6, <2>7 DEF Reading, OnPosts
  <1>6. CASE Roster
    <2>1. ASSUME NEW u \in Tabs, Join(u) PROVE NextOfPage(t)
      BY <1>2, <2>1 DEF Join
    <2>2. (\A u \in Tabs : ~ Join(u)) => UNCHANGED asked
      BY <1>6 DEF Roster, AddToHousehold, Leave, RemoveMember
    <2> QED
      BY <2>1, <2>2 DEF NextOfPage
  <1>7. Tick \/ UNCHANGED vars => UNCHANGED asked
    BY DEF Tick, vars
  <1> QED
    BY <1>4, <1>5, <1>6, <1>7 DEF Next, NextOfPage

(* More sides show more people.                                            *)
LEMMA SightGrows ==
  ASSUME NEW own, NEW more, own \subseteq more
  PROVE  VisibleMembers(own) \subseteq VisibleMembers(more)
  BY DEF VisibleMembers

LEMMA PagesRememberHolds == Spec => []PagesRemember
  <1>1. Init => PagesRemember
    BY DEF Init, PagesRemember, Idle, Pages
  <1>2. Typed /\ PagesRemember /\ [Next]_vars => PagesRemember'
    <2> SUFFICES ASSUME Typed, PagesRemember, [Next]_vars PROVE PagesRemember'
      OBVIOUS
    <2>1. CASE UNCHANGED vars
      BY <2>1 DEF vars, PagesRemember, YardsOf, VisibleMembers
    <2>2. CASE Next
      <3>0. asked \in [Tabs -> Request] /\ Watch
        BY <2>2 DEF Typed, Next
      <3> SUFFICES ASSUME NEW t \in Tabs, asked'[t].op \in Pages
                   PROVE  /\ YardsOf(asked[t].who)' \subseteq been'[t]
                          /\ VisibleMembers(been[t])' \subseteq met'[t]
                          /\ asked'[t].op \in {"replies", "reactions"} => asked'[t].own \subseteq been'[t]
                          /\ asked'[t].op \in {"listed", "reactions", "page"} => asked'[t].names \subseteq met'[t]
        BY DEF PagesRemember
      <3>1. been'[t] = been[t] \cup YardsOf(asked[t].who)' /\ met'[t] = met[t] \cup VisibleMembers(been[t])'
        BY <3>0 DEF Watch
      <3>2. NextOfPage(t)
        BY PagesByReading
      <3>3. CASE asked'[t] = asked[t]
        BY <3>1, <3>3 DEF PagesRemember
      <3>4. CASE asked'[t].op = "read" \/ (asked'[t].op = "listed" /\ asked'[t].names = {})
        BY <3>1, <3>4
      <3>5. CASE SidesForReplies(t)
        <4>1. asked'[t] = [op |-> "replies", who |-> asked[t].who, on |-> asked[t].on,
                           own |-> YardsOf(asked[t].who)]
              /\ UNCHANGED in
          BY <3>0, <3>5 DEF SidesForReplies, Goes
        <4>2. YardsOf(asked[t].who)' = YardsOf(asked[t].who)
          BY <4>1 DEF YardsOf
        <4> QED
          BY <3>1, <4>1, <4>2
      <3>6. CASE ReadReplies(t)
        <4> DEFINE a == asked[t]
                   names == {reply[r].author : r \in {x \in VisibleReplies(a.who, a.own) : reply[x].on = a.on}}
        <4>1. asked'[t] = [op |-> "listed", who |-> a.who, of |-> {a.on}, names |-> names]
          BY <3>0, <3>6 DEF ReadReplies, Goes
        <4>2. names \subseteq VisibleMembers(a.own)
          BY DEF VisibleReplies
        <4>3. a.own \subseteq been[t] /\ VisibleMembers(been[t]) \subseteq met[t]
          BY <3>6 DEF PagesRemember, ReadReplies, Now, Pages
        <4>4. names \subseteq met[t]
          BY <4>2, <4>3, SightGrows
        <4> HIDE DEF a, names
        <4> QED
          BY <3>1, <4>1, <4>4
      <3>7. CASE SidesForReactions(t)
        <4>1. asked'[t] = [op |-> "reactions", who |-> asked[t].who, of |-> asked[t].of,
                           names |-> asked[t].names, own |-> YardsOf(asked[t].who)]
              /\ UNCHANGED in
          BY <3>0, <3>7 DEF SidesForReactions, Goes
        <4>2. YardsOf(asked[t].who)' = YardsOf(asked[t].who)
          BY <4>1 DEF YardsOf
        <4>3. asked[t].names \subseteq met[t]
          BY <3>7 DEF PagesRemember, SidesForReactions, Now, Pages
        <4> QED
          BY <3>1, <4>1, <4>2, <4>3
      <3>8. CASE ReadReactions(t)
        <4> DEFINE a == asked[t]
                   names == {reaction[r].who : r \in {x \in VisibleReactions(a.who, a.own) : reaction[x].on \in a.of}}
        <4>1. asked'[t] = [op |-> "page", who |-> a.who, names |-> a.names \cup names]
          BY <3>0, <3>8 DEF ReadReactions, Goes
        <4>2. names \subseteq VisibleMembers(a.own)
          BY DEF VisibleReactions
        <4>3. a.own \subseteq been[t] /\ VisibleMembers(been[t]) \subseteq met[t] /\ a.names \subseteq met[t]
          BY <3>8 DEF PagesRemember, ReadReactions, Now, Pages
        <4>4. names \subseteq met[t]
          BY <4>2, <4>3, SightGrows
        <4> HIDE DEF a, names
        <4> QED
          BY <3>1, <4>1, <4>3, <4>4
      <3> QED
        BY <3>2, <3>3, <3>4, <3>5, <3>6, <3>7, <3>8 DEF NextOfPage
    <2> QED
      BY <2>1, <2>2
  <1> QED
    BY <1>1, <1>2, TypedHolds, PTL DEF Spec

(* The page of a post that both sides read names only people who were,     *)
(* while it was being read, on a side its reader had been on in that time, *)
(* whatever was committed between the queries that fill it: not least      *)
(* between the reader's sides and the rows they go into (visible_comments, *)
(* visible_reactions).                                                     *)
THEOREM PagesKeepSidesApart == Spec => []SidesStayApart
  <1>1. PagesRemember => SidesStayApart
    BY DEF PagesRemember, SidesStayApart, Now, Pages
  <1> QED
    BY <1>1, PagesRememberHolds, PTL

-----------------------------------------------------------------------------
(* What is gone.                                                           *)

(* The saves, each on the row as it is by then.                            *)
LEMMA SaveKeepsGone ==
  ASSUME NEW row \in Row \cup ReplyRow, NEW read, NEW a \in People
  PROVE  /\ row \in Row => Edited(row, read).dead = row.dead /\ Edited(row, read).by = row.by
         /\ Deleted(row, read).dead /\ Deleted(row, read).by = row.by
         /\ TakenDown(row, read, a).dead /\ TakenDown(row, read, a).by # Nobody
  BY PeopleAssumption DEF Row, ReplyRow, Edited, Deleted, TakenDown

LEMMA OneSaved ==
  ASSUME NEW rows, NEW later, NEW i, NEW x, later = [rows EXCEPT ![i] = x],
         i \in DOMAIN rows => (rows[i].dead => x.dead) /\ (rows[i].by # Nobody => x.by # Nobody)
  PROVE  StaysGone(rows, later)
  BY DEF StaysGone

LEMMA StepKeepsGone ==
  ASSUME Typed, [Next]_vars
  PROVE  StaysGone(post, post') /\ StaysGone(reply, reply')
  <1>1. UNCHANGED post => StaysGone(post, post')
    BY DEF StaysGone
  <1>2. UNCHANGED reply => StaysGone(reply, reply')
    BY DEF StaysGone
  <1>3. /\ \A i \in DOMAIN post : post[i] \in Row
        /\ \A i \in DOMAIN reply : reply[i] \in ReplyRow
        /\ post \in Seq(Row) /\ reply \in Seq(ReplyRow)
    <2>1. post \in Seq(Row) /\ reply \in Seq(ReplyRow)
      BY DEF Typed
    <2> QED
      BY <2>1
  <1>4. ASSUME NEW t \in Tabs, Writing(t) PROVE StaysGone(post, post') /\ StaysGone(reply, reply')
    <2> DEFINE r == asked[t]
    <2>0. r \in Request
      BY DEF Typed
    <2>1. CASE InsertPost(t)
      <3>1. PICK row : post' = Append(post, row)
        BY <2>1 DEF InsertPost
      <3>2. \A i \in DOMAIN post : post'[i] = post[i]
        BY <1>3, <3>1
      <3> QED
        BY <1>2, <2>1, <3>2 DEF InsertPost, StaysGone
    <2>2. CASE CreateReply(t)
      <3>1. PICK row : reply' = Append(reply, row)
        BY <2>2 DEF CreateReply
      <3>2. \A i \in DOMAIN reply : reply'[i] = reply[i]
        BY <1>3, <3>1
      <3> QED
        BY <1>1, <2>2, <3>2 DEF CreateReply, StaysGone
    <2>3. CASE EditPost(t) \/ DeletePost(t) \/ TakeDownPost(t)
      <3>1. r \in PostRequest
        BY <2>0, <2>3, RequestKinds DEF EditPost, DeletePost, TakeDownPost, Now, OnPosts
      <3>2. r.who \in People
        BY <3>1 DEF PostRequest, ReplyRequest, AgainRequest
      <3>3. \/ post' = [post EXCEPT ![r.on] = Edited(post[r.on], r.row)]
            \/ post' = [post EXCEPT ![r.on] = Deleted(post[r.on], r.row)]
            \/ post' = [post EXCEPT ![r.on] = TakenDown(post[r.on], r.row, r.who)]
            \/ UNCHANGED post
        BY <2>3 DEF EditPost, DeletePost, TakeDownPost
      <3>4. StaysGone(post, post')
        <4>1. ASSUME r.on \in DOMAIN post
              PROVE  LET row == post[r.on]
                     IN /\ Edited(row, r.row).dead = row.dead /\ Edited(row, r.row).by = row.by
                        /\ Deleted(row, r.row).dead /\ Deleted(row, r.row).by = row.by
                        /\ TakenDown(row, r.row, r.who).dead /\ TakenDown(row, r.row, r.who).by # Nobody
          <5>1. post[r.on] \in Row \cup ReplyRow /\ post[r.on] \in Row
            BY <1>3, <4>1
          <5> HIDE DEF r
          <5> QED
            BY <3>2, <5>1, SaveKeepsGone
        <4>2. CASE post' = [post EXCEPT ![r.on] = Edited(post[r.on], r.row)]
          BY <4>1, <4>2, OneSaved
        <4>3. CASE post' = [post EXCEPT ![r.on] = Deleted(post[r.on], r.row)]
          BY <4>1, <4>3, OneSaved
        <4>4. CASE post' = [post EXCEPT ![r.on] = TakenDown(post[r.on], r.row, r.who)]
          BY <4>1, <4>4, OneSaved
        <4> QED
          BY <1>1, <3>3, <4>2, <4>3, <4>4
      <3> QED
        BY <1>2, <2>3, <3>4 DEF EditPost, DeletePost, TakeDownPost
    <2>4. CASE DeleteReply(t) \/ TakeDownReply(t)
      <3>1. r \in ReplyRequest \/ r \in AgainRequest
        BY <2>0, <2>4, RequestKinds DEF DeleteReply, TakeDownReply, Now, OnReplies
      <3>2. r.who \in People
        BY <3>1 DEF PostRequest, ReplyRequest, AgainRequest
      <3>3. \/ reply' = [reply EXCEPT ![r.on] = Deleted(reply[r.on], r.row)]
            \/ reply' = [reply EXCEPT ![r.on] = TakenDown(reply[r.on], r.row, r.who)]
        BY <2>4 DEF DeleteReply, TakeDownReply
      <3>4. StaysGone(reply, reply')
        <4>1. ASSUME r.on \in DOMAIN reply
              PROVE  LET row == reply[r.on]
                     IN /\ Deleted(row, r.row).dead /\ Deleted(row, r.row).by = row.by
                        /\ TakenDown(row, r.row, r.who).dead /\ TakenDown(row, r.row, r.who).by # Nobody
          <5>1. reply[r.on] \in Row \cup ReplyRow
            BY <1>3, <4>1
          <5> HIDE DEF r
          <5> QED
            BY <3>2, <5>1, SaveKeepsGone
        <4>2. CASE reply' = [reply EXCEPT ![r.on] = Deleted(reply[r.on], r.row)]
          BY <4>1, <4>2, OneSaved
        <4>3. CASE reply' = [reply EXCEPT ![r.on] = TakenDown(reply[r.on], r.row, r.who)]
          BY <4>1, <4>3, OneSaved
        <4> QED
          BY <3>3, <4>2, <4>3
      <3> QED
        BY <1>1, <2>4, <3>4 DEF DeleteReply, TakeDownReply
    <2>5. ASSUME NEW p, NEW g, NEW to, Compose(t, p, g, to) PROVE UNCHANGED <<post, reply>>
      BY <2>5 DEF Compose
    <2>6. ASSUME NEW kind, OpenReaction(t, kind) PROVE UNCHANGED <<post, reply>>
      BY <2>6 DEF OpenReaction
    <2>7. LookAgain(t) \/ SidesForReply(t) \/ LookAgainAtReply(t) \/ Tap(t) => UNCHANGED <<post, reply>>
      BY DEF LookAgain, SidesForReply, LookAgainAtReply, Tap
    <2> HIDE DEF r
    <2> QED
      BY <1>1, <1>2, <1>4, <2>1, <2>2, <2>3, <2>4, <2>5, <2>6, <2>7 DEF Writing
  <1>5. ASSUME NEW t \in Tabs, Reading(t) PROVE UNCHANGED <<post, reply>>
    BY <1>5 DEF Reading, OpenPost, AskForReply, OpenReply, OpenFeed, SidesForReplies, ReadReplies,
                SidesForReactions, ReadReactions, ClosePage, OpenAdd
  <1>6. ASSUME Roster PROVE StaysGone(post, post') /\ StaysGone(reply, reply')
    <2>1. ASSUME NEW p \in People, NEW content, RemoveMember(p, content)
          PROVE  StaysGone(post, post') /\ StaysGone(reply, reply')
      <3>1. StaysGone(post, Gone(post, p)) /\ StaysGone(reply, Gone(reply, p))
        BY <1>3, <2>1, SaveKeepsGone DEF StaysGone, Gone
      <3> QED
        BY <1>1, <1>2, <2>1, <3>1 DEF RemoveMember
    <2>2. ASSUME NEW a, NEW p, NEW g, AddToHousehold(a, p, g) PROVE UNCHANGED <<post, reply>>
      BY <2>2 DEF AddToHousehold
    <2>4. ASSUME NEW t, Join(t) PROVE UNCHANGED <<post, reply>>
      BY <2>4 DEF Join
    <2>3. ASSUME NEW p, NEW g, Leave(p, g) PROVE UNCHANGED <<post, reply>>
      BY <2>3 DEF Leave
    <2> QED
      BY <1>1, <1>2, <1>6, <2>1, <2>2, <2>3, <2>4, DoesAssumption DEF Roster
  <1>7. Tick \/ UNCHANGED vars => UNCHANGED <<post, reply>>
    BY DEF Tick, vars
  <1> QED
    BY <1>1, <1>2, <1>4, <1>5, <1>6, <1>7 DEF Next

(* What is deleted stays deleted and a takedown stays signed, whichever    *)
(* requests read the row before it and save it after (the update_fields of *)
(* posting.py, commenting.py and moderation.py).                           *)
THEOREM GoneForGood == Spec => GoneStaysGone
  <1>1. Typed /\ [Next]_vars => [StaysGone(post, post') /\ StaysGone(reply, reply')]_vars
    BY StepKeepsGone
  <1> QED
    BY <1>1, TypedHolds, PTL DEF Spec, GoneStaysGone

-----------------------------------------------------------------------------
(* Staging: the uploads and the draft held across the confirmation page.   *)

LEMMA NothingIsApart ==
    /\ Nothing \notin Handles /\ Nothing \notin Uploads
    /\ Nothing \notin Entry /\ Nothing \notin Submission
  BY NothingAssumption

(* The record a request opens with.                                         *)
Opening(kind, h, new) ==
    [kind |-> kind, handle |-> h, copy |-> Without(session, h),
     dirty |-> NamesIn(session, h) # {}, pc |-> "claim", named |-> NamesIn(session, h),
     todo |-> NamesIn(session, h), open |-> Nothing, hand |-> new, got |-> {}, told |-> {}]

(* A step of the request in slot r leaves the record q there.               *)
Moves(r, q) == req' = [req EXCEPT ![r] = q]

(* Every manifest and draft is of handles already drawn.                    *)
Known(s, h) == s.manifest \cup ({s.draft} \ {Nothing}) \subseteq {g \in Handles : h[g] # Nothing}
Knowing(q, h) ==
    /\ Known(q.copy, h)
    /\ q.kind = "compose" /\ q.pc = "answer" => q.copy.draft # Nothing
Drawn ==
    /\ Known(session, held)
    /\ \A r \in Requests : req[r] # Nothing => Knowing(req[r], held)

DrawnTypes == StagingTypeOK /\ Drawn

LEMMA WithoutIs ==
  ASSUME NEW s \in Session, NEW h
  PROVE  /\ Without(s, h) \in Session
         /\ Without(s, h).manifest = s.manifest \ {h}
         /\ Without(s, h).draft = s.draft
  BY DEF Without, Session

LEMMA ClearDraftIs ==
  ASSUME NEW s \in Session
  PROVE  /\ ClearDraft(s) \in Session
         /\ ClearDraft(s).manifest = s.manifest /\ ClearDraft(s).draft = Nothing
  BY DEF ClearDraft, Session

LEMMA NamesAreUploads ==
  ASSUME DrawnTypes, NEW h
  PROVE  NamesIn(session, h) \subseteq Uploads
  <1>1. CASE h \in session.manifest
    <2>1. held[h] \in Entry
      BY <1>1 DEF DrawnTypes, Drawn, Known, StagingTypeOK
    <2> QED
      BY <1>1, <2>1 DEF NamesIn, Entry
  <1>2. CASE h \notin session.manifest
    BY <1>2 DEF NamesIn
  <1> QED
    BY <1>1, <1>2

LEMMA OpenDoes ==
  ASSUME DrawnTypes, NEW r \in Requests, NEW kind \in {"compose", "cancel"},
         NEW h \in Handles \cup {Nothing}, NEW new \in SUBSET Uploads, Open(r, kind, h, new)
  PROVE  LET q == Opening(kind, h, new)
         IN  /\ Moves(r, q) /\ q \in Submission /\ req[r] = Nothing
             /\ q.pc = "claim" /\ q.named = q.todo /\ q.open = Nothing
             /\ q.handle \notin q.copy.manifest
             /\ q.copy.manifest \subseteq session.manifest /\ q.copy.draft = session.draft
             /\ ~q.dirty => q.todo = {}
  <1>1. session \in Session
    BY DEF DrawnTypes, StagingTypeOK
  <1>2. Without(session, h) \in Session /\ Without(session, h).manifest = session.manifest \ {h}
        /\ Without(session, h).draft = session.draft
    BY <1>1, WithoutIs
  <1>3. NamesIn(session, h) \subseteq Uploads
    BY NamesAreUploads
  <1>4. Moves(r, Opening(kind, h, new)) /\ req[r] = Nothing
    BY DEF Open, Opening, Moves, Becomes, Free, Vacant
  <1>5. Opening(kind, h, new) \in Submission
    BY <1>2, <1>3 DEF Opening, Submission
  <1> QED
    BY <1>2, <1>4, <1>5 DEF Opening

LEMMA ReadDoes ==
  ASSUME StagingTypeOK, NEW r \in Requests, NEW u, ReadStaged(r, u)
  PROVE  \E q \in Submission :
           /\ Moves(r, q) /\ req[r] \in Submission
           /\ q.kind = req[r].kind /\ q.pc = req[r].pc /\ q.named = req[r].named /\ q.handle = req[r].handle
           /\ q.copy = req[r].copy /\ q.dirty = req[r].dirty
           /\ req[r].todo # {}
           /\ q.todo \cup q.hand \cup q.told = req[r].todo \cup req[r].hand \cup req[r].told
           /\ q.got = req[r].got /\ req[r].told \subseteq q.told
  <1>1. req[r] \in Submission /\ req[r].todo # {} /\ u = CHOOSE v \in req[r].todo : TRUE
    BY DEF ReadStaged, Recovering, Vacant, StagingTypeOK
  <1>2. u \in req[r].todo /\ u \in Uploads
    BY <1>1 DEF Submission
  <1>3. CASE <<req[r].handle, u>> \in disk
    <2> DEFINE q == [req[r] EXCEPT !.todo = @ \ {u}, !.hand = @ \cup {u}, !.open = u]
    <2>1. Moves(r, q)
      BY <1>3 DEF ReadStaged, Becomes, Moves
    <2>2. q \in Submission
      BY <1>1, <1>2 DEF Submission
    <2>3. /\ q.kind = req[r].kind /\ q.pc = req[r].pc /\ q.named = req[r].named /\ q.handle = req[r].handle
          /\ q.copy = req[r].copy /\ q.dirty = req[r].dirty
          /\ q.todo \cup q.hand \cup q.told = req[r].todo \cup req[r].hand \cup req[r].told
          /\ q.got = req[r].got /\ req[r].told \subseteq q.told
      BY <1>1, <1>2 DEF Submission
    <2> HIDE DEF q
    <2> QED
      BY <1>1, <2>1, <2>2, <2>3
  <1>4. CASE <<req[r].handle, u>> \notin disk
    <2> DEFINE q == [req[r] EXCEPT !.todo = @ \ {u}, !.told = @ \cup Missing(r, u)]
    <2>1. Moves(r, q)
      BY <1>4 DEF ReadStaged, Becomes, Moves
    <2>2. q \in Submission
      BY <1>1, <1>2 DEF Submission, Missing
    <2>3. /\ q.kind = req[r].kind /\ q.pc = req[r].pc /\ q.named = req[r].named /\ q.handle = req[r].handle
          /\ q.copy = req[r].copy /\ q.dirty = req[r].dirty
          /\ q.todo \cup q.hand \cup q.told = req[r].todo \cup req[r].hand \cup req[r].told
          /\ q.got = req[r].got /\ req[r].told \subseteq q.told
      BY <1>1, <1>2 DEF Submission, Missing
    <2> HIDE DEF q
    <2> QED
      BY <1>1, <2>1, <2>2, <2>3
  <1> QED
    BY <1>3, <1>4

LEMMA UnlinkDoes ==
  ASSUME StagingTypeOK, NEW r \in Requests, UnlinkStaged(r)
  PROVE  \E q \in Submission :
           /\ Moves(r, q) /\ req[r] \in Submission /\ req[r].open # Nothing
           /\ q.kind = req[r].kind /\ q.pc = req[r].pc /\ q.named = req[r].named /\ q.handle = req[r].handle
           /\ q.copy = req[r].copy /\ q.dirty = req[r].dirty
           /\ q.todo = req[r].todo /\ q.hand = req[r].hand /\ q.told = req[r].told
           /\ q.got = req[r].got
  <1>1. req[r] \in Submission /\ req[r].open # Nothing
    BY DEF UnlinkStaged, Vacant, StagingTypeOK
  <1> DEFINE q == [req[r] EXCEPT !.open = Nothing]
  <1>2. Moves(r, q)
    BY DEF UnlinkStaged, Becomes, Moves
  <1>3. q \in Submission
    BY <1>1 DEF Submission
  <1>4. /\ q.kind = req[r].kind /\ q.pc = req[r].pc /\ q.named = req[r].named /\ q.handle = req[r].handle
        /\ q.copy = req[r].copy /\ q.dirty = req[r].dirty
        /\ q.todo = req[r].todo /\ q.hand = req[r].hand /\ q.told = req[r].told
        /\ q.got = req[r].got
    BY <1>1 DEF Submission
  <1> HIDE DEF q
  <1> QED
    BY <1>1, <1>2, <1>3, <1>4

(* The entries a new one leaves in the copy of the request in slot r.       *)
Survivors(r, pics) == Kept(Prune(req[r].copy.manifest), Cardinality(pics))

(* What Bounce leaves in the record q of its request, and on disk.          *)
Bounced(r, h, pics, q) ==
    /\ Moves(r, q) /\ req[r] \in Submission /\ req[r].pc = "claim"
    /\ q.pc = "answer" /\ q.named = {} /\ q.handle = Nothing /\ q.dirty
    /\ q.copy.draft = h
    /\ pics = {} => q.copy.manifest = req[r].copy.manifest /\ disk' = disk
    /\ pics # {} =>
          /\ q.copy.manifest = Survivors(r, pics) \cup {h}
          /\ disk' = (disk \ FilesOf(Prune(req[r].copy.manifest) \ Survivors(r, pics)))
                        \cup ({h} \X pics)

LEMMA BounceDoes ==
  ASSUME StagingTypeOK, NEW r \in Requests, NEW h \in Handles, NEW pics \in SUBSET Uploads,
         Bounce(r, h, pics)
  PROVE  \E q \in Submission : Bounced(r, h, pics, q)
  <1>1. req[r] \in Submission /\ req[r].pc = "claim"
    BY DEF Bounce, Claimed, At, Vacant, StagingTypeOK
  <1>2. req[r].copy \in Session
    BY <1>1 DEF Submission
  <1> DEFINE m == Prune(req[r].copy.manifest)
             kept == Kept(m, Cardinality(pics))
  <1>3. m \subseteq req[r].copy.manifest /\ kept \subseteq m
    BY DEF Prune, Kept
  <1>4. FilesOf(m \ kept) = Released(m, Cardinality(pics))
    <2>1. m \ kept = Evicted(m, Cardinality(pics))
      BY DEF Kept, Evicted
    <2> QED
      BY <2>1 DEF Released
  <1>5. CASE pics = {}
    <2> DEFINE q == [req[r] EXCEPT !.copy.draft = h, !.dirty = TRUE,
                               !.hand = {}, !.named = {}, !.told = {}, !.handle = Nothing,
                               !.pc = "answer"]
    <2>1. Moves(r, q) /\ disk' = disk
      BY <1>5 DEF Bounce, Becomes, Moves
    <2>2. [req[r].copy EXCEPT !.draft = h] \in Session
          /\ [req[r].copy EXCEPT !.draft = h].draft = h
          /\ [req[r].copy EXCEPT !.draft = h].manifest = req[r].copy.manifest
      BY <1>2 DEF Session
    <2>3. q \in Submission /\ q.copy = [req[r].copy EXCEPT !.draft = h]
      BY <1>1, <2>2 DEF Submission
    <2>4. q.pc = "answer" /\ q.named = {} /\ q.handle = Nothing /\ q.dirty
      BY <1>1 DEF Submission
    <2> HIDE DEF q
    <2> QED
      BY <1>1, <1>5, <2>1, <2>2, <2>3, <2>4 DEF Bounced
  <1>6. CASE pics # {}
    <2> DEFINE c == [manifest |-> kept \cup {h}, draft |-> h]
               q == [req[r] EXCEPT !.copy = c, !.dirty = TRUE,
                               !.hand = {}, !.named = {}, !.told = {}, !.handle = Nothing,
                               !.pc = "answer"]
    <2>1. Moves(r, q)
      BY <1>6 DEF Bounce, Becomes, Moves
    <2>2. disk' = (disk \ FilesOf(m \ kept)) \cup ({h} \X pics)
      BY <1>4, <1>6 DEF Bounce
    <2>3. c \in Session
      BY <1>2, <1>3 DEF Session
    <2> HIDE DEF m, kept
    <2>4. c.draft = h /\ c.manifest = kept \cup {h}
      OBVIOUS
    <2> HIDE DEF c
    <2>5. q \in Submission /\ q.copy = c
      BY <1>1, <2>3 DEF Submission
    <2>6. q.pc = "answer" /\ q.named = {} /\ q.handle = Nothing /\ q.dirty
      BY <1>1 DEF Submission
    <2> HIDE DEF q
    <2> QED
      BY <1>1, <1>6, <2>1, <2>2, <2>4, <2>5, <2>6 DEF m, kept, Survivors, Bounced
  <1> QED
    BY <1>5, <1>6

LEMMA PostDoes ==
  ASSUME StagingTypeOK, NEW r \in Requests, NEW pics \in SUBSET Uploads,
         NEW good \in SUBSET Uploads, Post(r, pics, good)
  PROVE  \E q \in Submission :
           /\ Moves(r, q) /\ req[r] \in Submission /\ req[r].pc = "claim" /\ req[r].todo = {}
           /\ q.pc = "posted" /\ q.named = req[r].named /\ q.handle = req[r].handle
           /\ q.got \cup q.told = req[r].told \cup pics
           /\ q.todo = req[r].todo /\ q.open = req[r].open /\ req[r].open = Nothing
           /\ q.copy.manifest = req[r].copy.manifest /\ q.copy.draft = Nothing
           /\ q.dirty
  <1>1. req[r] \in Submission /\ req[r].pc = "claim" /\ req[r].todo = {} /\ req[r].open = Nothing
        /\ good \subseteq pics
    BY DEF Post, Claimed, At, Vacant, StagingTypeOK
  <1>2. req[r].copy \in Session
    BY <1>1 DEF Submission
  <1>3. ClearDraft(req[r].copy) \in Session /\ ClearDraft(req[r].copy).draft = Nothing
        /\ ClearDraft(req[r].copy).manifest = req[r].copy.manifest
    BY <1>2, ClearDraftIs
  <1> DEFINE q == [req[r] EXCEPT
           !.got = good, !.told = @ \cup (pics \ good), !.hand = {},
           !.copy = ClearDraft(@), !.dirty = TRUE, !.pc = "posted"]
  <1>4. Moves(r, q)
    BY DEF Post, Becomes, Moves
  <1>5. q \in Submission
    BY <1>1, <1>3 DEF Submission
  <1>6. /\ q.pc = "posted" /\ q.named = req[r].named /\ q.handle = req[r].handle
        /\ q.todo = req[r].todo /\ q.open = req[r].open
        /\ q.copy = ClearDraft(req[r].copy)
        /\ q.got = good /\ q.told = req[r].told \cup (pics \ good)
    BY <1>1 DEF Submission
  <1>7. q.dirty
    BY <1>1 DEF Submission
  <1> HIDE DEF q
  <1>8. q.got \cup q.told = req[r].told \cup pics
    BY <1>1, <1>6
  <1> QED
    BY <1>1, <1>3, <1>4, <1>5, <1>6, <1>7, <1>8

LEMMA CancelDoes ==
  ASSUME StagingTypeOK, NEW r \in Requests, Cancel(r)
  PROVE  \E q \in Submission :
           /\ Moves(r, q) /\ req[r] \in Submission
           /\ q.kind = "cancel" /\ q.pc = "answer" /\ q.handle = req[r].handle
           /\ q.todo = req[r].todo /\ q.open = req[r].open
           /\ q.copy.manifest = req[r].copy.manifest /\ q.copy.draft = Nothing
           /\ ~q.dirty => ~req[r].dirty
  <1>1. req[r] \in Submission /\ req[r].kind = "cancel"
    BY DEF Cancel, Claimed, At, Vacant, StagingTypeOK
  <1>2. req[r].copy \in Session
    BY <1>1 DEF Submission
  <1>3. ClearDraft(req[r].copy) \in Session /\ ClearDraft(req[r].copy).draft = Nothing
        /\ ClearDraft(req[r].copy).manifest = req[r].copy.manifest
    BY <1>2, ClearDraftIs
  <1> DEFINE q == [req[r] EXCEPT
           !.hand = {}, !.copy = ClearDraft(@),
           !.dirty = @ \/ req[r].copy.draft # Nothing, !.pc = "answer"]
  <1>4. Moves(r, q)
    BY DEF Cancel, Becomes, Moves
  <1>5. q \in Submission
    BY <1>1, <1>3 DEF Submission
  <1>6. /\ q.kind = "cancel" /\ q.pc = "answer" /\ q.handle = req[r].handle
        /\ q.todo = req[r].todo /\ q.open = req[r].open
        /\ q.copy = ClearDraft(req[r].copy)
    BY <1>1 DEF Submission
  <1>7. ~q.dirty => ~req[r].dirty
    BY <1>1 DEF Submission
  <1> HIDE DEF q
  <1> QED
    BY <1>1, <1>3, <1>4, <1>5, <1>6, <1>7

LEMMA RenderDoes ==
  ASSUME StagingTypeOK, NEW r \in Requests, Render(r)
  PROVE  \E q \in Submission :
           /\ Moves(r, q) /\ req[r] = Nothing
           /\ q.kind = "feed" /\ q.pc = "answer" /\ q.handle = Nothing /\ q.dirty
           /\ q.copy.manifest = session.manifest /\ q.copy.draft = Nothing
  <1>1. session \in Session
    BY DEF StagingTypeOK
  <1>2. ClearDraft(session) \in Session /\ ClearDraft(session).draft = Nothing
        /\ ClearDraft(session).manifest = session.manifest
    BY <1>1, ClearDraftIs
  <1> DEFINE q == [kind |-> "feed", handle |-> Nothing,
                   copy |-> ClearDraft(session), dirty |-> TRUE, pc |-> "answer", named |-> {},
                   todo |-> {}, open |-> Nothing, hand |-> {}, got |-> {}, told |-> {}]
  <1>3. Moves(r, q) /\ req[r] = Nothing
    BY DEF Render, Becomes, Moves, Free, Vacant
  <1>4. q \in Submission
    BY <1>2 DEF Submission
  <1>5. q.kind = "feed" /\ q.pc = "answer" /\ q.handle = Nothing /\ q.dirty /\ q.copy = ClearDraft(session)
    OBVIOUS
  <1> HIDE DEF q
  <1> QED
    BY <1>2, <1>3, <1>4, <1>5

-----------------------------------------------------------------------------
(* Types, and that whatever a session names has been drawn.                 *)

(* What stage() draws is drawn for good.                                    *)
LEMMA HeldGrows ==
  ASSUME StagingTypeOK, StagingNext
  PROVE  /\ held' \in [Handles -> Entry \cup {Nothing}]
         /\ \A h \in Handles : held[h] # Nothing =>
               /\ held'[h] # Nothing /\ held'[h].pics = held[h].pics
               /\ held'[h].age <= TTL => held[h].age <= TTL
  <1>1. CASE UNCHANGED held
    BY <1>1 DEF StagingTypeOK
  <1>2. CASE HourPasses
    <2>1. \A h \in Handles : held[h] \in Entry =>
             /\ held[h].age \in Nat
             /\ ~Expired(h) =>
                   /\ [held[h] EXCEPT !.age = @ + 1] \in Entry
                   /\ [held[h] EXCEPT !.age = @ + 1].pics = held[h].pics
                   /\ [held[h] EXCEPT !.age = @ + 1].age = held[h].age + 1
      BY StagingBounds DEF Entry, Expired
    <2>2. held' = [h \in Handles |->
             IF held[h] = Nothing \/ Expired(h) THEN held[h] ELSE [held[h] EXCEPT !.age = @ + 1]]
      BY <1>2 DEF HourPasses
    <2>3. \A h \in Handles : held[h] \in Entry \cup {Nothing}
      BY DEF StagingTypeOK
    <2>4. \A h \in Handles : held'[h] \in Entry \cup {Nothing}
      BY <2>1, <2>2, <2>3
    <2>5. ASSUME NEW h \in Handles, held[h] # Nothing
          PROVE  /\ held'[h] # Nothing /\ held'[h].pics = held[h].pics
                 /\ held'[h].age <= TTL => held[h].age <= TTL
      <3>1. held[h] \in Entry
        BY <2>3, <2>5
      <3>2. CASE Expired(h)
        BY <2>2, <2>5, <3>2
      <3>3. CASE ~Expired(h)
        <4>1. held'[h] = [held[h] EXCEPT !.age = @ + 1]
          BY <2>2, <2>5, <3>3
        <4>2. held'[h] \in Entry /\ held'[h].pics = held[h].pics /\ held'[h].age = held[h].age + 1
          BY <2>1, <3>1, <3>3, <4>1
        <4> QED
          <5>1. TTL \in Nat /\ held[h].age \in Nat
            BY <2>1, <3>1, StagingBounds
          <5>2. held'[h].age <= TTL => held[h].age <= TTL
            BY <4>2, <5>1
          <5> QED
            BY <4>2, <5>2, NothingIsApart
      <3> QED
        BY <3>2, <3>3
    <2>6. held' = [h \in Handles |-> held'[h]]
      BY <2>2
    <2> QED
      BY <2>4, <2>5, <2>6
  <1>3. ASSUME NEW r \in Requests, NEW h \in Handles, NEW pics \in SUBSET Uploads, Bounce(r, h, pics)
        PROVE  /\ held' \in [Handles -> Entry \cup {Nothing}]
               /\ \A g \in Handles : held[g] # Nothing => held'[g] = held[g]
    <2>1. held' = [held EXCEPT ![h] = [pics |-> pics, age |-> 0]] /\ held[h] = Nothing
      BY <1>3 DEF Bounce
    <2>2. [pics |-> pics, age |-> 0] \in Entry
      BY StagingBounds DEF Entry
    <2> QED
      BY <2>1, <2>2 DEF StagingTypeOK
  <1>4. ASSUME NEW r \in Requests, Step(r)
        PROVE  UNCHANGED held \/ \E h \in Handles, pics \in SUBSET Uploads : Bounce(r, h, pics)
    BY <1>4 DEF Step, Open, ReadStaged, UnlinkStaged, Post, Cancel, Render, Answer, Fail
  <1>5. CASE Sweep
    BY <1>1, <1>5 DEF Sweep
  <1> QED
    BY <1>1, <1>2, <1>3, <1>4, <1>5 DEF StagingNext

(* A step of a request changes its own record, and only those of its steps  *)
(* that the lemmas above describe leave one behind.                         *)
Starts(r) ==
    \/ \E kind \in {"compose", "cancel"}, h \in Handles \cup {Nothing}, new \in SUBSET Uploads :
          Open(r, kind, h, new)
    \/ Render(r)
Works(r) ==
    \/ \E u \in Uploads : ReadStaged(r, u)
    \/ UnlinkStaged(r)
    \/ \E h \in Handles, pics \in SUBSET Uploads : Bounce(r, h, pics)
    \/ \E pics, good \in SUBSET Uploads : Post(r, pics, good)
    \/ Cancel(r)
Ends(r) == Answer(r) \/ Fail(r)

LEMMA StepIs == \A r \in Requests : Step(r) => Starts(r) \/ Works(r) \/ Ends(r)
  BY DEF Step, Starts, Works, Ends

LEMMA EndDoes ==
  ASSUME StagingTypeOK, NEW r \in Requests, Ends(r)
  PROVE  Moves(r, Nothing) /\ req[r] # Nothing /\ req[r] \in Submission
  BY DEF Ends, Answer, Fail, Becomes, Moves, Vacant, StagingTypeOK

LEMMA StepMoves ==
  ASSUME DrawnTypes, NEW r \in Requests, Step(r)
  PROVE  \E q \in Submission \cup {Nothing} :
           /\ Moves(r, q)
           /\ q # Nothing => Knowing(q, held')
  <1>1. \A s : Known(s, held) => Known(s, held')
    BY HeldGrows DEF DrawnTypes, Known, StagingNext
  <1>2. req[r] # Nothing => Knowing(req[r], held')
    BY <1>1 DEF DrawnTypes, Drawn, Knowing
  <1>3. Known(session, held')
    BY <1>1 DEF DrawnTypes, Drawn
  <1>4. ASSUME NEW kind \in {"compose", "cancel"}, NEW h \in Handles \cup {Nothing},
               NEW new \in SUBSET Uploads, Open(r, kind, h, new)
        PROVE  \E q \in Submission : Moves(r, q) /\ Knowing(q, held')
    <2> DEFINE q == Opening(kind, h, new)
    <2>1. q \in Submission /\ Moves(r, q) /\ q.copy.manifest \subseteq session.manifest
          /\ q.copy.draft = session.draft /\ q.pc = "claim"
      BY <1>4, OpenDoes
    <2> QED
      BY <1>3, <2>1 DEF Known, Knowing
  <1>5. CASE Render(r)
    <2>1. PICK q \in Submission : Moves(r, q) /\ q.copy.manifest = session.manifest
                                  /\ q.copy.draft = Nothing /\ q.kind = "feed"
      BY <1>5, RenderDoes DEF DrawnTypes
    <2> QED
      BY <1>3, <2>1 DEF Known, Knowing
  <1>6. ASSUME NEW u \in Uploads, ReadStaged(r, u)
        PROVE  \E q \in Submission : Moves(r, q) /\ Knowing(q, held')
    <2>1. PICK q \in Submission : Moves(r, q) /\ q.copy = req[r].copy /\ req[r] \in Submission
                                  /\ q.kind = req[r].kind /\ q.pc = req[r].pc
      BY <1>6, ReadDoes DEF DrawnTypes
    <2> QED
      BY <1>2, <2>1, NothingIsApart DEF Knowing
  <1>7. CASE UnlinkStaged(r)
    <2>1. PICK q \in Submission : Moves(r, q) /\ q.copy = req[r].copy /\ req[r] \in Submission
                                  /\ q.kind = req[r].kind /\ q.pc = req[r].pc
      BY <1>7, UnlinkDoes DEF DrawnTypes
    <2> QED
      BY <1>2, <2>1, NothingIsApart DEF Knowing
  <1>8. ASSUME NEW h \in Handles, NEW pics \in SUBSET Uploads, Bounce(r, h, pics)
        PROVE  \E q \in Submission : Moves(r, q) /\ Knowing(q, held')
    <2>1. PICK q \in Submission :
             /\ Moves(r, q) /\ req[r] \in Submission /\ q.copy.draft = h
             /\ q.copy.manifest \subseteq req[r].copy.manifest \cup {h}
      <3>1. PICK q \in Submission :
               /\ Moves(r, q) /\ req[r] \in Submission /\ q.copy.draft = h
               /\ \/ q.copy.manifest = req[r].copy.manifest
                  \/ q.copy.manifest = Survivors(r, pics) \cup {h}
        <4>1. PICK q \in Submission : Bounced(r, h, pics, q)
          BY <1>8, BounceDoes DEF DrawnTypes
        <4> QED
          BY <4>1 DEF Bounced
      <3>2. Survivors(r, pics) \subseteq req[r].copy.manifest
        BY DEF Survivors, Prune, Kept
      <3> QED
        BY <3>1, <3>2
    <2>2. held'[h] # Nothing
      <3>1. held' = [held EXCEPT ![h] = [pics |-> pics, age |-> 0]]
        BY <1>8 DEF Bounce
      <3>2. [pics |-> pics, age |-> 0] \in Entry
        BY StagingBounds DEF Entry
      <3> QED
        BY <3>1, <3>2, NothingIsApart DEF DrawnTypes, StagingTypeOK
    <2> QED
      BY <1>2, <2>1, <2>2, NothingIsApart DEF Known, Knowing
  <1>9. ASSUME NEW pics \in SUBSET Uploads, NEW good \in SUBSET Uploads, Post(r, pics, good)
        PROVE  \E q \in Submission : Moves(r, q) /\ Knowing(q, held')
    <2>1. PICK q \in Submission : Moves(r, q) /\ q.copy.manifest = req[r].copy.manifest
                                  /\ q.copy.draft = Nothing /\ req[r] \in Submission
                                  /\ q.pc = "posted"
      BY <1>9, PostDoes DEF DrawnTypes
    <2> QED
      BY <1>2, <2>1, NothingIsApart DEF Known, Knowing
  <1>10. CASE Cancel(r)
    <2>1. PICK q \in Submission : Moves(r, q) /\ q.copy.manifest = req[r].copy.manifest
                                  /\ q.copy.draft = Nothing /\ req[r] \in Submission
                                  /\ q.kind = "cancel"
      BY <1>10, CancelDoes DEF DrawnTypes
    <2> QED
      BY <1>2, <2>1, NothingIsApart DEF Known, Knowing
  <1>11. CASE Ends(r)
    BY <1>11, EndDoes DEF DrawnTypes
  <1>12. Starts(r) \/ Works(r) \/ Ends(r)
    BY StepIs
  <1> QED
    BY <1>4, <1>5, <1>6, <1>7, <1>8, <1>9, <1>10, <1>11, <1>12, NothingIsApart DEF Starts, Works

LEMMA RestTyped ==
  ASSUME DrawnTypes, NEW r \in Requests, Step(r)
  PROVE  /\ disk' \subseteq Handles \X Uploads
         /\ session' \in Session /\ Known(session', held')
         /\ shown' \subseteq Handles /\ picked' \subseteq Uploads
         /\ raced' \in 0 .. MaxRaces /\ failed' \in 0 .. MaxFailures
  <1>0. \A s : Known(s, held) => Known(s, held')
    BY HeldGrows DEF DrawnTypes, Known, StagingNext
  <1> USE DEF DrawnTypes, StagingTypeOK
  <1>1. ASSUME NEW kind, NEW h, NEW new \in SUBSET Uploads, Open(r, kind, h, new)
        PROVE  /\ picked' \subseteq Uploads /\ raced' \in 0 .. MaxRaces
               /\ UNCHANGED <<disk, session, shown, failed>>
    BY <1>1, StagingBounds DEF Open, Overlap
  <1>2. CASE Render(r)
    BY <1>0, <1>2, StagingBounds DEF Render, Overlap, Drawn
  <1>3. ASSUME NEW u, ReadStaged(r, u) PROVE UNCHANGED <<disk, session, shown, picked, raced, failed>>
    BY <1>3 DEF ReadStaged
  <1>4. CASE UnlinkStaged(r)
    BY <1>0, <1>4 DEF UnlinkStaged, Drawn
  <1>5. ASSUME NEW h \in Handles, NEW pics \in SUBSET Uploads, Bounce(r, h, pics)
        PROVE  /\ disk' \subseteq Handles \X Uploads
               /\ UNCHANGED <<session, shown, picked, raced, failed>>
    BY <1>5 DEF Bounce
  <1>6. ASSUME NEW pics, NEW good, Post(r, pics, good)
        PROVE  UNCHANGED <<disk, session, shown, picked, raced, failed>>
    BY <1>6 DEF Post
  <1>7. CASE Cancel(r)
    BY <1>0, <1>7 DEF Cancel, Drawn
  <1>8. CASE Answer(r)
    <2>1. req[r] \in Submission /\ Knowing(req[r], held)
      BY <1>8 DEF Answer, Drawn, Vacant
    <2>2. req[r].copy \in Session
      BY <2>1 DEF Submission
    <2>3. session' = req[r].copy \/ session' = session
      BY <1>8 DEF Answer
    <2>4. At(r, "compose", "answer") => req[r].copy.draft \in Handles
      BY <2>1, <2>2 DEF At, Knowing, Session
    <2>5. shown' \subseteq Handles
      BY <1>8, <2>4 DEF Answer
    <2> QED
      BY <1>0, <1>8, <2>1, <2>2, <2>3, <2>5 DEF Answer, Drawn, Knowing
  <1>9. CASE Fail(r)
    BY <1>0, <1>9, StagingBounds DEF Fail, Drawn
  <1> QED
    BY <1>0, <1>1, <1>2, <1>3, <1>4, <1>5, <1>6, <1>7, <1>8, <1>9 DEF Step, Drawn

LEMMA StepKeepsDrawn ==
  ASSUME DrawnTypes, [StagingNext]_stagingVars
  PROVE  DrawnTypes'
  <1>1. CASE UNCHANGED stagingVars
    BY <1>1 DEF stagingVars, DrawnTypes, StagingTypeOK, Drawn, Known, Knowing
  <1>2. ASSUME NEW r \in Requests, Step(r) PROVE DrawnTypes'
    <2>1. PICK q \in Submission \cup {Nothing} :
             Moves(r, q) /\ (q # Nothing => Knowing(q, held'))
      BY <1>2, StepMoves
    <2>2. \A s \in Requests : req'[s] = IF s = r THEN q ELSE req[s]
      BY <2>1 DEF Moves, DrawnTypes, StagingTypeOK
    <2>3. req' \in [Requests -> Submission \cup {Nothing}]
      BY <2>1 DEF Moves, DrawnTypes, StagingTypeOK
    <2>4. \A s \in Requests : req[s] # Nothing => Knowing(req[s], held')
      BY <1>2, HeldGrows DEF DrawnTypes, Drawn, Known, Knowing, StagingNext
    <2>5. \A s \in Requests : req'[s] # Nothing => Knowing(req'[s], held')
      BY <2>1, <2>2, <2>4
    <2>6. held' \in [Handles -> Entry \cup {Nothing}]
      BY <1>2, HeldGrows DEF DrawnTypes, StagingNext
    <2> QED
      BY <1>2, <2>3, <2>5, <2>6, RestTyped DEF DrawnTypes, StagingTypeOK, Drawn
  <1>3. CASE Sweep
    BY <1>3 DEF Sweep, DrawnTypes, StagingTypeOK, Drawn, Known, Knowing
  <1>4. CASE HourPasses
    <2>1. held' \in [Handles -> Entry \cup {Nothing}]
          /\ \A h \in Handles : held[h] # Nothing => held'[h] # Nothing
      BY <1>4, HeldGrows DEF DrawnTypes, StagingNext
    <2>2. UNCHANGED <<disk, session, req, shown, picked, raced, failed>>
      BY <1>4 DEF HourPasses
    <2> QED
      BY <2>1, <2>2 DEF DrawnTypes, StagingTypeOK, Drawn, Known, Knowing
  <1> QED
    BY <1>1, <1>2, <1>3, <1>4 DEF StagingNext

LEMMA DrawnHolds == StagingSpec => []DrawnTypes
  <1>1. StagingInit => DrawnTypes
    BY StagingBounds
    DEF StagingInit, DrawnTypes, StagingTypeOK, Drawn, Known, Session
  <1> QED
    BY <1>1, StepKeepsDrawn, PTL DEF StagingSpec

(* The type invariant of the staged uploads.                                *)
THEOREM StagedTyped == StagingSpec => []StagingTypeOK
  BY DrawnHolds, PTL DEF DrawnTypes

-----------------------------------------------------------------------------
(* Nothing claimed is lost in silence.                                      *)

(* What was named is still to be read, in hand, or told of.                 *)
Accounted(q) == q.pc = "claim" => q.named \subseteq q.todo \cup q.hand \cup q.told
SpokenOf(q) ==
    q.pc = "posted" =>
        \/ q.named \subseteq q.got \cup q.told
        \/ Cardinality(q.got \cup q.told) >= MaxPerPost
Spoken == \A r \in Requests : req[r] # Nothing => Accounted(req[r]) /\ SpokenOf(req[r])

LEMMA StepKeepsSpoken ==
  ASSUME DrawnTypes, Spoken, [StagingNext]_stagingVars
  PROVE  Spoken'
  <1>1. ASSUME NEW r \in Requests, NEW q \in Submission \cup {Nothing}, Moves(r, q),
               q # Nothing => Accounted(q) /\ SpokenOf(q)
        PROVE  Spoken'
    <2>1. \A s \in Requests : req'[s] = IF s = r THEN q ELSE req[s]
      BY <1>1 DEF Moves, DrawnTypes, StagingTypeOK
    <2>2. \A s \in Requests : req'[s] # Nothing => Accounted(req'[s]) /\ SpokenOf(req'[s])
      BY <1>1, <2>1 DEF Spoken
    <2> QED
      BY <2>2 DEF Spoken, Accounted, SpokenOf
  <1>2. CASE UNCHANGED req
    BY <1>2 DEF Spoken, Accounted, SpokenOf
  <1>3. ASSUME NEW r \in Requests, Starts(r) PROVE Spoken'
    <2>1. ASSUME NEW kind \in {"compose", "cancel"}, NEW h \in Handles \cup {Nothing},
                 NEW new \in SUBSET Uploads, Open(r, kind, h, new)
          PROVE  Spoken'
      <3>1. PICK q \in Submission : Moves(r, q) /\ q.pc = "claim" /\ q.named = q.todo
        BY <2>1, OpenDoes
      <3> QED
        BY <1>1, <3>1 DEF Accounted, SpokenOf
    <2>2. CASE Render(r)
      <3>1. PICK q \in Submission : Moves(r, q) /\ q.pc = "answer"
        BY <2>2, RenderDoes DEF DrawnTypes
      <3> QED
        BY <1>1, <3>1 DEF Accounted, SpokenOf
    <2> QED
      BY <1>3, <2>1, <2>2 DEF Starts
  <1>4. ASSUME NEW r \in Requests, Works(r) PROVE Spoken'
    <2>0. req[r] # Nothing => Accounted(req[r]) /\ SpokenOf(req[r])
      BY DEF Spoken
    <2>1. ASSUME NEW u \in Uploads, ReadStaged(r, u) PROVE Spoken'
      <3>1. PICK q \in Submission :
               /\ Moves(r, q) /\ req[r] \in Submission
               /\ q.pc = req[r].pc /\ q.named = req[r].named
               /\ q.todo \cup q.hand \cup q.told = req[r].todo \cup req[r].hand \cup req[r].told
               /\ q.got = req[r].got /\ req[r].told \subseteq q.told
        BY <2>1, ReadDoes DEF DrawnTypes
      <3>2. req[r] # Nothing
        BY <3>1, NothingIsApart
      <3>3. Accounted(q)
        BY <2>0, <3>1, <3>2 DEF Accounted
      <3>4. ASSUME Cardinality(req[r].got \cup req[r].told) >= MaxPerPost
            PROVE  Cardinality(q.got \cup q.told) >= MaxPerPost
        <4>1. IsFiniteSet(q.got \cup q.told)
          BY UploadsAssumption, FS_Subset DEF Submission
        <4>2. req[r].got \cup req[r].told \subseteq q.got \cup q.told
          BY <3>1
        <4>3. IsFiniteSet(req[r].got \cup req[r].told)
        /\ Cardinality(req[r].got \cup req[r].told) <= Cardinality(q.got \cup q.told)
          BY <4>1, <4>2, FS_Subset
        <4>4. Cardinality(q.got \cup q.told) \in Nat
              /\ Cardinality(req[r].got \cup req[r].told) \in Nat
          BY <4>1, <4>3, FS_CardinalityType
        <4> QED
          BY <3>4, <4>3, <4>4, StagingBounds
      <3>5. SpokenOf(q)
        BY <2>0, <3>1, <3>2, <3>4 DEF SpokenOf
      <3> QED
        BY <1>1, <3>1, <3>3, <3>5
    <2>2. CASE UnlinkStaged(r)
      <3>1. PICK q \in Submission :
               /\ Moves(r, q) /\ req[r] \in Submission
               /\ q.pc = req[r].pc /\ q.named = req[r].named
               /\ q.todo = req[r].todo /\ q.hand = req[r].hand /\ q.told = req[r].told
               /\ q.got = req[r].got
        BY <2>2, UnlinkDoes DEF DrawnTypes
      <3>2. req[r] # Nothing
        BY <3>1, NothingIsApart
      <3> QED
        BY <1>1, <2>0, <3>1, <3>2 DEF Accounted, SpokenOf
    <2>3. ASSUME NEW h \in Handles, NEW pics \in SUBSET Uploads, Bounce(r, h, pics) PROVE Spoken'
      <3>1. PICK q \in Submission : Bounced(r, h, pics, q)
        BY <2>3, BounceDoes DEF DrawnTypes
      <3> QED
        BY <1>1, <3>1 DEF Bounced, Accounted, SpokenOf
    <2>4. ASSUME NEW pics \in SUBSET Uploads, NEW good \in SUBSET Uploads, Post(r, pics, good)
          PROVE  Spoken'
      <3>0. StagingTypeOK
        BY DEF DrawnTypes
      <3>1. PICK q \in Submission :
               /\ Moves(r, q) /\ req[r] \in Submission /\ req[r].pc = "claim" /\ req[r].todo = {}
               /\ q.pc = "posted" /\ q.named = req[r].named /\ q.handle = req[r].handle
               /\ q.got \cup q.told = req[r].told \cup pics
               /\ q.todo = req[r].todo /\ q.open = req[r].open /\ req[r].open = Nothing
               /\ q.copy.manifest = req[r].copy.manifest /\ q.copy.draft = Nothing
               /\ q.dirty
        BY <2>4, <3>0, PostDoes
      <3>2. req[r].named \subseteq req[r].hand \cup req[r].told
        BY <2>0, <3>1, NothingIsApart DEF Accounted
      <3>3. Cardinality(pics) = MaxPerPost \/ pics = req[r].hand
        BY <2>4 DEF Post, Carried
      <3>4. CASE pics = req[r].hand
        BY <1>1, <3>1, <3>2, <3>4 DEF Accounted, SpokenOf
      <3>5. CASE Cardinality(pics) = MaxPerPost
        <4>1. IsFiniteSet(q.got \cup q.told)
          BY UploadsAssumption, FS_Subset DEF Submission
        <4>2. IsFiniteSet(pics) /\ Cardinality(pics) <= Cardinality(q.got \cup q.told)
          BY <3>1, <4>1, FS_Subset
        <4>3. Cardinality(q.got \cup q.told) \in Nat /\ Cardinality(pics) \in Nat
          BY <4>1, <4>2, FS_CardinalityType
        <4>4. Cardinality(q.got \cup q.told) >= MaxPerPost
          BY <3>5, <4>2, <4>3
        <4> QED
          BY <1>1, <3>1, <4>4 DEF Accounted, SpokenOf
      <3> QED
        BY <3>3, <3>4, <3>5
    <2>5. CASE Cancel(r)
      <3>1. PICK q \in Submission : Moves(r, q) /\ q.pc = "answer"
        BY <2>5, CancelDoes DEF DrawnTypes
      <3> QED
        BY <1>1, <3>1 DEF Accounted, SpokenOf
    <2> QED
      BY <1>4, <2>1, <2>2, <2>3, <2>4, <2>5 DEF Works
  <1>5. ASSUME NEW r \in Requests, Ends(r) PROVE Spoken'
    BY <1>1, <1>5, EndDoes DEF DrawnTypes
  <1>6. CASE Sweep \/ HourPasses
    BY <1>2, <1>6 DEF Sweep, HourPasses
  <1>7. CASE UNCHANGED stagingVars
    BY <1>2, <1>7 DEF stagingVars
  <1> QED
    BY <1>3, <1>4, <1>5, <1>6, <1>7, StepIs DEF StagingNext

(* Whatever requests, the sweep and failures do to each other, a post       *)
(* claimed with a handle its session knew carries every file staged under   *)
(* it, says which are missing, or holds as many as a post can.              *)
THEOREM NothingGoesUnsaid == StagingSpec => []ShortfallIsSpoken
  <1>1. StagingInit => Spoken
    BY DEF StagingInit, Spoken
  <1>2. Spoken => ShortfallIsSpoken
    BY DEF Spoken, SpokenOf, ShortfallIsSpoken, Vacant
  <1> QED
    BY <1>1, <1>2, StepKeepsSpoken, DrawnHolds, PTL DEF StagingSpec

-----------------------------------------------------------------------------
(* The words and the pictures stay in step.                                 *)

(* The files of the entries m that have not expired are on the disk d.      *)
Safe(m, h, d) == \A e \in m : h[e].age <= TTL => \A u \in h[e].pics : <<e, u>> \in d
(* A draft that shows pictures is an entry of its session's manifest.       *)
DraftKept(s, h) ==
    s.draft # Nothing /\ h[s.draft].age <= TTL /\ h[s.draft].pics # {} => s.draft \in s.manifest
Sound(s, h, d) == Safe(s.manifest, h, d) /\ DraftKept(s, h)

(* A request has taken the entry it reads out of its copy, and the rest of  *)
(* the copy is safe; what it has not changed still is as it found it.       *)
Fine(q, s, h, d) ==
    /\ q.handle \notin q.copy.manifest
    /\ Safe(q.copy.manifest, h, d)
    /\ q.pc # "claim" => DraftKept(q.copy, h)
    /\ ~q.dirty => q.todo = {} /\ q.open = Nothing /\ Sound(s, h, d)

InStep ==
    Orderly =>
        /\ \A r, s \in Requests : req[r] # Nothing /\ req[s] # Nothing => r = s
        /\ (\A r \in Requests : req[r] = Nothing) => Sound(session, held, disk)
        /\ \A r \in Requests : req[r] # Nothing => Fine(req[r], session, held, disk)

LEMMA OnlyMoreGoesWrong ==
  ASSUME DrawnTypes, StagingNext, Orderly'
  PROVE  /\ Orderly
         /\ \A r \in Requests : Starts(r) => \A s \in Requests : req[s] = Nothing
  <1>1. raced \in Nat /\ failed \in Nat
    BY StagingBounds DEF DrawnTypes, StagingTypeOK
  <1>2. Overlap => /\ raced' = 0 => raced = 0 /\ \A s \in Requests : req[s] = Nothing
    BY <1>1 DEF Overlap, Vacant
  <1>3. ASSUME NEW r \in Requests, Starts(r)
        PROVE  raced = 0 /\ failed = 0 /\ \A s \in Requests : req[s] = Nothing
    BY <1>2, <1>3 DEF Starts, Open, Render, Orderly
  <1>4. ASSUME NEW r \in Requests, Works(r) PROVE Orderly
    BY <1>4 DEF Works, ReadStaged, UnlinkStaged, Bounce, Post, Cancel, Orderly
  <1>5. ASSUME NEW r \in Requests, Ends(r) PROVE Orderly
    BY <1>1, <1>5 DEF Ends, Answer, Fail, Orderly
  <1>6. CASE Sweep \/ HourPasses
    BY <1>3, <1>6 DEF Sweep, HourPasses, Orderly
  <1> QED
    BY <1>3, <1>4, <1>5, <1>6, StepIs DEF StagingNext, Orderly

(* One request at a time: what its step has to show.                        *)
LEMMA MoveKeepsInStep ==
  ASSUME DrawnTypes, NEW r \in Requests, NEW q \in Submission \cup {Nothing}, Moves(r, q),
         Orderly' => /\ \A s \in Requests \ {r} : req[s] = Nothing
                     /\ q = Nothing => Sound(session', held', disk')
                     /\ q # Nothing => Fine(q, session', held', disk')
  PROVE  InStep'
  <1>1. \A s \in Requests : req'[s] = IF s = r THEN q ELSE req[s]
    BY DEF Moves, DrawnTypes, StagingTypeOK
  <1> SUFFICES ASSUME Orderly'
               PROVE  /\ \A p, s \in Requests : req'[p] # Nothing /\ req'[s] # Nothing => p = s
                      /\ (\A p \in Requests : req'[p] = Nothing) => Sound(session', held', disk')
                      /\ \A p \in Requests : req'[p] # Nothing => Fine(req'[p], session', held', disk')
    BY DEF InStep
  <1>2. \A s \in Requests \ {r} : req'[s] = Nothing
    BY <1>1
  <1>3. req'[r] = q
    BY <1>1
  <1> QED
    BY <1>2, <1>3

LEMMA StartKeepsInStep ==
  ASSUME DrawnTypes, InStep, StagingNext, NEW r \in Requests, Starts(r)
  PROVE  InStep'
  <1>0. Orderly' => /\ Orderly /\ \A s \in Requests : req[s] = Nothing
                    /\ Sound(session, held, disk)
    BY OnlyMoreGoesWrong DEF InStep
  <1>1. UNCHANGED <<held, disk, session>>
    BY DEF Starts, Open, Render
  <1>2. ASSUME NEW kind \in {"compose", "cancel"}, NEW h \in Handles \cup {Nothing},
               NEW new \in SUBSET Uploads, Open(r, kind, h, new)
        PROVE  InStep'
    <2> DEFINE q == Opening(kind, h, new)
    <2>1. /\ Moves(r, q) /\ q \in Submission
          /\ q.pc = "claim" /\ q.open = Nothing /\ q.handle \notin q.copy.manifest
          /\ q.copy.manifest \subseteq session.manifest
          /\ ~q.dirty => q.todo = {}
      BY <1>2, OpenDoes
    <2> HIDE DEF q
    <2>2. Orderly' => Fine(q, session', held', disk')
      BY <1>0, <1>1, <2>1 DEF Fine, Sound, Safe
    <2> QED
      BY <1>0, <2>1, <2>2, MoveKeepsInStep, NothingIsApart
  <1>3. CASE Render(r)
    <2>1. PICK q \in Submission :
             /\ Moves(r, q)
             /\ q.pc = "answer" /\ q.handle = Nothing /\ q.dirty
             /\ q.copy.manifest = session.manifest /\ q.copy.draft = Nothing
      BY <1>3, RenderDoes DEF DrawnTypes
    <2>2. Nothing \notin session.manifest
      BY NothingIsApart DEF DrawnTypes, StagingTypeOK, Session
    <2>3. Orderly' => Fine(q, session', held', disk')
      BY <1>0, <1>1, <2>1, <2>2 DEF Fine, Sound, Safe, DraftKept
    <2> QED
      BY <1>0, <2>1, <2>3, MoveKeepsInStep, NothingIsApart
  <1> QED
    BY <1>2, <1>3 DEF Starts

(* A file unlinked is one of the entry the request took out of its copy.    *)
LEMMA UnlinkIsSafe ==
  ASSUME NEW m, NEW h, NEW d, NEW e, NEW u, Safe(m, h, d), e \notin m
  PROVE  Safe(m, h, d \ {<<e, u>>})
  BY DEF Safe

(* What stage() releases is of the entries it drops.                        *)
LEMMA EvictionIsSafe ==
  ASSUME NEW m, NEW n \in SUBSET m, NEW e, NEW pics, NEW d,
         Safe(m, held, d), e \notin m
  PROVE  Safe(n, held, (d \ FilesOf(m \ n)) \cup ({e} \X pics))
  <1> SUFFICES ASSUME NEW g \in n, held[g].age <= TTL, NEW u \in held[g].pics
               PROVE  <<g, u>> \in d \ FilesOf(m \ n)
    BY DEF Safe
  <1>1. <<g, u>> \in d
    BY DEF Safe
  <1>2. <<g, u>> \notin FilesOf(m \ n)
    <2> SUFFICES ASSUME NEW f \in m \ n, <<g, u>> \in Files(f) PROVE FALSE
      BY DEF FilesOf
    <2> QED
      BY DEF Files
  <1> QED
    BY <1>1, <1>2

LEMMA BounceKeepsInStep ==
  ASSUME DrawnTypes, InStep, StagingNext, NEW r \in Requests,
         NEW h \in Handles, NEW pics \in SUBSET Uploads, Bounce(r, h, pics)
  PROVE  InStep'
  <1>1. PICK q \in Submission : Bounced(r, h, pics, q)
    BY BounceDoes DEF DrawnTypes
  <1>2. req[r] # Nothing /\ req[r] \in Submission
    BY <1>1, NothingIsApart DEF Bounced
  <1>3. Orderly' => /\ \A s \in Requests \ {r} : req[s] = Nothing
                    /\ Safe(req[r].copy.manifest, held, disk)
    BY <1>2, OnlyMoreGoesWrong DEF InStep, Fine
  <1>4. /\ held[h] = Nothing
        /\ held' = [held EXCEPT ![h] = [pics |-> pics, age |-> 0]]
    BY DEF Bounce
  <1>5. held'[h] = [pics |-> pics, age |-> 0] /\ \A g \in Handles \ {h} : held'[g] = held[g]
    BY <1>4 DEF DrawnTypes, StagingTypeOK
  <1> DEFINE m == req[r].copy.manifest
  <1>6. m \subseteq Handles \ {h}
    BY <1>2, <1>4 DEF DrawnTypes, Drawn, Knowing, Known
  <1>7. DraftKept(q.copy, held')
    BY <1>1, <1>5 DEF Bounced, DraftKept
  <1>8. q.handle \notin q.copy.manifest
    <2>1. q.copy.manifest \subseteq m \cup {h}
      BY <1>1 DEF Bounced, Survivors, Prune, Kept
    <2> QED
      BY <1>1, <1>6, <2>1, NothingIsApart DEF Bounced
  <1>9. Orderly' => Safe(q.copy.manifest, held', disk')
    <2> SUFFICES ASSUME Orderly' PROVE Safe(q.copy.manifest, held', disk')
      OBVIOUS
    <2>1. CASE pics = {}
      BY <1>1, <1>3, <1>5, <1>6, <2>1 DEF Bounced, Safe
    <2>2. CASE pics # {}
      <3> DEFINE p == Prune(m)
                 n == Survivors(r, pics)
      <3>1. n \subseteq p /\ p \subseteq m
        BY DEF Survivors, Prune, Kept
      <3>2. Safe(p, held, disk) /\ h \notin p
        BY <1>3, <1>6, <3>1 DEF Safe
      <3>3. disk' = (disk \ FilesOf(p \ n)) \cup ({h} \X pics) /\ q.copy.manifest = n \cup {h}
        BY <1>1, <2>2 DEF Bounced
      <3> HIDE DEF m, p, n
      <3>4. Safe(n, held, disk')
        BY <3>1, <3>2, <3>3, EvictionIsSafe
      <3>5. Safe(n, held', disk')
        BY <1>5, <1>6, <3>1, <3>4 DEF Safe
      <3>6. \A u \in held'[h].pics : <<h, u>> \in disk'
        BY <1>5, <3>3
      <3> QED
        BY <3>3, <3>5, <3>6 DEF Safe
    <2> QED
      BY <2>1, <2>2
  <1>10. Moves(r, q) /\ q.dirty
    BY <1>1 DEF Bounced
  <1>11. Orderly' => Fine(q, session', held', disk')
    BY <1>7, <1>8, <1>9, <1>10 DEF Fine
  <1> QED
    BY <1>3, <1>10, <1>11, MoveKeepsInStep, NothingIsApart

LEMMA WorkKeepsInStep ==
  ASSUME DrawnTypes, InStep, StagingNext, NEW r \in Requests, Works(r)
  PROVE  InStep'
  <1>0. Orderly' /\ req[r] # Nothing =>
           /\ \A s \in Requests \ {r} : req[s] = Nothing
           /\ Fine(req[r], session, held, disk)
    BY OnlyMoreGoesWrong DEF InStep
  <1>1. ASSUME NEW u \in Uploads, ReadStaged(r, u) PROVE InStep'
    <2>1. PICK q \in Submission :
             /\ Moves(r, q) /\ req[r] \in Submission
             /\ q.pc = req[r].pc /\ q.handle = req[r].handle
             /\ q.copy = req[r].copy /\ q.dirty = req[r].dirty
             /\ req[r].todo # {}
      BY <1>1, ReadDoes DEF DrawnTypes
    <2>2. req[r] # Nothing /\ UNCHANGED <<held, disk, session>>
      BY <1>1, <2>1, NothingIsApart DEF ReadStaged
    <2>3. Orderly' => Fine(q, session', held', disk')
      BY <1>0, <2>1, <2>2 DEF Fine
    <2> QED
      BY <1>0, <2>1, <2>2, <2>3, MoveKeepsInStep, NothingIsApart
  <1>2. CASE UnlinkStaged(r)
    <2>1. PICK q \in Submission :
             /\ Moves(r, q) /\ req[r] \in Submission /\ req[r].open # Nothing
             /\ q.pc = req[r].pc /\ q.handle = req[r].handle
             /\ q.copy = req[r].copy /\ q.dirty = req[r].dirty
      BY <1>2, UnlinkDoes DEF DrawnTypes
    <2>2. /\ req[r] # Nothing /\ UNCHANGED <<held, session>>
          /\ disk' = disk \ {<<req[r].handle, req[r].open>>}
      BY <1>2, <2>1, NothingIsApart DEF UnlinkStaged
    <2>3. Orderly' => Safe(q.copy.manifest, held', disk')
      BY <1>0, <2>1, <2>2, UnlinkIsSafe DEF Fine
    <2>4. Orderly' => Fine(q, session', held', disk')
      BY <1>0, <2>1, <2>2, <2>3 DEF Fine
    <2> QED
      BY <1>0, <2>1, <2>2, <2>4, MoveKeepsInStep, NothingIsApart
  <1>3. ASSUME NEW h \in Handles, NEW pics \in SUBSET Uploads, Bounce(r, h, pics) PROVE InStep'
    BY <1>3, BounceKeepsInStep
  <1>4. ASSUME NEW pics \in SUBSET Uploads, NEW good \in SUBSET Uploads, Post(r, pics, good)
        PROVE  InStep'
    <2>1. PICK q \in Submission :
             /\ Moves(r, q) /\ req[r] \in Submission
             /\ q.handle = req[r].handle
             /\ q.todo = req[r].todo /\ q.open = req[r].open
             /\ q.copy.manifest = req[r].copy.manifest /\ q.copy.draft = Nothing
             /\ q.dirty
      BY <1>4, PostDoes DEF DrawnTypes
    <2>2. req[r] # Nothing /\ UNCHANGED <<held, disk, session>>
      BY <1>4, <2>1, NothingIsApart DEF Post
    <2>3. Orderly' => Fine(q, session', held', disk')
      BY <1>0, <2>1, <2>2 DEF Fine, DraftKept
    <2> QED
      BY <1>0, <2>1, <2>2, <2>3, MoveKeepsInStep, NothingIsApart
  <1>5. CASE Cancel(r)
    <2>1. PICK q \in Submission :
             /\ Moves(r, q) /\ req[r] \in Submission
             /\ q.handle = req[r].handle
             /\ q.todo = req[r].todo /\ q.open = req[r].open
             /\ q.copy.manifest = req[r].copy.manifest /\ q.copy.draft = Nothing
             /\ ~q.dirty => ~req[r].dirty
      BY <1>5, CancelDoes DEF DrawnTypes
    <2>2. req[r] # Nothing /\ UNCHANGED <<held, disk, session>>
      BY <1>5, <2>1, NothingIsApart DEF Cancel
    <2>3. Orderly' => Fine(q, session', held', disk')
      BY <1>0, <2>1, <2>2 DEF Fine, DraftKept
    <2> QED
      BY <1>0, <2>1, <2>2, <2>3, MoveKeepsInStep, NothingIsApart
  <1> QED
    BY <1>1, <1>2, <1>3, <1>4, <1>5 DEF Works

LEMMA EndKeepsInStep ==
  ASSUME DrawnTypes, InStep, StagingNext, NEW r \in Requests, Ends(r)
  PROVE  InStep'
  <1>1. Moves(r, Nothing) /\ req[r] # Nothing /\ req[r] \in Submission
    BY EndDoes DEF DrawnTypes
  <1>2. Orderly' => /\ \A s \in Requests \ {r} : req[s] = Nothing
                    /\ Fine(req[r], session, held, disk)
    BY <1>1, OnlyMoreGoesWrong DEF InStep
  <1>3. CASE Answer(r)
    <2>1. /\ req[r].pc # "claim" /\ UNCHANGED <<held, disk>>
          /\ session' = IF req[r].dirty THEN req[r].copy ELSE session
      BY <1>3 DEF Answer
    <2>2. Orderly' => Sound(session', held', disk')
      BY <1>2, <2>1 DEF Fine, Sound
    <2> QED
      BY <1>1, <1>2, <2>2, MoveKeepsInStep
  <1>4. CASE Fail(r)
    <2>1. ~Orderly'
      BY <1>4, StagingBounds DEF Fail, Orderly, DrawnTypes, StagingTypeOK
    <2> QED
      BY <2>1 DEF InStep
  <1> QED
    BY <1>3, <1>4 DEF Ends

StillSound(s) ==
    /\ Safe(s.manifest, held, disk) => Safe(s.manifest, held', disk')
    /\ DraftKept(s, held) => DraftKept(s, held')

(* Nor does what happens between requests undo it.                          *)
LEMMA TimeKeepsInStep ==
  ASSUME DrawnTypes, InStep, UNCHANGED <<session, req, raced, failed>>,
         \A s : Known(s, held) => StillSound(s)
  PROVE  InStep'
  <1> SUFFICES ASSUME Orderly
               PROVE  /\ \A p, s \in Requests : req[p] # Nothing /\ req[s] # Nothing => p = s
                      /\ (\A p \in Requests : req[p] = Nothing) => Sound(session, held', disk')
                      /\ \A p \in Requests : req[p] # Nothing => Fine(req[p], session, held', disk')
    BY DEF InStep, Orderly
  <1>1. Known(session, held) /\ \A p \in Requests : req[p] # Nothing => Known(req[p].copy, held)
    BY DEF DrawnTypes, Drawn, Knowing
  <1>2. Sound(session, held, disk) => Sound(session, held', disk')
    BY <1>1 DEF Sound, StillSound
  <1>3. ASSUME NEW p \in Requests, req[p] # Nothing PROVE Fine(req[p], session, held', disk')
    <2>1. Fine(req[p], session, held, disk) /\ Known(req[p].copy, held)
      BY <1>1, <1>3 DEF InStep
    <2> QED
      BY <1>2, <2>1 DEF Fine, StillSound
  <1> QED
    BY <1>2, <1>3 DEF InStep

LEMMA StepKeepsInStep ==
  ASSUME DrawnTypes, InStep, [StagingNext]_stagingVars
  PROVE  InStep'
  <1>1. CASE UNCHANGED stagingVars
    BY <1>1 DEF stagingVars, InStep, Orderly
  <1>2. ASSUME NEW r \in Requests, Step(r) PROVE InStep'
    BY <1>2, StepIs, StartKeepsInStep, WorkKeepsInStep, EndKeepsInStep DEF StagingNext
  <1>3. CASE Sweep
    <2>1. ASSUME NEW s, Known(s, held), Safe(s.manifest, held, disk)
          PROVE  Safe(s.manifest, held, disk')
      <3> SUFFICES ASSUME NEW e \in s.manifest, held[e].age <= TTL, NEW u \in held[e].pics
                   PROVE  <<e, u>> \in disk'
        BY DEF Safe
      <3>1. <<e, u>> \in disk
        BY <2>1 DEF Safe
      <3>2. held[e] \in Entry
        BY <2>1 DEF Known, DrawnTypes, StagingTypeOK
      <3>3. ~Expired(e)
        BY <3>2, StagingBounds DEF Entry, Expired
      <3>4. <<e, u>> \notin Swept
        BY <3>3 DEF Swept
      <3> QED
        BY <1>3, <3>1, <3>4 DEF Sweep
    <2>2. UNCHANGED <<held, session, req, raced, failed>>
      BY <1>3 DEF Sweep
    <2>3. \A s : Known(s, held) => StillSound(s)
      BY <2>1, <2>2 DEF StillSound
    <2> QED
      BY <2>2, <2>3, TimeKeepsInStep
  <1>4. CASE HourPasses
    <2>1. \A h \in Handles : held[h] # Nothing =>
             /\ held'[h].pics = held[h].pics
             /\ held'[h].age <= TTL => held[h].age <= TTL
      BY <1>4, HeldGrows DEF StagingNext, DrawnTypes
    <2>2. UNCHANGED <<disk, session, req, raced, failed>>
      BY <1>4 DEF HourPasses
    <2>3. \A s : Known(s, held) => StillSound(s)
      BY <2>1, <2>2 DEF Known, Safe, DraftKept, StillSound
    <2> QED
      BY <2>2, <2>3, TimeKeepsInStep
  <1> QED
    BY <1>1, <1>2, <1>3, <1>4 DEF StagingNext

(* As long as requests come one after the other and none fails, the member  *)
(* finds with the draft's words every picture held with them, until the TTL.*)
THEOREM WordsKeepTheirPictures == StagingSpec => []WordsAndPicturesInStep
  <1>1. StagingInit => InStep
    BY DEF StagingInit, InStep, Sound, Safe, DraftKept
  <1>2. DrawnTypes /\ InStep => WordsAndPicturesInStep
    <2> SUFFICES ASSUME DrawnTypes, InStep, Orderly, \A r \in Requests : Vacant(r)
                 PROVE  /\ {f \in FilesOf(session.manifest) : ~Expired(f[1])} \subseteq disk
                        /\ LET h == session.draft
                           IN  h # Nothing /\ ~Expired(h) /\ held[h].pics # {}
                                 => h \in session.manifest
      BY DEF WordsAndPicturesInStep
    <2>1. Sound(session, held, disk)
      BY DEF InStep, Vacant
    <2>2. \A h \in Handles : held[h] # Nothing => (~Expired(h) <=> held[h].age <= TTL)
      <3>1. \A h \in Handles : held[h] # Nothing => held[h].age \in Nat
        BY StagingBounds DEF DrawnTypes, StagingTypeOK, Entry
      <3> QED
        BY <3>1, StagingBounds DEF Expired
    <2>3. Known(session, held)
      BY DEF DrawnTypes, Drawn
    <2>4. ASSUME NEW f \in FilesOf(session.manifest), ~Expired(f[1]) PROVE f \in disk
      <3>1. PICK h \in session.manifest : f \in Files(h)
        BY DEF FilesOf
      <3>2. PICK u \in held[h].pics : f = <<h, u>>
        BY <3>1 DEF Files
      <3> QED
        BY <2>1, <2>2, <2>3, <2>4, <3>2 DEF Sound, Safe, Known
    <2>5. LET h == session.draft
          IN  h # Nothing /\ ~Expired(h) /\ held[h].pics # {} => h \in session.manifest
      BY <2>1, <2>2, <2>3 DEF Sound, DraftKept, Known
    <2> QED
      BY <2>4, <2>5
  <1> QED
    BY <1>1, <1>2, StepKeepsInStep, DrawnHolds, PTL DEF StagingSpec
=============================================================================
