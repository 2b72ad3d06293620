---------------------------- MODULE MediaProofs ----------------------------
(***************************************************************************)
(* What Media promises for any number of owners, assets, requests and      *)
(* crashes.  That every clip is resolved is liveness and is left to TLC.   *)
(***************************************************************************)
EXTENDS Media, TLAPS

LEMMA NothingIsNoRecord ==
    Nothing \notin Assets /\ Nothing \notin Row /\ Nothing \notin Job /\ Nothing \notin Request
  BY NothingAssumption

-----------------------------------------------------------------------------
(* What a request of each kind looks like on its way.                      *)
Shaped(q) ==
    /\ q.names \subseteq q.doomed \X Parts
    /\ q.kind = "compose" =>
          /\ q.owner \in Posts /\ q.made = {} /\ q.doomed = {}
          /\ q.step \in {"defer", "file", "row", "job"}
    /\ q.kind = "reply" =>
          q.owner \in Replies /\ q.doomed = {} /\ q.step \in {"file", "commit"}
    /\ q.kind = "purge" =>
          /\ q.owner \in Posts \cup Replies /\ q.made = {} /\ q.todo = {}
          /\ q.step \in {"look", "commit", "unlink"}
    /\ q.kind = "face" =>
          /\ q.owner \in Members /\ q.step \in {"look", "commit", "unlink"}
          /\ q.step # "commit" => q.made = {}
          /\ q.step # "look" => q.todo = {}
    /\ q.step \in {"row", "job"} => q.asset \in Assets /\ q.asset \notin q.todo
    /\ q.step = "look" => q.doomed = {}
InShape ==
    /\ \A r \in Requests : req[r] # Nothing => Shaped(req[r])
    /\ worker # Nothing =>
          /\ worker.job \in Posts => worker.step \in {"run", "save"}
          /\ worker.job \in Posts /\ worker.step = "save" => worker.asset \in Assets

LEMMA RequestInShape ==
  ASSUME TypeOK, InShape, NEW r \in Requests, req[r] # Nothing
  PROVE  req[r] \in Request /\ Shaped(req[r])
  BY DEF TypeOK, InShape

LEMMA NewRequestFits ==
  ASSUME NEW kind \in {"compose", "reply", "purge", "face"}, NEW o \in Owners,
         NEW pics \in SUBSET Assets, NEW step \in {"defer", "file", "look"}
  PROVE  /\ NewRequest(kind, o, pics, step) \in Request
         /\ NewRequest(kind, o, pics, step).kind = kind
         /\ NewRequest(kind, o, pics, step).owner = o
         /\ NewRequest(kind, o, pics, step).todo = pics
         /\ NewRequest(kind, o, pics, step).made = {}
         /\ NewRequest(kind, o, pics, step).doomed = {}
         /\ NewRequest(kind, o, pics, step).names = {}
         /\ NewRequest(kind, o, pics, step).step = step
  BY DEF NewRequest, Request

LEMMA OnwardFits ==
  ASSUME NEW q \in Request, Shaped(q), q.kind \in {"compose", "reply"}
  PROVE  Onward(q) # Nothing =>
           /\ Onward(q) \in Request /\ Shaped(Onward(q))
           /\ Onward(q).kind = q.kind /\ Onward(q).owner = q.owner /\ Onward(q).todo = q.todo
           /\ Onward(q).made = q.made /\ Onward(q).doomed = q.doomed /\ Onward(q).names = q.names
           /\ Onward(q).step \in {"file", "commit"}
           /\ q.kind = "compose" => Onward(q).step = "file"
  <1>1. [q EXCEPT !.step = "file"] \in Request /\ [q EXCEPT !.step = "commit"] \in Request
    BY DEF Request
  <1>2. CASE q.todo # {}
    BY <1>1, <1>2 DEF Onward, Shaped, Request
  <1>3. CASE q.todo = {} /\ q.kind = "reply"
    BY <1>1, <1>3 DEF Onward, Shaped, Request
  <1>4. CASE q.todo = {} /\ q.kind = "compose"
    BY <1>4 DEF Onward
  <1> QED
    BY <1>2, <1>3, <1>4

LEMMA ReplyGoesOn ==
  ASSUME NEW q \in Request, q.kind = "reply" PROVE Onward(q) # Nothing
  <1>1. [q EXCEPT !.step = "file"] \in Request /\ [q EXCEPT !.step = "commit"] \in Request
    BY DEF Request
  <1> QED
    BY <1>1, NothingIsNoRecord DEF Onward

(* A step that moves one request, to a request in shape or to none.        *)
LEMMA OneMoves ==
  ASSUME TypeOK, InShape, NEW r \in Requests, NEW q, Step(r, q),
         q # Nothing => q \in Request /\ Shaped(q)
  PROVE  /\ req' \in [Requests -> Request \cup {Nothing}] /\ req'[r] = q
         /\ \A p \in Requests : p # r => req'[p] = req[p]
         /\ \A p \in Requests : req'[p] # Nothing => Shaped(req'[p])
  BY DEF TypeOK, InShape, Step

-----------------------------------------------------------------------------
(* What each step of a request does to the requests.                       *)

Opens(r, kind, o, pics, step) ==
    /\ req[r] = Nothing
    /\ Step(r, NewRequest(kind, o, pics, step)) /\ Shaped(NewRequest(kind, o, pics, step))
    /\ \A a \in pics : Unused(a)
    /\ UNCHANGED <<gone, row, disk, queue, worker, crashes, raced, late, stranded>>
    /\ live' = live \/ (o \in Posts /\ live' = live \cup {o})

LEMMA StartOpens ==
  ASSUME TypeOK, InShape, NEW r \in Requests, Start(r)
  PROVE  \E kind \in {"compose", "reply", "purge", "face"}, o \in Owners, pics \in SUBSET Assets,
            step \in {"defer", "file", "look"} : Opens(r, kind, o, pics, step)
  <1>1. ASSUME NEW p \in Posts, NEW pics \in SUBSET Assets, Compose(r, p, pics)
        PROVE  Opens(r, "compose", p, pics, "defer")
    <2>1. Shaped(NewRequest("compose", p, pics, "defer"))
      BY DEF NewRequest, Shaped
    <2>2. req[r] = Nothing
      BY <1>1 DEF Compose, Free, Idle
    <2> QED
      BY <1>1, <2>1, <2>2 DEF Compose, Opens
  <1>2. ASSUME NEW p \in Replies, NEW pics \in SUBSET Assets, Reply(r, p, pics)
        PROVE  Opens(r, "reply", p, pics, "file")
    <2>1. Shaped(NewRequest("reply", p, pics, "file"))
      BY DEF NewRequest, Shaped
    <2>2. req[r] = Nothing
      BY <1>2 DEF Reply, Free, Idle
    <2> QED
      BY <1>2, <2>1, <2>2 DEF Reply, Opens
  <1>3. ASSUME NEW p \in Posts \cup Replies, OpenPurge(r, p)
        PROVE  Opens(r, "purge", p, {}, "look")
    <2>1. Shaped(NewRequest("purge", p, {}, "look"))
      BY DEF NewRequest, Shaped
    <2>2. req[r] = Nothing
      BY <1>3 DEF OpenPurge, Free, Idle
    <2> QED
      BY <1>3, <2>1, <2>2 DEF OpenPurge, Opens
  <1>4. ASSUME NEW p \in Members, NEW pics \in SUBSET Assets, OpenFace(r, p, pics)
        PROVE  Opens(r, "face", p, pics, "look")
    <2>1. Shaped(NewRequest("face", p, pics, "look"))
      BY DEF NewRequest, Shaped
    <2>2. req[r] = Nothing
      BY <1>4 DEF OpenFace, Free, Idle
    <2> QED
      BY <1>4, <2>1, <2>2 DEF OpenFace, Opens
  <1>5. {} \in SUBSET Assets
    OBVIOUS
  <1> QED
    BY <1>1, <1>2, <1>3, <1>4, <1>5 DEF Start, Owners

(* One file of a request: stored and recorded, or refused.                 *)
LEMMA WriteFileDoes ==
  ASSUME TypeOK, InShape, NEW r \in Requests, NEW a \in Assets, WriteFile(r, a)
  PROVE  /\ req[r] # Nothing /\ req[r].step = "file" /\ a \in req[r].todo
         /\ req[r].kind \in {"compose", "reply"}
         /\ req'[r] # Nothing =>
               /\ req'[r] \in Request /\ Shaped(req'[r]) /\ req'[r].kind = req[r].kind
               /\ req'[r].owner = req[r].owner /\ req'[r].todo = req[r].todo \ {a}
               /\ req'[r].doomed = {} /\ req'[r].names = {}
         /\ Step(r, req'[r])
         /\ \/ /\ disk' = disk \cup {<<a, FirstPart(a)>>} /\ req'[r] # Nothing
               /\ \/ /\ req[r].kind = "compose" /\ req'[r].step = "row" /\ req'[r].asset = a
                     /\ req'[r].made = {}
                  \/ /\ req[r].kind = "reply" /\ req'[r].step # "row"
                     /\ req'[r].made = req[r].made \cup {a}
            \/ /\ disk' = disk
               /\ req[r].kind = "reply" => req'[r] # Nothing
               /\ req'[r] # Nothing => req'[r].made = req[r].made /\ req'[r].step # "row"
         /\ UNCHANGED <<live, gone, row, queue, worker, crashes, raced, late, stranded>>
  <1> DEFINE rest == [req[r] EXCEPT !.todo = @ \ {a}]
             saved == [rest EXCEPT !.made = @ \cup {a}]
             going == [rest EXCEPT !.asset = a, !.step = "row"]
  <1>1. req[r] \in Request /\ Shaped(req[r]) /\ req[r].step = "file" /\ a \in req[r].todo
    BY RequestInShape DEF WriteFile, Idle
  <1>2. req[r].kind \in {"compose", "reply"} /\ req[r].doomed = {} /\ req[r].names = {}
    BY <1>1 DEF Shaped, Request
  <1>3. /\ rest \in Request /\ Shaped(rest) /\ rest.kind = req[r].kind /\ rest.owner = req[r].owner
        /\ rest.todo = req[r].todo \ {a} /\ rest.made = req[r].made /\ rest.doomed = {} /\ rest.names = {}
    BY <1>1, <1>2 DEF Request, Shaped
  <1>4. /\ saved \in Request /\ saved.kind = req[r].kind /\ saved.owner = req[r].owner
        /\ saved.todo = req[r].todo \ {a} /\ saved.made = req[r].made \cup {a}
        /\ saved.doomed = {} /\ saved.names = {} /\ saved.step = "file"
    BY <1>1, <1>3 DEF Request
  <1>5. rest.kind = "reply" => Shaped(saved) /\ Onward(saved) # Nothing
    <2> SUFFICES ASSUME rest.kind = "reply" PROVE Shaped(saved) /\ Onward(saved) # Nothing
      OBVIOUS
    <2>1. Shaped(saved)
      BY <1>1, <1>3, <1>4 DEF Shaped
    <2>2. [saved EXCEPT !.step = "file"] \in Request /\ [saved EXCEPT !.step = "commit"] \in Request
      BY <1>4 DEF Request
    <2> QED
      BY <1>3, <1>4, <2>1, <2>2, NothingIsNoRecord DEF Onward
  <1>6. rest.kind = "compose" =>
          /\ going \in Request /\ Shaped(going) /\ going # Nothing
          /\ going.kind = req[r].kind /\ going.owner = req[r].owner /\ going.todo = req[r].todo \ {a}
          /\ going.doomed = {} /\ going.names = {} /\ going.step = "row" /\ going.asset = a
          /\ going.made = {}
    <2> SUFFICES ASSUME rest.kind = "compose" PROVE
          /\ going \in Request /\ Shaped(going)
          /\ going.kind = req[r].kind /\ going.owner = req[r].owner /\ going.todo = req[r].todo \ {a}
          /\ going.doomed = {} /\ going.names = {} /\ going.step = "row" /\ going.asset = a
          /\ going.made = {}
      BY NothingIsNoRecord
    <2>1. rest.made = {}
      BY <1>1, <1>3 DEF Shaped
    <2>2. /\ going \in Request
          /\ going.kind = req[r].kind /\ going.owner = req[r].owner /\ going.todo = req[r].todo \ {a}
          /\ going.doomed = {} /\ going.names = {} /\ going.step = "row" /\ going.asset = a
          /\ going.made = {}
      BY <1>3, <2>1 DEF Request
    <2> QED
      BY <1>3, <2>2 DEF Shaped
  <1>9. UNCHANGED <<live, gone, row, queue, worker, crashes, raced, late, stranded>> /\ req[r] # Nothing
    BY <1>1, NothingIsNoRecord DEF WriteFile
  <1>7. CASE /\ disk' = disk \cup {<<a, FirstPart(a)>>}
             /\ Step(r, IF rest.kind = "reply" THEN Onward(saved) ELSE going)
    <2>1. CASE rest.kind = "reply"
      <3>1. Step(r, Onward(saved)) /\ req'[r] = Onward(saved)
        BY <1>7, <2>1 DEF Step, TypeOK
      <3> HIDE DEF saved, rest, going
      <3> QED
        BY <1>1, <1>2, <1>3, <1>4, <1>5, <1>7, <1>9, <2>1, <3>1, OnwardFits
    <2>2. CASE rest.kind = "compose"
      <3>1. Step(r, going) /\ req'[r] = going
        BY <1>7, <2>2 DEF Step, TypeOK
      <3> HIDE DEF saved, rest, going
      <3> QED
        BY <1>1, <1>2, <1>3, <1>6, <1>7, <1>9, <2>2, <3>1
    <2> QED
      BY <1>2, <1>3, <2>1, <2>2
  <1>8. CASE disk' = disk /\ Step(r, Onward(rest))
    <2>1. req'[r] = Onward(rest)
      BY <1>8 DEF Step, TypeOK
    <2> HIDE DEF saved, rest, going
    <2> QED
      BY <1>1, <1>2, <1>3, <1>8, <1>9, <2>1, OnwardFits, ReplyGoesOn
  <1> QED
    BY <1>7, <1>8 DEF WriteFile

(* A request that only goes on: the preview deferred, a job deferred.      *)
LEMMA GoesOnDoes ==
  ASSUME TypeOK, InShape, NEW r \in Requests, DeferPreview(r) \/ DeferTranscode(r)
  PROVE  /\ req[r] # Nothing /\ req[r].kind = "compose" /\ req[r].step \in {"defer", "job"}
         /\ req'[r] # Nothing =>
               /\ req'[r] \in Request /\ Shaped(req'[r]) /\ req'[r].kind = "compose"
               /\ req'[r].owner = req[r].owner /\ req'[r].todo = req[r].todo
               /\ req'[r].made = {} /\ req'[r].doomed = {} /\ req'[r].step = "file"
         /\ Step(r, req'[r])
         /\ queue' \subseteq Assets \cup Posts
         /\ UNCHANGED <<live, gone, row, disk, worker, crashes, raced, late, stranded>>
  <1>1. /\ req[r] \in Request /\ Shaped(req[r]) /\ req[r].kind = "compose" /\ req[r] # Nothing
        /\ req[r].step \in {"defer", "job"}
    BY RequestInShape DEF DeferPreview, DeferTranscode, At, Idle
  <1>2. req'[r] = Onward(req[r]) /\ Step(r, req'[r])
    BY DEF DeferPreview, DeferTranscode, Step, TypeOK
  <1>3. queue' \subseteq Assets \cup Posts
    BY <1>1 DEF DeferPreview, DeferTranscode, At, TypeOK, Shaped
  <1>4. req[r].made = {} /\ req[r].doomed = {}
    BY <1>1 DEF Shaped
  <1> QED
    BY <1>1, <1>2, <1>3, <1>4, OnwardFits DEF DeferPreview, DeferTranscode

LEMMA WriteRowDoes ==
  ASSUME TypeOK, InShape, NEW r \in Requests, WriteRow(r)
  PROVE  /\ req[r] # Nothing /\ req[r].kind = "compose" /\ req[r].step = "row"
         /\ req[r].asset \in Assets /\ req[r].owner \in Posts
         /\ req'[r] # Nothing =>
               /\ req'[r] \in Request /\ Shaped(req'[r]) /\ req'[r].kind = "compose"
               /\ req'[r].owner = req[r].owner /\ req'[r].todo = req[r].todo
               /\ req'[r].made = {} /\ req'[r].doomed = {} /\ req'[r].step \in {"file", "job"}
         /\ Step(r, req'[r])
         /\ row' = [row EXCEPT ![req[r].asset] = NewRow(req[r].asset, req[r].owner)]
         /\ late' = IF LateNow(req[r].owner) THEN late \cup {req[r].asset} ELSE late
         /\ UNCHANGED <<live, gone, disk, queue, worker, crashes, raced, stranded>>
  <1> DEFINE going == [req[r] EXCEPT !.step = "job"]
  <1>1. /\ req[r] \in Request /\ Shaped(req[r]) /\ req[r].kind = "compose" /\ req[r] # Nothing
        /\ req[r].step = "row"
    BY RequestInShape DEF WriteRow, At, Idle
  <1>2. req[r].made = {} /\ req[r].doomed = {} /\ req[r].asset \in Assets /\ req[r].owner \in Posts
    BY <1>1 DEF Shaped
  <1>3. /\ going \in Request /\ going.kind = "compose" /\ going.owner = req[r].owner
        /\ going.todo = req[r].todo /\ going.made = {} /\ going.doomed = {} /\ going.step = "job"
        /\ going.names = req[r].names /\ going.asset = req[r].asset
    BY <1>1, <1>2 DEF Request
  <1>4. Shaped(going)
    BY <1>1, <1>2, <1>3 DEF Shaped
  <1>5. req'[r] \in {going, Onward(req[r])} /\ Step(r, req'[r])
    BY DEF WriteRow, Step, TypeOK
  <1> HIDE DEF going
  <1> QED
    BY <1>1, <1>2, <1>3, <1>4, <1>5, OnwardFits DEF WriteRow

LEMMA CommitReplyDoes ==
  ASSUME TypeOK, InShape, NEW r \in Requests, CommitReply(r)
  PROVE  /\ req[r] # Nothing /\ req[r].kind = "reply" /\ req[r].step = "commit"
         /\ req[r].owner \in Replies /\ req[r].made \in SUBSET Assets
         /\ req'[r] = Nothing /\ Step(r, Nothing)
         /\ live' = live \cup {req[r].owner}
         /\ row' = [a \in Assets |-> IF a \in req[r].made THEN NewRow(a, req[r].owner) ELSE row[a]]
         /\ late' = IF LateNow(req[r].owner) THEN late \cup req[r].made ELSE late
         /\ queue' \subseteq Assets \cup Posts
         /\ UNCHANGED <<gone, disk, worker, crashes, raced, stranded>>
  <1>1. /\ req[r] \in Request /\ Shaped(req[r]) /\ req[r].kind = "reply" /\ req[r] # Nothing
        /\ req[r].step = "commit"
    BY RequestInShape DEF CommitReply, At, Idle
  <1>2. req[r].owner \in Replies /\ req[r].made \in SUBSET Assets
    BY <1>1 DEF Shaped, Request
  <1> QED
    BY <1>1, <1>2 DEF CommitReply, Step, TypeOK

-----------------------------------------------------------------------------
(* What each step of a purge, or of a new face, does.                      *)

LEMMA LookDoes ==
  ASSUME TypeOK, InShape, NEW r \in Requests, Look(r)
  PROVE  /\ req[r] # Nothing /\ req[r].kind = "purge" /\ req[r].step = "look"
         /\ req[r].owner \in Posts \cup Replies
         /\ req'[r] # Nothing /\ req'[r] \in Request /\ Shaped(req'[r]) /\ Step(r, req'[r])
         /\ req'[r].kind = "purge" /\ req'[r].owner = req[r].owner
         /\ req'[r].todo = {} /\ req'[r].made = {} /\ req'[r].step = "commit"
         /\ req'[r].doomed = MediaOf(req[r].owner) /\ req'[r].names = FilesOf(MediaOf(req[r].owner))
         /\ UNCHANGED <<live, gone, row, disk, queue, worker, crashes, raced, late, stranded>>
  <1> DEFINE doomed == MediaOf(req[r].owner)
             seen == [req[r] EXCEPT !.doomed = doomed, !.names = FilesOf(doomed), !.step = "commit"]
  <1>1. /\ req[r] \in Request /\ Shaped(req[r]) /\ req[r].kind = "purge" /\ req[r] # Nothing
        /\ req[r].step = "look"
    BY RequestInShape DEF Look, At, Idle
  <1>2. /\ req[r].owner \in Posts \cup Replies /\ req[r].todo = {} /\ req[r].made = {}
    BY <1>1 DEF Shaped
  <1>3. doomed \in SUBSET Assets /\ FilesOf(doomed) \subseteq doomed \X Parts
    BY DEF MediaOf, FilesOf, TypeOK, Row, Stored
  <1>4. /\ seen \in Request /\ seen.kind = "purge" /\ seen.owner = req[r].owner
        /\ seen.todo = {} /\ seen.made = {} /\ seen.step = "commit" /\ seen.doomed = doomed
        /\ seen.names = FilesOf(doomed)
    BY <1>1, <1>2, <1>3 DEF Request
  <1>5. Shaped(seen)
    BY <1>2, <1>3, <1>4 DEF Shaped
  <1>6. Step(r, seen) /\ req'[r] = seen /\ seen # Nothing
    BY <1>4, NothingIsNoRecord DEF Look, Step, TypeOK
  <1> HIDE DEF seen
  <1> QED
    BY <1>1, <1>2, <1>4, <1>5, <1>6 DEF Look, UnlinkedAtOnce

LEMMA PurgeDoes ==
  ASSUME TypeOK, InShape, NEW r \in Requests, Purge(r)
  PROVE  /\ req[r] # Nothing /\ req[r].kind = "purge" /\ req[r].step = "commit"
         /\ req[r].owner \in Posts \cup Replies
         /\ req'[r] # Nothing /\ req'[r] \in Request /\ Shaped(req'[r]) /\ Step(r, req'[r])
         /\ req'[r].kind = "purge" /\ req'[r].owner = req[r].owner
         /\ req'[r].todo = {} /\ req'[r].made = {} /\ req'[r].step = "unlink"
         /\ req'[r].doomed = req[r].doomed /\ req'[r].names = req[r].names
         /\ live' = live \ {req[r].owner} /\ gone' = gone \cup {req[r].owner}
         /\ row' = [a \in Assets |-> IF a \in req[r].doomed THEN Nothing ELSE row[a]]
         /\ UNCHANGED <<disk, queue, worker, crashes, raced, late, stranded>>
  <1> DEFINE done == [req[r] EXCEPT !.step = "unlink"]
  <1>1. /\ req[r] \in Request /\ Shaped(req[r]) /\ req[r].kind = "purge" /\ req[r] # Nothing
        /\ req[r].step = "commit"
    BY RequestInShape DEF Purge, At, Idle
  <1>2. /\ req[r].owner \in Posts \cup Replies /\ req[r].todo = {} /\ req[r].made = {}
        /\ req[r].names \subseteq req[r].doomed \X Parts
    BY <1>1 DEF Shaped
  <1>4. /\ done \in Request /\ done.kind = "purge" /\ done.owner = req[r].owner
        /\ done.todo = {} /\ done.made = {} /\ done.step = "unlink" /\ done.doomed = req[r].doomed
        /\ done.names = req[r].names
    BY <1>1, <1>2 DEF Request
  <1>5. Shaped(done)
    BY <1>2, <1>4 DEF Shaped
  <1>6. Step(r, done) /\ req'[r] = done /\ done # Nothing
    BY <1>4, NothingIsNoRecord DEF Purge, Step, TypeOK
  <1> HIDE DEF done
  <1> QED
    BY <1>1, <1>2, <1>4, <1>5, <1>6 DEF Purge

LEMMA LookFaceDoes ==
  ASSUME TypeOK, InShape, NEW r \in Requests, LookFace(r)
  PROVE  /\ req[r] # Nothing /\ req[r].kind = "face" /\ req[r].step = "look"
         /\ req[r].owner \in Members /\ req[r].made = {}
         /\ req'[r] # Nothing /\ req'[r] \in Request /\ Shaped(req'[r]) /\ Step(r, req'[r])
         /\ req'[r].kind = "face" /\ req'[r].owner = req[r].owner
         /\ req'[r].todo = {} /\ req'[r].made = req[r].todo /\ req'[r].step = "commit"
         /\ req'[r].doomed = MediaOf(req[r].owner) /\ req'[r].names = FilesOf(MediaOf(req[r].owner))
         /\ disk' = disk \cup (req[r].todo \X {"image"})
         /\ UNCHANGED <<live, gone, row, queue, worker, crashes, raced, late, stranded>>
  <1> DEFINE doomed == MediaOf(req[r].owner)
             seen == [req[r] EXCEPT !.doomed = doomed, !.made = req[r].todo, !.todo = {},
                                    !.step = "commit", !.names = FilesOf(doomed)]
  <1>1. /\ req[r] \in Request /\ Shaped(req[r]) /\ req[r].kind = "face" /\ req[r] # Nothing
        /\ req[r].step = "look"
    BY RequestInShape DEF LookFace, At, Idle
  <1>2. req[r].owner \in Members /\ req[r].made = {}
    BY <1>1 DEF Shaped
  <1>3. doomed \in SUBSET Assets /\ FilesOf(doomed) \subseteq doomed \X Parts
    BY DEF MediaOf, FilesOf, TypeOK, Row, Stored
  <1>4. /\ seen \in Request /\ seen.kind = "face" /\ seen.owner = req[r].owner
        /\ seen.todo = {} /\ seen.made = req[r].todo /\ seen.step = "commit" /\ seen.doomed = doomed
        /\ seen.names = FilesOf(doomed)
    BY <1>1, <1>2, <1>3 DEF Request
  <1>5. Shaped(seen)
    BY <1>2, <1>3, <1>4 DEF Shaped
  <1>6. Step(r, seen) /\ req'[r] = seen /\ seen # Nothing
    BY <1>4, NothingIsNoRecord DEF LookFace, Step, TypeOK
  <1> HIDE DEF seen
  <1> QED
    BY <1>1, <1>2, <1>4, <1>5, <1>6 DEF LookFace

LEMMA CommitFaceDoes ==
  ASSUME TypeOK, InShape, NEW r \in Requests, CommitFace(r)
  PROVE  /\ req[r] # Nothing /\ req[r].kind = "face" /\ req[r].step = "commit"
         /\ req[r].owner \in Members /\ req[r].made \in SUBSET Assets
         /\ req'[r] # Nothing /\ req'[r] \in Request /\ Shaped(req'[r]) /\ Step(r, req'[r])
         /\ req'[r].kind = "face" /\ req'[r].owner = req[r].owner
         /\ req'[r].todo = {} /\ req'[r].made = {} /\ req'[r].step = "unlink"
         /\ req'[r].doomed = req[r].doomed /\ req'[r].names = req[r].names
         /\ row' = [a \in Assets |->
                IF a \in req[r].made THEN ImageRow(a, req[r].owner)
                ELSE IF a \in req[r].doomed THEN Nothing ELSE row[a]]
         /\ UNCHANGED <<live, gone, disk, queue, worker, crashes, raced, late, stranded>>
  <1> DEFINE done == [req[r] EXCEPT !.step = "unlink", !.made = {}]
  <1>1. /\ req[r] \in Request /\ Shaped(req[r]) /\ req[r].kind = "face" /\ req[r] # Nothing
        /\ req[r].step = "commit"
    BY RequestInShape DEF CommitFace, At, Idle
  <1>2. /\ req[r].owner \in Members /\ req[r].todo = {} /\ req[r].made \in SUBSET Assets
        /\ req[r].names \subseteq req[r].doomed \X Parts
    BY <1>1 DEF Shaped, Request
  <1>4. /\ done \in Request /\ done.kind = "face" /\ done.owner = req[r].owner
        /\ done.todo = {} /\ done.made = {} /\ done.step = "unlink" /\ done.doomed = req[r].doomed
        /\ done.names = req[r].names
    BY <1>1, <1>2 DEF Request
  <1>5. Shaped(done)
    BY <1>2, <1>4 DEF Shaped
  <1>6. Step(r, done) /\ req'[r] = done /\ done # Nothing
    BY <1>4, NothingIsNoRecord DEF CommitFace, Step, TypeOK
  <1> HIDE DEF done
  <1> QED
    BY <1>1, <1>2, <1>4, <1>5, <1>6 DEF CommitFace

LEMMA UnlinkDoes ==
  ASSUME TypeOK, InShape, NEW r \in Requests, Unlink(r)
  PROVE  /\ req[r] # Nothing /\ req[r].step = "unlink"
         /\ req[r].names \subseteq req[r].doomed \X Parts
         /\ req[r].made = {} /\ req[r].todo = {}
         /\ req'[r] = Nothing /\ Step(r, Nothing) /\ disk' = disk \ req[r].names
         /\ UNCHANGED <<live, gone, row, queue, worker, crashes, raced, late, stranded>>
  <1>1. req[r] \in Request /\ Shaped(req[r]) /\ req[r] # Nothing /\ req[r].step = "unlink"
    BY RequestInShape DEF Unlink, Idle
  <1>2. req[r].names \subseteq req[r].doomed \X Parts /\ req[r].made = {} /\ req[r].todo = {}
    BY <1>1 DEF Shaped, Request
  <1> QED
    BY <1>1, <1>2 DEF Unlink, Step, TypeOK

LEMMA FailRequestDoes ==
  ASSUME TypeOK, InShape, NEW r \in Requests, FailRequest(r)
  PROVE  /\ req[r] # Nothing /\ req'[r] = Nothing /\ Step(r, Nothing)
         /\ crashes' = crashes + 1 /\ crashes < MaxCrashes /\ stranded' \subseteq Assets
         /\ UNCHANGED <<live, gone, row, disk, queue, worker, raced, late>>
  <1>1. Shaped(req[r]) /\ req[r] # Nothing
    BY RequestInShape DEF FailRequest, Idle
  <1> QED
    BY <1>1 DEF FailRequest, Step, TypeOK, Shaped, At

-----------------------------------------------------------------------------
(* What a step of the worker does, and that its job keeps its shape.       *)
Rehosting == worker # Nothing /\ worker.job \in Posts /\ worker.step = "save"
Rendering == worker # Nothing /\ worker.job \in Assets /\ worker.step = "save"

LEMMA WorkFits ==
  ASSUME TypeOK, InShape, Work \/ CrashWorker
  PROVE  /\ worker' \in Job \cup {Nothing}
         /\ worker' # Nothing =>
               /\ worker'.job \in Posts => worker'.step \in {"run", "save"}
               /\ worker'.job \in Posts /\ worker'.step = "save" => worker'.asset \in Assets
         /\ row' \in [Assets -> Row \cup {Nothing}]
         /\ disk' \subseteq Assets \X Parts /\ queue' \subseteq Assets \cup Posts
         /\ late' \subseteq Assets /\ raced' \in BOOLEAN /\ stranded' \subseteq Assets
         /\ crashes' \in 0 .. MaxCrashes
         /\ UNCHANGED <<live, gone, req>>
  <1> USE NothingIsNoRecord, AssetsAssumption DEF TypeOK
  <1>0. Assets \cap Posts = {} /\ Posts \subseteq Owners /\ MaxCrashes \in Nat
    BY BoundsAssumption DEF Owners
  <1>1. ASSUME NEW j \in Assets \cup Posts, Take(j)
        PROVE  worker' = Nothing \/ (worker' \in Job /\ worker'.step = "run")
    BY <1>1 DEF Take, Job
  <1>2. ASSUME NEW j \in Assets \cup Posts, Take(j)
        PROVE  /\ queue' \subseteq Assets \cup Posts
               /\ UNCHANGED <<live, gone, row, disk, req, crashes, raced, late, stranded>>
    BY <1>2 DEF Take
  <1>3. CASE Refuse
    <2>1. worker.job \in Assets /\ worker' = Nothing
      BY <1>3 DEF Refuse, Transcoding
    <2>2. row' \in [Assets -> Row \cup {Nothing}]
      BY <1>3, <2>1 DEF Refuse, Refused, Row
    <2> QED
      BY <1>3, <2>1, <2>2 DEF Refuse
  <1>4. CASE Recheck
    <2>1. worker \in Job /\ worker.job \in Assets
      BY <1>4 DEF Recheck, Transcoding, Working
    <2>2. [worker EXCEPT !.step = "write"] \in Job /\ [worker EXCEPT !.step = "write"].job = worker.job
      BY <2>1 DEF Job
    <2> QED
      BY <1>0, <1>4, <2>1, <2>2 DEF Recheck
  <1>5. CASE WriteRendition
    <2>1. worker \in Job /\ worker.job \in Assets
      BY <1>5 DEF WriteRendition, Transcoding, Working
    <2>2. [worker EXCEPT !.step = "save"] \in Job /\ [worker EXCEPT !.step = "save"].job = worker.job
      BY <2>1 DEF Job
    <2>3. disk' \subseteq Assets \X Parts
      BY <1>5, <2>1 DEF WriteRendition, Parts
    <2> QED
      BY <1>0, <1>5, <2>1, <2>2, <2>3 DEF WriteRendition
  <1>6. CASE SaveRendition
    <2>1. worker.job \in Assets /\ worker' = Nothing
      BY <1>6 DEF SaveRendition, Transcoding
    <2>2. row' \in [Assets -> Row \cup {Nothing}]
      <3>1. ASSUME NEW w \in Row PROVE Rendered(w) \in Row
        BY <3>1 DEF Rendered, Row, Parts
      <3>2. row' = [row EXCEPT ![worker.job] =
               IF row[worker.job] = Nothing THEN Nothing ELSE Rendered(row[worker.job])]
        BY <1>6 DEF SaveRendition
      <3>3. row[worker.job] \in Row \cup {Nothing}
        BY <2>1
      <3> QED
        BY <2>1, <3>1, <3>2, <3>3
    <2>3. raced' \in BOOLEAN
      BY <1>6 DEF SaveRendition
    <2> QED
      BY <1>6, <2>1, <2>2, <2>3 DEF SaveRendition
  <1>7. CASE FetchNothing
    BY <1>7 DEF FetchNothing
  <1>8. ASSUME NEW a \in Assets, RehostImage(a)
        PROVE  /\ worker' \in Job /\ worker'.step = "save" /\ worker'.asset \in Assets
               /\ disk' \subseteq Assets \X Parts
               /\ UNCHANGED <<live, gone, row, queue, req, crashes, raced, late, stranded>>
    <2>1. worker \in Job
      BY <1>8 DEF RehostImage, Working
    <2>2. [worker EXCEPT !.step = "save", !.asset = a] \in Job
      BY <2>1 DEF Job
    <2>3. /\ [worker EXCEPT !.step = "save", !.asset = a].step = "save"
          /\ [worker EXCEPT !.step = "save", !.asset = a].asset = a
      BY <2>1 DEF Job
    <2> QED
      BY <1>8, <2>2, <2>3 DEF RehostImage, Parts
  <1>9. CASE SaveImage
    <2>1. Rehosting /\ worker.asset \in Assets /\ worker.job \in Posts
      BY <1>9 DEF SaveImage, Working, Rehosting, InShape
    <2>2. ImageRow(worker.asset, worker.job) \in Row
      BY <1>0, <2>1 DEF ImageRow, Row, Parts
    <2>3. row' \in [Assets -> Row \cup {Nothing}] /\ late' \subseteq Assets
      BY <1>9, <2>1, <2>2 DEF SaveImage
    <2> QED
      BY <1>9, <2>3 DEF SaveImage
  <1>10. CASE CrashWorker
    <2>1. stranded' \subseteq Assets
      BY <1>10 DEF CrashWorker
    <2>2. crashes' \in 0 .. MaxCrashes
      BY <1>0, <1>10 DEF CrashWorker
    <2> QED
      BY <1>10, <2>1, <2>2 DEF CrashWorker
  <1>11. ASSUME worker' = Nothing \/ (worker' \in Job /\ worker'.step = "run")
         PROVE  /\ worker' \in Job \cup {Nothing}
                /\ worker' # Nothing =>
                     /\ worker'.job \in Posts => worker'.step \in {"run", "save"}
                     /\ worker'.job \in Posts /\ worker'.step = "save" => worker'.asset \in Assets
    BY <1>11
  <1>12. CASE \E j \in Assets \cup Posts : Take(j)
    BY <1>1, <1>2, <1>11, <1>12
  <1>13. CASE \E a \in Assets : RehostImage(a)
    BY <1>8, <1>13
  <1> QED
    BY <1>3, <1>4, <1>5, <1>6, <1>7, <1>9, <1>10, <1>12, <1>13 DEF Work

-----------------------------------------------------------------------------
LEMMA StepKeepsTypes ==
  ASSUME TypeOK, InShape, [Next]_vars
  PROVE  TypeOK' /\ InShape'
  <1> USE NothingIsNoRecord
  <1>0. Posts \subseteq Owners /\ Replies \subseteq Owners /\ Members \subseteq Owners /\ MaxCrashes \in Nat
    BY BoundsAssumption DEF Owners
  <1>1. ASSUME NEW r \in Requests, NEW q, Step(r, q), q # Nothing => q \in Request /\ Shaped(q)
        PROVE  /\ req' \in [Requests -> Request \cup {Nothing}]
               /\ \A p \in Requests : req'[p] # Nothing => Shaped(req'[p])
    BY <1>1, OneMoves
  <1>2. ASSUME NEW r \in Requests, Start(r) PROVE TypeOK' /\ InShape'
    <2>1. PICK kind \in {"compose", "reply", "purge", "face"}, o \in Owners, pics \in SUBSET Assets,
            step \in {"defer", "file", "look"} : Opens(r, kind, o, pics, step)
      BY <1>2, StartOpens
    <2>2. NewRequest(kind, o, pics, step) \in Request
      BY NewRequestFits
    <2> HIDE DEF NewRequest
    <2>3. live' \subseteq Posts \cup Replies
      BY <2>1 DEF Opens, TypeOK
    <2> QED
      BY <1>1, <2>1, <2>2, <2>3 DEF Opens, TypeOK, InShape
  <1>3. ASSUME NEW r \in Requests, DeferPreview(r) \/ DeferTranscode(r) PROVE TypeOK' /\ InShape'
    BY <1>1, <1>3, GoesOnDoes DEF TypeOK, InShape
  <1>4. ASSUME NEW r \in Requests, NEW a \in Assets, WriteFile(r, a) PROVE TypeOK' /\ InShape'
    <2>1. disk' \subseteq Assets \X Parts
      BY <1>4, WriteFileDoes DEF TypeOK, FirstPart, Parts
    <2> QED
      BY <1>1, <1>4, <2>1, WriteFileDoes DEF TypeOK, InShape
  <1>5. ASSUME NEW r \in Requests, WriteRow(r) PROVE TypeOK' /\ InShape'
    <2>1. NewRow(req[r].asset, req[r].owner) \in Row
      BY <1>0, <1>5, WriteRowDoes DEF NewRow, FirstPart, Row, Parts
    <2>2. row' \in [Assets -> Row \cup {Nothing}] /\ late' \subseteq Assets
      BY <1>5, <2>1, WriteRowDoes DEF TypeOK
    <2> QED
      BY <1>1, <1>5, <2>2, WriteRowDoes DEF TypeOK, InShape
  <1>6. ASSUME NEW r \in Requests, CommitReply(r) PROVE TypeOK' /\ InShape'
    <2>1. \A a \in Assets : NewRow(a, req[r].owner) \in Row
      BY <1>0, <1>6, CommitReplyDoes DEF NewRow, FirstPart, Row, Parts
    <2>2. row' \in [Assets -> Row \cup {Nothing}] /\ late' \subseteq Assets /\ live' \subseteq Posts \cup Replies
      BY <1>6, <2>1, CommitReplyDoes DEF TypeOK
    <2> QED
      BY <1>1, <1>6, <2>2, CommitReplyDoes DEF TypeOK, InShape
  <1>7. ASSUME NEW r \in Requests, Look(r) PROVE TypeOK' /\ InShape'
    BY <1>1, <1>7, LookDoes DEF TypeOK, InShape
  <1>8. ASSUME NEW r \in Requests, Purge(r) PROVE TypeOK' /\ InShape'
    <2>1. /\ row' \in [Assets -> Row \cup {Nothing}]
          /\ live' \subseteq Posts \cup Replies /\ gone' \subseteq Posts \cup Replies
      BY <1>8, PurgeDoes DEF TypeOK
    <2> QED
      BY <1>1, <1>8, <2>1, PurgeDoes DEF TypeOK, InShape
  <1>9. ASSUME NEW r \in Requests, Unlink(r) PROVE TypeOK' /\ InShape'
    BY <1>1, <1>9, UnlinkDoes DEF TypeOK, InShape
  <1>10. ASSUME NEW r \in Requests, LookFace(r) PROVE TypeOK' /\ InShape'
    <2>1. disk' \subseteq Assets \X Parts
      <3>1. req[r].todo \in SUBSET Assets
        BY <1>10, LookFaceDoes, RequestInShape DEF Request
      <3> QED
        BY <1>10, <3>1, LookFaceDoes DEF TypeOK, Parts
    <2> QED
      BY <1>1, <1>10, <2>1, LookFaceDoes DEF TypeOK, InShape
  <1>11. ASSUME NEW r \in Requests, CommitFace(r) PROVE TypeOK' /\ InShape'
    <2>1. \A a \in Assets : ImageRow(a, req[r].owner) \in Row
      BY <1>0, <1>11, CommitFaceDoes DEF ImageRow, Row, Parts
    <2>2. row' \in [Assets -> Row \cup {Nothing}]
      BY <1>11, <2>1, CommitFaceDoes DEF TypeOK
    <2> QED
      BY <1>1, <1>11, <2>2, CommitFaceDoes DEF TypeOK, InShape
  <1>12. ASSUME NEW r \in Requests, FailRequest(r) PROVE TypeOK' /\ InShape'
    <2>1. crashes' \in 0 .. MaxCrashes
      BY <1>0, <1>12, FailRequestDoes DEF TypeOK
    <2> QED
      BY <1>1, <1>12, <2>1, FailRequestDoes DEF TypeOK, InShape
  <1>13. CASE Work \/ CrashWorker
    BY <1>13, WorkFits DEF TypeOK, InShape
  <1>14. CASE UNCHANGED vars
    BY <1>14 DEF vars, TypeOK, InShape
  <1> QED
    BY <1>2, <1>3, <1>4, <1>5, <1>6, <1>7, <1>8, <1>9, <1>10, <1>11, <1>12, <1>13, <1>14
    DEF Next, Continue

LEMMA ShapeHolds == Spec => [](TypeOK /\ InShape)
  <1>1. Init => TypeOK /\ InShape
    <2> SUFFICES ASSUME Init PROVE TypeOK /\ InShape
      OBVIOUS
    <2>1. crashes \in 0 .. MaxCrashes
      BY BoundsAssumption DEF Init
    <2>2. row \in [Assets -> Row \cup {Nothing}] /\ req \in [Requests -> Request \cup {Nothing}]
      BY DEF Init
    <2>3. InShape
      BY DEF Init, InShape
    <2> QED
      BY <2>1, <2>2, <2>3 DEF Init, TypeOK
  <1>2. TypeOK /\ InShape /\ [Next]_vars => (TypeOK /\ InShape)'
    BY StepKeepsTypes
  <1> QED
    BY <1>1, <1>2, PTL DEF Spec

(* Every reachable state is well typed.                                    *)
THEOREM MediaTyped == Spec => []TypeOK
  BY ShapeHolds, PTL

-----------------------------------------------------------------------------
(* Assets are used once: what somebody is about to store is not stored,    *)
(* doomed or being stored by anybody else, and its file is there; what a   *)
(* purge has committed stays away.                                         *)
Ahead(r) ==
    IF req[r] = Nothing THEN {}
    ELSE req[r].todo \cup req[r].made \cup (IF req[r].step = "row" THEN {req[r].asset} ELSE {})
FilesAhead(r) ==
    IF req[r] = Nothing THEN {}
    ELSE IF req[r].kind = "face" THEN req[r].made \X {"image"}
    ELSE {<<a, FirstPart(a)>> :
             a \in req[r].made \cup (IF req[r].step = "row" THEN {req[r].asset} ELSE {})}
AheadOfWorker == IF Rehosting THEN {worker.asset} ELSE {}
Doomed(a) == \E r \in Requests : req[r] # Nothing /\ a \in req[r].doomed

Once ==
    /\ \A r \in Requests : \A a \in Ahead(r) :
          /\ ~Stored(a) /\ ~Doomed(a) /\ a \notin AheadOfWorker
          /\ \A q \in Requests : a \in Ahead(q) => q = r
          /\ worker # Nothing => worker.job # a
    /\ \A a \in AheadOfWorker : ~Stored(a) /\ ~Doomed(a)
    /\ \A r \in Requests : req[r] # Nothing /\ req[r].step = "unlink" =>
          \A a \in req[r].doomed : ~Stored(a)
FilesFirst ==
    /\ \A r \in Requests : FilesAhead(r) \subseteq disk
    /\ AheadOfWorker \X {"image"} \subseteq disk

LEMMA AheadAreAssets ==
  ASSUME TypeOK, InShape, NEW r \in Requests
  PROVE  Ahead(r) \in SUBSET Assets /\ FilesAhead(r) \subseteq Ahead(r) \X Parts
  <1>1. CASE req[r] = Nothing
    BY <1>1 DEF Ahead, FilesAhead
  <1>2. CASE req[r] # Nothing
    <2>1. req[r] \in Request /\ Shaped(req[r])
      BY <1>2, RequestInShape
    <2>2. Ahead(r) \in SUBSET Assets
      BY <1>2, <2>1 DEF Ahead, Request, Shaped
    <2>3. FilesAhead(r) \subseteq Ahead(r) \X Parts
      BY <1>2, <2>1 DEF Ahead, FilesAhead, FirstPart, Parts
    <2> QED
      BY <2>2, <2>3
  <1> QED
    BY <1>1, <1>2

LEMMA UnusedIsNew ==
  ASSUME TypeOK, InShape, FilesFirst, NEW a \in Assets, Unused(a)
  PROVE  /\ ~Stored(a) /\ ~Doomed(a) /\ a \notin AheadOfWorker
         /\ \A r \in Requests : a \notin Ahead(r)
         /\ worker # Nothing => worker.job # a
         /\ \A p \in Parts : <<a, p>> \notin disk
  <1>1. \A p \in Parts : <<a, p>> \notin disk
    BY DEF Unused
  <1>2. ASSUME NEW r \in Requests, a \in Ahead(r) PROVE FALSE
    <2>1. req[r] # Nothing /\ a \notin req[r].todo \cup req[r].made
      BY <1>2 DEF Unused, Ahead
    <2>2. req[r].step = "row" /\ req[r].asset = a /\ req[r].kind # "face"
      BY <1>2, <2>1, RequestInShape DEF Ahead, Shaped
    <2>3. <<a, FirstPart(a)>> \in FilesAhead(r)
      BY <2>1, <2>2 DEF FilesAhead
    <2> QED
      BY <1>1, <2>3 DEF FilesFirst, FirstPart, Parts
  <1> QED
    BY <1>1, <1>2 DEF Unused, Doomed, AheadOfWorker, Rehosting

(* A step of one request keeps all that, if it takes on only unused assets *)
(* and dooms only stored ones, and stores only what it was about to.       *)
LEMMA RequestKeepsOnce ==
  ASSUME TypeOK, InShape, Once, FilesFirst, NEW r \in Requests, Step(r, req'[r]), worker' = worker,
         \A a \in Ahead(r)' : a \in Assets /\ (a \in Ahead(r) \/ Unused(a)),
         \A a \in Assets : Stored(a)' => Stored(a) \/ (a \in Ahead(r) /\ a \notin Ahead(r)'),
         req'[r] # Nothing => req'[r].doomed \subseteq Assets,
         req'[r] # Nothing => \A a \in req'[r].doomed :
             Stored(a) \/ (req[r] # Nothing /\ a \in req[r].doomed),
         req'[r] # Nothing /\ req'[r].step = "unlink" => \A a \in req'[r].doomed : ~Stored(a)'
  PROVE  Once'
  <1>1. \A p \in Requests : p # r => req'[p] = req[p]
    BY DEF Step, TypeOK
  <1>2. \A p \in Requests : p # r => Ahead(p)' = Ahead(p)
    BY <1>1 DEF Ahead
  <1>3. AheadOfWorker' = AheadOfWorker
    BY DEF AheadOfWorker, Rehosting
  <1>4. \A a \in Assets : Doomed(a)' => Doomed(a) \/ Stored(a)
    BY <1>1 DEF Doomed
  <1>5. \A p \in Requests : Ahead(p) \in SUBSET Assets
    BY AheadAreAssets
  <1>6. AheadOfWorker \subseteq Assets
    BY DEF AheadOfWorker, Rehosting, InShape
  <1>7. ASSUME NEW p \in Requests, NEW a \in Ahead(p)', a \in Ahead(p)
        PROVE  /\ ~Stored(a)' /\ ~Doomed(a)' /\ a \notin AheadOfWorker'
               /\ \A q \in Requests : a \in Ahead(q)' => q = p
               /\ worker' # Nothing => worker'.job # a
    <2>1. a \in Assets /\ ~Stored(a) /\ ~Doomed(a) /\ a \notin AheadOfWorker
          /\ (\A q \in Requests : a \in Ahead(q) => q = p) /\ (worker # Nothing => worker.job # a)
      BY <1>5, <1>7 DEF Once
    <2>2. ~Unused(a)
      BY <1>7, <2>1, UnusedIsNew
    <2>3. \A q \in Requests : a \in Ahead(q)' => a \in Ahead(q)
      BY <1>2, <2>2
    <2> QED
      BY <1>3, <1>4, <1>7, <2>1, <2>3
  <1>8. ASSUME NEW a \in Ahead(r)', Unused(a)
        PROVE  /\ ~Stored(a)' /\ ~Doomed(a)' /\ a \notin AheadOfWorker'
               /\ \A q \in Requests : a \in Ahead(q)' => q = r
               /\ worker' # Nothing => worker'.job # a
    <2>1. a \in Assets
      BY <1>8
    <2> QED
      BY <1>2, <1>3, <1>4, <1>8, <2>1, UnusedIsNew
  <1>9. \A a \in AheadOfWorker' : ~Stored(a)' /\ ~Doomed(a)'
    BY <1>3, <1>4, <1>6 DEF Once
  <1>10. ASSUME NEW p \in Requests, req'[p] # Nothing, req'[p].step = "unlink", NEW a \in req'[p].doomed
         PROVE  ~Stored(a)'
    <2>1. CASE p = r
      BY <1>10, <2>1
    <2>2. CASE p # r
      <3>1. req[p] # Nothing /\ req[p].step = "unlink" /\ a \in req[p].doomed /\ a \in Assets
        BY <1>1, <1>10, <2>2, RequestInShape DEF Request
      <3>2. ~Stored(a) /\ Doomed(a)
        BY <3>1 DEF Once, Doomed
      <3> QED
        BY <3>1, <3>2 DEF Once
    <2> QED
      BY <2>1, <2>2
  <1>11. \A p \in Requests : \A a \in Ahead(p)' : a \in Ahead(p) \/ (p = r /\ Unused(a))
    BY <1>2
  <1>12. ASSUME NEW p \in Requests, NEW a \in Ahead(p)'
         PROVE  /\ ~Stored(a)' /\ ~Doomed(a)' /\ a \notin AheadOfWorker'
                /\ \A q \in Requests : a \in Ahead(q)' => q = p
                /\ worker' # Nothing => worker'.job # a
    BY <1>7, <1>8, <1>11, <1>12
  <1> QED
    BY <1>9, <1>10, <1>12 DEF Once

LEMMA RequestKeepsFilesFirst ==
  ASSUME TypeOK, InShape, Once, FilesFirst, NEW r \in Requests, Step(r, req'[r]), worker' = worker,
         FilesAhead(r)' \subseteq disk',
         \A f \in disk : f \notin disk' =>
             req[r] # Nothing /\ req[r].step = "unlink" /\ f \in req[r].doomed \X Parts
  PROVE  FilesFirst'
  <1>1. \A p \in Requests : p # r => req'[p] = req[p]
    BY DEF Step, TypeOK
  <1>2. \A p \in Requests : p # r => FilesAhead(p)' = FilesAhead(p)
    BY <1>1 DEF FilesAhead, FirstPart
  <1>3. AheadOfWorker' = AheadOfWorker
    BY DEF AheadOfWorker, Rehosting
  <1>4. \A p \in Requests : FilesAhead(p) \subseteq Ahead(p) \X Parts
    BY AheadAreAssets
  <1>5. ASSUME NEW f \in disk, f \notin disk' PROVE \A a : \A t : f = <<a, t>> => Doomed(a)
    BY <1>5 DEF Doomed
  <1>6. ASSUME NEW p \in Requests, NEW f \in FilesAhead(p) PROVE f \in disk'
    <2>1. PICK a \in Ahead(p), t \in Parts : f = <<a, t>>
      BY <1>4, <1>6
    <2>2. ~Doomed(a) /\ f \in disk
      BY <1>6 DEF Once, FilesFirst
    <2> QED
      BY <1>5, <2>1, <2>2
  <1>7. AheadOfWorker' \X {"image"} \subseteq disk'
    BY <1>3, <1>5 DEF Once, FilesFirst
  <1>8. \A p \in Requests : FilesAhead(p)' \subseteq disk'
    BY <1>2, <1>6
  <1> QED
    BY <1>7, <1>8 DEF FilesFirst

(* A step of the worker.                                                   *)
LEMMA WorkerKeepsOnce ==
  ASSUME TypeOK, InShape, Once, FilesFirst, req' = req,
         \A a \in AheadOfWorker' : a \in AheadOfWorker \/ (a \in Assets /\ Unused(a)),
         \A a \in Assets : Stored(a)' => Stored(a) \/ (a \in AheadOfWorker /\ a \notin AheadOfWorker'),
         worker' # Nothing => \/ worker # Nothing /\ worker'.job = worker.job
                             \/ worker'.job \notin Assets \/ Stored(worker'.job),
         disk \subseteq disk', AheadOfWorker' \X {"image"} \subseteq disk'
  PROVE  Once' /\ FilesFirst'
  <1>1. \A p \in Requests : Ahead(p)' = Ahead(p) /\ FilesAhead(p)' = FilesAhead(p)
    BY DEF Ahead, FilesAhead, FirstPart
  <1>2. \A a : Doomed(a)' <=> Doomed(a)
    BY DEF Doomed
  <1>3. \A p \in Requests : Ahead(p) \in SUBSET Assets
    BY AheadAreAssets
  <1>4. AheadOfWorker \subseteq Assets
    BY DEF AheadOfWorker, Rehosting, InShape
  <1>5. ASSUME NEW p \in Requests, NEW a \in Ahead(p)'
        PROVE  /\ ~Stored(a)' /\ ~Doomed(a)' /\ a \notin AheadOfWorker'
               /\ \A q \in Requests : a \in Ahead(q)' => q = p
               /\ worker' # Nothing => worker'.job # a
    <2>1. a \in Assets /\ a \in Ahead(p) /\ ~Stored(a) /\ ~Doomed(a) /\ a \notin AheadOfWorker
          /\ (\A q \in Requests : a \in Ahead(q) => q = p) /\ (worker # Nothing => worker.job # a)
      BY <1>1, <1>3, <1>5 DEF Once
    <2>2. ~Unused(a)
      BY <2>1, UnusedIsNew
    <2> QED
      BY <1>1, <1>2, <2>1, <2>2
  <1>6. ASSUME NEW a \in AheadOfWorker' PROVE ~Stored(a)' /\ ~Doomed(a)'
    <2>1. CASE a \in AheadOfWorker
      BY <1>2, <1>4, <1>6, <2>1 DEF Once
    <2>2. CASE a \in Assets /\ Unused(a)
      BY <1>2, <1>6, <2>2, UnusedIsNew
    <2> QED
      BY <1>6, <2>1, <2>2
  <1>7. ASSUME NEW p \in Requests, req'[p] # Nothing, req'[p].step = "unlink", NEW a \in req'[p].doomed
        PROVE  ~Stored(a)'
    <2>1. req[p] # Nothing /\ req[p].step = "unlink" /\ a \in req[p].doomed /\ a \in Assets
      BY <1>7, RequestInShape DEF Request
    <2>2. ~Stored(a) /\ Doomed(a)
      BY <2>1 DEF Once, Doomed
    <2> QED
      BY <2>1, <2>2 DEF Once
  <1>8. Once'
    BY <1>5, <1>6, <1>7 DEF Once
  <1>9. FilesFirst'
    BY <1>1 DEF FilesFirst
  <1> QED
    BY <1>8, <1>9

LEMMA RequestIsAhead ==
  ASSUME NEW r \in Requests, req[r] # Nothing
  PROVE  /\ req[r].todo \cup req[r].made \subseteq Ahead(r)
         /\ req[r].step = "row" => req[r].asset \in Ahead(r)
         /\ req[r].kind # "face" => \A a \in req[r].made : <<a, FirstPart(a)>> \in FilesAhead(r)
         /\ req[r].kind # "face" /\ req[r].step = "row" =>
               <<req[r].asset, FirstPart(req[r].asset)>> \in FilesAhead(r)
         /\ req[r].kind = "face" => req[r].made \X {"image"} = FilesAhead(r)
  BY DEF Ahead, FilesAhead

LEMMA WorkKeepsOnce ==
  ASSUME TypeOK, InShape, Once, FilesFirst, Work \/ CrashWorker
  PROVE  Once' /\ FilesFirst'
  <1> USE NothingIsNoRecord
  <1>0. Assets \cap Posts = {} /\ UNCHANGED req
    BY AssetsAssumption, WorkFits DEF Owners
  <1>1. ASSUME AheadOfWorker' = {}, \A a \in Assets : Stored(a)' => Stored(a), disk \subseteq disk',
               worker' # Nothing => \/ worker # Nothing /\ worker'.job = worker.job
                                   \/ worker'.job \notin Assets \/ Stored(worker'.job)
        PROVE  Once' /\ FilesFirst'
    BY <1>0, <1>1, WorkerKeepsOnce
  <1>2. ASSUME NEW j \in Assets \cup Posts, Take(j) PROVE Once' /\ FilesFirst'
    <2>1. worker' = Nothing \/ worker' = [job |-> j, step |-> "run", asset |-> Nothing]
      BY <1>2 DEF Take
    <2>2. AheadOfWorker' = {}
      BY <2>1 DEF AheadOfWorker, Rehosting
    <2>3. worker' # Nothing => worker'.job \notin Assets \/ Stored(worker'.job)
      BY <1>0, <1>2, <2>1 DEF Take
    <2>4. (\A a \in Assets : Stored(a)' => Stored(a)) /\ disk \subseteq disk'
      BY <1>2 DEF Take, Stored
    <2> QED
      BY <1>1, <2>2, <2>3, <2>4
  <1>3. CASE Refuse
    <2>1. AheadOfWorker' = {} /\ worker' = Nothing /\ disk \subseteq disk'
      BY <1>3 DEF Refuse, AheadOfWorker, Rehosting
    <2>2. \A a \in Assets : Stored(a)' => Stored(a)
      BY <1>3 DEF Refuse, Stored, TypeOK
    <2> QED
      BY <1>1, <2>1, <2>2
  <1>4. CASE Recheck \/ WriteRendition
    <2>1. worker \in Job /\ worker.job \in Assets
      BY <1>4 DEF Recheck, WriteRendition, Transcoding, Working, TypeOK
    <2>2. worker' # Nothing => worker'.job = worker.job /\ worker # Nothing
      BY <1>4, <2>1 DEF Recheck, WriteRendition, Job
    <2>3. AheadOfWorker' = {}
      BY <1>0, <2>1, <2>2 DEF AheadOfWorker, Rehosting
    <2>4. (\A a \in Assets : Stored(a)' => Stored(a)) /\ disk \subseteq disk'
      BY <1>4 DEF Recheck, WriteRendition, Stored
    <2> QED
      BY <1>1, <2>2, <2>3, <2>4
  <1>5. CASE SaveRendition
    <2>1. AheadOfWorker' = {} /\ worker' = Nothing /\ disk \subseteq disk'
      BY <1>5 DEF SaveRendition, AheadOfWorker, Rehosting
    <2>2. \A a \in Assets : Stored(a)' => Stored(a)
      BY <1>5 DEF SaveRendition, Stored, TypeOK
    <2> QED
      BY <1>1, <2>1, <2>2
  <1>6. CASE FetchNothing \/ CrashWorker
    <2>1. AheadOfWorker' = {} /\ worker' = Nothing /\ disk \subseteq disk'
      BY <1>6 DEF FetchNothing, CrashWorker, AheadOfWorker, Rehosting
    <2>2. \A a \in Assets : Stored(a)' => Stored(a)
      BY <1>6 DEF FetchNothing, CrashWorker, Stored
    <2> QED
      BY <1>1, <2>1, <2>2
  <1>7. ASSUME NEW a \in Assets, RehostImage(a) PROVE Once' /\ FilesFirst'
    <2>1. worker \in Job /\ worker # Nothing
      BY <1>7 DEF RehostImage, Working, TypeOK
    <2>2. worker'.asset = a /\ worker'.job = worker.job
      BY <1>7, <2>1 DEF RehostImage, Job
    <2>3. AheadOfWorker' \subseteq {a} /\ disk' = disk \cup {<<a, "image">>}
      BY <1>7, <2>2 DEF RehostImage, AheadOfWorker, Rehosting
    <2>4. Unused(a) /\ \A b \in Assets : Stored(b)' => Stored(b)
      BY <1>7 DEF RehostImage, Stored
    <2>5. AheadOfWorker' \X {"image"} \subseteq disk'
      BY <2>3
    <2> QED
      BY <1>0, <2>1, <2>2, <2>3, <2>4, <2>5, WorkerKeepsOnce
  <1>8. CASE SaveImage
    <2>1. AheadOfWorker = {worker.asset} /\ worker' = Nothing /\ disk \subseteq disk'
      BY <1>8 DEF SaveImage, Working, AheadOfWorker, Rehosting
    <2>2. AheadOfWorker' = {}
      BY <2>1 DEF AheadOfWorker, Rehosting
    <2>3. \A a \in Assets : Stored(a)' => Stored(a) \/ a = worker.asset
      BY <1>8 DEF SaveImage, Stored, TypeOK
    <2> QED
      BY <1>0, <2>1, <2>2, <2>3, WorkerKeepsOnce
  <1> QED
    BY <1>2, <1>3, <1>4, <1>5, <1>6, <1>7, <1>8 DEF Work

LEMMA StepKeepsOnce ==
  ASSUME TypeOK, InShape, Once, FilesFirst, [Next]_vars
  PROVE  Once' /\ FilesFirst'
  <1> USE NothingIsNoRecord
  <1>1. ASSUME NEW r \in Requests, Start(r) PROVE Once' /\ FilesFirst'
    <2>1. PICK kind \in {"compose", "reply", "purge", "face"}, o \in Owners, pics \in SUBSET Assets,
            step \in {"defer", "file", "look"} : Opens(r, kind, o, pics, step)
      BY <1>1, StartOpens
    <2> DEFINE new == NewRequest(kind, o, pics, step)
    <2>2. /\ new \in Request /\ new.todo = pics /\ new.made = {} /\ new.doomed = {} /\ new.step = step
      BY NewRequestFits
    <2>3. req'[r] = new /\ req[r] = Nothing /\ Step(r, req'[r]) /\ UNCHANGED <<row, disk, worker>>
          /\ new # Nothing
      BY <2>1, <2>2 DEF Opens, Step, TypeOK
    <2> HIDE DEF new
    <2>4. Ahead(r)' = pics /\ FilesAhead(r)' = {}
      BY <2>2, <2>3 DEF Ahead, FilesAhead
    <2>5. \A a \in pics : a \in Assets /\ Unused(a)
      BY <2>1 DEF Opens
    <2>6. \A a \in Assets : Stored(a)' <=> Stored(a)
      BY <2>3 DEF Stored
    <2>7. Once'
      BY <2>2, <2>3, <2>4, <2>5, <2>6, RequestKeepsOnce
    <2>8. FilesFirst'
      BY <2>2, <2>3, <2>4, RequestKeepsFilesFirst
    <2> QED
      BY <2>7, <2>8
  <1>2. ASSUME NEW r \in Requests, DeferPreview(r) \/ DeferTranscode(r) PROVE Once' /\ FilesFirst'
    <2>1. /\ Step(r, req'[r]) /\ UNCHANGED <<row, disk, worker>> /\ req[r] # Nothing
          /\ req'[r] # Nothing => /\ req'[r] \in Request /\ req'[r].todo = req[r].todo
                                  /\ req'[r].made = {} /\ req'[r].doomed = {} /\ req'[r].step = "file"
      BY <1>2, GoesOnDoes
    <2>2. Ahead(r)' \subseteq Ahead(r) /\ FilesAhead(r)' = {}
      BY <2>1 DEF Ahead, FilesAhead
    <2>3. Ahead(r) \in SUBSET Assets
      BY AheadAreAssets
    <2>4. \A a \in Assets : Stored(a)' <=> Stored(a)
      BY <2>1 DEF Stored
    <2>5. Once'
      BY <2>1, <2>2, <2>3, <2>4, RequestKeepsOnce
    <2>6. FilesFirst'
      BY <2>1, <2>2, RequestKeepsFilesFirst
    <2> QED
      BY <2>5, <2>6
  <1>3. ASSUME NEW r \in Requests, NEW a \in Assets, WriteFile(r, a) PROVE Once' /\ FilesFirst'
    <2>1. /\ req[r] # Nothing /\ a \in req[r].todo /\ req[r].kind \in {"compose", "reply"}
          /\ req[r].step = "file" /\ Step(r, req'[r]) /\ UNCHANGED <<row, worker>>
          /\ disk \subseteq disk'
          /\ req'[r] # Nothing => /\ req'[r] \in Request /\ req'[r].todo = req[r].todo \ {a}
                                  /\ req'[r].doomed = {} /\ req'[r].kind = req[r].kind
                                  /\ Shaped(req'[r])
      BY <1>3, WriteFileDoes
    <2>2. req'[r] # Nothing =>
            /\ req'[r].made \subseteq req[r].made \cup {a}
            /\ req'[r].step = "row" => req'[r].asset = a
            /\ \/ req'[r].made \subseteq req[r].made /\ req'[r].step # "row"
               \/ <<a, FirstPart(a)>> \in disk'
      BY <1>3, WriteFileDoes
    <2>3. Ahead(r)' \subseteq Ahead(r) /\ Ahead(r) \in SUBSET Assets
      BY <2>1, <2>2, AheadAreAssets DEF Ahead
    <2>4. ASSUME NEW f \in FilesAhead(r)' PROVE f \in disk'
      <3>1. /\ req'[r] # Nothing
            /\ f \in {<<b, FirstPart(b)>> :
                 b \in req'[r].made \cup (IF req'[r].step = "row" THEN {req'[r].asset} ELSE {})}
        BY <2>1, <2>4 DEF FilesAhead, FirstPart
      <3>2. PICK b \in req'[r].made \cup (IF req'[r].step = "row" THEN {req'[r].asset} ELSE {}) :
               f = <<b, FirstPart(b)>>
        BY <3>1
      <3>3. CASE b \in req[r].made
        <4>1. f \in FilesAhead(r)
          BY <2>1, <3>2, <3>3, RequestIsAhead
        <4> QED
          BY <2>1, <4>1 DEF FilesFirst
      <3>4. CASE b = a /\ b \notin req[r].made
        BY <2>2, <3>1, <3>2, <3>4
      <3> QED
        BY <2>2, <3>1, <3>2, <3>3, <3>4
    <2>5. \A b \in Assets : Stored(b)' <=> Stored(b)
      BY <2>1 DEF Stored
    <2>6. Once'
      BY <2>1, <2>3, <2>5, RequestKeepsOnce DEF Shaped
    <2>7. FilesFirst'
      BY <2>1, <2>4, RequestKeepsFilesFirst
    <2> QED
      BY <2>6, <2>7
  <1>4. ASSUME NEW r \in Requests, WriteRow(r) PROVE Once' /\ FilesFirst'
    <2>1. /\ req[r] # Nothing /\ req[r].step = "row" /\ Step(r, req'[r]) /\ UNCHANGED <<disk, worker>>
          /\ req[r].asset \in Assets
          /\ req'[r] # Nothing => /\ req'[r] \in Request /\ req'[r].todo = req[r].todo
                                  /\ req'[r].made = {} /\ req'[r].doomed = {}
                                  /\ req'[r].step \in {"file", "job"}
          /\ row' = [row EXCEPT ![req[r].asset] = NewRow(req[r].asset, req[r].owner)]
      BY <1>4, WriteRowDoes
    <2>2. Ahead(r)' \subseteq req[r].todo /\ FilesAhead(r)' = {}
      BY <2>1 DEF Ahead, FilesAhead
    <2>3. req[r].asset \in Ahead(r) /\ req[r].todo \subseteq Ahead(r) /\ Ahead(r) \in SUBSET Assets
      BY <2>1, RequestIsAhead, AheadAreAssets
    <2>4. \A a \in Assets : Stored(a)' => Stored(a) \/ a = req[r].asset
      BY <2>1 DEF Stored, TypeOK
    <2>5. req[r].asset \notin req[r].todo
      BY <2>1, RequestInShape DEF Shaped
    <2>6. Once'
      BY <2>1, <2>2, <2>3, <2>4, <2>5, RequestKeepsOnce
    <2>7. FilesFirst'
      BY <2>1, <2>2, RequestKeepsFilesFirst
    <2> QED
      BY <2>6, <2>7
  <1>5. ASSUME NEW r \in Requests, CommitReply(r) PROVE Once' /\ FilesFirst'
    <2>1. /\ req[r] # Nothing /\ req[r].made \in SUBSET Assets /\ req'[r] = Nothing
          /\ Step(r, req'[r]) /\ UNCHANGED <<disk, worker>>
          /\ row' = [a \in Assets |-> IF a \in req[r].made THEN NewRow(a, req[r].owner) ELSE row[a]]
      BY <1>5, CommitReplyDoes
    <2>2. Ahead(r)' = {} /\ FilesAhead(r)' = {}
      BY <2>1 DEF Ahead, FilesAhead
    <2>3. req[r].made \subseteq Ahead(r)
      BY <2>1, RequestIsAhead
    <2>4. \A a \in Assets : Stored(a)' => Stored(a) \/ a \in req[r].made
      BY <2>1 DEF Stored
    <2>5. Once'
      BY <2>1, <2>2, <2>3, <2>4, RequestKeepsOnce
    <2>6. FilesFirst'
      BY <2>1, <2>2, RequestKeepsFilesFirst
    <2> QED
      BY <2>5, <2>6
  <1>6. ASSUME NEW r \in Requests, Look(r) PROVE Once' /\ FilesFirst'
    <2>1. /\ req[r] # Nothing /\ req'[r] # Nothing /\ req'[r] \in Request /\ Step(r, req'[r])
          /\ req'[r].todo = {} /\ req'[r].made = {} /\ req'[r].step = "commit"
          /\ req'[r].doomed = MediaOf(req[r].owner) /\ UNCHANGED <<row, disk, worker>>
      BY <1>6, LookDoes
    <2>2. Ahead(r)' = {} /\ FilesAhead(r)' = {}
      BY <2>1 DEF Ahead, FilesAhead
    <2>3. req'[r].doomed \subseteq Assets /\ \A a \in req'[r].doomed : Stored(a)
      BY <2>1 DEF MediaOf
    <2>4. \A a \in Assets : Stored(a)' <=> Stored(a)
      BY <2>1 DEF Stored
    <2>5. Once'
      BY <2>1, <2>2, <2>3, <2>4, RequestKeepsOnce
    <2>6. FilesFirst'
      BY <2>1, <2>2, RequestKeepsFilesFirst
    <2> QED
      BY <2>5, <2>6
  <1>7. ASSUME NEW r \in Requests, Purge(r) PROVE Once' /\ FilesFirst'
    <2>1. /\ req[r] # Nothing /\ req'[r] # Nothing /\ req'[r] \in Request /\ Step(r, req'[r])
          /\ req'[r].todo = {} /\ req'[r].made = {} /\ req'[r].step = "unlink"
          /\ req'[r].doomed = req[r].doomed /\ UNCHANGED <<disk, worker>>
          /\ row' = [a \in Assets |-> IF a \in req[r].doomed THEN Nothing ELSE row[a]]
      BY <1>7, PurgeDoes
    <2>2. Ahead(r)' = {} /\ FilesAhead(r)' = {}
      BY <2>1 DEF Ahead, FilesAhead
    <2>3. req'[r].doomed \subseteq Assets
      BY <2>1 DEF Request
    <2>4. /\ \A a \in Assets : Stored(a)' => Stored(a)
          /\ \A a \in req'[r].doomed : ~Stored(a)'
      BY <2>1, <2>3 DEF Stored
    <2>5. Once'
      BY <2>1, <2>2, <2>3, <2>4, RequestKeepsOnce
    <2>6. FilesFirst'
      BY <2>1, <2>2, RequestKeepsFilesFirst
    <2> QED
      BY <2>5, <2>6
  <1>8. ASSUME NEW r \in Requests, Unlink(r) PROVE Once' /\ FilesFirst'
    <2>1. /\ req[r] # Nothing /\ req'[r] = Nothing /\ Step(r, req'[r]) /\ req[r].step = "unlink"
          /\ req[r].names \subseteq req[r].doomed \X Parts
          /\ disk' = disk \ req[r].names /\ UNCHANGED <<row, worker>>
      BY <1>8, UnlinkDoes
    <2>2. Ahead(r)' = {} /\ FilesAhead(r)' = {}
      BY <2>1 DEF Ahead, FilesAhead
    <2>3. \A a \in Assets : Stored(a)' <=> Stored(a)
      BY <2>1 DEF Stored
    <2>4. Once'
      BY <2>1, <2>2, <2>3, RequestKeepsOnce
    <2>5. FilesFirst'
      BY <2>1, <2>2, RequestKeepsFilesFirst
    <2> QED
      BY <2>4, <2>5
  <1>9. ASSUME NEW r \in Requests, LookFace(r) PROVE Once' /\ FilesFirst'
    <2>1. /\ req[r] # Nothing /\ req'[r] # Nothing /\ req'[r] \in Request /\ Step(r, req'[r])
          /\ req'[r].kind = "face" /\ req'[r].todo = {} /\ req'[r].made = req[r].todo
          /\ req'[r].step = "commit" /\ req'[r].doomed = MediaOf(req[r].owner)
          /\ disk' = disk \cup (req[r].todo \X {"image"}) /\ UNCHANGED <<row, worker>>
      BY <1>9, LookFaceDoes
    <2>2. Ahead(r)' = req[r].todo /\ FilesAhead(r)' = req[r].todo \X {"image"}
      BY <2>1 DEF Ahead, FilesAhead
    <2>3. req[r].todo \subseteq Ahead(r) /\ Ahead(r) \in SUBSET Assets
      BY <2>1, RequestIsAhead, AheadAreAssets
    <2>4. req'[r].doomed \subseteq Assets /\ \A a \in req'[r].doomed : Stored(a)
      BY <2>1 DEF MediaOf
    <2>5. \A a \in Assets : Stored(a)' <=> Stored(a)
      BY <2>1 DEF Stored
    <2>6. Once'
      BY <2>1, <2>2, <2>3, <2>4, <2>5, RequestKeepsOnce
    <2>7. FilesFirst'
      BY <2>1, <2>2, RequestKeepsFilesFirst
    <2> QED
      BY <2>6, <2>7
  <1>10. ASSUME NEW r \in Requests, CommitFace(r) PROVE Once' /\ FilesFirst'
    <2>1. /\ req[r] # Nothing /\ req'[r] # Nothing /\ req'[r] \in Request /\ Step(r, req'[r])
          /\ req'[r].todo = {} /\ req'[r].made = {} /\ req'[r].step = "unlink"
          /\ req'[r].doomed = req[r].doomed /\ UNCHANGED <<disk, worker>>
          /\ row' = [a \in Assets |->
                IF a \in req[r].made THEN ImageRow(a, req[r].owner)
                ELSE IF a \in req[r].doomed THEN Nothing ELSE row[a]]
      BY <1>10, CommitFaceDoes
    <2>2. Ahead(r)' = {} /\ FilesAhead(r)' = {}
      BY <2>1 DEF Ahead, FilesAhead
    <2>3. req'[r].doomed \subseteq Assets /\ req[r].made \subseteq Ahead(r)
      BY <2>1, RequestIsAhead DEF Request
    <2>4. \A a \in req[r].doomed : a \notin req[r].made
      BY <2>1, <2>3 DEF Once, Doomed
    <2>5. /\ \A a \in Assets : Stored(a)' => Stored(a) \/ a \in req[r].made
          /\ \A a \in req'[r].doomed : ~Stored(a)'
      BY <2>1, <2>3, <2>4 DEF Stored
    <2>6. Once'
      BY <2>1, <2>2, <2>3, <2>5, RequestKeepsOnce
    <2>7. FilesFirst'
      BY <2>1, <2>2, RequestKeepsFilesFirst
    <2> QED
      BY <2>6, <2>7
  <1>11. ASSUME NEW r \in Requests, FailRequest(r) PROVE Once' /\ FilesFirst'
    <2>1. req'[r] = Nothing /\ Step(r, req'[r]) /\ UNCHANGED <<row, disk, worker>>
      BY <1>11, FailRequestDoes
    <2>2. Ahead(r)' = {} /\ FilesAhead(r)' = {}
      BY <2>1 DEF Ahead, FilesAhead
    <2>3. \A a \in Assets : Stored(a)' <=> Stored(a)
      BY <2>1 DEF Stored
    <2>4. Once'
      BY <2>1, <2>2, <2>3, RequestKeepsOnce
    <2>5. FilesFirst'
      BY <2>1, <2>2, RequestKeepsFilesFirst
    <2> QED
      BY <2>4, <2>5
  <1>12. CASE Work \/ CrashWorker
    BY <1>12, WorkKeepsOnce
  <1>13. CASE UNCHANGED vars
    <2>1. /\ \A p \in Requests : Ahead(p)' = Ahead(p) /\ FilesAhead(p)' = FilesAhead(p)
          /\ AheadOfWorker' = AheadOfWorker
          /\ \A a : (Stored(a)' <=> Stored(a)) /\ (Doomed(a)' <=> Doomed(a))
          /\ UNCHANGED <<req, worker, disk>>
      BY <1>13 DEF vars, Ahead, FilesAhead, FirstPart, AheadOfWorker, Rehosting, Stored, Doomed
    <2> QED
      BY <2>1 DEF Once, FilesFirst
  <1> QED
    BY <1>1, <1>2, <1>3, <1>4, <1>5, <1>6, <1>7, <1>8, <1>9, <1>10, <1>11, <1>12, <1>13
    DEF Next, Continue

LEMMA OnceHolds == Spec => [](TypeOK /\ InShape /\ Once /\ FilesFirst)
  <1>1. Init => Once /\ FilesFirst
    BY DEF Init, Once, FilesFirst, Ahead, FilesAhead, AheadOfWorker, Rehosting, Doomed
  <1>2. TypeOK /\ InShape /\ Once /\ FilesFirst /\ [Next]_vars => Once' /\ FilesFirst'
    BY StepKeepsOnce
  <1> QED
    BY <1>1, <1>2, ShapeHolds, PTL DEF Spec

-----------------------------------------------------------------------------
(* No row without its files, and no rendition recorded before it is there. *)
Backed ==
    /\ \A a \in Assets : Stored(a) => {a} \X row[a].parts \subseteq disk
    /\ Rendering /\ Stored(worker.job) => <<worker.job, "video">> \in disk

(* Only what a committed purge names is ever unlinked.                     *)
LEMMA LostFilesAreDoomed ==
  ASSUME TypeOK, InShape, Once, FilesFirst, [Next]_vars
  PROVE  \A a \in Assets, p \in Parts :
            <<a, p>> \in disk /\ <<a, p>> \notin disk' => ~Stored(a) /\ ~Stored(a)'
  <1> SUFFICES ASSUME NEW a \in Assets, NEW p \in Parts, <<a, p>> \in disk, <<a, p>> \notin disk'
               PROVE  ~Stored(a) /\ ~Stored(a)'
    OBVIOUS
  <1>1. ASSUME NEW r \in Requests, Unlink(r) PROVE ~Stored(a) /\ ~Stored(a)'
    BY <1>1, UnlinkDoes DEF Once, Stored
  <1>2. ASSUME NEW r \in Requests, Start(r) PROVE FALSE
    BY <1>2, StartOpens DEF Opens
  <1>3. ASSUME NEW r \in Requests, Look(r) PROVE FALSE
    BY <1>3, LookDoes
  <1> QED
    BY <1>1, <1>2, <1>3 DEF Next, Continue, Work, DeferPreview, WriteFile, WriteRow, DeferTranscode,
       CommitReply, Purge, LookFace, CommitFace, FailRequest, Take, Refuse, Recheck, WriteRendition,
       SaveRendition, FetchNothing, RehostImage, SaveImage, CrashWorker, vars

LEMMA RowsChange ==
  ASSUME NEW w \in Row
  PROVE  /\ Refused(w).parts = w.parts /\ Refused(w).owner = w.owner /\ Refused(w) # Nothing
         /\ Rendered(w).parts = w.parts \cup {"video"} /\ Rendered(w).owner = w.owner
         /\ Rendered(w) # Nothing
  <1>1. Refused(w) \in Row /\ Rendered(w) \in Row
    BY DEF Refused, Rendered, Row, Parts
  <1> QED
    BY <1>1, NothingIsNoRecord DEF Refused, Rendered, Row

LEMMA StepKeepsBacked ==
  ASSUME TypeOK, InShape, Once, FilesFirst, Backed, [Next]_vars
  PROVE  Backed'
  <1> USE NothingIsNoRecord
  <1> DEFINE Held(a) == row'[a] = row[a]
             HasFiles(a) == {a} \X row'[a].parts \subseteq disk'
  <1>0. \A a \in Assets : Stored(a) => row[a] \in Row /\ row[a].parts \subseteq Parts
    BY DEF Stored, TypeOK, Row
  <1>1. ASSUME NEW a \in Assets, Stored(a)', Held(a) PROVE HasFiles(a)
    BY <1>0, <1>1, LostFilesAreDoomed DEF Backed, Stored
  <1>2. ASSUME worker' = worker, \A a \in Assets : Stored(a)' => Held(a) \/ HasFiles(a),
               \A a \in Assets : Stored(a)' => Stored(a) \/ \E r \in Requests : a \in Ahead(r)
        PROVE  Backed'
    <2>1. ASSUME Rendering', Stored(worker.job)' PROVE <<worker.job, "video">> \in disk'
      <3>1. Rendering /\ worker # Nothing /\ worker.job \in Assets
        BY <1>2, <2>1 DEF Rendering
      <3>2. \A r \in Requests : worker.job \notin Ahead(r)
        BY <3>1 DEF Once
      <3>3. Stored(worker.job)
        BY <1>2, <2>1, <3>1, <3>2
      <3> QED
        BY <2>1, <3>1, <3>3, LostFilesAreDoomed DEF Backed, Parts
    <2> QED
      BY <1>1, <1>2, <2>1 DEF Backed
  <1>3. ASSUME NEW r \in Requests, UNCHANGED <<row, worker>> PROVE Backed'
    BY <1>2, <1>3 DEF Stored
  <1>4. ASSUME NEW r \in Requests, WriteRow(r) PROVE Backed'
    <2>1. /\ req[r] # Nothing /\ req[r].step = "row" /\ req[r].kind # "face" /\ req[r].asset \in Assets
          /\ row' = [row EXCEPT ![req[r].asset] = NewRow(req[r].asset, req[r].owner)]
          /\ UNCHANGED <<disk, worker>>
      BY <1>4, WriteRowDoes
    <2>2. <<req[r].asset, FirstPart(req[r].asset)>> \in disk /\ req[r].asset \in Ahead(r)
      BY <2>1, RequestIsAhead DEF FilesFirst
    <2>3. HasFiles(req[r].asset) /\ \A a \in Assets : a # req[r].asset => Held(a)
      BY <2>1, <2>2 DEF NewRow, TypeOK
    <2> QED
      BY <1>2, <2>1, <2>2, <2>3 DEF Stored
  <1>5. ASSUME NEW r \in Requests, CommitReply(r) PROVE Backed'
    <2>1. /\ req[r] # Nothing /\ req[r].kind # "face" /\ req[r].made \in SUBSET Assets
          /\ row' = [a \in Assets |-> IF a \in req[r].made THEN NewRow(a, req[r].owner) ELSE row[a]]
          /\ UNCHANGED <<disk, worker>>
      BY <1>5, CommitReplyDoes
    <2>2. \A a \in req[r].made : <<a, FirstPart(a)>> \in disk /\ a \in Ahead(r)
      BY <2>1, RequestIsAhead DEF FilesFirst
    <2>3. (\A a \in req[r].made : HasFiles(a)) /\ \A a \in Assets : a \notin req[r].made => Held(a)
      BY <2>1, <2>2 DEF NewRow
    <2> QED
      BY <1>2, <2>1, <2>2, <2>3 DEF Stored
  <1>6. ASSUME NEW r \in Requests, Purge(r) PROVE Backed'
    <2>1. /\ row' = [a \in Assets |-> IF a \in req[r].doomed THEN Nothing ELSE row[a]]
          /\ UNCHANGED <<disk, worker>>
      BY <1>6, PurgeDoes
    <2> QED
      BY <1>2, <2>1 DEF Stored
  <1>7. ASSUME NEW r \in Requests, CommitFace(r) PROVE Backed'
    <2>1. /\ req[r] # Nothing /\ req[r].kind = "face" /\ req[r].made \in SUBSET Assets
          /\ row' = [a \in Assets |->
                IF a \in req[r].made THEN ImageRow(a, req[r].owner)
                ELSE IF a \in req[r].doomed THEN Nothing ELSE row[a]]
          /\ UNCHANGED <<disk, worker>>
      BY <1>7, CommitFaceDoes
    <2>2. \A a \in req[r].made : <<a, "image">> \in disk /\ a \in Ahead(r)
      BY <2>1, RequestIsAhead DEF FilesFirst
    <2>3. (\A a \in req[r].made : HasFiles(a))
          /\ \A a \in Assets : a \notin req[r].made => Held(a) \/ ~Stored(a)'
      BY <2>1, <2>2 DEF ImageRow, Stored
    <2> QED
      BY <1>2, <2>1, <2>2, <2>3 DEF Stored
  <1>8. ASSUME NEW r \in Requests, Start(r) PROVE Backed'
    BY <1>3, <1>8, StartOpens DEF Opens
  <1>9. ASSUME ~Rendering' \/ (<<worker'.job, "video">> \in disk'),
               \A a \in Assets : Stored(a)' => Held(a) \/ HasFiles(a)
        PROVE  Backed'
    BY <1>1, <1>9 DEF Backed
  <1>10. ASSUME NEW j \in Assets \cup Posts, Take(j) PROVE Backed'
    BY <1>9, <1>10 DEF Take, Rendering
  <1>11. CASE Refuse
    <2>1. worker.job \in Assets /\ ~Rendering' /\ disk' = disk
      BY <1>11 DEF Refuse, Transcoding, Rendering
    <2>2. \A a \in Assets : a # worker.job => Held(a)
      BY <1>11, <2>1 DEF Refuse, TypeOK
    <2>3. ASSUME row'[worker.job] # Nothing PROVE HasFiles(worker.job)
      <3>1. Stored(worker.job) /\ row'[worker.job] = Refused(row[worker.job])
        BY <1>11, <2>1, <2>3 DEF Refuse, Stored, TypeOK
      <3>2. row'[worker.job].parts = row[worker.job].parts
        BY <1>0, <2>1, <3>1, RowsChange
      <3> QED
        BY <2>1, <3>1, <3>2 DEF Backed
    <2>4. \A a \in Assets : Stored(a)' => Held(a) \/ HasFiles(a)
      BY <2>2, <2>3 DEF Stored
    <2> QED
      BY <1>9, <2>1, <2>4
  <1>12. CASE Recheck
    <2>1. worker' = Nothing \/ worker'.step = "write"
      BY <1>12 DEF Recheck, Transcoding, Working, TypeOK, Job
    <2> QED
      BY <1>9, <1>12, <2>1 DEF Recheck, Rendering
  <1>13. CASE WriteRendition
    <2>1. worker \in Job /\ worker' = [worker EXCEPT !.step = "save"] /\ row' = row
          /\ disk' = disk \cup {<<worker.job, "video">>}
      BY <1>13 DEF WriteRendition, Transcoding, Working, TypeOK
    <2>2. worker'.job = worker.job
      BY <2>1 DEF Job
    <2> QED
      BY <1>9, <2>1, <2>2
  <1>14. CASE SaveRendition
    <2>1. Rendering /\ worker.job \in Assets /\ ~Rendering' /\ disk' = disk
      BY <1>14 DEF SaveRendition, Transcoding, Working, Rendering
    <2>2. row' = [row EXCEPT ![worker.job] =
             IF row[worker.job] = Nothing THEN Nothing ELSE Rendered(row[worker.job])]
      BY <1>14 DEF SaveRendition
    <2>3. \A a \in Assets : a # worker.job => Held(a)
      BY <2>2 DEF TypeOK
    <2>4. ASSUME row'[worker.job] # Nothing PROVE HasFiles(worker.job)
      <3>1. Stored(worker.job) /\ row'[worker.job] = Rendered(row[worker.job])
        BY <2>1, <2>2, <2>4 DEF Stored, TypeOK
      <3>2. row'[worker.job].parts = row[worker.job].parts \cup {"video"}
        BY <1>0, <2>1, <3>1, RowsChange
      <3> QED
        BY <2>1, <3>1, <3>2 DEF Backed
    <2>5. \A a \in Assets : Stored(a)' => Held(a) \/ HasFiles(a)
      BY <2>3, <2>4 DEF Stored
    <2> QED
      BY <1>9, <2>1, <2>5
  <1>15. ASSUME NEW a \in Assets, RehostImage(a) PROVE Backed'
    <2>1. worker \in Job /\ worker.job \in Posts /\ row' = row /\ worker' = [worker EXCEPT !.step = "save", !.asset = a]
      BY <1>15 DEF RehostImage, Working, TypeOK
    <2>2. worker'.job \notin Assets
      BY <2>1, AssetsAssumption DEF Job, Owners
    <2> QED
      BY <1>9, <2>1, <2>2 DEF Rendering
  <1>16. CASE SaveImage
    <2>1. Rehosting /\ AheadOfWorker = {worker.asset} /\ worker' = Nothing /\ disk' = disk
          /\ row' = [row EXCEPT ![worker.asset] = ImageRow(worker.asset, worker.job)]
      BY <1>16 DEF SaveImage, Working, AheadOfWorker, Rehosting
    <2>2. worker.asset \in Assets /\ <<worker.asset, "image">> \in disk
      BY <2>1 DEF FilesFirst, InShape, Rehosting
    <2>3. HasFiles(worker.asset) /\ \A a \in Assets : a # worker.asset => Held(a)
      BY <2>1, <2>2 DEF ImageRow, TypeOK
    <2> QED
      BY <1>9, <2>1, <2>3 DEF Rendering
  <1>17. CASE FetchNothing \/ CrashWorker
    BY <1>9, <1>17 DEF FetchNothing, CrashWorker, Rendering
  <1>18. CASE UNCHANGED <<row, worker>>
    BY <1>2, <1>18 DEF Stored
  <1> QED
    BY <1>4, <1>5, <1>6, <1>7, <1>8, <1>10, <1>11, <1>12, <1>13, <1>14, <1>15, <1>16, <1>17, <1>18
    DEF Next, Continue, Work, DeferPreview, WriteFile, DeferTranscode, Look, Unlink, LookFace,
        FailRequest, vars

-----------------------------------------------------------------------------
(* A deletion that has looked and not yet committed: whatever its family   *)
(* has stored is doomed, or is known to be late.                           *)
Committing(r) == req[r] # Nothing /\ req[r].kind = "purge" /\ req[r].step = "commit"
NoneOverlooked ==
    /\ DeletedIsPurged
    /\ \A r \in Requests : Committing(r) =>
          \A a \in Assets : Stored(a) /\ row[a].owner \in Family(req[r].owner) =>
              a \in req[r].doomed \cup late

LEMMA FacesAreNeverLate ==
  ASSUME TypeOK, InShape, NEW m \in Members PROVE ~LateNow(m)
  <1>1. m \notin Posts \cup Replies
    BY OwnersAssumption
  <1>2. ASSUME NEW r \in Requests, req[r] # Nothing, req[r].kind = "purge" PROVE m \notin Family(req[r].owner)
    BY <1>1, <1>2, RequestInShape DEF Family, Shaped
  <1> QED
    BY <1>1, <1>2 DEF LateNow, IsGone, Purging, TypeOK

LEMMA OthersKeepNoneOverlooked ==
  ASSUME TypeOK, InShape, NoneOverlooked, gone' = gone, late \subseteq late',
         \A p \in Requests : Committing(p)' => Committing(p) /\ req'[p] = req[p],
         \A a \in Assets : Stored(a)' =>
            \/ Stored(a) /\ row'[a].owner = row[a].owner
            \/ LateNow(row'[a].owner) => a \in late'
  PROVE  NoneOverlooked'
  <1>1. \A o : IsGone(o)' <=> IsGone(o)
    BY DEF IsGone
  <1>2. ASSUME NEW a \in Assets, Stored(a)', IsGone(row[a].owner)' PROVE a \in late'
    BY <1>1, <1>2 DEF NoneOverlooked, DeletedIsPurged, LateNow
  <1>3. ASSUME NEW p \in Requests, Committing(p)', NEW a \in Assets, Stored(a)',
               row'[a].owner \in Family(req'[p].owner)
        PROVE  a \in req'[p].doomed \cup late'
    <2>1. Committing(p) /\ req'[p] = req[p]
      BY <1>3
    <2>2. CASE Stored(a) /\ row'[a].owner = row[a].owner
      BY <1>3, <2>1, <2>2 DEF NoneOverlooked
    <2>3. Purging(row'[a].owner)
      BY <1>3, <2>1 DEF Purging, Committing
    <2> QED
      BY <1>3, <2>2, <2>3 DEF LateNow
  <1> QED
    BY <1>2, <1>3 DEF NoneOverlooked, DeletedIsPurged

LEMMA StepKeepsNoneOverlooked ==
  ASSUME TypeOK, InShape, NoneOverlooked, [Next]_vars
  PROVE  NoneOverlooked'
  <1> USE NothingIsNoRecord
  <1>1. ASSUME NEW r \in Requests, Step(r, req'[r]), ~Committing(r)'
        PROVE  \A p \in Requests : Committing(p)' => Committing(p) /\ req'[p] = req[p]
    BY <1>1 DEF Committing, Step, TypeOK
  <1>2. ASSUME NEW r \in Requests, Step(r, req'[r]), ~Committing(r)', UNCHANGED <<gone, row, late>>
        PROVE  NoneOverlooked'
    BY <1>1, <1>2, OthersKeepNoneOverlooked DEF Stored
  <1>3. ASSUME NEW r \in Requests, Start(r) PROVE NoneOverlooked'
    <2>1. PICK kind \in {"compose", "reply", "purge", "face"}, o \in Owners, pics \in SUBSET Assets,
            step \in {"defer", "file", "look"} : Opens(r, kind, o, pics, step)
      BY <1>3, StartOpens
    <2>2. req'[r].step = step /\ Step(r, req'[r])
      BY <2>1, NewRequestFits DEF Opens, Step, TypeOK
    <2> QED
      BY <1>2, <2>1, <2>2 DEF Opens, Committing
  <1>4. ASSUME NEW r \in Requests, DeferPreview(r) \/ DeferTranscode(r) PROVE NoneOverlooked'
    BY <1>2, <1>4, GoesOnDoes DEF Committing
  <1>5. ASSUME NEW r \in Requests, NEW a \in Assets, WriteFile(r, a) PROVE NoneOverlooked'
    BY <1>2, <1>5, WriteFileDoes DEF Committing
  <1>6. ASSUME NEW r \in Requests, WriteRow(r) PROVE NoneOverlooked'
    <2>1. /\ Step(r, req'[r]) /\ ~Committing(r)' /\ gone' = gone /\ late \subseteq late'
          /\ row' = [row EXCEPT ![req[r].asset] = NewRow(req[r].asset, req[r].owner)]
          /\ LateNow(req[r].owner) => req[r].asset \in late'
      BY <1>6, WriteRowDoes DEF Committing
    <2>2. ASSUME NEW a \in Assets, Stored(a)'
          PROVE  \/ Stored(a) /\ row'[a].owner = row[a].owner
                 \/ LateNow(row'[a].owner) => a \in late'
      BY <2>1, <2>2 DEF Stored, TypeOK, NewRow
    <2> QED
      BY <1>1, <2>1, <2>2, OthersKeepNoneOverlooked
  <1>7. ASSUME NEW r \in Requests, CommitReply(r) PROVE NoneOverlooked'
    <2>1. /\ Step(r, req'[r]) /\ ~Committing(r)' /\ gone' = gone /\ late \subseteq late'
          /\ row' = [a \in Assets |-> IF a \in req[r].made THEN NewRow(a, req[r].owner) ELSE row[a]]
          /\ LateNow(req[r].owner) => req[r].made \subseteq late'
      BY <1>7, CommitReplyDoes DEF Committing
    <2>2. ASSUME NEW a \in Assets, Stored(a)'
          PROVE  \/ Stored(a) /\ row'[a].owner = row[a].owner
                 \/ LateNow(row'[a].owner) => a \in late'
      BY <2>1, <2>2 DEF Stored, NewRow
    <2> QED
      BY <1>1, <2>1, <2>2, OthersKeepNoneOverlooked
  <1>8. ASSUME NEW r \in Requests, Look(r) PROVE NoneOverlooked'
    <2>1. /\ Step(r, req'[r]) /\ UNCHANGED <<gone, row, late>>
          /\ req'[r].doomed = MediaOf(req'[r].owner)
      BY <1>8, LookDoes
    <2>2. \A p \in Requests : p # r => req'[p] = req[p]
      BY <2>1 DEF Step, TypeOK
    <2> QED
      BY <2>1, <2>2 DEF NoneOverlooked, DeletedIsPurged, Committing, MediaOf, Stored, IsGone
  <1>9. ASSUME NEW r \in Requests, Purge(r) PROVE NoneOverlooked'
    <2>1. /\ req[r].owner \in Posts \cup Replies /\ Committing(r) /\ Step(r, req'[r]) /\ ~Committing(r)'
          /\ gone' = gone \cup {req[r].owner} /\ late' = late
          /\ row' = [a \in Assets |-> IF a \in req[r].doomed THEN Nothing ELSE row[a]]
      BY <1>9, PurgeDoes DEF Committing
    <2>2. ASSUME NEW a \in Assets, Stored(a)'
          PROVE  Stored(a) /\ row'[a] = row[a] /\ a \notin req[r].doomed
      BY <2>1, <2>2 DEF Stored
    <2>3. ASSUME NEW o, IsGone(o)' PROVE IsGone(o) \/ o \in Family(req[r].owner)
      BY <2>1, <2>3 DEF IsGone, Family
    <2>4. ASSUME NEW a \in Assets, Stored(a)', IsGone(row[a].owner)' PROVE a \in late'
      <3>1. Stored(a) /\ row'[a] = row[a] /\ a \notin req[r].doomed
        BY <2>2, <2>4
      <3>2. IsGone(row[a].owner) \/ row[a].owner \in Family(req[r].owner)
        BY <2>3, <2>4, <3>1
      <3> QED
        BY <2>1, <3>1, <3>2 DEF NoneOverlooked, DeletedIsPurged
    <2>5. \A p \in Requests : Committing(p)' => Committing(p) /\ req'[p] = req[p]
      BY <1>1, <2>1
    <2> QED
      BY <2>1, <2>2, <2>4, <2>5 DEF NoneOverlooked, DeletedIsPurged
  <1>10. ASSUME NEW r \in Requests, Unlink(r) PROVE NoneOverlooked'
    BY <1>2, <1>10, UnlinkDoes DEF Committing
  <1>11. ASSUME NEW r \in Requests, LookFace(r) PROVE NoneOverlooked'
    BY <1>2, <1>11, LookFaceDoes DEF Committing
  <1>12. ASSUME NEW r \in Requests, CommitFace(r) PROVE NoneOverlooked'
    <2>1. /\ req[r].owner \in Members /\ Step(r, req'[r]) /\ ~Committing(r)' /\ UNCHANGED <<gone, late>>
          /\ row' = [a \in Assets |->
                IF a \in req[r].made THEN ImageRow(a, req[r].owner)
                ELSE IF a \in req[r].doomed THEN Nothing ELSE row[a]]
      BY <1>12, CommitFaceDoes DEF Committing
    <2>2. ASSUME NEW a \in Assets, Stored(a)'
          PROVE  \/ Stored(a) /\ row'[a].owner = row[a].owner
                 \/ LateNow(row'[a].owner) => a \in late'
      <3>1. ~LateNow(req[r].owner)
        BY <2>1, FacesAreNeverLate
      <3> QED
        BY <2>1, <2>2, <3>1 DEF Stored, ImageRow
    <2> QED
      BY <1>1, <2>1, <2>2, OthersKeepNoneOverlooked
  <1>13. ASSUME NEW r \in Requests, FailRequest(r) PROVE NoneOverlooked'
    BY <1>2, <1>13, FailRequestDoes DEF Committing
  <1>14. CASE UNCHANGED <<req, gone, row, late>>
    BY <1>14 DEF NoneOverlooked, DeletedIsPurged, Committing, Stored, IsGone
  <1>15. CASE Refuse \/ SaveRendition
    <2>1. /\ worker.job \in Assets /\ UNCHANGED <<req, gone, late>>
          /\ \/ row' = [row EXCEPT ![worker.job] =
                   IF row[worker.job] = Nothing THEN Nothing ELSE Refused(row[worker.job])]
             \/ row' = [row EXCEPT ![worker.job] =
                   IF row[worker.job] = Nothing THEN Nothing ELSE Rendered(row[worker.job])]
      BY <1>15 DEF Refuse, SaveRendition, Transcoding
    <2>2. ASSUME NEW a \in Assets, Stored(a)' PROVE Stored(a) /\ row'[a].owner = row[a].owner
      <3>1. row[a] \in Row \cup {Nothing}
        BY DEF TypeOK
      <3> QED
        BY <2>1, <2>2, <3>1, RowsChange DEF Stored, TypeOK
    <2> QED
      BY <2>1, <2>2, OthersKeepNoneOverlooked DEF Committing
  <1>16. CASE SaveImage
    <2>1. /\ UNCHANGED <<req, gone>> /\ late \subseteq late'
          /\ row' = [row EXCEPT ![worker.asset] = ImageRow(worker.asset, worker.job)]
          /\ LateNow(worker.job) => worker.asset \in late'
      BY <1>16 DEF SaveImage
    <2>2. ASSUME NEW a \in Assets, Stored(a)'
          PROVE  \/ Stored(a) /\ row'[a].owner = row[a].owner
                 \/ LateNow(row'[a].owner) => a \in late'
      BY <2>1, <2>2 DEF Stored, TypeOK, ImageRow
    <2> QED
      BY <2>1, <2>2, OthersKeepNoneOverlooked DEF Committing
  <1> QED
    BY <1>3, <1>4, <1>5, <1>6, <1>7, <1>8, <1>9, <1>10, <1>11, <1>12, <1>13, <1>14, <1>15, <1>16
    DEF Next, Continue, Work, Take, Recheck, WriteRendition, FetchNothing, RehostImage, CrashWorker, vars

(* Of a deleted post, of its replies and of a deleted reply nothing stays  *)
(* stored but what was attached while the deletion ran or later.           *)
THEOREM DeletionsPurge == Spec => []DeletedIsPurged
  <1>1. Init => NoneOverlooked
    BY DEF Init, NoneOverlooked, DeletedIsPurged, Committing, Stored
  <1>2. TypeOK /\ InShape /\ NoneOverlooked /\ [Next]_vars => NoneOverlooked'
    BY StepKeepsNoneOverlooked
  <1>3. NoneOverlooked => DeletedIsPurged
    BY DEF NoneOverlooked
  <1> QED
    BY <1>1, <1>2, <1>3, ShapeHolds, PTL DEF Spec

-----------------------------------------------------------------------------
(* While nothing has crashed and no purge was overtaken: every file is a   *)
(* row's, or somebody's who is at work; and a purge's names are complete.  *)
Unlinking(r) == IF req[r] # Nothing /\ req[r].step = "unlink" THEN req[r].names ELSE {}
OfWorker ==
    (AheadOfWorker \X {"image"}) \cup (IF Rendering THEN {<<worker.job, "video">>} ELSE {})
Explained(f) == f \in Named \/ f \in OfWorker \/ \E r \in Requests : f \in FilesAhead(r) \cup Unlinking(r)
Complete ==
    \A r \in Requests : req[r] # Nothing /\ req[r].step = "commit" =>
        \A a \in req[r].doomed : Stored(a) => {a} \X row[a].parts \subseteq req[r].names
Tallied == crashes = 0 /\ ~raced => (\A f \in disk : Explained(f)) /\ Complete

LEMMA RequestKeepsTally ==
  ASSUME TypeOK, InShape, \A f \in disk : Explained(f), NEW r \in Requests, Step(r, req'[r]),
         worker' = worker,
         \A f \in disk \cap disk' : f \in Named \cup FilesAhead(r) \cup Unlinking(r) =>
             f \in Named' \cup FilesAhead(r)' \cup Unlinking(r)',
         \A f \in disk' : f \in disk \/ f \in FilesAhead(r)'
  PROVE  \A f \in disk' : Explained(f)'
  <1>1. \A p \in Requests : p # r => req'[p] = req[p]
    BY DEF Step, TypeOK
  <1>2. \A p \in Requests : p # r => FilesAhead(p)' = FilesAhead(p) /\ Unlinking(p)' = Unlinking(p)
    BY <1>1 DEF FilesAhead, FirstPart, Unlinking
  <1>3. OfWorker' = OfWorker
    BY DEF OfWorker, AheadOfWorker, Rehosting, Rendering
  <1> QED
    BY <1>2, <1>3 DEF Explained

LEMMA RequestKeepsComplete ==
  ASSUME TypeOK, InShape, Complete, NEW r \in Requests, Step(r, req'[r]),
         \A a \in Assets : Doomed(a) /\ Stored(a)' => row'[a] = row[a],
         req'[r] # Nothing /\ req'[r].step = "commit" =>
             \A a \in req'[r].doomed : Stored(a)' => {a} \X row'[a].parts \subseteq req'[r].names
  PROVE  Complete'
  <1>1. \A p \in Requests : p # r => req'[p] = req[p]
    BY DEF Step, TypeOK
  <1>2. ASSUME NEW p \in Requests, p # r, req[p] # Nothing, req[p].step = "commit",
               NEW a \in req[p].doomed, Stored(a)'
        PROVE  {a} \X row'[a].parts \subseteq req[p].names
    <2>1. Doomed(a) /\ a \in Assets
      BY <1>2, RequestInShape DEF Doomed, Request
    <2> QED
      BY <1>2, <2>1 DEF Complete, Stored
  <1> QED
    BY <1>1, <1>2 DEF Complete

LEMMA RequestStepKeepsTally ==
  ASSUME TypeOK, InShape, Once, FilesFirst, Tallied, NEW r \in Requests, Start(r) \/ Continue(r)
  PROVE  Tallied'
  <1> USE NothingIsNoRecord
  <1> SUFFICES ASSUME crashes' = 0, ~raced' PROVE (\A f \in disk' : Explained(f)') /\ Complete'
    BY DEF Tallied
  <1>0. UNCHANGED <<crashes, raced, worker>>
    BY StartOpens DEF Opens, Continue, DeferPreview, WriteFile, WriteRow, DeferTranscode, CommitReply,
       Look, Purge, Unlink, LookFace, CommitFace
  <1>b. (\A f \in disk : Explained(f)) /\ Complete
    BY <1>0 DEF Tallied
  <1>1. CASE Start(r)
    <2>1. PICK kind \in {"compose", "reply", "purge", "face"}, o \in Owners, pics \in SUBSET Assets,
            step \in {"defer", "file", "look"} : Opens(r, kind, o, pics, step)
      BY <1>1, StartOpens
    <2>2. req'[r].step = step /\ Step(r, req'[r]) /\ req[r] = Nothing /\ UNCHANGED <<row, disk>>
      BY <2>1, NewRequestFits DEF Opens, Step, TypeOK
    <2>3. FilesAhead(r) = {} /\ Unlinking(r) = {} /\ Named' = Named
      BY <2>2 DEF FilesAhead, Unlinking, Named, Stored
    <2>4. \A f \in disk' : Explained(f)'
      BY <1>0, <1>b, <2>2, <2>3, RequestKeepsTally
    <2>5. Complete'
      BY <1>b, <2>2, RequestKeepsComplete
    <2> QED
      BY <2>4, <2>5
  <1>2. CASE DeferPreview(r) \/ DeferTranscode(r)
    <2>1. /\ Step(r, req'[r]) /\ UNCHANGED <<row, disk>> /\ req[r] # Nothing /\ req[r].kind = "compose"
          /\ req[r].step \in {"defer", "job"} /\ Shaped(req[r])
          /\ req'[r] # Nothing => req'[r].step = "file"
      BY <1>2, GoesOnDoes, RequestInShape
    <2>2. FilesAhead(r) = {} /\ Unlinking(r) = {} /\ Named' = Named
      BY <2>1 DEF FilesAhead, Unlinking, Named, Stored, Shaped
    <2>3. \A f \in disk' : Explained(f)'
      BY <1>0, <1>b, <2>1, <2>2, RequestKeepsTally
    <2>4. Complete'
      BY <1>b, <2>1, RequestKeepsComplete
    <2> QED
      BY <2>3, <2>4
  <1>3. CASE \E a \in Assets : WriteFile(r, a)
    <2>1. PICK a \in Assets : WriteFile(r, a)
      BY <1>3
    <2>2. /\ req[r] # Nothing /\ req[r].kind \in {"compose", "reply"} /\ req[r].step = "file"
          /\ Step(r, req'[r]) /\ row' = row /\ Shaped(req[r])
          /\ req'[r] # Nothing => req'[r].kind = req[r].kind /\ req'[r].doomed = {}
      BY <2>1, WriteFileDoes, RequestInShape
    <2>3. Unlinking(r) = {} /\ Named \cap disk' \subseteq Named'
      BY <2>2 DEF Unlinking, Named, Stored
    <2>4. FilesAhead(r) = {<<b, FirstPart(b)>> : b \in req[r].made}
      BY <2>2 DEF FilesAhead
    <2>5. FilesAhead(r) \subseteq FilesAhead(r)' /\ \A f \in disk' : f \in disk \/ f \in FilesAhead(r)'
      <3>1. CASE /\ disk' = disk \cup {<<a, FirstPart(a)>>} /\ req'[r] # Nothing
                 /\ req[r].kind = "compose" /\ req'[r].step = "row" /\ req'[r].asset = a /\ req'[r].made = {}
        BY <2>2, <2>4, <3>1 DEF FilesAhead, FirstPart, Shaped
      <3>2. CASE /\ disk' = disk \cup {<<a, FirstPart(a)>>} /\ req'[r] # Nothing
                 /\ req[r].kind = "reply" /\ req'[r].step # "row" /\ req'[r].made = req[r].made \cup {a}
        BY <2>2, <2>4, <3>2 DEF FilesAhead, FirstPart
      <3>3. CASE /\ disk' = disk /\ req'[r] # Nothing
                 /\ req'[r].made = req[r].made /\ req'[r].step # "row"
        BY <2>2, <2>4, <3>3 DEF FilesAhead, FirstPart
      <3>4. CASE disk' = disk /\ req'[r] = Nothing
        <4>1. req[r].kind = "compose"
          BY <2>1, <2>2, <3>4, WriteFileDoes
        <4> QED
          BY <2>2, <2>4, <3>4, <4>1 DEF FilesAhead, Shaped
      <3> QED
        BY <2>1, <3>1, <3>2, <3>3, <3>4, WriteFileDoes
    <2>6. \A f \in disk' : Explained(f)'
      BY <1>0, <1>b, <2>2, <2>3, <2>5, RequestKeepsTally
    <2>7. Complete'
      BY <1>b, <2>2, RequestKeepsComplete
    <2> QED
      BY <2>6, <2>7
  <1>4. CASE WriteRow(r)
    <2>1. /\ req[r] # Nothing /\ req[r].kind = "compose" /\ req[r].step = "row" /\ Shaped(req[r])
          /\ req[r].asset \in Assets /\ Step(r, req'[r]) /\ disk' = disk
          /\ row' = [row EXCEPT ![req[r].asset] = NewRow(req[r].asset, req[r].owner)]
          /\ req'[r] # Nothing => req'[r].doomed = {}
      BY <1>4, WriteRowDoes, RequestInShape
    <2>2. Unlinking(r) = {} /\ FilesAhead(r) = {<<req[r].asset, FirstPart(req[r].asset)>>}
      BY <2>1 DEF Unlinking, FilesAhead, Shaped
    <2>3. ~Stored(req[r].asset) /\ ~Doomed(req[r].asset)
      <3>1. req[r].asset \in Ahead(r)
        BY <2>1, RequestIsAhead
      <3> QED
        BY <3>1 DEF Once
    <2>4. <<req[r].asset, FirstPart(req[r].asset)>> \in disk => <<req[r].asset, FirstPart(req[r].asset)>> \in Named'
      <3>1. row'[req[r].asset] = NewRow(req[r].asset, req[r].owner)
        BY <2>1 DEF TypeOK
      <3>2. row'[req[r].asset] \in Row
        BY <2>1, <3>1 DEF NewRow, Row, FirstPart, Parts, Shaped, Owners
      <3>3. row'[req[r].asset] # Nothing /\ FirstPart(req[r].asset) \in row'[req[r].asset].parts
        BY <3>1, <3>2 DEF NewRow
      <3> QED
        BY <2>1, <3>3 DEF Named, Stored
    <2>5. Named \subseteq Named'
      BY <2>1, <2>3 DEF Named, Stored, TypeOK
    <2>6. \A f \in disk' : Explained(f)'
      BY <1>0, <1>b, <2>1, <2>2, <2>4, <2>5, RequestKeepsTally
    <2>7. Complete'
      <3>1. \A a \in Assets : Doomed(a) => row'[a] = row[a]
        BY <2>1, <2>3 DEF TypeOK
      <3> QED
        BY <1>b, <2>1, <3>1, RequestKeepsComplete
    <2> QED
      BY <2>6, <2>7
  <1>5. CASE CommitReply(r)
    <2>1. /\ req[r] # Nothing /\ req[r].kind = "reply" /\ req[r].step = "commit" /\ Shaped(req[r])
          /\ req[r].made \in SUBSET Assets /\ req'[r] = Nothing /\ Step(r, req'[r]) /\ disk' = disk
          /\ row' = [a \in Assets |-> IF a \in req[r].made THEN NewRow(a, req[r].owner) ELSE row[a]]
      BY <1>5, CommitReplyDoes, RequestInShape
    <2>2. Unlinking(r) = {} /\ FilesAhead(r) = {<<a, FirstPart(a)>> : a \in req[r].made}
      BY <2>1 DEF Unlinking, FilesAhead
    <2>3. \A a \in req[r].made : ~Stored(a) /\ ~Doomed(a)
      <3>1. req[r].made \subseteq Ahead(r)
        BY <2>1, RequestIsAhead
      <3> QED
        BY <3>1 DEF Once
    <2>4. ASSUME NEW a \in req[r].made PROVE row'[a] # Nothing /\ FirstPart(a) \in row'[a].parts
      <3>1. row'[a] = NewRow(a, req[r].owner)
        BY <2>1, <2>4
      <3>2. NewRow(a, req[r].owner) \in Row
        BY <2>1 DEF NewRow, Row, FirstPart, Parts, Shaped, Owners
      <3> QED
        BY <3>1, <3>2 DEF NewRow
    <2>5. \A a \in req[r].made : <<a, FirstPart(a)>> \in disk => <<a, FirstPart(a)>> \in Named'
      BY <2>1, <2>4 DEF Named, Stored
    <2>6. Named \subseteq Named'
      BY <2>1, <2>3 DEF Named, Stored, TypeOK
    <2>7. \A f \in disk' : Explained(f)'
      BY <1>0, <1>b, <2>1, <2>2, <2>5, <2>6, RequestKeepsTally
    <2>8. Complete'
      <3>1. \A a \in Assets : Doomed(a) => row'[a] = row[a]
        BY <2>1, <2>3
      <3> QED
        BY <1>b, <2>1, <3>1, RequestKeepsComplete
    <2> QED
      BY <2>7, <2>8
  <1>6. CASE Look(r)
    <2>1. /\ req[r] # Nothing /\ req[r].kind = "purge" /\ req[r].step = "look" /\ Shaped(req[r])
          /\ Step(r, req'[r]) /\ UNCHANGED <<row, disk>>
          /\ req'[r].doomed = MediaOf(req[r].owner) /\ req'[r].names = FilesOf(MediaOf(req[r].owner))
      BY <1>6, LookDoes, RequestInShape
    <2>2. Unlinking(r) = {} /\ FilesAhead(r) = {} /\ Named' = Named
      BY <2>1 DEF Unlinking, FilesAhead, Shaped, Named, Stored
    <2>3. \A f \in disk' : Explained(f)'
      BY <1>0, <1>b, <2>1, <2>2, RequestKeepsTally
    <2>4. Complete'
      <3>1. \A a \in req'[r].doomed : {a} \X row'[a].parts \subseteq req'[r].names
        BY <2>1 DEF FilesOf
      <3> QED
        BY <1>b, <2>1, <3>1, RequestKeepsComplete
    <2> QED
      BY <2>3, <2>4
  <1>7. CASE Purge(r)
    <2>1. /\ req[r] # Nothing /\ req[r].kind = "purge" /\ req[r].step = "commit" /\ Shaped(req[r])
          /\ Step(r, req'[r]) /\ disk' = disk /\ req'[r] # Nothing
          /\ req'[r].names = req[r].names /\ req'[r].step = "unlink"
          /\ row' = [a \in Assets |-> IF a \in req[r].doomed THEN Nothing ELSE row[a]]
      BY <1>7, PurgeDoes, RequestInShape
    <2>2. Unlinking(r) = {} /\ FilesAhead(r) = {} /\ Unlinking(r)' = req[r].names
      BY <2>1 DEF Unlinking, FilesAhead, Shaped
    <2>3. ASSUME NEW f \in Named PROVE f \in Named' \/ f \in req[r].names
      <3>1. PICK a \in Assets, p \in Parts : f = <<a, p>>
        BY DEF Named, TypeOK
      <3>2. Stored(a) /\ p \in row[a].parts /\ f \in disk
        BY <2>3, <3>1 DEF Named
      <3>3. CASE a \in req[r].doomed
        BY <1>b, <2>1, <3>1, <3>2, <3>3 DEF Complete
      <3>4. CASE a \notin req[r].doomed
        BY <2>1, <3>1, <3>2, <3>4 DEF Named, Stored
      <3> QED
        BY <3>3, <3>4
    <2>4. \A f \in disk' : Explained(f)'
      BY <1>0, <1>b, <2>1, <2>2, <2>3, RequestKeepsTally
    <2>5. Complete'
      <3>1. \A a \in Assets : Stored(a)' => row'[a] = row[a]
        BY <2>1 DEF Stored
      <3> QED
        BY <1>b, <2>1, <3>1, RequestKeepsComplete
    <2> QED
      BY <2>4, <2>5
  <1>8. CASE Unlink(r)
    <2>1. /\ req[r] # Nothing /\ req[r].step = "unlink" /\ Shaped(req[r]) /\ req[r].made = {}
          /\ Step(r, req'[r]) /\ disk' = disk \ req[r].names /\ row' = row /\ req'[r] = Nothing
      BY <1>8, UnlinkDoes, RequestInShape
    <2>2. Unlinking(r) \cap disk' = {} /\ FilesAhead(r) = {} /\ Named \cap disk' \subseteq Named'
      BY <2>1 DEF Unlinking, FilesAhead, Named, Stored
    <2>3. \A f \in disk' : Explained(f)'
      BY <1>0, <1>b, <2>1, <2>2, RequestKeepsTally
    <2>4. Complete'
      BY <1>b, <2>1, RequestKeepsComplete
    <2> QED
      BY <2>3, <2>4
  <1>9. CASE LookFace(r)
    <2>1. /\ req[r] # Nothing /\ req[r].kind = "face" /\ req[r].step = "look" /\ req[r].made = {}
          /\ Step(r, req'[r]) /\ row' = row /\ req'[r] # Nothing /\ req'[r].kind = "face"
          /\ req'[r].made = req[r].todo /\ disk' = disk \cup (req[r].todo \X {"image"})
          /\ req'[r].doomed = MediaOf(req[r].owner) /\ req'[r].names = FilesOf(MediaOf(req[r].owner))
      BY <1>9, LookFaceDoes
    <2>2. /\ Unlinking(r) = {} /\ FilesAhead(r) = {} /\ Named \subseteq Named'
          /\ FilesAhead(r)' = req[r].todo \X {"image"}
      BY <2>1 DEF Unlinking, FilesAhead, Named, Stored
    <2>3. \A f \in disk' : Explained(f)'
      BY <1>0, <1>b, <2>1, <2>2, RequestKeepsTally
    <2>4. Complete'
      <3>1. \A a \in req'[r].doomed : {a} \X row'[a].parts \subseteq req'[r].names
        BY <2>1 DEF FilesOf
      <3> QED
        BY <1>b, <2>1, <3>1, RequestKeepsComplete
    <2> QED
      BY <2>3, <2>4
  <1>10. CASE CommitFace(r)
    <2>1. /\ req[r] # Nothing /\ req[r].kind = "face" /\ req[r].step = "commit"
          /\ req[r].owner \in Members /\ req[r].made \in SUBSET Assets
          /\ Step(r, req'[r]) /\ disk' = disk /\ req'[r] # Nothing
          /\ req'[r].names = req[r].names /\ req'[r].step = "unlink"
          /\ row' = [a \in Assets |->
                IF a \in req[r].made THEN ImageRow(a, req[r].owner)
                ELSE IF a \in req[r].doomed THEN Nothing ELSE row[a]]
      BY <1>10, CommitFaceDoes
    <2>2. Unlinking(r) = {} /\ FilesAhead(r) = req[r].made \X {"image"} /\ Unlinking(r)' = req[r].names
      BY <2>1 DEF Unlinking, FilesAhead
    <2>3. \A a \in req[r].made : ~Stored(a) /\ ~Doomed(a)
      <3>1. req[r].made \subseteq Ahead(r)
        BY <2>1, RequestIsAhead
      <3> QED
        BY <3>1 DEF Once
    <2>4. ASSUME NEW a \in req[r].made PROVE row'[a] # Nothing /\ "image" \in row'[a].parts
      <3>1. row'[a] = ImageRow(a, req[r].owner)
        BY <2>1, <2>4
      <3>2. ImageRow(a, req[r].owner) \in Row
        BY <2>1 DEF ImageRow, Row, Parts, Owners
      <3> QED
        BY <3>1, <3>2 DEF ImageRow
    <2>5. \A a \in req[r].made : <<a, "image">> \in disk => <<a, "image">> \in Named'
      BY <2>1, <2>4 DEF Named, Stored
    <2>6. ASSUME NEW f \in Named PROVE f \in Named' \/ f \in req[r].names
      <3>1. PICK a \in Assets, p \in Parts : f = <<a, p>>
        BY DEF Named, TypeOK
      <3>2. Stored(a) /\ p \in row[a].parts /\ f \in disk /\ a \notin req[r].made
        BY <2>3, <2>6, <3>1 DEF Named
      <3>3. CASE a \in req[r].doomed
        BY <1>b, <2>1, <3>1, <3>2, <3>3 DEF Complete
      <3>4. CASE a \notin req[r].doomed
        BY <2>1, <3>1, <3>2, <3>4 DEF Named, Stored
      <3> QED
        BY <3>3, <3>4
    <2>7. \A f \in disk' : Explained(f)'
      BY <1>0, <1>b, <2>1, <2>2, <2>5, <2>6, RequestKeepsTally
    <2>8. Complete'
      <3>1. \A a \in Assets : Doomed(a) /\ Stored(a)' => row'[a] = row[a]
        BY <2>1, <2>3 DEF Stored
      <3> QED
        BY <1>b, <2>1, <3>1, RequestKeepsComplete
    <2> QED
      BY <2>7, <2>8
  <1> QED
    BY <1>1, <1>2, <1>3, <1>4, <1>5, <1>6, <1>7, <1>8, <1>9, <1>10 DEF Continue

-----------------------------------------------------------------------------
LEMMA WorkKeepsTally ==
  ASSUME TypeOK, InShape, Once, FilesFirst, Tallied, Work
  PROVE  Tallied'
  <1> USE NothingIsNoRecord
  <1> SUFFICES ASSUME crashes' = 0, ~raced' PROVE (\A f \in disk' : Explained(f)') /\ Complete'
    BY DEF Tallied
  <1>0. req' = req /\ Assets \cap Posts = {}
    BY WorkFits, AssetsAssumption DEF Owners
  <1>b. (\A f \in disk : Explained(f)) /\ Complete
    BY DEF Tallied, Work, Take, Refuse, Recheck, WriteRendition, SaveRendition, FetchNothing, RehostImage,
       SaveImage
  <1>c. \A r \in Requests : FilesAhead(r)' = FilesAhead(r) /\ Unlinking(r)' = Unlinking(r)
    BY <1>0 DEF FilesAhead, FirstPart, Unlinking
  <1>1. ASSUME \A a \in Assets : Doomed(a) /\ Stored(a)' => Stored(a) /\ row'[a].parts = row[a].parts
        PROVE  Complete'
    <2> SUFFICES ASSUME NEW r \in Requests, req[r] # Nothing, req[r].step = "commit",
                        NEW a \in req[r].doomed, Stored(a)'
                 PROVE  {a} \X row'[a].parts \subseteq req[r].names
      BY <1>0 DEF Complete
    <2>1. a \in Assets /\ Doomed(a)
      BY RequestInShape DEF Doomed, Request
    <2> QED
      BY <1>1, <1>b, <2>1 DEF Complete
  <1>2. ASSUME Named \subseteq Named', \A f \in disk' : f \in disk \/ f \in OfWorker',
               \A f \in OfWorker \cap disk' : f \in OfWorker' \cup Named'
        PROVE  \A f \in disk' : Explained(f)'
    BY <1>b, <1>c, <1>2 DEF Explained
  <1>3. ASSUME row' = row, disk' = disk, OfWorker = {}
        PROVE  (\A f \in disk' : Explained(f)') /\ Complete'
    BY <1>1, <1>2, <1>3 DEF Named, Stored
  <1>4. ASSUME worker = Nothing \/ worker.step # "save" PROVE OfWorker = {}
    BY <1>4 DEF OfWorker, AheadOfWorker, Rehosting, Rendering
  <1>5. ASSUME NEW j \in Assets \cup Posts, Take(j)
        PROVE  (\A f \in disk' : Explained(f)') /\ Complete'
    BY <1>3, <1>4, <1>5 DEF Take
  <1>6. CASE Refuse
    <2>1. /\ OfWorker = {} /\ disk' = disk /\ worker.job \in Assets
          /\ row' = [row EXCEPT ![worker.job] =
                IF row[worker.job] = Nothing THEN Nothing ELSE Refused(row[worker.job])]
      BY <1>4, <1>6 DEF Refuse, Transcoding, Working
    <2>2. ASSUME NEW a \in Assets
          PROVE  /\ Stored(a)' <=> Stored(a)
                 /\ Stored(a) => row'[a].parts = row[a].parts
      <3>1. row[a] \in Row \cup {Nothing}
        BY DEF TypeOK
      <3> QED
        BY <2>1, <3>1, RowsChange DEF Stored, TypeOK
    <2>3. Named' = Named
      BY <2>1, <2>2 DEF Named, TypeOK
    <2> QED
      BY <1>1, <1>2, <2>1, <2>2, <2>3
  <1>7. CASE Recheck \/ FetchNothing
    BY <1>3, <1>4, <1>7 DEF Recheck, FetchNothing, Transcoding, Working
  <1>8. CASE WriteRendition
    <2>1. /\ OfWorker = {} /\ row' = row /\ disk' = disk \cup {<<worker.job, "video">>}
          /\ worker \in Job /\ worker.job \in Assets /\ worker' = [worker EXCEPT !.step = "save"]
      BY <1>4, <1>8 DEF WriteRendition, Transcoding, Working, TypeOK
    <2>2. worker' \in Job /\ worker'.step = "save" /\ worker'.job = worker.job
      BY <2>1 DEF Job
    <2>3. <<worker.job, "video">> \in OfWorker'
      BY <2>1, <2>2 DEF OfWorker, Rendering
    <2>4. Named \subseteq Named'
      BY <2>1 DEF Named, Stored
    <2> QED
      BY <1>1, <1>2, <2>1, <2>3, <2>4 DEF Stored
  <1>9. CASE SaveRendition
    <2>1. /\ worker.job \in Assets /\ disk' = disk /\ Stored(worker.job) /\ ~Doomed(worker.job)
          /\ row' = [row EXCEPT ![worker.job] =
                IF row[worker.job] = Nothing THEN Nothing ELSE Rendered(row[worker.job])]
      BY <1>9 DEF SaveRendition, Transcoding, Working, Doomed
    <2>2. OfWorker \subseteq {<<worker.job, "video">>}
      BY <1>0, <2>1 DEF OfWorker, AheadOfWorker, Rehosting
    <2>3. row[worker.job] \in Row /\ row'[worker.job] = Rendered(row[worker.job])
      BY <2>1 DEF TypeOK, Stored
    <2>4. \A a \in Assets : a # worker.job => row'[a] = row[a]
      BY <2>1 DEF TypeOK
    <2>5. <<worker.job, "video">> \in disk => <<worker.job, "video">> \in Named'
      BY <2>1, <2>3, RowsChange DEF Named, Stored
    <2>6. Named \subseteq Named'
      <3> SUFFICES ASSUME NEW a \in Assets, NEW p \in Parts, <<a, p>> \in Named PROVE <<a, p>> \in Named'
        BY DEF Named, TypeOK
      <3>1. Stored(a) /\ p \in row[a].parts /\ <<a, p>> \in disk
        BY DEF Named
      <3>2. row'[a] # Nothing /\ p \in row'[a].parts
        BY <2>3, <2>4, <3>1, RowsChange DEF Stored
      <3> QED
        BY <2>1, <3>1, <3>2 DEF Named, Stored
    <2>7. \A a \in Assets : Doomed(a) => row'[a] = row[a]
      BY <2>1, <2>4
    <2> QED
      BY <1>1, <1>2, <2>1, <2>2, <2>5, <2>6, <2>7 DEF Stored
  <1>10. ASSUME NEW a \in Assets, RehostImage(a)
         PROVE  (\A f \in disk' : Explained(f)') /\ Complete'
    <2>1. /\ OfWorker = {} /\ row' = row /\ disk' = disk \cup {<<a, "image">>}
          /\ worker \in Job /\ worker.job \in Posts /\ worker' = [worker EXCEPT !.step = "save", !.asset = a]
      BY <1>4, <1>10 DEF RehostImage, Working, TypeOK
    <2>2. worker' \in Job /\ worker'.step = "save" /\ worker'.job = worker.job /\ worker'.asset = a
      BY <2>1 DEF Job
    <2>3. <<a, "image">> \in OfWorker'
      BY <2>1, <2>2 DEF OfWorker, AheadOfWorker, Rehosting
    <2>4. Named \subseteq Named'
      BY <2>1 DEF Named, Stored
    <2> QED
      BY <1>1, <1>2, <2>1, <2>3, <2>4 DEF Stored
  <1>11. CASE SaveImage
    <2>1. /\ Rehosting /\ worker.job \in Posts /\ worker.asset \in Assets /\ disk' = disk
          /\ row' = [row EXCEPT ![worker.asset] = ImageRow(worker.asset, worker.job)]
      BY <1>11 DEF SaveImage, Working, Rehosting, InShape
    <2>2. OfWorker = {<<worker.asset, "image">>}
      BY <1>0, <2>1 DEF OfWorker, AheadOfWorker, Rendering
    <2>3. ~Stored(worker.asset) /\ ~Doomed(worker.asset)
      BY <2>1 DEF Once, AheadOfWorker
    <2>4. row'[worker.asset] = ImageRow(worker.asset, worker.job) /\ ImageRow(worker.asset, worker.job) \in Row
      BY <2>1 DEF TypeOK, ImageRow, Row, Parts, Owners
    <2>5. <<worker.asset, "image">> \in disk => <<worker.asset, "image">> \in Named'
      BY <2>1, <2>4 DEF Named, Stored, ImageRow
    <2>6. Named \subseteq Named'
      BY <2>1, <2>3 DEF Named, Stored, TypeOK
    <2>7. \A a \in Assets : Doomed(a) => row'[a] = row[a]
      BY <2>1, <2>3 DEF TypeOK
    <2> QED
      BY <1>1, <1>2, <2>1, <2>2, <2>5, <2>6, <2>7 DEF Stored
  <1> QED
    BY <1>5, <1>6, <1>7, <1>8, <1>9, <1>10, <1>11 DEF Work

LEMMA StepKeepsTally ==
  ASSUME TypeOK, InShape, Once, FilesFirst, Tallied, [Next]_vars
  PROVE  Tallied'
  <1>1. ASSUME NEW r \in Requests, FailRequest(r) PROVE Tallied'
    <2>1. crashes' # 0
      BY <1>1, FailRequestDoes DEF TypeOK
    <2> QED
      BY <2>1 DEF Tallied
  <1>2. CASE CrashWorker
    <2>1. crashes' # 0
      BY <1>2 DEF CrashWorker, TypeOK
    <2> QED
      BY <2>1 DEF Tallied
  <1>3. CASE UNCHANGED vars
    BY <1>3 DEF vars, Tallied, Explained, Complete, Named, OfWorker, AheadOfWorker, Rehosting, Rendering,
       FilesAhead, FirstPart, Unlinking, Stored
  <1> QED
    BY <1>1, <1>2, <1>3, RequestStepKeepsTally, WorkKeepsTally DEF Next

(* No committed row without its files, ever; and with nothing under way,   *)
(* no crash and no purge overtaken, no file without its row.               *)
THEOREM FilesAgreeWithRows == Spec => []FilesAndRows
  <1>1. Init => Backed /\ Tallied
    BY DEF Init, Backed, Rendering, Stored, Tallied, Complete
  <1>2. TypeOK /\ InShape /\ Once /\ FilesFirst /\ Backed /\ [Next]_vars => Backed'
    BY StepKeepsBacked
  <1>3. TypeOK /\ InShape /\ Once /\ FilesFirst /\ Tallied /\ [Next]_vars => Tallied'
    BY StepKeepsTally
  <1>4. Backed /\ Tallied => FilesAndRows
    BY DEF Backed, Tallied, FilesAndRows, Quiet, Idle, Explained, Named, OfWorker, AheadOfWorker, Rehosting,
       Rendering, FilesAhead, Unlinking
  <1> QED
    BY <1>1, <1>2, <1>3, <1>4, OnceHolds, PTL DEF Spec
=============================================================================
