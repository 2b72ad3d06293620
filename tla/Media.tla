------------------------------- MODULE Media -------------------------------
(***************************************************************************)
(* Stored pictures and clips (core/media.py), the worker that transcodes   *)
(* clips (core/transcoding.py) and fetches link previews                   *)
(* (core/link_preview.py, core/tasks.py), and the requests that attach and *)
(* purge them (core/feed_views.py, commenting.py, moderation.py,           *)
(* profile_views.py).                                                      *)
(*                                                                         *)
(* Rows live in the database and files on a volume: a row commits or rolls *)
(* back, a file is there from the moment it is written.  The composer runs *)
(* outside a transaction and commits row by row; every other request is    *)
(* one transaction.  The one worker takes one job at a time; a job that    *)
(* was running when it died is not run again.                              *)
(***************************************************************************)
EXTENDS Naturals, FiniteSets

CONSTANTS
    Posts, Replies, Members,  \* whatever may carry media; a member, a face
    ReplyTo,                  \* the post of each reply
    Assets,                   \* uploads and preview images, each one asset
    Requests,                 \* slots for requests in flight
    Clips,                    \* those a post or reply carries as clips
    MaxCrashes,               \* bound on the crashes and failed requests
    Nothing                   \* no row, an idle slot, an idle worker

Owners == Posts \cup Replies \cup Members

ASSUME OwnersAssumption ==
    ReplyTo \in [Replies -> Posts] /\ Posts \cap Replies = {}
        /\ Members \cap (Posts \cup Replies) = {}
ASSUME AssetsAssumption ==
    IsFiniteSet(Assets) /\ Clips \subseteq Assets /\ Assets \cap Owners = {}
ASSUME BoundsAssumption == MaxCrashes \in Nat

VARIABLES
    live,      \* posts and replies committed and not deleted
    gone,      \* those deleted or taken down (deleted_at)
    row,       \* row[a]: MediaAsset, or ProfilePhoto for a face
    disk,      \* MEDIA_ROOT: pairs <<asset, part>>
    queue,     \* deferred jobs: assets to transcode, posts to preview
    worker,    \* the job the worker runs
    req,       \* req[r]: the request in slot r
    crashes,   \* history: crashes and failed requests
    raced,     \* history: a rendition was saved while its row was being purged
    late,      \* history: assets attached after a purge of their owner looked
    stranded   \* history: clips whose job was lost

vars == <<live, gone, row, disk, queue, worker, req, crashes, raced, late, stranded>>

Parts == {"image", "source", "video"}
Row == [owner : Owners, status : {"pending", "done", "failed"}, parts : SUBSET Parts]
Job == [job : Assets \cup Posts, step : {"run", "write", "save"},
        asset : Assets \cup {Nothing}]
Request ==
    [kind : {"compose", "reply", "purge", "face"}, owner : Owners,
     todo : SUBSET Assets, made : SUBSET Assets,
     asset : Assets \cup {Nothing},
     step : {"defer", "file", "row", "job", "look", "commit", "unlink"},
     doomed : SUBSET Assets, names : SUBSET (Assets \X Parts)]
ASSUME NothingAssumption == {Nothing} \cap (Assets \cup Row \cup Job \cup Request) = {}

TypeOK ==
    /\ live \subseteq Posts \cup Replies /\ gone \subseteq Posts \cup Replies
    /\ row \in [Assets -> Row \cup {Nothing}]
    /\ disk \subseteq Assets \X Parts
    /\ queue \subseteq Assets \cup Posts
    /\ worker \in Job \cup {Nothing}
    /\ req \in [Requests -> Request \cup {Nothing}]
    /\ crashes \in 0 .. MaxCrashes /\ raced \in BOOLEAN
    /\ late \subseteq Assets /\ stranded \subseteq Assets

Init ==
    /\ live = {} /\ gone = {}
    /\ row = [a \in Assets |-> Nothing]
    /\ disk = {} /\ queue = {} /\ worker = Nothing
    /\ req = [r \in Requests |-> Nothing]
    /\ crashes = 0 /\ raced = FALSE /\ late = {} /\ stranded = {}

-----------------------------------------------------------------------------
Stored(a) == row[a] # Nothing
Named == {f \in disk : Stored(f[1]) /\ f[2] \in row[f[1]].parts}
FirstPart(a) == IF a \in Clips THEN "source" ELSE "image"
NewRow(a, o) ==
    [owner |-> o, parts |-> {FirstPart(a)},
     status |-> IF a \in Clips THEN "pending" ELSE "done"]
ImageRow(a, o) == [owner |-> o, parts |-> {"image"}, status |-> "done"]

(* An asset nobody has used: its token names its files.                     *)
Unused(a) ==
    /\ ~Stored(a) /\ a \notin late /\ \A p \in Parts : <<a, p>> \notin disk
    /\ a \notin stranded /\ a \notin queue
    /\ \A r \in Requests : req[r] # Nothing =>
           a \notin req[r].todo \cup req[r].made \cup req[r].doomed
    /\ worker # Nothing => worker.asset # a /\ worker.job # a

(* What a purge of o takes: its own media and, of a post, its replies'.     *)
Family_OwnOnly(o) == {o}             \* mutation: the replies' media are forgotten
Family(o) == {o} \cup {c \in Replies : ReplyTo[c] = o}
MediaOf(o) == {a \in Assets : Stored(a) /\ row[a].owner \in Family(o)}

(* A purge of o, or of its post, has looked and may not see what comes now. *)
Purging(o) ==
    \E r \in Requests : req[r] # Nothing /\ req[r].kind = "purge"
        /\ req[r].step \in {"commit", "unlink"} /\ o \in Family(req[r].owner)
IsGone(o) == o \in gone \/ (o \in Replies /\ ReplyTo[o] \in gone)
LateNow(o) == IsGone(o) \/ Purging(o)

Idle(r) == req[r] = Nothing
Free(r) == Idle(r) /\ r = CHOOSE q \in Requests : Idle(q)
At(r, kind, step) == ~Idle(r) /\ req[r].kind = kind /\ req[r].step = step
Step(r, record) == req' = [req EXCEPT ![r] = record]
NewRequest(kind, o, pics, step) ==
    [kind |-> kind, owner |-> o, todo |-> pics, made |-> {},
     asset |-> Nothing, step |-> step, doomed |-> {}, names |-> {}]

(* The next of the files in hand, the commit of a reply, or done.           *)
Onward(record) ==
    IF record.todo # {} THEN [record EXCEPT !.step = "file"]
    ELSE IF record.kind = "reply" THEN [record EXCEPT !.step = "commit"] ELSE Nothing

-----------------------------------------------------------------------------
(* Posting.  create_post() commits first; the preview job, then each file,  *)
(* its row and its job follow one by one.                                   *)
Compose(r, p, pics) ==
    /\ Free(r) /\ p \in Posts /\ p \notin live \cup gone
    /\ \A a \in pics : Unused(a)
    /\ live' = live \cup {p}
    /\ Step(r, NewRequest("compose", p, pics, "defer"))
    /\ UNCHANGED <<gone, row, disk, queue, worker, crashes, raced, late, stranded>>

DeferPreview(r) ==
    /\ At(r, "compose", "defer")
    /\ queue' = queue \cup {req[r].owner}
    /\ Step(r, Onward(req[r]))
    /\ UNCHANGED <<live, gone, row, disk, worker, crashes, raced, late, stranded>>

(* ingest_photo and ingest_video: the file first.  Photos go before clips;  *)
(* one that does not decode is refused before anything is written.  A       *)
(* reply's row and job wait for its commit.                                 *)
WriteFile(r, a) ==
    /\ ~Idle(r) /\ req[r].step = "file"
    /\ a \in req[r].todo /\ (a \in Clips => req[r].todo \subseteq Clips)
    /\ LET rest == [req[r] EXCEPT !.todo = @ \ {a}]
       IN  \/ /\ disk' = disk \cup {<<a, FirstPart(a)>>}
              /\ Step(r, IF rest.kind = "reply" THEN Onward([rest EXCEPT !.made = @ \cup {a}])
                         ELSE [rest EXCEPT !.asset = a, !.step = "row"])
           \/ a \notin Clips /\ disk' = disk /\ Step(r, Onward(rest))
    /\ UNCHANGED <<live, gone, row, queue, worker, crashes, raced, late, stranded>>

(* The composer's row commits at once.                                      *)
WriteRow(r) ==
    /\ At(r, "compose", "row")
    /\ LET a == req[r].asset
       IN  /\ row' = [row EXCEPT ![a] = NewRow(a, req[r].owner)]
           /\ late' = IF LateNow(req[r].owner) THEN late \cup {a} ELSE late
           /\ Step(r, IF a \in Clips THEN [req[r] EXCEPT !.step = "job"] ELSE Onward(req[r]))
    /\ UNCHANGED <<live, gone, disk, queue, worker, crashes, raced, stranded>>

DeferTranscode(r) ==
    /\ At(r, "compose", "job")
    /\ queue' = queue \cup {req[r].asset}
    /\ Step(r, Onward(req[r]))
    /\ UNCHANGED <<live, gone, row, disk, worker, crashes, raced, late, stranded>>

Reply(r, c, pics) ==
    /\ Free(r) /\ c \in Replies /\ c \notin live \cup gone /\ ReplyTo[c] \in live
    /\ \A q \in Requests : req[q] # Nothing => req[q].owner # c
    /\ pics # {} /\ \A a \in pics : Unused(a)
    /\ Step(r, NewRequest("reply", c, pics, "file"))
    /\ UNCHANGED <<live, gone, row, disk, queue, worker, crashes, raced, late, stranded>>

CommitReply(r) ==
    /\ At(r, "reply", "commit")
    /\ LET c == req[r].owner
           made == req[r].made
       IN  /\ live' = live \cup {c}
           /\ row' = [a \in Assets |-> IF a \in made THEN NewRow(a, c) ELSE row[a]]
           /\ queue' = queue \cup (made \cap Clips)
           /\ late' = IF LateNow(c) THEN late \cup made ELSE late
    /\ Step(r, Nothing)
    /\ UNCHANGED <<gone, disk, worker, crashes, raced, stranded>>

-----------------------------------------------------------------------------
(* Deleting or taking down.  The post's own row is locked by the update of  *)
(* deleted_at before its media are read, so two deletions of a post look    *)
(* one after the other; a reply's media are read before its row is touched. *)
OpenPurge(r, o) ==
    /\ Free(r) /\ o \in live /\ (o \in Replies => ReplyTo[o] \in live)
    /\ Step(r, NewRequest("purge", o, {}, "look"))
    /\ UNCHANGED <<live, gone, row, disk, queue, worker, crashes, raced, late, stranded>>

Locked(o) ==
    \E q \in Requests : req[q] # Nothing /\ req[q].owner = o /\ req[q].step = "commit"
        /\ (o \in Posts \/ (req[q].kind = "face" /\ req[q].made # {}))
FilesOf_NoSource(assets) ==          \* mutation: the retained source is forgotten
    UNION {{a} \X (row[a].parts \ {"source"}) : a \in assets}
FilesOf(assets) == UNION {{a} \X row[a].parts : a \in assets}
UnlinkedAtOnce_All(names) == names   \* mutation: storage.delete() inside the transaction
UnlinkedAtOnce(names) == {}
Look(r) ==
    /\ At(r, "purge", "look") /\ ~Locked(req[r].owner)
    /\ LET doomed == MediaOf(req[r].owner)
       IN  /\ Step(r, [req[r] EXCEPT
                  !.doomed = doomed, !.names = FilesOf(doomed), !.step = "commit"])
           /\ disk' = disk \ UnlinkedAtOnce(FilesOf(doomed))
    /\ UNCHANGED <<live, gone, row, queue, worker, crashes, raced, late, stranded>>

(* The rows go with the transaction; the files only once it has committed.  *)
Purge(r) ==
    /\ At(r, "purge", "commit")
    /\ live' = live \ {req[r].owner} /\ gone' = gone \cup {req[r].owner}
    /\ row' = [a \in Assets |-> IF a \in req[r].doomed THEN Nothing ELSE row[a]]
    /\ Step(r, [req[r] EXCEPT !.step = "unlink"])
    /\ UNCHANGED <<disk, queue, worker, crashes, raced, late, stranded>>

Unlink(r) ==
    /\ ~Idle(r) /\ req[r].step = "unlink"
    /\ disk' = disk \ req[r].names
    /\ Step(r, Nothing)
    /\ UNCHANGED <<live, gone, row, queue, worker, crashes, raced, late, stranded>>

-----------------------------------------------------------------------------
(* A face.  Replacing one holds the member's row from the look to the       *)
(* commit; taking one away (no new asset) does not.                         *)
OpenFace(r, m, pics) ==
    /\ Free(r) /\ m \in Members /\ Cardinality(pics) <= 1
    /\ \A a \in pics : Unused(a)
    /\ pics = {} => \E a \in Assets : Stored(a) /\ row[a].owner = m
    /\ Step(r, NewRequest("face", m, pics, "look"))
    /\ UNCHANGED <<live, gone, row, disk, queue, worker, crashes, raced, late, stranded>>

LookFace(r) ==
    /\ At(r, "face", "look") /\ (req[r].todo # {} => ~Locked(req[r].owner))
    /\ LET doomed == MediaOf(req[r].owner)
           new == req[r].todo
       IN  /\ disk' = disk \cup (new \X {"image"})
           /\ Step(r, [req[r] EXCEPT
                  !.doomed = doomed, !.made = new, !.todo = {}, !.step = "commit",
                  !.names = FilesOf(doomed)])
    /\ UNCHANGED <<live, gone, row, queue, worker, crashes, raced, late, stranded>>

CommitFace(r) ==
    /\ At(r, "face", "commit")
    /\ row' = [a \in Assets |->
           IF a \in req[r].made THEN ImageRow(a, req[r].owner)
           ELSE IF a \in req[r].doomed THEN Nothing ELSE row[a]]
    /\ Step(r, [req[r] EXCEPT !.step = "unlink", !.made = {}])
    /\ UNCHANGED <<live, gone, disk, queue, worker, crashes, raced, late, stranded>>

-----------------------------------------------------------------------------
(* The worker.                                                              *)
Take(j) ==
    /\ worker = Nothing /\ j \in queue
    /\ queue' = queue \ {j}
    /\ worker' = IF (j \in Assets /\ Stored(j)) \/ (j \in Posts /\ j \in live)
                 THEN [job |-> j, step |-> "run", asset |-> Nothing]
                 ELSE Nothing
    /\ UNCHANGED <<live, gone, row, disk, req, crashes, raced, late, stranded>>

Working(step) == worker # Nothing /\ worker.step = step
Transcoding(step) == Working(step) /\ worker.job \in Assets

(* ffmpeg refuses the clip, or its source is gone: FAILED, if there is      *)
(* still a row to say it on.                                                *)
Refused_Silently(asset) == asset     \* mutation: logged, and left processing
Refused(asset) == [asset EXCEPT !.status = "failed"]
Refuse ==
    /\ Transcoding("run")
    /\ row' = [row EXCEPT ![worker.job] =
           IF @ = Nothing THEN Nothing ELSE Refused(@)]
    /\ worker' = Nothing
    /\ UNCHANGED <<live, gone, disk, queue, req, crashes, raced, late, stranded>>

(* The row is looked for again before the rendition is written.             *)
Recheck ==
    /\ Transcoding("run") /\ <<worker.job, "source">> \in disk
    /\ worker' = IF Stored(worker.job) THEN [worker EXCEPT !.step = "write"] ELSE Nothing
    /\ UNCHANGED <<live, gone, row, disk, queue, req, crashes, raced, late, stranded>>

WriteRendition ==
    /\ Transcoding("write")
    /\ disk' = disk \cup {<<worker.job, "video">>}
    /\ worker' = [worker EXCEPT !.step = "save"]
    /\ UNCHANGED <<live, gone, row, queue, req, crashes, raced, late, stranded>>

Rendered(asset) == [asset EXCEPT !.status = "done", !.parts = @ \cup {"video"}]
SaveRendition ==
    /\ Transcoding("save")
    /\ row' = [row EXCEPT ![worker.job] = IF @ = Nothing THEN Nothing ELSE Rendered(@)]
    /\ raced' = (raced \/ ~Stored(worker.job) \/ \E r \in Requests :
                  req[r] # Nothing /\ worker.job \in req[r].doomed)
    /\ worker' = Nothing
    /\ UNCHANGED <<live, gone, disk, queue, req, crashes, late, stranded>>

(* attach_to_post(): a card without a picture, or with one of its own.      *)
FetchNothing ==
    /\ Working("run") /\ worker.job \in Posts
    /\ worker' = Nothing
    /\ UNCHANGED <<live, gone, row, disk, queue, req, crashes, raced, late, stranded>>

RehostImage(a) ==
    /\ Working("run") /\ worker.job \in Posts /\ Unused(a)
    /\ disk' = disk \cup {<<a, "image">>}
    /\ worker' = [worker EXCEPT !.step = "save", !.asset = a]
    /\ UNCHANGED <<live, gone, row, queue, req, crashes, raced, late, stranded>>

SaveImage ==
    /\ Working("save") /\ worker.job \in Posts
    /\ row' = [row EXCEPT ![worker.asset] = ImageRow(worker.asset, worker.job)]
    /\ late' = IF LateNow(worker.job) THEN late \cup {worker.asset} ELSE late
    /\ worker' = Nothing
    /\ UNCHANGED <<live, gone, disk, queue, req, crashes, raced, stranded>>

-----------------------------------------------------------------------------
(* A request that fails or whose process dies: what it committed stays, its *)
(* transaction rolls back, and no on_commit callback runs.                  *)
FailRequest(r) ==
    /\ ~Idle(r) /\ crashes < MaxCrashes
    /\ crashes' = crashes + 1
    /\ stranded' = IF At(r, "compose", "job") THEN stranded \cup {req[r].asset} ELSE stranded
    /\ Step(r, Nothing)
    /\ UNCHANGED <<live, gone, row, disk, queue, worker, raced, late>>

CrashWorker ==
    /\ worker # Nothing /\ crashes < MaxCrashes
    /\ crashes' = crashes + 1
    /\ stranded' = IF worker.job \in Assets THEN stranded \cup {worker.job} ELSE stranded
    /\ worker' = Nothing
    /\ UNCHANGED <<live, gone, row, disk, queue, req, raced, late>>

Start(r) ==
    \/ \E p \in Posts, pics \in SUBSET Assets : Compose(r, p, pics)
    \/ \E c \in Replies, pics \in SUBSET Assets : Reply(r, c, pics)
    \/ \E o \in Posts \cup Replies : OpenPurge(r, o)
    \/ \E m \in Members, pics \in SUBSET Assets : OpenFace(r, m, pics)
Continue(r) ==
    \/ DeferPreview(r) \/ (\E a \in Assets : WriteFile(r, a)) \/ WriteRow(r)
    \/ DeferTranscode(r) \/ CommitReply(r)
    \/ Look(r) \/ Purge(r) \/ Unlink(r) \/ LookFace(r) \/ CommitFace(r)
Work ==
    \/ \E j \in Assets \cup Posts : Take(j)
    \/ Refuse \/ Recheck \/ WriteRendition \/ SaveRendition
    \/ FetchNothing \/ (\E a \in Assets : RehostImage(a)) \/ SaveImage

Next ==
    \/ \E r \in Requests : Start(r) \/ Continue(r) \/ FailRequest(r)
    \/ Work \/ CrashWorker

(* A request that has begun is carried on, and the worker keeps working.    *)
Spec ==
    /\ Init /\ [][Next]_vars
    /\ \A r \in Requests : WF_vars(Continue(r))
    /\ WF_vars(Work)

-----------------------------------------------------------------------------
Quiet == worker = Nothing /\ \A r \in Requests : Idle(r)

(* Whatever crashes or overlaps, a committed row never names a file that is *)
(* not there: files are written before their row and unlinked only after    *)
(* the row's deletion has committed (media._remove_after_commit).  And with *)
(* nothing under way, no crash and no purge overtaken by a rendition, every *)
(* file belongs to a row: the volume holds nothing no purge can reach any   *)
(* more (media._purge).                                                     *)
FilesAndRows ==
    /\ \A a \in Assets : Stored(a) => {a} \X row[a].parts \subseteq disk
    /\ Quiet /\ crashes = 0 /\ ~raced => disk = Named

(* Of a deleted post, of its replies and of a deleted reply no medium is    *)
(* left, but for what was attached while the deletion ran or after it       *)
(* (purge_post_media, purge_comment_media).                                 *)
DeletedIsPurged ==
    \A a \in Assets : Stored(a) /\ IsGone(row[a].owner) => a \in late

(* A clip is not left processing for ever (transcoding.py: "never a silent  *)
(* failure"), unless a crash took its job.                                  *)
Pending(a) == Stored(a) /\ row[a].status = "pending" /\ a \notin stranded
ClipsResolve == \A a \in Clips : Pending(a) ~> ~Pending(a)

(* What media.py says of a purge: a deleted post's media do not linger on   *)
(* the volume.                                                              *)
NothingLingers ==
    Quiet /\ crashes = 0 => \A a \in Assets : Stored(a) => ~IsGone(row[a].owner)
=============================================================================
