------------------------------ MODULE Staging ------------------------------
(***************************************************************************)
(* Uploads held across the composer's confirmation page                    *)
(* (core/staged_uploads.py), the draft held with them (core/drafts.py) and *)
(* the composer's requests that hold, claim and release them               *)
(* (core/feed_views.py: compose, compose_cancel, the feed).                *)
(*                                                                         *)
(* A request loads the whole session when it starts and, if it changed it, *)
(* writes the whole of its copy back after its response is made: the last  *)
(* to finish wins.  The files are written, read and unlinked at once, in   *)
(* no transaction.  What becomes of an attached picture is Media's.        *)
(***************************************************************************)
EXTENDS Naturals, FiniteSets

CONSTANTS
    Uploads,     \* the files a member ever picks, each once
    MaxDrafts,   \* bound on the handles stage() ever draws, one for every held draft
    Requests,    \* slots for the requests of one session
    TTL,         \* STAGING_TTL, in hours of the sweep
    MaxHeld,     \* MAX_SESSION_STAGED_BYTES, an upload being one unit
    MaxPerPost,  \* _MAX_PHOTOS, _MAX_VIDEOS
    MaxRaces,    \* bound on the requests that start while another runs
    MaxFailures, \* bound on the requests that end in an error page
    Nothing      \* no handle, no draft, an idle slot

\* The handles, numbered in the order in which they are drawn.
Handles == 1 .. MaxDrafts

ASSUME StagingBounds ==
    /\ MaxDrafts \in Nat /\ TTL \in Nat /\ MaxHeld \in Nat /\ MaxPerPost \in Nat
    /\ MaxRaces \in Nat /\ MaxFailures \in Nat
ASSUME UploadsAssumption == IsFiniteSet(Uploads)

VARIABLES
    held,      \* held[h]: what was staged under h and how long ago
    disk,      \* MEDIA_ROOT/staging: pairs <<h, u>>
    session,   \* the committed session: its manifest and its draft
    req,       \* req[r]: the request in slot r
    shown,     \* the handles that some page sent to the member carries
    picked,    \* history: the uploads some form has carried
    raced,     \* history: the requests that started while another ran
    failed     \* history: the requests that ended in an error page

stagingVars == <<held, disk, session, req, shown, picked, raced, failed>>

Entry == [pics : SUBSET Uploads, age : 0 .. TTL + 1]
Session == [manifest : SUBSET Handles, draft : Handles \cup {Nothing}]
Submission ==
    [kind : {"compose", "cancel", "feed"}, handle : Handles \cup {Nothing},
     copy : Session, dirty : BOOLEAN, pc : {"claim", "posted", "answer"},
     named : SUBSET Uploads, todo : SUBSET Uploads, open : Uploads \cup {Nothing},
     hand : SUBSET Uploads, got : SUBSET Uploads, told : SUBSET Uploads]

ASSUME NothingAssumption == {Nothing} \cap (Handles \cup Uploads \cup Entry \cup Submission) = {}

StagingTypeOK ==
    /\ held \in [Handles -> Entry \cup {Nothing}]
    /\ disk \subseteq Handles \X Uploads
    /\ session \in Session
    /\ req \in [Requests -> Submission \cup {Nothing}]
    /\ shown \subseteq Handles /\ picked \subseteq Uploads
    /\ raced \in 0 .. MaxRaces /\ failed \in 0 .. MaxFailures

StagingInit ==
    /\ held = [h \in Handles |-> Nothing]
    /\ disk = {}
    /\ session = [manifest |-> {}, draft |-> Nothing]
    /\ req = [r \in Requests |-> Nothing]
    /\ shown = {} /\ picked = {} /\ raced = 0 /\ failed = 0

-----------------------------------------------------------------------------
Expired_Never(h) == FALSE            \* mutation: the cutoff is never reached
Expired(h) == held[h].age > TTL
Files(h) == {h} \X held[h].pics
FilesOf(m) == UNION {Files(h) : h \in m}

(* A manifest keeps its entries in the order they were made in, which is    *)
(* that of their handles: the set of them is enough.  What a new entry      *)
(* leaves of it: what has not expired, less the oldest entries, as many as  *)
(* the incoming bytes leave no room for.                                    *)
Prune(m) == {h \in m : ~Expired(h)}
Fits(m, incoming) == Cardinality(FilesOf(m)) + incoming <= MaxHeld
Evicted(m, incoming) == {h \in m : ~Fits({g \in m : g >= h}, incoming)}
Released(m, incoming) == FilesOf(Evicted(m, incoming))
Kept_All(m, incoming) == m            \* mutation: released, yet still in the manifest
Kept(m, incoming) == m \ Evicted(m, incoming)

Vacant(r) == req[r] = Nothing
Free(r) == Vacant(r) /\ r = CHOOSE q \in Requests : Vacant(q)
At(r, kind, pc) == ~Vacant(r) /\ req[r].kind = kind /\ req[r].pc = pc
Becomes(r, record) == req' = [req EXCEPT ![r] = record]

(* Requests of one session overlap when a form is sent twice or two tabs    *)
(* are used.                                                                *)
Overlap ==
    IF \A q \in Requests : Vacant(q) THEN raced' = raced
    ELSE raced < MaxRaces /\ raced' = raced + 1

-----------------------------------------------------------------------------
(* A request starts: the middleware loads the session, the form carries a   *)
(* handle some page has shown and, for the composer, new files.  claim()    *)
(* takes the entry out of the copy; an unknown handle claims nothing.       *)
NamesIn(s, h) == IF h \in s.manifest THEN held[h].pics ELSE {}
Without(s, h) == [s EXCEPT !.manifest = @ \ {h}]

Open(r, kind, h, new) ==
    /\ Free(r)
    /\ h # Nothing => h \in shown
    /\ kind = "cancel" => new = {}
    /\ new \cap picked = {} /\ Cardinality(new) <= MaxPerPost
    /\ LET names == NamesIn(session, h)
       IN  Becomes(r, [kind |-> kind, handle |-> h, copy |-> Without(session, h),
                       dirty |-> names # {}, pc |-> "claim", named |-> names,
                       todo |-> names, open |-> Nothing, hand |-> new,
                       got |-> {}, told |-> {}])
    /\ picked' = picked \cup new
    /\ Overlap
    /\ UNCHANGED <<held, disk, session, shown, failed>>

(* _read_and_remove(), down the entry's list: a file is read and then       *)
(* unlinked; one that is not there is counted in Claim.missing.             *)
Recovering(r, u) ==
    ~Vacant(r) /\ req[r].open = Nothing /\ req[r].todo # {} /\ u = CHOOSE v \in req[r].todo : TRUE
Missing_Uncounted(r, u) == {}    \* mutation: only the survivors are returned
Missing(r, u) == {u}
ReadStaged(r, u) ==
    /\ Recovering(r, u)
    /\ IF <<req[r].handle, u>> \in disk
       THEN Becomes(r, [req[r] EXCEPT !.todo = @ \ {u}, !.hand = @ \cup {u}, !.open = u])
       ELSE Becomes(r, [req[r] EXCEPT !.todo = @ \ {u}, !.told = @ \cup Missing(r, u)])
    /\ UNCHANGED <<held, disk, session, shown, picked, raced, failed>>

UnlinkStaged(r) ==
    /\ ~Vacant(r) /\ req[r].open # Nothing
    /\ disk' = disk \ {<<req[r].handle, req[r].open>>}
    /\ Becomes(r, [req[r] EXCEPT !.open = Nothing])
    /\ UNCHANGED <<held, session, shown, picked, raced, failed>>

(* `(claimed.photos + photo_raws)[:_MAX_PHOTOS]`: the claimed come first.   *)
Carried(r, pics) ==
    /\ pics \subseteq req[r].hand
    /\ Cardinality(pics) <= MaxPerPost
    /\ Cardinality(pics) = MaxPerPost \/ pics = req[r].hand
    /\ req[r].hand \cap req[r].named \subseteq pics \/ pics \subseteq req[r].named
Claimed(r, kind) ==
    At(r, kind, "claim") /\ req[r].todo = {} /\ req[r].open = Nothing

(* The confirmation page, or the composer again with its errors: stage()    *)
(* under a handle not drawn before and then drafts.hold().  Without files   *)
(* nothing is staged; here the draft still has a name of its own.           *)
Bounce(r, h, pics) ==
    /\ Claimed(r, "compose") /\ Carried(r, pics)
    /\ held[h] = Nothing /\ \A g \in Handles : held[g] = Nothing => h <= g
    /\ LET m == Prune(req[r].copy.manifest)
           n == Cardinality(pics)
       IN  IF pics = {}
           THEN /\ Becomes(r, [req[r] EXCEPT !.copy.draft = h, !.dirty = TRUE,
                               !.hand = {}, !.named = {}, !.told = {}, !.handle = Nothing,
                               !.pc = "answer"])
                /\ disk' = disk
           ELSE /\ Becomes(r, [req[r] EXCEPT
                       !.copy = [manifest |-> Kept(m, n) \cup {h}, draft |-> h],
                       !.dirty = TRUE, !.hand = {}, !.named = {}, !.told = {},
                       !.handle = Nothing, !.pc = "answer"])
                /\ disk' = (disk \ Released(m, n)) \cup ({h} \X pics)
    /\ held' = [held EXCEPT ![h] = [pics |-> pics, age |-> 0]]
    /\ UNCHANGED <<session, shown, picked, raced, failed>>

(* create_post() commits, the pictures are attached, the ones that would    *)
(* not decode are said out loud; then drafts.clear(), and "Posted." waits   *)
(* in the session for the next page: a post always changes its copy.        *)
ClearDraft(s) == [s EXCEPT !.draft = Nothing]
Post(r, pics, good) ==
    /\ Claimed(r, "compose") /\ Carried(r, pics) /\ good \subseteq pics
    /\ Becomes(r, [req[r] EXCEPT
           !.got = good, !.told = @ \cup (pics \ good), !.hand = {},
           !.copy = ClearDraft(@), !.dirty = TRUE, !.pc = "posted"])
    /\ UNCHANGED <<held, disk, session, shown, picked, raced, failed>>

(* compose_cancel(): what discard() claimed is dropped with the draft.      *)
Cancel(r) ==
    /\ Claimed(r, "cancel")
    /\ Becomes(r, [req[r] EXCEPT
           !.hand = {}, !.copy = ClearDraft(@),
           !.dirty = @ \/ req[r].copy.draft # Nothing, !.pc = "answer"])
    /\ UNCHANGED <<held, disk, session, shown, picked, raced, failed>>

(* _render_feed(): drafts.peek() drops a draft past its TTL.  Words waiting  *)
(* to be shown are not kept here: a feed that shows some, and changes       *)
(* nothing else of its copy, is left out with every feed that finds no      *)
(* stale draft.                                                             *)
Stale(s) == s.draft # Nothing /\ Expired(s.draft)
Render(r) ==
    /\ Free(r) /\ Stale(session)
    /\ Becomes(r, [kind |-> "feed", handle |-> Nothing,
                   copy |-> ClearDraft(session), dirty |-> TRUE, pc |-> "answer", named |-> {},
                   todo |-> {}, open |-> Nothing, hand |-> {}, got |-> {}, told |-> {}])
    /\ Overlap
    /\ UNCHANGED <<held, disk, session, shown, picked, failed>>

(* SessionMiddleware: the copy is saved if it was touched.                  *)
Answer(r) ==
    /\ ~Vacant(r) /\ req[r].pc \in {"posted", "answer"}
    /\ session' = IF req[r].dirty THEN req[r].copy ELSE session
    /\ shown' = shown \cup
           IF At(r, "compose", "answer") THEN {req[r].copy.draft} ELSE {}
    /\ Becomes(r, Nothing)
    /\ UNCHANGED <<held, disk, picked, raced, failed>>

(* An unhandled error, or the web process gone: nothing is saved.  So too   *)
(* a read that finds its file taken between is_file() and read_bytes().     *)
Fail(r) ==
    /\ ~Vacant(r) /\ failed < MaxFailures
    /\ Becomes(r, Nothing)
    /\ failed' = failed + 1
    /\ UNCHANGED <<held, disk, session, shown, picked, raced>>

(* The hourly sweep walks the directory by age, not the sessions.           *)
Swept_BySession ==            \* mutation: walks the session instead
    {f \in disk : Expired(f[1]) /\ f[1] \in session.manifest}
Swept == {f \in disk : Expired(f[1])}
Sweep ==
    /\ disk' = disk \ Swept
    /\ UNCHANGED <<held, session, req, shown, picked, raced, failed>>

HourPasses ==
    /\ held' = [h \in Handles |->
           IF held[h] = Nothing \/ Expired(h) THEN held[h]
           ELSE [held[h] EXCEPT !.age = @ + 1]]
    /\ UNCHANGED <<disk, session, req, shown, picked, raced, failed>>

Step(r) ==
    \/ \E kind \in {"compose", "cancel"}, h \in Handles \cup {Nothing},
          new \in SUBSET Uploads : Open(r, kind, h, new)
    \/ \E u \in Uploads : ReadStaged(r, u)
    \/ UnlinkStaged(r)
    \/ \E h \in Handles, pics \in SUBSET Uploads : Bounce(r, h, pics)
    \/ \E pics, good \in SUBSET Uploads : Post(r, pics, good)
    \/ Cancel(r) \/ Render(r) \/ Answer(r) \/ Fail(r)

StagingNext == (\E r \in Requests : Step(r)) \/ Sweep \/ HourPasses

(* The sweep is a periodic task and hours pass; a member may never answer.  *)
StagingSpec == StagingInit /\ [][StagingNext]_stagingVars /\ WF_stagingVars(HourPasses) /\ WF_stagingVars(Sweep)

-----------------------------------------------------------------------------
(* Nothing has gone wrong that one session handled in order cannot see.     *)
Orderly == raced = 0 /\ failed = 0

(* What the draft or the manifest of a session in order shows a member can  *)
(* still be had: until the TTL every file it names is on disk, and the      *)
(* draft's own files are among those it names: the words and the pictures   *)
(* stay in step (drafts.py).                                                *)
WordsAndPicturesInStep ==
    Orderly /\ (\A r \in Requests : Vacant(r)) =>
        /\ {f \in FilesOf(session.manifest) : ~Expired(f[1])} \subseteq disk
        /\ LET h == session.draft
           IN  h # Nothing /\ ~Expired(h) /\ held[h].pics # {}
                   => h \in session.manifest

(* However requests, the sweep and failures interleave: a post claimed with *)
(* a handle its session still knew carries every file staged under it, or   *)
(* says which are missing, or holds as many as a post can                   *)
(* (staged_uploads.Claim.missing, compose's notices).                       *)
ShortfallIsSpoken ==
    \A r \in Requests :
        ~Vacant(r) /\ req[r].pc = "posted" =>
            \/ req[r].named \subseteq req[r].got \cup req[r].told
            \/ Cardinality(req[r].got \cup req[r].told) >= MaxPerPost

(* Whatever was staged, and whoever forgot it: the bytes do not linger      *)
(* (staged_uploads.py), even of a session whose copy was overwritten.       *)
BytesDoNotLinger ==
    \A f \in Handles \X Uploads : (f \in disk) ~> (f \notin disk)

(* What compose's comment says of every post: one that was sent with a      *)
(* handle has, or is told it lacks, each file staged under that handle      *)
(* ("Anything the post did NOT get is said out loud", feed_views.py).       *)
NothingIsLostInSilence ==
    \A r \in Requests :
        ~Vacant(r) /\ req[r].pc = "posted" /\ req[r].handle # Nothing =>
            held[req[r].handle].pics \subseteq req[r].got \cup req[r].told
=============================================================================
