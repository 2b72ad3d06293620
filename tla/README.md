# Backyard, verified

Backyard is a private, self-hosted social network for one extended family (Django on
Postgres, a Procrastinate worker, no API). This directory holds TLA+ models of the parts
where the order of two requests, a restore or a long history of legal acts decides whether
the promise to the family holds; the TLC runs over them; and the theorems TLAPS proves.

Paths below are relative to `src/src/core/` unless they start with `docs/`.

## 1. The system

Who is who: a **Member** is in **pods**. A pod is a *household* or an *ad-hoc group*; a pod
lies on one or more **sides** of the family (yards). What a member may see and do follows
from the pods they are in *now*. Elders have no account, only a link. There is one web
process pool, one worker, one Postgres; every view but the composer runs in one transaction
(`ATOMIC_REQUESTS`, `config/settings.py:192`) at READ COMMITTED, and handlers coordinate
only by `SELECT ... FOR UPDATE` on a row, by unique constraints and by foreign keys.

| Component | State it keeps | Operations | What is hard | Correct when | Module |
|---|---|---|---|---|---|
| Credentials and revocation (`revocation.py`, `elder_*.py`, `recovery*.py`, `digest_links.py`, `reply_addresses.py`) | `token_generation`, elder links, recovery links, read links, reply addresses, sessions | mint, exchange for a session, redeem, expire, rotate, revoke | a mint that read before a revocation and writes after it; a session saved after the response; six classes in one registry | nothing that resolves predates the last revocation; what has died stays dead | `Credentials` implements `Capabilities` |
| Removal (`removal.py`) | membership, account, subscription, owned groups | remove | joins three registries and a teardown, in an order that matters | all rights go in one act | `Credentials`, `Memberships`, `Invites` |
| Households (`households.py`) | `PodMembership`, `HouseholdChange` | add, create and add, take out | concurrent shrinks each count on what the other deletes | nobody stranded, every lost side revoked | `Memberships` |
| Ad-hoc groups (`pods.py`, `pod_views.py`) | `Pod.owner`, roster | create, add, leave, succession | a pod object read before the lock; no lock on the pod | ownership follows membership | `Memberships` |
| Invitations (`invites.py`, `join.py`) | `Invite`, `InviteRedemption` | mint, hand out again, redeem, revoke, void | authority read before the insert; a capped counter; a role granted once | count = ledger <= cap; the role goes to the first; ended links stay ended | `Invites` |
| Permissions, roster (`permissions.py`, `admin_views.py`) | `Member.role` | roles, removal, invites | rights are read and used later | as guards of the above | `Invites` |
| Backup, restore (`backups.py`) | archives; the whole database | archive, `pg_restore`, forced security replay | an old database resurrects what was revoked, and the restore is several steps | the replay ends everything revived | `Credentials`, `Invites` |
| Digest (`digest_send.py`, `digesting.py`, `signals.py`, `notifications.py`) | subscriptions, issues with a window each, rotating tokens | subscribe, confirm, send, unsubscribe, nudge | overlapping runs, savepoints, a crash after the relay accepted, two writers of one token | no post is mailed twice or passed over; only a proven address that still wants it; no failed send kills a delivered link | `Digest` |
| Confirm pages (`household_views.py`, `handover.py`) | two session keys, a nonce and a fingerprint | submit, confirm, carry out | the page was computed in an earlier request; the session is written whole | the change does what the page said | `HouseholdPages` |
| Reply by mail (`inbound.py`, `inbound_webhook.py`, `reply_addresses.py`) | ledger of message ids, quarantine | fetch, resolve, admit, comment | redelivery, copies at once, failures, an address that dies meanwhile | one comment per message, none lost | `Inbound` implements `ReplyBox` |
| Web push (`push.py`, `push_views.py`) | device rows with failure counts | subscribe, unsubscribe, fan out | a time budget, uncounted timeouts, delivery order, rows that change hands | no device starves while the budget outlasts those that hang; only refusals end one | `Push` |
| Staged uploads, drafts (`staged_uploads.py`, `drafts.py`) | files, the session's manifest and draft | stage, claim, cancel, render, sweep | the session is a copy and the last to finish wins | words and pictures stay in step; a lost picture is said | `Staging` |
| Media (`media.py`, `transcoding.py`, `link_preview.py`) | asset rows, files, jobs | attach, transcode, rehost, purge, change a face | file system and database are not one transaction | rows and files agree, deleted is purged | `Media` |
| Posts, replies, reactions, moderation (`posting.py`, `commenting.py`, `moderation.py`, `scoping.py`, `feed_views.py`) | rows with audiences and tombstones | compose, edit, delete, take down, read | a request writes what it read earlier; a page is several queries | sides stay apart, the removed are unheard, gone is gone | `Thread` |
| Scheduled backup, retention, restore (`scheduled_backup.py`, `backups.py`, `health.py`) | archives, `BackupRun`, `BackupFailure`, the media tree | dump, tar, seal, record, prune, restore | the dump and the tree are two moments; a restore rolls the ledger back | an archive is complete, retention keeps, the page is honest | `Backups` |
| First run, roles, expiry watch (`ensure_setup`, `views.py`, `admin_views.py`, `cert_expiry.py`, `domain_expiry.py`, `health_email.py`) | setup secret and its file, roles, expiry cache | boot, set up, promote, look up, send the health mail | overlapping forms, a boot cut short, a rename, refused mail | one founder, no stale secret, no expiry unseen | `Instance` |
| Demo data (`demo_marking.py`, `demo_data.py`) | markers | preview, stamp, unmark, wipe | what it would take is collected, then deleted by cascade, in a living instance | nothing real is taken | `Demo` |
| Supervised members, profiles, mail transport, forms | single rows, text | | | | not modelled |

How they interact. Everything that takes something away (`removal.remove_member`,
`households.remove_from_household`, a leave that drops a side, a rotation, a restore) calls a
registry of `revocation.py` *inside its own transaction*, first, because two of the steps read
the memberships that the teardown is about to delete. `Credentials`, `Memberships` and
`Invites` are three views of that one act: what it does to tokens, to rosters and owners, to
invitations. They are kept apart because they share the act but no variable: no token handler
reads a roster, and no roster handler reads a token; a composition would multiply three state
spaces to say what the three already say. `HouseholdPages` is different: a confirm page reads
rosters, so it EXTENDS `Memberships` and its runs are runs of both.

The others meet at a few named points. `Digest`: the sides its member is on, and the void of
the emailed links. `Inbound`: an address that stops resolving, a post that is no longer seen.
`Push`: a removed member's registrations go. `Media` takes what `Staging` claims, and purges
what `Thread` deletes; `Thread` reads the rosters that `Memberships` changes. `Backups` says
what a restore makes of archives, pictures and its own ledger, `Credentials` and `Invites` what
it makes of tokens and links.

`PROJECT.json` lists every component, and the hazards of this code at their lines.

## 2. The modules

There are eight proof modules, one for a component or for a few that share lemmas or are run by
the same people. Where one proof module EXTENDS several models, the later ones carry their name in
`PushInit`, `StagingSpec`, `InstanceTypeOK`, ..., since `Init`, `Spec` and `TypeOK` are the first's.

### Credentials, Capabilities, MCCredentials, CredentialsProofs

`Capabilities` is the promise, in 28 lines: a credential is unborn, then live or dead, and
dead is final. `Credentials` is what the code does.

* `rows[c]` is the row, or the session, that token `c` finds. A row has one flag `spent` for
  `used_at`, `superseded_at`, `voided_at` and a passed `expires_at`: each is set once and ends
  the row. Elder, recovery, read and reply links and elder sessions carry the generation they
  were minted with; browser sessions carry the password hash.
* A handler that reads, and writes later, is two or three actions with a slot of `req` between
  them: an elder link (`OpenProvisioning`, `MintElder`), its exchange (`OpenElderLink`,
  `StoreElderSession`, because the session middleware saves after the view), the sign-in, the
  issue of a recovery link (read, supersede, insert). Handlers that hold the row's lock from
  their first read to their commit are one action (`RedeemRecovery`, `SendDigest`,
  `RegenerateElder`).
* `AfterRegistry` is the effect of all registered revocation steps on one row. Elder sessions
  survive the sweep as rows (they are not keyed by user) and die by their generation.
* `epoch`, `born`, `issued` are history: the revocation epoch an act was *authorised* in.

`LiveIsFresh`: what resolves by its generation was authorised after the last
revocation of its holder; `DeadStaysDead`: the refinement of `Capabilities`.

### Memberships, MCMemberships, MembershipsProofs

A request that changes somebody's memberships takes `FOR UPDATE` on that Member row, reads,
decides, and publishes at its commit; `LockForLeave`, `LockForDetach` and `LockForRemoval`
are the reads, `HandOn` one call of `pods.succeed_owner`, `Commit` the end. The pod row is
never locked, and `pod_views.pod_leave` reads the pod (and its owner) before the member's
lock: `OpenLeave` is a step of its own. Additions to groups take no lock; their foreign keys
are `DEFERRABLE INITIALLY DEFERRED`, so the key-share check runs at their commit and waits
for whoever holds the member row. The same holds for the owner a commit writes. Two such
waits may cross; Postgres aborts one, which is `Abandon`.

`HouseholdKept`: nobody who has not been removed is without a household.
`EveryLossIsRevoked`: a commit takes no side whose revocation it did not carry.
`OrderlySuccession`: a group that no two overlapping requests have changed belongs to one of
its members. `raced` records the groups for which that premise fails; without it the claim
is false (section 4).

### Invites, MCInvites, InvitesProofs

Households only. `InviteHousehold` and `ResendInvite` read the actor's right, `MintInvite`
publishes the row (a household is a Pod row of its own, so no two mints in flight make the same
one); `RedeemInvite` holds the invite's lock throughout and is one action.
`Remove`, `RemoveFromHousehold` and `Rotate` void with the filter of their registry (all the
member's sides, the sides lost, or the member's own links), guarded by
`permissions.can_manage_member` and `can_change_household_membership`. `outdated` is the
history of links that some act should have ended.

`LedgerAgrees`: `use_count`, the redemption ledger and the cap agree, also across a restore.
`RoleGoesToTheFirst` and `OneAdminPerHousehold`: a link's role goes to its first taker, and
handing links out again never arms it twice. `NoWayBack`: an ended link never redeems again.

### Digest, MCDigest, DigestProofs

One member. `Resubscribe`, `OpenSubscribe` and `CommitSubscribe` are the branches of
`digesting.subscribe`; it decides from an unlocked read of the sign-in address, and if there is
no row yet it holds no lock, so `TapAccountLink` (the `email_confirmed` receiver, an UPDATE that
sees committed rows) may fall in between. A run (`send_due_digests`) is a slot: `StartRun` reads
the due list, `ListYards` the member's sides, then each side is a transaction of its own. `Look`
is `_send_one` up to its last early return, under the locks on the subscription and the member;
the second step is how it ended: `FindEmpty` (the post has gone: the window is rolled back),
`Deliver`, `Refuse` (the inner savepoint is rolled back, issue and refusal stay), `Crash`,
`LoseCommit` (the relay accepted, nothing is recorded) or `EndRun` (killed). Everything written
between the two becomes visible at the commit, so only posts can change in between.
`NudgeRotate` and `NudgeMail` are `notify_reply`: outside a transaction, so the rotation is
committed before the mail is tried. `LoseSide`, `GainSide` and `Remove` are the commits of
`Memberships` as the digest sees them. A post appears with its commit, under a `created_at` of
then or earlier.

`ConfirmedIsProven`: family mail waits for a tap on a link mailed to that very address.
`CancelledSendsStay`: at the moment of a send the member still wants it, there and from that
side. `EachPostOnce` and `NoPostPassedOver`: the windows of a side neither overlap nor leave
gaps. `RunKeepsWayOut`, `RepliesFollowMail` (and `RunSharesOneLink`, which is proved but not
run): what a failed send may not take away. Two behaviours the properties excuse, because the
code has them: a post committed after the tick it is stamped with may fall into a window
already closed, and if the member re-points the email between two sides of one run, the later
message carries the run's link although the re-pointing has killed it.

### HouseholdPages

(Proofs in `MembershipsProofs`, with those of what it extends.)

The first submit (`Submit`, unconfirmed) answers with a page: its nonce is its number, its text
is the proposal with the sides gained and lost. The session keeps nonce and fingerprint; a
request reads the session when it begins and writes it whole when it is answered (`visit[t]`).
A second submit whose nonce and fingerprint match is carried out by an action of `Memberships`,
under the member's lock and with its refusals. `NothingUnsaid`: a change moves nobody across a
side that the page did not name, if the member's pods did not change *within* the second submit
(section 4 has what happens when they do).

### ReplyBox, Inbound, MCInbound, DeliveryProofs

`ReplyBox` is the promise: a mail waits, is settled in the end, and becomes one comment at
most. In `Inbound` a request is `Deliver`, `Fetch` (from the provider; what it cannot give in
time, or is refused for its shape, is quarantined while the budget for such rows lasts),
`Resolve` (the address, unlocked), `Admit` (the ledger row, whose unique key makes
a second copy wait for the first to commit, then the audience check), `Commit`, `Answer`. `Fail`
is any error before the commit, which rolls everything back, or an answer lost after it. The
provider posts every event until it is answered 200, and may post it twice. `RepliesSettleOnce`
is the refinement, liveness included. `DeadAddressesAreSilent`: what was delivered after its
address had died posts nothing. `AnsweredLeavesATrace`: what was answered is a comment, a bounce
or a row on the administrator's panel, but for an event that carries no `email_id`, which is
logged and answered (`inbound_webhook.py:320`).

### Push, Lists, MCPush, DeliveryProofs

Timestamps are only compared, so the model keeps the order they give, as two lists of keys:
`waiting`, never delivered to, in the order they were made, and `served`, least recently
delivered first (`F("last_success_at").asc(nulls_first=True), "created_at"` reads one behind the
other). `Take` reads recipients and rows of a job; each `Send` is one
answer of a push service and one write by primary key, which may find the row gone or in other
hands. `Lists` has `Without`, what a list keeps when some rows go, for `Push` and `Demo`. Time is
counted in costly sends, those that hang or take long, and the fan-out ends when
`Budget` of them are spent. `EveryoneHears`: a browser that works, whose member hears of some
writer, is notified again and again, as long as the registrations that may hang (`Stragglers`) are
fewer than the budget pays for; without that premise it is false (section 4). `RefusalsDecide`:
a registration ends at `MaxRefusals` refusals of its own service in a row, and never for any
other answer.

### Staging, MCStaging, PostsProofs

Every request of a session loads the session whole, works on its copy and writes it back after
its response: `Open`, `ReadStaged`, `UnlinkStaged`, then `Bounce` (the confirm page, which
stages what was picked), `Post` or `Cancel`, then `Answer`. Files come and go at once. `Sweep`
unlinks what is older than the TTL, whoever knows of it. Handles are drawn in the order 1, 2, ...,
so a manifest is a set of handles, and the oldest in it is the least: the order of a Python dict
that is only ever appended to and popped from. `WordsAndPicturesInStep` speaks of a
session used in order; `ShortfallIsSpoken` of any interleaving; `BytesDoNotLinger` is liveness.
A post adds a message to the session, which writes it; the feed that shows the waiting words and
so writes it too is left out, as the words themselves are.

### Media, MCMedia, MediaProofs

`disk` holds pairs of asset and part; `row` what is committed. The composer commits the post,
then writes and commits each attachment, then defers its job; a reply is one transaction. A
purge reads the names (`Look`), deletes the rows, and unlinks after the commit. The worker's job
is `Take`, `Recheck`, `WriteRendition`, `SaveRendition`, or the same for a card's picture; a job
that dies with the worker is not run again. `FilesAndRows`: no committed row names a missing
file, ever, and at rest every file has a row. `DeletedIsPurged`, `ClipsResolve` (liveness). What
crashes, and attachments that arrive after the purge has looked, are tracked by history
variables and excused by name.

### Thread, MCThread, PostsProofs

Posts, replies and reactions are rows by primary key. A writing request reads its rows through
the actor's own eyes and later writes *some columns* (`update_fields`) of what it has read. A
page is a sequence of queries, between which the rest runs: the posts, the reader's sides
(`member_yard_ids` is evaluated first), the replies of people on those, the sides again, the
reactions. So is the opening of a reply (`AskForReply`, `OpenReply`) and the second look before it
is taken down. `OpenAdd` is what `add_member_to_pod` looks at, `Join` its insert, which takes no lock
and may come after the removal of whom it inserts: `slipped` is the history of those.
`AddToHousehold`, `Leave` and `RemoveMember` are one action each, under the member's lock; nobody
leaves the last household. Who owns a group is not kept here (`Memberships` has it): whoever is in
it may add.

`SidesStayApart`: a page names only people who were, while it was read (`met`), on a side its reader
had been on in that time (`been`), though a bridging post carries both sides. `RemovedAreUnheard`:
what a removed person wrote in a thread is shown to no one, even if it lands after the removal; those
that have slipped in are excused. `GoneStaysGone`: no late write undoes a deletion or strikes its
signature.

### Backups, MCBackups, OperationsProofs

A night is `Dump`, `Tar`, `Seal`, `Record`, `Prune`, each of which may `Fail` (recorded) or
`Crash` (not); the family uploads, publishes, deletes and unlinks meanwhile. Archives may be
copied in or made by hand. A restore is `RestoreDump`, `ClearMedia`, `PromoteMedia`, `Replay`;
`CutShort` sends it back to the start, since the operator runs it again.
`ArchiveHoldsItsPictures`, `RetentionKeeps` (the newest days, the newest of each of the newest
weeks), `HealthIsHonest` (no alarm means there is a fresh backup), `RestoreComesRight`. An archive made
before MEDIA_ROOT existed has no media tree (`tree`): its restore skips both media steps and the
files stay as they are, which `RestoreComesRight` says of such an archive.

### Instance, MCInstance, OperationsProofs

Three groups of variables. Setup: `BootClosed`, `BootHash`, `BootHandOver` are the boot command
up to each of its writes, `LockToken` and `CreateAdmin` the form's two steps, `ClearHandover`
the `on_commit` hook that a crash can take. Roles: `OpenEdit` reads the actor's right,
`MakeEdit` writes later. The watch: `LookUp`, `Day`, `Renew`, `Rename`, `Copy`, `SendHealth`.
`OneSetup`; `NoSurprise` (what soon expires under the present name alarms); `SecretGoesAway` and
`AlarmIsHeard` are liveness.

### Demo, MCDemo, DeliveryProofs

`Preview` and `Stamp` mark what lies inside the named sides. `WipeBegin` takes the locks,
collects the closure, refuses if it reaches somebody real's words or strands anyone; `WipeEnd`
deletes, with the cascades evaluated afresh. Between the two everybody else goes on, as far as
the locked rows allow new references to them. The operator runs one of the commands at a time.
`RealPostsStay`, `HomesSurvive`.

### What the models take as given

* ATOMIC_REQUESTS and READ COMMITTED: an UPDATE or an INSERT decides on what is committed
  when its statement starts; a `FOR UPDATE` waits.
* Tokens of 256 random bits never collide.
* `pg_restore --clean` takes ACCESS EXCLUSIVE on every table, so no transaction that has read
  one spans it. The save of a session after the view's transaction is assumed not to either.
* The order in which several memberships, or several owners, of one transaction are written
  is not visible; they change at the commit.
* `succeed_owner` picks the longest-standing member; the model lets it be any member of the
  roster it reads, so what holds does not depend on the choice.
* A removed member keeps the Member row; an instance admin may place or provision that member
  again, and the models allow it.
* After a leave that drops a side, the browser that asked is signed in again under a new key
  with the old password hash (`cycle_key`, `login`): `LeaveLosingASide`.

### Fairness

| Module | Assumed | Why the code justifies it |
|---|---|---|
| `ReplyBox` | WF of `Deal` per message | the promise itself |
| `Inbound` | WF of `Deliver` per message, of `Continue(r)` | the provider posts an event until it is answered 200; a request that runs goes on or fails |
| `Push` | WF of `Take`, `Work`, `Write(m)` | the worker takes what is deferred, every send has a timeout; and the family goes on writing, without which there is nothing to hear |
| `Media` | WF of `Continue(r)`, `Work` | requests go on; the worker works while it lives (`CrashWorker` is bounded) |
| `Staging` | WF of `HourPasses`, `Sweep` | hours pass, the sweep is an hourly periodic task; nothing is assumed of members, who may never answer the confirm page |
| `Backups` | WF of `RestoreStep` | an operator who has begun a restore carries it through, as the runbook says |
| `Instance` | WF of `Boot`, `ClearHandover`, `SendHealth` | the container is restarted when it dies; some Monday every address is taken. `LookUp` and `Renew` are under no fairness: lookups may fail for ever |

The other modules state none: what they promise is safety, and a member need not act. Failures
and crashes are never fair, and bounded.

## 3. The runs

Twelve, all of which must pass. "Proved" in the last column: the property is also a theorem.

| Run | Instance | States | Shows |
|---|---|---|---|
| `credentials` | 1 member, 3 tokens, 1 handler in flight, 2 revocations, 1 archive | 476k | `LiveIsFresh`, `DeadStaysDead` (proved) |
| `memberships` | 3 people, 2 households on 2 sides, 1 group, 2 requests, 1 tab, 1 confirm page | 372k | `HouseholdKept`, `OrderlySuccession`, `EveryLossIsRevoked`, `NothingUnsaid` (proved) |
| `invites` | the founder and 3 joiners, 2 households, 2 links of 2 uses, 2 admin acts, 1 restore | 1.13M | `LedgerAgrees`, `RoleGoesToTheFirst`, `OneAdminPerHousehold`, `NoWayBack` (proved) |
| `digest` | 1 member, 2 sides, 2 overlapping runs, 3 ticks, 2 acts, 2 mailboxes or 2 posts | 810k | `ConfirmedIsProven`, `RepliesFollowMail`, `EachPostOnce`, `NoPostPassedOver`, `CancelledSendsStay`, `RunKeepsWayOut` (proved) |
| `thread` | 3 people, 5 pods on 3 sides, 2 tabs, 1 post, 1 reply, 1 reaction, 2 moves | 1.78M | `SidesStayApart`, `RemovedAreUnheard`, `GoneStaysGone` (proved) |
| `inbound` | 2 mails (a reply, and one of any shape), 1 address, 2 requests, 1 failure, 1 duplicate | 371k | `DeadAddressesAreSilent`, `AnsweredLeavesATrace` (proved), `RepliesSettleOnce` (its safety half proved) |
| `instance` | 2 people, 2 forms, 1 certificate, 2 names, 2 secrets, 2 changes | 79k | `OneSetup`, `NoSurprise` (proved), `SecretGoesAway`, `AlarmIsHeard` |
| `media` | 1 post, 1 reply, 1 face, 2 assets of which 1 a clip, 2 requests, 1 crash | 366k | `FilesAndRows`, `DeletedIsPurged` (proved), `ClipsResolve` |
| `staging` | 1 session, 2 uploads, 2 drafts, 2 requests, 1 race, 1 failure | 529k | `WordsAndPicturesInStep`, `ShortfallIsSpoken` (proved), `BytesDoNotLinger` |
| `push` | 4 browsers (2 slow, 1 that may hang, 1 that may do anything), 4 keys, budget 2, 4 changes, 1 crash | 441k | `RefusalsDecide` (proved), `EveryoneHears` |
| `backups` | 1 picture, 4 nights in weeks of 2, 1 daily and 2 weekly kept, 1 fault, 1 restore | 820k | `ArchiveHoldsItsPictures`, `RetentionKeeps`, `HealthIsHonest` (proved), `RestoreComesRight` (its safety half proved) |
| `demo` | 2 people, 4 pods on a demo and a real side, 2 words, 2 moves | 422k | `RealPostsStay`, `HomesSurvive` (proved) |

Why the bounds suffice.

*Credentials*: generations are compared with one member's own, so members do not interact, and
one is enough; two revocations let a generation be read before the first and written after the
second, and let an archive be older than both; three tokens are a link, what it was exchanged
for, and a successor. One handler in flight still races every revocation, redemption and
restore, which are one step each; two race each other only over recovery links (section 4).
*Memberships*: two requests suffice for every pairwise race; three people are a leaver, an heir,
and a third whose insert collides; `h2` is on a side of its own so that a side can be lost with
a household, and the group shares `h1`'s side, so that a group can also hold a side. One page
is enough, because a second one replaces the keys of the first. The constraint `OneMore` drops
behaviours with two requests at once after a group has been raced (`OrderlySuccession` no longer
speaks of it) and with a third person once there is a page (its text depends on its subject's
pods alone); the theorems have neither restriction.
*Invites*: two links make a link and the copy handed out again; a cap of two separates "first"
from "last"; two acts are a re-role and what it then permits, or a removal after a return.
*Digest*: two mailboxes are the sign-in address and another; two sides let one be sent and the
next fail; two slots are the worker's run and the command's; three ticks give a side two windows
that meet at a boundary, and two posts put one before the boundary and one on it. The constraint
`MailboxesOrPosts` has either both mailboxes or both posts: which addresses are proven and which
posts a window holds are independent. `MaxLinks` never runs out: a token that nobody holds is
drawn again.
*Thread*: `both` bridges two sides, a household is on each of them, and the third has a household and
the club, the ad-hoc pod a teardown must empty and a late insert fills again. Two moves are what it
takes for a reader to leave a side and another to join it within one page, or for a removal and the
insert decided before it; two tabs are one request and whatever it is read or written behind. A page
of one (`PageSize`) still separates its queries. `Moved` says who moves where.
*Inbound*: two mails to one address meet at the ledger and the address; a third request would
only wait for the same ledger row.
*Instance*: two forms race each other once; the domain differs from the certificate only in what
can be looked up after expiry, and the certificate is the harder of the two; two secrets are one
superseded by another boot. *Media*: one asset is a picture, one a clip, and each can be the
card's image or the face. *Staging*: a limit of one held upload makes eviction happen with two
uploads; a TTL of 0 makes a thing expire at the first tick. *Push*: of the two that
may hang both may be registered at once, which is as much as the budget pays for and breaks the
premise of `EveryoneHears`, or one only, which leaves one send for the rest; the two slow ones cost
as much as the budget, so the list's order has to do its work. *Backups*: two
nights to a week and three weeks' worth of keeping rules exercise both branches of `prune`; the
restore rolls the ledger back to any of the four nights. *Demo*: `rae` belongs to a marked and
to a real household, and two words are a marked post and a real reply, or two posts.

The bounds named `Max...` cap history counters in the guards; `MaxUses`, `MaxHeld`, `MaxPerPost`,
`MaxRefusals`, `MaxDevices`, `PageSize`, `KeepDaily`, `KeepWeekly` are the code's own limits.

Symmetry is used by `credentials`, `memberships`, `invites`, `digest` and `thread`, none of which
checks liveness. Deadlock is checked by `credentials`, `memberships` and `invites`; the others
stop when the clock, the bounded acts or the rows are spent.

Every property has a mutant, an operator beside the one it replaces that carries a plausible
bug (`LinkResolves_AnyGeneration`, `Fingerprint_Household`, `Recorded_Address`,
`Missing_Uncounted`, `StatusOf_Any`, ...); TLC finds the property violated with it.

## 4. Where the code and its words part

What the code does not do although a comment or docstring says so, or although a reader would
expect it. None of this is in the twelve runs, whose properties say what does hold; each item
names how to see it. A `.cfg` is run with the module of its component (`RecoveryLinks` with
`MCCredentials`; `GroupOwners`, `Removal`, `TwiceSpent` with `MCMemberships`;
`InviteAfterRemoval` with `MCInvites`; `WayOut` with `MCDigest`; `Starved` with `MCPush`;
`Takedown` with `MCThread`; `Leaderless` with `MCInstance`). "By hand" means: put the definition
in place of the properties of that module's passing cfg.

1. **Two live recovery links** (`recovery.py:125`, "One live link per member"). Two issues at
   once each supersede what the other has not committed; no lock, no unique constraint.
   `RecoveryLinks.cfg`.
2. **Ownership follows membership** (`pods.py:166`, `removal.py:148`). The owner is tested on a
   pod read before the lock, and the pod is never locked: two overlapping changes leave the
   group to somebody outside it, or to nobody. `GroupOwners.cfg`.
3. **A removed member loses membership in one atomic act** (`removal.py:3`). An insert into a
   group, decided before the removal, waits for its lock and succeeds. `Removal.cfg`.
4. **Every credential class is dead** (`revocation.py:245`, with `:105` on invites). A link
   authorised before its maker's removal and inserted after it was voided by nobody.
   `InviteAfterRemoval.cfg`.
5. **A refused mail kills no delivered link** (`digest_send.py:187`). The send path keeps it, by
   its savepoint; the reply nudge (`notifications.py:101`) rotates the same token outside a
   transaction and swallows the refusal. `WayOut.cfg`.
6. **"Anything the post did NOT get is said out loud"** (`feed_views.py:730`). A handle that
   another tab's session copy has dropped from the manifest is claimed in silence.
   `NothingIsLostInSilence` as an INVARIANT of `Staging.cfg`, by hand.
7. **Deleted media do not linger** (`media.py:381`). What the composer, which is not atomic
   (`feed_views.py:713`), attaches after the purge has looked stays on the volume.
   `NothingLingers` as an INVARIANT of `Media.cfg`, by hand.
8. **The first take-down stays on record** (`moderation.py:31`). Two moderators read the same
   live post; the second overwrites `moderated_by`. `Takedown.cfg`.
9. **A budget spent on others leaves nobody out** ("the next post notifies them", `push.py:442`).
   Two devices that hang take a budget of two every time: a timeout is not counted (`push.py:393`),
   so they are never deleted, and they are never delivered to, so they come first. `EveryoneHears`
   says how many may hang; `NobodyStarves`, which does not, is violated. `Starved.cfg`.
10. **A confirmation is spent on one change** (`household_views.py`). Two overlapping second
    submits both find the nonce in their copies of the session. `TwiceSpent.cfg`. And a change
    committed between the fingerprint and the lock *within* the second submit is not noticed:
    `PageAndActAgree` as a PROPERTY of `Memberships.cfg`, by hand.
11. **A dead nightly job is reported** (`backup_instance.py:66`). If it dies without a word and
    somebody backs up by hand, neither line of the health page alarms. `DeadJobAlarms` as an
    INVARIANT of `Backups.cfg`, by hand.
12. **The wipe takes nothing real** (`demo_data.py:524`). A reply committed between the look and
    the deletion goes with its post; and somebody who moves meanwhile may be stranded
    (`demo_data.py:285`). `RealRepliesStay`, `NobodyStranded` as PROPERTIES of `Demo.cfg`, by hand.
13. **An instance has an admin.** Two who demote or remove each other at once leave none
    (`admin_views.py:376`); nothing in the code promises otherwise. `Leaderless.cfg`.
14. **A thread names nobody of another side** (`scoping.py:102`: a bridging post filters "reactors and
   comments per the viewer's yard"). The viewer's yards are read before the rows they select
   (`member_yard_ids`, an eager set): a reader who leaves a side in between can be shown somebody who
   joins that side just then, though the two never shared one. `NamedAreNear` as a PROPERTY of
   `Thread.cfg`, by hand.
15. **The removed are out of every pod** (`removal.py:3`). The insert of item 3, seen by a reader: what
   they wrote in threads of that group's side is shown again. `AllRemovedAreOut` as an INVARIANT of
   `Thread.cfg`, by hand.
16. **A restore replaces the media tree** (`backups.py:450`). Not when the archive has none
   (`backups.py:469`): pictures that no row knows any more stay on the volume. `TreeReplaced` as a
   PROPERTY of `Backups.cfg`, by hand.

Seen while modelling and built into the models as the code has it, or in code beside what is
modelled:

* A stale edit changes the words of a post deleted meanwhile (`posting.py:184`); a compose that
  races a removal which deletes content lands after it and stays.
* Removal under "keep" hides the member's replies and reactions from everyone, through the
  audience queries, although `removal.py` says their rows remain so that threads still read.
* `DatabaseCache.incr` resets the row's lifetime to the cache's default, so the hourly ceilings
  of `inbound.py:59` are not hourly.
* `mail_sources.poll` has no transaction around the ledger and the comment: a crash between them
  acknowledges a reply that was never posted.
* A post that is created clears the draft of another tab (`drafts.py`).
* "One retry is enough" of a push subscribe holds for two taps, not for three; the limit on
  devices is checked without a lock; a registration that changes hands in the middle of a
  fan-out still gets the notification of the member it had.
* A media step that fails after `pg_restore` leaves the archive's credentials alive until the
  restore is run again (`backups.py:303`); a `.partial` archive is never removed; an archive
  copied in under the name of a recorded night can be pruned; a file unlinked while the tree is
  archived fails the night.
* One refused address ends the health mail for those behind it (`health_email.py:77`); an
  expired certificate cannot be looked up, so the cached date is all there is.
* `demo_marking.py:357` builds a `select_for_update().values_list(...)` that is never evaluated;
  a marked member who later joins a real household is wiped all the same.

## 5. What is proved

For every value of the constants (any number of members, tokens, pods, requests, any bound),
from the named ASSUMEs of each module, which state only that the placeholder values differ
from the data, that rows of two tables are two rows, and that the parameters have their types.
Every safety property of every run is a theorem; what TLC alone checks is the list at the end.

`CredentialsProofs`
* `TypeCorrect`: `Spec => []TypeOK`.
* `RevocationIsFinal`: `Spec => []LiveIsFresh`. `LiveIsFresh` alone is not inductive: a mint in
  flight may carry an old generation. `FreshInv` adds that no row, request or archive is ahead
  of its member's generation, and that whatever carries the *current* generation was authorised
  in the current epoch; a revocation advances both counters, so all older carriers fall behind
  together. That is proved once for the shape of an ordinary step, then per action.
* `Refinement`: `Spec => DeadStaysDead`. Needs `DeadInv`: only drawn tokens find rows; an
  unused recovery link has set no password, so a hash that has been replaced never returns; an
  elder session of the current generation stands on a link that exists, so deleting the link
  ends it for good. Each step then maps to a step of `Capabilities` or to a stutter.

`MembershipsProofs`
* `TypeCorrect`, with `ShapeInvariant`: which pods a request of each kind is about.
* `LockInvariant`: a Member row has one holder, nobody else changes what the held member is in
  (`HeldStill`), so the household seen under the lock is still there at the commit and the
  sides counted there are still the ones lost.
* `NobodyIsStranded` (`HouseholdKept`) and `LossesAreRevoked` (`EveryLossIsRevoked`) follow.
* `GroupsPassOnInOrder` (`OrderlySuccession`): while nobody else has changed a group, every
  request in flight still knows its owner and its roster (`AllInStep`), and the heir it names is
  right. A request that overlaps another on a group makes the group raced as soon as one of
  the two ends.

`DigestProofs`: every property of the `digest` run.
* `BaseHolds`, the base of the others: types; `Locked` (one send is open at a time, it excludes a
  subscribe that has found a row, and its own window was open when it looked); and `Newest`, which
  carries along that every set of issues has a newest one, so that `Max` needs no induction.
  `TypeCorrect` is its first part.
* `OnlyProvenAddresses` (`ConfirmedIsProven`). `Proven` adds what the subscribe in flight has
  already decided (it may commit long after, but a proof is not taken back), and that the link a
  row waits for was mailed to the address the row is for, which holds because a drawn link is
  nobody's. `CancelledStay` (`CancelledSendsStay`) needs that and the locks.
* `PostsMailedOnce` (`EachPostOnce`). `Apart`: a side's windows do not overlap, because a new one
  opens where the newest has closed and the lock keeps it so until the commit; a kept message has
  the window of an issue, and no two have the same.
* `NothingPassedOver` (`NoPostPassedOver`). `Chained`: no gap, and the first window begins no
  later than the address was last proven; `Carried`: what still stands in a window that was not
  refused was there, and in the message, when it was sent.
* `OneLinkPerRun` (`RunSharesOneLink`), from `Linked`: a run remembers the link of all it had
  delivered, and no kept message is dated at the tick a run can start in. `RepliesOfNewest`
  (`RepliesFollowMail`) and `RunsKeepWayOut` (`RunKeepsWayOut`) follow step by step.

`InvitesProofs`: every property of the `invites` run. What is said of the database is said of the
archive too, because a restore makes the one the other.
* `TypeCorrect`; `LedgersAgree` (`LedgerAgrees`) and `FirstTakesTheRole` (`RoleGoesToTheFirst`)
  from `SoundInv`, which adds that rows are drawn links into households that exist.
* `OneAdminEach` (`OneAdminPerHousehold`): the property is about people and is not inductive; the
  invariant is about links. `OneGrant`: a household has one granting link, since only the mint
  that makes the household may carry a role (`Mints`); with `RoleGoesToTheFirst` it has one taker.
* `EndedStaysEnded` (`NoWayBack`): what is outdated is drawn, and gone or revoked unless a restore
  is unfinished; `SidesLost` shows that the filter of a household change covers what it loses.

`MembershipsProofs`, of `HouseholdPages`
* `PagesImplementMemberships`: every step of the pages is a step of `Memberships` or a stutter,
  so `PagesStrandNobody`, `PagesRevokeLosses` and `PagesPassOnInOrder` carry the theorems of
  `MembershipsProofs` over to the specification the run checks.
* `ConfirmedAsSaid` (`NothingUnsaid`), from `PagesInv`: a request that acts holds a nonce whose
  page is what it is about to do, because the session's fingerprint is the page's with that nonce
  (whichever copy was written last), and what the act gains and loses depends only on the member's
  pods, which are those it read.

`PostsProofs`, of `Thread`
* `RemovedGoUnheard` (`RemovedAreUnheard`), from `OutOfAllPods`: a removed person who has not
  slipped into a group is in no pod, and every query of `scoping.py` goes through a membership. It is
  proved for whatever sides the reader's own query has found, however old.
* `PagesKeepSidesApart` (`SidesStayApart`), from `PagesRemember`: the sides a page goes by are of
  those its reader has been on since it was asked for, and whoever is on one of these is remembered
  in `met`, whenever they come to it; so are all the names it has gathered.
* `GoneForGood` (`GoneStaysGone`): every request writes columns, and the columns of a tombstone
  are only ever set.

`PostsProofs`, of `Staging`
* `StagedTyped`, with `Drawn`: every handle in the session or in a request's copy of it has been
  drawn, so a new draft's handle is in none of them.
* `NothingGoesUnsaid` (`ShortfallIsSpoken`), from `Spoken`: while a claim is being read, each file
  named is still to be read, in hand, or told of; what is read goes into the post until it is full.
* `WordsKeepTheirPictures` (`WordsAndPicturesInStep`). The property speaks of a session at rest;
  `InStep` adds what the one request under way holds. Its own handle is out of its copy's manifest,
  what its copy names is on disk, its draft's pictures are among them once it has bounced, and a
  request that has changed nothing still sees the session it read. Evicting the oldest drafts
  unlinks just the files that leave the manifest, because no two drafts share a file.

`MediaProofs`: every safety property of the `media` run.
* `MediaTyped`, with `InShape`: what a request of each kind carries at each of its steps.
* `DeletionsPurge` (`DeletedIsPurged`). `Once`: an asset is stored, doomed or about to be stored by
  one request only; `NoneOverlooked`: whatever a deletion that has looked will leave behind is known
  to be late. A face belongs to no post or reply, so it is never late.
* `FilesAgreeWithRows` (`FilesAndRows`). Its first half is `Backed` (only what a committed purge
  names is unlinked, and `Once` says that no row comes back under that name); its second half is
  `Tallied`, which counts a file as a row's or as one of a request's or the worker's, while nothing
  has crashed and no purge was overtaken.

`OperationsProofs`, of `Backups`
* `TypesHold`, with `Remembered`: a restore rolls the ledger back to days of this box's own history.
* `ArchivesHoldTheirPictures` (`ArchiveHoldsItsPictures`), from `Complete`: the dump comes before
  the tree, so what the tree lacks has been purged since the dump.
* `RetentionHolds` (`RetentionKeeps`): `NeededIn`, being among the newest days or weeks of a set of
  days, holds all the more of a smaller set; `prune` looks at fewer archives than were ever made, so
  what is needed among all is needed among those it looks at, and it keeps that. Counting weeks needs
  the library's facts on finite sets, no induction.
* `HealthTellsTheTruth` (`HealthIsHonest`), from `Honest`: what the ledger says last is no newer
  than an archive on the disk, after a restore too, because an archive knows of nothing newer than
  itself.
* `RestoresComeRight`: `[][RestoredRight]_vars`, the second half of `RestoreComesRight`. `OnItsWay`
  says what each step of a restore leaves for the next; being cut short sends it to the first. Of an
  archive without a media tree it says instead that the media follow from its rows and the files there
  are (`MediaIs`), and `RestoreStepFinds` that no step changes which files those are.

`OperationsProofs`, of `Instance`
* `OneFounder` (`OneSetup`), from `SetupInv`: one form at a time is past the lock on the token
  row, only while there is no founder; a container that is down has no form under way; a boot
  half way through has hashed the newest secret, which is the one it then writes to the file.
* `NothingRunsOutUnseen` (`NoSurprise`), from `WatchInv`: what is cached under the present name
  is never more than what is left; days take from both, and a renewal, which alone adds, leaves
  the cache too gloomy and never too bright.

`DeliveryProofs`, of `Inbound`
* `OneCommentEach`: the safety half of `RepliesSettleOnce`. `SoundInv`: no two
  requests have inserted the same ledger row; a request on its way to a comment has inserted one
  that is not there yet; a mail that has a comment, one at most, is in the ledger.
* `DeadStaySilent` (`DeadAddressesAreSilent`) and `AnswersLeaveTraces` (`AnsweredLeavesATrace`).

`DeliveryProofs`, of `Push`
* `WithoutIs`: what is left of a list when some rows go, for a list of any length. The function is
  recursive; the induction is made by hand, as the least index at which the claim fails (`Least`,
  from the library's `WFMin`), first that the function exists, then what its values are.
* `RegistrationsTyped` and `RefusalsDecideAlone` (`RefusalsDecide`), from `Agree`. Its `Ledger`: a
  registration is in one of the two lists, once, and `consecutive_failures` is the number of
  refusals its service gave in a row. Its `ToDo`: the fan-out names each key once, and what it read
  of a registration that still stands is still so, since the fan-out itself is the only one that
  counts and no new registration takes a key it holds. Without the second half a count written back
  from a stale read would end a registration early.

`DeliveryProofs`, of `Demo`
* `DemoTyped`, `RealPostsAreLeft` (`RealPostsStay`) and `HomesAreLeft` (`HomesSurvive`), from
  `Careful`: while the wipe is under way, what it has locked is what it will delete; no live post of
  somebody real lies in a pod that goes, since a new one would need a lock on the pod; and who has a
  home and has not moved has one outside of what goes, which the making of pods on sides that stay
  does not disturb.

The type theorems (`TypeCorrect`, `MediaTyped`, `TypesHold`, `StagedTyped`, `RegistrationsTyped`,
`DemoTyped`) and `OneLinkPerRun` are theorems only; no run lists `TypeOK` or `RunSharesOneLink`,
which the inductive invariants contain. The invariants above were checked on the runs' instances
before they were proved.

Model-checked only: what is liveness under fairness, which is out of the prover's reach.
`SecretGoesAway`, `AlarmIsHeard`, `ClipsResolve`, `BytesDoNotLinger`, `EveryoneHears`, the first half
of `RestoreComesRight` (a restore once begun is carried to its end) and the liveness half of
`RepliesSettleOnce`. The definitions of section 4 are false and have no theorem.

## 6. Not modelled, and why

* *Supervised members, profiles, house rules, captions, mute settings*: forms that write single
  rows. A supervised child's creation is `Memberships`' join, a face is `Media`'s, mutes are a
  constant of `Thread`.
* *Mail transport, forms, templates, rendering, image and video decoding, MIME parsing, archive
  encryption, push encryption*: libraries and I/O. Each succeeds or fails; where the code reacts
  to a failure, the model has it as an action.
* *Break-glass*: Django's password-reset token, single use by the password hash it is made from.
* *Rate limits and ceilings*: counters of a cache. In `Inbound` a ceiling may be reached at any time.
* *`mail_sources.poll`*: the second ingress, without a transaction (section 4).
* *Metrics, disk space, exports, audit rows*: read-only aggregates, or rows no step reads.
* *Cadences* differ only in the length of a period.

## 7. What is left

1. `mail_sources.poll` as a second ingress beside the webhook, against the same `ReplyBox`.
2. Break-glass, profiles and supervised members.

## 8. Running it

    for m in Credentials Memberships Invites Digest Staging Media Inbound Push Backups Thread \
             Instance Demo; do tlc -workers 2 -config $m.cfg MC$m.tla; done

    for m in Credentials Memberships Invites Digest Posts Media Operations Delivery; do
        tlapm ${m}Proofs.tla; done
