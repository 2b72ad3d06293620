------------------------------- MODULE Digest -------------------------------
(***************************************************************************)
(* One member's Family email: enrolling and proving an address             *)
(* (core/digesting.py, core/signals.py), the runs that send one message    *)
(* per side of the family (core/digest_send.py), the reply nudge that      *)
(* shares its way out (core/notifications.py), and the reply addresses a   *)
(* message carries (core/reply_addresses.py).                              *)
(*                                                                         *)
(* A tick of `now` is the resolution of every timestamp.  The locks on the *)
(* subscription and its member that a send holds from its first read to    *)
(* its commit are kept by Sending, so a send is two steps: what it found   *)
(* worth sending, and how it ended.  Addresses stand for mailboxes.        *)
(***************************************************************************)
EXTENDS Naturals, FiniteSetsExt

CONSTANTS
    Yards,          \* the sides of the family
    Posts,          \* posts that may ever be written
    Addresses, Own, \* mailboxes, and the one the member signs in with
    Runs,           \* slots for runs: the worker's, and the command's
    Period,         \* the cadence
    Nothing,        \* no row, an idle slot, a null column
    MaxLinks,       \* bound on the raw confirm and unsubscribe tokens alive
    MaxNow,         \* bound on the clock
    MaxActs         \* bound on what the member and the transport do unasked

ASSUME OwnAssumption == Own \in Addresses
ASSUME PeriodAssumption == Period \in Nat \ {0}
ASSUME BoundsAssumption == MaxLinks \in Nat /\ MaxNow \in Nat /\ MaxActs \in Nat
ASSUME NothingAssumption == Nothing \notin Yards /\ Nothing \notin Nat

VARIABLES
    now,
    verified,   \* EmailAddress.verified of Own
    sub,        \* the DigestSubscription row
    form,       \* the subscribe() in flight, as far as it has read
    on,         \* the sides the member's pods reach
    posts,      \* the Post rows
    issues,     \* DigestIssue with its DigestDelivery
    replies,    \* replies[y]: the issue whose ReplyAddress rows are current
    runs,       \* send_due_digests in progress
    nudge,      \* the notify_reply that has rotated and not yet mailed
    mails,      \* history: digests the relay accepted
    letters,    \* history: confirmations mailed, <<address, link>>
    held,       \* history: unsubscribe links in delivered messages
    lastLink,   \* history: the newest one that worked when it was mailed
    proven,     \* history: addresses whose holder tapped a link mailed there
    acts

inbox == <<mails, letters, held, lastLink, proven>>
vars == <<now, verified, sub, form, on, posts, issues, replies, runs, nudge,
          inbox, acts>>

Times == 0 .. MaxNow
Links == 1 .. MaxLinks
Maybe(S) == {Nothing} \cup S
Subscription ==
    [address : Addresses, enabled : BOOLEAN, confirmed : Maybe(Times),
     confirm : Maybe(Links), stop : Maybe(Links)]
Form == [address : Addresses, own : BOOLEAN, confirmed : Maybe(Times),
         locks : BOOLEAN]
(* `at` is created_at; a late post was committed after that tick.           *)
Post == [yards : SUBSET Yards, at : Times, late : BOOLEAN, down : BOOLEAN]
Issue == [yard : Yards, from : Times, to : Times, refused : BOOLEAN]
ASSUME RowsAssumption == Nothing \notin Subscription /\ Nothing \notin Post

(* `todo` is Nothing until visible_yards is read; `sending` is the side     *)
(* whose transaction is open.                                               *)
Run == [at : Times, todo : Maybe(SUBSET Yards), raw : Maybe(Links),
        sending : Maybe(Yards)]
(* `kept` is FALSE when the transaction was lost after the relay accepted.  *)
Mail == [yard : Yards, from : Times, to : Times, run : Runs,
         posts : SUBSET Posts, link : Links, kept : BOOLEAN]

TypeOK ==
    /\ now \in Times
    /\ verified \in BOOLEAN
    /\ sub \in Maybe(Subscription)
    /\ form \in Maybe(Form)
    /\ on \subseteq Yards
    /\ posts \in [Posts -> Maybe(Post)]
    /\ issues \subseteq Issue
    /\ replies \in [Yards -> Maybe(Times)]
    /\ runs \in [Runs -> Maybe(Run)]
    /\ nudge \in Maybe(Links)
    /\ mails \subseteq Mail
    /\ letters \subseteq Addresses \X Links
    /\ held \subseteq Links
    /\ lastLink \in Maybe(Links)
    /\ proven \subseteq Addresses
    /\ acts \in 0 .. MaxActs

Init ==
    /\ now = 0
    /\ verified \in BOOLEAN
    /\ sub = Nothing /\ form = Nothing
    /\ on = Yards
    /\ posts = [p \in Posts |-> Nothing]
    /\ issues = {}
    /\ replies = [y \in Yards |-> Nothing]
    /\ runs = [r \in Runs |-> Nothing]
    /\ nudge = Nothing
    /\ mails = {} /\ letters = {} /\ held = {} /\ lastLink = Nothing
    /\ proven = IF verified THEN {Own} ELSE {}
    /\ acts = 0

-----------------------------------------------------------------------------
Act == acts < MaxActs /\ acts' = acts + 1

(* secrets.token_urlsafe(32): nothing anybody holds, or a row remembers.    *)
(* Its number is only a name, so a draw takes the least one free.           *)
Known ==
    held \cup {letter[2] : letter \in letters}
         \cup {runs[r].raw : r \in {s \in Runs : runs[s] # Nothing}}
         \cup {nudge}
         \cup (IF sub = Nothing THEN {} ELSE {sub.confirm, sub.stop})
Draws(known) == {l \in Links \ known : \A k \in Links \ known : l <= k}
Fresh == Draws(Known)

(* select_for_update, by a send (the member's row too) and by a subscribe   *)
(* that found a row.                                                        *)
Sending == \E r \in Runs : runs[r] # Nothing /\ runs[r].sending # Nothing
Unlocked_Always == TRUE              \* mutation: select_for_update forgotten
Unlocked == ~Sending /\ (form # Nothing => ~form.locks)

Enrolled == sub # Nothing
Wanted == Enrolled /\ sub.enabled /\ sub.confirmed # Nothing

-----------------------------------------------------------------------------
(* Enrolling and proving.                                                   *)

(* digesting.subscribe, the first branch: the same confirmed address.       *)
Resubscribe(a) ==
    /\ form = Nothing /\ Enrolled /\ Unlocked
    /\ sub.address = a /\ sub.confirmed # Nothing
    /\ Act
    /\ sub' = [sub EXCEPT !.enabled = TRUE]
    /\ UNCHANGED <<now, verified, form, on, posts, issues, replies, runs,
                   nudge, inbox>>

(* What digesting.subscribe writes to confirmed_at: the sign-in address is  *)
(* proven when it is verified, and stays so if it already was here.         *)
ConfirmedFor_Kept(a) ==              \* mutation: a confirmed row is never un-confirmed
    CASE a = Own /\ verified -> now
      [] Enrolled            -> sub.confirmed
      [] OTHER               -> Nothing
ConfirmedFor(a) ==
    CASE a = Own /\ verified                      -> now
      [] a = Own /\ Enrolled /\ sub.address = Own -> sub.confirmed
      [] OTHER                                    -> Nothing

(* digesting.subscribe up to what it decides from: the row, locked if there *)
(* is one, and the sign-in address.  `respelled`: the confirmed mailbox,    *)
(* typed another way.                                                       *)
OpenSubscribe(a, respelled) ==
    /\ form = Nothing
    /\ Enrolled => Unlocked
    /\ (Enrolled /\ sub.address = a /\ sub.confirmed # Nothing) => respelled
    /\ Act
    /\ form' = [address |-> a, own |-> a = Own, locks |-> Enrolled,
                confirmed |-> ConfirmedFor(a)]
    /\ UNCHANGED <<now, verified, sub, on, posts, issues, replies, runs,
                   nudge, inbox>>

(* Its write and commit: the own address mints no confirm token, any other  *)
(* one is mailed a letter.  The new unsubscribe token is in no message.     *)
CommitSubscribe ==
    /\ form # Nothing
    /\ \E confirm \in Fresh : \E stop \in Draws(Known \cup {confirm}) :
        /\ sub' = [address |-> form.address, enabled |-> TRUE,
                   confirmed |-> form.confirmed,
                   confirm |-> IF form.own THEN Nothing ELSE confirm,
                   stop |-> stop]
        /\ letters' = IF form.own THEN letters
                                  ELSE letters \cup {<<form.address, confirm>>}
    /\ form' = Nothing
    /\ lastLink' = Nothing
    /\ UNCHANGED <<now, verified, on, posts, issues, replies, runs, nudge,
                   mails, held, proven, acts>>

(* Refused by a view, or its letter refused by the relay: all rolled back.  *)
AbandonSubscribe ==
    /\ form # Nothing
    /\ form' = Nothing
    /\ UNCHANGED <<now, verified, sub, on, posts, issues, replies, runs,
                   nudge, inbox, acts>>

(* digesting.confirm, signed in as the member, with the link of a letter.   *)
Confirm(a, link) ==
    /\ <<a, link>> \in letters
    /\ Enrolled /\ sub.confirm = link
    /\ Unlocked
    /\ sub' = [sub EXCEPT !.confirmed = now, !.confirm = Nothing]
    /\ proven' = proven \cup {a}
    /\ UNCHANGED <<now, verified, form, on, posts, issues, replies, runs,
                   nudge, mails, letters, held, lastLink, acts>>

(* The tap on the account confirmation, and the email_confirmed receiver:   *)
(* an UPDATE that waits only for a row that matches as last committed.      *)
ReceiverMatches_AnyAddress ==        \* mutation: address__iexact dropped
    Enrolled /\ sub.confirmed = Nothing
ReceiverMatches == Enrolled /\ sub.address = Own /\ sub.confirmed = Nothing

TapAccountLink ==
    /\ ~verified
    /\ ReceiverMatches => Unlocked
    /\ sub' = IF ReceiverMatches
              THEN [sub EXCEPT !.confirmed = now, !.confirm = Nothing]
              ELSE sub
    /\ verified' = TRUE
    /\ proven' = proven \cup {Own}
    /\ UNCHANGED <<now, form, on, posts, issues, replies, runs, nudge, mails,
                   letters, held, lastLink, acts>>

(* digesting.set_enabled, and unsubscribe with a link from a message.       *)
SetEnabled(b) ==
    /\ Enrolled /\ Unlocked /\ sub.enabled # b
    /\ Act
    /\ sub' = [sub EXCEPT !.enabled = b]
    /\ UNCHANGED <<now, verified, form, on, posts, issues, replies, runs,
                   nudge, inbox>>

Unsubscribe(link) ==
    /\ link \in held
    /\ Enrolled /\ sub.stop = link
    /\ Unlocked /\ sub.enabled
    /\ sub' = [sub EXCEPT !.enabled = FALSE]
    /\ UNCHANGED <<now, verified, form, on, posts, issues, replies, runs,
                   nudge, inbox, acts>>

-----------------------------------------------------------------------------
(* The family around the subscription.                                      *)

Voided == [sub EXCEPT !.confirm = Nothing, !.stop = Nothing]

(* revocation.revoke_for_membership_shrink: the emailed links die.          *)
LoseSide(y) ==
    /\ y \in on /\ Unlocked
    /\ Act
    /\ on' = on \ {y}
    /\ sub' = IF Enrolled THEN Voided ELSE sub
    /\ lastLink' = Nothing
    /\ UNCHANGED <<now, verified, form, posts, issues, replies, runs, nudge,
                   mails, letters, held, proven>>

(* revocation.revoke_member_credentials and removal: the email stops too.   *)
Remove ==
    /\ on # {} /\ Unlocked
    /\ Act
    /\ on' = {}
    /\ sub' = IF Enrolled THEN [Voided EXCEPT !.enabled = FALSE] ELSE sub
    /\ lastLink' = Nothing
    /\ UNCHANGED <<now, verified, form, posts, issues, replies, runs, nudge,
                   mails, letters, held, proven>>

(* households.add_to_household, which locks the member.                     *)
GainSide(y) ==
    /\ y \notin on /\ ~Sending
    /\ Act
    /\ on' = on \cup {y}
    /\ UNCHANGED <<now, verified, sub, form, posts, issues, replies, runs,
                   nudge, inbox>>

(* posting.create_post, at its commit: created_at was stamped at the        *)
(* INSERT, maybe a tick before.  delete_post and moderation end the post.   *)
CommitPost(p, yards, at) ==
    /\ posts[p] = Nothing /\ yards # {} /\ at <= now
    /\ posts' = [posts EXCEPT ![p] = [yards |-> yards, at |-> at,
                                      late |-> at # now, down |-> FALSE]]
    /\ UNCHANGED <<now, verified, sub, form, on, issues, replies, runs, nudge,
                   inbox, acts>>
DeletePost(p) ==
    /\ posts[p] # Nothing /\ ~posts[p].down
    /\ posts' = [posts EXCEPT ![p].down = TRUE]
    /\ UNCHANGED <<now, verified, sub, form, on, issues, replies, runs, nudge,
                   inbox, acts>>

Tick ==
    /\ now < MaxNow
    /\ now' = now + 1
    /\ UNCHANGED <<verified, sub, form, on, posts, issues, replies, runs,
                   nudge, inbox, acts>>

-----------------------------------------------------------------------------
(* notifications.notify_reply, on the worker and outside a transaction: the *)
(* rotation commits, then the message is tried.                             *)

NudgeRotate ==
    /\ nudge = Nothing
    /\ Wanted /\ Unlocked
    /\ Act
    /\ \E link \in Fresh :
        /\ nudge' = link
        /\ sub' = [sub EXCEPT !.stop = link]
    /\ UNCHANGED <<now, verified, form, on, posts, issues, replies, runs, inbox>>

NudgeMail(delivered) ==
    /\ nudge # Nothing
    /\ nudge' = Nothing
    /\ IF delivered
       THEN /\ held' = held \cup {nudge}
            /\ lastLink' = IF sub.stop = nudge THEN nudge ELSE lastLink
       ELSE UNCHANGED <<held, lastLink>>
    /\ UNCHANGED <<now, verified, sub, form, on, posts, issues, replies, runs,
                   mails, letters, proven, acts>>

-----------------------------------------------------------------------------
(* send_due_digests.                                                        *)

IssuesOf(y) == {i \in issues : i.yard = y}
Ends(S) == {i.to : i \in S}

(* digesting.due_recipients: enabled, confirmed, in a pod, and a period     *)
(* after the newest issue of any side.                                      *)
Anchor == IF issues = {} THEN sub.confirmed ELSE Max(Ends(issues))
Due == Wanted /\ on # {} /\ Anchor + Period <= now

(* _send_one: this side's own anchor.                                       *)
WindowStart_Member(y) == Anchor      \* mutation: a sibling's success anchors
WindowStart(y) ==
    IF IssuesOf(y) = {} THEN sub.confirmed ELSE Max(Ends(IssuesOf(y)))

(* digest_links.window_posts of this side, over visible_posts.              *)
Visible(p) ==
    /\ posts[p] # Nothing /\ ~posts[p].down
    /\ posts[p].yards \cap on # {}
InWindow_Closed(p, y, from, to) ==   \* mutation: both ends included
    Visible(p) /\ y \in posts[p].yards /\ from <= posts[p].at /\ posts[p].at <= to
InWindow_Open(p, y, from, to) ==     \* mutation: neither end included
    Visible(p) /\ y \in posts[p].yards /\ from < posts[p].at /\ posts[p].at < to
InWindow(p, y, from, to) ==
    Visible(p) /\ y \in posts[p].yards /\ from <= posts[p].at /\ posts[p].at < to
WindowPosts(y, to) == {p \in Posts : InWindow(p, y, WindowStart(y), to)}

StartRun(r) ==
    /\ runs[r] = Nothing
    /\ Due
    /\ runs' = [runs EXCEPT ![r] = [at |-> now, todo |-> Nothing,
                                    raw |-> Nothing, sending |-> Nothing]]
    /\ UNCHANGED <<now, verified, sub, form, on, posts, issues, replies,
                   nudge, inbox, acts>>

ListYards(r) ==
    /\ runs[r] # Nothing /\ runs[r].todo = Nothing
    /\ runs' = [runs EXCEPT ![r].todo = on]
    /\ UNCHANGED <<now, verified, sub, form, on, posts, issues, replies,
                   nudge, inbox, acts>>

Turn(r, y) ==
    /\ runs[r] # Nothing /\ runs[r].todo # Nothing
    /\ y \in runs[r].todo /\ runs[r].sending = Nothing
    /\ Unlocked

(* _send_one to its last early return: the subscription and the side again, *)
(* the window, and the first look at what is in it.                         *)
Worth_DueWasEnough(r, y) ==          \* mutation: on, and the side, not read again
    /\ Enrolled /\ sub.confirmed # Nothing
    /\ WindowStart(y) < runs[r].at
    /\ WindowPosts(y, runs[r].at) # {}
Worth(r, y) ==
    /\ Wanted /\ y \in on
    /\ WindowStart(y) < runs[r].at
    /\ WindowPosts(y, runs[r].at) # {}

Skip(r, y) ==
    /\ Turn(r, y) /\ ~Worth(r, y)
    /\ runs' = [runs EXCEPT ![r].todo = @ \ {y}]
    /\ UNCHANGED <<now, verified, sub, form, on, posts, issues, replies,
                   nudge, inbox, acts>>
Look(r, y) ==
    /\ Turn(r, y) /\ Worth(r, y)
    /\ runs' = [runs EXCEPT ![r].sending = y]
    /\ UNCHANGED <<now, verified, sub, form, on, posts, issues, replies,
                   nudge, inbox, acts>>

(* The token the message carries: the run's, or one rotated here.           *)
StopLinks_MintedEarlier(r) == {runs[r].raw}   \* mutation: nobody mints it
StopLinks(r) == IF runs[r].raw = Nothing THEN Fresh ELSE {runs[r].raw}

Done_DropsLink(r, raw) ==            \* mutation: the link is not passed on
    runs' = [runs EXCEPT ![r].todo = @ \ {runs[r].sending},
                         ![r].sending = Nothing, ![r].raw = Nothing]
Done(r, raw) ==
    runs' = [runs EXCEPT ![r].todo = @ \ {runs[r].sending},
                         ![r].sending = Nothing, ![r].raw = raw]

NewIssue(r, refused) ==
    [yard |-> runs[r].sending, from |-> WindowStart(runs[r].sending),
     to |-> runs[r].at, refused |-> refused]
NewMail(r, built, link, kept) ==
    [yard |-> runs[r].sending, from |-> WindowStart(runs[r].sending),
     to |-> runs[r].at, run |-> r, posts |-> built, link |-> link, kept |-> kept]

(* The second look: the posts have gone, and the window with them.          *)
FindEmpty(r) ==
    /\ runs[r] # Nothing /\ runs[r].sending # Nothing
    /\ WindowPosts(runs[r].sending, runs[r].at) = {}
    /\ Done(r, runs[r].raw)
    /\ UNCHANGED <<now, verified, sub, form, on, posts, issues, replies,
                   nudge, inbox, acts>>

(* The relay takes the message and the transaction commits.                 *)
Deliver(r) ==
    LET y == runs[r].sending
        built == WindowPosts(y, runs[r].at)
    IN  /\ runs[r] # Nothing /\ y # Nothing /\ built # {}
        /\ \E link \in StopLinks(r) :
            /\ sub' = IF runs[r].raw = Nothing THEN [sub EXCEPT !.stop = link]
                                               ELSE sub
            /\ mails' = mails \cup {NewMail(r, built, link, TRUE)}
            /\ held' = held \cup {link}
            /\ lastLink' = IF sub'.stop = link THEN link ELSE lastLink
            /\ Done(r, link)
        /\ issues' = issues \cup {NewIssue(r, FALSE)}
        /\ replies' = [replies EXCEPT ![y] = WindowStart(y)]
        /\ UNCHANGED <<now, verified, form, on, posts, nudge, letters, proven, acts>>

(* The relay refuses: the savepoint undoes the rotation and the addresses;  *)
(* the issue and the refusal stay.                                          *)
RecordRefusal(r) ==
    /\ runs[r] # Nothing /\ runs[r].sending # Nothing
    /\ WindowPosts(runs[r].sending, runs[r].at) # {}
    /\ Done(r, runs[r].raw)
    /\ issues' = issues \cup {NewIssue(r, TRUE)}
    /\ UNCHANGED <<now, verified, form, on, posts, nudge, inbox, acts>>
Refuse_KeepsRotation(r) ==           \* mutation: the rotation is not undone
    /\ RecordRefusal(r)
    /\ \E link \in StopLinks(r) : sub' = [sub EXCEPT !.stop = link]
    /\ UNCHANGED replies
Refuse_KeepsAddresses(r) ==          \* mutation: nor are the reply addresses
    /\ RecordRefusal(r)
    /\ replies' = [replies EXCEPT ![runs[r].sending] = WindowStart(runs[r].sending)]
    /\ UNCHANGED sub
Refuse(r) == RecordRefusal(r) /\ UNCHANGED <<sub, replies>>

(* An exception, or a commit lost after the relay had accepted: the side is *)
(* rolled back whole and the run goes on with the next.                     *)
Crash(r) ==
    /\ runs[r] # Nothing /\ runs[r].sending # Nothing
    /\ Done(r, runs[r].raw)
    /\ UNCHANGED <<now, verified, sub, form, on, posts, issues, replies,
                   nudge, inbox, acts>>
LoseCommit(r) ==
    /\ runs[r] # Nothing /\ runs[r].sending # Nothing
    /\ WindowPosts(runs[r].sending, runs[r].at) # {}
    /\ Act
    /\ \E link \in StopLinks(r) :
        /\ mails' = mails \cup {NewMail(r, WindowPosts(runs[r].sending, runs[r].at),
                                        link, FALSE)}
        /\ held' = held \cup {link}
    /\ Done(r, runs[r].raw)
    /\ UNCHANGED <<now, verified, sub, form, on, posts, issues, replies,
                   nudge, letters, lastLink, proven>>

(* The run is through, or its process is killed wherever it stands.         *)
EndRun(r) ==
    /\ runs[r] # Nothing
    /\ runs' = [runs EXCEPT ![r] = Nothing]
    /\ UNCHANGED <<now, verified, sub, form, on, posts, issues, replies,
                   nudge, inbox, acts>>

-----------------------------------------------------------------------------
MemberSteps ==
    \/ \E a \in Addresses : Resubscribe(a)
    \/ \E a \in Addresses, respelled \in BOOLEAN : OpenSubscribe(a, respelled)
    \/ CommitSubscribe
    \/ AbandonSubscribe
    \/ \E a \in Addresses, link \in Links : Confirm(a, link)
    \/ TapAccountLink
    \/ \E b \in BOOLEAN : SetEnabled(b)
    \/ \E link \in Links : Unsubscribe(link)

FamilySteps ==
    \/ \E y \in Yards : LoseSide(y) \/ GainSide(y)
    \/ Remove
    \/ \E p \in Posts, yards \in SUBSET Yards, at \in Times : CommitPost(p, yards, at)
    \/ \E p \in Posts : DeletePost(p)
    \/ Tick

RunSteps(r) ==
    \/ StartRun(r) \/ ListYards(r)
    \/ \E y \in Yards : Skip(r, y) \/ Look(r, y)
    \/ FindEmpty(r) \/ Deliver(r) \/ Refuse(r)
    \/ Crash(r) \/ LoseCommit(r) \/ EndRun(r)

Next ==
    \/ MemberSteps
    \/ FamilySteps
    \/ NudgeRotate
    \/ \E delivered \in BOOLEAN : NudgeMail(delivered)
    \/ \E r \in Runs : RunSteps(r)

Spec == Init /\ [][Next]_vars

-----------------------------------------------------------------------------
(* Family content only ever follows an address whose holder has tapped a    *)
(* link that was mailed to it, however re-pointing, the letter, the account *)
(* confirmation and its receiver interleave (digesting.subscribe, confirm,  *)
(* signals.py).                                                             *)
ConfirmedIsProven == Wanted => sub.address \in proven

(* No side mails a post twice, except after a commit lost once the relay    *)
(* had accepted, which digest_send.py's "duplicate honesty" admits.         *)
EachPostOnce ==
    \A m, n \in mails :
        m # n /\ m.kept /\ n.kept /\ m.yard = n.yard => m.posts \cap n.posts = {}

(* The runs pass over no post that still stands: once a side's windows have *)
(* moved beyond it, one of them held it, and that window's message carried  *)
(* it unless the relay refused.  Excused are posts from before the address  *)
(* was confirmed, and a late post: its created_at may fall in a window that *)
(* had closed when it became visible.                                       *)
NoPostPassedOver ==
    \A p \in Posts, i \in issues :
        (/\ posts[p] # Nothing /\ ~posts[p].down /\ ~posts[p].late
         /\ Wanted /\ sub.confirmed <= posts[p].at
         /\ i.yard \in posts[p].yards /\ posts[p].at < i.to)
        => \E j \in IssuesOf(i.yard) :
            /\ j.from <= posts[p].at /\ posts[p].at < j.to
            /\ \/ j.refused
               \/ \E m \in mails : /\ m.kept /\ m.yard = j.yard
                                   /\ m.from = j.from /\ p \in m.posts

(* The reply addresses that are current on a side are those of the newest   *)
(* message that was delivered there: a refused or crashed send supersedes   *)
(* nothing (mint_for_issue inside _send_one's savepoint).                   *)
RepliesFollowMail ==
    \A y \in Yards :
        LET sent == {i \in IssuesOf(y) : ~i.refused}
        IN  IF sent = {} THEN replies[y] = Nothing
            ELSE \E i \in sent : i.to = Max(Ends(sent)) /\ replies[y] = i.from

(* The messages of one run share one way out: a later side's rotation would *)
(* kill the link of the first (send_due_digests).                           *)
RunSharesOneLink ==
    \A m, n \in mails :
        m.kept /\ n.kept /\ m.run = n.run /\ m.to = n.to => m.link = n.link

(* Whatever was decided when the run began, at the moment a message leaves  *)
(* the email is on, its address proven and the side still the member's      *)
(* (_send_one's re-check under lock; revocation's "cancel queued sends").   *)
CancelledSendsStay ==
    [][mails' # mails =>
        /\ Wanted /\ sub.address \in proven
        /\ \A m \in mails' \ mails : m.yard \in on /\ sub' # Nothing]_vars

(* However a run's step ends, it replaces the stored way out only with the  *)
(* one in a message that has been delivered (the savepoints of _send_one).  *)
RunKeepsWayOut ==
    [][runs' # runs /\ sub' # sub => sub'.stop = lastLink' /\ sub'.stop \in held']_vars

(* A way out that worked when it was mailed goes on working until a newer   *)
(* message has brought another, the member re-points the email, or a        *)
(* membership change voids it: no refused message may "kill the member's    *)
(* previously emailed link with no delivered replacement"                   *)
(* (digest_send.py:190).                                                    *)
WayOutSurvives ==
    lastLink # Nothing /\ nudge = Nothing => lastLink = sub.stop
=============================================================================
