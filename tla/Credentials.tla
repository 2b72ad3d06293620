----------------------------- MODULE Credentials -----------------------------
(***************************************************************************)
(* The life of every bearer credential a member holds and the one          *)
(* revocation act that ends them all (core/revocation.py), with the mints, *)
(* exchanges and restores that race it.                                    *)
(*                                                                         *)
(* One action is one committed database transaction.  A handler that reads *)
(* rows in one transaction, or before it takes a lock, and writes what it  *)
(* read later is a request: its reads are one action, which fills a slot   *)
(* of `req`, and its write is another.  Random 256-bit tokens are the      *)
(* members of Caps, and no two mints ever produce the same one.            *)
(*                                                                         *)
(* Not here: who may ask for each act (core/permissions.py), rate limits,  *)
(* invitations (they have no generation) and digest confirmation links.    *)
(***************************************************************************)
EXTENDS Naturals

CONSTANTS
    Members,          \* Member rows; removal keeps the row
    WithLogin,        \* the members who have a User account (elders have none)
    Caps,             \* tokens and session keys that may ever be drawn
    Requests,         \* slots for handlers in flight
    Nothing,          \* no row, an empty slot, no backup
    FirstPassword,    \* the password an account was created with
    MaxRevocations    \* bound on the revocation acts that reach one member

ASSUME LoginAssumption == WithLogin \subseteq Members
ASSUME BoundAssumption == MaxRevocations \in Nat
ASSUME PasswordAssumption == FirstPassword \notin Caps

VARIABLES
    gen,        \* gen[m]: Member.token_generation
    active,     \* the members whose account has User.is_active
    placed,     \* the members with a PodMembership
    enabled,    \* the members whose confirmed DigestSubscription is enabled
    pw,         \* pw[m]: the password hash, named by the link that set it
    rows,       \* rows[c]: the row, or the session, that token c finds
    req,        \* req[r]: what the handler in slot r has read so far
    backup,     \* the archive, once one is taken
    restored,   \* between pg_restore and the end of the security replay
    issued,     \* history: the tokens drawn so far
    born,       \* history: the revocation epoch token c was authorised in
    epoch       \* history: the revocation acts that have reached m

db == <<gen, active, placed, enabled, pw, rows>>
history == <<issued, born, epoch>>
vars == <<gen, active, placed, enabled, pw, rows, req, backup, restored,
          issued, born, epoch>>

Kinds == {"session", "elderSession", "elder", "recovery", "digest", "reply"}
(* Rows whose resolver compares minted_generation with token_generation.   *)
Generational == Kinds \ {"session"}
Passwords == Caps \cup {FirstPassword}

(* `spent` is used_at, superseded_at, voided_at or a passed expires_at:    *)
(* each is written once, each ends the row.                                *)
Row == [kind : Kinds, member : Members, gen : Nat, pw : Passwords,
        spent : BOOLEAN]
Rows == [Caps -> Row \cup {Nothing}]

ASSUME NothingAssumption == Nothing \notin Row

(* A handler in flight: its next step, the member it loaded, the generation *)
(* and password hash it read, the epoch it was authorised in (history) and  *)
(* the recovery rows its UPDATE statement found.                            *)
Ops == {"mint", "regenerate", "issue", "insert", "enter", "login"}
Request == [op : Ops, member : Members, gen : Nat, pw : Passwords,
            born : Nat, seen : SUBSET Caps]
Archive == [gen : [Members -> Nat], active : SUBSET Members,
            placed : SUBSET Members, enabled : SUBSET Members,
            pw : [Members -> Passwords], rows : Rows]

TypeOK ==
    /\ gen \in [Members -> Nat]
    /\ active \subseteq Members
    /\ placed \subseteq Members
    /\ enabled \subseteq Members
    /\ pw \in [Members -> Passwords]
    /\ rows \in Rows
    /\ req \in [Requests -> Request \cup {Nothing}]
    /\ backup \in Archive \cup {Nothing}
    /\ restored \in BOOLEAN
    /\ issued \subseteq Caps
    /\ born \in [Caps -> Nat]
    /\ epoch \in [Members -> Nat]

Init ==
    /\ gen = [m \in Members |-> 0]
    /\ active = WithLogin
    /\ placed = Members
    /\ enabled = Members
    /\ pw = [m \in Members |-> FirstPassword]
    /\ rows = [c \in Caps |-> Nothing]
    /\ req = [r \in Requests |-> Nothing]
    /\ backup = Nothing
    /\ restored = FALSE
    /\ issued = {}
    /\ born = [c \in Caps |-> 0]
    /\ epoch = [m \in Members |-> 0]

-----------------------------------------------------------------------------
(* Rows, and which of them resolve.                                        *)

Is(c, kind, m) == rows[c] # Nothing /\ rows[c].kind = kind /\ rows[c].member = m

HasElderLink(m) == \E c \in Caps : Is(c, "elder", m)

(* A browser session is honoured while the account is active and its auth  *)
(* hash matches; an elder session while its generation is the member's and *)
(* the member still has a link; a link while it is unspent and its         *)
(* generation is the member's.                                             *)
SessionResolves(row) == row.member \in active /\ row.pw = pw[row.member]
ElderSessionResolves(row) == row.gen = gen[row.member] /\ HasElderLink(row.member)
LinkResolves_AnyGeneration(row) == ~row.spent     \* mutation: no comparison
LinkResolves(row) == ~row.spent /\ row.gen = gen[row.member]

Live(c) ==
    /\ rows[c] # Nothing
    /\ rows[c].kind = "session" => SessionResolves(rows[c])
    /\ rows[c].kind = "elderSession" => ElderSessionResolves(rows[c])
    /\ rows[c].kind \notin {"session", "elderSession"} => LinkResolves(rows[c])

(* A session carries the password hash, everything else a generation.      *)
SessionRow(m, p) ==
    [kind |-> "session", member |-> m, gen |-> 0, pw |-> p, spent |-> FALSE]
LinkRow_Swapped(kind, m, g) ==      \* mutation: arguments swapped
    [kind |-> kind, member |-> g, gen |-> m, pw |-> FirstPassword, spent |-> FALSE]
LinkRow(kind, m, g) ==
    [kind |-> kind, member |-> m, gen |-> g, pw |-> FirstPassword, spent |-> FALSE]

Fresh(c) == c \in Caps \ issued

(* Token c is drawn by an act authorised in epoch e.                       *)
Draw(c, e) ==
    /\ Fresh(c)
    /\ issued' = issued \cup {c}
    /\ born' = [born EXCEPT ![c] = e]

-----------------------------------------------------------------------------
(* Requests.                                                               *)

Begin(r, op, m) ==
    /\ req[r] = Nothing
    /\ req' = [req EXCEPT ![r] =
                [op |-> op, member |-> m, gen |-> gen[m], pw |-> pw[m],
                 born |-> epoch[m], seen |-> {}]]
    /\ UNCHANGED <<db, backup, restored, history>>

Finish(r) == req' = [req EXCEPT ![r] = Nothing]

At(r, op) == req[r] # Nothing /\ req[r].op = op

(* The worker dies, or Postgres aborts the transaction to break a deadlock. *)
Abandon(r) ==
    /\ req[r] # Nothing
    /\ Finish(r)
    /\ UNCHANGED <<db, backup, restored, history>>

-----------------------------------------------------------------------------
(* The revocation registries: sessions, digest links, the elder link and   *)
(* the recovery links are deleted, reply addresses are voided, and the     *)
(* bump kills what carries a generation.  Elder sessions are keyed by      *)
(* member and not by user, so the session sweep leaves their rows alone.   *)

AfterRegistry(m, row) ==
    IF row = Nothing \/ row.member # m \/ row.kind = "elderSession" THEN row
    ELSE IF row.kind = "reply" THEN [row EXCEPT !.spent = TRUE]
    ELSE Nothing

RunSteps(m) == [c \in Caps |-> AfterRegistry(m, rows[c])]

Bump(m) ==
    /\ epoch[m] < MaxRevocations
    /\ gen' = [gen EXCEPT ![m] = @ + 1]
    /\ epoch' = [epoch EXCEPT ![m] = @ + 1]

(* removal.remove_member: a removed member may be removed again.           *)
Remove(m) ==
    /\ Bump(m)
    /\ rows' = RunSteps(m)
    /\ active' = active \ {m}
    /\ placed' = placed \ {m}
    /\ enabled' = enabled \ {m}
    /\ UNCHANGED <<pw, req, backup, restored, issued, born>>

(* households.remove_from_household: the member stays on the instance.     *)
Shrink(m) ==
    /\ m \in placed
    /\ Bump(m)
    /\ rows' = RunSteps(m)
    /\ UNCHANGED <<active, placed, enabled, pw, req, backup, restored, issued, born>>

(* pod_views.pod_leave when the leave drops a side: the same registry, and *)
(* the browser that pressed the button is signed in again under new key c. *)
LeaveLosingASide(m, old, c) ==
    /\ m \in placed
    /\ Is(old, "session", m) /\ Live(old)
    /\ Bump(m)
    /\ Draw(c, epoch'[m])
    /\ rows' = [RunSteps(m) EXCEPT ![c] = SessionRow(m, pw[m])]
    /\ UNCHANGED <<active, placed, enabled, pw, req, backup, restored>>

(* households.add_to_household: also the only way back for a removed member *)
Place(m) ==
    /\ m \notin placed
    /\ placed' = placed \cup {m}
    /\ UNCHANGED <<gen, active, enabled, pw, rows, req, backup, restored, history>>

-----------------------------------------------------------------------------
(* The elder's link.                                                       *)

(* provisioning_views.provision_elder reads the member and has_token.      *)
OpenProvisioning(r, m) ==
    Begin(r, IF HasElderLink(m) THEN "regenerate" ELSE "mint", m)

(* update_or_create: whatever row the member has is overwritten.           *)
Replace(m, c, row, table) ==
    [d \in Caps |-> IF d = c THEN row
                    ELSE IF Is(d, "elder", m) THEN Nothing
                    ELSE table[d]]

(* elder_tokens.mint: the generation is the one read with the member.      *)
MintElder(r, c) ==
    /\ At(r, "mint")
    /\ Draw(c, req[r].born)
    /\ rows' = Replace(req[r].member, c,
                       LinkRow("elder", req[r].member, req[r].gen), rows)
    /\ Finish(r)
    /\ UNCHANGED <<gen, active, placed, enabled, pw, backup, restored, epoch>>

(* elder_tokens.regenerate: the registry, refresh_from_db and the mint are  *)
(* one transaction, under the member lock the registry took.               *)
RegenerateElder(r, c) ==
    /\ At(r, "regenerate")
    /\ LET m == req[r].member IN
        /\ Bump(m)
        /\ Draw(c, epoch'[m])
        /\ rows' = Replace(m, c, LinkRow("elder", m, gen'[m]), RunSteps(m))
    /\ Finish(r)
    /\ UNCHANGED <<active, placed, enabled, pw, backup, restored>>

(* elder_views.enter: the link and its member are one joined read ...      *)
OpenElderLink(r, c) ==
    /\ rows[c] # Nothing /\ rows[c].kind = "elder" /\ Live(c)
    /\ Begin(r, "enter", rows[c].member)

(* ... and the session row is saved by the middleware, afterwards.         *)
StoreElderSession(r, c) ==
    /\ At(r, "enter")
    /\ Draw(c, req[r].born)
    /\ rows' = [rows EXCEPT ![c] =
                 LinkRow("elderSession", req[r].member, req[r].gen)]
    /\ Finish(r)
    /\ UNCHANGED <<gen, active, placed, enabled, pw, backup, restored, epoch>>

-----------------------------------------------------------------------------
(* Passwords, sessions and the recovery link.                              *)

(* The sign-in: Django checks the password and is_active ...               *)
Authenticate(r, m) ==
    /\ m \in active
    /\ Begin(r, "login", m)

(* ... and stores a session that carries the hash it checked.              *)
StoreSession(r, c) ==
    /\ At(r, "login")
    /\ Draw(c, req[r].born)
    /\ rows' = [rows EXCEPT ![c] = SessionRow(req[r].member, req[r].pw)]
    /\ Finish(r)
    /\ UNCHANGED <<gen, active, placed, enabled, pw, backup, restored, epoch>>

(* recovery.issue, first the member and is_recoverable ...                 *)
OpenRecovery(r, m) ==
    /\ m \in active
    /\ Begin(r, "issue", m)

(* ... then the UPDATE, which sees the rows committed when it starts ...   *)
SupersedeEarlier(r) ==
    /\ At(r, "issue")
    /\ req' = [req EXCEPT
                ![r].op = "insert",
                ![r].seen = {c \in Caps : Is(c, "recovery", req[r].member)
                                          /\ ~rows[c].spent}]
    /\ UNCHANGED <<db, backup, restored, history>>

(* ... then the INSERT and the commit that publishes both.                 *)
InsertRecovery(r, c) ==
    /\ At(r, "insert")
    /\ Draw(c, req[r].born)
    /\ rows' = [d \in Caps |->
                 IF d = c
                 THEN LinkRow("recovery", req[r].member, req[r].gen)
                 ELSE IF d \in req[r].seen /\ rows[d] # Nothing
                 THEN [rows[d] EXCEPT !.spent = TRUE]
                 ELSE rows[d]]
    /\ Finish(r)
    /\ UNCHANGED <<gen, active, placed, enabled, pw, backup, restored, epoch>>

(* recovery.redeem: one transaction under the row's lock.  The new hash    *)
(* ends every session that carries another.                                *)
RedeemRecovery(c) ==
    /\ rows[c] # Nothing /\ rows[c].kind = "recovery" /\ Live(c)
    /\ pw' = [pw EXCEPT ![rows[c].member] = c]
    /\ rows' = [rows EXCEPT ![c].spent = TRUE]
    /\ UNCHANGED <<gen, active, placed, enabled, req, backup, restored, history>>

-----------------------------------------------------------------------------
(* The digest's read link and its reply addresses: _send_one re-reads the  *)
(* subscription and the member under their locks and mints inside them.    *)
SendDigest(m, link, reply) ==
    /\ m \in placed \cap enabled
    /\ Fresh(link) /\ Fresh(reply) /\ link # reply
    /\ issued' = issued \cup {link, reply}
    /\ born' = [c \in Caps |-> IF c \in {link, reply} THEN epoch[m] ELSE born[c]]
    /\ rows' = [rows EXCEPT ![link] = LinkRow("digest", m, gen[m]),
                            ![reply] = LinkRow("reply", m, gen[m])]
    /\ UNCHANGED <<gen, active, placed, enabled, pw, req, backup, restored, epoch>>

(* Time passes: a link outlives its expires_at (or a reply address its     *)
(* grace), a session its cookie age or its owner's sign-out.  An elder     *)
(* link has no expiry.                                                     *)
Lapse(c) ==
    /\ rows[c] # Nothing /\ rows[c].kind # "elder"
    /\ rows' = [rows EXCEPT ![c] =
                 IF @.kind \in {"session", "elderSession"} THEN Nothing
                 ELSE [@ EXCEPT !.spent = TRUE]]
    /\ UNCHANGED <<gen, active, placed, enabled, pw, req, backup, restored, history>>

-----------------------------------------------------------------------------
(* Backup and restore (core/backups.py).                                   *)

(* Bound: one archive is ever taken, at any moment.                        *)
TakeBackup ==
    /\ backup = Nothing
    /\ backup' = [gen |-> gen, active |-> active, placed |-> placed,
                  enabled |-> enabled, pw |-> pw, rows |-> rows]
    /\ UNCHANGED <<db, req, restored, history>>

(* pg_restore --clean drops every table, so it waits for the transactions  *)
(* that have read one: no request spans it.                                *)
PgRestore ==
    /\ backup # Nothing
    /\ \A r \in Requests : req[r] = Nothing
    /\ gen' = backup.gen /\ active' = backup.active /\ placed' = backup.placed
    /\ enabled' = backup.enabled /\ pw' = backup.pw /\ rows' = backup.rows
    /\ restored' = TRUE
    /\ UNCHANGED <<req, backup, history>>

(* _forced_security_replay, as a restore's tail or as decommissioning's    *)
(* revoke_every_credential.  Killed before it commits, it never happens.   *)
SecurityReplay_KeepsSessions ==     \* mutation: the session flush is forgotten
    /\ \A m \in Members : epoch[m] < MaxRevocations
    /\ gen' = [m \in Members |-> gen[m] + 1]
    /\ epoch' = [m \in Members |-> epoch[m] + 1]
    /\ restored' = FALSE
    /\ UNCHANGED <<active, placed, enabled, pw, rows, req, backup, issued, born>>

SecurityReplay ==
    /\ \A m \in Members : epoch[m] < MaxRevocations
    /\ gen' = [m \in Members |-> gen[m] + 1]
    /\ epoch' = [m \in Members |-> epoch[m] + 1]
    /\ rows' = [c \in Caps |->
                 IF rows[c] # Nothing /\ rows[c].kind \in {"session", "elderSession"}
                 THEN Nothing ELSE rows[c]]
    /\ restored' = FALSE
    /\ UNCHANGED <<active, placed, enabled, pw, req, backup, issued, born>>

-----------------------------------------------------------------------------
Revoking ==
    \E m \in Members :
        \/ Remove(m)
        \/ Shrink(m)
        \/ Place(m)
        \/ \E old, c \in Caps : LeaveLosingASide(m, old, c)

Minting ==
    \/ \E r \in Requests, m \in Members :
        \/ OpenProvisioning(r, m)
        \/ Authenticate(r, m)
        \/ OpenRecovery(r, m)
    \/ \E r \in Requests :
        \/ SupersedeEarlier(r)
        \/ Abandon(r)
    \/ \E r \in Requests, c \in Caps :
        \/ MintElder(r, c)
        \/ RegenerateElder(r, c)
        \/ OpenElderLink(r, c)
        \/ StoreElderSession(r, c)
        \/ StoreSession(r, c)
        \/ InsertRecovery(r, c)
    \/ \E m \in Members, link, reply \in Caps : SendDigest(m, link, reply)

Using == \E c \in Caps : RedeemRecovery(c) \/ Lapse(c)

Restoring == TakeBackup \/ PgRestore \/ SecurityReplay

Next == Revoking \/ Minting \/ Using \/ Restoring

Spec == Init /\ [][Next]_vars

-----------------------------------------------------------------------------
(* Properties.                                                             *)

(* A credential that carries a generation and resolves was authorised      *)
(* after the last revocation that reached its holder, however the mint,    *)
(* the exchange and the revocation interleaved: "after it commits, every   *)
(* credential class the member held is dead on its next use"               *)
(* (revocation.revoke_member_credentials).  The exception is the interval  *)
(* between a restore's pg_restore and its security replay.                 *)
LiveIsFresh ==
    \A c \in Caps :
        rows[c] # Nothing /\ rows[c].kind \in Generational /\ Live(c) /\ ~restored
            => born[c] = epoch[rows[c].member]

(* Every credential implements Capabilities: one that has stopped          *)
(* resolving never resolves again, across revocations, stale mints,        *)
(* password changes and completed restores ("a restore ... can never       *)
(* silently resurrect a revoked token", backups._forced_security_replay).  *)
(* What is born or brought back between pg_restore and the replay counts   *)
(* as dead: the replay is what makes that true.                            *)
StatusOf(c) ==
    IF c \notin issued THEN "unborn"
    ELSE IF Live(c) /\ ~restored THEN "live"
    ELSE "dead"

Abstract == INSTANCE Capabilities WITH status <- [c \in Caps |-> StatusOf(c)]

DeadStaysDead == Abstract!Spec

(* "One live link per member, kept by SUPERSEDING the earlier ones"        *)
(* (core/recovery.py:125; models.RecoveryToken says the same).             *)
OneLiveRecoveryLink ==
    \A c, d \in Caps, m \in Members :
        Is(c, "recovery", m) /\ Live(c) /\ Is(d, "recovery", m) /\ Live(d) => c = d
=============================================================================
