------------------------------ MODULE Instance ------------------------------
(***************************************************************************)
(* Who runs the instance, and what it tells them: first-run setup          *)
(* (ensure_setup, core/views.py), the roles (assign_role and remove of     *)
(* core/admin_views.py), and the watch kept over the certificate, the      *)
(* domain and the off-box copies (core/cert_expiry.py, domain_expiry.py,   *)
(* health.py, health_email.py and their periodic tasks).                   *)
(*                                                                         *)
(* A boot of the web container hands a secret over in a file; setup forms  *)
(* that carry it race each other, and crashes.  Once an admin exists, the  *)
(* worker looks the two expiries up now and then, caches what it finds     *)
(* under the instance's name, and once a week writes to the admins from    *)
(* what is cached.                                                         *)
(*                                                                         *)
(* Time passes in days and only what is left of it is kept: -1 is past.    *)
(***************************************************************************)
EXTENDS Integers, FiniteSets

CONSTANTS
    People,
    Forms,        \* setup forms that may be under way at once
    Things,       \* what expires: the certificate, the domain
    Names,        \* the names the instance may be served under
    Life,         \* how long a renewal lasts
    Warn,         \* CERTIFICATE_WARN_DAYS, DOMAIN_WARN_DAYS
    StaleCopy,    \* OFFBOX_STALE_HOURS
    MaxSecrets,   \* bound on the boots that mint a secret
    MaxChanges,   \* bound on the changes of roles and of the name
    Nobody

ASSUME PeopleAssumption == Nobody \notin People
ASSUME NamesAssumption == Names # {}
ASSUME InstanceBounds ==
    /\ Life \in Nat /\ Warn \in Nat /\ Warn < Life /\ StaleCopy \in Nat
    /\ MaxSecrets \in Nat /\ MaxChanges \in Nat

VARIABLES
    server,    \* the web container: "down", "hashed" (half way through a boot), "up"
    minted,    \* how many secrets have been minted
    token,     \* SetupToken: the secret its hash is of; 0, no row
    file,      \* the handover file: the secret in it; 0, no file
    form,      \* form[f]: a setup form under way, with the secret and who fills it in
    clearing,  \* the transaction has committed and its on_commit hook has yet to run
    founders,  \* the superusers
    role,      \* role[p]: Member.role; "none", not a member
    gone,      \* those removed, who can no longer log in
    edit,      \* edit[p]: a change of role, or a removal, that p has been allowed to make
    listens,   \* those with an enabled and confirmed digest subscription
    here,      \* the name the instance is served under
    left,      \* left[w]: what is really left of w, for that name
    known,     \* known[w][n]: what its status row says is left; -2, no row that says
    copies,    \* the off-box status file: what the copy job said last, and when
    told,      \* those the last alarming email reached, since the last day
    changes

setup == <<server, minted, token, file, form, clearing>>
roster == <<founders, role, gone, edit, listens>>
watch == <<here, left, known, copies, told>>
instanceVars == <<server, minted, token, file, form, clearing, founders, role, gone, edit, listens,
          here, left, known, copies, told, changes>>

Unchecked == -2
Blank == [at |-> "none", secret |-> 0, who |-> Nobody]
NoEdit == [target |-> Nobody, as |-> "none"]

InstanceTypeOK ==
    /\ server \in {"down", "hashed", "up"}
    /\ minted \in 0 .. MaxSecrets /\ {token, file} \subseteq 0 .. MaxSecrets
    /\ form \in [Forms -> [at : {"none", "sent", "open"}, secret : 0 .. MaxSecrets,
                           who : People \cup {Nobody}]]
    /\ clearing \in BOOLEAN
    /\ {founders, gone, listens, told} \subseteq SUBSET People
    /\ role \in [People -> {"none", "member", "side admin", "admin"}]
    /\ edit \in [People -> [target : People \cup {Nobody},
                            as : {"none", "member", "side admin", "admin", "gone"}]]
    /\ here \in Names
    /\ left \in [Things -> -1 .. Life]
    /\ known \in [Things -> [Names -> -2 .. Life]]
    /\ copies \in [says : {"nothing", "copied", "trouble"}, age : 0 .. StaleCopy + 1]
    /\ changes \in 0 .. MaxChanges

InstanceInit ==
    /\ server = "down" /\ minted = 0 /\ token = 0 /\ file = 0
    /\ form = [f \in Forms |-> Blank] /\ clearing = FALSE
    /\ founders = {} /\ role = [p \in People |-> "none"] /\ gone = {}
    /\ edit = [p \in People |-> NoEdit] /\ listens = {}
    /\ here \in Names
    /\ left = [w \in Things |-> Life]
    /\ known = [w \in Things |-> [n \in Names |-> Unchecked]]
    /\ copies = [says |-> "nothing", age |-> 0] /\ told = {}
    /\ changes = 0

\* The watch is looked at from when the wizard is closed and cleared, crashes until then.
Watching ==
    founders # {} /\ file = 0 /\ ~ clearing /\ server = "up" /\ \A f \in Forms : form[f] = Blank

-----------------------------------------------------------------------------
(* First-run setup.                                                        *)

\* With an admin, ensure_setup clears what is left of the wizard.
\* Mutant: it leaves the file to the hook of the transaction.
HandoverAtBoot_Kept == file

HandoverAtBoot == 0

BootClosed ==
    /\ server = "down" /\ founders # {}
    /\ token' = 0 /\ file' = HandoverAtBoot
    /\ server' = "up"
    /\ minted' = 0      \* no secret is left to be told apart
    /\ UNCHANGED <<form, clearing, changes>> /\ UNCHANGED <<roster, watch>>

\* Without one it mints a secret, hashes it over the row there is, ...
\* Mutant: a row that exists keeps its hash.
Rehashed_OnlyOnce(secret) == IF token = 0 THEN secret ELSE token

Rehashed(secret) == secret

BootHash ==
    /\ server = "down" /\ founders = {} /\ minted < MaxSecrets
    /\ minted' = minted + 1
    /\ token' = Rehashed(minted + 1)
    /\ server' = "hashed"
    /\ UNCHANGED <<file, form, clearing, changes>> /\ UNCHANGED <<roster, watch>>

\* ... and writes it into a file made anew.
BootHandOver ==
    /\ server = "hashed"
    /\ file' = minted
    /\ server' = "up"
    /\ UNCHANGED <<minted, token, form, clearing, changes>> /\ UNCHANGED <<roster, watch>>

\* setup: the wizard is there while no admin exists.
SendForm(f, p, secret) ==
    /\ server = "up" /\ form[f] = Blank /\ founders = {}
    /\ role[p] = "none"
    /\ form' = [form EXCEPT ![f] = [at |-> "sent", secret |-> secret, who |-> p]]
    /\ UNCHANGED <<server, minted, token, file, clearing, changes>>
    /\ UNCHANGED <<roster, watch>>

\* _try_create_admin locks the token row, and only then looks for an admin again.
\* Mutant: the row is read without a lock.
Unlocked_Always(f) == TRUE

Unlocked(f) == \A g \in Forms \ {f} : form[g].at # "open"

LockToken(f) ==
    /\ form[f].at = "sent" /\ Unlocked(f)
    /\ form' = [form EXCEPT ![f] =
           IF founders = {} /\ token # 0 /\ form[f].secret = token THEN [@ EXCEPT !.at = "open"] ELSE Blank]
    /\ UNCHANGED <<server, minted, token, file, clearing, changes>>
    /\ UNCHANGED <<roster, watch>>

CreateAdmin(f) ==
    /\ form[f].at = "open"
    /\ founders' = founders \cup {form[f].who}
    /\ role' = [role EXCEPT ![form[f].who] = "admin"]
    /\ token' = 0
    /\ clearing' = TRUE
    /\ form' = [form EXCEPT ![f] = Blank]
    /\ UNCHANGED <<server, minted, file, gone, edit, listens, changes>>
    /\ UNCHANGED watch

ClearHandover ==
    /\ clearing
    /\ file' = 0 /\ clearing' = FALSE /\ minted' = 0
    /\ UNCHANGED <<server, token, form, changes>> /\ UNCHANGED <<roster, watch>>

\* Transactions under way are rolled back, hooks not yet run are lost.
ContainerDies ==
    /\ server # "down" /\ ~ Watching
    /\ server' = "down"
    /\ file' \in IF server = "hashed" THEN {file, 0} ELSE {file}
    /\ form' = [f \in Forms |-> Blank] /\ clearing' = FALSE
    /\ edit' = [p \in People |-> NoEdit]
    /\ UNCHANGED <<minted, token, founders, role, gone, listens, changes>>
    /\ UNCHANGED watch

-----------------------------------------------------------------------------
(* The roster.  Who may act is read first, the change is written later.    *)

Change == changes < MaxChanges /\ changes' = changes + 1

Join(p) ==
    /\ Watching /\ role[p] = "none"
    /\ role' = [role EXCEPT ![p] = "member"]
    /\ UNCHANGED <<founders, gone, edit, listens, changes>> /\ UNCHANGED <<setup, watch>>

\* can_manage_member and can_assign_role, family sides left out.
MayManage(actor, target) ==
    /\ actor # target /\ role[target] # "none"
    /\ \/ role[actor] = "admin"
       \/ role[actor] = "side admin" /\ role[target] = "member"

OpenEdit(actor, target, as) ==
    /\ edit[actor] = NoEdit /\ actor \notin gone /\ Watching
    /\ MayManage(actor, target) /\ Change
    /\ as \in {"side admin", "admin"} => role[actor] = "admin"
    /\ as # role[target] /\ ~ (as = "gone" /\ target \in gone)
    /\ edit' = [edit EXCEPT ![actor] = [target |-> target, as |-> as]]
    /\ UNCHANGED <<founders, role, gone, listens>> /\ UNCHANGED <<setup, watch>>

\* assign_role writes the role; remove_member ends the subscription and the login.
MakeEdit(actor) ==
    /\ edit[actor] # NoEdit
    /\ edit' = [edit EXCEPT ![actor] = NoEdit]
    /\ LET target == edit[actor].target
       IN IF edit[actor].as = "gone"
          THEN /\ gone' = gone \cup {target} /\ listens' = listens \ {target}
               /\ UNCHANGED role
          ELSE /\ role' = [role EXCEPT ![target] = edit[actor].as]
               /\ UNCHANGED <<gone, listens>>
    /\ UNCHANGED <<founders, changes>> /\ UNCHANGED <<setup, watch>>

\* A digest subscription is confirmed, or turned off.
Subscribe(p) ==
    /\ Watching /\ role[p] # "none" /\ p \notin gone
    /\ listens' = IF p \in listens THEN listens \ {p} ELSE listens \cup {p}
    /\ UNCHANGED <<founders, role, gone, edit, changes>> /\ UNCHANGED <<setup, watch>>

-----------------------------------------------------------------------------
(* The watch.                                                              *)

AtLeast(floor, n) == IF n < floor THEN floor ELSE n

Day ==
    /\ Watching
    /\ left' = [w \in Things |-> AtLeast(-1, left[w] - 1)]
    /\ known' = [w \in Things |-> [n \in Names |->
           IF known[w][n] = Unchecked THEN Unchecked ELSE AtLeast(-1, known[w][n] - 1)]]
    /\ copies' = [copies EXCEPT !.age = IF copies.says = "copied" /\ @ <= StaleCopy THEN @ + 1 ELSE @]
    /\ told' = {}
    /\ UNCHANGED here /\ UNCHANGED <<setup, roster, changes>>

Renew(w) ==
    /\ Watching
    /\ left' = [left EXCEPT ![w] = Life]
    /\ UNCHANGED <<here, known, copies, told>> /\ UNCHANGED <<setup, roster, changes>>

\* A lookup that fails keeps the answer there is.
Learn(w) ==
    /\ Watching
    /\ known' = [known EXCEPT ![w][here] = left[w]]
    /\ UNCHANGED <<here, left, copies, told>> /\ UNCHANGED <<setup, roster, changes>>

\* Of a certificate that has expired nothing is learnt: the connection is refused.
LookUp(w) == (w = "certificate" => left[w] # -1) /\ Learn(w)

\* BASE_URL is set anew and the containers are started with it.  What the new name has
\* left was never looked at, or no less than when it was.
Rename(n) ==
    /\ Watching /\ n # here /\ Change
    /\ here' = n
    /\ left' \in [Things -> -1 .. Life] /\ \A w \in Things : left'[w] >= known[w][n]
    /\ UNCHANGED <<known, copies, told>> /\ UNCHANGED <<setup, roster>>

Copy(says) ==
    /\ Watching
    /\ copies' = [says |-> says, age |-> 0]
    /\ UNCHANGED <<here, left, known, told>> /\ UNCHANGED <<setup, roster, changes>>

\* Mutant: any status row, whatever name it is about.
StatusOf_Any(w) == known[w][CHOOSE n \in Names : TRUE]

StatusOf(w) == known[w][here]

\* _domain_field, _certificate_field; _offbox_field.
Alarming(w) == StatusOf(w) = Unchecked \/ StatusOf(w) <= Warn

CopiesAlarm == copies.says \in {"trouble"} \/ copies.age > StaleCopy

AnythingAlarming == (\E w \in Things : Alarming(w)) \/ CopiesAlarm

\* admin_recipients.  Mutant: the superusers, as breakglass.py once took admins to be.
Recipients_Superusers == founders \cap listens

Recipients == {p \in listens : role[p] = "admin"}

\* send_health_emails: a send that fails ends the task, with some of them told.
SendTo(reached) ==
    /\ Watching
    /\ told' = IF AnythingAlarming THEN told \cup reached ELSE told
    /\ UNCHANGED <<here, left, known, copies>> /\ UNCHANGED <<setup, roster, changes>>

SendHealth == SendTo(Recipients)

SendCutShort == \E reached \in SUBSET Recipients : SendTo(reached)

-----------------------------------------------------------------------------
Boot == BootClosed \/ BootHash \/ BootHandOver

InstanceNext ==
    \/ Boot \/ ContainerDies \/ ClearHandover
    \/ \E f \in Forms :
          \/ \E p \in People, secret \in 0 .. minted : SendForm(f, p, secret)
          \/ LockToken(f) \/ CreateAdmin(f)
    \/ \E p \in People : Join(p) \/ MakeEdit(p) \/ Subscribe(p)
    \/ \E actor \in People, target \in People, as \in {"member", "side admin", "admin", "gone"} :
          OpenEdit(actor, target, as)
    \/ Day \/ SendHealth \/ SendCutShort
    \/ \E w \in Things : LookUp(w) \/ Renew(w)
    \/ \E n \in Names : Rename(n)
    \/ \E says \in {"copied", "trouble"} : Copy(says)

\* The container is restarted when it dies; the worker is up some Monday when the mail
\* service takes every address.
Fairness == WF_instanceVars(Boot) /\ WF_instanceVars(ClearHandover) /\ WF_instanceVars(SendHealth)

InstanceSpec == InstanceInit /\ [][InstanceNext]_instanceVars /\ Fairness

-----------------------------------------------------------------------------
(* However many setup forms are sent, one of them at most makes an admin   *)
(* (_try_create_admin's lock); and until then the secret in the file is    *)
(* the one whose hash is kept, whatever boots were cut short before        *)
(* (ensure_setup).                                                         *)
OneSetup ==
    /\ Cardinality(founders) <= 1
    /\ server = "up" /\ founders = {} => file = token /\ file # 0

(* What will soon expire, under the name the instance is served under now, *)
(* raises an alarm, however long the lookups have failed (health.py).      *)
NoSurprise ==
    Watching => \A w \in Things : left[w] <= Warn => Alarming(w)

(* Once there is an admin no setup secret is left lying about, even if the *)
(* container died before it could remove it.                               *)
SecretGoesAway == founders # {} ~> [](file = 0 /\ token = 0)

(* An expiry that stays close reaches every admin who listens, those       *)
(* promoted later as much as the first (health_email.py).                  *)
Near == \E w \in Things : left[w] <= Warn

AlarmIsHeard ==
    \A p \in People :
        <>[](Near /\ p \in listens /\ role[p] = "admin") => []<>(p \in told)

(* There is always an admin who can log in.                                *)
SomebodyAdministers ==
    founders # {} => \E p \in People \ gone : role[p] = "admin"
=============================================================================
