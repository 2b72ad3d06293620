------------------------------ MODULE Invites ------------------------------
(***************************************************************************)
(* Household invitations (core/invites.py and the invite views of          *)
(* core/admin_views.py): minted, re-handed, redeemed, revoked, and voided  *)
(* by every act that takes a member or a side of the family away           *)
(* (core/revocation.py).                                                   *)
(*                                                                         *)
(* One action is one committed transaction, except the mints: an admin's   *)
(* authority is read by one action and the row is published by another.    *)
(* Redeeming holds the invite row's lock from its first read to its        *)
(* commit, so it is one action.  Memberships here are of households; how   *)
(* they change under locks is Memberships'.                                *)
(***************************************************************************)
EXTENDS Naturals, Sequences

CONSTANTS
    Members,        \* people who may ever join
    Founder,        \* the one the setup wizard made
    Pods,           \* households that may ever be made
    Home,           \* the founder's
    Sides, SidesOf, \* the yards, and those of each household
    Links,          \* invite tokens that may ever be drawn
    Requests,       \* slots for mints in flight
    Nothing,        \* no row, an idle slot, no archive
    MaxUses,        \* Invite.max_uses
    MaxActs         \* bound on the admin acts that change members

ASSUME FounderAssumption == Founder \in Members /\ Home \in Pods
ASSUME SidesAssumption == SidesOf \in [Pods -> SUBSET Sides]
ASSUME UsesAssumption == MaxUses \in Nat \ {0}
ASSUME ActsAssumption == MaxActs \in Nat

VARIABLES
    on,         \* PodMembership: pairs <<member, household>>
    role,       \* Member.role, or "none" before the Member row exists
    active,     \* the members whose account may sign in
    made,       \* the households that exist
    invites,    \* invites[i]: the row link i finds
    joined,     \* joined[i]: InviteRedemption, in the order of its keys
    granted,    \* pairs <<i, m>>: link i made m a side admin
    req,        \* the mint in flight in each slot
    backup,     \* the archive, once one is taken
    restored,   \* between pg_restore and the end of the security replay
    issued,     \* history: the links drawn so far
    outdated,   \* history: the links some later act should have ended
    acts        \* history: the admin acts so far

db == <<on, role, active, made, invites, joined, granted>>
vars == <<on, role, active, made, invites, joined, granted, req, backup,
          restored, issued, outdated, acts>>

Roles == {"member", "yardAdmin", "instanceAdmin"}
(* `revoked` is revoked_at or a passed expires_at: each ends the row.       *)
Invite == [pod : Pods, creator : Members, grants : BOOLEAN,
           uses : 0 .. MaxUses, revoked : BOOLEAN]
Mint == [pod : Pods, creator : Members, grants : BOOLEAN]
ASSUME RowsAssumption == Nothing \notin Invite /\ Nothing \notin Mint

TypeOK ==
    /\ on \subseteq Members \X Pods
    /\ role \in [Members -> Roles \cup {"none"}]
    /\ active \subseteq Members
    /\ made \subseteq Pods
    /\ invites \in [Links -> Invite \cup {Nothing}]
    /\ joined \in [Links -> Seq(Members)]
    /\ granted \subseteq Links \X Members
    /\ req \in [Requests -> Mint \cup {Nothing}]
    /\ restored \in BOOLEAN
    /\ issued \subseteq Links /\ outdated \subseteq Links
    /\ acts \in 0 .. MaxActs

Init ==
    /\ on = {<<Founder, Home>>}
    /\ role = [m \in Members |-> IF m = Founder THEN "instanceAdmin" ELSE "none"]
    /\ active = {Founder}
    /\ made = {Home}
    /\ invites = [i \in Links |-> Nothing]
    /\ joined = [i \in Links |-> <<>>]
    /\ granted = {}
    /\ req = [r \in Requests |-> Nothing]
    /\ backup = Nothing
    /\ restored = FALSE
    /\ issued = {} /\ outdated = {} /\ acts = 0

-----------------------------------------------------------------------------
PodsOf(m) == {p \in Pods : <<m, p>> \in on}
SidesVia(pods) == UNION {SidesOf[p] : p \in pods}
SidesOn(m) == SidesVia(PodsOf(m))

Redeemable_OffByOne(i) ==            \* mutation: <= where the code has <
    invites[i] # Nothing /\ ~invites[i].revoked /\ invites[i].uses <= MaxUses
(* The preconditions of peek_invite and redeem_invite.                      *)
Redeemable(i) ==
    invites[i] # Nothing /\ ~invites[i].revoked /\ invites[i].uses < MaxUses

(* permissions.is_admin and can_issue_invite, for somebody signed in.       *)
CanIssue(a, p) ==
    /\ a \in active
    /\ \/ role[a] = "instanceAdmin"
       \/ role[a] = "yardAdmin" /\ SidesOf[p] # {} /\ SidesOf[p] \subseteq SidesOn(a)

(* permissions.can_manage_member, and the sides it compares.                *)
WithinScope(a, m) == SidesOn(m) # {} /\ SidesOn(m) \subseteq SidesOn(a)
CanManage(a, m) ==
    /\ a \in active /\ a # m
    /\ \/ role[a] = "instanceAdmin"
       \/ role[a] = "yardAdmin" /\ role[m] = "member" /\ WithinScope(a, m)

(* permissions.can_change_household_membership: also oneself, at the top.   *)
CanChangeHousehold(a, m, p) ==
    /\ CanManage(a, m) \/ (a = m /\ role[a] = "instanceAdmin")
    /\ CanIssue(a, p)

-----------------------------------------------------------------------------
(* Minting.                                                                 *)

Authorise(r, a, p, grants) ==
    /\ req[r] = Nothing
    /\ req' = [req EXCEPT ![r] = [pod |-> p, creator |-> a, grants |-> grants]]
    /\ UNCHANGED <<db, backup, restored, issued, outdated, acts>>

(* admin_views.invite_household: a Pod row of its own and its first link.   *)
(* Only the instance admin may make the link a side admin's.                *)
InviteHousehold(r, a, p, grants) ==
    /\ p \notin made
    /\ \A s \in Requests : req[s] # Nothing => req[s].pod # p
    /\ CanIssue(a, p)
    /\ grants => role[a] = "instanceAdmin"
    /\ Authorise(r, a, p, grants)

(* admin_views.resend_invite: another link to the same household, always an *)
(* ordinary one.                                                            *)
ResendInvite_SameGrant(r, a, i) ==   \* mutation: the copy re-arms the role
    /\ invites[i] # Nothing
    /\ CanIssue(a, invites[i].pod)
    /\ Authorise(r, a, invites[i].pod, invites[i].grants)
ResendInvite(r, a, i) ==
    /\ invites[i] # Nothing
    /\ CanIssue(a, invites[i].pod)
    /\ Authorise(r, a, invites[i].pod, FALSE)

(* invites.mint_invite, at the commit of the view's transaction.            *)
NewInvite(mint) ==
    [pod |-> mint.pod, creator |-> mint.creator, grants |-> mint.grants,
     uses |-> 0, revoked |-> FALSE]

MintInvite(r, i) ==
    /\ req[r] # Nothing
    /\ i \notin issued
    /\ invites' = [invites EXCEPT ![i] = NewInvite(req[r])]
    /\ made' = made \cup {req[r].pod}
    /\ issued' = issued \cup {i}
    /\ req' = [req EXCEPT ![r] = Nothing]
    /\ UNCHANGED <<on, role, active, joined, granted, backup, restored, outdated, acts>>

-----------------------------------------------------------------------------
(* Redeeming and revoking one link.                                         *)

(* The first through a granting link takes its role (invites.redeem_invite).*)
RoleFor_Anyone(i) ==                 \* mutation: use_count = 0 not asked
    IF invites[i].grants THEN "yardAdmin" ELSE "member"
RoleFor(i) ==
    IF invites[i].grants /\ invites[i].uses = 0 THEN "yardAdmin" ELSE "member"

(* join._create_account: the account, the Member, the membership, the       *)
(* redemption and the count commit together or not at all.                  *)
RedeemInvite(i, m) ==
    /\ Redeemable(i)
    /\ role[m] = "none"
    /\ role' = [role EXCEPT ![m] = RoleFor(i)]
    /\ on' = on \cup {<<m, invites[i].pod>>}
    /\ active' = active \cup {m}
    /\ joined' = [joined EXCEPT ![i] = Append(@, m)]
    /\ granted' = IF RoleFor(i) = "member" THEN granted ELSE granted \cup {<<i, m>>}
    /\ invites' = [invites EXCEPT ![i].uses = @ + 1]
    /\ UNCHANGED <<made, req, backup, restored, issued, outdated, acts>>

(* admin_views.revoke_invite, or the seven days are over.                   *)
RevokeInvite(i) ==
    /\ invites[i] # Nothing /\ ~invites[i].revoked
    /\ invites' = [invites EXCEPT ![i].revoked = TRUE]
    /\ UNCHANGED <<on, role, active, made, joined, granted, req, backup, restored,
                   issued, outdated, acts>>

-----------------------------------------------------------------------------
(* The acts that end links by the member they concern.                      *)

Act == acts < MaxActs /\ acts' = acts + 1

(* The UPDATE of every registry's invite step: m's own, and those into any  *)
(* of the sides.                                                            *)
Void(m, sides) ==
    [i \in Links |->
        IF /\ invites[i] # Nothing
           /\ invites[i].creator = m \/ SidesOf[invites[i].pod] \cap sides # {}
        THEN [invites[i] EXCEPT !.revoked = TRUE]
        ELSE invites[i]]

(* History: after a step that changed m's memberships, the links that m     *)
(* made and those into a side m is no longer on are outdated.               *)
Outdate(m) ==
    outdated' = outdated \cup
        {i \in Links :
            /\ invites[i] # Nothing
            /\ \/ invites[i].creator = m
               \/ SidesOf[invites[i].pod] \cap (SidesOn(m) \ SidesOn(m)') # {}}

(* removal.remove_member: _void_invites reads the sides before the          *)
(* memberships go.                                                          *)
Remove_AfterTeardown(a, m) ==          \* mutation: H-1 broken, nothing left to read
    /\ Act
    /\ role[m] # "none" /\ CanManage(a, m)
    /\ on' = {pair \in on : pair[1] # m}
    /\ invites' = Void(m, {})
    /\ active' = active \ {m}
    /\ Outdate(m)
    /\ UNCHANGED <<role, made, joined, granted, req, backup, restored, issued>>
Remove(a, m) ==
    /\ Act
    /\ role[m] # "none" /\ CanManage(a, m)
    /\ invites' = Void(m, SidesOn(m))
    /\ on' = {pair \in on : pair[1] # m}
    /\ active' = active \ {m}
    /\ Outdate(m)
    /\ UNCHANGED <<role, made, joined, granted, req, backup, restored, issued>>

(* households.remove_from_household: only the sides being lost.             *)
RemoveFromHousehold(a, m, p) ==
    /\ Act
    /\ CanChangeHousehold(a, m, p)
    /\ p \in PodsOf(m) /\ PodsOf(m) # {p}
    /\ invites' = Void(m, SidesOf[p] \ SidesVia(PodsOf(m) \ {p}))
    /\ on' = on \ {<<m, p>>}
    /\ Outdate(m)
    /\ UNCHANGED <<role, active, made, joined, granted, req, backup, restored, issued>>

(* revocation.regenerate_member_credentials: the links she made herself.    *)
Rotate(a, m) ==
    /\ Act
    /\ role[m] # "none" /\ CanManage(a, m)
    /\ invites' = Void(m, {})
    /\ outdated' = outdated \cup {i \in Links : invites[i] # Nothing /\ invites[i].creator = m}
    /\ UNCHANGED <<on, role, active, made, joined, granted, req, backup, restored, issued>>

(* households.add_to_household.                                             *)
AddToHousehold(a, m, p) ==
    /\ Act
    /\ CanChangeHousehold(a, m, p)
    /\ role[m] # "none" /\ p \in made
    /\ p \notin PodsOf(m)
    /\ on' = on \cup {<<m, p>>}
    /\ UNCHANGED <<role, active, made, invites, joined, granted, req, backup,
                   restored, issued, outdated>>

(* admin_views.assign_role: the instance admin re-roles somebody else.      *)
AssignRole(a, m, new) ==
    /\ Act
    /\ CanManage(a, m) /\ role[a] = "instanceAdmin"
    /\ role[m] \notin {"none", new}
    /\ role' = [role EXCEPT ![m] = new]
    /\ UNCHANGED <<on, active, made, invites, joined, granted, req, backup,
                   restored, issued, outdated>>

-----------------------------------------------------------------------------
(* Backup and restore: as in Credentials, one archive, no mint in flight    *)
(* across pg_restore.                                                       *)

TakeBackup ==
    /\ backup = Nothing
    /\ backup' = [on |-> on, role |-> role, active |-> active, made |-> made,
                  invites |-> invites, joined |-> joined, granted |-> granted]
    /\ UNCHANGED <<db, req, restored, issued, outdated, acts>>

PgRestore ==
    /\ backup # Nothing
    /\ \A r \in Requests : req[r] = Nothing
    /\ on' = backup.on /\ role' = backup.role /\ active' = backup.active
    /\ made' = backup.made /\ invites' = backup.invites
    /\ joined' = backup.joined /\ granted' = backup.granted
    /\ restored' = TRUE
    /\ UNCHANGED <<req, backup, issued, outdated, acts>>

(* _forced_security_replay voids every outstanding invite.                  *)
SecurityReplay ==
    /\ invites' = [i \in Links |-> IF invites[i] = Nothing THEN Nothing
                                   ELSE [invites[i] EXCEPT !.revoked = TRUE]]
    /\ restored' = FALSE
    /\ outdated' = outdated \cup {i \in Links : invites[i] # Nothing}
    /\ UNCHANGED <<on, role, active, made, joined, granted, req, backup, issued, acts>>

-----------------------------------------------------------------------------
Minting ==
    \/ \E r \in Requests, a \in Members :
        \/ \E p \in Pods, grants \in BOOLEAN : InviteHousehold(r, a, p, grants)
        \/ \E i \in Links : ResendInvite(r, a, i)
    \/ \E r \in Requests, i \in Links : MintInvite(r, i)

Using == \E i \in Links : RevokeInvite(i) \/ \E m \in Members : RedeemInvite(i, m)

Changing ==
    \E a, m \in Members :
        \/ Remove(a, m)
        \/ Rotate(a, m)
        \/ \E p \in Pods : RemoveFromHousehold(a, m, p) \/ AddToHousehold(a, m, p)
        \/ \E new \in Roles : AssignRole(a, m, new)

Restoring == TakeBackup \/ PgRestore \/ SecurityReplay

Next == Minting \/ Using \/ Changing \/ Restoring

Spec == Init /\ [][Next]_vars

-----------------------------------------------------------------------------
(* Properties.                                                              *)

(* "every join from one is recorded so an admin can see exactly who an      *)
(* invite minted": the count a link is capped by and the ledger agree, and  *)
(* neither passes the cap, also across a restore.                           *)
LedgerAgrees ==
    \A i \in Links :
        IF invites[i] = Nothing THEN joined[i] = <<>>
        ELSE invites[i].uses = Len(joined[i]) /\ Len(joined[i]) <= MaxUses

(* The person the ledger names as the taker of a link's role                *)
(* (Invite.role_grant_holder, the earliest redemption) is the one who got   *)
(* it, and nobody else did through that link.                               *)
RoleGoesToTheFirst ==
    \A pair \in granted :
        LET i == pair[1] IN
        invites[i] # Nothing /\ invites[i].grants
        /\ Len(joined[i]) > 0 /\ pair[2] = Head(joined[i])

(* However often its links are handed out again, a household has at most    *)
(* one person who "joined first" with a role (admin_views.resend_invite).   *)
OneAdminPerHousehold ==
    \A a, b \in granted : invites[a[1]].pod = invites[b[1]].pod => a = b

(* A link that an act on some member should have ended (it led into a side  *)
(* the member lost, the member had made it, or a restore was completed over *)
(* it) is never redeemable again; the exception is the interval between     *)
(* pg_restore and the security replay.                                      *)
NoWayBack == \A i \in outdated : Redeemable(i) => restored

(* "An invite she issued ... dies whenever her credentials are rotated"     *)
(* (core/revocation.py:105), and "every credential class the member held"   *)
(* at removal (line 245): a removed member has no redeemable link.          *)
NoLinkOfARemovedMember ==
    \A i \in Links :
        Redeemable(i) /\ ~restored => invites[i].creator \in active
=============================================================================
