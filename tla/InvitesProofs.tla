---------------------------- MODULE InvitesProofs ---------------------------
(***************************************************************************)
(* Invites proved for every family: any number of members, households,     *)
(* links, mints in flight, uses per link and admin acts.  What is said of  *)
(* the database is said of the archive too, because a restore makes the    *)
(* one the other.                                                          *)
(***************************************************************************)
EXTENDS Invites, SequenceTheorems, TLAPS

(* The types of what an archive holds.                                      *)
Typed(members, roles, accounts, pods, rows, ledger, grants) ==
    /\ members \subseteq Members \X Pods
    /\ roles \in [Members -> Roles \cup {"none"}]
    /\ accounts \subseteq Members
    /\ pods \subseteq Pods
    /\ rows \in [Links -> Invite \cup {Nothing}]
    /\ ledger \in [Links -> Seq(Members)]
    /\ grants \subseteq Links \X Members

(* LedgerAgrees and RoleGoesToTheFirst, of given rows.                      *)
Ledger(rows, ledger) ==
    \A i \in Links :
        IF rows[i] = Nothing THEN ledger[i] = <<>>
        ELSE rows[i].uses = Len(ledger[i]) /\ Len(ledger[i]) <= MaxUses

First(rows, ledger, grants) ==
    \A pair \in grants :
        /\ rows[pair[1]] # Nothing /\ rows[pair[1]].grants
        /\ Len(ledger[pair[1]]) > 0 /\ pair[2] = Head(ledger[pair[1]])

(* A row is a drawn link into a household that exists, and a household has  *)
(* one link with a role at most.                                            *)
Drawn(rows, pods) ==
    \A i \in Links : rows[i] # Nothing => i \in issued /\ rows[i].pod \in pods

OneGrant(rows) ==
    \A i, k \in Links :
        (/\ rows[i] # Nothing /\ rows[k] # Nothing
         /\ rows[i].grants /\ rows[k].grants /\ rows[i].pod = rows[k].pod)
        => i = k

Sound(pods, rows, ledger, grants) ==
    /\ Ledger(rows, ledger) /\ First(rows, ledger, grants)
    /\ Drawn(rows, pods) /\ OneGrant(rows)

(* A mint with a role is of a household nobody else has, or is making.      *)
Mints ==
    \A r, s \in Requests :
        (req[r] # Nothing /\ req[r].grants)
        => /\ req[r].pod \notin made
           /\ (req[s] # Nothing /\ s # r => req[s].pod # req[r].pod)

TypeInv ==
    /\ TypeOK
    /\ backup # Nothing =>
        Typed(backup.on, backup.role, backup.active, backup.made, backup.invites,
              backup.joined, backup.granted)

SoundInv ==
    /\ Sound(made, invites, joined, granted)
    /\ backup # Nothing => Sound(backup.made, backup.invites, backup.joined, backup.granted)
    /\ Mints

(* What should have ended is drawn, and gone or revoked unless a restore    *)
(* has just brought it back.                                                *)
EndedInv ==
    \A i \in outdated :
        i \in issued /\ (restored \/ invites[i] = Nothing \/ invites[i].revoked)

-----------------------------------------------------------------------------
(* Types.                                                                   *)

LEMMA ActTypes ==
    ASSUME TypeOK, Act
    PROVE  acts' \in 0 .. MaxActs
  BY ActsAssumption DEF TypeOK, Act

LEMMA VoidTypes ==
    ASSUME TypeOK, NEW m \in Members, NEW sides
    PROVE  /\ Void(m, sides) \in [Links -> Invite \cup {Nothing}]
           /\ \A i \in Links : Void(m, sides)[i] = Nothing <=> invites[i] = Nothing
           /\ \A i \in Links : invites[i] # Nothing =>
                /\ Void(m, sides)[i].pod = invites[i].pod
                /\ Void(m, sides)[i].creator = invites[i].creator
                /\ Void(m, sides)[i].grants = invites[i].grants
                /\ Void(m, sides)[i].uses = invites[i].uses
                /\ invites[i].revoked => Void(m, sides)[i].revoked
                /\ (invites[i].creator = m \/ SidesOf[invites[i].pod] \cap sides # {})
                   => Void(m, sides)[i].revoked
<1>1. ASSUME NEW i \in Links, invites[i] # Nothing
      PROVE  LET row == [invites[i] EXCEPT !.revoked = TRUE] IN
             /\ row \in Invite /\ row # Nothing /\ invites[i] \in Invite
             /\ row.pod = invites[i].pod /\ row.creator = invites[i].creator
             /\ row.grants = invites[i].grants /\ row.uses = invites[i].uses
             /\ row.revoked
  BY <1>1, RowsAssumption DEF TypeOK, Invite
<1> QED
  BY <1>1 DEF Void, TypeOK

LEMMA MintingTypes ==
    ASSUME TypeInv, Minting
    PROVE  TypeInv'
<1> USE DEF db
<1>1. ASSUME NEW r \in Requests, NEW a \in Members, NEW p \in Pods, NEW g \in BOOLEAN,
             Authorise(r, a, p, g)
      PROVE  TypeInv'
  <2>1. [pod |-> p, creator |-> a, grants |-> g] \in Mint
    BY DEF Mint
  <2> QED
    BY <1>1, <2>1 DEF Authorise, TypeInv, TypeOK, Typed
<1>2. ASSUME NEW r \in Requests, NEW a \in Members, NEW p \in Pods, NEW g \in BOOLEAN,
             InviteHousehold(r, a, p, g)
      PROVE  TypeInv'
  BY <1>1, <1>2 DEF InviteHousehold
<1>3. ASSUME NEW r \in Requests, NEW a \in Members, NEW i \in Links, ResendInvite(r, a, i)
      PROVE  TypeInv'
  <2>1. invites[i].pod \in Pods
    BY <1>3 DEF ResendInvite, TypeInv, TypeOK, Invite
  <2> QED
    BY <1>1, <1>3, <2>1 DEF ResendInvite
<1>4. ASSUME NEW r \in Requests, NEW i \in Links, MintInvite(r, i) PROVE TypeInv'
  <2>1. req[r] \in Mint
    BY <1>4 DEF MintInvite, TypeInv, TypeOK
  <2>2. NewInvite(req[r]) \in Invite /\ req[r].pod \in Pods
    BY <2>1, UsesAssumption DEF NewInvite, Invite, Mint
  <2> QED
    BY <1>4, <2>2 DEF MintInvite, TypeInv, TypeOK, Typed
<1> QED
  BY <1>2, <1>3, <1>4 DEF Minting

(* What a redemption writes.                                                *)
LEMMA RedeemWrites ==
    ASSUME TypeOK, NEW i \in Links, NEW m \in Members, RedeemInvite(i, m)
    PROVE  /\ invites[i] \in Invite /\ invites[i].uses \in Nat /\ invites[i].uses < MaxUses
           /\ invites' \in [Links -> Invite \cup {Nothing}]
           /\ invites'[i] # Nothing /\ invites'[i].uses = invites[i].uses + 1
           /\ invites'[i].pod = invites[i].pod /\ invites'[i].grants = invites[i].grants
           /\ invites'[i].revoked = invites[i].revoked
           /\ \A k \in Links \ {i} : invites'[k] = invites[k]
           /\ joined' \in [Links -> Seq(Members)]
           /\ joined'[i] = Append(joined[i], m)
           /\ Len(joined'[i]) = Len(joined[i]) + 1
           /\ Head(joined'[i]) = IF joined[i] = <<>> THEN m ELSE Head(joined[i])
           /\ \A k \in Links \ {i} : joined'[k] = joined[k]
<1>1. invites[i] \in Invite /\ invites[i].uses < MaxUses
  BY DEF RedeemInvite, Redeemable, TypeOK
<1>2. invites[i].uses \in 0 .. MaxUses /\ invites[i].uses + 1 \in 0 .. MaxUses
  BY <1>1, UsesAssumption DEF Invite
<1> DEFINE row == [invites[i] EXCEPT !.uses = @ + 1]
<1>3. /\ row \in Invite /\ row.uses = invites[i].uses + 1 /\ row.pod = invites[i].pod
      /\ row.grants = invites[i].grants /\ row.revoked = invites[i].revoked
  BY <1>1, <1>2 DEF Invite
<1>4. invites' = [invites EXCEPT ![i] = row]
  BY DEF RedeemInvite
<1> HIDE DEF row
<1>5. /\ invites' \in [Links -> Invite \cup {Nothing}] /\ invites'[i] = row
      /\ \A k \in Links \ {i} : invites'[k] = invites[k]
  BY <1>3, <1>4 DEF TypeOK
<1>6. joined[i] \in Seq(Members)
  BY DEF TypeOK
<1>7. /\ Append(joined[i], m) \in Seq(Members)
      /\ Len(Append(joined[i], m)) = Len(joined[i]) + 1
      /\ Head(Append(joined[i], m)) = IF joined[i] = <<>> THEN m ELSE Head(joined[i])
  BY <1>6, AppendProperties, HeadTailAppend
<1>8. /\ joined'[i] = Append(joined[i], m)
      /\ \A k \in Links \ {i} : joined'[k] = joined[k]
      /\ joined' \in [Links -> Seq(Members)]
  BY <1>7 DEF RedeemInvite, TypeOK
<1> QED
  BY <1>1, <1>2, <1>3, <1>5, <1>7, <1>8, RowsAssumption

LEMMA UsingTypes ==
    ASSUME TypeInv, Using
    PROVE  TypeInv'
<1>a. TypeOK
  BY DEF TypeInv
<1>1. ASSUME NEW i \in Links, RevokeInvite(i) PROVE TypeInv'
  <2>1. [invites[i] EXCEPT !.revoked = TRUE] \in Invite
    BY <1>a, <1>1 DEF RevokeInvite, TypeOK, Invite
  <2>2. invites' \in [Links -> Invite \cup {Nothing}]
    BY <1>a, <1>1, <2>1 DEF RevokeInvite, TypeOK
  <2> QED
    BY <1>1, <2>2 DEF RevokeInvite, TypeInv, TypeOK, Typed
<1>2. ASSUME NEW i \in Links, NEW m \in Members, RedeemInvite(i, m) PROVE TypeInv'
  <2>1. /\ invites' \in [Links -> Invite \cup {Nothing}]
        /\ joined' \in [Links -> Seq(Members)] /\ invites[i].pod \in Pods
    BY <1>a, <1>2, RedeemWrites DEF Invite
  <2>2. role' \in [Members -> Roles \cup {"none"}]
    BY <1>a, <1>2 DEF RedeemInvite, RoleFor, TypeOK, Roles
  <2> QED
    BY <1>2, <2>1, <2>2 DEF RedeemInvite, TypeInv, TypeOK, Typed
<1> QED
  BY <1>1, <1>2 DEF Using

LEMMA ChangingTypes ==
    ASSUME TypeInv, Changing
    PROVE  TypeInv'
<1>a. TypeOK
  BY DEF TypeInv
<1>1. ASSUME NEW a \in Members, NEW m \in Members, Remove(a, m) PROVE TypeInv'
  BY <1>a, <1>1, VoidTypes, ActTypes DEF Remove, Outdate, TypeInv, TypeOK, Typed
<1>2. ASSUME NEW a \in Members, NEW m \in Members, Rotate(a, m) PROVE TypeInv'
  BY <1>a, <1>2, VoidTypes, ActTypes DEF Rotate, TypeInv, TypeOK, Typed
<1>3. ASSUME NEW a \in Members, NEW m \in Members, NEW p \in Pods, RemoveFromHousehold(a, m, p)
      PROVE  TypeInv'
  BY <1>a, <1>3, VoidTypes, ActTypes DEF RemoveFromHousehold, Outdate, TypeInv, TypeOK, Typed
<1>4. ASSUME NEW a \in Members, NEW m \in Members, NEW p \in Pods, AddToHousehold(a, m, p)
      PROVE  TypeInv'
  BY <1>a, <1>4, ActTypes DEF AddToHousehold, TypeInv, TypeOK, Typed
<1>5. ASSUME NEW a \in Members, NEW m \in Members, NEW new \in Roles, AssignRole(a, m, new)
      PROVE  TypeInv'
  BY <1>a, <1>5, ActTypes DEF AssignRole, TypeInv, TypeOK, Typed
<1> QED
  BY <1>1, <1>2, <1>3, <1>4, <1>5 DEF Changing

LEMMA RestoringTypes ==
    ASSUME TypeInv, Restoring
    PROVE  TypeInv'
<1>1. ASSUME TakeBackup PROVE TypeInv'
  BY <1>1 DEF TakeBackup, TypeInv, TypeOK, Typed, db
<1>2. ASSUME PgRestore PROVE TypeInv'
  BY <1>2 DEF PgRestore, TypeInv, TypeOK, Typed
<1>3. ASSUME SecurityReplay PROVE TypeInv'
  <2>1. \A i \in Links : invites[i] # Nothing => [invites[i] EXCEPT !.revoked = TRUE] \in Invite
    BY DEF TypeInv, TypeOK, Invite
  <2>2. invites' \in [Links -> Invite \cup {Nothing}]
    BY <1>3, <2>1 DEF SecurityReplay
  <2> QED
    BY <1>3, <2>2 DEF SecurityReplay, TypeInv, TypeOK, Typed
<1> QED
  BY <1>1, <1>2, <1>3 DEF Restoring

LEMMA TypesHold == Spec => []TypeInv
<1>1. ASSUME Init PROVE TypeInv
  <2>1. on \subseteq Members \X Pods /\ active \subseteq Members /\ made \subseteq Pods
    BY <1>1, FounderAssumption DEF Init
  <2>2. role \in [Members -> Roles \cup {"none"}] /\ invites \in [Links -> Invite \cup {Nothing}]
    BY <1>1 DEF Init, Roles
  <2>3. joined \in [Links -> Seq(Members)]
    BY <1>1 DEF Init
  <2>4. req \in [Requests -> Mint \cup {Nothing}] /\ acts \in 0 .. MaxActs
    BY <1>1, ActsAssumption DEF Init
  <2>5. granted = {} /\ issued = {} /\ outdated = {} /\ restored = FALSE /\ backup = Nothing
    BY <1>1 DEF Init
  <2> QED
    BY <2>1, <2>2, <2>3, <2>4, <2>5 DEF TypeInv, TypeOK
<1>2. TypeInv /\ [Next]_vars => TypeInv'
  <2>1. ASSUME TypeInv, UNCHANGED vars PROVE TypeInv'
    BY <2>1 DEF TypeInv, TypeOK, Typed, vars
  <2> QED
    BY <2>1, MintingTypes, UsingTypes, ChangingTypes, RestoringTypes DEF Next
<1> QED
  BY <1>1, <1>2, PTL DEF Spec

(* Every reachable database, archive and mint in flight is one the models   *)
(* describe.                                                                *)
THEOREM TypeCorrect == Spec => []TypeOK
<1>1. TypeInv => TypeOK
  BY DEF TypeInv
<1> QED
  BY <1>1, TypesHold, PTL

-----------------------------------------------------------------------------
(* The ledger, and the role of a link.                                      *)

(* A step that ends rows at most.                                           *)
LEMMA EndingSound ==
    ASSUME SoundInv, UNCHANGED <<made, joined, granted, req, backup, issued>>,
           \A i \in Links :
            /\ invites'[i] = Nothing <=> invites[i] = Nothing
            /\ invites[i] # Nothing =>
                /\ invites'[i].pod = invites[i].pod /\ invites'[i].uses = invites[i].uses
                /\ invites'[i].grants = invites[i].grants,
           granted \subseteq Links \X Members
    PROVE  SoundInv'
<1>1. Ledger(invites, joined)'
  BY DEF SoundInv, Sound, Ledger
<1>2. First(invites, joined, granted)'
  BY DEF SoundInv, Sound, First
<1>3. Drawn(invites, made)'
  BY DEF SoundInv, Sound, Drawn
<1>4. OneGrant(invites)'
  BY DEF SoundInv, Sound, OneGrant
<1>5. (backup # Nothing => Sound(backup.made, backup.invites, backup.joined, backup.granted))'
  BY DEF SoundInv, Sound, Ledger, First, Drawn, OneGrant
<1>6. Mints'
  BY DEF SoundInv, Mints
<1> QED
  BY <1>1, <1>2, <1>3, <1>4, <1>5, <1>6 DEF SoundInv, Sound

(* A step that leaves the rows, the ledger and the mints.                   *)
LEMMA SameSound ==
    ASSUME SoundInv, UNCHANGED <<made, invites, joined, granted, req, backup, issued>>
    PROVE  SoundInv'
  BY DEF SoundInv, Sound, Ledger, First, Drawn, OneGrant, Mints

LEMMA MintingSound ==
    ASSUME TypeInv, SoundInv, Minting
    PROVE  SoundInv'
<1> USE DEF db
<1>a. TypeOK
  BY DEF TypeInv
<1>1. ASSUME NEW r \in Requests, NEW a \in Members, NEW p \in Pods, NEW g \in BOOLEAN,
             Authorise(r, a, p, g),
             g => p \notin made,
             \A s \in Requests : req[s] # Nothing /\ (g \/ req[s].grants) => req[s].pod # p
      PROVE  SoundInv'
  <2>1. /\ req'[r].pod = p /\ req'[r].grants = g /\ \A s \in Requests \ {r} : req'[s] = req[s]
        /\ UNCHANGED <<made, invites, joined, granted, backup, issued>>
    BY <1>a, <1>1 DEF Authorise, TypeOK
  <2>2. ASSUME NEW q \in Requests, NEW s \in Requests, req'[q] # Nothing, req'[q].grants
        PROVE  /\ req'[q].pod \notin made'
               /\ (req'[s] # Nothing /\ s # q => req'[s].pod # req'[q].pod)
    <3>1. CASE q = r
      BY <1>1, <2>1, <2>2, <3>1
    <3>2. CASE q # r
      BY <1>1, <2>1, <2>2, <3>2 DEF SoundInv, Mints
    <3> QED
      BY <3>1, <3>2
  <2>3. Mints'
    BY <2>2 DEF Mints
  <2> QED
    BY <2>1, <2>3 DEF SoundInv, Sound, Ledger, First, Drawn, OneGrant
<1>2. ASSUME NEW r \in Requests, NEW a \in Members, NEW p \in Pods, NEW g \in BOOLEAN,
             InviteHousehold(r, a, p, g)
      PROVE  SoundInv'
  BY <1>1, <1>2 DEF InviteHousehold
<1>3. ASSUME NEW r \in Requests, NEW a \in Members, NEW i \in Links, ResendInvite(r, a, i)
      PROVE  SoundInv'
  <2>1. invites[i].pod \in Pods /\ invites[i].pod \in made
    BY <1>a, <1>3 DEF ResendInvite, TypeOK, Invite, SoundInv, Sound, Drawn
  <2>2. \A s \in Requests : req[s] # Nothing /\ req[s].grants => req[s].pod # invites[i].pod
    BY <2>1 DEF SoundInv, Mints
  <2> QED
    BY <1>1, <1>3, <2>1, <2>2 DEF ResendInvite
<1>4. ASSUME NEW r \in Requests, NEW i \in Links, MintInvite(r, i) PROVE SoundInv'
  <2> DEFINE row == NewInvite(req[r])
  <2>1. req[r] \in Mint /\ req[r] # Nothing
    BY <1>a, <1>4 DEF MintInvite, TypeOK
  <2>2. /\ row \in Invite /\ row # Nothing /\ row.uses = 0
        /\ row.pod = req[r].pod /\ row.grants = req[r].grants
    <3>1. /\ req[r].pod \in Pods /\ req[r].creator \in Members /\ req[r].grants \in BOOLEAN
          /\ 0 \in 0 .. MaxUses
      BY <2>1, UsesAssumption DEF Mint
    <3>2. row \in Invite
      BY <3>1 DEF NewInvite, Invite
    <3> QED
      BY <3>2, RowsAssumption DEF NewInvite
  <2>3. invites[i] = Nothing /\ joined[i] = <<>>
    BY <1>4 DEF MintInvite, SoundInv, Sound, Drawn, Ledger
  <2>4. /\ invites'[i] = row /\ \A k \in Links \ {i} : invites'[k] = invites[k]
        /\ made' = made \cup {req[r].pod} /\ issued' = issued \cup {i}
        /\ UNCHANGED <<joined, granted, backup>>
    BY <1>a, <1>4 DEF MintInvite, TypeOK
  <2>5. req'[r] = Nothing /\ \A s \in Requests \ {r} : req'[s] = req[s]
    BY <1>a, <1>4 DEF MintInvite, TypeOK
  <2> HIDE DEF row
  <2>6. Ledger(invites, joined)'
    <3>1. Len(joined[i]) = 0
      BY <2>3
    <3> QED
      BY <2>2, <2>4, <3>1, UsesAssumption DEF SoundInv, Sound, Ledger
  <2>7. First(invites, joined, granted)'
    <3>1. \A pair \in granted : pair[1] \in Links /\ pair[1] # i
      BY <1>a, <2>3 DEF SoundInv, Sound, First, TypeOK
    <3> QED
      BY <2>4, <3>1 DEF SoundInv, Sound, First
  <2>8. Drawn(invites, made)'
    BY <2>2, <2>4 DEF SoundInv, Sound, Drawn
  <2>9. OneGrant(invites)'
    <3>1. row.grants => \A k \in Links : invites[k] # Nothing => invites[k].pod # row.pod
      BY <2>1, <2>2 DEF SoundInv, Sound, Drawn, Mints
    <3> QED
      BY <2>4, <3>1 DEF SoundInv, Sound, OneGrant
  <2>10. (backup # Nothing => Sound(backup.made, backup.invites, backup.joined, backup.granted))'
    BY <2>4 DEF SoundInv, Sound, Ledger, First, Drawn, OneGrant
  <2>11. Mints'
    BY <2>1, <2>4, <2>5 DEF SoundInv, Mints
  <2> QED
    BY <2>6, <2>7, <2>8, <2>9, <2>10, <2>11 DEF SoundInv, Sound
<1> QED
  BY <1>2, <1>3, <1>4 DEF Minting

LEMMA RedeemSound ==
    ASSUME TypeInv, SoundInv, NEW i \in Links, NEW m \in Members, RedeemInvite(i, m)
    PROVE  SoundInv'
<1>a. TypeOK
  BY DEF TypeInv
<1>b. /\ invites[i] # Nothing /\ invites[i].uses < MaxUses
      /\ invites[i].uses = Len(joined[i]) /\ joined[i] \in Seq(Members)
  BY <1>a DEF RedeemInvite, Redeemable, SoundInv, Sound, Ledger, TypeOK
<1>c. UNCHANGED <<made, req, backup, issued>>
  BY DEF RedeemInvite
<1>1. Ledger(invites, joined)'
  <2>1. \A k \in Links \ {i} : IF invites'[k] = Nothing THEN joined'[k] = <<>>
                               ELSE invites'[k].uses = Len(joined'[k]) /\ Len(joined'[k]) <= MaxUses
    BY <1>a, RedeemWrites DEF SoundInv, Sound, Ledger
  <2>2. Len(joined[i]) \in Nat /\ Len(joined'[i]) = Len(joined[i]) + 1
    BY <1>a, <1>b, RedeemWrites
  <2>3. /\ invites'[i] # Nothing /\ invites'[i].uses = Len(joined'[i])
        /\ Len(joined'[i]) <= MaxUses
    BY <1>a, <1>b, <2>2, RedeemWrites, UsesAssumption
  <2> QED
    BY <2>1, <2>3 DEF Ledger
<1>2. First(invites, joined, granted)'
  <2>1. ASSUME NEW pair \in granted
        PROVE  /\ invites'[pair[1]] # Nothing /\ invites'[pair[1]].grants
               /\ Len(joined'[pair[1]]) > 0 /\ pair[2] = Head(joined'[pair[1]])
    <3>1. /\ pair[1] \in Links /\ invites[pair[1]] # Nothing /\ invites[pair[1]].grants
          /\ Len(joined[pair[1]]) > 0 /\ pair[2] = Head(joined[pair[1]])
      BY <1>a DEF SoundInv, Sound, First, TypeOK
    <3>2. CASE pair[1] # i
      BY <1>a, <3>1, <3>2, RedeemWrites
    <3>3. CASE pair[1] = i
      <4>1. joined[i] # <<>> /\ Len(joined[i]) \in Nat
        BY <1>b, <3>1, <3>3
      <4>2. Head(joined'[i]) = Head(joined[i]) /\ Len(joined'[i]) = Len(joined[i]) + 1
        BY <1>a, <4>1, RedeemWrites
      <4>3. invites'[i] # Nothing /\ invites'[i].grants = invites[i].grants
        BY <1>a, RedeemWrites
      <4> QED
        BY <3>1, <3>3, <4>1, <4>2, <4>3
    <3> QED
      BY <3>2, <3>3
  <2>2. CASE RoleFor(i) = "member"
    <3>1. granted' = granted
      BY <2>2 DEF RedeemInvite
    <3> QED
      BY <2>1, <3>1 DEF First
  <2>3. CASE RoleFor(i) # "member"
    <3>1. granted' = granted \cup {<<i, m>>} /\ invites[i].grants /\ invites[i].uses = 0
      BY <2>3 DEF RedeemInvite, RoleFor
    <3>2. joined[i] = <<>>
      BY <1>b, <3>1, EmptySeq
    <3>3. Head(joined'[i]) = m /\ Len(joined'[i]) > 0
      <4>1. Len(joined[i]) = 0
        BY <1>b, <3>1
      <4> QED
        BY <1>a, <3>2, <4>1, RedeemWrites
    <3>4. invites'[i] # Nothing /\ invites'[i].grants = invites[i].grants
      BY <1>a, RedeemWrites
    <3>5. ASSUME NEW pair \in granted', pair \notin granted
          PROVE  pair[1] = i /\ pair[2] = m
      BY <3>1, <3>5
    <3> QED
      BY <2>1, <3>1, <3>3, <3>4, <3>5 DEF First
  <2> QED
    BY <2>2, <2>3
<1>3. \A k \in Links : /\ invites'[k] # Nothing <=> invites[k] # Nothing
                       /\ invites'[k].pod = invites[k].pod /\ invites'[k].grants = invites[k].grants
  BY <1>a, <1>b, RedeemWrites
<1>4. Drawn(invites, made)' /\ OneGrant(invites)'
  BY <1>c, <1>3 DEF SoundInv, Sound, Drawn, OneGrant
<1>5. (backup # Nothing => Sound(backup.made, backup.invites, backup.joined, backup.granted))'
  BY <1>c DEF SoundInv, Sound, Ledger, First, Drawn, OneGrant
<1>6. Mints'
  BY <1>c DEF SoundInv, Mints
<1> QED
  BY <1>1, <1>2, <1>4, <1>5, <1>6 DEF SoundInv, Sound

LEMMA SoundStep ==
    ASSUME TypeInv, SoundInv, Next
    PROVE  SoundInv'
<1>a. TypeOK /\ granted \subseteq Links \X Members
  BY DEF TypeInv, TypeOK
<1>1. ASSUME NEW i \in Links, RevokeInvite(i) PROVE SoundInv'
  <2>1. invites[i] \in Invite /\ invites' = [invites EXCEPT ![i] = [invites[i] EXCEPT !.revoked = TRUE]]
    BY <1>a, <1>1 DEF RevokeInvite, TypeOK
  <2> DEFINE row == [invites[i] EXCEPT !.revoked = TRUE]
  <2>2. /\ row # Nothing /\ row.pod = invites[i].pod /\ row.uses = invites[i].uses
        /\ row.grants = invites[i].grants
    BY <2>1, RowsAssumption DEF Invite
  <2>3. invites'[i] = row /\ \A k \in Links \ {i} : invites'[k] = invites[k]
    BY <1>a, <2>1 DEF TypeOK
  <2> HIDE DEF row
  <2>4. invites[i] # Nothing /\ UNCHANGED <<made, joined, granted, req, backup, issued>>
    BY <1>1 DEF RevokeInvite
  <2> QED
    BY <1>a, <2>2, <2>3, <2>4, EndingSound
<1>2. ASSUME NEW m \in Members, NEW sides, invites' = Void(m, sides),
             UNCHANGED <<made, joined, granted, req, backup, issued>>
      PROVE  SoundInv'
  BY <1>a, <1>2, VoidTypes, EndingSound
<1>3. ASSUME NEW a \in Members, NEW m \in Members, Remove(a, m) PROVE SoundInv'
  BY <1>2, <1>3 DEF Remove
<1>4. ASSUME NEW a \in Members, NEW m \in Members, Rotate(a, m) PROVE SoundInv'
  BY <1>2, <1>4 DEF Rotate
<1>5. ASSUME NEW a \in Members, NEW m \in Members, NEW p \in Pods, RemoveFromHousehold(a, m, p)
      PROVE  SoundInv'
  BY <1>2, <1>5 DEF RemoveFromHousehold
<1>6. ASSUME NEW a \in Members, NEW m \in Members, NEW p \in Pods, AddToHousehold(a, m, p)
      PROVE  SoundInv'
  BY <1>6, SameSound DEF AddToHousehold
<1>7. ASSUME NEW a \in Members, NEW m \in Members, NEW new \in Roles, AssignRole(a, m, new)
      PROVE  SoundInv'
  BY <1>7, SameSound DEF AssignRole
<1>8. ASSUME TakeBackup PROVE SoundInv'
  <2>1. /\ UNCHANGED <<made, invites, joined, granted, req, issued>>
        /\ backup'.made = made /\ backup'.invites = invites
        /\ backup'.joined = joined /\ backup'.granted = granted
    BY <1>8 DEF TakeBackup, db
  <2> QED
    BY <2>1 DEF SoundInv, Sound, Ledger, First, Drawn, OneGrant, Mints
<1>9. ASSUME PgRestore PROVE SoundInv'
  <2>1. /\ backup # Nothing /\ UNCHANGED <<req, backup, issued>>
        /\ made' = backup.made /\ invites' = backup.invites
        /\ joined' = backup.joined /\ granted' = backup.granted
        /\ \A r \in Requests : req[r] = Nothing
    BY <1>9 DEF PgRestore
  <2> QED
    BY <2>1 DEF SoundInv, Sound, Ledger, First, Drawn, OneGrant, Mints
<1>10. ASSUME SecurityReplay PROVE SoundInv'
  <2>1. \A i \in Links : invites[i] # Nothing =>
            LET row == [invites[i] EXCEPT !.revoked = TRUE] IN
            /\ row # Nothing /\ row.pod = invites[i].pod /\ row.uses = invites[i].uses
            /\ row.grants = invites[i].grants
    BY <1>a, RowsAssumption DEF TypeOK, Invite
  <2>2. \A i \in Links :
            /\ invites'[i] = Nothing <=> invites[i] = Nothing
            /\ invites[i] # Nothing =>
                /\ invites'[i].pod = invites[i].pod /\ invites'[i].uses = invites[i].uses
                /\ invites'[i].grants = invites[i].grants
    BY <1>10, <2>1 DEF SecurityReplay
  <2> QED
    BY <1>a, <1>10, <2>2, EndingSound DEF SecurityReplay
<1> QED
  BY <1>1, <1>3, <1>4, <1>5, <1>6, <1>7, <1>8, <1>9, <1>10, MintingSound, RedeemSound
     DEF Next, Using, Changing, Restoring

LEMMA SoundHolds == Spec => []SoundInv
<1>1. ASSUME Init PROVE SoundInv
  <2>1. /\ \A i \in Links : invites[i] = Nothing /\ joined[i] = <<>>
        /\ \A r \in Requests : req[r] = Nothing
        /\ granted = {} /\ backup = Nothing
    BY <1>1 DEF Init
  <2> QED
    BY <2>1 DEF SoundInv, Sound, Ledger, First, Drawn, OneGrant, Mints
<1>2. TypeInv /\ SoundInv /\ [Next]_vars => SoundInv'
  <2>1. ASSUME SoundInv, UNCHANGED vars PROVE SoundInv'
    BY <2>1, SameSound DEF vars
  <2> QED
    BY <2>1, SoundStep
<1> QED
  BY <1>1, <1>2, TypesHold, PTL DEF Spec

(* The count a link is capped by and the record of who joined through it    *)
(* agree, and neither passes the cap, whatever archive is restored when     *)
(* (invites.redeem_invite, under the invite's lock).                        *)
THEOREM LedgersAgree == Spec => []LedgerAgrees
<1>1. SoundInv => LedgerAgrees
  BY DEF SoundInv, Sound, Ledger, LedgerAgrees
<1> QED
  BY <1>1, SoundHolds, PTL

(* The first through a granting link is the one who got its role            *)
(* (Invite.role_grant_holder).                                              *)
THEOREM FirstTakesTheRole == Spec => []RoleGoesToTheFirst
<1>1. SoundInv => RoleGoesToTheFirst
  BY DEF SoundInv, Sound, First, RoleGoesToTheFirst
<1> QED
  BY <1>1, SoundHolds, PTL

(* A household makes one side admin at most, however often its links are    *)
(* handed out again (admin_views.resend_invite).                            *)
THEOREM OneAdminEach == Spec => []OneAdminPerHousehold
<1>1. TypeInv /\ SoundInv => OneAdminPerHousehold
  <2> SUFFICES ASSUME TypeInv, SoundInv, NEW a \in granted, NEW b \in granted,
                      invites[a[1]].pod = invites[b[1]].pod
               PROVE  a = b
    BY DEF OneAdminPerHousehold
  <2>1. a \in Links \X Members /\ b \in Links \X Members
    BY DEF TypeInv, TypeOK
  <2>2. /\ invites[a[1]] # Nothing /\ invites[a[1]].grants /\ a[2] = Head(joined[a[1]])
        /\ invites[b[1]] # Nothing /\ invites[b[1]].grants /\ b[2] = Head(joined[b[1]])
    BY DEF SoundInv, Sound, First
  <2>3. a[1] = b[1]
    BY <2>1, <2>2 DEF SoundInv, Sound, OneGrant
  <2>4. a[2] = b[2]
    BY <2>2, <2>3
  <2> QED
    BY <2>1, <2>3, <2>4
<1> QED
  BY <1>1, TypesHold, SoundHolds, PTL

-----------------------------------------------------------------------------
(* Ended links stay ended.                                                  *)

(* A step that ends what it outdates, and revives nothing.                  *)
LEMMA EndingEnds ==
    ASSUME SoundInv, EndedInv, UNCHANGED <<issued, restored>>,
           \A i \in Links : invites[i] # Nothing /\ invites[i].revoked => invites'[i].revoked,
           \A i \in Links : invites[i] = Nothing => invites'[i] = Nothing,
           outdated \subseteq Links,
           \A i \in outdated' \ outdated :
             i \in Links /\ invites[i] # Nothing /\ invites'[i].revoked
    PROVE  EndedInv'
  BY DEF EndedInv, SoundInv, Sound, Drawn

(* The sides that taking one household away loses.                          *)
LEMMA SidesLost ==
    ASSUME NEW m \in Members, NEW p \in Pods, on' = on \ {<<m, p>>}
    PROVE  SidesOn(m) \ SidesOn(m)' \subseteq SidesOf[p] \ SidesVia(PodsOf(m) \ {p})
<1>1. PodsOf(m)' = PodsOf(m) \ {p}
  BY DEF PodsOf
<1>2. SidesOn(m)' = SidesVia(PodsOf(m) \ {p})
  BY <1>1 DEF SidesOn, SidesVia
<1>3. SidesOn(m) \subseteq SidesOf[p] \cup SidesVia(PodsOf(m) \ {p})
  BY DEF SidesOn, SidesVia
<1> QED
  BY <1>2, <1>3

LEMMA ChangingEnds ==
    ASSUME TypeInv, SoundInv, EndedInv, Changing
    PROVE  EndedInv'
<1>a. TypeOK /\ outdated \subseteq Links
  BY DEF TypeInv, TypeOK
<1>1. ASSUME NEW m \in Members, NEW sides, invites' = Void(m, sides),
             UNCHANGED <<issued, restored>>,
             \A i \in outdated' \ outdated :
                /\ i \in Links /\ invites[i] # Nothing
                /\ invites[i].creator = m \/ SidesOf[invites[i].pod] \cap sides # {}
      PROVE  EndedInv'
  BY <1>a, <1>1, VoidTypes, EndingEnds
<1>2. ASSUME NEW a \in Members, NEW m \in Members, Remove(a, m) PROVE EndedInv'
  <2>1. /\ invites' = Void(m, SidesOn(m)) /\ UNCHANGED <<issued, restored>> /\ Outdate(m)
    BY <1>2 DEF Remove
  <2>2. \A i \in outdated' \ outdated :
            /\ i \in Links /\ invites[i] # Nothing
            /\ invites[i].creator = m \/ SidesOf[invites[i].pod] \cap SidesOn(m) # {}
    BY <2>1 DEF Outdate
  <2> QED
    BY <1>1, <2>1, <2>2
<1>3. ASSUME NEW a \in Members, NEW m \in Members, Rotate(a, m) PROVE EndedInv'
  <2>1. /\ invites' = Void(m, {}) /\ UNCHANGED <<issued, restored>>
        /\ \A i \in outdated' \ outdated :
            i \in Links /\ invites[i] # Nothing /\ invites[i].creator = m
    BY <1>3 DEF Rotate
  <2> QED
    BY <1>1, <2>1
<1>4. ASSUME NEW a \in Members, NEW m \in Members, NEW p \in Pods, RemoveFromHousehold(a, m, p)
      PROVE  EndedInv'
  <2> DEFINE lost == SidesOf[p] \ SidesVia(PodsOf(m) \ {p})
  <2>1. /\ invites' = Void(m, lost) /\ UNCHANGED <<issued, restored>> /\ Outdate(m)
        /\ on' = on \ {<<m, p>>}
    BY <1>4 DEF RemoveFromHousehold
  <2>2. SidesOn(m) \ SidesOn(m)' \subseteq lost
    BY <2>1, SidesLost
  <2>3. \A i \in outdated' \ outdated :
            /\ i \in Links /\ invites[i] # Nothing
            /\ invites[i].creator = m \/ SidesOf[invites[i].pod] \cap lost # {}
    BY <2>1, <2>2 DEF Outdate
  <2> HIDE DEF lost
  <2> QED
    BY <1>1, <2>1, <2>3
<1>5. ASSUME NEW a \in Members, NEW m \in Members, NEW p \in Pods, AddToHousehold(a, m, p)
      PROVE  EndedInv'
  BY <1>5 DEF AddToHousehold, EndedInv
<1>6. ASSUME NEW a \in Members, NEW m \in Members, NEW new \in Roles, AssignRole(a, m, new)
      PROVE  EndedInv'
  BY <1>6 DEF AssignRole, EndedInv
<1> QED
  BY <1>2, <1>3, <1>4, <1>5, <1>6 DEF Changing

LEMMA EndedStep ==
    ASSUME TypeInv, SoundInv, EndedInv, Next
    PROVE  EndedInv'
<1>a. TypeOK /\ outdated \subseteq Links
  BY DEF TypeInv, TypeOK
<1>1. ASSUME NEW r \in Requests, NEW i \in Links, MintInvite(r, i) PROVE EndedInv'
  <2>1. \A k \in Links \ {i} : invites'[k] = invites[k]
    BY <1>a, <1>1 DEF MintInvite, TypeOK
  <2> QED
    BY <1>a, <1>1, <2>1 DEF MintInvite, EndedInv
<1>2. ASSUME NEW r \in Requests, NEW a \in Members, NEW p, NEW g, Authorise(r, a, p, g)
      PROVE  EndedInv'
  BY <1>2 DEF Authorise, EndedInv, db
<1>3. CASE Minting
  BY <1>1, <1>2, <1>3 DEF Minting, InviteHousehold, ResendInvite
<1>4. ASSUME NEW i \in Links, RevokeInvite(i) PROVE EndedInv'
  <2>1. invites[i] \in Invite
    BY <1>a, <1>4 DEF RevokeInvite, TypeOK
  <2>2. invites'[i].revoked /\ \A k \in Links \ {i} : invites'[k] = invites[k]
    BY <1>a, <1>4, <2>1 DEF RevokeInvite, TypeOK, Invite
  <2> QED
    BY <1>a, <1>4, <2>2 DEF RevokeInvite, EndedInv
<1>5. ASSUME NEW i \in Links, NEW m \in Members, RedeemInvite(i, m) PROVE EndedInv'
  <2>1. \A k \in Links : k # i => invites'[k] = invites[k]
    BY <1>a, <1>5, RedeemWrites
  <2>2. ~invites[i].revoked /\ invites[i] # Nothing
    BY <1>5 DEF RedeemInvite, Redeemable
  <2>3. UNCHANGED <<outdated, issued, restored>>
    BY <1>5 DEF RedeemInvite
  <2> QED
    BY <1>a, <2>1, <2>2, <2>3 DEF EndedInv
<1>6. ASSUME TakeBackup PROVE EndedInv'
  BY <1>6 DEF TakeBackup, EndedInv, db
<1>7. ASSUME PgRestore PROVE EndedInv'
  BY <1>7 DEF PgRestore, EndedInv
<1>8. ASSUME SecurityReplay PROVE EndedInv'
  <2>1. \A i \in Links : invites'[i] = Nothing \/ invites'[i].revoked
    BY <1>a, <1>8 DEF SecurityReplay, TypeOK, Invite
  <2>2. \A i \in outdated' : i \in Links /\ i \in issued
    BY <1>a, <1>8 DEF SecurityReplay, EndedInv, SoundInv, Sound, Drawn
  <2> QED
    BY <1>8, <2>1, <2>2 DEF SecurityReplay, EndedInv
<1> QED
  BY <1>3, <1>4, <1>5, <1>6, <1>7, <1>8, ChangingEnds DEF Next, Using, Restoring

(* What some act has ended is never redeemable again, except between a      *)
(* restore and its security replay (_void_invites of revocation.py, and     *)
(* _forced_security_replay).                                                *)
THEOREM EndedStaysEnded == Spec => []NoWayBack
<1>1. Init => EndedInv
  BY DEF Init, EndedInv
<1>2. TypeInv /\ SoundInv /\ EndedInv /\ [Next]_vars => EndedInv'
  <2>1. ASSUME EndedInv, UNCHANGED vars PROVE EndedInv'
    BY <2>1 DEF EndedInv, vars
  <2> QED
    BY <2>1, EndedStep
<1>3. EndedInv => NoWayBack
  BY DEF EndedInv, NoWayBack, Redeemable
<1> QED
  BY <1>1, <1>2, <1>3, TypesHold, SoundHolds, PTL DEF Spec
=============================================================================
