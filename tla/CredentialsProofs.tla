-------------------------- MODULE CredentialsProofs --------------------------
(***************************************************************************)
(* Credentials proved for every set of members, tokens and requests:       *)
(* its types, LiveIsFresh, and that it implements Capabilities.            *)
(***************************************************************************)
EXTENDS Credentials, TLAPS

(* No row, request or archive carries a generation its member has not yet   *)
(* reached.                                                                 *)
NoFutureGeneration ==
    /\ \A c \in Caps : rows[c] # Nothing => rows[c].gen <= gen[rows[c].member]
    /\ \A r \in Requests : req[r] # Nothing => req[r].gen <= gen[req[r].member]
    /\ backup # Nothing =>
        \A c \in Caps : backup.rows[c] # Nothing =>
            backup.rows[c].gen <= backup.gen[backup.rows[c].member]

(* What carries the current generation was authorised in the current epoch. *)
CurrentIsFresh ==
    /\ ~restored =>
        \A c \in Caps :
            /\ rows[c] # Nothing
            /\ rows[c].kind \in Generational
            /\ rows[c].gen = gen[rows[c].member]
            => born[c] = epoch[rows[c].member]
    /\ \A r \in Requests :
            req[r] # Nothing /\ req[r].gen = gen[req[r].member]
            => req[r].born = epoch[req[r].member]

FreshInv == TypeOK /\ NoFutureGeneration /\ CurrentIsFresh

(* A password is in use when an account, a stored session or a request in   *)
(* flight carries its hash.                                                 *)
UsedIn(passwords, table, p) ==
    \/ \E m \in Members : passwords[m] = p
    \/ \E d \in Caps : table[d] # Nothing /\ table[d].pw = p
InUse(p) ==
    \/ UsedIn(pw, rows, p)
    \/ \E r \in Requests : req[r] # Nothing /\ req[r].pw = p

(* Only drawn tokens find a row, and only drawn tokens name a password.     *)
OnlyIssued ==
    /\ \A c \in Caps : rows[c] # Nothing => c \in issued
    /\ \A p \in Caps : InUse(p) => p \in issued
    /\ backup # Nothing =>
        /\ \A c \in Caps : backup.rows[c] # Nothing => c \in issued
        /\ \A p \in Caps : UsedIn(backup.pw, backup.rows, p) => p \in issued

(* A recovery link that can still be used has not set a password yet.       *)
Unused(table, c) ==
    table[c] # Nothing /\ table[c].kind = "recovery" /\ ~table[c].spent
UnusedSetsNothing ==
    /\ \A c \in Caps : Unused(rows, c) => ~InUse(c)
    /\ backup # Nothing =>
        \A c \in Caps : Unused(backup.rows, c) => ~UsedIn(backup.pw, backup.rows, c)

(* An elder session of the current generation, stored or about to be,       *)
(* stands on a link.                                                        *)
ElderSessionHasLink ==
    /\ ~restored =>
        \A c \in Caps : rows[c] # Nothing /\ rows[c].kind = "elderSession"
                        /\ rows[c].gen = gen[rows[c].member]
                        => HasElderLink(rows[c].member)
    /\ \A r \in Requests : At(r, "enter") /\ req[r].gen = gen[req[r].member]
                        => HasElderLink(req[r].member)

DeadInv == FreshInv /\ OnlyIssued /\ UnusedSetsNothing /\ ElderSessionHasLink

-----------------------------------------------------------------------------
(* Facts the steps below share.                                             *)

LEMMA RowTypes ==
    ASSUME NEW m \in Members, NEW kind \in Kinds, NEW g \in Nat, NEW p \in Passwords
    PROVE  /\ SessionRow(m, p) \in Row
           /\ LinkRow(kind, m, g) \in Row
  BY DEF SessionRow, LinkRow, Row, Kinds, Passwords

(* The registry rewrites rows, it never creates or moves one.               *)
LEMMA RegistryTypes ==
    ASSUME TypeOK, NEW m \in Members
    PROVE  RunSteps(m) \in Rows
<1> SUFFICES ASSUME NEW c \in Caps
             PROVE  AfterRegistry(m, rows[c]) \in Row \cup {Nothing}
  BY DEF RunSteps, Rows
<1> rows[c] \in Row \cup {Nothing}
  BY DEF TypeOK, Rows
<1> QED
  BY DEF AfterRegistry, Row

(* Credentials keeps its types: the invariant every other proof starts from. *)
THEOREM TypeCorrect == Spec => []TypeOK
<1>1. Init => TypeOK
  <2> SUFFICES ASSUME Init PROVE TypeOK
    OBVIOUS
  <2>1. rows \in Rows
    BY DEF Init, Rows
  <2> QED
    BY <2>1, LoginAssumption DEF Init, TypeOK, Passwords
<1>2. TypeOK /\ [Next]_vars => TypeOK'
  <2> SUFFICES ASSUME TypeOK, [Next]_vars PROVE TypeOK'
    OBVIOUS
  <2> USE DEF TypeOK
  <2>1. CASE Revoking
    <3>1. ASSUME NEW m \in Members, Remove(m) PROVE TypeOK'
      BY <3>1, RegistryTypes DEF Remove, Bump
    <3>2. ASSUME NEW m \in Members, Shrink(m) PROVE TypeOK'
      BY <3>2, RegistryTypes DEF Shrink, Bump
    <3>3. ASSUME NEW m \in Members, Place(m) PROVE TypeOK'
      BY <3>3 DEF Place, history
    <3>4. ASSUME NEW m \in Members, NEW old \in Caps, NEW c \in Caps,
                 LeaveLosingASide(m, old, c)
          PROVE  TypeOK'
      <4>1. epoch'[m] \in Nat /\ epoch' \in [Members -> Nat] /\ gen' \in [Members -> Nat]
        BY <3>4 DEF LeaveLosingASide, Bump
      <4>2. rows' \in Rows
        BY <3>4, RegistryTypes, RowTypes DEF LeaveLosingASide, Rows, Kinds
      <4> QED
        BY <3>4, <4>1, <4>2 DEF LeaveLosingASide, Draw, Fresh
    <3> QED
      BY <2>1, <3>1, <3>2, <3>3, <3>4 DEF Revoking
  <2>2. CASE Minting
    <3>1. ASSUME NEW r \in Requests, NEW op \in Ops, NEW m \in Members, Begin(r, op, m)
          PROVE  TypeOK'
      BY <3>1 DEF Begin, Request, db, history
    <3>2. ASSUME NEW r \in Requests, NEW m \in Members, OpenProvisioning(r, m)
          PROVE  TypeOK'
      BY <3>1, <3>2 DEF OpenProvisioning, Ops
    <3>3. ASSUME NEW r \in Requests, NEW m \in Members, Authenticate(r, m)
          PROVE  TypeOK'
      BY <3>1, <3>3 DEF Authenticate, Ops
    <3>4. ASSUME NEW r \in Requests, NEW m \in Members, OpenRecovery(r, m)
          PROVE  TypeOK'
      BY <3>1, <3>4 DEF OpenRecovery, Ops
    <3>5. ASSUME NEW r \in Requests, SupersedeEarlier(r) PROVE TypeOK'
      <4>1. req[r] \in Request
        BY <3>5 DEF SupersedeEarlier, At
      <4>2. req' \in [Requests -> Request \cup {Nothing}]
        BY <3>5, <4>1 DEF SupersedeEarlier, Request, Ops
      <4> QED
        BY <3>5, <4>2 DEF SupersedeEarlier, db, history
    <3>6. ASSUME NEW r \in Requests, Abandon(r) PROVE TypeOK'
      BY <3>6 DEF Abandon, Finish, db, history
    <3>7. ASSUME NEW r \in Requests, NEW c \in Caps, MintElder(r, c) PROVE TypeOK'
      <4>1. req[r] \in Request
        BY <3>7 DEF MintElder, At
      <4>2. LinkRow("elder", req[r].member, req[r].gen) \in Row
        BY <4>1, RowTypes DEF Request, Kinds
      <4>3. rows' \in Rows
        BY <3>7, <4>2 DEF MintElder, Replace, Rows
      <4> QED
        BY <3>7, <4>1, <4>3 DEF MintElder, Draw, Fresh, Finish, Request
    <3>8. ASSUME NEW r \in Requests, NEW c \in Caps, RegenerateElder(r, c)
          PROVE  TypeOK'
      <4> DEFINE m == req[r].member
      <4>1. m \in Members
        BY <3>8 DEF RegenerateElder, At, Request
      <4>2. /\ epoch'[m] \in Nat /\ epoch' \in [Members -> Nat]
            /\ gen'[m] \in Nat /\ gen' \in [Members -> Nat]
        BY <3>8, <4>1 DEF RegenerateElder, Bump
      <4>3. LinkRow("elder", m, gen'[m]) \in Row
        BY <4>1, <4>2, RowTypes DEF Kinds
      <4>4. RunSteps(m) \in Rows
        BY <4>1, RegistryTypes
      <4>5. rows' \in Rows
        BY <3>8, <4>3, <4>4 DEF RegenerateElder, Replace, Rows
      <4> QED
        BY <3>8, <4>2, <4>5 DEF RegenerateElder, Draw, Fresh, Finish
    <3>9. ASSUME NEW r \in Requests, NEW c \in Caps, OpenElderLink(r, c)
          PROVE  TypeOK'
      BY <3>1, <3>9 DEF OpenElderLink, Ops, Rows, Row
    <3>10. ASSUME NEW r \in Requests, NEW c \in Caps, StoreElderSession(r, c)
           PROVE  TypeOK'
      <4>1. req[r] \in Request
        BY <3>10 DEF StoreElderSession, At
      <4>2. LinkRow("elderSession", req[r].member, req[r].gen) \in Row
        BY <4>1, RowTypes DEF Request, Kinds
      <4> QED
        BY <3>10, <4>1, <4>2 DEF StoreElderSession, Draw, Fresh, Finish, Request, Rows
    <3>11. ASSUME NEW r \in Requests, NEW c \in Caps, StoreSession(r, c)
           PROVE  TypeOK'
      <4>1. req[r] \in Request
        BY <3>11 DEF StoreSession, At
      <4>2. SessionRow(req[r].member, req[r].pw) \in Row
        BY <4>1, RowTypes DEF Request, Kinds
      <4> QED
        BY <3>11, <4>1, <4>2 DEF StoreSession, Draw, Fresh, Finish, Request, Rows
    <3>12. ASSUME NEW r \in Requests, NEW c \in Caps, InsertRecovery(r, c)
           PROVE  TypeOK'
      <4>1. req[r] \in Request
        BY <3>12 DEF InsertRecovery, At
      <4>2. LinkRow("recovery", req[r].member, req[r].gen) \in Row
        BY <4>1, RowTypes DEF Request, Kinds
      <4>3. \A d \in Caps : rows[d] # Nothing => [rows[d] EXCEPT !.spent = TRUE] \in Row
        BY DEF Rows, Row
      <4>4. rows' \in Rows
        BY <3>12, <4>2, <4>3 DEF InsertRecovery, Rows
      <4> QED
        BY <3>12, <4>1, <4>4 DEF InsertRecovery, Draw, Fresh, Finish, Request
    <3>13. ASSUME NEW m \in Members, NEW link \in Caps, NEW reply \in Caps,
                  SendDigest(m, link, reply)
           PROVE  TypeOK'
      <4>1. /\ LinkRow("digest", m, gen[m]) \in Row
            /\ LinkRow("reply", m, gen[m]) \in Row
        BY RowTypes DEF Kinds
      <4> QED
        BY <3>13, <4>1 DEF SendDigest, Fresh, Rows
    <3> QED
      BY <2>2, <3>2, <3>3, <3>4, <3>5, <3>6, <3>7, <3>8, <3>9, <3>10, <3>11, <3>12,
         <3>13 DEF Minting
  <2>3. CASE Using
    <3>1. ASSUME NEW c \in Caps, RedeemRecovery(c) PROVE TypeOK'
      BY <3>1 DEF RedeemRecovery, history, Rows, Row, Passwords
    <3>2. ASSUME NEW c \in Caps, Lapse(c) PROVE TypeOK'
      BY <3>2 DEF Lapse, history, Rows, Row
    <3> QED
      BY <2>3, <3>1, <3>2 DEF Using
  <2>4. CASE Restoring
    <3>1. CASE TakeBackup
      BY <3>1 DEF TakeBackup, db, history, Archive
    <3>2. CASE PgRestore
      BY <3>2 DEF PgRestore, history, Archive
    <3>3. CASE SecurityReplay
      <4>1. gen' \in [Members -> Nat] /\ epoch' \in [Members -> Nat]
        BY <3>3 DEF SecurityReplay
      <4>2. rows' \in Rows
        BY <3>3 DEF SecurityReplay, Rows
      <4> QED
        BY <3>3, <4>1, <4>2 DEF SecurityReplay
    <3> QED
      BY <2>4, <3>1, <3>2, <3>3 DEF Restoring
  <2>5. CASE UNCHANGED vars
    BY <2>5 DEF vars
  <2> QED
    BY <2>1, <2>2, <2>3, <2>4, <2>5 DEF Next
<1> QED
  BY <1>1, <1>2, PTL DEF Spec

-----------------------------------------------------------------------------
(* How a step that is not a restore may change one row, one request and the *)
(* members' counters: the shape all such actions share.                     *)

(* The row goes, or keeps everything that says whose it is and of when.     *)
Keeps(old, new) ==
    new # Nothing =>
        /\ old # Nothing
        /\ new.kind = old.kind /\ new.member = old.member
        /\ new.gen = old.gen /\ new.pw = old.pw
        /\ old.spent => new.spent

KeptRow(c) == Keeps(rows[c], rows'[c]) /\ born'[c] = born[c]
NewRow(c) ==
    /\ rows'[c] # Nothing
    /\ rows'[c].gen <= gen'[rows'[c].member]
    /\ rows'[c].kind \in Generational /\ rows'[c].gen = gen'[rows'[c].member]
        => born'[c] = epoch'[rows'[c].member]

KeptRequest(r) ==
    req'[r] # Nothing =>
        /\ req[r] # Nothing
        /\ req'[r].member = req[r].member
        /\ req'[r].gen = req[r].gen
        /\ req'[r].born = req[r].born
NewRequest(r) ==
    /\ req'[r].gen = gen'[req'[r].member]
    /\ req'[r].born = epoch'[req'[r].member]

ClocksAdvance ==
    \A m \in Members :
        /\ gen[m] <= gen'[m]
        /\ gen'[m] = gen[m] => epoch'[m] = epoch[m]

Shape ==
    /\ ClocksAdvance
    /\ \A c \in Caps : KeptRow(c) \/ NewRow(c)
    /\ \A r \in Requests : KeptRequest(r) \/ NewRequest(r)
    /\ restored' = restored

LEMMA ShapeKeepsFresh ==
    ASSUME FreshInv, TypeOK', Shape, backup' = backup
    PROVE  FreshInv'
<1> USE DEF FreshInv
<1>1. ASSUME NEW c \in Caps, rows'[c] # Nothing
      PROVE  /\ rows'[c].gen <= gen'[rows'[c].member]
             /\ ~restored' /\ rows'[c].kind \in Generational
                   /\ rows'[c].gen = gen'[rows'[c].member]
                => born'[c] = epoch'[rows'[c].member]
  <2>1. CASE NewRow(c)
    BY <1>1, <2>1 DEF NewRow
  <2>2. CASE KeptRow(c)
    <3> DEFINE m == rows[c].member
    <3>1. /\ rows[c] # Nothing /\ rows'[c].kind = rows[c].kind
          /\ rows'[c].member = m /\ rows'[c].gen = rows[c].gen
          /\ born'[c] = born[c]
      BY <1>1, <2>2 DEF KeptRow, Keeps
    <3>2. rows[c] \in Row /\ m \in Members /\ rows[c].gen \in Nat
      BY <3>1 DEF TypeOK, Rows, Row
    <3>3. /\ gen[m] \in Nat /\ gen'[m] \in Nat /\ gen[m] <= gen'[m]
          /\ gen'[m] = gen[m] => epoch'[m] = epoch[m]
      BY <3>2 DEF TypeOK, Shape, ClocksAdvance
    <3>4. rows[c].gen <= gen[m]
      BY <3>1 DEF NoFutureGeneration
    <3>5. rows'[c].gen <= gen'[m]
      BY <3>1, <3>2, <3>3, <3>4
    <3>6. ASSUME ~restored', rows[c].kind \in Generational, rows[c].gen = gen'[m]
          PROVE  born'[c] = epoch'[m]
      <4>1. gen'[m] = gen[m]
        BY <3>2, <3>3, <3>4, <3>6
      <4>2. born[c] = epoch[m]
        BY <3>1, <3>6, <4>1 DEF CurrentIsFresh, Shape
      <4> QED
        BY <3>1, <3>3, <4>1, <4>2
    <3> QED
      BY <3>1, <3>5, <3>6
  <2> QED
    BY <2>1, <2>2 DEF Shape
<1>2. ASSUME NEW r \in Requests, req'[r] # Nothing
      PROVE  /\ req'[r].gen <= gen'[req'[r].member]
             /\ req'[r].gen = gen'[req'[r].member]
                => req'[r].born = epoch'[req'[r].member]
  <2>0. req'[r] \in Request
    BY <1>2 DEF TypeOK
  <2>1. CASE NewRequest(r)
    <3>1. req'[r].member \in Members /\ gen'[req'[r].member] \in Nat
      BY <2>0 DEF Request, TypeOK
    <3> QED
      BY <2>1, <3>1 DEF NewRequest
  <2>2. CASE KeptRequest(r)
    <3> DEFINE m == req[r].member
    <3>1. /\ req[r] # Nothing /\ req'[r].member = m
          /\ req'[r].gen = req[r].gen /\ req'[r].born = req[r].born
      BY <1>2, <2>2 DEF KeptRequest
    <3>2. m \in Members /\ req[r].gen \in Nat
      BY <3>1 DEF TypeOK, Request
    <3>3. /\ gen[m] \in Nat /\ gen'[m] \in Nat /\ gen[m] <= gen'[m]
          /\ gen'[m] = gen[m] => epoch'[m] = epoch[m]
      BY <3>2 DEF TypeOK, Shape, ClocksAdvance
    <3>4. req[r].gen <= gen[m] /\ (req[r].gen = gen[m] => req[r].born = epoch[m])
      BY <3>1 DEF NoFutureGeneration, CurrentIsFresh
    <3>5. req[r].gen = gen'[m] => gen'[m] = gen[m]
      BY <3>2, <3>3, <3>4
    <3> QED
      BY <3>1, <3>2, <3>3, <3>4, <3>5
  <2> QED
    BY <2>1, <2>2 DEF Shape
<1>3. NoFutureGeneration'
  BY <1>1, <1>2 DEF NoFutureGeneration
<1>4. CurrentIsFresh'
  BY <1>1, <1>2 DEF CurrentIsFresh
<1> QED
  BY <1>3, <1>4

LEMMA RegistryKeeps ==
    ASSUME TypeOK, NEW m \in Members, NEW c \in Caps
    PROVE  Keeps(rows[c], RunSteps(m)[c])
<1> rows[c] \in Row \cup {Nothing}
  BY DEF TypeOK, Rows
<1> QED
  BY DEF RunSteps, AfterRegistry, Keeps, Row

(* Bumping one member's generation and epoch together advances the clocks.  *)
LEMMA BumpAdvances ==
    ASSUME TypeOK, NEW m \in Members, Bump(m)
    PROVE  /\ ClocksAdvance
           /\ gen' \in [Members -> Nat] /\ epoch' \in [Members -> Nat]
  BY DEF TypeOK, Bump, ClocksAdvance

LEMMA StillAdvances ==
    ASSUME TypeOK, UNCHANGED <<gen, epoch>>
    PROVE  ClocksAdvance
  BY DEF TypeOK, ClocksAdvance

LEMMA BeginShape ==
    ASSUME FreshInv, NEW r \in Requests, NEW op \in Ops, NEW m \in Members,
           Begin(r, op, m)
    PROVE  Shape /\ backup' = backup
<1> USE DEF FreshInv
<1>1. ClocksAdvance
  BY StillAdvances DEF Begin, db, history
<1>2. \A c \in Caps : KeptRow(c)
  BY DEF Begin, db, history, KeptRow, Keeps
<1>3. \A s \in Requests : KeptRequest(s) \/ NewRequest(s)
  BY DEF Begin, db, history, KeptRequest, NewRequest, TypeOK
<1> QED
  BY <1>1, <1>2, <1>3 DEF Shape, Begin

(* Every action but the backup's and the restore's has the shape.           *)
LEMMA OrdinaryShape ==
    ASSUME FreshInv, TypeOK', Revoking \/ Minting \/ Using
    PROVE  Shape /\ backup' = backup
<1> USE DEF FreshInv
<1> DEFINE Kept == \A c \in Caps : KeptRow(c)
<1> DEFINE Waiting == \A s \in Requests : KeptRequest(s) \/ NewRequest(s)
<1>0. /\ req' = req => Waiting
      /\ \A r \in Requests : Finish(r) => Waiting
  BY DEF KeptRequest, Finish, TypeOK
<1>1. CASE Revoking
  <2>1. ASSUME NEW m \in Members, Remove(m) \/ Shrink(m)
        PROVE  Shape /\ backup' = backup
    <3>1. ClocksAdvance
      BY <2>1, BumpAdvances DEF Remove, Shrink
    <3>2. Kept
      BY <2>1, RegistryKeeps DEF Remove, Shrink, KeptRow
    <3> QED
      BY <2>1, <3>1, <3>2, <1>0 DEF Remove, Shrink, Shape
  <2>2. ASSUME NEW m \in Members, Place(m) PROVE Shape /\ backup' = backup
    <3>1. ClocksAdvance
      BY <2>2, StillAdvances DEF Place, history
    <3>2. Kept
      BY <2>2 DEF Place, history, KeptRow, Keeps
    <3> QED
      BY <2>2, <3>1, <3>2, <1>0 DEF Place, Shape
  <2>3. ASSUME NEW m \in Members, NEW old \in Caps, NEW c \in Caps,
               LeaveLosingASide(m, old, c)
        PROVE  Shape /\ backup' = backup
    <3>1. ClocksAdvance
      BY <2>3, BumpAdvances DEF LeaveLosingASide
    <3>2. ASSUME NEW d \in Caps, d # c PROVE KeptRow(d)
      <4>1. rows'[d] = RunSteps(m)[d] /\ born'[d] = born[d]
        BY <2>3, <3>2 DEF LeaveLosingASide, RunSteps, Draw, TypeOK
      <4> QED
        BY <4>1, RegistryKeeps DEF KeptRow
    <3>3. rows'[c] = SessionRow(m, pw[m])
      BY <2>3 DEF LeaveLosingASide, RunSteps
    <3>4. rows'[c] \in Row /\ rows'[c].kind = "session" /\ rows'[c].gen = 0
          /\ rows'[c].member = m
      BY <3>3, RowTypes DEF SessionRow, TypeOK, Kinds
    <3>5. NewRow(c)
      BY <3>4, NothingAssumption DEF NewRow, Generational, TypeOK
    <3> QED
      BY <2>3, <3>1, <3>2, <3>5, <1>0 DEF LeaveLosingASide, Shape
  <2> QED
    BY <1>1, <2>1, <2>2, <2>3 DEF Revoking
<1>2. CASE Minting
  <2>1. ASSUME NEW r \in Requests, NEW m \in Members,
               OpenProvisioning(r, m) \/ Authenticate(r, m) \/ OpenRecovery(r, m)
        PROVE  Shape /\ backup' = backup
    BY <2>1, BeginShape DEF OpenProvisioning, Authenticate, OpenRecovery, Ops
  <2>2. ASSUME NEW r \in Requests, NEW c \in Caps, OpenElderLink(r, c)
        PROVE  Shape /\ backup' = backup
    BY <2>2, BeginShape DEF OpenElderLink, Ops, TypeOK, Rows, Row
  <2>3. ASSUME NEW r \in Requests, SupersedeEarlier(r) \/ Abandon(r)
        PROVE  Shape /\ backup' = backup
    <3>1. ClocksAdvance
      BY <2>3, StillAdvances DEF SupersedeEarlier, Abandon, db, history
    <3>2. Kept
      BY <2>3 DEF SupersedeEarlier, Abandon, db, history, KeptRow, Keeps
    <3>3. ASSUME SupersedeEarlier(r) PROVE Waiting
      <4>1. req[r] \in Request /\ req[r] # Nothing
        BY <3>3 DEF SupersedeEarlier, At, TypeOK
      <4> QED
        BY <3>3, <4>1 DEF SupersedeEarlier, KeptRequest, TypeOK, Request
    <3> QED
      BY <2>3, <3>1, <3>2, <3>3, <1>0 DEF SupersedeEarlier, Abandon, Shape
  <2>4. ASSUME NEW r \in Requests, NEW c \in Caps,
               \/ MintElder(r, c) \/ StoreElderSession(r, c)
               \/ StoreSession(r, c) \/ InsertRecovery(r, c)
        PROVE  Shape /\ backup' = backup
    <3> DEFINE m == req[r].member
    <3>1. ClocksAdvance
      BY <2>4, StillAdvances
         DEF MintElder, StoreElderSession, StoreSession, InsertRecovery
    <3>2. /\ req[r] # Nothing /\ req[r] \in Request /\ m \in Members
          /\ req[r].gen \in Nat /\ req[r].pw \in Passwords
      BY <2>4 DEF MintElder, StoreElderSession, StoreSession, InsertRecovery, At,
                  TypeOK, Request
    <3>3. ASSUME NEW d \in Caps, d # c PROVE KeptRow(d)
      <4>1. born'[d] = born[d]
        BY <2>4, <3>3 DEF MintElder, StoreElderSession, StoreSession, InsertRecovery,
                          Draw, TypeOK
      <4>2. rows[d] \in Row \cup {Nothing}
        BY DEF TypeOK, Rows
      <4>3. Keeps(rows[d], rows'[d])
        <5>1. CASE rows'[d] \in {Nothing, rows[d]}
          BY <5>1 DEF Keeps
        <5>2. CASE MintElder(r, c)
          BY <3>3, <5>1, <5>2 DEF MintElder, Replace
        <5>3. CASE StoreElderSession(r, c)
          BY <3>3, <5>1, <5>3 DEF StoreElderSession, TypeOK, Rows
        <5>4. CASE StoreSession(r, c)
          BY <3>3, <5>1, <5>4 DEF StoreSession, TypeOK, Rows
        <5>5. CASE InsertRecovery(r, c)
          <6>1. rows[d] # Nothing => Keeps(rows[d], [rows[d] EXCEPT !.spent = TRUE])
            BY <4>2 DEF Keeps, Row
          <6> QED
            BY <3>3, <5>1, <5>5, <6>1 DEF InsertRecovery
        <5> QED
          BY <2>4, <5>2, <5>3, <5>4, <5>5
      <4> QED
        BY <4>1, <4>3 DEF KeptRow
    <3>4. /\ \/ rows'[c] = SessionRow(m, req[r].pw)
             \/ \E kind \in Kinds : rows'[c] = LinkRow(kind, m, req[r].gen)
          /\ born'[c] = req[r].born
      BY <2>4 DEF MintElder, StoreElderSession, StoreSession, InsertRecovery, Draw,
                  Replace, TypeOK, Rows, Kinds
    <3>5. /\ rows'[c] \in Row /\ rows'[c].member = m
          /\ \/ rows'[c].kind = "session" /\ rows'[c].gen = 0
             \/ rows'[c].gen = req[r].gen
      <4>1. CASE rows'[c] = SessionRow(m, req[r].pw)
        BY <3>2, <4>1, RowTypes DEF SessionRow, Kinds
      <4>2. ASSUME NEW kind \in Kinds, rows'[c] = LinkRow(kind, m, req[r].gen)
            PROVE  rows'[c] \in Row /\ rows'[c].member = m /\ rows'[c].gen = req[r].gen
        BY <3>2, <4>2, RowTypes DEF LinkRow
      <4> QED
        BY <3>4, <4>1, <4>2
    <3>6. /\ req[r].gen <= gen[m]
          /\ req[r].gen = gen[m] => req[r].born = epoch[m]
      BY <3>2 DEF NoFutureGeneration, CurrentIsFresh
    <3>7. gen' = gen /\ epoch' = epoch
      BY <2>4 DEF MintElder, StoreElderSession, StoreSession, InsertRecovery
    <3>8. NewRow(c)
      BY <3>2, <3>4, <3>5, <3>6, <3>7, NothingAssumption DEF NewRow, Generational, TypeOK
    <3> QED
      BY <2>4, <3>1, <3>3, <3>8, <1>0
         DEF MintElder, StoreElderSession, StoreSession, InsertRecovery, Shape
  <2>5. ASSUME NEW r \in Requests, NEW c \in Caps, RegenerateElder(r, c)
        PROVE  Shape /\ backup' = backup
    <3> DEFINE m == req[r].member
    <3>1. m \in Members
      BY <2>5 DEF RegenerateElder, At, TypeOK, Request
    <3>2. Bump(m) /\ rows' = Replace(m, c, LinkRow("elder", m, gen'[m]), RunSteps(m))
          /\ Draw(c, epoch'[m])
      BY <2>5 DEF RegenerateElder
    <3>3. ClocksAdvance /\ gen'[m] \in Nat
      BY <3>1, <3>2, BumpAdvances
    <3>4. ASSUME NEW d \in Caps, d # c PROVE KeptRow(d)
      <4>1. born'[d] = born[d]
        BY <3>2, <3>4 DEF Draw, TypeOK
      <4>2. rows'[d] \in {Nothing, RunSteps(m)[d]}
        BY <3>2, <3>4 DEF Replace
      <4> QED
        BY <3>1, <4>1, <4>2, RegistryKeeps DEF KeptRow, Keeps
    <3>5. rows'[c] = LinkRow("elder", m, gen'[m]) /\ born'[c] = epoch'[m]
      BY <3>2 DEF Replace, Draw, TypeOK
    <3>6. rows'[c] \in Row /\ rows'[c].member = m /\ rows'[c].gen = gen'[m]
      BY <3>1, <3>3, <3>5, RowTypes DEF LinkRow, Kinds, TypeOK, Passwords
    <3>7. NewRow(c)
      BY <3>3, <3>5, <3>6, NothingAssumption DEF NewRow
    <3> QED
      BY <2>5, <3>3, <3>4, <3>7, <1>0 DEF RegenerateElder, Shape
  <2>6. ASSUME NEW m \in Members, NEW link \in Caps, NEW reply \in Caps,
               SendDigest(m, link, reply)
        PROVE  Shape /\ backup' = backup
    <3>1. ClocksAdvance
      BY <2>6, StillAdvances DEF SendDigest
    <3>2. ASSUME NEW d \in Caps, d \notin {link, reply} PROVE KeptRow(d)
      BY <2>6, <3>2 DEF SendDigest, KeptRow, Keeps, TypeOK, Rows
    <3>3. ASSUME NEW d \in {link, reply} PROVE NewRow(d)
      <4>1. /\ \E kind \in Kinds : rows'[d] = LinkRow(kind, m, gen[m])
            /\ born'[d] = epoch[m] /\ gen' = gen /\ epoch' = epoch
        BY <2>6, <3>3 DEF SendDigest, TypeOK, Rows, Kinds
      <4>2. rows'[d] \in Row /\ rows'[d].member = m /\ rows'[d].gen = gen[m]
            /\ gen[m] \in Nat
        BY <4>1, RowTypes DEF LinkRow, TypeOK, Passwords
      <4> QED
        BY <4>1, <4>2, NothingAssumption DEF NewRow
    <3> QED
      BY <2>6, <3>1, <3>2, <3>3, <1>0 DEF SendDigest, Shape
  <2> QED
    BY <1>2, <2>1, <2>2, <2>3, <2>4, <2>5, <2>6 DEF Minting
<1>3. CASE Using
  <2> SUFFICES ASSUME NEW c \in Caps, RedeemRecovery(c) \/ Lapse(c)
               PROVE  Shape /\ backup' = backup
    BY <1>3 DEF Using
  <2>1. ClocksAdvance
    BY StillAdvances DEF RedeemRecovery, Lapse, history
  <2>2. ASSUME NEW d \in Caps PROVE KeptRow(d)
    <3>1. born' = born
      BY DEF RedeemRecovery, Lapse, history
    <3>2. rows[d] \in Row \cup {Nothing}
      BY DEF TypeOK, Rows
    <3>3. rows[d] # Nothing => Keeps(rows[d], [rows[d] EXCEPT !.spent = TRUE])
      BY <3>2 DEF Keeps, Row
    <3>4. CASE rows'[d] \in {Nothing, rows[d]}
      BY <3>1, <3>4 DEF KeptRow, Keeps
    <3>5. CASE RedeemRecovery(c)
      BY <3>1, <3>3, <3>4, <3>5 DEF RedeemRecovery, TypeOK, Rows, KeptRow
    <3>6. CASE Lapse(c)
      BY <3>1, <3>3, <3>4, <3>6 DEF Lapse, TypeOK, Rows, KeptRow
    <3> QED
      BY <3>5, <3>6
  <2> QED
    BY <2>1, <2>2, <1>0 DEF RedeemRecovery, Lapse, Shape
<1> QED
  BY <1>1, <1>2, <1>3

-----------------------------------------------------------------------------
(* Taking the archive copies what the invariant already says of the rows.   *)
LEMMA BackupKeepsFresh ==
    ASSUME FreshInv, TypeOK', TakeBackup
    PROVE  FreshInv'
<1> USE DEF FreshInv
<1>1. NoFutureGeneration'
  BY DEF TakeBackup, db, history, NoFutureGeneration
<1>2. CurrentIsFresh'
  BY DEF TakeBackup, db, history, CurrentIsFresh
<1> QED
  BY <1>1, <1>2

(* A restore brings back rows no newer than the generations it brings back, *)
(* and no request spans it.                                                 *)
LEMMA RestoreKeepsFresh ==
    ASSUME FreshInv, TypeOK', PgRestore
    PROVE  FreshInv'
<1> USE DEF FreshInv
<1>1. NoFutureGeneration'
  BY DEF PgRestore, NoFutureGeneration
<1>2. CurrentIsFresh'
  BY DEF PgRestore, CurrentIsFresh
<1> QED
  BY <1>1, <1>2

(* After the replay nothing carries its member's generation any more.       *)
LEMMA ReplayOutdatesAll ==
    ASSUME FreshInv, SecurityReplay
    PROVE  /\ \A c \in Caps : rows'[c] # Nothing =>
                /\ rows'[c] = rows[c]
                /\ rows'[c].gen < gen'[rows'[c].member]
                /\ rows'[c].kind \notin {"session", "elderSession"}
           /\ \A r \in Requests : req'[r] # Nothing =>
                /\ req'[r] = req[r]
                /\ req'[r].gen < gen'[req'[r].member]
<1> USE DEF FreshInv
<1>1. ASSUME NEW c \in Caps, rows'[c] # Nothing
      PROVE  /\ rows'[c] = rows[c]
             /\ rows'[c].gen < gen'[rows'[c].member]
             /\ rows'[c].kind \notin {"session", "elderSession"}
  <2>1. /\ rows'[c] = rows[c] /\ rows[c] # Nothing
        /\ rows[c].kind \notin {"session", "elderSession"}
    BY <1>1 DEF SecurityReplay
  <2>2. /\ rows[c].member \in Members /\ rows[c].gen \in Nat
        /\ gen[rows[c].member] \in Nat
    BY <2>1 DEF TypeOK, Rows, Row
  <2>3. rows[c].gen <= gen[rows[c].member]
    BY <2>1 DEF NoFutureGeneration
  <2>4. gen'[rows[c].member] = gen[rows[c].member] + 1
    BY <2>2 DEF SecurityReplay
  <2>5. rows[c].gen < gen'[rows[c].member]
    BY <2>2, <2>3, <2>4
  <2> QED
    BY <2>1, <2>5
<1>2. ASSUME NEW r \in Requests, req'[r] # Nothing
      PROVE  req'[r] = req[r] /\ req'[r].gen < gen'[req'[r].member]
  <2>1. req'[r] = req[r] /\ req[r] \in Request
    BY <1>2 DEF SecurityReplay, TypeOK
  <2>2. /\ req[r].member \in Members /\ req[r].gen \in Nat
        /\ gen[req[r].member] \in Nat
    BY <2>1 DEF TypeOK, Request
  <2>3. req[r].gen <= gen[req[r].member]
    BY <1>2, <2>1 DEF NoFutureGeneration
  <2>4. gen'[req[r].member] = gen[req[r].member] + 1
    BY <2>2 DEF SecurityReplay
  <2>5. req[r].gen < gen'[req[r].member]
    BY <2>2, <2>3, <2>4
  <2> QED
    BY <2>1, <2>5
<1> QED
  BY <1>1, <1>2

LEMMA ReplayKeepsFresh ==
    ASSUME FreshInv, TypeOK', SecurityReplay
    PROVE  FreshInv'
<1> USE DEF FreshInv
<1>1. ASSUME NEW c \in Caps, rows'[c] # Nothing
      PROVE  /\ rows'[c].gen <= gen'[rows'[c].member]
             /\ rows'[c].gen # gen'[rows'[c].member]
  <2>1. rows'[c].gen \in Nat /\ gen'[rows'[c].member] \in Nat
    BY <1>1 DEF TypeOK, Rows, Row
  <2> QED
    BY <1>1, <2>1, ReplayOutdatesAll
<1>2. ASSUME NEW r \in Requests, req'[r] # Nothing
      PROVE  /\ req'[r].gen <= gen'[req'[r].member]
             /\ req'[r].gen # gen'[req'[r].member]
  <2>1. req'[r] \in Request
    BY <1>2 DEF TypeOK
  <2>2. req'[r].gen \in Nat /\ gen'[req'[r].member] \in Nat
    BY <2>1 DEF TypeOK, Request
  <2> QED
    BY <1>2, <2>2, ReplayOutdatesAll
<1>3. NoFutureGeneration'
  BY <1>1, <1>2 DEF NoFutureGeneration, SecurityReplay
<1>4. CurrentIsFresh'
  BY <1>1, <1>2 DEF CurrentIsFresh
<1> QED
  BY <1>3, <1>4

LEMMA FreshStep ==
    ASSUME FreshInv, TypeOK', [Next]_vars
    PROVE  FreshInv'
<1>1. CASE Revoking \/ Minting \/ Using
  BY <1>1, OrdinaryShape, ShapeKeepsFresh
<1>2. CASE Restoring
  BY <1>2, BackupKeepsFresh, RestoreKeepsFresh, ReplayKeepsFresh DEF Restoring
<1>3. CASE UNCHANGED vars
  BY <1>3 DEF vars, FreshInv, NoFutureGeneration, CurrentIsFresh
<1> QED
  BY <1>1, <1>2, <1>3 DEF Next

LEMMA FreshInit ==
    ASSUME Init, TypeOK
    PROVE  FreshInv
  BY DEF Init, FreshInv, NoFutureGeneration, CurrentIsFresh

(* No row or request is ahead of its member's generation, and one that has  *)
(* the current generation was authorised in the current epoch: the          *)
(* strengthening that makes LiveIsFresh inductive.                          *)
THEOREM FreshInvariant == Spec => []FreshInv
<1>1. TypeOK /\ Init => FreshInv
  BY FreshInit
<1>2. TypeOK /\ TypeOK' /\ FreshInv /\ [Next]_vars => FreshInv'
  BY FreshStep
<1> QED
  BY <1>1, <1>2, TypeCorrect, PTL DEF Spec

(* LiveIsFresh: outside a restore, whatever resolves by its generation was  *)
(* authorised after the last revocation that reached its holder.            *)
THEOREM RevocationIsFinal == Spec => []LiveIsFresh
<1>1. FreshInv => LiveIsFresh
  BY DEF FreshInv, CurrentIsFresh, LiveIsFresh, Live, LinkResolves,
         ElderSessionResolves, Generational
<1> QED
  BY <1>1, FreshInvariant, PTL

-----------------------------------------------------------------------------
(* Refinement.  Where the rows, passwords and requests of an ordinary step  *)
(* come from.                                                               *)

RowsDescend ==
    /\ issued \subseteq issued'
    /\ \A c \in Caps : rows'[c] # Nothing => c \in issued'
    /\ \A c \in issued : Keeps(rows[c], rows'[c])

PasswordsDescend ==
    /\ active' \subseteq active
    /\ \A m \in Members :
        pw'[m] = pw[m] \/ \E c \in Caps : RedeemRecovery(c) /\ pw'[m] = c
    /\ \A p \in Caps : InUse(p)' => InUse(p) \/ RedeemRecovery(p)

LinksDescend ==
    /\ \A m \in Members : HasElderLink(m) /\ gen'[m] = gen[m] => HasElderLink(m)'
    /\ \A r \in Requests : At(r, "enter")' =>
        \/ At(r, "enter") /\ req'[r] = req[r]
        \/ gen' = gen /\ HasElderLink(req'[r].member)
    /\ \A c \in Caps \ issued :
        rows'[c] # Nothing /\ rows'[c].kind = "elderSession" =>
            \E r \in Requests : /\ At(r, "enter") /\ gen' = gen
                               /\ rows'[c].member = req[r].member
                               /\ rows'[c].gen = req[r].gen

Lineage == RowsDescend /\ PasswordsDescend /\ LinksDescend

LEMMA BeginLineage ==
    ASSUME TypeOK, OnlyIssued, NEW r \in Requests, NEW op \in Ops, NEW m \in Members,
           op = "enter" => HasElderLink(m), Begin(r, op, m)
    PROVE  Lineage
<1>1. RowsDescend
  BY DEF Begin, db, history, RowsDescend, OnlyIssued, Keeps
<1>2. /\ req'[r] = [op |-> op, member |-> m, gen |-> gen[m], pw |-> pw[m],
                    born |-> epoch[m], seen |-> {}]
      /\ \A s \in Requests : s # r => req'[s] = req[s]
  BY DEF Begin, TypeOK
<1>3. PasswordsDescend
  BY <1>2 DEF Begin, db, history, PasswordsDescend, InUse, UsedIn
<1>4. LinksDescend
  <2>1. rows' = rows /\ gen' = gen
    BY DEF Begin, db
  <2>2. \A n \in Members : HasElderLink(n) <=> HasElderLink(n)'
    BY <2>1 DEF HasElderLink, Is
  <2>3. \A s \in Requests : At(s, "enter")' =>
            \/ At(s, "enter") /\ req'[s] = req[s]
            \/ HasElderLink(req'[s].member)
    BY <1>2 DEF At
  <2>4. \A c \in Caps \ issued : rows'[c] = Nothing
    BY <2>1 DEF OnlyIssued
  <2> QED
    BY <2>1, <2>2, <2>3, <2>4 DEF LinksDescend
<1> QED
  BY <1>1, <1>3, <1>4 DEF Lineage

(* What a step that ends a request, or touches none, does to them all.      *)
LEMMA NoNewRequest ==
    ASSUME TypeOK, NEW r \in Requests, req' = req \/ Finish(r)
    PROVE  \A s \in Requests : req'[s] # Nothing => req'[s] = req[s]
  BY DEF TypeOK, Finish

LEMMA RevokingLineage ==
    ASSUME TypeOK, OnlyIssued, Revoking
    PROVE  Lineage
<1>1. ASSUME NEW m \in Members, Remove(m) \/ Shrink(m) PROVE Lineage
  <2>1. RowsDescend
    BY <1>1, RegistryKeeps DEF Remove, Shrink, RowsDescend, OnlyIssued, Keeps, TypeOK
  <2>2. \A c \in Caps : rows'[c] # Nothing => rows[c] # Nothing /\ rows'[c].pw = rows[c].pw
    BY <1>1, RegistryKeeps DEF Remove, Shrink, Keeps
  <2>3. PasswordsDescend
    BY <1>1, <2>2 DEF Remove, Shrink, PasswordsDescend, InUse, UsedIn
  <2>4. \A n \in Members : gen'[n] = gen[n] => n # m
    BY <1>1 DEF Remove, Shrink, Bump, TypeOK
  <2>5. ASSUME NEW n \in Members, n # m, HasElderLink(n) PROVE HasElderLink(n)'
    BY <1>1, <2>5 DEF Remove, Shrink, HasElderLink, Is, RunSteps, AfterRegistry
  <2>6. \A c \in Caps \ issued : rows'[c] = Nothing
    BY <2>2 DEF OnlyIssued
  <2>7. LinksDescend
    BY <1>1, <2>4, <2>5, <2>6 DEF Remove, Shrink, LinksDescend, At
  <2> QED
    BY <2>1, <2>3, <2>7 DEF Lineage
<1>2. ASSUME NEW m \in Members, Place(m) PROVE Lineage
  <2>1. RowsDescend
    BY <1>2 DEF Place, history, RowsDescend, OnlyIssued, Keeps
  <2>2. PasswordsDescend
    BY <1>2 DEF Place, history, PasswordsDescend, InUse, UsedIn
  <2>3. LinksDescend
    BY <1>2 DEF Place, history, LinksDescend, OnlyIssued, HasElderLink, Is, At
  <2> QED
    BY <2>1, <2>2, <2>3 DEF Lineage
<1>3. ASSUME NEW m \in Members, NEW old \in Caps, NEW c \in Caps,
             LeaveLosingASide(m, old, c)
      PROVE  Lineage
  <2>0. c \notin issued /\ issued' = issued \cup {c} /\ req' = req /\ pw' = pw
    BY <1>3 DEF LeaveLosingASide, Draw, Fresh
  <2>1. /\ \A d \in Caps : d # c => rows'[d] = RunSteps(m)[d]
        /\ rows'[c] = SessionRow(m, pw[m])
    BY <1>3 DEF LeaveLosingASide, RunSteps
  <2>2. \A d \in Caps : d # c /\ rows'[d] # Nothing =>
            rows[d] # Nothing /\ rows'[d].pw = rows[d].pw
    BY <2>1, RegistryKeeps DEF Keeps
  <2>3. RowsDescend
    BY <2>0, <2>1, <2>2, RegistryKeeps DEF RowsDescend, OnlyIssued, TypeOK
  <2>4. rows'[c].pw = pw[m] /\ rows'[c].kind = "session"
    BY <2>1 DEF SessionRow
  <2>5. PasswordsDescend
    BY <1>3, <2>0, <2>2, <2>4 DEF LeaveLosingASide, PasswordsDescend, InUse, UsedIn
  <2>6. \A n \in Members : gen'[n] = gen[n] => n # m
    BY <1>3 DEF LeaveLosingASide, Bump, TypeOK
  <2>7. ASSUME NEW n \in Members, n # m, HasElderLink(n) PROVE HasElderLink(n)'
    <3>1. PICK e \in Caps : Is(e, "elder", n)
      BY <2>7 DEF HasElderLink
    <3>2. e # c /\ rows'[e] = rows[e]
      BY <2>0, <2>1, <2>7, <3>1 DEF Is, OnlyIssued, RunSteps, AfterRegistry
    <3> QED
      BY <3>1, <3>2 DEF HasElderLink, Is
  <2>8. \A d \in Caps \ issued : rows'[d] # Nothing => d = c
    BY <2>2 DEF OnlyIssued
  <2>9. LinksDescend
    BY <2>0, <2>4, <2>6, <2>7, <2>8 DEF LinksDescend, At
  <2> QED
    BY <2>3, <2>5, <2>9 DEF Lineage
<1> QED
  BY <1>1, <1>2, <1>3 DEF Revoking

LEMMA SpendingKeeps ==
    ASSUME TypeOK, NEW c \in Caps, rows[c] # Nothing
    PROVE  /\ Keeps(rows[c], [rows[c] EXCEPT !.spent = TRUE])
           /\ [rows[c] EXCEPT !.spent = TRUE].pw = rows[c].pw
           /\ [rows[c] EXCEPT !.spent = TRUE].kind = rows[c].kind
           /\ [rows[c] EXCEPT !.spent = TRUE].member = rows[c].member
           /\ [rows[c] EXCEPT !.spent = TRUE] # Nothing
<1> rows[c] \in Row
  BY DEF TypeOK, Rows
<1> [rows[c] EXCEPT !.spent = TRUE] \in Row
  BY DEF Row
<1> QED
  BY NothingAssumption DEF Keeps, Row

(* A step that draws token c for one row and bumps nobody.                  *)
LEMMA DrawLineage ==
    ASSUME TypeOK, OnlyIssued, NEW c \in Caps, NEW e, Draw(c, e), gen' = gen,
           active' = active, pw' = pw,
           \A s \in Requests : req'[s] # Nothing => req'[s] = req[s],
           \A d \in Caps : d # c => Keeps(rows[d], rows'[d]),
           rows'[c] \in Row,
           rows'[c].pw = FirstPassword
             \/ \E s \in Requests : req[s] # Nothing /\ rows'[c].pw = req[s].pw,
           \A m \in Members : HasElderLink(m) => HasElderLink(m)',
           rows'[c].kind = "elderSession" =>
             \E s \in Requests : /\ At(s, "enter")
                                /\ rows'[c].member = req[s].member
                                /\ rows'[c].gen = req[s].gen
    PROVE  Lineage
<1>0. c \notin issued /\ issued' = issued \cup {c}
  BY DEF Draw, Fresh
<1>1. \A d \in Caps : d # c /\ rows'[d] # Nothing =>
          rows[d] # Nothing /\ rows'[d].pw = rows[d].pw
  BY DEF Keeps
<1>2. RowsDescend
  BY <1>0, <1>1 DEF RowsDescend, OnlyIssued, TypeOK
<1>3. \A p \in Caps : InUse(p)' => InUse(p)
  BY <1>1, PasswordAssumption DEF InUse, UsedIn
<1>4. PasswordsDescend
  BY <1>3 DEF PasswordsDescend
<1>5. \A d \in Caps \ issued : rows'[d] # Nothing => d = c
  BY <1>1 DEF OnlyIssued
<1>6. LinksDescend
  BY <1>5 DEF LinksDescend, At
<1> QED
  BY <1>2, <1>4, <1>6 DEF Lineage

LEMMA MintingLineage ==
    ASSUME TypeOK, TypeOK', OnlyIssued, Minting
    PROVE  Lineage
<1>1. ASSUME NEW r \in Requests, NEW m \in Members,
             OpenProvisioning(r, m) \/ Authenticate(r, m) \/ OpenRecovery(r, m)
      PROVE  Lineage
  BY <1>1, BeginLineage DEF OpenProvisioning, Authenticate, OpenRecovery, Ops
<1>2. ASSUME NEW r \in Requests, NEW c \in Caps, OpenElderLink(r, c) PROVE Lineage
  <2> DEFINE m == rows[c].member
  <2>1. m \in Members /\ HasElderLink(m)
    BY <1>2 DEF OpenElderLink, TypeOK, Rows, Row, HasElderLink, Is
  <2> QED
    BY <1>2, <2>1, BeginLineage DEF OpenElderLink, Ops
<1>3. ASSUME NEW r \in Requests, SupersedeEarlier(r) \/ Abandon(r) PROVE Lineage
  <2>1. UNCHANGED <<gen, active, pw, rows, issued>>
    BY <1>3 DEF SupersedeEarlier, Abandon, db, history
  <2>2. \A s \in Requests : req'[s] # Nothing =>
            \/ req'[s] = req[s]
            \/ req[s] # Nothing /\ req'[s].pw = req[s].pw /\ req'[s].op = "insert"
    <3>1. CASE Abandon(r)
      BY <3>1, NoNewRequest DEF Abandon
    <3>2. CASE SupersedeEarlier(r)
      <4>1. req[r] # Nothing /\ req[r] \in Request
        BY <3>2 DEF SupersedeEarlier, At, TypeOK
      <4> QED
        BY <3>2, <4>1 DEF SupersedeEarlier, TypeOK, Request
    <3> QED
      BY <1>3, <3>1, <3>2
  <2>3. RowsDescend
    BY <2>1 DEF RowsDescend, OnlyIssued, Keeps
  <2>4. PasswordsDescend
    BY <2>1, <2>2 DEF PasswordsDescend, InUse, UsedIn
  <2>5. LinksDescend
    BY <2>1, <2>2 DEF LinksDescend, OnlyIssued, HasElderLink, Is, At
  <2> QED
    BY <2>3, <2>4, <2>5 DEF Lineage
<1>4. ASSUME NEW r \in Requests, NEW c \in Caps, MintElder(r, c) PROVE Lineage
  <2>0. PICK m \in Members : m = req[r].member /\ req[r].gen \in Nat
    BY <1>4 DEF MintElder, At, TypeOK, Request
  <2>1. rows' = Replace(m, c, LinkRow("elder", m, req[r].gen), rows)
    BY <1>4, <2>0 DEF MintElder
  <2>2. \A d \in Caps : d # c => rows'[d] \in {Nothing, rows[d]}
    BY <2>1 DEF Replace
  <2>3. \A d \in Caps : d # c => Keeps(rows[d], rows'[d])
    BY <2>2 DEF Keeps
  <2>4. /\ rows'[c] \in Row /\ rows'[c].pw = FirstPassword
        /\ rows'[c].kind = "elder" /\ rows'[c].member = m
    BY <2>0, <2>1, RowTypes DEF Replace, LinkRow, Kinds, TypeOK, Passwords
  <2>5. HasElderLink(m)'
    <3>1. rows'[c] # Nothing
      BY <2>4, NothingAssumption
    <3>2. Is(c, "elder", m)'
      BY <2>4, <3>1 DEF Is
    <3> QED
      BY <3>2 DEF HasElderLink
  <2>6. ASSUME NEW n \in Members, n # m, HasElderLink(n) PROVE HasElderLink(n)'
    <3>1. PICK e \in Caps : Is(e, "elder", n)
      BY <2>6 DEF HasElderLink
    <3>2. e # c
      BY <1>4, <3>1 DEF MintElder, Draw, Fresh, Is, OnlyIssued
    <3>3. rows'[e] = rows[e]
      BY <2>1, <2>6, <3>1, <3>2 DEF Replace, Is
    <3> QED
      BY <3>1, <3>3 DEF HasElderLink, Is
  <2>7. \A s \in Requests : req'[s] # Nothing => req'[s] = req[s]
    BY <1>4, NoNewRequest DEF MintElder
  <2>8. \A n \in Members : HasElderLink(n) => HasElderLink(n)'
    BY <2>5, <2>6
  <2>9. Draw(c, req[r].born) /\ gen' = gen /\ active' = active /\ pw' = pw
    BY <1>4 DEF MintElder
  <2> QED
    BY <2>3, <2>4, <2>7, <2>8, <2>9, DrawLineage
<1>5. ASSUME NEW r \in Requests, NEW c \in Caps, RegenerateElder(r, c) PROVE Lineage
  <2> DEFINE m == req[r].member
  <2>0. /\ req[r] \in Request /\ m \in Members
        /\ c \notin issued /\ issued' = issued \cup {c} /\ pw' = pw /\ active' = active
    BY <1>5 DEF RegenerateElder, At, TypeOK, Request, Draw, Fresh
  <2>1. rows' = Replace(m, c, LinkRow("elder", m, gen'[m]), RunSteps(m)) /\ Bump(m)
    BY <1>5 DEF RegenerateElder
  <2>2. \A d \in Caps : d # c => rows'[d] \in {Nothing, RunSteps(m)[d]}
    BY <2>1 DEF Replace
  <2>3. \A d \in Caps : d # c => Keeps(rows[d], rows'[d])
    BY <2>0, <2>2, RegistryKeeps DEF Keeps
  <2>4. rows'[c].pw = FirstPassword /\ rows'[c].kind = "elder"
    BY <2>1 DEF Replace, LinkRow
  <2>5. \A d \in Caps : d # c /\ rows'[d] # Nothing =>
            rows[d] # Nothing /\ rows'[d].pw = rows[d].pw
    BY <2>3 DEF Keeps
  <2>6. \A s \in Requests : req'[s] # Nothing => req'[s] = req[s]
    BY <1>5, NoNewRequest DEF RegenerateElder
  <2>7. RowsDescend
    BY <2>0, <2>3, <2>5 DEF RowsDescend, OnlyIssued, TypeOK
  <2>8. \A p \in Caps : InUse(p)' => InUse(p)
    BY <2>0, <2>4, <2>5, <2>6, PasswordAssumption DEF InUse, UsedIn
  <2>9. PasswordsDescend
    BY <2>0, <2>8 DEF PasswordsDescend
  <2>10. \A n \in Members : gen'[n] = gen[n] => n # m
    BY <2>0, <2>1 DEF Bump, TypeOK
  <2>11. ASSUME NEW n \in Members, n # m, HasElderLink(n) PROVE HasElderLink(n)'
    <3>1. PICK e \in Caps : Is(e, "elder", n)
      BY <2>11 DEF HasElderLink
    <3>2. e # c /\ rows[e] # Nothing /\ rows[e].member = n /\ rows[e].kind = "elder"
      BY <2>0, <3>1 DEF Is, OnlyIssued
    <3>3. rows'[e] = rows[e]
      BY <2>1, <2>11, <3>2 DEF Replace, Is, RunSteps, AfterRegistry
    <3> QED
      BY <3>1, <3>3 DEF HasElderLink, Is
  <2>12. \A d \in Caps \ issued : rows'[d] # Nothing => d = c
    BY <2>5 DEF OnlyIssued
  <2>13. LinksDescend
    BY <2>4, <2>6, <2>10, <2>11, <2>12 DEF LinksDescend, At
  <2> QED
    BY <2>7, <2>9, <2>13 DEF Lineage
<1>6. ASSUME NEW r \in Requests, NEW c \in Caps,
             \/ StoreElderSession(r, c) \/ StoreSession(r, c) \/ InsertRecovery(r, c)
      PROVE  Lineage
  <2>0. /\ req[r] \in Request /\ req[r] # Nothing
        /\ Draw(c, req[r].born) /\ gen' = gen /\ active' = active /\ pw' = pw
    BY <1>6 DEF StoreElderSession, StoreSession, InsertRecovery, At, TypeOK
  <2>1. /\ c \notin issued /\ rows[c] = Nothing
        /\ req[r].member \in Members /\ req[r].gen \in Nat /\ req[r].pw \in Passwords
    BY <2>0 DEF Draw, Fresh, OnlyIssued, Request
  <2>2. ASSUME NEW d \in Caps, d # c
        PROVE  \/ rows'[d] = rows[d]
               \/ rows[d] # Nothing /\ rows'[d] = [rows[d] EXCEPT !.spent = TRUE]
    BY <1>6, <2>2, Zenon
       DEF StoreElderSession, StoreSession, InsertRecovery, TypeOK, Rows
  <2>3. \A d \in Caps : d # c => Keeps(rows[d], rows'[d])
    BY <2>2, SpendingKeeps DEF Keeps
  <2>4. ASSUME NEW n \in Members, HasElderLink(n) PROVE HasElderLink(n)'
    <3>1. PICK e \in Caps : Is(e, "elder", n)
      BY <2>4 DEF HasElderLink
    <3>2. e # c
      BY <2>1, <3>1 DEF Is
    <3> QED
      BY <2>2, <3>1, <3>2, SpendingKeeps DEF HasElderLink, Is
  <2>5. \A s \in Requests : req'[s] # Nothing => req'[s] = req[s]
    BY <1>6, NoNewRequest DEF StoreElderSession, StoreSession, InsertRecovery
  <2>6. /\ rows'[c] \in Row
        /\ \/ rows'[c].pw = FirstPassword
           \/ rows'[c].pw = req[r].pw
        /\ rows'[c].kind = "elderSession" =>
            /\ At(r, "enter")
            /\ rows'[c].member = req[r].member
            /\ rows'[c].gen = req[r].gen
    <3>1. CASE StoreElderSession(r, c)
      BY <2>1, <3>1, RowTypes DEF StoreElderSession, LinkRow, Kinds, TypeOK, Rows, Passwords
    <3>2. CASE StoreSession(r, c)
      BY <2>1, <3>2, RowTypes DEF StoreSession, SessionRow, Kinds, TypeOK, Rows
    <3>3. CASE InsertRecovery(r, c)
      BY <2>1, <3>3, RowTypes DEF InsertRecovery, LinkRow, Kinds, TypeOK, Rows, Passwords
    <3> QED
      BY <1>6, <3>1, <3>2, <3>3
  <2> QED
    BY <2>0, <2>3, <2>4, <2>5, <2>6, DrawLineage
<1>7. ASSUME NEW m \in Members, NEW link \in Caps, NEW reply \in Caps,
             SendDigest(m, link, reply)
      PROVE  Lineage
  <2>0. /\ link \notin issued /\ reply \notin issued
        /\ issued' = issued \cup {link, reply}
        /\ UNCHANGED <<gen, active, pw, req>>
    BY <1>7 DEF SendDigest, Fresh
  <2>1. \A d \in Caps \ {link, reply} : rows'[d] = rows[d]
    BY <1>7 DEF SendDigest, TypeOK, Rows
  <2>2. \A d \in {link, reply} :
            rows'[d].pw = FirstPassword /\ rows'[d].kind # "elderSession"
    BY <1>7 DEF SendDigest, TypeOK, Rows, LinkRow
  <2>3. RowsDescend
    BY <2>0, <2>1 DEF RowsDescend, OnlyIssued, Keeps, TypeOK
  <2>4. \A p \in Caps : InUse(p)' => InUse(p)
    BY <2>0, <2>1, <2>2, PasswordAssumption DEF InUse, UsedIn
  <2>5. PasswordsDescend
    BY <2>0, <2>4 DEF PasswordsDescend
  <2>6. ASSUME NEW n \in Members, HasElderLink(n) PROVE HasElderLink(n)'
    <3>1. PICK e \in Caps : Is(e, "elder", n)
      BY <2>6 DEF HasElderLink
    <3>2. rows'[e] = rows[e]
      BY <2>0, <2>1, <3>1 DEF Is, OnlyIssued
    <3> QED
      BY <3>1, <3>2 DEF HasElderLink, Is
  <2>7. \A d \in Caps \ issued : rows'[d] # Nothing => d \in {link, reply}
    BY <2>1 DEF OnlyIssued
  <2>8. LinksDescend
    BY <2>0, <2>2, <2>6, <2>7 DEF LinksDescend, At
  <2> QED
    BY <2>3, <2>5, <2>8 DEF Lineage
<1> QED
  BY <1>1, <1>2, <1>3, <1>4, <1>5, <1>6, <1>7 DEF Minting

LEMMA UsingLineage ==
    ASSUME TypeOK, OnlyIssued, Using
    PROVE  Lineage
<1> SUFFICES ASSUME NEW c \in Caps, RedeemRecovery(c) \/ Lapse(c) PROVE Lineage
  BY DEF Using
<1>0. UNCHANGED <<gen, active, req, issued>> /\ rows[c] # Nothing /\ rows[c].kind # "elder"
  BY DEF RedeemRecovery, Lapse, history
<1>1. \A d \in Caps : d # c => rows'[d] = rows[d]
  BY DEF RedeemRecovery, Lapse, TypeOK, Rows
<1>2. Keeps(rows[c], rows'[c])
  BY <1>0, SpendingKeeps DEF RedeemRecovery, Lapse, TypeOK, Rows, Keeps
<1>3. RowsDescend
  <2>1. \A d \in Caps : Keeps(rows[d], rows'[d])
    BY <1>1, <1>2 DEF Keeps
  <2>2. \A d \in Caps : rows'[d] # Nothing => d \in issued
    BY <2>1 DEF Keeps, OnlyIssued
  <2> QED
    BY <1>0, <2>1, <2>2 DEF RowsDescend, TypeOK
<1>4. \A d \in Caps : rows'[d] # Nothing => rows[d] # Nothing /\ rows'[d].pw = rows[d].pw
  BY <1>1, <1>2 DEF Keeps
<1>5. \A m \in Members : pw'[m] = pw[m] \/ (RedeemRecovery(c) /\ pw'[m] = c)
  <2>1. rows[c].member \in Members
    BY <1>0 DEF TypeOK, Rows, Row
  <2>2. CASE RedeemRecovery(c)
    <3>1. pw' = [pw EXCEPT ![rows[c].member] = c] /\ pw \in [Members -> Passwords]
      BY <2>2 DEF RedeemRecovery, TypeOK
    <3>2. \A m \in Members : pw'[m] = pw[m] \/ pw'[m] = c
      BY <2>1, <3>1
    <3> QED
      BY <2>2, <3>2
  <2>3. CASE Lapse(c)
    <3>1. pw' = pw
      BY <2>3 DEF Lapse
    <3> QED
      BY <3>1
  <2> QED
    BY <2>2, <2>3
<1>6. PasswordsDescend
  BY <1>0, <1>4, <1>5 DEF PasswordsDescend, InUse, UsedIn
<1>7. LinksDescend
  BY <1>0, <1>1, <1>4 DEF LinksDescend, HasElderLink, Is, OnlyIssued, At
<1> QED
  BY <1>3, <1>6, <1>7 DEF Lineage

-----------------------------------------------------------------------------
(* Refinement.  The invariant that makes an ended credential stay ended.    *)

OrdinaryStep == Revoking \/ Minting \/ Using

LEMMA OrdinaryLineage ==
    ASSUME DeadInv, TypeOK', OrdinaryStep
    PROVE  Lineage
  BY RevokingLineage, MintingLineage, UsingLineage DEF DeadInv, FreshInv, OrdinaryStep

(* A link is redeemed only while it is unused, and is used from then on.    *)
LEMMA RedeemingSpends ==
    ASSUME TypeOK, NEW c \in Caps, RedeemRecovery(c)
    PROVE  Unused(rows, c) /\ rows'[c].spent
<1>1. rows[c] # Nothing /\ rows[c].kind = "recovery" /\ ~rows[c].spent
  BY DEF RedeemRecovery, Live, LinkResolves
<1>2. rows[c] \in Row /\ rows' = [rows EXCEPT ![c].spent = TRUE]
  BY <1>1 DEF RedeemRecovery, TypeOK, Rows
<1>3. rows'[c].spent
  BY <1>2 DEF TypeOK, Rows, Row
<1> QED
  BY <1>1, <1>3 DEF Unused

(* A generation that is current after an ordinary step was current before.  *)
LEMMA CurrentWasCurrent ==
    ASSUME FreshInv, TypeOK', ClocksAdvance, NEW m \in Members, NEW g \in Nat,
           g <= gen[m], g = gen'[m]
    PROVE  g = gen[m] /\ gen'[m] = gen[m]
<1>1. gen[m] \in Nat /\ gen'[m] \in Nat /\ gen[m] <= gen'[m]
  BY DEF FreshInv, TypeOK, ClocksAdvance
<1> QED
  BY <1>1

LEMMA OrdinaryKeepsDead ==
    ASSUME DeadInv, TypeOK', OrdinaryStep
    PROVE  OnlyIssued' /\ UnusedSetsNothing' /\ ElderSessionHasLink'
<1>1. Lineage /\ Shape /\ backup' = backup
  BY OrdinaryLineage, OrdinaryShape DEF DeadInv, OrdinaryStep
<1>2. TypeOK /\ FreshInv
  BY DEF DeadInv, FreshInv
<1>3. \A c \in Caps : RedeemRecovery(c) => Unused(rows, c) /\ rows'[c].spent
  BY <1>2, RedeemingSpends
<1>4. OnlyIssued'
  <2>1. \A p \in Caps : InUse(p)' => p \in issued
    BY <1>1, <1>3 DEF Lineage, PasswordsDescend, DeadInv, OnlyIssued, Unused
  <2>2. issued \subseteq issued' /\ \A c \in Caps : rows'[c] # Nothing => c \in issued'
    BY <1>1 DEF Lineage, RowsDescend
  <2>3. backup' # Nothing =>
          /\ \A c \in Caps : backup'.rows[c] # Nothing => c \in issued'
          /\ \A p \in Caps : UsedIn(backup'.pw, backup'.rows, p) => p \in issued'
    BY <1>1, <2>2 DEF DeadInv, OnlyIssued
  <2> QED
    BY <2>1, <2>2, <2>3 DEF OnlyIssued, UsedIn
<1>5. UnusedSetsNothing'
  <2>1. ASSUME NEW c \in Caps, Unused(rows', c), InUse(c)' PROVE FALSE
    <3>1. ~RedeemRecovery(c)
      BY <1>3, <2>1 DEF Unused
    <3>2. InUse(c)
      BY <1>1, <2>1, <3>1 DEF Lineage, PasswordsDescend
    <3>3. c \in issued
      BY <3>2 DEF DeadInv, OnlyIssued
    <3>4. Unused(rows, c)
      BY <1>1, <2>1, <3>3 DEF Lineage, RowsDescend, Keeps, Unused
    <3> QED
      BY <3>2, <3>4 DEF DeadInv, UnusedSetsNothing
  <2>2. backup' # Nothing =>
          \A c \in Caps : Unused(backup'.rows, c) => ~UsedIn(backup'.pw, backup'.rows, c)
    BY <1>1 DEF DeadInv, UnusedSetsNothing
  <2> QED
    BY <2>1, <2>2 DEF UnusedSetsNothing, Unused, UsedIn
<1>6. ElderSessionHasLink'
  <2>1. ASSUME NEW c \in Caps, ~restored', rows'[c] # Nothing,
               rows'[c].kind = "elderSession", rows'[c].gen = gen'[rows'[c].member]
        PROVE  HasElderLink(rows[c].member)'
    <3>1. PICK m \in Members : m = rows'[c].member
      BY <2>1 DEF TypeOK, Rows, Row
    <3>2. rows'[c].gen \in Nat
      BY <2>1 DEF TypeOK, Rows, Row
    <3>3. CASE c \in issued
      <4>1. /\ rows[c] # Nothing /\ rows[c].kind = "elderSession"
            /\ rows[c].member = m /\ rows[c].gen = rows'[c].gen
        BY <1>1, <2>1, <3>1, <3>3 DEF Lineage, RowsDescend, Keeps
      <4>2. rows[c].gen <= gen[m]
        BY <1>2, <4>1 DEF FreshInv, NoFutureGeneration
      <4>3. rows[c].gen = gen[m] /\ gen'[m] = gen[m]
        BY <1>1, <1>2, <2>1, <3>1, <3>2, <4>1, <4>2, CurrentWasCurrent DEF Shape
      <4>4. HasElderLink(m)
        BY <1>1, <2>1, <4>1, <4>3 DEF Shape, DeadInv, ElderSessionHasLink
      <4>5. HasElderLink(m)'
        BY <1>1, <4>3, <4>4 DEF Lineage, LinksDescend
      <4> QED
        BY <3>1, <4>5 DEF HasElderLink
    <3>4. CASE c \notin issued
      <4>1. PICK r \in Requests : /\ At(r, "enter") /\ gen' = gen
                                  /\ m = req[r].member /\ rows'[c].gen = req[r].gen
        BY <1>1, <2>1, <3>1, <3>4 DEF Lineage, LinksDescend
      <4>2. HasElderLink(m)
        BY <2>1, <3>1, <4>1 DEF DeadInv, ElderSessionHasLink
      <4>3. HasElderLink(m)'
        BY <1>1, <4>1, <4>2 DEF Lineage, LinksDescend
      <4> QED
        BY <3>1, <4>3 DEF HasElderLink
    <3> QED
      BY <3>3, <3>4
  <2>2. ASSUME NEW r \in Requests, At(r, "enter")', req'[r].gen = gen'[req'[r].member]
        PROVE  HasElderLink(req[r].member)'
    <3>1. PICK m \in Members : m = req'[r].member
      BY <2>2 DEF At, TypeOK, Request
    <3>2. req'[r].gen \in Nat
      BY <2>2 DEF At, TypeOK, Request
    <3>3. CASE At(r, "enter") /\ req'[r] = req[r]
      <4>1. req[r].gen <= gen[m]
        BY <1>2, <3>1, <3>3 DEF At, FreshInv, NoFutureGeneration
      <4>2. req[r].gen = gen[m] /\ gen'[m] = gen[m]
        BY <1>1, <1>2, <2>2, <3>1, <3>2, <3>3, <4>1, CurrentWasCurrent DEF Shape
      <4>3. HasElderLink(m)
        BY <3>1, <3>3, <4>2 DEF DeadInv, ElderSessionHasLink
      <4>4. HasElderLink(m)'
        BY <1>1, <4>2, <4>3 DEF Lineage, LinksDescend
      <4> QED
        BY <3>1, <4>4 DEF HasElderLink
    <3>4. CASE gen' = gen /\ HasElderLink(req'[r].member)
      <4>1. HasElderLink(m)'
        BY <1>1, <3>1, <3>4 DEF Lineage, LinksDescend
      <4> QED
        BY <3>1, <4>1 DEF HasElderLink
    <3> QED
      BY <1>1, <2>2, <3>3, <3>4 DEF Lineage, LinksDescend
  <2> QED
    BY <2>1, <2>2 DEF ElderSessionHasLink, HasElderLink
<1> QED
  BY <1>4, <1>5, <1>6

LEMMA RestoringKeepsDead ==
    ASSUME DeadInv, TypeOK', Restoring
    PROVE  OnlyIssued' /\ UnusedSetsNothing' /\ ElderSessionHasLink'
<1>0. TypeOK /\ FreshInv
  BY DEF DeadInv, FreshInv
<1>1. CASE TakeBackup
  <2>1. UNCHANGED <<gen, pw, rows, req, restored, issued>>
    BY <1>1 DEF TakeBackup, db, history
  <2>2. backup'.rows = rows /\ backup'.pw = pw
    BY <1>1 DEF TakeBackup
  <2>3. OnlyIssued'
    BY <2>1, <2>2 DEF DeadInv, OnlyIssued, InUse, UsedIn
  <2>4. UnusedSetsNothing'
    BY <2>1, <2>2 DEF DeadInv, UnusedSetsNothing, Unused, InUse, UsedIn
  <2>5. ElderSessionHasLink'
    BY <2>1 DEF DeadInv, ElderSessionHasLink, HasElderLink, Is, At
  <2> QED
    BY <2>3, <2>4, <2>5
<1>2. CASE PgRestore
  <2>1. /\ rows' = backup.rows /\ pw' = backup.pw /\ backup # Nothing
        /\ UNCHANGED <<backup, issued>> /\ restored' = TRUE
        /\ \A r \in Requests : req'[r] = Nothing
    BY <1>2 DEF PgRestore, history
  <2>2. \A p \in Caps : InUse(p)' <=> UsedIn(backup.pw, backup.rows, p)
    BY <2>1 DEF InUse, UsedIn
  <2>3. OnlyIssued'
    BY <2>1, <2>2 DEF DeadInv, OnlyIssued, UsedIn
  <2>4. UnusedSetsNothing'
    BY <2>1, <2>2 DEF DeadInv, UnusedSetsNothing, Unused, UsedIn
  <2>5. ElderSessionHasLink'
    BY <2>1 DEF ElderSessionHasLink, At
  <2> QED
    BY <2>3, <2>4, <2>5
<1>3. CASE SecurityReplay
  <2>1. UNCHANGED <<pw, req, backup, issued>>
    BY <1>3 DEF SecurityReplay
  <2>2. /\ \A c \in Caps : rows'[c] # Nothing =>
            /\ rows'[c] = rows[c]
            /\ rows'[c].kind # "elderSession"
        /\ \A r \in Requests : req'[r] # Nothing =>
            req'[r].gen < gen'[req'[r].member]
    BY <1>0, <1>3, ReplayOutdatesAll
  <2>3. \A p \in Caps : InUse(p)' => InUse(p)
    BY <2>1, <2>2 DEF InUse, UsedIn
  <2>4. OnlyIssued'
    BY <2>1, <2>2, <2>3 DEF DeadInv, OnlyIssued, UsedIn
  <2>5. UnusedSetsNothing'
    BY <2>1, <2>2, <2>3 DEF DeadInv, UnusedSetsNothing, Unused, UsedIn
  <2>6. ASSUME NEW r \in Requests, req'[r] # Nothing
        PROVE  req'[r].gen # gen'[req'[r].member]
    <3>1. req'[r].gen \in Nat /\ gen'[req'[r].member] \in Nat
      BY <2>6 DEF TypeOK, Request
    <3> QED
      BY <2>2, <2>6, <3>1
  <2>7. ElderSessionHasLink'
    BY <2>2, <2>6 DEF ElderSessionHasLink, At
  <2> QED
    BY <2>4, <2>5, <2>7
<1> QED
  BY <1>1, <1>2, <1>3 DEF Restoring

(* The invariant of the refinement.                                         *)
THEOREM DeadInvariant == Spec => []DeadInv
<1>1. FreshInv /\ Init => DeadInv
  BY PasswordAssumption
     DEF Init, DeadInv, OnlyIssued, UnusedSetsNothing, ElderSessionHasLink,
         InUse, UsedIn, Unused, At
<1>2. FreshInv' /\ DeadInv /\ [Next]_vars => DeadInv'
  <2> SUFFICES ASSUME FreshInv', DeadInv, [Next]_vars
               PROVE  OnlyIssued' /\ UnusedSetsNothing' /\ ElderSessionHasLink'
    BY DEF DeadInv
  <2>1. TypeOK'
    BY DEF FreshInv
  <2>2. CASE OrdinaryStep
    BY <2>1, <2>2, OrdinaryKeepsDead
  <2>3. CASE Restoring
    BY <2>1, <2>3, RestoringKeepsDead
  <2>4. CASE UNCHANGED vars
    BY <2>4 DEF vars, DeadInv, OnlyIssued, UnusedSetsNothing, ElderSessionHasLink,
                InUse, UsedIn, Unused, HasElderLink, Is, At
  <2> QED
    BY <2>2, <2>3, <2>4 DEF Next, OrdinaryStep
<1> QED
  BY <1>1, <1>2, FreshInvariant, PTL DEF Spec

-----------------------------------------------------------------------------
(* Dead credentials stay dead, unborn ones are the only ones drawn.         *)

LEMMA OrdinaryEndsForGood ==
    ASSUME DeadInv, TypeOK', OrdinaryStep, ~restored, NEW c \in issued, Live(c)'
    PROVE  Live(c)
<1>1. Lineage /\ Shape
  BY OrdinaryLineage, OrdinaryShape DEF DeadInv, OrdinaryStep
<1>2. TypeOK /\ FreshInv /\ c \in Caps
  BY DEF DeadInv, FreshInv, TypeOK
<1>3. /\ rows[c] # Nothing /\ rows'[c] # Nothing
      /\ rows'[c].kind = rows[c].kind /\ rows'[c].member = rows[c].member
      /\ rows'[c].gen = rows[c].gen /\ rows'[c].pw = rows[c].pw
      /\ rows[c].spent => rows'[c].spent
  BY <1>1 DEF Lineage, RowsDescend, Keeps, Live
<1>4. PICK m \in Members : m = rows[c].member
  BY <1>2, <1>3 DEF TypeOK, Rows, Row
<1>5. rows[c].gen = gen'[m] => rows[c].gen = gen[m] /\ gen'[m] = gen[m]
  <2>1. rows[c].gen \in Nat /\ rows[c].gen <= gen[m]
    BY <1>2, <1>3, <1>4 DEF FreshInv, TypeOK, Rows, Row, NoFutureGeneration
  <2> QED
    BY <1>1, <1>2, <2>1, CurrentWasCurrent DEF Shape
<1>6. CASE rows[c].kind = "session"
  <2>1. m \in active' /\ rows[c].pw = pw'[m]
    BY <1>3, <1>4, <1>6 DEF Live, SessionResolves
  <2>2. ASSUME NEW d \in Caps, RedeemRecovery(d), pw'[m] = d PROVE FALSE
    <3>1. Unused(rows, d)
      BY <1>2, <2>2, RedeemingSpends
    <3>2. InUse(d)
      BY <1>2, <1>3, <2>1, <2>2 DEF InUse, UsedIn
    <3> QED
      BY <3>1, <3>2 DEF DeadInv, UnusedSetsNothing
  <2>3. m \in active /\ rows[c].pw = pw[m]
    BY <1>1, <2>1, <2>2 DEF Lineage, PasswordsDescend
  <2> QED
    BY <1>3, <1>4, <1>6, <2>3 DEF Live, SessionResolves
<1>7. CASE rows[c].kind = "elderSession"
  <2>1. rows[c].gen = gen'[m]
    BY <1>3, <1>4, <1>7 DEF Live, ElderSessionResolves
  <2>2. rows[c].gen = gen[m] /\ HasElderLink(m)
    BY <1>2, <1>3, <1>4, <1>5, <1>7, <2>1 DEF DeadInv, ElderSessionHasLink
  <2> QED
    BY <1>3, <1>4, <1>7, <2>2 DEF Live, ElderSessionResolves
<1>8. CASE rows[c].kind \notin {"session", "elderSession"}
  <2>1. ~rows'[c].spent /\ rows[c].gen = gen'[m]
    BY <1>3, <1>4, <1>8 DEF Live, LinkResolves
  <2> QED
    BY <1>3, <1>4, <1>5, <1>8, <2>1 DEF Live, LinkResolves
<1> QED
  BY <1>6, <1>7, <1>8

LEMMA EndedStaysEnded ==
    ASSUME DeadInv, TypeOK', [Next]_vars, NEW c \in issued,
           ~Live(c) \/ restored
    PROVE  ~Live(c)' \/ restored'
<1>0. c \in Caps /\ FreshInv
  BY DEF DeadInv, FreshInv, TypeOK
<1>1. CASE OrdinaryStep
  <2>1. restored' = restored
    BY <1>0, <1>1, OrdinaryShape DEF OrdinaryStep, Shape
  <2> QED
    BY <1>1, <2>1, OrdinaryEndsForGood
<1>2. CASE TakeBackup
  BY <1>2 DEF TakeBackup, db, history, Live, SessionResolves, ElderSessionResolves,
              LinkResolves, HasElderLink, Is
<1>3. CASE PgRestore
  BY <1>3 DEF PgRestore
<1>4. CASE SecurityReplay
  <2> SUFFICES ASSUME Live(c)' PROVE FALSE
    OBVIOUS
  <2>1. rows'[c] # Nothing
    BY DEF Live
  <2>2. /\ rows'[c].gen < gen'[rows'[c].member]
        /\ rows'[c].kind \notin {"session", "elderSession"}
    BY <1>0, <1>4, <2>1, ReplayOutdatesAll
  <2>3. rows'[c].gen = gen'[rows'[c].member]
    BY <2>1, <2>2 DEF Live, LinkResolves
  <2>4. rows'[c].gen \in Nat
    BY <1>0, <2>1 DEF TypeOK, Rows, Row
  <2> QED
    BY <2>2, <2>3, <2>4
<1>5. CASE UNCHANGED vars
  BY <1>5 DEF vars, Live, SessionResolves, ElderSessionResolves, LinkResolves,
              HasElderLink, Is
<1> QED
  BY <1>1, <1>2, <1>3, <1>4, <1>5 DEF Next, Restoring, OrdinaryStep

LEMMA IssuedGrows ==
    ASSUME DeadInv, TypeOK', [Next]_vars
    PROVE  issued \subseteq issued'
<1>1. CASE OrdinaryStep
  BY <1>1, OrdinaryLineage DEF Lineage, RowsDescend
<1>2. CASE Restoring
  BY <1>2 DEF Restoring, TakeBackup, PgRestore, SecurityReplay, history
<1>3. CASE UNCHANGED vars
  BY <1>3 DEF vars
<1> QED
  BY <1>1, <1>2, <1>3 DEF Next, OrdinaryStep

Status == [c \in Caps |-> StatusOf(c)]

LEMMA StepIsAct ==
    ASSUME DeadInv, TypeOK', [Next]_vars
    PROVE  Abstract!Act
<1>1. Status' = [c \in Caps |-> StatusOf(c)']
  BY DEF Status
<1>2. \A c \in Caps : StatusOf(c) \in {"unborn", "live", "dead"}
                      /\ StatusOf(c)' \in {"unborn", "live", "dead"}
  BY DEF StatusOf
<1>3. ASSUME NEW c \in Caps, StatusOf(c)' # StatusOf(c)
      PROVE  <<StatusOf(c), StatusOf(c)'>> \in Abstract!OneWay
  <2>1. c \in issued => c \in issued'
    BY IssuedGrows
  <2>2. c \in issued /\ (~Live(c) \/ restored) => ~Live(c)' \/ restored'
    BY EndedStaysEnded
  <2> QED
    BY <1>3, <2>1, <2>2 DEF StatusOf, Abstract!OneWay, Abstract!Unborn,
                            Abstract!Alive, Abstract!Dead
<1> QED
  BY <1>1, <1>2, <1>3 DEF Abstract!Act, Abstract!Unborn, Abstract!Alive,
                          Abstract!Dead, Status

(* Credentials implements Capabilities: every step maps to an abstract act  *)
(* or to a stutter, so no credential of any class ever comes back.          *)
THEOREM Refinement == Spec => DeadStaysDead
<1>1. Init => Abstract!Init
  BY DEF Init, Abstract!Init, Abstract!Unborn, StatusOf
<1>2. DeadInv /\ DeadInv' /\ [Next]_vars => [Abstract!Act]_Status
  BY StepIsAct DEF DeadInv, FreshInv
<1> QED
  BY <1>1, <1>2, DeadInvariant, PTL DEF Spec, DeadStaysDead, Abstract!Spec, Status
=============================================================================
