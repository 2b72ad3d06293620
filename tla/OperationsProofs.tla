-------------------------- MODULE OperationsProofs --------------------------
(***************************************************************************)
(* What Backups and Instance promise whoever runs the instance: for any    *)
(* number of pictures, nights, faults and restores, and whatever the       *)
(* retention keeps; for any number of people, setup forms, things that     *)
(* expire and names, however many boots are cut short.  That a restore     *)
(* comes to an end, that the secret goes away and that an alarm is heard   *)
(* are liveness properties and are left to TLC.                            *)
(***************************************************************************)
EXTENDS Backups, Instance, FiniteSetTheorems, TLAPS

LEMMA Bounds ==
    /\ Nights \in Nat /\ Nights >= 1 /\ KeepDaily \in Nat /\ KeepDaily >= 1 /\ KeepWeekly \in Nat
    /\ StaleDays \in Nat /\ MaxFaults \in Nat /\ MaxRestores \in Nat
  BY BoundsAssumption

LEMMA Placeholders ==
    /\ Nothing \notin Gathered /\ Foreign \notin Gathered
    /\ Nothing \notin Jobs /\ Nothing \notin Restores
  BY SeparateAssumption

-----------------------------------------------------------------------------
(* The order of the steps.                                                 *)

LEMMA JobGoesOn ==
    /\ Head(Order) = "dump" /\ After("dump", Order) = "tar" /\ After("tar", Order) = "seal"
    /\ After("seal", Order) = "record" /\ After("record", Order) = "prune"
  BY DEF Order, After

LEMMA RestoreGoesOn ==
    /\ Head(RestoreOrder) = "dump" /\ Last(RestoreOrder) = "replay"
    /\ After("dump", RestoreOrder) = "media" /\ After("media", RestoreOrder) = "promote"
    /\ After("promote", RestoreOrder) = "replay"
  BY DEF RestoreOrder, After, Last

(* A step of the job, and of the restore, that keeps the record's shape.   *)
LEMMA GoesTyped ==
  ASSUME job \in Jobs, NEW archive \in Gathered, job.step # "prune", Goes(archive)
  PROVE  /\ job' \in Jobs /\ job' # Nothing
         /\ job'.day = job.day /\ job'.archive = archive /\ job'.step = After(job.step, Order)
  <1>1. After(job.step, Order) \in JobSteps
    BY JobGoesOn DEF Jobs, JobSteps
  <1>2. job' = [job EXCEPT !.step = After(job.step, Order), !.archive = archive]
    BY DEF Goes
  <1> QED
    BY <1>1, <1>2, Placeholders DEF Jobs

LEMMA RestoreGoesTyped ==
  ASSUME restore \in Restores, RestoreGoes
  PROVE  /\ restore.step = "replay" => restore' = Nothing
         /\ restore.step # "replay" =>
               /\ restore' \in Restores /\ restore' # Nothing
               /\ restore'.archive = restore.archive
               /\ restore'.step = After(restore.step, RestoreOrder)
  <1>1. restore.step # "replay" => After(restore.step, RestoreOrder) \in RestoreSteps
    BY RestoreGoesOn DEF Restores, RestoreSteps
  <1>2. restore' = IF restore.step = "replay" THEN Nothing
                   ELSE [restore EXCEPT !.step = After(restore.step, RestoreOrder)]
    BY RestoreGoesOn DEF RestoreGoes
  <1> QED
    BY <1>1, <1>2, Placeholders DEF Restores

-----------------------------------------------------------------------------
(* What an archive says was recorded, was: so a restore that rolls the     *)
(* ledger back rolls it back to days of this box's own history.            *)
Remembered ==
    /\ job # Nothing => job.archive.ledger \subseteq made
    /\ restore # Nothing => restore.archive.ledger \subseteq made
    /\ \A d \in Days : Readable(d) => disk[d].ledger \subseteq made

LEMMA TypedFromTheStart == Init => TypeOK /\ Remembered
  <1> SUFFICES ASSUME Init PROVE TypeOK /\ Remembered
    OBVIOUS
  <1>1. today \in Days /\ byHand \in 0 .. Nights /\ failure \in 0 .. Nights
    BY Bounds DEF Init, Days
  <1>2. faults \in 0 .. MaxFaults /\ restores \in 0 .. MaxRestores
    BY Bounds DEF Init
  <1>3. media \in [Assets -> Media] /\ disk \in [Days -> Gathered \cup {Nothing, Foreign}]
    BY DEF Init, Media
  <1> QED
    BY <1>1, <1>2, <1>3 DEF Init, TypeOK, Remembered, Readable

LEMMA StepKeepsTypes ==
  ASSUME TypeOK, Remembered, [Next]_vars
  PROVE  TypeOK'
  <1> USE DEF TypeOK
  <1>0. NoArchive \in Gathered
    BY Bounds DEF NoArchive, Gathered
  <1>1. ASSUME NEW a \in Assets, Upload(a) \/ Publish(a) \/ Delete(a) \/ Unlink(a) PROVE TypeOK'
    BY <1>1 DEF Upload, Publish, Delete, Unlink, Moves, Media, OnDisk, HasRow
  <1>2. ASSUME NEW up \in BOOLEAN, Night(up) PROVE TypeOK'
    <2>1. today' \in Days
      BY <1>2, Bounds DEF Night, Days
    <2>2. job' \in Jobs \cup {Nothing}
      BY <1>0, <1>2, <2>1, JobGoesOn DEF Night, Jobs, JobSteps
    <2> QED
      BY <1>2, <2>1, <2>2 DEF Night
  <1>3. CASE Dump
    <2>1. [job.archive EXCEPT !.rows = {a \in Assets : media[a] \in HasRow},
                              !.ledger = ledger, !.byHand = byHand, !.failure = failure] \in Gathered
      BY <1>3 DEF Dump, At, Jobs, Gathered
    <2>2. job' \in Jobs
      BY <1>3, <2>1, GoesTyped DEF Dump, At
    <2> QED
      BY <1>3, <2>2 DEF Dump, OnEntry
  <1>4. CASE Tar
    <2>1. [job.archive EXCEPT !.files = {a \in Assets : media[a] \in OnDisk},
                  !.tree = MediaRootExists,
                  !.purged = {a \in job.archive.rows : media[a] \in {"gone", "broken"}}] \in Gathered
      BY <1>4 DEF Tar, At, Jobs, Gathered, MediaRootExists
    <2>2. job' \in Jobs
      BY <1>4, <2>1, GoesTyped DEF Tar, At
    <2> QED
      BY <1>4, <2>2 DEF Tar
  <1>5. CASE Seal
    <2>1. job \in Jobs /\ job.step = "seal" /\ job.archive \in Gathered /\ job.day \in Days
      BY <1>5 DEF Seal, At, Jobs
    <2>2. job' \in Jobs
      BY <1>5, <2>1, GoesTyped DEF Seal
    <2> QED
      BY <1>5, <2>1, <2>2 DEF Seal
  <1>6. CASE Record
    <2>1. job \in Jobs /\ job.step = "record" /\ job.archive \in Gathered /\ job.day \in Days
      BY <1>6 DEF Record, At, Jobs
    <2>2. job' \in Jobs
      BY <1>6, <2>1, GoesTyped DEF Record
    <2>3. faults' \in 0 .. MaxFaults
      BY <1>6, Bounds DEF Record
    <2> QED
      BY <1>6, <2>1, <2>2, <2>3 DEF Record
  <1>7. CASE Prune
    <2>1. faults' \in 0 .. MaxFaults
      BY <1>7, Bounds DEF Prune
    <2>2. disk' \in [Days -> Gathered \cup {Nothing, Foreign}]
      BY <1>7 DEF Prune
    <2> QED
      BY <1>7, <2>1, <2>2 DEF Prune
  <1>8. CASE Fail \/ Crash
    <2>1. faults' \in 0 .. MaxFaults /\ job \in Jobs
      BY <1>8, Bounds DEF Fail, Crash
    <2>2. job.day \in 0 .. Nights
      BY <2>1, Bounds DEF Jobs, Days
    <2> QED
      BY <1>8, <2>1, <2>2 DEF Fail, Crash
  <1>9. CASE BackUpByHand
    BY <1>9, Bounds DEF BackUpByHand, Days
  <1>10. ASSUME NEW d \in Days, CopyIn(d) PROVE TypeOK'
    BY <1>10 DEF CopyIn
  <1>11. ASSUME NEW d \in Days, BeginRestore(d) PROVE TypeOK'
    <2>1. restore' \in Restores
      BY <1>11, RestoreGoesOn DEF BeginRestore, Readable, Restores, RestoreSteps
    <2> QED
      BY <1>11, <2>1, Bounds DEF BeginRestore
  <1>12. CASE RestoreStep
    <2>1. restore \in Restores
      BY <1>12 DEF RestoreStep, RestoreDump, ClearMedia, PromoteMedia, Replay, Restoring
    <2>2. restore' \in Restores \cup {Nothing}
      BY <1>12, <2>1, RestoreGoesTyped DEF RestoreStep, RestoreDump, ClearMedia, PromoteMedia, Replay
    <2>3. media' \in [Assets -> Media]
      BY <1>12 DEF RestoreStep, RestoreDump, ClearMedia, PromoteMedia, Replay, Found, Media, OnDisk, HasRow
    <2>4. restore.archive \in Gathered
      BY <2>1 DEF Restores
    <2>5. UNCHANGED <<today, disk, made, job, faults, restores>> /\ alive' \in BOOLEAN
      BY <1>12 DEF RestoreStep, RestoreDump, ClearMedia, PromoteMedia, Replay
    <2>6. /\ ledger' \in {ledger, restore.archive.ledger}
          /\ byHand' \in {byHand, restore.archive.byHand}
          /\ failure' \in {failure, restore.archive.failure}
      BY <1>12 DEF RestoreStep, RestoreDump, ClearMedia, PromoteMedia, Replay
    <2>7. restore.archive.ledger \subseteq made /\ restore.archive.byHand \in 0 .. Nights
          /\ restore.archive.failure \in 0 .. Nights
      BY <1>12, <2>4 DEF RestoreStep, RestoreDump, ClearMedia, PromoteMedia, Replay, Restoring,
                         Gathered, Remembered
    <2> QED
      BY <2>2, <2>3, <2>5, <2>6, <2>7
  <1>13. CASE CutShort
    <2>1. restore' \in Restores
      BY <1>13, RestoreGoesOn DEF CutShort, Restores, RestoreSteps
    <2> QED
      BY <1>13, <2>1, Bounds DEF CutShort
  <1>14. CASE UNCHANGED vars
    BY <1>14 DEF vars
  <1> QED
    BY <1>1, <1>2, <1>3, <1>4, <1>5, <1>6, <1>7, <1>8, <1>9, <1>10, <1>11, <1>12, <1>13, <1>14
    DEF Next, JobStep

LEMMA StepKeepsRemembered ==
  ASSUME TypeOK, Remembered, [Next]_vars
  PROVE  Remembered'
  <1> USE DEF Remembered
  <1>1. ASSUME NEW a \in Assets, Upload(a) \/ Publish(a) \/ Delete(a) \/ Unlink(a) PROVE Remembered'
    BY <1>1 DEF Upload, Publish, Delete, Unlink, Moves, Readable
  <1>2. ASSUME NEW up \in BOOLEAN, Night(up) PROVE Remembered'
    BY <1>2 DEF Night, NoArchive, Readable
  <1>3. CASE Dump
    <2>1. [job.archive EXCEPT !.rows = {a \in Assets : media[a] \in HasRow},
                 !.ledger = ledger, !.byHand = byHand, !.failure = failure] \in Gathered
      BY <1>3 DEF Dump, At, Jobs, Gathered, TypeOK
    <2>2. job \in Jobs /\ job.archive \in Gathered
      BY <1>3 DEF Dump, At, TypeOK, Jobs
    <2>3. job'.archive.ledger = ledger
      BY <1>3, <2>1, <2>2, GoesTyped DEF Dump, At, Gathered
    <2> QED
      BY <1>3, <2>3 DEF Dump, OnEntry, Readable, TypeOK
  <1>4. CASE Tar
    <2>1. [job.archive EXCEPT !.files = {a \in Assets : media[a] \in OnDisk},
               !.tree = MediaRootExists,
               !.purged = {a \in job.archive.rows : media[a] \in {"gone", "broken"}}] \in Gathered
      BY <1>4 DEF Tar, At, Jobs, Gathered, TypeOK, MediaRootExists
    <2>2. job \in Jobs /\ job.archive \in Gathered
      BY <1>4 DEF Tar, At, TypeOK, Jobs
    <2>3. job'.archive.ledger = job.archive.ledger
      BY <1>4, <2>1, <2>2, GoesTyped DEF Tar, At, Gathered
    <2> QED
      BY <1>4, <2>3 DEF Tar, At, Readable
  <1>5. CASE Seal \/ Record
    <2>1. job \in Jobs /\ job.archive \in Gathered /\ job.day \in Days /\ job # Nothing
      BY <1>5 DEF Seal, Record, At, TypeOK, Jobs
    <2>2. job'.archive = job.archive
      BY <1>5, <2>1, GoesTyped DEF Seal, Record, At
    <2> QED
      BY <1>5, <2>1, <2>2 DEF Seal, Record, Readable, TypeOK
  <1>6. CASE Prune
    BY <1>6 DEF Prune, Readable, TypeOK
  <1>7. CASE Fail \/ Crash \/ BackUpByHand
    BY <1>7 DEF Fail, Crash, BackUpByHand, Readable
  <1>8. ASSUME NEW d \in Days, CopyIn(d) PROVE Remembered'
    BY <1>8 DEF CopyIn, Readable, TypeOK
  <1>9. ASSUME NEW d \in Days, BeginRestore(d) PROVE Remembered'
    BY <1>9 DEF BeginRestore, Readable
  <1>10. CASE RestoreStep
    <2>1. restore \in Restores /\ RestoreGoes /\ UNCHANGED <<disk, made, job>>
      BY <1>10 DEF RestoreStep, RestoreDump, ClearMedia, PromoteMedia, Replay, Restoring, TypeOK
    <2> QED
      BY <2>1, RestoreGoesTyped, Placeholders DEF Readable
  <1>11. CASE CutShort
    BY <1>11 DEF CutShort, TypeOK, Restores, Readable
  <1>12. CASE UNCHANGED vars
    BY <1>12 DEF vars, Readable
  <1> QED
    BY <1>1, <1>2, <1>3, <1>4, <1>5, <1>6, <1>7, <1>8, <1>9, <1>10, <1>11, <1>12 DEF Next, JobStep

LEMMA RememberedHolds == Spec => [](TypeOK /\ Remembered)
  <1>1. TypeOK /\ Remembered /\ [Next]_vars => (TypeOK /\ Remembered)'
    BY StepKeepsTypes, StepKeepsRemembered
  <1> QED
    BY <1>1, TypedFromTheStart, PTL DEF Spec

(* Every reachable state is well typed.                                    *)
THEOREM TypesHold == Spec => []TypeOK
  BY RememberedHolds, PTL

-----------------------------------------------------------------------------
(* What a step of the job does to the job.                                 *)

LEMMA DumpDoes ==
  ASSUME TypeOK, Dump
  PROVE  /\ job # Nothing /\ job.step = "dump" /\ job' # Nothing /\ job'.step = "tar"
         /\ job'.day = job.day /\ job'.archive.rows = RowsNow /\ job'.archive.ledger = ledger
         /\ made' = made
         /\ UNCHANGED <<today, media, disk, ledger, byHand, failure, restore, alive>>
  <1>1. [job.archive EXCEPT !.rows = {a \in Assets : media[a] \in HasRow},
               !.ledger = ledger, !.byHand = byHand, !.failure = failure] \in Gathered
    BY DEF Dump, At, Jobs, Gathered, TypeOK
  <1>2. job \in Jobs /\ job.archive \in Gathered /\ job.step = "dump"
    BY DEF Dump, At, TypeOK, Jobs
  <1>3. job'.archive = [job.archive EXCEPT !.rows = {a \in Assets : media[a] \in HasRow},
               !.ledger = ledger, !.byHand = byHand, !.failure = failure]
        /\ job' # Nothing /\ job'.day = job.day /\ job'.step = "tar"
    BY <1>1, <1>2, GoesTyped, JobGoesOn DEF Dump
  <1>4. job'.archive.rows = RowsNow /\ job'.archive.ledger = ledger
    BY <1>2, <1>3 DEF Gathered, RowsNow
  <1> QED
    BY <1>2, <1>3, <1>4 DEF Dump, At, OnEntry, TypeOK

LEMMA TarDoes ==
  ASSUME TypeOK, Tar
  PROVE  /\ job # Nothing /\ job.step = "tar" /\ job' # Nothing /\ job'.step = "seal"
         /\ job'.day = job.day /\ job'.archive.ledger = job.archive.ledger
         /\ job'.archive.rows = job.archive.rows /\ job'.archive.files = FilesNow
         /\ job'.archive.purged = {a \in job.archive.rows : media[a] \in {"gone", "broken"}}
         /\ UNCHANGED <<today, media, disk, ledger, byHand, failure, restore, alive, made>>
  <1>1. [job.archive EXCEPT !.files = {a \in Assets : media[a] \in OnDisk},
               !.tree = MediaRootExists,
               !.purged = {a \in job.archive.rows : media[a] \in {"gone", "broken"}}] \in Gathered
    BY DEF Tar, At, Jobs, Gathered, TypeOK, MediaRootExists
  <1>2. job \in Jobs /\ job.archive \in Gathered /\ job.step = "tar"
    BY DEF Tar, At, TypeOK, Jobs
  <1>3. job'.archive = [job.archive EXCEPT !.files = {a \in Assets : media[a] \in OnDisk},
               !.tree = MediaRootExists,
               !.purged = {a \in job.archive.rows : media[a] \in {"gone", "broken"}}]
        /\ job' # Nothing /\ job'.day = job.day /\ job'.step = "seal"
    BY <1>1, <1>2, GoesTyped, JobGoesOn DEF Tar
  <1>4. /\ job'.archive.ledger = job.archive.ledger /\ job'.archive.rows = job.archive.rows
        /\ job'.archive.files = FilesNow
        /\ job'.archive.purged = {a \in job.archive.rows : media[a] \in {"gone", "broken"}}
    BY <1>2, <1>3 DEF Gathered, FilesNow
  <1> QED
    BY <1>2, <1>3, <1>4 DEF Tar, At

LEMMA SealDoes ==
  ASSUME TypeOK, Seal
  PROVE  /\ job # Nothing /\ job.step = "seal" /\ job' # Nothing /\ job'.step = "record"
         /\ job'.day = job.day /\ job'.archive = job.archive
         /\ job.archive \in Gathered /\ job.day \in Days
         /\ disk' = [disk EXCEPT ![job.day] = job.archive]
         /\ UNCHANGED <<today, media, ledger, byHand, failure, restore, alive, made>>
  <1>1. job \in Jobs /\ job.archive \in Gathered /\ job.step = "seal" /\ job.day \in Days
    BY DEF Seal, At, TypeOK, Jobs
  <1> QED
    BY <1>1, GoesTyped, JobGoesOn DEF Seal, At

LEMMA RecordDoes ==
  ASSUME TypeOK, Record
  PROVE  /\ job # Nothing /\ job.step = "record" /\ job' # Nothing /\ job'.step = "prune"
         /\ job'.day = job.day /\ job'.archive = job.archive /\ job.day \in Days
         /\ \/ ledger' = ledger \cup {job.day} /\ made' = made \cup {job.day}
            \/ UNCHANGED <<ledger, made>>
         /\ UNCHANGED <<today, media, disk, byHand, failure, restore, alive>>
  <1>1. job \in Jobs /\ job.archive \in Gathered /\ job.step = "record" /\ job.day \in Days
    BY DEF Record, At, TypeOK, Jobs
  <1> QED
    BY <1>1, GoesTyped, JobGoesOn DEF Record, At

LEMMA RestoreStepDoes ==
  ASSUME TypeOK, RestoreStep
  PROVE  /\ restore \in Restores /\ restore # Nothing /\ restore.archive \in Gathered
         /\ RestoreGoes /\ UNCHANGED <<today, disk, job, made>>
         /\ restore.step # "replay" => restore' # Nothing /\ restore'.archive = restore.archive
         /\ restore.step = "replay" => restore' = Nothing
         /\ RestoreDump => restore.step = "dump" /\ restore'.step = "media"
         /\ ClearMedia => restore.step = "media" /\ restore'.step = "promote"
         /\ PromoteMedia => restore.step = "promote" /\ restore'.step = "replay"
         /\ Replay => restore.step = "replay"
  <1>1. restore \in Restores /\ restore # Nothing /\ RestoreGoes /\ UNCHANGED <<today, disk, job, made>>
    BY DEF RestoreStep, RestoreDump, ClearMedia, PromoteMedia, Replay, Restoring, TypeOK
  <1>2. /\ RestoreDump => restore.step = "dump"
        /\ ClearMedia => restore.step = "media"
        /\ PromoteMedia => restore.step = "promote"
        /\ Replay => restore.step = "replay"
    BY DEF RestoreDump, ClearMedia, PromoteMedia, Replay, Restoring
  <1> QED
    BY <1>1, <1>2, RestoreGoesTyped, RestoreGoesOn DEF Restores

-----------------------------------------------------------------------------
(* Nothing is recorded ahead of its day; the job and a restore never       *)
(* overlap; the job is tonight's, and what it records and prunes by is     *)
(* already on the disk.                                                    *)
Orderly ==
    /\ made \subseteq 1 .. today
    /\ job # Nothing => restore = Nothing /\ job.day = today
    /\ job # Nothing /\ job.step \in {"record", "prune"} => Readable(job.day)

LEMMA StepKeepsOrderly ==
  ASSUME TypeOK, Orderly, [Next]_vars
  PROVE  Orderly'
  <1> USE DEF Orderly
  <1>1. ASSUME NEW a \in Assets, Upload(a) \/ Publish(a) \/ Delete(a) \/ Unlink(a) PROVE Orderly'
    BY <1>1 DEF Upload, Publish, Delete, Unlink, Moves, Readable
  <1>2. ASSUME NEW up \in BOOLEAN, Night(up) PROVE Orderly'
    <2>1. today \in Nat /\ today' = today + 1
      BY <1>2, Bounds DEF Night, TypeOK, Days
    <2>2. made' \subseteq 1 .. today'
      BY <1>2, <2>1 DEF Night
    <2>3. job' # Nothing => restore' = Nothing /\ job'.day = today' /\ job'.step = "dump"
      BY <1>2, <2>1, JobGoesOn DEF Night
    <2> QED
      BY <2>2, <2>3
  <1>3. CASE Dump
    BY <1>3, DumpDoes
  <1>4. CASE Tar
    BY <1>4, TarDoes
  <1>5. CASE Seal
    BY <1>5, SealDoes, Placeholders DEF Readable, TypeOK
  <1>6. CASE Record
    <2>1. job.day \in 1 .. today
      BY <1>6, RecordDoes, Bounds DEF Days
    <2> QED
      BY <1>6, <2>1, RecordDoes DEF Readable
  <1>7. CASE Prune \/ Fail \/ Crash
    BY <1>7 DEF Prune, Fail, Crash
  <1>8. CASE BackUpByHand
    BY <1>8 DEF BackUpByHand, Readable
  <1>9. ASSUME NEW d \in Days, CopyIn(d) PROVE Orderly'
    BY <1>9 DEF CopyIn, Readable, TypeOK
  <1>10. ASSUME NEW d \in Days, BeginRestore(d) PROVE Orderly'
    BY <1>10 DEF BeginRestore
  <1>11. CASE RestoreStep
    BY <1>11, RestoreStepDoes DEF Readable
  <1>12. CASE CutShort
    BY <1>12 DEF CutShort, Readable
  <1>13. CASE UNCHANGED vars
    BY <1>13 DEF vars, Readable
  <1> QED
    BY <1>1, <1>2, <1>3, <1>4, <1>5, <1>6, <1>7, <1>8, <1>9, <1>10, <1>11, <1>12, <1>13
    DEF Next, JobStep

LEMMA OrderlyHolds == Spec => [](TypeOK /\ Orderly)
  <1>1. Init => Orderly
    BY DEF Init, Orderly
  <1>2. TypeOK /\ Orderly /\ [Next]_vars => Orderly'
    BY StepKeepsOrderly
  <1> QED
    BY <1>1, <1>2, TypesHold, PTL DEF Spec

-----------------------------------------------------------------------------
(* The dump comes before the media tree, so that a row without its file is *)
(* one that was being purged, or that never had one.                       *)
Accounted(archive) == archive.rows \ archive.files \subseteq archive.purged
Complete ==
    /\ job # Nothing /\ job.step = "tar" =>
          \A a \in job.archive.rows : media[a] \in {"live", "broken", "deleted", "gone"}
    /\ job # Nothing /\ job.step = "seal" => Accounted(job.archive)
    /\ \A d \in Days : Readable(d) => Accounted(disk[d])

LEMMA StepKeepsComplete ==
  ASSUME TypeOK, Orderly, Complete, [Next]_vars
  PROVE  Complete'
  <1> USE DEF Complete
  <1>1. ASSUME NEW a \in Assets, Upload(a) \/ Publish(a) \/ Delete(a) \/ Unlink(a) PROVE Complete'
    <2>1. UNCHANGED <<job, disk>>
      BY <1>1 DEF Upload, Publish, Delete, Unlink, Moves
    <2>2. ASSUME NEW b \in Assets, media[b] \in {"live", "broken", "deleted", "gone"}
          PROVE  media'[b] \in {"live", "broken", "deleted", "gone"}
      BY <1>1, <2>2 DEF Upload, Publish, Delete, Unlink, Moves, TypeOK
    <2>3. job # Nothing => job.archive.rows \subseteq Assets
      BY DEF TypeOK, Jobs, Gathered
    <2> QED
      BY <2>1, <2>2, <2>3 DEF Readable, Accounted
  <1>2. ASSUME NEW up \in BOOLEAN, Night(up) PROVE Complete'
    BY <1>2, JobGoesOn DEF Night, Readable, Accounted
  <1>3. CASE Dump
    BY <1>3, DumpDoes DEF RowsNow, HasRow, Readable, Accounted
  <1>4. CASE Tar
    <2>1. Accounted(job'.archive)
      BY <1>4, TarDoes DEF FilesNow, OnDisk, Accounted, TypeOK, Jobs, Gathered
    <2> QED
      BY <1>4, <2>1, TarDoes DEF Readable, Accounted
  <1>5. CASE Seal
    BY <1>5, SealDoes DEF Readable, Accounted, TypeOK
  <1>6. CASE Record
    BY <1>6, RecordDoes DEF Readable, Accounted
  <1>7. CASE Prune
    BY <1>7 DEF Prune, Readable, Accounted, TypeOK
  <1>8. CASE Fail \/ Crash \/ BackUpByHand
    BY <1>8 DEF Fail, Crash, BackUpByHand, Readable, Accounted
  <1>9. ASSUME NEW d \in Days, CopyIn(d) PROVE Complete'
    BY <1>9 DEF CopyIn, Readable, Accounted, TypeOK
  <1>10. ASSUME NEW d \in Days, BeginRestore(d) PROVE Complete'
    BY <1>10 DEF BeginRestore, Readable, Accounted
  <1>11. CASE RestoreStep
    <2>1. job = Nothing /\ UNCHANGED <<job, disk>>
      BY <1>11, RestoreStepDoes DEF Orderly
    <2> QED
      BY <2>1 DEF Readable, Accounted
  <1>12. CASE CutShort
    BY <1>12 DEF CutShort, Readable, Accounted
  <1>13. CASE UNCHANGED vars
    BY <1>13 DEF vars, Readable, Accounted
  <1> QED
    BY <1>1, <1>2, <1>3, <1>4, <1>5, <1>6, <1>7, <1>8, <1>9, <1>10, <1>11, <1>12, <1>13
    DEF Next, JobStep

(* Whatever the family uploads, deletes and purges while the archive is    *)
(* made: a row in an archive has its file there, or was being purged.      *)
THEOREM ArchivesHoldTheirPictures == Spec => []ArchiveHoldsItsPictures
  <1>1. Init => Complete
    BY DEF Init, Complete, Readable
  <1>2. TypeOK /\ Orderly /\ Complete /\ [Next]_vars => Complete'
    BY StepKeepsComplete
  <1>3. Complete => ArchiveHoldsItsPictures
    BY DEF Complete, ArchiveHoldsItsPictures, Readable, Accounted
  <1> QED
    BY <1>1, <1>2, <1>3, OrderlyHolds, PTL DEF Spec

-----------------------------------------------------------------------------
(* The restore, step by step: what each leaves is what the next relies on, *)
(* and to be cut short only sends it back to the first.                    *)
MediaIs(rows, files) == media = [a \in Assets |-> Found(a, rows, files)]
OnItsWay ==
    restore # Nothing =>
      LET archive == restore.archive IN
      /\ restore.step = "media" => MediaIs(archive.rows, FilesNow)
      /\ restore.step = "promote" =>
            MediaIs(archive.rows, IF archive.tree THEN {} ELSE FilesNow)
      /\ restore.step = "replay" => MediaIs(archive.rows, FilesAfter(archive))

(* Rows and files that were put together are found again.                  *)
LEMMA FoundAgain ==
  ASSUME NEW rows \in SUBSET Assets, NEW files \in SUBSET Assets, NEW m,
         m = [a \in Assets |-> Found(a, rows, files)]
  PROVE  /\ {a \in Assets : m[a] \in HasRow} = rows
         /\ {a \in Assets : m[a] \in OnDisk} = files
  BY DEF Found, HasRow, OnDisk

(* Each step leaves what the next expects; without a media tree in the     *)
(* archive, no step takes a file away.                                     *)
LEMMA RestoreStepFinds ==
  ASSUME TypeOK, OnItsWay, RestoreStep
  PROVE  /\ OnItsWay'
         /\ ~restore.archive.tree => FilesNow' = FilesNow
  <1> DEFINE archive == restore.archive
  <1>1. archive.rows \in SUBSET Assets /\ archive.files \in SUBSET Assets
    BY RestoreStepDoes DEF Gathered
  <1>2. FilesNow \in SUBSET Assets
    BY DEF FilesNow
  <1>3. CASE RestoreDump
    <2>1. /\ restore' # Nothing /\ restore'.step = "media" /\ restore'.archive = archive
          /\ media' = [a \in Assets |-> Found(a, archive.rows, FilesNow)]
      BY <1>3, RestoreStepDoes DEF RestoreStep, RestoreDump
    <2>2. FilesNow' = FilesNow
      BY <1>1, <1>2, <2>1, FoundAgain DEF FilesNow
    <2> QED
      BY <2>1, <2>2 DEF OnItsWay, MediaIs
  <1>4. CASE ClearMedia
    <2>1. /\ restore' # Nothing /\ restore'.step = "promote" /\ restore'.archive = archive
          /\ restore # Nothing /\ restore.step = "media"
          /\ media' = IF archive.tree THEN [a \in Assets |-> Found(a, RowsNow, {})] ELSE media
      BY <1>4, RestoreStepDoes DEF RestoreStep, ClearMedia
    <2>2. MediaIs(archive.rows, FilesNow)
      BY <2>1 DEF OnItsWay
    <2>3. RowsNow = archive.rows
      BY <1>1, <1>2, <2>2, FoundAgain DEF MediaIs, RowsNow
    <2>4. CASE archive.tree
      BY <2>1, <2>3, <2>4 DEF OnItsWay, MediaIs
    <2>5. CASE ~archive.tree
      <3>1. media' = media /\ FilesNow' = FilesNow
        BY <2>1, <2>5 DEF FilesNow
      <3> QED
        BY <2>1, <2>2, <2>5, <3>1 DEF OnItsWay, MediaIs
    <2> QED
      BY <2>4, <2>5
  <1>5. CASE PromoteMedia
    <2>1. /\ restore' # Nothing /\ restore'.step = "replay" /\ restore'.archive = archive
          /\ restore # Nothing /\ restore.step = "promote"
          /\ media' = IF archive.tree
                      THEN [a \in Assets |-> Found(a, RowsNow, archive.files)] ELSE media
      BY <1>5, RestoreStepDoes DEF RestoreStep, PromoteMedia
    <2>2. MediaIs(archive.rows, IF archive.tree THEN {} ELSE FilesNow)
      BY <2>1 DEF OnItsWay
    <2>3. RowsNow = archive.rows
      BY <1>1, <1>2, <2>2, FoundAgain DEF MediaIs, RowsNow
    <2>4. CASE archive.tree
      BY <2>1, <2>3, <2>4 DEF OnItsWay, MediaIs, FilesAfter
    <2>5. CASE ~archive.tree
      <3>1. media' = media /\ FilesNow' = FilesNow
        BY <2>1, <2>5 DEF FilesNow
      <3> QED
        BY <2>1, <2>2, <2>5, <3>1 DEF OnItsWay, MediaIs, FilesAfter
    <2> QED
      BY <2>4, <2>5
  <1>6. CASE Replay
    <2>1. restore' = Nothing /\ media' = media
      BY <1>6, RestoreStepDoes DEF RestoreStep, Replay
    <2> QED
      BY <2>1 DEF OnItsWay, FilesNow
  <1> QED
    BY <1>3, <1>4, <1>5, <1>6 DEF RestoreStep

LEMMA StepKeepsOnItsWay ==
  ASSUME TypeOK, Orderly, OnItsWay, [Next]_vars
  PROVE  OnItsWay'
  <1> USE DEF OnItsWay
  <1>1. ASSUME NEW a \in Assets, Upload(a) \/ Publish(a) \/ Delete(a) \/ Unlink(a) PROVE OnItsWay'
    BY <1>1 DEF Upload, Publish, Delete, Unlink, Moves
  <1>2. ASSUME NEW up \in BOOLEAN, Night(up) PROVE OnItsWay'
    BY <1>2 DEF Night
  <1>3. CASE Dump \/ Tar \/ Seal \/ Record \/ Prune \/ Fail \/ Crash \/ BackUpByHand
    <2>1. UNCHANGED <<media, restore>>
      BY <1>3 DEF Dump, Tar, Seal, Record, Prune, Fail, Crash, BackUpByHand
    <2> QED
      BY <2>1 DEF MediaIs, FilesNow, FilesAfter
  <1>4. ASSUME NEW d \in Days, CopyIn(d) PROVE OnItsWay'
    BY <1>4 DEF CopyIn
  <1>5. ASSUME NEW d \in Days, BeginRestore(d) PROVE OnItsWay'
    BY <1>5, RestoreGoesOn DEF BeginRestore
  <1>6. CASE RestoreStep
    BY <1>6, RestoreStepFinds
  <1>7. CASE CutShort
    BY <1>7, RestoreGoesOn DEF CutShort, TypeOK, Restores
  <1>8. CASE UNCHANGED vars
    BY <1>8 DEF vars, MediaIs, FilesNow, FilesAfter
  <1> QED
    BY <1>1, <1>2, <1>3, <1>4, <1>5, <1>6, <1>7, <1>8 DEF Next, JobStep

(* However often it is cut short: a restore that ends, ends with the       *)
(* archive's rows and no credential of it alive, and with the archive's    *)
(* files, or, if the archive has no media tree, with every file it found.  *)
THEOREM RestoresComeRight == Spec => [][RestoredRight]_vars
  <1>1. Init => OnItsWay
    BY DEF Init, OnItsWay
  <1>2. TypeOK /\ Orderly /\ OnItsWay /\ [Next]_vars => OnItsWay'
    BY StepKeepsOnItsWay
  <1>3. TypeOK /\ Orderly /\ OnItsWay /\ [Next]_vars => [RestoredRight]_vars
    <2> SUFFICES ASSUME TypeOK, Orderly, OnItsWay, Next, restore # Nothing
                 PROVE  RestoredRight
      BY DEF RestoredRight
    <2>1. CASE RestoreStep
      <3>1. ~restore.archive.tree => FilesNow' = FilesNow
        BY <2>1, RestoreStepFinds
      <3>2. ASSUME restore' = Nothing
            PROVE  /\ ~alive'
                   /\ media' = [a \in Assets |-> Found(a, restore.archive.rows,
                                                       FilesAfter(restore.archive))]
        <4>1. Replay /\ restore.step = "replay"
          BY <2>1, <3>2, RestoreStepDoes DEF RestoreStep
        <4> QED
          BY <4>1 DEF Replay, OnItsWay, MediaIs
      <3> QED
        BY <3>1, <3>2 DEF RestoredRight
    <2>2. CASE CutShort
      <3>1. restore \in Restores /\ [restore EXCEPT !.step = "dump"] \in Restores
        BY DEF TypeOK, Restores, RestoreSteps
      <3>2. restore' # Nothing /\ media' = media
        BY <2>2, <3>1, RestoreGoesOn, Placeholders DEF CutShort
      <3> QED
        BY <3>2 DEF RestoredRight, FilesNow
    <2>3. CASE UNCHANGED <<restore, media>>
      BY <2>3 DEF RestoredRight, FilesNow
    <2>4. UNCHANGED <<restore, media>> \/ RestoreStep \/ CutShort
      BY DEF Next, JobStep, Upload, Publish, Delete, Unlink, Moves, Night, Dump, Tar,
         Seal, Record, Prune, Fail, Crash, BackUpByHand, CopyIn, BeginRestore
    <2> QED
      BY <2>1, <2>2, <2>3, <2>4
  <1> QED
    BY <1>1, <1>2, <1>3, OrderlyHolds, PTL DEF Spec

-----------------------------------------------------------------------------
(* Retention.  An archive is needed if it is one of the newest days, or    *)
(* the last of one of the newest weeks, of a given set of days; with fewer *)
(* days to compare it with, it is needed all the more.                     *)
LaterIn(d, days) == {e \in days : e > d}
Weeks(days) == {Week(e) : e \in days}
NeededIn(d, days) ==
    \/ Cardinality(LaterIn(d, days)) < KeepDaily
    \/ /\ \A e \in LaterIn(d, days) : Week(e) # Week(d)
       /\ Cardinality(Weeks(LaterIn(d, days))) < KeepWeekly

LEMMA DaysAreFinite == ASSUME NEW days \in SUBSET Days PROVE IsFiniteSet(days)
  <1>1. IsFiniteSet(Days)
    BY FS_Interval, Bounds DEF Days
  <1> QED
    BY <1>1, FS_Subset

LEMMA WeeksAreFinite == ASSUME NEW days \in SUBSET Days PROVE IsFiniteSet(Weeks(days))
  <1> DEFINE f == [e \in days |-> Week(e)]
  <1>1. f \in Surjection(days, Weeks(days))
    BY DEF Surjection, Weeks
  <1> QED
    BY <1>1, DaysAreFinite, FS_Surjection

LEMMA NeededAmongFewer ==
  ASSUME NEW few \in SUBSET Days, NEW many \in SUBSET Days, few \subseteq many,
         NEW d \in Days, NeededIn(d, many)
  PROVE  NeededIn(d, few)
  <1>1. LaterIn(d, few) \subseteq LaterIn(d, many) /\ LaterIn(d, many) \in SUBSET Days
    BY DEF LaterIn
  <1>2. Weeks(LaterIn(d, few)) \subseteq Weeks(LaterIn(d, many))
    BY <1>1 DEF Weeks
  <1>3. /\ Cardinality(LaterIn(d, few)) \in Nat /\ Cardinality(LaterIn(d, many)) \in Nat
        /\ Cardinality(LaterIn(d, few)) <= Cardinality(LaterIn(d, many))
    BY <1>1, DaysAreFinite, FS_Subset, FS_CardinalityType
  <1>4. /\ Cardinality(Weeks(LaterIn(d, few))) \in Nat /\ Cardinality(Weeks(LaterIn(d, many))) \in Nat
        /\ Cardinality(Weeks(LaterIn(d, few))) <= Cardinality(Weeks(LaterIn(d, many)))
    BY <1>1, <1>2, WeeksAreFinite, FS_Subset, FS_CardinalityType
  <1> QED
    BY <1>1, <1>3, <1>4, Bounds DEF NeededIn

(* prune() keeps what is needed among the archives it looks at.            *)
LEMMA NeededIsKept ==
  ASSUME NEW days \in SUBSET Days, NEW d \in days, NeededIn(d, days)
  PROVE  d \in Kept(days)
  <1>1. CASE Cardinality(LaterIn(d, days)) < KeepDaily
    BY <1>1 DEF Kept, Newest, LaterIn
  <1>2. CASE /\ \A e \in LaterIn(d, days) : Week(e) # Week(d)
             /\ Cardinality(Weeks(LaterIn(d, days))) < KeepWeekly
    <2> DEFINE lasts == {e \in LastsOfWeek(days) : e > d}
               f == [e \in lasts |-> Week(e)]
    <2>1. d \in Nat /\ days \subseteq Nat
      BY DEF Days
    <2>2. d \in LastsOfWeek(days)
      BY <1>2, <2>1 DEF LastsOfWeek, LaterIn
    <2>3. lasts \subseteq LaterIn(d, days) /\ LaterIn(d, days) \in SUBSET Days
      BY DEF LastsOfWeek, LaterIn
    <2>4. f \in [lasts -> Weeks(LaterIn(d, days))]
      BY <2>3 DEF Weeks
    <2>5. ASSUME NEW x \in lasts, NEW y \in lasts, f[x] = f[y] PROVE x = y
      <3>1. x <= y /\ y <= x
        BY <2>5 DEF LastsOfWeek
      <3>2. x \in Nat /\ y \in Nat
        BY <2>1 DEF LastsOfWeek
      <3> QED
        BY <3>1, <3>2
    <2>6. f \in Injection(lasts, Weeks(LaterIn(d, days)))
      BY <2>4, <2>5 DEF Injection, IsInjective
    <2>7. Cardinality(lasts) <= Cardinality(Weeks(LaterIn(d, days)))
      BY <2>3, <2>6, WeeksAreFinite, FS_Injection
    <2>8. Cardinality(lasts) \in Nat /\ Cardinality(Weeks(LaterIn(d, days))) \in Nat
      BY <2>3, DaysAreFinite, WeeksAreFinite, FS_CardinalityType DEF LaterIn
    <2>9. Cardinality(lasts) < KeepWeekly
      BY <1>2, <2>7, <2>8, Bounds
    <2> QED
      BY <2>2, <2>9 DEF Kept, Newest
  <1> QED
    BY <1>1, <1>2 DEF NeededIn

LEMMA RetentionRestated ==
  RetentionKeeps <=> \A d \in made : NeededIn(d, made) => disk[d] # Nothing
  BY DEF RetentionKeeps, NeededIn, LaterIn, Later, Weeks

LEMMA StepKeepsRetention ==
  ASSUME TypeOK, TypeOK', Orderly, RetentionKeeps, [Next]_vars
  PROVE  RetentionKeeps'
  <1> SUFFICES \A d \in made' : NeededIn(d, made') => disk'[d] # Nothing
    BY DEF RetentionKeeps, NeededIn, LaterIn, Later, Weeks
  <1>0. /\ \A d \in made : NeededIn(d, made) => disk[d] # Nothing
        /\ made \subseteq Days /\ ledger \subseteq made
    BY RetentionRestated DEF TypeOK
  <1>1. CASE Record
    <2>1. CASE UNCHANGED made
      BY <1>0, <1>1, <2>1, RecordDoes
    <2>2. CASE made' = made \cup {job.day}
      <3>1. disk' = disk /\ disk[job.day] # Nothing /\ job.day \in Days
        BY <1>1, RecordDoes DEF Orderly, Readable
      <3>2. ASSUME NEW d \in made, NeededIn(d, made') PROVE NeededIn(d, made)
        BY <1>0, <2>2, <3>1, <3>2, NeededAmongFewer
      <3> QED
        BY <1>0, <2>2, <3>1, <3>2
    <2> QED
      BY <1>1, <2>1, <2>2, RecordDoes
  <1>2. CASE Prune
    <2> SUFFICES ASSUME NEW d \in made, NeededIn(d, made), disk[d] # Nothing
                 PROVE  disk'[d] # Nothing
      BY <1>0, <1>2 DEF Prune
    <2>1. Ours \subseteq made
      BY <1>0 DEF Ours
    <2>2. d \in Ours => d \in Kept(Ours)
      <3>1. NeededIn(d, Ours)
        BY <1>0, <2>1, NeededAmongFewer
      <3> QED
        BY <1>0, <2>1, <3>1, NeededIsKept
    <2> QED
      BY <1>0, <1>2, <2>2 DEF Prune
  <1>3. CASE Seal
    BY <1>0, <1>3, SealDoes, Placeholders DEF TypeOK
  <1>4. ASSUME NEW d \in Days, CopyIn(d) PROVE \A e \in made' : NeededIn(e, made') => disk'[e] # Nothing
    BY <1>0, <1>4, SeparateAssumption DEF CopyIn, TypeOK
  <1>5. CASE UNCHANGED <<made, disk>>
    BY <1>0, <1>5
  <1>6. CASE Dump
    BY <1>0, <1>6, DumpDoes
  <1> QED
    BY <1>1, <1>2, <1>3, <1>4, <1>5, <1>6 DEF Next, JobStep, RestoreStep, vars,
       Upload, Publish, Delete, Unlink, Moves, Night, Tar, Fail, Crash, BackUpByHand, BeginRestore,
       RestoreDump, ClearMedia, PromoteMedia, Replay, CutShort

(* Of all the archives ever recorded, whatever was restored since: the     *)
(* newest days, and the newest of each of the newest weeks, are there.     *)
THEOREM RetentionHolds == Spec => []RetentionKeeps
  <1>1. Init => RetentionKeeps
    BY DEF Init, RetentionKeeps
  <1>2. TypeOK /\ TypeOK' /\ Orderly /\ RetentionKeeps /\ [Next]_vars => RetentionKeeps'
    BY StepKeepsRetention
  <1> QED
    BY <1>1, <1>2, TypesHold, OrderlyHolds, PTL DEF Spec

-----------------------------------------------------------------------------
(* What the ledger says last is not newer than an archive on the disk,     *)
(* also after a restore: an archive knows of nothing newer than itself.    *)
HasNewest(days) == days = {} \/ \E d \in days : \A e \in days : e <= d
Dated(archive, d) == (\A e \in archive.ledger : e <= d) /\ HasNewest(archive.ledger)
Honest ==
    /\ HasNewest(ledger)
    /\ ledger # {} => \E d \in Days : Readable(d) /\ \A e \in ledger : e <= d
    /\ job # Nothing /\ job.step # "dump" => Dated(job.archive, job.day)
    /\ \A d \in Days : Readable(d) => Dated(disk[d], d)
    /\ restore # Nothing => \E d \in Days : Readable(d) /\ restore.archive = disk[d]

(* prune() never takes the newest of the archives that it looks at.        *)
LEMMA NewestIsKept ==
  ASSUME NEW days \in SUBSET Days, NEW d \in days, \A e \in days : e <= d
  PROVE  d \in Kept(days)
  <1>1. \A e \in days : ~(e > d)
    BY DEF Days
  <1>2. {e \in days : e > d} = {}
    BY <1>1
  <1>3. Cardinality({e \in days : e > d}) = 0
    BY <1>2, FS_EmptySet
  <1> QED
    BY <1>3, Bounds DEF Kept, Newest

LEMMA StepKeepsHonest ==
  ASSUME TypeOK, Orderly, Honest, [Next]_vars
  PROVE  Honest'
  <1> USE DEF Honest
  <1>0. ledger \subseteq made /\ made \subseteq 1 .. today /\ today \in Nat /\ made \subseteq Nat
    BY DEF TypeOK, Orderly, Days
  <1>a. \A e \in ledger : e <= today
    BY <1>0
  <1>1. ASSUME NEW a \in Assets, Upload(a) \/ Publish(a) \/ Delete(a) \/ Unlink(a) PROVE Honest'
    BY <1>1 DEF Upload, Publish, Delete, Unlink, Moves, Readable, Dated, HasNewest
  <1>2. ASSUME NEW up \in BOOLEAN, Night(up) PROVE Honest'
    BY <1>2, JobGoesOn DEF Night, Readable, Dated, HasNewest
  <1>3. CASE Dump
    <2>1. Dated(job'.archive, job'.day)
      BY <1>a, <1>3, DumpDoes DEF Dated, Orderly
    <2> QED
      BY <1>3, <2>1, DumpDoes DEF Readable, Dated, HasNewest
  <1>4. CASE Tar
    BY <1>4, TarDoes DEF Readable, Dated, HasNewest
  <1>5. CASE Seal
    <2>1. disk'[job.day] \notin {Nothing, Foreign} /\ \A d \in Days : d # job.day => disk'[d] = disk[d]
      BY <1>5, SealDoes, Placeholders DEF Readable, TypeOK
    <2>2. \A d \in Days : Readable(d) => Readable(d)'
      BY <2>1 DEF Readable
    <2>3. \A d \in Days : Readable(d)' => Dated(disk[d], d)'
      BY <1>5, <2>1, SealDoes DEF Readable, Dated, HasNewest, TypeOK
    <2>4. restore' = Nothing
      BY <1>5, SealDoes DEF Orderly
    <2> QED
      BY <1>5, <2>2, <2>3, <2>4, SealDoes DEF Dated, HasNewest
  <1>6. CASE Record
    <2>1. job.day = today /\ Readable(job.day) /\ job.day \in Days
      BY <1>6, RecordDoes DEF Orderly
    <2>2. CASE UNCHANGED ledger
      BY <1>6, <2>2, RecordDoes DEF Readable, Dated, HasNewest
    <2>3. CASE ledger' = ledger \cup {job.day}
      <3>1. ASSUME NEW e \in ledger' PROVE e <= job.day
        <4>1. CASE e \in ledger
          BY <1>a, <2>1, <4>1
        <4>2. CASE e = job.day
          BY <1>0, <2>1, <4>2
        <4> QED
          BY <2>3, <4>1, <4>2
      <3>2. HasNewest(ledger)' /\ \E d \in Days : Readable(d) /\ \A e \in ledger' : e <= d
        BY <2>1, <2>3, <3>1 DEF HasNewest
      <3> QED
        BY <1>6, <3>2, RecordDoes DEF Readable, Dated, HasNewest
    <2> QED
      BY <1>6, <2>2, <2>3, RecordDoes
  <1>7. CASE Prune
    <2>1. job' = Nothing /\ restore' = Nothing /\ UNCHANGED ledger
      BY <1>7 DEF Prune, At, Orderly
    <2>2. \A d \in Days : disk'[d] \in {disk[d], Nothing}
      BY <1>7 DEF Prune
    <2>3. \A d \in Days : d \notin Ours \/ d \in Kept(Ours) => disk'[d] = disk[d]
      BY <1>7 DEF Prune
    <2>4. ASSUME NEW d \in Days, Readable(d), \A e \in ledger : e <= d PROVE disk'[d] = disk[d]
      <3>1. CASE d \in Ours
        <4>1. Ours \in SUBSET Days /\ \A e \in Ours : e <= d
          BY <2>4 DEF Ours, TypeOK
        <4> QED
          BY <2>3, <3>1, <4>1, NewestIsKept
      <3> QED
        BY <2>3, <3>1
    <2>5. ledger' # {} => \E d \in Days : Readable(d)' /\ \A e \in ledger' : e <= d
      BY <2>1, <2>4 DEF Readable
    <2>6. \A d \in Days : Readable(d)' => Dated(disk[d], d)'
      BY <2>2 DEF Readable, Dated, HasNewest
    <2> QED
      BY <2>1, <2>5, <2>6 DEF HasNewest
  <1>8. CASE Fail \/ Crash \/ BackUpByHand
    BY <1>8 DEF Fail, Crash, BackUpByHand, Readable, Dated, HasNewest
  <1>9. ASSUME NEW c \in Days, CopyIn(c) PROVE Honest'
    <2>1. \A d \in Days : Readable(d) <=> Readable(d)'
      BY <1>9 DEF CopyIn, Readable, TypeOK
    <2>2. \A d \in Days : Readable(d) => disk'[d] = disk[d]
      BY <1>9 DEF CopyIn, Readable, TypeOK
    <2> QED
      BY <1>9, <2>1, <2>2 DEF CopyIn, Dated, HasNewest
  <1>10. ASSUME NEW c \in Days, BeginRestore(c) PROVE Honest'
    BY <1>10 DEF BeginRestore, Readable, Dated, HasNewest
  <1>11. CASE RestoreStep
    <2>1. /\ UNCHANGED <<disk, job>> /\ restore # Nothing
          /\ restore' # Nothing => restore'.archive = restore.archive
      BY <1>11, RestoreStepDoes DEF Restores
    <2>2. ledger' \in {ledger, restore.archive.ledger}
      BY <1>11 DEF RestoreStep, RestoreDump, ClearMedia, PromoteMedia, Replay
    <2>3. PICK d \in Days : Readable(d) /\ restore.archive = disk[d]
      BY <2>1
    <2>4. Dated(restore.archive, d)
      BY <2>3
    <2>5. HasNewest(ledger') /\ (ledger' # {} => \E c \in Days : Readable(c) /\ \A e \in ledger' : e <= c)
      BY <2>2, <2>3, <2>4 DEF Dated
    <2> QED
      BY <2>1, <2>5 DEF Readable, Dated, HasNewest
  <1>12. CASE CutShort
    BY <1>12 DEF CutShort, TypeOK, Restores, Readable, Dated, HasNewest
  <1>13. CASE UNCHANGED vars
    BY <1>13 DEF vars, Readable, Dated, HasNewest
  <1> QED
    BY <1>1, <1>2, <1>3, <1>4, <1>5, <1>6, <1>7, <1>8, <1>9, <1>10, <1>11, <1>12, <1>13
    DEF Next, JobStep

(* When neither line of the health mail alarms, a backup that young was    *)
(* made by hand or is on the disk.                                         *)
THEOREM HealthTellsTheTruth == Spec => []HealthIsHonest
  <1>1. Init => Honest
    BY DEF Init, Honest, HasNewest, Readable
  <1>2. TypeOK /\ Orderly /\ Honest /\ [Next]_vars => Honest'
    BY StepKeepsHonest
  <1>3. TypeOK /\ Honest => HealthIsHonest
    <2> SUFFICES ASSUME TypeOK, Honest, ~LastBackupAlarms, ~ScheduledAlarms
                 PROVE  \/ byHand # 0 /\ today - byHand < StaleDays
                        \/ \E d \in Days : disk[d] \notin {Nothing, Foreign} /\ today - d < StaleDays
      BY DEF HealthIsHonest
    <2> DEFINE days == ledger \cup {byHand}
    <2>1. ledger \subseteq Nat /\ byHand \in Nat /\ today \in Nat
      BY DEF TypeOK, Days
    <2>2. \E d \in days : \A e \in days : d >= e
      <3>1. CASE ledger = {}
        BY <2>1, <3>1
      <3>2. CASE ledger # {}
        <4>1. PICK d \in ledger : \A e \in ledger : e <= d
          BY <3>2 DEF Honest, HasNewest
        <4>2. d \in Nat /\ (d >= byHand \/ byHand >= d)
          BY <2>1, <4>1
        <4> QED
          BY <2>1, <4>1, <4>2
      <3> QED
        BY <3>1, <3>2
    <2>3. LastBackup \in days /\ \A e \in days : LastBackup >= e
      BY <2>2 DEF LastBackup, Latest, Max
    <2>4. LastBackup # 0 /\ today - LastBackup < StaleDays
      BY <2>1, <2>3, Bounds DEF LastBackupAlarms
    <2>5. CASE LastBackup = byHand
      BY <2>4, <2>5
    <2>6. CASE LastBackup \in ledger
      <3>1. PICK d \in Days : Readable(d) /\ LastBackup <= d
        BY <2>6 DEF Honest
      <3>2. today - d < StaleDays
        BY <2>1, <2>4, <2>6, <3>1, Bounds DEF Days
      <3> QED
        BY <3>1, <3>2 DEF Readable
    <2> QED
      BY <2>3, <2>5, <2>6
  <1> QED
    BY <1>1, <1>2, <1>3, TypesHold, OrderlyHolds, PTL DEF Spec

-----------------------------------------------------------------------------
(* Instance: first-run setup, and the watch kept over what expires.        *)

LEMMA WatchBounds == Life \in Nat /\ Warn \in Nat /\ Warn < Life
  BY InstanceBounds

(* The parts of InstanceNext that leave the wizard, and the watch, alone.          *)
RosterStep ==
    \/ \E p \in People : Join(p) \/ MakeEdit(p) \/ Subscribe(p)
    \/ \E actor \in People, target \in People, as \in {"member", "side admin", "admin", "gone"} :
          OpenEdit(actor, target, as)

WatchStep ==
    \/ Day \/ SendHealth \/ SendCutShort
    \/ \E w \in Things : LookUp(w) \/ Renew(w)
    \/ \E n \in Names : Rename(n)
    \/ \E says \in {"copied", "trouble"} : Copy(says)

SetupStep ==
    \/ Boot \/ ContainerDies \/ ClearHandover
    \/ \E f \in Forms :
          \/ \E p \in People, secret \in 0 .. minted : SendForm(f, p, secret)
          \/ LockToken(f) \/ CreateAdmin(f)

LEMMA Steps == [InstanceNext]_instanceVars => SetupStep \/ RosterStep \/ WatchStep \/ UNCHANGED instanceVars
  BY DEF InstanceNext, SetupStep, RosterStep, WatchStep

LEMMA RosterLeaves == RosterStep => UNCHANGED <<setup, watch, founders>>
  BY DEF RosterStep, Join, MakeEdit, Subscribe, OpenEdit

LEMMA WatchLeaves == WatchStep => UNCHANGED <<setup, roster>>
  BY DEF WatchStep, Day, SendHealth, SendCutShort, SendTo, LookUp, Learn, Renew, Rename, Copy

LEMMA SetupLeaves == SetupStep => UNCHANGED watch
  BY DEF SetupStep, Boot, BootClosed, BootHash, BootHandOver, ContainerDies, ClearHandover, SendForm, LockToken,
         CreateAdmin

-----------------------------------------------------------------------------
(* Setup.                                                                  *)

(* One form at most is past the lock, and none once there is an admin; a   *)
(* container that is not up serves no form; and a secret is in the file    *)
(* from the end of the boot that hashed it.                                *)
SetupInv ==
    /\ minted \in Nat
    /\ form = [f \in Forms |-> form[f]]
    /\ \A f \in Forms : form[f].at = "open" =>
          founders = {} /\ \A g \in Forms \ {f} : form[g].at # "open"
    /\ server # "up" => \A f \in Forms : form[f] = Blank
    /\ clearing => founders # {}
    /\ server = "hashed" => founders = {} /\ token = minted /\ minted # 0
    /\ server = "up" /\ founders = {} => file = token /\ file # 0
    /\ server \in {"down", "hashed", "up"}
    /\ founders = {} \/ \E p : founders = {p}

LEMMA SetupHolds == InstanceSpec => []SetupInv
  <1>1. InstanceInit => SetupInv
    BY DEF InstanceInit, SetupInv, Blank
  <1>2. SetupInv /\ [InstanceNext]_instanceVars => SetupInv'
    <2> SUFFICES ASSUME SetupInv, [InstanceNext]_instanceVars PROVE SetupInv'
      OBVIOUS
    <2>0. Blank.at # "open"
      BY DEF Blank
    <2>1. CASE UNCHANGED <<setup, founders>>
      BY <2>1 DEF SetupInv, setup
    <2>2. CASE BootClosed
      BY <2>2 DEF SetupInv, BootClosed, roster
    <2>3. CASE BootHash
      BY <2>3 DEF SetupInv, BootHash, Rehashed, roster
    <2>4. CASE BootHandOver
      BY <2>4 DEF SetupInv, BootHandOver, roster
    <2>5. CASE ContainerDies
      <3>1. form' = [f \in Forms |-> Blank] /\ server' = "down" /\ ~ clearing'
        BY <2>5 DEF ContainerDies
      <3>2. UNCHANGED <<minted, token, founders>>
        BY <2>5 DEF ContainerDies
      <3> QED
        BY <2>0, <3>1, <3>2 DEF SetupInv
    <2>6. CASE ClearHandover
      BY <2>6 DEF SetupInv, ClearHandover, roster
    <2>7. ASSUME NEW f \in Forms, NEW p, NEW secret, SendForm(f, p, secret) PROVE SetupInv'
      <3> DEFINE x == [at |-> "sent", secret |-> secret, who |-> p]
      <3>0. form' = [form EXCEPT ![f] = x] /\ x.at = "sent"
        BY <2>7 DEF SendForm
      <3> HIDE DEF x
      <3>1. \A g \in Forms : form'[g] = IF g = f THEN x ELSE form[g]
        BY <3>0 DEF SetupInv
      <3>2. form' = [g \in Forms |-> form'[g]]
        BY <2>7 DEF SendForm, SetupInv
      <3>3. server = "up" /\ UNCHANGED <<server, minted, token, file, clearing, founders>>
        BY <2>7 DEF SendForm, roster
      <3> QED
        BY <3>0, <3>1, <3>2, <3>3 DEF SetupInv
    <2>8. ASSUME NEW f \in Forms, LockToken(f) PROVE SetupInv'
      <3>1. PICK x : form' = [form EXCEPT ![f] = x] /\
                     (x = Blank \/ (founders = {} /\ \A g \in Forms \ {f} : form[g].at # "open"))
        BY <2>8 DEF LockToken, Unlocked
      <3>2. \A g \in Forms : form'[g] = IF g = f THEN x ELSE form[g]
        BY <3>1 DEF SetupInv
      <3>3. form' = [g \in Forms |-> form'[g]]
        BY <3>1 DEF SetupInv
      <3>4. UNCHANGED <<server, minted, token, file, clearing, founders>>
        BY <2>8 DEF LockToken, roster
      <3>5. server = "up"
        BY <2>0, <2>8 DEF LockToken, SetupInv, Blank
      <3> QED
        BY <2>0, <3>1, <3>2, <3>3, <3>4, <3>5 DEF SetupInv
    <2>9. ASSUME NEW f \in Forms, CreateAdmin(f) PROVE SetupInv'
      <3>1. founders = {} /\ \A g \in Forms \ {f} : form[g].at # "open"
        BY <2>9 DEF CreateAdmin, SetupInv
      <3>2. \A g \in Forms : form'[g] = IF g = f THEN Blank ELSE form[g]
        BY <2>9 DEF CreateAdmin, SetupInv
      <3>3. form' = [g \in Forms |-> form'[g]]
        BY <2>9 DEF CreateAdmin, SetupInv
      <3>4. founders' = {form[f].who}
        BY <2>9, <3>1 DEF CreateAdmin
      <3>5. UNCHANGED <<server, minted, file>>
        BY <2>9 DEF CreateAdmin
      <3>6. server = "up"
        BY <2>0, <2>9 DEF CreateAdmin, SetupInv
      <3> QED
        BY <2>0, <3>1, <3>2, <3>3, <3>4, <3>5, <3>6 DEF SetupInv
    <2> QED
      BY <2>1, <2>2, <2>3, <2>4, <2>5, <2>6, <2>7, <2>8, <2>9, Steps, RosterLeaves, WatchLeaves
         DEF SetupStep, Boot, roster, instanceVars, setup
  <1> QED
    BY <1>1, <1>2, PTL DEF InstanceSpec

(* However many forms are sent at once, one of them at most makes an       *)
(* admin; and while there is none, the secret in the file opens the door   *)
(* (_try_create_admin, ensure_setup).                                      *)
THEOREM OneFounder == InstanceSpec => []OneSetup
  <1>1. SetupInv => OneSetup
    <2> SUFFICES ASSUME SetupInv PROVE OneSetup
      OBVIOUS
    <2>1. Cardinality(founders) <= 1
      <3>1. CASE founders = {}
        BY <3>1, FS_EmptySet
      <3>2. CASE \E p : founders = {p}
        BY <3>2, FS_Singleton
      <3> QED
        BY <3>1, <3>2 DEF SetupInv
    <2> QED
      BY <2>1 DEF SetupInv, OneSetup
  <1> QED
    BY <1>1, SetupHolds, PTL

-----------------------------------------------------------------------------
(* The watch.                                                              *)

(* What the status row of the name in use says is no rosier than the truth.*)
WatchInv ==
    /\ here \in Names
    /\ left \in [Things -> -1 .. Life]
    /\ known \in [Things -> [Names -> -2 .. Life]]
    /\ \A w \in Things : known[w][here] <= left[w]

LEMMA WatchHolds == InstanceSpec => []WatchInv
  <1>1. InstanceInit => WatchInv
    BY WatchBounds DEF InstanceInit, WatchInv, Unchecked
  <1>2. WatchInv /\ [InstanceNext]_instanceVars => WatchInv'
    <2> SUFFICES ASSUME WatchInv, [InstanceNext]_instanceVars PROVE WatchInv'
      OBVIOUS
    <2> USE WatchBounds
    <2>1. CASE UNCHANGED <<here, left, known>>
      BY <2>1 DEF WatchInv
    <2>2. CASE Day
      <3> DEFINE Aged(n) == IF n = Unchecked THEN Unchecked ELSE AtLeast(-1, n - 1)
      <3>1. left' = [w \in Things |-> AtLeast(-1, left[w] - 1)]
            /\ known' = [w \in Things |-> [n \in Names |-> Aged(known[w][n])]]
            /\ UNCHANGED here
        BY <2>2 DEF Day
      <3>2. ASSUME NEW w \in Things
            PROVE  /\ left[w] \in -1 .. Life /\ AtLeast(-1, left[w] - 1) \in -1 .. Life
                   /\ \A n \in Names : known[w][n] \in -2 .. Life /\ Aged(known[w][n]) \in -2 .. Life
        BY DEF WatchInv, AtLeast, Unchecked
      <3>3. ASSUME NEW w \in Things PROVE Aged(known[w][here]) <= AtLeast(-1, left[w] - 1)
        BY <3>2 DEF WatchInv, AtLeast, Unchecked
      <3> HIDE DEF Aged
      <3>4. left' \in [Things -> -1 .. Life] /\ known' \in [Things -> [Names -> -2 .. Life]] /\ here' \in Names
        BY <3>1, <3>2 DEF WatchInv
      <3>5. ASSUME NEW w \in Things PROVE known'[w][here'] <= left'[w]
        BY <3>1, <3>3 DEF WatchInv
      <3> QED
        BY <3>4, <3>5 DEF WatchInv
    <2>3. ASSUME NEW w \in Things, Renew(w) PROVE WatchInv'
      BY <2>3 DEF Renew, WatchInv
    <2>4. ASSUME NEW w \in Things, LookUp(w) PROVE WatchInv'
      <3>1. known' = [known EXCEPT ![w][here] = left[w]] /\ UNCHANGED <<here, left>>
        BY <2>4 DEF LookUp, Learn
      <3>2. known' \in [Things -> [Names -> -2 .. Life]]
        BY <3>1 DEF WatchInv
      <3>3. \A v \in Things : known'[v][here] = IF v = w THEN left[w] ELSE known[v][here]
        BY <3>1 DEF WatchInv
      <3> QED
        BY <3>1, <3>2, <3>3 DEF WatchInv
    <2>5. ASSUME NEW n \in Names, Rename(n) PROVE WatchInv'
      BY <2>5 DEF Rename, WatchInv
    <2>6. Copy("copied") \/ Copy("trouble") \/ SendHealth \/ SendCutShort => UNCHANGED <<here, left, known>>
      BY DEF Copy, SendHealth, SendCutShort, SendTo
    <2>7. RosterStep \/ SetupStep \/ UNCHANGED instanceVars => UNCHANGED <<here, left, known>>
      BY RosterLeaves, SetupLeaves DEF watch, instanceVars
    <2> QED
      BY <2>1, <2>2, <2>3, <2>4, <2>5, <2>6, <2>7, Steps DEF WatchStep
  <1> QED
    BY <1>1, <1>2, PTL DEF InstanceSpec

(* What will soon expire raises an alarm, under whatever name the instance *)
(* is served and however long its lookups have failed (health.py).         *)
THEOREM NothingRunsOutUnseen == InstanceSpec => []NoSurprise
  <1>1. WatchInv => NoSurprise
    <2> SUFFICES ASSUME WatchInv, NEW w \in Things, left[w] <= Warn PROVE Alarming(w)
      BY DEF NoSurprise
    <2>1. known[w][here] \in Int /\ left[w] \in Int /\ known[w][here] <= left[w]
      BY WatchBounds DEF WatchInv
    <2>2. known[w][here] <= Warn
      BY <2>1, WatchBounds
    <2> QED
      BY <2>2 DEF Alarming, StatusOf
  <1> QED
    BY <1>1, WatchHolds, PTL
=============================================================================
