------------------------------ MODULE Backups ------------------------------
(***************************************************************************)
(* The nightly archive (core/scheduled_backup.py, the command              *)
(* backup_instance, backups.write_backup), its retention, what health.py   *)
(* says of it, and the restore (restore_instance, backups.restore_backup). *)
(*                                                                         *)
(* An archive is a database dump and then the media tree; the family goes  *)
(* on uploading and deleting between the two.  One night is one day.  An   *)
(* archive's contents are its media rows and files and the BackupRun and   *)
(* BackupFailure rows; encryption is a library's and either succeeds or    *)
(* fails.  A restore is run on a quiet box and, as the runbook says, run   *)
(* again from the same archive when it is cut short.                       *)
(***************************************************************************)
EXTENDS Naturals, FiniteSets, Sequences, FiniteSetsExt, SequencesExt

CONSTANTS
    Assets,      \* pictures and clips
    Nights,      \* bound on the days
    WeekLength,  \* days of an ISO week
    KeepDaily, KeepWeekly,
    StaleDays,   \* STALE_BACKUP_DAYS
    MaxFaults,   \* bound on failures and crashes
    MaxRestores, \* bound on restores
    Nothing,     \* no archive, no job, no restore
    Foreign      \* an archive that came from somewhere else

Days == 1 .. Nights
ASSUME BoundsAssumption ==
    /\ Nights \in Nat \ {0} /\ WeekLength \in Nat \ {0} /\ MaxFaults \in Nat /\ MaxRestores \in Nat
    /\ KeepDaily \in Nat \ {0} /\ KeepWeekly \in Nat /\ StaleDays \in Nat \ {0}

VARIABLES
    today,
    media,     \* media[a]: how far a picture's row and file are
    disk,      \* disk[d]: the file scheduled-d.bak
    ledger,    \* BackupRun, scheduled: the archives recorded, by day
    byHand,    \* BackupRun, manual: the day of the newest, 0 before any
    failure,   \* BackupFailure: the night of the newest, 0 before any
    job,       \* the nightly job: the day, the step, what it has gathered
    restore,   \* the restore under way: the archive, the step
    alive,     \* credentials that came out of an archive resolve
    made,      \* history: days ever recorded
    faults, restores

vars == <<today, media, disk, ledger, byHand, failure, job, restore, alive, made,
          faults, restores>>

(* "file": written, its row uncommitted; "deleted": its row gone, the file  *)
(* to be unlinked.  A restore may also bring a row alone or a file alone.   *)
OnDisk == {"file", "live", "deleted", "stray"}
HasRow == {"live", "broken"}
Media == {"none", "gone"} \cup OnDisk \cup HasRow
Gathered == [rows : SUBSET Assets, files : SUBSET Assets, purged : SUBSET Assets,
             tree : BOOLEAN,   \* the archive has a media tree, be it empty
             ledger : SUBSET Days, byHand : 0 .. Nights, failure : 0 .. Nights]
JobSteps == {"dump", "tar", "seal", "record", "prune"}
Jobs == [step : JobSteps, day : Days, archive : Gathered]
RestoreSteps == {"dump", "media", "promote", "replay"}
Restores == [step : RestoreSteps, archive : Gathered]

ASSUME SeparateAssumption ==
    Nothing # Foreign /\ {Nothing, Foreign} \cap (Gathered \cup Jobs \cup Restores) = {}

TypeOK ==
    /\ today \in Days
    /\ media \in [Assets -> Media]
    /\ disk \in [Days -> Gathered \cup {Nothing, Foreign}]
    /\ ledger \subseteq made /\ made \subseteq Days
    /\ byHand \in 0 .. Nights /\ failure \in 0 .. Nights
    /\ job \in Jobs \cup {Nothing} /\ restore \in Restores \cup {Nothing}
    /\ alive \in BOOLEAN
    /\ faults \in 0 .. MaxFaults /\ restores \in 0 .. MaxRestores

NoArchive == [rows |-> {}, files |-> {}, purged |-> {}, tree |-> FALSE,
              ledger |-> {}, byHand |-> 0, failure |-> 0]
Init ==
    /\ today = 1
    /\ media = [a \in Assets |-> "none"]
    /\ disk = [d \in Days |-> Nothing]
    /\ ledger = {} /\ made = {} /\ byHand = 0 /\ failure = 0
    /\ job = Nothing /\ restore = Nothing /\ alive = FALSE
    /\ faults = 0 /\ restores = 0

-----------------------------------------------------------------------------
(* The family.  A file is written before its row commits; a deleted row     *)
(* commits before its file is unlinked (media.py).                          *)
Moves(a, from, to) ==
    /\ restore = Nothing
    /\ media[a] = from /\ media' = [media EXCEPT ![a] = to]
    /\ UNCHANGED <<today, disk, ledger, byHand, failure, job, restore, alive, made,
                   faults, restores>>
Upload(a) == Moves(a, "none", "file")
Publish(a) == Moves(a, "file", "live")
Delete(a) == Moves(a, "live", "deleted") \/ Moves(a, "broken", "gone")
Unlink(a) == Moves(a, "deleted", "gone")

-----------------------------------------------------------------------------
Order_MediaFirst ==                  \* mutation: the media tree before the dump
    <<"tar", "dump", "seal", "record", "prune">>
Order == <<"dump", "tar", "seal", "record", "prune">>
RestoreOrder_ReplayFirst ==          \* mutation: the replay before the dump
    <<"replay", "dump", "media", "promote">>
RestoreOrder == <<"dump", "media", "promote", "replay">>
After(step, order) == order[1 + CHOOSE i \in DOMAIN order : order[i] = step]

(* 03:30: the job is taken, or the worker is down and the night is missed.  *)
Night(up) ==
    /\ job = Nothing /\ restore = Nothing /\ today < Nights
    /\ today' = today + 1
    /\ job' = IF up THEN [step |-> Head(Order), day |-> today + 1, archive |-> NoArchive]
              ELSE Nothing
    /\ UNCHANGED <<media, disk, ledger, byHand, failure, restore, alive, made,
                   faults, restores>>

At(step) == job # Nothing /\ job.step = step
Goes(archive) ==
    job' = [job EXCEPT !.step = After(job.step, Order), !.archive = archive]

(* _require_headroom() passes (its refusal is a failure), the partial file  *)
(* is opened, nothing under the archive's own name yet, and the dump taken. *)
OnEntry_Row(d) == ledger \cup {d}    \* mutation: the row is written on entry
OnEntry(d) == ledger
Dump ==
    /\ At("dump")
    /\ Goes([job.archive EXCEPT !.rows = {a \in Assets : media[a] \in HasRow},
                                !.ledger = ledger, !.byHand = byHand, !.failure = failure])
    /\ ledger' = OnEntry(job.day) /\ made' = made \cup ledger'
    /\ UNCHANGED <<today, media, disk, byHand, failure, restore, alive, faults, restores>>
(* The tree is there from the first file on, and is archived only if it is. *)
MediaRootExists == \E a \in Assets : media[a] # "none"
Tar ==
    /\ At("tar")
    /\ Goes([job.archive EXCEPT !.files = {a \in Assets : media[a] \in OnDisk},
                                !.tree = MediaRootExists,
                                !.purged = {a \in job.archive.rows : media[a] \in {"gone", "broken"}}])
    /\ UNCHANGED <<today, media, disk, ledger, byHand, failure, restore, alive, made,
                   faults, restores>>

(* Encrypted, decrypted once to prove it, and renamed into place.           *)
Seal ==
    /\ At("seal") /\ Goes(job.archive)
    /\ disk' = [disk EXCEPT ![job.day] = job.archive]
    /\ UNCHANGED <<today, media, ledger, byHand, failure, restore, alive, made,
                   faults, restores>>

(* The row; a database error here does not fail the backup.                 *)
Record ==
    /\ At("record") /\ Goes(job.archive)
    /\ \/ ledger' = ledger \cup {job.day} /\ made' = made \cup {job.day} /\ UNCHANGED faults
       \/ faults < MaxFaults /\ faults' = faults + 1 /\ UNCHANGED <<ledger, made>>
    /\ UNCHANGED <<today, media, disk, byHand, failure, restore, alive, restores>>

(* prune(): the archives a recorded run wrote, by the day in their name;    *)
(* the newest days stay, and the newest of each of the newest weeks.  A     *)
(* file that cannot be unlinked stays.                                      *)
Newest(n, days) == {d \in days : Cardinality({e \in days : e > d}) < n}
Week(d) == (d - 1) \div WeekLength
LastsOfWeek(days) == {d \in days : \A e \in days : Week(e) = Week(d) => e <= d}
Kept_Daily(days) == Newest(KeepDaily, days)      \* mutation: no weeklies
Kept(days) == Newest(KeepDaily, days) \cup Newest(KeepWeekly, LastsOfWeek(days))
Ours == {d \in ledger : disk[d] # Nothing}
Prune ==
    /\ At("prune") /\ job' = Nothing
    /\ \E stuck \in {{}, Ours \ Kept(Ours)} :
           /\ stuck # {} => faults < MaxFaults
           /\ faults' = IF stuck = {} THEN faults ELSE faults + 1
           /\ disk' = [d \in Days |-> IF d \in Ours \ (Kept(Ours) \cup stuck)
                                      THEN Nothing ELSE disk[d]]
    /\ UNCHANGED <<today, media, ledger, byHand, failure, restore, alive, made, restores>>

(* Too little room, a failed or hung dump, a file unlinked under the tar, a *)
(* full disk: the partial file goes, and the reason is recorded, unless     *)
(* that fails too.                                                          *)
Fail ==
    /\ job # Nothing /\ job.step \in {"dump", "tar", "seal"}
    /\ faults < MaxFaults /\ faults' = faults + 1
    /\ job' = Nothing
    /\ failure' \in {failure, job.day}
    /\ UNCHANGED <<today, media, disk, ledger, byHand, restore, alive, made, restores>>

(* The worker is killed; the job is not run again.                          *)
Crash ==
    /\ job # Nothing /\ faults < MaxFaults /\ faults' = faults + 1
    /\ job' = Nothing
    /\ UNCHANGED <<today, media, disk, ledger, byHand, failure, restore, alive, made,
                   restores>>

-----------------------------------------------------------------------------
(* The operator backs up by hand, under another name; or puts an archive of *)
(* another box where this scheduler never recorded one.                     *)
BackUpByHand ==
    /\ restore = Nothing /\ byHand' = today
    /\ UNCHANGED <<today, media, disk, ledger, failure, job, restore, alive, made,
                   faults, restores>>
CopyIn(d) ==
    /\ restore = Nothing /\ d < today /\ d \notin made /\ disk[d] = Nothing
    /\ disk' = [disk EXCEPT ![d] = Foreign]
    /\ UNCHANGED <<today, media, ledger, byHand, failure, job, restore, alive, made,
                   faults, restores>>

(* The archive is verified and extracted, and nothing is touched before.    *)
Readable(d) == disk[d] \notin {Nothing, Foreign}
BeginRestore(d) ==
    /\ job = Nothing /\ restore = Nothing /\ restores < MaxRestores
    /\ Readable(d)
    /\ restore' = [step |-> Head(RestoreOrder), archive |-> disk[d]]
    /\ restores' = restores + 1
    /\ UNCHANGED <<today, media, disk, ledger, byHand, failure, job, alive, made, faults>>

Restoring(step) == restore # Nothing /\ restore.step = step
RestoreGoes ==
    restore' = IF restore.step = Last(RestoreOrder) THEN Nothing
               ELSE [restore EXCEPT !.step = After(restore.step, RestoreOrder)]

(* Row and file, one of them, or neither.                                   *)
Found(a, rows, files) ==
    IF a \in rows THEN (IF a \in files THEN "live" ELSE "broken")
    ELSE IF a \in files THEN "stray" ELSE "gone"
FilesNow == {a \in Assets : media[a] \in OnDisk}
RowsNow == {a \in Assets : media[a] \in HasRow}

RestoreDump ==
    /\ Restoring("dump") /\ RestoreGoes
    /\ media' = [a \in Assets |-> Found(a, restore.archive.rows, FilesNow)]
    /\ ledger' = restore.archive.ledger /\ byHand' = restore.archive.byHand
    /\ failure' = restore.archive.failure /\ alive' = TRUE
    /\ UNCHANGED <<today, disk, job, made, faults, restores>>
(* _restore_media: an archive with no media tree leaves the live one alone. *)
ClearMedia ==
    /\ Restoring("media") /\ RestoreGoes
    /\ media' = IF restore.archive.tree THEN [a \in Assets |-> Found(a, RowsNow, {})]
                ELSE media
    /\ UNCHANGED <<today, disk, ledger, byHand, failure, job, alive, made, faults, restores>>
PromoteMedia ==
    /\ Restoring("promote") /\ RestoreGoes
    /\ media' = IF restore.archive.tree
                THEN [a \in Assets |-> Found(a, RowsNow, restore.archive.files)]
                ELSE media
    /\ UNCHANGED <<today, disk, ledger, byHand, failure, job, alive, made, faults, restores>>
Replay ==
    /\ Restoring("replay") /\ RestoreGoes /\ alive' = FALSE
    /\ UNCHANGED <<today, media, disk, ledger, byHand, failure, job, made, faults, restores>>

(* Any step may fail or the box die; the operator runs it again.            *)
CutShort ==
    /\ restore # Nothing /\ faults < MaxFaults /\ faults' = faults + 1
    /\ restore' = [restore EXCEPT !.step = Head(RestoreOrder)]
    /\ UNCHANGED <<today, media, disk, ledger, byHand, failure, job, alive, made, restores>>

-----------------------------------------------------------------------------
JobStep == Dump \/ Tar \/ Seal \/ Record \/ Prune
RestoreStep == RestoreDump \/ ClearMedia \/ PromoteMedia \/ Replay

Next ==
    \/ \E a \in Assets : Upload(a) \/ Publish(a) \/ Delete(a) \/ Unlink(a)
    \/ \E up \in BOOLEAN : Night(up)
    \/ JobStep \/ Fail \/ Crash
    \/ BackUpByHand \/ \E d \in Days : CopyIn(d) \/ BeginRestore(d)
    \/ RestoreStep \/ CutShort

(* A restore that was begun is carried through.                             *)
Spec == Init /\ [][Next]_vars /\ WF_vars(RestoreStep)

-----------------------------------------------------------------------------
(* A picture whose row is in an archive has its bytes there too, unless it  *)
(* was being purged while the archive was made (write_backup: the dump is   *)
(* taken before the media tree).                                            *)
ArchiveHoldsItsPictures ==
    \A d \in Days : disk[d] \notin {Nothing, Foreign} =>
        disk[d].rows \ disk[d].files \subseteq disk[d].purged

(* Whatever nights failed, were missed or forgotten and whatever was        *)
(* restored: of all the archives ever recorded, the newest days and the     *)
(* newest of each of the newest weeks are on the disk (prune's docstring).  *)
Later(d) == {e \in made : e > d}
RetentionKeeps ==
    \A d \in made :
        \/ Cardinality(Later(d)) < KeepDaily
        \/ /\ \A e \in Later(d) : Week(e) # Week(d)
           /\ Cardinality({Week(e) : e \in Later(d)}) < KeepWeekly
        => disk[d] # Nothing

(* health.py: neither line of the health mail alarms                        *)
Latest(days) == IF days = {} THEN 0 ELSE Max(days)
LastBackup == Latest(ledger \cup {byHand})
LastBackupAlarms == LastBackup = 0 \/ today - LastBackup >= StaleDays
ScheduledAlarms == failure # 0 /\ Latest(ledger) < failure
(* only when a backup that young is really there.                           *)
HealthIsHonest ==
    ~LastBackupAlarms /\ ~ScheduledAlarms =>
        \/ byHand # 0 /\ today - byHand < StaleDays
        \/ \E d \in Days : disk[d] \notin {Nothing, Foreign} /\ today - d < StaleDays

(* However often it is cut short, a restore ends with the archive's rows,   *)
(* no credential of the archive alive (restore_backup: "so the restore can  *)
(* never silently resurrect a revoked bearer credential"), and the          *)
(* archive's files; an archive made before there was a media tree takes     *)
(* away none of the files it finds.                                         *)
FilesAfter(archive) == IF archive.tree THEN archive.files ELSE FilesNow
RestoredRight ==
    restore # Nothing =>
        /\ restore' = Nothing =>
               /\ ~alive'
               /\ media' = [a \in Assets |-> Found(a, restore.archive.rows,
                                                   FilesAfter(restore.archive))]
        /\ ~restore.archive.tree => FilesNow' = FilesNow
RestoreComesRight == (restore # Nothing ~> restore = Nothing) /\ [][RestoredRight]_vars

(* Not so: after the restore of an archive without a media tree, the files  *)
(* of pictures that no row knows any more are still on the disk             *)
(* (_restore_media: "Replace the media tree from the backup's               *)
(* media.tar.gz").                                                          *)
TreeReplaced ==
    [][restore # Nothing /\ restore' = Nothing => FilesNow' = restore.archive.files]_vars

(* Not so: with backups taken by hand, a job that has not run for days      *)
(* alarms nobody (backup_instance: "a backup taken by hand can never report *)
(* a dead nightly job as working").                                         *)
DeadJobAlarms ==
    job = Nothing /\ ledger # {} /\ today - Latest(ledger) >= StaleDays =>
        LastBackupAlarms \/ ScheduledAlarms
=============================================================================
