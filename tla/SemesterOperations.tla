------------------------ MODULE SemesterOperations ------------------------
(***************************************************************************)
(* Resetting and restoring a semester.                                     *)
(*                                                                         *)
(* An administrator prepares a reset (the rows of the cohort and then its  *)
(* pictures are exported to a private store and verified), executes it     *)
(* (pictures and rows are deleted, the semester is closed and an empty one *)
(* opened), and may restore the cohort until the backup expires or a       *)
(* student of the next cohort registers.  PostgreSQL transactions, two     *)
(* object stores and a cleanup job take part; every request may die        *)
(* between two of its steps.                                               *)
(*                                                                         *)
(* The rows of a cohort are a version, which every student write raises,   *)
(* and the pictures they refer to.  A second administrator is refused      *)
(* wherever the first one's operation runs, so one actor is enough.        *)
(***************************************************************************)
EXTENDS Integers, FiniteSets, Sequences

CONSTANTS
    Requests,       \* slots for concurrent administrator requests
    Photos,         \* object keys of the pictures of one cohort
    Retention,      \* SEMESTER_BACKUP_RETENTION, in ticks
    MaxOps,         \* bound: rows of semester_operations
    MaxWrites,      \* bound: student writes of a cohort
    MaxFaults,      \* bound: failures of stores, connections and processes
    MaxTime         \* bound on the clock

ASSUME ConstantsAssumption ==
    /\ Retention \in Nat \ {0}
    /\ MaxOps \in Nat \ {0}
    /\ {MaxWrites, MaxFaults, MaxTime} \subseteq Nat

VARIABLES
    rows,       \* the students of each semester and all they own
    bucket,     \* the pictures in the profile-images bucket
    op,         \* semester_operations, in order of requested_at
    backup,     \* semester_backups, by the reset that created them
    files,      \* the private objects of each backup
    req,        \* what each request is doing
    closing,    \* history: the rows that each reset deleted
    now,
    faults      \* what is left of MaxFaults

vars == <<rows, bucket, op, backup, files, req, closing, now, faults>>

-----------------------------------------------------------------------------

Ops == 1 .. MaxOps
Semesters == 1 .. MaxOps + 1
Parts == {"artifact", "manifest", "avatars"}    \* database-backup.tar.gz and the manifests
Rows == [v : 0 .. MaxWrites, photos : SUBSET Photos]
NoRows == [v |-> 0, photos |-> {}]

Operation ==
    [type : {"RESET", "RESTORE"}, state : {"RUNNING", "SUCCEEDED", "FAILED"},
     sem : Semesters, backup : Ops, completed : 0 .. MaxTime]

Backup ==
    [state : {"none", "CREATING", "READY", "RESTORE_BLOCKED_NEW_DATA", "EXPIRED", "FAILED"},
     db : BOOLEAN, snap : Rows,         \* database manifest attached, what it describes
     av : BOOLEAN, verified : BOOLEAN,  \* avatar manifest attached, verified_at
     expires : 0 .. MaxTime + Retention, restored : BOOLEAN]
NoBackup == [state |-> "none", db |-> FALSE, snap |-> NoRows, av |-> FALSE,
             verified |-> FALSE, expires |-> 0, restored |-> FALSE]

\* db, av: about to lock the backup; dbUp, avUp: uploaded, not yet attached;
\* verify, final: about to verify, before and after the reset; undo: about to
\* remove its uploads and to fail the backup; report: about to fail the
\* operation; delete: reset under the barrier; load, loaded, upload: restore,
\* the last under the barrier; compensate: the restore has failed and released
\* the barrier.
Steps == {"idle", "db", "dbUp", "av", "avUp", "verify", "undo", "report",
          "delete", "final", "load", "loaded", "upload", "compensate"}
Request == [step : Steps, op : 0 .. MaxOps, snap : Rows,
            mine : SUBSET (Parts \union Photos),    \* objects it has added
            todo : SUBSET Photos]
Idle == [step |-> "idle", op |-> 0, snap |-> NoRows, mine |-> {}, todo |-> {}]

TypeOK ==
    /\ rows \in [Semesters -> Rows]
    /\ bucket \in [Semesters -> SUBSET Photos]
    /\ op \in Seq(Operation) /\ Len(op) <= MaxOps
    /\ backup \in [Ops -> Backup]
    /\ files \in [Ops -> SUBSET (Parts \union Photos)]
    /\ req \in [Requests -> Request]
    /\ closing \in [Semesters -> Rows]
    /\ now \in 0 .. MaxTime
    /\ faults \in 0 .. MaxFaults

Init ==
    /\ rows = [s \in Semesters |-> NoRows]
    /\ bucket = [s \in Semesters |-> {}]
    /\ op = <<>>
    /\ backup = [b \in Ops |-> NoBackup]
    /\ files = [b \in Ops |-> {}]
    /\ req = [r \in Requests |-> Idle]
    /\ closing = [s \in Semesters |-> NoRows]
    /\ now = 0
    /\ faults = MaxFaults

-----------------------------------------------------------------------------

Done(type, state) == {o \in DOMAIN op : op[o].type = type /\ op[o].state = state}

\* The semester whose status is CURRENT: every reset that succeeded closed one.
Current == Cardinality(Done("RESET", "SUCCEEDED")) + 1
Closed(s) == s < Current

\* student_accounts_created > 0
NewCohort == rows[Current].v > 0

Running == Done("RESET", "RUNNING") \union Done("RESTORE", "RUNNING")

\* The exclusive advisory lock that a student write needs shared.
BarrierHolders == {r \in Requests : req[r].step \in {"delete", "upload"}}
BarrierFree == BarrierHolders = {}

\* The advisory lock on one backup: held while a package is being created.
PackageFree(b) ==
    \A r \in Requests : req[r].step \in {"dbUp", "avUp"} => op[req[r].op].backup # b

\* The lock on its row: held by the reset or restore that executes.
RowFree(b) == \A r \in BarrierHolders : op[req[r].op].backup # b

Package(b) == Parts \union backup[b].snap.photos
Whole(b) == Package(b) \subseteq files[b]

Effective(b) ==
    IF backup[b].state \in {"READY", "RESTORE_BLOCKED_NEW_DATA"} /\ now >= backup[b].expires
    THEN "EXPIRED" ELSE backup[b].state

Goto(r, step) == req' = [req EXCEPT ![r].step = step]
Stop(r) == req' = [req EXCEPT ![r] = Idle]
Fault == faults > 0 /\ faults' = faults - 1

\* A private object is never overwritten; deleting a missing one succeeds.
Vacant(b, objects) == objects \intersect files[b] = {}
Stored(b, objects) == files' = [files EXCEPT ![b] = @ \union objects]
Removed(b, objects) == files' = [files EXCEPT ![b] = @ \ objects]

\* An export reads one REPEATABLE READ snapshot.
Export(s) == rows[s]

Fails(o) ==
    IF op[o].state = "RUNNING"
    THEN [op EXCEPT ![o].state = "FAILED", ![o].completed = now] ELSE op

-----------------------------------------------------------------------------
(* Preparing a reset.                                                      *)

\* Reuse the reset that runs, or insert an operation and its backup.
PrepareReset(r) ==
    /\ req[r].step = "idle" /\ BarrierFree
    /\ \/ /\ Running = {} /\ Len(op) < MaxOps
          /\ LET o == Len(op) + 1 IN
             /\ op' = Append(op, [type |-> "RESET", state |-> "RUNNING", sem |-> Current,
                                  backup |-> o, completed |-> 0])
             /\ backup' = [backup EXCEPT ![o].state = "CREATING"]
             /\ req' = [req EXCEPT ![r].step = "db", ![r].op = o]
       \/ \E o \in Done("RESET", "RUNNING") :
             /\ req' = [req EXCEPT ![r].step = "db", ![r].op = o]
             /\ UNCHANGED <<op, backup>>
    /\ UNCHANGED <<rows, bucket, files, closing, now, faults>>

\* assert_pre_delete_backup_eligibility
PreDelete(o) == op[o].state = "RUNNING" /\ op[o].sem = Current

\* Take the lock, export and upload the rows; an upload never overwrites.
CreateDatabaseBackup(r) ==
    LET o == req[r].op
        b == op[o].backup
    IN /\ req[r].step = "db"
       /\ CASE ~PackageFree(b) -> Stop(r) /\ UNCHANGED files
            [] PackageFree(b) /\ backup[b].state = "CREATING" /\ backup[b].db ->
                  Goto(r, "av") /\ UNCHANGED files
            [] PackageFree(b) /\ backup[b].state = "CREATING" /\ ~backup[b].db
                  /\ PreDelete(o) /\ Vacant(b, {"artifact", "manifest"}) ->
                  /\ req' = [req EXCEPT ![r].step = "dbUp", ![r].snap = Export(Current),
                                        ![r].mine = {"artifact", "manifest"}]
                  /\ Stored(b, {"artifact", "manifest"})
            [] OTHER -> Goto(r, "undo") /\ UNCHANGED files
       /\ UNCHANGED <<rows, bucket, op, backup, closing, now, faults>>

AttachDatabaseBackup(r) ==
    LET b == op[req[r].op].backup IN
    /\ req[r].step = "dbUp"
    /\ IF backup[b].state = "CREATING" /\ ~backup[b].db
       THEN /\ backup' = [backup EXCEPT ![b].db = TRUE, ![b].snap = req[r].snap]
            /\ req' = [req EXCEPT ![r].step = "av", ![r].mine = {}]
       ELSE Goto(r, "undo") /\ UNCHANGED backup
    /\ UNCHANGED <<rows, bucket, op, files, closing, now, faults>>

Downloadable(b, s) == backup[b].snap.photos \subseteq bucket[s]

\* Every picture the manifest names is downloaded, then all are uploaded.
CreateAvatarBackup(r) ==
    LET o == req[r].op
        b == op[o].backup
        new == {"avatars"} \union backup[b].snap.photos
    IN /\ req[r].step = "av"
       /\ CASE ~PackageFree(b) -> Stop(r) /\ UNCHANGED files
            [] PackageFree(b) /\ backup[b].state = "CREATING" /\ backup[b].av ->
                  Goto(r, "verify") /\ UNCHANGED files
            [] PackageFree(b) /\ backup[b].state = "CREATING" /\ backup[b].db /\ ~backup[b].av
                  /\ PreDelete(o) /\ "manifest" \in files[b]
                  /\ Downloadable(b, op[o].sem) /\ Vacant(b, new) ->
                  /\ req' = [req EXCEPT ![r].step = "avUp", ![r].mine = new]
                  /\ Stored(b, new)
            [] OTHER -> Goto(r, "undo") /\ UNCHANGED files
       /\ UNCHANGED <<rows, bucket, op, backup, closing, now, faults>>

AttachAvatarBackup(r) ==
    LET b == op[req[r].op].backup IN
    /\ req[r].step = "avUp"
    /\ IF backup[b].state = "CREATING" /\ ~backup[b].av
       THEN /\ backup' = [backup EXCEPT ![b].av = TRUE]
            /\ req' = [req EXCEPT ![r].step = "verify", ![r].mine = {}]
       ELSE Goto(r, "undo") /\ UNCHANGED backup
    /\ UNCHANGED <<rows, bucket, op, files, closing, now, faults>>

\* The reset's completion starts the retention.
Verified(o) ==
    LET b == op[o].backup IN
    IF op[o].state = "SUCCEEDED"
    THEN [backup EXCEPT ![b].verified = TRUE, ![b].state = "READY",
                        ![b].expires = op[o].completed + Retention]
    ELSE [backup EXCEPT ![b].verified = TRUE]

Passes(o) ==
    LET b == op[o].backup IN
    /\ backup[b].db /\ backup[b].av /\ Whole(b)
    /\ op[o].state = "SUCCEEDED" => now < op[o].completed + Retention

\* A backup that left CREATING is only reported; a failed one is an error.
VerifyBackup(r) ==
    LET o == req[r].op
        b == op[o].backup
    IN /\ req[r].step \in {"verify", "final"} /\ RowFree(b)
       /\ IF PackageFree(b) /\ backup[b].state = "CREATING" /\ Passes(o)
          THEN backup' = Verified(o) /\ Stop(r)
          ELSE /\ IF PackageFree(b) /\ backup[b].state \in {"CREATING", "FAILED"}
                  THEN Goto(r, "undo") ELSE Stop(r)
               /\ UNCHANGED backup
       /\ UNCHANGED <<rows, bucket, op, files, closing, now, faults>>

\* The store fails one of the steps above.
PreparationFails(r) ==
    /\ req[r].step \in {"dbUp", "avUp", "verify", "final"}
    /\ Fault
    /\ Goto(r, "undo")
    /\ UNCHANGED <<rows, bucket, op, backup, files, closing, now>>

\* The backup fails, unless it was finished meanwhile.
FailedBackup(b) ==
    [backup EXCEPT ![b].state = IF @ = "CREATING" THEN "FAILED" ELSE @]

\* Then the preparation fails its operation, if that still runs.
Reporting(r) ==
    LET o == req[r].op IN
    req' = [req EXCEPT ![r] = IF op[o].state = "RUNNING"
                              THEN [Idle EXCEPT !.step = "report", !.op = o] ELSE Idle]

\* Mutant: a failed backup is discarded with all its objects.
RecordFailureDiscarding(r) ==
    LET b == op[req[r].op].backup IN
    /\ req[r].step = "undo" /\ RowFree(b)
    /\ files' = [files EXCEPT ![b] = IF backup[b].state = "CREATING" THEN {} ELSE @]
    /\ backup' = FailedBackup(b)
    /\ Reporting(r)
    /\ UNCHANGED <<rows, bucket, op, closing, now, faults>>

\* What this attempt uploaded is removed and the backup failed, as far as the
\* store and the database allow: an error of either is swallowed.
RecordFailure(r) ==
    LET b == op[req[r].op].backup IN
    /\ req[r].step = "undo" /\ RowFree(b)
    /\ \/ Removed(b, req[r].mine) /\ backup' = FailedBackup(b) /\ UNCHANGED faults
       \/ /\ Fault
          /\ \E gone \in {{}, req[r].mine} : Removed(b, gone)
          /\ backup' \in {backup, FailedBackup(b)}
    /\ Reporting(r)
    /\ UNCHANGED <<rows, bucket, op, closing, now>>

\* A transaction of its own: until then the operation runs with a failed
\* backup, and another attempt may take it up.
FailPreparation(r) ==
    /\ req[r].step = "report"
    /\ \A q \in BarrierHolders : req[q].op # req[r].op
    /\ op' = Fails(req[r].op)
    /\ Stop(r)
    /\ UNCHANGED <<rows, bucket, backup, files, closing, now, faults>>

-----------------------------------------------------------------------------
(* Executing a reset.                                                      *)

\* _is_reset_execution_eligible
ResetEligible(o) ==
    LET b == op[o].backup IN
    /\ op[o].type = "RESET" /\ op[o].state = "RUNNING" /\ op[o].sem = Current
    /\ backup[b].state = "CREATING"
    /\ backup[b].verified /\ backup[b].db /\ backup[b].av

\* Mutant: the verified manifest is trusted without a fresh export.
SameSnapshotTrusted(b) == backup[b].snap.photos = Export(Current).photos

\* _validate_current_snapshot: a fresh export under the barrier is compared
\* with what was verified.
SameSnapshot(b) == backup[b].snap = Export(Current)

\* _load_verified_manifests; the artifact itself is not needed here.
ManifestsLoad(b) == {"manifest", "avatars"} \subseteq files[b]

\* The barrier is taken, or the replay of a finished reset verifies again.
ExecuteReset(r) ==
    /\ req[r].step = "idle" /\ BarrierFree
    /\ \E o \in DOMAIN op :
          LET b == op[o].backup IN
          \/ /\ ResetEligible(o) /\ ManifestsLoad(b)
             /\ SameSnapshot(b)
             /\ req' = [req EXCEPT ![r].step = "delete", ![r].op = o,
                                   ![r].todo = backup[b].snap.photos]
          \/ /\ op[o].type = "RESET" /\ op[o].state = "SUCCEEDED"
             /\ backup[b].state \in {"CREATING", "READY"}
             /\ req' = [req EXCEPT ![r].step = "final", ![r].op = o]
    /\ UNCHANGED <<rows, bucket, op, backup, files, closing, now, faults>>

\* A picture that is gone already counts as deleted.
DeleteAvatar(r) ==
    /\ req[r].step = "delete"
    /\ \E p \in req[r].todo :
          /\ bucket' = [bucket EXCEPT ![op[req[r].op].sem] = @ \ {p}]
          /\ req' = [req EXCEPT ![r].todo = @ \ {p}]
    /\ UNCHANGED <<rows, op, backup, files, closing, now, faults>>

\* app_private.execute_semester_reset, and the commit.
CommitReset(r) ==
    LET o == req[r].op IN
    /\ req[r].step = "delete" /\ req[r].todo = {}
    /\ rows' = [rows EXCEPT ![op[o].sem] = NoRows]
    /\ closing' = [closing EXCEPT ![op[o].sem] = rows[op[o].sem]]
    /\ op' = [op EXCEPT ![o].state = "SUCCEEDED", ![o].completed = now]
    /\ Goto(r, "final")
    /\ UNCHANGED <<bucket, backup, files, now, faults>>

-----------------------------------------------------------------------------
(* Restoring.                                                              *)

\* The reset that completed last, and what the gate of the preparation asks.
LatestReset(o) ==
    /\ o \in Done("RESET", "SUCCEEDED")
    /\ \A other \in Done("RESET", "SUCCEEDED") : op[other].completed < op[o].completed
                                                  \/ other <= o

RestoreEligible(o) ==
    LET b == op[o].backup IN
    /\ LatestReset(o)
    /\ Effective(b) = "READY" /\ ~backup[b].restored /\ ~NewCohort

PrepareRestore ==
    /\ BarrierFree /\ Running = {} /\ Len(op) < MaxOps
    /\ \E o \in DOMAIN op :
          LET b == op[o].backup IN
          /\ RestoreEligible(o)
          /\ op' = Append(op, [type |-> "RESTORE", state |-> "RUNNING", sem |-> op[o].sem,
                               backup |-> b, completed |-> 0])
    /\ UNCHANGED <<rows, bucket, backup, files, req, closing, now, faults>>

\* _is_restore_identity_valid
RestoreIdentity(o) ==
    LET b == op[o].backup IN
    /\ op[o].type = "RESTORE" /\ op[o].state = "RUNNING" /\ Closed(op[o].sem)
    /\ backup[b].state = "READY" /\ ~backup[b].restored

\* _apply_locked_gate: the first is permanent, the second only overdue.
Blocked(o) == NewCohort
Expired(o) == ~NewCohort /\ Effective(op[o].backup) # "READY"

Refuse(o) ==
    /\ Blocked(o) \/ Expired(o)
    /\ backup' = [backup EXCEPT ![op[o].backup].state =
                     IF Blocked(o) THEN "RESTORE_BLOCKED_NEW_DATA" ELSE "EXPIRED"]
    /\ op' = Fails(o)

\* The first transaction only decides.
GateRestore(r) ==
    /\ req[r].step = "idle" /\ BarrierFree
    /\ \E o \in DOMAIN op :
          /\ RestoreIdentity(o)
          /\ \/ Refuse(o) /\ UNCHANGED req
             \/ /\ ~Blocked(o) /\ ~Expired(o)
                /\ req' = [req EXCEPT ![r].step = "load", ![r].op = o]
                /\ UNCHANGED <<op, backup>>
    /\ UNCHANGED <<rows, bucket, files, closing, now, faults>>

\* The package is read outside any transaction.
LoadPackage(r) ==
    LET b == op[req[r].op].backup IN
    /\ req[r].step = "load"
    /\ IF Whole(b) THEN req' = [req EXCEPT ![r].step = "loaded", ![r].snap = backup[b].snap]
       ELSE Stop(r)
    /\ UNCHANGED <<rows, bucket, op, backup, files, closing, now, faults>>

\* The second transaction decides again, under the barrier it then keeps.
BeginRestore(r) ==
    LET o == req[r].op IN
    /\ req[r].step = "loaded"
    /\ \/ /\ ~BarrierFree \/ ~RestoreIdentity(o)
          /\ Stop(r) /\ UNCHANGED <<op, backup>>
       \/ BarrierFree /\ RestoreIdentity(o) /\ Refuse(o) /\ Stop(r)
       \/ /\ BarrierFree /\ RestoreIdentity(o) /\ ~Blocked(o) /\ ~Expired(o)
          /\ req' = [req EXCEPT ![r].step = "upload", ![r].todo = req[r].snap.photos]
          /\ UNCHANGED <<op, backup>>
    /\ UNCHANGED <<rows, bucket, files, closing, now, faults>>

\* A picture that is there already is accepted, and is not this attempt's.
RestoreAvatar(r) ==
    LET s == op[req[r].op].sem IN
    /\ req[r].step = "upload"
    /\ \E p \in req[r].todo :
          /\ bucket' = [bucket EXCEPT ![s] = @ \union {p}]
          /\ req' = [req EXCEPT ![r].todo = @ \ {p},
                                ![r].mine = @ \union ({p} \ bucket[s])]
    /\ UNCHANGED <<rows, op, backup, files, closing, now, faults>>

\* An upload fails: what was uploaded is removed before the barrier is released.
RestoreAvatarFails(r) ==
    /\ req[r].step = "upload" /\ req[r].todo # {}
    /\ Fault
    /\ bucket' = [bucket EXCEPT ![op[req[r].op].sem] = @ \ req[r].mine]
    /\ Stop(r)
    /\ UNCHANGED <<rows, op, backup, files, closing, now>>

\* _validate_restore_target: the database holds no student at all.
NoStudents == \A s \in Semesters : rows[s] = NoRows

Imported(o, snap) ==
    /\ rows' = [rows EXCEPT ![op[o].sem] = snap]
    /\ op' = [op EXCEPT ![o].state = "SUCCEEDED", ![o].completed = now]
    /\ backup' = [backup EXCEPT ![op[o].backup].restored = TRUE]

CommitRestore(r) ==
    /\ req[r].step = "upload" /\ req[r].todo = {}
    /\ IF NoStudents THEN Imported(req[r].op, req[r].snap) /\ Stop(r)
       ELSE Goto(r, "compensate") /\ UNCHANGED <<rows, op, backup>>
    /\ UNCHANGED <<bucket, files, closing, now, faults>>

\* The import fails and is rolled back.
ImportFails(r) ==
    /\ req[r].step = "upload" /\ req[r].todo = {}
    /\ Fault
    /\ Goto(r, "compensate")
    /\ UNCHANGED <<rows, bucket, op, backup, files, closing, now>>

\* _compensate_avatars runs after the transaction has ended, barrier included.
Compensate(r) ==
    /\ req[r].step = "compensate"
    /\ bucket' = [bucket EXCEPT ![op[req[r].op].sem] = @ \ req[r].mine]
    /\ Stop(r)
    /\ UNCHANGED <<rows, op, backup, files, closing, now, faults>>

-----------------------------------------------------------------------------
(* Everything else.                                                        *)

\* Mutant: the cleanup goes by the day of the deadline.
DueEarly(b) ==
    /\ backup[b].state \in {"READY", "RESTORE_BLOCKED_NEW_DATA"}
    /\ backup[b].expires <= now + 1

\* A registration, or a write of a student; refused while the barrier is held.
StudentWrite ==
    /\ BarrierFree
    /\ \E s \in 1 .. Current, photos \in SUBSET Photos :
          /\ rows[s].v < MaxWrites
          /\ rows[s].v = 0 => s = Current /\ photos = {}
          /\ rows' = [rows EXCEPT ![s] = [v |-> @.v + 1, photos |-> photos]]
          /\ bucket' = [bucket EXCEPT ![s] = (@ \ rows[s].photos) \union photos]
    /\ UNCHANGED <<op, backup, files, req, closing, now, faults>>

Due(b) ==
    /\ backup[b].state \in {"READY", "RESTORE_BLOCKED_NEW_DATA"}
    /\ backup[b].expires <= now

\* Pictures, artifact and manifests go in this order; the row expires last.
ExpireBackup ==
    \E b \in Ops :
       /\ Due(b) /\ RowFree(b)
       /\ \/ /\ Removed(b, Package(b))
             /\ backup' = [backup EXCEPT ![b].state = "EXPIRED"]
             /\ UNCHANGED faults
          \/ /\ Fault
             /\ \/ Removed(b, backup[b].snap.photos)
                \/ Removed(b, backup[b].snap.photos \union {"artifact"})
             /\ UNCHANGED backup
       /\ UNCHANGED <<rows, bucket, op, req, closing, now>>

\* A process dies, or the store refuses a deletion: the transaction is rolled
\* back and its locks are released; what was stored or deleted stays so.
Abort(r) ==
    /\ req[r].step # "idle"
    /\ Fault
    /\ Stop(r)
    /\ UNCHANGED <<rows, bucket, op, backup, files, closing, now>>

Tick ==
    /\ now < MaxTime
    /\ now' = now + 1
    /\ UNCHANGED <<rows, bucket, op, backup, files, req, closing, faults>>

Next ==
    \/ \E r \in Requests :
          \/ PrepareReset(r) \/ CreateDatabaseBackup(r) \/ AttachDatabaseBackup(r)
          \/ CreateAvatarBackup(r) \/ AttachAvatarBackup(r)
          \/ VerifyBackup(r) \/ PreparationFails(r) \/ RecordFailure(r)
          \/ FailPreparation(r)
          \/ ExecuteReset(r) \/ DeleteAvatar(r) \/ CommitReset(r)
          \/ GateRestore(r) \/ LoadPackage(r) \/ BeginRestore(r)
          \/ RestoreAvatar(r) \/ RestoreAvatarFails(r)
          \/ CommitRestore(r) \/ ImportFails(r) \/ Compensate(r)
          \/ Abort(r)
    \/ PrepareRestore \/ StudentWrite \/ ExpireBackup \/ Tick

Spec == Init /\ [][Next]_vars

-----------------------------------------------------------------------------
(* What the administrator's page is told.                                  *)

\* The reset requested last, whatever became of it.
ShownReset(o) ==
    /\ o \in DOMAIN op /\ op[o].type = "RESET"
    /\ \A other \in o + 1 .. Len(op) : op[other].type # "RESET"

\* Mutant: the state is shown as it is stored.
BlockReasonStored(b) ==
    CASE backup[b].restored -> "ALREADY_RESTORED"
      [] ~backup[b].restored /\ NewCohort -> "NEW_COHORT"
      [] ~backup[b].restored /\ ~NewCohort /\ backup[b].state # "READY" -> "NOT_READY"
      [] OTHER -> "none"

\* restore_block_reason
BlockReason(b) ==
    CASE backup[b].restored -> "ALREADY_RESTORED"
      [] ~backup[b].restored /\ NewCohort -> "NEW_COHORT"
      [] ~backup[b].restored /\ ~NewCohort /\ Effective(b) # "READY" -> "NOT_READY"
      [] OTHER -> "none"

CanPrepareRestore ==
    \E o \in DOMAIN op :
       /\ ShownReset(o) /\ op[o].state = "SUCCEEDED"
       /\ Running = {} /\ BlockReason(op[o].backup) = "none"

\* get_semester_reset_preflight: the running reset it shows, and whether it
\* offers to execute it.
PreflightReset(o) ==
    LET running(p) == op[p].type = "RESET" /\ op[p].state = "RUNNING" /\ op[p].sem = Current
    IN  running(o) /\ \A other \in o + 1 .. Len(op) : ~running(other)

CanExecuteReset(o) == PreflightReset(o) /\ ResetEligible(o)

\* The preflight of an operation that was prepared.
CanExecuteRestore(o) ==
    /\ RestoreIdentity(o)
    /\ Effective(op[o].backup) = "READY" /\ ~NewCohort

-----------------------------------------------------------------------------
(* Properties.                                                             *)

ResetOf(s) == CHOOSE o \in Done("RESET", "SUCCEEDED") : op[o].sem = s

\* A cohort that a reset deleted is in the database again, or its whole
\* package, with exactly the rows that were deleted, is still stored, until
\* the retention counted from the reset is over: no failed attempt, retry,
\* concurrent preparation or cleanup leaves it without a copy.
NothingLost ==
    \A s \in Semesters : Closed(s) =>
       LET o == ResetOf(s)
           b == op[o].backup
       IN \/ rows[s] # NoRows
          \/ closing[s] = NoRows
          \/ now >= op[o].completed + Retention
          \/ Whole(b) /\ backup[b].snap = closing[s]

\* A reset that stops after it has deleted pictures leaves students without
\* them; their bytes are still in the package of a backup, whatever becomes
\* of that backup.
PicturesKept ==
    \A s \in Semesters : \A p \in rows[s].photos :
       \/ p \in bucket[s]
       \/ \E o \in DOMAIN op : op[o].sem = s /\ p \in files[op[o].backup]
       \/ Closed(s)

\* A backup that a reader would call READY is a whole, verified package of a
\* closed semester: the cleanup of a due backup, which deletes its objects
\* before it changes the row, never shows a partly deleted one as READY.
ReadyIsWhole ==
    \A b \in Ops : Effective(b) = "READY" =>
       /\ Whole(b) /\ backup[b].verified
       /\ Closed(op[b].sem)

\* A cohort comes back at most once, exactly as it was deleted, and into a
\* database without any student, whatever registered or was restored while
\* the package was being read.
RestoredExactly ==
    [][\A s \in Semesters : Closed(s) /\ rows[s] = NoRows /\ rows'[s] # NoRows =>
          /\ rows'[s] = closing[s]
          /\ NoStudents
          /\ ~backup[op[ResetOf(s)].backup].restored]_vars

\* A page that offers to prepare a restore is right, although it looks the
\* reset up by the time it was requested and the preparation by the time it
\* completed; a restore that the preflight lets through passes the gate; and
\* the reset that may be executed is the one the preflight found and offers.
OfferedIsPossible ==
    /\ \A o \in DOMAIN op : ResetEligible(o) => CanExecuteReset(o)
    /\ CanPrepareRestore => \E o \in DOMAIN op : RestoreEligible(o)
    /\ \A o \in DOMAIN op : CanExecuteRestore(o) => ~Blocked(o) /\ ~Expired(o)

\* "Concurrent restore return busy, and injected failure retry converge
\* without duplicate or partial success" (SEM-006): when every request has
\* ended, a restored cohort that has not been touched since has its pictures.
RestoredWithPictures ==
    (\A r \in Requests : req[r].step = "idle") =>
       \A s \in Semesters : Closed(s) /\ rows[s] = closing[s] =>
          rows[s].photos \subseteq bucket[s]

=============================================================================
