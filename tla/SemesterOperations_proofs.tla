----------------------- MODULE SemesterOperations_proofs -----------------------
(***************************************************************************)
(* Proofs about SemesterOperations, for any number of requests, pictures,  *)
(* operations, student writes and faults and any retention.                *)
(***************************************************************************)
EXTENDS SemesterOperations, FiniteSetTheorems, SequenceTheorems, TLAPS

-----------------------------------------------------------------------------
(* The inductive invariant.                                                *)

Succeeded == Done("RESET", "SUCCEEDED")
Preparing == {"db", "dbUp", "av", "avUp", "verify", "undo", "report", "delete", "final"}
Restoring == {"load", "loaded", "upload", "compensate"}
Holding == {"delete", "upload"}
Finished == {"READY", "RESTORE_BLOCKED_NEW_DATA", "EXPIRED"}

\* A reset owns the backup of its number; a restore takes up a reset that
\* succeeded; the one operation that runs, if a reset, is of the current semester.
OperationsFit ==
    /\ \A o \in DOMAIN op :
          /\ op[o].type = "RESET" => op[o].backup = o
          /\ op[o].type = "RESTORE" =>
                op[o].backup \in Succeeded /\ op[o].sem = op[op[o].backup].sem
          /\ op[o].type = "RESET" /\ op[o].state = "RUNNING" => op[o].sem = Current
    /\ \A o, p \in DOMAIN op : op[o].state = "RUNNING" /\ op[p].state = "RUNNING" => o = p

\* Every semester before the current one was closed by one reset, with the
\* rows that its verified backup describes; those after it have no student yet.
Succession ==
    /\ \A o \in Succeeded :
          /\ op[o].sem < Current /\ backup[o].verified
          /\ backup[o].snap = closing[op[o].sem]
    /\ \A o, p \in Succeeded : op[o].sem = op[p].sem => o = p
    /\ \A s \in Semesters : Closed(s) => \E o \in Succeeded : op[o].sem = s
    /\ \A s \in Semesters : s > Current => rows[s] = NoRows

\* What a request in state x has seen is still so: a reset under the barrier
\* deletes what was verified, a restore imports what its backup describes.
Informed(x) ==
    LET b == op[x.op].backup
    IN  /\ x.step = "idle" => x = Idle
        /\ x.step \in Preparing => x.op \in DOMAIN op /\ op[x.op].type = "RESET"
        /\ x.step \in Restoring => x.op \in DOMAIN op /\ op[x.op].type = "RESTORE"
        /\ x.step = "delete" =>
              /\ op[x.op].state = "RUNNING"
              /\ backup[b].state = "CREATING" /\ backup[b].verified
              /\ backup[b].snap = rows[Current]
              /\ x.todo \subseteq backup[b].snap.photos
        /\ x.step \in {"loaded", "upload"} => x.snap = backup[b].snap
        /\ x.step = "upload" => op[x.op].state = "RUNNING" /\ ~backup[b].restored

RequestsKnow ==
    /\ \A r, q \in Requests : req[r].step \in Holding /\ req[q].step \in Holding => r = q
    /\ \A r \in Requests : Informed(req[r])

\* The objects that a request has uploaded and not yet attached are there, are
\* nobody else's, and belong to a part that its backup still lacks.
Owning(x) ==
    LET b == op[x.op].backup
    IN  /\ x.step \in Preparing => x.mine \subseteq files[b]
        /\ x.step \in Preparing \ {"dbUp", "avUp", "undo"} => x.mine = {}
        /\ x.step = "dbUp" => x.mine = {"artifact", "manifest"}
        /\ x.step = "avUp" => "avatars" \in x.mine
        /\ x.step \in Preparing /\ x.mine # {} =>
              \/ x.mine = {"artifact", "manifest"} /\ ~backup[b].db
              \/ "avatars" \in x.mine /\ ~backup[b].av

Apart(x, y) ==
    x.step \in Preparing /\ y.step \in Preparing /\ x.op = y.op =>
        x.mine \intersect y.mine = {}

UploadsOwned ==
    /\ \A r \in Requests : Owning(req[r])
    /\ \A r, q \in Requests : r # q => Apart(req[r], req[q])

\* A verified package is whole until its retention, counted from the reset, is over.
BackupHolds(b) ==
    /\ backup[b].verified => backup[b].db /\ backup[b].av
    /\ backup[b].state \in Finished =>
          /\ backup[b].verified /\ b \in Succeeded
          /\ backup[b].expires = op[b].completed + Retention
    /\ backup[b].state = "EXPIRED" => now >= backup[b].expires
    /\ backup[b].verified =>
          \/ Whole(b)
          \/ backup[b].state \in Finished /\ now >= backup[b].expires

BackupsHold == \A b \in Ops : BackupHolds(b)

\* A picture of the current cohort is in the bucket or in a verified package.
PicturesCovered ==
    \A p \in rows[Current].photos :
       \/ p \in bucket[Current]
       \/ \E o \in DOMAIN op :
             /\ op[o].type = "RESET" /\ op[o].sem = Current
             /\ backup[o].verified /\ p \in backup[o].snap.photos

IInv ==
    /\ TypeOK /\ OperationsFit /\ Succession /\ RequestsKnow /\ UploadsOwned
    /\ BackupsHold /\ PicturesCovered

-----------------------------------------------------------------------------
(* Operations, and the semester they leave current.                        *)

LEMMA OperationsType ==
    ASSUME TypeOK
    PROVE  /\ op \in Seq(Operation) /\ Len(op) \in 0 .. MaxOps
           /\ DOMAIN op = 1 .. Len(op) /\ DOMAIN op \subseteq Ops
           /\ \A o \in DOMAIN op : op[o] \in Operation
<1>1. op \in Seq(Operation) /\ Len(op) <= MaxOps
    BY DEF TypeOK
<1>2. Len(op) \in Nat /\ DOMAIN op = 1 .. Len(op)
    BY <1>1, LenProperties
<1>3. \A o \in DOMAIN op : op[o] \in Operation
    BY <1>1, <1>2, ElementOfSeq
<1> QED BY <1>1, <1>2, <1>3, ConstantsAssumption DEF Ops

\* One operation becomes v.
LEMMA OperationChanges ==
    ASSUME TypeOK, NEW o \in DOMAIN op, NEW v \in Operation, op' = [op EXCEPT ![o] = v]
    PROVE  /\ op' \in Seq(Operation) /\ Len(op') <= MaxOps
           /\ DOMAIN op' = DOMAIN op
           /\ \A p \in DOMAIN op : op'[p] = IF p = o THEN v ELSE op[p]
<1>1. op \in Seq(Operation) /\ o \in 1 .. Len(op) /\ DOMAIN op = 1 .. Len(op)
      /\ Len(op) \in 0 .. MaxOps
    BY OperationsType
<1>2. /\ op' \in Seq(Operation) /\ Len(op') = Len(op)
      /\ \A p \in 1 .. Len(op) : op'[p] = IF p = o THEN v ELSE op[p]
    BY <1>1, ExceptSeq
<1>3. DOMAIN op' = 1 .. Len(op')
    BY <1>2, LenProperties
<1> QED BY <1>1, <1>2, <1>3

LEMMA OperationStarts ==
    ASSUME TypeOK, Len(op) < MaxOps, NEW v \in Operation, op' = Append(op, v)
    PROVE  /\ op' \in Seq(Operation) /\ Len(op') <= MaxOps
           /\ Len(op) + 1 \in Ops \ DOMAIN op
           /\ DOMAIN op' = DOMAIN op \union {Len(op) + 1}
           /\ \A p \in DOMAIN op : op'[p] = op[p]
           /\ op'[Len(op) + 1] = v
<1>1. op \in Seq(Operation) /\ DOMAIN op = 1 .. Len(op) /\ Len(op) \in 0 .. MaxOps
    BY OperationsType
<1>2. /\ op' \in Seq(Operation) /\ Len(op') = Len(op) + 1
      /\ \A p \in 1 .. Len(op) : op'[p] = op[p]
      /\ op'[Len(op) + 1] = v
    BY <1>1, AppendProperties
<1>3. DOMAIN op' = 1 .. Len(op')
    BY <1>2, LenProperties
<1>4. MaxOps \in Nat
    BY ConstantsAssumption
<1>5. 1 .. Len(op) + 1 = (1 .. Len(op)) \union {Len(op) + 1}
    BY <1>1, <1>4
<1> QED BY <1>1, <1>2, <1>3, <1>4, <1>5 DEF Ops

\* The resets that succeeded can be counted.
LEMMA CurrentType ==
    ASSUME TypeOK
    PROVE  /\ IsFiniteSet(Succeeded) /\ Current \in Semesters
           /\ Succeeded \subseteq DOMAIN op /\ Succeeded \subseteq Ops
           /\ Semesters \subseteq Nat /\ Current \in Nat /\ Current >= 1
<1>1. Len(op) \in 0 .. MaxOps /\ DOMAIN op = 1 .. Len(op) /\ DOMAIN op \subseteq Ops
    BY OperationsType
<1>2. IsFiniteSet(1 .. Len(op)) /\ Cardinality(1 .. Len(op)) = Len(op)
    BY <1>1, FS_Interval
<1>3. Succeeded \in SUBSET (1 .. Len(op))
    BY <1>1 DEF Succeeded, Done
<1>4. IsFiniteSet(Succeeded) /\ Cardinality(Succeeded) <= Len(op)
    BY <1>2, <1>3, FS_Subset
<1>5. Cardinality(Succeeded) \in Nat
    BY <1>4, FS_CardinalityType
<1>6. MaxOps \in Nat
    BY ConstantsAssumption
<1>7. Current = Cardinality(Succeeded) + 1
    BY DEF Current, Succeeded
<1> QED BY <1>1, <1>3, <1>4, <1>5, <1>6, <1>7 DEF Semesters

LEMMA SameCurrent == Succeeded' = Succeeded => Current' = Current
BY DEF Current, Succeeded

-----------------------------------------------------------------------------
(* What no step undoes.                                                    *)

\* Operations stay what they are, and one that succeeded is over.
OperationsKeep ==
    \A o \in DOMAIN op :
        /\ o \in DOMAIN op'
        /\ op'[o].type = op[o].type /\ op'[o].sem = op[o].sem
        /\ op'[o].backup = op[o].backup
        /\ op[o].state # "RUNNING" => op'[o] = op[o]

\* What is attached to a backup or verified stays so.
BackupsKeep ==
    \A b \in Ops :
        /\ backup[b].db => backup'[b].db /\ backup'[b].snap = backup[b].snap
        /\ backup[b].av => backup'[b].av
        /\ backup[b].verified => backup'[b].verified

LEMMA SameOperationsKeep ==
    /\ UNCHANGED op => OperationsKeep /\ Succeeded' = Succeeded /\ Current' = Current
    /\ UNCHANGED backup => BackupsKeep
<1>1. UNCHANGED op => Succeeded' = Succeeded
    BY DEF Succeeded, Done
<1> QED BY <1>1, SameCurrent DEF OperationsKeep, BackupsKeep

\* No reset has just succeeded.
LEMMA HistoryStays ==
    ASSUME IInv, OperationsKeep, BackupsKeep, Succeeded' = Succeeded,
           UNCHANGED closing,
           \A s \in Semesters : s > Current => rows'[s] = rows[s]
    PROVE  Succession'
<1>1. Current' = Current
    BY SameCurrent
<1>2. \A o \in Succeeded : op'[o] = op[o]
    BY DEF OperationsKeep, Succeeded, Done
<1>3. \A o \in Succeeded : backup'[o].snap = backup[o].snap /\ backup'[o].verified
    <2>1. \A o \in Succeeded : o \in Ops /\ backup[o].verified /\ backup[o].db
        BY CurrentType DEF IInv, Succession, BackupsHold, BackupHolds
    <2> QED BY <2>1 DEF BackupsKeep
<1>4. \A o \in Succeeded :
        /\ op[o].sem < Current /\ backup[o].snap = closing[op[o].sem]
    BY DEF IInv, Succession
<1>5. \A o, p \in Succeeded : op[o].sem = op[p].sem => o = p
    BY DEF IInv, Succession
<1>6. \A s \in Semesters : s < Current => \E o \in Succeeded : op[o].sem = s
    BY DEF IInv, Succession, Closed
<1>7. \A s \in Semesters : s > Current => rows[s] = NoRows
    BY DEF IInv, Succession
<1> QED BY <1>1, <1>2, <1>3, <1>4, <1>5, <1>6, <1>7 DEF Succession, Closed

LEMMA OperationsStay ==
    ASSUME IInv, OperationsKeep, Succeeded' = Succeeded, DOMAIN op' = DOMAIN op,
           \A o \in DOMAIN op : op'[o].state = "RUNNING" => op[o].state = "RUNNING"
    PROVE  OperationsFit'
<1>1. Current' = Current
    BY SameCurrent
<1>2. \A o \in DOMAIN op :
        /\ op[o].type = "RESET" => op[o].backup = o
        /\ op[o].type = "RESTORE" =>
              op[o].backup \in Succeeded /\ op[o].sem = op[op[o].backup].sem
        /\ op[o].type = "RESET" /\ op[o].state = "RUNNING" => op[o].sem = Current
    BY DEF IInv, OperationsFit
<1>3. \A o, p \in DOMAIN op : op[o].state = "RUNNING" /\ op[p].state = "RUNNING" => o = p
    BY DEF IInv, OperationsFit
<1>4. Succeeded \subseteq DOMAIN op
    BY DEF Succeeded, Done
<1> QED BY <1>1, <1>2, <1>3, <1>4 DEF OperationsFit, OperationsKeep

\* A backup that a step leaves alone, whose package loses nothing.
LEMMA BackupStays ==
    ASSUME TypeOK, OperationsKeep, NEW b \in Ops, BackupHolds(b), backup'[b] = backup[b],
           Package(b) \intersect files[b] \subseteq files'[b], now <= now', now' \in Nat
    PROVE  BackupHolds(b)'
<1>1. b \in Succeeded => b \in Succeeded' /\ op'[b] = op[b]
    BY DEF OperationsKeep, Succeeded, Done
<1>2. backup[b].expires \in Nat /\ now \in Nat
    BY ConstantsAssumption DEF TypeOK, Backup
<1>3. Whole(b) => Whole(b)'
    BY DEF Whole, Package
<1> QED BY <1>1, <1>2, <1>3 DEF BackupHolds

\* The pictures of the current cohort, while its rows stay and the bucket grows.
LEMMA PicturesStay ==
    ASSUME IInv, OperationsKeep, BackupsKeep, Current' = Current,
           rows'[Current] = rows[Current], bucket[Current] \subseteq bucket'[Current]
    PROVE  PicturesCovered'
<1>1. \A o \in DOMAIN op : backup[o].verified =>
        backup'[o].verified /\ backup'[o].snap = backup[o].snap
    BY OperationsType DEF IInv, BackupsHold, BackupHolds, BackupsKeep
<1>2. ASSUME NEW p \in rows[Current].photos
      PROVE  \/ p \in bucket'[Current]
             \/ \E o \in DOMAIN op' :
                   /\ op'[o].type = "RESET" /\ op'[o].sem = Current
                   /\ backup'[o].verified /\ p \in backup'[o].snap.photos
    <2>1. CASE p \in bucket[Current]
        BY <2>1
    <2>2. CASE p \notin bucket[Current]
        <3>1. PICK o \in DOMAIN op :
                 /\ op[o].type = "RESET" /\ op[o].sem = Current
                 /\ backup[o].verified /\ p \in backup[o].snap.photos
            BY <2>2 DEF IInv, PicturesCovered
        <3> QED BY <1>1, <3>1 DEF OperationsKeep
    <2> QED BY <2>1, <2>2
<1> QED BY <1>2 DEF PicturesCovered

-----------------------------------------------------------------------------
(* Requests.                                                               *)

\* What a request under the barrier relies on does not change.
Undisturbed(x) ==
    /\ op'[x.op] = op[x.op]
    /\ backup'[op[x.op].backup] = backup[op[x.op].backup]
    /\ rows'[Current] = rows[Current] /\ Current' = Current

\* Neither are the objects of a request, nor is the part it fills attached.
Untouched(x) ==
    LET b == op[x.op].backup
    IN  x.step \in Preparing /\ x.mine # {} =>
          /\ x.mine \subseteq files'[b]
          /\ x.mine = {"artifact", "manifest"} /\ ~backup[b].db => ~backup'[b].db
          /\ "avatars" \in x.mine /\ ~backup[b].av => ~backup'[b].av

\* The backup of a restore describes the rows that were deleted.
LEMMA RestoresOfSucceeded ==
    ASSUME IInv, NEW o \in DOMAIN op, op[o].type = "RESTORE"
    PROVE  /\ op[o].backup \in Succeeded /\ op[o].backup \in Ops
           /\ op[o].sem = op[op[o].backup].sem
           /\ op[o].sem \in Semesters /\ op[o].sem < Current
           /\ backup[op[o].backup].db /\ backup[op[o].backup].verified
           /\ backup[op[o].backup].snap = closing[op[o].sem]
<1>1. op[o].backup \in Succeeded /\ op[o].sem = op[op[o].backup].sem
    BY DEF IInv, OperationsFit
<1>2. op[o].backup \in Ops
    BY <1>1, CurrentType DEF IInv
<1>3. op[o].sem < Current /\ backup[op[o].backup].verified
      /\ backup[op[o].backup].snap = closing[op[o].sem]
    BY <1>1 DEF IInv, Succession
<1>4. backup[op[o].backup].db
    BY <1>2, <1>3 DEF IInv, BackupsHold, BackupHolds
<1>5. op[o].sem \in Semesters
    BY OperationsType DEF IInv, Operation
<1> QED BY <1>1, <1>2, <1>3, <1>4, <1>5

LEMMA ResetsOwnBackup ==
    ASSUME IInv, NEW o \in DOMAIN op, op[o].type = "RESET"
    PROVE  op[o].backup = o /\ o \in Ops
BY OperationsType DEF IInv, OperationsFit

LEMMA StaysInformed ==
    ASSUME IInv, OperationsKeep, BackupsKeep, NEW x, Informed(x),
           x.step \in Holding => Undisturbed(x)
    PROVE  Informed(x)'
<1> DEFINE b == op[x.op].backup
<1>1. x.op \in DOMAIN op => op'[x.op].type = op[x.op].type /\ x.op \in DOMAIN op'
                            /\ op'[x.op].backup = b
    BY DEF OperationsKeep
<1>2. x.step \in {"loaded", "upload"} =>
        /\ x.op \in DOMAIN op /\ x.snap = backup'[b].snap
    <2> SUFFICES ASSUME x.step \in {"loaded", "upload"}
                 PROVE  x.op \in DOMAIN op /\ x.snap = backup'[b].snap
        OBVIOUS
    <2>1. x.op \in DOMAIN op /\ op[x.op].type = "RESTORE" /\ x.snap = backup[b].snap
        BY DEF Informed, Restoring
    <2>2. b \in Ops /\ backup[b].db
        BY <2>1, RestoresOfSucceeded
    <2> QED BY <2>1, <2>2 DEF BackupsKeep
<1>3. x.step = "upload" => op'[x.op].state = "RUNNING" /\ ~backup'[b].restored
    BY DEF Informed, Undisturbed, Holding
<1>4. x.step = "delete" =>
        /\ x.op \in DOMAIN op /\ op'[x.op].state = "RUNNING"
        /\ backup'[b].state = "CREATING" /\ backup'[b].verified
        /\ backup'[b].snap = rows'[Current'] /\ x.todo \subseteq backup'[b].snap.photos
    BY DEF Informed, Undisturbed, Holding, Preparing
<1>5. /\ x.step = "idle" => x = Idle
      /\ x.step \in Preparing => x.op \in DOMAIN op /\ op[x.op].type = "RESET"
      /\ x.step \in Restoring => x.op \in DOMAIN op /\ op[x.op].type = "RESTORE"
    BY DEF Informed
<1> QED BY <1>1, <1>2, <1>3, <1>4, <1>5 DEF Informed

LEMMA StaysOwning ==
    ASSUME OperationsKeep, NEW x, Informed(x), Owning(x), Untouched(x)
    PROVE  Owning(x)'
<1> DEFINE b == op[x.op].backup
<1>1. x.step \in Preparing => op'[x.op].backup = b
    BY DEF OperationsKeep, Informed
<1>2. /\ x.step \in Preparing \ {"dbUp", "avUp", "undo"} => x.mine = {}
      /\ x.step = "dbUp" => x.mine = {"artifact", "manifest"}
      /\ x.step = "avUp" => "avatars" \in x.mine
    BY DEF Owning
<1>3. x.step \in Preparing /\ x.mine # {} =>
        /\ x.mine \subseteq files'[b]
        /\ \/ x.mine = {"artifact", "manifest"} /\ ~backup'[b].db
           \/ "avatars" \in x.mine /\ ~backup'[b].av
    BY DEF Owning, Untouched
<1> QED BY <1>1, <1>2, <1>3 DEF Owning

\* At most one request, the one in S, moves; the others go on as they were.
LEMMA RequestsGoOn ==
    ASSUME IInv, OperationsKeep, BackupsKeep, NEW S \in SUBSET Requests,
           \A r, q \in S : r = q,
           \A q \in Requests \ S :
             /\ req'[q] = req[q] /\ Untouched(req[q])
             /\ req[q].step \in Holding => Undisturbed(req[q]),
           \A r \in S :
             /\ Informed(req[r])' /\ Owning(req[r])'
             /\ \A q \in Requests \ S :
                   /\ Apart(req'[r], req[q])
                   /\ ~(req'[r].step \in Holding /\ req[q].step \in Holding)
    PROVE  RequestsKnow' /\ UploadsOwned'
<1>1. ASSUME NEW q \in Requests \ S PROVE Informed(req[q])' /\ Owning(req[q])'
    <2>1. PICK x : x = req[q]
        OBVIOUS
    <2>2. req'[q] = x
        BY <2>1
    <2>3. Informed(x) /\ Owning(x) /\ Untouched(x) /\ (x.step \in Holding => Undisturbed(x))
        BY <2>1 DEF IInv, RequestsKnow, UploadsOwned
    <2>4. Informed(x)' /\ Owning(x)'
        BY <2>3, StaysInformed, StaysOwning
    <2> QED BY <2>2, <2>4 DEF Informed, Owning
<1>2. \A q \in Requests : Informed(req[q])' /\ Owning(req[q])'
    BY <1>1
<1>3. \A r, q \in Requests : req'[r].step \in Holding /\ req'[q].step \in Holding => r = q
    BY DEF IInv, RequestsKnow
<1>4. \A r, q \in Requests : r # q => Apart(req[r], req[q])'
    BY DEF IInv, UploadsOwned, Apart
<1> QED BY <1>2, <1>3, <1>4 DEF RequestsKnow, UploadsOwned

LEMMA OthersGoOn ==
    ASSUME IInv, OperationsKeep, BackupsKeep, NEW r \in Requests, NEW x,
           \A q \in Requests : req'[q] = IF q = r THEN x ELSE req[q],
           Informed(x)', Owning(x)',
           \A q \in Requests \ {r} :
             /\ Untouched(req[q])
             /\ req[q].step \in Holding => Undisturbed(req[q]) /\ x.step \notin Holding
             /\ Apart(x, req[q])
    PROVE  RequestsKnow' /\ UploadsOwned'
<1>1. req'[r] = x
    OBVIOUS
<1>2. Informed(req[r])' /\ Owning(req[r])'
    BY <1>1 DEF Informed, Owning
<1>3. {r} \in SUBSET Requests /\ \A p, q \in {r} : p = q
    OBVIOUS
<1>4. \A q \in Requests \ {r} :
        /\ Apart(req'[r], req[q])
        /\ ~(req'[r].step \in Holding /\ req[q].step \in Holding)
    BY <1>1
<1> QED BY <1>2, <1>3, <1>4, RequestsGoOn

LEMMA AllGoOn ==
    ASSUME IInv, OperationsKeep, BackupsKeep, UNCHANGED req,
           \A q \in Requests :
             /\ Untouched(req[q])
             /\ req[q].step \in Holding => Undisturbed(req[q])
    PROVE  RequestsKnow' /\ UploadsOwned'
<1>1. {} \in SUBSET Requests /\ \A p, q \in {} : p = q
    OBVIOUS
<1> QED BY <1>1, RequestsGoOn

\* A request moves on to x; of all else only the bucket may change.
LEMMA RequestMovesPictures ==
    ASSUME IInv, NEW r \in Requests, NEW x \in Request, req' = [req EXCEPT ![r] = x],
           UNCHANGED <<rows, op, backup, files, closing, now>>,
           bucket' \in [Semesters -> SUBSET Photos], PicturesCovered',
           faults' \in 0 .. MaxFaults,
           Informed(x), Owning(x),
           \A q \in Requests \ {r} : Apart(x, req[q]),
           x.step \in Holding => \A q \in Requests \ {r} : req[q].step \notin Holding
    PROVE  IInv'
<1>1. TypeOK'
    BY DEF IInv, TypeOK
<1>2. \A q \in Requests : req'[q] = IF q = r THEN x ELSE req[q]
    BY DEF IInv, TypeOK
<1>3. /\ OperationsKeep /\ BackupsKeep
      /\ Succeeded' = Succeeded /\ Current' = Current
    BY SameOperationsKeep
<1>4. OperationsFit' /\ Succession'
    BY <1>3, OperationsStay, HistoryStays
<1>5. BackupsHold'
    <2>1. now \in Nat
        BY ConstantsAssumption DEF IInv, TypeOK
    <2> QED BY <1>3, <2>1, BackupStays DEF IInv, BackupsHold
<1>6. RequestsKnow' /\ UploadsOwned'
    <2>1. \A q \in Requests \ {r} :
            /\ req'[q] = req[q]
            /\ Untouched(req[q]) /\ Undisturbed(req[q])
        <3> TAKE q \in Requests \ {r}
        <3>1. Owning(req[q])
            BY DEF IInv, UploadsOwned
        <3> QED BY <1>2, <1>3, <3>1 DEF Untouched, Undisturbed, Owning
    <2>2. Informed(x)' /\ Owning(x)'
        BY <1>3 DEF Informed, Owning
    <2> QED BY <1>2, <1>3, <2>1, <2>2, OthersGoOn
<1> QED BY <1>1, <1>4, <1>5, <1>6 DEF IInv

LEMMA RequestMoves ==
    ASSUME IInv, NEW r \in Requests, NEW x \in Request, req' = [req EXCEPT ![r] = x],
           UNCHANGED <<rows, bucket, op, backup, files, closing, now>>,
           faults' \in 0 .. MaxFaults,
           Informed(x), Owning(x),
           \A q \in Requests \ {r} : Apart(x, req[q]),
           x.step \in Holding => \A q \in Requests \ {r} : req[q].step \notin Holding
    PROVE  IInv'
<1>1. bucket' \in [Semesters -> SUBSET Photos]
    BY DEF IInv, TypeOK
<1>2. PicturesCovered'
    BY SameOperationsKeep, PicturesStay
<1> QED BY <1>1, <1>2, RequestMovesPictures

\* What the other requests can rely on while they are idle or not concerned.
LEMMA IdleIsInformed ==
    ASSUME IInv, NEW r \in Requests
    PROVE  /\ req[r] \in Request /\ Informed(req[r]) /\ Owning(req[r])
           /\ req[r].step = "idle" => req[r] = Idle
           /\ \A q \in Requests \ {r} : Apart(req[r], req[q])
BY DEF IInv, TypeOK, RequestsKnow, UploadsOwned, Informed

LEMMA IdleType ==
    /\ Idle \in Request /\ Idle.step = "idle" /\ Idle.mine = {}
    /\ Informed(Idle) /\ Owning(Idle) /\ Informed(Idle)' /\ Owning(Idle)'
    /\ \A y : Apart(Idle, y)
<1>1. Idle \in Request
    BY ConstantsAssumption DEF Idle, Request, Steps, Rows, NoRows
<1> QED BY <1>1 DEF Idle, Informed, Owning, Apart, Preparing, Restoring

\* An idle request takes up operation o.
LEMMA StartsAtWork ==
    ASSUME NEW o \in Ops, NEW step \in Steps
    PROVE  LET x == [Idle EXCEPT !.step = step, !.op = o]
           IN  x \in Request /\ x.step = step /\ x.op = o /\ x.mine = {} /\ x.todo = {}
<1>1. Idle \in Request /\ Idle.mine = {} /\ Idle.todo = {}
    <2>1. Idle \in Request
        BY ConstantsAssumption DEF Idle, Request, Steps, Rows, NoRows
    <2> QED BY <2>1 DEF Idle
<1>2. o \in 0 .. MaxOps
    BY ConstantsAssumption DEF Ops
<1> QED BY <1>1, <1>2 DEF Request

LEMMA RequestStops ==
    ASSUME IInv, NEW r \in Requests, Stop(r),
           UNCHANGED <<rows, bucket, op, backup, files, closing, now>>,
           faults' \in 0 .. MaxFaults
    PROVE  IInv'
BY IdleType, RequestMoves DEF Stop, Holding

\* One step after the other, without or, to clean up, with its uploads.
LEMMA RequestGoes ==
    ASSUME IInv, NEW r \in Requests, NEW step \in Steps, Goto(r, step),
           UNCHANGED <<rows, bucket, op, backup, files, closing, now>>,
           faults' \in 0 .. MaxFaults,
           \/ /\ req[r].step \in Preparing
              /\ (step \in {"av", "verify"} /\ req[r].mine = {}) \/ step = "undo"
           \/ req[r].step \in Restoring /\ step = "compensate"
    PROVE  IInv'
<1> DEFINE x == [req[r] EXCEPT !.step = step]
<1>1. req[r] \in Request /\ Informed(req[r]) /\ Owning(req[r])
      /\ \A q \in Requests \ {r} : Apart(req[r], req[q])
    BY IdleIsInformed
<1>2. x \in Request /\ x.step = step /\ x.op = req[r].op /\ x.mine = req[r].mine
    BY <1>1 DEF Request
<1>3. req' = [req EXCEPT ![r] = x]
    BY DEF Goto
<1> HIDE DEF x
<1>4. Informed(x)
    BY <1>1, <1>2 DEF Informed, Preparing, Restoring
<1>5. Owning(x)
    BY <1>1, <1>2 DEF Owning, Preparing, Restoring
<1>6. \A q \in Requests \ {r} : Apart(x, req[q])
    BY <1>1, <1>2 DEF Apart, Preparing, Restoring
<1>7. x.step \notin Holding
    BY <1>2 DEF Holding
<1> QED BY <1>2, <1>3, <1>4, <1>5, <1>6, <1>7, RequestMoves

\* Objects are added to a backup where there are none of that name.
LEMMA RequestUploads ==
    ASSUME IInv, NEW r \in Requests, NEW o, o = req[r].op, NEW x \in Request,
           req[r].step \in Preparing, req' = [req EXCEPT ![r] = x],
           NEW new \in SUBSET (Parts \union Photos), Vacant(o, new), Stored(o, new),
           UNCHANGED <<rows, bucket, op, backup, closing, now, faults>>,
           x.op = o, x.mine = new,
           \/ x.step = "dbUp" /\ new = {"artifact", "manifest"} /\ ~backup[o].db
           \/ x.step = "avUp" /\ "avatars" \in new /\ ~backup[o].av
    PROVE  IInv'
<1>1. o \in DOMAIN op /\ op[o].type = "RESET" /\ op[o].backup = o /\ o \in Ops
    <2>1. o \in DOMAIN op /\ op[o].type = "RESET"
        BY IdleIsInformed DEF Informed
    <2> QED BY <2>1, ResetsOwnBackup
<1>2. \A b \in Ops : files'[b] = IF b = o THEN files[b] \union new ELSE files[b]
    BY DEF Stored, IInv, TypeOK
<1>3. \A q \in Requests : req'[q] = IF q = r THEN x ELSE req[q]
    BY DEF IInv, TypeOK
<1>4. TypeOK'
    <2>1. files' \in [Ops -> SUBSET (Parts \union Photos)]
        BY <1>1 DEF Stored, IInv, TypeOK
    <2>2. req' \in [Requests -> Request]
        BY DEF IInv, TypeOK
    <2> QED BY <2>1, <2>2 DEF IInv, TypeOK
<1>5. /\ OperationsKeep /\ BackupsKeep
      /\ Succeeded' = Succeeded /\ Current' = Current
    BY SameOperationsKeep
<1>6. OperationsFit' /\ Succession'
    BY <1>5, OperationsStay, HistoryStays
<1>7. BackupsHold'
    <2>1. now \in Nat
        BY ConstantsAssumption DEF IInv, TypeOK
    <2>2. \A b \in Ops : files[b] \subseteq files'[b]
        BY <1>2
    <2> QED BY <1>5, <2>1, <2>2, BackupStays DEF IInv, BackupsHold
<1>8. PicturesCovered'
    BY <1>5, PicturesStay
<1>9. RequestsKnow' /\ UploadsOwned'
    <2>1. ASSUME NEW q \in Requests \ {r}
          PROVE  /\ req'[q] = req[q]
                 /\ Untouched(req[q]) /\ Undisturbed(req[q])
                 /\ Apart(x, req[q]) /\ x.step \notin Holding
        <3>1. Owning(req[q]) /\ Informed(req[q])
            BY IdleIsInformed
        <3>2. req[q].step \in Preparing => op[req[q].op].backup = req[q].op /\ req[q].op \in Ops
            BY <3>1, ResetsOwnBackup DEF Informed
        <3>3. Untouched(req[q])
            BY <1>2, <3>1, <3>2 DEF Untouched, Owning
        <3>4. Apart(x, req[q])
            BY <3>1, <3>2 DEF Apart, Owning, Vacant
        <3>5. Undisturbed(req[q])
            BY <1>5 DEF Undisturbed
        <3> QED BY <1>3, <3>3, <3>4, <3>5 DEF Holding
    <2>2. Informed(x)' /\ Owning(x)'
        BY <1>1, <1>2 DEF Informed, Owning, Preparing, Restoring
    <2> QED BY <1>3, <1>5, <2>1, <2>2, OthersGoOn
<1> QED BY <1>4, <1>6, <1>7, <1>8, <1>9 DEF IInv

\* A request under the barrier works on a backup that is verified.
LEMMA HolderIsVerified ==
    ASSUME IInv, NEW q \in Requests, req[q].step \in Holding
    PROVE  backup[op[req[q].op].backup].verified
<1>1. Informed(req[q])
    BY IdleIsInformed
<1>2. CASE req[q].step = "delete"
    BY <1>1, <1>2 DEF Informed
<1>3. CASE req[q].step = "upload"
    BY <1>1, <1>3, RestoresOfSucceeded DEF Informed, Restoring
<1> QED BY <1>2, <1>3 DEF Holding

\* What r has uploaded becomes part of its backup, which is v from now on.
LEMMA RequestAttaches ==
    ASSUME IInv, NEW r \in Requests, NEW o, o = req[r].op, NEW x \in Request,
           req[r].step \in Preparing, req' = [req EXCEPT ![r] = x],
           NEW v \in Backup, backup' = [backup EXCEPT ![o] = v],
           UNCHANGED <<rows, bucket, op, files, closing, now, faults>>,
           x.op = o, x.mine = {}, x.step \in {"av", "verify"},
           v.state = "CREATING", v.verified = FALSE,
           ~backup[o].verified, backup[o].db => v.db /\ v.snap = backup[o].snap,
           backup[o].av => v.av,
           v.db /\ ~backup[o].db => req[r].mine = {"artifact", "manifest"},
           v.av /\ ~backup[o].av => "avatars" \in req[r].mine
    PROVE  IInv'
<1>1. o \in DOMAIN op /\ op[o].type = "RESET" /\ op[o].backup = o /\ o \in Ops
    <2>1. o \in DOMAIN op /\ op[o].type = "RESET"
        BY IdleIsInformed DEF Informed
    <2> QED BY <2>1, ResetsOwnBackup
<1>2. \A b \in Ops : backup'[b] = IF b = o THEN v ELSE backup[b]
    BY DEF IInv, TypeOK
<1>3. \A q \in Requests : req'[q] = IF q = r THEN x ELSE req[q]
    BY DEF IInv, TypeOK
<1>4. TypeOK'
    BY DEF IInv, TypeOK
<1>5. OperationsKeep /\ Succeeded' = Succeeded /\ Current' = Current
    BY SameOperationsKeep
<1>6. BackupsKeep
    BY <1>2 DEF BackupsKeep
<1>7. OperationsFit' /\ Succession'
    BY <1>5, <1>6, OperationsStay, HistoryStays
<1>8. BackupsHold'
    <2>1. now \in Nat
        BY ConstantsAssumption DEF IInv, TypeOK
    <2>2. ASSUME NEW b \in Ops PROVE BackupHolds(b)'
        <3>1. CASE b = o
            BY <1>2, <3>1 DEF BackupHolds, Finished
        <3>2. CASE b # o
            BY <1>2, <1>5, <2>1, <3>2, BackupStays DEF IInv, BackupsHold
        <3> QED BY <3>1, <3>2
    <2> QED BY <2>2 DEF BackupsHold
<1>9. PicturesCovered'
    BY <1>5, <1>6, PicturesStay
<1>10. RequestsKnow' /\ UploadsOwned'
    <2>1. ASSUME NEW q \in Requests \ {r}
          PROVE  /\ req'[q] = req[q] /\ Untouched(req[q])
                 /\ req[q].step \in Holding => Undisturbed(req[q])
                 /\ Apart(x, req[q]) /\ x.step \notin Holding
        <3>1. Owning(req[q]) /\ Informed(req[q]) /\ Apart(req[r], req[q])
            BY IdleIsInformed
        <3>2. req[q].step \in Preparing => op[req[q].op].backup = req[q].op /\ req[q].op \in Ops
            BY <3>1, ResetsOwnBackup DEF Informed
        <3>3. Untouched(req[q])
            <4>1. CASE req[q].op = o /\ req[q].step \in Preparing
                <5>1. req[r].mine \intersect req[q].mine = {}
                    BY <3>1, <4>1 DEF Apart
                <5> QED BY <1>2, <3>1, <3>2, <4>1, <5>1 DEF Untouched, Owning
            <4>2. CASE req[q].op # o /\ req[q].step \in Preparing
                BY <1>2, <3>1, <3>2, <4>2 DEF Untouched, Owning
            <4> QED BY <4>1, <4>2 DEF Untouched
        <3>4. Apart(x, req[q])
            BY DEF Apart
        <3>5. req[q].step \in Holding => Undisturbed(req[q])
            BY <1>5, HolderIsVerified DEF Undisturbed
        <3> QED BY <1>3, <3>3, <3>4, <3>5 DEF Holding
    <2>2. Informed(x)' /\ Owning(x)'
        BY <1>1, <1>2 DEF Informed, Owning, Preparing, Restoring
    <2> QED BY <1>3, <1>5, <1>6, <2>1, <2>2, OthersGoOn
<1> QED BY <1>4, <1>7, <1>8, <1>9, <1>10 DEF IInv

-----------------------------------------------------------------------------
(* Preparing a reset.                                                      *)

\* The operation that starts is the only one that runs; its backup is new.
LEMMA PrepareResetKeepsIInv == ASSUME IInv, NEW r \in Requests, PrepareReset(r) PROVE IInv'
<1> USE DEF PrepareReset
<1>0. req[r] = Idle /\ \A q \in Requests : req[q].step \notin Holding
    BY IdleIsInformed DEF BarrierFree, BarrierHolders, Holding
<1>1. CASE /\ Running = {} /\ Len(op) < MaxOps
           /\ LET o == Len(op) + 1 IN
              /\ op' = Append(op, [type |-> "RESET", state |-> "RUNNING", sem |-> Current,
                                   backup |-> o, completed |-> 0])
              /\ backup' = [backup EXCEPT ![o].state = "CREATING"]
              /\ req' = [req EXCEPT ![r].step = "db", ![r].op = o]
    <2>0. UNCHANGED <<rows, bucket, files, closing, now, faults>>
        OBVIOUS
    <2>1. PICK o : o = Len(op) + 1
        OBVIOUS
    <2> HIDE DEF PrepareReset
    <2> DEFINE new == [type |-> "RESET", state |-> "RUNNING", sem |-> Current,
                       backup |-> o, completed |-> 0]
               x == [Idle EXCEPT !.step = "db", !.op = o]
    <2>2. o \in Ops /\ Current \in Semesters /\ 0 \in 0 .. MaxTime
        <3>1. Len(op) \in 0 .. MaxOps /\ Len(op) < MaxOps /\ MaxOps \in Nat
            BY <1>1, OperationsType, ConstantsAssumption DEF IInv
        <3>2. Current \in Semesters
            BY CurrentType DEF IInv
        <3>3. MaxTime \in Nat
            BY ConstantsAssumption
        <3> QED BY <2>1, <3>1, <3>2, <3>3 DEF Ops
    <2>3. new \in Operation
        BY <2>2 DEF Operation
    <2>4. /\ op' \in Seq(Operation) /\ Len(op') <= MaxOps /\ o \notin DOMAIN op
          /\ DOMAIN op' = DOMAIN op \union {o}
          /\ \A p \in DOMAIN op : op'[p] = op[p]
          /\ op'[o] = new
        BY <1>1, <2>1, <2>3, OperationStarts DEF IInv
    <2>5. /\ new.type = "RESET" /\ new.state = "RUNNING" /\ new.sem = Current /\ new.backup = o
        OBVIOUS
    <2> HIDE DEF new
    <2>6. x \in Request /\ x.step = "db" /\ x.op = o /\ x.mine = {}
        BY ZenonT(40), <2>2, StartsAtWork DEF Steps
    <2>7. req' = [req EXCEPT ![r] = x]
        BY <1>0, <1>1, <2>1
    <2> HIDE DEF x
    <2>8. \A q \in Requests : req'[q] = IF q = r THEN x ELSE req[q]
        BY <2>7 DEF IInv, TypeOK
    <2>9. backup \in [Ops -> Backup] /\ backup' = [backup EXCEPT ![o].state = "CREATING"]
        BY <1>1, <2>1 DEF IInv, TypeOK
    <2>10. \A b \in Ops :
             /\ backup'[b] \in Backup
             /\ b # o => backup'[b] = backup[b]
             /\ backup'[b].db = backup[b].db /\ backup'[b].snap = backup[b].snap
             /\ backup'[b].av = backup[b].av /\ backup'[b].verified = backup[b].verified
        BY <2>2, <2>9 DEF Backup
    <2>11. backup'[o].state = "CREATING"
        BY <2>2, <2>9 DEF Backup
    <2>12. TypeOK'
        <3>1. backup' \in [Ops -> Backup]
            BY <2>9, <2>10
        <3>2. req' \in [Requests -> Request]
            BY <2>6, <2>7 DEF IInv, TypeOK
        <3> QED BY <2>0, <2>4, <3>1, <3>2 DEF IInv, TypeOK
    <2>13. OperationsKeep /\ BackupsKeep
        BY <2>4, <2>10 DEF OperationsKeep, BackupsKeep
    <2>14. Succeeded' = Succeeded
        BY <2>4, <2>5 DEF Succeeded, Done
    <2>15. Current' = Current
        BY <2>14, SameCurrent
    <2>16. OperationsFit'
        <3>1. \A p \in DOMAIN op : op[p].state # "RUNNING"
            <4>1. \A p \in DOMAIN op : op[p].type \in {"RESET", "RESTORE"}
                BY OperationsType DEF IInv, Operation
            <4> QED BY <1>1, <4>1 DEF Running, Done
        <3>2. Succeeded \subseteq DOMAIN op
            BY DEF Succeeded, Done
        <3>3. \A p \in DOMAIN op :
                /\ op[p].type = "RESET" => op[p].backup = p
                /\ op[p].type = "RESTORE" =>
                      op[p].backup \in Succeeded /\ op[p].sem = op[op[p].backup].sem
            BY DEF IInv, OperationsFit
        <3> QED BY <2>4, <2>5, <2>14, <2>15, <3>1, <3>2, <3>3 DEF OperationsFit
    <2>17. Succession'
        BY <2>0, <2>13, <2>14, HistoryStays
    <2>18. BackupsHold'
        <3>1. now \in Nat
            BY ConstantsAssumption DEF IInv, TypeOK
        <3>0. files' = files /\ now' = now
            BY <2>0
        <3>2. ASSUME NEW b \in Ops PROVE BackupHolds(b)'
            <4>1. CASE b = o
                <5>1. backup[o].state \notin Finished
                    BY <2>2, <2>4, CurrentType DEF IInv, BackupsHold, BackupHolds
                <5>2. Whole(o)' <=> Whole(o)
                    BY <2>2, <2>10, <3>0 DEF Whole, Package
                <5> QED BY <2>2, <2>10, <3>0, <2>11, <4>1, <5>1, <5>2
                        DEF IInv, BackupsHold, BackupHolds, Finished
            <4>2. CASE b # o
                <5>1. backup'[b] = backup[b] /\ BackupHolds(b) /\ TypeOK
                    BY <2>10, <4>2 DEF IInv, BackupsHold
                <5> QED BY <2>13, <3>0, <3>1, <5>1, BackupStays
            <4> QED BY <4>1, <4>2
        <3> QED BY <3>2 DEF BackupsHold
    <2>19. PicturesCovered'
        BY <2>0, <2>13, <2>15, PicturesStay
    <2>20. RequestsKnow' /\ UploadsOwned'
        <3>1. \A q \in Requests \ {r} : Untouched(req[q]) /\ Apart(x, req[q])
            <4> TAKE q \in Requests \ {r}
            <4>1. Owning(req[q]) /\ Informed(req[q])
                BY IdleIsInformed
            <4>2. req[q].step \in Preparing => op[req[q].op].backup \in Ops
                BY <4>1, ResetsOwnBackup DEF Informed
            <4> QED BY <2>0, <2>6, <2>10, <4>1, <4>2 DEF Untouched, Owning, Apart
        <3>2. Informed(x)' /\ Owning(x)'
            BY <2>4, <2>5, <2>6 DEF Informed, Owning, Preparing, Restoring
        <3> QED BY <1>0, <2>8, <2>13, <3>1, <3>2, OthersGoOn
    <2> QED BY <2>12, <2>16, <2>17, <2>18, <2>19, <2>20 DEF IInv
<1>2. CASE \E o \in Done("RESET", "RUNNING") :
             /\ req' = [req EXCEPT ![r].step = "db", ![r].op = o]
             /\ UNCHANGED <<op, backup>>
    <2>1. PICK o \in Done("RESET", "RUNNING") :
             /\ req' = [req EXCEPT ![r].step = "db", ![r].op = o]
             /\ UNCHANGED <<op, backup>>
        BY <1>2
    <2> DEFINE x == [Idle EXCEPT !.step = "db", !.op = o]
    <2>2. o \in DOMAIN op /\ op[o].type = "RESET" /\ o \in Ops
        BY OperationsType DEF Done, IInv
    <2>3. x \in Request /\ x.step = "db" /\ x.op = o /\ x.mine = {}
        BY <2>2, StartsAtWork DEF Steps
    <2>4. req' = [req EXCEPT ![r] = x]
        BY <1>0, <2>1
    <2> HIDE DEF x
    <2>5. Informed(x) /\ Owning(x) /\ x.step \notin Holding /\ \A y : Apart(x, y)
        BY <2>2, <2>3 DEF Informed, Owning, Apart, Preparing, Restoring, Holding
    <2>6. faults' \in 0 .. MaxFaults
        BY DEF IInv, TypeOK
    <2> QED BY <2>1, <2>3, <2>4, <2>5, <2>6, RequestMoves
<1> QED BY <1>1, <1>2

LEMMA RowsOfCurrent == ASSUME TypeOK PROVE rows[Current] \in Rows
BY CurrentType DEF TypeOK

LEMMA CreateDatabaseBackupKeepsIInv ==
    ASSUME IInv, NEW r \in Requests, CreateDatabaseBackup(r) PROVE IInv'
<1> USE DEF CreateDatabaseBackup
<1>0. /\ req[r].step = "db" /\ req[r] \in Request /\ req[r].mine = {}
      /\ faults' \in 0 .. MaxFaults
    BY IdleIsInformed DEF Owning, Preparing, IInv, TypeOK
<1>1. UNCHANGED <<rows, bucket, op, backup, closing, now, faults>>
    OBVIOUS
<1>2. CASE Stop(r) /\ UNCHANGED files
    BY <1>0, <1>1, <1>2, RequestStops
<1>3. CASE Goto(r, "av") /\ UNCHANGED files
    BY <1>0, <1>1, <1>3, RequestGoes DEF Steps, Preparing
<1>4. CASE Goto(r, "undo") /\ UNCHANGED files
    BY <1>0, <1>1, <1>4, RequestGoes DEF Steps, Preparing
<1>5. CASE LET o == req[r].op
               b == op[o].backup
           IN  /\ ~backup[b].db /\ Vacant(b, {"artifact", "manifest"})
               /\ req' = [req EXCEPT ![r].step = "dbUp", ![r].snap = Export(Current),
                                     ![r].mine = {"artifact", "manifest"}]
               /\ Stored(b, {"artifact", "manifest"})
    <2>1. PICK o : o = req[r].op
        OBVIOUS
    <2>2. op[o].backup = o
        BY <1>0, <2>1, IdleIsInformed, ResetsOwnBackup DEF Informed, Preparing
    <2> DEFINE x == [req[r] EXCEPT !.step = "dbUp", !.snap = Export(Current),
                                   !.mine = {"artifact", "manifest"}]
    <2>3. Export(Current) \in Rows
        BY RowsOfCurrent DEF IInv, Export
    <2>4. /\ x \in Request /\ x.step = "dbUp" /\ x.op = o
          /\ x.mine = {"artifact", "manifest"}
        BY <1>0, <2>1, <2>3 DEF Request, Steps, Parts
    <2>5. req' = [req EXCEPT ![r] = x]
        BY <1>5
    <2>6. {"artifact", "manifest"} \in SUBSET (Parts \union Photos)
        BY DEF Parts
    <2>7. ~backup[o].db /\ Vacant(o, {"artifact", "manifest"}) /\ Stored(o, {"artifact", "manifest"})
        BY <1>5, <2>1, <2>2
    <2>8. req[r].step \in Preparing
        BY <1>0 DEF Preparing
    <2> HIDE DEF x, CreateDatabaseBackup
    <2> QED BY <1>1, <2>1, <2>4, <2>5, <2>6, <2>7, <2>8, RequestUploads
<1> QED BY <1>2, <1>3, <1>4, <1>5

LEMMA CreateAvatarBackupKeepsIInv ==
    ASSUME IInv, NEW r \in Requests, CreateAvatarBackup(r) PROVE IInv'
<1> USE DEF CreateAvatarBackup
<1>0. /\ req[r].step = "av" /\ req[r] \in Request /\ req[r].mine = {}
      /\ faults' \in 0 .. MaxFaults
    BY IdleIsInformed DEF Owning, Preparing, IInv, TypeOK
<1>1. UNCHANGED <<rows, bucket, op, backup, closing, now, faults>>
    OBVIOUS
<1>2. CASE Stop(r) /\ UNCHANGED files
    BY <1>0, <1>1, <1>2, RequestStops
<1>3. CASE Goto(r, "verify") /\ UNCHANGED files
    BY <1>0, <1>1, <1>3, RequestGoes DEF Steps, Preparing
<1>4. CASE Goto(r, "undo") /\ UNCHANGED files
    BY <1>0, <1>1, <1>4, RequestGoes DEF Steps, Preparing
<1>5. CASE LET o == req[r].op
               b == op[o].backup
               new == {"avatars"} \union backup[b].snap.photos
           IN  /\ ~backup[b].av /\ Vacant(b, new)
               /\ req' = [req EXCEPT ![r].step = "avUp", ![r].mine = new]
               /\ Stored(b, new)
    <2>1. PICK o : o = req[r].op
        OBVIOUS
    <2>2. op[o].backup = o /\ o \in Ops
        BY <1>0, <2>1, IdleIsInformed, ResetsOwnBackup DEF Informed, Preparing
    <2>3. PICK new : new = {"avatars"} \union backup[o].snap.photos
        OBVIOUS
    <2>4. new \in SUBSET (Parts \union Photos) /\ "avatars" \in new
        BY <2>2, <2>3 DEF IInv, TypeOK, Backup, Rows, Parts
    <2> DEFINE x == [req[r] EXCEPT !.step = "avUp", !.mine = new]
    <2>5. x \in Request /\ x.step = "avUp" /\ x.op = o /\ x.mine = new
        BY <1>0, <2>1, <2>4 DEF Request, Steps
    <2>6. req' = [req EXCEPT ![r] = x]
        BY <1>5, <2>1, <2>2, <2>3
    <2>7. ~backup[o].av /\ Vacant(o, new) /\ Stored(o, new)
        BY <1>5, <2>1, <2>2, <2>3
    <2>8. req[r].step \in Preparing
        BY <1>0 DEF Preparing
    <2> HIDE DEF x, CreateAvatarBackup
    <2> QED BY <1>1, <2>1, <2>4, <2>5, <2>6, <2>7, <2>8, RequestUploads
<1> QED BY <1>2, <1>3, <1>4, <1>5

LEMMA AttachDatabaseBackupKeepsIInv ==
    ASSUME IInv, NEW r \in Requests, AttachDatabaseBackup(r) PROVE IInv'
<1>1. PICK o : o = req[r].op
    OBVIOUS
<1>2. /\ req[r].step = "dbUp" /\ req[r] \in Request /\ req[r].mine = {"artifact", "manifest"}
      /\ o \in DOMAIN op /\ op[o].type = "RESET"
      /\ req[r].step \in Preparing /\ faults' \in 0 .. MaxFaults
    <2>1. req[r].step = "dbUp" /\ faults' = faults
        BY DEF AttachDatabaseBackup
    <2> QED BY <1>1, <2>1, IdleIsInformed DEF Owning, Informed, Preparing, IInv, TypeOK
<1>3. op[o].backup = o /\ o \in Ops /\ backup[o] \in Backup
    BY <1>2, ResetsOwnBackup DEF IInv, TypeOK
<1>4. UNCHANGED <<rows, bucket, op, files, closing, now, faults>>
    BY DEF AttachDatabaseBackup
<1>5. CASE Goto(r, "undo") /\ UNCHANGED backup
    BY <1>2, <1>4, <1>5, RequestGoes DEF Steps
<1>6. CASE /\ backup[o].state = "CREATING" /\ ~backup[o].db
           /\ backup' = [backup EXCEPT ![o].db = TRUE, ![o].snap = req[r].snap]
           /\ req' = [req EXCEPT ![r].step = "av", ![r].mine = {}]
    <2> DEFINE x == [req[r] EXCEPT !.step = "av", !.mine = {}]
               v == [backup[o] EXCEPT !.db = TRUE, !.snap = req[r].snap]
    <2>1. x \in Request /\ x.step = "av" /\ x.op = o /\ x.mine = {}
        BY <1>1, <1>2 DEF Request, Steps
    <2>2. /\ v \in Backup /\ v.db = TRUE /\ v.state = backup[o].state
          /\ v.av = backup[o].av /\ v.verified = backup[o].verified
        BY <1>2, <1>3 DEF Backup, Request
    <2>3. req' = [req EXCEPT ![r] = x] /\ backup' = [backup EXCEPT ![o] = v]
        BY <1>6
    <2>4. backup[o].verified = FALSE
        BY <1>3, <1>6 DEF IInv, BackupsHold, BackupHolds, Backup
    <2> HIDE DEF x, v
    <2>5. /\ o = req[r].op /\ req[r].step \in Preparing /\ x.op = o /\ x.mine = {}
          /\ x.step \in {"av", "verify"} /\ v.state = "CREATING"
        BY <1>1, <1>2, <1>6, <2>1, <2>2
    <2>6. v.verified = FALSE /\ ~backup[o].verified
        BY <2>2, <2>4
    <2>7. /\ backup[o].db => v.db /\ v.snap = backup[o].snap
          /\ backup[o].av => v.av
        BY <1>6, <2>2
    <2>8. /\ v.db /\ ~backup[o].db => req[r].mine = {"artifact", "manifest"}
          /\ v.av /\ ~backup[o].av => "avatars" \in req[r].mine
        BY <1>2, <1>6, <2>2
    <2> QED BY <1>4, <2>1, <2>2, <2>3, <2>5, <2>6, <2>7, <2>8, RequestAttaches
<1> QED BY <1>1, <1>3, <1>5, <1>6 DEF AttachDatabaseBackup

LEMMA AttachAvatarBackupKeepsIInv ==
    ASSUME IInv, NEW r \in Requests, AttachAvatarBackup(r) PROVE IInv'
<1>1. PICK o : o = req[r].op
    OBVIOUS
<1>2. /\ req[r].step = "avUp" /\ req[r] \in Request /\ "avatars" \in req[r].mine
      /\ o \in DOMAIN op /\ op[o].type = "RESET"
      /\ req[r].step \in Preparing /\ faults' \in 0 .. MaxFaults
    <2>1. req[r].step = "avUp" /\ faults' = faults
        BY DEF AttachAvatarBackup
    <2> QED BY <1>1, <2>1, IdleIsInformed DEF Owning, Informed, Preparing, IInv, TypeOK
<1>3. op[o].backup = o /\ o \in Ops /\ backup[o] \in Backup
    BY <1>2, ResetsOwnBackup DEF IInv, TypeOK
<1>4. UNCHANGED <<rows, bucket, op, files, closing, now, faults>>
    BY DEF AttachAvatarBackup
<1>5. CASE Goto(r, "undo") /\ UNCHANGED backup
    BY <1>2, <1>4, <1>5, RequestGoes DEF Steps
<1>6. CASE /\ backup[o].state = "CREATING" /\ ~backup[o].av
           /\ backup' = [backup EXCEPT ![o].av = TRUE]
           /\ req' = [req EXCEPT ![r].step = "verify", ![r].mine = {}]
    <2> DEFINE x == [req[r] EXCEPT !.step = "verify", !.mine = {}]
               v == [backup[o] EXCEPT !.av = TRUE]
    <2>1. x \in Request /\ x.step = "verify" /\ x.op = o /\ x.mine = {}
        BY <1>1, <1>2 DEF Request, Steps
    <2>2. /\ v \in Backup /\ v.av = TRUE /\ v.state = backup[o].state /\ v.snap = backup[o].snap
          /\ v.db = backup[o].db /\ v.verified = backup[o].verified
        BY <1>2, <1>3 DEF Backup, Request
    <2>3. req' = [req EXCEPT ![r] = x] /\ backup' = [backup EXCEPT ![o] = v]
        BY <1>6
    <2>4. backup[o].verified = FALSE
        BY <1>3, <1>6 DEF IInv, BackupsHold, BackupHolds, Backup
    <2> HIDE DEF x, v
    <2>5. /\ o = req[r].op /\ req[r].step \in Preparing /\ x.op = o /\ x.mine = {}
          /\ x.step \in {"av", "verify"} /\ v.state = "CREATING"
        BY <1>1, <1>2, <1>6, <2>1, <2>2
    <2>6. v.verified = FALSE /\ ~backup[o].verified
        BY <2>2, <2>4
    <2>7. /\ backup[o].db => v.db /\ v.snap = backup[o].snap
          /\ backup[o].av => v.av
        BY <1>6, <2>2
    <2>8. /\ v.db /\ ~backup[o].db => req[r].mine = {"artifact", "manifest"}
          /\ v.av /\ ~backup[o].av => "avatars" \in req[r].mine
        BY <1>2, <1>6, <2>2
    <2> QED BY <1>4, <2>1, <2>2, <2>3, <2>5, <2>6, <2>7, <2>8, RequestAttaches
<1> QED BY <1>1, <1>3, <1>5, <1>6 DEF AttachAvatarBackup

-----------------------------------------------------------------------------
(* Changes to a finished package.                                          *)

\* Backup b becomes v, with the parts it had, and is verified if it was.
BecomesOf(b, v) ==
    /\ b \in Ops /\ v \in Backup /\ backup' = [backup EXCEPT ![b] = v]
    /\ v.db = backup[b].db /\ v.snap = backup[b].snap /\ v.av = backup[b].av
    /\ backup[b].verified => v.verified
    /\ BackupHolds(b)'

\* At most an operation on b ends, and no reset succeeds.
OperationsGoOn(b) ==
    /\ op' \in Seq(Operation) /\ Len(op') <= MaxOps /\ DOMAIN op' = DOMAIN op
    /\ OperationsKeep /\ Succeeded' = Succeeded
    /\ \A o \in DOMAIN op : op'[o].state = "RUNNING" => op[o].state = "RUNNING"
    /\ \A o \in DOMAIN op : op[o].backup # b => op'[o] = op[o]

\* A request that is over, or has only its operation left to fail.
Over(x) ==
    \/ x = Idle
    \/ \E o \in DOMAIN op :
          op[o].type = "RESET" /\ x = [Idle EXCEPT !.step = "report", !.op = o]

\* Backup b loses objects that nobody is uploading; the request in S, if any,
\* is over, and no other works on b under the barrier.
LosesOnly(b, gone, S) ==
    /\ files' = [files EXCEPT ![b] = @ \ gone]
    /\ S \in SUBSET Requests /\ \A p, q \in S : p = q
    /\ req' \in [Requests -> Request]
    /\ \A q \in S : Over(req'[q])
    /\ \A q \in Requests \ S :
          /\ req'[q] = req[q]
          /\ req[q].step \in Preparing /\ req[q].op = b => req[q].mine \intersect gone = {}
          /\ req[q].step \in Holding => op[req[q].op].backup # b

LEMMA OverIsWell ==
    ASSUME IInv, OperationsKeep, NEW x, Over(x)
    PROVE  /\ x \in Request /\ Informed(x)' /\ Owning(x)' /\ x.step \notin Holding
           /\ \A y : Apart(x, y)
<1>1. CASE x = Idle
    BY <1>1, IdleType DEF Holding
<1>2. ASSUME NEW o \in DOMAIN op, op[o].type = "RESET",
             x = [Idle EXCEPT !.step = "report", !.op = o]
      PROVE  /\ x \in Request /\ Informed(x)' /\ Owning(x)' /\ x.step \notin Holding
             /\ \A y : Apart(x, y)
    <2>1. o \in Ops
        BY <1>2, OperationsType DEF IInv
    <2>2. x \in Request /\ x.step = "report" /\ x.op = o /\ x.mine = {}
        BY <1>2, <2>1, StartsAtWork DEF Steps
    <2>3. o \in DOMAIN op' /\ op'[o].type = "RESET"
        BY <1>2 DEF OperationsKeep
    <2>4. Informed(x)' /\ Owning(x)'
        BY <2>2, <2>3 DEF Informed, Owning, Restoring
    <2> QED BY <2>2, <2>4 DEF Apart, Holding
<1> QED BY <1>1, <1>2 DEF Over

OldRowsOnly ==
    /\ rows' \in [Semesters -> Rows]
    /\ \A s \in Semesters : s >= Current => rows'[s] = rows[s]

LEMMA BackupChanges ==
    ASSUME IInv, NEW b, NEW v, NEW gone, NEW S,
           BecomesOf(b, v), OperationsGoOn(b), LosesOnly(b, gone, S), OldRowsOnly,
           UNCHANGED <<bucket, closing, now>>, faults' \in 0 .. MaxFaults
    PROVE  IInv'
<1> USE DEF BecomesOf, OperationsGoOn, LosesOnly, OldRowsOnly
<1>1. \A c \in Ops : backup'[c] = IF c = b THEN v ELSE backup[c]
    BY DEF IInv, TypeOK
<1>2. \A c \in Ops : files'[c] = IF c = b THEN files[c] \ gone ELSE files[c]
    BY DEF IInv, TypeOK
<1>3. TypeOK'
    <2>1. backup' \in [Ops -> Backup]
        BY DEF IInv, TypeOK
    <2>2. files' \in [Ops -> SUBSET (Parts \union Photos)]
        BY DEF IInv, TypeOK
    <2> QED BY <2>1, <2>2 DEF IInv, TypeOK
<1>4. Current' = Current /\ Current \in Semesters /\ Current \in Nat /\ Semesters \subseteq Nat
    BY SameCurrent, CurrentType DEF IInv
<1>5. BackupsKeep
    BY <1>1 DEF BackupsKeep
<1>6. OperationsFit'
    BY OperationsStay
<1>7. Succession'
    <2>1. \A s \in Semesters : s > Current => rows'[s] = rows[s]
        BY <1>4
    <2> QED BY <1>5, <2>1, HistoryStays
<1>8. BackupsHold'
    <2>1. now \in Nat /\ now' = now /\ TypeOK
        BY ConstantsAssumption DEF IInv, TypeOK
    <2>2. ASSUME NEW c \in Ops, c # b PROVE BackupHolds(c)'
        <3>1. BackupHolds(c) /\ backup'[c] = backup[c] /\ files'[c] = files[c]
            BY <1>1, <1>2, <2>2 DEF IInv, BackupsHold
        <3> QED BY <2>1, <3>1, BackupStays
    <2> QED BY <2>2 DEF BackupsHold
<1>9. PicturesCovered'
    <2>1. rows'[Current] = rows[Current] /\ bucket[Current] \subseteq bucket'[Current]
        BY <1>4
    <2> QED BY <1>4, <1>5, <2>1, PicturesStay
<1>10. RequestsKnow' /\ UploadsOwned'
    <2>1. ASSUME NEW q \in Requests \ S
          PROVE  Untouched(req[q]) /\ (req[q].step \in Holding => Undisturbed(req[q]))
        <3>1. Owning(req[q]) /\ Informed(req[q])
            BY IdleIsInformed
        <3>2. req[q].step \in Preparing => op[req[q].op].backup = req[q].op /\ req[q].op \in Ops
            BY <3>1, ResetsOwnBackup DEF Informed
        <3>3. Untouched(req[q])
            BY <1>1, <1>2, <3>1, <3>2 DEF Untouched, Owning
        <3>4. ASSUME req[q].step \in Holding PROVE Undisturbed(req[q])
            <4>1. req[q].op \in DOMAIN op
                BY <3>1, <3>4 DEF Informed, Holding, Preparing, Restoring
            <4>2. op[req[q].op].backup \in Ops /\ op[req[q].op].backup # b
                BY <3>4, <4>1, OperationsType DEF IInv, Operation
            <4> QED BY <1>1, <1>4, <4>1, <4>2 DEF Undisturbed
        <3> QED BY <3>3, <3>4
    <2>2. ASSUME NEW q \in S
          PROVE  /\ Informed(req[q])' /\ Owning(req[q])'
                 /\ \A p \in Requests \ S : Apart(req'[q], req[p]) /\ req'[q].step \notin Holding
        <3>1. PICK x : x = req'[q]
            OBVIOUS
        <3>2. Informed(x)' /\ Owning(x)' /\ x.step \notin Holding /\ \A y : Apart(x, y)
            BY <3>1, OverIsWell
        <3>3. Informed(req[q])' /\ Owning(req[q])'
            BY <3>1, <3>2 DEF Informed, Owning
        <3> QED BY <3>1, <3>2, <3>3
    <2>3. \A q \in Requests \ S :
            /\ req'[q] = req[q] /\ Untouched(req[q])
            /\ req[q].step \in Holding => Undisturbed(req[q])
        BY <2>1
    <2>4. \A q \in S :
            /\ Informed(req[q])' /\ Owning(req[q])'
            /\ \A p \in Requests \ S :
                  /\ Apart(req'[q], req[p])
                  /\ ~(req'[q].step \in Holding /\ req[p].step \in Holding)
        BY <2>2
    <2> QED BY <1>5, <2>3, <2>4, RequestsGoOn
<1> QED BY <1>3, <1>6, <1>7, <1>8, <1>9, <1>10 DEF IInv

StopsOnly(r) ==
    /\ req' \in [Requests -> Request] /\ req'[r] = Idle
    /\ \A q \in Requests \ {r} : req'[q] = req[q]

LEMMA StopStopsOnly == ASSUME IInv, NEW r \in Requests, Stop(r) PROVE StopsOnly(r)
BY IdleType DEF Stop, StopsOnly, IInv, TypeOK

LEMMA RowFreeMeans ==
    ASSUME NEW b, RowFree(b) \/ BarrierFree, NEW q \in Requests, req[q].step \in Holding
    PROVE  op[req[q].op].backup # b
BY DEF RowFree, BarrierFree, BarrierHolders, Holding

LEMMA OperationFails ==
    ASSUME IInv, NEW o \in DOMAIN op, op' = Fails(o)
    PROVE  /\ op' \in Seq(Operation) /\ Len(op') <= MaxOps /\ DOMAIN op' = DOMAIN op
           /\ OperationsKeep /\ Succeeded' = Succeeded
           /\ \A p \in DOMAIN op : op'[p].state = "RUNNING" => op[p].state = "RUNNING"
           /\ \A p \in DOMAIN op : p # o => op'[p] = op[p]
<1>1. CASE op[o].state # "RUNNING"
    <2>1. op' = op
        BY <1>1 DEF Fails
    <2> QED BY <2>1, SameOperationsKeep, OperationsType DEF IInv
<1>2. CASE op[o].state = "RUNNING"
    <2> DEFINE v == [op[o] EXCEPT !.state = "FAILED", !.completed = now]
    <2>1. op[o] \in Operation /\ now \in 0 .. MaxTime
        BY OperationsType DEF IInv, TypeOK
    <2>2. /\ v \in Operation /\ v.state = "FAILED" /\ v.type = op[o].type /\ v.sem = op[o].sem
          /\ v.backup = op[o].backup
        BY <2>1 DEF Operation
    <2>3. op' = [op EXCEPT ![o] = v]
        BY <1>2 DEF Fails
    <2> HIDE DEF v
    <2>4. /\ op' \in Seq(Operation) /\ Len(op') <= MaxOps /\ DOMAIN op' = DOMAIN op
          /\ \A p \in DOMAIN op : op'[p] = IF p = o THEN v ELSE op[p]
        BY <2>2, <2>3, OperationChanges DEF IInv
    <2>5. OperationsKeep
        BY <1>2, <2>2, <2>4 DEF OperationsKeep
    <2>6. Succeeded' = Succeeded
        BY <1>2, <2>2, <2>4 DEF Succeeded, Done
    <2>7. \A p \in DOMAIN op : op'[p].state = "RUNNING" => op[p].state = "RUNNING"
        BY <1>2, <2>4
    <2> QED BY <2>4, <2>5, <2>6, <2>7
<1> QED BY <1>1, <1>2

LEMMA VerifyBackupKeepsIInv ==
    ASSUME IInv, NEW r \in Requests, VerifyBackup(r) PROVE IInv'
<1>1. PICK o : o = req[r].op
    OBVIOUS
<1>2. /\ req[r].step \in {"verify", "final"} /\ req[r].mine = {} /\ RowFree(op[o].backup)
      /\ o \in DOMAIN op /\ op[o].type = "RESET"
      /\ req[r].step \in Preparing /\ faults' \in 0 .. MaxFaults
    <2>1. req[r].step \in {"verify", "final"} /\ RowFree(op[o].backup) /\ faults' = faults
        BY <1>1 DEF VerifyBackup
    <2> QED BY <1>1, <2>1, IdleIsInformed DEF Owning, Informed, Preparing, IInv, TypeOK
<1>3. op[o].backup = o /\ o \in Ops /\ backup[o] \in Backup /\ op[o] \in Operation
    BY <1>2, ResetsOwnBackup, OperationsType DEF IInv, TypeOK
<1>4. UNCHANGED <<rows, bucket, op, files, closing, now, faults>>
    BY DEF VerifyBackup
<1>5. CASE Goto(r, "undo") /\ UNCHANGED backup
    BY <1>2, <1>4, <1>5, RequestGoes DEF Steps
<1>6. CASE Stop(r) /\ UNCHANGED backup
    BY <1>2, <1>4, <1>6, RequestStops
<1>7. CASE backup[o].state = "CREATING" /\ Passes(o) /\ backup' = Verified(o) /\ Stop(r)
    <2> DEFINE v == IF op[o].state = "SUCCEEDED"
                    THEN [backup[o] EXCEPT !.verified = TRUE, !.state = "READY",
                                           !.expires = op[o].completed + Retention]
                    ELSE [backup[o] EXCEPT !.verified = TRUE]
    <2>1. op[o].completed + Retention \in 0 .. MaxTime + Retention
        BY <1>3, ConstantsAssumption DEF Operation
    <2>2. /\ v \in Backup /\ v.verified = TRUE /\ v.db = backup[o].db /\ v.av = backup[o].av
          /\ v.snap = backup[o].snap
          /\ v.state = IF op[o].state = "SUCCEEDED" THEN "READY" ELSE backup[o].state
          /\ op[o].state = "SUCCEEDED" => v.expires = op[o].completed + Retention
        BY <1>3, <2>1 DEF Backup
    <2>3. backup' = [backup EXCEPT ![o] = v]
        BY <1>3, <1>7 DEF Verified
    <2> HIDE DEF v
    <2>4. backup'[o] = v
        BY <1>3, <2>3 DEF IInv, TypeOK
    <2>5. op' = op /\ Succeeded' = Succeeded /\ OperationsKeep
        BY <1>4, SameOperationsKeep
    <2>6. BecomesOf(o, v)
        <3>1. Whole(o)' /\ backup[o].db /\ backup[o].av
            BY <1>3, <1>4, <1>7, <2>2, <2>4 DEF Passes, Whole, Package
        <3>2. op[o].state = "SUCCEEDED" => o \in Succeeded
            BY <1>2 DEF Succeeded, Done
        <3>3. BackupHolds(o)'
            BY <1>7, <2>2, <2>4, <2>5, <3>1, <3>2 DEF BackupHolds, Finished
        <3> QED BY <1>3, <2>2, <2>3, <3>3 DEF BecomesOf
    <2>7. OperationsGoOn(o)
        BY <2>5 DEF OperationsGoOn, IInv, TypeOK
    <2>8. LosesOnly(o, {}, {r})
        <3>1. files' = [files EXCEPT ![o] = @ \ {}]
            BY <1>3, <1>4 DEF IInv, TypeOK
        <3>2. StopsOnly(r)
            BY <1>7, StopStopsOnly
        <3>3. \A q \in Requests \ {r} : req[q].step \in Holding => op[req[q].op].backup # o
            BY <1>2, <1>3, RowFreeMeans
        <3> QED BY <3>1, <3>2, <3>3 DEF LosesOnly, StopsOnly, Over
    <2>9. OldRowsOnly
        BY <1>4 DEF OldRowsOnly, IInv, TypeOK
    <2> QED BY <1>2, <1>4, <2>6, <2>7, <2>8, <2>9, BackupChanges
<1> QED BY <1>1, <1>3, <1>5, <1>6, <1>7 DEF VerifyBackup

LEMMA PreparationFailsKeepsIInv ==
    ASSUME IInv, NEW r \in Requests, PreparationFails(r) PROVE IInv'
<1>1. /\ req[r].step \in {"dbUp", "avUp", "verify", "final"} /\ Goto(r, "undo")
      /\ UNCHANGED <<rows, bucket, op, backup, files, closing, now>>
      /\ faults > 0 /\ faults' = faults - 1
    BY DEF PreparationFails, Fault
<1>2. faults' \in 0 .. MaxFaults
    BY <1>1, ConstantsAssumption DEF IInv, TypeOK
<1> QED BY <1>1, <1>2, RequestGoes DEF Preparing, Steps

LEMMA FaultType == ASSUME IInv, Fault PROVE faults' \in 0 .. MaxFaults
BY ConstantsAssumption DEF Fault, IInv, TypeOK

\* Only what this attempt uploaded and did not attach is removed.
LEMMA RecordFailureKeepsIInv ==
    ASSUME IInv, NEW r \in Requests, RecordFailure(r) PROVE IInv'
<1>1. PICK o : o = req[r].op
    OBVIOUS
<1>2. /\ req[r].step = "undo" /\ RowFree(op[o].backup) /\ Reporting(r)
      /\ \E gone \in {{}, req[r].mine} : Removed(op[o].backup, gone)
      /\ backup' \in {backup, FailedBackup(op[o].backup)}
      /\ faults' = faults \/ Fault
      /\ UNCHANGED <<rows, bucket, op, closing, now>>
    BY <1>1 DEF RecordFailure
<1>3. o \in DOMAIN op /\ op[o].type = "RESET" /\ Owning(req[r]) /\ req[r].step \in Preparing
    BY <1>1, <1>2, IdleIsInformed DEF Informed, Preparing
<1>4. op[o].backup = o /\ o \in Ops /\ backup[o] \in Backup /\ BackupHolds(o)
    BY <1>3, ResetsOwnBackup DEF IInv, TypeOK, BackupsHold
<1>5. faults' \in 0 .. MaxFaults
    BY <1>2, FaultType DEF IInv, TypeOK
<1>6. PICK gone : gone \in {{}, req[r].mine} /\ files' = [files EXCEPT ![o] = @ \ gone]
    BY <1>2, <1>4 DEF Removed
<1>7. PICK v : /\ backup' = [backup EXCEPT ![o] = v]
               /\ \/ v = backup[o]
                  \/ v = [backup[o] EXCEPT !.state = "FAILED"] /\ backup[o].state = "CREATING"
    <2>1. CASE backup' = backup
        <3>1. backup' = [backup EXCEPT ![o] = backup[o]]
            BY <1>4, <2>1 DEF IInv, TypeOK
        <3> QED BY <3>1
    <2>2. CASE backup' = FailedBackup(o) /\ backup[o].state = "CREATING"
        <3>1. backup' = [backup EXCEPT ![o] = [backup[o] EXCEPT !.state = "FAILED"]]
            BY <1>4, <2>2 DEF FailedBackup, IInv, TypeOK
        <3> QED BY <2>2, <3>1
    <2>3. CASE backup' = FailedBackup(o) /\ backup[o].state # "CREATING"
        <3>1. [backup[o] EXCEPT !.state = backup[o].state] = backup[o]
            BY <1>4 DEF Backup
        <3>2. backup' = [backup EXCEPT ![o] = backup[o]]
            BY <1>4, <2>3, <3>1 DEF FailedBackup, IInv, TypeOK
        <3> QED BY <3>2
    <2> QED BY <1>2, <1>4, <2>1, <2>2, <2>3
<1>8. /\ v \in Backup /\ v.db = backup[o].db /\ v.av = backup[o].av /\ v.snap = backup[o].snap
      /\ v.verified = backup[o].verified /\ v.expires = backup[o].expires
      /\ v.state = backup[o].state \/ (v.state = "FAILED" /\ backup[o].state = "CREATING")
    BY <1>4, <1>7 DEF Backup
<1>9. backup'[o] = v
    BY <1>4, <1>7 DEF IInv, TypeOK
<1>10. op' = op /\ Succeeded' = Succeeded /\ OperationsKeep
    BY <1>2, SameOperationsKeep
<1>11. OperationsGoOn(o)
    BY <1>10 DEF OperationsGoOn, IInv, TypeOK
<1>12. BecomesOf(o, v)
    <2>1. backup[o].verified => gone = {}
        BY <1>1, <1>3, <1>4, <1>6 DEF BackupHolds, Owning
    <2>2. files'[o] = files[o] \ gone
        BY <1>4, <1>6 DEF IInv, TypeOK
    <2>3. backup[o].verified => (Whole(o) => Whole(o)')
        BY <1>8, <1>9, <2>1, <2>2 DEF Whole, Package
    <2>4. BackupHolds(o)'
        BY <1>2, <1>4, <1>8, <1>9, <1>10, <2>3 DEF BackupHolds, Finished
    <2> QED BY <1>4, <1>7, <1>8, <2>4 DEF BecomesOf
<1>13. LosesOnly(o, gone, {r})
    <2>1. PICK x : /\ req' = [req EXCEPT ![r] = x]
                   /\ x = Idle \/ x = [Idle EXCEPT !.step = "report", !.op = o]
        BY <1>1, <1>2 DEF Reporting
    <2>2. Over(x)
        BY <1>3, <2>1 DEF Over
    <2>3. x \in Request
        BY <1>10, <2>2, OverIsWell
    <2>4. /\ req' \in [Requests -> Request] /\ req'[r] = x
          /\ \A q \in Requests \ {r} : req'[q] = req[q]
        BY <2>1, <2>3 DEF IInv, TypeOK
    <2>5. \A q \in Requests \ {r} : req[q].step \in Holding => op[req[q].op].backup # o
        BY <1>2, <1>4, RowFreeMeans
    <2>6. \A q \in Requests \ {r} :
             req[q].step \in Preparing /\ req[q].op = o => req[q].mine \intersect gone = {}
        BY <1>1, <1>3, <1>6, IdleIsInformed DEF Apart
    <2> QED BY <1>6, <2>2, <2>4, <2>5, <2>6 DEF LosesOnly
<1>14. OldRowsOnly
    BY <1>2 DEF OldRowsOnly, IInv, TypeOK
<1> QED BY <1>2, <1>5, <1>11, <1>12, <1>13, <1>14, BackupChanges

LEMMA FailPreparationKeepsIInv ==
    ASSUME IInv, NEW r \in Requests, FailPreparation(r) PROVE IInv'
<1>1. PICK o : o = req[r].op
    OBVIOUS
<1>2. /\ req[r].step = "report" /\ op' = Fails(o) /\ Stop(r)
      /\ \A q \in BarrierHolders : req[q].op # o
      /\ UNCHANGED <<rows, bucket, backup, files, closing, now, faults>>
    BY <1>1 DEF FailPreparation
<1>3. o \in DOMAIN op /\ op[o].type = "RESET"
    BY <1>1, <1>2, IdleIsInformed DEF Informed, Preparing
<1>4. op[o].backup = o /\ o \in Ops /\ backup[o] \in Backup /\ BackupHolds(o)
    BY <1>3, ResetsOwnBackup DEF IInv, TypeOK, BackupsHold
<1>5. faults' \in 0 .. MaxFaults
    BY <1>2 DEF IInv, TypeOK
<1>6. CASE op[o].state # "RUNNING"
    BY <1>2, <1>5, <1>6, RequestStops DEF Fails
<1>7. CASE op[o].state = "RUNNING"
    <2>1. OperationsGoOn(o)
        BY <1>2, <1>3, <1>4, OperationFails DEF OperationsGoOn
    <2>2. BecomesOf(o, backup[o])
        <3>1. backup' = [backup EXCEPT ![o] = backup[o]]
            BY <1>2, <1>4 DEF IInv, TypeOK
        <3>2. o \in Succeeded => o \in Succeeded' /\ op'[o] = op[o]
            BY <2>1 DEF OperationsGoOn, OperationsKeep, Succeeded, Done
        <3>3. Whole(o)' = Whole(o)
            BY <1>2 DEF Whole, Package
        <3>4. BackupHolds(o)'
            BY <1>2, <1>4, <3>2, <3>3 DEF BackupHolds, Finished
        <3> QED BY <1>4, <3>1, <3>4 DEF BecomesOf
    <2>3. LosesOnly(o, {}, {r})
        <3>1. files' = [files EXCEPT ![o] = @ \ {}]
            BY <1>2, <1>4 DEF IInv, TypeOK
        <3>2. StopsOnly(r)
            BY <1>2, StopStopsOnly
        <3>3. ASSUME NEW q \in Requests, req[q].step \in Holding
              PROVE  op[req[q].op].backup # o
            <4>1. Informed(req[q]) /\ req[q].op # o
                BY <1>2, <3>3, IdleIsInformed DEF BarrierHolders, Holding
            <4>2. CASE req[q].step = "delete"
                BY <4>1, <4>2, ResetsOwnBackup DEF Informed, Preparing
            <4>3. CASE req[q].step = "upload"
                <5>1. op[req[q].op].backup \in Succeeded
                    BY <4>1, <4>3 DEF Informed, Restoring, IInv, OperationsFit
                <5> QED BY <1>7, <5>1 DEF Succeeded, Done
            <4> QED BY <3>3, <4>2, <4>3 DEF Holding
        <3> QED BY <3>1, <3>2, <3>3 DEF LosesOnly, StopsOnly, Over
    <2>4. OldRowsOnly
        BY <1>2 DEF OldRowsOnly, IInv, TypeOK
    <2> QED BY <1>2, <1>5, <2>1, <2>2, <2>3, <2>4, BackupChanges
<1> QED BY <1>6, <1>7

\* A due backup may lose anything: nobody is uploading to it.
LEMMA ExpireBackupKeepsIInv == ASSUME IInv, ExpireBackup PROVE IInv'
<1>1. PICK b \in Ops :
       /\ Due(b) /\ RowFree(b)
       /\ \/ /\ Removed(b, Package(b))
             /\ backup' = [backup EXCEPT ![b].state = "EXPIRED"]
             /\ UNCHANGED faults
          \/ /\ Fault
             /\ \/ Removed(b, backup[b].snap.photos)
                \/ Removed(b, backup[b].snap.photos \union {"artifact"})
             /\ UNCHANGED backup
       /\ UNCHANGED <<rows, bucket, op, req, closing, now>>
    BY DEF ExpireBackup
<1>2. backup[b] \in Backup /\ BackupHolds(b)
    BY DEF IInv, TypeOK, BackupsHold
<1>3. faults' \in 0 .. MaxFaults
    BY <1>1, FaultType DEF IInv, TypeOK
<1>4. PICK gone : files' = [files EXCEPT ![b] = @ \ gone]
    BY <1>1 DEF Removed
<1>5. PICK v \in {backup[b], [backup[b] EXCEPT !.state = "EXPIRED"]} :
         backup' = [backup EXCEPT ![b] = v]
    <2>1. UNCHANGED backup => backup' = [backup EXCEPT ![b] = backup[b]]
        BY DEF IInv, TypeOK
    <2>2. backup' = [backup EXCEPT ![b].state = "EXPIRED"] =>
            backup' = [backup EXCEPT ![b] = [backup[b] EXCEPT !.state = "EXPIRED"]]
        OBVIOUS
    <2> QED BY <1>1, <2>1, <2>2
<1>6. /\ v \in Backup /\ v.db = backup[b].db /\ v.av = backup[b].av /\ v.snap = backup[b].snap
      /\ v.verified = backup[b].verified /\ v.expires = backup[b].expires
      /\ v.state = backup[b].state \/ v.state = "EXPIRED"
    BY <1>2, <1>5 DEF Backup
<1>7. backup'[b] = v
    BY <1>5 DEF IInv, TypeOK
<1>8. OperationsGoOn(b)
    BY <1>1, SameOperationsKeep DEF OperationsGoOn, IInv, TypeOK
<1>9. backup[b].state \in Finished /\ backup[b].expires <= now
      /\ backup[b].verified /\ backup[b].db /\ backup[b].av
    BY <1>1, <1>2 DEF Due, Finished, BackupHolds
<1>10. BecomesOf(b, v)
    <2>1. op' = op /\ Succeeded' = Succeeded /\ now' = now
        BY <1>1, SameOperationsKeep
    <2>2. backup[b].expires \in Nat /\ now \in Nat
        BY <1>2, ConstantsAssumption DEF Backup, IInv, TypeOK
    <2>3. v.state \in Finished
        BY <1>6, <1>9 DEF Finished
    <2>4. BackupHolds(b)'
        BY <1>2, <1>6, <1>7, <1>9, <2>1, <2>2, <2>3 DEF BackupHolds
    <2> QED BY <1>5, <1>6, <2>4 DEF BecomesOf
<1>11. LosesOnly(b, gone, {})
    <2>1. \A q \in Requests : req[q].step \in Holding => op[req[q].op].backup # b
        BY <1>1, RowFreeMeans
    <2>2. ASSUME NEW q \in Requests, req[q].step \in Preparing, req[q].op = b
          PROVE  req[q].mine = {}
        <3>1. Owning(req[q]) /\ op[req[q].op].backup = b
            BY <2>2, IdleIsInformed, ResetsOwnBackup DEF Informed
        <3> QED BY <1>9, <2>2, <3>1 DEF Owning
    <2> QED BY <1>1, <1>4, <2>1, <2>2 DEF LosesOnly, IInv, TypeOK
<1>12. OldRowsOnly
    BY <1>1 DEF OldRowsOnly, IInv, TypeOK
<1> QED BY <1>1, <1>3, <1>8, <1>10, <1>11, <1>12, BackupChanges

-----------------------------------------------------------------------------
(* Refusing and beginning a restore.                                       *)

\* A restore that is refused ends; its backup is blocked, or is over.
LEMMA RefuseKeepsIInv ==
    ASSUME IInv, NEW o \in DOMAIN op, RestoreIdentity(o), Refuse(o), BarrierFree,
           NEW S \in SUBSET Requests, \A p, q \in S : p = q,
           req' \in [Requests -> Request],
           \A q \in S : req'[q] = Idle,
           \A q \in Requests \ S : req'[q] = req[q],
           UNCHANGED <<rows, bucket, files, closing, now, faults>>
    PROVE  IInv'
<1>1. PICK b : b = op[o].backup
    OBVIOUS
<1>2. op[o].type = "RESTORE" /\ backup[b].state = "READY" /\ ~backup[b].restored
    BY <1>1 DEF RestoreIdentity
<1>3. b \in Ops /\ backup[b] \in Backup /\ BackupHolds(b) /\ b \in Succeeded
    BY <1>1, <1>2, RestoresOfSucceeded DEF IInv, TypeOK, BackupsHold
<1>4. PICK v : v = [backup[b] EXCEPT !.state =
                      IF Blocked(o) THEN "RESTORE_BLOCKED_NEW_DATA" ELSE "EXPIRED"]
    OBVIOUS
<1>5. /\ v \in Backup /\ v.db = backup[b].db /\ v.av = backup[b].av /\ v.snap = backup[b].snap
      /\ v.verified = backup[b].verified /\ v.expires = backup[b].expires
      /\ v.state = IF Blocked(o) THEN "RESTORE_BLOCKED_NEW_DATA" ELSE "EXPIRED"
    BY <1>3, <1>4 DEF Backup
<1>6. backup' = [backup EXCEPT ![b] = v] /\ backup'[b] = v
    BY <1>1, <1>3, <1>4 DEF Refuse, IInv, TypeOK
<1>7. OperationsGoOn(b)
    <2>1. op' = Fails(o)
        BY DEF Refuse
    <2> QED BY <1>1, <2>1, OperationFails DEF OperationsGoOn
<1>8. ~Blocked(o) => now >= backup[b].expires
    BY <1>1, <1>2 DEF Refuse, Expired, Blocked, Effective
<1>9. BecomesOf(b, v)
    <2>1. b \in Succeeded' /\ op'[b] = op[b]
        BY <1>3, <1>7 DEF OperationsGoOn, OperationsKeep, Succeeded, Done
    <2>2. Whole(b) => Whole(b)'
        BY <1>5, <1>6 DEF Whole, Package
    <2>3. BackupHolds(b)'
        BY <1>2, <1>3, <1>5, <1>6, <1>8, <2>1, <2>2 DEF BackupHolds, Finished
    <2> QED BY <1>3, <1>5, <1>6, <2>3 DEF BecomesOf
<1>10. LosesOnly(b, {}, S)
    <2>1. \A q \in Requests : req[q].step \in Holding => op[req[q].op].backup # b
        BY RowFreeMeans
    <2>2. files' = [files EXCEPT ![b] = @ \ {}]
        BY <1>3 DEF IInv, TypeOK
    <2> QED BY <2>1, <2>2 DEF LosesOnly, Over
<1>11. OldRowsOnly /\ faults' \in 0 .. MaxFaults
    BY DEF OldRowsOnly, IInv, TypeOK
<1> QED BY <1>7, <1>9, <1>10, <1>11, BackupChanges

LEMMA GateRestoreKeepsIInv ==
    ASSUME IInv, NEW r \in Requests, GateRestore(r) PROVE IInv'
<1>1. PICK o \in DOMAIN op :
          /\ RestoreIdentity(o)
          /\ \/ Refuse(o) /\ UNCHANGED req
             \/ /\ req' = [req EXCEPT ![r].step = "load", ![r].op = o]
                /\ UNCHANGED <<op, backup>>
    BY DEF GateRestore
<1>2. /\ req[r].step = "idle" /\ BarrierFree
      /\ UNCHANGED <<rows, bucket, files, closing, now, faults>>
    BY DEF GateRestore
<1>3. CASE Refuse(o) /\ UNCHANGED req
    <2>1. /\ {} \in SUBSET Requests /\ \A p, q \in {} : p = q
          /\ req' \in [Requests -> Request]
          /\ \A q \in {} : req'[q] = Idle
          /\ \A q \in Requests \ {} : req'[q] = req[q]
        BY <1>3 DEF IInv, TypeOK
    <2> QED BY <1>1, <1>2, <1>3, <2>1, RefuseKeepsIInv
<1>4. CASE /\ req' = [req EXCEPT ![r].step = "load", ![r].op = o]
           /\ UNCHANGED <<op, backup>>
    <2>0. PICK x : x = [Idle EXCEPT !.step = "load", !.op = o]
        OBVIOUS
    <2>1. /\ x \in Request /\ x.step = "load" /\ x.op = o /\ x.mine = {}
          /\ req[r] = Idle /\ \A y : Apart(x, y)
        <3>1. o \in Ops /\ req[r] = Idle
            BY <1>2, IdleIsInformed, OperationsType DEF IInv
        <3>2. x \in Request /\ x.step = "load" /\ x.op = o /\ x.mine = {}
            BY <2>0, <3>1, StartsAtWork DEF Steps
        <3> QED BY <3>1, <3>2 DEF Apart
    <2>2. req' = [req EXCEPT ![r] = x]
        BY <1>4, <2>0, <2>1
    <2>3. Informed(x) /\ Owning(x) /\ x.step \notin Holding
        BY <1>1, <2>1 DEF Informed, Owning, Preparing, Restoring, Holding, RestoreIdentity
    <2>4. faults' \in 0 .. MaxFaults
        BY <1>2 DEF IInv, TypeOK
    <2> QED BY <1>2, <1>4, <2>1, <2>2, <2>3, <2>4, RequestMoves
<1> QED BY <1>1, <1>3, <1>4

LEMMA LoadPackageKeepsIInv ==
    ASSUME IInv, NEW r \in Requests, LoadPackage(r) PROVE IInv'
<1>1. PICK o, b : o = req[r].op /\ b = op[o].backup
    OBVIOUS
<1>2. /\ req[r].step = "load"
      /\ \/ req' = [req EXCEPT ![r].step = "loaded", ![r].snap = backup[b].snap]
         \/ Stop(r)
      /\ UNCHANGED <<rows, bucket, op, backup, files, closing, now, faults>>
    BY <1>1 DEF LoadPackage
<1>3. o \in DOMAIN op /\ op[o].type = "RESTORE" /\ req[r] \in Request
    BY <1>1, <1>2, IdleIsInformed DEF Informed, Restoring
<1>4. b \in Ops /\ backup[b].snap \in Rows /\ faults' \in 0 .. MaxFaults
    BY <1>1, <1>2, <1>3, RestoresOfSucceeded DEF IInv, TypeOK, Backup
<1>5. CASE Stop(r)
    BY <1>2, <1>4, <1>5, RequestStops
<1>6. CASE req' = [req EXCEPT ![r].step = "loaded", ![r].snap = backup[b].snap]
    <2> DEFINE x == [req[r] EXCEPT !.step = "loaded", !.snap = backup[b].snap]
    <2>1. /\ x \in Request /\ x.step = "loaded" /\ x.op = o /\ x.snap = backup[b].snap
          /\ req' = [req EXCEPT ![r] = x]
        BY <1>1, <1>3, <1>4, <1>6 DEF Request, Steps
    <2> HIDE DEF x
    <2>2. Informed(x)
        BY <1>1, <1>3, <2>1 DEF Informed, Preparing, Restoring
    <2>3. Owning(x) /\ x.step \notin Holding /\ \A y : Apart(x, y)
        BY <2>1 DEF Owning, Preparing, Holding, Apart
    <2> QED BY <1>2, <1>4, <2>1, <2>2, <2>3, RequestMoves
<1> QED BY <1>2, <1>5, <1>6

LEMMA BeginRestoreKeepsIInv ==
    ASSUME IInv, NEW r \in Requests, BeginRestore(r) PROVE IInv'
<1>1. PICK o, b : o = req[r].op /\ b = op[o].backup
    OBVIOUS
<1>2. /\ req[r].step = "loaded"
      /\ \/ Stop(r) /\ UNCHANGED <<op, backup>>
         \/ BarrierFree /\ RestoreIdentity(o) /\ Refuse(o) /\ Stop(r)
         \/ /\ BarrierFree /\ RestoreIdentity(o)
            /\ req' = [req EXCEPT ![r].step = "upload", ![r].todo = req[r].snap.photos]
            /\ UNCHANGED <<op, backup>>
      /\ UNCHANGED <<rows, bucket, files, closing, now, faults>>
    BY <1>1 DEF BeginRestore
<1>3. /\ o \in DOMAIN op /\ op[o].type = "RESTORE" /\ req[r] \in Request
      /\ req[r].snap = backup[b].snap
    BY <1>1, <1>2, IdleIsInformed DEF Informed, Restoring
<1>4. faults' \in 0 .. MaxFaults
    BY <1>2 DEF IInv, TypeOK
<1>5. CASE Stop(r) /\ UNCHANGED <<op, backup>>
    BY <1>2, <1>4, <1>5, RequestStops
<1>6. CASE BarrierFree /\ RestoreIdentity(o) /\ Refuse(o) /\ Stop(r)
    <2>1. StopsOnly(r)
        BY <1>6, StopStopsOnly
    <2>2. /\ {r} \in SUBSET Requests /\ \A p, q \in {r} : p = q
          /\ req' \in [Requests -> Request]
          /\ \A q \in {r} : req'[q] = Idle
          /\ \A q \in Requests \ {r} : req'[q] = req[q]
        BY <2>1 DEF StopsOnly
    <2> QED BY <1>2, <1>3, <1>6, <2>2, RefuseKeepsIInv
<1>7. CASE /\ BarrierFree /\ RestoreIdentity(o)
           /\ req' = [req EXCEPT ![r].step = "upload", ![r].todo = req[r].snap.photos]
           /\ UNCHANGED <<op, backup>>
    <2> DEFINE x == [req[r] EXCEPT !.step = "upload", !.todo = req[r].snap.photos]
    <2>1. /\ x \in Request /\ x.step = "upload" /\ x.op = o /\ x.snap = backup[b].snap
          /\ req' = [req EXCEPT ![r] = x]
        BY <1>1, <1>3, <1>7 DEF Request, Steps, Rows
    <2> HIDE DEF x
    <2>2. Informed(x)
        BY <1>1, <1>3, <1>7, <2>1 DEF Informed, Preparing, Restoring, RestoreIdentity
    <2>3. Owning(x) /\ \A y : Apart(x, y)
        BY <2>1 DEF Owning, Preparing, Apart
    <2>4. \A q \in Requests : req[q].step \notin Holding
        BY <1>7 DEF BarrierFree, BarrierHolders, Holding
    <2> QED BY <1>2, <1>4, <1>7, <2>1, <2>2, <2>3, <2>4, RequestMoves
<1> QED BY <1>2, <1>5, <1>6, <1>7

LEMMA StepsThatOnlyStop ==
    ASSUME IInv, NEW r \in Requests, ImportFails(r) \/ Abort(r) PROVE IInv'
<1>1. faults' \in 0 .. MaxFaults
    BY FaultType DEF ImportFails, Abort
<1>2. CASE Abort(r)
    BY <1>1, <1>2, RequestStops DEF Abort
<1>3. CASE ImportFails(r)
    <2>1. /\ req[r].step = "upload" /\ Goto(r, "compensate")
          /\ UNCHANGED <<rows, bucket, op, backup, files, closing, now>>
        BY <1>3 DEF ImportFails
    <2> QED BY <1>1, <2>1, RequestGoes DEF Restoring, Steps
<1> QED BY <1>2, <1>3

-----------------------------------------------------------------------------
(* Executing a reset.                                                      *)

LEMMA ExecuteResetKeepsIInv ==
    ASSUME IInv, NEW r \in Requests, ExecuteReset(r) PROVE IInv'
<1>1. /\ req[r].step = "idle" /\ BarrierFree
      /\ UNCHANGED <<rows, bucket, op, backup, files, closing, now, faults>>
    BY DEF ExecuteReset
<1>2. PICK o \in DOMAIN op :
          \/ /\ ResetEligible(o) /\ SameSnapshot(op[o].backup)
             /\ req' = [req EXCEPT ![r].step = "delete", ![r].op = o,
                                   ![r].todo = backup[op[o].backup].snap.photos]
          \/ /\ op[o].type = "RESET"
             /\ req' = [req EXCEPT ![r].step = "final", ![r].op = o]
    BY DEF ExecuteReset
<1>3. /\ op[o].type = "RESET" /\ op[o].backup = o /\ o \in Ops /\ backup[o] \in Backup
      /\ req[r] = Idle /\ faults' \in 0 .. MaxFaults
    <2>1. op[o].type = "RESET"
        BY <1>2 DEF ResetEligible
    <2> QED BY <1>1, <2>1, ResetsOwnBackup, IdleIsInformed DEF IInv, TypeOK
<1>4. CASE req' = [req EXCEPT ![r].step = "final", ![r].op = o]
    <2>0. PICK x : x = [Idle EXCEPT !.step = "final", !.op = o]
        OBVIOUS
    <2>1. x \in Request /\ x.step = "final" /\ x.op = o /\ x.mine = {}
        BY <1>3, <2>0, StartsAtWork DEF Steps
    <2>2. req' = [req EXCEPT ![r] = x]
        BY <1>3, <1>4, <2>0
    <2>3. Informed(x) /\ Owning(x) /\ x.step \notin Holding /\ \A y : Apart(x, y)
        BY <1>3, <2>1 DEF Informed, Owning, Apart, Preparing, Restoring, Holding
    <2> QED BY <1>1, <1>3, <2>1, <2>2, <2>3, RequestMoves
<1>5. CASE /\ ResetEligible(o) /\ SameSnapshot(o)
           /\ req' = [req EXCEPT ![r].step = "delete", ![r].op = o,
                                 ![r].todo = backup[o].snap.photos]
    <2>0. PICK x : x = [Idle EXCEPT !.step = "delete", !.op = o, !.todo = backup[o].snap.photos]
        OBVIOUS
    <2>1. /\ x \in Request /\ x.step = "delete" /\ x.op = o /\ x.mine = {}
          /\ x.todo = backup[o].snap.photos
        <3>2. backup[o].snap.photos \in SUBSET Photos
            BY <1>3 DEF Backup, Rows
        <3>3. Idle \in Request /\ Idle.mine = {} /\ o \in 0 .. MaxOps
            BY <1>3, IdleType, ConstantsAssumption DEF Ops
        <3> QED BY <2>0, <3>2, <3>3 DEF Request, Steps
    <2>2. req' = [req EXCEPT ![r] = x]
        BY <1>3, <1>5, <2>0
    <2>3. Informed(x)
        BY <1>3, <1>5, <2>1 DEF Informed, ResetEligible, SameSnapshot, Export, Preparing, Restoring
    <2>4. Owning(x) /\ \A y : Apart(x, y)
        BY <2>1 DEF Owning, Apart, Preparing
    <2>5. \A q \in Requests : req[q].step \notin Holding
        BY <1>1 DEF BarrierFree, BarrierHolders, Holding
    <2> QED BY <1>1, <1>3, <2>1, <2>2, <2>3, <2>4, <2>5, RequestMoves
<1> QED BY <1>2, <1>3, <1>4, <1>5

\* What is deleted from the bucket is in the verified package.
LEMMA DeleteAvatarKeepsIInv ==
    ASSUME IInv, NEW r \in Requests, DeleteAvatar(r) PROVE IInv'
<1>1. PICK o, s : o = req[r].op /\ s = op[o].sem
    OBVIOUS
<1>2. PICK p \in req[r].todo :
          /\ bucket' = [bucket EXCEPT ![s] = @ \ {p}]
          /\ req' = [req EXCEPT ![r].todo = @ \ {p}]
    BY <1>1 DEF DeleteAvatar
<1>3. /\ req[r].step = "delete" /\ req[r] \in Request /\ Informed(req[r]) /\ Owning(req[r])
      /\ UNCHANGED <<rows, op, backup, files, closing, now, faults>>
    BY IdleIsInformed DEF DeleteAvatar
<1>4. /\ o \in DOMAIN op /\ op[o].type = "RESET" /\ op[o].state = "RUNNING"
      /\ backup[op[o].backup].verified /\ p \in backup[op[o].backup].snap.photos
    BY <1>1, <1>3 DEF Informed, Preparing
<1>5. op[o].backup = o /\ s = Current /\ Current \in Semesters
    BY <1>1, <1>4, ResetsOwnBackup, CurrentType DEF IInv, OperationsFit
<1>6. PICK x : x = [req[r] EXCEPT !.todo = @ \ {p}]
    OBVIOUS
<1>7. /\ x \in Request /\ x.step = "delete" /\ x.op = o /\ x.mine = {}
      /\ x.todo \subseteq req[r].todo
    <2>1. req[r].mine = {}
        BY <1>3 DEF Owning, Preparing
    <2> QED BY <1>1, <1>3, <1>6, <2>1 DEF Request
<1>8. req' = [req EXCEPT ![r] = x]
    BY <1>2, <1>6
<1>9. Informed(x)
    BY <1>1, <1>3, <1>7 DEF Informed, Preparing, Restoring
<1>10. Owning(x) /\ \A y : Apart(x, y)
    BY <1>7 DEF Owning, Apart, Preparing
<1>11. \A q \in Requests \ {r} : req[q].step \notin Holding
    BY <1>3 DEF IInv, RequestsKnow, Holding
<1>12. bucket' \in [Semesters -> SUBSET Photos] /\ faults' \in 0 .. MaxFaults
    BY <1>2, <1>3, <1>5 DEF IInv, TypeOK
<1>13. PicturesCovered'
    <2>1. Current' = Current
        BY <1>3, SameOperationsKeep
    <2>2. bucket'[Current] = bucket[Current] \ {p}
        BY <1>2, <1>5 DEF IInv, TypeOK
    <2>3. UNCHANGED <<rows, op, backup>>
        BY <1>3
    <2>4. ASSUME NEW t \in rows[Current].photos
          PROVE  \/ t \in bucket'[Current]
                 \/ \E a \in DOMAIN op :
                       /\ op[a].type = "RESET" /\ op[a].sem = Current
                       /\ backup[a].verified /\ t \in backup[a].snap.photos
        <3>1. CASE t = p
            BY <1>1, <1>4, <1>5, <3>1
        <3>2. CASE t # p
            BY <2>2, <3>2 DEF PicturesCovered, IInv
        <3> QED BY <3>1, <3>2
    <2> QED BY <2>1, <2>3, <2>4 DEF PicturesCovered
<1> QED BY <1>3, <1>7, <1>8, <1>9, <1>10, <1>11, <1>12, <1>13, RequestMovesPictures

-----------------------------------------------------------------------------
(* Executing a restore.                                                    *)

\* The pictures of a closed semester are not those of the current one.
LEMMA OldPicturesChange ==
    ASSUME IInv, NEW s \in Semesters, s < Current, NEW v \in SUBSET Photos,
           bucket' = [bucket EXCEPT ![s] = v], UNCHANGED <<rows, op, backup>>
    PROVE  bucket' \in [Semesters -> SUBSET Photos] /\ PicturesCovered'
<1>1. bucket' \in [Semesters -> SUBSET Photos]
    BY DEF IInv, TypeOK
<1>2. Current \in Semesters /\ Current \in Nat
    BY CurrentType DEF IInv
<1>3. bucket'[Current] = bucket[Current]
    BY <1>2 DEF IInv, TypeOK
<1> QED BY <1>1, <1>3, SameOperationsKeep, PicturesStay

LEMMA RestoringRequest ==
    ASSUME IInv, NEW r \in Requests, req[r].step \in Restoring
    PROVE  LET o == req[r].op
           IN  /\ o \in DOMAIN op /\ op[o].type = "RESTORE" /\ req[r] \in Request
               /\ op[o].sem \in Semesters /\ op[o].sem < Current
               /\ bucket[op[o].sem] \in SUBSET Photos
<1>1. req[r].op \in DOMAIN op /\ op[req[r].op].type = "RESTORE" /\ req[r] \in Request
    BY IdleIsInformed DEF Informed
<1> QED BY <1>1, RestoresOfSucceeded DEF IInv, TypeOK

LEMMA RestoreAvatarKeepsIInv ==
    ASSUME IInv, NEW r \in Requests, RestoreAvatar(r) PROVE IInv'
<1>1. PICK o, s : o = req[r].op /\ s = op[o].sem
    OBVIOUS
<1>2. PICK p \in req[r].todo :
          /\ bucket' = [bucket EXCEPT ![s] = @ \union {p}]
          /\ req' = [req EXCEPT ![r].todo = @ \ {p},
                                ![r].mine = @ \union ({p} \ bucket[s])]
    BY <1>1 DEF RestoreAvatar
<1>3. /\ req[r].step = "upload" /\ req[r].step \in Restoring
      /\ UNCHANGED <<rows, op, backup, files, closing, now, faults>>
    BY DEF RestoreAvatar, Restoring
<1>4. /\ o \in DOMAIN op /\ op[o].type = "RESTORE" /\ req[r] \in Request
      /\ s \in Semesters /\ s < Current /\ bucket[s] \in SUBSET Photos
    BY <1>1, <1>3, RestoringRequest
<1>5. PICK x : x = [req[r] EXCEPT !.todo = @ \ {p}, !.mine = @ \union ({p} \ bucket[s])]
    OBVIOUS
<1>6. /\ x \in Request /\ x.step = "upload" /\ x.op = o /\ x.snap = req[r].snap
      /\ req' = [req EXCEPT ![r] = x] /\ p \in Photos
    BY <1>1, <1>2, <1>3, <1>4, <1>5 DEF Request
<1>7. Informed(x)
    BY <1>1, <1>3, <1>6, IdleIsInformed DEF Informed, Preparing, Restoring
<1>8. Owning(x) /\ \A y : Apart(x, y)
    BY <1>6 DEF Owning, Apart, Preparing
<1>9. \A q \in Requests \ {r} : req[q].step \notin Holding
    BY <1>3 DEF IInv, RequestsKnow, Holding
<1>10. faults' \in 0 .. MaxFaults
    BY <1>3 DEF IInv, TypeOK
<1>11. bucket' \in [Semesters -> SUBSET Photos] /\ PicturesCovered'
    <2>1. PICK v \in SUBSET Photos : v = bucket[s] \union {p}
        BY <1>4, <1>6
    <2>2. bucket' = [bucket EXCEPT ![s] = v]
        BY <1>2, <2>1
    <2> QED BY <1>3, <1>4, <2>2, OldPicturesChange
<1> QED BY <1>3, <1>6, <1>7, <1>8, <1>9, <1>10, <1>11, RequestMovesPictures

\* A restore that takes its pictures back takes only those of its semester.
LEMMA RestoreEndsKeepsIInv ==
    ASSUME IInv, NEW r \in Requests, RestoreAvatarFails(r) \/ Compensate(r) PROVE IInv'
<1>1. PICK o, s : o = req[r].op /\ s = op[o].sem
    OBVIOUS
<1>2. /\ req[r].step \in Restoring /\ Stop(r)
      /\ bucket' = [bucket EXCEPT ![s] = @ \ req[r].mine]
      /\ UNCHANGED <<rows, op, backup, files, closing, now>>
    BY <1>1 DEF RestoreAvatarFails, Compensate, Restoring
<1>3. s \in Semesters /\ s < Current /\ bucket[s] \in SUBSET Photos
    BY <1>1, <1>2, RestoringRequest
<1>4. faults' \in 0 .. MaxFaults
    BY FaultType DEF RestoreAvatarFails, Compensate, IInv, TypeOK
<1>5. bucket' \in [Semesters -> SUBSET Photos] /\ PicturesCovered'
    <2>1. PICK v \in SUBSET Photos : v = bucket[s] \ req[r].mine
        BY <1>3
    <2>2. bucket' = [bucket EXCEPT ![s] = v]
        BY <1>2, <2>1
    <2> QED BY <1>2, <1>3, <2>2, OldPicturesChange
<1>6. req' = [req EXCEPT ![r] = Idle]
    BY <1>2 DEF Stop
<1> QED BY <1>2, <1>4, <1>5, <1>6, IdleType, RequestMovesPictures DEF Holding

LEMMA CommitRestoreKeepsIInv ==
    ASSUME IInv, NEW r \in Requests, CommitRestore(r) PROVE IInv'
<1>1. PICK o, s, b : o = req[r].op /\ s = op[o].sem /\ b = op[o].backup
    OBVIOUS
<1>2. /\ req[r].step = "upload" /\ req[r].step \in Restoring
      /\ \/ Imported(o, req[r].snap) /\ Stop(r)
         \/ Goto(r, "compensate") /\ UNCHANGED <<rows, op, backup>>
      /\ UNCHANGED <<bucket, files, closing, now, faults>>
    BY <1>1 DEF CommitRestore, Restoring
<1>3. /\ o \in DOMAIN op /\ op[o].type = "RESTORE" /\ req[r] \in Request
      /\ s \in Semesters /\ s < Current
    BY <1>1, <1>2, RestoringRequest
<1>4. b \in Ops /\ backup[b] \in Backup /\ BackupHolds(b) /\ op[o] \in Operation
      /\ b \in Succeeded
    BY <1>1, <1>3, RestoresOfSucceeded, OperationsType DEF IInv, TypeOK, BackupsHold
<1>5. faults' \in 0 .. MaxFaults
    BY <1>2 DEF IInv, TypeOK
<1>6. CASE Goto(r, "compensate") /\ UNCHANGED <<rows, op, backup>>
    BY <1>2, <1>5, <1>6, RequestGoes DEF Steps
<1>7. CASE Imported(o, req[r].snap) /\ Stop(r)
    <2>1. PICK v, w, snap :
            /\ v = [op[o] EXCEPT !.state = "SUCCEEDED", !.completed = now]
            /\ w = [backup[b] EXCEPT !.restored = TRUE]
            /\ snap = req[r].snap
        OBVIOUS
    <2>2. /\ v \in Operation /\ v.type = "RESTORE" /\ v.state = "SUCCEEDED"
          /\ v.sem = op[o].sem /\ v.backup = b
        BY <1>1, <1>3, <1>4, <2>1 DEF Operation, IInv, TypeOK
    <2>3. /\ w \in Backup /\ w.db = backup[b].db /\ w.av = backup[b].av
          /\ w.snap = backup[b].snap /\ w.verified = backup[b].verified
          /\ w.state = backup[b].state /\ w.expires = backup[b].expires
        BY <1>4, <2>1 DEF Backup
    <2>4. op' = [op EXCEPT ![o] = v] /\ backup' = [backup EXCEPT ![b] = w]
          /\ rows' = [rows EXCEPT ![s] = snap]
        BY <1>1, <1>7, <2>1 DEF Imported
    <2>5. /\ op' \in Seq(Operation) /\ Len(op') <= MaxOps /\ DOMAIN op' = DOMAIN op
          /\ \A p \in DOMAIN op : op'[p] = IF p = o THEN v ELSE op[p]
        BY <1>3, <2>2, <2>4, OperationChanges DEF IInv
    <2>6. op[o].state = "RUNNING"
        BY <1>1, <1>2, IdleIsInformed DEF Informed
    <2>7. OperationsGoOn(b)
        BY <1>1, <1>3, <2>2, <2>5, <2>6 DEF OperationsGoOn, OperationsKeep, Succeeded, Done
    <2>8. BecomesOf(b, w)
        <3>1. backup'[b] = w /\ UNCHANGED <<files, now>>
            BY <1>2, <1>4, <2>4 DEF IInv, TypeOK
        <3>2. b \in Succeeded' /\ op'[b] = op[b]
            BY <1>4, <2>7 DEF OperationsGoOn, OperationsKeep, Succeeded, Done
        <3>3. Whole(b) => Whole(b)'
            BY <2>3, <3>1 DEF Whole, Package
        <3>4. BackupHolds(b)'
            BY <1>4, <2>3, <3>1, <3>2, <3>3 DEF BackupHolds
        <3> QED BY <1>4, <2>3, <2>4, <3>4 DEF BecomesOf
    <2>9. LosesOnly(b, {}, {r})
        <3>1. StopsOnly(r)
            BY <1>7, StopStopsOnly
        <3>2. files' = [files EXCEPT ![b] = @ \ {}]
            BY <1>2, <1>4 DEF IInv, TypeOK
        <3>3. \A q \in Requests \ {r} : req[q].step \notin Holding
            BY <1>2 DEF IInv, RequestsKnow, Holding
        <3> QED BY <3>1, <3>2, <3>3 DEF LosesOnly, StopsOnly, Over
    <2>10. OldRowsOnly
        <3>1. snap \in Rows
            BY <1>3, <2>1 DEF Request
        <3>2. Semesters \subseteq Nat /\ Current \in Nat
            BY CurrentType DEF IInv
        <3> QED BY <1>3, <2>4, <3>1, <3>2 DEF OldRowsOnly, IInv, TypeOK
    <2> QED BY <1>2, <1>5, <2>7, <2>8, <2>9, <2>10, BackupChanges
<1> QED BY <1>1, <1>2, <1>6, <1>7

-----------------------------------------------------------------------------
(* A reset succeeds, and a semester is closed.                             *)

LEMMA CurrentIsASemester == TypeOK => Current \in Semesters
BY CurrentType

LEMMA NextSemester ==
    ASSUME TypeOK, NEW o, o \notin Succeeded, Succeeded' = Succeeded \union {o}
    PROVE  Current' = Current + 1
<1>1. IsFiniteSet(Succeeded)
    BY CurrentType
<1>2. Cardinality(Succeeded') = Cardinality(Succeeded) + 1
    BY <1>1, FS_AddElement
<1>3. Cardinality(Succeeded) \in Nat
    BY <1>1, FS_CardinalityType
<1> QED BY <1>2, <1>3 DEF Current, Succeeded

LEMMA CommitResetKeepsIInv ==
    ASSUME IInv, NEW r \in Requests, CommitReset(r) PROVE IInv'
<1>1. PICK o, c : o = req[r].op /\ c = Current
    OBVIOUS
<1>2. /\ req[r].step = "delete" /\ req[r].step \in Preparing /\ req[r].step \in Holding
      /\ rows' = [rows EXCEPT ![op[o].sem] = NoRows]
      /\ closing' = [closing EXCEPT ![op[o].sem] = rows[op[o].sem]]
      /\ op' = [op EXCEPT ![o].state = "SUCCEEDED", ![o].completed = now]
      /\ req' = [req EXCEPT ![r].step = "final"]
      /\ UNCHANGED <<bucket, backup, files, now, faults>>
    BY <1>1 DEF CommitReset, Goto, Preparing, Holding
<1>3. /\ o \in DOMAIN op /\ op[o].type = "RESET" /\ op[o].state = "RUNNING"
      /\ backup[op[o].backup].verified /\ backup[op[o].backup].snap = rows[c]
      /\ req[r] \in Request /\ req[r].mine = {}
    BY <1>1, <1>2, IdleIsInformed DEF Informed, Owning, Preparing
<1>4. op[o].backup = o /\ o \in Ops /\ op[o].sem = c /\ op[o] \in Operation
    BY <1>1, <1>3, ResetsOwnBackup, OperationsType DEF IInv, OperationsFit
<1>5. /\ c \in Semesters /\ c \in Nat /\ Semesters \subseteq Nat
      /\ Succeeded \subseteq DOMAIN op /\ Succeeded \subseteq Ops
    BY <1>1, CurrentType DEF IInv
<1>6. PICK v : v = [op[o] EXCEPT !.state = "SUCCEEDED", !.completed = now]
    OBVIOUS
<1>7. /\ v \in Operation /\ v.type = "RESET" /\ v.state = "SUCCEEDED"
      /\ v.sem = c /\ v.backup = o
    BY <1>3, <1>4, <1>6 DEF Operation, IInv, TypeOK
<1>8. /\ op' \in Seq(Operation) /\ Len(op') <= MaxOps /\ DOMAIN op' = DOMAIN op
      /\ \A p \in DOMAIN op : op'[p] = IF p = o THEN v ELSE op[p]
    <2>1. op' = [op EXCEPT ![o] = v]
        BY <1>2, <1>6
    <2> QED BY <1>3, <1>7, <2>1, OperationChanges DEF IInv
<1>9. OperationsKeep /\ BackupsKeep
    BY <1>2, <1>3, <1>4, <1>7, <1>8 DEF OperationsKeep, BackupsKeep
<1>10. o \notin Succeeded /\ Succeeded' = Succeeded \union {o}
    BY <1>3, <1>7, <1>8 DEF Succeeded, Done
<1>11. Current' = c + 1
    BY <1>1, <1>10, NextSemester DEF IInv
<1>12. /\ \A s \in Semesters : rows'[s] = IF s = c THEN NoRows ELSE rows[s]
       /\ \A s \in Semesters : closing'[s] = IF s = c THEN rows[c] ELSE closing[s]
    BY <1>2, <1>4 DEF IInv, TypeOK
<1>13. TypeOK'
    <2>1. rows' \in [Semesters -> Rows] /\ closing' \in [Semesters -> Rows]
        <3>1. NoRows \in Rows
            BY ConstantsAssumption DEF NoRows, Rows
        <3>2. rows[c] \in Rows
            BY <1>5 DEF IInv, TypeOK
        <3> QED BY <1>2, <1>4, <3>1, <3>2 DEF IInv, TypeOK
    <2>2. req' \in [Requests -> Request]
        <3>1. [req[r] EXCEPT !.step = "final"] \in Request
            BY <1>3 DEF Request, Steps
        <3>2. req' = [req EXCEPT ![r] = [req[r] EXCEPT !.step = "final"]]
            BY <1>2
        <3> QED BY <3>1, <3>2 DEF IInv, TypeOK
    <2> QED BY <1>2, <1>8, <2>1, <2>2 DEF IInv, TypeOK
<1>14. OperationsFit'
    <2>1. \A p \in DOMAIN op :
            /\ op[p].type = "RESET" => op[p].backup = p
            /\ op[p].type = "RESTORE" =>
                  op[p].backup \in Succeeded /\ op[p].sem = op[op[p].backup].sem
        BY DEF IInv, OperationsFit
    <2>2. \A p \in DOMAIN op : p # o => op[p].state # "RUNNING"
        BY <1>3 DEF IInv, OperationsFit
    <2>3. \A p \in DOMAIN op' : op'[p].state # "RUNNING"
        BY <1>7, <1>8, <2>2
    <2>4. \A p \in DOMAIN op' :
            /\ op'[p].type = "RESET" => op'[p].backup = p
            /\ op'[p].type = "RESTORE" =>
                  op'[p].backup \in Succeeded' /\ op'[p].sem = op'[op'[p].backup].sem
        BY <1>5, <1>7, <1>8, <1>10, <2>1
    <2> QED BY <2>3, <2>4 DEF OperationsFit
<1>15. Succession'
    <2>1. \A p \in Succeeded :
            /\ op'[p] = op[p] /\ op[p].sem < c /\ op[p].sem \in Semesters
            /\ backup'[p].verified /\ backup'[p].snap = closing'[op[p].sem]
        <3> TAKE p \in Succeeded
        <3>1. /\ op'[p] = op[p] /\ op[p].sem < c /\ op[p].sem \in Semesters
              /\ backup[p].verified /\ backup[p].snap = closing[op[p].sem]
            <4>1. op[p].sem \in Semesters
                BY <1>5, OperationsType DEF IInv, Operation
            <4>2. p # o /\ p \in DOMAIN op
                BY <1>5, <1>10
            <4> QED BY <1>1, <1>8, <4>1, <4>2 DEF IInv, Succession
        <3>2. op[p].sem # c
            BY <1>5, <3>1
        <3> QED BY <1>2, <1>12, <3>1, <3>2
    <2>2. op'[o].sem = c /\ backup'[o].verified /\ backup'[o].snap = closing'[c]
        BY ZenonT(40), <1>2, <1>3, <1>4, <1>5, <1>7, <1>8, <1>12
    <2>3. \A p \in Succeeded' :
            /\ op'[p].sem < Current' /\ backup'[p].verified
            /\ backup'[p].snap = closing'[op'[p].sem]
        <3>1. c < c + 1
            BY <1>5
        <3>2. \A p \in Succeeded : op[p].sem < c + 1
            <4>1. \A s \in Semesters : s < c => s < c + 1
                BY <1>5
            <4> QED BY <2>1, <4>1
        <3> QED BY <1>10, <1>11, <2>1, <2>2, <3>1, <3>2
    <2>4. \A p, q \in Succeeded' : op'[p].sem = op'[q].sem => p = q
        <3>1. \A p, q \in Succeeded : op[p].sem = op[q].sem => p = q
            BY DEF IInv, Succession
        <3>2. \A p \in Succeeded : op'[p].sem = op[p].sem /\ op'[p].sem # c
            BY <1>5, <2>1
        <3> QED BY <1>10, <2>2, <3>1, <3>2
    <2>5. \A s \in Semesters : s < Current' => \E p \in Succeeded' : op'[p].sem = s
        <3>1. \A s \in Semesters : s < c => \E p \in Succeeded : op[p].sem = s
            BY <1>1 DEF IInv, Succession, Closed
        <3>2. \A s \in Semesters : s < Current' => s < c \/ s = c
            BY <1>5, <1>11
        <3> QED BY <1>10, <2>1, <2>2, <3>1, <3>2
    <2>6. \A s \in Semesters : s > Current' => rows'[s] = NoRows
        <3>1. \A s \in Semesters : s > Current' => s > c /\ s # c
            BY <1>5, <1>11
        <3> QED BY <1>1, <1>12, <3>1 DEF IInv, Succession
    <2> QED BY <2>3, <2>4, <2>5, <2>6 DEF Succession, Closed
<1>16. BackupsHold'
    <2>1. now \in Nat
        BY ConstantsAssumption DEF IInv, TypeOK
    <2> QED BY <1>2, <1>9, <2>1, BackupStays DEF IInv, BackupsHold
<1>17. PicturesCovered'
    <2>1. (Current \in Semesters)'
        BY <1>13, CurrentIsASemester, PTL
    <2>2. rows'[Current'] = NoRows
        BY <1>1, <1>5, <1>11, <1>12, <2>1 DEF IInv, Succession
    <2>3. rows'[Current'].photos = {}
        BY <2>2 DEF NoRows
    <2> QED BY <2>3 DEF PicturesCovered
<1>18. RequestsKnow' /\ UploadsOwned'
    <2>1. PICK x : x = [req[r] EXCEPT !.step = "final"]
        OBVIOUS
    <2>2. x.step = "final" /\ x.op = o /\ x.mine = {}
        BY <1>1, <1>3, <2>1 DEF Request
    <2>3. \A q \in Requests : req'[q] = IF q = r THEN x ELSE req[q]
        BY <1>2, <2>1 DEF IInv, TypeOK
    <2>4. Informed(x)' /\ Owning(x)'
        BY <1>3, <1>7, <1>8, <2>2 DEF Informed, Owning, Preparing, Restoring
    <2>5. \A q \in Requests \ {r} : req[q].step \notin Holding
        BY <1>2 DEF IInv, RequestsKnow
    <2>6. \A q \in Requests \ {r} : Untouched(req[q]) /\ Apart(x, req[q])
        BY <1>2, <2>2, IdleIsInformed DEF Untouched, Apart, Owning
    <2> QED BY <1>9, <2>2, <2>3, <2>4, <2>5, <2>6, OthersGoOn
<1> QED BY <1>13, <1>14, <1>15, <1>16, <1>17, <1>18 DEF IInv

-----------------------------------------------------------------------------
(* Everything else.                                                        *)

LEMMA BarrierFreeMeans ==
    ASSUME BarrierFree PROVE \A q \in Requests : req[q].step \notin Holding
BY DEF BarrierFree, BarrierHolders, Holding

\* A restore is of a reset that succeeded.
LEMMA PrepareRestoreKeepsIInv == ASSUME IInv, PrepareRestore PROVE IInv'
<1>1. /\ BarrierFree /\ Running = {} /\ Len(op) < MaxOps
      /\ UNCHANGED <<rows, bucket, backup, files, req, closing, now, faults>>
    BY DEF PrepareRestore
<1>2. PICK o, v :
         /\ o \in DOMAIN op /\ LatestReset(o)
         /\ v = [type |-> "RESTORE", state |-> "RUNNING", sem |-> op[o].sem,
                 backup |-> op[o].backup, completed |-> 0]
         /\ op' = Append(op, v)
    BY DEF PrepareRestore, RestoreEligible
<1>3. PICK n : n = Len(op) + 1
    OBVIOUS
<1>4. o \in Succeeded /\ op[o] \in Operation /\ op[o].backup = o
    <2>1. o \in Succeeded /\ op[o].type = "RESET"
        BY <1>2 DEF LatestReset, Succeeded, Done
    <2> QED BY <1>2, <2>1, ResetsOwnBackup, OperationsType DEF IInv
<1>5. /\ v \in Operation /\ v.type = "RESTORE" /\ v.state = "RUNNING"
      /\ v.sem = op[o].sem /\ v.backup = o
    <2>1. 0 \in 0 .. MaxTime
        BY ConstantsAssumption
    <2> QED BY <1>2, <1>4, <2>1 DEF Operation
<1>6. /\ op' \in Seq(Operation) /\ Len(op') <= MaxOps /\ n \notin DOMAIN op
      /\ DOMAIN op' = DOMAIN op \union {n}
      /\ \A p \in DOMAIN op : op'[p] = op[p]
      /\ op'[n] = v
    BY <1>1, <1>2, <1>3, <1>5, OperationStarts DEF IInv
<1>7. OperationsKeep /\ BackupsKeep
    BY <1>1, <1>6, SameOperationsKeep DEF OperationsKeep
<1>8. Succeeded' = Succeeded /\ Succeeded \subseteq DOMAIN op
    BY <1>5, <1>6 DEF Succeeded, Done
<1>9. Current' = Current
    BY <1>8, SameCurrent
<1>10. TypeOK'
    BY <1>1, <1>6 DEF IInv, TypeOK
<1>11. OperationsFit'
    <2>1. \A p \in DOMAIN op : op[p].state # "RUNNING"
        <3>1. \A p \in DOMAIN op : op[p].type \in {"RESET", "RESTORE"}
            BY OperationsType DEF IInv, Operation
        <3> QED BY <1>1, <3>1 DEF Running, Done
    <2>2. \A p \in DOMAIN op :
            /\ op[p].type = "RESET" => op[p].backup = p
            /\ op[p].type = "RESTORE" =>
                  op[p].backup \in Succeeded /\ op[p].sem = op[op[p].backup].sem
        BY DEF IInv, OperationsFit
    <2> QED BY <1>4, <1>5, <1>6, <1>8, <1>9, <2>1, <2>2 DEF OperationsFit
<1>12. Succession'
    BY <1>1, <1>7, <1>8, HistoryStays
<1>13. BackupsHold'
    <2>1. now \in Nat
        BY ConstantsAssumption DEF IInv, TypeOK
    <2> QED BY <1>1, <1>7, <2>1, BackupStays DEF IInv, BackupsHold
<1>14. PicturesCovered'
    BY <1>1, <1>7, <1>9, PicturesStay
<1>15. RequestsKnow' /\ UploadsOwned'
    <2>1. \A q \in Requests : Untouched(req[q]) /\ req[q].step \notin Holding
        BY <1>1, BarrierFreeMeans, IdleIsInformed DEF Untouched, Owning
    <2> QED BY <1>1, <1>7, <2>1, AllGoOn
<1> QED BY <1>10, <1>11, <1>12, <1>13, <1>14, <1>15 DEF IInv

\* New pictures of the current cohort are in the bucket.
LEMMA StudentWriteKeepsIInv == ASSUME IInv, StudentWrite PROVE IInv'
<1>1. /\ BarrierFree
      /\ UNCHANGED <<op, backup, files, req, closing, now, faults>>
    BY DEF StudentWrite
<1>2. PICK s, photos, w, u :
          /\ s \in 1 .. Current /\ photos \in SUBSET Photos
          /\ rows[s].v < MaxWrites
          /\ w = [v |-> rows[s].v + 1, photos |-> photos]
          /\ u = (bucket[s] \ rows[s].photos) \union photos
          /\ rows' = [rows EXCEPT ![s] = w] /\ bucket' = [bucket EXCEPT ![s] = u]
    BY DEF StudentWrite
<1>3. /\ Current \in Semesters /\ Current \in Nat /\ Semesters \subseteq Nat
      /\ s \in Semesters /\ s <= Current
    <2>1. Current \in Semesters /\ Current \in Nat /\ Semesters \subseteq Nat
        BY CurrentType DEF IInv
    <2>2. MaxOps \in Nat
        BY ConstantsAssumption
    <2> QED BY <1>2, <2>1, <2>2 DEF Semesters
<1>4. w \in Rows /\ w.photos = photos /\ u \in SUBSET Photos
    <2>1. rows[s] \in Rows /\ bucket[s] \in SUBSET Photos /\ MaxWrites \in Nat
        BY <1>3, ConstantsAssumption DEF IInv, TypeOK
    <2>2. rows[s].v + 1 \in 0 .. MaxWrites
        BY <1>2, <2>1 DEF Rows
    <2> QED BY <1>2, <2>1, <2>2 DEF Rows
<1>5. /\ \A t \in Semesters : rows'[t] = IF t = s THEN w ELSE rows[t]
      /\ \A t \in Semesters : bucket'[t] = IF t = s THEN u ELSE bucket[t]
    BY <1>2, <1>3 DEF IInv, TypeOK
<1>6. TypeOK'
    <2>1. rows' \in [Semesters -> Rows] /\ bucket' \in [Semesters -> SUBSET Photos]
        BY <1>2, <1>3, <1>4 DEF IInv, TypeOK
    <2> QED BY <1>1, <2>1 DEF IInv, TypeOK
<1>7. /\ OperationsKeep /\ BackupsKeep
      /\ Succeeded' = Succeeded /\ Current' = Current
    BY <1>1, SameOperationsKeep
<1>8. OperationsFit'
    BY <1>1, <1>7, OperationsStay
<1>9. Succession'
    <2>1. \A t \in Semesters : t > Current => t # s
        BY <1>3
    <2> QED BY <1>1, <1>5, <1>7, <2>1, HistoryStays
<1>10. BackupsHold'
    <2>1. now \in Nat
        BY ConstantsAssumption DEF IInv, TypeOK
    <2> QED BY <1>1, <1>7, <2>1, BackupStays DEF IInv, BackupsHold
<1>11. PicturesCovered'
    <2>1. CASE s = Current
        <3>1. rows'[Current].photos \subseteq bucket'[Current]
            BY <1>2, <1>3, <1>4, <1>5, <2>1
        <3> QED BY <1>7, <3>1 DEF PicturesCovered
    <2>2. CASE s # Current
        <3>1. rows'[Current] = rows[Current] /\ bucket'[Current] = bucket[Current]
            BY <1>3, <1>5, <2>2
        <3> QED BY <1>7, <3>1, PicturesStay
    <2> QED BY <2>1, <2>2
<1>12. RequestsKnow' /\ UploadsOwned'
    <2>1. \A q \in Requests : Untouched(req[q]) /\ req[q].step \notin Holding
        BY <1>1, BarrierFreeMeans, IdleIsInformed DEF Untouched, Owning
    <2> QED BY <1>1, <1>7, <2>1, AllGoOn
<1> QED BY <1>6, <1>8, <1>9, <1>10, <1>11, <1>12 DEF IInv

LEMMA TickKeepsIInv ==
    ASSUME IInv, now' \in now .. MaxTime,
           UNCHANGED <<rows, bucket, op, backup, files, req, closing, faults>>
    PROVE  IInv'
<1>1. now \in Nat /\ now' \in 0 .. MaxTime /\ now <= now' /\ now' \in Nat
    BY ConstantsAssumption DEF IInv, TypeOK
<1>2. TypeOK'
    BY <1>1 DEF IInv, TypeOK
<1>3. /\ OperationsKeep /\ BackupsKeep
      /\ Succeeded' = Succeeded /\ Current' = Current
    BY SameOperationsKeep
<1>4. OperationsFit' /\ Succession'
    BY <1>3, OperationsStay, HistoryStays
<1>5. BackupsHold'
    BY <1>1, <1>3, BackupStays DEF IInv, BackupsHold
<1>6. PicturesCovered'
    BY <1>3, PicturesStay
<1>7. RequestsKnow' /\ UploadsOwned'
    <2>1. \A q \in Requests : Untouched(req[q]) /\ Undisturbed(req[q])
        BY <1>3, IdleIsInformed DEF Untouched, Owning, Undisturbed
    <2> QED BY <1>3, <2>1, AllGoOn
<1> QED BY <1>2, <1>4, <1>5, <1>6, <1>7 DEF IInv

LEMMA InitIInv == ASSUME Init PROVE IInv
<1> USE DEF Init
<1>1. DOMAIN op = {} /\ op \in Seq(Operation) /\ Len(op) = 0
    <2>1. op = <<>>
        OBVIOUS
    <2> QED BY <2>1, EmptySeq
<1>2. Succeeded = {} /\ Current = 1
    <2>1. Succeeded = {}
        BY <1>1 DEF Succeeded, Done
    <2>2. Cardinality({}) = 0
        BY FS_EmptySet
    <2>3. Current = Cardinality(Succeeded) + 1
        BY DEF Current, Succeeded
    <2> QED BY <2>1, <2>2, <2>3
<1>3. MaxOps \in Nat /\ MaxTime \in Nat /\ MaxWrites \in Nat /\ MaxFaults \in Nat
      /\ Retention \in Nat
    BY ConstantsAssumption
<1>4. NoRows \in Rows /\ NoRows.photos = {}
    BY <1>3 DEF NoRows, Rows
<1>5. /\ NoBackup \in Backup /\ NoBackup.state = "none" /\ NoBackup.verified = FALSE
    BY <1>3, <1>4 DEF NoBackup, Backup
<1>6. \A r \in Requests : req[r] = Idle
    OBVIOUS
<1>7. TypeOK
    BY <1>1, <1>3, <1>4, <1>5, IdleType DEF TypeOK
<1>8. OperationsFit
    BY <1>1 DEF OperationsFit
<1>9. Succession
    <2>1. \A s \in Semesters : ~(s < 1)
        BY <1>3 DEF Semesters
    <2> QED BY <1>2, <2>1 DEF Succession, Closed
<1>10. RequestsKnow /\ UploadsOwned
    <2>1. \A r \in Requests : req[r].step \notin Holding
        BY <1>6, IdleType DEF Holding
    <2> QED BY <1>6, <2>1, IdleType DEF RequestsKnow, UploadsOwned
<1>11. BackupsHold
    BY <1>5 DEF BackupsHold, BackupHolds, Finished
<1>12. PicturesCovered
    <2>1. 1 \in Semesters
        BY <1>3 DEF Semesters
    <2> QED BY <1>2, <1>4, <2>1 DEF PicturesCovered
<1> QED BY <1>7, <1>8, <1>9, <1>10, <1>11, <1>12 DEF IInv

LEMMA StepIInv == IInv /\ [Next]_vars => IInv'
<1> SUFFICES ASSUME IInv, [Next]_vars PROVE IInv'
    OBVIOUS
<1>1. ASSUME NEW r \in Requests,
             \/ PrepareReset(r) \/ CreateDatabaseBackup(r) \/ AttachDatabaseBackup(r)
             \/ CreateAvatarBackup(r) \/ AttachAvatarBackup(r)
             \/ VerifyBackup(r) \/ PreparationFails(r) \/ RecordFailure(r)
             \/ FailPreparation(r)
      PROVE  IInv'
    BY <1>1, PrepareResetKeepsIInv, CreateDatabaseBackupKeepsIInv,
       AttachDatabaseBackupKeepsIInv, CreateAvatarBackupKeepsIInv, AttachAvatarBackupKeepsIInv,
       VerifyBackupKeepsIInv, PreparationFailsKeepsIInv, RecordFailureKeepsIInv,
       FailPreparationKeepsIInv
<1>2. ASSUME NEW r \in Requests,
             \/ ExecuteReset(r) \/ DeleteAvatar(r) \/ CommitReset(r)
             \/ GateRestore(r) \/ LoadPackage(r) \/ BeginRestore(r)
      PROVE  IInv'
    BY <1>2, ExecuteResetKeepsIInv, DeleteAvatarKeepsIInv, CommitResetKeepsIInv,
       GateRestoreKeepsIInv, LoadPackageKeepsIInv, BeginRestoreKeepsIInv
<1>3. ASSUME NEW r \in Requests,
             \/ RestoreAvatar(r) \/ RestoreAvatarFails(r)
             \/ CommitRestore(r) \/ ImportFails(r) \/ Compensate(r) \/ Abort(r)
      PROVE  IInv'
    BY <1>3, RestoreAvatarKeepsIInv, RestoreEndsKeepsIInv, CommitRestoreKeepsIInv,
       StepsThatOnlyStop
<1>4. CASE PrepareRestore \/ StudentWrite \/ ExpireBackup
    BY <1>4, PrepareRestoreKeepsIInv, StudentWriteKeepsIInv, ExpireBackupKeepsIInv
<1>5. CASE Tick
    <2>1. now' \in now .. MaxTime
        BY <1>5, ConstantsAssumption DEF Tick, IInv, TypeOK
    <2> QED BY <1>5, <2>1, TickKeepsIInv DEF Tick
<1>6. CASE UNCHANGED vars
    <2>1. now' \in now .. MaxTime
        BY <1>6, ConstantsAssumption DEF vars, IInv, TypeOK
    <2> QED BY <1>6, <2>1, TickKeepsIInv DEF vars
<1> QED BY <1>1, <1>2, <1>3, <1>4, <1>5, <1>6 DEF Next

LEMMA Invariant == Spec => []IInv
BY InitIInv, StepIInv, PTL DEF Spec

-----------------------------------------------------------------------------
(* What follows.                                                           *)

LEMMA ResetOfClosed ==
    ASSUME IInv, NEW s \in Semesters, Closed(s)
    PROVE  LET o == ResetOf(s)
           IN  /\ o \in Succeeded /\ o \in DOMAIN op /\ o \in Ops
               /\ op[o].sem = s /\ op[o].backup = o
               /\ \A p \in Succeeded : op[p].sem = s => p = o
<1>1. PICK p \in Succeeded : op[p].sem = s
    BY DEF IInv, Succession
<1>2. ResetOf(s) \in Succeeded /\ op[ResetOf(s)].sem = s
    BY <1>1 DEF ResetOf, Succeeded
<1>3. PICK o : o = ResetOf(s)
    OBVIOUS
<1>4. o \in DOMAIN op /\ op[o].type = "RESET"
    BY <1>2, <1>3 DEF Succeeded, Done
<1>5. op[o].backup = o /\ o \in Ops
    BY <1>4, ResetsOwnBackup
<1>6. \A q \in Succeeded : op[q].sem = s => q = o
    BY <1>2, <1>3 DEF IInv, Succession
<1> QED BY <1>2, <1>3, <1>4, <1>5, <1>6

\* Every state of the model is one the columns and the store can hold, however
\* many requests prepare, reset, restore, fail and die.
THEOREM TypeCorrect == Spec => []TypeOK
BY Invariant, PTL DEF IInv

\* Until its retention is over, a deleted cohort is in the database again or
\* its whole package, with exactly the rows that were deleted, is stored.
THEOREM NothingLostHolds == Spec => []NothingLost
<1>1. IInv => NothingLost
    <2> SUFFICES ASSUME IInv, NEW s \in Semesters, Closed(s)
                 PROVE  LET o == ResetOf(s)
                            b == op[o].backup
                        IN \/ rows[s] # NoRows
                           \/ closing[s] = NoRows
                           \/ now >= op[o].completed + Retention
                           \/ Whole(b) /\ backup[b].snap = closing[s]
        BY DEF NothingLost
    <2>1. PICK o : o = ResetOf(s)
        OBVIOUS
    <2>2. o \in Succeeded /\ o \in Ops /\ op[o].sem = s /\ op[o].backup = o
        BY <2>1, ResetOfClosed
    <2>3. backup[o].verified /\ backup[o].snap = closing[s]
        BY <2>2 DEF IInv, Succession
    <2>4. Whole(o) \/ now >= op[o].completed + Retention
        BY <2>2, <2>3 DEF IInv, BackupsHold, BackupHolds
    <2> QED BY <2>1, <2>2, <2>3, <2>4
<1> QED BY <1>1, Invariant, PTL

\* A picture of a student who is still enrolled is in the bucket, or in the
\* package of a reset of that semester, which then has not been discarded.
THEOREM PicturesKeptHolds == Spec => []PicturesKept
<1>1. IInv => PicturesKept
    <2> SUFFICES ASSUME IInv, NEW s \in Semesters, NEW p \in rows[s].photos,
                        ~Closed(s), p \notin bucket[s]
                 PROVE  \E o \in DOMAIN op : op[o].sem = s /\ p \in files[op[o].backup]
        BY DEF PicturesKept
    <2>1. s \in Nat /\ Current \in Nat
        BY CurrentType DEF IInv
    <2>2. s = Current
        <3>1. CASE s > Current
            <4>1. rows[s].photos = {}
                BY <3>1 DEF IInv, Succession, NoRows
            <4> QED BY <4>1
        <3>2. CASE s <= Current
            BY <2>1, <3>2 DEF Closed
        <3> QED BY <2>1, <3>1, <3>2
    <2>3. PICK o \in DOMAIN op :
             /\ op[o].type = "RESET" /\ op[o].sem = Current
             /\ backup[o].verified /\ p \in backup[o].snap.photos
        BY <2>2 DEF IInv, PicturesCovered
    <2>4. op[o].backup = o /\ o \in Ops
        BY <2>3, ResetsOwnBackup
    <2>5. o \notin Succeeded
        BY <2>1, <2>3 DEF IInv, Succession
    <2>6. Whole(o)
        BY <2>3, <2>4, <2>5 DEF IInv, BackupsHold, BackupHolds
    <2> QED BY <2>2, <2>3, <2>4, <2>6 DEF Whole, Package
<1> QED BY <1>1, Invariant, PTL

\* A backup that is READY for a reader is whole, verified and of a closed
\* semester, even while a cleanup deletes what is due.
THEOREM ReadyIsWholeHolds == Spec => []ReadyIsWhole
<1>1. IInv => ReadyIsWhole
    <2> SUFFICES ASSUME IInv, NEW b \in Ops, Effective(b) = "READY"
                 PROVE  Whole(b) /\ backup[b].verified /\ Closed(op[b].sem)
        BY DEF ReadyIsWhole
    <2>1. backup[b].state = "READY" /\ ~(now >= backup[b].expires)
        BY DEF Effective
    <2>2. BackupHolds(b)
        BY DEF IInv, BackupsHold
    <2>3. backup[b].verified /\ b \in Succeeded /\ Whole(b)
        BY <2>1, <2>2 DEF BackupHolds, Finished
    <2> QED BY <2>3 DEF IInv, Succession, Closed
<1> QED BY <1>1, Invariant, PTL

\* What the page offers, the preparation, the gate and the execution accept.
THEOREM OfferedIsPossibleHolds == Spec => []OfferedIsPossible
<1>1. IInv => OfferedIsPossible
    <2> SUFFICES ASSUME IInv PROVE OfferedIsPossible
        OBVIOUS
    <2>1. ASSUME NEW o \in DOMAIN op, ResetEligible(o) PROVE CanExecuteReset(o)
        <3>1. op[o].type = "RESET" /\ op[o].state = "RUNNING" /\ op[o].sem = Current
            BY <2>1 DEF ResetEligible
        <3>2. DOMAIN op = 1 .. Len(op) /\ Len(op) \in Nat /\ o \in Nat
            BY OperationsType DEF IInv
        <3>3. \A p \in o + 1 .. Len(op) : p \in DOMAIN op /\ p # o
            BY <3>2
        <3>4. \A p \in o + 1 .. Len(op) : op[p].state # "RUNNING"
            BY <3>1, <3>3 DEF IInv, OperationsFit
        <3> QED BY <2>1, <3>1, <3>4 DEF CanExecuteReset, PreflightReset
    <2>2. ASSUME CanPrepareRestore PROVE \E o \in DOMAIN op : RestoreEligible(o)
        <3>1. PICK o \in DOMAIN op :
                 /\ ShownReset(o) /\ op[o].state = "SUCCEEDED"
                 /\ BlockReason(op[o].backup) = "none"
            BY <2>2 DEF CanPrepareRestore
        <3>2. DOMAIN op = 1 .. Len(op) /\ Len(op) \in Nat /\ o \in Nat
            BY OperationsType DEF IInv
        <3>3. \A p \in DOMAIN op : ~(p <= o) => p \in o + 1 .. Len(op)
            BY <3>2
        <3>4. LatestReset(o)
            BY <3>1, <3>3 DEF ShownReset, LatestReset, Done
        <3>5. ~backup[op[o].backup].restored /\ ~NewCohort /\ Effective(op[o].backup) = "READY"
            BY <3>1 DEF BlockReason
        <3> QED BY <3>4, <3>5 DEF RestoreEligible
    <2>3. \A o \in DOMAIN op : CanExecuteRestore(o) => ~Blocked(o) /\ ~Expired(o)
        BY DEF CanExecuteRestore, Blocked, Expired
    <2> QED BY <2>1, <2>2, <2>3 DEF OfferedIsPossible
<1> QED BY <1>1, Invariant, PTL

\* A closed cohort comes back only through the import of a restore.
LEMMA StepRestoresExactly ==
    ASSUME IInv, [Next]_vars, NEW s \in Semesters, Closed(s), rows[s] = NoRows,
           rows'[s] # NoRows
    PROVE  /\ rows'[s] = closing[s]
           /\ NoStudents
           /\ ~backup[op[ResetOf(s)].backup].restored
<1>1. s \in Nat /\ Current \in Nat /\ s # Current
    BY CurrentType DEF IInv, Closed
<1>2. CASE StudentWrite
    <2>1. PICK t \in 1 .. Current, photos \in SUBSET Photos :
             /\ rows[t].v = 0 => t = Current
             /\ rows' = [rows EXCEPT ![t] = [v |-> @.v + 1, photos |-> photos]]
        BY <1>2 DEF StudentWrite
    <2>2. rows[s].v = 0
        BY DEF NoRows
    <2>3. rows'[s] = rows[s]
        BY <1>1, <2>1, <2>2 DEF IInv, TypeOK
    <2> QED BY <2>3
<1>3. ASSUME NEW r \in Requests, CommitReset(r) PROVE FALSE
    <2>1. rows' = [rows EXCEPT ![op[req[r].op].sem] = NoRows]
        BY <1>3 DEF CommitReset
    <2> QED BY <2>1 DEF IInv, TypeOK
<1>4. ASSUME NEW r \in Requests, CommitRestore(r)
      PROVE  /\ rows'[s] = closing[s]
             /\ NoStudents
             /\ ~backup[op[ResetOf(s)].backup].restored
    <2>1. PICK o, b : o = req[r].op /\ b = op[o].backup
        OBVIOUS
    <2>2. /\ req[r].step = "upload" /\ req[r].step \in Restoring
          /\ NoStudents /\ rows' = [rows EXCEPT ![op[o].sem] = req[r].snap]
        BY <1>4, <2>1 DEF CommitRestore, Imported, Restoring
    <2>3. /\ o \in DOMAIN op /\ op[o].type = "RESTORE"
          /\ req[r].snap = backup[b].snap /\ ~backup[b].restored
        BY <2>1, <2>2, IdleIsInformed DEF Informed
    <2>4. op[o].sem = s
        BY <2>2 DEF IInv, TypeOK
    <2>5. b \in Succeeded /\ op[b].sem = s /\ backup[b].snap = closing[s]
        BY <2>1, <2>3, <2>4, RestoresOfSucceeded
    <2>6. op[ResetOf(s)].backup = b
        BY <2>5, ResetOfClosed
    <2> QED BY <2>2, <2>3, <2>4, <2>5, <2>6 DEF IInv, TypeOK
<1>5. CASE UNCHANGED rows
    BY <1>5
<1>6. \/ StudentWrite \/ UNCHANGED rows
      \/ \E r \in Requests : CommitReset(r) \/ CommitRestore(r)
    BY DEF Next, vars, PrepareReset, CreateDatabaseBackup, AttachDatabaseBackup,
       CreateAvatarBackup, AttachAvatarBackup, VerifyBackup, PreparationFails, RecordFailure,
       FailPreparation, ExecuteReset, DeleteAvatar, GateRestore, LoadPackage, BeginRestore, RestoreAvatar,
       RestoreAvatarFails, ImportFails, Compensate, Abort, PrepareRestore, ExpireBackup, Tick
<1> QED BY <1>2, <1>3, <1>4, <1>5, <1>6

\* A cohort comes back exactly as it was deleted, into a database without any
\* student, and from a backup that has not been restored before.
THEOREM RestoredExactlyHolds == Spec => RestoredExactly
<1>1. IInv /\ [Next]_vars =>
        [\A s \in Semesters : Closed(s) /\ rows[s] = NoRows /\ rows'[s] # NoRows =>
            /\ rows'[s] = closing[s]
            /\ NoStudents
            /\ ~backup[op[ResetOf(s)].backup].restored]_vars
    BY StepRestoresExactly
<1> QED BY <1>1, Invariant, PTL DEF Spec, RestoredExactly

=============================================================================
