------------------------------- MODULE Avatars -------------------------------
(***************************************************************************)
(* Profile photos and the reconciliation of Storage                        *)
(* (services/profile_photos.py, image_storage.py, the reconcile-storage    *)
(* command of cli.py).                                                     *)
(*                                                                         *)
(* A replacement holds the profile's row lock while it uploads the new     *)
(* object, commits the new row in place of the old one and deletes the old *)
(* object afterwards; a removal commits first and deletes afterwards.      *)
(* What a failure leaves behind is an object without a row, and the        *)
(* reconciler deletes those: it reads all rows, then lists the bucket, and *)
(* passes over objects younger than a gate of at least an hour.            *)
(***************************************************************************)
EXTENDS Naturals

CONSTANTS
  Owners,
  Files,       \* object keys of the bucket, taken in order: keys are random
  Requests,
  Nobody, NoFile

VARIABLES
  avatar,      \* rows of profile_photos: the object of each owner's avatar
  store,       \* the bucket: objects are young or past the gate
  req,
  reconciler,
  lost         \* objects whose commit was reported as a failure

vars == <<avatar, store, req, reconciler, lost>>

NoRequest == [pc |-> "idle", owner |-> Nobody, new |-> NoFile, old |-> NoFile]
Idle == [pc |-> "idle", files |-> {}, aged |-> {}]

Stored == {f \in Files : store[f] \in {"young", "old"}}
Unused == {f \in Files : store[f] = "unused"}
NextFile == CHOOSE f \in Unused : \A g \in Unused : f <= g
References == {avatar[o] : o \in Owners} \ {NoFile}

\* Row locks of the profile and of its avatar.
Locked(o) == \E q \in Requests : req[q].pc = "replace" /\ req[q].owner = o

\* An error answer of Storage may hide the deletion.
Gone(f) == [store EXCEPT ![f] = IF f \in Stored THEN "gone" ELSE @]

(* replace_own_avatar.                                                     *)

\* An upload that fails, its object stored or not, ends the request.
UploadAvatar(q, o) ==
  /\ req[q].pc = "idle" /\ ~Locked(o) /\ Unused # {}
  /\ store' = [store EXCEPT ![NextFile] = "young"]
  /\ \/ req' = [req EXCEPT ![q] = [pc |-> "replace", owner |-> o, new |-> NextFile,
                                   old |-> avatar[o]]]
     \/ UNCHANGED req
  /\ UNCHANGED <<avatar, reconciler, lost>>

\* attach and commit: the old row goes, the new one comes.
Attach(q) ==
  /\ req[q].pc = "replace"
  /\ avatar' = [avatar EXCEPT ![req[q].owner] = req[q].new]

CommitAvatar(q) ==
  /\ Attach(q)
  /\ req' = [req EXCEPT ![q] = [NoRequest EXCEPT !.pc = "cleanup", !.old = req[q].old]]
  /\ UNCHANGED <<store, reconciler, lost>>

\* The connection breaks in a commit that has taken effect: for
\* replace_image_reference a failure like any other.
CommitReportedFailed(q) ==
  /\ Attach(q)
  /\ req' = [req EXCEPT ![q] = [NoRequest EXCEPT !.pc = "compensate", !.old = req[q].new]]
  /\ lost' = lost \cup {req[q].new}
  /\ UNCHANGED <<store, reconciler>>

FailAvatar(q) ==
  /\ req[q].pc = "replace"
  /\ req' = [req EXCEPT ![q] = [NoRequest EXCEPT !.pc = "compensate", !.old = req[q].new]]
  /\ UNCHANGED <<avatar, store, reconciler, lost>>

\* is_referenced guards the previous object; the compensation of a failed
\* replacement deletes its own without asking.
DeletesOld(q) ==
  req[q].old # NoFile /\ (req[q].pc = "compensate" \/ req[q].old \notin References)

Cleanup(q) ==
  /\ req[q].pc \in {"cleanup", "compensate"}
  /\ \/ DeletesOld(q) /\ store' = Gone(req[q].old)
     \/ UNCHANGED store       \* nothing to delete, or the deletion fails
  /\ req' = [req EXCEPT ![q] = NoRequest]
  /\ UNCHANGED <<avatar, reconciler, lost>>

(* remove_own_avatar.                                                      *)

\* A commit of unknown outcome keeps the object.
RemoveAvatar(q, o) ==
  /\ req[q].pc = "idle" /\ avatar[o] # NoFile /\ ~Locked(o)
  /\ avatar' = [avatar EXCEPT ![o] = NoFile]
  /\ \/ req' = [req EXCEPT ![q] = [NoRequest EXCEPT !.pc = "cleanup", !.old = avatar[o]]]
     \/ UNCHANGED req
  /\ UNCHANGED <<store, reconciler, lost>>

\* The worker dies; PostgreSQL rolls back what it had not committed.
Crash(q) ==
  /\ req[q].pc # "idle"
  /\ req' = [req EXCEPT ![q] = NoRequest]
  /\ UNCHANGED <<avatar, store, reconciler, lost>>

(* reconcile-storage --apply.                                              *)

\* The gate is at least an hour, and a request ends long before.
Age(f) ==
  /\ store[f] = "young" /\ \A q \in Requests : req[q].new # f
  /\ store' = [store EXCEPT ![f] = "old"]
  /\ UNCHANGED <<avatar, req, reconciler, lost>>

\* discover_storage_references, then the cutoff; without reference tables the
\* command refuses to apply.
Discover ==
  /\ reconciler.pc = "idle"
  /\ reconciler' = [pc |-> "list", files |-> References,
                    aged |-> {f \in Files : store[f] = "old"}]
  /\ UNCHANGED <<avatar, store, req, lost>>

\* Mutant: the age of an object does not matter.
OrphansOfAnyAge(references, aged) == Stored \ references

Orphans(references, aged) == (Stored \cap aged) \ references

ListBucket ==
  /\ reconciler.pc = "list"
  /\ reconciler' = [reconciler EXCEPT !.pc = "delete",
                      !.files = Orphans(reconciler.files, reconciler.aged)]
  /\ UNCHANGED <<avatar, store, req, lost>>

\* An object whose deletion fails is counted and left to the next run.
DeleteOrphan ==
  /\ reconciler.pc = "delete"
  /\ IF reconciler.files = {}
       THEN reconciler' = Idle /\ UNCHANGED store
       ELSE \E f \in reconciler.files :
              /\ store' \in {Gone(f), store}
              /\ reconciler' = [reconciler EXCEPT !.files = @ \ {f}]
  /\ UNCHANGED <<avatar, req, lost>>

Init ==
  /\ avatar = [o \in Owners |-> NoFile]
  /\ store = [f \in Files |-> "unused"]
  /\ req = [q \in Requests |-> NoRequest]
  /\ reconciler = Idle
  /\ lost = {}

Next ==
  \/ \E q \in Requests :
       \/ \E o \in Owners : UploadAvatar(q, o) \/ RemoveAvatar(q, o)
       \/ CommitAvatar(q) \/ CommitReportedFailed(q) \/ FailAvatar(q)
       \/ Cleanup(q) \/ Crash(q)
  \/ \E f \in Files : Age(f)
  \/ Discover \/ ListBucket \/ DeleteOrphan

Spec == Init /\ [][Next]_vars

------------------------------------------------------------------------------
\* A committed avatar has its object, whatever becomes of replacements, their
\* compensations, removals and a reconciler working from rows it read before.
\* Commits reported as failures are the exception: their object is removed.
AvatarHasFile == \A o \in Owners : avatar[o] \in Stored \cup lost \cup {NoFile}
=============================================================================
