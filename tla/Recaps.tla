------------------------------- MODULE Recaps -------------------------------
(***************************************************************************)
(* Recaps and their photos (services/recaps.py, api/recaps.py).            *)
(*                                                                         *)
(* A photo is two Storage objects and two rows of recap_images.  An upload *)
(* holds the recap's row lock while it stores them and commits their rows  *)
(* last; a deletion commits first and deletes objects afterwards, keeping  *)
(* the rows of those that failed; a publication evicts the recaps beyond   *)
(* the newest Limit for good and leaves the keys of their objects in       *)
(* recap_media_cleanup.  Versions, texts, order and thumbnails are left    *)
(* out: a request refused for them changes nothing, and edits of them      *)
(* change nothing else.                                                    *)
(***************************************************************************)
EXTENDS Naturals, FiniteSets

CONSTANTS
  RecapIds,     \* numbers, because ties of publication times go by id
  Uploads,      \* client upload ids; one names at most one photo of a recap
  Requests,
  Limit,        \* published recaps that are kept: 9
  MaxPhotos,    \* photos of a recap: 12
  MaxTries,     \* bound: attempts per upload id
  MaxFaults     \* bound: failures of Storage and of workers

ASSUME RecapsAssumption ==
  /\ RecapIds \subseteq Nat /\ IsFiniteSet(RecapIds)
  /\ Limit \in Nat /\ MaxTries \in Nat /\ MaxFaults \in Nat

Variants == {"display", "thumbnail"}
Photos == RecapIds \X Uploads
Files == [photo : Photos, try : 1..MaxTries, variant : Variants]

VARIABLES
  recap,        \* rows of recaps: status and order of first publication
  photo,        \* rows of recap_photos
  image,        \* rows of recap_images: the files whose rows are committed
  queue,        \* rows of recap_media_cleanup
  store,        \* the bucket: keys are unused, named, stored or gone
  req,
  owned,        \* history: every file that ever had a row
  faults

vars == <<recap, photo, image, queue, store, req, owned, faults>>

Statuses == {"DRAFT", "PUBLISHED", "ARCHIVED"}
NoRequest == [pc |-> "idle", recap |-> 0, photo |-> <<0, 0>>, files |-> {}, done |-> {},
              rows |-> {}]

Active(r) == recap[r].st \in Statuses
Stored == {f \in Files : store[f] = "stored"}
FilesOf(p, n) == {f \in Files : f.photo = p /\ f.try = n}
ImagesOf(r) == {f \in image : f.photo[1] = r}
DeletedImages(r) == {f \in ImagesOf(r) : photo[f.photo] = "deleted"}
Live(r) == {p \in Photos : p[1] = r /\ photo[p] = "live"}
Published == {r \in RecapIds : recap[r].st = "PUBLISHED"}

\* Attempts use random keys, hence new ones.
Tries(p) == {n \in 1..MaxTries : \A f \in FilesOf(p, n) : store[f] = "unused"}
NextTry(p) == CHOOSE n \in Tries(p) : \A m \in Tries(p) : n <= m

\* SELECT ... FOR UPDATE on the recap, held to the end of the transaction.
Publishing == {"publishing", "evicting", "evicted"}
Holding == {"upload", "retry"} \cup Publishing
Locked(r) ==
  \E q \in Requests :
    \/ req[q].pc \in Holding /\ req[q].recap = r
    \/ req[q].pc = "evicted" /\ r \in req[q].rows

Fault == faults < MaxFaults /\ faults' = faults + 1

\* A DELETE of an object: done, done with its answer lost, not done, or a 404
\* when the object is not there.
Deleting(f, answer) ==
  \/ answer = "ok" /\ f \in Stored /\ store' = [store EXCEPT ![f] = "gone"]
     /\ UNCHANGED faults
  \/ answer = "error" /\ f \in Stored /\ store' = [store EXCEPT ![f] = "gone"] /\ Fault
  \/ answer = "error" /\ f \in Stored /\ UNCHANGED store /\ Fault
  \/ answer = "missing" /\ f \notin Stored /\ UNCHANGED <<store, faults>>

(* Upload: POST /{recap_id}/photos.                                        *)

CreateRecap(r) ==
  /\ recap[r].st = "none"
  /\ recap' = [recap EXCEPT ![r].st = "DRAFT"]
  /\ UNCHANGED <<photo, image, queue, store, req, owned, faults>>

\* A repeated upload id is answered from its photo, or refused when that was
\* deleted: it goes on only while the id names no photo.
UploadBegin(q, p) ==
  /\ req[q].pc = "idle" /\ Active(p[1]) /\ ~Locked(p[1])
  /\ photo[p] = "none" /\ Tries(p) # {}
  /\ Cardinality(Live(p[1])) < MaxPhotos
  /\ req' = [req EXCEPT ![q] = [NoRequest EXCEPT !.pc = "upload", !.recap = p[1],
                                  !.photo = p, !.files = FilesOf(p, NextTry(p))]]
  /\ store' = [f \in Files |-> IF f \in FilesOf(p, NextTry(p)) THEN "named" ELSE store[f]]
  /\ UNCHANGED <<recap, photo, image, queue, owned, faults>>

\* One derivative after the other; an error may hide a stored object.  The key
\* is noted before the upload.
UploadVariant(q) ==
  /\ req[q].pc = "upload" /\ req[q].done # req[q].files
  /\ LET todo == req[q].files \ req[q].done
         f == CHOOSE g \in todo : g.variant = "display" \/ Cardinality(todo) = 1 IN
     \/ /\ store' = [store EXCEPT ![f] = "stored"]
        /\ req' = [req EXCEPT ![q].done = @ \cup {f}]
        /\ UNCHANGED faults
     \/ /\ store' \in {store, [store EXCEPT ![f] = "stored"]} /\ Fault
        /\ req' = [req EXCEPT ![q].done = @ \cup {f}, ![q].pc = "compensate"]
  /\ UNCHANGED <<recap, photo, image, queue, owned>>

Attach(q) ==
  /\ req[q].pc = "upload" /\ req[q].done = req[q].files
  /\ photo' = [photo EXCEPT ![req[q].photo] = "live"]
  /\ image' = image \cup req[q].files
  /\ owned' = owned \cup req[q].files

UploadCommit(q) ==
  /\ Attach(q)
  /\ req' = [req EXCEPT ![q] = NoRequest]
  /\ UNCHANGED <<recap, queue, store, faults>>

\* Mutant: any failure of the transaction removes the staged objects.
CompensateAlways(q) == [req[q] EXCEPT !.pc = "compensate"]

\* Once COMMIT has started its outcome may be unknown: nothing is removed.
AfterUncertainCommit(q) == NoRequest

UploadUncertain(q) ==
  /\ \/ Attach(q)
     \/ /\ req[q].pc = "upload" /\ req[q].done = req[q].files
        /\ UNCHANGED <<photo, image, owned>>
  /\ Fault
  /\ req' = [req EXCEPT ![q] = AfterUncertainCommit(q)]
  /\ UNCHANGED <<recap, queue, store>>

\* A failure before COMMIT rolls back and deletes what was staged.
UploadFails(q) ==
  /\ req[q].pc = "upload" /\ Fault
  /\ req' = [req EXCEPT ![q].pc = "compensate"]
  /\ UNCHANGED <<recap, photo, image, queue, store, owned>>

Compensate(q) ==
  /\ req[q].pc = "compensate"
  /\ IF req[q].done = {}
       THEN req' = [req EXCEPT ![q] = NoRequest] /\ UNCHANGED <<store, faults>>
       ELSE \E f \in req[q].done, answer \in {"ok", "error", "missing"} :
              /\ Deleting(f, answer)
              /\ req' = [req EXCEPT ![q].done = @ \ {f}]
  /\ UNCHANGED <<recap, photo, image, queue, owned>>

(* Deletion and the retry of its cleanup.                                  *)

\* mark_deleted: a published recap keeps its last photo.
DeletePhoto(q, p) ==
  LET r == p[1] IN
  /\ req[q].pc = "idle" /\ Active(r) /\ ~Locked(r) /\ p \in Live(r)
  /\ recap[r].st = "PUBLISHED" => Live(r) # {p}
  /\ photo' = [photo EXCEPT ![p] = "deleted"]
  /\ req' = [req EXCEPT ![q] = [NoRequest EXCEPT !.pc = "deleted", !.recap = r]]
  /\ UNCHANGED <<recap, image, queue, store, owned, faults>>

DeleteRecap(q, r) ==
  /\ req[q].pc = "idle" /\ Active(r) /\ ~Locked(r)
  /\ recap' = [recap EXCEPT ![r].st = "deleted"]
  /\ photo' = [p \in Photos |-> IF p \in Live(r) THEN "deleted" ELSE photo[p]]
  /\ req' = [req EXCEPT ![q] = [NoRequest EXCEPT !.pc = "deleted", !.recap = r]]
  /\ UNCHANGED <<image, queue, store, owned, faults>>

\* cleanup_photos, after a deletion without the row's lock: what is to do.
CleanupRead(q) ==
  /\ req[q].pc = "deleted"
  /\ req' = [req EXCEPT ![q].pc = "cleaning", ![q].files = DeletedImages(req[q].recap)]
  /\ UNCHANGED <<recap, photo, image, queue, store, owned, faults>>

\* A row goes with an object that was deleted; any error, the 404 of an object
\* that is already gone included, leaves it for another retry.
CleanPhoto(q) ==
  /\ req[q].pc \in {"cleaning", "retry"}
  /\ \E f \in req[q].files, answer \in {"ok", "error", "missing"} :
       /\ Deleting(f, answer)
       /\ req' = [req EXCEPT ![q].files = @ \ {f},
                             ![q].done = IF answer = "ok" THEN @ \cup {f} ELSE @]
  /\ UNCHANGED <<recap, photo, image, queue, owned>>

CleanCommit(q) ==
  /\ req[q].pc \in {"cleaning", "retry"} /\ req[q].files = {}
  /\ image' = image \ req[q].done
  /\ req' = [req EXCEPT ![q] = NoRequest]
  /\ UNCHANGED <<recap, photo, queue, store, owned, faults>>

QueueOf(r) == {f \in queue : f.photo[1] = r}

\* POST /{recap_id}/cleanup: the queue of an evicted recap, or the deleted
\* photos of a recap that is still there, under its lock.
RetryCleanup(q, r) ==
  /\ req[q].pc = "idle"
  /\ \/ /\ QueueOf(r) # {}
        /\ req' = [req EXCEPT ![q] = [NoRequest EXCEPT !.pc = "dequeue", !.recap = r,
                                        !.files = QueueOf(r)]]
     \/ /\ QueueOf(r) = {} /\ ~Locked(r) /\ DeletedImages(r) # {}
        /\ req' = [req EXCEPT ![q] = [NoRequest EXCEPT !.pc = "retry", !.recap = r,
                                        !.files = DeletedImages(r)]]
  /\ UNCHANGED <<recap, photo, image, queue, store, owned, faults>>

(* Reads.                                                                  *)

\* project_many: a photo is shown while it is there with its display image.
ShownPhotos(r) ==
  {p \in Live(r) : \E f \in image : f.photo = p /\ f.variant = "display"}

\* list_recaps: visitors get the published recaps and a mosaic of those with
\* photos, an administrator all of them and those with files left to delete.
RecapList(admin) ==
  LET items == IF admin THEN {r \in RecapIds : Active(r)} ELSE Published IN
  [items |-> items,
   mosaic |-> IF admin THEN {} ELSE {r \in items : Live(r) # {}},
   pendingCleanup |-> IF ~admin THEN {}
                      ELSE {r \in RecapIds : DeletedImages(r) # {} \/ QueueOf(r) # {}}]

\* media_url: the object that a request for a photo's address has signed.
MediaUrl(admin, p, v) ==
  {f \in image : f.photo = p /\ f.variant = v /\ photo[p] # "deleted"
                 /\ p[1] \in RecapList(admin).items}

(* Publication.                                                            *)

\* Mutant: publications do not wait for each other.
AlwaysFree == TRUE

\* lock_publication: one status change at a time.
PublicationFree == \A q \in Requests : req[q].pc \notin Publishing

Unpublish(r, st) ==
  /\ Active(r) /\ ~Locked(r) /\ recap[r].st # st /\ st # "PUBLISHED"
  /\ PublicationFree
  /\ recap' = [recap EXCEPT ![r].st = st]
  /\ UNCHANGED <<photo, image, queue, store, req, owned, faults>>

\* validate_publication: at least one photo, each with both its files.
Publishable(r) ==
  /\ Live(r) # {}
  /\ \A p \in Live(r) : Cardinality({f \in image : f.photo = p}) = 2

PublishBegin(q, r) ==
  /\ req[q].pc = "idle" /\ PublicationFree /\ Active(r) /\ ~Locked(r)
  /\ recap[r].st # "PUBLISHED" /\ Publishable(r)
  /\ req' = [req EXCEPT ![q] = [NoRequest EXCEPT !.pc = "publishing", !.recap = r]]
  /\ UNCHANGED <<recap, photo, image, queue, store, owned, faults>>

\* The first publication is what counts, for a recap published again too.
FirstOf(r) ==
  IF recap[r].first # 0 THEN recap[r].first
  ELSE Cardinality({s \in RecapIds : recap[s].first # 0}) + 1
Newer(r, s) == FirstOf(r) > FirstOf(s) \/ (FirstOf(r) = FirstOf(s) /\ r > s)

Overflow(shown) == {r \in shown : Cardinality({s \in shown : Newer(s, r)}) >= Limit}

\* evict_overflow reads the published recaps, its own flushed change included,
\* and waits for the lock of each of them, those it will keep included.
EvictRead(q) ==
  /\ req[q].pc = "publishing"
  /\ req' = [req EXCEPT ![q].pc = "evicting", ![q].rows = Published \cup {req[q].recap}]
  /\ UNCHANGED <<recap, photo, image, queue, store, owned, faults>>

\* A row that ceased to be published meanwhile is passed over: the newest are
\* counted off among the rows that were locked, and the rest is evicted.
EvictLock(q) ==
  LET own == req[q].recap
      locked == {r \in req[q].rows : r = own \/ r \in Published}
      gone == Overflow(locked) IN
  /\ req[q].pc = "evicting" /\ \A r \in req[q].rows \ {own} : ~Locked(r)
  /\ req' = [req EXCEPT ![q].pc = "evicted", ![q].rows = locked, ![q].done = gone,
                        ![q].files = {f \in image : f.photo[1] \in gone}]
  /\ UNCHANGED <<recap, photo, image, queue, store, owned, faults>>

\* Mutant: the keys of the evicted files are not kept.
NotQueued(q) == queue
Queued(q) == queue \cup req[q].files

\* The commit: status and first publication, the evicted recaps with the rows
\* of their photos gone, the keys of their files queued.
PublishCommit(q) ==
  LET gone == req[q].done IN
  /\ req[q].pc = "evicted"
  /\ recap' = [r \in RecapIds |->
       [first |-> IF r = req[q].recap THEN FirstOf(r) ELSE recap[r].first,
        st |-> IF r \in gone THEN "evicted"
               ELSE IF r = req[q].recap THEN "PUBLISHED" ELSE recap[r].st]]
  /\ photo' = [p \in Photos |-> IF p[1] \in gone THEN "none" ELSE photo[p]]
  /\ image' = image \ req[q].files
  /\ queue' = Queued(q)
  /\ req' = [req EXCEPT ![q].pc = "dequeue", ![q].done = {}, ![q].rows = {}]
  /\ UNCHANGED <<store, owned, faults>>

\* cleanup_evicted: here a 404 counts as deleted; each key commits on its own.
Dequeue(q) ==
  /\ req[q].pc = "dequeue"
  /\ IF req[q].files = {}
       THEN req' = [req EXCEPT ![q] = NoRequest] /\ UNCHANGED <<store, faults, queue>>
       ELSE \E f \in req[q].files, answer \in {"ok", "error", "missing"} :
              /\ Deleting(f, answer)
              /\ queue' = IF answer = "error" THEN queue ELSE queue \ {f}
              /\ req' = [req EXCEPT ![q].files = @ \ {f}]
  /\ UNCHANGED <<recap, photo, image, owned>>

\* The worker or its connection dies; PostgreSQL rolls back.
Crash(q) ==
  /\ req[q].pc # "idle" /\ Fault
  /\ req' = [req EXCEPT ![q] = NoRequest]
  /\ UNCHANGED <<recap, photo, image, queue, store, owned>>

Init ==
  /\ recap = [r \in RecapIds |-> [st |-> "none", first |-> 0]]
  /\ photo = [p \in Photos |-> "none"]
  /\ image = {} /\ queue = {} /\ owned = {} /\ faults = 0
  /\ store = [f \in Files |-> "unused"]
  /\ req = [q \in Requests |-> NoRequest]

Next ==
  \/ \E r \in RecapIds :
       \/ CreateRecap(r)
       \/ \E st \in Statuses : Unpublish(r, st)
  \/ \E q \in Requests :
       \/ UploadVariant(q) \/ UploadCommit(q) \/ UploadUncertain(q) \/ UploadFails(q)
       \/ Compensate(q) \/ CleanupRead(q) \/ CleanPhoto(q) \/ CleanCommit(q)
       \/ EvictRead(q) \/ EvictLock(q) \/ PublishCommit(q) \/ Dequeue(q) \/ Crash(q)
       \/ \E p \in Photos : UploadBegin(q, p) \/ DeletePhoto(q, p)
       \/ \E r \in RecapIds : DeleteRecap(q, r) \/ RetryCleanup(q, r) \/ PublishBegin(q, r)

Spec == Init /\ [][Next]_vars

------------------------------------------------------------------------------
\* At most Limit recaps are published, however publications race.
NineAtMost == Cardinality(Published) <= Limit

\* A photo that is there has both its files and is shown, and a published recap
\* has one to show, to visitors and in both sizes, whatever becomes of uploads,
\* repeated uploads, commits of unknown outcome, deletions and evictions.
PhotosHaveFiles ==
  /\ \A p \in Photos : photo[p] = "live" =>
       /\ Cardinality({f \in image : f.photo = p}) = 2
       /\ {f \in image : f.photo = p} \subseteq Stored
       /\ p \in ShownPhotos(p[1])
  /\ \A r \in RecapList(FALSE).items :
       /\ r \in RecapList(FALSE).mosaic /\ ShownPhotos(r) # {}
       /\ \A p \in ShownPhotos(r), v \in Variants : MediaUrl(FALSE, p, v) # {}

\* No file of a recap is forgotten: one that ever had a row and is still in
\* Storage belongs to a photo, or the administrator's list offers its recap for
\* another cleanup.
FilesAreTracked ==
  \A f \in owned \cap Stored :
    \/ f \in image /\ photo[f.photo] = "live"
    \/ f.photo[1] \in RecapList(TRUE).pendingCleanup

=============================================================================
