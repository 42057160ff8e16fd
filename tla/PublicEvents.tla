---------------------------- MODULE PublicEvents ----------------------------
(***************************************************************************)
(* The events of the landing page and their covers (services/events.py,    *)
(* event_media.py, event_queries.py, event_sliders.py and their routers).  *)
(*                                                                         *)
(* Every mutation locks the event row, compares the version the client has *)
(* seen, and commits; rows and Storage objects do not commit together.  A  *)
(* cover is uploaded before its transaction and removed again when that    *)
(* fails; the object it replaces is deleted after the commit.  The row     *)
(* lock is held to the end of a transaction, so that one is a single step. *)
(* Versions are not kept: `fresh' says that the version a cover upload     *)
(* carries is still the event's; a stale request of another kind, as one   *)
(* refused for its content, changes nothing and is no step.                *)
(***************************************************************************)
EXTENDS Naturals, FiniteSets

CONSTANTS
  Events,      \* event ids, ordered
  Files,       \* Storage objects of the event-media bucket, taken in order
  Requests,    \* mutations of administrators in progress
  MaxSlides,   \* MAX_EVENT_SLIDES
  Starts,      \* the times at which events may begin
  Written,     \* the texts that events are given, of Texts
  MaxTime,     \* the slider is asked for at the times 0 .. MaxTime
  NoEvent, NoFile

VARIABLES
  event,       \* rows of events
  media,       \* rows of event_media: the event that owns the object
  store,       \* the bucket
  req,
  lost         \* files of covers whose commit was reported as a failure

vars == <<event, media, store, req, lost>>

Statuses == {"DRAFT", "PUBLISHED", "CANCELLED"}
\* Title and description in both languages, each in one at least, or one of
\* them in none.
Texts == {"whole", "partial", "blank"}

NoRequest == [pc |-> "idle", event |-> NoEvent, file |-> NoFile, old |-> {}, fresh |-> FALSE]
\* The start of an announcement without a date, later than any.
NoStart == MaxTime + 1

Row == [st : {"none", "deleted"} \cup Statuses, pub : BOOLEAN, text : Texts,
        start : Starts \cup {NoStart}, cover : Files \cup {NoFile}]

NoRow == [st |-> "none", pub |-> FALSE, text |-> "blank", start |-> NoStart, cover |-> NoFile]

Compensating(f) == [NoRequest EXCEPT !.pc = "compensate", !.file = f]

Exists(e) == event[e].st \in Statuses
MediaOf(e) == {f \in Files : media[f] = e}
Fresh == {f \in Files : store[f] = "unused"}
NextFile == CHOOSE f \in Fresh : \A g \in Fresh : f <= g

\* A committed change moves the version: uploads in progress become stale.
Outdated(e) ==
  [q \in Requests |-> IF req[q].event = e THEN [req[q] EXCEPT !.fresh = FALSE] ELSE req[q]]

(* Reads.                                                                  *)

CoverJoined(e) == event[e].cover # NoFile /\ media[event[e].cover] = e

\* The slider at time t: published events that have not begun, each with its
\* cover; of these the first MaxSlides, the next to begin first.
Begun(e, t) == event[e].start < t
Before(d, e) ==
  event[d].start < event[e].start \/ (event[d].start = event[e].start /\ d < e)
Upcoming(t) ==
  {e \in Events : event[e].st = "PUBLISHED" /\ event[e].pub /\ ~Begun(e, t) /\ CoverJoined(e)}
Slides(t) ==
  {e \in Upcoming(t) : Cardinality({d \in Upcoming(t) : Before(d, e)}) < MaxSlides}

\* The events on the public list: a published one stays when it is cancelled.
Listed == {e \in Events : event[e].st \in {"PUBLISHED", "CANCELLED"} /\ event[e].pub}

\* A text may stand in for its translation; without either the list fails.
Projectable(e) == event[e].text # "blank"

\* _viewer_can_read_event: administrators any event, others the public ones.
CanRead(admin, e) == Exists(e) /\ (admin \/ e \in Listed)

\* get_authorized_event_media, which signs the object's address.
Signed(admin, e) == IF CanRead(admin, e) THEN MediaOf(e) ELSE {}

(* Content and status.                                                     *)

CreateDraft(e, text, start) ==
  /\ event[e].st = "none"
  /\ event' = [event EXCEPT ![e] = [st |-> "DRAFT", pub |-> FALSE, text |-> text,
                                    start |-> start, cover |-> NoFile]]
  /\ UNCHANGED <<media, store, req, lost>>

\* _validate_publishable: complete content and a ready cover of its own.
Publishable(e, text, cover) == text = "whole" /\ cover # NoFile /\ media[cover] = e

\* remains_publicly_published: content that visitors see stays publishable.
RemainsPublic(e) ==
  event[e].st = "PUBLISHED" \/ (event[e].st = "CANCELLED" /\ event[e].pub)

UpdateDraft(e, text, start, cover) ==
  /\ Exists(e)
  /\ cover \in MediaOf(e) \cup {NoFile}      \* _validate_cover
  /\ RemainsPublic(e) => Publishable(e, text, cover)
  /\ event' = [event EXCEPT ![e].text = text, ![e].start = start, ![e].cover = cover]
  /\ req' = Outdated(e)
  /\ UNCHANGED <<media, store, lost>>

SetStatus(e, st) ==
  /\ Exists(e) /\ event[e].st # st
  /\ st = "PUBLISHED" => Publishable(e, event[e].text, event[e].cover)
  /\ event' = [event EXCEPT ![e].st = st, ![e].pub = @ \/ st = "PUBLISHED"]
  /\ req' = Outdated(e)
  /\ UNCHANGED <<media, store, lost>>

(* The cover: upload_admin_event_cover.                                    *)

\* The image is validated, re-encoded and uploaded under a new key.  An error
\* answer may hide a stored object; nothing else happens then.
UploadCover(q, e) ==
  /\ req[q].pc = "idle" /\ Fresh # {}
  /\ \/ /\ store' = [store EXCEPT ![NextFile] = "stored"]
        /\ \E fresh \in BOOLEAN :
             req' = [req EXCEPT ![q] = [pc |-> "uploaded", event |-> e, file |-> NextFile,
                                        old |-> {}, fresh |-> fresh /\ Exists(e)]]
     \/ /\ store' = [store EXCEPT ![NextFile] = "stored"]
        /\ UNCHANGED req
  /\ UNCHANGED <<event, media, lost>>

\* stage_event_cover_replacement and the audit record: the new row, the
\* pointer to it, and the previous cover's row removed.
Staged(q) ==
  LET e == req[q].event  f == req[q].file
      previous == IF CoverJoined(e) THEN {event[e].cover} ELSE {} IN
  /\ req[q].pc = "uploaded" /\ req[q].fresh /\ Exists(e)
  /\ event' = [event EXCEPT ![e].cover = f]
  /\ media' = [g \in Files |-> IF g = f THEN e ELSE IF g \in previous THEN NoEvent ELSE media[g]]

CommitCover(q) ==
  /\ Staged(q)
  /\ req' = [Outdated(req[q].event) EXCEPT ![q] = [NoRequest EXCEPT !.pc = "cleanup",
               !.old = IF CoverJoined(req[q].event) THEN {event[req[q].event].cover} ELSE {}]]
  /\ UNCHANGED <<store, lost>>

\* The connection breaks in the commit, which has taken effect.
CommitReportedFailed(q) ==
  /\ Staged(q)
  /\ req' = [Outdated(req[q].event) EXCEPT ![q] = Compensating(req[q].file)]
  /\ lost' = lost \cup {req[q].file}
  /\ UNCHANGED store

\* A stale version, a missing event, or any failure before the commit.
RejectCover(q) ==
  /\ req[q].pc = "uploaded"
  /\ req' = [req EXCEPT ![q] = Compensating(req[q].file)]
  /\ UNCHANGED <<event, media, store, lost>>

\* compensate_cover_replacement: delete the new object, if Storage obliges.
Compensate(q) ==
  /\ req[q].pc = "compensate"
  /\ store' \in {store, [store EXCEPT ![req[q].file] = "gone"]}
  /\ req' = [req EXCEPT ![q] = NoRequest]
  /\ UNCHANGED <<event, media, lost>>

\* Mutant: any cover may be removed while visitors see the event.
AnyCoverRemovable(e, f) == media[f] = e

\* A cover in use can be removed from a draft only.
CoverRemovable(e, f) ==
  media[f] = e /\ (event[e].cover = f => event[e].st = "DRAFT")

DeleteMedia(q, e, f) ==
  /\ req[q].pc = "idle" /\ Exists(e) /\ CoverRemovable(e, f)
  /\ event' = [event EXCEPT ![e].cover = IF @ = f THEN NoFile ELSE @]
  /\ media' = [media EXCEPT ![f] = NoEvent]
  /\ req' = [Outdated(e) EXCEPT ![q] = [NoRequest EXCEPT !.pc = "cleanup", !.old = {f}]]
  /\ UNCHANGED <<store, lost>>

\* New alternative texts: the event's version moves, its cover does not.
UpdateMedia(e, f) ==
  /\ Exists(e) /\ media[f] = e
  /\ req' = Outdated(e)
  /\ UNCHANGED <<event, media, store, lost>>

\* delete_event: the rows of its media go with it, their objects afterwards.
DeleteEvent(q, e) ==
  /\ req[q].pc = "idle" /\ Exists(e)
  /\ event' = [event EXCEPT ![e] = [NoRow EXCEPT !.st = "deleted"]]
  /\ media' = [f \in Files |-> IF media[f] = e THEN NoEvent ELSE media[f]]
  /\ req' = [Outdated(e) EXCEPT ![q] = [NoRequest EXCEPT !.pc = "cleanup",
                                          !.old = MediaOf(e)]]
  /\ UNCHANGED <<store, lost>>

\* Objects are deleted one by one after the commit, each or not.
CleanUp(q) ==
  /\ req[q].pc = "cleanup"
  /\ IF req[q].old = {}
       THEN req' = [req EXCEPT ![q] = NoRequest] /\ UNCHANGED store
       ELSE \E f \in req[q].old :
              /\ store' \in {store, [store EXCEPT ![f] = "gone"]}
              /\ req' = [req EXCEPT ![q].old = @ \ {f}]
  /\ UNCHANGED <<event, media, lost>>

\* The worker dies: what it had not committed is rolled back.
Crash(q) ==
  /\ req[q].pc # "idle"
  /\ req' = [req EXCEPT ![q] = NoRequest]
  /\ UNCHANGED <<event, media, store, lost>>

Init ==
  /\ event = [e \in Events |-> NoRow]
  /\ media = [f \in Files |-> NoEvent]
  /\ store = [f \in Files |-> "unused"]
  /\ req = [q \in Requests |-> NoRequest]
  /\ lost = {}

Next ==
  \/ \E e \in Events, text \in Written, start \in Starts \cup {NoStart} :
       \/ CreateDraft(e, text, start)
       \/ \E cover \in Files \cup {NoFile} : UpdateDraft(e, text, start, cover)
  \/ \E e \in Events, f \in Files : UpdateMedia(e, f)
  \/ \E e \in Events, st \in Statuses : SetStatus(e, st)
  \/ \E q \in Requests :
       \/ CommitCover(q) \/ CommitReportedFailed(q) \/ RejectCover(q) \/ Compensate(q)
       \/ CleanUp(q) \/ Crash(q)
       \/ \E e \in Events :
            \/ UploadCover(q, e) \/ DeleteEvent(q, e)
            \/ \E f \in Files : DeleteMedia(q, e, f)

Spec == Init /\ [][Next]_vars

------------------------------------------------------------------------------
TypeOK ==
  /\ event \in [Events -> Row]
  /\ media \in [Files -> Events \cup {NoEvent}]
  /\ store \in [Files -> {"unused", "stored", "gone"}]
  /\ \A q \in Requests : req[q].pc \in {"idle", "uploaded", "compensate", "cleanup"}
  /\ lost \subseteq Files

\* Every published event is on the list and can be shown in both languages, and
\* whenever the slider is asked for it is on it, unless it has begun or as many
\* published events as the slider holds come before it; and whatever cover the
\* list gives a visitor is signed for them and stored: the object of a cover in
\* use is never deleted by an upload that lost the race for the event, by a late
\* cleanup or by a removal.  The exception is a cover whose commit took effect
\* and was reported as failed: upload_admin_event_cover compensates it although
\* the row is durable.
PublishedIsShown ==
  /\ \A e \in Events : event[e].st = "PUBLISHED" =>
       /\ e \in Listed /\ Projectable(e)
       /\ \A t \in 0 .. MaxTime :
            \/ e \in Slides(t) \/ Begun(e, t)
            \/ Cardinality({d \in Events : /\ event[d].st = "PUBLISHED" /\ ~Begun(d, t)
                                            /\ Before(d, e)}) >= MaxSlides
  /\ \A e \in Listed : CoverJoined(e) =>
       /\ event[e].cover \in Signed(FALSE, e)
       /\ store[event[e].cover] = "stored" \/ event[e].cover \in lost

=============================================================================
