---------------------------- MODULE ChatDelivery ----------------------------
(***************************************************************************)
(* Realtime delivery of one buddy conversation: the browser views of its   *)
(* participants, the socket handler that serves each view, the Redis       *)
(* channel, and the stored messages that stay authoritative.               *)
(*                                                                         *)
(* A send is identified by its client key, and so is the message it        *)
(* stores.  It travels over the socket first and falls back to HTTP when   *)
(* the acknowledgement timer fires or the socket closes.  Only a send over *)
(* the socket is published.  An acceptance does not carry the client key:  *)
(* the view credits whatever send is active when it arrives.               *)
(*                                                                         *)
(* Message times, retention and pages are in BuddyChat.                    *)
(***************************************************************************)
EXTENDS Integers, Sequences, FiniteSets

CONSTANTS
  Views,        \* open chat views, one per browser
  Keys,         \* sends: client message ids
  Author,       \* key -> the view it is composed in
  Delays,       \* number of reconnect delays before a view goes offline
  MaxRetries,   \* bound: retries and manual reconnects of the users
  MaxFaults,    \* bound: faults
  Faults,       \* the kinds of faults that occur, the end of the match included
  LateTimer     \* whether an acknowledgement may outlive its timer

\* Keys are numbered in the order they are composed in.
ASSUME DeliveryAssumption ==
  /\ Keys \subseteq Nat \ {0}
  /\ Author \in [Keys -> Views]
  /\ {Delays, MaxRetries, MaxFaults} \subseteq Nat

VARIABLES
  stored,       \* committed messages
  published,    \* keys with a publish-once marker in Redis
  ended,        \* the match is no longer ACTIVE
  view,         \* the hook state of each view
  sock,         \* the socket of each view and its handler
  http,         \* key -> state of its HTTP request
  used          \* retries and faults spent

vars == <<stored, published, ended, view, sock, http, used>>

None == 0     \* no key
ViewStates == {"connecting", "connected", "reconnecting", "offline", "denied"}
SendStates == {"unsent", "sending", "confirmed", "failed", "gone"}
HttpStates == {"idle", "asked", "ok", "failed", "denied"}
Codes == {"none", "lost", "limited", "denied"}
Event == [type : {"ready", "created", "accepted", "error", "close"},
          key : Keys \cup {None}, code : Codes]
SocketStates == {"none", "upgrading", "authorized", "subscribed", "open", "closed"}
NoSocket == [st |-> "none", inbox |-> <<>>, work |-> None, chan |-> <<>>, out |-> <<>>]

News(type, k) == [type |-> type, key |-> k, code |-> "none"]
End(type, code) == [type |-> type, key |-> None, code |-> code]
Fault(kind) ==
  /\ kind \in Faults
  /\ used.faults < MaxFaults
  /\ used' = [used EXCEPT !.faults = @ + 1]

Init ==
  /\ stored = {} /\ published = {} /\ ended = FALSE
  /\ view = [c \in Views |->
       [state |-> "connecting", attempt |-> 0, shown |-> {}, active |-> None,
        send |-> [k \in Keys |-> "unsent"], id |-> [k \in Keys |-> None],
        fetch |-> "asked", page |-> {}, loaded |-> FALSE, early |-> FALSE]]
  /\ sock = [c \in Views |-> NoSocket]
  /\ http = [k \in Keys |-> "idle"]
  /\ used = [retries |-> 0, faults |-> 0]

------------------------------------------------------------------------------
(* The view.                                                               *)

\* A pending send is dropped once the message it was credited with is shown.
Rendered(v) ==
  [v EXCEPT !.send = [k \in Keys |->
     IF v.send[k] # "unsent" /\ v.id[k] \in v.shown THEN "gone" ELSE v.send[k]]]

Pending(v, k) == v.send[k] \in {"sending", "confirmed", "failed"}
Sending(v) == \E k \in Keys : v.send[k] = "sending"
Denied(v) ==
  [v EXCEPT !.state = "denied", !.active = None, !.shown = {}, !.fetch = "idle",
            !.page = {}, !.loaded = FALSE, !.early = FALSE,
            !.send = [k \in Keys |-> IF v.send[k] = "unsent" THEN "unsent" ELSE "gone"]]

\* history.refetch() of TanStack Query: while the first load is in flight it
\* joins that request; later it cancels the one in flight and asks again.
Joins(v) == ~v.loaded /\ v.fetch \in {"asked", "page", "refused"}
Reconciling(v) ==
  IF Joins(v) THEN v ELSE [v EXCEPT !.fetch = "asked", !.page = {}, !.early = FALSE]

\* The hand-over of send k of view v to HTTP; nothing if it is already there.
ViaHttp(v, k) ==
  IF http[k] # "idle" \/ ~Pending(v, k) THEN <<v, http>>
  ELSE <<[v EXCEPT !.send[k] = "sending"], [http EXCEPT ![k] = "asked"]>>

Dispatch(c, v, k) ==
  LET h == ViaHttp(v, k) IN
  IF v.state = "connected" /\ sock[c].st \in {"open", "closed"} /\ v.active = None
    THEN /\ view' = [view EXCEPT ![c] = [v EXCEPT !.send[k] = "sending", !.active = k]]
         /\ sock' = [sock EXCEPT ![c].inbox =
              IF sock[c].st = "open" THEN Append(@, k) ELSE @]
         /\ UNCHANGED http
    ELSE view' = [view EXCEPT ![c] = h[1]] /\ http' = h[2] /\ UNCHANGED sock

\* The composer: one logical send at a time.
SendMessage(c) ==
  /\ view[c].state # "denied" /\ ~Sending(view[c])
  /\ \E k \in Keys :
       /\ Author[k] = c /\ view[c].send[k] = "unsent"
       /\ \A j \in Keys : Author[j] = c /\ j < k => view[c].send[j] # "unsent"
       /\ Dispatch(c, [view[c] EXCEPT !.send[k] = "sending"], k)
  /\ UNCHANGED <<stored, published, ended, used>>

RetryMessage(c) ==
  /\ used.retries < MaxRetries
  /\ ~Sending(view[c])
  /\ \E k \in Keys : view[c].send[k] = "failed" /\ Dispatch(c, view[c], k)
  /\ used' = [used EXCEPT !.retries = @ + 1]
  /\ UNCHANGED <<stored, published, ended>>

\* The answer to send k is still on its way through the socket.
AnswerComing(c, k) ==
  \/ \E i \in 1..Len(sock[c].inbox) : sock[c].inbox[i] = k
  \/ sock[c].work = k
  \/ \E i \in 1..Len(sock[c].out) : sock[c].out[i].type # "created"

\* Mutant: a timed-out send is left to the socket.
SendTimeoutOnly(c) ==
  /\ view[c].active # None
  /\ LateTimer \/ ~AnswerComing(c, view[c].active)
  /\ view' = [view EXCEPT ![c].active = None]
  /\ UNCHANGED <<stored, published, ended, sock, http, used>>

SendTimeout(c) ==
  LET k == view[c].active
      h == ViaHttp([view[c] EXCEPT !.active = None], k) IN
  /\ k # None
  /\ LateTimer \/ ~AnswerComing(c, k)
  /\ view' = [view EXCEPT ![c] = h[1]]
  /\ http' = h[2]
  /\ UNCHANGED <<stored, published, ended, sock, used>>

Connect(c) ==
  /\ view[c].state \in {"connecting", "reconnecting"}
  /\ sock[c] = NoSocket
  /\ sock' = [sock EXCEPT ![c].st = "upgrading"]
  /\ UNCHANGED <<stored, published, ended, view, http, used>>

\* The button of an offline or denied view.
RetryConnection(c) ==
  /\ view[c].state \in {"offline", "denied"}
  /\ used.retries < MaxRetries
  /\ used' = [used EXCEPT !.retries = @ + 1]
  /\ view' = [view EXCEPT ![c].state = "connecting", ![c].attempt = 0]
  /\ sock' = [sock EXCEPT ![c] = NoSocket]
  /\ UNCHANGED <<stored, published, ended, http>>

\* Mutant: the history is not read again when the socket is ready.
OnReadyTrusting(v) ==
  [v EXCEPT !.state = "connected", !.attempt = 0, !.early = Joins(v)]

\* early is history: the view's only read was asked for before it was connected.
OnReady(v) ==
  Reconciling([v EXCEPT !.state = "connected", !.attempt = 0, !.early = Joins(v)])

OnCreated(v, k) == [v EXCEPT !.shown = @ \cup {k}]

OnAccepted(v, m) ==
  IF v.active = None THEN v
  ELSE LET k == v.active IN
       Reconciling([v EXCEPT !.active = None,
         !.send[k] = IF Pending(v, k) THEN "confirmed" ELSE @,
         !.id[k] = IF Pending(v, k) THEN m ELSE @])

OnError(v, code) ==
  IF v.active = None \/ code # "limited" THEN v
  ELSE [v EXCEPT !.active = None,
          !.send[v.active] = IF Pending(v, v.active) THEN "failed" ELSE @]

ReceiveEvent(c) ==
  /\ sock[c].out # <<>>
  /\ LET e == Head(sock[c].out)
         v == view[c] IN
     /\ e.type # "close"
     /\ view' = [view EXCEPT ![c] = Rendered(
          CASE e.type = "ready" -> OnReady(v)
            [] e.type = "created" -> OnCreated(v, e.key)
            [] e.type = "accepted" -> OnAccepted(v, e.key)
            [] OTHER -> OnError(v, e.code))]
  /\ sock' = [sock EXCEPT ![c].out = Tail(@)]
  /\ UNCHANGED <<stored, published, ended, http, used>>

\* Where a closed view goes: denied, another attempt, or offline.
Reconnecting(v, code) ==
  IF code = "denied" THEN Denied(v)
  ELSE IF v.attempt < Delays
    THEN [v EXCEPT !.state = "reconnecting", !.early = FALSE, !.attempt = @ + 1]
    ELSE [v EXCEPT !.state = "offline", !.early = FALSE]

\* Mutant: the active send is dropped with the socket that carried it.
OnCloseDropping(c, code) ==
  /\ view' = [view EXCEPT ![c] = Reconnecting([view[c] EXCEPT !.active = None], code)]
  /\ UNCHANGED http

OnClose(c, code) ==
  LET k == view[c].active
      h == IF k = None THEN <<view[c], http>>
           ELSE ViaHttp([view[c] EXCEPT !.active = None], k) IN
  /\ view' = [view EXCEPT ![c] = Reconnecting(h[1], code)]
  /\ http' = h[2]

ReceiveClose(c) ==
  /\ sock[c].out # <<>> /\ Head(sock[c].out).type = "close"
  /\ IF view[c].state = "denied" THEN UNCHANGED <<view, http>>
     ELSE OnClose(c, Head(sock[c].out).code)
  /\ sock' = [sock EXCEPT ![c] = NoSocket]
  /\ UNCHANGED <<stored, published, ended, used>>

------------------------------------------------------------------------------
(* History and HTTP sends.                                                 *)

ServeHistory(c) ==
  /\ view[c].fetch = "asked"
  /\ view' = [view EXCEPT ![c].fetch = IF ended THEN "refused" ELSE "page",
                          ![c].page = IF ended THEN {} ELSE stored]
  /\ UNCHANGED <<stored, published, ended, sock, http, used>>

HistoryArrives(c) ==
  /\ view[c].fetch \in {"page", "refused"}
  /\ LET v == view[c] IN
     view' = [view EXCEPT ![c] =
       IF v.fetch = "refused" THEN Denied(v)
       ELSE Rendered([v EXCEPT !.shown = @ \cup v.page, !.fetch = "idle", !.page = {},
                                 !.loaded = TRUE])]
  /\ UNCHANGED <<stored, published, ended, sock, http, used>>

\* The view keeps what it shows and reports the failed read.
HistoryFails(c) ==
  /\ view[c].fetch \in {"asked", "page"}
  /\ Fault("fetch")
  /\ view' = [view EXCEPT ![c].fetch = "failed", ![c].page = {}]
  /\ UNCHANGED <<stored, published, ended, sock, http>>

\* The HTTP endpoint stores the message and publishes nothing.
ServeHttp(k) ==
  /\ http[k] = "asked"
  /\ http' = [http EXCEPT ![k] = IF ended THEN "denied" ELSE "ok"]
  /\ stored' = IF ended THEN stored ELSE stored \cup {k}
  /\ UNCHANGED <<published, ended, view, sock, used>>

\* A failed request may have been served.
HttpFails(k) ==
  /\ http[k] \in {"asked", "ok"}
  /\ Fault("http")
  /\ http' = [http EXCEPT ![k] = "failed"]
  /\ UNCHANGED <<stored, published, ended, view, sock>>

HttpAnswer(k) ==
  LET c == Author[k]
      v == view[c] IN
  /\ http[k] \in {"ok", "failed", "denied"}
  /\ http' = [http EXCEPT ![k] = "idle"]
  /\ view' = [view EXCEPT ![c] = Rendered(
       CASE http[k] = "ok" ->
              Reconciling([v EXCEPT !.shown = @ \cup {k}, !.send[k] = "gone"])
         [] http[k] = "denied" -> Denied(v)
         [] http[k] = "failed" ->
              [v EXCEPT !.send[k] = IF Pending(v, k) THEN "failed" ELSE @])]
  /\ UNCHANGED <<stored, published, ended, sock, used>>

------------------------------------------------------------------------------
(* The socket handler.                                                     *)

\* The handler ends: its subscription goes, the browser is told why.
Closed(s, code) ==
  [s EXCEPT !.st = "closed", !.inbox = <<>>, !.work = None, !.chan = <<>>,
            !.out = Append(@, End("close", code))]

\* Before the socket is accepted a refusal is a failed handshake.
Authorize(c) ==
  /\ sock[c].st = "upgrading"
  /\ sock' = [sock EXCEPT ![c] =
       IF ended THEN Closed(@, "lost") ELSE [@ EXCEPT !.st = "authorized"]]
  /\ UNCHANGED <<stored, published, ended, view, http, used>>

Subscribe(c) ==
  /\ sock[c].st = "authorized"
  /\ \/ sock' = [sock EXCEPT ![c].st = "subscribed"] /\ UNCHANGED used
     \/ sock' = [sock EXCEPT ![c] = Closed(@, "lost")] /\ Fault("redis")
  /\ UNCHANGED <<stored, published, ended, view, http>>

AcceptSocket(c) ==
  /\ sock[c].st = "subscribed"
  /\ sock' = [sock EXCEPT ![c].st = "open", ![c].out = Append(@, News("ready", None))]
  /\ UNCHANGED <<stored, published, ended, view, http, used>>

Subscribers == {c \in Views : sock[c].st \in {"subscribed", "open"}}

\* Mutant: the message is published, then committed.
ReceiveAndPersistLate(c) ==
  /\ sock[c].st = "open" /\ sock[c].work = None /\ sock[c].inbox # <<>>
  /\ sock' = [sock EXCEPT ![c].inbox = Tail(@), ![c].work = Head(sock[c].inbox)]
  /\ UNCHANGED <<stored, used, published, ended, view, http>>

\* The receive task: one transaction for the head of the inbox.
ReceiveAndPersist(c) ==
  /\ sock[c].st = "open" /\ sock[c].work = None /\ sock[c].inbox # <<>>
  /\ LET k == Head(sock[c].inbox) IN
     \/ /\ ended
        /\ sock' = [sock EXCEPT ![c] = Closed(@, "denied")]
        /\ UNCHANGED <<stored, used>>
     \/ /\ ~ended
        /\ stored' = stored \cup {k}
        /\ sock' = [sock EXCEPT ![c].inbox = Tail(@), ![c].work = k]
        /\ UNCHANGED used
     \/ /\ ~ended /\ Fault("limit")
        /\ sock' = [sock EXCEPT ![c] =
             Closed([sock[c] EXCEPT !.out = Append(@, End("error", "limited"))],
                    "limited")]
        /\ UNCHANGED stored
  /\ UNCHANGED <<published, ended, view, http>>

\* The publish-once script, and the acceptance that follows it.
PublishCommitted(c) ==
  LET k == sock[c].work
      news == IF k \in published THEN {} ELSE Subscribers
      told(d) == IF d \in news THEN [sock[d] EXCEPT !.chan = Append(@, k)] ELSE sock[d]
      accepted(s) == [s EXCEPT !.work = None, !.out = Append(@, News("accepted", k))]
  IN
  /\ sock[c].st = "open" /\ k # None
  /\ \/ /\ sock' = [d \in Views |-> IF d = c THEN accepted(told(d)) ELSE told(d)]
        /\ published' = IF news = {} THEN published ELSE published \cup {k}
        /\ UNCHANGED used
     \/ /\ Fault("redis")
        /\ sock' = [sock EXCEPT ![c] = Closed(accepted(@), "lost")]
        /\ UNCHANGED published
  /\ UNCHANGED <<stored, ended, view, http>>

\* The forward task: reauthorize, reload, send.
ForwardCommitted(c) ==
  /\ sock[c].st = "open" /\ sock[c].chan # <<>>
  /\ LET s == sock[c] IN
     sock' = [sock EXCEPT ![c] =
       IF ended THEN Closed(s, "denied")
       ELSE [s EXCEPT !.chan = Tail(@),
               !.out = IF Head(s.chan) \in stored
                         THEN Append(@, News("created", Head(s.chan))) ELSE @]]
  /\ UNCHANGED <<stored, published, ended, view, http, used>>

\* The connection or the worker dies; a commit may stay unpublished.
Break(c) ==
  /\ sock[c].st \in {"upgrading", "authorized", "subscribed", "open", "closed"}
  /\ sock[c].st = "closed" => Len(sock[c].out) > 1
  /\ Fault("break")
  /\ sock' = [sock EXCEPT ![c] = Closed([@ EXCEPT !.out = <<>>], "lost")]
  /\ UNCHANGED <<stored, published, ended, view, http>>

MatchEnds ==
  /\ ~ended /\ Fault("end")
  /\ ended' = TRUE
  /\ UNCHANGED <<stored, published, view, sock, http>>

ClientStep(c) ==
  \/ SendTimeout(c) \/ Connect(c) \/ ReceiveEvent(c) \/ ReceiveClose(c)
  \/ HistoryArrives(c)
ServerStep(c) ==
  \/ ServeHistory(c) \/ Authorize(c) \/ Subscribe(c) \/ AcceptSocket(c)
  \/ ReceiveAndPersist(c) \/ PublishCommitted(c) \/ ForwardCommitted(c)
HttpStep(k) == ServeHttp(k) \/ HttpAnswer(k)

Next ==
  \/ \E c \in Views :
       \/ ClientStep(c) \/ ServerStep(c)
       \/ SendMessage(c) \/ RetryMessage(c) \/ RetryConnection(c)
       \/ HistoryFails(c) \/ Break(c)
  \/ \E k \in Keys : HttpStep(k) \/ HttpFails(k)
  \/ MatchEnds

Spec == Init /\ [][Next]_vars

\* Browsers run their timers and events, workers serve what reached them; the
\* faults are bounded, and nobody is obliged to compose, to retry or to end a match.
FairSpec ==
  /\ Spec
  /\ \A c \in Views :
       /\ WF_vars(SendTimeout(c)) /\ WF_vars(Connect(c))
       /\ WF_vars(ReceiveEvent(c)) /\ WF_vars(ReceiveClose(c))
       /\ WF_vars(HistoryArrives(c)) /\ WF_vars(ServeHistory(c))
       /\ WF_vars(Authorize(c)) /\ WF_vars(Subscribe(c)) /\ WF_vars(AcceptSocket(c))
       /\ WF_vars(ReceiveAndPersist(c)) /\ WF_vars(PublishCommitted(c))
       /\ WF_vars(ForwardCommitted(c))
  /\ \A k \in Keys : WF_vars(HttpStep(k))

------------------------------------------------------------------------------
(* Properties.                                                             *)

\* Every record keeps its shape; a view waits for at most one send of its own.
TypeOK ==
  /\ stored \subseteq Keys /\ published \subseteq Keys /\ ended \in BOOLEAN
  /\ \A c \in Views :
       /\ view[c].state \in ViewStates /\ view[c].attempt \in 0..Delays
       /\ view[c].shown \subseteq Keys /\ view[c].page \subseteq Keys
       /\ view[c].fetch \in {"idle", "asked", "page", "refused", "failed"}
       /\ view[c].loaded \in BOOLEAN /\ view[c].early \in BOOLEAN
       /\ view[c].active \in {None} \cup {k \in Keys : Author[k] = c}
       /\ \A k \in Keys : /\ view[c].send[k] \in SendStates
                          /\ view[c].id[k] \in Keys \cup {None}
       /\ sock[c].st \in SocketStates
       /\ sock[c].inbox \in Seq(Keys) /\ sock[c].chan \in Seq(Keys)
       /\ sock[c].work \in Keys \cup {None}
       /\ sock[c].out \in Seq(Event)
  /\ http \in [Keys -> HttpStates]
  /\ used.retries \in 0..MaxRetries /\ used.faults \in 0..MaxFaults

\* Persist before publish: no view shows, and no channel announces, a message
\* that is not committed, whichever of the commit, the publication and the
\* worker fails.
ShownIsStored ==
  /\ published \subseteq stored
  /\ \A c \in Views : view[c].shown \subseteq stored

\* A send displayed as "Sending" has a carrier that will report back: the
\* active socket send with its timer, or an HTTP flight.  The composer and the
\* retry button are locked while one is displayed, so a send without a carrier
\* would lock the conversation for good.
SendingIsCarried ==
  \A c \in Views, k \in Keys :
    view[c].send[k] = "sending" => view[c].active = k \/ http[k] # "idle"

\* Every send settles: it is confirmed, reported as failed, or shown.
EverySendSettles ==
  \A c \in Views, k \in Keys :
    view[c].send[k] = "sending" ~> view[c].send[k] # "sending"

\* Every published message reaches every view that stays connected, those that
\* were connecting while it was committed and published included, unless the
\* view reports that it could not read its history.  The exception is a view
\* whose socket was ready before its first history had arrived: it is left with
\* a history that may have been read before the message was committed, and the
\* message announced before it had subscribed.  Whatever is announced to its
\* channel reaches such a view, too.
PublishedReachesTheConnected ==
  \A c \in Views, k \in Keys :
    (/\ view[c].state = "connected"
     /\ \/ k \in published /\ ~view[c].early
        \/ \E i \in 1..Len(sock[c].chan) : sock[c].chan[i] = k)
    ~> k \in view[c].shown \/ view[c].state # "connected" \/ view[c].fetch = "failed"

=============================================================================
