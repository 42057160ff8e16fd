------------------------- MODULE ChatDelivery_proofs -------------------------
(***************************************************************************)
(* Proofs about ChatDelivery, for any number of views and sends, any       *)
(* reconnect delays and any number of faults.                              *)
(***************************************************************************)
EXTENDS ChatDelivery, SequenceTheorems, TLAPS

------------------------------------------------------------------------------
(* The inductive invariant.                                                *)

View ==
  [state : ViewStates, attempt : 0 .. Delays, shown : SUBSET Keys,
   active : Keys \cup {None}, send : [Keys -> SendStates],
   id : [Keys -> Keys \cup {None}],
   fetch : {"idle", "asked", "page", "refused", "failed"}, page : SUBSET Keys,
   loaded : BOOLEAN, early : BOOLEAN]

\* The announcements that the messages in st allow.
Truthful(st) == {e \in Event : e.type = "created" => e.key \in st}

Socket(st) ==
  [st : SocketStates, inbox : Seq(Keys), work : st \cup {None}, chan : Seq(Keys),
   out : Seq(Truthful(st))]

\* A view shows and is about to show only messages of st; its sends are its own.
Faithful(c, v, st) ==
  /\ v \in View
  /\ v.shown \subseteq st /\ v.page \subseteq st
  /\ v.active # None => Author[v.active] = c
  /\ \A k \in Keys : v.send[k] # "unsent" => Author[k] = c

\* Every send displayed as "sending", those in K apart, is with its timer or
\* with HTTP.
Carried(v, h, K) ==
  \A k \in Keys \ K : v.send[k] = "sending" => v.active = k \/ h[k] # "idle"

ViewsHold == \A c \in Views : Faithful(c, view[c], stored) /\ Carried(view[c], http, {})

Stores(h, st) == h \in [Keys -> HttpStates] /\ \A k \in Keys : h[k] = "ok" => k \in st

IInv ==
  /\ stored \subseteq Keys /\ published \subseteq stored /\ ended \in BOOLEAN
  /\ used \in [retries : 0 .. MaxRetries, faults : 0 .. MaxFaults]
  /\ view \in [Views -> View] /\ ViewsHold
  /\ sock \in [Views -> Socket(stored)]
  /\ Stores(http, stored)

------------------------------------------------------------------------------
(* What the steps of a view do to its record.                              *)

LEMMA NoneIsNoKey == None \notin Keys
BY DeliveryAssumption DEF None

LEMMA RenderedHolds ==
  ASSUME NEW c, NEW v, NEW st, Faithful(c, v, st), NEW h, NEW K, Carried(v, h, K)
  PROVE  Faithful(c, Rendered(v), st) /\ Carried(Rendered(v), h, K)
<1>1. PICK f : f = [k \in Keys |->
        IF v.send[k] # "unsent" /\ v.id[k] \in v.shown THEN "gone" ELSE v.send[k]]
  OBVIOUS
<1>2. v \in View /\ v.send \in [Keys -> SendStates]
  BY DEF Faithful, View
<1>3. f \in [Keys -> SendStates]
  BY <1>1, <1>2 DEF SendStates
<1>4. /\ Rendered(v) \in View /\ Rendered(v).send = f /\ Rendered(v).shown = v.shown
      /\ Rendered(v).page = v.page /\ Rendered(v).active = v.active
  BY <1>1, <1>2, <1>3 DEF Rendered, View
<1>5. \A k \in Keys : f[k] = v.send[k] \/ (f[k] = "gone" /\ v.send[k] # "unsent")
  BY <1>1
<1> QED BY <1>4, <1>5 DEF Faithful, Carried

LEMMA DeniedHolds ==
  ASSUME NEW c, NEW v, NEW st, Faithful(c, v, st), NEW h
  PROVE  Faithful(c, Denied(v), st) /\ Carried(Denied(v), h, {})
<1>1. PICK f : f = [k \in Keys |-> IF v.send[k] = "unsent" THEN "unsent" ELSE "gone"]
  OBVIOUS
<1>2. v \in View
  BY DEF Faithful
<1>3. f \in [Keys -> SendStates]
  BY <1>1 DEF SendStates
<1>4. /\ Denied(v) \in View /\ Denied(v).send = f /\ Denied(v).shown = {}
      /\ Denied(v).page = {} /\ Denied(v).active = None
  BY <1>1, <1>2, <1>3 DEF Denied, View, ViewStates
<1>5. \A k \in Keys : f[k] # "sending" /\ (f[k] # "unsent" => v.send[k] # "unsent")
  BY <1>1
<1> QED BY <1>4, <1>5 DEF Faithful, Carried

LEMMA ReconcilingHolds ==
  ASSUME NEW c, NEW v, NEW st, Faithful(c, v, st)
  PROVE  /\ Faithful(c, Reconciling(v), st)
         /\ Reconciling(v).send = v.send /\ Reconciling(v).active = v.active
<1>1. v \in View
  BY DEF Faithful
<1>2. /\ Reconciling(v) \in View /\ Reconciling(v).send = v.send
      /\ Reconciling(v).shown = v.shown /\ Reconciling(v).page \in {v.page, {}}
      /\ Reconciling(v).active = v.active
  BY <1>1 DEF Reconciling, View
<1> QED BY <1>2 DEF Faithful

\* Send k becomes s; whoever may carry the others does so still.
Turned(v, k, s) == [v EXCEPT !.send[k] = s]

LEMMA TurnedHolds ==
  ASSUME NEW c, NEW v, NEW st, Faithful(c, v, st), NEW k \in Keys,
         NEW s \in SendStates, Author[k] = c
  PROVE  /\ Faithful(c, Turned(v, k, s), st) /\ Turned(v, k, s).active = v.active
         /\ \A j \in Keys : Turned(v, k, s).send[j] = IF j = k THEN s ELSE v.send[j]
<1>1. v \in View /\ v.send \in [Keys -> SendStates]
  BY DEF Faithful, View
<1>2. PICK f : f = [v.send EXCEPT ![k] = s]
  OBVIOUS
<1>3. f \in [Keys -> SendStates] /\ \A j \in Keys : f[j] = IF j = k THEN s ELSE v.send[j]
  BY <1>1, <1>2
<1>4. PICK w : w = [v EXCEPT !.send = f]
  OBVIOUS
<1>5. /\ w \in View /\ w.send = f /\ w.shown = v.shown /\ w.page = v.page
      /\ w.active = v.active
  BY <1>1, <1>3, <1>4 DEF View
<1>6. Turned(v, k, s) = w
  BY <1>2, <1>4 DEF Turned
<1> QED BY <1>3, <1>5, <1>6 DEF Faithful

\* A view hands send k over: whoever carried it before, HTTP does now.
LEMMA ViaHttpHolds ==
  ASSUME IInv, NEW c, NEW v, Faithful(c, v, stored), NEW k \in Keys, Author[k] = c,
         Carried(v, http, {k})
  PROVE  LET w == ViaHttp(v, k)[1]
             h == ViaHttp(v, k)[2]
         IN  /\ Faithful(c, w, stored) /\ Carried(w, h, {}) /\ Stores(h, stored)
             /\ \A j \in Keys \ {k} : h[j] = http[j]
<1>1. CASE http[k] # "idle" \/ ~Pending(v, k)
  <2>1. ViaHttp(v, k) = <<v, http>>
    BY <1>1 DEF ViaHttp
  <2>2. Carried(v, http, {})
    BY <1>1 DEF Carried, Pending
  <2> QED BY <2>1, <2>2 DEF IInv
<1>2. CASE ~(http[k] # "idle" \/ ~Pending(v, k))
  <2>1. PICK w, h : w = Turned(v, k, "sending") /\ h = [http EXCEPT ![k] = "asked"]
    OBVIOUS
  <2>2. ViaHttp(v, k) = <<w, h>>
    BY <1>2, <2>1 DEF ViaHttp, Turned
  <2> "sending" \in SendStates
    BY DEF SendStates
  <2>3. /\ Faithful(c, w, stored) /\ w.active = v.active
        /\ \A j \in Keys : w.send[j] = IF j = k THEN "sending" ELSE v.send[j]
    BY <2>1, TurnedHolds
  <2>4. h \in [Keys -> HttpStates] /\ \A j \in Keys : h[j] = IF j = k THEN "asked" ELSE http[j]
    BY <2>1 DEF IInv, Stores, HttpStates
  <2>5. Carried(w, h, {}) /\ Stores(h, stored)
    BY <2>3, <2>4 DEF Carried, IInv, Stores
  <2> QED BY <2>2, <2>3, <2>4, <2>5
<1> QED BY <1>1, <1>2

------------------------------------------------------------------------------
(* Sockets.                                                                *)

LEMMA Announcements ==
  ASSUME NEW st
  PROVE  /\ News("ready", None) \in Truthful(st)
         /\ \A k \in Keys : News("accepted", k) \in Truthful(st)
         /\ \A k \in Keys \cap st : News("created", k) \in Truthful(st)
         /\ \A code \in Codes : /\ End("close", code) \in Truthful(st)
                                /\ End("error", code) \in Truthful(st)
BY DEF News, End, Truthful, Event, Codes

LEMMA SocketGrows ==
  ASSUME NEW st, NEW more, st \subseteq more, NEW s \in Socket(st) PROVE s \in Socket(more)
<1>1. Truthful(st) \subseteq Truthful(more)
  BY DEF Truthful
<1>2. s.out \in Seq(Truthful(more))
  BY <1>1, SeqMonotonic DEF Socket
<1> QED BY <1>2 DEF Socket

LEMMA ClosedHolds ==
  ASSUME NEW st, NEW s \in Socket(st), NEW code \in Codes
  PROVE  Closed(s, code) \in Socket(st)
<1>1. Append(s.out, End("close", code)) \in Seq(Truthful(st))
  BY Announcements, AppendProperties DEF Socket
<1>2. <<>> \in Seq(Keys)
  BY EmptySeq
<1> QED BY <1>1, <1>2 DEF Closed, Socket, SocketStates, None

------------------------------------------------------------------------------
(* One view or one socket changes.                                         *)

LEMMA ViewMoves ==
  ASSUME IInv, NEW c \in Views, NEW w, view' = [view EXCEPT ![c] = w],
         stored \subseteq stored', Faithful(c, w, stored'), Carried(w, http', {}),
         \A k \in Keys : Author[k] # c => http'[k] = http[k]
  PROVE  view' \in [Views -> View] /\ ViewsHold'
<1>1. w \in View /\ view \in [Views -> View]
  BY DEF Faithful, IInv
<1>2. \A d \in Views : view'[d] = IF d = c THEN w ELSE view[d]
  BY <1>1
<1>3. view' \in [Views -> View]
  BY <1>1
<1>4. ASSUME NEW d \in Views, d # c
      PROVE  Faithful(d, view[d], stored') /\ Carried(view[d], http', {})
  BY <1>4 DEF IInv, ViewsHold, Faithful, Carried
<1> QED BY <1>2, <1>3, <1>4 DEF ViewsHold

LEMMA ViewsStay ==
  ASSUME IInv, UNCHANGED <<view, http>>, stored \subseteq stored'
  PROVE  view' \in [Views -> View] /\ ViewsHold'
BY DEF IInv, ViewsHold, Faithful, Carried

LEMMA SocketMoves ==
  ASSUME IInv, NEW c \in Views, NEW s, sock' = [sock EXCEPT ![c] = s],
         stored \subseteq stored', s \in Socket(stored')
  PROVE  sock' \in [Views -> Socket(stored')]
<1>1. sock \in [Views -> Socket(stored)]
  BY DEF IInv
<1>2. \A d \in Views : sock[d] \in Socket(stored')
  BY <1>1, SocketGrows
<1> QED BY <1>1, <1>2

LEMMA SocketsStay ==
  ASSUME IInv, UNCHANGED sock, stored \subseteq stored'
  PROVE  sock' \in [Views -> Socket(stored')]
BY SocketGrows DEF IInv

LEMMA FaultCounts ==
  ASSUME IInv, NEW kind, Fault(kind)
  PROVE  used' \in [retries : 0 .. MaxRetries, faults : 0 .. MaxFaults]
BY DeliveryAssumption DEF IInv, Fault

LEMMA Holds ==
  ASSUME stored' \subseteq Keys, published' \subseteq stored', ended' \in BOOLEAN,
         used' \in [retries : 0 .. MaxRetries, faults : 0 .. MaxFaults],
         view' \in [Views -> View], ViewsHold',
         sock' \in [Views -> Socket(stored')], Stores(http', stored')
  PROVE  IInv'
BY DEF IInv

\* A step of view c that touches neither the messages nor the sockets.
LEMMA OnlyViewMoves ==
  ASSUME IInv, NEW c \in Views, NEW w, view' = [view EXCEPT ![c] = w],
         Faithful(c, w, stored), Carried(w, http', {}), Stores(http', stored),
         \A k \in Keys : Author[k] # c => http'[k] = http[k],
         UNCHANGED <<stored, published, ended>>, sock' \in [Views -> Socket(stored)],
         used' \in [retries : 0 .. MaxRetries, faults : 0 .. MaxFaults]
  PROVE  IInv'
<1>1. view' \in [Views -> View] /\ ViewsHold'
  BY ViewMoves
<1>2. stored' \subseteq Keys /\ published' \subseteq stored' /\ ended' \in BOOLEAN
  BY DEF IInv
<1> QED BY <1>1, <1>2, Holds

LEMMA OnlySocketMoves ==
  ASSUME IInv, NEW c \in Views, NEW s \in Socket(stored), sock' = [sock EXCEPT ![c] = s],
         UNCHANGED <<stored, published, ended, view, http>>,
         used' \in [retries : 0 .. MaxRetries, faults : 0 .. MaxFaults]
  PROVE  IInv'
<1>1. view' \in [Views -> View] /\ ViewsHold'
  BY ViewsStay
<1>2. sock' \in [Views -> Socket(stored')]
  BY SocketMoves
<1>3. stored' \subseteq Keys /\ published' \subseteq stored' /\ ended' \in BOOLEAN
      /\ Stores(http', stored')
  BY DEF IInv
<1> QED BY <1>1, <1>2, <1>3, Holds

LEMMA ViewOf ==
  ASSUME IInv, NEW c \in Views
  PROVE  /\ view[c] \in View /\ Faithful(c, view[c], stored) /\ Carried(view[c], http, {})
         /\ sock[c] \in Socket(stored) /\ Stores(http, stored)
BY DEF IInv, ViewsHold

LEMMA UsedStays ==
  ASSUME IInv, UNCHANGED used
  PROVE  used' \in [retries : 0 .. MaxRetries, faults : 0 .. MaxFaults]
BY DEF IInv

------------------------------------------------------------------------------
(* Sending.                                                                *)

\* The active send changes: what it carried is carried otherwise, or over.
LEMMA ActiveBecomes ==
  ASSUME NEW c, NEW v, NEW st, Faithful(c, v, st), NEW a \in Keys \cup {None},
         a # None => Author[a] = c, NEW w, w = [v EXCEPT !.active = a]
  PROVE  /\ Faithful(c, w, st) /\ w.active = a /\ w.send = v.send /\ w.state = v.state
<1>1. v \in View
  BY DEF Faithful
<1>2. /\ w \in View /\ w.active = a /\ w.send = v.send /\ w.state = v.state
      /\ w.shown = v.shown /\ w.page = v.page
  BY <1>1 DEF View
<1> QED BY <1>2 DEF Faithful

SentActive(v, k) == [Turned(v, k, "sending") EXCEPT !.active = k]

LEMMA SentActiveHolds ==
  ASSUME NEW c, NEW v, NEW st, Faithful(c, v, st), NEW k \in Keys, Author[k] = c
  PROVE  /\ Faithful(c, SentActive(v, k), st) /\ SentActive(v, k).active = k
         /\ \A j \in Keys :
              SentActive(v, k).send[j] = IF j = k THEN "sending" ELSE v.send[j]
<1>1. PICK u : u = Turned(v, k, "sending")
  OBVIOUS
<1> "sending" \in SendStates
  BY DEF SendStates
<1>2. /\ Faithful(c, u, st)
      /\ \A j \in Keys : u.send[j] = IF j = k THEN "sending" ELSE v.send[j]
  BY <1>1, TurnedHolds
<1>3. PICK w : w = [u EXCEPT !.active = k]
  OBVIOUS
<1>4. k \in Keys \cup {None}
  OBVIOUS
<1>5. Faithful(c, w, st) /\ w.active = k /\ w.send = u.send
  BY <1>2, <1>3, <1>4, ActiveBecomes
<1>6. SentActive(v, k) = w
  BY <1>1, <1>3 DEF SentActive
<1> QED BY <1>2, <1>5, <1>6

LEMMA DispatchHolds ==
  ASSUME IInv, NEW c \in Views, NEW v, Faithful(c, v, stored), NEW k \in Keys,
         Author[k] = c, Carried(v, http, {k}), Dispatch(c, v, k),
         UNCHANGED <<stored, published, ended>>,
         used' \in [retries : 0 .. MaxRetries, faults : 0 .. MaxFaults]
  PROVE  IInv'
<1>1. CASE /\ v.active = None
           /\ view' = [view EXCEPT ![c] = [v EXCEPT !.send[k] = "sending", !.active = k]]
           /\ sock' = [sock EXCEPT ![c].inbox =
                IF sock[c].st = "open" THEN Append(@, k) ELSE @]
           /\ UNCHANGED http
  <2>1. PICK w : w = SentActive(v, k)
    OBVIOUS
  <2>3. /\ Faithful(c, w, stored) /\ w.active = k
        /\ \A j \in Keys : w.send[j] = IF j = k THEN "sending" ELSE v.send[j]
    BY <2>1, SentActiveHolds
  <2>4. Carried(w, http, {})
    BY <1>1, <2>3, NoneIsNoKey DEF Carried
  <2>5. view' = [view EXCEPT ![c] = w]
    BY <1>1, <2>1, Zenon DEF SentActive, Turned
  <2>6. sock' \in [Views -> Socket(stored)]
    <3>1. PICK q : q = IF sock[c].st = "open" THEN Append(sock[c].inbox, k) ELSE sock[c].inbox
      OBVIOUS
    <3>2. sock[c] \in Socket(stored) /\ sock[c].inbox \in Seq(Keys)
      BY ViewOf DEF Socket
    <3>3. q \in Seq(Keys)
      BY <3>1, <3>2, AppendProperties
    <3>4. [sock[c] EXCEPT !.inbox = q] \in Socket(stored)
      BY <3>2, <3>3 DEF Socket
    <3>5. sock' = [sock EXCEPT ![c] = [sock[c] EXCEPT !.inbox = q]]
      BY <1>1, <3>1
    <3> QED BY <3>4, <3>5 DEF IInv
  <2>7. Stores(http, stored)
    BY ViewOf
  <2> QED BY <1>1, <2>3, <2>4, <2>5, <2>6, <2>7, OnlyViewMoves
<1>2. CASE /\ view' = [view EXCEPT ![c] = ViaHttp(v, k)[1]] /\ http' = ViaHttp(v, k)[2]
           /\ UNCHANGED sock
  <2>1. PICK w, h : w = ViaHttp(v, k)[1] /\ h = ViaHttp(v, k)[2]
    OBVIOUS
  <2>2. /\ Faithful(c, w, stored) /\ Carried(w, h, {}) /\ Stores(h, stored)
        /\ \A j \in Keys \ {k} : h[j] = http[j]
    BY <2>1, ViaHttpHolds
  <2>3. view' = [view EXCEPT ![c] = w] /\ http' = h
    BY <1>2, <2>1
  <2>4. sock' \in [Views -> Socket(stored)]
    BY <1>2 DEF IInv
  <2> QED BY <2>2, <2>3, <2>4, OnlyViewMoves
<1> QED BY <1>1, <1>2 DEF Dispatch

LEMMA SendMessageKeepsIInv == ASSUME IInv, NEW c \in Views, SendMessage(c) PROVE IInv'
<1>1. PICK k, v :
        /\ k \in Keys /\ Author[k] = c /\ v = Turned(view[c], k, "sending")
        /\ Dispatch(c, v, k)
  BY DEF SendMessage, Turned
<1>2. UNCHANGED <<stored, published, ended, used>>
  BY DEF SendMessage
<1> "sending" \in SendStates /\ Faithful(c, view[c], stored)
  BY ViewOf DEF SendStates
<1>3. /\ Faithful(c, v, stored) /\ v.active = view[c].active
      /\ \A j \in Keys : v.send[j] = IF j = k THEN "sending" ELSE view[c].send[j]
  BY <1>1, TurnedHolds
<1>4. Carried(v, http, {k})
  BY <1>3, ViewOf DEF Carried
<1> QED BY <1>1, <1>2, <1>3, <1>4, UsedStays, DispatchHolds

LEMMA RetryMessageKeepsIInv == ASSUME IInv, NEW c \in Views, RetryMessage(c) PROVE IInv'
<1>1. PICK k \in Keys : view[c].send[k] = "failed" /\ Dispatch(c, view[c], k)
  BY DEF RetryMessage
<1>2. UNCHANGED <<stored, published, ended>>
  BY DEF RetryMessage
<1>3. used' \in [retries : 0 .. MaxRetries, faults : 0 .. MaxFaults]
  BY DeliveryAssumption DEF RetryMessage, IInv
<1>4. Faithful(c, view[c], stored) /\ Author[k] = c /\ Carried(view[c], http, {k})
  BY <1>1, ViewOf DEF Faithful, Carried
<1> QED BY <1>1, <1>2, <1>3, <1>4, DispatchHolds

\* The active send is handed over to HTTP.
LEMMA HandedOver ==
  ASSUME IInv, NEW c \in Views, NEW k, k = view[c].active, k # None
  PROVE  LET v == [view[c] EXCEPT !.active = None]
             w == ViaHttp(v, k)[1]
             h == ViaHttp(v, k)[2]
         IN  /\ Faithful(c, w, stored) /\ Carried(w, h, {}) /\ Stores(h, stored)
             /\ \A j \in Keys : Author[j] # c => h[j] = http[j]
<1>1. PICK v : v = [view[c] EXCEPT !.active = None]
  OBVIOUS
<1>2. Faithful(c, v, stored) /\ v.send = view[c].send
  BY <1>1, ViewOf, ActiveBecomes
<1>3. k \in Keys /\ Author[k] = c
  BY ViewOf DEF Faithful, View
<1>4. Carried(v, http, {k})
  BY <1>2, ViewOf DEF Carried
<1>5. LET w == ViaHttp(v, k)[1]
          h == ViaHttp(v, k)[2]
      IN  /\ Faithful(c, w, stored) /\ Carried(w, h, {}) /\ Stores(h, stored)
          /\ \A j \in Keys \ {k} : h[j] = http[j]
  BY <1>2, <1>3, <1>4, ViaHttpHolds
<1> QED BY <1>1, <1>3, <1>5

LEMMA SendTimeoutKeepsIInv == ASSUME IInv, NEW c \in Views, SendTimeout(c) PROVE IInv'
<1>1. PICK k, w, h :
        /\ k = view[c].active
        /\ w = ViaHttp([view[c] EXCEPT !.active = None], k)[1]
        /\ h = ViaHttp([view[c] EXCEPT !.active = None], k)[2]
  OBVIOUS
<1>2. /\ k # None /\ view' = [view EXCEPT ![c] = w] /\ http' = h
      /\ UNCHANGED <<stored, published, ended, sock, used>>
  BY <1>1 DEF SendTimeout
<1>3. /\ Faithful(c, w, stored) /\ Carried(w, h, {}) /\ Stores(h, stored)
      /\ \A j \in Keys : Author[j] # c => h[j] = http[j]
  BY <1>1, <1>2, HandedOver
<1>4. sock' \in [Views -> Socket(stored)]
  BY <1>2 DEF IInv
<1> QED BY <1>2, <1>3, <1>4, UsedStays, OnlyViewMoves

------------------------------------------------------------------------------
(* Connections.                                                            *)

LEMMA SameSends ==
  ASSUME NEW c, NEW v, NEW st, Faithful(c, v, st), NEW w \in View,
         w.shown \subseteq st, w.page \subseteq st, w.active = v.active, w.send = v.send
  PROVE  Faithful(c, w, st) /\ \A h, K : Carried(v, h, K) => Carried(w, h, K)
BY DEF Faithful, Carried

LEMMA ConnectKeepsIInv == ASSUME IInv, NEW c \in Views, Connect(c) PROVE IInv'
<1>1. PICK s : s = [sock[c] EXCEPT !.st = "upgrading"]
  OBVIOUS
<1>2. sock' = [sock EXCEPT ![c] = s] /\ UNCHANGED <<stored, published, ended, view, http, used>>
  BY <1>1 DEF Connect
<1>3. s \in Socket(stored)
  BY <1>1, ViewOf DEF Socket, SocketStates
<1> QED BY <1>2, <1>3, UsedStays, OnlySocketMoves

LEMMA NoSocketHolds == ASSUME NEW st PROVE NoSocket \in Socket(st)
<1>1. <<>> \in Seq(Keys) /\ <<>> \in Seq(Truthful(st))
  BY EmptySeq
<1> QED BY <1>1 DEF NoSocket, Socket, SocketStates

LEMMA RetryConnectionKeepsIInv == ASSUME IInv, NEW c \in Views, RetryConnection(c) PROVE IInv'
<1>0. PICK v : v = view[c]
  OBVIOUS
<1>1. PICK w : w = [v EXCEPT !.state = "connecting", !.attempt = 0]
  OBVIOUS
<1>2. /\ view' = [view EXCEPT ![c] = w] /\ sock' = [sock EXCEPT ![c] = NoSocket]
      /\ UNCHANGED <<stored, published, ended, http>>
  BY <1>0, <1>1 DEF RetryConnection, IInv
<1>3. used' \in [retries : 0 .. MaxRetries, faults : 0 .. MaxFaults]
  BY DeliveryAssumption DEF RetryConnection, IInv
<1>4. v \in View
  BY <1>0, ViewOf
<1> 0 \in 0 .. Delays
  BY DeliveryAssumption
<1>5. /\ w \in View /\ w.shown = v.shown /\ w.page = v.page
      /\ w.active = v.active /\ w.send = v.send
  BY <1>1, <1>4 DEF View, ViewStates
<1>6. w.shown \subseteq stored /\ w.page \subseteq stored
  BY <1>0, <1>5, ViewOf DEF Faithful
<1>7. Faithful(c, w, stored) /\ Carried(w, http, {})
  BY <1>0, <1>5, <1>6, ViewOf, SameSends
<1>8. sock' \in [Views -> Socket(stored)]
  BY <1>2, NoSocketHolds DEF IInv
<1> QED BY <1>2, <1>3, <1>7, <1>8, ViewOf, OnlyViewMoves

LEMMA ReconnectingHolds ==
  ASSUME NEW c, NEW v, NEW st, Faithful(c, v, st), NEW h, Carried(v, h, {}),
         NEW code
  PROVE  Faithful(c, Reconnecting(v, code), st) /\ Carried(Reconnecting(v, code), h, {})
<1>1. CASE code = "denied"
  BY <1>1, DeniedHolds DEF Reconnecting
<1>2. CASE code # "denied" /\ v.attempt < Delays
  <2>1. PICK w : w = [v EXCEPT !.state = "reconnecting", !.early = FALSE,
                           !.attempt = v.attempt + 1]
    OBVIOUS
  <2>2. v \in View /\ v.attempt + 1 \in 0 .. Delays
    BY <1>2, DeliveryAssumption DEF Faithful, View
  <2>3. /\ w \in View /\ w.shown = v.shown /\ w.page = v.page /\ w.active = v.active
        /\ w.send = v.send
    BY <2>1, <2>2 DEF View, ViewStates
  <2>4. w.shown \subseteq st /\ w.page \subseteq st
    BY <2>3 DEF Faithful
  <2>5. Faithful(c, w, st) /\ Carried(w, h, {})
    BY <2>3, <2>4, SameSends
  <2>6. Reconnecting(v, code) = w
    BY <1>2, <2>1, Zenon DEF Reconnecting
  <2> QED BY <2>5, <2>6
<1>3. CASE code # "denied" /\ ~(v.attempt < Delays)
  <2>1. PICK w : w = [v EXCEPT !.state = "offline", !.early = FALSE]
    OBVIOUS
  <2>2. v \in View
    BY DEF Faithful
  <2>3. /\ w \in View /\ w.shown = v.shown /\ w.page = v.page /\ w.active = v.active
        /\ w.send = v.send
    BY <2>1, <2>2 DEF View, ViewStates
  <2>4. w.shown \subseteq st /\ w.page \subseteq st
    BY <2>3 DEF Faithful
  <2>5. Faithful(c, w, st) /\ Carried(w, h, {})
    BY <2>3, <2>4, SameSends
  <2>6. Reconnecting(v, code) = w
    BY <1>3, <2>1, Zenon DEF Reconnecting
  <2> QED BY <2>5, <2>6
<1> QED BY <1>1, <1>2, <1>3

LEMMA ReceiveCloseKeepsIInv == ASSUME IInv, NEW c \in Views, ReceiveClose(c) PROVE IInv'
<1>1. PICK code, k : code = Head(sock[c].out).code /\ k = view[c].active
  OBVIOUS
<1>2. sock' = [sock EXCEPT ![c] = NoSocket] /\ UNCHANGED <<stored, published, ended, used>>
  BY DEF ReceiveClose
<1>3. sock' \in [Views -> Socket(stored)]
  BY <1>2, NoSocketHolds DEF IInv
<1>4. CASE UNCHANGED <<view, http>>
  BY <1>2, <1>4, NoSocketHolds, UsedStays, OnlySocketMoves
<1>5. CASE OnClose(c, code)
  <2>1. PICK v, w, h :
          /\ v = IF k = None THEN view[c] ELSE ViaHttp([view[c] EXCEPT !.active = None], k)[1]
          /\ h = IF k = None THEN http ELSE ViaHttp([view[c] EXCEPT !.active = None], k)[2]
          /\ w = Reconnecting(v, code)
    OBVIOUS
  <2>2. view' = [view EXCEPT ![c] = w] /\ http' = h
    BY <1>1, <1>5, <2>1 DEF OnClose
  <2>3. /\ Faithful(c, v, stored) /\ Carried(v, h, {}) /\ Stores(h, stored)
        /\ \A j \in Keys : Author[j] # c => h[j] = http[j]
    <3>1. CASE k = None
      BY <2>1, <3>1, ViewOf
    <3>2. CASE k # None
      BY <1>1, <2>1, <3>2, HandedOver
    <3> QED BY <3>1, <3>2
  <2>4. Faithful(c, w, stored) /\ Carried(w, h, {})
    BY <2>1, <2>3, ReconnectingHolds
  <2> QED BY <1>2, <1>3, <2>2, <2>3, <2>4, UsedStays, OnlyViewMoves
<1> QED BY <1>1, <1>4, <1>5 DEF ReceiveClose

------------------------------------------------------------------------------
(* Announcements.                                                          *)

LEMMA OnReadyHolds ==
  ASSUME NEW c, NEW v, NEW st, Faithful(c, v, st), NEW h, Carried(v, h, {})
  PROVE  Faithful(c, OnReady(v), st) /\ Carried(OnReady(v), h, {})
<1>1. PICK w : w = [v EXCEPT !.state = "connected", !.attempt = 0, !.early = Joins(v)]
  OBVIOUS
<1>2. v \in View /\ 0 \in 0 .. Delays /\ Joins(v) \in BOOLEAN
  BY DeliveryAssumption DEF Faithful, View, Joins
<1>3. /\ w \in View /\ w.shown = v.shown /\ w.page = v.page /\ w.active = v.active
      /\ w.send = v.send
  BY <1>1, <1>2 DEF View, ViewStates
<1>4. w.shown \subseteq st /\ w.page \subseteq st
  BY <1>3 DEF Faithful
<1>5. Faithful(c, w, st) /\ Carried(w, h, {})
  BY <1>3, <1>4, SameSends
<1>6. /\ Faithful(c, Reconciling(w), st) /\ Reconciling(w).send = w.send
      /\ Reconciling(w).active = w.active
  BY <1>5, ReconcilingHolds
<1>7. Carried(Reconciling(w), h, {})
  BY <1>5, <1>6 DEF Carried
<1>8. OnReady(v) = Reconciling(w)
  BY <1>1, Zenon DEF OnReady
<1> QED BY <1>6, <1>7, <1>8

LEMMA OnCreatedHolds ==
  ASSUME NEW c, NEW v, NEW st, Faithful(c, v, st), NEW h, Carried(v, h, {}),
         NEW k \in Keys \cap st
  PROVE  Faithful(c, OnCreated(v, k), st) /\ Carried(OnCreated(v, k), h, {})
<1>1. PICK w : w = OnCreated(v, k)
  OBVIOUS
<1>2. v \in View
  BY DEF Faithful
<1>3. /\ w \in View /\ w.shown = v.shown \cup {k} /\ w.page = v.page
      /\ w.active = v.active /\ w.send = v.send
  BY <1>1, <1>2 DEF OnCreated, View
<1>4. w.shown \subseteq st /\ w.page \subseteq st
  BY <1>3 DEF Faithful
<1> QED BY <1>1, <1>3, <1>4, SameSends

\* The active send is answered: it is not displayed as "sending" any more.
LEMMA AnsweredHolds ==
  ASSUME NEW c, NEW v, NEW st, Faithful(c, v, st), NEW h, Carried(v, h, {}),
         v.active # None, NEW s \in {"confirmed", "failed"},
         NEW f, f = [v.send EXCEPT ![v.active] = IF Pending(v, v.active) THEN s ELSE @],
         NEW w \in View, w.shown = v.shown, w.page = v.page, w.active = None, w.send = f
  PROVE  Faithful(c, w, st) /\ Carried(w, h, {})
<1>1. PICK k : k = v.active
  OBVIOUS
<1>2. v.send \in [Keys -> SendStates] /\ k \in Keys /\ Author[k] = c
  BY <1>1 DEF Faithful, View
<1>3. CASE Pending(v, k)
  <2>1. f = [v.send EXCEPT ![k] = s]
    BY <1>1, <1>3
  <2>2. \A j \in Keys : f[j] = IF j = k THEN s ELSE v.send[j]
    BY <1>2, <2>1
  <2>3. Faithful(c, w, st)
    BY <1>2, <2>2 DEF Faithful
  <2>4. ASSUME NEW j \in Keys, f[j] = "sending" PROVE h[j] # "idle"
    BY <1>1, <2>2, <2>4 DEF Carried
  <2> QED BY <2>3, <2>4 DEF Carried
<1>4. CASE ~Pending(v, k)
  <2>1. f = v.send
    BY <1>1, <1>2, <1>4
  <2>2. Faithful(c, w, st)
    BY <2>1 DEF Faithful
  <2>3. ASSUME NEW j \in Keys, f[j] = "sending" PROVE h[j] # "idle"
    BY <1>1, <1>4, <2>1, <2>3 DEF Carried, Pending
  <2> QED BY <2>2, <2>3 DEF Carried
<1> QED BY <1>3, <1>4

LEMMA OnAcceptedHolds ==
  ASSUME NEW c, NEW v, NEW st, Faithful(c, v, st), NEW h, Carried(v, h, {}),
         NEW m \in Keys \cup {None}
  PROVE  Faithful(c, OnAccepted(v, m), st) /\ Carried(OnAccepted(v, m), h, {})
<1>1. CASE v.active = None
  BY <1>1 DEF OnAccepted
<1>2. CASE v.active # None
  <2>1. PICK k : k = v.active
    OBVIOUS
  <2>2. PICK f : f = [v.send EXCEPT ![k] = IF Pending(v, k) THEN "confirmed" ELSE @]
    OBVIOUS
  <2>3. PICK g : g = [v.id EXCEPT ![k] = IF Pending(v, k) THEN m ELSE @]
    OBVIOUS
  <2>4. PICK w : w = [v EXCEPT !.active = None, !.send = f, !.id = g]
    OBVIOUS
  <2>5. /\ v \in View /\ k \in Keys /\ v.send \in [Keys -> SendStates]
        /\ v.id \in [Keys -> Keys \cup {None}]
    BY <1>2, <2>1 DEF Faithful, View
  <2>6. f \in [Keys -> SendStates]
    BY <2>2, <2>5 DEF SendStates
  <2>7. g \in [Keys -> Keys \cup {None}]
    BY <2>3, <2>5
  <2>8. /\ w \in View /\ w.shown = v.shown /\ w.page = v.page /\ w.active = None
        /\ w.send = f
    BY <2>4, <2>5, <2>6, <2>7 DEF View
  <2>9. Faithful(c, w, st) /\ Carried(w, h, {})
    BY <1>2, <2>1, <2>2, <2>8, AnsweredHolds
  <2>10. Faithful(c, Reconciling(w), st) /\ Carried(Reconciling(w), h, {})
    BY <2>9, ReconcilingHolds DEF Carried
  <2>11. OnAccepted(v, m) = Reconciling(w)
    BY <1>2, <2>1, <2>2, <2>3, <2>4, Zenon DEF OnAccepted
  <2> QED BY <2>10, <2>11
<1> QED BY <1>1, <1>2

LEMMA OnErrorHolds ==
  ASSUME NEW c, NEW v, NEW st, Faithful(c, v, st), NEW h, Carried(v, h, {}), NEW code
  PROVE  Faithful(c, OnError(v, code), st) /\ Carried(OnError(v, code), h, {})
<1>1. CASE v.active = None \/ code # "limited"
  BY <1>1 DEF OnError
<1>2. CASE ~(v.active = None \/ code # "limited")
  <2>1. PICK k : k = v.active
    OBVIOUS
  <2>2. PICK f : f = [v.send EXCEPT ![k] = IF Pending(v, k) THEN "failed" ELSE @]
    OBVIOUS
  <2>4. PICK w : w = [v EXCEPT !.active = None, !.send = f]
    OBVIOUS
  <2>5. v \in View /\ k \in Keys /\ v.send \in [Keys -> SendStates]
    BY <1>2, <2>1 DEF Faithful, View
  <2>6. f \in [Keys -> SendStates]
    BY <2>2, <2>5 DEF SendStates
  <2>8. /\ w \in View /\ w.shown = v.shown /\ w.page = v.page /\ w.active = None
        /\ w.send = f
    BY <2>4, <2>5, <2>6 DEF View
  <2>9. Faithful(c, w, st) /\ Carried(w, h, {})
    BY <1>2, <2>1, <2>2, <2>8, AnsweredHolds
  <2>10. OnError(v, code) = w
    BY <1>2, <2>1, <2>2, <2>4, Zenon DEF OnError
  <2> QED BY <2>9, <2>10
<1> QED BY <1>1, <1>2

LEMMA SocketParts ==
  ASSUME NEW st, NEW s \in Socket(st), NEW out \in Seq(Truthful(st))
  PROVE  [s EXCEPT !.out = out] \in Socket(st)
BY DEF Socket

LEMMA ReceiveEventKeepsIInv == ASSUME IInv, NEW c \in Views, ReceiveEvent(c) PROVE IInv'
<1>1. PICK out : out = sock[c].out
  OBVIOUS
<1>2. PICK e, v : e = Head(out) /\ v = view[c]
  OBVIOUS
<1>3. PICK w : w = CASE e.type = "ready" -> OnReady(v)
                     [] e.type = "created" -> OnCreated(v, e.key)
                     [] e.type = "accepted" -> OnAccepted(v, e.key)
                     [] OTHER -> OnError(v, e.code)
  OBVIOUS
<1>4. /\ out # <<>> /\ view' = [view EXCEPT ![c] = Rendered(w)]
      /\ sock' = [sock EXCEPT ![c].out = Tail(@)]
      /\ UNCHANGED <<stored, published, ended, http, used>>
  BY <1>1, <1>2, <1>3 DEF ReceiveEvent
<1>5. out \in Seq(Truthful(stored))
  BY <1>1, ViewOf DEF Socket
<1>6. e \in Truthful(stored) /\ Tail(out) \in Seq(Truthful(stored))
  BY <1>2, <1>4, <1>5, HeadTailProperties
<1>7. /\ e.key \in Keys \cup {None} /\ e \in Event
      /\ e.type = "created" => e.key \in stored /\ e.key \in Keys
  BY <1>6, NoneIsNoKey DEF Truthful, Event, IInv
<1>8. Faithful(c, v, stored) /\ Carried(v, http, {})
  BY <1>2, ViewOf
<1>9. Faithful(c, w, stored) /\ Carried(w, http, {})
  <2>1. CASE e.type = "ready"
    BY <1>3, <1>8, <2>1, OnReadyHolds
  <2>2. CASE e.type = "created"
    <3>1. w = OnCreated(v, e.key) /\ e.key \in Keys \cap stored
      BY <1>3, <1>7, <2>2
    <3> QED BY <1>8, <3>1, OnCreatedHolds
  <2>3. CASE e.type = "accepted"
    <3>1. w = OnAccepted(v, e.key)
      BY <1>3, <2>3
    <3> QED BY <1>7, <1>8, <3>1, OnAcceptedHolds
  <2>4. CASE e.type \notin {"ready", "created", "accepted"}
    <3>1. w = OnError(v, e.code)
      BY <1>3, <2>4
    <3> QED BY <1>8, <3>1, OnErrorHolds
  <2> QED BY <2>1, <2>2, <2>3, <2>4
<1>10. Faithful(c, Rendered(w), stored) /\ Carried(Rendered(w), http, {})
  BY <1>9, RenderedHolds
<1>11. [sock[c] EXCEPT !.out = Tail(out)] \in Socket(stored)
  BY <1>6, ViewOf, SocketParts
<1>12. sock' \in [Views -> Socket(stored)]
  BY <1>1, <1>4, <1>11 DEF IInv
<1> QED BY <1>4, <1>10, <1>12, ViewOf, UsedStays, OnlyViewMoves

------------------------------------------------------------------------------
(* History and HTTP sends.                                                 *)

\* A read is asked for, served, refused or lost.
LEMMA Fetched ==
  ASSUME NEW c, NEW v, NEW st \in SUBSET Keys, Faithful(c, v, st),
         NEW h, Carried(v, h, {}),
         NEW f \in {"idle", "asked", "page", "refused", "failed"}, NEW p \in {{}, st},
         NEW w, w = [v EXCEPT !.fetch = f, !.page = p]
  PROVE  Faithful(c, w, st) /\ Carried(w, h, {})
<1>1. v \in View /\ p \subseteq st /\ p \in SUBSET Keys
  BY DEF Faithful
<1>2. /\ w \in View /\ w.shown = v.shown /\ w.page = p /\ w.active = v.active
      /\ w.send = v.send
  BY <1>1 DEF View
<1> QED BY <1>1, <1>2 DEF Faithful, Carried

LEMMA ServeHistoryKeepsIInv == ASSUME IInv, NEW c \in Views, ServeHistory(c) PROVE IInv'
<1>1. PICK v, f, p : v = view[c] /\ f = (IF ended THEN "refused" ELSE "page")
                     /\ p = (IF ended THEN {} ELSE stored)
  OBVIOUS
<1>2. PICK w : w = [v EXCEPT !.fetch = f, !.page = p]
  OBVIOUS
<1>3. view' = [view EXCEPT ![c] = w]
  BY <1>1, <1>2 DEF ServeHistory, IInv
<1>4. UNCHANGED <<stored, published, ended, sock, http, used>>
  BY DEF ServeHistory
<1>5. f \in {"idle", "asked", "page", "refused", "failed"} /\ p \in {{}, stored}
  BY <1>1
<1> stored \in SUBSET Keys /\ Faithful(c, v, stored) /\ Carried(v, http, {})
  BY <1>1, ViewOf DEF IInv
<1>6. Faithful(c, w, stored) /\ Carried(w, http, {})
  BY <1>2, <1>5, Fetched
<1>7. sock' \in [Views -> Socket(stored)]
  BY <1>4 DEF IInv
<1> QED BY <1>3, <1>4, <1>6, <1>7, ViewOf, UsedStays, OnlyViewMoves

LEMMA HistoryFailsKeepsIInv == ASSUME IInv, NEW c \in Views, HistoryFails(c) PROVE IInv'
<1>0. PICK v : v = view[c]
  OBVIOUS
<1>1. PICK w : w = [v EXCEPT !.fetch = "failed", !.page = {}]
  OBVIOUS
<1>2. view' = [view EXCEPT ![c] = w]
  BY <1>0, <1>1 DEF HistoryFails, IInv
<1>3. UNCHANGED <<stored, published, ended, sock, http>> /\ Fault("fetch")
  BY DEF HistoryFails
<1> stored \in SUBSET Keys /\ Faithful(c, v, stored) /\ Carried(v, http, {})
  BY <1>0, ViewOf DEF IInv
<1>4. Faithful(c, w, stored) /\ Carried(w, http, {})
  BY <1>1, Fetched
<1>5. sock' \in [Views -> Socket(stored)]
  BY <1>3 DEF IInv
<1> QED BY <1>2, <1>3, <1>4, <1>5, ViewOf, FaultCounts, OnlyViewMoves

LEMMA HistoryArrivesKeepsIInv == ASSUME IInv, NEW c \in Views, HistoryArrives(c) PROVE IInv'
<1>1. PICK v : v = view[c]
  OBVIOUS
<1>2. PICK u : u = [v EXCEPT !.shown = v.shown \cup v.page, !.fetch = "idle", !.page = {},
                           !.loaded = TRUE]
  OBVIOUS
<1>3. PICK w : w = IF v.fetch = "refused" THEN Denied(v) ELSE Rendered(u)
  OBVIOUS
<1>4. view' = [view EXCEPT ![c] = w] /\ UNCHANGED <<stored, published, ended, sock, http, used>>
  BY <1>1, <1>2, <1>3 DEF HistoryArrives
<1>5. v \in View /\ Faithful(c, v, stored) /\ Carried(v, http, {})
  BY <1>1, ViewOf
<1>6. /\ u \in View /\ u.shown = v.shown \cup v.page /\ u.page = {}
      /\ u.active = v.active /\ u.send = v.send
  BY <1>2, <1>5 DEF View
<1>7. u.shown \subseteq stored /\ u.page \subseteq stored
  BY <1>5, <1>6 DEF Faithful
<1>8. Faithful(c, u, stored) /\ Carried(u, http, {})
  BY <1>5, <1>6, <1>7, SameSends
<1>9. Faithful(c, w, stored) /\ Carried(w, http, {})
  BY <1>3, <1>5, <1>8, DeniedHolds, RenderedHolds
<1>10. sock' \in [Views -> Socket(stored)]
  BY <1>4 DEF IInv
<1> QED BY <1>4, <1>9, <1>10, ViewOf, UsedStays, OnlyViewMoves

\* The HTTP request of a key changes and its view does not.
LEMMA RequestMoves ==
  ASSUME IInv, NEW k \in Keys, NEW s \in HttpStates \ {"idle"},
         http' = [http EXCEPT ![k] = s], stored \subseteq stored',
         s = "ok" => k \in stored', http[k] # "idle", UNCHANGED view
  PROVE  view' \in [Views -> View] /\ ViewsHold' /\ Stores(http', stored')
<1>1. /\ http' \in [Keys -> HttpStates]
      /\ \A j \in Keys : http'[j] = IF j = k THEN s ELSE http[j]
  BY DEF IInv, Stores
<1>2. Stores(http', stored')
  BY <1>1 DEF IInv, Stores
<1>3. \A c \in Views : Carried(view[c], http', {})
  BY <1>1 DEF IInv, ViewsHold, Carried
<1>4. \A c \in Views : Faithful(c, view[c], stored')
  BY DEF IInv, ViewsHold, Faithful
<1> QED BY <1>2, <1>3, <1>4 DEF IInv, ViewsHold

LEMMA ServeHttpKeepsIInv == ASSUME IInv, NEW k \in Keys, ServeHttp(k) PROVE IInv'
<1>1. PICK s : s = IF ended THEN "denied" ELSE "ok"
  OBVIOUS
<1>2. /\ http[k] = "asked" /\ http' = [http EXCEPT ![k] = s]
      /\ stored' = (IF ended THEN stored ELSE stored \cup {k})
      /\ UNCHANGED <<published, ended, view, sock, used>>
  BY <1>1 DEF ServeHttp
<1>3. s \in HttpStates \ {"idle"} /\ (s = "ok" => k \in stored') /\ http[k] # "idle"
  BY <1>1, <1>2 DEF HttpStates
<1>4. stored \subseteq stored' /\ stored' \subseteq Keys
  BY <1>2 DEF IInv
<1>5. view' \in [Views -> View] /\ ViewsHold' /\ Stores(http', stored')
  BY <1>2, <1>3, <1>4, RequestMoves
<1>6. sock' \in [Views -> Socket(stored')]
  BY <1>2, <1>4, SocketsStay
<1>7. published' \subseteq stored' /\ ended' \in BOOLEAN
  BY <1>2, <1>4 DEF IInv
<1> QED BY <1>2, <1>4, <1>5, <1>6, <1>7, UsedStays, Holds

LEMMA HttpFailsKeepsIInv == ASSUME IInv, NEW k \in Keys, HttpFails(k) PROVE IInv'
<1>1. /\ http[k] # "idle" /\ http' = [http EXCEPT ![k] = "failed"]
      /\ UNCHANGED <<stored, published, ended, view, sock>> /\ Fault("http")
  BY DEF HttpFails
<1>2. view' \in [Views -> View] /\ ViewsHold' /\ Stores(http', stored')
  BY <1>1, RequestMoves DEF HttpStates
<1>3. sock' \in [Views -> Socket(stored')]
  BY <1>1, SocketsStay
<1>4. stored' \subseteq Keys /\ published' \subseteq stored' /\ ended' \in BOOLEAN
  BY <1>1 DEF IInv
<1> QED BY <1>1, <1>2, <1>3, <1>4, FaultCounts, Holds

\* What the answer of k makes of the view of its author.
Answered(v, k, s) ==
  CASE s = "ok" -> Reconciling([v EXCEPT !.shown = @ \cup {k}, !.send[k] = "gone"])
    [] s = "denied" -> Denied(v)
    [] s = "failed" -> [v EXCEPT !.send[k] = IF Pending(v, k) THEN "failed" ELSE @]

LEMMA AnsweredByHttp ==
  ASSUME NEW c, NEW v, NEW st, Faithful(c, v, st), NEW h, Carried(v, h, {}),
         NEW k \in Keys, Author[k] = c, NEW s \in {"ok", "denied", "failed"},
         s = "ok" => k \in st
  PROVE  Faithful(c, Answered(v, k, s), st) /\ Carried(Answered(v, k, s), [h EXCEPT ![k] = "idle"], {})
<1>1. PICK i : i = [h EXCEPT ![k] = "idle"]
  OBVIOUS
<1>2. \A j \in Keys : j # k => i[j] = h[j]
  BY <1>1
<1>3. CASE s = "ok"
  <2>1. PICK f : f = [v.send EXCEPT ![k] = "gone"]
    OBVIOUS
  <2>2. PICK w : w = [v EXCEPT !.shown = v.shown \cup {k}, !.send = f]
    OBVIOUS
  <2>3. v \in View /\ v.send \in [Keys -> SendStates]
    BY DEF Faithful, View
  <2>4. f \in [Keys -> SendStates] /\ \A j \in Keys : f[j] = IF j = k THEN "gone" ELSE v.send[j]
    BY <2>1, <2>3 DEF SendStates
  <2>5. /\ w \in View /\ w.shown = v.shown \cup {k} /\ w.page = v.page
        /\ w.active = v.active /\ w.send = f
    BY <2>2, <2>3, <2>4 DEF View
  <2>6. Faithful(c, w, st) /\ Carried(w, i, {})
    BY <1>2, <1>3, <2>4, <2>5 DEF Faithful, Carried
  <2>7. Faithful(c, Reconciling(w), st) /\ Carried(Reconciling(w), i, {})
    BY <2>6, ReconcilingHolds DEF Carried
  <2>8. Answered(v, k, s) = Reconciling(w)
    BY <1>3, <2>1, <2>2 DEF Answered
  <2> QED BY <1>1, <2>7, <2>8
<1>4. CASE s = "denied"
  <2>1. Answered(v, k, s) = Denied(v)
    BY <1>4 DEF Answered
  <2>2. Faithful(c, Denied(v), st) /\ Carried(Denied(v), i, {})
    BY DeniedHolds
  <2> QED BY <1>1, <2>1, <2>2
<1>5. CASE s = "failed"
  <2>1. PICK t : t = IF Pending(v, k) THEN "failed" ELSE v.send[k]
    OBVIOUS
  <2>2. PICK w : w = Turned(v, k, t)
    OBVIOUS
  <2>3. t \in SendStates /\ t # "sending"
    BY <2>1 DEF Pending, SendStates, Faithful, View
  <2>4. /\ Faithful(c, w, st) /\ w.active = v.active
        /\ \A j \in Keys : w.send[j] = IF j = k THEN t ELSE v.send[j]
    BY <2>2, <2>3, TurnedHolds
  <2>5. Carried(w, i, {})
    BY <1>2, <2>3, <2>4 DEF Carried
  <2>6. Answered(v, k, s) = w
    BY <1>5, <2>1, <2>2 DEF Answered, Turned
  <2> QED BY <1>1, <2>4, <2>5, <2>6
<1> QED BY <1>3, <1>4, <1>5

LEMMA HttpAnswerKeepsIInv == ASSUME IInv, NEW k \in Keys, HttpAnswer(k) PROVE IInv'
<1>1. PICK c, v, s : c = Author[k] /\ v = view[c] /\ s = http[k]
  OBVIOUS
<1>2. PICK w, h : w = Answered(v, k, s) /\ h = [http EXCEPT ![k] = "idle"]
  OBVIOUS
<1>3. /\ s \in {"ok", "denied", "failed"} /\ http' = h
      /\ view' = [view EXCEPT ![c] = Rendered(w)]
      /\ UNCHANGED <<stored, published, ended, sock, used>>
  BY <1>1, <1>2 DEF HttpAnswer, Answered
<1>4. c \in Views
  BY <1>1, DeliveryAssumption
<1>5. Faithful(c, v, stored) /\ Carried(v, http, {}) /\ (s = "ok" => k \in stored)
  BY <1>1, <1>4, ViewOf DEF Stores
<1>6. Faithful(c, w, stored) /\ Carried(w, h, {})
  BY <1>1, <1>2, <1>3, <1>5, AnsweredByHttp
<1>7. Faithful(c, Rendered(w), stored) /\ Carried(Rendered(w), h, {})
  BY <1>6, RenderedHolds
<1>8. \A j \in Keys : Author[j] # c => h[j] = http[j]
  BY <1>1, <1>2
<1>9. Stores(h, stored)
  BY <1>2 DEF IInv, Stores, HttpStates
<1>10. sock' \in [Views -> Socket(stored)]
  BY <1>3 DEF IInv
<1> QED BY <1>3, <1>4, <1>7, <1>8, <1>9, <1>10, UsedStays, OnlyViewMoves

------------------------------------------------------------------------------
(* The socket handler.                                                     *)

LEMMA AuthorizeKeepsIInv == ASSUME IInv, NEW c \in Views, Authorize(c) PROVE IInv'
<1>1. PICK r : r = sock[c]
  OBVIOUS
<1>2. PICK s : s = IF ended THEN Closed(r, "lost") ELSE [r EXCEPT !.st = "authorized"]
  OBVIOUS
<1>3. sock' = [sock EXCEPT ![c] = s] /\ UNCHANGED <<stored, published, ended, view, http, used>>
  BY <1>1, <1>2 DEF Authorize
<1>4. r \in Socket(stored) /\ "lost" \in Codes
  BY <1>1, ViewOf DEF Codes
<1>5. [r EXCEPT !.st = "authorized"] \in Socket(stored)
  BY <1>4 DEF Socket, SocketStates
<1>6. s \in Socket(stored)
  BY <1>2, <1>4, <1>5, ClosedHolds
<1> QED BY <1>3, <1>6, UsedStays, OnlySocketMoves

LEMMA SubscribeKeepsIInv == ASSUME IInv, NEW c \in Views, Subscribe(c) PROVE IInv'
<1>1. PICK r : r = sock[c]
  OBVIOUS
<1>2. r \in Socket(stored) /\ "lost" \in Codes
  BY <1>1, ViewOf DEF Codes
<1>3. UNCHANGED <<stored, published, ended, view, http>>
  BY DEF Subscribe
<1>4. CASE sock' = [sock EXCEPT ![c].st = "subscribed"] /\ UNCHANGED used
  <2>1. PICK s : s = [r EXCEPT !.st = "subscribed"]
    OBVIOUS
  <2>2. s \in Socket(stored)
    BY <1>2, <2>1 DEF Socket, SocketStates
  <2>3. sock' = [sock EXCEPT ![c] = s]
    BY <1>1, <1>4, <2>1
  <2> QED BY <1>3, <1>4, <2>2, <2>3, UsedStays, OnlySocketMoves
<1>5. CASE sock' = [sock EXCEPT ![c] = Closed(@, "lost")] /\ Fault("redis")
  <2>1. PICK s : s = Closed(r, "lost")
    OBVIOUS
  <2>2. s \in Socket(stored)
    BY <1>2, <2>1, ClosedHolds
  <2>3. sock' = [sock EXCEPT ![c] = s]
    BY <1>1, <1>5, <2>1
  <2> QED BY <1>3, <1>5, <2>2, <2>3, FaultCounts, OnlySocketMoves
<1> QED BY <1>4, <1>5 DEF Subscribe

LEMMA AcceptSocketKeepsIInv == ASSUME IInv, NEW c \in Views, AcceptSocket(c) PROVE IInv'
<1>1. PICK r : r = sock[c]
  OBVIOUS
<1>2. PICK out : out = Append(r.out, News("ready", None))
  OBVIOUS
<1>3. PICK s : s = [r EXCEPT !.st = "open", !.out = out]
  OBVIOUS
<1>4. r \in Socket(stored) /\ sock \in [Views -> Socket(stored)]
  BY <1>1, ViewOf DEF IInv
<1>5. out \in Seq(Truthful(stored))
  BY <1>2, <1>4, Announcements, AppendProperties DEF Socket
<1>6. s \in Socket(stored)
  BY <1>3, <1>4, <1>5 DEF Socket, SocketStates
<1>7. sock' = [sock EXCEPT ![c] = s] /\ UNCHANGED <<stored, published, ended, view, http, used>>
  BY <1>1, <1>2, <1>3, <1>4 DEF AcceptSocket
<1> QED BY <1>6, <1>7, UsedStays, OnlySocketMoves

LEMMA ReceiveAndPersistKeepsIInv ==
  ASSUME IInv, NEW c \in Views, ReceiveAndPersist(c) PROVE IInv'
<1>1. PICK r : r = sock[c]
  OBVIOUS
<1>2. PICK k : k = Head(r.inbox)
  OBVIOUS
<1>3. r \in Socket(stored) /\ r.inbox \in Seq(Keys) /\ r.out \in Seq(Truthful(stored))
  BY <1>1, ViewOf DEF Socket
<1>4. k \in Keys /\ Tail(r.inbox) \in Seq(Keys)
  BY <1>1, <1>2, <1>3, HeadTailProperties DEF ReceiveAndPersist
<1>5. UNCHANGED <<published, ended, view, http>>
  BY DEF ReceiveAndPersist
<1>6. "denied" \in Codes /\ "limited" \in Codes
  BY DEF Codes
<1>7. CASE sock' = [sock EXCEPT ![c] = Closed(@, "denied")] /\ UNCHANGED <<stored, used>>
  <2>1. PICK s : s = Closed(r, "denied")
    OBVIOUS
  <2>2. s \in Socket(stored)
    BY <1>3, <1>6, <2>1, ClosedHolds
  <2>3. sock' = [sock EXCEPT ![c] = s]
    BY <1>1, <1>7, <2>1
  <2> QED BY <1>5, <1>7, <2>2, <2>3, UsedStays, OnlySocketMoves
<1>8. CASE /\ stored' = stored \cup {k}
           /\ sock' = [sock EXCEPT ![c].inbox = Tail(@), ![c].work = k]
           /\ UNCHANGED used
  <2>1. PICK inbox : inbox = Tail(r.inbox)
    OBVIOUS
  <2>2. PICK s : s = [r EXCEPT !.inbox = inbox, !.work = k]
    OBVIOUS
  <2>3. stored \subseteq stored' /\ stored' \subseteq Keys /\ k \in stored'
    BY <1>4, <1>8 DEF IInv
  <2>4. r \in Socket(stored')
    BY <1>3, <2>3, SocketGrows
  <2>5. s \in Socket(stored')
    BY <1>4, <2>1, <2>2, <2>3, <2>4 DEF Socket
  <2>6. sock' = [sock EXCEPT ![c] = s]
    BY <1>1, <1>8, <2>1, <2>2 DEF IInv
  <2>7. sock' \in [Views -> Socket(stored')]
    BY <2>3, <2>5, <2>6, SocketMoves
  <2>8. view' \in [Views -> View] /\ ViewsHold'
    BY <1>5, <2>3, ViewsStay
  <2>9. published' \subseteq stored' /\ ended' \in BOOLEAN /\ Stores(http', stored')
    BY <1>5, <2>3 DEF IInv, Stores
  <2> QED BY <1>8, <2>3, <2>7, <2>8, <2>9, UsedStays, Holds
<1>9. CASE /\ Fault("limit") /\ UNCHANGED stored
           /\ sock' = [sock EXCEPT ![c] =
                Closed([sock[c] EXCEPT !.out = Append(@, End("error", "limited"))],
                       "limited")]
  <2>1. PICK out : out = Append(r.out, End("error", "limited"))
    OBVIOUS
  <2>2. PICK q : q = [r EXCEPT !.out = out]
    OBVIOUS
  <2>3. PICK s : s = Closed(q, "limited")
    OBVIOUS
  <2>4. out \in Seq(Truthful(stored))
    BY <1>3, <1>6, <2>1, Announcements, AppendProperties
  <2>5. q \in Socket(stored)
    BY <1>3, <2>2, <2>4, SocketParts
  <2>6. s \in Socket(stored)
    BY <1>6, <2>3, <2>5, ClosedHolds
  <2>7. sock' = [sock EXCEPT ![c] = s]
    BY <1>1, <1>9, <2>1, <2>2, <2>3
  <2> QED BY <1>5, <1>9, <2>6, <2>7, FaultCounts, OnlySocketMoves
<1> QED BY <1>1, <1>2, <1>7, <1>8, <1>9 DEF ReceiveAndPersist

LEMMA PublishCommittedKeepsIInv ==
  ASSUME IInv, NEW c \in Views, PublishCommitted(c) PROVE IInv'
<1>1. PICK k : k = sock[c].work
  OBVIOUS
<1>2. PICK news : news = IF k \in published THEN {} ELSE Subscribers
  OBVIOUS
<1> DEFINE told(d) == IF d \in news THEN [sock[d] EXCEPT !.chan = Append(@, k)] ELSE sock[d]
           accepted(s) == [s EXCEPT !.work = None, !.out = Append(@, News("accepted", k))]
<1>3. UNCHANGED <<stored, ended, view, http>> /\ k # None
  BY <1>1 DEF PublishCommitted
<1>4. k \in stored /\ k \in Keys /\ News("accepted", k) \in Truthful(stored)
  BY <1>1, <1>3, ViewOf, Announcements DEF Socket, IInv
<1>5. ASSUME NEW s \in Socket(stored) PROVE accepted(s) \in Socket(stored)
  <2>1. PICK out : out = Append(s.out, News("accepted", k))
    OBVIOUS
  <2>2. out \in Seq(Truthful(stored))
    BY <1>4, <2>1, AppendProperties DEF Socket
  <2>3. PICK q : q = [s EXCEPT !.work = None, !.out = out]
    OBVIOUS
  <2>4. q \in Socket(stored)
    BY <2>2, <2>3 DEF Socket
  <2>5. accepted(s) = q
    BY <2>1, <2>3
  <2> QED BY <2>4, <2>5
<1>6. ASSUME NEW d \in Views PROVE told(d) \in Socket(stored)
  <2>1. PICK s, chan : s = sock[d] /\ chan = Append(sock[d].chan, k)
    OBVIOUS
  <2>2. s \in Socket(stored) /\ s.chan \in Seq(Keys)
    BY <2>1, ViewOf DEF Socket
  <2>3. chan \in Seq(Keys)
    BY <1>4, <2>1, <2>2, AppendProperties
  <2>4. PICK q : q = [s EXCEPT !.chan = chan]
    OBVIOUS
  <2>5. q \in Socket(stored)
    BY <2>2, <2>3, <2>4 DEF Socket
  <2>6. told(d) = q \/ told(d) = s
    BY <2>1, <2>4
  <2> QED BY <2>2, <2>5, <2>6
<1>7. CASE /\ sock' = [d \in Views |-> IF d = c THEN accepted(told(d)) ELSE told(d)]
           /\ published' = (IF news = {} THEN published ELSE published \cup {k})
           /\ UNCHANGED used
  <2>1. accepted(told(c)) \in Socket(stored)
    BY <1>5, <1>6
  <2>2. sock' \in [Views -> Socket(stored')]
    <3> HIDE DEF told, accepted
    <3> QED BY <1>3, <1>6, <1>7, <2>1
  <2>3. /\ published' \subseteq stored' /\ stored' \subseteq Keys /\ ended' \in BOOLEAN
        /\ Stores(http', stored')
    BY <1>3, <1>4, <1>7 DEF IInv
  <2>4. view' \in [Views -> View] /\ ViewsHold'
    BY <1>3, ViewsStay
  <2> QED BY <1>7, <2>2, <2>3, <2>4, UsedStays, Holds
<1>8. CASE /\ Fault("redis") /\ UNCHANGED published
           /\ sock' = [sock EXCEPT ![c] = Closed(accepted(@), "lost")]
  <2>1. PICK r, s : r = accepted(sock[c]) /\ s = Closed(r, "lost")
    OBVIOUS
  <2>2. r \in Socket(stored)
    BY <1>5, <2>1, ViewOf
  <2>3. s \in Socket(stored)
    BY <2>1, <2>2, ClosedHolds DEF Codes
  <2>4. sock' = [sock EXCEPT ![c] = s]
    BY <1>8, <2>1, Zenon
  <2> QED BY <1>3, <1>8, <2>3, <2>4, FaultCounts, OnlySocketMoves
<1> QED BY <1>1, <1>2, <1>7, <1>8 DEF PublishCommitted

LEMMA ForwardCommittedKeepsIInv ==
  ASSUME IInv, NEW c \in Views, ForwardCommitted(c) PROVE IInv'
<1>1. PICK r : r = sock[c]
  OBVIOUS
<1>2. PICK k, chan : k = Head(r.chan) /\ chan = Tail(r.chan)
  OBVIOUS
<1>3. PICK out : out = IF k \in stored THEN Append(r.out, News("created", k)) ELSE r.out
  OBVIOUS
<1>4. PICK q : q = [r EXCEPT !.chan = chan, !.out = out]
  OBVIOUS
<1>5. PICK s : s = IF ended THEN Closed(r, "denied") ELSE q
  OBVIOUS
<1>6. /\ r.chan # <<>> /\ sock' = [sock EXCEPT ![c] = s]
      /\ UNCHANGED <<stored, published, ended, view, http, used>>
  BY <1>1, <1>2, <1>3, <1>4, <1>5 DEF ForwardCommitted
<1>7. r \in Socket(stored) /\ r.chan \in Seq(Keys) /\ r.out \in Seq(Truthful(stored))
  BY <1>1, ViewOf DEF Socket
<1>8. k \in Keys /\ chan \in Seq(Keys)
  BY <1>2, <1>6, <1>7, HeadTailProperties
<1>9. out \in Seq(Truthful(stored))
  BY <1>3, <1>7, <1>8, Announcements, AppendProperties
<1>10. q \in Socket(stored)
  BY <1>4, <1>7, <1>8, <1>9 DEF Socket
<1>11. Closed(r, "denied") \in Socket(stored)
  BY <1>7, ClosedHolds DEF Codes
<1> QED BY <1>5, <1>6, <1>10, <1>11, UsedStays, OnlySocketMoves

LEMMA BreakKeepsIInv == ASSUME IInv, NEW c \in Views, Break(c) PROVE IInv'
<1>1. PICK r : r = sock[c]
  OBVIOUS
<1>2. PICK q : q = [r EXCEPT !.out = <<>>]
  OBVIOUS
<1>3. PICK s : s = Closed(q, "lost")
  OBVIOUS
<1>4. /\ sock' = [sock EXCEPT ![c] = s] /\ Fault("break")
      /\ UNCHANGED <<stored, published, ended, view, http>>
  BY <1>1, <1>2, <1>3 DEF Break
<1>5. r \in Socket(stored) /\ <<>> \in Seq(Truthful(stored))
  BY <1>1, ViewOf, EmptySeq
<1>6. q \in Socket(stored)
  BY <1>2, <1>5, SocketParts
<1>7. s \in Socket(stored)
  BY <1>3, <1>6, ClosedHolds DEF Codes
<1> QED BY <1>4, <1>7, FaultCounts, OnlySocketMoves

LEMMA MatchEndsKeepsIInv == ASSUME IInv, MatchEnds PROVE IInv'
<1>1. /\ Fault("end") /\ ended' = TRUE /\ UNCHANGED <<stored, published, view, sock, http>>
  BY DEF MatchEnds
<1>2. view' \in [Views -> View] /\ ViewsHold'
  BY <1>1, ViewsStay
<1>3. sock' \in [Views -> Socket(stored')]
  BY <1>1, SocketsStay
<1>4. /\ stored' \subseteq Keys /\ published' \subseteq stored' /\ ended' \in BOOLEAN
      /\ Stores(http', stored')
  BY <1>1 DEF IInv
<1> QED BY <1>1, <1>2, <1>3, <1>4, FaultCounts, Holds

------------------------------------------------------------------------------
(* The invariant of the specification.                                     *)

LEMMA InitIInv == Init => IInv
<1> SUFFICES ASSUME Init PROVE IInv
  OBVIOUS
<1>1. /\ stored = {} /\ published = {} /\ ended = FALSE /\ http = [k \in Keys |-> "idle"]
      /\ used = [retries |-> 0, faults |-> 0] /\ sock = [c \in Views |-> NoSocket]
  BY DEF Init
<1>2. PICK v : v = [state |-> "connecting", attempt |-> 0, shown |-> {}, active |-> None,
                    send |-> [k \in Keys |-> "unsent"], id |-> [k \in Keys |-> None],
                    fetch |-> "asked", page |-> {}, loaded |-> FALSE, early |-> FALSE]
  OBVIOUS
<1>3. view = [c \in Views |-> v]
  BY <1>2 DEF Init
<1>4. v \in View /\ v.shown = {} /\ v.page = {} /\ v.active = None
      /\ v.send = [k \in Keys |-> "unsent"]
  BY <1>2, DeliveryAssumption DEF View, ViewStates, SendStates
<1>5. ASSUME NEW c \in Views PROVE Faithful(c, v, {}) /\ Carried(v, http, {})
  BY <1>4 DEF Faithful, Carried
<1>6. view \in [Views -> View] /\ ViewsHold
  BY <1>1, <1>3, <1>4, <1>5 DEF ViewsHold
<1>7. sock \in [Views -> Socket(stored)]
  BY <1>1, NoSocketHolds
<1>8. Stores(http, stored)
  BY <1>1 DEF Stores, HttpStates
<1>9. used \in [retries : 0 .. MaxRetries, faults : 0 .. MaxFaults]
  BY <1>1, DeliveryAssumption
<1> QED BY <1>1, <1>6, <1>7, <1>8, <1>9 DEF IInv

LEMMA StepIInv == IInv /\ [Next]_vars => IInv'
<1> SUFFICES ASSUME IInv, [Next]_vars PROVE IInv'
  OBVIOUS
<1>1. CASE UNCHANGED vars
  <2>1. UNCHANGED <<stored, published, ended, view, sock, http, used>>
    BY <1>1 DEF vars
  <2> QED BY <2>1, ViewsStay, SocketsStay, UsedStays, Holds DEF IInv
<1>2. ASSUME NEW c \in Views, ClientStep(c) PROVE IInv'
  BY <1>2, SendTimeoutKeepsIInv, ConnectKeepsIInv, ReceiveEventKeepsIInv,
     ReceiveCloseKeepsIInv, HistoryArrivesKeepsIInv DEF ClientStep
<1>3. ASSUME NEW c \in Views, ServerStep(c) PROVE IInv'
  BY <1>3, ServeHistoryKeepsIInv, AuthorizeKeepsIInv, SubscribeKeepsIInv,
     AcceptSocketKeepsIInv, ReceiveAndPersistKeepsIInv, PublishCommittedKeepsIInv,
     ForwardCommittedKeepsIInv DEF ServerStep
<1>4. ASSUME NEW c \in Views,
             \/ SendMessage(c) \/ RetryMessage(c) \/ RetryConnection(c)
             \/ HistoryFails(c) \/ Break(c)
      PROVE  IInv'
  BY <1>4, SendMessageKeepsIInv, RetryMessageKeepsIInv, RetryConnectionKeepsIInv,
     HistoryFailsKeepsIInv, BreakKeepsIInv
<1>5. ASSUME NEW k \in Keys, HttpStep(k) \/ HttpFails(k) PROVE IInv'
  BY <1>5, ServeHttpKeepsIInv, HttpAnswerKeepsIInv, HttpFailsKeepsIInv DEF HttpStep
<1> QED BY <1>1, <1>2, <1>3, <1>4, <1>5, MatchEndsKeepsIInv DEF Next

LEMMA Invariant == Spec => []IInv
BY InitIInv, StepIInv, PTL DEF Spec

LEMMA IInvTypes == IInv => TypeOK
<1> SUFFICES ASSUME IInv PROVE TypeOK
  OBVIOUS
<1>1. stored \subseteq Keys /\ published \subseteq Keys /\ ended \in BOOLEAN
      /\ http \in [Keys -> HttpStates]
      /\ used.retries \in 0 .. MaxRetries /\ used.faults \in 0 .. MaxFaults
  BY DEF IInv, Stores
<1>2. ASSUME NEW c \in Views
      PROVE  /\ view[c].state \in ViewStates /\ view[c].attempt \in 0 .. Delays
             /\ view[c].shown \subseteq Keys /\ view[c].page \subseteq Keys
             /\ view[c].fetch \in {"idle", "asked", "page", "refused", "failed"}
             /\ view[c].loaded \in BOOLEAN /\ view[c].early \in BOOLEAN
             /\ view[c].active \in {None} \cup {k \in Keys : Author[k] = c}
             /\ \A k \in Keys : /\ view[c].send[k] \in SendStates
                                /\ view[c].id[k] \in Keys \cup {None}
  <2>1. view[c] \in View /\ Faithful(c, view[c], stored)
    BY ViewOf
  <2> QED BY <2>1 DEF View, Faithful
<1>3. ASSUME NEW c \in Views
      PROVE  /\ sock[c].st \in SocketStates
             /\ sock[c].inbox \in Seq(Keys) /\ sock[c].chan \in Seq(Keys)
             /\ sock[c].work \in Keys \cup {None}
             /\ sock[c].out \in Seq(Event)
  <2>1. sock[c] \in Socket(stored) /\ stored \subseteq Keys
    BY ViewOf DEF IInv
  <2>2. Truthful(stored) \subseteq Event
    BY DEF Truthful
  <2>3. sock[c].out \in Seq(Event)
    BY <2>1, <2>2, SeqMonotonic DEF Socket
  <2> QED BY <2>1, <2>3 DEF Socket
<1> QED BY <1>1, <1>2, <1>3 DEF TypeOK

\* Every record of the views, the sockets and the requests keeps its shape, and
\* a view waits for at most one send of its own.
THEOREM TypeCorrect == Spec => []TypeOK
BY Invariant, IInvTypes, PTL

LEMMA IInvShown == IInv => ShownIsStored
<1> SUFFICES ASSUME IInv PROVE ShownIsStored
  OBVIOUS
<1>1. \A c \in Views : view[c].shown \subseteq stored
  BY ViewOf DEF Faithful
<1> QED BY <1>1 DEF IInv, ShownIsStored

\* Persist before publish: no view shows a message, and no channel has
\* announced one, that is not committed, whatever fails between the commit, the
\* publication, the socket and the HTTP fallback.
THEOREM ShownIsStoredHolds == Spec => []ShownIsStored
BY Invariant, IInvShown, PTL

LEMMA IInvCarried == IInv => SendingIsCarried
BY DEF IInv, ViewsHold, Carried, SendingIsCarried

\* A send displayed as "Sending" is with the socket and its timer or with HTTP,
\* through every timeout, close, retry and misattributed acceptance: the composer
\* it locks is never locked for good by a send nobody carries.
THEOREM SendingIsCarriedHolds == Spec => []SendingIsCarried
BY Invariant, IInvCarried, PTL

=============================================================================
