--------------------------- MODULE Matching_proofs ---------------------------
(***************************************************************************)
(* Proofs about Matching for every set of users, invitations and requests  *)
(* and every limit, lifetime and batch size.  First type correctness, and  *)
(* the lock discipline from which NoPendingBesideMatch and                 *)
(* IndexesNeverNeeded follow; then, by that discipline, what the users of  *)
(* a pair end up with: stamps on the right side of the deadline, no more   *)
(* pending invitations than the limit, buddies of opposite types, a match  *)
(* with all that belongs to it, pages that agree, and a relation that      *)
(* moves only as BuddyRelation allows.                                     *)
(***************************************************************************)
EXTENDS MatchingReads, FiniteSetTheorems, TLAPS

-----------------------------------------------------------------------------
(* What the steps of Matching do to the two tables, and to its requests.   *)

\* No row that exists disappears or changes hands.
RowsKept ==
    \A i \in Invitations : invitation[i].status # "NONE" =>
        /\ invitation'[i].status # "NONE"
        /\ invitation'[i].sender = invitation[i].sender
        /\ invitation'[i].recipient = invitation[i].recipient

\* A request that is still there is about the same two users and invitation.
RequestsKept ==
    \A q \in Requests :
        \/ request'[q].pc = "idle"
        \/ /\ request[q].pc # "idle"
           /\ request'[q].sender = request[q].sender
           /\ request'[q].recipient = request[q].recipient
           /\ request'[q].op = request[q].op
           /\ request'[q].invitation = request[q].invitation

\* The idle request and the missing row are well typed.
LEMMA ConstantsTyped == Idle \in Request /\ NoRow \in InvitationRow
<1>1. Idle \in Request
  BY DEF Idle, Request, Account, StudentTypes
<1>2. NoRow \in InvitationRow
  BY DEF NoRow, InvitationRow, Terminal
<1> QED
  BY <1>1, <1>2

\* Closing a row with a terminal status changes that status and its stamp.
LEMMA CloseTyped ==
  ASSUME TypeOK, NEW i \in Invitations, NEW status \in Terminal, NEW at \in Nat
  PROVE  /\ Close(i, status, at) \in InvitationRow
         /\ Close(i, status, at).status = status
         /\ Close(i, status, at).sender = invitation[i].sender
         /\ Close(i, status, at).recipient = invitation[i].recipient
<1>1. invitation[i] \in InvitationRow
  BY DEF TypeOK
<1> QED
  BY <1>1 DEF Close, InvitationRow

\* Replacing one request by a well typed one leaves a table of requests.
LEMMA RequestTyped ==
  ASSUME TypeOK, NEW r \in Requests, NEW v \in Request,
         request' = [request EXCEPT ![r] = v]
  PROVE  /\ request' \in [Requests -> Request]
         /\ \A q \in Requests : request'[q] = IF q = r THEN v ELSE request[q]
BY DEF TypeOK

\* A request that ends leaves a table of requests, with that one idle.
LEMMA EndTyped ==
  ASSUME TypeOK, NEW r \in Requests, End(r)
  PROVE  /\ request' \in [Requests -> Request]
         /\ \A q \in Requests : request'[q] = IF q = r THEN Idle ELSE request[q]
         /\ RequestsKept
<1>1. /\ request' \in [Requests -> Request]
      /\ \A q \in Requests : request'[q] = IF q = r THEN Idle ELSE request[q]
  BY ConstantsTyped, RequestTyped DEF End
<1>2. Idle.pc = "idle"
  BY DEF Idle
<1> QED
  BY <1>1, <1>2 DEF RequestsKept

\* A row update that gives every existing row its old owners keeps RowShape.
LEMMA RowShapeKept ==
  ASSUME RowShape, RowsKept,
         \A i \in Invitations :
            invitation[i].status = "NONE" => invitation'[i] = invitation[i]
  PROVE  RowShape'
BY DEF RowShape, RowsKept

\* ... and requests that keep their users and their row keep RequestShape.
LEMMA RequestShapeKept ==
  ASSUME TypeOK, RequestShape, RowsKept, RequestsKept
  PROVE  RequestShape'
<1> SUFFICES ASSUME NEW q \in Requests, request'[q].pc # "idle"
             PROVE  /\ {request'[q].sender, request'[q].recipient} \subseteq Users
                    /\ request'[q].sender # request'[q].recipient
                    /\ request'[q].op = "accept" => request'[q].invitation # NoInvitation
                    /\ request'[q].invitation # NoInvitation =>
                        /\ invitation'[request'[q].invitation].status # "NONE"
                        /\ {invitation'[request'[q].invitation].sender,
                            invitation'[request'[q].invitation].recipient}
                             = {request'[q].sender, request'[q].recipient}
  BY DEF RequestShape, InvitationPair, Participants
<1>1. /\ request[q].pc # "idle"
      /\ request'[q].sender = request[q].sender
      /\ request'[q].recipient = request[q].recipient
      /\ request'[q].op = request[q].op
      /\ request'[q].invitation = request[q].invitation
  BY DEF RequestsKept
<1>2. request[q].invitation \in Invitations \union {NoInvitation}
  BY DEF TypeOK, Request
<1>3. /\ {request[q].sender, request[q].recipient} \subseteq Users
      /\ request[q].sender # request[q].recipient
      /\ request[q].op = "accept" => request[q].invitation # NoInvitation
      /\ request[q].invitation # NoInvitation =>
           /\ invitation[request[q].invitation].status # "NONE"
           /\ {invitation[request[q].invitation].sender,
               invitation[request[q].invitation].recipient}
                = {request[q].sender, request[q].recipient}
  BY <1>1 DEF RequestShape, InvitationPair, Participants
<1> QED
  BY <1>1, <1>2, <1>3 DEF RowsKept

-----------------------------------------------------------------------------
(* Type correctness, with the shapes it needs: a row that exists and a     *)
(* request that runs name two different users, and an accept names a row   *)
(* between its users.                                                      *)

Typed == TypeOK /\ RowShape /\ RequestShape

\* A step that leaves the rows alone and moves one request on, or ends it.
LEMMA RequestOnly ==
  ASSUME Typed, RequestsKept, request' \in [Requests -> Request],
         UNCHANGED <<account, invitation, matches, conversations, outbox, now>>
  PROVE  Typed'
<1>1. RowsKept
  BY DEF RowsKept
<1>2. RequestShape'
  BY <1>1, RequestShapeKept DEF Typed
<1>3. RowShape'
  BY <1>1, RowShapeKept DEF Typed
<1>4. TypeOK'
  BY DEF Typed, TypeOK
<1> QED
  BY <1>2, <1>3, <1>4 DEF Typed

\* A step that closes or hides rows and leaves the requests alone.
LEMMA RowsOnly ==
  ASSUME Typed, RowsKept, invitation' \in [Invitations -> InvitationRow],
         \A i \in Invitations :
            invitation[i].status = "NONE" => invitation'[i] = invitation[i],
         UNCHANGED <<account, matches, conversations, outbox, request, now>>
  PROVE  Typed'
<1>1. RequestsKept
  BY DEF RequestsKept
<1>2. RequestShape'
  BY <1>1, RequestShapeKept DEF Typed
<1>3. RowShape'
  BY RowShapeKept DEF Typed
<1>4. TypeOK'
  BY DEF Typed, TypeOK
<1> QED
  BY <1>2, <1>3, <1>4 DEF Typed

LEMMA InitTyped == Init => Typed
<1> SUFFICES ASSUME Init PROVE Typed
  OBVIOUS
<1>1. TypeOK
  BY ConstantsTyped DEF Init, TypeOK, Account
<1>2. RowShape
  BY DEF Init, RowShape, NoRow
<1>3. RequestShape
  BY DEF Init, RequestShape, Idle
<1> QED
  BY <1>1, <1>2, <1>3 DEF Typed

\* A request replaced by one of the right shape.
LEMMA RequestShapeOne ==
  ASSUME RequestShape, NEW r \in Requests, NEW v, UNCHANGED invitation,
         \A q \in Requests : request'[q] = IF q = r THEN v ELSE request[q],
         v.sender \in Users, v.recipient \in Users, v.sender # v.recipient,
         v.op = "accept" => v.invitation # NoInvitation,
         v.invitation # NoInvitation =>
            /\ invitation[v.invitation].status # "NONE"
            /\ {invitation[v.invitation].sender, invitation[v.invitation].recipient}
                 = {v.sender, v.recipient}
  PROVE  RequestShape'
<1> SUFFICES ASSUME NEW q \in Requests, request'[q].pc # "idle"
             PROVE  /\ {request'[q].sender, request'[q].recipient} \subseteq Users
                    /\ request'[q].sender # request'[q].recipient
                    /\ request'[q].op = "accept" => request'[q].invitation # NoInvitation
                    /\ request'[q].invitation # NoInvitation =>
                        /\ invitation[request'[q].invitation].status # "NONE"
                        /\ {invitation[request'[q].invitation].sender,
                            invitation[request'[q].invitation].recipient}
                             = {request'[q].sender, request'[q].recipient}
  BY DEF RequestShape, InvitationPair, Participants
<1>1. CASE q = r
  <2>1. request'[q] = v
    BY <1>1
  <2> QED
    BY <2>1
<1>2. CASE q # r
  <2>1. request'[q] = request[q]
    BY <1>2
  <2> QED
    BY <2>1 DEF RequestShape, InvitationPair, Participants
<1> QED
  BY <1>1, <1>2

\* The two ways a request starts.
LEMMA BeginSendTyped ==
  ASSUME Typed, NEW r \in Requests, NEW s \in Users, NEW t \in Users,
         BeginSend(r, s, t)
  PROVE  Typed'
<1> DEFINE v == [pc |-> "first", op |-> "send", sender |-> s, recipient |-> t,
                 invitation |-> NoInvitation, seen |-> account[s], at |-> now]
<1>1. account[s] \in Account /\ now \in Nat
  BY DEF Typed, TypeOK
<1>2. v \in Request
  BY <1>1 DEF Request
<1>3. /\ request' = [request EXCEPT ![r] = v]
      /\ s # t
      /\ UNCHANGED <<account, invitation, matches, conversations, outbox, now>>
  BY DEF BeginSend
<1>4. /\ request' \in [Requests -> Request]
      /\ \A q \in Requests : request'[q] = IF q = r THEN v ELSE request[q]
  BY <1>2, <1>3, RequestTyped DEF Typed
<1>5. TypeOK'
  BY <1>3, <1>4 DEF Typed, TypeOK
<1>6. RowShape'
  BY <1>3 DEF Typed, RowShape
<1>7. RequestShape'
  BY <1>3, <1>4 DEF Typed, RequestShape, InvitationPair, Participants
<1> QED
  BY <1>5, <1>6, <1>7 DEF Typed

LEMMA BeginAcceptTyped ==
  ASSUME Typed, NEW r \in Requests, NEW i \in Invitations, BeginAccept(r, i)
  PROVE  Typed'
<1> DEFINE v == [pc |-> "first", op |-> "accept",
                 sender |-> invitation[i].sender,
                 recipient |-> invitation[i].recipient, invitation |-> i,
                 seen |-> account[invitation[i].recipient], at |-> now]
<1>1. /\ request' = [request EXCEPT ![r] = v]
      /\ invitation[i].status = "PENDING"
      /\ UNCHANGED <<account, invitation, matches, conversations, outbox, now>>
  BY DEF BeginAccept, IsPending
<1>2. /\ invitation[i].sender \in Users
      /\ invitation[i].recipient \in Users
      /\ invitation[i].sender # invitation[i].recipient
  BY <1>1 DEF Typed, RowShape
<1>3. account[invitation[i].recipient] \in Account /\ now \in Nat
  BY <1>2 DEF Typed, TypeOK
<1>4. v \in Request
  BY <1>2, <1>3 DEF Request
<1>5. /\ request' \in [Requests -> Request]
      /\ \A q \in Requests : request'[q] = IF q = r THEN v ELSE request[q]
  BY <1>1, <1>4, RequestTyped DEF Typed
<1>6. TypeOK'
  BY <1>1, <1>5 DEF Typed, TypeOK
<1>7. RowShape'
  BY <1>1 DEF Typed, RowShape
<1>8. RequestShape'
  <2>1. v.sender \in Users /\ v.recipient \in Users /\ v.sender # v.recipient
    BY <1>2
  <2>2. /\ v.op = "accept" => v.invitation # NoInvitation
        /\ v.invitation # NoInvitation =>
             /\ invitation[v.invitation].status # "NONE"
             /\ {invitation[v.invitation].sender, invitation[v.invitation].recipient}
                  = {v.sender, v.recipient}
    BY <1>1, InvitationsAssumption
  <2> QED
    BY <1>1, <1>5, <2>1, <2>2, RequestShapeOne DEF Typed
<1> QED
  BY <1>6, <1>7, <1>8 DEF Typed

\* A request that takes its locks or ends for want of eligibility.
LEMMA LockingTyped ==
  ASSUME Typed, NEW r \in Requests, LockFirstUser(r) \/ LockSecondUser(r)
  PROVE  Typed' /\ RequestsKept
<1>1. /\ request[r].pc # "idle"
      /\ \/ End(r)
         \/ request' = [request EXCEPT ![r].pc = "second"]
         \/ request' = [request EXCEPT ![r].pc = "locked"]
      /\ UNCHANGED <<account, invitation, matches, conversations, outbox, now>>
  BY DEF LockFirstUser, LockSecondUser
<1>2. RequestsKept /\ request' \in [Requests -> Request]
  <2>1. CASE End(r)
    BY <2>1, EndTyped DEF Typed
  <2>2. CASE request' = [request EXCEPT ![r].pc = "second"]
    BY <1>1, <2>2 DEF Typed, TypeOK, Request, RequestsKept
  <2>3. CASE request' = [request EXCEPT ![r].pc = "locked"]
    BY <1>1, <2>3 DEF Typed, TypeOK, Request, RequestsKept
  <2> QED
    BY <1>1, <2>1, <2>2, <2>3
<1> QED
  BY <1>1, <1>2, RequestOnly

LEMMA SendCheckTyped ==
  ASSUME Typed, NEW r \in Requests, SendCheck(r)
  PROVE  Typed'
<1>1. /\ request[r].pc = "locked" /\ request[r].op = "send"
      /\ UNCHANGED <<account, invitation, matches, conversations, outbox, now>>
      /\ \/ End(r)
         \/ \E i \in LapsedRow(Participants(r)) :
              request' = [request EXCEPT
                ![r] = [@ EXCEPT !.pc = "checked", !.invitation = i]]
  BY DEF SendCheck
<1>2. CASE End(r)
  BY <1>1, <1>2, EndTyped, RequestOnly DEF Typed
<1>3. ASSUME NEW i \in LapsedRow(Participants(r)),
             request' = [request EXCEPT
                ![r] = [@ EXCEPT !.pc = "checked", !.invitation = i]]
      PROVE  Typed'
  <2> DEFINE v == [request[r] EXCEPT !.pc = "checked", !.invitation = i]
  <2>1. /\ i \in Invitations \union {NoInvitation}
        /\ i # NoInvitation =>
            /\ invitation[i].status # "NONE"
            /\ InvitationPair(i) = Participants(r)
    BY DEF LapsedRow, PendingOf, IsPending
  <2>2. request[r] \in Request
    BY DEF Typed, TypeOK
  <2>3. /\ v \in Request
        /\ v.sender = request[r].sender /\ v.recipient = request[r].recipient
        /\ v.op = "send" /\ v.invitation = i
    BY <1>1, <2>1, <2>2 DEF Request
  <2>4. /\ request' \in [Requests -> Request]
        /\ \A q \in Requests : request'[q] = IF q = r THEN v ELSE request[q]
    BY <1>3, <2>3, RequestTyped DEF Typed
  <2>5. TypeOK' /\ RowShape'
    BY <1>1, <2>4 DEF Typed, TypeOK, RowShape
  <2>6. RequestShape'
    <3>1. v.sender \in Users /\ v.recipient \in Users /\ v.sender # v.recipient
      BY <1>1, <2>3 DEF Typed, RequestShape
    <3>2. /\ v.op = "accept" => v.invitation # NoInvitation
          /\ v.invitation # NoInvitation =>
               /\ invitation[v.invitation].status # "NONE"
               /\ {invitation[v.invitation].sender, invitation[v.invitation].recipient}
                    = {v.sender, v.recipient}
      BY <2>1, <2>3 DEF InvitationPair, Participants
    <3> HIDE DEF v
    <3> QED
      BY <1>1, <2>4, <3>1, <3>2, RequestShapeOne DEF Typed
  <2> QED
    BY <2>5, <2>6 DEF Typed
<1> QED
  BY <1>1, <1>2, <1>3

LEMMA AcceptCheckTyped ==
  ASSUME Typed, NEW r \in Requests, AcceptCheck(r)
  PROVE  Typed'
<1> DEFINE v == [request[r] EXCEPT !.pc = "checked", !.at = now]
<1>1. /\ request[r].pc = "locked"
      /\ UNCHANGED <<account, invitation, matches, conversations, outbox, now>>
      /\ End(r) \/ request' = [request EXCEPT ![r] = v]
  BY DEF AcceptCheck
<1>2. CASE End(r)
  BY <1>1, <1>2, EndTyped, RequestOnly DEF Typed
<1>3. CASE request' = [request EXCEPT ![r] = v]
  <2>1. request[r] \in Request /\ now \in Nat
    BY DEF Typed, TypeOK
  <2>2. /\ v \in Request
        /\ v.sender = request[r].sender /\ v.recipient = request[r].recipient
        /\ v.op = request[r].op /\ v.invitation = request[r].invitation
    BY <2>1 DEF Request
  <2>3. /\ request' \in [Requests -> Request]
        /\ \A q \in Requests : request'[q] = IF q = r THEN v ELSE request[q]
    BY <1>3, <2>2, RequestTyped DEF Typed
  <2>4. RequestsKept
    BY <1>1, <2>2, <2>3 DEF RequestsKept
  <2> QED
    BY <1>1, <2>3, <2>4, RequestOnly
<1> QED
  BY <1>1, <1>2, <1>3

\* What a running request carries.
LEMMA RunningRequest ==
  ASSUME Typed, NEW r \in Requests, request[r].pc # "idle"
  PROVE  /\ request[r].sender \in Users /\ request[r].recipient \in Users
         /\ request[r].sender # request[r].recipient
         /\ request[r].at \in Nat
         /\ request[r].op = "accept" => request[r].invitation \in Invitations
         /\ request[r].invitation \in Invitations =>
                invitation[request[r].invitation].status # "NONE"
BY InvitationsAssumption DEF Typed, TypeOK, Request, RequestShape

LEMMA NewInvitationTyped ==
  ASSUME Typed, NEW r \in Requests, request[r].pc # "idle"
  PROVE  NewInvitation(r) \in InvitationRow
<1>1. request[r].at + Lifetime \in Nat
  BY RunningRequest, BoundsAssumption
<1> QED
  BY <1>1, RunningRequest DEF NewInvitation, InvitationRow

\* An insert, with or without the expiry of the pair's lapsed row, gives every
\* row that existed its old users.
LEMMA SendCommitTyped ==
  ASSUME Typed, NEW r \in Requests, SendCommit(r)
  PROVE  Typed'
<1>1. /\ request[r].pc = "checked"
      /\ End(r)
      /\ UNCHANGED <<account, matches, conversations, now>>
  BY DEF SendCommit
<1>2. /\ request' \in [Requests -> Request]
      /\ RequestsKept
  BY <1>1, EndTyped DEF Typed
<1>3. CASE ~PendingIndexAllows(r)
  BY <1>1, <1>2, <1>3, RequestOnly DEF SendCommit
<1>4. CASE PendingIndexAllows(r)
  <2>1. PICK n \in Invitations :
          /\ invitation[n].status = "NONE"
          /\ invitation' = [i \in Invitations |->
                IF i = n THEN NewInvitation(r)
                ELSE IF i = request[r].invitation
                     THEN Close(i, "EXPIRED", request[r].at)
                     ELSE invitation[i]]
          /\ outbox' = outbox \union {[type |-> "CREATED", invitation |-> n]}
    BY <1>4 DEF SendCommit
  <2>2. NewInvitation(r) \in InvitationRow
    BY <1>1, NewInvitationTyped
  <2>3. \A i \in Invitations :
          /\ Close(i, "EXPIRED", request[r].at) \in InvitationRow
          /\ Close(i, "EXPIRED", request[r].at).status = "EXPIRED"
          /\ Close(i, "EXPIRED", request[r].at).sender = invitation[i].sender
          /\ Close(i, "EXPIRED", request[r].at).recipient = invitation[i].recipient
    BY <1>1, CloseTyped, RunningRequest DEF Typed, Terminal
  <2>4. \A i \in Invitations : invitation[i] \in InvitationRow
    BY DEF Typed, TypeOK
  <2>5. invitation' \in [Invitations -> InvitationRow]
    BY <2>1, <2>2, <2>3, <2>4
  <2>6. RowsKept
    BY <2>1, <2>3 DEF RowsKept
  <2>7. TypeOK'
    BY <1>1, <1>2, <2>1, <2>5 DEF Typed, TypeOK, Event
  <2>8. RowShape'
    <3>1. ASSUME NEW i \in Invitations, invitation'[i].status # "NONE"
          PROVE  /\ {invitation'[i].sender, invitation'[i].recipient} \subseteq Users
                 /\ invitation'[i].sender # invitation'[i].recipient
      <4>1. CASE i = n
        BY <1>1, <2>1, <4>1, RunningRequest DEF NewInvitation
      <4>2. CASE i # n /\ invitation[i].status # "NONE"
        BY <2>6, <4>2 DEF Typed, RowShape, RowsKept
      <4>3. CASE i # n /\ invitation[i].status = "NONE"
        <5>1. i = request[r].invitation
          BY <2>1, <3>1, <4>3
        <5> QED
          BY <1>1, <4>3, <5>1, RunningRequest
      <4> QED
        BY <4>1, <4>2, <4>3
    <3> QED
      BY <3>1 DEF RowShape
  <2> QED
    BY <1>2, <2>6, <2>7, <2>8, RequestShapeKept DEF Typed
<1> QED
  BY <1>3, <1>4

LEMMA AcceptCommitTyped ==
  ASSUME Typed, NEW r \in Requests, AcceptCommit(r)
  PROVE  Typed'
<1> DEFINE i == request[r].invitation
<1>1. /\ request[r].pc = "checked" /\ request[r].op = "accept"
      /\ End(r)
      /\ UNCHANGED <<account, now>>
  BY DEF AcceptCommit, Activates, WithConversation
<1>2. /\ request' \in [Requests -> Request]
      /\ RequestsKept
  BY <1>1, EndTyped DEF Typed
<1>3. CASE ActivePair(Participants(r))
  BY <1>1, <1>2, <1>3, RequestOnly DEF AcceptCommit, Activates, WithConversation
<1>4. CASE ~ActivePair(Participants(r))
  <2>1. /\ invitation' = [invitation EXCEPT ![i] = Close(i, "ACCEPTED", request[r].at)]
        /\ matches' = matches \union {NewMatch(r)}
        /\ conversations' = conversations \union {i}
        /\ outbox' = outbox \union {[type |-> "ACCEPTED", invitation |-> i]}
    BY <1>4 DEF AcceptCommit, Activates, WithConversation
  <2>2. /\ i \in Invitations /\ request[r].at \in Nat
        /\ invitation[i].status # "NONE"
        /\ request[r].sender \in Users /\ request[r].recipient \in Users
    BY <1>1, RunningRequest
  <2>3. /\ Close(i, "ACCEPTED", request[r].at) \in InvitationRow
        /\ Close(i, "ACCEPTED", request[r].at).status = "ACCEPTED"
        /\ Close(i, "ACCEPTED", request[r].at).sender = invitation[i].sender
        /\ Close(i, "ACCEPTED", request[r].at).recipient = invitation[i].recipient
    BY <2>2, CloseTyped DEF Typed, Terminal
  <2>4. NewMatch(r) \in MatchRow
    BY <2>2 DEF NewMatch, MatchRow
  <2>5. /\ invitation' \in [Invitations -> InvitationRow]
        /\ RowsKept
    BY <2>1, <2>2, <2>3 DEF Typed, TypeOK, RowsKept
  <2>6. TypeOK'
    BY <1>1, <1>2, <2>1, <2>2, <2>4, <2>5 DEF Typed, TypeOK, Event
  <2>7. RowShape'
    BY <2>1, <2>2, <2>5, RowShapeKept DEF Typed, TypeOK
  <2> QED
    BY <1>2, <2>5, <2>6, <2>7, RequestShapeKept DEF Typed
<1> QED
  BY <1>3, <1>4

LEMMA RespondTyped ==
  ASSUME Typed, NEW i \in Invitations, NEW status \in Terminal,
         Respond(i, status)
  PROVE  Typed'
<1>1. /\ invitation[i].status = "PENDING"
      /\ invitation' = [invitation EXCEPT ![i] = Close(i, status, now)]
      /\ UNCHANGED <<account, matches, conversations, outbox, request, now>>
  BY DEF Respond, IsPending
<1>2. /\ Close(i, status, now) \in InvitationRow
      /\ Close(i, status, now).status = status
      /\ Close(i, status, now).sender = invitation[i].sender
      /\ Close(i, status, now).recipient = invitation[i].recipient
  BY CloseTyped DEF Typed, TypeOK
<1>3. /\ invitation' \in [Invitations -> InvitationRow]
      /\ RowsKept
      /\ \A j \in Invitations :
            invitation[j].status = "NONE" => invitation'[j] = invitation[j]
  BY <1>1, <1>2 DEF Typed, TypeOK, RowsKept, Terminal
<1> QED
  BY <1>1, <1>3, RowsOnly

LEMMA HideTyped ==
  ASSUME Typed, NEW i \in Invitations, Hide(i)
  PROVE  Typed'
<1>1. /\ invitation[i].status = "ACCEPTED"
      /\ invitation' = [invitation EXCEPT ![i].hidden = TRUE]
      /\ UNCHANGED <<account, matches, conversations, outbox, request, now>>
  BY DEF Hide
<1>2. /\ invitation' \in [Invitations -> InvitationRow]
      /\ RowsKept
      /\ \A j \in Invitations :
            invitation[j].status = "NONE" => invitation'[j] = invitation[j]
  BY <1>1 DEF Typed, TypeOK, InvitationRow, RowsKept
<1> QED
  BY <1>1, <1>2, RowsOnly

LEMMA ExpireBatchTyped ==
  ASSUME Typed, ExpireBatch
  PROVE  Typed'
<1>1. PICK S \in SUBSET {i \in Invitations : IsDue(i, now) /\ RowLockFree(i)} :
        invitation' = [i \in Invitations |->
            IF i \in S THEN Close(i, "EXPIRED", now) ELSE invitation[i]]
  BY DEF ExpireBatch
<1>2. UNCHANGED <<account, matches, conversations, outbox, request, now>>
  BY DEF ExpireBatch
<1>3. \A i \in Invitations :
        /\ Close(i, "EXPIRED", now) \in InvitationRow
        /\ Close(i, "EXPIRED", now).status = "EXPIRED"
        /\ Close(i, "EXPIRED", now).sender = invitation[i].sender
        /\ Close(i, "EXPIRED", now).recipient = invitation[i].recipient
  BY CloseTyped DEF Typed, TypeOK, Terminal
<1>4. \A i \in S : invitation[i].status = "PENDING"
  BY DEF IsDue, IsPending
<1>5. /\ invitation' \in [Invitations -> InvitationRow]
      /\ RowsKept
      /\ \A j \in Invitations :
            invitation[j].status = "NONE" => invitation'[j] = invitation[j]
  BY <1>1, <1>3, <1>4 DEF Typed, TypeOK, RowsKept
<1> QED
  BY <1>2, <1>5, RowsOnly

\* A profile edit: neither a row nor a request changes.
LEMMA ProfileTyped ==
  ASSUME Typed, NEW u \in Users, ChangeType(u) \/ ChangeReadiness(u)
  PROVE  Typed'
<1>1. /\ UNCHANGED <<invitation, matches, conversations, outbox, request, now>>
      /\ \/ account' = [account EXCEPT ![u].type = Other(@)]
         \/ account' = [account EXCEPT ![u].ready = ~@]
  BY DEF ChangeType, ChangeReadiness
<1>2. account[u] \in Account /\ Other(account[u].type) \in StudentTypes
  BY DEF Typed, TypeOK, Other, StudentTypes
<1>3. account' \in [Users -> Account]
  BY ZenonT(40), <1>1, <1>2 DEF Typed, TypeOK, Account
<1>4. TypeOK'
  BY <1>1, <1>3 DEF Typed, TypeOK
<1>5. RowShape' /\ RequestShape'
  BY <1>1 DEF Typed, RowShape, RequestShape, InvitationPair, Participants
<1> QED
  BY <1>4, <1>5 DEF Typed

LEMMA TickTyped ==
  ASSUME Typed, Tick
  PROVE  Typed'
<1>1. TypeOK'
  BY DEF Tick, Typed, TypeOK
<1>2. RowShape' /\ RequestShape'
  BY DEF Tick, Typed, RowShape, RequestShape, InvitationPair, Participants
<1> QED
  BY <1>1, <1>2 DEF Typed

LEMMA TypedStep ==
  ASSUME Typed, [Next]_vars
  PROVE  Typed'
<1>1. CASE \E r \in Requests, s \in Users, t \in Users : BeginSend(r, s, t)
  BY <1>1, BeginSendTyped
<1>2. CASE \E r \in Requests, i \in Invitations : BeginAccept(r, i)
  BY <1>2, BeginAcceptTyped
<1>3. CASE \E r \in Requests : LockFirstUser(r) \/ LockSecondUser(r)
  BY <1>3, LockingTyped
<1>4. CASE \E r \in Requests : SendCheck(r)
  BY <1>4, SendCheckTyped
<1>5. CASE \E r \in Requests : SendCommit(r)
  BY <1>5, SendCommitTyped
<1>6. CASE \E r \in Requests : AcceptCheck(r)
  BY <1>6, AcceptCheckTyped
<1>7. CASE \E r \in Requests : AcceptCommit(r)
  BY <1>7, AcceptCommitTyped
<1>8. CASE \E r \in Requests : Abort(r)
  <2>1. PICK r \in Requests : Abort(r)
    BY <1>8
  <2> QED
    BY <2>1, EndTyped, RequestOnly DEF Abort, Typed
<1>9. CASE \E i \in Invitations : Decline(i) \/ Cancel(i)
  BY <1>9, RespondTyped DEF Decline, Cancel, Terminal
<1>10. CASE \E i \in Invitations : Hide(i)
  BY <1>10, HideTyped
<1>11. CASE ExpireBatch
  BY <1>11, ExpireBatchTyped
<1>12. CASE \E u \in Editors : ChangeType(u) \/ ChangeReadiness(u)
  BY <1>12, ProfileTyped, BoundsAssumption
<1>13. CASE Tick
  BY <1>13, TickTyped
<1>14. CASE UNCHANGED vars
  BY <1>14 DEF vars, Typed, TypeOK, RowShape, RequestShape, InvitationPair, Participants
<1> QED
  BY <1>1, <1>2, <1>3, <1>4, <1>5, <1>6, <1>7, <1>8, <1>9, <1>10, <1>11, <1>12,
     <1>13, <1>14 DEF Next

\* Every row and every request is well typed in every reachable state: in
\* particular an accept only ever reads the account of a real user, and only
\* ever writes a match between real users.
THEOREM TypeCorrect == Spec => []TypeOK
<1>1. Spec => []Typed
  BY InitTyped, TypedStep, PTL DEF Spec
<1>2. Typed => TypeOK
  BY DEF Typed
<1> QED
  BY <1>1, <1>2, PTL

-----------------------------------------------------------------------------
(* The lock discipline.  LocksExclusive says that the user rows are held by *)
(* one request at a time; the other parts say what a request that has made  *)
(* its checks may rely on because it holds them.                            *)

Reliance ==
    /\ OnePendingPerPair
    /\ CheckedSendHolds
    /\ CheckedAcceptHolds
    /\ NoPendingBesideMatch

IInv == Typed /\ LocksExclusive /\ Reliance

\* A request that does not change keeps exactly its locks.
LEMMA SameLocks ==
  ASSUME NEW q \in Requests, request'[q] = request[q]
  PROVE  UserLocks(q)' = UserLocks(q)
BY DEF UserLocks, FirstLock, SenderFirst, Participants

\* One request changes; what it then holds nobody else held.
LEMMA LocksOne ==
  ASSUME LocksExclusive, NEW r \in Requests,
         \A q \in Requests \ {r} : request'[q] = request[q],
         \A q \in Requests \ {r} : UserLocks(r)' \intersect UserLocks(q) = {}
  PROVE  LocksExclusive'
<1> SUFFICES ASSUME NEW a \in Requests, NEW b \in Requests, a # b
             PROVE  UserLocks(a)' \intersect UserLocks(b)' = {}
  BY DEF LocksExclusive
<1>1. CASE a # r /\ b # r
  BY <1>1, SameLocks DEF LocksExclusive
<1>2. CASE a = r
  BY <1>2, SameLocks
<1>3. CASE b = r
  BY <1>3, SameLocks
<1> QED
  BY <1>1, <1>2, <1>3

\* A request that holds no more than before keeps the locks exclusive.
LEMMA LocksFewer ==
  ASSUME LocksExclusive, NEW r \in Requests,
         \A q \in Requests \ {r} : request'[q] = request[q],
         UserLocks(r)' \subseteq UserLocks(r)
  PROVE  LocksExclusive'
<1>1. \A q \in Requests \ {r} : UserLocks(r)' \intersect UserLocks(q) = {}
  BY DEF LocksExclusive
<1> QED
  BY <1>1, LocksOne

\* ... in particular one that ends.
LEMMA EndLocks ==
  ASSUME Typed, LocksExclusive, NEW r \in Requests, End(r)
  PROVE  LocksExclusive'
<1>1. /\ request'[r].pc = "idle"
      /\ \A q \in Requests \ {r} : request'[q] = request[q]
  BY EndTyped DEF Typed, Idle
<1>2. UserLocks(r)' = {}
  BY <1>1 DEF UserLocks
<1> QED
  BY <1>1, <1>2, LocksFewer

\* Two requests that hold both their user rows are about different pairs.
LEMMA OtherPair ==
  ASSUME Typed, LocksExclusive, NEW q \in Requests, NEW r \in Requests, q # r,
         request[q].pc \in {"locked", "checked"},
         request[r].pc \in {"locked", "checked"}
  PROVE  Participants(q) # Participants(r)
<1>1. UserLocks(q) = Participants(q) /\ UserLocks(r) = Participants(r)
  BY DEF UserLocks
<1>2. request[q].sender \in Participants(q)
  BY DEF Participants
<1> QED
  BY <1>1, <1>2 DEF LocksExclusive

\* The row of a request is one of its pair.
LEMMA OwnPair ==
  ASSUME Typed, NEW r \in Requests, request[r].pc # "idle",
         request[r].invitation # NoInvitation
  PROVE  /\ request[r].invitation \in Invitations
         /\ InvitationPair(request[r].invitation) = Participants(r)
         /\ invitation[request[r].invitation].status # "NONE"
BY DEF Typed, TypeOK, Request, RequestShape

LEMMA InitInvariant == Init => IInv
<1> SUFFICES ASSUME Init PROVE IInv
  OBVIOUS
<1>1. /\ \A r \in Requests : request[r].pc = "idle"
      /\ \A i \in Invitations : invitation[i].status = "NONE"
  BY DEF Init, Idle, NoRow
<1>2. LocksExclusive
  BY <1>1 DEF LocksExclusive, UserLocks
<1>3. Reliance
  BY <1>1 DEF Reliance, OnePendingPerPair, CheckedSendHolds, CheckedAcceptHolds,
              NoPendingBesideMatch, IsPending
<1> QED
  BY <1>2, <1>3, InitTyped DEF IInv

-----------------------------------------------------------------------------
(* Steps that no request past its checks can notice.                       *)

\* Neither table changes, and no request passes its checks.
LEMMA QuietStep ==
  ASSUME Reliance, UNCHANGED <<invitation, matches>>,
         \A q \in Requests : request'[q].pc = "checked" => request'[q] = request[q]
  PROVE  Reliance'
<1>1. OnePendingPerPair' /\ NoPendingBesideMatch'
  BY DEF Reliance, OnePendingPerPair, NoPendingBesideMatch, IsPending,
         InvitationPair, ActivePair, MatchPair
<1>2. CheckedSendHolds'
  BY DEF Reliance, CheckedSendHolds, Participants, ActivePair, MatchPair,
         PendingIndexAllows, PendingOf, IsPending, InvitationPair
<1>3. CheckedAcceptHolds'
  BY DEF Reliance, CheckedAcceptHolds, IsPending
<1> QED
  BY <1>1, <1>2, <1>3 DEF Reliance

\* Rows are closed or hidden, but none that a request past its checks will
\* close itself.
LEMMA ClosingStep ==
  ASSUME Typed, Reliance, UNCHANGED <<request, matches>>,
         \A i \in Invitations :
            /\ invitation'[i].status = "PENDING" => invitation[i].status = "PENDING"
            /\ invitation'[i].sender = invitation[i].sender
            /\ invitation'[i].recipient = invitation[i].recipient,
         \A q \in Requests :
            request[q].pc = "checked" /\ request[q].invitation \in Invitations =>
                invitation'[request[q].invitation].status
                  = invitation[request[q].invitation].status
  PROVE  Reliance'
<1>1. \A q \in Requests : request[q].pc # "idle" =>
        /\ request[q].invitation \in Invitations \union {NoInvitation}
        /\ request[q].op = "accept" => request[q].invitation \in Invitations
  BY RunningRequest DEF Typed, TypeOK, Request
<1>2. OnePendingPerPair' /\ NoPendingBesideMatch'
  BY DEF Reliance, OnePendingPerPair, NoPendingBesideMatch, IsPending,
         InvitationPair, ActivePair, MatchPair
<1>3. CheckedSendHolds'
  BY <1>1 DEF Reliance, CheckedSendHolds, Participants, ActivePair, MatchPair,
         PendingIndexAllows, PendingOf, IsPending, InvitationPair
<1>4. CheckedAcceptHolds'
  BY <1>1 DEF Reliance, CheckedAcceptHolds, IsPending
<1> QED
  BY <1>2, <1>3, <1>4 DEF Reliance

-----------------------------------------------------------------------------
(* The steps, one by one.                                                  *)

\* A request that ends without writing anything.
LEMMA EndInvariant ==
  ASSUME IInv, NEW r \in Requests, End(r), UNCHANGED <<invitation, matches>>
  PROVE  LocksExclusive' /\ Reliance'
<1>1. LocksExclusive'
  BY EndLocks DEF IInv
<1>2. \A q \in Requests : request'[q].pc = "checked" => request'[q] = request[q]
  BY EndTyped DEF IInv, Typed, Idle
<1> QED
  BY <1>1, <1>2, QuietStep DEF IInv

LEMMA BeginInvariant ==
  ASSUME IInv, NEW r \in Requests, UNCHANGED <<invitation, matches>>,
         NEW v, v.pc = "first", request' = [request EXCEPT ![r] = v]
  PROVE  LocksExclusive' /\ Reliance'
<1>1. /\ request'[r].pc = "first"
      /\ \A q \in Requests \ {r} : request'[q] = request[q]
  BY DEF IInv, Typed, TypeOK
<1>2. UserLocks(r)' = {}
  BY <1>1 DEF UserLocks
<1>3. LocksExclusive'
  BY <1>1, <1>2, LocksFewer DEF IInv
<1>4. \A q \in Requests : request'[q].pc = "checked" => request'[q] = request[q]
  BY <1>1
<1> QED
  BY <1>3, <1>4, QuietStep DEF IInv

\* The first row is locked only when nobody holds it.
LEMMA LockFirstInvariant ==
  ASSUME IInv, NEW r \in Requests, LockFirstUser(r)
  PROVE  LocksExclusive' /\ Reliance'
<1>1. /\ request' = [request EXCEPT ![r].pc = "second"]
      /\ UserLockFree(FirstLock(r), r)
      /\ UNCHANGED <<invitation, matches>>
  BY DEF LockFirstUser
<1>2. /\ request'[r].pc = "second"
      /\ request'[r].sender = request[r].sender
      /\ request'[r].recipient = request[r].recipient
      /\ \A q \in Requests \ {r} : request'[q] = request[q]
  BY <1>1 DEF IInv, Typed, TypeOK, Request
<1>3. UserLocks(r)' = {FirstLock(r)}
  BY <1>2 DEF UserLocks, FirstLock, SenderFirst
<1>4. LocksExclusive'
  BY <1>1, <1>2, <1>3, LocksOne DEF IInv, UserLockFree
<1>5. \A q \in Requests : request'[q].pc = "checked" => request'[q] = request[q]
  BY <1>2
<1> QED
  BY <1>1, <1>4, <1>5, QuietStep DEF IInv

\* The second row is added to the first, which the request already held.
LEMMA LockSecondInvariant ==
  ASSUME IInv, NEW r \in Requests, LockSecondUser(r)
  PROVE  LocksExclusive' /\ Reliance'
<1>1. /\ request[r].pc = "second"
      /\ UserLockFree(SecondLock(r), r)
      /\ UNCHANGED <<invitation, matches>>
      /\ End(r) \/ request' = [request EXCEPT ![r].pc = "locked"]
  BY DEF LockSecondUser
<1>2. CASE End(r)
  BY <1>1, <1>2, EndInvariant
<1>3. CASE request' = [request EXCEPT ![r].pc = "locked"]
  <2>1. /\ request'[r].pc = "locked"
        /\ request'[r].sender = request[r].sender
        /\ request'[r].recipient = request[r].recipient
        /\ \A q \in Requests \ {r} : request'[q] = request[q]
    BY <1>3 DEF IInv, Typed, TypeOK, Request
  <2>2. UserLocks(r) = {FirstLock(r)}
    BY <1>1 DEF UserLocks
  <2>3. UserLocks(r)' = {FirstLock(r), SecondLock(r)}
    BY <2>1 DEF UserLocks, Participants, FirstLock, SecondLock
  <2>4. \A q \in Requests \ {r} : UserLocks(r)' \intersect UserLocks(q) = {}
    <3> SUFFICES ASSUME NEW q \in Requests \ {r}
                 PROVE  FirstLock(r) \notin UserLocks(q) /\ SecondLock(r) \notin UserLocks(q)
      BY <2>3
    <3>1. FirstLock(r) \notin UserLocks(q)
      BY <2>2 DEF IInv, LocksExclusive
    <3>2. SecondLock(r) \notin UserLocks(q)
      BY <1>1 DEF UserLockFree
    <3> QED
      BY <3>1, <3>2
  <2>5. LocksExclusive'
    BY <2>1, <2>4, LocksOne DEF IInv
  <2>6. \A q \in Requests : request'[q].pc = "checked" => request'[q] = request[q]
    BY <2>1
  <2> QED
    BY <1>1, <2>5, <2>6, QuietStep DEF IInv
<1> QED
  BY <1>1, <1>2, <1>3

\* A send that passes its checks has just seen what it will rely on.
LEMMA SendCheckInvariant ==
  ASSUME IInv, NEW r \in Requests, SendCheck(r)
  PROVE  LocksExclusive' /\ Reliance'
<1>1. /\ request[r].pc = "locked" /\ request[r].op = "send"
      /\ UNCHANGED <<invitation, matches>>
      /\ \/ End(r)
         \/ /\ SendMayInsert(r)
            /\ \E i \in LapsedRow(Participants(r)) :
                request' = [request EXCEPT
                    ![r] = [@ EXCEPT !.pc = "checked", !.invitation = i]]
  BY DEF SendCheck
<1>2. CASE End(r)
  BY <1>1, <1>2, EndInvariant
<1>3. ASSUME SendMayInsert(r), NEW i \in LapsedRow(Participants(r)),
             request' = [request EXCEPT
                ![r] = [@ EXCEPT !.pc = "checked", !.invitation = i]]
      PROVE  LocksExclusive' /\ Reliance'
  <2>1. /\ request'[r].pc = "checked" /\ request'[r].op = "send"
        /\ request'[r].invitation = i
        /\ request'[r].sender = request[r].sender
        /\ request'[r].recipient = request[r].recipient
        /\ \A q \in Requests \ {r} : request'[q] = request[q]
    BY <1>1, <1>3 DEF IInv, Typed, TypeOK, Request
  <2>2. UserLocks(r)' = UserLocks(r)
    BY <1>1, <2>1 DEF UserLocks, Participants
  <2>3. LocksExclusive'
    BY <2>1, <2>2, LocksFewer DEF IInv
  <2>4. ~ActivePair(Participants(r))
    BY <1>3 DEF SendMayInsert
  <2>5. /\ PendingOf(Participants(r)) \subseteq {i}
        /\ i # NoInvitation => IsPending(i)
    <3>1. CASE PendingOf(Participants(r)) = {}
      BY <3>1 DEF LapsedRow
    <3>2. CASE PendingOf(Participants(r)) # {}
      <4>1. i \in PendingOf(Participants(r))
        BY <3>2 DEF LapsedRow
      <4> QED
        BY <4>1 DEF PendingOf, IInv, Reliance, OnePendingPerPair
    <3> QED
      BY <3>1, <3>2
  <2>6. OnePendingPerPair' /\ NoPendingBesideMatch'
    BY <1>1 DEF IInv, Reliance, OnePendingPerPair, NoPendingBesideMatch, IsPending,
                InvitationPair, ActivePair, MatchPair
  <2>7. CheckedSendHolds'
    <3> SUFFICES ASSUME NEW q \in Requests,
                        request'[q].pc = "checked", request'[q].op = "send"
                 PROVE  /\ ~ActivePair(Participants(q))'
                        /\ PendingIndexAllows(q)'
                        /\ request'[q].invitation # NoInvitation =>
                             invitation[request'[q].invitation].status = "PENDING"
      BY <1>1 DEF CheckedSendHolds, IsPending
    <3>1. CASE q = r
      BY <1>1, <2>1, <2>4, <2>5, <3>1
         DEF ActivePair, MatchPair, Participants, PendingIndexAllows, PendingOf,
             IsPending, InvitationPair
    <3>2. CASE q # r
      BY <1>1, <2>1, <3>2
         DEF IInv, Reliance, CheckedSendHolds, ActivePair, MatchPair, Participants,
             PendingIndexAllows, PendingOf, IsPending, InvitationPair
    <3> QED
      BY <3>1, <3>2
  <2>8. CheckedAcceptHolds'
    BY <1>1, <2>1 DEF IInv, Reliance, CheckedAcceptHolds, IsPending
  <2> QED
    BY <2>3, <2>6, <2>7, <2>8 DEF Reliance
<1> QED
  BY <1>1, <1>2, <1>3

\* An accept that passes its checks has just seen its row PENDING.
LEMMA AcceptCheckInvariant ==
  ASSUME IInv, NEW r \in Requests, AcceptCheck(r)
  PROVE  LocksExclusive' /\ Reliance'
<1>1. /\ request[r].pc = "locked" /\ request[r].op = "accept"
      /\ UNCHANGED <<invitation, matches>>
      /\ \/ End(r)
         \/ /\ IsPending(request[r].invitation)
            /\ request' = [request EXCEPT
                    ![r] = [@ EXCEPT !.pc = "checked", !.at = now]]
  BY DEF AcceptCheck
<1>2. CASE End(r)
  BY <1>1, <1>2, EndInvariant
<1>3. ASSUME IsPending(request[r].invitation),
             request' = [request EXCEPT
                ![r] = [@ EXCEPT !.pc = "checked", !.at = now]]
      PROVE  LocksExclusive' /\ Reliance'
  <2>1. /\ request'[r].pc = "checked" /\ request'[r].op = "accept"
        /\ request'[r].invitation = request[r].invitation
        /\ request'[r].sender = request[r].sender
        /\ request'[r].recipient = request[r].recipient
        /\ \A q \in Requests \ {r} : request'[q] = request[q]
    BY <1>1, <1>3 DEF IInv, Typed, TypeOK, Request
  <2>2. UserLocks(r)' = UserLocks(r)
    BY <1>1, <2>1 DEF UserLocks, Participants
  <2>3. LocksExclusive'
    BY <2>1, <2>2, LocksFewer DEF IInv
  <2>4. OnePendingPerPair' /\ NoPendingBesideMatch'
    BY <1>1 DEF IInv, Reliance, OnePendingPerPair, NoPendingBesideMatch, IsPending,
                InvitationPair, ActivePair, MatchPair
  <2>5. CheckedSendHolds'
    BY ZenonT(40), <1>1, <2>1
       DEF IInv, Reliance, CheckedSendHolds, ActivePair, MatchPair, Participants,
           PendingIndexAllows, PendingOf, IsPending, InvitationPair
  <2>6. CheckedAcceptHolds'
    BY <1>1, <1>3, <2>1 DEF IInv, Reliance, CheckedAcceptHolds, IsPending
  <2> QED
    BY <2>3, <2>4, <2>5, <2>6 DEF Reliance
<1> QED
  BY <1>1, <1>2, <1>3

\* The insert: the pair's only PENDING row, if any, expires in the same step,
\* and every other request past its checks is about another pair.
LEMMA SendCommitInvariant ==
  ASSUME IInv, NEW r \in Requests, SendCommit(r)
  PROVE  LocksExclusive' /\ Reliance'
<1> DEFINE x == request[r].invitation
           p == Participants(r)
<1>1. /\ request[r].pc = "checked" /\ request[r].op = "send"
      /\ End(r)
      /\ UNCHANGED matches
  BY DEF SendCommit
<1>2. /\ ~ActivePair(p)
      /\ PendingOf(p) \subseteq {x}
  BY <1>1 DEF IInv, Reliance, CheckedSendHolds, PendingIndexAllows
<1>3. PICK n \in Invitations :
        /\ invitation[n].status = "NONE"
        /\ invitation' = [i \in Invitations |->
              IF i = n THEN NewInvitation(r)
              ELSE IF i = x THEN Close(i, "EXPIRED", request[r].at)
                   ELSE invitation[i]]
  BY <1>2 DEF SendCommit, PendingIndexAllows
<1>4. /\ invitation'[n].status = "PENDING"
      /\ InvitationPair(n)' = p
  BY <1>3 DEF NewInvitation, InvitationPair, Participants
<1>5. x \in Invitations => x # n /\ invitation'[x].status = "EXPIRED"
  <2>1. x \in Invitations => x # n
    BY <1>1, <1>3, OwnPair, InvitationsAssumption DEF IInv
  <2> QED
    BY <1>1, <1>3, <2>1, CloseTyped, RunningRequest DEF IInv, Typed, Terminal
<1>6. \A i \in Invitations \ {n, x} : invitation'[i] = invitation[i]
  BY <1>3
<1>7. \A q \in Requests \ {r} : request'[q] = request[q]
  BY <1>1, EndTyped DEF IInv, Typed
<1>8. \A q \in Requests : request'[q].pc = "checked" =>
        q # r /\ Participants(q) # p
  BY <1>1, <1>7, EndTyped, OtherPair DEF IInv, Typed, Idle
<1>9. \A i \in Invitations : IsPending(i)' /\ i # n =>
        IsPending(i) /\ InvitationPair(i)' = InvitationPair(i)
                    /\ InvitationPair(i) # p
  <2> SUFFICES ASSUME NEW i \in Invitations, IsPending(i)', i # n
               PROVE  /\ IsPending(i)
                      /\ InvitationPair(i)' = InvitationPair(i)
                      /\ InvitationPair(i) # p
    OBVIOUS
  <2>1. i # x
    BY <1>5 DEF IsPending
  <2>2. invitation'[i] = invitation[i]
    BY <1>6, <2>1
  <2>3. IsPending(i) /\ InvitationPair(i)' = InvitationPair(i)
    BY <2>2 DEF IsPending, InvitationPair
  <2> QED
    BY <1>2, <2>1, <2>3 DEF PendingOf
<1>10. \A s : ActivePair(s)' <=> ActivePair(s)
  BY <1>1 DEF ActivePair, MatchPair
<1>11. LocksExclusive'
  BY <1>1, EndLocks DEF IInv
<1>12. OnePendingPerPair'
  <2> SUFFICES ASSUME NEW i \in Invitations, NEW j \in Invitations,
                      IsPending(i)', IsPending(j)',
                      InvitationPair(i)' = InvitationPair(j)'
               PROVE  i = j
    BY DEF OnePendingPerPair
  <2> QED
    BY <1>4, <1>9 DEF IInv, Reliance, OnePendingPerPair
<1>13. NoPendingBesideMatch'
  <2> SUFFICES ASSUME NEW i \in Invitations, IsPending(i)'
               PROVE  ~ActivePair(InvitationPair(i))'
    BY DEF NoPendingBesideMatch
  <2>1. CASE i = n
    BY <1>1, <1>2, <1>4, <2>1 DEF ActivePair, MatchPair
  <2>2. CASE i # n
    BY <1>1, <1>9, <2>2 DEF IInv, Reliance, NoPendingBesideMatch, ActivePair, MatchPair
  <2> QED
    BY <2>1, <2>2
\* The row of another request past its checks is not touched.
<1>14. ASSUME NEW q \in Requests, request'[q].pc = "checked",
              request[q].invitation \in Invitations,
              IsPending(request[q].invitation)
       PROVE  invitation'[request[q].invitation].status = "PENDING"
  <2>1. /\ request[q] = request'[q] /\ q # r
        /\ Participants(q) # p
    BY <1>7, <1>8, <1>14
  <2>2. request[q].invitation # NoInvitation
    BY <1>14, InvitationsAssumption
  <2>3. InvitationPair(request[q].invitation) = Participants(q)
    BY <1>14, <2>1, <2>2, OwnPair DEF IInv
  <2>4. request[q].invitation # n
    BY <1>3, <1>14 DEF IsPending
  <2>5. request[q].invitation # x
    BY <1>1, <2>1, <2>2, <2>3, OwnPair DEF IInv
  <2> QED
    BY <1>6, <1>14, <2>4, <2>5 DEF IsPending
<1>15. CheckedSendHolds'
  <2> SUFFICES ASSUME NEW q \in Requests,
                      request'[q].pc = "checked", request'[q].op = "send"
               PROVE  /\ ~ActivePair(Participants(q))'
                      /\ PendingIndexAllows(q)'
                      /\ request'[q].invitation # NoInvitation =>
                           invitation'[request'[q].invitation].status = "PENDING"
    BY DEF CheckedSendHolds, IsPending
  <2>1. request'[q] = request[q] /\ Participants(q) # p
    BY <1>7, <1>8
  <2>2. /\ ~ActivePair(Participants(q))
        /\ PendingOf(Participants(q)) \subseteq {request[q].invitation}
        /\ request[q].invitation # NoInvitation => IsPending(request[q].invitation)
    BY <2>1 DEF IInv, Reliance, CheckedSendHolds, PendingIndexAllows
  <2>3. ~ActivePair(Participants(q))'
    BY <1>1, <2>1, <2>2 DEF ActivePair, MatchPair, Participants
  <2>4. PendingIndexAllows(q)'
    <3> SUFFICES ASSUME NEW i \in Invitations, IsPending(i)',
                        InvitationPair(i)' = Participants(q)'
                 PROVE  i = request[q].invitation
      BY <2>1 DEF PendingIndexAllows, PendingOf
    <3>1. InvitationPair(i)' = Participants(q)
      BY <2>1 DEF Participants
    <3>2. i # n
      BY <1>4, <2>1, <3>1
    <3> QED
      BY <1>9, <2>2, <3>1, <3>2 DEF PendingOf
  <2>5. request[q].invitation # NoInvitation => request[q].invitation \in Invitations
    BY DEF IInv, Typed, TypeOK, Request
  <2> QED
    BY <1>14, <2>1, <2>2, <2>3, <2>4, <2>5
<1>16. CheckedAcceptHolds'
  <2> SUFFICES ASSUME NEW q \in Requests,
                      request'[q].pc = "checked", request'[q].op = "accept"
               PROVE  invitation'[request'[q].invitation].status = "PENDING"
    BY DEF CheckedAcceptHolds, IsPending
  <2>1. request'[q] = request[q]
    BY <1>7, <1>8
  <2>2. IsPending(request[q].invitation)
    BY <2>1 DEF IInv, Reliance, CheckedAcceptHolds
  <2>3. request[q].invitation \in Invitations
    BY <2>1, RunningRequest DEF IInv
  <2> QED
    BY <1>14, <2>1, <2>2, <2>3
<1> QED
  BY <1>11, <1>12, <1>13, <1>15, <1>16 DEF Reliance

\* The accept: its row leaves PENDING in the step that makes its pair buddies,
\* and every other request past its checks is about another pair.
LEMMA AcceptCommitInvariant ==
  ASSUME IInv, NEW r \in Requests, AcceptCommit(r)
  PROVE  LocksExclusive' /\ Reliance'
<1> DEFINE x == request[r].invitation
           p == Participants(r)
<1>1. /\ request[r].pc = "checked" /\ request[r].op = "accept"
      /\ End(r)
  BY DEF AcceptCommit, Activates, WithConversation
<1>2. /\ x \in Invitations /\ x # NoInvitation
      /\ IsPending(x) /\ InvitationPair(x) = p
  BY <1>1, RunningRequest, OwnPair, InvitationsAssumption
     DEF IInv, Reliance, CheckedAcceptHolds
<1>3. ~ActivePair(p)
  BY <1>2 DEF IInv, Reliance, NoPendingBesideMatch
<1>4. /\ invitation' = [invitation EXCEPT ![x] = Close(x, "ACCEPTED", request[r].at)]
      /\ matches' = matches \union {NewMatch(r)}
  BY <1>1, <1>3 DEF AcceptCommit, Activates, WithConversation
<1>5. MatchPair(NewMatch(r)) = p
  BY DEF MatchPair, NewMatch, Participants
<1>6. /\ invitation'[x].status = "ACCEPTED"
      /\ \A i \in Invitations \ {x} : invitation'[i] = invitation[i]
  <2>1. Close(x, "ACCEPTED", request[r].at).status = "ACCEPTED"
    BY <1>1, <1>2, CloseTyped, RunningRequest DEF IInv, Typed, Terminal
  <2> QED
    BY <1>2, <1>4, <2>1 DEF IInv, Typed, TypeOK
<1>7. \A q \in Requests \ {r} : request'[q] = request[q]
  BY <1>1, EndTyped DEF IInv, Typed
<1>8. \A q \in Requests : request'[q].pc = "checked" =>
        q # r /\ Participants(q) # p
  BY <1>1, <1>7, EndTyped, OtherPair DEF IInv, Typed, Idle
<1>9. \A i \in Invitations : IsPending(i)' =>
        IsPending(i) /\ InvitationPair(i)' = InvitationPair(i)
                    /\ InvitationPair(i) # p
  <2> SUFFICES ASSUME NEW i \in Invitations, IsPending(i)'
               PROVE  /\ IsPending(i)
                      /\ InvitationPair(i)' = InvitationPair(i)
                      /\ InvitationPair(i) # p
    OBVIOUS
  <2>1. i # x
    BY <1>6 DEF IsPending
  <2>2. invitation'[i] = invitation[i]
    BY <1>6, <2>1
  <2>3. IsPending(i) /\ InvitationPair(i)' = InvitationPair(i)
    BY <2>2 DEF IsPending, InvitationPair
  <2> QED
    BY <1>2, <2>1, <2>3 DEF IInv, Reliance, OnePendingPerPair
<1>10. LocksExclusive'
  BY <1>1, EndLocks DEF IInv
<1>11. OnePendingPerPair'
  BY <1>9 DEF IInv, Reliance, OnePendingPerPair
\* A pair other than p is a pair of buddies only if it was one.
<1>12. ASSUME NEW m \in matches', MatchPair(m) # p
       PROVE  ActivePair(MatchPair(m))
  BY <1>4, <1>5, <1>12 DEF ActivePair
<1>13. NoPendingBesideMatch'
  <2> SUFFICES ASSUME NEW i \in Invitations, IsPending(i)',
                      NEW m \in matches', MatchPair(m) = InvitationPair(i)'
               PROVE  FALSE
    BY DEF NoPendingBesideMatch, ActivePair, MatchPair
  <2> QED
    BY <1>9, <1>12 DEF IInv, Reliance, NoPendingBesideMatch
<1>14. ASSUME NEW q \in Requests, request'[q].pc = "checked",
              request[q].invitation \in Invitations,
              IsPending(request[q].invitation)
       PROVE  invitation'[request[q].invitation].status = "PENDING"
  <2>1. /\ request[q] = request'[q] /\ q # r
        /\ Participants(q) # p
    BY <1>7, <1>8, <1>14
  <2>2. request[q].invitation # NoInvitation
    BY <1>14, InvitationsAssumption
  <2>3. InvitationPair(request[q].invitation) = Participants(q)
    BY <1>14, <2>1, <2>2, OwnPair DEF IInv
  <2> QED
    BY <1>2, <1>6, <1>14, <2>1, <2>3 DEF IsPending
<1>15. CheckedSendHolds'
  <2> SUFFICES ASSUME NEW q \in Requests,
                      request'[q].pc = "checked", request'[q].op = "send"
               PROVE  /\ ~ActivePair(Participants(q))'
                      /\ PendingIndexAllows(q)'
                      /\ request'[q].invitation # NoInvitation =>
                           invitation'[request'[q].invitation].status = "PENDING"
    BY DEF CheckedSendHolds, IsPending
  <2>1. /\ request'[q] = request[q] /\ Participants(q) # p
        /\ Participants(q)' = Participants(q)
    BY <1>7, <1>8 DEF Participants
  <2>2. /\ ~ActivePair(Participants(q))
        /\ PendingOf(Participants(q)) \subseteq {request[q].invitation}
        /\ request[q].invitation # NoInvitation => IsPending(request[q].invitation)
    BY <2>1 DEF IInv, Reliance, CheckedSendHolds, PendingIndexAllows
  <2>3. ~ActivePair(Participants(q))'
    <3> SUFFICES ASSUME NEW m \in matches', MatchPair(m) = Participants(q)
                 PROVE  FALSE
      BY <2>1 DEF ActivePair, MatchPair
    <3> QED
      BY <1>12, <2>1, <2>2
  <2>4. PendingIndexAllows(q)'
    <3> SUFFICES ASSUME NEW i \in Invitations, IsPending(i)',
                        InvitationPair(i)' = Participants(q)
                 PROVE  i = request[q].invitation
      BY <2>1 DEF PendingIndexAllows, PendingOf
    <3> QED
      BY <1>9, <2>2 DEF PendingOf
  <2>5. request[q].invitation # NoInvitation => request[q].invitation \in Invitations
    BY DEF IInv, Typed, TypeOK, Request
  <2> QED
    BY <1>14, <2>1, <2>2, <2>3, <2>4, <2>5
<1>16. CheckedAcceptHolds'
  <2> SUFFICES ASSUME NEW q \in Requests,
                      request'[q].pc = "checked", request'[q].op = "accept"
               PROVE  invitation'[request'[q].invitation].status = "PENDING"
    BY DEF CheckedAcceptHolds, IsPending
  <2>1. request'[q] = request[q]
    BY <1>7, <1>8
  <2>2. IsPending(request[q].invitation)
    BY <2>1 DEF IInv, Reliance, CheckedAcceptHolds
  <2>3. request[q].invitation \in Invitations
    BY <2>1, RunningRequest DEF IInv
  <2> QED
    BY <1>14, <2>1, <2>2, <2>3
<1> QED
  BY <1>10, <1>11, <1>13, <1>15, <1>16 DEF Reliance

\* Decline, cancel, hide and expiry skip or wait for a row that a request past
\* its checks has locked.
LEMMA RespondInvariant ==
  ASSUME IInv, NEW i \in Invitations, NEW status \in Terminal,
         Respond(i, status)
  PROVE  LocksExclusive' /\ Reliance'
<1>1. /\ RowLockFree(i)
      /\ invitation' = [invitation EXCEPT ![i] = Close(i, status, now)]
      /\ UNCHANGED <<request, matches>>
  BY DEF Respond
<1>2. /\ Close(i, status, now).status = status
      /\ Close(i, status, now).sender = invitation[i].sender
      /\ Close(i, status, now).recipient = invitation[i].recipient
  BY CloseTyped DEF IInv, Typed, TypeOK
<1>3. \A j \in Invitations :
        /\ invitation'[j].status = "PENDING" => invitation[j].status = "PENDING"
        /\ invitation'[j].sender = invitation[j].sender
        /\ invitation'[j].recipient = invitation[j].recipient
  BY <1>1, <1>2 DEF IInv, Typed, TypeOK, Terminal
<1>4. \A q \in Requests :
        request[q].pc = "checked" /\ request[q].invitation \in Invitations =>
            invitation'[request[q].invitation].status
              = invitation[request[q].invitation].status
  BY <1>1 DEF RowLockFree
<1>5. Reliance'
  BY <1>1, <1>3, <1>4, ClosingStep DEF IInv
<1>6. LocksExclusive'
  BY <1>1, SameLocks DEF IInv, LocksExclusive
<1> QED
  BY <1>5, <1>6

LEMMA HideInvariant ==
  ASSUME IInv, NEW i \in Invitations, Hide(i)
  PROVE  LocksExclusive' /\ Reliance'
<1>1. /\ invitation' = [invitation EXCEPT ![i].hidden = TRUE]
      /\ RowLockFree(i)
      /\ UNCHANGED <<request, matches>>
  BY DEF Hide
<1>2. \A j \in Invitations :
        /\ invitation'[j].status = "PENDING" => invitation[j].status = "PENDING"
        /\ invitation'[j].sender = invitation[j].sender
        /\ invitation'[j].recipient = invitation[j].recipient
  BY <1>1 DEF IInv, Typed, TypeOK, InvitationRow
<1>3. \A q \in Requests :
        request[q].pc = "checked" /\ request[q].invitation \in Invitations =>
            invitation'[request[q].invitation].status
              = invitation[request[q].invitation].status
  BY <1>1 DEF RowLockFree
<1>4. Reliance'
  BY <1>1, <1>2, <1>3, ClosingStep DEF IInv
<1>5. LocksExclusive'
  BY <1>1, SameLocks DEF IInv, LocksExclusive
<1> QED
  BY <1>4, <1>5

LEMMA ExpireBatchInvariant ==
  ASSUME IInv, ExpireBatch
  PROVE  LocksExclusive' /\ Reliance'
<1>1. PICK S \in SUBSET {i \in Invitations : IsDue(i, now) /\ RowLockFree(i)} :
        invitation' = [i \in Invitations |->
            IF i \in S THEN Close(i, "EXPIRED", now) ELSE invitation[i]]
  BY DEF ExpireBatch
<1>2. UNCHANGED <<request, matches>>
  BY DEF ExpireBatch
<1>3. \A i \in Invitations :
        /\ Close(i, "EXPIRED", now).status = "EXPIRED"
        /\ Close(i, "EXPIRED", now).sender = invitation[i].sender
        /\ Close(i, "EXPIRED", now).recipient = invitation[i].recipient
  BY CloseTyped DEF IInv, Typed, TypeOK, Terminal
<1>4. \A j \in Invitations :
        /\ invitation'[j].status = "PENDING" => invitation[j].status = "PENDING"
        /\ invitation'[j].sender = invitation[j].sender
        /\ invitation'[j].recipient = invitation[j].recipient
  BY <1>1, <1>3
<1>5. ASSUME NEW q \in Requests, request[q].pc = "checked",
             request[q].invitation \in Invitations
      PROVE  invitation'[request[q].invitation].status
               = invitation[request[q].invitation].status
  <2>1. request[q].invitation \notin S
    BY <1>1, <1>5 DEF RowLockFree
  <2> QED
    BY <1>1, <1>5, <2>1
<1>6. Reliance'
  BY <1>2, <1>4, <1>5, ClosingStep DEF IInv
<1>7. LocksExclusive'
  BY <1>2, SameLocks DEF IInv, LocksExclusive
<1> QED
  BY <1>6, <1>7

LEMMA InvariantStep ==
  ASSUME IInv, [Next]_vars
  PROVE  IInv'
<1>1. Typed'
  BY TypedStep DEF IInv
<1>2. LocksExclusive' /\ Reliance'
  <2>1. CASE \E r \in Requests, s \in Users, t \in Users : BeginSend(r, s, t)
    BY <2>1, BeginInvariant DEF BeginSend
  <2>2. CASE \E r \in Requests, i \in Invitations : BeginAccept(r, i)
    BY <2>2, BeginInvariant DEF BeginAccept
  <2>3. CASE \E r \in Requests : LockFirstUser(r)
    BY <2>3, LockFirstInvariant
  <2>4. CASE \E r \in Requests : LockSecondUser(r)
    BY <2>4, LockSecondInvariant
  <2>5. CASE \E r \in Requests : SendCheck(r)
    BY <2>5, SendCheckInvariant
  <2>6. CASE \E r \in Requests : SendCommit(r)
    BY <2>6, SendCommitInvariant
  <2>7. CASE \E r \in Requests : AcceptCheck(r)
    BY <2>7, AcceptCheckInvariant
  <2>8. CASE \E r \in Requests : AcceptCommit(r)
    BY <2>8, AcceptCommitInvariant
  <2>9. CASE \E r \in Requests : Abort(r)
    BY <2>9, EndInvariant DEF Abort
  <2>10. CASE \E i \in Invitations : Decline(i) \/ Cancel(i)
    BY <2>10, RespondInvariant DEF Decline, Cancel, Terminal
  <2>11. CASE \E i \in Invitations : Hide(i)
    BY <2>11, HideInvariant
  <2>12. CASE ExpireBatch
    BY <2>12, ExpireBatchInvariant
  \* Profile edits and the clock leave both tables and the requests alone.
  <2>13. ASSUME UNCHANGED <<invitation, matches, request>>
         PROVE  LocksExclusive' /\ Reliance'
    <3>1. LocksExclusive'
      BY <2>13, SameLocks DEF IInv, LocksExclusive
    <3> QED
      BY <2>13, <3>1, QuietStep DEF IInv
  <2>14. CASE \E u \in Editors : ChangeType(u) \/ ChangeReadiness(u)
    BY <2>13, <2>14 DEF ChangeType, ChangeReadiness
  <2>15. CASE Tick
    BY <2>13, <2>15 DEF Tick
  <2>16. CASE UNCHANGED vars
    BY <2>13, <2>16 DEF vars
  <2> QED
    BY <2>1, <2>2, <2>3, <2>4, <2>5, <2>6, <2>7, <2>8, <2>9, <2>10, <2>11, <2>12,
       <2>14, <2>15, <2>16 DEF Next
<1> QED
  BY <1>1, <1>2 DEF IInv

LEMMA InvariantHolds == Spec => []IInv
BY InitInvariant, InvariantStep, PTL DEF Spec

\* A send or an accept past its checks relies on nothing that a concurrent
\* request, answer, expiry or profile edit can take away before it commits.
THEOREM LockDisciplineHolds == Spec => []LockDiscipline
<1>1. IInv => LockDiscipline
  BY DEF IInv, Typed, Reliance, LockDiscipline
<1> QED
  BY <1>1, InvariantHolds, PTL

\* No interleaving leaves a PENDING invitation between two users who already
\* are buddies: the user locks of send and accept are enough, no index helps.
THEOREM NoPendingBesideMatchHolds == Spec => []NoPendingBesideMatch
<1>1. IInv => NoPendingBesideMatch
  BY DEF IInv, Reliance
<1> QED
  BY <1>1, InvariantHolds, PTL

\* The unique indexes on pending and active pairs never reject a request that
\* has passed its checks.
THEOREM IndexesNeverNeededHolds == Spec => []IndexesNeverNeeded
<1>1. IInv => IndexesNeverNeeded
  <2> SUFFICES ASSUME IInv, NEW r \in Requests, request[r].pc = "checked"
               PROVE  /\ request[r].op = "send" => PendingIndexAllows(r)
                      /\ ~ActivePair(Participants(r))
    BY DEF IndexesNeverNeeded
  <2>1. CASE request[r].op = "send"
    BY <2>1 DEF IInv, Reliance, CheckedSendHolds
  <2>2. CASE request[r].op = "accept"
    <3>1. /\ request[r].invitation \in Invitations
          /\ InvitationPair(request[r].invitation) = Participants(r)
      BY <2>2, RunningRequest, OwnPair, InvitationsAssumption DEF IInv
    <3>2. IsPending(request[r].invitation)
      BY <2>2 DEF IInv, Reliance, CheckedAcceptHolds
    <3> QED
      BY <2>2, <3>1, <3>2 DEF IInv, Reliance, NoPendingBesideMatch
  <2>3. request[r].op \in {"send", "accept"}
    BY DEF IInv, Typed, TypeOK, Request
  <2> QED
    BY <2>1, <2>2, <2>3
<1> QED
  BY <1>1, InvariantHolds, PTL
-----------------------------------------------------------------------------
(* What requests know.                                                     *)

\* No request decides with a clock that is ahead.
ClockInv == \A r \in Requests : request[r].pc # "idle" => request[r].at <= now

\* A request past its checks stamps its row on the right side of the deadline.
CheckedInTime ==
    \A r \in Requests : request[r].pc = "checked" =>
        LET i == request[r].invitation
        IN  /\ request[r].op = "accept" => request[r].at < invitation[i].expires
            /\ request[r].op = "send" /\ i # NoInvitation
                 => invitation[i].expires <= request[r].at

\* There is room for the invitation that a send past its checks will insert.
CheckedCapacity ==
    \A r \in Requests : request[r].pc = "checked" /\ request[r].op = "send" =>
        Cardinality(EffectivePending(request[r].sender, request[r].at)) < MaxPending

\* An accept that holds its locks has seen opposite types, and the sender's
\* type is still the one it saw.
SeenOpposite ==
    \A r \in Requests :
        request[r].pc \in {"locked", "checked"} /\ request[r].op = "accept" =>
            request[r].seen.type # account[request[r].sender].type

\* An accept is about the users of its row, in the same roles.
AcceptsAsSent ==
    \A r \in Requests : request[r].pc # "idle" /\ request[r].op = "accept" =>
        /\ request[r].sender = invitation[request[r].invitation].sender
        /\ request[r].recipient = invitation[request[r].invitation].recipient

PendingRows == {i \in Invitations : IsPending(i)}

\* What RelationshipComplete says, without counting.
Relationship ==
    /\ \A i \in Invitations :
        LET accepted == invitation[i].status = "ACCEPTED"
        IN  /\ accepted <=> \E m \in matches : m.invitation = i
            /\ accepted <=> i \in conversations
            /\ accepted <=> [type |-> "ACCEPTED", invitation |-> i] \in outbox
            /\ invitation[i].status # "NONE"
                <=> [type |-> "CREATED", invitation |-> i] \in outbox
    /\ \A m \in matches : /\ m.one = invitation[m.invitation].sender
                           /\ m.two = invitation[m.invitation].recipient
    /\ \A m, n \in matches : MatchPair(m) = MatchPair(n) => m = n

Outcomes ==
    /\ ClockInv /\ CheckedInTime /\ CheckedCapacity /\ SeenOpposite
    /\ AcceptsAsSent
    /\ IsFiniteSet(PendingRows)
    /\ StampsRespectDeadline /\ PendingWithinLimit
    /\ OppositeTypesWhenFresh /\ Relationship

-----------------------------------------------------------------------------
(* Counting invitations.                                                   *)

\* Pending invitations can be counted, and there are fewer in a smaller set.
LEMMA FewerPending ==
    ASSUME IsFiniteSet(PendingRows), NEW u, NEW at, NEW S,
           S \subseteq EffectivePending(u, at)
    PROVE  /\ IsFiniteSet(S)
           /\ Cardinality(S) <= Cardinality(EffectivePending(u, at))
           /\ Cardinality(S) \in Nat
           /\ Cardinality(EffectivePending(u, at)) \in Nat
<1>1. EffectivePending(u, at) \in SUBSET PendingRows
    BY DEF EffectivePending, PendingRows
<1>2. IsFiniteSet(EffectivePending(u, at))
    BY <1>1, FS_Subset
<1>3. S \in SUBSET EffectivePending(u, at)
    OBVIOUS
<1> QED BY <1>2, <1>3, FS_Subset, FS_CardinalityType

LEMMA InitOutcomes == Init => Outcomes
<1> SUFFICES ASSUME Init PROVE Outcomes
    OBVIOUS
<1>1. /\ \A r \in Requests : request[r].pc = "idle"
      /\ \A i \in Invitations : invitation[i].status = "NONE"
      /\ matches = {} /\ conversations = {} /\ outbox = {}
    BY DEF Init, Idle, NoRow
<1>2. PendingRows = {} /\ \A u \in Users : EffectivePending(u, now) = {}
    BY <1>1 DEF PendingRows, EffectivePending, IsPending
<1>3. IsFiniteSet(PendingRows) /\ PendingWithinLimit
    BY <1>2, FS_EmptySet, BoundsAssumption DEF PendingWithinLimit
<1>4. ClockInv /\ CheckedInTime /\ CheckedCapacity /\ SeenOpposite /\ AcceptsAsSent
    BY <1>1 DEF ClockInv, CheckedInTime, CheckedCapacity, SeenOpposite, AcceptsAsSent
<1>5. StampsRespectDeadline /\ OppositeTypesWhenFresh /\ Relationship
    BY <1>1 DEF StampsRespectDeadline, OppositeTypesWhenFresh, Relationship
<1> QED BY <1>3, <1>4, <1>5 DEF Outcomes

-----------------------------------------------------------------------------
(* Steps that leave every row as it was.                                   *)

Steady == UNCHANGED <<account, invitation, matches, conversations, outbox, now>>

\* One request moves on to v, which knows what a request there must know.
LEMMA RequestMoves ==
    ASSUME Outcomes, Steady, NEW r \in Requests, NEW v,
           \A q \in Requests : request'[q] = IF q = r THEN v ELSE request[q],
           v.pc # "idle" => v.at <= now,
           v.pc = "checked" /\ v.op = "accept"
              => v.at < invitation[v.invitation].expires,
           v.pc = "checked" /\ v.op = "send"
              => /\ v.invitation # NoInvitation
                      => invitation[v.invitation].expires <= v.at
                 /\ Cardinality(EffectivePending(v.sender, v.at)) < MaxPending,
           v.pc \in {"locked", "checked"} /\ v.op = "accept"
              => v.seen.type # account[v.sender].type,
           v.pc # "idle" /\ v.op = "accept"
              => /\ v.sender = invitation[v.invitation].sender
                 /\ v.recipient = invitation[v.invitation].recipient
    PROVE  Outcomes'
<1> USE DEF Outcomes, Steady
<1>1. ClockInv'
    BY DEF ClockInv
<1>2. CheckedInTime'
    BY DEF CheckedInTime
<1>3. CheckedCapacity'
    <2> SUFFICES ASSUME NEW q \in Requests,
                        request'[q].pc = "checked", request'[q].op = "send"
                 PROVE  Cardinality(EffectivePending(request'[q].sender, request'[q].at))
                            < MaxPending
        BY DEF CheckedCapacity, EffectivePending, IsPending
    <2>1. CASE q = r
        BY <2>1
    <2>2. CASE q # r
        <3>1. request'[q] = request[q]
            BY <2>2
        <3> QED BY <3>1 DEF CheckedCapacity
    <2> QED BY <2>1, <2>2
<1>4. SeenOpposite' /\ AcceptsAsSent'
    BY DEF SeenOpposite, AcceptsAsSent
<1>5. IsFiniteSet(PendingRows)' /\ PendingWithinLimit'
    BY DEF PendingRows, PendingWithinLimit, EffectivePending, IsPending
<1>6. StampsRespectDeadline' /\ OppositeTypesWhenFresh' /\ Relationship'
    BY DEF StampsRespectDeadline, OppositeTypesWhenFresh, Relationship, MatchPair
<1> QED BY <1>1, <1>2, <1>3, <1>4, <1>5, <1>6

LEMMA EndOutcomes ==
    ASSUME IInv, Outcomes, Steady, NEW r \in Requests, End(r)
    PROVE  Outcomes'
<1>1. \A q \in Requests : request'[q] = IF q = r THEN Idle ELSE request[q]
    BY EndTyped DEF IInv, Typed
<1>2. Idle.pc = "idle"
    BY DEF Idle
<1> HIDE DEF Idle
<1> QED BY <1>1, <1>2, RequestMoves

LEMMA BeginOutcomes ==
    ASSUME IInv, Outcomes, Steady, NEW r \in Requests, NEW v,
           v.pc = "first", v.at = now, request' = [request EXCEPT ![r] = v],
           v.op = "accept" => /\ v.sender = invitation[v.invitation].sender
                              /\ v.recipient = invitation[v.invitation].recipient
    PROVE  Outcomes'
<1>1. \A q \in Requests : request'[q] = IF q = r THEN v ELSE request[q]
    BY DEF IInv, Typed, TypeOK
<1>2. v.at <= now
    BY DEF IInv, Typed, TypeOK
<1> QED BY <1>1, <1>2, RequestMoves

LEMMA LockFirstOutcomes ==
    ASSUME IInv, Outcomes, NEW r \in Requests, LockFirstUser(r)
    PROVE  Outcomes'
<1> DEFINE v == [request[r] EXCEPT !.pc = "second"]
<1>1. /\ request[r] \in Request /\ request[r].pc = "first"
      /\ \A q \in Requests : request'[q] = IF q = r THEN v ELSE request[q]
    BY DEF IInv, Typed, TypeOK, LockFirstUser
<1>2. /\ v.pc = "second" /\ v.at = request[r].at /\ v.op = request[r].op
      /\ v.sender = request[r].sender /\ v.recipient = request[r].recipient
      /\ v.invitation = request[r].invitation
    BY <1>1 DEF Request
<1>3. /\ v.at <= now
      /\ v.op = "accept" => /\ v.sender = invitation[v.invitation].sender
                            /\ v.recipient = invitation[v.invitation].recipient
    BY <1>1, <1>2 DEF Outcomes, ClockInv, AcceptsAsSent
<1>4. Steady
    BY DEF LockFirstUser, Steady
<1> HIDE DEF v
<1> QED BY <1>1, <1>2, <1>3, <1>4, RequestMoves

\* An accept's owner is its recipient: it sees the sender's row as it is now.
LEMMA LockSecondOutcomes ==
    ASSUME IInv, Outcomes, NEW r \in Requests, LockSecondUser(r)
    PROVE  Outcomes'
<1>1. Steady /\ request[r].pc = "second"
    BY DEF LockSecondUser, Steady
<1>2. CASE End(r)
    BY <1>1, <1>2, EndOutcomes
<1>3. CASE PairEligible(r) /\ request' = [request EXCEPT ![r].pc = "locked"]
    <2> DEFINE v == [request[r] EXCEPT !.pc = "locked"]
    <2>1. /\ request[r] \in Request
          /\ \A q \in Requests : request'[q] = IF q = r THEN v ELSE request[q]
        BY <1>3 DEF IInv, Typed, TypeOK
    <2>2. /\ v.pc = "locked" /\ v.at = request[r].at /\ v.op = request[r].op
          /\ v.seen = request[r].seen /\ v.sender = request[r].sender
          /\ v.recipient = request[r].recipient
          /\ v.invitation = request[r].invitation
        BY <2>1 DEF Request
    <2>3. /\ v.at <= now
          /\ v.op = "accept" => /\ v.sender = invitation[v.invitation].sender
                                /\ v.recipient = invitation[v.invitation].recipient
        BY <1>1, <2>2 DEF Outcomes, ClockInv, AcceptsAsSent
    <2>4. ASSUME v.op = "accept" PROVE v.seen.type # account[v.sender].type
        <3>1. request[r].sender # request[r].recipient
            BY <1>1, RunningRequest DEF IInv
        <3>2. /\ Owner(r) = request[r].recipient
              /\ AccountSeen(r, request[r].recipient) = request[r].seen
              /\ AccountSeen(r, request[r].sender) = account[request[r].sender]
            BY <2>2, <2>4, <3>1 DEF Owner, AccountSeen
        <3>3. {request[r].seen.type, account[request[r].sender].type} = StudentTypes
            BY <1>3, <3>2 DEF PairEligible, OppositeTypesSeen, Participants
        <3> QED BY <2>2, <3>3 DEF StudentTypes
    <2> HIDE DEF v
    <2> QED BY <1>1, <2>1, <2>2, <2>3, <2>4, RequestMoves
<1> QED BY <1>2, <1>3 DEF LockSecondUser

\* A send has counted, and its pair's pending rows have lapsed.
LEMMA SendCheckOutcomes ==
    ASSUME IInv, Outcomes, NEW r \in Requests, SendCheck(r)
    PROVE  Outcomes'
<1>1. Steady /\ request[r].pc = "locked" /\ request[r].op = "send"
    BY DEF SendCheck, Steady
<1>2. CASE End(r)
    BY <1>1, <1>2, EndOutcomes
<1>3. ASSUME SendMayInsert(r), NEW i \in LapsedRow(Participants(r)),
             request' = [request EXCEPT
                ![r] = [@ EXCEPT !.pc = "checked", !.invitation = i]]
      PROVE  Outcomes'
    <2> DEFINE v == [request[r] EXCEPT !.pc = "checked", !.invitation = i]
    <2>1. /\ request[r] \in Request
          /\ \A q \in Requests : request'[q] = IF q = r THEN v ELSE request[q]
        BY <1>3 DEF IInv, Typed, TypeOK
    <2>2. /\ v.pc = "checked" /\ v.at = request[r].at /\ v.op = "send"
          /\ v.invitation = i /\ v.sender = request[r].sender
        BY <1>1, <2>1 DEF Request
    <2>3. v.at <= now
        BY <1>1, <2>2 DEF Outcomes, ClockInv
    <2>4. v.invitation # NoInvitation => invitation[v.invitation].expires <= v.at
        BY <1>3, <2>2 DEF LapsedRow, SendMayInsert, IsDue
    <2>5. Cardinality(EffectivePending(v.sender, v.at)) < MaxPending
        BY <1>3, <2>2 DEF SendMayInsert
    <2> HIDE DEF v
    <2> QED BY <1>1, <2>1, <2>2, <2>3, <2>4, <2>5, RequestMoves
<1> QED BY <1>2, <1>3 DEF SendCheck

LEMMA AcceptCheckOutcomes ==
    ASSUME IInv, Outcomes, NEW r \in Requests, AcceptCheck(r)
    PROVE  Outcomes'
<1> DEFINE v == [request[r] EXCEPT !.pc = "checked", !.at = now]
<1>1. Steady /\ request[r].pc = "locked" /\ request[r].op = "accept"
    BY DEF AcceptCheck, Steady
<1>2. CASE End(r)
    BY <1>1, <1>2, EndOutcomes
<1>3. CASE /\ IsPending(request[r].invitation) /\ ~IsDue(request[r].invitation, now)
           /\ request' = [request EXCEPT ![r] = v]
    <2>1. /\ request[r] \in Request /\ now \in Nat
          /\ \A q \in Requests : request'[q] = IF q = r THEN v ELSE request[q]
        BY <1>3 DEF IInv, Typed, TypeOK
    <2>2. /\ v.pc = "checked" /\ v.at = now /\ v.op = "accept"
          /\ v.invitation = request[r].invitation
          /\ v.seen = request[r].seen /\ v.sender = request[r].sender
          /\ v.recipient = request[r].recipient
        BY <1>1, <2>1 DEF Request
    <2>3. v.at < invitation[v.invitation].expires
        <3>1. request[r].invitation \in Invitations
            BY <1>1, RunningRequest DEF IInv
        <3>2. invitation[request[r].invitation].expires \in Nat
            BY <3>1 DEF IInv, Typed, TypeOK, InvitationRow
        <3> QED BY <1>3, <2>1, <2>2, <3>2 DEF IsDue
    <2>4. v.seen.type # account[v.sender].type
        BY <1>1, <2>2 DEF Outcomes, SeenOpposite
    <2>5. /\ v.at <= now
          /\ v.sender = invitation[v.invitation].sender
          /\ v.recipient = invitation[v.invitation].recipient
        BY <1>1, <2>1, <2>2 DEF Outcomes, AcceptsAsSent
    <2> HIDE DEF v
    <2> QED BY <1>1, <2>1, <2>2, <2>3, <2>4, <2>5, RequestMoves
<1> QED BY <1>2, <1>3 DEF AcceptCheck

-----------------------------------------------------------------------------
(* Steps that close or hide rows.                                          *)

\* Who decides in time keeps the stamps right; all else only gets easier.
LEMMA RowsClose ==
    ASSUME IInv, Outcomes,
           UNCHANGED <<account, matches, conversations, outbox, request, now>>,
           \A i \in Invitations :
              /\ invitation'[i].sender = invitation[i].sender
              /\ invitation'[i].recipient = invitation[i].recipient
              /\ invitation'[i].expires = invitation[i].expires
              /\ \/ invitation'[i].status = invitation[i].status
                 \/ /\ invitation[i].status = "PENDING"
                    /\ invitation'[i].status \in {"DECLINED", "CANCELLED", "EXPIRED"},
           StampsRespectDeadline'
    PROVE  Outcomes'
<1> USE DEF Outcomes
<1>1. /\ ClockInv' /\ SeenOpposite' /\ OppositeTypesWhenFresh'
      /\ AcceptsAsSent'
    <2>1. \A r \in Requests : request[r].pc # "idle" /\ request[r].op = "accept"
            => request[r].invitation \in Invitations
        BY RunningRequest DEF IInv
    <2> QED BY <2>1 DEF ClockInv, SeenOpposite, OppositeTypesWhenFresh, AcceptsAsSent
<1>2. CheckedInTime'
    <2> SUFFICES ASSUME NEW r \in Requests, request[r].pc = "checked"
                 PROVE  LET i == request[r].invitation
                        IN  /\ request[r].op = "accept"
                                  => request[r].at < invitation'[i].expires
                            /\ request[r].op = "send" /\ i # NoInvitation
                                  => invitation'[i].expires <= request[r].at
        BY DEF CheckedInTime
    <2>1. /\ request[r].op = "accept" => request[r].invitation \in Invitations
          /\ request[r].invitation \in Invitations \union {NoInvitation}
        BY RunningRequest DEF IInv, Typed, TypeOK, Request
    <2> QED BY <2>1 DEF CheckedInTime
<1>3. CheckedCapacity'
    <2> SUFFICES ASSUME NEW r \in Requests,
                        request[r].pc = "checked", request[r].op = "send"
                 PROVE  Cardinality(EffectivePending(request[r].sender, request[r].at)')
                            < MaxPending
        BY DEF CheckedCapacity
    <2> DEFINE then == EffectivePending(request[r].sender, request[r].at)'
               before == EffectivePending(request[r].sender, request[r].at)
    <2>1. then \subseteq before
        BY DEF EffectivePending, IsPending
    <2>2. Cardinality(before) < MaxPending
        BY DEF CheckedCapacity
    <2> HIDE DEF then
    <2>3. /\ Cardinality(then) <= Cardinality(before)
          /\ Cardinality(then) \in Nat /\ Cardinality(before) \in Nat
        BY <2>1, FewerPending
    <2>4. Cardinality(then) < MaxPending
        BY <2>2, <2>3, BoundsAssumption
    <2> QED BY <2>4 DEF then
<1>4. IsFiniteSet(PendingRows)'
    <2>1. PendingRows' \in SUBSET PendingRows
        BY DEF PendingRows, IsPending
    <2> HIDE DEF PendingRows
    <2> QED BY <2>1, FS_Subset
<1>5. PendingWithinLimit'
    <2> SUFFICES ASSUME NEW u \in Users
                 PROVE  Cardinality(EffectivePending(u, now)') <= MaxPending
        BY DEF PendingWithinLimit
    <2> DEFINE then == EffectivePending(u, now)'
    <2>1. then \subseteq EffectivePending(u, now)
        BY DEF EffectivePending, IsPending
    <2>2. Cardinality(EffectivePending(u, now)) <= MaxPending
        BY DEF PendingWithinLimit
    <2> HIDE DEF then
    <2>3. /\ Cardinality(then) <= Cardinality(EffectivePending(u, now))
          /\ Cardinality(then) \in Nat /\ Cardinality(EffectivePending(u, now)) \in Nat
        BY <2>1, FewerPending
    <2>4. Cardinality(then) <= MaxPending
        BY <2>2, <2>3, BoundsAssumption
    <2> QED BY <2>4 DEF then
<1>6. Relationship'
    <2>1. \A m \in matches : m.invitation \in Invitations
        BY DEF IInv, Typed, TypeOK, MatchRow
    <2>2. \A i \in Invitations :
            /\ invitation'[i].status = "ACCEPTED" <=> invitation[i].status = "ACCEPTED"
            /\ invitation'[i].status = "NONE" <=> invitation[i].status = "NONE"
        OBVIOUS
    <2> QED BY SMTT(20), <2>1, <2>2 DEF Relationship, MatchPair
<1> QED BY <1>1, <1>2, <1>3, <1>4, <1>5, <1>6

\* What closing a row writes.
LEMMA CloseRow ==
    ASSUME TypeOK, NEW i \in Invitations, NEW status \in Terminal, NEW at \in Nat
    PROVE  /\ Close(i, status, at).status = status
           /\ Close(i, status, at).closed = at
           /\ Close(i, status, at).sender = invitation[i].sender
           /\ Close(i, status, at).recipient = invitation[i].recipient
           /\ Close(i, status, at).expires = invitation[i].expires
<1>1. invitation[i] \in InvitationRow
    BY DEF TypeOK
<1> QED BY <1>1 DEF Close, InvitationRow

LEMMA RespondOutcomes ==
    ASSUME IInv, Outcomes, NEW i \in Invitations,
           NEW status \in {"DECLINED", "CANCELLED"}, Respond(i, status)
    PROVE  Outcomes'
<1>1. /\ IsPending(i) /\ ~IsDue(i, now)
      /\ invitation' = [invitation EXCEPT ![i] = Close(i, status, now)]
      /\ UNCHANGED <<account, matches, conversations, outbox, request, now>>
    BY DEF Respond
<1>2. now \in Nat /\ invitation[i].expires \in Nat
    BY DEF IInv, Typed, TypeOK, InvitationRow
<1>3. /\ invitation'[i] = Close(i, status, now)
      /\ \A j \in Invitations \ {i} : invitation'[j] = invitation[j]
    BY <1>1 DEF IInv, Typed, TypeOK
<1>4. /\ invitation'[i].status = status /\ invitation'[i].closed = now
      /\ invitation'[i].sender = invitation[i].sender
      /\ invitation'[i].recipient = invitation[i].recipient
      /\ invitation'[i].expires = invitation[i].expires
    BY <1>2, <1>3, CloseRow DEF IInv, Typed, Terminal
<1>5. StampsRespectDeadline'
    <2>1. now < invitation[i].expires
        BY <1>1, <1>2 DEF IsDue
    <2> QED BY <1>3, <1>4, <2>1 DEF Outcomes, StampsRespectDeadline
<1> QED BY <1>1, <1>3, <1>4, <1>5, RowsClose DEF IsPending

LEMMA HideOutcomes ==
    ASSUME IInv, Outcomes, NEW i \in Invitations, Hide(i)
    PROVE  Outcomes'
<1>1. /\ invitation' = [invitation EXCEPT ![i].hidden = TRUE]
      /\ UNCHANGED <<account, matches, conversations, outbox, request, now>>
    BY DEF Hide
<1>2. \A j \in Invitations :
        /\ invitation'[j].status = invitation[j].status
        /\ invitation'[j].sender = invitation[j].sender
        /\ invitation'[j].recipient = invitation[j].recipient
        /\ invitation'[j].expires = invitation[j].expires
        /\ invitation'[j].closed = invitation[j].closed
    BY <1>1 DEF IInv, Typed, TypeOK, InvitationRow
<1>3. StampsRespectDeadline'
    BY <1>2 DEF Outcomes, StampsRespectDeadline
<1> QED BY <1>1, <1>2, <1>3, RowsClose

LEMMA ExpireBatchOutcomes ==
    ASSUME IInv, Outcomes, ExpireBatch
    PROVE  Outcomes'
<1>1. PICK S \in SUBSET {i \in Invitations : IsDue(i, now) /\ RowLockFree(i)} :
        invitation' = [i \in Invitations |->
            IF i \in S THEN Close(i, "EXPIRED", now) ELSE invitation[i]]
    BY DEF ExpireBatch
<1>2. /\ UNCHANGED <<account, matches, conversations, outbox, request, now>>
      /\ now \in Nat
    BY DEF ExpireBatch, IInv, Typed, TypeOK
<1>3. \A i \in S :
        /\ invitation[i].status = "PENDING" /\ invitation[i].expires <= now
        /\ invitation'[i].status = "EXPIRED" /\ invitation'[i].closed = now
        /\ invitation'[i].sender = invitation[i].sender
        /\ invitation'[i].recipient = invitation[i].recipient
        /\ invitation'[i].expires = invitation[i].expires
    <2> SUFFICES ASSUME NEW i \in S
                 PROVE  /\ invitation[i].status = "PENDING"
                        /\ invitation[i].expires <= now
                        /\ invitation'[i].status = "EXPIRED"
                        /\ invitation'[i].closed = now
                        /\ invitation'[i].sender = invitation[i].sender
                        /\ invitation'[i].recipient = invitation[i].recipient
                        /\ invitation'[i].expires = invitation[i].expires
        OBVIOUS
    <2>1. i \in Invitations /\ invitation'[i] = Close(i, "EXPIRED", now)
        BY <1>1
    <2>2. invitation[i].status = "PENDING" /\ invitation[i].expires <= now
        BY <1>1 DEF IsDue, IsPending
    <2> QED BY <1>2, <2>1, <2>2, CloseRow DEF IInv, Typed, Terminal
<1>4. \A i \in Invitations \ S : invitation'[i] = invitation[i]
    BY <1>1
<1>5. StampsRespectDeadline'
    <2>1. \A i \in Invitations : invitation[i].expires \in Nat
        BY DEF IInv, Typed, TypeOK, InvitationRow
    <2> QED BY <1>2, <1>3, <1>4, <2>1 DEF Outcomes, StampsRespectDeadline
<1> QED BY <1>2, <1>3, <1>4, <1>5, RowsClose

-----------------------------------------------------------------------------
(* The two commits.                                                        *)

\* One new row n, and at most one lapsed row that becomes EXPIRED.
LEMMA SendCommitRows ==
    ASSUME IInv, Outcomes, NEW r \in Requests, SendCommit(r), PendingIndexAllows(r)
    PROVE  \E n \in Invitations :
        /\ invitation[n].status = "NONE"
        /\ invitation'[n] = NewInvitation(r)
        /\ outbox' = outbox \union {[type |-> "CREATED", invitation |-> n]}
        /\ \A i \in Invitations \ {n} :
            /\ invitation'[i].sender = invitation[i].sender
            /\ invitation'[i].recipient = invitation[i].recipient
            /\ invitation'[i].expires = invitation[i].expires
            /\ \/ /\ invitation'[i].status = invitation[i].status
                  /\ invitation'[i].closed = invitation[i].closed
               \/ /\ invitation[i].status = "PENDING"
                  /\ invitation'[i].status = "EXPIRED"
                  /\ invitation'[i].closed >= invitation'[i].expires
<1>1. request[r].pc = "checked" /\ request[r].op = "send" /\ request[r].at \in Nat
    BY RunningRequest DEF SendCommit, IInv
<1>2. PICK n \in Invitations :
        /\ invitation[n].status = "NONE"
        /\ invitation' = [i \in Invitations |->
              IF i = n THEN NewInvitation(r)
              ELSE IF i = request[r].invitation
                   THEN Close(i, "EXPIRED", request[r].at)
                   ELSE invitation[i]]
        /\ outbox' = outbox \union {[type |-> "CREATED", invitation |-> n]}
    BY DEF SendCommit
<1>3. ASSUME NEW i \in Invitations \ {n}
      PROVE  /\ invitation'[i].sender = invitation[i].sender
             /\ invitation'[i].recipient = invitation[i].recipient
             /\ invitation'[i].expires = invitation[i].expires
             /\ \/ /\ invitation'[i].status = invitation[i].status
                   /\ invitation'[i].closed = invitation[i].closed
                \/ /\ invitation[i].status = "PENDING"
                   /\ invitation'[i].status = "EXPIRED"
                   /\ invitation'[i].closed >= invitation'[i].expires
    <2>1. CASE i # request[r].invitation
        BY <1>2, <2>1
    <2>2. CASE i = request[r].invitation
        <3>1. invitation'[i] = Close(i, "EXPIRED", request[r].at)
            BY <1>2, <2>2
        <3>2. i # NoInvitation
            BY InvitationsAssumption
        <3>3. invitation[i].expires <= request[r].at
            BY <1>1, <2>2, <3>2 DEF Outcomes, CheckedInTime
        <3>4. invitation[i].status = "PENDING"
            BY <1>1, <2>2, <3>2 DEF IInv, Reliance, CheckedSendHolds, IsPending
        <3>5. invitation[i].expires \in Nat
            BY DEF IInv, Typed, TypeOK, InvitationRow
        <3> QED BY <1>1, <3>1, <3>3, <3>4, <3>5, CloseRow DEF IInv, Typed, Terminal
    <2> QED BY <2>1, <2>2
<1> QED BY <1>2, <1>3

\* Two requests past their checks have different senders.
LEMMA OtherSender ==
    ASSUME IInv, NEW q \in Requests, NEW r \in Requests, q # r,
           request[q].pc = "checked", request[r].pc = "checked"
    PROVE  request[q].sender # request[r].sender
<1>1. UserLocks(q) = Participants(q) /\ UserLocks(r) = Participants(r)
    BY DEF UserLocks
<1> QED BY <1>1 DEF IInv, LocksExclusive, Participants

LEMMA SendCommitOutcomes ==
    ASSUME IInv, Outcomes, NEW r \in Requests, SendCommit(r)
    PROVE  Outcomes'
<1> USE DEF Outcomes
<1>1. /\ request[r].pc = "checked" /\ request[r].op = "send"
      /\ End(r) /\ UNCHANGED <<account, matches, conversations, now>>
    BY DEF SendCommit
<1>2. CASE ~PendingIndexAllows(r)
    BY <1>1, <1>2, EndOutcomes DEF SendCommit, Steady
<1>3. CASE PendingIndexAllows(r)
    <2>1. PICK n \in Invitations :
            /\ invitation[n].status = "NONE"
            /\ invitation'[n] = NewInvitation(r)
            /\ outbox' = outbox \union {[type |-> "CREATED", invitation |-> n]}
            /\ \A i \in Invitations \ {n} :
                /\ invitation'[i].sender = invitation[i].sender
                /\ invitation'[i].recipient = invitation[i].recipient
                /\ invitation'[i].expires = invitation[i].expires
                /\ \/ /\ invitation'[i].status = invitation[i].status
                      /\ invitation'[i].closed = invitation[i].closed
                   \/ /\ invitation[i].status = "PENDING"
                      /\ invitation'[i].status = "EXPIRED"
                      /\ invitation'[i].closed >= invitation'[i].expires
        BY <1>3, SendCommitRows
    <2>2. \A q \in Requests : request'[q] = IF q = r THEN Idle ELSE request[q]
        BY <1>1, EndTyped DEF IInv, Typed
    <2>3. Idle.pc = "idle"
        BY DEF Idle
    <2>4. \A q \in Requests :
            request'[q].pc # "idle" => q # r /\ request'[q] = request[q]
        BY <2>2, <2>3
    <2>5. /\ invitation'[n].status = "PENDING"
          /\ invitation'[n].sender = request[r].sender
        BY <2>1 DEF NewInvitation
    <2>6. /\ ClockInv' /\ SeenOpposite' /\ OppositeTypesWhenFresh'
          /\ AcceptsAsSent'
        <3>1. \A q \in Requests : request[q].pc # "idle" /\ request[q].op = "accept"
                => /\ request[q].invitation \in Invitations
                   /\ request[q].invitation # n
            BY <2>1, RunningRequest DEF IInv
        <3> QED BY <1>1, <2>1, <2>4, <3>1 DEF ClockInv, SeenOpposite,
                   OppositeTypesWhenFresh, AcceptsAsSent
    <2>7. CheckedInTime'
        <3> SUFFICES ASSUME NEW q \in Requests, request'[q].pc = "checked"
                     PROVE  LET i == request'[q].invitation
                            IN  /\ request'[q].op = "accept"
                                      => request'[q].at < invitation'[i].expires
                                /\ request'[q].op = "send" /\ i # NoInvitation
                                      => invitation'[i].expires <= request'[q].at
            BY DEF CheckedInTime
        <3>1. request'[q] = request[q] /\ request[q].pc = "checked"
            BY <2>4
        <3>2. /\ request[q].op = "accept" => request[q].invitation \in Invitations
              /\ request[q].invitation \in Invitations \union {NoInvitation}
              /\ request[q].invitation # n
            BY <2>1, <3>1, RunningRequest DEF IInv, Typed, TypeOK, Request
        <3> QED BY <2>1, <3>1, <3>2 DEF CheckedInTime
    <2>8. CheckedCapacity'
        <3> SUFFICES ASSUME NEW q \in Requests,
                            request'[q].pc = "checked", request'[q].op = "send"
                     PROVE  Cardinality(EffectivePending(request[q].sender,
                                                         request[q].at)') < MaxPending
            BY <2>4 DEF CheckedCapacity
        <3> DEFINE then == EffectivePending(request[q].sender, request[q].at)'
                   before == EffectivePending(request[q].sender, request[q].at)
        <3>1. q # r /\ request'[q] = request[q]
            BY <2>4
        <3>2. request[q].sender # request[r].sender
            BY <1>1, <3>1, OtherSender
        <3>3. then \subseteq before
            BY <2>1, <2>5, <3>1, <3>2 DEF EffectivePending, IsPending
        <3>4. Cardinality(before) < MaxPending
            BY <3>1 DEF CheckedCapacity
        <3> HIDE DEF then
        <3>5. /\ Cardinality(then) <= Cardinality(before)
              /\ Cardinality(then) \in Nat /\ Cardinality(before) \in Nat
            BY <3>3, FewerPending
        <3>6. Cardinality(then) < MaxPending
            BY <3>4, <3>5, BoundsAssumption
        <3> QED BY <3>1, <3>6 DEF then
    <2>9. IsFiniteSet(PendingRows)'
        <3>1. PendingRows' \in SUBSET (PendingRows \cup {n})
            BY <2>1 DEF PendingRows, IsPending
        <3> HIDE DEF PendingRows
        <3>2. IsFiniteSet(PendingRows \cup {n})
            BY FS_AddElement
        <3> QED BY <3>1, <3>2, FS_Subset
    <2>10. StampsRespectDeadline'
        BY <2>1, <2>5 DEF StampsRespectDeadline
    <2>11. PendingWithinLimit'
        <3> SUFFICES ASSUME NEW u \in Users
                     PROVE  Cardinality(EffectivePending(u, now)') <= MaxPending
            BY DEF PendingWithinLimit
        <3> DEFINE then == EffectivePending(u, now)'
        <3>1. CASE u # request[r].sender
            <4>1. then \subseteq EffectivePending(u, now)
                BY <1>1, <2>1, <2>5, <3>1 DEF EffectivePending, IsPending
            <4>2. Cardinality(EffectivePending(u, now)) <= MaxPending
                BY DEF PendingWithinLimit
            <4> HIDE DEF then
            <4>3. /\ Cardinality(then) <= Cardinality(EffectivePending(u, now))
                  /\ Cardinality(then) \in Nat
                  /\ Cardinality(EffectivePending(u, now)) \in Nat
                BY <4>1, FewerPending
            <4>4. Cardinality(then) <= MaxPending
                BY <4>2, <4>3, BoundsAssumption
            <4> QED BY <4>4 DEF then
        <3>2. CASE u = request[r].sender
            <4> DEFINE counted == EffectivePending(u, request[r].at)
            <4>1. request[r].at <= now /\ now \in Nat /\ request[r].at \in Nat
                BY <1>1, RunningRequest DEF ClockInv, IInv, Typed, TypeOK
            <4>2. \A i \in Invitations : invitation[i].expires \in Nat
                BY DEF IInv, Typed, TypeOK, InvitationRow
            <4>3. then \subseteq counted \cup {n}
                BY <1>1, <2>1, <4>1, <4>2 DEF EffectivePending, IsPending
            <4>4. Cardinality(counted) < MaxPending
                BY <1>1, <3>2 DEF CheckedCapacity
            <4>5. IsFiniteSet(counted) /\ Cardinality(counted) \in Nat
                BY FewerPending
            <4> HIDE DEF then, counted
            <4>6. /\ IsFiniteSet(counted \cup {n})
                  /\ Cardinality(counted \cup {n}) \in
                        {Cardinality(counted), Cardinality(counted) + 1}
                BY <4>5, FS_AddElement
            <4>7. /\ Cardinality(then) <= Cardinality(counted \cup {n})
                  /\ Cardinality(then) \in Nat
                BY <4>3, <4>6, FS_Subset, FS_CardinalityType
            <4>8. Cardinality(then) <= MaxPending
                BY <4>4, <4>5, <4>6, <4>7, BoundsAssumption
            <4> QED BY <4>8 DEF then
        <3> QED BY <3>1, <3>2
    <2>12. Relationship'
        <3>1. \A m \in matches :
                m.invitation \in Invitations /\ m.invitation # n
            BY <2>1 DEF Relationship, IInv, Typed, TypeOK, MatchRow
        <3>2. \A i \in Invitations :
                /\ invitation'[i].status = "ACCEPTED" <=> invitation[i].status = "ACCEPTED"
                /\ i # n => (invitation'[i].status = "NONE" <=> invitation[i].status = "NONE")
            BY <2>1, <2>5
        <3>3. \A i \in Invitations :
                /\ [type |-> "ACCEPTED", invitation |-> i] \in outbox'
                     <=> [type |-> "ACCEPTED", invitation |-> i] \in outbox
                /\ [type |-> "CREATED", invitation |-> i] \in outbox'
                     <=> [type |-> "CREATED", invitation |-> i] \in outbox \/ i = n
            BY <2>1
        <3>4. ASSUME NEW i \in Invitations
              PROVE  /\ invitation'[i].status = "ACCEPTED"
                           <=> \E m \in matches : m.invitation = i
                     /\ invitation'[i].status = "ACCEPTED" <=> i \in conversations
                     /\ invitation'[i].status = "ACCEPTED"
                           <=> [type |-> "ACCEPTED", invitation |-> i] \in outbox'
                     /\ invitation'[i].status # "NONE"
                           <=> [type |-> "CREATED", invitation |-> i] \in outbox'
            <4>1. i = n => invitation'[i].status # "NONE"
                BY <2>5
            <4> QED BY <3>2, <3>3, <4>1 DEF Relationship
        <3>5. \A m \in matches : /\ m.one = invitation'[m.invitation].sender
                                 /\ m.two = invitation'[m.invitation].recipient
            BY <2>1, <3>1 DEF Relationship
        <3>6. \A m, k \in matches : MatchPair(m) = MatchPair(k) => m = k
            BY DEF Relationship
        <3> QED BY <1>1, <3>4, <3>5, <3>6 DEF Relationship, MatchPair
    <2> QED BY <2>6, <2>7, <2>8, <2>9, <2>10, <2>11, <2>12
<1> QED BY <1>2, <1>3

\* The accepted row is closed in time, its match is the pair's first, and the
\* types are those the request has seen as far as they are fresh.
LEMMA AcceptCommitOutcomes ==
    ASSUME IInv, Outcomes, NEW r \in Requests, AcceptCommit(r)
    PROVE  Outcomes'
<1> USE DEF Outcomes
<1> DEFINE i == request[r].invitation
<1>1. /\ request[r].pc = "checked" /\ request[r].op = "accept"
      /\ End(r) /\ UNCHANGED <<account, now>>
    BY DEF AcceptCommit
<1>2. CASE ActivePair(Participants(r))
    BY <1>1, <1>2, EndOutcomes DEF AcceptCommit, Activates, Steady
<1>3. CASE ~ActivePair(Participants(r))
    <2>1. /\ invitation' = [invitation EXCEPT ![i] = Close(i, "ACCEPTED", request[r].at)]
          /\ matches' = matches \union {NewMatch(r)}
          /\ conversations' = conversations \union {i}
          /\ outbox' = outbox \union {[type |-> "ACCEPTED", invitation |-> i]}
        BY <1>3 DEF AcceptCommit, Activates, WithConversation
    <2>2. /\ i \in Invitations /\ request[r].at \in Nat
          /\ request[r].sender \in Users /\ request[r].recipient \in Users
        BY <1>1, RunningRequest DEF IInv
    <2>3. /\ invitation[i].status = "PENDING"
          /\ {invitation[i].sender, invitation[i].recipient}
                = {request[r].sender, request[r].recipient}
        BY <1>1, <2>2, OwnPair, InvitationsAssumption
        DEF IInv, Reliance, CheckedAcceptHolds, IsPending, InvitationPair, Participants
    <2>4. /\ invitation'[i] = Close(i, "ACCEPTED", request[r].at)
          /\ \A j \in Invitations \ {i} : invitation'[j] = invitation[j]
        BY <2>1, <2>2 DEF IInv, Typed, TypeOK
    <2>5. /\ invitation'[i].status = "ACCEPTED"
          /\ invitation'[i].closed = request[r].at
          /\ invitation'[i].sender = invitation[i].sender
          /\ invitation'[i].recipient = invitation[i].recipient
          /\ invitation'[i].expires = invitation[i].expires
        BY <2>2, <2>4, CloseRow DEF IInv, Typed, Terminal
    <2>6. \A q \in Requests :
            request'[q].pc # "idle" => q # r /\ request'[q] = request[q]
        BY <1>1, EndTyped DEF IInv, Typed, Idle
    <2>7. ClockInv' /\ SeenOpposite' /\ AcceptsAsSent'
        <3>1. \A q \in Requests : request[q].pc # "idle" /\ request[q].op = "accept"
                => request[q].invitation \in Invitations
            BY RunningRequest DEF IInv
        <3>2. \A j \in Invitations :
                /\ invitation'[j].sender = invitation[j].sender
                /\ invitation'[j].recipient = invitation[j].recipient
            BY <2>4, <2>5
        <3> QED BY <1>1, <2>6, <3>1, <3>2 DEF ClockInv, SeenOpposite, AcceptsAsSent
    <2>8. CheckedInTime'
        <3> SUFFICES ASSUME NEW q \in Requests, request'[q].pc = "checked"
                     PROVE  LET j == request'[q].invitation
                            IN  /\ request'[q].op = "accept"
                                      => request'[q].at < invitation'[j].expires
                                /\ request'[q].op = "send" /\ j # NoInvitation
                                      => invitation'[j].expires <= request'[q].at
            BY DEF CheckedInTime
        <3>1. request'[q] = request[q] /\ request[q].pc = "checked"
            BY <2>6
        <3>2. /\ request[q].op = "accept" => request[q].invitation \in Invitations
              /\ request[q].invitation \in Invitations \union {NoInvitation}
            BY <3>1, RunningRequest DEF IInv, Typed, TypeOK, Request
        <3>3. \A j \in Invitations : invitation'[j].expires = invitation[j].expires
            BY <2>4, <2>5
        <3> QED BY <3>1, <3>2, <3>3 DEF CheckedInTime
    <2>9. /\ \A j \in Invitations :
                invitation'[j].status = "PENDING"
                  => invitation[j].status = "PENDING" /\ invitation'[j] = invitation[j]
        BY <2>4, <2>5
    <2>10. CheckedCapacity'
        <3> SUFFICES ASSUME NEW q \in Requests,
                            request'[q].pc = "checked", request'[q].op = "send"
                     PROVE  Cardinality(EffectivePending(request[q].sender,
                                                         request[q].at)') < MaxPending
            BY <2>6 DEF CheckedCapacity
        <3> DEFINE then == EffectivePending(request[q].sender, request[q].at)'
                   before == EffectivePending(request[q].sender, request[q].at)
        <3>1. q # r /\ request'[q] = request[q]
            BY <2>6
        <3>2. then \subseteq before
            BY <2>9, <3>1 DEF EffectivePending, IsPending
        <3>3. Cardinality(before) < MaxPending
            BY <3>1 DEF CheckedCapacity
        <3> HIDE DEF then
        <3>4. /\ Cardinality(then) <= Cardinality(before)
              /\ Cardinality(then) \in Nat /\ Cardinality(before) \in Nat
            BY <3>2, FewerPending
        <3>5. Cardinality(then) < MaxPending
            BY <3>3, <3>4, BoundsAssumption
        <3> QED BY <3>1, <3>5 DEF then
    <2>11. IsFiniteSet(PendingRows)'
        <3>1. PendingRows' \in SUBSET PendingRows
            BY <2>9 DEF PendingRows, IsPending
        <3> HIDE DEF PendingRows
        <3> QED BY <3>1, FS_Subset
    <2>12. StampsRespectDeadline'
        <3>1. request[r].at < invitation[i].expires
            BY <1>1 DEF CheckedInTime
        <3> QED BY <2>4, <2>5, <3>1 DEF StampsRespectDeadline
    <2>13. PendingWithinLimit'
        <3> SUFFICES ASSUME NEW u \in Users
                     PROVE  Cardinality(EffectivePending(u, now)') <= MaxPending
            BY DEF PendingWithinLimit
        <3> DEFINE then == EffectivePending(u, now)'
        <3>1. then \subseteq EffectivePending(u, now)
            BY <1>1, <2>9 DEF EffectivePending, IsPending
        <3>2. Cardinality(EffectivePending(u, now)) <= MaxPending
            BY DEF PendingWithinLimit
        <3> HIDE DEF then
        <3>3. /\ Cardinality(then) <= Cardinality(EffectivePending(u, now))
              /\ Cardinality(then) \in Nat
              /\ Cardinality(EffectivePending(u, now)) \in Nat
            BY <3>1, FewerPending
        <3>4. Cardinality(then) <= MaxPending
            BY <3>2, <3>3, BoundsAssumption
        <3> QED BY <3>4 DEF then
    <2> DEFINE new == NewMatch(r)
    <2>14. /\ new.one = request[r].sender /\ new.two = request[r].recipient
           /\ new.invitation = i
           /\ new.fresh <=> request[r].seen.type = account[request[r].recipient].type
        BY DEF NewMatch
    <2> HIDE DEF new
    <2>15. OppositeTypesWhenFresh'
        <3>1. request[r].seen.type # account[request[r].sender].type
            BY <1>1 DEF SeenOpposite
        <3>2. new.fresh => account[new.one].type # account[new.two].type
            BY <2>14, <3>1
        <3> QED BY <1>1, <2>1, <3>2 DEF OppositeTypesWhenFresh, new
    <2>16. Relationship'
        <3>1. \A m \in matches : m.invitation \in Invitations /\ m.invitation # i
            BY <2>3 DEF Relationship, IInv, Typed, TypeOK, MatchRow
        <3>2. ASSUME NEW j \in Invitations
              PROVE  /\ invitation'[j].status = "ACCEPTED"
                           <=> \E m \in matches' : m.invitation = j
                     /\ invitation'[j].status = "ACCEPTED" <=> j \in conversations'
                     /\ invitation'[j].status = "ACCEPTED"
                           <=> [type |-> "ACCEPTED", invitation |-> j] \in outbox'
                     /\ invitation'[j].status # "NONE"
                           <=> [type |-> "CREATED", invitation |-> j] \in outbox'
            <4>1. CASE j = i
                BY <2>1, <2>3, <2>5, <2>14, <4>1 DEF Relationship, new
            <4>2. CASE j # i
                <5>1. invitation'[j] = invitation[j]
                    BY <2>4, <4>2
                <5>2. (\E m \in matches' : m.invitation = j)
                        <=> \E m \in matches : m.invitation = j
                    BY <2>1, <2>14, <4>2 DEF new
                <5>3. /\ j \in conversations' <=> j \in conversations
                      /\ [type |-> "ACCEPTED", invitation |-> j] \in outbox'
                           <=> [type |-> "ACCEPTED", invitation |-> j] \in outbox
                      /\ [type |-> "CREATED", invitation |-> j] \in outbox'
                           <=> [type |-> "CREATED", invitation |-> j] \in outbox
                    BY <2>1, <4>2
                <5> QED BY <5>1, <5>2, <5>3 DEF Relationship
            <4> QED BY <4>1, <4>2
        <3>3. \A m \in matches' : /\ m.one = invitation'[m.invitation].sender
                                  /\ m.two = invitation'[m.invitation].recipient
            <4>1. /\ new.one = invitation'[i].sender
                  /\ new.two = invitation'[i].recipient
                BY <1>1, <2>5, <2>14 DEF AcceptsAsSent
            <4>2. \A m \in matches :
                    /\ m.one = invitation'[m.invitation].sender
                    /\ m.two = invitation'[m.invitation].recipient
                BY <2>4, <3>1 DEF Relationship
            <4> QED BY <2>1, <2>14, <4>1, <4>2 DEF new
        <3>4. \A m, k \in matches' : MatchPair(m) = MatchPair(k) => m = k
            <4>1. MatchPair(new) = Participants(r)
                BY <2>14 DEF MatchPair, Participants
            <4>2. \A m \in matches : MatchPair(m) # MatchPair(new)
                BY <1>3, <4>1 DEF ActivePair
            <4> QED BY <2>1, <4>2 DEF Relationship, new
        <3> QED BY <3>2, <3>3, <3>4 DEF Relationship, MatchPair
    <2> QED BY <2>7, <2>8, <2>10, <2>11, <2>12, <2>13, <2>15, <2>16
<1> QED BY <1>2, <1>3

-----------------------------------------------------------------------------
(* Profiles and the clock.                                                 *)

\* A user whose type changes holds no lock and has no buddy.
LEMMA ChangeTypeOutcomes ==
    ASSUME IInv, Outcomes, NEW u \in Users, ChangeType(u)
    PROVE  Outcomes'
<1> USE DEF Outcomes
<1>1. /\ UserUnlocked(u) /\ ~HasActiveMatch(u)
      /\ UNCHANGED <<invitation, matches, conversations, outbox, request, now>>
      /\ \A v \in Users \ {u} : account'[v] = account[v]
    BY DEF ChangeType, IInv, Typed, TypeOK
<1>2. ClockInv' /\ CheckedInTime' /\ CheckedCapacity' /\ AcceptsAsSent'
    BY <1>1 DEF ClockInv, CheckedInTime, CheckedCapacity, EffectivePending, IsPending,
                AcceptsAsSent
<1>3. SeenOpposite'
    <2> SUFFICES ASSUME NEW r \in Requests,
                        request[r].pc \in {"locked", "checked"}, request[r].op = "accept"
                 PROVE  request[r].seen.type # account'[request[r].sender].type
        BY <1>1 DEF SeenOpposite
    <2>1. request[r].sender \in UserLocks(r)
        BY DEF UserLocks, Participants
    <2>2. request[r].sender \in Users /\ request[r].sender # u
        BY <1>1, <2>1, RunningRequest DEF UserUnlocked, IInv
    <2> QED BY <1>1, <2>2 DEF SeenOpposite
<1>4. IsFiniteSet(PendingRows)' /\ PendingWithinLimit' /\ StampsRespectDeadline'
    BY <1>1 DEF PendingRows, PendingWithinLimit, EffectivePending, IsPending,
                StampsRespectDeadline
<1>5. OppositeTypesWhenFresh'
    <2>1. \A m \in matches : /\ m.one \in Users /\ m.two \in Users
                             /\ m.one # u /\ m.two # u
        BY <1>1 DEF IInv, Typed, TypeOK, MatchRow, HasActiveMatch, MatchPair
    <2> QED BY <1>1, <2>1 DEF OppositeTypesWhenFresh
<1>6. Relationship'
    BY <1>1 DEF Relationship, MatchPair
<1> QED BY <1>2, <1>3, <1>4, <1>5, <1>6

LEMMA ChangeReadinessOutcomes ==
    ASSUME IInv, Outcomes, NEW u \in Users, ChangeReadiness(u)
    PROVE  Outcomes'
<1> USE DEF Outcomes
<1>1. /\ UNCHANGED <<invitation, matches, conversations, outbox, request, now>>
      /\ \A v \in Users : account'[v].type = account[v].type
    BY DEF ChangeReadiness, IInv, Typed, TypeOK, Account
<1>2. ClockInv' /\ CheckedInTime' /\ CheckedCapacity' /\ AcceptsAsSent'
    BY <1>1 DEF ClockInv, CheckedInTime, CheckedCapacity, EffectivePending, IsPending,
                AcceptsAsSent
<1>3. SeenOpposite'
    <2>1. \A r \in Requests :
            request[r].pc \in {"locked", "checked"} => request[r].sender \in Users
        BY RunningRequest DEF IInv
    <2> QED BY <1>1, <2>1 DEF SeenOpposite
<1>4. IsFiniteSet(PendingRows)' /\ PendingWithinLimit' /\ StampsRespectDeadline'
    BY <1>1 DEF PendingRows, PendingWithinLimit, EffectivePending, IsPending,
                StampsRespectDeadline
<1>5. OppositeTypesWhenFresh'
    <2>1. \A m \in matches : m.one \in Users /\ m.two \in Users
        BY DEF IInv, Typed, TypeOK, MatchRow
    <2> QED BY <1>1, <2>1 DEF OppositeTypesWhenFresh
<1>6. Relationship'
    BY <1>1 DEF Relationship, MatchPair
<1> QED BY <1>2, <1>3, <1>4, <1>5, <1>6

\* Time only lets invitations lapse.
LEMMA TickOutcomes ==
    ASSUME IInv, Outcomes, Tick
    PROVE  Outcomes'
<1> USE DEF Outcomes
<1>1. /\ now' = now + 1 /\ now \in Nat
      /\ UNCHANGED <<account, invitation, matches, conversations, outbox, request>>
    BY DEF Tick, IInv, Typed, TypeOK
<1>2. ClockInv'
    BY <1>1, RunningRequest DEF ClockInv, IInv
<1>3. /\ CheckedInTime' /\ CheckedCapacity' /\ AcceptsAsSent' /\ SeenOpposite'
      /\ IsFiniteSet(PendingRows)'
    BY <1>1 DEF CheckedInTime, CheckedCapacity, EffectivePending, IsPending,
                AcceptsAsSent, SeenOpposite, PendingRows
<1>4. StampsRespectDeadline' /\ OppositeTypesWhenFresh' /\ Relationship'
    BY <1>1 DEF StampsRespectDeadline, OppositeTypesWhenFresh, Relationship, MatchPair
<1>5. PendingWithinLimit'
    <2> SUFFICES ASSUME NEW u \in Users
                 PROVE  Cardinality(EffectivePending(u, now)') <= MaxPending
        BY DEF PendingWithinLimit
    <2> DEFINE then == EffectivePending(u, now)'
    <2>1. \A i \in Invitations : invitation[i].expires \in Nat
        BY DEF IInv, Typed, TypeOK, InvitationRow
    <2>2. then \subseteq EffectivePending(u, now)
        BY <1>1, <2>1 DEF EffectivePending, IsPending
    <2>3. Cardinality(EffectivePending(u, now)) <= MaxPending
        BY DEF PendingWithinLimit
    <2> HIDE DEF then
    <2>4. /\ Cardinality(then) <= Cardinality(EffectivePending(u, now))
          /\ Cardinality(then) \in Nat /\ Cardinality(EffectivePending(u, now)) \in Nat
        BY <2>2, FewerPending
    <2>5. Cardinality(then) <= MaxPending
        BY <2>3, <2>4, BoundsAssumption
    <2> QED BY <2>5 DEF then
<1> QED BY <1>2, <1>3, <1>4, <1>5

-----------------------------------------------------------------------------
(* The theorems.                                                           *)

LEMMA OutcomesStep == IInv /\ Outcomes /\ [Next]_vars => Outcomes'
<1> SUFFICES ASSUME IInv, Outcomes, [Next]_vars PROVE Outcomes'
    OBVIOUS
<1>1. CASE \E r \in Requests, s \in Users, t \in Users : BeginSend(r, s, t)
    <2>1. PICK r \in Requests, s \in Users, t \in Users : BeginSend(r, s, t)
        BY <1>1
    <2> QED BY <2>1, BeginOutcomes DEF BeginSend, Steady
<1>2. CASE \E r \in Requests, i \in Invitations : BeginAccept(r, i)
    <2>1. PICK r \in Requests, i \in Invitations : BeginAccept(r, i)
        BY <1>2
    <2> QED BY <2>1, BeginOutcomes DEF BeginAccept, Steady
<1>3. CASE \E r \in Requests : LockFirstUser(r)
    BY <1>3, LockFirstOutcomes
<1>4. CASE \E r \in Requests : LockSecondUser(r)
    BY <1>4, LockSecondOutcomes
<1>5. CASE \E r \in Requests : SendCheck(r)
    BY <1>5, SendCheckOutcomes
<1>6. CASE \E r \in Requests : SendCommit(r)
    BY <1>6, SendCommitOutcomes
<1>7. CASE \E r \in Requests : AcceptCheck(r)
    BY <1>7, AcceptCheckOutcomes
<1>8. CASE \E r \in Requests : AcceptCommit(r)
    BY <1>8, AcceptCommitOutcomes
<1>9. CASE \E r \in Requests : Abort(r)
    BY <1>9, EndOutcomes DEF Abort, Steady
<1>10. CASE \E i \in Invitations : Decline(i) \/ Cancel(i)
    BY <1>10, RespondOutcomes DEF Decline, Cancel
<1>11. CASE \E i \in Invitations : Hide(i)
    BY <1>11, HideOutcomes
<1>12. CASE ExpireBatch
    BY <1>12, ExpireBatchOutcomes
<1>13. CASE \E u \in Editors : ChangeType(u)
    BY <1>13, ChangeTypeOutcomes, BoundsAssumption
<1>14. CASE \E u \in Editors : ChangeReadiness(u)
    BY <1>14, ChangeReadinessOutcomes, BoundsAssumption
<1>15. CASE Tick
    BY <1>15, TickOutcomes
<1>16. CASE UNCHANGED vars
    BY <1>16 DEF vars, Outcomes, ClockInv, CheckedInTime, CheckedCapacity, SeenOpposite,
        AcceptsAsSent, PendingRows, PendingWithinLimit, EffectivePending, IsPending,
        StampsRespectDeadline, OppositeTypesWhenFresh, Relationship, MatchPair
<1> QED BY <1>1, <1>2, <1>3, <1>4, <1>5, <1>6, <1>7, <1>8, <1>9, <1>10, <1>11, <1>12,
           <1>13, <1>14, <1>15, <1>16 DEF Next

LEMMA OutcomesHold == Spec => []Outcomes
BY InitOutcomes, OutcomesStep, InvariantHolds, PTL DEF Spec

\* An answer is stamped before the deadline and an expiry at or after it, even
\* when the request waited for its locks across the deadline.
THEOREM StampsRespectDeadlineHolds == Spec => []StampsRespectDeadline
<1>1. Outcomes => StampsRespectDeadline
    BY DEF Outcomes
<1> QED BY <1>1, OutcomesHold, PTL

\* A sender never has more than MaxPending invitations that can be answered,
\* however many of his sends run at once: each counts while it holds his row,
\* and what it counted can only shrink until it commits.
THEOREM PendingWithinLimitHolds == Spec => []PendingWithinLimit
<1>1. Outcomes => PendingWithinLimit
    BY DEF Outcomes
<1> QED BY <1>1, OutcomesHold, PTL

\* Buddies have opposite types at all times, unless the acceptor changed his
\* own type between the authentication and the locks of his accept.
THEOREM OppositeTypesWhenFreshHolds == Spec => []OppositeTypesWhenFresh
<1>1. Outcomes => OppositeTypesWhenFresh
    BY DEF Outcomes
<1> QED BY <1>1, OutcomesHold, PTL

\* Match, conversation and both emails are exactly those of the accepted
\* invitation, and a pair has one match at most.
THEOREM RelationshipCompleteHolds == Spec => []RelationshipComplete
<1>1. ASSUME Outcomes PROVE RelationshipComplete
    <2>1. ASSUME NEW i \in Invitations
          PROVE  LET own == {m \in matches : m.invitation = i}
                 IN  /\ (\E m \in matches : m.invitation = i) <=> Cardinality(own) = 1
                     /\ \A m \in own : /\ m.one = invitation[i].sender
                                        /\ m.two = invitation[i].recipient
        <3> DEFINE own == {m \in matches : m.invitation = i}
        <3>1. \A m \in own : /\ m.one = invitation[i].sender
                              /\ m.two = invitation[i].recipient
            BY <1>1 DEF Outcomes, Relationship
        <3>2. CASE \E m \in matches : m.invitation = i
            <4>1. PICK m \in matches : m.invitation = i
                BY <3>2
            <4>2. own = {m}
                BY <1>1, <3>1, <4>1 DEF Outcomes, Relationship, MatchPair
            <4> HIDE DEF own
            <4>3. Cardinality(own) = 1
                BY <4>2, FS_Singleton
            <4> QED BY <3>1, <3>2, <4>3 DEF own
        <3>3. CASE ~\E m \in matches : m.invitation = i
            <4>1. own = {}
                BY <3>3
            <4> HIDE DEF own
            <4>2. Cardinality(own) = 0
                BY <4>1, FS_EmptySet
            <4> QED BY <3>1, <3>3, <4>2 DEF own
        <3> QED BY <3>2, <3>3
    <2> QED BY <1>1, <2>1 DEF Outcomes, Relationship, RelationshipComplete
<1> QED BY <1>1, OutcomesHold, PTL

-----------------------------------------------------------------------------
(* The lists and the counts of MatchingReads.                              *)

\* The rows that have been inserted can be counted: a step inserts one at most.
Inserted == {i \in Invitations : invitation[i].status # "NONE"}

LEMMA InsertedStep == IInv /\ IsFiniteSet(Inserted) /\ [Next]_vars => IsFiniteSet(Inserted)'
<1> SUFFICES ASSUME IInv, IsFiniteSet(Inserted), [Next]_vars PROVE IsFiniteSet(Inserted)'
    OBVIOUS
<1>1. ASSUME NEW n,
             \A i \in Invitations : invitation[i].status = "NONE" /\ i # n
                                      => invitation'[i].status = "NONE"
      PROVE  IsFiniteSet(Inserted)'
    <2>1. Inserted' \in SUBSET (Inserted \cup {n})
        BY <1>1 DEF Inserted
    <2>2. IsFiniteSet(Inserted \cup {n})
        BY FS_AddElement
    <2> QED BY <2>1, <2>2, FS_Subset
<1>2. CASE UNCHANGED invitation
    BY <1>1, <1>2
<1>3. ASSUME NEW r \in Requests, SendCommit(r) PROVE IsFiniteSet(Inserted)'
    <2>1. CASE PendingIndexAllows(r)
        <3>1. PICK n \in Invitations :
                invitation' = [i \in Invitations |->
                    IF i = n THEN NewInvitation(r)
                    ELSE IF i = request[r].invitation
                         THEN Close(i, "EXPIRED", request[r].at)
                         ELSE invitation[i]]
            BY <1>3, <2>1 DEF SendCommit
        <3>2. request[r].invitation \in Invitations => IsPending(request[r].invitation)
            BY <1>3, InvitationsAssumption DEF SendCommit, IInv, Reliance, CheckedSendHolds
        <3>3. ASSUME NEW i \in Invitations, invitation[i].status = "NONE", i # n
              PROVE  invitation'[i].status = "NONE"
            BY <3>1, <3>2, <3>3 DEF IsPending
        <3> QED BY <1>1, <3>3
    <2>2. CASE ~PendingIndexAllows(r)
        BY <1>2, <1>3, <2>2 DEF SendCommit
    <2> QED BY <2>1, <2>2
<1>4. ASSUME NEW k, invitation[k].status # "NONE" \/ k \notin Invitations, NEW v,
             invitation' = [invitation EXCEPT ![k] = v]
      PROVE  IsFiniteSet(Inserted)'
    <2>1. ASSUME NEW i \in Invitations, invitation[i].status = "NONE"
          PROVE  invitation'[i].status = "NONE"
        BY <1>4, <2>1 DEF IInv, Typed, TypeOK
    <2> QED BY <1>1, <2>1
<1>5. ASSUME NEW r \in Requests, AcceptCommit(r) PROVE IsFiniteSet(Inserted)'
    <2>1. invitation[request[r].invitation].status # "NONE"
        BY <1>5 DEF AcceptCommit, IInv, Reliance, CheckedAcceptHolds, IsPending
    <2> QED BY <1>2, <1>4, <1>5, <2>1 DEF AcceptCommit
<1>6. ASSUME NEW i \in Invitations, Decline(i) \/ Cancel(i) PROVE IsFiniteSet(Inserted)'
    <2>1. invitation[i].status # "NONE"
        BY <1>6 DEF Decline, Cancel, Respond, IsPending
    <2> QED BY <1>4, <1>6, <2>1 DEF Decline, Cancel, Respond
<1>7. ASSUME NEW i \in Invitations, Hide(i) PROVE IsFiniteSet(Inserted)'
    <2>1. invitation[i].status # "NONE"
        BY <1>7 DEF Hide
    <2>2. \E v : invitation' = [invitation EXCEPT ![i] = v]
        BY <1>7 DEF Hide
    <2> QED BY <1>4, <2>1, <2>2
<1>8. CASE ExpireBatch
    <2>1. PICK S : /\ \A i \in S : IsPending(i)
                   /\ invitation' = [i \in Invitations |->
                        IF i \in S THEN Close(i, "EXPIRED", now) ELSE invitation[i]]
        BY <1>8 DEF ExpireBatch, IsDue
    <2>2. ASSUME NEW i \in Invitations, invitation[i].status = "NONE"
          PROVE  invitation'[i].status = "NONE"
        BY <2>1, <2>2 DEF IsPending
    <2> QED BY <1>1, <2>2
<1>9. CASE \/ \E r \in Requests, s \in Users, t \in Users : BeginSend(r, s, t)
           \/ \E r \in Requests, i \in Invitations : BeginAccept(r, i)
           \/ \E r \in Requests : \/ LockFirstUser(r) \/ LockSecondUser(r) \/ SendCheck(r)
                                  \/ AcceptCheck(r) \/ Abort(r)
           \/ \E u \in Editors : ChangeType(u) \/ ChangeReadiness(u)
           \/ Tick \/ UNCHANGED vars
    BY <1>2, <1>9 DEF BeginSend, BeginAccept, LockFirstUser, LockSecondUser, SendCheck,
        AcceptCheck, Abort, ChangeType, ChangeReadiness, Tick, vars
<1> QED BY <1>3, <1>5, <1>6, <1>7, <1>8, <1>9 DEF Next

LEMMA InsertedFinite == Spec => []IsFiniteSet(Inserted)
<1>1. Init => IsFiniteSet(Inserted)
    <2>1. Init => Inserted = {}
        BY DEF Init, NoRow, Inserted
    <2> QED BY <2>1, FS_EmptySet
<1> QED BY <1>1, InsertedStep, InvariantHolds, PTL DEF Spec

\* Counting, by sets that are apart and by rows that stand for one another.
LEMMA ApartCount ==
    ASSUME NEW S, NEW T, IsFiniteSet(S), IsFiniteSet(T), S \cap T = {}
    PROVE  /\ IsFiniteSet(S \cup T)
           /\ Cardinality(S \cup T) = Cardinality(S) + Cardinality(T)
           /\ Cardinality(S) \in Nat /\ Cardinality(T) \in Nat
<1>1. Cardinality(S \cap T) = 0
    BY FS_EmptySet
<1>2. Cardinality(S) \in Nat /\ Cardinality(T) \in Nat
    BY FS_CardinalityType
<1>3. /\ IsFiniteSet(S \cup T)
      /\ Cardinality(S \cup T) = Cardinality(S) + Cardinality(T) - Cardinality(S \cap T)
    BY FS_Union
<1> QED BY <1>1, <1>2, <1>3

LEMMA SameCount ==
    ASSUME NEW S, NEW T, IsFiniteSet(S), NEW f,
           f \in [S -> T], \A t \in T : \E s \in S : f[s] = t,
           \A a, b \in S : f[a] = f[b] => a = b
    PROVE  IsFiniteSet(T) /\ Cardinality(T) = Cardinality(S)
<1>1. f \in Injection(S, T)
    BY DEF Injection, IsInjective
<1>2. f \in Surjection(S, T)
    BY DEF Surjection
<1>3. ExistsBijection(S, T)
    BY <1>1, <1>2 DEF Bijection, ExistsBijection
<1> QED BY <1>3, FS_Bijection

\* A match is of the two different users of its accepted invitation.
LEMMA MatchUsers ==
    ASSUME IInv, Outcomes, NEW m \in matches
    PROVE  /\ m.invitation \in Invitations /\ m.invitation \in conversations
           /\ invitation[m.invitation].status = "ACCEPTED"
           /\ m.one = invitation[m.invitation].sender
           /\ m.two = invitation[m.invitation].recipient
           /\ m.one \in Users /\ m.two \in Users /\ m.one # m.two
<1>1. m.invitation \in Invitations
    BY DEF IInv, Typed, TypeOK, MatchRow
<1>2. /\ invitation[m.invitation].status = "ACCEPTED" /\ m.invitation \in conversations
      /\ m.one = invitation[m.invitation].sender
      /\ m.two = invitation[m.invitation].recipient
    BY <1>1 DEF Outcomes, Relationship
<1> QED BY <1>1, <1>2 DEF IInv, Typed, RowShape

LEMMA OneInPlace == ASSUME IInv, Outcomes PROVE OnePlace
<1> SUFFICES ASSUME NEW u \in Users, NEW v \in Users \ {u}
             PROVE  LET with(rows) == {x \in rows : x.participant = v}
                        open == {x \in with(Incoming(u)) \union with(Sent(u)) :
                                    x.status = "PENDING"}
                        buddies(w) == {m \in CurrentBuddies(w) :
                                         OtherParticipant(m, w) \in {u, v}}
                    IN  /\ Cardinality(open) + Cardinality(buddies(u)) <= 1
                        /\ buddies(u) = buddies(v)
                        /\ \A m \in buddies(u) : Readable(m)
                        /\ \A x \in with(Sent(u)) : x.status = "ACCEPTED" =>
                             /\ buddies(u) # {}
                             /\ \E done \in CompletedResult(x.id) : done.match \in buddies(v)
    BY DEF OnePlace
<1> DEFINE with(rows) == {x \in rows : x.participant = v}
           open == {x \in with(Incoming(u)) \union with(Sent(u)) : x.status = "PENDING"}
           buddies(w) == {m \in CurrentBuddies(w) : OtherParticipant(m, w) \in {u, v}}
           ours == {m \in matches : MatchPair(m) = {u, v}}
\* The buddies of either are the matches of the two.
<1>1. buddies(u) = ours /\ buddies(v) = ours
    <2>1. ASSUME NEW m \in matches
          PROVE  /\ m \in buddies(u) <=> MatchPair(m) = {u, v}
                 /\ m \in buddies(v) <=> MatchPair(m) = {u, v}
        <3>1. m.one # m.two
            BY MatchUsers
        <3>2. /\ m \in buddies(u) <=> /\ u \in {m.one, m.two}
                                      /\ (IF m.one = u THEN m.two ELSE m.one) \in {u, v}
              /\ m \in buddies(v) <=> /\ v \in {m.one, m.two}
                                      /\ (IF m.one = v THEN m.two ELSE m.one) \in {u, v}
            BY DEF CurrentBuddies, MatchPair, OtherParticipant
        <3> QED BY <3>1, <3>2 DEF MatchPair
    <2> QED BY <2>1 DEF CurrentBuddies
<1>2. ASSUME NEW x \in open
      PROVE  \E i \in Invitations : /\ IsPending(i) /\ InvitationPair(i) = {u, v}
                                    /\ x = [id |-> i, status |-> "PENDING", participant |-> v]
    <2>1. PICK view \in {"incoming", "sent"} :
            x \in InvitationRows(view, u) /\ x.participant = v /\ x.status = "PENDING"
        BY DEF Incoming, Sent
    <2>2. PICK i \in Visible(view, u) :
            x = [id |-> i, status |-> invitation[i].status,
                 participant |-> IF view = "incoming" THEN invitation[i].sender
                                                      ELSE invitation[i].recipient]
        BY <2>1 DEF InvitationRows
    <2>3. invitation[i].status = "PENDING" /\ i \in Invitations
        BY <2>1, <2>2 DEF Visible
    <2>4. CASE view = "incoming"
        <3>1. invitation[i].recipient = u /\ invitation[i].sender = v
            BY <2>1, <2>2, <2>4 DEF Visible
        <3> QED BY <2>2, <2>3, <2>4, <3>1 DEF IsPending, InvitationPair
    <2>5. CASE view = "sent"
        <3>1. invitation[i].sender = u /\ invitation[i].recipient = v
            BY <2>1, <2>2, <2>5 DEF Visible
        <3> QED BY <2>2, <2>3, <2>5, <3>1 DEF IsPending, InvitationPair
    <2> QED BY <2>4, <2>5
<1> HIDE DEF open
<1>3. Cardinality(open) + Cardinality(ours) <= 1
    <2>1. CASE ours # {}
        <3>1. PICK m : m \in ours
            BY <2>1
        <3>2. ours = {m}
            BY ZenonT(40), <3>1 DEF Outcomes, Relationship
        <3>3. open = {}
            BY <1>2, <3>1 DEF IInv, Reliance, NoPendingBesideMatch, ActivePair
        <3> HIDE DEF ours
        <3>4. Cardinality(ours) = 1 /\ Cardinality(open) = 0
            BY <3>2, <3>3, FS_EmptySet, FS_Singleton
        <3> QED BY <3>4
    <2>2. CASE ours = {}
        <3> HIDE DEF ours
        <3>1. Cardinality(ours) = 0
            BY <2>2, FS_EmptySet
        <3>2. \A x, y \in open : x = y
            BY <1>2 DEF IInv, Reliance, OnePendingPerPair
        <3>3. open = {} \/ \E x : open = {x}
            BY <3>2
        <3>4. Cardinality(open) \in {0, 1}
            BY <3>3, FS_EmptySet, FS_Singleton
        <3> QED BY <3>1, <3>4
    <2> QED BY <2>1, <2>2
<1>4. \A m \in ours : Readable(m)
    BY MatchUsers DEF Readable
<1>5. ASSUME NEW x \in with(Sent(u)), x.status = "ACCEPTED"
      PROVE  \E done \in CompletedResult(x.id) : done.match \in ours
    <2>1. PICK i \in Visible("sent", u) :
            x = [id |-> i, status |-> invitation[i].status,
                 participant |-> invitation[i].recipient]
        BY DEF Sent, InvitationRows
    <2>2. /\ i \in Invitations /\ invitation[i].sender = u /\ invitation[i].recipient = v
          /\ invitation[i].status = "ACCEPTED" /\ x.id = i
        BY <1>5, <2>1 DEF Visible
    <2>3. PICK m \in matches : m.invitation = i
        BY <2>2 DEF Outcomes, Relationship
    <2>4. m \in ours /\ i \in conversations
        BY <2>2, <2>3, MatchUsers DEF MatchPair
    <2>5. [invitation |-> i, match |-> m] \in CompletedResult(x.id)
        BY <2>2, <2>3, <2>4 DEF CompletedResult
    <2>6. [invitation |-> i, match |-> m].match = m
        OBVIOUS
    <2> QED BY <2>4, <2>5, <2>6
<1>6. \A x \in with(Sent(u)) : x.status = "ACCEPTED" => ours # {}
    BY <1>5
<1> QED BY <1>1, <1>3, <1>4, <1>5, <1>6 DEF open

\* Every invitation is counted under the one status it has at this moment.
LEMMA CountedOnce ==
    ASSUME IInv, IsFiniteSet(Inserted)
    PROVE  LET n(s) == Cardinality(CountedAs(s))
           IN  /\ n("PENDING") + n("ACCEPTED") + n("DECLINED") + n("CANCELLED") + n("EXPIRED")
                    = Cardinality(Inserted)
               /\ IsFiniteSet(CountedAs("PENDING")) /\ IsFiniteSet(CountedAs("ACCEPTED"))
<1> DEFINE status(s) == {i \in Invitations : invitation[i].status = s}
<1>1. PICK p, a, d, c, e :
        /\ p = CountedAs("PENDING") /\ a = CountedAs("ACCEPTED")
        /\ d = CountedAs("DECLINED") /\ c = CountedAs("CANCELLED")
        /\ e = CountedAs("EXPIRED")
    OBVIOUS
<1>2. /\ p = {i \in Invitations : EffectivelyPending(i)}
      /\ a = status("ACCEPTED") /\ d = status("DECLINED") /\ c = status("CANCELLED")
      /\ e = {i \in Invitations : invitation[i].status = "EXPIRED" \/ IsDue(i, now)}
    BY <1>1 DEF CountedAs
<1>3. ASSUME NEW i \in Invitations
      PROVE  /\ invitation[i].status \in Terminal \cup {"PENDING", "NONE"}
             /\ invitation[i].expires \in Nat /\ now \in Nat
    BY DEF IInv, Typed, TypeOK, InvitationRow
<1>4. p \cup a \cup d \cup c \cup e = Inserted
    BY <1>2, <1>3 DEF Inserted, EffectivelyPending, IsDue, IsPending, Terminal
<1>5. /\ p \cap a = {} /\ (p \cup a) \cap d = {} /\ (p \cup a \cup d) \cap c = {}
      /\ (p \cup a \cup d \cup c) \cap e = {}
    BY <1>2, <1>3 DEF EffectivelyPending, IsDue, IsPending
<1>6. IsFiniteSet(p) /\ IsFiniteSet(a) /\ IsFiniteSet(d) /\ IsFiniteSet(c) /\ IsFiniteSet(e)
    <2>1. /\ p \in SUBSET Inserted /\ a \in SUBSET Inserted /\ d \in SUBSET Inserted
          /\ c \in SUBSET Inserted /\ e \in SUBSET Inserted
        BY <1>4
    <2> QED BY <2>1, FS_Subset
<1>7. /\ IsFiniteSet(p \cup a) /\ Cardinality(p \cup a) = Cardinality(p) + Cardinality(a)
    BY <1>5, <1>6, ApartCount
<1>8. /\ IsFiniteSet(p \cup a \cup d)
      /\ Cardinality(p \cup a \cup d) = Cardinality(p \cup a) + Cardinality(d)
    BY <1>5, <1>6, <1>7, ApartCount
<1>9. /\ IsFiniteSet(p \cup a \cup d \cup c)
      /\ Cardinality(p \cup a \cup d \cup c) = Cardinality(p \cup a \cup d) + Cardinality(c)
    BY <1>5, <1>6, <1>8, ApartCount
<1>10. Cardinality(Inserted) = Cardinality(p \cup a \cup d \cup c) + Cardinality(e)
    BY <1>4, <1>5, <1>6, <1>9, ApartCount
<1> QED BY <1>1, <1>6, <1>7, <1>8, <1>9, <1>10

\* A pending invitation is one row of one user's list of those received.
LEMMA PendingListed ==
    ASSUME IInv, IsFiniteSet(CountedAs("PENDING"))
    PROVE  Cardinality(CountedAs("PENDING")) = Cardinality(UNION {Incoming(u) : u \in Users})
<1> DEFINE P == CountedAs("PENDING")
           L == UNION {Incoming(u) : u \in Users}
           f == [i \in P |-> [id |-> i, status |-> invitation[i].status,
                              participant |-> invitation[i].sender]]
<1>1. P = {i \in Invitations : EffectivelyPending(i)}
    BY DEF CountedAs
<1>2. ASSUME NEW i \in P PROVE f[i] \in L
    <2>1. invitation[i].recipient \in Users /\ i \in Visible("incoming", invitation[i].recipient)
        BY <1>1 DEF Visible, EffectivelyPending, IsPending, IInv, Typed, RowShape
    <2>2. f[i] \in Incoming(invitation[i].recipient)
        BY <2>1 DEF Incoming, InvitationRows
    <2> QED BY <2>1, <2>2
<1>3. ASSUME NEW x \in L PROVE \E i \in P : f[i] = x
    <2>1. PICK u \in Users : x \in Incoming(u)
        OBVIOUS
    <2>2. PICK i \in Visible("incoming", u) :
            x = [id |-> i, status |-> invitation[i].status, participant |-> invitation[i].sender]
        BY <2>1 DEF Incoming, InvitationRows
    <2>3. i \in P
        BY <1>1 DEF Visible
    <2> QED BY <2>2, <2>3
<1>4. ASSUME NEW i \in P, NEW j \in P, f[i] = f[j] PROVE i = j
    <2>1. f[i].id = i /\ f[j].id = j
        OBVIOUS
    <2> QED BY <1>4, <2>1
<1>5. f \in [P -> L]
    BY <1>2
<1> HIDE DEF P, L, f
<1>6. Cardinality(L) = Cardinality(P)
    BY <1>3, <1>4, <1>5, SameCount DEF P
<1> QED BY <1>6 DEF P, L

\* Accepted invitations and matches are as many, and can be counted.
LEMMA AcceptedMatched ==
    ASSUME IInv, Outcomes, IsFiniteSet(CountedAs("ACCEPTED"))
    PROVE  IsFiniteSet(matches) /\ Cardinality(CountedAs("ACCEPTED")) = Cardinality(matches)
<1> DEFINE A == CountedAs("ACCEPTED")
           g == [m \in matches |-> m.invitation]
<1>1. A = {i \in Invitations : invitation[i].status = "ACCEPTED"}
    BY DEF CountedAs
<1>2. ASSUME NEW m \in matches PROVE g[m] \in A
    BY <1>1, MatchUsers
<1>3. ASSUME NEW i \in A PROVE \E m \in matches : g[m] = i
    BY <1>1 DEF Outcomes, Relationship
<1>4. ASSUME NEW m \in matches, NEW n \in matches, g[m] = g[n] PROVE m = n
    <2>1. m.one = n.one /\ m.two = n.two
        BY <1>4, MatchUsers
    <2> QED BY <2>1 DEF Outcomes, Relationship, MatchPair
<1>5. g \in [matches -> A]
    BY <1>2
<1> HIDE DEF A, g
<1>6. g \in Injection(matches, A)
    BY <1>4, <1>5 DEF Injection, IsInjective
<1>7. g \in Surjection(matches, A)
    BY <1>3, <1>5 DEF Surjection
<1> QED BY <1>6, <1>7, FS_Injection DEF A

\* The two columns of matches add up to the list of current buddies.
LEMMA BuddiesCounted ==
    ASSUME IInv, Outcomes, IsFiniteSet(matches), NEW u \in Users
    PROVE  /\ BuddyCount(u) = Cardinality(CurrentBuddies(u))
           /\ IsFiniteSet(CurrentBuddies(u))
<1>1. PICK S, T : S = {m \in matches : m.one = u} /\ T = {m \in matches : m.two = u}
    OBVIOUS
<1>2. S \in SUBSET matches /\ T \in SUBSET matches
    BY <1>1
<1>3. IsFiniteSet(S) /\ IsFiniteSet(T)
    BY <1>2, FS_Subset
<1>4. S \cap T = {}
    BY <1>1, MatchUsers
<1>5. S \cup T = CurrentBuddies(u)
    BY <1>1 DEF CurrentBuddies, MatchPair
<1>6. BuddyCount(u) = Cardinality(S) + Cardinality(T)
    BY <1>1 DEF BuddyCount
<1>7. IsFiniteSet(S \cup T) /\ Cardinality(S \cup T) = Cardinality(S) + Cardinality(T)
    BY <1>3, <1>4, ApartCount
<1> QED BY <1>5, <1>6, <1>7

\* The participants listed as without a buddy are as many as the page counts.
LEMMA ZeroBuddiesListed ==
    Cardinality({u \in Users : BuddyCount(u) = 0}) = Cardinality(ListedParticipants("any", TRUE))
<1> DEFINE Z == {u \in Users : BuddyCount(u) = 0}
           row(u) == [user |-> u, type |-> account[u].type, buddies |-> BuddyCount(u)]
           L == {row(u) : u \in Z}
           f == [u \in Z |-> row(u)]
<1>1. ListedParticipants("any", TRUE) = L
    BY DEF ListedParticipants
<1>2. IsFiniteSet(Z)
    <2>1. Z \in SUBSET Users
        OBVIOUS
    <2> QED BY <2>1, FS_Subset, UsersAssumption
<1>3. ASSUME NEW u \in Z, NEW v \in Z, f[u] = f[v] PROVE u = v
    <2>1. row(u).user = u /\ row(v).user = v
        OBVIOUS
    <2> QED BY <1>3, <2>1
<1>4. f \in [Z -> L] /\ \A x \in L : \E u \in Z : f[u] = x
    OBVIOUS
<1> HIDE DEF Z, L, f
<1>5. Cardinality(L) = Cardinality(Z)
    BY <1>2, <1>3, <1>4, SameCount
<1> QED BY <1>1, <1>5 DEF Z

LEMMA CountsOnThePage == ASSUME IInv, Outcomes, IsFiniteSet(Inserted) PROVE CountsAgree
<1>1. MatchingStats.invitations
        = [s \in Terminal \union {"PENDING"} |-> Cardinality(CountedAs(s))]
    BY DEF MatchingStats
<1>2. /\ MatchingStats.matches = Cardinality(matches)
      /\ MatchingStats.zeroBuddies = Cardinality({u \in Users : BuddyCount(u) = 0})
    BY DEF MatchingStats
<1>3. \A s \in {"PENDING", "ACCEPTED", "DECLINED", "CANCELLED", "EXPIRED"} :
        MatchingStats.invitations[s] = Cardinality(CountedAs(s))
    BY <1>1 DEF Terminal
<1>4. IsFiniteSet(CountedAs("PENDING")) /\ IsFiniteSet(CountedAs("ACCEPTED"))
    BY CountedOnce
<1>5. IsFiniteSet(matches) /\ Cardinality(CountedAs("ACCEPTED")) = Cardinality(matches)
    BY <1>4, AcceptedMatched
<1>6. ASSUME NEW p \in ListedParticipants("any", FALSE)
      PROVE  p.buddies = Cardinality(CurrentBuddies(p.user))
    <2>1. PICK u \in Users :
            p = [user |-> u, type |-> account[u].type, buddies |-> BuddyCount(u)]
        BY DEF ListedParticipants
    <2>2. p.user = u /\ p.buddies = BuddyCount(u)
        BY <2>1
    <2> QED BY <1>5, <2>2, BuddiesCounted
<1>7. ASSUME NEW p \in ListedParticipants("any", TRUE)
      PROVE  CurrentBuddies(p.user) = {}
    <2>1. PICK u \in Users :
            /\ p = [user |-> u, type |-> account[u].type, buddies |-> BuddyCount(u)]
            /\ BuddyCount(u) = 0
        BY DEF ListedParticipants
    <2>2. p.user = u
        BY <2>1
    <2>3. Cardinality(CurrentBuddies(u)) = 0 /\ IsFiniteSet(CurrentBuddies(u))
        BY <1>5, <2>1, BuddiesCounted
    <2> QED BY <2>2, <2>3, FS_EmptySet
<1>8. /\ Cardinality(CountedAs("PENDING")) + Cardinality(CountedAs("ACCEPTED"))
           + Cardinality(CountedAs("DECLINED")) + Cardinality(CountedAs("CANCELLED"))
           + Cardinality(CountedAs("EXPIRED"))
           = Cardinality({i \in Invitations : invitation[i].status # "NONE"})
      /\ Cardinality(CountedAs("PENDING")) = Cardinality(UNION {Incoming(u) : u \in Users})
    BY <1>4, CountedOnce, PendingListed DEF Inserted
<1> QED BY <1>2, <1>3, <1>5, <1>6, <1>7, <1>8, ZeroBuddiesListed DEF CountsAgree

\* The matching page shows both users of a pair the same, in one place, and
\* the administrator's page counts what they see: the lists are queries over
\* three tables that only the locks of send and accept keep together.
THEOREM ListsAgreeHolds == Spec => []ListsAgree
<1>1. IInv /\ Outcomes /\ IsFiniteSet(Inserted) => ListsAgree
    BY OneInPlace, CountsOnThePage DEF ListsAgree
<1> QED BY <1>1, InvariantHolds, OutcomesHold, InsertedFinite, PTL

-----------------------------------------------------------------------------
(* Matching implements BuddyRelation, for every instance: under RelationOf *)
(* each of its steps proposes, lapses, consents, or changes nothing.  That *)
(* a pair has a well-defined relation at all is the invariant:             *)
(* one pending row at most, and none beside a match.                       *)

relation == [p \in Pairs |-> RelationOf(p)]

Disciplined == RowShape /\ OnePendingPerPair

-----------------------------------------------------------------------------
(* The relation of one pair.                                               *)

\* What RelationOf says, without its choice of a row: a pair's pending rows
\* are one row.
Values ==
    \A p \in Pairs :
        /\ ActivePair(p) => RelationOf(p) = [state |-> "buddies", by |-> Nobody]
        /\ ~ActivePair(p) => \A i \in PendingOf(p) :
              RelationOf(p) = [state |-> "proposed", by |-> invitation[i].sender]
        /\ ~ActivePair(p) /\ PendingOf(p) = {} =>
              RelationOf(p) = [state |-> "none", by |-> Nobody]

LEMMA RelationValues == Disciplined => Values
<1> SUFFICES ASSUME Disciplined, NEW p \in Pairs
             PROVE  /\ ActivePair(p) =>
                         RelationOf(p) = [state |-> "buddies", by |-> Nobody]
                    /\ ~ActivePair(p) => \A i \in PendingOf(p) :
                         RelationOf(p) =
                            [state |-> "proposed", by |-> invitation[i].sender]
                    /\ ~ActivePair(p) /\ PendingOf(p) = {} =>
                         RelationOf(p) = [state |-> "none", by |-> Nobody]
    BY DEF Values
<1>1. ActivePair(p) => RelationOf(p) = [state |-> "buddies", by |-> Nobody]
    BY DEF RelationOf
<1>2. ASSUME ~ActivePair(p), NEW i \in PendingOf(p)
      PROVE  RelationOf(p) = [state |-> "proposed", by |-> invitation[i].sender]
    <2>1. (CHOOSE j \in PendingOf(p) : TRUE) = i
        BY <1>2 DEF Disciplined, OnePendingPerPair, PendingOf
    <2>2. PendingOf(p) # {}
        BY <1>2
    <2> QED BY <1>2, <2>1, <2>2 DEF RelationOf
<1>3. ~ActivePair(p) /\ PendingOf(p) = {} =>
        RelationOf(p) = [state |-> "none", by |-> Nobody]
    BY DEF RelationOf
<1> QED BY <1>1, <1>2, <1>3

LEMMA PairOfTwo ==
    ASSUME NEW s \in Users, NEW t \in Users, s # t
    PROVE  {s, t} \in Pairs
<1>1. /\ IsFiniteSet({s}) /\ Cardinality({s}) = 1
    BY FS_Singleton
<1>2. Cardinality({s} \cup {t}) = 2
    BY <1>1, FS_AddElement
<1>3. {s} \cup {t} = {s, t}
    OBVIOUS
<1> QED BY <1>2, <1>3 DEF Pairs

\* The users of a row, and those of a request, are a pair.
LEMMA RowsArePairs ==
    ASSUME RowShape, NEW i \in Invitations, invitation[i].status # "NONE"
    PROVE  InvitationPair(i) \in Pairs
BY PairOfTwo DEF RowShape, InvitationPair

LEMMA RequestsArePairs ==
    ASSUME Typed, NEW r \in Requests, request[r].pc # "idle"
    PROVE  Participants(r) \in Pairs
BY RunningRequest, PairOfTwo DEF Participants

\* A pair keeps its relation when its match and its pending rows stay.
LEMMA SameRelation ==
    ASSUME Values, Values', NEW p \in Pairs,
           ActivePair(p)' <=> ActivePair(p),
           PendingOf(p)' = PendingOf(p),
           \A i \in PendingOf(p) : invitation'[i].sender = invitation[i].sender
    PROVE  RelationOf(p)' = RelationOf(p)
<1>1. CASE ActivePair(p)
    BY <1>1 DEF Values
<1>2. CASE ~ActivePair(p) /\ PendingOf(p) = {}
    BY <1>2 DEF Values
<1>3. CASE ~ActivePair(p) /\ PendingOf(p) # {}
    <2>1. PICK i \in PendingOf(p) : TRUE
        BY <1>3
    <2>2. RelationOf(p) = [state |-> "proposed", by |-> invitation[i].sender]
        BY <1>3, <2>1 DEF Values
    <2>3. RelationOf(p)' = [state |-> "proposed", by |-> invitation'[i].sender]
        BY <1>3, <2>1 DEF Values
    <2> QED BY <2>1, <2>2, <2>3
<1> QED BY <1>1, <1>2, <1>3

-----------------------------------------------------------------------------
(* The steps.                                                              *)

\* Neither a match nor a pending row comes or goes.
LEMMA QuietRelation ==
    ASSUME Values, Values', matches' = matches,
           \A i \in Invitations :
              /\ IsPending(i)' <=> IsPending(i)
              /\ invitation'[i].sender = invitation[i].sender
              /\ invitation'[i].recipient = invitation[i].recipient
    PROVE  relation' = relation
<1>1. ASSUME NEW p \in Pairs PROVE RelationOf(p)' = RelationOf(p)
    <2>1. ActivePair(p)' <=> ActivePair(p)
        BY DEF ActivePair
    <2>2. PendingOf(p)' = PendingOf(p)
        BY DEF PendingOf, InvitationPair
    <2>3. \A i \in PendingOf(p) : invitation'[i].sender = invitation[i].sender
        BY DEF PendingOf
    <2> QED BY <2>1, <2>2, <2>3, SameRelation
<1> QED BY <1>1 DEF relation

\* Some pending rows are closed, none of them as accepted with a match.
LEMMA ClosingLapses ==
    ASSUME Disciplined, Values, Values', NoPendingBesideMatch,
           matches' = matches, NEW C \in SUBSET Invitations,
           \A i \in C : IsPending(i),
           \A i \in Invitations :
              /\ IsPending(i)' <=> IsPending(i) /\ i \notin C
              /\ invitation'[i].sender = invitation[i].sender
              /\ invitation'[i].recipient = invitation[i].recipient
    PROVE  \E S \in SUBSET Pairs :
              /\ \A p \in S : RelationOf(p).state = "proposed"
              /\ relation' = [p \in Pairs |-> IF p \in S
                                THEN [state |-> "none", by |-> Nobody]
                                ELSE relation[p]]
<1> DEFINE S == {InvitationPair(i) : i \in C}
<1>1. S \in SUBSET Pairs
    BY RowsArePairs DEF Disciplined, IsPending
<1>2. ASSUME NEW p \in S
      PROVE  /\ RelationOf(p).state = "proposed"
             /\ RelationOf(p)' = [state |-> "none", by |-> Nobody]
    <2>1. PICK i \in C : p = InvitationPair(i)
        BY <1>2
    <2>2. i \in PendingOf(p) /\ p \in Pairs
        BY <1>1, <2>1 DEF PendingOf
    <2>3. ~ActivePair(p) /\ ~ActivePair(p)'
        BY <2>1 DEF NoPendingBesideMatch, ActivePair
    <2>4. RelationOf(p).state = "proposed"
        BY <2>2, <2>3 DEF Values
    <2>5. PendingOf(p)' = {}
        <3> SUFFICES ASSUME NEW j \in PendingOf(p)' PROVE FALSE
            OBVIOUS
        <3>1. j \in PendingOf(p) /\ j \notin C
            BY DEF PendingOf, InvitationPair
        <3> QED BY <2>1, <2>2, <3>1 DEF Disciplined, OnePendingPerPair, PendingOf
    <2> QED BY <2>2, <2>3, <2>4, <2>5 DEF Values
<1>3. ASSUME NEW p \in Pairs, p \notin S PROVE RelationOf(p)' = RelationOf(p)
    <2>1. ActivePair(p)' <=> ActivePair(p)
        BY DEF ActivePair
    <2>2. PendingOf(p)' = PendingOf(p)
        BY <1>3 DEF PendingOf, InvitationPair
    <2>3. \A i \in PendingOf(p) : invitation'[i].sender = invitation[i].sender
        BY DEF PendingOf
    <2> QED BY <2>1, <2>2, <2>3, SameRelation
<1> HIDE DEF S
<1>4. relation' = [p \in Pairs |-> IF p \in S
                     THEN [state |-> "none", by |-> Nobody] ELSE relation[p]]
    BY <1>2, <1>3 DEF relation
<1> QED BY <1>1, <1>2, <1>4

\* One pair moves and all others stay.
LEMMA OnePairMoves ==
    ASSUME Values, Values', NEW p \in Pairs, NEW v, RelationOf(p)' = v,
           \A q \in Pairs : q # p =>
              /\ ActivePair(q)' <=> ActivePair(q)
              /\ PendingOf(q)' = PendingOf(q)
              /\ \A i \in PendingOf(q) :
                    invitation'[i].sender = invitation[i].sender
    PROVE  relation' = [relation EXCEPT ![p] = v]
<1>1. \A q \in Pairs : q # p => RelationOf(q)' = RelationOf(q)
    BY SameRelation
<1> QED BY <1>1 DEF relation

\* The insert of a send: whatever the pair was, its sender now proposes.
LEMMA SendProposes ==
    ASSUME IInv, Values, Values', NoPendingBesideMatch', NEW r \in Requests,
           SendCommit(r)
    PROVE  \E p \in Pairs : \E u \in p :
              /\ RelationOf(p) # [state |-> "buddies", by |-> Nobody]
              /\ relation' = [relation EXCEPT ![p] = [state |-> "proposed", by |-> u]]
<1>p. /\ request[r].pc = "checked" /\ request[r].op = "send"
      /\ matches' = matches
      /\ Participants(r) \in Pairs /\ request[r].sender \in Users
    BY RequestsArePairs, RunningRequest DEF SendCommit, IInv
<1>1. PICK p \in Pairs, u \in Users :
         p = Participants(r) /\ u = request[r].sender /\ u \in p
    BY <1>p DEF Participants
<1>2. /\ ~ActivePair(p) /\ PendingIndexAllows(r)
      /\ request[r].invitation # NoInvitation => IsPending(request[r].invitation)
    BY <1>p, <1>1 DEF IInv, Reliance, CheckedSendHolds
<1>3. PICK n \in Invitations :
          /\ invitation[n].status = "NONE"
          /\ invitation' = [i \in Invitations |->
                IF i = n THEN NewInvitation(r)
                ELSE IF i = request[r].invitation
                     THEN Close(i, "EXPIRED", request[r].at)
                     ELSE invitation[i]]
    BY <1>2 DEF SendCommit
<1>4. /\ invitation'[n].status = "PENDING"
      /\ invitation'[n].sender = u
      /\ InvitationPair(n)' = p
    BY <1>1, <1>3 DEF NewInvitation, InvitationPair, Participants
<1>5. RelationOf(p)' = [state |-> "proposed", by |-> u]
    <2>1. n \in PendingOf(p)'
        BY <1>3, <1>4 DEF PendingOf, IsPending
    <2>2. ~ActivePair(p)'
        BY <1>p, <1>2 DEF ActivePair
    <2> QED BY <1>1, <1>4, <2>1, <2>2 DEF Values
<1>6. ASSUME NEW i \in Invitations, i # n
      PROVE  /\ InvitationPair(i)' = InvitationPair(i)
             /\ invitation'[i].sender = invitation[i].sender
             /\ InvitationPair(i) # p => (IsPending(i)' <=> IsPending(i))
    <2>1. CASE i = request[r].invitation
        <3>1. /\ invitation'[i].sender = invitation[i].sender
              /\ invitation'[i].recipient = invitation[i].recipient
            <4>1. invitation'[i] = Close(i, "EXPIRED", request[r].at)
                BY <1>3, <1>6, <2>1
            <4>2. request[r].at \in Nat /\ "EXPIRED" \in Terminal /\ TypeOK
                BY <1>p, RunningRequest DEF IInv, Typed, Terminal
            <4> QED BY <4>1, <4>2, CloseTyped
        <3>2. InvitationPair(i) = p
            BY <1>p, <1>1, <2>1, InvitationsAssumption DEF IInv, Typed, RequestShape
        <3> QED BY <3>1, <3>2 DEF InvitationPair
    <2>2. CASE i # request[r].invitation
        BY <1>3, <1>6, <2>2 DEF InvitationPair, IsPending
    <2> QED BY <2>1, <2>2
<1>7. ASSUME NEW q \in Pairs, q # p
      PROVE  /\ ActivePair(q)' <=> ActivePair(q)
             /\ PendingOf(q)' = PendingOf(q)
             /\ \A i \in PendingOf(q) :
                   invitation'[i].sender = invitation[i].sender
    <2>1. n \notin PendingOf(q) /\ n \notin PendingOf(q)'
        BY <1>3, <1>4, <1>7 DEF PendingOf, IsPending
    <2>2. PendingOf(q)' = PendingOf(q)
        BY <1>6, <1>7, <2>1 DEF PendingOf
    <2>3. \A i \in PendingOf(q) : invitation'[i].sender = invitation[i].sender
        BY <1>6, <2>1 DEF PendingOf
    <2> QED BY <1>p, <2>2, <2>3 DEF ActivePair
<1>8. relation' = [relation EXCEPT ![p] = [state |-> "proposed", by |-> u]]
    BY <1>1, <1>5, <1>7, OnePairMoves
<1>9. RelationOf(p) # [state |-> "buddies", by |-> Nobody]
    <2>1. CASE PendingOf(p) = {}
        BY <1>1, <1>2, <2>1 DEF Values
    <2>2. CASE PendingOf(p) # {}
        <3>1. PICK i \in PendingOf(p) : TRUE
            BY <2>2
        <3>2. RelationOf(p).state = "proposed"
            BY <1>1, <1>2, <3>1 DEF Values
        <3> QED BY <3>2
    <2> QED BY <2>1, <2>2
<1> QED BY <1>1, <1>8, <1>9

\* The commit of an accept: the pair's standing proposal is consented to.
LEMMA AcceptConsents ==
    ASSUME IInv, Values, Values', NEW r \in Requests, AcceptCommit(r)
    PROVE  \E p \in Pairs :
              /\ RelationOf(p).state = "proposed"
              /\ relation' = [relation EXCEPT ![p] =
                                 [state |-> "buddies", by |-> Nobody]]
<1>1. /\ request[r].pc = "checked" /\ request[r].op = "accept"
      /\ Participants(r) \in Pairs
      /\ request[r].invitation \in Invitations
      /\ InvitationPair(request[r].invitation) = Participants(r)
    BY RequestsArePairs, RunningRequest, InvitationsAssumption
       DEF AcceptCommit, IInv, Typed, RequestShape
<1>2. PICK p \in Pairs, i \in Invitations :
         /\ p = Participants(r) /\ i = request[r].invitation
         /\ InvitationPair(i) = p
    BY <1>1
<1>3. IsPending(i) /\ ~ActivePair(p)
    BY <1>1, <1>2 DEF IInv, Reliance, CheckedAcceptHolds, NoPendingBesideMatch
<1>4. /\ invitation' = [invitation EXCEPT ![i] = Close(i, "ACCEPTED", request[r].at)]
      /\ matches' = matches \union {NewMatch(r)}
    BY <1>2, <1>3 DEF AcceptCommit, Activates
<1>5. RelationOf(p).state = "proposed"
    BY <1>1, <1>2, <1>3 DEF Values, PendingOf
<1>6. MatchPair(NewMatch(r)) = p
    BY <1>2 DEF MatchPair, NewMatch, Participants
<1>7. \A q \in Pairs : ActivePair(q)' <=> ActivePair(q) \/ q = p
    BY <1>4, <1>6 DEF ActivePair
<1>8. RelationOf(p)' = [state |-> "buddies", by |-> Nobody]
    BY <1>1, <1>7 DEF Values
<1>9. ASSUME NEW q \in Pairs, q # p
      PROVE  /\ ActivePair(q)' <=> ActivePair(q)
             /\ PendingOf(q)' = PendingOf(q)
             /\ \A j \in PendingOf(q) :
                   invitation'[j].sender = invitation[j].sender
    <2>1. InvitationPair(i)' = p
        BY <1>2, <1>4 DEF InvitationPair, Close, IInv, Typed, TypeOK, InvitationRow
    <2>2. i \notin PendingOf(q) /\ i \notin PendingOf(q)'
        BY <1>2, <1>9, <2>1 DEF PendingOf
    <2>3. \A j \in Invitations : j # i => invitation'[j] = invitation[j]
        BY <1>4 DEF IInv, Typed, TypeOK
    <2>4. PendingOf(q)' = PendingOf(q)
        BY <2>2, <2>3 DEF PendingOf, IsPending, InvitationPair
    <2> QED BY <1>7, <1>9, <2>2, <2>3, <2>4 DEF PendingOf
<1> QED BY <1>1, <1>5, <1>8, <1>9, OnePairMoves

LEMMA SamePairs == Pairs = Relation!Pairs
BY DEF Pairs, Relation!Pairs, Cardinality, Relation!Cardinality

\* The actions of BuddyRelation, with what the rows say of each pair.
LEMMA AbstractActions ==
    /\ \A p \in Pairs : relation[p] = RelationOf(p)
    /\ \A p, u : Relation!Propose(p, u) <=>
          /\ u \in p
          /\ relation[p] # [state |-> "buddies", by |-> Nobody]
          /\ relation' = [relation EXCEPT ![p] = [state |-> "proposed", by |-> u]]
    /\ \A p : Relation!Consent(p) <=>
          /\ relation[p].state = "proposed"
          /\ relation' = [relation EXCEPT ![p] =
                             [state |-> "buddies", by |-> Nobody]]
    /\ \A S : Relation!Lapse(S) <=>
          /\ \A p \in S : relation[p].state = "proposed"
          /\ relation' = [p \in Pairs |-> IF p \in S
                            THEN [state |-> "none", by |-> Nobody]
                            ELSE relation[p]]
    /\ Relation!Next <=>
          \/ \E p \in Pairs : \E u \in p : Relation!Propose(p, u)
          \/ \E S \in SUBSET Pairs : Relation!Lapse(S)
          \/ \E p \in Pairs : Relation!Consent(p)
<1>1. \A p \in Pairs : relation[p] = RelationOf(p)
    BY DEF relation
<1>2. \A p, u : Relation!Propose(p, u) <=>
          /\ u \in p
          /\ relation[p] # [state |-> "buddies", by |-> Nobody]
          /\ relation' = [relation EXCEPT ![p] = [state |-> "proposed", by |-> u]]
    BY DEF relation, Relation!Propose, Relation!Buddies, Relation!Proposed
<1>3. \A p : Relation!Consent(p) <=>
          /\ relation[p].state = "proposed"
          /\ relation' = [relation EXCEPT ![p] =
                             [state |-> "buddies", by |-> Nobody]]
    BY DEF relation, Relation!Consent, Relation!Buddies
<1>4. \A S : Relation!Lapse(S) <=>
          /\ \A p \in S : relation[p].state = "proposed"
          /\ relation' = [p \in Pairs |-> IF p \in S
                            THEN [state |-> "none", by |-> Nobody]
                            ELSE relation[p]]
    BY SamePairs DEF relation, Relation!Lapse, Relation!None
<1> QED BY SamePairs, <1>1, <1>2, <1>3, <1>4 DEF Relation!Next

\* Each step of the requests, the answers, the job and the editors is one of
\* BuddyRelation, or leaves the relation of every pair alone.
LEMMA RelationStep ==
    ASSUME IInv, IInv', Values, Values', [Next]_vars
    PROVE  Relation!Next \/ relation' = relation
<1>1. ASSUME UNCHANGED <<invitation, matches>> PROVE relation' = relation
    BY <1>1, QuietRelation DEF IsPending
<1>2. CASE \E r \in Requests : SendCommit(r)
    <2>1. NoPendingBesideMatch'
        BY DEF IInv, Reliance
    <2>2. PICK p \in Pairs, u \in Users : u \in p /\
              /\ RelationOf(p) # [state |-> "buddies", by |-> Nobody]
              /\ relation' = [relation EXCEPT ![p] = [state |-> "proposed", by |-> u]]
        BY <1>2, <2>1, SendProposes DEF Pairs
    <2>3. Relation!Propose(p, u)
        BY <2>2, AbstractActions
    <2> QED BY <2>2, <2>3, AbstractActions
<1>3. CASE \E r \in Requests : AcceptCommit(r)
    <2>1. PICK p \in Pairs :
              /\ RelationOf(p).state = "proposed"
              /\ relation' = [relation EXCEPT ![p] =
                                 [state |-> "buddies", by |-> Nobody]]
        BY <1>3, AcceptConsents
    <2> QED BY <2>1, AbstractActions
\* Rows closed by an answer or by the expiry job.
<1>c. ASSUME NEW C \in SUBSET Invitations, matches' = matches,
             \A i \in C : IsPending(i),
             \A i \in Invitations :
                /\ IsPending(i)' <=> IsPending(i) /\ i \notin C
                /\ invitation'[i].sender = invitation[i].sender
                /\ invitation'[i].recipient = invitation[i].recipient
      PROVE  Relation!Next
    <2>1. Disciplined /\ NoPendingBesideMatch
        BY DEF Disciplined, IInv, Typed, Reliance
    <2>2. PICK S \in SUBSET Pairs :
              /\ \A p \in S : RelationOf(p).state = "proposed"
              /\ relation' = [p \in Pairs |-> IF p \in S
                                THEN [state |-> "none", by |-> Nobody]
                                ELSE relation[p]]
        BY <1>c, <2>1, ClosingLapses
    <2>3. \A p \in S : relation[p].state = "proposed"
        BY <2>2 DEF relation
    <2>4. Relation!Lapse(S)
        BY <2>2, <2>3, AbstractActions
    <2> QED BY <2>4, AbstractActions
<1>4. CASE \E i \in Invitations : Decline(i) \/ Cancel(i)
    <2>1. PICK i \in Invitations, status \in {"DECLINED", "CANCELLED"} :
              Respond(i, status)
        BY <1>4 DEF Decline, Cancel
    <2>2. /\ matches' = matches /\ IsPending(i)
          /\ invitation' = [invitation EXCEPT ![i] = Close(i, status, now)]
        BY <2>1 DEF Respond
    <2>3. /\ Close(i, status, now).status = status
          /\ Close(i, status, now).sender = invitation[i].sender
          /\ Close(i, status, now).recipient = invitation[i].recipient
        BY CloseTyped DEF IInv, Typed, TypeOK, Terminal
    <2>4. \A j \in Invitations :
              invitation'[j] = IF j = i THEN Close(i, status, now) ELSE invitation[j]
        BY <2>2 DEF IInv, Typed, TypeOK
    <2>5. \A j \in Invitations :
              /\ IsPending(j)' <=> IsPending(j) /\ j \notin {i}
              /\ invitation'[j].sender = invitation[j].sender
              /\ invitation'[j].recipient = invitation[j].recipient
        BY <2>3, <2>4 DEF IsPending
    <2>6. {i} \in SUBSET Invitations /\ \A j \in {i} : IsPending(j)
        BY <2>2
    <2> QED BY <1>c, <2>2, <2>5, <2>6
<1>5. CASE ExpireBatch
    <2>1. PICK C \in SUBSET {i \in Invitations : IsDue(i, now) /\ RowLockFree(i)} :
              invitation' = [i \in Invitations |->
                    IF i \in C THEN Close(i, "EXPIRED", now) ELSE invitation[i]]
        BY <1>5 DEF ExpireBatch
    <2>2. /\ C \in SUBSET Invitations /\ matches' = matches
          /\ \A i \in C : IsPending(i)
        BY <1>5, <2>1 DEF ExpireBatch, IsDue
    <2>3. \A i \in Invitations :
              /\ Close(i, "EXPIRED", now).status = "EXPIRED"
              /\ Close(i, "EXPIRED", now).sender = invitation[i].sender
              /\ Close(i, "EXPIRED", now).recipient = invitation[i].recipient
        BY CloseTyped DEF IInv, Typed, TypeOK, Terminal
    <2>4. \A i \in Invitations :
              /\ IsPending(i)' <=> IsPending(i) /\ i \notin C
              /\ invitation'[i].sender = invitation[i].sender
              /\ invitation'[i].recipient = invitation[i].recipient
        BY <2>1, <2>3 DEF IsPending
    <2> QED BY <1>c, <2>2, <2>4
<1>6. CASE \E i \in Invitations : Hide(i)
    <2>1. PICK i \in Invitations : Hide(i)
        BY <1>6
    <2>2. \A j \in Invitations :
              /\ IsPending(j)' <=> IsPending(j)
              /\ invitation'[j].sender = invitation[j].sender
              /\ invitation'[j].recipient = invitation[j].recipient
        BY <2>1 DEF Hide, IsPending, IInv, Typed, TypeOK, InvitationRow
    <2>3. matches' = matches
        BY <2>1 DEF Hide
    <2> QED BY <2>2, <2>3, QuietRelation
<1>7. CASE \E r \in Requests, s \in Users, t \in Users : BeginSend(r, s, t)
    BY <1>1, <1>7 DEF BeginSend
<1>8. CASE \E r \in Requests, i \in Invitations : BeginAccept(r, i)
    BY <1>1, <1>8 DEF BeginAccept
<1>9. CASE \E r \in Requests : LockFirstUser(r) \/ LockSecondUser(r)
    BY <1>1, <1>9 DEF LockFirstUser, LockSecondUser
<1>10. CASE \E r \in Requests : SendCheck(r) \/ AcceptCheck(r) \/ Abort(r)
    BY <1>1, <1>10 DEF SendCheck, AcceptCheck, Abort
<1>11. CASE \/ \E u \in Editors : ChangeType(u) \/ ChangeReadiness(u)
            \/ Tick \/ UNCHANGED vars
    BY <1>1, <1>11 DEF ChangeType, ChangeReadiness, Tick, vars
<1> QED BY <1>2, <1>3, <1>4, <1>5, <1>6, <1>7, <1>8, <1>9, <1>10, <1>11 DEF Next

LEMMA RelationInit == ASSUME Init, Values PROVE Relation!Init
<1>1. ASSUME NEW p \in Pairs
      PROVE  RelationOf(p) = [state |-> "none", by |-> Nobody]
    <2>1. ~ActivePair(p)
        BY DEF Init, ActivePair
    <2>2. PendingOf(p) = {}
        BY DEF Init, NoRow, PendingOf, IsPending
    <2> QED BY <2>1, <2>2 DEF Values
<1> QED BY <1>1, SamePairs DEF Relation!Init, Relation!None

\* Send, answer, expiry and accept, with all their races, move each pair of
\* users only as BuddyRelation allows: the detailed module implements it.
THEOREM ImplementsBuddyRelationHolds == Spec => ImplementsBuddyRelation
<1>1. IInv => Values
    BY RelationValues DEF IInv, Typed, Reliance, Disciplined
<1>2. Init /\ IInv => Relation!Init
    BY <1>1, RelationInit
<1>3. IInv /\ IInv' /\ Values /\ Values' /\ [Next]_vars
        => [Relation!Next]_[p \in Pairs |-> RelationOf(p)]
    BY RelationStep DEF relation
<1> QED BY <1>1, <1>2, <1>3, InvariantHolds, PTL
        DEF Spec, ImplementsBuddyRelation, Relation!Spec

=============================================================================
