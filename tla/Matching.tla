------------------------------ MODULE Matching ------------------------------
(***************************************************************************)
(* Buddy invitations and matches, at the granularity of the row locks that *)
(* their PostgreSQL transactions take (READ COMMITTED, SELECT FOR UPDATE). *)
(*                                                                         *)
(* A send or an accept is a request that goes through several steps while  *)
(* other requests run: it is authenticated (and loads its owner's account  *)
(* into the SQLAlchemy identity map), locks the two user rows in UUID      *)
(* order, checks, and commits.  Decline, cancel, hide, expiry and profile  *)
(* edits take the locks they need and commit without waiting in between,   *)
(* so each of them is one step, guarded by the locks it needs.             *)
(***************************************************************************)
EXTENDS Integers, FiniteSets

CONSTANTS
    Users,          \* user ids; ordered, as UUIDs are
    Invitations,    \* ids of invitation rows that may be inserted
    Requests,       \* HTTP requests in flight (send or accept)
    Editors,        \* bound: the users who edit their profile in this model
    Nobody,         \* no user
    NoInvitation,   \* no invitation
    MaxPending,     \* MAX_OUTGOING_PENDING_INVITATIONS
    Lifetime,       \* INVITATION_EXPIRY_INTERVAL, in ticks
    BatchSize,      \* rows one expiry pass takes
    MaxTime         \* bound: the last tick of the clock

ASSUME UsersAssumption ==
    Users \subseteq Nat /\ IsFiniteSet(Users) /\ Nobody \notin Users
ASSUME InvitationsAssumption == NoInvitation \notin Invitations
ASSUME BoundsAssumption ==
    /\ Editors \subseteq Users
    /\ MaxPending \in Nat \ {0}
    /\ Lifetime \in Nat \ {0}
    /\ BatchSize \in Nat \ {0}
    /\ MaxTime \in Nat

VARIABLES
    account,        \* users joined with student_profiles: type, readiness
    invitation,     \* matching_invitations
    matches,        \* matches; status is always ACTIVE
    conversations,  \* buddy_conversations, by the invitation of their match
    outbox,         \* transactional_outbox events of the matching domain
    request,        \* the requests in flight
    now             \* the wall clock

vars == <<account, invitation, matches, conversations, outbox, request, now>>

-----------------------------------------------------------------------------

StudentTypes == {"VIETNAMESE", "INTERNATIONAL"}

Other(t) == IF t = "VIETNAMESE" THEN "INTERNATIONAL" ELSE "VIETNAMESE"

Terminal == {"ACCEPTED", "DECLINED", "CANCELLED", "EXPIRED"}

Account == [type : StudentTypes, ready : BOOLEAN]

InvitationRow ==
    [status : Terminal \union {"PENDING", "NONE"},  \* NONE: not inserted
     sender : Users \union {Nobody},
     recipient : Users \union {Nobody},
     expires : Nat,                                 \* expires_at
     closed : Nat,      \* responded_at, cancelled_at or expired_at
     hidden : BOOLEAN]                              \* sender_hidden_at is set

NoRow == [status |-> "NONE", sender |-> Nobody, recipient |-> Nobody,
          expires |-> 0, closed |-> 0, hidden |-> FALSE]

MatchRow == [one : Users, two : Users, invitation : Invitations,
             fresh : BOOLEAN]  \* history: the acceptor's row was not stale

Event == [type : {"CREATED", "ACCEPTED"}, invitation : Invitations]

Request ==
    [pc : {"idle", "first", "second", "locked", "checked"},
     op : {"send", "accept"},
     sender : Users \union {Nobody},
     recipient : Users \union {Nobody},
     invitation : Invitations \union {NoInvitation},  \* the row it will write
     seen : Account,    \* the owner's account as loaded by authentication
     at : Nat]          \* the clock value the request decides with

Idle == [pc |-> "idle", op |-> "send", sender |-> Nobody,
         recipient |-> Nobody, invitation |-> NoInvitation,
         seen |-> [type |-> "VIETNAMESE", ready |-> FALSE], at |-> 0]

TypeOK ==
    /\ account \in [Users -> Account]
    /\ invitation \in [Invitations -> InvitationRow]
    /\ matches \subseteq MatchRow
    /\ conversations \subseteq Invitations
    /\ outbox \subseteq Event
    /\ request \in [Requests -> Request]
    /\ now \in Nat

-----------------------------------------------------------------------------
(* Rows and locks.                                                         *)

IsPending(i) == invitation[i].status = "PENDING"

\* Effective status: a persisted PENDING row past its deadline is expired.
IsDue(i, at) == IsPending(i) /\ invitation[i].expires <= at

InvitationPair(i) == {invitation[i].sender, invitation[i].recipient}

MatchPair(m) == {m.one, m.two}

\* pair_low_user_id, pair_high_user_id: the unordered pair p of users.
PendingOf(p) == {i \in Invitations : IsPending(i) /\ InvitationPair(i) = p}

ActivePair(p) == \E m \in matches : MatchPair(m) = p

EffectivePending(u, at) ==
    {i \in Invitations :
        IsPending(i) /\ invitation[i].sender = u /\ invitation[i].expires > at}

HasActiveMatch(u) == \E m \in matches : u \in MatchPair(m)

Participants(r) == {request[r].sender, request[r].recipient}

\* Mutant: the sender's row is always locked first.
SenderAlwaysFirst(r) == TRUE

\* The rows are locked in ascending id order, whoever sent the invitation.
SenderFirst(r) == request[r].sender < request[r].recipient

FirstLock(r) ==
    IF SenderFirst(r) THEN request[r].sender ELSE request[r].recipient

SecondLock(r) ==
    IF SenderFirst(r) THEN request[r].recipient ELSE request[r].sender

\* Mutant: the rows are released when the checks are done.
UserLocksUntilChecked(r) ==
    CASE request[r].pc = "second" -> {FirstLock(r)}
      [] request[r].pc = "locked" -> Participants(r)
      [] OTHER -> {}

\* User rows that request r holds FOR UPDATE until it ends.
UserLocks(r) ==
    CASE request[r].pc = "second" -> {FirstLock(r)}
      [] request[r].pc \in {"locked", "checked"} -> Participants(r)
      [] OTHER -> {}

UserUnlocked(u) == \A q \in Requests : u \notin UserLocks(q)

UserLockFree(u, r) == \A q \in Requests \ {r} : u \notin UserLocks(q)

\* Profile rows are locked only once both user rows are.
ProfileLockFree(u) ==
    \A q \in Requests :
        request[q].pc \in {"locked", "checked"} => u \notin Participants(q)

\* The invitation row is locked by the check that will close it.
RowLockFree(i) ==
    \A q \in Requests : request[q].pc = "checked" => request[q].invitation # i

-----------------------------------------------------------------------------
(* Requests.                                                               *)

Owner(r) ==
    IF request[r].op = "send" THEN request[r].sender ELSE request[r].recipient

\* A row already in the identity map is not refreshed by a later locking
\* SELECT: a request sees its owner's account as authentication loaded it, and
\* the other participant's as it is when both rows are locked.
AccountSeen(r, u) == IF u = Owner(r) THEN request[r].seen ELSE account[u]

End(r) == request' = [request EXCEPT ![r] = Idle]

\* Bound: sends in flight never outnumber the invitation ids left.
IdsLeft ==
    Cardinality({i \in Invitations : invitation[i].status = "NONE"})
      > Cardinality({q \in Requests :
                        request[q].pc # "idle" /\ request[q].op = "send"})

\* POST /invitations: eligibility dependency, then the clock is read.
BeginSend(r, s, t) ==
    /\ request[r].pc = "idle"
    /\ IdsLeft /\ now + Lifetime <= MaxTime
    /\ s # t
    /\ account[s].ready
    /\ request' = [request EXCEPT ![r] =
            [pc |-> "first", op |-> "send", sender |-> s, recipient |-> t,
             invitation |-> NoInvitation, seen |-> account[s], at |-> now]]
    /\ UNCHANGED <<account, invitation, matches, conversations, outbox, now>>

\* POST /invitations/{id}/accept: the unlocked read finds a usable invitation.
\* A replay of an ACCEPTED one, and every refusal, writes nothing.
BeginAccept(r, i) ==
    /\ request[r].pc = "idle"
    /\ IsPending(i) /\ ~IsDue(i, now)
    /\ request' = [request EXCEPT ![r] =
            [pc |-> "first", op |-> "accept",
             sender |-> invitation[i].sender,
             recipient |-> invitation[i].recipient, invitation |-> i,
             seen |-> account[invitation[i].recipient], at |-> now]]
    /\ UNCHANGED <<account, invitation, matches, conversations, outbox, now>>

LockFirstUser(r) ==
    /\ request[r].pc = "first"
    /\ UserLockFree(FirstLock(r), r)
    /\ request' = [request EXCEPT ![r].pc = "second"]
    /\ UNCHANGED <<account, invitation, matches, conversations, outbox, now>>

OppositeTypesSeen(r) ==
    {AccountSeen(r, u).type : u \in Participants(r)} = StudentTypes

\* Both participants, as the request sees them, may become buddies.
PairEligible(r) ==
    LET s == AccountSeen(r, request[r].sender)
        t == AccountSeen(r, request[r].recipient)
    IN  s.ready /\ t.ready /\ OppositeTypesSeen(r)

LockSecondUser(r) ==
    /\ request[r].pc = "second"
    /\ UserLockFree(SecondLock(r), r)
    /\ IF PairEligible(r)
       THEN request' = [request EXCEPT ![r].pc = "locked"]
       ELSE End(r)
    /\ UNCHANGED <<account, invitation, matches, conversations, outbox, now>>

\* Mutant: one pending invitation over the limit is let through.
SendMayInsertOneMore(r) ==
    LET at == request[r].at
    IN  /\ \A i \in PendingOf(Participants(r)) : IsDue(i, at)
        /\ ~ActivePair(Participants(r))
        /\ Cardinality(EffectivePending(request[r].sender, at)) <= MaxPending

\* _expire_or_reject_pending_pair, _reject_active_pair,
\* _require_pending_capacity, all against the clock read before the locks.
SendMayInsert(r) ==
    LET at == request[r].at
    IN  /\ \A i \in PendingOf(Participants(r)) : IsDue(i, at)
        /\ ~ActivePair(Participants(r))
        /\ Cardinality(EffectivePending(request[r].sender, at)) < MaxPending

\* The row a send expires to make room for its own, if there is one.
LapsedRow(p) == IF PendingOf(p) = {} THEN {NoInvitation} ELSE PendingOf(p)

SendCheck(r) ==
    /\ request[r].pc = "locked" /\ request[r].op = "send"
    /\ \A i \in PendingOf(Participants(r)) : RowLockFree(i)
    /\ IF SendMayInsert(r)
       THEN \E i \in LapsedRow(Participants(r)) :
                request' = [request EXCEPT
                    ![r] = [@ EXCEPT !.pc = "checked", !.invitation = i]]
       ELSE End(r)
    /\ UNCHANGED <<account, invitation, matches, conversations, outbox, now>>

\* uq_matching_invitations_pending_pair; the expired row has left the index.
PendingIndexAllows(r) ==
    PendingOf(Participants(r)) \subseteq {request[r].invitation}

\* Mutant: the deadline is computed backwards.
NewInvitationBackwards(r) ==
    [status |-> "PENDING", sender |-> request[r].sender,
     recipient |-> request[r].recipient,
     expires |-> request[r].at - Lifetime, closed |-> 0, hidden |-> FALSE]

NewInvitation(r) ==
    [status |-> "PENDING", sender |-> request[r].sender,
     recipient |-> request[r].recipient,
     expires |-> request[r].at + Lifetime, closed |-> 0, hidden |-> FALSE]

Close(i, status, at) ==
    [invitation[i] EXCEPT !.status = status, !.closed = at]

SendCommit(r) ==
    /\ request[r].pc = "checked" /\ request[r].op = "send"
    /\ IF PendingIndexAllows(r)
       THEN \E n \in Invitations :
              /\ invitation[n].status = "NONE"
              /\ invitation' = [i \in Invitations |->
                    IF i = n THEN NewInvitation(r)
                    ELSE IF i = request[r].invitation
                         THEN Close(i, "EXPIRED", request[r].at)
                         ELSE invitation[i]]
              /\ outbox' = outbox \union
                    {[type |-> "CREATED", invitation |-> n]}
       ELSE UNCHANGED <<invitation, outbox>>
    /\ End(r)
    /\ UNCHANGED <<account, matches, conversations, now>>

\* Mutant: the status is rechecked under the lock, the deadline is not.
AcceptCheckStatusOnly(r) ==
    LET i == request[r].invitation
    IN  /\ request[r].pc = "locked" /\ request[r].op = "accept"
        /\ RowLockFree(i)
        /\ IF IsPending(i)
           THEN request' = [request EXCEPT
                    ![r] = [@ EXCEPT !.pc = "checked", !.at = now]]
           ELSE End(r)
        /\ UNCHANGED <<account, invitation, matches, conversations, outbox, now>>

\* Mutant: the invitation is not reloaded once the users are locked.
AcceptCheckNothing(r) ==
    /\ request[r].pc = "locked" /\ request[r].op = "accept"
    /\ RowLockFree(request[r].invitation)
    /\ request' = [request EXCEPT
                    ![r] = [@ EXCEPT !.pc = "checked", !.at = now]]
    /\ UNCHANGED <<account, invitation, matches, conversations, outbox, now>>

\* The invitation is reloaded under its row lock and a fresh clock.
AcceptCheck(r) ==
    LET i == request[r].invitation
    IN  /\ request[r].pc = "locked" /\ request[r].op = "accept"
        /\ RowLockFree(i)
        /\ IF IsPending(i) /\ ~IsDue(i, now)
           THEN request' = [request EXCEPT
                    ![r] = [@ EXCEPT !.pc = "checked", !.at = now]]
           ELSE End(r)
        /\ UNCHANGED <<account, invitation, matches, conversations, outbox, now>>

NewMatch(r) ==
    [one |-> request[r].sender, two |-> request[r].recipient,
     invitation |-> request[r].invitation,
     fresh |-> request[r].seen.type = account[request[r].recipient].type]

\* The invitation is ACCEPTED by then and its users are locked: all that can
\* refuse the row is another ACTIVE match of the pair.
Activates(r) == ~ActivePair(Participants(r))

\* One conversation per match, whoever asks first.
WithConversation(i) == conversations \union {i}

\* Mutant: no conversation is created, and an existing match is no obstacle.
AcceptCommitNoConversation(r) ==
    LET i == request[r].invitation
    IN  /\ request[r].pc = "checked" /\ request[r].op = "accept"
        /\ invitation' = [invitation EXCEPT
                             ![i] = Close(i, "ACCEPTED", request[r].at)]
        /\ matches' = matches \union {NewMatch(r)}
        /\ outbox' = outbox \union {[type |-> "ACCEPTED", invitation |-> i]}
        /\ End(r)
        /\ UNCHANGED <<account, conversations, now>>

\* Invitation, match, conversation and event commit together, or not at all.
AcceptCommit(r) ==
    LET i == request[r].invitation
    IN  /\ request[r].pc = "checked" /\ request[r].op = "accept"
        /\ IF Activates(r)
           THEN /\ invitation' = [invitation EXCEPT
                                    ![i] = Close(i, "ACCEPTED", request[r].at)]
                /\ matches' = matches \union {NewMatch(r)}
                /\ conversations' = WithConversation(i)
                /\ outbox' = outbox \union
                        {[type |-> "ACCEPTED", invitation |-> i]}
           ELSE UNCHANGED <<invitation, matches, conversations, outbox>>
        /\ End(r)
        /\ UNCHANGED <<account, now>>

\* The connection or the process is lost: the transaction rolls back.
Abort(r) ==
    /\ request[r].pc # "idle"
    /\ End(r)
    /\ UNCHANGED <<account, invitation, matches, conversations, outbox, now>>

-----------------------------------------------------------------------------
(* Single-lock transactions.                                               *)

\* Decline by the recipient and cancel by the sender; a replay writes nothing.
Respond(i, status) ==
    /\ RowLockFree(i)
    /\ IsPending(i) /\ ~IsDue(i, now)
    /\ invitation' = [invitation EXCEPT ![i] = Close(i, status, now)]
    /\ UNCHANGED <<account, matches, conversations, outbox, request, now>>

Decline(i) == Respond(i, "DECLINED")
Cancel(i) == Respond(i, "CANCELLED")

Hide(i) ==
    /\ RowLockFree(i)
    /\ invitation[i].status = "ACCEPTED" /\ ~invitation[i].hidden
    /\ invitation' = [invitation EXCEPT ![i].hidden = TRUE]
    /\ UNCHANGED <<account, matches, conversations, outbox, request, now>>

\* Mutant: a row exactly at its deadline is not taken.
ExpireBatchAfterDeadline ==
    LET due == {i \in Invitations :
                    IsDue(i, now) /\ invitation[i].expires < now /\ RowLockFree(i)}
    IN  /\ \E S \in SUBSET due :
             /\ S # {} /\ Cardinality(S) <= BatchSize
             /\ invitation' = [i \in Invitations |->
                    IF i \in S THEN Close(i, "EXPIRED", now) ELSE invitation[i]]
        /\ UNCHANGED <<account, matches, conversations, outbox, request, now>>

\* FOR UPDATE SKIP LOCKED, oldest deadline first, at most BatchSize rows.
ExpireBatch ==
    LET due == {i \in Invitations : IsDue(i, now) /\ RowLockFree(i)}
    IN  /\ \E S \in SUBSET due :
             /\ S # {} /\ Cardinality(S) <= BatchSize
             /\ S = due \/ Cardinality(S) = BatchSize
             /\ \A i \in S, j \in due \ S :
                    invitation[i].expires <= invitation[j].expires
             /\ invitation' = [i \in Invitations |->
                    IF i \in S THEN Close(i, "EXPIRED", now) ELSE invitation[i]]
        /\ UNCHANGED <<account, matches, conversations, outbox, request, now>>

\* Mutant: the type is edited without locking the user row.
ChangeTypeUnlocked(u) ==
    /\ ~HasActiveMatch(u)
    /\ account' = [account EXCEPT ![u].type = Other(@)]
    /\ UNCHANGED <<invitation, matches, conversations, outbox, request, now>>

\* PATCH /profile with student_type: user row, then profile row, then commit.
ChangeType(u) ==
    /\ UserUnlocked(u)
    /\ ~HasActiveMatch(u)
    /\ account' = [account EXCEPT ![u].type = Other(@)]
    /\ UNCHANGED <<invitation, matches, conversations, outbox, request, now>>

\* PATCH /profile without student_type (opt-in, name): profile row only.
ChangeReadiness(u) ==
    /\ ProfileLockFree(u)
    /\ account' = [account EXCEPT ![u].ready = ~@]
    /\ UNCHANGED <<invitation, matches, conversations, outbox, request, now>>

Tick ==
    /\ now < MaxTime
    /\ now' = now + 1
    /\ UNCHANGED <<account, invitation, matches, conversations, outbox, request>>

-----------------------------------------------------------------------------

Init ==
    /\ account \in [Users -> [type : StudentTypes, ready : {TRUE}]]
    /\ invitation = [i \in Invitations |-> NoRow]
    /\ matches = {} /\ conversations = {} /\ outbox = {}
    /\ request = [r \in Requests |-> Idle]
    /\ now = 0

RequestStep(r) ==
    \/ LockFirstUser(r) \/ LockSecondUser(r)
    \/ SendCheck(r) \/ SendCommit(r)
    \/ AcceptCheck(r) \/ AcceptCommit(r)

Next ==
    \/ \E r \in Requests, s \in Users, t \in Users : BeginSend(r, s, t)
    \/ \E r \in Requests, i \in Invitations : BeginAccept(r, i)
    \/ \E r \in Requests : LockFirstUser(r)
    \/ \E r \in Requests : LockSecondUser(r)
    \/ \E r \in Requests : SendCheck(r)
    \/ \E r \in Requests : SendCommit(r)
    \/ \E r \in Requests : AcceptCheck(r)
    \/ \E r \in Requests : AcceptCommit(r)
    \/ \E r \in Requests : Abort(r)
    \/ \E i \in Invitations : Decline(i)
    \/ \E i \in Invitations : Cancel(i)
    \/ \E i \in Invitations : Hide(i)
    \/ ExpireBatch
    \/ \E u \in Editors : ChangeType(u)
    \/ \E u \in Editors : ChangeReadiness(u)
    \/ Tick

Spec == Init /\ [][Next]_vars

\* PostgreSQL grants a contended row lock in the order of its wait queue, so a
\* request that keeps being able to lock a row does lock it; the expiry job
\* and the clock run on.
Fairness ==
    /\ \A r \in Requests : SF_vars(RequestStep(r))
    /\ WF_vars(ExpireBatch)
    /\ WF_vars(Tick)

FairSpec == Spec /\ Fairness

-----------------------------------------------------------------------------
(* Safety.                                                                 *)

\* Between two users there is never a PENDING invitation beside an ACTIVE
\* match.  No index says so: only the user locks of send and accept, held
\* from the unlocked reads to the commit, keep the two apart.
NoPendingBesideMatch ==
    \A i \in Invitations :
        IsPending(i) => ~ActivePair(InvitationPair(i))

\* A send that has passed its checks finds the pair's PENDING slot free when it
\* inserts, and an accept finds no ACTIVE match: the unique indexes
\* uq_matching_invitations_pending_pair and uq_matches_active_pair are never
\* what rejects a request.
IndexesNeverNeeded ==
    \A r \in Requests : request[r].pc = "checked" =>
        /\ request[r].op = "send" => PendingIndexAllows(r)
        /\ ~ActivePair(Participants(r))

\* No sender ever has more than MaxPending invitations a recipient can still
\* answer, however many of his sends run at once: each counts under the
\* sender's own user lock, with a clock no later than the present.
PendingWithinLimit ==
    \A u \in Users : Cardinality(EffectivePending(u, now)) <= MaxPending

\* Two buddies have opposite student types at all times, provided the acceptor
\* did not change his own type between the authentication of the accept and
\* its locks.  The sender may edit at any time, and both may try to after the
\* match: update_own_profile refuses under the user lock.
OppositeTypesWhenFresh ==
    \A m \in matches : m.fresh => account[m.one].type # account[m.two].type

\* What the acceptance criteria of INV-005 and PROFILE-V2-001 say without the
\* proviso: no interleaving commits a same-type ACTIVE match.
OppositeTypes ==
    \A m \in matches : account[m.one].type # account[m.two].type

\* Match, conversation and both emails are exactly those of the accepted
\* invitation: no request, whatever it raced with, leaves one without the
\* others, or a second match of a pair.
RelationshipComplete ==
    /\ \A i \in Invitations :
        LET accepted == invitation[i].status = "ACCEPTED"
            own == {m \in matches : m.invitation = i}
        IN  /\ accepted <=> Cardinality(own) = 1
            /\ accepted <=> i \in conversations
            /\ accepted <=> [type |-> "ACCEPTED", invitation |-> i] \in outbox
            /\ \A m \in own : /\ m.one = invitation[i].sender
                               /\ m.two = invitation[i].recipient
            /\ invitation[i].status # "NONE"
                <=> [type |-> "CREATED", invitation |-> i] \in outbox
    /\ \A m, n \in matches : MatchPair(m) = MatchPair(n) => m = n

\* An answer is stamped before the deadline and an expiry at or after it, even
\* when the request waited for its locks across the deadline
\* (ck_matching_invitations_timestamp_order).
StampsRespectDeadline ==
    \A i \in Invitations :
        /\ invitation[i].status \in {"ACCEPTED", "DECLINED", "CANCELLED"}
            => invitation[i].closed < invitation[i].expires
        /\ invitation[i].status = "EXPIRED"
            => invitation[i].closed >= invitation[i].expires

\* What keeps NoPendingBesideMatch and IndexesNeverNeeded true from one step to
\* the next (the inductive invariant of Matching_proofs).
RowShape ==
    \A i \in Invitations : invitation[i].status # "NONE" =>
        /\ {invitation[i].sender, invitation[i].recipient} \subseteq Users
        /\ invitation[i].sender # invitation[i].recipient

RequestShape ==
    \A r \in Requests : request[r].pc # "idle" =>
        /\ {request[r].sender, request[r].recipient} \subseteq Users
        /\ request[r].sender # request[r].recipient
        /\ request[r].op = "accept" => request[r].invitation # NoInvitation
        /\ request[r].invitation # NoInvitation =>
            /\ invitation[request[r].invitation].status # "NONE"
            /\ InvitationPair(request[r].invitation) = Participants(r)

LocksExclusive ==
    \A q, r \in Requests : q # r => UserLocks(q) \intersect UserLocks(r) = {}

OnePendingPerPair ==
    \A i, j \in Invitations :
        IsPending(i) /\ IsPending(j) /\ InvitationPair(i) = InvitationPair(j)
        => i = j

CheckedSendHolds ==
    \A r \in Requests :
        request[r].pc = "checked" /\ request[r].op = "send" =>
            /\ ~ActivePair(Participants(r))
            /\ PendingIndexAllows(r)
            /\ request[r].invitation # NoInvitation =>
                IsPending(request[r].invitation)

CheckedAcceptHolds ==
    \A r \in Requests :
        request[r].pc = "checked" /\ request[r].op = "accept" =>
            IsPending(request[r].invitation)

\* A request past its checks still relies on nothing but what its locks
\* protect: its pair, the row it will close and the absence of a match.
LockDiscipline ==
    /\ RowShape
    /\ RequestShape
    /\ LocksExclusive
    /\ OnePendingPerPair
    /\ CheckedSendHolds
    /\ CheckedAcceptHolds
    /\ NoPendingBesideMatch

-----------------------------------------------------------------------------
(* Liveness, under Fairness.                                               *)

\* Requests never wait for each other in a cycle: every one that started ends
\* (user rows in UUID order, then profiles, then the invitation).
RequestsEnd == \A r \in Requests : request[r].pc # "idle" ~> request[r].pc = "idle"

\* A PENDING row does not outlive its deadline for ever, though the expiry job
\* skips every row a request holds at that moment.
DueInvitationsClose ==
    \A i \in Invitations : IsPending(i) ~> invitation[i].status \in Terminal

-----------------------------------------------------------------------------
(* The promise this module keeps to the two users of a pair.               *)

Pairs == {p \in SUBSET Users : Cardinality(p) = 2}

RelationOf(p) ==
    CASE ActivePair(p) -> [state |-> "buddies", by |-> Nobody]
      [] ~ActivePair(p) /\ PendingOf(p) # {} ->
            LET i == CHOOSE i \in PendingOf(p) : TRUE
            IN  [state |-> "proposed", by |-> invitation[i].sender]
      [] OTHER -> [state |-> "none", by |-> Nobody]

Relation == INSTANCE BuddyRelation WITH
    relation <- [p \in Pairs |-> RelationOf(p)]

\* Send, answer, expiry and accept, with all their races, move each pair of
\* users only as BuddyRelation allows.
ImplementsBuddyRelation == Relation!Spec
=============================================================================
