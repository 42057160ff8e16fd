------------------------------ MODULE BuddyChat ------------------------------
(***************************************************************************)
(* The stored messages of one buddy conversation: idempotent sends, keyset *)
(* history, read acknowledgements, first-read retention and the cleanup    *)
(* job, each as the database transaction it is.                            *)
(*                                                                         *)
(* A send reads its clock, inserts under the unique (sender, client id)    *)
(* key, reads the existing row if the key is taken, and commits, so a      *)
(* message may become visible after messages with a later creation time.   *)
(* The clocks of two API processes differ by at most Skew.  A message id   *)
(* is a random UUID: any unused one, in no order with the others.          *)
(***************************************************************************)
EXTENDS Integers, FiniteSets

CONSTANTS
  Users,        \* the two participants
  Ids,          \* message ids: 1..n
  Keys,         \* client message ids
  SenderOf,     \* key -> the user whose sends carry it
  Bodies,       \* what a send says, its conversation included
  Sends,        \* send requests in flight at a time
  Acks,         \* acknowledgement requests in flight at a time
  AckBy,        \* acknowledgement -> its reader
  PageSize,     \* messages of a history page
  BatchSize,    \* messages of a cleanup batch
  MaxAge,       \* retention of a message nobody reads (90 days)
  ReadAge,      \* retention after the first read (30 days)
  Skew,         \* how far the clock of a process may be ahead
  MaxTime,      \* bound: the last instant
  MaxSends,     \* bound: sends begun
  MaxAcks,      \* bound: acknowledgements begun
  MaxWalks      \* bound: walks through the history

ASSUME ChatAssumption ==
  /\ Ids \subseteq Nat \ {0} /\ MaxAge \in Nat \ {0} /\ ReadAge \in 0..MaxAge
  /\ Skew \in Nat /\ PageSize \in Nat \ {0} /\ BatchSize \in Nat \ {0}
  /\ MaxTime \in Nat /\ AckBy \in [Acks -> Users]

VARIABLES
  now,          \* the clock of the database
  active,       \* the match is ACTIVE
  msg,          \* buddy_messages: id -> row
  send,         \* the send transactions
  ack,          \* the acknowledgement transactions
  walk,         \* user -> a walk from the newest page to the oldest
  shown,        \* user -> ids a page has shown to it
  returned,     \* key -> ids that accepted sends returned
  spent         \* operations begun, for the bounds

vars == <<now, active, msg, send, ack, walk, shown, returned, spent>>

Never == -1
NoId == 0
NoRow == [st |-> "none", key |-> 0, body |-> 0, created |-> 0, read |-> Never,
          expires |-> 0, at |-> 0]
NoSend == [pc |-> "idle", key |-> 0, body |-> 0, created |-> 0, id |-> NoId]
NoAck == [pc |-> "idle", now |-> 0, bound |-> NoId, marks |-> {}]
NoWalk == [pc |-> "idle", cursor |-> NoId, must |-> {}, got |-> {}, twice |-> FALSE]

Init ==
  /\ now = 0 /\ active = TRUE
  /\ msg = [i \in Ids |-> NoRow]
  /\ send = [t \in Sends |-> NoSend]
  /\ ack = [a \in Acks |-> NoAck]
  /\ walk = [u \in Users |-> NoWalk]
  /\ shown = [u \in Users |-> {}]
  /\ returned = [k \in Keys |-> {}]
  /\ spent = [send |-> 0, ack |-> 0, walk |-> 0]

ClockReading == {now + d : d \in 0..Skew}
Smaller(x, y) == IF x <= y THEN x ELSE y
Live == {i \in Ids : msg[i].st = "live"}
Author(i) == SenderOf[msg[i].key]
Effective(i, t) == i \in Live /\ msg[i].expires > t

\* The order of the composite index.
Before(i, j) ==
  \/ msg[i].created < msg[j].created
  \/ msg[i].created = msg[j].created /\ i < j

------------------------------------------------------------------------------
(* Sends.                                                                  *)

\* Authorize, then read the clock.
SendBegin(t) ==
  /\ send[t].pc = "idle" /\ active
  /\ spent.send < MaxSends
  /\ \E k \in Keys, b \in Bodies, c \in ClockReading :
       send' = [send EXCEPT ![t] =
         [pc |-> "timed", key |-> k, body |-> b, created |-> c, id |-> NoId]]
  /\ spent' = [spent EXCEPT !.send = @ + 1]
  /\ UNCHANGED <<now, active, msg, ack, walk, shown, returned>>

Holds(k) == {i \in Ids : msg[i].st \in {"open", "live"} /\ msg[i].key = k}

\* Mutant: the key is looked up among committed messages and not enforced.
KeyFreeLoose(k) == \A i \in Holds(k) : msg[i].st # "live"

\* The unique index waits for an uncommitted holder of the key.
KeyFree(k) == Holds(k) = {}
KeyTaken(k) == \E i \in Holds(k) : msg[i].st = "live"

\* The sender trigger repeats the membership check on every inserted row.
SenderGuard == active

\* The insert, under the trigger and the unique key.
SendInsert(t) ==
  LET s == send[t] IN
  /\ s.pc = "timed"
  /\ \/ /\ SenderGuard /\ KeyFree(s.key)
        /\ \E i \in Ids :
             /\ msg[i].st = "none"
             /\ msg' = [msg EXCEPT ![i] =
                  [st |-> "open", key |-> s.key, body |-> s.body, created |-> s.created,
                   read |-> Never, expires |-> s.created + MaxAge, at |-> now]]
             /\ send' = [send EXCEPT ![t].pc = "inserted", ![t].id = i]
     \/ /\ SenderGuard /\ KeyTaken(s.key)
        /\ send' = [send EXCEPT ![t].pc = "conflict"] /\ UNCHANGED msg
     \/ /\ ~SenderGuard
        /\ send' = [send EXCEPT ![t] = NoSend] /\ UNCHANGED msg
  /\ UNCHANGED <<now, active, ack, walk, shown, returned, spent>>

SendCommit(t) ==
  LET s == send[t] IN
  /\ s.pc = "inserted"
  /\ msg' = [msg EXCEPT ![s.id].st = "live"]
  /\ returned' = [returned EXCEPT ![s.key] = @ \cup {s.id}]
  /\ send' = [send EXCEPT ![t] = NoSend]
  /\ UNCHANGED <<now, active, ack, walk, shown, spent>>

\* The process dies or the commit fails: the row never was.
SendRollback(t) ==
  /\ send[t].pc = "inserted"
  /\ msg' = [msg EXCEPT ![send[t].id] = NoRow]
  /\ send' = [send EXCEPT ![t] = NoSend]
  /\ UNCHANGED <<now, active, ack, walk, shown, returned, spent>>

\* The stored message a conflicting send is a replay of.
Replay(t) ==
  {i \in Live : msg[i].key = send[t].key /\ msg[i].body = send[t].body
                /\ msg[i].expires > send[t].created}

\* The read after the conflict is a statement of its own.
SendReadExisting(t) ==
  LET s == send[t] IN
  /\ s.pc = "conflict"
  /\ \/ \E i \in Replay(t) :
          /\ returned' = [returned EXCEPT ![s.key] = @ \cup {i}]
          /\ send' = [send EXCEPT ![t] = NoSend]
     \/ /\ Replay(t) = {}
        /\ send' = [send EXCEPT ![t].pc = "reused"]
        /\ UNCHANGED returned
  /\ UNCHANGED <<now, active, msg, ack, walk, shown, spent>>

\* The client is told that its key was reused.
SendRefused(t) ==
  /\ send[t].pc = "reused"
  /\ send' = [send EXCEPT ![t] = NoSend]
  /\ UNCHANGED <<now, active, msg, ack, walk, shown, returned, spent>>

------------------------------------------------------------------------------
(* History.                                                                *)

\* Mutant: the cursor compares creation times only.
OlderLoose(i, cursor) == cursor = NoId \/ msg[i].created < msg[cursor].created

\* Rows a page may hold: the whole conversation, or those before the cursor.
Older(i, cursor) == cursor = NoId \/ Before(i, cursor)

\* The newest rows of a set, at most n of them.
NewestOf(S, n) == {i \in S : Cardinality({j \in S : Before(i, j)}) < n}

WalkBegin(u) ==
  /\ active /\ walk[u].pc = "idle" /\ spent.walk < MaxWalks
  /\ walk' = [walk EXCEPT ![u] = [NoWalk EXCEPT !.pc = "walking", !.must = Live]]
  /\ spent' = [spent EXCEPT !.walk = @ + 1]
  /\ UNCHANGED <<now, active, msg, send, ack, shown, returned>>

\* One page; next_before is its oldest row while there is more.
WalkPage(u) ==
  LET w == walk[u] IN
  /\ active /\ w.pc = "walking"
  /\ \E t \in ClockReading :
       LET found == {i \in Live : msg[i].expires > t /\ Older(i, w.cursor)}
           page == NewestOf(found, PageSize)
       IN /\ walk' = [walk EXCEPT ![u] =
               [pc |-> IF page = found THEN "done" ELSE "walking",
                cursor |-> IF page = found THEN NoId
                           ELSE CHOOSE i \in page : \A j \in page \ {i} : Before(i, j),
                must |-> w.must, got |-> w.got \cup page,
                twice |-> w.twice \/ page \cap w.got # {}]]
          /\ shown' = [shown EXCEPT ![u] = @ \cup page]
  /\ UNCHANGED <<now, active, msg, send, ack, returned, spent>>

WalkEnd(u) ==
  /\ walk[u].pc = "done"
  /\ walk' = [walk EXCEPT ![u] = NoWalk]
  /\ UNCHANGED <<now, active, msg, send, ack, shown, returned, spent>>

------------------------------------------------------------------------------
(* Acknowledgements and retention.                                         *)

\* The view acknowledges an incoming message it shows; the clock is read first.
AckBegin(a) ==
  LET u == AckBy[a] IN
  /\ ack[a].pc = "idle" /\ spent.ack < MaxAcks
  /\ \E i \in shown[u], c \in ClockReading :
       /\ Author(i) # u
       /\ ack' = [ack EXCEPT ![a] =
            [NoAck EXCEPT !.pc = "timed", !.now = c, !.bound = i]]
  /\ spent' = [spent EXCEPT !.ack = @ + 1]
  /\ UNCHANGED <<now, active, msg, send, walk, shown, returned>>

AckAuthorize(a) ==
  /\ ack[a].pc = "timed"
  /\ ack' = [ack EXCEPT ![a] =
       IF active /\ Effective(ack[a].bound, ack[a].now)
         THEN [@ EXCEPT !.pc = "bounded"] ELSE NoAck]
  /\ UNCHANGED <<now, active, msg, send, walk, shown, returned, spent>>

\* Mutant: every unread incoming message is marked.
MarkedAll(a) ==
  {i \in Live : Author(i) # AckBy[a] /\ msg[i].read = Never
                /\ msg[i].expires > ack[a].now}

\* The rows the conditional update takes.
Marked(a) ==
  {i \in Live : Author(i) # AckBy[a] /\ msg[i].read = Never
                /\ msg[i].expires > ack[a].now /\ ~Before(ack[a].bound, i)}

Locked == UNION {ack[a].marks : a \in Acks}

\* The update waits for rows another acknowledgement holds, and locks its own;
\* a row whose creation time is ahead of the reader's clock fails its check.
AckUpdate(a) ==
  /\ ack[a].pc = "bounded"
  /\ Marked(a) \cap Locked = {}
  /\ ack' = [ack EXCEPT ![a] =
       IF \E i \in Marked(a) : msg[i].created > ack[a].now
         THEN [@ EXCEPT !.pc = "refused"]
         ELSE [@ EXCEPT !.pc = "updated", !.marks = Marked(a)]]
  /\ UNCHANGED <<now, active, msg, send, walk, shown, returned, spent>>

AckCommit(a) ==
  /\ ack[a].pc = "updated"
  /\ msg' = [i \in Ids |->
       IF i \in ack[a].marks
         THEN [msg[i] EXCEPT !.read = ack[a].now,
                 !.expires = Smaller(msg[i].expires, ack[a].now + ReadAge)]
         ELSE msg[i]]
  /\ ack' = [ack EXCEPT ![a] = NoAck]
  /\ UNCHANGED <<now, active, send, walk, shown, returned, spent>>

\* The transaction ends without effect.
AckRollback(a) ==
  /\ ack[a].pc \in {"updated", "refused"}
  /\ ack' = [ack EXCEPT ![a] = NoAck]
  /\ UNCHANGED <<now, active, msg, send, walk, shown, returned, spent>>

Due == {i \in Live : msg[i].expires <= now}
DueBefore(i, j) ==
  \/ msg[i].expires < msg[j].expires
  \/ msg[i].expires = msg[j].expires /\ i < j

\* One cleanup batch: the earliest due rows that nobody has locked.
Cleanup ==
  LET free == Due \ Locked
      batch == {i \in free : Cardinality({j \in free : DueBefore(j, i)}) < BatchSize}
  IN
  /\ batch # {}
  /\ msg' = [i \in Ids |-> IF i \in batch THEN [msg[i] EXCEPT !.st = "deleted"] ELSE msg[i]]
  /\ UNCHANGED <<now, active, send, ack, walk, shown, returned, spent>>

Tick ==
  /\ now < MaxTime
  /\ now' = now + 1
  /\ UNCHANGED <<active, msg, send, ack, walk, shown, returned, spent>>

MatchEnds ==
  /\ active /\ active' = FALSE
  /\ UNCHANGED <<now, msg, send, ack, walk, shown, returned, spent>>

SendStep(t) ==
  \/ SendInsert(t) \/ SendCommit(t) \/ SendReadExisting(t) \/ SendRefused(t)
AckStep(a) == AckAuthorize(a) \/ AckUpdate(a) \/ AckCommit(a) \/ AckRollback(a)

Next ==
  \/ \E t \in Sends : SendBegin(t) \/ SendStep(t) \/ SendRollback(t)
  \/ \E a \in Acks : AckBegin(a) \/ AckStep(a)
  \/ \E u \in Users : WalkBegin(u) \/ WalkPage(u) \/ WalkEnd(u)
  \/ Cleanup \/ Tick \/ MatchEnds

Spec == Init /\ [][Next]_vars

------------------------------------------------------------------------------
(* Properties.                                                             *)

\* Every record keeps its shape, and every stored row its retention check:
\* 90 days unread, the earlier of that and 30 days after the first read.
TypeOK ==
  /\ now \in 0..MaxTime /\ active \in BOOLEAN
  /\ \A i \in Ids :
       /\ msg[i].st \in {"none", "open", "live", "deleted"}
       /\ msg[i].st # "none" =>
            /\ msg[i].key \in Keys /\ msg[i].body \in Bodies
            /\ IF msg[i].read = Never THEN msg[i].expires = msg[i].created + MaxAge
               ELSE /\ msg[i].read >= msg[i].created
                    /\ msg[i].expires = Smaller(msg[i].read + ReadAge, msg[i].created + MaxAge)
  /\ \A t \in Sends : send[t].pc \in {"idle", "timed", "inserted", "conflict", "reused"}
  /\ \A a \in Acks :
       /\ ack[a].pc \in {"idle", "timed", "bounded", "updated", "refused"}
       /\ ack[a].marks \subseteq Ids
       /\ ack[a].pc = "updated" => ack[a].marks \subseteq Live
  /\ \A u \in Users : shown[u] \subseteq Ids /\ walk[u].got \subseteq shown[u]

\* However many attempts carry a client id, at most one message holds it, and
\* two accepted attempts got different messages only if the first had expired
\* when the second was inserted.
RetryConverges ==
  \A k \in Keys :
    /\ Cardinality(Holds(k)) <= 1
    /\ \A i, j \in returned[k] :
         i # j => msg[i].expires <= msg[j].at \/ msg[j].expires <= msg[i].at

\* An acknowledgement marks nothing newer than what the reader has been shown,
\* although messages commit between the page, the acknowledgement's clock and
\* its update.
NothingNewerIsMarked ==
  \A i \in Ids : msg[i].st = "live" /\ msg[i].read # Never =>
    \E u \in Users \ {Author(i)} : \E s \in shown[u] : ~Before(s, i)

\* A walk to the oldest page shows every message that was stored when it began
\* and is still effective, and no message twice, while others are inserted,
\* expire and are deleted between its pages.
PagesAreComplete ==
  \A u \in Users :
    /\ ~walk[u].twice
    /\ walk[u].pc = "done" =>
         \A i \in walk[u].must : Effective(i, now + Skew) => i \in walk[u].got

=============================================================================
