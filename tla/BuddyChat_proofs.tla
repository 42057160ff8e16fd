--------------------------- MODULE BuddyChat_proofs ---------------------------
(***************************************************************************)
(* Proofs about BuddyChat, for any participants, keys, message ids and     *)
(* transactions in flight, any page and batch size, any retention and any  *)
(* skew of the clocks.                                                     *)
(***************************************************************************)
EXTENDS BuddyChat, FiniteSetTheorems, WellFoundedInduction, TLAPS

------------------------------------------------------------------------------
(* The inductive invariant.                                                *)

Row == [st : {"none", "open", "live", "deleted"}, key : Keys \cup {0},
        body : Bodies \cup {0}, created : Nat, read : Nat \cup {Never},
        expires : Nat, at : Nat]
SendState == [pc : {"idle", "timed", "inserted", "conflict", "reused"},
              key : Keys \cup {0}, body : Bodies \cup {0}, created : Nat,
              id : Ids \cup {NoId}]
AckState == [pc : {"idle", "timed", "bounded", "updated", "refused"},
             now : Nat, bound : Ids \cup {NoId}, marks : SUBSET Ids]
WalkState == [pc : {"idle", "walking", "done"}, cursor : Ids \cup {NoId},
              must : SUBSET Ids, got : SUBSET Ids, twice : BOOLEAN]

Typed ==
  /\ now \in 0..MaxTime /\ active \in BOOLEAN
  /\ msg \in [Ids -> Row]
  /\ send \in [Sends -> SendState]
  /\ ack \in [Acks -> AckState]
  /\ walk \in [Users -> WalkState]
  /\ shown \in [Users -> SUBSET Ids]
  /\ returned \in [Keys -> SUBSET Ids]
  /\ spent \in [send : Nat, ack : Nat, walk : Nat]

\* A row whose insert has committed, whether or not it was cleaned up since.
Stored(i) == msg[i].st \in {"live", "deleted"}
Exists(i) == msg[i].st # "none"

\* The retention check of one row.
Retained(m) ==
  IF m.read = Never THEN m.expires = m.created + MaxAge
  ELSE /\ m.read >= m.created
       /\ m.expires = Smaller(m.read + ReadAge, m.created + MaxAge)

\* Rows come from sends, are finitely many, and go only once they are due.
RowsKept ==
  /\ \A i \in Ids : Exists(i) =>
       /\ msg[i].key \in Keys /\ msg[i].body \in Bodies
       /\ Retained(msg[i]) /\ msg[i].at <= now
       /\ msg[i].st = "deleted" => msg[i].expires <= now
       /\ msg[i].st = "open" => msg[i].read = Never
  /\ IsFiniteSet({i \in Ids : Exists(i)})

\* One holder of a key at a time; a later row of the key was inserted when the
\* earlier one had expired.
KeysApart ==
  /\ \A i, j \in Ids :
       /\ msg[i].st \in {"open", "live"} /\ msg[j].st \in {"open", "live"}
       /\ msg[i].key = msg[j].key
       => i = j
  /\ \A i, j \in Ids :
       Exists(i) /\ Exists(j) /\ i # j /\ msg[i].key = msg[j].key =>
         msg[i].expires <= msg[j].at \/ msg[j].expires <= msg[i].at
  /\ \A k \in Keys : \A i \in returned[k] : Stored(i) /\ msg[i].key = k

\* An open row belongs to the one transaction that inserted it.
SendsOwn ==
  /\ \A t \in Sends : send[t].pc # "idle" =>
       send[t].key \in Keys /\ send[t].body \in Bodies
  /\ \A t \in Sends : send[t].pc = "inserted" =>
       /\ send[t].id \in Ids /\ msg[send[t].id].st = "open"
       /\ msg[send[t].id].key = send[t].key
  /\ \A t, s \in Sends :
       send[t].pc = "inserted" /\ send[s].pc = "inserted" /\ send[t].id = send[s].id
       => t = s

\* What an acknowledgement has locked is still as the update found it.
MarksHold ==
  /\ \A a \in Acks : ack[a].pc # "updated" => ack[a].marks = {}
  /\ \A a \in Acks : \A i \in ack[a].marks :
       /\ msg[i].st = "live" /\ msg[i].read = Never
       /\ msg[i].created <= ack[a].now
       /\ Author(i) # AckBy[a] /\ ~Before(ack[a].bound, i)
  /\ \A a, b \in Acks : a # b => ack[a].marks \cap ack[b].marks = {}

\* The bound of an acknowledgement has been shown to its reader.
BoundsSeen ==
  /\ \A u \in Users : \A i \in shown[u] : Stored(i)
  /\ \A a \in Acks : ack[a].pc # "idle" => ack[a].bound \in shown[AckBy[a]]

\* A walk has what is effective from its cursor on, and nothing before it.
WalkKept(u) ==
  LET w == walk[u] IN
  /\ w.got \subseteq shown[u] /\ ~w.twice
  /\ \A i \in w.must : Stored(i)
  /\ w.pc = "walking" =>
       /\ IF w.cursor = NoId THEN w.got = {}
          ELSE /\ w.cursor \in w.got
               /\ \A i \in w.got : i = w.cursor \/ Before(w.cursor, i)
       /\ \A i \in w.must :
            Effective(i, now + Skew) => i \in w.got \/ Older(i, w.cursor)
  /\ w.pc = "done" =>
       \A i \in w.must : Effective(i, now + Skew) => i \in w.got

IInv ==
  /\ Typed /\ RowsKept /\ KeysApart /\ SendsOwn /\ MarksHold /\ BoundsSeen
  /\ NothingNewerIsMarked /\ \A u \in Users : WalkKept(u)

------------------------------------------------------------------------------
(* Least numbers, rows and pages.                                          *)

Less == {ss \in Nat \X Nat : ss[1] < ss[2]}

LEMMA LessIsWellFounded == IsWellFoundedOn(Less, Nat)
BY NatLessThanWellFounded DEF OpToRel, Less

LEMMA LeastNatural ==
    ASSUME NEW S \in SUBSET Nat, S # {}
    PROVE  \E m \in S : \A k \in S : m <= k
<1>1. PICK m \in S : \A k \in S : <<k, m>> \notin Less
    BY LessIsWellFounded, WFMin
<1>2. \A k \in S : ~(k < m)
    BY <1>1 DEF Less
<1> QED BY <1>2

\* The index orders the rows.
LEMMA BeforeIsTotal ==
    ASSUME Typed
    PROVE  /\ \A i \in Ids : ~Before(i, i)
           /\ \A i, j \in Ids : i = j \/ Before(i, j) \/ Before(j, i)
           /\ \A i, j, k \in Ids : Before(i, j) /\ Before(j, k) => Before(i, k)
<1>1. \A i \in Ids : i \in Nat /\ msg[i].created \in Nat
    BY ChatAssumption DEF Typed, Row
<1> QED BY <1>1 DEF Before

\* Rows that are not empty have an oldest one.
LEMMA OldestRow ==
    ASSUME Typed, NEW S \in SUBSET Ids, S # {}
    PROVE  \E i \in S : \A j \in S \ {i} : Before(i, j)
<1>1. \A i \in S : i \in Nat /\ msg[i].created \in Nat
    BY ChatAssumption DEF Typed, Row
<1> DEFINE C == {msg[i].created : i \in S}
<1>2. C \in SUBSET Nat /\ C # {}
    BY <1>1
<1>3. PICK c \in C : \A d \in C : c <= d
    BY <1>2, LeastNatural
<1> DEFINE F == {i \in S : msg[i].created = c}
<1>4. F \in SUBSET Nat /\ F # {}
    BY <1>1, <1>3
<1>5. PICK i \in F : \A j \in F : i <= j
    BY <1>4, LeastNatural
<1>6. ASSUME NEW j \in S \ {i} PROVE Before(i, j)
    <2>1. c <= msg[j].created /\ msg[i].created = c /\ c \in Nat
        BY <1>1, <1>3, <1>5
    <2>2. CASE msg[j].created = c
        BY <1>1, <1>5, <2>1, <2>2 DEF Before
    <2>3. CASE msg[j].created # c
        BY <1>1, <2>1, <2>3 DEF Before
    <2> QED BY <2>2, <2>3
<1> QED BY <1>5, <1>6

\* And, when they can be counted, a newest one: a row with the fewest newer rows.
LEMMA NewestRow ==
    ASSUME Typed, NEW S \in SUBSET Ids, IsFiniteSet(S), S # {}
    PROVE  \E i \in S : {j \in S : Before(i, j)} = {}
<1> DEFINE Newer(i) == {j \in S : Before(i, j)}
           C == {Cardinality(Newer(i)) : i \in S}
<1>1. \A i \in S : IsFiniteSet(Newer(i)) /\ Cardinality(Newer(i)) \in Nat
    <2>1. \A i \in S : Newer(i) \in SUBSET S
        OBVIOUS
    <2> QED BY <2>1, FS_Subset, FS_CardinalityType
<1>2. C \in SUBSET Nat /\ C # {}
    BY <1>1
<1>3. PICK c \in C : \A d \in C : c <= d
    BY <1>2, LeastNatural
<1>4. PICK i \in S : c = Cardinality(Newer(i))
    BY <1>3
<1>5. ASSUME NEW j \in Newer(i) PROVE FALSE
    <2>1. Newer(j) \in SUBSET Newer(i) /\ j \notin Newer(j)
        BY <1>5, BeforeIsTotal
    <2>2. Cardinality(Newer(i)) <= Cardinality(Newer(j))
        BY <1>3, <1>4
    <2>3. Cardinality(Newer(j)) <= Cardinality(Newer(i))
        BY <1>1, <2>1, FS_Subset
    <2>4. Cardinality(Newer(j)) = Cardinality(Newer(i))
        <3>1. Cardinality(Newer(i)) \in Nat /\ Cardinality(Newer(j)) \in Nat
            BY <1>1
        <3> HIDE DEF Newer
        <3> QED BY <3>1, <2>2, <2>3
    <2>5. Newer(i) = Newer(j)
        BY <1>1, <2>1, <2>4, FS_Subset
    <2> QED BY <1>5, <2>1, <2>5
<1> QED BY <1>5

\* A page that leaves rows out has an oldest row, and what it leaves out is
\* older: the cursor it returns splits the rows found.
LEMMA CursorSplits ==
    ASSUME Typed, NEW S \in SUBSET Ids, IsFiniteSet(S), NewestOf(S, PageSize) # S
    PROVE  LET page == NewestOf(S, PageSize)
               c == CHOOSE i \in page : \A j \in page \ {i} : Before(i, j)
           IN  /\ c \in page
               /\ \A j \in page : j = c \/ Before(c, j)
               /\ \A i \in S \ page : Before(i, c)
<1> DEFINE Newer(i) == {j \in S : Before(i, j)}
           page == NewestOf(S, PageSize)
           c == CHOOSE i \in page : \A j \in page \ {i} : Before(i, j)
<1>1. \A i \in S : IsFiniteSet(Newer(i)) /\ Cardinality(Newer(i)) \in Nat
    <2>1. \A i \in S : Newer(i) \in SUBSET S
        OBVIOUS
    <2> QED BY <2>1, FS_Subset, FS_CardinalityType
<1>2. page = {i \in S : Cardinality(Newer(i)) < PageSize}
    BY DEF NewestOf
<1>3. page # {}
    <2>1. S # {}
        BY <1>2
    <2>2. PICK i \in S : Newer(i) = {}
        BY <2>1, NewestRow
    <2>3. Cardinality(Newer(i)) = 0
        BY <2>2, FS_EmptySet
    <2>4. 0 < PageSize
        BY ChatAssumption
    <2> QED BY <1>2, <2>3, <2>4
<1>4. page \in SUBSET Ids
    BY <1>2
<1>5. \E i \in page : \A j \in page \ {i} : Before(i, j)
    BY <1>3, <1>4, OldestRow
<1> HIDE DEF page
<1>6. c \in page /\ \A j \in page \ {c} : Before(c, j)
    BY <1>5
<1> HIDE DEF c
<1>7. ASSUME NEW i \in S \ page PROVE Before(i, c)
    <2> SUFFICES ASSUME ~Before(i, c) PROVE FALSE
        OBVIOUS
    <2>1. i \in Ids /\ c \in Ids /\ c \in S
        BY <1>2, <1>4, <1>6
    <2>2. Before(c, i)
        BY <1>6, <1>7, <2>1, BeforeIsTotal
    <2>3. Newer(i) \in SUBSET Newer(c)
        BY <2>1, <2>2, BeforeIsTotal
    <2>4. Cardinality(Newer(i)) <= Cardinality(Newer(c))
        BY <1>1, <2>1, <2>3, FS_Subset
    <2>5. Cardinality(Newer(c)) < PageSize /\ ~(Cardinality(Newer(i)) < PageSize)
        BY <1>2, <1>6, <1>7
    <2>6. Cardinality(Newer(i)) \in Nat /\ Cardinality(Newer(c)) \in Nat /\ PageSize \in Nat
        BY <1>1, <1>7, <2>1, ChatAssumption
    <2> HIDE DEF Newer
    <2> QED BY <2>4, <2>5, <2>6
<1> QED BY <1>6, <1>7 DEF page, c

------------------------------------------------------------------------------
(* Steps that leave rows as they were, and steps that keep stored rows.     *)

LEMMA InitIInv == Init => IInv
<1> SUFFICES ASSUME Init PROVE IInv
    OBVIOUS
<1> USE DEF Init
<1>1. Typed
    BY ChatAssumption DEF Typed, Row, SendState, AckState, WalkState,
        NoRow, NoSend, NoAck, NoWalk, NoId, Never
<1>2. RowsKept
    <2>1. {i \in Ids : Exists(i)} = {}
        BY DEF Exists, NoRow
    <2> QED BY <2>1, FS_EmptySet DEF RowsKept, Exists, NoRow
<1>3. KeysApart /\ SendsOwn /\ MarksHold /\ BoundsSeen /\ NothingNewerIsMarked
    BY DEF KeysApart, SendsOwn, MarksHold, BoundsSeen, NothingNewerIsMarked, Exists,
        NoRow, NoSend, NoAck
<1>4. \A u \in Users : WalkKept(u)
    BY DEF WalkKept, NoWalk
<1> QED BY <1>1, <1>2, <1>3, <1>4 DEF IInv

\* The parts of the invariant read only these variables.
LEMMA Frame ==
    /\ RowsKept /\ UNCHANGED <<now, msg>> => RowsKept'
    /\ KeysApart /\ UNCHANGED <<msg, returned>> => KeysApart'
    /\ SendsOwn /\ UNCHANGED <<msg, send>> => SendsOwn'
    /\ MarksHold /\ UNCHANGED <<msg, ack>> => MarksHold'
    /\ BoundsSeen /\ UNCHANGED <<msg, ack, shown>> => BoundsSeen'
    /\ NothingNewerIsMarked /\ UNCHANGED <<msg, shown>> => NothingNewerIsMarked'
    /\ (\A u \in Users : WalkKept(u)) /\ UNCHANGED <<now, msg, walk, shown>>
         => (\A u \in Users : WalkKept(u))'
<1>1. RowsKept /\ UNCHANGED <<now, msg>> => RowsKept'
    BY DEF RowsKept, Exists
<1>2. KeysApart /\ UNCHANGED <<msg, returned>> => KeysApart'
    BY DEF KeysApart, Exists, Stored
<1>3. SendsOwn /\ UNCHANGED <<msg, send>> => SendsOwn'
    BY DEF SendsOwn
<1>4. MarksHold /\ UNCHANGED <<msg, ack>> => MarksHold'
    BY DEF MarksHold, Author, Before
<1>5. BoundsSeen /\ UNCHANGED <<msg, ack, shown>> => BoundsSeen'
    BY DEF BoundsSeen, Stored
<1>6. NothingNewerIsMarked /\ UNCHANGED <<msg, shown>> => NothingNewerIsMarked'
    BY DEF NothingNewerIsMarked, Author, Before
<1>7. (\A u \in Users : WalkKept(u)) /\ UNCHANGED <<now, msg, walk, shown>>
        => (\A u \in Users : WalkKept(u))'
    BY DEF WalkKept, Stored, Effective, Live, Older, Before
<1> QED BY <1>1, <1>2, <1>3, <1>4, <1>5, <1>6, <1>7

\* A stored message keeps its identity and its place in the order; it can only
\* expire earlier, and one that is gone does not come back.
RowStays(i) ==
  /\ Stored(i)'
  /\ msg'[i].key = msg[i].key /\ msg'[i].body = msg[i].body
  /\ msg'[i].created = msg[i].created /\ msg'[i].at = msg[i].at
  /\ msg'[i].expires <= msg[i].expires
  /\ msg'[i].st = "live" => msg[i].st = "live"

RowsStay == \A i \in Ids : Stored(i) => RowStays(i)

LEMMA SameRowsStay == ASSUME Typed, UNCHANGED msg PROVE RowsStay
<1>1. \A i \in Ids : msg[i].expires \in Nat
    BY DEF Typed, Row
<1> QED BY <1>1 DEF RowsStay, RowStays, Stored

LEMMA OrderStays ==
    ASSUME RowsStay, NEW i \in Ids, NEW j \in Ids, Stored(i), Stored(j)
    PROVE  /\ Before(i, j)' <=> Before(i, j)
           /\ Author(i)' = Author(i)
BY DEF RowsStay, RowStays, Before, Author

\* Walks in which nothing happens go on.
LEMMA WalksStay ==
    ASSUME Typed, Typed', BoundsSeen, RowsStay, now <= now',
           NEW u \in Users, WalkKept(u), walk'[u] = walk[u], shown[u] \subseteq shown'[u]
    PROVE  WalkKept(u)'
<1>1. /\ walk[u].got \in SUBSET Ids /\ walk[u].must \in SUBSET Ids
      /\ walk[u].cursor \in Ids \cup {NoId} /\ shown[u] \in SUBSET Ids
    BY DEF Typed, WalkState
<1>2. \A i \in walk[u].must : Stored(i) /\ Stored(i)'
    BY <1>1 DEF WalkKept, RowsStay, RowStays
<1>3. \A i \in walk[u].got : Stored(i)
    BY <1>1 DEF WalkKept, BoundsSeen
<1>4. \A i \in walk[u].must : Effective(i, now + Skew)' => Effective(i, now + Skew)
    <2> SUFFICES ASSUME NEW i \in walk[u].must, Effective(i, now + Skew)'
                 PROVE  Effective(i, now + Skew)
        OBVIOUS
    <2>1. i \in Ids /\ RowStays(i)
        BY <1>1, <1>2 DEF RowsStay
    <2>2. /\ msg[i].expires \in Nat /\ msg'[i].expires \in Nat
          /\ now \in Nat /\ now' \in Nat /\ Skew \in Nat
        BY <2>1, ChatAssumption DEF Typed, Row
    <2> QED BY <2>1, <2>2 DEF Effective, Live, RowStays
<1>5. walk[u].pc = "walking" /\ walk[u].cursor # NoId =>
        \A i \in walk[u].got : i = walk[u].cursor \/ Before(walk[u].cursor, i)'
    BY <1>1, <1>3, OrderStays DEF WalkKept
<1>6. walk[u].pc = "walking" =>
        \A i \in walk[u].must :
            Effective(i, now + Skew)' => i \in walk[u].got \/ Older(i, walk[u].cursor)'
    <2> SUFFICES ASSUME walk[u].pc = "walking", NEW i \in walk[u].must,
                        Effective(i, now + Skew)', i \notin walk[u].got
                 PROVE  Older(i, walk[u].cursor)'
        OBVIOUS
    <2>1. Older(i, walk[u].cursor)
        BY <1>4 DEF WalkKept
    <2>2. CASE walk[u].cursor = NoId
        BY <2>2 DEF Older
    <2>3. CASE walk[u].cursor # NoId
        <3>1. walk[u].cursor \in walk[u].got
            BY <2>3 DEF WalkKept
        <3>2. i \in Ids /\ Stored(i) /\ walk[u].cursor \in Ids /\ Stored(walk[u].cursor)
            BY <1>1, <1>2, <1>3, <3>1
        <3> QED BY <2>1, <2>3, <3>2, OrderStays DEF Older
    <2> QED BY <2>2, <2>3
<1>7. walk[u].got \subseteq shown'[u] /\ ~walk[u].twice
    BY DEF WalkKept
<1> QED BY <1>2, <1>4, <1>5, <1>6, <1>7 DEF WalkKept

\* A step that keeps stored rows, leaves locked ones alone and marks only rows
\* that an acknowledgement had locked, keeps what requests and walks know.
LEMMA RowStep ==
    ASSUME IInv, Typed', RowsStay, UNCHANGED <<now, walk, shown>>,
           \A a \in Acks : ack'[a] \in {ack[a], NoAck},
           \A a \in Acks : \A j \in ack'[a].marks : msg'[j] = msg[j],
           \A j \in Ids : msg'[j].st = "live" /\ msg'[j].read # Never =>
             \/ msg[j].st = "live" /\ msg[j].read # Never
             \/ \E a \in Acks : j \in ack[a].marks
    PROVE  /\ MarksHold' /\ BoundsSeen' /\ NothingNewerIsMarked'
           /\ \A u \in Users : WalkKept(u)'
<1>1. \A a \in Acks : \A j \in ack[a].marks : j \in Ids /\ Stored(j)
    BY DEF IInv, Typed, AckState, MarksHold, Stored
<1>2. \A a \in Acks : ack[a].pc # "idle" =>
        /\ AckBy[a] \in Users /\ ack[a].bound \in shown[AckBy[a]]
        /\ ack[a].bound \in Ids /\ Stored(ack[a].bound)
    BY ChatAssumption DEF IInv, Typed, BoundsSeen
<1>3. \A a \in Acks : \A j \in ack[a].marks :
        /\ ack[a].pc = "updated"
        /\ Author(j) # AckBy[a] /\ ~Before(ack[a].bound, j)
    BY DEF IInv, MarksHold
<1>4. \A a \in Acks : ack'[a] # ack[a] => ack'[a].pc = "idle" /\ ack'[a].marks = {}
    BY DEF NoAck
<1>5. MarksHold'
    <2>1. ASSUME NEW a \in Acks, ack'[a].pc # "updated" PROVE ack'[a].marks = {}
        BY <1>4, <2>1 DEF IInv, MarksHold
    <2>2. ASSUME NEW a \in Acks, NEW j \in ack'[a].marks
          PROVE  /\ msg'[j].st = "live" /\ msg'[j].read = Never
                 /\ msg'[j].created <= ack'[a].now
                 /\ Author(j)' # AckBy[a] /\ ~Before(ack[a].bound, j)'
                 /\ ack'[a] = ack[a]
        <3>1. ack'[a] = ack[a] /\ msg'[j] = msg[j]
            BY <1>4, <2>2
        <3>2. j \in ack[a].marks
            BY <2>2, <3>1
        <3>3. /\ msg[j].st = "live" /\ msg[j].read = Never
              /\ msg[j].created <= ack[a].now
            BY <3>2 DEF IInv, MarksHold
        <3>4. PICK b \in Ids : b = ack[a].bound /\ Stored(b)
            BY <1>2, <1>3, <3>2
        <3>5. ~Before(b, j) /\ Author(j) # AckBy[a]
            BY <1>3, <3>2, <3>4
        <3>6. ~Before(b, j)' /\ Author(j)' # AckBy[a]
            BY <1>1, <3>2, <3>4, <3>5, OrderStays
        <3> QED BY <3>1, <3>3, <3>4, <3>6
    <2>3. \A a, b \in Acks : a # b => ack'[a].marks \cap ack'[b].marks = {}
        <3>1. \A a \in Acks : ack'[a].marks \subseteq ack[a].marks
            BY <1>4
        <3>2. \A a, b \in Acks : a # b => ack[a].marks \cap ack[b].marks = {}
            BY DEF IInv, MarksHold
        <3> QED BY <3>1, <3>2
    <2> QED BY <2>1, <2>2, <2>3 DEF MarksHold, Before
<1>6. BoundsSeen'
    <2>1. \A u \in Users : \A i \in shown'[u] : Stored(i)'
        BY DEF IInv, Typed, BoundsSeen, RowsStay, RowStays
    <2> QED BY <1>2, <1>4, <2>1 DEF BoundsSeen
<1>7. NothingNewerIsMarked'
    <2> SUFFICES ASSUME NEW j \in Ids, msg'[j].st = "live", msg'[j].read # Never
                 PROVE  \E u \in Users \ {Author(j)'} : \E s \in shown[u] : ~Before(s, j)'
        BY DEF NothingNewerIsMarked
    <2>1. \E u \in Users \ {Author(j)} : \E s \in shown[u] : ~Before(s, j)
        <3>1. CASE msg[j].st = "live" /\ msg[j].read # Never
            BY <3>1 DEF IInv, NothingNewerIsMarked
        <3>2. CASE \E a \in Acks : j \in ack[a].marks
            BY <1>2, <1>3, <3>2
        <3> QED BY <3>1, <3>2
    <2>2. PICK u \in Users \ {Author(j)}, s \in Ids : s \in shown[u] /\ ~Before(s, j)
        BY <2>1 DEF IInv, Typed
    <2>3. Stored(s)
        BY <2>2 DEF IInv, BoundsSeen
    <2>4. Stored(j)
        BY <1>1 DEF Stored
    <2> QED BY <2>2, <2>3, <2>4, OrderStays
<1>8. \A u \in Users : WalkKept(u)'
    <2>1. now <= now'
        BY DEF IInv, Typed
    <2> QED BY <2>1, WalksStay DEF IInv
<1> QED BY <1>5, <1>6, <1>7, <1>8

------------------------------------------------------------------------------
(* Sends.                                                                  *)

\* What a step that changes only sends, and perhaps what they return, keeps.
LEMMA SendFrame ==
    ASSUME IInv, UNCHANGED <<now, msg, ack, walk, shown>>,
           Typed', KeysApart', SendsOwn'
    PROVE  IInv'
BY Frame DEF IInv

LEMMA SendBeginKeepsIInv == ASSUME IInv, NEW t \in Sends, SendBegin(t) PROVE IInv'
<1> USE DEF SendBegin
<1>1. PICK k \in Keys, b \in Bodies, c \in ClockReading :
        send' = [send EXCEPT ![t] =
          [pc |-> "timed", key |-> k, body |-> b, created |-> c, id |-> NoId]]
    OBVIOUS
<1>2. c \in Nat
    BY ChatAssumption DEF IInv, Typed, ClockReading
<1>3. Typed'
    BY <1>1, <1>2 DEF IInv, Typed, SendState
<1>4. \A s \in Sends : send'[s] = IF s = t THEN
        [pc |-> "timed", key |-> k, body |-> b, created |-> c, id |-> NoId] ELSE send[s]
    BY <1>1 DEF IInv, Typed
<1>5. SendsOwn'
    BY <1>4 DEF IInv, SendsOwn
<1>6. KeysApart'
    BY Frame DEF IInv
<1> QED BY <1>3, <1>5, <1>6, SendFrame

\* A send ends, or waits for its next statement, without a row of its own.
LEMMA SendMoves ==
    ASSUME IInv, NEW t \in Sends, NEW v \in SendState,
           v.pc \notin {"idle", "inserted"} => v.key \in Keys /\ v.body \in Bodies,
           v.pc # "inserted", send[t].pc # "inserted",
           send' = [send EXCEPT ![t] = v],
           UNCHANGED <<now, active, msg, ack, walk, shown, spent>>,
           returned' \in [Keys -> SUBSET Ids], KeysApart'
    PROVE  IInv'
<1>1. Typed'
    BY DEF IInv, Typed
<1>2. \A s \in Sends : send'[s] = IF s = t THEN v ELSE send[s]
    BY DEF IInv, Typed
<1>3. SendsOwn'
    BY <1>2 DEF IInv, SendsOwn
<1> QED BY <1>1, <1>3, SendFrame

LEMMA IdleSend == NoSend \in SendState /\ NoSend.pc = "idle"
BY DEF NoSend, SendState

LEMMA SendReadExistingKeepsIInv ==
    ASSUME IInv, NEW t \in Sends, SendReadExisting(t) PROVE IInv'
<1> USE DEF SendReadExisting
<1>0. send[t] \in SendState /\ returned \in [Keys -> SUBSET Ids]
    BY DEF IInv, Typed
<1>1. CASE \E i \in Replay(t) :
             /\ returned' = [returned EXCEPT ![send[t].key] = @ \cup {i}]
             /\ send' = [send EXCEPT ![t] = NoSend]
    <2>1. PICK i \in Replay(t) :
             /\ returned' = [returned EXCEPT ![send[t].key] = @ \cup {i}]
             /\ send' = [send EXCEPT ![t] = NoSend]
        BY <1>1
    <2>2. i \in Ids /\ Stored(i) /\ msg[i].key = send[t].key
        BY DEF Replay, Live, Stored
    <2>3. returned' \in [Keys -> SUBSET Ids]
        BY <1>0, <2>1, <2>2
    <2>4. \A k \in Keys :
            returned'[k] = IF k = send[t].key THEN returned[k] \cup {i} ELSE returned[k]
        BY <1>0, <2>1
    <2>5. msg' = msg /\ KeysApart
        <3>1. msg' = msg
            OBVIOUS
        <3>2. KeysApart
            BY DEF IInv
        <3> QED BY <3>1, <3>2
    <2>6. ASSUME NEW k \in Keys, NEW j \in returned'[k]
          PROVE  Stored(j) /\ msg[j].key = k
        <3>1. \A h \in returned[k] : Stored(h) /\ msg[h].key = k
            BY <2>5 DEF KeysApart
        <3>2. CASE j \in returned[k]
            BY <3>1, <3>2
        <3>3. CASE k = send[t].key /\ j = i
            BY <2>2, <3>3
        <3> QED BY <2>4, <2>6, <3>2, <3>3
    <2>7. KeysApart'
        BY <2>5, <2>6 DEF KeysApart, Exists, Stored
    <2> QED BY <2>1, <2>3, <2>7, IdleSend, SendMoves
<1>2. CASE /\ send' = [send EXCEPT ![t].pc = "reused"]
           /\ UNCHANGED returned
    <2>1. send' = [send EXCEPT ![t] = [send[t] EXCEPT !.pc = "reused"]]
        BY <1>2
    <2>2. [send[t] EXCEPT !.pc = "reused"] \in SendState
        BY <1>0 DEF SendState
    <2>3. send[t].key \in Keys /\ send[t].body \in Bodies
        BY DEF IInv, SendsOwn
    <2>4. KeysApart'
        BY <1>2, Frame DEF IInv
    <2>5. /\ [send[t] EXCEPT !.pc = "reused"].pc = "reused"
          /\ [send[t] EXCEPT !.pc = "reused"].key = send[t].key
          /\ [send[t] EXCEPT !.pc = "reused"].body = send[t].body
        BY <1>0 DEF SendState
    <2> QED BY <1>0, <1>2, <2>1, <2>2, <2>3, <2>4, <2>5, SendMoves
<1> QED BY <1>1, <1>2

LEMMA SendRefusedKeepsIInv == ASSUME IInv, NEW t \in Sends, SendRefused(t) PROVE IInv'
<1> USE DEF SendRefused
<1>1. KeysApart'
    BY Frame DEF IInv
<1>2. returned' \in [Keys -> SUBSET Ids]
    BY DEF IInv, Typed
<1> QED BY <1>1, <1>2, IdleSend, SendMoves

\* The insert takes a new row only when nobody holds the key; whoever held it
\* before had expired.
LEMMA InsertKeepsIInv ==
    ASSUME IInv, NEW t \in Sends, NEW i \in Ids,
           send[t].pc = "timed", KeyFree(send[t].key), msg[i].st = "none",
           msg' = [msg EXCEPT ![i] =
              [st |-> "open", key |-> send[t].key, body |-> send[t].body,
               created |-> send[t].created, read |-> Never,
               expires |-> send[t].created + MaxAge, at |-> now]],
           send' = [send EXCEPT ![t].pc = "inserted", ![t].id = i],
           UNCHANGED <<now, active, ack, walk, shown, returned, spent>>
    PROVE  IInv' /\ RowsStay
<1> DEFINE row == [st |-> "open", key |-> send[t].key, body |-> send[t].body,
                   created |-> send[t].created, read |-> Never,
                   expires |-> send[t].created + MaxAge, at |-> now]
<1>0. /\ send[t] \in SendState /\ msg \in [Ids -> Row] /\ send \in [Sends -> SendState]
      /\ send[t].key \in Keys /\ send[t].body \in Bodies /\ now \in Nat
    BY ChatAssumption DEF IInv, Typed, SendsOwn
<1>1. row \in Row
    <2>1. send[t].created \in Nat /\ send[t].created + MaxAge \in Nat
        BY <1>0, ChatAssumption DEF SendState
    <2> QED BY <1>0, <2>1 DEF Row
<1>2. \A j \in Ids : msg'[j] = IF j = i THEN row ELSE msg[j]
    BY <1>0
<1> HIDE DEF row
<1>3. send' = [send EXCEPT ![t] = [send[t] EXCEPT !.pc = "inserted", !.id = i]]
    BY <1>0
<1>4. /\ [send[t] EXCEPT !.pc = "inserted", !.id = i] \in SendState
      /\ [send[t] EXCEPT !.pc = "inserted", !.id = i].pc = "inserted"
      /\ [send[t] EXCEPT !.pc = "inserted", !.id = i].id = i
      /\ [send[t] EXCEPT !.pc = "inserted", !.id = i].key = send[t].key
      /\ [send[t] EXCEPT !.pc = "inserted", !.id = i].body = send[t].body
    BY <1>0 DEF SendState
<1>5. \A s \in Sends : send'[s] = IF s = t THEN
        [send[t] EXCEPT !.pc = "inserted", !.id = i] ELSE send[s]
    BY <1>0, <1>3
<1>6. msg' \in [Ids -> Row] /\ send' \in [Sends -> SendState]
    BY <1>0, <1>1, <1>3, <1>4 DEF row
<1>7. Typed'
    BY <1>6 DEF IInv, Typed
<1>8. /\ row.st = "open" /\ row.key = send[t].key /\ row.body = send[t].body
      /\ row.read = Never /\ row.expires = row.created + MaxAge /\ row.at = now
    BY DEF row
<1>9. RowsKept'
    <2>1. {j \in Ids : Exists(j)}' \subseteq {j \in Ids : Exists(j)} \cup {i}
        BY <1>2 DEF Exists
    <2>2. IsFiniteSet({j \in Ids : Exists(j)} \cup {i})
        BY FS_AddElement DEF IInv, RowsKept
    <2>3. IsFiniteSet({j \in Ids : Exists(j)}')
        BY <2>1, <2>2, FS_Subset
    <2>4. ASSUME NEW j \in Ids, Exists(j)'
          PROVE  /\ msg'[j].key \in Keys /\ msg'[j].body \in Bodies
                 /\ Retained(msg'[j]) /\ msg'[j].at <= now
                 /\ msg'[j].st = "deleted" => msg'[j].expires <= now
                 /\ msg'[j].st = "open" => msg'[j].read = Never
        <3>1. CASE j = i
            BY <1>0, <1>2, <1>8, <3>1 DEF Retained
        <3>2. CASE j # i
            BY <1>2, <2>4, <3>2 DEF IInv, RowsKept, Exists
        <3> QED BY <3>1, <3>2
    <2> QED BY <2>3, <2>4 DEF RowsKept, Exists
<1>10. \A j \in Ids : Exists(j) /\ msg[j].key = send[t].key =>
          msg[j].st = "deleted" /\ msg[j].expires <= now
    <2>1. \A j \in Ids : msg[j].st \in {"none", "open", "live", "deleted"}
        BY <1>0 DEF Row
    <2> QED BY <2>1 DEF IInv, RowsKept, Exists, KeyFree, Holds
<1>11. KeysApart'
    <2>1. ASSUME NEW j \in Ids, NEW k \in Ids,
                 msg'[j].st \in {"open", "live"}, msg'[k].st \in {"open", "live"},
                 msg'[j].key = msg'[k].key
          PROVE  j = k
        BY <1>2, <1>8, <1>10, <2>1 DEF IInv, KeysApart, Exists
    <2>2. ASSUME NEW j \in Ids, NEW k \in Ids, Exists(j)', Exists(k)', j # k,
                 msg'[j].key = msg'[k].key
          PROVE  msg'[j].expires <= msg'[k].at \/ msg'[k].expires <= msg'[j].at
        <3>1. CASE j = i
            BY <1>2, <1>8, <1>10, <2>2, <3>1 DEF Exists
        <3>2. CASE k = i
            BY <1>2, <1>8, <1>10, <2>2, <3>2 DEF Exists
        <3>3. CASE j # i /\ k # i
            BY <1>2, <2>2, <3>3 DEF IInv, KeysApart, Exists
        <3> QED BY <3>1, <3>2, <3>3
    <2>3. ASSUME NEW k \in Keys, NEW j \in returned[k]
          PROVE  Stored(j)' /\ msg'[j].key = k
        <3>1. j \in Ids /\ Stored(j) /\ msg[j].key = k
            BY DEF IInv, KeysApart, Typed
        <3> QED BY <1>2, <3>1 DEF Stored
    <2> QED BY <2>1, <2>2, <2>3 DEF KeysApart, Exists
<1>12. SendsOwn'
    <2>1. \A s \in Sends : send[s].pc = "inserted" => send[s].id \in Ids /\ send[s].id # i
        BY DEF IInv, SendsOwn
    <2> QED BY <1>0, <1>2, <1>4, <1>5, <1>8, <2>1 DEF IInv, SendsOwn
<1>13. RowsStay
    BY <1>0, <1>2 DEF RowsStay, RowStays, Stored, Row
<1>14. \A a \in Acks : \A j \in ack[a].marks : j \in Ids /\ j # i
    BY DEF IInv, Typed, AckState, MarksHold
<1> QED BY <1>2, <1>7, <1>8, <1>9, <1>11, <1>12, <1>13, <1>14, RowStep DEF IInv

LEMMA SendInsertKeepsIInv == ASSUME IInv, NEW t \in Sends, SendInsert(t) PROVE IInv' /\ RowsStay
<1> USE DEF SendInsert
<1>0. /\ send[t] \in SendState /\ returned \in [Keys -> SUBSET Ids]
      /\ send[t].key \in Keys /\ send[t].body \in Bodies
    BY DEF IInv, Typed, SendsOwn
<1>1. UNCHANGED returned
    OBVIOUS
<1>5. UNCHANGED msg => RowsStay
    BY SameRowsStay DEF IInv
<1>2. CASE /\ KeyFree(send[t].key)
           /\ \E i \in Ids :
                /\ msg[i].st = "none"
                /\ msg' = [msg EXCEPT ![i] =
                     [st |-> "open", key |-> send[t].key, body |-> send[t].body,
                      created |-> send[t].created, read |-> Never,
                      expires |-> send[t].created + MaxAge, at |-> now]]
                /\ send' = [send EXCEPT ![t].pc = "inserted", ![t].id = i]
    BY <1>2, InsertKeepsIInv
<1>3. CASE send' = [send EXCEPT ![t].pc = "conflict"] /\ UNCHANGED msg
    <2>1. send' = [send EXCEPT ![t] = [send[t] EXCEPT !.pc = "conflict"]]
        BY <1>3
    <2>2. /\ [send[t] EXCEPT !.pc = "conflict"] \in SendState
          /\ [send[t] EXCEPT !.pc = "conflict"].pc = "conflict"
          /\ [send[t] EXCEPT !.pc = "conflict"].key = send[t].key
          /\ [send[t] EXCEPT !.pc = "conflict"].body = send[t].body
        BY <1>0 DEF SendState
    <2>3. KeysApart'
        BY <1>1, <1>3, Frame DEF IInv
    <2> QED BY <1>0, <1>1, <1>3, <1>5, <2>1, <2>2, <2>3, SendMoves
<1>4. CASE send' = [send EXCEPT ![t] = NoSend] /\ UNCHANGED msg
    <2>1. KeysApart'
        BY <1>1, <1>4, Frame DEF IInv
    <2> QED BY <1>0, <1>1, <1>4, <1>5, <2>1, IdleSend, SendMoves
<1> QED BY <1>2, <1>3, <1>4

\* A commit makes the row visible and touches no other.
LEMMA SendCommitKeepsIInv == ASSUME IInv, NEW t \in Sends, SendCommit(t) PROVE IInv' /\ RowsStay
<1> USE DEF SendCommit
<1> DEFINE i == send[t].id
<1>0. /\ msg \in [Ids -> Row] /\ send \in [Sends -> SendState]
      /\ send[t].key \in Keys /\ i \in Ids
      /\ msg[i].st = "open" /\ msg[i].key = send[t].key
    BY DEF IInv, Typed, SendsOwn
<1> HIDE DEF i
<1> DEFINE row == [msg[i] EXCEPT !.st = "live"]
<1>1. \A j \in Ids : msg'[j] = IF j = i THEN row ELSE msg[j]
    BY <1>0 DEF i
<1>2. /\ row \in Row
      /\ row.st = "live"
      /\ row.key = msg[i].key
      /\ row.body = msg[i].body
      /\ row.created = msg[i].created
      /\ row.read = msg[i].read
      /\ row.expires = msg[i].expires
      /\ row.at = msg[i].at
    BY <1>0 DEF Row
<1> HIDE DEF row
<1>3. \A s \in Sends : send'[s] = IF s = t THEN NoSend ELSE send[s]
    BY <1>0
<1>4. \A k \in Keys : returned'[k] =
        IF k = send[t].key THEN returned[k] \cup {i} ELSE returned[k]
    BY DEF IInv, Typed, i
<1>5. Typed'
    <2>1. msg' = [msg EXCEPT ![i] = row]
        BY <1>0 DEF i, row
    <2>2. msg' \in [Ids -> Row]
        BY <1>0, <1>2, <2>1 DEF row
    <2>3. send' \in [Sends -> SendState]
        BY <1>0, IdleSend
    <2>4. returned' \in [Keys -> SUBSET Ids]
        BY <1>0 DEF IInv, Typed, i
    <2> QED BY <2>2, <2>3, <2>4 DEF IInv, Typed
<1>6. RowsKept'
    <2>1. {j \in Ids : Exists(j)}' = {j \in Ids : Exists(j)}
        BY <1>0, <1>1, <1>2 DEF Exists
    <2>2. \A j \in Ids : Exists(j) =>
            /\ msg[j].key \in Keys /\ msg[j].body \in Bodies
            /\ Retained(msg[j]) /\ msg[j].at <= now
            /\ msg[j].st = "deleted" => msg[j].expires <= now
            /\ msg[j].st = "open" => msg[j].read = Never
        BY DEF IInv, RowsKept
    <2>3. Retained(msg[i]) => Retained(row)
        BY <1>2 DEF Retained
    <2>4. \A j \in Ids : Exists(j)' =>
            /\ msg'[j].key \in Keys /\ msg'[j].body \in Bodies
            /\ Retained(msg'[j]) /\ msg'[j].at <= now
            /\ msg'[j].st = "deleted" => msg'[j].expires <= now
            /\ msg'[j].st = "open" => msg'[j].read = Never
        BY <1>0, <1>1, <1>2, <2>2, <2>3 DEF Exists
    <2> QED BY <2>1, <2>4 DEF IInv, RowsKept, Exists
<1>7. \A j \in Ids : /\ msg'[j].key = msg[j].key /\ msg'[j].expires = msg[j].expires
                     /\ msg'[j].at = msg[j].at /\ msg'[j].body = msg[j].body
                     /\ msg'[j].created = msg[j].created /\ msg'[j].read = msg[j].read
                     /\ msg'[j].st = IF j = i THEN "live" ELSE msg[j].st
    <2> HIDE DEF SendCommit
    <2> TAKE j \in Ids
    <2>1. CASE j = i
        BY <1>1, <1>2, <2>1
    <2>2. CASE j # i
        BY <1>1, <2>2
    <2> QED BY <2>1, <2>2
<1>8. KeysApart'
    <2>1. \A j, k \in Ids :
            /\ msg'[j].st \in {"open", "live"} /\ msg'[k].st \in {"open", "live"}
            /\ msg'[j].key = msg'[k].key
            => j = k
        BY <1>0, <1>7 DEF IInv, KeysApart
    <2>2. \A j, k \in Ids :
            Exists(j)' /\ Exists(k)' /\ j # k /\ msg'[j].key = msg'[k].key =>
              msg'[j].expires <= msg'[k].at \/ msg'[k].expires <= msg'[j].at
        BY <1>0, <1>7 DEF IInv, KeysApart, Exists
    <2>3. ASSUME NEW k \in Keys, NEW j \in returned'[k]
          PROVE  Stored(j)' /\ msg'[j].key = k
        <3>1. CASE j \in returned[k]
            <4>1. j \in Ids /\ Stored(j) /\ msg[j].key = k
                BY <3>1 DEF IInv, Typed, KeysApart
            <4> QED BY <1>7, <4>1 DEF Stored
        <3>2. CASE k = send[t].key /\ j = i
            BY <1>0, <1>7, <3>2 DEF Stored
        <3>3. returned'[k] = IF k = send[t].key THEN returned[k] \cup {i} ELSE returned[k]
            BY <1>4
        <3>4. j \in returned'[k]
            BY <2>3
        <3> HIDE DEF SendCommit
        <3> QED BY <3>1, <3>2, <3>3, <3>4
    <2> QED BY <2>1, <2>2, <2>3 DEF KeysApart, Exists
<1>9. SendsOwn'
    <2>1. \A s \in Sends \ {t} : send[s].pc = "inserted" => send[s].id \in Ids /\ send[s].id # i
        BY DEF IInv, SendsOwn, i
    <2> QED BY <1>3, <1>7, <2>1, IdleSend DEF IInv, SendsOwn
<1>10. RowsStay
    BY <1>0, <1>7 DEF RowsStay, RowStays, Stored, Row
<1>11. \A a \in Acks : \A j \in ack[a].marks : j \in Ids /\ j # i
    BY <1>0 DEF IInv, Typed, AckState, MarksHold
<1>12. msg[i].read = Never
    BY <1>0 DEF IInv, RowsKept, Exists
<1> QED BY <1>1, <1>5, <1>6, <1>7, <1>8, <1>9, <1>10, <1>11, <1>12, RowStep DEF IInv

\* A rolled back row was visible to nobody.
LEMMA SendRollbackKeepsIInv == ASSUME IInv, NEW t \in Sends, SendRollback(t) PROVE IInv' /\ RowsStay
<1> USE DEF SendRollback
<1> DEFINE i == send[t].id
<1>0. /\ msg \in [Ids -> Row] /\ send \in [Sends -> SendState]
      /\ i \in Ids /\ msg[i].st = "open"
    BY DEF IInv, Typed, SendsOwn
<1> HIDE DEF i
<1>1. \A j \in Ids : msg'[j] = IF j = i THEN NoRow ELSE msg[j]
    BY <1>0 DEF i
<1>2. NoRow.st = "none"
    BY DEF NoRow
<1>3. \A s \in Sends : send'[s] = IF s = t THEN NoSend ELSE send[s]
    BY <1>0
<1>4. Typed'
    <2>1. NoRow \in Row
        BY DEF NoRow, Row, Never
    <2>2. msg' \in [Ids -> Row]
        BY <1>0, <2>1 DEF i
    <2>3. send' \in [Sends -> SendState]
        BY <1>0, IdleSend
    <2> QED BY <2>2, <2>3 DEF IInv, Typed
<1>5. \A j \in Ids : msg'[j].st # "none" => j # i /\ msg'[j] = msg[j]
    BY <1>1, <1>2
<1>6. RowsKept'
    <2>1. {j \in Ids : Exists(j)}' \subseteq {j \in Ids : Exists(j)}
        BY <1>5 DEF Exists
    <2>2. IsFiniteSet({j \in Ids : Exists(j)}')
        BY <2>1, FS_Subset DEF IInv, RowsKept
    <2> QED BY <1>5, <2>2 DEF IInv, RowsKept, Exists
<1>7. KeysApart'
    <2>1. \A j, k \in Ids :
            /\ msg'[j].st \in {"open", "live"} /\ msg'[k].st \in {"open", "live"}
            /\ msg'[j].key = msg'[k].key
            => j = k
        BY <1>5 DEF IInv, KeysApart
    <2>2. \A j, k \in Ids :
            Exists(j)' /\ Exists(k)' /\ j # k /\ msg'[j].key = msg'[k].key =>
              msg'[j].expires <= msg'[k].at \/ msg'[k].expires <= msg'[j].at
        BY <1>5 DEF IInv, KeysApart, Exists
    <2>3. \A k \in Keys : \A j \in returned[k] : Stored(j)' /\ msg'[j].key = k
        BY <1>0, <1>1 DEF IInv, Typed, KeysApart, Stored
    <2> QED BY <2>1, <2>2, <2>3 DEF KeysApart, Exists
<1>8. SendsOwn'
    <2>1. \A s \in Sends \ {t} : send[s].pc = "inserted" => send[s].id \in Ids /\ send[s].id # i
        BY DEF IInv, SendsOwn, i
    <2> QED BY <1>1, <1>3, <2>1, IdleSend DEF IInv, SendsOwn
<1>9. RowsStay
    BY <1>0, <1>1 DEF RowsStay, RowStays, Stored, Row
<1>10. \A a \in Acks : \A j \in ack[a].marks : j \in Ids /\ j # i
    BY <1>0 DEF IInv, Typed, AckState, MarksHold
<1>11. \A j \in Ids : msg'[j].st = "live" => msg'[j] = msg[j]
    BY <1>5
<1> QED BY <1>1, <1>4, <1>6, <1>7, <1>8, <1>9, <1>10, <1>11, RowStep DEF IInv

------------------------------------------------------------------------------
(* Cleanup and read acknowledgements.                                      *)

\* Stored rows may be deleted once they are due and marked once they are read;
\* keys, bodies and times of creation stay, and retention only shrinks.
LEMMA RowsChange ==
    ASSUME IInv, NEW N \in SUBSET Ids,
           \A j \in N : Stored(j),
           \A j \in Ids \ N : msg'[j] = msg[j],
           \A j \in N :
             /\ msg'[j] \in Row /\ RowStays(j) /\ Retained(msg'[j])
             /\ msg'[j].st = "deleted" => msg'[j].expires <= now,
           UNCHANGED <<now, send, returned>>
    PROVE  RowsKept' /\ KeysApart' /\ SendsOwn' /\ RowsStay
<1>0. msg \in [Ids -> Row]
    BY DEF IInv, Typed
<1>1. RowsStay
    <2>1. ASSUME NEW j \in Ids \ N, Stored(j) PROVE RowStays(j)
        BY <1>0, <2>1 DEF RowStays, Stored, Row
    <2> QED BY <2>1 DEF RowsStay
<1>2. \A j \in N : /\ Stored(j) /\ Stored(j)'
                   /\ msg'[j].key = msg[j].key /\ msg'[j].body = msg[j].body
                   /\ msg'[j].at = msg[j].at /\ msg'[j].expires <= msg[j].expires
                   /\ msg'[j].st = "live" => msg[j].st = "live"
    BY DEF RowStays
<1>3. \A j \in Ids : /\ Exists(j)' <=> Exists(j)
                     /\ msg'[j].key = msg[j].key /\ msg'[j].body = msg[j].body
                     /\ msg'[j].at = msg[j].at /\ msg'[j].expires <= msg[j].expires
                     /\ msg[j].at \in Nat /\ msg'[j].expires \in Nat /\ msg[j].expires \in Nat
                     /\ msg'[j].st \in {"open", "live"} => msg[j].st \in {"open", "live"}
    <2> TAKE j \in Ids
    <2>1. CASE j \in N
        BY <1>0, <1>2, <2>1 DEF Stored, Exists, Row
    <2>2. CASE j \notin N
        BY <1>0, <2>2 DEF Exists, Row
    <2> QED BY <2>1, <2>2
<1>4. RowsKept'
    <2>1. {j \in Ids : Exists(j)}' = {j \in Ids : Exists(j)}
        BY <1>3
    <2>2. ASSUME NEW j \in Ids, Exists(j)'
          PROVE  /\ msg'[j].key \in Keys /\ msg'[j].body \in Bodies
                 /\ Retained(msg'[j]) /\ msg'[j].at <= now
                 /\ msg'[j].st = "deleted" => msg'[j].expires <= now
                 /\ msg'[j].st = "open" => msg'[j].read = Never
        <3>1. /\ msg[j].key \in Keys /\ msg[j].body \in Bodies
              /\ Retained(msg[j]) /\ msg[j].at <= now
              /\ msg[j].st = "deleted" => msg[j].expires <= now
              /\ msg[j].st = "open" => msg[j].read = Never
            BY <1>3, <2>2 DEF IInv, RowsKept
        <3>2. CASE j \in N
            BY <1>2, <1>3, <3>1, <3>2 DEF Stored
        <3>3. CASE j \notin N
            BY <3>1, <3>3
        <3> QED BY <3>2, <3>3
    <2> QED BY <2>1, <2>2 DEF IInv, RowsKept, Exists
<1>5. KeysApart'
    <2>1. \A j, k \in Ids :
            /\ msg'[j].st \in {"open", "live"} /\ msg'[k].st \in {"open", "live"}
            /\ msg'[j].key = msg'[k].key
            => j = k
        BY <1>3 DEF IInv, KeysApart
    <2>2. \A j, k \in Ids :
            Exists(j)' /\ Exists(k)' /\ j # k /\ msg'[j].key = msg'[k].key =>
              msg'[j].expires <= msg'[k].at \/ msg'[k].expires <= msg'[j].at
        <3> SUFFICES ASSUME NEW j \in Ids, NEW k \in Ids, Exists(j)', Exists(k)', j # k,
                            msg'[j].key = msg'[k].key
                     PROVE  msg'[j].expires <= msg'[k].at \/ msg'[k].expires <= msg'[j].at
            OBVIOUS
        <3>1. msg[j].expires <= msg[k].at \/ msg[k].expires <= msg[j].at
            BY <1>3 DEF IInv, KeysApart
        <3> QED BY <1>3, <3>1
    <2>3. \A k \in Keys : \A j \in returned[k] : Stored(j)' /\ msg'[j].key = k
        BY <1>1, <1>3 DEF IInv, Typed, KeysApart, RowsStay, RowStays
    <2> QED BY <2>1, <2>2, <2>3 DEF KeysApart, Exists
<1>6. SendsOwn'
    <2>1. \A s \in Sends : send[s].pc = "inserted" =>
            /\ send[s].id \in Ids \ N /\ msg[send[s].id].st = "open"
            /\ msg[send[s].id].key = send[s].key
        BY DEF IInv, SendsOwn, Stored
    <2> QED BY <2>1 DEF IInv, SendsOwn
<1> QED BY <1>1, <1>4, <1>5, <1>6

\* Cleanup deletes due rows that no acknowledgement has locked.
LEMMA CleanupKeepsIInv == ASSUME IInv, Cleanup PROVE IInv' /\ RowsStay
<1> DEFINE free == Due \ Locked
           batch == {i \in free : Cardinality({j \in free : DueBefore(j, i)}) < BatchSize}
<1>1. \A j \in batch : j \in Due /\ j \notin Locked
    OBVIOUS
<1>2. /\ msg' = [i \in Ids |-> IF i \in batch THEN [msg[i] EXCEPT !.st = "deleted"] ELSE msg[i]]
      /\ UNCHANGED <<now, active, send, ack, walk, shown, returned, spent>>
    BY DEF Cleanup
<1> HIDE DEF batch
<1>3. \A j \in batch : /\ j \in Ids /\ msg[j].st = "live" /\ msg[j].expires <= now
    BY <1>1 DEF Due, Live
<1>4. \A j \in Ids : msg[j] \in Row
    BY DEF IInv, Typed
<1>5. \A j \in Ids \ batch : msg'[j] = msg[j]
    BY <1>2
<1>6. \A j \in batch :
        /\ msg'[j] \in Row /\ msg'[j].st = "deleted"
        /\ msg'[j].key = msg[j].key /\ msg'[j].body = msg[j].body
        /\ msg'[j].created = msg[j].created /\ msg'[j].at = msg[j].at
        /\ msg'[j].expires = msg[j].expires /\ msg'[j].read = msg[j].read
    BY <1>2, <1>3, <1>4 DEF Row
<1>7. \A j \in batch : Retained(msg'[j])
    <2>1. \A j \in batch : Retained(msg[j])
        BY <1>3 DEF IInv, RowsKept, Exists
    <2> QED BY <1>6, <2>1 DEF Retained
<1>8. \A j \in batch : Stored(j) /\ RowStays(j)
    BY <1>3, <1>4, <1>6 DEF Stored, RowStays, Row
<1>9. batch \in SUBSET Ids /\ UNCHANGED <<now, send, returned>>
    BY <1>2, <1>3
<1>10. RowsKept' /\ KeysApart' /\ SendsOwn' /\ RowsStay
    BY <1>3, <1>5, <1>6, <1>7, <1>8, <1>9, RowsChange
<1>11. Typed'
    <2>1. msg' \in [Ids -> Row]
        BY <1>2, <1>4, <1>5, <1>6
    <2> QED BY <1>2, <2>1 DEF IInv, Typed
<1>12. \A a \in Acks : \A j \in ack[a].marks : j \in Ids \ batch
    BY <1>1 DEF IInv, Typed, AckState, Locked
<1>13. \A j \in Ids : msg'[j].st = "live" => msg'[j] = msg[j]
    BY <1>5, <1>6
<1> QED BY <1>2, <1>5, <1>10, <1>11, <1>12, <1>13, RowStep DEF IInv

\* A commit marks the locked rows with the clock of the acknowledgement, and
\* shortens their retention.
LEMMA AckCommitKeepsIInv == ASSUME IInv, NEW a \in Acks, AckCommit(a) PROVE IInv' /\ RowsStay
<1> DEFINE N == ack[a].marks
           read(i) == [msg[i] EXCEPT !.read = ack[a].now,
                         !.expires = Smaller(msg[i].expires, ack[a].now + ReadAge)]
<1>1. /\ msg' = [i \in Ids |-> IF i \in N THEN read(i) ELSE msg[i]]
      /\ ack' = [ack EXCEPT ![a] = NoAck]
      /\ UNCHANGED <<now, active, send, walk, shown, returned, spent>>
    BY DEF AckCommit
<1>2. /\ N \in SUBSET Ids /\ ack[a].now \in Nat /\ ack \in [Acks -> AckState]
      /\ \A i \in Ids : msg[i] \in Row
    BY DEF IInv, Typed, AckState
<1>3. \A i \in N : /\ i \in Ids /\ msg[i].st = "live" /\ msg[i].read = Never
                   /\ msg[i].created <= ack[a].now
                   /\ msg[i].expires = msg[i].created + MaxAge
    BY <1>2 DEF IInv, MarksHold, RowsKept, Exists, Retained
<1> HIDE DEF N
<1>4. \A i \in N : LET e == Smaller(msg[i].expires, ack[a].now + ReadAge)
                   IN  /\ e \in Nat /\ e <= msg[i].expires
                       /\ e = Smaller(ack[a].now + ReadAge, msg[i].created + MaxAge)
    <2>1. \A i \in N : msg[i].expires \in Nat /\ msg[i].created \in Nat
        BY <1>2, <1>3 DEF Row
    <2>2. ReadAge \in Nat /\ MaxAge \in Nat
        BY ChatAssumption
    <2> QED BY <1>2, <1>3, <2>1, <2>2 DEF Smaller
<1>5. \A i \in N : /\ read(i) \in Row /\ read(i).st = "live"
                   /\ read(i).read = ack[a].now
                   /\ read(i).expires = Smaller(msg[i].expires, ack[a].now + ReadAge)
                   /\ read(i).key = msg[i].key /\ read(i).body = msg[i].body
                   /\ read(i).created = msg[i].created /\ read(i).at = msg[i].at
    BY <1>2, <1>3, <1>4 DEF Row
<1>6. \A i \in N : msg'[i] = read(i)
    BY <1>1, <1>3
<1> HIDE DEF read
<1>7. \A i \in N : Retained(msg'[i]) /\ msg'[i].st # "deleted"
    <2>1. ack[a].now # Never
        BY <1>2 DEF Never
    <2> QED BY <1>3, <1>4, <1>5, <1>6, <2>1 DEF Retained
<1>8. \A i \in N : Stored(i) /\ RowStays(i) /\ msg'[i] \in Row
    BY <1>3, <1>4, <1>5, <1>6 DEF Stored, RowStays
<1>9. \A i \in Ids \ N : msg'[i] = msg[i]
    BY <1>1
<1>10. RowsKept' /\ KeysApart' /\ SendsOwn' /\ RowsStay
    BY <1>1, <1>2, <1>7, <1>8, <1>9, RowsChange DEF N
<1>11. Typed'
    <2>1. msg' \in [Ids -> Row]
        BY <1>1, <1>2, <1>8, <1>9
    <2>2. NoAck \in AckState
        BY DEF NoAck, AckState
    <2>3. ack' \in [Acks -> AckState]
        BY <1>1, <1>2, <2>2
    <2> QED BY <1>1, <2>1, <2>3 DEF IInv, Typed
<1>12. \A b \in Acks : ack'[b] = IF b = a THEN NoAck ELSE ack[b]
    BY <1>1, <1>2
<1>13. \A b \in Acks : \A i \in ack'[b].marks : msg'[i] = msg[i]
    <2>1. NoAck.marks = {}
        BY DEF NoAck
    <2>2. \A b \in Acks \ {a} : ack[b].marks \cap N = {} /\ ack[b].marks \in SUBSET Ids
        BY <1>2 DEF IInv, MarksHold, AckState, N
    <2> QED BY <1>9, <1>12, <2>1, <2>2
<1>14. \A i \in Ids : \/ msg'[i] = msg[i]
                      \/ \E b \in Acks : i \in ack[b].marks
    BY <1>9 DEF N
<1> QED BY <1>1, <1>10, <1>11, <1>12, <1>13, <1>14, RowStep DEF IInv

\* One acknowledgement moves on to v, which has locked what its update found.
LEMMA AckMoves ==
    ASSUME IInv, NEW a \in Acks, NEW v \in AckState, ack' = [ack EXCEPT ![a] = v],
           v.pc # "idle" => v.bound \in shown[AckBy[a]],
           v.pc # "updated" => v.marks = {},
           \A i \in v.marks :
             /\ msg[i].st = "live" /\ msg[i].read = Never
             /\ msg[i].created <= v.now
             /\ Author(i) # AckBy[a] /\ ~Before(v.bound, i),
           \A b \in Acks \ {a} : v.marks \cap ack[b].marks = {},
           UNCHANGED <<now, active, msg, send, walk, shown, returned>>,
           spent' \in [send : Nat, ack : Nat, walk : Nat]
    PROVE  IInv'
<1>1. Typed'
    BY DEF IInv, Typed
<1>2. \A b \in Acks : ack'[b] = IF b = a THEN v ELSE ack[b]
    BY DEF IInv, Typed
<1>3. MarksHold'
    <2>1. \A b \in Acks : ack'[b].pc # "updated" => ack'[b].marks = {}
        BY <1>2 DEF IInv, MarksHold
    <2>2. \A b \in Acks : \A i \in ack'[b].marks :
            /\ msg[i].st = "live" /\ msg[i].read = Never
            /\ msg[i].created <= ack'[b].now
            /\ Author(i) # AckBy[b] /\ ~Before(ack'[b].bound, i)
        BY <1>2 DEF IInv, MarksHold
    <2>3. \A b, c \in Acks : b # c => ack'[b].marks \cap ack'[c].marks = {}
        BY <1>2 DEF IInv, MarksHold
    <2> QED BY <2>1, <2>2, <2>3 DEF MarksHold, Author, Before
<1>4. BoundsSeen'
    BY <1>2 DEF IInv, BoundsSeen, Stored
<1> QED BY <1>1, <1>3, <1>4, Frame DEF IInv

LEMMA AckBeginKeepsIInv == ASSUME IInv, NEW a \in Acks, AckBegin(a) PROVE IInv'
<1> USE DEF AckBegin
<1>1. PICK i \in shown[AckBy[a]], c \in ClockReading :
        ack' = [ack EXCEPT ![a] = [NoAck EXCEPT !.pc = "timed", !.now = c, !.bound = i]]
    OBVIOUS
<1> DEFINE v == [NoAck EXCEPT !.pc = "timed", !.now = c, !.bound = i]
<1>2. c \in Nat /\ i \in Ids
    <2>1. now \in Nat /\ Skew \in Nat /\ shown \in [Users -> SUBSET Ids]
        BY ChatAssumption DEF IInv, Typed
    <2>2. AckBy[a] \in Users
        BY ChatAssumption
    <2> QED BY <2>1, <2>2 DEF ClockReading
<1>3. v \in AckState /\ v.pc = "timed" /\ v.bound = i /\ v.marks = {}
    BY <1>2 DEF NoAck, AckState
<1>4. spent' \in [send : Nat, ack : Nat, walk : Nat]
    BY DEF IInv, Typed
<1>5. ack' = [ack EXCEPT ![a] = v]
    BY <1>1
<1>6. UNCHANGED <<now, active, msg, send, walk, shown, returned>>
    OBVIOUS
<1> HIDE DEF v, AckBegin
<1> QED BY <1>3, <1>4, <1>5, <1>6, AckMoves

LEMMA AckEnds ==
    ASSUME IInv, NEW a \in Acks, ack' = [ack EXCEPT ![a] = NoAck],
           UNCHANGED <<now, active, msg, send, walk, shown, returned, spent>>
    PROVE  IInv'
<1>1. NoAck \in AckState /\ NoAck.pc = "idle" /\ NoAck.marks = {}
    BY DEF NoAck, AckState
<1>2. spent' \in [send : Nat, ack : Nat, walk : Nat]
    BY DEF IInv, Typed
<1> QED BY <1>1, <1>2, AckMoves

LEMMA AckAuthorizeKeepsIInv == ASSUME IInv, NEW a \in Acks, AckAuthorize(a) PROVE IInv'
<1> USE DEF AckAuthorize
<1>0. ack \in [Acks -> AckState] /\ spent \in [send : Nat, ack : Nat, walk : Nat]
    BY DEF IInv, Typed
<1>frame. UNCHANGED <<now, active, msg, send, walk, shown, returned, spent>>
    OBVIOUS
<1>bounds. spent' \in [send : Nat, ack : Nat, walk : Nat]
    BY <1>0, <1>frame
<1>1. CASE active /\ Effective(ack[a].bound, ack[a].now)
    <2> DEFINE v == [ack[a] EXCEPT !.pc = "bounded"]
    <2>1. ack' = [ack EXCEPT ![a] = v]
        BY <1>1
    <2>2. ack[a].bound \in shown[AckBy[a]] /\ ack[a].marks = {}
        BY DEF IInv, BoundsSeen, MarksHold
    <2>3. v \in AckState /\ v.bound \in shown[AckBy[a]] /\ v.marks = {}
        BY <1>0, <2>2 DEF AckState
    <2> HIDE DEF v, AckAuthorize
    <2> QED BY <1>bounds, <1>frame, <2>1, <2>3, AckMoves
<1>2. CASE ~(active /\ Effective(ack[a].bound, ack[a].now))
    <2>1. ack' = [ack EXCEPT ![a] = NoAck]
        BY <1>2
    <2> QED BY <2>1, AckEnds
<1> QED BY <1>1, <1>2

\* The update takes rows no newer than its bound, unread, and unlocked.
LEMMA AckUpdateKeepsIInv == ASSUME IInv, NEW a \in Acks, AckUpdate(a) PROVE IInv'
<1> USE DEF AckUpdate
<1>0. ack \in [Acks -> AckState] /\ spent \in [send : Nat, ack : Nat, walk : Nat]
    BY DEF IInv, Typed
<1>frame. UNCHANGED <<now, active, msg, send, walk, shown, returned, spent>>
    OBVIOUS
<1>bounds. spent' \in [send : Nat, ack : Nat, walk : Nat]
    BY <1>0, <1>frame
<1>unlocked. Marked(a) \cap Locked = {}
    OBVIOUS
<1>1. ack[a].bound \in shown[AckBy[a]] /\ ack[a].marks = {}
    BY DEF IInv, BoundsSeen, MarksHold
<1>2. CASE \E i \in Marked(a) : msg[i].created > ack[a].now
    <2> DEFINE v == [ack[a] EXCEPT !.pc = "refused"]
    <2>1. ack' = [ack EXCEPT ![a] = v]
        BY <1>2
    <2>2. v \in AckState /\ v.bound \in shown[AckBy[a]] /\ v.marks = {}
        BY <1>0, <1>1 DEF AckState
    <2> HIDE DEF v, AckUpdate
    <2> QED BY <1>bounds, <1>frame, <2>1, <2>2, AckMoves
<1>3. CASE ~\E i \in Marked(a) : msg[i].created > ack[a].now
    <2> DEFINE v == [ack[a] EXCEPT !.pc = "updated", !.marks = Marked(a)]
    <2>1. ack' = [ack EXCEPT ![a] = v]
        BY <1>3
    <2>2. Marked(a) \in SUBSET Ids
        BY DEF Marked, Live
    <2>3. /\ v \in AckState /\ v.pc = "updated" /\ v.bound = ack[a].bound
          /\ v.now = ack[a].now /\ v.marks = Marked(a)
        BY <1>0, <2>2 DEF AckState
    <2> HIDE DEF v, AckUpdate
    <2>4. ASSUME NEW i \in v.marks
          PROVE  /\ msg[i].st = "live" /\ msg[i].read = Never
                 /\ msg[i].created <= v.now
                 /\ Author(i) # AckBy[a] /\ ~Before(v.bound, i)
        <3>1. i \in Marked(a)
            BY <2>3
        <3>2. ~(msg[i].created > ack[a].now)
            BY <1>3, <3>1
        <3>3. msg[i].created \in Nat /\ ack[a].now \in Nat
            BY <1>0, <2>2, <3>1 DEF AckState, IInv, Typed, Row
        <3>4. msg[i].created <= ack[a].now
            BY <3>2, <3>3
        <3> QED BY <2>3, <3>1, <3>4 DEF Marked, Live
    <2>5. \A b \in Acks \ {a} : v.marks \cap ack[b].marks = {}
        BY <1>unlocked, <2>3 DEF Locked
    <2>6. v.bound \in shown[AckBy[a]]
        BY <1>1, <2>3
    <2> QED BY <1>bounds, <1>frame, <2>1, <2>3, <2>4, <2>5, <2>6, AckMoves
<1> QED BY <1>2, <1>3

LEMMA AckRollbackKeepsIInv == ASSUME IInv, NEW a \in Acks, AckRollback(a) PROVE IInv'
BY AckEnds DEF AckRollback

------------------------------------------------------------------------------
(* History.                                                                *)

\* One walk moves on to w; the page may show more rows.
LEMMA WalkMoves ==
    ASSUME IInv, Typed', NEW u \in Users,
           UNCHANGED <<now, msg, send, ack, returned>>,
           \A v \in Users \ {u} : walk'[v] = walk[v],
           \A v \in Users : shown[v] \subseteq shown'[v],
           \A v \in Users : \A i \in shown'[v] : Stored(i),
           WalkKept(u)'
    PROVE  IInv'
<1>1. RowsKept' /\ KeysApart' /\ SendsOwn' /\ MarksHold'
    BY Frame DEF IInv
<1>2. BoundsSeen'
    BY ChatAssumption DEF IInv, BoundsSeen, Stored
<1>3. NothingNewerIsMarked'
    BY DEF IInv, NothingNewerIsMarked, Author, Before
<1>4. \A v \in Users : WalkKept(v)'
    <2>1. RowsStay
        BY SameRowsStay DEF IInv
    <2>2. now <= now'
        BY DEF IInv, Typed
    <2> QED BY <2>1, <2>2, WalksStay DEF IInv
<1> QED BY <1>1, <1>2, <1>3, <1>4 DEF IInv

LEMMA WalkBeginKeepsIInv == ASSUME IInv, NEW u \in Users, WalkBegin(u) PROVE IInv'
<1> USE DEF WalkBegin
<1> DEFINE w == [NoWalk EXCEPT !.pc = "walking", !.must = Live]
<1>1. /\ w \in WalkState /\ w.pc = "walking" /\ w.cursor = NoId
      /\ w.must = Live /\ w.got = {} /\ w.twice = FALSE
    BY DEF NoWalk, WalkState, Live
<1>2. \A v \in Users : walk'[v] = IF v = u THEN w ELSE walk[v]
    BY DEF IInv, Typed
<1> HIDE DEF w
<1>3. Typed'
    <2>1. walk' \in [Users -> WalkState]
        BY <1>1 DEF IInv, Typed, w
    <2> QED BY <2>1 DEF IInv, Typed
<1>4. \A v \in Users : \A i \in shown'[v] : Stored(i)
    BY DEF IInv, BoundsSeen
<1>5. WalkKept(u)'
    BY <1>1, <1>2 DEF WalkKept, Live, Stored, Older
<1> QED BY <1>2, <1>3, <1>4, <1>5, WalkMoves

LEMMA WalkEndKeepsIInv == ASSUME IInv, NEW u \in Users, WalkEnd(u) PROVE IInv'
<1> USE DEF WalkEnd
<1>1. /\ NoWalk \in WalkState /\ NoWalk.pc = "idle"
      /\ NoWalk.must = {} /\ NoWalk.got = {} /\ NoWalk.twice = FALSE
    BY DEF NoWalk, WalkState
<1>2. \A v \in Users : walk'[v] = IF v = u THEN NoWalk ELSE walk[v]
    BY DEF IInv, Typed
<1>3. Typed'
    <2>1. walk' \in [Users -> WalkState]
        BY <1>1 DEF IInv, Typed
    <2> QED BY <2>1 DEF IInv, Typed
<1>4. \A v \in Users : \A i \in shown'[v] : Stored(i)
    BY DEF IInv, BoundsSeen
<1>5. WalkKept(u)'
    BY <1>1, <1>2 DEF WalkKept
<1> QED BY <1>2, <1>3, <1>4, <1>5, WalkMoves

\* A page continues where the last one ended: its rows are older than all before,
\* and a row that the walk owes is on it, older than its cursor, or had its turn.
LEMMA WalkPageKeepsIInv == ASSUME IInv, NEW u \in Users, WalkPage(u) PROVE IInv'
<1> DEFINE w == walk[u]
           found(t) == {i \in Live : msg[i].expires > t /\ Older(i, w.cursor)}
           page(t) == NewestOf(found(t), PageSize)
<1>1. PICK t \in ClockReading :
        /\ walk' = [walk EXCEPT ![u] =
             [pc |-> IF page(t) = found(t) THEN "done" ELSE "walking",
              cursor |-> IF page(t) = found(t) THEN NoId
                         ELSE CHOOSE i \in page(t) : \A j \in page(t) \ {i} : Before(i, j),
              must |-> w.must, got |-> w.got \cup page(t),
              twice |-> w.twice \/ page(t) \cap w.got # {}]]
        /\ shown' = [shown EXCEPT ![u] = @ \cup page(t)]
    BY DEF WalkPage
<1>2. w.pc = "walking" /\ UNCHANGED <<now, active, msg, send, ack, returned, spent>>
    BY DEF WalkPage
<1> DEFINE F == found(t)
           P == page(t)
           c == CHOOSE i \in P : \A j \in P \ {i} : Before(i, j)
           v == [pc |-> IF P = F THEN "done" ELSE "walking",
                 cursor |-> IF P = F THEN NoId ELSE c,
                 must |-> w.must, got |-> w.got \cup P,
                 twice |-> w.twice \/ P \cap w.got # {}]
<1>3. P \subseteq F /\ F = {i \in Live : msg[i].expires > t /\ Older(i, w.cursor)}
    BY DEF NewestOf
<1>4. F \in SUBSET Ids /\ IsFiniteSet(F) /\ \A i \in F : Stored(i)
    <2>1. F \in SUBSET {i \in Ids : Exists(i)}
        BY <1>3 DEF Live, Exists
    <2>2. IsFiniteSet(F)
        BY <2>1, FS_Subset DEF IInv, RowsKept
    <2> QED BY <1>3, <2>2 DEF Live, Stored
<1>5. Typed
    BY DEF IInv
<1>6. P # F => /\ c \in P
               /\ \A j \in P : j = c \/ Before(c, j)
               /\ \A i \in F \ P : Before(i, c)
    BY <1>4, <1>5, CursorSplits
<1>7. walk' = [walk EXCEPT ![u] = v] /\ shown' = [shown EXCEPT ![u] = @ \cup P]
    BY <1>1
<1>8. walk \in [Users -> WalkState] /\ shown \in [Users -> SUBSET Ids]
      /\ w \in WalkState /\ WalkKept(u)
    BY DEF IInv, Typed
<1>9. /\ v.pc = IF P = F THEN "done" ELSE "walking"
      /\ v.cursor = IF P = F THEN NoId ELSE c
      /\ v.must = w.must /\ v.got = w.got \cup P
      /\ v.twice = (w.twice \/ P \cap w.got # {})
    OBVIOUS
<1> HIDE DEF F, P, c
<1>10. v \in WalkState
    BY <1>3, <1>4, <1>6, <1>8, <1>9 DEF WalkState
<1> HIDE DEF v
<1>11. /\ \A x \in Users : walk'[x] = IF x = u THEN v ELSE walk[x]
       /\ \A x \in Users : shown'[x] = IF x = u THEN shown[u] \cup P ELSE shown[x]
    BY <1>7, <1>8
<1>12. Typed'
    <2>1. walk' \in [Users -> WalkState]
        BY <1>7, <1>8, <1>10
    <2>2. shown' \in [Users -> SUBSET Ids]
        BY <1>3, <1>4, <1>7, <1>8
    <2> QED BY <1>2, <1>5, <2>1, <2>2 DEF Typed
<1>13. /\ w.got \subseteq shown[u] /\ ~w.twice
       /\ \A i \in w.must : Stored(i)
       /\ w.cursor = NoId => w.got = {}
       /\ w.cursor # NoId => /\ w.cursor \in w.got
                             /\ \A i \in w.got : i = w.cursor \/ Before(w.cursor, i)
       /\ \A i \in w.must : Effective(i, now + Skew) => i \in w.got \/ Older(i, w.cursor)
    BY <1>2, <1>8 DEF WalkKept
<1>14. w.got \in SUBSET Ids /\ w.must \in SUBSET Ids
    BY <1>8 DEF WalkState
<1>15. \A i \in P, j \in w.got : Before(i, j)
    <2> SUFFICES ASSUME NEW i \in P, NEW j \in w.got PROVE Before(i, j)
        OBVIOUS
    <2>1. w.cursor # NoId /\ w.cursor \in Ids
        BY <1>13, <1>14
    <2>2. Before(i, w.cursor)
        BY <1>3, <2>1 DEF Older
    <2>3. i \in Ids /\ j \in Ids
        BY <1>3, <1>4, <1>14
    <2> QED BY <1>5, <1>13, <2>1, <2>2, <2>3, BeforeIsTotal
<1>16. P \cap w.got = {}
    BY <1>3, <1>4, <1>5, <1>15, BeforeIsTotal
<1>17. \A i \in w.must : Effective(i, now + Skew) => i \in w.got \/ i \in F
    <2> SUFFICES ASSUME NEW i \in w.must, Effective(i, now + Skew), i \notin w.got
                 PROVE  i \in F
        OBVIOUS
    <2>1. Older(i, w.cursor)
        BY <1>13
    <2>2. i \in Live /\ msg[i].expires > now + Skew
        BY DEF Effective
    <2>3. msg[i].expires \in Nat /\ now \in Nat /\ Skew \in Nat /\ t <= now + Skew /\ t \in Nat
        BY <1>5, <2>2, ChatAssumption DEF Live, Typed, Row, ClockReading
    <2>4. msg[i].expires > t
        BY <2>2, <2>3
    <2> QED BY <1>3, <2>1, <2>2, <2>4
<1>18. WalkKept(u)'
    <2>1. walk'[u] = v /\ shown'[u] = shown[u] \cup P /\ msg' = msg /\ now' = now
        BY <1>2, <1>11
    <2>2. v.got \subseteq shown'[u] /\ ~v.twice /\ \A i \in v.must : Stored(i)'
        BY <1>9, <1>13, <1>16, <2>1 DEF Stored
    <2>3. CASE P = F
        <3>1. v.pc = "done"
            BY <1>9, <2>3
        <3>2. \A i \in v.must : Effective(i, now + Skew) => i \in v.got
            BY <1>9, <1>17, <2>3
        <3> QED BY <2>1, <2>2, <3>1, <3>2 DEF WalkKept, Effective, Live
    <2>4. CASE P # F
        <3>1. v.pc = "walking" /\ v.cursor = c /\ c \in P /\ c \in Ids /\ c # NoId
            BY <1>3, <1>4, <1>6, <1>9, <2>4, ChatAssumption DEF NoId
        <3>2. \A i \in v.got : i = c \/ Before(c, i)
            BY <1>6, <1>9, <1>15, <2>4, <3>1
        <3>3. \A i \in v.must : Effective(i, now + Skew) => i \in v.got \/ Before(i, c)
            BY <1>6, <1>9, <1>17, <2>4
        <3>4. c \in v.got
            BY <1>9, <3>1
        <3> QED BY <2>1, <2>2, <3>1, <3>2, <3>3, <3>4
                DEF WalkKept, Effective, Live, Older, Before
    <2> QED BY <2>3, <2>4
<1>19. \A x \in Users : \A i \in shown'[x] : Stored(i)
    BY <1>3, <1>4, <1>11 DEF IInv, BoundsSeen
<1> QED BY <1>2, <1>11, <1>12, <1>18, <1>19, WalkMoves

------------------------------------------------------------------------------
(* Time, the end of the match, and the theorems.                            *)

LEMMA TickKeepsIInv == ASSUME IInv, Tick PROVE IInv'
<1> USE DEF Tick
<1>1. now \in Nat /\ now' = now + 1 /\ now' \in 0 .. MaxTime
    BY ChatAssumption DEF IInv, Typed
<1>2. Typed'
    BY <1>1 DEF IInv, Typed
<1>3. RowsKept'
    <2>1. \A i \in Ids : msg[i].at \in Nat /\ msg[i].expires \in Nat
        BY DEF IInv, Typed, Row
    <2> QED BY <1>1, <2>1 DEF IInv, RowsKept, Exists
<1>4. KeysApart' /\ SendsOwn' /\ MarksHold' /\ BoundsSeen' /\ NothingNewerIsMarked'
    BY Frame DEF IInv
<1>5. \A u \in Users : WalkKept(u)'
    <2>1. RowsStay
        BY SameRowsStay DEF IInv
    <2> QED BY <1>1, <1>2, <2>1, WalksStay DEF IInv
<1> QED BY <1>2, <1>3, <1>4, <1>5 DEF IInv

LEMMA MatchEndsKeepsIInv == ASSUME IInv, MatchEnds PROVE IInv'
<1>1. Typed'
    BY DEF IInv, Typed, MatchEnds
<1> QED BY <1>1, Frame DEF IInv, MatchEnds

LEMMA StepIInv == IInv /\ [Next]_vars => IInv' /\ RowsStay
<1> SUFFICES ASSUME IInv, [Next]_vars PROVE IInv' /\ RowsStay
    OBVIOUS
<1>1. UNCHANGED msg => RowsStay
    BY SameRowsStay DEF IInv
<1>2. ASSUME NEW t \in Sends, SendBegin(t) PROVE IInv' /\ RowsStay
    BY <1>1, <1>2, SendBeginKeepsIInv DEF SendBegin
<1>3. ASSUME NEW t \in Sends, SendInsert(t) PROVE IInv' /\ RowsStay
    BY <1>3, SendInsertKeepsIInv
<1>4. ASSUME NEW t \in Sends, SendCommit(t) PROVE IInv' /\ RowsStay
    BY <1>4, SendCommitKeepsIInv
<1>5. ASSUME NEW t \in Sends, SendReadExisting(t) PROVE IInv' /\ RowsStay
    BY <1>1, <1>5, SendReadExistingKeepsIInv DEF SendReadExisting
<1>6. ASSUME NEW t \in Sends, SendRefused(t) PROVE IInv' /\ RowsStay
    BY <1>1, <1>6, SendRefusedKeepsIInv DEF SendRefused
<1>7. ASSUME NEW t \in Sends, SendRollback(t) PROVE IInv' /\ RowsStay
    BY <1>7, SendRollbackKeepsIInv
<1>8. ASSUME NEW a \in Acks, AckBegin(a) PROVE IInv' /\ RowsStay
    BY <1>1, <1>8, AckBeginKeepsIInv DEF AckBegin
<1>9. ASSUME NEW a \in Acks, AckAuthorize(a) PROVE IInv' /\ RowsStay
    BY <1>1, <1>9, AckAuthorizeKeepsIInv DEF AckAuthorize
<1>10. ASSUME NEW a \in Acks, AckUpdate(a) PROVE IInv' /\ RowsStay
    BY <1>1, <1>10, AckUpdateKeepsIInv DEF AckUpdate
<1>11. ASSUME NEW a \in Acks, AckCommit(a) PROVE IInv' /\ RowsStay
    BY <1>11, AckCommitKeepsIInv
<1>12. ASSUME NEW a \in Acks, AckRollback(a) PROVE IInv' /\ RowsStay
    BY <1>1, <1>12, AckRollbackKeepsIInv DEF AckRollback
<1>13. ASSUME NEW u \in Users, WalkBegin(u) PROVE IInv' /\ RowsStay
    BY <1>1, <1>13, WalkBeginKeepsIInv DEF WalkBegin
<1>14. ASSUME NEW u \in Users, WalkPage(u) PROVE IInv' /\ RowsStay
    BY <1>1, <1>14, WalkPageKeepsIInv DEF WalkPage
<1>15. ASSUME NEW u \in Users, WalkEnd(u) PROVE IInv' /\ RowsStay
    BY <1>1, <1>15, WalkEndKeepsIInv DEF WalkEnd
<1>16. CASE Cleanup
    BY <1>16, CleanupKeepsIInv
<1>17. CASE Tick
    BY <1>1, <1>17, TickKeepsIInv DEF Tick
<1>18. CASE MatchEnds
    BY <1>1, <1>18, MatchEndsKeepsIInv DEF MatchEnds
<1>19. CASE UNCHANGED vars
    <2>1. Typed'
        BY <1>19 DEF IInv, Typed, vars
    <2> QED BY <1>1, <1>19, <2>1, Frame DEF IInv, vars
<1> QED BY <1>2, <1>3, <1>4, <1>5, <1>6, <1>7, <1>8, <1>9, <1>10, <1>11, <1>12,
           <1>13, <1>14, <1>15, <1>16, <1>17, <1>18, <1>19
        DEF Next, SendStep, AckStep

LEMMA InvariantHolds == Spec => []IInv
<1>1. IInv /\ [Next]_vars => IInv'
    BY StepIInv
<1> QED BY InitIInv, <1>1, PTL DEF Spec

\* Every record keeps its shape; in particular every stored row passes its
\* retention check, whoever read it when, and an uncommitted acknowledgement
\* holds only rows that are still there.
THEOREM TypeCorrect == Spec => []TypeOK
<1>1. ASSUME IInv PROVE TypeOK
    <2>1. now \in 0 .. MaxTime /\ active \in BOOLEAN
        BY <1>1 DEF IInv, Typed
    <2>2. ASSUME NEW i \in Ids
          PROVE  /\ msg[i].st \in {"none", "open", "live", "deleted"}
                 /\ msg[i].st # "none" =>
                      /\ msg[i].key \in Keys /\ msg[i].body \in Bodies
                      /\ Retained(msg[i])
        BY <1>1 DEF IInv, Typed, Row, RowsKept, Exists
    <2>3. \A t \in Sends : send[t].pc \in {"idle", "timed", "inserted", "conflict", "reused"}
        BY <1>1 DEF IInv, Typed, SendState
    <2>4. \A a \in Acks :
            /\ ack[a].pc \in {"idle", "timed", "bounded", "updated", "refused"}
            /\ ack[a].marks \subseteq Ids /\ ack[a].marks \subseteq Live
        BY <1>1 DEF IInv, Typed, AckState, MarksHold, Live
    <2>5. \A u \in Users : shown[u] \subseteq Ids /\ walk[u].got \subseteq shown[u]
        BY <1>1 DEF IInv, Typed, WalkKept
    <2> QED BY <2>1, <2>2, <2>3, <2>4, <2>5 DEF TypeOK, Retained
<1> QED BY <1>1, InvariantHolds, PTL

\* However often a client repeats a send, one message holds its client id at a
\* time, and two accepted attempts are answered with different messages only if
\* the one had expired when the other was inserted.
THEOREM RetryConvergesHolds == Spec => []RetryConverges
<1>1. ASSUME IInv PROVE RetryConverges
    <2>1. ASSUME NEW k \in Keys PROVE Cardinality(Holds(k)) <= 1
        <3>1. \A i, j \in Holds(k) : i = j
            BY <1>1 DEF IInv, KeysApart, Holds
        <3>2. CASE Holds(k) = {}
            BY <3>2, FS_EmptySet
        <3>3. CASE Holds(k) # {}
            <4>1. PICK i : Holds(k) = {i}
                BY <3>1, <3>3
            <4> QED BY <4>1, FS_Singleton
        <3> QED BY <3>2, <3>3
    <2>2. ASSUME NEW k \in Keys, NEW i \in returned[k], NEW j \in returned[k], i # j
          PROVE  msg[i].expires <= msg[j].at \/ msg[j].expires <= msg[i].at
        <3>1. /\ i \in Ids /\ Exists(i) /\ msg[i].key = k
              /\ j \in Ids /\ Exists(j) /\ msg[j].key = k
            BY <1>1 DEF IInv, Typed, KeysApart, Stored, Exists
        <3> QED BY <1>1, <2>2, <3>1 DEF IInv, KeysApart
    <2> QED BY <2>1, <2>2 DEF RetryConverges
<1> QED BY <1>1, InvariantHolds, PTL

\* Whatever commits between a page, the clock of the acknowledgement that the
\* page leads to, and its update, no message newer than all that was shown to
\* the reader is marked as read.
THEOREM NothingNewerIsMarkedHolds == Spec => []NothingNewerIsMarked
<1>1. IInv => NothingNewerIsMarked
    BY DEF IInv
<1> QED BY <1>1, InvariantHolds, PTL

\* A walk through the history to its last page has shown every message that was
\* stored when it began and is still effective, and none twice, whatever was
\* inserted, committed late, marked or deleted between its pages.
THEOREM PagesAreCompleteHolds == Spec => []PagesAreComplete
<1>1. IInv => PagesAreComplete
    BY DEF IInv, PagesAreComplete, WalkKept
<1> QED BY <1>1, InvariantHolds, PTL

\* A stored message is never rewritten: no step changes its client id, its body
\* or its place in the order, extends its retention, or brings it back.
THEOREM StoredMessagesStay == Spec => [][RowsStay]_vars
<1>1. IInv /\ [Next]_vars => [RowsStay]_vars
    BY StepIInv
<1> QED BY <1>1, InvariantHolds, PTL DEF Spec

=============================================================================
