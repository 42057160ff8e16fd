---------------------------- MODULE Content_proofs ----------------------------
(***************************************************************************)
(* What Content's services promise, for any numbers of recaps, events,     *)
(* users, tabs, pictures and requests.  Each service has an inductive      *)
(* invariant of its own; a step of one service leaves the variables of the *)
(* others alone.                                                           *)
(***************************************************************************)
EXTENDS Content, FiniteSetTheorems, WellFoundedInduction, TLAPS

Less == {ss \in Nat \X Nat : ss[1] < ss[2]}

LEMMA LessIsWellFounded == IsWellFoundedOn(Less, Nat)
BY NatLessThanWellFounded DEF OpToRel, Less

\* A nonempty set of natural numbers has a least element.
LEMMA LeastNumber ==
    ASSUME NEW S \in SUBSET Nat, S # {}
    PROVE  \E n \in S : \A m \in S : n <= m
<1>1. PICK n \in S : \A m \in S : <<m, n>> \notin Less
    BY LessIsWellFounded, WFMin
<1>2. \A m \in S : ~(m < n)
    BY <1>1 DEF Less
<1> QED BY <1>2

------------------------------------------------------------------------------
(* Profiles and preferences.                                               *)

\* The instance has the operators of FiniteSets under its own name.
LEMMA SameCardinality == \A S : Profiles!Cardinality(S) = Cardinality(S)
BY DEF Profiles!Cardinality, Cardinality

\* Where there is no profile yet there is nothing to read.
DraftIsEmpty ==
  ~profile.exists => profile.version = 0 /\ profile.chosen = Profiles!Empty

\* What the read r of the preferences has collected: while the version it
\* started from is current, every part it has read is current.
ReadKept(r) ==
  /\ r.next # "none" => profile.exists
  /\ r.snapshot.version <= profile.version
  /\ r.next = "answer" => r.groups = {}
  /\ r.next \in {"ids", "answer"} /\ r.snapshot.version = profile.version =>
       \A g \in Profiles!Groups :
         /\ r.snapshot.chosen[g].custom = profile.chosen[g].custom
         /\ g \notin r.groups => r.snapshot.chosen[g].ids = profile.chosen[g].ids

\* Interests are always counted; only activities can go beyond the limit.
InterestsFit == Profiles!Fits(profile.chosen["interests"])

ProfileInv ==
  /\ Profiles!TypeOK
  /\ DraftIsEmpty
  /\ \A t \in Tabs : ReadKept(tab[t].read)
  /\ InterestsFit

LEMMA ProfileInit == Profiles!Init => ProfileInv
<1> SUFFICES ASSUME Profiles!Init PROVE ProfileInv
    OBVIOUS
<1>1. Profiles!Empty \in [Profiles!Groups -> Profiles!Choice]
    <2>1. Profiles!Nothing \in Profiles!Choice
        BY DEF Profiles!Nothing, Profiles!Choice
    <2> QED BY <2>1 DEF Profiles!Empty
<1>2. profile \in Profiles!ProfileRow /\ photoReady \in BOOLEAN /\ catalog \in Profiles!Catalog
    <2>1. profile \in Profiles!ProfileRow
        BY <1>1, ContentAssumption DEF Profiles!Init, Profiles!ProfileRow
    <2>2. catalog \in Profiles!Catalog
        BY DEF Profiles!Init, Profiles!Catalog
    <2> QED BY <2>1, <2>2 DEF Profiles!Init
<1>3. tab \in [Tabs -> Profiles!Tab]
    BY <1>1, ContentAssumption
    DEF Profiles!Init, Profiles!Tab, Profiles!Read, Profiles!Snapshot, Profiles!NoRead,
        Profiles!NoSnapshot
<1>4. DraftIsEmpty /\ \A t \in Tabs : ReadKept(tab[t].read)
    BY DEF Profiles!Init, DraftIsEmpty, ReadKept, Profiles!NoRead, Profiles!NoSnapshot
<1>5. Profiles!Cardinality({}) = 0
    <2>1. Cardinality({}) = 0
        BY FS_EmptySet
    <2> QED BY <2>1, SameCardinality
<1>6. InterestsFit
    <2>1. PICK c : c = profile.chosen["interests"]
        OBVIOUS
    <2>2. c.ids = {} /\ c.custom = {}
        BY <2>1 DEF Profiles!Init, Profiles!Empty, Profiles!Nothing, Profiles!Groups
    <2> QED BY <1>5, <2>1, <2>2, ContentAssumption DEF InterestsFit, Profiles!Fits
<1> QED BY <1>2, <1>3, <1>4, <1>6 DEF ProfileInv, Profiles!TypeOK

\* The version moves on whenever the selections change.
ProfileMoves ==
  /\ profile'.exists \/ ~profile.exists
  /\ \/ profile'.version = profile.version /\ profile'.chosen = profile.chosen
     \/ profile'.version > profile.version /\ profile'.exists

\* A step that leaves the reads alone.
LEMMA ReadsSurvive ==
    ASSUME ProfileInv, ProfileMoves, profile'.version \in Nat,
           \A t \in Tabs : tab'[t].read = tab[t].read
    PROVE  \A t \in Tabs : ReadKept(tab[t].read)'
<1>1. TAKE t \in Tabs
<1>2. ReadKept(tab[t].read) /\ tab'[t].read = tab[t].read
    BY DEF ProfileInv
<1>3. profile.version \in Nat /\ tab[t].read.snapshot.version \in Nat
    BY ContentAssumption
    DEF ProfileInv, Profiles!TypeOK, Profiles!ProfileRow, Profiles!Tab, Profiles!Read,
        Profiles!Snapshot
<1> QED BY <1>2, <1>3 DEF ProfileMoves, ReadKept

\* A step of one read, which leaves the profile alone.
LEMMA OneRead ==
    ASSUME ProfileInv, UNCHANGED profile, NEW t \in Tabs, NEW r,
           tab' = [tab EXCEPT ![t] = r], ReadKept(r.read)
    PROVE  \A u \in Tabs : ReadKept(tab[u].read)'
<1>1. TAKE u \in Tabs
<1>2. ReadKept(tab'[u].read)
    BY DEF ProfileInv, Profiles!TypeOK
<1> QED BY <1>2 DEF ReadKept

\* The types of a saved profile and of a changed tab.
LEMMA StoredTyped ==
    ASSUME Profiles!TypeOK, Profiles!RoomForVersion,
           NEW chosen \in [Profiles!Groups -> Profiles!Choice]
    PROVE  /\ Profiles!Stored(chosen) \in Profiles!ProfileRow
           /\ Profiles!Stored(chosen).chosen = chosen
           /\ Profiles!Stored(chosen).exists = profile.exists
           /\ \/ Profiles!Stored(chosen).version = profile.version /\ chosen = profile.chosen
              \/ Profiles!Stored(chosen).version = profile.version + 1
<1>1. profile \in Profiles!ProfileRow /\ profile.version < MaxVersion
    BY DEF Profiles!TypeOK, Profiles!RoomForVersion
<1>2. profile.version \in 0..MaxVersion /\ MaxVersion \in Nat
    BY <1>1, ContentAssumption DEF Profiles!ProfileRow
<1>3. PICK v : v = IF chosen # profile.chosen THEN profile.version + 1 ELSE profile.version
    OBVIOUS
<1>4. v \in 0..MaxVersion
    BY <1>1, <1>2, <1>3
<1>5. Profiles!Stored(chosen) = [profile EXCEPT !.chosen = chosen, !.version = v]
    BY <1>1, <1>3 DEF Profiles!Stored, Profiles!ProfileRow
<1>6. [profile EXCEPT !.chosen = chosen, !.version = v] \in Profiles!ProfileRow
    BY <1>1, <1>4 DEF Profiles!ProfileRow
<1> QED BY <1>1, <1>3, <1>5, <1>6 DEF Profiles!ProfileRow

LEMMA TabTyped ==
    ASSUME Profiles!TypeOK, NEW t \in Tabs, NEW r \in Profiles!Tab, Profiles!Set(t, r)
    PROVE  tab' \in [Tabs -> Profiles!Tab]
BY DEF Profiles!TypeOK, Profiles!Set

\* What a read's steps leave to show.
LEMMA ReadStep ==
    ASSUME ProfileInv, NEW t \in Tabs, NEW r \in Profiles!Tab, ReadKept(r.read),
           Profiles!Set(t, r), UNCHANGED <<profile, photoReady, catalog>>
    PROVE  ProfileInv'
<1>1. Profiles!TypeOK'
    <2>1. tab' \in [Tabs -> Profiles!Tab]
        BY TabTyped DEF ProfileInv
    <2> QED BY <2>1 DEF ProfileInv, Profiles!TypeOK
<1>2. \A u \in Tabs : ReadKept(tab[u].read)'
    BY OneRead DEF Profiles!Set
<1>3. DraftIsEmpty' /\ InterestsFit'
    BY DEF ProfileInv, DraftIsEmpty, InterestsFit
<1> QED BY <1>1, <1>2, <1>3 DEF ProfileInv

\* The parts of a tab's read.
LEMMA TabParts ==
    ASSUME ProfileInv, NEW t \in Tabs
    PROVE  /\ tab[t] \in Profiles!Tab
           /\ tab[t].read \in Profiles!Read /\ tab[t].cache \in Profiles!Snapshot
           /\ tab[t].read.snapshot \in Profiles!Snapshot
           /\ tab[t].read.snapshot.version \in 0..MaxVersion
           /\ tab[t].read.groups \in SUBSET Profiles!Groups
           /\ ReadKept(tab[t].read)
<1>1. tab[t] \in Profiles!Tab
    BY DEF ProfileInv, Profiles!TypeOK
<1>2. tab[t].read \in Profiles!Read /\ tab[t].cache \in Profiles!Snapshot
    BY <1>1 DEF Profiles!Tab
<1>3. tab[t].read.snapshot \in Profiles!Snapshot
    BY <1>2 DEF Profiles!Read
<1> QED BY <1>1, <1>2, <1>3 DEF ProfileInv, Profiles!Read, Profiles!Snapshot

LEMMA ProfileParts ==
    ASSUME ProfileInv
    PROVE  /\ profile \in Profiles!ProfileRow
           /\ profile.version \in 0..MaxVersion
           /\ profile.chosen \in [Profiles!Groups -> Profiles!Choice]
BY DEF ProfileInv, Profiles!TypeOK, Profiles!ProfileRow

LEMMA NothingTyped == Profiles!Empty \in [Profiles!Groups -> Profiles!Choice]
<1>1. Profiles!Nothing \in Profiles!Choice
    BY DEF Profiles!Nothing, Profiles!Choice
<1> QED BY <1>1 DEF Profiles!Empty

\* A tab with another read.
LEMMA WithRead ==
    ASSUME NEW old \in Profiles!Tab, NEW read \in Profiles!Read
    PROVE  /\ [old EXCEPT !.read = read] \in Profiles!Tab
           /\ [old EXCEPT !.read = read].read = read
BY DEF Profiles!Tab

LEMMA FetchInv ==
    ASSUME ProfileInv, NEW t \in Tabs, Profiles!Fetch(t)
    PROVE  ProfileInv'
<1>1. PICK e : e = Profiles!Empty
    OBVIOUS
<1>2. PICK read : read = [next |-> "custom", groups |-> {},
                          snapshot |-> [version |-> profile.version, chosen |-> e]]
    OBVIOUS
<1>3. PICK r : r = [tab[t] EXCEPT !.read = read]
    OBVIOUS
<1>4. read \in Profiles!Read
    <2>1. e \in [Profiles!Groups -> Profiles!Choice] /\ profile.version \in 0..MaxVersion
        BY <1>1, NothingTyped, ProfileParts
    <2> QED BY <1>2, <2>1 DEF Profiles!Read, Profiles!Snapshot
<1>5. ReadKept(read)
    <2>1. profile.version \in Nat
        BY ProfileParts, ContentAssumption
    <2> QED BY <1>2, <2>1 DEF ReadKept, Profiles!Fetch
<1>6. r \in Profiles!Tab /\ r.read = read
    BY <1>3, <1>4, TabParts, WithRead
<1>7. Profiles!Set(t, r) /\ UNCHANGED <<profile, photoReady, catalog>>
    BY <1>1, <1>2, <1>3 DEF Profiles!Fetch
<1> QED BY <1>5, <1>6, <1>7, ReadStep

LEMMA ReadCustomInv ==
    ASSUME ProfileInv, NEW t \in Tabs, Profiles!ReadCustom(t)
    PROVE  ProfileInv'
<1>1. PICK c : c = [g \in Profiles!Groups |->
                      [ids |-> {}, custom |-> profile.chosen[g].custom]]
    OBVIOUS
<1>2. PICK old : old = tab[t]
    OBVIOUS
<1>3. PICK r : r = [old EXCEPT !.read.next = "ids", !.read.groups = Profiles!Groups,
                               !.read.snapshot.chosen = c]
    OBVIOUS
<1>4. c \in [Profiles!Groups -> Profiles!Choice]
    BY <1>1, ProfileParts DEF Profiles!Choice
<1>5. /\ r \in Profiles!Tab
      /\ r.read.next = "ids" /\ r.read.groups = Profiles!Groups
      /\ r.read.snapshot.version = old.read.snapshot.version
      /\ r.read.snapshot.chosen = c
    <2>1. old \in Profiles!Tab
        BY <1>2, TabParts
    <2> QED BY <1>3, <1>4, <2>1 DEF Profiles!Tab, Profiles!Read, Profiles!Snapshot
<1>6. ReadKept(r.read)
    <2>1. ReadKept(old.read) /\ old.read.next = "custom"
        BY <1>2, TabParts DEF Profiles!ReadCustom
    <2>2. \A g \in Profiles!Groups : c[g].custom = profile.chosen[g].custom
        BY <1>1
    <2> QED BY <1>5, <2>1, <2>2 DEF ReadKept
<1>7. Profiles!Set(t, r) /\ UNCHANGED <<profile, photoReady, catalog>>
    BY <1>1, <1>2, <1>3 DEF Profiles!ReadCustom
<1> QED BY <1>5, <1>6, <1>7, ReadStep

LEMMA ReadIdsInv ==
    ASSUME ProfileInv, NEW t \in Tabs, NEW g \in Profiles!Groups, Profiles!ReadIds(t, g)
    PROVE  ProfileInv'
<1>1. PICK old : old = tab[t]
    OBVIOUS
<1>2. PICK rest : rest = old.read.groups \ {g}
    OBVIOUS
<1>3. PICK next : next = IF rest = {} THEN "answer" ELSE "ids"
    OBVIOUS
<1>4. PICK ids : ids = profile.chosen[g].ids
    OBVIOUS
<1>5. PICK r : r = [old EXCEPT !.read.next = next, !.read.groups = rest,
                               !.read.snapshot.chosen[g].ids = ids]
    OBVIOUS
<1>6. ids \in SUBSET Items
    BY <1>4, ProfileParts DEF Profiles!Choice
<1>7. /\ old \in Profiles!Tab /\ ReadKept(old.read)
      /\ old.read.snapshot.chosen \in [Profiles!Groups -> Profiles!Choice]
      /\ old.read.groups \in SUBSET Profiles!Groups /\ old.read.next = "ids"
    BY <1>1, TabParts DEF Profiles!ReadIds, Profiles!Snapshot
<1>8. PICK c : c = [old.read.snapshot.chosen EXCEPT ![g].ids = ids]
    OBVIOUS
<1>9. /\ c \in [Profiles!Groups -> Profiles!Choice]
      /\ c[g].ids = ids
      /\ \A h \in Profiles!Groups : c[h].custom = old.read.snapshot.chosen[h].custom
      /\ \A h \in Profiles!Groups \ {g} : c[h] = old.read.snapshot.chosen[h]
    BY <1>6, <1>7, <1>8 DEF Profiles!Choice
<1>10. r = [old EXCEPT !.read.next = next, !.read.groups = rest, !.read.snapshot.chosen = c]
    BY <1>5, <1>7, <1>8 DEF Profiles!Tab, Profiles!Read, Profiles!Snapshot
<1>11. /\ r \in Profiles!Tab
       /\ r.read.next = next /\ r.read.groups = rest
       /\ r.read.snapshot.version = old.read.snapshot.version
       /\ r.read.snapshot.chosen = c
    <2>1. rest \in SUBSET Profiles!Groups /\ next \in {"ids", "answer"}
        BY <1>2, <1>3, <1>7
    <2> QED BY <1>7, <1>9, <1>10, <2>1 DEF Profiles!Tab, Profiles!Read, Profiles!Snapshot
<1>12. ReadKept(r.read)
    BY <1>2, <1>3, <1>4, <1>7, <1>9, <1>11 DEF ReadKept
<1>13. Profiles!Set(t, r) /\ UNCHANGED <<profile, photoReady, catalog>>
    BY <1>1, <1>2, <1>3, <1>4, <1>5 DEF Profiles!ReadIds
<1> QED BY <1>11, <1>12, <1>13, ReadStep

LEMMA ArriveInv ==
    ASSUME ProfileInv, NEW t \in Tabs, Profiles!Arrive(t)
    PROVE  ProfileInv'
<1>1. PICK none : none = Profiles!NoRead
    OBVIOUS
<1>2. PICK old : old = tab[t]
    OBVIOUS
<1>3. PICK r : r = [old EXCEPT !.cache = old.read.snapshot, !.read = none]
    OBVIOUS
<1>4. none \in Profiles!Read /\ none.next = "none" /\ none.snapshot.version = 0
    BY <1>1, NothingTyped, ContentAssumption
    DEF Profiles!NoRead, Profiles!NoSnapshot, Profiles!Read, Profiles!Snapshot
<1>5. r \in Profiles!Tab /\ r.read = none
    <2>1. old \in Profiles!Tab /\ old.read.snapshot \in Profiles!Snapshot
        BY <1>2, TabParts
    <2> QED BY <1>3, <1>4, <2>1 DEF Profiles!Tab
<1>6. ReadKept(none)
    BY <1>4, ProfileParts DEF ReadKept
<1>7. Profiles!Set(t, r) /\ UNCHANGED <<profile, photoReady, catalog>>
    BY <1>1, <1>2, <1>3 DEF Profiles!Arrive
<1> QED BY <1>5, <1>6, <1>7, ReadStep

LEMMA CreateDraftInv ==
    ASSUME ProfileInv, NEW t \in Tabs, Profiles!CreateDraft(t)
    PROVE  ProfileInv'
<1>1. PICK e : e = Profiles!Empty
    OBVIOUS
<1>2. PICK read : read = [next |-> "answer", groups |-> {},
                          snapshot |-> [version |-> 1, chosen |-> e]]
    OBVIOUS
<1>3. PICK r : r = [tab[t] EXCEPT !.read = read]
    OBVIOUS
<1>4. read \in Profiles!Read
    <2>1. e \in [Profiles!Groups -> Profiles!Choice] /\ 1 \in 0..MaxVersion
        BY <1>1, NothingTyped, ContentAssumption
    <2> QED BY <1>2, <2>1 DEF Profiles!Read, Profiles!Snapshot
<1>5. r \in Profiles!Tab /\ r.read = read
    BY <1>3, <1>4, TabParts, WithRead
<1>6. /\ profile' = [profile EXCEPT !.exists = TRUE, !.version = 1]
      /\ ~profile.exists /\ Profiles!Set(t, r) /\ UNCHANGED <<photoReady, catalog>>
    BY <1>1, <1>2, <1>3 DEF Profiles!CreateDraft
<1>7. /\ profile' \in Profiles!ProfileRow
      /\ profile'.exists /\ profile'.version = 1 /\ profile'.chosen = profile.chosen
    <2>1. profile \in Profiles!ProfileRow /\ 1 \in 0..MaxVersion
        BY ProfileParts, ContentAssumption
    <2> QED BY <1>6, <2>1 DEF Profiles!ProfileRow
<1>8. Profiles!TypeOK'
    <2>1. tab' \in [Tabs -> Profiles!Tab]
        BY <1>5, <1>6, TabTyped DEF ProfileInv
    <2> QED BY <1>6, <1>7, <2>1 DEF ProfileInv, Profiles!TypeOK
<1>9. DraftIsEmpty' /\ InterestsFit'
    BY <1>7 DEF ProfileInv, DraftIsEmpty, InterestsFit
<1>10. ASSUME NEW u \in Tabs PROVE ReadKept(tab[u].read)'
    <2>1. CASE u = t
        <3>1. tab'[u].read = read
            BY <1>5, <1>6, <2>1 DEF Profiles!Set, ProfileInv, Profiles!TypeOK
        <3>2. profile.chosen = e
            BY <1>1, <1>6 DEF ProfileInv, DraftIsEmpty
        <3> QED BY <1>2, <1>7, <3>1, <3>2 DEF ReadKept
    <2>2. CASE u # t
        <3>1. tab'[u].read = tab[u].read
            BY <1>6, <2>2 DEF Profiles!Set, ProfileInv, Profiles!TypeOK
        <3>2. /\ ReadKept(tab[u].read) /\ ~profile.exists /\ profile.version = 0
              /\ tab[u].read.snapshot.version \in Nat
            BY <1>6, TabParts, ContentAssumption DEF ProfileInv, DraftIsEmpty
        <3> QED BY <1>7, <3>1, <3>2 DEF ReadKept
    <2> QED BY <2>1, <2>2
<1> QED BY <1>8, <1>9, <1>10 DEF ProfileInv

\* What the other steps leave to show.
LEMMA WriteStep ==
    ASSUME ProfileInv, ProfileMoves, profile' \in Profiles!ProfileRow,
           tab' \in [Tabs -> Profiles!Tab], \A t \in Tabs : tab'[t].read = tab[t].read,
           photoReady' \in BOOLEAN, catalog' \in Profiles!Catalog,
           Profiles!Fits(profile'.chosen["interests"])
    PROVE  ProfileInv'
<1>1. Profiles!TypeOK'
    BY DEF Profiles!TypeOK
<1>2. profile'.version \in Nat
    BY ContentAssumption DEF Profiles!ProfileRow
<1>3. \A t \in Tabs : ReadKept(tab[t].read)'
    BY <1>2, ReadsSurvive
<1>4. DraftIsEmpty'
    BY DEF ProfileInv, ProfileMoves, DraftIsEmpty
<1>5. InterestsFit'
    BY DEF InterestsFit, Profiles!Fits
<1> QED BY <1>1, <1>3, <1>4, <1>5 DEF ProfileInv

\* A save takes the profile from one selection to another that fits.
LEMMA StoreMoves ==
    ASSUME ProfileInv, Profiles!RoomForVersion, profile.exists,
           NEW chosen \in [Profiles!Groups -> Profiles!Choice],
           profile' = Profiles!Stored(chosen), Profiles!Fits(chosen["interests"])
    PROVE  /\ ProfileMoves /\ profile' \in Profiles!ProfileRow
           /\ Profiles!Fits(profile'.chosen["interests"])
<1>1. /\ profile' \in Profiles!ProfileRow /\ profile'.chosen = chosen
      /\ profile'.exists = profile.exists
      /\ \/ profile'.version = profile.version /\ chosen = profile.chosen
         \/ profile'.version = profile.version + 1
    BY StoredTyped DEF ProfileInv
<1>2. profile.version \in Nat
    BY ProfileParts, ContentAssumption
<1> QED BY <1>1, <1>2 DEF ProfileMoves

LEMMA SentTyped ==
    ASSUME ProfileInv, NEW t \in Tabs, NEW g \in Profiles!Groups, NEW c \in Profiles!Choice,
           Profiles!SaveAccepted(t, g, c)
    PROVE  /\ Profiles!Sent(t, g, c) \in [Profiles!Groups -> Profiles!Choice]
           /\ Profiles!Fits(Profiles!Sent(t, g, c)["interests"])
           /\ profile.exists
<1>1. tab[t].cache.chosen \in [Profiles!Groups -> Profiles!Choice]
    BY TabParts DEF Profiles!Snapshot
<1>2. Profiles!Sent(t, g, c) \in [Profiles!Groups -> Profiles!Choice]
    BY <1>1 DEF Profiles!Sent
<1>3. Profiles!Fits(Profiles!Sent(t, g, c)["interests"])
    BY DEF Profiles!SaveAccepted, Profiles!Valid, Profiles!Groups
<1>4. tab[t].cache.version > 0 /\ tab[t].cache.version = profile.version
    BY DEF Profiles!SaveAccepted, Profiles!Submits
<1>5. profile.exists
    BY <1>4 DEF ProfileInv, DraftIsEmpty
<1> QED BY <1>2, <1>3, <1>5

LEMMA SaveInv ==
    ASSUME ProfileInv, NEW t \in Tabs, NEW g \in Profiles!Groups, NEW c \in Profiles!Choice,
           Profiles!Save(t, g, c) \/ Profiles!SaveUnanswered(t, g, c)
    PROVE  ProfileInv'
<1>1. PICK chosen \in [Profiles!Groups -> Profiles!Choice] : chosen = Profiles!Sent(t, g, c)
    BY SentTyped DEF Profiles!Save, Profiles!SaveUnanswered
<1>2. /\ profile' = Profiles!Stored(chosen) /\ Profiles!RoomForVersion
      /\ profile.exists /\ Profiles!Fits(chosen["interests"])
      /\ UNCHANGED <<photoReady, catalog>>
    BY <1>1, SentTyped DEF Profiles!Save, Profiles!SaveUnanswered
<1>3. /\ ProfileMoves /\ profile' \in Profiles!ProfileRow
      /\ Profiles!Fits(profile'.chosen["interests"])
    BY <1>2, StoreMoves
<1>4. /\ tab' \in [Tabs -> Profiles!Tab]
      /\ \A u \in Tabs : tab'[u].read = tab[u].read
    <2>1. CASE Profiles!SaveUnanswered(t, g, c)
        BY <2>1 DEF Profiles!SaveUnanswered, ProfileInv, Profiles!TypeOK
    <2>2. CASE Profiles!Save(t, g, c)
        <3>1. PICK cache : cache = [version |-> profile'.version, chosen |-> profile'.chosen]
            OBVIOUS
        <3>2. PICK old : old = tab[t]
            OBVIOUS
        <3>3. PICK r : r = [old EXCEPT !.cache = cache]
            OBVIOUS
        <3>4. cache \in Profiles!Snapshot
            BY <1>3, <3>1 DEF Profiles!ProfileRow, Profiles!Snapshot
        <3>5. r \in Profiles!Tab /\ r.read = old.read
            <4>1. old \in Profiles!Tab
                BY <3>2, TabParts
            <4> QED BY <3>3, <3>4, <4>1 DEF Profiles!Tab
        <3>6. Profiles!Set(t, r)
            BY <2>2, <3>1, <3>2, <3>3 DEF Profiles!Save
        <3>7. tab' \in [Tabs -> Profiles!Tab]
            BY <3>5, <3>6, TabTyped DEF ProfileInv
        <3> QED BY <3>2, <3>5, <3>6, <3>7 DEF Profiles!Set, ProfileInv, Profiles!TypeOK
    <2> QED BY <2>1, <2>2
<1>5. photoReady' \in BOOLEAN /\ catalog' \in Profiles!Catalog
    BY <1>2 DEF ProfileInv, Profiles!TypeOK
<1> QED BY <1>3, <1>4, <1>5, WriteStep

LEMMA SaveProfileInv ==
    ASSUME ProfileInv, NEW t \in Tabs, NEW named \in BOOLEAN, NEW optIn \in BOOLEAN,
           Profiles!SaveProfile(t, named, optIn)
    PROVE  ProfileInv'
<1>1. PICK v : v = profile.version + 1
    OBVIOUS
<1>2. v \in 0..MaxVersion /\ v > profile.version /\ profile \in Profiles!ProfileRow
    <2>1. profile.version < MaxVersion
        BY DEF Profiles!SaveProfile, Profiles!RoomForVersion
    <2> QED BY <1>1, <2>1, ProfileParts, ContentAssumption
<1>3. /\ profile' = [profile EXCEPT !.named = named, !.optIn = optIn, !.version = v]
      /\ profile.exists /\ UNCHANGED <<photoReady, catalog>>
    BY <1>1 DEF Profiles!SaveProfile
<1>4. /\ profile' \in Profiles!ProfileRow /\ profile'.version = v
      /\ profile'.chosen = profile.chosen /\ profile'.exists
    BY <1>2, <1>3 DEF Profiles!ProfileRow
<1>5. ProfileMoves /\ Profiles!Fits(profile'.chosen["interests"])
    BY <1>2, <1>4 DEF ProfileMoves, ProfileInv, InterestsFit
<1>6. /\ tab' \in [Tabs -> Profiles!Tab]
      /\ \A u \in Tabs : tab'[u].read = tab[u].read
    <2>1. PICK old : old = tab[t]
        OBVIOUS
    <2>2. PICK w : w = IF old.cache.version > 0 THEN v ELSE old.cache.version
        OBVIOUS
    <2>3. PICK r : r = [old EXCEPT !.cache.version = w]
        OBVIOUS
    <2>4. old \in Profiles!Tab /\ old.cache \in Profiles!Snapshot
        BY <2>1, TabParts
    <2>5. w \in 0..MaxVersion
        BY <1>2, <2>2, <2>4 DEF Profiles!Snapshot
    <2>6. r \in Profiles!Tab /\ r.read = old.read
        BY <2>3, <2>4, <2>5 DEF Profiles!Tab, Profiles!Snapshot
    <2>7. Profiles!Set(t, r)
        <3>1. r = [tab[t] EXCEPT !.cache.version = IF @ > 0 THEN profile'.version ELSE @]
            BY <1>4, <2>1, <2>2, <2>3, <2>4 DEF Profiles!Tab, Profiles!Snapshot
        <3> QED BY <3>1 DEF Profiles!SaveProfile
    <2>8. tab' \in [Tabs -> Profiles!Tab]
        BY <2>6, <2>7, TabTyped DEF ProfileInv
    <2> QED BY <2>1, <2>6, <2>7, <2>8 DEF Profiles!Set, ProfileInv, Profiles!TypeOK
<1>7. photoReady' \in BOOLEAN /\ catalog' \in Profiles!Catalog
    BY <1>3 DEF ProfileInv, Profiles!TypeOK
<1> QED BY <1>4, <1>5, <1>6, <1>7, WriteStep

LEMMA ReplaceGroupInv ==
    ASSUME ProfileInv, NEW g \in Profiles!Groups, NEW c \in Profiles!Choice,
           Profiles!ReplaceGroup(g, c)
    PROVE  ProfileInv'
<1>1. PICK chosen : chosen = [profile.chosen EXCEPT ![g] = c]
    OBVIOUS
<1>2. chosen \in [Profiles!Groups -> Profiles!Choice]
    BY <1>1, ProfileParts
<1>3. Profiles!Fits(chosen["interests"])
    <2>1. "interests" \in Profiles!Groups /\ Profiles!Fits(c)
        BY DEF Profiles!Groups, Profiles!ReplaceGroup
    <2>2. chosen["interests"] = c \/ chosen["interests"] = profile.chosen["interests"]
        BY <1>1, <2>1, ProfileParts
    <2> QED BY <2>1, <2>2 DEF ProfileInv, InterestsFit
<1>4. /\ profile' = Profiles!Stored(chosen) /\ Profiles!RoomForVersion /\ profile.exists
      /\ UNCHANGED <<photoReady, catalog, tab>>
    BY <1>1 DEF Profiles!ReplaceGroup, Profiles!StoredGroup
<1>5. /\ ProfileMoves /\ profile' \in Profiles!ProfileRow
      /\ Profiles!Fits(profile'.chosen["interests"])
    BY <1>2, <1>3, <1>4, StoreMoves
<1> QED BY <1>4, <1>5, WriteStep DEF ProfileInv, Profiles!TypeOK

LEMMA ReplaceActivityIdsInv ==
    ASSUME ProfileInv, NEW ids \in SUBSET Items, Profiles!ReplaceActivityIds(ids)
    PROVE  ProfileInv'
<1>1. PICK v : v = profile.version + 1
    OBVIOUS
<1>2. v \in 0..MaxVersion /\ v > profile.version /\ profile \in Profiles!ProfileRow
    <2>1. profile.version < MaxVersion
        BY DEF Profiles!ReplaceActivityIds, Profiles!RoomForVersion
    <2> QED BY <1>1, <2>1, ProfileParts, ContentAssumption
<1>3. PICK chosen : chosen = [profile.chosen EXCEPT !["activities"].ids = ids]
    OBVIOUS
<1>4. /\ chosen \in [Profiles!Groups -> Profiles!Choice]
      /\ chosen["interests"] = profile.chosen["interests"]
    BY <1>3, ProfileParts DEF Profiles!Groups, Profiles!Choice
<1>5. /\ profile' = [profile EXCEPT !.chosen = chosen, !.version = v]
      /\ profile.exists /\ UNCHANGED <<photoReady, catalog, tab>>
    BY <1>1, <1>2, <1>3 DEF Profiles!ReplaceActivityIds, Profiles!ProfileRow
<1>6. /\ profile' \in Profiles!ProfileRow /\ profile'.version = v
      /\ profile'.chosen = chosen /\ profile'.exists
    BY <1>2, <1>4, <1>5 DEF Profiles!ProfileRow
<1>7. ProfileMoves /\ Profiles!Fits(profile'.chosen["interests"])
    BY <1>2, <1>4, <1>6 DEF ProfileMoves, ProfileInv, InterestsFit
<1> QED BY <1>5, <1>6, <1>7, WriteStep DEF ProfileInv, Profiles!TypeOK

LEMMA ReadCompletionInv ==
    ASSUME ProfileInv, Profiles!ReadCompletion
    PROVE  ProfileInv'
<1>1. /\ profile' = [profile EXCEPT !.onboarded = TRUE] /\ profile.exists
      /\ UNCHANGED <<photoReady, catalog, tab>>
    BY DEF Profiles!ReadCompletion
<1>2. /\ profile' \in Profiles!ProfileRow /\ profile'.version = profile.version
      /\ profile'.chosen = profile.chosen /\ profile'.exists
    BY <1>1, ProfileParts DEF Profiles!ProfileRow
<1>3. ProfileMoves /\ Profiles!Fits(profile'.chosen["interests"])
    BY <1>2 DEF ProfileMoves, ProfileInv, InterestsFit
<1> QED BY <1>1, <1>2, <1>3, WriteStep DEF ProfileInv, Profiles!TypeOK

\* The rest of the server changes the photo and the catalog.
LEMMA OutsideInv ==
    ASSUME ProfileInv,
           \/ Profiles!ChangeAvatar
           \/ \E i \in Items, k \in Keys : Profiles!Relabel(i, k)
           \/ \E i \in Items : Profiles!Toggle(i)
           \/ UNCHANGED profileVars
    PROVE  ProfileInv'
<1>1. UNCHANGED <<profile, tab>>
    BY DEF Profiles!ChangeAvatar, Profiles!Relabel, Profiles!Toggle, profileVars
<1>2. ProfileMoves /\ Profiles!Fits(profile'.chosen["interests"])
    BY <1>1 DEF ProfileMoves, ProfileInv, InterestsFit
<1>3. profile' \in Profiles!ProfileRow /\ tab' \in [Tabs -> Profiles!Tab]
    BY <1>1 DEF ProfileInv, Profiles!TypeOK
<1>4. photoReady' \in BOOLEAN
    BY DEF ProfileInv, Profiles!TypeOK, Profiles!ChangeAvatar, Profiles!Relabel,
           Profiles!Toggle, profileVars
<1>5. catalog' \in Profiles!Catalog
    <2>1. catalog \in Profiles!Catalog
        BY DEF ProfileInv, Profiles!TypeOK
    <2>2. CASE \E i \in Items, k \in Keys : Profiles!Relabel(i, k)
        BY <2>1, <2>2 DEF Profiles!Relabel, Profiles!Catalog
    <2>3. CASE \E i \in Items : Profiles!Toggle(i)
        <3>1. PICK i \in Items : Profiles!Toggle(i)
            BY <2>3
        <3>2. PICK active : active = IF i \in catalog.active THEN catalog.active \ {i}
                                     ELSE catalog.active \cup {i}
            OBVIOUS
        <3>3. active \in SUBSET Items
            BY <2>1, <3>2 DEF Profiles!Catalog
        <3>4. catalog' = [catalog EXCEPT !.active = active]
            BY <2>1, <3>1, <3>2 DEF Profiles!Toggle, Profiles!Catalog
        <3> QED BY <2>1, <3>3, <3>4 DEF Profiles!Catalog
    <2>4. CASE Profiles!ChangeAvatar \/ UNCHANGED profileVars
        BY <2>1, <2>4 DEF Profiles!ChangeAvatar, profileVars
    <2> QED BY <2>2, <2>3, <2>4
<1> QED BY <1>1, <1>2, <1>3, <1>4, <1>5, WriteStep

LEMMA ProfileNext ==
    ASSUME ProfileInv, Profiles!Next \/ UNCHANGED profileVars
    PROVE  ProfileInv'
<1>1. CASE \E t \in Tabs : Profiles!CreateDraft(t) \/ Profiles!Fetch(t)
                           \/ Profiles!ReadCustom(t) \/ Profiles!Arrive(t)
    BY <1>1, CreateDraftInv, FetchInv, ReadCustomInv, ArriveInv
<1>2. CASE \E t \in Tabs, g \in Profiles!Groups : Profiles!ReadIds(t, g)
    BY <1>2, ReadIdsInv
<1>3. CASE \E t \in Tabs, g \in Profiles!Groups, c \in Profiles!Choice :
             Profiles!Save(t, g, c) \/ Profiles!SaveUnanswered(t, g, c)
    BY <1>3, SaveInv
<1>4. CASE \E t \in Tabs, named, optIn \in BOOLEAN : Profiles!SaveProfile(t, named, optIn)
    BY <1>4, SaveProfileInv
<1>5. CASE \E g \in Profiles!Groups, c \in Profiles!Choice : Profiles!ReplaceGroup(g, c)
    BY <1>5, ReplaceGroupInv
<1>6. CASE \E ids \in SUBSET Items : Profiles!ReplaceActivityIds(ids)
    BY <1>6, ReplaceActivityIdsInv
<1>7. CASE Profiles!ReadCompletion
    BY <1>7, ReadCompletionInv
<1>8. CASE \/ Profiles!ChangeAvatar
           \/ \E i \in Items, k \in Keys : Profiles!Relabel(i, k)
           \/ \E i \in Items : Profiles!Toggle(i)
           \/ UNCHANGED profileVars
    BY <1>8, OutsideInv
<1> QED BY <1>1, <1>2, <1>3, <1>4, <1>5, <1>6, <1>7, <1>8 DEF Profiles!Next

\* An answer with the current version has the current selections.
LEMMA CurrentSnapshots == ProfileInv => SnapshotIsCurrent
<1> SUFFICES ASSUME ProfileInv, NEW t \in Tabs,
                    tab[t].read.next = "answer",
                    tab[t].read.snapshot.version = profile.version
             PROVE  tab[t].read.snapshot.chosen = profile.chosen
    BY DEF SnapshotIsCurrent, Profiles!SnapshotIsCurrent
<1>1. PICK c : c = tab[t].read.snapshot.chosen
    OBVIOUS
<1>2. PICK p : p = profile.chosen
    OBVIOUS
<1>3. c \in [Profiles!Groups -> Profiles!Choice] /\ p \in [Profiles!Groups -> Profiles!Choice]
    BY <1>1, <1>2, TabParts, ProfileParts DEF Profiles!Snapshot
<1>4. \A g \in Profiles!Groups : c[g].custom = p[g].custom /\ c[g].ids = p[g].ids
    BY <1>1, <1>2, TabParts DEF ReadKept
<1>5. \A g \in Profiles!Groups : c[g] = p[g]
    BY <1>3, <1>4 DEF Profiles!Choice
<1> QED BY <1>1, <1>2, <1>3, <1>5

\* The sizes the two policies compare.
LEMMA Sizes ==
    ASSUME ProfileInv, NEW g \in Profiles!Groups
    PROVE  /\ profile.chosen[g] \in Profiles!Choice
           /\ IsFiniteSet(profile.chosen[g].ids \cap catalog.active)
           /\ IsFiniteSet(profile.chosen[g].custom)
           /\ Cardinality(profile.chosen[g].ids \cap catalog.active) \in Nat
           /\ Cardinality(profile.chosen[g].ids) \in Nat
           /\ Cardinality(profile.chosen[g].custom) \in Nat
           /\ Cardinality(profile.chosen[g].ids \cap catalog.active)
                <= Cardinality(profile.chosen[g].ids)
<1>1. PICK c \in Profiles!Choice : c = profile.chosen[g]
    BY ProfileParts
<1>2. c.ids \in SUBSET Items /\ c.custom \in SUBSET Keys
    BY DEF Profiles!Choice
<1>3. IsFiniteSet(c.ids) /\ IsFiniteSet(c.custom)
    BY <1>2, ContentAssumption, FS_Subset
<1>4. PICK s : s = c.ids \cap catalog.active
    OBVIOUS
<1>5. s \in SUBSET c.ids
    BY <1>4
<1>6. IsFiniteSet(s) /\ Cardinality(s) <= Cardinality(c.ids)
    BY <1>3, <1>5, FS_Subset
<1>7. Cardinality(s) \in Nat /\ Cardinality(c.ids) \in Nat /\ Cardinality(c.custom) \in Nat
    BY <1>3, <1>6, FS_CardinalityType
<1> QED BY <1>1, <1>3, <1>4, <1>6, <1>7

\* Both policies count the same interests as none and as too many.
LEMMA PoliciesAgree ==
    ASSUME ProfileInv
    PROVE  /\ Profiles!CountedByQuery(profile.chosen["interests"]) \in 1..SelectionLimit
                <=> Profiles!CountedByCompletion(profile.chosen["interests"]) \in 1..SelectionLimit
           /\ Profiles!CountedByQuery(profile.chosen["interests"]) \in 1..SelectionLimit
                => Profiles!Projected(profile.chosen["interests"]) # Profiles!Nothing
           /\ Profiles!Size(Profiles!Projected(profile.chosen["interests"])) <= SelectionLimit
<1>1. PICK c : c = profile.chosen["interests"]
    OBVIOUS
<1>2. PICK s : s = c.ids \cap catalog.active
    OBVIOUS
<1>3. PICK d : d = c.custom \ Profiles!Labels(s)
    OBVIOUS
<1>4. /\ IsFiniteSet(s) /\ IsFiniteSet(c.custom) /\ Cardinality(s) \in Nat
      /\ Cardinality(c.ids) \in Nat /\ Cardinality(c.custom) \in Nat
      /\ Cardinality(s) <= Cardinality(c.ids)
    <2>1. "interests" \in Profiles!Groups
        BY DEF Profiles!Groups
    <2> QED BY <1>1, <1>2, <2>1, Sizes
<1>5. Cardinality(c.ids) + Cardinality(c.custom) <= SelectionLimit
    BY <1>1, SameCardinality DEF ProfileInv, InterestsFit, Profiles!Fits
<1>6. IsFiniteSet(d) /\ Cardinality(d) <= Cardinality(c.custom) /\ Cardinality(d) \in Nat
    <2>1. d \in SUBSET c.custom
        BY <1>3
    <2>2. IsFiniteSet(d) /\ Cardinality(d) <= Cardinality(c.custom)
        BY <1>4, <2>1, FS_Subset
    <2> QED BY <2>2, FS_CardinalityType
<1>7. Cardinality(s) = 0 => s = {} /\ d = c.custom
    <2>1. Cardinality(s) = 0 => s = {}
        BY <1>4, FS_EmptySet
    <2>2. s = {} => Profiles!Labels(s) = {}
        BY DEF Profiles!Labels
    <2> QED BY <1>3, <2>1, <2>2
<1>8. Cardinality(c.custom) = 0 => c.custom = {}
    BY <1>4, FS_EmptySet
<1>9. /\ Profiles!CountedByQuery(c) = Cardinality(s) + Cardinality(c.custom)
      /\ Profiles!CountedByCompletion(c) = Cardinality(s) + Cardinality(d)
    BY <1>2, <1>3, SameCardinality DEF Profiles!CountedByQuery, Profiles!CountedByCompletion
<1>10. Profiles!Projected(c).ids = s /\ Profiles!Projected(c).custom = c.custom
    BY <1>2 DEF Profiles!Projected
<1>11. Profiles!Size(Profiles!Projected(c)) = Cardinality(s) + Cardinality(c.custom)
    BY <1>10, SameCardinality DEF Profiles!Size
<1>12. Cardinality(s) + Cardinality(c.custom) \in 1..SelectionLimit
         <=> Cardinality(s) + Cardinality(d) \in 1..SelectionLimit
    BY <1>4, <1>5, <1>6, <1>7, ContentAssumption
<1>13. Cardinality(s) + Cardinality(c.custom) \in 1..SelectionLimit
         => Profiles!Projected(c) # Profiles!Nothing
    <2>1. SUFFICES ASSUME Profiles!Projected(c) = Profiles!Nothing
                   PROVE  Cardinality(s) = 0 /\ Cardinality(c.custom) = 0
        OBVIOUS
    <2>2. s = {} /\ c.custom = {}
        BY <1>10, <2>1 DEF Profiles!Nothing
    <2> QED BY <2>2, FS_EmptySet
<1> QED BY <1>1, <1>4, <1>5, <1>9, <1>11, <1>12, <1>13, ContentAssumption

LEMMA PoliciesAdmitTheSame == ProfileInv => ListedIffEligible
<1> SUFFICES ASSUME ProfileInv PROVE ListedIffEligible
    OBVIOUS
<1>1. Profiles!Listed <=> Profiles!MatchingEligible
    BY PoliciesAgree DEF Profiles!Listed, Profiles!MatchingEligible, Profiles!Complete
<1>2. PICK f : f = [g \in Profiles!Groups |-> Profiles!Projected(profile.chosen[g])]
    OBVIOUS
<1>3. Profiles!PublicProfile.chosen = f /\ Profiles!PublicProfile.avatar = photoReady
    BY <1>2 DEF Profiles!PublicProfile
<1>4. f["interests"] = Profiles!Projected(profile.chosen["interests"])
    BY <1>2 DEF Profiles!Groups
<1>5. Profiles!Listed => Profiles!Scored
    BY <1>3, <1>4, PoliciesAgree DEF Profiles!Listed, Profiles!Scored
<1>6. Profiles!Size(Profiles!PublicProfile.chosen["activities"]) <= SelectionLimit
         => Profiles!Presentable
    BY <1>3, <1>4, PoliciesAgree DEF Profiles!Presentable, Profiles!Groups
<1> QED BY <1>1, <1>5, <1>6
        DEF ListedIffEligible, Profiles!ListedIffEligible, Profiles!PoolServed,
            Profiles!PairServed, Profiles!Recommendable

------------------------------------------------------------------------------
(* Profile photos.                                                         *)

AvatarRequest ==
  [pc : {"idle", "replace", "cleanup", "compensate"}, owner : Owners \cup {Nobody},
   new : Pictures \cup {NoFile}, old : Pictures \cup {NoFile}]

AvatarTyped ==
  /\ avatar \in [Owners -> Pictures \cup {NoFile}]
  /\ avatarStore \in [Pictures -> {"unused", "young", "old", "gone"}]
  /\ avatarReq \in [Requests -> AvatarRequest]
  /\ reconciler \in [pc : {"idle", "list", "delete"}, files : SUBSET Pictures,
                     aged : SUBSET Pictures]
  /\ avatarLost \subseteq Pictures

\* A key that was not given out is named nowhere.
UnusedUnknown ==
  \A f \in Pictures : avatarStore[f] = "unused" =>
    /\ \A o \in Owners : avatar[o] # f
    /\ \A q \in Requests : avatarReq[q].new # f /\ avatarReq[q].old # f

\* The new object of a replacement is its own, and too young for a reconciler.
ReplacementOwn ==
  \A q \in Requests : avatarReq[q].new # NoFile =>
    /\ avatarReq[q].pc = "replace" /\ avatarReq[q].owner \in Owners
    /\ avatarStore[avatarReq[q].new] = "young"
    /\ \A o \in Owners : avatar[o] # avatarReq[q].new
    /\ \A p \in Requests : avatarReq[p].old # avatarReq[q].new
    /\ \A p \in Requests \ {q} : avatarReq[p].new # avatarReq[q].new

ReplacesItsNew ==
  \A q \in Requests : avatarReq[q].pc = "replace" => avatarReq[q].new # NoFile

\* What a compensation deletes is nobody's avatar, or its commit was lost.
CompensatesOwn ==
  \A q \in Requests : avatarReq[q].pc = "compensate" =>
    /\ avatarReq[q].old # NoFile
    /\ \/ avatarReq[q].old \in avatarLost
       \/ \A o \in Owners : avatar[o] # avatarReq[q].old

\* What a reconciler may delete was an orphan past the gate when it read the
\* rows, and can never be attached again.
OrphansStay ==
  /\ reconciler.pc = "list" =>
       \A f \in reconciler.aged \ reconciler.files : \A o \in Owners : avatar[o] # f
  /\ reconciler.pc = "delete" => \A f \in reconciler.files : \A o \in Owners : avatar[o] # f
  /\ \A f \in reconciler.aged : avatarStore[f] \in {"old", "gone"}
  /\ reconciler.pc = "delete" => reconciler.files \subseteq reconciler.aged

AvatarInv ==
  /\ AvatarTyped /\ UnusedUnknown /\ ReplacementOwn /\ ReplacesItsNew /\ CompensatesOwn
  /\ OrphansStay /\ AvatarHasFile

LEMMA AvatarInit == Avatars!Init => AvatarInv
<1> SUFFICES ASSUME Avatars!Init PROVE AvatarInv
    OBVIOUS
<1>1. AvatarTyped
    BY DEF Avatars!Init, AvatarTyped, AvatarRequest, Avatars!NoRequest, Avatars!Idle
<1>2. UnusedUnknown /\ ReplacementOwn /\ ReplacesItsNew /\ CompensatesOwn /\ OrphansStay
    BY ContentAssumption
    DEF Avatars!Init, UnusedUnknown, ReplacementOwn, ReplacesItsNew, CompensatesOwn,
        OrphansStay, Avatars!NoRequest, Avatars!Idle
<1>3. AvatarHasFile
    BY DEF Avatars!Init, AvatarHasFile, Avatars!AvatarHasFile
<1> QED BY <1>1, <1>2, <1>3 DEF AvatarInv

\* There is a next key.
LEMMA NextPicture ==
    ASSUME Avatars!Unused # {}
    PROVE  Avatars!NextFile \in Pictures /\ avatarStore[Avatars!NextFile] = "unused"
<1>1. Avatars!Unused \in SUBSET Nat
    BY ContentAssumption DEF Avatars!Unused
<1>2. \E f \in Avatars!Unused : \A g \in Avatars!Unused : f <= g
    BY <1>1, LeastNumber
<1>3. Avatars!NextFile \in Avatars!Unused
    BY <1>2 DEF Avatars!NextFile
<1> QED BY <1>3 DEF Avatars!Unused

\* The requests that steps leave behind.
LEMMA AvatarRequests ==
    ASSUME NEW f \in Pictures \cup {NoFile}, NEW pc \in {"cleanup", "compensate"}
    PROVE  /\ Avatars!NoRequest \in AvatarRequest
           /\ Avatars!NoRequest.pc = "idle" /\ Avatars!NoRequest.new = NoFile
           /\ Avatars!NoRequest.old = NoFile
           /\ [Avatars!NoRequest EXCEPT !.pc = pc, !.old = f] \in AvatarRequest
           /\ [Avatars!NoRequest EXCEPT !.pc = pc, !.old = f].pc = pc
           /\ [Avatars!NoRequest EXCEPT !.pc = pc, !.old = f].new = NoFile
           /\ [Avatars!NoRequest EXCEPT !.pc = pc, !.old = f].old = f
BY DEF Avatars!NoRequest, AvatarRequest

LEMMA AvatarRequestParts ==
    ASSUME AvatarInv, NEW q \in Requests
    PROVE  /\ avatarReq[q] \in AvatarRequest
           /\ avatarReq[q].new \in Pictures \cup {NoFile}
           /\ avatarReq[q].old \in Pictures \cup {NoFile}
BY DEF AvatarInv, AvatarTyped, AvatarRequest

LEMMA UploadAvatarInv ==
    ASSUME AvatarInv, NEW q \in Requests, NEW o \in Owners, Avatars!UploadAvatar(q, o)
    PROVE  AvatarInv'
<1>1. PICK f : f = Avatars!NextFile
    OBVIOUS
<1>2. f \in Pictures /\ avatarStore[f] = "unused" /\ f # NoFile
    BY <1>1, NextPicture, ContentAssumption DEF Avatars!UploadAvatar
<1>3. PICK z : z = [pc |-> "replace", owner |-> o, new |-> f, old |-> avatar[o]]
    OBVIOUS
<1>4. /\ avatarStore' = [avatarStore EXCEPT ![f] = "young"]
      /\ avatarReq' = [avatarReq EXCEPT ![q] = z] \/ avatarReq' = avatarReq
      /\ UNCHANGED <<avatar, reconciler, avatarLost>>
    BY <1>1, <1>3 DEF Avatars!UploadAvatar
<1>5. AvatarTyped
    BY DEF AvatarInv
<1>6. /\ z \in AvatarRequest /\ z.pc = "replace" /\ z.owner = o
      /\ z.new = f /\ z.old = avatar[o]
    BY <1>2, <1>3, <1>5 DEF AvatarTyped, AvatarRequest
<1>7. AvatarTyped'
    BY <1>2, <1>4, <1>5, <1>6 DEF AvatarTyped
<1>8. /\ \A p \in Owners : avatar[p] # f
      /\ \A p \in Requests : avatarReq[p].new # f /\ avatarReq[p].old # f
    BY <1>2 DEF AvatarInv, UnusedUnknown
<1>9. UnusedUnknown'
    BY <1>2, <1>4, <1>5, <1>6 DEF AvatarInv, UnusedUnknown, AvatarTyped
<1>10. ReplacementOwn'
    <2>1. ASSUME NEW p \in Requests, avatarReq'[p].new # NoFile, p # q \/ avatarReq' = avatarReq
          PROVE  /\ avatarReq[p].new # NoFile /\ avatarReq'[p] = avatarReq[p]
                 /\ avatarReq[p].new # f /\ avatarReq[p].new \in Pictures
        BY <1>4, <1>5, <1>8, <2>1, AvatarRequestParts DEF AvatarTyped
    <2>2. ReplacementOwn
        BY DEF AvatarInv
    <2>3. CASE avatarReq' = avatarReq
        BY <1>2, <1>4, <1>5, <2>1, <2>2, <2>3 DEF ReplacementOwn, AvatarTyped
    <2>4. CASE avatarReq' = [avatarReq EXCEPT ![q] = z]
        BY <1>2, <1>4, <1>5, <1>6, <1>8, <2>1, <2>2, <2>4 DEF ReplacementOwn, AvatarTyped
    <2> QED BY <1>4, <2>3, <2>4
<1>11. ReplacesItsNew' /\ CompensatesOwn'
    BY <1>2, <1>4, <1>5, <1>6 DEF AvatarInv, ReplacesItsNew, CompensatesOwn, AvatarTyped
<1>12. OrphansStay'
    BY <1>2, <1>4, <1>5 DEF AvatarInv, OrphansStay, AvatarTyped
<1>13. AvatarHasFile'
    BY <1>2, <1>4, <1>5
    DEF AvatarInv, AvatarHasFile, Avatars!AvatarHasFile, Avatars!Stored, AvatarTyped
<1> QED BY <1>7, <1>9, <1>10, <1>11, <1>12, <1>13 DEF AvatarInv

\* What a request that is over with its object leaves to show.
LEMMA RequestOver ==
    ASSUME AvatarInv, NEW q \in Requests, NEW z \in AvatarRequest,
           avatarReq' = [avatarReq EXCEPT ![q] = z],
           z.new = NoFile, z.pc # "replace",
           \/ z.old = NoFile
           \/ /\ avatarStore[z.old] # "unused"
              /\ \A p \in Requests \ {q} : avatarReq[p].new # z.old,
           \A o \in Owners : \/ avatar'[o] = avatar[o]
                             \/ avatar'[o] = NoFile
                             \/ avatar'[o] = avatarReq[q].new,
           avatar' \in [Owners -> Pictures \cup {NoFile}],
           avatarStore' \in [Pictures -> {"unused", "young", "old", "gone"}],
           \A f \in Pictures : \/ avatarStore'[f] = avatarStore[f]
                               \/ /\ avatarStore[f] # "unused" /\ avatarStore'[f] = "gone"
                                  /\ \A p \in Requests \ {q} : avatarReq[p].new # f,
           UNCHANGED reconciler
    PROVE  UnusedUnknown' /\ ReplacementOwn' /\ ReplacesItsNew' /\ OrphansStay'
<1>1. AvatarTyped /\ UnusedUnknown /\ ReplacementOwn /\ ReplacesItsNew /\ OrphansStay
    BY DEF AvatarInv
<1>2. avatarReq'[q] = z /\ \A p \in Requests \ {q} : avatarReq'[p] = avatarReq[p]
    BY <1>1 DEF AvatarTyped
<1>3. \A p \in Requests : avatarReq[p].new \in Pictures \cup {NoFile}
    BY AvatarRequestParts
<1>4. \/ avatarReq[q].new = NoFile
      \/ avatarReq[q].new \in Pictures /\ avatarStore[avatarReq[q].new] = "young"
    <2>1. avatarReq[q].new # NoFile => avatarStore[avatarReq[q].new] = "young"
        BY <1>1 DEF ReplacementOwn
    <2> QED BY <1>3, <2>1
<1>5. UnusedUnknown'
    <2>1. ASSUME NEW f \in Pictures, avatarStore'[f] = "unused"
          PROVE  /\ \A o \in Owners : avatar'[o] # f
                 /\ \A p \in Requests : avatarReq'[p].new # f /\ avatarReq'[p].old # f
        <3>1. /\ avatarStore[f] = "unused" /\ f # NoFile
              /\ \A o \in Owners : avatar[o] # f
              /\ \A p \in Requests : avatarReq[p].new # f /\ avatarReq[p].old # f
            BY <1>1, <2>1, ContentAssumption DEF UnusedUnknown
        <3> QED BY <1>2, <3>1
    <2> QED BY <2>1 DEF UnusedUnknown
<1>6. ReplacementOwn'
    <2>1. ASSUME NEW p \in Requests, avatarReq'[p].new # NoFile
          PROVE  /\ avatarReq'[p].pc = "replace" /\ avatarReq'[p].owner \in Owners
                 /\ avatarStore'[avatarReq'[p].new] = "young"
                 /\ \A o \in Owners : avatar'[o] # avatarReq'[p].new
                 /\ \A r \in Requests : avatarReq'[r].old # avatarReq'[p].new
                 /\ \A r \in Requests \ {p} : avatarReq'[r].new # avatarReq'[p].new
        <3>1. p # q /\ avatarReq'[p] = avatarReq[p]
            BY <1>2, <2>1
        <3>2. /\ avatarReq[p].new \in Pictures /\ avatarReq[p].new # NoFile
              /\ avatarReq[p].pc = "replace" /\ avatarReq[p].owner \in Owners
              /\ avatarStore[avatarReq[p].new] = "young"
              /\ \A o \in Owners : avatar[o] # avatarReq[p].new
              /\ \A r \in Requests : avatarReq[r].old # avatarReq[p].new
              /\ \A r \in Requests \ {p} : avatarReq[r].new # avatarReq[p].new
            BY <1>1, <1>3, <2>1, <3>1 DEF ReplacementOwn
        <3>3. avatarStore'[avatarReq[p].new] = "young"
            BY <3>1, <3>2
        <3>4. \A o \in Owners : avatar'[o] # avatarReq[p].new
            BY <3>1, <3>2
        <3>5. \A r \in Requests : avatarReq'[r].old # avatarReq[p].new
            BY <1>2, <3>1, <3>2
        <3>6. \A r \in Requests \ {p} : avatarReq'[r].new # avatarReq[p].new
            BY <1>2, <3>1, <3>2
        <3> QED BY <3>1, <3>2, <3>3, <3>4, <3>5, <3>6
    <2> QED BY <2>1 DEF ReplacementOwn
<1>7. ReplacesItsNew'
    BY <1>1, <1>2 DEF ReplacesItsNew
<1>8. OrphansStay'
    <2>1. reconciler.aged \in SUBSET Pictures /\ reconciler.files \in SUBSET Pictures
        BY <1>1 DEF AvatarTyped
    <2>2. \A f \in reconciler.aged : /\ f # NoFile /\ f # avatarReq[q].new
                                     /\ avatarStore'[f] \in {"old", "gone"}
        BY <1>1, <1>4, <2>1, ContentAssumption DEF OrphansStay
    <2> QED BY <1>1, <2>1, <2>2 DEF OrphansStay
<1> QED BY <1>5, <1>6, <1>7, <1>8

\* An attached object is in Storage.
LEMMA AttachInv ==
    ASSUME AvatarInv, NEW q \in Requests,
           Avatars!CommitAvatar(q) \/ Avatars!CommitReportedFailed(q)
    PROVE  AvatarInv'
<1>1. PICK f : f = avatarReq[q].new
    OBVIOUS
<1>2. PICK old : old = avatarReq[q].old
    OBVIOUS
<1>3. PICK o : o = avatarReq[q].owner
    OBVIOUS
<1>4. AvatarTyped /\ UnusedUnknown /\ ReplacementOwn /\ CompensatesOwn /\ AvatarHasFile
    BY DEF AvatarInv
<1>5. /\ f \in Pictures /\ f # NoFile /\ o \in Owners /\ avatarStore[f] = "young"
      /\ \A p \in Requests : avatarReq[p].old # f
      /\ \A p \in Requests \ {q} : avatarReq[p].new # f
    BY <1>1, <1>3, AvatarRequestParts
    DEF AvatarInv, ReplacementOwn, ReplacesItsNew, Avatars!CommitAvatar,
        Avatars!CommitReportedFailed, Avatars!Attach
<1>6. avatar' = [avatar EXCEPT ![o] = f]
      /\ UNCHANGED <<avatarStore, reconciler>>
    BY <1>1, <1>3 DEF Avatars!CommitAvatar, Avatars!CommitReportedFailed, Avatars!Attach
<1>7. PICK z \in AvatarRequest :
         /\ avatarReq' = [avatarReq EXCEPT ![q] = z]
         /\ z.new = NoFile
         /\ \/ z.pc = "cleanup" /\ z.old = old /\ avatarLost' = avatarLost
            \/ z.pc = "compensate" /\ z.old = f /\ avatarLost' = avatarLost \cup {f}
    <2>1. old \in Pictures \cup {NoFile} /\ f \in Pictures \cup {NoFile}
        BY <1>1, <1>2, AvatarRequestParts
    <2>2. CASE Avatars!CommitAvatar(q)
        BY <1>2, <2>1, <2>2, AvatarRequests DEF Avatars!CommitAvatar
    <2>3. CASE Avatars!CommitReportedFailed(q)
        BY <1>1, <2>1, <2>3, AvatarRequests DEF Avatars!CommitReportedFailed
    <2> QED BY <2>2, <2>3
<1>8. AvatarTyped'
    BY <1>4, <1>5, <1>6, <1>7 DEF AvatarTyped
<1>9. UnusedUnknown' /\ ReplacementOwn' /\ ReplacesItsNew' /\ OrphansStay'
    <2>1. \/ z.old = NoFile
          \/ /\ avatarStore[z.old] # "unused"
             /\ \A p \in Requests \ {q} : avatarReq[p].new # z.old
        <3>1. CASE z.old = f
            BY <1>5, <3>1
        <3>2. CASE z.old = old
            BY <1>2, <1>4, <3>2, AvatarRequestParts DEF UnusedUnknown, ReplacementOwn
        <3> QED BY <1>7, <3>1, <3>2
    <2>2. \A p \in Owners : avatar'[p] = avatar[p] \/ avatar'[p] = avatarReq[q].new
        BY <1>1, <1>4, <1>5, <1>6 DEF AvatarTyped
    <2>3. /\ avatar' \in [Owners -> Pictures \cup {NoFile}]
          /\ avatarStore' \in [Pictures -> {"unused", "young", "old", "gone"}]
        BY <1>8 DEF AvatarTyped
    <2>4. z.pc # "replace"
        BY <1>7
    <2> QED BY <1>6, <1>7, <2>1, <2>2, <2>3, <2>4, RequestOver
<1>10. CompensatesOwn'
    BY <1>4, <1>5, <1>6, <1>7 DEF CompensatesOwn, AvatarTyped
<1>11. AvatarHasFile'
    BY <1>4, <1>5, <1>6, <1>7
    DEF AvatarHasFile, Avatars!AvatarHasFile, Avatars!Stored, AvatarTyped
<1> QED BY <1>8, <1>9, <1>10, <1>11 DEF AvatarInv

LEMMA FailAvatarInv ==
    ASSUME AvatarInv, NEW q \in Requests, Avatars!FailAvatar(q)
    PROVE  AvatarInv'
<1>1. PICK f : f = avatarReq[q].new
    OBVIOUS
<1>2. AvatarTyped /\ ReplacementOwn /\ CompensatesOwn /\ AvatarHasFile
    BY DEF AvatarInv
<1>3. /\ f \in Pictures /\ f # NoFile /\ avatarStore[f] = "young"
      /\ \A o \in Owners : avatar[o] # f
      /\ \A p \in Requests \ {q} : avatarReq[p].new # f
    BY <1>1, AvatarRequestParts
    DEF AvatarInv, ReplacementOwn, ReplacesItsNew, Avatars!FailAvatar
<1>4. UNCHANGED <<avatar, avatarStore, reconciler, avatarLost>>
    BY DEF Avatars!FailAvatar
<1>5. PICK z \in AvatarRequest :
         /\ avatarReq' = [avatarReq EXCEPT ![q] = z]
         /\ z.new = NoFile /\ z.pc = "compensate" /\ z.old = f
    BY <1>1, <1>3, AvatarRequests DEF Avatars!FailAvatar
<1>6. AvatarTyped'
    BY <1>2, <1>4, <1>5 DEF AvatarTyped
<1>7. UnusedUnknown' /\ ReplacementOwn' /\ ReplacesItsNew' /\ OrphansStay'
    <2>1. /\ avatar' \in [Owners -> Pictures \cup {NoFile}]
          /\ avatarStore' \in [Pictures -> {"unused", "young", "old", "gone"}]
        BY <1>6 DEF AvatarTyped
    <2>2. z.pc # "replace"
        BY <1>5
    <2> QED BY <1>3, <1>4, <1>5, <2>1, <2>2, RequestOver
<1>8. CompensatesOwn'
    BY <1>2, <1>3, <1>4, <1>5 DEF CompensatesOwn, AvatarTyped
<1>9. AvatarHasFile'
    BY <1>2, <1>4 DEF AvatarHasFile, Avatars!AvatarHasFile, Avatars!Stored
<1> QED BY <1>6, <1>7, <1>8, <1>9 DEF AvatarInv

\* What a cleanup or a compensation deletes is no avatar, or its commit was lost.
LEMMA CleanupInv ==
    ASSUME AvatarInv, NEW q \in Requests, Avatars!Cleanup(q)
    PROVE  AvatarInv'
<1>1. PICK f : f = avatarReq[q].old
    OBVIOUS
<1>2. AvatarTyped /\ UnusedUnknown /\ ReplacementOwn /\ CompensatesOwn /\ AvatarHasFile
    BY DEF AvatarInv
<1>3. f \in Pictures \cup {NoFile} /\ \A p \in Requests : f # NoFile => avatarReq[p].new # f
    <2>1. f \in Pictures \cup {NoFile}
        BY <1>1, AvatarRequestParts
    <2> QED BY <1>1, <1>2, <2>1 DEF ReplacementOwn
<1>4. UNCHANGED <<avatar, reconciler, avatarLost>>
    BY DEF Avatars!Cleanup
<1>5. PICK z \in AvatarRequest :
         /\ avatarReq' = [avatarReq EXCEPT ![q] = z]
         /\ z.new = NoFile /\ z.pc = "idle" /\ z.old = NoFile
    BY AvatarRequests DEF Avatars!Cleanup
<1>6. \/ avatarStore' = avatarStore
      \/ /\ f \in Pictures /\ avatarStore[f] \in {"young", "old"}
         /\ avatarStore' = [avatarStore EXCEPT ![f] = "gone"]
         /\ f \in avatarLost \/ \A o \in Owners : avatar[o] # f
    <2>1. CASE avatarStore' = avatarStore
        BY <2>1
    <2>2. CASE avatarStore' # avatarStore
        <3>1. Avatars!DeletesOld(q) /\ avatarStore' = Avatars!Gone(f)
            BY <1>1, <2>2 DEF Avatars!Cleanup
        <3>2. f \in Pictures /\ f # NoFile
            BY <1>1, <1>3, <3>1 DEF Avatars!DeletesOld
        <3>3. avatarStore[f] \in {"young", "old"}
              /\ avatarStore' = [avatarStore EXCEPT ![f] = "gone"]
            BY <1>2, <2>2, <3>1, <3>2 DEF Avatars!Gone, Avatars!Stored, AvatarTyped
        <3>4. f \in avatarLost \/ \A o \in Owners : avatar[o] # f
            BY <1>1, <1>2, <3>1, <3>2
            DEF Avatars!DeletesOld, Avatars!References, CompensatesOwn
        <3> QED BY <3>2, <3>3, <3>4
    <2> QED BY <2>1, <2>2
<1>7. AvatarTyped'
    BY <1>2, <1>4, <1>5, <1>6 DEF AvatarTyped
<1>8. UnusedUnknown' /\ ReplacementOwn' /\ ReplacesItsNew' /\ OrphansStay'
    <2>1. /\ avatar' \in [Owners -> Pictures \cup {NoFile}]
          /\ avatarStore' \in [Pictures -> {"unused", "young", "old", "gone"}]
        BY <1>7 DEF AvatarTyped
    <2>2. z.pc # "replace"
        BY <1>5
    <2>3. \A g \in Pictures : \/ avatarStore'[g] = avatarStore[g]
                              \/ /\ avatarStore[g] # "unused" /\ avatarStore'[g] = "gone"
                                 /\ \A p \in Requests \ {q} : avatarReq[p].new # g
        BY <1>2, <1>3, <1>6, ContentAssumption DEF AvatarTyped
    <2> QED BY <1>4, <1>5, <2>1, <2>2, <2>3, RequestOver
<1>9. CompensatesOwn'
    BY <1>2, <1>4, <1>5 DEF CompensatesOwn, AvatarTyped
<1>10. AvatarHasFile'
    BY <1>2, <1>4, <1>6
    DEF AvatarHasFile, Avatars!AvatarHasFile, Avatars!Stored, AvatarTyped
<1> QED BY <1>7, <1>8, <1>9, <1>10 DEF AvatarInv

LEMMA RemoveAvatarInv ==
    ASSUME AvatarInv, NEW q \in Requests, NEW o \in Owners, Avatars!RemoveAvatar(q, o)
    PROVE  AvatarInv'
<1>1. PICK f : f = avatar[o]
    OBVIOUS
<1>2. AvatarTyped /\ UnusedUnknown /\ ReplacementOwn /\ CompensatesOwn /\ AvatarHasFile
    BY DEF AvatarInv
<1>3. f \in Pictures /\ f # NoFile /\ avatarReq[q].pc = "idle"
    BY <1>1, <1>2 DEF AvatarTyped, Avatars!RemoveAvatar
<1>4. avatar' = [avatar EXCEPT ![o] = NoFile] /\ UNCHANGED <<avatarStore, reconciler, avatarLost>>
    BY DEF Avatars!RemoveAvatar
<1>5. PICK z \in AvatarRequest :
         /\ avatarReq' = [avatarReq EXCEPT ![q] = z]
         /\ \/ z = avatarReq[q]
            \/ z.new = NoFile /\ z.pc = "cleanup" /\ z.old = f
    <2>1. CASE UNCHANGED avatarReq
        BY <1>2, <2>1, AvatarRequestParts DEF AvatarTyped
    <2>2. CASE avatarReq' # avatarReq
        BY <1>1, <1>3, <2>2, AvatarRequests DEF Avatars!RemoveAvatar
    <2> QED BY <2>1, <2>2
<1>6. AvatarTyped'
    BY <1>2, <1>4, <1>5 DEF AvatarTyped
<1>7. z.new = NoFile /\ z.pc # "replace"
    BY <1>2, <1>3, <1>5 DEF ReplacementOwn
<1>8. UnusedUnknown' /\ ReplacementOwn' /\ ReplacesItsNew' /\ OrphansStay'
    <2>1. /\ avatar' \in [Owners -> Pictures \cup {NoFile}]
          /\ avatarStore' \in [Pictures -> {"unused", "young", "old", "gone"}]
        BY <1>6 DEF AvatarTyped
    <2>2. \A p \in Owners : avatar'[p] = avatar[p] \/ avatar'[p] = NoFile
        BY <1>2, <1>4 DEF AvatarTyped
    <2>3. \/ z.old = NoFile
          \/ /\ avatarStore[z.old] # "unused"
             /\ \A p \in Requests \ {q} : avatarReq[p].new # z.old
        <3>1. avatarStore[f] # "unused" /\ \A p \in Requests : avatarReq[p].new # f
            BY <1>1, <1>2, <1>3 DEF UnusedUnknown, ReplacementOwn
        <3>2. CASE z = avatarReq[q] /\ z.old # NoFile
            BY <1>2, <3>2, AvatarRequestParts DEF UnusedUnknown, ReplacementOwn
        <3> QED BY <1>5, <3>1, <3>2
    <2> QED BY <1>4, <1>5, <1>7, <2>1, <2>2, <2>3, RequestOver
<1>9. CompensatesOwn'
    <2>1. z.pc # "compensate"
        BY <1>3, <1>5
    <2>2. \A p \in Owners : avatar'[p] = avatar[p] \/ avatar'[p] = NoFile
        BY <1>2, <1>4 DEF AvatarTyped
    <2>3. ASSUME NEW p \in Requests, avatarReq'[p].pc = "compensate"
          PROVE  /\ avatarReq'[p].old # NoFile
                 /\ \/ avatarReq'[p].old \in avatarLost'
                    \/ \A u \in Owners : avatar'[u] # avatarReq'[p].old
        <3>1. p # q /\ avatarReq'[p] = avatarReq[p]
            BY <1>2, <1>5, <2>1, <2>3 DEF AvatarTyped
        <3> QED BY <1>2, <1>4, <2>2, <2>3, <3>1 DEF CompensatesOwn
    <2> QED BY <2>3 DEF CompensatesOwn
<1>10. AvatarHasFile'
    BY <1>2, <1>4 DEF AvatarHasFile, Avatars!AvatarHasFile, Avatars!Stored, AvatarTyped
<1> QED BY <1>6, <1>8, <1>9, <1>10 DEF AvatarInv

LEMMA CrashAvatarInv ==
    ASSUME AvatarInv, NEW q \in Requests, Avatars!Crash(q)
    PROVE  AvatarInv'
<1>1. AvatarTyped /\ CompensatesOwn /\ AvatarHasFile
    BY DEF AvatarInv
<1>2. UNCHANGED <<avatar, avatarStore, reconciler, avatarLost>>
    BY DEF Avatars!Crash
<1>3. PICK z \in AvatarRequest :
         /\ avatarReq' = [avatarReq EXCEPT ![q] = z]
         /\ z.new = NoFile /\ z.pc = "idle" /\ z.old = NoFile
    BY AvatarRequests DEF Avatars!Crash
<1>4. AvatarTyped'
    BY <1>1, <1>2, <1>3 DEF AvatarTyped
<1>5. UnusedUnknown' /\ ReplacementOwn' /\ ReplacesItsNew' /\ OrphansStay'
    <2>1. /\ avatar' \in [Owners -> Pictures \cup {NoFile}]
          /\ avatarStore' \in [Pictures -> {"unused", "young", "old", "gone"}]
        BY <1>4 DEF AvatarTyped
    <2>2. z.pc # "replace"
        BY <1>3
    <2> QED BY <1>2, <1>3, <2>1, <2>2, RequestOver
<1>6. CompensatesOwn'
    BY <1>1, <1>2, <1>3 DEF CompensatesOwn, AvatarTyped
<1>7. AvatarHasFile'
    BY <1>1, <1>2 DEF AvatarHasFile, Avatars!AvatarHasFile, Avatars!Stored
<1> QED BY <1>4, <1>5, <1>6, <1>7 DEF AvatarInv

LEMMA AgeInv ==
    ASSUME AvatarInv, NEW f \in Pictures, Avatars!Age(f)
    PROVE  AvatarInv'
<1>1. /\ AvatarTyped /\ UnusedUnknown /\ ReplacementOwn /\ ReplacesItsNew /\ CompensatesOwn
      /\ OrphansStay /\ AvatarHasFile
    BY DEF AvatarInv
<1>2. /\ avatarStore' = [avatarStore EXCEPT ![f] = "old"] /\ avatarStore[f] = "young"
      /\ \A q \in Requests : avatarReq[q].new # f
      /\ UNCHANGED <<avatar, avatarReq, reconciler, avatarLost>>
    BY DEF Avatars!Age
<1>3. AvatarTyped' /\ UnusedUnknown'
    BY <1>1, <1>2 DEF AvatarTyped, UnusedUnknown
<1>4. ReplacementOwn' /\ ReplacesItsNew' /\ CompensatesOwn'
    BY <1>1, <1>2 DEF AvatarTyped, ReplacementOwn, ReplacesItsNew, CompensatesOwn
<1>5. OrphansStay'
    BY <1>1, <1>2 DEF AvatarTyped, OrphansStay
<1>6. AvatarHasFile'
    BY <1>1, <1>2 DEF AvatarHasFile, Avatars!AvatarHasFile, Avatars!Stored, AvatarTyped
<1> QED BY <1>3, <1>4, <1>5, <1>6 DEF AvatarInv

\* The reconciler deletes objects that are nobody's avatar.
LEMMA ReconcilerInv ==
    ASSUME AvatarInv, Avatars!Discover \/ Avatars!ListBucket \/ Avatars!DeleteOrphan
    PROVE  AvatarInv'
<1>1. /\ AvatarTyped /\ UnusedUnknown /\ ReplacementOwn /\ ReplacesItsNew /\ CompensatesOwn
      /\ OrphansStay /\ AvatarHasFile
    BY DEF AvatarInv
<1>2. UNCHANGED <<avatar, avatarReq, avatarLost>>
    BY DEF Avatars!Discover, Avatars!ListBucket, Avatars!DeleteOrphan
<1>3. ASSUME UNCHANGED avatarStore
      PROVE  /\ UnusedUnknown' /\ ReplacementOwn' /\ ReplacesItsNew' /\ CompensatesOwn'
             /\ AvatarHasFile'
    BY <1>1, <1>2, <1>3
    DEF UnusedUnknown, ReplacementOwn, ReplacesItsNew, CompensatesOwn, AvatarHasFile,
        Avatars!AvatarHasFile, Avatars!Stored
<1>4. CASE Avatars!Discover
    <2>1. PICK files : files = Avatars!References
        OBVIOUS
    <2>2. PICK aged : aged = {f \in Pictures : avatarStore[f] = "old"}
        OBVIOUS
    <2>3. /\ files \in SUBSET Pictures /\ aged \in SUBSET Pictures
          /\ \A f \in aged \ files : \A o \in Owners : avatar[o] # f
          /\ \A f \in aged : avatarStore[f] = "old"
        BY <1>1, <2>1, <2>2, ContentAssumption DEF AvatarTyped, Avatars!References
    <2>4. /\ reconciler' = [pc |-> "list", files |-> files, aged |-> aged]
          /\ UNCHANGED avatarStore
        BY <1>4, <2>1, <2>2 DEF Avatars!Discover
    <2>5. AvatarTyped' /\ OrphansStay'
        BY <1>1, <1>2, <2>3, <2>4 DEF AvatarTyped, OrphansStay
    <2> QED BY <1>3, <2>4, <2>5 DEF AvatarInv
<1>5. CASE Avatars!ListBucket
    <2>1. PICK files : files = Avatars!Orphans(reconciler.files, reconciler.aged)
        OBVIOUS
    <2>2. files \in SUBSET (reconciler.aged \ reconciler.files)
        BY <2>1 DEF Avatars!Orphans
    <2>3. /\ reconciler' = [reconciler EXCEPT !.pc = "delete", !.files = files]
          /\ reconciler.pc = "list" /\ UNCHANGED avatarStore
        BY <1>5, <2>1 DEF Avatars!ListBucket
    <2>4. /\ reconciler'.pc = "delete" /\ reconciler'.files = files
          /\ reconciler'.aged = reconciler.aged
        BY <1>1, <2>3 DEF AvatarTyped
    <2>5. AvatarTyped'
        BY <1>1, <1>2, <2>2, <2>3 DEF AvatarTyped
    <2>6. OrphansStay'
        BY <1>1, <1>2, <2>2, <2>3, <2>4 DEF OrphansStay
    <2> QED BY <1>3, <2>3, <2>5, <2>6 DEF AvatarInv
<1>6. CASE Avatars!DeleteOrphan /\ reconciler.files = {}
    <2>1. reconciler' = Avatars!Idle /\ UNCHANGED avatarStore
        BY <1>6 DEF Avatars!DeleteOrphan
    <2>2. /\ reconciler' \in [pc : {"idle", "list", "delete"}, files : SUBSET Pictures,
                              aged : SUBSET Pictures]
          /\ reconciler'.pc = "idle" /\ reconciler'.aged = {}
        BY <2>1 DEF Avatars!Idle
    <2>3. AvatarTyped' /\ OrphansStay'
        BY <1>1, <1>2, <2>1, <2>2 DEF AvatarTyped, OrphansStay
    <2> QED BY <1>3, <2>1, <2>3 DEF AvatarInv
<1>7. CASE Avatars!DeleteOrphan /\ reconciler.files # {}
    <2>1. PICK f \in reconciler.files :
             /\ avatarStore' \in {Avatars!Gone(f), avatarStore}
             /\ reconciler' = [reconciler EXCEPT !.files = @ \ {f}]
        BY <1>7 DEF Avatars!DeleteOrphan
    <2>2. reconciler.pc = "delete"
        BY <1>7 DEF Avatars!DeleteOrphan
    <2>3. /\ f \in Pictures /\ \A o \in Owners : avatar[o] # f
          /\ avatarStore[f] \in {"old", "gone"}
        BY <1>1, <2>2 DEF AvatarTyped, OrphansStay
    <2>4. PICK st \in {"old", "gone"} : avatarStore' = [avatarStore EXCEPT ![f] = st]
        BY <1>1, <2>1, <2>3 DEF Avatars!Gone, Avatars!Stored, AvatarTyped
    <2>5. /\ reconciler'.pc = "delete" /\ reconciler'.files = reconciler.files \ {f}
          /\ reconciler'.aged = reconciler.aged
        BY <1>1, <2>1, <2>2 DEF AvatarTyped
    <2>6. AvatarTyped'
        BY <1>1, <1>2, <2>1, <2>3, <2>4 DEF AvatarTyped
    <2>7. UnusedUnknown' /\ ReplacementOwn' /\ ReplacesItsNew' /\ CompensatesOwn'
        BY <1>1, <1>2, <2>3, <2>4
        DEF AvatarTyped, UnusedUnknown, ReplacementOwn, ReplacesItsNew, CompensatesOwn
    <2>8. OrphansStay'
        BY <1>1, <1>2, <2>2, <2>3, <2>4, <2>5 DEF AvatarTyped, OrphansStay
    <2>9. AvatarHasFile'
        BY <1>1, <1>2, <2>3, <2>4
        DEF AvatarHasFile, Avatars!AvatarHasFile, Avatars!Stored, AvatarTyped
    <2> QED BY <2>6, <2>7, <2>8, <2>9 DEF AvatarInv
<1> QED BY <1>4, <1>5, <1>6, <1>7

LEMMA AvatarNext ==
    ASSUME AvatarInv, Avatars!Next \/ UNCHANGED avatarVars
    PROVE  AvatarInv'
<1>1. CASE \E q \in Requests, o \in Owners :
             Avatars!UploadAvatar(q, o) \/ Avatars!RemoveAvatar(q, o)
    BY <1>1, UploadAvatarInv, RemoveAvatarInv
<1>2. CASE \E q \in Requests : Avatars!CommitAvatar(q) \/ Avatars!CommitReportedFailed(q)
    BY <1>2, AttachInv
<1>3. CASE \E q \in Requests :
             Avatars!FailAvatar(q) \/ Avatars!Cleanup(q) \/ Avatars!Crash(q)
    BY <1>3, FailAvatarInv, CleanupInv, CrashAvatarInv
<1>4. CASE \E f \in Pictures : Avatars!Age(f)
    BY <1>4, AgeInv
<1>5. CASE Avatars!Discover \/ Avatars!ListBucket \/ Avatars!DeleteOrphan
    BY <1>5, ReconcilerInv
<1>6. CASE UNCHANGED avatarVars
    BY <1>6
    DEF avatarVars, AvatarInv, AvatarTyped, UnusedUnknown, ReplacementOwn, ReplacesItsNew,
        CompensatesOwn, OrphansStay, AvatarHasFile, Avatars!AvatarHasFile, Avatars!Stored
<1> QED BY <1>1, <1>2, <1>3, <1>4, <1>5, <1>6 DEF Avatars!Next

------------------------------------------------------------------------------
(* Events and their covers.                                                *)

EventRequest ==
  {r \in [pc : {"idle", "uploaded", "compensate", "cleanup"}, event : Events \cup {NoEvent},
          file : CoverIds \cup {NoFile}, old : SUBSET CoverIds, fresh : BOOLEAN] :
     r.pc = "uploaded" => r.event \in Events}

EventTyped ==
  /\ event \in [Events -> PublicEvents!Row]
  /\ media \in [CoverIds -> Events \cup {NoEvent}]
  /\ eventStore \in [CoverIds -> {"unused", "stored", "gone"}]
  /\ eventReq \in [Requests -> EventRequest]
  /\ eventLost \subseteq CoverIds

\* A key that was not given out is named nowhere.
FreshUnknown ==
  \A f \in CoverIds : eventStore[f] = "unused" =>
    /\ media[f] = NoEvent
    /\ \A q \in Requests : eventReq[q].file # f /\ f \notin eventReq[q].old

\* A cover that waits for its commit is stored, and no other request's business.
UploadedOwn ==
  \A q \in Requests : eventReq[q].pc = "uploaded" =>
    /\ eventReq[q].file \in CoverIds
    /\ eventStore[eventReq[q].file] = "stored" /\ media[eventReq[q].file] = NoEvent
    /\ \A p \in Requests : eventReq[q].file \notin eventReq[p].old
    /\ \A p \in Requests \ {q} : eventReq[p].file # eventReq[q].file

\* What is deleted has no row: a compensation's new object, unless its commit
\* was reported as a failure, and a cleanup's old ones.
DeletesUnowned ==
  \A q \in Requests :
    /\ eventReq[q].pc = "compensate" =>
         /\ eventReq[q].file \in CoverIds
         /\ media[eventReq[q].file] = NoEvent \/ eventReq[q].file \in eventLost
    /\ \A f \in eventReq[q].old : media[f] = NoEvent

RowsHaveObjects ==
  \A f \in CoverIds : media[f] # NoEvent => eventStore[f] = "stored" \/ f \in eventLost

PublishedIsWhole ==
  \A e \in Events : event[e].st = "PUBLISHED" =>
    /\ event[e].pub /\ event[e].text = "whole"
    /\ event[e].cover \in CoverIds /\ media[event[e].cover] = e

EventInv ==
  /\ EventTyped /\ FreshUnknown /\ UploadedOwn /\ DeletesUnowned /\ RowsHaveObjects
  /\ PublishedIsWhole

LEMMA RowOfNone ==
    PublicEvents!NoRow \in PublicEvents!Row /\ PublicEvents!NoRow.st = "none"
BY DEF PublicEvents!NoRow, PublicEvents!Row, PublicEvents!Texts, PublicEvents!Statuses

LEMMA EventInit == PublicEvents!Init => EventInv
<1> SUFFICES ASSUME PublicEvents!Init PROVE EventInv
    OBVIOUS
<1>1. /\ event \in [Events -> PublicEvents!Row]
      /\ \A e \in Events : event[e].st = "none"
    BY RowOfNone DEF PublicEvents!Init
<1>2. eventReq \in [Requests -> EventRequest]
    BY DEF PublicEvents!Init, PublicEvents!NoRequest, EventRequest
<1>3. \A q \in Requests : eventReq[q].pc = "idle" /\ eventReq[q].old = {}
                          /\ eventReq[q].file = NoFile
    BY DEF PublicEvents!Init, PublicEvents!NoRequest
<1>4. EventTyped
    BY <1>1, <1>2 DEF PublicEvents!Init, EventTyped
<1>5. FreshUnknown /\ UploadedOwn /\ DeletesUnowned /\ RowsHaveObjects
    BY <1>3, ContentAssumption
    DEF PublicEvents!Init, FreshUnknown, UploadedOwn, DeletesUnowned, RowsHaveObjects
<1>6. PublishedIsWhole
    BY <1>1 DEF PublishedIsWhole
<1> QED BY <1>4, <1>5, <1>6 DEF EventInv

LEMMA EventCardinality == \A S : PublicEvents!Cardinality(S) = Cardinality(S)
BY DEF PublicEvents!Cardinality, Cardinality

\* Visitors see published events with covers that are stored.
LEMMA WholeIsShown == EventInv => PublishedIsShown
<1> SUFFICES ASSUME EventInv PROVE PublishedIsShown
    OBVIOUS
<1>1. EventTyped /\ RowsHaveObjects /\ PublishedIsWhole
    BY DEF EventInv
<1>2. ASSUME NEW e \in Events, event[e].st = "PUBLISHED"
      PROVE  e \in PublicEvents!Listed /\ PublicEvents!Projectable(e)
    BY <1>1, <1>2 DEF PublishedIsWhole, PublicEvents!Listed, PublicEvents!Projectable
<1>3. ASSUME NEW e \in Events, event[e].st = "PUBLISHED", NEW t \in 0 .. MaxTime
      PROVE  \/ e \in PublicEvents!Slides(t) \/ PublicEvents!Begun(e, t)
             \/ PublicEvents!Cardinality({d \in Events :
                  /\ event[d].st = "PUBLISHED" /\ ~PublicEvents!Begun(d, t)
                  /\ PublicEvents!Before(d, e)}) >= MaxSlides
    <2>2. SUFFICES ASSUME ~PublicEvents!Begun(e, t), e \notin PublicEvents!Slides(t)
                   PROVE  PublicEvents!Cardinality({d \in Events :
                            /\ event[d].st = "PUBLISHED" /\ ~PublicEvents!Begun(d, t)
                            /\ PublicEvents!Before(d, e)}) >= MaxSlides
        OBVIOUS
    <2>3. e \in PublicEvents!Upcoming(t)
        BY <1>1, <1>3, <2>2, ContentAssumption
        DEF PublishedIsWhole, PublicEvents!Upcoming, PublicEvents!CoverJoined
    <2>4. PICK S : S = {d \in PublicEvents!Upcoming(t) : PublicEvents!Before(d, e)}
        OBVIOUS
    <2>5. PICK T : T = {d \in Events : /\ event[d].st = "PUBLISHED" /\ ~PublicEvents!Begun(d, t)
                                       /\ PublicEvents!Before(d, e)}
        OBVIOUS
    <2>6. S \subseteq T /\ T \subseteq Events
        BY <2>4, <2>5 DEF PublicEvents!Upcoming
    <2>7. IsFiniteSet(T)
        BY <2>6, FS_Subset, ContentAssumption
    <2>8. IsFiniteSet(S) /\ Cardinality(S) <= Cardinality(T)
        BY <2>6, <2>7, FS_Subset
    <2>9. Cardinality(S) \in Nat /\ Cardinality(T) \in Nat
        BY <2>7, <2>8, FS_CardinalityType
    <2>10. ~(Cardinality(S) < MaxSlides)
        <3>1. e \in PublicEvents!Slides(t) <=> PublicEvents!Cardinality(S) < MaxSlides
            BY <2>3, <2>4, Zenon DEF PublicEvents!Slides
        <3>2. PublicEvents!Cardinality(S) = Cardinality(S)
            BY EventCardinality
        <3> QED BY <2>2, <3>1, <3>2
    <2>11. MaxSlides \in Nat
        BY ContentAssumption
    <2>12. PublicEvents!Cardinality(T) >= MaxSlides
        BY <2>8, <2>9, <2>10, <2>11, EventCardinality
    <2> QED BY <2>5, <2>12
<1>4. ASSUME NEW e \in PublicEvents!Listed, PublicEvents!CoverJoined(e)
      PROVE  /\ event[e].cover \in PublicEvents!Signed(FALSE, e)
             /\ eventStore[event[e].cover] = "stored" \/ event[e].cover \in eventLost
    <2>1. PICK f : f = event[e].cover
        OBVIOUS
    <2>2. e \in Events /\ event[e].st \in {"PUBLISHED", "CANCELLED"} /\ event[e].pub
        BY DEF PublicEvents!Listed
    <2>3. f \in CoverIds /\ media[f] = e
        BY <1>1, <1>4, <2>1, <2>2
        DEF EventTyped, PublicEvents!Row, PublicEvents!CoverJoined
    <2>4. PublicEvents!CanRead(FALSE, e)
        BY <2>2 DEF PublicEvents!CanRead, PublicEvents!Exists, PublicEvents!Statuses
    <2>5. f \in PublicEvents!Signed(FALSE, e)
        BY <2>3, <2>4 DEF PublicEvents!Signed, PublicEvents!MediaOf
    <2>6. eventStore[f] = "stored" \/ f \in eventLost
        BY <1>1, <2>2, <2>3, ContentAssumption DEF RowsHaveObjects
    <2> QED BY <2>1, <2>5, <2>6
<1> QED BY <1>2, <1>3, <1>4, Zenon DEF PublishedIsShown, PublicEvents!PublishedIsShown

LEMMA EventParts ==
    ASSUME EventInv
    PROVE  /\ EventTyped /\ FreshUnknown /\ UploadedOwn /\ DeletesUnowned /\ RowsHaveObjects
           /\ PublishedIsWhole
           /\ \A q \in Requests : /\ eventReq[q] \in EventRequest
                                  /\ eventReq[q].file \in CoverIds \cup {NoFile}
                                  /\ eventReq[q].old \in SUBSET CoverIds
           /\ NoFile \notin CoverIds /\ NoEvent \notin Events
BY ContentAssumption DEF EventInv, EventTyped, EventRequest

\* A change of the event's version touches nothing of a request but its freshness.
LEMMA OutdatedSame ==
    ASSUME EventInv, NEW e \in Events
    PROVE  /\ PublicEvents!Outdated(e) \in [Requests -> EventRequest]
           /\ \A q \in Requests : /\ PublicEvents!Outdated(e)[q].pc = eventReq[q].pc
                                  /\ PublicEvents!Outdated(e)[q].file = eventReq[q].file
                                  /\ PublicEvents!Outdated(e)[q].old = eventReq[q].old
<1>1. ASSUME NEW q \in Requests
      PROVE  /\ PublicEvents!Outdated(e)[q] \in EventRequest
             /\ PublicEvents!Outdated(e)[q].pc = eventReq[q].pc
             /\ PublicEvents!Outdated(e)[q].file = eventReq[q].file
             /\ PublicEvents!Outdated(e)[q].old = eventReq[q].old
    <2>1. PICK r \in EventRequest : r = eventReq[q]
        BY EventParts
    <2>2. PICK s : s = [r EXCEPT !.fresh = FALSE]
        OBVIOUS
    <2>3. s \in EventRequest /\ s.pc = r.pc /\ s.file = r.file /\ s.old = r.old
        BY <2>2 DEF EventRequest
    <2>4. PublicEvents!Outdated(e)[q] \in {r, s}
        BY <2>1, <2>2 DEF PublicEvents!Outdated
    <2> QED BY <2>1, <2>3, <2>4
<1> QED BY <1>1 DEF PublicEvents!Outdated

\* Content and status: rows of media and objects stay.
LEMMA ContentStep ==
    ASSUME EventInv, event' \in [Events -> PublicEvents!Row],
           eventReq' \in [Requests -> EventRequest],
           \A q \in Requests : /\ eventReq'[q].pc = eventReq[q].pc
                               /\ eventReq'[q].file = eventReq[q].file
                               /\ eventReq'[q].old = eventReq[q].old,
           UNCHANGED <<media, eventStore, eventLost>>, PublishedIsWhole'
    PROVE  EventInv'
<1>1. EventTyped'
    BY EventParts DEF EventTyped
<1>2. FreshUnknown' /\ RowsHaveObjects'
    BY EventParts DEF FreshUnknown, RowsHaveObjects
<1>3. UploadedOwn'
    BY EventParts DEF UploadedOwn
<1>4. DeletesUnowned'
    BY EventParts DEF DeletesUnowned
<1> QED BY <1>1, <1>2, <1>3, <1>4 DEF EventInv

LEMMA WrittenTexts == Written \subseteq PublicEvents!Texts
BY ContentAssumption DEF PublicEvents!Texts

LEMMA CreateEventInv ==
    ASSUME EventInv, NEW e \in Events, NEW text \in Written,
           NEW start \in Starts \cup {PublicEvents!NoStart},
           PublicEvents!CreateDraft(e, text, start)
    PROVE  EventInv'
<1>1. PICK row : row = [st |-> "DRAFT", pub |-> FALSE, text |-> text, start |-> start,
                      cover |-> NoFile]
    OBVIOUS
<1>2. row \in PublicEvents!Row /\ row.st = "DRAFT"
    BY <1>1, WrittenTexts DEF PublicEvents!Row, PublicEvents!Statuses
<1>3. /\ event' = [event EXCEPT ![e] = row]
      /\ UNCHANGED <<media, eventStore, eventReq, eventLost>>
    BY <1>1 DEF PublicEvents!CreateDraft
<1>4. event' \in [Events -> PublicEvents!Row]
    BY <1>2, <1>3, EventParts DEF EventTyped
<1>5. PublishedIsWhole'
    BY <1>2, <1>3, EventParts DEF EventTyped, PublishedIsWhole
<1>6. eventReq' \in [Requests -> EventRequest]
    BY <1>3, EventParts DEF EventTyped
<1> QED BY <1>3, <1>4, <1>5, <1>6, ContentStep

LEMMA UpdateEventInv ==
    ASSUME EventInv, NEW e \in Events, NEW text \in Written,
           NEW start \in Starts \cup {PublicEvents!NoStart},
           NEW cover \in CoverIds \cup {NoFile}, PublicEvents!UpdateDraft(e, text, start, cover)
    PROVE  EventInv'
<1>1. PICK row \in PublicEvents!Row : row = event[e]
    BY EventParts DEF EventTyped
<1>2. PICK new : new = [row EXCEPT !.text = text, !.start = start, !.cover = cover]
    OBVIOUS
<1>3. /\ new \in PublicEvents!Row /\ new.st = row.st /\ new.pub = row.pub
      /\ new.text = text /\ new.cover = cover
    BY <1>2, WrittenTexts DEF PublicEvents!Row
<1>4. event' = [event EXCEPT ![e] = new]
    BY <1>1, <1>2, EventParts DEF PublicEvents!UpdateDraft, EventTyped
<1>5. eventReq' = PublicEvents!Outdated(e) /\ UNCHANGED <<media, eventStore, eventLost>>
    BY DEF PublicEvents!UpdateDraft
<1>6. event' \in [Events -> PublicEvents!Row]
    BY <1>3, <1>4, EventParts DEF EventTyped
<1>7. row.st = "PUBLISHED" => text = "whole" /\ cover \in CoverIds /\ media[cover] = e
    BY <1>1, EventParts
    DEF PublicEvents!UpdateDraft, PublicEvents!RemainsPublic, PublicEvents!Publishable
<1>8. PublishedIsWhole'
    <2>1. ASSUME NEW d \in Events, event'[d].st = "PUBLISHED"
          PROVE  /\ event'[d].pub /\ event'[d].text = "whole"
                 /\ event'[d].cover \in CoverIds /\ media[event'[d].cover] = d
        <3>1. CASE d = e
            BY <1>1, <1>3, <1>4, <1>7, <2>1, <3>1, EventParts
            DEF EventTyped, PublishedIsWhole
        <3>2. CASE d # e
            BY <1>4, <2>1, <3>2, EventParts DEF EventTyped, PublishedIsWhole
        <3> QED BY <3>1, <3>2
    <2> QED BY <1>5, <2>1 DEF PublishedIsWhole
<1> QED BY <1>5, <1>6, <1>8, OutdatedSame, ContentStep

LEMMA SetStatusInv ==
    ASSUME EventInv, NEW e \in Events, NEW st \in PublicEvents!Statuses,
           PublicEvents!SetStatus(e, st)
    PROVE  EventInv'
<1>1. PICK row \in PublicEvents!Row : row = event[e]
    BY EventParts DEF EventTyped
<1>2. PICK pub \in BOOLEAN : pub = (row.pub \/ st = "PUBLISHED")
    OBVIOUS
<1>3. PICK new : new = [row EXCEPT !.st = st, !.pub = pub]
    OBVIOUS
<1>4. /\ new \in PublicEvents!Row /\ new.st = st /\ new.pub = pub
      /\ new.text = row.text /\ new.cover = row.cover
    BY <1>3 DEF PublicEvents!Row
<1>5. event' = [event EXCEPT ![e] = new]
    BY <1>1, <1>2, <1>3, EventParts
    DEF PublicEvents!SetStatus, EventTyped, PublicEvents!Row
<1>6. eventReq' = PublicEvents!Outdated(e) /\ UNCHANGED <<media, eventStore, eventLost>>
    BY DEF PublicEvents!SetStatus
<1>7. event' \in [Events -> PublicEvents!Row]
    BY <1>4, <1>5, EventParts DEF EventTyped
<1>8. st = "PUBLISHED" => row.text = "whole" /\ row.cover \in CoverIds /\ media[row.cover] = e
    BY <1>1 DEF PublicEvents!SetStatus, PublicEvents!Publishable, PublicEvents!Row
<1>9. PublishedIsWhole'
    <2>1. ASSUME NEW d \in Events, event'[d].st = "PUBLISHED"
          PROVE  /\ event'[d].pub /\ event'[d].text = "whole"
                 /\ event'[d].cover \in CoverIds /\ media[event'[d].cover] = d
        <3>1. CASE d = e
            BY <1>2, <1>4, <1>5, <1>8, <2>1, <3>1, EventParts DEF EventTyped
        <3>2. CASE d # e
            BY <1>5, <2>1, <3>2, EventParts DEF EventTyped, PublishedIsWhole
        <3> QED BY <3>1, <3>2
    <2> QED BY <1>6, <2>1 DEF PublishedIsWhole
<1> QED BY <1>6, <1>7, <1>9, OutdatedSame, ContentStep

LEMMA UpdateMediaInv ==
    ASSUME EventInv, NEW e \in Events, NEW f \in CoverIds, PublicEvents!UpdateMedia(e, f)
    PROVE  EventInv'
<1>1. /\ eventReq' = PublicEvents!Outdated(e)
      /\ UNCHANGED <<event, media, eventStore, eventLost>>
    BY DEF PublicEvents!UpdateMedia
<1>2. event' \in [Events -> PublicEvents!Row] /\ PublishedIsWhole'
    BY <1>1, EventParts DEF EventTyped, PublishedIsWhole
<1> QED BY <1>1, <1>2, OutdatedSame, ContentStep

LEMMA NextCover ==
    ASSUME PublicEvents!Fresh # {}
    PROVE  /\ PublicEvents!NextFile \in CoverIds
           /\ eventStore[PublicEvents!NextFile] = "unused"
<1>1. PublicEvents!Fresh \in SUBSET Nat
    BY ContentAssumption DEF PublicEvents!Fresh
<1>2. \E f \in PublicEvents!Fresh : \A g \in PublicEvents!Fresh : f <= g
    BY <1>1, LeastNumber
<1>3. PublicEvents!NextFile \in PublicEvents!Fresh
    BY <1>2 DEF PublicEvents!NextFile
<1> QED BY <1>3 DEF PublicEvents!Fresh

LEMMA UploadCoverInv ==
    ASSUME EventInv, NEW q \in Requests, NEW e \in Events, PublicEvents!UploadCover(q, e)
    PROVE  EventInv'
<1>1. PICK f \in CoverIds : f = PublicEvents!NextFile /\ eventStore[f] = "unused"
    BY NextCover DEF PublicEvents!UploadCover
<1>2. PICK z \in EventRequest :
         /\ eventReq' = [eventReq EXCEPT ![q] = z]
         /\ z = eventReq[q] \/ (z.pc = "uploaded" /\ z.file = f /\ z.old = {})
    <2>1. CASE UNCHANGED eventReq
        BY <2>1, EventParts DEF EventTyped
    <2>2. CASE \E fresh \in BOOLEAN :
                 eventReq' = [eventReq EXCEPT ![q] =
                   [pc |-> "uploaded", event |-> e, file |-> f, old |-> {},
                    fresh |-> fresh /\ PublicEvents!Exists(e)]]
        <3>1. PICK b \in BOOLEAN :
                 eventReq' = [eventReq EXCEPT ![q] =
                   [pc |-> "uploaded", event |-> e, file |-> f, old |-> {},
                    fresh |-> b /\ PublicEvents!Exists(e)]]
            BY <2>2
        <3>2. PICK fresh \in BOOLEAN : fresh = (b /\ PublicEvents!Exists(e))
            OBVIOUS
        <3>3. [pc |-> "uploaded", event |-> e, file |-> f, old |-> {}, fresh |-> fresh]
                \in EventRequest
            BY DEF EventRequest
        <3> QED BY <3>1, <3>2, <3>3
    <2> QED BY <1>1, <2>1, <2>2 DEF PublicEvents!UploadCover
<1>3. /\ eventStore' = [eventStore EXCEPT ![f] = "stored"]
      /\ UNCHANGED <<event, media, eventLost>>
    BY <1>1 DEF PublicEvents!UploadCover
<1>4. /\ media[f] = NoEvent
      /\ \A p \in Requests : eventReq[p].file # f /\ f \notin eventReq[p].old
    BY <1>1, EventParts DEF FreshUnknown
<1>5. EventTyped'
    BY <1>2, <1>3, EventParts DEF EventTyped
<1>6. FreshUnknown'
    BY <1>2, <1>3, EventParts DEF EventTyped, FreshUnknown
<1>7. UploadedOwn'
    <2>1. ASSUME NEW p \in Requests, eventReq'[p].pc = "uploaded"
          PROVE  /\ eventReq'[p].file \in CoverIds
                 /\ eventStore'[eventReq'[p].file] = "stored"
                 /\ media[eventReq'[p].file] = NoEvent
                 /\ \A r \in Requests : eventReq'[p].file \notin eventReq'[r].old
                 /\ \A r \in Requests \ {p} : eventReq'[r].file # eventReq'[p].file
        <3>1. CASE eventReq'[p] = eventReq[p]
            BY <1>1, <1>2, <1>3, <1>4, <2>1, <3>1, EventParts DEF EventTyped, UploadedOwn
        <3>2. CASE p = q /\ z # eventReq[q]
            BY <1>1, <1>2, <1>3, <1>4, <2>1, <3>2, EventParts DEF EventTyped
        <3> QED BY <1>2, <3>1, <3>2, EventParts DEF EventTyped
    <2> QED BY <1>3, <2>1 DEF UploadedOwn
<1>8. DeletesUnowned'
    BY <1>2, <1>3, EventParts DEF EventTyped, DeletesUnowned
<1>9. RowsHaveObjects' /\ PublishedIsWhole'
    BY <1>1, <1>3, EventParts DEF EventTyped, RowsHaveObjects, PublishedIsWhole
<1> QED BY <1>5, <1>6, <1>7, <1>8, <1>9 DEF EventInv

\* The steps that end with the object of an upload or with objects to delete:
\* other requests keep theirs.
LEMMA RequestsApart ==
    ASSUME EventInv, NEW q \in Requests, NEW z \in EventRequest,
           eventReq' \in [Requests -> EventRequest], eventReq'[q] = z,
           \A p \in Requests \ {q} : /\ eventReq'[p].pc = eventReq[p].pc
                                     /\ eventReq'[p].file = eventReq[p].file
                                     /\ eventReq'[p].old = eventReq[p].old,
           z.pc # "uploaded", z.file \in {eventReq[q].file, NoFile},
           \A f \in z.old : f \in eventReq[q].old \/ media[f] # NoEvent,
           media' \in [CoverIds -> Events \cup {NoEvent}],
           \A f \in CoverIds : \/ media'[f] = media[f]
                               \/ media'[f] = NoEvent
                               \/ f = eventReq[q].file /\ eventReq[q].pc = "uploaded",
           eventStore' \in [CoverIds -> {"unused", "stored", "gone"}],
           \A f \in CoverIds : \/ eventStore'[f] = eventStore[f]
                               \/ /\ eventStore[f] # "unused" /\ eventStore'[f] = "gone"
                                  /\ \A p \in Requests \ {q} :
                                       eventReq[p].pc = "uploaded" => eventReq[p].file # f
    PROVE  /\ FreshUnknown' /\ UploadedOwn'
           /\ \A p \in Requests \ {q}, f \in CoverIds :
                eventReq'[p].pc = "compensate" /\ eventReq'[p].file = f =>
                  media[f] = NoEvent \/ f \in eventLost
           /\ \A p \in Requests \ {q}, f \in CoverIds :
                media'[f] # NoEvent /\ (eventReq'[p].file = f \/ f \in eventReq'[p].old) =>
                  media[f] # NoEvent
<1>1. /\ FreshUnknown /\ UploadedOwn /\ DeletesUnowned
      /\ eventReq[q].file \in CoverIds \cup {NoFile}
      /\ NoFile \notin CoverIds
    BY EventParts
<1>2. z.old \in SUBSET CoverIds /\ \A p \in Requests : eventReq[p].old \in SUBSET CoverIds
    BY EventParts DEF EventRequest
<1>3. FreshUnknown'
    <2>1. ASSUME NEW f \in CoverIds, eventStore'[f] = "unused"
          PROVE  /\ media'[f] = NoEvent
                 /\ \A p \in Requests : eventReq'[p].file # f /\ f \notin eventReq'[p].old
        <3>1. /\ eventStore[f] = "unused" /\ media[f] = NoEvent /\ f # NoFile
              /\ \A p \in Requests : eventReq[p].file # f /\ f \notin eventReq[p].old
            BY <1>1, <2>1 DEF FreshUnknown
        <3>2. eventReq'[q].file # f /\ f \notin eventReq'[q].old
            BY <3>1
        <3> QED BY <3>1, <3>2
    <2> QED BY <2>1 DEF FreshUnknown
<1>4. UploadedOwn'
    <2>1. ASSUME NEW p \in Requests, eventReq'[p].pc = "uploaded"
          PROVE  /\ eventReq'[p].file \in CoverIds
                 /\ eventStore'[eventReq'[p].file] = "stored"
                 /\ media'[eventReq'[p].file] = NoEvent
                 /\ \A r \in Requests : eventReq'[p].file \notin eventReq'[r].old
                 /\ \A r \in Requests \ {p} : eventReq'[r].file # eventReq'[p].file
        <3>1. p # q /\ eventReq[p].pc = "uploaded" /\ eventReq'[p].file = eventReq[p].file
            BY <2>1
        <3>2. PICK f \in CoverIds : f = eventReq[p].file
            BY <1>1, <3>1 DEF UploadedOwn
        <3>3. /\ eventStore[f] = "stored" /\ media[f] = NoEvent
              /\ \A r \in Requests : f \notin eventReq[r].old
              /\ \A r \in Requests \ {p} : eventReq[r].file # f
            BY <1>1, <3>1, <3>2 DEF UploadedOwn
        <3>4. eventStore'[f] = "stored"
            BY <3>1, <3>2, <3>3
        <3>5. media'[f] = NoEvent
            BY <3>1, <3>3
        <3>6. \A r \in Requests : f \notin eventReq'[r].old
            BY <3>3
        <3>7. \A r \in Requests \ {p} : eventReq'[r].file # f
            BY <1>1, <3>1, <3>3
        <3> QED BY <3>1, <3>2, <3>4, <3>5, <3>6, <3>7
    <2> QED BY <2>1 DEF UploadedOwn
<1>5. ASSUME NEW p \in Requests \ {q}, NEW f \in CoverIds, media'[f] # NoEvent,
             eventReq'[p].file = f \/ f \in eventReq'[p].old
      PROVE  media[f] # NoEvent
    <2>1. eventReq[p].file = f \/ f \in eventReq[p].old
        BY <1>5
    <2>2. ~(f = eventReq[q].file /\ eventReq[q].pc = "uploaded")
        BY <1>1, <2>1 DEF UploadedOwn
    <2> QED BY <1>5, <2>2
<1>6. ASSUME NEW p \in Requests \ {q}, NEW f \in CoverIds, eventReq'[p].pc = "compensate",
             eventReq'[p].file = f
      PROVE  media[f] = NoEvent \/ f \in eventLost
    BY <1>1, <1>6 DEF DeletesUnowned
<1> QED BY <1>3, <1>4, <1>5, <1>6
LEMMA MediaStep ==
    ASSUME EventInv, NEW q \in Requests, NEW z \in EventRequest,
           eventReq' \in [Requests -> EventRequest], eventReq'[q] = z,
           \A p \in Requests \ {q} : /\ eventReq'[p].pc = eventReq[p].pc
                                     /\ eventReq'[p].file = eventReq[p].file
                                     /\ eventReq'[p].old = eventReq[p].old,
           z.pc # "uploaded", z.file \in {eventReq[q].file, NoFile},
           \A f \in z.old : f \in eventReq[q].old \/ media[f] # NoEvent,
           media' \in [CoverIds -> Events \cup {NoEvent}],
           \A f \in CoverIds : \/ media'[f] = media[f]
                               \/ media'[f] = NoEvent
                               \/ f = eventReq[q].file /\ eventReq[q].pc = "uploaded",
           eventStore' \in [CoverIds -> {"unused", "stored", "gone"}],
           \A f \in CoverIds : \/ eventStore'[f] = eventStore[f]
                               \/ /\ eventStore[f] # "unused" /\ eventStore'[f] = "gone"
                                  /\ \A p \in Requests \ {q} :
                                       eventReq[p].pc = "uploaded" => eventReq[p].file # f
                                  /\ media'[f] = NoEvent \/ f \in eventLost',
           eventLost' \in SUBSET CoverIds, eventLost \subseteq eventLost',
           z.pc = "compensate" =>
             z.file \in CoverIds /\ (media'[z.file] = NoEvent \/ z.file \in eventLost'),
           \A f \in z.old : media'[f] = NoEvent,
           event' \in [Events -> PublicEvents!Row], PublishedIsWhole'
    PROVE  EventInv'
<1>1. /\ FreshUnknown' /\ UploadedOwn'
      /\ \A p \in Requests \ {q}, f \in CoverIds :
           eventReq'[p].pc = "compensate" /\ eventReq'[p].file = f =>
             media[f] = NoEvent \/ f \in eventLost
      /\ \A p \in Requests \ {q}, f \in CoverIds :
           media'[f] # NoEvent /\ (eventReq'[p].file = f \/ f \in eventReq'[p].old) =>
             media[f] # NoEvent
    <2>1. \A f \in CoverIds : \/ eventStore'[f] = eventStore[f]
                              \/ /\ eventStore[f] # "unused" /\ eventStore'[f] = "gone"
                                 /\ \A p \in Requests \ {q} :
                                      eventReq[p].pc = "uploaded" => eventReq[p].file # f
        OBVIOUS
    <2> QED BY <2>1, RequestsApart
<1>2. EventTyped'
    BY DEF EventTyped
<1>3. DeletesUnowned'
    <2>1. ASSUME NEW p \in Requests, eventReq'[p].pc = "compensate"
          PROVE  /\ eventReq'[p].file \in CoverIds
                 /\ media'[eventReq'[p].file] = NoEvent \/ eventReq'[p].file \in eventLost'
        <3>1. CASE p = q
            BY <2>1, <3>1
        <3>2. CASE p # q
            <4>1. PICK f \in CoverIds : f = eventReq[p].file /\ eventReq'[p].file = f
                BY <2>1, <3>2, EventParts DEF DeletesUnowned
            <4> QED BY <1>1, <2>1, <3>2, <4>1
        <3> QED BY <3>1, <3>2
    <2>2. ASSUME NEW p \in Requests, NEW f \in eventReq'[p].old
          PROVE  media'[f] = NoEvent
        <3>1. CASE p = q
            BY <2>2, <3>1
        <3>2. CASE p # q
            <4>1. f \in CoverIds /\ media[f] = NoEvent
                BY <2>2, <3>2, EventParts DEF DeletesUnowned
            <4> QED BY <1>1, <2>2, <3>2, <4>1
        <3> QED BY <3>1, <3>2
    <2> QED BY <2>1, <2>2 DEF DeletesUnowned
<1>4. RowsHaveObjects'
    <2>1. ASSUME NEW f \in CoverIds, media'[f] # NoEvent
          PROVE  eventStore'[f] = "stored" \/ f \in eventLost'
        <3>1. eventStore[f] = "stored" \/ f \in eventLost
            BY <2>1, EventParts DEF RowsHaveObjects, UploadedOwn
        <3> QED BY <2>1, <3>1
    <2> QED BY <2>1 DEF RowsHaveObjects
<1> QED BY <1>1, <1>2, <1>3, <1>4 DEF EventInv

LEMMA CompensatingRequest ==
    ASSUME NEW f \in CoverIds \cup {NoFile}
    PROVE  /\ PublicEvents!Compensating(f) \in EventRequest
           /\ PublicEvents!Compensating(f).pc = "compensate"
           /\ PublicEvents!Compensating(f).file = f /\ PublicEvents!Compensating(f).old = {}
BY DEF PublicEvents!Compensating, PublicEvents!NoRequest, EventRequest

\* The commit of a cover, reported as it is or as a failure.
LEMMA StagedInv ==
    ASSUME EventInv, NEW q \in Requests,
           PublicEvents!CommitCover(q) \/ PublicEvents!CommitReportedFailed(q)
    PROVE  EventInv'
<1>1. /\ PublicEvents!Staged(q) /\ UNCHANGED eventStore
      /\ eventReq[q].pc = "uploaded" /\ PublicEvents!Exists(eventReq[q].event)
    <2>1. PublicEvents!Staged(q) /\ UNCHANGED eventStore
        BY DEF PublicEvents!CommitCover, PublicEvents!CommitReportedFailed
    <2>2. eventReq[q].pc = "uploaded" /\ PublicEvents!Exists(eventReq[q].event)
        BY <2>1 DEF PublicEvents!Staged
    <2> QED BY <2>1, <2>2
<1>2. PICK e \in Events : e = eventReq[q].event
    BY <1>1, EventParts DEF EventTyped, EventRequest
<1>3. PICK f \in CoverIds :
         /\ f = eventReq[q].file /\ eventStore[f] = "stored" /\ media[f] = NoEvent
         /\ \A p \in Requests : f \notin eventReq[p].old
         /\ \A p \in Requests \ {q} : eventReq[p].file # f
    BY <1>1, EventParts DEF UploadedOwn
<1>4. PICK previous \in SUBSET CoverIds :
         /\ previous = IF PublicEvents!CoverJoined(e) THEN {event[e].cover} ELSE {}
         /\ \A g \in previous : media[g] = e /\ g = event[e].cover
    <2>1. PublicEvents!CoverJoined(e) =>
             event[e].cover \in CoverIds /\ media[event[e].cover] = e
        BY EventParts DEF PublicEvents!CoverJoined, EventTyped, PublicEvents!Row
    <2>2. CASE PublicEvents!CoverJoined(e)
        <3>1. {event[e].cover} \in SUBSET CoverIds
            BY <2>1, <2>2
        <3> QED BY <2>1, <2>2, <3>1
    <2>3. CASE ~PublicEvents!CoverJoined(e)
        <3> WITNESS {} \in SUBSET CoverIds
        <3> QED BY <2>3
    <2> QED BY <2>2, <2>3
<1>5. /\ event' = [event EXCEPT ![e].cover = f]
      /\ media' = [g \in CoverIds |-> IF g = f THEN e
                                      ELSE IF g \in previous THEN NoEvent ELSE media[g]]
    BY <1>1, <1>2, <1>3, <1>4 DEF PublicEvents!Staged
<1>6. PICK z \in EventRequest :
         /\ eventReq' = [PublicEvents!Outdated(e) EXCEPT ![q] = z]
         /\ z.file \in {f, NoFile} /\ (z.pc = "compensate" => z.file = f)
         /\ \/ z.pc = "cleanup" /\ z.old = previous /\ eventLost' = eventLost
            \/ z.pc = "compensate" /\ z.old = {} /\ eventLost' = eventLost \cup {f}
    <2>1. CASE PublicEvents!CommitCover(q)
        <3>1. PICK z : z = [PublicEvents!NoRequest EXCEPT !.pc = "cleanup", !.old = previous]
            OBVIOUS
        <3>2. z \in EventRequest /\ z.file = NoFile /\ z.pc = "cleanup" /\ z.old = previous
            BY <3>1 DEF EventRequest, PublicEvents!NoRequest
        <3>3. eventReq' = [PublicEvents!Outdated(e) EXCEPT ![q] = z]
            BY <1>2, <1>4, <2>1, <3>1 DEF PublicEvents!CommitCover
        <3> QED BY <2>1, <3>2, <3>3 DEF PublicEvents!CommitCover
    <2>2. CASE PublicEvents!CommitReportedFailed(q)
        <3>1. PICK z : z = PublicEvents!Compensating(f)
            OBVIOUS
        <3>2. z \in EventRequest /\ z.file = f /\ z.pc = "compensate" /\ z.old = {}
            BY <3>1, CompensatingRequest
        <3>3. eventReq' = [PublicEvents!Outdated(e) EXCEPT ![q] = z]
            BY <1>2, <1>3, <2>2, <3>1 DEF PublicEvents!CommitReportedFailed
        <3> QED BY <1>3, <2>2, <3>2, <3>3 DEF PublicEvents!CommitReportedFailed
    <2> QED BY <2>1, <2>2
<1>7. /\ eventReq' \in [Requests -> EventRequest] /\ eventReq'[q] = z
      /\ \A p \in Requests \ {q} : /\ eventReq'[p].pc = eventReq[p].pc
                                   /\ eventReq'[p].file = eventReq[p].file
                                   /\ eventReq'[p].old = eventReq[p].old
    BY <1>6, OutdatedSame
<1>8. media' \in [CoverIds -> Events \cup {NoEvent}]
    BY <1>5, EventParts DEF EventTyped
<1>9. \A g \in CoverIds : media'[g] = media[g] \/ media'[g] = NoEvent \/ g = f
    BY <1>5
<1>10. PICK row \in PublicEvents!Row : row = event[e]
    BY EventParts DEF EventTyped
<1>11. PICK new : new = [row EXCEPT !.cover = f]
    OBVIOUS
<1>12. /\ new \in PublicEvents!Row /\ new.st = row.st /\ new.pub = row.pub
       /\ new.text = row.text /\ new.cover = f
    BY <1>11 DEF PublicEvents!Row
<1>13. event' = [event EXCEPT ![e] = new]
    BY <1>5, <1>10, <1>11, EventParts DEF EventTyped
<1>14. event' \in [Events -> PublicEvents!Row]
    BY <1>12, <1>13, EventParts DEF EventTyped
<1>15. PublishedIsWhole'
    <2>1. ASSUME NEW d \in Events, event'[d].st = "PUBLISHED"
          PROVE  /\ event'[d].pub /\ event'[d].text = "whole"
                 /\ event'[d].cover \in CoverIds /\ media'[event'[d].cover] = d
        <3>1. CASE d = e
            <4>1. row.st = "PUBLISHED" /\ event'[d] = new
                BY <1>12, <1>13, <2>1, <3>1, EventParts DEF EventTyped
            <4>2. row.pub /\ row.text = "whole"
                BY <1>10, <4>1, EventParts DEF PublishedIsWhole
            <4> QED BY <1>5, <1>12, <3>1, <4>1, <4>2
        <3>2. CASE d # e
            <4>1. event'[d] = event[d]
                BY <1>13, <3>2, EventParts DEF EventTyped
            <4>2. /\ event[d].pub /\ event[d].text = "whole"
                  /\ event[d].cover \in CoverIds /\ media[event[d].cover] = d
                BY <2>1, <4>1, EventParts DEF PublishedIsWhole
            <4>3. event[d].cover # f /\ event[d].cover \notin previous
                BY <1>3, <1>4, <3>2, <4>2, EventParts
            <4> QED BY <1>5, <4>1, <4>2, <4>3
        <3> QED BY <3>1, <3>2
    <2> QED BY <2>1 DEF PublishedIsWhole
<1>16. \A g \in z.old : g \in eventReq[q].old \/ media[g] # NoEvent
    BY <1>4, <1>6, EventParts
<1>17. \A g \in z.old : media'[g] = NoEvent
    <2>1. \A g \in previous : g # f /\ g \in CoverIds
        BY <1>3, <1>4, EventParts
    <2> QED BY <1>5, <1>6, <2>1
<1>18. /\ eventLost' \in SUBSET CoverIds /\ eventLost \subseteq eventLost'
       /\ z.pc = "compensate" => z.file \in eventLost' /\ z.file \in CoverIds
       /\ z.pc # "uploaded"
    BY <1>3, <1>6, EventParts DEF EventTyped
<1>19. eventStore' \in [CoverIds -> {"unused", "stored", "gone"}]
    BY <1>1, EventParts DEF EventTyped
<1>20. z.file \in {eventReq[q].file, NoFile}
    BY <1>3, <1>6
<1> QED
    BY <1>1, <1>3, <1>7, <1>8, <1>9, <1>14, <1>15, <1>16, <1>17, <1>18, <1>19, <1>20,
       MediaStep
\* The steps of a request that change no row: it ends, or deletes what it may.
LEMMA RequestStep ==
    ASSUME EventInv, NEW q \in Requests, NEW z \in EventRequest,
           eventReq' = [eventReq EXCEPT ![q] = z],
           z.pc # "uploaded", z.file \in {eventReq[q].file, NoFile},
           z.old \subseteq eventReq[q].old,
           z.pc = "compensate" => eventReq[q].pc = "uploaded" /\ z.file = eventReq[q].file,
           UNCHANGED <<event, media, eventLost>>,
           eventStore' \in [CoverIds -> {"unused", "stored", "gone"}],
           \A f \in CoverIds :
             \/ eventStore'[f] = eventStore[f]
             \/ /\ eventStore'[f] = "gone"
                /\ f \in eventReq[q].old \/ (eventReq[q].pc = "compensate" /\ eventReq[q].file = f)
    PROVE  EventInv'
<1>1. /\ eventReq' \in [Requests -> EventRequest] /\ eventReq'[q] = z
      /\ \A p \in Requests \ {q} : eventReq'[p] = eventReq[p]
    BY EventParts DEF EventTyped
<1>2. /\ media' \in [CoverIds -> Events \cup {NoEvent}] /\ media' = media
      /\ event' \in [Events -> PublicEvents!Row]
      /\ eventLost' \in SUBSET CoverIds /\ eventLost' = eventLost
    BY EventParts DEF EventTyped
<1>3. ASSUME NEW f \in CoverIds, eventStore'[f] # eventStore[f]
      PROVE  /\ eventStore[f] # "unused" /\ eventStore'[f] = "gone"
             /\ \A p \in Requests \ {q} :
                  eventReq[p].pc = "uploaded" => eventReq[p].file # f
             /\ media'[f] = NoEvent \/ f \in eventLost'
    <2>1. f \in eventReq[q].old \/ (eventReq[q].pc = "compensate" /\ eventReq[q].file = f)
        BY <1>3
    <2>2. eventStore[f] # "unused"
        BY <2>1, EventParts DEF FreshUnknown
    <2>3. \A p \in Requests \ {q} : eventReq[p].pc = "uploaded" => eventReq[p].file # f
        BY <2>1, EventParts DEF UploadedOwn
    <2>4. media[f] = NoEvent \/ f \in eventLost
        BY <2>1, EventParts DEF DeletesUnowned
    <2> QED BY <1>2, <1>3, <2>2, <2>3, <2>4
<1>4. z.pc = "compensate" =>
        z.file \in CoverIds /\ (media'[z.file] = NoEvent \/ z.file \in eventLost')
    BY <1>2, EventParts DEF UploadedOwn
<1>5. \A f \in z.old : media'[f] = NoEvent /\ f \in eventReq[q].old
    BY <1>2, EventParts DEF DeletesUnowned
<1>6. PublishedIsWhole'
    BY EventParts DEF PublishedIsWhole
<1>7. /\ \A p \in Requests \ {q} : /\ eventReq'[p].pc = eventReq[p].pc
                                   /\ eventReq'[p].file = eventReq[p].file
                                   /\ eventReq'[p].old = eventReq[p].old
      /\ \A f \in z.old : (f \in eventReq[q].old \/ media[f] # NoEvent) /\ media'[f] = NoEvent
      /\ \A f \in CoverIds : \/ media'[f] = media[f]
                             \/ media'[f] = NoEvent
                             \/ f = eventReq[q].file /\ eventReq[q].pc = "uploaded"
      /\ eventLost \subseteq eventLost'
    BY <1>1, <1>2, <1>5
<1>8. \A f \in CoverIds : \/ eventStore'[f] = eventStore[f]
                          \/ /\ eventStore[f] # "unused" /\ eventStore'[f] = "gone"
                             /\ \A p \in Requests \ {q} :
                                  eventReq[p].pc = "uploaded" => eventReq[p].file # f
                             /\ media'[f] = NoEvent \/ f \in eventLost'
    BY <1>3
<1> QED BY <1>1, <1>2, <1>4, <1>6, <1>7, <1>8, MediaStep

LEMMA NoEventRequest ==
    /\ PublicEvents!NoRequest \in EventRequest
    /\ PublicEvents!NoRequest.pc = "idle" /\ PublicEvents!NoRequest.file = NoFile
    /\ PublicEvents!NoRequest.old = {}
BY DEF PublicEvents!NoRequest, EventRequest

LEMMA EndCoverInv ==
    ASSUME EventInv, NEW q \in Requests,
           \/ PublicEvents!RejectCover(q) \/ PublicEvents!Compensate(q)
           \/ PublicEvents!CleanUp(q) \/ PublicEvents!Crash(q)
    PROVE  EventInv'
<1>1. PICK r \in EventRequest : r = eventReq[q]
    BY EventParts
<1>2. /\ eventStore \in [CoverIds -> {"unused", "stored", "gone"}]
      /\ r.old \in SUBSET CoverIds
    BY <1>1, EventParts DEF EventTyped
<1>3. CASE PublicEvents!RejectCover(q)
    <2>1. PICK z : z = PublicEvents!Compensating(r.file)
        OBVIOUS
    <2>2. z \in EventRequest /\ z.pc = "compensate" /\ z.file = r.file /\ z.old = {}
        BY <1>1, <2>1, CompensatingRequest, EventParts
    <2>3. /\ eventReq' = [eventReq EXCEPT ![q] = z] /\ eventReq[q].pc = "uploaded"
          /\ UNCHANGED <<event, media, eventStore, eventLost>>
        BY <1>1, <1>3, <2>1, EventParts DEF PublicEvents!RejectCover, EventTyped
    <2> QED BY <1>1, <1>2, <2>2, <2>3, RequestStep
<1>4. CASE PublicEvents!Compensate(q)
    <2>1. /\ eventReq' = [eventReq EXCEPT ![q] = PublicEvents!NoRequest]
          /\ eventReq[q].pc = "compensate"
          /\ UNCHANGED <<event, media, eventLost>>
          /\ \/ eventStore' = eventStore
             \/ eventStore' = [eventStore EXCEPT ![r.file] = "gone"]
        BY <1>1, <1>4 DEF PublicEvents!Compensate
    <2>2. r.file \in CoverIds
        BY <1>1, <2>1, EventParts DEF DeletesUnowned
    <2>3. /\ eventStore' \in [CoverIds -> {"unused", "stored", "gone"}]
          /\ \A f \in CoverIds : \/ eventStore'[f] = eventStore[f]
                                 \/ eventStore'[f] = "gone" /\ r.file = f
        <3>1. CASE eventStore' = eventStore
            BY <1>2, <3>1
        <3>2. CASE eventStore' = [eventStore EXCEPT ![r.file] = "gone"]
            BY <1>2, <2>2, <3>2
        <3> QED BY <2>1, <3>1, <3>2
    <2> QED BY <1>1, <2>1, <2>3, NoEventRequest, RequestStep
<1>5. CASE PublicEvents!CleanUp(q) /\ eventReq[q].old = {}
    <2>1. /\ eventReq' = [eventReq EXCEPT ![q] = PublicEvents!NoRequest]
          /\ UNCHANGED <<event, media, eventStore, eventLost>>
        BY <1>5 DEF PublicEvents!CleanUp
    <2> QED BY <1>2, <2>1, NoEventRequest, RequestStep
<1>6. CASE PublicEvents!CleanUp(q) /\ eventReq[q].old # {}
    <2>1. PICK f \in r.old :
             /\ eventStore' \in {eventStore, [eventStore EXCEPT ![f] = "gone"]}
             /\ eventReq' = [eventReq EXCEPT ![q].old = @ \ {f}]
        BY <1>1, <1>6 DEF PublicEvents!CleanUp
    <2>2. eventReq[q].pc = "cleanup" /\ UNCHANGED <<event, media, eventLost>>
        BY <1>6 DEF PublicEvents!CleanUp
    <2>3. PICK z : z = [r EXCEPT !.old = r.old \ {f}]
        OBVIOUS
    <2>4. z \in EventRequest /\ z.pc = r.pc /\ z.file = r.file /\ z.old = r.old \ {f}
        BY <1>2, <2>3 DEF EventRequest
    <2>5. eventReq' = [eventReq EXCEPT ![q] = z]
        BY <1>1, <2>1, <2>3, EventParts DEF EventTyped
    <2>6. /\ eventStore' \in [CoverIds -> {"unused", "stored", "gone"}]
          /\ \A g \in CoverIds : \/ eventStore'[g] = eventStore[g]
                                 \/ eventStore'[g] = "gone" /\ g \in r.old
        <3>1. CASE eventStore' = eventStore
            BY <1>2, <3>1
        <3>2. CASE eventStore' = [eventStore EXCEPT ![f] = "gone"]
            BY <1>2, <3>2
        <3> QED BY <2>1, <3>1, <3>2
    <2> QED BY <1>1, <2>2, <2>4, <2>5, <2>6, RequestStep
<1>7. CASE PublicEvents!Crash(q)
    <2>1. /\ eventReq' = [eventReq EXCEPT ![q] = PublicEvents!NoRequest]
          /\ UNCHANGED <<event, media, eventStore, eventLost>>
        BY <1>7 DEF PublicEvents!Crash
    <2> QED BY <1>2, <2>1, NoEventRequest, RequestStep
<1> QED BY <1>3, <1>4, <1>5, <1>6, <1>7
\* Rows of an event's media go, and their objects are left to delete.
LEMMA RowsGo ==
    ASSUME EventInv, NEW q \in Requests, NEW e \in Events, NEW S \in SUBSET CoverIds,
           \A f \in S : media[f] = e,
           eventReq[q].pc = "idle",
           media' = [f \in CoverIds |-> IF f \in S THEN NoEvent ELSE media[f]],
           eventReq' = [PublicEvents!Outdated(e) EXCEPT
                          ![q] = [PublicEvents!NoRequest EXCEPT !.pc = "cleanup", !.old = S]],
           UNCHANGED <<eventStore, eventLost>>,
           NEW row \in PublicEvents!Row, event' = [event EXCEPT ![e] = row],
           row.st = "PUBLISHED" =>
             /\ row.pub /\ row.text = "whole"
             /\ row.cover \in CoverIds \ S /\ media[row.cover] = e
    PROVE  EventInv'
<1>1. PICK z : z = [PublicEvents!NoRequest EXCEPT !.pc = "cleanup", !.old = S]
    OBVIOUS
<1>2. z \in EventRequest /\ z.pc = "cleanup" /\ z.file = NoFile /\ z.old = S
    BY <1>1 DEF PublicEvents!NoRequest, EventRequest
<1>3. /\ eventReq' \in [Requests -> EventRequest] /\ eventReq'[q] = z
      /\ \A p \in Requests \ {q} : /\ eventReq'[p].pc = eventReq[p].pc
                                   /\ eventReq'[p].file = eventReq[p].file
                                   /\ eventReq'[p].old = eventReq[p].old
    BY <1>1, <1>2, OutdatedSame
<1>4. /\ media' \in [CoverIds -> Events \cup {NoEvent}]
      /\ \A f \in CoverIds : media'[f] = media[f] \/ media'[f] = NoEvent
      /\ eventStore' \in [CoverIds -> {"unused", "stored", "gone"}]
      /\ eventLost' \in SUBSET CoverIds
    BY EventParts DEF EventTyped
<1>5. event' \in [Events -> PublicEvents!Row]
    BY EventParts DEF EventTyped
<1>6. PublishedIsWhole'
    <2>1. ASSUME NEW d \in Events, event'[d].st = "PUBLISHED"
          PROVE  /\ event'[d].pub /\ event'[d].text = "whole"
                 /\ event'[d].cover \in CoverIds /\ media'[event'[d].cover] = d
        <3>1. CASE d = e
            <4>1. event'[d] = row
                BY <3>1, EventParts DEF EventTyped
            <4> QED BY <2>1, <3>1, <4>1
        <3>2. CASE d # e
            <4>1. event'[d] = event[d]
                BY <3>2, EventParts DEF EventTyped
            <4>2. /\ event[d].pub /\ event[d].text = "whole"
                  /\ event[d].cover \in CoverIds /\ media[event[d].cover] = d
                BY <2>1, <4>1, EventParts DEF PublishedIsWhole
            <4>3. event[d].cover \notin S
                BY <3>2, <4>2
            <4> QED BY <4>1, <4>2, <4>3
        <3> QED BY <3>1, <3>2
    <2> QED BY <2>1 DEF PublishedIsWhole
<1>7. \A f \in z.old : media[f] # NoEvent /\ media'[f] = NoEvent
    BY <1>2, EventParts
<1>8. /\ eventLost \subseteq eventLost'
      /\ \A f \in CoverIds : \/ eventStore'[f] = eventStore[f]
                             \/ /\ eventStore[f] # "unused" /\ eventStore'[f] = "gone"
                                /\ \A p \in Requests \ {q} :
                                     eventReq[p].pc = "uploaded" => eventReq[p].file # f
                                /\ media'[f] = NoEvent \/ f \in eventLost'
      /\ \A f \in CoverIds : \/ media'[f] = media[f]
                             \/ media'[f] = NoEvent
                             \/ f = eventReq[q].file /\ eventReq[q].pc = "uploaded"
    BY <1>4
<1>9. z.pc # "uploaded" /\ z.pc # "compensate" /\ z.file \in {eventReq[q].file, NoFile}
    BY <1>2
<1> QED BY <1>3, <1>4, <1>5, <1>6, <1>7, <1>8, <1>9, MediaStep

LEMMA DeleteMediaInv ==
    ASSUME EventInv, NEW q \in Requests, NEW e \in Events, NEW f \in CoverIds,
           PublicEvents!DeleteMedia(q, e, f)
    PROVE  EventInv'
<1>1. PICK row \in PublicEvents!Row : row = event[e]
    BY EventParts DEF EventTyped
<1>2. PICK cover \in CoverIds \cup {NoFile} :
         cover = IF row.cover = f THEN NoFile ELSE row.cover
    BY DEF PublicEvents!Row
<1>3. PICK new : new = [row EXCEPT !.cover = cover]
    OBVIOUS
<1>4. /\ new \in PublicEvents!Row /\ new.st = row.st /\ new.pub = row.pub
      /\ new.text = row.text /\ new.cover = cover
    BY <1>3 DEF PublicEvents!Row
<1>5. event' = [event EXCEPT ![e] = new]
    BY <1>1, <1>2, <1>3, EventParts DEF PublicEvents!DeleteMedia, EventTyped
<1>6. /\ eventReq[q].pc = "idle" /\ media[f] = e
      /\ row.cover = f => row.st = "DRAFT"
      /\ UNCHANGED <<eventStore, eventLost>>
    BY <1>1 DEF PublicEvents!DeleteMedia, PublicEvents!CoverRemovable
<1>7. media' = [g \in CoverIds |-> IF g \in {f} THEN NoEvent ELSE media[g]]
    BY EventParts DEF PublicEvents!DeleteMedia, EventTyped
<1>8. eventReq' = [PublicEvents!Outdated(e) EXCEPT
                     ![q] = [PublicEvents!NoRequest EXCEPT !.pc = "cleanup", !.old = {f}]]
    BY DEF PublicEvents!DeleteMedia
<1>9. ASSUME new.st = "PUBLISHED"
      PROVE  /\ new.pub /\ new.text = "whole"
             /\ new.cover \in CoverIds \ {f} /\ media[new.cover] = e
    <2>1. event[e].st = "PUBLISHED" /\ row.cover # f
        BY <1>1, <1>4, <1>6, <1>9
    <2>2. /\ row.pub /\ row.text = "whole" /\ row.cover \in CoverIds
          /\ media[row.cover] = e
        BY <1>1, <2>1, EventParts DEF PublishedIsWhole
    <2>3. new.cover = row.cover
        BY <1>2, <1>4, <2>1
    <2> QED BY <1>4, <2>1, <2>2, <2>3
<1>10. PICK S \in SUBSET CoverIds : S = {f}
    OBVIOUS
<1>11. /\ \A g \in S : media[g] = e
       /\ eventReq[q].pc = "idle" /\ UNCHANGED <<eventStore, eventLost>>
       /\ media' = [g \in CoverIds |-> IF g \in S THEN NoEvent ELSE media[g]]
       /\ eventReq' = [PublicEvents!Outdated(e) EXCEPT
                         ![q] = [PublicEvents!NoRequest EXCEPT !.pc = "cleanup", !.old = S]]
       /\ new.st = "PUBLISHED" => /\ new.pub /\ new.text = "whole"
                                  /\ new.cover \in CoverIds \ S /\ media[new.cover] = e
    BY <1>6, <1>7, <1>8, <1>9, <1>10
<1> QED BY <1>4, <1>5, <1>11, RowsGo

LEMMA DeleteEventInv ==
    ASSUME EventInv, NEW q \in Requests, NEW e \in Events, PublicEvents!DeleteEvent(q, e)
    PROVE  EventInv'
<1>2. PICK new : new = [PublicEvents!NoRow EXCEPT !.st = "deleted"]
    OBVIOUS
<1>3. new \in PublicEvents!Row /\ new.st = "deleted"
    BY <1>2, RowOfNone DEF PublicEvents!Row
<1>4. event' = [event EXCEPT ![e] = new]
    BY <1>2 DEF PublicEvents!DeleteEvent
<1>5. PICK S \in SUBSET CoverIds : S = PublicEvents!MediaOf(e)
    BY DEF PublicEvents!MediaOf
<1>6. \A f \in CoverIds : f \in S <=> media[f] = e
    BY <1>5 DEF PublicEvents!MediaOf
<1>7. media' = [f \in CoverIds |-> IF f \in S THEN NoEvent ELSE media[f]]
    BY <1>6 DEF PublicEvents!DeleteEvent
<1>8. /\ eventReq[q].pc = "idle" /\ UNCHANGED <<eventStore, eventLost>>
      /\ eventReq' = [PublicEvents!Outdated(e) EXCEPT
                        ![q] = [PublicEvents!NoRequest EXCEPT !.pc = "cleanup", !.old = S]]
    BY <1>5 DEF PublicEvents!DeleteEvent
<1> QED BY <1>3, <1>4, <1>6, <1>7, <1>8, RowsGo

LEMMA EventNext ==
    ASSUME EventInv, PublicEvents!Next \/ UNCHANGED eventVars
    PROVE  EventInv'
<1>1. CASE \E e \in Events, text \in Written, start \in Starts \cup {PublicEvents!NoStart} :
             \/ PublicEvents!CreateDraft(e, text, start)
             \/ \E cover \in CoverIds \cup {NoFile} :
                  PublicEvents!UpdateDraft(e, text, start, cover)
    BY <1>1, CreateEventInv, UpdateEventInv
<1>2. CASE \E e \in Events, f \in CoverIds : PublicEvents!UpdateMedia(e, f)
    BY <1>2, UpdateMediaInv
<1>3. CASE \E e \in Events, st \in PublicEvents!Statuses : PublicEvents!SetStatus(e, st)
    BY <1>3, SetStatusInv
<1>4. CASE \E q \in Requests :
             \/ PublicEvents!CommitCover(q) \/ PublicEvents!CommitReportedFailed(q)
             \/ PublicEvents!RejectCover(q) \/ PublicEvents!Compensate(q)
             \/ PublicEvents!CleanUp(q) \/ PublicEvents!Crash(q)
    BY <1>4, StagedInv, EndCoverInv
<1>5. CASE \E q \in Requests, e \in Events :
             \/ PublicEvents!UploadCover(q, e) \/ PublicEvents!DeleteEvent(q, e)
             \/ \E f \in CoverIds : PublicEvents!DeleteMedia(q, e, f)
    BY <1>5, UploadCoverInv, DeleteEventInv, DeleteMediaInv
<1>6. CASE UNCHANGED eventVars
    BY <1>6
    DEF eventVars, EventInv, EventTyped, FreshUnknown, UploadedOwn, DeletesUnowned,
        RowsHaveObjects, PublishedIsWhole
<1> QED BY <1>1, <1>2, <1>3, <1>4, <1>5, <1>6 DEF PublicEvents!Next
------------------------------------------------------------------------------
(* Recaps and their photos.                                                *)

RecapRequest ==
  [pc : {"idle", "upload", "compensate", "deleted", "cleaning", "retry", "publishing",
         "evicting", "evicted", "dequeue"},
   recap : RecapIds \cup {0}, photo : Photos \cup {<<0, 0>>},
   files : SUBSET Files, done : SUBSET (Files \cup RecapIds), rows : SUBSET RecapIds]

RecapTyped ==
  /\ recap \in [RecapIds -> [st : Statuses \cup {"none", "deleted", "evicted"}, first : Nat]]
  /\ photo \in [Photos -> {"none", "live", "deleted"}]
  /\ image \subseteq owned /\ queue \subseteq owned /\ owned \subseteq Files
  /\ store \in [Files -> {"unused", "named", "stored", "gone"}]
  /\ req \in [Requests -> RecapRequest]

\* Rows and objects.  A file with a row was stored; while it is, the row or its
\* key is kept.
FilesKept ==
  /\ \A f \in owned : /\ store[f] \in {"stored", "gone"}
                      /\ store[f] = "stored" => f \in image \cup queue
  /\ \A f \in image : photo[f.photo] \in {"live", "deleted"}
  /\ \A f \in queue : recap[f.photo[1]].st = "evicted"

\* A photo has the files of one attempt, in a recap that is there.
Whole(p, n) ==
  /\ \A f \in image : f.photo = p <=> f \in FilesOf(p, n)
  /\ FilesOf(p, n) \subseteq image
  /\ \A f \in FilesOf(p, n) : store[f] = "stored"

LiveWhole ==
  \A p \in Photos : photo[p] = "live" => Active(p[1]) /\ \E n \in 1..MaxTries : Whole(p, n)

PublishedShown == \A r \in Published : Live(r) # {}

\* The row lock, as the record of a request shows it.
HoldsRow(z, r) ==
  \/ z.pc \in Holding /\ z.recap = r
  \/ z.pc = "evicted" /\ r \in z.rows

LocksApart ==
  \A p, q \in Requests, r \in RecapIds : HoldsRow(req[p], r) /\ HoldsRow(req[q], r) => p = q

OnePublishes ==
  \A p, q \in Requests : req[p].pc \in Publishing /\ req[q].pc \in Publishing => p = q

\* What an upload stores is its own, and no row knows it yet.
Staging == {"upload", "compensate"}

StagedApart ==
  \A p, q \in Requests :
    req[p].pc \in Staging /\ req[q].pc \in Staging /\ req[p].files \cap req[q].files # {} => p = q

StagesNew(z) ==
  z.pc \in Staging => /\ z.done \subseteq z.files
                      /\ \A f \in z.files : f \notin owned /\ store[f] # "unused"

UploadsOwn(z) ==
  z.pc = "upload" => /\ z.photo \in Photos /\ z.photo[1] = z.recap
                     /\ photo[z.photo] = "none" /\ Active(z.recap)
                     /\ \E n \in 1..MaxTries : z.files = FilesOf(z.photo, n)
                     /\ \A f \in z.done : store[f] = "stored"

\* What a cleanup deletes never comes back.
Dead(p) == photo[p] = "deleted" \/ recap[p[1]].st \in {"deleted", "evicted"}

CleansDead(z) ==
  /\ z.pc = "deleted" => z.done = {}
  /\ z.pc \in {"cleaning", "retry"} =>
       /\ z.files \subseteq owned /\ z.done \subseteq owned
       /\ \A f \in z.files \cup z.done : Dead(f.photo)
       /\ \A f \in z.done : store[f] = "gone"

Dequeues(z) ==
  z.pc = "dequeue" => /\ z.files \subseteq owned
                      /\ \A f \in z.files : recap[f.photo[1]].st = "evicted"

\* What will be published has a photo; with what a publication evicts gone, no
\* more than Limit remain.
PublishesOwn(z) ==
  z.pc \in Publishing => z.recap \in RecapIds /\ Active(z.recap) /\ Live(z.recap) # {}

Remaining(z) == (Published \cup {z.recap}) \ z.done

EvictsOverflow(z) ==
  /\ z.pc = "evicting" => Published \cup {z.recap} \subseteq z.rows
  /\ z.pc = "evicted" => z.done \subseteq z.rows /\ Cardinality(Remaining(z)) <= Limit

EvictsFiles(z) ==
  z.pc = "evicted" => /\ z.files \subseteq owned
                      /\ \A f \in z.files : f.photo[1] \in z.done
                      /\ \A f \in image : f.photo[1] \in z.done => f \in z.files

RequestWell(z) ==
  /\ StagesNew(z) /\ UploadsOwn(z) /\ CleansDead(z) /\ Dequeues(z)
  /\ PublishesOwn(z) /\ EvictsOverflow(z) /\ EvictsFiles(z)

RequestsWell == \A q \in Requests : RequestWell(req[q])

RequestsExclude == LocksApart /\ OnePublishes /\ StagedApart

RecapInv ==
  /\ RecapTyped /\ FilesKept /\ LiveWhole /\ PublishedShown /\ NineAtMost
  /\ RequestsExclude /\ RequestsWell

LEMMA RecapParts ==
    ASSUME RecapInv
    PROVE  /\ RecapTyped /\ FilesKept /\ LiveWhole /\ PublishedShown /\ NineAtMost
           /\ LocksApart /\ OnePublishes /\ StagedApart
           /\ \A q \in Requests : req[q] \in RecapRequest
           /\ \A q \in Requests :
                /\ StagesNew(req[q]) /\ UploadsOwn(req[q]) /\ CleansDead(req[q])
                /\ Dequeues(req[q]) /\ PublishesOwn(req[q]) /\ EvictsOverflow(req[q])
                /\ EvictsFiles(req[q])
BY DEF RecapInv, RecapTyped, RequestsExclude, RequestsWell, RequestWell

LEMMA RecapRows ==
    ASSUME RecapTyped
    PROVE  /\ \A r \in RecapIds :
                /\ recap[r].st \in Statuses \cup {"none", "deleted", "evicted"}
                /\ recap[r].first \in Nat
                /\ recap[r] \in
                     [st : Statuses \cup {"none", "deleted", "evicted"}, first : Nat]
           /\ \A p \in Photos : photo[p] \in {"none", "live", "deleted"}
           /\ \A f \in Files : store[f] \in {"unused", "named", "stored", "gone"}
           /\ image \in SUBSET Files /\ queue \in SUBSET Files /\ owned \in SUBSET Files
           /\ image \subseteq owned /\ queue \subseteq owned
BY DEF RecapTyped

LEMMA PhotoParts ==
    /\ \A p \in Photos : p[1] \in RecapIds
    /\ \A f \in Files : /\ f.photo \in Photos /\ f.try \in 1..MaxTries
                        /\ f.variant \in Variants /\ f.photo[1] \in RecapIds
BY DEF Photos, Files

LEMMA RequestParts ==
    ASSUME NEW z \in RecapRequest
    PROVE  /\ z.recap \in RecapIds \cup {0} /\ z.photo \in Photos \cup {<<0, 0>>}
           /\ z.files \in SUBSET Files /\ z.done \in SUBSET (Files \cup RecapIds)
BY DEF RecapRequest

LEMMA NoRecapRequest ==
    /\ NoRequest \in RecapRequest /\ NoRequest.pc = "idle"
    /\ NoRequest.files = {} /\ NoRequest.done = {}
    /\ RequestWell(NoRequest) /\ RequestWell(NoRequest)'
    /\ \A r \in RecapIds : ~HoldsRow(NoRequest, r)
BY DEF NoRequest, RecapRequest, RequestWell, StagesNew, UploadsOwn, CleansDead, Dequeues,
       PublishesOwn, EvictsOverflow, EvictsFiles, HoldsRow, Staging, Publishing, Holding

LEMMA RecapInit == Init => RecapInv
<1> SUFFICES ASSUME Init PROVE RecapInv
    OBVIOUS
<1>1. PICK none : none = NoRequest
    OBVIOUS
<1>2. req = [q \in Requests |-> none] /\ none \in RecapRequest
    BY <1>1, NoRecapRequest DEF Init
<1>3. recap \in [RecapIds -> [st : Statuses \cup {"none", "deleted", "evicted"}, first : Nat]]
    BY DEF Init
<1>4. RecapTyped
    BY <1>2, <1>3 DEF Init, RecapTyped
<1>5. FilesKept /\ LiveWhole
    BY PhotoParts DEF Init, FilesKept, LiveWhole
<1>6. Published = {}
    BY DEF Init, Published
<1>7. PublishedShown /\ NineAtMost
    BY <1>6, FS_EmptySet, RecapsAssumption DEF PublishedShown, NineAtMost
<1>8. \A q \in Requests : req[q] = none /\ none.pc = "idle"
    BY <1>1, <1>2, NoRecapRequest
<1>9. RequestsExclude
    <2>1. LocksApart
        BY <1>8 DEF LocksApart, HoldsRow, Holding, Publishing
    <2>2. OnePublishes /\ StagedApart
        BY <1>8 DEF OnePublishes, StagedApart, Publishing, Staging
    <2> QED BY <2>1, <2>2 DEF RequestsExclude
<1>10. RequestsWell
    BY <1>1, <1>8, NoRecapRequest DEF RequestsWell
<1> QED BY <1>4, <1>5, <1>7, <1>9, <1>10 DEF RecapInv

\* Requests exclude each other when one of them changes and takes only what is
\* free.
LEMMA ExcludeStep ==
    ASSUME RequestsExclude, NEW q \in Requests, NEW z, req' = [req EXCEPT ![q] = z],
           req \in [Requests -> RecapRequest],
           \A r \in RecapIds : HoldsRow(z, r) => HoldsRow(req[q], r) \/ ~Locked(r),
           z.pc \in Publishing => req[q].pc \in Publishing \/ PublicationFree,
           z.pc \in Staging =>
             \A p \in Requests \ {q} :
               req[p].pc \in Staging => z.files \cap req[p].files = {}
    PROVE  RequestsExclude'
<1>1. LocksApart /\ OnePublishes /\ StagedApart
    BY DEF RequestsExclude
<1>2. req'[q] = z /\ \A p \in Requests \ {q} : req'[p] = req[p]
    OBVIOUS
<1>3. ASSUME NEW p \in Requests \ {q}, NEW r \in RecapIds
      PROVE  ~(HoldsRow(z, r) /\ HoldsRow(req[p], r))
    <2>1. HoldsRow(req[p], r) => Locked(r)
        BY DEF HoldsRow, Locked
    <2> QED BY <1>1, <1>3, <2>1 DEF LocksApart
<1>4. LocksApart'
    <2>1. ASSUME NEW p \in Requests, NEW s \in Requests, NEW r \in RecapIds,
                 HoldsRow(req'[p], r), HoldsRow(req'[s], r)
          PROVE  p = s
        BY <1>1, <1>2, <1>3, <2>1 DEF LocksApart
    <2>2. \A p, s \in Requests, r \in RecapIds :
            HoldsRow(req'[p], r) /\ HoldsRow(req'[s], r) => p = s
        BY <2>1
    <2> QED BY <2>2 DEF LocksApart, HoldsRow
<1>5. OnePublishes'
    BY <1>1, <1>2 DEF OnePublishes, PublicationFree
<1>6. StagedApart'
    BY <1>1, <1>2 DEF StagedApart
<1> QED BY <1>4, <1>5, <1>6 DEF RequestsExclude

\* The invariants of rows do not read the requests.
LEMMA RowsSame ==
    ASSUME RecapInv, UNCHANGED <<recap, photo, image, queue, store, owned>>
    PROVE  /\ FilesKept' /\ LiveWhole' /\ PublishedShown' /\ NineAtMost'
           /\ \A z : RequestWell(z) => RequestWell(z)'
<1>1. FilesKept /\ LiveWhole /\ PublishedShown /\ NineAtMost
    BY RecapParts
<1>2. FilesKept'
    BY <1>1 DEF FilesKept
<1>3. LiveWhole'
    BY <1>1 DEF LiveWhole, Whole, Active
<1>4. Published' = Published /\ \A r : Live(r)' = Live(r)
    BY DEF Published, Live
<1>5. PublishedShown' /\ NineAtMost'
    BY <1>1, <1>4 DEF PublishedShown, NineAtMost
<1>6. ASSUME NEW z, RequestWell(z)
      PROVE  RequestWell(z)'
    <2>1. StagesNew(z)' /\ UploadsOwn(z)'
        BY <1>6 DEF RequestWell, StagesNew, UploadsOwn, Active
    <2>2. CleansDead(z)' /\ Dequeues(z)'
        BY <1>6 DEF RequestWell, CleansDead, Dead, Dequeues
    <2>3. PublishesOwn(z)'
        BY <1>4, <1>6 DEF RequestWell, PublishesOwn, Active
    <2>4. EvictsOverflow(z)' /\ EvictsFiles(z)'
        BY <1>4, <1>6 DEF RequestWell, EvictsOverflow, Remaining, EvictsFiles
    <2> QED BY <2>1, <2>2, <2>3, <2>4 DEF RequestWell
<1> QED BY <1>2, <1>3, <1>5, <1>6

\* A step that only changes what a request is about to do.
LEMMA RequestOnly ==
    ASSUME RecapInv, NEW q \in Requests, NEW z \in RecapRequest,
           req' = [req EXCEPT ![q] = z],
           UNCHANGED <<recap, photo, image, queue, store, owned>>,
           RequestWell(z),
           \A r \in RecapIds : HoldsRow(z, r) => HoldsRow(req[q], r) \/ ~Locked(r),
           z.pc \in Publishing => req[q].pc \in Publishing \/ PublicationFree,
           z.pc \in Staging => req[q].pc \in Staging /\ z.files \subseteq req[q].files
    PROVE  RecapInv'
<1>1. RecapTyped /\ RequestsExclude /\ \A p \in Requests : RequestWell(req[p])
    BY DEF RecapInv, RequestsWell
<1>2. req \in [Requests -> RecapRequest]
    BY <1>1 DEF RecapTyped
<1>3. RecapTyped'
    BY <1>1, <1>2 DEF RecapTyped
<1>4. ASSUME z.pc \in Staging, NEW p \in Requests \ {q}, req[p].pc \in Staging
      PROVE  z.files \cap req[p].files = {}
    BY <1>1, <1>4 DEF RequestsExclude, StagedApart
<1>5. RequestsExclude'
    BY <1>1, <1>2, <1>4, ExcludeStep
<1>6. \A p \in Requests : req'[p] = z \/ req'[p] = req[p]
    BY <1>2
<1>7. RequestsWell'
    BY <1>1, <1>6, RowsSame DEF RequestsWell
<1> QED BY <1>3, <1>5, <1>7, RowsSame DEF RecapInv

\* The end of a request.
LEMMA RequestEnds ==
    ASSUME RecapInv, NEW q \in Requests, req' = [req EXCEPT ![q] = NoRequest],
           UNCHANGED <<recap, photo, image, queue, store, owned>>
    PROVE  RecapInv'
<1>1. PICK z \in RecapRequest : z = NoRequest
    BY NoRecapRequest
<1>2. z.pc = "idle" /\ RequestWell(z) /\ \A r \in RecapIds : ~HoldsRow(z, r)
    BY <1>1, NoRecapRequest
<1>3. z.pc \notin Publishing /\ z.pc \notin Staging
    BY <1>2 DEF Publishing, Staging
<1> QED BY <1>1, <1>2, <1>3, RequestOnly

LEMMA UploadFailsInv ==
    ASSUME RecapInv, NEW q \in Requests, UploadFails(q)
    PROVE  RecapInv'
<1>1. PICK r \in RecapRequest : r = req[q]
    BY RecapParts
<1>2. PICK z : z = [r EXCEPT !.pc = "compensate"]
    OBVIOUS
<1>3. /\ z \in RecapRequest /\ z.pc = "compensate"
      /\ z.files = r.files /\ z.done = r.done
    BY <1>2 DEF RecapRequest
<1>4. /\ r.pc = "upload" /\ req' = [req EXCEPT ![q] = z]
      /\ UNCHANGED <<recap, photo, image, queue, store, owned>>
    BY <1>1, <1>2, RecapParts DEF UploadFails, RecapTyped
<1>5. StagesNew(z)
    BY <1>1, <1>3, <1>4, RecapParts DEF StagesNew, Staging
<1>6. RequestWell(z)
    BY <1>3, <1>5
    DEF RequestWell, UploadsOwn, CleansDead, Dequeues, PublishesOwn, EvictsOverflow,
        EvictsFiles, Publishing
<1>7. /\ \A s \in RecapIds : ~HoldsRow(z, s)
      /\ z.pc \notin Publishing /\ r.pc \in Staging
    BY <1>3, <1>4 DEF HoldsRow, Holding, Publishing, Staging
<1> QED BY <1>1, <1>3, <1>4, <1>6, <1>7, RequestOnly

LEMMA CrashRecapInv ==
    ASSUME RecapInv, NEW q \in Requests, Crash(q)
    PROVE  RecapInv'
BY RequestEnds DEF Crash

LEMMA DeletedFilesDead ==
    ASSUME RecapInv, NEW r
    PROVE  /\ DeletedImages(r) \in SUBSET Files /\ DeletedImages(r) \subseteq owned
           /\ \A f \in DeletedImages(r) : Dead(f.photo)
BY RecapParts, RecapRows DEF DeletedImages, ImagesOf, Dead

LEMMA CleanupReadInv ==
    ASSUME RecapInv, NEW q \in Requests, CleanupRead(q)
    PROVE  RecapInv'
<1>1. PICK r \in RecapRequest : r = req[q]
    BY RecapParts
<1>2. PICK files \in SUBSET Files : files = DeletedImages(r.recap)
    BY DeletedFilesDead
<1>3. PICK z : z = [r EXCEPT !.pc = "cleaning", !.files = files]
    OBVIOUS
<1>4. z \in RecapRequest /\ z.pc = "cleaning" /\ z.files = files /\ z.done = r.done
    BY <1>3 DEF RecapRequest
<1>5. /\ r.pc = "deleted" /\ req' = [req EXCEPT ![q] = z]
      /\ UNCHANGED <<recap, photo, image, queue, store, owned>>
    BY <1>1, <1>2, <1>3, RecapParts DEF CleanupRead, RecapTyped
<1>6. z.done = {}
    BY <1>1, <1>4, <1>5, RecapParts DEF CleansDead
<1>7. CleansDead(z)
    BY <1>2, <1>4, <1>6, DeletedFilesDead DEF CleansDead
<1>8. RequestWell(z)
    BY <1>4, <1>7
    DEF RequestWell, StagesNew, UploadsOwn, Dequeues, PublishesOwn, EvictsOverflow,
        EvictsFiles, Publishing, Staging
<1>9. /\ \A s \in RecapIds : ~HoldsRow(z, s)
      /\ z.pc \notin Publishing /\ z.pc \notin Staging
    BY <1>4 DEF HoldsRow, Holding, Publishing, Staging
<1> QED BY <1>4, <1>5, <1>8, <1>9, RequestOnly

LEMMA RetryCleanupInv ==
    ASSUME RecapInv, NEW q \in Requests, NEW r \in RecapIds, RetryCleanup(q, r)
    PROVE  RecapInv'
<1>1. UNCHANGED <<recap, photo, image, queue, store, owned>>
    BY DEF RetryCleanup
<1>2. CASE req' = [req EXCEPT ![q] = [NoRequest EXCEPT !.pc = "dequeue", !.recap = r,
                                        !.files = QueueOf(r)]]
    <2>1. PICK files \in SUBSET Files : files = QueueOf(r) /\ files \subseteq queue
        BY RecapParts, RecapRows DEF QueueOf
    <2>2. PICK z : z = [NoRequest EXCEPT !.pc = "dequeue", !.recap = r, !.files = files]
        OBVIOUS
    <2>3. z \in RecapRequest /\ z.pc = "dequeue" /\ z.files = files
        BY <2>2 DEF NoRequest, RecapRequest
    <2>4. Dequeues(z)
        BY <2>1, <2>3, RecapParts, RecapRows DEF Dequeues, FilesKept
    <2>5. RequestWell(z)
        BY <2>3, <2>4
        DEF RequestWell, StagesNew, UploadsOwn, CleansDead, PublishesOwn, EvictsOverflow,
            EvictsFiles, Publishing, Staging
    <2>6. /\ \A s \in RecapIds : ~HoldsRow(z, s)
          /\ z.pc \notin Publishing /\ z.pc \notin Staging
        BY <2>3 DEF HoldsRow, Holding, Publishing, Staging
    <2> QED BY <1>1, <1>2, <2>1, <2>2, <2>3, <2>5, <2>6, RequestOnly
<1>3. CASE /\ ~Locked(r)
           /\ req' = [req EXCEPT ![q] = [NoRequest EXCEPT !.pc = "retry", !.recap = r,
                                           !.files = DeletedImages(r)]]
    <2>1. PICK files \in SUBSET Files : files = DeletedImages(r)
        BY DeletedFilesDead
    <2>2. PICK z : z = [NoRequest EXCEPT !.pc = "retry", !.recap = r, !.files = files]
        OBVIOUS
    <2>3. /\ z \in RecapRequest /\ z.pc = "retry" /\ z.recap = r /\ z.files = files
          /\ z.done = {}
        BY <2>2 DEF NoRequest, RecapRequest
    <2>4. CleansDead(z)
        BY <2>1, <2>3, DeletedFilesDead DEF CleansDead
    <2>5. RequestWell(z)
        BY <2>3, <2>4
        DEF RequestWell, StagesNew, UploadsOwn, Dequeues, PublishesOwn, EvictsOverflow,
            EvictsFiles, Publishing, Staging
    <2>6. /\ \A s \in RecapIds : HoldsRow(z, s) => s = r
          /\ z.pc \notin Publishing /\ z.pc \notin Staging
        BY <2>3 DEF HoldsRow, Publishing, Staging
    <2> QED BY <1>1, <1>3, <2>1, <2>2, <2>3, <2>5, <2>6, RequestOnly
<1> QED BY <1>2, <1>3 DEF RetryCleanup

LEMMA PublishBeginInv ==
    ASSUME RecapInv, NEW q \in Requests, NEW r \in RecapIds, PublishBegin(q, r)
    PROVE  RecapInv'
<1>1. PICK z : z = [NoRequest EXCEPT !.pc = "publishing", !.recap = r]
    OBVIOUS
<1>2. z \in RecapRequest /\ z.pc = "publishing" /\ z.recap = r
    BY <1>1 DEF NoRequest, RecapRequest
<1>3. /\ PublicationFree /\ Active(r) /\ ~Locked(r) /\ Live(r) # {}
      /\ req' = [req EXCEPT ![q] = z]
      /\ UNCHANGED <<recap, photo, image, queue, store, owned>>
    BY <1>1 DEF PublishBegin, Publishable
<1>4. RequestWell(z)
    BY <1>2, <1>3
    DEF RequestWell, StagesNew, UploadsOwn, CleansDead, Dequeues, PublishesOwn,
        EvictsOverflow, EvictsFiles, Staging
<1>5. /\ \A s \in RecapIds : HoldsRow(z, s) => s = r
      /\ z.pc \notin Staging
    BY <1>2 DEF HoldsRow, Staging
<1> QED BY <1>2, <1>3, <1>4, <1>5, RequestOnly

\* Order of publication: FirstOf decides, and ids do between equals.
LEMMA FirstIsNumber ==
    ASSUME RecapTyped
    PROVE  \A r \in RecapIds : FirstOf(r) \in Nat
<1>1. IsFiniteSet({s \in RecapIds : recap[s].first # 0})
    BY FS_Subset, RecapsAssumption
<1>2. Cardinality({s \in RecapIds : recap[s].first # 0}) \in Nat
    BY <1>1, FS_CardinalityType
<1> QED BY <1>2, RecapRows DEF FirstOf

LEMMA Oldest ==
    ASSUME RecapTyped, NEW S \in SUBSET RecapIds, S # {}
    PROVE  \E m \in S : \A s \in S \ {m} : Newer(s, m)
<1>1. PICK T \in SUBSET Nat : T = {FirstOf(s) : s \in S}
    BY FirstIsNumber
<1>2. PICK t \in T : \A u \in T : t <= u
    BY SMTT(20), <1>1, LeastNumber
<1>3. PICK U \in SUBSET Nat : U = {s \in S : FirstOf(s) = t}
    BY RecapsAssumption
<1>4. U # {}
    BY <1>1, <1>2, <1>3
<1>5. PICK m \in U : \A u \in U : m <= u
    BY <1>4, LeastNumber
<1>6. ASSUME NEW s \in S \ {m}
      PROVE  Newer(s, m)
    <2>1. FirstOf(s) \in Nat /\ FirstOf(s) \in T /\ s \in Nat /\ m \in Nat /\ FirstOf(m) = t
        BY <1>1, <1>3, <1>5, FirstIsNumber, RecapsAssumption
    <2>2. t <= FirstOf(s) /\ (FirstOf(s) = t => m <= s)
        BY <1>2, <1>3, <1>5, <2>1
    <2> QED BY <1>1, <2>1, <2>2 DEF Newer
<1> QED BY <1>3, <1>5, <1>6

\* With the overflow gone, Limit recaps at most are left.
LEMMA OverflowLeavesLimit ==
    ASSUME RecapTyped, NEW S \in SUBSET RecapIds
    PROVE  Cardinality(S \ Overflow(S)) <= Limit
<1>1. PICK K \in SUBSET RecapIds : K = S \ Overflow(S)
    OBVIOUS
<1>2. IsFiniteSet(S) /\ IsFiniteSet(K)
    <2>1. \A T \in SUBSET RecapIds : IsFiniteSet(T)
        BY RecapsAssumption, FS_Subset
    <2> QED BY <1>1, <2>1
<1>3. CASE K = {}
    <2>1. Cardinality(K) = 0
        BY <1>3, FS_EmptySet
    <2> QED BY <1>1, <2>1, RecapsAssumption
<1>4. CASE K # {}
    <2>1. PICK m \in K : \A s \in K \ {m} : Newer(s, m)
        BY <1>4, Oldest
    <2>2. PICK N \in SUBSET S : N = {s \in S : Newer(s, m)}
        OBVIOUS
    <2>3. IsFiniteSet(N) /\ K \ {m} \subseteq N
        BY <1>1, <1>2, <2>1, <2>2, FS_Subset
    <2>4. ~(Cardinality(N) >= Limit)
        BY <1>1, <2>1, <2>2 DEF Overflow
    <2>5. Cardinality(K \ {m}) <= Cardinality(N)
        BY <2>3, FS_Subset
    <2>6. Cardinality(K \ {m}) = Cardinality(K) - 1
        BY <1>2, <2>1, FS_RemoveElement
    <2>7. Cardinality(K) \in Nat /\ Cardinality(N) \in Nat /\ Limit \in Nat
        BY <1>2, <2>3, FS_CardinalityType, RecapsAssumption
    <2> QED BY <1>1, <2>4, <2>5, <2>6, <2>7
<1> QED BY <1>3, <1>4

LEMMA EvictReadInv ==
    ASSUME RecapInv, NEW q \in Requests, EvictRead(q)
    PROVE  RecapInv'
<1>1. PICK r \in RecapRequest : r = req[q]
    BY RecapParts
<1>2. r.pc = "publishing" /\ r.pc \in Publishing
    BY <1>1 DEF EvictRead, Publishing
<1>3. r.recap \in RecapIds /\ Active(r.recap) /\ Live(r.recap) # {}
    BY <1>1, <1>2, RecapParts DEF PublishesOwn
<1>4. PICK shown \in SUBSET RecapIds : shown = Published \cup {r.recap}
    BY <1>3 DEF Published
<1>6. PICK z : z = [r EXCEPT !.pc = "evicting", !.rows = shown]
    OBVIOUS
<1>7. z \in RecapRequest /\ z.pc = "evicting" /\ z.rows = shown /\ z.recap = r.recap
    BY <1>6 DEF RecapRequest
<1>8. /\ req' = [req EXCEPT ![q] = z]
      /\ UNCHANGED <<recap, photo, image, queue, store, owned>>
    BY <1>1, <1>4, <1>6, RecapParts DEF EvictRead, RecapTyped
<1>9. EvictsOverflow(z)
    BY <1>4, <1>7 DEF EvictsOverflow
<1>10. RequestWell(z)
    BY <1>3, <1>7, <1>9
    DEF RequestWell, StagesNew, UploadsOwn, CleansDead, Dequeues, PublishesOwn, EvictsFiles,
        Staging
<1>11. /\ \A s \in RecapIds : HoldsRow(z, s) => HoldsRow(r, s)
       /\ z.pc \notin Staging
    BY <1>2, <1>7 DEF HoldsRow, Staging, Holding
<1> QED BY <1>1, <1>2, <1>7, <1>8, <1>10, <1>11, RequestOnly

LEMMA EvictLockInv ==
    ASSUME RecapInv, NEW q \in Requests, EvictLock(q)
    PROVE  RecapInv'
<1>1. PICK r \in RecapRequest : r = req[q]
    BY RecapParts
<1>2. r.pc = "evicting" /\ r.pc \in Publishing
    BY <1>1 DEF EvictLock, Publishing
<1>3. r.recap \in RecapIds /\ Active(r.recap) /\ Live(r.recap) # {}
    BY <1>1, <1>2, RecapParts DEF PublishesOwn
<1>4. r.rows \in SUBSET RecapIds /\ Published \cup {r.recap} \subseteq r.rows
    BY <1>1, <1>2, RecapParts DEF EvictsOverflow, RecapRequest
<1>5. PICK locked \in SUBSET RecapIds :
         /\ locked = {s \in r.rows : s = r.recap \/ s \in Published}
         /\ locked = Published \cup {r.recap}
    BY <1>4
<1>6. PICK gone \in SUBSET RecapIds : gone = Overflow(locked) /\ gone \subseteq locked
    BY DEF Overflow
<1>7. PICK files \in SUBSET Files :
         files = {f \in image : f.photo[1] \in gone} /\ files \subseteq owned
    BY RecapParts, RecapRows
<1>8. PICK z : z = [r EXCEPT !.pc = "evicted", !.rows = locked, !.done = gone,
                             !.files = files]
    OBVIOUS
<1>9. /\ z \in RecapRequest /\ z.pc = "evicted" /\ z.done = gone /\ z.files = files
      /\ z.rows = locked /\ z.recap = r.recap
    BY <1>8 DEF RecapRequest
<1>10. /\ req' = [req EXCEPT ![q] = z]
       /\ \A s \in r.rows \ {r.recap} : ~Locked(s)
       /\ UNCHANGED <<recap, photo, image, queue, store, owned>>
    BY <1>1, <1>5, <1>6, <1>7, <1>8, RecapParts DEF EvictLock, RecapTyped
<1>11. Remaining(z) = locked \ Overflow(locked)
    BY <1>5, <1>6, <1>9 DEF Remaining
<1>12. EvictsOverflow(z)
    BY <1>6, <1>9, <1>11, OverflowLeavesLimit, RecapParts DEF EvictsOverflow
<1>13. EvictsFiles(z)
    BY <1>7, <1>9 DEF EvictsFiles
<1>14. RequestWell(z)
    BY <1>3, <1>9, <1>12, <1>13
    DEF RequestWell, StagesNew, UploadsOwn, CleansDead, Dequeues, PublishesOwn, Staging
<1>15. \A s \in RecapIds : HoldsRow(z, s) => HoldsRow(r, s) \/ ~Locked(s)
    BY <1>2, <1>5, <1>9, <1>10 DEF HoldsRow, Holding
<1>16. z.pc \notin Staging
    BY <1>9 DEF Staging
<1> QED BY <1>1, <1>2, <1>9, <1>10, <1>14, <1>15, <1>16, RequestOnly

\* Objects come and go: a stored file with a row of a live photo stays, and so
\* do those that other requests are about to give a row.
LEMMA StoreStep ==
    ASSUME RecapInv, NEW q \in Requests, NEW z \in RecapRequest,
           req' = [req EXCEPT ![q] = z],
           UNCHANGED <<recap, photo, image, owned>>, queue' \subseteq queue,
           store' \in [Files -> {"unused", "named", "stored", "gone"}],
           \A f \in Files :
             \/ store'[f] = store[f]
             \/ store[f] = "unused" /\ store'[f] = "named"
             \/ store[f] # "unused" /\ store'[f] = "stored" /\ f \notin owned
             \/ /\ store[f] = "stored" /\ store'[f] = "gone"
                /\ f \in owned => photo[f.photo] # "live"
                /\ \A p \in Requests \ {q} : req[p].pc \in Staging => f \notin req[p].files,
           \A f \in queue \ queue' : store'[f] # "stored",
           RequestWell(z)',
           \A r \in RecapIds : HoldsRow(z, r) => HoldsRow(req[q], r) \/ ~Locked(r),
           z.pc \in Publishing => req[q].pc \in Publishing \/ PublicationFree,
           z.pc \in Staging =>
             \A p \in Requests \ {q} :
               req[p].pc \in Staging => z.files \cap req[p].files = {}
    PROVE  RecapInv'
<1>1. /\ RecapTyped /\ RequestsExclude /\ FilesKept /\ LiveWhole
      /\ req \in [Requests -> RecapRequest]
    BY DEF RecapInv, RecapTyped
<1>2. RecapTyped'
    BY <1>1 DEF RecapTyped
<1>3. RequestsExclude'
    BY <1>1, ExcludeStep
<1>4. \A f \in owned : f \in Files /\ (store'[f] = store[f] \/ store'[f] = "gone")
    BY <1>1, RecapRows DEF FilesKept
<1>5. FilesKept'
    <2>1. ASSUME NEW f \in owned
          PROVE  /\ store'[f] \in {"stored", "gone"}
                 /\ store'[f] = "stored" => f \in image \cup queue'
        BY <1>1, <1>4, <2>1 DEF FilesKept
    <2> QED BY <1>1, <2>1 DEF FilesKept
<1>6. LiveWhole'
    <2>1. ASSUME NEW p \in Photos, photo[p] = "live", NEW n \in 1..MaxTries, Whole(p, n),
                 NEW f \in FilesOf(p, n)
          PROVE  store'[f] = "stored"
        <3>1. f \in image /\ store[f] = "stored" /\ f.photo = p /\ f \in Files /\ f \in owned
            BY <1>1, <2>1, RecapRows DEF Whole, FilesOf
        <3> QED BY <2>1, <3>1
    <2>2. ASSUME NEW p \in Photos, photo[p] = "live"
          PROVE  Active(p[1])' /\ \E n \in 1..MaxTries : Whole(p, n)'
        <3>1. PICK n \in 1..MaxTries : Whole(p, n) /\ Active(p[1])
            BY <1>1, <2>2 DEF LiveWhole
        <3>2. Whole(p, n)'
            BY <2>1, <2>2, <3>1 DEF Whole
        <3> QED BY <3>1, <3>2 DEF Active
    <2> QED BY <2>2 DEF LiveWhole
<1>7. Published' = Published /\ \A r : Live(r)' = Live(r)
    BY DEF Published, Live
<1>8. PublishedShown' /\ NineAtMost'
    BY <1>7, RecapParts DEF PublishedShown, NineAtMost
<1>9. ASSUME NEW p \in Requests \ {q}
      PROVE  RequestWell(req[p])'
    <2>1. PICK y \in RecapRequest : y = req[p] /\ y = req'[p]
        BY <1>1
    <2>2. /\ StagesNew(y) /\ UploadsOwn(y) /\ CleansDead(y) /\ Dequeues(y)
          /\ PublishesOwn(y) /\ EvictsOverflow(y) /\ EvictsFiles(y)
        BY <2>1, RecapParts
    <2>3. y.files \in SUBSET Files
        BY RequestParts
    <2>4. StagesNew(y)'
        BY <2>2, <2>3 DEF StagesNew
    <2>5. UploadsOwn(y)'
        <3>1. ASSUME y.pc = "upload", NEW f \in y.done
              PROVE  store'[f] = "stored"
            <4>1. f \in y.files /\ f \in Files /\ store[f] = "stored" /\ y.pc \in Staging
                BY <2>2, <2>3, <3>1 DEF StagesNew, UploadsOwn, Staging
            <4> QED BY <2>1, <4>1
        <3> QED BY <2>2, <3>1 DEF UploadsOwn, Active
    <2>6. CleansDead(y)'
        BY <1>4, <2>2 DEF CleansDead, Dead
    <2>7. Dequeues(y)' /\ PublishesOwn(y)' /\ EvictsOverflow(y)' /\ EvictsFiles(y)'
        BY <1>7, <2>2
        DEF Dequeues, PublishesOwn, Active, EvictsOverflow, Remaining, EvictsFiles
    <2> QED BY <2>1, <2>4, <2>5, <2>6, <2>7 DEF RequestWell
<1>10. RequestsWell'
    <2>1. req'[q] = z
        BY <1>1
    <2> QED BY <1>9, <2>1 DEF RequestsWell
<1> QED BY <1>2, <1>3, <1>5, <1>6, <1>8, <1>10 DEF RecapInv

\* A DELETE takes the object or leaves it.
LEMMA DeletingStep ==
    ASSUME RecapTyped, NEW f \in Files, NEW answer, Deleting(f, answer)
    PROVE  /\ store' \in [Files -> {"unused", "named", "stored", "gone"}]
           /\ \A g \in Files : \/ store'[g] = store[g]
                               \/ g = f /\ store[f] = "stored" /\ store'[g] = "gone"
           /\ answer = "ok" => store'[f] = "gone"
           /\ answer = "missing" => store'[f] # "stored"
<1>1. store \in [Files -> {"unused", "named", "stored", "gone"}]
    BY DEF RecapTyped
<1>2. \/ /\ store[f] = "stored" /\ store' = [store EXCEPT ![f] = "gone"]
         /\ answer # "missing"
      \/ /\ store' = store /\ answer # "ok"
         /\ answer = "missing" => store[f] # "stored"
    BY DEF Deleting, Stored
<1> QED BY <1>1, <1>2

LEMMA DeadNotLive ==
    ASSUME RecapInv, NEW p \in Photos, Dead(p)
    PROVE  photo[p] # "live"
BY RecapParts DEF Dead, LiveWhole, Active, Statuses

LEMMA CompensateInv ==
    ASSUME RecapInv, NEW q \in Requests, Compensate(q)
    PROVE  RecapInv'
<1>1. PICK r \in RecapRequest : r = req[q]
    BY RecapParts
<1>2. /\ r.pc = "compensate" /\ r.pc \in Staging
      /\ UNCHANGED <<recap, photo, image, queue, owned>>
    BY <1>1 DEF Compensate, Staging
<1>3. CASE r.done = {}
    BY <1>1, <1>2, <1>3, RequestEnds DEF Compensate
<1>4. CASE r.done # {}
    <2>1. PICK f \in r.done, answer \in {"ok", "error", "missing"} :
             Deleting(f, answer) /\ req' = [req EXCEPT ![q].done = @ \ {f}]
        BY <1>1, <1>4 DEF Compensate
    <2>2. StagesNew(r) /\ r.files \in SUBSET Files
        BY <1>1, RecapParts, RequestParts
    <2>3. f \in Files /\ f \in r.files /\ f \notin owned
        BY <1>2, <2>1, <2>2 DEF StagesNew
    <2>4. PICK z : z = [r EXCEPT !.done = r.done \ {f}]
        OBVIOUS
    <2>5. /\ z \in RecapRequest /\ z.pc = "compensate" /\ z.files = r.files
          /\ z.done = r.done \ {f}
        BY <1>2, <2>4 DEF RecapRequest
    <2>6. req' = [req EXCEPT ![q] = z]
        BY <1>1, <2>1, <2>4, RecapParts DEF RecapTyped
    <2>7. /\ store' \in [Files -> {"unused", "named", "stored", "gone"}]
          /\ \A g \in Files : \/ store'[g] = store[g]
                              \/ g = f /\ store[f] = "stored" /\ store'[g] = "gone"
        BY <2>1, <2>3, DeletingStep, RecapParts
    <2>8. StagesNew(z)'
        BY <1>2, <2>2, <2>5, <2>7 DEF StagesNew
    <2>9. RequestWell(z)'
        BY <2>5, <2>8
        DEF RequestWell, UploadsOwn, CleansDead, Dequeues, PublishesOwn, EvictsOverflow,
            EvictsFiles, Publishing
    <2>10. /\ \A s \in RecapIds : ~HoldsRow(z, s)
           /\ z.pc \notin Publishing
        BY <2>5 DEF HoldsRow, Holding, Publishing
    <2>11. \A p \in Requests \ {q} : req[p].pc \in Staging => z.files \cap req[p].files = {}
        BY <1>1, <1>2, <2>5, RecapParts DEF StagedApart
    <2>12. \A p \in Requests \ {q} : req[p].pc \in Staging => f \notin req[p].files
        BY <2>3, <2>5, <2>11
    <2> QED BY ZenonT(40), <1>2, <2>3, <2>5, <2>6, <2>7, <2>9, <2>10, <2>11, <2>12, StoreStep
<1> QED BY <1>3, <1>4

\* No upload of another request is about to use a file that has a row.
LEMMA OwnedNotStaged ==
    ASSUME RecapInv, NEW f \in owned
    PROVE  \A p \in Requests : req[p].pc \in Staging => f \notin req[p].files
BY RecapParts DEF StagesNew

LEMMA CleanPhotoInv ==
    ASSUME RecapInv, NEW q \in Requests, CleanPhoto(q)
    PROVE  RecapInv'
<1>1. PICK r \in RecapRequest : r = req[q]
    BY RecapParts
<1>2. /\ r.pc \in {"cleaning", "retry"}
      /\ UNCHANGED <<recap, photo, image, queue, owned>>
    BY <1>1 DEF CleanPhoto
<1>3. PICK f \in r.files, answer \in {"ok", "error", "missing"} :
         /\ Deleting(f, answer)
         /\ req' = [req EXCEPT ![q].files = @ \ {f},
                               ![q].done = IF answer = "ok" THEN @ \cup {f} ELSE @]
    BY <1>1 DEF CleanPhoto
<1>4. /\ CleansDead(r) /\ f \in Files /\ f \in owned /\ Dead(f.photo)
      /\ r.done \in SUBSET (Files \cup RecapIds) /\ r.files \in SUBSET Files
    BY <1>1, <1>2, <1>3, RecapParts, RequestParts DEF CleansDead
<1>5. photo[f.photo] # "live"
    BY <1>4, DeadNotLive, PhotoParts
<1>6. PICK done \in SUBSET (Files \cup RecapIds) :
         done = IF answer = "ok" THEN r.done \cup {f} ELSE r.done
    <2>1. r.done \cup {f} \in SUBSET (Files \cup RecapIds)
        BY <1>4
    <2> QED BY <1>4, <2>1
<1>7. PICK z : z = [r EXCEPT !.files = r.files \ {f}, !.done = done]
    OBVIOUS
<1>8. /\ z \in RecapRequest /\ z.pc = r.pc /\ z.recap = r.recap
      /\ z.files = r.files \ {f} /\ z.done = done
    BY <1>7 DEF RecapRequest
<1>9. req' = [req EXCEPT ![q] = z]
    BY <1>1, <1>3, <1>6, <1>7, RecapParts DEF RecapTyped
<1>10. /\ store' \in [Files -> {"unused", "named", "stored", "gone"}]
       /\ \A g \in Files : \/ store'[g] = store[g]
                           \/ g = f /\ store[f] = "stored" /\ store'[g] = "gone"
       /\ answer = "ok" => store'[f] = "gone"
    BY <1>3, <1>4, DeletingStep, RecapParts
<1>11. \A p : Dead(p)' <=> Dead(p)
    BY <1>2 DEF Dead
<1>12. CleansDead(z)'
    <2>1. done \subseteq owned /\ \A g \in done : Dead(g.photo)
        BY <1>2, <1>4, <1>6 DEF CleansDead
    <2>2. \A g \in done : store'[g] = "gone"
        <3>1. ASSUME NEW g \in done PROVE store'[g] = "gone"
            <4>1. CASE g \in r.done
                <5>1. store[g] = "gone" /\ g \in Files
                    BY <1>2, <1>4, <4>1, RecapParts, RecapRows DEF CleansDead
                <5> QED BY <1>10, <5>1
            <4>2. CASE g = f /\ answer = "ok"
                BY <1>10, <4>2
            <4> QED BY <1>6, <4>1, <4>2
        <3> QED BY <3>1
    <2> QED BY <1>2, <1>4, <1>8, <1>11, <2>1, <2>2 DEF CleansDead
<1>13. RequestWell(z)'
    BY <1>2, <1>8, <1>12
    DEF RequestWell, StagesNew, UploadsOwn, Dequeues, PublishesOwn, EvictsOverflow,
        EvictsFiles, Publishing, Staging
<1>14. /\ \A s \in RecapIds : HoldsRow(z, s) => HoldsRow(r, s)
       /\ z.pc \notin Publishing /\ z.pc \notin Staging
    BY <1>2, <1>8 DEF HoldsRow, Publishing, Staging
<1>15. \A p \in Requests : req[p].pc \in Staging => f \notin req[p].files
    BY <1>4, OwnedNotStaged
<1>16. \A g \in Files :
          \/ store'[g] = store[g]
          \/ /\ store[g] = "stored" /\ store'[g] = "gone"
             /\ g \in owned => photo[g.photo] # "live"
             /\ \A p \in Requests \ {q} : req[p].pc \in Staging => g \notin req[p].files
    BY <1>5, <1>10, <1>15
<1>17. \A s \in RecapIds : HoldsRow(z, s) => HoldsRow(req[q], s)
    BY <1>1, <1>14
<1>18. \A g \in queue \ queue' : store'[g] # "stored"
    BY <1>2
<1>19. queue' \subseteq queue
    BY <1>2
<1> QED BY <1>2, <1>8, <1>9, <1>10, <1>13, <1>14, <1>16, <1>17, <1>18, <1>19, StoreStep

LEMMA DequeueInv ==
    ASSUME RecapInv, NEW q \in Requests, Dequeue(q)
    PROVE  RecapInv'
<1>1. PICK r \in RecapRequest : r = req[q]
    BY RecapParts
<1>2. r.pc = "dequeue" /\ UNCHANGED <<recap, photo, image, owned>>
    BY <1>1 DEF Dequeue
<1>3. CASE r.files = {}
    BY <1>1, <1>2, <1>3, RequestEnds DEF Dequeue
<1>4. CASE r.files # {}
    <2>1. PICK f \in r.files, answer \in {"ok", "error", "missing"} :
             /\ Deleting(f, answer)
             /\ queue' = IF answer = "error" THEN queue ELSE queue \ {f}
             /\ req' = [req EXCEPT ![q].files = @ \ {f}]
        BY <1>1, <1>4 DEF Dequeue
    <2>2. /\ Dequeues(r) /\ f \in Files /\ f \in owned
          /\ recap[f.photo[1]].st = "evicted" /\ r.files \in SUBSET Files
        BY <1>1, <1>2, <2>1, RecapParts, RequestParts DEF Dequeues
    <2>3. photo[f.photo] # "live"
        BY <2>2, DeadNotLive, PhotoParts DEF Dead
    <2>4. PICK z : z = [r EXCEPT !.files = r.files \ {f}]
        OBVIOUS
    <2>5. z \in RecapRequest /\ z.pc = "dequeue" /\ z.files = r.files \ {f}
        BY <1>2, <2>4 DEF RecapRequest
    <2>6. req' = [req EXCEPT ![q] = z]
        BY <1>1, <2>1, <2>4, RecapParts DEF RecapTyped
    <2>7. /\ store' \in [Files -> {"unused", "named", "stored", "gone"}]
          /\ \A g \in Files : \/ store'[g] = store[g]
                              \/ g = f /\ store[f] = "stored" /\ store'[g] = "gone"
          /\ answer = "ok" \/ answer = "missing" => store'[f] # "stored"
        BY <2>1, <2>2, DeletingStep, RecapParts
    <2>8. queue' \subseteq queue /\ \A g \in queue \ queue' : store'[g] # "stored"
        BY <2>1, <2>7
    <2>9. Dequeues(z)'
        BY <1>2, <2>2, <2>5 DEF Dequeues
    <2>10. RequestWell(z)'
        BY <2>5, <2>9
        DEF RequestWell, StagesNew, UploadsOwn, CleansDead, PublishesOwn, EvictsOverflow,
            EvictsFiles, Publishing, Staging
    <2>11. /\ \A s \in RecapIds : ~HoldsRow(z, s)
           /\ z.pc \notin Publishing /\ z.pc \notin Staging
        BY <2>5 DEF HoldsRow, Holding, Publishing, Staging
    <2>12. \A p \in Requests : req[p].pc \in Staging => f \notin req[p].files
        BY <2>2, OwnedNotStaged
    <2>13. \A g \in Files :
             \/ store'[g] = store[g]
             \/ /\ store[g] = "stored" /\ store'[g] = "gone"
                /\ g \in owned => photo[g.photo] # "live"
                /\ \A p \in Requests \ {q} : req[p].pc \in Staging => g \notin req[p].files
        BY <2>3, <2>7, <2>12
    <2>14. store' \in [Files -> {"unused", "named", "stored", "gone"}]
        BY <2>7
    <2> QED BY <1>2, <2>5, <2>6, <2>8, <2>10, <2>11, <2>13, <2>14, StoreStep
<1> QED BY <1>3, <1>4

LEMMA UploadBeginInv ==
    ASSUME RecapInv, NEW q \in Requests, NEW p \in Photos, UploadBegin(q, p)
    PROVE  RecapInv'
<1>1. Tries(p) \in SUBSET Nat /\ Tries(p) # {} /\ Tries(p) \subseteq 1..MaxTries
    BY RecapsAssumption DEF UploadBegin, Tries
<1>2. \E n \in Tries(p) : \A m \in Tries(p) : n <= m
    BY <1>1, LeastNumber
<1>3. PICK n \in 1..MaxTries : n = NextTry(p) /\ n \in Tries(p)
    BY <1>1, <1>2 DEF NextTry
<1>4. PICK files \in SUBSET Files : files = FilesOf(p, n)
    BY DEF FilesOf
<1>5. \A f \in files : f \in Files /\ store[f] = "unused"
    BY <1>3, <1>4 DEF Tries
<1>6. PICK z : z = [NoRequest EXCEPT !.pc = "upload", !.recap = p[1], !.photo = p,
                                     !.files = files]
    OBVIOUS
<1>7. /\ z \in RecapRequest /\ z.pc = "upload" /\ z.recap = p[1] /\ z.photo = p
      /\ z.files = files /\ z.done = {}
    BY <1>6, PhotoParts DEF NoRequest, RecapRequest
<1>8. /\ Active(p[1]) /\ ~Locked(p[1]) /\ photo[p] = "none"
      /\ req' = [req EXCEPT ![q] = z]
      /\ store' = [f \in Files |-> IF f \in files THEN "named" ELSE store[f]]
      /\ UNCHANGED <<recap, photo, image, queue, owned>>
    BY <1>3, <1>4, <1>6 DEF UploadBegin
<1>9. /\ store' \in [Files -> {"unused", "named", "stored", "gone"}]
      /\ \A f \in Files : \/ store'[f] = store[f]
                          \/ store[f] = "unused" /\ store'[f] = "named"
    BY <1>5, <1>8, RecapParts, RecapRows
<1>10. \A f \in files : f \notin owned /\ store'[f] # "unused"
    BY <1>5, <1>8, RecapParts DEF FilesKept
<1>11. StagesNew(z)'
    BY <1>7, <1>8, <1>10 DEF StagesNew
<1>12. UploadsOwn(z)'
    BY <1>4, <1>7, <1>8 DEF UploadsOwn, Active, FilesOf
<1>13. RequestWell(z)'
    BY <1>7, <1>11, <1>12
    DEF RequestWell, CleansDead, Dequeues, PublishesOwn, EvictsOverflow, EvictsFiles,
        Publishing
<1>14. /\ \A s \in RecapIds : HoldsRow(z, s) => s = p[1]
       /\ z.pc \notin Publishing
    BY <1>7 DEF HoldsRow, Publishing
<1>15. ASSUME NEW s \in Requests, req[s].pc \in Staging
       PROVE  z.files \cap req[s].files = {}
    BY <1>5, <1>7, <1>15, RecapParts DEF StagesNew
<1> QED BY ZenonT(40), <1>7, <1>8, <1>9, <1>13, <1>14, <1>15, StoreStep

\* The next variant is one of those that are left.
LEMMA NextVariant ==
    ASSUME NEW p \in Photos, NEW n \in 1..MaxTries, NEW done,
           FilesOf(p, n) \ done # {}
    PROVE  LET todo == FilesOf(p, n) \ done
           IN  (CHOOSE g \in todo : g.variant = "display" \/ Cardinality(todo) = 1) \in todo
<1>1. PICK todo : todo = FilesOf(p, n) \ done
    OBVIOUS
<1>2. PICK g \in todo : g \in Files /\ g.photo = p /\ g.try = n
    BY <1>1 DEF FilesOf
<1>3. \E h \in todo : h.variant = "display" \/ Cardinality(todo) = 1
    <2>1. CASE \E h \in todo : h.variant = "display"
        BY <2>1
    <2>2. CASE \A h \in todo : h.variant # "display"
        <3>1. ASSUME NEW h \in todo PROVE h = g
            <4>1. h \in Files /\ h.photo = p /\ h.try = n
                BY <1>1 DEF FilesOf
            <4>2. h.variant = g.variant
                BY <1>2, <2>2, <4>1 DEF Files, Variants
            <4> QED BY <1>2, <4>1, <4>2 DEF Files
        <3>2. todo = {g}
            BY <3>1
        <3> QED BY <3>2, FS_Singleton
    <2> QED BY <2>1, <2>2
<1> QED BY <1>1, <1>3

LEMMA UploadVariantInv ==
    ASSUME RecapInv, NEW q \in Requests, UploadVariant(q)
    PROVE  RecapInv'
<1>1. PICK r \in RecapRequest : r = req[q]
    BY RecapParts
<1>2. /\ r.pc = "upload" /\ r.pc \in Staging /\ r.done # r.files
      /\ UNCHANGED <<recap, photo, image, queue, owned>>
    BY <1>1 DEF UploadVariant, Staging
<1>3. StagesNew(r) /\ UploadsOwn(r) /\ r.files \in SUBSET Files
    BY <1>1, RecapParts, RequestParts
<1>4. PICK n \in 1..MaxTries : r.files = FilesOf(r.photo, n) /\ r.photo \in Photos
    BY <1>2, <1>3 DEF UploadsOwn
<1>5. r.done \subseteq r.files /\ r.files \ r.done # {}
    BY <1>2, <1>3 DEF StagesNew
<1>6. PICK todo : todo = r.files \ r.done
    OBVIOUS
<1>7. PICK f : f = CHOOSE g \in todo : g.variant = "display" \/ Cardinality(todo) = 1
    OBVIOUS
<1>8. f \in todo
    BY <1>4, <1>5, <1>6, <1>7, NextVariant
<1>9. /\ f \in Files /\ f \in r.files /\ f \notin owned /\ store[f] # "unused"
      /\ \A g \in r.files : g \in Files /\ g \notin owned /\ store[g] # "unused"
    BY <1>2, <1>3, <1>6, <1>8 DEF StagesNew
<1>10. PICK done \in SUBSET (Files \cup RecapIds) : done = r.done \cup {f} /\ done \subseteq r.files
    BY <1>3, <1>5, <1>9
<1>11. PICK pc \in {"upload", "compensate"} :
         /\ req' = [req EXCEPT ![q] = [r EXCEPT !.pc = pc, !.done = done]]
         /\ store' \in {store, [store EXCEPT ![f] = "stored"]}
         /\ pc = "upload" => store' = [store EXCEPT ![f] = "stored"]
    <2>1. \/ /\ store' = [store EXCEPT ![f] = "stored"]
             /\ req' = [req EXCEPT ![q].done = @ \cup {f}]
          \/ /\ store' \in {store, [store EXCEPT ![f] = "stored"]}
             /\ req' = [req EXCEPT ![q].done = @ \cup {f}, ![q].pc = "compensate"]
        BY <1>1, <1>6, <1>7 DEF UploadVariant
    <2>2. [r EXCEPT !.done = r.done \cup {f}] = [r EXCEPT !.pc = "upload", !.done = done]
        BY <1>2, <1>10 DEF RecapRequest
    <2>3. [r EXCEPT !.done = r.done \cup {f}, !.pc = "compensate"]
            = [r EXCEPT !.pc = "compensate", !.done = done]
        BY <1>10 DEF RecapRequest
    <2>4. CASE /\ store' = [store EXCEPT ![f] = "stored"]
               /\ req' = [req EXCEPT ![q].done = @ \cup {f}]
        <3>1. req' = [req EXCEPT ![q] = [r EXCEPT !.pc = "upload", !.done = done]]
            BY <1>1, <2>2, <2>4
        <3> QED BY <2>4, <3>1
    <2>5. CASE /\ store' \in {store, [store EXCEPT ![f] = "stored"]}
               /\ req' = [req EXCEPT ![q].done = @ \cup {f}, ![q].pc = "compensate"]
        <3>1. req' = [req EXCEPT ![q] = [r EXCEPT !.pc = "compensate", !.done = done]]
            BY <1>1, <2>3, <2>5, RecapParts DEF RecapTyped
        <3> QED BY <2>5, <3>1
    <2> QED BY <2>1, <2>4, <2>5
<1>12. PICK z : z = [r EXCEPT !.pc = pc, !.done = done]
    OBVIOUS
<1>13. /\ z \in RecapRequest /\ z.pc = pc /\ z.recap = r.recap /\ z.photo = r.photo
       /\ z.files = r.files /\ z.done = done
    BY <1>12 DEF RecapRequest
<1>14. store \in [Files -> {"unused", "named", "stored", "gone"}]
    BY RecapParts DEF RecapTyped
<1>15. /\ store' \in [Files -> {"unused", "named", "stored", "gone"}]
       /\ \A g \in Files : store'[g] = store[g] \/ (g = f /\ store'[g] = "stored")
       /\ pc = "upload" => store'[f] = "stored"
    BY <1>9, <1>11, <1>14
<1>16. StagesNew(z)'
    BY <1>2, <1>9, <1>10, <1>13, <1>15 DEF StagesNew
<1>17. UploadsOwn(z)'
    <2>1. ASSUME pc = "upload", NEW g \in done PROVE store'[g] = "stored"
        <3>1. g \in Files /\ (g = f \/ store[g] = "stored")
            BY <1>2, <1>3, <1>9, <1>10 DEF UploadsOwn
        <3> QED BY <1>15, <2>1, <3>1
    <2> QED BY <1>2, <1>3, <1>13, <2>1 DEF UploadsOwn, Active, FilesOf
<1>18. RequestWell(z)'
    BY <1>13, <1>16, <1>17
    DEF RequestWell, CleansDead, Dequeues, PublishesOwn, EvictsOverflow, EvictsFiles,
        Publishing
<1>19. /\ \A s \in RecapIds : HoldsRow(z, s) => HoldsRow(r, s)
       /\ z.pc \notin Publishing
    BY <1>2, <1>13 DEF HoldsRow, Publishing, Holding
<1>20. ASSUME NEW s \in Requests \ {q}, req[s].pc \in Staging
       PROVE  z.files \cap req[s].files = {}
    BY <1>1, <1>2, <1>13, <1>20, RecapParts DEF StagedApart
<1>21. \A g \in Files :
         \/ store'[g] = store[g]
         \/ store[g] # "unused" /\ store'[g] = "stored" /\ g \notin owned
    BY <1>9, <1>15
<1>22. req' = [req EXCEPT ![q] = z]
    BY <1>11, <1>12
<1>23. UNCHANGED <<recap, photo, image, owned>> /\ queue' \subseteq queue
       /\ \A g \in queue \ queue' : store'[g] # "stored"
    BY <1>2
<1>24. store' \in [Files -> {"unused", "named", "stored", "gone"}]
    BY <1>15
<1> QED BY <1>1, <1>13, <1>18, <1>19, <1>20, <1>21, <1>22, <1>23, <1>24, StoreStep

\* The commit of an upload: its photo is whole at once.
LEMMA AttachPhotoInv ==
    ASSUME RecapInv, NEW q \in Requests, Attach(q),
           req' = [req EXCEPT ![q] = NoRequest], UNCHANGED <<recap, queue, store>>
    PROVE  RecapInv'
<1>1. PICK r \in RecapRequest : r = req[q]
    BY RecapParts
<1>2. /\ r.pc = "upload" /\ r.pc \in Staging /\ r.pc \in Holding /\ r.done = r.files
      /\ StagesNew(r) /\ UploadsOwn(r) /\ r.files \in SUBSET Files
    BY <1>1, RecapParts, RequestParts DEF Attach, Staging, Holding
<1>3. PICK p \in Photos, n \in 1..MaxTries : p = r.photo /\ r.files = FilesOf(p, n)
    BY <1>2 DEF UploadsOwn
<1>4. /\ p[1] = r.recap /\ photo[p] = "none" /\ Active(p[1]) /\ p[1] \in RecapIds
      /\ \A f \in FilesOf(p, n) : store[f] = "stored" /\ f \notin owned
    BY <1>2, <1>3, PhotoParts DEF UploadsOwn, StagesNew
<1>5. /\ photo' = [photo EXCEPT ![p] = "live"]
      /\ image' = image \cup FilesOf(p, n) /\ owned' = owned \cup FilesOf(p, n)
    BY <1>1, <1>3 DEF Attach
<1>6. /\ RecapTyped /\ RequestsExclude /\ FilesKept /\ LiveWhole
      /\ photo \in [Photos -> {"none", "live", "deleted"}]
      /\ req \in [Requests -> RecapRequest]
    BY DEF RecapInv, RecapTyped
<1>7. FilesOf(p, n) \subseteq Files /\ \A f \in FilesOf(p, n) : f.photo = p
    BY DEF FilesOf
<1>8. PICK none \in RecapRequest :
         /\ none = NoRequest /\ none.pc = "idle" /\ RequestWell(none)'
         /\ \A s \in RecapIds : ~HoldsRow(none, s)
    BY NoRecapRequest
<1>9. /\ req' \in [Requests -> RecapRequest] /\ req'[q] = none
      /\ \A s \in Requests \ {q} : req'[s] = req[s]
    BY <1>6, <1>8
<1>10. RecapTyped'
    <2>1. photo' \in [Photos -> {"none", "live", "deleted"}]
        BY <1>5, <1>6
    <2>2. image' \subseteq owned' /\ queue' \subseteq owned' /\ owned' \subseteq Files
        BY <1>5, <1>6, <1>7 DEF RecapTyped
    <2> QED BY <1>6, <1>9, <2>1, <2>2 DEF RecapTyped
<1>11. RequestsExclude'
    <2>1. none.pc \notin Publishing /\ none.pc \notin Staging
        BY <1>8 DEF Publishing, Staging
    <2> QED BY <1>6, <1>8, <2>1, ExcludeStep
<1>12. \A f \in image : f.photo # p
    BY <1>4, <1>6 DEF FilesKept
<1>13. FilesKept'
    <2>1. \A f \in owned' : /\ store[f] \in {"stored", "gone"}
                            /\ store[f] = "stored" => f \in image' \cup queue
        BY <1>4, <1>5, <1>6 DEF FilesKept
    <2>2. \A f \in image' : photo'[f.photo] \in {"live", "deleted"}
        <3>1. ASSUME NEW f \in image PROVE photo'[f.photo] \in {"live", "deleted"}
            <4>1. f.photo \in Photos /\ f.photo # p
                BY <1>6, <1>12, RecapRows, PhotoParts
            <4> QED BY <1>5, <1>6, <4>1 DEF FilesKept
        <3> QED BY <1>5, <1>6, <1>7, <3>1
    <2> QED BY <1>6, <2>1, <2>2 DEF FilesKept
<1>14. \A s : FilesOf(s, n)' = FilesOf(s, n) /\ Active(s)' = Active(s)
    BY DEF FilesOf, Active
<1>15. LiveWhole'
    <2>1. Whole(p, n)'
        BY <1>4, <1>5, <1>7, <1>12 DEF Whole, FilesOf
    <2>2. ASSUME NEW s \in Photos \ {p}, photo'[s] = "live"
          PROVE  Active(s[1])' /\ \E m \in 1..MaxTries : Whole(s, m)'
        <3>1. photo[s] = "live"
            BY <1>5, <1>6, <2>2
        <3>2. PICK m \in 1..MaxTries : Whole(s, m) /\ Active(s[1])
            BY <1>6, <3>1 DEF LiveWhole
        <3>3. \A f \in FilesOf(p, n) : f.photo # s /\ f \notin FilesOf(s, m)
            BY <1>7 DEF FilesOf
        <3>4. Whole(s, m)'
            BY <1>5, <3>2, <3>3 DEF Whole, FilesOf
        <3> QED BY <1>14, <3>2, <3>4
    <2> QED BY <1>4, <1>14, <2>1, <2>2 DEF LiveWhole
<1>16. Published' = Published /\ \A s : Live(s) \subseteq Live(s)'
    BY <1>4, <1>5, <1>6 DEF Published, Live
<1>17. PublishedShown' /\ NineAtMost'
    BY <1>16, RecapParts DEF PublishedShown, NineAtMost
<1>18. ASSUME NEW s \in Requests \ {q}
       PROVE  RequestWell(req[s])'
    <2>1. PICK y \in RecapRequest : y = req[s] /\ y = req'[s]
        BY <1>6, <1>9
    <2>2. /\ StagesNew(y) /\ UploadsOwn(y) /\ CleansDead(y) /\ Dequeues(y)
          /\ PublishesOwn(y) /\ EvictsOverflow(y) /\ EvictsFiles(y)
        BY <2>1, RecapParts
    <2>3. HoldsRow(r, p[1]) /\ ~HoldsRow(y, p[1])
        BY <1>1, <1>2, <1>4, <2>1, RecapParts DEF HoldsRow, LocksApart
    <2>4. StagesNew(y)'
        <3>1. y.pc \in Staging => y.files \cap FilesOf(p, n) = {}
            BY <1>1, <1>2, <1>3, <2>1, RecapParts DEF StagedApart
        <3> QED BY <1>5, <2>2, <3>1 DEF StagesNew
    <2>5. UploadsOwn(y)'
        <3>1. y.pc = "upload" => y.photo # p
            BY <2>2, <2>3 DEF UploadsOwn, HoldsRow, Holding
        <3> QED BY <1>5, <1>6, <2>2, <3>1 DEF UploadsOwn, Active, FilesOf
    <2>6. \A t \in Photos : Dead(t) => Dead(t)'
        BY <1>4, <1>5, <1>6 DEF Dead, Active, Statuses
    <2>7. CleansDead(y)'
        <3>1. y.files \cup y.done \subseteq owned => \A f \in y.files \cup y.done : f.photo \in Photos
            BY <1>6, RecapRows, PhotoParts
        <3> QED BY <1>5, <2>2, <2>6, <3>1 DEF CleansDead
    <2>8. Dequeues(y)'
        BY <1>5, <2>2 DEF Dequeues
    <2>9. PublishesOwn(y)' /\ EvictsOverflow(y)'
        BY <1>16, <2>2 DEF PublishesOwn, Active, EvictsOverflow, Remaining
    <2>10. EvictsFiles(y)'
        <3>1. y.pc = "evicted" => p[1] \notin y.done
            BY <2>2, <2>3 DEF HoldsRow, EvictsOverflow
        <3> QED BY <1>5, <1>7, <2>2, <3>1 DEF EvictsFiles
    <2> QED BY <2>1, <2>4, <2>5, <2>7, <2>8, <2>9, <2>10 DEF RequestWell
<1>19. RequestsWell'
    BY <1>8, <1>9, <1>18 DEF RequestsWell
<1> QED BY <1>10, <1>11, <1>13, <1>15, <1>17, <1>19 DEF RecapInv

LEMMA UploadEndInv ==
    ASSUME RecapInv, NEW q \in Requests, UploadCommit(q) \/ UploadUncertain(q)
    PROVE  RecapInv'
<1>1. req' = [req EXCEPT ![q] = NoRequest] /\ UNCHANGED <<recap, queue, store>>
    BY DEF UploadCommit, UploadUncertain, AfterUncertainCommit
<1>2. CASE Attach(q)
    BY <1>1, <1>2, AttachPhotoInv
<1>3. CASE UNCHANGED <<photo, image, owned>>
    BY <1>1, <1>3, RequestEnds
<1> QED BY <1>2, <1>3 DEF UploadCommit, UploadUncertain

\* The commit of a cleanup: rows of deleted photos go with their objects.
LEMMA CleanCommitInv ==
    ASSUME RecapInv, NEW q \in Requests, CleanCommit(q)
    PROVE  RecapInv'
<1>1. PICK r \in RecapRequest : r = req[q]
    BY RecapParts
<1>2. r.pc \in {"cleaning", "retry"}
    BY <1>1 DEF CleanCommit
<1>3. /\ r.done \subseteq owned /\ \A f \in r.done : store[f] = "gone" /\ Dead(f.photo)
    BY <1>1, <1>2, RecapParts DEF CleansDead
<1>4. /\ image' = image \ r.done /\ req' = [req EXCEPT ![q] = NoRequest]
      /\ UNCHANGED <<recap, photo, queue, store, owned>>
    BY <1>1 DEF CleanCommit
<1>5. /\ RecapTyped /\ RequestsExclude /\ FilesKept /\ LiveWhole
      /\ req \in [Requests -> RecapRequest]
    BY DEF RecapInv, RecapTyped
<1>6. PICK none \in RecapRequest :
         /\ none = NoRequest /\ none.pc = "idle" /\ RequestWell(none)'
         /\ \A s \in RecapIds : ~HoldsRow(none, s)
    BY NoRecapRequest
<1>7. /\ req' \in [Requests -> RecapRequest] /\ req'[q] = none
      /\ \A s \in Requests \ {q} : req'[s] = req[s]
    BY <1>4, <1>5, <1>6
<1>8. RecapTyped'
    BY <1>4, <1>5, <1>7 DEF RecapTyped
<1>9. RequestsExclude'
    <2>1. none.pc \notin Publishing /\ none.pc \notin Staging
        BY <1>6 DEF Publishing, Staging
    <2> QED BY <1>4, <1>5, <1>6, <2>1, ExcludeStep
<1>10. FilesKept'
    <2>1. \A f \in owned : store[f] = "stored" => f \in image' \cup queue
        BY <1>3, <1>4, <1>5 DEF FilesKept
    <2> QED BY <1>4, <1>5, <2>1 DEF FilesKept
<1>11. LiveWhole'
    <2>1. ASSUME NEW p \in Photos, photo[p] = "live"
          PROVE  Active(p[1])' /\ \E n \in 1..MaxTries : Whole(p, n)'
        <3>1. PICK n \in 1..MaxTries : Whole(p, n) /\ Active(p[1])
            BY <1>5, <2>1 DEF LiveWhole
        <3>2. \A f \in r.done : f.photo # p
            BY <1>3, <2>1, DeadNotLive
        <3>3. \A f \in FilesOf(p, n) : f.photo = p
            BY DEF FilesOf
        <3>4. Whole(p, n)'
            BY <1>4, <3>1, <3>2, <3>3 DEF Whole
        <3> QED BY <1>4, <3>1, <3>4 DEF Active
    <2> QED BY <1>4, <2>1 DEF LiveWhole
<1>12. Published' = Published /\ \A s : Live(s)' = Live(s)
    BY <1>4 DEF Published, Live
<1>13. PublishedShown' /\ NineAtMost'
    BY <1>12, RecapParts DEF PublishedShown, NineAtMost
<1>14. ASSUME NEW s \in Requests \ {q}
       PROVE  RequestWell(req[s])'
    <2>1. PICK y \in RecapRequest : y = req[s] /\ y = req'[s]
        BY <1>5, <1>7
    <2>2. /\ StagesNew(y) /\ UploadsOwn(y) /\ CleansDead(y) /\ Dequeues(y)
          /\ PublishesOwn(y) /\ EvictsOverflow(y) /\ EvictsFiles(y)
        BY <2>1, RecapParts
    <2>3. StagesNew(y)' /\ UploadsOwn(y)'
        BY <1>4, <2>2 DEF StagesNew, UploadsOwn, Active
    <2>4. CleansDead(y)' /\ Dequeues(y)'
        BY <1>4, <2>2 DEF CleansDead, Dead, Dequeues
    <2>5. PublishesOwn(y)' /\ EvictsOverflow(y)' /\ EvictsFiles(y)'
        BY <1>4, <1>12, <2>2
        DEF PublishesOwn, Active, EvictsOverflow, Remaining, EvictsFiles
    <2> QED BY <2>1, <2>3, <2>4, <2>5 DEF RequestWell
<1>15. RequestsWell'
    BY <1>6, <1>7, <1>14 DEF RequestsWell
<1> QED BY <1>8, <1>9, <1>10, <1>11, <1>13, <1>15 DEF RecapInv

LEMMA FewerWithinLimit ==
    ASSUME NEW T \in SUBSET RecapIds, NEW S \in SUBSET T, Cardinality(T) <= Limit
    PROVE  Cardinality(S) <= Limit
<1>1. IsFiniteSet(T)
    BY FS_Subset, RecapsAssumption
<1>2. Cardinality(S) <= Cardinality(T) /\ IsFiniteSet(S)
    BY <1>1, FS_Subset
<1>3. Cardinality(S) \in Nat /\ Cardinality(T) \in Nat
    BY <1>1, <1>2, FS_CardinalityType
<1> QED BY <1>2, <1>3, RecapsAssumption

\* The row of a recap changes, and photos of it are deleted: neither while its
\* lock is held, unless it stays as its holder saw it.
LEMMA RowStep ==
    ASSUME RecapInv, NEW r \in RecapIds,
           recap' \in [RecapIds ->
                         [st : Statuses \cup {"none", "deleted", "evicted"}, first : Nat]],
           \A s \in RecapIds \ {r} : recap'[s] = recap[s],
           recap[r].st \notin {"deleted", "evicted"},
           photo' \in [Photos -> {"none", "live", "deleted"}],
           \A p \in Photos : \/ photo'[p] = photo[p]
                             \/ p[1] = r /\ photo[p] = "live" /\ photo'[p] = "deleted",
           Locked(r) => photo' = photo /\ Active(r)',
           \A p \in Photos : p[1] = r /\ photo'[p] = "live" => Active(r)',
           recap'[r].st = "PUBLISHED" => recap[r].st = "PUBLISHED" /\ Live(r)' # {},
           UNCHANGED <<image, queue, store, owned>>,
           req' \in [Requests -> RecapRequest],
           \A p \in Requests : \/ req'[p] = req[p]
                               \/ req'[p].pc = "deleted" /\ req'[p].done = {},
           RequestsExclude'
    PROVE  RecapInv'
<1>1. RecapTyped /\ FilesKept /\ LiveWhole /\ PublishedShown
    BY RecapParts
<1>2. RecapTyped'
    BY <1>1 DEF RecapTyped
<1>3. FilesKept'
    <2>1. ASSUME NEW f \in image
          PROVE  photo'[f.photo] \in {"live", "deleted"}
        <3>1. f.photo \in Photos /\ photo[f.photo] \in {"live", "deleted"}
            BY <1>1, RecapRows, PhotoParts DEF FilesKept
        <3> QED BY <3>1
    <2>2. ASSUME NEW f \in queue
          PROVE  recap'[f.photo[1]].st = "evicted"
        <3>1. f.photo[1] \in RecapIds /\ recap[f.photo[1]].st = "evicted"
            BY <1>1, RecapRows, PhotoParts DEF FilesKept
        <3> QED BY <3>1
    <2> QED BY <1>1, <2>1, <2>2 DEF FilesKept
<1>4. LiveWhole'
    <2>1. ASSUME NEW p \in Photos, photo'[p] = "live"
          PROVE  Active(p[1])' /\ \E n \in 1..MaxTries : Whole(p, n)'
        <3>1. photo[p] = "live" /\ p[1] \in RecapIds
            BY <2>1, PhotoParts
        <3>2. PICK n \in 1..MaxTries : Whole(p, n) /\ Active(p[1])
            BY <1>1, <3>1 DEF LiveWhole
        <3>3. Whole(p, n)'
            BY <3>2 DEF Whole
        <3>4. Active(p[1])'
            BY <2>1, <3>1, <3>2 DEF Active
        <3> QED BY <3>3, <3>4
    <2> QED BY <2>1 DEF LiveWhole
<1>5. Published' \subseteq Published /\ Published \in SUBSET RecapIds
    BY DEF Published
<1>6. \A s \in RecapIds \ {r} : Live(s)' = Live(s)
    BY DEF Live
<1>7. PublishedShown'
    BY <1>1, <1>5, <1>6 DEF PublishedShown, Published
<1>8. NineAtMost'
    BY <1>5, FewerWithinLimit, RecapParts DEF NineAtMost
<1>9. ASSUME NEW s \in Requests
      PROVE  RequestWell(req[s])'
    <2>1. PICK y \in RecapRequest : y = req'[s]
        OBVIOUS
    <2>2. CASE y.pc = "deleted" /\ y.done = {}
        <3>1. RequestWell(y)'
            BY <2>2
            DEF RequestWell, StagesNew, UploadsOwn, CleansDead, Dequeues, PublishesOwn,
                EvictsOverflow, EvictsFiles, Publishing, Staging
        <3> QED BY <2>1, <3>1
    <2>3. CASE y = req[s]
        <3>1. /\ StagesNew(y) /\ UploadsOwn(y) /\ CleansDead(y) /\ Dequeues(y)
              /\ PublishesOwn(y) /\ EvictsOverflow(y) /\ EvictsFiles(y)
            BY <2>3, RecapParts
        <3>2. /\ y.pc = "upload" \/ y.pc \in Publishing => y.recap # r \/ Locked(r)
              /\ y.files \in SUBSET Files
            BY <2>3, RequestParts DEF Locked, Holding
        <3>3. StagesNew(y)'
            BY <3>1 DEF StagesNew
        <3>4. UploadsOwn(y)'
            <4>1. ASSUME y.pc = "upload"
                  PROVE  photo'[y.photo] = "none" /\ Active(y.recap)'
                <5>1. /\ y.photo \in Photos /\ photo[y.photo] = "none" /\ Active(y.recap)
                      /\ y.recap \in RecapIds
                    BY <3>1, <4>1, PhotoParts DEF UploadsOwn
                <5>2. photo'[y.photo] = "none"
                    BY <5>1
                <5> QED BY <3>2, <4>1, <5>1, <5>2 DEF Active
            <4> QED BY <3>1, <4>1 DEF UploadsOwn, FilesOf
        <3>5. CleansDead(y)'
            <4>1. \A p \in Photos : Dead(p) => Dead(p)'
                BY PhotoParts DEF Dead
            <4>2. \A f \in owned : f.photo \in Photos
                BY <1>1, RecapRows, PhotoParts
            <4> QED BY <3>1, <4>1, <4>2 DEF CleansDead
        <3>6. Dequeues(y)'
            <4>1. ASSUME NEW f \in owned, recap[f.photo[1]].st = "evicted"
                  PROVE  recap'[f.photo[1]].st = "evicted"
                BY <1>1, <4>1, RecapRows, PhotoParts
            <4> QED BY <3>1, <4>1 DEF Dequeues
        <3>7. PublishesOwn(y)'
            <4>1. ASSUME y.pc \in Publishing
                  PROVE  Active(y.recap)' /\ Live(y.recap)' # {}
                <5>1. y.recap \in RecapIds /\ Active(y.recap) /\ Live(y.recap) # {}
                    BY <3>1, <4>1 DEF PublishesOwn
                <5>2. CASE y.recap = r
                    BY <3>2, <4>1, <5>1, <5>2 DEF Live
                <5>3. CASE y.recap # r
                    BY <1>6, <5>1, <5>3 DEF Active
                <5> QED BY <5>2, <5>3
            <4> QED BY <3>1, <4>1 DEF PublishesOwn
        <3>8. EvictsOverflow(y)'
            <4>1. ASSUME y.pc = "evicted"
                  PROVE  Cardinality(Remaining(y)') <= Limit
                <5>1. y.recap \in RecapIds /\ Cardinality(Remaining(y)) <= Limit
                    BY <3>1, <4>1 DEF PublishesOwn, Publishing, EvictsOverflow
                <5>2. Remaining(y) \in SUBSET RecapIds /\ Remaining(y)' \in SUBSET Remaining(y)
                    BY <1>5, <5>1 DEF Remaining
                <5> QED BY <5>1, <5>2, FewerWithinLimit
            <4>2. ASSUME y.pc = "evicting"
                  PROVE  Published' \cup {y.recap} \subseteq y.rows
                BY <1>5, <3>1, <4>2 DEF EvictsOverflow
            <4> QED BY <3>1, <4>1, <4>2 DEF EvictsOverflow
        <3>9. EvictsFiles(y)'
            BY <3>1 DEF EvictsFiles
        <3> QED BY <2>1, <3>3, <3>4, <3>5, <3>6, <3>7, <3>8, <3>9 DEF RequestWell
    <2> QED BY <2>1, <2>2, <2>3
<1>10. RequestsWell'
    BY <1>9 DEF RequestsWell
<1> QED BY <1>2, <1>3, <1>4, <1>7, <1>8, <1>10 DEF RecapInv

LEMMA CreateRecapInv ==
    ASSUME RecapInv, NEW r \in RecapIds, CreateRecap(r)
    PROVE  RecapInv'
<1>1. PICK row \in [st : Statuses \cup {"none", "deleted", "evicted"}, first : Nat] :
         row = recap[r]
    BY RecapParts, RecapRows
<1>2. PICK new : new = [row EXCEPT !.st = "DRAFT"]
    OBVIOUS
<1>3. /\ new \in [st : Statuses \cup {"none", "deleted", "evicted"}, first : Nat]
      /\ new.st = "DRAFT"
    BY <1>2 DEF Statuses
<1>4. /\ row.st = "none" /\ recap' = [recap EXCEPT ![r] = new]
      /\ UNCHANGED <<photo, image, queue, store, req, owned>>
    BY <1>1, <1>2, RecapParts DEF CreateRecap, RecapTyped
<1>5. /\ recap \in [RecapIds ->
                      [st : Statuses \cup {"none", "deleted", "evicted"}, first : Nat]]
      /\ photo \in [Photos -> {"none", "live", "deleted"}]
      /\ req \in [Requests -> RecapRequest] /\ RequestsExclude
    BY DEF RecapInv, RecapTyped
<1>6. /\ recap' \in [RecapIds ->
                       [st : Statuses \cup {"none", "deleted", "evicted"}, first : Nat]]
      /\ \A s \in RecapIds \ {r} : recap'[s] = recap[s]
      /\ recap'[r].st = "DRAFT"
    BY <1>3, <1>4, <1>5
<1>7. Active(r)'
    BY <1>6 DEF Active, Statuses
<1>8. RequestsExclude'
    BY <1>4, <1>5 DEF RequestsExclude, LocksApart, HoldsRow, OnePublishes, StagedApart
<1>9. recap[r].st = "none"
    BY <1>1, <1>4
<1> QED BY <1>4, <1>5, <1>6, <1>7, <1>8, <1>9, RowStep

LEMMA UnpublishInv ==
    ASSUME RecapInv, NEW r \in RecapIds, NEW st \in Statuses, Unpublish(r, st)
    PROVE  RecapInv'
<1>1. PICK row \in [st : Statuses \cup {"none", "deleted", "evicted"}, first : Nat] :
         row = recap[r]
    BY RecapParts, RecapRows
<1>2. PICK new : new = [row EXCEPT !.st = st]
    OBVIOUS
<1>3. /\ new \in [st : Statuses \cup {"none", "deleted", "evicted"}, first : Nat]
      /\ new.st = st
    BY <1>2
<1>4. /\ row.st \in Statuses /\ recap' = [recap EXCEPT ![r] = new]
      /\ ~Locked(r) /\ st # "PUBLISHED"
      /\ UNCHANGED <<photo, image, queue, store, req, owned>>
    BY <1>1, <1>2, RecapParts DEF Unpublish, RecapTyped, Active
<1>5. /\ recap \in [RecapIds ->
                      [st : Statuses \cup {"none", "deleted", "evicted"}, first : Nat]]
      /\ photo \in [Photos -> {"none", "live", "deleted"}]
      /\ req \in [Requests -> RecapRequest] /\ RequestsExclude
    BY DEF RecapInv, RecapTyped
<1>6. /\ recap' \in [RecapIds ->
                       [st : Statuses \cup {"none", "deleted", "evicted"}, first : Nat]]
      /\ \A s \in RecapIds \ {r} : recap'[s] = recap[s]
      /\ recap'[r].st = st
    BY <1>3, <1>4, <1>5
<1>7. Active(r)'
    BY <1>6 DEF Active
<1>8. RequestsExclude'
    BY <1>4, <1>5 DEF RequestsExclude, LocksApart, HoldsRow, OnePublishes, StagedApart
<1>9. recap[r].st \notin {"deleted", "evicted"}
    BY <1>1, <1>4 DEF Statuses
<1> QED BY <1>4, <1>5, <1>6, <1>7, <1>8, <1>9, RowStep

\* What a deletion leaves to do; it locks nothing.
LEMMA DeletionRequest ==
    ASSUME RecapInv, NEW q \in Requests, NEW r \in RecapIds,
           req' = [req EXCEPT ![q] = [NoRequest EXCEPT !.pc = "deleted", !.recap = r]]
    PROVE  /\ req' \in [Requests -> RecapRequest]
           /\ \A p \in Requests : \/ req'[p] = req[p]
                                  \/ req'[p].pc = "deleted" /\ req'[p].done = {}
           /\ RequestsExclude'
<1>1. PICK z : z = [NoRequest EXCEPT !.pc = "deleted", !.recap = r]
    OBVIOUS
<1>2. z \in RecapRequest /\ z.pc = "deleted" /\ z.done = {}
    BY <1>1 DEF NoRequest, RecapRequest
<1>3. req \in [Requests -> RecapRequest] /\ RequestsExclude
    BY DEF RecapInv, RecapTyped
<1>4. req' = [req EXCEPT ![q] = z]
    BY <1>1
<1>5. /\ \A s \in RecapIds : ~HoldsRow(z, s)
      /\ z.pc \notin Publishing /\ z.pc \notin Staging
    BY <1>2 DEF HoldsRow, Holding, Publishing, Staging
<1>6. RequestsExclude'
    BY <1>3, <1>4, <1>5, ExcludeStep
<1>7. req'[q] = z /\ \A p \in Requests \ {q} : req'[p] = req[p]
    BY <1>3, <1>4
<1>8. req' \in [Requests -> RecapRequest]
    BY <1>2, <1>3, <1>4
<1> QED BY <1>2, <1>6, <1>7, <1>8

LEMMA DeletePhotoInv ==
    ASSUME RecapInv, NEW q \in Requests, NEW p \in Photos, DeletePhoto(q, p)
    PROVE  RecapInv'
<1>1. PICK r \in RecapIds : r = p[1]
    BY PhotoParts
<1>2. /\ Active(r) /\ ~Locked(r) /\ photo[p] = "live"
      /\ recap[r].st = "PUBLISHED" => Live(r) # {p}
      /\ photo' = [photo EXCEPT ![p] = "deleted"]
      /\ req' = [req EXCEPT ![q] = [NoRequest EXCEPT !.pc = "deleted", !.recap = r]]
      /\ UNCHANGED <<recap, image, queue, store, owned>>
    BY <1>1 DEF DeletePhoto, Live
<1>3. /\ recap \in [RecapIds ->
                      [st : Statuses \cup {"none", "deleted", "evicted"}, first : Nat]]
      /\ photo \in [Photos -> {"none", "live", "deleted"}]
    BY RecapParts DEF RecapTyped
<1>4. /\ photo' \in [Photos -> {"none", "live", "deleted"}]
      /\ \A s \in Photos : \/ photo'[s] = photo[s]
                           \/ s[1] = r /\ photo[s] = "live" /\ photo'[s] = "deleted"
    BY <1>1, <1>2, <1>3
<1>5. recap[r].st \notin {"deleted", "evicted"} /\ Active(r)'
    BY <1>2 DEF Active, Statuses
<1>6. ASSUME recap'[r].st = "PUBLISHED" PROVE Live(r)' # {}
    <2>1. PICK s \in Live(r) : s # p
        BY <1>1, <1>2, <1>6 DEF Live
    <2>2. s \in Photos /\ s[1] = r /\ photo'[s] = "live"
        BY <1>2, <1>3, <2>1 DEF Live
    <2> QED BY <2>2 DEF Live
<1>7. /\ req' \in [Requests -> RecapRequest]
      /\ \A s \in Requests : \/ req'[s] = req[s]
                             \/ req'[s].pc = "deleted" /\ req'[s].done = {}
      /\ RequestsExclude'
    BY <1>2, DeletionRequest
<1>8. recap'[r].st = "PUBLISHED" => recap[r].st = "PUBLISHED" /\ Live(r)' # {}
    BY <1>2, <1>6
<1> QED BY <1>2, <1>3, <1>4, <1>5, <1>7, <1>8, RowStep

LEMMA DeleteRecapInv ==
    ASSUME RecapInv, NEW q \in Requests, NEW r \in RecapIds, DeleteRecap(q, r)
    PROVE  RecapInv'
<1>1. PICK row \in [st : Statuses \cup {"none", "deleted", "evicted"}, first : Nat] :
         row = recap[r]
    BY RecapParts, RecapRows
<1>2. PICK new : new = [row EXCEPT !.st = "deleted"]
    OBVIOUS
<1>3. /\ new \in [st : Statuses \cup {"none", "deleted", "evicted"}, first : Nat]
      /\ new.st = "deleted"
    BY <1>2
<1>4. /\ row.st \in Statuses /\ ~Locked(r) /\ recap' = [recap EXCEPT ![r] = new]
      /\ photo' = [p \in Photos |-> IF p \in Live(r) THEN "deleted" ELSE photo[p]]
      /\ req' = [req EXCEPT ![q] = [NoRequest EXCEPT !.pc = "deleted", !.recap = r]]
      /\ UNCHANGED <<image, queue, store, owned>>
    BY <1>1, <1>2, RecapParts DEF DeleteRecap, RecapTyped, Active
<1>5. /\ recap \in [RecapIds ->
                      [st : Statuses \cup {"none", "deleted", "evicted"}, first : Nat]]
      /\ photo \in [Photos -> {"none", "live", "deleted"}]
    BY RecapParts DEF RecapTyped
<1>6. /\ recap' \in [RecapIds ->
                       [st : Statuses \cup {"none", "deleted", "evicted"}, first : Nat]]
      /\ \A s \in RecapIds \ {r} : recap'[s] = recap[s]
      /\ recap'[r].st = "deleted"
    BY <1>3, <1>4, <1>5
<1>7. /\ photo' \in [Photos -> {"none", "live", "deleted"}]
      /\ \A s \in Photos : \/ photo'[s] = photo[s]
                           \/ s[1] = r /\ photo[s] = "live" /\ photo'[s] = "deleted"
      /\ \A s \in Photos : s[1] = r => photo'[s] # "live"
    BY <1>4, <1>5 DEF Live
<1>8. recap[r].st \notin {"deleted", "evicted"} /\ recap'[r].st # "PUBLISHED"
    BY <1>1, <1>4, <1>6 DEF Statuses
<1>9. /\ req' \in [Requests -> RecapRequest]
      /\ \A s \in Requests : \/ req'[s] = req[s]
                             \/ req'[s].pc = "deleted" /\ req'[s].done = {}
      /\ RequestsExclude'
    BY <1>4, DeletionRequest
<1> QED BY <1>4, <1>6, <1>7, <1>8, <1>9, RowStep

LEMMA PublishCommitInv ==
    ASSUME RecapInv, NEW q \in Requests, PublishCommit(q)
    PROVE  RecapInv'
<1>1. PICK r \in RecapRequest : r = req[q]
    BY RecapParts
<1>2. /\ r.pc = "evicted" /\ r.pc \in Publishing /\ r.pc \in Holding
      /\ PublishesOwn(r) /\ EvictsOverflow(r) /\ EvictsFiles(r)
    BY <1>1, RecapParts DEF PublishCommit, Publishing, Holding
<1>3. PICK own \in RecapIds :
         own = r.recap /\ recap[own].st \in Statuses /\ Live(own) # {}
    BY <1>2 DEF PublishesOwn, Active
<1>4. PICK gone \in SUBSET RecapIds : gone = r.done /\ gone \subseteq r.rows
    BY <1>2 DEF EvictsOverflow, RecapRequest
<1>5. PICK files \in SUBSET owned :
         /\ files = r.files
         /\ \A f \in files : f.photo[1] \in gone
         /\ \A f \in image : f.photo[1] \in gone => f \in files
    BY <1>2, <1>4 DEF EvictsFiles
<1>6. Cardinality((Published \cup {own}) \ gone) <= Limit
    BY <1>2, <1>3, <1>4 DEF EvictsOverflow, Remaining
<1>7. /\ recap' = [s \in RecapIds |->
           [first |-> IF s = own THEN FirstOf(s) ELSE recap[s].first,
            st |-> IF s \in gone THEN "evicted"
                   ELSE IF s = own THEN "PUBLISHED" ELSE recap[s].st]]
      /\ photo' = [p \in Photos |-> IF p[1] \in gone THEN "none" ELSE photo[p]]
      /\ image' = image \ files /\ queue' = queue \cup files
      /\ req' = [req EXCEPT ![q].pc = "dequeue", ![q].done = {}, ![q].rows = {}]
      /\ UNCHANGED <<store, owned>>
    BY <1>1, <1>3, <1>4, <1>5 DEF PublishCommit, Queued
<1>8. /\ RecapTyped /\ RequestsExclude /\ FilesKept /\ LiveWhole /\ PublishedShown
      /\ photo \in [Photos -> {"none", "live", "deleted"}]
      /\ req \in [Requests -> RecapRequest]
    BY DEF RecapInv, RecapTyped
<1>9. PICK z : z = [r EXCEPT !.pc = "dequeue", !.done = {}, !.rows = {}]
    OBVIOUS
<1>10. z \in RecapRequest /\ z.pc = "dequeue" /\ z.files = files /\ z.done = {}
    BY <1>5, <1>9 DEF RecapRequest
<1>11. req' = [req EXCEPT ![q] = z]
    BY <1>1, <1>7, <1>8, <1>9
<1>12. /\ req' \in [Requests -> RecapRequest] /\ req'[q] = z
       /\ \A s \in Requests \ {q} : req'[s] = req[s]
    BY <1>8, <1>10, <1>11
<1>13. \A s \in RecapIds :
         /\ recap'[s].st \in Statuses \cup {"none", "deleted", "evicted"}
         /\ recap'[s].first \in Nat
         /\ s \in gone => recap'[s].st = "evicted"
         /\ s = own /\ s \notin gone => recap'[s].st = "PUBLISHED"
         /\ s # own /\ s \notin gone => recap'[s].st = recap[s].st
    BY <1>7, <1>8, FirstIsNumber, RecapRows DEF Statuses
<1>14. recap' \in [RecapIds ->
                     [st : Statuses \cup {"none", "deleted", "evicted"}, first : Nat]]
    <2>1. \A s \in RecapIds :
            /\ (IF s = own THEN FirstOf(s) ELSE recap[s].first) \in Nat
            /\ (IF s \in gone THEN "evicted"
                ELSE IF s = own THEN "PUBLISHED" ELSE recap[s].st)
                 \in Statuses \cup {"none", "deleted", "evicted"}
        BY <1>8, FirstIsNumber, RecapRows DEF Statuses
    <2> QED BY <1>7, <2>1
<1>15. \A s \in RecapIds : recap[s].st = "evicted" => recap'[s].st = "evicted"
    BY <1>3, <1>13 DEF Statuses
<1>16. \A p \in Photos : /\ p[1] \in RecapIds
                         /\ p[1] \in gone => photo'[p] = "none"
                         /\ p[1] \notin gone => photo'[p] = photo[p]
    BY <1>7, PhotoParts
<1>17. RecapTyped'
    <2>1. photo' \in [Photos -> {"none", "live", "deleted"}]
        BY <1>7, <1>8
    <2>2. image' \subseteq owned' /\ queue' \subseteq owned' /\ owned' \subseteq Files
        BY <1>5, <1>7, <1>8 DEF RecapTyped
    <2> QED BY <1>7, <1>8, <1>12, <1>14, <2>1, <2>2 DEF RecapTyped
<1>18. RequestsExclude'
    <2>1. \A s \in RecapIds : ~HoldsRow(z, s)
        BY <1>10 DEF HoldsRow, Holding, Publishing
    <2>2. z.pc \notin Publishing /\ z.pc \notin Staging
        BY <1>10 DEF Publishing, Staging
    <2> QED BY <1>8, <1>11, <2>1, <2>2, ExcludeStep
<1>19. FilesKept'
    <2>1. \A f \in owned : store[f] = "stored" => f \in image' \cup queue'
        BY <1>7, <1>8 DEF FilesKept
    <2>2. ASSUME NEW f \in image'
          PROVE  photo'[f.photo] \in {"live", "deleted"}
        <3>1. f \in image /\ f.photo \in Photos /\ f.photo[1] \notin gone
            BY <1>5, <1>7, <1>8, <2>2, RecapRows, PhotoParts
        <3> QED BY <1>8, <1>16, <3>1 DEF FilesKept
    <2>3. ASSUME NEW f \in queue'
          PROVE  recap'[f.photo[1]].st = "evicted"
        <3>1. CASE f \in queue
            BY <1>8, <1>15, <3>1, RecapRows, PhotoParts DEF FilesKept
        <3>2. CASE f \in files
            BY <1>5, <1>13, <3>2
        <3> QED BY <1>7, <2>3, <3>1, <3>2
    <2> QED BY <1>7, <1>8, <2>1, <2>2, <2>3 DEF FilesKept
<1>20. LiveWhole'
    <2>1. ASSUME NEW p \in Photos, photo'[p] = "live"
          PROVE  Active(p[1])' /\ \E n \in 1..MaxTries : Whole(p, n)'
        <3>1. p[1] \notin gone /\ photo[p] = "live" /\ p[1] \in RecapIds
            BY <1>16, <2>1
        <3>2. PICK n \in 1..MaxTries : Whole(p, n) /\ Active(p[1])
            BY <1>8, <3>1 DEF LiveWhole
        <3>3. \A f \in files : f.photo # p
            BY <1>5, <3>1
        <3>4. \A f \in FilesOf(p, n) : f.photo = p
            BY DEF FilesOf
        <3>5. Whole(p, n)'
            BY <1>7, <3>2, <3>3, <3>4 DEF Whole
        <3>6. Active(p[1])'
            BY <1>13, <3>1, <3>2 DEF Active, Statuses
        <3> QED BY <3>5, <3>6
    <2> QED BY <2>1 DEF LiveWhole
<1>21. \A s \in RecapIds \ gone : Live(s)' = Live(s)
    BY <1>16 DEF Live
<1>22. Published' = (Published \cup {own}) \ gone
    <2>1. \A s \in RecapIds :
            recap'[s].st = "PUBLISHED" <=>
              s \notin gone /\ (s = own \/ recap[s].st = "PUBLISHED")
        BY <1>13
    <2> QED BY <2>1 DEF Published
<1>23. PublishedShown' /\ NineAtMost'
    <2>1. ASSUME NEW s \in Published' PROVE Live(s)' # {}
        <3>1. s \in RecapIds \ gone /\ (s = own \/ s \in Published)
            BY <1>22 DEF Published
        <3> QED BY <1>3, <1>8, <1>21, <3>1 DEF PublishedShown
    <2> QED BY <1>6, <1>22, <2>1 DEF PublishedShown, NineAtMost
<1>24. ASSUME NEW s \in Requests \ {q}
       PROVE  RequestWell(req[s])'
    <2>1. PICK y \in RecapRequest : y = req[s] /\ y = req'[s]
        BY <1>8, <1>12
    <2>2. /\ StagesNew(y) /\ UploadsOwn(y) /\ CleansDead(y) /\ Dequeues(y)
        BY <2>1, RecapParts
    <2>3. y.pc \notin Publishing
        BY <1>1, <1>2, <2>1, RecapParts DEF OnePublishes
    <2>4. PublishesOwn(y)' /\ EvictsOverflow(y)' /\ EvictsFiles(y)'
        BY <2>3 DEF PublishesOwn, EvictsOverflow, EvictsFiles, Publishing
    <2>5. StagesNew(y)'
        BY <1>7, <2>2 DEF StagesNew
    <2>6. UploadsOwn(y)'
        <3>1. ASSUME y.pc = "upload"
              PROVE  photo'[y.photo] = "none" /\ Active(y.recap)'
            <4>1. /\ y.photo \in Photos /\ y.photo[1] = y.recap /\ y.recap \in RecapIds
                  /\ photo[y.photo] = "none" /\ Active(y.recap)
                BY <2>2, <3>1, PhotoParts DEF UploadsOwn
            <4>2. HoldsRow(y, y.recap)
                BY <3>1 DEF HoldsRow, Holding
            <4>3. ~HoldsRow(r, y.recap)
                BY <1>1, <2>1, <4>1, <4>2, RecapParts DEF LocksApart
            <4>4. y.recap \notin gone /\ y.recap # own
                BY <1>2, <1>3, <1>4, <4>3 DEF HoldsRow
            <4> QED BY <1>13, <1>16, <4>1, <4>4 DEF Active
        <3> QED BY <1>7, <2>2, <3>1 DEF UploadsOwn, FilesOf
    <2>7. CleansDead(y)'
        <3>1. \A p \in Photos : Dead(p) => Dead(p)'
            BY <1>3, <1>13, <1>16 DEF Dead, Statuses
        <3>2. \A f \in owned : f.photo \in Photos
            BY <1>8, RecapRows, PhotoParts
        <3> QED BY <1>7, <2>2, <3>1, <3>2 DEF CleansDead
    <2>8. Dequeues(y)'
        <3>1. \A f \in owned : f.photo[1] \in RecapIds
            BY <1>8, RecapRows, PhotoParts
        <3> QED BY <1>7, <1>15, <2>2, <3>1 DEF Dequeues
    <2> QED BY <2>1, <2>4, <2>5, <2>6, <2>7, <2>8 DEF RequestWell
<1>25. RequestWell(z)'
    <2>1. Dequeues(z)'
        BY <1>5, <1>7, <1>10, <1>13 DEF Dequeues
    <2> QED
        BY <1>10, <2>1
        DEF RequestWell, StagesNew, UploadsOwn, CleansDead, PublishesOwn, EvictsOverflow,
            EvictsFiles, Publishing, Staging
<1>26. RequestsWell'
    BY <1>12, <1>24, <1>25 DEF RequestsWell
<1> QED BY <1>17, <1>18, <1>19, <1>20, <1>23, <1>26 DEF RecapInv

LEMMA RecapNext ==
    ASSUME RecapInv, Next \/ UNCHANGED recapVars
    PROVE  RecapInv'
<1>1. CASE \E r \in RecapIds : CreateRecap(r) \/ \E st \in Statuses : Unpublish(r, st)
    BY <1>1, CreateRecapInv, UnpublishInv
<1>2. CASE \E q \in Requests :
             \/ UploadVariant(q) \/ UploadCommit(q) \/ UploadUncertain(q) \/ UploadFails(q)
             \/ Compensate(q)
    BY <1>2, UploadVariantInv, UploadEndInv, UploadFailsInv, CompensateInv
<1>3. CASE \E q \in Requests : CleanupRead(q) \/ CleanPhoto(q) \/ CleanCommit(q)
    BY <1>3, CleanupReadInv, CleanPhotoInv, CleanCommitInv
<1>4. CASE \E q \in Requests :
             \/ EvictRead(q) \/ EvictLock(q) \/ PublishCommit(q) \/ Dequeue(q) \/ Crash(q)
    BY <1>4, EvictReadInv, EvictLockInv, PublishCommitInv, DequeueInv, CrashRecapInv
<1>5. CASE \E q \in Requests, p \in Photos : UploadBegin(q, p) \/ DeletePhoto(q, p)
    BY <1>5, UploadBeginInv, DeletePhotoInv
<1>6. CASE \E q \in Requests, r \in RecapIds :
             DeleteRecap(q, r) \/ RetryCleanup(q, r) \/ PublishBegin(q, r)
    BY <1>6, DeleteRecapInv, RetryCleanupInv, PublishBeginInv
<1>7. CASE UNCHANGED recapVars
    <2>1. UNCHANGED <<recap, photo, image, queue, store, owned, req>>
        BY <1>7 DEF recapVars, vars
    <2>2. RecapTyped /\ RequestsExclude /\ \A q \in Requests : RequestWell(req[q])
        BY DEF RecapInv, RequestsWell
    <2>3. RecapTyped' /\ RequestsWell'
        BY <2>1, <2>2, RowsSame DEF RecapTyped, RequestsWell
    <2>4. RequestsExclude'
        BY <2>1, <2>2 DEF RequestsExclude, LocksApart, HoldsRow, OnePublishes, StagedApart
    <2> QED BY <2>1, <2>3, <2>4, RowsSame DEF RecapInv
<1> QED BY <1>1, <1>2, <1>3, <1>4, <1>5, <1>6, <1>7 DEF Next

\* The two files of an attempt.
LEMMA TwoFiles ==
    ASSUME NEW p \in Photos, NEW n \in 1..MaxTries
    PROVE  /\ Cardinality(FilesOf(p, n)) = 2
           /\ \A v \in Variants : \E f \in FilesOf(p, n) : f.variant = v
<1>1. PICK d \in Files : d = [photo |-> p, try |-> n, variant |-> "display"]
    BY DEF Files, Variants
<1>2. PICK t \in Files : t = [photo |-> p, try |-> n, variant |-> "thumbnail"]
    BY DEF Files, Variants
<1>3. /\ d.photo = p /\ d.try = n /\ d.variant = "display"
      /\ t.photo = p /\ t.try = n /\ t.variant = "thumbnail" /\ d # t
    BY <1>1, <1>2
<1>4. ASSUME NEW f \in FilesOf(p, n) PROVE f \in {d, t}
    <2>1. f \in Files /\ f.photo = p /\ f.try = n /\ f.variant \in {"display", "thumbnail"}
        BY PhotoParts DEF FilesOf, Variants
    <2>2. f = [photo |-> p, try |-> n, variant |-> f.variant]
        BY <2>1 DEF Files
    <2> QED BY <1>1, <1>2, <2>1, <2>2
<1>5. FilesOf(p, n) = {d} \cup {t}
    BY <1>3, <1>4 DEF FilesOf
<1>6. /\ IsFiniteSet({d}) /\ Cardinality({d}) = 1 /\ t \notin {d}
    BY <1>3, FS_Singleton
<1>7. Cardinality({d} \cup {t}) = 2
    <2>1. PICK S : S = {d}
        OBVIOUS
    <2>2. IsFiniteSet(S) /\ Cardinality(S) = 1 /\ t \notin S
        BY <1>6, <2>1
    <2>3. Cardinality(S \cup {t}) = Cardinality(S) + 1
        BY <2>2, FS_AddElement
    <2> QED BY <2>1, <2>2, <2>3
<1> QED BY <1>3, <1>5, <1>7 DEF Variants

LEMMA WholeIsServed == RecapInv => PhotosHaveFiles
<1> SUFFICES ASSUME RecapInv PROVE PhotosHaveFiles
    OBVIOUS
<1>1. ASSUME NEW p \in Photos, photo[p] = "live"
      PROVE  /\ Cardinality({f \in image : f.photo = p}) = 2
             /\ {f \in image : f.photo = p} \subseteq Stored
             /\ p \in ShownPhotos(p[1])
             /\ \A v \in Variants : \E f \in image : f.photo = p /\ f.variant = v
    <2>1. PICK n \in 1..MaxTries : Whole(p, n)
        BY <1>1, RecapParts DEF LiveWhole
    <2>2. {f \in image : f.photo = p} = FilesOf(p, n)
        BY <2>1 DEF Whole
    <2>3. FilesOf(p, n) \subseteq Stored
        BY <2>1 DEF Whole, Stored, FilesOf
    <2>4. \A v \in Variants : \E f \in image : f.photo = p /\ f.variant = v
        BY <2>2, TwoFiles
    <2>5. p \in ShownPhotos(p[1])
        BY <1>1, <2>4 DEF ShownPhotos, Live, Variants
    <2>6. Cardinality(FilesOf(p, n)) = 2
        BY TwoFiles
    <2>7. Cardinality({f \in image : f.photo = p}) = 2
        BY <2>2, <2>6
    <2> QED BY <2>2, <2>3, <2>4, <2>5, <2>7
<1>2. ASSUME NEW r \in Published
      PROVE  /\ r \in RecapList(FALSE).items /\ r \in RecapList(FALSE).mosaic
             /\ ShownPhotos(r) # {}
             /\ \A p \in ShownPhotos(r), v \in Variants : MediaUrl(FALSE, p, v) # {}
    <2>1. PICK p \in Live(r) : p \in Photos /\ photo[p] = "live" /\ p[1] = r
        BY RecapParts DEF PublishedShown, Live
    <2>2. RecapList(FALSE).items = Published
        BY DEF RecapList
    <2>3. r \in RecapList(FALSE).mosaic
        BY <2>1 DEF RecapList
    <2>4. ShownPhotos(r) # {}
        BY <1>1, <2>1
    <2>5. ASSUME NEW s \in ShownPhotos(r), NEW v \in Variants
          PROVE  MediaUrl(FALSE, s, v) # {}
        <3>1. s \in Photos /\ photo[s] = "live" /\ s[1] = r
            BY DEF ShownPhotos, Live
        <3>2. PICK f \in image : f.photo = s /\ f.variant = v
            BY ZenonT(40), <1>1, <3>1
        <3>3. f \in MediaUrl(FALSE, s, v)
            BY <2>2, <3>1, <3>2 DEF MediaUrl
        <3> QED BY <3>3
    <2> QED BY <2>2, <2>3, <2>4, <2>5
<1>3. RecapList(FALSE).items = Published
    BY DEF RecapList
<1> QED BY <1>1, <1>2, <1>3 DEF PhotosHaveFiles

LEMMA KeptIsTracked == RecapInv => FilesAreTracked
<1> SUFFICES ASSUME RecapInv, NEW f \in owned \cap Stored
             PROVE  \/ f \in image /\ photo[f.photo] = "live"
                    \/ f.photo[1] \in RecapList(TRUE).pendingCleanup
    BY DEF FilesAreTracked
<1>1. /\ f \in Files /\ store[f] = "stored" /\ f.photo[1] \in RecapIds
      /\ f \in image \cup queue
    BY RecapParts, RecapRows, PhotoParts DEF Stored, FilesKept
<1>2. RecapList(TRUE).pendingCleanup
        = {r \in RecapIds : DeletedImages(r) # {} \/ QueueOf(r) # {}}
    BY DEF RecapList
<1>3. CASE f \in queue
    BY <1>1, <1>2, <1>3 DEF QueueOf
<1>4. CASE f \in image
    <2>1. photo[f.photo] \in {"live", "deleted"}
        BY <1>4, RecapParts DEF FilesKept
    <2>2. photo[f.photo] = "deleted" => f \in DeletedImages(f.photo[1])
        BY <1>4 DEF DeletedImages, ImagesOf
    <2> QED BY <1>1, <1>2, <1>4, <2>1, <2>2
<1> QED BY <1>1, <1>3, <1>4

------------------------------------------------------------------------------
(* The services together.                                                  *)

ContentInv == ProfileInv /\ AvatarInv /\ EventInv /\ RecapInv

LEMMA ContentInvInit == ContentInit => ContentInv
BY ProfileInit, AvatarInit, EventInit, RecapInit DEF ContentInit, ContentInv

LEMMA ContentInvNext == ContentInv /\ [ContentNext]_contentVars => ContentInv'
<1> SUFFICES ASSUME ContentInv, [ContentNext]_contentVars PROVE ContentInv'
    OBVIOUS
<1>1. ProfileInv /\ AvatarInv /\ EventInv /\ RecapInv
    BY DEF ContentInv
<1>2. Profiles!Next \/ UNCHANGED profileVars
    BY DEF ContentNext, contentVars
<1>3. Avatars!Next \/ UNCHANGED avatarVars
    BY DEF ContentNext, contentVars
<1>4. PublicEvents!Next \/ UNCHANGED eventVars
    BY DEF ContentNext, contentVars
<1>5. Next \/ UNCHANGED recapVars
    BY DEF ContentNext, contentVars
<1> QED
    BY <1>1, <1>2, <1>3, <1>4, <1>5, ProfileNext, AvatarNext, EventNext, RecapNext
    DEF ContentInv

LEMMA ContentInvHolds == ContentSpec => []ContentInv
BY ContentInvInit, ContentInvNext, PTL DEF ContentSpec

\* upload_admin_event_cover, delete_media, delete_event and what they leave to
\* delete, whatever order they come in: every published event is on the list
\* and readable in both languages, it is on the slider unless it has begun or as
\* many published events as the slider holds come before it, and its cover is
\* signed for visitors and stored, but for one whose commit was reported as a
\* failure.
THEOREM PublishedEventsAreShown == ContentSpec => []PublishedIsShown
<1>1. ContentInv => PublishedIsShown
    BY WholeIsShown DEF ContentInv
<1> QED BY <1>1, ContentInvHolds, PTL

\* services/profiles.py and the reconciler of image_storage: the photo a
\* profile points to is stored, unless its commit was reported as a failure,
\* whatever uploads replace each other and whatever the reconciler deletes.
THEOREM AvatarsHaveFiles == ContentSpec => []AvatarHasFile
<1>1. ContentInv => AvatarHasFile
    BY DEF ContentInv, AvatarInv
<1> QED BY <1>1, ContentInvHolds, PTL

\* get_preference_snapshot reads row, selections and catalog without a lock: an
\* answer that carries the row's current version shows its current choices,
\* whatever other clients save, the catalog and the photo change in between.
THEOREM SnapshotsAreCurrent == ContentSpec => []SnapshotIsCurrent
<1>1. ContentInv => SnapshotIsCurrent
    BY CurrentSnapshots DEF ContentInv
<1> QED BY <1>1, ContentInvHolds, PTL

\* The candidate query and the completion rules admit the same students, each
\* counting the stored selections in its own way, and whom they admit fits the
\* bounds of the answers, whatever became of the catalog since the last save.
THEOREM ListAndCheckAgree == ContentSpec => []ListedIffEligible
<1>1. ContentInv => ListedIffEligible
    BY PoliciesAdmitTheSame DEF ContentInv
<1> QED BY <1>1, ContentInvHolds, PTL

\* The row locks of recaps, services/recaps.py: uploads, deletions, retried
\* cleanups, publications and evictions of one recap take turns, publications
\* do so altogether, and no two uploads stage the same files.
THEOREM RecapsTakeTurns == Spec => []RequestsExclude
<1>1. RecapInv /\ [Next]_vars => RecapInv'
    BY RecapNext DEF recapVars
<1>2. RecapInv => RequestsExclude
    BY DEF RecapInv
<1> QED BY <1>1, <1>2, RecapInit, PTL DEF Spec

\* evict_overflow under lock_publication: no more than Limit recaps are ever
\* published, although the published ones are read before their rows are locked.
THEOREM LimitKept == ContentSpec => []NineAtMost
<1>1. ContentInv => NineAtMost
    BY DEF ContentInv, RecapInv
<1> QED BY <1>1, ContentInvHolds, PTL

\* upload_photo, mark_deleted, cleanup_photos and evict_overflow: a photo that
\* is there has both files in Storage and is shown, and a published recap has
\* one to show, for any uploads, retries, lost answers and crashes.
THEOREM PhotosAreWhole == ContentSpec => []PhotosHaveFiles
<1>1. ContentInv => PhotosHaveFiles
    BY WholeIsServed DEF ContentInv
<1> QED BY <1>1, ContentInvHolds, PTL

\* cleanup_photos, cleanup_evicted and recap_media_cleanup: a file that ever
\* had a row and is still stored belongs to a photo or is offered to the
\* administrator for another cleanup.
THEOREM NoFileForgotten == ContentSpec => []FilesAreTracked
<1>1. ContentInv => FilesAreTracked
    BY KeptIsTracked DEF ContentInv
<1> QED BY <1>1, ContentInvHolds, PTL
=============================================================================
