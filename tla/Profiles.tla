------------------------------ MODULE Profiles ------------------------------
(***************************************************************************)
(* The profile of one user: its preferences and its version, edited from   *)
(* several browser tabs.                                                   *)
(*                                                                         *)
(* Every PUT locks the profile row and commits, so it is one step; a GET   *)
(* takes no lock and reads with one statement after another.  A tab keeps  *)
(* the preferences in its query cache and saves with the version it finds  *)
(* there.  The profile is a second query; it may be refetched at any time, *)
(* so that only its current answer makes a difference and is not kept.     *)
(***************************************************************************)
EXTENDS Integers, FiniteSets

CONSTANTS
  Tabs,         \* browser tabs with the editors open or to be opened
  Items,        \* entries of the catalogs
  Keys,         \* normalized keys of labels and of custom preferences
  Limit,        \* MAX_PROFILE_INTEREST_SELECTIONS and its siblings
  MaxVersion    \* bound: the last version of the row

\* The two preference editors: interests with languages, and activities.
Groups == {"interests", "activities"}

VARIABLES
  profile,      \* student_profiles and the preference tables
  avatar,       \* a READY avatar exists in profile_photos
  catalog,      \* interests, languages and activities
  tab           \* the tabs

vars == <<profile, avatar, catalog, tab>>

-----------------------------------------------------------------------------

\* The selection of one group: catalog entries and custom keys.
Choice == [ids : SUBSET Items, custom : SUBSET Keys]

Nothing == [ids |-> {}, custom |-> {}]

Empty == [g \in Groups |-> Nothing]

Snapshot == [version : 0..MaxVersion, chosen : [Groups -> Choice]]

NoSnapshot == [version |-> 0, chosen |-> Empty]

\* A GET of the preferences: what it has read, and what it will read next.
Read == [next : {"none", "custom", "ids", "answer"},
         groups : SUBSET Groups, snapshot : Snapshot]

NoRead == [next |-> "none", groups |-> {}, snapshot |-> NoSnapshot]

\* cache: the preferences query, version 0 while there is no answer.
Tab == [read : Read, cache : Snapshot]

ProfileRow ==
  [exists : BOOLEAN, version : 0..MaxVersion, named : BOOLEAN,
   optIn : BOOLEAN, onboarded : BOOLEAN, chosen : [Groups -> Choice]]

Catalog == [active : SUBSET Items, label : [Items -> Keys]]

TypeOK ==
  /\ profile \in ProfileRow
  /\ avatar \in BOOLEAN
  /\ catalog \in Catalog
  /\ tab \in [Tabs -> Tab]

-----------------------------------------------------------------------------
(* The two policies that decide who may be matched.                        *)

\* The keys that custom preferences are compared with: a label's normalized
\* form, the same for every spelling.
Labels(ids) == {catalog.label[i] : i \in ids}

\* get_profile_completion counts a custom key that a selected catalog entry
\* covers once.
CountedByCompletion(c) ==
  LET selected == c.ids \cap catalog.active
  IN  Cardinality(selected) + Cardinality(c.custom \ Labels(selected))

\* The candidate query adds the rows of the two tables.
CountedByQuery(c) == Cardinality(c.ids \cap catalog.active) + Cardinality(c.custom)

Complete ==
  /\ profile.named /\ avatar
  /\ CountedByCompletion(profile.chosen["interests"]) \in 1..Limit

MatchingEligible == Complete /\ profile.optIn

Listed ==
  /\ profile.named /\ avatar /\ profile.optIn
  /\ CountedByQuery(profile.chosen["interests"]) \in 1..Limit

-----------------------------------------------------------------------------
(* What others see of the profile.                                         *)

\* Withdrawn entries are left out; custom ones stay.
Projected(c) == [ids |-> c.ids \cap catalog.active, custom |-> c.custom]

Size(c) == Cardinality(c.ids) + Cardinality(c.custom)

\* The other side of an invitation, whose profile may have become incomplete.
PublicProfile == [avatar |-> avatar, chosen |-> [g \in Groups |-> Projected(profile.chosen[g])]]

\* SafeInvitationProfile: a longer list is an error of the whole answer.
Presentable == \A g \in Groups : Size(PublicProfile.chosen[g]) <= Limit

\* An invitation is shown without a score when something is missing for one.
Scored == PublicProfile.avatar /\ PublicProfile.chosen["interests"] # Nothing

\* SafeMatchingProfile: here an incomplete profile is an error, too.
Recommendable == Presentable /\ Scored

\* One candidate that cannot be projected fails the recommendations of all.
PoolServed == Listed => Recommendable

\* An accept projects both profiles for its score before it commits.
PairServed == MatchingEligible => Recommendable

-----------------------------------------------------------------------------
(* What the server accepts.                                                *)

\* Mutant: the schema bounds each list and not their sum.
FitsEach(c) == Cardinality(c.ids) <= Limit /\ Cardinality(c.custom) <= Limit

\* The schema bounds the sum of both lists.
Fits(c) == Cardinality(c.ids) + Cardinality(c.custom) <= Limit

\* _prepare_interests and its siblings: active entries only, and no custom
\* key that an active entry has for a label.
Selectable(c) ==
  /\ c.ids \subseteq catalog.active
  /\ c.custom \cap Labels(catalog.active) = {}

Valid(chosen) == \A g \in Groups : Fits(chosen[g]) /\ Selectable(chosen[g])

\* Mutant: the version stays when only custom preferences change.
StoredQuietly(chosen) ==
  [profile EXCEPT !.chosen = chosen,
    !.version = IF \E g \in Groups : chosen[g].ids # profile.chosen[g].ids THEN @ + 1 ELSE @]

\* A replacement that changes nothing keeps the version.
Stored(chosen) ==
  [profile EXCEPT !.chosen = chosen,
                  !.version = IF chosen # profile.chosen THEN @ + 1 ELSE @]

\* replace_own_interests, _languages and _activities replace one group.
StoredGroup(g, c) == Stored([profile.chosen EXCEPT ![g] = c])

RoomForVersion == profile.version < MaxVersion   \* bound

-----------------------------------------------------------------------------
(* Reads.                                                                  *)

Set(t, r) == tab' = [tab EXCEPT ![t] = r]

\* GET /profile/preferences creates the draft when there is none.  A second
\* insert waits for the first and reads its row.
CreateDraft(t) ==
  /\ ~profile.exists /\ tab[t].read.next = "none"
  /\ profile' = [profile EXCEPT !.exists = TRUE, !.version = 1]
  /\ Set(t, [tab[t] EXCEPT !.read =
       [next |-> "answer", groups |-> {}, snapshot |-> [version |-> 1, chosen |-> Empty]]])
  /\ UNCHANGED <<avatar, catalog>>

\* The row is read first, with its version ...
Fetch(t) ==
  /\ profile.exists /\ tab[t].read.next = "none"
  /\ Set(t, [tab[t] EXCEPT !.read =
       [next |-> "custom", groups |-> {},
        snapshot |-> [version |-> profile.version, chosen |-> Empty]]])
  /\ UNCHANGED <<profile, avatar, catalog>>

\* ... then the custom preferences of every group ...
ReadCustom(t) ==
  /\ tab[t].read.next = "custom"
  /\ Set(t, [tab[t] EXCEPT
       !.read.next = "ids", !.read.groups = Groups,
       !.read.snapshot.chosen =
          [g \in Groups |-> [ids |-> {}, custom |-> profile.chosen[g].custom]]])
  /\ UNCHANGED <<profile, avatar, catalog>>

\* ... then the catalog entries of one group after the other.
ReadIds(t, g) ==
  LET rest == tab[t].read.groups \ {g}
  IN  /\ tab[t].read.next = "ids" /\ g \in tab[t].read.groups
      /\ Set(t, [tab[t] EXCEPT
           !.read.next = IF rest = {} THEN "answer" ELSE "ids",
           !.read.groups = rest,
           !.read.snapshot.chosen[g].ids = profile.chosen[g].ids])
      /\ UNCHANGED <<profile, avatar, catalog>>

\* The answer replaces the cached query, whatever a save put there meanwhile.
Arrive(t) ==
  /\ tab[t].read.next = "answer"
  /\ Set(t, [tab[t] EXCEPT !.cache = tab[t].read.snapshot, !.read = NoRead])
  /\ UNCHANGED <<profile, avatar, catalog>>

\* GET /profile/completion stamps the first completion under the row lock.
ReadCompletion ==
  /\ profile.exists /\ Complete /\ ~profile.onboarded
  /\ profile' = [profile EXCEPT !.onboarded = TRUE]
  /\ UNCHANGED <<avatar, catalog, tab>>

-----------------------------------------------------------------------------
(* The editors.                                                            *)

\* What an editor sends: its own group as the user left it, the other group as
\* the cache has it.
Sent(t, g, c) == [tab[t].cache.chosen EXCEPT ![g] = c]

\* An editor saves with the version that the cache has when it submits.
Submits(t, g, c) ==
  /\ tab[t].cache.version > 0
  /\ Fits(c) /\ c # tab[t].cache.chosen[g]

SaveAccepted(t, g, c) ==
  /\ Submits(t, g, c)
  /\ tab[t].cache.version = profile.version
  /\ Valid(Sent(t, g, c))

Save(t, g, c) ==
  /\ RoomForVersion /\ SaveAccepted(t, g, c)
  /\ profile' = Stored(Sent(t, g, c))
  /\ Set(t, [tab[t] EXCEPT
       !.cache = [version |-> profile'.version, chosen |-> profile'.chosen]])
  /\ UNCHANGED <<avatar, catalog>>

\* The answer is lost: the tab shows an error and keeps its cache until the
\* refetch that follows, as after a conflict, which saves nothing.
SaveUnanswered(t, g, c) ==
  /\ RoomForVersion /\ SaveAccepted(t, g, c)
  /\ profile' = Stored(Sent(t, g, c))
  /\ UNCHANGED <<avatar, catalog, tab>>

\* PUT /profile with the current version, from whichever query; the answer also
\* sets the version of the preferences if they are cached, and nothing else of
\* them.  A stale one changes nothing.
SaveProfile(t, named, optIn) ==
  /\ profile.exists /\ RoomForVersion
  /\ profile' = [profile EXCEPT !.named = named, !.optIn = optIn, !.version = @ + 1]
  /\ Set(t, [tab[t] EXCEPT !.cache.version = IF @ > 0 THEN profile'.version ELSE @])
  /\ UNCHANGED <<avatar, catalog>>

-----------------------------------------------------------------------------
(* Other clients of the account and the rest of the server.                *)

\* PUT /profile/interests, /languages or /activities with the right version.
ReplaceGroup(g, c) ==
  /\ profile.exists /\ RoomForVersion
  /\ Fits(c) /\ Selectable(c)
  /\ profile' = StoredGroup(g, c)
  /\ UNCHANGED <<avatar, catalog, tab>>

\* PUT /profile with preferred_activity_ids keeps the custom activities, so
\* that their sum may pass the limit, and always advances the version.
ReplaceActivityIds(ids) ==
  /\ profile.exists /\ RoomForVersion
  /\ Cardinality(ids) <= Limit /\ ids \subseteq catalog.active
  /\ profile' = [profile EXCEPT !.chosen["activities"].ids = ids, !.version = @ + 1]
  /\ UNCHANGED <<avatar, catalog, tab>>

\* Uploading or removing the photo leaves the version alone.
ChangeAvatar ==
  /\ profile.exists
  /\ avatar' = ~avatar
  /\ UNCHANGED <<profile, catalog, tab>>

\* A migration seeds the catalog again with other labels.
Relabel(i, k) ==
  /\ catalog.label[i] # k
  /\ catalog' = [catalog EXCEPT !.label[i] = k]
  /\ UNCHANGED <<profile, avatar, tab>>

\* An entry is withdrawn or offered again; selections of it stay.
Toggle(i) ==
  /\ catalog' = [catalog EXCEPT !.active = IF i \in @ THEN @ \ {i} ELSE @ \cup {i}]
  /\ UNCHANGED <<profile, avatar, tab>>

-----------------------------------------------------------------------------

Init ==
  /\ profile = [exists |-> FALSE, version |-> 0, named |-> FALSE, optIn |-> FALSE,
                onboarded |-> FALSE, chosen |-> Empty]
  /\ avatar = FALSE
  /\ catalog \in [active : {Items}, label : [Items -> Keys]]
  /\ tab = [t \in Tabs |-> [read |-> NoRead, cache |-> NoSnapshot]]

Next ==
  \/ \E t \in Tabs : CreateDraft(t) \/ Fetch(t) \/ ReadCustom(t) \/ Arrive(t)
  \/ \E t \in Tabs, g \in Groups : ReadIds(t, g)
  \/ \E t \in Tabs, g \in Groups, c \in Choice :
       Save(t, g, c) \/ SaveUnanswered(t, g, c)
  \/ \E t \in Tabs, named, optIn \in BOOLEAN : SaveProfile(t, named, optIn)
  \/ ReadCompletion
  \/ \E g \in Groups, c \in Choice : ReplaceGroup(g, c)
  \/ \E ids \in SUBSET Items : ReplaceActivityIds(ids)
  \/ ChangeAvatar
  \/ \E i \in Items, k \in Keys : Relabel(i, k)
  \/ \E i \in Items : Toggle(i)

Spec == Init /\ [][Next]_vars

-----------------------------------------------------------------------------

\* An answer that carries the row's current version shows the row's current
\* preferences, although it was put together without a lock while other
\* clients saved: an unpatched answer is safe to save from.
SnapshotIsCurrent ==
  \A t \in Tabs :
    LET read == tab[t].read
    IN  read.next = "answer" /\ read.snapshot.version = profile.version
        => read.snapshot.chosen = profile.chosen

\* The recommendation query in SQL and the completion rules in Python agree on
\* who may be matched, whatever became of the catalog since the selections
\* were saved: nobody is recommended whom an invitation would refuse, and
\* nobody eligible is missing.  Whoever they admit fits the bounds of the
\* answers, so that no profile fails the recommendations of the others or an
\* accept; the exception are activities beyond the limit, which neither rule
\* counts and only ReplaceActivityIds produces.
ListedIffEligible ==
  profile.exists =>
    /\ Listed <=> MatchingEligible
    /\ Size(PublicProfile.chosen["activities"]) <= Limit => PoolServed /\ PairServed
    /\ Listed => Scored
=============================================================================
