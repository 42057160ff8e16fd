------------------------------- MODULE Content -------------------------------
(***************************************************************************)
(* The services that keep what students and administrators put before      *)
(* others: recaps, events, profile photos and profiles with preferences.   *)
(* All but the last keep rows in PostgreSQL and pictures in Storage        *)
(* without a transaction over both.  The services share no state: a        *)
(* behaviour is one of the service chosen in its first state.  The names   *)
(* of Recaps are used as they are, those of the others by their module.    *)
(***************************************************************************)
EXTENDS Recaps

CONSTANTS
  Events, MaxSlides, Starts, Written, MaxTime,
  CoverIds, Pictures,      \* object keys of covers and of profile photos
  Owners,                \* users with a profile photo
  Tabs, Items, Keys,     \* the profile, its catalog and its normalized keys
  SelectionLimit, MaxVersion,
  NoEvent, Nobody, NoFile

\* Keys are random; as numbers they are used up in order.
ASSUME ContentAssumption ==
  /\ CoverIds \subseteq Nat /\ Pictures \subseteq Nat /\ NoFile \notin CoverIds \cup Pictures
  /\ Events \subseteq Nat /\ IsFiniteSet(Events) /\ NoEvent \notin Events
  /\ MaxSlides \in Nat /\ MaxTime \in Nat /\ Starts \subseteq 0 .. MaxTime
  /\ Written \subseteq {"whole", "partial", "blank"}
  /\ IsFiniteSet(Items) /\ IsFiniteSet(Keys)
  /\ SelectionLimit \in Nat /\ MaxVersion \in Nat \ {0}

VARIABLES
  service,
  event, media, eventStore, eventReq, eventLost,
  avatar, avatarStore, avatarReq, reconciler, avatarLost,
  profile, photoReady, catalog, tab

PublicEvents == INSTANCE PublicEvents WITH
  Files <- CoverIds, store <- eventStore, req <- eventReq, lost <- eventLost

Avatars == INSTANCE Avatars WITH
  Files <- Pictures, store <- avatarStore, req <- avatarReq, lost <- avatarLost

Profiles == INSTANCE Profiles WITH
  Limit <- SelectionLimit, avatar <- photoReady

recapVars == vars
eventVars == <<event, media, eventStore, eventReq, eventLost>>
avatarVars == <<avatar, avatarStore, avatarReq, reconciler, avatarLost>>
profileVars == <<profile, photoReady, catalog, tab>>
contentVars == <<service, recapVars, eventVars, avatarVars, profileVars>>

\* The services share no row: one of them runs, and the others stay in an initial
\* state of theirs, the catalog with one fixed labelling.
ContentInit ==
  /\ service \in {"recaps", "events", "avatars", "profiles"}
  /\ Init /\ PublicEvents!Init /\ Avatars!Init /\ Profiles!Init
  /\ service # "profiles" => \A i \in Items : catalog.label[i] = CHOOSE k \in Keys : TRUE

ContentNext ==
  \/ service = "recaps" /\ Next
     /\ UNCHANGED <<service, eventVars, avatarVars, profileVars>>
  \/ service = "events" /\ PublicEvents!Next
     /\ UNCHANGED <<service, recapVars, avatarVars, profileVars>>
  \/ service = "avatars" /\ Avatars!Next
     /\ UNCHANGED <<service, recapVars, eventVars, profileVars>>
  \/ service = "profiles" /\ Profiles!Next
     /\ UNCHANGED <<service, recapVars, eventVars, avatarVars>>

ContentSpec == ContentInit /\ [][ContentNext]_contentVars

PublishedIsShown == PublicEvents!PublishedIsShown
AvatarHasFile == Avatars!AvatarHasFile
SnapshotIsCurrent == Profiles!SnapshotIsCurrent
ListedIffEligible == Profiles!ListedIffEligible
=============================================================================
