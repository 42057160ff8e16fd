\* Three users, so that one sender reaches the pending limit with two others
\* and two pairs share a user row; one of the users also edits their profile.
SPECIFICATION Spec
CONSTANTS
    Users = {1, 2, 3}
    Invitations = {i1, i2}
    Requests = {r1, r2}
    Editors = {1}
    Nobody = Nobody
    NoInvitation = NoInvitation
    MaxPending = 1
    Lifetime = 1
    BatchSize = 1
    MaxTime = 1
SYMMETRY Symmetry
INVARIANTS
  ListsAgree
  NoPendingBesideMatch
  OppositeTypesWhenFresh
  RelationshipComplete
  StampsRespectDeadline
  PendingWithinLimit
PROPERTIES
  ImplementsBuddyRelation
CHECK_DEADLOCK FALSE
