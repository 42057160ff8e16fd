\* The acceptor's type edit races with his own accept.
SPECIFICATION Spec
CONSTANTS
    Users = {1, 2}
    Invitations = {i1}
    Requests = {r1}
    Editors = {1, 2}
    Nobody = Nobody
    NoInvitation = NoInvitation
    MaxPending = 1
    Lifetime = 1
    BatchSize = 1
    MaxTime = 1
INVARIANTS OppositeTypes
CHECK_DEADLOCK FALSE
