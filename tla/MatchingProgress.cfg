\* Liveness: no symmetry, a fair scheduler.
SPECIFICATION FairSpec
CONSTANTS
    Users = {1, 2}
    Invitations = {i1, i2}
    Requests = {r1, r2}
    Editors = {}
    Nobody = Nobody
    NoInvitation = NoInvitation
    MaxPending = 2
    Lifetime = 1
    BatchSize = 1
    MaxTime = 1
PROPERTIES RequestsEnd DueInvitationsClose
CHECK_DEADLOCK FALSE
