\* Two users, three addresses, two concurrent requests of any kind.
SPECIFICATION Spec
CONSTANTS
    Users = {ann, bob}
    Addresses = {a1, a2, a3}
    Tokens = {t1, t2, t3}
    Requests = {r1, r2}
    Nobody = Nobody
    NoToken = NoToken
    NoAddress = NoAddress
    Lifetime = 1
    MaxTime = 1
SYMMETRY Symmetry
INVARIANTS
  ActiveTokenForCurrentAddress
PROPERTIES
  VerifiedByOwnAddress
CHECK_DEADLOCK FALSE
