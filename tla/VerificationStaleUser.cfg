\* One user: a resend waits for the commit of an address change.
SPECIFICATION Spec
CONSTANTS
    Users = {ann}
    Addresses = {a1, a2}
    Tokens = {t1, t2}
    Requests = {r1, r2}
    Nobody = Nobody
    NoToken = NoToken
    NoAddress = NoAddress
    Lifetime = 1
    MaxTime = 1
PROPERTY MailGoesToCurrentAddress
CHECK_DEADLOCK FALSE
