------------------------- MODULE EmailVerification -------------------------
(***************************************************************************)
(* Verification of a user's email address: requesting a link, changing the *)
(* address, and confirming a link.  Each is one transaction; it is         *)
(* authenticated first, which loads the user row into the session, then    *)
(* waits for the user row's lock, reads and locks the token it is about,   *)
(* and commits.                                                            *)
(***************************************************************************)
EXTENDS Integers, FiniteSets

CONSTANTS
    Users,
    Addresses,
    Tokens,         \* token rows that may be inserted
    Requests,       \* HTTP requests in flight
    Nobody,         \* no user
    NoToken,        \* no token row
    NoAddress,      \* no address
    Lifetime,       \* EMAIL_VERIFICATION_TOKEN_TTL, in ticks
    MaxTime         \* bound: the last tick of the clock

ASSUME NullsAssumption ==
    /\ Nobody \notin Users
    /\ NoToken \notin Tokens
    /\ NoAddress \notin Addresses
ASSUME LifetimeAssumption == Lifetime \in Nat \ {0} /\ MaxTime \in Nat

VARIABLES
    user,       \* users: email and whether email_verified_at is set
    token,      \* email_verification_tokens
    mailed,     \* outbox events: which link goes to which address
    request,    \* the requests in flight
    now

vars == <<user, token, mailed, request, now>>

-----------------------------------------------------------------------------

User == [email : Addresses, verified : BOOLEAN]

TokenRow ==
    [status : {"none", "active", "superseded", "consumed"},
     user : Users \union {Nobody},
     snapshot : Addresses \union {NoAddress},   \* email_snapshot
     expires : 0 .. MaxTime + Lifetime,
     fresh : BOOLEAN]   \* history: issued from a user row that was not stale

NoRow == [status |-> "none", user |-> Nobody, snapshot |-> NoAddress,
          expires |-> 0, fresh |-> TRUE]

Request ==
    [pc : {"idle", "begun", "locked"},
     op : {"request", "change", "confirm"},
     user : Users \union {Nobody},              \* the authenticated user
     seen : [email : Addresses \union {NoAddress}, verified : BOOLEAN],
     target : Addresses \union {NoAddress},     \* change: the new address
     token : Tokens \union {NoToken},           \* the token read under the lock
     candidate : TokenRow]  \* confirm: the row as the unlocked lookup read it

Idle == [pc |-> "idle", op |-> "request", user |-> Nobody,
         seen |-> [email |-> NoAddress, verified |-> FALSE],
         target |-> NoAddress, token |-> NoToken, candidate |-> NoRow]

\* The type of the state; a row exists once it has an owner and an address.
TypeOK ==
    /\ user \in [Users -> User]
    /\ token \in [Tokens -> TokenRow]
    /\ \A t \in Tokens : token[t].status # "none" =>
          token[t].user \in Users /\ token[t].snapshot \in Addresses
    /\ mailed \subseteq [token : Tokens, to : Addresses]
    /\ request \in [Requests -> Request]
    /\ now \in 0 .. MaxTime

Active(u) == {t \in Tokens : token[t].status = "active" /\ token[t].user = u}

\* The user row a request holds from its lock to its commit: the owner of the
\* token it confirms, or its own.
Locks(r) ==
    IF request[r].pc # "locked" THEN {}
    ELSE IF request[r].op = "confirm" THEN {request[r].candidate.user}
    ELSE {request[r].user}

LockFree(u, r) == \A q \in Requests \ {r} : u \notin Locks(q)

End(r) == request' = [request EXCEPT ![r] = Idle]

-----------------------------------------------------------------------------
(* Authentication: the user row enters the identity map of the session.    *)

Begin(r, u, op, target, t) ==
    /\ request[r].pc = "idle"
    /\ request' = [request EXCEPT ![r] =
          [pc |-> "begun", op |-> op, user |-> u, seen |-> user[u],
           target |-> target, token |-> t,
           candidate |-> IF t = NoToken THEN NoRow ELSE token[t]]]
    /\ UNCHANGED <<user, token, mailed, now>>

BeginRequest(r, u) == Begin(r, u, "request", NoAddress, NoToken)

BeginChange(r, u, e) == Begin(r, u, "change", e, NoToken)

\* Someone opens a link that has been mailed; the digest finds its row.
BeginConfirm(r, u, t) ==
    /\ \E link \in mailed : link.token = t
    /\ Begin(r, u, "confirm", NoAddress, t)

-----------------------------------------------------------------------------
(* The lock wait.                                                          *)

\* Request and change look for the user's active token under the lock.  The
\* change reads the user row anew (populate_existing); the request gets the
\* row back as authentication loaded it.
LockForIssue(r) ==
    LET u == request[r].user
        seen == IF request[r].op = "change" THEN user[u] ELSE request[r].seen
    IN  /\ request[r].pc = "begun" /\ request[r].op \in {"request", "change"}
        /\ LockFree(u, r)
        /\ \E t \in IF Active(u) = {} THEN {NoToken} ELSE Active(u) :
             request' = [request EXCEPT ![r].pc = "locked", ![r].token = t,
                                        ![r].seen = seen]
        /\ UNCHANGED <<user, token, mailed, now>>

LockForConfirm(r) ==
    /\ request[r].pc = "begun" /\ request[r].op = "confirm"
    /\ LockFree(request[r].candidate.user, r)
    /\ request' = [request EXCEPT ![r].pc = "locked"]
    /\ UNCHANGED <<user, token, mailed, now>>

-----------------------------------------------------------------------------
(* Issuing a token.                                                        *)

\* Mutant: the token the user had stays active for the address it was for.
KeepsOldToken(old) == token

\* The earlier active token of the user is superseded.
Superseded(old) ==
    IF old = NoToken THEN token ELSE [token EXCEPT ![old].status = "superseded"]

\* uq_email_verification_tokens_active_user_id lets the new row in.
IndexAdmits(u, old) == Active(u) \subseteq {old}

Expiry == now + Lifetime

\* A row for address e with its mail to the same address, in one transaction.
Issue(u, old, e, fresh) ==
    \E t \in {t \in Tokens : token[t].status = "none"} :
        /\ token' = [Superseded(old) EXCEPT ![t] =
              [status |-> "active", user |-> u, snapshot |-> e,
               expires |-> Expiry, fresh |-> fresh]]
        /\ mailed' = mailed \union {[token |-> t, to |-> e]}

RequestCommit(r) ==
    LET u == request[r].user
        e == request[r].seen.email
    IN  /\ request[r].pc = "locked" /\ request[r].op = "request"
        /\ ~request[r].seen.verified
        /\ IndexAdmits(u, request[r].token)
        /\ Issue(u, request[r].token, e, e = user[u].email)
        /\ End(r)
        /\ UNCHANGED <<user, now>>

\* No account has the address: neither another one nor the user's own.
Free(e) == \A w \in Users : user[w].email # e

ChangeCommit(r) ==
    LET u == request[r].user
        e == request[r].target
    IN  /\ request[r].pc = "locked" /\ request[r].op = "change"
        /\ Free(e)
        /\ IndexAdmits(u, request[r].token)
        /\ user' = [user EXCEPT ![u] = [email |-> e, verified |-> FALSE]]
        /\ Issue(u, request[r].token, e, TRUE)
        /\ End(r)
        /\ UNCHANGED now

-----------------------------------------------------------------------------
(* Confirming a link.                                                      *)

\* Mutant: the token as the unlocked lookup found it.
TokenAsFound(r) == request[r].candidate

\* The token is read again under its owner's lock.
TokenUnderLock(r) == token[request[r].token]

Usable(row) == row.status = "active" /\ row.expires > now

\* The owner's row as consume_email_verification_token holds it: stale when the
\* owner is the user that authentication loaded.
HeldOwner(r) ==
    LET owner == request[r].candidate.user
    IN  IF owner = request[r].user THEN request[r].seen ELSE user[owner]

Confirms(r) ==
    LET row == TokenUnderLock(r)
        owner == user[row.user]                      \* populate_existing
    IN  /\ Usable(row)
        /\ row.snapshot = HeldOwner(r).email
        /\ row.user = request[r].user
        /\ owner.email = row.snapshot
        /\ ~owner.verified

ConfirmCommit(r) ==
    /\ request[r].pc = "locked" /\ request[r].op = "confirm"
    /\ Confirms(r)
    /\ token' = [token EXCEPT ![request[r].token].status = "consumed"]
    /\ user' = [user EXCEPT ![request[r].user].verified = TRUE]
    /\ End(r)
    /\ UNCHANGED <<mailed, now>>

\* What a request that is refused leaves behind: nothing.
Refused(r) ==
    CASE request[r].op = "request" ->
            \/ request[r].seen.verified
            \/ ~IndexAdmits(request[r].user, request[r].token)
      [] request[r].op = "change" ->
            \/ ~Free(request[r].target)
            \/ ~IndexAdmits(request[r].user, request[r].token)
      [] request[r].op = "confirm" -> ~Confirms(r)

Refuse(r) ==
    /\ request[r].pc = "locked"
    /\ Refused(r)
    /\ End(r)
    /\ UNCHANGED <<user, token, mailed, now>>

\* A lost connection, a failing database or a wrong password rolls back.
Abort(r) ==
    /\ request[r].pc # "idle"
    /\ End(r)
    /\ UNCHANGED <<user, token, mailed, now>>

Tick ==
    /\ now < MaxTime
    /\ now' = now + 1
    /\ UNCHANGED <<user, token, mailed, request>>

-----------------------------------------------------------------------------

Init ==
    /\ user \in {f \in [Users -> User] :
                    \A u, w \in Users : f[u].email = f[w].email => u = w}
    /\ token = [t \in Tokens |-> NoRow]
    /\ mailed = {}
    /\ request = [r \in Requests |-> Idle]
    /\ now = 0

Next ==
    \/ \E r \in Requests, u \in Users :
          \/ BeginRequest(r, u)
          \/ \E e \in Addresses : BeginChange(r, u, e)
          \/ \E t \in Tokens : BeginConfirm(r, u, t)
    \/ \E r \in Requests :
          \/ LockForIssue(r)
          \/ LockForConfirm(r)
          \/ RequestCommit(r)
          \/ ChangeCommit(r)
          \/ ConfirmCommit(r)
          \/ Refuse(r)
          \/ Abort(r)
    \/ Tick

Spec == Init /\ [][Next]_vars

-----------------------------------------------------------------------------
(* Properties.                                                             *)

\* The partial unique index uq_email_verification_tokens_active_user_id never
\* has to refuse a token: whoever holds the user row's lock still knows the
\* user's only active token when it commits.
IndexNeverNeeded ==
    \A r \in Requests :
        request[r].pc = "locked" /\ request[r].op # "confirm" =>
            IndexAdmits(request[r].user, request[r].token)

\* confirm_email_verification_token: an address becomes verified only as its
\* owner's active, unexpired token, mailed to this very address, is consumed.
VerifiedByOwnAddress ==
    [][\A u \in Users :
          user'[u].verified /\ ~user[u].verified =>
             /\ user'[u].email = user[u].email
             /\ \E t \in Active(u) :
                   /\ token[t].expires > now
                   /\ [token |-> t, to |-> user[u].email] \in mailed
                   /\ token'[t].status = "consumed"]_vars

\* An active token that was issued from a current user row is for the address
\* the user still has: change_current_user_email leaves no token of the former
\* address alive.
ActiveTokenForCurrentAddress ==
    \A t \in Tokens :
        token[t].status = "active" /\ token[t].fresh =>
            token[t].snapshot = user[token[t].user].email

\* "a durable current-address outbox event" (EMAIL-002): a link is mailed to
\* the address its user has when the transaction commits.
MailGoesToCurrentAddress ==
    [][\A link \in mailed' \ mailed :
          link.to = user'[token'[link.token].user].email]_vars
=============================================================================
