----------------------- MODULE EmailVerification_proofs -----------------------
(***************************************************************************)
(* Proofs about EmailVerification, for any users, addresses, tokens and    *)
(* requests, and any lifetime of a link.                                   *)
(***************************************************************************)
EXTENDS EmailVerification, TLAPS

-----------------------------------------------------------------------------
(* The inductive invariant.                                                *)

\* No two requests hold the same user row.
LocksExclusive ==
    \A r, q \in Requests : r # q => Locks(r) \intersect Locks(q) = {}

\* A user has one active token at most.
OneActive ==
    \A t, s \in Tokens :
        /\ token[t].status = "active" /\ token[s].status = "active"
        /\ token[t].user = token[s].user
        => t = s

\* A row and the mail that carries its link are inserted together.
RowsAreMailed ==
    /\ \A t \in Tokens : token[t].status # "none" =>
          [token |-> t, to |-> token[t].snapshot] \in mailed
    /\ \A link \in mailed : token[link.token].status # "none"

\* The token a request is about is a row; a confirmation knows its owner.
CandidateKnown ==
    \A r \in Requests : request[r].pc # "idle" =>
        /\ request[r].op = "confirm" =>
              /\ request[r].token \in Tokens
              /\ request[r].candidate.user = token[request[r].token].user
        /\ request[r].token \in Tokens =>
              token[request[r].token].status # "none"

\* Whoever is not idle acts for a user.
Authenticated ==
    \A r \in Requests : request[r].pc # "idle" =>
        /\ request[r].user \in Users
        /\ request[r].seen.email \in Addresses
        /\ request[r].op = "change" => request[r].target \in Addresses

IInv ==
    /\ TypeOK
    /\ Authenticated
    /\ LocksExclusive
    /\ OneActive
    /\ RowsAreMailed
    /\ CandidateKnown
    /\ IndexNeverNeeded
    /\ ActiveTokenForCurrentAddress
-----------------------------------------------------------------------------
(* The initial states.                                                     *)

LEMMA InitIInv == Init => IInv
<1> SUFFICES ASSUME Init PROVE IInv
    OBVIOUS
<1> USE DEF Init, Idle, NoRow
<1>1. TypeOK
    BY NullsAssumption, LifetimeAssumption
    DEF TypeOK, User, TokenRow, Request
<1>2. Authenticated /\ CandidateKnown /\ RowsAreMailed
    BY DEF Authenticated, CandidateKnown, RowsAreMailed
<1>3. LocksExclusive /\ IndexNeverNeeded
    BY DEF LocksExclusive, Locks, IndexNeverNeeded
<1>4. OneActive /\ ActiveTokenForCurrentAddress
    BY DEF OneActive, ActiveTokenForCurrentAddress
<1> QED BY <1>1, <1>2, <1>3, <1>4 DEF IInv

-----------------------------------------------------------------------------
(* Steps that change one request only.                                     *)

\* Rows that did not change keep what the invariant says of rows alone.
LEMMA RowsUnchanged ==
    ASSUME IInv, UNCHANGED <<user, token, mailed>>
    PROVE  OneActive' /\ RowsAreMailed' /\ ActiveTokenForCurrentAddress'
BY DEF IInv, OneActive, RowsAreMailed, ActiveTokenForCurrentAddress

\* Letting a request go takes nothing from the others.
LEMMA EndKeeps ==
    ASSUME IInv, NEW r \in Requests, End(r)
    PROVE  /\ request' \in [Requests -> Request]
           /\ Authenticated'
           /\ LocksExclusive'
           /\ \A q \in Requests : request'[q].pc # "idle" =>
                 q # r /\ request'[q] = request[q]
<1> USE DEF IInv, End
<1>1. Idle \in Request
    BY LifetimeAssumption DEF Idle, Request, NoRow, TokenRow
<1>2. request' \in [Requests -> Request]
    BY <1>1 DEF TypeOK
<1>3. \A q \in Requests : request'[q] = IF q = r THEN Idle ELSE request[q]
    BY DEF TypeOK
<1>4. \A q \in Requests : request'[q].pc # "idle" =>
          q # r /\ request'[q] = request[q]
    BY <1>3 DEF Idle
<1>5. Authenticated'
    BY <1>4 DEF Authenticated
<1>6. \A q \in Requests : Locks(q)' \subseteq Locks(q)
    BY <1>3 DEF Locks, Idle
<1>7. LocksExclusive'
    BY <1>6 DEF LocksExclusive
<1> QED BY <1>2, <1>4, <1>5, <1>7
LEMMA BeginStep ==
    ASSUME IInv,
           NEW r \in Requests, NEW u \in Users,
           NEW op \in {"request", "change", "confirm"},
           NEW target \in Addresses \union {NoAddress},
           NEW t \in Tokens \union {NoToken},
           op = "change" => target \in Addresses,
           op = "confirm" => t \in Tokens,
           t \in Tokens => token[t].status # "none",
           Begin(r, u, op, target, t)
    PROVE  IInv'
<1> DEFINE new == [pc |-> "begun", op |-> op, user |-> u, seen |-> user[u],
                   target |-> target, token |-> t,
                   candidate |-> IF t = NoToken THEN NoRow ELSE token[t]]
<1> USE DEF IInv
<1>1. request' = [request EXCEPT ![r] = new]
    BY DEF Begin
<1>2. user' = user /\ token' = token /\ mailed' = mailed /\ now' = now
    BY DEF Begin
<1>3. user[u] \in User
    BY DEF TypeOK
<1>4. NoRow \in TokenRow
    BY LifetimeAssumption DEF NoRow, TokenRow, TypeOK
<1>5. (IF t = NoToken THEN NoRow ELSE token[t]) \in TokenRow
    BY <1>4 DEF TypeOK
<1>6. new \in Request
    BY <1>3, <1>5 DEF Request, User
<1>7. TypeOK'
    BY <1>1, <1>2, <1>6 DEF TypeOK
<1>8. \A q \in Requests : request'[q] = IF q = r THEN new ELSE request[q]
    BY <1>1 DEF TypeOK
<1>9. \A q \in Requests : Locks(q)' \subseteq Locks(q)
    BY <1>8 DEF Locks
<1>10. LocksExclusive'
    BY <1>9 DEF LocksExclusive
<1>11. Authenticated'
    BY <1>3, <1>8 DEF Authenticated, User
<1>12. CandidateKnown'
    BY <1>2, <1>8, NullsAssumption DEF CandidateKnown
<1>13. IndexNeverNeeded'
    BY <1>2, <1>8 DEF IndexNeverNeeded, IndexAdmits, Active
<1> HIDE DEF new, IInv
<1>14. OneActive' /\ RowsAreMailed' /\ ActiveTokenForCurrentAddress'
    BY <1>2, RowsUnchanged
<1> QED BY <1>7, <1>10, <1>11, <1>12, <1>13, <1>14 DEF IInv

\* Taking a lock that is free.
LEMMA LockKeepsExclusive ==
    ASSUME IInv, NEW r \in Requests, NEW u,
           \A q \in Requests \ {r} : Locks(q)' = Locks(q),
           Locks(r)' = {u}, LockFree(u, r)
    PROVE  LocksExclusive'
BY DEF IInv, LocksExclusive, LockFree

LEMMA LockForIssueStep ==
    ASSUME IInv, NEW r \in Requests, LockForIssue(r)
    PROVE  IInv'
<1> DEFINE u == request[r].user
           seen == IF request[r].op = "change" THEN user[u] ELSE request[r].seen
<1> USE DEF IInv
<1>1. PICK t \in IF Active(u) = {} THEN {NoToken} ELSE Active(u) :
          request' = [request EXCEPT ![r].pc = "locked", ![r].token = t,
                                     ![r].seen = seen]
    BY DEF LockForIssue
<1>2. /\ user' = user /\ token' = token /\ mailed' = mailed /\ now' = now
      /\ request[r].pc = "begun" /\ request[r].op \in {"request", "change"}
      /\ LockFree(u, r)
    BY DEF LockForIssue
<1>3. u \in Users /\ user[u] \in User /\ request[r] \in Request
    BY <1>2 DEF TypeOK, Authenticated
<1>4. t \in Tokens \union {NoToken}
    BY DEF Active
<1>5. seen \in [email : Addresses \union {NoAddress}, verified : BOOLEAN]
    BY <1>3 DEF User, Request
<1> DEFINE new == [request[r] EXCEPT !.pc = "locked", !.token = t, !.seen = seen]
<1>6. new \in Request
    BY <1>3, <1>4, <1>5 DEF Request
<1>7. request' = [request EXCEPT ![r] = new]
    BY <1>1 DEF TypeOK
<1>8. TypeOK'
    BY <1>2, <1>6, <1>7 DEF TypeOK
<1>9. \A q \in Requests : request'[q] = IF q = r THEN new ELSE request[q]
    BY <1>7 DEF TypeOK
<1>10. /\ new.pc = "locked" /\ new.op = request[r].op /\ new.user = u
       /\ new.token = t /\ new.seen = seen /\ new.target = request[r].target
    BY <1>3 DEF Request
<1> HIDE DEF new
<1>11. Authenticated'
    <2>1. seen.email \in Addresses
        BY <1>2, <1>3 DEF User, Authenticated
    <2> QED BY <1>2, <1>9, <1>10, <2>1 DEF Authenticated
<1>12. LocksExclusive'
    <2>1. Locks(r)' = {u}
        BY <1>2, <1>9, <1>10 DEF Locks
    <2>2. \A q \in Requests \ {r} : Locks(q)' = Locks(q)
        BY <1>9 DEF Locks
    <2> QED BY <1>2, <2>1, <2>2, LockKeepsExclusive
<1>13. CandidateKnown'
    BY <1>2, <1>9, <1>10, NullsAssumption DEF CandidateKnown, Active
<1>14. IndexNeverNeeded'
    <2>1. Active(u) \subseteq {t}
        BY DEF Active, OneActive
    <2> QED BY <1>2, <1>9, <1>10, <2>1 DEF IndexNeverNeeded, IndexAdmits, Active
<1> HIDE DEF IInv
<1>15. OneActive' /\ RowsAreMailed' /\ ActiveTokenForCurrentAddress'
    BY <1>2, RowsUnchanged
<1> QED BY <1>8, <1>11, <1>12, <1>13, <1>14, <1>15 DEF IInv

LEMMA LockForConfirmStep ==
    ASSUME IInv, NEW r \in Requests, LockForConfirm(r)
    PROVE  IInv'
<1> USE DEF IInv
<1> DEFINE new == [request[r] EXCEPT !.pc = "locked"]
<1>1. /\ user' = user /\ token' = token /\ mailed' = mailed /\ now' = now
      /\ request[r].pc = "begun" /\ request[r].op = "confirm"
      /\ LockFree(request[r].candidate.user, r)
      /\ request' = [request EXCEPT ![r] = new]
    BY DEF LockForConfirm, TypeOK
<1>2. request[r] \in Request /\ new \in Request
    BY DEF TypeOK, Request
<1>3. TypeOK'
    BY <1>1, <1>2 DEF TypeOK
<1>4. \A q \in Requests : request'[q] = IF q = r THEN new ELSE request[q]
    BY <1>1 DEF TypeOK
<1>5. /\ new.pc = "locked" /\ new.op = "confirm" /\ new.user = request[r].user
      /\ new.token = request[r].token /\ new.seen = request[r].seen
      /\ new.candidate = request[r].candidate
    BY <1>1, <1>2 DEF Request
<1> HIDE DEF new
<1>6. Authenticated'
    BY <1>1, <1>4, <1>5 DEF Authenticated
<1>7. LocksExclusive'
    <2>1. Locks(r)' = {request[r].candidate.user}
        BY <1>4, <1>5 DEF Locks
    <2>2. \A q \in Requests \ {r} : Locks(q)' = Locks(q)
        BY <1>4 DEF Locks
    <2> QED BY <1>1, <2>1, <2>2, LockKeepsExclusive
<1>8. CandidateKnown'
    BY <1>1, <1>4, <1>5 DEF CandidateKnown
<1>9. IndexNeverNeeded'
    BY <1>1, <1>4, <1>5 DEF IndexNeverNeeded, IndexAdmits, Active
<1> HIDE DEF IInv
<1>10. OneActive' /\ RowsAreMailed' /\ ActiveTokenForCurrentAddress'
    BY <1>1, RowsUnchanged
<1> QED BY <1>3, <1>6, <1>7, <1>8, <1>9, <1>10 DEF IInv

\* Refuse and Abort.
LEMMA LetGoStep ==
    ASSUME IInv, NEW r \in Requests, End(r),
           UNCHANGED <<user, token, mailed, now>>
    PROVE  IInv'
<1>1. /\ request' \in [Requests -> Request]
      /\ Authenticated' /\ LocksExclusive'
      /\ \A q \in Requests : request'[q].pc # "idle" =>
            q # r /\ request'[q] = request[q]
    BY EndKeeps
<1>2. OneActive' /\ RowsAreMailed' /\ ActiveTokenForCurrentAddress'
    BY RowsUnchanged
<1>3. TypeOK'
    BY <1>1 DEF IInv, TypeOK
<1>4. CandidateKnown'
    BY <1>1 DEF IInv, CandidateKnown
<1>5. IndexNeverNeeded'
    BY <1>1 DEF IInv, IndexNeverNeeded, IndexAdmits, Active
<1> QED BY <1>1, <1>2, <1>3, <1>4, <1>5 DEF IInv
-----------------------------------------------------------------------------
(* Steps that issue or consume a token.                                    *)

\* What the token table is after one row has been issued for u and e.
LEMMA IssueEffect ==
    ASSUME IInv, NEW u \in Users, NEW e \in Addresses,
           NEW old \in Tokens \union {NoToken}, NEW fresh \in BOOLEAN,
           old \in Tokens => token[old].status # "none",
           IndexAdmits(u, old),
           Issue(u, old, e, fresh)
    PROVE  /\ token' \in [Tokens -> TokenRow]
           /\ mailed' \subseteq [token : Tokens, to : Addresses]
           /\ \E t \in Tokens :
                /\ token[t].status = "none"
                /\ token'[t].status = "active" /\ token'[t].user = u
                /\ token'[t].snapshot = e /\ token'[t].fresh = fresh
                /\ mailed' = mailed \union {[token |-> t, to |-> e]}
                /\ \A s \in Tokens \ {t} :
                      /\ token'[s].user = token[s].user
                      /\ token'[s].snapshot = token[s].snapshot
                      /\ token'[s].fresh = token[s].fresh
                      /\ token'[s].status = "none" <=> token[s].status = "none"
                      /\ token'[s].status = "active" =>
                            token[s].status = "active" /\ token[s].user # u
<1> USE DEF IInv
<1>1. PICK t \in {t \in Tokens : token[t].status = "none"} :
        /\ token' = [Superseded(old) EXCEPT ![t] =
              [status |-> "active", user |-> u, snapshot |-> e,
               expires |-> Expiry, fresh |-> fresh]]
        /\ mailed' = mailed \union {[token |-> t, to |-> e]}
    BY DEF Issue
<1> DEFINE row == [status |-> "active", user |-> u, snapshot |-> e,
                   expires |-> Expiry, fresh |-> fresh]
<1>2. row \in TokenRow
    BY LifetimeAssumption DEF TokenRow, Expiry, TypeOK
<1>3. /\ Superseded(old) \in [Tokens -> TokenRow]
      /\ \A s \in Tokens :
            Superseded(old)[s] = IF s = old
                                 THEN [token[s] EXCEPT !.status = "superseded"]
                                 ELSE token[s]
    BY NullsAssumption DEF Superseded, TypeOK, TokenRow
<1>4. token' \in [Tokens -> TokenRow]
    BY <1>1, <1>2, <1>3
<1>5. \A s \in Tokens : token'[s] = IF s = t THEN row ELSE Superseded(old)[s]
    BY <1>1, <1>3
<1>6. mailed' \subseteq [token : Tokens, to : Addresses]
    BY <1>1 DEF TypeOK
<1>7. ASSUME NEW s \in Tokens \ {t}
      PROVE  /\ token'[s].user = token[s].user
             /\ token'[s].snapshot = token[s].snapshot
             /\ token'[s].fresh = token[s].fresh
             /\ token'[s].status = "none" <=> token[s].status = "none"
             /\ token'[s].status = "active" =>
                   token[s].status = "active" /\ token[s].user # u
    <2>1. token[s] \in TokenRow
        BY DEF TypeOK
    <2>2. CASE s = old
        BY <1>3, <1>5, <2>1, <2>2 DEF TokenRow
    <2>3. CASE s # old
        BY <1>3, <1>5, <2>3 DEF IndexAdmits, Active
    <2> QED BY <2>2, <2>3
<1>8. /\ t \in Tokens /\ token[t].status = "none"
      /\ token'[t].status = "active" /\ token'[t].user = u
      /\ token'[t].snapshot = e /\ token'[t].fresh = fresh
    BY <1>5
<1> HIDE DEF IInv, row
<1> QED BY <1>1, <1>4, <1>6, <1>7, <1>8

\* The rest of a step that issues a token: r lets its locks go, and no user row
\* has changed but that of its user.
LEMMA IssueStep ==
    ASSUME IInv, NEW r \in Requests,
           request[r].pc = "locked", request[r].op # "confirm",
           NEW e \in Addresses, NEW fresh \in BOOLEAN,
           IndexAdmits(request[r].user, request[r].token),
           Issue(request[r].user, request[r].token, e, fresh),
           End(r), now' = now,
           user' \in [Users -> User],
           \A w \in Users \ {request[r].user} : user'[w] = user[w],
           fresh => e = user'[request[r].user].email
    PROVE  IInv'
<1> DEFINE u == request[r].user
           old == request[r].token
<1>1. u \in Users /\ old \in Tokens \union {NoToken}
      /\ (old \in Tokens => token[old].status # "none")
    BY DEF IInv, TypeOK, Request, Authenticated, CandidateKnown
<1>2. /\ token' \in [Tokens -> TokenRow]
      /\ mailed' \subseteq [token : Tokens, to : Addresses]
    BY <1>1, IssueEffect
<1>3. PICK t \in Tokens :
        /\ token[t].status = "none"
        /\ token'[t].status = "active" /\ token'[t].user = u
        /\ token'[t].snapshot = e /\ token'[t].fresh = fresh
        /\ mailed' = mailed \union {[token |-> t, to |-> e]}
        /\ \A s \in Tokens \ {t} :
              /\ token'[s].user = token[s].user
              /\ token'[s].snapshot = token[s].snapshot
              /\ token'[s].fresh = token[s].fresh
              /\ token'[s].status = "none" <=> token[s].status = "none"
              /\ token'[s].status = "active" =>
                    token[s].status = "active" /\ token[s].user # u
    BY <1>1, IssueEffect
<1>4. /\ request' \in [Requests -> Request]
      /\ Authenticated' /\ LocksExclusive'
      /\ \A q \in Requests : request'[q].pc # "idle" =>
            q # r /\ request'[q] = request[q]
    BY EndKeeps
<1> USE DEF IInv
<1> HIDE DEF u, old
<1>5. TypeOK'
    BY <1>1, <1>2, <1>3, <1>4 DEF TypeOK
<1>6. OneActive'
    BY <1>3 DEF OneActive
<1>7. RowsAreMailed'
    BY <1>3 DEF RowsAreMailed, TypeOK
<1>8. CandidateKnown'
    BY <1>3, <1>4 DEF CandidateKnown
<1>9. IndexNeverNeeded'
    <2> SUFFICES ASSUME NEW q \in Requests,
                        request'[q].pc = "locked", request'[q].op # "confirm"
                 PROVE  IndexAdmits(request[q].user, request[q].token)'
        BY DEF IndexNeverNeeded
    <2>1. q # r /\ request'[q] = request[q]
        BY <1>4
    <2>2. request[q].user # u
        BY <2>1 DEF LocksExclusive, Locks, u
    <2>3. Active(request[q].user)' \subseteq Active(request[q].user)
        BY <1>3, <2>1, <2>2 DEF Active
    <2> QED BY <2>1, <2>3 DEF IndexNeverNeeded, IndexAdmits
<1>10. ActiveTokenForCurrentAddress'
    <2> SUFFICES ASSUME NEW s \in Tokens,
                        token'[s].status = "active", token'[s].fresh
                 PROVE  token'[s].snapshot = user'[token'[s].user].email
        BY DEF ActiveTokenForCurrentAddress
    <2>1. CASE s = t
        BY <1>3, <2>1 DEF u
    <2>2. CASE s # t
        <3>1. token[s].status = "active" /\ token[s].user # u /\ token[s].fresh
            BY <1>3, <2>2
        <3>2. token[s].user \in Users
            BY <3>1 DEF TypeOK
        <3>3. user'[token[s].user] = user[token[s].user]
            BY <3>1, <3>2 DEF u
        <3> QED BY <1>3, <2>2, <3>1, <3>3 DEF ActiveTokenForCurrentAddress
    <2> QED BY <2>1, <2>2
<1> QED BY <1>4, <1>5, <1>6, <1>7, <1>8, <1>9, <1>10

LEMMA RequestCommitStep ==
    ASSUME IInv, NEW r \in Requests, RequestCommit(r)
    PROVE  IInv'
<1> DEFINE u == request[r].user
           e == request[r].seen.email
<1>1. /\ request[r].pc = "locked" /\ request[r].op = "request"
      /\ IndexAdmits(u, request[r].token)
      /\ Issue(u, request[r].token, e, e = user[u].email)
      /\ End(r) /\ user' = user /\ now' = now
    BY DEF RequestCommit
<1>2. e \in Addresses /\ user \in [Users -> User] /\ (e = user[u].email) \in BOOLEAN
    BY <1>1 DEF IInv, Authenticated, TypeOK
<1> QED BY <1>1, <1>2, IssueStep

LEMMA ChangeCommitStep ==
    ASSUME IInv, NEW r \in Requests, ChangeCommit(r)
    PROVE  IInv'
<1> DEFINE u == request[r].user
           e == request[r].target
<1>1. /\ request[r].pc = "locked" /\ request[r].op = "change"
      /\ IndexAdmits(u, request[r].token)
      /\ user' = [user EXCEPT ![u] = [email |-> e, verified |-> FALSE]]
      /\ Issue(u, request[r].token, e, TRUE)
      /\ End(r) /\ now' = now
    BY DEF ChangeCommit
<1>2. u \in Users /\ e \in Addresses /\ user \in [Users -> User]
    BY <1>1 DEF IInv, Authenticated, TypeOK
<1>3. /\ user' \in [Users -> User]
      /\ user'[u].email = e
      /\ \A w \in Users \ {u} : user'[w] = user[w]
    BY <1>1, <1>2 DEF User
<1> QED BY <1>1, <1>2, <1>3, IssueStep

\* What a confirmation that commits has found.
LEMMA ConfirmFinds ==
    ASSUME IInv, NEW r \in Requests, ConfirmCommit(r)
    PROVE  LET u == request[r].user
               t == request[r].token
           IN  /\ u \in Users /\ t \in Tokens
               /\ token[t].status = "active" /\ token[t].expires > now
               /\ token[t].user = u /\ token[t].snapshot = user[u].email
BY DEF IInv, ConfirmCommit, Confirms, TokenUnderLock, Usable, Authenticated,
       CandidateKnown

LEMMA ConfirmCommitStep ==
    ASSUME IInv, NEW r \in Requests, ConfirmCommit(r)
    PROVE  IInv'
<1> DEFINE u == request[r].user
           t == request[r].token
<1>1. /\ token' = [token EXCEPT ![t].status = "consumed"]
      /\ user' = [user EXCEPT ![u].verified = TRUE]
      /\ End(r) /\ mailed' = mailed /\ now' = now
    BY DEF ConfirmCommit
<1>2. u \in Users /\ t \in Tokens /\ token[t].status = "active"
    BY ConfirmFinds
<1>3. /\ request' \in [Requests -> Request]
      /\ Authenticated' /\ LocksExclusive'
      /\ \A q \in Requests : request'[q].pc # "idle" =>
            q # r /\ request'[q] = request[q]
    BY <1>1, EndKeeps
<1> USE DEF IInv
<1>4. /\ token' \in [Tokens -> TokenRow]
      /\ token'[t].status = "consumed"
      /\ \A s \in Tokens :
            /\ token'[s].user = token[s].user
            /\ token'[s].snapshot = token[s].snapshot
            /\ token'[s].fresh = token[s].fresh
            /\ s # t => token'[s].status = token[s].status
    BY <1>1, <1>2 DEF TypeOK, TokenRow
<1>5. /\ user' \in [Users -> User]
      /\ \A w \in Users : user'[w].email = user[w].email
    BY <1>1, <1>2 DEF TypeOK, User
<1> HIDE DEF u, t
<1>6. TypeOK'
    BY <1>1, <1>2, <1>3, <1>4, <1>5 DEF TypeOK
<1>7. \A s \in Tokens : /\ token'[s].status = "active" => token[s].status = "active"
                        /\ token'[s].status = "none" <=> token[s].status = "none"
    BY <1>2, <1>4
<1>8. OneActive'
    BY <1>4, <1>7 DEF OneActive
<1>9. RowsAreMailed'
    BY <1>1, <1>4, <1>7 DEF RowsAreMailed, TypeOK
<1>10. CandidateKnown'
    BY <1>3, <1>4, <1>7 DEF CandidateKnown
<1>11. IndexNeverNeeded'
    BY <1>3, <1>4, <1>7 DEF IndexNeverNeeded, IndexAdmits, Active
<1>12. ActiveTokenForCurrentAddress'
    BY <1>4, <1>5, <1>7 DEF ActiveTokenForCurrentAddress, TypeOK
<1> QED BY <1>3, <1>6, <1>8, <1>9, <1>10, <1>11, <1>12

LEMMA TickStep ==
    ASSUME IInv, Tick
    PROVE  IInv'
<1> USE DEF IInv, Tick
<1>1. TypeOK'
    BY LifetimeAssumption DEF TypeOK
<1>2. OneActive' /\ RowsAreMailed' /\ ActiveTokenForCurrentAddress'
    BY DEF OneActive, RowsAreMailed, ActiveTokenForCurrentAddress
<1>3. Authenticated' /\ LocksExclusive' /\ CandidateKnown'
    BY DEF Authenticated, LocksExclusive, Locks, CandidateKnown
<1>4. IndexNeverNeeded'
    BY DEF IndexNeverNeeded, IndexAdmits, Active
<1> QED BY <1>1, <1>2, <1>3, <1>4

-----------------------------------------------------------------------------
(* The theorems.                                                           *)

LEMMA NextIInv == IInv /\ [Next]_vars => IInv'
<1> SUFFICES ASSUME IInv, [Next]_vars PROVE IInv'
    OBVIOUS
<1>1. ASSUME NEW r \in Requests, NEW u \in Users, BeginRequest(r, u)
      PROVE  IInv'
    BY <1>1, BeginStep, NullsAssumption DEF BeginRequest
<1>2. ASSUME NEW r \in Requests, NEW u \in Users, NEW e \in Addresses,
             BeginChange(r, u, e)
      PROVE  IInv'
    BY <1>2, BeginStep, NullsAssumption DEF BeginChange
<1>3. ASSUME NEW r \in Requests, NEW u \in Users, NEW t \in Tokens,
             BeginConfirm(r, u, t)
      PROVE  IInv'
    <2>1. token[t].status # "none"
        BY <1>3 DEF BeginConfirm, IInv, RowsAreMailed
    <2>2. Begin(r, u, "confirm", NoAddress, t)
        BY <1>3 DEF BeginConfirm
    <2> QED BY <2>1, <2>2, BeginStep
<1>4. ASSUME NEW r \in Requests, Refuse(r) \/ Abort(r) PROVE IInv'
    BY <1>4, LetGoStep DEF Refuse, Abort
<1>5. CASE UNCHANGED vars
    BY <1>5 DEF vars, IInv, TypeOK, Authenticated, LocksExclusive, Locks,
       OneActive, RowsAreMailed, CandidateKnown, IndexNeverNeeded,
       IndexAdmits, Active, ActiveTokenForCurrentAddress
<1> QED
    BY <1>1, <1>2, <1>3, <1>4, <1>5, LockForIssueStep, LockForConfirmStep,
       RequestCommitStep, ChangeCommitStep, ConfirmCommitStep, TickStep
    DEF Next

LEMMA Invariance == Spec => []IInv
BY InitIInv, NextIInv, PTL DEF Spec

\* Requests, tokens and users stay well typed, whatever requests race.
THEOREM TypeCorrect == Spec => []TypeOK
<1>1. IInv => TypeOK
    BY DEF IInv
<1> QED BY <1>1, Invariance, PTL

\* The user row's lock is enough: uq_email_verification_tokens_active_user_id
\* never refuses a token that issue_email_verification_token inserts.
THEOREM IndexNeverNeededHolds == Spec => []IndexNeverNeeded
<1>1. IInv => IndexNeverNeeded
    BY DEF IInv
<1> QED BY <1>1, Invariance, PTL

\* change_current_user_email leaves no token alive but of the new address,
\* except one that a stale request issued.
THEOREM ActiveTokenForCurrentAddressHolds ==
    Spec => []ActiveTokenForCurrentAddress
<1>1. IInv => ActiveTokenForCurrentAddress
    BY DEF IInv
<1> QED BY <1>1, Invariance, PTL

\* confirm_email_verification_token: no address is ever verified but by a live
\* token of its user that was mailed to it.
THEOREM VerifiedByOwnAddressHolds == Spec => VerifiedByOwnAddress
<1> DEFINE Step ==
        \A u \in Users :
          user'[u].verified /\ ~user[u].verified =>
             /\ user'[u].email = user[u].email
             /\ \E t \in Active(u) :
                   /\ token[t].expires > now
                   /\ [token |-> t, to |-> user[u].email] \in mailed
                   /\ token'[t].status = "consumed"
<1>1. IInv /\ [Next]_vars => [Step]_vars
    <2> SUFFICES ASSUME IInv, Next, NEW u \in Users,
                        user'[u].verified, ~user[u].verified
                 PROVE  /\ user'[u].email = user[u].email
                        /\ \E t \in Active(u) :
                              /\ token[t].expires > now
                              /\ [token |-> t, to |-> user[u].email] \in mailed
                              /\ token'[t].status = "consumed"
        OBVIOUS
    <2>1. user' # user
        OBVIOUS
    <2>2. ASSUME NEW r \in Requests, ChangeCommit(r) PROVE FALSE
        BY <2>2 DEF ChangeCommit, IInv, TypeOK, User
    <2>3. PICK r \in Requests : ConfirmCommit(r)
        BY <2>1, <2>2 DEF Next, BeginRequest, BeginChange, BeginConfirm, Begin,
           LockForIssue, LockForConfirm, RequestCommit, Refuse, Abort, Tick
    <2> DEFINE t == request[r].token
    <2>4. /\ request[r].user \in Users /\ t \in Tokens
          /\ token[t].status = "active" /\ token[t].expires > now
          /\ token[t].user = request[r].user
          /\ token[t].snapshot = user[request[r].user].email
        BY <2>3, ConfirmFinds
    <2>5. /\ token' = [token EXCEPT ![t].status = "consumed"]
          /\ user' = [user EXCEPT ![request[r].user].verified = TRUE]
        BY <2>3 DEF ConfirmCommit
    <2>6. user \in [Users -> User] /\ token \in [Tokens -> TokenRow]
        BY DEF IInv, TypeOK
    <2> HIDE DEF t
    <2>7. u = request[r].user
        BY <2>4, <2>5, <2>6
    <2>8. user'[u].email = user[u].email /\ token'[t].status = "consumed"
        BY <2>4, <2>5, <2>6 DEF User, TokenRow
    <2>9. [token |-> t, to |-> user[u].email] \in mailed
        BY <2>4, <2>7 DEF IInv, RowsAreMailed
    <2> QED BY <2>4, <2>7, <2>8, <2>9 DEF Active
<1> QED BY <1>1, Invariance, PTL DEF Spec, VerifiedByOwnAddress
===============================================================================
