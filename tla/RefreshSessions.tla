--------------------------- MODULE RefreshSessions ---------------------------
(***************************************************************************)
(* Browser sessions end to end: the refresh-session rows of the API, the   *)
(* cookie jar of one browser, and the session client that every tab of the *)
(* browser runs against that jar.                                          *)
(*                                                                         *)
(* A refresh family is one row; a rotation replaces the identifier of its  *)
(* only current token, and presenting any other identifier revokes the     *)
(* family.  A tab serializes its calls in a promise queue and compares a   *)
(* generation with its epoch before it installs a user.  Nothing           *)
(* serializes two tabs: they meet in the jar and on the row.               *)
(*                                                                         *)
(* A request carries the cookies of the jar at the moment it is sent; the  *)
(* cookies of an answer reach the jar when the answer arrives.  In a lossy *)
(* browser the client may give up on either, and an abandoned request may  *)
(* still reach the server later.                                           *)
(***************************************************************************)
EXTENDS Integers, Sequences, FiniteSets

CONSTANTS
  Tabs,         \* tabs of the browser, each with a session client of its own
  Accounts,     \* the users that sign in
  Admins,       \* the accounts an administrator sign-in accepts
  Families,     \* refresh families that may be created: 1..n
  Browsers      \* the browsers a behaviour may be about

\* The calls that tabs make on their session client.
SessionOps == {"bootstrap", "refresh", "login", "adminLogin", "logout"}

\* tabs and accounts: those in use; ops and calls: which calls a tab makes and
\* how many at most; open: it starts with loaded pages; lossy: its requests and
\* their answers may be lost.
Browser ==
  [tabs : SUBSET Tabs, accounts : SUBSET Accounts, ops : SUBSET (SessionOps \cup {"reload"}),
   calls : Nat, open : BOOLEAN, lossy : BOOLEAN]

NoUser == "nobody"
Anyone == "anyone"      \* the goal of a bootstrap: whoever the cookies name

ASSUME SessionsAssumption ==
  /\ Accounts \cap {NoUser, Anyone} = {}
  /\ IsFiniteSet(Tabs)
  /\ IsFiniteSet(Families) /\ Families = 1..Cardinality(Families) /\ Families # {}
  /\ Browsers \subseteq Browser

VARIABLES
  browser,      \* the browser of this behaviour
  rows,         \* refresh_sessions: family -> [owner, state, n]
  active,       \* accounts with is_active and no deleted_at
  jar,          \* the cookies: [access, refresh, csrf]
  tab,          \* the session client of each tab
  net,          \* the exchange each tab waits for
  stray,        \* requests their tab gave up on that may still be handled
  gone          \* families whose sign-out the browser has been told of

vars == <<browser, rows, active, jar, tab, net, stray, gone>>

NoFamily == 0
NoToken == [fam |-> NoFamily, n |-> 0]
NoCsrf == [bind |-> -1, n |-> 0]
Preauth == 0                       \* the binding of a pre-auth CSRF token
Nonces == 1..(2 * Cardinality(Tabs) + 3)

\* A refresh JWT is its family and its jti; a CSRF token its binding and nonce.
Token == {NoToken} \cup [fam : Families, n : Nat]
Csrf == {NoCsrf} \cup [bind : {Preauth} \cup Families, n : Nonces]
Jar == [access : {NoFamily} \cup Families, refresh : Token, csrf : Csrf]

Kinds == {"recover", "me", "post", "recover2", "post2", "me2", "preauth",
          "login", "cleanup", "recover3", "cleanup2"}
Call == [op : SessionOps, gen : Nat, who : Accounts \cup {NoUser}]

NoExchange == [st |-> "none"]
Idle(t) == net[t] = NoExchange

------------------------------------------------------------------------------
(* The server.                                                             *)

\* The family the cookies identify, the refresh cookie first.
Claimed(c) == IF c.refresh # NoToken THEN c.refresh.fam ELSE c.access

\* The double-submit check: header and cookie equal and bound as required.
CsrfOk(r, bind) ==
  /\ r.cookies.csrf # NoCsrf
  /\ r.header = r.cookies.csrf
  /\ r.header.bind = bind

\* A nonce no token of the model carries.
Fresh ==
  CHOOSE k \in Nonces :
    /\ jar.csrf.n # k
    /\ \A t \in Tabs :
         /\ tab[t].csrf.n # k
         /\ net[t].st = "res" => net[t].csrf.n # k
         /\ net[t].st = "req" => net[t].cookies.csrf.n # k

\* The answers: a status, the cookies it sets, and what its body carries.
Answer(r, code, sets, user, csrf) ==
  [st |-> "res", kind |-> r.kind, code |-> code, sets |-> sets,
   user |-> user, csrf |-> csrf, fam |-> Claimed(r.cookies)]
Refusal(r, code) == Answer(r, code, <<>>, NoUser, NoCsrf)
NewCsrf(bind) == [bind |-> bind, n |-> Fresh]

\* What a handler does: the answer it gives, the rows it commits.
RecoveryRefused(r, f) ==
  \/ f = NoFamily
  \/ rows[f].state # "live"
  \/ r.cookies.refresh # NoToken /\ r.cookies.refresh.n # rows[f].n

RecoverAnswer(r) ==
  LET f == Claimed(r.cookies) IN
  IF RecoveryRefused(r, f) THEN Refusal(r, 401)
  ELSE IF r.cookies.csrf.bind = f
    THEN Answer(r, 200, <<>>, NoUser, r.cookies.csrf)
    ELSE Answer(r, 200, [csrf |-> NewCsrf(f)], NoUser, NewCsrf(f))

MeAnswer(r) ==
  IF r.cookies.access = NoFamily \/ rows[r.cookies.access].owner \notin active
    THEN Refusal(r, 401)
    ELSE Answer(r, 200, <<>>, rows[r.cookies.access].owner, NoCsrf)

Revoked(f) == [rows EXCEPT ![f].state = "revoked"]

\* The checks that stage a revocation the endpoint commits before it answers 401.
Distrusted(tok) ==
  \/ rows[tok.fam].state = "expired"
  \/ rows[tok.fam].n # tok.n
  \/ rows[tok.fam].owner \notin active

Rotated(f) == [rows EXCEPT ![f].n = @ + 1]

SessionCookies(f, n, csrf) ==
  [access |-> f, refresh |-> [fam |-> f, n |-> n], csrf |-> csrf]

\* A refusal after the rotation is staged (the user's quota) rolls it back.
RateLimited(r) == <<Refusal(r, 429), rows>>

\* Mutant: the refused rotation is committed.
HandleRefreshCommitted(r) ==
  LET f == r.cookies.refresh.fam IN
  IF r.cookies.refresh # NoToken /\ CsrfOk(r, f) /\ rows[f].state = "live"
       /\ ~Distrusted(r.cookies.refresh)
    THEN {<<Refusal(r, 429), Rotated(f)>>} ELSE {<<Refusal(r, 401), rows>>}

HandleRefresh(r) ==
  LET tok == r.cookies.refresh
      f == tok.fam
  IN IF tok = NoToken THEN {<<Refusal(r, 401), rows>>}
     ELSE IF ~CsrfOk(r, f) THEN {<<Refusal(r, 403), rows>>}
     ELSE IF rows[f].state \in {"none", "revoked"} THEN {<<Refusal(r, 401), rows>>}
     ELSE IF Distrusted(tok) THEN {<<Refusal(r, 401), Revoked(f)>>}
     ELSE {RateLimited(r),
           <<Answer(r, 200, SessionCookies(f, rows[f].n + 1, NewCsrf(f)),
                    rows[f].owner, NewCsrf(f)), Rotated(f)>>}

\* Mutant: sign-out demands the current token, as a rotation does.
LogoutOfCurrent(r) ==
  LET f == Claimed(r.cookies) IN
  IF f # NoFamily /\ rows[f].state = "live" /\ r.cookies.refresh.n = rows[f].n
    THEN Revoked(f) ELSE rows

\* Sign-out revokes whatever member of the family is current.
Logout(r) ==
  LET f == Claimed(r.cookies) IN
  IF f # NoFamily /\ rows[f].state \in {"live", "expired"} THEN Revoked(f) ELSE rows

HandleLogout(r) ==
  IF ~CsrfOk(r, Claimed(r.cookies)) THEN {<<Refusal(r, 403), rows>>}
  ELSE {<<Refusal(r, 503), rows>>,
        <<Answer(r, 204, [access |-> NoFamily, refresh |-> NoToken, csrf |-> NoCsrf],
                 NoUser, NoCsrf), Logout(r)>>}

NextFamily == 1 + Cardinality({f \in Families : rows[f].state # "none"})

HandleLogin(r) ==
  IF ~CsrfOk(r, Preauth) THEN {<<Refusal(r, 403), rows>>}
  ELSE IF r.who \notin active THEN {<<Refusal(r, 401), rows>>}
  ELSE {RateLimited(r)} \cup
       {<<Answer(r, 200, SessionCookies(f, 1, NewCsrf(f)), r.who, NewCsrf(f)),
          [rows EXCEPT ![f] = [owner |-> r.who, state |-> "live", n |-> 1]]>>
          : f \in Families \cap {NextFamily}}

\* POST goes to /auth/refresh or /auth/logout, by the call that makes it.
Handled(r) ==
  CASE r.kind \in {"recover", "recover2", "recover3"} -> {<<RecoverAnswer(r), rows>>}
    [] r.kind \in {"me", "me2"} -> {<<MeAnswer(r), rows>>}
    [] r.kind \in {"post", "post2"} /\ r.op \in {"bootstrap", "refresh"} -> HandleRefresh(r)
    [] r.kind = "login" -> HandleLogin(r)
    [] r.kind = "preauth" ->
         {<<Answer(r, 200, [csrf |-> NewCsrf(Preauth)], NoUser, NewCsrf(Preauth)), rows>>}
    [] OTHER -> HandleLogout(r)

Handle(t) ==
  /\ net[t].st = "req"
  /\ \E h \in Handled(net[t]) \cup {RateLimited(net[t])} :
       /\ net' = [net EXCEPT ![t] = h[1]]
       /\ rows' = h[2]
  /\ UNCHANGED <<browser, active, jar, tab, stray, gone>>

\* A request its tab gave up on is handled all the same; nobody hears the answer.
HandleStray ==
  /\ \E r \in stray : \E h \in Handled(r) :
       /\ stray' = stray \ {r}
       /\ rows' = h[2]
  /\ UNCHANGED <<browser, active, jar, tab, net, gone>>

------------------------------------------------------------------------------
(* The session client of a tab.  The head of calls is the one the queue    *)
(* runs; at is the request it waits for, "" before it has started.         *)

NewTab == [calls |-> <<>>, at |-> "", csrf |-> NoCsrf, epoch |-> 0,
           status |-> "anonymous", user |-> NoUser, goal |-> NoUser, seen |-> FALSE,
           made |-> 0]

Pending(t, op) == \E i \in DOMAIN tab[t].calls : tab[t].calls[i].op = op
Logins == {"login", "adminLogin"}

\* Where a call goes from the request "at" when it is answered with code c.
\* "install", "signedOut", "anonymous" and "fail" end the call.
Start(t, op) ==
  IF op \in {"refresh", "logout"} /\ tab[t].csrf # NoCsrf THEN "post" ELSE "recover"

\* Mutant: a sign-in replaces a live session without signing it out.
AfterRecoverNoSignOut(op, c) ==
  CASE op \in Logins -> "preauth"
    [] c = 200 /\ op = "bootstrap" -> "me"
    [] c = 200 /\ op \in {"refresh", "logout"} -> "post"
    [] c = 401 /\ op = "logout" -> "preauth"
    [] OTHER -> "fail"

AfterRecover(op, c) ==
  CASE c = 200 -> IF op = "bootstrap" THEN "me" ELSE "post"
    [] c = 401 /\ op = "bootstrap" -> "anonymous"
    [] c = 401 /\ op \in Logins \cup {"logout"} -> "preauth"
    [] OTHER -> "fail"

\* The end of a refresh or a sign-out that succeeded, or what it is followed by.
Posted(op) ==
  CASE op = "bootstrap" -> "me2"
    [] op = "refresh" -> "install"
    [] op = "logout" -> "signedOut"
    [] OTHER -> "preauth"

AfterPost(op, c) ==
  CASE c \in {200, 204} -> Posted(op)
    [] c = 401 /\ op = "bootstrap" -> "anonymous"
    [] OTHER -> "fail"

Onward(t, op, at, c) ==
  CASE at = "recover" -> AfterRecover(op, c)
    [] at = "me" -> IF c = 200 THEN "install" ELSE IF c = 401 THEN "post" ELSE "fail"
    [] at = "me2" ->
         IF c = 200 THEN "install" ELSE IF c = 401 THEN "anonymous" ELSE "fail"
    [] at = "post" -> IF c = 403 THEN "recover2" ELSE AfterPost(op, c)
    [] at = "recover2" ->
         IF c = 200 THEN "post2"
         ELSE IF c = 401 /\ op = "bootstrap" THEN "anonymous" ELSE "fail"
    [] at = "post2" -> AfterPost(op, c)
    [] at = "preauth" ->
         IF c # 200 THEN "fail" ELSE IF op = "logout" THEN "post" ELSE "login"
    [] at = "login" ->
         IF c # 200 THEN "fail"
         ELSE IF op = "adminLogin" /\ net[t].user \notin Admins THEN "cleanup"
         ELSE "install"
    [] at = "cleanup" -> IF c = 403 THEN "recover3" ELSE "fail"
    [] at = "recover3" -> IF c = 200 THEN "cleanup2" ELSE "fail"
    [] OTHER -> "fail"

\* The places of a call that compare its generation with the epoch first.
ChecksEpoch(op, next) ==
  \/ next \in {"me", "me2", "install", "anonymous", "cleanup"}
  \/ next = "preauth" /\ op \in Logins

\* The CSRF value the client holds after an answer.
Held(t, op, at, c) ==
  CASE c = 200 /\ net[t].csrf # NoCsrf -> net[t].csrf
    [] c = 204 -> NoCsrf
    [] c = 401 /\ at = "recover" /\ op \in Logins -> NoCsrf
    [] OTHER -> tab[t].csrf

Request(kind, call, j, csrf) ==
  [st |-> "req", kind |-> kind, op |-> call.op, who |-> call.who,
   cookies |-> j, header |-> csrf]

\* The browser takes the cookies an answer sets.
Taken(sets) ==
  [k \in {"access", "refresh", "csrf"} |-> IF k \in DOMAIN sets THEN sets[k] ELSE jar[k]]

CallGuard(t, op) ==
  /\ tab[t].made < browser.calls
  /\ op = "bootstrap" => ~Pending(t, "bootstrap")
  /\ op = "refresh" => ~Pending(t, "refresh") /\ tab[t].seen
  /\ op \in Logins =>
       NextFamily + Cardinality({u \in Tabs : \E o \in Logins : Pending(u, o)})
         + Cardinality({r \in stray : r.kind = "login"}) <= Cardinality(Families)

\* The call itself: the epoch, the visible identity, the place in the queue.
Call_(t, op, who) ==
  /\ CallGuard(t, op)
  /\ LET x == tab[t]
         e == IF op = "refresh" THEN x.epoch ELSE x.epoch + 1
     IN tab' = [tab EXCEPT ![t] =
       [x EXCEPT !.calls = Append(@, [op |-> op, gen |-> e, who |-> who]),
                 !.epoch = e,
                 !.made = @ + 1,
                 !.seen = op = "refresh",
                 !.status = CASE op = "refresh" -> @
                              [] op = "logout" -> "anonymous"
                              [] OTHER -> "loading",
                 !.user = IF op = "refresh" THEN @ ELSE NoUser,
                 !.goal = CASE op = "refresh" -> @
                            [] op = "logout" -> NoUser
                            [] op = "bootstrap" -> Anyone
                            [] OTHER -> who]]
  /\ UNCHANGED <<browser, rows, active, jar, net, stray, gone>>

Bootstrap(t) == "bootstrap" \in browser.ops /\ Call_(t, "bootstrap", NoUser)
Refresh(t) == "refresh" \in browser.ops /\ Call_(t, "refresh", NoUser)
Login(t) == \E op \in Logins \cap browser.ops, u \in browser.accounts : Call_(t, op, u)
LogoutCall(t) == "logout" \in browser.ops /\ Call_(t, "logout", NoUser)

\* A reloaded page starts a client of its own.
Reload(t) ==
  /\ tab[t].calls = <<>> /\ tab[t].made < browser.calls
  /\ "reload" \in browser.ops
  /\ tab' = [tab EXCEPT ![t] =
       [NewTab EXCEPT !.made = tab[t].made + 1, !.epoch = 1, !.status = "loading",
                      !.goal = Anyone,
                      !.calls = <<[op |-> "bootstrap", gen |-> 1, who |-> NoUser]>>]]
  /\ UNCHANGED <<browser, rows, active, jar, net, stray, gone>>

\* The queue starts its head, unless a later call has superseded it.
StartHead(t) ==
  /\ tab[t].calls # <<>> /\ tab[t].at = "" /\ Idle(t)
  /\ LET call == Head(tab[t].calls)
         k == Start(t, call.op)
     IN IF call.gen # tab[t].epoch
          THEN /\ tab' = [tab EXCEPT ![t].calls = Tail(@)]
               /\ UNCHANGED net
          ELSE /\ tab' = [tab EXCEPT ![t].at = k]
               /\ net' = [net EXCEPT ![t] = Request(k, call, jar, tab[t].csrf)]
  /\ UNCHANGED <<browser, rows, active, jar, stray, gone>>

\* What a tab shows after the end of a call; only the latest generation shows.
Anonymous(x) == [x EXCEPT !.status = "anonymous", !.user = NoUser]
\* Mutant: an answer is installed whatever its generation.
ShownLate(x, next, latest, user) ==
  IF next = "install" THEN [x EXCEPT !.status = "authenticated", !.user = user]
  ELSE Anonymous(x)

Shown(x, next, latest, user) ==
  CASE next = "install" /\ latest -> 
           [x EXCEPT !.status = "authenticated", !.user = user, !.seen = TRUE]
    [] next \in {"anonymous", "signedOut", "fail"} /\ latest -> Anonymous(x)
    [] OTHER -> x

\* The call goes on with the request next, or ends.
Proceed(t, next, j, csrf, user) ==
  LET call == Head(tab[t].calls)
      latest == call.gen = tab[t].epoch
      stops == ChecksEpoch(call.op, next) /\ ~latest
      x == [tab[t] EXCEPT !.csrf = csrf]
  IN IF next \in Kinds /\ ~stops
       THEN /\ tab' = [tab EXCEPT ![t] =
                 [(IF next = "cleanup" THEN Anonymous(x) ELSE x) EXCEPT !.at = next]]
            /\ net' = [net EXCEPT ![t] = Request(next, call, j, csrf)]
       ELSE /\ tab' = [tab EXCEPT ![t] =
                 [Shown(x, next, latest, user) EXCEPT !.calls = Tail(@), !.at = ""]]
            /\ net' = [net EXCEPT ![t] = NoExchange]

Receive(t) ==
  /\ net[t].st = "res"
  /\ LET a == net[t]
         op == Head(tab[t].calls).op
         next == Onward(t, op, tab[t].at, a.code)
     IN /\ jar' = Taken(a.sets)
        /\ Proceed(t, next, jar', Held(t, op, tab[t].at, a.code), a.user)
        /\ gone' = IF a.code = 204 /\ a.fam # NoFamily THEN gone \cup {a.fam} ELSE gone
  /\ UNCHANGED <<browser, rows, active, stray>>

\* Mutant: a lost answer is waited for without a timeout.
LoseWaiting(t) ==
  /\ browser.lossy /\ net[t].st # "none"
  /\ net' = [net EXCEPT ![t].st = "lost"]
  /\ UNCHANGED <<browser, rows, active, jar, tab, stray, gone>>

\* A timeout or a broken connection; the request may be on its way.
Lose(t) ==
  /\ browser.lossy /\ ~Idle(t)
  /\ stray' \in {stray} \cup (IF net[t].st = "req" /\ stray = {} THEN {{net[t]}} ELSE {})
  /\ Proceed(t, "fail", jar, tab[t].csrf, NoUser)
  /\ UNCHANGED <<browser, rows, active, jar, gone>>

\* A data request refused even after a refresh clears the identity.
DataRefused(t) ==
  /\ tab[t].status = "authenticated" /\ tab[t].calls = <<>>
  /\ ~(jar.access # NoFamily /\ rows[jar.access].owner \in active)
  /\ tab' = [tab EXCEPT ![t] = Anonymous(@)]
  /\ UNCHANGED <<browser, rows, active, jar, net, stray, gone>>

(* Time and the administrator.                                             *)

AccessExpires ==
  /\ jar.access # NoFamily
  /\ jar' = [jar EXCEPT !.access = NoFamily]
  /\ UNCHANGED <<browser, rows, active, tab, net, stray, gone>>

FamilyExpires(f) ==
  /\ rows[f].state = "live"
  /\ rows' = [rows EXCEPT ![f].state = "expired"]
  /\ jar' \in {jar, IF jar.refresh.fam = f THEN [jar EXCEPT !.refresh = NoToken] ELSE jar}
  /\ UNCHANGED <<browser, active, tab, net, stray, gone>>

Deactivate(u) ==
  /\ u \in active
  /\ active' = active \ {u}
  /\ UNCHANGED <<browser, rows, jar, tab, net, stray, gone>>

\* The browser is signed in with the first family; its pages are closed, or
\* open and loaded.
Init ==
  /\ browser \in Browsers
  /\ \E u \in browser.accounts :
       /\ rows = [f \in Families |-> IF f = 1 THEN [owner |-> u, state |-> "live", n |-> 1]
                                     ELSE [owner |-> NoUser, state |-> "none", n |-> 0]]
       /\ tab = [t \in Tabs |->
            IF browser.open /\ t \in browser.tabs THEN [NewTab EXCEPT !.csrf = [bind |-> 1, n |-> 1], !.user = u,
                            !.status = "authenticated", !.goal = Anyone, !.seen = TRUE]
                    ELSE NewTab]
  /\ active = browser.accounts
  /\ \E a \in {NoFamily, 1} :
       jar = [access |-> a, refresh |-> [fam |-> 1, n |-> 1], csrf |-> [bind |-> 1, n |-> 1]]
  /\ net = [t \in Tabs |-> NoExchange]
  /\ stray = {}
  /\ gone = {}

ClientStep(t) == StartHead(t) \/ Receive(t)

Next ==
  \/ \E t \in browser.tabs :
       \/ Bootstrap(t) \/ Refresh(t) \/ Login(t) \/ LogoutCall(t) \/ Reload(t)
       \/ StartHead(t) \/ Handle(t) \/ Receive(t) \/ Lose(t) \/ DataRefused(t)
  \/ HandleStray
  \/ AccessExpires
  \/ \E f \in Families : FamilyExpires(f)
  \/ \E u \in Accounts : Deactivate(u)

Spec == Init /\ [][Next]_vars

\* The server answers, and a tab takes the answers it waits for.
FairSpec ==
  Spec /\ \A t \in Tabs : WF_vars(ClientStep(t)) /\ WF_vars(Handle(t))

------------------------------------------------------------------------------
TypeOK ==
  /\ rows \in [Families -> [owner : Accounts \cup {NoUser},
                            state : {"none", "live", "expired", "revoked"}, n : Nat]]
  /\ active \subseteq Accounts
  /\ jar \in Jar
  /\ \A t \in Tabs :
       /\ tab[t].status \in {"anonymous", "loading", "authenticated"}
       /\ tab[t].csrf \in Csrf
       /\ tab[t].calls \in Seq(Call)
       /\ tab[t].at \in Kinds \cup {""}
       /\ net[t].st \in {"none", "req", "res"}
       /\ Idle(t) <=> tab[t].at = ""
  /\ gone \subseteq Families

OneTab == \E t \in Tabs : browser.tabs = {t}

\* A browser with one tab shows a user only while its latest call asked for
\* one, and then the account that call asked for: no refresh, bootstrap or
\* sign-in answered after a later sign-in or sign-out brings an earlier user
\* back, whatever the order of the answers (the epochs of session-client.ts).
SignedInAsAsked ==
  OneTab => \A t \in Tabs :
    tab[t].status = "authenticated" => tab[t].goal \in {Anyone, tab[t].user}

\* Once the browser has been told that a session is signed out its family is
\* dead, even when the cookie presented had been rotated by another tab and a
\* rotation was under way (revoke_refresh_session does not compare the jti).
SignedOutFamilyDead == \A f \in gone : rows[f].state = "revoked"

\* One tab and no lost answer: no rotation is ever asked for with a token that
\* has been consumed, so replay detection never ends an honest session.  The
\* quota refused after the rotation was staged must leave the old token valid.
NoReplay ==
  OneTab /\ ~browser.lossy => \A t \in Tabs :
    net[t].st = "req" /\ net[t].kind \in {"post", "post2"}
      /\ net[t].op \in {"bootstrap", "refresh"} /\ net[t].cookies.refresh # NoToken
      => LET tok == net[t].cookies.refresh
         IN rows[tok.fam].state = "live" => rows[tok.fam].n = tok.n

\* One tab and no lost answer: every live family is the one of the jar or of
\* the answer on its way: sign-in signs the previous family out first, and a
\* superseded or denied sign-in leaves its family where the next call finds it.
Reachable(f) ==
  \/ jar.refresh.fam = f
  \/ \E t \in Tabs : net[t].st = "res" /\ "refresh" \in DOMAIN net[t].sets
                     /\ net[t].sets.refresh.fam = f
NoOrphanSession ==
  OneTab /\ ~browser.lossy =>
    \A f \in Families : rows[f].state = "live" => Reachable(f)

\* Every call of the client settles: the queue never waits on itself and no
\* recovery or retry repeats for ever.
EveryCallSettles == \A t \in Tabs : (tab[t].calls # <<>>) ~> (tab[t].calls = <<>>)
=============================================================================
