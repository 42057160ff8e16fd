------------------------ MODULE RefreshSessions_proofs ------------------------
(***************************************************************************)
(* Proofs about RefreshSessions, for any browsers, accounts and families,  *)
(* any number of tabs and any number of calls.                             *)
(***************************************************************************)
EXTENDS RefreshSessions, FiniteSetTheorems, SequenceTheorems, TLAPS

------------------------------------------------------------------------------
(* The shape of the state.                                                 *)

Users == Accounts \cup {NoUser}
Row == [owner : Users, state : {"none", "live", "expired", "revoked"}, n : Nat]

\* The families that a sign-in of some rows has created.
Created(rs) == {f \in Families : rs[f].state # "none"}

TokenOf(C) == {NoToken} \cup [fam : C, n : Nat]
Cookies(C) == [access : {NoFamily} \cup C, refresh : TokenOf(C), csrf : Csrf]
RequestOf(C) == [st : {"req"}, kind : Kinds, op : SessionOps, who : Users,
                 cookies : Cookies(C), header : Csrf]
AnswerOf(C) == [st : {"res"}, kind : Kinds, code : Nat,
                sets : {<<>>} \cup [csrf : Csrf] \cup Cookies(C),
                user : Users, csrf : Csrf, fam : {NoFamily} \cup C]
Exchange(C) == {NoExchange} \cup RequestOf(C) \cup AnswerOf(C)
Client == [calls : Seq(Call), at : Kinds \cup {""}, csrf : Csrf, epoch : Nat,
           status : {"anonymous", "loading", "authenticated"}, user : Users,
           goal : Users \cup {Anyone}, seen : BOOLEAN, made : Nat]

\* Families are created one after the other.
RowsOK(rs) == rs \in [Families -> Row] /\ \E k \in Nat : Created(rs) = 1..k

Shape ==
  /\ browser \in Browsers /\ RowsOK(rows) /\ active \subseteq Accounts
  /\ jar \in Cookies(Created(rows))
  /\ tab \in [Tabs -> Client] /\ net \in [Tabs -> Exchange(Created(rows))]
  /\ stray \subseteq RequestOf(Created(rows)) /\ gone \subseteq Created(rows)

\* The request that a call may wait for, by what the call is.
RequestsOf(op) ==
  CASE op = "bootstrap" -> {"recover", "me", "post", "recover2", "post2", "me2"}
    [] op = "refresh" -> {"recover", "post", "recover2", "post2"}
    [] op = "logout" -> {"recover", "preauth", "post", "recover2", "post2"}
    [] OTHER -> Kinds \ {"me", "me2"}

\* A tab waits for an answer for its first call, or not at all.
Waiting(x, y) ==
  /\ y = NoExchange <=> x.at = ""
  /\ y # NoExchange =>
       /\ x.calls # <<>> /\ y.kind = x.at /\ x.at \in RequestsOf(Head(x.calls).op)
       /\ y.st = "req" => y.op = Head(x.calls).op /\ y.who = Head(x.calls).who

Waits == \A t \in Tabs : Waiting(tab[t], net[t])
OthersClosed ==
  \A t \in Tabs \ browser.tabs : net[t] = NoExchange /\ tab[t].status = "anonymous"

------------------------------------------------------------------------------
(* The inductive invariant.                                                *)

\* A sign-out that succeeded, heard of or not, has revoked its family.
SignedOut(y, rs) ==
  y.st = "res" /\ y.code = 204 /\ y.fam # NoFamily => rs[y.fam].state = "revoked"

SignOutsHold ==
  /\ \A f \in gone : rows[f].state = "revoked"
  /\ \A t \in Tabs : SignedOut(net[t], rows)

Live(rs) == {f \in Families : rs[f].state = "live"}

\* A token that is current in the only family that may be live.
Holds(tok, rs) ==
  \A f \in Live(rs) : tok # NoToken /\ tok.fam = f /\ tok.n = rs[f].n

Carries(y) == y.st = "res" /\ "refresh" \in DOMAIN y.sets

\* The places of a call at which nobody is signed in.
SignedOff(x, y) ==
  \/ x.at = "login" /\ ~(y.st = "res" /\ y.code = 200)
  \/ x.at = "preauth" /\ Head(x.calls).op # "logout"
  \/ y.st = "res" /\ y.kind = "recover" /\ y.code = 401
  \/ /\ y.st = "res" /\ y.kind \in {"post", "post2"} /\ y.code \in {200, 204}
     /\ Head(x.calls).op \notin {"bootstrap", "refresh"}

\* One tab and nothing lost: the current token is in the jar or in the answer on
\* its way there, and a sign-in is asked for when nobody is signed in.
Lossless(x, y, j, rs) ==
  /\ Holds(IF Carries(y) THEN y.sets.refresh ELSE j.refresh, rs)
  /\ y.st = "req" => Holds(y.cookies.refresh, rs)
  /\ SignedOff(x, y) => Live(rs) = {}

\* The generations of the queue, and what the latest call asked for.
Queued(x) ==
  /\ \A i \in DOMAIN x.calls :
       LET c == x.calls[i] IN
       /\ c.gen <= x.epoch /\ (x.seen => c.gen = x.epoch)
       /\ c.op \in Logins => c.who \in Accounts
       /\ c.gen = x.epoch =>
            /\ c.op \in Logins => x.goal = c.who
            /\ c.op = "bootstrap" => x.goal = Anyone
            /\ c.op = "refresh" <=> x.seen
  /\ \A i, j \in DOMAIN x.calls : i < j =>
       /\ x.calls[i].gen <= x.calls[j].gen
       /\ x.calls[j].op # "refresh" => x.calls[i].gen < x.calls[j].gen
  /\ x.seen => x.goal # NoUser

Owned(tok, u, rs) == tok # NoToken => rs[tok.fam].owner = u

\* One tab: what it has seen the cookies name is what its call asked for.
Asked(x, y, j, rs) ==
  /\ Queued(x)
  /\ x.status = "authenticated" => x.goal \in {Anyone, x.user}
  /\ x.seen /\ x.goal # Anyone =>
       /\ Owned(j.refresh, x.goal, rs)
       /\ y.st = "req" => Owned(y.cookies.refresh, x.goal, rs)
       /\ Carries(y) => Owned(y.sets.refresh, x.goal, rs)
       /\ y.st = "res" /\ y.kind \in {"post", "post2"} /\ y.code \in {200, 204} =>
            y.user = x.goal
  /\ y.st = "res" /\ y.kind = "login" /\ y.code = 200 =>
       /\ Carries(y) /\ y.user = Head(x.calls).who /\ Owned(y.sets.refresh, y.user, rs)

OnlyTab ==
  OneTab => \A t \in browser.tabs :
    /\ Asked(tab[t], net[t], jar, rows)
    /\ ~browser.lossy => stray = {} /\ Lossless(tab[t], net[t], jar, rows)

IInv == Shape /\ Waits /\ OthersClosed /\ SignOutsHold /\ OnlyTab

------------------------------------------------------------------------------
(* Families, tokens and nonces.                                            *)

\* Cookies, requests and answers about some families are about more families.
LEMMA MoreFamilies ==
    ASSUME NEW C, NEW D, C \subseteq D
    PROVE  /\ Cookies(C) \subseteq Cookies(D)
           /\ RequestOf(C) \subseteq RequestOf(D)
           /\ AnswerOf(C) \subseteq AnswerOf(D)
           /\ Exchange(C) \subseteq Exchange(D)
<1>1. TokenOf(C) \subseteq TokenOf(D)
    BY DEF TokenOf
<1>2. Cookies(C) \subseteq Cookies(D)
    BY <1>1 DEF Cookies
<1>3. RequestOf(C) \subseteq RequestOf(D)
    BY <1>2 DEF RequestOf
<1>4. AnswerOf(C) \subseteq AnswerOf(D)
    BY <1>2 DEF AnswerOf
<1> QED BY <1>2, <1>3, <1>4 DEF Exchange

\* A token or a claimed family of the cookies is one that was created.
LEMMA CookieFamilies ==
    ASSUME NEW C \in SUBSET Families, NEW c \in Cookies(C)
    PROVE  /\ c.refresh # NoToken => c.refresh.fam \in C /\ c.refresh.n \in Nat
           /\ Claimed(c) \in C \cup {NoFamily}
           /\ c.access \in C \cup {NoFamily}
           /\ c.csrf \in Csrf
<1>1. c.refresh \in TokenOf(C) /\ c.access \in C \cup {NoFamily} /\ c.csrf \in Csrf
    BY DEF Cookies
<1>2. c.refresh # NoToken => c.refresh.fam \in C /\ c.refresh.n \in Nat
    BY <1>1 DEF TokenOf
<1> QED BY <1>1, <1>2 DEF Claimed

\* Families are numbered from one, so that none is NoFamily.
LEMMA FamiliesAreNumbers == Families \subseteq Nat \ {NoFamily} /\ 1 \in Families
<1>1. Cardinality(Families) \in Nat
    BY SessionsAssumption, FS_CardinalityType
<1> QED BY <1>1, SessionsAssumption DEF NoFamily

\* The next family has not been created before.
LEMMA NextIsNew ==
    ASSUME RowsOK(rows)
    PROVE  /\ NextFamily \notin Created(rows)
           /\ NextFamily \in Nat
           /\ Created(rows) \cup {NextFamily} = 1..NextFamily
<1>1. PICK k \in Nat : Created(rows) = 1..k
    BY DEF RowsOK
<1>2. Cardinality(Created(rows)) = k
    BY <1>1, FS_Interval
<1>3. NextFamily = k + 1
    BY <1>2 DEF NextFamily, Created
<1> QED BY <1>1, <1>3

\* Fewer nonces are in use than there are.

LEMMA FreshIsNonce == ASSUME Shape PROVE Fresh \in Nonces
<1> DEFINE Held1 == [t \in Tabs |-> tab[t].csrf.n]
           Held2 == [t \in Tabs |-> IF net[t].st = "res" THEN net[t].csrf.n
                                    ELSE IF net[t].st = "req" THEN net[t].cookies.csrf.n
                                    ELSE 0]
           One == {Held1[t] : t \in Tabs}
           Two == {Held2[t] : t \in Tabs}
<1>1. IsFiniteSet(One) /\ Cardinality(One) <= Cardinality(Tabs)
  <2>1. Held1 \in Surjection(Tabs, One)
      BY DEF Surjection
  <2> QED BY <2>1, SessionsAssumption, FS_Surjection
<1>2. IsFiniteSet(Two) /\ Cardinality(Two) <= Cardinality(Tabs)
  <2>1. Held2 \in Surjection(Tabs, Two)
      BY DEF Surjection
  <2> QED BY <2>1, SessionsAssumption, FS_Surjection
<1>3. Cardinality(Tabs) \in Nat /\ Cardinality(One) \in Nat /\ Cardinality(Two) \in Nat
    BY <1>1, <1>2, SessionsAssumption, FS_CardinalityType
<1>4. IsFiniteSet(One \cup Two) /\ Cardinality(One \cup Two) <= 2 * Cardinality(Tabs)
  <2> HIDE DEF One, Two
  <2>1. /\ IsFiniteSet(One \cup Two)
        /\ Cardinality(One \cup Two) =
             Cardinality(One) + Cardinality(Two) - Cardinality(One \cap Two)
      BY <1>1, <1>2, FS_Union
  <2>2. Cardinality(One \cap Two) \in Nat
      BY <1>1, FS_Subset, FS_CardinalityType
  <2> QED BY <1>1, <1>2, <1>3, <2>1, <2>2
<1>5. /\ IsFiniteSet((One \cup Two) \cup {jar.csrf.n})
      /\ Cardinality((One \cup Two) \cup {jar.csrf.n}) <= 2 * Cardinality(Tabs) + 1
  <2> HIDE DEF One, Two
  <2>1. PICK S : S = One \cup Two
      OBVIOUS
  <2>2. IsFiniteSet(S) /\ Cardinality(S) <= 2 * Cardinality(Tabs)
      BY <1>4, <2>1
  <2>3. Cardinality(S) \in Nat
      BY <2>2, FS_CardinalityType
  <2>4. /\ IsFiniteSet(S \cup {jar.csrf.n})
        /\ Cardinality(S \cup {jar.csrf.n}) =
             IF jar.csrf.n \in S THEN Cardinality(S) ELSE Cardinality(S) + 1
      BY <2>2, FS_AddElement
  <2>5. Cardinality(S \cup {jar.csrf.n}) <= 2 * Cardinality(Tabs) + 1
      BY <1>3, <2>2, <2>3, <2>4
  <2> QED BY <2>1, <2>4, <2>5
<1>6. IsFiniteSet(Nonces) /\ Cardinality(Nonces) = 2 * Cardinality(Tabs) + 3
  <2>1. PICK m \in Nat : m = 2 * Cardinality(Tabs) + 3
      BY <1>3
  <2>2. IsFiniteSet(1..m) /\ Cardinality(1..m) = m
    <3>1. /\ IsFiniteSet(1..m)
          /\ Cardinality(1..m) = IF 1 > m THEN 0 ELSE m - 1 + 1
        BY FS_Interval
    <3> QED BY <3>1
  <2> QED BY <2>1, <2>2 DEF Nonces
<1>7. PICK k \in Nonces : k \notin (One \cup Two) \cup {jar.csrf.n}
  <2> HIDE DEF One, Two
  <2>1. SUFFICES ASSUME Nonces \subseteq (One \cup Two) \cup {jar.csrf.n}
                 PROVE  FALSE
      OBVIOUS
  <2>2. Cardinality(Nonces) <= Cardinality((One \cup Two) \cup {jar.csrf.n})
      BY <1>5, <2>1, FS_Subset
  <2>3. Cardinality((One \cup Two) \cup {jar.csrf.n}) \in Nat
      BY <1>5, FS_CardinalityType
  <2> QED BY <1>3, <1>5, <1>6, <2>2, <2>3
<1>8. jar.csrf.n # k
    BY <1>7
<1>9. ASSUME NEW t \in Tabs
      PROVE  /\ tab[t].csrf.n # k
             /\ net[t].st = "res" => net[t].csrf.n # k
             /\ net[t].st = "req" => net[t].cookies.csrf.n # k
    BY <1>7
<1> QED BY <1>7, <1>8, <1>9 DEF Fresh

LEMMA NewCsrfIsCsrf ==
    ASSUME Shape, NEW f \in Families \cup {Preauth}
    PROVE  NewCsrf(f) \in Csrf
BY FreshIsNonce DEF NewCsrf, Csrf

------------------------------------------------------------------------------
(* What the handlers do: five ways to answer a request.                    *)

Answers(r, a, C) == a \in AnswerOf(C) /\ a.kind = r.kind /\ a.fam = Claimed(r.cookies)

\* The rows are left alone.
Keeps(r, a, rs) ==
  /\ rs = rows /\ ~Carries(a) /\ a.code # 204
  /\ r.kind = "recover" /\ a.code = 401 => RecoveryRefused(r, Claimed(r.cookies))
  /\ r.kind \in {"post", "post2", "login"} => a.code # 200

\* A distrusted token ends its family.
Distrusts(r, a, rs) ==
  /\ \E f \in Created(rows) : rs = Revoked(f)
  /\ ~Carries(a) /\ a.code = 401 /\ r.kind \in {"post", "post2"}

Rotates(r, a, rs) ==
  /\ r.kind \in {"post", "post2"} /\ r.op \in {"bootstrap", "refresh"}
  /\ r.cookies.refresh # NoToken /\ rows[r.cookies.refresh.fam].state = "live"
  /\ rs = Rotated(r.cookies.refresh.fam) /\ a.code = 200 /\ Carries(a)
  /\ a.sets.refresh = [fam |-> r.cookies.refresh.fam, n |-> rows[r.cookies.refresh.fam].n + 1]
  /\ a.user = rows[r.cookies.refresh.fam].owner

SignsOut(r, a, rs) ==
  /\ r.kind \in {"post", "post2", "cleanup", "cleanup2"}
  /\ r.kind \in {"post", "post2"} => r.op \notin {"bootstrap", "refresh"}
  /\ rs = Logout(r) /\ a.code = 204 /\ Carries(a) /\ a.sets.refresh = NoToken

SignsIn(r, a, rs) ==
  /\ r.kind = "login" /\ NextFamily \in Families /\ r.who \in Accounts
  /\ rs = [rows EXCEPT ![NextFamily] = [owner |-> r.who, state |-> "live", n |-> 1]]
  /\ a.code = 200 /\ Carries(a) /\ a.sets.refresh = [fam |-> NextFamily, n |-> 1]
  /\ a.user = r.who

Effects(r, a, rs) ==
  \/ Keeps(r, a, rs) \/ Distrusts(r, a, rs) \/ Rotates(r, a, rs)
  \/ SignsOut(r, a, rs) \/ SignsIn(r, a, rs)

\* What later families keep of earlier ones.
Grows(rs, rt) ==
  /\ Created(rs) \subseteq Created(rt)
  /\ \A f \in Created(rs) : rt[f].owner = rs[f].owner
  /\ \A f \in Families : rs[f].state = "revoked" => rt[f].state = "revoked"

LEMMA NothingCarried ==
    ASSUME NEW a, a.sets = <<>> \/ (\E c \in Csrf : a.sets = [csrf |-> c])
    PROVE  ~Carries(a)
<1>1. CASE a.sets = <<>>
    BY <1>1 DEF Carries
<1>2. CASE \E c \in Csrf : a.sets = [csrf |-> c]
    BY <1>2 DEF Carries
<1> QED BY <1>1, <1>2

LEMMA CookiesCarried ==
    ASSUME NEW a, NEW C, a.st = "res", a.sets \in Cookies(C)
    PROVE  Carries(a)
BY DEF Carries, Cookies

LEMMA RequestNames ==
    ASSUME NEW C \in SUBSET Families, NEW r \in RequestOf(C)
    PROVE  r.kind \in Kinds /\ Claimed(r.cookies) \in {NoFamily} \cup C
<1>1. r.kind \in Kinds /\ r.cookies \in Cookies(C)
    BY DEF RequestOf
<1> QED BY <1>1, CookieFamilies

LEMMA AnswerFields ==
    ASSUME NEW r, NEW code, NEW sets, NEW user, NEW csrf, NEW a,
           a = Answer(r, code, sets, user, csrf)
    PROVE  /\ a.st = "res" /\ a.code = code /\ a.sets = sets /\ a.user = user
           /\ a.csrf = csrf /\ a.kind = r.kind
BY DEF Answer

LEMMA RefusalsFit ==
    ASSUME NEW C \in SUBSET Families, NEW D \in SUBSET Families, C \subseteq D,
           NEW r \in RequestOf(C), NEW code \in Nat, NEW a, a = Refusal(r, code)
    PROVE  Answers(r, a, D) /\ a.code = code /\ ~Carries(a)
<1>1. NoUser \in Users /\ NoCsrf \in Csrf
    BY DEF Users, Csrf
<1>2. a = Answer(r, code, <<>>, NoUser, NoCsrf)
    BY DEF Refusal
<1>3. r.kind \in Kinds /\ Claimed(r.cookies) \in {NoFamily} \cup D
    BY RequestNames
<1>4. Answers(r, a, D)
    BY <1>1, <1>2, <1>3 DEF Answers, Answer, AnswerOf
<1>5. a.code = code /\ a.sets = <<>>
    BY <1>2, AnswerFields
<1> QED BY <1>4, <1>5, NothingCarried

\* What becomes of the rows.
LEMMA RevokedGrows ==
    ASSUME RowsOK(rows), NEW f \in Created(rows)
    PROVE  /\ RowsOK(Revoked(f)) /\ Created(Revoked(f)) = Created(rows)
           /\ Grows(rows, Revoked(f)) /\ Revoked(f)[f].state = "revoked"
           /\ Live(Revoked(f)) = Live(rows) \ {f}
           /\ \A g \in Families : Revoked(f)[g].n = rows[g].n
<1>1. rows \in [Families -> Row] /\ f \in Families
    BY DEF RowsOK, Created
<1>2. Revoked(f) \in [Families -> Row]
    BY <1>1 DEF Revoked, Row
<1>3. \A g \in Families :
        /\ Revoked(f)[g].state = IF g = f THEN "revoked" ELSE rows[g].state
        /\ Revoked(f)[g].owner = rows[g].owner /\ Revoked(f)[g].n = rows[g].n
    BY <1>1 DEF Revoked, Row
<1>4. Created(Revoked(f)) = Created(rows)
    BY <1>3 DEF Created
<1> QED BY <1>1, <1>2, <1>3, <1>4 DEF RowsOK, Grows, Live, Created

LEMMA RotatedGrows ==
    ASSUME RowsOK(rows), NEW f \in Created(rows)
    PROVE  /\ RowsOK(Rotated(f)) /\ Created(Rotated(f)) = Created(rows)
           /\ Grows(rows, Rotated(f)) /\ Live(Rotated(f)) = Live(rows)
           /\ \A g \in Families :
                Rotated(f)[g].n = IF g = f THEN rows[g].n + 1 ELSE rows[g].n
<1>1. rows \in [Families -> Row] /\ f \in Families
    BY DEF RowsOK, Created
<1>2. Rotated(f) \in [Families -> Row]
    BY <1>1 DEF Rotated, Row
<1>3. \A g \in Families :
        /\ Rotated(f)[g].state = rows[g].state /\ Rotated(f)[g].owner = rows[g].owner
        /\ Rotated(f)[g].n = IF g = f THEN rows[g].n + 1 ELSE rows[g].n
    BY <1>1 DEF Rotated, Row
<1>4. Created(Rotated(f)) = Created(rows)
    BY <1>3 DEF Created
<1> QED BY <1>1, <1>2, <1>3, <1>4 DEF RowsOK, Grows, Live, Created

LEMMA SignedInGrows ==
    ASSUME RowsOK(rows), NextFamily \in Families, NEW u \in Accounts, NEW rs,
           rs = [rows EXCEPT ![NextFamily] = [owner |-> u, state |-> "live", n |-> 1]]
    PROVE  /\ RowsOK(rs) /\ Created(rs) = Created(rows) \cup {NextFamily}
           /\ Grows(rows, rs) /\ Live(rs) = Live(rows) \cup {NextFamily}
           /\ rs[NextFamily].n = 1 /\ rs[NextFamily].owner = u
           /\ \A g \in Created(rows) : rs[g] = rows[g]
<1>1. /\ rows \in [Families -> Row] /\ NextFamily \notin Created(rows) /\ NextFamily \in Nat
      /\ Created(rows) \cup {NextFamily} = 1..NextFamily
    BY NextIsNew DEF RowsOK
<1>2. PICK w : w = [owner |-> u, state |-> "live", n |-> 1]
    OBVIOUS
<1>3. w \in Row /\ w.state = "live" /\ w.n = 1 /\ w.owner = u
    BY <1>2 DEF Row, Users
<1>4. PICK m : m = NextFamily
    OBVIOUS
<1>5. rs = [rows EXCEPT ![m] = w]
    BY <1>2, <1>4
<1>6. rs \in [Families -> Row] /\ rs[m] = w /\ \A g \in Families : g # m => rs[g] = rows[g]
    BY <1>1, <1>3, <1>4, <1>5
<1>7. rows[m].state = "none"
    BY <1>1, <1>4 DEF Created
<1>8. Created(rs) = Created(rows) \cup {m}
    BY <1>3, <1>4, <1>6 DEF Created
<1>9. Live(rs) = Live(rows) \cup {m}
    BY <1>3, <1>4, <1>6 DEF Live
<1>10. Grows(rows, rs)
    BY <1>3, <1>4, <1>6, <1>7, <1>8 DEF Grows, Created
<1>11. RowsOK(rs)
    BY <1>1, <1>4, <1>6, <1>8 DEF RowsOK
<1>12. \A g \in Created(rows) : rs[g] = rows[g]
    BY <1>1, <1>4, <1>6 DEF Created
<1> QED BY <1>3, <1>4, <1>6, <1>8, <1>9, <1>10, <1>11, <1>12

\* Sign-out leaves the family that was claimed revoked.
LEMMA LogoutGrows ==
    ASSUME RowsOK(rows), NEW r \in RequestOf(Created(rows))
    PROVE  /\ RowsOK(Logout(r)) /\ Created(Logout(r)) = Created(rows)
           /\ Grows(rows, Logout(r)) /\ Live(Logout(r)) \subseteq Live(rows)
           /\ \A g \in Families : Logout(r)[g].n = rows[g].n
           /\ Claimed(r.cookies) # NoFamily =>
                Logout(r)[Claimed(r.cookies)].state = "revoked"
<1>1. PICK f : f = Claimed(r.cookies)
    OBVIOUS
<1>2. f \in Created(rows) \cup {NoFamily}
  <2>1. r.cookies \in Cookies(Created(rows))
      BY DEF RequestOf
  <2>2. Created(rows) \in SUBSET Families
      BY DEF Created
  <2> QED BY <1>1, <2>1, <2>2, CookieFamilies
<1>3. rows \in [Families -> Row]
    BY DEF RowsOK
<1>4. CASE f # NoFamily /\ rows[f].state \in {"live", "expired"}
  <2>1. Logout(r) = Revoked(f) /\ f \in Created(rows)
      BY <1>1, <1>2, <1>4 DEF Logout
  <2> QED BY <1>1, <2>1, RevokedGrows
<1>5. CASE ~(f # NoFamily /\ rows[f].state \in {"live", "expired"})
  <2>1. Logout(r) = rows
      BY <1>1, <1>5 DEF Logout
  <2>2. f # NoFamily => rows[f].state = "revoked"
      BY <1>2, <1>3, <1>5 DEF Created, Row
  <2> QED BY <1>1, <2>1, <2>2 DEF Grows
<1> QED BY <1>4, <1>5

\* An answer without a refresh cookie, or with all three.
LEMMA PlainAnswer ==
    ASSUME NEW C \in SUBSET Families, NEW r \in RequestOf(C), NEW code \in Nat,
           NEW sets, NEW user \in Users, NEW csrf \in Csrf,
           sets = <<>> \/ (\E c \in Csrf : sets = [csrf |-> c])
    PROVE  LET a == Answer(r, code, sets, user, csrf)
           IN Answers(r, a, C) /\ a.code = code /\ a.user = user /\ ~Carries(a)
<1>1. sets = <<>> \/ sets \in [csrf : Csrf] \cup Cookies(C)
    OBVIOUS
<1>2. PICK a : a = Answer(r, code, sets, user, csrf)
    OBVIOUS
<1>3. r.kind \in Kinds /\ Claimed(r.cookies) \in {NoFamily} \cup C
    BY RequestNames
<1>4. Answers(r, a, C)
    BY <1>1, <1>2, <1>3 DEF Answers, Answer, AnswerOf
<1>5. a.code = code /\ a.sets = sets /\ a.user = user
    BY <1>2, AnswerFields
<1>6. ~Carries(a)
    BY <1>5, NothingCarried
<1> QED BY <1>2, <1>4, <1>5, <1>6

LEMMA SessionAnswer ==
    ASSUME NEW C \in SUBSET Families, NEW D \in SUBSET Families, C \subseteq D,
           NEW r \in RequestOf(C), NEW code \in Nat, NEW sets \in Cookies(D),
           NEW user \in Users, NEW csrf \in Csrf
    PROVE  LET a == Answer(r, code, sets, user, csrf)
           IN /\ Answers(r, a, D) /\ a.code = code /\ a.user = user
              /\ a.sets = sets /\ Carries(a)
<1>1. sets = <<>> \/ sets \in [csrf : Csrf] \cup Cookies(D)
    OBVIOUS
<1>2. PICK a : a = Answer(r, code, sets, user, csrf)
    OBVIOUS
<1>3. r.kind \in Kinds /\ Claimed(r.cookies) \in {NoFamily} \cup D
    BY RequestNames
<1>4. Answers(r, a, D)
    BY <1>1, <1>2, <1>3 DEF Answers, Answer, AnswerOf
<1>5. a.st = "res" /\ a.code = code /\ a.sets = sets /\ a.user = user
    BY <1>2, AnswerFields
<1>6. Carries(a)
    BY <1>5, CookiesCarried
<1> QED BY <1>2, <1>4, <1>5, <1>6

LEMMA RecoverEffects ==
    ASSUME Shape, NEW r \in RequestOf(Created(rows)), r.kind \notin {"post", "post2", "login"},
           NEW a, a = RecoverAnswer(r)
    PROVE  Answers(r, a, Created(rows)) /\ Effects(r, a, rows)
<1>1. PICK C \in SUBSET Families : C = Created(rows)
    BY DEF Created
<1>2. r.cookies \in Cookies(C)
    BY <1>1 DEF RequestOf
<1>3. PICK f : f = Claimed(r.cookies)
    OBVIOUS
<1>4. CASE RecoveryRefused(r, f)
  <2>1. a = Refusal(r, 401)
      BY <1>3, <1>4 DEF RecoverAnswer
  <2>2. Answers(r, a, C) /\ a.code = 401 /\ ~Carries(a)
      BY <1>1, <2>1, RefusalsFit
  <2> QED BY <1>1, <1>3, <1>4, <2>2 DEF Effects, Keeps
<1>5. CASE ~RecoveryRefused(r, f)
  <2>1. f \in C
      BY <1>2, <1>3, <1>5, CookieFamilies DEF RecoveryRefused
  <2>2. NewCsrf(f) \in Csrf
      BY <2>1, NewCsrfIsCsrf
  <2>3. NoUser \in Users /\ r.cookies.csrf \in Csrf /\ 200 \in Nat
      BY <1>2, CookieFamilies DEF Users
  <2>4. CASE r.cookies.csrf.bind = f
    <3>1. ~RecoveryRefused(r, Claimed(r.cookies)) /\ r.cookies.csrf.bind = Claimed(r.cookies)
        BY <1>3, <1>5, <2>4
    <3>2. a = Answer(r, 200, <<>>, NoUser, r.cookies.csrf)
        BY <3>1 DEF RecoverAnswer
    <3>3. Answers(r, a, C) /\ a.code = 200 /\ ~Carries(a)
        BY <1>1, <2>3, <3>2, PlainAnswer
    <3> QED BY <1>1, <3>3 DEF Effects, Keeps
  <2>5. CASE r.cookies.csrf.bind # f
    <3>1. ~RecoveryRefused(r, Claimed(r.cookies)) /\ r.cookies.csrf.bind # Claimed(r.cookies)
        BY <1>3, <1>5, <2>5
    <3>2. PICK d \in Csrf : d = NewCsrf(Claimed(r.cookies))
        BY <1>3, <2>2
    <3>3. a = Answer(r, 200, [csrf |-> d], NoUser, d)
        BY <3>1, <3>2 DEF RecoverAnswer
    <3>4. Answers(r, a, C) /\ a.code = 200 /\ ~Carries(a)
        BY <1>1, <2>3, <3>3, PlainAnswer
    <3> QED BY <1>1, <3>4 DEF Effects, Keeps
  <2> QED BY <2>4, <2>5
<1> QED BY <1>4, <1>5

LEMMA MeEffects ==
    ASSUME Shape, NEW r \in RequestOf(Created(rows)), r.kind \in {"me", "me2"},
           NEW a, a = MeAnswer(r)
    PROVE  Answers(r, a, Created(rows)) /\ Effects(r, a, rows)
<1>1. PICK C \in SUBSET Families : C = Created(rows)
    BY DEF Created
<1>2. r.cookies \in Cookies(C)
    BY <1>1 DEF RequestOf
<1>3. CASE r.cookies.access = NoFamily \/ rows[r.cookies.access].owner \notin active
  <2>1. a = Refusal(r, 401)
      BY <1>3 DEF MeAnswer
  <2>2. Answers(r, a, C) /\ a.code = 401 /\ ~Carries(a)
      BY <1>1, <2>1, RefusalsFit
  <2> QED BY <1>1, <2>2 DEF Effects, Keeps
<1>4. CASE ~(r.cookies.access = NoFamily \/ rows[r.cookies.access].owner \notin active)
  <2>1. PICK u \in Users : u = rows[r.cookies.access].owner
      BY <1>4 DEF Shape, Users
  <2>2. a = Answer(r, 200, <<>>, u, NoCsrf) /\ NoCsrf \in Csrf
      BY <1>4, <2>1 DEF MeAnswer, Csrf
  <2>3. Answers(r, a, C) /\ a.code = 200 /\ ~Carries(a)
      BY <1>1, <2>2, PlainAnswer
  <2> QED BY <1>1, <2>3 DEF Effects, Keeps
<1> QED BY <1>3, <1>4

\* A refusal changes nothing, unless it says that a recovery found no session.
LEMMA RefusalEffects ==
    ASSUME Shape, NEW r \in RequestOf(Created(rows)), NEW code \in Nat \ {200, 204},
           r.kind = "recover" => code # 401, NEW a, a = Refusal(r, code)
    PROVE  Answers(r, a, Created(rows)) /\ Effects(r, a, rows)
<1>1. PICK C \in SUBSET Families : C = Created(rows)
    BY DEF Created
<1>2. Answers(r, a, C) /\ a.code = code /\ ~Carries(a)
    BY <1>1, RefusalsFit
<1> QED BY <1>1, <1>2 DEF Effects, Keeps

LEMMA RefreshEffects ==
    ASSUME Shape, NEW r \in RequestOf(Created(rows)), r.kind \in {"post", "post2"},
           r.op \in {"bootstrap", "refresh"}, NEW h \in HandleRefresh(r)
    PROVE  Answers(r, h[1], Created(h[2])) /\ Effects(r, h[1], h[2])
<1>1. PICK C \in SUBSET Families : C = Created(rows)
    BY DEF Created
<1>2. r.cookies \in Cookies(C) /\ RowsOK(rows) /\ rows \in [Families -> Row]
    BY <1>1 DEF RequestOf, Shape, RowsOK
<1>3. PICK tok, f : tok = r.cookies.refresh /\ f = tok.fam
    OBVIOUS
<1>4. tok # NoToken => f \in C /\ f \in Families /\ tok.n \in Nat
    BY <1>2, <1>3, CookieFamilies
<1>5. CASE h[2] = rows /\ \E code \in {401, 403, 429} : h[1] = Refusal(r, code)
    BY <1>5, RefusalEffects
<1>6. CASE h = <<Refusal(r, 401), Revoked(f)>> /\ f \in C
  <2>1. Answers(r, h[1], C) /\ h[1].code = 401 /\ ~Carries(h[1])
      BY <1>1, <1>6, RefusalsFit
  <2>2. Created(h[2]) = C
      BY <1>1, <1>2, <1>6, RevokedGrows
  <2> QED BY <1>1, <1>6, <2>1, <2>2 DEF Effects, Distrusts
<1>7. CASE /\ tok # NoToken /\ rows[f].state = "live"
           /\ h = <<Answer(r, 200, SessionCookies(f, rows[f].n + 1, NewCsrf(f)),
                           rows[f].owner, NewCsrf(f)), Rotated(f)>>
  <2>1. PICK sets, c, u, k :
          /\ sets = SessionCookies(f, k, c) /\ c = NewCsrf(f)
          /\ u = rows[f].owner /\ k = rows[f].n + 1
      OBVIOUS
  <2>2. c \in Csrf /\ u \in Users /\ k \in Nat
      BY <1>2, <1>4, <1>7, <2>1, NewCsrfIsCsrf DEF Row
  <2>3. sets \in Cookies(C) /\ sets.refresh = [fam |-> f, n |-> k]
      BY <1>4, <1>7, <2>1, <2>2 DEF SessionCookies, Cookies, TokenOf
  <2>4. h[1] = Answer(r, 200, sets, u, c) /\ h[2] = Rotated(f)
      BY <1>7, <2>1
  <2>5. /\ Answers(r, h[1], C) /\ h[1].code = 200 /\ h[1].user = u
        /\ h[1].sets = sets /\ Carries(h[1])
      BY <1>1, <2>2, <2>3, <2>4, SessionAnswer
  <2>6. Created(h[2]) = C
      BY <1>1, <1>2, <1>4, <1>7, <2>4, RotatedGrows
  <2>7. Rotates(r, h[1], h[2])
    <3>1. tok # NoToken /\ rows[f].state = "live"
        BY <1>7
    <3>2. h[1].sets.refresh = [fam |-> f, n |-> rows[f].n + 1] /\ h[1].user = rows[f].owner
        BY <2>1, <2>3, <2>5
    <3>3. h[1].code = 200 /\ Carries(h[1]) /\ h[2] = Rotated(f)
        BY <2>4, <2>5
    <3> QED BY <1>3, <3>1, <3>2, <3>3 DEF Rotates
  <2> QED BY <2>5, <2>6, <2>7 DEF Effects
<1>8. \/ h[2] = rows /\ \E code \in {401, 403, 429} : h[1] = Refusal(r, code)
      \/ h = <<Refusal(r, 401), Revoked(f)>> /\ f \in C
      \/ /\ tok # NoToken /\ rows[f].state = "live"
         /\ h = <<Answer(r, 200, SessionCookies(f, rows[f].n + 1, NewCsrf(f)),
                         rows[f].owner, NewCsrf(f)), Rotated(f)>>
  <2>1. CASE tok = NoToken \/ ~CsrfOk(r, f) \/ rows[f].state \in {"none", "revoked"}
      BY <1>3, <2>1 DEF HandleRefresh
  <2>2. CASE /\ ~(tok = NoToken \/ ~CsrfOk(r, f) \/ rows[f].state \in {"none", "revoked"})
             /\ Distrusted(tok)
      BY <1>3, <1>4, <2>2 DEF HandleRefresh
  <2>3. CASE /\ ~(tok = NoToken \/ ~CsrfOk(r, f) \/ rows[f].state \in {"none", "revoked"})
             /\ ~Distrusted(tok)
    <3>1. rows[f].state = "live"
      <4>1. rows[f].state # "expired"
          BY <1>3, <2>3 DEF Distrusted
      <4> QED BY <1>2, <1>4, <2>3, <4>1 DEF Row
    <3>2. h \in {RateLimited(r),
                 <<Answer(r, 200, SessionCookies(f, rows[f].n + 1, NewCsrf(f)),
                          rows[f].owner, NewCsrf(f)), Rotated(f)>>}
        BY <1>3, <2>3 DEF HandleRefresh
    <3> QED BY <2>3, <3>1, <3>2 DEF RateLimited
  <2> QED BY <2>1, <2>2, <2>3
<1> QED BY <1>5, <1>6, <1>7, <1>8

LEMMA LogoutEffects ==
    ASSUME Shape, NEW r \in RequestOf(Created(rows)),
           r.kind \in {"post", "post2", "cleanup", "cleanup2"},
           r.kind \in {"post", "post2"} => r.op \notin {"bootstrap", "refresh"},
           NEW h \in HandleLogout(r)
    PROVE  Answers(r, h[1], Created(h[2])) /\ Effects(r, h[1], h[2])
<1>1. PICK C \in SUBSET Families : C = Created(rows)
    BY DEF Created
<1>2. CASE h[2] = rows /\ \E code \in {403, 503} : h[1] = Refusal(r, code)
    BY <1>2, RefusalEffects
<1>3. CASE h = <<Answer(r, 204, [access |-> NoFamily, refresh |-> NoToken, csrf |-> NoCsrf],
                        NoUser, NoCsrf), Logout(r)>>
  <2>1. PICK sets, c, u :
          /\ sets = [access |-> NoFamily, refresh |-> NoToken, csrf |-> NoCsrf]
          /\ c = NoCsrf /\ u = NoUser
      OBVIOUS
  <2>2. c \in Csrf /\ u \in Users /\ sets \in Cookies(C) /\ sets.refresh = NoToken
      BY <2>1 DEF Csrf, Users, Cookies, TokenOf
  <2>3. h[1] = Answer(r, 204, sets, u, c) /\ h[2] = Logout(r)
      BY <1>3, <2>1
  <2>4. /\ Answers(r, h[1], C) /\ h[1].code = 204
        /\ h[1].sets = sets /\ Carries(h[1])
      BY <1>1, <2>2, <2>3, SessionAnswer
  <2>5. Created(h[2]) = C
      BY <1>1, <2>3, LogoutGrows DEF Shape
  <2> QED BY <1>1, <2>2, <2>3, <2>4, <2>5 DEF Effects, SignsOut
<1> QED BY <1>2, <1>3 DEF HandleLogout

LEMMA LoginEffects ==
    ASSUME Shape, NEW r \in RequestOf(Created(rows)), r.kind = "login",
           NEW h \in HandleLogin(r)
    PROVE  Answers(r, h[1], Created(h[2])) /\ Effects(r, h[1], h[2])
<1>1. PICK C \in SUBSET Families : C = Created(rows)
    BY DEF Created
<1>2. CASE h[2] = rows /\ \E code \in {401, 403, 429} : h[1] = Refusal(r, code)
    BY <1>2, RefusalEffects
<1>3. CASE /\ r.who \in active
           /\ \E f \in Families \cap {NextFamily} :
                h = <<Answer(r, 200, SessionCookies(f, 1, NewCsrf(f)), r.who, NewCsrf(f)),
                      [rows EXCEPT ![f] = [owner |-> r.who, state |-> "live", n |-> 1]]>>
  <2>1. PICK f \in Families :
          /\ f = NextFamily
          /\ h = <<Answer(r, 200, SessionCookies(f, 1, NewCsrf(f)), r.who, NewCsrf(f)),
                   [rows EXCEPT ![f] = [owner |-> r.who, state |-> "live", n |-> 1]]>>
      BY <1>3
  <2>2. r.who \in Accounts /\ r.who \in Users
      BY <1>3 DEF Shape, Users
  <2>3. PICK D \in SUBSET Families : D = Created(h[2])
      BY DEF Created
  <2>4. D = C \cup {f}
      BY <1>1, <2>1, <2>2, <2>3, SignedInGrows DEF Shape
  <2>5. PICK sets, c : sets = SessionCookies(f, 1, c) /\ c = NewCsrf(f)
      OBVIOUS
  <2>6. c \in Csrf
      BY <2>5, NewCsrfIsCsrf
  <2>7. sets \in Cookies(D) /\ sets.refresh = [fam |-> f, n |-> 1]
      BY <2>4, <2>5, <2>6 DEF SessionCookies, Cookies, TokenOf
  <2>8. h[1] = Answer(r, 200, sets, r.who, c)
      BY <2>1, <2>5
  <2>9. /\ Answers(r, h[1], D) /\ h[1].code = 200 /\ h[1].user = r.who
        /\ h[1].sets = sets /\ Carries(h[1])
      BY <1>1, <2>2, <2>4, <2>6, <2>7, <2>8, SessionAnswer
  <2>10. h[2] = [rows EXCEPT ![NextFamily] = [owner |-> r.who, state |-> "live", n |-> 1]]
      BY <2>1
  <2> QED BY <2>1, <2>2, <2>3, <2>7, <2>9, <2>10 DEF Effects, SignsIn
<1> QED BY <1>2, <1>3 DEF HandleLogin, RateLimited

\* Every answer is one of the five.
LEMMA HandledEffects ==
    ASSUME Shape, NEW r \in RequestOf(Created(rows)),
           NEW h \in Handled(r) \cup {RateLimited(r)}
    PROVE  Answers(r, h[1], Created(h[2])) /\ Effects(r, h[1], h[2])
<1>1. r.kind \in Kinds
    BY DEF RequestOf
<1>2. CASE h = RateLimited(r)
    BY <1>2, RefusalEffects DEF RateLimited
<1>3. CASE h \in Handled(r) /\ r.kind \in {"recover", "recover2", "recover3"}
  <2>1. h = <<RecoverAnswer(r), rows>>
      BY <1>3 DEF Handled
  <2> QED BY <1>3, <2>1, RecoverEffects
<1>4. CASE h \in Handled(r) /\ r.kind \in {"me", "me2"}
  <2>1. h = <<MeAnswer(r), rows>>
      BY <1>4 DEF Handled
  <2> QED BY <1>4, <2>1, MeEffects
<1>5. CASE /\ h \in Handled(r) /\ r.kind \in {"post", "post2"}
           /\ r.op \in {"bootstrap", "refresh"}
  <2>1. h \in HandleRefresh(r)
      BY <1>5 DEF Handled
  <2> QED BY <1>5, <2>1, RefreshEffects
<1>6. CASE h \in Handled(r) /\ r.kind = "login"
  <2>1. h \in HandleLogin(r)
      BY <1>6 DEF Handled
  <2> QED BY <1>6, <2>1, LoginEffects
<1>7. CASE h \in Handled(r) /\ r.kind = "preauth"
  <2>1. h = <<Answer(r, 200, [csrf |-> NewCsrf(Preauth)], NoUser, NewCsrf(Preauth)), rows>>
      BY <1>7 DEF Handled
  <2>2. PICK c \in Csrf : c = NewCsrf(Preauth)
      BY NewCsrfIsCsrf
  <2>3. PICK C \in SUBSET Families : C = Created(rows)
      BY DEF Created
  <2>4. NoUser \in Users /\ h[1] = Answer(r, 200, [csrf |-> c], NoUser, c)
      BY <2>1, <2>2 DEF Users
  <2>5. Answers(r, h[1], C) /\ h[1].code = 200 /\ ~Carries(h[1])
      BY <2>3, <2>4, PlainAnswer
  <2> QED BY <1>7, <2>1, <2>3, <2>5 DEF Effects, Keeps
<1>8. CASE /\ h \in Handled(r) /\ r.kind \in {"post", "post2", "cleanup", "cleanup2"}
           /\ r.kind \in {"post", "post2"} => r.op \notin {"bootstrap", "refresh"}
  <2>1. h \in HandleLogout(r)
      BY <1>8 DEF Handled
  <2> QED BY <1>8, <2>1, LogoutEffects
<1> QED BY <1>1, <1>2, <1>3, <1>4, <1>5, <1>6, <1>7, <1>8 DEF Kinds

\* What an answer leaves of the rows.
LEMMA EffectsGrow ==
    ASSUME RowsOK(rows), NEW r \in RequestOf(Created(rows)), NEW a, NEW rs,
           Effects(r, a, rs)
    PROVE  RowsOK(rs) /\ Grows(rows, rs)
<1>1. CASE Keeps(r, a, rs)
    BY <1>1 DEF Keeps, Grows
<1>2. CASE Distrusts(r, a, rs)
    BY <1>2, RevokedGrows DEF Distrusts
<1>3. CASE Rotates(r, a, rs)
  <2>1. r.cookies \in Cookies(Created(rows)) /\ Created(rows) \in SUBSET Families
      BY DEF RequestOf, Created
  <2>2. r.cookies.refresh.fam \in Created(rows)
      BY <1>3, <2>1, CookieFamilies DEF Rotates
  <2> QED BY <1>3, <2>2, RotatedGrows DEF Rotates
<1>4. CASE SignsOut(r, a, rs)
    BY <1>4, LogoutGrows DEF SignsOut
<1>5. CASE SignsIn(r, a, rs)
  <2>1. PICK u \in Accounts : u = r.who
      BY <1>5 DEF SignsIn
  <2>2. NextFamily \in Families
      BY <1>5 DEF SignsIn
  <2>3. rs = [rows EXCEPT ![NextFamily] = [owner |-> u, state |-> "live", n |-> 1]]
      BY <1>5, <2>1 DEF SignsIn
  <2> QED BY <2>2, <2>3, SignedInGrows
<1> QED BY <1>1, <1>2, <1>3, <1>4, <1>5 DEF Effects

------------------------------------------------------------------------------
(* The steps of a call.                                                    *)

Endings == {"install", "signedOut", "anonymous", "fail"}

LEMMA OnwardFits ==
    ASSUME NEW t, NEW op \in SessionOps, NEW at \in RequestsOf(op), NEW c, NEW next,
           next = Onward(t, op, at, c)
    PROVE  /\ next \in RequestsOf(op) \cup Endings
           /\ next = "login" => at = "preauth" /\ op # "logout"
           /\ next = "preauth" /\ op # "logout" =>
                \/ at = "recover" /\ c = 401
                \/ at \in {"post", "post2"} /\ c \in {200, 204} /\ op \in Logins
           /\ next = "install" =>
                \/ op = "bootstrap"
                \/ op = "refresh" /\ at \in {"post", "post2"} /\ c \in {200, 204}
                \/ op \in Logins /\ at = "login" /\ c = 200
<1>1. at \in Kinds
    BY DEF RequestsOf, Kinds, SessionOps
<1>2. CASE at = "recover"
  <2>1. next = AfterRecover(op, c)
      BY <1>2 DEF Onward
  <2>2. CASE op = "bootstrap"
    <3>1. next \in {"me", "anonymous", "fail"}
        BY <2>1, <2>2 DEF AfterRecover, Logins
    <3> QED BY <1>2, <2>2, <3>1 DEF RequestsOf, Endings
  <2>3. CASE op = "refresh"
    <3>1. next \in {"post", "fail"}
        BY <2>1, <2>3 DEF AfterRecover, Logins
    <3> QED BY <1>2, <2>3, <3>1 DEF RequestsOf, Endings
  <2>4. CASE op = "logout"
    <3>1. next \in {"post", "preauth", "fail"}
        BY <2>1, <2>4 DEF AfterRecover, Logins
    <3> QED BY <1>2, <2>4, <3>1 DEF RequestsOf, Endings
  <2>5. CASE op \in Logins
    <3>1. next \in {"post", "preauth", "fail"} /\ (next = "preauth" => c = 401)
        BY <2>1, <2>5 DEF AfterRecover, Logins
    <3> QED BY <1>2, <2>5, <3>1 DEF RequestsOf, Endings, Kinds, Logins
  <2> QED BY <2>2, <2>3, <2>4, <2>5 DEF SessionOps, Logins
<1>3. CASE at \in {"post", "post2"}
    BY <1>3 DEF Onward, AfterPost, Posted, RequestsOf, SessionOps, Logins, Endings, Kinds
<1>4. CASE at \in {"me", "me2"}
    BY <1>4 DEF Onward, RequestsOf, SessionOps, Logins, Endings, Kinds
<1>5. CASE at = "recover2"
    BY <1>5 DEF Onward, RequestsOf, SessionOps, Logins, Endings, Kinds
<1>6. CASE at \in {"preauth", "login"}
    BY <1>6 DEF Onward, RequestsOf, SessionOps, Logins, Endings, Kinds
<1>7. CASE at \in {"cleanup", "recover3", "cleanup2"}
    BY <1>7 DEF Onward, RequestsOf, SessionOps, Logins, Endings, Kinds
<1> QED BY <1>1, <1>2, <1>3, <1>4, <1>5, <1>6, <1>7 DEF Kinds

\* What a tab keeps of its latest call.
KeptBy(x, z) ==
  /\ z.epoch = x.epoch /\ z.goal = x.goal /\ z.seen = x.seen
  /\ z.status = "anonymous" \/ (z.status = x.status /\ z.user = x.user)

GoesOn(x, z, w, next, j) ==
  /\ next \in Kinds /\ w.st = "req" /\ w.kind = next /\ w.cookies = j
  /\ z.calls = x.calls /\ z.at = next /\ KeptBy(x, z)

Stops(x, z, w) == w = NoExchange /\ z.calls = Tail(x.calls) /\ z.at = "" /\ KeptBy(x, z)

Installs(x, z, w, next, user) ==
  /\ next = "install" /\ Head(x.calls).gen = x.epoch
  /\ w = NoExchange /\ z.calls = Tail(x.calls) /\ z.at = ""
  /\ z.epoch = x.epoch /\ z.goal = x.goal
  /\ z.seen /\ z.status = "authenticated" /\ z.user = user

LEMMA ProceedStep ==
    ASSUME Shape, NEW t \in Tabs, tab[t].calls # <<>>, NEW C, NEW j \in Cookies(C),
           NEW csrf \in Csrf, NEW user \in Users, NEW next \in Kinds \cup Endings,
           next \in Kinds => next \in RequestsOf(Head(tab[t].calls).op),
           Proceed(t, next, j, csrf, user)
    PROVE  \E z \in Client, w \in {NoExchange} \cup RequestOf(C) :
             /\ tab' = [tab EXCEPT ![t] = z] /\ net' = [net EXCEPT ![t] = w]
             /\ Waiting(z, w)
             /\ \/ GoesOn(tab[t], z, w, next, j) \/ Stops(tab[t], z, w)
                \/ Installs(tab[t], z, w, next, user)
<1>1. PICK v : v = tab[t]
    OBVIOUS
<1>2. v \in Client /\ v.calls \in Seq(Call) /\ v.calls # <<>>
    BY <1>1 DEF Shape, Client
<1>3. PICK call : call = Head(v.calls)
    OBVIOUS
<1>4. call \in Call /\ Tail(v.calls) \in Seq(Call)
    BY <1>2, <1>3
<1>5. PICK x : x = [v EXCEPT !.csrf = csrf]
    OBVIOUS
<1>6. x \in Client /\ x.calls = v.calls /\ KeptBy(v, x)
    BY <1>2, <1>5 DEF Client, KeptBy
<1>7. call.op \in SessionOps /\ call.who \in Users
    BY <1>4 DEF Call, Users
<1>8. next \in Kinds => next # ""
    BY DEF Kinds
<1>9. CASE next \in Kinds /\ ~(ChecksEpoch(call.op, next) /\ ~(call.gen = v.epoch))
  <2>1. PICK y : y = (IF next = "cleanup" THEN Anonymous(x) ELSE x)
      OBVIOUS
  <2>2. y \in Client /\ y.calls = v.calls /\ KeptBy(v, y)
      BY <1>6, <2>1 DEF Anonymous, Client, KeptBy, Users
  <2>3. PICK z : z = [y EXCEPT !.at = next]
      OBVIOUS
  <2>4. z \in Client /\ z.calls = v.calls /\ KeptBy(v, z) /\ z.at = next
      BY <1>9, <2>2, <2>3 DEF Client, KeptBy
  <2>5. PICK w : w = Request(next, call, j, csrf)
      OBVIOUS
  <2>6. /\ w \in RequestOf(C) /\ w.st = "req" /\ w.kind = next /\ w.cookies = j
        /\ w.op = call.op /\ w.who = call.who
      BY <1>7, <1>9, <2>5 DEF Request, RequestOf
  <2>7. tab' = [tab EXCEPT ![t] = z] /\ net' = [net EXCEPT ![t] = w]
      BY <1>1, <1>3, <1>5, <1>9, <2>1, <2>3, <2>5 DEF Proceed
  <2>8. Waiting(z, w)
    <3>1. w # NoExchange
        BY <2>6 DEF NoExchange
    <3> QED BY <1>1, <1>2, <1>3, <1>8, <1>9, <2>4, <2>6, <3>1 DEF Waiting
  <2>9. GoesOn(v, z, w, next, j)
      BY <1>9, <2>4, <2>6 DEF GoesOn
  <2> QED BY <1>1, <2>4, <2>6, <2>7, <2>8, <2>9
<1>10. CASE ~(next \in Kinds /\ ~(ChecksEpoch(call.op, next) /\ ~(call.gen = v.epoch)))
  <2>1. PICK y : y = Shown(x, next, call.gen = v.epoch, user)
      OBVIOUS
  <2>2. /\ y \in Client
        /\ \/ KeptBy(v, y)
           \/ /\ next = "install" /\ call.gen = v.epoch
              /\ y.epoch = v.epoch /\ y.goal = v.goal
              /\ y.seen /\ y.status = "authenticated" /\ y.user = user
    <3>1. CASE next = "install" /\ call.gen = v.epoch
      <4>1. y = [x EXCEPT !.status = "authenticated", !.user = user, !.seen = TRUE]
          BY <2>1, <3>1 DEF Shown
      <4> QED BY <1>6, <3>1, <4>1 DEF Client, KeptBy
    <3>2. CASE next \in {"anonymous", "signedOut", "fail"} /\ call.gen = v.epoch
      <4>1. y = Anonymous(x)
          BY <2>1, <3>2 DEF Shown
      <4> QED BY <1>6, <4>1 DEF Anonymous, Client, KeptBy, Users
    <3>3. CASE ~(next = "install" /\ call.gen = v.epoch)
               /\ ~(next \in {"anonymous", "signedOut", "fail"} /\ call.gen = v.epoch)
      <4>1. y = x
          BY <2>1, <3>3 DEF Shown
      <4> QED BY <1>6, <4>1
    <3> QED BY <3>1, <3>2, <3>3
  <2>3. PICK z : z = [y EXCEPT !.calls = Tail(v.calls), !.at = ""]
      OBVIOUS
  <2>4. y.calls = v.calls
    <3>1. y = [x EXCEPT !.status = "authenticated", !.user = user, !.seen = TRUE]
          \/ y = Anonymous(x) \/ y = x
        BY <2>1 DEF Shown
    <3> QED BY <1>6, <3>1 DEF Anonymous, Client
  <2>5. z \in Client /\ z.at = "" /\ z.calls = Tail(v.calls)
      BY <1>4, <2>2, <2>3 DEF Client
  <2>6. /\ z.epoch = y.epoch /\ z.goal = y.goal /\ z.seen = y.seen
        /\ z.status = y.status /\ z.user = y.user
      BY <2>2, <2>3 DEF Client
  <2>7. tab' = [tab EXCEPT ![t] = z] /\ net' = [net EXCEPT ![t] = NoExchange]
      BY <1>1, <1>3, <1>5, <1>10, <2>1, <2>3, <2>4 DEF Proceed
  <2>8. Waiting(z, NoExchange)
      BY <2>5 DEF Waiting
  <2>9. Stops(v, z, NoExchange) \/ Installs(v, z, NoExchange, next, user)
      BY <1>3, <2>2, <2>5, <2>6 DEF Stops, Installs, KeptBy
  <2> QED BY <1>1, <2>5, <2>7, <2>8, <2>9
<1> QED BY <1>9, <1>10

------------------------------------------------------------------------------
(* Steps that keep the invariant.                                          *)

\* A tab that is part of the browser may be any of the tabs.
LEMMA BrowserIsTyped ==
    ASSUME browser \in Browsers
    PROVE  browser.tabs \subseteq Tabs /\ browser.accounts \subseteq Accounts
BY SessionsAssumption DEF Browser

\* A step of one tab, with the server and the jar.
LEMMA TabStep ==
    ASSUME IInv, NEW t \in browser.tabs, NEW z \in Client, NEW w \in Exchange(Created(rows')),
           browser' = browser, RowsOK(rows'), Grows(rows, rows'), active' \subseteq Accounts,
           jar' \in Cookies(Created(rows')),
           tab' = [tab EXCEPT ![t] = z], net' = [net EXCEPT ![t] = w],
           stray' \subseteq RequestOf(Created(rows')), gone' \subseteq Created(rows'),
           Waiting(z, w), SignedOut(w, rows'), \A f \in gone' : rows'[f].state = "revoked",
           OneTab => /\ Asked(z, w, jar', rows')
                     /\ ~browser.lossy => stray' = {} /\ Lossless(z, w, jar', rows')
    PROVE  IInv'
<1>1. t \in Tabs /\ tab \in [Tabs -> Client] /\ net \in [Tabs -> Exchange(Created(rows))]
    BY BrowserIsTyped DEF IInv, Shape
<1>2. Exchange(Created(rows)) \subseteq Exchange(Created(rows'))
    BY MoreFamilies DEF Grows
<1>3. Shape'
  <2>1. tab' \in [Tabs -> Client]
      BY <1>1
  <2>2. net' \in [Tabs -> Exchange(Created(rows'))]
      BY <1>1, <1>2
  <2>3. browser' \in Browsers
      BY DEF IInv, Shape
  <2> QED BY <2>1, <2>2, <2>3 DEF Shape
<1>4. Waits'
  <2>1. ASSUME NEW u \in Tabs PROVE Waiting(tab'[u], net'[u])
    <3>1. CASE u = t
        BY <1>1, <3>1
    <3>2. CASE u # t
        BY <1>1, <3>2 DEF IInv, Waits
    <3> QED BY <3>1, <3>2
  <2> QED BY <2>1 DEF Waits
<1>5. OthersClosed'
    BY <1>1 DEF IInv, OthersClosed
<1>6. SignOutsHold'
  <2>1. ASSUME NEW u \in Tabs PROVE SignedOut(net'[u], rows')
    <3>1. CASE u = t
        BY <1>1, <3>1
    <3>2. CASE u # t
      <4>1. PICK y \in Exchange(Created(rows)) : y = net[u] /\ y = net'[u]
          BY <1>1, <3>2
      <4>2. SignedOut(y, rows)
          BY <4>1 DEF IInv, SignOutsHold
      <4>3. y.st = "res" => y.fam \in Families \cup {NoFamily}
          BY <4>1 DEF Exchange, RequestOf, AnswerOf, NoExchange, Created
      <4> QED BY <4>1, <4>2, <4>3 DEF SignedOut, Grows
    <3> QED BY <3>1, <3>2
  <2> QED BY <2>1 DEF SignOutsHold
<1>7. OnlyTab'
  <2>1. SUFFICES ASSUME OneTab', NEW u \in browser'.tabs
                 PROVE  /\ Asked(tab'[u], net'[u], jar', rows')
                        /\ ~browser'.lossy =>
                             stray' = {} /\ Lossless(tab'[u], net'[u], jar', rows')
      BY DEF OnlyTab
  <2>2. OneTab /\ u = t
      BY <2>1 DEF OneTab
  <2> QED BY <1>1, <2>2
<1> QED BY <1>3, <1>4, <1>5, <1>6, <1>7 DEF IInv

\* A step of the server, of time or of the administrator.
LEMMA OutsideStep ==
    ASSUME IInv, browser' = browser, RowsOK(rows'), Grows(rows, rows'),
           active' \subseteq Accounts, jar' \in Cookies(Created(rows')),
           tab' = tab, net' = net, stray' \subseteq stray, gone' = gone,
           \A t \in browser.tabs :
             OneTab => /\ Asked(tab[t], net[t], jar', rows')
                       /\ ~browser.lossy => Lossless(tab[t], net[t], jar', rows')
    PROVE  IInv'
<1>1. tab \in [Tabs -> Client] /\ net \in [Tabs -> Exchange(Created(rows))]
    BY DEF IInv, Shape
<1>2. /\ Exchange(Created(rows)) \subseteq Exchange(Created(rows'))
      /\ RequestOf(Created(rows)) \subseteq RequestOf(Created(rows'))
      /\ Created(rows) \subseteq Created(rows')
    BY MoreFamilies DEF Grows
<1>3. Shape'
  <2>1. net' \in [Tabs -> Exchange(Created(rows'))]
      BY <1>1, <1>2
  <2> QED BY <1>1, <1>2, <2>1 DEF Shape, IInv
<1>4. Waits' /\ OthersClosed'
    BY DEF IInv, Waits, OthersClosed
<1>5. SignOutsHold'
  <2>1. \A f \in gone' : rows'[f].state = "revoked"
      BY DEF IInv, SignOutsHold, Grows, Shape, Created
  <2>2. ASSUME NEW u \in Tabs PROVE SignedOut(net'[u], rows')
    <3>1. PICK y \in Exchange(Created(rows)) : y = net[u] /\ y = net'[u]
        BY <1>1
    <3>2. SignedOut(y, rows)
        BY <3>1 DEF IInv, SignOutsHold
    <3>3. y.st = "res" => y.fam \in Families \cup {NoFamily}
        BY <3>1 DEF Exchange, RequestOf, AnswerOf, NoExchange, Created
    <3> QED BY <3>1, <3>2, <3>3 DEF SignedOut, Grows
  <2> QED BY <2>1, <2>2 DEF SignOutsHold
<1>6. OnlyTab'
  <2>1. SUFFICES ASSUME OneTab', NEW u \in browser'.tabs
                 PROVE  /\ Asked(tab'[u], net'[u], jar', rows')
                        /\ ~browser'.lossy =>
                             stray' = {} /\ Lossless(tab'[u], net'[u], jar', rows')
      BY DEF OnlyTab
  <2>2. OneTab /\ u \in browser.tabs
      BY <2>1 DEF OneTab
  <2>3. ~browser.lossy => stray = {}
      BY <2>2 DEF IInv, OnlyTab
  <2> QED BY <2>2, <2>3
<1> QED BY <1>3, <1>4, <1>5, <1>6 DEF IInv

------------------------------------------------------------------------------
(* What the latest call asked for, and the tokens of one tab.              *)

\* What a queued call is in the queue of x.
InQueue(x, c) ==
  /\ c.gen <= x.epoch /\ (x.seen => c.gen = x.epoch)
  /\ c.op \in Logins => c.who \in Accounts
  /\ c.gen = x.epoch =>
       /\ c.op \in Logins => x.goal = c.who
       /\ c.op = "bootstrap" => x.goal = Anyone
       /\ c.op = "refresh" <=> x.seen

InOrder(c, d) == c.gen <= d.gen /\ (d.op # "refresh" => c.gen < d.gen)

LEMMA QueuedIs ==
    ASSUME NEW x
    PROVE  Queued(x) <=>
             /\ \A i \in DOMAIN x.calls : InQueue(x, x.calls[i])
             /\ \A i, j \in DOMAIN x.calls : i < j => InOrder(x.calls[i], x.calls[j])
             /\ x.seen => x.goal # NoUser
BY DEF Queued, InQueue, InOrder

LEMMA QueuedKept ==
    ASSUME NEW x, NEW z, Queued(x), z.calls = x.calls, z.epoch = x.epoch,
           z.goal = x.goal, z.seen = x.seen
    PROVE  Queued(z)
BY DEF Queued

LEMMA QueuedTail ==
    ASSUME NEW x \in Client, NEW z, Queued(x), x.calls # <<>>, z.calls = Tail(x.calls),
           z.epoch = x.epoch, z.goal = x.goal, z.seen = x.seen
    PROVE  Queued(z)
<1>1. x.calls \in Seq(Call)
    BY DEF Client
<1>2. \A i \in DOMAIN z.calls : i + 1 \in DOMAIN x.calls /\ z.calls[i] = x.calls[i + 1] /\ i \in Nat
    BY <1>1
<1>3. \A i \in DOMAIN z.calls : InQueue(z, z.calls[i])
  <2>1. \A i \in DOMAIN z.calls : InQueue(x, z.calls[i])
      BY <1>2, QueuedIs
  <2> QED BY <2>1 DEF InQueue
<1>4. \A i, j \in DOMAIN z.calls : i < j => InOrder(z.calls[i], z.calls[j])
  <2>1. \A i, j \in DOMAIN x.calls : i < j => InOrder(x.calls[i], x.calls[j])
      BY QueuedIs
  <2> QED BY <1>2, <2>1
<1>5. z.seen => z.goal # NoUser
    BY QueuedIs
<1> QED BY <1>3, <1>4, <1>5, QueuedIs

\* A tab that has seen its user is waiting for nothing but refreshes, and the
\* latest call of any other kind is the last of the queue.
LEMMA QueuedSeen ==
    ASSUME NEW x \in Client, Queued(x), x.seen, NEW i \in DOMAIN x.calls
    PROVE  x.calls[i].op = "refresh"
<1>1. InQueue(x, x.calls[i])
    BY QueuedIs
<1> QED BY <1>1 DEF InQueue

LEMMA QueuedInstalled ==
    ASSUME NEW x \in Client, NEW z, Queued(x), x.calls # <<>>, Head(x.calls).gen = x.epoch,
           Head(x.calls).op \in {"bootstrap", "refresh"} \cup Logins,
           z.calls = Tail(x.calls), z.epoch = x.epoch, z.goal = x.goal, z.seen
    PROVE  Queued(z)
<1>1. x.calls \in Seq(Call) /\ x.epoch \in Nat /\ x.seen \in BOOLEAN
    BY DEF Client
<1>2. 1 \in DOMAIN x.calls /\ Head(x.calls) = x.calls[1]
    BY <1>1
<1>3. PICK c : c = x.calls[1]
    OBVIOUS
<1>4. InQueue(x, c) /\ c.gen = x.epoch /\ c.op \in {"bootstrap", "refresh"} \cup Logins
    BY <1>2, <1>3, QueuedIs
<1>5. x.goal # NoUser
  <2>1. CASE c.op = "refresh"
      BY <1>4, <2>1, QueuedIs DEF InQueue
  <2>2. CASE c.op = "bootstrap"
      BY <1>4, <2>2 DEF InQueue, Anyone, NoUser
  <2>3. CASE c.op \in Logins
      BY <1>4, <2>3, SessionsAssumption DEF InQueue
  <2> QED BY <1>4, <2>1, <2>2, <2>3
<1>6. \A i \in DOMAIN z.calls :
        i \in Nat /\ i + 1 \in DOMAIN x.calls /\ 1 < i + 1 /\ z.calls[i] = x.calls[i + 1]
    BY <1>1
<1>7. ASSUME NEW i \in DOMAIN z.calls
      PROVE  InQueue(z, z.calls[i])
  <2>1. PICK d \in Call : d = z.calls[i] /\ d = x.calls[i + 1]
      BY <1>1, <1>6
  <2>2. InQueue(x, d)
      BY <1>6, <2>1, QueuedIs
  <2>3. InOrder(c, d)
      BY <1>2, <1>3, <1>6, <2>1, QueuedIs
  <2>4. d.gen = x.epoch /\ d.op = "refresh"
    <3>1. d.gen \in Nat /\ c.gen = x.epoch /\ x.epoch \in Nat
        BY <1>1, <1>4, <2>1 DEF Call
    <3>2. d.gen <= x.epoch
        BY <2>2 DEF InQueue
    <3>3. c.gen <= d.gen /\ (d.op # "refresh" => c.gen < d.gen)
        BY <2>3 DEF InOrder
    <3> QED BY <3>1, <3>2, <3>3
  <2>5. z.calls[i].gen = z.epoch /\ z.calls[i].op = "refresh" /\ z.epoch \in Nat
      BY <1>1, <2>1, <2>4
  <2> QED BY <2>5 DEF InQueue, Logins
<1>8. ASSUME NEW i \in DOMAIN z.calls, NEW j \in DOMAIN z.calls, i < j
      PROVE  InOrder(z.calls[i], z.calls[j])
  <2>1. i + 1 \in DOMAIN x.calls /\ j + 1 \in DOMAIN x.calls /\ i + 1 < j + 1
      BY <1>6, <1>8
  <2>2. InOrder(x.calls[i + 1], x.calls[j + 1])
      BY <2>1, QueuedIs
  <2> QED BY <1>6, <2>2
<1> QED BY <1>5, <1>7, <1>8, QueuedIs

LEMMA QueuedCalled ==
    ASSUME NEW x \in Client, NEW z, NEW c \in Call, Queued(x), z.calls = Append(x.calls, c),
           z.epoch = c.gen, z.seen \in BOOLEAN,
           \/ c.op = "refresh" /\ x.seen /\ z.seen /\ c.gen = x.epoch /\ z.goal = x.goal
           \/ /\ c.op # "refresh" /\ ~z.seen /\ c.gen = x.epoch + 1
              /\ c.op \in Logins => c.who \in Accounts /\ z.goal = c.who
              /\ c.op = "bootstrap" => z.goal = Anyone
    PROVE  Queued(z)
<1>1. x.calls \in Seq(Call) /\ x.epoch \in Nat /\ x.seen \in BOOLEAN
    BY DEF Client
<1>2. PICK n \in Nat : n = Len(x.calls) + 1
    BY <1>1
<1>3. /\ DOMAIN z.calls = 1..n /\ z.calls[n] = c
      /\ \A i \in 1..n : i # n => i \in DOMAIN x.calls /\ z.calls[i] = x.calls[i] /\ x.calls[i] \in Call
    BY <1>1, <1>2
<1>4. \A i \in DOMAIN x.calls : InQueue(x, x.calls[i])
    BY QueuedIs
<1>5. ASSUME NEW i \in 1..n
      PROVE  InQueue(z, z.calls[i])
  <2>1. CASE i = n
      BY <1>3, <2>1 DEF InQueue, Call, Logins
  <2>2. CASE i # n
    <3>1. PICK d \in Call : d = z.calls[i] /\ InQueue(x, d)
        BY <1>3, <1>4, <2>2
    <3>2. d.gen \in Nat /\ d.gen <= x.epoch /\ (x.seen => d.gen = x.epoch)
        BY <3>1 DEF InQueue, Call
    <3>3. d.op \in Logins => d.who \in Accounts
        BY <3>1 DEF InQueue
    <3>4. CASE c.op = "refresh" /\ x.seen /\ z.seen /\ c.gen = x.epoch /\ z.goal = x.goal
      <4>1. d.op = "refresh"
          BY <3>1, <3>2, <3>4 DEF InQueue
      <4>2. z.calls[i] = d /\ d.gen = z.epoch /\ z.epoch \in Nat
          BY <1>1, <3>1, <3>2, <3>4
      <4>3. d.gen <= z.epoch /\ d.op \notin Logins /\ d.op # "bootstrap"
          BY <4>1, <4>2 DEF Logins
      <4> QED BY <3>4, <4>1, <4>2, <4>3, Zenon DEF InQueue
    <3>5. CASE ~z.seen /\ c.gen = x.epoch + 1
      <4>1. z.epoch = x.epoch + 1
          BY <3>5
      <4>2. d.gen <= z.epoch /\ d.gen # z.epoch
          BY <1>1, <3>2, <4>1
      <4>3. z.calls[i] = d
          BY <3>1
      <4> QED BY <3>3, <3>5, <4>2, <4>3, Zenon DEF InQueue
    <3> QED BY <3>4, <3>5
  <2> QED BY <2>1, <2>2
<1>6. ASSUME NEW i \in 1..n, NEW j \in 1..n, i < j
      PROVE  InOrder(z.calls[i], z.calls[j])
  <2>1. i # n
      BY <1>6
  <2>2. CASE j = n
    <3>1. PICK d \in Call : d = z.calls[i] /\ InQueue(x, d)
        BY <1>3, <1>4, <2>1
    <3> QED BY <1>1, <1>3, <2>2, <3>1 DEF InQueue, InOrder, Call
  <2>3. CASE j # n
      BY <1>3, <1>6, <2>1, <2>3, QueuedIs
  <2> QED BY <2>2, <2>3
<1>7. z.seen => z.goal # NoUser
    BY QueuedIs
<1> QED BY <1>3, <1>5, <1>6, <1>7, QueuedIs

\* Owners stay; a token of fewer or the same live families still holds.
LEMMA OwnedKept ==
    ASSUME NEW rs, NEW rt, Grows(rs, rt), NEW tok \in TokenOf(Created(rs)), NEW u,
           Owned(tok, u, rs)
    PROVE  Owned(tok, u, rt)
BY DEF TokenOf, Owned, Grows, NoToken

LEMMA HoldsKept ==
    ASSUME NEW rs, NEW rt, Live(rt) \subseteq Live(rs),
           \A g \in Families : rt[g].n = rs[g].n, NEW tok, Holds(tok, rs)
    PROVE  Holds(tok, rt)
BY DEF Holds, Live

------------------------------------------------------------------------------
(* An answer in place of a request.                                        *)

LEMMA AnswerSignedOut ==
    ASSUME RowsOK(rows), NEW r \in RequestOf(Created(rows)), NEW a, NEW rs,
           Answers(r, a, Created(rs)), Effects(r, a, rs)
    PROVE  SignedOut(a, rs)
<1>1. a.fam = Claimed(r.cookies)
    BY DEF Answers
<1>2. CASE SignsOut(r, a, rs)
    BY <1>1, <1>2, LogoutGrows DEF SignsOut, SignedOut
<1>3. CASE ~SignsOut(r, a, rs)
  <2>1. a.code # 204
      BY <1>3 DEF Effects, Keeps, Distrusts, Rotates, SignsIn
  <2> QED BY <2>1 DEF SignedOut
<1> QED BY <1>2, <1>3

\* With the only live token, recovery is refused only when no family is live,
\* and a sign-out ends the live family.
LEMMA AnswerLossless ==
    ASSUME RowsOK(rows), NEW x \in Client, NEW y \in RequestOf(Created(rows)), Waiting(x, y),
           NEW a, NEW rs, Answers(y, a, Created(rs)), Effects(y, a, rs),
           NEW j, Lossless(x, y, j, rows)
    PROVE  Lossless(x, a, j, rs)
<1>1. /\ y.st = "req" /\ y.kind = x.at /\ y.op = Head(x.calls).op
      /\ a.st = "res" /\ a.kind = x.at /\ y # NoExchange
  <2>1. y.st = "req" /\ a.st = "res" /\ a.kind = y.kind
      BY DEF RequestOf, Answers, AnswerOf
  <2>2. NoExchange.st = "none"
      BY DEF NoExchange
  <2>3. y # NoExchange
      BY <2>1, <2>2
  <2> QED BY <2>1, <2>3 DEF Waiting
<1>2. PICK tok : tok = y.cookies.refresh
    OBVIOUS
<1>3. Holds(tok, rows) /\ Holds(j.refresh, rows) /\ (SignedOff(x, y) => Live(rows) = {})
    BY <1>1, <1>2 DEF Lossless, Carries
<1>4. y.cookies \in Cookies(Created(rows)) /\ Created(rows) \in SUBSET Families
    BY DEF RequestOf, Created
<1>5. SUFFICES /\ Holds(IF Carries(a) THEN a.sets.refresh ELSE j.refresh, rs)
               /\ SignedOff(x, a) => Live(rs) = {}
    BY <1>1 DEF Lossless
<1>6. ASSUME a.code \notin {200, 204}, ~(a.kind = "recover" /\ a.code = 401), SignedOff(x, a)
      PROVE  Live(rows) = {}
    BY <1>1, <1>3, <1>6 DEF SignedOff
<1>7. CASE Keeps(y, a, rs)
  <2>1. rs = rows /\ ~Carries(a)
      BY <1>7 DEF Keeps
  <2>2. ASSUME SignedOff(x, a) PROVE Live(rows) = {}
    <3>1. CASE a.kind = "recover" /\ a.code = 401
      <4>1. RecoveryRefused(y, Claimed(y.cookies))
          BY <1>1, <1>7, <3>1 DEF Keeps
      <4>2. ASSUME NEW g \in Live(rows) PROVE FALSE
        <5>1. tok # NoToken /\ tok.fam = g /\ tok.n = rows[g].n
            BY <1>3, <4>2 DEF Holds
        <5>2. Claimed(y.cookies) = g
            BY <1>2, <5>1 DEF Claimed
        <5>3. g # NoFamily /\ rows[g].state = "live"
            BY <4>2, FamiliesAreNumbers DEF Live
        <5> QED BY <1>2, <4>1, <5>1, <5>2, <5>3 DEF RecoveryRefused
      <4> QED BY <4>2
    <3>2. CASE ~(a.kind = "recover" /\ a.code = 401) /\ a.code # 200
      <4>1. a.code \notin {200, 204}
          BY <1>7, <3>2 DEF Keeps
      <4> QED BY <1>6, <2>2, <3>2, <4>1
    <3>3. CASE a.code = 200
      <4>1. x.at \notin {"post", "post2", "login"}
          BY <1>1, <1>7, <3>3 DEF Keeps
      <4>2. SignedOff(x, y)
          BY <1>1, <2>2, <3>3, <4>1 DEF SignedOff
      <4> QED BY <1>3, <4>2
    <3> QED BY <3>1, <3>2, <3>3
  <2> QED BY <1>3, <2>1, <2>2
<1>8. CASE Distrusts(y, a, rs)
  <2>1. PICK f \in Created(rows) : rs = Revoked(f)
      BY <1>8 DEF Distrusts
  <2>2. Live(rs) \subseteq Live(rows) /\ \A g \in Families : rs[g].n = rows[g].n
      BY <2>1, RevokedGrows
  <2>3. Holds(j.refresh, rs) /\ ~Carries(a)
      BY <1>3, <1>8, <2>2, HoldsKept DEF Distrusts
  <2>4. ASSUME SignedOff(x, a) PROVE FALSE
      BY <1>1, <1>8, <2>4 DEF Distrusts, SignedOff
  <2> QED BY <2>3, <2>4
<1>9. CASE Rotates(y, a, rs)
  <2>1. PICK f : f = tok.fam
      OBVIOUS
  <2>2. f \in Created(rows) /\ rs = Rotated(f) /\ Carries(a)
        /\ a.sets.refresh = [fam |-> f, n |-> rows[f].n + 1]
      BY <1>2, <1>4, <1>9, <2>1, CookieFamilies DEF Rotates
  <2>3. /\ Live(rs) = Live(rows)
        /\ \A g \in Families : rs[g].n = IF g = f THEN rows[g].n + 1 ELSE rows[g].n
      BY <2>2, RotatedGrows
  <2>4. \A g \in Live(rs) : g = f
      BY <1>3, <2>1, <2>3 DEF Holds
  <2>5. a.sets.refresh # NoToken
    <3>1. a.sets.refresh.fam = f /\ NoToken.fam = NoFamily
        BY <2>2 DEF NoToken
    <3> QED BY <1>4, <2>2, <3>1, FamiliesAreNumbers
  <2>6. Holds(a.sets.refresh, rs)
      BY <2>2, <2>3, <2>4, <2>5 DEF Holds, Live
  <2>7. ASSUME SignedOff(x, a) PROVE FALSE
      BY <1>1, <1>9, <2>7 DEF Rotates, SignedOff
  <2> QED BY <2>2, <2>6, <2>7
<1>10. CASE SignsOut(y, a, rs)
  <2>1. rs = Logout(y) /\ Live(rs) \subseteq Live(rows)
      BY <1>10, LogoutGrows DEF SignsOut
  <2>2. ASSUME NEW g \in Live(rs) PROVE FALSE
    <3>1. tok # NoToken /\ tok.fam = g
        BY <1>3, <2>1, <2>2 DEF Holds
    <3>2. Claimed(y.cookies) = g /\ g # NoFamily
        BY <1>2, <2>2, <3>1, FamiliesAreNumbers DEF Claimed, Live
    <3>3. rs[g].state = "revoked"
        BY <2>1, <3>2, LogoutGrows
    <3> QED BY <2>2, <3>3 DEF Live
  <2>3. Live(rs) = {}
      BY <2>2
  <2> QED BY <2>3 DEF Holds
<1>11. CASE SignsIn(y, a, rs)
  <2>1. PICK u \in Accounts : u = y.who
      BY <1>11 DEF SignsIn
  <2>2. /\ NextFamily \in Families /\ Carries(a)
        /\ rs = [rows EXCEPT ![NextFamily] = [owner |-> u, state |-> "live", n |-> 1]]
        /\ a.sets.refresh = [fam |-> NextFamily, n |-> 1]
      BY <1>11, <2>1 DEF SignsIn
  <2>3. x.at = "login" /\ a.code = 200
      BY <1>1, <1>11 DEF SignsIn
  <2>4. Live(rows) = {}
      BY <1>1, <1>3, <2>3 DEF SignedOff
  <2>5. Live(rs) = {NextFamily} /\ rs[NextFamily].n = 1
      BY <2>2, <2>4, SignedInGrows
  <2>6. a.sets.refresh # NoToken
    <3>1. a.sets.refresh.fam = NextFamily /\ NoToken.fam = NoFamily
        BY <2>2 DEF NoToken
    <3> QED BY <2>2, <3>1, FamiliesAreNumbers
  <2>7. Holds(a.sets.refresh, rs)
    <3>1. a.sets.refresh.fam = NextFamily /\ a.sets.refresh.n = rs[NextFamily].n
        BY <2>2, <2>5
    <3> QED BY <2>5, <2>6, <3>1, Zenon DEF Holds
  <2>8. ASSUME SignedOff(x, a) PROVE FALSE
      BY <1>1, <2>3, <2>8 DEF SignedOff
  <2> QED BY <2>2, <2>7, <2>8
<1> QED BY <1>7, <1>8, <1>9, <1>10, <1>11 DEF Effects

\* A rotation answers with the owner of the family, which stays the owner.
LEMMA AnswerAsked ==
    ASSUME RowsOK(rows), NEW x \in Client, NEW y \in RequestOf(Created(rows)), Waiting(x, y),
           NEW a, NEW rs, Answers(y, a, Created(rs)), Effects(y, a, rs), Grows(rows, rs),
           NEW j \in Cookies(Created(rows)), Asked(x, y, j, rows)
    PROVE  Asked(x, a, j, rs)
<1>1. /\ y.st = "req" /\ y.kind = x.at /\ y.op = Head(x.calls).op /\ y.who = Head(x.calls).who
      /\ a.st = "res" /\ a.kind = x.at /\ x.calls # <<>>
  <2>1. y.st = "req" /\ a.st = "res" /\ a.kind = y.kind
      BY DEF RequestOf, Answers, AnswerOf
  <2>2. NoExchange.st = "none"
      BY DEF NoExchange
  <2>3. y # NoExchange
      BY <2>1, <2>2
  <2> QED BY <2>1, <2>3 DEF Waiting
<1>2. PICK tok : tok = y.cookies.refresh
    OBVIOUS
<1>3. /\ Created(rows) \in SUBSET Families /\ y.cookies \in Cookies(Created(rows))
      /\ tok \in TokenOf(Created(rows)) /\ j.refresh \in TokenOf(Created(rows))
    BY <1>2 DEF Created, RequestOf, Cookies
<1>4. tok # NoToken => tok.fam \in Created(rows)
    BY <1>2, <1>3, CookieFamilies
<1>5. Queued(x) /\ (x.status = "authenticated" => x.goal \in {Anyone, x.user})
    BY DEF Asked
<1>6. ASSUME x.seen, x.goal # Anyone
      PROVE  /\ Owned(j.refresh, x.goal, rs)
             /\ Carries(a) => Owned(a.sets.refresh, x.goal, rs)
             /\ a.kind \in {"post", "post2"} /\ a.code \in {200, 204} => a.user = x.goal
  <2>1. Owned(j.refresh, x.goal, rows) /\ Owned(tok, x.goal, rows)
      BY <1>1, <1>2, <1>6 DEF Asked
  <2>2. Owned(j.refresh, x.goal, rs)
      BY <1>3, <2>1, OwnedKept
  <2>3. y.op = "refresh"
    <3>1. x.calls \in Seq(Call)
        BY DEF Client
    <3>2. 1 \in DOMAIN x.calls /\ Head(x.calls) = x.calls[1]
        BY <1>1, <3>1
    <3> QED BY <1>1, <1>5, <1>6, <3>2, QueuedSeen
  <2>4. x.at \in {"recover", "post", "recover2", "post2"}
    <3>1. y # NoExchange
        BY <1>1 DEF NoExchange
    <3> QED BY <1>1, <2>3, <3>1 DEF Waiting, RequestsOf
  <2>5. CASE Rotates(y, a, rs)
    <3>1. PICK f : f = tok.fam
        OBVIOUS
    <3>2. /\ f \in Created(rows) /\ a.user = rows[f].owner /\ tok # NoToken
          /\ a.sets.refresh.fam = f
        BY <1>2, <1>4, <2>5, <3>1 DEF Rotates
    <3>3. rows[f].owner = x.goal /\ rs[f].owner = x.goal
        BY <2>1, <3>1, <3>2 DEF Owned, Grows
    <3> QED BY <2>2, <3>2, <3>3 DEF Owned
  <2>6. CASE Keeps(y, a, rs) \/ Distrusts(y, a, rs)
      BY <1>1, <2>2, <2>6 DEF Keeps, Distrusts
  <2>7. CASE SignsOut(y, a, rs)
      BY <1>1, <2>3, <2>4, <2>7 DEF SignsOut
  <2>8. CASE SignsIn(y, a, rs)
      BY <1>1, <2>4, <2>8 DEF SignsIn
  <2> QED BY <2>5, <2>6, <2>7, <2>8 DEF Effects
<1>7. ASSUME a.kind = "login", a.code = 200
      PROVE  Carries(a) /\ a.user = Head(x.calls).who /\ Owned(a.sets.refresh, a.user, rs)
  <2>1. SignsIn(y, a, rs)
      BY <1>1, <1>7 DEF Effects, Keeps, Distrusts, Rotates, SignsOut
  <2>2. PICK u \in Accounts : u = y.who
      BY <2>1 DEF SignsIn
  <2>3. /\ NextFamily \in Families /\ Carries(a) /\ a.user = u
        /\ rs = [rows EXCEPT ![NextFamily] = [owner |-> u, state |-> "live", n |-> 1]]
        /\ a.sets.refresh.fam = NextFamily
      BY <2>1, <2>2 DEF SignsIn
  <2>4. rs[NextFamily].owner = u
      BY <2>3, SignedInGrows
  <2> QED BY <1>1, <2>2, <2>3, <2>4 DEF Owned
<1> QED BY <1>1, <1>5, <1>6, <1>7 DEF Asked

------------------------------------------------------------------------------
(* Each action keeps the invariant.                                        *)

LEMMA CarriedOver ==
    ASSUME IInv, NEW rs, Grows(rows, rs)
    PROVE  /\ jar \in Cookies(Created(rs)) /\ stray \subseteq RequestOf(Created(rs))
           /\ gone \subseteq Created(rs) /\ \A f \in gone : rs[f].state = "revoked"
<1>1. Created(rows) \subseteq Created(rs) /\ gone \subseteq Families
    BY DEF Grows, IInv, Shape, Created
<1>2. /\ Cookies(Created(rows)) \subseteq Cookies(Created(rs))
      /\ RequestOf(Created(rows)) \subseteq RequestOf(Created(rs))
    BY <1>1, MoreFamilies
<1>3. \A f \in gone : rs[f].state = "revoked"
    BY <1>1 DEF IInv, SignOutsHold, Grows
<1> QED BY <1>1, <1>2, <1>3 DEF IInv, Shape

LEMMA SameRows == ASSUME IInv PROVE RowsOK(rows) /\ Grows(rows, rows)
BY DEF IInv, Shape, Grows

\* What the invariant says of one tab.
LEMMA OfTab ==
    ASSUME IInv, NEW t \in browser.tabs
    PROVE  /\ t \in Tabs /\ tab[t] \in Client /\ net[t] \in Exchange(Created(rows))
           /\ tab = [tab EXCEPT ![t] = tab[t]] /\ net = [net EXCEPT ![t] = net[t]]
           /\ Waiting(tab[t], net[t]) /\ SignedOut(net[t], rows)
           /\ net[t].st = "req" => net[t] \in RequestOf(Created(rows))
           /\ net[t].st = "res" => net[t] \in AnswerOf(Created(rows))
           /\ net[t].st = "none" => net[t] = NoExchange
           /\ OneTab => /\ Asked(tab[t], net[t], jar, rows)
                        /\ ~browser.lossy => stray = {} /\ Lossless(tab[t], net[t], jar, rows)
<1>1. t \in Tabs /\ tab \in [Tabs -> Client] /\ net \in [Tabs -> Exchange(Created(rows))]
    BY BrowserIsTyped DEF IInv, Shape
<1>2. Waiting(tab[t], net[t]) /\ SignedOut(net[t], rows)
    BY <1>1 DEF IInv, Waits, SignOutsHold
<1>3. /\ net[t].st = "req" => net[t] \in RequestOf(Created(rows))
      /\ net[t].st = "res" => net[t] \in AnswerOf(Created(rows))
      /\ net[t].st = "none" => net[t] = NoExchange
    BY <1>1 DEF Exchange, RequestOf, AnswerOf, NoExchange
<1>4. OneTab => /\ Asked(tab[t], net[t], jar, rows)
                /\ ~browser.lossy => stray = {} /\ Lossless(tab[t], net[t], jar, rows)
    BY DEF IInv, OnlyTab
<1> QED BY <1>1, <1>2, <1>3, <1>4

\* An answer carries no refresh cookie or all the cookies of a session.
LEMMA CarriedCookies ==
    ASSUME NEW C, NEW y \in AnswerOf(C), Carries(y)
    PROVE  y.sets \in Cookies(C)
<1>1. y.sets \in {<<>>} \cup [csrf : Csrf] \cup Cookies(C)
    BY DEF AnswerOf
<1>2. y.sets \notin {<<>>} \cup [csrf : Csrf]
    BY DEF Carries
<1> QED BY <1>1, <1>2

\* A later state of the rows leaves what the cookies of a tab name as it was.
LEMMA AskedLater ==
    ASSUME IInv, NEW t \in browser.tabs, OneTab, NEW rs, Grows(rows, rs),
           NEW j, j.refresh \in {jar.refresh, NoToken}
    PROVE  Asked(tab[t], net[t], j, rs)
<1>1. PICK x, y : x = tab[t] /\ y = net[t]
    OBVIOUS
<1>2. Asked(x, y, jar, rows)
    BY <1>1, OfTab
<1>3. /\ jar.refresh \in TokenOf(Created(rows))
      /\ y.st = "req" => y.cookies.refresh \in TokenOf(Created(rows))
      /\ Carries(y) => y.sets.refresh \in TokenOf(Created(rows))
  <2>1. jar \in Cookies(Created(rows))
      BY DEF IInv, Shape
  <2>2. y.st = "req" => y.cookies \in Cookies(Created(rows))
      BY <1>1, OfTab DEF RequestOf
  <2>3. Carries(y) => y.sets \in Cookies(Created(rows))
      BY <1>1, OfTab, CarriedCookies DEF Carries
  <2> QED BY <2>1, <2>2, <2>3 DEF Cookies
<1>4. /\ Owned(jar.refresh, x.goal, rows) => Owned(j.refresh, x.goal, rs)
      /\ y.st = "req" /\ Owned(y.cookies.refresh, x.goal, rows) =>
           Owned(y.cookies.refresh, x.goal, rs)
      /\ Carries(y) => \A u : Owned(y.sets.refresh, u, rows) => Owned(y.sets.refresh, u, rs)
  <2>1. Owned(jar.refresh, x.goal, rows) => Owned(jar.refresh, x.goal, rs)
      BY <1>3, OwnedKept
  <2>2. Owned(NoToken, x.goal, rs)
      BY DEF Owned
  <2> QED BY <1>3, <2>1, <2>2, OwnedKept
<1> QED BY <1>1, <1>2, <1>4 DEF Asked

LEMMA HandleKeeps ==
    ASSUME IInv, NEW t \in browser.tabs, Handle(t)
    PROVE  IInv'
<1>1. PICK y, x : y = net[t] /\ x = tab[t]
    OBVIOUS
<1>2. y \in RequestOf(Created(rows)) /\ x \in Client /\ Waiting(x, y) /\ t \in Tabs
    BY <1>1, OfTab DEF Handle
<1>3. PICK h \in Handled(y) \cup {RateLimited(y)} :
        net' = [net EXCEPT ![t] = h[1]] /\ rows' = h[2]
    BY <1>1 DEF Handle
<1>4. PICK a, rs : a = h[1] /\ rs = h[2]
    OBVIOUS
<1>5. Answers(y, a, Created(rs)) /\ Effects(y, a, rs)
    BY <1>2, <1>3, <1>4, HandledEffects DEF IInv
<1>6. RowsOK(rows) /\ RowsOK(rs) /\ Grows(rows, rs)
    BY <1>2, <1>5, SameRows, EffectsGrow
<1>7. a \in Exchange(Created(rs)) /\ a.kind = y.kind /\ a.st = "res" /\ y.st = "req"
    BY <1>2, <1>5 DEF Answers, AnswerOf, Exchange, RequestOf
<1>8. Waiting(x, a)
  <2>1. NoExchange.st = "none"
      BY DEF NoExchange
  <2>2. y # NoExchange /\ a # NoExchange
      BY <1>7, <2>1
  <2> QED BY <1>2, <1>7, <2>2 DEF Waiting
<1>9. SignedOut(a, rs)
    BY <1>2, <1>5, <1>6, AnswerSignedOut
<1>10. ASSUME OneTab
       PROVE  /\ Asked(x, a, jar, rs)
              /\ ~browser.lossy => stray = {} /\ Lossless(x, a, jar, rs)
  <2>1. /\ Asked(x, y, jar, rows)
        /\ ~browser.lossy => stray = {} /\ Lossless(x, y, jar, rows)
      BY <1>1, <1>10, OfTab
  <2>2. jar \in Cookies(Created(rows))
      BY DEF IInv, Shape
  <2>3. Asked(x, a, jar, rs)
      BY <1>2, <1>5, <1>6, <2>1, <2>2, AnswerAsked
  <2>4. ~browser.lossy => Lossless(x, a, jar, rs)
      BY <1>2, <1>5, <1>6, <2>1, AnswerLossless
  <2> QED BY <2>1, <2>3, <2>4
<1>11. /\ browser' = browser /\ active' = active /\ jar' = jar /\ tab' = tab
       /\ stray' = stray /\ gone' = gone
    BY DEF Handle
<1>12. tab' = [tab EXCEPT ![t] = x] /\ net' = [net EXCEPT ![t] = a] /\ rows' = rs
    BY <1>1, <1>3, <1>4, <1>11, OfTab
<1>13. /\ active' \subseteq Accounts /\ jar' \in Cookies(Created(rs))
       /\ stray' \subseteq RequestOf(Created(rs)) /\ gone' \subseteq Created(rs)
       /\ \A f \in gone' : rs[f].state = "revoked"
    BY <1>6, <1>11, CarriedOver DEF IInv, Shape
<1>14. OneTab => /\ Asked(x, a, jar', rs)
                 /\ ~browser.lossy => stray' = {} /\ Lossless(x, a, jar', rs)
    BY <1>10, <1>11
<1> QED BY <1>2, <1>6, <1>7, <1>8, <1>9, <1>11, <1>12, <1>13, <1>14, TabStep

LEMMA HandleStrayKeeps ==
    ASSUME IInv, HandleStray
    PROVE  IInv'
<1>1. PICK r \in stray : \E h \in Handled(r) : stray' = stray \ {r} /\ rows' = h[2]
    BY DEF HandleStray
<1>2. PICK h \in Handled(r) : stray' = stray \ {r} /\ rows' = h[2]
    BY <1>1
<1>3. r \in RequestOf(Created(rows))
    BY DEF IInv, Shape
<1>4. Effects(r, h[1], h[2])
    BY <1>2, <1>3, HandledEffects DEF IInv
<1>5. PICK rs : rs = h[2]
    OBVIOUS
<1>6. RowsOK(rs) /\ Grows(rows, rs)
    BY <1>3, <1>4, <1>5, SameRows, EffectsGrow
<1>7. rows' = rs /\ browser' = browser /\ active' = active /\ jar' = jar /\ tab' = tab
      /\ net' = net /\ gone' = gone /\ stray' \subseteq stray
    BY <1>2, <1>5 DEF HandleStray
<1>8. active' \subseteq Accounts /\ jar' \in Cookies(Created(rs))
    BY <1>6, <1>7, CarriedOver DEF IInv, Shape
<1>9. ASSUME NEW t \in browser.tabs, OneTab
      PROVE  Asked(tab[t], net[t], jar, rs) /\ browser.lossy
  <2>1. browser.lossy
      BY <1>1, <1>9, OfTab
  <2> QED BY <1>6, <1>9, <2>1, AskedLater
<1> QED BY <1>6, <1>7, <1>8, <1>9, OutsideStep

\* The cookies of the jar once an answer has set its own.
LEMMA TakenFits ==
    ASSUME NEW C, jar \in Cookies(C), NEW sets \in {<<>>} \cup [csrf : Csrf] \cup Cookies(C)
    PROVE  /\ Taken(sets) \in Cookies(C)
           /\ Taken(sets).refresh = IF "refresh" \in DOMAIN sets THEN sets.refresh
                                    ELSE jar.refresh
<1>1. CASE sets = <<>>
    BY <1>1 DEF Taken, Cookies
<1>2. CASE sets \in [csrf : Csrf]
    BY <1>2 DEF Taken, Cookies
<1>3. CASE sets \in Cookies(C)
    BY <1>3 DEF Taken, Cookies
<1> QED BY <1>1, <1>2, <1>3

\* The first call of a queue is one of those the invariant speaks of.
LEMMA HeadInQueue ==
    ASSUME NEW x \in Client, x.calls # <<>>, Queued(x)
    PROVE  Head(x.calls) \in Call /\ InQueue(x, Head(x.calls))
<1>1. x.calls \in Seq(Call)
    BY DEF Client
<1>2. 1 \in DOMAIN x.calls /\ Head(x.calls) = x.calls[1] /\ Head(x.calls) \in Call
    BY <1>1
<1> QED BY <1>2, QueuedIs

\* A call that goes on or ends.
LEMMA ProceedAsked ==
    ASSUME NEW x \in Client, x.calls # <<>>, NEW y, NEW k, Asked(x, y, k, rows),
           NEW z, NEW w, NEW next, NEW j, NEW user,
           \/ GoesOn(x, z, w, next, j) \/ Stops(x, z, w) \/ Installs(x, z, w, next, user),
           x.seen /\ x.goal # Anyone => Owned(j.refresh, x.goal, rows),
           Installs(x, z, w, next, user) =>
             /\ Head(x.calls).op \in {"bootstrap", "refresh"} \cup Logins
             /\ x.goal \in {Anyone, user}
             /\ x.goal # Anyone => Owned(j.refresh, x.goal, rows)
    PROVE  Asked(z, w, j, rows)
<1>1. Queued(x) /\ (x.status = "authenticated" => x.goal \in {Anyone, x.user})
    BY DEF Asked
<1>2. CASE GoesOn(x, z, w, next, j)
  <2>1. Queued(z)
      BY <1>1, <1>2, QueuedKept DEF GoesOn, KeptBy
  <2>2. w.st = "req" /\ w.cookies = j /\ KeptBy(x, z)
      BY <1>2 DEF GoesOn
  <2> QED BY <1>1, <2>1, <2>2 DEF Asked, KeptBy, Carries
<1>3. CASE Stops(x, z, w)
  <2>1. Queued(z)
      BY <1>1, <1>3, QueuedTail DEF Stops, KeptBy
  <2>2. w.st = "none" /\ KeptBy(x, z)
      BY <1>3 DEF Stops, NoExchange
  <2> QED BY <1>1, <2>1, <2>2 DEF Asked, KeptBy, Carries
<1>4. CASE Installs(x, z, w, next, user)
  <2>1. Queued(z)
      BY <1>1, <1>4, QueuedInstalled DEF Installs
  <2>2. w.st = "none" /\ z.user = user /\ z.goal = x.goal
      BY <1>4 DEF Installs, NoExchange
  <2> QED BY <1>4, <2>1, <2>2 DEF Asked, Carries
<1> QED BY <1>2, <1>3, <1>4

LEMMA ReceiveKeeps ==
    ASSUME IInv, NEW t \in browser.tabs, Receive(t)
    PROVE  IInv'
<1>1. PICK x, y, C : x = tab[t] /\ y = net[t] /\ C = Created(rows)
    OBVIOUS
<1>2. /\ y \in AnswerOf(C) /\ x \in Client /\ Waiting(x, y) /\ t \in Tabs
      /\ y.st = "res" /\ SignedOut(y, rows)
    BY <1>1, OfTab DEF Receive
<1>3. PICK op, at, nj : op = Head(x.calls).op /\ at = x.at /\ nj = jar'
    OBVIOUS
<1>4. x.calls # <<>> /\ y.kind = at /\ at \in RequestsOf(op)
  <2>1. y # NoExchange
      BY <1>2 DEF NoExchange
  <2> QED BY <1>2, <1>3, <2>1 DEF Waiting
<1>5. Head(x.calls) \in Call /\ op \in SessionOps
  <2>1. x.calls \in Seq(Call)
      BY <1>2 DEF Client
  <2>2. Head(x.calls) \in Call
      BY <1>4, <2>1
  <2> QED BY <1>3, <2>2 DEF Call
<1>6. PICK next : next = Onward(t, op, at, y.code)
    OBVIOUS
<1>7. PICK held : held = Held(t, op, at, y.code)
    OBVIOUS
<1>8. /\ y.sets \in {<<>>} \cup [csrf : Csrf] \cup Cookies(C) /\ y.user \in Users
      /\ y.csrf \in Csrf /\ y.fam \in {NoFamily} \cup C
    BY <1>2 DEF AnswerOf
<1>9. held \in Csrf
    BY <1>1, <1>2, <1>7, <1>8 DEF Held, Client, Csrf
<1>10. nj = Taken(y.sets)
    BY <1>1, <1>3 DEF Receive
<1>11. nj \in Cookies(C) /\ nj.refresh = IF Carries(y) THEN y.sets.refresh ELSE jar.refresh
  <2>1. jar \in Cookies(C)
      BY <1>1 DEF IInv, Shape
  <2> QED BY <1>2, <1>8, <1>10, <2>1, TakenFits DEF Carries
<1>12. Proceed(t, next, nj, held, y.user)
    BY <1>1, <1>3, <1>6, <1>7 DEF Receive, Proceed
<1>13. /\ next \in RequestsOf(op) \cup Endings
       /\ next = "login" => at = "preauth" /\ op # "logout"
       /\ next = "preauth" /\ op # "logout" =>
            \/ at = "recover" /\ y.code = 401
            \/ at \in {"post", "post2"} /\ y.code \in {200, 204} /\ op \in Logins
       /\ next = "install" =>
            \/ op = "bootstrap"
            \/ op = "refresh" /\ at \in {"post", "post2"} /\ y.code \in {200, 204}
            \/ op \in Logins /\ at = "login" /\ y.code = 200
    BY <1>4, <1>5, <1>6, OnwardFits
<1>14. next \in Kinds \cup Endings /\ (next \in Kinds => next \in RequestsOf(op))
    BY <1>13 DEF RequestsOf, Kinds, Endings
<1>15. PICK z \in Client, w \in {NoExchange} \cup RequestOf(C) :
         /\ tab' = [tab EXCEPT ![t] = z] /\ net' = [net EXCEPT ![t] = w]
         /\ Waiting(z, w)
         /\ GoesOn(x, z, w, next, nj) \/ Stops(x, z, w) \/ Installs(x, z, w, next, y.user)
    BY <1>1, <1>2, <1>3, <1>4, <1>8, <1>9, <1>11, <1>12, <1>14, ProceedStep DEF IInv
<1>16. /\ browser' = browser /\ rows' = rows /\ active' = active /\ stray' = stray
       /\ gone' = IF y.code = 204 /\ y.fam # NoFamily THEN gone \cup {y.fam} ELSE gone
    BY <1>1 DEF Receive
<1>17. w.st \in {"req", "none"} /\ w \in Exchange(C) /\ SignedOut(w, rows)
    BY <1>15 DEF RequestOf, Exchange, NoExchange, SignedOut
<1>18. /\ gone' \subseteq C /\ \A f \in gone' : rows[f].state = "revoked"
       /\ active' \subseteq Accounts /\ stray' \subseteq RequestOf(C)
    BY <1>1, <1>2, <1>8, <1>16 DEF IInv, Shape, SignOutsHold, SignedOut
<1>19. ASSUME OneTab
       PROVE  Asked(z, w, nj, rows)
  <2>1. Asked(x, y, jar, rows)
      BY <1>1, <1>19, OfTab
  <2>2. Head(x.calls) \in Call /\ InQueue(x, Head(x.calls))
      BY <1>2, <1>4, <2>1, HeadInQueue DEF Asked
  <2>3. x.seen /\ x.goal # Anyone => Owned(nj.refresh, x.goal, rows)
      BY <1>11, <2>1 DEF Asked
  <2>4. ASSUME Installs(x, z, w, next, y.user)
        PROVE  /\ op \in {"bootstrap", "refresh"} \cup Logins
               /\ x.goal \in {Anyone, y.user}
               /\ x.goal # Anyone => Owned(nj.refresh, x.goal, rows)
    <3>1. next = "install" /\ Head(x.calls).gen = x.epoch
        BY <2>4 DEF Installs
    <3>2. CASE op = "bootstrap"
        BY <1>3, <2>2, <3>1, <3>2 DEF InQueue
    <3>3. CASE op = "refresh" /\ at \in {"post", "post2"} /\ y.code \in {200, 204}
      <4>1. x.seen
          BY <1>3, <2>2, <3>1, <3>3 DEF InQueue
      <4>2. x.goal # Anyone => y.user = x.goal
          BY <1>2, <1>4, <2>1, <3>3, <4>1 DEF Asked
      <4> QED BY <2>3, <3>3, <4>1, <4>2
    <3>4. CASE op \in Logins /\ at = "login" /\ y.code = 200
      <4>1. x.goal = Head(x.calls).who
          BY <1>3, <2>2, <3>1, <3>4 DEF InQueue
      <4>2. Carries(y) /\ y.user = Head(x.calls).who /\ Owned(y.sets.refresh, y.user, rows)
          BY <1>2, <1>4, <2>1, <3>4 DEF Asked
      <4> QED BY <1>11, <3>4, <4>1, <4>2
    <3> QED BY <1>13, <3>1, <3>2, <3>3, <3>4
  <2> QED BY <1>2, <1>3, <1>4, <1>15, <2>1, <2>3, <2>4, ProceedAsked
<1>20. ASSUME OneTab, ~browser.lossy
       PROVE  Lossless(z, w, nj, rows)
  <2>1. Lossless(x, y, jar, rows)
      BY <1>1, <1>20, OfTab
  <2>2. Holds(nj.refresh, rows) /\ (SignedOff(x, y) => Live(rows) = {})
      BY <1>11, <2>1 DEF Lossless
  <2>3. CASE GoesOn(x, z, w, next, nj)
    <3>1. w.st = "req" /\ w.cookies = nj /\ z.at = next /\ z.calls = x.calls
        BY <2>3 DEF GoesOn
    <3>2. SignedOff(z, w) => SignedOff(x, y)
      <4>1. ASSUME SignedOff(z, w) PROVE SignedOff(x, y)
        <5>1. next = "login" \/ (next = "preauth" /\ op # "logout")
            BY <1>3, <3>1, <4>1 DEF SignedOff
        <5>2. CASE at = "preauth" /\ op # "logout"
            BY <1>3, <5>2 DEF SignedOff
        <5>3. CASE at = "recover" /\ y.code = 401
            BY <1>2, <1>4, <5>3 DEF SignedOff
        <5>4. CASE at \in {"post", "post2"} /\ y.code \in {200, 204} /\ op \in Logins
            BY <1>2, <1>3, <1>4, <5>4 DEF SignedOff, Logins
        <5> QED BY <1>13, <5>1, <5>2, <5>3, <5>4
      <4> QED BY <4>1
    <3> QED BY <2>2, <3>1, <3>2 DEF Lossless, Carries
  <2>4. CASE Stops(x, z, w) \/ Installs(x, z, w, next, y.user)
    <3>1. w = NoExchange /\ z.at = ""
        BY <2>4 DEF Stops, Installs
    <3>2. w.st = "none"
        BY <3>1 DEF NoExchange
    <3> QED BY <2>2, <3>1, <3>2 DEF Lossless, Carries, SignedOff
  <2> QED BY <1>15, <2>3, <2>4
<1>21. OneTab => /\ Asked(z, w, jar', rows)
                 /\ ~browser.lossy => stray' = {} /\ Lossless(z, w, jar', rows)
    BY <1>1, <1>3, <1>16, <1>19, <1>20, OfTab
<1>22. jar' \in Cookies(C) /\ RowsOK(rows) /\ Grows(rows, rows)
    BY <1>3, <1>11, SameRows
<1> QED BY ZenonT(40), <1>1, <1>15, <1>16, <1>17, <1>18, <1>21, <1>22, TabStep

LEMMA LoseKeeps ==
    ASSUME IInv, NEW t \in browser.tabs, Lose(t)
    PROVE  IInv'
<1>1. PICK x, y, C : x = tab[t] /\ y = net[t] /\ C = Created(rows)
    OBVIOUS
<1>2. x \in Client /\ Waiting(x, y) /\ t \in Tabs /\ y # NoExchange
    BY <1>1, OfTab DEF Lose, Idle
<1>3. x.calls # <<>> /\ x.csrf \in Csrf /\ NoUser \in Users
    BY <1>2 DEF Waiting, Client, Users
<1>4. jar \in Cookies(C)
    BY <1>1 DEF IInv, Shape
<1>5. Proceed(t, "fail", jar, x.csrf, NoUser)
    BY <1>1 DEF Lose
<1>6. "fail" \in Kinds \cup Endings /\ "fail" \notin Kinds
    BY DEF Kinds, Endings
<1>7. PICK z \in Client, w \in {NoExchange} \cup RequestOf(C) :
        /\ tab' = [tab EXCEPT ![t] = z] /\ net' = [net EXCEPT ![t] = w]
        /\ Waiting(z, w)
        /\ GoesOn(x, z, w, "fail", jar) \/ Stops(x, z, w) \/ Installs(x, z, w, "fail", NoUser)
    BY <1>1, <1>2, <1>3, <1>4, <1>5, <1>6, ProceedStep DEF IInv
<1>8. Stops(x, z, w) /\ ~Installs(x, z, w, "fail", NoUser)
    BY <1>6, <1>7 DEF GoesOn, Installs
<1>9. /\ browser' = browser /\ rows' = rows /\ active' = active /\ gone' = gone
      /\ jar' = jar /\ browser.lossy
    BY DEF Lose
<1>10. w \in Exchange(C) /\ SignedOut(w, rows)
    BY <1>7 DEF RequestOf, Exchange, NoExchange, SignedOut
<1>11. stray' \subseteq RequestOf(C)
  <2>1. stray' = stray \/ (y.st = "req" /\ stray' = {y})
      BY <1>1 DEF Lose
  <2>2. y.st = "req" => y \in RequestOf(C)
      BY <1>1, OfTab
  <2> QED BY <1>1, <2>1, <2>2 DEF IInv, Shape
<1>12. ASSUME OneTab
       PROVE  Asked(z, w, jar, rows)
  <2>1. Asked(x, y, jar, rows)
      BY <1>1, <1>12, OfTab
  <2>2. x.seen /\ x.goal # Anyone => Owned(jar.refresh, x.goal, rows)
      BY <2>1 DEF Asked
  <2> QED BY <1>2, <1>3, <1>8, <2>1, <2>2, ProceedAsked
<1>13. /\ jar' \in Cookies(C) /\ RowsOK(rows) /\ Grows(rows, rows) /\ active' \subseteq Accounts
       /\ gone' \subseteq C /\ \A f \in gone' : rows[f].state = "revoked"
    BY <1>1, <1>4, <1>9, SameRows, CarriedOver DEF IInv, Shape
<1>14. OneTab => /\ Asked(z, w, jar', rows)
                 /\ ~browser.lossy => stray' = {} /\ Lossless(z, w, jar', rows)
    BY <1>9, <1>12
<1> QED BY <1>1, <1>7, <1>9, <1>10, <1>11, <1>13, <1>14, TabStep

\* A step of the client alone: nothing is sent, and the jar stays.
LEMMA ClientStepKeeps ==
    ASSUME IInv, NEW t \in browser.tabs, NEW z \in Client,
           tab' = [tab EXCEPT ![t] = z],
           UNCHANGED <<browser, rows, active, jar, net, stray, gone>>,
           Waiting(z, net[t]),
           OneTab => Asked(z, net[t], jar, rows),
           OneTab /\ SignedOff(z, net[t]) => SignedOff(tab[t], net[t])
    PROVE  IInv'
<1>1. PICK w \in Exchange(Created(rows)) : w = net[t]
    BY OfTab
<1>2. net' = [net EXCEPT ![t] = w] /\ SignedOut(w, rows)
    BY <1>1, OfTab
<1>3. ASSUME OneTab, ~browser.lossy
      PROVE  stray = {} /\ Lossless(z, w, jar, rows)
  <2>1. stray = {} /\ Lossless(tab[t], w, jar, rows)
      BY <1>1, <1>3, OfTab
  <2>2. SignedOff(z, w) => SignedOff(tab[t], w)
      BY <1>1, <1>3
  <2> QED BY <2>1, <2>2 DEF Lossless
<1>4. /\ RowsOK(rows) /\ Grows(rows, rows) /\ active \subseteq Accounts
      /\ jar \in Cookies(Created(rows)) /\ stray \subseteq RequestOf(Created(rows))
      /\ gone \subseteq Created(rows) /\ \A f \in gone : rows[f].state = "revoked"
    BY SameRows, CarriedOver DEF IInv, Shape
<1>5. OneTab => /\ Asked(z, w, jar, rows)
                /\ ~browser.lossy => stray = {} /\ Lossless(z, w, jar, rows)
    BY <1>1, <1>3
<1> QED BY <1>1, <1>2, <1>4, <1>5, TabStep

LEMMA StartHeadKeeps ==
    ASSUME IInv, NEW t \in browser.tabs, StartHead(t)
    PROVE  IInv'
<1>1. PICK x, call, C : x = tab[t] /\ call = Head(x.calls) /\ C = Created(rows)
    OBVIOUS
<1>2. x \in Client /\ t \in Tabs /\ net[t] = NoExchange /\ x.calls # <<>> /\ x.at = ""
    BY <1>1, OfTab DEF StartHead, Idle
<1>3. x.calls \in Seq(Call) /\ call \in Call /\ Tail(x.calls) \in Seq(Call)
  <2>1. x.calls \in Seq(Call)
      BY <1>2 DEF Client
  <2>2. x.calls # <<>>
      BY <1>2
  <2>3. Head(x.calls) \in Call /\ Tail(x.calls) \in Seq(Call)
      BY <2>1, <2>2
  <2> QED BY <1>1, <2>1, <2>3
<1>4. tab \in [Tabs -> Client]
    BY DEF IInv, Shape
<1>5. CASE call.gen # x.epoch
  <2>1. PICK z : z = [x EXCEPT !.calls = Tail(x.calls)]
      OBVIOUS
  <2>2. /\ z \in Client /\ z.calls = Tail(x.calls) /\ z.at = "" /\ z.epoch = x.epoch
        /\ z.goal = x.goal /\ z.seen = x.seen /\ z.status = x.status /\ z.user = x.user
      BY <1>2, <1>3, <2>1 DEF Client
  <2>3. /\ tab' = [tab EXCEPT ![t] = z]
        /\ UNCHANGED <<browser, rows, active, jar, net, stray, gone>>
      BY <1>1, <1>2, <1>4, <1>5, <2>1 DEF StartHead
  <2>4. Waiting(z, NoExchange)
      BY <2>2 DEF Waiting
  <2>5. ASSUME OneTab PROVE Asked(z, NoExchange, jar, rows)
    <3>1. Asked(x, NoExchange, jar, rows)
        BY <1>1, <1>2, <2>5, OfTab
    <3>2. Queued(z)
        BY <1>2, <2>2, <3>1, QueuedTail DEF Asked
    <3> QED BY <2>2, <3>1, <3>2 DEF Asked, Carries, NoExchange
  <2>6. ~SignedOff(z, NoExchange)
      BY <2>2 DEF SignedOff, NoExchange
  <2> QED BY <1>2, <2>2, <2>3, <2>4, <2>5, <2>6, ClientStepKeeps
<1>6. CASE call.gen = x.epoch
  <2>1. PICK k : k = Start(t, call.op)
      OBVIOUS
  <2>2. k \in Kinds /\ k \in RequestsOf(call.op) /\ k # "" /\ k \in {"post", "recover"}
    <3>1. k = "recover" \/ (k = "post" /\ call.op \in {"refresh", "logout"})
        BY <2>1 DEF Start
    <3> QED BY <3>1 DEF RequestsOf, Kinds
  <2>3. PICK z : z = [x EXCEPT !.at = k]
      OBVIOUS
  <2>4. /\ z \in Client /\ z.calls = x.calls /\ z.at = k /\ z.epoch = x.epoch
        /\ z.goal = x.goal /\ z.seen = x.seen /\ z.status = x.status /\ z.user = x.user
      BY <1>2, <2>2, <2>3 DEF Client
  <2>5. PICK w : w = Request(k, call, jar, x.csrf)
      OBVIOUS
  <2>6. /\ w \in RequestOf(C) /\ w.st = "req" /\ w.kind = k /\ w.cookies = jar
        /\ w.op = call.op /\ w.who = call.who
    <3>1. jar \in Cookies(C) /\ x.csrf \in Csrf /\ call.op \in SessionOps /\ call.who \in Users
        BY <1>1, <1>2, <1>3 DEF IInv, Shape, Client, Call, Users
    <3> QED BY <2>2, <2>5, <3>1 DEF Request, RequestOf
  <2>7. /\ tab' = [tab EXCEPT ![t] = z] /\ net' = [net EXCEPT ![t] = w]
        /\ UNCHANGED <<browser, rows, active, jar, stray, gone>>
      BY <1>1, <1>2, <1>4, <1>6, <2>1, <2>3, <2>5 DEF StartHead
  <2>8. Waiting(z, w)
    <3>1. w # NoExchange
        BY <2>6 DEF NoExchange
    <3> QED BY <1>1, <1>2, <2>2, <2>4, <2>6, <3>1 DEF Waiting
  <2>9. w \in Exchange(C) /\ SignedOut(w, rows)
      BY <2>6 DEF Exchange, SignedOut
  <2>10. ASSUME OneTab PROVE Asked(z, w, jar, rows)
    <3>1. Asked(x, NoExchange, jar, rows)
        BY <1>1, <1>2, <2>10, OfTab
    <3>2. Queued(z)
        BY <2>4, <3>1, QueuedKept DEF Asked
    <3> QED BY <2>4, <2>6, <3>1, <3>2 DEF Asked, Carries
  <2>11. ASSUME OneTab, ~browser.lossy PROVE stray = {} /\ Lossless(z, w, jar, rows)
    <3>1. stray = {} /\ Lossless(x, NoExchange, jar, rows)
        BY <1>1, <1>2, <2>11, OfTab
    <3>2. Holds(jar.refresh, rows)
        BY <3>1 DEF Lossless, Carries, NoExchange
    <3>3. ~SignedOff(z, w)
        BY <2>2, <2>4, <2>6 DEF SignedOff
    <3> QED BY <2>6, <3>1, <3>2, <3>3 DEF Lossless, Carries
  <2>12. /\ RowsOK(rows) /\ Grows(rows, rows) /\ active \subseteq Accounts
         /\ jar \in Cookies(C) /\ stray \subseteq RequestOf(C)
         /\ gone \subseteq C /\ \A f \in gone : rows[f].state = "revoked"
      BY <1>1, SameRows, CarriedOver DEF IInv, Shape
  <2>13. OneTab => /\ Asked(z, w, jar, rows)
                   /\ ~browser.lossy => stray = {} /\ Lossless(z, w, jar, rows)
      BY <2>10, <2>11
  <2> QED BY <1>1, <2>4, <2>7, <2>8, <2>9, <2>12, <2>13, TabStep
<1> QED BY <1>5, <1>6

\* A call is queued, with the epoch and the identity that it shows.
LEMMA CallKeeps ==
    ASSUME IInv, NEW t \in browser.tabs, NEW op \in SessionOps, NEW who \in Users,
           op \in Logins => who \in Accounts, op \notin Logins => who = NoUser,
           Call_(t, op, who)
    PROVE  IInv'
<1>1. PICK x, y : x = tab[t] /\ y = net[t]
    OBVIOUS
<1>2. x \in Client /\ Waiting(x, y) /\ t \in Tabs /\ tab \in [Tabs -> Client]
    BY <1>1, OfTab DEF IInv, Shape
<1>3. /\ x.calls \in Seq(Call) /\ x.epoch \in Nat /\ x.made \in Nat /\ x.user \in Users
      /\ x.goal \in Users \cup {Anyone} /\ x.status \in {"anonymous", "loading", "authenticated"}
      /\ x.seen \in BOOLEAN
    BY <1>2 DEF Client
<1>4. PICK e \in Nat : e = IF op = "refresh" THEN x.epoch ELSE x.epoch + 1
    BY <1>3
<1>5. PICK c : c = [op |-> op, gen |-> e, who |-> who]
    OBVIOUS
<1>6. c \in Call /\ c.op = op /\ c.gen = e /\ c.who = who
    BY <1>5 DEF Call, Users
<1>7. PICK status : status = CASE op = "refresh" -> x.status
                               [] op = "logout" -> "anonymous"
                               [] OTHER -> "loading"
    OBVIOUS
<1>8. PICK goal : goal = CASE op = "refresh" -> x.goal
                           [] op = "logout" -> NoUser
                           [] op = "bootstrap" -> Anyone
                           [] OTHER -> who
    OBVIOUS
<1>9. PICK user : user = IF op = "refresh" THEN x.user ELSE NoUser
    OBVIOUS
<1>10. /\ status \in {"anonymous", "loading", "authenticated"}
       /\ goal \in Users \cup {Anyone} /\ user \in Users
    BY <1>3, <1>7, <1>8, <1>9 DEF Users
<1>11. PICK seen \in BOOLEAN : seen = (op = "refresh")
    OBVIOUS
<1>12. PICK z : z = [x EXCEPT !.calls = Append(x.calls, c), !.epoch = e, !.made = x.made + 1,
                              !.seen = seen, !.status = status, !.user = user, !.goal = goal]
    OBVIOUS
<1>13. Append(x.calls, c) \in Seq(Call) /\ x.made + 1 \in Nat
    BY <1>3, <1>6
<1>14. /\ z \in Client /\ z.calls = Append(x.calls, c) /\ z.epoch = e /\ z.at = x.at
       /\ z.seen = seen /\ z.status = status /\ z.user = user /\ z.goal = goal
    BY <1>2, <1>10, <1>12, <1>13 DEF Client
<1>15. /\ tab' = [tab EXCEPT ![t] = z]
       /\ UNCHANGED <<browser, rows, active, jar, net, stray, gone>>
    BY <1>1, <1>4, <1>5, <1>7, <1>8, <1>9, <1>11, <1>12 DEF Call_
<1>16. x.calls # <<>> => z.calls # <<>> /\ Head(z.calls) = Head(x.calls)
    BY <1>3, <1>6, <1>14
<1>17. y = NoExchange \/ x.calls # <<>>
    BY <1>2 DEF Waiting
<1>18. Waiting(z, y)
    BY <1>2, <1>14, <1>16, <1>17 DEF Waiting
<1>19. ASSUME OneTab PROVE Asked(z, y, jar, rows)
  <2>1. Asked(x, y, jar, rows)
      BY <1>1, <1>19, OfTab
  <2>2. CASE op = "refresh"
    <3>1. x.seen /\ seen /\ goal = x.goal /\ user = x.user /\ status = x.status /\ e = x.epoch
      <4>1. x.seen
          BY <1>1, <2>2 DEF Call_, CallGuard
      <4> QED BY <1>4, <1>7, <1>8, <1>9, <1>11, <2>2, <4>1
    <3>2. Queued(z)
        BY <1>2, <1>6, <1>14, <2>1, <2>2, <3>1, QueuedCalled DEF Asked
    <3>3. y.st = "res" /\ y.kind = "login" => Head(z.calls) = Head(x.calls)
        BY <1>16, <1>17 DEF NoExchange
    <3> QED BY <1>14, <2>1, <3>1, <3>2, <3>3 DEF Asked
  <2>3. CASE op # "refresh"
    <3>1. /\ seen = FALSE /\ status # "authenticated" /\ e = x.epoch + 1
          /\ op = "bootstrap" => goal = Anyone
          /\ op \in Logins => goal = who
        BY <1>4, <1>7, <1>8, <1>11, <2>3 DEF Logins
    <3>2. Queued(z)
        BY <1>2, <1>6, <1>14, <2>1, <2>3, <3>1, QueuedCalled DEF Asked
    <3>3. y.st = "res" /\ y.kind = "login" => Head(z.calls) = Head(x.calls)
        BY <1>16, <1>17 DEF NoExchange
    <3> QED BY <1>14, <2>1, <3>1, <3>2, <3>3 DEF Asked
  <2> QED BY <2>2, <2>3
<1>20. SignedOff(z, y) => SignedOff(x, y)
  <2>1. CASE x.calls # <<>>
      BY <1>14, <1>16, <2>1 DEF SignedOff
  <2>2. CASE x.calls = <<>>
    <3>1. y = NoExchange /\ z.at = ""
        BY <1>2, <1>14, <1>17, <2>2 DEF Waiting
    <3>2. y.st = "none"
        BY <3>1 DEF NoExchange
    <3> QED BY <3>1, <3>2 DEF SignedOff
  <2> QED BY <2>1, <2>2
<1> QED BY <1>1, <1>14, <1>15, <1>18, <1>19, <1>20, ClientStepKeeps

LEMMA ReloadKeeps ==
    ASSUME IInv, NEW t \in browser.tabs, Reload(t)
    PROVE  IInv'
<1>1. PICK x, c : x = tab[t] /\ c = [op |-> "bootstrap", gen |-> 1, who |-> NoUser]
    OBVIOUS
<1>2. x \in Client /\ t \in Tabs /\ net[t] = NoExchange /\ x.at = "" /\ x.made \in Nat
  <2>1. x \in Client /\ Waiting(x, net[t]) /\ t \in Tabs /\ x.calls = <<>>
      BY <1>1, OfTab DEF Reload
  <2> QED BY <2>1 DEF Waiting, Client
<1>3. c \in Call /\ c.op = "bootstrap" /\ c.gen = 1
    BY <1>1 DEF Call, SessionOps
<1>4. PICK z : z = [NewTab EXCEPT !.made = x.made + 1, !.epoch = 1, !.status = "loading",
                                  !.goal = Anyone, !.calls = <<c>>]
    OBVIOUS
<1>5. /\ z \in Client /\ z.calls = <<c>> /\ z.at = "" /\ z.epoch = 1 /\ z.goal = Anyone
      /\ z.seen = FALSE /\ z.status = "loading"
  <2>1. <<c>> \in Seq(Call) /\ x.made + 1 \in Nat /\ NoUser \in Users /\ NoCsrf \in Csrf
    <3>1. c \in Call
        BY <1>3
    <3>2. <<c>> \in Seq(Call)
        BY <3>1
    <3>3. NoUser \in Users /\ NoCsrf \in Csrf
        BY DEF Users, Csrf
    <3>4. x.made + 1 \in Nat
      <4>1. x.made \in Nat
          BY <1>2
      <4> QED BY <4>1
    <3> QED BY <3>2, <3>3, <3>4
  <2>2. z = [calls |-> <<c>>, at |-> "", csrf |-> NoCsrf, epoch |-> 1, status |-> "loading",
             user |-> NoUser, goal |-> Anyone, seen |-> FALSE, made |-> x.made + 1]
      BY <1>4 DEF NewTab
  <2> QED BY <2>1, <2>2 DEF Client
<1>6. /\ tab' = [tab EXCEPT ![t] = z]
      /\ UNCHANGED <<browser, rows, active, jar, net, stray, gone>>
    BY <1>1, <1>4 DEF Reload
<1>7. Waiting(z, NoExchange)
    BY <1>5 DEF Waiting
<1>8. Queued(z)
  <2>1. z.calls = <<c>>
      BY <1>5
  <2>2. \A i \in DOMAIN z.calls : i = 1 /\ z.calls[i] = c
      BY <2>1
  <2>3. c.gen = 1 /\ c.op = "bootstrap" /\ z.epoch = 1 /\ z.goal = Anyone /\ ~z.seen
      BY <1>3, <1>5
  <2>4. InQueue(z, c)
      BY <2>3 DEF InQueue, Logins
  <2>5. \A i, j \in DOMAIN z.calls : ~(i < j)
      BY <2>2
  <2> QED BY <2>2, <2>3, <2>4, <2>5, QueuedIs
<1>9. Asked(z, NoExchange, jar, rows)
    BY <1>5, <1>8 DEF Asked, NoExchange, Carries
<1>10. ~SignedOff(z, NoExchange)
    BY <1>5 DEF SignedOff, NoExchange
<1> QED BY <1>2, <1>5, <1>6, <1>7, <1>9, <1>10, ClientStepKeeps

LEMMA DataRefusedKeeps ==
    ASSUME IInv, NEW t \in browser.tabs, DataRefused(t)
    PROVE  IInv'
<1>1. PICK x, z : x = tab[t] /\ z = Anonymous(x)
    OBVIOUS
<1>2. x \in Client /\ t \in Tabs /\ Waiting(x, net[t])
    BY <1>1, OfTab
<1>3. /\ z \in Client /\ z.calls = x.calls /\ z.at = x.at /\ z.epoch = x.epoch
      /\ z.goal = x.goal /\ z.seen = x.seen /\ z.status = "anonymous"
    BY <1>1, <1>2 DEF Anonymous, Client, Users
<1>4. /\ tab' = [tab EXCEPT ![t] = z]
      /\ UNCHANGED <<browser, rows, active, jar, net, stray, gone>>
    BY <1>1 DEF DataRefused
<1>5. Waiting(z, net[t])
    BY <1>2, <1>3 DEF Waiting
<1>6. ASSUME OneTab PROVE Asked(z, net[t], jar, rows)
  <2>1. Asked(x, net[t], jar, rows)
      BY <1>1, <1>6, OfTab
  <2>2. Queued(z)
      BY <1>3, <2>1, QueuedKept DEF Asked
  <2> QED BY <1>3, <2>1, <2>2 DEF Asked
<1>7. SignedOff(z, net[t]) => SignedOff(tab[t], net[t])
    BY <1>1, <1>3 DEF SignedOff
<1> QED BY <1>3, <1>4, <1>5, <1>6, <1>7, ClientStepKeeps

\* The steps of time and of the administrator.
LEMMA AccessExpiresKeeps ==
    ASSUME IInv, AccessExpires
    PROVE  IInv'
<1>1. PICK j : j = [jar EXCEPT !.access = NoFamily]
    OBVIOUS
<1>2. j \in Cookies(Created(rows)) /\ j.refresh = jar.refresh
  <2>1. jar \in Cookies(Created(rows))
      BY DEF IInv, Shape
  <2> QED BY <1>1, <2>1 DEF Cookies
<1>3. /\ browser' = browser /\ rows' = rows /\ active' = active /\ jar' = j
      /\ tab' = tab /\ net' = net /\ stray' \subseteq stray /\ gone' = gone
    BY <1>1 DEF AccessExpires
<1>4. ASSUME NEW t \in browser.tabs, OneTab
      PROVE  /\ Asked(tab[t], net[t], j, rows)
             /\ ~browser.lossy => Lossless(tab[t], net[t], j, rows)
    BY <1>2, <1>4, OfTab DEF Asked, Lossless
<1>5. RowsOK(rows) /\ Grows(rows, rows) /\ active' \subseteq Accounts
    BY <1>3, SameRows DEF IInv, Shape
<1> QED BY <1>2, <1>3, <1>4, <1>5, OutsideStep

LEMMA FamilyExpiresKeeps ==
    ASSUME IInv, NEW f \in Families, FamilyExpires(f)
    PROVE  IInv'
<1>1. PICK rs : rs = [rows EXCEPT ![f].state = "expired"]
    OBVIOUS
<1>2. rows \in [Families -> Row] /\ rows[f].state = "live" /\ RowsOK(rows)
    BY DEF IInv, Shape, RowsOK, FamilyExpires
<1>3. rs \in [Families -> Row]
    BY <1>1, <1>2 DEF Row
<1>4. \A g \in Families :
        /\ rs[g].state = IF g = f THEN "expired" ELSE rows[g].state
        /\ rs[g].owner = rows[g].owner /\ rs[g].n = rows[g].n
    BY <1>1, <1>2 DEF Row
<1>5. Created(rs) = Created(rows)
    BY <1>2, <1>4 DEF Created
<1>6. RowsOK(rs)
    BY <1>2, <1>3, <1>5 DEF RowsOK
<1>7. Grows(rows, rs)
    BY <1>2, <1>4, <1>5 DEF Grows, Created
<1>8. Live(rs) = Live(rows) \ {f}
    BY <1>2, <1>4 DEF Live
<1>9. PICK j : j = jar'
    OBVIOUS
<1>10. \/ j = jar
       \/ jar.refresh.fam = f /\ j = [jar EXCEPT !.refresh = NoToken]
    BY <1>9 DEF FamilyExpires
<1>11. /\ j \in Cookies(Created(rs)) /\ j.refresh \in {jar.refresh, NoToken}
       /\ j.refresh # jar.refresh => jar.refresh.fam = f
  <2>1. jar \in Cookies(Created(rs))
      BY <1>5 DEF IInv, Shape
  <2> QED BY <1>10, <2>1 DEF Cookies, TokenOf
<1>12. /\ browser' = browser /\ rows' = rs /\ active' = active /\ jar' = j
       /\ tab' = tab /\ net' = net /\ stray' \subseteq stray /\ gone' = gone
    BY <1>1, <1>9 DEF FamilyExpires
<1>13. ASSUME NEW t \in browser.tabs, OneTab
       PROVE  /\ Asked(tab[t], net[t], j, rs)
              /\ ~browser.lossy => Lossless(tab[t], net[t], j, rs)
  <2>1. Asked(tab[t], net[t], j, rs)
      BY <1>7, <1>11, <1>13, AskedLater
  <2>2. ASSUME ~browser.lossy PROVE Lossless(tab[t], net[t], j, rs)
    <3>1. PICK x, y : x = tab[t] /\ y = net[t]
        OBVIOUS
    <3>2. Lossless(x, y, jar, rows)
        BY <1>13, <2>2, <3>1, OfTab
    <3>3. Live(rs) \subseteq Live(rows) /\ \A g \in Families : rs[g].n = rows[g].n
        BY <1>4, <1>8
    <3>4. y.st = "req" => Holds(y.cookies.refresh, rs)
        BY <3>2, <3>3, HoldsKept DEF Lossless
    <3>5. Holds(IF Carries(y) THEN y.sets.refresh ELSE j.refresh, rs)
      <4>1. CASE Carries(y)
        <5>1. Holds(y.sets.refresh, rows)
            BY <3>2, <4>1 DEF Lossless
        <5> QED BY <3>3, <4>1, <5>1, HoldsKept
      <4>2. CASE ~Carries(y)
        <5>1. Holds(jar.refresh, rows)
            BY <3>2, <4>2 DEF Lossless
        <5>2. CASE j.refresh = jar.refresh
            BY <3>3, <4>2, <5>1, <5>2, HoldsKept
        <5>3. CASE j.refresh # jar.refresh
          <6>1. Live(rs) = {}
              BY <1>8, <1>11, <5>1, <5>3 DEF Holds
          <6> QED BY <6>1 DEF Holds
        <5> QED BY <5>2, <5>3
      <4> QED BY <4>1, <4>2
    <3>6. SignedOff(x, y) => Live(rs) = {}
        BY <3>2, <3>3 DEF Lossless
    <3> QED BY <3>1, <3>4, <3>5, <3>6 DEF Lossless
  <2> QED BY <2>1, <2>2
<1>14. active' \subseteq Accounts
    BY <1>12 DEF IInv, Shape
<1> QED BY <1>6, <1>7, <1>11, <1>12, <1>13, <1>14, OutsideStep

LEMMA DeactivateKeeps ==
    ASSUME IInv, NEW u \in Accounts, Deactivate(u)
    PROVE  IInv'
<1>1. /\ browser' = browser /\ rows' = rows /\ active' \subseteq Accounts /\ jar' = jar
      /\ tab' = tab /\ net' = net /\ stray' \subseteq stray /\ gone' = gone
    BY DEF Deactivate, IInv, Shape
<1>2. RowsOK(rows) /\ Grows(rows, rows) /\ jar \in Cookies(Created(rows))
    BY SameRows DEF IInv, Shape
<1>3. \A t \in browser.tabs :
        OneTab => /\ Asked(tab[t], net[t], jar, rows)
                  /\ ~browser.lossy => Lossless(tab[t], net[t], jar, rows)
    BY OfTab
<1> QED BY <1>1, <1>2, <1>3, OutsideStep

LEMMA StutterKeeps == ASSUME IInv, UNCHANGED vars PROVE IInv'
BY DEF IInv, vars, Shape, Waits, OthersClosed, SignOutsHold, OnlyTab, OneTab

------------------------------------------------------------------------------
(* The invariant of the specification.                                     *)

LEMMA InitInv == Init => IInv
<1> SUFFICES ASSUME Init PROVE IInv
    OBVIOUS
<1>2. browser.tabs \subseteq Tabs /\ browser.accounts \subseteq Accounts /\ browser \in Browsers
    BY BrowserIsTyped DEF Init
<1>3. PICK u \in browser.accounts :
        /\ rows = [f \in Families |-> IF f = 1 THEN [owner |-> u, state |-> "live", n |-> 1]
                                      ELSE [owner |-> NoUser, state |-> "none", n |-> 0]]
        /\ tab = [t \in Tabs |->
             IF browser.open /\ t \in browser.tabs
               THEN [NewTab EXCEPT !.csrf = [bind |-> 1, n |-> 1], !.user = u,
                                   !.status = "authenticated", !.goal = Anyone, !.seen = TRUE]
               ELSE NewTab]
    BY DEF Init
<1>4. u \in Accounts /\ u \in Users /\ NoUser \in Users /\ 1 \in Families
    BY <1>2, <1>3, FamiliesAreNumbers DEF Users
<1>5. rows \in [Families -> Row] /\ \A f \in Families :
        /\ f = 1 => rows[f].state = "live" /\ rows[f].n = 1
        /\ f # 1 => rows[f].state = "none"
  <2>1. [owner |-> u, state |-> "live", n |-> 1] \in Row
        /\ [owner |-> NoUser, state |-> "none", n |-> 0] \in Row
      BY <1>4 DEF Row
  <2> QED BY <1>3, <2>1
<1>6. Created(rows) = {1} /\ Live(rows) = {1}
    BY <1>4, <1>5 DEF Created, Live
<1>7. RowsOK(rows)
  <2>1. Created(rows) = 1..1 /\ 1 \in Nat
      BY <1>6
  <2> QED BY <1>5, <2>1 DEF RowsOK
<1>8. PICK c : c = [bind |-> 1, n |-> 1]
    OBVIOUS
<1>9. c \in Csrf /\ NoCsrf \in Csrf
  <2>1. Cardinality(Tabs) \in Nat
      BY SessionsAssumption, FS_CardinalityType
  <2>2. 1 \in Nonces
      BY <2>1 DEF Nonces
  <2> QED BY <1>4, <1>8, <2>2 DEF Csrf
<1>10. jar \in Cookies({1}) /\ jar.refresh = [fam |-> 1, n |-> 1]
  <2>1. PICK a \in {NoFamily, 1} : jar = [access |-> a, refresh |-> [fam |-> 1, n |-> 1], csrf |-> c]
      BY <1>8 DEF Init
  <2>2. [fam |-> 1, n |-> 1] \in TokenOf({1})
      BY DEF TokenOf
  <2> QED BY <1>9, <2>1, <2>2 DEF Cookies
<1>11. ASSUME NEW t \in Tabs
       PROVE  /\ tab[t] \in Client /\ tab[t].at = "" /\ tab[t].calls = <<>>
              /\ tab[t].status = "authenticated" => tab[t].goal = Anyone /\ t \in browser.tabs
              /\ tab[t].seen => tab[t].goal = Anyone
  <2> DEFINE Blank(k, status, user, goal, seen) ==
        [calls |-> <<>>, at |-> "", csrf |-> k, epoch |-> 0, status |-> status,
         user |-> user, goal |-> goal, seen |-> seen, made |-> 0]
  <2>0. ASSUME NEW k \in Csrf, NEW status \in {"anonymous", "authenticated"},
               NEW user \in Users, NEW goal \in Users \cup {Anyone}, NEW seen \in BOOLEAN
        PROVE  Blank(k, status, user, goal, seen) \in Client
    <3>1. <<>> \in Seq(Call)
        OBVIOUS
    <3>2. "" \in Kinds \cup {""}
        OBVIOUS
    <3>3. 0 \in Nat
        OBVIOUS
    <3>4. status \in {"anonymous", "loading", "authenticated"}
        OBVIOUS
    <3> QED BY <2>0, <3>1, <3>2, <3>3, <3>4 DEF Client
  <2>A. NoUser \in Users \cup {Anyone} /\ Anyone \in Users \cup {Anyone}
      BY <1>4
  <2>1. CASE browser.open /\ t \in browser.tabs
    <3>1. tab[t] = Blank(c, "authenticated", u, Anyone, TRUE)
        BY <1>3, <1>8, <2>1 DEF NewTab
    <3>2. Blank(c, "authenticated", u, Anyone, TRUE) \in Client
        BY <1>4, <1>9, <2>0, <2>A
    <3>3. /\ Blank(c, "authenticated", u, Anyone, TRUE).at = ""
          /\ Blank(c, "authenticated", u, Anyone, TRUE).calls = <<>>
          /\ Blank(c, "authenticated", u, Anyone, TRUE).goal = Anyone
        OBVIOUS
    <3> HIDE DEF Blank
    <3> QED BY <2>1, <3>1, <3>2, <3>3
  <2>2. CASE ~(browser.open /\ t \in browser.tabs)
    <3>1. tab[t] = Blank(NoCsrf, "anonymous", NoUser, NoUser, FALSE)
        BY <1>3, <2>2 DEF NewTab
    <3>2. Blank(NoCsrf, "anonymous", NoUser, NoUser, FALSE) \in Client
        BY <1>4, <1>9, <2>0, <2>A
    <3>3. /\ Blank(NoCsrf, "anonymous", NoUser, NoUser, FALSE).at = ""
          /\ Blank(NoCsrf, "anonymous", NoUser, NoUser, FALSE).calls = <<>>
          /\ Blank(NoCsrf, "anonymous", NoUser, NoUser, FALSE).status = "anonymous"
          /\ ~Blank(NoCsrf, "anonymous", NoUser, NoUser, FALSE).seen
        OBVIOUS
    <3>4. "anonymous" # "authenticated"
        OBVIOUS
    <3> HIDE DEF Blank
    <3> QED BY <3>1, <3>2, <3>3, <3>4
  <2> QED BY <2>1, <2>2
<1>12. ASSUME NEW t \in Tabs PROVE net[t] = NoExchange
    BY DEF Init
<1>13. Shape
  <2>1. tab \in [Tabs -> Client]
      BY <1>3, <1>11
  <2>2. net \in [Tabs -> Exchange(Created(rows))]
      BY DEF Init, Exchange
  <2> QED BY <1>2, <1>6, <1>7, <1>10, <2>1, <2>2 DEF Shape, Init
<1>14. Waits /\ OthersClosed
  <2>1. ASSUME NEW t \in Tabs PROVE Waiting(tab[t], net[t])
    <3>1. tab[t].at = "" /\ net[t] = NoExchange
        BY <1>11, <1>12
    <3> QED BY <3>1 DEF Waiting
  <2>2. ASSUME NEW t \in Tabs \ browser.tabs
        PROVE  net[t] = NoExchange /\ tab[t].status = "anonymous"
    <3>1. tab[t] = NewTab
        BY <1>3, <2>2
    <3>2. NewTab.status = "anonymous"
        BY DEF NewTab
    <3>3. net[t] = NoExchange
        BY <1>12, <2>2
    <3> QED BY <3>1, <3>2, <3>3
  <2> QED BY <2>1, <2>2 DEF Waits, OthersClosed
<1>15. SignOutsHold
    BY <1>12 DEF SignOutsHold, SignedOut, Init, NoExchange
<1>16. ASSUME NEW t \in Tabs
       PROVE  Asked(tab[t], net[t], jar, rows) /\ Lossless(tab[t], net[t], jar, rows)
  <2>1. PICK x, y : x = tab[t] /\ y = net[t]
      OBVIOUS
  <2>2. y.st = "none" /\ x.calls = <<>> /\ x.at = "" /\ (x.seen => x.goal = Anyone)
        /\ (x.status = "authenticated" => x.goal = Anyone)
    <3>1. y = NoExchange
        BY <1>12, <2>1
    <3>2. y.st = "none"
        BY <3>1 DEF NoExchange
    <3> QED BY <1>11, <2>1, <3>2
  <2>3. Queued(x)
    <3>0. DOMAIN x.calls = {}
      <4>1. PICK q : q = x.calls
          OBVIOUS
      <4>2. q = <<>>
          BY <2>2, <4>1
      <4>3. DOMAIN q = {}
          BY <4>2
      <4> QED BY <4>1, <4>3
    <3>1. DOMAIN x.calls = {} /\ (x.seen => x.goal # NoUser)
      <4>1. Anyone # NoUser
          BY DEF Anyone, NoUser
      <4> QED BY <2>2, <3>0, <4>1
    <3> QED BY <3>1, QueuedIs
  <2>4. Asked(x, y, jar, rows)
      BY <2>2, <2>3 DEF Asked, Carries
  <2>5. Holds(jar.refresh, rows)
    <3>1. jar.refresh.fam = 1 /\ jar.refresh.n = 1 /\ NoToken.fam = 0
        BY <1>10 DEF NoToken, NoFamily
    <3>2. jar.refresh # NoToken
        BY <3>1
    <3> QED BY <1>4, <1>5, <1>6, <3>1, <3>2 DEF Holds
  <2>6. Lossless(x, y, jar, rows)
      BY <2>2, <2>5 DEF Lossless, Carries, SignedOff
  <2> QED BY <2>1, <2>4, <2>6
<1>17. OnlyTab
    BY <1>2, <1>16 DEF OnlyTab, Init
<1> QED BY <1>13, <1>14, <1>15, <1>17 DEF IInv

LEMMA CallsKeep ==
    ASSUME IInv, NEW t \in browser.tabs,
           Bootstrap(t) \/ Refresh(t) \/ Login(t) \/ LogoutCall(t)
    PROVE  IInv'
<1>1. CASE Bootstrap(t)
    BY <1>1, CallKeeps DEF Bootstrap, SessionOps, Users, Logins
<1>2. CASE Refresh(t)
    BY <1>2, CallKeeps DEF Refresh, SessionOps, Users, Logins
<1>3. CASE LogoutCall(t)
    BY <1>3, CallKeeps DEF LogoutCall, SessionOps, Users, Logins
<1>4. CASE Login(t)
  <2>1. PICK op \in Logins, u \in browser.accounts : Call_(t, op, u)
      BY <1>4 DEF Login
  <2>2. op \in SessionOps /\ u \in Accounts /\ u \in Users
      BY <2>1, BrowserIsTyped DEF IInv, Shape, Logins, SessionOps, Users
  <2> QED BY <2>1, <2>2, CallKeeps
<1> QED BY <1>1, <1>2, <1>3, <1>4

LEMMA NextInv == IInv /\ [Next]_vars => IInv'
<1>1. SUFFICES ASSUME IInv, [Next]_vars PROVE IInv'
    OBVIOUS
<1>2. CASE \E t \in browser.tabs :
             \/ Bootstrap(t) \/ Refresh(t) \/ Login(t) \/ LogoutCall(t) \/ Reload(t)
             \/ StartHead(t) \/ Handle(t) \/ Receive(t) \/ Lose(t) \/ DataRefused(t)
  <2>1. PICK t \in browser.tabs :
          \/ Bootstrap(t) \/ Refresh(t) \/ Login(t) \/ LogoutCall(t) \/ Reload(t)
          \/ StartHead(t) \/ Handle(t) \/ Receive(t) \/ Lose(t) \/ DataRefused(t)
      BY <1>2
  <2>2. CASE Bootstrap(t) \/ Refresh(t) \/ Login(t) \/ LogoutCall(t)
      BY <1>1, <2>2, CallsKeep
  <2>3. CASE Reload(t)
      BY <1>1, <2>3, ReloadKeeps
  <2>4. CASE StartHead(t)
      BY <1>1, <2>4, StartHeadKeeps
  <2>5. CASE Handle(t)
      BY <1>1, <2>5, HandleKeeps
  <2>6. CASE Receive(t)
      BY <1>1, <2>6, ReceiveKeeps
  <2>7. CASE Lose(t)
      BY <1>1, <2>7, LoseKeeps
  <2>8. CASE DataRefused(t)
      BY <1>1, <2>8, DataRefusedKeeps
  <2> QED BY <2>1, <2>2, <2>3, <2>4, <2>5, <2>6, <2>7, <2>8
<1>3. CASE HandleStray
    BY <1>1, <1>3, HandleStrayKeeps
<1>4. CASE AccessExpires
    BY <1>1, <1>4, AccessExpiresKeeps
<1>5. CASE \E f \in Families : FamilyExpires(f)
    BY <1>1, <1>5, FamilyExpiresKeeps
<1>6. CASE \E u \in Accounts : Deactivate(u)
    BY <1>1, <1>6, DeactivateKeeps
<1>7. CASE UNCHANGED vars
    BY <1>1, <1>7, StutterKeeps
<1> QED BY <1>1, <1>2, <1>3, <1>4, <1>5, <1>6, <1>7 DEF Next

LEMMA Inductive == Spec => []IInv
<1>1. Init => IInv
    BY InitInv
<1>2. IInv /\ [Next]_vars => IInv'
    BY NextInv
<1> QED BY <1>1, <1>2, PTL DEF Spec

------------------------------------------------------------------------------
(* The theorems.                                                           *)

\* The rows, the cookies, the clients and what is on the network have their
\* types; in particular there is always a nonce that no token carries.
THEOREM TypeCorrect == Spec => []TypeOK
<1>1. IInv => TypeOK
  <2> SUFFICES ASSUME IInv PROVE TypeOK
      OBVIOUS
  <2>2. Created(rows) \subseteq Families
      BY DEF Created
  <2>3. jar \in Jar
    <3>1. Cookies(Created(rows)) \subseteq Cookies(Families)
        BY <2>2, MoreFamilies
    <3>2. jar \in Cookies(Families)
        BY <3>1 DEF IInv, Shape
    <3> QED BY <3>2 DEF Jar, Cookies, Token, TokenOf
  <2>4. ASSUME NEW t \in Tabs
        PROVE  /\ tab[t].status \in {"anonymous", "loading", "authenticated"}
               /\ tab[t].csrf \in Csrf /\ tab[t].calls \in Seq(Call)
               /\ tab[t].at \in Kinds \cup {""} /\ net[t].st \in {"none", "req", "res"}
               /\ Idle(t) <=> tab[t].at = ""
    <3>1. tab[t] \in Client /\ net[t] \in Exchange(Created(rows)) /\ Waiting(tab[t], net[t])
        BY DEF IInv, Shape, Waits
    <3>2. net[t].st \in {"none", "req", "res"}
        BY <3>1 DEF Exchange, RequestOf, AnswerOf, NoExchange
    <3>3. Idle(t) <=> tab[t].at = ""
        BY <3>1 DEF Waiting, Idle
    <3> QED BY <3>1, <3>2, <3>3 DEF Client
  <2>5. rows \in [Families -> [owner : Accounts \cup {NoUser},
                               state : {"none", "live", "expired", "revoked"}, n : Nat]]
      BY DEF IInv, Shape, RowsOK, Row, Users
  <2>6. active \subseteq Accounts /\ gone \subseteq Families
      BY <2>2 DEF IInv, Shape
  <2> QED BY <2>3, <2>4, <2>5, <2>6 DEF TypeOK
<1> QED BY <1>1, Inductive, PTL

\* Whatever tabs share the jar, whatever is lost and whatever is handled late:
\* a family whose sign-out was answered stays revoked.
THEOREM SignedOutFamilyDeadHolds == Spec => []SignedOutFamilyDead
<1>1. IInv => SignedOutFamilyDead
    BY DEF IInv, SignOutsHold, SignedOutFamilyDead
<1> QED BY <1>1, Inductive, PTL

\* In a browser with one tab the user shown is the one the latest call asked
\* for, even when requests are lost and handled later.
THEOREM SignedInAsAskedHolds == Spec => []SignedInAsAsked
<1>1. IInv => SignedInAsAsked
  <2>1. SUFFICES ASSUME IInv, OneTab, NEW t \in Tabs, tab[t].status = "authenticated"
                 PROVE  tab[t].goal \in {Anyone, tab[t].user}
      BY DEF SignedInAsAsked
  <2>2. t \in browser.tabs
      BY <2>1 DEF IInv, OthersClosed
  <2>3. Asked(tab[t], net[t], jar, rows)
      BY <2>1, <2>2, OfTab
  <2> QED BY <2>1, <2>3 DEF Asked
<1> QED BY <1>1, Inductive, PTL

\* One tab and nothing lost: every rotation presents the current token.
THEOREM NoReplayHolds == Spec => []NoReplay
<1>1. IInv => NoReplay
  <2>1. SUFFICES ASSUME IInv, OneTab, ~browser.lossy, NEW t \in Tabs, net[t].st = "req",
                        net[t].cookies.refresh # NoToken,
                        rows[net[t].cookies.refresh.fam].state = "live"
                 PROVE  rows[net[t].cookies.refresh.fam].n = net[t].cookies.refresh.n
      BY DEF NoReplay
  <2>2. t \in browser.tabs
      BY <2>1 DEF IInv, OthersClosed, NoExchange
  <2>3. net[t] \in RequestOf(Created(rows)) /\ Lossless(tab[t], net[t], jar, rows)
      BY <2>1, <2>2, OfTab
  <2>4. net[t].cookies.refresh.fam \in Families
    <3>1. net[t].cookies \in Cookies(Created(rows)) /\ Created(rows) \in SUBSET Families
        BY <2>3 DEF RequestOf, Created
    <3> QED BY <2>1, <3>1, CookieFamilies
  <2>5. Holds(net[t].cookies.refresh, rows)
      BY <2>1, <2>3 DEF Lossless
  <2> QED BY <2>1, <2>4, <2>5 DEF Holds, Live
<1> QED BY <1>1, Inductive, PTL

\* One tab and nothing lost: a live family is in the jar or on its way to it.
THEOREM NoOrphanSessionHolds == Spec => []NoOrphanSession
<1>1. IInv => NoOrphanSession
  <2>1. SUFFICES ASSUME IInv, OneTab, ~browser.lossy, NEW f \in Families,
                        rows[f].state = "live"
                 PROVE  Reachable(f)
      BY DEF NoOrphanSession
  <2>2. PICK t \in Tabs : browser.tabs = {t}
      BY <2>1 DEF OneTab
  <2>3. Lossless(tab[t], net[t], jar, rows)
      BY <2>1, <2>2, OfTab
  <2>4. Holds(IF Carries(net[t]) THEN net[t].sets.refresh ELSE jar.refresh, rows)
      BY <2>3 DEF Lossless
  <2>5. CASE Carries(net[t])
      BY <2>1, <2>4, <2>5 DEF Holds, Live, Reachable, Carries
  <2>6. CASE ~Carries(net[t])
      BY <2>1, <2>4, <2>6 DEF Holds, Live, Reachable
  <2> QED BY <2>5, <2>6
<1> QED BY <1>1, Inductive, PTL

=============================================================================
