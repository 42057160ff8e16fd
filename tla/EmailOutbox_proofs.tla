-------------------------- MODULE EmailOutbox_proofs --------------------------
(***************************************************************************)
(* Proofs about EmailOutbox, for any mails and workers, any limit of       *)
(* attempts, and any lease longer than the life of an edge invocation.     *)
(***************************************************************************)
EXTENDS EmailOutbox, FiniteSetTheorems, TLAPS

-----------------------------------------------------------------------------
(* The inductive invariant.                                                *)

\* The provider sends a copy exactly when it learns the key.
CopiesAreKeys ==
    \A m \in Mails : copies[m] = IF m \in provider THEN 1 ELSE 0

\* Whoever takes a mail for delivered had the provider's answer.
AnswersAreTrue ==
    \A m \in Mails :
        /\ mail[m].status = "sent" => m \in provider
        /\ \A w \in Workers : delivery[w][m] = "accepted" => m \in provider

\* What is left of a lease, and of its edge invocation, is used up together.
LeaseOutlivesInvocation ==
    \A w \in EdgeWorkers, m \in Mails :
        delivery[w][m] \in {"claimed", "rendered", "accepted"} =>
            /\ mail[m].status = "waiting"
            /\ mail[m].owner = w
            /\ mail[m].lease + age[w] >= Lease

IInv ==
    /\ TypeOK
    /\ CopiesAreKeys
    /\ AnswersAreTrue
    /\ LeaseOutlivesInvocation
    /\ GivesUpInTime

-----------------------------------------------------------------------------
(* Facts about the operators.                                              *)

\* A power of two counts the subsets of a set.
LEMMA PowerIsNat == ASSUME NEW n \in Nat PROVE 2 ^ n \in Nat
<1>1. IsFiniteSet(1 .. n) /\ Cardinality(1 .. n) = n
    BY FS_Interval
<1>2. IsFiniteSet(SUBSET (1 .. n)) /\ Cardinality(SUBSET (1 .. n)) = 2 ^ n
    BY <1>1, FS_SUBSET, Zenon
<1> QED BY <1>2, FS_CardinalityType, Zenon

LEMMA RetryDelayIsBounded ==
    ASSUME NEW n \in Nat \ {0} PROVE RetryDelay(n) \in 0 .. MaxDelay
<1>1. n - 1 \in Nat
    OBVIOUS
<1>2. 2 ^ (n - 1) \in Nat
    BY <1>1, PowerIsNat
<1>3. \A p \in Nat : (IF p < MaxDelay THEN p ELSE MaxDelay) \in 0 .. MaxDelay
    BY NumbersAssumption
<1> QED BY <1>2, <1>3, Zenon DEF RetryDelay

\* A result keeps the shape of its row.
LEMMA CompletedRow ==
    ASSUME TypeOK, NEW m \in Mails, mail[m].attempts < MaxAttempts
    PROVE  /\ Completed(m) \in Mail
           /\ Completed(m).status = "sent"
<1>1. mail[m] \in Mail
    BY DEF TypeOK
<1>2. mail[m].attempts + 1 \in 0 .. MaxAttempts
    BY <1>1, NumbersAssumption DEF Mail
<1>3. 0 \in 0 .. Lease
    BY NumbersAssumption
<1> QED BY <1>1, <1>2, <1>3 DEF Mail, Completed

LEMMA FailedRow ==
    ASSUME TypeOK, NEW m \in Mails, mail[m].attempts < MaxAttempts,
           mail[m].status = "waiting", NEW failure \in {"retryable", "refused"}
    PROVE  /\ Failed(m, failure) \in Mail
           /\ Failed(m, failure).status \in {"waiting", "failed"}
           /\ Failed(m, failure).status = "waiting" =>
                 Failed(m, failure).attempts < MaxAttempts
           /\ Failed(m, failure).status = "failed"
                 /\ Failed(m, failure).error = "retryable" =>
                 Failed(m, failure).attempts = MaxAttempts
<1> DEFINE tried == mail[m].attempts + 1
<1>1. mail[m] \in Mail
    BY DEF TypeOK
<1>2. tried \in Nat \ {0} /\ tried \in 0 .. MaxAttempts
    BY <1>1, NumbersAssumption DEF Mail
<1>3. RetryDelay(tried) \in 0 .. MaxDelay
    BY <1>2, RetryDelayIsBounded
<1> DEFINE row == [mail[m] EXCEPT !.attempts = tried, !.error = failure,
                                  !.owner = NoWorker, !.lease = 0]
<1>4. 0 \in 0 .. Lease
    BY NumbersAssumption
<1>5. /\ row \in Mail
      /\ row.status = "waiting" /\ row.attempts = tried /\ row.error = failure
    BY <1>1, <1>2, <1>4 DEF Mail
<1>6. Failed(m, failure) = IF GivesUp(m, failure) THEN [row EXCEPT !.status = "failed"]
                           ELSE [row EXCEPT !.wait = RetryDelay(tried)]
    BY DEF Failed
<1>7. CASE GivesUp(m, failure)
    <2>1. failure = "refused" \/ tried = MaxAttempts
        BY <1>2, <1>7, NumbersAssumption DEF GivesUp
    <2> HIDE DEF row, tried
    <2> QED BY <1>5, <1>6, <1>7, <2>1 DEF Mail
<1>8. CASE ~GivesUp(m, failure)
    <2>1. tried < MaxAttempts
        BY <1>2, <1>8, NumbersAssumption DEF GivesUp
    <2> HIDE DEF row, tried
    <2> QED BY <1>3, <1>5, <1>6, <1>8, <2>1 DEF Mail
<1> QED BY <1>7, <1>8


\* A delivery is at the new phase, the others are where they were.
LEMMA SetEffect ==
    ASSUME TypeOK, NEW w \in Workers, NEW m \in Mails,
           NEW phase \in Phase, Set(w, m, phase)
    PROVE  /\ delivery' \in [Workers -> [Mails -> Phase]]
           /\ delivery'[w][m] = phase
           /\ \A v \in Workers, n \in Mails :
                 v # w \/ n # m => delivery'[v][n] = delivery[v][n]
BY DEF TypeOK, Set

-----------------------------------------------------------------------------
(* The initial states.                                                     *)

LEMMA InitIInv == Init => IInv
<1> SUFFICES ASSUME Init PROVE IInv
    OBVIOUS
<1> USE DEF Init
<1>1. NoMail \in Mail
    BY NumbersAssumption DEF NoMail, Mail
<1>2. TypeOK
    BY <1>1, NumbersAssumption DEF TypeOK, Phase
<1>3. CopiesAreKeys /\ AnswersAreTrue /\ GivesUpInTime
    BY DEF CopiesAreKeys, AnswersAreTrue, GivesUpInTime, NoMail
<1>4. LeaseOutlivesInvocation
    BY DEF LeaseOutlivesInvocation, Workers
<1> QED BY <1>2, <1>3, <1>4 DEF IInv

-----------------------------------------------------------------------------
(* Steps of one delivery.                                                  *)

\* A delivery that fails, or is forgotten, changes nothing else.
LEMMA Dropped ==
    ASSUME IInv, NEW w \in Workers, NEW m \in Mails,
           NEW phase \in {"none", "retryable", "refused"}, Set(w, m, phase),
           UNCHANGED <<mail, age, provider, copies, losses>>
    PROVE  IInv'
<1> USE DEF IInv
<1>1. phase \in Phase
    BY DEF Phase
<1>2. /\ delivery' \in [Workers -> [Mails -> Phase]]
      /\ delivery'[w][m] = phase
      /\ \A v \in Workers, n \in Mails :
            v # w \/ n # m => delivery'[v][n] = delivery[v][n]
    BY <1>1, SetEffect
<1>3. TypeOK'
    BY <1>2 DEF TypeOK
<1>4. CopiesAreKeys' /\ GivesUpInTime'
    BY DEF CopiesAreKeys, GivesUpInTime
<1>5. AnswersAreTrue'
    BY <1>2 DEF AnswersAreTrue
<1>6. LeaseOutlivesInvocation'
    BY <1>2 DEF LeaseOutlivesInvocation, Workers
<1> QED BY <1>3, <1>4, <1>5, <1>6

\* A result is recorded by the owner of the lease, at the end of his delivery.
LEMMA Recorded ==
    ASSUME IInv, NEW w \in Workers, NEW m \in Mails, NEW row \in Mail,
           NEW phase \in {"none", "retryable"}, Set(w, m, phase),
           Finalizable(w, m), mail' = [mail EXCEPT ![m] = row],
           UNCHANGED <<age, provider, copies, losses>>,
           row.status = "sent" => m \in provider,
           row.status = "waiting" => row.attempts < MaxAttempts,
           row.status = "failed" /\ row.error = "retryable" =>
              row.attempts = MaxAttempts
    PROVE  IInv'
<1> USE DEF IInv
<1>1. phase \in Phase
    BY DEF Phase
<1>2. /\ delivery' \in [Workers -> [Mails -> Phase]]
      /\ delivery'[w][m] = phase
      /\ \A v \in Workers, n \in Mails :
            v # w \/ n # m => delivery'[v][n] = delivery[v][n]
    BY <1>1, SetEffect
<1>3. /\ mail'[m] = row
      /\ \A n \in Mails : n # m => mail'[n] = mail[n]
    BY DEF TypeOK
<1>4. TypeOK'
    BY <1>2 DEF TypeOK
<1>5. CopiesAreKeys'
    BY DEF CopiesAreKeys
<1>6. AnswersAreTrue'
    BY <1>2, <1>3 DEF AnswersAreTrue
<1>7. GivesUpInTime'
    BY <1>3 DEF GivesUpInTime
<1>8. LeaseOutlivesInvocation'
    <2> SUFFICES ASSUME NEW v \in EdgeWorkers, NEW n \in Mails,
                        delivery'[v][n] \in {"claimed", "rendered", "accepted"}
                 PROVE  /\ mail'[n].status = "waiting"
                        /\ mail'[n].owner = v
                        /\ mail'[n].lease + age'[v] >= Lease
        BY DEF LeaseOutlivesInvocation
    <2>1. v # w \/ n # m
        BY <1>2
    <2>2. /\ mail[n].status = "waiting" /\ mail[n].owner = v
          /\ mail[n].lease + age[v] >= Lease
        BY <1>2, <2>1 DEF LeaseOutlivesInvocation, Workers
    <2>3. n # m
        BY <2>1, <2>2 DEF Finalizable
    <2> QED BY <1>3, <2>2, <2>3
<1> QED BY <1>4, <1>5, <1>6, <1>7, <1>8

LEMMA RenderKeepsIInv ==
    ASSUME IInv, NEW w \in Workers, NEW m \in Mails, Render(w, m)
    PROVE  IInv'
<1>1. ASSUME Set(w, m, "rendered") PROVE IInv'
    <2> USE DEF IInv
    <2>1. /\ delivery' \in [Workers -> [Mails -> Phase]]
          /\ delivery'[w][m] = "rendered"
          /\ \A v \in Workers, n \in Mails :
                v # w \/ n # m => delivery'[v][n] = delivery[v][n]
        BY <1>1, SetEffect DEF Phase
    <2>2. delivery[w][m] = "claimed" /\ UNCHANGED <<mail, age, provider, copies, losses>>
        BY DEF Render
    <2>3. TypeOK'
        BY <2>1, <2>2 DEF TypeOK
    <2>4. CopiesAreKeys' /\ GivesUpInTime'
        BY <2>2 DEF CopiesAreKeys, GivesUpInTime
    <2>5. AnswersAreTrue'
        BY <2>1, <2>2 DEF AnswersAreTrue
    <2>6. LeaseOutlivesInvocation'
        BY <2>1, <2>2 DEF LeaseOutlivesInvocation, Workers
    <2> QED BY <2>3, <2>4, <2>5, <2>6
<1>2. ASSUME NEW phase \in {"none", "retryable", "refused"}, Set(w, m, phase)
      PROVE  IInv'
    BY <1>2, Dropped DEF Render
<1>3. \/ Set(w, m, "rendered")
      \/ \E phase \in {"none", "retryable", "refused"} : Set(w, m, phase)
    BY DEF Render
<1> QED BY <1>1, <1>2, <1>3

LEMMA SendKeepsIInv ==
    ASSUME IInv, NEW w \in Workers, NEW m \in Mails, Send(w, m)
    PROVE  IInv'
<1>1. ASSUME Accept(m), NEW phase \in {"accepted", "retryable"}, Set(w, m, phase)
      PROVE  IInv'
    <2> USE DEF IInv
    <2>1. /\ delivery' \in [Workers -> [Mails -> Phase]]
          /\ delivery'[w][m] = phase
          /\ \A v \in Workers, n \in Mails :
                v # w \/ n # m => delivery'[v][n] = delivery[v][n]
        BY <1>1, SetEffect DEF Phase
    <2>2. /\ delivery[w][m] = "rendered" /\ UNCHANGED <<mail, age, losses>>
          /\ provider' = provider \union {m}
          /\ copies' = [copies EXCEPT ![m] = IF m \in provider THEN @ ELSE @ + 1]
        BY <1>1 DEF Send, Accept, KnownKeys
    <2>3. TypeOK'
        BY <2>1, <2>2 DEF TypeOK
    <2>4. CopiesAreKeys' /\ GivesUpInTime'
        BY <2>2 DEF CopiesAreKeys, GivesUpInTime, TypeOK
    <2>5. AnswersAreTrue'
        BY <2>1, <2>2 DEF AnswersAreTrue
    <2>6. LeaseOutlivesInvocation'
        BY <2>1, <2>2 DEF LeaseOutlivesInvocation, Workers
    <2> QED BY <2>3, <2>4, <2>5, <2>6
<1>2. ASSUME NEW failure \in {"retryable", "refused"}, Set(w, m, failure),
             UNCHANGED <<provider, copies>>
      PROVE  IInv'
    BY <1>2, Dropped DEF Send
<1> QED BY <1>1, <1>2 DEF Send

LEMMA CompleteKeepsIInv ==
    ASSUME IInv, NEW w \in Workers, NEW m \in Mails, Complete(w, m)
    PROVE  IInv'
<1> USE DEF Complete
<1>1. CASE ~Finalizable(w, m)
    BY <1>1, Dropped
<1>2. CASE Finalizable(w, m)
    <2>1. mail[m].attempts < MaxAttempts
        BY <1>2 DEF Finalizable, IInv, GivesUpInTime
    <2>2. Completed(m) \in Mail /\ Completed(m).status = "sent"
        BY <2>1, CompletedRow DEF IInv
    <2>3. m \in provider
        BY DEF IInv, AnswersAreTrue
    <2> QED BY <1>2, <2>2, <2>3, Recorded
<1> QED BY <1>1, <1>2

LEMMA CompleteFailsKeepsIInv ==
    ASSUME IInv, NEW w \in Workers, NEW m \in Mails, CompleteFails(w, m)
    PROVE  IInv'
<1> USE DEF CompleteFails
<1>1. CASE mail' = mail
    BY <1>1, Dropped
<1>2. CASE Finalizable(w, m) /\ mail' = [mail EXCEPT ![m] = Completed(m)]
    <2>1. mail[m].attempts < MaxAttempts
        BY <1>2 DEF Finalizable, IInv, GivesUpInTime
    <2>2. Completed(m) \in Mail /\ Completed(m).status = "sent"
        BY <2>1, CompletedRow DEF IInv
    <2>3. m \in provider
        BY DEF IInv, AnswersAreTrue
    <2> QED BY <1>2, <2>2, <2>3, Recorded
<1> QED BY <1>1, <1>2

LEMMA FailKeepsIInv ==
    ASSUME IInv, NEW w \in Workers, NEW m \in Mails, Fail(w, m)
    PROVE  IInv'
<1> USE DEF Fail
<1>1. CASE ~Finalizable(w, m)
    BY <1>1, Dropped
<1>2. CASE Finalizable(w, m)
    <2> DEFINE failure == delivery[w][m]
               row == Failed(m, failure)
    <2>1. mail[m].status = "waiting" /\ mail[m].attempts < MaxAttempts
        BY <1>2 DEF Finalizable, IInv, GivesUpInTime
    <2>2. /\ row \in Mail /\ row.status \in {"waiting", "failed"}
          /\ row.status = "waiting" => row.attempts < MaxAttempts
          /\ row.status = "failed" /\ row.error = "retryable" =>
                row.attempts = MaxAttempts
        BY <2>1, FailedRow DEF IInv
    <2>3. mail' = [mail EXCEPT ![m] = row]
        BY <1>2
    <2> HIDE DEF row
    <2> QED BY <1>2, <2>2, <2>3, Recorded
<1> QED BY <1>1, <1>2

-----------------------------------------------------------------------------
(* Steps that concern several rows.                                        *)

LEMMA EnqueueKeepsIInv ==
    ASSUME IInv, NEW m \in Mails, Enqueue(m)
    PROVE  IInv'
<1> USE DEF IInv
<1> DEFINE row == [NoMail EXCEPT !.status = "waiting", !.link = LinkLife]
<1>1. /\ row \in Mail /\ row.status = "waiting"
      /\ row.attempts = 0 /\ row.attempts < MaxAttempts
    <2>1. /\ 0 \in 0 .. MaxAttempts /\ 0 < MaxAttempts /\ 0 \in 0 .. MaxDelay
          /\ 0 \in 0 .. Lease /\ LinkLife \in 0 .. LinkLife
        BY NumbersAssumption
    <2>2. /\ NoMail \in Mail /\ NoMail.attempts = 0
        BY <2>1 DEF Mail, NoMail
    <2>3. [NoMail EXCEPT !.status = "waiting"] \in Mail
        BY <2>2 DEF Mail
    <2> QED BY <2>1, <2>2, <2>3 DEF Mail
<1>2. /\ mail' = [mail EXCEPT ![m] = row] /\ mail[m].status = "absent"
      /\ UNCHANGED <<delivery, age, provider, copies, losses>>
    BY DEF Enqueue
<1> HIDE DEF row
<1>3. /\ mail'[m] = row
      /\ \A n \in Mails : n # m => mail'[n] = mail[n]
    BY <1>2 DEF TypeOK
<1>4. TypeOK'
    BY <1>1, <1>2 DEF TypeOK
<1>5. CopiesAreKeys'
    BY <1>2 DEF CopiesAreKeys
<1>6. AnswersAreTrue'
    BY <1>1, <1>2, <1>3 DEF AnswersAreTrue
<1>7. GivesUpInTime'
    BY <1>1, <1>3 DEF GivesUpInTime
<1>8. LeaseOutlivesInvocation'
    BY <1>2, <1>3 DEF LeaseOutlivesInvocation
<1> QED BY <1>4, <1>5, <1>6, <1>7, <1>8

\* A row that an edge invocation delivers is not due: its lease has not run out.
LEMMA ClaimKeepsIInv ==
    ASSUME IInv, NEW w \in Workers, Claim(w)
    PROVE  IInv'
<1> USE DEF IInv
<1>1. PICK S \in SUBSET {m \in Mails : Due(m)} :
        /\ mail' = [m \in Mails |->
              IF m \in S THEN [mail[m] EXCEPT !.owner = w, !.lease = Lease]
                         ELSE mail[m]]
        /\ delivery' = [delivery EXCEPT ![w] =
              [m \in Mails |-> IF m \in S THEN "claimed" ELSE "none"]]
    BY Zenon DEF Claim
<1>2. /\ \A m \in Mails : delivery[w][m] = "none"
      /\ age' = [age EXCEPT ![w] = 0]
      /\ UNCHANGED <<provider, copies, losses>>
    BY DEF Claim, Busy, Active
<1>3. \A m \in S :
        /\ mail'[m] \in Mail
        /\ mail[m].status = "waiting" /\ mail'[m].status = "waiting"
        /\ mail'[m].attempts = mail[m].attempts
        /\ mail'[m].owner = w /\ mail'[m].lease = Lease
    <2> SUFFICES ASSUME NEW m \in S
                 PROVE  /\ mail'[m] \in Mail
                        /\ mail[m].status = "waiting" /\ mail'[m].status = "waiting"
                        /\ mail'[m].attempts = mail[m].attempts
                        /\ mail'[m].owner = w /\ mail'[m].lease = Lease
        OBVIOUS
    <2>1. mail[m] \in Mail /\ mail[m].status = "waiting"
        BY DEF TypeOK, Due
    <2>2. mail'[m] = [mail[m] EXCEPT !.owner = w, !.lease = Lease]
        BY <1>1
    <2>3. Lease \in 0 .. Lease
        BY NumbersAssumption
    <2> QED BY <2>1, <2>2, <2>3 DEF Mail
<1>4. \A m \in Mails \ S : mail'[m] = mail[m]
    BY <1>1
<1>5. /\ \A m \in Mails : delivery'[w][m] = IF m \in S THEN "claimed" ELSE "none"
      /\ \A v \in Workers \ {w} : delivery'[v] = delivery[v]
      /\ delivery' \in [Workers -> [Mails -> Phase]]
    BY <1>1 DEF TypeOK, Phase
<1>6. TypeOK'
    <2>1. mail' \in [Mails -> Mail]
        BY <1>1, <1>3, <1>4 DEF TypeOK
    <2>2. age' \in [Workers -> 0 .. WallClock]
        BY <1>2, NumbersAssumption DEF TypeOK
    <2> QED BY <1>2, <1>5, <2>1, <2>2 DEF TypeOK
<1>7. CopiesAreKeys'
    BY <1>2 DEF CopiesAreKeys
<1>8. AnswersAreTrue'
    BY <1>2, <1>3, <1>4, <1>5 DEF AnswersAreTrue
<1>9. GivesUpInTime'
    BY <1>3, <1>4 DEF GivesUpInTime
<1>10. LeaseOutlivesInvocation'
    <2> SUFFICES ASSUME NEW v \in EdgeWorkers, NEW m \in Mails,
                        delivery'[v][m] \in {"claimed", "rendered", "accepted"}
                 PROVE  /\ mail'[m].status = "waiting" /\ mail'[m].owner = v
                        /\ mail'[m].lease + age'[v] >= Lease
        BY DEF LeaseOutlivesInvocation
    <2>1. CASE v = w
        <3>1. m \in S
            BY <1>5, <2>1
        <3>2. age'[v] = 0
            BY <1>2, <2>1 DEF TypeOK
        <3> QED BY <1>3, <2>1, <3>1, <3>2, NumbersAssumption
    <2>2. CASE v # w
        <3>1. v \in Workers /\ age'[v] = age[v] /\ delivery'[v] = delivery[v]
            BY <1>2, <1>5, <2>2 DEF TypeOK, Workers
        <3>2. /\ mail[m].status = "waiting" /\ mail[m].owner = v
              /\ mail[m].lease + age[v] >= Lease
            BY <3>1 DEF LeaseOutlivesInvocation
        <3>3. mail[m].lease # 0
            BY <3>1, <3>2, NumbersAssumption DEF TypeOK
        <3>4. m \notin S
            BY <3>1, <3>2, <3>3, WorkersAssumption DEF Due
        <3> QED BY <1>4, <3>1, <3>2, <3>4
    <2> QED BY <2>1, <2>2
<1> QED BY <1>6, <1>7, <1>8, <1>9, <1>10

LEMMA LoseKeepsIInv ==
    ASSUME IInv, NEW w \in Workers, Lose(w)
    PROVE  IInv'
<1> USE DEF IInv
<1>1. PICK S \in SUBSET Active(w) :
        delivery' = [delivery EXCEPT ![w] =
              [m \in Mails |-> IF m \in S THEN "none" ELSE @[m]]]
    BY Zenon DEF Lose
<1>2. /\ losses > 0 /\ losses' = losses - 1
      /\ UNCHANGED <<mail, age, provider, copies>>
    BY DEF Lose
<1>3. /\ \A v \in Workers, m \in Mails :
            delivery'[v][m] \in {delivery[v][m], "none"}
      /\ delivery' \in [Workers -> [Mails -> Phase]]
    BY <1>1 DEF TypeOK, Phase
<1>4. TypeOK'
    BY <1>2, <1>3, NumbersAssumption DEF TypeOK
<1>5. CopiesAreKeys' /\ GivesUpInTime'
    BY <1>2 DEF CopiesAreKeys, GivesUpInTime
<1>6. AnswersAreTrue'
    BY <1>2, <1>3 DEF AnswersAreTrue
<1>7. LeaseOutlivesInvocation'
    BY <1>2, <1>3 DEF LeaseOutlivesInvocation, Workers
<1> QED BY <1>4, <1>5, <1>6, <1>7

\* A tick takes one from a lease and gives it to the age of the invocation.
LEMMA TickKeepsIInv ==
    ASSUME IInv, Tick
    PROVE  IInv'
<1> USE DEF IInv
<1>1. /\ UNCHANGED <<delivery, provider, copies>>
      /\ losses' = IF Overdue # {} THEN losses - 1 ELSE losses
      /\ Overdue # {} => losses > 0
    BY DEF Tick
<1>2. \A n \in Nat : Less(n) \in Nat /\ Less(n) <= n /\ Less(n) >= n - 1
    BY DEF Less
<1>3. \A m \in Mails :
        /\ mail'[m] \in Mail
        /\ mail'[m].status = mail[m].status
        /\ mail'[m].attempts = mail[m].attempts
        /\ mail'[m].error = mail[m].error
        /\ mail'[m].owner = mail[m].owner
        /\ mail'[m].lease >= mail[m].lease - 1
    <2> SUFFICES ASSUME NEW m \in Mails
                 PROVE  /\ mail'[m] \in Mail
                        /\ mail'[m].status = mail[m].status
                        /\ mail'[m].attempts = mail[m].attempts
                        /\ mail'[m].error = mail[m].error
                        /\ mail'[m].owner = mail[m].owner
                        /\ mail'[m].lease >= mail[m].lease - 1
        OBVIOUS
    <2> DEFINE wait == Less(mail[m].wait)
               lease == Less(mail[m].lease)
               link == Less(mail[m].link)
    <2>1. mail[m] \in Mail
        BY DEF TypeOK
    <2>2. /\ wait \in 0 .. MaxDelay /\ lease \in 0 .. Lease
          /\ link \in 0 .. LinkLife /\ lease >= mail[m].lease - 1
        BY <1>2, <2>1, NumbersAssumption DEF Mail
    <2>3. mail'[m] = [mail[m] EXCEPT !.wait = wait, !.lease = lease, !.link = link]
        BY DEF Tick
    <2> HIDE DEF wait, lease, link
    <2> QED BY <2>1, <2>2, <2>3 DEF Mail
<1>4. \A w \in Workers :
        /\ age'[w] \in 0 .. WallClock
        /\ w \in EdgeWorkers /\ Busy(w) => age'[w] = age[w] + 1
    <2> SUFFICES ASSUME NEW w \in Workers
                 PROVE  /\ age'[w] \in 0 .. WallClock
                        /\ w \in EdgeWorkers /\ Busy(w) => age'[w] = age[w] + 1
        OBVIOUS
    <2>1. age'[w] = IF w \in EdgeWorkers /\ Busy(w) THEN age[w] + 1 ELSE 0
        BY DEF Tick
    <2>2. w \in EdgeWorkers /\ Busy(w) => age[w] < WallClock
        BY DEF Tick
    <2>3. age[w] \in 0 .. WallClock /\ WallClock \in Nat
        BY NumbersAssumption DEF TypeOK
    <2> QED BY <2>1, <2>2, <2>3
<1>5. TypeOK'
    <2>1. mail' \in [Mails -> Mail]
        BY <1>3 DEF Tick
    <2>2. age' \in [Workers -> 0 .. WallClock]
        BY <1>4 DEF Tick
    <2>3. losses' \in 0 .. MaxLosses
        BY <1>1, NumbersAssumption DEF TypeOK
    <2> QED BY <1>1, <2>1, <2>2, <2>3 DEF TypeOK
<1>6. CopiesAreKeys'
    BY <1>1 DEF CopiesAreKeys
<1>7. GivesUpInTime'
    BY <1>3 DEF GivesUpInTime
<1>8. AnswersAreTrue'
    BY <1>1, <1>3 DEF AnswersAreTrue
<1>9. LeaseOutlivesInvocation'
    <2> SUFFICES ASSUME NEW w \in EdgeWorkers, NEW m \in Mails,
                        delivery[w][m] \in {"claimed", "rendered", "accepted"}
                 PROVE  /\ mail'[m].status = "waiting" /\ mail'[m].owner = w
                        /\ mail'[m].lease + age'[w] >= Lease
        BY <1>1 DEF LeaseOutlivesInvocation
    <2>1. w \in Workers /\ Busy(w)
        BY DEF Workers, Busy, Active
    <2>2. age'[w] = age[w] + 1
        BY <1>4, <2>1
    <2>3. /\ mail[m].status = "waiting" /\ mail[m].owner = w
          /\ mail[m].lease + age[w] >= Lease
        BY DEF LeaseOutlivesInvocation
    <2>4. /\ mail[m].lease \in Nat /\ mail'[m].lease \in Nat
          /\ age[w] \in Nat /\ Lease \in Nat
        BY <1>3, <2>1, NumbersAssumption DEF TypeOK, Mail
    <2> QED BY <1>3, <2>2, <2>3, <2>4
<1> QED BY <1>5, <1>6, <1>7, <1>8, <1>9

-----------------------------------------------------------------------------
(* The theorems.                                                           *)

LEMMA StepIInv == IInv /\ [Next]_vars => IInv'
<1> SUFFICES ASSUME IInv, [Next]_vars PROVE IInv'
    OBVIOUS
<1>1. ASSUME NEW m \in Mails, Enqueue(m) PROVE IInv'
    BY <1>1, EnqueueKeepsIInv
<1>2. ASSUME NEW w \in Workers, Claim(w) PROVE IInv'
    BY <1>2, ClaimKeepsIInv
<1>3. ASSUME NEW w \in Workers, NEW m \in Mails, Render(w, m) PROVE IInv'
    BY <1>3, RenderKeepsIInv
<1>4. ASSUME NEW w \in Workers, NEW m \in Mails, Send(w, m) PROVE IInv'
    BY <1>4, SendKeepsIInv
<1>5. ASSUME NEW w \in Workers, NEW m \in Mails, Complete(w, m) PROVE IInv'
    BY <1>5, CompleteKeepsIInv
<1>6. ASSUME NEW w \in Workers, NEW m \in Mails, CompleteFails(w, m) PROVE IInv'
    BY <1>6, CompleteFailsKeepsIInv
<1>7. ASSUME NEW w \in Workers, NEW m \in Mails, Fail(w, m) PROVE IInv'
    BY <1>7, FailKeepsIInv
<1>8. ASSUME NEW w \in Workers, Lose(w) PROVE IInv'
    BY <1>8, LoseKeepsIInv
<1>9. CASE Tick
    BY <1>9, TickKeepsIInv
<1>10. CASE UNCHANGED vars
    BY <1>10 DEF vars, IInv, TypeOK, CopiesAreKeys, AnswersAreTrue,
                 LeaseOutlivesInvocation, GivesUpInTime
<1> QED BY <1>1, <1>2, <1>3, <1>4, <1>5, <1>6, <1>7, <1>8, <1>9, <1>10 DEF Next

LEMMA InvariantHolds == Spec => []IInv
BY InitIInv, StepIInv, PTL DEF Spec

\* Every row, delivery and counter keeps its type; in particular the back-off of
\* a failed attempt stays within the longest delay, and no row counts more
\* attempts than the limit.
THEOREM TypeCorrect == Spec => []TypeOK
<1>1. IInv => TypeOK
    BY DEF IInv
<1> QED BY <1>1, InvariantHolds, PTL

\* A row says "sent" only of a mail the provider has taken, and the provider
\* sends out one copy at most, whichever workers die and whichever answers are
\* lost: all attempts of a row carry its one idempotency key.
THEOREM OneCopyHolds == Spec => []OneCopy
<1>1. IInv => OneCopy
    BY DEF IInv, CopiesAreKeys, AnswersAreTrue, OneCopy
<1> QED BY <1>1, InvariantHolds, PTL

\* An edge invocation owns, with a lease that has not run out, whatever it is
\* delivering, because the platform kills it before its lease ends.
THEOREM EdgeHoldsItsLeaseHolds == Spec => []EdgeHoldsItsLease
<1>1. ASSUME IInv PROVE EdgeHoldsItsLease
    <2> SUFFICES ASSUME NEW w \in EdgeWorkers, NEW m \in Mails,
                        delivery[w][m] \in {"claimed", "rendered", "accepted"}
                 PROVE  Leased(w, m)
        BY DEF EdgeHoldsItsLease
    <2>1. /\ mail[m].status = "waiting" /\ mail[m].owner = w
          /\ mail[m].lease + age[w] >= Lease
        BY <1>1 DEF IInv, LeaseOutlivesInvocation
    <2>2. mail[m].lease \in Nat /\ age[w] \in 0 .. WallClock
        BY <1>1 DEF IInv, TypeOK, Mail, Workers
    <2> QED BY <2>1, <2>2, NumbersAssumption DEF Leased
<1> QED BY <1>1, InvariantHolds, PTL

\* Delivery is given up for a refusal or after MaxAttempts failures, neither
\* earlier nor later.
THEOREM GivesUpInTimeHolds == Spec => []GivesUpInTime
<1>1. IInv => GivesUpInTime
    BY DEF IInv
<1> QED BY <1>1, InvariantHolds, PTL

=============================================================================
