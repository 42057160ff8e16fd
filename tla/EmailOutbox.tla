---------------------------- MODULE EmailOutbox ----------------------------
(***************************************************************************)
(* The transactional email outbox and its workers.                         *)
(*                                                                         *)
(* A business transaction inserts a row; a worker claims a batch of due    *)
(* rows under a lease, commits, and then delivers each row outside any     *)
(* transaction: resolve and render, send to the provider, finalize.  Two   *)
(* kinds of worker share the table: the edge function that cron starts     *)
(* every minute (several deliveries at once, killed at its wall-clock      *)
(* limit), and the Python worker (one delivery at a time, no limit, but it *)
(* checks its lease before each delivery).                                 *)
(*                                                                         *)
(* Time is kept as what is left of each delay, in ticks; a deadline has    *)
(* passed when nothing is left.                                            *)
(***************************************************************************)
EXTENDS Integers, FiniteSets

CONSTANTS
    Mails,          \* rows of transactional_outbox that may be inserted
    Links,          \* those that carry a verification link, which expires
    EdgeWorkers,    \* slots for invocations of the edge function
    PythonWorkers,  \* slots for batches of the Python worker
    NoWorker,       \* lease_owner is null
    MaxAttempts,    \* MAX_DELIVERY_ATTEMPTS
    Lease,          \* OUTBOX_LEASE_TTL, in ticks
    WallClock,      \* ticks after which the platform kills an invocation
    LinkLife,       \* EMAIL_VERIFICATION_TOKEN_TTL, in ticks
    MaxDelay,       \* _MAX_RETRY_DELAY, in ticks
    BatchSize,      \* DEFAULT_OUTBOX_BATCH_SIZE
    EdgeConcurrency, \* DELIVERY_CONCURRENCY
    MaxLosses       \* bound: claims that come to nothing

Workers == EdgeWorkers \union PythonWorkers

ASSUME WorkersAssumption ==
    /\ Links \subseteq Mails
    /\ EdgeWorkers \intersect PythonWorkers = {}
    /\ NoWorker \notin Workers
ASSUME NumbersAssumption ==
    /\ MaxAttempts \in Nat \ {0}
    /\ Lease \in Nat \ {0}
    /\ WallClock \in Nat /\ WallClock < Lease
    /\ LinkLife \in Nat
    /\ MaxDelay \in Nat \ {0}
    /\ BatchSize \in Nat \ {0}
    /\ EdgeConcurrency \in Nat \ {0}
    /\ MaxLosses \in Nat

VARIABLES
    mail,       \* the rows
    delivery,   \* what each worker is doing with each row it claimed
    age,        \* ticks since an edge invocation claimed its batch
    provider,   \* idempotency keys the provider has accepted
    copies,     \* history: messages the provider has sent out, by row
    losses      \* what is left of MaxLosses

vars == <<mail, delivery, age, provider, copies, losses>>

-----------------------------------------------------------------------------

Mail ==
    [status : {"absent", "waiting", "sent", "failed"},
     attempts : 0 .. MaxAttempts,
     error : {"none", "retryable", "refused"},   \* last_error_code
     wait : 0 .. MaxDelay,                       \* until next_attempt_at
     owner : Workers \union {NoWorker},          \* lease_owner
     lease : 0 .. Lease,                         \* until lease_expires_at
     link : 0 .. LinkLife]                       \* until the link expires

NoMail == [status |-> "absent", attempts |-> 0, error |-> "none", wait |-> 0,
           owner |-> NoWorker, lease |-> 0, link |-> 0]

\* none; claimed: batch committed; rendered: about to be sent; accepted: the
\* provider's answer arrived; retryable, refused: this attempt has failed.
Phase == {"none", "claimed", "rendered", "accepted", "retryable", "refused"}

TypeOK ==
    /\ mail \in [Mails -> Mail]
    /\ delivery \in [Workers -> [Mails -> Phase]]
    /\ age \in [Workers -> 0 .. WallClock]
    /\ provider \subseteq Mails
    /\ copies \in [Mails -> Nat]
    /\ losses \in 0 .. MaxLosses

Active(w) == {m \in Mails : delivery[w][m] # "none"}

Busy(w) == Active(w) # {}

Underway(w) == {m \in Active(w) : delivery[w][m] # "claimed"}

Concurrency(w) == IF w \in EdgeWorkers THEN EdgeConcurrency ELSE 1

\* One, two, four, eight ticks after the first, second... failed attempt.
RetryDelay(n) == IF 2 ^ (n - 1) < MaxDelay THEN 2 ^ (n - 1) ELSE MaxDelay

Set(w, m, phase) == delivery' = [delivery EXCEPT ![w][m] = phase]

-----------------------------------------------------------------------------

\* enqueue_transactional_email, inside the caller's transaction.
Enqueue(m) ==
    /\ mail[m].status = "absent"
    /\ mail' = [mail EXCEPT ![m] =
                  [NoMail EXCEPT !.status = "waiting", !.link = LinkLife]]
    /\ UNCHANGED <<delivery, age, provider, copies, losses>>

\* Mutant: a row whose worker has died is never claimed again.
DueUnowned(m) ==
    mail[m].status = "waiting" /\ mail[m].wait = 0 /\ mail[m].owner = NoWorker

Due(m) ==
    /\ mail[m].status = "waiting" /\ mail[m].wait = 0
    /\ mail[m].owner = NoWorker \/ mail[m].lease = 0

\* The batch is claimed and committed before anything is sent.  Which due rows
\* come first is left open.
Claim(w) ==
    /\ ~Busy(w)
    /\ \E S \in SUBSET {m \in Mails : Due(m)} :
        /\ S # {}
        /\ \/ S = {m \in Mails : Due(m)} /\ Cardinality(S) <= BatchSize
           \/ Cardinality(S) = BatchSize
        /\ mail' = [m \in Mails |->
              IF m \in S THEN [mail[m] EXCEPT !.owner = w, !.lease = Lease]
                         ELSE mail[m]]
        /\ delivery' = [delivery EXCEPT ![w] =
              [m \in Mails |-> IF m \in S THEN "claimed" ELSE "none"]]
    /\ age' = [age EXCEPT ![w] = 0]
    /\ UNCHANGED <<provider, copies, losses>>

Leased(w, m) ==
    /\ mail[m].status = "waiting"
    /\ mail[m].owner = w /\ mail[m].lease > 0

\* The edge function renders what it claimed; the Python worker reads the row
\* again and skips it when its lease is no longer good.  A link that has
\* expired is refused; any other mail is refused when its recipient cannot be
\* resolved, which the database decides at this moment.  A query that fails is
\* retryable; the edge function makes none for a link.
Render(w, m) ==
    /\ delivery[w][m] = "claimed"
    /\ Cardinality(Underway(w)) < Concurrency(w)
    /\ IF w \in PythonWorkers /\ ~Leased(w, m)
       THEN Set(w, m, "none")
       ELSE \/ m \in Links /\ mail[m].link = 0 /\ Set(w, m, "refused")
            \/ m \in Links /\ mail[m].link > 0 /\ Set(w, m, "rendered")
            \/ m \notin Links /\ Set(w, m, "refused")
            \/ m \notin Links /\ Set(w, m, "rendered")
            \/ (w \in PythonWorkers \/ m \notin Links) /\ Set(w, m, "retryable")
    /\ UNCHANGED <<mail, age, provider, copies, losses>>

\* Mutant: every attempt has a key of its own.
NoKnownKeys(m) == {}

\* The provider repeats its answer for a key it knows.  The key is the row's, the
\* same at every attempt and from every worker.
KnownKeys(m) == provider \intersect {m}

Accept(m) ==
    /\ provider' = provider \union {m}
    /\ copies' = [copies EXCEPT ![m] =
                     IF m \in KnownKeys(m) THEN @ ELSE @ + 1]

\* POST to the provider: it accepts and answers; it accepts and the answer is
\* lost or unreadable; it does not accept.
Send(w, m) ==
    /\ delivery[w][m] = "rendered"
    /\ \/ Accept(m) /\ Set(w, m, "accepted")
       \/ Accept(m) /\ Set(w, m, "retryable")
       \/ /\ \E failure \in {"retryable", "refused"} : Set(w, m, failure)
          /\ UNCHANGED <<provider, copies>>
    /\ UNCHANGED <<mail, age, losses>>

\* Mutant: any worker may finalize a row that is not final.
FinalizableByAnyone(w, m) == mail[m].status = "waiting"

\* Only the owner of the lease, expired or not.
Finalizable(w, m) == mail[m].status = "waiting" /\ mail[m].owner = w

Completed(m) ==
    [mail[m] EXCEPT !.status = "sent", !.attempts = @ + 1, !.error = "none",
                    !.owner = NoWorker, !.lease = 0]

Complete(w, m) ==
    /\ delivery[w][m] = "accepted"
    /\ mail' = IF Finalizable(w, m)
               THEN [mail EXCEPT ![m] = Completed(m)] ELSE mail
    /\ Set(w, m, "none")
    /\ UNCHANGED <<age, provider, copies, losses>>

\* The call that completes fails in the edge function, committed or not, which
\* then reports a retryable failure.
CompleteFails(w, m) ==
    /\ w \in EdgeWorkers
    /\ delivery[w][m] = "accepted"
    /\ \/ mail' = mail
       \/ Finalizable(w, m) /\ mail' = [mail EXCEPT ![m] = Completed(m)]
    /\ Set(w, m, "retryable")
    /\ UNCHANGED <<age, provider, copies, losses>>

\* Mutant: one attempt too few.
GivesUpEarly(m, failure) ==
    failure = "refused" \/ mail[m].attempts + 2 >= MaxAttempts

GivesUp(m, failure) ==
    failure = "refused" \/ mail[m].attempts + 1 >= MaxAttempts

Failed(m, failure) ==
    LET tried == mail[m].attempts + 1
        row == [mail[m] EXCEPT !.attempts = tried, !.error = failure,
                               !.owner = NoWorker, !.lease = 0]
    IN  IF GivesUp(m, failure) THEN [row EXCEPT !.status = "failed"]
                               ELSE [row EXCEPT !.wait = RetryDelay(tried)]

Fail(w, m) ==
    /\ delivery[w][m] \in {"retryable", "refused"}
    /\ mail' = IF Finalizable(w, m)
               THEN [mail EXCEPT ![m] = Failed(m, delivery[w][m])] ELSE mail
    /\ Set(w, m, "none")
    /\ UNCHANGED <<age, provider, copies, losses>>

\* A process dies, or the database refuses to record a result: what it was
\* delivering is forgotten, in Python the whole batch.
Lose(w) ==
    /\ losses > 0
    /\ \E S \in SUBSET Active(w) :
        /\ S # {}
        /\ w \in PythonWorkers => S = Active(w)
        /\ delivery' = [delivery EXCEPT ![w] =
              [m \in Mails |-> IF m \in S THEN "none" ELSE @[m]]]
    /\ losses' = losses - 1
    /\ UNCHANGED <<mail, age, provider, copies>>

\* A lease about to run out while its owner, a Python worker, still delivers.
Overdue ==
    {m \in Mails : /\ mail[m].lease = 1 /\ mail[m].owner \in Workers
                   /\ delivery[mail[m].owner][m] # "none"}

Less(n) == IF n > 0 THEN n - 1 ELSE 0

\* One tick passes for everyone; an invocation does not live past its limit.
Tick ==
    /\ \A w \in EdgeWorkers : Busy(w) => age[w] < WallClock
    /\ Overdue # {} => losses > 0
    /\ losses' = IF Overdue # {} THEN losses - 1 ELSE losses
    /\ mail' = [m \in Mails |->
          [mail[m] EXCEPT !.wait = Less(@), !.lease = Less(@), !.link = Less(@)]]
    /\ age' = [w \in Workers |->
          IF w \in EdgeWorkers /\ Busy(w) THEN age[w] + 1 ELSE 0]
    /\ UNCHANGED <<delivery, provider, copies>>

-----------------------------------------------------------------------------

Init ==
    /\ mail = [m \in Mails |-> NoMail]
    /\ delivery = [w \in Workers |-> [m \in Mails |-> "none"]]
    /\ age = [w \in Workers |-> 0]
    /\ provider = {}
    /\ copies = [m \in Mails |-> 0]
    /\ losses = MaxLosses

DeliveryStep(w, m) ==
    Render(w, m) \/ Send(w, m) \/ Complete(w, m) \/ Fail(w, m)

Next ==
    \/ \E m \in Mails : Enqueue(m)
    \/ \E w \in Workers : Claim(w)
    \/ \E w \in Workers, m \in Mails : Render(w, m)
    \/ \E w \in Workers, m \in Mails : Send(w, m)
    \/ \E w \in Workers, m \in Mails : Complete(w, m)
    \/ \E w \in Workers, m \in Mails : CompleteFails(w, m)
    \/ \E w \in Workers, m \in Mails : Fail(w, m)
    \/ \E w \in Workers : Lose(w)
    \/ Tick

Spec == Init /\ [][Next]_vars

\* Cron starts an invocation every minute, a delivery in progress goes on, and
\* time passes.  Nothing is assumed of the provider's answers.
Fairness ==
    /\ WF_vars(\E w \in Workers : Claim(w))
    /\ \A w \in Workers, m \in Mails : WF_vars(DeliveryStep(w, m))
    /\ WF_vars(Tick)

FairSpec == Spec /\ Fairness

-----------------------------------------------------------------------------
(* Safety.                                                                 *)

\* A row says "sent" only of a mail the provider has taken, and the provider
\* sends out one copy at most: not of a lost answer that is retried, nor of a
\* row delivered by two workers because the lease of the first ran out.
OneCopy ==
    \A m \in Mails :
        /\ copies[m] <= 1
        /\ mail[m].status = "sent" => copies[m] = 1

\* What an edge invocation is delivering it still owns: it dies before its lease
\* does, and only the owner's result can end a lease early.  So no two
\* invocations ever send the same row at once.
EdgeHoldsItsLease ==
    \A w \in EdgeWorkers, m \in Mails :
        delivery[w][m] \in {"claimed", "rendered", "accepted"} => Leased(w, m)

\* Delivery is given up for a refusal or after MaxAttempts failures, not
\* before, and never goes on after that.
GivesUpInTime ==
    \A m \in Mails :
        /\ mail[m].status = "waiting" => mail[m].attempts < MaxAttempts
        /\ mail[m].status = "failed" /\ mail[m].error = "retryable"
            => mail[m].attempts = MaxAttempts

-----------------------------------------------------------------------------
(* Liveness, under Fairness.                                               *)

\* Every mail is sent or given up in the end, as long as only finitely many
\* claims come to nothing.
EveryMailEnds ==
    \A m \in Mails : mail[m].status = "waiting" ~> mail[m].status \in {"sent", "failed"}
=============================================================================
