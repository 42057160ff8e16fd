# A TLA+ verification of the Buddy Programme web application

The repository holds the web application of a university buddy programme: a
FastAPI service on PostgreSQL (`apps/api`), a React front end (`apps/web`), and
a Supabase edge function that sends transactional mail
(`supabase/functions/email-worker`). Students of the home university and
international students register, verify their address, send each other buddy
invitations, become buddies when one is accepted, and chat. Administrators run
events and, at the end of a semester, archive and reset the data.

This directory specifies the parts of that program whose correctness depends on
interleavings, failures and time, checks them with TLC on small instances, and
proves the most important results for all instances with TLAPS.

## 1. Inventory

All server processes share one PostgreSQL database and, but for the chat's
sockets, keep no state of their own between requests.  A request opens one
SQLAlchemy session, runs at READ COMMITTED, and commits once.  Beside the
database there are two kinds of store that do not take part in its
transactions: Supabase Storage (pictures, backups) and Redis (channels,
counters).  So the processes of the system are requests, browser tabs, socket
handlers, two periodic jobs (mail, maintenance) and an administrator's semester
run; what they share is rows, row locks, objects and messages.

| Component | State | Operations | Hard behaviour | Correct when | Modelled |
|---|---|---|---|---|---|
| Buddy invitations and matches | `matching_invitations`, `matches`, `buddy_conversations`, `users`, `student_profiles` | send, accept, decline, cancel, hide, expire, edit profile | requests race on a pair; reads before locks; stale identity-map rows; deadlines passing during a lock wait | one pending invitation or one match per pair, never both; limit of pending invitations; match, conversation and mail are committed together | yes |
| Recommendations, eligibility | none (reads two profiles) | score, rank, eligible pair | two copies of the eligibility rules, one in Python and one in SQL; slots across midnight, week and clock change | both copies agree; score is symmetric and exact | partly |
| Invitation and match reads | none | incoming, sent, current buddies; the administrator's counts | a list is several queries; a deadline the job has not processed | every relationship is in one place for each of its users; the counts are those of the lists | partly |
| Transactional mail outbox | `transactional_outbox` rows with status, attempts, lease | enqueue, claim (SKIP LOCKED), send, finalize, retry, fail | worker lost between send and finalize; lease expires during a slow send; two workers, in Python and in the edge function | every mail is sent or failed in the end; a resend carries the same idempotency key | yes |
| Email verification and change | `users.email`, `email_verified_at`, `email_verification_tokens` | issue, resend, confirm, change address | a request or confirmation racing an address change; stale identity-map rows | an address is verified only by a token sent to it; at most one active token | yes |
| Refresh sessions, CSRF | `refresh_sessions` rows in families; the browser's cookies; the session client of each tab | create, rotate, revoke, recover, log out | a lost response makes the client replay a rotated token; rate limit refused after rotation; answers older than a logout | replay revokes the family; a tab shows who signed in last; a signed-out family is dead | yes |
| Buddy chat | `buddy_messages`, read positions, Redis channels, sockets, the hook state of a view | send (idempotent), page, acknowledge, clean up, publish, reconnect, fall back to HTTP | retry of a send that succeeded; a message expiring between send and retry; commit order other than time order; crash between commit and publish | a client key makes one message; pages miss nothing; a message reaches those who are connected; no send hangs | yes |
| Semester operations | `semester_operations`, `semester_backups`, the students' rows and pictures, backup objects | prepare, back up, verify, reset, restore, compensate, expire | failure between steps, compensation after the barrier; one operation at a time | nothing is deleted without a verified copy; a restore brings back what was deleted | yes |
| Maintenance runner | none | runs three jobs in order | one job failing stops the later ones | each job's backlog shrinks | its jobs |
| Profiles and preferences | `student_profiles` with a version, preference tables, the tab's query cache | read, save with version, opt in | a read of several statements beside a save | a version stands for one content; listed exactly when eligible | yes |
| Images, events, recaps | content rows, cleanup queue, objects | create, edit, publish, upload, delete, evict, reconcile | Storage and rows do not commit together; commits of unknown outcome; a public page that fails over one bad row | every shown picture exists; every object is reachable from a row or a queue; at most nine recaps | partly |
| Rate limits | counters in Redis | hit | external | - | no |
| Administration, audit | audit log | account list, matching page | - | - | partly |
| Chatbot | none | answer | - | - | no |
| Web front end | query caches, forms | - | - | - | session client, chat views and the preference cache only |

The hazards behind the fifth column, each at its line, are the list `hazards`
of `PROJECT.json`, with the properties that are about them.  Three have no
property; they are in section 4.

## 2. Modules

| Module | Models |
|---|---|
| `Matching` | invitations, matches, conversations, their outbox events, expiry, profile edits |
| `BuddyRelation` | what `Matching` promises to every pair of users; `Matching` implements it |
| `MatchingReads` | the lists and counts that are read from the state of `Matching` |
| `EmailOutbox` | the outbox table, the edge worker and the Python worker, the provider |
| `EmailVerification` | verification tokens, address change and confirmation |
| `RefreshSessions` | server token families composed with the browser's cookies, the session client of every tab, and a lossy network |
| `BuddyChat` | stored messages: idempotent send, pages, acknowledgement, retention, cleanup |
| `ChatDelivery` | views, sockets, channels, the HTTP fallback and the recovery of history, over a set of stored messages |
| `SemesterOperations` | prepare, back up, verify, reset, restore, compensation, expiry, the status page |
| `PublicEvents`, `Recaps`, `Avatars` | rows beside Storage objects: covers, recap photos with their cleanup queue, profile photos with the reconciler |
| `Profiles` | one profile, its preferences, their readers and writers, the two eligibility policies |
| `Content` | the four services above together, one of them per behaviour, and what readers of any of them may rely on |
| `MatchingScore` | the score of two students as exact fractions, beside a reference definition |
| `Matching_proofs`, `EmailVerification_proofs`, `EmailOutbox_proofs`, `RefreshSessions_proofs`, `BuddyChat_proofs`, `ChatDelivery_proofs`, `SemesterOperations_proofs`, `Content_proofs` | theorems |
| `MC...` | instances for TLC |

`MatchingReads` extends `Matching`, so that its properties are checked over
every state of it.  `BuddyChat` and `ChatDelivery` are two views of one
component: the first keeps times, transactions and retention, the second keeps
messages on their way; what they share is that a client key names one message.
`Content` puts together recaps, events, profile photos and profiles, and
`MCStudents` stored messages and scores.  Their parts share no state: a behaviour
is one of them, chosen in its first state, and a property about one says nothing
of the others.  A behaviour of `RefreshSessions` is about
one of its `Browsers`, a record that says which tabs, accounts and calls it has
and whether its messages may be lost; `MCRefreshSessions` gives two of them.

### How a request is modelled

Each module follows a request from one blocking point to the next.  Between two
blocking points of PostgreSQL (a row lock it may have to wait for) everything a
transaction does is one step, because no other transaction can see it half
done; at READ COMMITTED each statement after a wait reads what is committed by
then.  What a request read before a wait and uses after it is a field of its
record (`seen`, `candidate`, `token`).  That includes the SQLAlchemy identity
map: the session factory sets `expire_on_commit=False` and `autoflush=False`,
authentication loads the user (for matching, also the profile) into the session
and holds on to it, and a later `SELECT ... FOR UPDATE` without
`populate_existing` returns that row as it was.  A rollback ends the request
and leaves nothing, so nothing it wrote is visible before its commit.

### Matching

| Definition | Code |
|---|---|
| `BeginSend`, `BeginAccept` | authentication and eligibility; `seen` is the account in the identity map |
| `LockFirstUser`, `LockSecondUser` | user rows `FOR UPDATE` in UUID order, then the profiles |
| `SendCheck`, `SendCommit` | the pair's invitation, match and pending count; insert with the `CREATED` event; a lapsed row becomes EXPIRED first |
| `AcceptCheck`, `AcceptCommit` | invitation row lock, status and deadline; match, conversation, `ACCEPTED` event and the new status in one commit |
| `Decline`, `Cancel`, `Hide` | one row lock, one transition |
| `ExpireBatch` | `process_invitation_expiry_batch`: `SKIP LOCKED`, up to `BatchSize` due rows |
| `ChangeType`, `ChangeReadiness` | profile edits under the owner's user lock |
| `Abort` | any rollback |

`BuddyRelation` says what two users see: proposed, lapsed, buddies for good.
`RelationOf` maps the rows of a pair to that, and the property
`ImplementsBuddyRelation` is the abstract specification under that mapping.

### MatchingReads

`Incoming`, `Sent` and `CurrentBuddies` are the queries of
`invitation_reads.py` and `current_buddies.py`, `CompletedResult` what a second
accept answers with, `MatchingStats` and `ListedParticipants` the queries of the
administrator's page.  `ListsAgree` relates them: a relationship is in exactly
one list of each of its two users, and the page's numbers are those of the lists.

### EmailOutbox

A row is `waiting`, `sent` or `failed`; `owner` and `lease` are its lease.  A
worker is a slot for one invocation (edge) or one batch (Python) and keeps a
phase per row: `Claim` commits the lease, `Render` reads and renders, `Send` is
the call to the provider, `Complete` and `Fail` finalize.  `Lose` is a dead
process or a result that could not be recorded; `CompleteFails` is the edge
worker's completion that throws, after its commit or before, and is turned into
a retryable failure.  Time is what is left of each delay.  The edge invocation
cannot live past `WallClock`; the Python worker can outlive its lease, which
`Tick` charges to `losses`.  The provider remembers an idempotency key for
ever: the operations guide says it does for 24 hours, and that an outage longer
than that is outside the guarantee.

### EmailVerification

A request is authenticated (`Begin`: the user row is in the session), waits for
the user row's lock (`LockForIssue`, `LockForConfirm`), and commits.
`RequestCommit` works with the address it has in the session; `ChangeCommit`
reads the row again; `ConfirmCommit` reads the token again under the owner's
lock, and then the owner.  `mailed` is the set of outbox events, `fresh` marks
tokens issued from a row that was current.

### RefreshSessions

| Definition | Code |
|---|---|
| `rows`, `HandleLogin`, `HandleRefresh`, `HandleLogout`, `RecoverAnswer` | `refresh_sessions.py` and the handlers of `api/auth.py`, each one transaction under the family's row lock |
| `jar`, `CsrfOk`, `SessionCookies` | the access, refresh and CSRF cookies; a CSRF value is bound to a family or to no session |
| `tab`, `Call_`, `StartHead`, `Receive`, `AfterRecover`, `AfterPost` | `session-client.ts`: the promise queue, the epoch and its generations, the recovery and the one retry |
| `Lose`, `HandleStray` | a request or an answer that is given up; the request may still be handled later |
| `DataRefused`, `AccessExpires`, `FamilyExpires`, `Deactivate` | a 401 to a query, the ends of both lifetimes, a deactivated account |

A token is the family and a number that a rotation raises.  A request carries
the cookies of the jar at the moment it is sent; the cookies of an answer reach
the jar when it arrives.  `goal` and `seen` are history: what the latest call of
a tab asked for, and whether a user was installed since.

### BuddyChat and ChatDelivery

In `BuddyChat` a send takes its clock, inserts under the unique key (the row is
`open` until its commit), and commits or reads the row that has the key; an
acknowledgement authorizes, marks rows in one `UPDATE`, and commits; `WalkPage`
is one page by keyset cursor; `Cleanup` deletes a batch of due rows.

In `ChatDelivery` a view is the state of the hook `use-chat-conversation.ts`, a
socket has the frames on their way in and out, the channel of its subscription
and the frame its handler works on.  `Authorize`, `Subscribe` and
`AcceptSocket` are the steps of a connection; `ReceiveAndPersist` commits,
`PublishCommitted` publishes once, `ForwardCommitted` passes the channel on;
`Break` is a lost connection or process.  `SendTimeout` and `OnClose` start the
HTTP fallback, `ServeHttp` and `HttpAnswer` are its two ends.  `Reconciling` is
`history.refetch()` as TanStack Query defines it: once the view has a history the
read in progress is cancelled and another one is asked for, but a first load that
is still in flight is joined (`Joins`), so that its page arrives however old it is.

### SemesterOperations

The steps of a preparation are `PrepareReset` (with its checks),
`CreateDatabaseBackup`, `CreateAvatarBackup`, their `Attach...`, and
`VerifyBackup`; of a reset `ExecuteReset`, `DeleteAvatar`, `CommitReset`; of a
restore `PrepareRestore`, `GateRestore`, `LoadPackage`, `BeginRestore`,
`RestoreAvatar`, `CommitRestore`, `Compensate`.  `BarrierHolders` are those that
hold the write barrier, `PackageFree` and `RowFree` the other locks.  A failure
(`...Fails`, `Abort`) may come between any two steps, up to `MaxFaults`.
A failed preparation records it in two transactions (`RecordFailure` for the
backup, where errors are swallowed, `FailPreparation` for the operation).
`CanPrepareRestore`, `CanExecuteReset` and `CanExecuteRestore` are what the
status page offers.

### PublicEvents, Recaps, Avatars

An upload writes its object first and then commits (`CommitCover`, `Attach` and
`UploadCommit`, `CommitAvatar`), a commit may be reported as failed although it
is durable (`CommitReportedFailed`, `UploadUncertain`), and the compensation
deletes the object (`Compensate`, `FailAvatar`).  Recaps put the objects of a
deleted photo in a queue with the transaction that deletes it and empty the
queue later (`CleanupRead`, `CleanPhoto`, `CleanCommit`, `RetryCleanup`); a
publication locks every published recap, as PostgreSQL locks the rows that
`OFFSET` skips as well, and evicts what is in excess among those still published
when it has them (`EvictRead`, `EvictLock`).  `Discover`, `ListBucket` and
`DeleteOrphan` are the reconciler.
`Slides`, `Listed`, `Signed`, `ShownPhotos`, `RecapList` and `MediaUrl` are what
readers get.  `Slides` has the query's filter (published, not begun or without a
date, with a cover), its order (by date, announcements without one last, then by
id) and its limit `MaxSlides`, for any time `t` it is asked for: no mutation
decides by the clock, so that none is kept.  `Listed` leaves the list's
filter by phase and its pages out.

### Profiles and MatchingScore

A save is one step, a read takes three (`Fetch`, `ReadCustom`, `ReadIds`) as no
lock holds them together.  `MatchingEligible` is the policy in Python, `Listed`
the one in SQL.  `PublicProfile`, `Presentable` and `Recommendable` say what of
a profile others see and when an answer that carries it can be built.

`MatchingScore` computes the shared minutes as the code does (split at midnight,
move to UTC, merge, walk over two lists) and compares them with the minutes
counted one by one; the score is a sum of fractions, rounded half up.

## 3. Runs

| Run | Instance | Question |
|---|---|---|
| `matching_safety` | 3 users, 2 invitations, 2 requests, one user edits, limit 1; 503 580 states | is everything of a pair consistent under all races, is the limit kept, does every pair follow `BuddyRelation`, do all pages agree? |
| `matching_progress` | 2 users, 2 requests, fair; 11 488 states | does every request end, does every due invitation close? |
| `matching_stale_type` | 2 users, 1 request | finding: same-type match |
| `outbox` | 2 mails, one of them a link, an edge worker with 2 deliveries at once, a Python worker, 3 attempts, 2 losses, fair; 427 095 states | sent at most once, given up in time, every mail ends? |
| `verification_race` | 2 users, 3 addresses, 3 tokens, 2 requests; 600 496 states | who can get which address verified? |
| `verification_stale_user` | 1 user, 2 addresses, 2 requests | finding: mail to the former address |
| `sessions` | *alone*: one tab, three calls, nothing lost; *shared*: two tabs, one call each, everything may be lost, fair; 728 069 states | who is signed in, what is revoked, does every call settle? |
| `students` | chat: 3 ids, 2 keys, 2 sends, 1 acknowledgement; score: weeks of 2 days in 3 zones; 3 188 334 states | retries, pages and marks; the score |
| `delivery` | 2 views, 1 send, 1 retry, one fault of six kinds, late timers, fair; 425 446 states | do sends settle and messages arrive whatever fails? |
| `semester` | 2 requests, 1 picture, 2 operations, 2 writes, 2 faults, 2 ticks; 3 293 800 states | can anything be lost, and what does the page offer? |
| `semester_partial_restore` | the same with 1 fault | finding: a restore without its pictures |
| `content` | recaps: 2 recaps, limit 1, one photo each, 2 attempts, 1 fault; events: 2 events, a slider of 1 asked for at 2 times, one date or none, 2 covers; avatars: 1 owner, 3 pictures; 2 requests each; profile: 1 tab, versions up to 3, at most 2 selections of 1 entry and 3 keys; 1 807 337 states | do rows and objects agree for every reader, does a version stand for one content, do both eligibility policies agree? |

What the properties of these runs say, beside the comments at their definitions:

- *Matching*: no pending invitation beside a match (`NoPendingBesideMatch`);
  a match is of opposite types, as far as the acceptor's row was current
  (`OppositeTypesWhenFresh`); match, conversation, accepted row and event come
  together (`RelationshipComplete`); no answer is stamped after its deadline
  (`StampsRespectDeadline`); `PendingWithinLimit`; `ListsAgree`.
- *Mail*: the provider accepts one copy (`OneCopy`); an edge delivery never
  works without its lease (`EdgeHoldsItsLease`); `GivesUpInTime`; `EveryMailEnds`.
- *Sessions*: a one-tab browser shows a user only while its latest call asked
  for one, and then that account (`SignedInAsAsked`); without losses no token is presented twice
  (`NoReplay`) and no live family is out of the jar's reach (`NoOrphanSession`);
  `SignedOutFamilyDead` and `EveryCallSettles` hold with losses as well.
- *Chat*: `RetryConverges`, `NothingNewerIsMarked`, `PagesAreComplete`;
  `ShownIsStored`, `SendingIsCarried`, `EverySendSettles`,
  `PublishedReachesTheConnected`: what is published reaches every view that stays
  connected, except a view whose socket was ready before its first history had
  arrived (see section 4); what is announced to its channel reaches that one, too.
- *Semester*: `NothingLost` (what was deleted has a copy until its retention is
  over), `PicturesKept`, `ReadyIsWhole`, `RestoredExactly`, `OfferedIsPossible`
  (a button of the status page leads to a request that is not refused).
- *Recaps, events, avatars*: `PublishedIsShown` (a published event is listed and
  readable, and on the slider unless it has begun or `MaxSlides` others come before
  it; a cover on the list is signed and stored), `NineAtMost`, `PhotosHaveFiles`,
  `FilesAreTracked`, `AvatarHasFile`.  Objects whose commit was reported as a
  failure are excepted by name (`lost`, see section 4).
- *Profiles*: `SnapshotIsCurrent` (a cached version has the content it had on
  the server), `ListedIffEligible`.
- *Score*: `ScoresAreExact`.

Why these bounds are enough to be interesting:

- Two requests in flight are what every race in this code is between; three
  users give two pairs that share a user row and a sender with two recipients.
  With `MaxPending = 1` the limit is reached by the second send.
- `Lifetime = 1` with one tick lets a deadline pass before, during and after a
  lock wait.  Two invitations give a resend after a terminal one.
- In the outbox a lease of 2 and a wall clock of 1 keep the order the operations
  guide relies on (150 s < 5 min); two losses allow two workers in a row to die
  over one mail, and a slow Python worker to meet the worker that took its row.
- Three tokens and three addresses allow a change, a change back, and a stale
  issue beside it, with another user who wants one of the addresses.
- Three calls of one tab are a bootstrap or sign-in, a second call that overtakes
  it, and one after both; two tabs with one call each already share a cookie.
- One page of one message with three ids has a message on either side of the
  cursor, and a time equal to the cursor's.  Ages of 2 and 1 let a message expire
  before and after its first read.
- Two semester requests are two clicks; two operations are a reset and its
  restore; the second write is one of the next cohort.
- Two recaps with a limit of one make every second publication an eviction; three
  files are an old object, its replacement and one in a concurrent request.  For
  covers there are two, which are an old object and its replacement, two uploads
  that race for an event, or one cover for each of two published events; three at
  once are left to the theorem.
- Two events for a slider of one, with a date (0, asked for at 0 and at 1) or with
  none, have an event that has begun, one that is crowded out and one that moves up.
  Texts are whole or blank: a partial one passes no guard that a blank one fails,
  and it can be shown where a blank one cannot, so that it hides nothing.
- Two selections of one entry and three keys let an entry and a key stand together
  in one profile; a catalog edit that gives the entry the key's label then makes
  the union of both smaller than their sum, where the two policies could differ.

Every constant that only bounds the model says "bound" in its comment; the sizes
of the id sets are bounds as well.  `CHECK_DEADLOCK FALSE` is set throughout:
ids, clock and calls run out, and the system may rest when there is nothing to
do.  Symmetry is used in runs without liveness properties only.

### Fairness

- `matching_progress`: strong fairness of each request's steps, because
  PostgreSQL serves a contended row lock in the order of its queue, so a request
  whose lock is free again and again does get it; weak fairness of the expiry
  job, which is scheduled, and of the clock.  Nothing is assumed of users, who
  need not answer.
- `outbox`: weak fairness of claiming (cron starts a worker every minute), of
  each delivery in progress, and of the clock.  Nothing is assumed of the
  provider, which may fail every time.  Only finitely many workers are lost
  (`MaxLosses`).
- `sessions`, the shared browser: weak fairness of the server answering each
  tab's exchange and of the tab taking what has arrived.  An answer that is lost
  ends the exchange with an error, as the client's timeout does.
- `delivery`: weak fairness of the timers and events of a browser, of the steps
  of the socket handlers, and of an HTTP request in flight.  Nobody has to
  compose, retry or end anything, and faults are finitely many.

## 4. Findings and observations

Three runs refute what a document says:

- **Same-type match** (`matching_stale_type`).  `lock_buddy_match_participants`
  locks the profiles without `populate_existing`.  If the acceptor's own type
  edit commits between the authentication of his accept and its locks, the
  accept compares the old type and commits a match of two students of one type,
  which `docs/implementation/tasks/INV-005.md` says cannot happen.
  `OppositeTypesWhenFresh` is what does hold.
- **Link to the former address** (`verification_stale_user`).
  `request_email_verification` locks the user row without `populate_existing`.
  A resend that waited for an address change takes the old address from the
  session, supersedes the link just sent to the new one and mails one to the old
  address.  EMAIL-002 says "current-address outbox event".  The address can not
  be verified by that link (`VerifiedByOwnAddress`): the user has to ask again.
- **Restore without pictures** (`semester_partial_restore`).  When the rows of a
  restore fail, `_compensate_avatars` deletes the pictures it has uploaded, after
  the transaction and with it the write barrier has ended.  A second restore may
  start in between: it finds the pictures in place, commits the rows and ends
  SUCCEEDED, and then the compensation takes the pictures away.  A replay of the
  succeeded operation does nothing.  SEM-006 says that retries converge "without
  duplicate or partial success".

Other behaviour met while modelling, which contradicts no line the repository
has, or is outside a run:

- A view without cached history can miss a message.  The refetch on `chat.ready`
  (`use-chat-conversation.ts:132-134`, `:221-226`) joins a first load that is still
  in flight; if that page was read before the message was committed, and the message
  was published before the socket had subscribed, nothing brings it before the next
  read.  `CHAT-004.md:48` asks for "reconnect/catch-up", which the code gives to
  every later connection; `PublishedReachesTheConnected` names the exception.
- A published event that is unpublished, emptied and then cancelled is listed
  again, as `published_at` is never cleared, and the list answers 500
  (`event_queries.py:149`).  `PublishedIsShown` is about the published ones.
- An upload whose commit is reported as failed and was durable has its object
  deleted by the compensation: cover or avatar then name a missing object.
- Republishing an old recap evicts it at once when nine newer ones are
  published: order is by first publication.  Migration 0024 admits ten published
  recaps to begin with; `NineAtMost` starts without such a surplus.
- A cleanup that gets 404 for an object treats it as gone; an object whose upload
  was still under way is then left to no queue.
- An acceptance on the chat socket carries no client id.  One that comes after
  its timer is credited to the next send (`use-chat-conversation.ts:232`).  An
  HTTP answer after the view was denied puts its message back (`:157`).
- With skewed clocks an acknowledgement of a message from the future of its own
  process is refused; the next one succeeds.
- A save from a stale editor can overwrite newer preferences without a conflict:
  the answer to a profile save raises the cached version but not the cached
  content (`use-own-profile.ts:41`, `onboarding-interests-page.tsx:138-149`).
  `WORKFLOWS.md:41` says that a stale editor receives a conflict.
- `PUT /profile` replaces activity ids without the limit on ids and custom
  entries together (`profiles.py:196-213`).  A profile beyond it makes every
  answer fail that carries its public form (`schemas/matching.py:97-100`):
  recommendations, invitation lists and accepts of others.  `ListedIffEligible`
  names the exception.
- A process that dies inside a semester operation leaves it RUNNING and blocks
  the next one until it is reconciled by hand, as the acceptance notes say.

## 5. Proofs

`Matching_proofs`, for all sets of users, invitations and requests, all limits
and lifetimes: `TypeCorrect`, `LockDisciplineHolds`, `NoPendingBesideMatchHolds`,
`IndexesNeverNeededHolds`.  Neither safety property is inductive: that a send
finds no match at its commit depends on what the request in the other slot holds
and has checked.  The inductive invariant is `TypeOK` and `LockDiscipline`: user
locks are exclusive, the rows of a pair belong to that pair, at most one
invitation of a pair is pending, and a request past its checks relies only on
facts about the pair it has locked.  Each step is proved to keep every part; a
step of one request can disturb what another relies on only by changing a row of
a pair, for which it needs a lock the other holds.

`EmailVerification_proofs`, for all users, addresses, tokens, requests and
lifetimes: `TypeCorrect`, `IndexNeverNeededHolds`,
`ActiveTokenForCurrentAddressHolds`, `VerifiedByOwnAddressHolds` (an action
property).  The invariant `IInv` adds that locks are exclusive, that a user has
one active token at most, that row and mail are inserted together and that a
confirmation knows the owner of its token.  `IssueEffect` and `IssueStep` carry
the argument for both ways to issue a token; `ConfirmFinds` says what a
confirmation that commits has found.

The second part of `Matching_proofs` builds on that: `StampsRespectDeadlineHolds`,
`PendingWithinLimitHolds`, `OppositeTypesWhenFreshHolds`,
`RelationshipCompleteHolds`.  Each property needs to know what a request between
its check and its commit has seen, so the invariant `Outcomes` adds to the first
one that no clock read is later than the present, that a checked answer was in
time (`CheckedInTime`), that a checked send left room for one more
(`CheckedCapacity`; counting also needs that the pending rows of a sender are
finitely many, which is proved and not assumed), and that a fresh acceptor has
seen the opposite type (`SeenOpposite`).  What protects these facts from the
other requests is in every case the user lock that the first invariant makes
exclusive.  `ListsAgreeHolds`, about the pages of `MatchingReads`, needs no more than
that and that the inserted rows are finitely many (`InsertedFinite`): with it the
counts of the administrator's page are bijections between rows, matches and what
the lists show (`CountedOnce`, `PendingListed`, `AcceptedMatched`, `BuddiesCounted`).

The same module has `ImplementsBuddyRelationHolds`, that `Matching` implements
`BuddyRelation`.  `RelationOf` chooses a pending row of the pair; that
it has only one to choose, and none beside a match, is the same invariant
(`Values`).  Then every step either leaves the matches and the pending rows of
all pairs alone (`QuietRelation`), closes some rows (`ClosingLapses`), inserts one
(`SendProposes`) or turns one into a match (`AcceptConsents`).

`EmailOutbox_proofs`, for all mails, workers, delays and limits: `TypeCorrect`,
`OneCopyHolds`, `EdgeHoldsItsLeaseHolds`, `GivesUpInTimeHolds`.  `OneCopy` follows
from two facts about the provider (`CopiesAreKeys`: copies are keys it remembers;
`AnswersAreTrue`: a worker that was told of an acceptance was told the truth).
`EdgeHoldsItsLease` is not inductive; `LeaseOutlivesInvocation` is: while an edge
delivery is in progress the rest of the lease and the age of the invocation make
up at least a whole lease, which exceeds the wall clock.  That the delay between
two attempts, a power of two, is a number is shown by counting subsets, since
induction is out of reach.

`RefreshSessions_proofs`, for any browsers, families and accounts and any number of
tabs and calls: `TypeCorrect`, `SignedOutFamilyDeadHolds` (with losses and any
tabs), `SignedInAsAskedHolds` (one tab, with losses), `NoReplayHolds` and
`NoOrphanSessionHolds` (one tab, no losses; with two tabs, or a lost answer, both
are false of the code: a rotation is not known to everyone who holds the token, and a
sign-in whose answer is lost leaves a session nobody can name).
None is inductive.  `Waits` says which request a call of each kind may wait for;
`SignOutsHold`, that an answered sign-out has revoked its family, heard of or not.
`Asked` follows the account a tab asked for through the generations of its queue
(`Queued`), the jar and the answer on its way: once the latest call has installed a
user, every token the tab can present is that user's.  `Lossless` says that the
current token of the only live family is in the jar or in the answer on its way
there, and that no family is live where a call is about to sign somebody in.
What a handler can do is classified once (`HandledEffects`: it keeps the rows,
revokes a family it distrusts, rotates, signs out or signs in), and each class is
shown to keep the invariant; the client's part is `ProceedStep` and `ProceedAsked`, over `Onward`.  That
a fresh nonce exists is a counting argument over the tabs, which have to be
finitely many.

`BuddyChat_proofs`, for any participants, keys, ids, transactions and clocks:
`TypeCorrect`, `RetryConvergesHolds`, `NothingNewerIsMarkedHolds`,
`PagesAreCompleteHolds` and the action property `StoredMessagesStay` (`RowsStay`).
The invariant says per row that it passes its retention check and is deleted only
when due (`RowsKept`), per key that a later row was inserted when the earlier one
had expired (`KeysApart`: the unique index alone says less), per open send that it
owns one uncommitted row (`SendsOwn`), per acknowledgement that the rows it has
locked are still as its update found them and that its bound was shown to its
reader (`MarksHold`, `BoundsSeen`), and per walk that everything effective it has
not shown lies beyond its cursor (`WalkKept`).  A page is the newest rows of what is
left; that it has an oldest row, which becomes the cursor, and that it parts what
is left in the walk at that row (`OldestRow`, `CursorSplits`) needs that the stored
rows are finitely many, which is proved and not assumed.

`ChatDelivery_proofs`, for any views, sends, delays and faults: `TypeCorrect`,
`ShownIsStoredHolds`, `SendingIsCarriedHolds`.  Persist before publish is not a
fact about views alone: the invariant follows a message through the work of a
handler (`Socket`: what it is about to publish is stored), the announcements in
every browser's queue (`Truthful`), the answer of an HTTP request (`Stores`) and the
history page on its way (`Faithful`).  `Carried` is `SendingIsCarried` with a set of
exceptions, so that the hand-over of a send from the socket to HTTP is one lemma
(`HandedOver`, on `ViaHttpHolds`) for the timer, the closed socket and the retry.
That a view has no send of another view is part of it: without it an answer to
one could drop the carrier of the other.

`SemesterOperations_proofs`, for any requests, pictures, operations, student
writes, faults and retention: `TypeCorrect`, `NothingLostHolds`,
`PicturesKeptHolds`, `ReadyIsWholeHolds`, `OfferedIsPossibleHolds`,
`RestoredExactlyHolds` (an action property).  None is inductive.  `Succession`
relates every closed semester to the one reset that closed it and to the rows its
backup describes; `RequestsKnow` says what a request that has passed the gate may
still rely on while others prepare, fail and retry (a reset that deletes pictures
has verified exactly the rows of the current semester; a restore imports what its
backup describes); `UploadsOwned`, that what an attempt removes when it undoes its
uploads is nobody else's and no part of a recorded backup; `BackupsHold`, that a
verified package is whole until the retention counted from the reset is over;
`PicturesCovered`, the strengthening of `PicturesKept` to verified packages.
`BackupChanges`, `RequestMoves` and `OthersGoOn` carry the argument for all
actions; there is one lemma per action.

`Content_proofs`, for any recaps, events, users, tabs, pictures, requests, attempts
and faults, has one inductive invariant per service; a step of one leaves the
variables of the others alone.

- Profiles (`SnapshotsAreCurrent`, `ListAndCheckAgree`).  `ReadKept`: as long as the
  version a read of several statements started from is current, every part it has
  read is current; a save in between raises the version.  `InterestsFit`: every path
  that writes interests counts them (the activities are another matter, see
  section 4).  The limit is a comparison of sizes, so the lemmas before it are
  about cardinalities.
- Events (`PublishedEventsAreShown`).  `PublishedIsWhole` rests on facts about the
  requests: the picture a request has uploaded is stored and no row and no other
  request names it (`UploadedOwn`), what is about to be deleted has no row
  (`DeletesUnowned`), and a key not yet used is known to nobody (`FreshUnknown`).
  The slider follows from it: a published event with its cover is in the query, so
  that only the limit can keep it off.
- Avatars (`AvatarsHaveFiles`).  The same for two ways to delete: the compensation
  of a request deletes its own upload (`ReplacementOwn`, `CompensatesOwn`), and the
  reconciler what had no row when it looked and can get none, as a key is used
  once (`OrphansStay`, `UnusedUnknown`).
- Recaps (`LimitKept`, `PhotosAreWhole`, `NoFileForgotten`, `RecapsTakeTurns`).  The
  properties are about what several transactions leave together, so `RecapInv` says
  first how they exclude each other (`RequestsExclude`: a recap is locked by one
  request, one publication is under way, two requests stage different files).
  `RequestWell` then says what each may rely on: staged files are new, an upload's
  are its own, the files of a queue entry belong to photos that are gone for good
  (`CleansDead`), and once the recaps a publication evicts are gone the others and
  the one it publishes are within the limit (`EvictsOverflow`).  That the overflow leaves at
  most the limit is a counting argument (`OverflowLeavesLimit`): the recaps that stay
  are as many as the limit, or the overflow is empty.  `FilesKept` is
  `FilesAreTracked` per file, with the request that will take it on; a published
  recap is shown because the last photo of one cannot be removed (`PublishedShown`).
  A transaction changes a recap or its photos only under that recap's lock:
  `RequestOnly`, `StoreStep`, `RowStep` and `MediaStep` say once what steps of each
  kind keep, and the lemma of each action cites them.

The proofs use only the named assumptions of the modules (`UsersAssumption`,
`InvitationsAssumption`, `BoundsAssumption`; `NullsAssumption`,
`LifetimeAssumption`; `WorkersAssumption`, `NumbersAssumption`;
`SessionsAssumption`; `ChatAssumption`; `DeliveryAssumption`;
`ConstantsAssumption`; `RecapsAssumption`, `ContentAssumption`): that the null values are no ids, that ids in an order,
limits and times are numbers, that every key and acknowledgement has an author,
that an edge invocation ends before a lease does, that users, tabs, families,
recaps, catalog entries and keys are finitely many, and that recaps and pictures
are numbers (recaps are compared by id where they were published together;
pictures have random keys, as numbers they are used up in order).

The inductive invariants were model-checked before they were proved.  Induction
over numbers is out of the provers' reach, since its theorem takes a predicate;
where one is needed `BuddyChat_proofs` and `Content_proofs` take the least element
of a set instead (`LeastNatural`, `LeastNumber`, from the well-foundedness of `<`).

`LockDiscipline`, `IndexesNeverNeeded`, `IndexNeverNeeded`, `RowsStay`,
`RequestsExclude` and the type invariants are proved and not listed in a run.
Every invariant and every action property of the passing runs is stated by a
theorem, with one exception: `ScoresAreExact`, since `MatchingScore` is defined by
recursion over data, about which the installed provers cannot reason.  Liveness
(`RequestsEnd`, `DueInvitationsClose`, `EveryMailEnds`, `EveryCallSettles`,
`PublishedReachesTheConnected`, `EverySendSettles`) is only model-checked as
well: fairness and `ENABLED` are out of the provers' reach.

## 6. Not modelled

- Text: names, bodies, templates, digests, sealing, signatures, logging, metrics.
- Registration, password hashing, origin checks: one request each, decided before
  any state is touched.  The tabs' shared lock for sign-outs and the denylist of
  access tokens only shorten what the model allows.
- Deactivating or deleting an account between authentication and lock: such a
  request is refused, which `Abort` covers; nothing reactivates it.
- Rate limits: counters in Redis; a refusal comes before any write except in the
  refresh endpoint, where `RefreshSessions` has it (`RateLimited`).
- In chat: the socket that announces unread counts (which are polled as well),
  the expiry of the handshake's cookie, the contents of messages.
- In semester operations: the second administrator, password and phrase checks,
  checksums and formats of the packages.
- In events and recaps: registration, texts, thumbnails, order but the slider's, the related
  event, decoding of images, the set-up of buckets.
- In profiles: names, dates and other plain fields, which are one flag; the
  forms a browser holds while it edits.
- Ranking and pages of recommendations, pages of the lists, the verified filter:
  pure functions over what the modules show to be in the lists.
- The order of the maintenance jobs and their stop at the first failure.
- Account list and audit log (append-only), chatbot (stateless; retrieval over
  static files and an external model), rendering and forms of the front end.
