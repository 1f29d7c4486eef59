# Verification of auth-svc

TLA+ models of the authentication service, checked with TLC on small instances
and proved with TLAPS for every instance. Paths such as `AuthService.ts` are
relative to `src/src/services`, `src/src/repositories` and so on;
`PROJECT.json` maps every definition to the lines it translates.

## 1. The system

One Node process (or several, behind a balancer) serves HTTP over a PostgreSQL
database; a separate worker process sends e-mail. The service keeps no state
that matters in memory: it is in tables, and in one cookie of each browser.
Concurrency is that of transactions at READ COMMITTED with explicit row locks,
of `await`s between unlocked reads and transactions, of the worker's promises,
and of the requests and answers of a browser's tabs.

| component | state | operations | hard because |
|---|---|---|---|
| login, refresh, logout (`AuthService`, `UserRepository`, `SessionRepository`) | `users`, `auth_sessions`, `auth_refresh_token_history` | login; refresh with rotation; logout; the guard's session check | the password is verified (slowly) against an unlocked read; a refresh token can come back at any time; two clocks; the failure counter is written outside any transaction |
| password management (`PasswordManagementService`, `PasswordResetRepository`) | `password_reset_tokens`, `users`, `auth_sessions`, outbox | request, validate, reset, change | overlapping requests, double submission, a login in flight across a change; `NOW()` is the start of a transaction that may get its lock much later |
| activation and signup (`ActivationService`, `SignupService`, `ActivationRepository`) | `users`, `account_activation_tokens`, outbox | sign up, issue a link, validate, complete | two completions of one link, completion against re-issue, uniqueness of e-mail addresses |
| e-mail outbox and worker (`OutboxRepository`, `EmailOutboxProcessor`, `EmailServiceClient`, `scripts/emailWorker.ts`) | `auth_outbox_events`, promises in flight | enqueue, claim, send, mark | crashes, ambiguous time-outs, expired claims, several workers, one failing mark among many |
| refresh cookie (`AuthController`, `config/refreshCookie.ts`) and the browser | one cookie, the access token a page holds, requests on their way | set, clear, carry | answers come late, in another order or never; one tab's answer replaces what another tab's request carries; errors clear the cookie too |
| row locks and the connection pool (PostgreSQL, `db/pool.ts`) | locks, waits, ten connections | lock, wait, end | every transaction above competes for the same few rows, in different orders |
| access tokens and guards (`TokenService`, `guards/`) | a key cache | issue, verify, check | a token outlives what it says unless the guard asks the database |
| password policy and hashing (`passwordService`) | none | check, hash, verify | lengths and classes at their limits |
| migration runner (`scripts/migrate.ts`) | `schema_migrations`, an advisory lock | run | two deployments at once, a stop between files |
| rate limiting (`createRateLimiter`) | a counter per key | count | limits, windows, several processes |
| audit log, settings, HTTP layer, configuration, health | append-only log, one row, none | record, read, route | nothing concurrent of their own |

**Interactions.** Every answer of a session endpoint sets, clears or leaves the
cookie, which is how a browser takes part in rotation. Sessions depend on accounts: every check of a session joins
the user's row. A password reset or change writes `users`, revokes rows of
`auth_sessions` and of `password_reset_tokens` and enqueues an event, all in one
transaction, and competes with logins in flight. Activation does the same for a
pending account. The services only ever *insert* into the outbox, inside their
own transactions; the worker only *updates* it, each statement a transaction of
its own.

**What makes each part correct.**
Sessions: a token used twice ends its family; nothing dead comes back; only
current credentials make a session; a lock holds against every login that read
the account before it. Passwords: one outstanding link, and never one older
than the password; no session of an old password is left; every replacement is
authorised. Activation: one usable link, one activation, by a link that is good
under the row locks, and no call left waiting. Outbox: one handler at a time, no
second mail without a conflict answer, nothing settled is touched again, every
event settles. Cookie: it never goes back to an exchanged token, is taken away
only with its session, and who sends one request at a time stays logged in.
Migrations: `schema_migrations` is the exact record of what the database went
through. Locks: overlapping transactions have the effect of single steps, and
everyone is answered.

## 2. Modules

| module | models | composes |
|---|---|---|
| `TokenFamilies` | what is promised of refresh tokens: a family per session, exchanged one by one while it lives | |
| `AuthSessions` | login, refresh, logout, guard check, lockout; activation and password replacement as what they do to these tables | implements `TokenFamilies` (`RefinesTokenFamilies`) |
| `PasswordManagement` | the three password operations | extends `AuthSessions`: every step of a login, refresh, logout, guard, activation interleaves with them; it refines `AuthSessions` (`PasswordCallsRefineSessions`) and, for each account, `CredentialRows` (`CallsImplementRows`) |
| `RefreshCookie` | the cookie, one browser with its requests and answers, the controller's handlers | extends `TokenFamilies` |
| `CredentialRows` | what the transactions on one account promise together: single steps | implemented twice: by `PasswordManagement`, whose transactions are single steps, and by `RowLocks`, whose are not |
| `RowLocks` | the same transactions statement by statement and lock by lock, deadlocks, the pool | instantiates `CredentialRows` under a refinement mapping |
| `AccountActivation` | signup, completion and re-issue, statement by statement where they lock rows | stands alone: nothing else in the service writes the columns it has until the account is active (a failed login only counts); what activation means for logins is `Activate` in `AuthSessions` |
| `OutboxContract` | what the outbox promises per event | |
| `EmailOutbox` | the table, the workers, the e-mail service as its environment | instantiates `OutboxContract` under a refinement mapping |
| `MigrationLog` | what the migration runner promises: one log of scripts | |
| `Migrations` | the runner, any number of times at once | instantiates `MigrationLog` under a refinement mapping |
| `MC…` | symmetry sets and, for `RowLocks`, an order of the calls, for the model checker | the module each is named after |
| `…_proofs` | theorems (section 4) | the module each is named after |

### AuthSessions

The variables are the three tables, `logins` (one record for each
`AuthService.login` in flight, with the row it read), `now`, and two
observations used only by properties: `exchanged`, the tokens a refresh has
rotated away, and `closed`, the sessions that must be dead because an exchanged
token was shown to refresh or an issued one to logout. `closed` is computed from
what was *presented*, never from what the code decided, so that the code's
recognition of reuse is really tested.

| code | action |
|---|---|
| `login` 179-185, unlocked read and start of the verification | `LoginRead` |
| 187-201, wrong password | `LoginRecordFailure`, or `LoginRejected` when it was read as locked |
| 203-224, the checks of the snapshot, deadlines computed | `LoginBegin`, or `LoginRejected` |
| 226-278, the transaction: lock, check again, reset the counter, create the session | `LoginCommit`, `LoginRolledBack` |
| `refreshAuthentication` 294-374 | `RefreshInactive`, `RefreshReused`, `RefreshRejected`, `RefreshRotated` |
| `logout` 382-418 | `LogoutRevokes`, `LogoutIgnored` |
| `findActiveSessionById` | `FindActiveSession` |
| `updatePassword` with `revokeUserSessions` | `ReplacePassword` |
| `activateUser` | `Activate` |
| an administrator's change of status (no code here) | `SetAccountStatus`, external |

Refresh and logout are one step each because their first statement locks the
session *and* the user row, and everything they read later is under that lock.
`recordFailedLogin` is one statement, so one step, but a separate one from the
read that led to it. SHA-256 is injective; a hash is its token. Argon2id is a
salted hash: two hashes of one password differ (`version`), which is what the
comparison of hashes under the lock relies on.

**Two clocks.** The code compares deadlines with `new Date()` in one place and
`NOW()` in another. `now` is the first; every use of the second is any time
within `ClockDrift` of it (`DbTimes`), which also covers that `NOW()` is the
start of the transaction.

### PasswordManagement

Each operation is a `Begin` (unlocked reads and checks, transaction opened) and a
`Commit`, `Rejected`, `Ignored` or `Fails`. `began` records the transaction's
`NOW()`, because `created_at` and `revoked_at` take it and a CHECK constraint
compares them. Observations: `provenBy` (the hash a session's login verified, or
the one a change made in it has set), `issuedUnder` (the password a link was
issued under), `failed` (operations that ended in an internal error). The module's own steps leave the rest alone; `LoginStep` and `OtherStep`
let the whole of `AuthSessions` run between them, `ReplacePassword` excepted,
whose only callers are the operations here. `Rows(u)` is the refinement mapping to
`CredentialRows`: the password's number (`PasswordNumber`), and of each session and
link of account `u` what it has proven and whether it is live (`SessionRowOf`,
`LinkState`).

### RefreshCookie

`families` is the state of `TokenFamilies`; what a request does to it is one of
that module's steps, which `AuthSessions` implements. `cookie` is the browser's jar, with the
generation that stands for the token; `access` is the session of the access
token the page holds; `requests` are on their way, there or back, at most one
in each member of `Requests`. Observations: `acknowledged` counts the exchanges
of a session whose answers arrived, `mine` is the session the user logged in
with, until a logout, a reset or the error of a refresh takes the cookie, and
`careful` says that there was one request at a time and every answer was heard.

| code | action |
|---|---|
| a page calls an endpoint; the cookie's path decides whether it goes along | `Send` |
| `login`, `setRefreshCookie` | `LoginSucceeds` |
| `refreshToken`: the transaction, then `issueAccessToken` and the answer | `RefreshRotates`, then `RefreshSigns` or `RefreshNotSigned` |
| the other ends of `refreshToken`, each clearing the cookie | `RefreshReused`, `RefreshInactive`, `RefreshRejected`, `RefreshFails` |
| `logout` | `LogoutRevokes`, `LogoutIgnored` |
| `resetPassword`; `changePassword` behind its guard | `ResetSucceeds`; `GuardAdmits`, `ChangeSucceeds` |
| errors that leave the cookie | `Rejected` |
| the browser hears an answer, or never does, or is closed and opened | `Receive`, `Lose`, `Restart` (external) |
| sessions end for reasons outside this browser | `SessionsEnd` |

An expired session counts as ended, and a login whose answer is lost is a lost
answer. One page per browser holds an access token; its tabs share the jar.

### RowLocks

The rows of one account: the user's (`password` counts the replacements of its
hash), its `sessions` and its reset `links`. A call in `calls` is `at` new,
queued for a connection, running, done or failed; a running one has the
statements it still has to execute (`rest`), the rows the present statement
`found` and has not got, the row it `wants`, and the rows it has `held` since.
A statement finds rows in the committed tables (`Finds`), meets them in the
order its `FOR UPDATE OF` names or, for an `UPDATE`, in any order (`Meets`), and
leaves a row alone that no longer matches when its lock is granted
(`StillMatches`). `Leave` gives up locks and connection.

| code | action |
|---|---|
| reads and checks before a transaction | `Begin` |
| `pool.connect`, `BEGIN` | `Connect` |
| the next statement; the next row of it | `Execute`; `Lock` |
| the checks on the locked rows fail | `Reject` |
| what each transaction has written when it commits | `CommitLogin`, `CommitRefresh`, `CommitLogout`, `CommitRequest`, `CommitReset`, `CommitChange` |
| PostgreSQL ends a transaction of a cycle | `DeadlockVictim`, external |
| a connection is lost, or none comes within `connectionTimeoutMillis` | `Outage`, external |

`AuthSessions` and `PasswordManagement` take each transaction as one step;
`LooksAtomic`, the refinement of `CredentialRows`, is what justifies that. The
statements that lock a single row in a transaction of their own (the guard's
`UPDATE`, `recordFailedLogin`) hold nothing while they wait, cannot be part of a
cycle, and are left to `AuthSessions`.

### Migrations

Each member of `Runners` is one execution of `scripts/migrate.ts` with the
`directory` of its own release; `lockHolder` is the advisory lock, `recorded`
the table `schema_migrations`, and the observation `schema` the scripts whose
effects were committed.

| code | action |
|---|---|
| `pg_advisory_lock`, `CREATE TABLE IF NOT EXISTS`, the sorted list of files | `TakeLock`, `Visits` |
| the checksum, its row found equal or different | `Checksum`, `SkipApplied`, `RejectModified` |
| `BEGIN`, the script; `INSERT`; `COMMIT` | `RunScript`; `InsertRow`; `Commit` |
| the connection dies at the `COMMIT` | `CommitUnseen` |
| an error, a lost connection or the end of the process, anywhere | `Stop` |
| the end of the loop, the unlock and `pool.end` | `Finish`, `Leaves` |

### AccountActivation

`users` (one account per address, as `users_email_key` has it), `links` (the rows
of `account_activation_tokens`), `outbox` (how many events of each type an
account has been queued) and `calls`: a call in flight knows the statement it is
`at`, what it read before its transaction, and the row `locks` it holds. A call
waits (`WaitsFor`) when a row its next statement locks is held by another; its
locks go when it ends, however it ends.

| code | action |
|---|---|
| `signup` 82-97, then its transaction | `SignupBegin`, `SignupCommit`; `SignupRejected` on the duplicate address |
| `completeActivation` 126-158, unlocked read, checks, hash | `CompleteBegin` |
| `FOR UPDATE OF activation, users` | `CompleteLockToken`, `CompleteLockUser`, in this order |
| 166-201, checked again and written | `CompleteCommit`, `CompleteRejected` |
| `issueActivationToken` 204-210 | `IssueBegin` |
| `findByIdForUpdate` and the status | `IssueLockUser`, `IssueRejected` |
| `revokeUnusedTokens`, `createToken` | `IssueReplace`; `IssueFails` on `CHECK (revoked_at >= created_at)` |
| a lost connection or a stopped process, at any statement | `Abort` |
| PostgreSQL ends one of two that wait for each other | `DeadlockVictim`, external |

The deadlock is real: a completion holds its token's row and waits for the
user's, while a re-issue holds the user's and must revoke that token. One of the
two callers gets an internal error; the runs show that nothing is left half done
and nobody is left waiting. The checks a completion makes under its locks imply
the `WHERE` clauses of `activateUser` and `consumeTokenAndRevokeOthers`, which are
therefore not separate guards.

### EmailOutbox

`rows` is the table, `handlers` the `processEvent` promises that have not
returned, with the attempt and generation they were given when claimed, and
whether the worker's `Promise.all` still waits for them (`awaited`). `running`
are live workers; a restarted process draws a new random id, so it is another
member of `Workers`. Of time only outcomes are kept: `due`
(`next_attempt_at <= NOW()`) and `stale` (`locked_at` older than the lock
timeout) are set by `BecomesDue` and `ClaimExpires`.

| code | action |
|---|---|
| `claimPendingEvents`, then one promise per event | `ClaimBatch`; `ClaimError` when the answer is lost after commit |
| `mapOutboxEventToEmail` throws | `MapRejects` |
| `EmailServiceClient.send` | `RequestTaken`, `RequestConflicts`, `RequestRefused`, `RequestGivenUp`, `RequestTimesOut`, `RequestSucceeds` |
| `markPublished` | `MarkPublished`, `ClaimWasLost`, `MarkPublishedError` |
| `classifyFailure`, `markDeliveryFailed` | `MarkDeliveryFailed`, `MarkDeliveryFailedError` |
| the worker process | `Crash` |

The e-mail service is external and modelled as its client and tests show it: it
works on a key (`inProgress`), accepts it once (`accepted`), answers 2xx for a key
it has accepted and 409 for one in progress, and may give work up. A key it gave
up can be taken again. A request that timed out may still be served.

## 3. Runs

TLC takes each in less than three minutes with two workers.

| run | asks | bounds and why they are enough |
|---|---|---|
| `rotation` | token families, reuse, deadlines, dead sessions | 1 account, 1 session, 3 generations (a token two rotations old differs from one rotation old, which is what one of the mutants forgets), 4 ticks against idle timeout 2, absolute 3 and 5, drift 1: sessions expire by each deadline and on one clock before the other; threshold 3 and duration 2: the account locks, which also bars its sessions, and unlocks |
| `login` | stale reads in logins | 2 logins in flight (any race of the code is between two), up to 4 failures around threshold 3, one password change, all statuses, 2 ticks against a lock of 1 |
| `passwords` | reset links, and sessions across replacements | 2 calls and a login in flight, 2 links that expire after 1 tick, one session, one replacement, which outdates every older link and session |
| `activation` | one link, one activation, in time, and every call ends | 3 calls in flight about one address, invited or not: two completions and a re-issue, or any other three, so that a third can wait behind a deadlock; 2 links, 2 passwords, so that a second completion would be seen; links of 1 tick in a time of 1, so that they expire between the first check and the one under the locks |
| `outbox` | the refinement of `OutboxContract` with its fairness (every event settles), claims, attempts, mails | 2 workers, 2 events (one with a token), batches of 2, 2 attempts, 1 fault: a handler that outlives a rejected batch, *or* a claim that expires under it, *or* an answer lost after its commit |
| `migrations` | the record, the log, every run ends | 2 runs of any releases over 2 files in 2 texts and both line ends, stopped anywhere |
| `locks` | atomicity, deadlocks, liveness of the account's transactions | any 3 calls of the 6 kinds over 2 connections, one older session and link; 73 thousand states; a cycle of two with a third waiting for a connection (longer cycles: `DeadlocksNeedAnExchange`). `JobsInOrder`, a constraint on `jobs`, which no step changes, leaves out the same calls under other names |
| `browser` | the cookie and its session | 2 requests on their way, 2 sessions, 3 generations, one fault after another, also before a careful browser logs in again; 2.8 million states |
| `forged` | finding 1 | violation expected |
| `accepted` | finding 2 | violation expected |
| `mailed_once` | finding 3 | violation expected, without any fault |
| `logout` | finding 4 | violation expected, with 2 calls and no lost connection |

`DeadSessionsFrozen` covers a session that is expired, revoked or whose account
is barred; `ImplementsContract` has the contract's liveness in it, so that every
event settles is part of it.

Every property of a passing run has a mutant in `PROJECT.json`: a definition of
the same module, marked `Mutant`, that changes one modelled definition as a
plausible bug would, and under which TLC must find the property violated.

Named bounds: `MaxTime`, `MaxGeneration`, `MaxFailedAttempts`, `MaxHashVersion`
(guards of `Tick`, `RefreshRotated` and `RefreshRotates`, `LoginRecordFailure`,
`ReplacePassword`), and `MaxFaults` (crashes, database errors and claims that
expire in use). Where
`MaxFailedAttempts` is 0 a failed login is simply not recorded: those runs are
about something else. `CHECK_DEADLOCK FALSE` is set for the outbox, which
really stops when all events are settled, for `Migrations` and `RowLocks`, whose
runs and requests end, and for `AccountActivation`, which stops when its finite
`Links` are used up; that nobody is left waiting is `EveryRunEnds`,
`EveryRequestEnds` and `EveryCallEnds`.

**Fairness.** `FairSpec` of `AccountActivation` assumes strong fairness of each
call's next statement, because PostgreSQL serves the waiters of a row in their
order, and that deadlocks are detected; `FairLocksSpec` of `RowLocks` assumes the
same, and that the pool serves its queue in order. `FairMigSpec` assumes strong fairness of
each run's next statement: the advisory lock, too, is handed on in order. `AuthSessions`,
`PasswordManagement` and `RefreshCookie` are request handlers and a user's
browser and promise nothing to happen; no fairness, no liveness. `FairOutboxSpec` assumes
that a live worker's loop keeps polling (`emailWorker.ts` loops until told to
stop), that a claimed event's promise makes progress (every request has a
timeout), and that time passes. Nothing is assumed of the e-mail service, and
crashes and database errors are finite; one worker is kept running. Events are
claimed in any order, which is weaker than the code's oldest-first, and enough
because each event can be attempted only finitely often (`AttemptsBounded`).

## 4. What is proved

`tlapm` checks the proof modules from nothing; they assume only the named
`ASSUME`s (settings positive, `Null` outside the types, the calls' new ids not among the old ones) which TLC evaluates in
the runs. All bounds, drifts and sizes are arbitrary.

**AuthSessions_proofs.** `TypeCorrect` is inductive by itself. `LockoutIsConsistent`
is inductive given types. `HistoryIsComplete` (`RotationHistory`) is inductive given
types: per session, the history rows are exactly generations `0 .. g-1`.
`ReuseRevokesFamily` is not inductive alone: that an exchanged token is
recognised needs `ExchangedRecorded` (every exchanged token is in the history),
and that a token recognised as used is not current needs `RotationHistory`; that
a revoked session stays revoked comes from the same case analysis.
`LoginsUseCurrentCredentials` needs `CommitsVerified` (a login in its transaction has
verified the hash it read), which together with the comparison of hashes under
the lock carries an old verification over to the present. `DeadSessionsStayDead`
and `RunningLockHolds` are action properties that follow from types and arithmetic
over the two clocks. `NoSessionEndsByMistake` is the converse of
`ReuseRevokesFamily`: a session that would pass the check of `refreshAuthentication`
is revoked only for one of three reasons (an exchanged token shown to refresh, an
issued one to logout, a new password); it needs that the history holds *only*
exchanged tokens (`RecordedExchanged`), which also gives `ForgedTokensAreHarmless`.
`DeadlinesHold` (`SessionDeadlines`) adds that a login in its
transaction has computed its deadlines from a time that has passed.
`RefinesTokenFamilies` maps a row of `auth_sessions` to its family: a login opens one,
a rotation exchanges, every revocation ends, and nothing else is seen; that a
family is exchanged only while it lives is the guard of `RefreshRotated` under
the row's lock.

**PasswordManagement_proofs.** `PasswordCallsRefineSessions` (`PMSpec => Spec`) is what
makes the composition sound: every step of a password call is, to accounts and
sessions, a step `AuthSessions` has, so all its theorems hold beside them. The
invariant has four parts. `OneLink`: no two outstanding links of one account.
`LinksCurrent`: an outstanding link was issued under the password of now, because
each replacement revokes them. `SessionsActivated`: an account with a session has been
activated, so no session is older than the first password. `LiveFollow`: with both
terminate settings on, a live session has proven the present hash. Besides the
properties of the run, `ResetsPassTheCheck` proves that a reset, unlike a request
or a change, never meets the `CHECK` of finding 2 (`ResetCommit` has no failing twin
for this reason), and `SettledLinksStay` that a used or revoked link is never
written again. `OnlyOverlapsFail` says which overlap it takes: under `RequestsAlone`, an
assumption on the behaviour, a call that would revoke a link began after it
(`LinksOlder`), so nothing ends in an internal error.

`CallsImplementRows` closes the circle of the two views of the account's
transactions: with both terminate settings on, `PMSpec` implements
`CredentialRows` for each account. `RowsKnown` is what the mapping needs: accounts
of sessions and links were activated (`SessionsActivated`, `LinksKnown`), each session
has a hash behind it (`ProvenKnown`), and a login in its transaction verified the
hash it read (`CommitsVerified`). TLC cannot check a specification under a
quantifier; its action form was checked on the instance of `passwords`.

**RefreshCookie_proofs.** `Shapes` says what a request at each place of its way
carries. `Chain` says that no request carries a token whose replacement has
arrived before it was sent, and that of each session at most one exchange is
under way, that of the current token (`OneExchange`): only its answer can bring
the next one. From it follow `JarMovesForward` and `OnlyTheDeadAreCleared`.
`Careful` adds that everything a careful browser has, or sent, belongs to the
session it is logged in with (`AtHome`), that the cookie is behind that session
at most while an answer is under way that replaces or takes it (`Moving`), and
that whether a session is remembered goes through every cookie; it gives `CarefulStaysIn` and
`ChangeSparesMySession`.

**Migrations_proofs.** The invariant adds to the properties of the run that who is in
the loop holds the lock (`Exclusive`), that the files a run has behind it are
recorded with its checksums (`Visited`), and that all checksums are those of
normalised line ends (`Normalized`). `RecordIsExact`, `NoCollision`, `ComplaintsAreTrue` and the refinement
`RunnerImplementsLog` follow. What `EveryRunEnds` says under fairness is proved up to
the fairness: `NoRunIsStuck` (the lock is never left with a run that is over,
`LockIsInUse`; a run inside the loop always has a first file to visit, by
well-foundedness of the names' order, and its `INSERT` finds no row) and `RunsMoveForward`.

**AccountActivation_proofs.** `OneOutstandingLink`, `ActiveHasNoLink` and
`ActivatedOnce` are not inductive alone. `ActivationInv` adds that links belong to
accounts and calls to their links (`LinksHaveAccounts`, `CallLinks`), and the locks:
no row has two holders (`LocksExclusive`), a call about to write holds the user's
row (`WritersHoldUser`), so the account a re-issue found pending is pending when
it writes (`ReplacePending`). With that a completion and a re-issue cannot both be
about to write, which is why no link outlives the activation. `Writers` and
`CompletionEffect` then give `FirstCompletionAlwaysWins` and
`LinksAlwaysActivateInTime`. `PendingAccountsKeepALink`: who revokes a pending
account's link creates its successor in the same commit, and a completion that
uses it up activates the account.

`LocksFollow` says which rows a call holds at each statement. A re-issue that waits
at its second lock waits for the completion of the account's one outstanding link,
which waits for the user's row (`ExchangeWhenHeld`); this is the only cycle
(`ActivationDeadlocks`), so that `DeadlockVictim`, which ends one of two, covers every deadlock.
`ActivationWaitsEnd` and `ActivationMovesForward` are `EveryCallEnds` up to the fairness.
`OnlyOverlappingIssuesFail` bounds `IssueFails` as `OnlyOverlapsFail` does for passwords.

**EmailOutbox_proofs.** `RowStep` lists all a step can do to one row, and
`HandlerStep` all it can do to one handler; `StepsOfRows`, `StepsOfHandlers` and
`StepsOfService` show once, action by action, that nothing else happens. From
them follow `OutboxTypeCorrect`, `SettledRowsStayFrozen` and
`TokensKeptUntilSettled`. The refinement `ImplementsContractSafety` needs in
addition `WorkIsRecorded`: work is done only for rows that exist, and a handler
about to mark its event published has a key the service has accepted.

The three counting properties rest on numbering: a handler carries the attempt
of its claim, and `ClaimsOrdered` says that no two handlers of an event have the
same, and none is ahead of its row. A handler whose claim has ended is a stray; strays
come from faults only, and each attempt beyond the maximum costs a fault too
(`Budget`), which gives `ClaimsExclude` and `AttemptsStayBounded`. A key's generation
moves only with a conflict answer (`ConflictsPay`: the generation and the
handlers that carry a conflict are at most the conflicts there were), and a mail goes out
under a key that was reached (`GenerationsReached`), which gives
`MailsAreExplained`.

**RowLocks_proofs.** A running call is in one of seven places (`Phase`): before its first
statement; after it found no session; waiting for its own row first (`AtFirst`) or for the
account's (`AtUser`); or holding the account's and before, in or after the `UPDATE`s
that follow (`HasUser`, `Linking`, `Revoking`). `LocksInv` adds that no row
has two holders and that what a call will create is not there (`Prepared`). Every
COMMIT that writes is of a call with the account's row, so what another call found
under that row stays as it was found; when a call is ready, it has locked exactly
the rows its step of `CredentialRows` revokes (`HeldRows`), hence
`TransactionsLookAtomic`, and `CredentialsStayCurrent` by the invariant of single steps.
`DeadlocksNeedAnExchange`: a waiting call that has locked something, but not the account's
row, waits for that row (`WaitingPlace`); so every cycle has a holder of
it, what the holder waits for belongs to one that waits for it (`ExchangeRows`), and
those two are the whole cycle (`CyclesAreSmall`); that a reset past its
check has the one open link there is (`ResetsChecked`) leaves out a pair of two resets.

`FailuresAreExplained` lists what a failed call can have failed of, and
`LogoutsSucceedOtherwise` draws from it where finding 4 ends. `NoStateIsStuck` writes out
the guards of a call's statements (`CanGo`): in every state with a call to answer
one of them holds, or there is a cycle, and no chain of waits is longer than
three. With `CallsMoveForward`, that no step takes a call back, this is
`EveryRequestEnds` but for the scheduling.

**Only model-checked:** liveness (`EveryCallEnds`, `EveryRunEnds`,
`EveryRequestEnds` and the fairness half of `ImplementsContract`), which is out of
the prover's reach. Of the first three the state and action halves are proved:
somebody can always go on, and everybody only goes on. That the guards written out
there are those of the actions (`ENABLED`) is the prover's other limit; TLC
compared them on the instances of the runs.

## 5. Findings

1. **`forged`.** `README.md:122` says a forged token does not revoke a legitimate
   session. `refreshAuthentication` revokes a session it finds inactive before it
   compares the token (`AuthService.ts:309-315`), and a *temporary* account lock
   makes a session inactive. `logout` compares first. `ForgedTokensAreHarmless`: the
   lock is the only way.
2. **`accepted`.** Two overlapping requests for a reset link: the transaction that
   began first but locked second writes a `revoked_at` before the `created_at` of
   the other's link, `CHECK (revoked_at >= created_at)` fails, and the endpoint
   that "always returns the same accepted response" (`README.md:166`) answers with
   an internal error. `changePassword` and `issueActivationToken` can fail the same
   way (`ChangeFails`, `IssueFails`). `OnlyOverlapsFail` and `OnlyOverlappingIssuesFail`:
   without such an overlap nothing fails.
3. **`mailed_once`.** A request times out while the service works on it, the retry
   gets 409 (`EMAIL_SEND_ALREADY_IN_PROGRESS` in `test/email.outbox.test.ts:167`), and
   the attempt after that has a new key: the mail goes out twice, although "a stable
   idempotency key protects ambiguous network retries" (`README.md:252`).
   `MailsNeedConflicts` shows that this is the only way.
4. **`logout`.** A logout locks its session's row and then the account's; a reset or a
   change of the password locks the account's and then its sessions'. Overlapping,
   PostgreSQL ends one of the two, nothing tries it again, and when it is the logout
   the session lives and the caller gets an internal error without the
   cookie-clearing header, although logout "always succeeds from the caller's
   perspective" (`AuthService.ts:378`; `README.md:100` for the header).
   `DeadlocksAreExchanges` shows that all deadlocks among these transactions are such
   exchanges, and `LogoutsSucceedOtherwise` that without resets, changes and lost
   connections a logout does always succeed.

## 6. Abstractions

- Outside `AccountActivation` and `RowLocks`, a statement that waits for a row lock
  is a step taken later. `RowLocks` shows for the transactions on one account that
  the waits and the deadlocks change nothing else.
- `RowLocks` has one account, which is active, with both terminate settings on; a
  refresh there either revokes its session or leaves it, since tokens are the
  matter of `AuthSessions`; a change takes its caller to know the present password.
- `RefreshCookie` has one browser and does not look at time: a session may end
  at any moment (`SessionsEnd`).
- `AccountActivation` keeps passwords rather than hashes, which it never compares;
  one clock; and `NOW()` of a transaction is the time its call read the settings,
  the earliest it can be. A signup is one step: until it commits, nobody else sees
  its rows. Names, roles and agreement versions are left out.
- A login for an unknown e-mail address verifies a dummy hash and changes
  nothing; it is left out. So are the answers' wording and mail contents.
- In `AuthSessions`, a refresh whose access token cannot be signed after the commit is the same
  step as one whose answer is lost: the client holds an exchanged token. In
  `RefreshCookie` it is `RefreshNotSigned`, which also stands for a `COMMIT` whose
  answer is lost.
- `CompleteCommit` and `ResetCommit` are the check under the row locks and the
  `COMMIT` in one step, taken at the check: that is when a link is called
  unexpired. The rows stay locked until the `COMMIT`; only the clock can move in
  between, while the password is hashed or verified. `began` of a change is
  taken at its guard, before its transaction opens: that only adds failures of the
  kind of finding 2.
- A statement that reads a second table without locking it (`findActiveSession`)
  is one step; so is the rotation, whose history row and update are one
  transaction under the session's lock.
- The settings are constants; no code here writes them.
- `PasswordManagement` gives both clocks the same time (the `began` of a call
  keeps what matters there); `AuthSessions` has the drift.
- Password policy violations reject a call before any state changes and are left
  out of `PasswordManagement`.
- `MapRejects` may reject an event at one attempt and not at the next.

## 7. Not modelled

- **Password policy** (`passwordService.ts`): a pure function of the characters of a
  password, decided before any transaction; what it rejects reaches no modelled step.
  Argon2id is taken as an injective salted hash.
- **Rate limiting**: configuration of `express-rate-limit`, whose counters in memory are
  library code; a request it turns away changes nothing else.
- **Access tokens**: the lifetime of a JWT, and the key cache with its loading. A guard asks the database
  on every request (`FindActiveSession`, `GuardAdmits`), so a JWT adds an upper
  bound to what a session allows and nothing else. `PermissionGuard` is used by no route.
- **Audit log**: appends that never throw and that nothing reads.
- **Settings**: constants here; a change of a setting while a call is in flight is
  out, since no code of the repository writes them.
- **HTTP layer** beyond the cookie, **configuration, logging, errors**, the **health
  check**, the bootstrap and the **key generation script**: parsing, formatting and reads.
- **What the SQL of a migration does**: to the runner it is its text. The tables' columns and
  the `CHECK` constraints the statements can meet are in the modules that use them.
