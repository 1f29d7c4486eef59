----------------------------- MODULE EmailOutbox -----------------------------
(***************************************************************************)
(* The transactional e-mail outbox and its workers: OutboxRepository.ts,   *)
(* EmailOutboxProcessor.ts, EmailServiceClient.ts and the loop of          *)
(* scripts/emailWorker.ts, with the e-mail service they post to.           *)
(*                                                                         *)
(* A claim commits before anything is sent; each claimed event is then     *)
(* handled by a promise of its own, so claims, requests, answers and marks *)
(* of several events and several workers interleave freely.  A worker that *)
(* stops does not come back: a restarted process has a new random id, and  *)
(* is another member of Workers.                                           *)
(*                                                                         *)
(* Of time only its outcomes are kept: an event becomes due again, a claim *)
(* becomes older than the lock timeout, a request times out.               *)
(***************************************************************************)
EXTENDS Naturals, FiniteSets

CONSTANTS
  Events, Workers,
  TokenEvents,    \* the events whose payload carries a one-time token
  Null,           \* SQL NULL, and an absent row
  BatchSize, MaxAttempts,     \* env.ts
  MaxFaults       \* bound: crashes, database errors and overrun claims

ASSUME OutboxSettingsAssumption ==
  /\ TokenEvents \subseteq Events
  /\ Null \notin Workers
  /\ BatchSize \in Nat \ {0}
  /\ MaxAttempts \in Nat \ {0}
  /\ MaxFaults \in Nat

Row == [attempts : Nat, generation : Nat, due : BOOLEAN,
        lockedBy : Workers \cup {Null},
        stale : BOOLEAN,         \* locked_at is older than the lock timeout
        hasToken : BOOLEAN, published : BOOLEAN, failed : BOOLEAN]

ASSUME NullRowAssumption == Null \notin Row

Failure == {"invalid",       \* InvalidEmailEventError, ExpiredEmailEventError
            "conflict",      \* HTTP 409
            "retryable",     \* HTTP 408, 425, 429 and 5xx
            "rejected",      \* any other HTTP error
            "transport",     \* no response: refused, lost or timed out
            "unexpected"}    \* markPublished failed or found the claim lost

Stage == {"send", "waiting", "publish"} \cup Failure

Handler == [worker : Workers, event : Events, attempts : Nat, generation : Nat,
            stage : Stage,
            awaited : BOOLEAN]   \* the worker's Promise.all still waits for it

\* `auth-outbox:<event>:<generation>'
IdempotencyKey == [event : Events, generation : Nat]

VARIABLES
  rows,         \* auth_outbox_events
  handlers,     \* the processEvent calls that have not returned
  running,      \* the workers whose process is alive
  inProgress,   \* e-mail service: keys it is working on
  accepted,    \* e-mail service: keys whose mail it has taken
  conflicts,    \* observation: 409 answers received for each event
  faults        \* crashes, database errors and overrun claims so far

outboxVars == <<rows, handlers, running, inProgress, accepted, conflicts, faults>>

\* Mutant: the key is made from the attempt.
KeyOf_PerAttempt(h) == [event |-> h.event, generation |-> h.attempts]

KeyOf(h) == [event |-> h.event, generation |-> h.generation]

Pending(e) == rows[e] # Null /\ ~rows[e].published /\ ~rows[e].failed

Fault == faults < MaxFaults /\ faults' = faults + 1

----------------------------------------------------------------------------
(* OutboxRepository *)

NewRow(e) ==
  [attempts |-> 0, generation |-> 0, due |-> TRUE, lockedBy |-> Null,
   stale |-> FALSE, hasToken |-> e \in TokenEvents,
   published |-> FALSE, failed |-> FALSE]

\* Called inside the transactions of the password and activation services.
EnqueueEvent(e) ==
  /\ rows[e] = Null
  /\ rows' = [rows EXCEPT ![e] = NewRow(e)]
  /\ UNCHANGED <<handlers, running, inProgress, accepted, conflicts, faults>>

\* Mutant: a claim never times out.
Claimable_NeverStale(e) ==
  /\ Pending(e)
  /\ rows[e].due
  /\ rows[e].lockedBy = Null

\* Mutant: a claim does not look at the lock columns.
Claimable_IgnoresLock(e) == Pending(e) /\ rows[e].due

Claimable(e) ==
  /\ Pending(e)
  /\ rows[e].due
  /\ rows[e].lockedBy = Null \/ rows[e].stale

ClaimedBy(row, w) ==
  [row EXCEPT !.attempts = row.attempts + 1, !.lockedBy = w, !.stale = FALSE]

\* SKIP LOCKED and LIMIT: a batch is any choice of claimable rows up to
\* BatchSize, which covers the ORDER BY and the rows others have locked.
Batches == {b \in SUBSET {e \in Events : Claimable(e)} : b # {} /\ Cardinality(b) <= BatchSize}

Claim(w, batch) ==
  rows' = [e \in Events |-> IF e \in batch THEN ClaimedBy(rows[e], w) ELSE rows[e]]

\* The WHERE clause of markPublished and markDeliveryFailed.
HoldsClaim(h) == Pending(h.event) /\ rows[h.event].lockedBy = h.worker

PublishedRow(row) ==
  [row EXCEPT !.published = TRUE, !.hasToken = FALSE, !.lockedBy = Null, !.stale = FALSE]

\* Mutant: locked_at is not cleared with locked_by.
FailedRow_KeepsLockTime(row, permanently, advance) ==
  [row EXCEPT !.due = FALSE, !.lockedBy = Null,
              !.failed = permanently,
              !.generation = row.generation + (IF advance THEN 1 ELSE 0),
              !.hasToken = row.hasToken /\ ~permanently]

\* Mutant: the token is dropped by a failure that will be retried.
FailedRow_DropsToken(row, permanently, advance) ==
  [row EXCEPT !.due = FALSE, !.lockedBy = Null, !.stale = FALSE,
              !.failed = permanently,
              !.generation = row.generation + (IF advance THEN 1 ELSE 0),
              !.hasToken = FALSE]

FailedRow(row, permanently, advance) ==
  [row EXCEPT !.due = FALSE, !.lockedBy = Null, !.stale = FALSE,
              !.failed = permanently,
              !.generation = row.generation + (IF advance THEN 1 ELSE 0),
              !.hasToken = row.hasToken /\ ~permanently]

----------------------------------------------------------------------------
(* classifyFailure *)

\* Mutant: one attempt more than the maximum.
PermanentlyFailed_OneMore(failure, attempts) ==
  failure \in {"invalid", "rejected"} \/ attempts > MaxAttempts

PermanentlyFailed(failure, attempts) ==
  failure \in {"invalid", "rejected"} \/ attempts >= MaxAttempts

AdvancesGeneration(failure) == failure = "conflict"

----------------------------------------------------------------------------
(* EmailOutboxProcessor.processBatch and processEvent *)

Idle(w) == w \in running /\ \A h \in handlers : h.worker = w => ~h.awaited

NewHandler(e, w) ==
  [worker |-> w, event |-> e, attempts |-> rows[e].attempts + 1,
   generation |-> rows[e].generation, stage |-> "send", awaited |-> TRUE]

ClaimBatch(w, batch) ==
  /\ Idle(w)
  /\ Claim(w, batch)
  /\ handlers' = handlers \cup {NewHandler(e, w) : e \in batch}
  /\ UNCHANGED <<running, inProgress, accepted, conflicts, faults>>

\* The claim commits and its answer is lost: the rows stay locked, and the
\* loop logs the error and goes on.
ClaimError(w, batch) ==
  /\ Idle(w)
  /\ Fault
  /\ Claim(w, batch)
  /\ UNCHANGED <<handlers, running, inProgress, accepted, conflicts>>

MovesTo(h, stage) == handlers' = (handlers \ {h}) \cup {[h EXCEPT !.stage = stage]}

ServiceUnchanged == UNCHANGED <<inProgress, accepted>>

\* The payload does not parse, or its token has expired: nothing is sent.
MapRejects(h) ==
  /\ h.stage = "send"
  /\ MovesTo(h, "invalid")
  /\ UNCHANGED <<rows, running, conflicts, faults>> /\ ServiceUnchanged

\* The e-mail service starts work under a key it has not seen, or has given up.
RequestTaken(h) ==
  /\ h.stage = "send"
  /\ KeyOf(h) \notin inProgress \cup accepted
  /\ inProgress' = inProgress \cup {KeyOf(h)}
  /\ MovesTo(h, "waiting")
  /\ UNCHANGED <<rows, running, accepted, conflicts, faults>>

\* 409 EMAIL_SEND_ALREADY_IN_PROGRESS
RequestConflicts(h) ==
  /\ h.stage = "send"
  /\ KeyOf(h) \in inProgress
  /\ MovesTo(h, "conflict")
  /\ conflicts' = [conflicts EXCEPT ![h.event] = @ + 1]
  /\ UNCHANGED <<rows, running, faults>> /\ ServiceUnchanged

RequestRefused(h, failure) ==
  /\ h.stage = "send"
  /\ MovesTo(h, failure)
  /\ UNCHANGED <<rows, running, conflicts, faults>> /\ ServiceUnchanged

\* The work a waiting request started was given up: 5xx.
RequestGivenUp(h) ==
  /\ h.stage = "waiting"
  /\ KeyOf(h) \notin inProgress \cup accepted
  /\ MovesTo(h, "retryable")
  /\ UNCHANGED <<rows, running, conflicts, faults>> /\ ServiceUnchanged

RequestTimesOut(h) ==
  /\ h.stage \in {"send", "waiting"}
  /\ MovesTo(h, "transport")
  /\ UNCHANGED <<rows, running, conflicts, faults>> /\ ServiceUnchanged

\* 2xx, also for a key already served: the service does not mail it again.
IsOk(h) == KeyOf(h) \in accepted

RequestSucceeds(h) ==
  /\ h.stage \in {"send", "waiting"}
  /\ IsOk(h)
  /\ MovesTo(h, "publish")
  /\ UNCHANGED <<rows, running, conflicts, faults>> /\ ServiceUnchanged

MarkPublished(h) ==
  /\ h.stage = "publish"
  /\ HoldsClaim(h)
  /\ rows' = [rows EXCEPT ![h.event] = PublishedRow(@)]
  /\ handlers' = handlers \ {h}
  /\ UNCHANGED <<running, conflicts, faults>> /\ ServiceUnchanged

\* "The outbox event claim was lost."
ClaimWasLost(h) ==
  /\ h.stage = "publish"
  /\ ~HoldsClaim(h)
  /\ MovesTo(h, "unexpected")
  /\ UNCHANGED <<rows, running, conflicts, faults>> /\ ServiceUnchanged

\* The database fails before or after it has committed the statement.
MarkPublishedError(h) ==
  /\ h.stage = "publish"
  /\ Fault
  /\ \/ UNCHANGED rows
     \/ HoldsClaim(h) /\ rows' = [rows EXCEPT ![h.event] = PublishedRow(@)]
  /\ MovesTo(h, "unexpected")
  /\ UNCHANGED <<running, conflicts>> /\ ServiceUnchanged

RecordsFailure(h) ==
  rows' = [rows EXCEPT ![h.event] =
             FailedRow(@, PermanentlyFailed(h.stage, h.attempts), AdvancesGeneration(h.stage))]

\* The result of markDeliveryFailed is ignored: a lost claim changes nothing.
MarkDeliveryFailed(h) ==
  /\ h.stage \in Failure
  /\ \/ HoldsClaim(h) /\ RecordsFailure(h)
     \/ ~HoldsClaim(h) /\ UNCHANGED rows
  /\ handlers' = handlers \ {h}
  /\ UNCHANGED <<running, conflicts, faults>> /\ ServiceUnchanged

\* The rejected promise ends the worker's Promise.all while the other
\* handlers of the batch go on; the loop logs the error and claims again.
MarkDeliveryFailedError(h) ==
  /\ h.stage \in Failure
  /\ Fault
  /\ \/ UNCHANGED rows
     \/ HoldsClaim(h) /\ RecordsFailure(h)
  /\ handlers' = {IF g.worker = h.worker THEN [g EXCEPT !.awaited = FALSE] ELSE g :
                    g \in handlers \ {h}}
  /\ UNCHANGED <<running, conflicts>> /\ ServiceUnchanged

----------------------------------------------------------------------------
(* The worker process, the clock and the e-mail service *)

\* A crash, a deployment, or SIGTERM once pool.end() has been called.
Crash(w) ==
  /\ running # {w}          \* some worker is kept running
  /\ w \in running
  /\ Fault
  /\ running' = running \ {w}
  /\ handlers' = {h \in handlers : h.worker # w}
  /\ UNCHANGED <<rows, conflicts>> /\ ServiceUnchanged

BecomesDue(e) ==
  /\ Pending(e)
  /\ ~rows[e].due
  /\ rows' = [rows EXCEPT ![e].due = TRUE]
  /\ UNCHANGED <<handlers, running, conflicts, faults>> /\ ServiceUnchanged

\* The handler of the current claim of e is still at work.
ClaimInUse(e) ==
  \E h \in handlers : /\ h.event = e
                      /\ h.worker = rows[e].lockedBy
                      /\ h.attempts = rows[e].attempts

\* env.ts makes the lock timeout longer than the request timeout, so a claim
\* in use expires only when its worker is held up: a fault.
ClaimExpires(e) ==
  /\ Pending(e)
  /\ rows[e].lockedBy # Null
  /\ ~rows[e].stale
  /\ \/ ~ClaimInUse(e) /\ UNCHANGED faults
     \/ ClaimInUse(e) /\ Fault
  /\ rows' = [rows EXCEPT ![e].stale = TRUE]
  /\ UNCHANGED <<handlers, running, conflicts>> /\ ServiceUnchanged

ServiceAccepts(key) ==
  /\ key \in inProgress
  /\ inProgress' = inProgress \ {key}
  /\ accepted' = accepted \cup {key}
  /\ UNCHANGED <<rows, handlers, running, conflicts, faults>>

ServiceGivesUp(key) ==
  /\ key \in inProgress
  /\ inProgress' = inProgress \ {key}
  /\ UNCHANGED <<rows, handlers, running, accepted, conflicts, faults>>

----------------------------------------------------------------------------
OutboxInit ==
  /\ rows = [e \in Events |-> Null]
  /\ handlers = {}
  /\ running = Workers
  /\ inProgress = {}
  /\ accepted = {}
  /\ conflicts = [e \in Events |-> 0]
  /\ faults = 0

Handle(h) ==
  \/ MapRejects(h)
  \/ RequestTaken(h)
  \/ RequestConflicts(h)
  \/ \E failure \in {"retryable", "rejected"} : RequestRefused(h, failure)
  \/ RequestGivenUp(h)
  \/ RequestTimesOut(h)
  \/ RequestSucceeds(h)
  \/ MarkPublished(h)
  \/ ClaimWasLost(h)
  \/ MarkDeliveryFailed(h)

Poll == \E w \in Workers, batch \in Batches : ClaimBatch(w, batch)

HandleSome == \E h \in handlers : Handle(h)

Elapse == \E e \in Events : BecomesDue(e) \/ ClaimExpires(e)

Misfortune ==
  \/ \E w \in Workers : Crash(w) \/ \E batch \in Batches : ClaimError(w, batch)
  \/ \E h \in handlers : MarkPublishedError(h) \/ MarkDeliveryFailedError(h)

ServiceStep == \E key \in inProgress : ServiceAccepts(key) \/ ServiceGivesUp(key)

OutboxNext ==
  \/ \E e \in Events : EnqueueEvent(e)
  \/ Poll
  \/ HandleSome
  \/ Elapse
  \/ Misfortune
  \/ ServiceStep

OutboxSpec == OutboxInit /\ [][OutboxNext]_outboxVars

\* The loop of a live worker polls for ever, an awaited promise settles (the
\* request has a timeout), and time passes.  Nothing is asked of the service.
FairOutboxSpec ==
  /\ OutboxSpec
  /\ WF_outboxVars(Poll)
  /\ WF_outboxVars(HandleSome)
  /\ WF_outboxVars(Elapse)

----------------------------------------------------------------------------
(* Properties *)

\* Every variable has its type, and a row has a lock time only with a lock
\* owner (auth_outbox_events_lock_pair_check, migration 005).
OutboxTypeOK ==
  /\ rows \in [Events -> Row \cup {Null}]
  /\ \A e \in Events : rows[e] # Null /\ rows[e].stale => rows[e].lockedBy # Null
  /\ handlers \subseteq Handler
  /\ running \subseteq Workers
  /\ inProgress \subseteq IdempotencyKey
  /\ accepted \subseteq IdempotencyKey
  /\ conflicts \in [Events -> Nat]
  /\ faults \in Nat

\* At most one handler works on an event at a time, but for one more per
\* crash, database error or overrun: claims of concurrent workers exclude
\* each other, and a claim is released only when its handler is done.
ExclusiveDelivery ==
  \A e \in Events : Cardinality({h \in handlers : h.event = e}) <= 1 + faults

\* An event is attempted more often than MaxAttempts only as often as a
\* crash, a database error or an overrun kept an outcome from being recorded.
AttemptsBounded ==
  \A e \in Events : rows[e] # Null => rows[e].attempts <= MaxAttempts + faults

\* README.md:252, "A stable idempotency key protects ambiguous network
\* retries; the generation advances only when the notification service
\* reports an idempotency conflict": time-outs, crashes and a second worker
\* never mail an event again, only a conflict answer can.
MailsNeedConflicts ==
  \A e \in Events : Cardinality({key \in accepted : key.event = e}) <= 1 + conflicts[e]

\* README.md:254: the token is removed when the event is published or
\* dead-lettered, and not before, since a retry has to mail it.
TokenKeptUntilSettled ==
  \A e \in TokenEvents : rows[e] # Null => (rows[e].hasToken <=> Pending(e))

\* No late worker, whose claim was lost, touches a settled event.
SettledRowsFrozen ==
  [][\A e \in Events :
       rows[e] # Null /\ ~Pending(e) => rows'[e] = rows[e]]_outboxVars

\* Every event is in the end published or dead-lettered, whatever the
\* e-mail service answers, when crashes and errors stop.
EveryEventSettles ==
  \A e \in Events : rows[e] # Null ~> rows[e] # Null /\ ~Pending(e)

StatusOf(e) ==
  CASE rows[e] = Null -> "none"
    [] Pending(e) -> "pending"
    [] rows[e] # Null /\ rows[e].published -> "published"
    [] OTHER -> "deadLettered"

Statuses == [e \in Events |-> StatusOf(e)]
MailedEvents == {key.event : key \in accepted}

Contract == INSTANCE OutboxContract WITH status <- Statuses, mailed <- MailedEvents

\* The workers and the repository implement the contract.
ImplementsContract == Contract!ContractSpec

\* README.md:252 again: a retry after an ambiguous failure does not mail the
\* event twice.
MailedOnce ==
  \A e \in Events : Cardinality({key \in accepted : key.event = e}) <= 1

=============================================================================
