-------------------------- MODULE EmailOutbox_proofs --------------------------
(***************************************************************************)
(* Proofs about EmailOutbox, for any events, workers, batch size, maximum  *)
(* of attempts and number of faults.                                       *)
(***************************************************************************)
EXTENDS EmailOutbox, FiniteSetTheorems, TLAPS

USE OutboxSettingsAssumption

----------------------------------------------------------------------------
(* What a step does to one row and to one handler *)

RowStep(e) ==
  \/ rows'[e] = rows[e]
  \/ rows[e] = Null /\ rows'[e] = NewRow(e)
  \/ /\ Pending(e)
     /\ \/ \E w \in Workers : rows'[e] = ClaimedBy(rows[e], w)
        \/ rows'[e] = PublishedRow(rows[e])
        \/ \E p \in BOOLEAN, a \in BOOLEAN : rows'[e] = FailedRow(rows[e], p, a)
        \/ rows'[e] = [rows[e] EXCEPT !.due = TRUE]
        \/ rows[e].lockedBy # Null /\ rows'[e] = [rows[e] EXCEPT !.stale = TRUE]

Moved(h, stage) == [h EXCEPT !.stage = stage]
Unawaited(h) == [h EXCEPT !.awaited = FALSE]

HandlerStep(g) ==
  \/ g \in handlers
  \/ \E h \in handlers : g = Unawaited(h)
  \/ \E h \in handlers, stage \in Stage :
       g = Moved(h, stage) /\ (stage = "publish" => KeyOf(h) \in accepted)
  \/ \E e \in Events, w \in Workers : Pending(e) /\ g = NewHandler(e, w)

Tables == rows \in [Events -> Row \cup {Null}] /\ handlers \subseteq Handler

LEMMA ClaimedRowType ==
  ASSUME NEW row \in Row, NEW w \in Workers
  PROVE  ClaimedBy(row, w) \in Row
<1> DEFINE n == row.attempts + 1
<1>1. n \in Nat
  BY DEF Row
<1>2. ClaimedBy(row, w) = [row EXCEPT !.attempts = n, !.lockedBy = w, !.stale = FALSE]
  BY DEF ClaimedBy
<1> HIDE DEF n
<1> QED
  BY <1>1, <1>2 DEF Row

LEMMA RowOperationTypes ==
  ASSUME NEW row \in Row, NEW p \in BOOLEAN, NEW a \in BOOLEAN
  PROVE  /\ PublishedRow(row) \in Row
         /\ FailedRow(row, p, a) \in Row
         /\ [row EXCEPT !.due = TRUE] \in Row
         /\ [row EXCEPT !.stale = TRUE] \in Row
<1>1. FailedRow(row, p, a) \in Row
  <2>1. row.generation + (IF a THEN 1 ELSE 0) \in Nat
    BY DEF Row
  <2>2. (row.hasToken /\ ~p) \in BOOLEAN
    OBVIOUS
  <2> QED
    BY <2>1, <2>2 DEF FailedRow, Row
<1>2. PublishedRow(row) \in Row
  BY DEF PublishedRow, Row
<1>3. [row EXCEPT !.due = TRUE] \in Row
  BY DEF Row
<1>4. [row EXCEPT !.stale = TRUE] \in Row
  BY DEF Row
<1> QED
  BY <1>1, <1>2, <1>3, <1>4

\* The columns the row operations write.
LEMMA ClaimedColumns ==
  ASSUME NEW row \in Row, NEW w \in Workers
  PROVE  /\ ClaimedBy(row, w) \in Row
         /\ ClaimedBy(row, w).attempts = row.attempts + 1
         /\ ClaimedBy(row, w).lockedBy = w
         /\ ClaimedBy(row, w).stale = FALSE
         /\ ClaimedBy(row, w).published = row.published
         /\ ClaimedBy(row, w).failed = row.failed
<1> DEFINE n == row.attempts + 1
<1>1. ClaimedBy(row, w) = [row EXCEPT !.attempts = n, !.lockedBy = w, !.stale = FALSE]
  BY DEF ClaimedBy
<1>2. ClaimedBy(row, w) \in Row
  BY ClaimedRowType
<1> HIDE DEF n
<1>3. /\ ClaimedBy(row, w).attempts = n
      /\ ClaimedBy(row, w).lockedBy = w
      /\ ClaimedBy(row, w).stale = FALSE
      /\ ClaimedBy(row, w).published = row.published
      /\ ClaimedBy(row, w).failed = row.failed
  BY <1>1 DEF Row
<1> QED
  BY <1>2, <1>3 DEF n

LEMMA PublishedColumns ==
  ASSUME NEW row \in Row
  PROVE  /\ PublishedRow(row) \in Row
         /\ PublishedRow(row).attempts = row.attempts
         /\ PublishedRow(row).lockedBy = Null
         /\ PublishedRow(row).published = TRUE
<1>1. PublishedRow(row) \in Row
  BY RowOperationTypes
<1>2. /\ PublishedRow(row).attempts = row.attempts
      /\ PublishedRow(row).lockedBy = Null
      /\ PublishedRow(row).published = TRUE
  BY DEF PublishedRow, Row
<1> QED
  BY <1>1, <1>2

LEMMA FailedColumns ==
  ASSUME NEW row \in Row, NEW p \in BOOLEAN, NEW a \in BOOLEAN
  PROVE  /\ FailedRow(row, p, a) \in Row
         /\ FailedRow(row, p, a).attempts = row.attempts
         /\ FailedRow(row, p, a).lockedBy = Null
         /\ FailedRow(row, p, a).failed = p
         /\ FailedRow(row, p, a).published = row.published
<1>1. FailedRow(row, p, a) \in Row
  BY RowOperationTypes
<1>2. /\ FailedRow(row, p, a).attempts = row.attempts
      /\ FailedRow(row, p, a).lockedBy = Null
      /\ FailedRow(row, p, a).failed = p
      /\ FailedRow(row, p, a).published = row.published
  BY DEF FailedRow, Row
<1> QED
  BY <1>1, <1>2

LEMMA ClockColumns ==
  ASSUME NEW row \in Row,
         NEW next \in {[row EXCEPT !.due = TRUE], [row EXCEPT !.stale = TRUE]}
  PROVE  /\ next \in Row
         /\ next.attempts = row.attempts
         /\ next.lockedBy = row.lockedBy
         /\ next.published = row.published
         /\ next.failed = row.failed
         /\ next = [row EXCEPT !.due = TRUE] => next.stale = row.stale
         /\ next = [row EXCEPT !.stale = TRUE] => next.stale = TRUE
<1>1. CASE next = [row EXCEPT !.due = TRUE]
  BY <1>1 DEF Row
<1>2. CASE next = [row EXCEPT !.stale = TRUE]
  BY <1>2 DEF Row
<1> QED
  BY <1>1, <1>2

\* The statement of markDeliveryFailed is a FailedRow of its row.
LEMMA RecordsFailureStep ==
  ASSUME Tables, NEW h \in handlers, HoldsClaim(h), RecordsFailure(h)
  PROVE  /\ rows' \in [Events -> Row \cup {Null}]
         /\ \A e \in Events : RowStep(e)
<1> DEFINE p == PermanentlyFailed(h.stage, h.attempts)
           a == AdvancesGeneration(h.stage)
<1>1. h.event \in Events /\ p \in BOOLEAN /\ a \in BOOLEAN
  BY DEF Tables, Handler, PermanentlyFailed, AdvancesGeneration
<1>2. rows' = [rows EXCEPT ![h.event] = FailedRow(rows[h.event], p, a)]
  BY DEF RecordsFailure
<1>3. rows[h.event] \in Row /\ Pending(h.event)
  BY <1>1 DEF HoldsClaim, Pending, Tables
<1> HIDE DEF p, a
<1>4. FailedRow(rows[h.event], p, a) \in Row
  BY <1>1, <1>3, RowOperationTypes
<1> QED
  BY <1>1, <1>2, <1>3, <1>4 DEF RowStep, Tables

\* So is the statement of markPublished, of its row.
LEMMA PublishedStep ==
  ASSUME Tables, NEW h \in handlers, HoldsClaim(h),
         rows' = [rows EXCEPT ![h.event] = PublishedRow(@)]
  PROVE  /\ rows' \in [Events -> Row \cup {Null}]
         /\ \A e \in Events : RowStep(e)
<1>1. h.event \in Events
  BY DEF Tables, Handler
<1>2. rows[h.event] \in Row /\ Pending(h.event)
  BY <1>1 DEF HoldsClaim, Pending, Tables
<1>3. PublishedRow(rows[h.event]) \in Row
  BY <1>2, RowOperationTypes
<1> QED
  BY <1>1, <1>2, <1>3 DEF RowStep, Tables

LEMMA ClaimStep ==
  ASSUME Tables, NEW w \in Workers, NEW batch \in Batches, Claim(w, batch)
  PROVE  /\ rows' \in [Events -> Row \cup {Null}]
         /\ \A e \in Events : RowStep(e)
<1>1. \A e \in batch : e \in Events /\ Pending(e) /\ rows[e] \in Row
  BY DEF Batches, Claimable, Pending, Tables
<1>2. \A e \in batch : ClaimedBy(rows[e], w) \in Row
  BY <1>1, ClaimedRowType
<1>3. \A e \in Events : RowStep(e)
  BY <1>1 DEF Claim, RowStep
<1> QED
  BY <1>1, <1>2, <1>3 DEF Claim, Tables

\* Every step does to every row one of the things RowStep lists.
LEMMA StepsOfRows ==
  ASSUME Tables, OutboxNext
  PROVE  /\ rows' \in [Events -> Row \cup {Null}]
         /\ \A e \in Events : RowStep(e)
<1> DEFINE Goal == /\ rows' \in [Events -> Row \cup {Null}]
                   /\ \A e \in Events : RowStep(e)
<1>0. rows' = rows => Goal
  BY DEF RowStep, Tables
<1> HIDE DEF Goal
<1> SUFFICES Goal
  BY DEF Goal
<1>1. ASSUME NEW e \in Events, EnqueueEvent(e)
      PROVE  Goal
  <2>1. NewRow(e) \in Row
    BY DEF NewRow, Row
  <2> QED
    BY <1>1, <2>1 DEF EnqueueEvent, RowStep, Tables, Goal
<1>2. CASE Poll
  BY <1>2, ClaimStep DEF Poll, ClaimBatch, Goal
<1>3. ASSUME NEW h \in handlers, Handle(h)
      PROVE  Goal
  <2>1. CASE MarkPublished(h)
    BY <2>1, PublishedStep DEF MarkPublished, Goal
  <2>2. CASE MarkDeliveryFailed(h)
    BY <1>0, <2>2, RecordsFailureStep DEF MarkDeliveryFailed, Goal
  <2>3. CASE MapRejects(h) \/ RequestTaken(h) \/ RequestConflicts(h)
    BY <1>0, <2>3 DEF MapRejects, RequestTaken, RequestConflicts
  <2>4. CASE RequestGivenUp(h) \/ RequestTimesOut(h) \/ RequestSucceeds(h) \/ ClaimWasLost(h)
    BY <1>0, <2>4 DEF RequestGivenUp, RequestTimesOut, RequestSucceeds, ClaimWasLost
  <2>5. CASE \E failure \in {"retryable", "rejected"} : RequestRefused(h, failure)
    BY <1>0, <2>5 DEF RequestRefused
  <2> QED
    BY <1>3, <2>1, <2>2, <2>3, <2>4, <2>5 DEF Handle
<1>4. ASSUME NEW e \in Events, BecomesDue(e)
      PROVE  Goal
  <2>1. rows[e] \in Row
    BY <1>4 DEF BecomesDue, Pending, Tables
  <2>2. [rows[e] EXCEPT !.due = TRUE] \in Row
    BY <2>1, RowOperationTypes
  <2> QED
    BY <1>4, <2>1, <2>2 DEF BecomesDue, RowStep, Tables, Goal
<1>5. ASSUME NEW e \in Events, ClaimExpires(e)
      PROVE  Goal
  <2>1. rows[e] \in Row
    BY <1>5 DEF ClaimExpires, Pending, Tables
  <2>2. [rows[e] EXCEPT !.stale = TRUE] \in Row
    BY <2>1, RowOperationTypes
  <2> QED
    BY <1>5, <2>1, <2>2 DEF ClaimExpires, RowStep, Tables, Goal
<1>6. ASSUME NEW w \in Workers, Crash(w)
      PROVE  Goal
  BY <1>0, <1>6 DEF Crash
<1>7. ASSUME NEW w \in Workers, NEW batch \in Batches, ClaimError(w, batch)
      PROVE  Goal
  BY <1>7, ClaimStep DEF ClaimError, Goal
<1>8. ASSUME NEW h \in handlers, MarkPublishedError(h)
      PROVE  Goal
  BY <1>0, <1>8, PublishedStep DEF MarkPublishedError, Goal
<1>9. ASSUME NEW h \in handlers, MarkDeliveryFailedError(h)
      PROVE  Goal
  BY <1>0, <1>9, RecordsFailureStep DEF MarkDeliveryFailedError, Goal
<1>10. CASE ServiceStep
  BY <1>0, <1>10 DEF ServiceStep, ServiceAccepts, ServiceGivesUp
<1> QED
  BY <1>1, <1>2, <1>3, <1>4, <1>5, <1>6, <1>7, <1>8, <1>9, <1>10
     DEF OutboxNext, HandleSome, Elapse, Misfortune

\* A late worker, whose claim was lost, never touches a settled row.
LEMMA SettledStep ==
  ASSUME NEW e \in Events, RowStep(e), rows[e] # Null, ~Pending(e)
  PROVE  rows'[e] = rows[e]
BY DEF RowStep

LEMMA MovesToStep ==
  ASSUME NEW h \in handlers, NEW stage \in Stage, MovesTo(h, stage),
         stage = "publish" => KeyOf(h) \in accepted
  PROVE  \A g \in handlers' : HandlerStep(g)
BY DEF MovesTo, HandlerStep, Moved

LEMMA StepsOfHandlers ==
  ASSUME Tables, OutboxNext, NEW g \in handlers'
  PROVE  HandlerStep(g)
<1>0. handlers' \subseteq handlers => HandlerStep(g)
  BY DEF HandlerStep
<1>1. CASE Poll
  <2>1. PICK w \in Workers, batch \in Batches : ClaimBatch(w, batch)
    BY <1>1 DEF Poll
  <2>2. \A e \in batch : e \in Events /\ Pending(e)
    BY DEF Batches, Claimable
  <2> QED
    BY <2>1, <2>2 DEF ClaimBatch, HandlerStep
<1>2. ASSUME NEW h \in handlers, Handle(h)
      PROVE  HandlerStep(g)
  <2>0. ASSUME NEW stage \in Stage \ {"publish"}, MovesTo(h, stage)
        PROVE  HandlerStep(g)
    BY <2>0, MovesToStep
  <2>1. CASE MapRejects(h) \/ RequestTaken(h) \/ RequestConflicts(h)
    BY <2>0, <2>1 DEF MapRejects, RequestTaken, RequestConflicts, Stage, Failure
  <2>2. CASE RequestGivenUp(h) \/ RequestTimesOut(h) \/ ClaimWasLost(h)
    BY <2>0, <2>2 DEF RequestGivenUp, RequestTimesOut, ClaimWasLost, Stage, Failure
  <2>3. CASE \E failure \in {"retryable", "rejected"} : RequestRefused(h, failure)
    BY <2>0, <2>3 DEF RequestRefused, Stage, Failure
  <2>4. CASE RequestSucceeds(h)
    BY <2>4, MovesToStep DEF RequestSucceeds, IsOk, Stage
  <2>5. CASE MarkPublished(h) \/ MarkDeliveryFailed(h)
    BY <1>0, <2>5 DEF MarkPublished, MarkDeliveryFailed
  <2> QED
    BY <1>2, <2>1, <2>2, <2>3, <2>4, <2>5 DEF Handle
<1>3. ASSUME NEW h \in handlers, MarkPublishedError(h)
      PROVE  HandlerStep(g)
  BY <1>3, MovesToStep DEF MarkPublishedError, Stage, Failure
<1>4. ASSUME NEW h \in handlers, MarkDeliveryFailedError(h)
      PROVE  HandlerStep(g)
  BY <1>4 DEF MarkDeliveryFailedError, HandlerStep, Unawaited
<1>5. CASE (\E e \in Events : EnqueueEvent(e)) \/ Elapse \/ ServiceStep
  BY <1>0, <1>5 DEF EnqueueEvent, Elapse, BecomesDue, ClaimExpires,
                    ServiceStep, ServiceAccepts, ServiceGivesUp
<1>6. ASSUME NEW w \in Workers, Crash(w) \/ \E batch \in Batches : ClaimError(w, batch)
      PROVE  HandlerStep(g)
  BY <1>0, <1>6 DEF Crash, ClaimError
<1> QED
  BY <1>1, <1>2, <1>3, <1>4, <1>5, <1>6 DEF OutboxNext, HandleSome, Misfortune

\* The service works only under keys of handlers, and accepts only those.
LEMMA StepsOfService ==
  ASSUME Tables, OutboxNext
  PROVE  /\ inProgress' \subseteq inProgress \cup {KeyOf(h) : h \in handlers}
         /\ accepted' \subseteq accepted \cup inProgress
         /\ accepted \subseteq accepted'
<1> DEFINE Goal == /\ inProgress' \subseteq inProgress \cup {KeyOf(h) : h \in handlers}
                   /\ accepted' \subseteq accepted \cup inProgress
                   /\ accepted \subseteq accepted'
<1>0. UNCHANGED <<inProgress, accepted>> => Goal
  OBVIOUS
<1> HIDE DEF Goal
<1> SUFFICES Goal
  BY DEF Goal
<1>1. ASSUME NEW h \in handlers, RequestTaken(h)
      PROVE  Goal
  BY <1>1 DEF RequestTaken, Goal
<1>2. CASE ServiceStep
  BY <1>2 DEF ServiceStep, ServiceAccepts, ServiceGivesUp, Goal
<1>3. ASSUME NEW h \in handlers, Handle(h), ~RequestTaken(h)
      PROVE  UNCHANGED <<inProgress, accepted>>
  BY <1>3 DEF Handle, ServiceUnchanged, MapRejects, RequestConflicts, RequestRefused,
              RequestGivenUp, RequestTimesOut, RequestSucceeds, MarkPublished,
              ClaimWasLost, MarkDeliveryFailed
<1>4. CASE (\E e \in Events : EnqueueEvent(e)) \/ Poll \/ Elapse \/ Misfortune
  BY <1>0, <1>4 DEF EnqueueEvent, Poll, ClaimBatch, Elapse, BecomesDue, ClaimExpires,
                    Misfortune, Crash, ClaimError, MarkPublishedError,
                    MarkDeliveryFailedError, ServiceUnchanged
<1> QED
  BY <1>0, <1>1, <1>2, <1>3, <1>4 DEF OutboxNext, HandleSome

----------------------------------------------------------------------------
(* Type correctness and the invariant behind the contract *)

\* Work is done only for events that were enqueued, and an event is about to
\* be marked published only when the service has accepted its mail.
WorkIsRecorded ==
  /\ \A h \in handlers : rows[h.event] # Null
  /\ \A key \in inProgress \cup accepted : rows[key.event] # Null
  /\ \A h \in handlers : h.stage = "publish" => KeyOf(h) \in accepted

LockPairs == \A e \in Events : rows[e] # Null /\ rows[e].stale => rows[e].lockedBy # Null

LEMMA HandlerStepType ==
  ASSUME Tables, NEW g, HandlerStep(g)
  PROVE  g \in Handler
<1>1. ASSUME NEW h \in handlers, NEW stage \in Stage
      PROVE  Moved(h, stage) \in Handler
  BY DEF Tables, Handler, Moved
<1>2. ASSUME NEW h \in handlers
      PROVE  Unawaited(h) \in Handler
  BY DEF Tables, Handler, Unawaited
<1>3. ASSUME NEW e \in Events, NEW w \in Workers, Pending(e)
      PROVE  NewHandler(e, w) \in Handler
  <2>1. rows[e] \in Row
    BY <1>3 DEF Pending, Tables
  <2>2. rows[e].attempts + 1 \in Nat /\ rows[e].generation \in Nat
    BY <2>1 DEF Row
  <2> QED
    BY <2>2 DEF NewHandler, Handler, Stage
<1> QED
  BY <1>1, <1>2, <1>3 DEF HandlerStep, Tables

LEMMA InitTyped == OutboxInit => OutboxTypeOK /\ WorkIsRecorded
BY DEF OutboxInit, OutboxTypeOK, WorkIsRecorded

LEMMA LockPairStep ==
  ASSUME NEW e \in Events, RowStep(e), rows[e] \in Row \cup {Null},
         rows[e] # Null /\ rows[e].stale => rows[e].lockedBy # Null
  PROVE  rows'[e] # Null /\ rows'[e].stale => rows'[e].lockedBy # Null
<1>1. CASE rows'[e] = rows[e] \/ rows'[e] = NewRow(e)
  BY <1>1 DEF NewRow
<1>2. ASSUME NEW w \in Workers, rows[e] \in Row, rows'[e] = ClaimedBy(rows[e], w)
      PROVE  ~rows'[e].stale
  BY <1>2 DEF ClaimedBy, Row
<1>3. CASE rows[e] \in Row /\ rows'[e] = PublishedRow(rows[e])
  BY <1>3 DEF PublishedRow, Row
<1>4. ASSUME rows[e] \in Row, NEW p \in BOOLEAN, NEW a \in BOOLEAN,
             rows'[e] = FailedRow(rows[e], p, a)
      PROVE  ~rows'[e].stale
  BY <1>4 DEF FailedRow, Row
<1>5. CASE rows[e] \in Row /\ rows'[e] = [rows[e] EXCEPT !.due = TRUE]
  <2>1. rows'[e].stale = rows[e].stale /\ rows'[e].lockedBy = rows[e].lockedBy
    BY <1>5 DEF Row
  <2> QED
    BY <1>5, <2>1, NullRowAssumption
<1>6. CASE rows[e] \in Row /\ rows[e].lockedBy # Null
           /\ rows'[e] = [rows[e] EXCEPT !.stale = TRUE]
  <2>1. rows'[e].lockedBy = rows[e].lockedBy
    BY <1>6 DEF Row
  <2> QED
    BY <1>6, <2>1
<1> QED
  BY <1>1, <1>2, <1>3, <1>4, <1>5, <1>6 DEF RowStep, Pending

LEMMA NextTyped ==
  ASSUME OutboxTypeOK, OutboxNext
  PROVE  OutboxTypeOK'
<1>1. Tables
  BY DEF OutboxTypeOK, Tables
<1>2. rows' \in [Events -> Row \cup {Null}]
  BY <1>1, StepsOfRows
<1>3. ASSUME NEW e \in Events
      PROVE  rows'[e] # Null /\ rows'[e].stale => rows'[e].lockedBy # Null
  BY <1>1, StepsOfRows, LockPairStep DEF OutboxTypeOK
<1>4. handlers' \subseteq Handler
  BY <1>1, StepsOfHandlers, HandlerStepType
<1>5. running' \subseteq Workers
  BY DEF OutboxTypeOK, OutboxNext, EnqueueEvent, Poll, ClaimBatch, HandleSome, Handle,
         MapRejects, RequestTaken, RequestConflicts, RequestRefused, RequestGivenUp,
         RequestTimesOut, RequestSucceeds, MarkPublished, ClaimWasLost, MarkDeliveryFailed,
         Elapse, BecomesDue, ClaimExpires, Misfortune, Crash, ClaimError,
         MarkPublishedError, MarkDeliveryFailedError, ServiceStep, ServiceAccepts, ServiceGivesUp
<1>6. \A h \in handlers : KeyOf(h) \in IdempotencyKey
  BY <1>1 DEF Tables, Handler, KeyOf, IdempotencyKey
<1>7. inProgress' \subseteq IdempotencyKey /\ accepted' \subseteq IdempotencyKey
  BY <1>1, <1>6, StepsOfService DEF OutboxTypeOK
<1>8. conflicts' \in [Events -> Nat]
  BY <1>1 DEF OutboxTypeOK, Tables, Handler, OutboxNext, EnqueueEvent, Poll, ClaimBatch,
         HandleSome, Handle,
         MapRejects, RequestTaken, RequestConflicts, RequestRefused, RequestGivenUp,
         RequestTimesOut, RequestSucceeds, MarkPublished, ClaimWasLost, MarkDeliveryFailed,
         Elapse, BecomesDue, ClaimExpires, Misfortune, Crash, ClaimError,
         MarkPublishedError, MarkDeliveryFailedError, ServiceStep, ServiceAccepts, ServiceGivesUp
<1>9. faults' \in Nat
  BY DEF OutboxTypeOK, Fault, OutboxNext, EnqueueEvent, Poll, ClaimBatch, HandleSome, Handle,
         MapRejects, RequestTaken, RequestConflicts, RequestRefused, RequestGivenUp,
         RequestTimesOut, RequestSucceeds, MarkPublished, ClaimWasLost, MarkDeliveryFailed,
         Elapse, BecomesDue, ClaimExpires, Misfortune, Crash, ClaimError,
         MarkPublishedError, MarkDeliveryFailedError, ServiceStep, ServiceAccepts, ServiceGivesUp
<1> QED
  BY <1>2, <1>3, <1>4, <1>5, <1>7, <1>8, <1>9 DEF OutboxTypeOK

LEMMA UnchangedTyped ==
  ASSUME OutboxTypeOK /\ WorkIsRecorded, UNCHANGED outboxVars
  PROVE  OutboxTypeOK' /\ WorkIsRecorded'
BY DEF outboxVars, OutboxTypeOK, WorkIsRecorded, KeyOf

\* No statement deletes a row.
LEMMA RowStays ==
  ASSUME NEW e \in Events, RowStep(e), rows[e] \in Row
  PROVE  rows'[e] \in Row
BY ClaimedRowType, RowOperationTypes, NullRowAssumption DEF RowStep

LEMMA NextRecorded ==
  ASSUME OutboxTypeOK, WorkIsRecorded, OutboxNext
  PROVE  WorkIsRecorded'
<1>1. Tables
  BY DEF OutboxTypeOK, Tables
<1>2. \A e \in Events : rows[e] # Null => rows'[e] # Null
  BY <1>1, StepsOfRows, RowStays, NullRowAssumption DEF Tables
<1>3. ASSUME NEW g \in handlers'
      PROVE  /\ rows'[g.event] # Null
             /\ g.stage = "publish" => KeyOf(g) \in accepted'
  <2>0. accepted \subseteq accepted'
    BY <1>1, StepsOfService
  <2>1. ASSUME NEW h \in handlers, g = h \/ g = Unawaited(h)
        PROVE  g.event = h.event /\ g.stage = h.stage /\ KeyOf(g) = KeyOf(h)
    BY <1>1, <2>1 DEF Tables, Handler, Unawaited, KeyOf
  <2>2. ASSUME NEW h \in handlers, NEW stage \in Stage, g = Moved(h, stage)
        PROVE  g.event = h.event /\ g.stage = stage /\ KeyOf(g) = KeyOf(h)
    BY <1>1, <2>2 DEF Tables, Handler, Moved, KeyOf
  <2>3. ASSUME NEW e \in Events, NEW w \in Workers, g = NewHandler(e, w)
        PROVE  g.event = e /\ g.stage = "send"
    BY <2>3 DEF NewHandler
  <2>4. \A h \in handlers : h.event \in Events
    BY <1>1 DEF Tables, Handler
  <2>5. HandlerStep(g)
    BY <1>1, StepsOfHandlers
  <2> QED
    BY <1>2, <2>0, <2>1, <2>2, <2>3, <2>4, <2>5 DEF HandlerStep, WorkIsRecorded, Pending
<1>4. ASSUME NEW key \in inProgress' \cup accepted'
      PROVE  rows'[key.event] # Null
  <2>1. ASSUME NEW h \in handlers, key = KeyOf(h)
        PROVE  key.event = h.event /\ h.event \in Events
    BY <1>1, <2>1 DEF KeyOf, Tables, Handler
  <2>2. key \in inProgress \cup accepted \/ \E h \in handlers : key = KeyOf(h)
    BY <1>1, StepsOfService
  <2>3. key \in inProgress \cup accepted => key.event \in Events
    BY DEF OutboxTypeOK, IdempotencyKey
  <2> QED
    BY <1>2, <2>1, <2>2, <2>3 DEF WorkIsRecorded
<1> QED
  BY <1>3, <1>4 DEF WorkIsRecorded

Inductive == OutboxTypeOK /\ WorkIsRecorded

LEMMA InductiveHolds == OutboxSpec => []Inductive
<1>1. OutboxInit => Inductive
  BY InitTyped DEF Inductive
<1>2. Inductive /\ [OutboxNext]_outboxVars => Inductive'
  BY NextTyped, NextRecorded, UnchangedTyped DEF Inductive
<1> QED
  BY <1>1, <1>2, PTL DEF OutboxSpec

\* Every reachable state of the outbox and its workers is well typed, and the
\* lock columns of every row agree, for any number of workers and faults.
THEOREM OutboxTypeCorrect == OutboxSpec => []OutboxTypeOK
<1>1. Inductive => OutboxTypeOK
  BY DEF Inductive
<1> QED
  BY <1>1, InductiveHolds, PTL

\* No step of any worker, however late, changes a settled row.
THEOREM SettledRowsStayFrozen == OutboxSpec => SettledRowsFrozen
<1>1. ASSUME Inductive, OutboxNext
      PROVE  \A e \in Events : rows[e] # Null /\ ~Pending(e) => rows'[e] = rows[e]
  BY <1>1, StepsOfRows, SettledStep DEF Inductive, OutboxTypeOK, Tables
<1>2. Inductive /\ [OutboxNext]_outboxVars =>
        [\A e \in Events : rows[e] # Null /\ ~Pending(e) => rows'[e] = rows[e]]_outboxVars
  BY <1>1
<1> QED
  BY <1>2, InductiveHolds, PTL DEF OutboxSpec, SettledRowsFrozen

LEMMA TokenStep ==
  ASSUME NEW e \in TokenEvents, RowStep(e), rows[e] \in Row \cup {Null},
         rows[e] # Null => (rows[e].hasToken <=> Pending(e))
  PROVE  rows'[e] # Null => (rows'[e].hasToken <=> Pending(e)')
<1>1. CASE rows'[e] = rows[e]
  BY <1>1 DEF Pending
<1>2. CASE rows'[e] = NewRow(e)
  <2>1. NewRow(e).hasToken = (e \in TokenEvents)
    BY Zenon DEF NewRow
  <2>2. ~NewRow(e).published /\ ~NewRow(e).failed
    BY DEF NewRow
  <2> QED
    BY <1>2, <2>1, <2>2 DEF Pending
<1> DEFINE row == rows[e]
<1>3. ASSUME Pending(e)
      PROVE  row \in Row /\ row.hasToken /\ ~row.published /\ ~row.failed
  BY <1>3 DEF Pending
<1>4. ASSUME Pending(e), NEW w \in Workers, rows'[e] = ClaimedBy(row, w)
      PROVE  rows'[e].hasToken /\ ~rows'[e].published /\ ~rows'[e].failed
  BY <1>3, <1>4 DEF ClaimedBy, Row
<1>5. ASSUME Pending(e), rows'[e] = PublishedRow(row)
      PROVE  ~rows'[e].hasToken /\ rows'[e].published
  BY <1>3, <1>5 DEF PublishedRow, Row
<1>6. ASSUME Pending(e), NEW p \in BOOLEAN, NEW a \in BOOLEAN, rows'[e] = FailedRow(row, p, a)
      PROVE  rows'[e].hasToken = ~p /\ ~rows'[e].published /\ rows'[e].failed = p
  BY <1>3, <1>6 DEF FailedRow, Row
<1>7. ASSUME Pending(e), \/ rows'[e] = [row EXCEPT !.due = TRUE]
                         \/ rows'[e] = [row EXCEPT !.stale = TRUE]
      PROVE  rows'[e].hasToken /\ ~rows'[e].published /\ ~rows'[e].failed
  BY <1>3, <1>7 DEF Row
<1> QED
  BY <1>1, <1>2, <1>4, <1>5, <1>6, <1>7 DEF RowStep, Pending

\* The one-time token stays in a row as long as a retry may need it, and is
\* gone once the event is published or dead-lettered.
THEOREM TokensKeptUntilSettled == OutboxSpec => []TokenKeptUntilSettled
<1>1. OutboxInit => TokenKeptUntilSettled
  BY DEF OutboxInit, TokenKeptUntilSettled
<1>2. ASSUME Inductive, TokenKeptUntilSettled, OutboxNext
      PROVE  TokenKeptUntilSettled'
  <2>1. \A e \in Events : RowStep(e) /\ rows[e] \in Row \cup {Null}
    BY <1>2, StepsOfRows DEF Inductive, OutboxTypeOK, Tables
  <2> QED
    BY <1>2, <2>1, TokenStep DEF TokenKeptUntilSettled
<1>3. TokenKeptUntilSettled /\ UNCHANGED outboxVars => TokenKeptUntilSettled'
  BY DEF TokenKeptUntilSettled, Pending, outboxVars
<1> QED
  BY <1>1, <1>2, <1>3, InductiveHolds, PTL DEF OutboxSpec

----------------------------------------------------------------------------
(* The outbox implements its contract *)

LEMMA StatusOfRow ==
  ASSUME NEW e \in Events
  PROVE  /\ (StatusOf(e) = "none") <=> (rows[e] = Null)
         /\ Pending(e) => StatusOf(e) = "pending"
         /\ rows[e] # Null /\ rows[e].published => StatusOf(e) = "published"
         /\ rows[e] # Null /\ ~rows[e].published /\ rows[e].failed => StatusOf(e) = "deadLettered"
BY DEF StatusOf, Pending

\* A row operation that settles nothing leaves the status alone.
LEMMA StatusKept ==
  ASSUME NEW e \in Events, Pending(e), rows[e] \in Row,
         \/ \E w \in Workers : rows'[e] = ClaimedBy(rows[e], w)
         \/ \E a \in BOOLEAN : rows'[e] = FailedRow(rows[e], FALSE, a)
         \/ rows'[e] = [rows[e] EXCEPT !.due = TRUE]
         \/ rows'[e] = [rows[e] EXCEPT !.stale = TRUE]
  PROVE  StatusOf(e)' = StatusOf(e)
<1>1. rows'[e] \in Row
  BY ClaimedRowType, RowOperationTypes
<1>2. ~rows'[e].published /\ ~rows'[e].failed
  <2>1. ~rows[e].published /\ ~rows[e].failed
    BY DEF Pending
  <2>2. ASSUME NEW w \in Workers, rows'[e] = ClaimedBy(rows[e], w)
        PROVE  ~rows'[e].published /\ ~rows'[e].failed
    <3>1. /\ ClaimedBy(rows[e], w).published = rows[e].published
          /\ ClaimedBy(rows[e], w).failed = rows[e].failed
      BY ClaimedColumns
    <3> QED
      BY Zenon, <2>1, <2>2, <3>1
  <2>3. ASSUME NEW a \in BOOLEAN, rows'[e] = FailedRow(rows[e], FALSE, a)
        PROVE  ~rows'[e].published /\ ~rows'[e].failed
    <3>1. /\ FailedRow(rows[e], FALSE, a).published = rows[e].published
          /\ FailedRow(rows[e], FALSE, a).failed = FALSE
      BY FailedColumns
    <3> QED
      BY Zenon, <2>1, <2>3, <3>1
  <2>4. CASE \/ rows'[e] = [rows[e] EXCEPT !.due = TRUE]
             \/ rows'[e] = [rows[e] EXCEPT !.stale = TRUE]
    BY <2>1, <2>4 DEF Row
  <2> QED
    BY <2>2, <2>3, <2>4
<1>3. rows'[e] # Null
  BY <1>1, NullRowAssumption
<1> QED
  BY <1>2, <1>3 DEF StatusOf, Pending

\* The same statuses, the same mails: a stutter of the contract.
LEMMA Stutters ==
  ASSUME \A e \in Events : StatusOf(e)' = StatusOf(e), accepted' = accepted
  PROVE  UNCHANGED Contract!contractVars
BY DEF Contract!contractVars, Statuses, MailedEvents

LEMMA ClaimStutters ==
  ASSUME Tables, NEW w \in Workers, NEW batch \in Batches, Claim(w, batch),
         accepted' = accepted
  PROVE  UNCHANGED Contract!contractVars
<1>1. ASSUME NEW e \in batch
      PROVE  /\ e \in Events /\ Pending(e) /\ rows[e] \in Row
             /\ rows'[e] = ClaimedBy(rows[e], w)
  BY DEF Batches, Claimable, Pending, Tables, Claim
<1>2. ASSUME NEW e \in Events \ batch
      PROVE  StatusOf(e)' = StatusOf(e)
  BY DEF Claim, StatusOf, Pending
<1>3. \A e \in Events : StatusOf(e)' = StatusOf(e)
  BY <1>1, <1>2, StatusKept
<1> QED
  BY <1>3, Stutters

\* One status changes, from pending.
LEMMA OneStatusChanges ==
  ASSUME Tables, NEW e \in Events, Pending(e), NEW row \in Row,
         rows' = [rows EXCEPT ![e] = row]
  PROVE  /\ \A i \in Events \ {e} : StatusOf(i)' = StatusOf(i)
         /\ Statuses' = [Statuses EXCEPT ![e] = StatusOf(e)']
         /\ Statuses[e] = "pending"
<1>1. \A i \in Events \ {e} : StatusOf(i)' = StatusOf(i)
  BY DEF Tables, StatusOf, Pending
<1> QED
  BY <1>1, StatusOfRow DEF Statuses

LEMMA PublishImplementsContract ==
  ASSUME Inductive, NEW h \in handlers, h.stage = "publish", HoldsClaim(h),
         rows' = [rows EXCEPT ![h.event] = PublishedRow(@)], accepted' = accepted
  PROVE  Contract!ContractNext
<1>1. Tables /\ h.event \in Events /\ rows[h.event] \in Row /\ Pending(h.event)
  BY DEF Inductive, OutboxTypeOK, Tables, Handler, HoldsClaim, Pending
<1>2. PublishedRow(rows[h.event]) \in Row /\ PublishedRow(rows[h.event]).published
  <2>1. PublishedRow(rows[h.event]) \in Row
    BY <1>1, RowOperationTypes
  <2>2. PublishedRow(rows[h.event]).published
    BY <1>1 DEF PublishedRow, Row
  <2> QED
    BY <2>1, <2>2
<1>3. rows'[h.event] = PublishedRow(rows[h.event])
  BY <1>1 DEF Tables
<1>4. StatusOf(h.event)' = "published"
  BY <1>2, <1>3, NullRowAssumption DEF StatusOf, Pending
<1>5. h.event \in MailedEvents
  <2>1. KeyOf(h) \in accepted
    BY DEF Inductive, WorkIsRecorded
  <2>2. KeyOf(h).event = h.event
    BY DEF KeyOf
  <2> QED
    BY <2>1, <2>2 DEF MailedEvents
<1>6. MailedEvents' = MailedEvents
  BY DEF MailedEvents
<1>7. Contract!Publish(h.event)
  BY <1>1, <1>2, <1>4, <1>5, <1>6, OneStatusChanges DEF Contract!Publish
<1> QED
  BY <1>1, <1>7 DEF Contract!ContractNext, Contract!Settle

LEMMA FailureImplementsContract ==
  ASSUME Inductive, NEW h \in handlers, HoldsClaim(h), RecordsFailure(h), accepted' = accepted
  PROVE  [Contract!ContractNext]_(Contract!contractVars)
<1> DEFINE p == PermanentlyFailed(h.stage, h.attempts)
           a == AdvancesGeneration(h.stage)
<1>1. Tables /\ h.event \in Events /\ rows[h.event] \in Row /\ Pending(h.event)
  BY DEF Inductive, OutboxTypeOK, Tables, Handler, HoldsClaim, Pending
<1>2. p \in BOOLEAN /\ a \in BOOLEAN
  BY DEF PermanentlyFailed, AdvancesGeneration
<1>3. rows' = [rows EXCEPT ![h.event] = FailedRow(rows[h.event], p, a)]
  BY DEF RecordsFailure
<1> HIDE DEF p, a
<1>4. FailedRow(rows[h.event], p, a) \in Row
  BY <1>1, <1>2, RowOperationTypes
<1>5. rows'[h.event] = FailedRow(rows[h.event], p, a)
  BY <1>1, <1>3 DEF Tables
<1>6. MailedEvents' = MailedEvents
  BY DEF MailedEvents
<1>7. CASE p = FALSE
  <2>1. StatusOf(h.event)' = StatusOf(h.event)
    BY <1>1, <1>2, <1>5, <1>7, StatusKept
  <2>2. \A e \in Events : StatusOf(e)' = StatusOf(e)
    BY <1>1, <1>3, <1>4, <2>1, OneStatusChanges
  <2> QED
    BY <2>2, Stutters
<1>8. CASE p = TRUE
  <2>1. FailedRow(rows[h.event], p, a).failed /\ ~FailedRow(rows[h.event], p, a).published
    BY <1>1, <1>8 DEF FailedRow, Row, Pending
  <2>2. StatusOf(h.event)' = "deadLettered"
    BY <1>4, <1>5, <2>1, NullRowAssumption DEF StatusOf, Pending
  <2>3. Contract!DeadLetter(h.event)
    BY <1>1, <1>3, <1>4, <1>6, <2>2, OneStatusChanges DEF Contract!DeadLetter
  <2> QED
    BY <1>1, <2>3 DEF Contract!ContractNext, Contract!Settle
<1> QED
  BY <1>2, <1>7, <1>8

LEMMA ServiceImplementsContract ==
  ASSUME Inductive, NEW key \in inProgress, ServiceAccepts(key)
  PROVE  Contract!ContractNext
<1>1. key.event \in Events /\ rows[key.event] # Null
  BY DEF Inductive, OutboxTypeOK, IdempotencyKey, WorkIsRecorded
<1>2. Statuses[key.event] # "none"
  BY <1>1, StatusOfRow DEF Statuses
<1>3. MailedEvents' = MailedEvents \cup {key.event}
  BY DEF ServiceAccepts, MailedEvents
<1>4. Statuses' = Statuses
  BY DEF ServiceAccepts, Statuses, StatusOf, Pending
<1>5. Contract!Mail(key.event)
  BY <1>2, <1>3, <1>4 DEF Contract!Mail
<1> QED
  BY <1>1, <1>5 DEF Contract!ContractNext

LEMMA EnqueueImplementsContract ==
  ASSUME Inductive, NEW e \in Events, EnqueueEvent(e)
  PROVE  Contract!ContractNext
<1>1. Tables
  BY DEF Inductive, OutboxTypeOK, Tables
<1>2. NewRow(e) \in Row /\ ~NewRow(e).published /\ ~NewRow(e).failed
  BY DEF NewRow, Row
<1>3. rows'[e] = NewRow(e)
  BY <1>1 DEF EnqueueEvent, Tables
<1>4. StatusOf(e)' = "pending"
  BY <1>2, <1>3, NullRowAssumption DEF StatusOf, Pending
<1>5. \A i \in Events \ {e} : StatusOf(i)' = StatusOf(i)
  BY <1>1 DEF EnqueueEvent, Tables, StatusOf, Pending
<1>6. Statuses' = [Statuses EXCEPT ![e] = "pending"] /\ Statuses[e] = "none"
  BY <1>4, <1>5, StatusOfRow DEF Statuses, EnqueueEvent
<1>7. MailedEvents' = MailedEvents
  BY DEF EnqueueEvent, MailedEvents
<1>8. Contract!Enqueue(e)
  BY <1>6, <1>7 DEF Contract!Enqueue
<1> QED
  BY <1>8 DEF Contract!ContractNext

LEMMA ElapseStutters ==
  ASSUME Inductive, Elapse
  PROVE  UNCHANGED Contract!contractVars
<1>1. PICK e \in Events : BecomesDue(e) \/ ClaimExpires(e)
  BY DEF Elapse
<1>2. Tables /\ Pending(e) /\ rows[e] \in Row
  BY <1>1 DEF Inductive, OutboxTypeOK, Tables, BecomesDue, ClaimExpires, Pending
<1>3. /\ [rows[e] EXCEPT !.due = TRUE] \in Row
      /\ [rows[e] EXCEPT !.stale = TRUE] \in Row
  BY <1>2, RowOperationTypes
<1>4. \/ rows' = [rows EXCEPT ![e] = [rows[e] EXCEPT !.due = TRUE]]
      \/ rows' = [rows EXCEPT ![e] = [rows[e] EXCEPT !.stale = TRUE]]
  BY <1>1 DEF BecomesDue, ClaimExpires
<1>5. \A i \in Events \ {e} : StatusOf(i)' = StatusOf(i)
  BY <1>2, <1>3, <1>4, OneStatusChanges
<1>6. \/ rows'[e] = [rows[e] EXCEPT !.due = TRUE]
      \/ rows'[e] = [rows[e] EXCEPT !.stale = TRUE]
  BY <1>2, <1>4 DEF Tables
<1>7. StatusOf(e)' = StatusOf(e)
  BY <1>2, <1>6, StatusKept
<1>8. accepted' = accepted
  BY <1>1 DEF BecomesDue, ClaimExpires, ServiceUnchanged
<1> QED
  BY <1>5, <1>7, <1>8, Stutters

\* Every step of the outbox is a step of the contract, or a stutter.
LEMMA NextImplementsContract ==
  ASSUME Inductive, OutboxNext
  PROVE  [Contract!ContractNext]_(Contract!contractVars)
<1> DEFINE Goal == [Contract!ContractNext]_(Contract!contractVars)
<1>0. rows' = rows /\ accepted' = accepted => Goal
  BY Stutters DEF StatusOf, Pending
<1> HIDE DEF Goal
<1> SUFFICES Goal
  BY DEF Goal
<1>1. ASSUME NEW e \in Events, EnqueueEvent(e)
      PROVE  Goal
  BY <1>1, EnqueueImplementsContract DEF Goal
<1>2. Tables
  BY DEF Inductive, OutboxTypeOK, Tables
<1>3. ASSUME NEW w \in Workers, NEW batch \in Batches,
             ClaimBatch(w, batch) \/ ClaimError(w, batch)
      PROVE  Goal
  BY <1>2, <1>3, ClaimStutters DEF ClaimBatch, ClaimError, Goal
<1>4. CASE Elapse
  BY <1>4, ElapseStutters DEF Goal
<1>5. ASSUME NEW h \in handlers, MarkPublished(h) \/ MarkPublishedError(h)
      PROVE  Goal
  <2>1. h.stage = "publish" /\ accepted' = accepted
    BY <1>5 DEF MarkPublished, MarkPublishedError, ServiceUnchanged
  <2>2. \/ rows' = rows
        \/ HoldsClaim(h) /\ rows' = [rows EXCEPT ![h.event] = PublishedRow(@)]
    BY <1>5 DEF MarkPublished, MarkPublishedError
  <2> QED
    BY <1>0, <2>1, <2>2, PublishImplementsContract DEF Goal
<1>6. ASSUME NEW h \in handlers, MarkDeliveryFailed(h) \/ MarkDeliveryFailedError(h)
      PROVE  Goal
  <2>1. accepted' = accepted /\ (rows' = rows \/ (HoldsClaim(h) /\ RecordsFailure(h)))
    BY <1>6 DEF MarkDeliveryFailed, MarkDeliveryFailedError, ServiceUnchanged
  <2> QED
    BY <1>0, <2>1, FailureImplementsContract DEF Goal
<1>7. ASSUME NEW h \in handlers, Handle(h), ~MarkPublished(h), ~MarkDeliveryFailed(h)
      PROVE  Goal
  <2>1. rows' = rows /\ accepted' = accepted
    BY <1>7 DEF Handle, ServiceUnchanged, MapRejects, RequestTaken, RequestConflicts,
                RequestRefused, RequestGivenUp, RequestTimesOut, RequestSucceeds, ClaimWasLost
  <2> QED
    BY <1>0, <2>1
<1>8. ASSUME NEW key \in inProgress, ServiceAccepts(key)
      PROVE  Goal
  BY <1>8, ServiceImplementsContract DEF Goal
<1>9. ASSUME NEW key \in inProgress, ServiceGivesUp(key)
      PROVE  Goal
  BY <1>0, <1>9 DEF ServiceGivesUp
<1>10. ASSUME NEW w \in Workers, Crash(w)
       PROVE  Goal
  BY <1>0, <1>10 DEF Crash, ServiceUnchanged
<1> QED
  BY <1>1, <1>3, <1>4, <1>5, <1>6, <1>7, <1>8, <1>9, <1>10
     DEF OutboxNext, Poll, HandleSome, Misfortune, ServiceStep

\* The outbox refines the safety part of its contract, for any number of
\* events, workers, attempts and faults: nothing is published whose mail was
\* not accepted, and what is published or dead-lettered stays so.
THEOREM ImplementsContractSafety ==
  OutboxSpec => Contract!ContractInit /\ [][Contract!ContractNext]_(Contract!contractVars)
<1>1. OutboxInit => Contract!ContractInit
  BY DEF OutboxInit, Contract!ContractInit, Statuses, StatusOf, MailedEvents, Pending
<1>2. UNCHANGED outboxVars => UNCHANGED Contract!contractVars
  BY Stutters DEF outboxVars, StatusOf, Pending
<1>3. Inductive /\ [OutboxNext]_outboxVars => [Contract!ContractNext]_(Contract!contractVars)
  BY <1>2, NextImplementsContract
<1> QED
  BY <1>1, <1>3, InductiveHolds, PTL DEF OutboxSpec

----------------------------------------------------------------------------
(* Claims and their handlers *)

\* A handler is known by its event and by the number of its attempt.  These
\* are the numbers at work on e, and among those in set.
NumbersIn(set, e) == {h.attempts : h \in {g \in set : g.event = e}}
Numbers(e) == NumbersIn(handlers, e)

\* The claim of e runs, and its handler is at work.
Held(e) == rows[e] # Null /\ rows[e].lockedBy # Null /\ ~rows[e].stale
InUse(e) == Held(e) /\ rows[e].attempts \in Numbers(e)

\* The numbers whose claim has ended.
Strays(e) == IF Held(e) THEN Numbers(e) \ {rows[e].attempts} ELSE Numbers(e)

\* No two handlers are the same attempt, none is ahead of its row, and the
\* newest is the one the claim was made for.
Numbered ==
  \A g, h \in handlers : g.event = h.event /\ g.attempts = h.attempts => g = h

NotAhead ==
  \A h \in handlers :
    /\ h.attempts <= rows[h.event].attempts
    /\ rows[h.event].lockedBy # Null /\ h.attempts = rows[h.event].attempts
         => h.worker = rows[h.event].lockedBy

LockedIsPending == \A e \in Events : rows[e] # Null /\ rows[e].lockedBy # Null => Pending(e)

ClaimsOrdered == Inductive /\ Numbered /\ NotAhead /\ LockedIsPending

\* The handlers of the next state are those of set, at another stage or no
\* longer awaited.
Relabels(set) ==
  \E f \in [set -> Handler] :
    /\ handlers' = {f[h] : h \in set}
    /\ \A h \in set : /\ f[h].event = h.event
                      /\ f[h].worker = h.worker
                      /\ f[h].attempts = h.attempts

LEMMA SubsetRelabels ==
  ASSUME Tables, NEW set \in SUBSET handlers, handlers' = set
  PROVE  Relabels(set)
<1> DEFINE f == [h \in set |-> h]
<1>1. f \in [set -> Handler] /\ handlers' = {f[h] : h \in set}
  BY DEF Tables
<1>2. \A h \in set : f[h] = h
  OBVIOUS
<1> HIDE DEF f
<1>3. \A h \in set : /\ f[h].event = h.event
                     /\ f[h].worker = h.worker
                     /\ f[h].attempts = h.attempts
  BY <1>2
<1> QED
  BY Zenon, <1>1, <1>3 DEF Relabels

LEMMA MoveRelabels ==
  ASSUME Tables, NEW h \in handlers, NEW stage \in Stage, MovesTo(h, stage)
  PROVE  Relabels(handlers)
<1> DEFINE moved == Moved(h, stage)
           f     == [g \in handlers |-> IF g = h THEN moved ELSE g]
<1>1. /\ moved \in Handler /\ moved.event = h.event
      /\ moved.worker = h.worker /\ moved.attempts = h.attempts
  BY DEF Tables, Handler, Moved
<1>2. handlers' = (handlers \ {h}) \cup {moved}
  BY DEF MovesTo, Moved
<1> HIDE DEF moved
<1>3. f \in [handlers -> Handler]
  BY <1>1 DEF Tables
<1>4. f[h] = moved /\ \A g \in handlers \ {h} : f[g] = g
  OBVIOUS
<1> HIDE DEF f
<1>5. handlers' = {f[g] : g \in handlers}
  BY <1>2, <1>4
<1> QED
  BY <1>1, <1>3, <1>4, <1>5 DEF Relabels

LEMMA RejectionRelabels ==
  ASSUME Tables, NEW h \in handlers,
         handlers' = {IF g.worker = h.worker THEN [g EXCEPT !.awaited = FALSE] ELSE g :
                        g \in handlers \ {h}}
  PROVE  Relabels(handlers \ {h})
<1> DEFINE f == [g \in handlers \ {h} |-> IF g.worker = h.worker THEN Unawaited(g) ELSE g]
<1>1. \A g \in handlers : /\ Unawaited(g) \in Handler
                          /\ Unawaited(g).event = g.event
                          /\ Unawaited(g).worker = g.worker
                          /\ Unawaited(g).attempts = g.attempts
  BY DEF Tables, Handler, Unawaited
<1>2. handlers' = {f[g] : g \in handlers \ {h}}
  BY DEF Unawaited
<1>3. f \in [handlers \ {h} -> Handler]
  BY <1>1 DEF Tables
<1>4. \A g \in handlers \ {h} : f[g] = g \/ f[g] = Unawaited(g)
  OBVIOUS
<1> HIDE DEF f
<1>5. \A g \in handlers \ {h} : /\ f[g].event = g.event
                                /\ f[g].worker = g.worker
                                /\ f[g].attempts = g.attempts
  BY <1>1, <1>4
<1> QED
  BY Zenon, <1>2, <1>3, <1>5 DEF Relabels

LEMMA RelabelledNumbers ==
  ASSUME NEW set \in SUBSET handlers, Relabels(set), NEW e
  PROVE  Numbers(e)' = NumbersIn(set, e)
<1>1. PICK f \in [set -> Handler] :
        /\ handlers' = {f[h] : h \in set}
        /\ \A h \in set : /\ f[h].event = h.event
                          /\ f[h].worker = h.worker
                          /\ f[h].attempts = h.attempts
  BY DEF Relabels
<1> QED
  BY <1>1 DEF Numbers, NumbersIn

LEMMA RemovedNumbers ==
  ASSUME Numbered, NEW h \in handlers, NEW e
  PROVE  /\ NumbersIn(handlers \ {h}, h.event) = Numbers(h.event) \ {h.attempts}
         /\ e # h.event => NumbersIn(handlers \ {h}, e) = Numbers(e)
         /\ h.attempts \in Numbers(h.event)
BY DEF Numbered, Numbers, NumbersIn

\* What a step does to the claim of e, to the numbers at work on it and to
\* the count of faults.
SameClaim(e) ==
  /\ rows'[e] = Null <=> rows[e] = Null
  /\ rows[e] # Null => /\ rows'[e].attempts = rows[e].attempts
                       /\ Held(e)' <=> Held(e)
                       /\ Pending(e)' <=> Pending(e)

EndedClaim(e) ==
  /\ Pending(e)
  /\ rows'[e] # Null
  /\ rows'[e].attempts = rows[e].attempts
  /\ ~Held(e)'

Idles(e) == SameClaim(e) /\ Numbers(e)' = Numbers(e) /\ faults' >= faults

Enqueues(e) ==
  /\ rows[e] = Null /\ rows'[e] # Null
  /\ rows'[e].attempts = 0 /\ ~Held(e)'
  /\ Numbers(e)' = Numbers(e) /\ faults' = faults

Claims(e) ==
  /\ Pending(e) /\ ~Held(e)
  /\ rows'[e] # Null /\ Held(e)'
  /\ rows'[e].attempts = rows[e].attempts + 1
  /\ \/ Numbers(e)' = Numbers(e) \cup {rows[e].attempts + 1} /\ faults' = faults
     \/ Numbers(e)' = Numbers(e) /\ faults' = faults + 1

Releases(e) ==
  /\ EndedClaim(e)
  /\ \E n \in Numbers(e) : /\ Pending(e)' => n < MaxAttempts
                           /\ Numbers(e)' = Numbers(e) \ {n}
  /\ faults' >= faults

Settles(e) ==
  /\ EndedClaim(e) /\ ~Pending(e)'
  /\ Numbers(e)' = Numbers(e) /\ faults' = faults + 1

Loses(e) ==
  /\ SameClaim(e) /\ faults' = faults
  /\ \E n \in Strays(e) : Numbers(e)' = Numbers(e) \ {n}

Drops(e) == SameClaim(e) /\ faults' = faults + 1 /\ Numbers(e)' \subseteq Numbers(e)

Expires(e) ==
  /\ EndedClaim(e) /\ Pending(e)'
  /\ Numbers(e)' = Numbers(e)
  /\ (faults' = faults /\ ~InUse(e)) \/ faults' = faults + 1

EventStep(e) ==
  \/ Idles(e) \/ Enqueues(e) \/ Claims(e) \/ Releases(e)
  \/ Settles(e) \/ Loses(e) \/ Drops(e) \/ Expires(e)

LEMMA RowsInPlace ==
  ASSUME NEW e \in Events, rows'[e] = rows[e]
  PROVE  SameClaim(e)
BY DEF SameClaim, Held, Pending

LEMMA StaysIdle ==
  ASSUME Inductive, NEW e \in Events, SameClaim(e), Relabels(handlers),
         faults' = faults \/ faults' = faults + 1
  PROVE  EventStep(e)
<1>1. Numbers(e)' = Numbers(e)
  BY RelabelledNumbers DEF Numbers
<1>2. faults' >= faults
  BY DEF Inductive, OutboxTypeOK
<1> QED
  BY <1>1, <1>2 DEF EventStep, Idles

\* A mark that finds its claim ends it, for its own event only.
LEMMA MarkEnds ==
  ASSUME ClaimsOrdered, NEW h \in handlers, HoldsClaim(h),
         NEW row \in Row, row.attempts = rows[h.event].attempts, row.lockedBy = Null,
         rows' = [rows EXCEPT ![h.event] = row]
  PROVE  /\ h.event \in Events
         /\ EndedClaim(h.event)
         /\ rows'[h.event] = row
         /\ \A e \in Events \ {h.event} : rows'[e] = rows[e]
<1>1. h.event \in Events /\ rows \in [Events -> Row \cup {Null}]
  BY DEF ClaimsOrdered, Inductive, OutboxTypeOK, Handler
<1>2. rows'[h.event] = row
  BY <1>1
<1>3. row # Null
  BY NullRowAssumption
<1>4. EndedClaim(h.event)
  BY <1>2, <1>3 DEF EndedClaim, Held, HoldsClaim
<1> QED
  BY <1>1, <1>2, <1>4

LEMMA RemovalSteps ==
  ASSUME ClaimsOrdered, NEW h \in handlers, Relabels(handlers \ {h}),
         faults' = faults \/ faults' = faults + 1, NEW e \in Events
  PROVE  /\ e # h.event /\ rows'[e] = rows[e] => EventStep(e)
         /\ Numbers(h.event)' = Numbers(h.event) \ {h.attempts}
         /\ h.attempts \in Numbers(h.event)
         /\ faults' >= faults
<1>1. handlers \ {h} \in SUBSET handlers
  OBVIOUS
<1>2. \A i : Numbers(i)' = NumbersIn(handlers \ {h}, i)
  BY <1>1, RelabelledNumbers
<1>3. faults' >= faults
  BY DEF ClaimsOrdered, Inductive, OutboxTypeOK
<1>4. ASSUME e # h.event, rows'[e] = rows[e]
      PROVE  EventStep(e)
  <2>1. Numbers(e)' = Numbers(e)
    BY <1>2, <1>4, RemovedNumbers DEF ClaimsOrdered
  <2> QED
    BY <1>3, <1>4, <2>1, RowsInPlace DEF EventStep, Idles
<1> QED
  BY <1>2, <1>3, <1>4, RemovedNumbers DEF ClaimsOrdered

\* A handler whose claim was lost is a stray.
LEMMA LostIsStray ==
  ASSUME ClaimsOrdered, NEW h \in handlers, ~HoldsClaim(h)
  PROVE  h.attempts \in Strays(h.event)
<1>1. h.event \in Events /\ h.attempts \in Numbers(h.event)
  BY DEF ClaimsOrdered, Inductive, OutboxTypeOK, Handler, Numbers, NumbersIn
<1>2. ~(Held(h.event) /\ h.attempts = rows[h.event].attempts)
  BY <1>1 DEF ClaimsOrdered, NotAhead, LockedIsPending, Held, HoldsClaim
<1> QED
  BY <1>1, <1>2 DEF Strays

LEMMA FailureReleases ==
  ASSUME ClaimsOrdered, NEW h \in handlers, HoldsClaim(h), RecordsFailure(h),
         Relabels(handlers \ {h}), faults' = faults \/ faults' = faults + 1,
         NEW e \in Events
  PROVE  EventStep(e)
<1> DEFINE p   == PermanentlyFailed(h.stage, h.attempts)
           a   == AdvancesGeneration(h.stage)
           row == FailedRow(rows[h.event], p, a)
<1>1. /\ h.event \in Events /\ h.attempts \in Nat /\ p \in BOOLEAN /\ a \in BOOLEAN
      /\ rows[h.event] \in Row
  BY DEF ClaimsOrdered, Inductive, OutboxTypeOK, Handler, PermanentlyFailed,
         AdvancesGeneration, HoldsClaim, Pending
<1>2. rows' = [rows EXCEPT ![h.event] = row]
  BY DEF RecordsFailure
<1>3. ~p => h.attempts < MaxAttempts
  BY <1>1 DEF PermanentlyFailed
<1> HIDE DEF p, a
<1>4. /\ row \in Row /\ row.attempts = rows[h.event].attempts
      /\ row.lockedBy = Null /\ row.failed = p
  BY <1>1, FailedColumns
<1> HIDE DEF row
<1>5. /\ EndedClaim(h.event) /\ rows'[h.event] = row
      /\ \A i \in Events \ {h.event} : rows'[i] = rows[i]
  BY <1>2, <1>4, MarkEnds
<1>6. CASE e = h.event
  <2>1. Pending(e)' => h.attempts < MaxAttempts
    BY <1>3, <1>4, <1>5, <1>6 DEF Pending
  <2> QED
    BY <1>5, <1>6, <2>1, RemovalSteps DEF EventStep, Releases
<1>7. CASE e # h.event
  BY <1>5, <1>7, RemovalSteps
<1> QED
  BY <1>6, <1>7

LEMMA PublicationEnds ==
  ASSUME ClaimsOrdered, NEW h \in handlers, HoldsClaim(h),
         rows' = [rows EXCEPT ![h.event] = PublishedRow(@)],
         NEW e \in Events
  PROVE  /\ e = h.event => EndedClaim(e) /\ ~Pending(e)'
         /\ e # h.event => rows'[e] = rows[e]
<1> DEFINE row == PublishedRow(rows[h.event])
<1>1. rows[h.event] \in Row
  BY DEF ClaimsOrdered, Inductive, OutboxTypeOK, Handler, HoldsClaim, Pending
<1>2. rows' = [rows EXCEPT ![h.event] = row]
  OBVIOUS
<1>3. /\ row \in Row /\ row.attempts = rows[h.event].attempts
      /\ row.lockedBy = Null /\ row.published = TRUE
  BY <1>1, PublishedColumns
<1> HIDE DEF row
<1>4. /\ EndedClaim(h.event) /\ rows'[h.event] = row
      /\ \A i \in Events \ {h.event} : rows'[i] = rows[i]
  BY <1>2, <1>3, MarkEnds
<1> QED
  BY <1>3, <1>4 DEF Pending

\* A batch that is claimed: its rows, and the others.
LEMMA BatchClaims ==
  ASSUME ClaimsOrdered, NEW w \in Workers, NEW batch \in Batches, Claim(w, batch),
         NEW e \in Events
  PROVE  /\ e \notin batch => rows'[e] = rows[e]
         /\ e \in batch =>
              /\ Pending(e) /\ ~Held(e) /\ Held(e)' /\ rows'[e] # Null
              /\ rows'[e].attempts = rows[e].attempts + 1
              /\ rows'[e].lockedBy = w
<1>1. e \notin batch => rows'[e] = rows[e]
  BY DEF Claim
<1>2. ASSUME e \in batch
      PROVE  /\ Pending(e) /\ ~Held(e) /\ Held(e)' /\ rows'[e] # Null
             /\ rows'[e].attempts = rows[e].attempts + 1
             /\ rows'[e].lockedBy = w
  <2>1. Pending(e) /\ ~Held(e)
    BY <1>2 DEF Batches, Claimable, Held
  <2>2. rows[e] \in Row
    BY <2>1 DEF Pending, ClaimsOrdered, Inductive, OutboxTypeOK
  <2>3. rows'[e] = ClaimedBy(rows[e], w)
    BY <1>2 DEF Claim
  <2> DEFINE claimed == ClaimedBy(rows[e], w)
  <2>4. /\ claimed \in Row /\ claimed.attempts = rows[e].attempts + 1
        /\ claimed.lockedBy = w /\ claimed.stale = FALSE
    BY <2>2, ClaimedColumns
  <2> HIDE DEF claimed
  <2>5. rows'[e] = claimed
    BY <2>3 DEF claimed
  <2> QED
    BY <2>1, <2>4, <2>5, NullRowAssumption DEF Held
<1> QED
  BY <1>1, <1>2

LEMMA PollSteps ==
  ASSUME ClaimsOrdered, NEW w \in Workers, NEW batch \in Batches, ClaimBatch(w, batch),
         NEW e \in Events
  PROVE  EventStep(e)
<1>1. /\ Claim(w, batch) /\ faults' = faults
      /\ handlers' = handlers \cup {NewHandler(i, w) : i \in batch}
  BY DEF ClaimBatch
<1>2. \A i \in batch : NewHandler(i, w).event = i /\ NewHandler(i, w).attempts = rows[i].attempts + 1
  BY DEF NewHandler
<1>3. CASE e \in batch
  <2>1. Numbers(e)' = Numbers(e) \cup {rows[e].attempts + 1}
    BY <1>1, <1>2, <1>3 DEF Numbers, NumbersIn
  <2> QED
    BY <1>1, <1>3, <2>1, BatchClaims DEF EventStep, Claims
<1>4. CASE e \notin batch
  <2>1. Numbers(e)' = Numbers(e)
    BY <1>1, <1>2, <1>4 DEF Numbers, NumbersIn
  <2>2. SameClaim(e)
    BY <1>1, <1>4, BatchClaims, RowsInPlace
  <2> QED
    BY <1>1, <2>1, <2>2 DEF EventStep, Idles, ClaimsOrdered, Inductive, OutboxTypeOK
<1> QED
  BY <1>3, <1>4

LEMMA ElapseSteps ==
  ASSUME ClaimsOrdered, NEW i \in Events, BecomesDue(i) \/ ClaimExpires(i), NEW e \in Events
  PROVE  EventStep(e)
<1>1. Inductive /\ rows \in [Events -> Row \cup {Null}] /\ rows[i] \in Row /\ Pending(i)
  BY DEF ClaimsOrdered, Inductive, OutboxTypeOK, BecomesDue, ClaimExpires, Pending
<1>2. Relabels(handlers) /\ Numbers(e)' = Numbers(e)
  <2>1. handlers' = handlers
    BY DEF BecomesDue, ClaimExpires
  <2> QED
    BY <1>1, <2>1, SubsetRelabels DEF Inductive, OutboxTypeOK, Tables, Numbers, NumbersIn
<1>3. faults' = faults \/ faults' = faults + 1
  BY DEF BecomesDue, ClaimExpires, Fault
<1>4. CASE e # i
  <2>1. rows'[e] = rows[e]
    BY <1>1, <1>4 DEF BecomesDue, ClaimExpires
  <2> QED
    BY <1>1, <1>2, <1>3, <2>1, RowsInPlace, StaysIdle
<1>5. CASE e = i /\ BecomesDue(i)
  <2> DEFINE row == [rows[i] EXCEPT !.due = TRUE]
  <2>1. rows' = [rows EXCEPT ![i] = row]
    BY <1>5 DEF BecomesDue
  <2>2. /\ row \in Row /\ row.attempts = rows[i].attempts
        /\ row.lockedBy = rows[i].lockedBy /\ row.stale = rows[i].stale
        /\ row.published = rows[i].published /\ row.failed = rows[i].failed
    BY <1>1, ClockColumns
  <2> HIDE DEF row
  <2>3. rows'[i] = row
    BY <1>1, <2>1
  <2>4. SameClaim(i)
    BY <1>1, <2>2, <2>3, NullRowAssumption DEF SameClaim, Held, Pending
  <2> QED
    BY <1>1, <1>2, <1>3, <1>5, <2>4, StaysIdle
<1>6. CASE e = i /\ ClaimExpires(i)
  <2> DEFINE row == [rows[i] EXCEPT !.stale = TRUE]
  <2>1. rows' = [rows EXCEPT ![i] = row]
    BY <1>6 DEF ClaimExpires
  <2>2. /\ row \in Row /\ row.attempts = rows[i].attempts /\ row.stale = TRUE
        /\ row.published = rows[i].published /\ row.failed = rows[i].failed
    BY <1>1, ClockColumns
  <2> HIDE DEF row
  <2>3. rows'[i] = row
    BY <1>1, <2>1
  <2>4. EndedClaim(i) /\ Pending(i)'
    BY <1>1, <2>2, <2>3, NullRowAssumption DEF EndedClaim, Held, Pending
  <2>5. (faults' = faults /\ ~InUse(i)) \/ faults' = faults + 1
    <3>1. ASSUME ~ClaimInUse(i)
          PROVE  ~InUse(i)
      <4>1. SUFFICES ASSUME InUse(i)
                     PROVE  FALSE
        OBVIOUS
      <4>2. PICK h \in handlers : h.event = i /\ h.attempts = rows[i].attempts
        BY <4>1 DEF InUse, Numbers, NumbersIn
      <4>3. h.worker = rows[i].lockedBy
        BY <4>1, <4>2 DEF InUse, Held, ClaimsOrdered, NotAhead
      <4> QED
        BY <3>1, <4>2, <4>3 DEF ClaimInUse
    <3> QED
      BY <1>6, <3>1 DEF ClaimExpires, Fault
  <2> QED
    BY <1>2, <1>6, <2>4, <2>5 DEF EventStep, Expires
<1> QED
  BY <1>4, <1>5, <1>6

LEMMA HandleSteps ==
  ASSUME ClaimsOrdered, NEW h \in handlers, Handle(h), NEW e \in Events
  PROVE  EventStep(e)
<1>1. Inductive /\ Tables /\ faults' = faults
  BY DEF ClaimsOrdered, Inductive, OutboxTypeOK, Tables, Handle, MapRejects, RequestTaken,
         RequestConflicts, RequestRefused, RequestGivenUp, RequestTimesOut, RequestSucceeds,
         MarkPublished, ClaimWasLost, MarkDeliveryFailed
<1>2. ASSUME NEW stage \in Stage, MovesTo(h, stage), rows' = rows
      PROVE  EventStep(e)
  BY <1>1, <1>2, MoveRelabels, RowsInPlace, StaysIdle
<1>3. CASE MapRejects(h) \/ RequestTaken(h) \/ RequestConflicts(h) \/ RequestSucceeds(h)
  BY <1>2, <1>3 DEF MapRejects, RequestTaken, RequestConflicts, RequestSucceeds, Stage, Failure
<1>4. CASE \/ RequestGivenUp(h) \/ RequestTimesOut(h) \/ ClaimWasLost(h)
           \/ \E failure \in {"retryable", "rejected"} : RequestRefused(h, failure)
  BY <1>2, <1>4 DEF RequestGivenUp, RequestTimesOut, ClaimWasLost, RequestRefused, Stage, Failure
<1>5. CASE MarkPublished(h) \/ MarkDeliveryFailed(h)
  <2>1. handlers' = handlers \ {h}
    BY <1>5 DEF MarkPublished, MarkDeliveryFailed
  <2>2. Relabels(handlers \ {h})
    BY <1>1, <2>1, SubsetRelabels
  <2>3. CASE MarkPublished(h)
    <3>1. CASE e = h.event
      BY <1>1, <2>2, <2>3, <3>1, PublicationEnds, RemovalSteps
         DEF MarkPublished, EventStep, Releases
    <3>2. CASE e # h.event
      BY <1>1, <2>2, <2>3, <3>2, PublicationEnds, RemovalSteps DEF MarkPublished
    <3> QED
      BY <3>1, <3>2
  <2>4. CASE HoldsClaim(h) /\ RecordsFailure(h)
    BY <1>1, <2>2, <2>4, FailureReleases
  <2>5. CASE ~HoldsClaim(h) /\ rows' = rows
    <3>1. CASE e = h.event
      BY <1>1, <2>2, <2>5, <3>1, LostIsStray, RowsInPlace, RemovalSteps DEF EventStep, Loses
    <3>2. CASE e # h.event
      BY <1>1, <2>2, <2>5, <3>2, RemovalSteps
    <3> QED
      BY <3>1, <3>2
  <2> QED
    BY <1>5, <2>3, <2>4, <2>5 DEF MarkDeliveryFailed
<1> QED
  BY <1>3, <1>4, <1>5 DEF Handle

LEMMA MisfortuneSteps ==
  ASSUME ClaimsOrdered, Misfortune, NEW e \in Events
  PROVE  EventStep(e)
<1>1. Inductive /\ Tables /\ faults' = faults + 1
  BY DEF ClaimsOrdered, Inductive, OutboxTypeOK, Tables, Misfortune, Crash, ClaimError,
         MarkPublishedError, MarkDeliveryFailedError, Fault
<1>2. ASSUME NEW w \in Workers, Crash(w)
      PROVE  EventStep(e)
  <2>1. handlers' \subseteq handlers /\ rows' = rows
    BY <1>2 DEF Crash
  <2>2. Numbers(e)' \subseteq Numbers(e)
    BY <2>1 DEF Numbers, NumbersIn
  <2> QED
    BY <1>1, <2>1, <2>2, RowsInPlace DEF EventStep, Drops
<1>3. ASSUME NEW w \in Workers, NEW batch \in Batches, ClaimError(w, batch)
      PROVE  EventStep(e)
  <2>1. Claim(w, batch) /\ handlers' = handlers
    BY <1>3 DEF ClaimError
  <2>2. Numbers(e)' = Numbers(e) /\ Relabels(handlers)
    BY <1>1, <2>1, SubsetRelabels DEF Numbers, NumbersIn
  <2>3. CASE e \in batch
    BY <1>1, <2>1, <2>2, <2>3, BatchClaims DEF EventStep, Claims
  <2>4. CASE e \notin batch
    BY <1>1, <2>1, <2>2, <2>4, BatchClaims, RowsInPlace, StaysIdle
  <2> QED
    BY <2>3, <2>4
<1>4. ASSUME NEW h \in handlers, MarkPublishedError(h)
      PROVE  EventStep(e)
  <2>1. Relabels(handlers)
    BY <1>1, <1>4, MoveRelabels DEF MarkPublishedError, Stage, Failure
  <2>2. Numbers(e)' = Numbers(e)
    BY <2>1, RelabelledNumbers DEF Numbers
  <2>3. CASE rows' = rows
    BY <1>1, <2>1, <2>3, RowsInPlace, StaysIdle
  <2>4. CASE HoldsClaim(h) /\ rows' = [rows EXCEPT ![h.event] = PublishedRow(@)]
    <3>1. CASE e = h.event
      BY <1>1, <2>2, <2>4, <3>1, PublicationEnds DEF EventStep, Settles
    <3>2. CASE e # h.event
      BY <1>1, <2>1, <2>4, <3>2, PublicationEnds, RowsInPlace, StaysIdle
    <3> QED
      BY <3>1, <3>2
  <2> QED
    BY <1>4, <2>3, <2>4 DEF MarkPublishedError
<1>5. ASSUME NEW h \in handlers, MarkDeliveryFailedError(h)
      PROVE  EventStep(e)
  <2>1. Relabels(handlers \ {h})
    BY <1>1, <1>5, RejectionRelabels DEF MarkDeliveryFailedError
  <2>2. CASE rows' = rows
    <3>1. CASE e = h.event
      BY <1>1, <2>1, <2>2, <3>1, RowsInPlace, RemovalSteps DEF EventStep, Drops
    <3>2. CASE e # h.event
      BY <1>1, <2>1, <2>2, <3>2, RemovalSteps
    <3> QED
      BY <3>1, <3>2
  <2>3. CASE HoldsClaim(h) /\ RecordsFailure(h)
    BY <1>1, <2>1, <2>3, FailureReleases
  <2> QED
    BY <1>5, <2>2, <2>3 DEF MarkDeliveryFailedError
<1> QED
  BY <1>2, <1>3, <1>4, <1>5 DEF Misfortune

LEMMA StepsOfClaims ==
  ASSUME ClaimsOrdered, OutboxNext, NEW e \in Events
  PROVE  EventStep(e)
<1>1. Inductive /\ Tables
  BY DEF ClaimsOrdered, Inductive, OutboxTypeOK, Tables
<1>2. ASSUME NEW i \in Events, EnqueueEvent(i)
      PROVE  EventStep(e)
  <2>1. handlers' = handlers /\ faults' = faults
    BY <1>2 DEF EnqueueEvent
  <2>2. Relabels(handlers) /\ Numbers(e)' = Numbers(e)
    BY <1>1, <2>1, SubsetRelabels DEF Numbers, NumbersIn
  <2>3. CASE e # i
    <3>1. rows'[e] = rows[e]
      BY <1>2, <2>3 DEF EnqueueEvent
    <3> QED
      BY <1>1, <2>1, <2>2, <3>1, RowsInPlace, StaysIdle
  <2>4. CASE e = i
    <3>1. rows'[e] = NewRow(e) /\ rows[e] = Null
      BY <1>1, <1>2, <2>4 DEF EnqueueEvent, Tables
    <3>2. /\ NewRow(e) \in Row
          /\ NewRow(e).attempts = 0 /\ NewRow(e).lockedBy = Null
      BY DEF NewRow, Row
    <3> QED
      BY <2>1, <2>2, <3>1, <3>2, NullRowAssumption DEF EventStep, Enqueues, Held
  <2> QED
    BY <2>3, <2>4
<1>3. CASE ServiceStep
  <2>1. handlers' = handlers /\ faults' = faults /\ rows' = rows
    BY <1>3 DEF ServiceStep, ServiceAccepts, ServiceGivesUp
  <2>2. Relabels(handlers)
    BY <1>1, <2>1, SubsetRelabels
  <2> QED
    BY <1>1, <2>1, <2>2, RowsInPlace, StaysIdle
<1>4. CASE Poll
  BY <1>4, PollSteps DEF Poll
<1>5. CASE Elapse
  BY <1>5, ElapseSteps DEF Elapse
<1>6. CASE HandleSome
  BY <1>6, HandleSteps DEF HandleSome
<1> QED
  BY <1>2, <1>3, <1>4, <1>5, <1>6, MisfortuneSteps DEF OutboxNext

\* Claims are numbered upwards, and a lock changes hands only with a number.
LEMMA RowAdvances ==
  ASSUME NEW e \in Events, RowStep(e), rows[e] \in Row
  PROVE  /\ rows'[e] \in Row
         /\ rows[e].attempts <= rows'[e].attempts
         /\ rows'[e].attempts = rows[e].attempts => rows'[e].lockedBy \in {Null, rows[e].lockedBy}
         /\ (rows[e].lockedBy # Null => Pending(e)) => (rows'[e].lockedBy # Null => Pending(e)')
<1> DEFINE row  == rows[e]
           Goal == /\ rows'[e] \in Row
                   /\ row.attempts <= rows'[e].attempts
                   /\ rows'[e].attempts = row.attempts => rows'[e].lockedBy \in {Null, row.lockedBy}
                   /\ (row.lockedBy # Null => Pending(e)) => (rows'[e].lockedBy # Null => Pending(e)')
<1>1. row \in Row /\ row.attempts \in Nat /\ row # Null
  BY NullRowAssumption DEF Row
<1>2. CASE rows'[e] = row
  BY <1>1, <1>2 DEF Pending
<1>3. ASSUME Pending(e), NEW w \in Workers, rows'[e] = ClaimedBy(row, w)
      PROVE  Goal
  <2> DEFINE claimed == ClaimedBy(row, w)
  <2>1. /\ claimed \in Row /\ claimed.attempts = row.attempts + 1
        /\ claimed.published = row.published /\ claimed.failed = row.failed
    BY <1>1, ClaimedColumns
  <2>2. rows'[e] = claimed
    BY <1>3
  <2> HIDE DEF claimed
  <2> QED
    BY <1>1, <1>3, <2>1, <2>2, NullRowAssumption DEF Pending
<1>4. ASSUME Pending(e), rows'[e] = PublishedRow(row)
      PROVE  Goal
  <2>1. rows'[e] \in Row /\ rows'[e].attempts = row.attempts /\ rows'[e].lockedBy = Null
    BY <1>1, <1>4, PublishedColumns
  <2> QED
    BY <1>1, <2>1
<1>5. ASSUME Pending(e), NEW p \in BOOLEAN, NEW a \in BOOLEAN, rows'[e] = FailedRow(row, p, a)
      PROVE  Goal
  <2>1. rows'[e] \in Row /\ rows'[e].attempts = row.attempts /\ rows'[e].lockedBy = Null
    BY <1>1, <1>5, FailedColumns
  <2> QED
    BY <1>1, <2>1
<1>6. ASSUME Pending(e), rows'[e] \in {[row EXCEPT !.due = TRUE], [row EXCEPT !.stale = TRUE]}
      PROVE  Goal
  <2>1. /\ rows'[e] \in Row /\ rows'[e].attempts = row.attempts
        /\ rows'[e].lockedBy = row.lockedBy
        /\ rows'[e].published = row.published /\ rows'[e].failed = row.failed
    BY <1>1, <1>6, ClockColumns
  <2> QED
    BY <1>1, <1>6, <2>1, NullRowAssumption DEF Pending
<1> QED
  BY <1>1, <1>2, <1>3, <1>4, <1>5, <1>6 DEF RowStep

LEMMA HandlersRelabelled ==
  ASSUME Tables, OutboxNext
  PROVE  \/ \E set \in SUBSET handlers : Relabels(set)
         \/ \E w \in Workers, batch \in Batches : ClaimBatch(w, batch)
<1> DEFINE Goal == \E set \in SUBSET handlers : Relabels(set)
<1>1. ASSUME handlers' \subseteq handlers
      PROVE  Goal
  BY <1>1, SubsetRelabels
<1>2. ASSUME NEW h \in handlers, NEW stage \in Stage, MovesTo(h, stage)
      PROVE  Goal
  BY <1>2, MoveRelabels
<1>3. ASSUME NEW h \in handlers, MarkDeliveryFailedError(h)
      PROVE  Goal
  <2>1. handlers \ {h} \in SUBSET handlers
    OBVIOUS
  <2> QED
    BY <1>3, <2>1, RejectionRelabels DEF MarkDeliveryFailedError
<1> HIDE DEF Goal
<1>4. ASSUME NEW h \in handlers, Handle(h)
      PROVE  Goal
  <2>1. CASE MapRejects(h) \/ RequestTaken(h) \/ RequestConflicts(h) \/ RequestSucceeds(h)
    BY <1>2, <2>1 DEF MapRejects, RequestTaken, RequestConflicts, RequestSucceeds, Stage, Failure
  <2>2. CASE \/ RequestGivenUp(h) \/ RequestTimesOut(h) \/ ClaimWasLost(h)
             \/ \E failure \in {"retryable", "rejected"} : RequestRefused(h, failure)
    BY <1>2, <2>2 DEF RequestGivenUp, RequestTimesOut, ClaimWasLost, RequestRefused, Stage, Failure
  <2>3. CASE MarkPublished(h) \/ MarkDeliveryFailed(h)
    BY <1>1, <2>3 DEF MarkPublished, MarkDeliveryFailed
  <2> QED
    BY <1>4, <2>1, <2>2, <2>3 DEF Handle
<1>5. ASSUME NEW h \in handlers, MarkPublishedError(h)
      PROVE  Goal
  BY <1>2, <1>5 DEF MarkPublishedError, Stage, Failure
<1>6. ASSUME NEW w \in Workers, Crash(w) \/ \E batch \in Batches : ClaimError(w, batch)
      PROVE  Goal
  <2>1. handlers' \subseteq handlers
    BY <1>6 DEF Crash, ClaimError
  <2> QED
    BY <1>1, <2>1
<1>7. ASSUME (\E e \in Events : EnqueueEvent(e)) \/ Elapse \/ ServiceStep
      PROVE  Goal
  <2>1. handlers' \subseteq handlers
    BY <1>7 DEF EnqueueEvent, Elapse, BecomesDue, ClaimExpires,
                ServiceStep, ServiceAccepts, ServiceGivesUp
  <2> QED
    BY <1>1, <2>1
<1>8. Goal \/ Poll
  BY <1>3, <1>4, <1>5, <1>6, <1>7 DEF OutboxNext, HandleSome, Misfortune
<1> QED
  BY <1>8 DEF Goal, Poll

LEMMA RelabelKeepsOrder ==
  ASSUME ClaimsOrdered, NEW set \in SUBSET handlers, Relabels(set),
         \A e \in Events : RowStep(e)
  PROVE  Numbered' /\ NotAhead'
<1>1. PICK f \in [set -> Handler] :
        /\ handlers' = {f[h] : h \in set}
        /\ \A h \in set : /\ f[h].event = h.event
                          /\ f[h].worker = h.worker
                          /\ f[h].attempts = h.attempts
  BY DEF Relabels
<1>2. Numbered'
  BY <1>1 DEF ClaimsOrdered, Numbered
<1>3. ASSUME NEW h \in set
      PROVE  /\ h.attempts <= rows'[h.event].attempts
             /\ rows'[h.event].lockedBy # Null /\ h.attempts = rows'[h.event].attempts
                  => h.worker = rows'[h.event].lockedBy
  <2>1. /\ h \in handlers /\ h.event \in Events /\ h.attempts \in Nat
        /\ rows[h.event] \in Row
    BY DEF ClaimsOrdered, Inductive, OutboxTypeOK, WorkIsRecorded, Handler
  <2>2. /\ h.attempts <= rows[h.event].attempts
        /\ rows[h.event].lockedBy # Null /\ h.attempts = rows[h.event].attempts
             => h.worker = rows[h.event].lockedBy
    BY <2>1 DEF ClaimsOrdered, NotAhead
  <2>3. /\ rows'[h.event] \in Row
        /\ rows[h.event].attempts <= rows'[h.event].attempts
        /\ rows'[h.event].attempts = rows[h.event].attempts
             => rows'[h.event].lockedBy \in {Null, rows[h.event].lockedBy}
    BY <2>1, RowAdvances
  <2>4. rows[h.event].attempts \in Nat /\ rows'[h.event].attempts \in Nat
    BY <2>1, <2>3 DEF Row
  <2> QED
    BY <2>1, <2>2, <2>3, <2>4
<1>4. NotAhead'
  BY <1>1, <1>3 DEF NotAhead
<1> QED
  BY <1>2, <1>4

LEMMA ClaimKeepsOrder ==
  ASSUME ClaimsOrdered, NEW w \in Workers, NEW batch \in Batches, ClaimBatch(w, batch)
  PROVE  Numbered' /\ NotAhead'
<1>1. /\ Claim(w, batch) /\ batch \subseteq Events
      /\ handlers' = handlers \cup {NewHandler(i, w) : i \in batch}
  BY DEF ClaimBatch, Batches
<1>2. \A i \in batch : /\ NewHandler(i, w).event = i
                       /\ NewHandler(i, w).attempts = rows[i].attempts + 1
                       /\ NewHandler(i, w).worker = w
  BY DEF NewHandler
<1>3. \A i \in batch : /\ rows[i].attempts \in Nat
                       /\ rows'[i].attempts = rows[i].attempts + 1
                       /\ rows'[i].lockedBy = w
  <2>1. \A i \in batch : rows[i] \in Row
    BY <1>1, BatchClaims DEF ClaimsOrdered, Inductive, OutboxTypeOK, Pending
  <2> QED
    BY <1>1, <2>1, BatchClaims DEF Row
<1>4. \A h \in handlers : /\ h.event \in Events /\ h.attempts \in Nat
                          /\ h.attempts <= rows[h.event].attempts
                          /\ h.event \notin batch => rows'[h.event] = rows[h.event]
  BY <1>1, BatchClaims DEF ClaimsOrdered, Inductive, OutboxTypeOK, NotAhead, Handler
<1>5. \A h \in handlers, i \in batch : ~(h.event = i /\ h.attempts = rows[i].attempts + 1)
  BY <1>3, <1>4
<1>6. Numbered'
  <2>1. ASSUME NEW g \in handlers', NEW h \in handlers', g.event = h.event, g.attempts = h.attempts
        PROVE  g = h
    <3>1. CASE g \in handlers /\ h \in handlers
      BY <2>1, <3>1 DEF ClaimsOrdered, Numbered
    <3>2. ASSUME g \in handlers, NEW i \in batch, h = NewHandler(i, w)
          PROVE  FALSE
      BY <1>2, <1>5, <2>1, <3>2
    <3>3. ASSUME h \in handlers, NEW i \in batch, g = NewHandler(i, w)
          PROVE  FALSE
      BY <1>2, <1>5, <2>1, <3>3
    <3>4. ASSUME NEW i \in batch, NEW j \in batch, g = NewHandler(i, w), h = NewHandler(j, w)
          PROVE  g = h
      BY <1>2, <2>1, <3>4
    <3> QED
      BY <1>1, <3>1, <3>2, <3>3, <3>4
  <2> QED
    BY <2>1 DEF Numbered
<1>7. ASSUME NEW h \in handlers'
      PROVE  /\ h.attempts <= rows'[h.event].attempts
             /\ rows'[h.event].lockedBy # Null /\ h.attempts = rows'[h.event].attempts
                  => h.worker = rows'[h.event].lockedBy
  <2>1. CASE h \in handlers /\ h.event \in batch
    BY <1>3, <1>4, <2>1
  <2>2. CASE h \in handlers /\ h.event \notin batch
    BY <1>4, <2>2 DEF ClaimsOrdered, NotAhead
  <2>3. CASE h \notin handlers
    BY <1>1, <1>2, <1>3, <2>3
  <2> QED
    BY <2>1, <2>2, <2>3
<1>8. NotAhead'
  BY <1>7 DEF NotAhead
<1> QED
  BY <1>6, <1>8

LEMMA StepClaimsOrdered ==
  ASSUME ClaimsOrdered, [OutboxNext]_outboxVars
  PROVE  ClaimsOrdered'
<1>1. CASE OutboxNext
  <2>1. Tables /\ Inductive'
    BY <1>1, NextTyped, NextRecorded DEF ClaimsOrdered, Inductive, OutboxTypeOK, Tables
  <2>2. \A e \in Events : RowStep(e)
    BY <1>1, <2>1, StepsOfRows
  <2>3. Numbered' /\ NotAhead'
    BY <1>1, <2>1, <2>2, HandlersRelabelled, RelabelKeepsOrder, ClaimKeepsOrder
  <2>4. ASSUME NEW e \in Events, rows'[e] # Null, rows'[e].lockedBy # Null
        PROVE  Pending(e)'
    <3>1. CASE rows[e] # Null
      <4>1. rows[e] \in Row /\ (rows[e].lockedBy # Null => Pending(e))
        BY <3>1 DEF ClaimsOrdered, Inductive, OutboxTypeOK, LockedIsPending
      <4> QED
        BY <2>2, <2>4, <4>1, RowAdvances
    <3>2. CASE rows[e] = Null
      <4>1. rows'[e] = NewRow(e)
        BY <2>2, <2>4, <3>2 DEF RowStep, Pending
      <4> QED
        BY <2>4, <4>1 DEF NewRow
    <3> QED
      BY <3>1, <3>2
  <2> QED
    BY <2>1, <2>3, <2>4 DEF ClaimsOrdered, LockedIsPending
<1>2. CASE UNCHANGED outboxVars
  BY <1>2, UnchangedTyped DEF ClaimsOrdered, Inductive, Numbered, NotAhead, LockedIsPending,
       Pending, outboxVars
<1> QED
  BY <1>1, <1>2

----------------------------------------------------------------------------
(* What faults can cost *)

\* The numbers whose failure is not permanent yet, and the attempts there are
\* beyond the maximum, or will be when the row is claimed again.
Low(e) == {n \in Numbers(e) : n < MaxAttempts}
Early(e) == {n \in Strays(e) : n < MaxAttempts}
Excess(n) == IF n > MaxAttempts THEN n - MaxAttempts ELSE 0
Beyond(e) == IF InUse(e) THEN Excess(rows[e].attempts) ELSE Excess(rows[e].attempts + 1)

\* Every fault pays for one stray; and each attempt too many was released by
\* a stray, or has lost its handler.
Budget(e) ==
  /\ Cardinality(Strays(e)) <= faults
  /\ rows[e] # Null /\ Pending(e) => Cardinality(Early(e)) + Beyond(e) <= faults
  /\ rows[e] # Null => rows[e].attempts <= MaxAttempts + faults

LEMMA NumbersFinite ==
  ASSUME ClaimsOrdered, NEW e \in Events
  PROVE  /\ IsFiniteSet(Numbers(e)) /\ Numbers(e) \subseteq Nat
         /\ rows[e] = Null => Numbers(e) = {}
         /\ rows[e] # Null => /\ rows[e].attempts \in Nat
                              /\ \A n \in Numbers(e) : n <= rows[e].attempts
<1>1. Numbers(e) \subseteq Nat /\ (rows[e] = Null => Numbers(e) = {})
  BY DEF ClaimsOrdered, Inductive, OutboxTypeOK, WorkIsRecorded, Handler, Numbers, NumbersIn
<1>2. ASSUME rows[e] # Null
      PROVE  /\ rows[e].attempts \in Nat
             /\ \A n \in Numbers(e) : n <= rows[e].attempts
  BY <1>2 DEF ClaimsOrdered, Inductive, OutboxTypeOK, Row, NotAhead, Numbers, NumbersIn
<1>3. IsFiniteSet(Numbers(e))
  BY <1>1, <1>2, FS_EmptySet, FS_BoundedSetOfNaturals
<1> QED
  BY <1>1, <1>2, <1>3

LEMMA Counts ==
  ASSUME ClaimsOrdered, NEW e \in Events
  PROVE  /\ Cardinality(Numbers(e)) \in Nat /\ IsFiniteSet(Strays(e)) /\ IsFiniteSet(Low(e))
         /\ Cardinality(Strays(e)) \in Nat
         /\ Cardinality(Low(e)) \in Nat /\ Cardinality(Early(e)) \in Nat
         /\ IsFiniteSet(Early(e))
         /\ ~InUse(e) => Strays(e) = Numbers(e) /\ Early(e) = Low(e)
         /\ InUse(e) =>
              /\ rows[e].attempts \in Nat
              /\ Cardinality(Numbers(e)) = Cardinality(Strays(e)) + 1
              /\ rows[e].attempts < MaxAttempts => Cardinality(Low(e)) = Cardinality(Early(e)) + 1
              /\ rows[e].attempts >= MaxAttempts => Low(e) = Early(e)
<1>1. IsFiniteSet(Numbers(e)) /\ Numbers(e) \subseteq Nat
  BY NumbersFinite
<1>2. /\ Strays(e) \in SUBSET Numbers(e) /\ Low(e) \in SUBSET Numbers(e)
      /\ Early(e) \in SUBSET Numbers(e)
  BY DEF Strays, Low, Early
<1>3. IsFiniteSet(Strays(e)) /\ IsFiniteSet(Low(e)) /\ IsFiniteSet(Early(e))
  BY <1>1, <1>2, FS_Subset
<1>4. ~InUse(e) => Strays(e) = Numbers(e) /\ Early(e) = Low(e)
  BY DEF InUse, Strays, Low, Early
<1>5. ASSUME InUse(e)
      PROVE  /\ rows[e].attempts \in Nat
             /\ Cardinality(Numbers(e)) = Cardinality(Strays(e)) + 1
             /\ rows[e].attempts < MaxAttempts => Cardinality(Low(e)) = Cardinality(Early(e)) + 1
             /\ rows[e].attempts >= MaxAttempts => Low(e) = Early(e)
  <2> DEFINE k == rows[e].attempts
  <2>1. k \in Numbers(e) /\ k \in Nat /\ Strays(e) = Numbers(e) \ {k}
    BY <1>1, <1>5 DEF InUse, Strays
  <2> HIDE DEF k
  <2>2. Cardinality(Strays(e)) = Cardinality(Numbers(e)) - 1
    <3>1. Cardinality(Numbers(e) \ {k}) = Cardinality(Numbers(e)) - 1
      BY <1>1, <2>1, FS_RemoveElement
    <3> QED
      BY <2>1, <3>1
  <2>3. /\ Cardinality(Numbers(e)) = Cardinality(Strays(e)) + 1
        /\ Cardinality(Low(e)) \in Nat /\ Cardinality(Early(e)) \in Nat
    BY <1>1, <1>3, <2>2, FS_CardinalityType
  <2>4. CASE k < MaxAttempts
    <3>1. k \in Low(e) /\ Early(e) = Low(e) \ {k}
      BY <2>1, <2>4 DEF Low, Early
    <3>2. Cardinality(Early(e)) = Cardinality(Low(e)) - 1
      BY <1>3, <3>1, FS_RemoveElement
    <3> QED
      BY <2>1, <2>3, <2>4, <3>2 DEF k
  <2>5. CASE k >= MaxAttempts
    <3>1. Low(e) = Early(e)
      BY <1>1, <2>1, <2>5 DEF Low, Early
    <3> QED
      BY <2>1, <2>3, <2>5, <3>1 DEF k
  <2> QED
    BY <2>1, <2>4, <2>5
<1> QED
  BY <1>1, <1>3, <1>4, <1>5, FS_CardinalityType

\* What remains when a handler goes, and when its claim does not run.
LEMMA OneGone ==
  ASSUME NEW set, IsFiniteSet(set), NEW n \in set
  PROVE  IsFiniteSet(set \ {n}) /\ Cardinality(set \ {n}) = Cardinality(set) - 1
BY FS_RemoveElement

LEMMA FreeClaim ==
  ASSUME NEW e \in Events, ~Held(e)'
  PROVE  /\ Strays(e)' = Numbers(e)'
         /\ Early(e)' = {n \in Numbers(e)' : n < MaxAttempts}
         /\ Beyond(e)' = Excess(rows'[e].attempts + 1)
BY DEF Strays, Early, Beyond, InUse

LEMMA StepBudget ==
  ASSUME ClaimsOrdered, NEW e \in Events, Budget(e), EventStep(e), faults' \in Nat
  PROVE  Budget(e)'
<1> DEFINE k == rows[e].attempts
           S == Cardinality(Strays(e))
           E == Cardinality(Early(e))
<1> USE OutboxSettingsAssumption
<1>1. faults \in Nat /\ faults' \in Nat /\ MaxAttempts \in Nat \ {0}
  BY DEF ClaimsOrdered, Inductive, OutboxTypeOK
<1>2. /\ IsFiniteSet(Numbers(e)) /\ Numbers(e) \subseteq Nat
      /\ rows[e] = Null => Numbers(e) = {}
      /\ rows[e] # Null => k \in Nat /\ \A n \in Numbers(e) : n <= k
  BY NumbersFinite
<1>3. S \in Nat /\ E \in Nat /\ IsFiniteSet(Strays(e)) /\ IsFiniteSet(Early(e))
  BY Counts
<1>4. /\ S <= faults
      /\ rows[e] # Null /\ Pending(e) => E + Beyond(e) <= faults
      /\ rows[e] # Null => k <= MaxAttempts + faults
  BY DEF Budget
<1>5. CASE Idles(e)
  <2>1. Strays(e)' = Strays(e) /\ Early(e)' = Early(e) /\ (InUse(e)' <=> InUse(e))
    <3>1. CASE rows[e] = Null
      BY <1>2, <1>5, <3>1 DEF Idles, SameClaim, Strays, Early, InUse, Held
    <3>2. CASE rows[e] # Null
      BY <1>5, <3>2 DEF Idles, SameClaim, Strays, Early, InUse, Held
    <3> QED
      BY <3>1, <3>2
  <2>2. rows[e] # Null => Beyond(e)' = Beyond(e)
    BY <1>5, <2>1 DEF Idles, SameClaim, Beyond
  <2>3. rows[e] # Null /\ Pending(e) => Beyond(e) \in Nat
    BY <1>1, <1>2 DEF Beyond, Excess
  <2> QED
    BY <1>1, <1>2, <1>3, <1>4, <1>5, <2>1, <2>2, <2>3 DEF Idles, SameClaim, Budget
<1>6. CASE Enqueues(e)
  <2>1. Strays(e)' = {} /\ Early(e)' = {} /\ Beyond(e)' = Excess(1)
    BY <1>2, <1>6, FreeClaim DEF Enqueues
  <2>2. Excess(1) = 0
    BY <1>1 DEF Excess
  <2> QED
    BY <1>1, <1>6, <2>1, <2>2, FS_EmptySet DEF Enqueues, Budget
<1>7. CASE Claims(e)
  <2>1. rows[e] # Null /\ Pending(e) /\ ~InUse(e) /\ k \in Nat /\ k + 1 \notin Numbers(e)
    BY <1>2, <1>7 DEF Claims, Pending, InUse
  <2>2. Beyond(e) = Excess(k + 1) /\ Strays(e) = Numbers(e)
    BY <1>7, <2>1 DEF Claims, Beyond, Strays
  <2>3. rows'[e].attempts = k + 1 /\ Held(e)' /\ rows'[e] # Null
    BY <1>7 DEF Claims
  <2>4. Strays(e)' = Strays(e) /\ Early(e)' = Early(e)
    BY <1>7, <2>1, <2>2, <2>3 DEF Claims, Strays, Early
  <2>5. CASE Numbers(e)' = Numbers(e) \cup {k + 1} /\ faults' = faults
    <3>1. Beyond(e)' = Excess(k + 1)
      BY <2>3, <2>5 DEF Beyond, InUse
    <3> QED
      BY <1>1, <1>3, <1>4, <2>1, <2>2, <2>3, <2>4, <2>5, <3>1 DEF Budget, Excess
  <2>6. CASE Numbers(e)' = Numbers(e) /\ faults' = faults + 1
    <3>1. Beyond(e)' = Excess(k + 2)
      BY <2>1, <2>3, <2>6 DEF Beyond, InUse
    <3> QED
      BY <1>1, <1>3, <1>4, <2>1, <2>2, <2>3, <2>4, <2>6, <3>1 DEF Budget, Excess
  <2> QED
    BY <1>7, <2>5, <2>6 DEF Claims
<1>8. CASE Releases(e)
  <2>1. PICK n \in Numbers(e) : /\ Pending(e)' => n < MaxAttempts
                                /\ Numbers(e)' = Numbers(e) \ {n}
    BY <1>8 DEF Releases
  <2>2. /\ Pending(e) /\ rows[e] # Null /\ rows'[e] # Null
        /\ rows'[e].attempts = k /\ ~Held(e)' /\ faults' >= faults
    BY <1>8 DEF Releases, EndedClaim, Pending
  <2>3. /\ Strays(e)' = Numbers(e) \ {n} /\ Beyond(e)' = Excess(k + 1)
        /\ n < MaxAttempts => Early(e)' = Low(e) \ {n} /\ n \in Low(e)
    BY <2>1, <2>2, FreeClaim DEF Low
  <2>4. Cardinality(Strays(e))' = Cardinality(Numbers(e)) - 1
    BY <1>2, <2>1, <2>3, OneGone
  <2>5. Pending(e)' => Cardinality(Early(e))' = Cardinality(Low(e)) - 1
    BY <2>1, <2>3, OneGone, Counts
  <2>6. CASE InUse(e)
    BY <1>1, <1>2, <1>3, <1>4, <2>2, <2>3, <2>4, <2>5, <2>6, Counts DEF Budget, Beyond, Excess
  <2>7. CASE ~InUse(e)
    BY <1>1, <1>2, <1>3, <1>4, <2>2, <2>3, <2>4, <2>5, <2>7, Counts DEF Budget, Beyond, Excess
  <2> QED
    BY <2>6, <2>7
<1>9. CASE Settles(e)
  <2>1. /\ rows[e] # Null /\ rows'[e].attempts = k /\ ~Pending(e)' /\ faults' = faults + 1
        /\ Strays(e)' = Numbers(e)
    BY <1>9, FreeClaim DEF Settles, EndedClaim, Pending
  <2>2. Cardinality(Numbers(e)) <= S + 1
    BY <1>3, Counts
  <2>3. Cardinality(Numbers(e)) \in Nat
    BY Counts
  <2> QED
    BY <1>1, <1>2, <1>3, <1>4, <2>1, <2>2, <2>3 DEF Budget
<1>10. CASE Loses(e)
  <2>1. PICK n \in Strays(e) : Numbers(e)' = Numbers(e) \ {n}
    BY <1>10 DEF Loses
  <2>2. rows[e] # Null /\ rows'[e] # Null /\ rows'[e].attempts = k /\ faults' = faults
    BY <1>2, <1>10, <2>1 DEF Loses, SameClaim, Strays
  <2>3. (Held(e)' <=> Held(e)) /\ (Pending(e)' <=> Pending(e))
    BY <1>10, <2>2 DEF Loses, SameClaim
  <2>4. Strays(e)' = Strays(e) \ {n} /\ (InUse(e)' <=> InUse(e))
    BY <2>1, <2>2, <2>3 DEF Strays, InUse
  <2>5. Early(e)' \in SUBSET Early(e) /\ Beyond(e)' = Beyond(e)
    BY <2>2, <2>4 DEF Early, Beyond
  <2>6. /\ Cardinality(Strays(e))' = S - 1
        /\ Cardinality(Early(e))' \in Nat /\ Cardinality(Early(e))' <= E
    BY <1>3, <2>4, <2>5, OneGone, FS_Subset, FS_CardinalityType
  <2>7. Beyond(e) \in Nat
    BY <1>1, <1>2, <2>2 DEF Beyond, Excess
  <2> QED
    BY <1>1, <1>2, <1>3, <1>4, <2>2, <2>3, <2>5, <2>6, <2>7 DEF Budget
<1>11. CASE Drops(e)
  <2>1. faults' = faults + 1 /\ Numbers(e)' \subseteq Numbers(e) /\ SameClaim(e)
    BY <1>11 DEF Drops
  <2>2. Strays(e)' \in SUBSET Strays(e) /\ Early(e)' \in SUBSET Early(e)
    <3>1. CASE rows[e] = Null
      BY <1>2, <2>1, <3>1 DEF SameClaim, Strays, Early
    <3>2. CASE rows[e] # Null
      BY <2>1, <3>2 DEF SameClaim, Strays, Early
    <3> QED
      BY <3>1, <3>2
  <2>3. /\ Cardinality(Strays(e))' \in Nat /\ Cardinality(Strays(e))' <= S
        /\ Cardinality(Early(e))' \in Nat /\ Cardinality(Early(e))' <= E
    BY <1>3, <2>2, FS_Subset, FS_CardinalityType
  <2>4. ASSUME rows'[e] # Null
        PROVE  /\ rows[e] # Null /\ rows'[e].attempts = k /\ (Pending(e)' <=> Pending(e))
               /\ Beyond(e)' \in Nat /\ Beyond(e) \in Nat /\ Beyond(e)' <= Beyond(e) + 1
    <3>1. rows[e] # Null /\ rows'[e].attempts = k /\ (Pending(e)' <=> Pending(e)) /\ k \in Nat
      BY <1>2, <2>1, <2>4 DEF SameClaim
    <3>2. Beyond(e)' \in {Excess(k), Excess(k + 1)} /\ (~InUse(e) => ~InUse(e)')
      BY <2>1, <3>1 DEF Beyond, InUse, SameClaim
    <3> QED
      BY <1>1, <3>1, <3>2 DEF Beyond, Excess
  <2> QED
    BY <1>1, <1>2, <1>3, <1>4, <2>1, <2>3, <2>4 DEF Budget
<1>12. CASE Expires(e)
  <2>1. /\ rows[e] # Null /\ Pending(e) /\ rows'[e].attempts = k
        /\ Numbers(e)' = Numbers(e) /\ ~Held(e)'
    BY <1>12 DEF Expires, EndedClaim, Pending
  <2>2. Strays(e)' = Numbers(e) /\ Early(e)' = Low(e) /\ Beyond(e)' = Excess(k + 1)
    BY <2>1, FreeClaim DEF Low
  <2>3. (faults' = faults /\ ~InUse(e)) \/ faults' = faults + 1
    BY <1>12 DEF Expires
  <2>4. CASE ~InUse(e)
    BY <1>1, <1>2, <1>3, <1>4, <2>1, <2>2, <2>3, <2>4, Counts DEF Budget, Beyond, Excess
  <2>5. CASE InUse(e)
    BY <1>1, <1>2, <1>3, <1>4, <2>1, <2>2, <2>3, <2>5, Counts DEF Budget, Beyond, Excess
  <2> QED
    BY <2>4, <2>5
<1> QED
  BY <1>5, <1>6, <1>7, <1>8, <1>9, <1>10, <1>11, <1>12 DEF EventStep

\* The handlers of e are as many as their numbers.
LEMMA HandlersCounted ==
  ASSUME ClaimsOrdered, NEW e \in Events
  PROVE  Cardinality({h \in handlers : h.event = e}) = Cardinality(Numbers(e))
<1> DEFINE H == {h \in handlers : h.event = e}
           f == [h \in H |-> h.attempts]
<1>1. \A h \in H : f[h] = h.attempts /\ h.attempts \in Numbers(e)
  BY DEF Numbers, NumbersIn
<1>2. \A n \in Numbers(e) : \E h \in H : h.attempts = n
  BY DEF Numbers, NumbersIn
<1>3. \A g, h \in H : g.attempts = h.attempts => g = h
  BY DEF ClaimsOrdered, Numbered
<1>4. f \in [H -> Numbers(e)] /\ DOMAIN f = H
  BY <1>1
<1> HIDE DEF f, H
<1>5. f \in Bijection(H, Numbers(e))
  BY <1>1, <1>2, <1>3, <1>4 DEF Bijection, Injection, Surjection, IsInjective
<1>6. IsFiniteSet(Numbers(e))
  BY NumbersFinite
<1>7. f \in Surjection(H, Numbers(e)) /\ f \in Injection(H, Numbers(e))
  BY <1>5 DEF Bijection
<1>8. Cardinality(H) = Cardinality(Numbers(e))
  BY <1>6, <1>7, FS_Injection
<1> QED
  BY <1>8 DEF H

Bounded == ClaimsOrdered /\ \A e \in Events : Budget(e)

LEMMA InitBounded == OutboxInit => Bounded
<1> SUFFICES ASSUME OutboxInit PROVE Bounded
  OBVIOUS
<1>1. ClaimsOrdered
  BY InitTyped DEF OutboxInit, ClaimsOrdered, Inductive, Numbered, NotAhead, LockedIsPending
<1>2. ASSUME NEW e \in Events
      PROVE  Budget(e)
  <2>1. rows[e] = Null /\ Numbers(e) = {} /\ faults = 0
    BY DEF OutboxInit, Numbers, NumbersIn
  <2>2. Strays(e) = {}
    BY <2>1 DEF Strays
  <2> QED
    BY <2>1, <2>2, FS_EmptySet DEF Budget
<1> QED
  BY <1>1, <1>2 DEF Bounded

LEMMA StepBounded == Bounded /\ [OutboxNext]_outboxVars => Bounded'
<1> SUFFICES ASSUME Bounded, [OutboxNext]_outboxVars PROVE Bounded'
  OBVIOUS
<1>1. ClaimsOrdered'
  BY StepClaimsOrdered DEF Bounded
<1>2. CASE OutboxNext
  <2>1. faults' \in Nat
    BY <1>1 DEF ClaimsOrdered, Inductive, OutboxTypeOK
  <2>2. \A e \in Events : EventStep(e)
    BY <1>1, <1>2, StepsOfClaims DEF Bounded
  <2> QED
    BY <1>1, <2>1, <2>2, StepBudget DEF Bounded
<1>3. CASE UNCHANGED outboxVars
  <2>1. \A e \in Events : Budget(e)'
    BY <1>3 DEF Bounded, Budget, Strays, Early, Beyond, InUse, Held, Pending,
                Numbers, NumbersIn, outboxVars
  <2> QED
    BY <1>1, <2>1 DEF Bounded
<1> QED
  BY <1>2, <1>3

LEMMA BoundedHolds == OutboxSpec => []Bounded
  BY InitBounded, StepBounded, PTL DEF OutboxSpec

\* Claims exclude each other: for any workers, events and batch size, at most
\* one handler works on an event, but for one more per crash, database error
\* or overrun claim (claimBatch, markPublished, markDeliveryFailed).
THEOREM ClaimsExclude == OutboxSpec => []ExclusiveDelivery
<1>1. Bounded => ExclusiveDelivery
  <2> SUFFICES ASSUME Bounded, NEW e \in Events
               PROVE  Cardinality({h \in handlers : h.event = e}) <= 1 + faults
    BY DEF ExclusiveDelivery
  <2>1. ClaimsOrdered /\ Cardinality(Strays(e)) <= faults /\ faults \in Nat
    BY DEF Bounded, Budget, ClaimsOrdered, Inductive, OutboxTypeOK
  <2>2. /\ Cardinality(Numbers(e)) \in Nat /\ Cardinality(Strays(e)) \in Nat
        /\ Cardinality(Numbers(e)) <= Cardinality(Strays(e)) + 1
    BY <2>1, Counts
  <2>3. Cardinality({h \in handlers : h.event = e}) = Cardinality(Numbers(e))
    BY <2>1, HandlersCounted
  <2> QED
    BY <2>1, <2>2, <2>3
<1> QED
  BY <1>1, BoundedHolds, PTL

\* An event is claimed more often than AUTH_OUTBOX_MAX_ATTEMPTS only as often
\* as a fault kept an outcome from being recorded: a stray handler that
\* releases a newer claim early was itself paid for by a fault.
THEOREM AttemptsStayBounded == OutboxSpec => []AttemptsBounded
<1>1. Bounded => AttemptsBounded
  BY DEF Bounded, Budget, AttemptsBounded
<1> QED
  BY <1>1, BoundedHolds, PTL

----------------------------------------------------------------------------
(* What conflicts pay for *)

\* The attempts at e that were answered 409 and are about to be marked failed.
Conflicting(e) == {h.attempts : h \in {g \in handlers : g.event = e /\ g.stage = "conflict"}}

GenerationOf(row) == IF row = Null THEN 0 ELSE row.generation

ConflictsPay(e) == GenerationOf(rows[e]) + Cardinality(Conflicting(e)) <= conflicts[e]

\* A handler and a key are of no generation the row has not reached.
GenerationsReached ==
  /\ \A h \in handlers : h.generation <= rows[h.event].generation
  /\ \A key \in inProgress \cup accepted : key.generation <= rows[key.event].generation

ConflictStep(e) ==
  \/ /\ GenerationOf(rows'[e]) = GenerationOf(rows[e])
     /\ Conflicting(e)' \subseteq Conflicting(e)
     /\ conflicts'[e] = conflicts[e]
  \/ /\ GenerationOf(rows'[e]) = GenerationOf(rows[e])
     /\ \E n \in Nat : Conflicting(e)' \subseteq Conflicting(e) \cup {n}
     /\ conflicts'[e] = conflicts[e] + 1
  \/ /\ GenerationOf(rows'[e]) = GenerationOf(rows[e]) + 1
     /\ \E n \in Conflicting(e) : Conflicting(e)' \subseteq Conflicting(e) \ {n}
     /\ conflicts'[e] = conflicts[e]

LEMMA GenerationColumns ==
  ASSUME NEW row \in Row
  PROVE  /\ \A w \in Workers : ClaimedBy(row, w).generation = row.generation
         /\ PublishedRow(row).generation = row.generation
         /\ [row EXCEPT !.due = TRUE].generation = row.generation
         /\ [row EXCEPT !.stale = TRUE].generation = row.generation
         /\ \A p, a \in BOOLEAN :
              FailedRow(row, p, a).generation = row.generation + (IF a THEN 1 ELSE 0)
<1>1. \A w \in Workers : ClaimedBy(row, w).generation = row.generation
  <2> TAKE w \in Workers
  <2> DEFINE n == row.attempts + 1
  <2>1. ClaimedBy(row, w) = [row EXCEPT !.attempts = n, !.lockedBy = w, !.stale = FALSE]
    BY DEF ClaimedBy
  <2> HIDE DEF n
  <2> QED
    BY <2>1 DEF Row
<1>2. PublishedRow(row).generation = row.generation
  BY DEF PublishedRow, Row
<1>3. [row EXCEPT !.due = TRUE].generation = row.generation
  BY DEF Row
<1>4. [row EXCEPT !.stale = TRUE].generation = row.generation
  BY DEF Row
<1>5. \A p, a \in BOOLEAN :
        FailedRow(row, p, a).generation = row.generation + (IF a THEN 1 ELSE 0)
  BY DEF FailedRow, Row
<1> QED
  BY <1>1, <1>2, <1>3, <1>4, <1>5

LEMMA ConflictingShrinks ==
  ASSUME NEW e,
         \A g \in handlers' : g.event = e /\ g.stage = "conflict" =>
           \E h \in handlers : h.event = e /\ h.stage = "conflict" /\ h.attempts = g.attempts
  PROVE  Conflicting(e)' \subseteq Conflicting(e)
BY DEF Conflicting

\* A handler that goes takes its conflict with it.
LEMMA ConflictEnds ==
  ASSUME Numbered, NEW h \in handlers, h.stage = "conflict",
         \A g \in handlers' :
           \E f \in handlers \ {h} :
             f.event = g.event /\ f.stage = g.stage /\ f.attempts = g.attempts
  PROVE  /\ h.attempts \in Conflicting(h.event)
         /\ \A e : e = h.event => Conflicting(e)' \subseteq Conflicting(e) \ {h.attempts}
BY DEF Numbered, Conflicting

LEMMA StaysPaid ==
  ASSUME NEW e, GenerationOf(rows'[e]) = GenerationOf(rows[e]), conflicts'[e] = conflicts[e],
         \A g \in handlers' : g.event = e /\ g.stage = "conflict" =>
           \E h \in handlers : h.event = e /\ h.stage = "conflict" /\ h.attempts = g.attempts
  PROVE  ConflictStep(e)
BY ConflictingShrinks DEF ConflictStep

LEMMA MovedHandlers ==
  ASSUME Tables, NEW h \in handlers, NEW stage \in Stage, MovesTo(h, stage), NEW g \in handlers'
  PROVE  \/ g \in handlers
         \/ g.event = h.event /\ g.stage = stage /\ g.attempts = h.attempts
BY DEF Tables, Handler, MovesTo

LEMMA RecordedFailure ==
  ASSUME ClaimsOrdered, NEW h \in handlers, h.stage \in Failure,
         HoldsClaim(h) /\ RecordsFailure(h),
         conflicts' = conflicts, NEW e \in Events,
         \A g \in handlers' :
           \E f \in handlers \ {h} :
             f.event = g.event /\ f.stage = g.stage /\ f.attempts = g.attempts
  PROVE  ConflictStep(e)
<1> DEFINE p   == PermanentlyFailed(h.stage, h.attempts)
           a   == AdvancesGeneration(h.stage)
           row == FailedRow(rows[h.event], p, a)
<1>1. /\ h.event \in Events /\ p \in BOOLEAN /\ a \in BOOLEAN
      /\ rows \in [Events -> Row \cup {Null}] /\ rows[h.event] \in Row
  BY DEF ClaimsOrdered, Inductive, OutboxTypeOK, Handler, PermanentlyFailed,
         AdvancesGeneration, HoldsClaim, Pending
<1>2. rows' = [rows EXCEPT ![h.event] = row]
  BY DEF RecordsFailure
<1>3. a <=> h.stage = "conflict"
  BY DEF AdvancesGeneration
<1> HIDE DEF p, a
<1>4. /\ row \in Row
      /\ row.generation = rows[h.event].generation + (IF a THEN 1 ELSE 0)
      /\ rows[h.event].generation \in Nat
  <2>1. row \in Row
    BY <1>1, FailedColumns
  <2>2. row.generation = rows[h.event].generation + (IF a THEN 1 ELSE 0)
    BY <1>1, GenerationColumns
  <2>3. rows[h.event].generation \in Nat
    BY <1>1 DEF Row
  <2> QED
    BY <2>1, <2>2, <2>3
<1> HIDE DEF row
<1>5. CASE e # h.event
  BY <1>1, <1>2, <1>5, StaysPaid
<1>6. CASE e = h.event /\ ~a
  <2>1. GenerationOf(rows'[e]) = GenerationOf(rows[e])
    BY <1>1, <1>2, <1>4, <1>6, NullRowAssumption DEF GenerationOf
  <2> QED
    BY <2>1, StaysPaid
<1>7. CASE e = h.event /\ a
  <2>1. GenerationOf(rows'[e]) = GenerationOf(rows[e]) + 1
    BY <1>1, <1>2, <1>4, <1>7, NullRowAssumption DEF GenerationOf
  <2>2. h.attempts \in Conflicting(e) /\ Conflicting(e)' \subseteq Conflicting(e) \ {h.attempts}
    BY <1>3, <1>7, ConflictEnds DEF ClaimsOrdered
  <2> QED
    BY <2>1, <2>2 DEF ConflictStep
<1> QED
  BY <1>5, <1>6, <1>7

LEMMA UnawaitedHandlers ==
  ASSUME Tables, NEW h \in handlers,
         handlers' = {IF g.worker = h.worker THEN [g EXCEPT !.awaited = FALSE] ELSE g :
                        g \in handlers \ {h}}
  PROVE  \A g \in handlers' :
           \E f \in handlers \ {h} :
             f.event = g.event /\ f.stage = g.stage /\ f.attempts = g.attempts
<1>1. \A g \in handlers : /\ [g EXCEPT !.awaited = FALSE].event = g.event
                          /\ [g EXCEPT !.awaited = FALSE].stage = g.stage
                          /\ [g EXCEPT !.awaited = FALSE].attempts = g.attempts
  BY DEF Tables, Handler
<1> TAKE g \in handlers'
<1>2. PICK f \in handlers \ {h} : g = f \/ g = [f EXCEPT !.awaited = FALSE]
  OBVIOUS
<1>3. f.event = g.event /\ f.stage = g.stage /\ f.attempts = g.attempts
  BY <1>1, <1>2
<1> QED
  BY <1>3

LEMMA StepsOfConflicts ==
  ASSUME ClaimsOrdered, OutboxNext, NEW e \in Events
  PROVE  ConflictStep(e)
<1>1. /\ Tables /\ rows \in [Events -> Row \cup {Null}] /\ conflicts \in [Events -> Nat]
      /\ handlers \subseteq Handler
  BY DEF ClaimsOrdered, Inductive, OutboxTypeOK, Tables
<1>2. ASSUME NEW i \in Events, EnqueueEvent(i)
      PROVE  ConflictStep(e)
  <2>1. NewRow(i).generation = 0 /\ NewRow(i) \in Row
    BY DEF NewRow, Row
  <2>2. GenerationOf(rows'[e]) = GenerationOf(rows[e])
    BY <1>1, <1>2, <2>1, NullRowAssumption DEF EnqueueEvent, GenerationOf
  <2> QED
    BY <1>2, <2>2, StaysPaid DEF EnqueueEvent
<1>3. ASSUME NEW w \in Workers, NEW batch \in Batches, Claim(w, batch)
      PROVE  GenerationOf(rows'[e]) = GenerationOf(rows[e])
  <2>1. CASE e \notin batch
    BY <1>3, <2>1 DEF Claim
  <2>2. CASE e \in batch
    <3>1. rows'[e] = ClaimedBy(rows[e], w) /\ rows[e] \in Row
      BY <1>1, <1>3, <2>2 DEF Claim, Batches, Claimable, Pending
    <3>2. rows'[e] \in Row /\ rows'[e].generation = rows[e].generation
      BY <3>1, GenerationColumns, ClaimedRowType
    <3> QED
      BY <3>1, <3>2, NullRowAssumption DEF GenerationOf
  <2> QED
    BY <2>1, <2>2
<1>4. CASE Poll
  <2>1. PICK w \in Workers : \E batch \in Batches : ClaimBatch(w, batch)
    BY <1>4 DEF Poll
  <2>2. PICK batch \in Batches : ClaimBatch(w, batch)
    BY <2>1
  <2>3. /\ Claim(w, batch) /\ conflicts' = conflicts
        /\ handlers' = handlers \cup {NewHandler(i, w) : i \in batch}
    BY <2>2 DEF ClaimBatch
  <2>4. \A i \in batch : NewHandler(i, w).stage = "send"
    BY DEF NewHandler
  <2> QED
    BY <1>3, <2>3, <2>4, StaysPaid
<1>5. ASSUME NEW i \in Events, BecomesDue(i) \/ ClaimExpires(i)
      PROVE  ConflictStep(e)
  <2>1. rows[i] \in Row /\ handlers' = handlers /\ conflicts' = conflicts
    BY <1>1, <1>5 DEF BecomesDue, ClaimExpires, Pending
  <2> DEFINE row == rows'[i]
  <2>2. /\ rows'[i] \in {[rows[i] EXCEPT !.due = TRUE], [rows[i] EXCEPT !.stale = TRUE]}
        /\ e # i => rows'[e] = rows[e]
    BY <1>1, <1>5 DEF BecomesDue, ClaimExpires
  <2>3. rows'[i] \in Row /\ rows'[i].generation = rows[i].generation
    BY <2>1, <2>2, GenerationColumns, RowOperationTypes
  <2>4. GenerationOf(rows'[e]) = GenerationOf(rows[e])
    BY <2>1, <2>2, <2>3, NullRowAssumption DEF GenerationOf
  <2> QED
    BY <2>1, <2>4, StaysPaid
<1>6. ASSUME NEW h \in handlers, NEW stage \in Stage \ {"conflict"}, MovesTo(h, stage),
             GenerationOf(rows'[e]) = GenerationOf(rows[e]), conflicts' = conflicts
      PROVE  ConflictStep(e)
  <2>1. \A g \in handlers' : g.stage = "conflict" => g \in handlers
    BY <1>1, <1>6, MovedHandlers
  <2> QED
    BY <1>6, <2>1, StaysPaid
<1>7. ASSUME NEW h \in handlers, RequestConflicts(h)
      PROVE  ConflictStep(e)
  <2>1. /\ MovesTo(h, "conflict") /\ rows' = rows
        /\ conflicts' = [conflicts EXCEPT ![h.event] = conflicts[h.event] + 1]
    BY <1>7 DEF RequestConflicts
  <2>2. \A g \in handlers' : \/ g \in handlers
                             \/ g.event = h.event /\ g.attempts = h.attempts
    BY <1>1, <2>1, MovedHandlers DEF Stage, Failure
  <2>3. CASE e # h.event
    <3>1. conflicts'[e] = conflicts[e]
      BY <1>1, <2>1, <2>3
    <3> QED
      BY <2>1, <2>2, <2>3, <3>1, StaysPaid
  <2>4. CASE e = h.event
    <3>1. conflicts'[e] = conflicts[e] + 1 /\ h.attempts \in Nat
      BY <1>1, <2>1, <2>4 DEF Handler
    <3>2. Conflicting(e)' \subseteq Conflicting(e) \cup {h.attempts}
      BY <2>2, <2>4 DEF Conflicting
    <3> QED
      BY <2>1, <3>1, <3>2 DEF ConflictStep
  <2> QED
    BY <2>3, <2>4
<1>8. ASSUME NEW h \in handlers, HoldsClaim(h),
             rows' = [rows EXCEPT ![h.event] = PublishedRow(@)]
      PROVE  GenerationOf(rows'[e]) = GenerationOf(rows[e])
  <2>1. h.event \in Events /\ rows[h.event] \in Row
    BY <1>1, <1>8 DEF HoldsClaim, Pending, Handler
  <2>2. rows'[h.event] = PublishedRow(rows[h.event]) /\ (e # h.event => rows'[e] = rows[e])
    BY <1>1, <1>8, <2>1
  <2>3. rows'[h.event] \in Row /\ rows'[h.event].generation = rows[h.event].generation
    BY <2>1, <2>2, GenerationColumns, RowOperationTypes
  <2> QED
    BY <2>1, <2>2, <2>3, NullRowAssumption DEF GenerationOf
<1>9. ASSUME NEW h \in handlers, Handle(h)
      PROVE  ConflictStep(e)
  <2>1. CASE MapRejects(h) \/ RequestTaken(h) \/ RequestSucceeds(h)
    BY <1>6, <2>1 DEF MapRejects, RequestTaken, RequestSucceeds, Stage, Failure
  <2>2. CASE \/ RequestGivenUp(h) \/ RequestTimesOut(h) \/ ClaimWasLost(h)
             \/ \E failure \in {"retryable", "rejected"} : RequestRefused(h, failure)
    BY <1>6, <2>2 DEF RequestGivenUp, RequestTimesOut, ClaimWasLost, RequestRefused, Stage, Failure
  <2>3. CASE MarkPublished(h)
    BY <1>8, <2>3, StaysPaid DEF MarkPublished
  <2>4. CASE MarkDeliveryFailed(h)
    BY <2>4, RecordedFailure, StaysPaid DEF MarkDeliveryFailed
  <2> QED
    BY <1>7, <1>9, <2>1, <2>2, <2>3, <2>4 DEF Handle
<1>10. ASSUME NEW w \in Workers, Crash(w)
       PROVE  ConflictStep(e)
  BY <1>10, StaysPaid DEF Crash
<1>11. ASSUME NEW w \in Workers, NEW batch \in Batches, ClaimError(w, batch)
       PROVE  ConflictStep(e)
  BY <1>3, <1>11, StaysPaid DEF ClaimError
<1>12. ASSUME NEW h \in handlers, MarkPublishedError(h)
       PROVE  ConflictStep(e)
  <2>1. GenerationOf(rows'[e]) = GenerationOf(rows[e])
    BY <1>8, <1>12 DEF MarkPublishedError
  <2> QED
    BY <1>6, <1>12, <2>1 DEF MarkPublishedError, Stage, Failure
<1>13. ASSUME NEW h \in handlers, MarkDeliveryFailedError(h)
       PROVE  ConflictStep(e)
  <2>1. \A g \in handlers' :
          \E f \in handlers \ {h} :
            f.event = g.event /\ f.stage = g.stage /\ f.attempts = g.attempts
    BY <1>1, <1>13, UnawaitedHandlers DEF MarkDeliveryFailedError
  <2>2. h.stage \in Failure /\ conflicts' = conflicts
    BY <1>13 DEF MarkDeliveryFailedError
  <2>3. CASE rows' = rows
    <3>1. \A g \in handlers' : g.event = e /\ g.stage = "conflict" =>
            \E f \in handlers : f.event = e /\ f.stage = "conflict" /\ f.attempts = g.attempts
      BY <2>1
    <3> QED
      BY <2>2, <2>3, <3>1, StaysPaid
  <2>4. CASE HoldsClaim(h) /\ RecordsFailure(h)
    BY <2>1, <2>2, <2>4, RecordedFailure
  <2> QED
    BY <1>13, <2>3, <2>4 DEF MarkDeliveryFailedError
<1>14. CASE ServiceStep
  BY <1>14, StaysPaid DEF ServiceStep, ServiceAccepts, ServiceGivesUp
<1> QED
  BY <1>2, <1>4, <1>5, <1>9, <1>10, <1>11, <1>12, <1>13, <1>14
     DEF OutboxNext, Elapse, HandleSome, Misfortune

Paid == Bounded /\ GenerationsReached /\ \A e \in Events : ConflictsPay(e)

LEMMA ConflictingFinite ==
  ASSUME ClaimsOrdered, NEW e \in Events
  PROVE  /\ IsFiniteSet(Conflicting(e)) /\ Cardinality(Conflicting(e)) \in Nat
         /\ GenerationOf(rows[e]) \in Nat
<1>1. Conflicting(e) \in SUBSET Numbers(e) /\ IsFiniteSet(Numbers(e))
  BY NumbersFinite DEF Conflicting, Numbers, NumbersIn
<1>2. GenerationOf(rows[e]) \in Nat
  BY DEF ClaimsOrdered, Inductive, OutboxTypeOK, GenerationOf, Row
<1> QED
  BY <1>1, <1>2, FS_Subset, FS_CardinalityType

LEMMA StepConflictsPay ==
  ASSUME ClaimsOrdered, NEW e \in Events, ConflictsPay(e), ConflictStep(e),
         conflicts \in [Events -> Nat]
  PROVE  ConflictsPay(e)'
<1> DEFINE C == Conflicting(e)
<1>1. /\ IsFiniteSet(C) /\ Cardinality(C) \in Nat
      /\ GenerationOf(rows[e]) \in Nat /\ conflicts[e] \in Nat
  BY ConflictingFinite
<1>2. \A set \in SUBSET C : Cardinality(set) \in Nat /\ Cardinality(set) <= Cardinality(C)
  BY <1>1, FS_Subset, FS_CardinalityType
<1>3. ASSUME GenerationOf(rows'[e]) = GenerationOf(rows[e]), conflicts'[e] = conflicts[e],
             Conflicting(e)' \subseteq C
      PROVE  ConflictsPay(e)'
  BY <1>1, <1>2, <1>3 DEF ConflictsPay
<1>4. ASSUME GenerationOf(rows'[e]) = GenerationOf(rows[e]), conflicts'[e] = conflicts[e] + 1,
             NEW n \in Nat, Conflicting(e)' \subseteq C \cup {n}
      PROVE  ConflictsPay(e)'
  <2>1. IsFiniteSet(C \cup {n}) /\ Cardinality(C \cup {n}) <= Cardinality(C) + 1
    BY <1>1, FS_AddElement
  <2>2. Cardinality(C \cup {n}) \in Nat
    BY <2>1, FS_CardinalityType
  <2>3. Cardinality(Conflicting(e))' \in Nat
        /\ Cardinality(Conflicting(e))' <= Cardinality(C \cup {n})
    BY <1>4, <2>1, FS_Subset, FS_CardinalityType
  <2> QED
    BY <1>1, <1>4, <2>1, <2>2, <2>3 DEF ConflictsPay
<1>5. ASSUME GenerationOf(rows'[e]) = GenerationOf(rows[e]) + 1, conflicts'[e] = conflicts[e],
             NEW n \in C, Conflicting(e)' \subseteq C \ {n}
      PROVE  ConflictsPay(e)'
  <2>1. IsFiniteSet(C \ {n}) /\ Cardinality(C \ {n}) = Cardinality(C) - 1
    BY <1>1, OneGone
  <2>2. Cardinality(Conflicting(e))' \in Nat
        /\ Cardinality(Conflicting(e))' <= Cardinality(C \ {n})
    BY <1>5, <2>1, FS_Subset, FS_CardinalityType
  <2> QED
    BY <1>1, <1>5, <2>1, <2>2 DEF ConflictsPay
<1> QED
  BY <1>3, <1>4, <1>5 DEF ConflictStep

LEMMA GenerationGrows ==
  ASSUME NEW e \in Events, RowStep(e), rows[e] \in Row
  PROVE  rows'[e] \in Row /\ rows[e].generation <= rows'[e].generation
<1>1. rows[e].generation \in Nat /\ rows[e] # Null
  BY NullRowAssumption DEF Row
<1>2. rows'[e] \in Row
  BY RowStays
<1>3. ASSUME NEW p \in BOOLEAN, NEW a \in BOOLEAN, rows'[e] = FailedRow(rows[e], p, a)
      PROVE  rows[e].generation <= rows'[e].generation
  <2>1. FailedRow(rows[e], p, a).generation = rows[e].generation + (IF a THEN 1 ELSE 0)
    BY GenerationColumns
  <2> QED
    BY <1>1, <1>3, <2>1
<1>4. ASSUME NEW w \in Workers, rows'[e] = ClaimedBy(rows[e], w)
      PROVE  rows[e].generation = rows'[e].generation
  <2>1. ClaimedBy(rows[e], w).generation = rows[e].generation
    BY GenerationColumns
  <2> QED
    BY <1>4, <2>1
<1>5. ASSUME rows'[e] \in {PublishedRow(rows[e]), [rows[e] EXCEPT !.due = TRUE],
                          [rows[e] EXCEPT !.stale = TRUE]}
      PROVE  rows[e].generation = rows'[e].generation
  BY <1>5, GenerationColumns
<1> QED
  BY <1>1, <1>2, <1>3, <1>4, <1>5 DEF RowStep

LEMMA StepGenerationsReached ==
  ASSUME Inductive, GenerationsReached, OutboxNext
  PROVE  GenerationsReached'
<1>1. /\ Tables /\ \A e \in Events : RowStep(e)
      /\ rows \in [Events -> Row \cup {Null}] /\ handlers \subseteq Handler
      /\ inProgress \cup accepted \subseteq IdempotencyKey
  BY StepsOfRows DEF Inductive, OutboxTypeOK, Tables
<1>2. \A e \in Events : rows[e] # Null =>
        /\ rows[e].generation \in Nat /\ rows'[e].generation \in Nat
        /\ rows[e].generation <= rows'[e].generation
  BY <1>1, GenerationGrows DEF Row
<1>3. \A h \in handlers : /\ h.event \in Events /\ h.generation \in Nat
                          /\ h.generation <= rows'[h.event].generation
  BY <1>1, <1>2 DEF Inductive, WorkIsRecorded, GenerationsReached, Handler
<1>4. ASSUME NEW g \in handlers'
      PROVE  g.generation <= rows'[g.event].generation
  <2>1. ASSUME NEW h \in handlers, g = h \/ g = Unawaited(h)
        PROVE  g.event = h.event /\ g.generation = h.generation
    BY <1>1, <2>1 DEF Handler, Unawaited
  <2>2. ASSUME NEW h \in handlers, NEW stage \in Stage, g = Moved(h, stage)
        PROVE  g.event = h.event /\ g.generation = h.generation
    BY <1>1, <2>2 DEF Handler, Moved
  <2>3. ASSUME NEW e \in Events, NEW w \in Workers, Pending(e), g = NewHandler(e, w)
        PROVE  g.generation <= rows'[g.event].generation
    BY <1>2, <2>3 DEF NewHandler, Pending
  <2>4. HandlerStep(g)
    BY <1>1, StepsOfHandlers
  <2> QED
    BY <1>3, <2>1, <2>2, <2>3, <2>4 DEF HandlerStep
<1>5. ASSUME NEW key \in inProgress' \cup accepted'
      PROVE  key.generation <= rows'[key.event].generation
  <2>1. key \in inProgress \cup accepted \/ \E h \in handlers : key = KeyOf(h)
    BY <1>1, StepsOfService
  <2>2. CASE key \in inProgress \cup accepted
    <3>1. key.event \in Events /\ key.generation \in Nat
      BY <1>1, <2>2 DEF IdempotencyKey
    <3> QED
      BY <1>2, <2>2, <3>1 DEF Inductive, WorkIsRecorded, GenerationsReached
  <2>3. ASSUME NEW h \in handlers, key = KeyOf(h)
        PROVE  key.event = h.event /\ key.generation = h.generation
    BY <2>3 DEF KeyOf
  <2> QED
    BY <1>3, <2>1, <2>2, <2>3
<1> QED
  BY <1>4, <1>5 DEF GenerationsReached

LEMMA InitPaid == OutboxInit => Paid
<1> SUFFICES ASSUME OutboxInit PROVE Paid
  OBVIOUS
<1>1. GenerationsReached
  BY DEF OutboxInit, GenerationsReached
<1>2. ASSUME NEW e \in Events
      PROVE  ConflictsPay(e)
  <2>1. Conflicting(e) = {} /\ GenerationOf(rows[e]) = 0 /\ conflicts[e] = 0
    BY DEF OutboxInit, Conflicting, GenerationOf
  <2> QED
    BY <2>1, FS_EmptySet DEF ConflictsPay
<1> QED
  BY <1>1, <1>2, InitBounded DEF Paid

LEMMA StepPaid == Paid /\ [OutboxNext]_outboxVars => Paid'
<1> SUFFICES ASSUME Paid, [OutboxNext]_outboxVars PROVE Paid'
  OBVIOUS
<1>1. ClaimsOrdered /\ Inductive /\ conflicts \in [Events -> Nat]
  BY DEF Paid, Bounded, ClaimsOrdered, Inductive, OutboxTypeOK
<1>2. Bounded'
  BY StepBounded DEF Paid
<1>3. CASE OutboxNext
  BY <1>1, <1>2, <1>3, StepsOfConflicts, StepConflictsPay, StepGenerationsReached DEF Paid
<1>4. CASE UNCHANGED outboxVars
  <2>1. GenerationsReached'
    BY <1>4 DEF Paid, GenerationsReached, outboxVars
  <2>2. \A e \in Events : ConflictsPay(e)'
    BY <1>4 DEF Paid, ConflictsPay, Conflicting, outboxVars
  <2> QED
    BY <1>2, <2>1, <2>2 DEF Paid
<1> QED
  BY <1>3, <1>4

\* The keys of e are of the generations its row has had.
LEMMA KeysCounted ==
  ASSUME Inductive, GenerationsReached, NEW e \in Events
  PROVE  /\ Cardinality({key \in accepted : key.event = e}) \in Nat
         /\ Cardinality({key \in accepted : key.event = e}) <= 1 + GenerationOf(rows[e])
<1> DEFINE K == {key \in accepted : key.event = e}
           n == GenerationOf(rows[e])
           generationOf == [key \in K |-> key.generation]
<1>1. /\ accepted \subseteq IdempotencyKey /\ rows \in [Events -> Row \cup {Null}]
      /\ \A key \in K : rows[e] # Null /\ key.generation <= rows[e].generation
  BY DEF Inductive, OutboxTypeOK, WorkIsRecorded, GenerationsReached
<1>2. n \in Nat
  BY <1>1 DEF GenerationOf, Row
<1>3. \A key \in K : key.generation \in 0 .. n
  BY <1>1, <1>2 DEF GenerationOf, IdempotencyKey
<1>4. \A k1, k2 \in K : k1.generation = k2.generation => k1 = k2
  BY <1>1 DEF IdempotencyKey
<1>5. /\ generationOf \in [K -> 0 .. n]
      /\ \A key \in K : generationOf[key] = key.generation
  BY <1>3
<1> HIDE DEF K, n, generationOf
<1>6. generationOf \in Injection(K, 0 .. n)
  BY <1>4, <1>5 DEF Injection, IsInjective
<1>7. IsFiniteSet(0 .. n) /\ Cardinality(0 .. n) = n + 1
  BY <1>2, FS_Interval
<1>8. Cardinality(K) <= n + 1
  BY <1>6, <1>7, FS_Injection DEF ExistsInjection
<1>9. IsFiniteSet(K) /\ Cardinality(K) \in Nat
  BY <1>6, <1>7, FS_Injection, FS_CardinalityType DEF ExistsInjection
<1> QED
  BY <1>2, <1>8, <1>9 DEF K, n

\* Nothing but a 409 answer makes an event be mailed once more: time-outs,
\* crashes, expired claims and second workers reuse the key of their
\* generation, which markDeliveryFailed advances once per conflict.
THEOREM MailsAreExplained == OutboxSpec => []MailsNeedConflicts
<1>1. Paid => MailsNeedConflicts
  <2> SUFFICES ASSUME Paid, NEW e \in Events
               PROVE  Cardinality({key \in accepted : key.event = e}) <= 1 + conflicts[e]
    BY DEF MailsNeedConflicts
  <2>1. Inductive /\ ClaimsOrdered /\ conflicts[e] \in Nat
    BY DEF Paid, Bounded, ClaimsOrdered, Inductive, OutboxTypeOK
  <2>2. GenerationOf(rows[e]) \in Nat /\ GenerationOf(rows[e]) <= conflicts[e]
    BY <2>1, ConflictingFinite DEF Paid, ConflictsPay
  <2>3. /\ Cardinality({key \in accepted : key.event = e}) \in Nat
        /\ Cardinality({key \in accepted : key.event = e}) <= 1 + GenerationOf(rows[e])
    BY <2>1, KeysCounted DEF Paid
  <2>4. 1 + GenerationOf(rows[e]) <= 1 + conflicts[e]
    BY <2>1, <2>2
  <2> QED
    BY <2>1, <2>2, <2>3, <2>4
<1> QED
  BY <1>1, InitPaid, StepPaid, PTL DEF OutboxSpec

=============================================================================
