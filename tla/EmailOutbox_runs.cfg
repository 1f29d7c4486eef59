\* Two events, one with a token, that two workers claim in batches.
SPECIFICATION FairOutboxSpec
CONSTANTS
  Events = {e1, e2}
  TokenEvents = {e1}
  Workers = {w1, w2}
  Null = Null
  BatchSize = 2
  MaxAttempts = 2
  MaxFaults = 1
INVARIANTS
  OutboxTypeOK
  ExclusiveDelivery
  AttemptsBounded
  MailsNeedConflicts
  TokenKeptUntilSettled
PROPERTY
  ImplementsContract
\* All events settle.
CHECK_DEADLOCK FALSE
