SPECIFICATION OutboxSpec
CONSTANTS
  Events = {e1}
  TokenEvents = {e1}
  Workers = {w1}
  Null = Null
  BatchSize = 1
  MaxAttempts = 3
  MaxFaults = 0
INVARIANTS
  MailedOnce
CHECK_DEADLOCK FALSE
