\* A logout and another request; no connection is lost or late.
SPECIFICATION LocksSpec
CONSTANTS
  Calls = {c1, c2}
  OldSessions = {s1}
  OldLinks = {l1}
  PoolSize = 2
  Outages = FALSE
  Null = Null
INVARIANT LogoutSucceeds
CHECK_DEADLOCK FALSE
