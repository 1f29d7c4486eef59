\* Two password calls and a login in flight, two links that expire.
SPECIFICATION PMSpec
CONSTANTS
  Users = {u1}
  Passwords = {p1, p2}
  SessionIds = {s1}
  Requests = {r1}
  Null = Null
  LockoutThreshold = 3
  LockoutDuration = 1
  IdleTimeout = 2
  AbsoluteTimeout = 2
  RememberMeTimeout = 2
  ClockDrift = 0
  MaxTime = 1
  MaxGeneration = 0
  MaxFailedAttempts = 0
  MaxHashVersion = 1
  ResetTokens = {t1, t2}
  Calls = {c1, c2}
  ResetValidity = 1
  TerminateSessionsOnPasswordReset = TRUE
  TerminateOtherSessionsOnPasswordChange = TRUE
SYMMETRY Symmetry
INVARIANTS PMTypeOK OutstandingLinkIsCurrent SessionsFollowPassword
PROPERTY ReplacementIsAuthorised
