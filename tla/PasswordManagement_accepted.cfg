\* Two reset requests for one account overlap; the one that began first gets
\* the row lock second.
SPECIFICATION PMSpec
CONSTANTS
  Users = {u1}
  Passwords = {p1}
  SessionIds = {s1}
  Requests = {r1}
  Null = Null
  LockoutThreshold = 3
  LockoutDuration = 1
  IdleTimeout = 2
  AbsoluteTimeout = 2
  RememberMeTimeout = 2
  ClockDrift = 0
  MaxTime = 1
  MaxGeneration = 0
  MaxFailedAttempts = 0
  MaxHashVersion = 1
  ResetTokens = {t1, t2}
  Calls = {c1, c2}
  ResetValidity = 1
  TerminateSessionsOnPasswordReset = TRUE
  TerminateOtherSessionsOnPasswordChange = TRUE
INVARIANT RequestAlwaysAccepted
