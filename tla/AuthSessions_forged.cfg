\* A token that was never issued, presented to refresh while the account is
\* temporarily locked.
SPECIFICATION Spec
CONSTANTS
  Users = {u1}
  Passwords = {p1, p2}
  SessionIds = {s1}
  Requests = {r1}
  Null = Null
  LockoutThreshold = 3
  LockoutDuration = 2
  IdleTimeout = 2
  AbsoluteTimeout = 3
  RememberMeTimeout = 5
  ClockDrift = 0
  MaxTime = 1
  MaxGeneration = 0
  MaxFailedAttempts = 3
  MaxHashVersion = 0
PROPERTY ForgedTokenRevokesNothing
