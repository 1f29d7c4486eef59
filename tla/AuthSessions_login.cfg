\* Two logins in flight while the password is replaced, the account locks,
\* unlocks and changes status; every timeout is one tick.
SPECIFICATION Spec
CONSTANTS
  Users = {u1}
  Passwords = {p1, p2}
  SessionIds = {s1}
  Requests = {r1, r2}
  Null = Null
  LockoutThreshold = 3
  LockoutDuration = 1
  IdleTimeout = 1
  AbsoluteTimeout = 1
  RememberMeTimeout = 1
  ClockDrift = 0
  MaxTime = 2
  MaxGeneration = 0
  MaxFailedAttempts = 4
  MaxHashVersion = 1
SYMMETRY Symmetry
INVARIANT LockoutConsistent
PROPERTIES SessionsNeedCurrentCredentials LockHolds
