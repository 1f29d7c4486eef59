\* One session rotated twice, tokens presented again and late,
\* clocks one tick apart, an account that locks after three failures.
SPECIFICATION Spec
CONSTANTS
  Users = {u1}
  Passwords = {p1, p2}
  SessionIds = {s1}
  Requests = {r1}
  Null = Null
  LockoutThreshold = 3
  LockoutDuration = 2
  IdleTimeout = 2
  AbsoluteTimeout = 3
  RememberMeTimeout = 5
  ClockDrift = 1
  MaxTime = 4
  MaxGeneration = 2
  MaxFailedAttempts = 3
  MaxHashVersion = 0
SYMMETRY Symmetry
INVARIANTS TypeOK RotationHistory ClosedSessionsRevoked SessionDeadlines
PROPERTY DeadSessionsFrozen
