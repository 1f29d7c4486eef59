\* One browser, two logins, two requests on their way at one time.
SPECIFICATION CookieSpec
CONSTANTS
  Sessions = {s1, s2}
  Requests = {r1, r2}
  Faults = TRUE
  MaxGeneration = 2
  Null = Null
SYMMETRY Interchangeable
INVARIANTS
  CookieTypeOK
  TokensMoveForward
  ClearedCookieIsDead
  CarefulBrowserStaysIn
PROPERTY ChangeKeepsMySession
