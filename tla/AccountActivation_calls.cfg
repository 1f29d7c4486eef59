\* Three calls at a time about one address: signups, re-issues and completions
\* of one link, that wait for each other.
SPECIFICATION FairSpec
CONSTANTS
  Users = {u1}
  Passwords = {p1, p2}
  Links = {l1, l2}
  Calls = {c1, c2, c3}
  Validity = 1
  MaxTime = 1
  Null = Null
INVARIANTS
  ActTypeOK
  OneOutstandingLink
  ActivatedOnce
  ActiveHasNoLink
  PendingHasLink
PROPERTIES
  LinksActivateInTime
  EveryCallEnds
\* The random links are used up.
CHECK_DEADLOCK FALSE
