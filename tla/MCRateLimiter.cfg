SPECIFICATION FairSpec
CONSTANTS
  Ips = {ip1}
  Requests = {r1, r2, r3, r4, r5}
  MaxFailures = 2
  Window = 2
  Cooldown = 3
INVARIANTS LockoutNeedsBurst AttemptsBounded LockoutBounded
PROPERTY LockoutEnds
CHECK_DEADLOCK FALSE
