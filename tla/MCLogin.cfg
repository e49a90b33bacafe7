CONSTANTS
  Requests = {r1, r2, r3, r4}
  Hosts = {h1, h2}
  Ports = {p1}
  NoHeader = NoHeader
  MaxAttempts = 2
  LongWindow = 3
  ShortWindow = 1
  MaxTime = 3
SPECIFICATION SpecLogin
INVARIANTS LimitHolds
PROPERTY RefusalsHaveCause
SYMMETRY MCSymmetry
CHECK_DEADLOCK FALSE
