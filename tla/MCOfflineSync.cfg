CONSTANTS
  Sales = {s1, s2}
  Calls = {c1, c2}
  Syncs = {k1, k2}
  MaxTimers = 1
  None = None
SPECIFICATION FairSpec
INVARIANTS NoSaleLost FlagHasOwner
PROPERTIES SyncsEnd
