CONSTANTS
  Sales = {s1}
  Calls = {c1, c2}
  Syncs = {k1, k2}
  MaxTimers = 2
  None = None
SPECIFICATION Spec
INVARIANT OneUploadAtATime
