CONSTANTS
  Sales = {s1, s2}
  Calls = {c1, c2}
  Documents = {doc1, doc2}
  Cancels = {x1, x2}
  NoUuid = NoUuid
  Empty = Empty
SPECIFICATION Spec
INVARIANTS TypeOK RowsHaveOwnDocument
PROPERTIES CancelsOneDocument CancelledStaysCancelled
CHECK_DEADLOCK FALSE
