CONSTANTS
  Phones = {p1}
  Tills = {t1, t2}
  Readers = {s1}
  Values = {v}
  Earned = {2}
  Asked <- MCAsked
  Int32Max = 3
  HistoryLimit = 2
  MaxPostings = 4
SPECIFICATION SpecCustomers
INVARIANTS HistoryExplainsBalance
PROPERTY NothingKnownIsLost
SYMMETRY MCSymmetry
CHECK_DEADLOCK FALSE
