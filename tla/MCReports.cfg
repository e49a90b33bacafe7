CONSTANTS
  Tenants = {a, b}
  Sales = {s1, s2}
  Names = {p, q}
  Reports = {r1}
  DayLength = 2
  Ahead = 1
  Back = 1
  CloseLimit = 1
  PeriodLimit = 1
  NewestLimit = 1
  InvoiceLimit = 1
  DayLimit = 1
  CartLimit = 1
  MinTime = 1
  MaxTime = 2
SPECIFICATION SpecReports
INVARIANTS NoForeignSales OwnSalesAreCounted PastCloseIsFinal
SYMMETRY MCSymmetry
CHECK_DEADLOCK FALSE
