CONSTANTS
  Dates <- MCDates
  MonthOf <- MCMonthOf
  Totals <- MCTotals
  Rfcs <- MCRfcs
  Codes <- MCCodes
  Issued = "64000"
SPECIFICATION SpecXml
INVARIANTS AmountsAdd SealFitsOneDocument
CHECK_DEADLOCK FALSE
