CONSTANTS
  Phones = {p1}
  Handlers = {h1, h2}
  Totals <- MCTotals
  Redemptions <- MCRedemptions
  MaxSpent <- MCMaxSpent
  Int32Max = 5500
  Free = Free
SPECIFICATION FairSpec
INVARIANTS TypeOK LedgerBalances PointsWithinSpend TierFollowsSpend
PROPERTIES StandingNeverDrops ImplementsAccounts LocksAreReleased
