CONSTANTS
  Requests = {r1, r2, r3, r4, r5}
  MinRequests = 2
  Tolerance = 3
SPECIFICATION FairSpec
INVARIANTS TypeOK CountersCount ProbeMeansSecondary
PROPERTIES SwitchHasCause PrimaryRecovers
