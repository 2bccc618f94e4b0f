SPECIFICATION FairSpec
CONSTANTS
  u1 = u1
  pool = pool
  Pool = pool
  Users <- MCUsers
  Voters <- MCUsers
  Amounts <- MCAmounts
  Coverages <- MCAmounts
  Weights <- MCAmounts
  Durations <- MCDurations
  Thresholds <- MCThresholds
  NoAction = NoAction
  MinStake = 1
  U32 = 3
  I128Half = 512
  MaxPolicies = 1
  PoolExports <- ShortNames
  ClaimsExports <- ShortNames
  Funds = 2
  MaxTime = 1
  VotingPeriod = 0
  MaxClaims = 2
  MaxProposals = 1
  MaxDirectPaid = 1
  MaxPaid = 5
\* the model stops when its clock and its counters do
CHECK_DEADLOCK FALSE
INVARIANT SuiteAgrees
PROPERTY ClaimIsClosed
