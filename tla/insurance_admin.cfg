SPECIFICATION MCSpec
CONSTANTS
  p1 = p1
  p2 = p2
  h1 = h1
  h2 = h2
  photo = photo
  report = report
  deployer = deployer
  other = other
  NoOne = NoOne
  Never = Never
  Accounts = {deployer, other}
  Deployer = deployer
  Roles = {"Assessor"}
  Delay = 1
  BPS = 4
  MaxTime = 3
  Providers = {p1, p2}
  Deposits = {1, 2}
  Premiums = {3}
  Payouts = {2}
  FeeRate = 1
  REWARD_PRECISION = 2
  VestingConfigs <- MCVestingConfigs
  MaxPaidIn = 7
  Holders = {h1, h2}
  Assessors = {h1}
  Coverages = {4}
  Deductibles = {1}
  ClaimAmounts = {1, 3, 4}
  Durations = {2}
  Kinds = {"Standard", "Event101"}
  EvidenceTypes = {photo, report}
  Capital = 5
  PremiumShare = 0
  MaxCoverageRatio = 4
  Cooldown = 1
  DisputeWindow = 1
  Threshold = 0
  Retention = 0
  RecoveryLimit = 1
  AgreementEnd = 2
  BatchLists <- MCBatchLists
  MAX_BATCH_SIZE = 2
  StartTime = 1
  MaxPolicies = 1
  MaxClaims = 2
  MaxEnd = 5
  Claims = {1, 2}
  Claimant <- MCClaimant
  Reviewers = {"assessor", "second"}
  NoVerifier = "none"
  MaxEvidence = 2
SYMMETRY Symmetry
\* the clock stops, and nobody may be left to administer
CHECK_DEADLOCK FALSE
PROPERTY AdminHasRights
