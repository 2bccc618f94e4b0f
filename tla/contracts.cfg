SPECIFICATION MCSpec
CONSTANTS
  u1 = u1
  u2 = u2
  pool = pool
  none = none
  Users = {u1, u2}
  Pool = pool
  Amounts <- Signed
  MinStake = 1
  Funds = 3
  MaxPaid = 4
  PolicyIds = {1, 2}
  Claimants = {u1, u2}
  ClaimAmounts <- Signed
  MaxClaims = 3
  Policyholders = {u1, u2}
  Coverages = {2}
  Durations = {0, 1, 2}
  MaxPolicies = 2
  U32 = 8
  Voters = {u1, u2}
  Weights <- VoteWeights
  Thresholds = {50}
  GovActions = {"call"}
  NoAction = "none"
  VotingPeriod = 1
  MaxProposals = 2
  I128Half = 512
  Targets = {"target"}
  Roles = {"oracle", "voter"}
  SlashAmounts = {1}
  Cooldowns = {0, 2}
  NoParams = NoParams
  MAX_HISTORY = 2
  U64 = 8
  MaxViolations = 3
  FracTokens = {1}
  FracHolders = {u1, u2}
  NoMinter = none
  FracAmounts = {0, 1, 2}
  FracDividends = {2, 3}
  U128 = 4
  MaxIndex = 3
  FeeAccounts = {u1, u2}
  FirstConfig <- MCFirstConfig
  OpConfigs <- MCOpConfigs
  NoConfig = none
  FeeAmounts = {21}
  ShareRates <- MCShareRates
  MinBids = {1}
  Bids = {1, 2, 3}
  AuctionTimes = {1}
  NoBidder = none
  CONGESTION_WINDOW = 2
  MAX_CONGESTION_MULTIPLIER = 300
  Window = 0
  MaxCollected = 42
  MaxAuctions = 1
  Properties = {1}
  Sources = {"chain", "manual", "ai"}
  FeedOf <- MCFeedOf
  SourceConfigs <- MCSourceConfigs
  NoSource = none
  AdminValues = {11}
  Confidences = {50}
  NoValuation = none
  NotPending = none
  PropertyStep = 1
  MinSources = 2
  OutlierThreshold = 2
  MaxStaleness = 1
  FirstReputation = 1
  Gain = 1
  Loss = 1
  Floor = 1
  TopReputation = 1
  KeptValuations = 1
  MaxValuationRequests = 1
  Subjects = {u1, u2}
  Owner = "owner"
  Providers = {"kyc"}
  Jurisdictions = {"EU", "Other"}
  KycFirstRules <- MCKycFirstRules
  KycRuleChanges <- MCKycRuleChanges
  NoRules = none
  Evidence <- MCKycEvidence
  Levels = {"Low", "Prohibited"}
  Consents = {"Given", "Withdrawn"}
  RiskCounts = {0, 1, 3}
  NoData = none
  NoRequest = none
  Validity = 1
  MaxLog = 5
  MaxRequests = 3
  Provers = {u1, u2}
  ZkVerifiers = {"verifier"}
  ProofTypes = {"income"}
  SelfVerified <- MCSelfVerified
  ProofValidity = 1
  PrivacyLevels = {1, 3, 6}
  NoLevel = 256
  MaxProofs = 2
  MaxEntries = 4
  Estates = {1, 2}
  Registrar = "registrar"
  Keepers = {"keeper"}
  Cids <- MCCids
  Metadata <- MCMetadata
  NoMetadata = none
  FileSizes = {1, 2}
  MimeTypes = {"pdf", "doc"}
  IpfsFirstRules <- MCIpfsFirstRules
  IpfsRuleChanges <- MCIpfsRuleChanges
  NoDocument = none
  MaxDocuments = 3
  MaxTime = 3
SYMMETRY Symmetry
\* a contract stops when its clock and its counters do
CHECK_DEADLOCK FALSE
INVARIANTS
  StorageTypeOK Solvent LockMatchesOpenClaim TallyMatchesRecords ExecutedMetThreshold
  HistoryIsLatestViolations
  FeeBooksTrue AggregateWithinPrices RegistrySound ProofRecordsAgree
  DocumentsIndexed FractionsAddUp
PROPERTIES
  StakeLeavesOnlyToOwner LapsedStaysLapsed OutcomeStands CooldownProtects
