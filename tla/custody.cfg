SPECIFICATION MCSpec
CONSTANTS
  alice = alice
  bob = bob
  s1 = s1
  s2 = s2
  NoTimeout = NoTimeout
  h1 = h1
  h2 = h2
  t1 = t1
  t2 = t2
  Parties = {alice, bob}
  ParticipantLists <- MCParticipantLists
  MAX_PARTICIPANTS = 3
  Amounts <- MCAmounts
  MaxEscrows = 1
  MaxTime = 1
  Holders = {h1, h2}
  ShareAmounts = {1, 2}
  Dividends = {2}
  Prices = {1}
  Quorums = {2}
  SCALING = 1
  MaxShares = 2
  MaxPerShare = 2
  MaxProposals = 1
  MaxOutstanding = 3
  Senders = {s1, s2}
  Accounts = {alice, bob}
  Admin = alice
  MAX_OPERATORS = 2
  MinSignatures = 1
  MaxSignatures = 2
  Timeouts = {1}
  ServiceFee = 2
  Funds = 5
  MAX_HISTORY_ITEMS = 2
  MaxRequests = 2
  MaxExecutions = 3
  MaxSequence = 2
  Owners = {t1, t2}
  Spenders = {"agent"}
  Operators = {"op1", "op2"}
  FirstOperator = "op1"
  MinTokenSignatures = 1
  MaxTokenSignatures = 1
  TokenTimeouts = {0}
  NoTokenTimeout = NoTokenTimeout
  MaxTokens = 2
  MaxTokenRequests = 1
  MaxBlock = 1
  MaxCount = 2
SYMMETRY Symmetry
\* a contract stops when its counters do
CHECK_DEADLOCK FALSE
INVARIANTS
  StorageTypeOK SigCountMatches ReleasedByQuorum LockedWasSigned BridgeBooksTrue
  AskCovered DividendsCreditedOnce TokensAccounted
PROPERTIES KeepsPromise NoLateLock SharesMoveInFull
