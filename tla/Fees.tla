-------------------------------- MODULE Fees --------------------------------
(***************************************************************************)
(* The ink! fee manager (contracts/fees/src/lib.rs): fees that follow the  *)
(* congestion of the last window, the books of what was collected, its     *)
(* distribution to validators, and auctions of premium listings.           *)
(*                                                                         *)
(* No operation but collect_fee takes value and none pays any: the books   *)
(* are claims on whoever holds the fees.  Of the operations a fee is       *)
(* charged for, only the premium listing's fee is read by an operation     *)
(* that changes state; opConfig is its override.                           *)
(***************************************************************************)
EXTENDS LedgerClock, FiniteSets, Sequences, Functions

CONSTANTS FeeAccounts,    \* validators, sellers and bidders
          FirstConfig,    \* default_config as the constructor sets it
          OpConfigs,      \* configurations the admin may set for an operation
          NoConfig,       \* operation_config(op) is absent
          FeeAmounts,     \* amounts recorded as collected
          ShareRates,     \* pairs <<validator_share_bp, treasury_share_bp>>
          MinBids, Bids, AuctionTimes,
          NoBidder,       \* current_bidder is None
          CONGESTION_WINDOW, MAX_CONGESTION_MULTIPLIER, \* 100 and 300
          Window,         \* 3600: seconds the congestion count lasts
          MaxCollected, MaxAuctions \* bounds

BASIS_POINTS == 10000

(* What is assumed of the constants.                                       *)
FeesAssumption ==
  /\ {FirstConfig} \cup OpConfigs \subseteq
       [base : Nat, min : Nat, max : Nat, sensitivity : Nat, demand : Nat]
  /\ NoConfig \notin OpConfigs /\ NoBidder \notin FeeAccounts /\ IsFiniteSet(FeeAccounts)
  /\ FeeAmounts \cup MinBids \cup Bids \cup AuctionTimes \subseteq Nat
  /\ ShareRates \subseteq Nat \X Nat
  /\ CONGESTION_WINDOW \in Nat \ {0}
  /\ MAX_CONGESTION_MULTIPLIER \in Nat /\ MAX_CONGESTION_MULTIPLIER >= 100
  /\ {Window, MaxCollected, MaxAuctions} \subseteq Nat

VARIABLES baseFee,        \* default_config.base_fee; the rest of it never changes
          opConfig,       \* operation_config(PremiumListingBid)
          recentOps, lastReset,                    \* the congestion count
          treasury, collected, distributed,        \* the books
          pendingRewards,
          validators,     \* the accounts that are validators
          validatorList,  \* how often an account is on the list of validators
          sharesBp,
          auctionCount, auction, bidOf,
          claimed         \* history: rewards each account has claimed

feeBooks == <<treasury, collected, distributed, pendingRewards, claimed>>
feeConfig == <<baseFee, opConfig>>
validatorVars == <<validators, validatorList, sharesBp>>
auctionVars == <<auctionCount, auction, bidOf>>
congestionVars == <<recentOps, lastReset>>
feeVars == <<feeConfig, congestionVars, feeBooks, validatorVars, auctionVars>>

FeesInit ==
  /\ baseFee = FirstConfig.base /\ opConfig = NoConfig
  /\ recentOps = 0 /\ lastReset = 0
  /\ treasury = 0 /\ collected = 0 /\ distributed = 0
  /\ pendingRewards = [x \in FeeAccounts |-> 0] /\ claimed = [x \in FeeAccounts |-> 0]
  /\ validators = {} /\ validatorList = [x \in FeeAccounts |-> 0]
  /\ sharesBp = <<5000, 5000>>
  /\ auctionCount = 0 /\ auction = <<>> /\ bidOf = <<>>

-----------------------------------------------------------------------------
Least(m, n) == IF m < n THEN m ELSE n
Most(m, n)  == IF m < n THEN n ELSE m

CongestionIndex ==
  IF now - lastReset > Window THEN 0
  ELSE Least((recentOps * 100) \div CONGESTION_WINDOW, 100)

(* The demand is the default configuration's, whatever the operation.      *)
DemandFactorBp == (FirstConfig.demand * CongestionIndex) \div 100

ComputeDynamicFee(c) ==
  LET congestionBp == (CongestionIndex * c.sensitivity
                        * (MAX_CONGESTION_MULTIPLIER - 100)) \div 10000
      multiplier   == 10000 + congestionBp + Least(DemandFactorBp, 5000)
  IN  Least(Most((c.base * multiplier) \div BASIS_POINTS, c.min), c.max)

ListingFee ==
  ComputeDynamicFee(IF opConfig # NoConfig THEN opConfig
                    ELSE [FirstConfig EXCEPT !.base = baseFee])

Collect(amount) ==
  /\ collected + amount <= MaxCollected
  /\ treasury' = treasury + amount
  /\ collected' = collected + amount

(* record_fee_collected: anyone may call it, collect_fee calls it for what *)
(* was transferred.                                                        *)
RecordFeeCollected(amount) ==
  /\ Collect(amount)
  /\ IF now - lastReset > Window
       THEN recentOps' = 1 /\ lastReset' = now
       ELSE recentOps' = Least(recentOps + 1, CONGESTION_WINDOW) /\ UNCHANGED lastReset
  /\ UNCHANGED <<distributed, pendingRewards, claimed, feeConfig, validatorVars, auctionVars>>

UpdateFeeParams ==
  /\ baseFee' =
       CASE CongestionIndex > 70 -> Least((baseFee * 105) \div 100, FirstConfig.max)
         [] CongestionIndex < 30 -> Most((baseFee * 95) \div 100, FirstConfig.min)
         [] OTHER -> baseFee
  /\ UNCHANGED <<opConfig, congestionVars, feeBooks, validatorVars, auctionVars>>

SetOperationConfig(c) ==
  /\ c.min <= c.max /\ c.base >= c.min
  /\ opConfig' = c
  /\ UNCHANGED <<baseFee, congestionVars, feeBooks, validatorVars, auctionVars>>

-----------------------------------------------------------------------------
(* The listing's fee is booked, not taken.                                 *)
CreatePremiumAuction(minBid, duration) ==
  /\ auctionCount < MaxAuctions
  /\ Collect(ListingFee)
  /\ auctionCount' = auctionCount + 1
  /\ auction' = Append(auction, [minBid |-> minBid, currentBid |-> 0,
                  currentBidder |-> NoBidder, endTime |-> now + duration, settled |-> FALSE])
  /\ bidOf' = Append(bidOf, [x \in FeeAccounts |-> 0])
  /\ UNCHANGED <<distributed, pendingRewards, claimed, feeConfig, congestionVars, validatorVars>>

(* Mutant: a bid need only reach the minimum.                              *)
AcceptableIfMinimum(i, amount) == amount >= auction[i].minBid

Acceptable(i, amount) == amount >= auction[i].minBid /\ amount > auction[i].currentBid

PlaceBid(x, i, amount) ==
  /\ ~auction[i].settled /\ now < auction[i].endTime
  /\ Acceptable(i, amount)
  /\ auction' = [auction EXCEPT ![i].currentBid = amount, ![i].currentBidder = x]
  /\ bidOf' = [bidOf EXCEPT ![i][x] = amount]
  /\ UNCHANGED <<auctionCount, feeConfig, congestionVars, feeBooks, validatorVars>>

(* An auction nobody bid in is never settled.                              *)
SettleAuction(i) ==
  /\ ~auction[i].settled /\ now >= auction[i].endTime
  /\ auction[i].currentBidder # NoBidder
  /\ auction' = [auction EXCEPT ![i].settled = TRUE]
  /\ UNCHANGED <<auctionCount, bidOf, feeConfig, congestionVars, feeBooks, validatorVars>>

-----------------------------------------------------------------------------
AddValidator(x) ==
  /\ x \notin validators
  /\ validators' = validators \cup {x}
  /\ validatorList' = [validatorList EXCEPT ![x] = @ + 1]
  /\ UNCHANGED <<sharesBp, feeConfig, congestionVars, feeBooks, auctionVars>>

RemoveValidator(x) ==
  /\ validators' = validators \ {x}
  /\ validatorList' = [validatorList EXCEPT ![x] = 0]
  /\ UNCHANGED <<sharesBp, feeConfig, congestionVars, feeBooks, auctionVars>>

SetDistributionRates(rates) ==
  /\ rates[1] + rates[2] <= 10000
  /\ sharesBp' = rates
  /\ UNCHANGED <<validators, validatorList, feeConfig, congestionVars, feeBooks, auctionVars>>

ValidatorTotal == (treasury * sharesBp[1]) \div BASIS_POINTS

(* Mutant: what was distributed stays in the treasury.                     *)
TreasuryKept == treasury

(* What the validators do not get - the treasury's own share, and what the *)
(* division loses - leaves the books as well.                              *)
TreasuryAfterDistribution == 0

SumOf(f) == SumFunctionOnSet(f, FeeAccounts)

PerValidator(n) == IF n > 0 THEN ValidatorTotal \div n ELSE 0

DistributeFees ==
  LET n   == SumOf(validatorList)
      per == PerValidator(n)
  IN  /\ pendingRewards' = [x \in FeeAccounts |-> pendingRewards[x] + per * validatorList[x]]
      /\ distributed' = distributed + per * n
      /\ treasury' = TreasuryAfterDistribution
      /\ UNCHANGED <<collected, claimed, feeConfig, congestionVars, validatorVars, auctionVars>>

ClaimRewards(x) ==
  /\ pendingRewards[x] > 0
  /\ pendingRewards' = [pendingRewards EXCEPT ![x] = 0]
  /\ claimed' = [claimed EXCEPT ![x] = @ + pendingRewards[x]]
  /\ UNCHANGED <<treasury, collected, distributed, feeConfig, congestionVars,
                 validatorVars, auctionVars>>

FeesTick == ClockTicks /\ UNCHANGED feeVars

ListProperty == \E m \in MinBids, d \in AuctionTimes : CreatePremiumAuction(m, d)

AuctionNext ==
  \/ ListProperty
  \/ \E x \in FeeAccounts, i \in 1 .. auctionCount, b \in Bids : PlaceBid(x, i, b)
  \/ \E i \in 1 .. auctionCount : SettleAuction(i)

(* Everything else, which no bid and no settlement has an influence on.    *)
BooksNext ==
  \/ ListProperty
  \/ \E amount \in FeeAmounts : RecordFeeCollected(amount)
  \/ UpdateFeeParams
  \/ \E c \in OpConfigs : SetOperationConfig(c)
  \/ \E x \in FeeAccounts : AddValidator(x) \/ RemoveValidator(x) \/ ClaimRewards(x)
  \/ \E rates \in ShareRates : SetDistributionRates(rates)
  \/ DistributeFees

FeesNext == ((AuctionNext \/ BooksNext) /\ UNCHANGED now) \/ FeesTick

-----------------------------------------------------------------------------
FeesSpec == ClockInit /\ FeesInit /\ [][FeesNext]_<<now, feeVars>>

Auctions == [minBid : Nat, currentBid : Nat, currentBidder : FeeAccounts \cup {NoBidder},
             endTime : Nat, settled : BOOLEAN]

(* Counters are bounded, a validator is once on the list and nobody else   *)
(* is, and no more is given away than there is.                            *)
FeesTypeOK ==
  /\ treasury \in Nat /\ collected \in Nat /\ distributed \in Nat
  /\ baseFee \in Nat /\ lastReset \in Nat
  /\ recentOps \in 0 .. CONGESTION_WINDOW
  /\ opConfig \in OpConfigs \cup {NoConfig}
  /\ pendingRewards \in [FeeAccounts -> Nat] /\ claimed \in [FeeAccounts -> Nat]
  /\ validators \in SUBSET FeeAccounts
  /\ validatorList \in [FeeAccounts -> Nat]
  /\ \A x \in FeeAccounts : validatorList[x] = IF x \in validators THEN 1 ELSE 0
  /\ sharesBp \in Nat \X Nat /\ sharesBp[1] + sharesBp[2] <= 10000
  /\ auction \in Seq(Auctions) /\ Len(auction) = auctionCount
  /\ bidOf \in Seq([FeeAccounts -> Nat]) /\ Len(bidOf) = auctionCount

(* What was distributed is what the validators claimed or may claim,       *)
(* through every change of their list and of their share, and with what    *)
(* is still in the treasury it never exceeds what was collected.           *)
DistributedWasCollected ==
  /\ distributed = SumOf(pendingRewards) + SumOf(claimed)
  /\ treasury + distributed <= collected

(* The winner of an auction is the account that made its highest bid, and  *)
(* nobody else bid as much.                                                *)
HighestBidLeads ==
  \A i \in 1 .. auctionCount : LET p == auction[i] IN
    IF p.currentBidder = NoBidder THEN \A x \in FeeAccounts : bidOf[i][x] = 0
    ELSE /\ bidOf[i][p.currentBidder] = p.currentBid
         /\ \A x \in FeeAccounts \ {p.currentBidder} : bidOf[i][x] < p.currentBid

(* fees: the books of distribution and of auctions are true.               *)
FeeBooksTrue == DistributedWasCollected /\ HighestBidLeads
=============================================================================
