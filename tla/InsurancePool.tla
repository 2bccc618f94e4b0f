---------------------------- MODULE InsurancePool ----------------------------
(***************************************************************************)
(* A risk pool of the ink! insurance contract                              *)
(* (contracts/insurance/src/insurance_impl.rs): liquidity, premiums,       *)
(* rewards per share and their vesting.                                    *)
(*                                                                         *)
(* Premiums raise a reward index; a provider's pending reward is what its  *)
(* stake earned since its reward debt was last synced.  All divisions are  *)
(* the integer divisions of the code.  One action is one message: an Err   *)
(* reverts it, and a message that only returns 0 is no step.  u128 does    *)
(* not saturate at amounts that exist.  Claims are InsuranceClaims'; here  *)
(* a payout is what execute_payout does to the pool.                       *)
(***************************************************************************)
EXTENDS InsuranceState, FiniteSetsExt

CONSTANTS Providers,
          Deposits,          \* value a provider may transfer with a deposit
          Premiums,          \* value paid for a new or renewed policy
          Payouts,           \* payouts of claims
          FeeRate,           \* platform_fee_rate, in basis points
          REWARD_PRECISION,  \* 10^18 in the code
          VestingConfigs,    \* cliff, duration and penalty the admin may set
          MaxPaidIn          \* bound: value paid into the contract

(* What is assumed of the constants.                                       *)
InsurancePoolAssumption ==
  /\ IsFiniteSet(Providers)
  /\ Deposits \subseteq Nat /\ Premiums \subseteq Nat /\ Payouts \subseteq Nat
  /\ {BPS, REWARD_PRECISION, MaxTime} \subseteq Nat \ {0}
  /\ FeeRate \in 0 .. BPS
  /\ VestingConfigs \subseteq [cliff : Nat, duration : Nat, penalty : Nat]
  /\ MaxPaidIn \in Nat

VARIABLES pool,      \* pools(pool_id)
          provider,  \* liquidity_providers(pool_id, account)
          paidIn,    \* external: value transferred to the contract
          received,  \* external: value the contract transferred to an account
          granted,   \* history: rewards an account was granted in any form
          accrued,   \* history: premium income added to the reward index
          resized,   \* history: changes of a stake that remains
          forfeited  \* history: penalties added to the available capital

money == <<paidIn, received>>
ghosts == <<granted, accrued, resized, forfeited>>
liquidityVars == <<now, paused, pool, provider, money, ghosts>>

NoProvider == [exists |-> FALSE, stake |-> 0, debt |-> 0, vesting |-> 0,
               claimed |-> 0, start |-> 0]

LiquidityInit ==
  /\ now = 1
  /\ paused = FALSE
  /\ pool = [total_capital |-> 0, available |-> 0, total_stake |-> 0, acc |-> 0,
             claims_paid |-> 0, cliff |-> 0, duration |-> 0, penalty |-> 0]
  /\ provider = [p \in Providers |-> NoProvider]
  /\ paidIn = 0
  /\ received = [p \in Providers |-> 0]
  /\ granted = [p \in Providers |-> 0]
  /\ accrued = 0
  /\ resized = 0
  /\ forfeited = 0

-----------------------------------------------------------------------------
SyncedDebt(stake, acc) == (stake * acc) \div REWARD_PRECISION
PendingOf(v, acc) == Monus(SyncedDebt(v.stake, acc), v.debt)
Pending(p) == PendingOf(provider[p], pool.acc)

(* Mutant: a reward is taken and the debt is left as it was.              *)
NotSynced(v) == v

Synced(v) == [v EXCEPT !.debt = SyncedDebt(v.stake, pool.acc)]

Vesting == pool.duration > 0

(* The part of a vesting total that is vested by now.                      *)
VestedPart(v) ==
  LET elapsed == now - v.start
  IN IF v.start > 0 /\ elapsed >= pool.cliff
     THEN (v.vesting * Least(elapsed, pool.duration)) \div pool.duration ELSE 0

(* A pending reward joins the vesting schedule, whose clock starts again.  *)
StartVesting(v, reward) ==
  IF reward = 0 THEN v
  ELSE Synced([v EXCEPT !.vesting = @ + reward, !.start = now])

(* Mutant: a deposit leaves the debt of its stake alone.                   *)
DebtOfDepositNone(v, amount) == v.debt

DebtOfDeposit(v, amount) == v.debt + SyncedDebt(amount, pool.acc)

Liquid(amount) == pool.available >= amount

PoolCharged(amount) == [pool EXCEPT !.available = @ - amount]

Sum(f) == SumFunctionOnSet(f, Providers)
Held == paidIn - Sum(received)

PayIn(amount) == paidIn + amount <= MaxPaidIn /\ paidIn' = paidIn + amount
Pay(p, amount) == amount <= Held /\ received' = [received EXCEPT ![p] = @ + amount]
Grant(p, reward) == granted' = [granted EXCEPT ![p] = @ + reward]

DepositLiquidity(p, amount) ==
  /\ ~paused
  /\ amount > 0
  /\ PayIn(amount)
  /\ LET v == provider[p]
     IN provider' = [provider EXCEPT ![p] =
          [v EXCEPT !.exists = TRUE, !.stake = @ + amount, !.debt = DebtOfDeposit(v, amount)]]
  /\ pool' = [pool EXCEPT !.total_stake = @ + amount, !.total_capital = @ + amount,
                          !.available = @ + amount]
  /\ resized' = resized + 1
  /\ UNCHANGED <<now, paused, received, granted, accrued, forfeited>>

(* The part a withdrawal takes out of what has not vested.                 *)
Penalty(v) == (Monus(v.vesting, VestedPart(v)) * pool.penalty) \div BPS

(* Without vesting the pool gives up principal and pending reward, with    *)
(* vesting the principal only.  The inner total_out shadows the outer one, *)
(* which stays 0: nothing is transferred to the caller in either case.     *)
WithdrawLiquidity(p, amount) ==
  LET reward  == Pending(p)
      v       == IF Vesting THEN StartVesting(provider[p], reward) ELSE provider[p]
      penalty == IF Vesting THEN Penalty(v) ELSE 0
      out     == IF Vesting THEN amount ELSE amount + reward
      left    == v.stake - amount
  IN /\ amount > 0
     /\ v.exists
     /\ left >= 0
     /\ Liquid(out - penalty)
     /\ provider' = [provider EXCEPT ![p] =
          IF left = 0 THEN NoProvider
          ELSE Synced([v EXCEPT !.stake = left, !.vesting = @ - penalty])]
     /\ pool' = [pool EXCEPT !.total_stake = @ - amount, !.total_capital = @ - amount,
                             !.available = @ + penalty - out]
     /\ Grant(p, reward)
     /\ resized' = IF left = 0 THEN resized ELSE resized + 1
     /\ forfeited' = forfeited + penalty
     /\ UNCHANGED <<now, paused, money, accrued>>

ClaimRewards(p) ==
  LET reward == Pending(p)
  IN /\ reward > 0
     /\ IF Vesting
        THEN /\ provider' = [provider EXCEPT ![p] = StartVesting(@, reward)]
             /\ UNCHANGED <<pool, received>>
        ELSE /\ Liquid(reward)
             /\ provider' = [provider EXCEPT ![p] = Synced(@)]
             /\ pool' = PoolCharged(reward)
             /\ Pay(p, reward)
     /\ Grant(p, reward)
     /\ UNCHANGED <<now, paused, paidIn, accrued, resized, forfeited>>

(* Mutant: the pool's total stake does not follow.                         *)
PoolAfterReinvestStakeKept(reward) == [pool EXCEPT !.total_capital = @ + reward]

PoolAfterReinvest(reward) ==
  [pool EXCEPT !.total_stake = @ + reward, !.total_capital = @ + reward]

ReinvestRewards(p) ==
  LET reward == Pending(p)
      v == provider[p]
  IN /\ reward > 0
     /\ provider' = [provider EXCEPT ![p] = Synced([v EXCEPT !.stake = @ + reward])]
     /\ pool' = PoolAfterReinvest(reward)
     /\ Grant(p, reward)
     /\ resized' = resized + 1
     /\ UNCHANGED <<now, paused, money, accrued, forfeited>>

(* Without vesting all of it, whatever was claimed while there was one.    *)
Claimable(v) == IF Vesting THEN Monus(VestedPart(v), v.claimed) ELSE v.vesting

ClaimVestedRewards(p) ==
  LET v == provider[p]
      claimable == Claimable(v)
      claimed == v.claimed + claimable
  IN /\ claimable > 0
     /\ Liquid(claimable)
     /\ provider' = [provider EXCEPT ![p] =
          IF ~Vesting \/ claimed >= v.vesting
          THEN [v EXCEPT !.vesting = 0, !.claimed = 0, !.start = 0]
          ELSE [v EXCEPT !.claimed = claimed]]
     /\ pool' = PoolCharged(claimable)
     /\ Pay(p, claimable)
     /\ UNCHANGED <<now, paused, paidIn, ghosts>>

ConfigurePoolVesting(c) ==
  /\ IF c.duration = 0 THEN c.cliff = 0 /\ c.penalty = 0
                       ELSE c.cliff <= c.duration /\ c.penalty <= BPS
  /\ pool' = [pool EXCEPT !.cliff = c.cliff, !.duration = c.duration, !.penalty = c.penalty]
  /\ UNCHANGED <<now, paused, provider, money, ghosts>>

(* What create_policy and renew_policy do with the value paid: the fee     *)
(* stays in the contract, the rest is the pool's and raises the index.     *)
CollectPremium(paid) ==
  LET share == paid - (paid * FeeRate) \div BPS
  IN /\ paid > 0
     /\ PayIn(paid)
     /\ IF share > 0 /\ pool.total_stake > 0
        THEN /\ pool' = [pool EXCEPT !.available = @ + share,
                  !.acc = @ + (share * REWARD_PRECISION) \div pool.total_stake]
             /\ accrued' = accrued + share
        ELSE pool' = [pool EXCEPT !.available = @ + share] /\ UNCHANGED accrued
     /\ UNCHANGED <<now, paused, provider, received, granted, resized, forfeited>>

(* What execute_payout does with the pool: it transfers nothing either.    *)
PayClaim(amount) ==
  /\ amount > 0
  /\ Liquid(amount)
  /\ pool' = [PoolCharged(amount) EXCEPT !.claims_paid = @ + amount]
  /\ UNCHANGED <<now, paused, provider, money, ghosts>>

Pausing(b) == paused' = b /\ UNCHANGED <<now, pool, provider, money, ghosts>>

LiquidityTick ==
  /\ BlockTime
  /\ UNCHANGED <<paused, pool, provider, money, ghosts>>

LiquidityNext ==
  \/ \E p \in Providers :
       \/ \E x \in Deposits : DepositLiquidity(p, x)
       \/ \E x \in 1 .. pool.total_stake : WithdrawLiquidity(p, x)
       \/ ClaimRewards(p)
       \/ ReinvestRewards(p)
       \/ ClaimVestedRewards(p)
  \/ \E c \in VestingConfigs : ConfigurePoolVesting(c)
  \/ \E x \in Premiums : CollectPremium(x)
  \/ \E x \in Payouts : PayClaim(x)
  \/ \E b \in BOOLEAN : Pausing(b)
  \/ LiquidityTick

LiquiditySpec == LiquidityInit /\ [][LiquidityNext]_liquidityVars

-----------------------------------------------------------------------------
LiquidityTypeOK ==
  /\ now \in 1 .. MaxTime
  /\ paused \in BOOLEAN
  /\ pool \in [total_capital : Nat, available : Nat, total_stake : Nat, acc : Nat,
               claims_paid : Nat, cliff : Nat, duration : Nat, penalty : Nat]
  /\ provider \in [Providers -> [exists : BOOLEAN, stake : Nat, debt : Nat,
                                 vesting : Nat, claimed : Nat, start : 0 .. MaxTime]]
  /\ paidIn \in Nat
  /\ received \in [Providers -> Nat]
  /\ granted \in [Providers -> Nat]
  /\ accrued \in Nat
  /\ resized \in Nat
  /\ forfeited \in Nat

(* The books of the pool: the denominator of every later reward is the sum *)
(* of the stakes that share it, a record exists exactly while there is a   *)
(* stake, and the liquidity the pool counts on is in the contract, but for *)
(* penalties, which it counts again: what vests had never been taken out.  *)
StakesTotal ==
  /\ pool.total_stake = Sum([p \in Providers |-> provider[p].stake])
  /\ pool.total_capital = pool.total_stake
  /\ \A p \in Providers : provider[p].exists <=> provider[p].stake > 0

AvailableIsHeld == pool.available <= Held + forfeited

PoolBooksTrue == StakesTotal /\ AvailableIsHeld

(* Rewards never outgrow the premiums they come from: what was granted and *)
(* what is still pending is covered by the income, but for one unit of     *)
(* rounding that every change of a stake may add: a deposit, a withdrawal  *)
(* of a part, a reinvestment.                                              *)
RewardsWithinIncome ==
  Sum(granted) + Sum([p \in Providers |-> Pending(p)]) <= accrued + resized

(* A deposit earns nothing retroactively: it adds no reward to what was    *)
(* pending, but for one unit of rounding.                                  *)
DepositEarnsNothing ==
  [][paidIn' > paidIn /\ pool'.total_stake > pool.total_stake =>
       \A p \in Providers :
         /\ PendingOf(provider'[p], pool'.acc) >= Pending(p)
         /\ PendingOf(provider'[p], pool'.acc) <= Pending(p) + 1]_liquidityVars

(* "Withdraw staked principal; pending rewards are paid out in the same    *)
(* call": a stake that shrinks is paid to its provider.                    *)
WithdrawalPays ==
  [][\A p \in Providers :
       provider'[p].stake < provider[p].stake =>
         received'[p] - received[p] >= provider[p].stake - provider'[p].stake]_liquidityVars

=============================================================================
