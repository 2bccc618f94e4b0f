------------------------------ MODULE RiskPool ------------------------------
(***************************************************************************)
(* The Soroban risk pool (contracts/risk_pool/src/lib.rs).                 *)
(*                                                                         *)
(* Liquidity providers deposit a token, withdraw what they staked, and the *)
(* admin pays claims out of what is available.  The token is an external   *)
(* contract: only the effect of `transfer' on balances is modelled.  One   *)
(* action is one transaction: a panic anywhere reverts the transaction, so *)
(* every check of a handler is a conjunct of its guard.                    *)
(***************************************************************************)
EXTENDS Integers, FiniteSetsExt

CONSTANTS Users,        \* accounts that hold the token, stake and are paid
          Pool,         \* the address of the risk pool contract itself
          Amounts,      \* the i128 amounts a caller may pass
          MinStake,     \* the min_stake given to initialize
          Funds,        \* what every user holds when the pool is deployed
          MaxPaid       \* bound: the claims paid before the model stops paying

(* What is assumed of the constants.                                       *)
RiskPoolAssumption ==
  /\ IsFiniteSet(Users) /\ Pool \notin Users
  /\ Amounts \subseteq Int
  /\ MinStake \in Int
  /\ Funds \in Nat
  /\ MaxPaid \in Nat

VARIABLES stake,             \* ProviderStake(address)
          totalCapital,      \* TotalCapital
          availableCapital,  \* AvailableCapital
          claimsPaid,        \* ClaimsPaid
          balance            \* external: the token's balance of every address

poolVars == <<stake, totalCapital, availableCapital, claimsPaid, balance>>

Holders == Users \union {Pool}

PoolInit ==
  /\ stake = [p \in Users |-> 0]
  /\ totalCapital = 0
  /\ availableCapital = 0
  /\ claimsPaid = 0
  /\ balance = [h \in Holders |-> IF h = Pool THEN 0 ELSE Funds]

-----------------------------------------------------------------------------
(* The token's transfer traps on a negative amount and on an overdraft.    *)
CanTransfer(from, amount) == amount >= 0 /\ balance[from] >= amount

Transfer(from, to, amount) ==
  /\ CanTransfer(from, amount)
  /\ balance' = [h \in Holders |-> balance[h] + (IF h = to THEN amount ELSE 0)
                                              - (IF h = from THEN amount ELSE 0)]

DepositLiquidity(p, amount) ==
  /\ amount >= MinStake
  /\ Transfer(p, Pool, amount)
  /\ stake' = [stake EXCEPT ![p] = @ + amount]
  /\ totalCapital' = totalCapital + amount
  /\ availableCapital' = availableCapital + amount
  /\ UNCHANGED claimsPaid

(* Mutant: what the pool has left is not looked at.                        *)
CanWithdrawUncheckedCapital(p, amount) == stake[p] >= amount

(* withdraw_liquidity checks the provider's own stake, and what earlier    *)
(* payouts have left in the pool.                                          *)
CanWithdraw(p, amount) == stake[p] >= amount /\ availableCapital >= amount

CapitalAfterWithdraw(amount) ==
  [total |-> totalCapital - amount, available |-> availableCapital - amount]

(* Mutant: the stake is written down but the token transfer is forgotten.  *)
WithdrawWithoutTransfer(p, amount) ==
  /\ CanWithdraw(p, amount)
  /\ stake' = [stake EXCEPT ![p] = @ - amount]
  /\ totalCapital' = CapitalAfterWithdraw(amount).total
  /\ availableCapital' = CapitalAfterWithdraw(amount).available
  /\ UNCHANGED <<claimsPaid, balance>>

WithdrawLiquidity(p, amount) ==
  /\ CanWithdraw(p, amount)
  /\ Transfer(Pool, p, amount)
  /\ stake' = [stake EXCEPT ![p] = @ - amount]
  /\ totalCapital' = CapitalAfterWithdraw(amount).total
  /\ availableCapital' = CapitalAfterWithdraw(amount).available
  /\ UNCHANGED claimsPaid

(* Mutant: the payout is also booked against the providers' capital.       *)
CapitalAfterPayoutBoth(amount) ==
  [total |-> totalCapital - amount, available |-> availableCapital - amount]

CapitalAfterPayout(amount) ==
  [total |-> totalCapital, available |-> availableCapital - amount]

PayoutClaim(recipient, amount) ==
  /\ claimsPaid + amount <= MaxPaid
  /\ availableCapital >= amount
  /\ Transfer(Pool, recipient, amount)
  /\ totalCapital' = CapitalAfterPayout(amount).total
  /\ availableCapital' = CapitalAfterPayout(amount).available
  /\ claimsPaid' = claimsPaid + amount
  /\ UNCHANGED stake

(* Holders may move the token among themselves, and into the pool.         *)
TokenTransfer(from, to, amount) ==
  /\ Transfer(from, to, amount)
  /\ UNCHANGED <<stake, totalCapital, availableCapital, claimsPaid>>

PoolNext ==
  \E amount \in Amounts :
    \/ \E p \in Users : DepositLiquidity(p, amount)
    \/ \E p \in Users : WithdrawLiquidity(p, amount)
    \/ \E r \in Holders : PayoutClaim(r, amount)
    \/ \E from \in Users, to \in Holders : TokenTransfer(from, to, amount)

PoolSpec == PoolInit /\ [][PoolNext]_poolVars

-----------------------------------------------------------------------------
(* No provider is ever recorded with a debt to the pool, and no account is *)
(* overdrawn.                                                              *)
PoolTypeOK ==
  /\ stake \in [Users -> Nat]
  /\ totalCapital \in Int
  /\ availableCapital \in Int
  /\ claimsPaid \in Nat
  /\ balance \in [Holders -> Nat]

(* Solvency: what the pool says it can pay is covered by tokens it holds,  *)
(* whatever the order of deposits, withdrawals and payouts.                *)
Solvent == 0 <= availableCapital /\ availableCapital <= balance[Pool]

(* The books balance: capital that is not available was paid to claims.    *)
BooksBalance == availableCapital = totalCapital - claimsPaid

(* TotalCapital is the sum of what the providers may still claim back.     *)
StakesTotal == totalCapital = SumFunctionOnSet(stake, Users)

(* A provider's stake falls only by tokens that provider receives in the   *)
(* same transaction: a payout or another provider's withdrawal, which      *)
(* share the same capital, never touch it.                                 *)
StakeLeavesOnlyToOwner ==
  [][\A p \in Users :
       stake'[p] < stake[p] => balance'[p] - balance[p] = stake[p] - stake'[p]]_poolVars
=============================================================================
