----------------------------- MODULE Fractional -----------------------------
(***************************************************************************)
(* The ink! contract for fractions of a property (contracts/fractional/    *)
(* src/lib.rs): a minter per token issues shares, holders who passed KYC   *)
(* move them, and dividends accrue by an index that claiming catches up    *)
(* with.                                                                   *)
(*                                                                         *)
(* A claim is a number that is returned: the contract moves no money.  The *)
(* last prices and the governance contract it stores are read by no        *)
(* operation that changes state.                                           *)
(***************************************************************************)
EXTENDS Integers, FiniteSets, Functions

CONSTANTS FracTokens, FracHolders,
          NoMinter,
          FracAmounts,     \* of shares, zero among them
          FracDividends,   \* distributed at once
          U128,            \* width of balances and supply
          MaxIndex         \* bound of the dividend index

(* What is assumed of the constants.                                       *)
FractionalAssumption ==
  /\ NoMinter \notin FracHolders /\ IsFiniteSet(FracHolders)
  /\ FracAmounts \subseteq Nat /\ FracDividends \subseteq Nat
  /\ U128 \in Nat \ {0} /\ MaxIndex \in Nat

VARIABLES fracBalance,     \* balances
          fracSupply,      \* total_supply
          minter,          \* authorized_minters
          kycPassed,
          perShare,        \* dividend_per_share
          lastClaimed,     \* last_claimed_dividend_per_share
          selfGained       \* history: shares from transfers to oneself

fracVars == <<fracBalance, fracSupply, minter, kycPassed, perShare, lastClaimed, selfGained>>
fracShareVars == <<fracBalance, fracSupply, selfGained>>
fracDividendVars == <<perShare, lastClaimed>>

FracInit ==
  /\ fracBalance = [t \in FracTokens |-> [x \in FracHolders |-> 0]]
  /\ fracSupply = [t \in FracTokens |-> 0]
  /\ minter = [t \in FracTokens |-> NoMinter]
  /\ kycPassed = [x \in FracHolders |-> FALSE]
  /\ perShare = [t \in FracTokens |-> 0]
  /\ lastClaimed = [t \in FracTokens |-> [x \in FracHolders |-> 0]]
  /\ selfGained = [t \in FracTokens |-> 0]

-----------------------------------------------------------------------------
(* checked_add: nothing happens where the sum leaves the width.            *)
Fits(n) == n < U128

MintShares(t, to, n) ==
  /\ minter[t] # NoMinter
  /\ n > 0
  /\ Fits(fracBalance[t][to] + n) /\ Fits(fracSupply[t] + n)
  /\ fracBalance' = [fracBalance EXCEPT ![t][to] = @ + n]
  /\ fracSupply' = [fracSupply EXCEPT ![t] = @ + n]
  /\ UNCHANGED <<minter, kycPassed, fracDividendVars, selfGained>>

(* Mutant: the supply keeps what was burned.                               *)
SupplyKept(supply, n) == supply

(* The holder's balance was compared with the amount, the supply was not.  *)
SupplyAfterBurn(supply, n) == (supply - n) % U128

BurnShares(t, from, n) ==
  /\ n > 0 /\ fracBalance[t][from] >= n
  /\ fracBalance' = [fracBalance EXCEPT ![t][from] = @ - n]
  /\ fracSupply' = [fracSupply EXCEPT ![t] = SupplyAfterBurn(@, n)]
  /\ UNCHANGED <<minter, kycPassed, fracDividendVars, selfGained>>

(* Both balances are read before either is written: to oneself, the second *)
(* write overwrites the first.                                             *)
FractionMoved(balances, from, to, n) ==
  [balances EXCEPT ![from] = balances[from] - n, ![to] = balances[to] + n]

TransferFraction(t, from, to, n) ==
  /\ kycPassed[from] /\ kycPassed[to]
  /\ n > 0 /\ fracBalance[t][from] >= n
  /\ Fits(fracBalance[t][to] + n)
  /\ fracBalance' = [fracBalance EXCEPT ![t] = FractionMoved(fracBalance[t], from, to, n)]
  /\ selfGained' = [selfGained EXCEPT ![t] = (@ + IF from = to THEN n ELSE 0) % U128]
  /\ UNCHANGED <<fracSupply, minter, kycPassed, fracDividendVars>>

DistributeDividends(t, total) ==
  /\ minter[t] # NoMinter
  /\ fracSupply[t] # 0
  /\ perShare[t] + total \div fracSupply[t] <= MaxIndex
  /\ perShare' = [perShare EXCEPT ![t] = @ + total \div fracSupply[t]]
  /\ UNCHANGED <<fracShareVars, minter, kycPassed, lastClaimed>>

(* A holder of nothing claims nothing, and does not catch up either.       *)
ClaimDividends(t, x) ==
  /\ fracBalance[t][x] # 0
  /\ lastClaimed' = [lastClaimed EXCEPT ![t][x] = perShare[t]]
  /\ UNCHANGED <<fracShareVars, minter, kycPassed, perShare>>

SetKyc(x, passed) ==
  /\ kycPassed' = [kycPassed EXCEPT ![x] = passed]
  /\ UNCHANGED <<fracShareVars, minter, fracDividendVars>>

SetAuthorizedMinter(t, x) ==
  /\ minter' = [minter EXCEPT ![t] = x]
  /\ UNCHANGED <<fracShareVars, kycPassed, fracDividendVars>>

FracNext ==
  \E x \in FracHolders :
    \/ \E passed \in BOOLEAN : SetKyc(x, passed)
    \/ \E t \in FracTokens :
         \/ SetAuthorizedMinter(t, x)
         \/ ClaimDividends(t, x)
         \/ \E d \in FracDividends : DistributeDividends(t, d)
         \/ \E n \in FracAmounts :
              \/ MintShares(t, x, n) \/ BurnShares(t, x, n)
              \/ \E y \in FracHolders : TransferFraction(t, x, y, n)

FracSpec == FracInit /\ [][FracNext]_fracVars

-----------------------------------------------------------------------------
(* Balances and supply keep their width; an account has claimed no more    *)
(* than the index.                                                         *)
FracTypeOK ==
  /\ fracBalance \in [FracTokens -> [FracHolders -> 0 .. U128 - 1]]
  /\ {fracSupply, selfGained} \subseteq [FracTokens -> 0 .. U128 - 1]
  /\ minter \in [FracTokens -> FracHolders \union {NoMinter}]
  /\ kycPassed \in [FracHolders -> BOOLEAN]
  /\ perShare \in [FracTokens -> 0 .. MaxIndex]
  /\ lastClaimed \in [FracTokens -> [FracHolders -> 0 .. MaxIndex]]
  /\ \A t \in FracTokens, x \in FracHolders : lastClaimed[t][x] <= perShare[t]

(* fractional: the supply is what the holders have, up to the shares that  *)
(* transfers to oneself created, whatever is minted, burned and moved.     *)
FractionsAddUp ==
  \A t \in FracTokens :
    SumFunctionOnSet(fracBalance[t], FracHolders) % U128
      = (fracSupply[t] + selfGained[t]) % U128
=============================================================================
