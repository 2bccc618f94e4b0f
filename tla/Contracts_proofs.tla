-------------------------- MODULE Contracts_proofs --------------------------
(***************************************************************************)
(* Proofs about RiskPool for any set of users, any amounts and any bound,  *)
(* about Policy for any durations and any width they wrap at, about Claims *)
(* for any policies, claimants, amounts and answers of the other           *)
(* contracts, and about Governance for any voters, weights, thresholds,    *)
(* voting period and width of the vote arithmetic.                         *)
(*                                                                         *)
(* The pool's inductive invariant is the conjunction of the invariants the *)
(* runs check: Solvent is kept because a transfer moves a natural amount   *)
(* and leaves no balance negative, which is what PoolTypeOK adds to it.    *)
(*                                                                         *)
(* The lock and the open claims say the same thing twice, and each is what *)
(* makes the other inductive: a submission may set the lock because a free *)
(* lock means no open claim; a decision may clear it because an open claim *)
(* is the one its policy's lock points at.                                 *)
(*                                                                         *)
(* What was executed met its threshold is not inductive: it rests on the   *)
(* tally of a finalized proposal never moving again, and that rests on a   *)
(* finalized proposal having expired, after which nobody may vote.         *)
(***************************************************************************)
EXTENDS RiskPool, Policy, Claims, Governance, SumLemmas, TLAPS

-----------------------------------------------------------------------------
(* RiskPool.                                                               *)

PoolIInv == PoolTypeOK /\ Solvent /\ BooksBalance /\ StakesTotal

(* A transfer moves a natural amount and leaves no account overdrawn.      *)
LEMMA TransferEffect ==
  ASSUME RiskPoolAssumption, NEW from \in Holders, NEW to \in Holders, NEW amount \in Int,
         balance \in [Holders -> Nat], Transfer(from, to, amount)
  PROVE  /\ amount \in Nat
         /\ balance' \in [Holders -> Nat]
         /\ \A h \in Holders :
              balance'[h] = balance[h] + (IF h = to THEN amount ELSE 0)
                                       - (IF h = from THEN amount ELSE 0)
  BY DEF Transfer, CanTransfer

(* A deposit and a withdrawal change one provider's stake, and the total   *)
(* by as much.                                                             *)
LEMMA StakesStep ==
  ASSUME RiskPoolAssumption, PoolTypeOK, StakesTotal, NEW p \in Users, NEW delta \in Int,
         stake' = [stake EXCEPT ![p] = @ + delta], totalCapital' = totalCapital + delta
  PROVE  StakesTotal'
<1>1. /\ IsFiniteSet(Users) /\ (\A q \in Users : stake[q] \in Int)
      /\ stake'[p] = stake[p] + delta /\ stake[p] \in Int /\ stake'[p] \in Int
      /\ \A q \in Users \ {p} : stake'[q] = stake[q]
  BY DEF RiskPoolAssumption, PoolTypeOK
<1>2. SumFunctionOnSet(stake', Users) = SumFunctionOnSet(stake, Users) + stake'[p] - stake[p]
  <2> DEFINE f == stake
             g == stake'
  <2> HIDE DEF f, g
  <2>1. /\ IsFiniteSet(Users) /\ (\A q \in Users : f[q] \in Int) /\ g[p] \in Int
        /\ \A q \in Users \ {p} : g[q] = f[q]
    BY <1>1 DEF f, g
  <2>2. SumFunctionOnSet(g, Users) = SumFunctionOnSet(f, Users) + g[p] - f[p]
    BY <2>1, SumChange
  <2> QED
    BY <2>2 DEF f, g
<1>3. SumFunctionOnSet(stake, Users) = totalCapital /\ totalCapital \in Int
  BY DEF StakesTotal, PoolTypeOK
<1>4. totalCapital' = SumFunctionOnSet(stake', Users)
  BY <1>1, <1>2, <1>3
<1> QED
  BY <1>4 DEF StakesTotal

(* The pool is deployed with nothing in it and nothing promised.           *)
LEMMA InitPoolIInv == RiskPoolAssumption /\ PoolInit => PoolIInv
<1> SUFFICES ASSUME RiskPoolAssumption, PoolInit PROVE PoolIInv
  OBVIOUS
<1>1. PoolTypeOK /\ Solvent /\ BooksBalance
  BY DEF RiskPoolAssumption, PoolInit, PoolTypeOK, Solvent, BooksBalance, Holders
<1>2. StakesTotal
  <2>1. IsFiniteSet(Users) /\ (\A p \in Users : stake[p] = 0) /\ totalCapital = 0
    BY DEF RiskPoolAssumption, PoolInit
  <2>2. SumFunctionOnSet(stake, Users) = 0
    BY <2>1, SumZero
  <2> QED
    BY <2>1, <2>2 DEF StakesTotal
<1> QED
  BY <1>1, <1>2 DEF PoolIInv

(* Every transaction, and every transfer outside the pool, keeps it.       *)
LEMMA NextPoolIInv == RiskPoolAssumption /\ PoolIInv /\ [PoolNext]_poolVars => PoolIInv'
<1> SUFFICES ASSUME RiskPoolAssumption, PoolIInv, [PoolNext]_poolVars PROVE PoolIInv'
  OBVIOUS
<1> USE DEF RiskPoolAssumption, PoolIInv, PoolTypeOK, Solvent, BooksBalance
<1>h. Pool \in Holders /\ Users \subseteq Holders
  BY DEF Holders
<1>1. ASSUME NEW p \in Users, NEW amount \in Amounts, DepositLiquidity(p, amount)
      PROVE  PoolIInv'
  <2>1. amount \in Int /\ p \in Holders /\ p # Pool
    BY <1>h
  <2>2. /\ amount \in Nat
        /\ balance' \in [Holders -> Nat]
        /\ balance'[Pool] = balance[Pool] + amount
    BY <1>1, <1>h, <2>1, TransferEffect DEF DepositLiquidity
  <2>3. stake' \in [Users -> Nat]
    BY <1>1, <2>2 DEF DepositLiquidity
  <2>4. StakesTotal'
    BY <1>1, <2>1, StakesStep DEF DepositLiquidity
  <2> QED
    BY <1>1, <1>h, <2>2, <2>3, <2>4 DEF DepositLiquidity
<1>2. ASSUME NEW p \in Users, NEW amount \in Amounts, WithdrawLiquidity(p, amount)
      PROVE  PoolIInv'
  <2>1. amount \in Int /\ p \in Holders /\ p # Pool
    BY <1>h
  <2>2. /\ amount \in Nat
        /\ balance' \in [Holders -> Nat]
        /\ balance'[Pool] = balance[Pool] - amount
    BY <1>2, <1>h, <2>1, TransferEffect DEF WithdrawLiquidity
  <2>3. stake[p] - amount \in Nat
    BY <1>2, <2>2 DEF WithdrawLiquidity, CanWithdraw
  <2>4. stake' \in [Users -> Nat]
    BY <1>2, <2>3 DEF WithdrawLiquidity
  <2>5. StakesTotal'
    <3> DEFINE delta == 0 - amount
    <3>1. /\ delta \in Int
          /\ stake[p] - amount = stake[p] + delta
          /\ totalCapital - amount = totalCapital + delta
      BY <2>1
    <3>2. /\ stake' = [stake EXCEPT ![p] = @ + delta]
          /\ totalCapital' = totalCapital + delta
      <4> HIDE DEF delta
      <4> QED
        BY <1>2, <3>1 DEF WithdrawLiquidity, CapitalAfterWithdraw
    <3> HIDE DEF delta
    <3> QED
      BY <3>1, <3>2, StakesStep
  <2> QED
    BY <1>2, <1>h, <2>2, <2>4, <2>5 DEF WithdrawLiquidity, CanWithdraw, CapitalAfterWithdraw
<1>3. ASSUME NEW r \in Holders, NEW amount \in Amounts, PayoutClaim(r, amount)
      PROVE  PoolIInv'
  <2>1. amount \in Int
    OBVIOUS
  <2>2. /\ amount \in Nat
        /\ balance' \in [Holders -> Nat]
        /\ balance'[Pool] >= balance[Pool] - amount
    BY <1>3, <1>h, <2>1, TransferEffect DEF PayoutClaim
  <2> QED
    BY <1>3, <1>h, <2>2 DEF PayoutClaim, CapitalAfterPayout, StakesTotal
<1>4. ASSUME NEW from \in Users, NEW to \in Holders, NEW amount \in Amounts,
             TokenTransfer(from, to, amount)
      PROVE  PoolIInv'
  <2>1. amount \in Int /\ from \in Holders /\ from # Pool
    BY <1>h
  <2>2. /\ amount \in Nat
        /\ balance' \in [Holders -> Nat]
        /\ balance'[Pool] = balance[Pool] + (IF Pool = to THEN amount ELSE 0)
                                          - (IF Pool = from THEN amount ELSE 0)
    <3>1. Transfer(from, to, amount)
      BY <1>4 DEF TokenTransfer
    <3> QED
      BY <3>1, <1>h, <2>1, TransferEffect
  <2>3. balance'[Pool] >= balance[Pool]
    BY <2>1, <2>2, <1>h
  <2> QED
    BY <1>4, <1>h, <2>2, <2>3 DEF TokenTransfer, StakesTotal
<1>5. CASE UNCHANGED poolVars
  BY <1>5 DEF poolVars, StakesTotal
<1> QED
  BY <1>1, <1>2, <1>3, <1>4, <1>5 DEF PoolNext

(* The inductive invariant holds in every behaviour.                       *)
THEOREM PoolInvariance == ASSUME RiskPoolAssumption PROVE PoolSpec => []PoolIInv
<1>1. PoolIInv /\ [PoolNext]_poolVars => PoolIInv'
  BY NextPoolIInv
<1> QED
  BY InitPoolIInv, <1>1, PTL DEF PoolSpec

(* No provider is ever recorded with a debt, and no account is overdrawn.  *)
THEOREM PoolTypeCorrect == ASSUME RiskPoolAssumption PROVE PoolSpec => []PoolTypeOK
<1>1. PoolIInv => PoolTypeOK
  BY DEF PoolIInv
<1> QED
  BY PoolInvariance, <1>1, PTL

(* The pool can always pay in tokens what it reports as available.         *)
THEOREM PoolIsSolvent == ASSUME RiskPoolAssumption PROVE PoolSpec => []Solvent
<1>1. PoolIInv => Solvent
  BY DEF PoolIInv
<1> QED
  BY PoolInvariance, <1>1, PTL

(* Capital that is not available was paid to claims, all of it.            *)
THEOREM PoolBooksBalance == ASSUME RiskPoolAssumption PROVE PoolSpec => []BooksBalance
<1>1. PoolIInv => BooksBalance
  BY DEF PoolIInv
<1> QED
  BY PoolInvariance, <1>1, PTL

(* The pool's capital is the sum of the providers' stakes: what one step   *)
(* adds to a stake or takes from it, it adds to or takes from the total.   *)
THEOREM StakesAddUp == ASSUME RiskPoolAssumption PROVE PoolSpec => []StakesTotal
<1>1. PoolIInv => StakesTotal
  BY DEF PoolIInv
<1> QED
  BY PoolInvariance, <1>1, PTL

(* One step takes a stake only by paying its owner in tokens.              *)
LEMMA StakeStep ==
  ASSUME RiskPoolAssumption, PoolIInv, [PoolNext]_poolVars, NEW q \in Users, stake'[q] < stake[q]
  PROVE  balance'[q] - balance[q] = stake[q] - stake'[q]
<1> USE DEF RiskPoolAssumption, PoolIInv, PoolTypeOK
<1>h. Pool \in Holders /\ Users \subseteq Holders
  BY DEF Holders
<1>1. ASSUME NEW p \in Users, NEW amount \in Amounts, DepositLiquidity(p, amount)
      PROVE  FALSE
  <2>1. amount \in Int /\ p \in Holders
    BY <1>h
  <2>2. amount \in Nat
    BY <1>1, <1>h, <2>1, TransferEffect DEF DepositLiquidity
  <2> QED
    BY <1>1, <2>2 DEF DepositLiquidity
<1>2. ASSUME NEW p \in Users, NEW amount \in Amounts, WithdrawLiquidity(p, amount)
      PROVE  balance'[q] - balance[q] = stake[q] - stake'[q]
  <2>1. amount \in Int /\ p \in Holders /\ q \in Holders /\ q # Pool
    BY <1>h
  <2>t. Transfer(Pool, p, amount)
    BY <1>2 DEF WithdrawLiquidity
  <2>2. p = q /\ stake'[q] = stake[q] - amount
    BY <1>2 DEF WithdrawLiquidity
  <2>3. balance'[q] = balance[q] + amount
    <3>1. /\ amount \in Nat
          /\ balance'[q] = balance[q] + (IF q = p THEN amount ELSE 0)
                                      - (IF q = Pool THEN amount ELSE 0)
      BY <2>t, <1>h, <2>1, TransferEffect
    <3> QED
      BY <3>1, <2>1, <2>2
  <2> QED
    BY <2>1, <2>2, <2>3
<1>3. ASSUME UNCHANGED stake PROVE FALSE
  BY <1>3
<1>4. \/ \E p \in Users, amount \in Amounts :
           DepositLiquidity(p, amount) \/ WithdrawLiquidity(p, amount)
      \/ UNCHANGED stake
  BY DEF PoolNext, PayoutClaim, TokenTransfer, poolVars
<1> QED
  BY <1>1, <1>2, <1>3, <1>4

(* A provider's stake falls only by tokens that provider receives in the   *)
(* same transaction, whatever other providers and payouts do.              *)
THEOREM StakeIsSafe == ASSUME RiskPoolAssumption PROVE PoolSpec => StakeLeavesOnlyToOwner
<1>1. PoolIInv /\ [PoolNext]_poolVars
        => [\A p \in Users : stake'[p] < stake[p]
              => balance'[p] - balance[p] = stake[p] - stake'[p]]_poolVars
  BY StakeStep
<1> QED
  BY PoolInvariance, <1>1, PTL DEF PoolSpec, StakeLeavesOnlyToOwner

-----------------------------------------------------------------------------
(* Policy.                                                                 *)

PolicyData ==
  [holder : Policyholders \union {NoUser}, coverage : Coverages \union {0},
   start : 0 .. MaxTime, duration : 0 .. U32 - 1,
   status : {"Absent", "Active", "Renewed", "Expired", "Cancelled"}]

(* A duration stays a u32, whatever is added to it.                        *)
LEMMA DurationType ==
  ASSUME PolicyAssumption, NEW d \in Int
  PROVE  Duration32(d) \in 0 .. U32 - 1
  BY DEF PolicyAssumption, Duration32

(* The contract starts without policies.                                   *)
LEMMA InitPolicyType == PolicyAssumption /\ ClockInit /\ PolicyInit => PolicyTypeOK
  BY DEF PolicyAssumption, ClockInit, PolicyInit, PolicyTypeOK, PolicyId, NoPolicy, PolicyExists

(* The next id is given to the policy that is issued.                      *)
LEMMA IssueKeepsType ==
  ASSUME PolicyAssumption, PolicyTypeOK, UNCHANGED now, NEW u \in Policyholders,
         NEW c \in Coverages, NEW d \in Durations, IssuePolicy(u, c, d)
  PROVE  PolicyTypeOK'
<1> DEFINE n == policyCounter + 1
           new == [holder |-> u, coverage |-> c, start |-> now, duration |-> d,
                   status |-> "Active"]
<1>1. /\ n \in PolicyId /\ policyCounter' = n /\ n \in 0 .. MaxPolicies
      /\ policy' = [policy EXCEPT ![n] = new]
  BY DEF IssuePolicy, PolicyTypeOK, PolicyAssumption, PolicyId
<1>2. new \in PolicyData
  BY DEF PolicyData, PolicyTypeOK, PolicyAssumption
<1>3. policy \in [PolicyId -> PolicyData]
  BY DEF PolicyTypeOK, PolicyData
<1>4. /\ policy' \in [PolicyId -> PolicyData] /\ policy'[n].status = "Active"
      /\ \A id \in PolicyId \ {n} : policy'[id] = policy[id]
  BY <1>1, <1>2, <1>3
<1>5. \A id \in PolicyId : PolicyExists(id)' <=> id <= policyCounter'
  BY <1>1, <1>4 DEF PolicyExists, PolicyTypeOK, PolicyId
<1> QED
  BY <1>1, <1>4, <1>5 DEF PolicyTypeOK, PolicyData

(* What a change of one policy is that leaves it in existence.             *)
LEMMA ChangeKeepsType ==
  ASSUME PolicyAssumption, PolicyTypeOK, UNCHANGED now, NEW id \in PolicyId, PolicyExists(id),
         NEW d \in 0 .. U32 - 1, NEW s \in {"Active", "Renewed", "Expired", "Cancelled"},
         policy' = [policy EXCEPT ![id].duration = d, ![id].status = s],
         UNCHANGED policyCounter
  PROVE  PolicyTypeOK'
<1>1. policy \in [PolicyId -> PolicyData]
  BY DEF PolicyTypeOK, PolicyData
<1>2. /\ policy' \in [PolicyId -> PolicyData] /\ policy'[id].status = s
      /\ \A i \in PolicyId \ {id} : policy'[i] = policy[i]
  BY <1>1 DEF PolicyData
<1>3. \A i \in PolicyId : PolicyExists(i)' <=> PolicyExists(i)
  BY <1>2 DEF PolicyExists
<1> QED
  BY <1>2, <1>3 DEF PolicyTypeOK, PolicyData

(* Renewal, cancellation and expiry change one policy so.                  *)
LEMMA RenewEffect ==
  ASSUME PolicyAssumption, PolicyTypeOK, NEW id \in PolicyId, NEW days \in Durations,
         RenewPolicy(id, days)
  PROVE  /\ PolicyExists(id) /\ InForce(id) /\ UNCHANGED policyCounter
         /\ \E d \in 0 .. U32 - 1 :
              policy' = [policy EXCEPT ![id].duration = d, ![id].status = "Renewed"]
<1>1. policy[id].duration + days \in Int
  BY DEF PolicyTypeOK, PolicyAssumption
<1>2. Duration32(policy[id].duration + days) \in 0 .. U32 - 1
  BY <1>1, DurationType
<1> QED
  BY <1>2 DEF RenewPolicy, CanRenew

(* Cancellation and expiry leave the duration and end the policy.          *)
LEMMA EndEffect ==
  ASSUME PolicyTypeOK, NEW id \in PolicyId, CancelPolicy(id) \/ ExpirePolicy(id)
  PROVE  /\ PolicyExists(id) /\ UNCHANGED policyCounter
         /\ \E d \in 0 .. U32 - 1, s \in {"Expired", "Cancelled"} :
              policy' = [policy EXCEPT ![id].duration = d, ![id].status = s]
<1>1. policy \in [PolicyId -> PolicyData] /\ policy[id].duration \in 0 .. U32 - 1
  BY DEF PolicyTypeOK, PolicyData
<1>2. ASSUME NEW s
      PROVE  [policy EXCEPT ![id].status = s]
               = [policy EXCEPT ![id].duration = policy[id].duration, ![id].status = s]
  BY <1>1 DEF PolicyData
<1>3. /\ PolicyExists(id) /\ UNCHANGED policyCounter
      /\ \/ policy' = [policy EXCEPT ![id].status = "Expired"]
         \/ policy' = [policy EXCEPT ![id].status = "Cancelled"]
  BY DEF CancelPolicy, ExpirePolicy, SetStatus
<1>4. ASSUME NEW s \in {"Expired", "Cancelled"}, policy' = [policy EXCEPT ![id].status = s]
      PROVE  \E d \in 0 .. U32 - 1, t \in {"Expired", "Cancelled"} :
               policy' = [policy EXCEPT ![id].duration = d, ![id].status = t]
  <2>1. policy' = [policy EXCEPT ![id].duration = policy[id].duration, ![id].status = s]
    BY <1>2, <1>4
  <2> QED
    BY <1>1, <2>1
<1> QED
  BY <1>3, <1>4

(* Every transaction keeps the type: ids are dense, a duration stays a u32.*)
LEMMA NextPolicyType ==
  PolicyAssumption /\ PolicyTypeOK /\ [PolicyNext]_policyClockVars => PolicyTypeOK'
<1> SUFFICES ASSUME PolicyAssumption, PolicyTypeOK, [PolicyNext]_policyClockVars
             PROVE  PolicyTypeOK'
  OBVIOUS
<1>1. CASE \E u \in Policyholders, c \in Coverages, d \in Durations :
             IssuePolicy(u, c, d) /\ UNCHANGED now
  BY <1>1, IssueKeepsType
<1>2. ASSUME NEW id \in PolicyId, NEW d \in Durations, RenewPolicy(id, d), UNCHANGED now
      PROVE  PolicyTypeOK'
  <2>1. /\ PolicyExists(id) /\ UNCHANGED policyCounter
        /\ \E x \in 0 .. U32 - 1 :
             policy' = [policy EXCEPT ![id].duration = x, ![id].status = "Renewed"]
    BY <1>2, RenewEffect
  <2> QED
    BY <1>2, <2>1, ChangeKeepsType
<1>3. ASSUME NEW id \in PolicyId, CancelPolicy(id) \/ ExpirePolicy(id), UNCHANGED now
      PROVE  PolicyTypeOK'
  <2>1. /\ PolicyExists(id) /\ UNCHANGED policyCounter
        /\ \E x \in 0 .. U32 - 1, s \in {"Expired", "Cancelled"} :
             policy' = [policy EXCEPT ![id].duration = x, ![id].status = s]
    BY <1>3, EndEffect
  <2> QED
    BY <1>3, <2>1, ChangeKeepsType
<1>4. CASE ClockTicks /\ UNCHANGED policyVars
  BY <1>4 DEF ClockTicks, policyVars, PolicyTypeOK, PolicyExists, PolicyAssumption
<1>5. CASE UNCHANGED policyClockVars
  BY <1>5 DEF policyClockVars, policyVars, PolicyTypeOK, PolicyExists
<1> QED
  BY <1>1, <1>2, <1>3, <1>4, <1>5 DEF PolicyNext, PolicyTransaction, PolicyTick

(* Policy ids are dense, and a duration stays within the width of a u32.   *)
THEOREM PolicyTypeCorrect == ASSUME PolicyAssumption PROVE PolicySpec => []PolicyTypeOK
<1>1. PolicyTypeOK /\ [PolicyNext]_policyClockVars => PolicyTypeOK'
  BY NextPolicyType
<1> QED
  BY InitPolicyType, <1>1, PTL DEF PolicySpec

(* One step leaves a policy that is out of force out of force.             *)
LEMMA LapsedStep ==
  ASSUME PolicyAssumption, PolicyTypeOK, [PolicyNext]_policyClockVars, NEW id \in PolicyId,
         PolicyExists(id), ~InForce(id)
  PROVE  policy'[id].status \in {"Expired", "Cancelled"}
<1>t. /\ policy \in [PolicyId -> PolicyData]
      /\ policy[id].status \in {"Expired", "Cancelled"}
  BY DEF PolicyTypeOK, PolicyData, PolicyExists, InForce
<1>1. ASSUME NEW u \in Policyholders, NEW c \in Coverages, NEW d \in Durations,
             IssuePolicy(u, c, d)
      PROVE  policy'[id] = policy[id]
  <2>1. id # policyCounter + 1
    BY DEF PolicyTypeOK
  <2> QED
    BY <1>1, <1>t, <2>1 DEF IssuePolicy
<1>2. ASSUME NEW i \in PolicyId, NEW d \in Durations, RenewPolicy(i, d)
      PROVE  policy'[id] = policy[id]
  <2>1. i # id
    BY <1>2, RenewEffect
  <2> QED
    BY <1>2, <1>t, <2>1 DEF RenewPolicy
<1>3. ASSUME NEW i \in PolicyId, CancelPolicy(i) \/ ExpirePolicy(i)
      PROVE  policy'[id].status \in {"Expired", "Cancelled"}
  BY <1>3, <1>t DEF CancelPolicy, ExpirePolicy, SetStatus, PolicyData
<1>4. CASE UNCHANGED policyVars
  BY <1>4, <1>t DEF policyVars
<1> QED
  BY <1>1, <1>2, <1>3, <1>4, <1>t DEF PolicyNext, PolicyTransaction, PolicyTick, policyClockVars

(* Cover never starts again: no renewal, cancellation or expiry revives a  *)
(* policy that was cancelled or has expired, in whatever order they come.  *)
THEOREM LapsedIsFinal == ASSUME PolicyAssumption PROVE PolicySpec => LapsedStaysLapsed
<1>1. PolicyTypeOK /\ [PolicyNext]_policyClockVars
        => [\A id \in PolicyId :
              PolicyExists(id) /\ ~InForce(id)
                => policy'[id].status \in {"Expired", "Cancelled"}]_policyClockVars
  BY LapsedStep
<1> QED
  BY PolicyTypeCorrect, <1>1, PTL DEF PolicySpec, LapsedStaysLapsed

(* A policy keeps its holder and its cover, and is issued to an insured    *)
(* account.                                                                *)
LEMMA HolderStays ==
  ASSUME PolicyAssumption, PolicyTypeOK, [PolicyNext]_policyClockVars
  PROVE  /\ policyCounter <= policyCounter'
         /\ \A id \in 1 .. policyCounter :
              policy'[id].holder = policy[id].holder /\ policy'[id].coverage = policy[id].coverage
         /\ \A id \in 1 .. policyCounter' :
              id > policyCounter => policy'[id].holder \in Policyholders
<1>t. /\ policy \in [PolicyId -> PolicyData] /\ policyCounter \in Nat
      /\ 1 .. policyCounter \subseteq PolicyId
  BY DEF PolicyTypeOK, PolicyData, PolicyAssumption, PolicyId
<1>1. ASSUME NEW u \in Policyholders, NEW c \in Coverages, NEW d \in Durations,
             IssuePolicy(u, c, d)
      PROVE  /\ policyCounter' = policyCounter + 1
             /\ \A id \in 1 .. policyCounter : policy'[id] = policy[id]
             /\ policy'[policyCounter + 1].holder \in Policyholders
  <2>1. policyCounter + 1 \in PolicyId
    BY <1>1, <1>t DEF IssuePolicy, PolicyTypeOK, PolicyAssumption, PolicyId
  <2> QED
    BY <1>1, <1>t, <2>1 DEF IssuePolicy
<1>2. ASSUME NEW i \in PolicyId, NEW d \in Durations, RenewPolicy(i, d)
      PROVE  /\ policyCounter' = policyCounter
             /\ \A id \in PolicyId : policy'[id].holder = policy[id].holder
                                   /\ policy'[id].coverage = policy[id].coverage
  BY <1>2, <1>t DEF RenewPolicy, PolicyData
<1>3. ASSUME NEW i \in PolicyId, CancelPolicy(i) \/ ExpirePolicy(i)
      PROVE  /\ policyCounter' = policyCounter
             /\ \A id \in PolicyId : policy'[id].holder = policy[id].holder
                                   /\ policy'[id].coverage = policy[id].coverage
  BY <1>3, <1>t DEF CancelPolicy, ExpirePolicy, SetStatus, PolicyData
<1>4. CASE UNCHANGED policyVars
  BY <1>4, <1>t DEF policyVars
<1>5. CASE \E u \in Policyholders, c \in Coverages, d \in Durations : IssuePolicy(u, c, d)
  <2>1. /\ policyCounter' = policyCounter + 1
        /\ \A id \in 1 .. policyCounter : policy'[id] = policy[id]
        /\ policy'[policyCounter + 1].holder \in Policyholders
    BY <1>1, <1>5
  <2>2. \A id \in 1 .. policyCounter' : id > policyCounter => id = policyCounter + 1
    BY <1>t, <2>1
  <2> QED
    BY <1>t, <2>1, <2>2
<1>6. CASE \E i \in PolicyId : (\E d \in Durations : RenewPolicy(i, d))
                               \/ CancelPolicy(i) \/ ExpirePolicy(i)
  BY <1>2, <1>3, <1>6, <1>t
<1> QED
  BY <1>4, <1>5, <1>6 DEF PolicyNext, PolicyTransaction, PolicyTick, policyClockVars

-----------------------------------------------------------------------------
(* Claims.                                                                 *)

ClaimsIInv == ClaimsTypeOK /\ LockMatchesOpenClaim

(* What a change of status is, in terms of single claims.                  *)
LEMMA MoveEffect ==
  ASSUME ClaimsAssumption, ClaimsTypeOK, NEW c, NEW from, NEW to \in Statuses, Move(c, from, to),
         from # "Absent", to # "Absent"
  PROVE  /\ c \in ClaimId /\ claim[c].status = from /\ ClaimExists(c)
         /\ claim[c].policy \in PolicyIds
         /\ claim'[c].status = to /\ claim'[c].policy = claim[c].policy
         /\ \A d \in ClaimId \ {c} : claim'[d] = claim[d]
         /\ claim' \in [ClaimId ->
              [policy : PolicyIds \union {NoPolicyId},
               claimant : Claimants \union {NoClaimant},
               amount : ClaimAmounts \union {0}, status : Statuses]]
         /\ \A d \in ClaimId : claim'[d].policy = claim[d].policy
                               /\ (claim'[d].status = "Absent" <=> claim[d].status = "Absent")
  BY DEF Move, ClaimsTypeOK, ClaimExists

(* The contract starts without claims and without locks.                   *)
LEMMA InitClaimsIInv == ClaimsAssumption /\ ClaimsInit => ClaimsIInv
  BY DEF ClaimsAssumption, ClaimsInit, ClaimsIInv, ClaimsTypeOK, LockMatchesOpenClaim, ClaimId, NoClaim, NoClaimId,
         ClaimExists, IsOpen, OpenStatuses, Statuses

(* A submission takes the free lock of its policy for the next claim id.   *)
LEMMA SubmitIInv ==
  ASSUME ClaimsAssumption, ClaimsIInv, NEW p \in PolicyIds, NEW amount \in ClaimAmounts,
         NEW coverage, NEW active, NEW h \in Claimants,
         SubmitClaim(p, amount, active, coverage, h)
  PROVE  ClaimsIInv'
<1> DEFINE n == claimCounter + 1
<1> USE DEF ClaimsIInv
<1>1. /\ n \in ClaimId /\ claim[n].status = "Absent"
      /\ claimCounter' = n /\ n # NoClaimId
      /\ claim' = [claim EXCEPT ![n] = [policy |-> p, claimant |-> h, amount |-> amount,
                                        status |-> "Submitted"]]
      /\ activeClaim[p] = NoClaimId
      /\ activeClaim' = [activeClaim EXCEPT ![p] = n]
  BY DEF SubmitClaim, NextClaimId, LockFree, ClaimsTypeOK, ClaimId, ClaimExists, ClaimsAssumption, NoClaimId
<1>2. /\ claim'[n].policy = p /\ claim'[n].status = "Submitted"
      /\ \A d \in ClaimId \ {n} : claim'[d] = claim[d]
      /\ activeClaim'[p] = n
      /\ \A q \in PolicyIds \ {p} : activeClaim'[q] = activeClaim[q]
  BY <1>1 DEF ClaimsTypeOK
<1>3. ClaimsTypeOK'
  <2>1. claim' \in [ClaimId -> [policy : PolicyIds \union {NoPolicyId},
                                claimant : Claimants \union {NoClaimant},
                                amount : ClaimAmounts \union {0}, status : Statuses]]
    BY <1>1 DEF ClaimsTypeOK, Statuses, OpenStatuses
  <2>2. claimCounter' \in 0 .. MaxClaims /\ activeClaim' \in [PolicyIds -> ClaimId \union {NoClaimId}]
    BY <1>1 DEF ClaimsTypeOK, ClaimId, ClaimsAssumption
  <2>3. ASSUME NEW c \in ClaimId
        PROVE  (ClaimExists(c)' <=> c <= claimCounter') /\ (ClaimExists(c)' => claim'[c].policy \in PolicyIds)
    <3>1. CASE c = n
      BY <1>1, <1>2, <3>1 DEF ClaimExists, ClaimId
    <3>2. CASE c # n
      BY <1>1, <1>2, <3>2 DEF ClaimsTypeOK, ClaimExists, ClaimId
    <3> QED
      BY <3>1, <3>2
  <2> QED
    BY <2>1, <2>2, <2>3 DEF ClaimsTypeOK
<1>4. ASSUME NEW c \in ClaimId, NEW q \in PolicyIds
      PROVE  activeClaim'[q] = c <=> claim'[c].policy = q /\ IsOpen(c)'
  <2>1. CASE c = n
    BY <1>1, <1>2, <2>1 DEF LockMatchesOpenClaim, IsOpen, OpenStatuses, ClaimsTypeOK
  <2>2. CASE c # n
    BY <1>1, <1>2, <2>2 DEF LockMatchesOpenClaim, IsOpen, NoClaimId, ClaimId
  <2> QED
    BY <2>1, <2>2
<1> QED
  BY <1>3, <1>4 DEF LockMatchesOpenClaim

(* A step between open statuses leaves the lock where it is.               *)
LEMMA KeepLockIInv ==
  ASSUME ClaimsAssumption, ClaimsIInv, NEW c, NEW from \in OpenStatuses, NEW to \in OpenStatuses,
         Move(c, from, to), UNCHANGED <<claimCounter, activeClaim>>
  PROVE  ClaimsIInv'
<1> USE DEF ClaimsIInv
<1>1. from # "Absent" /\ to # "Absent" /\ to \in Statuses
  BY DEF OpenStatuses, Statuses
<1>2. /\ c \in ClaimId /\ IsOpen(c) /\ claim'[c].policy = claim[c].policy /\ IsOpen(c)'
      /\ \A d \in ClaimId \ {c} : claim'[d] = claim[d]
  BY <1>1, MoveEffect DEF IsOpen
<1>3. ClaimsTypeOK'
  BY <1>1, MoveEffect DEF ClaimsTypeOK, ClaimExists
<1>4. LockMatchesOpenClaim'
  BY <1>2 DEF LockMatchesOpenClaim, IsOpen
<1> QED
  BY <1>3, <1>4

(* A step out of the open statuses frees the lock of that claim's policy,  *)
(* and no other.                                                           *)
LEMMA FreeLockIInv ==
  ASSUME ClaimsAssumption, ClaimsIInv, NEW c, NEW from \in OpenStatuses,
         NEW to \in {"Rejected", "Settled"},
         Move(c, from, to), ReleaseLock(claim[c].policy), UNCHANGED claimCounter
  PROVE  ClaimsIInv'
<1> USE DEF ClaimsIInv
<1>1. from # "Absent" /\ to # "Absent" /\ to \in Statuses /\ to \notin OpenStatuses
  BY DEF OpenStatuses, Statuses
<1>2. /\ c \in ClaimId /\ IsOpen(c) /\ claim'[c].policy = claim[c].policy /\ ~IsOpen(c)'
      /\ claim[c].policy \in PolicyIds
      /\ \A d \in ClaimId \ {c} : claim'[d] = claim[d]
  BY <1>1, MoveEffect DEF IsOpen
<1>3. /\ activeClaim[claim[c].policy] = c
      /\ activeClaim' = [activeClaim EXCEPT ![claim[c].policy] = NoClaimId]
  BY <1>2 DEF ReleaseLock, LockMatchesOpenClaim
<1>4. ClaimsTypeOK'
  BY <1>1, <1>3, MoveEffect DEF ClaimsTypeOK, ClaimExists
<1>5. ASSUME NEW d \in ClaimId, NEW q \in PolicyIds
      PROVE  activeClaim'[q] = d <=> claim'[d].policy = q /\ IsOpen(d)'
  <2>1. d # NoClaimId
    BY DEF ClaimId, NoClaimId
  <2>2. CASE q = claim[c].policy
    BY <1>2, <1>3, <2>1, <2>2 DEF LockMatchesOpenClaim, IsOpen, ClaimsTypeOK
  <2>3. CASE q # claim[c].policy
    BY <1>2, <1>3, <2>3 DEF LockMatchesOpenClaim, IsOpen, ClaimsTypeOK
  <2> QED
    BY <2>2, <2>3
<1> QED
  BY <1>4, <1>5 DEF LockMatchesOpenClaim

(* Every transaction keeps the inductive invariant.                        *)
LEMMA NextClaimsIInv == ClaimsAssumption /\ ClaimsIInv /\ [ClaimsNext]_claimVars => ClaimsIInv'
<1> SUFFICES ASSUME ClaimsAssumption, ClaimsIInv, [ClaimsNext]_claimVars PROVE ClaimsIInv'
  OBVIOUS
<1>1. ASSUME NEW p \in PolicyIds, NEW amount \in ClaimAmounts, NEW coverage \in ClaimAmounts,
             NEW active \in BOOLEAN, NEW h \in Claimants,
             SubmitClaim(p, amount, active, coverage, h)
      PROVE  ClaimsIInv'
  BY <1>1, SubmitIInv
<1>2. ASSUME NEW c \in ClaimId, StartReview(c) PROVE ClaimsIInv'
  <2>1. "Submitted" \in OpenStatuses /\ "UnderReview" \in OpenStatuses
    BY DEF OpenStatuses
  <2> QED
    BY <1>2, <2>1, KeepLockIInv DEF StartReview
<1>3. ASSUME NEW c \in ClaimId, ApproveClaim(c) PROVE ClaimsIInv'
  <2>1. "UnderReview" \in OpenStatuses /\ "Approved" \in OpenStatuses
    BY DEF OpenStatuses
  <2> QED
    BY <1>3, <2>1, KeepLockIInv DEF ApproveClaim
<1>4. ASSUME NEW c \in ClaimId, RejectClaim(c) PROVE ClaimsIInv'
  <2>1. "UnderReview" \in OpenStatuses
    BY DEF OpenStatuses
  <2> QED
    BY <1>4, <2>1, FreeLockIInv DEF RejectClaim
<1>5. ASSUME NEW c \in ClaimId, NEW available \in ClaimAmounts, SettleClaim(c, available) PROVE ClaimsIInv'
  <2>1. "Approved" \in OpenStatuses
    BY DEF OpenStatuses
  <2> QED
    BY <1>5, <2>1, FreeLockIInv DEF SettleClaim
<1>6. CASE UNCHANGED claimVars
  BY <1>6 DEF claimVars, ClaimsIInv, ClaimsTypeOK, LockMatchesOpenClaim, ClaimExists, IsOpen
<1> QED
  BY <1>1, <1>2, <1>3, <1>4, <1>5, <1>6 DEF ClaimsNext

(* The inductive invariant holds in every reachable state.                 *)
THEOREM ClaimsInvariance == ASSUME ClaimsAssumption PROVE ClaimsSpec => []ClaimsIInv
<1>1. ClaimsIInv /\ [ClaimsNext]_claimVars => ClaimsIInv'
  BY NextClaimsIInv
<1> QED
  BY InitClaimsIInv, <1>1, PTL DEF ClaimsSpec

(* Claim ids are dense: the counter never passes over or reuses an id, and *)
(* every claim has a policy.                                               *)
THEOREM ClaimsTypeCorrect == ASSUME ClaimsAssumption PROVE ClaimsSpec => []ClaimsTypeOK
<1>1. ClaimsIInv => ClaimsTypeOK
  BY DEF ClaimsIInv
<1> QED
  BY ClaimsInvariance, <1>1, PTL

(* The lock of a policy points at a claim exactly while that claim is open,*)
(* whatever the order of submissions and decisions.                        *)
THEOREM LockIsTrue == ASSUME ClaimsAssumption PROVE ClaimsSpec => []LockMatchesOpenClaim
<1>1. ClaimsIInv => LockMatchesOpenClaim
  BY DEF ClaimsIInv
<1> QED
  BY ClaimsInvariance, <1>1, PTL

(* So a policy never has two open claims, though only one claim at a time  *)
(* is looked at when another is submitted.                                 *)
THEOREM OneClaimAtATime == ASSUME ClaimsAssumption PROVE ClaimsSpec => []OneOpenClaimPerPolicy
<1>1. ClaimsIInv => OneOpenClaimPerPolicy
  BY DEF ClaimsIInv, ClaimsTypeOK, LockMatchesOpenClaim, OneOpenClaimPerPolicy, IsOpen, ClaimExists, OpenStatuses
<1> QED
  BY ClaimsInvariance, <1>1, PTL

-----------------------------------------------------------------------------
(* Governance.                                                             *)

FinalizedInTime ==
  \A id \in ProposalId :
    proposal[id].finalized => proposal[id].exists /\ now > proposal[id].expires_at

GovIInv == GovTypeOK /\ FinalizedInTime /\ ExecutedMetThreshold

ProposalType ==
  [expires_at : 0 .. MaxTime + VotingPeriod, threshold : Thresholds \union {0},
   yes : I128Values, no : I128Values,
   exists : BOOLEAN, finalized : BOOLEAN, executed : BOOLEAN]

(* Wrapped arithmetic stays within the width of an i128.                   *)
LEMMA I128Type ==
  ASSUME GovernanceAssumption, NEW x \in Int
  PROVE  I128(x) \in I128Values
<1> DEFINE w == 2 * I128Half
<1>1. I128Half \in Nat \ {0} /\ w \in Nat /\ w > 0 /\ x + I128Half \in Int
  BY DEF GovernanceAssumption
<1>2. (x + I128Half) % w \in 0 .. w - 1
  <2> HIDE DEF w
  <2> QED
    BY <1>1
<1> QED
  BY <1>1, <1>2 DEF I128, I128Values

(* Whether a proposal passed is read off its tally and its threshold.      *)
LEMMA PassedSame ==
  ASSUME NEW p, NEW q, q.yes = p.yes, q.no = p.no, q.threshold = p.threshold
  PROVE  Passed(q) = Passed(p)
  BY DEF Passed, TotalVotes

(* The contract starts with no proposal.                                   *)
LEMMA InitGovIInv == GovernanceAssumption /\ ClockInit /\ GovInit => GovIInv
  BY DEF GovernanceAssumption, ClockInit, GovInit, GovIInv, GovTypeOK, FinalizedInTime,
         ExecutedMetThreshold, ProposalId, NoProposal, NoVote, I128Values

(* A new proposal takes the next id, for which nothing is on record.       *)
LEMMA CreateKeepsInv ==
  ASSUME GovernanceAssumption, GovIInv, UNCHANGED now, NEW t \in Thresholds,
         NEW a \in GovActions \union {NoAction}, CreateProposal(t, a)
  PROVE  GovIInv'
<1> DEFINE n == proposalCounter + 1
           new == [NoProposal EXCEPT !.expires_at = now + VotingPeriod,
                                     !.threshold = t, !.exists = TRUE]
<1>1. /\ n \in ProposalId /\ proposalCounter' = n
      /\ proposal' = [proposal EXCEPT ![n] = new]
      /\ pending' = [pending EXCEPT ![n] = a]
      /\ UNCHANGED <<now, voteOf>>
  BY DEF GovIInv, GovTypeOK, GovernanceAssumption, CreateProposal, ProposalId
<1>2. new \in ProposalType /\ new.exists /\ ~new.finalized /\ ~new.executed
  <2>1. now + VotingPeriod \in 0 .. MaxTime + VotingPeriod /\ 0 \in I128Values
    BY DEF GovIInv, GovTypeOK, GovernanceAssumption, I128Values
  <2> QED
    BY <2>1 DEF NoProposal, ProposalType
<1>3. proposal \in [ProposalId -> ProposalType]
  BY DEF GovIInv, GovTypeOK, ProposalType
<1> HIDE DEF new
<1>4. /\ proposal' \in [ProposalId -> ProposalType] /\ proposal'[n] = new
      /\ \A id \in ProposalId \ {n} : proposal'[id] = proposal[id]
  BY <1>1, <1>2, <1>3
<1>5. GovTypeOK'
  <2>1. \A id \in ProposalId : proposal'[id].exists <=> id <= proposalCounter'
    BY <1>1, <1>2, <1>4 DEF GovIInv, GovTypeOK, ProposalId
  <2> QED
    BY <1>1, <1>4, <2>1 DEF GovIInv, GovTypeOK, ProposalType, ProposalId
<1>6. FinalizedInTime'
  BY <1>1, <1>2, <1>4 DEF GovIInv, FinalizedInTime
<1>7. ExecutedMetThreshold'
  BY <1>1, <1>2, <1>4 DEF GovIInv, ExecutedMetThreshold
<1> QED
  BY <1>5, <1>6, <1>7 DEF GovIInv

(* A vote reaches an open proposal only, which was not finalized.          *)
LEMMA VoteEffect ==
  ASSUME GovernanceAssumption, GovIInv, NEW id \in ProposalId, NEW v \in Voters,
         NEW w \in Weights, NEW y \in BOOLEAN, Vote(v, id, w, y)
  PROVE  /\ ~proposal[id].finalized /\ ~proposal[id].executed
         /\ proposal' \in [ProposalId -> ProposalType]
         /\ \A i \in ProposalId \ {id} : proposal'[i] = proposal[i]
         /\ proposal'[id].exists = proposal[id].exists
         /\ proposal'[id].finalized = proposal[id].finalized
         /\ proposal'[id].executed = proposal[id].executed
         /\ voteOf' \in [ProposalId -> [Voters ->
              [weight : Weights \union {0}, cast : {"none", "yes", "no"}]]]
         /\ \A i \in ProposalId \ {id} : voteOf'[i] = voteOf[i]
<1>1. /\ proposal \in [ProposalId -> ProposalType]
      /\ voteOf \in [ProposalId -> [Voters ->
           [weight : Weights \union {0}, cast : {"none", "yes", "no"}]]]
      /\ now \in Int
  BY DEF GovIInv, GovTypeOK, ProposalType
<1>2. now <= proposal[id].expires_at
  BY DEF Vote, VotingOpen
<1>3. ~proposal[id].finalized
  BY <1>1, <1>2 DEF GovIInv, FinalizedInTime, ProposalType
<1>4. ~proposal[id].executed
  BY <1>3 DEF GovIInv, ExecutedMetThreshold
<1>5. I128(proposal[id].yes + w) \in I128Values /\ I128(proposal[id].no + w) \in I128Values
  <2>1. proposal[id].yes + w \in Int /\ proposal[id].no + w \in Int
    BY <1>1 DEF GovernanceAssumption, ProposalType, I128Values
  <2> QED
    BY <2>1, I128Type
<1>6. /\ proposal' \in [ProposalId -> ProposalType]
      /\ \A i \in ProposalId \ {id} : proposal'[i] = proposal[i]
      /\ proposal'[id].exists = proposal[id].exists
      /\ proposal'[id].finalized = proposal[id].finalized
      /\ proposal'[id].executed = proposal[id].executed
  <2>1. CASE y
    <3>1. proposal' = [proposal EXCEPT ![id].yes = I128(@ + w)]
      BY <2>1 DEF Vote
    <3> QED
      BY <1>1, <1>5, <3>1 DEF ProposalType
  <2>2. CASE ~y
    <3>1. proposal' = [proposal EXCEPT ![id].no = I128(@ + w)]
      BY <2>2 DEF Vote
    <3> QED
      BY <1>1, <1>5, <3>1 DEF ProposalType
  <2> QED
    BY <2>1, <2>2
<1>7. /\ voteOf' \in [ProposalId -> [Voters ->
           [weight : Weights \union {0}, cast : {"none", "yes", "no"}]]]
      /\ \A i \in ProposalId \ {id} : voteOf'[i] = voteOf[i]
  BY <1>1 DEF Vote
<1> QED
  BY <1>3, <1>4, <1>6, <1>7

(* So a vote keeps the invariant.                                          *)
LEMMA VoteKeepsInv ==
  ASSUME GovernanceAssumption, GovIInv, UNCHANGED now, NEW id \in ProposalId, NEW v \in Voters,
         NEW w \in Weights, NEW y \in BOOLEAN, Vote(v, id, w, y)
  PROVE  GovIInv'
<1>1. UNCHANGED <<now, proposalCounter, pending>>
  BY DEF Vote
<1>2. GovTypeOK'
  <2>1. \A i \in ProposalId : proposal'[i].exists = proposal[i].exists
    BY VoteEffect
  <2>2. /\ proposal' \in [ProposalId -> ProposalType]
        /\ voteOf' \in [ProposalId -> [Voters ->
             [weight : Weights \union {0}, cast : {"none", "yes", "no"}]]]
    BY VoteEffect
  <2> QED
    BY <1>1, <2>1, <2>2 DEF GovIInv, GovTypeOK, ProposalType
<1>3. FinalizedInTime'
  BY <1>1, VoteEffect DEF GovIInv, FinalizedInTime
<1>4. ExecutedMetThreshold'
  BY <1>1, VoteEffect DEF GovIInv, ExecutedMetThreshold
<1> QED
  BY <1>2, <1>3, <1>4 DEF GovIInv

(* Finalizing and executing set one flag of a proposal and leave its tally.*)
LEMMA FinalizeKeepsInv ==
  ASSUME GovernanceAssumption, GovIInv, UNCHANGED now, NEW id \in ProposalId, FinalizeProposal(id)
  PROVE  GovIInv'
<1>1. proposal \in [ProposalId -> ProposalType]
  BY DEF GovIInv, GovTypeOK, ProposalType
<1>2. /\ proposal' = [proposal EXCEPT ![id].finalized = TRUE]
      /\ proposal[id].exists /\ now > proposal[id].expires_at
      /\ UNCHANGED <<now, proposalCounter, voteOf, pending>>
  BY DEF FinalizeProposal, VotingOver
<1>3. /\ proposal' \in [ProposalId -> ProposalType]
      /\ \A i \in ProposalId \ {id} : proposal'[i] = proposal[i]
      /\ proposal'[id] = [proposal[id] EXCEPT !.finalized = TRUE]
  BY <1>1, <1>2 DEF ProposalType
<1>4. /\ proposal'[id].exists = proposal[id].exists /\ proposal'[id].finalized
      /\ proposal'[id].executed = proposal[id].executed
      /\ proposal'[id].expires_at = proposal[id].expires_at
      /\ Passed(proposal'[id]) = Passed(proposal[id])
  BY <1>1, <1>3, PassedSame DEF ProposalType
<1>5. GovTypeOK'
  BY <1>2, <1>3, <1>4 DEF GovIInv, GovTypeOK, ProposalType
<1>6. FinalizedInTime' /\ ExecutedMetThreshold'
  BY <1>2, <1>3, <1>4 DEF GovIInv, FinalizedInTime, ExecutedMetThreshold
<1> QED
  BY <1>5, <1>6 DEF GovIInv

(* An execution, too, sets one flag.                                       *)
LEMMA ExecuteKeepsInv ==
  ASSUME GovernanceAssumption, GovIInv, UNCHANGED now, NEW id \in ProposalId, ExecuteProposal(id)
  PROVE  GovIInv'
<1>1. /\ proposal \in [ProposalId -> ProposalType]
      /\ pending \in [ProposalId -> GovActions \union {NoAction}]
  BY DEF GovIInv, GovTypeOK, ProposalType
<1>2. /\ proposal' = [proposal EXCEPT ![id].executed = TRUE]
      /\ proposal[id].finalized /\ Passed(proposal[id])
      /\ pending' = [pending EXCEPT ![id] = NoAction]
      /\ UNCHANGED <<now, proposalCounter, voteOf>>
  BY DEF ExecuteProposal, CanExecute, ActionsAfterExecute
<1>3. /\ proposal' \in [ProposalId -> ProposalType]
      /\ \A i \in ProposalId \ {id} : proposal'[i] = proposal[i]
      /\ proposal'[id] = [proposal[id] EXCEPT !.executed = TRUE]
      /\ pending' \in [ProposalId -> GovActions \union {NoAction}]
  BY <1>1, <1>2 DEF ProposalType
<1>4. /\ proposal'[id].exists = proposal[id].exists
      /\ proposal'[id].finalized = proposal[id].finalized
      /\ proposal'[id].expires_at = proposal[id].expires_at
      /\ Passed(proposal'[id]) = Passed(proposal[id])
  BY <1>1, <1>3, PassedSame DEF ProposalType
<1>5. GovTypeOK'
  BY <1>2, <1>3, <1>4 DEF GovIInv, GovTypeOK, ProposalType
<1>6. FinalizedInTime' /\ ExecutedMetThreshold'
  BY <1>2, <1>3, <1>4 DEF GovIInv, FinalizedInTime, ExecutedMetThreshold
<1> QED
  BY <1>5, <1>6 DEF GovIInv

(* Time only takes a finalized proposal further from its expiry.           *)
LEMMA TickKeepsInv ==
  ASSUME GovernanceAssumption, GovIInv, ClockTicks, UNCHANGED govVars
  PROVE  GovIInv'
<1>1. now \in 0 .. MaxTime /\ now' = now + 1 /\ now' \in 0 .. MaxTime
  BY DEF ClockTicks, GovIInv, GovTypeOK, GovernanceAssumption
<1>2. \A id \in ProposalId : proposal[id].expires_at \in Int
  BY DEF GovIInv, GovTypeOK
<1> QED
  BY <1>1, <1>2 DEF govVars, GovIInv, GovTypeOK, FinalizedInTime, ExecutedMetThreshold

(* Every transaction keeps the inductive invariant, and so does time.      *)
LEMMA NextGovIInv == GovernanceAssumption /\ GovIInv /\ [GovNext]_govClockVars => GovIInv'
<1> SUFFICES ASSUME GovernanceAssumption, GovIInv, [GovNext]_govClockVars PROVE GovIInv'
  OBVIOUS
<1>1. CASE \E t \in Thresholds, a \in GovActions \union {NoAction} :
             CreateProposal(t, a) /\ UNCHANGED now
  BY <1>1, CreateKeepsInv
<1>2. CASE \E id \in ProposalId, v \in Voters, w \in Weights, y \in BOOLEAN :
             Vote(v, id, w, y) /\ UNCHANGED now
  BY <1>2, VoteKeepsInv
<1>3. CASE \E id \in ProposalId : FinalizeProposal(id) /\ UNCHANGED now
  BY <1>3, FinalizeKeepsInv
<1>4. CASE \E id \in ProposalId : ExecuteProposal(id) /\ UNCHANGED now
  BY <1>4, ExecuteKeepsInv
<1>5. CASE ClockTicks /\ UNCHANGED govVars
  BY <1>5, TickKeepsInv
<1>6. CASE UNCHANGED govClockVars
  BY <1>6 DEF govClockVars, govVars, GovIInv, GovTypeOK, FinalizedInTime, ExecutedMetThreshold
<1> QED
  BY <1>1, <1>2, <1>3, <1>4, <1>5, <1>6 DEF GovNext, GovTransaction, GovTick

(* The inductive invariant holds in every behaviour.                       *)
THEOREM GovInvariance == ASSUME GovernanceAssumption PROVE GovSpec => []GovIInv
<1>1. GovIInv /\ [GovNext]_govClockVars => GovIInv'
  BY NextGovIInv
<1> QED
  BY InitGovIInv, <1>1, PTL DEF GovSpec

(* Proposal ids are dense, and tallies stay within the width of an i128.   *)
THEOREM GovTypeCorrect == ASSUME GovernanceAssumption PROVE GovSpec => []GovTypeOK
<1>1. GovIInv => GovTypeOK
  BY DEF GovIInv
<1> QED
  BY GovInvariance, <1>1, PTL

(* Whatever was executed had been finalized after its voting period, and   *)
(* meets its threshold still.                                              *)
THEOREM ExecutedHadPassed == ASSUME GovernanceAssumption PROVE GovSpec => []ExecutedMetThreshold
<1>1. GovIInv => ExecutedMetThreshold
  BY DEF GovIInv
<1> QED
  BY GovInvariance, <1>1, PTL

(* In one step, a finalized proposal keeps its outcome and its votes.      *)
LEMMA OutcomeStep ==
  ASSUME GovernanceAssumption, GovIInv, [GovNext]_govClockVars, NEW id \in ProposalId,
         proposal[id].finalized
  PROVE  /\ proposal'[id].finalized
         /\ Passed(proposal'[id]) = Passed(proposal[id])
         /\ voteOf'[id] = voteOf[id]
<1>t. proposal \in [ProposalId -> ProposalType]
  BY DEF GovIInv, GovTypeOK, ProposalType
<1>1. ASSUME NEW t \in Thresholds, NEW a \in GovActions \union {NoAction}, CreateProposal(t, a)
      PROVE  proposal'[id] = proposal[id] /\ voteOf' = voteOf
  <2>1. id # proposalCounter + 1
    BY DEF GovIInv, FinalizedInTime, GovTypeOK
  <2> QED
    BY <1>1, <1>t, <2>1 DEF CreateProposal
<1>2. ASSUME NEW i \in ProposalId, NEW v \in Voters, NEW w \in Weights, NEW y \in BOOLEAN,
             Vote(v, i, w, y)
      PROVE  proposal'[id] = proposal[id] /\ voteOf'[id] = voteOf[id]
  BY <1>2, VoteEffect
<1>3. ASSUME NEW i \in ProposalId, FinalizeProposal(i) \/ ExecuteProposal(i)
      PROVE  /\ proposal'[id].finalized /\ voteOf' = voteOf
             /\ Passed(proposal'[id]) = Passed(proposal[id])
  <2>1. /\ voteOf' = voteOf
        /\ proposal'[id].finalized
        /\ proposal'[id].yes = proposal[id].yes /\ proposal'[id].no = proposal[id].no
        /\ proposal'[id].threshold = proposal[id].threshold
    BY <1>3, <1>t DEF FinalizeProposal, ExecuteProposal, ProposalType
  <2> QED
    BY <2>1, PassedSame
<1>4. CASE UNCHANGED govVars
  BY <1>4 DEF govVars
<1> QED
  BY <1>1, <1>2, <1>3, <1>4 DEF GovNext, GovTransaction, GovTick, govClockVars

(* Once a proposal is finalized no vote reaches it, so that its outcome,   *)
(* passed or refused, stands.                                              *)
THEOREM OutcomeIsFinal == ASSUME GovernanceAssumption PROVE GovSpec => OutcomeStands
<1>1. GovIInv /\ [GovNext]_govClockVars
        => [\A id \in ProposalId :
              proposal[id].finalized =>
                /\ proposal'[id].finalized
                /\ Passed(proposal'[id]) = Passed(proposal[id])
                /\ voteOf'[id] = voteOf[id]]_govClockVars
  BY OutcomeStep
<1> QED
  BY GovInvariance, <1>1, PTL DEF GovSpec, OutcomeStands

(* The weight on record for one side of one proposal, r being the records  *)
(* of its voters.                                                          *)
Counted(r, side) ==
  SumFunctionOnSet([v \in Voters |-> r[v].weight], {v \in Voters : r[v].cast = side})

VoteRecords == [Voters -> [weight : Weights \union {0}, cast : {"none", "yes", "no"}]]

(* A sum that wraps at every vote wraps once.                              *)
LEMMA I128Add ==
  ASSUME GovernanceAssumption, NEW x \in Int, NEW w \in Int
  PROVE  I128(I128(x) + w) = I128(x + w)
<1> DEFINE h == I128Half
           m == 2 * I128Half
           r == (x + h) % m
<1>1. h \in Int /\ m \in Nat \ {0} /\ x + h \in Int
  BY DEF GovernanceAssumption
<1>2. r \in Int
  <2> HIDE DEF m, h
  <2> QED
    BY <1>1, DivMod
<1>3. (r + w) % m = ((x + h) + w) % m
  <2> HIDE DEF m, h
  <2> QED
    BY <1>1, ModAdd
<1>4. I128(x) = r - h
  BY DEF I128
<1>5. (I128(x) + w) + h = r + w /\ (x + w) + h = (x + h) + w
  <2> HIDE DEF m, h, r
  <2> QED
    BY <1>1, <1>2, <1>4
<1>6. I128(I128(x) + w) = ((r + w) % m) - h
  BY <1>5 DEF I128
<1>7. I128(x + w) = (((x + h) + w) % m) - h
  BY <1>5 DEF I128
<1> QED
  BY <1>3, <1>6, <1>7

(* One record more adds its weight to its own side.                        *)
LEMMA CountOne ==
  ASSUME GovernanceAssumption, NEW r \in VoteRecords, NEW v \in Voters, r[v].cast = "none",
         NEW w \in Weights, NEW side \in {"yes", "no"}, NEW q \in VoteRecords,
         q[v].weight = w, q[v].cast = side, \A u \in Voters \ {v} : q[u] = r[u]
  PROVE  /\ Counted(r, side) \in Int
         /\ Counted(q, side) = Counted(r, side) + w
         /\ \A other \in {"yes", "no"} \ {side} : Counted(q, other) = Counted(r, other)
<1> DEFINE f == [u \in Voters |-> r[u].weight]
           g == [u \in Voters |-> q[u].weight]
           On(p, s) == {u \in Voters : p[u].cast = s}
<1>1. /\ \A u \in Voters : f[u] \in Int /\ g[u] \in Int
      /\ \A u \in Voters \ {v} : g[u] = f[u] /\ q[u] = r[u]
      /\ g[v] = w /\ w \in Int /\ q[v].cast = side /\ r[v].cast = "none"
  <2>1. \A u \in Voters : r[u].weight \in Int
    <3>1. Weights \union {0} \subseteq Int
      BY DEF GovernanceAssumption
    <3> QED
      BY <3>1 DEF VoteRecords
  <2>2. w \in Int
    BY DEF GovernanceAssumption
  <2>3. \A u \in Voters : q[u].weight \in Int
    BY <2>1, <2>2
  <2> QED
    BY <2>1, <2>2, <2>3
<1>2. \A p, s : On(p, s) \subseteq Voters /\ IsFiniteSet(On(p, s))
  BY FS_Subset DEF GovernanceAssumption
<1>3. /\ v \notin On(r, side) /\ On(q, side) = On(r, side) \union {v}
      /\ \A s \in {"yes", "no"} \ {side} : On(q, s) = On(r, s) /\ v \notin On(r, s)
  BY <1>1
<1>4. /\ \A s : Counted(r, s) = SumFunctionOnSet(f, On(r, s))
      /\ \A s : Counted(q, s) = SumFunctionOnSet(g, On(q, s))
  BY DEF Counted
<1> HIDE DEF f, g, On
<1>5. ASSUME NEW s \in {"yes", "no"}
      PROVE  /\ SumFunctionOnSet(f, On(r, s)) \in Int
             /\ SumFunctionOnSet(g, On(r, s)) = SumFunctionOnSet(f, On(r, s))
  <2>1. IsFiniteSet(On(r, s)) /\ On(r, s) \subseteq Voters /\ v \notin On(r, s)
    BY <1>2, <1>3
  <2>2. \A u \in On(r, s) : f[u] \in Int /\ g[u] = f[u]
    BY <1>1, <2>1
  <2>3. SumFunctionOnSet(f, On(r, s)) \in Int
    BY <2>1, <2>2, SumRemove
  <2>4. SumFunctionOnSet(g, On(r, s)) = SumFunctionOnSet(f, On(r, s))
    BY <2>1, <2>2, SumSame
  <2> QED
    BY <2>3, <2>4
<1>6. SumFunctionOnSet(g, On(q, side)) = SumFunctionOnSet(g, On(r, side)) + w
  <2> DEFINE S == On(r, side)
  <2>1. IsFiniteSet(S) /\ v \notin S /\ (\A u \in S \union {v} : g[u] \in Int)
    BY <1>1, <1>2, <1>3
  <2> HIDE DEF S
  <2>2. SumFunctionOnSet(g, S \union {v}) = SumFunctionOnSet(g, S) + g[v]
    BY <2>1, SumAdd
  <2> QED
    BY <1>1, <1>3, <2>2 DEF S
<1>7. Counted(r, side) \in Int /\ Counted(q, side) = Counted(r, side) + w
  BY <1>3, <1>4, <1>5, <1>6
<1>8. \A other \in {"yes", "no"} \ {side} : Counted(q, other) = Counted(r, other)
  BY <1>3, <1>4, <1>5
<1> QED
  BY <1>7, <1>8

(* A vote is added to the tally of its side, and to the records of it.     *)
LEMMA VoteKeepsTally ==
  ASSUME GovernanceAssumption, GovIInv, TallyMatchesRecords, NEW id \in ProposalId,
         NEW v \in Voters, NEW w \in Weights, NEW y \in BOOLEAN, Vote(v, id, w, y)
  PROVE  TallyMatchesRecords'
<1> DEFINE side == IF y THEN "yes" ELSE "no"
           other == IF y THEN "no" ELSE "yes"
<1>1. /\ voteOf \in [ProposalId -> VoteRecords] /\ proposal \in [ProposalId -> ProposalType]
      /\ voteOf[id][v] = NoVote
      /\ voteOf' = [voteOf EXCEPT ![id][v] = [weight |-> w, cast |-> side]]
  BY DEF Vote, HasNotVoted, GovIInv, GovTypeOK, VoteRecords, ProposalType
<1>2. /\ voteOf[id] \in VoteRecords
      /\ voteOf'[id] = [voteOf[id] EXCEPT ![v] = [weight |-> w, cast |-> side]]
      /\ \A i \in ProposalId \ {id} : voteOf'[i] = voteOf[i] /\ proposal'[i] = proposal[i]
  BY <1>1, VoteEffect
<1>3. /\ Counted(voteOf[id], side) \in Int
      /\ Counted(voteOf'[id], side) = Counted(voteOf[id], side) + w
      /\ Counted(voteOf'[id], other) = Counted(voteOf[id], other)
  <2>1. side \in {"yes", "no"} /\ other \in {"yes", "no"} \ {side}
    OBVIOUS
  <2> DEFINE q == voteOf'[id]
             r == voteOf[id]
  <2> HIDE DEF side, other, q, r
  <2>2. /\ r \in VoteRecords /\ r[v].cast = "none" /\ q \in VoteRecords
        /\ q[v].weight = w /\ q[v].cast = side
        /\ \A u \in Voters \ {v} : q[u] = r[u]
    BY <1>1, <1>2, <2>1 DEF q, r, VoteRecords, NoVote
  <2>3. /\ Counted(r, side) \in Int
        /\ Counted(q, side) = Counted(r, side) + w
        /\ \A o \in {"yes", "no"} \ {side} : Counted(q, o) = Counted(r, o)
    BY <2>1, <2>2, CountOne
  <2> QED
    BY <2>1, <2>3 DEF q, r
<1>4. \A i \in ProposalId :
        /\ proposal[i].yes = I128(Counted(voteOf[i], "yes"))
        /\ proposal[i].no = I128(Counted(voteOf[i], "no"))
  BY DEF TallyMatchesRecords, WeightOf, CastFor, Counted
<1>5. w \in Int
  BY DEF GovernanceAssumption
<1>6. /\ proposal'[id].yes = I128(Counted(voteOf'[id], "yes"))
      /\ proposal'[id].no = I128(Counted(voteOf'[id], "no"))
  <2>1. CASE y
    <3>1. /\ proposal'[id].yes = I128(proposal[id].yes + w)
          /\ proposal'[id].no = proposal[id].no
      BY <1>1, <2>1 DEF Vote, ProposalType
    <3> QED
      BY <1>3, <1>4, <1>5, <2>1, <3>1, I128Add
  <2>2. CASE ~y
    <3>1. /\ proposal'[id].no = I128(proposal[id].no + w)
          /\ proposal'[id].yes = proposal[id].yes
      BY <1>1, <2>2 DEF Vote, ProposalType
    <3> QED
      BY <1>3, <1>4, <1>5, <2>2, <3>1, I128Add
  <2> QED
    BY <2>1, <2>2
<1>7. \A i \in ProposalId :
        /\ proposal'[i].yes = I128(Counted(voteOf'[i], "yes"))
        /\ proposal'[i].no = I128(Counted(voteOf'[i], "no"))
  BY <1>2, <1>4, <1>6
<1> QED
  BY <1>7 DEF TallyMatchesRecords, WeightOf, CastFor, Counted

(* An id that was not given to a proposal yet has no tally.                *)
UnopenedIsEmpty ==
  \A id \in ProposalId : ~proposal[id].exists => proposal[id].yes = 0 /\ proposal[id].no = 0

(* A transaction fills in what it opens: a new proposal, and no other id. *)
LEMMA NextUnopened ==
  ASSUME GovernanceAssumption, GovIInv, UnopenedIsEmpty, [GovNext]_govClockVars
  PROVE  UnopenedIsEmpty'
<1>t. proposal \in [ProposalId -> ProposalType]
  BY DEF GovIInv, GovTypeOK, ProposalType
<1>1. ASSUME NEW i \in ProposalId, NEW t \in Thresholds, NEW a \in GovActions \union {NoAction},
             CreateProposal(t, a), ~proposal'[i].exists
      PROVE  proposal'[i] = proposal[i]
  BY <1>1, <1>t DEF CreateProposal, NoProposal
<1>2. ASSUME NEW i \in ProposalId, NEW id \in ProposalId, NEW v \in Voters, NEW w \in Weights,
             NEW y \in BOOLEAN, Vote(v, id, w, y), ~proposal'[i].exists
      PROVE  proposal'[i] = proposal[i]
  <2>1. proposal[id].exists /\ proposal'[id].exists = proposal[id].exists
    BY <1>2, VoteEffect DEF Vote, VotingOpen
  <2> QED
    BY <1>2, <2>1, VoteEffect
<1>3. ASSUME NEW i \in ProposalId, NEW id \in ProposalId,
             FinalizeProposal(id) \/ ExecuteProposal(id), ~proposal'[i].exists
      PROVE  proposal'[i] = proposal[i]
  <2>1. proposal[id].exists
    BY <1>3 DEF FinalizeProposal, VotingOver, ExecuteProposal, CanExecute, GovIInv, FinalizedInTime
  <2>2. proposal'[id].exists = proposal[id].exists
    BY <1>3, <1>t DEF FinalizeProposal, ExecuteProposal, ProposalType
  <2>3. i # id
    BY <1>3, <2>1, <2>2
  <2> QED
    BY <1>3, <1>t, <2>3 DEF FinalizeProposal, ExecuteProposal
<1>4. CASE UNCHANGED govVars
  BY <1>4 DEF govVars, UnopenedIsEmpty
<1>5. ASSUME NEW i \in ProposalId, ~proposal'[i].exists, ~UNCHANGED govVars
      PROVE  proposal'[i] = proposal[i]
  BY <1>1, <1>2, <1>3, <1>5 DEF GovNext, GovTransaction, GovTick, govClockVars
<1> QED
  BY <1>4, <1>5 DEF UnopenedIsEmpty

(* No proposal starts with votes, and no other step touches a tally.       *)
LEMMA NextTally ==
  ASSUME GovernanceAssumption, GovIInv, UnopenedIsEmpty, TallyMatchesRecords,
         [GovNext]_govClockVars
  PROVE  TallyMatchesRecords'
<1>1. ASSUME NEW id \in ProposalId, NEW v \in Voters, NEW w \in Weights, NEW y \in BOOLEAN,
             Vote(v, id, w, y)
      PROVE  TallyMatchesRecords'
  BY <1>1, VoteKeepsTally
<1>2. ASSUME voteOf' = voteOf, \A i \in ProposalId : proposal'[i].yes = proposal[i].yes
                                                   /\ proposal'[i].no = proposal[i].no
      PROVE  TallyMatchesRecords'
  BY <1>2 DEF TallyMatchesRecords, WeightOf, CastFor
<1>t. proposal \in [ProposalId -> ProposalType]
  BY DEF GovIInv, GovTypeOK, ProposalType
<1>3. ASSUME NEW t \in Thresholds, NEW a \in GovActions \union {NoAction}, CreateProposal(t, a)
      PROVE  TallyMatchesRecords'
  <2> DEFINE n == proposalCounter + 1
  <2>1. n \in ProposalId /\ ~proposal[n].exists
    BY <1>3 DEF CreateProposal, GovIInv, GovTypeOK, ProposalId, GovernanceAssumption
  <2>2. proposal[n].yes = 0 /\ proposal[n].no = 0
    BY <2>1 DEF UnopenedIsEmpty
  <2> QED
    BY <1>2, <1>3, <1>t, <2>1, <2>2 DEF CreateProposal, NoProposal
<1>4. ASSUME NEW i \in ProposalId, FinalizeProposal(i) \/ ExecuteProposal(i)
      PROVE  TallyMatchesRecords'
  BY <1>2, <1>4, <1>t DEF FinalizeProposal, ExecuteProposal, ProposalType
<1>5. CASE UNCHANGED govVars
  BY <1>2, <1>5 DEF govVars
<1> QED
  BY <1>1, <1>3, <1>4, <1>5 DEF GovNext, GovTransaction, GovTick, govClockVars

(* The contract starts with empty tallies and no records.                  *)
LEMMA InitTally == GovernanceAssumption /\ GovInit => UnopenedIsEmpty /\ TallyMatchesRecords
<1> SUFFICES ASSUME GovernanceAssumption, GovInit PROVE UnopenedIsEmpty /\ TallyMatchesRecords
  OBVIOUS
<1>1. ASSUME NEW id \in ProposalId, NEW side \in {"yes", "no"} PROVE WeightOf(id, side) = 0
  <2>1. CastFor(id, side) = {}
    BY DEF GovInit, CastFor, NoVote
  <2> QED
    BY <2>1, SumEmpty DEF WeightOf
<1>2. I128(0) = 0
  <2> DEFINE h == I128Half
             m == 2 * I128Half
  <2>1. h \in 0 .. m - 1 /\ m \in Nat \ {0}
    BY DEF GovernanceAssumption
  <2>2. (m * 0 + h) % m = h /\ m * 0 + h = 0 + h
    <3>1. m * 0 + h = 0 + h
      BY <2>1
    <3> HIDE DEF h, m
    <3> QED
      BY <2>1, <3>1, ModUnique
  <2>3. I128(0) = ((0 + h) % m) - h
    BY DEF I128
  <2> HIDE DEF m, h
  <2>4. h - h = 0
    BY <2>1
  <2> QED
    BY <2>2, <2>3, <2>4
<1>3. \A id \in ProposalId : proposal[id].yes = 0 /\ proposal[id].no = 0
  BY DEF GovInit, NoProposal
<1> QED
  BY <1>1, <1>2, <1>3 DEF TallyMatchesRecords, UnopenedIsEmpty

(* The tally a decision rests on is the votes on record, each counted once *)
(* and none lost, whatever the weights and wherever the sum wraps.         *)
THEOREM TallyIsTrue == ASSUME GovernanceAssumption PROVE GovSpec => []TallyMatchesRecords
<1>1. GovIInv /\ UnopenedIsEmpty /\ [GovNext]_govClockVars => UnopenedIsEmpty'
  BY NextUnopened
<1>2. GovIInv /\ UnopenedIsEmpty /\ TallyMatchesRecords /\ [GovNext]_govClockVars
        => TallyMatchesRecords'
  BY NextTally
<1> QED
  BY GovInvariance, InitTally, <1>1, <1>2, PTL DEF GovSpec
=============================================================================
