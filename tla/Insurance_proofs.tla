--------------------------- MODULE Insurance_proofs ---------------------------
(***************************************************************************)
(* Proofs about the ink! insurance contract: its administration, for any   *)
(* accounts, roles and delay, and the liquidity of a pool, for any         *)
(* providers, amounts, rates, precision and vesting.                       *)
(*                                                                         *)
(* That a new admin had notice needs to know what the stored deadline is:  *)
(* exactly the delay after the last proposal, as long as one is pending.   *)
(* The pool's books need to know that a penalty takes no more than there   *)
(* is to vest.  That rewards stay within the income needs to know what a   *)
(* provider has earned to the fraction: what it was granted, and the part  *)
(* of its stake times the index that its debt does not cover.              *)
(***************************************************************************)
EXTENDS InsuranceAdmin, InsurancePool, SumLemmas, TLAPS

(* The deadline of a pending transfer counts from the last proposal.       *)
DeadlineIsTrue ==
  adminAfter # Never => notice.admin \in Nat /\ adminAfter = notice.admin + Delay

AdminIInv == AdminTypeOK /\ DeadlineIsTrue

(* The contract starts with nothing proposed.                              *)
LEMMA InitAdmin == InsuranceAdminAssumption /\ AdminInit => AdminIInv
<1> SUFFICES ASSUME InsuranceAdminAssumption, AdminInit PROVE AdminIInv
  OBVIOUS
<1>1. roles \subseteq Accounts \X AllRoles
  BY DEF InsuranceAdminAssumption, AdminInit, AllRoles
<1>2. now \in 1 .. MaxTime
  BY DEF InsuranceAdminAssumption, AdminInit
<1>3. /\ admin \in Accounts /\ paused \in BOOLEAN /\ pauseAfter = Never
      /\ pendingAdmin = NoOne /\ adminAfter = Never
      /\ notice = [pause |-> Never, admin |-> Never]
  BY DEF InsuranceAdminAssumption, AdminInit
<1> QED
  BY <1>1, <1>2, <1>3 DEF AdminIInv, AdminTypeOK, DeadlineIsTrue

(* Every message, and the clock, keeps the inductive invariant.            *)
LEMMA NextAdmin == InsuranceAdminAssumption /\ AdminIInv /\ [AdminNext]_adminVars => AdminIInv'
<1> SUFFICES ASSUME InsuranceAdminAssumption, AdminIInv, [AdminNext]_adminVars PROVE AdminIInv'
  OBVIOUS
<1> USE DEF AdminIInv, AdminTypeOK, DeadlineIsTrue
<1>1. ASSUME NEW caller \in Accounts, NEW a \in Accounts, NEW r \in AllRoles,
             GrantRole(caller, a, r) \/ RevokeRole(caller, a, r)
      PROVE  AdminIInv'
  BY <1>1 DEF GrantRole, RevokeRole, pauseVars, transferVars
<1>2. ASSUME NEW caller \in Accounts, ProposePause(caller) PROVE AdminIInv'
  BY <1>2 DEF ProposePause, transferVars, InsuranceAdminAssumption
<1>3. ASSUME NEW caller \in Accounts, ExecutePause(caller) PROVE AdminIInv'
  BY <1>3 DEF ExecutePause, transferVars
<1>4. ASSUME NEW caller \in Accounts, NEW b \in BOOLEAN, SetPaused(caller, b) PROVE AdminIInv'
  BY <1>4 DEF SetPaused, transferVars
<1>5. ASSUME NEW caller \in Accounts, NEW a \in Accounts, ProposeSetAdmin(caller, a) PROVE AdminIInv'
  <2>1. /\ now \in Nat /\ now + Delay \in Nat /\ a # NoOne /\ now + Delay # Never
    BY DEF InsuranceAdminAssumption
  <2> QED
    BY <1>5, <2>1 DEF ProposeSetAdmin, pauseVars
<1>6. ASSUME NEW caller \in Accounts, ExecuteSetAdmin(caller) PROVE AdminIInv'
  BY <1>6 DEF ExecuteSetAdmin, LockOpen, pauseVars
<1>7. ASSUME NEW caller \in Accounts, CancelPendingAdmin(caller) PROVE AdminIInv'
  BY <1>7 DEF CancelPendingAdmin, pauseVars
<1>8. CASE AdminTick
  BY <1>8 DEF AdminTick, BlockTime, pauseVars, transferVars, InsuranceAdminAssumption
<1>9. CASE UNCHANGED adminVars
  BY <1>9 DEF adminVars, pauseVars, transferVars
<1> QED
  BY <1>1, <1>2, <1>3, <1>4, <1>5, <1>6, <1>7, <1>8, <1>9 DEF AdminNext

(* Only execute_set_admin changes the admin, and only behind the lock.     *)
LEMMA StepHadNotice ==
  AdminIInv /\ [AdminNext]_adminVars =>
    [admin' # admin => /\ admin' = pendingAdmin
                       /\ notice.admin \in Nat
                       /\ now >= notice.admin + Delay]_adminVars
<1> SUFFICES ASSUME AdminIInv, AdminNext, admin' # admin
             PROVE  /\ admin' = pendingAdmin
                    /\ notice.admin \in Nat
                    /\ now >= notice.admin + Delay
  OBVIOUS
<1>1. PICK caller \in Accounts : ExecuteSetAdmin(caller)
  BY DEF AdminNext, GrantRole, RevokeRole, ProposePause, ExecutePause, SetPaused, ProposeSetAdmin,
         CancelPendingAdmin, AdminTick, transferVars
<1> QED
  BY <1>1 DEF ExecuteSetAdmin, LockOpen, AdminIInv, DeadlineIsTrue

(* The inductive invariant holds in every reachable state.                 *)
THEOREM AdminInvariance == ASSUME InsuranceAdminAssumption PROVE AdminSpec => []AdminIInv
<1>1. AdminIInv /\ [AdminNext]_adminVars => AdminIInv'
  BY NextAdmin
<1> QED
  BY InitAdmin, <1>1, PTL DEF AdminSpec

(* Whoever becomes admin had been proposed a full delay before, also when  *)
(* proposals are cancelled and made again while a lock runs.               *)
THEOREM NoticeIsGiven ==
  ASSUME InsuranceAdminAssumption PROVE AdminSpec => AdminHadNotice
<1>1. AdminIInv /\ [AdminNext]_adminVars =>
        [admin' # admin => /\ admin' = pendingAdmin
                           /\ notice.admin \in Nat
                           /\ now >= notice.admin + Delay]_adminVars
  BY StepHadNotice
<1> QED
  BY AdminInvariance, <1>1, PTL DEF AdminSpec, AdminHadNotice

-----------------------------------------------------------------------------
(* Records of the pool and of a provider.                                  *)
PoolRecord ==
  [total_capital : Nat, available : Nat, total_stake : Nat, acc : Nat,
   claims_paid : Nat, cliff : Nat, duration : Nat, penalty : Nat]

ProviderRecord ==
  [exists : BOOLEAN, stake : Nat, debt : Nat, vesting : Nat, claimed : Nat, start : 0 .. MaxTime]

(* The pool's constants, as numbers.                                       *)
LEMMA PoolConstants ==
  ASSUME InsurancePoolAssumption
  PROVE  /\ IsFiniteSet(Providers) /\ BPS \in Nat \ {0} /\ REWARD_PRECISION \in Nat \ {0}
         /\ FeeRate \in Nat /\ FeeRate <= BPS /\ MaxTime \in Nat \ {0}
BY DEF InsurancePoolAssumption

(* What a stake earns up to an index, rounded down.                        *)
LEMMA SyncedDebtRounds ==
  ASSUME InsurancePoolAssumption, NEW s \in Nat, NEW a \in Nat
  PROVE  /\ SyncedDebt(s, a) \in Nat /\ s * a \in Nat
         /\ SyncedDebt(s, a) * REWARD_PRECISION <= s * a
         /\ s * a < SyncedDebt(s, a) * REWARD_PRECISION + REWARD_PRECISION
<1> DEFINE sa == s * a
<1>1. sa \in Nat /\ REWARD_PRECISION \in Nat \ {0}
  BY PoolConstants
<1> HIDE DEF sa
<1>2. /\ sa \div REWARD_PRECISION \in Nat
      /\ (sa \div REWARD_PRECISION) * REWARD_PRECISION <= sa
      /\ sa < (sa \div REWARD_PRECISION) * REWARD_PRECISION + REWARD_PRECISION
  BY <1>1, RoundedDown
<1>3. SyncedDebt(s, a) = sa \div REWARD_PRECISION
  BY DEF SyncedDebt, sa
<1> QED
  BY <1>1, <1>2, <1>3 DEF sa

(* What is pending is a natural number.                                    *)
LEMMA PendingNat ==
  ASSUME InsurancePoolAssumption, NEW v \in ProviderRecord, NEW a \in Nat
  PROVE  PendingOf(v, a) \in Nat
<1>1. v.stake \in Nat /\ v.debt \in Nat
  BY DEF ProviderRecord
<1>2. SyncedDebt(v.stake, a) \in Nat
  BY <1>1, SyncedDebtRounds
<1> QED
  BY <1>1, <1>2 DEF PendingOf, Monus

(* What vested by now is a natural number.                                 *)
LEMMA VestedNat ==
  ASSUME now \in Nat, pool \in PoolRecord, Vesting, NEW v \in ProviderRecord
  PROVE  VestedPart(v) \in Nat
<1> DEFINE elapsed == now - v.start
           secs == Least(elapsed, pool.duration)
<1>1. v.vesting \in Nat /\ v.start \in Nat /\ pool.cliff \in Nat /\ pool.duration \in Nat \ {0}
  BY DEF ProviderRecord, PoolRecord, Vesting
<1>2. CASE v.start > 0 /\ elapsed >= pool.cliff
  <2>1. elapsed \in Nat
    BY <1>1, <1>2
  <2>2. secs \in Nat
    BY <1>1, <2>1 DEF Least
  <2> HIDE DEF secs
  <2> DEFINE all == v.vesting * secs
  <2>3. all \in Nat
    BY <1>1, <2>2
  <2> HIDE DEF all
  <2>4. all \div pool.duration \in Nat
    BY <1>1, <2>3, RoundedDown
  <2> QED
    BY <1>2, <2>4 DEF VestedPart, all, secs
<1>3. CASE ~(v.start > 0 /\ elapsed >= pool.cliff)
  BY <1>3 DEF VestedPart
<1> QED
  BY <1>2, <1>3

(* A penalty takes no more than there is to vest.                          *)
LEMMA PenaltyFits ==
  ASSUME InsurancePoolAssumption, now \in Nat, pool \in PoolRecord, pool.penalty <= BPS,
         Vesting, NEW v \in ProviderRecord
  PROVE  Penalty(v) \in Nat /\ Penalty(v) <= v.vesting
<1> DEFINE left == Monus(v.vesting, VestedPart(v))
           part == left * pool.penalty
           pen == part \div BPS
<1>1. v.vesting \in Nat /\ pool.penalty \in Nat /\ BPS \in Nat \ {0}
  BY PoolConstants DEF ProviderRecord, PoolRecord
<1>2. left \in Nat /\ left <= v.vesting
  BY <1>1, VestedNat DEF Monus
<1> HIDE DEF left
<1>3. part \in Nat
  BY <1>1, <1>2
<1>4. pool.penalty * left <= BPS * left
  BY <1>1, <1>2, TimesGrows
<1>5. part <= left * BPS
  BY <1>1, <1>2, <1>4
<1> HIDE DEF part
<1>6. pen \in Nat /\ pen * BPS <= part
  BY <1>1, <1>3, RoundedDown
<1> HIDE DEF pen
<1>7. pen * BPS <= left * BPS
  <2>1. pen * BPS \in Nat /\ left * BPS \in Nat
    BY <1>1, <1>2, <1>6
  <2> QED
    BY <1>3, <1>5, <1>6, <2>1
<1>8. pen <= left
  BY <1>1, <1>2, <1>6, <1>7, TimesCancels
<1>9. Penalty(v) = pen
  BY DEF Penalty, left, part, pen
<1> QED
  BY <1>1, <1>2, <1>6, <1>8, <1>9

(* The platform fee takes no more than was paid.                           *)
LEMMA FeeFits ==
  ASSUME InsurancePoolAssumption, NEW paid \in Nat
  PROVE  paid - (paid * FeeRate) \div BPS \in Nat
<1> DEFINE part == paid * FeeRate
           fee == part \div BPS
<1>1. FeeRate \in Nat /\ BPS \in Nat \ {0} /\ FeeRate <= BPS
  BY PoolConstants
<1>2. part \in Nat
  BY <1>1
<1>3. FeeRate * paid <= BPS * paid
  BY <1>1, TimesGrows
<1>4. part <= paid * BPS
  BY <1>1, <1>3
<1> HIDE DEF part
<1>5. fee \in Nat /\ fee * BPS <= part
  BY <1>1, <1>2, RoundedDown
<1> HIDE DEF fee
<1>6. fee * BPS <= paid * BPS
  <2>1. fee * BPS \in Nat /\ paid * BPS \in Nat
    BY <1>1, <1>5
  <2> QED
    BY <1>2, <1>4, <1>5, <2>1
<1>7. fee <= paid
  BY <1>1, <1>5, <1>6, TimesCancels
<1> QED
  BY <1>5, <1>7 DEF fee, part

-----------------------------------------------------------------------------
(* The inductive invariant of the pool's books: the liquidity counts on a  *)
(* total stake no withdrawal exceeds and on a penalty that takes no more   *)
(* than there is to vest.                                                  *)
LiquidityInv == LiquidityTypeOK /\ pool.penalty <= BPS /\ StakesTotal /\ AvailableIsHeld

(* What the inductive invariant says of the records.                       *)
LEMMA RecordTypes ==
  ASSUME InsurancePoolAssumption, LiquidityTypeOK
  PROVE  /\ pool \in PoolRecord /\ provider \in [Providers -> ProviderRecord]
         /\ now \in Nat /\ now \in 1 .. MaxTime /\ paidIn \in Nat
         /\ received \in [Providers -> Nat] /\ granted \in [Providers -> Nat]
         /\ accrued \in Nat /\ resized \in Nat /\ forfeited \in Nat
BY DEF LiquidityTypeOK, PoolRecord, ProviderRecord

(* Sums over the providers are natural numbers, none of which exceeds it.  *)
LEMMA ProviderSum ==
  ASSUME InsurancePoolAssumption, NEW f, \A q \in Providers : f[q] \in Nat
  PROVE  Sum(f) \in Nat /\ \A q \in Providers : f[q] <= Sum(f)
BY PoolConstants, SumNat DEF Sum

(* A payment leaves the contract.                                          *)
LEMMA PayEffect ==
  ASSUME InsurancePoolAssumption, LiquidityTypeOK, NEW p \in Providers, NEW n \in Nat, Pay(p, n)
  PROVE  received' \in [Providers -> Nat] /\ Sum(received') = Sum(received) + n
<1>1. received \in [Providers -> Nat] /\ received' = [received EXCEPT ![p] = @ + n]
  BY DEF Pay, LiquidityTypeOK
<1> DEFINE f == received
           g == received'
<1>2. received' \in [Providers -> Nat]
  BY <1>1
<1>3. /\ \A q \in Providers : f[q] \in Int
      /\ g[p] \in Int /\ g[p] = f[p] + n /\ f[p] \in Int
      /\ \A q \in Providers \ {p} : g[q] = f[q]
  BY <1>1
<1>4. IsFiniteSet(Providers)
  BY PoolConstants
<1> HIDE DEF f, g
<1>5. SumFunctionOnSet(g, Providers) = SumFunctionOnSet(f, Providers) + g[p] - f[p]
  BY <1>3, <1>4, SumChange
<1>6. SumFunctionOnSet(f, Providers) \in Int
  BY <1>3, <1>4, SumRemove
<1>7. SumFunctionOnSet(g, Providers) = SumFunctionOnSet(f, Providers) + n
  BY <1>3, <1>5, <1>6
<1> QED
  BY <1>2, <1>7 DEF Sum, f, g

(* One provider's record changes, and the totals by as much as its stake.  *)
LEMMA StakesStep ==
  ASSUME InsurancePoolAssumption, LiquidityInv, NEW p \in Providers, NEW v \in ProviderRecord,
         provider' = [provider EXCEPT ![p] = v], v.exists <=> v.stake > 0,
         pool'.total_stake = pool.total_stake + (v.stake - provider[p].stake),
         pool'.total_capital = pool.total_capital + (v.stake - provider[p].stake)
  PROVE  StakesTotal'
<1>1. provider \in [Providers -> ProviderRecord] /\ pool \in PoolRecord /\ StakesTotal
  BY RecordTypes DEF LiquidityInv
<1> DEFINE f == [q \in Providers |-> provider[q].stake]
           g == [q \in Providers |-> provider[q].stake]'
<1>2. /\ v.stake \in Nat /\ \A q \in Providers : provider[q].stake \in Nat
      /\ pool.total_stake \in Nat
  BY <1>1 DEF ProviderRecord, PoolRecord
<1>3. /\ \A q \in Providers : f[q] \in Int
      /\ g[p] = v.stake /\ g[p] \in Int /\ f[p] = provider[p].stake
      /\ \A q \in Providers \ {p} : g[q] = f[q]
  BY <1>1, <1>2
<1>4. IsFiniteSet(Providers) /\ pool.total_stake = SumFunctionOnSet(f, Providers)
  BY <1>1, PoolConstants DEF StakesTotal, Sum
<1> HIDE DEF f, g
<1>5. SumFunctionOnSet(g, Providers) = SumFunctionOnSet(f, Providers) + g[p] - f[p]
  BY <1>3, <1>4, SumChange
<1>6. pool'.total_stake = SumFunctionOnSet(g, Providers)
  BY <1>2, <1>3, <1>4, <1>5
<1>7. pool'.total_capital = pool'.total_stake
  BY <1>1 DEF StakesTotal
<1>8. \A q \in Providers : provider'[q].exists <=> provider'[q].stake > 0
  BY <1>1 DEF StakesTotal
<1> QED
  BY <1>6, <1>7, <1>8 DEF StakesTotal, Sum, g

(* What keeps every provider's stake and the totals keeps the books.       *)
LEMMA StakesSame ==
  ASSUME StakesTotal, provider' = provider,
         pool'.total_stake = pool.total_stake, pool'.total_capital = pool.total_capital
  PROVE  StakesTotal'
BY DEF StakesTotal, Sum

(* Who has something pending has a stake.                                  *)
LEMMA PendingHasStake ==
  ASSUME InsurancePoolAssumption, LiquidityInv, NEW p \in Providers, Pending(p) > 0
  PROVE  provider[p].stake > 0 /\ provider[p].exists
<1>1. provider[p] \in ProviderRecord /\ pool.acc \in Nat /\ provider[p].stake \in Nat /\ provider[p].debt \in Nat
  BY RecordTypes DEF LiquidityInv, PoolRecord, ProviderRecord
<1>2. CASE provider[p].stake = 0
  <2> DEFINE s == provider[p].stake
             d == SyncedDebt(s, pool.acc)
  <2>1. s \in Nat /\ s * pool.acc = 0
    BY <1>1, <1>2
  <2> HIDE DEF s
  <2>2. d \in Nat /\ d * REWARD_PRECISION <= s * pool.acc
    BY <1>1, <2>1, SyncedDebtRounds
  <2> HIDE DEF d
  <2>3. d = 0
    <3>1. d * REWARD_PRECISION <= 0 * REWARD_PRECISION
      BY <2>1, <2>2, PoolConstants
    <3> QED
      BY <2>2, <3>1, PoolConstants, TimesCancels
  <2>4. Monus(d, provider[p].debt) = 0
    BY <1>1, <2>3 DEF Monus
  <2> QED
    BY <2>4 DEF Pending, PendingOf, d, s
<1> QED
  BY <1>1, <1>2 DEF LiquidityInv, StakesTotal

(* A synced record keeps its stake and what vests of it.                   *)
LEMMA SyncedRecord ==
  ASSUME InsurancePoolAssumption, pool \in PoolRecord, NEW v \in ProviderRecord
  PROVE  /\ Synced(v) \in ProviderRecord
         /\ Synced(v).stake = v.stake /\ Synced(v).exists = v.exists
         /\ Synced(v).vesting = v.vesting /\ Synced(v).debt = SyncedDebt(v.stake, pool.acc)
<1>1. v.stake \in Nat /\ pool.acc \in Nat
  BY DEF PoolRecord, ProviderRecord
<1>2. SyncedDebt(v.stake, pool.acc) \in Nat
  BY <1>1, SyncedDebtRounds
<1> QED
  BY <1>2 DEF Synced, ProviderRecord

(* A record whose pending reward joined the vesting keeps its stake and is*)
(* synced, if there was a reward.                                         *)
LEMMA StartedRecord ==
  ASSUME InsurancePoolAssumption, LiquidityInv, NEW v \in ProviderRecord, NEW reward \in Nat
  PROVE  /\ StartVesting(v, reward) \in ProviderRecord
         /\ StartVesting(v, reward).stake = v.stake
         /\ StartVesting(v, reward).exists = v.exists
         /\ StartVesting(v, reward).debt =
              IF reward = 0 THEN v.debt ELSE SyncedDebt(v.stake, pool.acc)
<1>1. pool \in PoolRecord /\ now \in 0 .. MaxTime
  <2>1. now \in 1 .. MaxTime /\ pool \in PoolRecord
    BY RecordTypes DEF LiquidityInv
  <2> QED
    BY <2>1, PoolConstants
<1> DEFINE w == [v EXCEPT !.vesting = @ + reward, !.start = now]
<1>2. w \in ProviderRecord /\ w.stake = v.stake /\ w.exists = v.exists
  <2>1. v.vesting + reward \in Nat
    BY DEF ProviderRecord
  <2> HIDE DEF w
  <2>2. w = [v EXCEPT !.vesting = v.vesting + reward, !.start = now]
    BY DEF w, ProviderRecord
  <2> DEFINE total == v.vesting + reward
  <2> HIDE DEF total
  <2>3. w = [v EXCEPT !.vesting = total, !.start = now] /\ total \in Nat
    BY <2>1, <2>2 DEF total
  <2> QED
    BY <1>1, <2>3 DEF ProviderRecord
<1> HIDE DEF w
<1>3. /\ Synced(w) \in ProviderRecord /\ Synced(w).stake = v.stake /\ Synced(w).exists = v.exists
      /\ Synced(w).debt = SyncedDebt(v.stake, pool.acc)
  BY <1>1, <1>2, SyncedRecord
<1> QED
  BY <1>3 DEF StartVesting, w

(* Deposits.                                                               *)
LEMMA DepositKeepsBooks ==
  ASSUME InsurancePoolAssumption, LiquidityInv, NEW p \in Providers, NEW x \in Deposits,
         DepositLiquidity(p, x)
  PROVE  LiquidityInv'
<1> DEFINE u == provider[p]
           v == [u EXCEPT !.exists = TRUE, !.stake = @ + x, !.debt = DebtOfDeposit(u, x)]
<1>1. x \in Nat /\ x > 0 /\ BPS \in Nat
  BY PoolConstants DEF InsurancePoolAssumption, DepositLiquidity
<1>2. /\ u \in ProviderRecord /\ provider \in [Providers -> ProviderRecord]
      /\ pool \in PoolRecord /\ paidIn \in Nat /\ received \in [Providers -> Nat]
      /\ resized \in Nat /\ forfeited \in Nat
  BY RecordTypes DEF LiquidityInv
<1>3. DebtOfDeposit(u, x) \in Nat
  <2>1. pool.acc \in Nat /\ u.debt \in Nat
    BY <1>2 DEF PoolRecord, ProviderRecord
  <2>2. SyncedDebt(x, pool.acc) \in Nat
    BY <1>1, <2>1, SyncedDebtRounds
  <2> QED
    BY <2>1, <2>2 DEF DebtOfDeposit
<1> DEFINE st == u.stake + x
           de == DebtOfDeposit(u, x)
<1>4. v \in ProviderRecord /\ v.stake = u.stake + x /\ v.exists /\ v.stake > 0
  <2>1. st \in Nat /\ st > 0 /\ de \in Nat
    BY <1>1, <1>2, <1>3 DEF ProviderRecord
  <2>2. v = [u EXCEPT !.exists = TRUE, !.stake = st, !.debt = de]
    BY <1>2 DEF ProviderRecord
  <2> HIDE DEF st, de, v, u
  <2>3. v \in ProviderRecord /\ v.stake = st /\ v.exists
    BY <1>2, <2>1, <2>2 DEF ProviderRecord
  <2> QED
    BY <2>1, <2>3 DEF st
<1>5. provider' = [provider EXCEPT ![p] = v]
  BY DEF DepositLiquidity
<1> HIDE DEF v
<1> DEFINE ts == pool.total_stake + x
           tc == pool.total_capital + x
           av == pool.available + x
<1>6. /\ pool' \in PoolRecord /\ pool'.total_stake = pool.total_stake + x
      /\ pool'.total_capital = pool.total_capital + x /\ pool'.available = pool.available + x
      /\ pool'.penalty = pool.penalty
  <2>1. ts \in Nat /\ tc \in Nat /\ av \in Nat
    BY <1>1, <1>2 DEF PoolRecord
  <2>2. pool' = [pool EXCEPT !.total_stake = ts, !.total_capital = tc, !.available = av]
    BY <1>2 DEF DepositLiquidity, PoolRecord
  <2> HIDE DEF ts, tc, av
  <2>3. /\ pool' \in PoolRecord /\ pool'.total_stake = ts /\ pool'.total_capital = tc
        /\ pool'.available = av /\ pool'.penalty = pool.penalty
    BY <1>2, <2>1, <2>2 DEF PoolRecord
  <2> QED
    BY <2>3 DEF ts, tc, av
<1>7. provider' \in [Providers -> ProviderRecord]
  BY <1>2, <1>4, <1>5
<1>8. StakesTotal'
  <2>1. u.stake \in Nat
    BY <1>2 DEF ProviderRecord
  <2>2. v.stake - provider[p].stake = x
    BY <1>1, <1>4, <2>1
  <2> QED
    BY <1>4, <1>5, <1>6, <2>2, StakesStep
<1>9. paidIn' = paidIn + x /\ received' = received /\ forfeited' = forfeited
  BY DEF DepositLiquidity, PayIn
<1>10. AvailableIsHeld'
  <2>1. Sum(received) \in Nat
    BY <1>2, ProviderSum
  <2>2. pool.available \in Nat /\ pool.available <= paidIn - Sum(received) + forfeited
    BY <1>2 DEF PoolRecord, LiquidityInv, AvailableIsHeld, Held
  <2>3. pool'.available <= paidIn' - Sum(received) + forfeited'
    BY <1>1, <1>2, <1>6, <1>9, <2>1, <2>2
  <2> QED
    BY <1>9, <2>3 DEF AvailableIsHeld, Held
<1>11. LiquidityTypeOK'
  <2>1. UNCHANGED <<now, paused, received, granted, accrued, forfeited>> /\ resized' = resized + 1
    BY DEF DepositLiquidity
  <2> QED
    BY <1>1, <1>2, <1>6, <1>7, <1>9, <2>1
       DEF LiquidityInv, LiquidityTypeOK, PoolRecord, ProviderRecord
<1> QED
  BY <1>6, <1>8, <1>10, <1>11 DEF LiquidityInv

(* Withdrawals: the stake falls by what is taken out, and the total is no  *)
(* less than it.                                                           *)
LEMMA WithdrawKeepsBooks ==
  ASSUME InsurancePoolAssumption, LiquidityInv, NEW p \in Providers,
         NEW x \in 1 .. pool.total_stake, WithdrawLiquidity(p, x)
  PROVE  LiquidityInv'
<1> DEFINE u == provider[p]
           reward == Pending(p)
           v == IF Vesting THEN StartVesting(u, reward) ELSE u
           penalty == IF Vesting THEN Penalty(v) ELSE 0
           out == IF Vesting THEN x ELSE x + reward
           left == v.stake - x
           rest == v.vesting - penalty
           w == [v EXCEPT !.stake = left, !.vesting = rest]
           next == IF left = 0 THEN NoProvider ELSE Synced(w)
<1>1. /\ u \in ProviderRecord /\ provider \in [Providers -> ProviderRecord]
      /\ pool \in PoolRecord /\ paidIn \in Nat /\ received \in [Providers -> Nat]
      /\ granted \in [Providers -> Nat] /\ resized \in Nat /\ forfeited \in Nat
      /\ now \in Nat /\ pool.penalty <= BPS /\ BPS \in Nat
  BY RecordTypes, PoolConstants DEF LiquidityInv
<1>2. x \in Nat /\ x > 0
  <2>1. pool.total_stake \in Nat
    BY <1>1 DEF PoolRecord
  <2> QED
    BY <2>1
<1>3. reward \in Nat
  <2>1. pool.acc \in Nat
    BY <1>1 DEF PoolRecord
  <2> QED
    BY <1>1, <2>1, PendingNat DEF Pending
<1>4. /\ left >= 0 /\ pool.available >= out - penalty /\ v.exists
      /\ provider' = [provider EXCEPT ![p] =
           IF left = 0 THEN NoProvider
           ELSE Synced([v EXCEPT !.stake = left, !.vesting = v.vesting - penalty])]
      /\ pool' = [pool EXCEPT !.total_stake = pool.total_stake - x,
                              !.total_capital = pool.total_capital - x,
                              !.available = pool.available + penalty - out]
      /\ granted' = [granted EXCEPT ![p] = granted[p] + reward]
      /\ resized' = (IF left = 0 THEN resized ELSE resized + 1)
      /\ forfeited' = forfeited + penalty
      /\ UNCHANGED <<now, paused, money, accrued>>
  BY DEF WithdrawLiquidity, Liquid, Grant
<1>5. v \in ProviderRecord /\ v.stake = u.stake
  <2> HIDE DEF u, reward
  <2>1. CASE Vesting
    BY <1>1, <1>3, <2>1, StartedRecord
  <2>2. CASE ~Vesting
    BY <1>1, <2>2
  <2> QED
    BY <2>1, <2>2
<1> HIDE DEF v
<1>6. penalty \in Nat /\ penalty <= v.vesting
  <2>1. v.vesting \in Nat
    BY <1>5 DEF ProviderRecord
  <2>2. CASE Vesting
    BY <1>1, <1>5, <2>2, PenaltyFits
  <2>3. CASE ~Vesting
    BY <2>1, <2>3
  <2> QED
    BY <2>2, <2>3
<1> HIDE DEF penalty
<1>7. out \in Nat
  BY <1>2, <1>3
<1> HIDE DEF out
<1>8. left \in Nat /\ rest \in Nat /\ left = u.stake - x /\ u.stake \in Nat
  BY <1>1, <1>2, <1>4, <1>5, <1>6 DEF ProviderRecord
<1>9. w \in ProviderRecord /\ w.stake = left /\ w.exists
  <2> HIDE DEF left, rest
  <2> QED
    BY <1>4, <1>5, <1>8 DEF ProviderRecord
<1> HIDE DEF w
<1>10. next \in ProviderRecord /\ next.stake = left /\ (next.exists <=> next.stake > 0)
  <2>1. CASE left = 0
    BY <2>1, PoolConstants DEF NoProvider, ProviderRecord
  <2>2. CASE left # 0
    <3>1. Synced(w) \in ProviderRecord /\ Synced(w).stake = left /\ Synced(w).exists
      BY <1>1, <1>9, SyncedRecord
    <3>2. left > 0
      BY <1>8, <2>2
    <3>3. next = Synced(w)
      BY <2>2
    <3> QED
      BY <3>1, <3>2, <3>3
  <2> QED
    BY <2>1, <2>2
<1>11. provider' = [provider EXCEPT ![p] = next]
  BY <1>4 DEF w
<1> HIDE DEF next
<1>12. provider' \in [Providers -> ProviderRecord]
  BY <1>1, <1>10, <1>11
<1>13. pool.total_stake >= x /\ pool.total_capital >= x
  <2>1. pool.total_stake = pool.total_capital
    BY DEF LiquidityInv, StakesTotal
  <2>2. x <= pool.total_stake
    BY <1>1 DEF PoolRecord
  <2> QED
    BY <1>1, <1>2, <2>1, <2>2 DEF PoolRecord
<1> DEFINE ts == pool.total_stake - x
           tc == pool.total_capital - x
           av == pool.available + penalty - out
<1>14. ts \in Nat /\ tc \in Nat /\ av \in Nat /\ av <= pool.available + penalty
  BY <1>1, <1>2, <1>4, <1>6, <1>7, <1>13 DEF PoolRecord
<1>15. pool' = [pool EXCEPT !.total_stake = ts, !.total_capital = tc, !.available = av]
  BY <1>4
<1> HIDE DEF ts, tc, av
<1>16. /\ pool' \in PoolRecord /\ pool'.total_stake = ts /\ pool'.total_capital = tc
       /\ pool'.available = av /\ pool'.penalty = pool.penalty
  BY <1>1, <1>14, <1>15 DEF PoolRecord
<1>17. StakesTotal'
  <2>1. next.stake - provider[p].stake = 0 - x
    BY <1>2, <1>8, <1>10
  <2>2. /\ pool'.total_stake = pool.total_stake + (next.stake - provider[p].stake)
        /\ pool'.total_capital = pool.total_capital + (next.stake - provider[p].stake)
    BY <1>1, <1>2, <1>16, <2>1 DEF ts, tc, PoolRecord
  <2> QED
    BY <1>10, <1>11, <2>2, StakesStep
<1>18. AvailableIsHeld'
  <2>1. Sum(received) \in Nat
    BY <1>1, ProviderSum
  <2>2. pool.available \in Nat /\ pool.available <= paidIn - Sum(received) + forfeited
    BY <1>1 DEF PoolRecord, LiquidityInv, AvailableIsHeld, Held
  <2>3. pool'.available <= paidIn - Sum(received) + forfeited'
    BY <1>1, <1>4, <1>6, <1>14, <1>16, <2>1, <2>2
  <2>4. paidIn' = paidIn /\ received' = received
    BY <1>4 DEF money
  <2> QED
    BY <2>3, <2>4 DEF AvailableIsHeld, Held
<1>19. granted' \in [Providers -> Nat] /\ resized' \in Nat /\ forfeited' \in Nat
  <2>1. granted[p] + reward \in Nat
    BY <1>1, <1>3
  <2> QED
    BY <1>1, <1>4, <1>6, <2>1
<1>20. LiquidityTypeOK'
  BY <1>4, <1>12, <1>16, <1>19 DEF LiquidityInv, LiquidityTypeOK, PoolRecord, ProviderRecord, money
<1> QED
  BY <1>1, <1>16, <1>17, <1>18, <1>20 DEF LiquidityInv

(* A payment out of the available capital, whatever else of the provider's *)
(* record than its stake changes.                                          *)
LEMMA ChargeKeepsBooks ==
  ASSUME InsurancePoolAssumption, LiquidityInv, NEW p \in Providers,
         NEW v \in ProviderRecord, v.stake = provider[p].stake, v.exists = provider[p].exists,
         provider' = [provider EXCEPT ![p] = v],
         NEW n \in Nat, Liquid(n), pool' = PoolCharged(n), Pay(p, n),
         granted' \in [Providers -> Nat],
         UNCHANGED <<now, paused, paidIn, accrued, resized, forfeited>>
  PROVE  LiquidityInv'
<1>1. /\ provider[p] \in ProviderRecord /\ provider \in [Providers -> ProviderRecord]
      /\ pool \in PoolRecord /\ paidIn \in Nat /\ received \in [Providers -> Nat]
      /\ forfeited \in Nat
  BY RecordTypes DEF LiquidityInv
<1> DEFINE av == pool.available - n
<1>2. av \in Nat /\ pool' = [pool EXCEPT !.available = av]
  BY <1>1 DEF Liquid, PoolCharged, PoolRecord
<1> HIDE DEF av
<1>3. /\ pool' \in PoolRecord /\ pool'.total_stake = pool.total_stake
      /\ pool'.total_capital = pool.total_capital /\ pool'.available = av
      /\ pool'.penalty = pool.penalty
  BY <1>1, <1>2 DEF PoolRecord
<1>4. received' \in [Providers -> Nat] /\ Sum(received') = Sum(received) + n
  BY PayEffect DEF LiquidityInv
<1>5. StakesTotal'
  <2>1. v.stake \in Nat /\ v.stake - provider[p].stake = 0 /\ (v.exists <=> v.stake > 0)
    BY <1>1 DEF ProviderRecord, LiquidityInv, StakesTotal
  <2>2. /\ pool'.total_stake = pool.total_stake + (v.stake - provider[p].stake)
        /\ pool'.total_capital = pool.total_capital + (v.stake - provider[p].stake)
    BY <1>1, <1>3, <2>1 DEF PoolRecord
  <2> QED
    BY <2>1, <2>2, StakesStep
<1>6. AvailableIsHeld'
  <2>1. Sum(received) \in Nat
    BY <1>1, ProviderSum
  <2>2. pool.available \in Nat /\ pool.available <= paidIn - Sum(received) + forfeited
    BY <1>1 DEF PoolRecord, LiquidityInv, AvailableIsHeld, Held
  <2>3. pool'.available <= paidIn - Sum(received') + forfeited
    BY <1>1, <1>3, <1>4, <2>1, <2>2 DEF av
  <2> QED
    BY <2>3 DEF AvailableIsHeld, Held
<1>7. provider' \in [Providers -> ProviderRecord]
  BY <1>1
<1>8. LiquidityTypeOK'
  BY <1>3, <1>4, <1>7 DEF LiquidityInv, LiquidityTypeOK, PoolRecord, ProviderRecord
<1> QED
  BY <1>3, <1>5, <1>6, <1>8 DEF LiquidityInv

(* Claims of rewards, paid at once or put into vesting.                    *)
LEMMA ClaimKeepsBooks ==
  ASSUME InsurancePoolAssumption, LiquidityInv, NEW p \in Providers, ClaimRewards(p)
  PROVE  LiquidityInv'
<1> DEFINE u == provider[p]
           reward == Pending(p)
<1>1. /\ u \in ProviderRecord /\ provider \in [Providers -> ProviderRecord]
      /\ pool \in PoolRecord /\ granted \in [Providers -> Nat]
  BY RecordTypes DEF LiquidityInv
<1>2. reward \in Nat
  <2>1. pool.acc \in Nat
    BY <1>1 DEF PoolRecord
  <2> QED
    BY <1>1, <2>1, PendingNat DEF Pending
<1>3. granted' \in [Providers -> Nat]
  <2>1. granted' = [granted EXCEPT ![p] = granted[p] + reward]
    BY DEF ClaimRewards, Grant
  <2>2. granted[p] + reward \in Nat
    BY <1>1, <1>2
  <2> QED
    BY <1>1, <2>1, <2>2
<1>4. UNCHANGED <<now, paused, paidIn, accrued, resized, forfeited>>
  BY DEF ClaimRewards
<1>5. CASE Vesting
  <2> DEFINE v == StartVesting(u, reward)
  <2>1. provider' = [provider EXCEPT ![p] = v] /\ UNCHANGED <<pool, received>>
    BY <1>5 DEF ClaimRewards
  <2> HIDE DEF u, reward
  <2>2. v \in ProviderRecord /\ v.stake = u.stake /\ v.exists = u.exists
    BY <1>1, <1>2, StartedRecord
  <2> HIDE DEF v
  <2>3. provider' \in [Providers -> ProviderRecord]
    BY <1>1, <2>1, <2>2
  <2>4. StakesTotal'
    <3>1. v.stake - provider[p].stake = 0 /\ (v.exists <=> v.stake > 0)
      BY <1>1, <2>2 DEF u, ProviderRecord, LiquidityInv, StakesTotal
    <3>2. /\ pool'.total_stake = pool.total_stake + (v.stake - provider[p].stake)
          /\ pool'.total_capital = pool.total_capital + (v.stake - provider[p].stake)
      BY <1>1, <2>1, <3>1 DEF PoolRecord
    <3> QED
      BY <2>1, <2>2, <3>1, <3>2, StakesStep
  <2>5. AvailableIsHeld'
    BY <1>4, <2>1 DEF LiquidityInv, AvailableIsHeld, Held
  <2> QED
    BY <1>3, <1>4, <2>1, <2>3, <2>4, <2>5 DEF LiquidityInv, LiquidityTypeOK, ProviderRecord
<1>6. CASE ~Vesting
  <2> DEFINE v == Synced(u)
  <2>1. /\ Liquid(reward) /\ provider' = [provider EXCEPT ![p] = v]
        /\ pool' = PoolCharged(reward) /\ Pay(p, reward)
    BY <1>6 DEF ClaimRewards
  <2> HIDE DEF reward
  <2>2. v \in ProviderRecord /\ v.stake = provider[p].stake /\ v.exists = provider[p].exists
    BY <1>1, SyncedRecord
  <2> HIDE DEF v
  <2> QED
    BY <1>2, <1>3, <1>4, <2>1, <2>2, ChargeKeepsBooks
<1> QED
  BY <1>5, <1>6

(* Reinvestments raise the stake and the totals by the reward.             *)
LEMMA ReinvestKeepsBooks ==
  ASSUME InsurancePoolAssumption, LiquidityInv, NEW p \in Providers, ReinvestRewards(p)
  PROVE  LiquidityInv'
<1> DEFINE u == provider[p]
           reward == Pending(p)
           st == u.stake + reward
           w == [u EXCEPT !.stake = st]
           v == Synced(w)
           ts == pool.total_stake + reward
           tc == pool.total_capital + reward
<1>1. /\ u \in ProviderRecord /\ provider \in [Providers -> ProviderRecord]
      /\ pool \in PoolRecord /\ granted \in [Providers -> Nat] /\ resized \in Nat
  BY RecordTypes DEF LiquidityInv
<1>2. reward \in Nat /\ reward > 0
  <2>1. pool.acc \in Nat
    BY <1>1 DEF PoolRecord
  <2> QED
    BY <1>1, <2>1, PendingNat DEF Pending, ReinvestRewards
<1>3. /\ provider' = [provider EXCEPT ![p] = Synced([u EXCEPT !.stake = u.stake + reward])]
      /\ pool' = [pool EXCEPT !.total_stake = pool.total_stake + reward,
                              !.total_capital = pool.total_capital + reward]
      /\ granted' = [granted EXCEPT ![p] = granted[p] + reward] /\ resized' = resized + 1
      /\ UNCHANGED <<now, paused, money, accrued, forfeited>>
  BY DEF ReinvestRewards, PoolAfterReinvest, Grant
<1>4. st \in Nat /\ st > 0 /\ u.stake \in Nat /\ u.exists
  <2>1. u.stake \in Nat /\ u.exists
    BY <1>1, <1>2, PendingHasStake DEF ProviderRecord
  <2> QED
    BY <1>2, <2>1
<1>5. w \in ProviderRecord /\ w.stake = st /\ w.exists
  <2> HIDE DEF st, u
  <2> QED
    BY <1>1, <1>4 DEF ProviderRecord
<1>6. provider' = [provider EXCEPT ![p] = v]
  BY <1>3
<1> HIDE DEF w
<1>7. v \in ProviderRecord /\ v.stake = st /\ v.exists
  BY <1>1, <1>5, SyncedRecord
<1> HIDE DEF v
<1>8. provider' \in [Providers -> ProviderRecord]
  BY <1>1, <1>6, <1>7
<1>9. ts \in Nat /\ tc \in Nat
  BY <1>1, <1>2 DEF PoolRecord
<1>10. pool' = [pool EXCEPT !.total_stake = ts, !.total_capital = tc]
  BY <1>3
<1> HIDE DEF ts, tc
<1>11. /\ pool' \in PoolRecord /\ pool'.total_stake = ts /\ pool'.total_capital = tc
       /\ pool'.available = pool.available /\ pool'.penalty = pool.penalty
  BY <1>1, <1>9, <1>10 DEF PoolRecord
<1>12. StakesTotal'
  <2>1. v.stake - provider[p].stake = reward
    BY <1>2, <1>4, <1>7
  <2>2. /\ pool'.total_stake = pool.total_stake + (v.stake - provider[p].stake)
        /\ pool'.total_capital = pool.total_capital + (v.stake - provider[p].stake)
    BY <1>11, <2>1 DEF ts, tc
  <2>3. v.exists <=> v.stake > 0
    BY <1>4, <1>7
  <2> QED
    BY <1>6, <1>7, <2>2, <2>3, StakesStep
<1>13. AvailableIsHeld'
  BY <1>3, <1>11 DEF LiquidityInv, AvailableIsHeld, Held, money
<1>14. granted' \in [Providers -> Nat]
  <2>1. granted[p] + reward \in Nat
    BY <1>1, <1>2
  <2> QED
    BY <1>1, <1>3, <2>1
<1>15. LiquidityTypeOK'
  BY <1>1, <1>3, <1>8, <1>11, <1>14
     DEF LiquidityInv, LiquidityTypeOK, PoolRecord, ProviderRecord, money
<1> QED
  BY <1>11, <1>12, <1>13, <1>15 DEF LiquidityInv

(* Claims of what vested.                                                  *)
LEMMA ClaimVestedKeepsBooks ==
  ASSUME InsurancePoolAssumption, LiquidityInv, NEW p \in Providers, ClaimVestedRewards(p)
  PROVE  LiquidityInv'
<1> DEFINE u == provider[p]
           claimable == Claimable(u)
           claimed == u.claimed + claimable
           v == IF ~Vesting \/ claimed >= u.vesting
                THEN [u EXCEPT !.vesting = 0, !.claimed = 0, !.start = 0]
                ELSE [u EXCEPT !.claimed = claimed]
<1>1. /\ u \in ProviderRecord /\ provider \in [Providers -> ProviderRecord]
      /\ pool \in PoolRecord /\ granted \in [Providers -> Nat] /\ now \in Nat
  BY RecordTypes DEF LiquidityInv
<1>2. u.claimed \in Nat /\ u.vesting \in Nat
  BY <1>1 DEF ProviderRecord
<1>3. claimable \in Nat
  <2>1. CASE Vesting
    BY <1>1, <1>2, <2>1, VestedNat DEF Claimable, Monus
  <2>2. CASE ~Vesting
    BY <1>2, <2>2 DEF Claimable
  <2> QED
    BY <2>1, <2>2
<1>4. /\ provider' = [provider EXCEPT ![p] = v] /\ Liquid(claimable)
      /\ pool' = PoolCharged(claimable) /\ Pay(p, claimable)
      /\ UNCHANGED <<now, paused, paidIn, ghosts>>
  BY DEF ClaimVestedRewards
<1>5. claimed \in Nat
  BY <1>2, <1>3
<1> HIDE DEF claimed, claimable
<1>6. v \in ProviderRecord /\ v.stake = u.stake /\ v.exists = u.exists
  <2>1. 0 \in 0 .. MaxTime
    BY PoolConstants
  <2> HIDE DEF u
  <2> QED
    BY <1>1, <1>5, <2>1 DEF ProviderRecord
<1> HIDE DEF v
<1> QED
  BY <1>1, <1>3, <1>4, <1>6, ChargeKeepsBooks DEF ghosts

(* A new vesting schedule takes no penalty above the whole.                *)
LEMMA ConfigureKeepsBooks ==
  ASSUME InsurancePoolAssumption, LiquidityInv, NEW c \in VestingConfigs, ConfigurePoolVesting(c)
  PROVE  LiquidityInv'
<1>1. pool \in PoolRecord /\ BPS \in Nat
  BY RecordTypes, PoolConstants DEF LiquidityInv
<1>2. c.cliff \in Nat /\ c.duration \in Nat /\ c.penalty \in Nat
  BY DEF InsurancePoolAssumption
<1>3. pool' = [pool EXCEPT !.cliff = c.cliff, !.duration = c.duration, !.penalty = c.penalty]
  BY DEF ConfigurePoolVesting
<1>4. c.penalty <= BPS
  BY <1>1 DEF ConfigurePoolVesting
<1>5. /\ pool' \in PoolRecord /\ pool'.total_stake = pool.total_stake
      /\ pool'.total_capital = pool.total_capital /\ pool'.available = pool.available
      /\ pool'.penalty = c.penalty
  BY <1>1, <1>2, <1>3 DEF PoolRecord
<1>6. UNCHANGED <<now, paused, provider, money, ghosts>>
  BY DEF ConfigurePoolVesting
<1>7. StakesTotal'
  BY <1>5, <1>6, StakesSame DEF LiquidityInv
<1>8. AvailableIsHeld'
  BY <1>5, <1>6 DEF LiquidityInv, AvailableIsHeld, Held, money, ghosts
<1>9. LiquidityTypeOK'
  BY <1>5, <1>6 DEF LiquidityInv, LiquidityTypeOK, PoolRecord, money, ghosts
<1> QED
  BY <1>4, <1>5, <1>7, <1>8, <1>9 DEF LiquidityInv

(* A premium: the pool's share of it raises the index.                     *)
LEMMA PremiumKeepsBooks ==
  ASSUME InsurancePoolAssumption, LiquidityInv, NEW paid \in Premiums, CollectPremium(paid)
  PROVE  LiquidityInv'
<1> DEFINE share == paid - (paid * FeeRate) \div BPS
           scaled == share * REWARD_PRECISION
           rise == scaled \div pool.total_stake
           av == pool.available + share
           ac == pool.acc + rise
<1>1. /\ pool \in PoolRecord /\ paidIn \in Nat /\ received \in [Providers -> Nat]
      /\ accrued \in Nat /\ forfeited \in Nat /\ paid \in Nat /\ REWARD_PRECISION \in Nat
  BY RecordTypes, PoolConstants DEF LiquidityInv, InsurancePoolAssumption
<1>2. share \in Nat /\ share <= paid
  <2> DEFINE part == paid * FeeRate
  <2>1. share \in Nat
    BY <1>1, FeeFits
  <2>2. part \in Nat /\ BPS \in Nat \ {0}
    BY <1>1, PoolConstants
  <2>3. share = paid - part \div BPS
    OBVIOUS
  <2> HIDE DEF share, part
  <2>4. part \div BPS \in Nat
    BY <2>2, RoundedDown
  <2> QED
    BY <1>1, <2>1, <2>3, <2>4
<1>3. /\ paidIn' = paidIn + paid
      /\ UNCHANGED <<now, paused, provider, received, granted, resized, forfeited>>
      /\ IF share > 0 /\ pool.total_stake > 0
         THEN /\ pool' = [pool EXCEPT !.available = pool.available + share,
                                      !.acc = pool.acc + rise]
              /\ accrued' = accrued + share
         ELSE pool' = [pool EXCEPT !.available = pool.available + share] /\ UNCHANGED accrued
  BY DEF CollectPremium, PayIn
<1> HIDE DEF share
<1>4. scaled \in Nat
  BY <1>1, <1>2
<1> HIDE DEF scaled
<1>5. av \in Nat
  BY <1>1, <1>2 DEF PoolRecord
<1>6. /\ pool' \in PoolRecord /\ pool'.total_stake = pool.total_stake
      /\ pool'.total_capital = pool.total_capital /\ pool'.available = av
      /\ pool'.penalty = pool.penalty /\ accrued' \in Nat
  <2>1. CASE share > 0 /\ pool.total_stake > 0
    <3>1. pool.total_stake \in Nat \ {0}
      BY <1>1, <2>1 DEF PoolRecord
    <3>2. rise \in Nat
      BY <1>4, <3>1, RoundedDown
    <3> HIDE DEF rise
    <3>3. ac \in Nat
      BY <1>1, <3>2 DEF PoolRecord
    <3>4. pool' = [pool EXCEPT !.available = av, !.acc = ac] /\ accrued' = accrued + share
      BY <1>3, <2>1
    <3> HIDE DEF av, ac
    <3>5. /\ pool' \in PoolRecord /\ pool'.total_stake = pool.total_stake
          /\ pool'.total_capital = pool.total_capital /\ pool'.available = av
          /\ pool'.penalty = pool.penalty
      BY <1>1, <1>5, <3>3, <3>4 DEF PoolRecord
    <3> QED
      BY <1>1, <1>2, <3>4, <3>5
  <2>2. CASE ~(share > 0 /\ pool.total_stake > 0)
    <3>1. pool' = [pool EXCEPT !.available = av] /\ accrued' = accrued
      BY <1>3, <2>2
    <3> HIDE DEF av
    <3>2. /\ pool' \in PoolRecord /\ pool'.total_stake = pool.total_stake
          /\ pool'.total_capital = pool.total_capital /\ pool'.available = av
          /\ pool'.penalty = pool.penalty
      BY <1>1, <1>5, <3>1 DEF PoolRecord
    <3> QED
      BY <1>1, <3>1, <3>2
  <2> QED
    BY <2>1, <2>2
<1>7. StakesTotal'
  BY <1>3, <1>6, StakesSame DEF LiquidityInv
<1>8. AvailableIsHeld'
  <2>1. Sum(received) \in Nat
    BY <1>1, ProviderSum
  <2>2. pool.available \in Nat /\ pool.available <= paidIn - Sum(received) + forfeited
    BY <1>1 DEF PoolRecord, LiquidityInv, AvailableIsHeld, Held
  <2>3. pool'.available <= paidIn' - Sum(received) + forfeited
    BY <1>1, <1>2, <1>3, <1>6, <2>1, <2>2
  <2> QED
    BY <1>3, <2>3 DEF AvailableIsHeld, Held
<1>9. LiquidityTypeOK'
  BY <1>1, <1>3, <1>6 DEF LiquidityInv, LiquidityTypeOK, PoolRecord
<1> QED
  BY <1>6, <1>7, <1>8, <1>9 DEF LiquidityInv

(* A payout takes what is available.                                       *)
LEMMA PayoutKeepsBooks ==
  ASSUME InsurancePoolAssumption, LiquidityInv, NEW x \in Payouts, PayClaim(x)
  PROVE  LiquidityInv'
<1> DEFINE av == pool.available - x
           cp == pool.claims_paid + x
<1>1. /\ pool \in PoolRecord /\ paidIn \in Nat /\ received \in [Providers -> Nat]
      /\ forfeited \in Nat /\ x \in Nat
  BY RecordTypes DEF LiquidityInv, InsurancePoolAssumption
<1>2. av \in Nat /\ cp \in Nat
  BY <1>1 DEF PayClaim, Liquid, PoolRecord
<1>3. pool' = [pool EXCEPT !.available = av, !.claims_paid = cp]
  BY <1>1 DEF PayClaim, PoolCharged, PoolRecord
<1>4. UNCHANGED <<now, paused, provider, money, ghosts>>
  BY DEF PayClaim
<1>5. av <= pool.available
  BY <1>1 DEF PoolRecord
<1> HIDE DEF av, cp
<1>6. /\ pool' \in PoolRecord /\ pool'.total_stake = pool.total_stake
      /\ pool'.total_capital = pool.total_capital /\ pool'.available = av
      /\ pool'.penalty = pool.penalty
  BY <1>1, <1>2, <1>3 DEF PoolRecord
<1>7. StakesTotal'
  BY <1>4, <1>6, StakesSame DEF LiquidityInv
<1>8. AvailableIsHeld'
  <2>1. Sum(received) \in Nat
    BY <1>1, ProviderSum
  <2>2. pool.available \in Nat /\ pool.available <= paidIn - Sum(received) + forfeited
    BY <1>1 DEF PoolRecord, LiquidityInv, AvailableIsHeld, Held
  <2>3. pool'.available <= paidIn - Sum(received) + forfeited
    BY <1>1, <1>2, <1>5, <1>6, <2>1, <2>2
  <2> QED
    BY <1>4, <2>3 DEF AvailableIsHeld, Held, money, ghosts
<1>9. LiquidityTypeOK'
  BY <1>4, <1>6 DEF LiquidityInv, LiquidityTypeOK, PoolRecord, money, ghosts
<1> QED
  BY <1>6, <1>7, <1>8, <1>9 DEF LiquidityInv

(* The pause flag and the clock leave the books alone.                     *)
LEMMA RestKeepsBooks ==
  ASSUME InsurancePoolAssumption, LiquidityInv,
         \/ \E b \in BOOLEAN : Pausing(b)
         \/ LiquidityTick
         \/ UNCHANGED liquidityVars
  PROVE  LiquidityInv'
<1>1. /\ UNCHANGED <<pool, provider, money, ghosts>>
      /\ paused' \in BOOLEAN /\ now' \in 1 .. MaxTime
  <2>1. now \in 1 .. MaxTime /\ paused \in BOOLEAN /\ MaxTime \in Nat
    BY PoolConstants DEF LiquidityInv, LiquidityTypeOK
  <2>2. CASE \E b \in BOOLEAN : Pausing(b)
    BY <2>1, <2>2 DEF Pausing
  <2>3. CASE LiquidityTick
    BY <2>1, <2>3 DEF LiquidityTick, BlockTime
  <2>4. CASE UNCHANGED liquidityVars
    BY <2>1, <2>4 DEF liquidityVars
  <2> QED
    BY <2>2, <2>3, <2>4
<1>2. StakesTotal'
  BY <1>1, StakesSame DEF LiquidityInv
<1>3. AvailableIsHeld'
  BY <1>1 DEF LiquidityInv, AvailableIsHeld, Held, money, ghosts
<1>4. LiquidityTypeOK'
  BY <1>1 DEF LiquidityInv, LiquidityTypeOK, money, ghosts
<1> QED
  BY <1>1, <1>2, <1>3, <1>4 DEF LiquidityInv

(* A new pool holds nothing and owes nothing.                              *)
LEMMA InitLiquidity ==
  ASSUME InsurancePoolAssumption, LiquidityInit PROVE LiquidityInv
<1>1. /\ IsFiniteSet(Providers) /\ BPS \in Nat /\ MaxTime \in Nat \ {0}
  BY PoolConstants
<1> DEFINE z == [p \in Providers |-> 0]
           s == [p \in Providers |-> provider[p].stake]
<1>2. Sum(z) = 0 /\ Sum(s) = 0
  <2>1. (\A p \in Providers : z[p] = 0) /\ (\A p \in Providers : s[p] = 0)
    BY DEF LiquidityInit, NoProvider
  <2> HIDE DEF z, s
  <2> QED
    BY <1>1, <2>1, SumZero DEF Sum
<1>3. StakesTotal
  BY <1>2 DEF StakesTotal, LiquidityInit, NoProvider
<1>4. AvailableIsHeld
  <2>1. Sum(received) = 0
    BY <1>2 DEF LiquidityInit
  <2> QED
    BY <2>1 DEF AvailableIsHeld, Held, LiquidityInit
<1>5. LiquidityTypeOK
  <2>1. provider \in [Providers -> ProviderRecord]
    <3>1. NoProvider \in ProviderRecord
      BY <1>1 DEF NoProvider, ProviderRecord
    <3> QED
      BY <3>1 DEF LiquidityInit
  <2>2. pool \in PoolRecord
    BY DEF LiquidityInit, PoolRecord
  <2>3. /\ now \in 1 .. MaxTime /\ paused \in BOOLEAN /\ paidIn \in Nat
        /\ received \in [Providers -> Nat] /\ granted \in [Providers -> Nat]
        /\ accrued \in Nat /\ resized \in Nat /\ forfeited \in Nat
    <3>1. now = 1 /\ paused = FALSE /\ paidIn = 0 /\ accrued = 0 /\ resized = 0 /\ forfeited = 0
      BY DEF LiquidityInit
    <3>2. received = [q \in Providers |-> 0] /\ granted = [q \in Providers |-> 0]
      BY DEF LiquidityInit
    <3>3. 1 \in 1 .. MaxTime
      BY <1>1
    <3>4. received \in [Providers -> Nat] /\ granted \in [Providers -> Nat]
      BY <3>2
    <3> QED
      BY <3>1, <3>3, <3>4
  <2> QED
    BY <2>1, <2>2, <2>3 DEF LiquidityTypeOK, PoolRecord, ProviderRecord
<1>6. pool.penalty <= BPS
  BY <1>1 DEF LiquidityInit
<1> QED
  BY <1>3, <1>4, <1>5, <1>6 DEF LiquidityInv

(* Every message of the pool, and the clock, keeps the books.              *)
LEMMA NextLiquidity ==
  InsurancePoolAssumption /\ LiquidityInv /\ [LiquidityNext]_liquidityVars => LiquidityInv'
<1> SUFFICES ASSUME InsurancePoolAssumption, LiquidityInv, [LiquidityNext]_liquidityVars
             PROVE  LiquidityInv'
  OBVIOUS
<1>1. ASSUME NEW p \in Providers, NEW x \in Deposits, DepositLiquidity(p, x) PROVE LiquidityInv'
  BY <1>1, DepositKeepsBooks
<1>2. ASSUME NEW p \in Providers, NEW x \in 1 .. pool.total_stake, WithdrawLiquidity(p, x)
      PROVE  LiquidityInv'
  BY <1>2, WithdrawKeepsBooks
<1>3. ASSUME NEW p \in Providers, ClaimRewards(p) PROVE LiquidityInv'
  BY <1>3, ClaimKeepsBooks
<1>4. ASSUME NEW p \in Providers, ReinvestRewards(p) PROVE LiquidityInv'
  BY <1>4, ReinvestKeepsBooks
<1>5. ASSUME NEW p \in Providers, ClaimVestedRewards(p) PROVE LiquidityInv'
  BY <1>5, ClaimVestedKeepsBooks
<1>6. ASSUME NEW c \in VestingConfigs, ConfigurePoolVesting(c) PROVE LiquidityInv'
  BY <1>6, ConfigureKeepsBooks
<1>7. ASSUME NEW x \in Premiums, CollectPremium(x) PROVE LiquidityInv'
  BY <1>7, PremiumKeepsBooks
<1>8. ASSUME NEW x \in Payouts, PayClaim(x) PROVE LiquidityInv'
  BY <1>8, PayoutKeepsBooks
<1>9. CASE \/ \E b \in BOOLEAN : Pausing(b)
           \/ LiquidityTick
           \/ UNCHANGED liquidityVars
  BY <1>9, RestKeepsBooks
<1> QED
  BY <1>1, <1>2, <1>3, <1>4, <1>5, <1>6, <1>7, <1>8, <1>9 DEF LiquidityNext

(* The inductive invariant of the books holds in every reachable state.    *)
THEOREM LiquidityInvariance ==
  ASSUME InsurancePoolAssumption PROVE LiquiditySpec => []LiquidityInv
<1>1. LiquidityInit => LiquidityInv
  BY InitLiquidity
<1>2. LiquidityInv /\ [LiquidityNext]_liquidityVars => LiquidityInv'
  BY NextLiquidity
<1> QED
  BY <1>1, <1>2, PTL DEF LiquiditySpec

(* No amount of a pool and of its providers goes below zero: deposits,     *)
(* penalties, rewards and claims are never more than there is of them.     *)
THEOREM LiquidityTypeCorrect ==
  ASSUME InsurancePoolAssumption PROVE LiquiditySpec => []LiquidityTypeOK
<1>1. LiquidityInv => LiquidityTypeOK
  BY DEF LiquidityInv
<1> QED
  BY LiquidityInvariance, <1>1, PTL

(* The total stake, the denominator of every reward, is the sum of the     *)
(* stakes, and the available capital is in the contract, but for penalties.*)
THEOREM PoolBooksAreTrue ==
  ASSUME InsurancePoolAssumption PROVE LiquiditySpec => []PoolBooksTrue
<1>1. LiquidityInv => PoolBooksTrue
  BY DEF LiquidityInv, PoolBooksTrue
<1> QED
  BY LiquidityInvariance, <1>1, PTL

-----------------------------------------------------------------------------
(* What a record earned and was not granted, to the fraction: the part of  *)
(* its stake times the index that its debt does not cover.                 *)
Uncovered(v, a) == v.stake * a - v.debt * REWARD_PRECISION

(* What a provider earned to the fraction, granted or not.                 *)
Earned(p) == REWARD_PRECISION * granted[p] + Uncovered(provider[p], pool.acc)

(* No debt exceeds what the stake earned, and what all of them earned is   *)
(* in the income, but for one unit for every change of a stake.            *)
DebtsCovered == \A p \in Providers : Uncovered(provider[p], pool.acc) >= 0
EarnedIsIncome ==
  Sum([p \in Providers |-> Earned(p)]) <= REWARD_PRECISION * (accrued + resized)

RewardInv == LiquidityInv /\ DebtsCovered /\ EarnedIsIncome

(* What is uncovered is an integer, and covers the pending reward.         *)
LEMMA UncoveredPays ==
  ASSUME InsurancePoolAssumption, NEW v \in ProviderRecord, NEW a \in Nat, Uncovered(v, a) >= 0
  PROVE  /\ Uncovered(v, a) \in Nat
         /\ PendingOf(v, a) \in Nat
         /\ REWARD_PRECISION * PendingOf(v, a) <= Uncovered(v, a)
         /\ PendingOf(v, a) > 0 =>
              REWARD_PRECISION * PendingOf(v, a) =
                SyncedDebt(v.stake, a) * REWARD_PRECISION - v.debt * REWARD_PRECISION
<1>1. v.stake \in Nat /\ v.debt \in Nat /\ REWARD_PRECISION \in Nat \ {0}
  BY PoolConstants DEF ProviderRecord
<1> DEFINE sa == v.stake * a
           d == SyncedDebt(v.stake, a)
           r == REWARD_PRECISION
<1>2. sa \in Nat /\ d \in Nat /\ d * r <= sa
  BY <1>1, SyncedDebtRounds
<1>3. PendingOf(v, a) = Monus(d, v.debt) /\ Uncovered(v, a) = sa - v.debt * r
  BY DEF PendingOf, Uncovered
<1> HIDE DEF sa, d, r
<1>4. r \in Nat /\ v.debt * r \in Nat /\ d * r \in Nat /\ sa - v.debt * r >= 0
  <2>1. r \in Nat
    BY <1>1 DEF r
  <2> QED
    BY <1>1, <1>2, <1>3, <2>1
<1>5. CASE d <= v.debt
  <2>1. PendingOf(v, a) = 0
    BY <1>3, <1>5 DEF Monus
  <2>2. r * 0 = 0 /\ sa - v.debt * r \in Nat
    BY <1>2, <1>4
  <2> QED
    BY <1>3, <1>4, <2>1, <2>2 DEF r
<1>6. CASE ~(d <= v.debt)
  <2>1. PendingOf(v, a) = d - v.debt
    BY <1>3, <1>6 DEF Monus
  <2>2. d - v.debt \in Nat
    BY <1>1, <1>2, <1>6
  <2>3. r * (d - v.debt) = d * r - v.debt * r
    BY <1>1, <1>2, <1>4
  <2>4. d * r - v.debt * r <= sa - v.debt * r /\ sa - v.debt * r \in Nat
    BY <1>2, <1>4
  <2> QED
    BY <1>3, <2>1, <2>2, <2>3, <2>4 DEF r, d
<1> QED
  BY <1>5, <1>6

(* A synced record leaves less than one unit uncovered.                    *)
LEMMA SyncedUncovered ==
  ASSUME InsurancePoolAssumption, NEW v \in ProviderRecord, NEW a \in Nat,
         v.debt = SyncedDebt(v.stake, a)
  PROVE  Uncovered(v, a) \in Nat /\ Uncovered(v, a) < REWARD_PRECISION
<1>1. v.stake \in Nat /\ REWARD_PRECISION \in Nat
  BY PoolConstants DEF ProviderRecord
<1> DEFINE sa == v.stake * a
           dr == SyncedDebt(v.stake, a) * REWARD_PRECISION
<1>2. sa \in Nat /\ dr \in Nat /\ dr <= sa /\ sa < dr + REWARD_PRECISION
  <2>1. SyncedDebt(v.stake, a) \in Nat
    BY <1>1, SyncedDebtRounds
  <2> QED
    BY <1>1, <2>1, SyncedDebtRounds
<1>3. Uncovered(v, a) = sa - dr
  BY DEF Uncovered
<1> HIDE DEF sa, dr
<1> QED
  BY <1>1, <1>2, <1>3

(* One provider's record and grants change, the index does not.            *)
LEMMA EarnedStep ==
  ASSUME InsurancePoolAssumption, RewardInv, LiquidityInv', NEW p \in Providers, NEW k \in Nat,
         pool'.acc = pool.acc, accrued' = accrued, resized' = resized + k,
         \A q \in Providers \ {p} : provider'[q] = provider[q] /\ granted'[q] = granted[q],
         Uncovered(provider'[p], pool.acc) >= 0,
         REWARD_PRECISION * granted'[p] + Uncovered(provider'[p], pool.acc)
           <= Earned(p) + REWARD_PRECISION * k
  PROVE  RewardInv'
<1> DEFINE r == REWARD_PRECISION
           f == [q \in Providers |-> Earned(q)]
           g == [q \in Providers |-> Earned(q)]'
<1>1. /\ IsFiniteSet(Providers) /\ r \in Nat /\ pool.acc \in Nat
      /\ accrued \in Nat /\ resized \in Nat
      /\ provider \in [Providers -> ProviderRecord] /\ granted \in [Providers -> Nat]
  BY PoolConstants, RecordTypes DEF RewardInv, LiquidityInv, PoolRecord
<1>2. provider' \in [Providers -> ProviderRecord] /\ granted' \in [Providers -> Nat]
  BY DEF LiquidityInv, LiquidityTypeOK, ProviderRecord
<1>3. \A q \in Providers : Earned(q) \in Int
  <2> TAKE q \in Providers
  <2>1. granted[q] \in Nat /\ provider[q].stake \in Nat /\ provider[q].debt \in Nat
    BY <1>1 DEF ProviderRecord
  <2> QED
    BY <1>1, <2>1 DEF Earned, Uncovered
<1>4. Earned(p)' \in Int /\ Earned(p)' <= Earned(p) + r * k
  <2>1. granted'[p] \in Nat /\ provider'[p].stake \in Nat /\ provider'[p].debt \in Nat
    BY <1>2 DEF ProviderRecord
  <2>2. Earned(p)' = r * granted'[p] + Uncovered(provider'[p], pool.acc)
    BY DEF Earned, Uncovered
  <2>3. r * granted'[p] + Uncovered(provider'[p], pool.acc) \in Int
    BY <1>1, <2>1 DEF Uncovered
  <2> QED
    BY <2>2, <2>3
<1>5. \A q \in Providers \ {p} : Earned(q)' = Earned(q)
  BY DEF Earned, Uncovered
<1>6. DebtsCovered'
  <2> SUFFICES ASSUME NEW q \in Providers PROVE Uncovered(provider'[q], pool.acc) >= 0
    BY DEF DebtsCovered, Uncovered
  <2>1. CASE q = p
    BY <2>1
  <2>2. CASE q # p
    BY <2>2 DEF RewardInv, DebtsCovered
  <2> QED
    BY <2>1, <2>2
<1>7. /\ \A q \in Providers : f[q] \in Int
      /\ g[p] \in Int /\ g[p] <= f[p] + r * k /\ f[p] \in Int
      /\ \A q \in Providers \ {p} : g[q] = f[q]
  BY <1>3, <1>4, <1>5
<1>8. SumFunctionOnSet(f, Providers) <= r * (accrued + resized)
  BY DEF RewardInv, EarnedIsIncome, Sum
<1>9. EarnedIsIncome' = (SumFunctionOnSet(g, Providers) <= r * (accrued' + resized'))
  BY DEF EarnedIsIncome, Sum
<1> HIDE DEF f, g, r
<1>10. SumFunctionOnSet(g, Providers) = SumFunctionOnSet(f, Providers) + g[p] - f[p]
  BY <1>1, <1>7, SumChange
<1>11. SumFunctionOnSet(f, Providers) \in Int
  BY <1>1, <1>7, SumRemove
<1>12. r * (accrued' + resized') = r * (accrued + resized) + r * k
  BY <1>1
<1>13. r * (accrued + resized) \in Int /\ r * k \in Int
  BY <1>1
<1>14. SumFunctionOnSet(g, Providers) <= r * (accrued' + resized')
  BY <1>7, <1>8, <1>10, <1>11, <1>12, <1>13
<1> QED
  BY <1>6, <1>9, <1>14 DEF RewardInv

(* Deposits: the debt of what is added is rounded down, for one unit.      *)
LEMMA DepositKeepsRewards ==
  ASSUME InsurancePoolAssumption, RewardInv, LiquidityInv', NEW p \in Providers,
         NEW x \in Deposits, DepositLiquidity(p, x)
  PROVE  RewardInv'
<1> DEFINE u == provider[p]
           v == provider'[p]
           a == pool.acc
           r == REWARD_PRECISION
           s == SyncedDebt(x, a)
           one == 1
<1>1. /\ u \in ProviderRecord /\ provider \in [Providers -> ProviderRecord]
      /\ pool \in PoolRecord /\ x \in Nat /\ granted[p] \in Nat
  BY RecordTypes DEF RewardInv, LiquidityInv, InsurancePoolAssumption
<1>2. /\ u.stake \in Nat /\ u.debt \in Nat /\ a \in Nat /\ r \in Nat
  BY <1>1, PoolConstants DEF PoolRecord, ProviderRecord
<1>3. /\ s \in Nat /\ x * a \in Nat /\ s * r <= x * a /\ x * a < s * r + r
  BY <1>1, <1>2, SyncedDebtRounds
<1>4. /\ v.stake = u.stake + x /\ v.debt = u.debt + s
      /\ \A q \in Providers \ {p} : provider'[q] = provider[q]
  BY <1>1 DEF DepositLiquidity, DebtOfDeposit, ProviderRecord
<1>5. pool'.acc = pool.acc /\ granted' = granted /\ accrued' = accrued /\ resized' = resized + one
  BY <1>1 DEF DepositLiquidity, PoolRecord
<1> HIDE DEF s
<1>6. Uncovered(v, a) = Uncovered(u, a) + x * a - s * r
  <2>1. (u.stake + x) * a = u.stake * a + x * a /\ u.stake * a \in Nat
    BY <1>1, <1>2
  <2>2. (u.debt + s) * r = u.debt * r + s * r /\ u.debt * r \in Nat /\ s * r \in Nat
    BY <1>2, <1>3
  <2> QED
    BY <1>3, <1>4, <2>1, <2>2 DEF Uncovered
<1>7. Uncovered(u, a) \in Nat
  <2>1. Uncovered(u, a) >= 0
    BY DEF RewardInv, DebtsCovered
  <2> QED
    BY <1>1, <1>2, <2>1, UncoveredPays
<1>8. Uncovered(v, a) >= 0 /\ Uncovered(v, a) <= Uncovered(u, a) + r
  <2>1. s * r \in Nat
    BY <1>2, <1>3
  <2> QED
    BY <1>2, <1>3, <1>6, <1>7, <2>1
<1>9. r * granted'[p] + Uncovered(v, a) <= Earned(p) + r * one
  <2>1. r * granted[p] \in Nat /\ r * one = r /\ Uncovered(v, a) \in Int
    BY <1>1, <1>2, <1>3, <1>6, <1>7
  <2>2. Earned(p) = r * granted[p] + Uncovered(u, a)
    BY DEF Earned
  <2> QED
    BY <1>2, <1>5, <1>7, <1>8, <2>1, <2>2
<1>10. one \in Nat
  OBVIOUS
<1> HIDE DEF one
<1> QED
  BY <1>4, <1>5, <1>8, <1>9, <1>10, EarnedStep

(* A claimed reward was uncovered, in full.                                *)
LEMMA GrantedIsUncovered ==
  ASSUME InsurancePoolAssumption, RewardInv, NEW p \in Providers
  PROVE  /\ pool.acc \in Nat /\ provider[p] \in ProviderRecord /\ granted[p] \in Nat
         /\ Pending(p) \in Nat
         /\ Uncovered(provider[p], pool.acc) \in Nat
         /\ REWARD_PRECISION * Pending(p) <= Uncovered(provider[p], pool.acc)
         /\ Pending(p) > 0 =>
              REWARD_PRECISION * Pending(p) =
                SyncedDebt(provider[p].stake, pool.acc) * REWARD_PRECISION
                  - provider[p].debt * REWARD_PRECISION
         /\ Earned(p) \in Nat
<1>1. /\ pool.acc \in Nat /\ provider[p] \in ProviderRecord /\ granted[p] \in Nat
      /\ REWARD_PRECISION \in Nat
  BY RecordTypes, PoolConstants DEF RewardInv, LiquidityInv, PoolRecord
<1>2. Uncovered(provider[p], pool.acc) >= 0
  BY DEF RewardInv, DebtsCovered
<1>3. /\ Uncovered(provider[p], pool.acc) \in Nat
      /\ PendingOf(provider[p], pool.acc) \in Nat
      /\ REWARD_PRECISION * PendingOf(provider[p], pool.acc) <= Uncovered(provider[p], pool.acc)
      /\ PendingOf(provider[p], pool.acc) > 0 =>
           REWARD_PRECISION * PendingOf(provider[p], pool.acc) =
             SyncedDebt(provider[p].stake, pool.acc) * REWARD_PRECISION
               - provider[p].debt * REWARD_PRECISION
  <2> DEFINE v == provider[p]
             a == pool.acc
  <2>1. v \in ProviderRecord /\ a \in Nat /\ Uncovered(v, a) >= 0
    BY <1>1, <1>2
  <2> HIDE DEF v, a
  <2>2. /\ Uncovered(v, a) \in Nat
        /\ PendingOf(v, a) \in Nat
        /\ REWARD_PRECISION * PendingOf(v, a) <= Uncovered(v, a)
        /\ PendingOf(v, a) > 0 =>
             REWARD_PRECISION * PendingOf(v, a) =
               SyncedDebt(v.stake, a) * REWARD_PRECISION - v.debt * REWARD_PRECISION
    BY <2>1, UncoveredPays
  <2> QED
    BY <2>2 DEF v, a
<1>4. Earned(p) \in Nat
  BY <1>1, <1>3 DEF Earned
<1> QED
  BY <1>1, <1>3, <1>4 DEF Pending

(* A reward is granted to who keeps its stake, synced.                     *)
LEMMA SyncKeepsRewards ==
  ASSUME InsurancePoolAssumption, RewardInv, LiquidityInv', NEW p \in Providers, Pending(p) > 0,
         provider'[p].stake = provider[p].stake,
         provider'[p].debt = SyncedDebt(provider[p].stake, pool.acc),
         granted' = [granted EXCEPT ![p] = @ + Pending(p)],
         \A q \in Providers \ {p} : provider'[q] = provider[q],
         pool'.acc = pool.acc, accrued' = accrued, resized' = resized
  PROVE  RewardInv'
<1> DEFINE u == provider[p]
           v == provider'[p]
           a == pool.acc
           r == REWARD_PRECISION
           dr == SyncedDebt(u.stake, a) * r
           zero == 0
<1>1. /\ a \in Nat /\ u \in ProviderRecord /\ granted \in [Providers -> Nat]
      /\ granted[p] \in Nat /\ r \in Nat /\ resized \in Nat /\ v \in ProviderRecord
      /\ Pending(p) \in Nat /\ Uncovered(u, a) \in Nat
      /\ r * Pending(p) = dr - u.debt * r
      /\ Earned(p) = r * granted[p] + Uncovered(u, a)
  <2>1. v \in ProviderRecord
    BY DEF LiquidityInv, LiquidityTypeOK, ProviderRecord
  <2> QED
    BY <2>1, GrantedIsUncovered, PoolConstants, RecordTypes DEF RewardInv, LiquidityInv, Earned
<1>2. u.stake \in Nat /\ u.debt \in Nat /\ u.debt * r \in Nat /\ u.stake * a \in Nat
  BY <1>1 DEF ProviderRecord
<1>3. dr \in Nat
  <2>1. SyncedDebt(u.stake, a) \in Nat
    BY <1>1, <1>2, SyncedDebtRounds
  <2> QED
    BY <1>1, <2>1
<1>4. Uncovered(u, a) = u.stake * a - u.debt * r /\ Uncovered(v, a) = u.stake * a - dr
  BY DEF Uncovered
<1>5. Uncovered(v, a) >= 0
  <2>1. Uncovered(v, a) \in Nat
    BY <1>1, SyncedUncovered
  <2> QED
    BY <2>1
<1>6. r * granted'[p] = r * granted[p] + r * Pending(p)
  <2>1. granted'[p] = granted[p] + Pending(p)
    BY <1>1
  <2> QED
    BY <1>1, <2>1
<1> HIDE DEF dr
<1>7. r * granted'[p] + Uncovered(v, a) <= Earned(p) + r * zero
  <2>1. r * zero = 0 /\ r * granted[p] \in Nat /\ r * Pending(p) \in Nat
    BY <1>1
  <2> QED
    BY <1>1, <1>2, <1>3, <1>4, <1>6, <2>1
<1>8. \A q \in Providers \ {p} : provider'[q] = provider[q] /\ granted'[q] = granted[q]
  BY <1>1
<1>9. zero \in Nat /\ resized' = resized + zero
  BY <1>1
<1> HIDE DEF zero
<1> QED
  BY <1>5, <1>7, <1>8, <1>9, EarnedStep

(* Claims.                                                                 *)
LEMMA ClaimKeepsRewards ==
  ASSUME InsurancePoolAssumption, RewardInv, LiquidityInv', NEW p \in Providers, ClaimRewards(p)
  PROVE  RewardInv'
<1> DEFINE u == provider[p]
           reward == Pending(p)
<1>1. /\ u \in ProviderRecord /\ provider \in [Providers -> ProviderRecord]
      /\ pool \in PoolRecord /\ reward \in Nat /\ pool.acc \in Nat /\ reward > 0
      /\ LiquidityInv
  BY GrantedIsUncovered, RecordTypes DEF RewardInv, LiquidityInv, ClaimRewards
<1>2. /\ accrued' = accrued /\ resized' = resized /\ reward > 0
      /\ granted' = [granted EXCEPT ![p] = @ + reward]
  BY DEF ClaimRewards, Grant
<1>3. /\ provider'[p].stake = u.stake
      /\ provider'[p].debt = SyncedDebt(u.stake, pool.acc)
      /\ \A q \in Providers \ {p} : provider'[q] = provider[q]
      /\ pool'.acc = pool.acc
  <2>1. CASE Vesting
    <3> DEFINE v == StartVesting(u, reward)
    <3>1. provider' = [provider EXCEPT ![p] = v] /\ pool' = pool
      BY <2>1 DEF ClaimRewards
    <3> HIDE DEF u, reward
    <3>2. v.stake = u.stake /\ v.debt = IF reward = 0 THEN u.debt ELSE SyncedDebt(u.stake, pool.acc)
      BY <1>1, StartedRecord
    <3>3. v.debt = SyncedDebt(u.stake, pool.acc)
      BY <1>1, <3>2
    <3> HIDE DEF v
    <3> QED
      BY <1>1, <3>1, <3>2, <3>3
  <2>2. CASE ~Vesting
    <3> DEFINE v == Synced(u)
    <3>1. provider' = [provider EXCEPT ![p] = v] /\ pool' = PoolCharged(reward)
      BY <2>2 DEF ClaimRewards
    <3> HIDE DEF u, reward
    <3>2. v.stake = u.stake /\ v.debt = SyncedDebt(u.stake, pool.acc)
      BY <1>1, SyncedRecord
    <3> HIDE DEF v
    <3>3. pool'.acc = pool.acc
      BY <1>1, <3>1 DEF PoolCharged, PoolRecord
    <3> QED
      BY <1>1, <3>1, <3>2, <3>3
  <2> QED
    BY <2>1, <2>2
<1> QED
  BY <1>2, <1>3, SyncKeepsRewards

(* A reward is granted to who changes its stake and is synced with it, or  *)
(* leaves the pool.                                                        *)
LEMMA ResyncKeepsRewards ==
  ASSUME InsurancePoolAssumption, RewardInv, LiquidityInv', NEW p \in Providers,
         granted' = [granted EXCEPT ![p] = @ + Pending(p)],
         \A q \in Providers \ {p} : provider'[q] = provider[q],
         pool'.acc = pool.acc, accrued' = accrued,
         \/ provider'[p] = NoProvider /\ resized' = resized
         \/ /\ provider'[p].debt = SyncedDebt(provider'[p].stake, pool.acc)
            /\ resized' = resized + 1
  PROVE  RewardInv'
<1> DEFINE v == provider'[p]
           a == pool.acc
           r == REWARD_PRECISION
<1>1. /\ a \in Nat /\ granted \in [Providers -> Nat] /\ granted[p] \in Nat /\ r \in Nat
      /\ resized \in Nat /\ v \in ProviderRecord /\ Pending(p) \in Nat
      /\ r * Pending(p) <= Uncovered(provider[p], a) /\ Uncovered(provider[p], a) \in Nat
      /\ Earned(p) = r * granted[p] + Uncovered(provider[p], a)
  <2>1. v \in ProviderRecord
    BY DEF LiquidityInv, LiquidityTypeOK, ProviderRecord
  <2> QED
    BY <2>1, GrantedIsUncovered, PoolConstants, RecordTypes DEF RewardInv, LiquidityInv, Earned
<1>2. r * granted'[p] = r * granted[p] + r * Pending(p)
  <2>1. granted'[p] = granted[p] + Pending(p)
    BY <1>1
  <2> QED
    BY <1>1, <2>1
<1>3. r * granted[p] \in Nat /\ r * Pending(p) \in Nat
  BY <1>1
<1>4. r * granted'[p] <= Earned(p)
  BY <1>1, <1>2, <1>3
<1>5. \A q \in Providers \ {p} : provider'[q] = provider[q] /\ granted'[q] = granted[q]
  BY <1>1
<1>6. r * granted'[p] \in Nat /\ Earned(p) \in Nat
  BY <1>1, <1>2, <1>3
<1>7. CASE v = NoProvider /\ resized' = resized
  <2> DEFINE zero == 0
  <2>1. Uncovered(v, a) = 0
    BY <1>1, <1>7 DEF Uncovered, NoProvider
  <2>2. r * granted'[p] + Uncovered(v, a) <= Earned(p) + r * zero
    BY <1>1, <1>4, <1>6, <2>1
  <2>3. zero \in Nat /\ resized' = resized + zero /\ Uncovered(v, a) >= 0
    BY <1>1, <1>7, <2>1
  <2> HIDE DEF zero
  <2> QED
    BY <1>5, <2>2, <2>3, EarnedStep
<1>8. CASE v.debt = SyncedDebt(v.stake, a) /\ resized' = resized + 1
  <2> DEFINE one == 1
  <2>1. Uncovered(v, a) \in Nat /\ Uncovered(v, a) < r
    <3> HIDE DEF v
    <3> QED
      BY <1>1, <1>8, SyncedUncovered
  <2>2. r * granted'[p] + Uncovered(v, a) <= Earned(p) + r * one
    BY <1>1, <1>4, <1>6, <2>1
  <2>3. one \in Nat /\ resized' = resized + one /\ Uncovered(v, a) >= 0
    BY <1>8, <2>1
  <2> HIDE DEF one
  <2> QED
    BY <1>5, <2>2, <2>3, EarnedStep
<1> QED
  BY <1>7, <1>8

(* A record that was synced has the debt of its stake.                     *)
LEMMA SyncedDebtOfStake ==
  ASSUME NEW w, Synced(w) \in ProviderRecord
  PROVE  Synced(w).debt = SyncedDebt(Synced(w).stake, pool.acc)
<1> DEFINE d == SyncedDebt(w.stake, pool.acc)
<1>1. Synced(w) = [w EXCEPT !.debt = d]
  BY DEF Synced
<1> HIDE DEF d
<1>2. Synced(w).stake = w.stake /\ Synced(w).debt = d
  BY <1>1 DEF ProviderRecord
<1> QED
  BY <1>2 DEF d

(* Withdrawals.                                                            *)
LEMMA WithdrawKeepsRewards ==
  ASSUME InsurancePoolAssumption, RewardInv, LiquidityInv', NEW p \in Providers,
         NEW x \in 1 .. pool.total_stake, WithdrawLiquidity(p, x)
  PROVE  RewardInv'
<1> DEFINE u == provider[p]
           reward == Pending(p)
           v == IF Vesting THEN StartVesting(u, reward) ELSE u
           penalty == IF Vesting THEN Penalty(v) ELSE 0
           out == IF Vesting THEN x ELSE x + reward
           left == v.stake - x
           w == [v EXCEPT !.stake = left, !.vesting = v.vesting - penalty]
<1>1. /\ provider' = [provider EXCEPT ![p] = IF left = 0 THEN NoProvider ELSE Synced(w)]
      /\ pool' = [pool EXCEPT !.total_stake = pool.total_stake - x,
                              !.total_capital = pool.total_capital - x,
                              !.available = pool.available + penalty - out]
      /\ granted' = [granted EXCEPT ![p] = granted[p] + reward]
      /\ resized' = (IF left = 0 THEN resized ELSE resized + 1)
      /\ accrued' = accrued
  BY DEF WithdrawLiquidity, Grant
<1>2. provider \in [Providers -> ProviderRecord] /\ pool \in PoolRecord
  BY RecordTypes DEF RewardInv, LiquidityInv
<1> HIDE DEF w, left, penalty, out, v
<1>3. pool'.acc = pool.acc
  BY <1>1, <1>2 DEF PoolRecord
<1>4. \A q \in Providers \ {p} : provider'[q] = provider[q]
  BY <1>1, <1>2
<1>5. provider'[p] \in ProviderRecord
  BY DEF LiquidityInv, LiquidityTypeOK, ProviderRecord
<1>6. \/ provider'[p] = NoProvider /\ resized' = resized
      \/ /\ provider'[p].debt = SyncedDebt(provider'[p].stake, pool.acc)
         /\ resized' = resized + 1
  <2>1. CASE left = 0
    BY <1>1, <1>2, <2>1
  <2>2. CASE left # 0
    <3>1. provider'[p] = Synced(w) /\ resized' = resized + 1
      BY <1>1, <1>2, <2>2
    <3>2. Synced(w).debt = SyncedDebt(Synced(w).stake, pool.acc)
      BY <1>5, <3>1, SyncedDebtOfStake
    <3> QED
      BY <3>1, <3>2
  <2> QED
    BY <2>1, <2>2
<1> QED
  BY <1>1, <1>3, <1>4, <1>6, ResyncKeepsRewards

(* Reinvestments.                                                          *)
LEMMA ReinvestKeepsRewards ==
  ASSUME InsurancePoolAssumption, RewardInv, LiquidityInv', NEW p \in Providers, ReinvestRewards(p)
  PROVE  RewardInv'
<1> DEFINE u == provider[p]
           w == [u EXCEPT !.stake = u.stake + Pending(p)]
<1>1. /\ provider' = [provider EXCEPT ![p] = Synced(w)]
      /\ pool' = [pool EXCEPT !.total_stake = pool.total_stake + Pending(p),
                              !.total_capital = pool.total_capital + Pending(p)]
      /\ granted' = [granted EXCEPT ![p] = granted[p] + Pending(p)]
      /\ resized' = resized + 1 /\ accrued' = accrued
  BY DEF ReinvestRewards, PoolAfterReinvest, Grant
<1>2. provider \in [Providers -> ProviderRecord] /\ pool \in PoolRecord
  BY RecordTypes DEF RewardInv, LiquidityInv
<1> HIDE DEF w
<1>3. pool'.acc = pool.acc
  BY <1>1, <1>2 DEF PoolRecord
<1>4. /\ \A q \in Providers \ {p} : provider'[q] = provider[q]
      /\ provider'[p] = Synced(w)
  BY <1>1, <1>2
<1>5. provider'[p] \in ProviderRecord
  BY DEF LiquidityInv, LiquidityTypeOK, ProviderRecord
<1>6. provider'[p].debt = SyncedDebt(provider'[p].stake, pool.acc)
  BY <1>4, <1>5, SyncedDebtOfStake
<1> QED
  BY <1>1, <1>3, <1>4, <1>6, ResyncKeepsRewards

(* What changes neither stakes nor debts nor the index nor what was        *)
(* granted keeps the rewards.                                              *)
LEMMA SameRewards ==
  ASSUME InsurancePoolAssumption, RewardInv, LiquidityInv', pool'.acc = pool.acc,
         \A q \in Providers : /\ provider'[q].stake = provider[q].stake
                              /\ provider'[q].debt = provider[q].debt,
         UNCHANGED <<granted, accrued, resized>>
  PROVE  RewardInv'
<1> DEFINE f == [q \in Providers |-> Earned(q)]
           g == [q \in Providers |-> Earned(q)]'
<1>1. \A q \in Providers : Uncovered(provider'[q], pool'.acc) = Uncovered(provider[q], pool.acc)
  BY DEF Uncovered
<1>2. \A q \in Providers : Earned(q)' = Earned(q)
  <2> TAKE q \in Providers
  <2>1. Earned(q)' = REWARD_PRECISION * granted'[q] + Uncovered(provider'[q], pool'.acc)
    BY DEF Earned, Uncovered
  <2> QED
    BY <1>1, <2>1 DEF Earned
<1>3. f = g
  BY <1>2
<1>4. EarnedIsIncome'
  BY <1>3 DEF RewardInv, EarnedIsIncome, Sum
<1>5. DebtsCovered'
  BY <1>1 DEF RewardInv, DebtsCovered, Uncovered
<1> QED
  BY <1>4, <1>5 DEF RewardInv

(* A premium raises the index by no more than the stakes share.            *)
LEMMA PremiumKeepsRewards ==
  ASSUME InsurancePoolAssumption, RewardInv, LiquidityInv', NEW paid \in Premiums,
         CollectPremium(paid)
  PROVE  RewardInv'
<1> DEFINE share == paid - (paid * FeeRate) \div BPS
           r == REWARD_PRECISION
           t == pool.total_stake
           scaled == share * r
           rise == scaled \div t
<1>1. /\ IsFiniteSet(Providers) /\ r \in Nat /\ pool \in PoolRecord /\ t \in Nat
      /\ pool.acc \in Nat /\ accrued \in Nat /\ resized \in Nat /\ paid \in Nat
      /\ provider \in [Providers -> ProviderRecord] /\ granted \in [Providers -> Nat]
  BY PoolConstants, RecordTypes DEF RewardInv, LiquidityInv, InsurancePoolAssumption, PoolRecord
<1>2. share \in Nat
  BY <1>1, FeeFits
<1>3. /\ provider' = provider /\ granted' = granted /\ resized' = resized
      /\ IF share > 0 /\ t > 0
         THEN /\ pool' = [pool EXCEPT !.available = pool.available + share,
                                      !.acc = pool.acc + rise]
              /\ accrued' = accrued + share
         ELSE pool' = [pool EXCEPT !.available = pool.available + share] /\ UNCHANGED accrued
  BY DEF CollectPremium
<1> HIDE DEF share
<1>4. CASE ~(share > 0 /\ t > 0)
  <2>1. pool'.acc = pool.acc /\ accrued' = accrued
    BY <1>1, <1>3, <1>4 DEF PoolRecord
  <2> QED
    BY <1>3, <2>1, SameRewards
<1>5. CASE share > 0 /\ t > 0
  <2>1. scaled \in Nat /\ t \in Nat \ {0}
    BY <1>1, <1>2, <1>5
  <2> HIDE DEF scaled
  <2>2. rise \in Nat /\ rise * t <= scaled
    BY <2>1, RoundedDown
  <2>3. pool'.acc = pool.acc + rise /\ accrued' = accrued + share
    <3>1. pool' = [pool EXCEPT !.available = pool.available + share, !.acc = pool.acc + rise]
      BY <1>3, <1>5
    <3> HIDE DEF rise
    <3> QED
      BY <1>1, <1>3, <1>5, <3>1 DEF PoolRecord
  <2> HIDE DEF rise
  <2> DEFINE f == [q \in Providers |-> Earned(q)]
             h == [q \in Providers |-> provider[q].stake]
             g == [q \in Providers |-> Earned(q)]'
  <2>4. \A q \in Providers : /\ Earned(q) \in Int /\ provider[q].stake \in Nat
                             /\ Uncovered(provider[q], pool.acc) >= 0
                             /\ Uncovered(provider[q], pool.acc) \in Int
                             /\ Uncovered(provider'[q], pool'.acc) =
                                  Uncovered(provider[q], pool.acc) + rise * provider[q].stake
                             /\ Earned(q)' = Earned(q) + rise * provider[q].stake
    <3> TAKE q \in Providers
    <3> DEFINE s == provider[q].stake
               u == Uncovered(provider[q], pool.acc)
    <3>1. /\ Earned(q) \in Int /\ s \in Nat /\ u >= 0 /\ u \in Int
          /\ granted[q] \in Nat /\ provider[q].debt \in Nat
      <4>1. Earned(q) \in Nat /\ u \in Nat /\ granted[q] \in Nat
        BY GrantedIsUncovered
      <4> QED
        BY <1>1, <4>1 DEF ProviderRecord
    <3>2. s * (pool.acc + rise) = s * pool.acc + rise * s /\ s * pool.acc \in Nat /\ rise * s \in Nat
      BY <1>1, <2>2, <3>1
    <3>3. Uncovered(provider'[q], pool'.acc) = u + rise * s
      <4>1. Uncovered(provider'[q], pool'.acc) = s * (pool.acc + rise) - provider[q].debt * r
        BY <1>3, <2>3 DEF Uncovered
      <4>2. provider[q].debt * r \in Nat
        BY <1>1, <3>1
      <4> QED
        BY <3>2, <4>1, <4>2 DEF Uncovered
    <3>4. Earned(q)' = r * granted[q] + Uncovered(provider'[q], pool'.acc)
      BY <1>3 DEF Earned, Uncovered
    <3>5. r * granted[q] \in Nat
      BY <1>1, <3>1
    <3>6. Earned(q)' = Earned(q) + rise * s
      BY <3>1, <3>2, <3>3, <3>4, <3>5 DEF Earned
    <3> QED
      BY <3>1, <3>3, <3>6
  <2>5. DebtsCovered'
    <3> SUFFICES ASSUME NEW q \in Providers PROVE Uncovered(provider'[q], pool'.acc) >= 0
      BY DEF DebtsCovered, Uncovered
    <3> DEFINE u == Uncovered(provider[q], pool.acc)
               more == rise * provider[q].stake
    <3>1. u \in Int /\ u >= 0 /\ Uncovered(provider'[q], pool'.acc) = u + more
      BY <2>4
    <3>2. more \in Nat
      BY <2>2, <2>4
    <3> HIDE DEF u, more
    <3> QED
      BY <3>1, <3>2
  <2>6. /\ \A q \in Providers : f[q] \in Int
        /\ \A q \in Providers : h[q] \in Int
        /\ \A q \in Providers : g[q] = f[q] + rise * h[q]
        /\ rise \in Int
    BY <2>2, <2>4
  <2>7. t = SumFunctionOnSet(h, Providers)
    BY DEF RewardInv, LiquidityInv, StakesTotal, Sum
  <2>8. SumFunctionOnSet(f, Providers) <= r * (accrued + resized)
    BY DEF RewardInv, EarnedIsIncome, Sum
  <2>9. EarnedIsIncome' = (SumFunctionOnSet(g, Providers) <= r * (accrued' + resized'))
    BY DEF EarnedIsIncome, Sum
  <2> HIDE DEF f, g, h, r, t
  <2>10. SumFunctionOnSet(g, Providers)
           = SumFunctionOnSet(f, Providers) + rise * SumFunctionOnSet(h, Providers)
    BY <1>1, <2>6, SumLinear
  <2>11. SumFunctionOnSet(f, Providers) \in Int
    BY <1>1, <2>6, SumRemove
  <2>12. rise * t <= r * share /\ rise * t \in Int
    <3>1. scaled = r * share
      BY <1>1, <1>2 DEF scaled
    <3> QED
      BY <1>1, <2>2, <3>1
  <2>13. r * (accrued' + resized') = r * (accrued + resized) + r * share
    BY <1>1, <1>2, <1>3, <2>3
  <2>14. r * (accrued + resized) \in Int /\ r * share \in Int
    BY <1>1, <1>2
  <2>15. SumFunctionOnSet(g, Providers) <= r * (accrued' + resized')
    BY <2>7, <2>8, <2>10, <2>11, <2>12, <2>13, <2>14
  <2> QED
    BY <2>5, <2>9, <2>15 DEF RewardInv
<1> QED
  BY <1>4, <1>5

(* Claims of what vested, a new schedule, a payout, the pause flag and the *)
(* clock grant nothing and change no stake.                                *)
LEMMA RestKeepsRewards ==
  ASSUME InsurancePoolAssumption, RewardInv, LiquidityInv',
         \/ \E p \in Providers : ClaimVestedRewards(p)
         \/ \E c \in VestingConfigs : ConfigurePoolVesting(c)
         \/ \E x \in Payouts : PayClaim(x)
         \/ \E b \in BOOLEAN : Pausing(b)
         \/ LiquidityTick
         \/ UNCHANGED liquidityVars
  PROVE  RewardInv'
<1>1. pool \in PoolRecord /\ provider \in [Providers -> ProviderRecord]
  BY RecordTypes DEF RewardInv, LiquidityInv
<1>2. CASE \E p \in Providers : ClaimVestedRewards(p)
  <2>1. PICK p \in Providers : ClaimVestedRewards(p)
    BY <1>2
  <2> DEFINE u == provider[p]
             claimable == Claimable(u)
             claimed == u.claimed + claimable
             v == IF ~Vesting \/ claimed >= u.vesting
                  THEN [u EXCEPT !.vesting = 0, !.claimed = 0, !.start = 0]
                  ELSE [u EXCEPT !.claimed = claimed]
  <2>2. provider' = [provider EXCEPT ![p] = v] /\ pool' = PoolCharged(claimable) /\ UNCHANGED ghosts
    BY <2>1 DEF ClaimVestedRewards
  <2> HIDE DEF claimable, claimed
  <2>3. v.stake = u.stake /\ v.debt = u.debt
    <3>1. u \in ProviderRecord
      BY <1>1
    <3> HIDE DEF u
    <3> QED
      BY <3>1 DEF ProviderRecord
  <2> HIDE DEF v
  <2>4. pool'.acc = pool.acc
    BY <1>1, <2>2 DEF PoolCharged, PoolRecord
  <2>5. \A q \in Providers : /\ provider'[q].stake = provider[q].stake
                             /\ provider'[q].debt = provider[q].debt
    BY <1>1, <2>2, <2>3
  <2> QED
    BY <2>2, <2>4, <2>5, SameRewards DEF ghosts
<1>3. CASE \E c \in VestingConfigs : ConfigurePoolVesting(c)
  <2>1. pool'.acc = pool.acc /\ provider' = provider /\ UNCHANGED ghosts
    BY <1>1, <1>3 DEF ConfigurePoolVesting, PoolRecord
  <2> QED
    BY <2>1, SameRewards DEF ghosts
<1>4. CASE \E x \in Payouts : PayClaim(x)
  <2>1. pool'.acc = pool.acc /\ provider' = provider /\ UNCHANGED ghosts
    BY <1>1, <1>4 DEF PayClaim, PoolCharged, PoolRecord
  <2> QED
    BY <2>1, SameRewards DEF ghosts
<1>5. CASE \/ \E b \in BOOLEAN : Pausing(b)
           \/ LiquidityTick
           \/ UNCHANGED liquidityVars
  <2>1. pool' = pool /\ provider' = provider /\ UNCHANGED ghosts
    BY <1>5 DEF Pausing, LiquidityTick, liquidityVars
  <2> QED
    BY <2>1, SameRewards DEF ghosts
<1> QED
  BY <1>2, <1>3, <1>4, <1>5

(* Nothing is earned before there is a premium.                            *)
LEMMA InitRewards ==
  ASSUME InsurancePoolAssumption, LiquidityInit PROVE RewardInv
<1>1. \A p \in Providers : Uncovered(provider[p], pool.acc) = 0 /\ Earned(p) = 0
  <2> TAKE p \in Providers
  <2>1. provider[p].stake = 0 /\ provider[p].debt = 0 /\ pool.acc = 0 /\ granted[p] = 0
    BY DEF LiquidityInit, NoProvider
  <2>2. Uncovered(provider[p], pool.acc) = 0
    BY <2>1, PoolConstants DEF Uncovered
  <2> QED
    BY <2>1, <2>2, PoolConstants DEF Earned
<1> DEFINE f == [p \in Providers |-> Earned(p)]
<1>2. \A p \in Providers : f[p] = 0
  BY <1>1
<1>3. EarnedIsIncome <=> SumFunctionOnSet(f, Providers) <= REWARD_PRECISION * (accrued + resized)
  BY DEF EarnedIsIncome, Sum
<1> HIDE DEF f
<1>4. SumFunctionOnSet(f, Providers) = 0
  BY <1>2, PoolConstants, SumZero
<1>5. REWARD_PRECISION * (accrued + resized) = 0
  BY PoolConstants DEF LiquidityInit
<1> QED
  BY <1>1, <1>3, <1>4, <1>5, InitLiquidity DEF RewardInv, DebtsCovered

(* Every message of the pool, and the clock, keeps the rewards.            *)
LEMMA NextRewards ==
  InsurancePoolAssumption /\ RewardInv /\ [LiquidityNext]_liquidityVars => RewardInv'
<1> SUFFICES ASSUME InsurancePoolAssumption, RewardInv, [LiquidityNext]_liquidityVars
             PROVE  RewardInv'
  OBVIOUS
<1>0. LiquidityInv'
  BY NextLiquidity DEF RewardInv
<1>1. ASSUME NEW p \in Providers, NEW x \in Deposits, DepositLiquidity(p, x) PROVE RewardInv'
  BY <1>0, <1>1, DepositKeepsRewards
<1>2. ASSUME NEW p \in Providers, NEW x \in 1 .. pool.total_stake, WithdrawLiquidity(p, x)
      PROVE  RewardInv'
  BY <1>0, <1>2, WithdrawKeepsRewards
<1>3. ASSUME NEW p \in Providers, ClaimRewards(p) PROVE RewardInv'
  BY <1>0, <1>3, ClaimKeepsRewards
<1>4. ASSUME NEW p \in Providers, ReinvestRewards(p) PROVE RewardInv'
  BY <1>0, <1>4, ReinvestKeepsRewards
<1>5. ASSUME NEW x \in Premiums, CollectPremium(x) PROVE RewardInv'
  BY <1>0, <1>5, PremiumKeepsRewards
<1>6. CASE \/ \E p \in Providers : ClaimVestedRewards(p)
           \/ \E c \in VestingConfigs : ConfigurePoolVesting(c)
           \/ \E x \in Payouts : PayClaim(x)
           \/ \E b \in BOOLEAN : Pausing(b)
           \/ LiquidityTick
           \/ UNCHANGED liquidityVars
  BY <1>0, <1>6, RestKeepsRewards
<1> QED
  BY <1>1, <1>2, <1>3, <1>4, <1>5, <1>6 DEF LiquidityNext

(* What was granted and what is pending is no more than what was earned.   *)
LEMMA RewardsFromInv == InsurancePoolAssumption /\ RewardInv => RewardsWithinIncome
<1> SUFFICES ASSUME InsurancePoolAssumption, RewardInv PROVE RewardsWithinIncome
  OBVIOUS
<1> DEFINE r == REWARD_PRECISION
           f == [q \in Providers |-> Earned(q)]
           pend == [q \in Providers |-> Pending(q)]
           h == [q \in Providers |-> granted[q] + Pending(q)]
           g == [q \in Providers |-> r * (granted[q] + Pending(q))]
           gr == granted
           z == [q \in Providers |-> 0]
           one == 1
           all == accrued + resized
<1>1. IsFiniteSet(Providers) /\ r \in Nat \ {0} /\ all \in Nat
  BY PoolConstants, RecordTypes DEF RewardInv, LiquidityInv
<1>2. \A q \in Providers : /\ granted[q] \in Nat /\ Pending(q) \in Nat /\ Earned(q) \in Int
                           /\ r * (granted[q] + Pending(q)) \in Int
                           /\ r * (granted[q] + Pending(q)) <= Earned(q)
  <2> TAKE q \in Providers
  <2> DEFINE u == Uncovered(provider[q], pool.acc)
  <2>1. granted[q] \in Nat /\ Pending(q) \in Nat /\ u \in Nat /\ Earned(q) \in Int
        /\ r * Pending(q) <= u
    BY GrantedIsUncovered
  <2>2. r * (granted[q] + Pending(q)) = r * granted[q] + r * Pending(q)
    BY <1>1, <2>1
  <2>3. r * granted[q] \in Nat /\ r * Pending(q) \in Nat
    BY <1>1, <2>1
  <2>4. Earned(q) = r * granted[q] + u
    BY DEF Earned
  <2> QED
    BY <2>1, <2>2, <2>3, <2>4
<1>3. /\ \A q \in Providers : f[q] \in Int /\ g[q] \in Int /\ g[q] <= f[q]
      /\ \A q \in Providers : gr[q] \in Int /\ pend[q] \in Int /\ h[q] = gr[q] + one * pend[q]
      /\ \A q \in Providers : z[q] = 0 /\ z[q] \in Int /\ h[q] \in Int /\ g[q] = z[q] + r * h[q]
  BY <1>1, <1>2
<1>4. SumFunctionOnSet(f, Providers) <= r * all
  BY DEF RewardInv, EarnedIsIncome, Sum
<1>5. RewardsWithinIncome <=>
        SumFunctionOnSet(gr, Providers) + SumFunctionOnSet(pend, Providers) <= all
  BY DEF RewardsWithinIncome, Sum
<1>6. one \in Int /\ one = 1 /\ r \in Int
  BY <1>1
<1> HIDE DEF r, f, g, h, pend, gr, z, one, all
<1>7. SumFunctionOnSet(h, Providers)
        = SumFunctionOnSet(gr, Providers) + one * SumFunctionOnSet(pend, Providers)
  BY <1>1, <1>3, <1>6, SumLinear
<1>8. SumFunctionOnSet(g, Providers)
        = SumFunctionOnSet(z, Providers) + r * SumFunctionOnSet(h, Providers)
  BY <1>1, <1>3, <1>6, SumLinear
<1>9. SumFunctionOnSet(z, Providers) = 0
  BY <1>1, <1>3, SumZero
<1>10. SumFunctionOnSet(g, Providers) <= SumFunctionOnSet(f, Providers)
  BY <1>1, <1>3, SumLeq
<1>11. /\ SumFunctionOnSet(h, Providers) \in Int /\ SumFunctionOnSet(gr, Providers) \in Int
       /\ SumFunctionOnSet(pend, Providers) \in Int /\ SumFunctionOnSet(f, Providers) \in Int
       /\ SumFunctionOnSet(g, Providers) \in Int
  BY <1>1, <1>3, SumRemove
<1> DEFINE sh == SumFunctionOnSet(h, Providers)
<1>12. sh * r <= all * r
  <2>1. SumFunctionOnSet(g, Providers) = sh * r
    BY <1>6, <1>8, <1>9, <1>11
  <2>2. r * all = all * r /\ r * all \in Int
    BY <1>1, <1>6
  <2> QED
    BY <1>4, <1>10, <1>11, <2>1, <2>2
<1>13. sh \in Int /\ all \in Int
  BY <1>1, <1>11
<1>14. sh <= all
  <2> HIDE DEF sh
  <2> QED
    BY <1>1, <1>12, <1>13, TimesCancels
<1> QED
  BY <1>5, <1>6, <1>7, <1>11, <1>14

(* Rewards granted and pending never outgrow the premiums, for any number  *)
(* of deposits, withdrawals, claims and reinvestments: each change of a    *)
(* stake adds one unit of rounding at most.                                *)
THEOREM RewardsAreCovered ==
  ASSUME InsurancePoolAssumption PROVE LiquiditySpec => []RewardsWithinIncome
<1>1. LiquidityInit => RewardInv
  BY InitRewards
<1>2. RewardInv /\ [LiquidityNext]_liquidityVars => RewardInv'
  BY NextRewards
<1>3. RewardInv => RewardsWithinIncome
  BY RewardsFromInv
<1> QED
  BY <1>1, <1>2, <1>3, PTL DEF LiquiditySpec

-----------------------------------------------------------------------------
(* What two stakes earn together is what they earn apart, or one more.     *)
LEMMA DebtOfSum ==
  ASSUME InsurancePoolAssumption, NEW s \in Nat, NEW x \in Nat, NEW a \in Nat
  PROVE  /\ SyncedDebt(s + x, a) \in Nat /\ SyncedDebt(s, a) \in Nat /\ SyncedDebt(x, a) \in Nat
         /\ SyncedDebt(s, a) + SyncedDebt(x, a) <= SyncedDebt(s + x, a)
         /\ SyncedDebt(s + x, a) <= SyncedDebt(s, a) + SyncedDebt(x, a) + 1
<1> DEFINE r == REWARD_PRECISION
           all == s + x
           A == SyncedDebt(s, a)
           B == SyncedDebt(x, a)
           C == SyncedDebt(all, a)
<1>1. r \in Nat \ {0} /\ all \in Nat
  BY PoolConstants
<1>2. A \in Nat /\ A * r <= s * a /\ s * a < A * r + r /\ s * a \in Nat
  BY SyncedDebtRounds
<1>3. B \in Nat /\ B * r <= x * a /\ x * a < B * r + r /\ x * a \in Nat
  BY SyncedDebtRounds
<1>4. all * a = s * a + x * a
  OBVIOUS
<1> HIDE DEF all
<1>5. C \in Nat /\ C * r <= all * a /\ all * a < C * r + r
  BY <1>1, SyncedDebtRounds
<1> HIDE DEF A, B, C, r
<1>6. A * r \in Nat /\ B * r \in Nat /\ C * r \in Nat
  BY <1>1, <1>2, <1>3, <1>5
<1>7. A + B < C + 1
  <2>1. A * r + B * r < C * r + r
    BY <1>1, <1>2, <1>3, <1>4, <1>5, <1>6
  <2>2. (A + B) * r = A * r + B * r /\ (C + 1) * r = C * r + r
    BY <1>1, <1>2, <1>3, <1>5
  <2>3. ~ ((C + 1) * r <= (A + B) * r)
    BY <1>1, <1>6, <2>1, <2>2
  <2> DEFINE c == C + 1
             ab == A + B
  <2>4. c \in Int /\ ab \in Int
    BY <1>2, <1>3, <1>5
  <2>5. c * r <= ab * r \/ ~(c <= ab)
    <3> HIDE DEF c, ab
    <3>1. c <= ab => r * c <= r * ab
      BY <1>1, <2>4
    <3>2. r * c = c * r /\ r * ab = ab * r
      BY <1>1, <2>4
    <3> QED
      BY <3>1, <3>2
  <2> QED
    BY <1>2, <1>3, <1>5, <2>3, <2>5
<1>8. C < A + B + 2
  <2> DEFINE ab == A + B + 2
  <2>1. C * r < A * r + B * r + 2 * r
    BY <1>1, <1>2, <1>3, <1>4, <1>5, <1>6
  <2>2. ab * r = A * r + B * r + 2 * r
    BY <1>1, <1>2, <1>3
  <2>3. ab \in Int /\ C \in Int
    BY <1>2, <1>3, <1>5
  <2>4. ~ (ab * r <= C * r)
    BY <1>1, <1>6, <2>1, <2>2
  <2>5. ab <= C => ab * r <= C * r
    <3> HIDE DEF ab
    <3>1. ab <= C => r * ab <= r * C
      BY <1>1, <2>3
    <3>2. r * C = C * r /\ r * ab = ab * r
      BY <1>1, <2>3
    <3> QED
      BY <3>1, <3>2
  <2> QED
    BY <1>2, <1>3, <1>5, <2>4, <2>5
<1>9. A + B <= C /\ C <= A + B + 1
  BY <1>2, <1>3, <1>5, <1>7, <1>8
<1> QED
  BY <1>2, <1>3, <1>5, <1>9 DEF A, B, C, all

(* Only a deposit brings value and raises the total stake; it leaves every *)
(* pending reward as it was, or adds one unit to the depositor's.          *)
LEMMA StepDeposit ==
  InsurancePoolAssumption /\ LiquidityInv /\ [LiquidityNext]_liquidityVars =>
    [paidIn' > paidIn /\ pool'.total_stake > pool.total_stake =>
       \A p \in Providers :
         /\ PendingOf(provider'[p], pool'.acc) >= Pending(p)
         /\ PendingOf(provider'[p], pool'.acc) <= Pending(p) + 1]_liquidityVars
<1> SUFFICES ASSUME InsurancePoolAssumption, LiquidityInv, LiquidityNext,
                    paidIn' > paidIn, pool'.total_stake > pool.total_stake,
                    NEW q \in Providers
             PROVE  /\ PendingOf(provider'[q], pool'.acc) >= Pending(q)
                    /\ PendingOf(provider'[q], pool'.acc) <= Pending(q) + 1
  OBVIOUS
<1>1. /\ pool \in PoolRecord /\ provider \in [Providers -> ProviderRecord]
      /\ paidIn \in Nat /\ pool.total_stake \in Nat
  BY RecordTypes DEF LiquidityInv, PoolRecord
<1>2. ~ (paidIn' = paidIn) /\ ~ (pool'.total_stake = pool.total_stake)
  BY <1>1
<1>3. \A x \in Premiums : ~ CollectPremium(x)
  <2> SUFFICES ASSUME NEW x \in Premiums, CollectPremium(x) PROVE pool'.total_stake = pool.total_stake
    BY <1>2
  <2> DEFINE share == x - (x * FeeRate) \div BPS
             rise == (share * REWARD_PRECISION) \div pool.total_stake
  <2>1. \/ pool' = [pool EXCEPT !.available = pool.available + share, !.acc = pool.acc + rise]
        \/ pool' = [pool EXCEPT !.available = pool.available + share]
    BY DEF CollectPremium
  <2> HIDE DEF share, rise
  <2> QED
    BY <1>1, <2>1 DEF PoolRecord
<1>4. PICK p \in Providers, x \in Deposits : DepositLiquidity(p, x)
  <2>1. \A p \in Providers :
          /\ \A x \in 1 .. pool.total_stake : ~ WithdrawLiquidity(p, x)
          /\ ~ ClaimRewards(p) /\ ~ ReinvestRewards(p) /\ ~ ClaimVestedRewards(p)
    BY <1>2 DEF WithdrawLiquidity, ClaimRewards, ReinvestRewards, ClaimVestedRewards, money
  <2>2. /\ \A c \in VestingConfigs : ~ ConfigurePoolVesting(c)
        /\ \A x \in Payouts : ~ PayClaim(x)
        /\ \A b \in BOOLEAN : ~ Pausing(b)
        /\ ~ LiquidityTick
    BY <1>2 DEF ConfigurePoolVesting, PayClaim, Pausing, LiquidityTick, money
  <2> QED
    BY <1>3, <2>1, <2>2 DEF LiquidityNext
<1>5. x \in Nat /\ provider[q] \in ProviderRecord /\ pool.acc \in Nat /\ pool'.acc = pool.acc
  BY <1>1, <1>4 DEF InsurancePoolAssumption, DepositLiquidity, PoolRecord
<1>6. Pending(q) \in Nat
  BY <1>5, PendingNat DEF Pending
<1>7. CASE q # p
  <2>1. provider'[q] = provider[q]
    BY <1>1, <1>4, <1>7 DEF DepositLiquidity
  <2>2. PendingOf(provider'[q], pool'.acc) = Pending(q)
    BY <1>5, <2>1 DEF Pending
  <2> QED
    BY <1>6, <2>2
<1>8. CASE q = p
  <2> DEFINE u == provider[p]
             a == pool.acc
             A == SyncedDebt(u.stake, a)
             B == SyncedDebt(x, a)
             C == SyncedDebt(u.stake + x, a)
  <2>1. u.stake \in Nat /\ u.debt \in Nat /\ a \in Nat
    BY <1>5, <1>8 DEF ProviderRecord
  <2>2. provider'[p].stake = u.stake + x /\ provider'[p].debt = u.debt + B
    BY <1>1, <1>4 DEF DepositLiquidity, DebtOfDeposit, ProviderRecord
  <2>3. A \in Nat /\ B \in Nat /\ C \in Nat /\ A + B <= C /\ C <= A + B + 1
    <3> DEFINE s == u.stake
    <3>1. s \in Nat /\ x \in Nat
      BY <1>5, <2>1
    <3> HIDE DEF s
    <3>2. /\ SyncedDebt(s + x, a) \in Nat /\ SyncedDebt(s, a) \in Nat /\ SyncedDebt(x, a) \in Nat
          /\ SyncedDebt(s, a) + SyncedDebt(x, a) <= SyncedDebt(s + x, a)
          /\ SyncedDebt(s + x, a) <= SyncedDebt(s, a) + SyncedDebt(x, a) + 1
      BY <2>1, <3>1, DebtOfSum
    <3> QED
      BY <3>2 DEF s
  <2>4. Pending(q) = Monus(A, u.debt) /\ PendingOf(provider'[q], pool'.acc) = Monus(C, u.debt + B)
    BY <1>5, <1>8, <2>2 DEF Pending, PendingOf
  <2> HIDE DEF A, B, C
  <2>5. Monus(C, u.debt + B) >= Monus(A, u.debt) /\ Monus(C, u.debt + B) <= Monus(A, u.debt) + 1
    BY <2>1, <2>3 DEF Monus
  <2> QED
    BY <2>4, <2>5
<1> QED
  BY <1>7, <1>8

(* A deposit earns nothing of the premiums before it, but for one unit of  *)
(* rounding.                                                               *)
THEOREM DepositsEarnNothing ==
  ASSUME InsurancePoolAssumption PROVE LiquiditySpec => DepositEarnsNothing
<1>1. LiquidityInv /\ [LiquidityNext]_liquidityVars =>
        [paidIn' > paidIn /\ pool'.total_stake > pool.total_stake =>
           \A p \in Providers :
             /\ PendingOf(provider'[p], pool'.acc) >= Pending(p)
             /\ PendingOf(provider'[p], pool'.acc) <= Pending(p) + 1]_liquidityVars
  BY StepDeposit
<1> QED
  BY LiquidityInvariance, <1>1, PTL DEF LiquiditySpec, DepositEarnsNothing

=============================================================================
