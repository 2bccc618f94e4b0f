# TLA+ models of the Stellar insured contracts

This directory models the smart contracts under `src/stellar-insured-contracts/contracts`,
checks the models with TLC on small instances, and proves the results that matter
most for every value of the constants with TLAPS. Every definition is translated from the Rust
code; `PROJECT.json` maps it to the lines it stands for.

Two families of contracts live side by side in the repository and share no
storage:

* **Soroban**: `policy`, `claims`, `risk_pool`, `governance`, `slashing`, `escrow`,
  `bridge`. A panic reverts the transaction. A contract invokes another one by the symbol
  of a function name, which nothing checks at build time.
* **ink!**: `insurance` (one large contract), `property-token`, `oracle`, `fees`,
  `compliance_registry`, `zk-compliance`, `ipfs-metadata`, `fractional`.
  A message that returns `Err` is reverted; a batch message that returns `Ok`
  keeps what its items stored before they failed.

On both chains one transaction runs alone, so *one action is one transaction*. What
is concurrent is the order of transactions of different accounts, and time between them.
`Cargo.toml:41` switches overflow checks off in the release profile, so arithmetic wraps
where the code does not check it.

## 1. Inventory

| component | state | operations | what is hard | what makes it correct |
|---|---|---|---|---|
| risk_pool | stake per provider, total and available capital, claims paid; a token balance outside | deposit, withdraw, payout | several providers and payouts draw on one available capital; the sign of an amount is not checked | it holds what it reports; its books balance; a stake falls only to its owner |
| policy | policies, counter | issue, renew, cancel, expire, is_active | boundary instants; status not checked on cancel; `u32` days wrap | a policy that ended never comes back |
| claims | claims, counter, active claim per policy | submit, start_review, approve, reject, settle | the lock of a policy is taken and freed in different calls; settle calls another contract twice | a lock is there exactly while a claim is open; submitted claims are closed |
| governance | proposals, votes, pending action | create (4 kinds), vote, finalize, execute | end of the voting period; tallies wrap; execution calls other contracts | tally = votes on record; an outcome stands; execution took effect |
| slashing | roles, penalty parameters, history per target | configure, slash, roles, pause | capped history; cooldown sum wraps | history = latest violations; cooldown is kept |
| escrow | escrows, multisig configuration, signatures and their counter, nonce | create, deposit, sign, release, pause | signing in every status, three kinds of approval, duplicates in lists, time lock | only a quorum releases, once, all of it |
| bridge | requests, operators, nonces, history; a fee token outside | initiate, sign, execute, recover, pause, operators | status overwritten by each signature; retry against expiry; a capped history | locked = signed, paid, in time; executed = approved; history = a sender's latest executions |
| insurance: liquidity | pool totals, reward index, stake, debt and vesting per provider | deposit, withdraw, claim and reinvest rewards, vesting | two integer divisions; three totals that drift; records dropped | rewards come from premiums; stakes add up; available capital is held |
| insurance: policies and claims | policies, tokens, claims, evidence nonces, cooldown, reinsurance | create, renew, cancel, expire, list and buy token, submit, process, batch, dispute | batches that keep partial effects; checks at submission used at payment; token trade against status changes | paid at most once, books agree, owner and holder agree, evidence used once (but for event 101), cover counted |
| insurance: administration | roles, pause and admin with pending values | grant, revoke, propose, execute, cancel | time lock against cancel and re-proposal; field against role store | no change of admin without notice |
| insurance: evidence of claims | items, two lists per claim, verifications | submit (alone, in batches), verify | a flag set once beside a majority that turns | lists, flag and verifications agree |
| property-token: tokens and bridge | owner per token and count per account, approvals, compliance flags, bridge requests, verified hashes | register, batch, transfer, approve, sign, execute, receive, burn, recover, pause, operators | ownership is kept twice; a request may be retried, cancelled or unlocked after its token moved | every token is in the supply, and counted to its owner |
| property-token: shares | balances, total shares, dividend index and credit, ask and escrow, proposals and votes | issue, redeem, transfer, deposit and withdraw dividends, ask, buy, vote | dividends synced lazily, or not at all; asks replace each other | an ask is covered, a deposit is credited once, shares move whole |
| oracle | sources, active list, reputation, valuation, history, requests | add and remove sources, slash, collect, aggregate, request | outliers around an integer standard deviation; zero weights; a source fed by the last aggregate | an aggregate lies within the prices it came from |
| fees | base fee, configurations, congestion window, treasury, validators, rewards, auctions | record, distribute, claim, create and settle an auction, bid | two floors per distribution; validators change between distributions; the end of an auction | no more handed out than collected; the highest bidder wins |
| compliance_registry | verification, checks and consent per account, requests, rules, audit log | verify, check (alone, in batches), request, consent, revoke, delete | checks recorded in any order around a new verification | compliance rests on the log, requests on their account |
| zk-compliance | proofs, summary, statistics, audit log, privacy levels | submit, decide, accept at once, add a line, set privacy | four records of one decision | the records agree |
| ipfs-metadata | metadata, documents with two indices, pinned sizes, access levels, rules | register, pin, unpin, verify, grant, revoke, report, rules | removal against registration and pinning | the indices name the documents; pinned sizes are booked |
| fractional | balances, supply, minters, KYC, dividend index | mint, burn, transfer, distribute, claim | a transfer to oneself | supply and balances add up |
| insurance: premium and actuarial model | parameters | pure computations | integer scaling | not modelled |
| lib/migration, bridge and insurance migration, proxy | a migration record with its steps; a code hash | begin, step, complete, roll back; upgrade | a crash between steps | not modelled: no contract calls them |
| analytics, traits, ai-valuation, `common/`, legacy governance, SDK, scripts, audit tooling | - | - | - | left out: no protocol state, not built, or clients of the contracts |

How they interact (Soroban): `claims` reads `get_policy`/`is_active` of `policy`, and
`get_stats`, then `payout`, of `risk_pool`; `governance.execute_proposal` invokes `approve`
on `claims` or `payout` on `risk_pool`; the admin calls `payout_claim` directly;
`escrow`, `bridge` and `slashing` call nobody but a token. Inside the ink! contract,
policies bring premiums into pools, and claims take payouts from them. The other ink! contracts
are alone in what is modelled: the calls of `property-token` to a fee manager and a compliance registry
only ask or notify.

The hazards that follow from this, each with its line and the properties that would catch
it, are in `PROJECT.json`.

## 2. Modules

| module | models | notes |
|---|---|---|
| `LedgerClock` | the timestamp the contracts of `MCContracts` read; custody and the ink! insurance contract have clocks of their own | advanced by `ClockTicks` alone |
| `RecordLog` | - | `Latest`, what a capped history ought to hold; read by properties only |
| `RiskPool` | `risk_pool/src/lib.rs` | the token is external: `Transfer` requires a non-negative amount that is covered |
| `Policy` | `policy/src/lib.rs` | days wrap at `U32`; one unit of time is one day |
| `Claims` | `claims/src/lib.rs` | what `policy` and `risk_pool` answer are parameters of the actions |
| `Governance` | `governance/src/lib.rs` | tallies wrap at `2 * I128Half`; the action a proposal carries is opaque |
| `Slashing` | `slashing/src/lib.rs` | history cut at `MAX_HISTORY`, cooldown sum wraps at `U64` |
| `InsuredSuite` | the four contracts that call each other | a call is a conjunct of the caller's action; it is enabled only if the callee exports the name invoked |
| `EscrowPromise` | what an escrow promises | abstract: terms, phase, amount held, who agreed |
| `Escrow` | `escrow/src/lib.rs` | implements `EscrowPromise` (`KeepsPromise`) |
| `Bridge` | `bridge/src/lib.rs` | the fee token is external |
| `InsuranceState` | what all sides of `insurance_impl.rs` read | block time, pause, and the arithmetic of unsigned amounts |
| `InsurancePool` | one pool of `insurance_impl.rs` | rewards with the code's integer divisions |
| `InsuranceClaims` | policies, tokens and claims of `insurance_impl.rs` | a decision is an operator from ledger to ledger, used once by `process_claim` and folded by a batch |
| `Evidence` | the evidence system of `insurance_impl.rs` | a batch is one submission of several items: it reverts whole |
| `InsuranceAdmin` | `rbac.rs` and the time-locked messages | |
| `PropertyToken` | tokens, approvals and bridge of `property-token/src/lib.rs` | a block is the unit of time |
| `PropertyShares` | shares, dividends, market and votes of the same file, for one token | the unit of the token sits among its shares, as in the code; what the bridge does to that unit are actions here too |
| `Oracle` | `oracle/src/lib.rs` | what a source answers is a line in the property's number; the five rounds of the confidence score's square root are written out |
| `Fees` | `fees/src/lib.rs` | basis points and percentages as in the code, small fees; the mapping and the list of validators are kept apart, the list as how often each is on it |
| `Compliance` | `compliance_registry/lib.rs` | documents and scores are a few pieces of evidence |
| `ZkCompliance` | `zk-compliance/lib.rs` | proofs are empty or not: the code has no cryptography |
| `IpfsMetadata` | `ipfs-metadata/src/lib.rs` | an identifier is a form and a length; the list of a property's documents is how often each id is on it |
| `Fractional` | `fractional/src/lib.rs` | width `U128` |
| `SumLemmas` | - | lemmas about sums over finite sets, wrapped sums, rounded divisions and squares, and the latest of a log |
| `Contracts_proofs`, `Records_proofs`, `InsuredSuite_proofs`, `Custody_proofs`, `Property_proofs`, `Insurance_proofs`, `InsuranceClaims_proofs` | - | proofs, section 4 |
| `MCContracts`, `MCCustody`, `MCInsurance`, `MCInsuredSuite` | instances for TLC | |

Contracts that share nothing are checked by one MC module whose variable `subject` (or
`side`) chooses, once, which contract the behaviour is about: the state graph is the
disjoint union of theirs, not the product. Where contracts do interact, they are
composed (`InsuredSuite`). `StorageTypeOK` of an MC module is the conjunction of the type invariants of its
contracts. Where two groups of one contract's operations do not read each other's state, each is
a subject of its own, with the operations both depend on (`Fees`/`Auctions`, `Prices`/`Valuations`,
`Checks`/`Registry`, `Proofs`/`Privacy`, `Documents`/`Access`, `Bridge`/`Pauses`,
`Shares`/`Locks`/`Votes`, `Tokens`/`Crossing`; `Bridge` opens and signs requests, `Records` executes them for
two senders; `Terms` issues, trades, renews and ends two policies, `Claims` claims on one). `MCContracts`, `MCCustody` and `MCInsurance` extend their components, so that what TLC checks
there is the definition the theorems name. That this splitting explores only behaviours of each contract's own
specification is proved too (`EachIsItsOwn`). The ink! contracts of `MCContracts` share the ledger clock with the Soroban
ones and are explored over one tick of it (`InkMaxTime`).

Definitions named `...Unchecked`, `...Early`, `...Again`, `...Keeping...` and the like, each with a
comment that begins "Mutant:", are plausible wrong forms of the definition after them. No
module uses them; replacing the right form by one of them makes the property named in
`PROJECT.json` fail.

Correspondence of names: an action carries the name of the Rust function in camel case
(`deposit_liquidity` is `DepositLiquidity`), a variable that of the storage key or field.
Variables that the code does not have are marked "history" (or "external" for token
balances) where they are declared; actions only write them. The Soroban bridge and the property token have
messages of the same names; those of the token are `InitiateTokenBridge` (`initiate_bridge_multisig`),
`SignTokenRequest` (`sign_bridge_request`), `ExecuteTokenBridge` (`execute_bridge`) and
`RecoverLockedToken` (`recover_failed_bridge`) here.

### What the models leave out of a modelled component

* Events, index lists (`PolicyholderPolicies`, lists of a property's policies), read-only getters,
  strings and descriptions.
* Authorisation by signature (`require_auth`) of the caller itself: an action is taken by
  whoever may take it. Admin-only operations are taken by the one admin. In `InsuredSuite` one
  admin account signs for every contract.
* `InsuranceClaims` starts after set-up: one pool with its capital, one reinsurance
  agreement, an assessor. Each policy insures a property of its own. Risk assessment and
  the premium formula are abstracted into the amounts chosen.
* `InsurancePool` sees a payout as an amount; `InsuranceClaims` sees the pool as the capital left.
  An early-withdrawal penalty returns to `available_capital` an amount that never left it
  (`insurance_impl.rs:400-402`). `AvailableIsHeld`, a part of `PoolBooksTrue`, therefore says what is held
  covers what is available *but for the penalties so far*, which the history variable `forfeited` adds up.
* `RewardsWithinIncome` allows one unit of rounding for every change of a stake (the history variable
  `resized` counts them): the code rounds debt down when a stake changes and reward down when it is granted, so
  that a provider may gain the difference, and no bound without such a term holds.
* `PropertyToken`: documents, batch metadata, the error log and `update_bridge_config`, so that the number of signatures
  and the timeout of the bridge are constants; its table of bridged tokens is keyed by token alone, the code's by chain and
  token, which no property depends on; `PropertyShares`: everything of
  a token but its shares. The two share a file and no invariant: the unit that registration puts among
  the balances is the only thing both hold.
* `Oracle`: alerts, location adjustments, trends and comparables, which are read by getters only.
* `Fees`, `Compliance`, `ZkCompliance`: reports, reward records, hashes of encrypted data, dashboards.
* `IpfsMetadata`: texts, document types and encryption flags; `Fractional`: last prices and the
  computing messages.

### Code that does not compile as committed

Some functions bear the marks of a bad merge. They are modelled as they read,
with the damage resolved in the only way their names allow: both batch loops
(`insurance_impl.rs:1337-1369`) decide each item, then try the same item again, which changes no
state; `move_to_dispute` (`:2375-2451`) refers to fields `types.rs` does not
declare, and without them guards on the pause and the existence of the claim only (the test at
`insurance_tests.rs:1917-1936` expects `DisputeWindowExpired`);
`policy/src/lib.rs` defines `get_policy` twice with one meaning;
`symbol_short!("claim_prop")` is longer than a short symbol may be; governance
builds an address from 32 zero bytes where there is no target; `PoolStats` lacks a field.

## 3. Runs

| run | instance | shows |
|---|---|---|
| `contracts` | 2 users, amounts -1..2, wrap widths 8 and 512, 3 claims on 2 policies, 2 proposals, 2 policies; 3 price sources, 1 auction, 3 compliance requests, 2 proofs, 3 documents on 2 properties, 2 holders of fractions | each contract alone, whatever the others answer; of the ink! ones the books of fees and auctions, the aggregate of the oracle, the sound registry, agreeing records, true indices, fractions that add up |
| `custody` | 2 participants, lists with and without a duplicate; 2 operators, 2 senders, 2 requests, a history of 2 and 3 executions; 2 holders of shares; 2 owners, 2 tokens, 1 request over the token's bridge | escrow implements its promise; bridge requests are locked only when signed, paid and in time; a sender's history is of its latest executions, in their order; shares are covered, whole and credited once; tokens are accounted for |
| `insurance` | 2 providers, 2 holders, 2 policies through trade and their ends, 2 claims on 1 policy, batches with a duplicate, 2 accounts in administration, 2 items of evidence | rewards within premiums, stakes, batches, evidence, tokens, active count, notice |
| `suite` | 1 user, 2 claims, 1 proposal, callee names as invoked | the four contracts agree on claims and money, and an admin who keeps working closes every claim |
| `suite_governance` | 1 user, 1 claim, 2 proposals | every payout is booked; two proposals, or a proposal and the admin, cannot both decide a claim |
| `suite_names` | names as this repository exports them | violated: no approved claim is ever settled |
| `custody_approval` | as `custody` | violated: a rejection counts as a signature |
| `custody_transfer` | as `custody` | violated: after `transfer_from` the token still names its old owner |
| `insurance_withdraw` | as `insurance` | violated: a withdrawal pays nothing |
| `insurance_batch` | as `insurance` | violated: a batch leaves a claim approved and unpaid |
| `insurance_admin` | as `insurance` | violated: the new admin has no rights |
| `insurance_coverage` | as `insurance` | violated: two pending claims exceed the coverage of their policy |

The violated properties each state what a doc or a comment of the repository says; `findings` in
`PROJECT.json` quotes it.

**Bounds.** Two accounts are the fewest that compete. Amounts include zero, a
negative one where the type is signed, and one beyond what is available. A third claim reuses a
lock that was freed. Widths are scaled down so that the wrap happens within the
bound (`U32`, `U64`, `I128Half`); caps (`MAX_HISTORY`, `MAX_OPERATORS`, `MAX_BATCH_SIZE`,
`MAX_PARTICIPANTS`) so that the cap is reached. Time runs past every deadline there is. Divisors
(`BPS`, `REWARD_PRECISION`) are small so that roundings are large compared with the amounts.
In `custody` the clock of the Soroban bridge is its ledger sequence (`MaxSequence` 2, timeouts of 1): one
step in time, one late. A request over the token's bridge needs one of two operators, so that the other may
disagree; one spender stands for all, since an approval names one account. In `contracts` the fee of 20
moves with congestion between 19 and 21 and 21 leaves a rest; three sources with prices a few units apart let
one be an outlier; two rules of `ipfs-metadata` make the limits on size, number and pinning bite.
Votes in governance weigh -1 or 6: a tally may be negative, and its product with 100 wraps at `I128Half` 512; the tally
itself never does, and its wrap rests on the theorem. The history of a slashed target is cut at 2 entries,
that of a sender at 2 of 3 executions, so that the oldest goes while a newer one stays. Two policies are the fewest of which
one could be counted off in the other's place; they are there without claims (`Terms`), for no claim reads another policy. A pause only forbids, so pool and
claims are explored without one (`Terms` and administration have it).
Every bound is a constant named in the module that declares it.

**Fairness.** Only `FairSpec` of `InsuredSuite` has any: weak fairness of reviewing, deciding and
settling each claim (`AdminDiligence`). Those are messages an admin must send; nothing in the
contracts sends them, so it is an assumption about the operator, and `ClaimIsClosed` reads "if the
admin keeps working". A claim the pool cannot pay stays approved, and the
property says so. `suite` assumes deployed contracts that answer the short names; the repository's own
do not (`suite_names`).

**Deadlock** is not checked: the clock and the counters of every instance stop at their bound, and
contracts wait for callers.

## 4. Proofs

Each theorem assumes the named assumption on the constants of its module, which TLC evaluates for the
instances of the runs, and nothing else unless said below. Accounts, amounts, lists, delays, widths and
bounds are arbitrary otherwise. Sets of accounts are assumed finite only where the code adds something up
over them.

| module | theorems | inductive invariant and argument |
|---|---|---|
| `Contracts_proofs` (RiskPool) | `PoolIsSolvent`, `PoolBooksBalance`, `StakesAddUp`, `StakeIsSafe` | `PoolIInv`: types, solvency, books and the total of stakes. A transfer moves a natural amount and overdraws nobody, so balances, capital and stakes move together. |
| (Policy) | `LapsedIsFinal` | The type invariant suffices: who may renew reads the status, and an end date is never moved without it, however the days wrap. |
| (Claims) | `LockIsTrue`, `OneClaimAtATime` | `ClaimsIInv`: a free lock means that no claim is open, which is why submitting may set it; an open claim is the one its lock points at, which is why deciding may clear it. |
| (Governance) | `ExecutedHadPassed`, `OutcomeIsFinal`, `TallyIsTrue` | `GovIInv` adds that whatever is finalized has expired, after which nobody may vote: without it a tally could still move after the threshold was met. A tally is a sum over voters that wraps; adding and wrapping commute (`I128Add`). |
| `Records_proofs` (slashing) | `HistoryIsComplete`, `CooldownHolds` | The history is the end of the log of slashes: appending to a log and dropping the first entry at the cap leaves its latest entries (`LatestAppend`). `CooldownHolds` has the hypothesis `CooldownsFit`, that no configured cooldown wraps the sum with a timestamp: with one that wraps it is false. `contracts.cfg` satisfies it (3 + 2 < 8). |
| (compliance) | `ComplianceRests` | `KycIInv`: a check that a record has was entered in the log of its account after the latest verification there. A verification drops the checks of the last and is itself the latest entry; every other entry leaves the latest verification where it is. |
| (proofs) | `RecordsTellProofs` | Counted per account: the lines of a log by outcome against the proofs by status, the statistics against the sum over all accounts. Each operation rewrites one account's proofs and log by one entry, so one lemma (`AccountWritten`) carries submission, decision and immediate acceptance. |
| (documents) | `DocumentsAreIndexed` | Both indices and the pinned weight follow from what is written of one document: the sum over a property's documents changes by what that document weighed before and after. |
| (fees) | `FeesAreBooked` | In two parts that most operations leave alone. Books: the validators' list holds each of the mapping once, so a distribution credits `per` times the validators, no more than the share of the treasury; treasury and distributed money together never exceed what was collected. Auctions: nobody else has bid as much as the recorded bidder. |
| (oracle) | `AggregatesAmongPrices` | A round of Newton's method from any positive number ends at the root or above it, and a descent of integers ends, so the deviation the filter computes is no less than the root of the variance rounded down. Were every price further from the mean than that, the mean of their squared distances would exceed the variance: some price survives. A weighted sum lies between its weight times the least and the largest price. Types are the only invariant needed. |
| (fractions) | `FractionsAreBacked` | Types and the sum itself are inductive, modulo the width: mint, burn and transfer to oneself change the balances by the same amount as supply or `selfGained`, and wrapping commutes with adding. |
| (`MCContracts`) | `EachIsItsOwn`, `StorageTypeCorrect` | Every step of the instance for TLC is one of each contract or lets it rest, so the theorems about the contracts hold there; stated for any values of the constants. |
| `InsuredSuite_proofs` | `ContractsAgree`, `PayoutsAreBooked`, `ApprovalIsOnce`, `SuiteImplementsPool`, `SuiteImplementsPolicy`, `SuiteImplementsGovernance` | Every transaction of the suite is one of each contract's or leaves it alone, so what is proved of a contract alone holds of it in the suite. `SuiteIInv` adds that a claim carries what its policy said, that a proposal not executed still has its action, and that paid capital is the settled claims and voted payouts. The pool's theorems are cited through the refinement, not proved again. |
| `Custody_proofs` (Escrow) | `CounterIsTrue`, `QuorumReleases`, `DepositIsTrue`, `Implements` | `IInv` adds `WellStored`: storage under unused ids is blank, a threshold is positive, signature sets are finite. `QuorumReleases` is not inductive without it. `Implements`: each transaction is a step of `EscrowPromise` or a stutter. |
| (Bridge) | `LockedIsSigned`, `BooksAreTrue`, `LateRequestsStayUnlocked` | `BridgeIInv` adds that an existing request keeps its sender and asks for the minimum, and that a sender's history is the latest of the log of executions of its requests, by `LatestAppend` again. The last is an action property: the status is overwritten by every signature, but not after the time is over. |
| `Property_proofs` (shares) | `SharesTypeCorrect`, `OffersAreCovered`, `SharesAreConserved`, `DividendsAreCreditedOnce` | Whatever raises an ask puts its shares into escrow in the same step. For the dividends, every share earns each deposit at most once: what an account was credited is within its shares times the index it has synced to, and a sum over accounts carries it to all of them. |
| (tokens) | `TokensAreAccounted` | `TokenIInv` adds that an id above the counter has no owner - a mint makes one token more - and that every stored request names a token and an account that owned it, so that a recovery counts an owner. A transfer moves a count and no owner, a lock an owner and no count: only the sums over all accounts stay true. |
| (`MCCustody`) | `EachIsItsOwn`, `StorageTypeCorrect` | As for `MCContracts`, with the invariants of `Custody_proofs`. |
| `Insurance_proofs` (administration) | `NoticeIsGiven` | A pending deadline is the delay after the last proposal, which cancelling and proposing again must keep. |
| (liquidity) | `LiquidityTypeCorrect`, `PoolBooksAreTrue`, `RewardsAreCovered`, `DepositsEarnNothing` | `LiquidityInv` needs that a penalty takes no more than there is left to vest. `RewardInv` accounts for what a provider has earned *to the fraction* - grants and the part of stake times index that its debt does not cover, all times the precision - because rounded amounts do not add up; the unit lost or gained at each change of a stake is what `resized` counts. |
| `InsuranceClaims_proofs` | `CoverTypeCorrect`, `TokensFollow`, `CoverIsCounted`, `PayoutsAreTrue`, `EvidenceIsSpent` | `CoverIInv`. The ledger (policies, claims, payouts, pool) satisfies `LedgerOK` - type, nothing stored beyond the counters, books - and deciding one claim preserves it; a batch is a fold of decisions, and that every ledger on the way satisfies it is shown at the shortest batch it would fail on. The counter of active policies never exceeds the policies created, so that counting one more or one less stays within the type; nonces never exceed the claims; the evidence of every claim on a policy of any other kind than event 101 is noted as used. For event 101, `PacedIInv`: none of its claims stays pending, a paid one is no later than the last payout of its property, and claims of one policy after a paid one are a `Cooldown` apart, since submitting asks for the cooldown since that payout. |
| (evidence) | `EvidenceAgrees` | `EvidenceIInv`: the items of a claim, their verdicts and the two lists, where each item stands at its number. A submission appends at the end and a verdict changes one item, so the rest of the lists is as it was. |
| (`MCInsurance`) | `StorageTypeCorrect` | `SidesIInv`: the side a behaviour is about keeps its own invariant; the others rest, and share only the block time and the pause flag with it. |

**Sums and folds.** The library defines both by recursion, and its induction theorems take an operator as a
parameter, which the provers cannot instantiate. `SumLemmas` proves what a sum does when an element is added,
removed or changed by looking at a minimal counterexample among the finite subsets, which are well-founded;
the fold of a batch is handled in the same way. They are stated for every function and every finite set.

**The invariants were checked first.** TLC evaluated each inductive invariant on an instance before it was
proved; several were strengthened on the way (evidence noted, blank storage, finite signatures), and two
properties turned out to be false as first written and were corrected (`AvailableIsHeld`, `RewardsWithinIncome`, above).

**Only model-checked.**

* That `InsuredSuite` is an environment of `Claims`: the amounts of a submission come from the policy there and
  from `ClaimAmounts` in `Claims`, which would need a bound on coverage that neither contract has. What the suite
  keeps of the claims is proved directly instead.
* `ClaimIsClosed` (liveness under fairness) and whatever rests on ENABLED: out of the prover's reach.
* The seven violated properties, which are false of the code.

Every invariant and every action property of a passing run is a theorem.

## 5. Disagreements and hazards without a run

Found while reading and visible in the models, but contradicting no sentence of the repository
that a run could state: a renewal may shorten a policy at the `u32` wrap
(`policy:127`); a lapsed policy can still be cancelled (`policy:139`); a proposal may be executed or rejected
without any quorum of voters (`governance:314`); an executed slashing proposal slashes
nothing (`governance:399`); an escrow whose list names an account twice may never reach its threshold
(`escrow:84`); a completed bridge request may be signed and executed again (`bridge:208`) and none is ever
`Expired` (`bridge:317`); vesting rewards are lost with the provider's record (`insurance_impl:432`) and paid whole again
when vesting is switched off (`:605`); a claim is disputed outside its window (`:2439`); a batch ignores the pause
(`:1337`); a bridge configuration of the property token may be replaced between requests (`property-token:1802`). The
quotient of a proposal's vote traps in the code where `I128` holds its least number and the votes are -1: such a proposal
can never be executed, and `Passed` says so.

**Evidence of event 101.** `insurance_impl.rs:1098` says of the nonce of evidence "Check nonce hasn't been used before
(prevents replay attacks)". A claim on a parametric policy that insures event 101 is stored, decided and paid within its own
submission, which returns at `:1190`, before the evidence is marked used (`:1198`) and the caller's nonce and wait are
written (`:1208`, `:1211`). The same evidence is accepted again, as often as the policy has coverage left and the cooldown
of the property, which a payout starts, is over. `ReplayIsParametric`, in `ClaimsBooksTrue`, says exactly that: two claims of one policy rest on one
piece of evidence only if it insures event 101, and a paid one and a later one are then a cooldown apart. For every other
policy the replay is refused, which contradicts the test at `insurance_tests.rs:630-667`: its `boundary_retry` submits the same
evidence and nonce 0 again on a standard policy and expects success, where the code answers `NonceAlreadyUsed`.

In the ink! contracts beside it: shares are credited with deposits made before they were issued, and sold ones
lose theirs, because only some operations sync (`property-token:538`); the unit of a token earns dividends
that `total_shares` does not count (`:1001`); a completed bridge request may be rejected, and its token then
unlocked (`:1641`); one verified hash may be received again and again (`:1469`); `Expired` is stored by a message
that then fails (`:1323`). `distribute_fees` empties the treasury although part of it was handed out
(`fees:663`), and neither claiming rewards nor opening an auction moves money. The oracle compares alerts with
the valuation it has just overwritten (`oracle:310`). A refused verification request stays pending and its account can
make no other (`compliance_registry:962`). Deciding an older proof notes the newest one (`zk-compliance:1293`). A
document removed while pinned keeps its share of the quota (`ipfs-metadata:882`), and whoever registers metadata
again becomes one more administrator (`:367`). A transfer of fractions to oneself creates them
(`fractional:267`), and buying fractions brings the dividends of the past with them (`:310`). An item of evidence
stays verified when the majority turns against it (`insurance_impl:1700`).

## 6. Plan

Done: every contract that has a protocol of its own - the Soroban contracts one by one and as a suite, custody,
the sides of the ink! insurance contract, property token and shares, oracle, fees, both compliance
registries, documents and fractions - and a proof of every invariant and action property the passing runs check.

Next, in this order:

1. An abstract specification of a claim's life that `Claims` and `InsuranceClaims` both implement.
2. Governance with slashing: what an executed slashing proposal ought to do.
3. The rest of the contracts that are modelled in part, as `PROJECT.json` lists them.

### Not modelled, and why

* Premium, underwriting and actuarial model: pure arithmetic over stored parameters. The claims model takes
  premium and deductible as given; underwriting criteria and actuarial models are stored and never read by an
  operation that changes other state.
* `lib/migration`, `bridge/src/migration.rs`, `insurance/src/migration.rs`, `proxy`: no contract declares them as a
  module or calls them, so that there is no behaviour to interleave them with.
* `analytics`, `traits`, `lib` types, events and error codes: no operation that another reads.
* `ai-valuation`, `common/`, `src/oracle`, legacy governance: outside the workspace, built by nothing.
* SDK, mobile client, scripts, audit tooling, tests: clients of the contracts, read as documentation.
