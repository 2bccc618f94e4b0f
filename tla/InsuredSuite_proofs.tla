------------------------- MODULE InsuredSuite_proofs -------------------------
(***************************************************************************)
(* Proofs about the contracts deployed together, for any accounts, amounts,*)
(* policies, proposals and exported names.                                 *)
(*                                                                         *)
(* Every transaction of the suite is a transaction of each contract or     *)
(* leaves it alone, so that what Contracts_proofs proves of a contract     *)
(* holds of it here.  What the contracts agree on needs more: that a claim *)
(* carries what its policy said of holder and cover when it was submitted, *)
(* and that a proposal which was not executed still has the action it was  *)
(* created with.                                                           *)
(***************************************************************************)
EXTENDS InsuredSuite, SumLemmas

CP == INSTANCE Contracts_proofs WITH PolicyIds <- 1 .. MaxPolicies, Claimants <- Users,
        ClaimAmounts <- Amounts, Policyholders <- Users

(* What is assumed of the constants of all contracts.                      *)
SuiteAssumption ==
  /\ CP!RiskPoolAssumption /\ CP!PolicyAssumption
  /\ CP!ClaimsAssumption /\ CP!GovernanceAssumption

-----------------------------------------------------------------------------
(* The pool, the policies, the claims and the proposals of the suite are   *)
(* those that Contracts_proofs is about.                                   *)
LEMMA SamePool ==
  /\ RP!PoolInit <=> CP!PoolInit
  /\ \A p, x : (RP!DepositLiquidity(p, x) <=> CP!DepositLiquidity(p, x))
            /\ (RP!WithdrawLiquidity(p, x) <=> CP!WithdrawLiquidity(p, x))
            /\ (RP!PayoutClaim(p, x) <=> CP!PayoutClaim(p, x))
  /\ RP!PoolNext <=> CP!PoolNext
<1>1. RP!PoolInit <=> CP!PoolInit
  BY DEF RP!PoolInit, CP!PoolInit, RP!Holders, CP!Holders
<1>2. \A p, x : RP!DepositLiquidity(p, x) <=> CP!DepositLiquidity(p, x)
  BY DEF RP!DepositLiquidity, CP!DepositLiquidity, RP!Transfer, CP!Transfer, RP!CanTransfer,
         CP!CanTransfer, RP!Holders, CP!Holders
<1>3. \A p, x : RP!WithdrawLiquidity(p, x) <=> CP!WithdrawLiquidity(p, x)
  BY DEF RP!WithdrawLiquidity, CP!WithdrawLiquidity, RP!Transfer, CP!Transfer, RP!CanTransfer,
         CP!CanTransfer, RP!Holders, CP!Holders, RP!CanWithdraw, CP!CanWithdraw,
         RP!CapitalAfterWithdraw, CP!CapitalAfterWithdraw
<1>4. \A p, x : RP!PayoutClaim(p, x) <=> CP!PayoutClaim(p, x)
  BY DEF RP!PayoutClaim, CP!PayoutClaim, RP!Transfer, CP!Transfer, RP!CanTransfer,
         CP!CanTransfer, RP!Holders, CP!Holders, RP!CapitalAfterPayout, CP!CapitalAfterPayout
<1>5. \A f, t, x : RP!TokenTransfer(f, t, x) <=> CP!TokenTransfer(f, t, x)
  BY DEF RP!TokenTransfer, CP!TokenTransfer, RP!Transfer, CP!Transfer, RP!CanTransfer,
         CP!CanTransfer, RP!Holders, CP!Holders
<1>6. RP!PoolNext <=> CP!PoolNext
  BY <1>2, <1>3, <1>4, <1>5 DEF RP!PoolNext, CP!PoolNext, RP!Holders, CP!Holders
<1> QED
  BY <1>1, <1>2, <1>3, <1>4, <1>6

(* The two instances of Policy, the suite's and the proofs', are one.     *)
LEMMA SamePolicy ==
  /\ Pol!ClockInit <=> CP!ClockInit
  /\ Pol!PolicyInit <=> CP!PolicyInit
  /\ Pol!PolicyTransaction <=> CP!PolicyTransaction
  /\ Pol!PolicyTick <=> CP!PolicyTick
<1>1. Pol!PolicyInit <=> CP!PolicyInit
  BY DEF Pol!PolicyInit, CP!PolicyInit, Pol!PolicyId, CP!PolicyId, Pol!NoPolicy, CP!NoPolicy,
         Pol!NoUser, CP!NoUser
<1>2. \A u, c, d : Pol!IssuePolicy(u, c, d) <=> CP!IssuePolicy(u, c, d)
  BY DEF Pol!IssuePolicy, CP!IssuePolicy
<1>3. \A id, d : Pol!RenewPolicy(id, d) <=> CP!RenewPolicy(id, d)
  BY DEF Pol!RenewPolicy, CP!RenewPolicy, Pol!CanRenew, CP!CanRenew, Pol!PolicyExists,
         CP!PolicyExists, Pol!InForce, CP!InForce, Pol!Expiry, CP!Expiry, Pol!Duration32,
         CP!Duration32, Pol!PolicyId, CP!PolicyId
<1>4. \A id : (Pol!CancelPolicy(id) <=> CP!CancelPolicy(id))
           /\ (Pol!ExpirePolicy(id) <=> CP!ExpirePolicy(id))
  BY DEF Pol!CancelPolicy, CP!CancelPolicy, Pol!ExpirePolicy, CP!ExpirePolicy, Pol!PolicyExists,
         CP!PolicyExists, Pol!Expiry, CP!Expiry, Pol!PolicyId, CP!PolicyId, Pol!SetStatus,
         CP!SetStatus, Pol!MayExpire, CP!MayExpire
<1>5. Pol!PolicyTransaction <=> CP!PolicyTransaction
  BY <1>2, <1>3, <1>4 DEF Pol!PolicyTransaction, CP!PolicyTransaction, Pol!PolicyId, CP!PolicyId
<1>6. Pol!PolicyTick <=> CP!PolicyTick
  BY DEF Pol!PolicyTick, CP!PolicyTick, Pol!ClockTicks, CP!ClockTicks, Pol!policyVars, CP!policyVars
<1>7. Pol!ClockInit <=> CP!ClockInit
  BY DEF Pol!ClockInit, CP!ClockInit
<1> QED
  BY <1>1, <1>5, <1>6, <1>7

(* The same of Claims.                                                    *)
LEMMA SameClaims ==
  /\ Clm!ClaimsInit <=> CP!ClaimsInit
  /\ \A p, x, a, v, h : Clm!SubmitClaim(p, x, a, v, h) <=> CP!SubmitClaim(p, x, a, v, h)
  /\ \A c : /\ Clm!StartReview(c) <=> CP!StartReview(c)
            /\ Clm!ApproveClaim(c) <=> CP!ApproveClaim(c)
            /\ Clm!RejectClaim(c) <=> CP!RejectClaim(c)
            /\ Clm!IsOpen(c) <=> CP!IsOpen(c)
  /\ \A c, v : Clm!SettleClaim(c, v) <=> CP!SettleClaim(c, v)
<1>1. Clm!ClaimsInit <=> CP!ClaimsInit
  BY DEF Clm!ClaimsInit, CP!ClaimsInit, Clm!ClaimId, CP!ClaimId, Clm!NoClaim, CP!NoClaim,
         Clm!NoClaimId, CP!NoClaimId, Clm!NoClaimant, CP!NoClaimant, Clm!NoPolicyId, CP!NoPolicyId
<1>2. \A p, x, a, v, h : Clm!SubmitClaim(p, x, a, v, h) <=> CP!SubmitClaim(p, x, a, v, h)
  BY DEF Clm!SubmitClaim, CP!SubmitClaim, Clm!LockFree, CP!LockFree, Clm!NoClaimId, CP!NoClaimId,
         Clm!NextClaimId, CP!NextClaimId
<1> USE DEF Clm!Move, CP!Move, Clm!ClaimId, CP!ClaimId
<1>3. \A c : /\ Clm!StartReview(c) <=> CP!StartReview(c)
             /\ Clm!ApproveClaim(c) <=> CP!ApproveClaim(c)
  BY DEF Clm!StartReview, CP!StartReview, Clm!ApproveClaim, CP!ApproveClaim
<1>4. \A c : Clm!RejectClaim(c) <=> CP!RejectClaim(c)
  BY DEF Clm!RejectClaim, CP!RejectClaim, Clm!ReleaseLock, CP!ReleaseLock, Clm!NoClaimId, CP!NoClaimId
<1>5. \A c : Clm!IsOpen(c) <=> CP!IsOpen(c)
  BY DEF Clm!IsOpen, CP!IsOpen, Clm!OpenStatuses, CP!OpenStatuses
<1>6. \A c, v : Clm!SettleClaim(c, v) <=> CP!SettleClaim(c, v)
  BY DEF Clm!SettleClaim, CP!SettleClaim, Clm!ReleaseLock, CP!ReleaseLock, Clm!NoClaimId,
         CP!NoClaimId, Clm!Covers, CP!Covers
<1> QED
  BY <1>1, <1>2, <1>3, <1>4, <1>5, <1>6

(* The same of Governance.                                                *)
LEMMA SameGovernance ==
  /\ Gov!GovInit <=> CP!GovInit
  /\ \A t, a : Gov!CreateProposal(t, a) <=> CP!CreateProposal(t, a)
  /\ \A v, id, w, y : Gov!Vote(v, id, w, y) <=> CP!Vote(v, id, w, y)
  /\ \A id : Gov!FinalizeProposal(id) <=> CP!FinalizeProposal(id)
  /\ \A id : Gov!ExecuteProposal(id) <=> CP!ExecuteProposal(id)
  /\ Gov!GovNext <=> CP!GovNext
<1>1. Gov!GovInit <=> CP!GovInit
  BY DEF Gov!GovInit, CP!GovInit, Gov!ProposalId, CP!ProposalId, Gov!NoProposal, CP!NoProposal,
         Gov!NoVote, CP!NoVote
<1>2. \A t, a : Gov!CreateProposal(t, a) <=> CP!CreateProposal(t, a)
  BY DEF Gov!CreateProposal, CP!CreateProposal, Gov!NoProposal, CP!NoProposal
<1>3. \A v, id, w, y : Gov!Vote(v, id, w, y) <=> CP!Vote(v, id, w, y)
  BY DEF Gov!Vote, CP!Vote, Gov!VotingOpen, CP!VotingOpen, Gov!HasNotVoted, CP!HasNotVoted,
         Gov!NoVote, CP!NoVote, Gov!I128, CP!I128
<1>4. \A id : Gov!FinalizeProposal(id) <=> CP!FinalizeProposal(id)
  BY DEF Gov!FinalizeProposal, CP!FinalizeProposal, Gov!VotingOver, CP!VotingOver
<1>5. \A id : Gov!ExecuteProposal(id) <=> CP!ExecuteProposal(id)
  BY DEF Gov!ExecuteProposal, CP!ExecuteProposal, Gov!CanExecute, CP!CanExecute, Gov!Passed,
         CP!Passed, Gov!TotalVotes, CP!TotalVotes, Gov!Quotient, CP!Quotient, Gov!Abs, CP!Abs,
         Gov!I128, CP!I128, Gov!ActionsAfterExecute, CP!ActionsAfterExecute
<1>6. Gov!GovTransaction <=> CP!GovTransaction
  BY <1>2, <1>3, <1>4, <1>5 DEF Gov!GovTransaction, CP!GovTransaction, Gov!ProposalId, CP!ProposalId
<1>7. Gov!GovNext <=> CP!GovNext
  BY <1>6 DEF Gov!GovNext, CP!GovNext, Gov!GovTick, CP!GovTick, Gov!ClockTicks, CP!ClockTicks,
              Gov!govVars, CP!govVars
<1> QED
  BY <1>1, <1>2, <1>3, <1>4, <1>5, <1>7

-----------------------------------------------------------------------------
(* What the contracts know of each other.                                  *)
PoliciesHaveHolders == \A p \in 1 .. policyCounter : policy[p].holder \in Users

ClaimsFollowPolicies ==
  \A c \in 1 .. claimCounter :
    /\ claim[c].policy \in 1 .. policyCounter
    /\ claim[c].claimant = policy[claim[c].policy].holder
    /\ claim[c].amount \in Amounts /\ claim[c].amount <= policy[claim[c].policy].coverage

ActionsCarried ==
  /\ carried \in [1 .. MaxProposals -> GovActions \union {NoAction}]
  /\ \A id \in 1 .. MaxProposals :
       proposal[id].exists =>
         carried[id] \in GovActions /\ (~proposal[id].executed => pending[id] = carried[id])

EachContract == CP!PoolIInv /\ CP!PolicyTypeOK /\ CP!ClaimsIInv /\ CP!GovIInv

Agreements == PoliciesHaveHolders /\ ClaimsFollowPolicies /\ ActionsCarried

SuiteIInv == EachContract /\ Agreements /\ ApprovalTookEffect /\ EveryPayoutBooked

(* A claim on record is a user's, for an amount that was asked for.        *)
LEMMA ClaimOnRecord ==
  ASSUME SuiteAssumption, EachContract, Agreements, NEW c \in 1 .. MaxClaims,
         claim[c].status # "Absent"
  PROVE  /\ c \in 1 .. claimCounter /\ claim[c].policy \in 1 .. policyCounter
         /\ claim[c].claimant \in Users /\ claim[c].amount \in Amounts
<1>1. c \in 1 .. claimCounter
  BY DEF EachContract, CP!ClaimsIInv, CP!ClaimsTypeOK, CP!ClaimExists, CP!ClaimId
<1> QED
  BY <1>1 DEF Agreements, ClaimsFollowPolicies, PoliciesHaveHolders

(* What a decision of governance calls is a call it can make.              *)
LEMMA InvokeEffect ==
  ASSUME SuiteAssumption, EachContract, NEW id \in 1 .. MaxProposals, Invoke(pending[id])
  PROVE  \/ pending[id] = NoAction /\ UNCHANGED <<claimVars, poolVars>>
         \/ /\ pending[id] \in GovActions /\ pending[id].call = "approve"
            /\ pending[id].claim \in 1 .. MaxClaims
            /\ CP!ApproveClaim(pending[id].claim) /\ UNCHANGED poolVars
         \/ /\ pending[id] \in GovActions /\ pending[id].call = "payout"
            /\ pending[id].recipient \in Users /\ pending[id].amount \in Amounts
            /\ CP!PayoutClaim(pending[id].recipient, pending[id].amount) /\ UNCHANGED claimVars
<1>1. pending[id] \in GovActions \union {NoAction}
  BY DEF EachContract, CP!GovIInv, CP!GovTypeOK, CP!ProposalId
<1>2. CASE pending[id] = NoAction
  BY <1>2 DEF Invoke
<1>3. CASE pending[id] # NoAction /\ pending[id].call = "approve"
  <2>1. pending[id] \in GovActions /\ pending[id].claim \in 1 .. MaxClaims
    BY <1>1, <1>3 DEF GovActions
  <2>2. Clm!ApproveClaim(pending[id].claim) /\ UNCHANGED poolVars
    BY <1>3 DEF Invoke
  <2> QED
    BY <1>3, <2>1, <2>2, SameClaims
<1>4. CASE pending[id] # NoAction /\ pending[id].call = "payout"
  <2>1. pending[id] \in GovActions /\ pending[id].recipient \in Users /\ pending[id].amount \in Amounts
    BY <1>1, <1>4 DEF GovActions
  <2>2. RP!PayoutClaim(pending[id].recipient, pending[id].amount) /\ UNCHANGED claimVars
    BY <1>4 DEF Invoke
  <2> QED
    BY <1>4, <2>1, <2>2, SamePool
<1> QED
  BY <1>1, <1>2, <1>3, <1>4 DEF GovActions

-----------------------------------------------------------------------------
(* Each step of the suite is a step of the pool, or leaves it alone: who   *)
(* is paid is a user, for an amount that was asked for.                    *)
LEMMA PoolStep ==
  ASSUME SuiteAssumption, EachContract, Agreements, [Next]_vars
  PROVE  [CP!PoolNext]_poolVars
<1>h. Users \subseteq CP!Holders
  BY DEF CP!Holders
<1>1. CASE UNCHANGED poolVars
  BY <1>1
<1>2. CASE Liquidity
  BY <1>2, SamePool DEF Liquidity, CP!PoolNext
<1>3. ASSUME NEW c \in 1 .. MaxClaims, SettleClaim(c) PROVE CP!PoolNext
  <2>1. claim[c].status # "Absent"
    BY <1>3 DEF SettleClaim, Clm!SettleClaim, Clm!Move
  <2>2. claim[c].claimant \in Users /\ claim[c].amount \in Amounts
    BY <2>1, ClaimOnRecord
  <2>3. CP!PayoutClaim(claim[c].claimant, claim[c].amount)
    BY <1>3, SamePool DEF SettleClaim
  <2> QED
    BY <1>h, <2>2, <2>3 DEF CP!PoolNext
<1>4. ASSUME NEW u \in Users, NEW x \in Amounts, DirectPayout(u, x) PROVE CP!PoolNext
  <2>1. CP!PayoutClaim(u, x)
    BY <1>4, SamePool DEF DirectPayout
  <2> QED
    BY <1>h, <2>1 DEF CP!PoolNext
<1>5. ASSUME NEW id \in 1 .. MaxProposals, ExecuteProposal(id) PROVE [CP!PoolNext]_poolVars
  BY <1>h, <1>5, InvokeEffect DEF ExecuteProposal, CP!PoolNext
<1> QED
  BY <1>1, <1>2, <1>3, <1>4, <1>5
     DEF Next, PolicyTransaction, SubmitClaim, ReviewClaim, DecideClaim, Propose, VoteOrFinalize,
         Tick, vars

(* Each step of the suite is a step of the policies, or leaves them alone. *)
LEMMA PolicyStep ==
  ASSUME [Next]_vars
  PROVE  [CP!PolicyNext]_(CP!policyClockVars)
  BY SamePolicy
     DEF Next, PolicyTransaction, SubmitClaim, ReviewClaim, DecideClaim, SettleClaim, Liquidity,
         DirectPayout, Propose, VoteOrFinalize, ExecuteProposal, Tick, vars, policyVars,
         CP!PolicyNext, CP!policyClockVars, CP!policyVars

(* Each step of the suite is a step of governance, or leaves it alone.     *)
LEMMA GovStep ==
  ASSUME [Next]_vars
  PROVE  [CP!GovNext]_(CP!govClockVars)
<1>1. ASSUME NEW t \in Thresholds, NEW a \in GovActions, Propose(t, a) PROVE CP!GovNext
  BY <1>1, SameGovernance DEF Propose, CP!GovNext, CP!GovTransaction
<1>2. ASSUME NEW id \in 1 .. MaxProposals, VoteOrFinalize(id) \/ ExecuteProposal(id) PROVE CP!GovNext
  BY <1>2, SameGovernance
     DEF VoteOrFinalize, ExecuteProposal, CP!GovNext, CP!GovTransaction, CP!ProposalId
<1>3. CASE Tick
  BY <1>3, SamePolicy DEF Tick, CP!PolicyTick, CP!GovNext, CP!GovTick, govVars, CP!govVars
<1>4. CASE UNCHANGED <<now, govVars>>
  BY <1>4 DEF govVars, CP!govClockVars, CP!govVars
<1>5. CASE PolicyTransaction
  BY <1>4, <1>5, SamePolicy DEF PolicyTransaction, CP!PolicyTransaction
<1> QED
  BY <1>1, <1>2, <1>3, <1>4, <1>5
     DEF Next, SubmitClaim, ReviewClaim, DecideClaim, SettleClaim, Liquidity, DirectPayout, vars

(* Each step of the suite takes or decides at most one claim; a settlement *)
(* is also a payout of its amount.                                         *)
LEMMA ClaimStep ==
  ASSUME SuiteAssumption, EachContract, [Next]_vars
  PROVE  \/ UNCHANGED claimVars
         \/ \E p \in 1 .. MaxPolicies, x \in Amounts : SubmitClaim(p, x)
         \/ /\ \E c \in 1 .. MaxClaims :
                 CP!StartReview(c) \/ CP!ApproveClaim(c) \/ CP!RejectClaim(c)
            /\ UNCHANGED policyVars
         \/ \E c \in 1 .. MaxClaims : SettleClaim(c)
<1>1. ASSUME NEW c \in 1 .. MaxClaims, ReviewClaim(c) \/ DecideClaim(c)
      PROVE  (CP!StartReview(c) \/ CP!ApproveClaim(c) \/ CP!RejectClaim(c)) /\ UNCHANGED policyVars
  BY <1>1, SameClaims DEF ReviewClaim, DecideClaim
<1>2. ASSUME NEW id \in 1 .. MaxProposals, ExecuteProposal(id)
      PROVE  \/ UNCHANGED claimVars
             \/ (\E c \in 1 .. MaxClaims : CP!ApproveClaim(c)) /\ UNCHANGED policyVars
  BY <1>2, InvokeEffect DEF ExecuteProposal
<1> QED
  BY <1>1, <1>2
     DEF Next, PolicyTransaction, Liquidity, DirectPayout, Propose, VoteOrFinalize, Tick, vars

-----------------------------------------------------------------------------
(* So each contract keeps its own invariant.                               *)
LEMMA KeepClaims ==
  ASSUME SuiteAssumption, EachContract, Agreements, [Next]_vars
  PROVE  CP!ClaimsIInv'
<1>a. CP!ClaimsAssumption /\ CP!ClaimsIInv
  BY DEF SuiteAssumption, EachContract
<1>1. CASE UNCHANGED claimVars
  BY <1>a, <1>1
     DEF claimVars, CP!ClaimsIInv, CP!ClaimsTypeOK, CP!LockMatchesOpenClaim, CP!ClaimExists, CP!IsOpen
<1>2. ASSUME NEW p \in 1 .. MaxPolicies, NEW x \in Amounts, SubmitClaim(p, x)
      PROVE  CP!ClaimsIInv'
  <2>1. policy[p].holder \in Users
    BY <1>2 DEF SubmitClaim, Agreements, PoliciesHaveHolders
  <2>2. CP!SubmitClaim(p, x, Pol!IsActive(p), policy[p].coverage, policy[p].holder)
    BY <1>2, SameClaims DEF SubmitClaim
  <2> QED
    BY <1>a, <2>1, <2>2, CP!SubmitIInv
<1>3. ASSUME NEW c \in 1 .. MaxClaims,
             CP!StartReview(c) \/ CP!ApproveClaim(c) \/ CP!RejectClaim(c)
      PROVE  CP!ClaimsIInv'
  <2>1. CP!ClaimsNext
    BY <1>3 DEF CP!ClaimsNext, CP!ClaimId
  <2> QED
    BY <1>a, <2>1, CP!NextClaimsIInv
<1>4. ASSUME NEW c \in 1 .. MaxClaims, SettleClaim(c) PROVE CP!ClaimsIInv'
  <2>1. CP!SettleClaim(c, availableCapital)
    BY <1>4, SameClaims DEF SettleClaim
  <2>2. "Approved" \in CP!OpenStatuses
    BY DEF CP!OpenStatuses
  <2>3. /\ CP!Move(c, "Approved", "Settled") /\ CP!ReleaseLock(claim[c].policy)
        /\ UNCHANGED claimCounter
    BY <2>1 DEF CP!SettleClaim
  <2> QED
    BY <1>a, <2>2, <2>3, CP!FreeLockIInv
<1> QED
  BY <1>1, <1>2, <1>3, <1>4, ClaimStep

(* A step of the suite keeps the inductive invariant of every contract.   *)
LEMMA KeepEachContract ==
  ASSUME SuiteAssumption, EachContract, Agreements, [Next]_vars
  PROVE  EachContract'
<1>1. CP!PoolIInv'
  <2>1. [CP!PoolNext]_(CP!poolVars)
    BY PoolStep DEF poolVars, CP!poolVars
  <2> QED
    BY <2>1, CP!NextPoolIInv DEF SuiteAssumption, EachContract
<1>2. CP!PolicyTypeOK'
  BY PolicyStep, CP!NextPolicyType DEF SuiteAssumption, EachContract
<1>3. CP!GovIInv'
  BY GovStep, CP!NextGovIInv DEF SuiteAssumption, EachContract
<1> QED
  BY <1>1, <1>2, <1>3, KeepClaims DEF EachContract

(* A policy keeps its holder and its cover, and so do the claims on it.    *)
LEMMA PolicyFields ==
  ASSUME SuiteAssumption, EachContract, PoliciesHaveHolders, [Next]_vars
  PROVE  /\ policyCounter \in Nat /\ policyCounter' \in Nat /\ policyCounter <= policyCounter'
         /\ \A p \in 1 .. policyCounter :
              policy'[p].holder = policy[p].holder /\ policy'[p].coverage = policy[p].coverage
         /\ PoliciesHaveHolders'
<1>1. CP!PolicyAssumption /\ CP!PolicyTypeOK /\ CP!PolicyTypeOK'
  BY PolicyStep, CP!NextPolicyType DEF SuiteAssumption, EachContract
<1>2. policyCounter \in Nat /\ policyCounter' \in Nat
  BY <1>1 DEF CP!PolicyTypeOK, CP!PolicyAssumption
<1>3. /\ policyCounter <= policyCounter'
      /\ \A p \in 1 .. policyCounter :
           policy'[p].holder = policy[p].holder /\ policy'[p].coverage = policy[p].coverage
      /\ \A p \in 1 .. policyCounter' : p > policyCounter => policy'[p].holder \in Users
  BY <1>1, PolicyStep, CP!HolderStays
<1>4. PoliciesHaveHolders'
  <2> SUFFICES ASSUME NEW p \in 1 .. policyCounter' PROVE policy'[p].holder \in Users
    BY DEF PoliciesHaveHolders
  <2>1. CASE p > policyCounter
    BY <1>3, <2>1
  <2>2. CASE ~(p > policyCounter)
    <3>1. p \in 1 .. policyCounter
      BY <1>2, <2>2
    <3> QED
      BY <1>3, <3>1 DEF PoliciesHaveHolders
  <2> QED
    BY <2>1, <2>2
<1> QED
  BY <1>2, <1>3, <1>4

(* What a submission and a decision are, in terms of single claims.        *)
LEMMA SubmitEffect ==
  ASSUME SuiteAssumption, EachContract, NEW p, NEW x, SubmitClaim(p, x)
  PROVE  LET n == claimCounter + 1
         IN /\ p \in 1 .. policyCounter /\ n \in 1 .. MaxClaims /\ claim[n].status = "Absent"
            /\ claimCounter' = n /\ x <= policy[p].coverage
            /\ claim'[n] = [policy |-> p, claimant |-> policy[p].holder, amount |-> x,
                            status |-> "Submitted"]
            /\ \A d \in (1 .. MaxClaims) \ {n} : claim'[d] = claim[d]
            /\ UNCHANGED <<now, policyVars, poolVars, govVars>>
<1> DEFINE n == claimCounter + 1
<1>1. CP!SubmitClaim(p, x, Pol!IsActive(p), policy[p].coverage, policy[p].holder)
  BY SameClaims DEF SubmitClaim
<1>2. CP!ClaimsTypeOK /\ MaxClaims \in Nat
  BY DEF EachContract, CP!ClaimsIInv, SuiteAssumption, CP!ClaimsAssumption
<1>3. /\ n \in 1 .. MaxClaims /\ claimCounter' = n /\ x <= policy[p].coverage
      /\ claim' = [claim EXCEPT ![n] = [policy |-> p, claimant |-> policy[p].holder,
                                        amount |-> x, status |-> "Submitted"]]
  BY <1>1, <1>2 DEF CP!SubmitClaim, CP!ClaimsTypeOK, CP!NextClaimId
<1>4. claim[n].status = "Absent"
  BY <1>2, <1>3 DEF CP!ClaimsTypeOK, CP!ClaimExists, CP!ClaimId
<1> QED
  BY <1>2, <1>3, <1>4 DEF SubmitClaim, CP!ClaimsTypeOK, CP!ClaimId

(* A decision moves the status of one claim, and nothing else of any.     *)
LEMMA DecisionEffect ==
  ASSUME SuiteAssumption, EachContract, NEW c, NEW from, NEW to, CP!Move(c, from, to)
  PROVE  /\ c \in 1 .. MaxClaims /\ claim[c].status = from /\ claim'[c].status = to
         /\ \A d \in (1 .. MaxClaims) \ {c} : claim'[d] = claim[d]
         /\ \A d \in 1 .. MaxClaims : /\ claim'[d].policy = claim[d].policy
                                     /\ claim'[d].claimant = claim[d].claimant
                                     /\ claim'[d].amount = claim[d].amount
<1>1. CP!ClaimsTypeOK
  BY DEF EachContract, CP!ClaimsIInv
<1> QED
  BY <1>1 DEF CP!Move, CP!ClaimsTypeOK, CP!ClaimId

(* The decisions the admin, a voter or the settlement may take on a claim. *)
LEMMA Decision ==
  ASSUME NEW c
  PROVE  /\ CP!StartReview(c) => CP!Move(c, "Submitted", "UnderReview") /\ UNCHANGED claimCounter
         /\ CP!ApproveClaim(c) => CP!Move(c, "UnderReview", "Approved") /\ UNCHANGED claimCounter
         /\ CP!RejectClaim(c) => CP!Move(c, "UnderReview", "Rejected") /\ UNCHANGED claimCounter
         /\ SettleClaim(c) => /\ CP!Move(c, "Approved", "Settled")
                              /\ UNCHANGED <<claimCounter, now, policyVars, govVars>>
<1>1. SettleClaim(c) => CP!SettleClaim(c, availableCapital) /\ UNCHANGED <<now, policyVars, govVars>>
  BY SameClaims DEF SettleClaim
<1> QED
  BY <1>1 DEF CP!StartReview, CP!ApproveClaim, CP!RejectClaim, CP!SettleClaim

-----------------------------------------------------------------------------
(* A claim keeps the policy, the holder and the amount it was submitted    *)
(* with, within the cover that policy still has.                           *)
LEMMA KeepFollowing ==
  ASSUME SuiteAssumption, EachContract, Agreements, [Next]_vars
  PROVE  PoliciesHaveHolders' /\ ClaimsFollowPolicies'
<1>p. /\ policyCounter \in Nat /\ policyCounter' \in Nat /\ policyCounter <= policyCounter'
      /\ \A p \in 1 .. policyCounter :
           policy'[p].holder = policy[p].holder /\ policy'[p].coverage = policy[p].coverage
      /\ PoliciesHaveHolders'
  BY PolicyFields DEF Agreements
<1>c. claimCounter \in Nat /\ claimCounter <= MaxClaims /\ MaxClaims \in Nat
  BY DEF EachContract, CP!ClaimsIInv, CP!ClaimsTypeOK, SuiteAssumption, CP!ClaimsAssumption
<1>f. ClaimsFollowPolicies
  BY DEF Agreements
<1>1. ASSUME UNCHANGED claimCounter,
             \A d \in 1 .. MaxClaims : /\ claim'[d].policy = claim[d].policy
                                      /\ claim'[d].claimant = claim[d].claimant
                                      /\ claim'[d].amount = claim[d].amount
      PROVE  ClaimsFollowPolicies'
  <2> SUFFICES ASSUME NEW c \in 1 .. claimCounter
               PROVE  /\ claim'[c].policy \in 1 .. policyCounter'
                      /\ claim'[c].claimant = policy'[claim'[c].policy].holder
                      /\ claim'[c].amount \in Amounts
                      /\ claim'[c].amount <= policy'[claim'[c].policy].coverage
    BY <1>1 DEF ClaimsFollowPolicies
  <2>1. c \in 1 .. MaxClaims
    BY <1>c
  <2>2. /\ claim'[c].policy = claim[c].policy /\ claim'[c].claimant = claim[c].claimant
        /\ claim'[c].amount = claim[c].amount
    BY <1>1, <2>1
  <2>3. /\ claim[c].policy \in 1 .. policyCounter
        /\ claim[c].claimant = policy[claim[c].policy].holder
        /\ claim[c].amount \in Amounts /\ claim[c].amount <= policy[claim[c].policy].coverage
    BY <1>f DEF ClaimsFollowPolicies
  <2>4. claim[c].policy \in 1 .. policyCounter'
    BY <1>p, <2>3
  <2> QED
    BY <1>p, <2>2, <2>3, <2>4
<1>2. CASE UNCHANGED claimVars
  BY <1>p, <1>1, <1>2 DEF claimVars
<1>3. ASSUME NEW p \in 1 .. MaxPolicies, NEW x \in Amounts, SubmitClaim(p, x)
      PROVE  ClaimsFollowPolicies'
  <2> DEFINE n == claimCounter + 1
  <2>1. /\ p \in 1 .. policyCounter /\ claimCounter' = n /\ x <= policy[p].coverage
        /\ claim'[n] = [policy |-> p, claimant |-> policy[p].holder, amount |-> x,
                        status |-> "Submitted"]
        /\ \A d \in (1 .. MaxClaims) \ {n} : claim'[d] = claim[d]
        /\ policy' = policy /\ policyCounter' = policyCounter
    BY <1>3, SubmitEffect DEF policyVars
  <2>2. ASSUME NEW d \in 1 .. claimCounter', d # n
        PROVE  d \in 1 .. claimCounter /\ claim'[d] = claim[d]
    BY <1>c, <2>1, <2>2
  <2>3. /\ claim'[n].policy = p /\ claim'[n].claimant = policy[p].holder
        /\ claim'[n].amount = x
    BY <2>1
  <2> HIDE DEF n
  <2> QED
    BY <1>f, <2>1, <2>2, <2>3 DEF ClaimsFollowPolicies
<1>4. ASSUME NEW c, CP!StartReview(c) \/ CP!ApproveClaim(c) \/ CP!RejectClaim(c) \/ SettleClaim(c)
      PROVE  ClaimsFollowPolicies'
  <2>1. /\ UNCHANGED claimCounter
        /\ \E from, to : CP!Move(c, from, to)
    BY <1>4, Decision
  <2> QED
    BY <1>1, <2>1, DecisionEffect
<1>5. \/ UNCHANGED claimVars
      \/ \E p \in 1 .. MaxPolicies, x \in Amounts : SubmitClaim(p, x)
      \/ \E c : CP!StartReview(c) \/ CP!ApproveClaim(c) \/ CP!RejectClaim(c) \/ SettleClaim(c)
  BY ClaimStep
<1>6. ClaimsFollowPolicies'
  BY <1>2, <1>3, <1>4, <1>5
<1> QED
  BY <1>p, <1>6

(* Only an execution makes a proposal an executed one, with the action it  *)
(* was created with.                                                       *)
LEMMA ExecutedStep ==
  ASSUME SuiteAssumption, EachContract, Agreements, [Next]_vars
  PROVE  /\ ActionsCarried'
         /\ \/ \A id \in 1 .. MaxProposals :
                  /\ proposal'[id].executed = proposal[id].executed
                  /\ proposal[id].executed => carried'[id] = carried[id]
            \/ \E id \in 1 .. MaxProposals :
                  /\ ExecuteProposal(id) /\ ~proposal[id].executed /\ proposal'[id].executed
                  /\ carried[id] \in GovActions /\ pending[id] = carried[id]
                  /\ \A i \in (1 .. MaxProposals) \ {id} :
                       proposal'[i].executed = proposal[i].executed
                  /\ carried' = carried
<1>t. /\ proposal \in [1 .. MaxProposals -> CP!ProposalType]
      /\ pending \in [1 .. MaxProposals -> GovActions \union {NoAction}]
      /\ proposalCounter \in Nat /\ MaxProposals \in Nat
      /\ \A id \in 1 .. MaxProposals : proposal[id].exists <=> id <= proposalCounter
  BY DEF EachContract, CP!GovIInv, CP!GovTypeOK, CP!ProposalId, CP!ProposalType, SuiteAssumption,
         CP!GovernanceAssumption
<1>e. \A id \in 1 .. MaxProposals :
        proposal[id].executed \/ proposal[id].finalized => proposal[id].exists
  BY DEF EachContract, CP!GovIInv, CP!ExecutedMetThreshold, CP!FinalizedInTime, CP!ProposalId
<1>c. /\ carried \in [1 .. MaxProposals -> GovActions \union {NoAction}]
      /\ \A id \in 1 .. MaxProposals :
           proposal[id].exists =>
             carried[id] \in GovActions /\ (~proposal[id].executed => pending[id] = carried[id])
  BY DEF Agreements, ActionsCarried
<1>1. ASSUME NEW t \in Thresholds, NEW a \in GovActions, Propose(t, a)
      PROVE  /\ ActionsCarried'
             /\ \A id \in 1 .. MaxProposals :
                  /\ proposal'[id].executed = proposal[id].executed
                  /\ proposal[id].executed => carried'[id] = carried[id]
  <2> DEFINE n == proposalCounter + 1
  <2>1. /\ n \in 1 .. MaxProposals /\ ~proposal[n].exists /\ ~proposal[n].executed
        /\ pending' = [pending EXCEPT ![n] = a] /\ carried' = [carried EXCEPT ![n] = a]
        /\ \A id \in (1 .. MaxProposals) \ {n} : proposal'[id] = proposal[id]
        /\ ~proposal'[n].executed
    <3>1. CP!CreateProposal(t, a) /\ carried' = [carried EXCEPT ![n] = a]
      BY <1>1, SameGovernance DEF Propose
    <3>2. n \in 1 .. MaxProposals /\ pending' = [pending EXCEPT ![n] = a]
      BY <1>t, <3>1 DEF CP!CreateProposal
    <3>3. ~proposal[n].exists /\ ~proposal[n].executed
      BY <1>t, <1>e, <3>2
    <3>4. /\ \A id \in (1 .. MaxProposals) \ {n} : proposal'[id] = proposal[id]
          /\ ~proposal'[n].executed
      BY <1>t, <3>1, <3>2 DEF CP!CreateProposal, CP!NoProposal
    <3> QED
      BY <3>1, <3>2, <3>3, <3>4
  <2> HIDE DEF n
  <2>2. /\ carried' \in [1 .. MaxProposals -> GovActions \union {NoAction}]
        /\ carried'[n] = a /\ pending'[n] = a
        /\ \A id \in (1 .. MaxProposals) \ {n} :
             carried'[id] = carried[id] /\ pending'[id] = pending[id]
    BY <1>t, <1>c, <2>1
  <2>3. proposal'[n].executed = proposal[n].executed
    <3>1. CP!GovIInv' /\ CP!GovIInv
      BY GovStep, CP!NextGovIInv DEF SuiteAssumption, EachContract
    <3>2. proposal'[n].executed \in BOOLEAN /\ proposal[n].executed \in BOOLEAN
      BY <2>1, <3>1 DEF CP!GovIInv, CP!GovTypeOK, CP!ProposalId
    <3> QED
      BY <2>1, <3>2
  <2>4. ActionsCarried'
    BY <1>c, <2>1, <2>2 DEF ActionsCarried
  <2> QED
    BY <2>1, <2>2, <2>3, <2>4
<1>2. ASSUME UNCHANGED <<pending, carried>>,
             \A id \in 1 .. MaxProposals :
               proposal'[id].exists = proposal[id].exists
               /\ proposal'[id].executed = proposal[id].executed
      PROVE  ActionsCarried'
  BY <1>c, <1>2 DEF ActionsCarried
<1>3. ASSUME NEW id \in 1 .. MaxProposals, VoteOrFinalize(id)
      PROVE  /\ UNCHANGED <<pending, carried>>
             /\ \A i \in 1 .. MaxProposals :
                  proposal'[i].exists = proposal[i].exists
                  /\ proposal'[i].executed = proposal[i].executed
  <2>1. CASE CP!FinalizeProposal(id)
    BY <1>3, <1>t, <2>1 DEF VoteOrFinalize, CP!FinalizeProposal, CP!ProposalType
  <2>2. ASSUME NEW v \in Voters, NEW w \in Weights, NEW y \in BOOLEAN, CP!Vote(v, id, w, y)
        PROVE  /\ UNCHANGED pending
               /\ \A i \in 1 .. MaxProposals :
                    proposal'[i].exists = proposal[i].exists
                    /\ proposal'[i].executed = proposal[i].executed
    <3>1. UNCHANGED pending
      BY <2>2 DEF CP!Vote
    <3>2. CP!GovernanceAssumption /\ CP!GovIInv /\ id \in CP!ProposalId
      BY DEF SuiteAssumption, EachContract, CP!ProposalId
    <3> QED
      BY <2>2, <3>1, <3>2, CP!VoteEffect DEF CP!ProposalId
  <2> QED
    BY <1>3, <2>1, <2>2, SameGovernance DEF VoteOrFinalize
<1>4. ASSUME NEW id \in 1 .. MaxProposals, ExecuteProposal(id)
      PROVE  /\ ActionsCarried' /\ ~proposal[id].executed /\ proposal'[id].executed
             /\ carried[id] \in GovActions /\ pending[id] = carried[id]
             /\ \A i \in (1 .. MaxProposals) \ {id} :
                  proposal'[i].executed = proposal[i].executed
             /\ carried' = carried
  <2>1. CP!ExecuteProposal(id) /\ carried' = carried
    BY <1>4, SameGovernance DEF ExecuteProposal
  <2>2. /\ ~proposal[id].executed /\ proposal[id].exists
        /\ proposal' = [proposal EXCEPT ![id].executed = TRUE]
        /\ pending' = [pending EXCEPT ![id] = NoAction]
    BY <1>e, <2>1 DEF CP!ExecuteProposal, CP!CanExecute, CP!ActionsAfterExecute
  <2>3. /\ proposal'[id].executed /\ proposal'[id].exists = proposal[id].exists
        /\ \A i \in (1 .. MaxProposals) \ {id} :
             proposal'[i] = proposal[i] /\ pending'[i] = pending[i]
    BY <1>t, <2>2 DEF CP!ProposalType
  <2>4. ActionsCarried'
    BY <1>c, <2>1, <2>2, <2>3 DEF ActionsCarried
  <2> QED
    BY <1>c, <2>1, <2>2, <2>3, <2>4
<1>5. CASE UNCHANGED govVars
  BY <1>2, <1>5 DEF govVars
<1> QED
  BY <1>1, <1>2, <1>3, <1>4, <1>5
     DEF Next, PolicyTransaction, SubmitClaim, ReviewClaim, DecideClaim, SettleClaim, Liquidity,
         DirectPayout, Tick, vars

-----------------------------------------------------------------------------
(* No decision takes an approval back: an approved claim can only be       *)
(* settled.                                                                *)
LEMMA ApprovedStays ==
  ASSUME SuiteAssumption, EachContract, Agreements, [Next]_vars, NEW c \in 1 .. MaxClaims,
         claim[c].status \in {"Approved", "Settled"}
  PROVE  claim'[c].status \in {"Approved", "Settled"}
<1>1. ASSUME NEW p \in 1 .. MaxPolicies, NEW x \in Amounts, SubmitClaim(p, x)
      PROVE  claim'[c] = claim[c]
  <2>1. c # claimCounter + 1
    BY <1>1, SubmitEffect
  <2> QED
    BY <1>1, <2>1, SubmitEffect
<1>2. ASSUME NEW d, CP!StartReview(d) \/ CP!ApproveClaim(d) \/ CP!RejectClaim(d)
      PROVE  claim'[c] = claim[c]
  <2>1. \E from \in {"Submitted", "UnderReview"} : \E to : CP!Move(d, from, to)
    BY <1>2, Decision
  <2>2. ASSUME NEW from \in {"Submitted", "UnderReview"}, NEW to, CP!Move(d, from, to)
        PROVE  claim'[c] = claim[c]
    BY <2>2, DecisionEffect
  <2> QED
    BY <2>1, <2>2
<1>3. ASSUME NEW d, SettleClaim(d)
      PROVE  claim'[c].status \in {"Approved", "Settled"}
  <2>1. CP!Move(d, "Approved", "Settled")
    BY <1>3, Decision
  <2> QED
    BY <2>1, DecisionEffect
<1>4. CASE UNCHANGED claimVars
  BY <1>4 DEF claimVars
<1>5. \/ UNCHANGED claimVars
      \/ \E p \in 1 .. MaxPolicies, x \in Amounts : SubmitClaim(p, x)
      \/ \E d : CP!StartReview(d) \/ CP!ApproveClaim(d) \/ CP!RejectClaim(d)
      \/ \E d : SettleClaim(d)
  BY ClaimStep
<1> QED
  BY <1>1, <1>2, <1>3, <1>4, <1>5

(* A second approval of a claim finds it approved already, and traps.      *)
LEMMA KeepApprovals ==
  ASSUME SuiteAssumption, SuiteIInv, [Next]_vars
  PROVE  ApprovalTookEffect'
<1>a. EachContract /\ Agreements /\ ApprovalTookEffect
  BY DEF SuiteIInv
<1>e. \A id \in 1 .. MaxProposals : proposal[id].executed => carried[id] \in GovActions
  BY <1>a DEF EachContract, CP!GovIInv, CP!ExecutedMetThreshold, CP!FinalizedInTime,
              CP!ProposalId, Agreements, ActionsCarried
<1>g. \A id \in Executed("approve") : carried[id].claim \in 1 .. MaxClaims
  BY <1>e DEF Executed, GovActions
<1>1. ASSUME NEW id \in Executed("approve")
      PROVE  claim'[carried[id].claim].status \in {"Approved", "Settled"}
  <2>1. claim[carried[id].claim].status \in {"Approved", "Settled"}
    BY <1>a DEF ApprovalTookEffect
  <2> QED
    BY <1>a, <1>g, <2>1, ApprovedStays
<1>2. CASE \A id \in 1 .. MaxProposals :
             /\ proposal'[id].executed = proposal[id].executed
             /\ proposal[id].executed => carried'[id] = carried[id]
  <2>1. /\ Executed("approve")' = Executed("approve")
        /\ \A id \in Executed("approve") : carried'[id] = carried[id]
    BY <1>2 DEF Executed
  <2> QED
    BY <1>a, <1>1, <2>1 DEF ApprovalTookEffect
<1>3. ASSUME NEW id \in 1 .. MaxProposals, ExecuteProposal(id), ~proposal[id].executed,
             proposal'[id].executed, carried[id] \in GovActions, pending[id] = carried[id],
             \A i \in (1 .. MaxProposals) \ {id} : proposal'[i].executed = proposal[i].executed,
             carried' = carried
      PROVE  ApprovalTookEffect'
  <2>1. CASE carried[id].call # "approve"
    <3>1. Executed("approve")' = Executed("approve")
      BY <1>3, <2>1 DEF Executed
    <3> QED
      BY <1>a, <1>1, <1>3, <3>1 DEF ApprovalTookEffect
  <2>2. CASE carried[id].call = "approve"
    <3> DEFINE c == carried[id].claim
    <3>0. NoAction \notin GovActions
      BY DEF SuiteAssumption, CP!GovernanceAssumption
    <3>1. c \in 1 .. MaxClaims /\ CP!ApproveClaim(c)
      BY <1>a, <1>3, <2>2, <3>0, InvokeEffect DEF ExecuteProposal
    <3>2. claim[c].status = "UnderReview" /\ claim'[c].status = "Approved"
      BY <1>a, <3>1, Decision, DecisionEffect
    <3>3. Executed("approve")' = Executed("approve") \union {id}
      BY <1>3, <2>2 DEF Executed
    <3>4. \A other \in Executed("approve") : carried[other].claim # c
      BY <1>a, <3>2 DEF ApprovalTookEffect
    <3> QED
      BY <1>a, <1>1, <1>3, <3>2, <3>3, <3>4 DEF ApprovalTookEffect
  <2> QED
    BY <2>1, <2>2
<1> QED
  BY <1>a, <1>2, <1>3, ExecutedStep

-----------------------------------------------------------------------------
(* What the pool has paid never shrinks, and a payout adds to it.          *)
LEMMA PaidGrows ==
  ASSUME SuiteAssumption, EachContract, Agreements, [Next]_vars
  PROVE  /\ claimsPaid \in Nat /\ claimsPaid' \in Nat /\ claimsPaid <= claimsPaid'
         /\ \A r, x : CP!PayoutClaim(r, x) => claimsPaid' = claimsPaid + x
<1>1. CP!PoolIInv /\ CP!PoolIInv'
  BY KeepEachContract DEF EachContract
<1>2. claimsPaid \in Nat /\ claimsPaid' \in Nat
  BY <1>1 DEF CP!PoolIInv, CP!PoolTypeOK
<1>3. ASSUME NEW r, NEW x \in Amounts, CP!PayoutClaim(r, x) PROVE claimsPaid <= claimsPaid'
  <2>1. x \in Int /\ x >= 0 /\ claimsPaid' = claimsPaid + x
    BY <1>3 DEF CP!PayoutClaim, CP!Transfer, CP!CanTransfer, SuiteAssumption, CP!RiskPoolAssumption
  <2> QED
    BY <1>2, <2>1
<1>4. claimsPaid' = claimsPaid \/ \E r : \E x \in Amounts : CP!PayoutClaim(r, x)
  BY PoolStep
     DEF CP!PoolNext, CP!DepositLiquidity, CP!WithdrawLiquidity, CP!TokenTransfer, poolVars
<1>5. \A r, x : CP!PayoutClaim(r, x) => claimsPaid' = claimsPaid + x
  BY DEF CP!PayoutClaim
<1> QED
  BY <1>2, <1>3, <1>4, <1>5

(* The sum of the settled claims grows by what a settlement pays.          *)
SettledPaid == SumFunction([c \in Settled |-> claim[c].amount])
VotedPaid == SumFunction([id \in Executed("payout") |-> carried[id].amount])

(* What settles no claim leaves the settled amount as it was.             *)
LEMMA SettledSame ==
  ASSUME \A c \in 1 .. MaxClaims :
           /\ claim'[c].status = "Settled" <=> claim[c].status = "Settled"
           /\ claim[c].status = "Settled" => claim'[c].amount = claim[c].amount
  PROVE  SettledPaid' = SettledPaid
<1>1. Settled' = Settled /\ \A c \in Settled : claim'[c].amount = claim[c].amount
  BY DEF Settled
<1>2. [c \in Settled' |-> claim'[c].amount] = [c \in Settled |-> claim[c].amount]
  BY <1>1
<1> QED
  BY <1>2 DEF SettledPaid

(* A step of the suite settles no claim, or one, and adds its amount.     *)
LEMMA SettledStep ==
  ASSUME SuiteAssumption, EachContract, Agreements, [Next]_vars
  PROVE  /\ SettledPaid \in Int
         /\ \/ SettledPaid' = SettledPaid
            \/ \E c \in 1 .. MaxClaims :
                 /\ SettleClaim(c) /\ claim[c].amount \in Int
                 /\ SettledPaid' = SettledPaid + claim[c].amount
<1>f. IsFiniteSet(Settled) /\ \A c \in Settled : claim[c].amount \in Int
  <2>1. MaxClaims \in Nat /\ Amounts \subseteq Int
    BY DEF SuiteAssumption, CP!ClaimsAssumption
  <2>2. IsFiniteSet(1 .. MaxClaims) /\ Settled \subseteq 1 .. MaxClaims
    BY <2>1, FS_Interval DEF Settled
  <2>3. ASSUME NEW c \in Settled PROVE claim[c].amount \in Int
    <3>1. c \in 1 .. MaxClaims /\ claim[c].status # "Absent"
      BY DEF Settled
    <3> QED
      BY <2>1, <3>1, ClaimOnRecord
  <2> QED
    BY <2>2, <2>3, FS_Subset
<1>0. SettledPaid \in Int
  <2> DEFINE f == [c \in Settled |-> claim[c].amount]
  <2>1. DOMAIN f = Settled /\ \A c \in Settled : f[c] \in Int
    BY <1>f
  <2>2. SumFunctionOnSet(f, Settled) \in Int
    <3> HIDE DEF f
    <3> QED
      BY <1>f, <2>1, SumRemove
  <2>3. SumFunction(f) = SumFunctionOnSet(f, Settled)
    BY <2>1 DEF SumFunction
  <2> QED
    BY <2>2, <2>3 DEF SettledPaid
<1>1. ASSUME NEW p \in 1 .. MaxPolicies, NEW x \in Amounts, SubmitClaim(p, x)
      PROVE  SettledPaid' = SettledPaid
  <2> DEFINE n == claimCounter + 1
             new == [policy |-> p, claimant |-> policy[p].holder, amount |-> x,
                     status |-> "Submitted"]
  <2>1. /\ claim[n].status = "Absent" /\ claim'[n] = new
        /\ \A d \in (1 .. MaxClaims) \ {n} : claim'[d] = claim[d]
    BY <1>1, SubmitEffect
  <2>2. new.status = "Submitted"
    OBVIOUS
  <2> HIDE DEF n, new
  <2> QED
    BY <2>1, <2>2, SettledSame
<1>2. ASSUME NEW d, CP!StartReview(d) \/ CP!ApproveClaim(d) \/ CP!RejectClaim(d)
      PROVE  SettledPaid' = SettledPaid
  <2>1. \E from \in {"Submitted", "UnderReview"}, to \in {"UnderReview", "Approved", "Rejected"} :
          CP!Move(d, from, to)
    BY <1>2, Decision
  <2>2. ASSUME NEW from \in {"Submitted", "UnderReview"},
               NEW to \in {"UnderReview", "Approved", "Rejected"}, CP!Move(d, from, to)
        PROVE  SettledPaid' = SettledPaid
    <3>1. /\ claim[d].status = from /\ claim'[d].status = to
          /\ \A c \in (1 .. MaxClaims) \ {d} : claim'[c] = claim[c]
      BY <2>2, DecisionEffect
    <3> QED
      BY <3>1, SettledSame
  <2> QED
    BY <2>1, <2>2
<1>3. ASSUME NEW c \in 1 .. MaxClaims, SettleClaim(c)
      PROVE  claim[c].amount \in Int /\ SettledPaid' = SettledPaid + claim[c].amount
  <2>1. /\ claim[c].status = "Approved" /\ claim'[c].status = "Settled"
        /\ \A d \in (1 .. MaxClaims) \ {c} : claim'[d] = claim[d]
        /\ claim'[c].amount = claim[c].amount
    BY <1>3, Decision, DecisionEffect
  <2>2. claim[c].amount \in Int
    BY <2>1, ClaimOnRecord DEF SuiteAssumption, CP!ClaimsAssumption
  <2> DEFINE f == [d \in Settled |-> claim[d].amount]
             g == [d \in Settled' |-> claim'[d].amount]
             S == Settled
  <2>3. c \notin S /\ Settled' = S \union {c} /\ IsFiniteSet(S)
    BY <1>f, <2>1 DEF Settled
  <2>4. /\ DOMAIN f = S /\ DOMAIN g = S \union {c} /\ g[c] = claim[c].amount
        /\ \A d \in S : f[d] \in Int /\ g[d] = f[d]
    BY <1>f, <2>1, <2>3 DEF Settled
  <2>5. SettledPaid = SumFunction(f) /\ SettledPaid' = SumFunction(g)
    BY DEF SettledPaid
  <2> HIDE DEF f, g, S
  <2>6. SumFunction(g) = SumFunction(f) + g[c]
    BY <2>2, <2>3, <2>4, SumExtend
  <2> QED
    BY <2>2, <2>4, <2>5, <2>6
<1>4. CASE UNCHANGED claimVars
  BY <1>0, <1>4, SettledSame DEF claimVars
<1>5. \/ UNCHANGED claimVars
      \/ \E p \in 1 .. MaxPolicies, x \in Amounts : SubmitClaim(p, x)
      \/ \E d : CP!StartReview(d) \/ CP!ApproveClaim(d) \/ CP!RejectClaim(d)
      \/ \E d \in 1 .. MaxClaims : SettleClaim(d)
  BY ClaimStep
<1>6. ASSUME NEW c \in 1 .. MaxClaims, SettleClaim(c)
      PROVE  \E d \in 1 .. MaxClaims :
               /\ SettleClaim(d) /\ claim[d].amount \in Int
               /\ SettledPaid' = SettledPaid + claim[d].amount
  BY <1>3, <1>6
<1> QED
  BY <1>0, <1>1, <1>2, <1>4, <1>5, <1>6

(* The sum of the payouts that were voted grows by what an execution pays. *)
LEMMA VotedStep ==
  ASSUME SuiteAssumption, EachContract, Agreements, [Next]_vars
  PROVE  /\ VotedPaid \in Int
         /\ \/ VotedPaid' = VotedPaid
            \/ \E x \in Int : \E r : /\ CP!PayoutClaim(r, x) /\ UNCHANGED claimVars
                                    /\ VotedPaid' = VotedPaid + x
<1>f. /\ IsFiniteSet(Executed("payout"))
      /\ \A id \in Executed("payout") : carried[id].amount \in Int
  <2>1. MaxProposals \in Nat /\ Amounts \subseteq Int
    BY DEF SuiteAssumption, CP!ClaimsAssumption, CP!GovernanceAssumption
  <2>2. IsFiniteSet(1 .. MaxProposals) /\ Executed("payout") \subseteq 1 .. MaxProposals
    BY <2>1, FS_Interval DEF Executed
  <2>3. ASSUME NEW id \in Executed("payout") PROVE carried[id].amount \in Int
    <3>1. carried[id] \in GovActions /\ carried[id].call = "payout"
      BY DEF Executed, EachContract, CP!GovIInv, CP!ExecutedMetThreshold, CP!FinalizedInTime,
             CP!ProposalId, Agreements, ActionsCarried
    <3> QED
      BY <2>1, <3>1 DEF GovActions
  <2> QED
    BY <2>2, <2>3, FS_Subset
<1>0. VotedPaid \in Int
  <2> DEFINE f == [id \in Executed("payout") |-> carried[id].amount]
             S == Executed("payout")
  <2>1. DOMAIN f = S /\ IsFiniteSet(S) /\ \A id \in S : f[id] \in Int
    BY <1>f
  <2>2. SumFunctionOnSet(f, S) \in Int
    <3> HIDE DEF f, S
    <3> QED
      BY <2>1, SumRemove
  <2>3. SumFunction(f) = SumFunctionOnSet(f, S)
    BY <2>1 DEF SumFunction
  <2> QED
    BY <2>2, <2>3 DEF VotedPaid
<1>1. ASSUME Executed("payout")' = Executed("payout"),
             \A id \in Executed("payout") : carried'[id] = carried[id]
      PROVE  VotedPaid' = VotedPaid
  <2>1. [id \in Executed("payout")' |-> carried'[id].amount]
          = [id \in Executed("payout") |-> carried[id].amount]
    BY <1>1
  <2> QED
    BY <2>1 DEF VotedPaid
<1>2. CASE \A id \in 1 .. MaxProposals :
             /\ proposal'[id].executed = proposal[id].executed
             /\ proposal[id].executed => carried'[id] = carried[id]
  <2>1. /\ Executed("payout")' = Executed("payout")
        /\ \A id \in Executed("payout") : carried'[id] = carried[id]
    BY <1>2 DEF Executed
  <2> QED
    BY <1>0, <1>1, <2>1
<1>3. ASSUME NEW id \in 1 .. MaxProposals, ExecuteProposal(id), ~proposal[id].executed,
             proposal'[id].executed, carried[id] \in GovActions, pending[id] = carried[id],
             \A i \in (1 .. MaxProposals) \ {id} : proposal'[i].executed = proposal[i].executed,
             carried' = carried
      PROVE  \/ VotedPaid' = VotedPaid
             \/ \E x \in Int : \E r : /\ CP!PayoutClaim(r, x) /\ UNCHANGED claimVars
                                     /\ VotedPaid' = VotedPaid + x
  <2>1. CASE carried[id].call # "payout"
    <3>1. Executed("payout")' = Executed("payout")
      BY <1>3, <2>1 DEF Executed
    <3> QED
      BY <1>1, <1>3, <3>1
  <2>2. CASE carried[id].call = "payout"
    <3>0. NoAction \notin GovActions /\ Amounts \subseteq Int
      BY DEF SuiteAssumption, CP!GovernanceAssumption, CP!ClaimsAssumption
    <3>1. /\ CP!PayoutClaim(carried[id].recipient, carried[id].amount) /\ UNCHANGED claimVars
          /\ carried[id].amount \in Int
      BY <1>3, <2>2, <3>0, InvokeEffect DEF ExecuteProposal
    <3> DEFINE S == Executed("payout")
               f == [i \in S |-> carried[i].amount]
               g == [i \in S' |-> carried'[i].amount]
               x == carried[id].amount
    <3>2. id \notin S /\ S' = S \union {id} /\ IsFiniteSet(S)
      BY <1>3, <1>f, <2>2 DEF Executed
    <3>3. /\ DOMAIN f = S /\ DOMAIN g = S \union {id} /\ g[id] = x
          /\ \A i \in S : f[i] \in Int /\ g[i] = f[i]
      BY <1>3, <1>f, <3>2
    <3>4. VotedPaid = SumFunction(f) /\ VotedPaid' = SumFunction(g)
      BY DEF VotedPaid
    <3>5. x \in Int /\ CP!PayoutClaim(carried[id].recipient, x)
      BY <3>1
    <3> HIDE DEF f, g, S, x
    <3>6. SumFunction(g) = SumFunction(f) + g[id]
      <4>1. IsFiniteSet(S) /\ id \notin S /\ g[id] \in Int
        BY <3>2, <3>3, <3>5
      <4> QED
        BY <3>3, <4>1, SumExtend
    <3>7. VotedPaid' = VotedPaid + x
      BY <3>3, <3>4, <3>6
    <3> QED
      BY <3>1, <3>5, <3>7
  <2> QED
    BY <2>1, <2>2
<1> QED
  BY <1>0, <1>2, <1>3, ExecutedStep

(* A payout is booked by the pool in the transaction that records it: a    *)
(* settlement is not an execution, so that one step adds to one sum only.  *)
LEMMA KeepBooked ==
  ASSUME SuiteAssumption, SuiteIInv, [Next]_vars
  PROVE  EveryPayoutBooked'
<1>a. EachContract /\ Agreements
  BY DEF SuiteIInv
<1>b. claimsPaid >= SettledPaid + VotedPaid
  BY DEF SuiteIInv, EveryPayoutBooked, SettledPaid, VotedPaid
<1>p. /\ claimsPaid \in Nat /\ claimsPaid' \in Nat /\ claimsPaid <= claimsPaid'
      /\ \A r, x : CP!PayoutClaim(r, x) => claimsPaid' = claimsPaid + x
      /\ SettledPaid \in Int /\ VotedPaid \in Int
  BY <1>a, PaidGrows, SettledStep, VotedStep
<1>1. CASE SettledPaid' = SettledPaid /\ VotedPaid' = VotedPaid
  <2>1. claimsPaid' >= SettledPaid' + VotedPaid'
    BY <1>b, <1>p, <1>1
  <2> QED
    BY <2>1 DEF EveryPayoutBooked, SettledPaid, VotedPaid
<1>2. ASSUME NEW c \in 1 .. MaxClaims, SettleClaim(c), claim[c].amount \in Int,
             SettledPaid' = SettledPaid + claim[c].amount
      PROVE  EveryPayoutBooked'
  <2>1. CP!PayoutClaim(claim[c].claimant, claim[c].amount)
    BY <1>2, SamePool DEF SettleClaim
  <2>2. VotedPaid' = VotedPaid
    <3>1. Executed("payout")' = Executed("payout") /\ carried' = carried
      BY <1>2, Decision DEF Executed, govVars
    <3> QED
      BY <3>1 DEF VotedPaid
  <2>3. claimsPaid' = claimsPaid + claim[c].amount
    BY <1>p, <2>1
  <2>4. claimsPaid' >= SettledPaid' + VotedPaid'
    BY <1>b, <1>p, <1>2, <2>2, <2>3
  <2> QED
    BY <2>4 DEF EveryPayoutBooked, SettledPaid, VotedPaid
<1>3. ASSUME NEW x \in Int, NEW r, CP!PayoutClaim(r, x), UNCHANGED claimVars,
             VotedPaid' = VotedPaid + x
      PROVE  EveryPayoutBooked'
  <2>1. SettledPaid' = SettledPaid
    BY <1>3, SettledSame DEF claimVars
  <2>2. claimsPaid' = claimsPaid + x
    BY <1>p, <1>3
  <2>3. claimsPaid' >= SettledPaid' + VotedPaid'
    BY <1>b, <1>p, <1>3, <2>1, <2>2
  <2> QED
    BY <2>3 DEF EveryPayoutBooked, SettledPaid, VotedPaid
<1>4. SettledPaid' = SettledPaid \/ \E c \in 1 .. MaxClaims :
        /\ SettleClaim(c) /\ claim[c].amount \in Int
        /\ SettledPaid' = SettledPaid + claim[c].amount
  BY <1>a, SettledStep
<1>5. VotedPaid' = VotedPaid \/ \E x \in Int : \E r :
        CP!PayoutClaim(r, x) /\ UNCHANGED claimVars /\ VotedPaid' = VotedPaid + x
  BY <1>a, VotedStep
<1> QED
  BY <1>1, <1>2, <1>3, <1>4, <1>5

-----------------------------------------------------------------------------
(* The suite is deployed with nothing on record.                           *)
LEMMA InitSuiteIInv == SuiteAssumption /\ Init => SuiteIInv
<1> SUFFICES ASSUME SuiteAssumption, Init PROVE SuiteIInv
  OBVIOUS
<1>1. /\ CP!ClockInit /\ CP!PoolInit /\ CP!PolicyInit /\ CP!ClaimsInit /\ CP!GovInit
      /\ carried = [id \in 1 .. MaxProposals |-> NoAction]
  BY SamePool, SamePolicy, SameClaims, SameGovernance DEF Init, ClockInit, CP!ClockInit
<1>2. EachContract
  BY <1>1, CP!InitPoolIInv, CP!InitPolicyType, CP!InitClaimsIInv, CP!InitGovIInv
     DEF SuiteAssumption, EachContract
<1>3. Agreements
  <2>1. policyCounter = 0 /\ claimCounter = 0 /\ \A id \in 1 .. MaxProposals : ~proposal[id].exists
    BY <1>1 DEF CP!PolicyInit, CP!ClaimsInit, CP!GovInit, CP!NoProposal, CP!ProposalId
  <2> QED
    BY <1>1, <2>1 DEF Agreements, PoliciesHaveHolders, ClaimsFollowPolicies, ActionsCarried
<1>4. Settled = {} /\ \A call : Executed(call) = {}
  BY <1>1 DEF Settled, Executed, CP!ClaimsInit, CP!NoClaim, CP!ClaimId, CP!GovInit,
              CP!NoProposal, CP!ProposalId
<1>5. ApprovalTookEffect
  BY <1>4 DEF ApprovalTookEffect
<1>6. EveryPayoutBooked
  <2>1. \A f : DOMAIN f = {} => SumFunction(f) = 0
    BY SumEmpty DEF SumFunction
  <2>2. /\ SumFunction([c \in Settled |-> claim[c].amount]) = 0
        /\ SumFunction([id \in Executed("payout") |-> carried[id].amount]) = 0
    BY <1>4, <2>1
  <2>3. claimsPaid = 0
    BY <1>1 DEF CP!PoolInit
  <2> QED
    BY <2>2, <2>3 DEF EveryPayoutBooked
<1> QED
  BY <1>2, <1>3, <1>5, <1>6 DEF SuiteIInv

(* Every transaction of the suite keeps its invariant.                     *)
LEMMA NextSuiteIInv == SuiteAssumption /\ SuiteIInv /\ [Next]_vars => SuiteIInv'
<1> SUFFICES ASSUME SuiteAssumption, SuiteIInv, [Next]_vars PROVE SuiteIInv'
  OBVIOUS
<1>1. EachContract /\ Agreements
  BY DEF SuiteIInv
<1>2. EachContract'
  BY <1>1, KeepEachContract
<1>3. Agreements'
  <2>1. PoliciesHaveHolders' /\ ClaimsFollowPolicies' /\ ActionsCarried'
    BY <1>1, KeepFollowing, ExecutedStep
  <2> QED
    BY <2>1 DEF Agreements
<1>4. ApprovalTookEffect' /\ EveryPayoutBooked'
  BY KeepApprovals, KeepBooked
<1> QED
  BY <1>2, <1>3, <1>4 DEF SuiteIInv

(* The suite's invariant holds in every behaviour.                         *)
THEOREM SuiteInvariance == ASSUME SuiteAssumption PROVE Spec => []SuiteIInv
<1>1. SuiteIInv /\ [Next]_vars => SuiteIInv'
  BY NextSuiteIInv
<1> QED
  BY InitSuiteIInv, <1>1, PTL DEF Spec

(* The pool can pay what it reports, its books balance and its capital is  *)
(* the sum of the stakes, whoever draws on it; and each claim is its       *)
(* policy's holder's, within that policy's cover, and locks that policy    *)
(* alone.                                                                  *)
THEOREM ContractsAgree == ASSUME SuiteAssumption PROVE Spec => []SuiteAgrees
<1>1. SuiteIInv => SuiteAgrees
  <2> SUFFICES ASSUME SuiteIInv PROVE SuiteAgrees
    OBVIOUS
  <2>1. PoolSolvent
    <3>1. RP!StakesTotal <=> CP!StakesTotal
      BY DEF RP!StakesTotal, CP!StakesTotal, RP!SumFunctionOnSet, CP!SumFunctionOnSet,
             RP!FoldFunctionOnSet, CP!FoldFunctionOnSet, RP!MapThenFoldSet, CP!MapThenFoldSet
    <3> QED
      BY <3>1 DEF PoolSolvent, SuiteIInv, EachContract, CP!PoolIInv, RP!Solvent, CP!Solvent,
                  RP!BooksBalance, CP!BooksBalance
  <2>2. ClaimMatchesPolicy
    <3> SUFFICES ASSUME NEW c \in 1 .. claimCounter
                 PROVE  /\ claim[c].policy \in 1 .. policyCounter
                        /\ policy[claim[c].policy].holder = claim[c].claimant
                        /\ claim[c].amount <= policy[claim[c].policy].coverage
                        /\ \A p \in 1 .. MaxPolicies :
                             activeClaim[p] = c <=> claim[c].policy = p /\ Clm!IsOpen(c)
      BY DEF ClaimMatchesPolicy
    <3>1. /\ claim[c].policy \in 1 .. policyCounter
          /\ policy[claim[c].policy].holder = claim[c].claimant
          /\ claim[c].amount <= policy[claim[c].policy].coverage
      BY DEF SuiteIInv, Agreements, ClaimsFollowPolicies
    <3>2. c \in CP!ClaimId
      BY SuiteAssumption
         DEF SuiteIInv, EachContract, CP!ClaimsIInv, CP!ClaimsTypeOK, CP!ClaimId,
             SuiteAssumption, CP!ClaimsAssumption
    <3>3. \A p \in 1 .. MaxPolicies : activeClaim[p] = c <=> claim[c].policy = p /\ Clm!IsOpen(c)
      BY <3>2, SameClaims DEF SuiteIInv, EachContract, CP!ClaimsIInv, CP!LockMatchesOpenClaim
    <3> QED
      BY <3>1, <3>3
  <2> QED
    BY <2>1, <2>2 DEF SuiteAgrees
<1> QED
  BY SuiteInvariance, <1>1, PTL

(* The pool never pays less than what claims and proposals record as paid. *)
THEOREM PayoutsAreBooked == ASSUME SuiteAssumption PROVE Spec => []EveryPayoutBooked
<1>1. SuiteIInv => EveryPayoutBooked
  BY DEF SuiteIInv
<1> QED
  BY SuiteInvariance, <1>1, PTL

(* An executed approval has approved its claim, and no other approval of   *)
(* that claim was executed.                                                *)
THEOREM ApprovalIsOnce == ASSUME SuiteAssumption PROVE Spec => []ApprovalTookEffect
<1>1. SuiteIInv => ApprovalTookEffect
  BY DEF SuiteIInv
<1> QED
  BY SuiteInvariance, <1>1, PTL

-----------------------------------------------------------------------------
(* The suite implements the pool: whatever claims, voters and the admin do *)
(* to it, the pool behaves as it is specified on its own.                  *)
THEOREM SuiteImplementsPool == ASSUME SuiteAssumption PROVE Spec => RP!PoolSpec
<1>1. Init => RP!PoolInit
  BY DEF Init
<1>2. SuiteIInv /\ [Next]_vars => [RP!PoolNext]_(RP!poolVars)
  <2> SUFFICES ASSUME SuiteIInv, [Next]_vars PROVE [RP!PoolNext]_(RP!poolVars)
    OBVIOUS
  <2>1. [CP!PoolNext]_poolVars
    BY PoolStep DEF SuiteIInv
  <2> QED
    BY <2>1, SamePool DEF poolVars, RP!poolVars
<1> QED
  BY SuiteInvariance, <1>1, <1>2, PTL DEF Spec, RP!PoolSpec

(* The suite implements the policy contract.                               *)
THEOREM SuiteImplementsPolicy == Spec => Pol!PolicySpec
<1>1. Init => Pol!ClockInit /\ Pol!PolicyInit
  BY DEF Init, ClockInit, Pol!ClockInit
<1>2. [Next]_vars => [Pol!PolicyNext]_(Pol!policyClockVars)
  BY PolicyStep, SamePolicy
     DEF Pol!PolicyNext, CP!PolicyNext, Pol!policyClockVars, CP!policyClockVars, Pol!policyVars,
         CP!policyVars
<1> QED
  BY <1>1, <1>2, PTL DEF Spec, Pol!PolicySpec

(* The suite implements governance: to call the claims contract or the     *)
(* pool changes nothing in what voting and executing mean.                 *)
THEOREM SuiteImplementsGovernance == Spec => Gov!GovSpec
<1>1. Init => Gov!ClockInit /\ Gov!GovInit
  BY DEF Init, ClockInit, Gov!ClockInit
<1>2. [Next]_vars => [Gov!GovNext]_(Gov!govClockVars)
  BY GovStep, SameGovernance DEF Gov!govClockVars, CP!govClockVars, Gov!govVars, CP!govVars
<1> QED
  BY <1>1, <1>2, PTL DEF Spec, Gov!GovSpec
=============================================================================
