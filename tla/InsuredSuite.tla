---------------------------- MODULE InsuredSuite ----------------------------
(***************************************************************************)
(* The Soroban suite deployed together: claims asks the policy contract    *)
(* whether a policy is active, settles through the risk pool, and          *)
(* governance executes decisions on both.  A call from one contract to     *)
(* another is part of the caller's transaction, so it is a conjunct of the *)
(* caller's action: when the callee traps the caller does not happen.      *)
(*                                                                         *)
(* The callers name the function they invoke with a short symbol; the call *)
(* traps unless the callee exports that name.  PoolExports, ClaimsExports  *)
(* say what the deployed contracts answer to.  One admin account signs for *)
(* all contracts.                                                          *)
(***************************************************************************)
EXTENDS LedgerClock, FiniteSetsExt

CONSTANTS Users, Pool, Amounts, MinStake, Funds, MaxPaid,         \* RiskPool
          MaxPolicies, Coverages, Durations, U32,                 \* Policy
          MaxClaims,                                              \* Claims
          Voters, Weights, Thresholds, VotingPeriod, MaxProposals,
          I128Half, NoAction,                                     \* Governance
          PoolExports, ClaimsExports,
          MaxDirectPaid  \* bound: payouts the admin makes by hand stop here

VARIABLES policyCounter, policy, claimCounter, claim, activeClaim,
          stake, totalCapital, availableCapital, claimsPaid, balance,
          proposalCounter, proposal, voteOf, pending,
          carried        \* history: the action each proposal was created with

GovActions ==
  [call : {"approve"}, claim : 1 .. MaxClaims]
    \union [call : {"payout"}, recipient : Users, amount : Amounts]

Pol == INSTANCE Policy WITH Policyholders <- Users
Clm == INSTANCE Claims WITH PolicyIds <- 1 .. MaxPolicies, Claimants <- Users,
         ClaimAmounts <- Amounts
RP  == INSTANCE RiskPool
Gov == INSTANCE Governance

policyVars == <<policyCounter, policy>>
claimVars  == <<claimCounter, claim, activeClaim>>
poolVars   == <<stake, totalCapital, availableCapital, claimsPaid, balance>>
govVars    == <<proposalCounter, proposal, voteOf, pending, carried>>
vars       == <<now, policyVars, claimVars, poolVars, govVars>>

Init ==
  /\ ClockInit /\ Pol!PolicyInit /\ Clm!ClaimsInit /\ RP!PoolInit /\ Gov!GovInit
  /\ carried = [id \in 1 .. MaxProposals |-> NoAction]

-----------------------------------------------------------------------------
PolicyTransaction == Pol!PolicyTransaction /\ UNCHANGED <<claimVars, poolVars, govVars>>

SubmitClaim(p, amount) ==
  /\ p \in 1 .. policyCounter
  /\ Clm!SubmitClaim(p, amount, Pol!IsActive(p), policy[p].coverage, policy[p].holder)
  /\ UNCHANGED <<now, policyVars, poolVars, govVars>>

ReviewClaim(c) ==
  /\ Clm!StartReview(c)
  /\ UNCHANGED <<now, policyVars, poolVars, govVars>>

DecideClaim(c) ==
  /\ Clm!ApproveClaim(c) \/ Clm!RejectClaim(c)
  /\ UNCHANGED <<now, policyVars, poolVars, govVars>>

(* Mutant: the claim is marked settled and the pool is never called.       *)
SettleWithoutPayout(c) ==
  /\ Clm!SettleClaim(c, availableCapital)
  /\ UNCHANGED <<now, policyVars, poolVars, govVars>>

(* settle_claim invokes get_stats and then payout on the risk pool.        *)
SettleClaim(c) ==
  /\ {"get_stats", "payout"} \subseteq PoolExports
  /\ Clm!SettleClaim(c, availableCapital)
  /\ RP!PayoutClaim(claim[c].claimant, claim[c].amount)
  /\ UNCHANGED <<now, policyVars, govVars>>

Liquidity ==
  /\ \E p \in Users, x \in Amounts : RP!DepositLiquidity(p, x) \/ RP!WithdrawLiquidity(p, x)
  /\ UNCHANGED <<now, policyVars, claimVars, govVars>>

(* The admin pays from the pool without a claim.                           *)
DirectPayout(recipient, amount) ==
  /\ claimsPaid + amount <= MaxDirectPaid
  /\ RP!PayoutClaim(recipient, amount)
  /\ UNCHANGED <<now, policyVars, claimVars, govVars>>

Propose(threshold, action) ==
  /\ Gov!CreateProposal(threshold, action)
  /\ carried' = [carried EXCEPT ![proposalCounter + 1] = action]
  /\ UNCHANGED <<now, policyVars, claimVars, poolVars>>

VoteOrFinalize(id) ==
  /\ \/ \E v \in Voters, w \in Weights, y \in BOOLEAN : Gov!Vote(v, id, w, y)
     \/ Gov!FinalizeProposal(id)
  /\ UNCHANGED <<now, policyVars, claimVars, poolVars, carried>>

(* Mutant: the approval is executed without calling the claims contract.   *)
InvokeNothing(action) == UNCHANGED <<claimVars, poolVars>>

Invoke(action) ==
  CASE action = NoAction -> UNCHANGED <<claimVars, poolVars>>
    [] action # NoAction /\ action.call = "approve" ->
         /\ "approve" \in ClaimsExports
         /\ Clm!ApproveClaim(action.claim)
         /\ UNCHANGED poolVars
    [] action # NoAction /\ action.call = "payout" ->
         /\ "payout" \in PoolExports
         /\ RP!PayoutClaim(action.recipient, action.amount)
         /\ UNCHANGED claimVars

ExecuteProposal(id) ==
  /\ Gov!ExecuteProposal(id)
  /\ Invoke(pending[id])
  /\ UNCHANGED <<now, policyVars, carried>>

Tick == Pol!PolicyTick /\ UNCHANGED <<claimVars, poolVars, govVars>>

Next ==
  \/ PolicyTransaction
  \/ Liquidity
  \/ \E p \in 1 .. MaxPolicies, x \in Amounts : SubmitClaim(p, x)
  \/ \E c \in 1 .. MaxClaims : ReviewClaim(c) \/ DecideClaim(c) \/ SettleClaim(c)
  \/ \E u \in Users, x \in Amounts : DirectPayout(u, x)
  \/ \E t \in Thresholds, a \in GovActions : Propose(t, a)
  \/ \E id \in 1 .. MaxProposals : VoteOrFinalize(id) \/ ExecuteProposal(id)
  \/ Tick

Spec == Init /\ [][Next]_vars

(* The admin keeps working through the claims: every submitted claim is    *)
(* reviewed, every reviewed one decided, every approved one tried.         *)
AdminDiligence ==
  \A c \in 1 .. MaxClaims :
    WF_vars(ReviewClaim(c)) /\ WF_vars(DecideClaim(c)) /\ WF_vars(SettleClaim(c))

FairSpec == Spec /\ AdminDiligence

-----------------------------------------------------------------------------
Settled == {c \in 1 .. MaxClaims : claim[c].status = "Settled"}
Executed(call) ==
  {id \in 1 .. MaxProposals : proposal[id].executed /\ carried[id].call = call}

(* The pool can pay what it reports to settle_claim as available, its      *)
(* books agree with what was settled, and its capital is the sum of the    *)
(* stakes, whoever drew on it.                                             *)
PoolSolvent == RP!Solvent /\ RP!BooksBalance /\ RP!StakesTotal

(* Two contracts agree on a claim: it is the holder's, within the cover of *)
(* an issued policy, and only its policy is locked by it.                  *)
ClaimMatchesPolicy ==
  \A c \in 1 .. claimCounter :
    LET pol == policy[claim[c].policy]
    IN /\ claim[c].policy \in 1 .. policyCounter
       /\ pol.holder = claim[c].claimant
       /\ claim[c].amount <= pol.coverage
       /\ \A p \in 1 .. MaxPolicies :
            activeClaim[p] = c <=> claim[c].policy = p /\ Clm!IsOpen(c)

(* The contracts agree with each other on money and on claims.             *)
SuiteAgrees == PoolSolvent /\ ClaimMatchesPolicy

(* The pool never pays less than what claims and proposals record as paid, *)
(* whoever called it: settle_claim, execute_proposal or the admin.         *)
EveryPayoutBooked ==
  claimsPaid >= SumFunction([c \in Settled |-> claim[c].amount])
              + SumFunction([id \in Executed("payout") |-> carried[id].amount])

(* An executed approval has approved its claim, once: of two proposals for *)
(* a claim, or a proposal and the admin, only one can succeed.             *)
ApprovalTookEffect ==
  \A id \in Executed("approve") :
    /\ claim[carried[id].claim].status \in {"Approved", "Settled"}
    /\ \A other \in Executed("approve") :
         carried[other].claim = carried[id].claim => other = id

(* README: "settle_claim(claim_id) - Settle approved claims only,          *)
(* integrates with risk pool".  With a diligent admin a submitted claim    *)
(* ends rejected or settled, unless the pool runs short of its amount.     *)
ClaimIsClosed ==
  \A c \in 1 .. MaxClaims :
    claim[c].status = "Submitted" ~>
      \/ claim[c].status \in {"Rejected", "Settled"}
      \/ availableCapital < claim[c].amount
=============================================================================
