----------------------------- MODULE Governance -----------------------------
(***************************************************************************)
(* The Soroban governance contract (contracts/governance/src/lib.rs).      *)
(*                                                                         *)
(* Anybody proposes; anybody votes once, with the weight they name; after  *)
(* the voting period anybody finalizes and then executes a proposal that   *)
(* met its threshold.  A proposal may carry a pending action: a call the   *)
(* execution makes to another contract.  Actions are opaque here; in       *)
(* InsuredSuite they are calls to the claims contract and the risk pool.   *)
(* When such a call traps the execution does not happen at all.            *)
(***************************************************************************)
EXTENDS LedgerClock, FiniteSetsExt

CONSTANTS Voters,        \* accounts that vote
          Weights,       \* the i128 weights a voter may pass
          Thresholds,    \* threshold percentages a creator may pass
          GovActions,    \* the calls a proposal may carry
          NoAction,      \* no GovernanceActionPending entry
          VotingPeriod,  \* the voting_period given to initialize
          MaxProposals,  \* bound: proposals created
          I128Half       \* 2^127 in the code: vote arithmetic wraps at it

(* What is assumed of the constants.                                       *)
GovernanceAssumption ==
  /\ IsFiniteSet(Voters)
  /\ NoAction \notin GovActions
  /\ I128Half \in Nat \ {0}
  /\ Weights \subseteq -I128Half .. I128Half - 1
  /\ Thresholds \subseteq Nat
  /\ {VotingPeriod, MaxProposals, MaxTime} \subseteq Nat

VARIABLES proposalCounter,  \* ProposalCounter
          proposal,         \* Proposal(id)
          voteOf,           \* VoterRecord(id, voter)
          pending           \* GovernanceActionPending(id)

govVars == <<proposalCounter, proposal, voteOf, pending>>
govClockVars == <<now, govVars>>

ProposalId == 1 .. MaxProposals
NoProposal == [expires_at |-> 0, threshold |-> 0, yes |-> 0, no |-> 0,
               exists |-> FALSE, finalized |-> FALSE, executed |-> FALSE]
NoVote == [weight |-> 0, cast |-> "none"]

GovInit ==
  /\ proposalCounter = 0
  /\ proposal = [id \in ProposalId |-> NoProposal]
  /\ voteOf = [id \in ProposalId |-> [v \in Voters |-> NoVote]]
  /\ pending = [id \in ProposalId |-> NoAction]

-----------------------------------------------------------------------------
(* i128 arithmetic: it wraps (the release profile has overflow checks off) *)
(* and division truncates towards zero.                                    *)
I128(x) == ((x + I128Half) % (2 * I128Half)) - I128Half
Abs(x) == IF x < 0 THEN -x ELSE x
Quotient(a, b) ==
  IF (a < 0) = (b < 0) THEN Abs(a) \div Abs(b) ELSE -(Abs(a) \div Abs(b))

TotalVotes(p) == I128(p.yes + p.no)

(* The smallest i128 divided by -1 traps, whatever the profile.            *)
Passed(p) ==
  /\ TotalVotes(p) # 0
  /\ ~(TotalVotes(p) = -1 /\ I128(p.yes * 100) = -I128Half)
  /\ Quotient(I128(p.yes * 100), TotalVotes(p)) >= p.threshold

(* create_proposal and create_slashing_proposal carry no action; the       *)
(* claim-approval and fund-allocation proposals carry one.                 *)
CreateProposal(threshold, action) ==
  /\ proposalCounter < MaxProposals
  /\ LET id == proposalCounter + 1
     IN /\ proposalCounter' = id
        /\ proposal' = [proposal EXCEPT ![id] =
             [NoProposal EXCEPT !.expires_at = now + VotingPeriod,
                                !.threshold = threshold, !.exists = TRUE]]
        /\ pending' = [pending EXCEPT ![id] = action]
  /\ UNCHANGED voteOf

(* Mutant: a voter may vote again.                                         *)
VotesAgain(id, v) == proposal[id].exists

VotingOpen(id) == proposal[id].exists /\ now <= proposal[id].expires_at
HasNotVoted(id, v) == voteOf[id][v] = NoVote

Vote(v, id, weight, is_yes) ==
  /\ VotingOpen(id)
  /\ HasNotVoted(id, v)
  /\ proposal' = IF is_yes THEN [proposal EXCEPT ![id].yes = I128(@ + weight)]
                           ELSE [proposal EXCEPT ![id].no = I128(@ + weight)]
  /\ voteOf' = [voteOf EXCEPT ![id][v] =
                 [weight |-> weight, cast |-> IF is_yes THEN "yes" ELSE "no"]]
  /\ UNCHANGED <<proposalCounter, pending>>

(* Mutant: finalize is possible in the last instant of the voting period.  *)
VotingOverEarly(id) == proposal[id].exists /\ now >= proposal[id].expires_at

VotingOver(id) == proposal[id].exists /\ now > proposal[id].expires_at

FinalizeProposal(id) ==
  /\ VotingOver(id)
  /\ proposal' = [proposal EXCEPT ![id].finalized = TRUE]
  /\ UNCHANGED <<proposalCounter, voteOf, pending>>

(* Mutant: an execution does not wait for the finalize.                    *)
CanExecuteUnfinalized(p) == ~p.executed /\ Passed(p)

CanExecute(p) == p.finalized /\ ~p.executed /\ Passed(p)

ActionsAfterExecute(id) == [pending EXCEPT ![id] = NoAction]

(* The call of the pending action is conjoined by the composition.         *)
ExecuteProposal(id) ==
  /\ CanExecute(proposal[id])
  /\ pending' = ActionsAfterExecute(id)
  /\ proposal' = [proposal EXCEPT ![id].executed = TRUE]
  /\ UNCHANGED <<proposalCounter, voteOf>>

GovTransaction ==
  /\ UNCHANGED now
  /\ \/ \E t \in Thresholds, a \in GovActions \union {NoAction} : CreateProposal(t, a)
     \/ \E id \in ProposalId :
          \/ \E v \in Voters, w \in Weights, y \in BOOLEAN : Vote(v, id, w, y)
          \/ FinalizeProposal(id)
          \/ ExecuteProposal(id)

GovTick == ClockTicks /\ UNCHANGED govVars

GovNext == GovTransaction \/ GovTick
GovSpec == ClockInit /\ GovInit /\ [][GovNext]_govClockVars

-----------------------------------------------------------------------------
I128Values == -I128Half .. I128Half - 1

GovTypeOK ==
  /\ now \in 0 .. MaxTime
  /\ proposalCounter \in 0 .. MaxProposals
  /\ proposal \in [ProposalId ->
       [expires_at : 0 .. MaxTime + VotingPeriod, threshold : Thresholds \union {0},
        yes : I128Values, no : I128Values,
        exists : BOOLEAN, finalized : BOOLEAN, executed : BOOLEAN]]
  /\ voteOf \in [ProposalId -> [Voters ->
       [weight : Weights \union {0}, cast : {"none", "yes", "no"}]]]
  /\ pending \in [ProposalId -> GovActions \union {NoAction}]
  /\ \A id \in ProposalId : proposal[id].exists <=> id <= proposalCounter

(* The tally a decision rests on is the votes on record, each counted      *)
(* once, and never a vote that left no record.                             *)
CastFor(id, side) == {v \in Voters : voteOf[id][v].cast = side}
WeightOf(id, side) ==
  SumFunctionOnSet([v \in Voters |-> voteOf[id][v].weight], CastFor(id, side))
TallyMatchesRecords ==
  \A id \in ProposalId :
    /\ proposal[id].yes = I128(WeightOf(id, "yes"))
    /\ proposal[id].no = I128(WeightOf(id, "no"))

(* The outcome stands: once a proposal is finalized no vote arrives any    *)
(* more, so an execution that was refused for its tally stays refused.     *)
OutcomeStands ==
  [][\A id \in ProposalId :
       proposal[id].finalized =>
         /\ proposal'[id].finalized
         /\ Passed(proposal'[id]) = Passed(proposal[id])
         /\ voteOf'[id] = voteOf[id]]_govClockVars

(* What was executed had been finalized after its voting period and had    *)
(* met its threshold.                                                      *)
ExecutedMetThreshold ==
  \A id \in ProposalId :
    proposal[id].executed =>
      /\ proposal[id].finalized
      /\ now > proposal[id].expires_at
      /\ Passed(proposal[id])

=============================================================================
