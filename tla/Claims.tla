------------------------------- MODULE Claims -------------------------------
(***************************************************************************)
(* The Soroban claims contract (contracts/claims/src/lib.rs).              *)
(*                                                                         *)
(* A holder submits a claim on a policy; the admin reviews it, approves or *)
(* rejects it, and settles what was approved.  PolicyActiveClaim is the    *)
(* lock that keeps a policy to one open claim.                             *)
(*                                                                         *)
(* What the policy contract and the risk pool answer to the calls made     *)
(* here are parameters of the actions.  On its own the module lets them    *)
(* answer anything; InsuredSuite connects them to the modelled contracts.  *)
(***************************************************************************)
EXTENDS Integers

CONSTANTS PolicyIds,    \* policy ids the policy contract may hand out
          Claimants,    \* policyholders
          ClaimAmounts,      \* the i128 amounts a holder may claim
          MaxClaims     \* bound: claims submitted

(* What is assumed of the constants.                                       *)
ClaimsAssumption == ClaimAmounts \subseteq Int /\ MaxClaims \in Nat

VARIABLES claimCounter,  \* ClaimCounter
          claim,         \* Claim(id)
          activeClaim    \* PolicyActiveClaim(policy), NoClaimId when absent

claimVars == <<claimCounter, claim, activeClaim>>

ClaimId == 1 .. MaxClaims
NoClaimId == 0
NoClaimant == "nobody"
NoPolicyId == 0
NoClaim == [policy |-> NoPolicyId, claimant |-> NoClaimant, amount |-> 0,
            status |-> "Absent"]

OpenStatuses == {"Submitted", "UnderReview", "Approved"}
Statuses == OpenStatuses \union {"Absent", "Rejected", "Settled"}

ClaimsInit ==
  /\ claimCounter = 0
  /\ claim = [c \in ClaimId |-> NoClaim]
  /\ activeClaim = [p \in PolicyIds |-> NoClaimId]

-----------------------------------------------------------------------------
Move(c, from, to) ==
  /\ c \in ClaimId
  /\ claim[c].status = from
  /\ claim' = [claim EXCEPT ![c].status = to]

LockFree(p) == activeClaim[p] = NoClaimId

ReleaseLock(p) == activeClaim' = [activeClaim EXCEPT ![p] = NoClaimId]

NextClaimId == claimCounter + 1

(* active, coverage and holder are the policy contract's answers.          *)
SubmitClaim(p, amount, active, coverage, holder) ==
  /\ claimCounter < MaxClaims
  /\ active
  /\ 0 < amount /\ amount <= coverage
  /\ LockFree(p)
  /\ claimCounter' = claimCounter + 1
  /\ claim' = [claim EXCEPT ![NextClaimId] =
                [policy |-> p, claimant |-> holder, amount |-> amount,
                 status |-> "Submitted"]]
  /\ activeClaim' = [activeClaim EXCEPT ![p] = NextClaimId]

StartReview(c) ==
  /\ Move(c, "Submitted", "UnderReview")
  /\ UNCHANGED <<claimCounter, activeClaim>>

ApproveClaim(c) ==
  /\ Move(c, "UnderReview", "Approved")
  /\ UNCHANGED <<claimCounter, activeClaim>>

(* Mutant: a rejected claim keeps its policy locked.                       *)
RejectKeepingLock(c) ==
  /\ Move(c, "UnderReview", "Rejected")
  /\ UNCHANGED <<claimCounter, activeClaim>>

RejectClaim(c) ==
  /\ Move(c, "UnderReview", "Rejected")
  /\ ReleaseLock(claim[c].policy)
  /\ UNCHANGED claimCounter

(* Mutant: a pool that has just the amount does not do.                    *)
CoversMore(c, available) == available > claim[c].amount

Covers(c, available) == available >= claim[c].amount

(* available is what the pool reports; the payout itself is the pool's.    *)
SettleClaim(c, available) ==
  /\ Move(c, "Approved", "Settled")
  /\ Covers(c, available)
  /\ ReleaseLock(claim[c].policy)
  /\ UNCHANGED claimCounter

ClaimsNext ==
  \/ \E p \in PolicyIds, amount, coverage \in ClaimAmounts, active \in BOOLEAN, h \in Claimants :
       SubmitClaim(p, amount, active, coverage, h)
  \/ \E c \in ClaimId :
       \/ StartReview(c)
       \/ ApproveClaim(c)
       \/ RejectClaim(c)
       \/ \E available \in ClaimAmounts : SettleClaim(c, available)

ClaimsSpec == ClaimsInit /\ [][ClaimsNext]_claimVars

-----------------------------------------------------------------------------
ClaimExists(c) == claim[c].status # "Absent"
IsOpen(c) == claim[c].status \in OpenStatuses

(* Claim ids are dense: the counter never passes over or reuses an id.     *)
ClaimsTypeOK ==
  /\ claimCounter \in 0 .. MaxClaims
  /\ claim \in [ClaimId ->
       [policy : PolicyIds \union {NoPolicyId},
        claimant : Claimants \union {NoClaimant},
        amount : ClaimAmounts \union {0}, status : Statuses]]
  /\ activeClaim \in [PolicyIds -> ClaimId \union {NoClaimId}]
  /\ \A c \in ClaimId :
       /\ ClaimExists(c) <=> c <= claimCounter
       /\ ClaimExists(c) => claim[c].policy \in PolicyIds

(* The lock is "Present only while a claim is active (Submitted /          *)
(* UnderReview / Approved). Cleared on Rejected or Settled": it points at  *)
(* c exactly when c is open, whatever the order of the admin's decisions.  *)
LockMatchesOpenClaim ==
  \A c \in ClaimId, p \in PolicyIds :
    activeClaim[p] = c <=> claim[c].policy = p /\ IsOpen(c)

(* A policy never has two open claims at once.                             *)
OneOpenClaimPerPolicy ==
  \A c, d \in ClaimId :
    IsOpen(c) /\ IsOpen(d) /\ claim[c].policy = claim[d].policy => c = d

=============================================================================
