----------------------------- MODULE MCInsurance -----------------------------
(***************************************************************************)
(* The ink! insurance contract, for TLC, seen from its sides: liquidity of *)
(* a pool, the terms of its policies, the claims on them, their evidence,  *)
(* and administration.                                                     *)
(*                                                                         *)
(* InsurancePool holds a payout as an amount, InsuranceClaims a pool as    *)
(* the capital left in it, and neither reads a role that InsuranceAdmin    *)
(* moves: each side is explored by itself, and `side' says which one a     *)
(* behaviour is about.  Claims are explored on one policy; the terms, with *)
(* two policies at a time, while nobody claims.  A pause only forbids:     *)
(* whatever a paused pool or claim does it may do unpaused too, so these   *)
(* two sides are explored without one.                                     *)
(***************************************************************************)
EXTENDS InsuranceAdmin, InsurancePool, InsuranceClaims, Evidence, TLC

CONSTANTS p1, p2,       \* liquidity providers
          h1, h2,       \* policyholders; h1 is also an assessor
          photo, report, \* pieces of evidence
          deployer, other \* accounts the administration is about

VARIABLE side

MCVestingConfigs == {[cliff |-> 1, duration |-> 2, penalty |-> 4]}
MCBatchLists == {<<1, 2>>, <<2, 2>>, <<1, 2, 2>>}
MCClaimant == <<"claimant", "assessor">>

ASSUME InsuranceAssumption ==
       /\ InsurancePoolAssumption /\ InsuranceClaimsAssumption
       /\ EvidenceAssumption /\ InsuranceAdminAssumption

poolVars == <<pool, provider, money, ghosts>>
claimVars == <<submission, issue, ledger>>
roleVars == <<roles, pauseAfter, transferVars, notice>>
allVars == <<side, now, paused, poolVars, claimVars, roleVars, evidenceVars>>

MCInit ==
  /\ side \in {"Pool", "Terms", "Claims", "Admin", "Evidence"}
  /\ LiquidityInit /\ CoverInit /\ AdminInit /\ EvidenceInit

MCNext ==
  /\ UNCHANGED side
  /\ \/ /\ side = "Pool" /\ LiquidityNext /\ ~paused'
        /\ UNCHANGED <<claimVars, roleVars, evidenceVars>>
     \/ /\ CoverNext
        /\ \/ side = "Terms" /\ claimCount' = 0
           \/ side = "Claims" /\ policyCount' <= 1 /\ ~paused'
        /\ UNCHANGED <<poolVars, roleVars, evidenceVars>>
     \/ side = "Admin" /\ AdminNext /\ UNCHANGED <<poolVars, claimVars, evidenceVars>>
     \/ /\ side = "Evidence" /\ EvidenceNext
        /\ UNCHANGED <<now, paused, poolVars, claimVars, roleVars>>

MCSpec == MCInit /\ [][MCNext]_allVars

(* Nothing tells the two providers apart, nor two pieces of evidence.      *)
Symmetry == Permutations({p1, p2}) \union Permutations({photo, report})

-----------------------------------------------------------------------------
(* The storage keeps its type: no unsigned number falls below zero.        *)
StorageTypeOK == AdminTypeOK /\ LiquidityTypeOK /\ CoverTypeOK /\ EvidenceTypeOK
=============================================================================
