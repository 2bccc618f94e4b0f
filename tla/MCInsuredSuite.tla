--------------------------- MODULE MCInsuredSuite ---------------------------
(* One account that insures, provides liquidity and votes, for TLC.        *)
EXTENDS InsuredSuite

CONSTANTS u1, pool

MCUsers == {u1}
MCAmounts == {1}
MCDurations == {1}
MCThresholds == {50}

ASSUME /\ RP!RiskPoolAssumption /\ Pol!PolicyAssumption
       /\ Clm!ClaimsAssumption /\ Gov!GovernanceAssumption

(* The short names the callers use, and what the repository exports.       *)
ShortNames == {"get_stats", "payout", "approve"}
PoolFunctions == {"initialize", "deposit_liquidity", "withdraw_liquidity",
                  "payout_claim", "get_pool_stats", "get_provider_info"}
ClaimsFunctions == {"initialize", "submit_claim", "start_review", "approve_claim",
                    "reject_claim", "settle_claim", "get_claim", "get_stats"}
=============================================================================
