----------------------------- MODULE MCContracts -----------------------------
(***************************************************************************)
(* The Soroban insurance contracts, and the ink! contracts for fees,       *)
(* valuations and compliance, one by one, for TLC: two users, small        *)
(* amounts (zero and a negative one among them), widths at which the       *)
(* arithmetic of the code wraps.                                           *)
(*                                                                         *)
(* Each contract keeps its own storage.  Taken on its own - what others    *)
(* answer to it is arbitrary - it needs no interleaving with the others:   *)
(* `subject' says which of them a behaviour is about.  How they call each  *)
(* other is InsuredSuite's.                                                *)
(***************************************************************************)
EXTENDS RiskPool, Policy, Claims, Governance, Slashing, Fractional,
        Fees, Oracle, Compliance, ZkCompliance, IpfsMetadata, TLC

CONSTANTS u1, u2, pool, none

VARIABLE subject

Accounts == {u1, u2}
Signed == -1 .. 2
VoteWeights == {-1, 6}

(* A fee of 20 that congestion moves between 19 and 21; 21 leaves a rest.  *)
MCFirstConfig == [base |-> 20, min |-> 19, max |-> 21, sensitivity |-> 80, demand |-> 500]
MCOpConfigs == {[base |-> 5, min |-> 0, max |-> 9, sensitivity |-> 100, demand |-> 0]}
MCShareRates == {<<10000, 0>>}

(* Three sources of different kinds, whose prices are a few units apart.   *)
MCFeedOf == [s \in {"chain", "manual", "ai"} |->
               CASE s = "chain"  -> [kind |-> "Feed",    base |-> 9, slope |-> 1]
                 [] s = "manual" -> [kind |-> "Manual",  base |-> 9, slope |-> 0]
                 [] s = "ai"     -> [kind |-> "AIModel", base |-> 9, slope |-> 1]]
MCSourceConfigs == {[weight |-> 0, active |-> TRUE], [weight |-> 3, active |-> FALSE]}

(* One jurisdiction with rules and one without; evidence of levels 3 and 4.*)
MCKycFirstRules == [j \in {"EU", "Other"} |->
                      IF j = "EU" THEN [level |-> 3, retention |-> 1] ELSE none]
MCKycRuleChanges == {[level |-> 4, retention |-> 0]}
MCKycEvidence == {[document |-> 2, biometric |-> 0, score |-> 50],
                  [document |-> 2, biometric |-> 3, score |-> 81]}

(* A proof that is still valid after a tick and one that is not.           *)
MCSelfVerified == {[type |-> "income", validity |-> 1], [type |-> "income", validity |-> 0]}

(* Identifiers of both versions, and one that is neither; rules that leave *)
(* room for two documents and their sizes, and rules that do not.          *)
MCCids == {[form |-> "Qm", length |-> 46], [form |-> "b", length |-> 10],
           [form |-> "other", length |-> 46]}
MCMetadata == {[size |-> 1, valuation |-> 1, cids |-> {[form |-> "b", length |-> 10]}]}
MCIpfsFirstRules == [minSize |-> 1, maxSize |-> 2, minValuation |-> 1, maxFile |-> 2,
                     mimes |-> {}, maxDocuments |-> 2, maxPinned |-> 3]
MCIpfsRuleChanges == {[minSize |-> 2, maxSize |-> 2, minValuation |-> 1, maxFile |-> 1,
                       mimes |-> {"doc"}, maxDocuments |-> 1, maxPinned |-> 1]}

(* Bound: the ink! contracts are checked over one tick of the clock.       *)
InkMaxTime == 1

ASSUME ContractsAssumption ==
       /\ RiskPoolAssumption /\ PolicyAssumption /\ ClaimsAssumption
       /\ GovernanceAssumption /\ SlashingAssumption /\ FractionalAssumption
       /\ FeesAssumption /\ OracleAssumption /\ ComplianceAssumption
       /\ ZkAssumption /\ IpfsAssumption

sorobanVars == <<poolVars, policyVars, claimVars, govVars, slashVars>>
inkVars == <<feeVars, oracleVars, complianceVars, zkVars, ipfsVars, fracVars>>
allVars == <<subject, now, sorobanVars, inkVars>>

MCInit ==
  /\ subject \in {"RiskPool", "Policy", "Claims", "Governance", "Slashing",
                  "Fees", "Auctions", "Prices", "Valuations",
                  "Checks", "Registry", "Proofs", "Privacy", "Documents", "Access", "Fractions"}
  /\ ClockInit /\ PoolInit /\ PolicyInit /\ ClaimsInit /\ GovInit /\ SlashInit
  /\ FeesInit /\ OracleInit /\ ComplianceInit /\ ZkInit
  /\ IpfsInit /\ FracInit

SorobanNext ==
  \/ /\ subject = "RiskPool" /\ PoolNext
     /\ UNCHANGED <<now, policyVars, claimVars, govVars, slashVars>>
  \/ /\ subject = "Policy" /\ PolicyNext
     /\ UNCHANGED <<poolVars, claimVars, govVars, slashVars>>
  \/ /\ subject = "Claims" /\ ClaimsNext
     /\ UNCHANGED <<now, poolVars, policyVars, govVars, slashVars>>
  \/ /\ subject = "Governance" /\ GovNext
     /\ UNCHANGED <<poolVars, policyVars, claimVars, slashVars>>
  \/ /\ subject = "Slashing" /\ SlashNext
     /\ UNCHANGED <<poolVars, policyVars, claimVars, govVars>>

(* Where two groups of a contract's operations do not depend on each       *)
(* other, each is a subject, with the operations both depend on.           *)
InkNext ==
  \/ /\ \/ subject = "Auctions" /\ AuctionNext /\ UNCHANGED now
        \/ subject = "Fees" /\ BooksNext /\ UNCHANGED now
        \/ subject \in {"Auctions", "Fees"} /\ FeesTick
     /\ UNCHANGED <<oracleVars, complianceVars, zkVars, ipfsVars, fracVars>>
  \/ /\ \/ subject = "Prices" /\ PricesNext /\ UNCHANGED now
        \/ subject = "Valuations" /\ ValuationsNext /\ UNCHANGED now
        \/ subject = "Valuations" /\ OracleTick
     /\ UNCHANGED <<feeVars, complianceVars, zkVars, ipfsVars, fracVars>>
  \/ /\ \/ subject = "Checks" /\ ChecksNext /\ UNCHANGED now
        \/ subject = "Registry" /\ RequestsNext /\ UNCHANGED now
        \/ subject \in {"Checks", "Registry"} /\ ComplianceTick
     /\ UNCHANGED <<feeVars, oracleVars, zkVars, ipfsVars, fracVars>>
  \/ /\ \/ subject = "Proofs" /\ ProofsNext /\ UNCHANGED now
        \/ subject = "Privacy" /\ PrivacyNext /\ UNCHANGED now
        \/ subject \in {"Proofs", "Privacy"} /\ ZkTick
     /\ UNCHANGED <<feeVars, oracleVars, complianceVars, ipfsVars, fracVars>>
  \/ /\ \/ /\ \/ subject = "Documents" /\ UNCHANGED <<now, access>> /\ RegistryNext
              \/ /\ subject = "Access" /\ UNCHANGED ipfsRules
                 /\ IpfsNext /\ documentCount' <= 1
                 /\ \A p \in {1, 2} : access'[p]["registrar"] = "None"
           /\ UNCHANGED fracVars
        \/ subject = "Fractions" /\ FracNext /\ UNCHANGED <<now, ipfsVars>>
     /\ UNCHANGED <<feeVars, oracleVars, complianceVars, zkVars>>

MCNext ==
  /\ UNCHANGED subject
  /\ \/ SorobanNext /\ UNCHANGED inkVars
     \/ InkNext /\ now' <= InkMaxTime /\ UNCHANGED sorobanVars

MCSpec == MCInit /\ [][MCNext]_allVars

(* Neither user is told apart by any of the contracts on its own.          *)
Symmetry == Permutations(Accounts)

-----------------------------------------------------------------------------
(* Every contract's storage keeps its type: ids are dense, a u32 stays one.*)
StorageTypeOK ==
  /\ PoolTypeOK /\ ClaimsTypeOK /\ PolicyTypeOK /\ GovTypeOK /\ SlashTypeOK
  /\ FeesTypeOK /\ OracleTypeOK /\ ComplianceTypeOK /\ ZkTypeOK
  /\ IpfsTypeOK /\ FracTypeOK
=============================================================================
