---------------------------- MODULE ZkCompliance ----------------------------
(***************************************************************************)
(* The ink! zero-knowledge compliance contract (contracts/zk-compliance/   *)
(* lib.rs): accounts submit proofs, approved verifiers decide them, an     *)
(* account may have some kinds accepted at once, and each step is entered  *)
(* in an audit log to which account and verifiers may add lines.           *)
(*                                                                         *)
(* Proofs are checked by no cryptography in the code: one passes unless    *)
(* its data is empty.  Public inputs and metadata are stored and, in the   *)
(* operations that change state, never read.                               *)
(***************************************************************************)
EXTENDS LedgerClock, Sequences, FiniteSets, Functions

CONSTANTS Provers,        \* accounts with proofs
          ZkVerifiers,    \* accounts the deployer may approve
          ProofTypes,     \* ZkProofType, as many as matter
          SelfVerified,   \* type and validity of each operation that
                          \* has a proof of the caller accepted at once
          ProofValidity,  \* 365 days
          PrivacyLevels, NoLevel,
          MaxProofs, MaxEntries \* bounds, of all accounts together

(* What is assumed of the constants.                                       *)
ZkAssumption ==
  /\ IsFiniteSet(Provers)
  /\ SelfVerified \subseteq [type : ProofTypes, validity : Nat]
  /\ PrivacyLevels \subseteq 0 .. 255 /\ NoLevel \notin 0 .. 255
  /\ {ProofValidity, MaxProofs, MaxEntries} \subseteq Nat

VARIABLES proof,             \* zk_proofs(account, id), ids being 1 .. proof_counter
          approvedVerifiers,
          zkData,            \* zk_compliance_data: ids noted and status
          entries,           \* audit_logs(account)
          stats,             \* verification_stats
          privacyLevel       \* privacy_preferences: the level

proofVars == <<proof, zkData, entries, stats>>
zkVars == <<proofVars, approvedVerifiers, privacyLevel>>

ZkInit ==
  /\ proof = [x \in Provers |-> <<>>]
  /\ approvedVerifiers = {}
  /\ zkData = [x \in Provers |-> [ids |-> <<>>, status |-> "NotSubmitted"]]
  /\ entries = [x \in Provers |-> <<>>]
  /\ stats = [total |-> 0, successful |-> 0, failed |-> 0]
  /\ privacyLevel = [x \in Provers |-> NoLevel]

-----------------------------------------------------------------------------
TotalLen(f) == SumFunctionOnSet([x \in Provers |-> Len(f[x])], Provers)

Entry(type, status, action) == [type |-> type, status |-> status, action |-> action]

Log(x, lines) ==
  /\ TotalLen(entries) + Len(lines) <= MaxEntries
  /\ entries' = [entries EXCEPT ![x] = @ \o lines]

NewProof(type, status, validity, filled) ==
  [type |-> type, status |-> status, expires |-> now + validity,
   decided |-> FALSE, filled |-> filled]

SubmitZkProof(x, type, filled) ==
  /\ TotalLen(proof) < MaxProofs
  /\ proof' = [proof EXCEPT ![x] = Append(@, NewProof(type, "Pending", ProofValidity, filled))]
  /\ Log(x, <<Entry(type, "Pending", "submit")>>)
  /\ UNCHANGED <<zkData, stats, approvedVerifiers, privacyLevel>>

(* The summary notes the account's latest proof and its status, whichever  *)
(* proof was decided.                                                      *)
Refresh(x, proofs) ==
  zkData' = [zkData EXCEPT ![x] =
              [ids |-> Append(@.ids, Len(proofs)), status |-> proofs[Len(proofs)].status]]

Decision(p, approve) == IF approve /\ p.filled THEN "Verified" ELSE "Rejected"

(* Mutant: the approval counts, whatever became of the proof.              *)
CountedByApproval(approve, status) == approve

CountedAsSuccess(approve, status) == status = "Verified"

VerifyZkProof(v, x, i, approve) ==
  LET p == proof[x][i]
      status == Decision(p, approve)
      success == CountedAsSuccess(approve, status)
  IN  /\ v \in approvedVerifiers
      /\ p.status = "Pending"
      /\ proof' = [proof EXCEPT ![x][i] = [p EXCEPT !.status = status, !.decided = TRUE]]
      /\ Log(x, <<Entry(p.type, status, IF approve THEN "verify" ELSE "reject")>>)
      /\ stats' = [total |-> stats.total + 1,
                   successful |-> stats.successful + IF success THEN 1 ELSE 0,
                   failed |-> stats.failed + IF success THEN 0 ELSE 1]
      /\ Refresh(x, proof'[x])
      /\ UNCHANGED <<approvedVerifiers, privacyLevel>>

(* Submitted and accepted in one call, without a verifier.                 *)
AcceptOwnProof(x, k) ==
  /\ TotalLen(proof) < MaxProofs
  /\ proof' = [proof EXCEPT ![x] = Append(@, NewProof(k.type, "Verified", k.validity, TRUE))]
  /\ Log(x, <<Entry(k.type, "Pending", "submit"), Entry(k.type, "Verified", "verify")>>)
  /\ UNCHANGED <<stats, approvedVerifiers, privacyLevel>>

(* Identity, financial standing, accredited investor.                      *)
VerifyStanding(x, k) == AcceptOwnProof(x, k) /\ Refresh(x, proof'[x])

(* Confidential transactions and ownership of property and address leave   *)
(* the summary as it was, but for verify_property_ownership_zk, which does *)
(* as VerifyStanding.                                                      *)
ProveOwnership(x, k) == AcceptOwnProof(x, k) /\ UNCHANGED zkData

AddedActions == {"submit", "verify", "access"}

(* An added line bears the status NotSubmitted, whatever its action.       *)
LineStatus(action) == "NotSubmitted"

(* Mutant: an added line bears the status its action stands for.           *)
StatusOfAction(action) == IF action = "verify" THEN "Verified" ELSE "Pending"

CreatePrivacyPreservingAudit(v, x, type, action) ==
  /\ v = x \/ v \in approvedVerifiers
  /\ Log(x, <<Entry(type, LineStatus(action), action)>>)
  /\ UNCHANGED <<proof, zkData, stats, approvedVerifiers, privacyLevel>>

-----------------------------------------------------------------------------
AddApprovedVerifier(v) ==
  /\ approvedVerifiers' = approvedVerifiers \cup {v}
  /\ UNCHANGED <<proofVars, privacyLevel>>

RemoveApprovedVerifier(v) ==
  /\ approvedVerifiers' = approvedVerifiers \ {v}
  /\ UNCHANGED <<proofVars, privacyLevel>>

SetLevel(x, level) ==
  /\ privacyLevel' = [privacyLevel EXCEPT ![x] = level]
  /\ UNCHANGED <<proofVars, approvedVerifiers>>

(* set_privacy_controls asks for the consent to process first, the other   *)
(* two ways to set a level do not.                                         *)
UpdatePrivacyPreferences(x, level) == level <= 5 /\ SetLevel(x, level)
SetPrivacyControls(x, level, consent) == level <= 5 /\ consent /\ SetLevel(x, level)

LevelOrDefault(x) == IF privacyLevel[x] = NoLevel THEN 3 ELSE privacyLevel[x]

(* Consent to proof types stamps the preferences, and stores the defaults  *)
(* where there were none.                                                  *)
GrantProofConsent(x)  == LevelOrDefault(x) >= 2 /\ SetLevel(x, LevelOrDefault(x))
RevokeProofConsent(x) == SetLevel(x, LevelOrDefault(x))

ZkTick == ClockTicks /\ UNCHANGED zkVars

ProofsNext ==
  \/ \E v \in Provers \cup ZkVerifiers, x \in Provers, t \in ProofTypes, action \in AddedActions :
       CreatePrivacyPreservingAudit(v, x, t, action)
  \/ \E x \in Provers :
       \/ \E t \in ProofTypes, filled \in BOOLEAN : SubmitZkProof(x, t, filled)
       \/ \E k \in SelfVerified : VerifyStanding(x, k) \/ ProveOwnership(x, k)
       \/ \E v \in ZkVerifiers, i \in 1 .. Len(proof[x]), approve \in BOOLEAN :
            VerifyZkProof(v, x, i, approve)
  \/ \E v \in ZkVerifiers : AddApprovedVerifier(v) \/ RemoveApprovedVerifier(v)

PrivacyNext ==
  \E x \in Provers :
    \/ \E level \in PrivacyLevels :
         \/ UpdatePrivacyPreferences(x, level)
         \/ \E consent \in BOOLEAN : SetPrivacyControls(x, level, consent)
    \/ GrantProofConsent(x) \/ RevokeProofConsent(x)

ZkNext == ((ProofsNext \/ PrivacyNext) /\ UNCHANGED now) \/ ZkTick

-----------------------------------------------------------------------------
ZkSpec == ClockInit /\ ZkInit /\ [][ZkNext]_<<now, zkVars>>

ProofStatuses == {"Pending", "Verified", "Rejected"}
Proofs == [type : ProofTypes, status : ProofStatuses, expires : Nat,
           decided : BOOLEAN, filled : BOOLEAN]
Entries == [type : ProofTypes, status : ProofStatuses \cup {"NotSubmitted"},
            action : AddedActions \cup {"reject"}]

(* A level stays on its scale, and a summary notes proofs there are.       *)
ZkTypeOK ==
  /\ proof \in [Provers -> Seq(Proofs)] /\ entries \in [Provers -> Seq(Entries)]
  /\ stats \in [total : Nat, successful : Nat, failed : Nat]
  /\ approvedVerifiers \in SUBSET ZkVerifiers
  /\ privacyLevel \in [Provers -> 0 .. 5 \cup {NoLevel}]
  /\ zkData \in [Provers -> [ids : Seq(Nat), status : ProofStatuses \cup {"NotSubmitted"}]]
  /\ \A x \in Provers : \A i \in 1 .. Len(zkData[x].ids) :
       zkData[x].ids[i] \in 1 .. Len(proof[x])

(* The proofs, or the lines of the log, of a status; and those of them     *)
(* that are verified because a verifier said so.                           *)
Having(q, status) == {i \in 1 .. Len(q) : q[i].status = status}
ByVerifier(q) == {i \in 1 .. Len(q) : q[i].status = "Verified" /\ q[i].decided}

Successes == [x \in Provers |-> Cardinality(ByVerifier(proof[x]))]
Failures  == [x \in Provers |-> Cardinality(Having(proof[x], "Rejected"))]

(* The statistics count each decision of a verifier once, and no proof     *)
(* that was accepted without one.                                          *)
StatsMatchProofs ==
  /\ stats.successful = SumFunctionOnSet(Successes, Provers)
  /\ stats.failed = SumFunctionOnSet(Failures, Provers)
  /\ stats.total = stats.successful + stats.failed

(* An account's audit log has one entry for every submission and for every *)
(* outcome of a proof, and no line that was added by hand passes for one.  *)
LogTells(log, proofs) ==
  /\ Cardinality(Having(log, "Pending")) = Len(proofs)
  /\ Cardinality(Having(log, "Verified")) = Cardinality(Having(proofs, "Verified"))
  /\ Cardinality(Having(log, "Rejected")) = Cardinality(Having(proofs, "Rejected"))

AuditMatchesProofs == \A x \in Provers : LogTells(entries[x], proof[x])

(* zk compliance: statistics and audit log tell the same story as the      *)
(* proofs.                                                                 *)
ProofRecordsAgree == StatsMatchProofs /\ AuditMatchesProofs
=============================================================================
