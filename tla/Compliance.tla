----------------------------- MODULE Compliance -----------------------------
(***************************************************************************)
(* The ink! compliance registry (contracts/compliance_registry/lib.rs):    *)
(* verifiers record the KYC, AML and sanctions checks of an account, the   *)
(* account gives its consent, requests wait for a verifier, and every      *)
(* check is entered in the account's audit log.                            *)
(*                                                                         *)
(* A record keeps what is_compliant reads.  Medium and high risk are one   *)
(* level here, for only a prohibited account is told apart; hashes and the *)
(* names of documents and lists are left out, what they weigh is kept.     *)
(***************************************************************************)
EXTENDS LedgerClock, Sequences, FiniteSets, FiniteSetsExt

CONSTANTS Subjects,       \* accounts that are verified
          Owner,          \* the deployer, the first verifier
          Providers,      \* accounts the owner may make verifiers
          Jurisdictions,
          KycFirstRules, KycRuleChanges, \* jurisdiction_rules: level and retention
          NoRules,
          Evidence,       \* points of document and biometric, risk score
          Levels,         \* risk levels a verifier may submit
          Consents,       \* consents given, withdrawn...
          RiskCounts,     \* AML risk factors that hold, of four
          NoData, NoRequest,
          Validity,       \* 365 days
          MaxLog, MaxRequests \* bounds; MaxLog is of all accounts together

KycRules == [level : 0 .. 5, retention : Nat]

KycRecords ==
  [status : {"Verified", "Rejected", "Expired"}, risk : {"Low", "Elevated", "Prohibited"},
   expiry : Nat, retention : Nat,
   aml : BOOLEAN, sanctions : BOOLEAN, consent : Consents \cup {"NotGiven"}]

(* What is assumed of the constants.                                       *)
ComplianceAssumption ==
  /\ KycFirstRules \in [Jurisdictions -> KycRules \cup {NoRules}]
  /\ KycRuleChanges \subseteq KycRules /\ NoRules \notin KycRules
  /\ Evidence \subseteq [document : 1 .. 2, biometric : 0 .. 3, score : 0 .. 255]
  /\ Levels \subseteq {"Low", "Elevated", "Prohibited"} /\ RiskCounts \subseteq 0 .. 4
  /\ {Validity, MaxLog, MaxRequests} \subseteq Nat
  /\ NoRequest \notin Nat /\ NoData \notin KycRecords

VARIABLES verifiers,
          rules,               \* jurisdiction_rules
          complianceData,      \* compliance_data
          auditLog,            \* audit_logs(account): the actions entered
          verificationRequest, \* verification_requests, by id
          accountRequest       \* account_requests

registryVars == <<complianceData, auditLog>>
kycRequestVars == <<verificationRequest, accountRequest>>
complianceVars == <<verifiers, rules, registryVars, kycRequestVars>>

ComplianceInit ==
  /\ verifiers = {Owner}
  /\ rules = KycFirstRules
  /\ complianceData = [x \in Subjects |-> NoData]
  /\ auditLog = [x \in Subjects |-> <<>>]
  /\ verificationRequest = <<>>
  /\ accountRequest = [x \in Subjects |-> NoRequest]

-----------------------------------------------------------------------------
Entered == FoldSet(LAMBDA x, n : n + Len(auditLog[x]), 0, Subjects)

LogAuditEvent(x, action) ==
  /\ Entered < MaxLog
  /\ auditLog' = [auditLog EXCEPT ![x] = Append(@, action)]

VerificationLevel(e) ==
  LET evidenced == 1 + e.document + e.biometric IN
  Min({5, IF e.score < 20 THEN evidenced + 1
          ELSE IF e.score > 80 THEN Max({0, evidenced - 2}) ELSE evidenced})

(* Mutant: a new verification inherits the AML check of the last one.      *)
ChecksKept(x) ==
  IF complianceData[x] = NoData THEN [aml |-> FALSE, sanctions |-> FALSE, consent |-> "NotGiven"]
  ELSE [aml |-> complianceData[x].aml, sanctions |-> FALSE, consent |-> "NotGiven"]

(* What a new verification starts from.                                    *)
NoChecks(x) == [aml |-> FALSE, sanctions |-> FALSE, consent |-> "NotGiven"]

Verify(x, j, risk, e) ==
  LET checks == NoChecks(x) IN
  /\ e.score <= 100
  /\ rules[j] # NoRules /\ VerificationLevel(e) >= rules[j].level
  /\ complianceData' = [complianceData EXCEPT ![x] =
       [status |-> "Verified", risk |-> risk, expiry |-> now + Validity,
        retention |-> now + rules[j].retention,
        aml |-> checks.aml, sanctions |-> checks.sanctions, consent |-> checks.consent]]
  /\ LogAuditEvent(x, "verification")

SubmitVerification(v, x, j, risk, e) ==
  /\ v \in verifiers
  /\ Verify(x, j, risk, e)
  /\ UNCHANGED <<verifiers, rules, kycRequestVars>>

(* One request of an account waits at a time, and nothing but a            *)
(* verification ends it: a request whose evidence is refused waits on.     *)
CreateVerificationRequest(x, j) ==
  /\ accountRequest[x] # NoRequest =>
       verificationRequest[accountRequest[x]].status # "Pending"
  /\ Len(verificationRequest) < MaxRequests
  /\ verificationRequest' = Append(verificationRequest,
                              [account |-> x, jurisdiction |-> j, status |-> "Pending"])
  /\ accountRequest' = [accountRequest EXCEPT ![x] = Len(verificationRequest')]
  /\ UNCHANGED <<verifiers, rules, registryVars>>

ProcessVerificationRequest(v, i, risk, e) ==
  LET r == verificationRequest[i] IN
  /\ v \in verifiers /\ r.status = "Pending"
  /\ Verify(r.account, r.jurisdiction, risk, e)
  /\ verificationRequest' = [verificationRequest EXCEPT ![i].status = "Verified"]
  /\ UNCHANGED <<verifiers, rules, accountRequest>>

-----------------------------------------------------------------------------
Known(x) == complianceData[x] # NoData

(* A passed check with a risk factor lowers a prohibited account's risk.   *)
AmlOf(d, passed, n) ==
  [d EXCEPT !.aml = passed,
            !.status = IF ~passed \/ n >= 3 THEN "Rejected" ELSE @,
            !.risk = IF ~passed \/ n >= 3 THEN "Prohibited"
                     ELSE IF n >= 1 THEN "Elevated" ELSE @]

SanctionsOf(d, passed) ==
  [d EXCEPT !.sanctions = passed,
            !.status = IF passed THEN @ ELSE "Rejected",
            !.risk = IF passed THEN @ ELSE "Prohibited"]

(* new: the records that are replaced, by account.                         *)
Update(new, action) ==
  /\ Entered + Cardinality(DOMAIN new) <= MaxLog
  /\ complianceData' =
       [x \in Subjects |-> IF x \in DOMAIN new THEN new[x] ELSE complianceData[x]]
  /\ auditLog' =
       [x \in Subjects |-> IF x \in DOMAIN new THEN Append(auditLog[x], action) ELSE auditLog[x]]
  /\ UNCHANGED <<verifiers, rules, kycRequestVars>>

UpdateAmlStatus(v, x, passed, n) ==
  /\ v \in verifiers /\ Known(x)
  /\ Update([y \in {x} |-> AmlOf(complianceData[y], passed, n)], "aml")

UpdateSanctionsStatus(v, x, passed) ==
  /\ v \in verifiers /\ Known(x)
  /\ Update([y \in {x} |-> SanctionsOf(complianceData[y], passed)], "sanctions")

(* counts: the risk factors of each listed account; funded: those of them  *)
(* whose source of funds is verified.  An AML batch skips the accounts it  *)
(* does not know; an account listed twice is one more check of it alone.   *)
BatchAmlCheck(v, counts, funded) ==
  LET passed(x) == counts[x] < 3 /\ x \in funded IN
  /\ v \in verifiers
  /\ Update([y \in {x \in DOMAIN counts : Known(x)} |->
               AmlOf(complianceData[y], passed(y), counts[y])], "aml")

(* A sanctions batch with an unknown account is refused as a whole.        *)
BatchSanctionsCheck(v, results) ==
  /\ v \in verifiers /\ \A x \in DOMAIN results : Known(x)
  /\ Update([y \in DOMAIN results |-> SanctionsOf(complianceData[y], results[y])], "sanctions")

(* Neither a revocation nor a deletion is entered in the audit log.        *)
MarkRecord(x, status) ==
  /\ Known(x)
  /\ complianceData' = [complianceData EXCEPT ![x].status = status]
  /\ UNCHANGED <<auditLog, verifiers, rules, kycRequestVars>>

RevokeVerification(v, x) == v \in verifiers /\ MarkRecord(x, "Rejected")

UpdateConsent(v, x, consent) ==
  /\ v = x \/ v \in verifiers
  /\ Known(x)
  /\ Update([y \in {x} |-> [complianceData[y] EXCEPT !.consent = consent]], "consent")

(* The record is kept and marked, once its retention is over.              *)
RequestDataDeletion(x) ==
  /\ Known(x) /\ now > complianceData[x].retention
  /\ complianceData[x].consent = "Withdrawn"
  /\ MarkRecord(x, "Expired")

-----------------------------------------------------------------------------
AddVerifier(v) ==
  /\ verifiers' = verifiers \cup {v}
  /\ UNCHANGED <<rules, registryVars, kycRequestVars>>

(* Services 0 (KYC) and 3 (all) make the provider a verifier.              *)
RegisterServiceProvider(v, service) ==
  /\ verifiers' = verifiers \cup IF service \in {0, 3} THEN {v} ELSE {}
  /\ UNCHANGED <<rules, registryVars, kycRequestVars>>

UpdateJurisdictionRules(j, r) ==
  /\ rules' = [rules EXCEPT ![j] = r]
  /\ UNCHANGED <<verifiers, registryVars, kycRequestVars>>

ComplianceTick == ClockTicks /\ UNCHANGED complianceVars

Callers == Subjects \cup {Owner} \cup Providers

OfOne(v, x) ==
  \/ \E j \in Jurisdictions, l \in Levels, e \in Evidence : SubmitVerification(v, x, j, l, e)
  \/ \E ok \in BOOLEAN :
       \/ \E n \in RiskCounts : UpdateAmlStatus(v, x, ok, n)
       \/ UpdateSanctionsStatus(v, x, ok)
  \/ RevokeVerification(v, x)
  \/ \E c \in Consents : UpdateConsent(v, x, c)

OfMany(v) ==
  \E xs \in SUBSET Subjects :
    \/ \E counts \in [xs -> RiskCounts], funded \in SUBSET xs : BatchAmlCheck(v, counts, funded)
    \/ \E results \in [xs -> BOOLEAN] : BatchSanctionsCheck(v, results)

ChecksNext ==
  \/ \E v \in Callers : OfMany(v) \/ \E x \in Subjects : OfOne(v, x)
  \/ \E x \in Subjects : RequestDataDeletion(x)

(* Requests, and what the owner decides: no check but the verification     *)
(* depends on them.                                                        *)
RequestsNext ==
  \/ \E x \in Subjects, j \in Jurisdictions : CreateVerificationRequest(x, j)
  \/ \E v \in Callers, i \in 1 .. Len(verificationRequest), l \in Levels, e \in Evidence :
       ProcessVerificationRequest(v, i, l, e)
  \/ \E v \in Providers : AddVerifier(v) \/ \E k \in 0 .. 3 : RegisterServiceProvider(v, k)
  \/ \E j \in Jurisdictions, r \in KycRuleChanges : UpdateJurisdictionRules(j, r)

ComplianceNext == ((ChecksNext \/ RequestsNext) /\ UNCHANGED now) \/ ComplianceTick

ComplianceSpec == ClockInit /\ ComplianceInit /\ [][ComplianceNext]_<<now, complianceVars>>

-----------------------------------------------------------------------------
IsCompliant(x) ==
  /\ Known(x)
  /\ LET d == complianceData[x] IN
     /\ d.status = "Verified" /\ d.risk # "Prohibited"
     /\ d.aml /\ d.sanctions /\ d.consent = "Given"
     /\ now < d.expiry /\ now <= d.retention

(* Records have their fields, and a request is on record under its id.     *)
ComplianceTypeOK ==
  /\ verifiers \subseteq Callers /\ Owner \in verifiers
  /\ rules \in [Jurisdictions -> KycRules \cup {NoRules}]
  /\ complianceData \in [Subjects -> KycRecords \cup {NoData}]
  /\ auditLog \in [Subjects -> Seq({"verification", "aml", "sanctions", "consent"})]
  /\ verificationRequest \in
       Seq([account : Subjects, jurisdiction : Jurisdictions, status : {"Pending", "Verified"}])
  /\ accountRequest \in [Subjects -> 1 .. Len(verificationRequest) \cup {NoRequest}]

IsLatestVerification(log, v) ==
  log[v] = "verification" /\ \A k \in v + 1 .. Len(log) : log[k] # "verification"

EnteredSince(log, check) ==
  \E v \in DOMAIN log : IsLatestVerification(log, v) /\ \E i \in v + 1 .. Len(log) : log[i] = check

(* An account passes only if its audit log shows all three of AML check,   *)
(* sanctions check and consent after its latest verification: no check     *)
(* survives a new verification.                                            *)
ComplianceIsAudited ==
  \A x \in Subjects : IsCompliant(x) =>
    \A check \in {"aml", "sanctions", "consent"} : EnteredSince(auditLog[x], check)

(* An account has one open request, the one account_requests names.        *)
OneOpenRequest ==
  \A i \in 1 .. Len(verificationRequest) : verificationRequest[i].status = "Pending" =>
    accountRequest[verificationRequest[i].account] = i

(* compliance registry: compliance rests on the audit log, requests on     *)
(* their account.                                                          *)
RegistrySound == ComplianceIsAudited /\ OneOpenRequest
=============================================================================
