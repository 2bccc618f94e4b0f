------------------------------ MODULE Records_proofs -------------------------------
(***************************************************************************)
(* Proofs about the contracts that keep records of their own, for any      *)
(* values of their constants: Slashing (histories of violations),          *)
(* Compliance (what was checked of an account), ZkCompliance (proofs and   *)
(* their log), IpfsMetadata (documents), Fees (money taken and paid out),  *)
(* Oracle (prices and what they aggregate to) and Fractional (fractions of *)
(* a property); and that what TLC explores of all contracts together are   *)
(* behaviours of each.                                                     *)
(***************************************************************************)
EXTENDS MCContracts, Contracts_proofs, SequenceTheorems

(***************************************************************************)
(* The slashing contract.                                                  *)
(***************************************************************************)
Histories == [Targets -> [Roles -> Seq(Violation)]]
Counts == [Targets -> [Roles -> 0 .. MaxViolations]]

SlashIInv == SlashTypeOK /\ HistoryIsLatestViolations

(* The histories, the log and the counts have their types.                 *)
LEMMA SlashRecords ==
  ASSUME SlashingAssumption, SlashIInv
  PROVE  /\ violationCount \in Counts /\ history \in Histories /\ slashed \in Histories
         /\ now \in 0 .. MaxTime /\ MAX_HISTORY \in Nat \ {0}
  BY DEF SlashIInv, SlashTypeOK, Counts, Histories, SlashingAssumption

(* The contract starts without roles, parameters and violations.           *)
LEMMA InitSlashIInv == SlashingAssumption /\ ClockInit /\ SlashInit => SlashIInv
<1> SUFFICES ASSUME SlashingAssumption, ClockInit, SlashInit PROVE SlashIInv
  OBVIOUS
<1>1. 0 \in 0 .. MaxTime /\ 0 \in 0 .. MaxViolations /\ 0 <= MAX_HISTORY
  BY DEF SlashingAssumption
<1>2. /\ history \in [Targets -> [Roles -> Seq(Violation)]]
      /\ slashed \in [Targets -> [Roles -> Seq(Violation)]]
      /\ \A t \in Targets, r \in Roles :
           history[t][r] = << >> /\ slashed[t][r] = << >> /\ Len(history[t][r]) = 0
  BY DEF SlashInit
<1>3. violationCount \in Counts /\ \A t \in Targets, r \in Roles : violationCount[t][r] = 0
  BY <1>1 DEF SlashInit, Counts
<1>4. Latest(<< >>, MAX_HISTORY) = << >> /\ Len(<< >>) = 0
  BY <1>1 DEF Latest
<1>5. HistoryIsLatestViolations
  BY <1>2, <1>3, <1>4 DEF HistoryIsLatestViolations
<1> QED
  BY <1>1, <1>2, <1>3, <1>5 DEF ClockInit, SlashInit, SlashIInv, SlashTypeOK, Counts

(* A slash is counted and recorded for one target in one role, whose       *)
(* history goes on to hold the latest records.                             *)
LEMMA SlashFundsEffect ==
  ASSUME SlashingAssumption, SlashIInv, NEW t \in Targets, NEW r \in Roles,
         NEW x \in SlashAmounts, SlashFunds(t, r, x)
  PROVE  /\ violationCount' \in Counts /\ history' \in Histories /\ slashed' \in Histories
         /\ violationCount'[t][r] = violationCount[t][r] + 1
         /\ Len(slashed'[t][r]) = Len(slashed[t][r]) + 1
         /\ history'[t][r] = Latest(slashed'[t][r], MAX_HISTORY)
         /\ Len(history'[t][r]) <= MAX_HISTORY
         /\ \A u \in Targets, q \in Roles :
              ~(u = t /\ q = r) => /\ violationCount'[u][q] = violationCount[u][q]
                                   /\ history'[u][q] = history[u][q]
                                   /\ slashed'[u][q] = slashed[u][q]
<1>1. /\ violationCount \in Counts /\ history \in Histories /\ slashed \in Histories
      /\ now \in 0 .. MaxTime /\ MAX_HISTORY \in Nat \ {0}
  BY SlashRecords
<1>2. PICK v \in Violation : v = [amount |-> x, timestamp |-> now]
  BY <1>1 DEF Violation
<1>3. PICK h \in Seq(Violation), log \in Seq(Violation) :
        h = history[t][r] /\ log = slashed[t][r]
  BY <1>1 DEF Histories
<1>4. h = Latest(log, MAX_HISTORY)
  BY <1>3 DEF SlashIInv, HistoryIsLatestViolations
<1>5. PICK longer \in Seq(Violation) : longer = Append(log, v) /\ Len(longer) = Len(log) + 1
  <2>1. Append(log, v) \in Seq(Violation) /\ Len(Append(log, v)) = Len(log) + 1
    BY <1>2, <1>3, AppendProperties
  <2> QED
    BY <2>1
<1>6. Append(Trim(h), v) = Latest(longer, MAX_HISTORY)
  <2>1. Append(IF Len(h) >= MAX_HISTORY THEN Tail(h) ELSE h, v)
          = Latest(Append(log, v), MAX_HISTORY)
    BY <1>1, <1>2, <1>3, <1>4, LatestAppend
  <2> QED
    BY <1>5, <2>1 DEF Trim
<1>7. PICK new \in Seq(Violation) :
        new = Latest(longer, MAX_HISTORY) /\ Len(new) <= MAX_HISTORY
  <2>1. /\ Latest(longer, MAX_HISTORY) \in Seq(Violation)
        /\ Len(Latest(longer, MAX_HISTORY))
             = IF Len(longer) <= MAX_HISTORY THEN Len(longer) ELSE MAX_HISTORY
    BY <1>1, <1>5, LatestOfLog
  <2>2. Len(longer) \in Nat
    BY <1>5, LenProperties
  <2>3. Len(Latest(longer, MAX_HISTORY)) <= MAX_HISTORY
    BY <1>1, <2>1, <2>2
  <2> QED
    BY <2>1, <2>3
<1>8. /\ history' = [history EXCEPT ![t][r] = new]
      /\ slashed' = [slashed EXCEPT ![t][r] = longer]
      /\ violationCount' = [violationCount EXCEPT ![t][r] = violationCount[t][r] + 1]
      /\ violationCount[t][r] + 1 \in 0 .. MaxViolations
  <2>1. /\ history' = [history EXCEPT ![t][r] = Append(Trim(h), v)]
        /\ slashed' = [slashed EXCEPT ![t][r] = Append(log, v)]
    BY <1>2, <1>3 DEF SlashFunds
  <2>2. /\ violationCount' = [violationCount EXCEPT ![t][r] = violationCount[t][r] + 1]
        /\ violationCount[t][r] < MaxViolations
    BY DEF SlashFunds
  <2>3. violationCount[t][r] + 1 \in 0 .. MaxViolations
    BY <1>1, <2>2 DEF Counts, SlashingAssumption
  <2> QED
    BY <1>5, <1>6, <1>7, <2>1, <2>2, <2>3
<1>9. history'[t][r] = new /\ slashed'[t][r] = longer
  BY <1>1, <1>8 DEF Histories
<1>10. /\ violationCount' \in Counts /\ history' \in Histories /\ slashed' \in Histories
       /\ violationCount'[t][r] = violationCount[t][r] + 1
       /\ \A u \in Targets, q \in Roles :
            ~(u = t /\ q = r) => /\ violationCount'[u][q] = violationCount[u][q]
                                 /\ history'[u][q] = history[u][q]
                                 /\ slashed'[u][q] = slashed[u][q]
  BY <1>1, <1>8 DEF Histories, Counts
<1> QED
  BY <1>3, <1>5, <1>7, <1>9, <1>10

(* Every transaction, and time, keep the invariant.                        *)
LEMMA NextSlashIInv ==
  SlashingAssumption /\ SlashIInv /\ [SlashNext]_slashClockVars => SlashIInv'
<1> SUFFICES ASSUME SlashingAssumption, SlashIInv, [SlashNext]_slashClockVars PROVE SlashIInv'
  OBVIOUS
<1>1. ASSUME NEW t \in Targets, NEW r \in Roles, NEW x \in SlashAmounts,
             SlashFunds(t, r, x), UNCHANGED now
      PROVE  SlashIInv'
  <2>1. ASSUME NEW u \in Targets, NEW q \in Roles
        PROVE  /\ Len(history'[u][q]) <= MAX_HISTORY
               /\ violationCount'[u][q] = Len(slashed'[u][q])
               /\ history'[u][q] = Latest(slashed'[u][q], MAX_HISTORY)
    <3>1. /\ Len(history[u][q]) <= MAX_HISTORY
          /\ violationCount[u][q] = Len(slashed[u][q])
          /\ history[u][q] = Latest(slashed[u][q], MAX_HISTORY)
      BY DEF SlashIInv, SlashTypeOK, HistoryIsLatestViolations
    <3>2. CASE u = t /\ q = r
      <4>1. /\ violationCount'[u][q] = violationCount[u][q] + 1
            /\ Len(slashed'[u][q]) = Len(slashed[u][q]) + 1
            /\ history'[u][q] = Latest(slashed'[u][q], MAX_HISTORY)
            /\ Len(history'[u][q]) <= MAX_HISTORY
        BY <1>1, <3>2, SlashFundsEffect
      <4> QED
        BY <3>1, <4>1
    <3>3. CASE ~(u = t /\ q = r)
      <4>1. /\ violationCount'[u][q] = violationCount[u][q] /\ history'[u][q] = history[u][q]
            /\ slashed'[u][q] = slashed[u][q]
        BY <1>1, <3>3, SlashFundsEffect
      <4> QED
        BY <3>1, <4>1
    <3> QED
      BY <3>2, <3>3
  <2>2. violationCount' \in Counts /\ history' \in Histories /\ slashed' \in Histories
    BY <1>1, SlashFundsEffect
  <2>3. UNCHANGED <<now, slashableRoles, penaltyParams, paused>>
    BY <1>1 DEF SlashFunds
  <2> QED
    BY <2>1, <2>2, <2>3
       DEF SlashIInv, SlashTypeOK, HistoryIsLatestViolations, Histories, Counts, Violation
<1>2. ASSUME UNCHANGED <<violationCount, history, slashed>>, now' \in 0 .. MaxTime,
             slashableRoles' \subseteq Roles, paused' \in BOOLEAN,
             penaltyParams' \in [Roles -> Cooldowns \union {NoParams}]
      PROVE  SlashIInv'
  BY <1>2 DEF SlashIInv, SlashTypeOK, HistoryIsLatestViolations
<1>3. /\ now \in 0 .. MaxTime /\ slashableRoles \subseteq Roles /\ paused \in BOOLEAN
      /\ penaltyParams \in [Roles -> Cooldowns \union {NoParams}]
  BY DEF SlashIInv, SlashTypeOK
<1>4. CASE AdminTransaction /\ UNCHANGED now
  BY <1>2, <1>3, <1>4
     DEF AdminTransaction, ConfigurePenaltyParameters, AddSlashableRole, RemoveSlashableRole, SetPaused
<1>5. CASE SlashTick
  <2>1. now' \in 0 .. MaxTime
    BY <1>3, <1>5 DEF SlashTick, ClockTicks, SlashingAssumption
  <2> QED
    BY <1>2, <1>3, <1>5, <2>1 DEF SlashTick, slashVars
<1>6. CASE UNCHANGED slashClockVars
  BY <1>2, <1>3, <1>6 DEF slashClockVars, slashVars
<1> QED
  BY <1>1, <1>4, <1>5, <1>6 DEF SlashNext, SlashTransaction

(* The two invariants of slashing hold in every reachable state.           *)
LEMMA SlashInvariance == ASSUME SlashingAssumption PROVE SlashSpec => []SlashIInv
<1>1. SlashIInv /\ [SlashNext]_slashClockVars => SlashIInv'
  BY NextSlashIInv
<1> QED
  BY InitSlashIInv, <1>1, PTL DEF SlashSpec

(* A history holds the latest violations, as many as the cap lets be, each *)
(* as it was recorded, whatever roles are struck off and listed again.     *)
THEOREM HistoryIsComplete == ASSUME SlashingAssumption PROVE SlashSpec => []HistoryIsLatestViolations
<1>1. SlashIInv => HistoryIsLatestViolations
  BY DEF SlashIInv
<1> QED
  BY SlashInvariance, <1>1, PTL

(* No sum of a timestamp and a cooldown wraps.  The contract checks no     *)
(* cooldown it is given: this is the condition on the configuration under  *)
(* which its cooldowns mean what they say.                                 *)
CooldownsFit == \A c \in Cooldowns : MaxTime + c < U64

(* In one step, who is slashed again had the cooldown.                     *)
LEMMA CooldownStep ==
  ASSUME SlashingAssumption, CooldownsFit, SlashIInv, [SlashNext]_slashClockVars,
         NEW t \in Targets, NEW r \in Roles, violationCount'[t][r] > violationCount[t][r],
         violationCount[t][r] > 0, penaltyParams[r] # NoParams
  PROVE  now >= Last(history[t][r]).timestamp + penaltyParams[r]
<1>1. violationCount \in Counts /\ penaltyParams[r] \in Cooldowns /\ now \in 0 .. MaxTime
      /\ history[t][r] \in Seq(Violation)
  BY DEF SlashIInv, SlashTypeOK, Counts, Violation
<1>2. violationCount' # violationCount
  BY <1>1 DEF Counts
<1>3. PICK u \in Targets, q \in Roles, x \in SlashAmounts : SlashFunds(u, q, x)
  BY <1>2 DEF SlashNext, SlashTransaction, AdminTransaction, ConfigurePenaltyParameters,
     AddSlashableRole, RemoveSlashableRole, SetPaused, SlashTick, slashClockVars, slashVars
<1>4. u = t /\ q = r
  <2>1. SUFFICES ASSUME ~(t = u /\ r = q) PROVE FALSE
    OBVIOUS
  <2>2. violationCount'[t][r] = violationCount[t][r]
    BY <1>3, <2>1, SlashFundsEffect
  <2> QED
    BY <1>1, <2>2 DEF Counts
<1>5. history[t][r] # << >> /\ Len(history[t][r]) \in 1 .. Len(history[t][r])
  <2>1. /\ slashed[t][r] \in Seq(Violation) /\ MAX_HISTORY \in Nat \ {0}
        /\ violationCount[t][r] = Len(slashed[t][r])
        /\ history[t][r] = Latest(slashed[t][r], MAX_HISTORY)
    BY SlashRecords DEF Histories, SlashIInv, HistoryIsLatestViolations
  <2>2. Len(history[t][r])
          = IF Len(slashed[t][r]) <= MAX_HISTORY THEN Len(slashed[t][r]) ELSE MAX_HISTORY
    BY <2>1, LatestOfLog
  <2>3. Len(history[t][r]) > 0
    BY <2>1, <2>2
  <2> QED
    BY <1>1, <2>3
<1>6. Last(history[t][r]) \in Violation
  BY <1>1, <1>5, ElementOfSeq DEF Last
<1> DEFINE due == Last(history[t][r]).timestamp + penaltyParams[r]
<1>7. due \in 0 .. U64 - 1
  <2>1. /\ penaltyParams[r] \in Int /\ 0 <= penaltyParams[r]
        /\ MaxTime + penaltyParams[r] < U64 /\ U64 \in Nat /\ MaxTime \in Nat
    <3>1. U64 \in Nat /\ MaxTime \in Nat /\ penaltyParams[r] \in 0 .. U64 - 1
      BY <1>1 DEF SlashingAssumption
    <3>2. MaxTime + penaltyParams[r] < U64
      BY <1>1 DEF CooldownsFit
    <3> QED
      BY <3>1, <3>2
  <2>2. Last(history[t][r]).timestamp \in 0 .. MaxTime
    BY <1>6 DEF Violation
  <2> HIDE DEF due
  <2>3. due = Last(history[t][r]).timestamp + penaltyParams[r]
    BY DEF due
  <2> QED
    BY <2>1, <2>2, <2>3
<1>8. due % U64 = due
  <2> HIDE DEF due
  <2> QED
    BY <1>7 DEF SlashingAssumption
<1>9. now >= due % U64
  BY <1>3, <1>4, <1>5 DEF SlashFunds, CanBeSlashed, CooldownOver
<1> QED
  BY <1>8, <1>9

(* Two consecutive slashes of a target in a role are at least the current  *)
(* cooldown apart, when no sum with a configured cooldown wraps.           *)
THEOREM CooldownHolds ==
  ASSUME SlashingAssumption, CooldownsFit PROVE SlashSpec => CooldownProtects
<1>1. SlashIInv /\ [SlashNext]_slashClockVars
        => [\A t \in Targets, r \in Roles :
              violationCount'[t][r] > violationCount[t][r] /\ violationCount[t][r] > 0
                /\ penaltyParams[r] # NoParams
              => now >= Last(history[t][r]).timestamp + penaltyParams[r]]_slashClockVars
  BY CooldownStep
<1> QED
  BY SlashInvariance, <1>1, PTL DEF SlashSpec, CooldownProtects

-----------------------------------------------------------------------------
(***************************************************************************)
(* The compliance registry.                                                *)
(***************************************************************************)
KycActions == {"verification", "aml", "sanctions", "consent"}
KycRequests ==
  [account : Subjects, jurisdiction : Jurisdictions, status : {"Pending", "Verified"}]

HasVerification(log) == \E v \in DOMAIN log : IsLatestVerification(log, v)

(* What a record says was checked is in the log d stands beside.           *)
RecordEntered(d, log) ==
  d # NoData =>
    /\ HasVerification(log)
    /\ d.aml => EnteredSince(log, "aml")
    /\ d.sanctions => EnteredSince(log, "sanctions")
    /\ d.consent = "Given" => EnteredSince(log, "consent")

ChecksEntered == \A x \in Subjects : RecordEntered(complianceData[x], auditLog[x])

KycIInv == now \in Nat /\ ComplianceTypeOK /\ ChecksEntered /\ OneOpenRequest

(* An entry that is no verification leaves the latest one where it is, and *)
(* is itself entered since.                                                *)
LEMMA EntryAdded ==
  ASSUME NEW log \in Seq(KycActions), NEW a \in KycActions \ {"verification"},
         HasVerification(log)
  PROVE  /\ Append(log, a) \in Seq(KycActions)
         /\ HasVerification(Append(log, a)) /\ EnteredSince(Append(log, a), a)
         /\ \A check : EnteredSince(log, check) => EnteredSince(Append(log, a), check)
<1> DEFINE new == Append(log, a)
<1>1. /\ new \in Seq(KycActions) /\ Len(new) = Len(log) + 1 /\ Len(log) \in Nat
      /\ DOMAIN new = 1 .. Len(log) + 1 /\ DOMAIN log = 1 .. Len(log)
      /\ \A i \in 1 .. Len(log) : new[i] = log[i]
      /\ new[Len(log) + 1] = a
  BY DEF KycActions
<1> HIDE DEF new
<1>2. \A v \in DOMAIN log : IsLatestVerification(log, v) => v \in DOMAIN new /\ IsLatestVerification(new, v)
  BY <1>1 DEF IsLatestVerification
<1>3. HasVerification(new)
  BY <1>2 DEF HasVerification
<1>4. EnteredSince(new, a)
  <2>1. PICK v \in DOMAIN log : IsLatestVerification(log, v)
    BY DEF HasVerification
  <2>2. v \in DOMAIN new /\ IsLatestVerification(new, v) /\ Len(log) + 1 \in v + 1 .. Len(new)
    BY <1>1, <1>2, <2>1
  <2> QED
    BY <1>1, <2>2 DEF EnteredSince
<1>5. ASSUME NEW check, EnteredSince(log, check) PROVE EnteredSince(new, check)
  <2>1. PICK v \in DOMAIN log :
          IsLatestVerification(log, v) /\ \E i \in v + 1 .. Len(log) : log[i] = check
    BY <1>5 DEF EnteredSince
  <2>2. PICK i \in v + 1 .. Len(log) : log[i] = check
    BY <2>1
  <2>3. i \in v + 1 .. Len(new) /\ new[i] = check /\ v \in DOMAIN new /\ IsLatestVerification(new, v)
    BY <1>1, <1>2, <2>1, <2>2
  <2> QED
    BY <2>3 DEF EnteredSince
<1> QED
  BY <1>1, <1>3, <1>4, <1>5 DEF new

(* A verification is the latest one once it is entered.                    *)
LEMMA VerificationAdded ==
  ASSUME NEW log \in Seq(KycActions)
  PROVE  /\ Append(log, "verification") \in Seq(KycActions)
         /\ HasVerification(Append(log, "verification"))
<1> DEFINE new == Append(log, "verification")
<1>1. /\ new \in Seq(KycActions) /\ Len(new) = Len(log) + 1 /\ Len(log) \in Nat
      /\ DOMAIN new = 1 .. Len(log) + 1 /\ new[Len(log) + 1] = "verification"
  BY DEF KycActions
<1> HIDE DEF new
<1>2. IsLatestVerification(new, Len(log) + 1) /\ Len(log) + 1 \in DOMAIN new
  BY <1>1 DEF IsLatestVerification
<1> QED
  BY <1>1, <1>2 DEF HasVerification, new

(* One account's record and log are written together: the others keep      *)
(* theirs.                                                                 *)
LEMMA RecordWritten ==
  ASSUME KycIInv, NEW x \in Subjects,
         \A y \in Subjects \ {x} : complianceData'[y] = complianceData[y] /\ auditLog'[y] = auditLog[y],
         RecordEntered(complianceData'[x], auditLog'[x])
  PROVE  ChecksEntered'
  BY DEF KycIInv, ChecksEntered, RecordEntered

(* A verification starts from no checks, and is entered.                   *)
LEMMA VerifyKeeps ==
  ASSUME ComplianceAssumption, KycIInv, NEW x \in Subjects, NEW j \in Jurisdictions, NEW risk \in Levels,
         NEW e \in Evidence, Verify(x, j, risk, e)
  PROVE  /\ complianceData' \in [Subjects -> KycRecords \cup {NoData}]
         /\ auditLog' \in [Subjects -> Seq(KycActions)]
         /\ ChecksEntered'
<1>1. complianceData \in [Subjects -> KycRecords \cup {NoData}] /\ auditLog \in [Subjects -> Seq(KycActions)]
  BY DEF KycIInv, ComplianceTypeOK, KycActions
<1> DEFINE d == complianceData'[x]
<1>2. /\ d \in KycRecords /\ ~d.aml /\ ~d.sanctions /\ d.consent = "NotGiven"
      /\ \A y \in Subjects \ {x} : complianceData'[y] = complianceData[y]
      /\ complianceData' \in [Subjects -> KycRecords \cup {NoData}]
  <2>1. rules[j] \in KycRules /\ now \in Nat /\ Validity \in Nat
    BY DEF Verify, KycIInv, ComplianceTypeOK, ComplianceAssumption
  <2>2. rules[j].retention \in Nat
    BY <2>1 DEF KycRules
  <2> DEFINE new == [status |-> "Verified", risk |-> risk, expiry |-> now + Validity,
                     retention |-> now + rules[j].retention,
                     aml |-> NoChecks(x).aml, sanctions |-> NoChecks(x).sanctions,
                     consent |-> NoChecks(x).consent]
  <2>3. new \in KycRecords /\ ~new.aml /\ ~new.sanctions /\ new.consent = "NotGiven"
    BY <2>1, <2>2 DEF NoChecks, KycRecords, ComplianceAssumption
  <2>4. complianceData' = [complianceData EXCEPT ![x] = new]
    BY DEF Verify
  <2> HIDE DEF new
  <2> QED
    BY <1>1, <2>3, <2>4
<1>3. /\ auditLog'[x] = Append(auditLog[x], "verification")
      /\ \A y \in Subjects \ {x} : auditLog'[y] = auditLog[y]
      /\ auditLog' \in [Subjects -> Seq(KycActions)]
  <2>1. auditLog[x] \in Seq(KycActions)
    BY <1>1
  <2>2. Append(auditLog[x], "verification") \in Seq(KycActions)
    BY <2>1, VerificationAdded
  <2>3. auditLog' = [auditLog EXCEPT ![x] = Append(auditLog[x], "verification")]
    BY DEF Verify, LogAuditEvent
  <2> QED
    BY <1>1, <2>2, <2>3
<1>4. RecordEntered(d, auditLog'[x])
  <2>1. auditLog[x] \in Seq(KycActions)
    BY <1>1
  <2>2. HasVerification(auditLog'[x])
    BY <1>3, <2>1, VerificationAdded
  <2> HIDE DEF d
  <2> QED
    BY <1>2, <2>2 DEF RecordEntered
<1> QED
  BY <1>1, <1>2, <1>3, <1>4, RecordWritten

(* A check is entered with what it writes, for each account of a batch.    *)
LEMMA UpdateKeeps ==
  ASSUME ComplianceAssumption, KycIInv, NEW xs \in SUBSET Subjects, NEW new \in [xs -> KycRecords],
         NEW a \in KycActions \ {"verification"}, Update(new, a), UNCHANGED now,
         \A x \in xs : /\ Known(x)
                       /\ new[x].aml = complianceData[x].aml \/ a = "aml"
                       /\ new[x].sanctions = complianceData[x].sanctions \/ a = "sanctions"
                       /\ new[x].consent = complianceData[x].consent \/ a = "consent"
  PROVE  KycIInv'
<1>1. complianceData \in [Subjects -> KycRecords \cup {NoData}] /\ auditLog \in [Subjects -> Seq(KycActions)]
  BY DEF KycIInv, ComplianceTypeOK, KycActions
<1>2. \A x \in xs : Append(auditLog[x], a) \in Seq(KycActions)
  BY <1>1
<1>3. /\ complianceData' \in [Subjects -> KycRecords \cup {NoData}]
      /\ auditLog' \in [Subjects -> Seq(KycActions)]
  BY <1>1, <1>2 DEF Update
<1>4. ASSUME NEW x \in Subjects PROVE RecordEntered(complianceData'[x], auditLog'[x])
  <2>1. RecordEntered(complianceData[x], auditLog[x]) /\ auditLog[x] \in Seq(KycActions)
    BY <1>1 DEF KycIInv, ChecksEntered
  <2>2. CASE x \notin xs
    <3>1. complianceData'[x] = complianceData[x] /\ auditLog'[x] = auditLog[x]
      BY <2>2 DEF Update
    <3> QED
      BY <2>1, <3>1
  <2>3. CASE x \in xs
    <3>1. complianceData'[x] = new[x] /\ auditLog'[x] = Append(auditLog[x], a)
      BY <2>3 DEF Update
    <3> DEFINE log == Append(auditLog[x], a)
    <3>2. HasVerification(auditLog[x])
      BY <2>1, <2>3 DEF RecordEntered, Known
    <3>3. /\ HasVerification(log) /\ EnteredSince(log, a)
          /\ \A check : EnteredSince(auditLog[x], check) => EnteredSince(log, check)
      BY <2>1, <3>2, EntryAdded
    <3> HIDE DEF log
    <3>4. /\ new[x].aml => EnteredSince(log, "aml")
          /\ new[x].sanctions => EnteredSince(log, "sanctions")
          /\ new[x].consent = "Given" => EnteredSince(log, "consent")
      BY <2>1, <2>3, <3>3 DEF RecordEntered, Known
    <3> QED
      BY <3>1, <3>3, <3>4 DEF RecordEntered, log
  <2> QED
    BY <2>2, <2>3
<1> QED
  BY <1>3, <1>4 DEF Update, KycIInv, ComplianceTypeOK, KycActions, ChecksEntered, OneOpenRequest, kycRequestVars

(* The registry starts with no record and no request.                      *)
LEMMA InitKyc == ComplianceAssumption /\ ClockInit /\ ComplianceInit => KycIInv
<1> SUFFICES ASSUME ComplianceAssumption, ClockInit, ComplianceInit PROVE KycIInv
  OBVIOUS
<1>1. ComplianceTypeOK
  BY DEF ComplianceInit, ComplianceTypeOK, ComplianceAssumption, Callers
<1>2. ChecksEntered
  BY DEF ComplianceInit, ChecksEntered, RecordEntered
<1>3. OneOpenRequest
  BY DEF ComplianceInit, OneOpenRequest
<1> QED
  BY <1>1, <1>2, <1>3 DEF ClockInit, KycIInv

(* A request is taken while the account has no open one.                   *)
LEMMA RequestKeeps ==
  ASSUME ComplianceAssumption, KycIInv, UNCHANGED now, NEW x \in Subjects, NEW j \in Jurisdictions,
         CreateVerificationRequest(x, j)
  PROVE  KycIInv'
<1>1. /\ verificationRequest \in Seq(KycRequests) /\ Len(verificationRequest) \in Nat
      /\ accountRequest \in [Subjects -> 1 .. Len(verificationRequest) \cup {NoRequest}]
      /\ NoRequest \notin Nat
  BY DEF KycIInv, ComplianceTypeOK, KycRequests, ComplianceAssumption
<1> DEFINE n == Len(verificationRequest)
           r == [account |-> x, jurisdiction |-> j, status |-> "Pending"]
<1>2. r \in KycRequests
  BY DEF KycRequests
<1>3. verificationRequest' = Append(verificationRequest, r)
  BY DEF CreateVerificationRequest
<1> HIDE DEF r
<1>4. /\ verificationRequest' \in Seq(KycRequests) /\ Len(verificationRequest') = n + 1
      /\ \A i \in 1 .. n : verificationRequest'[i] = verificationRequest[i]
      /\ verificationRequest'[n + 1] = r
  BY <1>1, <1>2, <1>3
<1>5. accountRequest' = [accountRequest EXCEPT ![x] = n + 1]
  BY <1>4 DEF CreateVerificationRequest
<1>6. \A i \in 1 .. n : verificationRequest[i].status = "Pending" => verificationRequest[i].account # x
  <2> SUFFICES ASSUME NEW i \in 1 .. n, verificationRequest[i].status = "Pending",
                      verificationRequest[i].account = x
               PROVE  FALSE
    OBVIOUS
  <2>1. accountRequest[x] = i
    BY DEF KycIInv, OneOpenRequest
  <2>2. accountRequest[x] # NoRequest
    BY <1>1, <2>1
  <2> QED
    BY <2>1, <2>2 DEF CreateVerificationRequest
<1>7. OneOpenRequest'
  <2> SUFFICES ASSUME NEW i \in 1 .. n + 1, verificationRequest'[i].status = "Pending"
               PROVE  accountRequest'[verificationRequest'[i].account] = i
    BY <1>4 DEF OneOpenRequest
  <2>1. verificationRequest'[i].account \in Subjects
    <3>1. n + 1 \in Nat /\ i \in 1 .. Len(verificationRequest')
      BY <1>1, <1>4
    <3>2. verificationRequest'[i] \in KycRequests
      BY <1>4, <3>1
    <3> QED
      BY <3>2 DEF KycRequests
  <2>2. CASE i = n + 1
    <3>1. verificationRequest'[i].account = x
      BY <1>4, <2>2 DEF r
    <3> QED
      BY <1>1, <1>5, <2>2, <3>1
  <2>3. CASE i \in 1 .. n
    <3>1. verificationRequest'[i] = verificationRequest[i]
      BY <1>4, <2>3
    <3>2. verificationRequest[i].account # x /\ accountRequest[verificationRequest[i].account] = i
      BY <1>6, <2>3, <3>1 DEF KycIInv, OneOpenRequest
    <3> QED
      BY <1>1, <1>5, <2>1, <3>1, <3>2
  <2> QED
    BY <1>1, <2>2, <2>3
<1>8. accountRequest' \in [Subjects -> 1 .. Len(verificationRequest') \cup {NoRequest}]
  BY <1>1, <1>4, <1>5
<1> QED
  BY <1>4, <1>7, <1>8 DEF CreateVerificationRequest, registryVars, KycIInv, ComplianceTypeOK, KycRequests,
     ChecksEntered

(* A request is verified together with the account's record.               *)
LEMMA ProcessKeeps ==
  ASSUME ComplianceAssumption, KycIInv, UNCHANGED now, NEW v, NEW i \in 1 .. Len(verificationRequest),
         NEW risk \in Levels, NEW e \in Evidence, ProcessVerificationRequest(v, i, risk, e)
  PROVE  KycIInv'
<1>1. /\ verificationRequest \in Seq(KycRequests)
      /\ accountRequest \in [Subjects -> 1 .. Len(verificationRequest) \cup {NoRequest}]
  BY DEF KycIInv, ComplianceTypeOK, KycRequests
<1>2. verificationRequest[i] \in KycRequests
  BY <1>1
<1>3. /\ complianceData' \in [Subjects -> KycRecords \cup {NoData}]
      /\ auditLog' \in [Subjects -> Seq(KycActions)] /\ ChecksEntered'
  <2>1. verificationRequest[i].account \in Subjects /\ verificationRequest[i].jurisdiction \in Jurisdictions
    BY <1>2 DEF KycRequests
  <2> QED
    BY <2>1, VerifyKeeps DEF ProcessVerificationRequest
<1> DEFINE r == [verificationRequest[i] EXCEPT !.status = "Verified"]
<1>4. r \in KycRequests /\ r.status = "Verified"
  BY <1>2 DEF KycRequests
<1>5. verificationRequest' = [verificationRequest EXCEPT ![i] = r]
  BY DEF ProcessVerificationRequest
<1> HIDE DEF r
<1>6. /\ verificationRequest' \in Seq(KycRequests) /\ Len(verificationRequest') = Len(verificationRequest)
      /\ verificationRequest'[i] = r
      /\ \A k \in 1 .. Len(verificationRequest) : k # i => verificationRequest'[k] = verificationRequest[k]
  BY <1>1, <1>4, <1>5
<1>7. OneOpenRequest'
  BY <1>4, <1>6 DEF OneOpenRequest, KycIInv, ProcessVerificationRequest
<1> QED
  BY <1>1, <1>3, <1>6, <1>7 DEF ProcessVerificationRequest, KycIInv, ComplianceTypeOK, KycRequests, KycActions

(* A record that is marked keeps its checks.                               *)
LEMMA MarkKeeps ==
  ASSUME ComplianceAssumption, KycIInv, UNCHANGED now, NEW x \in Subjects,
         NEW status \in {"Rejected", "Expired"}, MarkRecord(x, status)
  PROVE  KycIInv'
<1>1. complianceData \in [Subjects -> KycRecords \cup {NoData}]
  BY DEF KycIInv, ComplianceTypeOK
<1> DEFINE d == [complianceData[x] EXCEPT !.status = status]
<1>2. /\ d \in KycRecords /\ d.aml = complianceData[x].aml
      /\ d.sanctions = complianceData[x].sanctions /\ d.consent = complianceData[x].consent
  BY <1>1 DEF MarkRecord, Known, KycRecords
<1>3. complianceData' = [complianceData EXCEPT ![x] = d]
  BY DEF MarkRecord
<1> HIDE DEF d
<1>4. /\ complianceData' \in [Subjects -> KycRecords \cup {NoData}] /\ complianceData'[x] = d
      /\ \A y \in Subjects \ {x} : complianceData'[y] = complianceData[y]
  BY <1>1, <1>2, <1>3
<1>5. UNCHANGED <<auditLog, verifiers, rules, kycRequestVars>>
  BY DEF MarkRecord
<1>6. RecordEntered(d, auditLog[x])
  <2>1. RecordEntered(complianceData[x], auditLog[x]) /\ complianceData[x] # NoData
    BY DEF KycIInv, ChecksEntered, MarkRecord, Known
  <2> QED
    BY <1>2, <2>1 DEF RecordEntered
<1>7. ChecksEntered'
  BY <1>4, <1>5, <1>6, RecordWritten
<1> QED
  BY <1>4, <1>5, <1>7 DEF kycRequestVars, KycIInv, ComplianceTypeOK, OneOpenRequest

(* An operation on one account keeps the invariant.                        *)
LEMMA OfOneKeeps ==
  ASSUME ComplianceAssumption, KycIInv, UNCHANGED now, NEW v, NEW x \in Subjects, OfOne(v, x)
  PROVE  KycIInv'
<1>1. complianceData[x] \in KycRecords \cup {NoData}
  BY DEF KycIInv, ComplianceTypeOK
<1>2. ASSUME NEW j \in Jurisdictions, NEW l \in Levels, NEW e \in Evidence, SubmitVerification(v, x, j, l, e)
      PROVE  KycIInv'
  <2>1. /\ complianceData' \in [Subjects -> KycRecords \cup {NoData}]
        /\ auditLog' \in [Subjects -> Seq(KycActions)] /\ ChecksEntered'
    BY <1>2, VerifyKeeps DEF SubmitVerification
  <2> QED
    BY <1>2, <2>1 DEF SubmitVerification, kycRequestVars, KycIInv, ComplianceTypeOK, KycActions, OneOpenRequest
<1>3. ASSUME NEW ok \in BOOLEAN, NEW n \in RiskCounts, UpdateAmlStatus(v, x, ok, n) PROVE KycIInv'
  <2> DEFINE new == [y \in {x} |-> AmlOf(complianceData[y], ok, n)]
  <2>1. Known(x) /\ Update(new, "aml")
    BY <1>3 DEF UpdateAmlStatus
  <2>2. new \in [{x} -> KycRecords] /\ new[x].sanctions = complianceData[x].sanctions
        /\ new[x].consent = complianceData[x].consent
    BY <1>1, <2>1 DEF Known, AmlOf, KycRecords
  <2> HIDE DEF new
  <2>3. {x} \in SUBSET Subjects /\ "aml" \in KycActions \ {"verification"}
    BY DEF KycActions
  <2> QED
    BY <2>1, <2>2, <2>3, UpdateKeeps
<1>4. ASSUME NEW ok \in BOOLEAN, UpdateSanctionsStatus(v, x, ok) PROVE KycIInv'
  <2> DEFINE new == [y \in {x} |-> SanctionsOf(complianceData[y], ok)]
  <2>1. Known(x) /\ Update(new, "sanctions")
    BY <1>4 DEF UpdateSanctionsStatus
  <2>2. new \in [{x} -> KycRecords] /\ new[x].aml = complianceData[x].aml
        /\ new[x].consent = complianceData[x].consent
    BY <1>1, <2>1 DEF Known, SanctionsOf, KycRecords
  <2> HIDE DEF new
  <2>3. {x} \in SUBSET Subjects /\ "sanctions" \in KycActions \ {"verification"}
    BY DEF KycActions
  <2> QED
    BY <2>1, <2>2, <2>3, UpdateKeeps
<1>5. ASSUME NEW c \in Consents, UpdateConsent(v, x, c) PROVE KycIInv'
  <2> DEFINE new == [y \in {x} |-> [complianceData[y] EXCEPT !.consent = c]]
  <2>1. Known(x) /\ Update(new, "consent")
    BY <1>5 DEF UpdateConsent
  <2>2. new \in [{x} -> KycRecords] /\ new[x].aml = complianceData[x].aml
        /\ new[x].sanctions = complianceData[x].sanctions
    BY <1>1, <2>1 DEF Known, KycRecords
  <2> HIDE DEF new
  <2>3. {x} \in SUBSET Subjects /\ "consent" \in KycActions \ {"verification"}
    BY DEF KycActions
  <2> QED
    BY <2>1, <2>2, <2>3, UpdateKeeps
<1>6. CASE RevokeVerification(v, x)
  BY <1>6, MarkKeeps DEF RevokeVerification
<1> QED
  BY <1>2, <1>3, <1>4, <1>5, <1>6 DEF OfOne

(* A batch keeps the invariant.                                            *)
LEMMA OfManyKeeps ==
  ASSUME ComplianceAssumption, KycIInv, UNCHANGED now, NEW v, OfMany(v)
  PROVE  KycIInv'
<1>1. complianceData \in [Subjects -> KycRecords \cup {NoData}]
  BY DEF KycIInv, ComplianceTypeOK
<1>2. ASSUME NEW xs \in SUBSET Subjects, NEW counts \in [xs -> RiskCounts], NEW funded \in SUBSET xs,
             BatchAmlCheck(v, counts, funded)
      PROVE  KycIInv'
  <2> DEFINE known == {x \in DOMAIN counts : Known(x)}
             new == [y \in known |-> AmlOf(complianceData[y], counts[y] < 3 /\ y \in funded, counts[y])]
  <2>1. Update(new, "aml")
    BY <1>2 DEF BatchAmlCheck
  <2>2. known \in SUBSET Subjects /\ \A x \in known : Known(x)
    OBVIOUS
  <2>3. ASSUME NEW x \in known
        PROVE  /\ new[x] \in KycRecords /\ new[x].sanctions = complianceData[x].sanctions
               /\ new[x].consent = complianceData[x].consent
    <3>1. complianceData[x] \in KycRecords /\ (counts[x] < 3 /\ x \in funded) \in BOOLEAN
      BY <1>1, <2>2 DEF Known
    <3> QED
      BY <3>1 DEF AmlOf, KycRecords
  <2>5. new \in [known -> KycRecords]
    BY <2>3
  <2> HIDE DEF new, known
  <2>4. "aml" \in KycActions \ {"verification"}
    BY DEF KycActions
  <2> QED
    BY <2>1, <2>2, <2>3, <2>4, <2>5, UpdateKeeps
<1>3. ASSUME NEW xs \in SUBSET Subjects, NEW results \in [xs -> BOOLEAN], BatchSanctionsCheck(v, results)
      PROVE  KycIInv'
  <2> DEFINE new == [y \in DOMAIN results |-> SanctionsOf(complianceData[y], results[y])]
  <2>1. Update(new, "sanctions") /\ \A x \in xs : Known(x)
    BY <1>3 DEF BatchSanctionsCheck
  <2>2. ASSUME NEW x \in xs
        PROVE  /\ new[x] \in KycRecords /\ new[x].aml = complianceData[x].aml
               /\ new[x].consent = complianceData[x].consent
    <3>1. complianceData[x] \in KycRecords /\ results[x] \in BOOLEAN
      BY <1>1, <2>1 DEF Known
    <3> QED
      BY <3>1 DEF SanctionsOf, KycRecords
  <2>4. new \in [xs -> KycRecords]
    BY <2>2
  <2> HIDE DEF new
  <2>3. "sanctions" \in KycActions \ {"verification"}
    BY DEF KycActions
  <2> QED
    BY <2>1, <2>2, <2>3, <2>4, UpdateKeeps
<1> QED
  BY <1>2, <1>3 DEF OfMany

(* Every operation, and time, keep the invariant.                          *)
LEMMA NextKyc ==
  ComplianceAssumption /\ KycIInv /\ [ComplianceNext]_<<now, complianceVars>> => KycIInv'
<1> SUFFICES ASSUME ComplianceAssumption, KycIInv, [ComplianceNext]_<<now, complianceVars>> PROVE KycIInv'
  OBVIOUS
<1>1. ASSUME now' \in Nat, UNCHANGED <<registryVars, kycRequestVars>>,
             verifiers' \subseteq Callers, Owner \in verifiers', rules' \in [Jurisdictions -> KycRules \cup {NoRules}]
      PROVE  KycIInv'
  BY <1>1 DEF KycIInv, ComplianceTypeOK, ChecksEntered, OneOpenRequest, registryVars, kycRequestVars
<1>2. /\ now \in Nat /\ verifiers \subseteq Callers /\ Owner \in verifiers
      /\ rules \in [Jurisdictions -> KycRules \cup {NoRules}]
  BY DEF KycIInv, ComplianceTypeOK
<1>3. CASE ChecksNext /\ UNCHANGED now
  <2>1. ASSUME NEW x \in Subjects, RequestDataDeletion(x) PROVE KycIInv'
    BY <1>3, <2>1, MarkKeeps DEF RequestDataDeletion
  <2> QED
    BY <1>3, <2>1, OfOneKeeps, OfManyKeeps DEF ChecksNext
<1>4. CASE RequestsNext /\ UNCHANGED now
  <2>1. ASSUME NEW v \in Providers, AddVerifier(v) \/ \E k \in 0 .. 3 : RegisterServiceProvider(v, k)
        PROVE  KycIInv'
    BY <1>1, <1>2, <1>4, <2>1 DEF AddVerifier, RegisterServiceProvider, Callers
  <2>2. ASSUME NEW j \in Jurisdictions, NEW r \in KycRuleChanges, UpdateJurisdictionRules(j, r) PROVE KycIInv'
    BY <1>1, <1>2, <1>4, <2>2 DEF UpdateJurisdictionRules, ComplianceAssumption
  <2> QED
    BY <1>4, <2>1, <2>2, RequestKeeps, ProcessKeeps DEF RequestsNext
<1>5. CASE ComplianceTick
  BY <1>1, <1>2, <1>5 DEF ComplianceTick, ClockTicks, complianceVars
<1>6. CASE UNCHANGED <<now, complianceVars>>
  BY <1>1, <1>2, <1>6 DEF complianceVars
<1> QED
  BY <1>3, <1>4, <1>5, <1>6 DEF ComplianceNext

LEMMA KycInvariance == ASSUME ComplianceAssumption PROVE ComplianceSpec => []KycIInv
<1>1. KycIInv /\ [ComplianceNext]_<<now, complianceVars>> => KycIInv'
  BY NextKyc
<1> QED
  BY InitKyc, <1>1, PTL DEF ComplianceSpec

(* Whoever the registry calls compliant was checked for money laundering   *)
(* and sanctions and gave the consent since the latest verification; an    *)
(* account has one open request at most.                                   *)
THEOREM ComplianceRests == ASSUME ComplianceAssumption PROVE ComplianceSpec => []RegistrySound
<1>1. KycIInv => RegistrySound
  <2> SUFFICES ASSUME KycIInv, NEW x \in Subjects, IsCompliant(x)
               PROVE  \A check \in {"aml", "sanctions", "consent"} : EnteredSince(auditLog[x], check)
    BY DEF RegistrySound, ComplianceIsAudited, KycIInv
  <2> QED
    BY DEF IsCompliant, Known, KycIInv, ChecksEntered, RecordEntered
<1> QED
  BY KycInvariance, <1>1, PTL

-----------------------------------------------------------------------------
(***************************************************************************)
(* Proofs of compliance, their statistics and their log.                   *)
(***************************************************************************)
ZkIInv == now \in Nat /\ ZkTypeOK /\ ProofRecordsAgree

(* The counts are numbers.                                                 *)
LEMMA MarksCounted ==
  ASSUME NEW T, NEW q \in Seq(T)
  PROVE  /\ IsFiniteSet(ByVerifier(q)) /\ Cardinality(ByVerifier(q)) \in Nat
         /\ \A s : IsFiniteSet(Having(q, s)) /\ Cardinality(Having(q, s)) \in Nat
<1>1. Len(q) \in Nat
  BY LenProperties
<1>2. IsFiniteSet(1 .. Len(q))
  BY <1>1, FS_Interval
<1>3. IsFiniteSet(ByVerifier(q)) /\ \A s : IsFiniteSet(Having(q, s))
  BY <1>2, FS_Subset DEF ByVerifier, Having
<1> QED
  BY <1>3, FS_CardinalityType

(* A record more at the end is counted under its status.                   *)
LEMMA AppendedCounts ==
  ASSUME NEW T, NEW q \in Seq(T), NEW e \in T
  PROVE  /\ Append(q, e) \in Seq(T) /\ Len(Append(q, e)) = Len(q) + 1
         /\ \A s : Cardinality(Having(Append(q, e), s))
                     = Cardinality(Having(q, s)) + (IF e.status = s THEN 1 ELSE 0)
         /\ ~(e.status = "Verified" /\ e.decided) => ByVerifier(Append(q, e)) = ByVerifier(q)
<1> DEFINE a == Append(q, e)
           n == Len(q)
<1>1. /\ a \in Seq(T) /\ Len(a) = n + 1 /\ n \in Nat /\ a[n + 1] = e
      /\ \A i \in 1 .. n : a[i] = q[i]
  BY AppendProperties, LenProperties
<1> HIDE DEF a, n
<1>2. 1 .. n + 1 = (1 .. n) \cup {n + 1} /\ n + 1 \notin 1 .. n
  BY <1>1
<1>3. \A i \in 1 .. n + 1 : i \in 1 .. n \/ i = n + 1
  BY <1>2
<1>4. ASSUME NEW s
      PROVE  Cardinality(Having(a, s)) = Cardinality(Having(q, s)) + (IF e.status = s THEN 1 ELSE 0)
  <2>0. IsFiniteSet(Having(q, s)) /\ Cardinality(Having(q, s)) \in Nat
    BY MarksCounted
  <2>1. CASE e.status = s
    <3>1. Having(a, s) = Having(q, s) \cup {n + 1} /\ n + 1 \notin Having(q, s)
      BY <1>1, <1>2, <2>1 DEF Having, n
    <3> QED
      BY <2>0, <2>1, <3>1, FS_AddElement
  <2>2. CASE e.status # s
    <3>1. Having(a, s) = Having(q, s)
      BY <1>1, <1>2, <2>2 DEF Having, n
    <3> QED
      BY <2>0, <2>2, <3>1
  <2> QED
    BY <2>1, <2>2
<1>5. ~(e.status = "Verified" /\ e.decided) => ByVerifier(a) = ByVerifier(q)
  BY <1>1, <1>2 DEF ByVerifier, n
<1> QED
  BY <1>1, <1>4, <1>5 DEF a, n

(* A pending proof that is decided is counted under its new status.        *)
LEMMA DecidedCounts ==
  ASSUME NEW q \in Seq(Proofs), NEW i \in 1 .. Len(q), q[i].status = "Pending",
         NEW p \in Proofs, p.status \in {"Verified", "Rejected"}, p.decided
  PROVE  LET r == [q EXCEPT ![i] = p]
         IN  /\ r \in Seq(Proofs) /\ Len(r) = Len(q) /\ r[i] = p
             /\ \A s \in {"Verified", "Rejected"} :
                  Cardinality(Having(r, s)) = Cardinality(Having(q, s)) + (IF p.status = s THEN 1 ELSE 0)
             /\ Cardinality(ByVerifier(r))
                  = Cardinality(ByVerifier(q)) + (IF p.status = "Verified" THEN 1 ELSE 0)
<1> DEFINE r == [q EXCEPT ![i] = p]
<1>1. r \in Seq(Proofs) /\ Len(r) = Len(q) /\ r[i] = p /\ \A j \in 1 .. Len(q) : j # i => r[j] = q[j]
  BY ExceptSeq
<1> HIDE DEF r
<1>2. ASSUME NEW s \in {"Verified", "Rejected"}
      PROVE  Cardinality(Having(r, s)) = Cardinality(Having(q, s)) + (IF p.status = s THEN 1 ELSE 0)
  <2>0. IsFiniteSet(Having(q, s)) /\ Cardinality(Having(q, s)) \in Nat
    BY MarksCounted
  <2>1. CASE p.status = s
    <3>1. Having(r, s) = Having(q, s) \cup {i} /\ i \notin Having(q, s)
      BY <1>1, <2>1 DEF Having
    <3>2. Cardinality(Having(q, s) \cup {i}) = Cardinality(Having(q, s)) + 1
      BY <2>0, <3>1, FS_AddElement
    <3> QED
      BY <2>1, <3>1, <3>2
  <2>2. CASE p.status # s
    <3>1. Having(r, s) = Having(q, s)
      BY <1>1, <2>2 DEF Having
    <3> QED
      BY <2>0, <2>2, <3>1
  <2> QED
    BY <2>1, <2>2
<1>3. Cardinality(ByVerifier(r)) = Cardinality(ByVerifier(q)) + (IF p.status = "Verified" THEN 1 ELSE 0)
  <2>0. IsFiniteSet(ByVerifier(q)) /\ Cardinality(ByVerifier(q)) \in Nat
    BY MarksCounted
  <2>1. CASE p.status = "Verified"
    <3>1. ByVerifier(r) = ByVerifier(q) \cup {i} /\ i \notin ByVerifier(q)
      BY <1>1, <2>1 DEF ByVerifier
    <3> QED
      BY <2>0, <2>1, <3>1, FS_AddElement
  <2>2. CASE p.status # "Verified"
    <3>1. ByVerifier(r) = ByVerifier(q)
      BY <1>1, <2>2 DEF ByVerifier
    <3> QED
      BY <2>0, <2>2, <3>1
  <2> QED
    BY <2>1, <2>2
<1> QED
  BY <1>1, <1>2, <1>3 DEF r

(* What remains to be shown of a step that changes one account's proofs    *)
(* and log.                                                                *)
LEMMA AccountWritten ==
  ASSUME ZkAssumption, ZkIInv, NEW x \in Provers, NEW q \in Seq(Proofs), NEW e \in Seq(Entries),
         proof' = [proof EXCEPT ![x] = q], entries' = [entries EXCEPT ![x] = e],
         LogTells(e, q), Len(q) >= Len(proof[x]),
         stats' \in [total : Nat, successful : Nat, failed : Nat],
         stats'.successful + Cardinality(ByVerifier(proof[x]))
           = stats.successful + Cardinality(ByVerifier(q)),
         stats'.failed + Cardinality(Having(proof[x], "Rejected"))
           = stats.failed + Cardinality(Having(q, "Rejected")),
         stats'.total = stats'.successful + stats'.failed,
         \/ zkData' = zkData
         \/ /\ zkData' = [zkData EXCEPT ![x] = [ids |-> Append(@.ids, Len(q)), status |-> q[Len(q)].status]]
            /\ Len(q) > 0,
         UNCHANGED <<approvedVerifiers, privacyLevel, now>>
  PROVE  ZkIInv'
<1>0. ZkTypeOK /\ ProofRecordsAgree /\ now \in Nat /\ IsFiniteSet(Provers)
  BY DEF ZkIInv, ZkAssumption
<1> DEFINE np == proof'
           ne == entries'
<1>1. /\ np \in [Provers -> Seq(Proofs)] /\ ne \in [Provers -> Seq(Entries)]
      /\ np[x] = q /\ ne[x] = e /\ \A y \in Provers \ {x} : np[y] = proof[y] /\ ne[y] = entries[y]
  BY <1>0 DEF ZkTypeOK
<1> HIDE DEF np, ne
<1>2. ASSUME NEW y \in Provers PROVE LogTells(ne[y], np[y])
  <2>1. LogTells(entries[y], proof[y])
    BY <1>0 DEF ProofRecordsAgree, AuditMatchesProofs
  <2> QED
    BY <1>1, <2>1
<1>3. AuditMatchesProofs'
  BY <1>2 DEF AuditMatchesProofs, np, ne
<1> DEFINE f == Successes
           g == Successes'
<1>4. /\ \A y \in Provers : f[y] \in Nat /\ f[y] = Cardinality(ByVerifier(proof[y]))
      /\ \A y \in Provers : g[y] = Cardinality(ByVerifier(np[y]))
  <2>1. \A y \in Provers : Cardinality(ByVerifier(proof[y])) \in Nat
    BY <1>0, MarksCounted DEF ZkTypeOK
  <2> QED
    BY <2>1 DEF Successes, np
<1> HIDE DEF f, g
<1>5. /\ g[x] \in Nat /\ g[x] = Cardinality(ByVerifier(q))
      /\ \A y \in Provers \ {x} : g[y] = f[y]
  <2>1. Cardinality(ByVerifier(q)) \in Nat
    BY MarksCounted
  <2>2. g[x] = Cardinality(ByVerifier(np[x])) /\ np[x] = q
    BY <1>1, <1>4
  <2>3. ASSUME NEW y \in Provers \ {x} PROVE g[y] = f[y]
    <3>1. np[y] = proof[y]
      BY <1>1
    <3>2. g[y] = Cardinality(ByVerifier(np[y])) /\ f[y] = Cardinality(ByVerifier(proof[y]))
      BY <1>4
    <3> QED
      BY <3>1, <3>2
  <2> QED
    BY <2>1, <2>2, <2>3
<1>6. SumFunctionOnSet(g, Provers) = SumFunctionOnSet(f, Provers) + g[x] - f[x]
      /\ SumFunctionOnSet(f, Provers) \in Nat
  <2>1. (\A y \in Provers : f[y] \in Int) /\ g[x] \in Int /\ \A y \in Provers \ {x} : g[y] = f[y]
    BY <1>4, <1>5
  <2>2. SumFunctionOnSet(g, Provers) = SumFunctionOnSet(f, Provers) + g[x] - f[x]
    BY <1>0, <2>1, SumChange
  <2>3. SumFunctionOnSet(f, Provers) \in Nat
    BY <1>0, <1>4, SumNat
  <2> QED
    BY <2>2, <2>3
<1> DEFINE h == Failures
           k == Failures'
<1>7. /\ \A y \in Provers : h[y] \in Nat /\ h[y] = Cardinality(Having(proof[y], "Rejected"))
      /\ \A y \in Provers : k[y] = Cardinality(Having(np[y], "Rejected"))
  <2>1. \A y \in Provers : Cardinality(Having(proof[y], "Rejected")) \in Nat
    BY <1>0, MarksCounted DEF ZkTypeOK
  <2> QED
    BY <2>1 DEF Failures, np
<1> HIDE DEF h, k
<1>8. /\ k[x] \in Nat /\ k[x] = Cardinality(Having(q, "Rejected"))
      /\ \A y \in Provers \ {x} : k[y] = h[y]
  <2>1. Cardinality(Having(q, "Rejected")) \in Nat
    BY MarksCounted
  <2>2. k[x] = Cardinality(Having(np[x], "Rejected")) /\ np[x] = q
    BY <1>1, <1>7
  <2>3. ASSUME NEW y \in Provers \ {x} PROVE k[y] = h[y]
    <3>1. np[y] = proof[y]
      BY <1>1
    <3>2. k[y] = Cardinality(Having(np[y], "Rejected")) /\ h[y] = Cardinality(Having(proof[y], "Rejected"))
      BY <1>7
    <3> QED
      BY <3>1, <3>2
  <2> QED
    BY <2>1, <2>2, <2>3
<1>9. SumFunctionOnSet(k, Provers) = SumFunctionOnSet(h, Provers) + k[x] - h[x]
      /\ SumFunctionOnSet(h, Provers) \in Nat
  <2>1. (\A y \in Provers : h[y] \in Int) /\ k[x] \in Int /\ \A y \in Provers \ {x} : k[y] = h[y]
    BY <1>7, <1>8
  <2>2. SumFunctionOnSet(k, Provers) = SumFunctionOnSet(h, Provers) + k[x] - h[x]
    BY <1>0, <2>1, SumChange
  <2>3. SumFunctionOnSet(h, Provers) \in Nat
    BY <1>0, <1>7, SumNat
  <2> QED
    BY <2>2, <2>3
<1>10. stats.successful = SumFunctionOnSet(f, Provers) /\ stats.failed = SumFunctionOnSet(h, Provers)
  BY <1>0 DEF ProofRecordsAgree, StatsMatchProofs, f, h
<1>11. stats'.successful \in Nat /\ stats'.failed \in Nat
  OBVIOUS
<1>12. stats'.successful = SumFunctionOnSet(g, Provers)
  <2> DEFINE now1 == stats'.successful
             sum == SumFunctionOnSet(f, Provers)
             old == f[x]
             new == g[x]
  <2>1. /\ now1 \in Nat /\ sum \in Nat /\ old \in Nat /\ new \in Nat
        /\ now1 + old = sum + new
    BY <1>4, <1>5, <1>6, <1>10, <1>11
  <2> HIDE DEF now1, sum, old, new
  <2>2. now1 = sum + new - old
    BY <2>1
  <2> QED
    BY <1>6, <2>2 DEF now1, sum, old, new
<1>13. stats'.failed = SumFunctionOnSet(k, Provers)
  <2> DEFINE now1 == stats'.failed
             sum == SumFunctionOnSet(h, Provers)
             old == h[x]
             new == k[x]
  <2>1. /\ now1 \in Nat /\ sum \in Nat /\ old \in Nat /\ new \in Nat
        /\ now1 + old = sum + new
    BY <1>7, <1>8, <1>9, <1>10, <1>11
  <2> HIDE DEF now1, sum, old, new
  <2>2. now1 = sum + new - old
    BY <2>1
  <2> QED
    BY <1>9, <2>2 DEF now1, sum, old, new
<1>14. StatsMatchProofs'
  BY <1>12, <1>13 DEF StatsMatchProofs, g, k
<1> DEFINE Summary == [ids : Seq(Nat), status : ProofStatuses \cup {"NotSubmitted"}]
<1>15. /\ zkData' \in [Provers -> Summary]
       /\ \A y \in Provers : \A i \in 1 .. Len(zkData'[y].ids) : zkData'[y].ids[i] \in 1 .. Len(np[y])
  <2>0. /\ zkData \in [Provers -> Summary]
        /\ \A y \in Provers : \A i \in 1 .. Len(zkData[y].ids) : zkData[y].ids[i] \in 1 .. Len(proof[y])
    BY <1>0 DEF ZkTypeOK
  <2>n. \A y \in Provers : Len(proof[y]) \in Nat /\ Len(np[y]) \in Nat /\ Len(np[y]) >= Len(proof[y])
    <3>1. \A y \in Provers : Len(proof[y]) \in Nat /\ Len(np[y]) \in Nat
      BY <1>0, <1>1, LenProperties DEF ZkTypeOK
    <3>2. \A n \in Nat : n >= n
      OBVIOUS
    <3> QED
      BY <1>1, <3>1, <3>2
  <2>m. \A m, n \in Nat : n >= m => \A j \in 1 .. m : j \in 1 .. n
    OBVIOUS
  <2>1. CASE zkData' = zkData
    <3> SUFFICES ASSUME NEW y \in Provers, NEW i \in 1 .. Len(zkData[y].ids)
                 PROVE  zkData[y].ids[i] \in 1 .. Len(np[y])
      BY <2>0, <2>1
    <3>1. zkData[y].ids[i] \in 1 .. Len(proof[y])
      BY <2>0
    <3> QED
      BY <2>m, <2>n, <3>1
  <2>2. CASE /\ zkData' = [zkData EXCEPT ![x] = [ids |-> Append(@.ids, Len(q)), status |-> q[Len(q)].status]]
             /\ Len(q) > 0
    <3> DEFINE ids == Append(zkData[x].ids, Len(q))
               st == q[Len(q)].status
               z == zkData'
    <3>1. zkData[x].ids \in Seq(Nat) /\ Len(q) \in Nat
      BY <2>0, LenProperties
    <3>2. /\ ids \in Seq(Nat) /\ Len(ids) = Len(zkData[x].ids) + 1 /\ ids[Len(zkData[x].ids) + 1] = Len(q)
          /\ \A i \in 1 .. Len(zkData[x].ids) : ids[i] = zkData[x].ids[i]
      BY <3>1, AppendProperties
    <3>3. st \in ProofStatuses
      <4>1. q[Len(q)] \in Proofs
        BY <2>2, <3>1, ElementOfSeq
      <4> QED
        BY <4>1 DEF Proofs
    <3>4. z[x].ids = ids /\ z \in [Provers -> Summary] /\ \A y \in Provers \ {x} : z[y] = zkData[y]
      <4>1. [ids |-> ids, status |-> st] \in Summary
        BY <3>2, <3>3
      <4>2. z = [zkData EXCEPT ![x] = [ids |-> ids, status |-> st]]
        BY <2>2
      <4> HIDE DEF ids, st, z
      <4> QED
        BY <2>0, <4>1, <4>2
    <3> HIDE DEF ids, st, z
    <3>5. ASSUME NEW y \in Provers, NEW i \in 1 .. Len(z[y].ids) PROVE z[y].ids[i] \in 1 .. Len(np[y])
      <4>1. CASE y # x
        BY <2>0, <2>m, <2>n, <3>4, <4>1
      <4>2. CASE y = x
        <5>1. Len(zkData[x].ids) \in Nat /\ i \in 1 .. Len(zkData[x].ids) + 1
          <6>1. Len(zkData[x].ids) \in Nat
            BY <3>1, LenProperties
          <6> QED
            BY <3>2, <3>4, <4>2, <6>1
        <5>n. \A n \in Nat : \A j \in 1 .. n + 1 : j = n + 1 \/ j \in 1 .. n
          OBVIOUS
        <5>2. CASE i = Len(zkData[x].ids) + 1
          <6>1. z[y].ids[i] = Len(q) /\ np[y] = q
            BY <1>1, <3>2, <3>4, <4>2, <5>2
          <6>2. Len(q) \in 1 .. Len(q)
            BY <2>2, <3>1
          <6> QED
            BY <6>1, <6>2
        <5>3. CASE i \in 1 .. Len(zkData[x].ids)
          <6>1. zkData[x].ids[i] \in 1 .. Len(proof[x]) /\ z[y].ids[i] = zkData[x].ids[i]
            BY <2>0, <3>2, <3>4, <4>2, <5>3
          <6> QED
            BY <2>m, <2>n, <4>2, <6>1
        <5> QED
          BY <5>1, <5>2, <5>3, <5>n
      <4> QED
        BY <4>1, <4>2
    <3> QED
      BY <3>4, <3>5 DEF z
  <2> QED
    BY <2>1, <2>2
<1>16. ZkTypeOK'
  BY <1>0, <1>1, <1>15 DEF ZkTypeOK, np, ne
<1> QED
  BY <1>0, <1>3, <1>14, <1>16 DEF ZkIInv, ProofRecordsAgree

-----------------------------------------------------------------------------
(* The proof and the line that an operation adds are of their types.       *)
LEMMA NewRecords ==
  ASSUME now \in Nat, NEW type \in ProofTypes
  PROVE  /\ \A s \in ProofStatuses, n \in Nat, filled \in BOOLEAN :
              /\ NewProof(type, s, n, filled) \in Proofs
              /\ NewProof(type, s, n, filled).status = s /\ ~NewProof(type, s, n, filled).decided
         /\ \A s \in ProofStatuses \cup {"NotSubmitted"}, action \in AddedActions \cup {"reject"} :
              Entry(type, s, action) \in Entries /\ Entry(type, s, action).status = s
  BY DEF NewProof, Proofs, Entry, Entries

LEMMA SubmitPreserves ==
  ASSUME ZkAssumption, ZkIInv, NEW x \in Provers, NEW t \in ProofTypes, NEW filled \in BOOLEAN,
         SubmitZkProof(x, t, filled), UNCHANGED now
  PROVE  ZkIInv'
<1> DEFINE p == NewProof(t, "Pending", ProofValidity, filled)
           l == Entry(t, "Pending", "submit")
           q == Append(proof[x], p)
           e == Append(entries[x], l)
<1>0. /\ proof[x] \in Seq(Proofs) /\ entries[x] \in Seq(Entries) /\ LogTells(entries[x], proof[x])
      /\ stats \in [total : Nat, successful : Nat, failed : Nat] /\ stats.total = stats.successful + stats.failed
  BY DEF ZkIInv, ZkTypeOK, ProofRecordsAgree, AuditMatchesProofs, StatsMatchProofs
<1>1. p \in Proofs /\ p.status = "Pending" /\ ~p.decided /\ l \in Entries /\ l.status = "Pending"
  <2>1. /\ "Pending" \in ProofStatuses /\ "Pending" \in ProofStatuses \cup {"NotSubmitted"}
        /\ "submit" \in AddedActions \cup {"reject"} /\ ProofValidity \in Nat /\ now \in Nat
    BY DEF ZkIInv, ZkAssumption, ProofStatuses, AddedActions
  <2> QED
    BY <2>1, NewRecords
<1>2. /\ proof' = [proof EXCEPT ![x] = q] /\ UNCHANGED <<zkData, stats, approvedVerifiers, privacyLevel>>
  BY DEF SubmitZkProof
<1>3. entries' = [entries EXCEPT ![x] = e]
  <2>1. Append(entries[x], l) = entries[x] \o <<l>>
    BY <1>0, <1>1, AppendIsConcat
  <2> QED
    BY <2>1 DEF SubmitZkProof, Log
<1>4. /\ q \in Seq(Proofs) /\ Len(q) = Len(proof[x]) + 1 /\ ByVerifier(q) = ByVerifier(proof[x])
      /\ \A s : Cardinality(Having(q, s)) = Cardinality(Having(proof[x], s)) + (IF p.status = s THEN 1 ELSE 0)
  BY <1>0, <1>1, AppendedCounts
<1>5. /\ e \in Seq(Entries)
      /\ \A s : Cardinality(Having(e, s)) = Cardinality(Having(entries[x], s)) + (IF l.status = s THEN 1 ELSE 0)
  BY <1>0, <1>1, AppendedCounts
<1> HIDE DEF q, e, p, l
<1>6. \A s \in {"Verified", "Rejected"} :
        /\ Cardinality(Having(q, s)) = Cardinality(Having(proof[x], s))
        /\ Cardinality(Having(e, s)) = Cardinality(Having(entries[x], s))
  <2>1. \A s : Cardinality(Having(proof[x], s)) \in Nat /\ Cardinality(Having(entries[x], s)) \in Nat
    BY <1>0, MarksCounted
  <2> QED
    BY <1>1, <1>4, <1>5, <2>1
<1>7. LogTells(e, q)
  <2>1. Cardinality(Having(e, "Pending")) = Cardinality(Having(entries[x], "Pending")) + 1
    BY <1>1, <1>5
  <2> QED
    BY <1>0, <1>4, <1>6, <2>1 DEF LogTells
<1>8. Len(q) >= Len(proof[x])
  BY <1>0, <1>4, LenProperties
<1> QED
  BY <1>0, <1>2, <1>3, <1>4, <1>5, <1>6, <1>7, <1>8, AccountWritten

LEMMA VerifyPreserves ==
  ASSUME ZkAssumption, ZkIInv, NEW x \in Provers, NEW v \in ZkVerifiers, NEW i \in 1 .. Len(proof[x]),
         NEW approve \in BOOLEAN, VerifyZkProof(v, x, i, approve), UNCHANGED now
  PROVE  ZkIInv'
<1> DEFINE o == proof[x][i]
           status == Decision(o, approve)
           n == [o EXCEPT !.status = status, !.decided = TRUE]
           l == Entry(o.type, status, IF approve THEN "verify" ELSE "reject")
           q == [proof[x] EXCEPT ![i] = n]
           e == Append(entries[x], l)
<1>0. /\ proof \in [Provers -> Seq(Proofs)]
      /\ proof[x] \in Seq(Proofs) /\ entries[x] \in Seq(Entries) /\ LogTells(entries[x], proof[x])
      /\ stats \in [total : Nat, successful : Nat, failed : Nat] /\ stats.total = stats.successful + stats.failed
  BY DEF ZkIInv, ZkTypeOK, ProofRecordsAgree, AuditMatchesProofs, StatsMatchProofs
<1>1. o \in Proofs /\ o.status = "Pending"
  BY <1>0, ElementOfSeq DEF VerifyZkProof
<1>2. status \in {"Verified", "Rejected"}
  BY DEF Decision
<1>3. /\ proof' = [proof EXCEPT ![x] = q] /\ UNCHANGED <<approvedVerifiers, privacyLevel>>
      /\ stats' = [total |-> stats.total + 1,
                   successful |-> stats.successful + IF status = "Verified" THEN 1 ELSE 0,
                   failed |-> stats.failed + IF status = "Verified" THEN 0 ELSE 1]
      /\ Refresh(x, proof'[x]) /\ entries' = [entries EXCEPT ![x] = @ \o <<l>>]
  <2>1. proof' = [proof EXCEPT ![x] = q] /\ UNCHANGED <<approvedVerifiers, privacyLevel>> /\ Refresh(x, proof'[x])
    BY <1>0 DEF VerifyZkProof
  <2>2. stats' = [total |-> stats.total + 1,
                   successful |-> stats.successful + IF status = "Verified" THEN 1 ELSE 0,
                   failed |-> stats.failed + IF status = "Verified" THEN 0 ELSE 1]
    BY DEF VerifyZkProof, CountedAsSuccess
  <2>3. entries' = [entries EXCEPT ![x] = @ \o <<l>>]
    BY DEF VerifyZkProof, Log
  <2> QED
    BY <2>1, <2>2, <2>3
<1>4. n \in Proofs /\ n.status = status /\ n.decided
  BY <1>1, <1>2 DEF Proofs, ProofStatuses
<1>5. l \in Entries /\ l.status = status
  <2>1. o.type \in ProofTypes
    BY <1>1 DEF Proofs
  <2>2. (IF approve THEN "verify" ELSE "reject") \in AddedActions \cup {"reject"}
    BY DEF AddedActions
  <2>3. status \in ProofStatuses \cup {"NotSubmitted"}
    BY <1>2 DEF ProofStatuses
  <2> HIDE DEF o, status
  <2> QED
    BY <2>1, <2>2, <2>3, NewRecords DEF ZkIInv
<1> HIDE DEF o, status, n, l
<1>6. /\ q \in Seq(Proofs) /\ Len(q) = Len(proof[x])
      /\ \A s \in {"Verified", "Rejected"} :
           Cardinality(Having(q, s)) = Cardinality(Having(proof[x], s)) + (IF n.status = s THEN 1 ELSE 0)
      /\ Cardinality(ByVerifier(q))
           = Cardinality(ByVerifier(proof[x])) + (IF n.status = "Verified" THEN 1 ELSE 0)
  <2>1. proof[x][i].status = "Pending" /\ n.status \in {"Verified", "Rejected"}
    BY <1>1, <1>2, <1>4 DEF o
  <2> QED
    BY <1>0, <1>4, <2>1, DecidedCounts
<1>7. /\ e \in Seq(Entries)
      /\ \A s : Cardinality(Having(e, s)) = Cardinality(Having(entries[x], s)) + (IF l.status = s THEN 1 ELSE 0)
  BY <1>0, <1>5, AppendedCounts
<1>8. entries' = [entries EXCEPT ![x] = e]
  <2>1. e = entries[x] \o <<l>>
    BY <1>0, <1>5, AppendIsConcat
  <2> QED
    BY <1>3, <2>1
<1> HIDE DEF q, e
<1>9. proof'[x] = q /\ Len(q) > 0 /\ Len(q) >= Len(proof[x])
  BY <1>0, <1>3, <1>6, LenProperties
<1>c. \A s : Cardinality(Having(proof[x], s)) \in Nat /\ Cardinality(Having(entries[x], s)) \in Nat
      /\ Cardinality(ByVerifier(proof[x])) \in Nat
  BY <1>0, MarksCounted
<1>10. LogTells(e, q)
  <2>1. Cardinality(Having(e, "Pending")) = Cardinality(Having(entries[x], "Pending"))
    BY <1>2, <1>5, <1>7, <1>c
  <2>2. ASSUME NEW s \in {"Verified", "Rejected"}
        PROVE  Cardinality(Having(e, s)) = Cardinality(Having(q, s))
    <3>1. Cardinality(Having(entries[x], s)) = Cardinality(Having(proof[x], s))
      BY <1>0 DEF LogTells
    <3> QED
      BY <1>4, <1>5, <1>6, <1>7, <3>1
  <2> QED
    BY <1>0, <1>6, <2>1, <2>2 DEF LogTells
<1>11. /\ stats' \in [total : Nat, successful : Nat, failed : Nat]
       /\ stats'.successful = stats.successful + (IF status = "Verified" THEN 1 ELSE 0)
       /\ stats'.failed = stats.failed + (IF status = "Verified" THEN 0 ELSE 1)
       /\ stats'.total = stats.total + 1
  BY <1>0, <1>3
<1>12. stats.successful \in Nat /\ stats.failed \in Nat
  BY <1>0
<1>13. stats'.total = stats'.successful + stats'.failed
  BY <1>0, <1>11, <1>12
<1>14. stats'.successful + Cardinality(ByVerifier(proof[x])) = stats.successful + Cardinality(ByVerifier(q))
  BY <1>4, <1>6, <1>11, <1>12, <1>c
<1>15. stats'.failed + Cardinality(Having(proof[x], "Rejected")) = stats.failed + Cardinality(Having(q, "Rejected"))
  <2>1. Cardinality(Having(q, "Rejected"))
          = Cardinality(Having(proof[x], "Rejected")) + (IF status = "Rejected" THEN 1 ELSE 0)
    BY <1>4, <1>6
  <2>2. (IF status = "Rejected" THEN 1 ELSE 0) = (IF status = "Verified" THEN 0 ELSE 1)
    BY <1>2
  <2> QED
    BY <1>11, <1>12, <1>c, <2>1, <2>2
<1>16. zkData' = [zkData EXCEPT ![x] = [ids |-> Append(@.ids, Len(q)), status |-> q[Len(q)].status]]
  BY <1>3, <1>9 DEF Refresh
<1> QED
  BY <1>3, <1>6, <1>7, <1>8, <1>9, <1>10, <1>11, <1>13, <1>14, <1>15, <1>16, AccountWritten

LEMMA AcceptPreserves ==
  ASSUME ZkAssumption, ZkIInv, NEW x \in Provers, NEW k \in SelfVerified, AcceptOwnProof(x, k),
         Refresh(x, proof'[x]) \/ UNCHANGED zkData, UNCHANGED now
  PROVE  ZkIInv'
<1> DEFINE p == NewProof(k.type, "Verified", k.validity, TRUE)
           l == Entry(k.type, "Pending", "submit")
           m == Entry(k.type, "Verified", "verify")
           q == Append(proof[x], p)
           d == Append(entries[x], l)
           e == Append(d, m)
<1>0. /\ proof \in [Provers -> Seq(Proofs)]
      /\ proof[x] \in Seq(Proofs) /\ entries[x] \in Seq(Entries) /\ LogTells(entries[x], proof[x])
      /\ stats \in [total : Nat, successful : Nat, failed : Nat] /\ stats.total = stats.successful + stats.failed
  BY DEF ZkIInv, ZkTypeOK, ProofRecordsAgree, AuditMatchesProofs, StatsMatchProofs
<1>1. /\ p \in Proofs /\ p.status = "Verified" /\ ~p.decided
      /\ l \in Entries /\ l.status = "Pending" /\ m \in Entries /\ m.status = "Verified"
  <2>1. k.type \in ProofTypes /\ k.validity \in Nat
    BY DEF ZkAssumption
  <2>2. /\ "Verified" \in ProofStatuses /\ "Pending" \in ProofStatuses \cup {"NotSubmitted"}
        /\ "Verified" \in ProofStatuses \cup {"NotSubmitted"} /\ TRUE \in BOOLEAN
        /\ "submit" \in AddedActions \cup {"reject"} /\ "verify" \in AddedActions \cup {"reject"} /\ now \in Nat
    BY DEF ZkIInv, ProofStatuses, AddedActions
  <2> DEFINE T == k.type
             V == k.validity
  <2>t. T \in ProofTypes /\ V \in Nat
    BY <2>1
  <2> HIDE DEF T, V
  <2>3. NewProof(T, "Verified", V, TRUE) \in Proofs /\ NewProof(T, "Verified", V, TRUE).status = "Verified"
        /\ ~NewProof(T, "Verified", V, TRUE).decided
    BY <2>t, <2>2 DEF NewProof, Proofs
  <2>4. /\ Entry(T, "Pending", "submit") \in Entries /\ Entry(T, "Pending", "submit").status = "Pending"
        /\ Entry(T, "Verified", "verify") \in Entries /\ Entry(T, "Verified", "verify").status = "Verified"
    BY <2>t, <2>2, NewRecords
  <2> QED
    BY <2>3, <2>4 DEF T, V
<1>2. /\ proof' = [proof EXCEPT ![x] = q] /\ UNCHANGED <<stats, approvedVerifiers, privacyLevel>>
      /\ entries' = [entries EXCEPT ![x] = @ \o <<l, m>>]
  BY DEF AcceptOwnProof, Log
<1> HIDE DEF p, l, m
<1>3. /\ q \in Seq(Proofs) /\ Len(q) = Len(proof[x]) + 1 /\ ByVerifier(q) = ByVerifier(proof[x])
      /\ \A s : Cardinality(Having(q, s)) = Cardinality(Having(proof[x], s)) + (IF p.status = s THEN 1 ELSE 0)
  BY <1>0, <1>1, AppendedCounts
<1>4. /\ d \in Seq(Entries)
      /\ \A s : Cardinality(Having(d, s)) = Cardinality(Having(entries[x], s)) + (IF l.status = s THEN 1 ELSE 0)
  BY <1>0, <1>1, AppendedCounts
<1>5. /\ e \in Seq(Entries)
      /\ \A s : Cardinality(Having(e, s)) = Cardinality(Having(d, s)) + (IF m.status = s THEN 1 ELSE 0)
  <2> HIDE DEF d
  <2> QED
    BY <1>1, <1>4, AppendedCounts
<1>6. entries' = [entries EXCEPT ![x] = e]
  <2>1. d = entries[x] \o <<l>>
    BY <1>0, <1>1, AppendIsConcat
  <2>2. e = d \o <<m>>
    <3> HIDE DEF d
    <3> QED
      BY <1>1, <1>4, AppendIsConcat
  <2>3. <<l>> \in Seq(Entries) /\ <<m>> \in Seq(Entries) /\ <<l>> \o <<m>> = <<l, m>>
    <3>1. <<l>> \in Seq(Entries) /\ <<m>> \in Seq(Entries)
      BY <1>1
    <3>2. Append(<<l>>, m) = <<l>> \o <<m>>
      BY <1>1, <3>1, AppendIsConcat
    <3>3. Append(<<l>>, m) = <<l, m>>
      <4>1. Append(<<l>>, m) \in Seq(Entries) /\ Len(Append(<<l>>, m)) = 2
            /\ Append(<<l>>, m)[1] = l /\ Append(<<l>>, m)[2] = m
        <5>1. Len(<<l>>) = 1 /\ <<l>>[1] = l
          OBVIOUS
        <5> QED
          BY <1>1, <3>1, <5>1, AppendProperties
      <4>2. <<l, m>> \in Seq(Entries) /\ Len(<<l, m>>) = 2 /\ <<l, m>>[1] = l /\ <<l, m>>[2] = m
        BY <1>1
      <4>3. \A i \in 1 .. 2 : i = 1 \/ i = 2
        OBVIOUS
      <4> DEFINE a == Append(<<l>>, m)
                 b == <<l, m>>
      <4> HIDE DEF a, b
      <4>4. a \in Seq(Entries) /\ b \in Seq(Entries) /\ Len(a) = Len(b) /\ \A i \in 1 .. Len(a) : a[i] = b[i]
        BY <4>1, <4>2, <4>3 DEF a, b
      <4> QED
        BY <4>4, SeqEqual DEF a, b
    <3> QED
      BY <3>1, <3>2, <3>3
  <2>4. (entries[x] \o <<l>>) \o <<m>> = entries[x] \o (<<l>> \o <<m>>)
    BY <1>0, <2>3, ConcatAssociative
  <2> HIDE DEF d, e
  <2> QED
    BY <1>2, <2>1, <2>2, <2>3, <2>4
<1> HIDE DEF q, d, e
<1>c. \A s : Cardinality(Having(proof[x], s)) \in Nat /\ Cardinality(Having(entries[x], s)) \in Nat
  BY <1>0, MarksCounted
<1>7. /\ Cardinality(Having(e, "Pending")) = Cardinality(Having(entries[x], "Pending")) + 1
      /\ Cardinality(Having(e, "Verified")) = Cardinality(Having(entries[x], "Verified")) + 1
      /\ Cardinality(Having(e, "Rejected")) = Cardinality(Having(entries[x], "Rejected"))
  BY <1>1, <1>4, <1>5, <1>c
<1>8. /\ Cardinality(Having(q, "Verified")) = Cardinality(Having(proof[x], "Verified")) + 1
      /\ Cardinality(Having(q, "Rejected")) = Cardinality(Having(proof[x], "Rejected"))
  BY <1>1, <1>3, <1>c
<1>9. LogTells(e, q)
  BY <1>0, <1>3, <1>7, <1>8 DEF LogTells
<1>10. proof'[x] = q /\ Len(q) > 0 /\ Len(q) >= Len(proof[x])
  BY <1>0, <1>2, <1>3, LenProperties
<1>11. \/ zkData' = zkData
       \/ zkData' = [zkData EXCEPT ![x] = [ids |-> Append(@.ids, Len(q)), status |-> q[Len(q)].status]]
  BY <1>10 DEF Refresh
<1> QED
  BY <1>0, <1>2, <1>3, <1>5, <1>6, <1>8, <1>9, <1>10, <1>11, AccountWritten

(* A line added by hand bears a status that no step of a proof leaves.     *)
LEMMA AddedLinePreserves ==
  ASSUME ZkAssumption, ZkIInv, NEW x \in Provers, NEW v, NEW t \in ProofTypes, NEW action \in AddedActions,
         CreatePrivacyPreservingAudit(v, x, t, action), UNCHANGED now
  PROVE  ZkIInv'
<1> DEFINE l == Entry(t, "NotSubmitted", action)
           e == Append(entries[x], l)
<1>0. /\ proof \in [Provers -> Seq(Proofs)]
      /\ proof[x] \in Seq(Proofs) /\ entries[x] \in Seq(Entries) /\ LogTells(entries[x], proof[x])
      /\ stats \in [total : Nat, successful : Nat, failed : Nat] /\ stats.total = stats.successful + stats.failed
  BY DEF ZkIInv, ZkTypeOK, ProofRecordsAgree, AuditMatchesProofs, StatsMatchProofs
<1>1. l \in Entries /\ l.status = "NotSubmitted"
  BY NewRecords DEF ZkIInv
<1>2. /\ UNCHANGED <<proof, zkData, stats, approvedVerifiers, privacyLevel>>
      /\ entries' = [entries EXCEPT ![x] = @ \o <<l>>]
  BY DEF CreatePrivacyPreservingAudit, Log, LineStatus
<1> HIDE DEF l
<1>3. /\ e \in Seq(Entries)
      /\ \A s : Cardinality(Having(e, s)) = Cardinality(Having(entries[x], s)) + (IF l.status = s THEN 1 ELSE 0)
  BY <1>0, <1>1, AppendedCounts
<1>4. entries' = [entries EXCEPT ![x] = e]
  <2>1. e = entries[x] \o <<l>>
    BY <1>0, <1>1, AppendIsConcat
  <2> QED
    BY <1>2, <2>1
<1> HIDE DEF e
<1>5. LogTells(e, proof[x])
  <2>1. \A s : Cardinality(Having(entries[x], s)) \in Nat
    BY <1>0, MarksCounted
  <2>2. \A s \in {"Pending", "Verified", "Rejected"} :
          Cardinality(Having(e, s)) = Cardinality(Having(entries[x], s))
    BY <1>1, <1>3, <2>1
  <2> QED
    BY <1>0, <2>2 DEF LogTells
<1>6. proof' = [proof EXCEPT ![x] = proof[x]] /\ Len(proof[x]) >= Len(proof[x])
  BY <1>0, <1>2, LenProperties
<1> QED
  BY <1>0, <1>2, <1>3, <1>4, <1>5, <1>6, AccountWritten

(* Whoever verifies, and what privacy an account wants.                    *)
LEMMA VerifiersPreserve ==
  ASSUME ZkIInv, UNCHANGED proofVars, approvedVerifiers' \in SUBSET ZkVerifiers,
         privacyLevel' \in [Provers -> 0 .. 5 \cup {NoLevel}], now' \in Nat
  PROVE  ZkIInv'
  BY DEF ZkIInv, ZkTypeOK, ProofRecordsAgree, StatsMatchProofs, AuditMatchesProofs, Successes, Failures, proofVars

LEMMA PrivacyPreserves ==
  ASSUME ZkAssumption, ZkIInv, PrivacyNext, UNCHANGED now PROVE ZkIInv'
<1>0. privacyLevel \in [Provers -> 0 .. 5 \cup {NoLevel}] /\ approvedVerifiers \in SUBSET ZkVerifiers /\ now \in Nat
  BY DEF ZkIInv, ZkTypeOK
<1>1. ASSUME NEW x \in Provers, NEW level \in 0 .. 5, SetLevel(x, level) PROVE ZkIInv'
  <2>1. privacyLevel' \in [Provers -> 0 .. 5 \cup {NoLevel}]
    BY <1>0, <1>1 DEF SetLevel
  <2> QED
    BY <1>0, <1>1, <2>1, VerifiersPreserve DEF SetLevel
<1>2. ASSUME NEW level \in PrivacyLevels, level <= 5 PROVE level \in 0 .. 5
  BY <1>2 DEF ZkAssumption
<1>3. \A x \in Provers : LevelOrDefault(x) \in 0 .. 5
  BY <1>0 DEF LevelOrDefault
<1> QED
  BY <1>1, <1>2, <1>3
     DEF PrivacyNext, UpdatePrivacyPreferences, SetPrivacyControls, GrantProofConsent, RevokeProofConsent

-----------------------------------------------------------------------------
LEMMA InitZk == ASSUME ZkAssumption, ClockInit, ZkInit PROVE ZkIInv
<1>1. ZkTypeOK /\ now \in Nat
  <2>1. \A S : << >> \in Seq(S) /\ Len(<< >>) = 0
    BY EmptySeq
  <2> QED
    BY <2>1 DEF ZkInit, ZkTypeOK, ClockInit, ProofStatuses
<1>2. \A s : Having(<< >>, s) = {} /\ ByVerifier(<< >>) = {}
  BY DEF Having, ByVerifier
<1>3. Cardinality({}) = 0
  BY FS_EmptySet
<1>4. AuditMatchesProofs
  BY <1>2, <1>3 DEF AuditMatchesProofs, LogTells, ZkInit
<1>5. SumFunctionOnSet(Successes, Provers) = 0 /\ SumFunctionOnSet(Failures, Provers) = 0
  <2>1. \A x \in Provers : Successes[x] = 0 /\ Failures[x] = 0
    BY <1>2, <1>3 DEF Successes, Failures, ZkInit
  <2> QED
    BY <2>1, SumZero DEF ZkAssumption
<1> QED
  BY <1>1, <1>4, <1>5 DEF ZkIInv, ProofRecordsAgree, StatsMatchProofs, ZkInit

LEMMA NextZk == ASSUME ZkAssumption, ZkIInv, [ZkNext]_<<now, zkVars>> PROVE ZkIInv'
<1>0. /\ approvedVerifiers \in SUBSET ZkVerifiers /\ now \in Nat
      /\ privacyLevel \in [Provers -> 0 .. 5 \cup {NoLevel}]
  BY DEF ZkIInv, ZkTypeOK
<1>1. ASSUME ProofsNext, UNCHANGED now PROVE ZkIInv'
  <2>1. CASE \E v \in Provers \cup ZkVerifiers, x \in Provers, t \in ProofTypes, action \in AddedActions :
               CreatePrivacyPreservingAudit(v, x, t, action)
    BY <1>1, <2>1, AddedLinePreserves
  <2>2. CASE \E x \in Provers : \E t \in ProofTypes, filled \in BOOLEAN : SubmitZkProof(x, t, filled)
    BY <1>1, <2>2, SubmitPreserves
  <2>3. CASE \E x \in Provers : \E k \in SelfVerified : VerifyStanding(x, k) \/ ProveOwnership(x, k)
    BY <1>1, <2>3, AcceptPreserves DEF VerifyStanding, ProveOwnership
  <2>4. CASE \E x \in Provers : \E v \in ZkVerifiers, i \in 1 .. Len(proof[x]), approve \in BOOLEAN :
               VerifyZkProof(v, x, i, approve)
    BY <1>1, <2>4, VerifyPreserves
  <2>5. CASE \E v \in ZkVerifiers : AddApprovedVerifier(v) \/ RemoveApprovedVerifier(v)
    <3>1. UNCHANGED <<proofVars, privacyLevel>> /\ approvedVerifiers' \in SUBSET ZkVerifiers
      BY <1>0, <2>5 DEF AddApprovedVerifier, RemoveApprovedVerifier
    <3> QED
      BY <1>0, <1>1, <3>1, VerifiersPreserve
  <2> QED
    BY <1>1, <2>1, <2>2, <2>3, <2>4, <2>5 DEF ProofsNext
<1>2. ASSUME UNCHANGED zkVars, now' \in Nat PROVE ZkIInv'
  BY <1>0, <1>2, VerifiersPreserve DEF zkVars
<1>3. ASSUME ZkTick PROVE ZkIInv'
  BY <1>0, <1>2, <1>3 DEF ZkTick, ClockTicks
<1> QED
  BY <1>0, <1>1, <1>2, <1>3, PrivacyPreserves DEF ZkNext

LEMMA ZkInvariance == ASSUME ZkAssumption PROVE ZkSpec => []ZkIInv
<1>1. ZkIInv /\ [ZkNext]_<<now, zkVars>> => ZkIInv'
  BY NextZk
<1> QED
  BY InitZk, <1>1, PTL DEF ZkSpec

(* The statistics count every decision of a verifier once, and an          *)
(* account's log has one entry for each of its submissions and outcomes,   *)
(* for any accounts, verifiers, proof types and bounds.                    *)
THEOREM RecordsTellProofs == ASSUME ZkAssumption PROVE ZkSpec => []ProofRecordsAgree
<1>1. ZkIInv => ProofRecordsAgree
  BY DEF ZkIInv
<1> QED
  BY ZkInvariance, <1>1, PTL

-----------------------------------------------------------------------------
(***************************************************************************)
(* The registry of documents.                                              *)
(***************************************************************************)
IpfsIInv == now \in Nat /\ IpfsTypeOK /\ IndexTrue /\ PinnedBooked

LEMMA IpfsConstants ==
  ASSUME IpfsAssumption
  PROVE  /\ MaxDocuments \in Nat /\ IsFiniteSet(Ids) /\ Ids \subseteq Nat \ {0} /\ FileSizes \subseteq Nat
         /\ NoDocument \notin IpfsDocuments
  BY FS_Interval DEF IpfsAssumption, Ids

(* What the pinned documents of a property weigh follows the one document  *)
(* that is written.                                                        *)
LEMMA PinnedChange ==
  ASSUME IpfsAssumption, NEW p \in Estates, NEW i \in Ids,
         document \in [Ids -> IpfsDocuments \cup {NoDocument}],
         document' \in [Ids -> IpfsDocuments \cup {NoDocument}],
         \A k \in Ids \ {i} : document'[k] = document[k]
  PROVE  /\ SumFunctionOnSet(PinnedWeights(p)', Ids) = SumFunctionOnSet(PinnedWeights(p), Ids)
              + PinnedWeight(document'[i], p) - PinnedWeight(document[i], p)
         /\ SumFunctionOnSet(PinnedWeights(p), Ids) \in Nat
         /\ PinnedWeight(document[i], p) \in Nat /\ PinnedWeight(document'[i], p) \in Nat
         /\ PinnedWeight(document[i], p) <= SumFunctionOnSet(PinnedWeights(p), Ids)
<1>1. \A d \in IpfsDocuments \cup {NoDocument} : PinnedWeight(d, p) \in Nat
  BY DEF PinnedWeight, IpfsDocuments, IpfsAssumption
<1> DEFINE f == PinnedWeights(p)
           g == PinnedWeights(p)'
<1>2. \A k \in Ids : f[k] = PinnedWeight(document[k], p) /\ g[k] = PinnedWeight(document'[k], p)
  BY DEF PinnedWeights
<1>3. (\A k \in Ids : f[k] \in Nat) /\ g[i] \in Nat /\ \A k \in Ids \ {i} : g[k] = f[k]
  BY <1>1, <1>2
<1> HIDE DEF f, g
<1>4. IsFiniteSet(Ids)
  BY IpfsConstants
<1>5. SumFunctionOnSet(g, Ids) = SumFunctionOnSet(f, Ids) + g[i] - f[i]
  <2>1. (\A k \in Ids : f[k] \in Int) /\ g[i] \in Int
    BY <1>3
  <2> QED
    BY <1>3, <1>4, <2>1, SumChange
<1>6. SumFunctionOnSet(f, Ids) \in Nat /\ f[i] <= SumFunctionOnSet(f, Ids)
  BY <1>3, <1>4, SumNat
<1> QED
  BY <1>1, <1>2, <1>5, <1>6 DEF f, g

(* An operation that leaves documents, lists and sizes alone.              *)
LEMMA DocumentsAlone ==
  ASSUME IpfsIInv, UNCHANGED documentVars, now' \in Nat, now' >= now,
         metadata' \in [Estates -> Metadata \cup {NoMetadata}],
         access' \in [Estates -> [IpfsUsers -> {"None", "Read", "Write", "Admin"}]],
         ipfsRules' \in IpfsRules
  PROVE  IpfsIInv'
<1>1. /\ UNCHANGED <<document, listed, cidDocument, documentCount, pinnedSize, removedPinned>>
      /\ IpfsTypeOK /\ IndexTrue /\ PinnedBooked /\ now \in Nat
  BY DEF documentVars, IpfsIInv
<1>2. IndexTrue' /\ PinnedBooked'
  BY <1>1 DEF IndexTrue, PinnedBooked, PinnedWeights, IsStored
<1>3. IpfsTypeOK'
  <2>1. ASSUME NEW i \in Ids, IsStored(i)' PROVE document'[i].verifiedAt <= now'
    <3>1. document[i] \in IpfsDocuments /\ document[i].verifiedAt <= now /\ document'[i] = document[i]
      BY <1>1, <2>1 DEF IpfsTypeOK, IsStored
    <3> QED
      BY <1>1, <3>1 DEF IpfsDocuments
  <2> QED
    BY <1>1, <2>1 DEF IpfsTypeOK, IsStored
<1> QED
  BY <1>2, <1>3 DEF IpfsIInv

(* A document is written that is pinned, unpinned or verified: indices and *)
(* identity stay.                                                          *)
LEMMA DocumentRewritten ==
  ASSUME IpfsAssumption, IpfsIInv, UNCHANGED <<now, metadata, indexVars, ipfsRules, access, removedPinned>>,
         NEW i \in Ids, IsStored(i), NEW d \in IpfsDocuments,
         document' = [document EXCEPT ![i] = d],
         d.estate = document[i].estate, d.cid = document[i].cid, d.size = document[i].size,
         d.uploadedAt = document[i].uploadedAt,
         d.verifiedAt \in {document[i].verifiedAt, now},
         pinnedSize' \in [Estates -> Nat],
         \A p \in Estates \ {d.estate} : pinnedSize'[p] = pinnedSize[p],
         pinnedSize'[d.estate] = pinnedSize[d.estate]
           + PinnedWeight(d, d.estate) - PinnedWeight(document[i], d.estate)
  PROVE  IpfsIInv'
<1>1. /\ UNCHANGED <<listed, cidDocument, documentCount>>
      /\ IpfsTypeOK /\ IndexTrue /\ PinnedBooked /\ now \in Nat
      /\ document \in [Ids -> IpfsDocuments \cup {NoDocument}] /\ document[i] \in IpfsDocuments
  BY DEF indexVars, IpfsIInv, IpfsTypeOK, IsStored
<1>2. /\ document' \in [Ids -> IpfsDocuments \cup {NoDocument}] /\ document'[i] = d
      /\ \A k \in Ids \ {i} : document'[k] = document[k]
  BY <1>1
<1>3. \A k \in Ids : IsStored(k)' <=> IsStored(k)
  BY <1>2, IpfsConstants DEF IsStored
<1>4. \A k \in Ids : document'[k].estate = document[k].estate /\ document'[k].cid = document[k].cid
  BY <1>2
<1>5. IndexTrue'
  BY <1>1, <1>3, <1>4 DEF IndexTrue, IpfsTypeOK
<1>6. PinnedBooked'
  <2> SUFFICES ASSUME NEW p \in Estates
               PROVE  pinnedSize'[p] = SumFunctionOnSet(PinnedWeights(p)', Ids) + removedPinned[p]
    BY DEF PinnedBooked
  <2> DEFINE sum == SumFunctionOnSet(PinnedWeights(p), Ids)
             after == SumFunctionOnSet(PinnedWeights(p)', Ids)
  <2>1. /\ after = sum + PinnedWeight(d, p) - PinnedWeight(document[i], p) /\ sum \in Nat
        /\ PinnedWeight(document[i], p) \in Nat /\ PinnedWeight(d, p) \in Nat
    BY <1>1, <1>2, PinnedChange
  <2>2. pinnedSize[p] = sum + removedPinned[p] /\ removedPinned[p] \in Nat
    BY <1>1 DEF PinnedBooked, IpfsTypeOK
  <2> HIDE DEF sum, after
  <2>3. CASE p = d.estate
    <3>1. pinnedSize'[p] = pinnedSize[p] + PinnedWeight(d, p) - PinnedWeight(document[i], p)
      BY <2>3
    <3> QED
      BY <2>1, <2>2, <3>1 DEF after
  <2>4. CASE p # d.estate
    <3>1. PinnedWeight(d, p) = 0 /\ PinnedWeight(document[i], p) = 0 /\ pinnedSize'[p] = pinnedSize[p]
      BY <2>4 DEF PinnedWeight
    <3> QED
      BY <2>1, <2>2, <3>1 DEF after
  <2> QED
    BY <2>3, <2>4
<1>7. IpfsTypeOK'
  <2>1. ASSUME NEW k \in Ids, IsStored(k)'
        PROVE  /\ k <= documentCount
               /\ document'[k].uploadedAt <= document'[k].verifiedAt /\ document'[k].verifiedAt <= now
    <3>1. /\ document[k] \in IpfsDocuments /\ k <= documentCount
          /\ document[k].uploadedAt <= document[k].verifiedAt /\ document[k].verifiedAt <= now
      BY <1>1, <1>3, <2>1 DEF IpfsTypeOK, IsStored
    <3>2. CASE k # i
      BY <1>2, <3>1, <3>2
    <3>3. CASE k = i
      <4>1. document[i].uploadedAt \in Nat /\ document[i].verifiedAt \in Nat
        BY <1>1 DEF IpfsDocuments
      <4>2. d.uploadedAt <= d.verifiedAt /\ d.verifiedAt <= now
        BY <1>1, <3>1, <3>3, <4>1
      <4> QED
        BY <1>2, <3>1, <3>3, <4>2
    <3> QED
      BY <3>2, <3>3
  <2> QED
    BY <1>1, <1>2, <2>1 DEF IpfsTypeOK
<1> QED
  BY <1>1, <1>5, <1>6, <1>7 DEF IpfsIInv

(* Pinning, unpinning and verifying.                                       *)
LEMMA PinKeeps ==
  ASSUME IpfsAssumption, IpfsIInv, UNCHANGED now, NEW x \in IpfsUsers, NEW i \in Ids, IsStored(i),
         PinDocument(x, i) \/ UnpinDocument(x, i) \/ VerifyContentHash(x, i)
  PROVE  IpfsIInv'
<1>1. /\ document[i] \in IpfsDocuments /\ document[i].estate \in Estates /\ document[i].size \in Nat
      /\ pinnedSize \in [Estates -> Nat] /\ now \in Nat
      /\ document \in [Ids -> IpfsDocuments \cup {NoDocument}]
      /\ document[i] # NoDocument
  BY IpfsConstants DEF IpfsIInv, IpfsTypeOK, IsStored, IpfsDocuments
<1> DEFINE e == document[i].estate
<1>2. CASE PinDocument(x, i)
  <2> DEFINE d == [document[i] EXCEPT !.pinned = TRUE]
  <2>1. /\ d \in IpfsDocuments /\ d.estate = e /\ d.cid = document[i].cid /\ d.size = document[i].size
        /\ d.uploadedAt = document[i].uploadedAt /\ d.verifiedAt = document[i].verifiedAt /\ d.pinned
    BY <1>1 DEF IpfsDocuments
  <2>2. document' = [document EXCEPT ![i] = d]
    BY <1>2 DEF PinDocument
  <2>3. pinnedSize' = [pinnedSize EXCEPT ![e] = pinnedSize[e] + document[i].size] /\ ~document[i].pinned
    BY <1>2 DEF PinDocument, NeedsPin
  <2> HIDE DEF d
  <2>4. PinnedWeight(d, e) = document[i].size /\ PinnedWeight(document[i], e) = 0
    BY <1>1, <2>1, <2>3, IpfsConstants DEF PinnedWeight
  <2>5. /\ pinnedSize' \in [Estates -> Nat] /\ \A p \in Estates \ {e} : pinnedSize'[p] = pinnedSize[p]
        /\ pinnedSize'[e] = pinnedSize[e] + PinnedWeight(d, e) - PinnedWeight(document[i], e)
    BY <1>1, <2>3, <2>4
  <2>6. UNCHANGED <<now, metadata, indexVars, ipfsRules, access, removedPinned>>
    BY <1>2 DEF PinDocument
  <2> QED
    BY <2>1, <2>2, <2>5, <2>6, DocumentRewritten
<1>3. CASE UnpinDocument(x, i)
  <2> DEFINE d == [document[i] EXCEPT !.pinned = FALSE]
  <2>1. /\ d \in IpfsDocuments /\ d.estate = e /\ d.cid = document[i].cid /\ d.size = document[i].size
        /\ d.uploadedAt = document[i].uploadedAt /\ d.verifiedAt = document[i].verifiedAt /\ ~d.pinned
    BY <1>1 DEF IpfsDocuments
  <2>2. document' = [document EXCEPT ![i] = d]
    BY <1>3 DEF UnpinDocument
  <2>3. document[i].pinned
    BY <1>3 DEF UnpinDocument
  <2> HIDE DEF d
  <2>4. PinnedWeight(document[i], e) = document[i].size /\ PinnedWeight(d, e) = 0
    BY <1>1, <2>1, <2>3, IpfsConstants DEF PinnedWeight
  <2>5. document[i].size <= pinnedSize[e]
    <3>1. PinnedWeight(document[i], e) <= SumFunctionOnSet(PinnedWeights(e), Ids)
          /\ SumFunctionOnSet(PinnedWeights(e), Ids) \in Nat
      <4>1. document' \in [Ids -> IpfsDocuments \cup {NoDocument}]
            /\ \A k \in Ids \ {i} : document'[k] = document[k]
        BY <1>1, <2>1, <2>2
      <4> QED
        BY <1>1, <4>1, PinnedChange
    <3>2. pinnedSize[e] = SumFunctionOnSet(PinnedWeights(e), Ids) + removedPinned[e] /\ removedPinned[e] \in Nat
      BY <1>1 DEF IpfsIInv, PinnedBooked, IpfsTypeOK
    <3> QED
      BY <1>1, <2>4, <3>1, <3>2
  <2>6. pinnedSize' = [pinnedSize EXCEPT ![e] = pinnedSize[e] - document[i].size]
    BY <1>3, <2>5 DEF UnpinDocument
  <2>7. /\ pinnedSize' \in [Estates -> Nat] /\ \A p \in Estates \ {e} : pinnedSize'[p] = pinnedSize[p]
        /\ pinnedSize'[e] = pinnedSize[e] + PinnedWeight(d, e) - PinnedWeight(document[i], e)
    <3>1. pinnedSize[e] - document[i].size \in Nat
      BY <1>1, <2>5
    <3> QED
      BY <1>1, <2>4, <2>6, <3>1
  <2>8. UNCHANGED <<now, metadata, indexVars, ipfsRules, access, removedPinned>>
    BY <1>3 DEF UnpinDocument
  <2> QED
    BY <2>1, <2>2, <2>7, <2>8, DocumentRewritten
<1>4. CASE VerifyContentHash(x, i)
  <2> DEFINE d == [document[i] EXCEPT !.verifiedAt = now]
  <2>1. /\ d \in IpfsDocuments /\ d.estate = e /\ d.cid = document[i].cid /\ d.size = document[i].size
        /\ d.uploadedAt = document[i].uploadedAt /\ d.verifiedAt = now /\ d.pinned = document[i].pinned
    BY <1>1 DEF IpfsDocuments
  <2>2. document' = [document EXCEPT ![i] = d]
    BY <1>4 DEF VerifyContentHash
  <2> HIDE DEF d
  <2>3. PinnedWeight(d, e) = PinnedWeight(document[i], e) /\ PinnedWeight(d, e) \in Nat
    BY <1>1, <2>1, IpfsConstants DEF PinnedWeight
  <2>4. /\ pinnedSize' \in [Estates -> Nat] /\ \A p \in Estates \ {e} : pinnedSize'[p] = pinnedSize[p]
        /\ pinnedSize'[e] = pinnedSize[e] + PinnedWeight(d, e) - PinnedWeight(document[i], e)
    BY <1>1, <1>4, <2>3 DEF VerifyContentHash
  <2>5. UNCHANGED <<now, metadata, indexVars, ipfsRules, access, removedPinned>>
    BY <1>4 DEF VerifyContentHash
  <2> QED
    BY <2>1, <2>2, <2>4, <2>5, DocumentRewritten
<1> QED
  BY <1>2, <1>3, <1>4

(* A document is added under a new id, unpinned, and under an identifier   *)
(* no other document has.                                                  *)
LEMMA RegisterKeeps ==
  ASSUME IpfsAssumption, IpfsIInv, UNCHANGED now, NEW x \in IpfsUsers, NEW p \in Estates, NEW c \in Cids,
         NEW size \in FileSizes, NEW mime \in MimeTypes, RegisterIpfsDocument(x, p, c, size, mime)
  PROVE  IpfsIInv'
<1> DEFINE id == documentCount + 1
           d == [estate |-> p, cid |-> c, size |-> size, pinned |-> FALSE,
                 uploadedAt |-> now, verifiedAt |-> now]
<1>1. /\ IpfsTypeOK /\ IndexTrue /\ PinnedBooked /\ now \in Nat
      /\ document \in [Ids -> IpfsDocuments \cup {NoDocument}]
      /\ listed \in [Estates -> [Ids -> Nat]] /\ cidDocument \in [Cids -> {0} \cup Ids]
      /\ documentCount \in Nat /\ MaxDocuments \in Nat
  BY IpfsConstants DEF IpfsIInv, IpfsTypeOK
<1>2. /\ id \in Ids /\ cidDocument[c] = 0
      /\ documentCount' = id
      /\ document' = [document EXCEPT ![id] = d]
      /\ cidDocument' = [cidDocument EXCEPT ![c] = id]
      /\ listed' = [listed EXCEPT ![p][id] = listed[p][id] + 1]
      /\ UNCHANGED <<metadata, ipfsRules, pinnedSize, access, removedPinned>>
  BY DEF RegisterIpfsDocument, Admissible
<1>3. d \in IpfsDocuments /\ d # NoDocument
  <2>1. d \in IpfsDocuments
    BY <1>1 DEF IpfsDocuments
  <2> QED
    BY <2>1, IpfsConstants
<1>4. ~ IsStored(id) /\ document[id] = NoDocument
  BY <1>1, <1>2 DEF IpfsTypeOK, IsStored
<1>5. d.estate = p /\ d.cid = c /\ ~ d.pinned /\ d.uploadedAt = now /\ d.verifiedAt = now
  OBVIOUS
<1> HIDE DEF d
<1>6. /\ document' \in [Ids -> IpfsDocuments \cup {NoDocument}] /\ document'[id] = d
      /\ \A k \in Ids \ {id} : document'[k] = document[k]
      /\ \A k \in Ids : IsStored(k)' <=> (IsStored(k) \/ k = id)
  BY <1>1, <1>2, <1>3, <1>4 DEF IsStored
<1>7. /\ listed' \in [Estates -> [Ids -> Nat]]
      /\ \A q \in Estates, k \in Ids : listed'[q][k] = IF q = p /\ k = id THEN 1 ELSE listed[q][k]
  <2>1. listed[p][id] = 0
    BY <1>1, <1>2, <1>4 DEF IndexTrue
  <2> QED
    BY <1>1, <1>2, <2>1
<1>8. /\ cidDocument' \in [Cids -> {0} \cup Ids] /\ cidDocument'[c] = id
      /\ \A e \in Cids \ {c} : cidDocument'[e] = cidDocument[e]
  BY <1>1, <1>2
<1>9. IndexTrue'
  <2>1. ASSUME NEW k \in Ids, NEW q \in Estates
        PROVE  listed'[q][k] = IF IsStored(k)' /\ document'[k].estate = q THEN 1 ELSE 0
    <3>1. listed[q][k] = IF IsStored(k) /\ document[k].estate = q THEN 1 ELSE 0
      BY <1>1 DEF IndexTrue
    <3>2. CASE k = id
      BY <1>4, <1>5, <1>6, <1>7, <3>1, <3>2
    <3>3. CASE k # id
      BY <1>6, <1>7, <3>1, <3>3
    <3> QED
      BY <3>2, <3>3
  <2>2. ASSUME NEW k \in Ids, IsStored(k)' PROVE cidDocument'[document'[k].cid] = k
    <3>1. CASE k = id
      BY <1>5, <1>6, <1>8, <3>1
    <3>2. CASE k # id
      <4>1. document'[k] = document[k] /\ IsStored(k) /\ document[k].cid \in Cids
        BY <1>1, <1>6, <2>2, <3>2 DEF IsStored, IpfsDocuments
      <4>2. cidDocument[document[k].cid] = k /\ k # 0
        BY <1>1, <4>1, IpfsConstants DEF IndexTrue
      <4> QED
        BY <1>2, <1>8, <4>1, <4>2
    <3> QED
      BY <3>1, <3>2
  <2>3. ASSUME NEW e \in Cids, cidDocument'[e] # 0
        PROVE  document'[cidDocument'[e]] # NoDocument /\ document'[cidDocument'[e]].cid = e
    <3>1. CASE e = c
      BY <1>2, <1>3, <1>5, <1>6, <1>8, <3>1
    <3>2. CASE e # c
      <4>1. cidDocument'[e] = cidDocument[e] /\ cidDocument[e] \in Ids
        BY <1>1, <1>8, <2>3, <3>2
      <4>2. IsStored(cidDocument[e]) /\ document[cidDocument[e]].cid = e
        BY <1>1, <2>3, <4>1 DEF IndexTrue
      <4> QED
        BY <1>4, <1>6, <4>1, <4>2 DEF IsStored
    <3> QED
      BY <3>1, <3>2
  <2> QED
    BY <2>1, <2>2, <2>3 DEF IndexTrue, IsStored
<1>10. PinnedBooked'
  <2> SUFFICES ASSUME NEW q \in Estates
               PROVE  pinnedSize'[q] = SumFunctionOnSet(PinnedWeights(q)', Ids) + removedPinned'[q]
    BY DEF PinnedBooked
  <2>1. SumFunctionOnSet(PinnedWeights(q)', Ids) = SumFunctionOnSet(PinnedWeights(q), Ids)
          + PinnedWeight(d, q) - PinnedWeight(document[id], q)
        /\ SumFunctionOnSet(PinnedWeights(q), Ids) \in Nat
    BY <1>1, <1>2, <1>6, PinnedChange
  <2>2. PinnedWeight(d, q) = 0 /\ PinnedWeight(document[id], q) = 0
    BY <1>4, <1>5 DEF PinnedWeight
  <2> QED
    BY <1>1, <1>2, <2>1, <2>2 DEF PinnedBooked
<1>11. IpfsTypeOK'
  <2>1. ASSUME NEW k \in Ids, IsStored(k)'
        PROVE  /\ k <= documentCount'
               /\ document'[k].uploadedAt <= document'[k].verifiedAt /\ document'[k].verifiedAt <= now
    <3>1. CASE k = id
      BY <1>1, <1>2, <1>5, <1>6, <3>1
    <3>2. CASE k # id
      <4>1. IsStored(k) /\ document'[k] = document[k] /\ k <= documentCount /\ k \in Nat
        BY <1>1, <1>6, <2>1, <3>2, IpfsConstants DEF IpfsTypeOK
      <4> QED
        BY <1>1, <1>2, <4>1 DEF IpfsTypeOK
    <3> QED
      BY <3>1, <3>2
  <2>2. documentCount' \in 0 .. MaxDocuments
    BY <1>1, <1>2 DEF Ids
  <2> QED
    BY <1>1, <1>2, <1>6, <1>7, <1>8, <2>1, <2>2 DEF IpfsTypeOK
<1> QED
  BY <1>1, <1>9, <1>10, <1>11 DEF IpfsIInv

(* A removed document leaves both indices; what it had pinned is kept in   *)
(* the books.                                                              *)
LEMMA ReportKeeps ==
  ASSUME IpfsAssumption, IpfsIInv, UNCHANGED now, NEW i \in Ids, IsStored(i), ReportMaliciousFile(i)
  PROVE  IpfsIInv'
<1> DEFINE e == document[i].estate
           c == document[i].cid
           w == IF document[i].pinned THEN document[i].size ELSE 0
<1>1. /\ IpfsTypeOK /\ IndexTrue /\ PinnedBooked /\ now \in Nat
      /\ document \in [Ids -> IpfsDocuments \cup {NoDocument}]
      /\ listed \in [Estates -> [Ids -> Nat]] /\ cidDocument \in [Cids -> {0} \cup Ids]
      /\ removedPinned \in [Estates -> Nat]
      /\ document[i] \in IpfsDocuments /\ document[i] # NoDocument
  BY IpfsConstants DEF IpfsIInv, IpfsTypeOK, IsStored
<1>2. e \in Estates /\ c \in Cids /\ w \in Nat
  BY <1>1, IpfsConstants DEF IpfsDocuments
<1>3. /\ document' = [document EXCEPT ![i] = NoDocument]
      /\ cidDocument' = [cidDocument EXCEPT ![c] = 0]
      /\ listed' = [listed EXCEPT ![e][i] = 0]
      /\ removedPinned' = [removedPinned EXCEPT ![e] = removedPinned[e] + w]
      /\ UNCHANGED <<metadata, documentCount, ipfsRules, pinnedSize, access>>
  BY DEF ReportMaliciousFile
<1>4. /\ document' \in [Ids -> IpfsDocuments \cup {NoDocument}] /\ document'[i] = NoDocument
      /\ \A k \in Ids \ {i} : document'[k] = document[k]
      /\ \A k \in Ids : IsStored(k)' <=> (IsStored(k) /\ k # i)
  BY <1>1, <1>3 DEF IsStored
<1>5. /\ listed' \in [Estates -> [Ids -> Nat]]
      /\ \A q \in Estates, k \in Ids : listed'[q][k] = IF q = e /\ k = i THEN 0 ELSE listed[q][k]
  BY <1>1, <1>2, <1>3
<1>6. /\ cidDocument' \in [Cids -> {0} \cup Ids] /\ cidDocument'[c] = 0 /\ cidDocument[c] = i
      /\ \A b \in Cids \ {c} : cidDocument'[b] = cidDocument[b]
  BY <1>1, <1>2, <1>3 DEF IndexTrue
<1>7. /\ removedPinned' \in [Estates -> Nat] /\ removedPinned'[e] = removedPinned[e] + w
      /\ \A q \in Estates \ {e} : removedPinned'[q] = removedPinned[q]
  BY <1>1, <1>2, <1>3
<1>8. PinnedWeight(document[i], e) = w /\ \A q \in Estates \ {e} : PinnedWeight(document[i], q) = 0
  BY <1>1 DEF PinnedWeight
<1> HIDE DEF e, c, w
<1>9. IndexTrue'
  <2>1. ASSUME NEW k \in Ids, NEW q \in Estates
        PROVE  listed'[q][k] = IF IsStored(k)' /\ document'[k].estate = q THEN 1 ELSE 0
    <3>1. listed[q][k] = IF IsStored(k) /\ document[k].estate = q THEN 1 ELSE 0
      BY <1>1 DEF IndexTrue
    <3>2. CASE k = i
      <4>1. q # e => listed[q][i] = 0
        BY <3>1, <3>2 DEF e
      <4> QED
        BY <1>4, <1>5, <3>2, <4>1
    <3>3. CASE k # i
      BY <1>4, <1>5, <3>1, <3>3
    <3> QED
      BY <3>2, <3>3
  <2>2. ASSUME NEW k \in Ids, IsStored(k)' PROVE cidDocument'[document'[k].cid] = k
    <3>1. document'[k] = document[k] /\ IsStored(k) /\ k # i /\ document[k].cid \in Cids
      BY <1>1, <1>4, <2>2 DEF IsStored, IpfsDocuments
    <3>2. cidDocument[document[k].cid] = k
      BY <1>1, <3>1 DEF IndexTrue
    <3> QED
      BY <1>6, <3>1, <3>2
  <2>3. ASSUME NEW b \in Cids, cidDocument'[b] # 0
        PROVE  document'[cidDocument'[b]] # NoDocument /\ document'[cidDocument'[b]].cid = b
    <3>1. b # c /\ cidDocument'[b] = cidDocument[b] /\ cidDocument[b] \in Ids
      BY <1>1, <1>6, <2>3
    <3>2. IsStored(cidDocument[b]) /\ document[cidDocument[b]].cid = b
      BY <1>1, <2>3, <3>1 DEF IndexTrue
    <3> QED
      BY <1>4, <3>1, <3>2 DEF c, IsStored
  <2> QED
    BY <2>1, <2>2, <2>3 DEF IndexTrue, IsStored
<1>10. PinnedBooked'
  <2> SUFFICES ASSUME NEW q \in Estates
               PROVE  pinnedSize[q] = SumFunctionOnSet(PinnedWeights(q)', Ids) + removedPinned'[q]
    BY <1>3 DEF PinnedBooked
  <2> DEFINE sum == SumFunctionOnSet(PinnedWeights(q), Ids)
             after == SumFunctionOnSet(PinnedWeights(q)', Ids)
  <2>1. after = sum + PinnedWeight(NoDocument, q) - PinnedWeight(document[i], q) /\ sum \in Nat
    BY <1>1, <1>4, PinnedChange
  <2>2. PinnedWeight(NoDocument, q) = 0
    BY DEF PinnedWeight
  <2>3. pinnedSize[q] = sum + removedPinned[q] /\ removedPinned[q] \in Nat
    BY <1>1 DEF PinnedBooked
  <2> HIDE DEF sum, after
  <2>4. CASE q = e
    BY <1>2, <1>7, <1>8, <2>1, <2>2, <2>3, <2>4 DEF after
  <2>5. CASE q # e
    BY <1>2, <1>7, <1>8, <2>1, <2>2, <2>3, <2>5 DEF after
  <2> QED
    BY <2>4, <2>5
<1>11. IpfsTypeOK'
  <2>1. ASSUME NEW k \in Ids, IsStored(k)'
        PROVE  /\ k <= documentCount
               /\ document'[k].uploadedAt <= document'[k].verifiedAt /\ document'[k].verifiedAt <= now
    <3>1. IsStored(k) /\ document'[k] = document[k]
      BY <1>4, <2>1
    <3> QED
      BY <1>1, <3>1 DEF IpfsTypeOK
  <2> QED
    BY <1>1, <1>3, <1>4, <1>5, <1>6, <1>7, <2>1 DEF IpfsTypeOK
<1> QED
  BY <1>1, <1>9, <1>10, <1>11 DEF IpfsIInv

(* The registry starts empty.                                              *)
LEMMA InitIpfs == IpfsAssumption /\ ClockInit /\ IpfsInit => IpfsIInv
<1> SUFFICES ASSUME IpfsAssumption, ClockInit, IpfsInit PROVE IpfsIInv
  OBVIOUS
<1>1. \A i \in Ids : ~ IsStored(i)
  BY DEF IpfsInit, IsStored
<1>2. IpfsTypeOK
  BY <1>1, IpfsConstants DEF IpfsInit, IpfsTypeOK, IpfsAssumption
<1>3. IndexTrue
  BY <1>1 DEF IndexTrue, IpfsInit
<1>4. PinnedBooked
  <2> SUFFICES ASSUME NEW p \in Estates
               PROVE  pinnedSize[p] = SumFunctionOnSet(PinnedWeights(p), Ids) + removedPinned[p]
    BY DEF PinnedBooked
  <2> DEFINE f == PinnedWeights(p)
  <2>1. \A i \in Ids : f[i] = 0
    BY DEF IpfsInit, PinnedWeights, PinnedWeight
  <2> HIDE DEF f
  <2>2. SumFunctionOnSet(f, Ids) = 0
    BY <2>1, IpfsConstants, SumZero
  <2> QED
    BY <2>2 DEF f, IpfsInit
<1> QED
  BY <1>2, <1>3, <1>4 DEF ClockInit, IpfsIInv

(* Every operation, and time, keep the invariant.                          *)
LEMMA NextIpfs == IpfsAssumption /\ IpfsIInv /\ [IpfsNext]_<<now, ipfsVars>> => IpfsIInv'
<1> SUFFICES ASSUME IpfsAssumption, IpfsIInv, [IpfsNext]_<<now, ipfsVars>> PROVE IpfsIInv'
  OBVIOUS
<1>1. /\ now \in Nat /\ metadata \in [Estates -> Metadata \cup {NoMetadata}]
      /\ access \in [Estates -> [IpfsUsers -> {"None", "Read", "Write", "Admin"}]]
      /\ ipfsRules \in IpfsRules
  BY DEF IpfsIInv, IpfsTypeOK
<1>2. CASE RegistryNext /\ UNCHANGED now
  <2>1. ASSUME NEW x \in IpfsUsers, NEW p \in Estates, NEW d \in Metadata, ValidateAndRegisterMetadata(x, p, d)
        PROVE  IpfsIInv'
    BY <1>1, <1>2, <2>1, DocumentsAlone DEF ValidateAndRegisterMetadata
  <2>2. ASSUME NEW x \in IpfsUsers, NEW p \in Estates, NEW y \in IpfsUsers,
               NEW level \in {"None", "Read", "Write", "Admin"}, GrantAccess(x, p, y, level)
        PROVE  IpfsIInv'
    BY <1>1, <1>2, <2>2, DocumentsAlone DEF GrantAccess
  <2>3. ASSUME NEW x \in IpfsUsers, NEW p \in Estates, NEW y \in IpfsUsers, RevokeAccess(x, p, y) PROVE IpfsIInv'
    BY <2>2, <2>3 DEF RevokeAccess
  <2>4. ASSUME NEW r \in IpfsRules, UpdateValidationRules(r) PROVE IpfsIInv'
    BY <1>1, <1>2, <2>4, DocumentsAlone DEF UpdateValidationRules
  <2>5. ASSUME NEW mime \in MimeTypes, AddAllowedMimeType(mime) PROVE IpfsIInv'
    <3> DEFINE r == [ipfsRules EXCEPT !.mimes = @ \cup {mime}]
    <3>1. r \in IpfsRules
      BY <1>1 DEF IpfsRules
    <3>2. UpdateValidationRules(r)
      BY <2>5 DEF AddAllowedMimeType
    <3> HIDE DEF r
    <3> QED
      BY <2>4, <3>1, <3>2
  <2>6. \A r \in IpfsRuleChanges : r \in IpfsRules
    BY DEF IpfsAssumption
  <2>7. ASSUME NEW x \in IpfsUsers, NEW p \in Estates, NEW c \in Cids, NEW size \in FileSizes,
               NEW mime \in MimeTypes, RegisterIpfsDocument(x, p, c, size, mime)
        PROVE  IpfsIInv'
    BY <1>2, <2>7, RegisterKeeps
  <2>8. ASSUME NEW i \in Ids, IsStored(i), NEW x \in IpfsUsers,
               PinDocument(x, i) \/ UnpinDocument(x, i) \/ VerifyContentHash(x, i)
        PROVE  IpfsIInv'
    BY <1>2, <2>8, PinKeeps
  <2>9. ASSUME NEW i \in Ids, IsStored(i), ReportMaliciousFile(i) PROVE IpfsIInv'
    BY <1>2, <2>9, ReportKeeps
  <2> QED
    BY <1>2, <2>1, <2>2, <2>3, <2>4, <2>5, <2>6, <2>7, <2>8, <2>9 DEF RegistryNext
<1>3. CASE IpfsTick
  BY <1>1, <1>3, DocumentsAlone DEF IpfsTick, ClockTicks, ipfsVars, documentVars
<1>4. CASE UNCHANGED <<now, ipfsVars>>
  BY <1>1, <1>4, DocumentsAlone DEF ipfsVars, documentVars
<1> QED
  BY <1>2, <1>3, <1>4 DEF IpfsNext

LEMMA IpfsInvariance == ASSUME IpfsAssumption PROVE IpfsSpec => []IpfsIInv
<1>1. IpfsIInv /\ [IpfsNext]_<<now, ipfsVars>> => IpfsIInv'
  BY NextIpfs
<1> QED
  BY InitIpfs, <1>1, PTL DEF IpfsSpec

(* Both indices name each stored document once and nothing else, and the   *)
(* pinned size of a property is the weight of its pinned documents and of  *)
(* those that were removed while pinned.                                   *)
THEOREM DocumentsAreIndexed == ASSUME IpfsAssumption PROVE IpfsSpec => []DocumentsIndexed
<1>1. IpfsIInv => DocumentsIndexed
  BY DEF IpfsIInv, DocumentsIndexed
<1> QED
  BY IpfsInvariance, <1>1, PTL

-----------------------------------------------------------------------------
(***************************************************************************)
(* The fee manager.                                                        *)
(***************************************************************************)
(* What the bids say of an auction.                                        *)
Leads(p, bids) ==
  IF p.currentBidder = NoBidder THEN \A x \in FeeAccounts : bids[x] = 0
  ELSE /\ bids[p.currentBidder] = p.currentBid
       /\ \A x \in FeeAccounts \ {p.currentBidder} : bids[x] < p.currentBid

LEMMA LeadsEverywhere ==
  HighestBidLeads <=> \A i \in 1 .. auctionCount : Leads(auction[i], bidOf[i])
  BY DEF HighestBidLeads, Leads

(* The auctions, which most operations leave alone.                        *)
AuctionsOK ==
  /\ auction \in Seq(Auctions) /\ Len(auction) = auctionCount
  /\ bidOf \in Seq([FeeAccounts -> Nat]) /\ Len(bidOf) = auctionCount
  /\ HighestBidLeads

LEMMA AuctionsAlone == ASSUME AuctionsOK, UNCHANGED auctionVars PROVE AuctionsOK'
  BY DEF AuctionsOK, HighestBidLeads, auctionVars

(* The rest of the state, without the auctions.                            *)
BooksOK ==
  /\ now \in Nat
  /\ treasury \in Nat /\ collected \in Nat /\ distributed \in Nat
  /\ baseFee \in Nat /\ lastReset \in Nat
  /\ recentOps \in 0 .. CONGESTION_WINDOW
  /\ opConfig \in OpConfigs \cup {NoConfig}
  /\ pendingRewards \in [FeeAccounts -> Nat] /\ claimed \in [FeeAccounts -> Nat]
  /\ validators \in SUBSET FeeAccounts
  /\ validatorList \in [FeeAccounts -> Nat]
  /\ \A x \in FeeAccounts : validatorList[x] = IF x \in validators THEN 1 ELSE 0
  /\ sharesBp \in Nat \X Nat /\ sharesBp[1] + sharesBp[2] <= 10000
  /\ DistributedWasCollected

FeesIInv == AuctionsOK /\ BooksOK

LEMMA BooksAlone ==
  ASSUME BooksOK, UNCHANGED <<feeConfig, congestionVars, feeBooks, validatorVars>>, now' \in Nat
  PROVE  BooksOK'
  BY DEF BooksOK, DistributedWasCollected, SumOf, feeConfig, congestionVars, feeBooks, validatorVars

LEMMA InitFeesIInv == FeesAssumption /\ ClockInit /\ FeesInit => FeesIInv
<1> SUFFICES ASSUME FeesAssumption, ClockInit, FeesInit PROVE FeesIInv
  OBVIOUS
<1>1. now \in Nat /\ auctionCount = 0 /\ Len(auction) = 0 /\ Len(bidOf) = 0
      /\ auction \in Seq(Auctions) /\ bidOf \in Seq([FeeAccounts -> Nat])
  BY EmptySeq DEF ClockInit, FeesInit
<1>2. BooksOK
  <2>1. /\ validatorList \in [FeeAccounts -> Nat]
        /\ \A x \in FeeAccounts : validatorList[x] = IF x \in validators THEN 1 ELSE 0
    BY DEF FeesInit
  <2>2. FirstConfig.base \in Nat /\ 0 \in 0 .. CONGESTION_WINDOW
    BY DEF FeesAssumption
  <2>3. /\ treasury \in Nat /\ collected \in Nat /\ distributed \in Nat
        /\ baseFee \in Nat /\ lastReset \in Nat
        /\ recentOps \in 0 .. CONGESTION_WINDOW /\ opConfig \in OpConfigs \cup {NoConfig}
    BY <2>2 DEF FeesInit
  <2>4. /\ pendingRewards \in [FeeAccounts -> Nat] /\ claimed \in [FeeAccounts -> Nat]
        /\ validators \in SUBSET FeeAccounts
    BY DEF FeesInit
  <2>5. sharesBp \in Nat \X Nat /\ sharesBp[1] + sharesBp[2] <= 10000
    BY DEF FeesInit
  <2>6. DistributedWasCollected
    <3>1. SumOf(pendingRewards) = 0 /\ SumOf(claimed) = 0
      BY SumZero DEF SumOf, FeesInit, FeesAssumption
    <3> QED
      BY <3>1 DEF DistributedWasCollected, FeesInit
  <2> QED
    BY <1>1, <2>1, <2>3, <2>4, <2>5, <2>6 DEF BooksOK
<1> QED
  BY <1>1, <1>2 DEF FeesIInv, AuctionsOK, HighestBidLeads

(* What is rounded down is natural when it was.                            *)

(* The fee of a listing is an amount.                                      *)
LEMMA ListingFeeIsNat ==
  ASSUME FeesAssumption, BooksOK PROVE ListingFee \in Nat
<1>0. \A m, n \in Nat : Least(m, n) \in Nat /\ Most(m, n) \in Nat
  BY DEF Least, Most
<1> DEFINE Config == [base : Nat, min : Nat, max : Nat, sensitivity : Nat, demand : Nat]
<1>1. CongestionIndex \in Nat
  <2>1. recentOps * 100 \in Nat /\ CONGESTION_WINDOW \in Nat \ {0}
    BY DEF BooksOK, FeesAssumption
  <2> DEFINE all == recentOps * 100
             part == all \div CONGESTION_WINDOW
  <2>2. part \in Nat
    <3> HIDE DEF all
    <3> QED
      BY <2>1, NatQuotient DEF all
  <2> QED
    BY <1>0, <2>2 DEF CongestionIndex
<1>2. DemandFactorBp \in Nat
  <2>1. FirstConfig.demand \in Nat
    BY DEF FeesAssumption
  <2> DEFINE all == FirstConfig.demand * CongestionIndex
  <2>2. all \in Nat
    BY <1>1, <2>1, NatProduct
  <2>3. 100 \in Nat \ {0} /\ DemandFactorBp = all \div 100
    BY DEF DemandFactorBp
  <2> HIDE DEF all
  <2> QED
    BY <2>2, <2>3, NatQuotient
<1>3. ASSUME NEW c \in Config PROVE ComputeDynamicFee(c) \in Nat
  <2>1. c.base \in Nat /\ c.min \in Nat /\ c.max \in Nat /\ c.sensitivity \in Nat
    OBVIOUS
  <2>2. MAX_CONGESTION_MULTIPLIER - 100 \in Nat
    BY DEF FeesAssumption
  <2> DEFINE a == CongestionIndex * c.sensitivity
             b == a * (MAX_CONGESTION_MULTIPLIER - 100)
             bp == b \div 10000
             m == 10000 + bp + Least(DemandFactorBp, 5000)
             d == c.base * m
             e == d \div BASIS_POINTS
  <2>3. a \in Nat
    BY <1>1, <2>1, NatProduct
  <2>4. b \in Nat
    <3> HIDE DEF a
    <3> QED
      BY <2>2, <2>3, NatProduct DEF b
  <2>5. bp \in Nat
    <3> HIDE DEF b
    <3>1. 10000 \in Nat \ {0}
      OBVIOUS
    <3> QED
      BY <2>4, <3>1, NatQuotient DEF bp
  <2>6. m \in Nat
    <3> HIDE DEF bp
    <3>1. Least(DemandFactorBp, 5000) \in Nat
      BY <1>2 DEF Least
    <3> QED
      BY <2>5, <3>1
  <2>7. d \in Nat
    <3> HIDE DEF m
    <3> QED
      BY <2>1, <2>6, NatProduct
  <2>8. e \in Nat
    <3> HIDE DEF d
    <3>1. BASIS_POINTS \in Nat \ {0}
      BY DEF BASIS_POINTS
    <3> QED
      BY <2>7, <3>1, NatQuotient
  <2>9. ComputeDynamicFee(c) = Least(Most(e, c.min), c.max)
    BY DEF ComputeDynamicFee
  <2> HIDE DEF e
  <2> QED
    BY <2>1, <2>8, <2>9 DEF Least, Most
<1>4. [FirstConfig EXCEPT !.base = baseFee] \in Config
  <2>1. FirstConfig \in Config /\ baseFee \in Nat
    BY DEF FeesAssumption, BooksOK
  <2> QED
    BY <2>1
<1>5. opConfig # NoConfig => opConfig \in Config
  BY DEF FeesAssumption, BooksOK
<1> QED
  BY <1>3, <1>4, <1>5 DEF ListingFee

(* An auction more, or another one in the place of an auction.             *)
LEMMA ListPreserves ==
  ASSUME FeesAssumption, FeesIInv, NEW m \in MinBids, NEW d \in AuctionTimes,
         CreatePremiumAuction(m, d), now' \in Nat
  PROVE  FeesIInv'
<1>0. AuctionsOK /\ BooksOK /\ ListingFee \in Nat
  BY ListingFeeIsNat DEF FeesIInv
<1>1. BooksOK'
  <2>1. /\ treasury' = treasury + ListingFee /\ collected' = collected + ListingFee
        /\ UNCHANGED <<distributed, pendingRewards, claimed, feeConfig, congestionVars, validatorVars>>
    BY DEF CreatePremiumAuction, Collect
  <2> QED
    BY <1>0, <2>1 DEF BooksOK, DistributedWasCollected, SumOf, feeConfig, congestionVars, validatorVars
<1> DEFINE a == [minBid |-> m, currentBid |-> 0, currentBidder |-> NoBidder,
                 endTime |-> now + d, settled |-> FALSE]
           z == [x \in FeeAccounts |-> 0]
<1>2. a \in Auctions /\ z \in [FeeAccounts -> Nat] /\ Leads(a, z)
  BY <1>0 DEF Auctions, BooksOK, FeesAssumption, Leads
<1>3. auction' = Append(auction, a) /\ bidOf' = Append(bidOf, z) /\ auctionCount' = auctionCount + 1
  BY DEF CreatePremiumAuction
<1> HIDE DEF a, z
<1>4. /\ auction' \in Seq(Auctions) /\ Len(auction') = auctionCount'
      /\ bidOf' \in Seq([FeeAccounts -> Nat]) /\ Len(bidOf') = auctionCount'
  BY <1>0, <1>2, <1>3, AppendProperties DEF AuctionsOK
<1>5. ASSUME NEW i \in 1 .. auctionCount' PROVE Leads(auction'[i], bidOf'[i])
  <2>1. auctionCount \in Nat
    BY <1>0, LenProperties DEF AuctionsOK
  <2>2. CASE i = auctionCount + 1
    <3>1. auction'[i] = a /\ bidOf'[i] = z
      BY <1>0, <1>2, <1>3, <2>2, AppendProperties DEF AuctionsOK
    <3> QED
      BY <1>2, <3>1
  <2>3. CASE i \in 1 .. auctionCount
    <3>1. auction'[i] = auction[i] /\ bidOf'[i] = bidOf[i]
      BY <1>0, <1>2, <1>3, <2>3, AppendProperties DEF AuctionsOK
    <3> QED
      BY <1>0, <2>3, <3>1, LeadsEverywhere DEF AuctionsOK
  <2>4. i \in 1 .. auctionCount + 1
    BY <1>3
  <2> QED
    BY <2>1, <2>2, <2>3, <2>4
<1>6. HighestBidLeads'
  BY <1>5 DEF HighestBidLeads, Leads
<1> QED
  BY <1>1, <1>4, <1>6 DEF AuctionsOK, FeesIInv

(* A bid is higher than every other one, so who makes it leads.            *)
LEMMA BidPreserves ==
  ASSUME FeesAssumption, AuctionsOK, NEW x \in FeeAccounts, NEW i \in 1 .. auctionCount,
         NEW b \in Bids, PlaceBid(x, i, b)
  PROVE  AuctionsOK'
<1>1. i \in 1 .. Len(auction) /\ i \in 1 .. Len(bidOf) /\ b \in Nat
  BY DEF AuctionsOK, FeesAssumption
<1>2. auction[i] \in Auctions /\ bidOf[i] \in [FeeAccounts -> Nat]
  BY <1>1, ElementOfSeq DEF AuctionsOK
<1> DEFINE p == [auction[i] EXCEPT !.currentBid = b, !.currentBidder = x]
           c == [bidOf[i] EXCEPT ![x] = b]
<1>3. p \in Auctions /\ c \in [FeeAccounts -> Nat] /\ p.currentBid = b /\ p.currentBidder = x
      /\ c[x] = b /\ \A y \in FeeAccounts \ {x} : c[y] = bidOf[i][y]
  BY <1>1, <1>2 DEF Auctions
<1>4. auction' = [auction EXCEPT ![i] = p] /\ bidOf' = [bidOf EXCEPT ![i] = c]
      /\ auctionCount' = auctionCount /\ b > auction[i].currentBid
  BY DEF PlaceBid, Acceptable
<1>5. Leads(auction[i], bidOf[i])
  BY LeadsEverywhere DEF AuctionsOK
<1> HIDE DEF p, c
<1>6. /\ auction' \in Seq(Auctions) /\ Len(auction') = auctionCount'
      /\ bidOf' \in Seq([FeeAccounts -> Nat]) /\ Len(bidOf') = auctionCount'
      /\ auction'[i] = p /\ bidOf'[i] = c
      /\ \A j \in 1 .. auctionCount : j # i => auction'[j] = auction[j] /\ bidOf'[j] = bidOf[j]
  BY <1>1, <1>3, <1>4, ExceptSeq DEF AuctionsOK
<1>7. Leads(p, c)
  <2>1. x # NoBidder /\ auction[i].currentBid \in Nat
    BY <1>2 DEF FeesAssumption, Auctions
  <2>2. ASSUME NEW y \in FeeAccounts \ {x} PROVE c[y] < b
    <3>1. c[y] = bidOf[i][y] /\ bidOf[i][y] <= auction[i].currentBid
      BY <1>2, <1>3, <1>5, <2>1 DEF Leads
    <3> QED
      BY <1>1, <1>2, <1>4, <2>1, <3>1
  <2> QED
    BY <1>3, <2>1, <2>2 DEF Leads
<1>8. ASSUME NEW j \in 1 .. auctionCount PROVE Leads(auction'[j], bidOf'[j])
  BY <1>6, <1>7, LeadsEverywhere DEF AuctionsOK
<1>9. HighestBidLeads'
  BY <1>4, <1>8 DEF HighestBidLeads, Leads
<1> QED
  BY <1>6, <1>9 DEF AuctionsOK

LEMMA SettlePreserves ==
  ASSUME AuctionsOK, NEW i \in 1 .. auctionCount, SettleAuction(i)
  PROVE  AuctionsOK'
<1>1. i \in 1 .. Len(auction) /\ auction[i] \in Auctions
  BY ElementOfSeq DEF AuctionsOK
<1> DEFINE p == [auction[i] EXCEPT !.settled = TRUE]
<1>2. p \in Auctions /\ p.currentBid = auction[i].currentBid /\ p.currentBidder = auction[i].currentBidder
  BY <1>1 DEF Auctions
<1>3. auction' = [auction EXCEPT ![i] = p] /\ bidOf' = bidOf /\ auctionCount' = auctionCount
  BY DEF SettleAuction
<1> HIDE DEF p
<1>4. /\ auction' \in Seq(Auctions) /\ Len(auction') = auctionCount' /\ auction'[i] = p
      /\ \A j \in 1 .. auctionCount : j # i => auction'[j] = auction[j]
  BY <1>1, <1>2, <1>3, ExceptSeq DEF AuctionsOK
<1>5. ASSUME NEW j \in 1 .. auctionCount PROVE Leads(auction'[j], bidOf'[j])
  <2>1. Leads(auction[j], bidOf[j])
    BY LeadsEverywhere DEF AuctionsOK
  <2>2. auction'[j].currentBid = auction[j].currentBid /\ auction'[j].currentBidder = auction[j].currentBidder
    BY <1>2, <1>4
  <2> QED
    BY <1>3, <2>1, <2>2 DEF Leads
<1>6. HighestBidLeads'
  BY <1>3, <1>5 DEF HighestBidLeads, Leads
<1> QED
  BY <1>3, <1>4, <1>6 DEF AuctionsOK

-----------------------------------------------------------------------------
(* What the validators receive together is no more than the treasury has.  *)
LEMMA SharesFit ==
  ASSUME NEW t \in Nat, NEW bp \in Nat, bp <= 10000, NEW n \in Nat \ {0}
  PROVE  (((t * bp) \div 10000) \div n) \in Nat /\ (((t * bp) \div 10000) \div n) * n <= t
<1> DEFINE all == t * bp
           v == all \div 10000
           per == v \div n
<1>1. all \in Nat /\ all <= t * 10000
  <2>1. \A a, b, c \in Nat : a <= b => c * a <= c * b
    BY TimesGrows
  <2> QED
    BY <2>1, NatProduct
<1>2. v \in Nat /\ v * 10000 <= all
  <2> HIDE DEF all
  <2>1. 10000 \in Nat \ {0}
    OBVIOUS
  <2> QED
    BY <1>1, <2>1, RoundedDown
<1>3. v <= t
  <2> HIDE DEF v, all
  <2> QED
    BY <1>1, <1>2
<1>4. per \in Nat /\ per * n <= v
  <2> HIDE DEF v
  <2> QED
    BY <1>2, RoundedDown
<1>5. per * n \in Nat
  <2> HIDE DEF per
  <2> QED
    BY <1>4
<1> DEFINE pn == per * n
<1>6. pn \in Nat /\ pn <= v
  BY <1>4, <1>5
<1> HIDE DEF v, pn
<1>7. pn <= t
  BY <1>2, <1>3, <1>6
<1> QED
  BY <1>4, <1>7 DEF pn, v

LEMMA DistributePreserves ==
  ASSUME FeesAssumption, BooksOK, DistributeFees, now' \in Nat
  PROVE  BooksOK'
<1> DEFINE n == SumOf(validatorList)
           per == PerValidator(n)
<1>0. IsFiniteSet(FeeAccounts) /\ \A x \in FeeAccounts : validatorList[x] \in Nat
  BY DEF FeesAssumption, BooksOK
<1>1. n \in Nat /\ treasury \in Nat /\ sharesBp[1] \in Nat /\ sharesBp[1] <= 10000
  <2>1. n \in Nat
    BY <1>0, SumNat DEF SumOf
  <2>2. sharesBp[1] \in Nat /\ sharesBp[2] \in Nat /\ sharesBp[1] + sharesBp[2] <= 10000 /\ treasury \in Nat
    BY DEF BooksOK
  <2>3. \A a, b \in Nat : a + b <= 10000 => a <= 10000
    OBVIOUS
  <2> QED
    BY <2>1, <2>2, <2>3
<1> HIDE DEF n
<1>2. per \in Nat /\ per * n <= treasury
  <2>1. CASE n = 0
    BY <1>1, <2>1 DEF PerValidator
  <2>2. CASE n # 0
    <3>1. n \in Nat \ {0} /\ per = ((treasury * sharesBp[1]) \div 10000) \div n
      BY <1>1, <2>2 DEF PerValidator, ValidatorTotal, BASIS_POINTS
    <3> QED
      BY <1>1, <3>1, SharesFit
  <2> QED
    BY <2>1, <2>2
<1>3. /\ pendingRewards' = [x \in FeeAccounts |-> pendingRewards[x] + per * validatorList[x]]
      /\ distributed' = distributed + per * n /\ treasury' = 0
      /\ UNCHANGED <<collected, claimed, feeConfig, congestionVars, validatorVars>>
  BY DEF DistributeFees, n, TreasuryAfterDistribution
<1> HIDE DEF per
<1>4. per * n \in Nat
  BY <1>1, <1>2, NatProduct
<1>5. pendingRewards' \in [FeeAccounts -> Nat]
  <2>1. \A x \in FeeAccounts : pendingRewards[x] \in Nat /\ per * validatorList[x] \in Nat
    BY <1>0, <1>2, NatProduct DEF BooksOK
  <2> QED
    BY <1>3, <2>1
<1>6. SumOf(pendingRewards') = SumOf(pendingRewards) + per * n
  <2> DEFINE g == pendingRewards'
  <2>1. \A x \in FeeAccounts : g[x] = pendingRewards[x] + per * validatorList[x]
    BY <1>3
  <2>2. /\ per \in Int
        /\ \A x \in FeeAccounts : pendingRewards[x] \in Int
        /\ \A x \in FeeAccounts : validatorList[x] \in Int
    BY <1>0, <1>2 DEF BooksOK
  <2> HIDE DEF g
  <2>3. SumFunctionOnSet(g, FeeAccounts)
          = SumFunctionOnSet(pendingRewards, FeeAccounts) + per * SumFunctionOnSet(validatorList, FeeAccounts)
    BY <1>0, <2>1, <2>2, SumLinear
  <2> QED
    BY <2>3 DEF SumOf, g, n
<1>7. SumOf(pendingRewards) \in Nat /\ SumOf(claimed) \in Nat
  BY <1>0, SumNat DEF SumOf, BooksOK
<1>8. DistributedWasCollected'
  <2> DEFINE pn == per * n
  <2> HIDE DEF pn
  <2>1. pn \in Nat /\ pn <= treasury /\ distributed' = distributed + pn
        /\ SumOf(pendingRewards') = SumOf(pendingRewards) + pn /\ claimed' = claimed
        /\ collected' = collected /\ treasury' = 0
    BY <1>2, <1>3, <1>4, <1>6 DEF pn
  <2>2. distributed = SumOf(pendingRewards) + SumOf(claimed) /\ treasury + distributed <= collected
        /\ distributed \in Nat /\ treasury \in Nat /\ collected \in Nat
    BY DEF BooksOK, DistributedWasCollected
  <2>3. distributed' = SumOf(pendingRewards') + SumOf(claimed)
    BY <1>7, <2>1, <2>2
  <2>4. treasury' + distributed' <= collected'
    BY <2>1, <2>2
  <2> QED
    BY <2>1, <2>3, <2>4 DEF DistributedWasCollected, SumOf
<1>9. distributed' \in Nat
  BY <1>3, <1>4 DEF BooksOK
<1> QED
  BY <1>3, <1>5, <1>8, <1>9 DEF BooksOK, feeConfig, congestionVars, validatorVars

LEMMA ClaimRewardsPreserves ==
  ASSUME FeesAssumption, BooksOK, NEW x \in FeeAccounts, ClaimRewards(x), now' \in Nat
  PROVE  BooksOK'
<1>1. IsFiniteSet(FeeAccounts) /\ pendingRewards \in [FeeAccounts -> Nat] /\ claimed \in [FeeAccounts -> Nat]
  BY DEF FeesAssumption, BooksOK
<1> DEFINE p == pendingRewards'
           c == claimed'
<1>2. /\ p \in [FeeAccounts -> Nat] /\ c \in [FeeAccounts -> Nat]
      /\ p[x] = 0 /\ c[x] = claimed[x] + pendingRewards[x]
      /\ \A y \in FeeAccounts \ {x} : p[y] = pendingRewards[y] /\ c[y] = claimed[y]
  BY <1>1 DEF ClaimRewards
<1>3. UNCHANGED <<treasury, collected, distributed, feeConfig, congestionVars, validatorVars>>
  BY DEF ClaimRewards
<1> HIDE DEF p, c
<1>4. SumFunctionOnSet(p, FeeAccounts) = SumFunctionOnSet(pendingRewards, FeeAccounts) + p[x] - pendingRewards[x]
  <2>1. (\A y \in FeeAccounts : pendingRewards[y] \in Int) /\ p[x] \in Int
        /\ \A y \in FeeAccounts \ {x} : p[y] = pendingRewards[y]
    BY <1>1, <1>2
  <2> QED
    BY <1>1, <2>1, SumChange
<1>5. SumFunctionOnSet(c, FeeAccounts) = SumFunctionOnSet(claimed, FeeAccounts) + c[x] - claimed[x]
  <2>1. (\A y \in FeeAccounts : claimed[y] \in Int) /\ c[x] \in Int
        /\ \A y \in FeeAccounts \ {x} : c[y] = claimed[y]
    BY <1>1, <1>2
  <2> QED
    BY <1>1, <2>1, SumChange
<1>6. SumFunctionOnSet(pendingRewards, FeeAccounts) \in Nat /\ SumFunctionOnSet(claimed, FeeAccounts) \in Nat
      /\ pendingRewards[x] \in Nat /\ claimed[x] \in Nat
  BY <1>1, SumNat
<1>7. SumOf(p) + SumOf(c) = SumOf(pendingRewards) + SumOf(claimed)
  BY <1>2, <1>4, <1>5, <1>6 DEF SumOf
<1>8. DistributedWasCollected'
  BY <1>3, <1>7 DEF DistributedWasCollected, BooksOK, p, c, SumOf
<1> QED
  BY <1>2, <1>3, <1>8 DEF BooksOK, feeConfig, congestionVars, validatorVars, p, c

(* What is recorded as collected goes to the treasury.                     *)
LEMMA RecordPreserves ==
  ASSUME FeesAssumption, BooksOK, NEW amount \in FeeAmounts, RecordFeeCollected(amount), now' \in Nat
  PROVE  BooksOK'
<1>1. amount \in Nat /\ treasury' = treasury + amount /\ collected' = collected + amount
      /\ UNCHANGED <<distributed, pendingRewards, claimed, feeConfig, validatorVars>>
  BY DEF RecordFeeCollected, Collect, FeesAssumption
<1>2. recentOps' \in 0 .. CONGESTION_WINDOW /\ lastReset' \in Nat
  BY DEF RecordFeeCollected, FeesAssumption, BooksOK, Least
<1> QED
  BY <1>1, <1>2 DEF BooksOK, DistributedWasCollected, SumOf, feeConfig, validatorVars

LEMMA FeeUpdatePreserves ==
  ASSUME FeesAssumption, BooksOK, UpdateFeeParams, now' \in Nat
  PROVE  BooksOK'
<1>1. FirstConfig.max \in Nat /\ FirstConfig.min \in Nat /\ baseFee \in Nat
  BY DEF FeesAssumption, BooksOK
<1> DEFINE up == baseFee * 105
           down == baseFee * 95
<1>2. up \in Nat /\ down \in Nat
  BY <1>1
<1>3. baseFee' \in {Least(up \div 100, FirstConfig.max), Most(down \div 100, FirstConfig.min), baseFee}
      /\ UNCHANGED <<opConfig, congestionVars, feeBooks, validatorVars>>
  BY DEF UpdateFeeParams
<1> HIDE DEF up, down
<1>4. up \div 100 \in Nat /\ down \div 100 \in Nat
  <2>1. 100 \in Nat \ {0}
    OBVIOUS
  <2> QED
    BY <1>2, <2>1, NatQuotient
<1>5. baseFee' \in Nat
  BY <1>1, <1>3, <1>4 DEF Least, Most
<1> QED
  BY <1>3, <1>5 DEF BooksOK, DistributedWasCollected, SumOf, congestionVars, feeBooks, validatorVars

LEMMA ValidatorsPreserve ==
  ASSUME BooksOK, NEW x \in FeeAccounts, AddValidator(x) \/ RemoveValidator(x), now' \in Nat
  PROVE  BooksOK'
<1>0. UNCHANGED <<sharesBp, feeConfig, congestionVars, feeBooks>>
  BY DEF AddValidator, RemoveValidator
<1>1. /\ validators' \in SUBSET FeeAccounts
      /\ validatorList' \in [FeeAccounts -> Nat]
      /\ \A y \in FeeAccounts : validatorList'[y] = IF y \in validators' THEN 1 ELSE 0
  BY DEF AddValidator, RemoveValidator, BooksOK
<1> QED
  BY <1>0, <1>1 DEF BooksOK, DistributedWasCollected, SumOf, feeConfig, congestionVars, feeBooks

LEMMA RatesPreserve ==
  ASSUME FeesAssumption, BooksOK, NEW rates \in ShareRates, SetDistributionRates(rates), now' \in Nat
  PROVE  BooksOK'
<1>1. rates \in Nat \X Nat /\ rates[1] + rates[2] <= 10000 /\ sharesBp' = rates
      /\ UNCHANGED <<validators, validatorList, feeConfig, congestionVars, feeBooks>>
  BY DEF SetDistributionRates, FeesAssumption
<1> QED
  BY <1>1 DEF BooksOK, DistributedWasCollected, SumOf, feeConfig, congestionVars, feeBooks

-----------------------------------------------------------------------------
LEMMA FeesInductive == FeesAssumption /\ FeesIInv /\ [FeesNext]_<<now, feeVars>> => FeesIInv'
<1> SUFFICES ASSUME FeesAssumption, FeesIInv, [FeesNext]_<<now, feeVars>> PROVE FeesIInv'
  OBVIOUS
<1>0. AuctionsOK /\ BooksOK
  BY DEF FeesIInv
<1>p. ASSUME AuctionsOK', BooksOK' PROVE FeesIInv'
  BY <1>p DEF FeesIInv
<1>n. now' \in Nat
  BY <1>0 DEF BooksOK, FeesNext, FeesTick, ClockTicks
<1>1. ASSUME ListProperty PROVE FeesIInv'
  BY <1>1, <1>n, ListPreserves DEF ListProperty
<1>2. ASSUME NEW x \in FeeAccounts, NEW i \in 1 .. auctionCount, NEW b \in Bids, PlaceBid(x, i, b)
      PROVE  FeesIInv'
  <2>1. BooksOK'
    BY <1>0, <1>2, <1>n, BooksAlone DEF PlaceBid
  <2> QED
    BY <1>0, <1>2, <1>p, <2>1, BidPreserves
<1>3. ASSUME NEW i \in 1 .. auctionCount, SettleAuction(i) PROVE FeesIInv'
  <2>1. BooksOK'
    BY <1>0, <1>3, <1>n, BooksAlone DEF SettleAuction
  <2> QED
    BY <1>0, <1>3, <1>p, <2>1, SettlePreserves
<1>4. ASSUME UNCHANGED auctionVars PROVE AuctionsOK'
  BY <1>0, <1>4, AuctionsAlone
<1>5. ASSUME NEW amount \in FeeAmounts, RecordFeeCollected(amount) PROVE FeesIInv'
  BY <1>0, <1>4, <1>5, <1>n, <1>p, RecordPreserves DEF RecordFeeCollected
<1>6. ASSUME UpdateFeeParams PROVE FeesIInv'
  BY <1>0, <1>4, <1>6, <1>n, <1>p, FeeUpdatePreserves DEF UpdateFeeParams
<1>7. ASSUME NEW c \in OpConfigs, SetOperationConfig(c) PROVE FeesIInv'
  <2>1. BooksOK'
    BY <1>0, <1>7, <1>n
       DEF SetOperationConfig, BooksOK, DistributedWasCollected, SumOf, congestionVars, feeBooks, validatorVars
  <2> QED
    BY <1>4, <1>7, <1>p, <2>1 DEF SetOperationConfig
<1>8. ASSUME NEW x \in FeeAccounts, AddValidator(x) \/ RemoveValidator(x) PROVE FeesIInv'
  BY <1>0, <1>4, <1>8, <1>n, <1>p, ValidatorsPreserve DEF AddValidator, RemoveValidator
<1>9. ASSUME NEW x \in FeeAccounts, ClaimRewards(x) PROVE FeesIInv'
  BY <1>0, <1>4, <1>9, <1>n, <1>p, ClaimRewardsPreserves DEF ClaimRewards
<1>10. ASSUME NEW rates \in ShareRates, SetDistributionRates(rates) PROVE FeesIInv'
  BY <1>0, <1>4, <1>10, <1>n, <1>p, RatesPreserve DEF SetDistributionRates
<1>11. ASSUME DistributeFees PROVE FeesIInv'
  BY <1>0, <1>4, <1>11, <1>n, <1>p, DistributePreserves DEF DistributeFees
<1>12. ASSUME UNCHANGED feeVars PROVE FeesIInv'
  BY <1>0, <1>4, <1>12, <1>n, <1>p, BooksAlone DEF feeVars
<1>13. CASE AuctionNext
  BY <1>1, <1>2, <1>3, <1>13 DEF AuctionNext
<1>14. CASE BooksNext
  BY <1>1, <1>5, <1>6, <1>7, <1>8, <1>9, <1>10, <1>11, <1>14 DEF BooksNext
<1> QED
  BY <1>12, <1>13, <1>14 DEF FeesNext, FeesTick

LEMMA FeesInvariance == ASSUME FeesAssumption PROVE FeesSpec => []FeesIInv
<1>1. ClockInit /\ FeesInit => FeesIInv
  BY InitFeesIInv
<1>2. FeesIInv /\ [FeesNext]_<<now, feeVars>> => FeesIInv'
  BY FeesInductive
<1> QED
  BY <1>1, <1>2, PTL DEF FeesSpec

(* What was distributed is what the validators claimed or may claim and is *)
(* never more than was collected, and the highest bid leads every auction, *)
(* for any accounts, configurations, amounts, rates, bids and bounds.      *)
THEOREM FeesAreBooked == ASSUME FeesAssumption PROVE FeesSpec => []FeeBooksTrue
<1>1. FeesIInv => FeeBooksTrue
  BY DEF FeesIInv, AuctionsOK, BooksOK, FeeBooksTrue
<1> QED
  BY <1>1, FeesInvariance, PTL

-----------------------------------------------------------------------------
(* Newton's method: a step from anywhere leads to the root or above it,    *)
(* and it stops at the root or below.                                      *)
LEMMA NewtonSteps ==
  ASSUME NEW v \in Nat \ {0}, NEW x \in Nat \ {0}
  PROVE  LET y == NewtonStep(x, v)
         IN  /\ y \in Nat \ {0} /\ v < (y + 1) * (y + 1)
             /\ y >= x => x * x <= v
<1> DEFINE q == v \div x
           y == (x + q) \div 2
<1>1. q \in Nat /\ q * x <= v /\ v < q * x + x
  BY RoundedDown
<1>2. NewtonStep(x, v) = y
  BY DEF NewtonStep
<1>3. (x = 1 => q = v) /\ x + q >= 2
  <2>1. x = 1 => q = v
    <3>1. CASE x = 1
      <4>1. q * 1 = q
        BY <1>1
      <4> QED
        BY <1>1, <3>1, <4>1
    <3> QED
      BY <3>1
  <2> HIDE DEF q
  <2> QED
    BY <1>1, <2>1
<1> HIDE DEF q
<1>4. y \in Nat /\ y * 2 <= x + q /\ x + q < y * 2 + 2
  <2>1. x + q \in Nat /\ 2 \in Nat \ {0}
    BY <1>1
  <2> DEFINE a == x + q
             two == 2
  <2> HIDE DEF a, two
  <2>2. a \div two \in Nat /\ (a \div two) * two <= a /\ a < (a \div two) * two + two
    BY <2>1, RoundedDown DEF a, two
  <2> QED
    BY <2>2 DEF a, two
<1> HIDE DEF y
<1>5. y \in Nat \ {0}
  BY <1>1, <1>3, <1>4
<1>6. v < (y + 1) * (y + 1)
  <2> DEFINE p == q + 1
             z == y + 1
             w == x + p
             zz == z * z
             xp == x * p
  <2>1. p \in Nat /\ z \in Nat /\ w \in Nat /\ w <= 2 * z
    BY <1>1, <1>4
  <2>2. w * w <= (2 * z) * (2 * z)
    <3> HIDE DEF w, z
    <3>1. 2 * z \in Nat
      BY <2>1
    <3> QED
      BY <2>1, <3>1, SquaresGrow
  <2>3. (2 * z) * (2 * z) = 4 * zz /\ zz \in Nat
    <3> HIDE DEF z
    <3> QED
      BY <2>1
  <2>4. w * w >= 4 * xp /\ xp \in Nat
    <3> HIDE DEF p
    <3> QED
      BY <2>1, MeansSquared, NatProduct
  <2>5. v < xp
    <3>1. x * (q + 1) = q * x + x
      BY <1>1
    <3> QED
      BY <1>1, <3>1
  <2>6. w * w \in Nat
    <3> HIDE DEF w
    <3> QED
      BY <2>1
  <2> DEFINE ww == w * w
             four == (2 * z) * (2 * z)
  <2>7. ww <= four /\ four = 4 * zz /\ zz \in Nat /\ ww >= 4 * xp /\ xp \in Nat /\ v < xp /\ ww \in Nat
    BY <2>2, <2>3, <2>4, <2>5, <2>6
  <2> HIDE DEF ww, four, zz, xp
  <2>8. v < zz
    BY <2>7
  <2> QED
    BY <2>8 DEF zz
<1>7. ASSUME y >= x PROVE x * x <= v
  <2>1. x <= q
    BY <1>1, <1>4, <1>7
  <2>2. x * x <= q * x
    BY <1>1, <2>1, TimesGrows
  <2>3. x * x \in Nat /\ q * x \in Nat
    BY <1>1
  <2> QED
    BY <1>1, <2>2, <2>3
<1> QED
  BY <1>2, <1>5, <1>6, <1>7

(* The recursion that the method is.                                       *)
Iterates(f, v) ==
  f = [x \in Nat \ {0} |-> LET y == NewtonStep(x, v) IN IF y >= x THEN x ELSE f[y]]

(* Every number has a root, rounded down.                                  *)
LEMMA RootExists == ASSUME NEW v \in Nat PROVE \E r \in Nat : r * r <= v /\ v < (r + 1) * (r + 1)
<1> DEFINE B == {n \in Nat : v < (n + 1) * (n + 1)}
<1>1. v \in B
  <2>1. (v + 1) * (v + 1) = v * v + 2 * v + 1 /\ v * v \in Nat
    OBVIOUS
  <2> QED
    BY <2>1
<1>2. PICK n \in B : \A m \in B : n <= m
  <2>1. B \subseteq Nat /\ B # {}
    BY <1>1
  <2> HIDE DEF B
  <2> QED
    BY <2>1, LeastNumber
<1>3. n * n <= v
  <2>1. CASE n = 0
    BY <2>1
  <2>2. CASE n # 0
    <3>1. n - 1 \in Nat /\ (n - 1) + 1 = n /\ ~(n <= n - 1)
      BY <2>2
    <3>2. n - 1 \notin B
      BY <1>2, <3>1
    <3>3. ~(v < n * n) /\ n * n \in Nat
      BY <3>1, <3>2
    <3> QED
      BY <3>3
  <2> QED
    BY <2>1, <2>2
<1> QED
  BY <1>3

LEMMA RootUnique ==
  ASSUME NEW v \in Nat, NEW r \in Nat, r * r <= v, v < (r + 1) * (r + 1),
         NEW t \in Nat, t * t <= v, v < (t + 1) * (t + 1)
  PROVE  r = t
<1>1. \A a, b \in Nat : a * a <= v /\ v < (b + 1) * (b + 1) => a <= b
  <2> SUFFICES ASSUME NEW a \in Nat, NEW b \in Nat, a * a <= v, v < (b + 1) * (b + 1), a > b PROVE FALSE
    OBVIOUS
  <2> DEFINE c == b + 1
  <2>1. c \in Nat /\ c <= a
    OBVIOUS
  <2>2. c * c <= a * a
    <3> HIDE DEF c
    <3> QED
      BY <2>1, SquaresGrow
  <2>3. c * c \in Nat /\ a * a \in Nat
    <3> HIDE DEF c
    <3> QED
      BY <2>1
  <2> QED
    BY <2>2, <2>3
<1>2. r <= t /\ t <= r
  BY <1>1
<1> QED
  BY <1>2

LEMMA IterationExists == ASSUME NEW v \in Nat \ {0} PROVE \E f : Iterates(f, v)
<1>1. PICK r \in Nat : r * r <= v /\ v < (r + 1) * (r + 1)
  BY RootExists
<1> DEFINE f == [x \in Nat \ {0} |-> IF NewtonStep(x, v) >= x THEN x ELSE r]
<1>2. ASSUME NEW x \in Nat \ {0}
      PROVE  f[x] = IF NewtonStep(x, v) >= x THEN x ELSE f[NewtonStep(x, v)]
  <2> DEFINE y == NewtonStep(x, v)
  <2>1. y \in Nat \ {0} /\ v < (y + 1) * (y + 1)
    BY NewtonSteps
  <2> HIDE DEF y
  <2>2. f[y] = IF NewtonStep(y, v) >= y THEN y ELSE r
    BY <2>1
  <2>3. NewtonStep(y, v) >= y => y = r
    <3>1. NewtonStep(y, v) >= y => y * y <= v
      BY <2>1, NewtonSteps
    <3> QED
      BY <1>1, <2>1, <3>1, RootUnique
  <2>4. f[y] = r
    BY <2>2, <2>3
  <2> QED
    BY <2>4 DEF y
<1>3. f = [x \in Nat \ {0} |-> f[x]]
  OBVIOUS
<1> HIDE DEF f
<1> QED
  BY <1>2, <1>3 DEF Iterates

(* What filter_outliers takes for the deviation is no less than the root.  *)
LEMMA DeviationCovers ==
  ASSUME NEW v \in Nat
  PROVE  StdDev(v) \in Nat /\ v < (StdDev(v) + 1) * (StdDev(v) + 1)
<1>1. CASE v = 0
  BY <1>1 DEF StdDev
<1>2. CASE v # 0
  <2> DEFINE f == CHOOSE f : f = [x \in Nat \ {0} |->
                    LET y == NewtonStep(x, v) IN IF y >= x THEN x ELSE f[y]]
  <2>0. v \in Nat \ {0}
    BY <1>2
  <2>1. Iterates(f, v)
    <3>1. \E g : Iterates(g, v)
      BY <2>0, IterationExists
    <3> QED
      BY <3>1 DEF Iterates
  <2>2. StdDev(v) = f[v]
    BY <1>2 DEF StdDev
  <2> HIDE DEF f
  <2>3. \A x \in Nat \ {0} : f[x] = IF NewtonStep(x, v) >= x THEN x ELSE f[NewtonStep(x, v)]
    BY <2>1 DEF Iterates
  <2> DEFINE LiesUnder(n) == n \in Nat /\ v < (n + 1) * (n + 1)
             B == {x \in Nat \ {0} : LiesUnder(x) /\ ~LiesUnder(f[x])}
  <2>4. B = {}
    <3> SUFFICES ASSUME B # {} PROVE FALSE
      OBVIOUS
    <3>1. PICK x \in B : \A m \in B : x <= m
      <4>1. B \subseteq Nat /\ B # {}
        OBVIOUS
      <4> HIDE DEF B
      <4> QED
        BY <4>1, LeastNumber
    <3> DEFINE y == NewtonStep(x, v)
    <3>2. x \in Nat \ {0} /\ y \in Nat \ {0} /\ v < (y + 1) * (y + 1)
      BY <2>0, NewtonSteps
    <3>3. CASE y >= x
      BY <2>3, <3>2, <3>3
    <3>4. CASE ~(y >= x)
      <4>1. f[x] = f[y]
        BY <2>3, <3>2, <3>4
      <4>2. ~(x <= y)
        BY <3>2, <3>4
      <4>3. y \notin B
        BY <3>1, <4>2
      <4>4. LiesUnder(f[y])
        <5> HIDE DEF y
        <5> QED
          BY <3>2, <4>3
      <4> QED
        BY <4>1, <4>4
    <3> QED
      BY <3>3, <3>4
  <2>5. LiesUnder(v)
    <3>1. (v + 1) * (v + 1) = v * v + 2 * v + 1 /\ v * v \in Nat
      OBVIOUS
    <3> QED
      BY <3>1
  <2> QED
    BY <2>0, <2>2, <2>4, <2>5
<1> QED
  BY <1>1, <1>2

-----------------------------------------------------------------------------
(* What is computed from the prices of a finite set of sources.            *)
Prices(f) == IsFiniteSet(DOMAIN f) /\ DOMAIN f # {} /\ \A s \in DOMAIN f : f[s] \in Nat

LEMMA SpreadOfPrices ==
  ASSUME NEW f, Prices(f)
  PROVE  /\ Count(f) \in Nat \ {0} /\ Mean(f) \in Nat /\ VarianceOf(f) \in Nat
         /\ \A s \in DOMAIN f : Diff(f[s], Mean(f)) \in Nat
         /\ SumFunctionOnSet([s \in DOMAIN f |-> Diff(f[s], Mean(f)) * Diff(f[s], Mean(f))], DOMAIN f)
              < VarianceOf(f) * Count(f) + Count(f)
<1> DEFINE D == DOMAIN f
           m == Mean(f)
           g == [s \in D |-> Diff(f[s], m) * Diff(f[s], m)]
           n == Count(f)
<1>0. IsFiniteSet(D) /\ D # {} /\ \A s \in D : f[s] \in Nat
  BY DEF Prices
<1>1. n \in Nat \ {0}
  BY <1>0, FS_CardinalityType, FS_EmptySet DEF Count
<1>2. m \in Nat
  <2>1. SumFunctionOnSet(f, D) \in Nat
    BY <1>0, SumNat
  <2>2. m = SumFunctionOnSet(f, D) \div n
    BY DEF Mean, SumFunction
  <2> HIDE DEF n, m
  <2> QED
    BY <1>1, <2>1, <2>2, NatQuotient
<1> HIDE DEF m, n
<1>3. \A s \in D : Diff(f[s], m) \in Nat /\ g[s] \in Nat
  <2>1. \A s \in D : Diff(f[s], m) \in Nat
    BY <1>0, <1>2 DEF Diff
  <2> QED
    BY <2>1, NatProduct
<1>4. DOMAIN g = D
  OBVIOUS
<1>5. VarianceOf(f) = SumFunctionOnSet(g, D) \div n
  BY <1>4 DEF VarianceOf, SumFunction, m, n
<1> HIDE DEF g
<1>6. SumFunctionOnSet(g, D) \in Nat
  BY <1>0, <1>3, SumNat
<1>7. VarianceOf(f) \in Nat /\ SumFunctionOnSet(g, D) < VarianceOf(f) * n + n
  BY <1>1, <1>5, <1>6, RoundedDown
<1> QED
  BY <1>1, <1>2, <1>3, <1>7 DEF g, m, n

(* The filter keeps a price: were all of them farther from the mean than   *)
(* the deviation, the variance would be greater than it is.                *)
LEMMA FilterKeeps ==
  ASSUME NEW f, Prices(f), OutlierThreshold \in Nat, OutlierThreshold >= 1
  PROVE  /\ DOMAIN FilterOutliers(f) # {} /\ DOMAIN FilterOutliers(f) \subseteq DOMAIN f
         /\ \A s \in DOMAIN FilterOutliers(f) : FilterOutliers(f)[s] = f[s]
<1> DEFINE D == DOMAIN f
           m == Mean(f)
           n == Count(f)
           v == VarianceOf(f)
           d(s) == Diff(f[s], m)
           g == [s \in D |-> d(s) * d(s)]
           dev == StdDev(v)
           limit == dev * OutlierThreshold
           kept == {s \in D : d(s) <= limit}
<1>1. /\ n \in Nat \ {0} /\ m \in Nat /\ v \in Nat /\ \A s \in D : d(s) \in Nat
      /\ SumFunctionOnSet(g, D) < v * n + n
  BY SpreadOfPrices
<1>2. dev \in Nat /\ v < (dev + 1) * (dev + 1)
  BY <1>1, DeviationCovers
<1>3. limit \in Nat /\ dev <= limit
  <2> HIDE DEF dev
  <2>1. 1 * dev <= OutlierThreshold * dev
    BY <1>2, TimesGrows
  <2>2. dev * OutlierThreshold = OutlierThreshold * dev /\ 1 * dev = dev /\ dev * OutlierThreshold \in Nat
    BY <1>2
  <2> QED
    BY <2>1, <2>2
<1>4. kept # {}
  <2> SUFFICES ASSUME kept = {} PROVE FALSE
    OBVIOUS
  <2>0. IsFiniteSet(D)
    BY DEF Prices
  <2> DEFINE one == [s \in D |-> 1]
             high == [s \in D |-> v + 1]
  <2>1. ASSUME NEW s \in D PROVE v + 1 <= d(s) * d(s)
    <3> DEFINE e == d(s)
               r == dev + 1
    <3>1. e \in Nat /\ ~(e <= limit)
      BY <1>1
    <3> HIDE DEF e, limit, dev
    <3>2. r \in Nat /\ r <= e
      BY <1>2, <1>3, <3>1
    <3>3. r * r <= e * e
      <4> HIDE DEF r
      <4> QED
        BY <3>1, <3>2, SquaresGrow
    <3> DEFINE rr == r * r
               ee == e * e
    <3>4. rr \in Nat /\ ee \in Nat /\ rr <= ee /\ v < rr
      <4>1. v < r * r
        BY <1>2
      <4> HIDE DEF r
      <4> QED
        BY <3>1, <3>2, <3>3, <4>1
    <3> HIDE DEF rr, ee, v
    <3>5. v + 1 <= ee
      BY <1>1, <3>4
    <3> QED
      BY <3>5 DEF ee, e
  <2>2. /\ \A s \in D : one[s] = 1 /\ one[s] \in Int
        /\ \A s \in D : high[s] = v + 1
    OBVIOUS
  <2> DEFINE vv == v + 1
  <2>3. vv \in Int /\ \A s \in D : high[s] = vv * one[s]
    <3>1. vv \in Int
      BY <1>1
    <3> HIDE DEF v
    <3>2. vv * 1 = vv
      BY <3>1
    <3> QED
      BY <2>2, <3>1, <3>2
  <2>4. \A s \in D : high[s] \in Int /\ g[s] \in Int /\ high[s] <= g[s]
    <3>1. \A s \in D : d(s) * d(s) \in Nat
      BY <1>1, NatProduct
    <3>2. \A s \in D : g[s] = d(s) * d(s)
      OBVIOUS
    <3> HIDE DEF d, g, v, high
    <3> QED
      BY <1>1, <2>1, <2>2, <3>1, <3>2
  <2> HIDE DEF one, high, g, vv, v
  <2>5. SumFunctionOnSet(high, D) <= SumFunctionOnSet(g, D)
    BY <2>0, <2>4, SumLeq
  <2>6. SumFunctionOnSet(high, D) = vv * SumFunctionOnSet(one, D)
    BY <2>0, <2>2, <2>3, SumScaled
  <2>7. SumFunctionOnSet(one, D) = n
    BY <2>0, <2>2, SumOnes DEF Count
  <2> HIDE DEF n, D
  <2>8. vv * n = v * n + n /\ v * n \in Nat
    BY <1>1 DEF vv
  <2>9. SumFunctionOnSet(g, D) \in Int
    BY <2>0, <2>4, SumRemove
  <2> DEFINE vn == v * n
             low == SumFunctionOnSet(high, D)
             sum == SumFunctionOnSet(g, D)
  <2>10. low <= sum /\ low = vn + n /\ vn \in Nat /\ n \in Nat /\ sum \in Int /\ sum < vn + n
    BY <1>1, <2>5, <2>6, <2>7, <2>8, <2>9
  <2> HIDE DEF vn, low, sum
  <2> QED
    BY <2>10
<1>5. CASE n < 3
  BY <1>5 DEF FilterOutliers, Prices
<1>6. CASE ~(n < 3)
  <2>1. FilterOutliers(f) = [s \in kept |-> f[s]]
    BY <1>6 DEF FilterOutliers
  <2> HIDE DEF n
  <2>2. kept \subseteq D
    OBVIOUS
  <2> HIDE DEF kept
  <2> QED
    BY <1>4, <2>1, <2>2
<1> QED
  BY <1>5, <1>6

(* A mean with weights is not below, nor above, all that it is made of.    *)
LEMMA MeanAmongPrices ==
  ASSUME NEW f, Prices(f), \A s \in DOMAIN f : source[s].weight \in Nat, TotalWeight(f) > 0
  PROVE  WeightedMean(f) \in Nat /\ AmongPrices(f)
<1> DEFINE D == DOMAIN f
           w == [s \in D |-> source[s].weight]
           g == [s \in D |-> f[s] * source[s].weight]
           tw == SumFunctionOnSet(w, D)
           all == SumFunctionOnSet(g, D)
           m == all \div tw
<1>0. IsFiniteSet(D) /\ D # {} /\ \A s \in D : f[s] \in Nat
  BY DEF Prices
<1>1. \A s \in D : w[s] \in Nat /\ g[s] \in Nat /\ g[s] = f[s] * w[s]
  <2>1. \A s \in D : w[s] = source[s].weight /\ g[s] = f[s] * source[s].weight
    OBVIOUS
  <2> HIDE DEF w, g
  <2> QED
    BY <1>0, <2>1, NatProduct
<1>2. TotalWeight(f) = tw /\ Weighted(f) = all
  BY DEF TotalWeight, Weighted, SumFunction
<1>3. WeightedMean(f) = m
  BY <1>2 DEF WeightedMean
<1> HIDE DEF w, g
<1>4. tw \in Nat \ {0} /\ all \in Nat
  <2>1. tw \in Nat /\ all \in Nat
    BY <1>0, <1>1, SumNat
  <2> HIDE DEF tw
  <2> QED
    BY <1>2, <2>1
<1> HIDE DEF tw, all
<1>5. m \in Nat /\ m * tw <= all /\ all < m * tw + tw
  BY <1>4, RoundedDown
<1> HIDE DEF m
<1>m. m * tw \in Nat
  BY <1>4, <1>5
<1>w. \A s \in D : w[s] \in Int /\ g[s] \in Int
  BY <1>1
<1>6. \E s \in D : f[s] <= m
  <2> SUFFICES ASSUME \A s \in D : ~(f[s] <= m) PROVE FALSE
    OBVIOUS
  <2> DEFINE c == m + 1
             h == [s \in D |-> c * w[s]]
  <2>1. c \in Nat /\ \A s \in D : c <= f[s]
    BY <1>0, <1>5
  <2>2. \A s \in D : h[s] = c * w[s]
    OBVIOUS
  <2> HIDE DEF c, h
  <2>3. \A s \in D : h[s] \in Int /\ h[s] <= g[s]
    <3>1. ASSUME NEW s \in D PROVE h[s] \in Int /\ h[s] <= g[s]
      <4>1. c * w[s] <= f[s] * w[s] /\ c * w[s] \in Nat
        BY <1>0, <1>1, <2>1, TimesGrows, NatProduct
      <4> QED
        BY <1>1, <2>2, <4>1
    <3> QED
      BY <3>1
  <2>4. SumFunctionOnSet(h, D) <= all
    BY <1>0, <1>w, <2>3, SumLeq DEF all
  <2>5. SumFunctionOnSet(h, D) = c * tw
    BY <1>0, <1>w, <2>1, <2>2, SumScaled DEF tw
  <2>6. c * tw = m * tw + tw
    BY <1>4, <1>5 DEF c
  <2> DEFINE mt == m * tw
             low == SumFunctionOnSet(h, D)
  <2>7. low <= all /\ low = mt + tw /\ mt \in Nat /\ all < mt + tw
    BY <1>5, <1>m, <2>4, <2>5, <2>6
  <2> HIDE DEF mt, low
  <2> QED
    BY <1>4, <2>7
<1>7. \E s \in D : f[s] >= m
  <2> SUFFICES ASSUME \A s \in D : ~(f[s] >= m) PROVE FALSE
    OBVIOUS
  <2> DEFINE c == m - 1
             h == [s \in D |-> c * w[s]]
  <2>1. c \in Nat /\ \A s \in D : f[s] <= c
    <3>1. PICK s \in D : f[s] \in Nat /\ f[s] < m
      BY <1>0, <1>5
    <3>2. c \in Nat
      BY <1>5, <3>1
    <3> QED
      BY <1>0, <1>5, <3>2
  <2>2. \A s \in D : h[s] = c * w[s]
    OBVIOUS
  <2>6. c * tw = m * tw - tw
    BY <1>4, <1>5
  <2> HIDE DEF c, h
  <2>3. \A s \in D : h[s] \in Int /\ g[s] <= h[s]
    <3>1. ASSUME NEW s \in D PROVE h[s] \in Int /\ g[s] <= h[s]
      <4>1. f[s] * w[s] <= c * w[s] /\ c * w[s] \in Nat
        BY <1>0, <1>1, <2>1, TimesGrows, NatProduct
      <4> QED
        BY <1>1, <2>2, <4>1
    <3> QED
      BY <3>1
  <2>4. all <= SumFunctionOnSet(h, D)
    BY <1>0, <1>w, <2>3, SumLeq DEF all
  <2>5. SumFunctionOnSet(h, D) = c * tw
    BY <1>0, <1>w, <2>1, <2>2, SumScaled DEF tw
  <2> DEFINE mt == m * tw
             high == SumFunctionOnSet(h, D)
  <2>7. all <= high /\ high = mt - tw /\ mt \in Nat /\ mt <= all
    BY <1>5, <1>m, <2>4, <2>5, <2>6
  <2> HIDE DEF mt, high
  <2> QED
    BY <1>4, <2>7
<1> QED
  BY <1>3, <1>5, <1>6, <1>7 DEF AmongPrices

(* The confidence of a valuation is a percentage.                          *)
LEMMA ConfidenceIsPercent ==
  ASSUME NEW f, Prices(f)
  PROVE  ConfidenceScore(f) \in 0 .. 100
<1> DEFINE m == Mean(f)
           v == VarianceOf(f)
           n == Count(f)
           dev == RoughDev(v)
           all == dev * 10000
           cv == IF m > 0 THEN all \div m ELSE 10000
           fromCount == IF n < 3 THEN n * 25 ELSE 75
           rest == 10000 - cv
           fromSpread == IF cv <= 10000 THEN rest \div 400 ELSE 0
<1>1. m \in Nat /\ v \in Nat /\ n \in Nat
  BY SpreadOfPrices
<1>2. \A x \in Nat : NextApprox(x, v) \in Nat
  <2>1. ASSUME NEW x \in Nat PROVE NextApprox(x, v) \in Nat
    <3>1. CASE x = 0
      BY <3>1 DEF NextApprox
    <3>2. CASE x # 0
      <4>1. NextApprox(x, v) = (x + v \div x) \div 2
        BY <3>2 DEF NextApprox, NewtonStep
      <4> HIDE DEF v
      <4>2. v \div x \in Nat
        BY <1>1, <3>2, NatQuotient
      <4> DEFINE a == x + v \div x
                 two == 2
      <4>3. a \in Nat /\ two \in Nat \ {0}
        BY <4>2
      <4> HIDE DEF a, two
      <4>4. a \div two \in Nat
        BY <4>3, NatQuotient
      <4> QED
        BY <4>1, <4>4 DEF a, two
    <3> QED
      BY <3>1, <3>2
  <2> QED
    BY <2>1
<1> HIDE DEF v
<1>3. dev \in Nat
  BY <1>1, <1>2 DEF RoughDev
<1> HIDE DEF dev
<1>4. all \in Nat
  BY <1>3
<1> HIDE DEF all, m
<1>5. cv \in Nat
  BY <1>1, <1>4, NatQuotient
<1> HIDE DEF cv, n
<1>6. fromCount \in 0 .. 75
  BY <1>1
<1>7. fromSpread \in 0 .. 25
  <2>1. CASE cv <= 10000
    <3> DEFINE q == rest \div 400
               k == 400
    <3>1. rest \in Nat /\ rest <= 10000 /\ k \in Nat \ {0}
      BY <1>5, <2>1
    <3> HIDE DEF rest
    <3>2. q \in Nat /\ q * 400 <= rest
      <4> HIDE DEF k
      <4>1. rest \div k \in Nat /\ (rest \div k) * k <= rest
        BY <3>1, RoundedDown
      <4> QED
        BY <4>1 DEF k
    <3>3. fromSpread = q
      BY <2>1
    <3> HIDE DEF q, fromSpread
    <3> QED
      BY <3>1, <3>2, <3>3
  <2>2. CASE ~(cv <= 10000)
    BY <2>2
  <2> QED
    BY <2>1, <2>2
<1>8. ConfidenceScore(f) = fromCount + fromSpread
  BY DEF ConfidenceScore, n, cv, all, dev, m, v
<1> HIDE DEF fromCount, fromSpread
<1> QED
  BY <1>6, <1>7, <1>8

-----------------------------------------------------------------------------
(* The prices of the sources that answer are prices.                       *)
LEMMA PricesAreNat ==
  ASSUME OracleAssumption, OracleTypeOK, NEW p \in Properties
  PROVE  /\ IsFiniteSet(DOMAIN PricesFor(p))
         /\ \A s \in DOMAIN PricesFor(p) : PricesFor(p)[s] \in Nat /\ source[s].weight \in Nat
<1> DEFINE D == {t \in activeSources : Answers(t)}
<1>1. DOMAIN PricesFor(p) = D /\ \A s \in D : PricesFor(p)[s] = PriceOf(s, p)
  BY DEF PricesFor
<1>2. IsFiniteSet(D) /\ D \subseteq Sources
  <2>1. D \subseteq Sources /\ IsFiniteSet(Sources)
    BY DEF OracleTypeOK, OracleAssumption
  <2> QED
    BY <2>1, FS_Subset
<1>3. ASSUME NEW s \in D PROVE PriceOf(s, p) \in Nat /\ source[s].weight \in Nat
  <2>1. /\ source[s].weight \in Nat
        /\ FeedOf[s].base \in Nat /\ FeedOf[s].slope \in Nat /\ PropertyStep \in Nat /\ p \in Nat
    <3>1. s \in Sources /\ source[s] \in StoredSources
      BY DEF OracleTypeOK, Answers
    <3>2. FeedOf[s] \in [kind : {"Feed", "Manual", "AIModel"}, base : Nat, slope : Nat]
      BY <3>1 DEF OracleAssumption
    <3> QED
      BY <3>1, <3>2 DEF OracleAssumption, StoredSources
  <2> DEFINE asked == FeedOf[s].base + p * PropertyStep
             more == source[s].weight * FeedOf[s].slope
  <2>2. asked \in Nat /\ more \in Nat
    <3>1. p * PropertyStep \in Nat /\ more \in Nat
      BY <2>1, NatProduct
    <3> QED
      BY <2>1, <3>1
  <2>3. valuation[p] # NoValuation => valuation[p].value \in Nat
    BY DEF OracleTypeOK, Valuations
  <2>4. PriceOf(s, p) \in {valuation[p].value, asked, asked + more}
        /\ (PriceOf(s, p) \in {asked, asked + more} \/ valuation[p] # NoValuation)
    BY DEF PriceOf
  <2>5. asked + more \in Nat
    <3> HIDE DEF asked, more
    <3> QED
      BY <2>2
  <2> QED
    BY <2>1, <2>2, <2>3, <2>4, <2>5
<1> QED
  BY <1>1, <1>2, <1>3

(* With storage of its types, the oracle's prices are as promised.         *)
LEMMA AggregateIsWithin ==
  ASSUME OracleAssumption, OracleTypeOK, NEW p \in Properties
  PROVE  LET prices == PricesFor(p)
             kept   == FilterOutliers(prices)
         IN  /\ SomePriceSurvives(prices)
             /\ Aggregable(prices, kept) =>
                  /\ AmongPrices(kept) /\ WeightedMean(kept) \in Nat
                  /\ ConfidenceScore(prices) \in 0 .. 100
<1> DEFINE f == PricesFor(p)
           kept == FilterOutliers(f)
<1>0. /\ IsFiniteSet(DOMAIN f)
      /\ \A s \in DOMAIN f : f[s] \in Nat /\ source[s].weight \in Nat
      /\ OutlierThreshold \in Nat /\ OutlierThreshold >= 1
  BY PricesAreNat DEF OracleAssumption
<1> HIDE DEF f
<1>1. CASE DOMAIN f # {}
  <2>1. Prices(f)
    BY <1>0, <1>1 DEF Prices
  <2>2. /\ DOMAIN kept # {} /\ DOMAIN kept \subseteq DOMAIN f
        /\ \A s \in DOMAIN kept : kept[s] = f[s]
    BY <1>0, <2>1, FilterKeeps
  <2> HIDE DEF kept
  <2>3. Prices(kept) /\ \A s \in DOMAIN kept : source[s].weight \in Nat
    BY <1>0, <2>2, FS_Subset DEF Prices
  <2>4. Aggregable(f, kept) => AmongPrices(kept) /\ WeightedMean(kept) \in Nat
    BY <2>3, MeanAmongPrices DEF Aggregable
  <2>5. ConfidenceScore(f) \in 0 .. 100
    BY <2>1, ConfidenceIsPercent
  <2> QED
    BY <2>2, <2>4, <2>5 DEF SomePriceSurvives, f, kept
<1>2. CASE DOMAIN f = {}
  <2>1. Count(f) = 0
    BY <1>2, FS_EmptySet DEF Count
  <2>2. kept = f
    BY <2>1 DEF FilterOutliers
  <2>3. TotalWeight(f) = 0
    <3> DEFINE w == [s \in DOMAIN f |-> source[s].weight]
    <3>1. TotalWeight(f) = SumFunctionOnSet(w, {})
      BY <1>2 DEF TotalWeight, SumFunction
    <3> HIDE DEF w
    <3> QED
      BY <3>1, SumEmpty
  <2>4. ~Aggregable(f, kept)
    BY <2>2, <2>3 DEF Aggregable
  <2> QED
    BY <1>2, <2>4 DEF SomePriceSurvives, f
<1> QED
  BY <1>1, <1>2

-----------------------------------------------------------------------------
OracleIInv == now \in Nat /\ OracleTypeOK

LEMMA OracleConstants ==
  ASSUME OracleAssumption
  PROVE  /\ Gain \in Nat /\ Loss \in Nat /\ TopReputation \in Nat /\ KeptValuations \in Nat
         /\ MaxValuationRequests \in Nat /\ FirstReputation \in 0 .. TopReputation
  BY DEF OracleAssumption

LEMMA InitOracle == ASSUME OracleAssumption, ClockInit, OracleInit PROVE OracleIInv
<1>1. << >> \in Seq(Nat) /\ Len(<< >>) = 0 /\ 0 <= KeptValuations /\ 0 \in 0 .. MaxValuationRequests
      /\ FirstReputation \in 0 .. TopReputation
  BY EmptySeq, OracleConstants
<1> QED
  BY <1>1 DEF OracleIInv, OracleTypeOK, ClockInit, OracleInit

(* The last entries of a history are entries of it, and no more of them    *)
(* than asked for.                                                         *)
LEMMA LastOfHistory ==
  ASSUME NEW q \in Seq(Nat), NEW n \in Nat
  PROVE  LastOf(q, n) \in Seq(Nat) /\ Len(LastOf(q, n)) <= n
<1>0. Len(q) \in Nat
  BY LenProperties
<1>1. CASE Len(q) > n
  <2> DEFINE a == Len(q) - n + 1
  <2>1. LastOf(q, n) = SubSeq(q, a, Len(q)) /\ a \in 1 .. Len(q) + 1
    BY <1>0, <1>1 DEF LastOf
  <2>2. Len(q) \in a - 1 .. Len(q) /\ Len(q) - a + 1 = n
    BY <1>0, <1>1
  <2> HIDE DEF a
  <2>3. SubSeq(q, a, Len(q)) \in Seq(Nat) /\ Len(SubSeq(q, a, Len(q))) = Len(q) - a + 1
    BY <1>0, <2>1, <2>2, SubSeqProperties
  <2> QED
    BY <2>1, <2>2, <2>3
<1>2. CASE ~(Len(q) > n)
  BY <1>0, <1>2 DEF LastOf
<1> QED
  BY <1>1, <1>2

(* A valuation is stored, and its value put in the history.                *)
LEMMA StoreKeepsTypes ==
  ASSUME OracleAssumption, OracleIInv, NEW p \in Properties, NEW value \in Nat, NEW confidence \in Nat,
         Store(p, value, confidence)
  PROVE  /\ valuation' \in [Properties -> Valuations \cup {NoValuation}]
         /\ pastValuations' \in [Properties -> Seq(Nat)]
         /\ \A q \in Properties : Len(pastValuations'[q]) <= KeptValuations
<1> DEFINE new == [value |-> value, confidence |-> confidence, confirmedAt |-> now]
           h == LastOf(Append(pastValuations[p], value), KeptValuations)
<1>0. /\ valuation \in [Properties -> Valuations \cup {NoValuation}]
      /\ pastValuations \in [Properties -> Seq(Nat)]
      /\ \A q \in Properties : Len(pastValuations[q]) <= KeptValuations
      /\ now \in Nat
  BY DEF OracleIInv, OracleTypeOK
<1>1. new \in Valuations
  BY <1>0 DEF Valuations
<1>2. h \in Seq(Nat) /\ Len(h) <= KeptValuations
  <2>1. Append(pastValuations[p], value) \in Seq(Nat)
    BY <1>0, AppendProperties
  <2> QED
    BY <2>1, LastOfHistory, OracleConstants
<1>3. valuation' = [valuation EXCEPT ![p] = new] /\ pastValuations' = [pastValuations EXCEPT ![p] = h]
  BY DEF Store
<1> HIDE DEF new, h
<1> QED
  BY <1>0, <1>1, <1>2, <1>3

LEMMA ReputationOnScale ==
  ASSUME OracleAssumption, OracleIInv, NEW s \in Sources, NEW ok \in BOOLEAN
  PROVE  NewReputation(s, ok) \in 0 .. TopReputation
<1>1. reputation[s] \in 0 .. TopReputation /\ Gain \in Nat /\ Loss \in Nat /\ TopReputation \in Nat
  BY OracleConstants DEF OracleIInv, OracleTypeOK
<1> QED
  BY <1>1 DEF NewReputation

LEMMA AddSourcePreserves ==
  ASSUME OracleAssumption, OracleIInv, NEW s \in Sources, NEW c \in SourceConfigs,
         AddOracleSource(s, c), UNCHANGED now
  PROVE  OracleIInv'
<1>1. c \in StoredSources /\ c # NoSource
  BY DEF OracleAssumption, StoredSources
<1>2. /\ source' = [source EXCEPT ![s] = c]
      /\ activeSources' = activeSources \cup IF c.active THEN {s} ELSE {}
      /\ UNCHANGED <<reputation, aiContract, valuationVars, requestVars>>
  BY DEF AddOracleSource
<1>3. /\ source' \in [Sources -> StoredSources \cup {NoSource}]
      /\ activeSources' \in SUBSET Sources /\ \A t \in activeSources' : source'[t] # NoSource
  BY <1>1, <1>2 DEF OracleIInv, OracleTypeOK
<1> QED
  BY <1>2, <1>3 DEF OracleIInv, OracleTypeOK, valuationVars, requestVars

LEMMA RemoveSourcePreserves ==
  ASSUME OracleIInv, NEW s \in Sources, RemoveSource(s), UNCHANGED now
  PROVE  OracleIInv'
<1>1. /\ source' \in [Sources -> StoredSources \cup {NoSource}]
      /\ activeSources' \in SUBSET Sources /\ \A t \in activeSources' : source'[t] # NoSource
  BY DEF RemoveSource, OracleIInv, OracleTypeOK
<1> QED
  BY <1>1 DEF RemoveSource, OracleIInv, OracleTypeOK, valuationVars, requestVars

LEMMA ReputationPreserves ==
  ASSUME OracleAssumption, OracleIInv, NEW s \in Sources, NEW ok \in BOOLEAN,
         UpdateSourceReputation(s, ok), UNCHANGED now
  PROVE  OracleIInv'
<1> DEFINE new == NewReputation(s, ok)
           off == [source[s] EXCEPT !.active = FALSE]
<1>1. new \in 0 .. TopReputation
  BY ReputationOnScale
<1>2. /\ reputation' = [reputation EXCEPT ![s] = new]
      /\ UNCHANGED <<aiContract, valuationVars, requestVars>>
      /\ \/ UNCHANGED <<source, activeSources>>
         \/ /\ source[s] # NoSource /\ source' = [source EXCEPT ![s] = off]
            /\ activeSources' = activeSources \ {s}
  BY DEF UpdateSourceReputation
<1> HIDE DEF new
<1>3. source[s] # NoSource => off \in StoredSources
  <2>1. source[s] \in StoredSources \cup {NoSource}
    BY DEF OracleIInv, OracleTypeOK
  <2> QED
    BY <2>1 DEF StoredSources
<1> HIDE DEF off
<1>4. /\ source' \in [Sources -> StoredSources \cup {NoSource}]
      /\ activeSources' \in SUBSET Sources /\ \A t \in activeSources' : source'[t] # NoSource
  BY <1>2, <1>3 DEF OracleIInv, OracleTypeOK
<1>5. reputation' \in [Sources -> 0 .. TopReputation]
  BY <1>1, <1>2 DEF OracleIInv, OracleTypeOK
<1> QED
  BY <1>2, <1>4, <1>5 DEF OracleIInv, OracleTypeOK, valuationVars, requestVars

LEMMA ValuationPreserves ==
  ASSUME OracleAssumption, OracleIInv, AnyUpdate, UNCHANGED now
  PROVE  OracleIInv'
<1>1. ASSUME NEW p \in Properties, NEW v \in AdminValues, NEW c \in Confidences,
             UpdatePropertyValuation(p, v, c)
      PROVE  OracleIInv'
  <2>1. v \in Nat /\ c \in Nat
    BY DEF OracleAssumption
  <2>2. Store(p, v, c) /\ UNCHANGED <<sourceVars, requestVars>>
    BY <1>1 DEF UpdatePropertyValuation
  <2>3. /\ valuation' \in [Properties -> Valuations \cup {NoValuation}]
        /\ pastValuations' \in [Properties -> Seq(Nat)]
        /\ \A q \in Properties : Len(pastValuations'[q]) <= KeptValuations
    BY <2>1, <2>2, StoreKeepsTypes
  <2> QED
    BY <2>2, <2>3 DEF OracleIInv, OracleTypeOK, sourceVars, requestVars
<1>2. ASSUME NEW p \in Properties, UpdateValuationFromSources(p) PROVE OracleIInv'
  <2> DEFINE prices == PricesFor(p)
             kept == FilterOutliers(prices)
             value == WeightedMean(kept)
             confidence == ConfidenceScore(prices)
  <2>1. Aggregable(prices, kept) /\ Store(p, value, confidence)
        /\ pendingRequest' = [pendingRequest EXCEPT ![p] = NotPending]
        /\ UNCHANGED <<sourceVars, requestCounter>>
    BY <1>2 DEF UpdateValuationFromSources
  <2>2. value \in Nat /\ confidence \in 0 .. 100
    BY <2>1, AggregateIsWithin DEF OracleIInv
  <2> HIDE DEF value, confidence
  <2>3. /\ valuation' \in [Properties -> Valuations \cup {NoValuation}]
        /\ pastValuations' \in [Properties -> Seq(Nat)]
        /\ \A q \in Properties : Len(pastValuations'[q]) <= KeptValuations
    <3>1. confidence \in Nat
      BY <2>2
    <3> QED
      BY <2>1, <2>2, <3>1, StoreKeepsTypes
  <2>4. pendingRequest' \in [Properties -> Nat \cup {NotPending}]
    BY <2>1 DEF OracleIInv, OracleTypeOK
  <2> QED
    BY <2>1, <2>3, <2>4 DEF OracleIInv, OracleTypeOK, sourceVars
<1> QED
  BY <1>1, <1>2 DEF AnyUpdate

LEMMA RequestsPreserve ==
  ASSUME OracleAssumption, OracleIInv, NEW ps \in SUBSET Properties, BatchRequestValuations(ps), UNCHANGED now
  PROVE  OracleIInv'
<1> DEFINE fresh == {p \in ps : Requestable(p)}
           n == Cardinality(fresh)
<1>1. n \in Nat
  <2>1. IsFiniteSet(Properties) /\ fresh \subseteq Properties
    BY DEF OracleAssumption
  <2> HIDE DEF fresh
  <2> QED
    BY <2>1, FS_Subset, FS_CardinalityType
<1>2. /\ requestCounter + n <= MaxValuationRequests /\ requestCounter' = requestCounter + n
      /\ pendingRequest' = [p \in Properties |-> IF p \in fresh THEN now ELSE pendingRequest[p]]
      /\ UNCHANGED <<sourceVars, valuationVars>>
  BY DEF BatchRequestValuations
<1> HIDE DEF n, fresh
<1>3. requestCounter' \in 0 .. MaxValuationRequests
  BY <1>1, <1>2, OracleConstants DEF OracleIInv, OracleTypeOK
<1>4. pendingRequest' \in [Properties -> Nat \cup {NotPending}]
  BY <1>2 DEF OracleIInv, OracleTypeOK
<1> QED
  BY <1>2, <1>3, <1>4 DEF OracleIInv, OracleTypeOK, sourceVars, valuationVars

LEMMA NextOracle == ASSUME OracleAssumption, OracleIInv, [OracleNext]_<<now, oracleVars>> PROVE OracleIInv'
<1>1. ASSUME AnySourceAdded, UNCHANGED now PROVE OracleIInv'
  BY <1>1, AddSourcePreserves DEF AnySourceAdded
<1>2. ASSUME SetAiValuationContract, UNCHANGED now PROVE OracleIInv'
  BY <1>2 DEF SetAiValuationContract, OracleIInv, OracleTypeOK, valuationVars, requestVars
<1>3. ASSUME NEW s \in Sources, NEW ok \in BOOLEAN, UpdateSourceReputation(s, ok), UNCHANGED now
      PROVE  OracleIInv'
  BY <1>3, ReputationPreserves
<1>4. ASSUME NEW s \in Sources, SlashSource(s), UNCHANGED now PROVE OracleIInv'
  BY <1>3, <1>4 DEF SlashSource
<1>5. ASSUME PricesNext, UNCHANGED now PROVE OracleIInv'
  BY <1>1, <1>2, <1>3, <1>4, <1>5, ValuationPreserves, RemoveSourcePreserves DEF PricesNext
<1>6. ASSUME ValuationsNext, UNCHANGED now PROVE OracleIInv'
  <2>1. ASSUME NEW p \in Properties, RequestPropertyValuation(p) PROVE OracleIInv'
    <3>1. {p} \in SUBSET Properties /\ BatchRequestValuations({p})
      BY <2>1 DEF RequestPropertyValuation
    <3> QED
      BY <1>6, <3>1, RequestsPreserve
  <2> QED
    BY <1>1, <1>6, <2>1, ValuationPreserves, RequestsPreserve DEF ValuationsNext
<1>7. ASSUME UNCHANGED oracleVars, now' \in Nat PROVE OracleIInv'
  BY <1>7 DEF OracleIInv, OracleTypeOK, oracleVars, sourceVars, valuationVars, requestVars
<1>8. now \in Nat
  BY DEF OracleIInv
<1> QED
  BY <1>5, <1>6, <1>7, <1>8 DEF OracleNext, OracleTick, ClockTicks

LEMMA OracleInvariance == ASSUME OracleAssumption PROVE OracleSpec => []OracleIInv
<1>1. OracleIInv /\ [OracleNext]_<<now, oracleVars>> => OracleIInv'
  BY NextOracle
<1> QED
  BY InitOracle, <1>1, PTL DEF OracleSpec

(* Whatever sources there are and whatever became of them, the outlier     *)
(* filter leaves a price if there was one, the aggregate is neither below  *)
(* nor above all prices it is made of, and its confidence is a percentage, *)
(* for any feeds, weights, thresholds of one deviation or more and bounds. *)
THEOREM AggregatesAmongPrices == ASSUME OracleAssumption PROVE OracleSpec => []AggregateWithinPrices
<1>1. OracleIInv => AggregateWithinPrices
  <2> SUFFICES ASSUME OracleIInv, NEW p \in Properties
               PROVE  LET prices == PricesFor(p)
                          kept   == FilterOutliers(prices)
                      IN  /\ SomePriceSurvives(prices)
                          /\ Aggregable(prices, kept) => AmongPrices(kept) /\ ConfidenceScore(prices) <= 100
    BY DEF AggregateWithinPrices
  <2> QED
    BY AggregateIsWithin DEF OracleIInv
<1> QED
  BY OracleInvariance, <1>1, PTL

-----------------------------------------------------------------------------
(***************************************************************************)
(* Fractions of a property.                                                *)
(***************************************************************************)

FracInv == FracTypeOK /\ FractionsAddUp

AddsUp(m, sum, supply, gained) == sum % m = (supply + gained) % m

(* Balances that change by d all told agree again with a supply or a       *)
(* counter of gained shares that change by d, wrapped.                     *)
LEMMA ChangedAlike ==
  ASSUME NEW m \in Nat \ {0}, NEW sum \in Int, NEW supply \in Int, NEW gained \in Int,
         AddsUp(m, sum, supply, gained), NEW d \in Int
  PROVE  /\ AddsUp(m, sum + d, (supply + d) % m, gained)
         /\ AddsUp(m, sum + d, supply, (gained + d) % m)
         /\ AddsUp(m, sum + d, supply + d, gained)
<1> DEFINE all == supply + gained
           s1 == supply + d
           s2 == gained + d
<1>1. all \in Int /\ s1 \in Int /\ s2 \in Int /\ sum % m = all % m
  BY DEF AddsUp
<1>2. /\ s1 + gained = all + d /\ s2 + supply = all + d
      /\ s2 % m \in Int /\ supply + (s2 % m) = (s2 % m) + supply
  BY <1>1
<1> HIDE DEF all, s1, s2
<1>3. (sum + d) % m = (all + d) % m
  <2>1. /\ ((sum % m) + d) % m = (sum + d) % m
        /\ ((all % m) + d) % m = (all + d) % m
    BY <1>1, ModAdd
  <2> QED
    BY <1>1, <2>1
<1>4. ((s1 % m) + gained) % m = (s1 + gained) % m
  BY <1>1, ModAdd
<1>5. ((s2 % m) + supply) % m = (s2 + supply) % m
  BY <1>1, ModAdd
<1>6. /\ (sum + d) % m = ((s1 % m) + gained) % m
      /\ (sum + d) % m = (supply + (s2 % m)) % m
      /\ (sum + d) % m = (s1 + gained) % m
  BY <1>2, <1>3, <1>4, <1>5
<1> QED
  BY <1>6 DEF s1, s2, AddsUp

LEMMA InitFractions == FractionalAssumption /\ FracInit => FracInv
<1> SUFFICES ASSUME FractionalAssumption, FracInit PROVE FracInv
  OBVIOUS
<1>1. FracTypeOK
  <2>1. 0 \in 0 .. U128 - 1 /\ 0 \in 0 .. MaxIndex
    BY DEF FractionalAssumption
  <2> QED
    BY <2>1 DEF FracInit, FracTypeOK
<1>2. ASSUME NEW t \in FracTokens
      PROVE  SumFunctionOnSet(fracBalance[t], FracHolders) % U128 = (fracSupply[t] + selfGained[t]) % U128
  <2>1. SumFunctionOnSet(fracBalance[t], FracHolders) = 0
    BY SumZero DEF FracInit, FractionalAssumption
  <2> QED
    BY <2>1 DEF FracInit
<1> QED
  BY <1>1, <1>2 DEF FracInv, FractionsAddUp

(* What is written for one token leaves the other tokens true.             *)
LEMMA OneTokenAddsUp ==
  ASSUME FracInv, NEW t \in FracTokens,
         \A k \in FracTokens \ {t} : /\ fracBalance'[k] = fracBalance[k]
                                     /\ fracSupply'[k] = fracSupply[k]
                                     /\ selfGained'[k] = selfGained[k],
         SumFunctionOnSet(fracBalance'[t], FracHolders) % U128
           = (fracSupply'[t] + selfGained'[t]) % U128
  PROVE  FractionsAddUp'
<1> SUFFICES ASSUME NEW k \in FracTokens
             PROVE  SumFunctionOnSet(fracBalance'[k], FracHolders) % U128
                      = (fracSupply'[k] + selfGained'[k]) % U128
  BY DEF FractionsAddUp
<1>1. CASE k = t
  BY <1>1
<1>2. CASE k # t
  BY <1>2 DEF FracInv, FractionsAddUp
<1> QED
  BY <1>1, <1>2

(* The sum of the balances of a token changes with one of them.            *)
LEMMA HoldingChanges ==
  ASSUME FractionalAssumption, FracTypeOK, NEW t \in FracTokens, NEW x \in FracHolders,
         NEW d \in Int, fracBalance'[t][x] = fracBalance[t][x] + d,
         \A y \in FracHolders \ {x} : fracBalance'[t][y] = fracBalance[t][y]
  PROVE  /\ SumFunctionOnSet(fracBalance[t], FracHolders) \in Int
         /\ SumFunctionOnSet(fracBalance'[t], FracHolders)
              = SumFunctionOnSet(fracBalance[t], FracHolders) + d
<1> DEFINE f == fracBalance[t]
           g == fracBalance'[t]
<1>1. /\ IsFiniteSet(FracHolders) /\ \A y \in FracHolders : f[y] \in Int
      /\ f[x] \in Int /\ g[x] = f[x] + d /\ \A y \in FracHolders \ {x} : g[y] = f[y]
  BY DEF FractionalAssumption, FracTypeOK
<1> HIDE DEF f, g
<1>2. /\ SumFunctionOnSet(g, FracHolders)
           = SumFunctionOnSet(f, FracHolders) + (IF x \in FracHolders THEN d ELSE 0)
      /\ SumFunctionOnSet(f, FracHolders) \in Int
  BY <1>1, SumRaise
<1>3. /\ SumFunctionOnSet(f, FracHolders) \in Int
      /\ SumFunctionOnSet(g, FracHolders) = SumFunctionOnSet(f, FracHolders) + d
  BY <1>2
<1> QED
  BY <1>3 DEF f, g

(* Minting and burning move supply and balance alike.                      *)
LEMMA SupplyAddsUp ==
  ASSUME FractionalAssumption, FracInv, NEW t \in FracTokens, NEW x \in FracHolders,
         NEW n \in FracAmounts, MintShares(t, x, n) \/ BurnShares(t, x, n)
  PROVE  FracInv'
<1> DEFINE sum == SumFunctionOnSet(fracBalance[t], FracHolders)
<1>1. /\ FracTypeOK /\ fracBalance[t] \in [FracHolders -> 0 .. U128 - 1]
      /\ fracSupply[t] \in 0 .. U128 - 1 /\ selfGained[t] \in 0 .. U128 - 1
      /\ U128 \in Nat \ {0} /\ n \in Nat
      /\ sum % U128 = (fracSupply[t] + selfGained[t]) % U128
  BY DEF FracInv, FracTypeOK, FractionsAddUp, FractionalAssumption
<1>2. CASE MintShares(t, x, n)
  <2>1. /\ fracBalance' = [fracBalance EXCEPT ![t][x] = @ + n]
        /\ fracSupply' = [fracSupply EXCEPT ![t] = @ + n]
        /\ fracBalance[t][x] + n < U128 /\ fracSupply[t] + n < U128
        /\ UNCHANGED <<minter, kycPassed, perShare, lastClaimed, selfGained>>
    BY <1>2 DEF MintShares, Fits, fracDividendVars
  <2>2. /\ fracBalance'[t][x] = fracBalance[t][x] + n
        /\ \A y \in FracHolders \ {x} : fracBalance'[t][y] = fracBalance[t][y]
        /\ fracSupply'[t] = fracSupply[t] + n /\ selfGained'[t] = selfGained[t]
        /\ \A k \in FracTokens \ {t} : /\ fracBalance'[k] = fracBalance[k]
                                       /\ fracSupply'[k] = fracSupply[k]
                                       /\ selfGained'[k] = selfGained[k]
    BY <1>1, <2>1 DEF FracTypeOK
  <2>3. FracTypeOK'
    <3>1. fracBalance[t][x] + n \in 0 .. U128 - 1 /\ fracSupply[t] + n \in 0 .. U128 - 1
      BY <1>1, <2>1
    <3> QED
      BY <1>1, <2>1, <3>1 DEF FracTypeOK
  <2>4. sum \in Int /\ SumFunctionOnSet(fracBalance'[t], FracHolders) = sum + n
    <3>1. n \in Int
      BY <1>1
    <3> QED
      BY <1>1, <2>2, <3>1, HoldingChanges
  <2> HIDE DEF sum
  <2>5. AddsUp(U128, sum + n, fracSupply[t] + n, selfGained[t])
    <3>1. /\ U128 \in Nat \ {0} /\ fracSupply[t] \in Int /\ selfGained[t] \in Int
          /\ sum \in Int /\ n \in Int /\ AddsUp(U128, sum, fracSupply[t], selfGained[t])
      BY <1>1, <2>4 DEF AddsUp
    <3> QED
      BY <3>1, ChangedAlike
  <2> QED
    BY <2>2, <2>3, <2>4, <2>5, OneTokenAddsUp DEF FracInv, AddsUp
<1>3. CASE BurnShares(t, x, n)
  <2> DEFINE d == 0 - n
  <2>1. /\ fracBalance' = [fracBalance EXCEPT ![t][x] = @ - n] /\ fracBalance[t][x] >= n
        /\ fracSupply' = [fracSupply EXCEPT ![t] = (@ - n) % U128]
        /\ UNCHANGED <<minter, kycPassed, perShare, lastClaimed, selfGained>>
    BY <1>3 DEF BurnShares, SupplyAfterBurn, fracDividendVars
  <2>2. /\ fracBalance'[t][x] = fracBalance[t][x] + d /\ d \in Int
        /\ \A y \in FracHolders \ {x} : fracBalance'[t][y] = fracBalance[t][y]
        /\ fracSupply'[t] = (fracSupply[t] - n) % U128 /\ selfGained'[t] = selfGained[t]
        /\ fracSupply[t] - n = fracSupply[t] + d
        /\ \A k \in FracTokens \ {t} : /\ fracBalance'[k] = fracBalance[k]
                                       /\ fracSupply'[k] = fracSupply[k]
                                       /\ selfGained'[k] = selfGained[k]
    BY <1>1, <2>1 DEF FracTypeOK
  <2>3. FracTypeOK'
    <3>1. fracBalance[t][x] - n \in 0 .. U128 - 1 /\ (fracSupply[t] - n) % U128 \in 0 .. U128 - 1
      BY <1>1, <2>1
    <3> QED
      BY <1>1, <2>1, <3>1 DEF FracTypeOK
  <2> HIDE DEF d
  <2>4. sum \in Int /\ SumFunctionOnSet(fracBalance'[t], FracHolders) = sum + d
    BY <1>1, <2>2, HoldingChanges
  <2> HIDE DEF sum
  <2>5. AddsUp(U128, sum + d, (fracSupply[t] + d) % U128, selfGained[t])
    <3>1. /\ U128 \in Nat \ {0} /\ fracSupply[t] \in Int /\ selfGained[t] \in Int
          /\ sum \in Int /\ d \in Int /\ AddsUp(U128, sum, fracSupply[t], selfGained[t])
      BY <1>1, <2>2, <2>4 DEF AddsUp
    <3> QED
      BY <3>1, ChangedAlike
  <2> QED
    BY <2>2, <2>3, <2>4, <2>5, OneTokenAddsUp DEF FracInv, AddsUp
<1> QED
  BY <1>2, <1>3

(* A transfer moves shares, and to oneself creates them.                   *)
LEMMA FractionMoves ==
  ASSUME FractionalAssumption, FracInv, NEW t \in FracTokens, NEW x \in FracHolders,
         NEW y \in FracHolders, NEW n \in FracAmounts, TransferFraction(t, x, y, n)
  PROVE  FracInv'
<1> DEFINE sum == SumFunctionOnSet(fracBalance[t], FracHolders)
           d == IF x = y THEN n ELSE 0
<1>1. /\ FracTypeOK /\ fracBalance[t] \in [FracHolders -> 0 .. U128 - 1]
      /\ fracSupply[t] \in 0 .. U128 - 1 /\ selfGained[t] \in 0 .. U128 - 1
      /\ U128 \in Nat \ {0} /\ n \in Nat /\ IsFiniteSet(FracHolders)
      /\ sum % U128 = (fracSupply[t] + selfGained[t]) % U128
      /\ d \in Int
  BY DEF FracInv, FracTypeOK, FractionsAddUp, FractionalAssumption
<1>2. /\ fracBalance[t][x] >= n /\ fracBalance[t][y] + n < U128
      /\ fracBalance' = [fracBalance EXCEPT ![t] = FractionMoved(fracBalance[t], x, y, n)]
      /\ selfGained' = [selfGained EXCEPT ![t] = (@ + d) % U128]
      /\ UNCHANGED <<fracSupply, minter, kycPassed, perShare, lastClaimed>>
  BY DEF TransferFraction, Fits, fracDividendVars
<1>3. /\ FractionMoved(fracBalance[t], x, y, n) \in [FracHolders -> 0 .. U128 - 1]
      /\ x # y => FractionMoved(fracBalance[t], x, y, n)[x] = fracBalance[t][x] - n
      /\ FractionMoved(fracBalance[t], x, y, n)[y] = fracBalance[t][y] + n
      /\ \A z \in FracHolders \ {x, y} :
           FractionMoved(fracBalance[t], x, y, n)[z] = fracBalance[t][z]
  <2>1. fracBalance[t][x] - n \in 0 .. U128 - 1 /\ fracBalance[t][y] + n \in 0 .. U128 - 1
    BY <1>1, <1>2
  <2> QED
    BY <1>1, <2>1 DEF FractionMoved
<1>4. /\ fracBalance'[t] = FractionMoved(fracBalance[t], x, y, n)
      /\ selfGained'[t] = (selfGained[t] + d) % U128 /\ fracSupply'[t] = fracSupply[t]
      /\ \A k \in FracTokens \ {t} : /\ fracBalance'[k] = fracBalance[k]
                                     /\ fracSupply'[k] = fracSupply[k]
                                     /\ selfGained'[k] = selfGained[k]
  BY <1>1, <1>2 DEF FracTypeOK
<1>5. FracTypeOK'
  <2>1. (selfGained[t] + d) % U128 \in 0 .. U128 - 1
    BY <1>1
  <2> QED
    BY <1>1, <1>2, <1>3, <2>1 DEF FracTypeOK
<1>6. sum \in Int /\ SumFunctionOnSet(fracBalance'[t], FracHolders) = sum + d
  <2>1. CASE x = y
    <3>1. /\ fracBalance'[t][y] = fracBalance[t][y] + n /\ n \in Int
          /\ \A z \in FracHolders \ {y} : fracBalance'[t][z] = fracBalance[t][z]
      BY <1>1, <1>3, <1>4, <2>1
    <3>2. sum \in Int /\ SumFunctionOnSet(fracBalance'[t], FracHolders) = sum + n
      BY <1>1, <3>1, HoldingChanges
    <3> QED
      BY <2>1, <3>2
  <2>2. CASE x # y
    <3> DEFINE f == fracBalance[t]
               g == fracBalance'[t]
    <3>1. /\ (\A z \in FracHolders : f[z] \in Int) /\ n \in Int
          /\ x = y => g[x] = f[x]
          /\ x # y => g[x] = f[x] - n /\ g[y] = f[y] + n
          /\ \A z \in FracHolders \ {x, y} : g[z] = f[z]
      BY <1>1, <1>3, <1>4, <2>2
    <3> HIDE DEF f, g
    <3>2. SumFunctionOnSet(g, FracHolders) = SumFunctionOnSet(f, FracHolders)
      BY <1>1, <3>1, SumMove
    <3>3. SumFunctionOnSet(f, FracHolders) \in Int
      BY <1>1, <3>1, SumRemove
    <3> QED
      BY <2>2, <3>2, <3>3 DEF f, g
  <2> QED
    BY <2>1, <2>2
<1> HIDE DEF sum, d
<1>7. AddsUp(U128, sum + d, fracSupply[t], (selfGained[t] + d) % U128)
  <2>1. /\ U128 \in Nat \ {0} /\ fracSupply[t] \in Int /\ selfGained[t] \in Int
        /\ sum \in Int /\ d \in Int /\ AddsUp(U128, sum, fracSupply[t], selfGained[t])
    BY <1>1, <1>6 DEF AddsUp
  <2> QED
    BY <2>1, ChangedAlike
<1> QED
  BY <1>4, <1>5, <1>6, <1>7, OneTokenAddsUp DEF FracInv, AddsUp

LEMMA FractionStep == FractionalAssumption /\ FracInv /\ [FracNext]_fracVars => FracInv'
<1> SUFFICES ASSUME FractionalAssumption, FracInv, [FracNext]_fracVars PROVE FracInv'
  OBVIOUS
<1>1. /\ FracTypeOK /\ MaxIndex \in Nat /\ U128 \in Nat \ {0}
      /\ perShare \in [FracTokens -> 0 .. MaxIndex]
      /\ lastClaimed \in [FracTokens -> [FracHolders -> 0 .. MaxIndex]]
  BY DEF FracInv, FracTypeOK, FractionalAssumption
<1>2. ASSUME NEW x \in FracHolders, NEW passed \in BOOLEAN, SetKyc(x, passed) PROVE FracInv'
  BY <1>2 DEF SetKyc, FracInv, FracTypeOK, FractionsAddUp, fracShareVars, fracDividendVars
<1>3. ASSUME NEW x \in FracHolders, NEW t \in FracTokens, SetAuthorizedMinter(t, x) PROVE FracInv'
  BY <1>3 DEF SetAuthorizedMinter, FracInv, FracTypeOK, FractionsAddUp, fracShareVars,
     fracDividendVars
<1>4. ASSUME NEW x \in FracHolders, NEW t \in FracTokens, ClaimDividends(t, x) PROVE FracInv'
  <2>1. lastClaimed' = [lastClaimed EXCEPT ![t][x] = perShare[t]]
        /\ UNCHANGED <<fracShareVars, minter, kycPassed, perShare>>
    BY <1>4 DEF ClaimDividends
  <2>2. lastClaimed' \in [FracTokens -> [FracHolders -> 0 .. MaxIndex]]
    BY <1>1, <2>1
  <2>3. \A k \in FracTokens, y \in FracHolders : lastClaimed'[k][y] <= perShare[k]
    BY <1>1, <2>1 DEF FracTypeOK
  <2> QED
    BY <2>1, <2>2, <2>3 DEF FracInv, FracTypeOK, FractionsAddUp, fracShareVars
<1>5. ASSUME NEW t \in FracTokens, NEW v \in FracDividends, DistributeDividends(t, v)
      PROVE  FracInv'
  <2> DEFINE more == v \div fracSupply[t]
  <2>1. /\ fracSupply[t] # 0 /\ perShare[t] + more <= MaxIndex
        /\ perShare' = [perShare EXCEPT ![t] = @ + more]
        /\ UNCHANGED <<fracShareVars, minter, kycPassed, lastClaimed>>
    BY <1>5 DEF DistributeDividends
  <2>2. more \in Nat
    <3>1. v \in Nat /\ fracSupply[t] \in Nat \ {0}
      BY <1>1, <2>1 DEF FracTypeOK, FractionalAssumption
    <3> QED
      BY <3>1
  <2> HIDE DEF more
  <2>3. /\ perShare' \in [FracTokens -> 0 .. MaxIndex]
        /\ \A k \in FracTokens : perShare[k] <= perShare'[k]
    BY <1>1, <2>1, <2>2
  <2>4. \A k \in FracTokens, y \in FracHolders : lastClaimed[k][y] <= perShare'[k]
    <3> TAKE k \in FracTokens, y \in FracHolders
    <3>1. /\ lastClaimed[k][y] \in Int /\ perShare[k] \in Int /\ perShare'[k] \in Int
          /\ lastClaimed[k][y] <= perShare[k] /\ perShare[k] <= perShare'[k]
      BY <1>1, <2>3 DEF FracTypeOK
    <3> QED
      BY <3>1
  <2> QED
    BY <2>1, <2>3, <2>4 DEF FracInv, FracTypeOK, FractionsAddUp, fracShareVars
<1>6. CASE UNCHANGED fracVars
  BY <1>6 DEF FracInv, FracTypeOK, FractionsAddUp, fracVars
<1> QED
  BY <1>2, <1>3, <1>4, <1>5, <1>6, SupplyAddsUp, FractionMoves DEF FracNext

(* The supply of a token is what its holders have, up to the shares that   *)
(* transfers to oneself created, however the widths wrap.                  *)
THEOREM FractionsAreBacked ==
  ASSUME FractionalAssumption PROVE FracSpec => [](FracTypeOK /\ FractionsAddUp)
<1>1. FracInit => FracInv
  BY InitFractions
<1>2. FracInv /\ [FracNext]_fracVars => FracInv'
  BY FractionStep
<1>3. FracInv => FracTypeOK /\ FractionsAddUp
  BY DEF FracInv
<1> QED
  BY <1>1, <1>2, <1>3, PTL DEF FracSpec

-----------------------------------------------------------------------------
(***************************************************************************)
(* The contracts side by side, as TLC explores them.                       *)
(***************************************************************************)
(* Every step is one of each Soroban contract, or lets it rest.            *)
LEMMA SorobanSteps ==
  ASSUME [MCNext]_allVars
  PROVE  /\ [PoolNext]_poolVars /\ [ClaimsNext]_claimVars
         /\ [PolicyNext]_policyClockVars /\ [GovNext]_govClockVars /\ [SlashNext]_slashClockVars
<1>1. CASE UNCHANGED allVars
  BY <1>1 DEF allVars, sorobanVars, policyClockVars, govClockVars, slashClockVars
<1>2. CASE InkNext /\ UNCHANGED sorobanVars
  <2>1. UNCHANGED now \/ ClockTicks
    BY <1>2 DEF InkNext, FeesTick, OracleTick, ComplianceTick, ZkTick, IpfsNext, IpfsTick
  <2> QED
    BY <1>2, <2>1 DEF sorobanVars, PolicyNext, PolicyTick, GovNext, GovTick, SlashNext, SlashTick,
                      policyClockVars, govClockVars, slashClockVars
<1>3. CASE SorobanNext
  <2>1. UNCHANGED now \/ ClockTicks
    BY <1>3 DEF SorobanNext, PolicyNext, PolicyTransaction, PolicyTick, GovNext, GovTransaction,
                GovTick, SlashNext, SlashTransaction, SlashTick
  <2> QED
    BY <1>3, <2>1 DEF SorobanNext, PolicyNext, PolicyTick, GovNext, GovTick, SlashNext, SlashTick,
                      policyClockVars, govClockVars, slashClockVars
<1> QED
  BY <1>1, <1>2, <1>3 DEF MCNext

(* The same of the ink! contracts.                                         *)
LEMMA InkSteps ==
  ASSUME [MCNext]_allVars
  PROVE  /\ [FeesNext]_<<now, feeVars>> /\ [OracleNext]_<<now, oracleVars>>
         /\ [ComplianceNext]_<<now, complianceVars>> /\ [ZkNext]_<<now, zkVars>>
         /\ [IpfsNext]_<<now, ipfsVars>> /\ [FracNext]_fracVars
<1>1. CASE UNCHANGED allVars
  BY <1>1 DEF allVars, inkVars
<1>2. CASE SorobanNext /\ UNCHANGED inkVars
  <2>1. UNCHANGED now \/ ClockTicks
    BY <1>2 DEF SorobanNext, PolicyNext, PolicyTransaction, PolicyTick, GovNext, GovTransaction,
                GovTick, SlashNext, SlashTransaction, SlashTick
  <2> QED
    BY <1>2, <2>1 DEF inkVars, FeesNext, FeesTick, OracleNext, OracleTick, ComplianceNext,
                      ComplianceTick, ZkNext, ZkTick, IpfsNext, IpfsTick
<1>3. CASE InkNext
  <2>1. UNCHANGED now \/ ClockTicks
    BY <1>3 DEF InkNext, FeesTick, OracleTick, ComplianceTick, ZkTick, IpfsNext, IpfsTick
  <2>2. [FeesNext]_<<now, feeVars>> /\ [OracleNext]_<<now, oracleVars>>
    BY <1>3, <2>1 DEF InkNext, FeesNext, FeesTick, OracleNext, OracleTick
  <2>3. [ComplianceNext]_<<now, complianceVars>> /\ [ZkNext]_<<now, zkVars>>
    BY <1>3, <2>1 DEF InkNext, ComplianceNext, ComplianceTick, ZkNext, ZkTick
  <2>4. [IpfsNext]_<<now, ipfsVars>> /\ [FracNext]_fracVars
    BY <1>3, <2>1 DEF InkNext, IpfsNext, IpfsTick, ipfsVars
  <2> QED
    BY <2>2, <2>3, <2>4
<1> QED
  BY <1>1, <1>2, <1>3 DEF MCNext

(* What TLC explores of the contracts together are behaviours of each: the *)
(* groups of operations it looks at one at a time are within them.         *)
THEOREM EachIsItsOwn ==
  MCSpec => /\ PoolSpec /\ PolicySpec /\ ClaimsSpec /\ GovSpec /\ SlashSpec
            /\ FeesSpec /\ OracleSpec /\ ComplianceSpec /\ ZkSpec /\ IpfsSpec /\ FracSpec
<1>1. MCInit => /\ ClockInit /\ PoolInit /\ PolicyInit /\ ClaimsInit /\ GovInit /\ SlashInit
                /\ FeesInit /\ OracleInit /\ ComplianceInit /\ ZkInit /\ IpfsInit /\ FracInit
  BY DEF MCInit
<1> QED
  BY <1>1, SorobanSteps, InkSteps, PTL
     DEF MCSpec, PoolSpec, PolicySpec, ClaimsSpec, GovSpec, SlashSpec,
         FeesSpec, OracleSpec, ComplianceSpec, ZkSpec, IpfsSpec, FracSpec

(* The storage of every contract keeps its type, for any accounts,         *)
(* amounts, widths, configurations and bounds the contracts allow.         *)
THEOREM StorageTypeCorrect == ASSUME ContractsAssumption PROVE MCSpec => []StorageTypeOK
<1>1. /\ SlashIInv => SlashTypeOK
      /\ FeesIInv => FeesTypeOK
      /\ OracleIInv => OracleTypeOK
      /\ KycIInv => ComplianceTypeOK
      /\ ZkIInv => ZkTypeOK
      /\ IpfsIInv => IpfsTypeOK
  BY DEF SlashIInv, FeesIInv, AuctionsOK, BooksOK, FeesTypeOK, OracleIInv, KycIInv, ZkIInv, IpfsIInv
<1>2. MCSpec => [](PoolTypeOK /\ PolicyTypeOK /\ ClaimsTypeOK /\ GovTypeOK /\ FracTypeOK)
  BY EachIsItsOwn, PoolTypeCorrect, PolicyTypeCorrect, ClaimsTypeCorrect, GovTypeCorrect,
     FractionsAreBacked, PTL DEF ContractsAssumption
<1>3. MCSpec => [](SlashTypeOK /\ FeesTypeOK /\ OracleTypeOK)
  BY EachIsItsOwn, SlashInvariance, FeesInvariance, OracleInvariance, <1>1, PTL
     DEF ContractsAssumption
<1>4. MCSpec => [](ComplianceTypeOK /\ ZkTypeOK /\ IpfsTypeOK)
  BY EachIsItsOwn, KycInvariance, ZkInvariance, IpfsInvariance, <1>1, PTL
     DEF ContractsAssumption
<1> QED
  BY <1>2, <1>3, <1>4, PTL DEF StorageTypeOK
====================================================================================
