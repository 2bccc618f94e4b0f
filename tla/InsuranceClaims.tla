--------------------------- MODULE InsuranceClaims ---------------------------
(***************************************************************************)
(* Policies, their tokens and their claims in the ink! insurance contract  *)
(* (contracts/insurance/src/insurance_impl.rs), over one pool and one      *)
(* reinsurance agreement that are set up when the behaviour starts.        *)
(*                                                                         *)
(* One action is one message.  A message that returns Err is reverted, but *)
(* a batch returns Ok whatever its items did: what an item had stored when *)
(* it failed stays.  So the decision about a claim is an operator from     *)
(* ledger to ledger, which process_claim uses once and a batch folds.      *)
(***************************************************************************)
EXTENDS InsuranceState, Sequences, FiniteSetsExt, SequencesExt

CONSTANTS Holders,        \* accounts that insure, claim and trade
          Assessors,      \* the holders that also have Role::Assessor
          Coverages, Deductibles, ClaimAmounts,
          Durations,      \* duration_seconds of a policy or a renewal
          Kinds,          \* "Standard", or "Event101": parametric, event 101
          EvidenceTypes,
          Capital,        \* the pool's total_capital
          PremiumShare,   \* what the pool keeps of a premium
          MaxCoverageRatio,
          Cooldown,       \* claim_cooldown_period
          DisputeWindow,  \* dispute_window_seconds
          Threshold,      \* reinsurance_threshold of the pool
          Retention, RecoveryLimit, AgreementEnd,  \* the agreement
          BatchLists,     \* lists of claim ids an assessor may pass
          MAX_BATCH_SIZE, \* 10 in the code
          StartTime,      \* the timestamp of the first block
          MaxPolicies, MaxClaims, \* bounds
          MaxEnd          \* bound: the last end of term a renewal may set

(* What is assumed of the constants.                                       *)
InsuranceClaimsAssumption ==
  /\ Assessors \subseteq Holders
  /\ Kinds \subseteq {"Standard", "Event101"}
  /\ Coverages \subseteq Nat /\ Deductibles \subseteq Nat /\ ClaimAmounts \subseteq Nat
  /\ Durations \subseteq Nat
  /\ BatchLists \subseteq Seq(Nat)
  /\ {Capital, PremiumShare, MaxCoverageRatio, Cooldown, DisputeWindow, Threshold, Retention,
      RecoveryLimit, AgreementEnd, StartTime, MaxPolicies, MaxClaims, MaxTime,
      MaxEnd, MAX_BATCH_SIZE} \subseteq Nat
  /\ BPS \in Nat \ {0} /\ StartTime <= MaxTime

VARIABLES policyCount, claimCount,
          activePolicies,\* active_policies of the pool
          token,         \* insurance_tokens: the token of each policy
          ledger,        \* policies, claims, pool: see LedgerType
          callerLast,    \* caller_last_claim(account)
          callerNonce,   \* caller_nonces(account)
          usedEvidence   \* used_evidence_nonces(policy, evidence type)

submission == <<claimCount, callerLast, callerNonce, usedEvidence>>
issue == <<policyCount, activePolicies, token>>
coverVars == <<now, paused, submission, issue, ledger>>

PolicyId == 1 .. MaxPolicies
ClaimId == 1 .. MaxClaims
NoHolder == "nobody"
NoPolicy == [holder |-> NoHolder, coverage |-> 0, deductible |-> 0, end |-> 0,
             kind |-> "Standard", claimed |-> 0, status |-> "Absent"]
NoClaim == [policy |-> 0, claimant |-> NoHolder, amount |-> 0, payout |-> 0, at |-> 0,
            deadline |-> 0, evidence |-> "none", status |-> "Absent"]

(* Every policy insures a property of its own: claim_cooldowns, kept per   *)
(* property, is the field cooldown, kept per policy.                       *)
CoverInit ==
  /\ now = StartTime
  /\ paused = FALSE
  /\ policyCount = 0 /\ claimCount = 0 /\ activePolicies = 0
  /\ token = [p \in PolicyId |-> [owner |-> NoHolder, listed |-> FALSE]]
  /\ ledger = [policy |-> [p \in PolicyId |-> NoPolicy],
               claim |-> [c \in ClaimId |-> NoClaim],
               cooldown |-> [p \in PolicyId |-> 0],
               available |-> Capital, claims_paid |-> 0, recovered |-> 0,
               paidOut |-> [c \in ClaimId |-> 0]]
  /\ callerLast = [h \in Holders |-> 0]
  /\ callerNonce = [h \in Holders |-> 0]
  /\ usedEvidence = {}

Policy(p) == ledger.policy[p]
Claim(c) == ledger.claim[c]

-----------------------------------------------------------------------------
(* Policies and their tokens.  The risk assessment and the premium that    *)
(* create_policy asks for are taken to be in order.                        *)
WithinExposure(coverage, capital) == coverage <= (capital * MaxCoverageRatio) \div BPS

CreatePolicy(h, coverage, deductible, duration, kind) ==
  LET p == policyCount + 1
  IN /\ ~paused
     /\ policyCount < MaxPolicies
     /\ WithinExposure(coverage, Capital)
     /\ WithinExposure(coverage, ledger.available + PremiumShare)
     /\ policyCount' = p
     /\ activePolicies' = activePolicies + 1
     /\ ledger' = [ledger EXCEPT
          !.available = @ + PremiumShare,
          !.policy[p] = [holder |-> h, coverage |-> coverage, deductible |-> deductible,
                         end |-> now + duration, kind |-> kind, claimed |-> 0,
                         status |-> "Active"]]
     /\ token' = [token EXCEPT ![p].owner = h]
     /\ UNCHANGED <<now, paused, submission>>

(* Mutant: a policy is renewed whatever became of it.                      *)
RenewableAny(p) == p <= policyCount

Renewable(p) == Policy(p).status \in {"Active", "Renewed"}

(* renew_policy looks neither at the pause nor at the end of the term.     *)
RenewPolicy(p, duration) ==
  /\ Renewable(p)
  /\ Policy(p).end + duration <= MaxEnd
  /\ ledger' = [ledger EXCEPT !.available = @ + PremiumShare,
                              !.policy[p].end = @ + duration,
                              !.policy[p].status = "Renewed"]
  /\ UNCHANGED <<now, paused, submission, issue>>

(* Mutant: a policy that was cancelled is cancelled, and counted off, again. *)
CancellableAgain(p) == Policy(p).status \in {"Active", "Cancelled"}

Cancellable(p) == Policy(p).status = "Active"

CancelPolicy(p) ==
  /\ Cancellable(p)
  /\ ledger' = [ledger EXCEPT !.policy[p].status = "Cancelled"]
  /\ activePolicies' = Monus(activePolicies, 1)
  /\ UNCHANGED <<now, paused, submission, policyCount, token>>

(* expire_policies scans from the first policy until it expired `limit'.   *)
Overdue == {p \in PolicyId : Policy(p).status = "Active" /\ now > Policy(p).end}
FirstOverdue(limit) ==
  {p \in Overdue : Cardinality({q \in Overdue : q < p}) < limit}

ExpirePolicies(limit) ==
  LET expired == FirstOverdue(IF limit = 0 THEN policyCount ELSE limit)
  IN /\ expired # {}
     /\ ledger' = [ledger EXCEPT !.policy = [p \in PolicyId |->
          IF p \in expired THEN [Policy(p) EXCEPT !.status = "Expired"] ELSE Policy(p)]]
     /\ activePolicies' = Monus(activePolicies, Cardinality(expired))
     /\ UNCHANGED <<now, paused, submission, policyCount, token>>

ListTokenForSale(p) ==
  /\ p <= policyCount
  /\ token' = [token EXCEPT ![p].listed = TRUE]
  /\ UNCHANGED <<now, paused, submission, policyCount, activePolicies, ledger>>

(* Mutant: the buyer gets the policy and the seller keeps the token.       *)
TokenUnsold(p, buyer) == [token EXCEPT ![p].listed = FALSE]

TokenSold(p, buyer) == [token EXCEPT ![p] = [owner |-> buyer, listed |-> FALSE]]

PurchaseToken(p, buyer) ==
  /\ token[p].listed
  /\ Policy(p).status = "Active"
  /\ ledger' = [ledger EXCEPT !.policy[p].holder = buyer]
  /\ token' = TokenSold(p, buyer)
  /\ UNCHANGED <<now, paused, submission, policyCount, activePolicies>>

-----------------------------------------------------------------------------
(* Payout of an approved claim.                                            *)
Reinsured(l, amount) ==
  IF amount > Threshold /\ now <= AgreementEnd
  THEN [l EXCEPT !.recovered = @ + Least(Monus(amount, Retention), RecoveryLimit)]
  ELSE l

(* Mutant: the deductible is not deducted from the pool's books.           *)
ChargedGross(l, c) == [l EXCEPT !.available = @ - l.claim[c].amount,
                                !.claims_paid = @ + l.claim[c].amount]

Charged(l, c) == [l EXCEPT !.available = @ - l.claim[c].payout,
                           !.claims_paid = @ + l.claim[c].payout]

(* Mutant: the liquidity of the pool is not looked at.                     *)
PayoutNeverFails(l, c) == FALSE

PayoutFails(l, c) == l.claim[c].payout > l.available

(* The reinsurance is noted before the pool's liquidity is looked at.      *)
(* paidOut is history: what PayoutExecuted events said of each claim.      *)
ExecutePayout(l, c) ==
  LET amount == l.claim[c].payout
      p == l.claim[c].policy
      claimed == l.policy[p].claimed + amount
  IN IF amount = 0 THEN l
     ELSE IF PayoutFails(l, c) THEN Reinsured(l, amount)
     ELSE [Charged(Reinsured(l, amount), c) EXCEPT
             !.policy[p].claimed = claimed,
             !.policy[p].status = IF claimed >= l.policy[p].coverage THEN "Claimed" ELSE @,
             !.cooldown[p] = now,
             !.claim[c].status = "Paid",
             !.paidOut[c] = @ + amount]

(* Mutant: a claim that was paid may be decided again.                     *)
DecidableAgain(l, c) == l.claim[c].status \in {"Pending", "Paid"}

Decidable(l, c) == l.claim[c].status = "Pending"

Approved(l, c) ==
  [l EXCEPT !.claim[c].status = "Approved",
            !.claim[c].payout = Monus(l.claim[c].amount, l.policy[l.claim[c].policy].deductible)]

Decide(l, c, approve) ==
  IF approve THEN ExecutePayout(Approved(l, c), c)
             ELSE [l EXCEPT !.claim[c].status = "Rejected"]

ProcessClaim(c, approve) ==
  /\ ~paused
  /\ Decidable(ledger, c)
  /\ approve => ~PayoutFails(Approved(ledger, c), c)
  /\ ledger' = Decide(ledger, c, approve)
  /\ UNCHANGED <<now, paused, submission, issue>>

(* A batch looks at the pause nowhere, skips what it cannot decide, and    *)
(* keeps what a payout that failed had stored.                             *)
DecideIfPending(l, c, approve) ==
  IF c \in ClaimId /\ Decidable(l, c) THEN Decide(l, c, approve) ELSE l

DecideEach(l, ids, approve) ==
  FoldLeft(LAMBDA k, c : DecideIfPending(k, c, approve), l, ids)

ProcessBatch(ids, approve) ==
  /\ ledger' = DecideEach(ledger, SubSeq(ids, 1, Least(Len(ids), MAX_BATCH_SIZE)), approve)
  /\ UNCHANGED <<now, paused, submission, issue>>

MoveToDispute(c) ==
  /\ ~paused
  /\ c <= claimCount
  /\ ledger' = [ledger EXCEPT !.claim[c].status = "Disputed"]
  /\ UNCHANGED <<now, paused, submission, issue>>

-----------------------------------------------------------------------------
(* Submission of a claim.                                                  *)
(* Mutant: the evidence is not looked at.                                  *)
EvidenceAccepted(p, e) == TRUE

EvidenceUnused(p, e) == <<p, e>> \notin usedEvidence

NonceExpected(h, n) == n = callerNonce[h]

(* Mutant: only the caller has to wait, not the property.                  *)
CallerWaited(h, p) == now - callerLast[h] >= Cooldown

CooldownOver(h, p) ==
  now - ledger.cooldown[p] >= Cooldown /\ now - callerLast[h] >= Cooldown

ClaimInOrder(h, p, amount) ==
  /\ Policy(p).holder = h
  /\ Policy(p).status = "Active"
  /\ now <= Policy(p).end
  /\ 0 < amount /\ amount <= Monus(Policy(p).coverage, Policy(p).claimed)

Submitted(h, p, amount, e) ==
  [ledger EXCEPT !.claim[claimCount + 1] =
    [policy |-> p, claimant |-> h, amount |-> amount, payout |-> 0, at |-> now,
     deadline |-> now + DisputeWindow, evidence |-> e, status |-> "Pending"]]

MaySubmit(h, p, amount, e, n) ==
  /\ ~paused
  /\ claimCount < MaxClaims
  /\ NonceExpected(h, n)
  /\ EvidenceUnused(p, e)
  /\ ClaimInOrder(h, p, amount)
  /\ CooldownOver(h, p)

SubmitClaim(h, p, amount, e, n) ==
  /\ MaySubmit(h, p, amount, e, n)
  /\ Policy(p).kind # "Event101"
  /\ ledger' = Submitted(h, p, amount, e)
  /\ claimCount' = claimCount + 1
  /\ usedEvidence' = usedEvidence \union {<<p, e>>}
  /\ callerLast' = [callerLast EXCEPT ![h] = now]
  /\ callerNonce' = [callerNonce EXCEPT ![h] = n + 1]
  /\ UNCHANGED <<now, paused, issue>>

(* A parametric claim on event 101 returns through process_claim, called   *)
(* in the name of the claimant, before nonces and times are stored.        *)
SubmitParametricClaim(h, p, amount, e, n) ==
  LET c == claimCount + 1
      l == Submitted(h, p, amount, e)
  IN /\ MaySubmit(h, p, amount, e, n)
     /\ Policy(p).kind = "Event101"
     /\ h \in Assessors
     /\ ~PayoutFails(Approved(l, c), c)
     /\ ledger' = Decide(l, c, TRUE)
     /\ claimCount' = c
     /\ UNCHANGED <<now, paused, issue, callerLast, callerNonce, usedEvidence>>

PauseCover(b) ==
  paused # b /\ paused' = b /\ UNCHANGED <<now, submission, issue, ledger>>

CoverTick ==
  /\ BlockTime
  /\ UNCHANGED <<paused, submission, issue, ledger>>

CoverNext ==
  \/ \E h \in Holders :
       \/ \E cov \in Coverages, ded \in Deductibles, d \in Durations, k \in Kinds :
            CreatePolicy(h, cov, ded, d, k)
       \/ \E p \in PolicyId :
            \/ PurchaseToken(p, h)
            \/ \E x \in ClaimAmounts, e \in EvidenceTypes, n \in 0 .. MaxClaims :
                 SubmitClaim(h, p, x, e, n) \/ SubmitParametricClaim(h, p, x, e, n)
  \/ \E p \in PolicyId :
       CancelPolicy(p) \/ ListTokenForSale(p) \/ \E d \in Durations : RenewPolicy(p, d)
  \/ \E limit \in 0 .. MaxPolicies : ExpirePolicies(limit)
  \/ \E c \in ClaimId : MoveToDispute(c) \/ \E a \in BOOLEAN : ProcessClaim(c, a)
  \/ \E ids \in BatchLists, a \in BOOLEAN : ProcessBatch(ids, a)
  \/ \E b \in BOOLEAN : PauseCover(b)
  \/ CoverTick

CoverSpec == CoverInit /\ [][CoverNext]_coverVars

-----------------------------------------------------------------------------
ClaimsOf(p) == {c \in ClaimId : Claim(c).policy = p}
InForce(p) == Policy(p).status \in {"Active", "Renewed"}

PolicyStatus == {"Absent", "Active", "Renewed", "Expired", "Cancelled", "Claimed"}
ClaimStatus == {"Absent", "Pending", "Approved", "Rejected", "Paid", "Disputed"}

LedgerType ==
  [policy : [PolicyId -> [holder : Holders \union {NoHolder}, coverage : Nat,
      deductible : Nat, end : Nat, kind : {"Standard", "Event101"}, claimed : Nat,
      status : PolicyStatus]],
   claim : [ClaimId -> [policy : 0 .. MaxPolicies, claimant : Holders \union {NoHolder},
      amount : Nat, payout : Nat, at : Nat, deadline : Nat,
      evidence : EvidenceTypes \union {"none"}, status : ClaimStatus]],
   cooldown : [PolicyId -> Nat], available : Nat, claims_paid : Nat, recovered : Nat,
   paidOut : [ClaimId -> Nat]]

CoverTypeOK ==
  /\ now \in StartTime .. MaxTime
  /\ paused \in BOOLEAN
  /\ policyCount \in 0 .. MaxPolicies
  /\ claimCount \in 0 .. MaxClaims
  /\ activePolicies \in 0 .. MaxPolicies
  /\ token \in [PolicyId -> [owner : Holders \union {NoHolder}, listed : BOOLEAN]]
  /\ ledger \in LedgerType
  /\ callerLast \in [Holders -> 0 .. MaxTime]
  /\ callerNonce \in [Holders -> 0 .. MaxClaims]
  /\ usedEvidence \subseteq PolicyId \X EvidenceTypes

(* The three books of a payout agree: what the pool paid, what each policy *)
(* has had of its cover, and what was paid on each claim, net of the       *)
(* deductible.                                                             *)
BooksAgree ==
  /\ ledger.claims_paid = SumFunctionOnSet(ledger.paidOut, ClaimId)
  /\ \A p \in PolicyId :
       Policy(p).claimed = SumFunctionOnSet(ledger.paidOut, ClaimsOf(p))

(* No claim is paid twice, whether it is decided alone or in a batch, in   *)
(* which its id may stand twice.                                           *)
PaidAtMostOnce ==
  \A c \in 1 .. claimCount :
    ledger.paidOut[c] <= Monus(Claim(c).amount, Policy(Claim(c).policy).deductible)

(* submit_claim asks for evidence that is new to the policy, to "prevent   *)
(* replay attacks".  A claim on event 101 is answered before its evidence  *)
(* is noted as used, so evidence is replayed there, and only there: on a   *)
(* standard policy, in whosever hands, it supports one claim.  What limits *)
(* the replay is the cooldown of the property: after a claim that was paid *)
(* the next one waits for it.                                              *)
ReplayIsParametric ==
  \A c \in 1 .. claimCount : \A d \in 1 .. c - 1 :
    Claim(c).policy = Claim(d).policy /\ Claim(c).evidence = Claim(d).evidence =>
      /\ Policy(Claim(c).policy).kind = "Event101"
      /\ ledger.paidOut[d] > 0 => Claim(d).at + Cooldown <= Claim(c).at

(* insurance: pool, policies and claims tell one story of what was paid,   *)
(* once for each claim, and on evidence of its own unless the policy is    *)
(* parametric, where the same evidence is paid for once in a cooldown.     *)
ClaimsBooksTrue == BooksAgree /\ PaidAtMostOnce /\ ReplayIsParametric

(* The holder of a policy and the owner of its token are one account.      *)
TokenFollowsPolicy == \A p \in PolicyId : token[p].owner = Policy(p).holder

(* The pool never counts fewer policies than it covers: whatever order     *)
(* policies are cancelled, expired, renewed and used up in, none is        *)
(* counted off for another.                                                *)
ActiveCountNeverShort ==
  activePolicies >= Cardinality({p \in PolicyId : InForce(p)})

(* "Check claim amount doesn't exceed remaining coverage": what is paid on *)
(* a policy stays within its cover.                                        *)
CoverageNotExceeded == \A p \in PolicyId : Policy(p).claimed <= Policy(p).coverage

(* "Pay an approved claim from pool capital and update policy and claim    *)
(* state": no claim with something to pay rests in Approved.               *)
ApprovedIsPaid == \A c \in ClaimId : Claim(c).status = "Approved" => Claim(c).payout = 0

=============================================================================
