----------------------- MODULE InsuranceClaims_proofs -----------------------
(***************************************************************************)
(* Proofs about the policies, claims and cover tokens of the ink!          *)
(* insurance contract, for any holders, policies, claims, coverages,       *)
(* durations, deductibles, batches and clock, and about the evidence filed *)
(* for claims, for any claimants, reviewers, items and batches.            *)
(*                                                                         *)
(* One invariant carries all of them, for they are not inductive alone.    *)
(* The books are true because nothing was paid on a pending claim and a    *)
(* claim is on a policy that exists; the count of active policies is never *)
(* short because a policy counts once, as long as none is written beyond   *)
(* the last; evidence supports one claim of a standard policy because the  *)
(* evidence of every such claim is noted as used.  A batch decides its     *)
(* claims one after the other, each on the ledger the last one left: what  *)
(* holds of every ledger on the way is shown at the shortest batch it      *)
(* would fail on.                                                          *)
(*                                                                         *)
(* A second invariant paces what evidence is replayed for: a claim on      *)
(* event 101 never waits, and one that was paid set the cooldown of its    *)
(* property, which no decision about another policy's claims moves.        *)
(***************************************************************************)
EXTENDS MCInsurance, Insurance_proofs, SequenceTheorems

(* What was paid on a set of claims.                                       *)
PaidOn(l, S) == SumFunctionOnSet(l.paidOut, S)

(* Whose claim it is.                                                      *)
On(l, p) == {c \in ClaimId : l.claim[c].policy = p}

(* The cover left in force.                                                *)
Covering(l) == {p \in PolicyId : l.policy[p].status \in {"Active", "Renewed"}}

(* A ledger with n policies and m claims: nothing is written beyond them,  *)
(* a claim is on a policy, nothing was paid on a pending one, and the      *)
(* books agree.                                                            *)
Stored(l, n, m) ==
  /\ \A p \in PolicyId : p > n => l.policy[p] = NoPolicy
  /\ \A c \in ClaimId : IF c <= m THEN l.claim[c].policy \in 1 .. n
                        ELSE l.claim[c] = NoClaim /\ l.paidOut[c] = 0

Books(l) ==
  /\ \A c \in ClaimId : l.claim[c].status = "Pending" => l.paidOut[c] = 0
  /\ l.claims_paid = PaidOn(l, ClaimId)
  /\ \A p \in PolicyId : l.policy[p].claimed = PaidOn(l, On(l, p))
  /\ \A c \in ClaimId : l.claim[c].policy \in PolicyId =>
       l.paidOut[c] <= Monus(l.claim[c].amount, l.policy[l.claim[c].policy].deductible)

LedgerOK(l, n, m) == l \in LedgerType /\ Stored(l, n, m) /\ Books(l)

(* On a standard policy a piece of evidence supports one claim, and what   *)
(* supports one is noted as used.                                          *)
Standard(c) == c <= claimCount /\ Policy(Claim(c).policy).kind = "Standard"

SpentOnce ==
  \A c, d \in {x \in ClaimId : Standard(x)} :
    Claim(c).policy = Claim(d).policy /\ Claim(c).evidence = Claim(d).evidence => c = d

EvidenceNoted ==
  \A c \in 1 .. claimCount : Policy(Claim(c).policy).kind = "Standard" =>
    <<Claim(c).policy, Claim(c).evidence>> \in usedEvidence

CoverIInv ==
  /\ CoverTypeOK
  /\ LedgerOK(ledger, policyCount, claimCount)
  /\ activePolicies <= policyCount
  /\ activePolicies >= Cardinality(Covering(ledger))
  /\ \A h \in Holders : callerNonce[h] <= claimCount
  /\ TokenFollowsPolicy
  /\ \A p \in PolicyId : p > policyCount => token[p] = [owner |-> NoHolder, listed |-> FALSE]
  /\ EvidenceNoted
  /\ SpentOnce

-----------------------------------------------------------------------------
(* A batch, one claim after the other.                                     *)
DecidesUp(h, l, ids, approve, S) ==
  h = [s \in SUBSET S |->
        IF s = {} THEN l ELSE DecideIfPending(h[s \ {Max(s)}], ids[Max(s)], approve)]

(* A finite set of numbers.                                                *)
Numbers(S) == IsFiniteSet(S) /\ S \subseteq Int

(* Its subsets are such sets.                                              *)
LEMMA NumbersBelow == ASSUME NEW S, Numbers(S), NEW T \in SUBSET S PROVE Numbers(T) /\ IsFiniteSet(T)
BY FS_Subset DEF Numbers

(* A finite set of numbers has a greatest one.                             *)
LEMMA MaxIn == ASSUME NEW S, Numbers(S), S # {} PROVE Max(S) \in S
<1> DEFINE Top(T) == \E x \in T : \A y \in T : x >= y
           B == {T \in SUBSET S : T # {} /\ ~Top(T)}
<1>0. IsFiniteSet(S)
  BY DEF Numbers
<1>1. ASSUME B # {} PROVE FALSE
  <2>1. PICK T \in B : \A U \in B : U \subseteq T => U = T
    <3>1. B \subseteq SUBSET S
      OBVIOUS
    <3> HIDE DEF B
    <3> QED
      BY <1>0, <1>1, <3>1, MinimalSubset
  <2>n. \A y \in T : y \in Int
    BY DEF Numbers
  <2>2. PICK x \in T : TRUE
    OBVIOUS
  <2>3. T \ {x} \notin B
    BY <2>1, <2>2
  <2>4. CASE T \ {x} = {}
    <3>1. \A y \in T : x >= y
      BY <2>n, <2>2, <2>4
    <3> QED
      BY <2>2, <3>1
  <2>5. CASE T \ {x} # {}
    <3>1. PICK z \in T \ {x} : \A y \in T \ {x} : z >= y
      BY <2>3, <2>5
    <3>2. CASE z >= x
      <4>1. \A y \in T : z >= y
        BY <2>n, <2>2, <3>1, <3>2
      <4> QED
        BY <4>1
    <3>3. CASE x > z
      <4>1. \A y \in T : x >= y
        BY <2>n, <2>2, <3>1, <3>3
      <4> QED
        BY <4>1, <2>2
    <3> QED
      BY <2>n, <2>2, <3>1, <3>2, <3>3
  <2> QED
    BY <2>4, <2>5
<1>2. Top(S)
  BY <1>1
<1> QED
  BY <1>2 DEF Max

(* Two accounts of a batch agree.                                          *)
LEMMA DecidesUnique ==
  ASSUME NEW l, NEW ids, NEW a, NEW S, Numbers(S), NEW T, T \subseteq S,
         NEW g, NEW h, DecidesUp(g, l, ids, a, S), DecidesUp(h, l, ids, a, T)
  PROVE  \A s \in SUBSET T : g[s] = h[s]
<1> DEFINE B == {s \in SUBSET T : g[s] # h[s]}
<1>1. SUFFICES ASSUME B # {} PROVE FALSE
  OBVIOUS
<1>0. IsFiniteSet(T) /\ Numbers(T)
  BY NumbersBelow
<1>2. PICK s \in B : \A t \in B : t \subseteq s => t = s
  <2>1. B \subseteq SUBSET T
    OBVIOUS
  <2> HIDE DEF B
  <2> QED
    BY <1>0, <1>1, <2>1, MinimalSubset
<1>3. g[s] = IF s = {} THEN l ELSE DecideIfPending(g[s \ {Max(s)}], ids[Max(s)], a)
  BY DEF DecidesUp
<1>4. h[s] = IF s = {} THEN l ELSE DecideIfPending(h[s \ {Max(s)}], ids[Max(s)], a)
  BY DEF DecidesUp
<1>5. s # {}
  BY <1>3, <1>4
<1>6. Max(s) \in s
  <2>1. Numbers(s)
    BY <1>0, NumbersBelow
  <2> QED
    BY <1>5, <2>1, MaxIn
<1>7. s \ {Max(s)} \in SUBSET T /\ s \ {Max(s)} # s /\ s \ {Max(s)} \subseteq s
  BY <1>6
<1>8. g[s \ {Max(s)}] = h[s \ {Max(s)}]
  BY <1>2, <1>7
<1> QED
  BY <1>3, <1>4, <1>5, <1>8

(* There is an account of every batch.                                     *)
LEMMA DecidesExist ==
  ASSUME NEW l, NEW ids, NEW a, NEW S, Numbers(S)
  PROVE  \E h : DecidesUp(h, l, ids, a, S)
<1> DEFINE B == {T \in SUBSET S : ~ \E h : DecidesUp(h, l, ids, a, T)}
<1>0. IsFiniteSet(S)
  BY DEF Numbers
<1>1. SUFFICES ASSUME B # {} PROVE FALSE
  OBVIOUS
<1>2. PICK T \in B : \A U \in B : U \subseteq T => U = T
  <2>1. B \subseteq SUBSET S
    OBVIOUS
  <2> HIDE DEF B
  <2> QED
    BY <1>0, <1>1, <2>1, MinimalSubset
<1> DEFINE upTo(U) == CHOOSE h : DecidesUp(h, l, ids, a, U)
           below(U) == upTo(U)[U]
           h == [s \in SUBSET T |->
                  IF s = {} THEN l
                  ELSE DecideIfPending(below(s \ {Max(s)}), ids[Max(s)], a)]
<1>m. \A s \in SUBSET T : Numbers(s) /\ (s # {} => Max(s) \in s)
  <2>1. ASSUME NEW s \in SUBSET T PROVE Numbers(s) /\ (s # {} => Max(s) \in s)
    <3>1. Numbers(s)
      BY NumbersBelow
    <3> QED
      BY <3>1, MaxIn
  <2> QED
    BY <2>1
<1>3. ASSUME NEW U \in SUBSET T, U # T PROVE DecidesUp(upTo(U), l, ids, a, U)
  <2>1. U \notin B /\ U \in SUBSET S
    BY <1>2, <1>3
  <2>2. \E g : DecidesUp(g, l, ids, a, U)
    BY <2>1
  <2> QED
    BY <2>2
<1>4. ASSUME NEW s \in SUBSET T, s # T PROVE h[s] = below(s)
  <2>1. DecidesUp(upTo(s), l, ids, a, s)
    BY <1>3, <1>4
  <2>2. below(s) = IF s = {} THEN l ELSE DecideIfPending(upTo(s)[s \ {Max(s)}], ids[Max(s)], a)
    <3> HIDE DEF upTo
    <3> QED
      BY <2>1 DEF DecidesUp
  <2>3. CASE s # {}
    <3> DEFINE r == s \ {Max(s)}
    <3>1. r \subseteq s /\ r # T /\ r \in SUBSET T /\ Numbers(s)
      BY <2>3, <1>m
    <3>2. DecidesUp(upTo(r), l, ids, a, r)
      BY <1>3, <3>1
    <3>3. upTo(s)[r] = upTo(r)[r]
      <4> HIDE DEF r, upTo
      <4>1. r \in SUBSET r
        OBVIOUS
      <4> QED
        BY <2>1, <3>1, <3>2, <4>1, DecidesUnique
    <3> QED
      BY <2>2, <2>3, <3>3
  <2>4. CASE s = {}
    BY <2>2, <2>4
  <2> QED
    BY <2>3, <2>4
<1>5. DecidesUp(h, l, ids, a, T)
  <2>1. ASSUME NEW s \in SUBSET T, s # {} PROVE h[s \ {Max(s)}] = below(s \ {Max(s)})
    <3>1. s \ {Max(s)} \in SUBSET T /\ s \ {Max(s)} # T
      BY <2>1, <1>m
    <3> HIDE DEF h, below
    <3> QED
      BY <3>1, <1>4
  <2>2. ASSUME NEW s \in SUBSET T
        PROVE  h[s] = IF s = {} THEN l ELSE DecideIfPending(h[s \ {Max(s)}], ids[Max(s)], a)
    <3>1. h[s] = IF s = {} THEN l ELSE DecideIfPending(below(s \ {Max(s)}), ids[Max(s)], a)
      OBVIOUS
    <3> HIDE DEF h, below
    <3> QED
      BY <2>1, <3>1
  <2>3. h = [s \in SUBSET T |-> h[s]]
    OBVIOUS
  <2> HIDE DEF h
  <2> QED
    BY <2>2, <2>3 DEF DecidesUp
<1> QED
  BY <1>2, <1>5

(* The fold of the library is such an account.                             *)
LEMMA BatchDecides ==
  ASSUME NEW l, NEW a, NEW ids \in Seq(Nat)
  PROVE  \E h : DecidesUp(h, l, ids, a, DOMAIN ids) /\ DecideEach(l, ids, a) = h[DOMAIN ids]
<1> DEFINE S == DOMAIN ids
           h == CHOOSE h : h = [s \in SUBSET S |->
                  IF s = {} THEN l ELSE DecideIfPending(h[s \ {Max(s)}], ids[Max(s)], a)]
<1>0. Numbers(S)
  <2>1. S = 1 .. Len(ids) /\ Len(ids) \in Nat
    OBVIOUS
  <2> QED
    BY <2>1, FS_Interval DEF Numbers
<1>1. DecidesUp(h, l, ids, a, S)
  <2>1. \E g : DecidesUp(g, l, ids, a, S)
    <3> HIDE DEF S
    <3> QED
      BY <1>0, DecidesExist
  <2> QED
    BY <2>1 DEF DecidesUp
<1>2. DecideEach(l, ids, a) = h[S]
  BY DEF DecideEach, FoldLeft, MapThenFoldSet
<1> QED
  BY <1>1, <1>2

-----------------------------------------------------------------------------
PolicyRecord ==
  [holder : Holders \union {NoHolder}, coverage : Nat, deductible : Nat, end : Nat,
   kind : {"Standard", "Event101"}, claimed : Nat, status : PolicyStatus]

ClaimRecord ==
  [policy : 0 .. MaxPolicies, claimant : Holders \union {NoHolder}, amount : Nat, payout : Nat,
   at : Nat, deadline : Nat, evidence : EvidenceTypes \union {"none"}, status : ClaimStatus]

(* The constants, as numbers.                                              *)
LEMMA CoverConstants ==
  ASSUME InsuranceClaimsAssumption
  PROVE  /\ MaxPolicies \in Nat /\ MaxClaims \in Nat /\ StartTime \in Nat /\ MaxTime \in Nat
         /\ StartTime <= MaxTime /\ Capital \in Nat /\ PremiumShare \in Nat /\ DisputeWindow \in Nat
         /\ Retention \in Nat /\ RecoveryLimit \in Nat /\ MAX_BATCH_SIZE \in Nat
         /\ Coverages \subseteq Nat /\ Deductibles \subseteq Nat /\ ClaimAmounts \subseteq Nat
         /\ Durations \subseteq Nat /\ BatchLists \subseteq Seq(Nat)
         /\ Assessors \subseteq Holders /\ Kinds \subseteq {"Standard", "Event101"}
BY DEF InsuranceClaimsAssumption

(* A ledger, field by field.                                               *)
LEMMA LedgerFields ==
  ASSUME NEW l \in LedgerType
  PROVE  /\ l.policy \in [PolicyId -> PolicyRecord] /\ l.claim \in [ClaimId -> ClaimRecord]
         /\ l.cooldown \in [PolicyId -> Nat] /\ l.paidOut \in [ClaimId -> Nat]
         /\ l.available \in Nat /\ l.claims_paid \in Nat /\ l.recovered \in Nat
BY DEF LedgerType, PolicyRecord, ClaimRecord

(* What paid and covered the same has the same books.                      *)
LEMMA BooksKept ==
  ASSUME NEW l, NEW k, Books(l), k.paidOut = l.paidOut, k.claims_paid = l.claims_paid,
         \A p \in PolicyId : /\ k.policy[p].claimed = l.policy[p].claimed
                             /\ k.policy[p].deductible = l.policy[p].deductible,
         \A c \in ClaimId : /\ k.claim[c].policy = l.claim[c].policy
                            /\ k.claim[c].amount = l.claim[c].amount
                            /\ k.claim[c].status = "Pending" => l.claim[c].status = "Pending"
  PROVE  Books(k)
<1>1. \A p : On(k, p) = On(l, p)
  BY DEF On
<1>2. \A S : PaidOn(k, S) = PaidOn(l, S)
  BY DEF PaidOn
<1>3. \A p \in PolicyId : k.policy[p].claimed = PaidOn(k, On(k, p))
  BY <1>1, <1>2 DEF Books
<1>4. k.claims_paid = PaidOn(k, ClaimId)
  BY <1>2 DEF Books
<1>5. \A c \in ClaimId : k.claim[c].status = "Pending" => k.paidOut[c] = 0
  BY DEF Books
<1>6. \A c \in ClaimId : k.claim[c].policy \in PolicyId =>
       k.paidOut[c] <= Monus(k.claim[c].amount, k.policy[k.claim[c].policy].deductible)
  BY DEF Books
<1> QED
  BY <1>3, <1>4, <1>5, <1>6 DEF Books

(* What is promised stays: terms of policies and claims, and what lapsed.  *)
SameTerms(l, k) ==
  /\ \A p \in PolicyId : /\ k.policy[p].holder = l.policy[p].holder
                         /\ k.policy[p].kind = l.policy[p].kind
  /\ Covering(k) \subseteq Covering(l)
  /\ \A c \in ClaimId : /\ k.claim[c].policy = l.claim[c].policy
                        /\ k.claim[c].evidence = l.claim[c].evidence

(* Another status of a claim.                                              *)
WithStatus(l, c, s) == [l EXCEPT !.claim[c].status = s]

(* It changes no book.                                                     *)
LEMMA StatusSet ==
  ASSUME NEW l \in LedgerType, NEW n, NEW m, LedgerOK(l, n, m), NEW c \in ClaimId, m \in Nat,
         c <= m, NEW s \in ClaimStatus, s # "Pending", NEW k, k = WithStatus(l, c, s)
  PROVE  LedgerOK(k, n, m) /\ SameTerms(l, k)
<1>1. /\ k.policy = l.policy /\ k.paidOut = l.paidOut /\ k.claims_paid = l.claims_paid
      /\ k.claim = [l.claim EXCEPT ![c].status = s]
  BY DEF LedgerType, WithStatus
<1>2. l.claim \in [ClaimId -> ClaimRecord]
  BY LedgerFields
<1>3. k \in LedgerType
  <2>1. [l.claim EXCEPT ![c].status = s] \in [ClaimId -> ClaimRecord]
    BY <1>2 DEF ClaimRecord
  <2> QED
    BY <2>1 DEF LedgerType, ClaimRecord, WithStatus
<1>4. /\ \A d \in ClaimId \ {c} : k.claim[d] = l.claim[d]
      /\ k.claim[c].policy = l.claim[c].policy /\ k.claim[c].amount = l.claim[c].amount
      /\ k.claim[c].evidence = l.claim[c].evidence /\ k.claim[c].status = s
  BY <1>1, <1>2 DEF ClaimRecord
<1>5. Books(k)
  <2>1. \A p \in PolicyId : /\ k.policy[p].claimed = l.policy[p].claimed
                            /\ k.policy[p].deductible = l.policy[p].deductible
    BY <1>1
  <2>2. \A d \in ClaimId : /\ k.claim[d].policy = l.claim[d].policy
                           /\ k.claim[d].amount = l.claim[d].amount
                           /\ k.claim[d].status = "Pending" => l.claim[d].status = "Pending"
    BY <1>4
  <2>3. Books(l)
    BY DEF LedgerOK
  <2> QED
    BY <1>1, <2>1, <2>2, <2>3, BooksKept
<1>6. Stored(k, n, m)
  BY <1>1, <1>4 DEF LedgerOK, Stored
<1>7. SameTerms(l, k)
  BY <1>1, <1>4 DEF SameTerms, Covering
<1> QED
  BY <1>3, <1>5, <1>6, <1>7 DEF LedgerOK

(* One after the other.                                                    *)
LEMMA TermsChain ==
  ASSUME NEW l, NEW k, NEW j, SameTerms(l, k), SameTerms(k, j)
  PROVE  SameTerms(l, j)
BY DEF SameTerms

(* Approving a claim: nothing is paid yet.                                 *)
LEMMA Approving ==
  ASSUME InsuranceClaimsAssumption, NEW l, NEW n \in 0 .. MaxPolicies, NEW m \in Nat,
         LedgerOK(l, n, m), NEW c \in ClaimId, c <= m, Decidable(l, c), NEW k, k = Approved(l, c)
  PROVE  /\ LedgerOK(k, n, m) /\ SameTerms(l, k)
         /\ k.paidOut[c] = 0 /\ k.claim[c].status = "Approved"
         /\ k.claim[c].payout = Monus(k.claim[c].amount, k.policy[k.claim[c].policy].deductible)
         /\ k.available = l.available /\ k.claim[c].policy \in PolicyId
<1> DEFINE p == l.claim[c].policy
           due == Monus(l.claim[c].amount, l.policy[p].deductible)
<1>0. l \in LedgerType
  BY DEF LedgerOK
<1>1. /\ k.policy = l.policy /\ k.paidOut = l.paidOut /\ k.claims_paid = l.claims_paid
      /\ k.available = l.available
      /\ k.claim = [l.claim EXCEPT ![c].status = "Approved", ![c].payout = due]
  BY <1>0 DEF LedgerType, Approved
<1>2. l.claim \in [ClaimId -> ClaimRecord] /\ l.policy \in [PolicyId -> PolicyRecord]
  BY <1>0, LedgerFields
<1>p. p \in PolicyId
  <2>1. p \in 1 .. n
    BY DEF LedgerOK, Stored
  <2> HIDE DEF p
  <2> QED
    BY <2>1, CoverConstants DEF PolicyId
<1>d. due \in Nat
  <2>1. l.claim[c].amount \in Nat /\ l.policy[p].deductible \in Nat
    BY <1>2, <1>p DEF ClaimRecord, PolicyRecord
  <2> QED
    BY <2>1 DEF Monus
<1> HIDE DEF due
<1>3. k \in LedgerType
  <2>1. [l.claim EXCEPT ![c].status = "Approved", ![c].payout = due] \in [ClaimId -> ClaimRecord]
    BY <1>2, <1>d DEF ClaimRecord, ClaimStatus
  <2>2. /\ k = [l EXCEPT !.claim = k.claim] /\ k.claim \in [ClaimId -> ClaimRecord]
    BY <1>0, <1>1, <2>1 DEF Approved, LedgerType, due
  <2> QED
    BY <1>0, <2>2 DEF LedgerType, ClaimRecord
<1>4. /\ \A d \in ClaimId \ {c} : k.claim[d] = l.claim[d]
      /\ k.claim[c].policy = p /\ k.claim[c].amount = l.claim[c].amount
      /\ k.claim[c].evidence = l.claim[c].evidence /\ k.claim[c].status = "Approved"
      /\ k.claim[c].payout = due
  BY <1>1, <1>2 DEF ClaimRecord
<1>5. Books(k)
  <2>1. \A q \in PolicyId : /\ k.policy[q].claimed = l.policy[q].claimed
                            /\ k.policy[q].deductible = l.policy[q].deductible
    BY <1>1
  <2>2. \A d \in ClaimId : /\ k.claim[d].policy = l.claim[d].policy
                           /\ k.claim[d].amount = l.claim[d].amount
                           /\ k.claim[d].status = "Pending" => l.claim[d].status = "Pending"
    BY <1>4
  <2>3. Books(l)
    BY DEF LedgerOK
  <2> QED
    BY <1>1, <2>1, <2>2, <2>3, BooksKept
<1>6. Stored(k, n, m)
  BY <1>1, <1>4 DEF LedgerOK, Stored
<1>7. SameTerms(l, k)
  BY <1>1, <1>4 DEF SameTerms, Covering
<1>8. k.paidOut[c] = 0
  BY <1>1 DEF LedgerOK, Books, Decidable
<1> QED
  BY <1>1, <1>3, <1>4, <1>5, <1>6, <1>7, <1>8, <1>p DEF LedgerOK, due

(* There are finitely many claims and policies.                            *)
LEMMA ClaimsFinite == InsuranceClaimsAssumption => IsFiniteSet(ClaimId) /\ IsFiniteSet(PolicyId)
<1> SUFFICES ASSUME InsuranceClaimsAssumption PROVE IsFiniteSet(ClaimId) /\ IsFiniteSet(PolicyId)
  OBVIOUS
<1>1. MaxClaims \in Int /\ MaxPolicies \in Int /\ 1 \in Int
  BY CoverConstants
<1> QED
  BY <1>1, FS_Interval DEF ClaimId, PolicyId

(* Noting a recovery touches nothing else.                                 *)
LEMMA Recovering ==
  ASSUME InsuranceClaimsAssumption, NEW l, NEW n, NEW m, LedgerOK(l, n, m), NEW x \in Nat,
         NEW k, k = Reinsured(l, x)
  PROVE  /\ LedgerOK(k, n, m) /\ SameTerms(l, k)
         /\ k.policy = l.policy /\ k.claim = l.claim /\ k.paidOut = l.paidOut
         /\ k.available = l.available /\ k.claims_paid = l.claims_paid /\ k.cooldown = l.cooldown
<1>0. l \in LedgerType
  BY DEF LedgerOK
<1> DEFINE r == l.recovered + Least(Monus(x, Retention), RecoveryLimit)
<1>1. r \in Nat
  BY <1>0, LedgerFields, CoverConstants DEF Least, Monus
<1> HIDE DEF r
<1>2. k = l \/ k = [l EXCEPT !.recovered = r]
  BY DEF Reinsured, r
<1>3. k \in LedgerType
  BY <1>0, <1>1, <1>2 DEF LedgerType
<1>4. /\ k.policy = l.policy /\ k.claim = l.claim /\ k.paidOut = l.paidOut
      /\ k.available = l.available /\ k.claims_paid = l.claims_paid /\ k.cooldown = l.cooldown
  BY <1>0, <1>2 DEF LedgerType
<1>5. Books(k)
  <2>1. Books(l)
    BY DEF LedgerOK
  <2> QED
    BY <1>4, <2>1, BooksKept
<1>6. Stored(k, n, m) /\ SameTerms(l, k)
  BY <1>4 DEF LedgerOK, Stored, SameTerms, Covering
<1> QED
  BY <1>3, <1>4, <1>5, <1>6 DEF LedgerOK

(* What a payout of x from the pool, on a claim c of policy p, writes.     *)
Paying(l, c, p, x) ==
  [Charged(l, c) EXCEPT
     !.policy[p].claimed = l.policy[p].claimed + x,
     !.policy[p].status = IF l.policy[p].claimed + x >= l.policy[p].coverage THEN "Claimed" ELSE @,
     !.cooldown[p] = now,
     !.claim[c].status = "Paid",
     !.paidOut[c] = @ + x]

(* What is due on it, and not paid yet.                                    *)
Due(l, c, p, x) ==
  /\ p = l.claim[c].policy /\ x = l.claim[c].payout
  /\ x = Monus(l.claim[c].amount, l.policy[p].deductible)
  /\ x <= l.available /\ l.paidOut[c] = 0

(* Paying a claim enters it in all the books.                              *)
LEMMA PayingIsBooked ==
  ASSUME InsuranceClaimsAssumption, now \in Nat, NEW l, NEW n \in 0 .. MaxPolicies, NEW m \in Nat,
         LedgerOK(l, n, m), NEW c \in ClaimId, c <= m, NEW p \in PolicyId, NEW x \in Nat,
         Due(l, c, p, x), NEW k, k = Paying(l, c, p, x)
  PROVE  LedgerOK(k, n, m) /\ SameTerms(l, k)
<1>0. l \in LedgerType
  BY DEF LedgerOK
<1>f. /\ l.policy \in [PolicyId -> PolicyRecord] /\ l.claim \in [ClaimId -> ClaimRecord]
      /\ l.cooldown \in [PolicyId -> Nat] /\ l.paidOut \in [ClaimId -> Nat]
      /\ l.available \in Nat /\ l.claims_paid \in Nat /\ l.recovered \in Nat
  BY <1>0, LedgerFields
<1> DEFINE paid == l.policy[p].claimed + x
           left == l.available - x
           total == l.claims_paid + x
           st == IF paid >= l.policy[p].coverage THEN "Claimed" ELSE l.policy[p].status
           pol == [l.policy EXCEPT ![p].claimed = paid, ![p].status = st]
           cl == [l.claim EXCEPT ![c].status = "Paid"]
           out == [l.paidOut EXCEPT ![c] = x]
           cool == [l.cooldown EXCEPT ![p] = now]
<1>z. l.paidOut[c] = 0
  BY DEF Due
<1>1. k = [policy |-> pol, claim |-> cl, cooldown |-> cool, available |-> left,
           claims_paid |-> total, recovered |-> l.recovered, paidOut |-> out]
  <2>1. Charged(l, c) = [l EXCEPT !.available = left, !.claims_paid = total]
    BY DEF Charged, Due
  <2>2. l.paidOut[c] + x = x
    BY <1>z
  <2> QED
    BY <1>0, <2>1, <2>2 DEF Paying, LedgerType
<1>2. paid \in Nat /\ left \in Nat /\ total \in Nat
  <2>1. x <= l.available
    BY DEF Due
  <2> QED
    BY <1>f, <2>1 DEF PolicyRecord
<1>3. st \in PolicyStatus
  BY <1>f DEF PolicyRecord, PolicyStatus
<1> HIDE DEF paid, left, total, st
<1>4. /\ pol \in [PolicyId -> PolicyRecord] /\ cl \in [ClaimId -> ClaimRecord]
      /\ out \in [ClaimId -> Nat] /\ cool \in [PolicyId -> Nat]
  <2>1. pol \in [PolicyId -> PolicyRecord]
    BY <1>f, <1>2, <1>3 DEF PolicyRecord
  <2>2. cl \in [ClaimId -> ClaimRecord]
    BY <1>f DEF ClaimRecord, ClaimStatus
  <2>3. out \in [ClaimId -> Nat] /\ cool \in [PolicyId -> Nat]
    BY <1>f
  <2> QED
    BY <2>1, <2>2, <2>3
<1>5. /\ \A q \in PolicyId \ {p} : pol[q] = l.policy[q]
      /\ pol[p].claimed = paid /\ pol[p].status = st
      /\ pol[p].holder = l.policy[p].holder /\ pol[p].kind = l.policy[p].kind
      /\ pol[p].deductible = l.policy[p].deductible
  BY <1>f DEF PolicyRecord
<1>6. /\ \A d \in ClaimId \ {c} : cl[d] = l.claim[d] /\ out[d] = l.paidOut[d]
      /\ cl[c].policy = l.claim[c].policy /\ cl[c].amount = l.claim[c].amount
      /\ cl[c].evidence = l.claim[c].evidence /\ cl[c].status = "Paid"
      /\ out[c] = x
  BY <1>f DEF ClaimRecord
<1> HIDE DEF pol, cl, out, cool
<1>7. k \in LedgerType
  BY <1>1, <1>2, <1>4, <1>f DEF LedgerType, PolicyRecord, ClaimRecord
<1>8. /\ k.policy = pol /\ k.claim = cl /\ k.paidOut = out /\ k.claims_paid = total
  BY <1>1
<1>9. Stored(k, n, m)
  <2>1. l.claim[c].policy = p
    BY DEF Due
  <2>2. p \in 1 .. n
    BY <2>1 DEF LedgerOK, Stored
  <2>3. \A q \in PolicyId : q > n => q # p
    BY <2>2, CoverConstants DEF PolicyId
  <2>4. \A q \in PolicyId : q > n => pol[q] = NoPolicy
    BY <1>5, <2>3 DEF LedgerOK, Stored
  <2>5. \A d \in ClaimId : IF d <= m THEN cl[d].policy \in 1 .. n
                           ELSE cl[d] = NoClaim /\ out[d] = 0
    BY <1>6 DEF LedgerOK, Stored
  <2> QED
    BY <1>8, <2>4, <2>5 DEF Stored
<1>10. SameTerms(l, k)
  <2>1. Covering(k) \subseteq Covering(l)
    <3>1. st \in {"Active", "Renewed"} => st = l.policy[p].status
      BY DEF st
    <3> QED
      BY <1>5, <1>8, <3>1 DEF Covering
  <2> QED
    BY <1>5, <1>6, <1>8, <2>1 DEF SameTerms
<1>11. Books(k)
  <2>1. ASSUME NEW S, S \subseteq ClaimId
        PROVE  /\ PaidOn(k, S) = PaidOn(l, S) + (IF c \in S THEN x ELSE 0)
               /\ PaidOn(l, S) \in Int
    <3> DEFINE f == l.paidOut
    <3>1. f \in [ClaimId -> Nat] /\ out[c] = f[c] + x /\ \A d \in ClaimId \ {c} : out[d] = f[d]
      BY <1>f, <1>6, <1>z
    <3>2. IsFiniteSet(S)
      BY <2>1, ClaimsFinite, FS_Subset
    <3> HIDE DEF f
    <3>3. /\ SumFunctionOnSet(out, S) = SumFunctionOnSet(f, S) + (IF c \in S THEN x ELSE 0)
          /\ SumFunctionOnSet(f, S) \in Int
      <4>1. \A d \in S : f[d] \in Int
        BY <2>1, <3>1
      <4>2. \A d \in S \ {c} : out[d] = f[d]
        BY <2>1, <3>1
      <4>3. f[c] \in Int /\ out[c] = f[c] + x
        BY <3>1
      <4> QED
        BY <3>2, <4>1, <4>2, <4>3, SumRaise
    <3>4. PaidOn(k, S) = SumFunctionOnSet(out, S) /\ PaidOn(l, S) = SumFunctionOnSet(f, S)
      BY <1>8 DEF PaidOn, f
    <3> QED
      BY <3>3, <3>4
  <2>2. \A q : On(k, q) = On(l, q) /\ On(l, q) \subseteq ClaimId
    BY <1>6, <1>8 DEF On
  <2>3. c \in On(l, p) /\ \A q \in PolicyId \ {p} : c \notin On(l, q)
    BY DEF On, Due
  <2>4. k.claims_paid = PaidOn(k, ClaimId)
    <3>1. l.claims_paid = PaidOn(l, ClaimId)
      BY DEF LedgerOK, Books
    <3>2. PaidOn(k, ClaimId) = PaidOn(l, ClaimId) + x
      BY <2>1
    <3> QED
      BY <3>1, <3>2, <1>8 DEF total
  <2>5. ASSUME NEW q \in PolicyId PROVE k.policy[q].claimed = PaidOn(k, On(k, q))
    <3>1. l.policy[q].claimed = PaidOn(l, On(l, q))
      BY DEF LedgerOK, Books
    <3>2. /\ PaidOn(k, On(k, q)) = PaidOn(l, On(l, q)) + (IF c \in On(l, q) THEN x ELSE 0)
          /\ PaidOn(l, On(l, q)) \in Int
      BY <2>1, <2>2
    <3>3. CASE q = p
      <4>1. PaidOn(k, On(k, q)) = PaidOn(l, On(l, q)) + x
        BY <3>2, <3>3, <2>3
      <4>2. k.policy[q].claimed = l.policy[q].claimed + x
        BY <3>3, <1>5, <1>8 DEF paid
      <4> QED
        BY <3>1, <4>1, <4>2
    <3>4. CASE q # p
      <4>1. PaidOn(k, On(k, q)) = PaidOn(l, On(l, q))
        BY <3>2, <3>4, <2>3
      <4>2. k.policy[q].claimed = l.policy[q].claimed
        BY <3>4, <1>5, <1>8
      <4> QED
        BY <3>1, <4>1, <4>2
    <3> QED
      BY <3>3, <3>4
  <2>6. \A d \in ClaimId : k.claim[d].status = "Pending" => k.paidOut[d] = 0
    BY <1>6, <1>8 DEF LedgerOK, Books
  <2>7. ASSUME NEW d \in ClaimId, k.claim[d].policy \in PolicyId
        PROVE  k.paidOut[d] <= Monus(k.claim[d].amount, k.policy[k.claim[d].policy].deductible)
    <3> DEFINE q == l.claim[d].policy
    <3>1. k.claim[d].policy = q /\ k.claim[d].amount = l.claim[d].amount
      BY <1>6, <1>8
    <3>2. q \in PolicyId /\ k.policy[q].deductible = l.policy[q].deductible
      BY <2>7, <3>1, <1>5, <1>8
    <3>3. CASE d = c
      <4>1. k.paidOut[d] = Monus(l.claim[d].amount, l.policy[q].deductible) /\ k.paidOut[d] \in Nat
        BY <3>3, <1>6, <1>8 DEF Due
      <4> QED
        BY <3>1, <3>2, <4>1
    <3>4. CASE d # c
      <4>1. l.paidOut[d] <= Monus(l.claim[d].amount, l.policy[q].deductible)
        BY <3>2 DEF LedgerOK, Books
      <4> QED
        BY <3>1, <3>2, <3>4, <4>1, <1>6, <1>8
    <3> QED
      BY <3>3, <3>4
  <2> QED
    BY <2>4, <2>5, <2>6, <2>7 DEF Books
<1> QED
  BY <1>7, <1>9, <1>10, <1>11 DEF LedgerOK

(* A payout that is nil, that fails, or that is booked.                    *)
LEMMA PayoutKeeps ==
  ASSUME InsuranceClaimsAssumption, now \in Nat, NEW l, NEW n \in 0 .. MaxPolicies, NEW m \in Nat,
         LedgerOK(l, n, m), NEW c \in ClaimId, c <= m, l.paidOut[c] = 0,
         l.claim[c].policy \in PolicyId,
         l.claim[c].payout = Monus(l.claim[c].amount, l.policy[l.claim[c].policy].deductible),
         NEW k, k = ExecutePayout(l, c)
  PROVE  LedgerOK(k, n, m) /\ SameTerms(l, k)
<1> DEFINE p == l.claim[c].policy
           x == l.claim[c].payout
           r == Reinsured(l, x)
<1>0. p \in PolicyId /\ x \in Nat
  <2>1. l.claim \in [ClaimId -> ClaimRecord]
    BY LedgerFields DEF LedgerOK
  <2> QED
    BY <2>1 DEF ClaimRecord
<1>d. x <= l.available => Due(l, c, p, x)
  BY DEF Due
<1>l. LedgerOK(l, n, m) /\ c <= m
  OBVIOUS
<1> HIDE DEF p, x
<1>r. /\ LedgerOK(r, n, m) /\ SameTerms(l, r)
      /\ r.policy = l.policy /\ r.claim = l.claim /\ r.paidOut = l.paidOut
      /\ r.available = l.available
  BY <1>0, <1>l, Recovering
<1>k. \/ k = l
      \/ k = r
      \/ ~(x > l.available) /\ k = Paying(r, c, p, x)
  <2> HIDE DEF r
  <2>2. k = IF x = 0 THEN l
            ELSE IF x > l.available THEN r
            ELSE [Charged(r, c) EXCEPT
                   !.policy[p].claimed = l.policy[p].claimed + x,
                   !.policy[p].status =
                      IF l.policy[p].claimed + x >= l.policy[p].coverage THEN "Claimed" ELSE @,
                   !.cooldown[p] = now,
                   !.claim[c].status = "Paid",
                   !.paidOut[c] = @ + x]
    BY DEF ExecutePayout, PayoutFails, r, x, p
  <2> QED
    BY <1>r, <2>2 DEF Paying
<1>a. l.available \in Nat
  BY LedgerFields DEF LedgerOK
<1> HIDE DEF r
<1>1. CASE k = l
  BY <1>1, <1>l DEF SameTerms
<1>2. CASE k = r
  BY <1>2, <1>r
<1>3. CASE ~(x > l.available) /\ k = Paying(r, c, p, x)
  <2>1. x <= l.available
    BY <1>0, <1>3, <1>a
  <2>2. Due(r, c, p, x)
    BY <1>d, <1>r, <2>1 DEF Due
  <2>3. LedgerOK(k, n, m) /\ SameTerms(r, k)
    BY <1>0, <1>r, <1>3, <2>2, PayingIsBooked
  <2> QED
    BY <1>r, <2>3, TermsChain
<1> QED
  BY <1>k, <1>1, <1>2, <1>3

(* A decision on a pending claim.                                          *)
LEMMA DecisionKeeps ==
  ASSUME InsuranceClaimsAssumption, now \in Nat, NEW l, NEW n \in 0 .. MaxPolicies, NEW m \in Nat,
         LedgerOK(l, n, m), NEW c \in ClaimId, Decidable(l, c), NEW a,
         NEW k, k = Decide(l, c, a)
  PROVE  LedgerOK(k, n, m) /\ SameTerms(l, k)
<1>0. c <= m
  <2>1. ~(c <= m) => l.claim[c].status = "Absent"
    BY DEF LedgerOK, Stored, NoClaim
  <2> QED
    BY <2>1 DEF Decidable
<1>1. CASE a
  <2> DEFINE j == Approved(l, c)
  <2>1. /\ LedgerOK(j, n, m) /\ SameTerms(l, j)
        /\ j.paidOut[c] = 0 /\ j.claim[c].policy \in PolicyId
        /\ j.claim[c].payout = Monus(j.claim[c].amount, j.policy[j.claim[c].policy].deductible)
    BY <1>0, Approving
  <2>2. k = ExecutePayout(j, c)
    BY <1>1 DEF Decide
  <2> HIDE DEF j
  <2>3. LedgerOK(k, n, m) /\ SameTerms(j, k)
    BY <1>0, <2>1, <2>2, PayoutKeeps
  <2> QED
    BY <2>1, <2>3, TermsChain
<1>2. CASE ~a
  <2>1. k = WithStatus(l, c, "Rejected")
    BY <1>2 DEF Decide, WithStatus
  <2>2. "Rejected" \in ClaimStatus /\ "Rejected" # "Pending"
    BY DEF ClaimStatus
  <2>3. l \in LedgerType
    BY DEF LedgerOK
  <2> QED
    BY <1>0, <2>1, <2>2, <2>3, StatusSet
<1> QED
  BY <1>1, <1>2

(* What decisions leave alone: which policy a claim is on and when it was  *)
(* filed, claims that were decided, and the cooldown of a property none of *)
(* whose claims waits.                                                     *)
Quiet(l, k) ==
  /\ \A c \in ClaimId : /\ k.claim[c].policy = l.claim[c].policy
                        /\ k.claim[c].at = l.claim[c].at
                        /\ l.claim[c].status # "Pending" =>
                             k.claim[c].status # "Pending" /\ k.paidOut[c] = l.paidOut[c]
  /\ \A p \in PolicyId :
       (\A c \in ClaimId : l.claim[c].policy = p => l.claim[c].status # "Pending") =>
         k.cooldown[p] = l.cooldown[p]

(* One after the other.                                                    *)
LEMMA QuietChain == ASSUME NEW l, NEW k, NEW j, Quiet(l, k), Quiet(k, j) PROVE Quiet(l, j)
<1>1. \A c \in ClaimId : /\ j.claim[c].policy = l.claim[c].policy
                         /\ j.claim[c].at = l.claim[c].at
                         /\ l.claim[c].status # "Pending" =>
                              j.claim[c].status # "Pending" /\ j.paidOut[c] = l.paidOut[c]
  BY DEF Quiet
<1>2. ASSUME NEW p \in PolicyId,
             \A c \in ClaimId : l.claim[c].policy = p => l.claim[c].status # "Pending"
      PROVE  j.cooldown[p] = l.cooldown[p]
  <2>1. \A c \in ClaimId : k.claim[c].policy = p => k.claim[c].status # "Pending"
    BY <1>2 DEF Quiet
  <2> QED
    BY <1>2, <2>1 DEF Quiet
<1> QED
  BY <1>1, <1>2 DEF Quiet

(* A decision writes the status of its claim and, with a payout, what was  *)
(* paid on it and the cooldown of its property.                            *)
Wrote(l, k, c) ==
  /\ \A d \in ClaimId \ {c} : k.claim[d] = l.claim[d] /\ k.paidOut[d] = l.paidOut[d]
  /\ k.claim[c].policy = l.claim[c].policy
  /\ k.claim[c].at = l.claim[c].at /\ k.claim[c].status # "Pending"
  /\ \A q \in PolicyId \ {l.claim[c].policy} : k.cooldown[q] = l.cooldown[q]
  /\ \/ k.cooldown = l.cooldown /\ k.paidOut = l.paidOut
     \/ l.claim[c].policy \in PolicyId => k.cooldown[l.claim[c].policy] = now

LEMMA DecisionWrites ==
  ASSUME InsuranceClaimsAssumption, NEW l, NEW n \in 0 .. MaxPolicies, NEW m \in Nat,
         LedgerOK(l, n, m), NEW c \in ClaimId, c <= m, Decidable(l, c), NEW a,
         NEW k, k = Decide(l, c, a)
  PROVE  Wrote(l, k, c)
<1> DEFINE p == l.claim[c].policy
<1>0. l \in LedgerType
  BY DEF LedgerOK
<1>f. l.claim \in [ClaimId -> ClaimRecord] /\ l.cooldown \in [PolicyId -> Nat]
      /\ l.paidOut \in [ClaimId -> Nat]
  BY <1>0, LedgerFields
<1>1. CASE ~a
  <2>1. /\ k.claim = [l.claim EXCEPT ![c].status = "Rejected"]
        /\ k.cooldown = l.cooldown /\ k.paidOut = l.paidOut
    BY <1>0, <1>1 DEF LedgerType, Decide
  <2> QED
    BY <1>f, <2>1 DEF ClaimRecord, Wrote
<1>2. CASE a
  <2> DEFINE j == Approved(l, c)
             x == j.claim[c].payout
             r == Reinsured(j, x)
             due == Monus(l.claim[c].amount, l.policy[p].deductible)
  <2>1. LedgerOK(j, n, m)
    BY Approving
  <2>2. /\ j.claim = [l.claim EXCEPT ![c].status = "Approved", ![c].payout = due]
        /\ j.cooldown = l.cooldown /\ j.paidOut = l.paidOut
    BY <1>0 DEF LedgerType, Approved
  <2> HIDE DEF due
  <2>3. /\ \A d \in ClaimId \ {c} : j.claim[d] = l.claim[d]
        /\ j.claim[c].policy = p /\ j.claim[c].evidence = l.claim[c].evidence
        /\ j.claim[c].at = l.claim[c].at /\ j.claim[c].status = "Approved"
    BY <1>f, <2>2 DEF ClaimRecord
  <2>4. x \in Nat
    <3>1. j.claim \in [ClaimId -> ClaimRecord]
      BY <2>1, LedgerFields DEF LedgerOK
    <3> QED
      BY <3>1 DEF ClaimRecord
  <2>k. k = ExecutePayout(j, c)
    BY <1>2 DEF Decide
  <2> HIDE DEF j
  <2>j. j \in LedgerType
    BY <2>1 DEF LedgerOK
  <2> DEFINE claimed == j.policy[p].claimed + x
             st == IF claimed >= j.policy[p].coverage THEN "Claimed" ELSE r.policy[p].status
  <2>5. \/ k = j
        \/ k = r
        \/ k = [Charged(r, c) EXCEPT !.policy[p].claimed = claimed,
                                     !.policy[p].status =
                                        IF claimed >= j.policy[p].coverage THEN "Claimed" ELSE @,
                                     !.cooldown[p] = now,
                                     !.claim[c].status = "Paid",
                                     !.paidOut[c] = @ + x]
    BY <2>3, <2>k DEF ExecutePayout
  <2>r. r \in LedgerType /\ r.claim = j.claim /\ r.paidOut = j.paidOut /\ r.cooldown = j.cooldown
    <3>1. LedgerOK(r, n, m) /\ r.claim = j.claim /\ r.paidOut = j.paidOut /\ r.cooldown = j.cooldown
      <4> HIDE DEF x
      <4> QED
        BY <2>1, <2>4, Recovering
    <3> QED
      BY <3>1 DEF LedgerOK
  <2> HIDE DEF r, x, claimed
  <2>6. CASE k = j \/ k = r
    <3>1. k.claim = j.claim /\ k.cooldown = l.cooldown /\ k.paidOut = l.paidOut
      BY <2>2, <2>6, <2>r
    <3> QED
      BY ONLY <2>3, <3>1 DEF Wrote
  <2>7. CASE k = [Charged(r, c) EXCEPT !.policy[p].claimed = claimed,
                                     !.policy[p].status =
                                        IF claimed >= j.policy[p].coverage THEN "Claimed" ELSE @,
                                     !.cooldown[p] = now,
                                     !.claim[c].status = "Paid",
                                     !.paidOut[c] = @ + x]
    <3>1. /\ k.claim = [r.claim EXCEPT ![c].status = "Paid"]
          /\ k.cooldown = [r.cooldown EXCEPT ![p] = now]
          /\ k.paidOut = [r.paidOut EXCEPT ![c] = r.paidOut[c] + x]
      BY <2>7, <2>r DEF LedgerType, Charged
    <3>2. r.claim \in [ClaimId -> ClaimRecord] /\ r.cooldown \in [PolicyId -> Nat]
          /\ r.paidOut \in [ClaimId -> Nat]
      BY <2>r, LedgerFields
    <3>3. /\ \A d \in ClaimId \ {c} : k.claim[d] = r.claim[d] /\ k.paidOut[d] = r.paidOut[d]
          /\ k.claim[c].policy = r.claim[c].policy /\ k.claim[c].evidence = r.claim[c].evidence
          /\ k.claim[c].at = r.claim[c].at /\ k.claim[c].status = "Paid"
          /\ \A q \in PolicyId \ {p} : k.cooldown[q] = r.cooldown[q]
          /\ p \in PolicyId => k.cooldown[p] = now
      BY <3>1, <3>2 DEF ClaimRecord
    <3> QED
      BY <2>2, <2>3, <2>r, <3>3 DEF Wrote
  <2> QED
    BY <2>5, <2>6, <2>7
<1> QED
  BY <1>1, <1>2

(* So a decision disturbs nothing that was decided before.                 *)
LEMMA DecisionIsQuiet ==
  ASSUME InsuranceClaimsAssumption, NEW l, NEW n \in 0 .. MaxPolicies, NEW m \in Nat,
         LedgerOK(l, n, m), NEW c \in ClaimId, Decidable(l, c), NEW a, NEW k, k = Decide(l, c, a)
  PROVE  Quiet(l, k)
<1>0. c <= m
  <2>1. ~(c <= m) => l.claim[c].status = "Absent"
    BY DEF LedgerOK, Stored, NoClaim
  <2> QED
    BY <2>1 DEF Decidable
<1>1. /\ \A d \in ClaimId \ {c} : k.claim[d] = l.claim[d] /\ k.paidOut[d] = l.paidOut[d]
      /\ k.claim[c].policy = l.claim[c].policy /\ k.claim[c].at = l.claim[c].at
      /\ k.claim[c].status # "Pending"
      /\ \A q \in PolicyId \ {l.claim[c].policy} : k.cooldown[q] = l.cooldown[q]
  <2>1. Wrote(l, k, c)
    BY <1>0, DecisionWrites
  <2> QED
    BY <2>1 DEF Wrote
<1> QED
  BY <1>1 DEF Quiet, Decidable

(* Decisions on a list of claims, whatever it holds.                       *)
LEMMA BatchKeeps ==
  ASSUME InsuranceClaimsAssumption, now \in Nat, NEW l, NEW n \in 0 .. MaxPolicies, NEW m \in Nat,
         LedgerOK(l, n, m), NEW a, NEW ids \in Seq(Nat), NEW k, k = DecideEach(l, ids, a)
  PROVE  LedgerOK(k, n, m) /\ SameTerms(l, k) /\ Quiet(l, k)
<1> DEFINE S == DOMAIN ids
           Good(j) == LedgerOK(j, n, m) /\ SameTerms(l, j) /\ Quiet(l, j)
<1>0. Numbers(S)
  <2>1. S = 1 .. Len(ids) /\ Len(ids) \in Nat
    OBVIOUS
  <2> QED
    BY <2>1, FS_Interval DEF Numbers
<1>1. PICK h : DecidesUp(h, l, ids, a, S) /\ k = h[S]
  BY BatchDecides
<1>2. ASSUME NEW j, Good(j), NEW c PROVE Good(DecideIfPending(j, c, a))
  <2>1. CASE c \in ClaimId /\ Decidable(j, c)
    <3>1. LedgerOK(Decide(j, c, a), n, m) /\ SameTerms(j, Decide(j, c, a))
      BY <1>2, <2>1, DecisionKeeps
    <3>2. Quiet(j, Decide(j, c, a))
      BY <1>2, <2>1, DecisionIsQuiet
    <3>3. SameTerms(l, Decide(j, c, a)) /\ Quiet(l, Decide(j, c, a))
      BY <1>2, <3>1, <3>2, TermsChain, QuietChain
    <3> QED
      BY <2>1, <3>1, <3>3 DEF DecideIfPending
  <2>2. CASE ~(c \in ClaimId /\ Decidable(j, c))
    BY <1>2, <2>2 DEF DecideIfPending
  <2> QED
    BY <2>1, <2>2
<1>3. Good(l)
  BY DEF SameTerms, Quiet
<1> HIDE DEF S, Good
<1>4. \A s \in SUBSET S : Good(h[s])
  <2> DEFINE B == {s \in SUBSET S : ~Good(h[s])}
  <2>1. SUFFICES ASSUME B # {} PROVE FALSE
    OBVIOUS
  <2>2. PICK s \in B : \A t \in B : t \subseteq s => t = s
    <3>1. B \subseteq SUBSET S /\ IsFiniteSet(S)
      BY <1>0 DEF Numbers
    <3> HIDE DEF B
    <3> QED
      BY <2>1, <3>1, MinimalSubset
  <2>3. h[s] = IF s = {} THEN l ELSE DecideIfPending(h[s \ {Max(s)}], ids[Max(s)], a)
    BY <1>1 DEF DecidesUp
  <2>4. s # {}
    BY <1>3, <2>3
  <2>5. Max(s) \in s
    <3>1. Numbers(s)
      BY <1>0, NumbersBelow
    <3> QED
      BY <2>4, <3>1, MaxIn
  <2>6. Good(h[s \ {Max(s)}])
    BY <2>2, <2>5
  <2>7. Good(h[s])
    BY <1>2, <2>3, <2>4, <2>6
  <2> QED
    BY <2>7
<1> QED
  BY <1>1, <1>4 DEF Good

(* Other policies, and what they leave in the pool.                        *)
WithPolicies(l, pol, v) == [l EXCEPT !.policy = pol, !.available = v]

(* Writing policies: what was claimed of each, and the deductibles that    *)
(* claims rest on, stay.                                                   *)
LEMMA PoliciesWritten ==
  ASSUME InsuranceClaimsAssumption, NEW l, NEW n \in 0 .. MaxPolicies, NEW m \in Nat,
         LedgerOK(l, n, m), NEW pol \in [PolicyId -> PolicyRecord], NEW v \in Nat,
         NEW n2 \in n .. MaxPolicies,
         \A p \in PolicyId : pol[p].claimed = l.policy[p].claimed,
         \A p \in PolicyId : p <= n => pol[p].deductible = l.policy[p].deductible,
         \A p \in PolicyId : p > n2 => pol[p] = NoPolicy,
         NEW k, k = WithPolicies(l, pol, v)
  PROVE  LedgerOK(k, n2, m) /\ k.claim = l.claim /\ k.policy = pol
<1>0. l \in LedgerType
  BY DEF LedgerOK
<1>1. /\ k.policy = pol /\ k.claim = l.claim /\ k.paidOut = l.paidOut /\ k.claims_paid = l.claims_paid
      /\ k \in LedgerType
  BY <1>0 DEF LedgerType, PolicyRecord, WithPolicies
<1>2. \A p : On(k, p) = On(l, p)
  BY <1>1 DEF On
<1>3. \A S : PaidOn(k, S) = PaidOn(l, S)
  BY <1>1 DEF PaidOn
<1>c. \A c \in ClaimId : IF c <= m THEN l.claim[c].policy \in 1 .. n
                         ELSE l.claim[c] = NoClaim /\ l.paidOut[c] = 0
  BY DEF LedgerOK, Stored
<1>4. Stored(k, n2, m)
  <2>1. \A c \in ClaimId : IF c <= m THEN l.claim[c].policy \in 1 .. n2
                           ELSE l.claim[c] = NoClaim /\ l.paidOut[c] = 0
    <3>1. n \in Int /\ n2 \in Int /\ n <= n2
      BY CoverConstants
    <3>2. 1 .. n \subseteq 1 .. n2
      BY <3>1
    <3> QED
      BY <1>c, <3>2
  <2> QED
    BY <1>1, <2>1 DEF Stored
<1>5. \A p \in PolicyId : k.policy[p].claimed = PaidOn(k, On(k, p))
  <2>1. \A p \in PolicyId : l.policy[p].claimed = PaidOn(l, On(l, p))
    BY DEF LedgerOK, Books
  <2> QED
    BY <1>1, <1>2, <1>3, <2>1
<1>6. \A c \in ClaimId : k.claim[c].status = "Pending" => k.paidOut[c] = 0
  BY <1>1 DEF LedgerOK, Books
<1>7. k.claims_paid = PaidOn(k, ClaimId)
  BY <1>1, <1>3 DEF LedgerOK, Books
<1>8. ASSUME NEW c \in ClaimId, k.claim[c].policy \in PolicyId
      PROVE  k.paidOut[c] <= Monus(k.claim[c].amount, k.policy[k.claim[c].policy].deductible)
  <2> DEFINE p == l.claim[c].policy
  <2>1. p \in PolicyId
    BY <1>1, <1>8
  <2>2. p <= n
    <3>1. ~(c <= m) => p = 0
      BY <1>c DEF NoClaim
    <3>2. p # 0
      BY <2>1 DEF PolicyId
    <3>3. c <= m => p \in 1 .. n
      BY <1>c
    <3> HIDE DEF p
    <3> QED
      BY <3>1, <3>2, <3>3
  <2>3. l.paidOut[c] <= Monus(l.claim[c].amount, l.policy[p].deductible)
    BY <2>1 DEF LedgerOK, Books
  <2> QED
    BY <1>1, <2>1, <2>2, <2>3
<1> QED
  BY <1>1, <1>4, <1>5, <1>6, <1>7, <1>8 DEF LedgerOK, Books

(* Another record of a claim.                                              *)
WithClaim(l, c, r) == [l EXCEPT !.claim[c] = r]

(* Filing the next claim, with nothing paid on it.                         *)
LEMMA ClaimFiled ==
  ASSUME InsuranceClaimsAssumption, NEW l, NEW n \in 0 .. MaxPolicies, NEW m \in Nat,
         LedgerOK(l, n, m), NEW c \in ClaimId, c = m + 1, NEW r \in ClaimRecord,
         r.policy \in 1 .. n, NEW k, k = WithClaim(l, c, r)
  PROVE  /\ LedgerOK(k, n, c) /\ k.policy = l.policy
         /\ k.claim[c] = r /\ \A d \in ClaimId \ {c} : k.claim[d] = l.claim[d]
<1>0. l \in LedgerType
  BY DEF LedgerOK
<1>f. l.claim \in [ClaimId -> ClaimRecord] /\ l.paidOut \in [ClaimId -> Nat]
  BY <1>0, LedgerFields
<1>1. /\ k.policy = l.policy /\ k.paidOut = l.paidOut /\ k.claims_paid = l.claims_paid
      /\ k.claim = [l.claim EXCEPT ![c] = r] /\ k \in LedgerType
  BY <1>0 DEF LedgerType, ClaimRecord, WithClaim
<1>2. k.claim[c] = r /\ \A d \in ClaimId \ {c} : k.claim[d] = l.claim[d]
  BY <1>1, <1>f
<1>n. l.claim[c] = NoClaim /\ l.paidOut[c] = 0
  BY DEF LedgerOK, Stored
<1>3. \A S : PaidOn(k, S) = PaidOn(l, S)
  BY <1>1 DEF PaidOn
<1>4. Stored(k, n, m + 1)
  BY <1>1, <1>2 DEF LedgerOK, Stored, ClaimId
<1>5. ASSUME NEW p \in PolicyId PROVE k.policy[p].claimed = PaidOn(k, On(k, p))
  <2>0. l.policy[p].claimed = PaidOn(l, On(l, p))
    BY DEF LedgerOK, Books
  <2>1. c \notin On(l, p)
    <3>1. p # 0
      BY CoverConstants DEF PolicyId
    <3> QED
      BY <1>n, <3>1 DEF On, NoClaim
  <2>2. CASE r.policy # p
    <3>1. On(k, p) = On(l, p)
      BY <1>2, <2>1, <2>2 DEF On
    <3> QED
      BY <1>1, <1>3, <2>0, <3>1
  <2>3. CASE r.policy = p
    <3> DEFINE S == On(l, p)
               f == l.paidOut
    <3>1. On(k, p) = S \union {c}
      BY <1>2, <2>3 DEF On
    <3>2. IsFiniteSet(S)
      <4>1. S \subseteq ClaimId
        BY DEF On
      <4> QED
        BY <4>1, ClaimsFinite, FS_Subset
    <3>3. (\A d \in S \union {c} : f[d] \in Int) /\ f[c] = 0
      BY <1>f, <1>n DEF On
    <3>4. c \notin S
      BY <2>1
    <3>5. PaidOn(l, S) = SumFunctionOnSet(f, S) /\ PaidOn(k, S \union {c}) = SumFunctionOnSet(f, S \union {c})
      BY <1>1 DEF PaidOn
    <3> HIDE DEF S, f
    <3>6. SumFunctionOnSet(f, S \union {c}) = SumFunctionOnSet(f, S) + f[c] /\ SumFunctionOnSet(f, S) \in Int
      BY <3>2, <3>3, <3>4, SumAdd, SumRemove
    <3>7. SumFunctionOnSet(f, S \union {c}) = SumFunctionOnSet(f, S)
      BY <3>3, <3>6
    <3> QED
      BY <1>1, <2>0, <3>1, <3>5, <3>7 DEF S
  <2> QED
    BY <2>2, <2>3
<1>6. \A d \in ClaimId : k.claim[d].status = "Pending" => k.paidOut[d] = 0
  BY <1>1, <1>2, <1>n DEF LedgerOK, Books
<1>7. k.claims_paid = PaidOn(k, ClaimId)
  BY <1>1, <1>3 DEF LedgerOK, Books
<1>8. ASSUME NEW d \in ClaimId, k.claim[d].policy \in PolicyId
      PROVE  k.paidOut[d] <= Monus(k.claim[d].amount, k.policy[k.claim[d].policy].deductible)
  <2>1. CASE d = c
    <3>1. r.amount \in Nat /\ l.policy[r.policy].deductible \in Nat
      <4>1. r.policy \in PolicyId /\ l.policy \in [PolicyId -> PolicyRecord]
        BY <1>0, <1>2, <1>8, <2>1, LedgerFields
      <4> QED
        BY <4>1 DEF ClaimRecord, PolicyRecord
    <3>2. 0 <= Monus(r.amount, l.policy[r.policy].deductible)
      BY <3>1 DEF Monus
    <3> QED
      BY <1>1, <1>2, <1>n, <2>1, <3>2
  <2>2. CASE d # c
    BY <1>1, <1>2, <1>8, <2>2 DEF LedgerOK, Books
  <2> QED
    BY <2>1, <2>2
<1>9. LedgerOK(k, n, m + 1)
  BY <1>1, <1>2, <1>4, <1>5, <1>6, <1>7, <1>8 DEF LedgerOK, Books
<1> QED
  BY <1>1, <1>2, <1>9

-----------------------------------------------------------------------------
(* The contract starts with empty books.                                   *)
LEMMA InitCover == InsuranceClaimsAssumption /\ CoverInit => CoverIInv
<1> SUFFICES ASSUME InsuranceClaimsAssumption, CoverInit PROVE CoverIInv
  OBVIOUS
<1> DEFINE pol == [p \in PolicyId |-> NoPolicy]
           cl == [c \in ClaimId |-> NoClaim]
           none == [c \in ClaimId |-> 0]
           cool == [p \in PolicyId |-> 0]
<1>1. ledger = [policy |-> pol, claim |-> cl, cooldown |-> cool, available |-> Capital,
                claims_paid |-> 0, recovered |-> 0, paidOut |-> none]
  BY DEF CoverInit
<1>2. ledger \in LedgerType
  <2>1. pol \in [PolicyId -> PolicyRecord]
    BY DEF PolicyRecord, NoPolicy, PolicyStatus
  <2>2. 0 \in 0 .. MaxPolicies
    BY CoverConstants
  <2>3. cl \in [ClaimId -> ClaimRecord]
    BY <2>2 DEF ClaimRecord, NoClaim, ClaimStatus
  <2>4. none \in [ClaimId -> Nat] /\ cool \in [PolicyId -> Nat] /\ Capital \in Nat
    BY CoverConstants
  <2> HIDE DEF pol, cl, none, cool
  <2> QED
    BY <1>1, <2>1, <2>3, <2>4 DEF LedgerType, PolicyRecord, ClaimRecord
<1>3. /\ ledger.policy = pol /\ ledger.claim = cl /\ ledger.paidOut = none
      /\ ledger.claims_paid = 0
  BY <1>1
<1>4. Stored(ledger, 0, 0)
  BY <1>3, CoverConstants DEF Stored, PolicyId, ClaimId
<1>5. \A S : S \subseteq ClaimId => PaidOn(ledger, S) = 0
  <2>1. ASSUME NEW S, S \subseteq ClaimId PROVE PaidOn(ledger, S) = 0
    <3>1. IsFiniteSet(S) /\ \A c \in S : none[c] = 0
      BY <2>1, ClaimsFinite, FS_Subset
    <3>2. PaidOn(ledger, S) = SumFunctionOnSet(none, S)
      BY <1>3 DEF PaidOn
    <3> HIDE DEF none
    <3> QED
      BY <3>1, <3>2, SumZero
  <2> QED
    BY <2>1
<1>6. Books(ledger)
  <2>1. \A p \in PolicyId : ledger.policy[p].claimed = PaidOn(ledger, On(ledger, p))
    BY <1>3, <1>5 DEF On, NoPolicy
  <2>2. \A c \in ClaimId : ledger.claim[c].policy \notin PolicyId
    BY <1>3, CoverConstants DEF NoClaim, PolicyId
  <2> QED
    BY <1>3, <1>5, <2>1, <2>2 DEF Books, NoClaim
<1>7. Cardinality(Covering(ledger)) = 0
  <2>1. Covering(ledger) = {}
    BY <1>3 DEF Covering, NoPolicy
  <2> QED
    BY <2>1, FS_EmptySet
<1>8. CoverTypeOK
  <2>n. /\ 0 \in 0 .. MaxPolicies /\ 0 \in 0 .. MaxClaims /\ 0 \in 0 .. MaxTime
        /\ StartTime \in StartTime .. MaxTime
    BY CoverConstants
  <2>1. /\ now \in StartTime .. MaxTime /\ paused \in BOOLEAN
        /\ policyCount \in 0 .. MaxPolicies /\ claimCount \in 0 .. MaxClaims
        /\ activePolicies \in 0 .. MaxPolicies
    BY <2>n DEF CoverInit
  <2>3. callerLast \in [Holders -> 0 .. MaxTime] /\ callerNonce \in [Holders -> 0 .. MaxClaims]
    BY <2>n DEF CoverInit
  <2>4. usedEvidence \subseteq PolicyId \X EvidenceTypes
    BY DEF CoverInit
  <2>2. token \in [PolicyId -> [owner : Holders \union {NoHolder}, listed : BOOLEAN]]
    BY DEF CoverInit
  <2> QED
    BY <1>2, <2>1, <2>2, <2>3, <2>4 DEF CoverTypeOK
<1>9. TokenFollowsPolicy /\ EvidenceNoted /\ SpentOnce
  <2>1. TokenFollowsPolicy
    BY <1>3 DEF TokenFollowsPolicy, CoverInit, Policy, NoPolicy
  <2>2. claimCount = 0
    BY DEF CoverInit
  <2>3. EvidenceNoted /\ SpentOnce
    BY <2>2, CoverConstants DEF EvidenceNoted, SpentOnce, Standard, ClaimId
  <2> QED
    BY <2>1, <2>3
<1>10. /\ policyCount = 0 /\ claimCount = 0 /\ activePolicies = 0
       /\ \A h \in Holders : callerNonce[h] <= claimCount
       /\ \A p \in PolicyId : p > policyCount => token[p] = [owner |-> NoHolder, listed |-> FALSE]
  BY DEF CoverInit
<1>11. LedgerOK(ledger, policyCount, claimCount)
  BY <1>2, <1>4, <1>6, <1>10 DEF LedgerOK
<1>12. activePolicies <= policyCount /\ activePolicies >= Cardinality(Covering(ledger))
  BY <1>7, <1>10
<1> QED
  BY <1>8, <1>9, <1>10, <1>11, <1>12 DEF CoverIInv

(* The terms of claims and policies carry the evidence rule.               *)
LEMMA EvidenceKept ==
  ASSUME InsuranceClaimsAssumption, CoverIInv, claimCount' = claimCount, usedEvidence' = usedEvidence,
         \A p \in 1 .. policyCount : ledger'.policy[p].kind = ledger.policy[p].kind,
         \A c \in ClaimId : /\ ledger'.claim[c].policy = ledger.claim[c].policy
                            /\ ledger'.claim[c].evidence = ledger.claim[c].evidence
  PROVE  EvidenceNoted' /\ SpentOnce'
<1>1. \A c \in ClaimId : c <= claimCount => ledger.claim[c].policy \in 1 .. policyCount
  BY DEF CoverIInv, LedgerOK, Stored
<1>2. \A c \in ClaimId : Standard(c)' = Standard(c)
  BY <1>1 DEF Standard, Policy, Claim
<1>3. \A c \in 1 .. claimCount : c \in ClaimId
  BY CoverConstants DEF CoverIInv, CoverTypeOK, ClaimId
<1>4. EvidenceNoted'
  BY <1>1, <1>3 DEF CoverIInv, EvidenceNoted, Policy, Claim
<1>5. SpentOnce'
  BY <1>2 DEF CoverIInv, SpentOnce, Claim
<1> QED
  BY <1>4, <1>5

(* A step that writes claims under the same terms, and nothing else.       *)
LEMMA SettledKeeps ==
  ASSUME InsuranceClaimsAssumption, CoverIInv,
         LedgerOK(ledger', policyCount, claimCount), SameTerms(ledger, ledger'),
         now' \in StartTime .. MaxTime, paused' \in BOOLEAN,
         UNCHANGED <<submission, issue>>
  PROVE  CoverIInv'
<1>1. /\ claimCount' = claimCount /\ policyCount' = policyCount /\ usedEvidence' = usedEvidence
      /\ callerLast' = callerLast /\ callerNonce' = callerNonce
      /\ activePolicies' = activePolicies /\ token' = token
  BY DEF submission, issue
<1>2. /\ CoverTypeOK /\ activePolicies \in Nat /\ activePolicies >= Cardinality(Covering(ledger))
  BY CoverConstants DEF CoverIInv, CoverTypeOK
<1>3. CoverTypeOK'
  BY <1>1, <1>2 DEF CoverTypeOK, LedgerOK
<1>4. EvidenceNoted' /\ SpentOnce'
  <2>1. \A p \in 1 .. policyCount : p \in PolicyId
    BY <1>2, CoverConstants DEF CoverTypeOK, PolicyId
  <2> QED
    BY <1>1, <2>1, EvidenceKept DEF SameTerms
<1>5. activePolicies' >= Cardinality(Covering(ledger'))
  <2>1. IsFiniteSet(Covering(ledger))
    BY ClaimsFinite, FS_Subset DEF Covering
  <2>2. /\ Cardinality(Covering(ledger')) <= Cardinality(Covering(ledger))
        /\ Cardinality(Covering(ledger')) \in Nat /\ Cardinality(Covering(ledger)) \in Nat
    <3> DEFINE S == Covering(ledger)
               T == Covering(ledger')
    <3>1. T \subseteq S /\ IsFiniteSet(S)
      BY <2>1 DEF SameTerms
    <3> HIDE DEF S, T
    <3>2. Cardinality(T) <= Cardinality(S) /\ IsFiniteSet(T)
      BY <3>1, FS_Subset
    <3>3. Cardinality(T) \in Nat /\ Cardinality(S) \in Nat
      BY <3>1, <3>2, FS_CardinalityType
    <3> QED
      BY <3>2, <3>3 DEF S, T
  <2> QED
    BY <1>1, <1>2, <2>2
<1>6. TokenFollowsPolicy'
  BY <1>1 DEF CoverIInv, TokenFollowsPolicy, SameTerms, Policy
<1> QED
  BY <1>1, <1>3, <1>4, <1>5, <1>6 DEF CoverIInv

(* What every step may rely on.                                            *)
LEMMA CoverFacts ==
  ASSUME InsuranceClaimsAssumption, CoverIInv
  PROVE  /\ policyCount \in 0 .. MaxPolicies /\ claimCount \in 0 .. MaxClaims
         /\ policyCount \in Nat /\ claimCount \in Nat /\ activePolicies \in Nat
         /\ LedgerOK(ledger, policyCount, claimCount) /\ ledger \in LedgerType
         /\ ledger.policy \in [PolicyId -> PolicyRecord] /\ ledger.claim \in [ClaimId -> ClaimRecord]
         /\ ledger.available \in Nat
         /\ now \in StartTime .. MaxTime /\ now \in Nat /\ paused \in BOOLEAN
         /\ \A p \in PolicyId : p > policyCount => ledger.policy[p] = NoPolicy
         /\ IsFiniteSet(Covering(ledger)) /\ Cardinality(Covering(ledger)) \in Nat
<1>1. IsFiniteSet(Covering(ledger))
  BY ClaimsFinite, FS_Subset DEF Covering
<1>2. Cardinality(Covering(ledger)) \in Nat
  BY <1>1, FS_CardinalityType
<1>3. ledger \in LedgerType
  BY DEF CoverIInv, LedgerOK
<1> QED
  BY <1>1, <1>2, <1>3, LedgerFields, CoverConstants DEF CoverIInv, CoverTypeOK, LedgerOK, Stored

(* What a batch takes from a list of ids.                                  *)
LEMMA BatchTaken ==
  ASSUME InsuranceClaimsAssumption, NEW ids \in BatchLists
  PROVE  SubSeq(ids, 1, Least(Len(ids), MAX_BATCH_SIZE)) \in Seq(Nat)
<1> DEFINE n == Least(Len(ids), MAX_BATCH_SIZE)
<1>1. ids \in Seq(Nat) /\ MAX_BATCH_SIZE \in Nat
  BY CoverConstants
<1>2. n \in 0 .. Len(ids)
  BY <1>1 DEF Least
<1> HIDE DEF n
<1>3. SubSeq(ids, 1, n) \in Seq(Nat)
  BY <1>1, <1>2
<1> QED
  BY <1>3 DEF n

(* Decisions, disputes, the pause and the clock.                           *)
LEMMA DecideSteps ==
  ASSUME InsuranceClaimsAssumption, CoverIInv,
         \/ \E c \in ClaimId : MoveToDispute(c) \/ \E a \in BOOLEAN : ProcessClaim(c, a)
         \/ \E ids \in BatchLists, a \in BOOLEAN : ProcessBatch(ids, a)
         \/ \E b \in BOOLEAN : PauseCover(b)
         \/ CoverTick
         \/ UNCHANGED coverVars
  PROVE  CoverIInv'
<1>f. /\ policyCount \in 0 .. MaxPolicies /\ claimCount \in Nat /\ ledger \in LedgerType
      /\ LedgerOK(ledger, policyCount, claimCount)
      /\ now \in StartTime .. MaxTime /\ now \in Nat /\ paused \in BOOLEAN
  BY CoverFacts
<1>1. ASSUME NEW c \in ClaimId, MoveToDispute(c) PROVE CoverIInv'
  <2>1. /\ ledger' = WithStatus(ledger, c, "Disputed") /\ c <= claimCount
        /\ UNCHANGED <<now, paused, submission, issue>>
    BY <1>1 DEF MoveToDispute, WithStatus
  <2>2. "Disputed" \in ClaimStatus /\ "Disputed" # "Pending"
    BY DEF ClaimStatus
  <2>3. LedgerOK(ledger', policyCount, claimCount) /\ SameTerms(ledger, ledger')
    BY <1>f, <2>1, <2>2, StatusSet
  <2> QED
    BY <1>f, <2>1, <2>3, SettledKeeps
<1>2. ASSUME NEW c \in ClaimId, NEW a \in BOOLEAN, ProcessClaim(c, a) PROVE CoverIInv'
  <2>1. /\ ledger' = Decide(ledger, c, a) /\ Decidable(ledger, c)
        /\ UNCHANGED <<now, paused, submission, issue>>
    BY <1>2 DEF ProcessClaim
  <2>2. LedgerOK(ledger', policyCount, claimCount) /\ SameTerms(ledger, ledger')
    BY <1>f, <2>1, DecisionKeeps
  <2> QED
    BY <1>f, <2>1, <2>2, SettledKeeps
<1>3. ASSUME NEW ids \in BatchLists, NEW a \in BOOLEAN, ProcessBatch(ids, a) PROVE CoverIInv'
  <2> DEFINE taken == SubSeq(ids, 1, Least(Len(ids), MAX_BATCH_SIZE))
  <2>1. ledger' = DecideEach(ledger, taken, a) /\ UNCHANGED <<now, paused, submission, issue>>
    BY <1>3 DEF ProcessBatch
  <2>2. taken \in Seq(Nat)
    BY BatchTaken
  <2> HIDE DEF taken
  <2>3. LedgerOK(ledger', policyCount, claimCount) /\ SameTerms(ledger, ledger')
    BY <1>f, <2>1, <2>2, BatchKeeps
  <2> QED
    BY <1>f, <2>1, <2>3, SettledKeeps
<1>4. ASSUME ledger' = ledger, now' \in StartTime .. MaxTime, paused' \in BOOLEAN,
             UNCHANGED <<submission, issue>>
      PROVE  CoverIInv'
  <2>1. LedgerOK(ledger', policyCount, claimCount) /\ SameTerms(ledger, ledger')
    BY <1>f, <1>4 DEF SameTerms
  <2> QED
    BY <1>4, <2>1, SettledKeeps
<1>5. ASSUME NEW b \in BOOLEAN, PauseCover(b) PROVE CoverIInv'
  <2>1. ledger' = ledger /\ now' = now /\ paused' \in BOOLEAN /\ UNCHANGED <<submission, issue>>
    BY <1>5 DEF PauseCover
  <2> QED
    BY <1>f, <1>4, <2>1
<1>6. CASE CoverTick
  <2>1. ledger' = ledger /\ paused' = paused /\ UNCHANGED <<submission, issue>>
    BY <1>6 DEF CoverTick
  <2>2. now' \in StartTime .. MaxTime
    BY <1>6, <1>f, CoverConstants DEF CoverTick, BlockTime
  <2> QED
    BY <1>f, <1>4, <2>1, <2>2
<1>7. CASE UNCHANGED coverVars
  <2>1. ledger' = ledger /\ now' = now /\ paused' = paused /\ UNCHANGED <<submission, issue>>
    BY <1>7 DEF coverVars
  <2> QED
    BY <1>f, <1>4, <2>1
<1> QED
  BY <1>1, <1>2, <1>3, <1>5, <1>6, <1>7

(* A step that writes policies, seen through its primed ledger.            *)
LEMMA PoliciesStep ==
  ASSUME InsuranceClaimsAssumption, CoverIInv, NEW pol \in [PolicyId -> PolicyRecord], NEW v \in Nat,
         policyCount' \in policyCount .. MaxPolicies, claimCount' = claimCount,
         \A p \in PolicyId : pol[p].claimed = ledger.policy[p].claimed,
         \A p \in PolicyId : p <= policyCount => pol[p].deductible = ledger.policy[p].deductible,
         \A p \in PolicyId : p > policyCount' => pol[p] = NoPolicy,
         ledger' = WithPolicies(ledger, pol, v)
  PROVE  /\ LedgerOK(ledger', policyCount', claimCount')
         /\ ledger'.claim = ledger.claim /\ ledger'.policy = pol
<1> DEFINE l == ledger
           k == ledger'
           n == policyCount
           n2 == policyCount'
           m == claimCount
<1>1. /\ n \in 0 .. MaxPolicies /\ m \in Nat /\ LedgerOK(l, n, m) /\ l \in LedgerType
  BY CoverFacts
<1>2. /\ n2 \in n .. MaxPolicies
      /\ \A p \in PolicyId : pol[p].claimed = l.policy[p].claimed
      /\ \A p \in PolicyId : p <= n => pol[p].deductible = l.policy[p].deductible
      /\ \A p \in PolicyId : p > n2 => pol[p] = NoPolicy
      /\ k = WithPolicies(l, pol, v)
  OBVIOUS
<1>3. m = claimCount'
  OBVIOUS
<1> HIDE DEF l, k, n, n2, m
<1>4. LedgerOK(k, n2, m) /\ k.claim = l.claim /\ k.policy = pol
  BY <1>1, <1>2, PoliciesWritten
<1> QED
  BY <1>3, <1>4 DEF l, k, n2

(* Renewal keeps a policy in force, with its terms.                        *)
LEMMA RenewStep ==
  ASSUME InsuranceClaimsAssumption, CoverIInv, NEW p \in PolicyId, NEW d \in Durations,
         RenewPolicy(p, d)
  PROVE  CoverIInv'
<1> DEFINE v == ledger.available + PremiumShare
           e == ledger.policy[p].end + d
           pol == [ledger.policy EXCEPT ![p].end = e, ![p].status = "Renewed"]
<1>f. /\ policyCount \in 0 .. MaxPolicies /\ claimCount \in Nat /\ ledger \in LedgerType
      /\ LedgerOK(ledger, policyCount, claimCount)
      /\ ledger.policy \in [PolicyId -> PolicyRecord] /\ ledger.available \in Nat
      /\ now \in StartTime .. MaxTime /\ paused \in BOOLEAN
      /\ \A q \in PolicyId : q > policyCount => ledger.policy[q] = NoPolicy
  BY CoverFacts
<1>0. policyCount \in policyCount .. MaxPolicies
  BY CoverFacts, CoverConstants
<1>1. v \in Nat /\ e \in Nat
  <2>1. ledger.policy[p].end \in Nat
    BY <1>f DEF PolicyRecord
  <2>2. d \in Nat /\ PremiumShare \in Nat
    BY CoverConstants
  <2> QED
    BY <1>f, <2>1, <2>2
<1>2. ledger' = WithPolicies(ledger, pol, v)
  BY <1>f DEF RenewPolicy, LedgerType, WithPolicies
<1>s. ledger.policy[p].status \in {"Active", "Renewed"}
      /\ UNCHANGED <<now, paused, submission, issue>>
  BY DEF RenewPolicy, Renewable, Policy
<1> HIDE DEF v, e
<1>3. pol \in [PolicyId -> PolicyRecord]
  BY <1>f, <1>1 DEF PolicyRecord, PolicyStatus
<1>4. /\ \A q \in PolicyId \ {p} : pol[q] = ledger.policy[q]
      /\ pol[p].claimed = ledger.policy[p].claimed /\ pol[p].deductible = ledger.policy[p].deductible
      /\ pol[p].holder = ledger.policy[p].holder /\ pol[p].kind = ledger.policy[p].kind
  BY <1>f DEF PolicyRecord
<1> HIDE DEF pol
<1>5. ~(p > policyCount)
  BY <1>f, <1>s DEF NoPolicy
<1>6. /\ LedgerOK(ledger', policyCount, claimCount)
      /\ ledger'.claim = ledger.claim /\ ledger'.policy = pol
  <2>1. /\ \A q \in PolicyId : pol[q].claimed = ledger.policy[q].claimed
        /\ \A q \in PolicyId : q <= policyCount => pol[q].deductible = ledger.policy[q].deductible
        /\ \A q \in PolicyId : q > policyCount => pol[q] = NoPolicy
    BY <1>f, <1>4, <1>5
  <2>2. policyCount' = policyCount /\ claimCount' = claimCount
    BY <1>s DEF submission, issue
  <2> QED
    BY <1>0, <1>1, <1>2, <1>3, <2>1, <2>2, PoliciesStep
<1>7. SameTerms(ledger, ledger')
  <2>1. \A q \in PolicyId : pol[q].status \in {"Active", "Renewed"} =>
                              ledger.policy[q].status \in {"Active", "Renewed"}
    BY <1>4, <1>s
  <2> QED
    BY <1>4, <1>6, <2>1 DEF SameTerms, Covering
<1> QED
  BY <1>f, <1>s, <1>6, <1>7, SettledKeeps

(* Some policies under another status.                                     *)
Lapsed(l, gone, st) ==
  [l EXCEPT !.policy = [p \in PolicyId |-> IF p \in gone THEN [l.policy[p] EXCEPT !.status = st]
                                                         ELSE l.policy[p]]]

(* Policies that lapse leave the count they were in.                       *)
LEMMA LapseStep ==
  ASSUME InsuranceClaimsAssumption, CoverIInv, NEW gone, gone \subseteq Covering(ledger),
         NEW st \in PolicyStatus \ {"Active", "Renewed"},
         ledger' = Lapsed(ledger, gone, st),
         activePolicies' = Monus(activePolicies, Cardinality(gone)),
         UNCHANGED <<now, paused, submission, policyCount, token>>
  PROVE  CoverIInv'
<1> DEFINE pol == [p \in PolicyId |-> IF p \in gone THEN [ledger.policy[p] EXCEPT !.status = st]
                                                    ELSE ledger.policy[p]]
           F == Covering(ledger)
<1>f. /\ policyCount \in 0 .. MaxPolicies /\ claimCount \in Nat /\ ledger \in LedgerType
      /\ ledger.policy \in [PolicyId -> PolicyRecord] /\ ledger.available \in Nat
      /\ activePolicies \in Nat
      /\ \A q \in PolicyId : q > policyCount => ledger.policy[q] = NoPolicy
      /\ IsFiniteSet(F) /\ Cardinality(F) \in Nat /\ CoverTypeOK
      /\ activePolicies <= policyCount /\ activePolicies >= Cardinality(F)
  BY CoverFacts DEF CoverIInv
<1>0. policyCount \in policyCount .. MaxPolicies
  BY CoverFacts, CoverConstants
<1>u. /\ now' = now /\ paused' = paused /\ policyCount' = policyCount /\ claimCount' = claimCount
      /\ token' = token /\ callerLast' = callerLast /\ callerNonce' = callerNonce
      /\ usedEvidence' = usedEvidence
  BY DEF submission
<1>1. ledger' = WithPolicies(ledger, pol, ledger.available)
  BY <1>f DEF LedgerType, WithPolicies, Lapsed
<1>g. \A q \in gone : q \in PolicyId /\ ~(q > policyCount)
  BY <1>f DEF Covering, NoPolicy
<1>2. pol \in [PolicyId -> PolicyRecord]
  BY <1>f DEF PolicyRecord
<1>3. \A q \in PolicyId : /\ pol[q].claimed = ledger.policy[q].claimed
                          /\ pol[q].deductible = ledger.policy[q].deductible
                          /\ pol[q].holder = ledger.policy[q].holder
                          /\ pol[q].kind = ledger.policy[q].kind
                          /\ pol[q].status = IF q \in gone THEN st ELSE ledger.policy[q].status
                          /\ q \notin gone => pol[q] = ledger.policy[q]
  BY <1>f DEF PolicyRecord
<1> HIDE DEF pol, F
<1>4. /\ LedgerOK(ledger', policyCount, claimCount)
      /\ ledger'.claim = ledger.claim /\ ledger'.policy = pol
  <2>1. \A q \in PolicyId : q > policyCount => pol[q] = NoPolicy
    BY <1>f, <1>3, <1>g
  <2> QED
    BY <1>f, <1>0, <1>1, <1>2, <1>3, <1>u, <2>1, PoliciesStep
<1>5. Covering(ledger') = F \ gone
  BY <1>3, <1>4 DEF Covering, F
<1>6. /\ IsFiniteSet(gone) /\ Cardinality(gone) \in Nat
      /\ Cardinality(F \ gone) = Cardinality(F) - Cardinality(gone)
  <2>1. gone \subseteq F /\ IsFiniteSet(gone)
    BY <1>f, FS_Subset DEF F
  <2>2. Cardinality(F \ gone) = Cardinality(F) - Cardinality(F \cap gone)
    BY <1>f, <2>1, FS_Difference
  <2>3. F \cap gone = gone
    BY <2>1
  <2> QED
    BY <2>1, <2>2, <2>3, FS_CardinalityType
<1>a. activePolicies' = Monus(activePolicies, Cardinality(gone))
  OBVIOUS
<1>7. /\ activePolicies' \in Nat /\ activePolicies' <= policyCount
      /\ activePolicies' >= Cardinality(Covering(ledger'))
  <2> DEFINE g == Cardinality(gone)
             n == Cardinality(F)
             r == Cardinality(F \ gone)
  <2>1. g \in Nat /\ r = n - g /\ n \in Nat /\ activePolicies >= n
    BY <1>f, <1>6
  <2>2. activePolicies' = Monus(activePolicies, g)
    BY <1>a
  <2>3. Cardinality(Covering(ledger')) = r
    BY <1>5
  <2> HIDE DEF g, n, r
  <2> QED
    BY <1>f, <2>1, <2>2, <2>3 DEF Monus
<1>8. CoverTypeOK'
  <2>1. activePolicies' \in 0 .. MaxPolicies
    BY <1>7, <1>f, CoverConstants
  <2> QED
    BY <1>4, <1>u, <1>f, <2>1 DEF CoverTypeOK, LedgerOK
<1>9. EvidenceNoted' /\ SpentOnce'
  <2>1. \A p \in 1 .. policyCount : p \in PolicyId
    BY <1>f, CoverConstants DEF PolicyId
  <2> QED
    BY <1>3, <1>4, <1>u, <2>1, EvidenceKept
<1>10. TokenFollowsPolicy'
  BY <1>3, <1>4, <1>u DEF CoverIInv, TokenFollowsPolicy, Policy
<1> QED
  BY <1>4, <1>7, <1>8, <1>9, <1>10, <1>u DEF CoverIInv

(* Cancellation of one policy.                                             *)
LEMMA CancelStep ==
  ASSUME InsuranceClaimsAssumption, CoverIInv, NEW p \in PolicyId, CancelPolicy(p)
  PROVE  CoverIInv'
<1>f. ledger \in LedgerType /\ ledger.policy \in [PolicyId -> PolicyRecord]
  BY CoverFacts
<1>1. {p} \subseteq Covering(ledger) /\ Cardinality({p}) = 1
  BY FS_Singleton DEF CancelPolicy, Cancellable, Policy, Covering
<1>2. "Cancelled" \in PolicyStatus \ {"Active", "Renewed"}
  BY DEF PolicyStatus
<1>3. [ledger.policy EXCEPT ![p].status = "Cancelled"] =
        [q \in PolicyId |-> IF q \in {p} THEN [ledger.policy[q] EXCEPT !.status = "Cancelled"]
                                         ELSE ledger.policy[q]]
  BY <1>f
<1>4. ledger' = [ledger EXCEPT !.policy = [ledger.policy EXCEPT ![p].status = "Cancelled"]]
  BY <1>f DEF CancelPolicy
<1>5. /\ activePolicies' = Monus(activePolicies, Cardinality({p}))
      /\ UNCHANGED <<now, paused, submission, policyCount, token>>
  BY <1>1 DEF CancelPolicy
<1>6. ledger' = Lapsed(ledger, {p}, "Cancelled")
  BY <1>3, <1>4 DEF Lapsed
<1> QED
  BY <1>1, <1>2, <1>5, <1>6, LapseStep

(* Expiry of several at once.                                              *)
LEMMA ExpireStep ==
  ASSUME InsuranceClaimsAssumption, CoverIInv, NEW limit \in 0 .. MaxPolicies, ExpirePolicies(limit)
  PROVE  CoverIInv'
<1> DEFINE gone == FirstOverdue(IF limit = 0 THEN policyCount ELSE limit)
<1>1. gone \subseteq Covering(ledger)
  BY DEF FirstOverdue, Overdue, Covering, Policy
<1>2. "Expired" \in PolicyStatus \ {"Active", "Renewed"}
  BY DEF PolicyStatus
<1>3. /\ activePolicies' = Monus(activePolicies, Cardinality(gone))
      /\ UNCHANGED <<now, paused, submission, policyCount, token>>
      /\ ledger' = Lapsed(ledger, gone, "Expired")
  BY DEF ExpirePolicies, Policy, Lapsed
<1> HIDE DEF gone
<1> QED
  BY <1>1, <1>2, <1>3, LapseStep

(* Listing and selling a token.                                            *)
LEMMA ListStep ==
  ASSUME InsuranceClaimsAssumption, CoverIInv, NEW p \in PolicyId, ListTokenForSale(p)
  PROVE  CoverIInv'
<1>1. /\ p <= policyCount /\ token' = [token EXCEPT ![p].listed = TRUE]
      /\ now' = now /\ paused' = paused /\ policyCount' = policyCount /\ claimCount' = claimCount
      /\ callerLast' = callerLast /\ callerNonce' = callerNonce /\ usedEvidence' = usedEvidence
      /\ activePolicies' = activePolicies /\ ledger' = ledger
  BY DEF ListTokenForSale, submission
<1>2. CoverTypeOK /\ token \in [PolicyId -> [owner : Holders \union {NoHolder}, listed : BOOLEAN]]
  BY DEF CoverIInv, CoverTypeOK
<1>3. /\ token' \in [PolicyId -> [owner : Holders \union {NoHolder}, listed : BOOLEAN]]
      /\ \A q \in PolicyId : token'[q].owner = token[q].owner
      /\ \A q \in PolicyId \ {p} : token'[q] = token[q]
  BY <1>1, <1>2
<1>4. CoverTypeOK'
  BY <1>1, <1>2, <1>3 DEF CoverTypeOK
<1>5. EvidenceNoted' /\ SpentOnce'
  BY <1>1, EvidenceKept
<1>6. TokenFollowsPolicy'
  BY <1>1, <1>3 DEF CoverIInv, TokenFollowsPolicy, Policy
<1>7. ~(p > policyCount)
  BY <1>1, CoverFacts, CoverConstants DEF PolicyId
<1>8. \A q \in PolicyId : q > policyCount' => token'[q] = [owner |-> NoHolder, listed |-> FALSE]
  BY <1>1, <1>3, <1>7 DEF CoverIInv
<1>9. /\ LedgerOK(ledger', policyCount', claimCount') /\ activePolicies' <= policyCount'
      /\ activePolicies' >= Cardinality(Covering(ledger'))
      /\ \A h \in Holders : callerNonce'[h] <= claimCount'
  BY <1>1 DEF CoverIInv
<1> QED
  BY <1>4, <1>5, <1>6, <1>8, <1>9 DEF CoverIInv

(* The buyer of a token becomes the holder of its policy.                  *)
LEMMA PurchaseStep ==
  ASSUME InsuranceClaimsAssumption, CoverIInv, NEW h \in Holders, NEW p \in PolicyId,
         PurchaseToken(p, h)
  PROVE  CoverIInv'
<1> DEFINE pol == [ledger.policy EXCEPT ![p].holder = h]
<1>f. /\ policyCount \in 0 .. MaxPolicies /\ claimCount \in Nat /\ ledger \in LedgerType
      /\ ledger.policy \in [PolicyId -> PolicyRecord] /\ ledger.available \in Nat
      /\ \A q \in PolicyId : q > policyCount => ledger.policy[q] = NoPolicy
  BY CoverFacts
<1>0. policyCount \in policyCount .. MaxPolicies
  BY CoverFacts, CoverConstants
<1>1. /\ token' = [token EXCEPT ![p] = [owner |-> h, listed |-> FALSE]] /\ token[p].listed
      /\ now' = now /\ paused' = paused /\ policyCount' = policyCount /\ claimCount' = claimCount
      /\ callerLast' = callerLast /\ callerNonce' = callerNonce /\ usedEvidence' = usedEvidence
      /\ activePolicies' = activePolicies
  BY DEF PurchaseToken, TokenSold, submission
<1>2. ledger' = WithPolicies(ledger, pol, ledger.available)
  BY <1>f DEF PurchaseToken, WithPolicies, LedgerType
<1>3. CoverTypeOK /\ token \in [PolicyId -> [owner : Holders \union {NoHolder}, listed : BOOLEAN]]
  BY DEF CoverIInv, CoverTypeOK
<1>4. /\ token' \in [PolicyId -> [owner : Holders \union {NoHolder}, listed : BOOLEAN]]
      /\ token'[p].owner = h /\ \A q \in PolicyId \ {p} : token'[q] = token[q]
  BY <1>1, <1>3
<1>5. ~(p > policyCount)
  BY <1>1 DEF CoverIInv
<1>6. pol \in [PolicyId -> PolicyRecord]
  BY <1>f DEF PolicyRecord
<1>7. /\ \A q \in PolicyId : /\ pol[q].claimed = ledger.policy[q].claimed
                             /\ pol[q].deductible = ledger.policy[q].deductible
                             /\ pol[q].kind = ledger.policy[q].kind
                             /\ pol[q].status = ledger.policy[q].status
      /\ pol[p].holder = h /\ \A q \in PolicyId \ {p} : pol[q] = ledger.policy[q]
  BY <1>f DEF PolicyRecord
<1> HIDE DEF pol
<1>8. /\ LedgerOK(ledger', policyCount', claimCount')
      /\ ledger'.claim = ledger.claim /\ ledger'.policy = pol
  <2>1. \A q \in PolicyId : q > policyCount' => pol[q] = NoPolicy
    BY <1>f, <1>1, <1>5, <1>7
  <2> QED
    BY <1>f, <1>0, <1>1, <1>2, <1>6, <1>7, <2>1, PoliciesStep
<1>9. CoverTypeOK'
  BY <1>1, <1>3, <1>4, <1>8 DEF CoverTypeOK, LedgerOK
<1>10. EvidenceNoted' /\ SpentOnce'
  <2>1. \A q \in 1 .. policyCount : q \in PolicyId
    BY <1>f, CoverConstants DEF PolicyId
  <2> QED
    BY <1>1, <1>7, <1>8, <2>1, EvidenceKept
<1>11. TokenFollowsPolicy'
  BY <1>4, <1>7, <1>8 DEF CoverIInv, TokenFollowsPolicy, Policy
<1>12. \A q \in PolicyId : q > policyCount' => token'[q] = [owner |-> NoHolder, listed |-> FALSE]
  BY <1>1, <1>4, <1>5 DEF CoverIInv
<1>13. Covering(ledger') = Covering(ledger)
  BY <1>7, <1>8 DEF Covering
<1>14. /\ activePolicies' <= policyCount' /\ activePolicies' >= Cardinality(Covering(ledger'))
       /\ \A g \in Holders : callerNonce'[g] <= claimCount'
  BY <1>1, <1>13 DEF CoverIInv
<1> QED
  BY <1>8, <1>9, <1>10, <1>11, <1>12, <1>14 DEF CoverIInv

(* A new policy is counted, and its token is its holder's.                 *)
LEMMA CreateStep ==
  ASSUME InsuranceClaimsAssumption, CoverIInv, NEW h \in Holders, NEW cov \in Coverages,
         NEW ded \in Deductibles, NEW d \in Durations, NEW kind \in Kinds,
         CreatePolicy(h, cov, ded, d, kind)
  PROVE  CoverIInv'
<1> DEFINE p == policyCount + 1
           v == ledger.available + PremiumShare
           r == [holder |-> h, coverage |-> cov, deductible |-> ded, end |-> now + d,
                 kind |-> kind, claimed |-> 0, status |-> "Active"]
           pol == [ledger.policy EXCEPT ![p] = r]
           F == Covering(ledger)
<1>f. /\ policyCount \in 0 .. MaxPolicies /\ policyCount \in Nat /\ claimCount \in Nat
      /\ ledger \in LedgerType /\ activePolicies \in Nat
      /\ ledger.policy \in [PolicyId -> PolicyRecord] /\ ledger.available \in Nat /\ now \in Nat
      /\ \A q \in PolicyId : q > policyCount => ledger.policy[q] = NoPolicy
      /\ IsFiniteSet(F) /\ Cardinality(F) \in Nat /\ CoverTypeOK
      /\ activePolicies <= policyCount /\ activePolicies >= Cardinality(F)
      /\ LedgerOK(ledger, policyCount, claimCount)
  BY CoverFacts DEF CoverIInv
<1>1. /\ token' = [token EXCEPT ![p].owner = h] /\ policyCount < MaxPolicies
      /\ now' = now /\ paused' = paused /\ policyCount' = p /\ claimCount' = claimCount
      /\ callerLast' = callerLast /\ callerNonce' = callerNonce /\ usedEvidence' = usedEvidence
      /\ activePolicies' = activePolicies + 1
  BY DEF CreatePolicy, submission
<1>2. ledger' = WithPolicies(ledger, pol, v)
  BY <1>f DEF CreatePolicy, WithPolicies, LedgerType
<1>n. /\ MaxPolicies \in Nat /\ cov \in Nat /\ ded \in Nat /\ d \in Nat /\ PremiumShare \in Nat
      /\ kind \in {"Standard", "Event101"}
  BY CoverConstants
<1>v. v \in Nat
  BY <1>f, <1>n
<1>p. /\ p \in PolicyId /\ p > policyCount /\ p \in policyCount .. MaxPolicies /\ p \in Nat
      /\ \A q \in 1 .. policyCount : q \in PolicyId /\ q # p
      /\ \A q \in PolicyId : q > p => q > policyCount /\ q # p
  BY <1>f, <1>n, <1>1 DEF PolicyId
<1>r. r \in PolicyRecord
  BY <1>f, <1>n DEF PolicyRecord, PolicyStatus
<1>s. r.holder = h /\ r.claimed = 0 /\ r.status = "Active"
  OBVIOUS
<1> HIDE DEF p, v, r
<1>3. pol \in [PolicyId -> PolicyRecord]
  BY <1>f, <1>r
<1>4. pol[p] = r /\ \A q \in PolicyId \ {p} : pol[q] = ledger.policy[q]
  BY <1>f, <1>p
<1> HIDE DEF pol, F
<1>z. ledger.policy[p] = NoPolicy
  BY <1>f, <1>p
<1>5. /\ LedgerOK(ledger', policyCount', claimCount')
      /\ ledger'.claim = ledger.claim /\ ledger'.policy = pol
  <2>1. /\ \A q \in PolicyId : pol[q].claimed = ledger.policy[q].claimed
        /\ \A q \in PolicyId : q <= policyCount => pol[q].deductible = ledger.policy[q].deductible
        /\ \A q \in PolicyId : q > p => pol[q] = NoPolicy
    <3>1. NoPolicy.claimed = 0
      BY DEF NoPolicy
    <3>2. ~(p <= policyCount)
      BY <1>f, <1>p
    <3> QED
      BY <1>f, <1>4, <1>p, <1>s, <1>z, <3>1, <3>2
  <2>2. policyCount' \in policyCount .. MaxPolicies /\ \A q \in PolicyId : q > policyCount' => pol[q] = NoPolicy
    BY <1>1, <1>p, <2>1
  <2> QED
    BY <1>1, <1>2, <1>3, <1>v, <2>1, <2>2, PoliciesStep
<1>6. token \in [PolicyId -> [owner : Holders \union {NoHolder}, listed : BOOLEAN]]
  BY <1>f DEF CoverTypeOK
<1>7. /\ token' \in [PolicyId -> [owner : Holders \union {NoHolder}, listed : BOOLEAN]]
      /\ token'[p].owner = h /\ \A q \in PolicyId \ {p} : token'[q] = token[q]
  BY <1>1, <1>6, <1>p
<1>8. Covering(ledger') = F \union {p} /\ p \notin F
  <2>1. /\ Covering(ledger') = {q \in PolicyId : pol[q].status \in {"Active", "Renewed"}}
        /\ F = {q \in PolicyId : ledger.policy[q].status \in {"Active", "Renewed"}}
    BY <1>5 DEF Covering, F
  <2>2. p \notin F
    <3>1. NoPolicy.status = "Absent"
      BY DEF NoPolicy
    <3> QED
      BY <2>1, <1>z, <3>1
  <2> QED
    BY <1>4, <1>p, <1>s, <2>1, <2>2
<1>9. /\ activePolicies' \in Nat /\ activePolicies' <= policyCount'
      /\ activePolicies' >= Cardinality(Covering(ledger'))
  <2>1. Cardinality(F \union {p}) = Cardinality(F) + 1
    BY <1>8, <1>f, FS_AddElement
  <2> DEFINE n == Cardinality(F)
             n2 == Cardinality(F \union {p})
  <2>2. n \in Nat /\ n2 = n + 1 /\ activePolicies >= n /\ activePolicies <= policyCount
    BY <1>f, <2>1
  <2>3. Cardinality(Covering(ledger')) = n2
    BY <1>8
  <2>4. policyCount' = policyCount + 1
    BY <1>1 DEF p
  <2> HIDE DEF n, n2
  <2> QED
    BY <1>1, <1>f, <2>2, <2>3, <2>4
<1>10. CoverTypeOK'
  <2>1. policyCount' \in 0 .. MaxPolicies /\ activePolicies' \in 0 .. MaxPolicies
    BY <1>1, <1>9, <1>n, <1>p
  <2> QED
    BY <1>1, <1>f, <1>5, <1>7, <2>1 DEF CoverTypeOK, LedgerOK
<1>11. EvidenceNoted' /\ SpentOnce'
  BY <1>1, <1>4, <1>5, <1>p, EvidenceKept
<1>12. TokenFollowsPolicy'
  BY <1>4, <1>5, <1>7, <1>s DEF CoverIInv, TokenFollowsPolicy, Policy
<1>13. \A q \in PolicyId : q > policyCount' => token'[q] = [owner |-> NoHolder, listed |-> FALSE]
  BY <1>1, <1>7, <1>p DEF CoverIInv
<1>14. \A g \in Holders : callerNonce'[g] <= claimCount'
  BY <1>1 DEF CoverIInv
<1> QED
  BY <1>5, <1>9, <1>10, <1>11, <1>12, <1>13, <1>14 DEF CoverIInv

-----------------------------------------------------------------------------
(* The record of a claim that is filed.                                    *)
Filing(h, p, amount, e) ==
  [policy |-> p, claimant |-> h, amount |-> amount, payout |-> 0, at |-> now,
   deadline |-> now + DisputeWindow, evidence |-> e, status |-> "Pending"]

(* A claim is filed on a policy that exists.                               *)
LEMMA Filed ==
  ASSUME InsuranceClaimsAssumption, CoverIInv, NEW h \in Holders, NEW p \in PolicyId,
         NEW x \in ClaimAmounts, NEW e \in EvidenceTypes, NEW n, MaySubmit(h, p, x, e, n)
  PROVE  LET l == Submitted(h, p, x, e)
             c == claimCount + 1
         IN /\ LedgerOK(l, policyCount, c) /\ l.policy = ledger.policy
            /\ c \in ClaimId /\ c > claimCount /\ l.claim[c].policy = p /\ l.claim[c].evidence = e
            /\ Decidable(l, c) /\ \A d \in ClaimId \ {c} : l.claim[d] = ledger.claim[d]
<1> DEFINE r == Filing(h, p, x, e)
           l == Submitted(h, p, x, e)
           c == claimCount + 1
<1>f. /\ policyCount \in 0 .. MaxPolicies /\ claimCount \in Nat /\ LedgerOK(ledger, policyCount, claimCount)
      /\ now \in Nat /\ \A q \in PolicyId : q > policyCount => ledger.policy[q] = NoPolicy
  BY CoverFacts
<1>1. claimCount < MaxClaims /\ ledger.policy[p].status = "Active"
  BY DEF MaySubmit, ClaimInOrder, Policy
<1>2. c \in ClaimId /\ c > claimCount
  BY <1>f, <1>1, CoverConstants DEF ClaimId
<1>3. p \in 1 .. policyCount
  <2>1. ~(p > policyCount)
    BY <1>f, <1>1 DEF NoPolicy
  <2> QED
    BY <2>1, <1>f, CoverConstants DEF PolicyId
<1>4. r \in ClaimRecord
  <2>1. x \in Nat /\ now + DisputeWindow \in Nat /\ p \in 0 .. MaxPolicies
    BY <1>f, CoverConstants DEF PolicyId
  <2> QED
    BY <2>1, <1>f DEF ClaimRecord, ClaimStatus, Filing
<1>5. r.policy = p /\ r.evidence = e /\ r.status = "Pending"
  BY DEF Filing
<1>6. l = WithClaim(ledger, c, r)
  BY DEF Submitted, Filing, WithClaim
<1>m. c = claimCount + 1
  OBVIOUS
<1> HIDE DEF r, l, c
<1>7. /\ LedgerOK(l, policyCount, c) /\ l.policy = ledger.policy
      /\ l.claim[c] = r /\ \A d \in ClaimId \ {c} : l.claim[d] = ledger.claim[d]
  <2> DEFINE k == ledger
             m == claimCount
             q == policyCount
  <2>1. /\ LedgerOK(k, q, m) /\ q \in 0 .. MaxPolicies /\ m \in Nat /\ c = m + 1
        /\ r.policy \in 1 .. q /\ l = WithClaim(k, c, r)
    BY <1>f, <1>3, <1>5, <1>6, <1>m
  <2> HIDE DEF k, m, q
  <2>2. /\ LedgerOK(l, q, c) /\ l.policy = k.policy
        /\ l.claim[c] = r /\ \A d \in ClaimId \ {c} : l.claim[d] = k.claim[d]
    BY <1>2, <1>4, <2>1, ClaimFiled
  <2> QED
    BY <2>2 DEF k, m, q
<1> QED
  BY <1>2, <1>5, <1>7 DEF Decidable, l, c

(* What was filed under the evidence rule may be decided or not.           *)
LEMMA FiledKeeps ==
  ASSUME InsuranceClaimsAssumption, CoverIInv, NEW h \in Holders, NEW p \in PolicyId,
         NEW x \in ClaimAmounts, NEW e \in EvidenceTypes, NEW n, MaySubmit(h, p, x, e, n),
         LedgerOK(ledger', policyCount, claimCount + 1),
         SameTerms(Submitted(h, p, x, e), ledger'),
         claimCount' = claimCount + 1, UNCHANGED <<now, paused, issue>>,
         callerLast' \in [Holders -> 0 .. MaxTime], callerNonce' \in [Holders -> 0 .. MaxClaims],
         \A g \in Holders : callerNonce'[g] <= claimCount + 1,
         usedEvidence \subseteq usedEvidence', usedEvidence' \subseteq PolicyId \X EvidenceTypes,
         ledger.policy[p].kind = "Standard" =>
           <<p, e>> \in usedEvidence' /\ <<p, e>> \notin usedEvidence
  PROVE  CoverIInv'
<1> DEFINE l == Submitted(h, p, x, e)
           c == claimCount + 1
<1>f. /\ policyCount \in 0 .. MaxPolicies /\ claimCount \in 0 .. MaxClaims /\ claimCount \in Nat
      /\ activePolicies \in Nat /\ LedgerOK(ledger, policyCount, claimCount)
      /\ IsFiniteSet(Covering(ledger)) /\ CoverTypeOK /\ MaxClaims \in Nat
  BY CoverFacts, CoverConstants DEF CoverIInv
<1>1. /\ l.policy = ledger.policy
      /\ c \in ClaimId /\ c > claimCount /\ l.claim[c].policy = p /\ l.claim[c].evidence = e
      /\ \A d \in ClaimId \ {c} : l.claim[d] = ledger.claim[d]
  BY Filed
<1>2. SameTerms(l, ledger')
  OBVIOUS
<1> HIDE DEF l
<1>3. /\ \A q \in PolicyId : /\ ledger'.policy[q].holder = ledger.policy[q].holder
                             /\ ledger'.policy[q].kind = ledger.policy[q].kind
      /\ ledger'.claim[c].policy = p /\ ledger'.claim[c].evidence = e
      /\ \A d \in ClaimId \ {c} : /\ ledger'.claim[d].policy = ledger.claim[d].policy
                                  /\ ledger'.claim[d].evidence = ledger.claim[d].evidence
      /\ Covering(ledger') \subseteq Covering(ledger)
  BY <1>1, <1>2 DEF SameTerms, Covering
<1>4. /\ policyCount' = policyCount /\ activePolicies' = activePolicies /\ token' = token
      /\ now' = now /\ paused' = paused /\ claimCount' = c
  BY DEF issue
<1>c. \A d \in ClaimId : d <= c => d = c \/ d <= claimCount
  BY <1>f DEF ClaimId
<1>k. c \in 0 .. MaxClaims
  BY <1>1, <1>f DEF ClaimId
<1>i. (\A d \in 1 .. claimCount : d \in ClaimId /\ d # c) /\ \A d \in 1 .. c : d \in ClaimId /\ d <= c
  BY <1>f, <1>k DEF ClaimId
<1> HIDE DEF c
<1>p. \A d \in ClaimId : d <= claimCount => ledger.claim[d].policy \in PolicyId /\ d # c
  <2>1. \A d \in ClaimId : d <= claimCount => ledger.claim[d].policy \in 1 .. policyCount
    BY <1>f DEF LedgerOK, Stored
  <2>2. \A q \in 1 .. policyCount : q \in PolicyId
    BY <1>f, CoverConstants DEF PolicyId
  <2>3. \A d \in ClaimId : d <= claimCount => d # c
    BY <1>f, <1>1 DEF ClaimId
  <2> QED
    BY <2>1, <2>2, <2>3
<1>5. CoverTypeOK'
  BY <1>4, <1>f, <1>k DEF CoverTypeOK, LedgerOK
<1>s. \A d \in ClaimId : d <= claimCount => d <= c
  BY <1>f DEF c, ClaimId
<1>h. /\ usedEvidence \subseteq usedEvidence'
      /\ ledger.policy[p].kind = "Standard" =>
           <<p, e>> \in usedEvidence' /\ <<p, e>> \notin usedEvidence
  OBVIOUS
<1>o. /\ \A d \in ClaimId : Standard(d)' => d = c \/ Standard(d)
      /\ \A d \in ClaimId : d = c /\ Standard(d)' => ledger.policy[p].kind = "Standard"
  <2>1. \A d \in ClaimId : d <= claimCount =>
          ledger'.policy[ledger'.claim[d].policy].kind = ledger.policy[ledger.claim[d].policy].kind
    BY <1>3, <1>p
  <2>2. \A d \in ClaimId : Standard(d)' =>
          d <= c /\ ledger'.policy[ledger'.claim[d].policy].kind = "Standard"
    BY <1>4 DEF Standard, Policy, Claim
  <2>3. \A d \in ClaimId : Standard(d)' => d = c \/ Standard(d)
    BY <1>c, <2>1, <2>2 DEF Standard, Policy, Claim
  <2>4. ASSUME NEW d \in ClaimId, d = c, Standard(d)' PROVE ledger.policy[p].kind = "Standard"
    <3>1. ledger'.policy[ledger'.claim[d].policy].kind = "Standard"
      BY <2>2, <2>4
    <3>2. ledger'.policy[ledger'.claim[d].policy].kind = ledger.policy[p].kind
      BY <1>3, <2>4
    <3> QED
      BY <3>1, <3>2
  <2> QED
    BY <2>3, <2>4
<1>n. \A d \in ClaimId : Standard(d) =>
        /\ <<ledger.claim[d].policy, ledger.claim[d].evidence>> \in usedEvidence
        /\ d # c /\ d <= claimCount
  <2> SUFFICES ASSUME NEW d \in ClaimId, Standard(d)
               PROVE  /\ <<ledger.claim[d].policy, ledger.claim[d].evidence>> \in usedEvidence
                      /\ d # c /\ d <= claimCount
    OBVIOUS
  <2>1. d <= claimCount /\ ledger.policy[ledger.claim[d].policy].kind = "Standard"
    BY DEF Standard, Policy, Claim
  <2>2. d \in 1 .. claimCount
    BY <2>1, CoverConstants DEF ClaimId
  <2>3. <<ledger.claim[d].policy, ledger.claim[d].evidence>> \in usedEvidence
    BY <2>1, <2>2 DEF CoverIInv, EvidenceNoted, Policy, Claim
  <2> QED
    BY <1>p, <2>1, <2>3
<1>6. EvidenceNoted'
  <2> SUFFICES ASSUME NEW d \in 1 .. c,
                      ledger'.policy[ledger'.claim[d].policy].kind = "Standard"
               PROVE  <<ledger'.claim[d].policy, ledger'.claim[d].evidence>> \in usedEvidence'
    BY <1>4 DEF EvidenceNoted, Policy, Claim
  <2>1. d \in ClaimId /\ Standard(d)'
    BY <1>i, <1>4 DEF Standard, Policy, Claim
  <2>2. CASE d = c
    BY <1>3, <1>h, <1>o, <2>1, <2>2
  <2>3. CASE Standard(d)
    BY <1>3, <1>h, <1>n, <2>1, <2>3
  <2> QED
    BY <1>o, <2>1, <2>2, <2>3
<1>7. SpentOnce'
  <2> SUFFICES ASSUME NEW d \in ClaimId, NEW g \in ClaimId, Standard(d)', Standard(g)',
                      ledger'.claim[d].policy = ledger'.claim[g].policy,
                      ledger'.claim[d].evidence = ledger'.claim[g].evidence
               PROVE  d = g
    BY DEF SpentOnce, Claim
  <2>1. CASE Standard(d) /\ Standard(g)
    BY <1>3, <1>n, <2>1 DEF CoverIInv, SpentOnce, Claim
  <2>2. CASE d = c /\ Standard(g)
    BY <1>3, <1>h, <1>n, <1>o, <2>2
  <2>3. CASE Standard(d) /\ g = c
    BY <1>3, <1>h, <1>n, <1>o, <2>3
  <2> QED
    BY <1>o, <2>1, <2>2, <2>3
<1>8. activePolicies' >= Cardinality(Covering(ledger'))
  <2> DEFINE S == Covering(ledger)
             T == Covering(ledger')
  <2>1. T \subseteq S /\ IsFiniteSet(S) /\ activePolicies >= Cardinality(S)
    BY <1>f, <1>3 DEF CoverIInv
  <2> HIDE DEF S, T
  <2>2. Cardinality(T) <= Cardinality(S) /\ IsFiniteSet(T)
    BY <2>1, FS_Subset
  <2>3. Cardinality(T) \in Nat /\ Cardinality(S) \in Nat
    BY <2>1, <2>2, FS_CardinalityType
  <2>4. activePolicies >= Cardinality(T)
    BY <2>1, <2>2, <2>3, <1>f
  <2> QED
    BY <1>4, <2>4 DEF T
<1>9. TokenFollowsPolicy'
  BY <1>3, <1>4 DEF CoverIInv, TokenFollowsPolicy, Policy
<1>10. /\ LedgerOK(ledger', policyCount', claimCount') /\ activePolicies' <= policyCount'
       /\ \A g \in Holders : callerNonce'[g] <= claimCount'
       /\ \A q \in PolicyId : q > policyCount' => token'[q] = [owner |-> NoHolder, listed |-> FALSE]
  BY <1>4 DEF CoverIInv
<1> QED
  BY <1>5, <1>6, <1>7, <1>8, <1>9, <1>10 DEF CoverIInv

(* A claim is filed and waits, with its evidence and nonce noted.          *)
LEMMA SubmitStep ==
  ASSUME InsuranceClaimsAssumption, CoverIInv, NEW h \in Holders, NEW p \in PolicyId,
         NEW x \in ClaimAmounts, NEW e \in EvidenceTypes, NEW n \in 0 .. MaxClaims,
         SubmitClaim(h, p, x, e, n)
  PROVE  CoverIInv'
<1>f. /\ claimCount \in 0 .. MaxClaims /\ claimCount \in Nat /\ now \in StartTime .. MaxTime
      /\ CoverTypeOK
  BY CoverFacts DEF CoverIInv
<1>1. /\ MaySubmit(h, p, x, e, n) /\ ledger' = Submitted(h, p, x, e)
      /\ claimCount' = claimCount + 1 /\ usedEvidence' = usedEvidence \union {<<p, e>>}
      /\ callerLast' = [callerLast EXCEPT ![h] = now]
      /\ callerNonce' = [callerNonce EXCEPT ![h] = n + 1]
      /\ UNCHANGED <<now, paused, issue>>
  BY DEF SubmitClaim
<1>2. LedgerOK(ledger', policyCount, claimCount + 1)
  <2>1. LedgerOK(Submitted(h, p, x, e), policyCount, claimCount + 1)
    BY <1>1, Filed
  <2> QED
    BY <1>1, <2>1
<1>3. SameTerms(Submitted(h, p, x, e), ledger')
  BY <1>1 DEF SameTerms
<1>4. n = callerNonce[h] /\ <<p, e>> \notin usedEvidence /\ claimCount < MaxClaims
  BY <1>1 DEF MaySubmit, NonceExpected, EvidenceUnused
<1>5. callerLast' \in [Holders -> 0 .. MaxTime]
  <2>1. now \in 0 .. MaxTime /\ callerLast \in [Holders -> 0 .. MaxTime]
    BY <1>f, CoverConstants DEF CoverTypeOK
  <2> QED
    BY <1>1, <2>1
<1>6. /\ callerNonce' \in [Holders -> 0 .. MaxClaims]
      /\ \A g \in Holders : callerNonce'[g] <= claimCount + 1
  <2>1. /\ callerNonce \in [Holders -> 0 .. MaxClaims] /\ MaxClaims \in Nat
        /\ \A g \in Holders : callerNonce[g] <= claimCount
    BY <1>f, CoverConstants DEF CoverTypeOK, CoverIInv
  <2>2. n + 1 \in 0 .. MaxClaims /\ n + 1 <= claimCount + 1
    BY <1>f, <1>4, <2>1
  <2>3. \A g \in Holders : callerNonce[g] \in Int /\ callerNonce[g] <= claimCount + 1
    BY <1>f, <2>1
  <2> QED
    BY <1>1, <2>1, <2>2, <2>3
<1>7. /\ usedEvidence \subseteq usedEvidence' /\ usedEvidence' \subseteq PolicyId \X EvidenceTypes
      /\ <<p, e>> \in usedEvidence'
  BY <1>1, <1>f DEF CoverTypeOK
<1> QED
  BY <1>1, <1>2, <1>3, <1>4, <1>5, <1>6, <1>7, FiledKeeps

(* A parametric claim is filed and decided at once.                        *)
LEMMA ParametricStep ==
  ASSUME InsuranceClaimsAssumption, CoverIInv, NEW h \in Holders, NEW p \in PolicyId,
         NEW x \in ClaimAmounts, NEW e \in EvidenceTypes, NEW n \in 0 .. MaxClaims,
         SubmitParametricClaim(h, p, x, e, n)
  PROVE  CoverIInv'
<1> DEFINE c == claimCount + 1
           l == Submitted(h, p, x, e)
           q == policyCount
           k == ledger'
<1>f. /\ claimCount \in 0 .. MaxClaims /\ claimCount \in Nat /\ now \in Nat /\ CoverTypeOK
      /\ q \in 0 .. MaxPolicies
  BY CoverFacts DEF CoverIInv
<1>1. /\ MaySubmit(h, p, x, e, n) /\ k = Decide(l, c, TRUE)
      /\ claimCount' = c /\ ledger.policy[p].kind = "Event101"
      /\ UNCHANGED <<now, paused, issue, callerLast, callerNonce, usedEvidence>>
  BY DEF SubmitParametricClaim, Policy
<1>2. LedgerOK(l, q, c) /\ c \in ClaimId /\ Decidable(l, c)
  BY <1>1, Filed
<1>3. c \in Nat
  BY <1>f
<1>4. LedgerOK(k, q, c) /\ SameTerms(l, k)
  <2> HIDE DEF c, l, q, k
  <2> QED
    BY <1>1, <1>2, <1>3, <1>f, DecisionKeeps
<1>5. /\ callerLast' \in [Holders -> 0 .. MaxTime] /\ callerNonce' \in [Holders -> 0 .. MaxClaims]
      /\ usedEvidence \subseteq usedEvidence' /\ usedEvidence' \subseteq PolicyId \X EvidenceTypes
  BY <1>1, <1>f DEF CoverTypeOK
<1>6. \A g \in Holders : callerNonce'[g] <= claimCount + 1
  <2>1. /\ callerNonce \in [Holders -> 0 .. MaxClaims] /\ MaxClaims \in Nat
        /\ \A g \in Holders : callerNonce[g] <= claimCount
    BY <1>f, CoverConstants DEF CoverTypeOK, CoverIInv
  <2>3. \A g \in Holders : callerNonce[g] \in Int /\ callerNonce[g] <= claimCount + 1
    BY <1>f, <2>1
  <2> QED
    BY <1>1, <2>3
<1> QED
  BY <1>1, <1>4, <1>5, <1>6, FiledKeeps

(* Every message, and the clock, keeps the inductive invariant.            *)
LEMMA NextCover ==
  InsuranceClaimsAssumption /\ CoverIInv /\ [CoverNext]_coverVars => CoverIInv'
<1> SUFFICES ASSUME InsuranceClaimsAssumption, CoverIInv, [CoverNext]_coverVars PROVE CoverIInv'
  OBVIOUS
<1>1. ASSUME NEW h \in Holders, NEW cov \in Coverages, NEW ded \in Deductibles,
             NEW d \in Durations, NEW k \in Kinds, CreatePolicy(h, cov, ded, d, k)
      PROVE  CoverIInv'
  BY <1>1, CreateStep
<1>2. ASSUME NEW h \in Holders, NEW p \in PolicyId, PurchaseToken(p, h) PROVE CoverIInv'
  BY <1>2, PurchaseStep
<1>3. ASSUME NEW h \in Holders, NEW p \in PolicyId, NEW x \in ClaimAmounts, NEW e \in EvidenceTypes,
             NEW n \in 0 .. MaxClaims,
             SubmitClaim(h, p, x, e, n) \/ SubmitParametricClaim(h, p, x, e, n)
      PROVE  CoverIInv'
  BY <1>3, SubmitStep, ParametricStep
<1>4. ASSUME NEW p \in PolicyId,
             CancelPolicy(p) \/ ListTokenForSale(p) \/ \E d \in Durations : RenewPolicy(p, d)
      PROVE  CoverIInv'
  BY <1>4, CancelStep, ListStep, RenewStep
<1>5. ASSUME NEW limit \in 0 .. MaxPolicies, ExpirePolicies(limit) PROVE CoverIInv'
  BY <1>5, ExpireStep
<1>6. CASE \/ \E c \in ClaimId : MoveToDispute(c) \/ \E a \in BOOLEAN : ProcessClaim(c, a)
           \/ \E ids \in BatchLists, a \in BOOLEAN : ProcessBatch(ids, a)
           \/ \E b \in BOOLEAN : PauseCover(b)
           \/ CoverTick
           \/ UNCHANGED coverVars
  BY <1>6, DecideSteps
<1> QED
  BY <1>1, <1>2, <1>3, <1>4, <1>5, <1>6 DEF CoverNext

(* The inductive invariant holds in every reachable state.                 *)
THEOREM CoverInvariance == ASSUME InsuranceClaimsAssumption PROVE CoverSpec => []CoverIInv
<1>1. CoverIInv /\ [CoverNext]_coverVars => CoverIInv'
  BY NextCover
<1> QED
  BY InitCover, <1>1, PTL DEF CoverSpec

(* Type correctness.                                                       *)
THEOREM CoverTypeCorrect == ASSUME InsuranceClaimsAssumption PROVE CoverSpec => []CoverTypeOK
<1>1. CoverIInv => CoverTypeOK
  BY DEF CoverIInv
<1> QED
  BY CoverInvariance, <1>1, PTL

(* The holder of a policy and the owner of its token are one account.      *)
THEOREM TokensFollow == ASSUME InsuranceClaimsAssumption PROVE CoverSpec => []TokenFollowsPolicy
<1>1. CoverIInv => TokenFollowsPolicy
  BY DEF CoverIInv
<1> QED
  BY CoverInvariance, <1>1, PTL

(* The pool never counts fewer policies than it covers.                    *)
THEOREM CoverIsCounted == ASSUME InsuranceClaimsAssumption PROVE CoverSpec => []ActiveCountNeverShort
<1>1. CoverIInv => ActiveCountNeverShort
  <2>1. Covering(ledger) = {p \in PolicyId : InForce(p)}
    BY DEF Covering, InForce, Policy
  <2> QED
    BY <2>1 DEF CoverIInv, ActiveCountNeverShort
<1> QED
  BY CoverInvariance, <1>1, PTL

-----------------------------------------------------------------------------
(* Evidence that is replayed.                                              *)

(* A claim on event 101 never waits, and one that was paid set the         *)
(* cooldown of its property.                                               *)
Paced ==
  \A c \in 1 .. claimCount : Policy(Claim(c).policy).kind = "Event101" =>
    /\ Claim(c).status # "Pending"
    /\ ledger.paidOut[c] > 0 => Claim(c).at <= ledger.cooldown[Claim(c).policy]

(* After such a claim the next one on its policy waits for the cooldown.   *)
SpacedOut ==
  \A c \in 1 .. claimCount : \A d \in 1 .. c - 1 :
    /\ Claim(c).policy = Claim(d).policy /\ Policy(Claim(c).policy).kind = "Event101"
    /\ ledger.paidOut[d] > 0
    => Claim(d).at + Cooldown <= Claim(c).at

PacedIInv == Paced /\ SpacedOut

(* The claims there are, and what they are on.                             *)
LEMMA ClaimsThereAre ==
  ASSUME InsuranceClaimsAssumption, CoverIInv
  PROVE  /\ claimCount \in Nat /\ policyCount \in Nat
         /\ \A c \in 1 .. claimCount : c \in ClaimId /\ ledger.claim[c].policy \in PolicyId
                                       /\ ledger.claim[c].policy \in 1 .. policyCount
         /\ \A c \in ClaimId : c \in 1 .. claimCount \/ ledger.claim[c].policy = 0
         /\ ledger.claim \in [ClaimId -> ClaimRecord] /\ ledger.cooldown \in [PolicyId -> Nat]
         /\ ledger.paidOut \in [ClaimId -> Nat] /\ ledger \in LedgerType
<1>f. /\ policyCount \in 0 .. MaxPolicies /\ claimCount \in 0 .. MaxClaims
      /\ policyCount \in Nat /\ claimCount \in Nat
      /\ LedgerOK(ledger, policyCount, claimCount) /\ ledger \in LedgerType
      /\ MaxClaims \in Nat /\ MaxPolicies \in Nat
  BY CoverFacts, CoverConstants
<1>1. \A c \in 1 .. claimCount : c \in ClaimId /\ c <= claimCount
  BY <1>f DEF ClaimId
<1>2. \A q \in 1 .. policyCount : q \in PolicyId
  BY <1>f DEF PolicyId
<1>3. \A c \in ClaimId : IF c <= claimCount THEN ledger.claim[c].policy \in 1 .. policyCount
                         ELSE ledger.claim[c] = NoClaim
  BY <1>f DEF LedgerOK, Stored
<1>4. \A c \in ClaimId : c <= claimCount => c \in 1 .. claimCount
  BY <1>f DEF ClaimId
<1>5. \A c \in ClaimId : c \in 1 .. claimCount \/ ledger.claim[c].policy = 0
  BY <1>3, <1>4 DEF NoClaim
<1>6. \A c \in 1 .. claimCount : ledger.claim[c].policy \in 1 .. policyCount
  BY <1>1, <1>3
<1> QED
  BY <1>f, <1>1, <1>2, <1>5, <1>6, LedgerFields

(* A step without new claims that is quiet keeps the pace.                 *)
LEMMA QuietKeepsPace ==
  ASSUME InsuranceClaimsAssumption, CoverIInv, PacedIInv, Quiet(ledger, ledger'),
         \A p \in 1 .. policyCount : ledger'.policy[p].kind = ledger.policy[p].kind,
         claimCount' = claimCount
  PROVE  PacedIInv'
<1> DEFINE pol(c) == ledger.claim[c].policy
<1>1. /\ claimCount \in Nat
      /\ \A c \in 1 .. claimCount : c \in ClaimId /\ pol(c) \in PolicyId /\ pol(c) \in 1 .. policyCount
      /\ \A c \in ClaimId : c \in 1 .. claimCount \/ pol(c) = 0
  BY ClaimsThereAre
<1>2. \A c \in 1 .. claimCount :
        /\ ledger'.claim[c].policy = pol(c) /\ ledger'.claim[c].at = ledger.claim[c].at
        /\ ledger'.policy[pol(c)].kind = ledger.policy[pol(c)].kind
        /\ ledger.claim[c].status # "Pending" =>
             ledger'.claim[c].status # "Pending" /\ ledger'.paidOut[c] = ledger.paidOut[c]
  BY <1>1 DEF Quiet
<1>3. ASSUME NEW c \in 1 .. claimCount, ledger.policy[pol(c)].kind = "Event101"
      PROVE  /\ ledger.claim[c].status # "Pending"
             /\ ledger.paidOut[c] > 0 => ledger.claim[c].at <= ledger.cooldown[pol(c)]
             /\ ledger'.cooldown[pol(c)] = ledger.cooldown[pol(c)]
  <2>1. \A d \in 1 .. claimCount : pol(d) = pol(c) => ledger.claim[d].status # "Pending"
    BY <1>3 DEF PacedIInv, Paced, Policy, Claim
  <2>2. pol(c) # 0 /\ pol(c) \in PolicyId
    BY <1>1 DEF PolicyId
  <2>3. \A d \in ClaimId : pol(d) = pol(c) => ledger.claim[d].status # "Pending"
    BY <1>1, <2>1, <2>2
  <2>4. ledger'.cooldown[pol(c)] = ledger.cooldown[pol(c)]
    BY <2>2, <2>3 DEF Quiet
  <2> QED
    BY <1>3, <2>4 DEF PacedIInv, Paced, Policy, Claim
<1> HIDE DEF pol
<1>4. Paced'
  <2> SUFFICES ASSUME NEW c \in 1 .. claimCount,
                      ledger'.policy[ledger'.claim[c].policy].kind = "Event101"
               PROVE  /\ ledger'.claim[c].status # "Pending"
                      /\ ledger'.paidOut[c] > 0 =>
                           ledger'.claim[c].at <= ledger'.cooldown[ledger'.claim[c].policy]
    BY DEF Paced, Policy, Claim
  <2>1. ledger.policy[pol(c)].kind = "Event101"
    BY <1>2
  <2> QED
    BY <1>2, <1>3, <2>1
<1>5. SpacedOut'
  <2> SUFFICES ASSUME NEW c \in 1 .. claimCount, NEW d \in 1 .. c - 1,
                      ledger'.claim[c].policy = ledger'.claim[d].policy,
                      ledger'.policy[ledger'.claim[c].policy].kind = "Event101",
                      ledger'.paidOut[d] > 0
               PROVE  ledger'.claim[d].at + Cooldown <= ledger'.claim[c].at
    BY DEF SpacedOut, Policy, Claim
  <2>1. d \in 1 .. claimCount
    BY <1>1
  <2>2. /\ pol(c) = pol(d) /\ ledger.policy[pol(c)].kind = "Event101"
        /\ ledger'.claim[d].at = ledger.claim[d].at /\ ledger'.claim[c].at = ledger.claim[c].at
    BY <1>2, <2>1
  <2>3. ledger.paidOut[d] > 0
    BY <1>2, <1>3, <2>1, <2>2
  <2>4. ledger.claim[d].at + Cooldown <= ledger.claim[c].at
    BY <2>2, <2>3 DEF PacedIInv, SpacedOut, Policy, Claim, pol
  <2> QED
    BY <2>2, <2>4
<1> QED
  BY <1>4, <1>5 DEF PacedIInv

(* A claim filed on a standard policy is none of the paced ones.           *)
LEMMA SubmitKeepsPace ==
  ASSUME InsuranceClaimsAssumption, CoverIInv, PacedIInv, NEW h \in Holders, NEW p \in PolicyId,
         NEW x \in ClaimAmounts, NEW e \in EvidenceTypes, NEW n \in 0 .. MaxClaims,
         SubmitClaim(h, p, x, e, n)
  PROVE  PacedIInv'
<1> DEFINE m == claimCount + 1
<1>1. /\ claimCount \in Nat
      /\ \A c \in 1 .. claimCount : c \in ClaimId /\ ledger.claim[c].policy \in PolicyId
  BY ClaimsThereAre
<1>2. /\ ledger' = Submitted(h, p, x, e) /\ MaySubmit(h, p, x, e, n) /\ claimCount' = m
      /\ ledger.policy[p].kind # "Event101"
  BY DEF SubmitClaim, Policy
<1>3. /\ ledger'.policy = ledger.policy /\ m \in ClaimId /\ ledger'.claim[m].policy = p
      /\ \A d \in ClaimId \ {m} : ledger'.claim[d] = ledger.claim[d]
  BY <1>2, Filed
<1>4. ledger'.paidOut = ledger.paidOut /\ ledger'.cooldown = ledger.cooldown
  <2>1. ledger \in LedgerType
    BY ClaimsThereAre
  <2> QED
    BY <1>2, <2>1 DEF Submitted, LedgerType
<1>5. \A c \in 1 .. m : c = m \/ c \in 1 .. claimCount
  BY <1>1
<1>6. \A c \in 1 .. claimCount : ledger'.claim[c] = ledger.claim[c]
  BY <1>1, <1>3
<1>7. Paced'
  <2> SUFFICES ASSUME NEW c \in 1 .. m,
                      ledger'.policy[ledger'.claim[c].policy].kind = "Event101"
               PROVE  /\ ledger'.claim[c].status # "Pending"
                      /\ ledger'.paidOut[c] > 0 =>
                           ledger'.claim[c].at <= ledger'.cooldown[ledger'.claim[c].policy]
    BY <1>2 DEF Paced, Policy, Claim
  <2>1. c \in 1 .. claimCount
    BY <1>2, <1>3, <1>5
  <2> QED
    BY <1>3, <1>4, <1>6, <2>1 DEF PacedIInv, Paced, Policy, Claim
<1>8. SpacedOut'
  <2> SUFFICES ASSUME NEW c \in 1 .. m, NEW d \in 1 .. c - 1,
                      ledger'.claim[c].policy = ledger'.claim[d].policy,
                      ledger'.policy[ledger'.claim[c].policy].kind = "Event101",
                      ledger'.paidOut[d] > 0
               PROVE  ledger'.claim[d].at + Cooldown <= ledger'.claim[c].at
    BY <1>2 DEF SpacedOut, Policy, Claim
  <2>1. c \in 1 .. claimCount
    BY <1>2, <1>3, <1>5
  <2>2. d \in 1 .. claimCount
    BY <1>1, <2>1
  <2> QED
    BY <1>3, <1>4, <1>6, <2>1, <2>2 DEF PacedIInv, SpacedOut, Policy, Claim
<1> QED
  BY <1>7, <1>8 DEF PacedIInv

(* A claim on event 101 is filed after the cooldown its predecessor set,   *)
(* and sets it again if it is paid.                                        *)
LEMMA ParametricKeepsPace ==
  ASSUME InsuranceClaimsAssumption, CoverIInv, PacedIInv, NEW h \in Holders, NEW p \in PolicyId,
         NEW x \in ClaimAmounts, NEW e \in EvidenceTypes, NEW n \in 0 .. MaxClaims,
         SubmitParametricClaim(h, p, x, e, n)
  PROVE  PacedIInv'
<1> DEFINE m == claimCount + 1
           l == Submitted(h, p, x, e)
           k == ledger'
<1>1. /\ claimCount \in Nat /\ ledger \in LedgerType
      /\ \A c \in 1 .. claimCount : c \in ClaimId /\ ledger.claim[c].policy \in PolicyId
      /\ ledger.claim \in [ClaimId -> ClaimRecord] /\ ledger.cooldown \in [PolicyId -> Nat]
  BY ClaimsThereAre
<1>2. /\ k = Decide(l, m, TRUE) /\ MaySubmit(h, p, x, e, n) /\ claimCount' = m
      /\ ledger.policy[p].kind = "Event101"
  BY DEF SubmitParametricClaim, Policy
<1>n. now \in Nat /\ policyCount \in 0 .. MaxPolicies /\ Cooldown \in Nat /\ MaxClaims \in Nat
  BY CoverFacts, CoverConstants DEF InsuranceClaimsAssumption
<1>3. /\ LedgerOK(l, policyCount, m) /\ l.policy = ledger.policy
      /\ m \in ClaimId /\ l.claim[m].policy = p /\ Decidable(l, m)
      /\ \A d \in ClaimId \ {m} : l.claim[d] = ledger.claim[d]
  BY <1>2, Filed
<1>4. l.paidOut = ledger.paidOut /\ l.cooldown = ledger.cooldown /\ l.claim[m].at = now
  <2>1. l.paidOut = ledger.paidOut /\ l.cooldown = ledger.cooldown
    BY <1>1 DEF Submitted, LedgerType
  <2>2. l.claim = [ledger.claim EXCEPT ![m] =
          [policy |-> p, claimant |-> h, amount |-> x, payout |-> 0, at |-> now,
           deadline |-> now + DisputeWindow, evidence |-> e, status |-> "Pending"]]
    BY <1>1 DEF Submitted, LedgerType
  <2>3. l.claim[m].at = now
    BY <1>1, <1>3, <2>2
  <2> QED
    BY <2>1, <2>3
<1>5. now - ledger.cooldown[p] >= Cooldown
  BY <1>2 DEF MaySubmit, CooldownOver
<1>6. l.paidOut[m] = 0
  BY <1>3 DEF LedgerOK, Books, Decidable
<1>m. m \in Nat /\ m <= m /\ \A c \in 1 .. m : c = m \/ c \in 1 .. claimCount
  BY <1>1
<1>i. \A c \in 1 .. claimCount : c \in ClaimId \ {m}
  BY <1>1
<1>s. \A q \in PolicyId : k.policy[q].kind = l.policy[q].kind
  <2>1. SameTerms(l, k)
    <3> HIDE DEF l, m, k
    <3> QED
      BY <1>2, <1>3, <1>n, <1>m, DecisionKeeps
  <2> QED
    BY <2>1 DEF SameTerms
<1> HIDE DEF m, l
<1>7. /\ \A d \in ClaimId \ {m} : k.claim[d] = l.claim[d] /\ k.paidOut[d] = l.paidOut[d]
      /\ k.claim[m].policy = p
      /\ k.claim[m].at = l.claim[m].at /\ k.claim[m].status # "Pending"
      /\ (k.cooldown = l.cooldown /\ k.paidOut = l.paidOut) \/ k.cooldown[p] = now
      /\ \A q \in PolicyId \ {p} : k.cooldown[q] = l.cooldown[q]
  <2> HIDE DEF k
  <2>1. /\ k = Decide(l, m, TRUE) /\ LedgerOK(l, policyCount, m) /\ m \in ClaimId /\ Decidable(l, m)
        /\ m \in Nat /\ m <= m /\ p = l.claim[m].policy /\ policyCount \in 0 .. MaxPolicies
    BY <1>2, <1>3, <1>n, <1>m
  <2>2. Wrote(l, k, m)
    BY <2>1, DecisionWrites
  <2> QED
    BY <2>1, <2>2 DEF Wrote
<1>8. \A c \in 1 .. claimCount : k.claim[c] = ledger.claim[c] /\ k.paidOut[c] = ledger.paidOut[c]
  BY <1>3, <1>4, <1>7, <1>i
<1>9. ledger.cooldown[p] \in Nat /\ k.cooldown[p] \in {ledger.cooldown[p], now}
      /\ \A q \in PolicyId \ {p} : k.cooldown[q] = ledger.cooldown[q]
  BY <1>1, <1>4, <1>7
<1>a. ledger.cooldown[p] <= now /\ ledger.cooldown[p] <= k.cooldown[p]
  BY <1>5, <1>9, <1>n
<1>b. \A c \in 1 .. claimCount : ledger.claim[c].at \in Nat
  BY <1>1 DEF ClaimRecord
<1>c. ASSUME NEW c \in 1 .. claimCount, ledger'.policy[ledger.claim[c].policy].kind = "Event101"
      PROVE  /\ ledger.claim[c].status # "Pending"
             /\ ledger.paidOut[c] > 0 => /\ ledger.claim[c].at <= ledger.cooldown[ledger.claim[c].policy]
                                         /\ ledger.claim[c].at <= k.cooldown[ledger.claim[c].policy]
  <2>1. ledger.policy[ledger.claim[c].policy].kind = "Event101"
    BY <1>1, <1>3, <1>s, <1>c
  <2>2. /\ ledger.claim[c].status # "Pending"
        /\ ledger.paidOut[c] > 0 => ledger.claim[c].at <= ledger.cooldown[ledger.claim[c].policy]
    BY <2>1 DEF PacedIInv, Paced, Policy, Claim
  <2>3. CASE ledger.claim[c].policy = p
    BY <1>9, <1>a, <1>b, <1>n, <2>2, <2>3
  <2>4. CASE ledger.claim[c].policy # p
    BY <1>1, <1>9, <2>2, <2>4
  <2> QED
    BY <2>2, <2>3, <2>4
<1>10. Paced'
  <2> SUFFICES ASSUME NEW c \in 1 .. m,
                      k.policy[k.claim[c].policy].kind = "Event101"
               PROVE  /\ k.claim[c].status # "Pending"
                      /\ k.paidOut[c] > 0 => k.claim[c].at <= k.cooldown[k.claim[c].policy]
    BY <1>2 DEF Paced, Policy, Claim
  <2>1. CASE c = m
    <3>1. k.paidOut[m] > 0 => k.cooldown[p] = now
      BY <1>6, <1>7
    <3> QED
      BY <1>4, <1>7, <1>n, <2>1, <3>1
  <2>2. CASE c \in 1 .. claimCount
    BY <1>8, <1>c, <2>2
  <2> QED
    BY <1>m, <2>1, <2>2
<1>11. SpacedOut'
  <2> SUFFICES ASSUME NEW c \in 1 .. m, NEW d \in 1 .. c - 1,
                      k.claim[c].policy = k.claim[d].policy,
                      k.policy[k.claim[c].policy].kind = "Event101",
                      k.paidOut[d] > 0
               PROVE  k.claim[d].at + Cooldown <= k.claim[c].at
    BY <1>2 DEF SpacedOut, Policy, Claim
  <2>d. d \in 1 .. claimCount
    BY <1>1, <1>m DEF m
  <2>1. CASE c = m
    <3>1. ledger.claim[d].policy = p /\ ledger.claim[d].at <= ledger.cooldown[p]
      BY <1>7, <1>8, <1>c, <2>1, <2>d
    <3>2. k.claim[c].at = now /\ k.claim[d].at = ledger.claim[d].at
      BY <1>4, <1>7, <1>8, <2>1, <2>d
    <3>3. ledger.claim[d].at \in Nat
      BY <1>b, <2>d
    <3> QED
      BY ONLY <1>5, <1>9, <1>n, <3>1, <3>2, <3>3
  <2>2. CASE c \in 1 .. claimCount
    <3>1. /\ ledger.claim[c].policy = ledger.claim[d].policy /\ ledger.paidOut[d] > 0
          /\ k.policy[ledger.claim[c].policy].kind = "Event101"
          /\ k.claim[c].at = ledger.claim[c].at /\ k.claim[d].at = ledger.claim[d].at
      BY <1>8, <2>2, <2>d
    <3>2. ledger.policy[ledger.claim[c].policy].kind = "Event101"
      BY <1>1, <1>3, <1>s, <2>2, <3>1
    <3> QED
      BY <2>2, <3>1, <3>2 DEF PacedIInv, SpacedOut, Policy, Claim
  <2> QED
    BY <1>m, <2>1, <2>2
<1> QED
  BY <1>10, <1>11 DEF PacedIInv

(* Every message, and the clock, keeps the pace.                           *)
LEMMA NextPaced ==
  ASSUME InsuranceClaimsAssumption, CoverIInv, PacedIInv, [CoverNext]_coverVars
  PROVE  PacedIInv'
<1>f. /\ ledger \in LedgerType /\ ledger.policy \in [PolicyId -> PolicyRecord]
      /\ LedgerOK(ledger, policyCount, claimCount) /\ claimCount \in Nat /\ policyCount \in Nat
      /\ policyCount \in 0 .. MaxPolicies /\ now \in Nat
      /\ \A p \in 1 .. policyCount : p \in PolicyId
  BY CoverFacts, CoverConstants DEF PolicyId
<1>q. ASSUME ledger'.claim = ledger.claim, ledger'.cooldown = ledger.cooldown,
             ledger'.paidOut = ledger.paidOut, claimCount' = claimCount,
             \A p \in 1 .. policyCount : ledger'.policy[p].kind = ledger.policy[p].kind
      PROVE  PacedIInv'
  <2>1. Quiet(ledger, ledger')
    BY <1>q DEF Quiet
  <2> QED
    BY <1>q, <2>1, QuietKeepsPace
<1>1. ASSUME NEW h \in Holders, NEW cov \in Coverages, NEW ded \in Deductibles,
             NEW d \in Durations, NEW kind \in Kinds, CreatePolicy(h, cov, ded, d, kind)
      PROVE  PacedIInv'
  <2> DEFINE new == [holder |-> h, coverage |-> cov, deductible |-> ded, end |-> now + d,
                     kind |-> kind, claimed |-> 0, status |-> "Active"]
             v == ledger.available + PremiumShare
  <2>1. ledger' = [ledger EXCEPT !.available = v, !.policy[policyCount + 1] = new]
        /\ claimCount' = claimCount
    BY <1>1 DEF CreatePolicy, submission
  <2> HIDE DEF new, v
  <2>2. /\ ledger'.claim = ledger.claim /\ ledger'.cooldown = ledger.cooldown
        /\ ledger'.paidOut = ledger.paidOut
        /\ ledger'.policy = [ledger.policy EXCEPT ![policyCount + 1] = new]
    BY <1>f, <2>1 DEF LedgerType
  <2>3. \A p \in 1 .. policyCount : ledger'.policy[p] = ledger.policy[p]
    BY <1>f, <2>2
  <2> QED
    BY <1>q, <2>1, <2>2, <2>3
<1>2. ASSUME NEW h \in Holders, NEW p \in PolicyId, PurchaseToken(p, h) PROVE PacedIInv'
  <2>1. ledger' = [ledger EXCEPT !.policy[p].holder = h] /\ claimCount' = claimCount
    BY <1>2 DEF PurchaseToken, submission
  <2>2. /\ ledger'.claim = ledger.claim /\ ledger'.cooldown = ledger.cooldown
        /\ ledger'.paidOut = ledger.paidOut
        /\ ledger'.policy = [ledger.policy EXCEPT ![p].holder = h]
    BY <1>f, <2>1 DEF LedgerType
  <2>3. \A q \in PolicyId : ledger'.policy[q].kind = ledger.policy[q].kind
    BY <1>f, <2>2 DEF PolicyRecord
  <2> QED
    BY <1>f, <1>q, <2>1, <2>2, <2>3
<1>3. ASSUME NEW p \in PolicyId, CancelPolicy(p) PROVE PacedIInv'
  <2>1. ledger' = [ledger EXCEPT !.policy[p].status = "Cancelled"] /\ claimCount' = claimCount
    BY <1>3 DEF CancelPolicy, submission
  <2>2. /\ ledger'.claim = ledger.claim /\ ledger'.cooldown = ledger.cooldown
        /\ ledger'.paidOut = ledger.paidOut
        /\ ledger'.policy = [ledger.policy EXCEPT ![p].status = "Cancelled"]
    BY <1>f, <2>1 DEF LedgerType
  <2>3. \A q \in PolicyId : ledger'.policy[q].kind = ledger.policy[q].kind
    BY <1>f, <2>2 DEF PolicyRecord
  <2> QED
    BY <1>f, <1>q, <2>1, <2>2, <2>3
<1>4. ASSUME NEW p \in PolicyId, NEW d \in Durations, RenewPolicy(p, d) PROVE PacedIInv'
  <2> DEFINE e == ledger.policy[p].end + d
             v == ledger.available + PremiumShare
  <2>1. /\ ledger' = [ledger EXCEPT !.available = v, !.policy = [ledger.policy EXCEPT
                        ![p].end = e, ![p].status = "Renewed"]]
        /\ claimCount' = claimCount
    BY <1>f, <1>4 DEF RenewPolicy, submission, LedgerType
  <2> HIDE DEF e, v
  <2>2. /\ ledger'.claim = ledger.claim /\ ledger'.cooldown = ledger.cooldown
        /\ ledger'.paidOut = ledger.paidOut
        /\ ledger'.policy = [ledger.policy EXCEPT ![p].end = e, ![p].status = "Renewed"]
    BY <1>f, <2>1 DEF LedgerType
  <2>3. \A q \in PolicyId : ledger'.policy[q].kind = ledger.policy[q].kind
    BY <1>f, <2>2 DEF PolicyRecord
  <2> QED
    BY <1>f, <1>q, <2>1, <2>2, <2>3
<1>5. ASSUME NEW limit \in 0 .. MaxPolicies, ExpirePolicies(limit) PROVE PacedIInv'
  <2> DEFINE gone == FirstOverdue(IF limit = 0 THEN policyCount ELSE limit)
             pol == [p \in PolicyId |-> IF p \in gone THEN [ledger.policy[p] EXCEPT !.status = "Expired"]
                                                      ELSE ledger.policy[p]]
  <2>1. ledger' = [ledger EXCEPT !.policy = pol] /\ claimCount' = claimCount
    BY <1>5 DEF ExpirePolicies, submission, Policy
  <2>2. \A q \in PolicyId : pol[q].kind = ledger.policy[q].kind
    <3> HIDE DEF gone
    <3> QED
      BY <1>f DEF PolicyRecord
  <2> HIDE DEF pol
  <2>3. /\ ledger'.claim = ledger.claim /\ ledger'.cooldown = ledger.cooldown
        /\ ledger'.paidOut = ledger.paidOut /\ ledger'.policy = pol
    BY <1>f, <2>1 DEF LedgerType
  <2> QED
    BY <1>f, <1>q, <2>1, <2>2, <2>3
<1>6. CASE UNCHANGED <<ledger, claimCount>>
  BY <1>6, <1>q
<1>7. ASSUME NEW c \in ClaimId, MoveToDispute(c) PROVE PacedIInv'
  <2>1. ledger' = [ledger EXCEPT !.claim[c].status = "Disputed"] /\ claimCount' = claimCount
    BY <1>7 DEF MoveToDispute, submission
  <2>2. /\ ledger'.policy = ledger.policy /\ ledger'.cooldown = ledger.cooldown
        /\ ledger'.paidOut = ledger.paidOut
        /\ ledger'.claim = [ledger.claim EXCEPT ![c].status = "Disputed"]
    BY <1>f, <2>1 DEF LedgerType
  <2>3. \A d \in ClaimId : /\ ledger'.claim[d].policy = ledger.claim[d].policy
                           /\ ledger'.claim[d].at = ledger.claim[d].at
                           /\ ledger'.claim[d].status \in {ledger.claim[d].status, "Disputed"}
    <3>1. ledger.claim \in [ClaimId -> ClaimRecord]
      BY <1>f, LedgerFields
    <3> QED
      BY <2>2, <3>1 DEF ClaimRecord
  <2>4. Quiet(ledger, ledger')
    BY <2>2, <2>3 DEF Quiet
  <2> QED
    BY <2>1, <2>2, <2>4, QuietKeepsPace
<1>8. ASSUME Quiet(ledger, ledger'), SameTerms(ledger, ledger'), claimCount' = claimCount
      PROVE  PacedIInv'
  <2>1. \A p \in 1 .. policyCount : ledger'.policy[p].kind = ledger.policy[p].kind
    BY <1>f, <1>8 DEF SameTerms
  <2> QED
    BY <1>8, <2>1, QuietKeepsPace
<1>9. ASSUME NEW c \in ClaimId, NEW a \in BOOLEAN, ProcessClaim(c, a) PROVE PacedIInv'
  <2>1. ledger' = Decide(ledger, c, a) /\ Decidable(ledger, c) /\ claimCount' = claimCount
    BY <1>9 DEF ProcessClaim, submission
  <2>2. Quiet(ledger, ledger') /\ SameTerms(ledger, ledger')
    BY <1>f, <2>1, DecisionKeeps, DecisionIsQuiet
  <2> QED
    BY <1>8, <2>1, <2>2
<1>10. ASSUME NEW ids \in BatchLists, NEW a \in BOOLEAN, ProcessBatch(ids, a) PROVE PacedIInv'
  <2> DEFINE taken == SubSeq(ids, 1, Least(Len(ids), MAX_BATCH_SIZE))
  <2>1. ledger' = DecideEach(ledger, taken, a) /\ claimCount' = claimCount
    BY <1>10 DEF ProcessBatch, submission
  <2>2. taken \in Seq(Nat)
    BY BatchTaken
  <2> HIDE DEF taken
  <2>3. Quiet(ledger, ledger') /\ SameTerms(ledger, ledger')
    BY <1>f, <2>1, <2>2, BatchKeeps
  <2> QED
    BY <1>8, <2>1, <2>3
<1>11. CASE (\E b \in BOOLEAN : PauseCover(b)) \/ CoverTick \/ \E p \in PolicyId : ListTokenForSale(p)
  BY <1>6, <1>11 DEF PauseCover, CoverTick, ListTokenForSale, submission
<1>12. CASE UNCHANGED coverVars
  BY <1>6, <1>12 DEF coverVars, submission
<1> QED
  BY <1>1, <1>2, <1>3, <1>4, <1>5, <1>7, <1>9, <1>10, <1>11, <1>12,
     SubmitKeepsPace, ParametricKeepsPace DEF CoverNext

(* On a standard policy evidence supports one claim, and a claim on event  *)
(* 101 that repeats the evidence of one that was paid came a cooldown      *)
(* later.                                                                  *)
THEOREM EvidenceIsSpent == ASSUME InsuranceClaimsAssumption PROVE CoverSpec => []ReplayIsParametric
<1>1. CoverInit => PacedIInv
  <2>1. CoverInit => claimCount = 0
    BY DEF CoverInit
  <2> QED
    BY <2>1 DEF PacedIInv, Paced, SpacedOut
<1>2. CoverIInv /\ PacedIInv /\ [CoverNext]_coverVars => PacedIInv'
  BY NextPaced
<1>3. ASSUME CoverIInv, PacedIInv PROVE ReplayIsParametric
  <2> SUFFICES ASSUME NEW c \in 1 .. claimCount, NEW d \in 1 .. c - 1,
                      Claim(c).policy = Claim(d).policy, Claim(c).evidence = Claim(d).evidence
               PROVE  /\ Policy(Claim(c).policy).kind = "Event101"
                      /\ ledger.paidOut[d] > 0 => Claim(d).at + Cooldown <= Claim(c).at
    BY DEF ReplayIsParametric
  <2>1. /\ claimCount \in Nat /\ c \in ClaimId /\ ledger.claim[c].policy \in PolicyId
        /\ d \in 1 .. claimCount /\ d # c
    BY <1>3, ClaimsThereAre
  <2>2. d \in ClaimId /\ c <= claimCount /\ d <= claimCount
    BY <1>3, <2>1, ClaimsThereAre
  <2>3. Policy(Claim(c).policy).kind \in {"Standard", "Event101"}
    <3>1. ledger.policy \in [PolicyId -> PolicyRecord]
      BY <1>3, CoverFacts
    <3> QED
      BY <2>1, <3>1 DEF PolicyRecord, Policy, Claim
  <2>4. ~(Policy(Claim(c).policy).kind = "Standard")
    BY <1>3, <2>1, <2>2 DEF CoverIInv, SpentOnce, Standard
  <2> QED
    BY <1>3, <2>3, <2>4 DEF PacedIInv, SpacedOut
<1>4. CoverIInv /\ PacedIInv => ReplayIsParametric
  BY <1>3
<1> QED
  BY CoverInvariance, <1>1, <1>2, <1>4, PTL DEF CoverSpec

(* The pool, the policies and the claims agree on what was paid; no claim  *)
(* is paid twice, in a batch or alone, nor on the evidence of another,     *)
(* except on a parametric policy, and there not within a cooldown.         *)
THEOREM PayoutsAreTrue == ASSUME InsuranceClaimsAssumption PROVE CoverSpec => []ClaimsBooksTrue
<1>1. ASSUME InsuranceClaimsAssumption, CoverIInv PROVE BooksAgree /\ PaidAtMostOnce
  <2>1. \A p : On(ledger, p) = ClaimsOf(p)
    BY DEF On, ClaimsOf, Claim
  <2>2. LedgerOK(ledger, policyCount, claimCount) /\ claimCount \in 0 .. MaxClaims
        /\ policyCount \in 0 .. MaxPolicies
    BY <1>1, CoverFacts
  <2>3. BooksAgree
    BY <2>1, <2>2 DEF LedgerOK, Books, BooksAgree, PaidOn, Policy
  <2>4. \A c \in 1 .. claimCount : c \in ClaimId /\ ledger.claim[c].policy \in PolicyId
    BY <1>1, ClaimsThereAre
  <2>5. PaidAtMostOnce
    BY <2>2, <2>4 DEF LedgerOK, Books, PaidAtMostOnce, Claim, Policy
  <2> QED
    BY <2>3, <2>5
<1>2. CoverIInv => BooksAgree /\ PaidAtMostOnce
  BY <1>1
<1>3. BooksAgree /\ PaidAtMostOnce /\ ReplayIsParametric => ClaimsBooksTrue
  BY DEF ClaimsBooksTrue
<1> QED
  BY CoverInvariance, EvidenceIsSpent, <1>2, <1>3, PTL

-----------------------------------------------------------------------------
(* Evidence.                                                              *)

EvidenceIInv == EvidenceTypeOK /\ EvidenceRecordsTrue

(* The records start empty.                                                *)
LEMMA InitEvidence == EvidenceAssumption /\ EvidenceInit => EvidenceIInv
<1> SUFFICES ASSUME EvidenceAssumption, EvidenceInit PROVE EvidenceIInv
  OBVIOUS
<1>1. /\ item = <<>> /\ verifications = <<>> /\ Len(item) = 0 /\ Len(verifications) = 0
      /\ DOMAIN item = {} /\ MaxEvidence \in Nat
  BY DEF EvidenceInit, EvidenceAssumption
<1>2. /\ claimEvidence \in [Claims -> Seq(1 .. MaxEvidence)]
      /\ evidenceIds \in [Claims -> Seq(1 .. MaxEvidence)]
  BY DEF EvidenceInit
<1>3. EvidenceTypeOK
  BY <1>1, <1>2 DEF EvidenceTypeOK
<1>4. \A c \in Claims : claimEvidence[c] = <<>> /\ evidenceIds[c] = <<>>
  BY DEF EvidenceInit
<1>5. ListsAgree
  BY <1>1, <1>4 DEF ListsAgree
<1> QED
  BY <1>1, <1>3, <1>5 DEF EvidenceIInv, EvidenceRecordsTrue, FlagIsTrue

(* What the majority verified has a favourable verification.               *)
LEMMA MajorityHasOne ==
  ASSUME NEW vs \in Seq(Verdicts), 2 * Cardinality(Favourable(vs)) > Len(vs)
  PROVE  Favourable(vs) # {}
<1>1. Len(vs) \in Nat
  OBVIOUS
<1> SUFFICES ASSUME Favourable(vs) = {} PROVE FALSE
  OBVIOUS
<1>2. Cardinality(Favourable(vs)) = 0
  BY FS_EmptySet
<1> QED
  BY <1>1, <1>2

(* Two sequences, one after the other.                                     *)
JoinedAs(r, s, t, m, n) ==
  /\ Len(r) = m + n /\ DOMAIN r = 1 .. m + n
  /\ \A k \in 1 .. m : r[k] = s[k]
  /\ \A k \in 1 .. m + n : k \notin 1 .. m => k - m \in 1 .. n /\ r[k] = t[k - m]

(* That is what concatenation is.                                          *)
LEMMA Joined ==
  ASSUME NEW S, NEW s \in Seq(S), NEW t \in Seq(S)
  PROVE  s \o t \in Seq(S) /\ JoinedAs(s \o t, s, t, Len(s), Len(t))
BY ConcatProperties DEF JoinedAs

(* An item without verifications follows them.                             *)
LEMMA FlagOfNew ==
  ASSUME EvidenceAssumption, NEW x \in Filers, NEW c \in Claims
  PROVE  NewItem(x, c) \in Items /\ FlagFollows(NewItem(x, c), <<>>)
<1>1. NewItem(x, c) \in Items /\ ~NewItem(x, c).verified
  BY DEF NewItem, Items
<1>2. Favourable(<<>>) = {}
  BY DEF Favourable
<1> QED
  BY <1>1, <1>2 DEF FlagFollows, IsInjective

(* A verification is added, and the flag set by the first favourable one.  *)
Added(vs, x, valid) == Append(vs, [verifier |-> x, valid |-> valid])
Flagged(i, x, valid) ==
  IF valid /\ ~i.verified THEN [i EXCEPT !.verified = TRUE, !.by = x] ELSE i

(* Then the flag still follows the verifications.                          *)
LEMMA FlagOfVerified ==
  ASSUME NEW i \in Items, NEW vs \in Seq(Verdicts), FlagFollows(i, vs),
         NEW x \in Reviewers, NEW valid \in BOOLEAN, \A k \in DOMAIN vs : vs[k].verifier # x
  PROVE  /\ Flagged(i, x, valid) \in Items /\ Added(vs, x, valid) \in Seq(Verdicts)
         /\ FlagFollows(Flagged(i, x, valid), Added(vs, x, valid))
         /\ Flagged(i, x, valid).claim = i.claim
         /\ Flagged(i, x, valid).submitter = i.submitter
<1> DEFINE n == Len(vs) + 1
           ws == Added(vs, x, valid)
           j == Flagged(i, x, valid)
<1>1. /\ ws \in Seq(Verdicts) /\ DOMAIN ws = 1 .. n /\ DOMAIN vs = 1 .. n - 1 /\ n \in Nat \ {0}
      /\ ws[n].verifier = x /\ ws[n].valid = valid
      /\ \A k \in DOMAIN vs : ws[k] = vs[k]
  BY DEF Verdicts, Added
<1>0. /\ j.claim = i.claim /\ j.submitter = i.submitter
      /\ IF valid /\ ~i.verified THEN j.verified /\ j.by = x ELSE j = i
  BY DEF Items, Flagged
<1>01. j \in Items
  BY DEF Items, Flagged
<1> HIDE DEF ws, j, n
<1>2. j \in Items /\ i.verified \in BOOLEAN /\ j.verified \in BOOLEAN
  BY <1>01 DEF Items
<1>3. Favourable(ws) = Favourable(vs) \union (IF valid THEN {n} ELSE {})
  <2>1. n \notin DOMAIN vs /\ DOMAIN ws = DOMAIN vs \union {n}
    BY <1>1
  <2>2. CASE valid
    BY <1>1, <2>1, <2>2 DEF Favourable
  <2>3. CASE ~valid
    BY <1>1, <2>1, <2>3 DEF Favourable
  <2> QED
    BY <2>2, <2>3
<1>4. IsInjective([k \in DOMAIN ws |-> ws[k].verifier])
  <2>1. ASSUME NEW a \in DOMAIN ws, NEW b \in DOMAIN ws, ws[a].verifier = ws[b].verifier
        PROVE  a = b
    <3>1. \A k, l \in DOMAIN vs : vs[k].verifier = vs[l].verifier => k = l
      BY DEF FlagFollows, IsInjective
    <3> QED
      BY <1>1, <2>1, <3>1
  <2> QED
    BY <2>1 DEF IsInjective
<1>5. j.verified <=> Favourable(ws) # {}
  BY <1>0, <1>2, <1>3 DEF FlagFollows
<1>6. ASSUME NEW k \in Favourable(ws), \A l \in Favourable(ws) : k <= l
      PROVE  j.by = ws[k].verifier
  <2>0. Favourable(vs) \subseteq 1 .. n - 1
    BY <1>1 DEF Favourable
  <2>1. CASE k \in Favourable(vs)
    <3>1. i.verified /\ j = i
      BY <1>0, <2>1 DEF FlagFollows
    <3>2. i.by = vs[k].verifier
      BY <1>3, <1>6, <2>1 DEF FlagFollows
    <3> QED
      BY <1>1, <2>0, <2>1, <3>1, <3>2
  <2>2. CASE k \notin Favourable(vs)
    <3>1. k = n /\ valid
      BY <1>3, <2>2
    <3>2. Favourable(vs) = {}
      BY <1>1, <1>3, <1>6, <2>0, <3>1
    <3>3. ~i.verified
      BY <3>2 DEF FlagFollows
    <3> QED
      BY <1>0, <1>1, <3>1, <3>3
  <2> QED
    BY <2>1, <2>2
<1> QED
  BY <1>0, <1>1, <1>2, <1>4, <1>5, <1>6 DEF FlagFollows, ws, j

(* A verification keeps the records in agreement.                          *)
LEMMA VerifyKeeps ==
  ASSUME EvidenceAssumption, EvidenceIInv, NEW x \in Reviewers, NEW e \in DOMAIN item,
         NEW valid \in BOOLEAN, VerifyEvidence(x, e, valid)
  PROVE  EvidenceIInv'
<1> DEFINE vs == verifications[e]
           ws == Added(vs, x, valid)
           j == Flagged(item[e], x, valid)
<1>1. /\ item \in Seq(Items) /\ verifications \in Seq(Seq(Verdicts))
      /\ DOMAIN item = 1 .. Len(item) /\ DOMAIN verifications = DOMAIN item
      /\ Len(item) = Len(verifications) /\ Len(item) \in Nat
      /\ item[e] \in Items /\ vs \in Seq(Verdicts)
  BY DEF EvidenceIInv, EvidenceTypeOK
<1>2. /\ j \in Items /\ ws \in Seq(Verdicts) /\ FlagFollows(j, ws)
      /\ j.claim = item[e].claim /\ j.submitter = item[e].submitter
  <2>1. FlagFollows(item[e], vs)
    BY DEF EvidenceIInv, EvidenceRecordsTrue, FlagIsTrue
  <2>2. \A k \in DOMAIN vs : vs[k].verifier # x
    BY DEF VerifyEvidence, HasVerified
  <2> HIDE DEF vs
  <2> QED
    BY <1>1, <2>1, <2>2, FlagOfVerified
<1>4. /\ item' = [item EXCEPT ![e] = j] /\ verifications' = [verifications EXCEPT ![e] = ws]
      /\ UNCHANGED <<claimEvidence, evidenceIds>>
  <2>1. verifications' = [verifications EXCEPT ![e] = ws] /\ UNCHANGED <<claimEvidence, evidenceIds>>
    BY DEF VerifyEvidence, Added
  <2>2. CASE valid /\ ~item[e].verified
    <3>1. item' = [item EXCEPT ![e].verified = TRUE, ![e].by = x]
      BY <2>2 DEF VerifyEvidence, SetsFlag
    <3>2. item' = [item EXCEPT ![e] = [item[e] EXCEPT !.verified = TRUE, !.by = x]]
      BY <3>1
    <3> QED
      BY <2>1, <2>2, <3>2 DEF Flagged
  <2>3. CASE ~(valid /\ ~item[e].verified)
    <3>1. item' = item /\ j = item[e]
      BY <2>3 DEF VerifyEvidence, SetsFlag, Flagged
    <3> QED
      BY <1>1, <2>1, <3>1
  <2> QED
    BY <2>2, <2>3
<1> HIDE DEF j, ws
<1>5. /\ item' \in Seq(Items) /\ verifications' \in Seq(Seq(Verdicts))
      /\ DOMAIN item' = DOMAIN item /\ Len(item') = Len(item)
      /\ Len(verifications') = Len(verifications)
      /\ item'[e] = j /\ verifications'[e] = ws
      /\ \A d \in DOMAIN item : d # e => item'[d] = item[d] /\ verifications'[d] = verifications[d]
  BY <1>1, <1>2, <1>4
<1>6. \A d \in DOMAIN item : item'[d].claim = item[d].claim
                             /\ item'[d].submitter = item[d].submitter
  BY <1>2, <1>5
<1>7. EvidenceTypeOK'
  BY <1>4, <1>5, <1>6 DEF EvidenceIInv, EvidenceTypeOK, Entitled
<1>8. ListsAgree'
  BY <1>4, <1>5, <1>6 DEF EvidenceIInv, EvidenceRecordsTrue, ListsAgree
<1>9. FlagIsTrue'
  <2>1. \A d \in DOMAIN item' : FlagFollows(item'[d], verifications'[d])
    BY <1>2, <1>5 DEF EvidenceIInv, EvidenceRecordsTrue, FlagIsTrue
  <2>2. ASSUME NEW d \in DOMAIN item', IsEvidenceVerified(d)' PROVE item'[d].verified
    <3>1. verifications'[d] \in Seq(Verdicts)
      BY <1>1, <1>5
    <3>2. Favourable(verifications'[d]) # {}
      BY <2>2, <3>1, MajorityHasOne DEF IsEvidenceVerified
    <3> QED
      BY <2>1, <3>2 DEF FlagFollows
  <2> QED
    BY <2>1, <2>2 DEF FlagIsTrue
<1> QED
  BY <1>7, <1>8, <1>9 DEF EvidenceIInv, EvidenceRecordsTrue

(* So do items that are filed, alone or several at once.                   *)
LEMMA SubmitKeeps ==
  ASSUME EvidenceAssumption, EvidenceIInv, NEW x \in Filers, NEW c \in Claims,
         NEW n \in Nat \ {0}, Submit(x, c, n)
  PROVE  EvidenceIInv'
<1> DEFINE m == Len(item)
           new == [k \in 1 .. n |-> NewItem(x, c)]
           none == [k \in 1 .. n |-> <<>>]
           ids == [k \in 1 .. n |-> m + k]
           list == claimEvidence[c] \o ids
<1>1. /\ item \in Seq(Items) /\ verifications \in Seq(Seq(Verdicts))
      /\ m \in Nat /\ Len(verifications) = m /\ m <= MaxEvidence /\ MaxEvidence \in Nat
      /\ DOMAIN item = 1 .. m /\ DOMAIN verifications = 1 .. m
      /\ claimEvidence \in [Claims -> Seq(1 .. MaxEvidence)]
      /\ evidenceIds \in [Claims -> Seq(1 .. MaxEvidence)]
  BY DEF EvidenceIInv, EvidenceTypeOK, EvidenceAssumption
<1>2. /\ item' = item \o new /\ verifications' = verifications \o none
      /\ claimEvidence' = [claimEvidence EXCEPT ![c] = list]
      /\ evidenceIds' = [evidenceIds EXCEPT ![c] = list]
      /\ m + n <= MaxEvidence /\ Entitled(x, c)
  BY DEF Submit
<1>3. NewItem(x, c) \in Items /\ FlagFollows(NewItem(x, c), <<>>)
  BY FlagOfNew
<1>4. new \in Seq(Items) /\ Len(new) = n /\ \A k \in 1 .. n : new[k] = NewItem(x, c)
  BY <1>3, IsASeq
<1>5. none \in Seq(Seq(Verdicts)) /\ Len(none) = n /\ \A k \in 1 .. n : none[k] = <<>>
  BY IsASeq
<1>6. ids \in Seq(1 .. MaxEvidence) /\ Len(ids) = n /\ \A k \in 1 .. n : ids[k] = m + k
  BY <1>1, <1>2, IsASeq
<1>7. NewItem(x, c).claim = c /\ NewItem(x, c).submitter = x
  BY DEF NewItem
<1> HIDE DEF new, none, ids, m
<1>8. /\ item' \in Seq(Items) /\ Len(item') = m + n /\ DOMAIN item' = 1 .. m + n
      /\ \A e \in 1 .. m : item'[e] = item[e]
      /\ \A e \in 1 .. m + n : e \notin 1 .. m => item'[e] = NewItem(x, c)
  <2>1. m = Len(item)
    BY DEF m
  <2>2. item' \in Seq(Items) /\ JoinedAs(item', item, new, m, n)
    BY <1>1, <1>2, <1>4, <2>1, Joined
  <2> QED
    BY <1>4, <2>2 DEF JoinedAs
<1>9. /\ verifications' \in Seq(Seq(Verdicts)) /\ Len(verifications') = m + n
      /\ \A e \in 1 .. m : verifications'[e] = verifications[e]
      /\ \A e \in 1 .. m + n : e \notin 1 .. m => verifications'[e] = <<>>
  <2>1. /\ verifications' \in Seq(Seq(Verdicts))
        /\ JoinedAs(verifications', verifications, none, m, n)
    BY <1>1, <1>2, <1>5, Joined
  <2> QED
    BY <1>5, <2>1 DEF JoinedAs
<1> DEFINE old == claimEvidence[c]
           l == Len(old)
<1>10. /\ list \in Seq(1 .. MaxEvidence) /\ l \in Nat
       /\ DOMAIN list = 1 .. l + n /\ DOMAIN old = 1 .. l
       /\ \A k \in 1 .. l : list[k] = old[k]
       /\ \A k \in 1 .. l + n : k \notin 1 .. l => k - l \in 1 .. n /\ list[k] = m + (k - l)
  <2>1. old \in Seq(1 .. MaxEvidence) /\ l \in Nat /\ DOMAIN old = 1 .. l
    BY <1>1
  <2> HIDE DEF old
  <2> DEFINE L == old \o ids
  <2>2. L \in Seq(1 .. MaxEvidence) /\ JoinedAs(L, old, ids, l, n)
    BY <1>6, <2>1, Joined
  <2>3. L = list
    BY DEF old
  <2> QED
    BY <1>6, <2>1, <2>2, <2>3 DEF JoinedAs
<1> HIDE DEF list, l
<1>11. EvidenceTypeOK'
  <2>1. /\ claimEvidence' \in [Claims -> Seq(1 .. MaxEvidence)]
        /\ evidenceIds' \in [Claims -> Seq(1 .. MaxEvidence)]
    BY <1>1, <1>2, <1>10
  <2>2. \A e \in DOMAIN item' : Entitled(item'[e].submitter, item'[e].claim)
    <3>1. \A e \in 1 .. m : Entitled(item[e].submitter, item[e].claim)
      BY <1>1 DEF EvidenceIInv, EvidenceTypeOK
    <3> QED
      BY <1>2, <1>7, <1>8, <3>1
  <2> QED
    BY <1>2, <1>8, <1>9, <2>1, <2>2 DEF EvidenceTypeOK, Entitled
<1>12. ListsAgree'
  <2>1. ASSUME NEW d \in Claims, d # c
        PROVE  /\ evidenceIds'[d] = claimEvidence'[d]
               /\ {claimEvidence'[d][k] : k \in DOMAIN claimEvidence'[d]}
                    = {e \in DOMAIN item' : item'[e].claim = d}
               /\ \A j, k \in DOMAIN claimEvidence'[d] :
                    j < k => claimEvidence'[d][j] < claimEvidence'[d][k]
    <3>1. claimEvidence'[d] = claimEvidence[d] /\ evidenceIds'[d] = evidenceIds[d]
      BY <1>1, <1>2, <2>1
    <3>2. {e \in DOMAIN item' : item'[e].claim = d} = {e \in DOMAIN item : item[e].claim = d}
      BY <1>1, <1>7, <1>8, <2>1
    <3> QED
      BY <3>1, <3>2 DEF EvidenceIInv, EvidenceRecordsTrue, ListsAgree
  <2>2. /\ evidenceIds'[c] = list /\ claimEvidence'[c] = list
    BY <1>1, <1>2
  <2>3. /\ {old[k] : k \in DOMAIN old} = {e \in DOMAIN item : item[e].claim = c}
        /\ \A j, k \in DOMAIN old : j < k => old[j] < old[k]
    BY DEF EvidenceIInv, EvidenceRecordsTrue, ListsAgree
  <2>4. \A k \in DOMAIN old : old[k] \in 1 .. m
    BY <1>1, <2>3
  <2> HIDE DEF old
  <2>5. \A j, k \in DOMAIN list : j < k => list[j] < list[k]
    <3>1. ASSUME NEW j \in DOMAIN list, NEW k \in DOMAIN list, j < k PROVE list[j] < list[k]
      <4>1. CASE k \in 1 .. l
        BY <1>10, <2>3, <3>1, <4>1
      <4>2. CASE k \notin 1 .. l /\ j \in 1 .. l
        BY <1>1, <1>10, <2>4, <3>1, <4>2
      <4>3. CASE j \notin 1 .. l
        <5>1. k \notin 1 .. l /\ j \in Int /\ k \in Int /\ l \in Int
          BY <1>10, <3>1, <4>3
        <5>2. list[k] = m + (k - l) /\ list[j] = m + (j - l)
          BY <1>10, <4>3, <5>1
        <5> QED
          BY <1>1, <3>1, <5>1, <5>2
      <4> QED
        BY <4>1, <4>2, <4>3
    <3> QED
      BY <3>1
  <2>6. {list[k] : k \in DOMAIN list} = {e \in DOMAIN item' : item'[e].claim = c}
    <3>1. ASSUME NEW k \in DOMAIN list
          PROVE  list[k] \in DOMAIN item' /\ item'[list[k]].claim = c
      <4>1. CASE k \in 1 .. l
        <5>1. list[k] \in 1 .. m /\ item[list[k]].claim = c
          BY <1>1, <1>10, <2>3, <4>1
        <5> QED
          BY <1>1, <1>8, <5>1
      <4>2. CASE k \notin 1 .. l
        <5>1. list[k] \in 1 .. m + n /\ list[k] \notin 1 .. m
          BY <1>1, <1>10, <4>2
        <5> QED
          BY <1>7, <1>8, <5>1
      <4> QED
        BY <4>1, <4>2
    <3>2. ASSUME NEW e \in DOMAIN item', item'[e].claim = c
          PROVE  \E k \in DOMAIN list : e = list[k]
      <4>1. CASE e \in 1 .. m
        <5>1. PICK k \in DOMAIN old : old[k] = e
          BY <1>1, <1>8, <2>3, <3>2, <4>1
        <5> QED
          BY <1>10, <5>1
      <4>2. CASE e \notin 1 .. m
        <5>1. e \in 1 .. m + n
          BY <1>8
        <5>2. l + (e - m) \in 1 .. l + n /\ l + (e - m) \notin 1 .. l
          BY <1>1, <1>10, <4>2, <5>1
        <5>3. list[l + (e - m)] = e
          BY <1>1, <1>10, <5>1, <5>2
        <5> QED
          BY <1>10, <5>2, <5>3
      <4> QED
        BY <4>1, <4>2
    <3> QED
      BY <3>1, <3>2
  <2> QED
    BY <2>1, <2>2, <2>5, <2>6 DEF ListsAgree
<1>13. FlagIsTrue'
  <2>1. ASSUME NEW e \in DOMAIN item' PROVE FlagFollows(item'[e], verifications'[e])
    BY <1>1, <1>3, <1>8, <1>9 DEF EvidenceIInv, EvidenceRecordsTrue, FlagIsTrue
  <2>2. ASSUME NEW e \in DOMAIN item', IsEvidenceVerified(e)' PROVE item'[e].verified
    <3>1. verifications'[e] \in Seq(Verdicts)
      BY <1>8, <1>9
    <3>2. Favourable(verifications'[e]) # {}
      BY <2>2, <3>1, MajorityHasOne DEF IsEvidenceVerified
    <3> QED
      BY <2>1, <3>2 DEF FlagFollows
  <2> QED
    BY <2>1, <2>2 DEF FlagIsTrue
<1> QED
  BY <1>11, <1>12, <1>13 DEF EvidenceIInv, EvidenceRecordsTrue

(* Every message keeps the inductive invariant.                            *)
LEMMA NextEvidence ==
  EvidenceAssumption /\ EvidenceIInv /\ [EvidenceNext]_evidenceVars => EvidenceIInv'
<1> SUFFICES ASSUME EvidenceAssumption, EvidenceIInv, [EvidenceNext]_evidenceVars
             PROVE  EvidenceIInv'
  OBVIOUS
<1>1. ASSUME NEW x \in Filers, NEW c \in Claims, SubmitEvidence(x, c) PROVE EvidenceIInv'
  BY <1>1, SubmitKeeps DEF SubmitEvidence
<1>2. ASSUME NEW x \in Filers, NEW c \in Claims, NEW n \in 2 .. MaxEvidence,
             BatchSubmitEvidence(x, c, n)
      PROVE  EvidenceIInv'
  <2>1. n \in Nat \ {0}
    BY DEF EvidenceAssumption
  <2> QED
    BY <1>2, <2>1, SubmitKeeps DEF BatchSubmitEvidence
<1>3. ASSUME NEW x \in Reviewers, NEW e \in DOMAIN item, NEW valid \in BOOLEAN,
             VerifyEvidence(x, e, valid)
      PROVE  EvidenceIInv'
  BY <1>3, VerifyKeeps
<1>4. CASE UNCHANGED evidenceVars
  BY <1>4 DEF evidenceVars, EvidenceIInv, EvidenceTypeOK, EvidenceRecordsTrue, ListsAgree,
              FlagIsTrue, IsEvidenceVerified, Entitled
<1> QED
  BY <1>1, <1>2, <1>3, <1>4 DEF EvidenceNext

(* The inductive invariant holds in every reachable state.                 *)
THEOREM EvidenceInvariance == ASSUME EvidenceAssumption PROVE EvidenceSpec => []EvidenceIInv
<1>1. EvidenceIInv /\ [EvidenceNext]_evidenceVars => EvidenceIInv'
  BY NextEvidence
<1> QED
  BY InitEvidence, <1>1, PTL DEF EvidenceSpec

(* The lists of a claim, the flags of its items and their verifications    *)
(* agree.                                                                  *)
THEOREM EvidenceAgrees == ASSUME EvidenceAssumption PROVE EvidenceSpec => []EvidenceRecordsTrue
<1>1. EvidenceIInv => EvidenceRecordsTrue
  BY DEF EvidenceIInv
<1> QED
  BY EvidenceInvariance, <1>1, PTL

-----------------------------------------------------------------------------
(* The sides of the contract, as TLC explores them.                        *)

(* The side a behaviour is about keeps its own invariant, and block time   *)
(* and pause flag, the only state it shares with the others, their types.  *)
SidesIInv ==
  /\ StartTime = 1
  /\ AdminTypeOK /\ LiquidityTypeOK /\ CoverTypeOK /\ EvidenceIInv
  /\ side = "Pool" => LiquidityInv
  /\ side \in {"Terms", "Claims"} => CoverIInv
  /\ side = "Admin" => AdminIInv

LEMMA InitSides == InsuranceAssumption /\ MCInit => SidesIInv
<1> SUFFICES ASSUME InsuranceAssumption, MCInit PROVE SidesIInv
  OBVIOUS
<1>1. LiquidityInv /\ CoverIInv /\ AdminIInv /\ EvidenceIInv
  BY InitLiquidity, InitCover, InitAdmin, InitEvidence DEF InsuranceAssumption, MCInit
<1>2. StartTime = 1
  BY DEF MCInit, LiquidityInit, CoverInit
<1> QED
  BY <1>1, <1>2 DEF SidesIInv, LiquidityInv, CoverIInv, AdminIInv

(* A side that rests is as well typed as the time and the pause flag are.  *)
LEMMA RestingSides ==
  ASSUME SidesIInv, now' \in 1 .. MaxTime, paused' \in BOOLEAN
  PROVE  /\ UNCHANGED roleVars => AdminTypeOK'
         /\ UNCHANGED poolVars => LiquidityTypeOK'
         /\ UNCHANGED claimVars => CoverTypeOK'
<1>1. UNCHANGED roleVars => AdminTypeOK'
  BY DEF SidesIInv, roleVars, transferVars, AdminTypeOK
<1>2. UNCHANGED poolVars => LiquidityTypeOK'
  BY DEF SidesIInv, poolVars, money, ghosts, LiquidityTypeOK
<1>3. UNCHANGED claimVars => CoverTypeOK'
  BY DEF SidesIInv, claimVars, submission, issue, CoverTypeOK
<1> QED
  BY <1>1, <1>2, <1>3

LEMMA NextSides == InsuranceAssumption /\ SidesIInv /\ [MCNext]_allVars => SidesIInv'
<1> SUFFICES ASSUME InsuranceAssumption, SidesIInv, [MCNext]_allVars PROVE SidesIInv'
  OBVIOUS
<1> USE DEF InsuranceAssumption
<1>1. CASE side = "Pool" /\ LiquidityNext /\ UNCHANGED <<side, claimVars, roleVars, evidenceVars>>
  <2>1. LiquidityInv'
    BY <1>1, NextLiquidity DEF SidesIInv
  <2>2. LiquidityTypeOK' /\ now' \in 1 .. MaxTime /\ paused' \in BOOLEAN
    BY <2>1 DEF LiquidityInv, LiquidityTypeOK
  <2>3. EvidenceIInv'
    BY <1>1, NextEvidence DEF SidesIInv
  <2> QED
    BY <1>1, <2>1, <2>2, <2>3, RestingSides DEF SidesIInv
<1>2. CASE side \in {"Terms", "Claims"} /\ CoverNext /\ UNCHANGED <<side, poolVars, roleVars, evidenceVars>>
  <2>1. CoverIInv'
    BY <1>2, NextCover DEF SidesIInv
  <2>2. CoverTypeOK' /\ now' \in 1 .. MaxTime /\ paused' \in BOOLEAN
    BY <2>1 DEF SidesIInv, CoverIInv, CoverTypeOK
  <2>3. EvidenceIInv'
    BY <1>2, NextEvidence DEF SidesIInv
  <2> QED
    BY <1>2, <2>1, <2>2, <2>3, RestingSides DEF SidesIInv
<1>3. CASE side = "Admin" /\ AdminNext /\ UNCHANGED <<side, poolVars, claimVars, evidenceVars>>
  <2>1. AdminIInv'
    BY <1>3, NextAdmin DEF SidesIInv
  <2>2. AdminTypeOK' /\ now' \in 1 .. MaxTime /\ paused' \in BOOLEAN
    BY <2>1 DEF AdminIInv, AdminTypeOK
  <2>3. EvidenceIInv'
    BY <1>3, NextEvidence DEF SidesIInv
  <2> QED
    BY <1>3, <2>1, <2>2, <2>3, RestingSides DEF SidesIInv
<1>4. CASE \/ side = "Evidence" /\ EvidenceNext /\ UNCHANGED <<side, now, paused, poolVars, claimVars, roleVars>>
           \/ UNCHANGED allVars
  <2>1. EvidenceIInv'
    BY <1>4, NextEvidence DEF SidesIInv, allVars
  <2>2. UNCHANGED <<side, now, paused, poolVars, claimVars, roleVars>>
    BY <1>4 DEF allVars
  <2>3. now' \in 1 .. MaxTime /\ paused' \in BOOLEAN
    BY <2>2 DEF SidesIInv, LiquidityTypeOK
  <2>4. /\ side = "Pool" => LiquidityInv'
        /\ side \in {"Terms", "Claims"} => CoverIInv'
        /\ side = "Admin" => AdminIInv'
    <3>1. UNCHANGED liquidityVars /\ UNCHANGED coverVars /\ UNCHANGED adminVars
      BY <2>2 DEF liquidityVars, coverVars, adminVars, poolVars, claimVars, roleVars, pauseVars
    <3> QED
      BY <3>1, NextLiquidity, NextCover, NextAdmin DEF SidesIInv
  <2> QED
    BY <2>1, <2>2, <2>3, <2>4, RestingSides DEF SidesIInv
<1> QED
  BY <1>1, <1>2, <1>3, <1>4 DEF MCNext

(* The storage keeps its type on every side, for any accounts, amounts,    *)
(* rates, durations, batches and bounds the contract allows.               *)
THEOREM StorageTypeCorrect == ASSUME InsuranceAssumption PROVE MCSpec => []StorageTypeOK
<1>1. SidesIInv /\ [MCNext]_allVars => SidesIInv'
  BY NextSides
<1>2. SidesIInv => StorageTypeOK
  BY DEF SidesIInv, StorageTypeOK, EvidenceIInv
<1> QED
  BY InitSides, <1>1, <1>2, PTL DEF MCSpec
=============================================================================
