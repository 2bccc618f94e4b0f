------------------------------ MODULE Evidence ------------------------------
(***************************************************************************)
(* The evidence that is filed for claims of the ink! insurance contract    *)
(* (contracts/insurance/src/insurance_impl.rs, "claims evidence            *)
(* verification system"): claimant, assessor and admin submit items, alone *)
(* or in batches, and assessors verify them, each once.                    *)
(*                                                                         *)
(* An item has two verdicts: its flag, which the first favourable          *)
(* verification sets and nothing clears, and the majority of its           *)
(* verifications, which may turn.                                          *)
(***************************************************************************)
EXTENDS Integers, Sequences, FiniteSets, SequencesExt

CONSTANTS Claims,          \* ids of claims there are
          Claimant,        \* of each of them
          Reviewers,       \* accounts with the roles Assessor and Admin
          NoVerifier,
          MaxEvidence      \* bound

(* What is assumed of the constants.                                       *)
EvidenceAssumption ==
  /\ Claimant \in [Claims -> STRING]
  /\ NoVerifier \notin Reviewers
  /\ MaxEvidence \in Nat

VARIABLES item,            \* evidence_items, ids being 1 .. evidence_count
          claimEvidence,   \* claim_evidence
          evidenceIds,     \* the field evidence_ids of the claim
          verifications    \* evidence_verifications

evidenceVars == <<item, claimEvidence, evidenceIds, verifications>>

EvidenceInit ==
  /\ item = <<>>
  /\ claimEvidence = [c \in Claims |-> <<>>]
  /\ evidenceIds = [c \in Claims |-> <<>>]
  /\ verifications = <<>>

-----------------------------------------------------------------------------
Filers == Reviewers \cup {Claimant[c] : c \in Claims}

(* The claimant, an admin, or the assessor who decided the claim; who that *)
(* was is left open, so that any of the reviewers may have been.           *)
Entitled(x, c) == x = Claimant[c] \/ x \in Reviewers

(* Type, hashes and size are in order, or nothing is stored.               *)
NewItem(x, c) == [claim |-> c, submitter |-> x, verified |-> FALSE, by |-> NoVerifier]

(* n items at once: submit_evidence stores one, and of a batch in which an *)
(* item is refused nothing stays.                                          *)
Submit(x, c, n) ==
  LET count == Len(item)
      list == claimEvidence[c] \o [k \in 1 .. n |-> count + k]
  IN  /\ Entitled(x, c)
      /\ count + n <= MaxEvidence
      /\ item' = item \o [k \in 1 .. n |-> NewItem(x, c)]
      /\ verifications' = verifications \o [k \in 1 .. n |-> <<>>]
      /\ claimEvidence' = [claimEvidence EXCEPT ![c] = list]
      /\ evidenceIds' = [evidenceIds EXCEPT ![c] = list]

SubmitEvidence(x, c) == Submit(x, c, 1)

BatchSubmitEvidence(x, c, n) == Submit(x, c, n)

HasVerified(x, e) == \E k \in DOMAIN verifications[e] : verifications[e][k].verifier = x

(* Mutant: each favourable verification is noted in the item.              *)
SetsFlagAlways(e, valid) == valid

SetsFlag(e, valid) == valid /\ ~ item[e].verified

VerifyEvidence(x, e, valid) ==
  /\ ~ HasVerified(x, e)
  /\ item' = IF SetsFlag(e, valid)
             THEN [item EXCEPT ![e].verified = TRUE, ![e].by = x]
             ELSE item
  /\ verifications' = [verifications EXCEPT
                        ![e] = Append(@, [verifier |-> x, valid |-> valid])]
  /\ UNCHANGED <<claimEvidence, evidenceIds>>

EvidenceNext ==
  \/ \E x \in Filers, c \in Claims :
       \/ SubmitEvidence(x, c)
       \/ \E n \in 2 .. MaxEvidence : BatchSubmitEvidence(x, c, n)
  \/ \E x \in Reviewers, e \in DOMAIN item, valid \in BOOLEAN : VerifyEvidence(x, e, valid)

EvidenceSpec == EvidenceInit /\ [][EvidenceNext]_evidenceVars

-----------------------------------------------------------------------------
Favourable(vs) == {k \in DOMAIN vs : vs[k].valid}

(* is_evidence_verified: more verifications for it than against it.        *)
IsEvidenceVerified(e) ==
  2 * Cardinality(Favourable(verifications[e])) > Len(verifications[e])

Items == [claim : Claims, submitter : Filers, verified : BOOLEAN,
          by : Reviewers \cup {NoVerifier}]
Verdicts == [verifier : Reviewers, valid : BOOLEAN]

(* Every item has an entry for its verifications, and was filed by someone *)
(* entitled to.                                                            *)
EvidenceTypeOK ==
  /\ item \in Seq(Items) /\ verifications \in Seq(Seq(Verdicts))
  /\ claimEvidence \in [Claims -> Seq(1 .. MaxEvidence)]
  /\ evidenceIds \in [Claims -> Seq(1 .. MaxEvidence)]
  /\ Len(item) = Len(verifications) /\ Len(item) <= MaxEvidence
  /\ \A e \in DOMAIN item : Entitled(item[e].submitter, item[e].claim)

(* A claim's two lists of evidence are one, hold the items filed for it in *)
(* the order they came, and no other.                                      *)
ListsAgree ==
  \A c \in Claims :
    /\ evidenceIds[c] = claimEvidence[c]
    /\ {claimEvidence[c][k] : k \in DOMAIN claimEvidence[c]}
         = {e \in DOMAIN item : item[e].claim = c}
    /\ \A j, k \in DOMAIN claimEvidence[c] :
         j < k => claimEvidence[c][j] < claimEvidence[c][k]

(* The flag of an item is set with its first favourable verification and   *)
(* names who gave it, and nobody's verification counts twice.              *)
FlagFollows(i, vs) ==
  /\ IsInjective([k \in DOMAIN vs |-> vs[k].verifier])
  /\ i.verified <=> Favourable(vs) # {}
  /\ \A k \in Favourable(vs) :
       (\A j \in Favourable(vs) : k <= j) => i.by = vs[k].verifier

(* An item the majority verified has its flag.                             *)
FlagIsTrue ==
  \A e \in DOMAIN item :
    /\ FlagFollows(item[e], verifications[e])
    /\ IsEvidenceVerified(e) => item[e].verified

(* insurance: claims, items of evidence and verifications agree.           *)
EvidenceRecordsTrue == ListsAgree /\ FlagIsTrue
=============================================================================
