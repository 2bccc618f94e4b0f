---------------------------- MODULE EscrowPromise ---------------------------
(***************************************************************************)
(* What an escrow promises its parties: money goes in only until the       *)
(* agreed amount is there, it comes out once, all of it, and only when a   *)
(* quorum of distinct parties has agreed to the release.  Pauses, nonces,  *)
(* time locks and signature counters are left to the contract.             *)
(***************************************************************************)
EXTENDS Integers, FiniteSets

CONSTANTS EscrowId, Parties,
          Amounts,  \* what may be agreed to be held
          Quorums   \* how many parties may be asked to agree

VARIABLES terms,   \* amount, quorum and group of signers agreed on for an escrow
          phase,   \* none, open, funded, released
          held,    \* what it holds
          agreed   \* the parties that agreed to its release

vars == <<terms, phase, held, agreed>>

NoTerms == [amount |-> 0, quorum |-> 0, group |-> {}]

Init ==
  /\ terms = [id \in EscrowId |-> NoTerms]
  /\ phase = [id \in EscrowId |-> "none"]
  /\ held = [id \in EscrowId |-> 0]
  /\ agreed = [id \in EscrowId |-> {}]

(* What may be agreed on at the start.                                     *)
Offers == [amount : {x \in Amounts : x > 0}, quorum : Quorums \ {0}, group : SUBSET Parties]

Open(id) ==
  /\ phase[id] = "none"
  /\ phase' = [phase EXCEPT ![id] = "open"]
  /\ terms'[id] \in Offers
  /\ terms' = [terms EXCEPT ![id] = terms'[id]]
  /\ UNCHANGED <<held, agreed>>

PayIn(id) ==
  /\ phase[id] = "open"
  /\ \E x \in 1 .. terms[id].amount - held[id] :
       /\ held' = [held EXCEPT ![id] = @ + x]
       /\ phase' = [phase EXCEPT ![id] = IF held[id] + x = terms[id].amount
                                        THEN "funded" ELSE "open"]
  /\ UNCHANGED <<terms, agreed>>

Agree(id) ==
  /\ phase[id] # "none"
  /\ \E p \in terms[id].group \ agreed[id] : agreed' = [agreed EXCEPT ![id] = @ \union {p}]
  /\ UNCHANGED <<terms, phase, held>>

PayOut(id) ==
  /\ phase[id] = "funded"
  /\ Cardinality(agreed[id]) >= terms[id].quorum
  /\ held' = [held EXCEPT ![id] = 0]
  /\ phase' = [phase EXCEPT ![id] = "released"]
  /\ UNCHANGED <<terms, agreed>>

Next == \E id \in EscrowId : Open(id) \/ PayIn(id) \/ Agree(id) \/ PayOut(id)

Spec == Init /\ [][Next]_vars
=============================================================================
