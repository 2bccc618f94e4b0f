------------------------------ MODULE MCCustody ------------------------------
(***************************************************************************)
(* The contracts that hold property in custody, for TLC: the Soroban       *)
(* escrow and bridge - two participants and a list that names one of them  *)
(* twice, two operators and two interchangeable senders - and the ink!     *)
(* property token, its shares and its own bridge - two interchangeable     *)
(* holders, two operators.                                                 *)
(*                                                                         *)
(* None of them calls another and they share no storage: `subject' says    *)
(* which of them a behaviour is about, or which part of one.  The votes of *)
(* the shareholders read balances and change nothing else: dividends and   *)
(* market rest while a behaviour is about them.  An approval lets another  *)
(* account do what the owner may, and a pause only stops new requests:     *)
(* both rest while a behaviour is about a token's way over the bridge.     *)
(*                                                                         *)
(* The Soroban bridge has three subjects: one sender's requests until they *)
(* expire; a pause, with one request; and the transaction histories of two *)
(* senders, three executions against a cap of two, with no operator        *)
(* removed and no ledger closed.                                           *)
(***************************************************************************)
EXTENDS Escrow, Bridge, PropertyShares, PropertyToken, TLC

CONSTANTS alice, bob, s1, s2, h1, h2, t1, t2

VARIABLE subject

MCParticipantLists == {<<alice, bob>>, <<alice, bob, alice>>}
MCAmounts == -1 .. 2

ASSUME CustodyAssumption ==
       /\ EscrowAssumption /\ BridgeAssumption
       /\ PropertySharesAssumption /\ PropertyTokenAssumption

escrowVars == vars
allVars == <<subject, escrowVars, bridgeVars, sharesVars, tokenVars>>

MCInit == /\ subject \in {"Escrow", "Bridge", "Pauses", "Records", "Shares", "Locks", "Votes",
                          "Tokens", "Crossing"}
          /\ Init /\ BridgeInit /\ SharesInit /\ TokenInit

OneSender == Cardinality({s \in Senders : bridgeNonce[s] > 0}) <= 1

MCNext ==
  /\ UNCHANGED subject
  /\ \/ /\ subject = "Escrow" /\ Next
        /\ UNCHANGED <<bridgeVars, sharesVars, tokenVars>>
     \/ /\ BridgeNext
        /\ \/ /\ subject = "Bridge" /\ UNCHANGED bridgePaused
              /\ OneSender' /\ txCounter' <= 2
           \/ /\ subject = "Pauses" /\ UNCHANGED sequence
              /\ reqCounter' <= 1 /\ txCounter' <= 2
           \/ /\ subject = "Records" /\ UNCHANGED <<sequence, bridgePaused>>
              /\ operators \subseteq operators'
        /\ UNCHANGED <<escrowVars, sharesVars, tokenVars>>
     \/ /\ \/ subject = "Shares" /\ UNCHANGED <<votes, tokenState>>
           \/ subject = "Locks" /\ UNCHANGED <<votes, escrowed, ask>>
           \/ subject = "Votes" /\ UNCHANGED <<dividends, escrowed, ask>>
        /\ SharesNext
        /\ UNCHANGED <<escrowVars, bridgeVars, tokenVars>>
     \/ /\ \/ subject = "Tokens" /\ UNCHANGED <<requestCount, bridgeRequest, executed, bridged>>
           \/ subject = "Crossing" /\ UNCHANGED <<approved, tokenPaused>>
        /\ TokenNext
        /\ UNCHANGED <<escrowVars, bridgeVars, sharesVars>>

MCSpec == MCInit /\ [][MCNext]_allVars

(* The property token treats all holders of shares alike, and all owners.  *)
Symmetry == Permutations(Holders) \union Permutations({t1, t2}) \union Permutations(Senders)

-----------------------------------------------------------------------------
(* The storage of every contract keeps its type.                           *)
StorageTypeOK == TypeOK /\ BridgeTypeOK /\ SharesTypeOK /\ TokenTypeOK
=============================================================================
