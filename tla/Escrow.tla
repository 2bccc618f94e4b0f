------------------------------- MODULE Escrow -------------------------------
(***************************************************************************)
(* The Soroban escrow contract (contracts/escrow/src/lib.rs).              *)
(*                                                                         *)
(* A buyer opens an escrow with a list of participants and a signature     *)
(* threshold; anyone deposits up to its amount; participants sign; anyone  *)
(* releases it once it is full, unlocked and signed.  Amounts are only     *)
(* recorded: the contract moves no token.  One action is one transaction,  *)
(* and a panic reverts it.                                                 *)
(***************************************************************************)
EXTENDS Integers, Sequences, FiniteSets

CONSTANTS Parties,           \* accounts that buy and sign
          ParticipantLists,  \* lists of participants a creator may pass
          MAX_PARTICIPANTS,  \* 10 in the code
          Amounts,           \* the i128 amounts a caller may pass
          MaxEscrows,        \* bound: escrows created
          MaxTime            \* bound: the last instant of the ledger clock

(* What is assumed of the constants.                                       *)
EscrowAssumption ==
  /\ ParticipantLists \subseteq Seq(Parties)
  /\ Amounts \subseteq Int
  /\ {MAX_PARTICIPANTS, MaxEscrows, MaxTime} \subseteq Nat

VARIABLES now,          \* ledger timestamp
          paused,       \* Paused
          escrowCount,  \* EscrowCount
          nonce,        \* Nonce(buyer)
          escrow,       \* Escrow(id), with the MultiSig(id) written beside it
          signed,       \* Signature(id, type, signer): who has signed what
          sigCount      \* SigCount(id, type)

records == <<escrowCount, nonce, escrow, signed, sigCount>>
vars == <<now, paused, records>>

EscrowId == 1 .. MaxEscrows
ApprovalType == {"Release", "Refund", "EmergencyOverride"}
NoLock == 0
NoBuyer == "nobody"
NoEscrow == [buyer |-> NoBuyer, amount |-> 0, deposited |-> 0, status |-> "Absent",
             lock |-> NoLock, signers |-> {}, required |-> 0]

Init ==
  /\ now = 0
  /\ paused = FALSE
  /\ escrowCount = 0
  /\ nonce = [b \in Parties |-> 0]
  /\ escrow = [id \in EscrowId |-> NoEscrow]
  /\ signed = [id \in EscrowId |-> [k \in ApprovalType |-> {}]]
  /\ sigCount = [id \in EscrowId |-> [k \in ApprovalType |-> 0]]

-----------------------------------------------------------------------------
(* Mutant: the threshold may be zero.                                      *)
ValidMultisigOrZero(required, count) == required <= count

ValidMultisig(required, count) == 0 < required /\ required <= count

NextNonce(b, n) == n = nonce[b] + 1

(* The participants are a list: one account may be on it twice.            *)
CreateEscrowAdvanced(b, amount, list, required, lock, n) ==
  /\ ~paused
  /\ amount > 0
  /\ NextNonce(b, n)
  /\ Len(list) <= MAX_PARTICIPANTS
  /\ ValidMultisig(required, Len(list))
  /\ lock = NoLock \/ lock > now
  /\ escrowCount < MaxEscrows
  /\ escrowCount' = escrowCount + 1
  /\ nonce' = [nonce EXCEPT ![b] = n]
  /\ escrow' = [escrow EXCEPT ![escrowCount + 1] =
       [buyer |-> b, amount |-> amount, deposited |-> 0, status |-> "Created",
        lock |-> lock, signers |-> {list[i] : i \in 1 .. Len(list)}, required |-> required]]
  /\ UNCHANGED <<signed, sigCount>>

(* Mutant: the sign of the amount is not looked at.                        *)
FitsOfAnySign(id, amount) == escrow[id].deposited + amount <= escrow[id].amount

FitsDeposit(id, amount) == amount > 0 /\ escrow[id].deposited + amount <= escrow[id].amount

DepositFunds(id, amount) ==
  /\ ~paused
  /\ escrow[id].status \in {"Created", "Funded"}
  /\ FitsDeposit(id, amount)
  /\ LET total == escrow[id].deposited + amount
     IN escrow' = [escrow EXCEPT ![id] =
          [@ EXCEPT !.deposited = total,
                    !.status = IF total >= escrow[id].amount THEN "Active" ELSE "Funded"]]
  /\ UNCHANGED <<escrowCount, nonce, signed, sigCount>>

(* Mutant: the signatures of another approval are counted.                 *)
ReleasableByAnyApproval(id) ==
  /\ ~paused
  /\ escrow[id].status = "Active"
  /\ escrow[id].lock = NoLock \/ now >= escrow[id].lock
  /\ \E k \in ApprovalType : sigCount[id][k] >= escrow[id].required

Releasable(id) ==
  /\ ~paused
  /\ escrow[id].status = "Active"
  /\ escrow[id].lock = NoLock \/ now >= escrow[id].lock
  /\ sigCount[id]["Release"] >= escrow[id].required

ReleaseFunds(id) ==
  /\ Releasable(id)
  /\ escrow' = [escrow EXCEPT ![id] = [@ EXCEPT !.deposited = 0, !.status = "Released"]]
  /\ UNCHANGED <<escrowCount, nonce, signed, sigCount>>

(* Mutant: a participant signs as often as they like.                      *)
MaySignAgain(id, k, s) == s \in escrow[id].signers

MaySign(id, k, s) == s \in escrow[id].signers /\ s \notin signed[id][k]

(* sign_approval does not look at the status of the escrow.                *)
SignApproval(id, k, s) ==
  /\ ~paused
  /\ MaySign(id, k, s)
  /\ signed' = [signed EXCEPT ![id][k] = @ \union {s}]
  /\ sigCount' = [sigCount EXCEPT ![id][k] = @ + 1]
  /\ UNCHANGED <<escrowCount, nonce, escrow>>

SetPause(p) == paused' = p /\ UNCHANGED <<now, records>>

Transaction ==
  /\ UNCHANGED <<now, paused>>
  /\ \/ \E b \in Parties, x \in Amounts, list \in ParticipantLists,
          required \in 0 .. MAX_PARTICIPANTS, lock \in 0 .. MaxTime, n \in 0 .. MaxEscrows :
          CreateEscrowAdvanced(b, x, list, required, lock, n)
     \/ \E id \in EscrowId :
          \/ \E x \in Amounts : DepositFunds(id, x)
          \/ ReleaseFunds(id)
          \/ \E k \in ApprovalType, s \in Parties : SignApproval(id, k, s)

Tick == now < MaxTime /\ now' = now + 1 /\ UNCHANGED <<paused, records>>

Next == Transaction \/ (\E p \in BOOLEAN : SetPause(p)) \/ Tick

Spec == Init /\ [][Next]_vars

-----------------------------------------------------------------------------
Exists(id) == escrow[id].status # "Absent"

EscrowData ==
  [buyer : Parties \union {NoBuyer}, amount : Nat, deposited : Nat,
   status : {"Absent", "Created", "Funded", "Active", "Released"},
   lock : 0 .. MaxTime, signers : SUBSET Parties, required : 0 .. MAX_PARTICIPANTS]

TypeOK ==
  /\ now \in 0 .. MaxTime
  /\ paused \in BOOLEAN
  /\ escrowCount \in 0 .. MaxEscrows
  /\ nonce \in [Parties -> 0 .. MaxEscrows]
  /\ escrow \in [EscrowId -> EscrowData]
  /\ signed \in [EscrowId -> [ApprovalType -> SUBSET Parties]]
  /\ sigCount \in [EscrowId -> [ApprovalType -> Nat]]
  /\ \A id \in EscrowId : Exists(id) <=> id <= escrowCount

(* The counter that release_funds trusts is the number of participants     *)
(* whose signature is on record: nobody is counted twice, and no outsider. *)
SigCountMatches ==
  \A id \in EscrowId, k \in ApprovalType :
    /\ sigCount[id][k] = Cardinality(signed[id][k])
    /\ signed[id][k] \subseteq escrow[id].signers

(* An escrow is Active exactly while it holds its full amount, and holds   *)
(* nothing before the first deposit and after the release.                 *)
DepositMatchesStatus ==
  \A id \in EscrowId :
    LET e == escrow[id]
    IN /\ 0 <= e.deposited /\ e.deposited <= e.amount
       /\ e.status = "Active" <=> e.deposited = e.amount /\ e.amount > 0
       /\ e.status = "Funded" => 0 < e.deposited
       /\ e.status \in {"Created", "Released"} => e.deposited = 0

(* A released escrow had its quorum of Release signatures - Refund and     *)
(* EmergencyOverride do not count - and its time lock behind it.           *)
ReleasedByQuorum ==
  \A id \in EscrowId :
    escrow[id].status = "Released" =>
      /\ 0 < escrow[id].required
      /\ escrow[id].required <= Cardinality(signed[id]["Release"])
      /\ now >= escrow[id].lock

(* The contract keeps the promise of EscrowPromise.  A party agrees when   *)
(* it signs Release; the signature counter, which the code compares with   *)
(* the threshold, is replaced by the set of those who signed.              *)
Phase(status) ==
  CASE status = "Absent" -> "none"
    [] status \in {"Created", "Funded"} -> "open"
    [] status = "Active" -> "funded"
    [] status = "Released" -> "released"

Promise == INSTANCE EscrowPromise WITH
  Quorums <- 0 .. MAX_PARTICIPANTS,
  terms  <- [id \in EscrowId |-> [amount |-> escrow[id].amount, quorum |-> escrow[id].required,
                                  group |-> escrow[id].signers]],
  phase  <- [id \in EscrowId |-> Phase(escrow[id].status)],
  held   <- [id \in EscrowId |-> escrow[id].deposited],
  agreed <- [id \in EscrowId |-> signed[id]["Release"]]

KeepsPromise == Promise!Spec
=============================================================================
