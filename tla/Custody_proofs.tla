--------------------------- MODULE Custody_proofs ---------------------------
(***************************************************************************)
(* Proofs about Escrow for any parties, lists of participants, amounts,    *)
(* time locks and bounds, and that it implements EscrowPromise; and about  *)
(* Bridge for any senders, operators, thresholds, timeouts, fee, length of *)
(* the history and bounds.                                                 *)
(*                                                                         *)
(* release_funds compares a counter with the threshold.  That the counter  *)
(* is the number of signatures on record needs sets known to be finite,    *)
(* and that what is stored under an unused id is blank: nothing signed     *)
(* before an escrow exists may count for it afterwards.                    *)
(*                                                                         *)
(* That a locked request was signed as often as it asks for needs finite   *)
(* sets of signatures, and every request to ask for the minimum.  That the *)
(* history is true needs the requests it names to exist: an existing       *)
(* request never changes its sender.  That it is the latest of what was    *)
(* executed is a lemma about capped logs (SumLemmas).                      *)
(***************************************************************************)
EXTENDS Escrow, Bridge, SumLemmas, FiniteSetTheorems, SequenceTheorems, TLAPS

-----------------------------------------------------------------------------
(* Escrow.                                                                 *)

(* An id without an escrow has blank storage, one with an escrow has a     *)
(* threshold, and the signatures on record are finitely many.              *)
WellStored ==
  \A id \in EscrowId :
    /\ IF Exists(id) THEN 0 < escrow[id].required ELSE escrow[id] = NoEscrow
    /\ \A k \in ApprovalType : IsFiniteSet(signed[id][k])

IInv == TypeOK /\ WellStored /\ SigCountMatches /\ DepositMatchesStatus /\ ReleasedByQuorum

(* The contract starts without escrows and signatures.                     *)
LEMMA InitIInv == EscrowAssumption /\ Init => IInv
<1> SUFFICES ASSUME EscrowAssumption, Init PROVE IInv
  OBVIOUS
<1> USE DEF Init, NoEscrow, NoLock, Exists
<1>1. TypeOK
  <2>1. 0 \in 0 .. MaxTime /\ 0 \in 0 .. MaxEscrows /\ 0 \in 0 .. MAX_PARTICIPANTS
    BY DEF EscrowAssumption
  <2>2. escrow \in [EscrowId -> EscrowData]
    BY <2>1 DEF EscrowData
  <2>3. signed \in [EscrowId -> [ApprovalType -> SUBSET Parties]]
    OBVIOUS
  <2>4. \A id \in EscrowId : ~Exists(id) /\ ~(id <= escrowCount)
    BY DEF EscrowId, EscrowAssumption
  <2> QED
    BY <2>1, <2>2, <2>3, <2>4 DEF TypeOK
<1>2. WellStored /\ SigCountMatches
  BY FS_EmptySet DEF WellStored, SigCountMatches
<1>3. DepositMatchesStatus /\ ReleasedByQuorum
  BY DEF DepositMatchesStatus, ReleasedByQuorum
<1> QED
  BY <1>1, <1>2, <1>3 DEF IInv

(* A new escrow is written over blank storage.                             *)
LEMMA CreateEffect ==
  ASSUME EscrowAssumption, IInv, NEW b \in Parties, NEW amount \in Amounts,
         NEW list \in ParticipantLists, NEW required \in 0 .. MAX_PARTICIPANTS,
         NEW lock \in 0 .. MaxTime, NEW n \in 0 .. MaxEscrows,
         CreateEscrowAdvanced(b, amount, list, required, lock, n), UNCHANGED <<now, paused>>
  PROVE  /\ escrowCount + 1 \in EscrowId /\ ~Exists(escrowCount + 1)
         /\ \A k \in ApprovalType : signed[escrowCount + 1][k] = {}
         /\ amount \in Nat \ {0} /\ 0 < required
         /\ IInv'
<1> DEFINE id == escrowCount + 1
           group == {list[i] : i \in 1 .. Len(list)}
           new == [buyer |-> b, amount |-> amount, deposited |-> 0, status |-> "Created",
                   lock |-> lock, signers |-> group, required |-> required]
<1>1. id \in EscrowId /\ ~Exists(id)
  BY DEF CreateEscrowAdvanced, IInv, TypeOK, EscrowId, EscrowAssumption
<1>2. group \in SUBSET Parties
  BY DEF EscrowAssumption
<1>3. amount \in Nat \ {0} /\ 0 < required
  BY DEF CreateEscrowAdvanced, ValidMultisig, EscrowAssumption
<1>4. \A k \in ApprovalType : signed[id][k] = {}
  BY <1>1 DEF IInv, WellStored, SigCountMatches, NoEscrow
<1>5. /\ escrow' = [escrow EXCEPT ![id] = new] /\ UNCHANGED <<signed, sigCount>>
      /\ escrowCount' = id /\ nonce' = [nonce EXCEPT ![b] = n]
  BY DEF CreateEscrowAdvanced
<1> HIDE DEF id, group
<1>6. escrow'[id] = new /\ \A d \in EscrowId \ {id} : escrow'[d] = escrow[d]
  BY <1>1, <1>5 DEF IInv, TypeOK
<1>7. TypeOK'
  <2>1. escrow' \in [EscrowId -> EscrowData]
    BY <1>2, <1>3, <1>5 DEF IInv, TypeOK, EscrowData
  <2>2. \A d \in EscrowId : Exists(d)' <=> d <= escrowCount'
    BY <1>1, <1>5, <1>6 DEF IInv, TypeOK, Exists, EscrowId, EscrowAssumption, id
  <2>3. escrowCount' \in 0 .. MaxEscrows
    BY <1>1, <1>5 DEF EscrowId, EscrowAssumption
  <2> QED
    BY <1>5, <2>1, <2>2, <2>3 DEF IInv, TypeOK
<1>8. WellStored'
  BY <1>3, <1>5, <1>6 DEF IInv, WellStored, Exists
<1>9. SigCountMatches'
  BY <1>4, <1>5, <1>6 DEF IInv, SigCountMatches
<1>10. DepositMatchesStatus'
  BY <1>3, <1>6 DEF IInv, DepositMatchesStatus
<1>11. ReleasedByQuorum'
  BY <1>5, <1>6 DEF IInv, ReleasedByQuorum
<1>12. IInv'
  BY <1>7, <1>8, <1>9, <1>10, <1>11 DEF IInv
<1> QED
  BY <1>1, <1>2, <1>3, <1>4, <1>5, <1>12 DEF id

(* What a deposit or a release does to the records, field by field.        *)
LEMMA ChangeEffect ==
  ASSUME TypeOK, NEW id \in EscrowId, NEW dep \in Nat, NEW st \in {"Funded", "Active", "Released"},
         escrow' = [escrow EXCEPT ![id] = [@ EXCEPT !.deposited = dep, !.status = st]],
         UNCHANGED <<now, paused, escrowCount, nonce, signed, sigCount>>, Exists(id)
  PROVE  /\ escrow'[id].deposited = dep /\ escrow'[id].status = st
         /\ escrow'[id].amount = escrow[id].amount /\ escrow'[id].lock = escrow[id].lock
         /\ escrow'[id].signers = escrow[id].signers /\ escrow'[id].required = escrow[id].required
         /\ \A d \in EscrowId \ {id} : escrow'[d] = escrow[d]
         /\ TypeOK'
<1>0. PICK e, new : e = escrow[id] /\ new = [e EXCEPT !.deposited = dep, !.status = st]
  OBVIOUS
<1>1. e \in EscrowData
  BY <1>0 DEF TypeOK
<1>2. /\ new \in EscrowData
      /\ new.deposited = dep /\ new.status = st
      /\ new.amount = e.amount /\ new.lock = e.lock
      /\ new.signers = e.signers /\ new.required = e.required
  BY <1>0, <1>1 DEF EscrowData
<1>3. escrow' = [escrow EXCEPT ![id] = new]
  BY <1>0
<1>4. escrow'[id] = new /\ \A d \in EscrowId \ {id} : escrow'[d] = escrow[d]
  BY <1>3 DEF TypeOK
<1>5. escrow' \in [EscrowId -> EscrowData]
  BY <1>2, <1>3 DEF TypeOK
<1>6. \A d \in EscrowId : Exists(d)' <=> Exists(d)
  BY <1>2, <1>4 DEF Exists
<1> QED
  BY <1>0, <1>2, <1>4, <1>5, <1>6 DEF TypeOK

(* A deposit adds at most what is missing.                                 *)
LEMMA DepositKeeps ==
  ASSUME EscrowAssumption, IInv, NEW id \in EscrowId, NEW amount \in Amounts,
         DepositFunds(id, amount), UNCHANGED <<now, paused>>
  PROVE  IInv'
<1> DEFINE total == escrow[id].deposited + amount
           status == IF total >= escrow[id].amount THEN "Active" ELSE "Funded"
<1>1. /\ amount \in Nat \ {0} /\ total \in Nat /\ total <= escrow[id].amount
      /\ escrow[id].status \in {"Created", "Funded"}
      /\ escrow' = [escrow EXCEPT ![id] = [@ EXCEPT !.deposited = total, !.status = status]]
      /\ UNCHANGED <<escrowCount, nonce, signed, sigCount>>
  BY DEF DepositFunds, FitsDeposit, EscrowAssumption, IInv, TypeOK, EscrowData
<1>s. /\ status \in {"Funded", "Active"}
      /\ status = "Active" <=> total = escrow[id].amount
      /\ total # 0
  <2>1. /\ escrow[id].amount \in Nat /\ escrow[id].deposited \in Nat
        /\ total = escrow[id].deposited + amount
    BY DEF IInv, TypeOK, EscrowData
  <2> QED
    BY <1>1, <2>1
<1> HIDE DEF total, status
<1>2. /\ escrow'[id].deposited = total /\ escrow'[id].status = status
      /\ escrow'[id].amount = escrow[id].amount /\ escrow'[id].lock = escrow[id].lock
      /\ escrow'[id].signers = escrow[id].signers /\ escrow'[id].required = escrow[id].required
      /\ \A d \in EscrowId \ {id} : escrow'[d] = escrow[d]
  BY <1>1, <1>s, ChangeEffect DEF IInv, Exists
<1>3. TypeOK'
  BY <1>1, <1>s, ChangeEffect DEF IInv, Exists
<1>4. WellStored'
  BY <1>1, <1>s, <1>2 DEF IInv, WellStored, Exists
<1>5. SigCountMatches'
  BY <1>1, <1>s, <1>2 DEF IInv, SigCountMatches
<1>6. DepositMatchesStatus'
  <2>1. escrow[id].amount \in Nat
    BY DEF IInv, TypeOK, EscrowData
  <2> QED
    BY <1>1, <1>s, <1>2, <2>1 DEF IInv, DepositMatchesStatus
<1>7. ReleasedByQuorum'
  BY <1>1, <1>s, <1>2 DEF IInv, ReleasedByQuorum
<1> QED
  BY <1>3, <1>4, <1>5, <1>6, <1>7 DEF IInv

(* A release takes the whole deposit, behind the quorum and the lock.      *)
LEMMA ReleaseKeeps ==
  ASSUME EscrowAssumption, IInv, NEW id \in EscrowId, ReleaseFunds(id), UNCHANGED <<now, paused>>
  PROVE  /\ escrow[id].status = "Active"
         /\ escrow[id].required <= Cardinality(signed[id]["Release"])
         /\ IInv'
<1>1. /\ escrow[id].status = "Active"
      /\ escrow[id].lock = NoLock \/ now >= escrow[id].lock
      /\ escrow[id].required <= Cardinality(signed[id]["Release"])
      /\ escrow' = [escrow EXCEPT ![id] = [@ EXCEPT !.deposited = 0, !.status = "Released"]]
      /\ UNCHANGED <<escrowCount, nonce, signed, sigCount>>
  BY DEF ReleaseFunds, Releasable, IInv, SigCountMatches, TypeOK, ApprovalType
<1>2. /\ escrow'[id].deposited = 0 /\ escrow'[id].status = "Released"
      /\ escrow'[id].amount = escrow[id].amount /\ escrow'[id].lock = escrow[id].lock
      /\ escrow'[id].signers = escrow[id].signers /\ escrow'[id].required = escrow[id].required
      /\ \A d \in EscrowId \ {id} : escrow'[d] = escrow[d]
  BY <1>1, ChangeEffect DEF IInv, Exists
<1>3. TypeOK'
  BY <1>1, ChangeEffect DEF IInv, Exists
<1>4. WellStored'
  BY <1>1, <1>2 DEF IInv, WellStored, Exists
<1>5. SigCountMatches'
  BY <1>1, <1>2 DEF IInv, SigCountMatches
<1>6. DepositMatchesStatus'
  <2>1. escrow[id].amount \in Nat
    BY DEF IInv, TypeOK, EscrowData
  <2> QED
    BY <1>1, <1>2, <2>1 DEF IInv, DepositMatchesStatus
<1>7. ReleasedByQuorum'
  <2>1. now >= escrow[id].lock
    BY <1>1 DEF IInv, TypeOK, NoLock
  <2>2. 0 < escrow[id].required
    BY <1>1 DEF IInv, WellStored, Exists
  <2> QED
    BY <1>1, <1>2, <2>1, <2>2 DEF IInv, ReleasedByQuorum
<1> QED
  BY <1>1, <1>3, <1>4, <1>5, <1>6, <1>7 DEF IInv

(* A signature is recorded and counted once.                               *)
LEMMA SignKeeps ==
  ASSUME EscrowAssumption, IInv, NEW id \in EscrowId, NEW k \in ApprovalType, NEW s \in Parties,
         SignApproval(id, k, s), UNCHANGED <<now, paused>>
  PROVE  IInv'
<1>1. /\ s \in escrow[id].signers /\ s \notin signed[id][k]
      /\ signed' = [signed EXCEPT ![id][k] = @ \union {s}]
      /\ sigCount' = [sigCount EXCEPT ![id][k] = @ + 1]
      /\ UNCHANGED <<escrowCount, nonce, escrow>>
  BY DEF SignApproval, MaySign
<1>2. /\ signed[id][k] \in SUBSET Parties /\ IsFiniteSet(signed[id][k])
      /\ sigCount[id][k] = Cardinality(signed[id][k]) /\ sigCount[id][k] \in Nat
  BY DEF IInv, TypeOK, WellStored, SigCountMatches
<1>3. /\ signed'[id][k] = signed[id][k] \union {s}
      /\ sigCount'[id][k] = sigCount[id][k] + 1
      /\ \A d \in EscrowId, j \in ApprovalType : <<d, j>> # <<id, k>> =>
           signed'[d][j] = signed[d][j] /\ sigCount'[d][j] = sigCount[d][j]
  BY <1>1 DEF IInv, TypeOK
<1>4. /\ IsFiniteSet(signed[id][k] \union {s})
      /\ Cardinality(signed[id][k] \union {s}) = Cardinality(signed[id][k]) + 1
  BY <1>1, <1>2, FS_AddElement
<1>5. TypeOK'
  BY <1>1, <1>2 DEF IInv, TypeOK, Exists
<1>6. WellStored'
  BY <1>1, <1>3, <1>4 DEF IInv, WellStored, Exists
<1>7. SigCountMatches'
  BY <1>1, <1>2, <1>3, <1>4 DEF IInv, SigCountMatches
<1>8. DepositMatchesStatus'
  BY <1>1 DEF IInv, DepositMatchesStatus
<1>9. ReleasedByQuorum'
  <2>1. "Release" \in ApprovalType
    BY DEF ApprovalType
  <2>2. SUFFICES ASSUME NEW d \in EscrowId, escrow[d].status = "Released"
                 PROVE  Cardinality(signed'[d]["Release"]) >= escrow[d].required
    BY <1>1 DEF IInv, ReleasedByQuorum
  <2>3. /\ escrow[d].required \in Int
        /\ Cardinality(signed[d]["Release"]) >= escrow[d].required
        /\ Cardinality(signed[d]["Release"]) \in Nat
    <3>1. escrow[d].required \in Int
      BY DEF IInv, TypeOK, EscrowData
    <3>2. IsFiniteSet(signed[d]["Release"])
      BY <2>1 DEF IInv, WellStored
    <3>3. Cardinality(signed[d]["Release"]) \in Nat
      BY <3>2, FS_CardinalityType
    <3>4. escrow[d].required <= Cardinality(signed[d]["Release"])
      BY <2>2 DEF IInv, ReleasedByQuorum
    <3> QED
      BY <3>1, <3>3, <3>4
  <2>4. CASE d = id /\ k = "Release"
    <3>1. Cardinality(signed'[d]["Release"]) = Cardinality(signed[d]["Release"]) + 1
      BY <1>3, <1>4, <2>4
    <3> QED
      BY <2>3, <3>1
  <2>5. CASE ~(d = id /\ k = "Release")
    <3>1. <<d, "Release">> # <<id, k>>
      BY <2>5
    <3> QED
      BY <1>3, <2>1, <2>3, <3>1
  <2> QED
    BY <2>4, <2>5
<1> QED
  BY <1>5, <1>6, <1>7, <1>8, <1>9 DEF IInv

(* Pausing changes no record.                                              *)
LEMMA PauseKeeps == ASSUME IInv, NEW p \in BOOLEAN, SetPause(p) PROVE IInv'
  BY DEF SetPause, records, IInv, TypeOK, WellStored, SigCountMatches, DepositMatchesStatus,
         ReleasedByQuorum, Exists

(* Nor does time, which only moves away from a time lock that is over.     *)
LEMMA TickKeeps == ASSUME EscrowAssumption, IInv, Tick PROVE IInv'
<1>1. now' \in 0 .. MaxTime /\ now' >= now
  BY DEF Tick, IInv, TypeOK, EscrowAssumption
<1>2. TypeOK'
  BY <1>1 DEF Tick, records, IInv, TypeOK, Exists
<1>3. WellStored' /\ SigCountMatches' /\ DepositMatchesStatus'
  BY DEF Tick, records, IInv, WellStored, SigCountMatches, DepositMatchesStatus, Exists
<1>4. \A id \in EscrowId : escrow[id].lock \in Nat
  BY DEF IInv, TypeOK, EscrowData
<1>5. ReleasedByQuorum'
  BY <1>1, <1>4 DEF Tick, records, IInv, TypeOK, ReleasedByQuorum
<1> QED
  BY <1>2, <1>3, <1>5 DEF IInv

(* Every step of the contract keeps the inductive invariant.               *)
LEMMA NextIInv == EscrowAssumption /\ IInv /\ [Next]_vars => IInv'
<1> SUFFICES ASSUME EscrowAssumption, IInv, [Next]_vars PROVE IInv'
  OBVIOUS
<1>1. CASE Transaction
  <2>1. ASSUME NEW b \in Parties, NEW x \in Amounts, NEW list \in ParticipantLists,
               NEW required \in 0 .. MAX_PARTICIPANTS, NEW lock \in 0 .. MaxTime,
               NEW n \in 0 .. MaxEscrows, CreateEscrowAdvanced(b, x, list, required, lock, n)
        PROVE  IInv'
    BY <1>1, <2>1, CreateEffect DEF Transaction
  <2>2. ASSUME NEW id \in EscrowId, NEW x \in Amounts, DepositFunds(id, x) PROVE IInv'
    BY <1>1, <2>2, DepositKeeps DEF Transaction
  <2>3. ASSUME NEW id \in EscrowId, ReleaseFunds(id) PROVE IInv'
    BY <1>1, <2>3, ReleaseKeeps DEF Transaction
  <2>4. ASSUME NEW id \in EscrowId, NEW k \in ApprovalType, NEW s \in Parties,
               SignApproval(id, k, s)
        PROVE  IInv'
    BY <1>1, <2>4, SignKeeps DEF Transaction
  <2> QED
    BY <1>1, <2>1, <2>2, <2>3, <2>4 DEF Transaction
<1>2. ASSUME NEW p \in BOOLEAN, SetPause(p) PROVE IInv'
  BY <1>2, PauseKeeps
<1>3. CASE Tick
  BY <1>3, TickKeeps
<1>4. CASE UNCHANGED vars
  BY <1>4 DEF vars, records, IInv, TypeOK, WellStored, SigCountMatches, DepositMatchesStatus,
              ReleasedByQuorum, Exists
<1> QED
  BY <1>1, <1>2, <1>3, <1>4 DEF Next

(* The inductive invariant holds in every reachable state.                 *)
THEOREM Invariance == ASSUME EscrowAssumption PROVE Spec => []IInv
<1>1. IInv /\ [Next]_vars => IInv'
  BY NextIInv
<1> QED
  BY InitIInv, <1>1, PTL DEF Spec

(* The counter that release_funds compares with the threshold is the       *)
(* number of participants who signed: nobody is counted twice.             *)
THEOREM CounterIsTrue == ASSUME EscrowAssumption PROVE Spec => []SigCountMatches
<1>1. IInv => SigCountMatches
  BY DEF IInv
<1> QED
  BY Invariance, <1>1, PTL

(* Nothing is released without a quorum of Release signatures, nor before  *)
(* its time lock is over.                                                  *)
THEOREM QuorumReleases == ASSUME EscrowAssumption PROVE Spec => []ReleasedByQuorum
<1>1. IInv => ReleasedByQuorum
  BY DEF IInv
<1> QED
  BY Invariance, <1>1, PTL

(* What an escrow holds is what its status says: Active means full,        *)
(* Released means empty, and it never holds more than its amount.          *)
THEOREM DepositIsTrue == ASSUME EscrowAssumption PROVE Spec => []DepositMatchesStatus
<1>1. IInv => DepositMatchesStatus
  BY DEF IInv
<1> QED
  BY Invariance, <1>1, PTL

(* The state of EscrowPromise, as it is read off the contract's.           *)
Terms == [id \in EscrowId |-> [amount |-> escrow[id].amount, quorum |-> escrow[id].required,
                               group |-> escrow[id].signers]]
Phases == [id \in EscrowId |-> Phase(escrow[id].status)]
Held == [id \in EscrowId |-> escrow[id].deposited]
Agreed == [id \in EscrowId |-> signed[id]["Release"]]

(* The phase each status stands for.                                      *)
LEMMA PhaseValues ==
  /\ Phase("Absent") = "none" /\ Phase("Created") = "open" /\ Phase("Funded") = "open"
  /\ Phase("Active") = "funded" /\ Phase("Released") = "released"
  BY DEF Phase

(* The abstract state is four functions of the escrow.                    *)
LEMMA AreFunctions ==
  /\ Terms = [id \in EscrowId |-> Terms[id]] /\ Terms' = [id \in EscrowId |-> Terms'[id]]
  /\ Phases = [id \in EscrowId |-> Phases[id]] /\ Phases' = [id \in EscrowId |-> Phases'[id]]
  /\ Held = [id \in EscrowId |-> Held[id]] /\ Held' = [id \in EscrowId |-> Held'[id]]
  BY DEF Terms, Phases, Held

(* Two functions that differ at one escrow.                                *)
LEMMA DifferAt ==
  ASSUME NEW f, NEW g, NEW id \in EscrowId, f = [d \in EscrowId |-> f[d]],
         g = [d \in EscrowId |-> g[d]], \A d \in EscrowId \ {id} : g[d] = f[d]
  PROVE  g = [f EXCEPT ![id] = g[id]]
  OBVIOUS

(* The initial state promises nothing yet.                                 *)
LEMMA InitPromise == Init => Promise!Init
  BY DEF Init, Promise!Init, Promise!NoTerms, NoEscrow, Phase, ApprovalType

(* A new escrow is an offer under an id that had none.                     *)
LEMMA CreateOpens ==
  ASSUME EscrowAssumption, IInv, NEW b \in Parties, NEW amount \in Amounts,
         NEW list \in ParticipantLists, NEW required \in 0 .. MAX_PARTICIPANTS,
         NEW lock \in 0 .. MaxTime, NEW n \in 0 .. MaxEscrows,
         CreateEscrowAdvanced(b, amount, list, required, lock, n), UNCHANGED <<now, paused>>
  PROVE  Promise!Next
<1> DEFINE id == escrowCount + 1
           group == {list[i] : i \in 1 .. Len(list)}
<1>1. id \in EscrowId /\ ~Exists(id) /\ amount \in Nat \ {0} /\ 0 < required
  BY CreateEffect
<1>2. group \in SUBSET Parties
  BY DEF EscrowAssumption
<1>3. /\ escrow' = [escrow EXCEPT ![id] =
           [buyer |-> b, amount |-> amount, deposited |-> 0, status |-> "Created",
            lock |-> lock, signers |-> group, required |-> required]]
      /\ signed' = signed
  BY DEF CreateEscrowAdvanced
<1>4. escrow[id] = NoEscrow
  BY <1>1 DEF IInv, WellStored
<1> HIDE DEF id, group
<1>5. escrow'[id] = [buyer |-> b, amount |-> amount, deposited |-> 0, status |-> "Created",
                     lock |-> lock, signers |-> group, required |-> required]
      /\ \A d \in EscrowId \ {id} : escrow'[d] = escrow[d]
  BY <1>1, <1>3 DEF IInv, TypeOK
<1>6. Promise!Open(id)
  <2>1. Phases[id] = "none" /\ Phases' = [Phases EXCEPT ![id] = "open"]
    <3>1. Phases[id] = "none" /\ Phases'[id] = "open"
          /\ \A d \in EscrowId \ {id} : Phases'[d] = Phases[d]
      BY <1>1, <1>4, <1>5, PhaseValues DEF Phases, NoEscrow
    <3> QED
      BY <1>1, <3>1, AreFunctions, DifferAt
  <2>2. Terms'[id] \in Promise!Offers /\ Terms' = [Terms EXCEPT ![id] = Terms'[id]]
    <3>1. Terms'[id] \in Promise!Offers
      BY <1>1, <1>2, <1>5 DEF Terms, Promise!Offers
    <3>2. \A d \in EscrowId \ {id} : Terms'[d] = Terms[d]
      BY <1>5 DEF Terms
    <3> QED
      BY <1>1, <3>1, <3>2, AreFunctions, DifferAt
  <2>3. Held' = Held /\ Agreed' = Agreed
    BY <1>3, <1>4, <1>5 DEF Held, Agreed, NoEscrow
  <2> QED
    BY <2>1, <2>2, <2>3 DEF Promise!Open, Phases, Terms, Held, Agreed
<1> QED
  BY <1>1, <1>6 DEF Promise!Next, Promise!Open

(* A deposit pays in, up to what is missing.                               *)
LEMMA DepositPaysIn ==
  ASSUME EscrowAssumption, IInv, NEW id \in EscrowId, NEW amount \in Amounts,
         DepositFunds(id, amount), UNCHANGED <<now, paused>>
  PROVE  Promise!Next
<1> DEFINE total == escrow[id].deposited + amount
           status == IF total >= escrow[id].amount THEN "Active" ELSE "Funded"
<1>1. /\ escrow[id] \in EscrowData /\ amount \in Nat \ {0}
      /\ total <= escrow[id].amount /\ escrow[id].status \in {"Created", "Funded"}
      /\ escrow' = [escrow EXCEPT ![id] = [@ EXCEPT !.deposited = total, !.status = status]]
      /\ UNCHANGED <<escrowCount, nonce, signed, sigCount>>
  BY DEF DepositFunds, FitsDeposit, EscrowAssumption, IInv, TypeOK, EscrowData
<1>2. /\ escrow[id].amount \in Nat /\ escrow[id].deposited \in Nat /\ total \in Nat
      /\ status \in {"Funded", "Active"}
  BY <1>1 DEF EscrowData
<1>3. status = "Active" <=> total = escrow[id].amount
  BY <1>1, <1>2
<1>4. amount \in 1 .. escrow[id].amount - escrow[id].deposited
  BY <1>1, <1>2
<1> HIDE DEF status
<1>5. /\ escrow'[id].deposited = total /\ escrow'[id].status = status
      /\ escrow'[id].amount = escrow[id].amount
      /\ escrow'[id].signers = escrow[id].signers /\ escrow'[id].required = escrow[id].required
      /\ \A d \in EscrowId \ {id} : escrow'[d] = escrow[d]
  BY <1>1, <1>2, ChangeEffect DEF IInv, Exists
<1>6. Promise!PayIn(id)
  <2>1. Phases[id] = "open"
    BY <1>1 DEF Phases, Phase
  <2>2. Held' = [Held EXCEPT ![id] = @ + amount]
    BY <1>5 DEF Held
  <2>3. Phases' = [Phases EXCEPT ![id] = IF Held[id] + amount = Terms[id].amount
                                         THEN "funded" ELSE "open"]
    <3>1. Phases'[id] = IF Held[id] + amount = Terms[id].amount THEN "funded" ELSE "open"
      BY <1>2, <1>3, <1>5, PhaseValues DEF Phases, Held, Terms
    <3>2. \A d \in EscrowId \ {id} : Phases'[d] = Phases[d]
      BY <1>5 DEF Phases
    <3> QED
      BY <3>1, <3>2, AreFunctions, DifferAt
  <2>4. amount \in 1 .. Terms[id].amount - Held[id]
    BY <1>4 DEF Terms, Held
  <2>5. Terms' = Terms /\ Agreed' = Agreed
    BY <1>1, <1>5 DEF Terms, Agreed
  <2> QED
    BY <2>1, <2>2, <2>3, <2>4, <2>5 DEF Promise!PayIn, Phases, Terms, Held, Agreed
<1> QED
  BY <1>6 DEF Promise!Next, Promise!PayIn

(* A release pays out all of it, to a quorum of distinct parties.          *)
LEMMA ReleasePaysOut ==
  ASSUME EscrowAssumption, IInv, NEW id \in EscrowId, ReleaseFunds(id), UNCHANGED <<now, paused>>
  PROVE  Promise!Next
<1>1. /\ escrow[id].status = "Active"
      /\ Cardinality(signed[id]["Release"]) >= escrow[id].required
      /\ escrow' = [escrow EXCEPT ![id] = [@ EXCEPT !.deposited = 0, !.status = "Released"]]
      /\ UNCHANGED <<escrowCount, nonce, signed, sigCount>>
  BY DEF ReleaseFunds, Releasable, IInv, SigCountMatches, TypeOK, ApprovalType
<1>2. /\ escrow'[id].deposited = 0 /\ escrow'[id].status = "Released"
      /\ escrow'[id].amount = escrow[id].amount
      /\ escrow'[id].signers = escrow[id].signers /\ escrow'[id].required = escrow[id].required
      /\ \A d \in EscrowId \ {id} : escrow'[d] = escrow[d]
  BY <1>1, ChangeEffect DEF IInv, Exists
<1>3. Promise!PayOut(id)
  <2>1. Phases[id] = "funded" /\ Phases' = [Phases EXCEPT ![id] = "released"]
    <3>1. /\ Phases[id] = "funded" /\ Phases'[id] = "released"
          /\ \A d \in EscrowId \ {id} : Phases'[d] = Phases[d]
      BY <1>1, <1>2, PhaseValues DEF Phases
    <3> QED
      BY <3>1, AreFunctions, DifferAt
  <2>2. Cardinality(Agreed[id]) >= Terms[id].quorum
    BY <1>1 DEF Agreed, Terms
  <2>3. Held' = [Held EXCEPT ![id] = 0] /\ Terms' = Terms /\ Agreed' = Agreed
    <3>1. Held'[id] = 0 /\ \A d \in EscrowId \ {id} : Held'[d] = Held[d]
      BY <1>2 DEF Held
    <3>2. \A d \in EscrowId : /\ escrow'[d].amount = escrow[d].amount
                             /\ escrow'[d].required = escrow[d].required
                             /\ escrow'[d].signers = escrow[d].signers
      BY <1>2
    <3>3. Terms' = Terms /\ Agreed' = Agreed
      BY <1>1, <3>2 DEF Terms, Agreed
    <3> QED
      BY <3>1, <3>3, AreFunctions, DifferAt
  <2>4. Promise!Cardinality(Agreed[id]) = Cardinality(Agreed[id])
    BY DEF Cardinality, Promise!Cardinality
  <2> QED
    BY <2>1, <2>2, <2>3, <2>4 DEF Promise!PayOut, Phases, Terms, Held, Agreed
<1> QED
  BY <1>3 DEF Promise!Next, Promise!PayOut

(* A Release signature agrees; one of another kind changes nothing that    *)
(* was promised.                                                           *)
LEMMA SignAgrees ==
  ASSUME EscrowAssumption, IInv, NEW id \in EscrowId, NEW k \in ApprovalType, NEW s \in Parties,
         SignApproval(id, k, s), UNCHANGED <<now, paused>>
  PROVE  Promise!Next \/ UNCHANGED Promise!vars
<1>1. /\ s \in escrow[id].signers /\ s \notin signed[id][k]
      /\ signed' = [signed EXCEPT ![id][k] = @ \union {s}]
      /\ UNCHANGED escrow
  BY DEF SignApproval, MaySign
<1>2. Exists(id)
  BY <1>1 DEF IInv, WellStored, NoEscrow
<1>3. signed \in [EscrowId -> [ApprovalType -> SUBSET Parties]]
      /\ escrow[id].status \in {"Absent", "Created", "Funded", "Active", "Released"}
  BY DEF IInv, TypeOK, EscrowData
<1>4. CASE k = "Release"
  <2>1. Phases[id] # "none"
    BY <1>2, <1>3 DEF Phases, Phase, Exists
  <2>2. s \in Terms[id].group \ Agreed[id]
    BY <1>1, <1>4 DEF Terms, Agreed
  <2>3. Agreed' = [Agreed EXCEPT ![id] = @ \union {s}]
    BY <1>1, <1>3, <1>4 DEF Agreed
  <2>4. Terms' = Terms /\ Phases' = Phases /\ Held' = Held
    BY <1>1 DEF Terms, Phases, Held
  <2>5. Promise!Agree(id)
    BY <2>1, <2>2, <2>3, <2>4 DEF Promise!Agree, Phases, Terms, Held, Agreed
  <2> QED
    BY <2>5 DEF Promise!Next, Promise!Agree
<1>5. CASE k # "Release"
  <2>1. \A d \in EscrowId : signed'[d]["Release"] = signed[d]["Release"]
    BY <1>1, <1>3, <1>5 DEF ApprovalType
  <2> QED
    BY <1>1, <2>1 DEF Promise!vars
<1> QED
  BY <1>4, <1>5

(* Every step of the contract is one of EscrowPromise's, or changes        *)
(* nothing that was promised.                                              *)
LEMMA StepPromise == EscrowAssumption /\ IInv /\ [Next]_vars => [Promise!Next]_(Promise!vars)
<1> SUFFICES ASSUME EscrowAssumption, IInv, [Next]_vars PROVE Promise!Next \/ UNCHANGED Promise!vars
  OBVIOUS
<1>1. CASE Transaction
  <2>1. ASSUME NEW b \in Parties, NEW x \in Amounts, NEW list \in ParticipantLists,
               NEW required \in 0 .. MAX_PARTICIPANTS, NEW lock \in 0 .. MaxTime,
               NEW n \in 0 .. MaxEscrows, CreateEscrowAdvanced(b, x, list, required, lock, n)
        PROVE  Promise!Next
    BY <1>1, <2>1, CreateOpens DEF Transaction
  <2>2. ASSUME NEW id \in EscrowId, NEW x \in Amounts, DepositFunds(id, x) PROVE Promise!Next
    BY <1>1, <2>2, DepositPaysIn DEF Transaction
  <2>3. ASSUME NEW id \in EscrowId, ReleaseFunds(id) PROVE Promise!Next
    BY <1>1, <2>3, ReleasePaysOut DEF Transaction
  <2>4. ASSUME NEW id \in EscrowId, NEW k \in ApprovalType, NEW s \in Parties,
               SignApproval(id, k, s)
        PROVE  Promise!Next \/ UNCHANGED Promise!vars
    BY <1>1, <2>4, SignAgrees DEF Transaction
  <2> QED
    BY <1>1, <2>1, <2>2, <2>3, <2>4 DEF Transaction
<1>2. CASE UNCHANGED records
  BY <1>2 DEF records, Promise!vars
<1> QED
  BY <1>1, <1>2 DEF Next, SetPause, Tick, vars

(* The contract keeps the promise of EscrowPromise: money goes in up to    *)
(* the agreed amount and comes out once, by a quorum of distinct parties.  *)
THEOREM Implements == ASSUME EscrowAssumption PROVE Spec => KeepsPromise
<1>1. Init => Promise!Init
  BY InitPromise
<1>2. IInv /\ [Next]_vars => [Promise!Next]_(Promise!vars)
  BY StepPromise
<1> QED
  BY Invariance, <1>1, <1>2, PTL DEF Spec, KeepsPromise, Promise!Spec

-----------------------------------------------------------------------------
(* Bridge.                                                                 *)

(* A request that exists has a sender and asks for the minimum.            *)
RequestsSound ==
  \A id \in RequestId :
    /\ request[id].sender \in Senders <=> RequestExists(id)
    /\ RequestExists(id) => MinSignatures <= request[id].required
    /\ IsFiniteSet(request[id].signatures)

(* Records are of requests that exist and of executions that took place.   *)
RecordsSound ==
  /\ \A id \in verified : RequestExists(id)
  /\ \A s \in Senders : \A i \in 1 .. Len(history[s]) : history[s][i].tx <= txCounter

BridgeIInv == /\ BridgeTypeOK /\ RequestsSound /\ RecordsSound
        /\ LockedWasSigned /\ EveryRequestPaid /\ HistoryIsTrue

RequestType ==
  [sender : Senders \union {NoSender}, required : 0 .. MaxSignatures,
   signatures : SUBSET Accounts, expires : Nat \union {NoTimeout},
   status : {"Absent", "Pending", "Locked", "Completed", "Failed"}]

Record == [tx : 1 .. MaxExecutions, request : RequestId]

RequestsOK ==
  /\ request \in [RequestId -> RequestType]
  /\ \A id \in RequestId : RequestExists(id) <=> id <= reqCounter

-----------------------------------------------------------------------------
(* Each part of the invariant, kept by whatever leaves it its variables.   *)

(* The conjuncts of the type that are not about requests.                  *)
LEMMA RestOfType ==
  BridgeTypeOK <=>
    /\ RequestsOK
    /\ sequence \in 0 .. MaxSequence /\ bridgePaused \in BOOLEAN /\ operators \subseteq Accounts
    /\ reqCounter \in 0 .. MaxRequests /\ bridgeNonce \in [Senders -> Nat]
    /\ txCounter \in 0 .. MaxExecutions /\ verified \subseteq RequestId
    /\ history \in [Senders -> Seq(Record)] /\ executions \in [Senders -> Seq(Record)]
    /\ \A s \in Senders : Len(history[s]) <= MAX_HISTORY_ITEMS
    /\ wallet \in [Senders -> Nat] /\ approvals \in [RequestId -> SUBSET Accounts]
  BY DEF BridgeTypeOK, RequestsOK, RequestType, Record

(* What is paid and what is on record depends on the senders of requests   *)
(* and on which exist, not on their status.                                *)
LEMMA SendersKept ==
  ASSUME BridgeIInv, UNCHANGED <<bridgeNonce, wallet, verified, history, txCounter, executions>>,
         \A id \in RequestId : /\ request'[id].sender = request[id].sender
                               /\ RequestExists(id)' <=> RequestExists(id)
  PROVE  RecordsSound' /\ EveryRequestPaid' /\ HistoryIsTrue'
<1>1. verified \subseteq RequestId /\ history \in [Senders -> Seq(Record)]
  BY RestOfType DEF BridgeIInv
<1>2. RecordsSound'
  BY <1>1 DEF BridgeIInv, RecordsSound
<1>3. ASSUME NEW s \in Senders PROVE RequestsOf(s)' = RequestsOf(s)
  <2>1. {id \in RequestId : request'[id].sender = s} = {id \in RequestId : request[id].sender = s}
    OBVIOUS
  <2> QED
    BY <2>1 DEF RequestsOf
<1>4. EveryRequestPaid'
  BY <1>3 DEF BridgeIInv, EveryRequestPaid
<1>5. HistoryIsTrue'
  <2>1. \A s \in Senders : \A i \in 1 .. Len(history[s]) : history[s][i].request \in RequestId
    BY <1>1 DEF BridgeIInv, HistoryIsTrue
  <2>2. /\ \A s \in Senders : \A i \in 1 .. Len(history'[s]) :
             /\ history'[s][i].request \in verified'
             /\ request'[history'[s][i].request].sender = s
             /\ \A j \in 1 .. i - 1 : history'[s][j].tx < history'[s][i].tx
        /\ \A s \in Senders : history'[s] = Latest(executions'[s], MAX_HISTORY_ITEMS)
    BY <2>1 DEF BridgeIInv, HistoryIsTrue
  <2> QED
    BY <2>2 DEF BridgeIInv, HistoryIsTrue
<1> QED
  BY <1>2, <1>4, <1>5

(* A change of the status and the signatures of one existing request that  *)
(* leaves it locked or completed only when it is signed.                   *)
LEMMA RequestChange ==
  ASSUME BridgeAssumption, BridgeIInv, NEW id \in RequestId, RequestExists(id),
         NEW S \in SUBSET Accounts, IsFiniteSet(S),
         NEW st \in {"Pending", "Locked", "Completed", "Failed"},
         st \in {"Locked", "Completed"} => request[id].required <= Cardinality(S),
         request' = [request EXCEPT ![id].signatures = S, ![id].status = st],
         UNCHANGED reqCounter
  PROVE  /\ RequestsOK' /\ RequestsSound' /\ LockedWasSigned'
         /\ \A i \in RequestId : /\ request'[i].sender = request[i].sender
                                 /\ RequestExists(i)' <=> RequestExists(i)
<1>1. request \in [RequestId -> RequestType]
  BY RestOfType DEF BridgeIInv, RequestsOK
<1>2. /\ request' \in [RequestId -> RequestType]
      /\ \A i \in RequestId \ {id} : request'[i] = request[i]
      /\ request'[id].sender = request[id].sender
      /\ request'[id].required = request[id].required
      /\ request'[id].signatures = S /\ request'[id].status = st
  BY <1>1 DEF RequestType
<1>3. \A i \in RequestId : /\ request'[i].sender = request[i].sender
                           /\ RequestExists(i)' <=> RequestExists(i)
  BY <1>2 DEF RequestExists
<1>4. RequestsOK'
  BY <1>2, <1>3, RestOfType DEF BridgeIInv, RequestsOK
<1>5. RequestsSound'
  BY <1>2, <1>3 DEF BridgeIInv, RequestsSound
<1>6. LockedWasSigned'
  <2>1. MinSignatures <= request[id].required
    BY DEF BridgeIInv, RequestsSound
  <2> QED
    BY <1>2, <2>1 DEF BridgeIInv, LockedWasSigned
<1> QED
  BY <1>3, <1>4, <1>5, <1>6

(* Such a change keeps the invariant when nothing else changes.            *)
LEMMA ChangeKeepsInv ==
  ASSUME BridgeAssumption, BridgeIInv, NEW id \in RequestId, RequestExists(id),
         NEW S \in SUBSET Accounts, IsFiniteSet(S),
         NEW st \in {"Pending", "Locked", "Completed", "Failed"},
         st \in {"Locked", "Completed"} => request[id].required <= Cardinality(S),
         request' = [request EXCEPT ![id].signatures = S, ![id].status = st],
         approvals' \in [RequestId -> SUBSET Accounts],
         UNCHANGED <<sequence, bridgePaused, operators, reqCounter, bridgeNonce, txCounter,
                     verified, history, wallet, executions>>
  PROVE  BridgeIInv'
<1>1. /\ RequestsOK' /\ RequestsSound' /\ LockedWasSigned'
      /\ \A i \in RequestId : /\ request'[i].sender = request[i].sender
                              /\ RequestExists(i)' <=> RequestExists(i)
  BY RequestChange
<1>2. RecordsSound' /\ EveryRequestPaid' /\ HistoryIsTrue'
  BY <1>1, SendersKept
<1>3. BridgeTypeOK'
  BY <1>1 DEF BridgeIInv, BridgeTypeOK, RequestsOK, RequestType
<1> QED
  BY <1>1, <1>2, <1>3 DEF BridgeIInv

(* Steps that touch no request and no book.                                *)
LEMMA ElseKeepsInv ==
  ASSUME BridgeAssumption, BridgeIInv, UNCHANGED <<bridgeRecords, approvals>>,
         sequence' \in 0 .. MaxSequence, bridgePaused' \in BOOLEAN, operators' \subseteq Accounts
  PROVE  BridgeIInv'
<1>1. UNCHANGED <<reqCounter, request, bridgeNonce, txCounter, verified, history, wallet,
                executions>>
  BY DEF bridgeRecords
<1>2. BridgeTypeOK'
  BY <1>1 DEF BridgeIInv, BridgeTypeOK, RequestExists
<1>3. RequestsSound' /\ LockedWasSigned'
  BY <1>1 DEF BridgeIInv, RequestsSound, LockedWasSigned, RequestExists
<1>4. RecordsSound' /\ EveryRequestPaid' /\ HistoryIsTrue'
  BY <1>1, SendersKept DEF RequestExists
<1> QED
  BY <1>2, <1>3, <1>4 DEF BridgeIInv

-----------------------------------------------------------------------------
(* The contract starts without requests and without records.               *)
LEMMA InitBridgeIInv == BridgeAssumption /\ BridgeInit => BridgeIInv
<1> SUFFICES ASSUME BridgeAssumption, BridgeInit PROVE BridgeIInv
  OBVIOUS
<1>1. RequestsOK
  BY FS_EmptySet DEF BridgeAssumption, BridgeInit, RequestsOK, RequestType, NoRequest, RequestExists, RequestId
<1>2. BridgeTypeOK
  <2>1. /\ history \in [Senders -> Seq(Record)] /\ \A s \in Senders : Len(history[s]) = 0
        /\ executions \in [Senders -> Seq(Record)]
    BY DEF BridgeInit
  <2>2. /\ 0 \in 0 .. MaxSequence /\ 0 \in 0 .. MaxRequests /\ 0 \in 0 .. MaxExecutions
        /\ 0 <= MAX_HISTORY_ITEMS /\ Funds \in Nat /\ Admin \in Accounts
    BY DEF BridgeAssumption
  <2> QED
    BY <1>1, <2>1, <2>2, RestOfType DEF BridgeInit
<1>3. RequestsSound /\ LockedWasSigned
  BY FS_EmptySet DEF BridgeInit, BridgeAssumption, RequestsSound, LockedWasSigned, NoRequest,
     RequestExists, NoSender
<1>4. RecordsSound /\ HistoryIsTrue
  <2>1. txCounter = 0 /\ verified = {} /\ \A s \in Senders : history[s] = << >>
    BY DEF BridgeInit
  <2>2. \A s \in Senders : 1 .. Len(history[s]) = {}
    BY <2>1
  <2>3. ASSUME NEW s \in Senders PROVE history[s] = Latest(executions[s], MAX_HISTORY_ITEMS)
    <3>1. executions[s] = << >> /\ Len(<< >>) = 0 /\ 0 <= MAX_HISTORY_ITEMS
      BY DEF BridgeInit, BridgeAssumption
    <3>2. Latest(<< >>, MAX_HISTORY_ITEMS) = << >>
      BY <3>1 DEF Latest
    <3> QED
      BY <2>1, <3>1, <3>2
  <2> QED
    BY <2>1, <2>2, <2>3 DEF RecordsSound, HistoryIsTrue
<1>5. EveryRequestPaid
  <2>1. ASSUME NEW s \in Senders PROVE RequestsOf(s) = 0
    <3>1. {id \in RequestId : request[id].sender = s} = {}
      BY DEF BridgeInit, BridgeAssumption, NoRequest, NoSender
    <3> QED
      BY <3>1, FS_EmptySet DEF RequestsOf
  <2> QED
    BY <2>1 DEF BridgeInit, BridgeAssumption, EveryRequestPaid
<1> QED
  BY <1>2, <1>3, <1>4, <1>5 DEF BridgeIInv

(* A new request takes the next id, one more nonce and one fee.            *)
LEMMA InitiateKeepsInv ==
  ASSUME BridgeAssumption, BridgeIInv, NEW s \in Senders, NEW required \in 1 .. MaxSignatures,
         NEW t \in Timeouts, NEW n \in 1 .. MaxRequests,
         InitiateBridgeMultisig(s, required, t, n)
  PROVE  BridgeIInv'
<1>a. reqCounter \in Int
  BY RestOfType DEF BridgeIInv, BridgeAssumption
<1>b. PICK id \in Int : id = reqCounter + 1
  BY <1>a
<1> DEFINE expires == IF t = NoTimeout THEN NoTimeout ELSE sequence + t
           new == [sender |-> s, required |-> required, signatures |-> {}, status |-> "Pending",
                   expires |-> expires]
<1>0. /\ request \in [RequestId -> RequestType] /\ bridgeNonce \in [Senders -> Nat]
      /\ wallet \in [Senders -> Nat] /\ sequence \in Nat /\ reqCounter \in 0 .. MaxRequests
      /\ \A i \in RequestId : RequestExists(i) <=> i <= reqCounter
      /\ verified \subseteq RequestId /\ history \in [Senders -> Seq(Record)]
      /\ executions \in [Senders -> Seq(Record)]
  <2>1. sequence \in 0 .. MaxSequence /\ MaxSequence \in Nat => sequence \in Nat
    OBVIOUS
  <2>2. MaxSequence \in Nat
    BY DEF BridgeAssumption
  <2> QED
    BY <2>1, <2>2, RestOfType DEF BridgeIInv, RequestsOK
<1>1. /\ id \in RequestId /\ ~RequestExists(id) /\ reqCounter' = id
      /\ request' = [request EXCEPT ![id] = new]
      /\ bridgeNonce' = [bridgeNonce EXCEPT ![s] = bridgeNonce[s] + 1]
      /\ UNCHANGED <<sequence, bridgePaused, operators, txCounter, verified, history, approvals,
                     executions>>
  BY <1>0, <1>b DEF InitiateBridgeMultisig, NonceAccepted, RequestId, BridgeAssumption
<1>2. new \in RequestType /\ MinSignatures <= required
  <2>1. expires \in Nat \union {NoTimeout}
    BY <1>0 DEF BridgeAssumption
  <2>2. required \in 0 .. MaxSignatures /\ MinSignatures <= required
    BY DEF BridgeAssumption, InitiateBridgeMultisig
  <2> HIDE DEF expires
  <2> QED
    BY <2>1, <2>2 DEF RequestType
<1>3. /\ new.sender = s /\ new.required = required /\ new.status = "Pending"
      /\ new.signatures = {}
  OBVIOUS
<1> HIDE DEF new
<1>4. /\ request' \in [RequestId -> RequestType] /\ request'[id] = new
      /\ \A i \in RequestId \ {id} : request'[i] = request[i]
  BY <1>0, <1>1, <1>2
<1>5. /\ RequestExists(id)'
      /\ \A i \in RequestId \ {id} : RequestExists(i)' <=> RequestExists(i)
  BY <1>1, <1>3, <1>4 DEF RequestExists
<1>6. /\ wallet' \in [Senders -> Nat]
      /\ \A q \in Senders \ {s} : wallet'[q] = wallet[q]
      /\ ServiceFee > 0 => wallet'[s] = wallet[s] - ServiceFee
  <2>1. PayFee(s)
    BY DEF InitiateBridgeMultisig
  <2>2. CASE ServiceFee > 0
    <3>1. wallet[s] - ServiceFee \in Nat
      BY <1>0, <2>1, <2>2 DEF PayFee, BridgeAssumption
    <3> QED
      BY <1>0, <2>1, <2>2, <3>1 DEF PayFee
  <2>3. CASE ~(ServiceFee > 0)
    BY <1>0, <2>1, <2>3 DEF PayFee
  <2> QED
    BY <2>2, <2>3
<1>7. BridgeTypeOK'
  <2>1. RequestsOK'
    BY <1>0, <1>1, <1>4, <1>5, <1>b DEF RequestsOK, RequestId
  <2>2. reqCounter' \in 0 .. MaxRequests /\ bridgeNonce' \in [Senders -> Nat]
    <3>1. reqCounter' \in 0 .. MaxRequests
      <4>1. MaxRequests \in Nat
        BY DEF BridgeAssumption
      <4> QED
        BY ONLY <1>1, <4>1 DEF RequestId
    <3>2. bridgeNonce[s] + 1 \in Nat
      BY <1>0
    <3> QED
      BY <1>0, <1>1, <3>1, <3>2
  <2> QED
    BY <1>1, <1>6, <2>1, <2>2, RestOfType
       DEF BridgeIInv, BridgeTypeOK, RequestsOK, RequestType
<1>8. RequestsSound' /\ LockedWasSigned'
  <2>1. ASSUME NEW i \in RequestId
        PROVE  /\ request'[i].sender \in Senders <=> RequestExists(i)'
               /\ RequestExists(i)' => MinSignatures <= request'[i].required
               /\ IsFiniteSet(request'[i].signatures)
               /\ request'[i].status \in {"Locked", "Completed"} =>
                    /\ MinSignatures <= request'[i].required
                    /\ request'[i].required <= Cardinality(request'[i].signatures)
    <3>1. CASE i = id
      BY <1>2, <1>3, <1>4, <1>5, <3>1, FS_EmptySet
    <3>2. CASE i # id
      BY <1>4, <1>5, <3>2 DEF BridgeIInv, RequestsSound, LockedWasSigned
    <3> QED
      BY <3>1, <3>2
  <2> QED
    BY <2>1 DEF RequestsSound, LockedWasSigned
<1>9. RecordsSound' /\ HistoryIsTrue'
  <2>1. \A i \in verified : i \in RequestId \ {id}
    <3>1. \A i \in verified : RequestExists(i)
      BY DEF BridgeIInv, RecordsSound
    <3> QED
      BY ONLY <1>0, <1>1, <3>1
  <2>2. RecordsSound'
    BY <1>0, <1>1, <1>5, <2>1 DEF BridgeIInv, RecordsSound
  <2>3. ASSUME NEW q \in Senders, NEW i \in 1 .. Len(history[q])
        PROVE  /\ history[q][i].request \in verified
               /\ request'[history[q][i].request].sender = q
               /\ \A j \in 1 .. i - 1 : history[q][j].tx < history[q][i].tx
    <3>1. /\ history[q][i].request \in verified
          /\ request[history[q][i].request].sender = q
          /\ \A j \in 1 .. i - 1 : history[q][j].tx < history[q][i].tx
      BY DEF BridgeIInv, HistoryIsTrue
    <3>2. request'[history[q][i].request] = request[history[q][i].request]
      BY ONLY <1>4, <2>1, <3>1
    <3> QED
      BY <3>1, <3>2
  <2>4. UNCHANGED <<history, executions, verified, txCounter>>
    BY <1>1
  <2>5. /\ \A q \in Senders : history[q] = Latest(executions[q], MAX_HISTORY_ITEMS)
        /\ txCounter > 0 =>
             \E q \in Senders : history[q] # <<>> /\ history[q][Len(history[q])].tx = txCounter
    BY DEF BridgeIInv, HistoryIsTrue
  <2>6. HistoryIsTrue'
    BY ONLY <2>3, <2>4, <2>5 DEF HistoryIsTrue
  <2> QED
    BY <2>2, <2>6
<1>10. EveryRequestPaid'
  <2>1. RequestsOf(s)' = RequestsOf(s) + 1 /\ RequestsOf(s) \in Nat
    <3> DEFINE before == {i \in RequestId : request[i].sender = s}
    <3>1. {i \in RequestId : request'[i].sender = s} = before \union {id} /\ id \notin before
      BY <1>1, <1>3, <1>4 DEF BridgeIInv, RequestsSound
    <3>2. IsFiniteSet(before) /\ Cardinality(before) \in Nat
      <4>1. IsFiniteSet(RequestId)
        <5>1. MaxRequests \in Int /\ 1 \in Int
          BY DEF BridgeAssumption
        <5> QED
          BY ONLY <5>1, FS_Interval DEF RequestId
      <4> QED
        BY <4>1, FS_Subset, FS_CardinalityType
    <3> QED
      BY <3>1, <3>2, FS_AddElement DEF RequestsOf
  <2>2. ASSUME NEW q \in Senders \ {s} PROVE RequestsOf(q)' = RequestsOf(q)
    <3>1. request[id].sender # q
      BY <1>1 DEF BridgeIInv, RequestsSound
    <3>2. {i \in RequestId : request'[i].sender = q} = {i \in RequestId : request[i].sender = q}
      BY <1>1, <1>3, <1>4, <3>1
    <3> QED
      BY <3>2 DEF RequestsOf
  <2>3. ServiceFee * (RequestsOf(s) + 1) = ServiceFee * RequestsOf(s) + ServiceFee
    <3>1. \A x, y \in Int : x * (y + 1) = x * y + x
      OBVIOUS
    <3> QED
      BY <2>1, <3>1 DEF BridgeAssumption
  <2>4. ASSUME NEW q \in Senders
        PROVE  /\ bridgeNonce'[q] = RequestsOf(q)'
               /\ ServiceFee > 0 => wallet'[q] = Funds - ServiceFee * RequestsOf(q)'
    <3>1. CASE q = s
      <4> DEFINE paid == ServiceFee * RequestsOf(s)
      <4>1. paid \in Int /\ Funds \in Int /\ ServiceFee \in Int
        BY <2>1 DEF BridgeAssumption
      <4>2. bridgeNonce[s] = RequestsOf(s) /\ (ServiceFee > 0 => wallet[s] = Funds - paid)
        BY DEF BridgeIInv, EveryRequestPaid
      <4>3. ServiceFee * RequestsOf(s)' = paid + ServiceFee
        BY <2>1, <2>3
      <4> HIDE DEF paid
      <4> QED
        BY <1>0, <1>1, <1>6, <2>1, <3>1, <4>1, <4>2, <4>3
    <3>2. CASE q # s
      BY <1>0, <1>1, <1>6, <2>2, <3>2 DEF BridgeIInv, EveryRequestPaid
    <3> QED
      BY <3>1, <3>2
  <2> QED
    BY <2>4 DEF EveryRequestPaid
<1> QED
  BY <1>7, <1>8, <1>9, <1>10 DEF BridgeIInv

(* A signature is added; the status may lock, fail, or stay what it was.   *)
LEMMA SignKeepsInv ==
  ASSUME BridgeAssumption, BridgeIInv, NEW op \in Accounts, NEW id \in RequestId,
         NEW approve \in BOOLEAN, SignBridgeRequest(op, id, approve)
  PROVE  BridgeIInv'
<1> DEFINE S == request[id].signatures \union {op}
           st == StatusAfterSigning(request[id], S, approve)
<1>1. request \in [RequestId -> RequestType] /\ approvals \in [RequestId -> SUBSET Accounts]
  BY RestOfType DEF BridgeIInv, RequestsOK
<1>2. RequestExists(id)
  BY DEF SignBridgeRequest, MaySignRequest, RequestExists
<1>3. S \in SUBSET Accounts
  BY <1>1 DEF RequestType
<1>4. /\ IsFiniteSet(S) /\ Cardinality(S) \in Int
      /\ Cardinality(request[id].signatures) \in Int
      /\ Cardinality(S) >= Cardinality(request[id].signatures)
  <2>1. IsFiniteSet(request[id].signatures)
    BY DEF BridgeIInv, RequestsSound
  <2>2. Cardinality(request[id].signatures) \in Nat
    BY <2>1, FS_CardinalityType
  <2>3. /\ IsFiniteSet(S)
        /\ Cardinality(S) = IF op \in request[id].signatures
                            THEN Cardinality(request[id].signatures)
                            ELSE Cardinality(request[id].signatures) + 1
    BY <2>1, FS_AddElement
  <2> QED
    BY <2>2, <2>3
<1>5. request[id].required \in Int
      /\ request[id].status \in {"Pending", "Locked", "Completed", "Failed"}
  BY <1>1, <1>2 DEF RequestType, RequestExists
<1>6. st \in {"Pending", "Locked", "Completed", "Failed"}
  BY <1>5 DEF StatusAfterSigning
<1>7. st \in {"Locked", "Completed"} => request[id].required <= Cardinality(S)
  BY <1>4, <1>5 DEF StatusAfterSigning, BridgeIInv, LockedWasSigned
<1>8. /\ request' = [request EXCEPT ![id].signatures = S, ![id].status = st]
      /\ approvals' \in [RequestId -> SUBSET Accounts]
      /\ UNCHANGED <<sequence, bridgePaused, operators, reqCounter, bridgeNonce, txCounter,
                     verified, history, wallet, executions>>
  BY <1>1 DEF SignBridgeRequest
<1> HIDE DEF S, st
<1> QED
  BY <1>2, <1>3, <1>4, <1>6, <1>7, <1>8, ChangeKeepsInv

(* Recovery never ends in a status that needs signatures.                  *)
LEMMA RecoverKeepsInv ==
  ASSUME BridgeAssumption, BridgeIInv, NEW id \in RequestId, NEW action \in RecoveryAction,
         RecoverFailedBridge(id, action)
  PROVE  BridgeIInv'
<1>1. request \in [RequestId -> RequestType] /\ approvals \in [RequestId -> SUBSET Accounts]
  BY RestOfType DEF BridgeIInv, RequestsOK
<1>2. /\ RequestExists(id)
      /\ approvals' \in [RequestId -> SUBSET Accounts]
      /\ UNCHANGED <<sequence, bridgePaused, operators, reqCounter, bridgeNonce, txCounter,
                     verified, history, wallet, executions>>
  BY <1>1 DEF RecoverFailedBridge, RequestExists
<1>3. CASE action = "RetryBridge"
  <2>1. request' = [request EXCEPT ![id].signatures = {}, ![id].status = "Pending"]
    BY <1>1, <1>3 DEF RecoverFailedBridge
  <2>2. IsFiniteSet({}) /\ {} \in SUBSET Accounts
    BY FS_EmptySet
  <2> QED
    BY <1>2, <2>1, <2>2, ChangeKeepsInv
<1>4. CASE action # "RetryBridge"
  <2> DEFINE S == request[id].signatures
  <2>1. request' = [request EXCEPT ![id].signatures = S, ![id].status = "Failed"]
    BY <1>1, <1>4 DEF RecoverFailedBridge, RequestType
  <2>2. S \in SUBSET Accounts /\ IsFiniteSet(S)
    BY <1>1 DEF RequestType, BridgeIInv, RequestsSound
  <2> HIDE DEF S
  <2> QED
    BY <1>2, <2>1, <2>2, ChangeKeepsInv
<1> QED
  BY <1>3, <1>4


(* Remembering adds the newest entry at the end; a full history loses its  *)
(* oldest.                                                                 *)
LEMMA RememberEffect ==
  ASSUME BridgeAssumption, NEW h \in Seq(Record), NEW x \in Record, Len(h) <= MAX_HISTORY_ITEMS
  PROVE  /\ Remember(h, x) \in Seq(Record)
         /\ Len(Remember(h, x)) \in 1 .. MAX_HISTORY_ITEMS
         /\ Remember(h, x)[Len(Remember(h, x))] = x
         /\ \E k \in {0, 1} :
              /\ Len(h) = Len(Remember(h, x)) - 1 + k
              /\ \A i \in 1 .. Len(Remember(h, x)) - 1 : Remember(h, x)[i] = h[i + k]
<1>0. MAX_HISTORY_ITEMS \in Nat /\ MAX_HISTORY_ITEMS > 0 /\ Len(h) \in Nat
  BY DEF BridgeAssumption
<1>1. CASE Len(h) >= MAX_HISTORY_ITEMS
  <2>1. Remember(h, x) = Append(Tail(h), x)
    BY <1>1 DEF Remember
  <2>2. h # << >>
    BY <1>0, <1>1
  <2>3. /\ Tail(h) \in Seq(Record) /\ Len(Tail(h)) = Len(h) - 1
        /\ \A i \in 1 .. Len(Tail(h)) : Tail(h)[i] = h[i + 1]
    BY <2>2
  <2> DEFINE t == Tail(h)
  <2>4. /\ Append(t, x) \in Seq(Record) /\ Len(Append(t, x)) = Len(t) + 1
        /\ \A i \in 1 .. Len(t) : Append(t, x)[i] = t[i]
        /\ Append(t, x)[Len(t) + 1] = x
    BY <2>3, AppendProperties
  <2> HIDE DEF t
  <2>5. Remember(h, x) = Append(t, x)
    BY <2>1 DEF t
  <2>6. t \in Seq(Record) /\ Len(t) = Len(h) - 1 /\ \A i \in 1 .. Len(t) : t[i] = h[i + 1]
    BY <2>3 DEF t
  <2>7. /\ Len(h) = Len(Remember(h, x)) - 1 + 1
        /\ \A i \in 1 .. Len(Remember(h, x)) - 1 : Remember(h, x)[i] = h[i + 1]
    BY <1>0, <2>4, <2>5, <2>6
  <2> QED
    BY <1>0, <1>1, <2>4, <2>5, <2>6, <2>7
<1>2. CASE Len(h) < MAX_HISTORY_ITEMS
  <2>1. Remember(h, x) = Append(h, x)
    BY <1>0, <1>2 DEF Remember
  <2>2. /\ Append(h, x) \in Seq(Record) /\ Len(Append(h, x)) = Len(h) + 1
        /\ \A i \in 1 .. Len(h) : Append(h, x)[i] = h[i]
        /\ Append(h, x)[Len(h) + 1] = x
    BY AppendProperties
  <2>3. /\ Len(h) = Len(Remember(h, x)) - 1 + 0
        /\ \A i \in 1 .. Len(Remember(h, x)) - 1 : Remember(h, x)[i] = h[i + 0]
    BY <1>0, <2>1, <2>2
  <2> QED
    BY <1>0, <1>2, <2>1, <2>2, <2>3
<1> QED
  BY <1>0, <1>1, <1>2

(* An entry of a history names an execution and a request.                 *)
LEMMA EntryType ==
  ASSUME BridgeAssumption, NEW h \in Seq(Record), NEW i \in 1 .. Len(h)
  PROVE  h[i].tx \in Int /\ h[i].request \in RequestId
<1>1. h[i] \in Record
  BY ElementOfSeq
<1> QED
  BY <1>1 DEF Record

(* An execution completes a request that was locked, and is remembered.    *)
LEMMA ExecuteKeepsInv ==
  ASSUME BridgeAssumption, BridgeIInv, NEW op \in Accounts, NEW id \in RequestId,
         ExecuteBridge(op, id)
  PROVE  BridgeIInv'
<1> DEFINE s == request[id].sender
           S == request[id].signatures
           rec == [tx |-> txCounter + 1, request |-> id]
<1>0. /\ request \in [RequestId -> RequestType]
      /\ txCounter \in 0 .. MaxExecutions /\ verified \subseteq RequestId
      /\ history \in [Senders -> Seq(Record)] /\ executions \in [Senders -> Seq(Record)]
      /\ \A q \in Senders : Len(history[q]) <= MAX_HISTORY_ITEMS
  BY RestOfType DEF BridgeIInv, RequestsOK
<1>1. /\ request[id].status = "Locked" /\ RequestExists(id) /\ s \in Senders
      /\ request[id].required <= Cardinality(S)
      /\ S \in SUBSET Accounts /\ IsFiniteSet(S)
  BY <1>0 DEF ExecuteBridge, RequestExists, BridgeIInv, RequestsSound, LockedWasSigned, RequestType
<1>2. /\ request' = [request EXCEPT ![id].signatures = S, ![id].status = "Completed"]
      /\ verified' = verified \union {id} /\ txCounter' = txCounter + 1
      /\ history' = [history EXCEPT ![s] = Remember(history[s], rec)]
      /\ executions' = [executions EXCEPT ![s] = Append(executions[s], rec)]
      /\ UNCHANGED <<sequence, bridgePaused, operators, reqCounter, bridgeNonce, wallet, approvals>>
  BY <1>0 DEF ExecuteBridge, RequestType
<1>3. rec \in Record /\ txCounter' \in 0 .. MaxExecutions
  BY <1>0, <1>2 DEF ExecuteBridge, Record, BridgeAssumption
<1>4. rec.tx = txCounter + 1 /\ rec.request = id
  OBVIOUS
<1> HIDE DEF S, rec
<1>5. /\ RequestsOK' /\ RequestsSound' /\ LockedWasSigned'
      /\ \A i \in RequestId : /\ request'[i].sender = request[i].sender
                              /\ RequestExists(i)' <=> RequestExists(i)
  BY <1>1, <1>2, RequestChange
<1>6. PICK snd \in Senders : snd = s
  BY <1>1
<1>7. PICK old \in Seq(Record) : old = history[snd] /\ Len(old) <= MAX_HISTORY_ITEMS
  BY <1>0, <1>6
<1>8. PICK new \in Seq(Record) : new = Remember(old, rec)
  BY <1>3, <1>7, RememberEffect
<1>9. /\ Len(new) \in 1 .. MAX_HISTORY_ITEMS /\ new[Len(new)] = rec
      /\ \E k \in {0, 1} : /\ Len(old) = Len(new) - 1 + k
                           /\ \A i \in 1 .. Len(new) - 1 : new[i] = old[i + k]
  <2> DEFINE r == Remember(old, rec)
  <2>1. /\ Len(r) \in 1 .. MAX_HISTORY_ITEMS /\ r[Len(r)] = rec
        /\ \E k \in {0, 1} : /\ Len(old) = Len(r) - 1 + k
                             /\ \A i \in 1 .. Len(r) - 1 : r[i] = old[i + k]
    BY <1>3, <1>7, RememberEffect
  <2> HIDE DEF r
  <2>2. r = new
    BY <1>8 DEF r
  <2> QED
    BY <2>1, <2>2
<1>10. /\ history' \in [Senders -> Seq(Record)] /\ history'[snd] = new
       /\ \A q \in Senders \ {snd} : history'[q] = history[q]
  BY <1>0, <1>2, <1>6, <1>7, <1>8
<1>17. PICK past \in Seq(Record) : past = executions[snd]
  BY <1>0
<1>18. Append(past, rec) \in Seq(Record)
  BY <1>3, AppendProperties
<1>19. PICK made \in Seq(Record) : made = Append(past, rec)
  BY <1>18
<1>20. /\ executions' \in [Senders -> Seq(Record)] /\ executions'[snd] = made
       /\ \A q \in Senders \ {snd} : executions'[q] = executions[q]
  BY <1>0, <1>2, <1>6, <1>17, <1>19
<1>21. ASSUME NEW q \in Senders PROVE history'[q] = Latest(executions'[q], MAX_HISTORY_ITEMS)
  <2>1. history[q] = Latest(executions[q], MAX_HISTORY_ITEMS)
    BY DEF BridgeIInv, HistoryIsTrue
  <2>2. CASE q = snd
    <3>1. old = Latest(past, MAX_HISTORY_ITEMS) /\ MAX_HISTORY_ITEMS \in Nat \ {0}
      BY <1>7, <1>17, <2>1, <2>2 DEF BridgeAssumption
    <3>2. Append(IF Len(old) >= MAX_HISTORY_ITEMS THEN Tail(old) ELSE old, rec)
            = Latest(Append(past, rec), MAX_HISTORY_ITEMS)
      BY <1>3, <3>1, LatestAppend
    <3>3. new = Latest(made, MAX_HISTORY_ITEMS)
      BY <1>8, <1>19, <3>2 DEF Remember
    <3> QED
      BY <1>10, <1>20, <2>2, <3>3
  <2>3. CASE q # snd
    BY <1>10, <1>20, <2>1, <2>3
  <2> QED
    BY <2>2, <2>3
<1>11. BridgeTypeOK'
  <2>1. \A q \in Senders : Len(history'[q]) <= MAX_HISTORY_ITEMS
    <3>1. Len(new) <= MAX_HISTORY_ITEMS
      BY <1>9
    <3> QED
      BY <1>0, <1>10, <3>1
  <2> QED
    BY <1>0, <1>2, <1>3, <1>5, <1>10, <1>20, <2>1
       DEF BridgeIInv, BridgeTypeOK, RequestsOK, RequestType, Record
<1>12. \A i \in 1 .. Len(old) : /\ old[i].tx <= txCounter /\ old[i].request \in verified
                                /\ request[old[i].request].sender = snd
                                /\ \A j \in 1 .. i - 1 : old[j].tx < old[i].tx
  <2>1. /\ \A i \in 1 .. Len(history[snd]) : history[snd][i].tx <= txCounter
        /\ \A i \in 1 .. Len(history[snd]) :
             /\ history[snd][i].request \in verified
             /\ request[history[snd][i].request].sender = snd
             /\ \A j \in 1 .. i - 1 : history[snd][j].tx < history[snd][i].tx
    BY <1>6 DEF BridgeIInv, RecordsSound, HistoryIsTrue
  <2> QED
    BY ONLY <1>7, <2>1
<1>13. \A i \in 1 .. Len(new) : /\ new[i].tx <= txCounter' /\ new[i].request \in verified'
                                /\ request[new[i].request].sender = snd
                                /\ \A j \in 1 .. i - 1 : new[j].tx < new[i].tx
  <2>1. PICK k \in {0, 1} : /\ Len(old) = Len(new) - 1 + k
                            /\ \A i \in 1 .. Len(new) - 1 : new[i] = old[i + k]
    BY <1>9
  <2>2. \A i \in 1 .. Len(new) - 1 : i + k \in 1 .. Len(old)
    BY <1>9, <2>1
  <2>3. \A i \in 1 .. Len(old) : old[i].tx \in Int
    BY <1>7, EntryType
  <2>4. ASSUME NEW i \in 1 .. Len(new) - 1
        PROVE  /\ new[i].tx \in Int /\ new[i].tx <= txCounter /\ new[i].request \in verified
               /\ request[new[i].request].sender = snd
               /\ \A j \in 1 .. i - 1 : new[j].tx < new[i].tx
    <3>1. i + k \in 1 .. Len(old) /\ new[i] = old[i + k]
      BY <2>1, <2>2
    <3>2. ASSUME NEW j \in 1 .. i - 1 PROVE new[j].tx < new[i].tx
      <4>1. j \in 1 .. Len(new) - 1 /\ j + k \in 1 .. (i + k) - 1
        BY <1>9, <2>1
      <4> QED
        BY <1>12, <2>1, <3>1, <4>1
    <3> QED
      BY <1>12, <2>3, <3>1, <3>2
  <2>5. ASSUME NEW i \in 1 .. Len(new)
        PROVE  /\ new[i].tx <= txCounter' /\ new[i].request \in verified'
               /\ request[new[i].request].sender = snd
               /\ \A j \in 1 .. i - 1 : new[j].tx < new[i].tx
    <3>1. CASE i = Len(new)
      <4>1. new[i].tx = txCounter + 1 /\ new[i].request = id
        BY <1>4, <1>9, <3>1
      <4>2. \A j \in 1 .. i - 1 : j \in 1 .. Len(new) - 1
        BY <3>1
      <4>3. txCounter' = txCounter + 1 /\ id \in verified' /\ request[id].sender = snd
        <5>1. txCounter' = txCounter + 1 /\ verified' = verified \union {id}
          BY ONLY <1>2
        <5> QED
          BY ONLY <1>6, <5>1
      <4>4. ASSUME NEW j \in 1 .. i - 1 PROVE new[j].tx < new[i].tx
        <5>1. new[j].tx \in Int /\ new[j].tx <= txCounter
          BY ONLY <2>4, <4>2
        <5> QED
          BY ONLY <1>0, <4>1, <5>1
      <4>5. new[i].tx <= txCounter'
        BY <1>0, <4>1, <4>3
      <4> QED
        BY ONLY <4>1, <4>3, <4>4, <4>5
    <3>2. CASE i # Len(new)
      <4>1. i \in 1 .. Len(new) - 1
        BY <1>9, <3>2
      <4>2. txCounter' = txCounter + 1 /\ verified \subseteq verified'
        <5>1. txCounter' = txCounter + 1 /\ verified' = verified \union {id}
          BY ONLY <1>2
        <5> QED
          BY ONLY <5>1
      <4>3. /\ new[i].tx \in Int /\ new[i].tx <= txCounter /\ new[i].request \in verified
            /\ request[new[i].request].sender = snd
            /\ \A j \in 1 .. i - 1 : new[j].tx < new[i].tx
        BY <2>4, <4>1
      <4>4. new[i].tx <= txCounter'
        BY <1>0, <4>2, <4>3
      <4> QED
        BY ONLY <4>2, <4>3, <4>4
    <3> QED
      BY <3>1, <3>2
  <2> QED
    BY <2>5
<1>14. RecordsSound'
  <2>1. \A i \in verified' : RequestExists(i)'
    BY <1>0, <1>1, <1>2, <1>5 DEF BridgeIInv, RecordsSound
  <2>2. ASSUME NEW q \in Senders \ {snd}, NEW i \in 1 .. Len(history[q])
        PROVE  history[q][i].tx <= txCounter'
    <3>1. history[q][i].tx <= txCounter
      BY DEF BridgeIInv, RecordsSound
    <3>2. history[q][i].tx \in Int
      BY <1>0, EntryType
    <3> QED
      BY <1>0, <1>2, <3>1, <3>2
  <2>3. ASSUME NEW q \in Senders, NEW i \in 1 .. Len(history'[q])
        PROVE  history'[q][i].tx <= txCounter'
    <3>1. CASE q = snd
      BY <1>10, <1>13, <3>1
    <3>2. CASE q # snd
      BY <1>10, <2>2, <3>2
    <3> QED
      BY <3>1, <3>2
  <2> QED
    BY <2>1, <2>3 DEF RecordsSound
<1>15. HistoryIsTrue'
  <2>1. ASSUME NEW q \in Senders, NEW i \in 1 .. Len(history'[q])
        PROVE  /\ history'[q][i].request \in verified'
               /\ request'[history'[q][i].request].sender = q
               /\ \A j \in 1 .. i - 1 : history'[q][j].tx < history'[q][i].tx
    <3>1. CASE q = snd
      <4>1. new[i].request \in RequestId
        BY <1>10, <3>1, EntryType
      <4> QED
        BY <1>5, <1>10, <1>13, <3>1, <4>1
    <3>2. CASE q # snd
      <4>1. history'[q] = history[q]
        BY <1>10, <3>2
      <4>2. /\ history[q][i].request \in verified
            /\ request[history[q][i].request].sender = q
            /\ \A j \in 1 .. i - 1 : history[q][j].tx < history[q][i].tx
        BY <4>1 DEF BridgeIInv, HistoryIsTrue
      <4> QED
        BY <1>0, <1>2, <1>5, <4>1, <4>2
    <3> QED
      BY <3>1, <3>2
  <2>2. history'[snd] # << >> /\ history'[snd][Len(history'[snd])].tx = txCounter'
    BY <1>2, <1>4, <1>9, <1>10
  <2> QED
    BY <1>21, <2>1, <2>2 DEF HistoryIsTrue
<1>16. EveryRequestPaid'
  <2>1. ASSUME NEW q \in Senders PROVE RequestsOf(q)' = RequestsOf(q)
    <3>1. {i \in RequestId : request'[i].sender = q} = {i \in RequestId : request[i].sender = q}
      BY <1>5
    <3> QED
      BY <3>1 DEF RequestsOf
  <2> QED
    BY <1>2, <2>1 DEF BridgeIInv, EveryRequestPaid
<1> QED
  BY <1>5, <1>11, <1>14, <1>15, <1>16 DEF BridgeIInv

(* Every call, and every ledger, keeps the inductive invariant.            *)
LEMMA NextBridgeIInv == BridgeAssumption /\ BridgeIInv /\ [BridgeNext]_bridgeVars => BridgeIInv'
<1> SUFFICES ASSUME BridgeAssumption, BridgeIInv, [BridgeNext]_bridgeVars PROVE BridgeIInv'
  OBVIOUS
<1>0. /\ sequence \in 0 .. MaxSequence /\ bridgePaused \in BOOLEAN /\ operators \subseteq Accounts
      /\ MaxSequence \in Nat
  BY RestOfType DEF BridgeIInv, BridgeAssumption
<1>1. CASE \E s \in Senders, t \in Timeouts, required \in 1 .. MaxSignatures,
              n \in 1 .. MaxRequests : InitiateBridgeMultisig(s, required, t, n)
  BY <1>1, InitiateKeepsInv
<1>2. CASE \E op \in Accounts, id \in RequestId, approve \in BOOLEAN :
             SignBridgeRequest(op, id, approve)
  BY <1>2, SignKeepsInv
<1>3. CASE \E op \in Accounts, id \in RequestId : ExecuteBridge(op, id)
  BY <1>3, ExecuteKeepsInv
<1>4. CASE \E id \in RequestId, action \in RecoveryAction : RecoverFailedBridge(id, action)
  BY <1>4, RecoverKeepsInv
<1>5. CASE \E p \in BOOLEAN : SetBridgePause(p)
  BY <1>0, <1>5, ElseKeepsInv DEF SetBridgePause
<1>6. CASE \E op \in Accounts : AddOperator(op) \/ RemoveOperator(op)
  BY <1>0, <1>6, ElseKeepsInv DEF AddOperator, RemoveOperator
<1>7. CASE BridgeTick
  <2>1. sequence' \in 0 .. MaxSequence
    BY <1>0, <1>7 DEF BridgeTick
  <2> QED
    BY <1>0, <1>7, <2>1, ElseKeepsInv DEF BridgeTick
<1>8. CASE UNCHANGED bridgeVars
  BY <1>0, <1>8, ElseKeepsInv DEF bridgeVars
<1> QED
  BY <1>1, <1>2, <1>3, <1>4, <1>5, <1>6, <1>7, <1>8 DEF BridgeNext

-----------------------------------------------------------------------------
(* The inductive invariant holds in every reachable state.                 *)
THEOREM BridgeInvariance == ASSUME BridgeAssumption PROVE BridgeSpec => []BridgeIInv
<1>1. BridgeIInv /\ [BridgeNext]_bridgeVars => BridgeIInv'
  BY NextBridgeIInv
<1> QED
  BY InitBridgeIInv, <1>1, PTL DEF BridgeSpec

(* Request ids are dense, no sender's wallet is overdrawn, and histories   *)
(* stay within their cap.                                                  *)
THEOREM TypeCorrect == ASSUME BridgeAssumption PROVE BridgeSpec => []BridgeTypeOK
<1>1. BridgeIInv => BridgeTypeOK
  BY DEF BridgeIInv
<1> QED
  BY BridgeInvariance, <1>1, PTL

(* Whatever is locked or was executed carries the signatures of as many    *)
(* distinct accounts as its sender asked for, after any rejections,        *)
(* retries and changes of the operators.                                   *)
THEOREM LockedIsSigned == ASSUME BridgeAssumption PROVE BridgeSpec => []LockedWasSigned
<1>1. BridgeIInv => LockedWasSigned
  BY DEF BridgeIInv
<1> QED
  BY BridgeInvariance, <1>1, PTL

(* Every request was paid for and counted by a nonce, every entry of a     *)
(* history names an execution of that sender's request, and a history is   *)
(* the latest of its sender's executions, as many as the cap allows.       *)
THEOREM BooksAreTrue == ASSUME BridgeAssumption PROVE BridgeSpec => []BridgeBooksTrue
<1>1. BridgeIInv => BridgeBooksTrue
  BY DEF BridgeIInv, BridgeBooksTrue
<1> QED
  BY BridgeInvariance, <1>1, PTL

(* In one step, a request whose time is over is not locked.                *)
LEMMA NoLateLockStep ==
  ASSUME BridgeAssumption, BridgeIInv, [BridgeNext]_bridgeVars, NEW id \in RequestId,
         Expired(id), request[id].status # "Locked"
  PROVE  request'[id].status # "Locked"
<1>0. request \in [RequestId -> RequestType]
  BY RestOfType DEF BridgeIInv, RequestsOK
<1>1. ASSUME NEW s \in Senders, NEW t \in Timeouts, NEW required, NEW n,
             InitiateBridgeMultisig(s, required, t, n)
      PROVE  request'[id].status # "Locked"
  BY <1>0, <1>1 DEF InitiateBridgeMultisig
<1>2. ASSUME NEW op \in Accounts, NEW i \in RequestId, NEW approve \in BOOLEAN,
             SignBridgeRequest(op, i, approve)
      PROVE  request'[id] = request[id]
  <2>1. i # id
    BY <1>2 DEF SignBridgeRequest, MaySignRequest
  <2> QED
    BY <1>0, <1>2, <2>1 DEF SignBridgeRequest
<1>3. ASSUME NEW op \in Accounts, NEW i \in RequestId, ExecuteBridge(op, i)
      PROVE  request'[id].status # "Locked"
  BY <1>0, <1>3 DEF ExecuteBridge, RequestType
<1>4. ASSUME NEW i \in RequestId, NEW action \in RecoveryAction, RecoverFailedBridge(i, action)
      PROVE  request'[id].status # "Locked"
  BY <1>0, <1>4 DEF RecoverFailedBridge, RequestType
<1> QED
  BY <1>1, <1>2, <1>3, <1>4
     DEF BridgeNext, SetBridgePause, AddOperator, RemoveOperator, BridgeTick, bridgeRecords, bridgeVars

(* A request whose time is over does not become executable any more,       *)
(* however many operators sign, reject or retry it.                        *)
THEOREM LateRequestsStayUnlocked == ASSUME BridgeAssumption PROVE BridgeSpec => NoLateLock
<1>1. BridgeIInv /\ [BridgeNext]_bridgeVars
        => [\A id \in RequestId :
              Expired(id) /\ request[id].status # "Locked"
                => request'[id].status # "Locked"]_bridgeVars
  BY NoLateLockStep
<1> QED
  BY BridgeInvariance, <1>1, PTL DEF BridgeSpec, NoLateLock
=============================================================================
