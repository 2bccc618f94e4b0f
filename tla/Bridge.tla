------------------------------- MODULE Bridge -------------------------------
(***************************************************************************)
(* The Soroban property bridge (contracts/bridge/src/lib.rs).              *)
(*                                                                         *)
(* A sender opens a request and pays the service fee; operators sign it or *)
(* reject it; an operator executes a locked request; the admin recovers a  *)
(* failed one and manages pause and operators.  The fee token is external. *)
(* The token that is bridged is never touched by this contract.            *)
(***************************************************************************)
EXTENDS RecordLog, FiniteSets

CONSTANTS Senders,           \* accounts that open requests
          Accounts,          \* accounts that are or become operators
          Admin,             \* the admin, the first operator
          MAX_OPERATORS,     \* 10 in the code
          MinSignatures, MaxSignatures,
          Timeouts,          \* timeout_blocks a sender may pass; NoTimeout: None
          NoTimeout,
          ServiceFee,        \* service_fee in the configuration
          Funds,             \* fee tokens a sender holds at first
          MAX_HISTORY_ITEMS, \* 50 in the code
          MaxRequests,       \* bound: requests opened
          MaxExecutions,     \* bound: executions
          MaxSequence        \* bound: the last ledger sequence number

(* What is assumed of the constants.                                       *)
BridgeAssumption ==
  /\ Admin \in Accounts
  /\ "nobody" \notin Senders \* NoSender
  /\ NoTimeout \notin Nat
  /\ Timeouts \subseteq (Nat \ {0}) \union {NoTimeout}
  /\ 0 < MinSignatures /\ MinSignatures <= MaxSignatures
  /\ ServiceFee \in Int
  /\ {MAX_OPERATORS, MinSignatures, MaxSignatures, Funds, MAX_HISTORY_ITEMS,
      MaxRequests, MaxExecutions, MaxSequence} \subseteq Nat
  /\ MAX_HISTORY_ITEMS > 0

VARIABLES sequence,    \* ledger sequence number
          bridgePaused,      \* Config.emergency_pause
          operators,   \* Operators, whose order nothing reads
          reqCounter,  \* ReqCounter
          request,     \* Request(id)
          bridgeNonce,       \* Nonce(sender)
          txCounter,   \* TxCounter
          verified,    \* the requests whose hash has a VerifiedTx entry
          history,     \* History(sender)
          wallet,      \* external: fee tokens of the senders
          approvals,   \* history variable: who approved in the current round
          executions   \* history variable: every transaction recorded for a sender

bridgeRecords == <<reqCounter, request, bridgeNonce, txCounter, verified, history, wallet, executions>>
bridgeVars == <<sequence, bridgePaused, operators, bridgeRecords, approvals>>

RequestId == 1 .. MaxRequests
NoSender == "nobody"
NoRequest == [sender |-> NoSender, required |-> 0, signatures |-> {},
              expires |-> NoTimeout, status |-> "Absent"]

BridgeInit ==
  /\ sequence = 0
  /\ bridgePaused = FALSE
  /\ operators = {Admin}
  /\ reqCounter = 0
  /\ request = [id \in RequestId |-> NoRequest]
  /\ bridgeNonce = [s \in Senders |-> 0]
  /\ txCounter = 0
  /\ verified = {}
  /\ history = [s \in Senders |-> <<>>]
  /\ wallet = [s \in Senders |-> Funds]
  /\ approvals = [id \in RequestId |-> {}]
  /\ executions = [s \in Senders |-> <<>>]

-----------------------------------------------------------------------------
(* The transfer traps when the sender cannot pay.                          *)
PayFee(s) ==
  IF ServiceFee > 0
  THEN wallet[s] >= ServiceFee /\ wallet' = [wallet EXCEPT ![s] = @ - ServiceFee]
  ELSE UNCHANGED wallet

(* Mutant: the nonce a caller passes is stored unchecked.                  *)
NonceUnchecked(s, n) == n > 0

NonceAccepted(s, n) == n = bridgeNonce[s] + 1

InitiateBridgeMultisig(s, required, timeout, n) ==
  /\ NonceAccepted(s, n)
  /\ PayFee(s)
  /\ ~bridgePaused
  /\ MinSignatures <= required /\ required <= MaxSignatures
  /\ reqCounter < MaxRequests
  /\ reqCounter' = reqCounter + 1
  /\ bridgeNonce' = [bridgeNonce EXCEPT ![s] = n]
  /\ request' = [request EXCEPT ![reqCounter + 1] =
       [sender |-> s, required |-> required, signatures |-> {}, status |-> "Pending",
        expires |-> IF timeout = NoTimeout THEN NoTimeout ELSE sequence + timeout]]
  /\ UNCHANGED <<sequence, bridgePaused, operators, txCounter, verified, history, approvals,
                 executions>>

Expired(id) == request[id].expires # NoTimeout /\ sequence > request[id].expires

(* Mutant: signing does not look at the expiry.                            *)
MaySignExpired(op, id) ==
  request[id].status # "Absent" /\ op \notin request[id].signatures

MaySignRequest(op, id) ==
  /\ request[id].status # "Absent"
  /\ ~Expired(id)
  /\ op \notin request[id].signatures

(* Mutant: one signature short of the threshold is enough.                 *)
StatusOneShort(r, signatures, approve) ==
  IF ~approve THEN "Failed"
  ELSE IF Cardinality(signatures) + 1 >= r.required THEN "Locked" ELSE r.status

(* A rejection is stored as a signature too, and the status of the request *)
(* is not looked at before it is overwritten.                              *)
StatusAfterSigning(r, signatures, approve) ==
  IF ~approve THEN "Failed"
  ELSE IF Cardinality(signatures) >= r.required THEN "Locked" ELSE r.status

SignBridgeRequest(op, id, approve) ==
  /\ op \in operators
  /\ ~bridgePaused
  /\ MaySignRequest(op, id)
  /\ LET signatures == request[id].signatures \union {op}
     IN request' = [request EXCEPT
          ![id].signatures = signatures,
          ![id].status = StatusAfterSigning(request[id], signatures, approve)]
  /\ approvals' = IF approve THEN [approvals EXCEPT ![id] = @ \union {op}] ELSE approvals
  /\ UNCHANGED <<sequence, bridgePaused, operators, reqCounter, bridgeNonce, txCounter, verified,
                 history, wallet, executions>>

(* Mutant: a full history loses its newest transaction.                    *)
RememberOldest(h, tx) ==
  Append(IF Len(h) >= MAX_HISTORY_ITEMS THEN SubSeq(h, 1, Len(h) - 1) ELSE h, tx)

Remember(h, tx) == Append(IF Len(h) >= MAX_HISTORY_ITEMS THEN Tail(h) ELSE h, tx)

(* execute_bridge looks neither at the expiry nor at earlier executions.   *)
ExecuteBridge(op, id) ==
  /\ op \in operators
  /\ ~bridgePaused
  /\ request[id].status = "Locked"
  /\ txCounter < MaxExecutions
  /\ txCounter' = txCounter + 1
  /\ request' = [request EXCEPT ![id].status = "Completed"]
  /\ verified' = verified \union {id}
  /\ LET s == request[id].sender
         record == [tx |-> txCounter + 1, request |-> id]
     IN /\ history' = [history EXCEPT ![s] = Remember(@, record)]
        /\ executions' = [executions EXCEPT ![s] = Append(@, record)]
  /\ UNCHANGED <<sequence, bridgePaused, operators, reqCounter, bridgeNonce, wallet, approvals>>

RecoverFailedBridge(id, action) ==
  /\ ~bridgePaused
  /\ request[id].status \in {"Failed", "Expired"}
  /\ IF action = "RetryBridge"
     THEN /\ request' = [request EXCEPT ![id].status = "Pending",
                           ![id].signatures = {}]
          /\ approvals' = [approvals EXCEPT ![id] = {}]
     ELSE request' = [request EXCEPT ![id].status = "Failed"] /\ UNCHANGED approvals
  /\ UNCHANGED <<sequence, bridgePaused, operators, reqCounter, bridgeNonce, txCounter, verified,
                 history, wallet, executions>>

RecoveryAction == {"UnlockToken", "RefundGas", "RetryBridge", "CancelBridge"}

SetBridgePause(p) == bridgePaused' = p /\ UNCHANGED <<sequence, operators, bridgeRecords, approvals>>

AddOperator(op) ==
  /\ Cardinality(operators) < MAX_OPERATORS
  /\ operators' = operators \union {op}
  /\ UNCHANGED <<sequence, bridgePaused, bridgeRecords, approvals>>

RemoveOperator(op) ==
  /\ operators' = operators \ {op}
  /\ UNCHANGED <<sequence, bridgePaused, bridgeRecords, approvals>>

BridgeTick ==
  /\ sequence < MaxSequence
  /\ sequence' = sequence + 1
  /\ UNCHANGED <<bridgePaused, operators, bridgeRecords, approvals>>

BridgeNext ==
  \/ \E s \in Senders, t \in Timeouts, required \in 1 .. MaxSignatures,
        n \in 1 .. MaxRequests : InitiateBridgeMultisig(s, required, t, n)
  \/ \E op \in Accounts, id \in RequestId :
       \/ \E approve \in BOOLEAN : SignBridgeRequest(op, id, approve)
       \/ ExecuteBridge(op, id)
  \/ \E id \in RequestId, action \in RecoveryAction : RecoverFailedBridge(id, action)
  \/ \E p \in BOOLEAN : SetBridgePause(p)
  \/ \E op \in Accounts : AddOperator(op) \/ RemoveOperator(op)
  \/ BridgeTick

BridgeSpec == BridgeInit /\ [][BridgeNext]_bridgeVars

-----------------------------------------------------------------------------
RequestExists(id) == request[id].status # "Absent"

BridgeTypeOK ==
  /\ sequence \in 0 .. MaxSequence
  /\ bridgePaused \in BOOLEAN
  /\ operators \subseteq Accounts
  /\ reqCounter \in 0 .. MaxRequests
  /\ request \in [RequestId ->
       [sender : Senders \union {NoSender}, required : 0 .. MaxSignatures,
        signatures : SUBSET Accounts, expires : Nat \union {NoTimeout},
        status : {"Absent", "Pending", "Locked", "Completed", "Failed"}]]
  /\ bridgeNonce \in [Senders -> Nat]
  /\ txCounter \in 0 .. MaxExecutions
  /\ verified \subseteq RequestId
  /\ {history, executions} \subseteq
       [Senders -> Seq([tx : 1 .. MaxExecutions, request : RequestId])]
  /\ \A s \in Senders : Len(history[s]) <= MAX_HISTORY_ITEMS
  /\ wallet \in [Senders -> Nat]
  /\ approvals \in [RequestId -> SUBSET Accounts]
  /\ \A id \in RequestId : RequestExists(id) <=> id <= reqCounter

(* Whatever was locked or executed had been signed by as many distinct     *)
(* accounts as its sender asked for, at least the configured minimum, also *)
(* after rejections, retries and changes of the operators.                 *)
LockedWasSigned ==
  \A id \in RequestId :
    request[id].status \in {"Locked", "Completed"} =>
      /\ MinSignatures <= request[id].required
      /\ request[id].required <= Cardinality(request[id].signatures)

(* The books of the bridge.  A sender's nonce counts that sender's         *)
(* requests, and every request was paid for: a creation that panics after  *)
(* the fee leaves no trace.  A transaction record names an execution that  *)
(* took place - its request was verified and is the sender's - records     *)
(* stand in order, and the last execution is on record.  A history is      *)
(* exactly the latest of its sender's executions, repeated ones included:  *)
(* the cap drops the oldest entries and no others, and no sender's         *)
(* execution is recorded with another one's.                               *)
RequestsOf(s) == Cardinality({id \in RequestId : request[id].sender = s})

EveryRequestPaid ==
  \A s \in Senders :
    /\ bridgeNonce[s] = RequestsOf(s)
    /\ ServiceFee > 0 => wallet[s] = Funds - ServiceFee * RequestsOf(s)

HistoryIsTrue ==
  /\ \A s \in Senders :
       LET h == history[s]
       IN \A i \in 1 .. Len(h) :
            /\ h[i].request \in verified
            /\ request[h[i].request].sender = s
            /\ \A j \in 1 .. i - 1 : h[j].tx < h[i].tx
  /\ \A s \in Senders : history[s] = Latest(executions[s], MAX_HISTORY_ITEMS)
  /\ txCounter > 0 =>
       \E s \in Senders : history[s] # <<>> /\ history[s][Len(history[s])].tx = txCounter

BridgeBooksTrue == EveryRequestPaid /\ HistoryIsTrue

(* A request whose time is over does not become executable any more.       *)
NoLateLock ==
  [][\A id \in RequestId :
       Expired(id) /\ request[id].status # "Locked" => request'[id].status # "Locked"]_bridgeVars

(* "sign_bridge_request: Allows bridge operators to approve or reject      *)
(* requests", "execute_bridge: Completes the transfer upon reaching        *)
(* required signatures".  A completed request was approved by as many      *)
(* operators as it required.                                               *)
CompletedWasApproved ==
  \A id \in RequestId :
    request[id].status = "Completed" => Cardinality(approvals[id]) >= request[id].required

=============================================================================
