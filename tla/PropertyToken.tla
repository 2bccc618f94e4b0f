---------------------------- MODULE PropertyToken ----------------------------
(***************************************************************************)
(* Ownership of property tokens and their way over the bridge, in the ink! *)
(* property token contract (contracts/property-token/src/lib.rs).          *)
(*                                                                         *)
(* One action is one message.  A message that returns Err is reverted, and *)
(* with it the error that log_error wrote and the status Expired that      *)
(* sign_bridge_request stored: neither ever stays.  The owner's operators  *)
(* act in the owner's name.  Balances of shares are PropertyShares'.  The  *)
(* messages of the bridge bear names of their own here, for another        *)
(* contract of the project has messages of the same names.  The admin's    *)
(* update_bridge_config is left out: the configuration is a constant, but  *)
(* for the pause.                                                          *)
(***************************************************************************)
EXTENDS Integers, FiniteSets, Functions

CONSTANTS Owners,       \* accounts that may own tokens
          Spenders,     \* accounts an owner may approve for a token
          Operators,    \* accounts that may be bridge operators
          FirstOperator,\* the deployer, who is the admin
          MinTokenSignatures, MaxTokenSignatures, \* of the bridge configuration
          TokenTimeouts,     \* timeout_blocks of a request, NoTokenTimeout if none
          NoTokenTimeout,
          MaxTokens, MaxTokenRequests, MaxBlock, \* bounds
          MaxCount      \* bound: owner_token_count of an account

Zero == "zero account"
Nobody == "nobody"

(* What is assumed of the constants.                                       *)
PropertyTokenAssumption ==
  /\ FirstOperator \in Operators
  /\ TokenTimeouts \subseteq Nat \union {NoTokenTimeout} /\ NoTokenTimeout \notin Nat
  /\ IsFiniteSet(Owners) /\ {Zero, Nobody} \cap Owners = {}
  /\ {MinTokenSignatures, MaxTokenSignatures, MaxTokens, MaxTokenRequests, MaxBlock, MaxCount} \subseteq Nat

VARIABLES block,        \* block number
          tokenCounter, \* token_counter
          totalSupply,  \* total_supply
          tokenOwner,   \* token_owner: an owner, Zero (locked) or Nobody
          tokenCount,   \* owner_token_count
          approved,     \* token_approvals
          compliant,    \* compliance_flags: the tokens verified
          tokenPaused,  \* bridge_config.emergency_pause
          bridgeOps,    \* bridge_operators
          requestCount, \* bridge_request_counter
          bridgeRequest,\* bridge_requests
          executed,     \* verified_bridge_hashes: the requests hashed
          bridged       \* bridged_tokens, keyed by chain and token, here by
                        \* token, as if there were one other chain: its status

ownership == <<tokenCounter, totalSupply, tokenOwner, tokenCount, approved>>
crossing == <<requestCount, bridgeRequest, executed, bridged>>
rules == <<block, compliant, tokenPaused, bridgeOps>>
tokenVars == <<ownership, crossing, rules>>

TokenId == 1 .. MaxTokens
TokenRequestId == 1 .. MaxTokenRequests
NoTokenRequest == [token |-> 0, sender |-> Nobody, required |-> 0, signatures |-> {},
              expires |-> NoTokenTimeout, status |-> "Absent"]

TokenInit ==
  /\ block = 0
  /\ tokenCounter = 0 /\ totalSupply = 0
  /\ tokenOwner = [t \in TokenId |-> Nobody]
  /\ tokenCount = [a \in Owners |-> 0]
  /\ approved = [t \in TokenId |-> Nobody]
  /\ compliant = {}
  /\ tokenPaused = FALSE
  /\ bridgeOps = {FirstOperator}
  /\ requestCount = 0
  /\ bridgeRequest = [r \in TokenRequestId |-> NoTokenRequest]
  /\ executed = {}
  /\ bridged = [t \in TokenId |-> "Absent"]

-----------------------------------------------------------------------------
(* A new token, registered by its owner or minted for a recipient.         *)
Mint(a) ==
  LET t == tokenCounter + 1
  IN /\ tokenCounter < MaxTokens /\ tokenCount[a] < MaxCount
     /\ tokenCounter' = t
     /\ totalSupply' = totalSupply + 1
     /\ tokenOwner' = [tokenOwner EXCEPT ![t] = a]
     /\ tokenCount' = [tokenCount EXCEPT ![a] = @ + 1]
     /\ UNCHANGED approved

RegisterPropertyWithToken(a) == Mint(a) /\ UNCHANGED <<crossing, rules>>

(* Mutant: a batch is counted as one token.                                *)
SupplyAfterOne(n) == totalSupply + 1

SupplyAfterBatch(n) == totalSupply + n

BatchRegisterProperties(a, n) ==
  LET minted == tokenCounter + 1 .. tokenCounter + n
  IN /\ tokenCounter + n <= MaxTokens /\ tokenCount[a] + n <= MaxCount
     /\ tokenCounter' = tokenCounter + n
     /\ totalSupply' = SupplyAfterBatch(n)
     /\ tokenOwner' = [t \in TokenId |-> IF t \in minted THEN a ELSE tokenOwner[t]]
     /\ tokenCount' = [tokenCount EXCEPT ![a] = @ + n]
     /\ UNCHANGED <<approved, crossing, rules>>

(* The owner, or the account approved for the token, transfers it: counts  *)
(* and history follow, token_owner is not written.                         *)
TransferFrom(caller, to, t) ==
  LET from == tokenOwner[t]
  IN /\ from \in Owners
     /\ caller \in {from, approved[t]}
     /\ tokenCount[from] > 0 /\ (to # from => tokenCount[to] < MaxCount)
     /\ tokenCount' = [tokenCount EXCEPT ![from] = @ - 1, ![to] = @ + 1]
     /\ approved' = [approved EXCEPT ![t] = Nobody]
     /\ UNCHANGED <<tokenCounter, totalSupply, tokenOwner, crossing, rules>>

Approve(t, spender) ==
  /\ tokenOwner[t] \in Owners
  /\ approved' = [approved EXCEPT ![t] = spender]
  /\ UNCHANGED <<tokenCounter, totalSupply, tokenOwner, tokenCount, crossing, rules>>

VerifyCompliance(t, status) ==
  /\ t <= tokenCounter
  /\ compliant' = IF status THEN compliant \union {t} ELSE compliant \ {t}
  /\ UNCHANGED <<ownership, crossing, block, tokenPaused, bridgeOps>>

-----------------------------------------------------------------------------
(* The bridge.                                                             *)
HasPendingBridgeRequest(t) ==
  \E r \in TokenRequestId : /\ bridgeRequest[r].token = t
                       /\ bridgeRequest[r].status \in {"Pending", "Locked"}

InitiateTokenBridge(t, required, timeout) ==
  /\ tokenOwner[t] \in Owners
  /\ ~tokenPaused
  /\ t \in compliant
  /\ MinTokenSignatures <= required /\ required <= MaxTokenSignatures
  /\ ~HasPendingBridgeRequest(t)
  /\ requestCount < MaxTokenRequests
  /\ requestCount' = requestCount + 1
  /\ bridgeRequest' = [bridgeRequest EXCEPT ![requestCount + 1] =
       [token |-> t, sender |-> tokenOwner[t], required |-> required, signatures |-> {},
        expires |-> IF timeout = NoTokenTimeout THEN NoTokenTimeout ELSE block + timeout,
        status |-> "Pending"]]
  /\ UNCHANGED <<ownership, executed, bridged, rules>>

StillInTime(r) == bridgeRequest[r].expires # NoTokenTimeout => block <= bridgeRequest[r].expires

(* Signing looks at no status and at no pause.  A quorum locks the token   *)
(* by giving it to the zero account; its owner's count is left alone.      *)
SignTokenRequest(o, r, approve) ==
  LET q == bridgeRequest[r]
      signatures == q.signatures \union {o}
      lock == approve /\ Cardinality(signatures) >= q.required
  IN /\ o \in bridgeOps
     /\ q.status # "Absent"
     /\ StillInTime(r)
     /\ o \notin q.signatures
     /\ lock => tokenOwner[q.token] # Nobody
     /\ bridgeRequest' = [bridgeRequest EXCEPT
          ![r].signatures = signatures,
          ![r].status = IF ~approve THEN "Failed" ELSE IF lock THEN "Locked" ELSE @]
     /\ tokenOwner' = IF lock THEN [tokenOwner EXCEPT ![q.token] = Zero] ELSE tokenOwner
     /\ UNCHANGED <<tokenCounter, totalSupply, tokenCount, approved, requestCount,
                    executed, bridged, rules>>

ExecuteTokenBridge(r) ==
  /\ bridgeOps # {}
  /\ bridgeRequest[r].status = "Locked"
  /\ Cardinality(bridgeRequest[r].signatures) >= bridgeRequest[r].required
  /\ bridgeRequest' = [bridgeRequest EXCEPT ![r].status = "Completed"]
  /\ executed' = executed \union {r}
  /\ bridged' = [bridged EXCEPT ![bridgeRequest[r].token] = "InTransit"]
  /\ UNCHANGED <<ownership, requestCount, rules>>

(* The hash of any request executed will do, again and again; `original'   *)
(* is the token whose entry the operator names, 0 for one without entry.   *)
ReceiveBridgedToken(a, original) ==
  /\ bridgeOps # {}
  /\ executed # {}
  /\ Mint(a)
  /\ compliant' = compliant \union {tokenCounter + 1}
  /\ bridged' = [t \in TokenId |->
       IF t = original /\ bridged[t] # "Absent" THEN "Completed" ELSE bridged[t]]
  /\ UNCHANGED <<requestCount, bridgeRequest, executed, block, tokenPaused, bridgeOps>>

BurnBridgedToken(t) ==
  LET owner == tokenOwner[t]
  IN /\ owner \in Owners
     /\ bridged[t] = "Completed"
     /\ tokenCount[owner] > 0
     /\ tokenCount' = [tokenCount EXCEPT ![owner] = @ - 1]
     /\ tokenOwner' = [tokenOwner EXCEPT ![t] = Nobody]
     /\ totalSupply' = totalSupply - 1
     /\ bridged' = [bridged EXCEPT ![t] = "Locked"]
     /\ UNCHANGED <<tokenCounter, approved, requestCount, bridgeRequest, executed, rules>>

Recoverable(r) == bridgeRequest[r].status \in {"Failed", "Expired"}

(* UnlockToken, and CancelBridge, give a locked token to the sender of the *)
(* request, whoever owned it when it was locked.                           *)
RecoverLockedToken(r) ==
  LET q == bridgeRequest[r]
  IN /\ Recoverable(r)
     /\ tokenOwner[q.token] = Zero
     /\ tokenCount[q.sender] < MaxCount
     /\ tokenOwner' = [tokenOwner EXCEPT ![q.token] = q.sender]
     /\ tokenCount' = [tokenCount EXCEPT ![q.sender] = @ + 1]
     /\ bridgeRequest' = [bridgeRequest EXCEPT ![r].status = "Failed"]
     /\ UNCHANGED <<tokenCounter, totalSupply, approved, requestCount, executed, bridged, rules>>

(* RetryBridge: the token stays locked if it was.                          *)
RetryBridge(r) ==
  /\ Recoverable(r)
  /\ bridgeRequest' = [bridgeRequest EXCEPT ![r].status = "Pending", ![r].signatures = {}]
  /\ UNCHANGED <<ownership, requestCount, executed, bridged, rules>>

-----------------------------------------------------------------------------
(* Administration.  pause_for_migration and resume_after_migration set the *)
(* same emergency pause.                                                   *)
SetEmergencyPause(b) ==
  /\ tokenPaused' = b
  /\ UNCHANGED <<ownership, crossing, block, compliant, bridgeOps>>

AddBridgeOperator(o) ==
  /\ bridgeOps' = bridgeOps \union {o}
  /\ UNCHANGED <<ownership, crossing, block, compliant, tokenPaused>>

RemoveBridgeOperator(o) ==
  /\ bridgeOps' = bridgeOps \ {o}
  /\ UNCHANGED <<ownership, crossing, block, compliant, tokenPaused>>

NextBlock ==
  /\ block < MaxBlock
  /\ block' = block + 1
  /\ UNCHANGED <<ownership, crossing, compliant, tokenPaused, bridgeOps>>

TokenNext ==
  \/ \E a \in Owners :
       \/ RegisterPropertyWithToken(a)
       \/ \E n \in 1 .. MaxTokens : BatchRegisterProperties(a, n)
       \/ \E t \in TokenId, c \in Owners \union Spenders : TransferFrom(c, a, t)
       \/ \E original \in 0 .. MaxTokens : ReceiveBridgedToken(a, original)
  \/ \E t \in TokenId :
       \/ \E b \in BOOLEAN : VerifyCompliance(t, b)
       \/ \E s \in Spenders : Approve(t, s)
       \/ \E n \in MinTokenSignatures .. MaxTokenSignatures, timeout \in TokenTimeouts :
            InitiateTokenBridge(t, n, timeout)
       \/ BurnBridgedToken(t)
  \/ \E r \in TokenRequestId :
       \/ \E o \in Operators, b \in BOOLEAN : SignTokenRequest(o, r, b)
       \/ ExecuteTokenBridge(r) \/ RecoverLockedToken(r) \/ RetryBridge(r)
  \/ \E b \in BOOLEAN : SetEmergencyPause(b)
  \/ \E o \in Operators : AddBridgeOperator(o) \/ RemoveBridgeOperator(o)
  \/ NextBlock

TokenSpec == TokenInit /\ [][TokenNext]_tokenVars

-----------------------------------------------------------------------------
TokenRequestType ==
  [token : 0 .. MaxTokens, sender : Owners \union {Nobody}, required : Nat,
   signatures : SUBSET Operators, expires : Nat \union {NoTokenTimeout},
   status : {"Absent", "Pending", "Locked", "Completed", "Failed"}]

TokenTypeOK ==
  /\ block \in 0 .. MaxBlock
  /\ tokenCounter \in 0 .. MaxTokens
  /\ totalSupply \in Nat
  /\ tokenOwner \in [TokenId -> Owners \union {Zero, Nobody}]
  /\ tokenCount \in [Owners -> 0 .. MaxCount]
  /\ approved \in [TokenId -> Spenders \union {Nobody}]
  /\ compliant \subseteq TokenId
  /\ tokenPaused \in BOOLEAN
  /\ bridgeOps \subseteq Operators
  /\ requestCount \in 0 .. MaxTokenRequests
  /\ bridgeRequest \in [TokenRequestId -> TokenRequestType]
  /\ executed \subseteq TokenRequestId
  /\ bridged \in [TokenId -> {"Absent", "InTransit", "Completed", "Locked"}]

OwnedBy(a) == {t \in TokenId : tokenOwner[t] = a}

(* Every token that exists, the locked ones among them, is in the supply,  *)
(* and the accounts together are counted for all the tokens they own,      *)
(* whatever is transferred, locked, rejected, retried, recovered, burned.  *)
TokensAccounted ==
  /\ totalSupply = Cardinality({t \in TokenId : tokenOwner[t] # Nobody})
  /\ Cardinality({t \in TokenId : tokenOwner[t] \in Owners})
       <= SumFunctionOnSet(tokenCount, Owners)

(* After a transfer "Verify new ownership": owner_of and balance_of agree, *)
(* no account owns more tokens than it is counted for.                     *)
OwnersAreCounted == \A a \in Owners : Cardinality(OwnedBy(a)) <= tokenCount[a]

=============================================================================
