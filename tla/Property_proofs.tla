--------------------------- MODULE Property_proofs ---------------------------
(***************************************************************************)
(* What is proved of property in the ink! contracts, for any accounts,     *)
(* amounts, prices and bounds.                                             *)
(*                                                                         *)
(* Shares of a property token keep their type - no balance and no escrow   *)
(* is overdrawn by any order of issue, trade, redemption, lock, recovery   *)
(* and burn -, whatever is offered for sale is in escrow, trading creates  *)
(* and destroys no share, and no deposit is credited twice.                *)
(*                                                                         *)
(* Property tokens are in the supply as long as they exist, and their      *)
(* owners are together counted for all of them, although a transfer writes *)
(* a count and no owner, and a lock an owner and no count.                 *)
(***************************************************************************)
EXTENDS MCCustody, Custody_proofs, SumLemmas

(* What one account is owed of a deposit is a natural number.              *)
LEMMA AccruedType ==
  ASSUME PropertySharesAssumption, dps \in Nat, credit \in [Holders -> Nat],
         NEW h \in Holders, NEW held \in Nat
  PROVE  Accrued(h, held) \in Nat /\ CreditMoved(h) \in Nat
<1>1. credit[h] \in Nat
  OBVIOUS
<1>2. CASE dps > credit[h]
  <2>1. dps - credit[h] \in Nat
    BY <1>1, <1>2
  <2>2. held * (dps - credit[h]) \in Nat
    BY <2>1, SMT
  <2>3. (held * (dps - credit[h])) \div SCALING \in Nat
    BY <2>2 DEF PropertySharesAssumption
  <2> QED
    BY <1>2, <2>3 DEF Accrued, CreditMoved
<1>3. CASE ~(dps > credit[h])
  BY <1>1, <1>3 DEF Accrued, CreditMoved
<1> QED
  BY <1>2, <1>3

(* A sync keeps the type of what it writes.                                *)
LEMMA SyncedType ==
  ASSUME PropertySharesAssumption, SharesTypeOK,
         NEW h \in Holders, NEW held \in Nat, Synced(h, held)
  PROVE  /\ dps' \in Nat /\ credit' \in [Holders -> Nat] /\ owed' \in [Holders -> Nat]
         /\ received' \in [Holders -> Nat] /\ fund' \in Nat
<1>1. Accrued(h, held) \in Nat /\ CreditMoved(h) \in Nat
  BY AccruedType DEF SharesTypeOK
<1> QED
  BY <1>1 DEF Synced, SharesTypeOK

(* The inductive invariant.                                                *)
SharesInv == SharesTypeOK /\ AskCovered

(* The owner starts with the one unit of the token, and nothing on offer. *)
LEMMA InitInv == PropertySharesAssumption /\ SharesInit => SharesInv
BY DEF SharesInv, SharesInit, SharesTypeOK, AskCovered, NoAsk, NoProposal, PropertySharesAssumption

(* Issue and redemption: only balances and dividends change.               *)
LEMMA SupplyKeepsInv ==
  ASSUME PropertySharesAssumption, SharesInv,
         NEW h \in Holders, NEW n \in ShareAmounts,
         IssueShares(h, n) \/ RedeemShares(h, n)
  PROVE  SharesInv'
<1>0. n \in Nat /\ balance[h] \in Nat /\ totalShares \in Nat
  BY DEF PropertySharesAssumption, SharesInv, SharesTypeOK
<1>1. CASE IssueShares(h, n)
  <2>1. balance' \in [Holders -> Nat] /\ totalShares' \in Nat
    BY <1>0, <1>1 DEF IssueShares, SharesInv, SharesTypeOK
  <2>2. balance[h] + n \in Nat /\ Synced(h, balance[h] + n)
    BY <1>0, <1>1 DEF IssueShares
  <2>3. /\ dps' \in Nat /\ credit' \in [Holders -> Nat] /\ owed' \in [Holders -> Nat]
        /\ received' \in [Holders -> Nat] /\ fund' \in Nat
    BY <2>2, SyncedType DEF SharesInv
  <2> QED
    BY <1>1, <2>1, <2>3 DEF IssueShares, SharesInv, SharesTypeOK, AskCovered, tokenState, votes
<1>2. CASE RedeemShares(h, n)
  <2>1. balance[h] - n \in Nat /\ LowerBy(totalShares, n) \in Nat
    BY <1>0, <1>2 DEF RedeemShares, LowerBy
  <2>2. balance' \in [Holders -> Nat] /\ totalShares' \in Nat
    BY <1>0, <1>2, <2>1 DEF RedeemShares, SharesInv, SharesTypeOK
  <2>3. Synced(h, balance[h] - n)
    BY <1>2 DEF RedeemShares
  <2>4. /\ dps' \in Nat /\ credit' \in [Holders -> Nat] /\ owed' \in [Holders -> Nat]
        /\ received' \in [Holders -> Nat] /\ fund' \in Nat
    BY <2>1, <2>3, SyncedType DEF SharesInv
  <2> QED
    BY <1>2, <2>2, <2>4 DEF RedeemShares, SharesInv, SharesTypeOK, AskCovered, tokenState, votes
<1> QED
  BY <1>1, <1>2

(* Moving shares between accounts, an account's own move included.         *)
LEMMA MovedType ==
  ASSUME NEW from \in Holders, NEW to \in Holders, NEW n \in Nat,
         balance \in [Holders -> Nat], balance[from] >= n
  PROVE  Moved(from, to, n) \in [Holders -> Nat]
BY DEF Moved

(* Transfers, with and without a sync of the dividends.                   *)
LEMMA TransfersKeepInv ==
  ASSUME PropertySharesAssumption, SharesInv,
         NEW from \in Holders, NEW to \in Holders, NEW n \in ShareAmounts,
         TransferShares(from, to, n) \/ SafeBatchTransferFrom(from, to, n)
  PROVE  SharesInv'
<1>0. n \in Nat
  BY DEF PropertySharesAssumption
<1>1. CASE TransferShares(from, to, n)
  <2>1. \A h \in Holders : /\ owed[h] + Accrued(h, balance[h]) \in Nat
                           /\ CreditMoved(h) \in Nat
    <3> TAKE h \in Holders
    <3>1. balance[h] \in Nat /\ owed[h] \in Nat
      BY DEF SharesInv, SharesTypeOK
    <3>2. Accrued(h, balance[h]) \in Nat /\ CreditMoved(h) \in Nat
      BY <3>1, AccruedType DEF SharesInv, SharesTypeOK
    <3> QED
      BY <3>1, <3>2
  <2>2. owed' \in [Holders -> Nat] /\ credit' \in [Holders -> Nat]
    BY <1>1, <2>1 DEF TransferShares, SharesInv, SharesTypeOK
  <2>3. balance' \in [Holders -> Nat]
    BY <1>0, <1>1, MovedType DEF TransferShares, SharesInv, SharesTypeOK
  <2> QED
    BY <1>1, <2>2, <2>3 DEF TransferShares, SharesInv, SharesTypeOK, AskCovered, tokenState, votes
<1>2. CASE SafeBatchTransferFrom(from, to, n)
  <2>1. balance' \in [Holders -> Nat]
    BY <1>0, <1>2, MovedType DEF SafeBatchTransferFrom, SharesInv, SharesTypeOK
  <2> QED
    BY <1>2, <2>1
       DEF SafeBatchTransferFrom, SharesInv, SharesTypeOK, AskCovered, tokenState, dividends, votes
<1> QED
  BY <1>1, <1>2

(* Deposit and withdrawal of dividends.                                    *)
LEMMA DepositKeepsInv ==
  ASSUME PropertySharesAssumption, SharesInv, NEW value \in Dividends, DepositDividends(value)
  PROVE  SharesInv'
<1>1. value \in Nat /\ totalShares \in Nat \ {0}
  <2>1. value \in Nat
    BY DEF PropertySharesAssumption
  <2>2. totalShares \in Nat
    BY DEF SharesInv, SharesTypeOK
  <2>3. totalShares > 0
    BY DEF DepositDividends
  <2> QED
    BY <2>1, <2>2, <2>3
<1>2. value * SCALING \in Nat
  BY <1>1 DEF PropertySharesAssumption
<1>3. (value * SCALING) \div totalShares \in Nat
  BY <1>1, <1>2
<1>4. dps \in Nat /\ fund \in Nat
  BY DEF SharesInv, SharesTypeOK
<1>5. /\ dps' = dps + (value * SCALING) \div totalShares /\ fund' = fund + value
      /\ UNCHANGED <<tokenState, shares, credit, owed, received, votes>>
  BY DEF DepositDividends
<1>6. dps' \in Nat /\ fund' \in Nat
  BY <1>1, <1>3, <1>4, <1>5
<1> QED
  BY <1>5, <1>6 DEF SharesInv, SharesTypeOK, AskCovered, tokenState, shares, votes

(* A withdrawal pays what is owed and starts a new account of it.         *)
LEMMA WithdrawalKeepsInv ==
  ASSUME PropertySharesAssumption, SharesInv, NEW h \in Holders, WithdrawDividends(h)
  PROVE  SharesInv'
<1> DEFINE due == owed[h] + Accrued(h, balance[h])
<1>1. balance[h] \in Nat /\ owed[h] \in Nat /\ received[h] \in Nat /\ fund \in Nat
  BY DEF SharesInv, SharesTypeOK
<1>2. Accrued(h, balance[h]) \in Nat /\ CreditMoved(h) \in Nat
  BY <1>1, AccruedType DEF SharesInv, SharesTypeOK
<1>3. due \in Nat /\ due <= fund
  BY <1>1, <1>2 DEF WithdrawDividends
<1>4. /\ owed' = [owed EXCEPT ![h] = 0] /\ credit' = [credit EXCEPT ![h] = CreditMoved(h)]
      /\ received' = [received EXCEPT ![h] = @ + due] /\ fund' = fund - due
      /\ UNCHANGED <<tokenState, shares, dps, votes>>
  BY DEF WithdrawDividends
<1> HIDE DEF due
<1>5. /\ owed' \in [Holders -> Nat] /\ credit' \in [Holders -> Nat]
      /\ received' \in [Holders -> Nat] /\ fund' \in Nat
  BY <1>1, <1>2, <1>3, <1>4 DEF SharesInv, SharesTypeOK
<1> QED
  BY <1>4, <1>5 DEF SharesInv, SharesTypeOK, AskCovered, tokenState, shares, votes

(* The market: an offer is made with its escrow and falls with it.         *)
LEMMA MarketKeepsInv ==
  ASSUME PropertySharesAssumption, SharesInv, NEW h \in Holders,
         \/ \E price \in Prices, n \in ShareAmounts : PlaceAsk(h, price, n)
         \/ CancelAsk(h)
         \/ \E seller \in Holders, n \in ShareAmounts : BuyShares(h, seller, n)
  PROVE  SharesInv'
<1>1. CASE \E price \in Prices, n \in ShareAmounts : PlaceAsk(h, price, n)
  <2>1. PICK price \in Prices, n \in ShareAmounts : PlaceAsk(h, price, n)
    BY <1>1
  <2>2. price \in Nat /\ n \in Nat /\ balance[h] \in Nat /\ escrowed[h] \in Nat
    BY DEF PropertySharesAssumption, SharesInv, SharesTypeOK
  <2>3. /\ balance' \in [Holders -> Nat] /\ escrowed' \in [Holders -> Nat]
        /\ ask' \in [Holders -> [price : Nat, amount : Nat]]
    BY <2>1, <2>2 DEF PlaceAsk, SharesInv, SharesTypeOK
  <2>4. AskCovered'
    BY <2>1, <2>2 DEF PlaceAsk, SharesInv, SharesTypeOK, AskCovered
  <2> QED
    BY <2>1, <2>3, <2>4 DEF PlaceAsk, SharesInv, SharesTypeOK, tokenState, dividends, votes
<1>2. CASE CancelAsk(h)
  <2>1. balance[h] \in Nat /\ escrowed[h] \in Nat
    BY DEF SharesInv, SharesTypeOK
  <2>2. /\ balance' \in [Holders -> Nat] /\ escrowed' \in [Holders -> Nat]
        /\ ask' \in [Holders -> [price : Nat, amount : Nat]]
    BY <1>2, <2>1 DEF CancelAsk, AskRemoved, NoAsk, SharesInv, SharesTypeOK
  <2>3. AskCovered'
    BY <1>2, <2>1 DEF CancelAsk, AskRemoved, NoAsk, SharesInv, SharesTypeOK, AskCovered
  <2> QED
    BY <1>2, <2>2, <2>3 DEF CancelAsk, SharesInv, SharesTypeOK, tokenState, dividends, votes
<1>3. CASE \E seller \in Holders, n \in ShareAmounts : BuyShares(h, seller, n)
  <2>1. PICK seller \in Holders, n \in ShareAmounts : BuyShares(h, seller, n)
    BY <1>3
  <2>2. n \in Nat /\ balance[h] \in Nat /\ escrowed[seller] \in Nat /\ ask[seller].amount \in Nat
    BY DEF PropertySharesAssumption, SharesInv, SharesTypeOK
  <2>3. balance' \in [Holders -> Nat] /\ escrowed' \in [Holders -> Nat]
    BY <2>1, <2>2 DEF BuyShares, EscrowSold, SharesInv, SharesTypeOK
  <2>4. ask' \in [Holders -> [price : Nat, amount : Nat]]
    BY <2>1, <2>2 DEF BuyShares, AskRemoved, NoAsk, SharesInv, SharesTypeOK
  <2>5. ask'[seller].amount = ask[seller].amount - n /\ escrowed'[seller] = escrowed[seller] - n
    BY <2>1, <2>2 DEF BuyShares, AskRemoved, NoAsk, EscrowSold, SharesInv, SharesTypeOK
  <2>6. \A g \in Holders \ {seller} : ask'[g] = ask[g] /\ escrowed'[g] = escrowed[g]
    BY <2>1 DEF BuyShares, AskRemoved, EscrowSold, SharesInv, SharesTypeOK
  <2>7. AskCovered'
    BY <2>2, <2>5, <2>6 DEF SharesInv, AskCovered
  <2> QED
    BY <2>1, <2>3, <2>4, <2>7 DEF BuyShares, SharesInv, SharesTypeOK, tokenState, dividends, votes
<1> QED
  BY <1>1, <1>2, <1>3

(* Votes and the token's own fate.                                         *)
LEMMA VotesKeepInv ==
  ASSUME PropertySharesAssumption, SharesInv, NEW i \in ProposalId,
         \/ \E q \in Quorums : CreateProposal(i, q)
         \/ \E h \in Holders, s \in BOOLEAN : Vote(h, i, s)
         \/ ExecuteProposal(i)
  PROVE  SharesInv'
<1> DEFINE Proposals == [status : {"Absent", "Open", "Executed", "Rejected"},
                         quorum : Nat, for : Nat, against : Nat]
<1>0. proposal \in [ProposalId -> Proposals] /\ proposal[i] \in Proposals
  BY DEF SharesInv, SharesTypeOK
<1>1. CASE \E q \in Quorums : CreateProposal(i, q)
  <2>1. PICK q \in Quorums : CreateProposal(i, q)
    BY <1>1
  <2>2. q \in Nat
    BY DEF PropertySharesAssumption
  <2>3. proposal' \in [ProposalId -> Proposals]
    BY <1>0, <2>1, <2>2 DEF CreateProposal
  <2> QED
    BY <2>1, <2>3 DEF CreateProposal, SharesInv, SharesTypeOK, AskCovered, tokenState, shares, dividends
<1>2. CASE \E h \in Holders, s \in BOOLEAN : Vote(h, i, s)
  <2>1. PICK h \in Holders, s \in BOOLEAN : Vote(h, i, s)
    BY <1>2
  <2>2. balance[h] \in Nat
    BY DEF SharesInv, SharesTypeOK
  <2>3. proposal' \in [ProposalId -> Proposals]
    BY <1>0, <2>1, <2>2 DEF Vote
  <2>4. voted' \subseteq ProposalId \X Holders
    BY <2>1 DEF Vote, SharesInv, SharesTypeOK
  <2> QED
    BY <2>1, <2>3, <2>4 DEF Vote, SharesInv, SharesTypeOK, AskCovered, tokenState, shares, dividends
<1>3. CASE ExecuteProposal(i)
  <2>1. proposal' \in [ProposalId -> Proposals]
    BY <1>0, <1>3 DEF ExecuteProposal
  <2> QED
    BY <1>3, <2>1
       DEF ExecuteProposal, SharesInv, SharesTypeOK, AskCovered, tokenState, shares, dividends
<1> QED
  BY <1>1, <1>2, <1>3

(* A lock, a recovery and a burn of the token itself.                     *)
LEMMA TokenKeepsInv ==
  ASSUME SharesInv, LockToken \/ RecoverToken \/ BurnToken
  PROVE  SharesInv'
<1>1. /\ owner' \in Holders /\ token' \in {"Held", "Locked", "Burned"}
      /\ balance' \in [Holders -> Nat]
  BY DEF LockToken, BurnToken, TokenLeaves, RecoverToken, SharesInv, SharesTypeOK
<1>2. UNCHANGED <<totalShares, escrowed, ask, dividends, votes>>
  BY DEF LockToken, BurnToken, TokenLeaves, RecoverToken
<1> QED
  BY <1>1, <1>2 DEF SharesInv, SharesTypeOK, AskCovered, dividends, votes

(* Every step of the contract keeps the invariant.                         *)
LEMMA StepInv ==
  ASSUME PropertySharesAssumption, SharesInv, [SharesNext]_sharesVars
  PROVE  SharesInv'
<1>1. CASE \E h \in Holders, n \in ShareAmounts : IssueShares(h, n) \/ RedeemShares(h, n)
  BY <1>1, SupplyKeepsInv
<1>2. CASE \E h, g \in Holders, n \in ShareAmounts :
             TransferShares(h, g, n) \/ SafeBatchTransferFrom(h, g, n)
  BY <1>2, TransfersKeepInv
<1>3. CASE \E h \in Holders :
             \/ \E price \in Prices, n \in ShareAmounts : PlaceAsk(h, price, n)
             \/ CancelAsk(h)
             \/ \E g \in Holders, n \in ShareAmounts : BuyShares(h, g, n)
  BY <1>3, MarketKeepsInv
<1>4. CASE \E h \in Holders : WithdrawDividends(h)
  BY <1>4, WithdrawalKeepsInv
<1>5. CASE \E v \in Dividends : DepositDividends(v)
  BY <1>5, DepositKeepsInv
<1>6. CASE \E i \in ProposalId :
             \/ \E q \in Quorums : CreateProposal(i, q)
             \/ \E h \in Holders, s \in BOOLEAN : Vote(h, i, s)
             \/ ExecuteProposal(i)
  BY <1>6, VotesKeepInv
<1>7. CASE LockToken \/ RecoverToken \/ BurnToken
  BY <1>7, TokenKeepsInv
<1>8. CASE UNCHANGED sharesVars
  BY <1>8 DEF sharesVars, tokenState, shares, dividends, votes, SharesInv, SharesTypeOK, AskCovered
<1> QED
  BY <1>1, <1>2, <1>3, <1>4, <1>5, <1>6, <1>7, <1>8 DEF SharesNext

(* The invariant holds throughout.                                         *)
LEMMA InvHolds == ASSUME PropertySharesAssumption PROVE SharesSpec => []SharesInv
<1>1. SharesInit => SharesInv
  BY InitInv
<1>2. SharesInv /\ [SharesNext]_sharesVars => SharesInv'
  BY StepInv
<1> QED
  BY <1>1, <1>2, PTL DEF SharesSpec

(* No balance, escrow, offer or fund is ever overdrawn, in any order of    *)
(* issue, trade, redemption, dividends, lock, recovery and burn.           *)
THEOREM SharesTypeCorrect == ASSUME PropertySharesAssumption PROVE SharesSpec => []SharesTypeOK
<1>1. SharesInv => SharesTypeOK
  BY DEF SharesInv
<1> QED
  BY <1>1, InvHolds, PTL

(* Whatever is offered for sale is in escrow, through second asks, partial *)
(* sales and cancellations.                                                *)
THEOREM OffersAreCovered == ASSUME PropertySharesAssumption PROVE SharesSpec => []AskCovered
<1>1. SharesInv => AskCovered
  BY DEF SharesInv
<1> QED
  BY <1>1, InvHolds, PTL

-----------------------------------------------------------------------------
(* The shares of every holder, of given balances and escrows.              *)
HeldBy(b, e) == [h \in Holders |-> b[h] + e[h]]

(* The shares outstanding are the sum of them, before and after a step.    *)
LEMMA OutstandingIsSum ==
  /\ Outstanding = SumFunctionOnSet(HeldBy(balance, escrowed), Holders)
  /\ Outstanding' = SumFunctionOnSet(HeldBy(balance', escrowed'), Holders)
BY DEF Outstanding, HeldBy

(* No holder has more shares than there are.                               *)
LEMMA HoldersWithin ==
  ASSUME PropertySharesAssumption, SharesInv
  PROVE  /\ Outstanding \in Nat
         /\ \A h \in Holders : balance[h] + escrowed[h] <= Outstanding
<1> DEFINE f == HeldBy(balance, escrowed)
<1>1. \A h \in Holders : f[h] = balance[h] + escrowed[h] /\ f[h] \in Nat
  BY DEF SharesInv, SharesTypeOK, HeldBy
<1> HIDE DEF f
<1>2. IsFiniteSet(Holders)
  BY DEF PropertySharesAssumption
<1>3. /\ SumFunctionOnSet(f, Holders) \in Nat
      /\ \A h \in Holders : f[h] <= SumFunctionOnSet(f, Holders)
  BY <1>1, <1>2, SumNat
<1> QED
  BY <1>1, <1>3, OutstandingIsSum DEF f

(* A step that leaves every holder's shares alone leaves the sum alone.    *)
LEMMA SameShares ==
  ASSUME PropertySharesAssumption,
         \A h \in Holders : balance'[h] + escrowed'[h] = balance[h] + escrowed[h]
  PROVE  Outstanding' = Outstanding
<1> DEFINE f == HeldBy(balance, escrowed)
           g == HeldBy(balance', escrowed')
<1>1. \A h \in Holders : g[h] = f[h]
  BY DEF HeldBy
<1> HIDE DEF f, g
<1>2. IsFiniteSet(Holders)
  BY DEF PropertySharesAssumption
<1>3. SumFunctionOnSet(g, Holders) = SumFunctionOnSet(f, Holders)
  BY <1>1, <1>2, SumSame
<1> QED
  BY <1>3, OutstandingIsSum DEF f, g

(* One that changes one holder's changes the sum by as much.               *)
LEMMA OneHoldersShares ==
  ASSUME PropertySharesAssumption, SharesInv, SharesInv', NEW k \in Holders,
         \A h \in Holders \ {k} : balance'[h] + escrowed'[h] = balance[h] + escrowed[h]
  PROVE  Outstanding' = Outstanding + (balance'[k] + escrowed'[k]) - (balance[k] + escrowed[k])
<1> DEFINE f == HeldBy(balance, escrowed)
           g == HeldBy(balance', escrowed')
<1>1. \A h \in Holders : /\ f[h] = balance[h] + escrowed[h] /\ f[h] \in Int
                         /\ g[h] = balance'[h] + escrowed'[h] /\ g[h] \in Int
  BY DEF HeldBy, SharesInv, SharesTypeOK
<1>2. \A h \in Holders \ {k} : g[h] = f[h]
  BY <1>1
<1> HIDE DEF f, g
<1>3. IsFiniteSet(Holders)
  BY DEF PropertySharesAssumption
<1>4. SumFunctionOnSet(g, Holders) = SumFunctionOnSet(f, Holders) + g[k] - f[k]
  BY <1>1, <1>2, <1>3, SumChange
<1>5. /\ Outstanding = SumFunctionOnSet(f, Holders)
      /\ Outstanding' = SumFunctionOnSet(g, Holders)
  BY OutstandingIsSum DEF f, g
<1> QED
  BY <1>1, <1>4, <1>5

(* One that moves shares from a holder to another changes no sum.          *)
LEMMA MovedShares ==
  ASSUME PropertySharesAssumption, SharesInv,
         NEW a \in Holders, NEW b \in Holders, NEW n \in Int,
         a = b => balance'[a] + escrowed'[a] = balance[a] + escrowed[a],
         a # b => /\ balance'[a] + escrowed'[a] = balance[a] + escrowed[a] - n
                  /\ balance'[b] + escrowed'[b] = balance[b] + escrowed[b] + n,
         \A h \in Holders \ {a, b} : balance'[h] + escrowed'[h] = balance[h] + escrowed[h]
  PROVE  Outstanding' = Outstanding
<1> DEFINE f == HeldBy(balance, escrowed)
           g == HeldBy(balance', escrowed')
<1>1. \A h \in Holders : /\ f[h] = balance[h] + escrowed[h] /\ f[h] \in Int
                         /\ g[h] = balance'[h] + escrowed'[h]
  BY DEF HeldBy, SharesInv, SharesTypeOK
<1> HIDE DEF f, g
<1>2. /\ a = b => g[a] = f[a]
      /\ \A h \in Holders \ {a, b} : g[h] = f[h]
  BY <1>1
<1>3. a # b => g[a] = f[a] - n /\ g[b] = f[b] + n
  <2>0. balance[a] \in Int /\ escrowed[a] \in Int /\ balance[b] \in Int /\ escrowed[b] \in Int
    BY DEF SharesInv, SharesTypeOK
  <2>1. f[a] = balance[a] + escrowed[a] /\ f[b] = balance[b] + escrowed[b]
    BY <1>1
  <2>2. g[a] = balance'[a] + escrowed'[a] /\ g[b] = balance'[b] + escrowed'[b]
    BY <1>1
  <2>3. /\ a # b => /\ balance'[a] + escrowed'[a] = balance[a] + escrowed[a] - n
                      /\ balance'[b] + escrowed'[b] = balance[b] + escrowed[b] + n
    OBVIOUS
  <2> QED
    BY <2>0, <2>1, <2>2, <2>3
<1>4. IsFiniteSet(Holders)
  BY DEF PropertySharesAssumption
<1>5. SumFunctionOnSet(g, Holders) = SumFunctionOnSet(f, Holders)
  BY <1>1, <1>2, <1>3, <1>4, SumMove
<1> QED
  BY <1>5, OutstandingIsSum DEF f, g

(* Transfers, offers, cancellations and purchases move shares.             *)
LEMMA TradesKeepShares ==
  ASSUME PropertySharesAssumption, SharesInv,
         NEW h \in Holders, NEW g \in Holders, NEW n \in ShareAmounts,
         \/ TransferShares(h, g, n) \/ SafeBatchTransferFrom(h, g, n) \/ BuyShares(h, g, n)
         \/ \E price \in Prices : PlaceAsk(h, price, n)
         \/ CancelAsk(h)
  PROVE  Outstanding' = Outstanding
<1>0. /\ n \in Nat
      /\ balance \in [Holders -> Nat] /\ escrowed \in [Holders -> Nat]
  BY DEF PropertySharesAssumption, SharesInv, SharesTypeOK
<1>1. CASE TransferShares(h, g, n) \/ SafeBatchTransferFrom(h, g, n)
  <2>1. /\ balance' = [balance EXCEPT ![h] = @ - n, ![g] = @ + n]
        /\ escrowed' = escrowed
    BY <1>1 DEF TransferShares, SafeBatchTransferFrom, Moved
  <2>2. h = g => balance'[h] + escrowed'[h] = balance[h] + escrowed[h]
    BY <1>0, <2>1
  <2>3. h # g => /\ balance'[h] + escrowed'[h] = balance[h] + escrowed[h] - n
                 /\ balance'[g] + escrowed'[g] = balance[g] + escrowed[g] + n
    BY <1>0, <2>1
  <2>4. \A k \in Holders \ {h, g} : balance'[k] + escrowed'[k] = balance[k] + escrowed[k]
    BY <1>0, <2>1
  <2> QED
    BY <1>0, <2>2, <2>3, <2>4, MovedShares
<1>2. CASE BuyShares(h, g, n)
  <2>1. /\ balance' = [balance EXCEPT ![h] = @ + n]
        /\ escrowed' = [escrowed EXCEPT ![g] = @ - n]
    BY <1>2 DEF BuyShares, EscrowSold
  <2>2. g = h => balance'[g] + escrowed'[g] = balance[g] + escrowed[g]
    BY <1>0, <2>1
  <2>3. g # h => /\ balance'[g] + escrowed'[g] = balance[g] + escrowed[g] - n
                 /\ balance'[h] + escrowed'[h] = balance[h] + escrowed[h] + n
    BY <1>0, <2>1
  <2>4. \A k \in Holders \ {g, h} : balance'[k] + escrowed'[k] = balance[k] + escrowed[k]
    BY <1>0, <2>1
  <2> QED
    BY <1>0, <2>2, <2>3, <2>4, MovedShares
<1>3. CASE \E price \in Prices : PlaceAsk(h, price, n)
  <2>1. /\ balance' = [balance EXCEPT ![h] = @ - n]
        /\ escrowed' = [escrowed EXCEPT ![h] = @ + n]
    BY <1>3 DEF PlaceAsk
  <2>2. \A k \in Holders : balance'[k] + escrowed'[k] = balance[k] + escrowed[k]
    BY <1>0, <2>1
  <2> QED
    BY <2>2, SameShares
<1>4. CASE CancelAsk(h)
  <2>1. /\ balance' = [balance EXCEPT ![h] = @ + escrowed[h]]
        /\ escrowed' = [escrowed EXCEPT ![h] = 0]
    BY <1>4 DEF CancelAsk
  <2>2. \A k \in Holders : balance'[k] + escrowed'[k] = balance[k] + escrowed[k]
    BY <1>0, <2>1
  <2> QED
    BY <2>2, SameShares
<1> QED
  BY <1>1, <1>2, <1>3, <1>4

(* What a step does to the shares outstanding: they change when total      *)
(* shares or the token do, and rise only where the bound is tested.        *)
LEMMA StepMovesInFull ==
  ASSUME PropertySharesAssumption, SharesInv, SharesInv', [SharesNext]_sharesVars
  PROVE  /\ Outstanding' # Outstanding =>
              totalShares' # totalShares \/ token' # token \/ totalShares = 0
         /\ Outstanding' <= Outstanding \/ Outstanding' <= MaxOutstanding
<1>0. /\ totalShares \in Nat /\ Outstanding \in Nat
      /\ balance \in [Holders -> Nat] /\ escrowed \in [Holders -> Nat]
  BY HoldersWithin DEF SharesInv, SharesTypeOK
<1>1. CASE \E h \in Holders, n \in ShareAmounts : IssueShares(h, n)
  <2>1. PICK h \in Holders, n \in ShareAmounts : IssueShares(h, n)
    BY <1>1
  <2>2. n \in Nat \ {0} /\ totalShares' = totalShares + n /\ Outstanding' <= MaxOutstanding
    BY <2>1 DEF IssueShares, PropertySharesAssumption
  <2> QED
    BY <1>0, <2>2
<1>2. CASE \E h \in Holders, n \in ShareAmounts : RedeemShares(h, n)
  <2>1. PICK h \in Holders, n \in ShareAmounts : RedeemShares(h, n)
    BY <1>2
  <2>2. n \in Nat \ {0}
    BY DEF PropertySharesAssumption
  <2>3. totalShares = 0 \/ totalShares' # totalShares
    BY <1>0, <2>1, <2>2 DEF RedeemShares, LowerBy
  <2>4. /\ balance' = [balance EXCEPT ![h] = @ - n] /\ escrowed' = escrowed
    BY <2>1 DEF RedeemShares
  <2>5. \A k \in Holders \ {h} : balance'[k] + escrowed'[k] = balance[k] + escrowed[k]
    BY <1>0, <2>4
  <2>6. Outstanding' = Outstanding + (balance'[h] + escrowed'[h]) - (balance[h] + escrowed[h])
    BY <2>5, OneHoldersShares
  <2>7. balance'[h] = balance[h] - n /\ escrowed'[h] = escrowed[h]
    BY <1>0, <2>4
  <2>8. balance[h] \in Nat /\ escrowed[h] \in Nat
    BY <1>0
  <2>9. Outstanding' <= Outstanding
    BY <1>0, <2>2, <2>6, <2>7, <2>8
  <2> QED
    BY <2>3, <2>9
<1>3. CASE \E h, g \in Holders, n \in ShareAmounts :
             \/ TransferShares(h, g, n) \/ SafeBatchTransferFrom(h, g, n) \/ BuyShares(h, g, n)
             \/ \E price \in Prices : PlaceAsk(h, price, n)
  <2>1. Outstanding' = Outstanding
    BY <1>3, TradesKeepShares
  <2> QED
    BY <1>0, <2>1
<1>4. CASE \E h \in Holders : CancelAsk(h)
  <2>1. PICK h \in Holders : CancelAsk(h)
    BY <1>4
  <2>2. /\ balance' = [balance EXCEPT ![h] = @ + escrowed[h]]
        /\ escrowed' = [escrowed EXCEPT ![h] = 0]
    BY <2>1 DEF CancelAsk
  <2>3. \A k \in Holders : balance'[k] + escrowed'[k] = balance[k] + escrowed[k]
    BY <1>0, <2>2
  <2>4. Outstanding' = Outstanding
    BY <2>3, SameShares
  <2> QED
    BY <1>0, <2>4
<1>5. CASE LockToken \/ BurnToken
  <2>1. /\ token' # token /\ owner \in Holders
        /\ balance' = [balance EXCEPT ![owner] = 0] /\ escrowed' = escrowed
    BY <1>5 DEF LockToken, BurnToken, TokenLeaves, SharesInv, SharesTypeOK
  <2>2. \A k \in Holders \ {owner} : balance'[k] + escrowed'[k] = balance[k] + escrowed[k]
    BY <1>0, <2>1
  <2>3. Outstanding' =
          Outstanding + (balance'[owner] + escrowed'[owner]) - (balance[owner] + escrowed[owner])
    BY <2>1, <2>2, OneHoldersShares
  <2>4. /\ balance'[owner] = 0 /\ escrowed'[owner] = escrowed[owner]
        /\ balance[owner] \in Nat /\ escrowed[owner] \in Nat
    BY <1>0, <2>1
  <2>5. Outstanding' <= Outstanding
    BY <1>0, <2>3, <2>4
  <2> QED
    BY <2>1, <2>5
<1>6. CASE RecoverToken
  BY <1>6 DEF RecoverToken
<1>7. CASE \/ \E h \in Holders : WithdrawDividends(h)
           \/ \E v \in Dividends : DepositDividends(v)
           \/ \E i \in ProposalId :
                \/ \E q \in Quorums : CreateProposal(i, q)
                \/ \E h \in Holders, s \in BOOLEAN : Vote(h, i, s)
                \/ ExecuteProposal(i)
           \/ UNCHANGED sharesVars
  <2>1. UNCHANGED <<balance, escrowed>>
    BY <1>7 DEF WithdrawDividends, DepositDividends, CreateProposal, Vote, ExecuteProposal,
                sharesVars, shares
  <2>2. \A k \in Holders : balance'[k] + escrowed'[k] = balance[k] + escrowed[k]
    BY <2>1
  <2>3. Outstanding' = Outstanding
    BY <2>2, SameShares
  <2> QED
    BY <1>0, <2>3
<1> QED
  BY <1>1, <1>2, <1>3, <1>4, <1>5, <1>6, <1>7 DEF SharesNext

(* Trading creates and destroys no share.                                  *)
THEOREM SharesAreConserved ==
  ASSUME PropertySharesAssumption PROVE SharesSpec => SharesMoveInFull
<1>1. SharesInv /\ SharesInv' /\ [SharesNext]_sharesVars =>
        [Outstanding' # Outstanding =>
           totalShares' # totalShares \/ token' # token \/ totalShares = 0]_sharesVars
  BY StepMovesInFull
<1> QED
  BY <1>1, InvHolds, PTL DEF SharesSpec, SharesMoveInFull

-----------------------------------------------------------------------------
(* The inductive invariant of the dividends: the shares outstanding are    *)
(* within their bound.                                                     *)
DividendsInv == SharesInv /\ Outstanding <= MaxOutstanding /\ DividendsCreditedOnce

(* Nothing is deposited and nothing is owed at first.                     *)
LEMMA InitDividends == PropertySharesAssumption /\ SharesInit => DividendsInv
<1> SUFFICES ASSUME PropertySharesAssumption, SharesInit PROVE DividendsInv
  OBVIOUS
<1>1. SharesInv /\ IsFiniteSet(Holders) /\ owner \in Holders
  BY InitInv DEF SharesInit, PropertySharesAssumption
<1> DEFINE f == HeldBy(balance, escrowed)
           z == [h \in Holders |-> 0]
<1>2. \A h \in Holders : z[h] = 0
  OBVIOUS
<1>3. f[owner] = 1 /\ \A h \in Holders \ {owner} : f[h] = z[h]
  BY <1>1 DEF SharesInit, HeldBy
<1> HIDE DEF f, z
<1>4. SumFunctionOnSet(z, Holders) = 0
  BY <1>1, <1>2, SumZero
<1>5. SumFunctionOnSet(f, Holders) = SumFunctionOnSet(z, Holders) + f[owner] - z[owner]
  BY <1>1, <1>2, <1>3, SumChange
<1>6. Outstanding = SumFunctionOnSet(f, Holders)
  BY OutstandingIsSum DEF f
<1>7. Outstanding = 1
  BY <1>1, <1>2, <1>3, <1>4, <1>5, <1>6
<1>8. Outstanding <= MaxOutstanding
  BY <1>7 DEF PropertySharesAssumption
<1>9. DividendsCreditedOnce
  BY DEF DividendsCreditedOnce, SharesInit, PropertySharesAssumption
<1> QED
  BY <1>1, <1>8, <1>9 DEF DividendsInv

(* Crediting an account with what its shares earned since its last sync    *)
(* keeps what it was ever credited within what all the shares earn.        *)
LEMMA AccruedFits ==
  ASSUME PropertySharesAssumption, dps \in Nat, credit \in [Holders -> Nat],
         NEW h \in Holders, NEW held \in Nat, held <= MaxOutstanding,
         NEW total \in Nat, total * SCALING <= MaxOutstanding * credit[h]
  PROVE  (total + Accrued(h, held)) * SCALING <= MaxOutstanding * CreditMoved(h)
<1>0. credit[h] \in Nat /\ MaxOutstanding \in Nat /\ SCALING \in Nat \ {0}
  BY DEF PropertySharesAssumption
<1>1. CASE dps > credit[h]
  <2> DEFINE d == dps - credit[h]
             due == held * d
             acc == due \div SCALING
  <2>1. d \in Nat /\ dps = credit[h] + d
    BY <1>0, <1>1
  <2>2. Accrued(h, held) = acc /\ CreditMoved(h) = dps
    BY <1>1 DEF Accrued, CreditMoved
  <2> HIDE DEF d
  <2>3. due \in Nat /\ due <= MaxOutstanding * d
    BY <1>0, <2>1, TimesGrows
  <2> HIDE DEF due
  <2>4. acc \in Nat /\ acc * SCALING <= due
    BY <1>0, <2>3, RoundedDown
  <2> HIDE DEF acc
  <2>5. (total + acc) * SCALING = total * SCALING + acc * SCALING
    BY <1>0, <2>4
  <2>6. MaxOutstanding * dps = MaxOutstanding * credit[h] + MaxOutstanding * d
    BY <1>0, <2>1
  <2>7. /\ total * SCALING \in Nat /\ acc * SCALING \in Nat
        /\ MaxOutstanding * credit[h] \in Nat /\ MaxOutstanding * d \in Nat
    BY <1>0, <2>1, <2>4
  <2>8. total * SCALING + acc * SCALING <= MaxOutstanding * credit[h] + MaxOutstanding * d
    BY <2>3, <2>4, <2>7
  <2> QED
    BY <2>2, <2>5, <2>6, <2>8
<1>2. CASE ~(dps > credit[h])
  <2>1. Accrued(h, held) = 0 /\ CreditMoved(h) = credit[h]
    BY <1>2 DEF Accrued, CreditMoved
  <2> QED
    BY <1>0, <2>1
<1> QED
  BY <1>1, <1>2

(* A sync of one account with shares it has keeps every account's bound.   *)
LEMMA SyncedOnce ==
  ASSUME PropertySharesAssumption, SharesTypeOK, DividendsCreditedOnce,
         NEW h \in Holders, NEW held \in Nat, held <= MaxOutstanding, Synced(h, held)
  PROVE  DividendsCreditedOnce'
<1>1. /\ owed' = [owed EXCEPT ![h] = @ + Accrued(h, held)]
      /\ credit' = [credit EXCEPT ![h] = CreditMoved(h)] /\ received' = received
  BY DEF Synced
<1>2. received[h] \in Nat /\ owed[h] \in Nat /\ Accrued(h, held) \in Nat
  BY AccruedType DEF SharesTypeOK
<1>3. (received[h] + owed[h]) * SCALING <= MaxOutstanding * credit[h]
  BY DEF DividendsCreditedOnce
<1> DEFINE total == received[h] + owed[h]
<1>4. total \in Nat /\ dps \in Nat /\ credit \in [Holders -> Nat]
  BY <1>2 DEF SharesTypeOK
<1> HIDE DEF total
<1>5. (total + Accrued(h, held)) * SCALING <= MaxOutstanding * CreditMoved(h)
  BY <1>3, <1>4, AccruedFits DEF total
<1>6. /\ received'[h] + owed'[h] = total + Accrued(h, held) /\ credit'[h] = CreditMoved(h)
  BY <1>1, <1>2 DEF total, SharesTypeOK
<1>7. \A k \in Holders \ {h} :
        received'[k] = received[k] /\ owed'[k] = owed[k] /\ credit'[k] = credit[k]
  BY <1>1 DEF SharesTypeOK
<1>8. \A k \in Holders : (received'[k] + owed'[k]) * SCALING <= MaxOutstanding * credit'[k]
  BY <1>5, <1>6, <1>7 DEF DividendsCreditedOnce
<1> QED
  BY <1>8 DEF DividendsCreditedOnce

(* Every step keeps it: an account is synced with shares it has, or had.   *)
LEMMA StepDividends ==
  ASSUME PropertySharesAssumption, DividendsInv, [SharesNext]_sharesVars
  PROVE  DividendsInv'
<1>0. SharesInv /\ SharesTypeOK /\ DividendsCreditedOnce
  BY DEF DividendsInv, SharesInv
<1>1. SharesInv' /\ SharesTypeOK'
  BY <1>0, StepInv DEF SharesInv
<1>2. /\ Outstanding \in Nat /\ Outstanding' \in Nat /\ MaxOutstanding \in Nat
      /\ Outstanding <= MaxOutstanding
      /\ \A h \in Holders : balance[h] + escrowed[h] <= Outstanding
      /\ \A h \in Holders : balance'[h] + escrowed'[h] <= Outstanding'
  <2>1. (SharesInv => Outstanding \in Nat
                      /\ \A h \in Holders : balance[h] + escrowed[h] <= Outstanding)
    BY HoldersWithin
  <2>2. (SharesInv => Outstanding \in Nat
                      /\ \A h \in Holders : balance[h] + escrowed[h] <= Outstanding)'
    BY HoldersWithin, PTL
  <2> QED
    BY <1>0, <1>1, <2>1, <2>2 DEF DividendsInv, PropertySharesAssumption
<1>3. Outstanding' <= MaxOutstanding
  <2>1. Outstanding' <= Outstanding \/ Outstanding' <= MaxOutstanding
    BY <1>0, <1>1, StepMovesInFull
  <2> QED
    BY <1>2, <2>1
<1>4. \A h \in Holders : /\ balance[h] \in Nat /\ balance[h] <= MaxOutstanding
                         /\ balance'[h] \in Nat /\ balance'[h] <= MaxOutstanding
  <2> TAKE h \in Holders
  <2>1. balance[h] \in Nat /\ escrowed[h] \in Nat /\ balance'[h] \in Nat /\ escrowed'[h] \in Nat
    BY <1>0, <1>1 DEF SharesTypeOK
  <2>2. /\ balance[h] + escrowed[h] <= Outstanding /\ balance'[h] + escrowed'[h] <= Outstanding'
    BY <1>2
  <2> QED
    BY <1>2, <1>3, <2>1, <2>2
<1>5. DividendsCreditedOnce'
  <2>1. CASE \E h \in Holders, n \in ShareAmounts : IssueShares(h, n) \/ RedeemShares(h, n)
    <3>1. PICK h \in Holders, n \in ShareAmounts : IssueShares(h, n) \/ RedeemShares(h, n)
      BY <2>1
    <3>2. Synced(h, balance'[h])
      BY <3>1, <1>0 DEF IssueShares, RedeemShares, SharesTypeOK
    <3> DEFINE held == balance'[h]
    <3>3. held \in Nat /\ held <= MaxOutstanding
      BY <1>4
    <3> HIDE DEF held
    <3>4. Synced(h, held)
      BY <3>2 DEF held
    <3> QED
      BY <1>0, <3>3, <3>4, SyncedOnce
  <2>2. CASE \E h, g \in Holders, n \in ShareAmounts : TransferShares(h, g, n)
    <3>1. PICK a \in Holders, b \in Holders, n \in ShareAmounts : TransferShares(a, b, n)
      BY <2>2
    <3>2. ASSUME NEW k \in Holders
          PROVE  (received'[k] + owed'[k]) * SCALING <= MaxOutstanding * credit'[k]
      <4> DEFINE total == received[k] + owed[k]
                 held == balance[k]
      <4>1. received[k] \in Nat /\ owed[k] \in Nat /\ received' = received
        BY <1>0, <3>1 DEF TransferShares, SharesTypeOK
      <4>2. total * SCALING <= MaxOutstanding * credit[k]
        BY <1>0 DEF DividendsCreditedOnce
      <4>3. /\ total \in Nat /\ held \in Nat /\ held <= MaxOutstanding
            /\ dps \in Nat /\ credit \in [Holders -> Nat]
        BY <1>0, <1>4, <4>1 DEF SharesTypeOK
      <4> HIDE DEF total, held
      <4>4. (total + Accrued(k, held)) * SCALING <= MaxOutstanding * CreditMoved(k)
        BY <4>2, <4>3, AccruedFits
      <4>5. CASE k \in {a, b}
        <5>1. owed'[k] = owed[k] + Accrued(k, held) /\ credit'[k] = CreditMoved(k)
          BY <3>1, <4>5 DEF TransferShares, held
        <5>2. Accrued(k, held) \in Nat
          BY <4>3, AccruedType
        <5>3. received'[k] + owed'[k] = total + Accrued(k, held)
          BY <4>1, <5>1, <5>2 DEF total
        <5> QED
          BY <4>4, <5>1, <5>3
      <4>6. CASE k \notin {a, b}
        <5>1. owed'[k] = owed[k] /\ credit'[k] = credit[k]
          BY <3>1, <4>6 DEF TransferShares
        <5> QED
          BY <4>1, <4>2, <5>1 DEF total
      <4> QED
        BY <4>5, <4>6
    <3> QED
      BY <3>2 DEF DividendsCreditedOnce
  <2>3. CASE \E h \in Holders : WithdrawDividends(h)
    <3>1. PICK h \in Holders : WithdrawDividends(h)
      BY <2>3
    <3> DEFINE total == received[h] + owed[h]
               held == balance[h]
               due == owed[h] + Accrued(h, held)
    <3>2. received[h] \in Nat /\ owed[h] \in Nat /\ total * SCALING <= MaxOutstanding * credit[h]
      BY <1>0 DEF SharesTypeOK, DividendsCreditedOnce
    <3>3. /\ owed' = [owed EXCEPT ![h] = 0] /\ credit' = [credit EXCEPT ![h] = CreditMoved(h)]
          /\ received' = [received EXCEPT ![h] = @ + due]
      BY <3>1 DEF WithdrawDividends
    <3>4. /\ total \in Nat /\ held \in Nat /\ held <= MaxOutstanding
          /\ dps \in Nat /\ credit \in [Holders -> Nat]
      BY <1>0, <1>4, <3>2 DEF SharesTypeOK
    <3> HIDE DEF held
    <3>5. Accrued(h, held) \in Nat
      BY <3>4, AccruedType
    <3>6. received'[h] + owed'[h] = total + Accrued(h, held) /\ credit'[h] = CreditMoved(h)
      BY <1>0, <3>2, <3>3, <3>5 DEF SharesTypeOK
    <3> HIDE DEF total, due
    <3>7. (total + Accrued(h, held)) * SCALING <= MaxOutstanding * CreditMoved(h)
      BY <3>2, <3>4, AccruedFits
    <3>8. \A k \in Holders \ {h} :
            received'[k] = received[k] /\ owed'[k] = owed[k] /\ credit'[k] = credit[k]
      BY <1>0, <3>3 DEF SharesTypeOK
    <3>9. \A k \in Holders : (received'[k] + owed'[k]) * SCALING <= MaxOutstanding * credit'[k]
      BY <1>0, <3>6, <3>7, <3>8 DEF DividendsCreditedOnce
    <3> QED
      BY <3>9 DEF DividendsCreditedOnce
  <2>4. CASE UNCHANGED <<credit, owed, received>>
    BY <1>0, <2>4 DEF DividendsCreditedOnce
  <2>5. \/ \E h \in Holders, n \in ShareAmounts : IssueShares(h, n) \/ RedeemShares(h, n)
        \/ \E h, g \in Holders, n \in ShareAmounts : TransferShares(h, g, n)
        \/ \E h \in Holders : WithdrawDividends(h)
        \/ UNCHANGED <<credit, owed, received>>
    <3>1. CASE \/ \E h \in Holders, n \in ShareAmounts :
                    \/ \E price \in Prices : PlaceAsk(h, price, n)
                    \/ \E g \in Holders : SafeBatchTransferFrom(h, g, n) \/ BuyShares(h, g, n)
               \/ \E h \in Holders : CancelAsk(h)
      BY <3>1 DEF PlaceAsk, SafeBatchTransferFrom, BuyShares, CancelAsk, dividends
    <3>2. CASE \/ \E v \in Dividends : DepositDividends(v)
               \/ \E i \in ProposalId :
                    \/ \E q \in Quorums : CreateProposal(i, q)
                    \/ \E h \in Holders, s \in BOOLEAN : Vote(h, i, s)
                    \/ ExecuteProposal(i)
      BY <3>2 DEF DepositDividends, CreateProposal, Vote, ExecuteProposal, dividends
    <3>3. CASE LockToken \/ RecoverToken \/ BurnToken \/ UNCHANGED sharesVars
      BY <3>3 DEF LockToken, BurnToken, TokenLeaves, RecoverToken, sharesVars, dividends
    <3> QED
      BY <3>1, <3>2, <3>3 DEF SharesNext
  <2> QED
    BY <2>1, <2>2, <2>3, <2>4, <2>5
<1> QED
  BY <1>1, <1>3, <1>5 DEF DividendsInv

(* No deposit is credited twice to one account, whatever it sells, buys,   *)
(* moves, redeems and withdraws between the deposits.                      *)
THEOREM DividendsAreCreditedOnce ==
  ASSUME PropertySharesAssumption PROVE SharesSpec => []DividendsCreditedOnce
<1>1. SharesInit => DividendsInv
  BY InitDividends
<1>2. DividendsInv /\ [SharesNext]_sharesVars => DividendsInv'
  BY StepDividends
<1>3. DividendsInv => DividendsCreditedOnce
  BY DEF DividendsInv
<1> QED
  BY <1>1, <1>2, <1>3, PTL DEF SharesSpec

-----------------------------------------------------------------------------
(* Property tokens and their owners.                                       *)

Alive(owned) == {t \in TokenId : owned[t] # Nobody}
InHand(owned) == {t \in TokenId : owned[t] \in Owners}

(* No token has an id above the counter, and a request that exists names a *)
(* token and the account that owned it.                                    *)
UnmintedHaveNoOwner == \A t \in TokenId : t > tokenCounter => tokenOwner[t] = Nobody
RequestsNameTokens ==
  \A r \in TokenRequestId :
    bridgeRequest[r].status # "Absent" =>
      bridgeRequest[r].token \in TokenId /\ bridgeRequest[r].sender \in Owners

TokenInv == TokenTypeOK /\ UnmintedHaveNoOwner /\ RequestsNameTokens
TokenIInv == TokenInv /\ TokensAccounted

SentInto(f, S, V) == {y \in S : f[y] \in V}

(* Writing one entry of a function moves one element into or out of the    *)
(* set of those whose value is in V.                                       *)
LEMMA OneEntryCounts ==
  ASSUME NEW S, IsFiniteSet(S), NEW V, NEW f, NEW g, NEW x \in S,
         \A y \in S \ {x} : g[y] = f[y]
  PROVE  Cardinality(SentInto(g, S, V)) + (IF f[x] \in V THEN 1 ELSE 0)
           = Cardinality(SentInto(f, S, V)) + (IF g[x] \in V THEN 1 ELSE 0)
<1> DEFINE F == SentInto(f, S, V)
           G == SentInto(g, S, V)
<1>1. IsFiniteSet(F) /\ IsFiniteSet(G)
  BY FS_Subset DEF SentInto
<1>2. F \ {x} = G \ {x} /\ (x \in F <=> f[x] \in V) /\ (x \in G <=> g[x] \in V)
  BY DEF SentInto
<1> HIDE DEF F, G
<1>3. Cardinality(F) \in Nat /\ Cardinality(G) \in Nat
  BY <1>1, FS_CardinalityType
<1>4. /\ Cardinality(F \ {x}) = IF x \in F THEN Cardinality(F) - 1 ELSE Cardinality(F)
      /\ Cardinality(G \ {x}) = IF x \in G THEN Cardinality(G) - 1 ELSE Cardinality(G)
  BY <1>1, FS_RemoveElement
<1>5. (IF x \in G THEN Cardinality(G) - 1 ELSE Cardinality(G))
        = (IF x \in F THEN Cardinality(F) - 1 ELSE Cardinality(F))
  BY <1>2, <1>4
<1>6. Cardinality(G) + (IF x \in F THEN 1 ELSE 0) = Cardinality(F) + (IF x \in G THEN 1 ELSE 0)
  BY <1>3, <1>5
<1>7. Cardinality(G) + (IF f[x] \in V THEN 1 ELSE 0)
        = Cardinality(F) + (IF g[x] \in V THEN 1 ELSE 0)
  <2>1. /\ (IF x \in F THEN 1 ELSE 0) = (IF f[x] \in V THEN 1 ELSE 0)
        /\ (IF x \in G THEN 1 ELSE 0) = (IF g[x] \in V THEN 1 ELSE 0)
    BY <1>2, Zenon
  <2> QED
    BY <1>6, <2>1
<1> QED
  BY <1>7 DEF F, G

(* The sets of tokens are finite, and with an owner written they are       *)
(* larger or smaller by one at most.                                       *)
LEMMA OwnerWritten ==
  ASSUME PropertyTokenAssumption, tokenOwner \in [TokenId -> Owners \union {Zero, Nobody}],
         NEW t \in TokenId, NEW w \in Owners \union {Zero, Nobody},
         NEW g, g[t] = w, \A y \in TokenId \ {t} : g[y] = tokenOwner[y]
  PROVE  /\ Cardinality(Alive(g)) \in Nat /\ Cardinality(InHand(g)) \in Nat
         /\ Cardinality(Alive(tokenOwner)) \in Nat /\ Cardinality(InHand(tokenOwner)) \in Nat
         /\ Cardinality(Alive(g)) + (IF tokenOwner[t] # Nobody THEN 1 ELSE 0)
              = Cardinality(Alive(tokenOwner)) + (IF w # Nobody THEN 1 ELSE 0)
         /\ Cardinality(InHand(g)) + (IF tokenOwner[t] \in Owners THEN 1 ELSE 0)
              = Cardinality(InHand(tokenOwner)) + (IF w \in Owners THEN 1 ELSE 0)
<1> DEFINE All == Owners \union {Zero}
<1>0. 1 \in Int /\ MaxTokens \in Int
  BY DEF PropertyTokenAssumption
<1>1. /\ Nobody \notin All
      /\ IsFiniteSet(TokenId)
  <2>1. Nobody \notin All
    BY DEF PropertyTokenAssumption, Zero, Nobody
  <2>2. IsFiniteSet(TokenId)
    BY <1>0, FS_Interval DEF TokenId
  <2> QED
    BY <2>1, <2>2
<1>2. \A y \in TokenId : g[y] \in Owners \union {Zero, Nobody}
  OBVIOUS
<1>3. /\ Alive(tokenOwner) = SentInto(tokenOwner, TokenId, All)
      /\ Alive(g) = SentInto(g, TokenId, All)
      /\ tokenOwner[t] # Nobody <=> tokenOwner[t] \in All
      /\ w # Nobody <=> w \in All
  BY <1>1, <1>2 DEF Alive, SentInto
<1> HIDE DEF All
<1>4. /\ Cardinality(Alive(g)) \in Nat /\ Cardinality(InHand(g)) \in Nat
      /\ Cardinality(Alive(tokenOwner)) \in Nat /\ Cardinality(InHand(tokenOwner)) \in Nat
  BY <1>1, FS_Subset, FS_CardinalityType DEF Alive, InHand
<1>5. ASSUME NEW V
      PROVE  Cardinality(SentInto(g, TokenId, V)) + (IF tokenOwner[t] \in V THEN 1 ELSE 0)
               = Cardinality(SentInto(tokenOwner, TokenId, V)) + (IF g[t] \in V THEN 1 ELSE 0)
  BY <1>1, OneEntryCounts
<1>6. Cardinality(Alive(g)) + (IF tokenOwner[t] # Nobody THEN 1 ELSE 0)
        = Cardinality(Alive(tokenOwner)) + (IF w # Nobody THEN 1 ELSE 0)
  <2>1. Cardinality(SentInto(g, TokenId, All)) + (IF tokenOwner[t] \in All THEN 1 ELSE 0)
          = Cardinality(SentInto(tokenOwner, TokenId, All)) + (IF g[t] \in All THEN 1 ELSE 0)
    BY <1>5
  <2>2. /\ (IF tokenOwner[t] # Nobody THEN 1 ELSE 0) = (IF tokenOwner[t] \in All THEN 1 ELSE 0)
        /\ (IF w # Nobody THEN 1 ELSE 0) = (IF g[t] \in All THEN 1 ELSE 0)
    BY <1>3
  <2> QED
    BY <1>3, <2>1, <2>2
<1>7. Cardinality(InHand(g)) + (IF tokenOwner[t] \in Owners THEN 1 ELSE 0)
        = Cardinality(InHand(tokenOwner)) + (IF w \in Owners THEN 1 ELSE 0)
  BY <1>5 DEF InHand, SentInto
<1> QED
  BY <1>4, <1>6, <1>7

(* The sum of the counts follows what is added to or taken from one.       *)
LEMMA CountChanges ==
  ASSUME PropertyTokenAssumption, tokenCount \in [Owners -> 0 .. MaxCount],
         NEW a \in Owners, NEW n \in Int, tokenCount[a] + n \in 0 .. MaxCount,
         NEW g \in [Owners -> Int], g[a] = tokenCount[a] + n,
         \A y \in Owners \ {a} : g[y] = tokenCount[y]
  PROVE  /\ g \in [Owners -> 0 .. MaxCount]
         /\ SumFunctionOnSet(tokenCount, Owners) \in Int
         /\ SumFunctionOnSet(g, Owners) = SumFunctionOnSet(tokenCount, Owners) + n
<1>1. /\ IsFiniteSet(Owners) /\ MaxCount \in Nat
      /\ \A y \in Owners : tokenCount[y] \in Int
      /\ tokenCount[a] \in Int
  BY DEF PropertyTokenAssumption
<1>2. \A y \in Owners : g[y] \in 0 .. MaxCount
  BY <1>1
<1>3. /\ SumFunctionOnSet(g, Owners)
           = SumFunctionOnSet(tokenCount, Owners) + (IF a \in Owners THEN n ELSE 0)
      /\ SumFunctionOnSet(tokenCount, Owners) \in Int
  BY <1>1, SumRaise
<1> QED
  BY <1>2, <1>3

(* TokensAccounted, in terms of the two sets.                              *)
LEMMA AccountedBy ==
  TokensAccounted <=> /\ totalSupply = Cardinality(Alive(tokenOwner))
                      /\ Cardinality(InHand(tokenOwner)) <= SumFunctionOnSet(tokenCount, Owners)
BY DEF TokensAccounted, Alive, InHand

LEMMA InitToken == PropertyTokenAssumption /\ TokenInit => TokenIInv
<1> SUFFICES ASSUME PropertyTokenAssumption, TokenInit PROVE TokenIInv
  OBVIOUS
<1>1. TokenTypeOK
  <2>1. NoTokenRequest \in TokenRequestType
    BY DEF NoTokenRequest, TokenRequestType, PropertyTokenAssumption
  <2>2. /\ 0 \in 0 .. MaxBlock /\ 0 \in 0 .. MaxTokens /\ 0 \in 0 .. MaxTokenRequests
        /\ 0 \in 0 .. MaxCount /\ 0 \in Nat
    BY DEF PropertyTokenAssumption
  <2>3. {FirstOperator} \subseteq Operators
    BY DEF PropertyTokenAssumption
  <2> QED
    BY <2>1, <2>2, <2>3 DEF TokenInit, TokenTypeOK
<1>2. UnmintedHaveNoOwner /\ RequestsNameTokens
  BY DEF TokenInit, UnmintedHaveNoOwner, RequestsNameTokens, NoTokenRequest
<1>3. Alive(tokenOwner) = {} /\ InHand(tokenOwner) = {}
  BY DEF TokenInit, Alive, InHand, PropertyTokenAssumption
<1>4. SumFunctionOnSet(tokenCount, Owners) = 0
  BY SumZero DEF TokenInit, PropertyTokenAssumption
<1>5. totalSupply = 0
  BY DEF TokenInit
<1> QED
  BY <1>1, <1>2, <1>3, <1>4, <1>5, FS_EmptySet, AccountedBy DEF TokenIInv, TokenInv

(* A new token is one more alive, one more owned and one more counted.     *)
LEMMA MintAccounts ==
  ASSUME PropertyTokenAssumption, TokenIInv, NEW a \in Owners, Mint(a)
  PROVE  /\ tokenCounter + 1 \in TokenId /\ tokenCounter' = tokenCounter + 1
         /\ tokenCounter' \in 0 .. MaxTokens /\ totalSupply' \in Nat
         /\ tokenOwner' \in [TokenId -> Owners \union {Zero, Nobody}]
         /\ tokenCount' \in [Owners -> 0 .. MaxCount]
         /\ approved' = approved /\ UnmintedHaveNoOwner' /\ TokensAccounted'
<1> DEFINE t == tokenCounter + 1
<1>1. /\ tokenCounter \in Nat /\ totalSupply \in Nat /\ t \in TokenId
      /\ tokenOwner \in [TokenId -> Owners \union {Zero, Nobody}]
      /\ tokenCount \in [Owners -> 0 .. MaxCount]
      /\ MaxTokens \in Nat /\ MaxCount \in Nat /\ t \in 0 .. MaxTokens
  BY DEF TokenIInv, TokenInv, TokenTypeOK, TokenId, Mint, PropertyTokenAssumption
<1>2. /\ tokenOwner[t] = Nobody /\ Nobody \notin Owners /\ a # Nobody
  BY <1>1 DEF TokenIInv, TokenInv, UnmintedHaveNoOwner, PropertyTokenAssumption
<1>3. /\ tokenOwner' = [tokenOwner EXCEPT ![t] = a] /\ totalSupply' = totalSupply + 1
      /\ tokenCounter' = t /\ approved' = approved
      /\ tokenCount' = [tokenCount EXCEPT ![a] = @ + 1] /\ tokenCount[a] < MaxCount
  BY DEF Mint
<1>4. UnmintedHaveNoOwner'
  BY <1>1, <1>3 DEF TokenIInv, TokenInv, UnmintedHaveNoOwner, TokenId
<1> HIDE DEF t
<1>5. /\ tokenOwner' \in [TokenId -> Owners \union {Zero, Nobody}]
      /\ Cardinality(Alive(tokenOwner')) = Cardinality(Alive(tokenOwner)) + 1
      /\ Cardinality(InHand(tokenOwner')) = Cardinality(InHand(tokenOwner)) + 1
      /\ Cardinality(InHand(tokenOwner)) \in Nat
  <2>1. /\ tokenOwner' \in [TokenId -> Owners \union {Zero, Nobody}]
        /\ a \in Owners \union {Zero, Nobody}
        /\ tokenOwner'[t] = a /\ \A y \in TokenId \ {t} : tokenOwner'[y] = tokenOwner[y]
    BY <1>1, <1>3
  <2>2. /\ Cardinality(Alive(tokenOwner')) \in Nat /\ Cardinality(InHand(tokenOwner')) \in Nat
        /\ Cardinality(Alive(tokenOwner)) \in Nat /\ Cardinality(InHand(tokenOwner)) \in Nat
        /\ Cardinality(Alive(tokenOwner')) + (IF tokenOwner[t] # Nobody THEN 1 ELSE 0)
             = Cardinality(Alive(tokenOwner)) + (IF a # Nobody THEN 1 ELSE 0)
        /\ Cardinality(InHand(tokenOwner')) + (IF tokenOwner[t] \in Owners THEN 1 ELSE 0)
             = Cardinality(InHand(tokenOwner)) + (IF a \in Owners THEN 1 ELSE 0)
    BY <1>1, <2>1, OwnerWritten
  <2> QED
    BY <1>2, <2>1, <2>2
<1>6. /\ tokenCount' \in [Owners -> Int] /\ tokenCount'[a] = tokenCount[a] + 1
      /\ \A y \in Owners \ {a} : tokenCount'[y] = tokenCount[y]
      /\ tokenCount[a] + 1 \in 0 .. MaxCount /\ 1 \in Int
  BY <1>1, <1>3
<1>7. /\ tokenCount' \in [Owners -> 0 .. MaxCount]
      /\ SumFunctionOnSet(tokenCount, Owners) \in Int
      /\ SumFunctionOnSet(tokenCount', Owners) = SumFunctionOnSet(tokenCount, Owners) + 1
  BY <1>1, <1>6, CountChanges
<1>8. TokensAccounted'
  <2>1. /\ totalSupply = Cardinality(Alive(tokenOwner))
        /\ Cardinality(InHand(tokenOwner)) <= SumFunctionOnSet(tokenCount, Owners)
    BY AccountedBy DEF TokenIInv
  <2>2. /\ totalSupply' = Cardinality(Alive(tokenOwner'))
        /\ Cardinality(InHand(tokenOwner')) <= SumFunctionOnSet(tokenCount', Owners)
    BY <1>3, <1>5, <1>7, <2>1
  <2> QED
    BY <2>2 DEF TokensAccounted, Alive, InHand
<1> QED
  BY <1>1, <1>3, <1>4, <1>5, <1>7, <1>8 DEF t

(* A batch of n tokens is n more of each.                                  *)
LEMMA BatchAccounts ==
  ASSUME PropertyTokenAssumption, TokenIInv, NEW a \in Owners, NEW n \in 1 .. MaxTokens,
         BatchRegisterProperties(a, n)
  PROVE  TokenIInv'
<1> DEFINE minted == tokenCounter + 1 .. tokenCounter + n
<1>1. /\ tokenCounter \in Nat /\ totalSupply \in Nat /\ n \in Nat
      /\ tokenOwner \in [TokenId -> Owners \union {Zero, Nobody}]
      /\ tokenCount \in [Owners -> 0 .. MaxCount]
      /\ MaxTokens \in Nat /\ MaxCount \in Nat
      /\ Nobody \notin Owners /\ Zero \notin Owners /\ a # Nobody
  BY DEF TokenIInv, TokenInv, TokenTypeOK, PropertyTokenAssumption
<1>2. /\ tokenCounter' = tokenCounter + n /\ tokenCounter + n <= MaxTokens
      /\ totalSupply' = totalSupply + n
      /\ tokenOwner' = [t \in TokenId |-> IF t \in minted THEN a ELSE tokenOwner[t]]
      /\ tokenCount' = [tokenCount EXCEPT ![a] = @ + n] /\ tokenCount[a] + n <= MaxCount
      /\ UNCHANGED <<approved, crossing, rules>>
  BY DEF BatchRegisterProperties, SupplyAfterBatch
<1>3. /\ minted \subseteq TokenId /\ IsFiniteSet(minted) /\ Cardinality(minted) = n
      /\ \A t \in minted : tokenOwner[t] = Nobody
  <2>1. tokenCounter + 1 \in Int /\ tokenCounter + n \in Int
    BY <1>1
  <2>2. /\ IsFiniteSet(minted)
        /\ Cardinality(minted) = IF tokenCounter + 1 > tokenCounter + n THEN 0
                                 ELSE (tokenCounter + n) - (tokenCounter + 1) + 1
    BY <2>1, FS_Interval
  <2>3. Cardinality(minted) = n
    BY <1>1, <2>2
  <2>4. minted \subseteq TokenId /\ \A t \in minted : t > tokenCounter
    BY <1>1, <1>2 DEF TokenId
  <2> QED
    BY <2>2, <2>3, <2>4 DEF TokenIInv, TokenInv, UnmintedHaveNoOwner
<1>4. UnmintedHaveNoOwner'
  BY <1>1, <1>2 DEF TokenIInv, TokenInv, UnmintedHaveNoOwner, TokenId
<1> HIDE DEF minted
<1>5. tokenOwner' \in [TokenId -> Owners \union {Zero, Nobody}]
  BY <1>1, <1>2
<1>6. /\ Alive(tokenOwner') = Alive(tokenOwner) \union minted
      /\ Alive(tokenOwner) \intersect minted = {}
      /\ InHand(tokenOwner') = InHand(tokenOwner) \union minted
      /\ InHand(tokenOwner) \intersect minted = {}
  BY <1>1, <1>2, <1>3 DEF Alive, InHand
<1>7. /\ IsFiniteSet(Alive(tokenOwner)) /\ IsFiniteSet(InHand(tokenOwner))
      /\ Cardinality(Alive(tokenOwner)) \in Nat /\ Cardinality(InHand(tokenOwner)) \in Nat
  <2>1. 1 \in Int /\ MaxTokens \in Int
    BY <1>1
  <2>2. IsFiniteSet(TokenId)
    BY <2>1, FS_Interval DEF TokenId
  <2> QED
    BY <2>2, FS_Subset, FS_CardinalityType DEF Alive, InHand
<1>8. /\ Cardinality(Alive(tokenOwner')) = Cardinality(Alive(tokenOwner)) + n
      /\ Cardinality(InHand(tokenOwner')) = Cardinality(InHand(tokenOwner)) + n
  <2>1. /\ Cardinality(Alive(tokenOwner')) = Cardinality(Alive(tokenOwner)) + n - Cardinality({})
        /\ Cardinality(InHand(tokenOwner')) = Cardinality(InHand(tokenOwner)) + n - Cardinality({})
    BY <1>3, <1>6, <1>7, FS_Union
  <2> QED
    BY <1>1, <1>7, <2>1, FS_EmptySet
<1>9. /\ tokenCount' \in [Owners -> Int] /\ tokenCount'[a] = tokenCount[a] + n
      /\ \A y \in Owners \ {a} : tokenCount'[y] = tokenCount[y]
      /\ tokenCount[a] + n \in 0 .. MaxCount /\ n \in Int
  BY <1>1, <1>2
<1>10. /\ tokenCount' \in [Owners -> 0 .. MaxCount]
       /\ SumFunctionOnSet(tokenCount, Owners) \in Int
       /\ SumFunctionOnSet(tokenCount', Owners) = SumFunctionOnSet(tokenCount, Owners) + n
  BY <1>1, <1>9, CountChanges
<1>11. TokensAccounted'
  <2>1. /\ totalSupply = Cardinality(Alive(tokenOwner))
        /\ Cardinality(InHand(tokenOwner)) <= SumFunctionOnSet(tokenCount, Owners)
    BY AccountedBy DEF TokenIInv
  <2>2. /\ totalSupply' = Cardinality(Alive(tokenOwner'))
        /\ Cardinality(InHand(tokenOwner')) <= SumFunctionOnSet(tokenCount', Owners)
    BY <1>1, <1>2, <1>7, <1>8, <1>10, <2>1
  <2> QED
    BY <2>2 DEF TokensAccounted, Alive, InHand
<1>12. TokenTypeOK'
  <2>1. tokenCounter' \in 0 .. MaxTokens /\ totalSupply' \in Nat
    BY <1>1, <1>2
  <2> QED
    BY <1>2, <1>5, <1>10, <2>1 DEF TokenIInv, TokenInv, TokenTypeOK, crossing, rules
<1>13. RequestsNameTokens'
  BY <1>2 DEF TokenIInv, TokenInv, RequestsNameTokens, crossing
<1> QED
  BY <1>4, <1>11, <1>12, <1>13 DEF TokenIInv, TokenInv

(* A transfer moves one from one count to another, and no owner.           *)
LEMMA TransferAccounts ==
  ASSUME PropertyTokenAssumption, TokenIInv, NEW t \in TokenId, NEW a \in Owners,
         NEW c \in Owners \union Spenders, TransferFrom(c, a, t)
  PROVE  TokenIInv'
<1> DEFINE from == tokenOwner[t]
<1>1. /\ from \in Owners /\ tokenCount[from] > 0 /\ (a # from => tokenCount[a] < MaxCount)
      /\ tokenCount' = [tokenCount EXCEPT ![from] = @ - 1, ![a] = @ + 1]
      /\ approved' = [approved EXCEPT ![t] = Nobody]
      /\ UNCHANGED <<tokenCounter, totalSupply, tokenOwner, crossing, rules>>
  BY DEF TransferFrom
<1>2. tokenCount \in [Owners -> 0 .. MaxCount] /\ MaxCount \in Nat /\ IsFiniteSet(Owners)
  BY DEF TokenIInv, TokenInv, TokenTypeOK, PropertyTokenAssumption
<1> HIDE DEF from
<1>3. /\ tokenCount' \in [Owners -> 0 .. MaxCount]
      /\ from = a => tokenCount'[from] = tokenCount[from]
      /\ from # a => /\ tokenCount'[from] = tokenCount[from] - 1
                     /\ tokenCount'[a] = tokenCount[a] + 1
      /\ \A y \in Owners \ {from, a} : tokenCount'[y] = tokenCount[y]
  BY <1>1, <1>2
<1>4. SumFunctionOnSet(tokenCount', Owners) = SumFunctionOnSet(tokenCount, Owners)
  <2> DEFINE one == 1
  <2>1. /\ (\A y \in Owners : tokenCount[y] \in Int) /\ one \in Int
        /\ from # a => /\ tokenCount'[from] = tokenCount[from] - one
                       /\ tokenCount'[a] = tokenCount[a] + one
    BY <1>2, <1>3
  <2>2. from \in Owners
    BY <1>1
  <2> HIDE DEF one
  <2> QED
    BY <1>2, <1>3, <2>1, <2>2, SumMove
<1>5. TokensAccounted'
  BY <1>1, <1>4 DEF TokenIInv, TokensAccounted
<1>6. TokenTypeOK'
  BY <1>1, <1>3 DEF TokenIInv, TokenInv, TokenTypeOK, crossing, rules
<1>7. UnmintedHaveNoOwner' /\ RequestsNameTokens'
  BY <1>1 DEF TokenIInv, TokenInv, UnmintedHaveNoOwner, RequestsNameTokens, crossing
<1> QED
  BY <1>5, <1>6, <1>7 DEF TokenIInv, TokenInv

(* A quorum gives a token that is somebody's to the zero account, which is *)
(* no owner: none is more, and no count is written.                        *)
LEMMA SignatureAccounts ==
  ASSUME PropertyTokenAssumption, TokenIInv, NEW o \in Operators, NEW r \in TokenRequestId,
         NEW approve \in BOOLEAN, SignTokenRequest(o, r, approve)
  PROVE  TokenIInv'
<1> DEFINE q == bridgeRequest[r]
           signatures == q.signatures \union {o}
           lock == approve /\ Cardinality(signatures) >= q.required
           status == IF ~approve THEN "Failed" ELSE IF lock THEN "Locked" ELSE q.status
<1>1. /\ o \in bridgeOps /\ q.status # "Absent"
      /\ lock => tokenOwner[q.token] # Nobody
      /\ bridgeRequest' = [bridgeRequest EXCEPT ![r].signatures = signatures, ![r].status = status]
      /\ tokenOwner' = IF lock THEN [tokenOwner EXCEPT ![q.token] = Zero] ELSE tokenOwner
      /\ UNCHANGED <<tokenCounter, totalSupply, tokenCount, approved, requestCount,
                     executed, bridged, rules>>
  BY DEF SignTokenRequest
<1>2. /\ TokenTypeOK /\ q \in TokenRequestType /\ q.token \in TokenId /\ q.sender \in Owners
      /\ signatures \subseteq Operators
      /\ status \in {"Absent", "Pending", "Locked", "Completed", "Failed"} /\ status # "Absent"
  BY <1>1 DEF TokenIInv, TokenInv, TokenTypeOK, RequestsNameTokens, TokenRequestType
<1> HIDE DEF signatures, lock, status
<1>3. /\ bridgeRequest' \in [TokenRequestId -> TokenRequestType] /\ RequestsNameTokens'
  <2>1. bridgeRequest \in [TokenRequestId -> TokenRequestType]
    BY <1>2 DEF TokenTypeOK
  <2>2. bridgeRequest' \in [TokenRequestId -> TokenRequestType]
    BY <1>1, <1>2, <2>1 DEF TokenRequestType
  <2>3. \A k \in TokenRequestId :
          /\ bridgeRequest'[k].token = bridgeRequest[k].token
          /\ bridgeRequest'[k].sender = bridgeRequest[k].sender
          /\ bridgeRequest'[k].status # "Absent" => bridgeRequest[k].status # "Absent"
    BY <1>1, <2>1 DEF TokenRequestType
  <2> QED
    BY <2>2, <2>3 DEF TokenIInv, TokenInv, RequestsNameTokens
<1>4. CASE ~lock
  <2>1. tokenOwner' = tokenOwner
    BY <1>1, <1>4
  <2> QED
    BY <1>1, <1>3, <2>1 DEF TokenIInv, TokenInv, TokenTypeOK, TokensAccounted,
       UnmintedHaveNoOwner, rules
<1>5. CASE lock
  <2> DEFINE t == q.token
  <2>1. /\ tokenOwner \in [TokenId -> Owners \union {Zero, Nobody}]
        /\ tokenOwner[t] # Nobody /\ t \in TokenId
        /\ tokenOwner' = [tokenOwner EXCEPT ![t] = Zero]
    BY <1>1, <1>2, <1>5 DEF TokenTypeOK
  <2> HIDE DEF t
  <2>2. /\ tokenOwner' \in [TokenId -> Owners \union {Zero, Nobody}]
        /\ Zero \in Owners \union {Zero, Nobody} /\ Zero # Nobody /\ Zero \notin Owners
        /\ tokenOwner'[t] = Zero /\ \A y \in TokenId \ {t} : tokenOwner'[y] = tokenOwner[y]
    BY <2>1 DEF Zero, Nobody, PropertyTokenAssumption
  <2>3. /\ Cardinality(Alive(tokenOwner')) \in Nat /\ Cardinality(InHand(tokenOwner')) \in Nat
        /\ Cardinality(Alive(tokenOwner)) \in Nat /\ Cardinality(InHand(tokenOwner)) \in Nat
        /\ Cardinality(Alive(tokenOwner')) + (IF tokenOwner[t] # Nobody THEN 1 ELSE 0)
             = Cardinality(Alive(tokenOwner)) + (IF Zero # Nobody THEN 1 ELSE 0)
        /\ Cardinality(InHand(tokenOwner')) + (IF tokenOwner[t] \in Owners THEN 1 ELSE 0)
             = Cardinality(InHand(tokenOwner)) + (IF Zero \in Owners THEN 1 ELSE 0)
    BY <2>1, <2>2, OwnerWritten
  <2>4. /\ Cardinality(Alive(tokenOwner')) = Cardinality(Alive(tokenOwner))
        /\ Cardinality(InHand(tokenOwner')) <= Cardinality(InHand(tokenOwner))
    BY <2>1, <2>2, <2>3
  <2>5. TokensAccounted'
    <3>1. /\ totalSupply = Cardinality(Alive(tokenOwner))
          /\ Cardinality(InHand(tokenOwner)) <= SumFunctionOnSet(tokenCount, Owners)
      BY AccountedBy DEF TokenIInv
    <3>2. SumFunctionOnSet(tokenCount, Owners) \in Int
      <4>1. IsFiniteSet(Owners) /\ \A y \in Owners : tokenCount[y] \in Int
        BY <1>2 DEF TokenTypeOK, PropertyTokenAssumption
      <4> QED
        BY <4>1, SumRemove
    <3>3. /\ totalSupply' = Cardinality(Alive(tokenOwner'))
          /\ Cardinality(InHand(tokenOwner')) <= SumFunctionOnSet(tokenCount', Owners)
      BY <1>1, <2>3, <2>4, <3>1, <3>2
    <3> QED
      BY <3>3 DEF TokensAccounted, Alive, InHand
  <2>6. UnmintedHaveNoOwner'
    BY <1>1, <2>1, <2>2 DEF TokenIInv, TokenInv, UnmintedHaveNoOwner
  <2>7. TokenTypeOK'
    BY <1>1, <1>2, <1>3, <2>2 DEF TokenTypeOK, rules
  <2> QED
    BY <1>3, <2>5, <2>6, <2>7 DEF TokenIInv, TokenInv
<1> QED
  BY <1>4, <1>5

(* A burn takes one from the supply, the owner and the count alike.        *)
LEMMA BurnAccounts ==
  ASSUME PropertyTokenAssumption, TokenIInv, NEW t \in TokenId, BurnBridgedToken(t)
  PROVE  TokenIInv'
<1> DEFINE from == tokenOwner[t]
<1>1. /\ from \in Owners /\ tokenCount[from] > 0
      /\ tokenCount' = [tokenCount EXCEPT ![from] = @ - 1]
      /\ tokenOwner' = [tokenOwner EXCEPT ![t] = Nobody]
      /\ totalSupply' = totalSupply - 1
      /\ bridged' = [bridged EXCEPT ![t] = "Locked"]
      /\ UNCHANGED <<tokenCounter, approved, requestCount, bridgeRequest, executed, rules>>
  BY DEF BurnBridgedToken
<1>2. /\ TokenTypeOK /\ tokenOwner \in [TokenId -> Owners \union {Zero, Nobody}]
      /\ tokenCount \in [Owners -> 0 .. MaxCount] /\ MaxCount \in Nat /\ totalSupply \in Nat
      /\ Nobody \notin Owners
  BY DEF TokenIInv, TokenInv, TokenTypeOK, PropertyTokenAssumption
<1> HIDE DEF from
<1>3. /\ tokenOwner' \in [TokenId -> Owners \union {Zero, Nobody}]
      /\ Nobody \in Owners \union {Zero, Nobody}
      /\ tokenOwner[t] # Nobody /\ tokenOwner[t] \in Owners
      /\ tokenOwner'[t] = Nobody /\ \A y \in TokenId \ {t} : tokenOwner'[y] = tokenOwner[y]
  BY <1>1, <1>2 DEF from
<1>4. /\ Cardinality(Alive(tokenOwner')) \in Nat /\ Cardinality(InHand(tokenOwner')) \in Nat
      /\ Cardinality(Alive(tokenOwner)) \in Nat /\ Cardinality(InHand(tokenOwner)) \in Nat
      /\ Cardinality(Alive(tokenOwner')) + (IF tokenOwner[t] # Nobody THEN 1 ELSE 0)
           = Cardinality(Alive(tokenOwner)) + (IF Nobody # Nobody THEN 1 ELSE 0)
      /\ Cardinality(InHand(tokenOwner')) + (IF tokenOwner[t] \in Owners THEN 1 ELSE 0)
           = Cardinality(InHand(tokenOwner)) + (IF Nobody \in Owners THEN 1 ELSE 0)
  BY <1>2, <1>3, OwnerWritten
<1>5. /\ Cardinality(Alive(tokenOwner')) = Cardinality(Alive(tokenOwner)) - 1
      /\ Cardinality(InHand(tokenOwner')) = Cardinality(InHand(tokenOwner)) - 1
  BY <1>2, <1>3, <1>4
<1> DEFINE less == -1
<1>6. /\ tokenCount' \in [Owners -> Int] /\ tokenCount'[from] = tokenCount[from] + less
      /\ \A y \in Owners \ {from} : tokenCount'[y] = tokenCount[y]
      /\ tokenCount[from] + less \in 0 .. MaxCount /\ less \in Int
  BY <1>1, <1>2
<1>7. less = -1
  OBVIOUS
<1> HIDE DEF less
<1>8. /\ tokenCount' \in [Owners -> 0 .. MaxCount]
      /\ SumFunctionOnSet(tokenCount, Owners) \in Int
      /\ SumFunctionOnSet(tokenCount', Owners) = SumFunctionOnSet(tokenCount, Owners) + less
  BY <1>1, <1>2, <1>6, CountChanges
<1>9. TokensAccounted' /\ totalSupply' \in Nat
  <2>1. /\ totalSupply = Cardinality(Alive(tokenOwner))
        /\ Cardinality(InHand(tokenOwner)) <= SumFunctionOnSet(tokenCount, Owners)
    BY AccountedBy DEF TokenIInv
  <2>2. /\ totalSupply' = Cardinality(Alive(tokenOwner'))
        /\ Cardinality(InHand(tokenOwner')) <= SumFunctionOnSet(tokenCount', Owners)
    BY <1>1, <1>4, <1>5, <1>7, <1>8, <2>1
  <2> QED
    BY <1>4, <2>2 DEF TokensAccounted, Alive, InHand
<1>10. UnmintedHaveNoOwner' /\ RequestsNameTokens'
  BY <1>1, <1>3 DEF TokenIInv, TokenInv, UnmintedHaveNoOwner, RequestsNameTokens
<1>11. TokenTypeOK'
  BY <1>1, <1>2, <1>3, <1>8, <1>9 DEF TokenTypeOK, rules
<1> QED
  BY <1>9, <1>10, <1>11 DEF TokenIInv, TokenInv

(* A recovery gives a locked token an owner, who is counted for it.        *)
LEMMA RecoveryAccounts ==
  ASSUME PropertyTokenAssumption, TokenIInv, NEW r \in TokenRequestId, RecoverLockedToken(r)
  PROVE  TokenIInv'
<1> DEFINE t == bridgeRequest[r].token
           a == bridgeRequest[r].sender
<1>1. /\ bridgeRequest[r].status \in {"Failed", "Expired"}
      /\ tokenOwner[t] = Zero /\ tokenCount[a] < MaxCount
      /\ tokenOwner' = [tokenOwner EXCEPT ![t] = a]
      /\ tokenCount' = [tokenCount EXCEPT ![a] = @ + 1]
      /\ bridgeRequest' = [bridgeRequest EXCEPT ![r].status = "Failed"]
      /\ UNCHANGED <<tokenCounter, totalSupply, approved, requestCount, executed, bridged, rules>>
  BY DEF RecoverLockedToken, Recoverable
<1>2. /\ TokenTypeOK /\ tokenOwner \in [TokenId -> Owners \union {Zero, Nobody}]
      /\ tokenCount \in [Owners -> 0 .. MaxCount] /\ MaxCount \in Nat /\ totalSupply \in Nat
      /\ bridgeRequest \in [TokenRequestId -> TokenRequestType]
      /\ Nobody \notin Owners /\ Zero \notin Owners /\ Zero # Nobody
  BY DEF TokenIInv, TokenInv, TokenTypeOK, PropertyTokenAssumption, Zero, Nobody
<1>3. t \in TokenId /\ a \in Owners /\ a # Nobody
  BY <1>1, <1>2 DEF TokenIInv, TokenInv, RequestsNameTokens
<1>4. bridgeRequest' \in [TokenRequestId -> TokenRequestType] /\ RequestsNameTokens'
  <2>1. bridgeRequest' \in [TokenRequestId -> TokenRequestType]
    BY <1>1, <1>2 DEF TokenRequestType
  <2>2. \A k \in TokenRequestId :
          /\ bridgeRequest'[k].token = bridgeRequest[k].token
          /\ bridgeRequest'[k].sender = bridgeRequest[k].sender
          /\ bridgeRequest'[k].status # "Absent" => bridgeRequest[k].status # "Absent"
    BY <1>1, <1>2 DEF TokenRequestType
  <2> QED
    BY <2>1, <2>2 DEF TokenIInv, TokenInv, RequestsNameTokens
<1> HIDE DEF t, a
<1>5. /\ tokenOwner' \in [TokenId -> Owners \union {Zero, Nobody}]
      /\ a \in Owners \union {Zero, Nobody}
      /\ tokenOwner[t] # Nobody /\ tokenOwner[t] \notin Owners
      /\ tokenOwner'[t] = a /\ \A y \in TokenId \ {t} : tokenOwner'[y] = tokenOwner[y]
  BY <1>1, <1>2, <1>3
<1>6. /\ Cardinality(Alive(tokenOwner')) \in Nat /\ Cardinality(InHand(tokenOwner')) \in Nat
      /\ Cardinality(Alive(tokenOwner)) \in Nat /\ Cardinality(InHand(tokenOwner)) \in Nat
      /\ Cardinality(Alive(tokenOwner')) + (IF tokenOwner[t] # Nobody THEN 1 ELSE 0)
           = Cardinality(Alive(tokenOwner)) + (IF a # Nobody THEN 1 ELSE 0)
      /\ Cardinality(InHand(tokenOwner')) + (IF tokenOwner[t] \in Owners THEN 1 ELSE 0)
           = Cardinality(InHand(tokenOwner)) + (IF a \in Owners THEN 1 ELSE 0)
  BY <1>2, <1>3, <1>5, OwnerWritten
<1>7. /\ Cardinality(Alive(tokenOwner')) = Cardinality(Alive(tokenOwner))
      /\ Cardinality(InHand(tokenOwner')) = Cardinality(InHand(tokenOwner)) + 1
  BY <1>3, <1>5, <1>6
<1>8. /\ tokenCount' \in [Owners -> Int] /\ tokenCount'[a] = tokenCount[a] + 1
      /\ \A y \in Owners \ {a} : tokenCount'[y] = tokenCount[y]
      /\ tokenCount[a] + 1 \in 0 .. MaxCount /\ 1 \in Int
  BY <1>1, <1>2, <1>3
<1>9. /\ tokenCount' \in [Owners -> 0 .. MaxCount]
      /\ SumFunctionOnSet(tokenCount, Owners) \in Int
      /\ SumFunctionOnSet(tokenCount', Owners) = SumFunctionOnSet(tokenCount, Owners) + 1
  BY <1>2, <1>3, <1>8, CountChanges
<1>10. TokensAccounted'
  <2>1. /\ totalSupply = Cardinality(Alive(tokenOwner))
        /\ Cardinality(InHand(tokenOwner)) <= SumFunctionOnSet(tokenCount, Owners)
    BY AccountedBy DEF TokenIInv
  <2>2. /\ totalSupply' = Cardinality(Alive(tokenOwner'))
        /\ Cardinality(InHand(tokenOwner')) <= SumFunctionOnSet(tokenCount', Owners)
    BY <1>1, <1>6, <1>7, <1>9, <2>1
  <2> QED
    BY <2>2 DEF TokensAccounted, Alive, InHand
<1>11. UnmintedHaveNoOwner'
  BY <1>1, <1>5 DEF TokenIInv, TokenInv, UnmintedHaveNoOwner
<1>12. TokenTypeOK'
  BY <1>1, <1>2, <1>4, <1>5, <1>9 DEF TokenTypeOK, rules
<1> QED
  BY <1>4, <1>10, <1>11, <1>12 DEF TokenIInv, TokenInv

(* The messages that write requests and no owner keep the requests sound.  *)
LEMMA RequestsKeepInv ==
  ASSUME PropertyTokenAssumption, TokenIInv,
         \/ \E t \in TokenId, n \in MinTokenSignatures .. MaxTokenSignatures,
               timeout \in TokenTimeouts : InitiateTokenBridge(t, n, timeout)
         \/ \E r \in TokenRequestId : ExecuteTokenBridge(r) \/ RetryBridge(r)
  PROVE  TokenIInv'
<1>1. /\ TokenTypeOK /\ bridgeRequest \in [TokenRequestId -> TokenRequestType]
      /\ RequestsNameTokens /\ requestCount \in Nat /\ block \in Nat
  BY DEF TokenIInv, TokenInv, TokenTypeOK, PropertyTokenAssumption
<1>2. UNCHANGED <<ownership, rules>>
  BY DEF InitiateTokenBridge, ExecuteTokenBridge, RetryBridge
<1>3. UnmintedHaveNoOwner' /\ TokensAccounted'
  BY <1>2 DEF TokenIInv, TokenInv, UnmintedHaveNoOwner, TokensAccounted, ownership
<1>4. SUFFICES /\ bridgeRequest' \in [TokenRequestId -> TokenRequestType] /\ RequestsNameTokens'
               /\ requestCount' \in 0 .. MaxTokenRequests /\ executed' \subseteq TokenRequestId
               /\ bridged' \in [TokenId -> {"Absent", "InTransit", "Completed", "Locked"}]
  BY <1>1, <1>2, <1>3 DEF TokenIInv, TokenInv, TokenTypeOK, ownership, rules
<1>5. ASSUME NEW t \in TokenId, NEW n \in MinTokenSignatures .. MaxTokenSignatures,
             NEW timeout \in TokenTimeouts, InitiateTokenBridge(t, n, timeout)
      PROVE  /\ bridgeRequest' \in [TokenRequestId -> TokenRequestType] /\ RequestsNameTokens'
             /\ requestCount' \in 0 .. MaxTokenRequests /\ executed' \subseteq TokenRequestId
             /\ bridged' \in [TokenId -> {"Absent", "InTransit", "Completed", "Locked"}]
  <2> DEFINE ends == IF timeout = NoTokenTimeout THEN NoTokenTimeout ELSE block + timeout
             new == [token |-> t, sender |-> tokenOwner[t], required |-> n, signatures |-> {},
                     expires |-> ends, status |-> "Pending"]
  <2>1. /\ tokenOwner[t] \in Owners /\ requestCount < MaxTokenRequests
        /\ requestCount' = requestCount + 1
        /\ bridgeRequest' = [bridgeRequest EXCEPT ![requestCount + 1] = new]
        /\ UNCHANGED <<executed, bridged>>
    BY <1>5 DEF InitiateTokenBridge
  <2>2. requestCount + 1 \in TokenRequestId /\ requestCount + 1 \in 0 .. MaxTokenRequests
    BY <1>1, <2>1 DEF TokenRequestId, PropertyTokenAssumption
  <2>3. ends \in Nat \union {NoTokenTimeout} /\ n \in Nat /\ t \in 0 .. MaxTokens
    BY <1>1 DEF PropertyTokenAssumption, TokenId
  <2>4. new \in TokenRequestType
    BY <2>1, <2>3 DEF TokenRequestType
  <2>5. new.token \in TokenId /\ new.sender \in Owners
    BY <2>1
  <2> HIDE DEF new
  <2>6. bridgeRequest' \in [TokenRequestId -> TokenRequestType] /\ RequestsNameTokens'
    BY <1>1, <2>1, <2>4, <2>5 DEF RequestsNameTokens
  <2> QED
    BY <1>1, <2>1, <2>2, <2>6 DEF TokenTypeOK
<1>6. ASSUME NEW r \in TokenRequestId, ExecuteTokenBridge(r)
      PROVE  /\ bridgeRequest' \in [TokenRequestId -> TokenRequestType] /\ RequestsNameTokens'
             /\ requestCount' \in 0 .. MaxTokenRequests /\ executed' \subseteq TokenRequestId
             /\ bridged' \in [TokenId -> {"Absent", "InTransit", "Completed", "Locked"}]
  <2>1. /\ bridgeRequest[r].status = "Locked"
        /\ bridgeRequest' = [bridgeRequest EXCEPT ![r].status = "Completed"]
        /\ executed' = executed \union {r} /\ requestCount' = requestCount
        /\ bridged' = [bridged EXCEPT ![bridgeRequest[r].token] = "InTransit"]
    BY <1>6 DEF ExecuteTokenBridge
  <2>2. bridgeRequest' \in [TokenRequestId -> TokenRequestType]
    BY <1>1, <2>1 DEF TokenRequestType
  <2>3. RequestsNameTokens'
    BY <1>1, <2>1 DEF RequestsNameTokens, TokenRequestType
  <2> QED
    BY <1>1, <2>1, <2>2, <2>3 DEF TokenTypeOK
<1>7. ASSUME NEW r \in TokenRequestId, RetryBridge(r)
      PROVE  /\ bridgeRequest' \in [TokenRequestId -> TokenRequestType] /\ RequestsNameTokens'
             /\ requestCount' \in 0 .. MaxTokenRequests /\ executed' \subseteq TokenRequestId
             /\ bridged' \in [TokenId -> {"Absent", "InTransit", "Completed", "Locked"}]
  <2>1. /\ bridgeRequest[r].status \in {"Failed", "Expired"}
        /\ bridgeRequest' = [bridgeRequest EXCEPT ![r].status = "Pending", ![r].signatures = {}]
        /\ UNCHANGED <<requestCount, executed, bridged>>
    BY <1>7 DEF RetryBridge, Recoverable
  <2>2. bridgeRequest' \in [TokenRequestId -> TokenRequestType]
    BY <1>1, <2>1 DEF TokenRequestType
  <2>3. RequestsNameTokens'
    BY <1>1, <2>1 DEF RequestsNameTokens, TokenRequestType
  <2> QED
    BY <1>1, <2>1, <2>2, <2>3 DEF TokenTypeOK
<1> QED
  BY <1>5, <1>6, <1>7

(* Every message keeps what is said of tokens, owners and requests.        *)
LEMMA TokenStep == PropertyTokenAssumption /\ TokenIInv /\ [TokenNext]_tokenVars => TokenIInv'
<1> SUFFICES ASSUME PropertyTokenAssumption, TokenIInv, [TokenNext]_tokenVars PROVE TokenIInv'
  OBVIOUS
<1>1. ASSUME NEW a \in Owners, RegisterPropertyWithToken(a) PROVE TokenIInv'
  <2>1. Mint(a) /\ UNCHANGED <<crossing, rules>>
    BY <1>1 DEF RegisterPropertyWithToken
  <2> QED
    BY <2>1, MintAccounts DEF TokenIInv, TokenInv, TokenTypeOK, RequestsNameTokens, crossing, rules
<1>2. ASSUME NEW a \in Owners, NEW original \in 0 .. MaxTokens, ReceiveBridgedToken(a, original)
      PROVE  TokenIInv'
  <2>1. /\ Mint(a) /\ compliant' = compliant \union {tokenCounter + 1}
        /\ bridged' = [t \in TokenId |->
             IF t = original /\ bridged[t] # "Absent" THEN "Completed" ELSE bridged[t]]
        /\ UNCHANGED <<requestCount, bridgeRequest, executed, block, tokenPaused, bridgeOps>>
    BY <1>2 DEF ReceiveBridgedToken
  <2>2. tokenCounter + 1 \in TokenId
    BY <2>1, MintAccounts
  <2> QED
    BY <2>1, <2>2, MintAccounts DEF TokenIInv, TokenInv, TokenTypeOK, RequestsNameTokens
<1>3. ASSUME \/ \E t \in TokenId :
                  \/ \E b \in BOOLEAN : VerifyCompliance(t, b)
                  \/ \E s \in Spenders : Approve(t, s)
             \/ \E b \in BOOLEAN : SetEmergencyPause(b)
             \/ \E o \in Operators : AddBridgeOperator(o) \/ RemoveBridgeOperator(o)
             \/ NextBlock
             \/ UNCHANGED tokenVars
      PROVE  TokenIInv'
  <2>1. UNCHANGED <<tokenCounter, totalSupply, tokenOwner, tokenCount, crossing>>
    BY <1>3 DEF VerifyCompliance, Approve, SetEmergencyPause, AddBridgeOperator,
       RemoveBridgeOperator, NextBlock, tokenVars, ownership
  <2>2. TokenTypeOK /\ MaxBlock \in Nat
    BY DEF TokenIInv, TokenInv, PropertyTokenAssumption
  <2>3. approved' \in [TokenId -> Spenders \union {Nobody}]
    BY <1>3, <2>2 DEF TokenTypeOK, VerifyCompliance, Approve, SetEmergencyPause, AddBridgeOperator,
       RemoveBridgeOperator, NextBlock, tokenVars, ownership
  <2>4. compliant' \subseteq TokenId /\ tokenPaused' \in BOOLEAN /\ bridgeOps' \subseteq Operators
    BY <1>3, <2>2 DEF TokenTypeOK, VerifyCompliance, Approve, SetEmergencyPause, AddBridgeOperator,
       RemoveBridgeOperator, NextBlock, tokenVars, rules
  <2>5. block' \in 0 .. MaxBlock
    BY <1>3, <2>2 DEF TokenTypeOK, VerifyCompliance, Approve, SetEmergencyPause, AddBridgeOperator,
       RemoveBridgeOperator, NextBlock, tokenVars, rules
  <2>6. TokenTypeOK'
    BY <2>1, <2>2, <2>3, <2>4, <2>5 DEF TokenTypeOK, crossing
  <2> QED
    BY <2>1, <2>6 DEF TokenIInv, TokenInv, TokensAccounted, UnmintedHaveNoOwner,
       RequestsNameTokens, crossing
<1> QED
  BY <1>1, <1>2, <1>3, BatchAccounts, TransferAccounts, SignatureAccounts, BurnAccounts,
     RecoveryAccounts, RequestsKeepInv DEF TokenNext

(* The supply is the number of tokens that exist, and the accounts are     *)
(* counted for no fewer tokens than they own together, through transfers   *)
(* that move no owner, locks, rejections, retries, recoveries and burns.   *)
THEOREM TokensAreAccounted ==
  ASSUME PropertyTokenAssumption PROVE TokenSpec => [](TokenTypeOK /\ TokensAccounted)
<1>1. TokenInit => TokenIInv
  BY InitToken
<1>2. TokenIInv /\ [TokenNext]_tokenVars => TokenIInv'
  BY TokenStep
<1>3. TokenIInv => TokenTypeOK /\ TokensAccounted
  BY DEF TokenIInv, TokenInv
<1> QED
  BY <1>1, <1>2, <1>3, PTL DEF TokenSpec

-----------------------------------------------------------------------------
(* What holds property, side by side, as TLC explores it.                  *)

(* Every step is one of each contract, or lets it rest.                    *)
LEMMA StepsOfEach ==
  [MCNext]_allVars => [Next]_vars /\ [BridgeNext]_bridgeVars
                        /\ [SharesNext]_sharesVars /\ [TokenNext]_tokenVars
BY DEF MCNext, allVars, escrowVars

(* What TLC explores of the contracts together are behaviours of each: the *)
(* groups of operations it looks at one at a time are within them.         *)
THEOREM EachIsItsOwn == MCSpec => Spec /\ BridgeSpec /\ SharesSpec /\ TokenSpec
<1>1. MCInit => Init /\ BridgeInit /\ SharesInit /\ TokenInit
  BY DEF MCInit
<1> QED
  BY <1>1, StepsOfEach, PTL DEF MCSpec, Spec, BridgeSpec, SharesSpec, TokenSpec

(* The storage of every contract keeps its type, for any accounts,         *)
(* amounts, prices, thresholds and bounds the contracts allow.             *)
THEOREM StorageTypeCorrect == ASSUME CustodyAssumption PROVE MCSpec => []StorageTypeOK
<1>1. IInv => TypeOK
  BY DEF IInv
<1>2. MCSpec => [](TypeOK /\ BridgeTypeOK)
  BY EachIsItsOwn, Invariance, TypeCorrect, <1>1, PTL DEF CustodyAssumption
<1>3. MCSpec => [](SharesTypeOK /\ TokenTypeOK)
  BY EachIsItsOwn, SharesTypeCorrect, TokensAreAccounted, PTL DEF CustodyAssumption
<1> QED
  BY <1>2, <1>3, PTL DEF StorageTypeOK
=============================================================================
