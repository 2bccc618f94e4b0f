--------------------------- MODULE PropertyShares ---------------------------
(***************************************************************************)
(* The fractional shares of one property token in the ink! property token  *)
(* contract (contracts/property-token/src/lib.rs): issue and redemption,   *)
(* dividends, the share market and the holders' votes, and what becomes of *)
(* the shares when the token itself is bridged, recovered or burned.  Who  *)
(* owns the token never changes: transfer_from moves a count only, and     *)
(* recovery returns a locked token to the owner who had asked to bridge it.*)
(*                                                                         *)
(* One action is one message; a message that returns Err is reverted.  A   *)
(* holder's approved operator acts in the holder's name.  The compliance   *)
(* registry may refuse any transfer or purchase: a refusal is a message    *)
(* that does nothing.  Statistics that no message reads back (tax records  *)
(* of sales, last trade price) are left out; amounts stay far below 2^128. *)
(***************************************************************************)
EXTENDS Integers, FiniteSetsExt

CONSTANTS Holders,      \* accounts that may own the token or shares
          ShareAmounts, \* amounts of shares a caller may pass
          Dividends,    \* values transferred with deposit_dividends
          Prices,       \* prices per share
          Quorums,
          SCALING,      \* 10^12 in the code
          MaxShares, MaxPerShare, MaxProposals, \* bounds
          MaxOutstanding \* bound: shares outstanding, the unit of the token among them

(* What is assumed of the constants.                                       *)
PropertySharesAssumption ==
  /\ IsFiniteSet(Holders)
  /\ ShareAmounts \subseteq Nat \ {0} /\ Dividends \subseteq Nat \ {0}
  /\ Prices \subseteq Nat \ {0} /\ Quorums \subseteq Nat
  /\ SCALING \in Nat \ {0}
  /\ {MaxShares, MaxPerShare, MaxProposals} \subseteq Nat
  /\ MaxOutstanding \in Nat \ {0}

VARIABLES owner,       \* token_owner, while the token is held
          token,       \* Held by its owner, Locked (the zero account) or Burned
          balance,     \* balances(account, token)
          totalShares, \* total_shares
          escrowed,    \* escrowed_shares
          ask,         \* asks: price and amount, NoAsk if there is none
          dps,         \* dividends_per_share, times SCALING
          credit,      \* dividend_credit
          owed,        \* dividend_balance
          received,    \* tax_records: dividends_received
          fund,        \* native balance of the contract
          proposal,    \* proposals, by id
          voted        \* votes_cast

shares == <<balance, totalShares, escrowed, ask>>
dividends == <<dps, credit, owed, received, fund>>
votes == <<proposal, voted>>
tokenState == <<owner, token>>
sharesVars == <<tokenState, shares, dividends, votes>>

NoAsk == [price |-> 0, amount |-> 0]
NoProposal == [status |-> "Absent", quorum |-> 0, for |-> 0, against |-> 0]
ProposalId == 1 .. MaxProposals

(* register_property_with_token gives its caller the token and a balance   *)
(* of one, which total_shares does not count.                              *)
SharesInit ==
  /\ owner \in Holders /\ token = "Held"
  /\ balance = [h \in Holders |-> IF h = owner THEN 1 ELSE 0]
  /\ totalShares = 0
  /\ escrowed = [h \in Holders |-> 0]
  /\ ask = [h \in Holders |-> NoAsk]
  /\ dps = 0
  /\ credit = [h \in Holders |-> 0]
  /\ owed = [h \in Holders |-> 0]
  /\ received = [h \in Holders |-> 0]
  /\ fund = 0
  /\ proposal = [i \in ProposalId |-> NoProposal]
  /\ voted = {}

-----------------------------------------------------------------------------
(* Shares that exist, with their holders or in escrow.                     *)
Outstanding == SumFunctionOnSet([h \in Holders |-> balance[h] + escrowed[h]], Holders)

LowerBy(a, b) == IF a <= b THEN 0 ELSE a - b

(* update_dividend_credit_on_change for an account with `held' shares.     *)
Accrued(h, held) ==
  IF dps > credit[h] THEN (held * (dps - credit[h])) \div SCALING ELSE 0

(* Mutant: what was accrued is written down, and that it was is not.       *)
CreditUnmoved(h) == credit[h]

CreditMoved(h) == IF dps > credit[h] THEN dps ELSE credit[h]

Synced(h, held) == /\ owed' = [owed EXCEPT ![h] = @ + Accrued(h, held)]
                   /\ credit' = [credit EXCEPT ![h] = CreditMoved(h)]
                   /\ UNCHANGED <<dps, received, fund>>

(* The dividends are synced when the shares were already issued, or gone.  *)
IssueShares(h, n) ==
  /\ token # "Burned"
  /\ totalShares + n <= MaxShares
  /\ balance' = [balance EXCEPT ![h] = @ + n]
  /\ totalShares' = totalShares + n
  /\ Synced(h, balance[h] + n)
  /\ UNCHANGED <<tokenState, escrowed, ask, votes>>
  /\ Outstanding' <= MaxOutstanding

RedeemShares(h, n) ==
  /\ balance[h] >= n
  /\ balance' = [balance EXCEPT ![h] = @ - n]
  /\ totalShares' = LowerBy(totalShares, n)
  /\ Synced(h, balance[h] - n)
  /\ UNCHANGED <<tokenState, escrowed, ask, votes>>

Moved(from, to, n) == [balance EXCEPT ![from] = @ - n, ![to] = @ + n]

TransferShares(from, to, n) ==
  /\ balance[from] >= n
  /\ owed' = [h \in Holders |->
       IF h \in {from, to} THEN owed[h] + Accrued(h, balance[h]) ELSE owed[h]]
  /\ credit' = [h \in Holders |-> IF h \in {from, to} THEN CreditMoved(h) ELSE credit[h]]
  /\ balance' = Moved(from, to, n)
  /\ UNCHANGED <<tokenState, totalShares, escrowed, ask, dps, received, fund, votes>>

(* A batch names this token once or several times: n is what it moves in   *)
(* all.  Neither dividends nor compliance are looked at.                   *)
SafeBatchTransferFrom(from, to, n) ==
  /\ balance[from] >= n
  /\ balance' = Moved(from, to, n)
  /\ UNCHANGED <<tokenState, totalShares, escrowed, ask, dividends, votes>>

-----------------------------------------------------------------------------
(* Dividends.                                                              *)
DepositDividends(value) ==
  /\ totalShares > 0
  /\ dps' = dps + (value * SCALING) \div totalShares
  /\ dps' <= MaxPerShare
  /\ fund' = fund + value
  /\ UNCHANGED <<tokenState, shares, credit, owed, received, votes>>

WithdrawDividends(h) ==
  LET due == owed[h] + Accrued(h, balance[h])
  IN /\ due <= fund
     /\ owed' = [owed EXCEPT ![h] = 0]
     /\ credit' = [credit EXCEPT ![h] = CreditMoved(h)]
     /\ received' = [received EXCEPT ![h] = @ + due]
     /\ fund' = fund - due
     /\ UNCHANGED <<tokenState, shares, dps, votes>>

-----------------------------------------------------------------------------
(* The share market.  A second ask takes the place of the first, and the   *)
(* shares of both are in escrow.                                           *)
PlaceAsk(h, price, n) ==
  /\ balance[h] >= n
  /\ escrowed' = [escrowed EXCEPT ![h] = @ + n]
  /\ balance' = [balance EXCEPT ![h] = @ - n]
  /\ ask' = [ask EXCEPT ![h] = [price |-> price, amount |-> n]]
  /\ UNCHANGED <<tokenState, totalShares, dividends, votes>>

(* Mutant: the shares go back and the offer stands.                        *)
AskKept(h) == ask

AskRemoved(h) == [ask EXCEPT ![h] = NoAsk]

CancelAsk(h) ==
  /\ ask[h] # NoAsk
  /\ balance' = [balance EXCEPT ![h] = @ + escrowed[h]]
  /\ escrowed' = [escrowed EXCEPT ![h] = 0]
  /\ ask' = AskRemoved(h)
  /\ UNCHANGED <<tokenState, totalShares, dividends, votes>>

(* Mutant: what was sold stays in escrow.                                  *)
EscrowUnsold(seller, n) == escrowed

EscrowSold(seller, n) == [escrowed EXCEPT ![seller] = @ - n]

(* The price is paid to the seller in the same message.                    *)
BuyShares(buyer, seller, n) ==
  /\ ask[seller] # NoAsk
  /\ n <= ask[seller].amount
  /\ escrowed[seller] >= n
  /\ balance' = [balance EXCEPT ![buyer] = @ + n]
  /\ escrowed' = EscrowSold(seller, n)
  /\ ask' = IF ask[seller].amount = n THEN AskRemoved(seller)
            ELSE [ask EXCEPT ![seller].amount = @ - n]
  /\ UNCHANGED <<tokenState, totalShares, dividends, votes>>

-----------------------------------------------------------------------------
(* Votes of the shareholders, weighed by what each has when it votes.      *)
CreateProposal(i, quorum) ==
  /\ token # "Burned"
  /\ proposal[i] = NoProposal
  /\ \A j \in ProposalId : j < i => proposal[j] # NoProposal
  /\ proposal' = [proposal EXCEPT ![i] =
       [status |-> "Open", quorum |-> quorum, for |-> 0, against |-> 0]]
  /\ UNCHANGED <<tokenState, shares, dividends, voted>>

Vote(h, i, support) ==
  /\ proposal[i].status = "Open"
  /\ <<i, h>> \notin voted
  /\ proposal' = IF support THEN [proposal EXCEPT ![i].for = @ + balance[h]]
                 ELSE [proposal EXCEPT ![i].against = @ + balance[h]]
  /\ voted' = voted \union {<<i, h>>}
  /\ UNCHANGED <<tokenState, shares, dividends>>

Passed(p) == p.for >= p.quorum /\ p.for > p.against

ExecuteProposal(i) ==
  /\ proposal[i].status = "Open"
  /\ proposal' = [proposal EXCEPT ![i].status =
       IF Passed(proposal[i]) THEN "Executed" ELSE "Rejected"]
  /\ UNCHANGED <<tokenState, shares, dividends, voted>>

-----------------------------------------------------------------------------
(* The token itself, whose unit is kept in the same balances: a lock and a *)
(* burn clear the owner's, recovery sets it to one, whatever it is by then.*)
TokenLeaves(status) ==
  /\ token = "Held"
  /\ token' = status
  /\ balance' = [balance EXCEPT ![owner] = 0]
  /\ UNCHANGED <<owner, totalShares, escrowed, ask, dividends, votes>>

LockToken == TokenLeaves("Locked")

BurnToken == TokenLeaves("Burned")

RecoverToken ==
  /\ token = "Locked"
  /\ token' = "Held"
  /\ balance' = [balance EXCEPT ![owner] = 1]
  /\ UNCHANGED <<owner, totalShares, escrowed, ask, dividends, votes>>
  /\ Outstanding' <= MaxOutstanding

SharesNext ==
  \/ \E h \in Holders, n \in ShareAmounts :
       \/ IssueShares(h, n) \/ RedeemShares(h, n)
       \/ \E price \in Prices : PlaceAsk(h, price, n)
       \/ \E g \in Holders :
            TransferShares(h, g, n) \/ SafeBatchTransferFrom(h, g, n) \/ BuyShares(h, g, n)
  \/ \E h \in Holders : WithdrawDividends(h) \/ CancelAsk(h)
  \/ \E v \in Dividends : DepositDividends(v)
  \/ \E i \in ProposalId :
       \/ \E q \in Quorums : CreateProposal(i, q)
       \/ \E h \in Holders, s \in BOOLEAN : Vote(h, i, s)
       \/ ExecuteProposal(i)
  \/ LockToken \/ RecoverToken \/ BurnToken

SharesSpec == SharesInit /\ [][SharesNext]_sharesVars

-----------------------------------------------------------------------------
SharesTypeOK ==
  /\ owner \in Holders /\ token \in {"Held", "Locked", "Burned"}
  /\ balance \in [Holders -> Nat]
  /\ totalShares \in Nat
  /\ escrowed \in [Holders -> Nat]
  /\ ask \in [Holders -> [price : Nat, amount : Nat]]
  /\ dps \in Nat
  /\ credit \in [Holders -> Nat]
  /\ owed \in [Holders -> Nat]
  /\ received \in [Holders -> Nat]
  /\ fund \in Nat
  /\ proposal \in [ProposalId -> [status : {"Absent", "Open", "Executed", "Rejected"},
       quorum : Nat, for : Nat, against : Nat]]
  /\ voted \subseteq ProposalId \X Holders

(* "Escrow shares and list them for sale": whatever is offered is in       *)
(* escrow, through second asks, partial sales and cancellations.           *)
AskCovered == \A h \in Holders : ask[h].amount <= escrowed[h]

(* Trading creates and destroys no share: shares outstanding change only   *)
(* when total_shares does, when the token itself moves into or out of the  *)
(* bridge, or when the uncounted first unit is redeemed.                   *)
SharesMoveInFull ==
  [][Outstanding' # Outstanding =>
       totalShares' # totalShares \/ token' # token \/ totalShares = 0]_sharesVars

(* No deposit is credited twice to one account: all it was ever credited   *)
(* is within what all the shares earn on the deposits it has synced.       *)
DividendsCreditedOnce ==
  \A h \in Holders : (received[h] + owed[h]) * SCALING <= MaxOutstanding * credit[h]

=============================================================================
