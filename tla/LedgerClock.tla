----------------------------- MODULE LedgerClock -----------------------------
(* The timestamp of the ledger, or of the block, which the contracts read  *)
(* and no contract writes: all transactions of one ledger see the same     *)
(* time.                                                                   *)
EXTENDS Integers

CONSTANT MaxTime  \* bound: the last instant of the ledger clock

VARIABLE now      \* env.ledger().timestamp(), self.env().block_timestamp()

ClockInit == now = 0
ClockTicks == now < MaxTime /\ now' = now + 1
=============================================================================
