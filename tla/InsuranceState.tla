---------------------------- MODULE InsuranceState ----------------------------
(* What every side of the ink! insurance contract reads: the block         *)
(* timestamp, the pause flag and the arithmetic of its unsigned amounts.   *)
EXTENDS Integers

CONSTANTS BPS,     \* 10 000 in the code: basis points in a whole
          MaxTime  \* bound: the last block timestamp

VARIABLES now,     \* block timestamp
          paused   \* is_paused

BlockTime == now < MaxTime /\ now' = now + 1

Least(a, b) == IF a <= b THEN a ELSE b    \* min
Monus(a, b) == IF a <= b THEN 0 ELSE a - b  \* saturating_sub
=============================================================================
