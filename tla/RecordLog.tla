------------------------------ MODULE RecordLog ------------------------------
(* What a capped history should hold of the log of everything recorded.    *)
EXTENDS Integers, Sequences

(* The last `cap' records of a log: all of them while there are no more.   *)
Latest(log, cap) ==
  IF Len(log) <= cap THEN log ELSE SubSeq(log, Len(log) - cap + 1, Len(log))
=============================================================================
