------------------------------- MODULE Policy -------------------------------
(***************************************************************************)
(* The Soroban policy contract (contracts/policy/src/lib.rs).              *)
(*                                                                         *)
(* The admin issues policies; a holder renews or cancels one; anybody may  *)
(* expire one.  Time is counted in days, the unit of duration_days: the    *)
(* seconds of a day are not told apart.  duration_days is a u32 and the    *)
(* release profile does not check overflow, so it wraps at U32.            *)
(***************************************************************************)
EXTENDS LedgerClock

CONSTANTS Policyholders, \* accounts that are insured
          MaxPolicies,  \* bound: policies issued
          Coverages,    \* coverage amounts the admin gives
          Durations,    \* duration_days a caller may pass
          U32           \* 2^32 in the code: the width of duration_days

(* What is assumed of the constants.                                       *)
PolicyAssumption ==
  /\ MaxPolicies \in Nat
  /\ Coverages \subseteq Int
  /\ U32 \in Nat \ {0}
  /\ Durations \subseteq 0 .. U32 - 1
  /\ MaxTime \in Nat

VARIABLES policyCounter,  \* PolicyCounter
          policy          \* Policy(id)

policyVars == <<policyCounter, policy>>
policyClockVars == <<now, policyVars>>

PolicyId == 1 .. MaxPolicies
NoUser == "nobody"
NoPolicy == [holder |-> NoUser, coverage |-> 0, start |-> 0, duration |-> 0,
             status |-> "Absent"]

PolicyInit == policyCounter = 0 /\ policy = [id \in PolicyId |-> NoPolicy]

PolicyExists(id) == id \in PolicyId /\ policy[id].status # "Absent"
Expiry(id) == policy[id].start + policy[id].duration
InForce(id) == policy[id].status \in {"Active", "Renewed"}

(* is_active, which the claims contract calls.                             *)
IsActive(id) == InForce(id) /\ now <= Expiry(id)

SetStatus(id, s) == policy' = [policy EXCEPT ![id].status = s]

IssuePolicy(holder, coverage, days) ==
  /\ policyCounter < MaxPolicies
  /\ policyCounter' = policyCounter + 1
  /\ policy' = [policy EXCEPT ![policyCounter + 1] =
                 [holder |-> holder, coverage |-> coverage, start |-> now,
                  duration |-> days, status |-> "Active"]]

(* Mutant: a renewal is accepted whatever the status.                      *)
CanRenewAny(id) == PolicyExists(id) /\ now <= Expiry(id)

CanRenew(id) == PolicyExists(id) /\ InForce(id) /\ now <= Expiry(id)

(* Mutant: the sum is stored at full width.                                *)
DurationUnwrapped(days) == days

Duration32(days) == days % U32

RenewPolicy(id, days) ==
  /\ CanRenew(id)
  /\ policy' = [policy EXCEPT ![id].duration = Duration32(@ + days),
                              ![id].status = "Renewed"]
  /\ UNCHANGED policyCounter

(* cancel_policy looks at the expiry only, not at the status.              *)
CancelPolicy(id) ==
  /\ PolicyExists(id)
  /\ now <= Expiry(id)
  /\ SetStatus(id, "Cancelled")
  /\ UNCHANGED policyCounter

MayExpire(id) == now >= Expiry(id)

ExpirePolicy(id) ==
  /\ PolicyExists(id)
  /\ MayExpire(id)
  /\ SetStatus(id, "Expired")
  /\ UNCHANGED policyCounter

(* One transaction of the contract, at the time of the current ledger.     *)
PolicyTransaction ==
  /\ UNCHANGED now
  /\ \/ \E u \in Policyholders, c \in Coverages, d \in Durations : IssuePolicy(u, c, d)
     \/ \E id \in PolicyId :
          \/ \E d \in Durations : RenewPolicy(id, d)
          \/ CancelPolicy(id)
          \/ ExpirePolicy(id)

PolicyTick == ClockTicks /\ UNCHANGED policyVars

PolicyNext == PolicyTransaction \/ PolicyTick
PolicySpec == ClockInit /\ PolicyInit /\ [][PolicyNext]_policyClockVars

-----------------------------------------------------------------------------
PolicyTypeOK ==
  /\ now \in 0 .. MaxTime
  /\ policyCounter \in 0 .. MaxPolicies
  /\ policy \in [PolicyId ->
       [holder : Policyholders \union {NoUser}, coverage : Coverages \union {0},
        start : 0 .. MaxTime, duration : 0 .. U32 - 1,
        status : {"Absent", "Active", "Renewed", "Expired", "Cancelled"}]]
  /\ \A id \in PolicyId : PolicyExists(id) <=> id <= policyCounter

(* Cover never starts again: once a policy has left force - expired or     *)
(* cancelled - no later renewal, cancellation or expiry revives it, so a   *)
(* claim that is_active refused stays refused.                             *)
LapsedStaysLapsed ==
  [][\A id \in PolicyId :
       PolicyExists(id) /\ ~InForce(id) => policy'[id].status \in {"Expired", "Cancelled"}]_policyClockVars

=============================================================================
