------------------------------ MODULE Slashing ------------------------------
(***************************************************************************)
(* The Soroban slashing contract (contracts/slashing/src/lib.rs).          *)
(*                                                                         *)
(* The governance account records violations of a target in a role; the    *)
(* admin says which roles can be slashed, with which cooldown, and pauses  *)
(* the contract.  A slash moves no funds.  A record is its amount and its  *)
(* time; reasons, percentages and multipliers are stored and never read.   *)
(***************************************************************************)
EXTENDS LedgerClock, RecordLog

CONSTANTS Targets, Roles,
          SlashAmounts,  \* amounts governance may slash
          Cooldowns,     \* cooldown_seconds the admin may configure
          NoParams,      \* PenaltyParams(role) is absent
          MAX_HISTORY,   \* 50 in the code
          U64,           \* 2^64 in the code: timestamp + cooldown wraps at it
          MaxViolations  \* bound: slashes of one target in one role

(* What is assumed of the constants.                                       *)
SlashingAssumption ==
  /\ NoParams \notin Cooldowns
  /\ {MaxTime, MaxViolations} \subseteq Nat
  /\ {U64, MAX_HISTORY} \subseteq Nat \ {0}
  /\ MaxTime < U64
  /\ Cooldowns \subseteq 0 .. U64 - 1

VARIABLES slashableRoles,  \* SlashableRoles, whose order nothing reads
          penaltyParams,   \* PenaltyParams(role): the cooldown
          violationCount,  \* ViolationCount(target, role)
          history,         \* History(target, role)
          paused,          \* Paused
          slashed          \* history variable: every record made, and never dropped

slashVars == <<slashableRoles, penaltyParams, violationCount, history, paused, slashed>>
slashClockVars == <<now, slashVars>>

SlashInit ==
  /\ slashableRoles = {}
  /\ penaltyParams = [r \in Roles |-> NoParams]
  /\ violationCount = [t \in Targets |-> [r \in Roles |-> 0]]
  /\ history = [t \in Targets |-> [r \in Roles |-> <<>>]]
  /\ paused = FALSE
  /\ slashed = [t \in Targets |-> [r \in Roles |-> <<>>]]

-----------------------------------------------------------------------------
Last(s) == s[Len(s)]

CooldownOver(t, r) ==
  penaltyParams[r] # NoParams /\ history[t][r] # <<>> =>
    now >= (Last(history[t][r]).timestamp + penaltyParams[r]) % U64

(* Mutant: can_be_slashed forgets the cooldown.                            *)
CanBeSlashedAnyTime(t, r) == r \in slashableRoles

CanBeSlashed(t, r) == r \in slashableRoles /\ CooldownOver(t, r)

(* Mutant: a full history drops its newest entry.                          *)
TrimNewest(h) == IF Len(h) >= MAX_HISTORY THEN SubSeq(h, 1, Len(h) - 1) ELSE h

(* A full history drops its oldest entry.                                  *)
Trim(h) == IF Len(h) >= MAX_HISTORY THEN Tail(h) ELSE h

SlashFunds(t, r, amount) ==
  LET record == [amount |-> amount, timestamp |-> now]
  IN /\ ~paused
     /\ CanBeSlashed(t, r)
     /\ violationCount[t][r] < MaxViolations
     /\ violationCount' = [violationCount EXCEPT ![t][r] = @ + 1]
     /\ history' = [history EXCEPT ![t][r] = Append(Trim(@), record)]
     /\ slashed' = [slashed EXCEPT ![t][r] = Append(@, record)]
     /\ UNCHANGED <<slashableRoles, penaltyParams, paused>>

ConfigurePenaltyParameters(r, cooldown) ==
  /\ penaltyParams' = [penaltyParams EXCEPT ![r] = cooldown]
  /\ UNCHANGED <<slashableRoles, violationCount, history, paused, slashed>>

AddSlashableRole(r) ==
  /\ slashableRoles' = slashableRoles \union {r}
  /\ UNCHANGED <<penaltyParams, violationCount, history, paused, slashed>>

(* Mutant: a role that is struck off loses its history.                    *)
RemoveRoleAndHistory(r) ==
  /\ slashableRoles' = slashableRoles \ {r}
  /\ history' = [t \in Targets |-> [history[t] EXCEPT ![r] = <<>>]]
  /\ UNCHANGED <<penaltyParams, violationCount, paused, slashed>>

RemoveSlashableRole(r) ==
  /\ slashableRoles' = slashableRoles \ {r}
  /\ UNCHANGED <<penaltyParams, violationCount, history, paused, slashed>>

(* pause and unpause.                                                      *)
SetPaused(p) ==
  /\ paused' = p
  /\ UNCHANGED <<slashableRoles, penaltyParams, violationCount, history, slashed>>

AdminTransaction ==
  \/ \E r \in Roles :
       \/ \E c \in Cooldowns : ConfigurePenaltyParameters(r, c)
       \/ AddSlashableRole(r)
       \/ RemoveSlashableRole(r)
  \/ \E p \in BOOLEAN : SetPaused(p)

SlashTransaction ==
  /\ UNCHANGED now
  /\ \/ AdminTransaction
     \/ \E t \in Targets, r \in Roles, x \in SlashAmounts : SlashFunds(t, r, x)

SlashTick == ClockTicks /\ UNCHANGED slashVars

SlashNext == SlashTransaction \/ SlashTick
SlashSpec == ClockInit /\ SlashInit /\ [][SlashNext]_slashClockVars

-----------------------------------------------------------------------------
Violation == [amount : SlashAmounts, timestamp : 0 .. MaxTime]

SlashTypeOK ==
  /\ now \in 0 .. MaxTime
  /\ slashableRoles \subseteq Roles
  /\ penaltyParams \in [Roles -> Cooldowns \union {NoParams}]
  /\ violationCount \in [Targets -> [Roles -> 0 .. MaxViolations]]
  /\ {history, slashed} \subseteq [Targets -> [Roles -> Seq(Violation)]]
  /\ \A t \in Targets, r \in Roles : Len(history[t][r]) <= MAX_HISTORY
  /\ paused \in BOOLEAN

(* "cap history to MAX_HISTORY entries", "Remove oldest entry": whatever   *)
(* roles are struck off and listed again in between, the history of a      *)
(* target holds its latest violations in their order, each as it was       *)
(* recorded, and violationCount counts those that were dropped as well.    *)
HistoryIsLatestViolations ==
  \A t \in Targets, r \in Roles :
    /\ violationCount[t][r] = Len(slashed[t][r])
    /\ history[t][r] = Latest(slashed[t][r], MAX_HISTORY)

(* README: "Cooldown Periods: Time-based protection against excessive      *)
(* slashing".  Two consecutive slashes of a target in a role are at least  *)
(* the role's current cooldown apart.                                      *)
CooldownProtects ==
  [][\A t \in Targets, r \in Roles :
       violationCount'[t][r] > violationCount[t][r] /\ violationCount[t][r] > 0
         /\ penaltyParams[r] # NoParams
       => now >= Last(history[t][r]).timestamp + penaltyParams[r]]_slashClockVars

=============================================================================
