--------------------------- MODULE InsuranceAdmin ---------------------------
(***************************************************************************)
(* Who may do what in the ink! insurance contract: the role store          *)
(* (contracts/insurance/src/rbac.rs), the pause and the transfer of the    *)
(* admin, both behind a time lock (insurance_impl.rs).                     *)
(*                                                                         *)
(* One action is one message of a caller; an Err reverts it.               *)
(***************************************************************************)
EXTENDS InsuranceState

CONSTANTS Accounts,
          Deployer,     \* the admin given to the constructor
          Roles,        \* the roles besides Admin
          Delay,        \* admin_timelock_delay
          NoOne, Never  \* None

(* What is assumed of the constants.                                       *)
InsuranceAdminAssumption ==
  /\ Deployer \in Accounts
  /\ NoOne \notin Accounts
  /\ "Admin" \notin Roles
  /\ Delay \in Nat /\ MaxTime \in Nat \ {0}
  /\ Never \notin Nat

VARIABLES roles,         \* role_manager: the (account, role) pairs
          admin,         \* admin
          pauseAfter,    \* pending_pause_after
          pendingAdmin,  \* pending_admin
          adminAfter,    \* pending_admin_after
          notice         \* history: when pause and admin were last proposed

pauseVars == <<paused, pauseAfter>>
transferVars == <<admin, pendingAdmin, adminAfter>>
adminVars == <<now, roles, pauseVars, transferVars, notice>>

AllRoles == Roles \union {"Admin"}

AdminInit ==
  /\ now = 1
  /\ roles = {<<Deployer, "Admin">>}
  /\ admin = Deployer
  /\ paused = FALSE
  /\ pauseAfter = Never
  /\ pendingAdmin = NoOne
  /\ adminAfter = Never
  /\ notice = [pause |-> Never, admin |-> Never]

-----------------------------------------------------------------------------
(* Admin satisfies every role check.                                       *)
HasRole(a, r) == <<a, r>> \in roles \/ <<a, "Admin">> \in roles
IsAdmin(a) == HasRole(a, "Admin")

GrantRole(caller, a, r) ==
  /\ IsAdmin(caller)
  /\ roles' = roles \union {<<a, r>>}
  /\ UNCHANGED <<now, pauseVars, transferVars, notice>>

RevokeRole(caller, a, r) ==
  /\ IsAdmin(caller)
  /\ roles' = roles \ {<<a, r>>}
  /\ UNCHANGED <<now, pauseVars, transferVars, notice>>

(* Mutant: a lock opens one instant early.                                 *)
LockOpenEarly(after) == after # Never /\ now + 1 >= after

LockOpen(after) == after # Never /\ now >= after

ProposePause(caller) ==
  /\ IsAdmin(caller)
  /\ ~paused
  /\ pauseAfter = Never
  /\ pauseAfter' = now + Delay
  /\ notice' = [notice EXCEPT !.pause = now]
  /\ UNCHANGED <<now, roles, paused, transferVars>>

ExecutePause(caller) ==
  /\ IsAdmin(caller)
  /\ LockOpen(pauseAfter)
  /\ paused' = TRUE
  /\ pauseAfter' = Never
  /\ UNCHANGED <<now, roles, transferVars, notice>>

(* pause and unpause: at once, and a proposed pause stays proposed.        *)
SetPaused(caller, b) ==
  /\ IsAdmin(caller)
  /\ paused # b
  /\ paused' = b
  /\ UNCHANGED <<now, roles, pauseAfter, transferVars, notice>>

ProposeSetAdmin(caller, a) ==
  /\ IsAdmin(caller)
  /\ adminAfter = Never
  /\ pendingAdmin' = a
  /\ adminAfter' = now + Delay
  /\ notice' = [notice EXCEPT !.admin = now]
  /\ UNCHANGED <<now, roles, pauseVars, admin>>

(* Only the field changes hands: the roles stay where they are.            *)
ExecuteSetAdmin(caller) ==
  /\ IsAdmin(caller)
  /\ LockOpen(adminAfter)
  /\ admin' = pendingAdmin
  /\ pendingAdmin' = NoOne
  /\ adminAfter' = Never
  /\ UNCHANGED <<now, roles, pauseVars, notice>>

CancelPendingAdmin(caller) ==
  /\ IsAdmin(caller)
  /\ pendingAdmin' = NoOne
  /\ adminAfter' = Never
  /\ UNCHANGED <<now, roles, pauseVars, admin, notice>>

AdminTick ==
  /\ BlockTime
  /\ UNCHANGED <<roles, pauseVars, transferVars, notice>>

AdminNext ==
  \/ \E caller \in Accounts :
       \/ \E a \in Accounts, r \in AllRoles : GrantRole(caller, a, r) \/ RevokeRole(caller, a, r)
       \/ ProposePause(caller)
       \/ ExecutePause(caller)
       \/ \E b \in BOOLEAN : SetPaused(caller, b)
       \/ \E a \in Accounts : ProposeSetAdmin(caller, a)
       \/ ExecuteSetAdmin(caller)
       \/ CancelPendingAdmin(caller)
  \/ AdminTick

AdminSpec == AdminInit /\ [][AdminNext]_adminVars

-----------------------------------------------------------------------------
AdminTypeOK ==
  /\ now \in 1 .. MaxTime
  /\ roles \subseteq Accounts \X AllRoles
  /\ admin \in Accounts
  /\ paused \in BOOLEAN
  /\ pauseAfter \in Nat \union {Never}
  /\ pendingAdmin \in Accounts \union {NoOne}
  /\ adminAfter \in Nat \union {Never}
  /\ notice \in [pause : Nat \union {Never}, admin : Nat \union {Never}]
  /\ pendingAdmin = NoOne <=> adminAfter = Never

(* "The change takes effect only after `admin_timelock_delay' seconds":    *)
(* whoever becomes admin had been proposed, last of all, a full delay      *)
(* before, also when proposals are cancelled and made again in between.    *)
AdminHadNotice ==
  [][admin' # admin =>
       /\ admin' = pendingAdmin
       /\ notice.admin \in Nat
       /\ now >= notice.admin + Delay]_adminVars

(* "propose transferring admin rights to `new_admin'": the account that    *)
(* becomes admin has the Admin role.                                       *)
AdminHasRights == [][admin' # admin => <<admin', "Admin">> \in roles']_adminVars
=============================================================================
