----------------------------- MODULE RoleStates -----------------------------
(***************************************************************************)
(* The states of a host-role association in the resource manager and the   *)
(* table of legal transitions between them (src/resmgr/resmgr/             *)
(* role_states.py).  A state is the name of its _RoleState object; "none"  *)
(* stands for the absence of a host_role_map row.                          *)
(***************************************************************************)
EXTENDS Naturals

NoRow == "none"

RoleState ==
  {"not-applied", "start-apply", "pre-auth", "auth-converging",
   "auth-converged", "auth-error", "applied", "start-edit", "start-deauth",
   "pre-deauth", "deauth-converging", "deauth-converged", "deauth-error"}

\* The valid_next lists given to the _RoleState constructors.
ValidNext ==
  [s \in RoleState |->
    CASE s = "not-applied"       -> {"start-apply"}
      [] s = "start-apply"       -> {"not-applied", "pre-auth"}
      [] s = "pre-auth"          -> {"auth-converging"}
      [] s = "auth-converging"   -> {"auth-converged", "auth-error"}
      [] s = "auth-converged"    -> {"applied", "auth-error"}
      [] s = "auth-error"        -> {"start-apply", "start-deauth"}
      [] s = "applied"           -> {"start-edit", "start-deauth"}
      [] s = "start-edit"        -> {"pre-auth", "applied"}
      [] s = "start-deauth"      -> {"pre-deauth", "applied"}
      [] s = "pre-deauth"        -> {"deauth-converging"}
      [] s = "deauth-converging" -> {"deauth-converged", "deauth-error"}
      [] s = "deauth-converged"  -> {"deauth-error", "not-applied"}
      [] s = "deauth-error"      -> {"start-deauth"}]

\* legal_transition: is new a valid successor of old?
LegalTransition(old, new) == new \in ValidNext[old]

\* role_is_authed: the role counts as assigned, its app belongs to the
\* configuration the host should run.
AuthedStates ==
  {"applied", "start-apply", "start-edit", "pre-auth", "auth-converging",
   "auth-converged", "auth-error"}

\* role_is_failed
FailedStates == {"deauth-error", "auth-error"}

\* role_is_converging
ConvergingStates ==
  {"start-apply", "start-edit", "pre-auth", "auth-converging",
   "auth-converged", "start-deauth", "pre-deauth", "deauth-converging",
   "deauth-converged"}

(***************************************************************************)
(* Three classes of states used to state properties.  A request can only   *)
(* leave a resting state; the poller moves a role out of a transient state *)
(* without waiting for the host; a converging role waits for a report.     *)
(***************************************************************************)
RestingStates   == {"not-applied", "applied", "auth-error", "deauth-error"}
WaitingStates   == {"auth-converging", "deauth-converging"}
TransientStates == RoleState \ (RestingStates \union WaitingStates)
=============================================================================
