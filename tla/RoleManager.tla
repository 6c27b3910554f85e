----------------------------- MODULE RoleManager -----------------------------
(***************************************************************************)
(* The role life cycle of the resource manager (src/resmgr/resmgr/         *)
(* resmgr_provider_pf9.py and dbutils.py): API threads that add and delete *)
(* roles, the poller thread that drives each host-role association through *)
(* the states of RoleStates, the database rows they share, the lock that   *)
(* orders some of their steps, and a crash and restart of the process,     *)
(* which keeps the database and loses everything else.                     *)
(*                                                                         *)
(* A step another thread can observe is an action of its own.  An API      *)
(* thread holds _role_update_lock while it works on a role; the poller     *)
(* holds it only while it advances transient roles and takes no lock when  *)
(* it finishes or fails a convergence.                                     *)
(*                                                                         *)
(* What the backbone reports of a host may be anything: the poller's       *)
(* decision on a report is one of the verdicts its code tells apart.       *)
(* Convergence models where the reports come from.                         *)
(*                                                                         *)
(* A definition marked "faulty" is not part of the model: it is the        *)
(* definition after it with a mistake in it, and README.md says which      *)
(* property notices.                                                       *)
(***************************************************************************)
EXTENDS RoleStates, FiniteSets

CONSTANTS
  Hosts, Roles, Versions,
  RabbitRoles,  \* roles whose app configuration names rabbit credentials
  Callers,      \* threads of the API server
  Poller,       \* the BbonePoller thread
  Nobody,       \* holder of the lock when it is free
  NoHost, NoRole, NoVersion,
  MaxCalls,     \* bound: add and delete requests
  MaxRestarts,  \* bound: crashes of the resource manager
  MaxLosses     \* bound: restarts of bbmaster, which forget every host

ASSUME RoleManagerAssumption ==
  /\ RabbitRoles \subseteq Roles
  /\ Poller \notin Callers /\ Nobody \notin Callers /\ Poller # Nobody
  /\ NoVersion \notin Versions /\ NoHost \notin Hosts /\ NoRole \notin Roles
  /\ MaxCalls \in Nat /\ MaxRestarts \in Nat /\ MaxLosses \in Nat

VARIABLES
  \* the database
  hostRow,      \* hosts: the ids with a row
  responding,   \* hosts.responding
  state,        \* host_role_map.current_state; NoRow without a row
  version,      \* version of the roles row host_role_map points to
  creds,        \* rabbit_credentials: <<host, role>> pairs with a row
  \* memory of the resource manager
  unauthorized, \* _unauthorized_hosts
  lock,         \* holder of _role_update_lock
  call,         \* the request each API thread serves
  ppc, phost, prole, ptodo, \* the poller: next step and loop variables
  work,         \* hosts the poll has not visited yet
  snap,         \* what the poll read of the database and the backbone
  \* the world around it
  bbHosts,      \* the host ids bbmaster knows
  lastEvent,    \* the last auth event that completed for a host's role
  calls, restarts, losses

dbVars   == <<hostRow, responding, state, version, creds>>
pollVars == <<ppc, phost, prole, ptodo, work, snap>>
bounds   == <<calls, restarts, losses>>
vars     == <<dbVars, unauthorized, lock, call, pollVars, bbHosts,
              lastEvent, bounds>>

\* What all of this implements, role by role.
LifeCycle == INSTANCE RoleLifeCycle

CallPC == {"idle", "insert", "associate", "start", "credentials", "undo",
           "auth", "next", "deauth"}
PollPC == {"idle", "classify", "hosts", "advance", "check", "drop", "mark",
           "fetch", "finish", "applied", "removed", "fail"}

IdleCall == [pc |-> "idle", host |-> NoHost, role |-> NoRole,
             ver |-> NoVersion, new |-> FALSE, pending |-> {}]
NoWork   == [new |-> {}, absent |-> {}, existing |-> {}]
NoSnap   == [ids |-> {}, hosts |-> {}, up |-> {}, roles |-> [h \in Hosts |-> {}]]

Call == [pc : CallPC, host : Hosts \union {NoHost},
         role : Roles \union {NoRole}, ver : Versions \union {NoVersion},
         new : BOOLEAN, pending : SUBSET Roles]
Work == [new : SUBSET Hosts, absent : SUBSET Hosts, existing : SUBSET Hosts]
Snap == [ids : SUBSET Hosts, hosts : SUBSET Hosts, up : SUBSET Hosts,
         roles : [Hosts -> SUBSET Roles]]

DatabaseOK ==
  /\ hostRow \subseteq Hosts
  /\ responding \in [Hosts -> BOOLEAN]
  /\ version \in [Hosts -> [Roles -> Versions \union {NoVersion}]]
  /\ creds \subseteq Hosts \X Roles

RequestsOK ==
  /\ lock \in Callers \union {Poller, Nobody}
  /\ call \in [Callers -> Call]
  /\ calls \in 0..MaxCalls

PollerOK ==
  /\ ppc \in PollPC
  /\ phost \in Hosts \union {NoHost} /\ prole \in Roles \union {NoRole}
  /\ ptodo \subseteq Roles
  /\ work \in Work
  /\ snap \in Snap

WorldOK ==
  /\ unauthorized \subseteq Hosts /\ bbHosts \subseteq Hosts
  /\ restarts \in 0..MaxRestarts /\ losses \in 0..MaxLosses

\* state and lastEvent are typed by LifeCycle.
TypeOK ==
  LifeCycle!TypeOK /\ DatabaseOK /\ RequestsOK /\ PollerOK /\ WorldOK

Init ==
  /\ hostRow = {}
  /\ responding = [h \in Hosts |-> FALSE]
  /\ state = [h \in Hosts |-> [r \in Roles |-> NoRow]]
  /\ version = [h \in Hosts |-> [r \in Roles |-> NoVersion]]
  /\ creds = {}
  /\ unauthorized = {}
  /\ lock = Nobody
  /\ call = [c \in Callers |-> IdleCall]
  /\ ppc = "idle" /\ phost = NoHost /\ prole = NoRole /\ ptodo = {}
  /\ work = NoWork /\ snap = NoSnap
  /\ bbHosts = {}
  /\ lastEvent = [h \in Hosts |-> [r \in Roles |-> "none"]]
  /\ calls = 0 /\ restarts = 0 /\ losses = 0

-----------------------------------------------------------------------------
(* The database, as ResMgrDB offers it. *)

\* query_roles_for_host, get_all_role_associations
RolesOf(h) == {r \in Roles : state[h][r] # NoRow}

\* advance_role_state: a compare-and-set on current_state.  Every call in the
\* code names a legal transition, so InvalidState is never raised.
Advance(h, r, old, new) ==
  state' = IF state[h][r] = old THEN [state EXCEPT ![h][r] = new] ELSE state

\* remove_role_from_host
RemoveAssociation(h, r) ==
  /\ state' = [state EXCEPT ![h][r] = NoRow]
  /\ version' = [version EXCEPT ![h][r] = NoVersion]

\* delete_host: the row goes, and its credentials by cascade.  With no row, or
\* with associations left, session.delete raises and nothing changes.
\* faulty: rows with associations go too
DeletableRowAlways(h, left) == h \in hostRow
DeletableRow(h, left) == h \in hostRow /\ left = {}
DeleteHostRow(h) ==
  /\ hostRow' = hostRow \ {h}
  /\ creds' = creds \ ({h} \X Roles)

\* query_host_and_app_details renders the configuration of every role of the
\* host (_substitute_host_role_params); a role that names rabbit credentials
\* and has none raises KeyError.
Renderable(h) == \A r \in RolesOf(h) \intersect RabbitRoles : <<h, r>> \in creds

\* _run_event calls the role's handler in the DU; it has completed.
EventDone(h, r, e) == lastEvent' = [lastEvent EXCEPT ![h][r] = e]

-----------------------------------------------------------------------------
(* The poller: HostInventoryMgr.process_hosts, run by BbonePoller.run. *)

apiVars == <<call, calls>>
envVars == <<bbHosts, losses, restarts>>

\* On to the next host of the loop.
NextHost ==
  /\ ppc' = "hosts" /\ phost' = NoHost /\ prole' = NoRole /\ ptodo' = {}
  /\ UNCHANGED <<work, snap>>

\* An exception leaves process_hosts: run logs it and polls again.
AbortPoll ==
  /\ ppc' = "idle" /\ phost' = NoHost /\ prole' = NoRole /\ ptodo' = {}
  /\ work' = NoWork /\ snap' = NoSnap

\* On to the next role of the loop the poller is in: the lock tells which.
NextRole ==
  /\ ppc' = IF lock = Poller THEN "advance" ELSE "finish"
  /\ prole' = NoRole
  /\ UNCHANGED <<phost, ptodo, work, snap>>

Goto(pc) == ppc' = pc /\ UNCHANGED <<phost, prole, ptodo, work, snap>>

\* _role_update_lock is an RLock; no thread here enters it twice.
\* faulty: nobody waits
LockFreeAlways == TRUE
LockFree == lock = Nobody
ReleaseIfHeld == lock' = IF lock = Poller THEN Nobody ELSE lock

\* The ids of bbmaster and the snapshot of the database.  An exception while
\* rendering a role's configuration ends the poll where it began.
ReadSnapshot ==
  /\ ppc = "idle"
  /\ \A h \in hostRow : Renderable(h)
  /\ ppc' = "classify"
  /\ snap' = [ids |-> bbHosts, hosts |-> hostRow,
              up |-> {h \in hostRow : responding[h]},
              roles |-> [h \in Hosts |-> IF h \in hostRow THEN RolesOf(h) ELSE {}]]
  /\ UNCHANGED <<dbVars, unauthorized, lock, phost, prole, ptodo, work,
                 lastEvent, apiVars, envVars>>

\* _unauthorized_hosts is read after the database: a host that add_role moves
\* in between is in neither.
Classify ==
  /\ ppc = "classify"
  /\ LET all == snap.hosts \union unauthorized IN
       work' = [new |-> snap.ids \ all, absent |-> all \ snap.ids,
                existing |-> all \intersect snap.ids]
  /\ ppc' = "hosts"
  /\ UNCHANGED <<dbVars, unauthorized, lock, phost, prole, ptodo, snap,
                 lastEvent, apiVars, envVars>>

\* _process_new_hosts, one host: it is skipped (query failed, status missing,
\* not responding) or becomes an unauthorized host.
NewHost(h) ==
  /\ ppc = "hosts" /\ h \in work.new
  /\ work' = [work EXCEPT !.new = @ \ {h}]
  /\ \/ UNCHANGED unauthorized
     \/ unauthorized' = unauthorized \union {h}
  /\ UNCHANGED <<dbVars, lock, ppc, phost, prole, ptodo, snap,
                 lastEvent, apiVars, envVars>>

\* _process_absent_hosts, an unauthorized host: the metrics call indexes
\* _unauthorized_hosts with the builtin id, which raises KeyError.
AbsentUnauthorizedHost(h) ==
  /\ ppc = "hosts" /\ work.new = {} /\ h \in work.absent
  /\ h \in unauthorized
  /\ AbortPoll
  /\ UNCHANGED <<dbVars, unauthorized, lock, lastEvent, apiVars, envVars>>

\* Both host loops take _role_update_lock for _advance_from_transient_state.
StartAdvance(h) ==
  /\ LockFree /\ lock' = Poller
  /\ ppc' = "advance" /\ phost' = h /\ prole' = NoRole /\ ptodo' = snap.roles[h]
  /\ UNCHANGED <<dbVars, unauthorized, snap, lastEvent, apiVars, envVars>>

AbsentHost(h) ==
  /\ ppc = "hosts" /\ work.new = {} /\ h \in work.absent
  /\ h \notin unauthorized
  /\ work' = [work EXCEPT !.absent = @ \ {h}]
  /\ StartAdvance(h)

ExistingHost(h) ==
  /\ ppc = "hosts" /\ work.new = {} /\ work.absent = {} /\ h \in work.existing
  /\ work' = [work EXCEPT !.existing = @ \ {h}]
  /\ StartAdvance(h)

\* _advance_from_transient_state: the loop over the roles of the snapshot.
AdvanceRole(r) ==
  /\ ppc = "advance" /\ prole = NoRole /\ r \in ptodo
  /\ prole' = r /\ ptodo' = ptodo \ {r}
  /\ UNCHANGED <<dbVars, unauthorized, lock, ppc, phost, work, snap,
                 lastEvent, apiVars, envVars>>

Advancing(states) ==
  ppc = "advance" /\ prole # NoRole /\ state[phost][prole] \in states

\* One turn of the loop that runs action body and moves from old to new; an
\* exception in the body moves to failed and leaves process_hosts.
AdvanceStep(old, new, event) ==
  /\ Advance(phost, prole, old, new)
  /\ IF event = "none" THEN UNCHANGED lastEvent
                       ELSE EventDone(phost, prole, event)
  /\ UNCHANGED <<hostRow, responding, version, creds, unauthorized, lock,
                 pollVars, apiVars, losses, restarts>>

AdvanceFails(old, failed) ==
  /\ Advance(phost, prole, old, failed)
  /\ AbortPoll /\ ReleaseIfHeld
  /\ UNCHANGED <<hostRow, responding, version, creds, unauthorized,
                 lastEvent, apiVars, envVars>>

\* move_to_preauth_state
\* faulty: an edit is not resumed
PollerAuthForgetsEdit ==
  \/ /\ Advancing({"start-apply"})
     /\ \/ AdvanceStep("start-apply", "pre-auth", "on_auth") /\ UNCHANGED bbHosts
        \/ AdvanceFails("start-apply", "not-applied")
  \/ /\ Advancing({"start-edit"})
     /\ NextRole
     /\ UNCHANGED <<dbVars, unauthorized, lock, lastEvent, apiVars, envVars>>

PollerAuth ==
  /\ Advancing({"start-apply", "start-edit"})
  /\ LET old == state[phost][prole] IN
       \/ AdvanceStep(old, "pre-auth", "on_auth") /\ UNCHANGED bbHosts
       \/ AdvanceFails(old, IF old = "start-apply" THEN "not-applied" ELSE "applied")

\* push_configuration: bbmaster adds a host it does not know to its table
\* (set_host_apps), as missing and silent
Push(h) == bbHosts' = bbHosts \union {h}

\* move_to_auth_converging_state
PushAuth ==
  /\ Advancing({"pre-auth"})
  /\ AdvanceStep("pre-auth", "auth-converging", "none")
  /\ Push(phost)

PushFails ==
  /\ Advancing({"pre-auth"})
  /\ AdvanceFails("pre-auth", "pre-auth")

\* move_to_pre_deauth_state
PollerDeauth ==
  /\ Advancing({"start-deauth"})
  /\ \/ AdvanceStep("start-deauth", "pre-deauth", "on_deauth")
        /\ UNCHANGED bbHosts
     \/ AdvanceFails("start-deauth", "applied")

\* move_to_deauth_converging_state: the broker's user goes (whatever comes of
\* it), then the push
PushDeauth ==
  /\ Advancing({"pre-deauth"})
  /\ AdvanceStep("pre-deauth", "deauth-converging", "none")
  /\ Push(phost)

PushDeauthFails ==
  /\ Advancing({"pre-deauth"})
  /\ AdvanceFails("pre-deauth", "pre-deauth")

\* a state the loop does not move (the row may be gone): next role
AdvanceNothing ==
  /\ ppc = "advance" /\ prole # NoRole
  /\ state[phost][prole] \in RestingStates \union WaitingStates \union {NoRow}
  /\ NextRole
  /\ UNCHANGED <<dbVars, unauthorized, lock, lastEvent, apiVars, envVars>>

\* the with block ends; an existing host is queried next
EndAdvance ==
  /\ ppc = "advance" /\ prole = NoRole /\ ptodo = {}
  /\ lock' = Nobody
  /\ Goto(IF phost \in snap.ids THEN "fetch" ELSE "mark")
  /\ UNCHANGED <<dbVars, unauthorized, lastEvent, apiVars, envVars>>

\* move_to_applied_state, from either loop.  The loop over converging roles
\* swallows DuConfigError and goes on; other exceptions leave process_hosts.
AtConverged ==
  ppc = "applied" \/ Advancing({"auth-converged"})

MoveToApplied ==
  /\ AtConverged
  /\ Advance(phost, prole, "auth-converged", "applied")
  /\ EventDone(phost, prole, "on_auth_converged")
  /\ NextRole
  /\ UNCHANGED <<hostRow, responding, version, creds, unauthorized, lock,
                 apiVars, envVars>>

MoveToAppliedFails ==
  /\ AtConverged
  /\ Advance(phost, prole, "auth-converged", "auth-error")
  /\ \/ ppc = "applied" /\ NextRole /\ UNCHANGED lock
     \/ AbortPoll /\ ReleaseIfHeld
  /\ UNCHANGED <<hostRow, responding, version, creds, unauthorized,
                 lastEvent, apiVars, envVars>>

\* move_to_not_applied_state, from either loop: the event, then the row of the
\* association; then, if no association is left, the row of the host.
AtDeconverged ==
  ppc = "removed" \/ Advancing({"deauth-converged"})

RemoveRole ==
  /\ AtDeconverged
  /\ EventDone(phost, prole, "on_deauth_converged")
  /\ RemoveAssociation(phost, prole)
  /\ Goto("check")
  /\ UNCHANGED <<hostRow, responding, creds, unauthorized, lock,
                 apiVars, envVars>>

RemoveRoleFails ==
  /\ AtDeconverged
  /\ Advance(phost, prole, "deauth-converged", "deauth-error")
  /\ NextRole
  /\ UNCHANGED <<hostRow, responding, version, creds, unauthorized, lock,
                 lastEvent, apiVars, envVars>>

\* faulty: decides by the snapshot
CheckLastRoleOfSnapshot ==
  /\ ppc = "check"
  /\ IF snap.roles[phost] = {prole} THEN Goto("drop") ELSE NextRole
  /\ UNCHANGED <<dbVars, unauthorized, lock, lastEvent, apiVars, envVars>>

CheckLastRole ==
  /\ ppc = "check"
  /\ IF RolesOf(phost) = {} THEN Goto("drop") ELSE NextRole
  /\ UNCHANGED <<dbVars, unauthorized, lock, lastEvent, apiVars, envVars>>

DropHost ==
  /\ ppc = "drop"
  /\ IF DeletableRow(phost, RolesOf(phost)) THEN DeleteHostRow(phost)
     ELSE UNCHANGED <<hostRow, creds>>
  /\ NextRole
  /\ UNCHANGED <<responding, state, version, unauthorized, lock, lastEvent,
                 apiVars, envVars>>

\* mark_host_state: without a row it raises AttributeError.
MarkHost(h, up) ==
  IF (h \in snap.up) = up THEN UNCHANGED responding
  ELSE /\ h \in hostRow
       /\ responding' = [responding EXCEPT ![h] = up]

MarkRaises(h, up) == (h \in snap.up) # up /\ h \notin hostRow

\* the end of _process_absent_hosts for a host of the database
MarkAbsentHost ==
  /\ ppc = "mark"
  /\ \/ MarkHost(phost, FALSE) /\ NextHost
     \/ MarkRaises(phost, FALSE) /\ UNCHANGED responding /\ AbortPoll
  /\ UNCHANGED <<hostRow, state, version, creds, unauthorized, lock,
                 lastEvent, apiVars, envVars>>

\* _process_existing_hosts, GET of the host's record failed
FetchFails ==
  /\ ppc = "fetch"
  /\ NextHost
  /\ UNCHANGED <<dbVars, unauthorized, lock, lastEvent, apiVars, envVars>>

\* a host outside the snapshot: its hostname is compared with that of its
\* entry in _unauthorized_hosts, which add_role may have popped
FetchUnauthorized ==
  /\ ppc = "fetch" /\ phost \notin snap.hosts
  /\ NextHost \/ (phost \notin unauthorized /\ AbortPoll)
  /\ UNCHANGED <<dbVars, unauthorized, lock, lastEvent, apiVars, envVars>>

\* a host of the snapshot; up: its last status is recent enough.  The roles
\* converge on a satisfying report and on silence, they fail on a fresh report
\* of failure, and anything else (a push included) leaves them as they are.
Report(up, pc) ==
  /\ ppc = "fetch" /\ phost \in snap.hosts
  /\ MarkHost(phost, up)
  /\ ppc' = pc /\ ptodo' = RolesOf(phost) /\ UNCHANGED <<phost, prole, work, snap>>
  /\ UNCHANGED <<hostRow, state, version, creds, unauthorized, lock,
                 lastEvent, apiVars, envVars>>

ReportConverged(up) == Report(up, "finish")
ReportFailed(up)    == phost \in hostRow /\ Report(up, "fail")
ReportOther ==
  /\ ppc = "fetch" /\ phost \in snap.hosts
  /\ MarkHost(phost, TRUE)
  /\ NextHost
  /\ UNCHANGED <<hostRow, state, version, creds, unauthorized, lock,
                 lastEvent, apiVars, envVars>>

\* no row: marking the host, or iterating over its roles, raises
ReportRaises ==
  /\ ppc = "fetch" /\ phost \in snap.hosts \ hostRow
  /\ AbortPoll
  /\ UNCHANGED <<dbVars, unauthorized, lock, lastEvent, apiVars, envVars>>

\* _finish_role_converge, without the lock
FinishRole(r) ==
  /\ ppc = "finish" /\ r \in ptodo
  /\ ptodo' = ptodo \ {r}
  /\ CASE state[phost][r] = "auth-converging" ->
            /\ Advance(phost, r, "auth-converging", "auth-converged")
            /\ ppc' = "applied" /\ prole' = r
       [] state[phost][r] = "deauth-converging" ->
            /\ Advance(phost, r, "deauth-converging", "deauth-converged")
            /\ ppc' = "removed" /\ prole' = r
       [] OTHER -> UNCHANGED <<state, ppc, prole>>
  /\ UNCHANGED <<hostRow, responding, version, creds, unauthorized, lock, phost,
                 work, snap, lastEvent, apiVars, envVars>>

\* _fail_role_converge, without the lock; prole keeps that some role failed
FailRole(r) ==
  /\ ppc = "fail" /\ r \in ptodo
  /\ ptodo' = ptodo \ {r}
  /\ LET s == state[phost][r]
         e == IF s = "auth-converging" THEN "auth-error" ELSE "deauth-error" IN
       IF s \in WaitingStates THEN Advance(phost, r, s, e) /\ prole' = r
                              ELSE UNCHANGED <<state, prole>>
  /\ UNCHANGED <<hostRow, responding, version, creds, unauthorized, lock, ppc,
                 phost, work, snap, lastEvent, apiVars, envVars>>

\* The request for a support bundle, made when some role failed, may raise;
\* update_host_info raises when the host's row has gone.
EndRoles ==
  /\ ppc \in {"finish", "fail"} /\ ptodo = {}
  /\ \/ NextHost
     \/ ppc = "fail" /\ prole # NoRole /\ AbortPoll
     \/ phost \notin hostRow /\ AbortPoll
  /\ UNCHANGED <<dbVars, unauthorized, lock, lastEvent, apiVars, envVars>>

\* _cleanup_unauthorized_hosts drops those that have been silent
EndPoll ==
  /\ ppc = "hosts" /\ work = NoWork
  /\ \E silent \in SUBSET unauthorized : unauthorized' = unauthorized \ silent
  /\ AbortPoll
  /\ UNCHANGED <<dbVars, lock, lastEvent, apiVars, envVars>>

-----------------------------------------------------------------------------
(* The API threads: ResMgrPf9Provider.add_role, delete_role, delete_host. *)

Finish(c) == call' = [call EXCEPT ![c] = IdleCall]
Step(c, pc) == call' = [call EXCEPT ![c].pc = pc]

\* add_role, up to the lock: the host is authorized and up, or unauthorized
AddRole(c, h, r, v) ==
  /\ call[c].pc = "idle" /\ calls < MaxCalls
  /\ IF h \in hostRow THEN responding[h] ELSE h \in unauthorized
  /\ calls' = calls + 1
  /\ call' = [call EXCEPT ![c] = [IdleCall EXCEPT !.pc = "insert", !.host = h,
                                                  !.role = r, !.ver = v]]
  /\ UNCHANGED <<dbVars, unauthorized, lock, pollVars, lastEvent, envVars>>

\* insert_update_host; invalid settings raise HostConfigFailed
InsertHost(c) ==
  /\ call[c].pc = "insert" /\ LockFree
  /\ \/ /\ lock' = c
        /\ hostRow' = hostRow \union {call[c].host}
        /\ responding' = [responding EXCEPT ![call[c].host] = TRUE]
        /\ Step(c, "associate")
     \/ Finish(c) /\ UNCHANGED <<lock, hostRow, responding>>
  /\ UNCHANGED <<state, version, creds, unauthorized, pollVars, lastEvent,
                 calls, envVars>>

\* associate_role_to_host: a new row, or the new version in the old row; it
\* raises when the poller has dropped the host meanwhile
Associate(c) ==
  LET h == call[c].host  r == call[c].role IN
  /\ call[c].pc = "associate"
  /\ IF h \notin hostRow
       THEN Finish(c) /\ lock' = Nobody /\ UNCHANGED <<state, version>>
       ELSE /\ version' = [version EXCEPT ![h][r] = call[c].ver]
            /\ state' = IF state[h][r] = NoRow
                          THEN [state EXCEPT ![h][r] = "not-applied"] ELSE state
            /\ call' = [call EXCEPT ![c] =
                          [@ EXCEPT !.pc = "start", !.new = (state[h][r] = NoRow)]]
            /\ UNCHANGED lock
  /\ UNCHANGED <<hostRow, responding, creds, unauthorized, pollVars,
                 lastEvent, calls, envVars>>

\* _move_to_apply_edit_state, and the host leaves the unauthorized ones
\* faulty: a misspelt state; a failed role edited instead of applied again
StartStateTypo(s) == IF s = "applied" THEN "start-edited" ELSE "start-apply"
StartStateRetries(s) == IF s = "not-applied" THEN "start-apply" ELSE "start-edit"
StartState(s) == IF s = "applied" THEN "start-edit" ELSE "start-apply"

StartApply(c) ==
  LET h == call[c].host  r == call[c].role  s == state[h][r] IN
  /\ call[c].pc = "start"
  /\ IF s \in {"not-applied", "applied", "auth-error"}
       THEN /\ Advance(h, r, s, StartState(s))
            /\ unauthorized' = unauthorized \ {h}
            /\ Step(c, "credentials") /\ UNCHANGED lock
       ELSE /\ Finish(c) /\ lock' = Nobody       \* RoleUpdateConflict
            /\ UNCHANGED <<state, unauthorized>>
  /\ UNCHANGED <<hostRow, responding, version, creds, pollVars, lastEvent,
                 calls, envVars>>

\* create_rabbit_credentials and associate_rabbit_credentials_to_host
CreateCredentials(c) ==
  LET p == <<call[c].host, call[c].role>> IN
  /\ call[c].pc = "credentials"
  /\ creds' = creds \union {p}
  /\ Step(c, "auth")
  /\ UNCHANGED <<hostRow, responding, state, version, unauthorized, lock,
                 pollVars, lastEvent, calls, envVars>>

\* create_user or set_permissions raises.  The handler of a new role names
\* rabbit_user, which is unbound: it raises before it can undo the association.
CreateCredentialsFails(c) ==
  /\ call[c].pc = "credentials"
  /\ Finish(c) /\ lock' = Nobody
  /\ UNCHANGED <<dbVars, unauthorized, pollVars, lastEvent, calls, envVars>>

\* the credentials exist but storing them raises: the handler of a new role
\* undoes the association
StoreCredentialsFails(c) ==
  LET h == call[c].host  r == call[c].role IN
  /\ call[c].pc = "credentials"
  /\ IF call[c].new
       THEN RemoveAssociation(h, r) /\ Step(c, "undo") /\ UNCHANGED lock
       ELSE /\ Finish(c) /\ lock' = Nobody
            /\ UNCHANGED <<state, version>>
  /\ UNCHANGED <<hostRow, responding, creds, unauthorized, pollVars, lastEvent,
                 calls, envVars>>

\* and drops the host if that was its last role
UndoHost(c) ==
  LET h == call[c].host IN
  /\ call[c].pc = "undo"
  /\ IF DeletableRow(h, RolesOf(h)) THEN DeleteHostRow(h)
     ELSE UNCHANGED <<hostRow, creds>>
  /\ Finish(c) /\ lock' = Nobody
  /\ UNCHANGED <<responding, state, version, unauthorized, pollVars, lastEvent,
                 calls, envVars>>

\* move_to_preauth_state; the poller is woken up
AddRoleAuth(c) ==
  LET h == call[c].host  r == call[c].role  s == state[h][r] IN
  /\ call[c].pc = "auth"
  /\ \/ /\ Renderable(h)
        /\ Advance(h, r, s, "pre-auth") /\ EventDone(h, r, "on_auth")
     \/ /\ Renderable(h)
        /\ Advance(h, r, s, IF s = "start-apply" THEN "not-applied" ELSE "applied")
        /\ UNCHANGED lastEvent
     \/ ~Renderable(h) /\ UNCHANGED <<state, lastEvent>>
  /\ Finish(c) /\ lock' = Nobody
  /\ UNCHANGED <<hostRow, responding, version, creds, unauthorized, pollVars,
                 calls, envVars>>

\* delete_role, and delete_host, which deletes the roles one after the other;
\* both return at once for an unauthorized host
Delete(c, h, rs) ==
  /\ call[c].pc = "idle" /\ calls < MaxCalls
  /\ h \notin unauthorized
  /\ calls' = calls + 1
  /\ call' = [call EXCEPT ![c] = [IdleCall EXCEPT !.pc = "next", !.host = h,
                                                  !.pending = rs]]
  /\ UNCHANGED <<dbVars, unauthorized, lock, pollVars, lastEvent, envVars>>

DeleteRole(c, h, r) == Delete(c, h, {r})
DeleteHost(c, h) == h \in hostRow /\ Delete(c, h, RolesOf(h))

\* on to the next role of delete_host, or out
NextPending(c, rest) ==
  call' = [call EXCEPT ![c] = IF rest = {} THEN IdleCall
                              ELSE [@ EXCEPT !.pc = "next", !.role = NoRole,
                                             !.pending = rest]]

\* delete_role of one role: _move_to_deauth_state, unless the host or the role
\* is gone; a role in another state is a RoleUpdateConflict, which ends the
\* whole request
StartDeauth(c, r) ==
  LET h == call[c].host IN
  /\ call[c].pc = "next" /\ r \in call[c].pending /\ LockFree
  /\ \/ /\ h \in unauthorized \/ (h \in hostRow /\ state[h][r] = NoRow)
        /\ NextPending(c, call[c].pending \ {r}) /\ UNCHANGED <<state, lock>>
     \/ /\ h \notin unauthorized
        /\ h \notin hostRow \/ state[h][r] \notin
             {NoRow, "applied", "deauth-error", "auth-error"}
        /\ Finish(c) /\ UNCHANGED <<state, lock>>
     \/ /\ h \notin unauthorized /\ h \in hostRow
        /\ state[h][r] \in {"applied", "deauth-error", "auth-error"}
        /\ Advance(h, r, state[h][r], "start-deauth")
        /\ lock' = c
        /\ call' = [call EXCEPT ![c] = [@ EXCEPT !.pc = "deauth", !.role = r,
                                    !.pending = call[c].pending \ {r}]]
  /\ UNCHANGED <<hostRow, responding, version, creds, unauthorized, pollVars,
                 lastEvent, calls, envVars>>

\* move_to_pre_deauth_state; an exception ends the whole request
DeleteRoleDeauth(c) ==
  LET h == call[c].host  r == call[c].role IN
  /\ call[c].pc = "deauth"
  /\ \/ /\ Renderable(h)
        /\ Advance(h, r, "start-deauth", "pre-deauth")
        /\ EventDone(h, r, "on_deauth")
        /\ NextPending(c, call[c].pending)
     \/ /\ Renderable(h)
        /\ Advance(h, r, "start-deauth", "applied")
        /\ Finish(c) /\ UNCHANGED lastEvent
     \/ ~Renderable(h) /\ Finish(c) /\ UNCHANGED <<state, lastEvent>>
  /\ lock' = Nobody
  /\ UNCHANGED <<hostRow, responding, version, creds, unauthorized, pollVars,
                 calls, envVars>>

\* get_all_hosts repairs a host that is in the database and unauthorized too
GetAllHosts ==
  /\ unauthorized \intersect hostRow # {}
  /\ unauthorized' = unauthorized \ hostRow
  /\ UNCHANGED <<dbVars, lock, call, pollVars, bbHosts, lastEvent, bounds>>

-----------------------------------------------------------------------------
(* The world: hosts report to bbmaster, bbmaster and the manager restart. *)

HostAppears(h) ==
  /\ h \notin bbHosts
  /\ bbHosts' = bbHosts \union {h}
  /\ UNCHANGED <<dbVars, unauthorized, lock, call, pollVars, lastEvent, bounds>>

BbmasterRestart ==
  /\ bbHosts # {} /\ losses < MaxLosses
  /\ bbHosts' = {} /\ losses' = losses + 1
  /\ UNCHANGED <<dbVars, unauthorized, lock, call, pollVars, lastEvent,
                 calls, restarts>>

\* auth events that were running when the manager went down
Handling(h, r, e) ==
  \/ \E c \in Callers :
       /\ call[c].host = h /\ call[c].role = r /\ Renderable(h)
       /\ \/ call[c].pc = "auth" /\ e = "on_auth"
          \/ call[c].pc = "deauth" /\ e = "on_deauth"
  \/ /\ phost = h /\ prole = r
     /\ \/ Advancing({"start-apply", "start-edit"}) /\ e = "on_auth"
        \/ Advancing({"start-deauth"}) /\ e = "on_deauth"
        \/ AtConverged /\ e = "on_auth_converged"
        \/ AtDeconverged /\ e = "on_deauth_converged"

\* The process dies anywhere and starts again; a handler that was running may
\* have done its work (of the handlers running at once, at most one).
Restart ==
  /\ restarts < MaxRestarts /\ restarts' = restarts + 1
  /\ unauthorized' = {} /\ lock' = Nobody
  /\ call' = [c \in Callers |-> IdleCall]
  /\ AbortPoll
  /\ \/ UNCHANGED lastEvent
     \/ \E h \in Hosts, r \in Roles, e \in LifeCycle!Event :
          Handling(h, r, e) /\ EventDone(h, r, e)
  /\ UNCHANGED <<dbVars, bbHosts, calls, losses>>

-----------------------------------------------------------------------------
\* The steps of the poller that leave every association and every row alone,
PollLoop ==
  \/ ReadSnapshot \/ Classify
  \/ \E h \in Hosts : \/ NewHost(h) \/ AbsentUnauthorizedHost(h)
                      \/ AbsentHost(h) \/ ExistingHost(h)
  \/ \E r \in Roles : AdvanceRole(r)
  \/ AdvanceNothing \/ EndAdvance \/ CheckLastRole \/ MarkAbsentHost
  \/ FetchFails \/ FetchUnauthorized \/ ReportOther \/ ReportRaises
  \/ \E up \in BOOLEAN : ReportConverged(up) \/ ReportFailed(up)
  \/ EndRoles \/ EndPoll

\* those it takes with the lock in its hand only,
PollAdvance ==
  \/ PollerAuth \/ PushAuth \/ PushFails
  \/ PollerDeauth \/ PushDeauth \/ PushDeauthFails

\* and those it takes without it too.
PollConverge ==
  \/ \E r \in Roles : FinishRole(r) \/ FailRole(r)
  \/ MoveToApplied \/ MoveToAppliedFails \/ RemoveRole \/ RemoveRoleFails
  \/ DropHost

PollStep == PollLoop \/ PollAdvance \/ PollConverge

CallStep(c) ==
  \/ InsertHost(c) \/ Associate(c) \/ StartApply(c) \/ CreateCredentials(c)
  \/ CreateCredentialsFails(c) \/ StoreCredentialsFails(c) \/ UndoHost(c)
  \/ AddRoleAuth(c)
  \/ \E r \in Roles : StartDeauth(c, r)
  \/ DeleteRoleDeauth(c)

Request(c) ==
  \E h \in Hosts :
    \/ \E r \in Roles, v \in Versions : AddRole(c, h, r, v)
    \/ \E r \in Roles : DeleteRole(c, h, r)
    \/ DeleteHost(c, h)

Next ==
  \/ PollStep
  \/ \E c \in Callers : CallStep(c) \/ Request(c)
  \/ GetAllHosts
  \/ \E h \in Hosts : HostAppears(h)
  \/ BbmasterRestart
  \/ Restart

Spec == Init /\ [][Next]_vars
-----------------------------------------------------------------------------
(* Properties. *)

\* Threads, poller, lock and crashes together keep the promise of RoleLifeCycle:
\* one association at a time, by its legal steps, each with its auth event.
ImplementsLifeCycle == LifeCycle!Spec

\* The lock-free part of the poller and the API never take a role from each
\* other: whoever is about to move a role finds it in the state it left it in,
\* so the compare-and-set that closes move_new_state never fails.
OwnedByPoller ==
  /\ ppc = "applied" => state[phost][prole] = "auth-converged"
  /\ ppc = "removed" => state[phost][prole] = "deauth-converged"

OwnedByCaller(c) ==
  LET s == state[call[c].host][call[c].role] IN
  /\ call[c].pc = "start" /\ call[c].new => s = "not-applied"
  /\ call[c].pc \in {"credentials", "auth"} =>
       s \in IF call[c].new THEN {"start-apply"} ELSE {"start-apply", "start-edit"}
  /\ call[c].pc = "deauth" => s = "start-deauth"

Owned == OwnedByPoller /\ \A c \in Callers : OwnedByCaller(c)

\* No association outlives its host's row, although the poller checks for the
\* last role and drops the row in two steps, without the lock.
NoOrphan == \A h \in Hosts, r \in Roles : state[h][r] # NoRow => h \in hostRow

\* As long as the manager does not crash, a host without roles is one that some
\* thread is about to give a role or to drop.
NoGhostHost ==
  \A h \in hostRow :
    RolesOf(h) = {} /\ restarts = 0 =>
      \/ phost = h /\ ppc \in {"check", "drop"}
      \/ \E c \in Callers : call[c].host = h /\ call[c].pc \in {"associate", "undo"}

\* A request to delete is turned away where it may be: an unauthorized host has no
\* applied role ("Host %s is classified as unauthorized host. Nothing to delete").
NothingToDelete == \A h \in unauthorized, r \in Roles : state[h][r] # "applied"

-----------------------------------------------------------------------------
(* What makes the invariants inductive; RoleManagerProofs proves IInv. *)

HoldingPC == {"associate", "start", "credentials", "undo", "auth", "deauth"}

\* A thread past its lock acquisition holds the lock; the poller holds it in the
\* advance loop and never while it finishes, fails or queries.
LockDiscipline ==
  /\ \A c \in Callers : call[c].pc \in HoldingPC => lock = c
  /\ ppc = "advance" => lock = Poller
  /\ lock = Poller => ppc \in {"advance", "check", "drop"}

\* Program counters and loop variables go together.
Shape ==
  /\ \A c \in Callers :
       /\ call[c].pc # "idle" => call[c].host \in Hosts
       /\ call[c].pc \in HoldingPC \union {"insert"} => call[c].role \in Roles
  /\ ppc \notin {"idle", "classify", "hosts"} => phost \in Hosts
  /\ ppc \in {"applied", "removed", "check", "drop"} => prole \in Roles

\* No handler has run yet for a row that its request may still undo.
FreshEvents ==
  \A c \in Callers :
    call[c].pc \in {"start", "credentials"} /\ call[c].new =>
      lastEvent[call[c].host][call[c].role] \in LifeCycle!Untouched

IInv ==
  /\ TypeOK /\ LockDiscipline /\ Shape /\ FreshEvents
  /\ Owned /\ LifeCycle!EventOrder /\ NoOrphan /\ NoGhostHost

-----------------------------------------------------------------------------
(* Progress. *)

\* The poller is a thread that runs; a request that was accepted is served; a
\* push that is tried again and again succeeds at some point.
Fairness ==
  /\ WF_vars(PollStep)
  /\ \A c \in Callers : WF_vars(CallStep(c))
  /\ SF_vars(PushAuth) /\ SF_vars(PushDeauth)

FairSpec == Spec /\ Fairness

\* Whatever state a request or a crash leaves a role in, the poller moves it on.
TransientResolved ==
  \A h \in Hosts, r \in Roles, s \in TransientStates :
    state[h][r] = s ~> state[h][r] # s

\* An unauthorized host the backbone no longer knows is removed ("Unauthorized
\* host being removed", _process_absent_hosts), or comes back.
AbsentForgotten ==
  \A h \in Hosts :
    h \in unauthorized /\ h \notin bbHosts ~> h \notin unauthorized \/ h \in bbHosts
=============================================================================
