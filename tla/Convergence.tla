----------------------------- MODULE Convergence -----------------------------
(***************************************************************************)
(* How the configuration of one host comes about: the poller of the        *)
(* resource manager pushes what the host should run to bbmaster, bbmaster  *)
(* sends it to the host agent when the host's last report differs, the     *)
(* agent converges and reports, and the poller moves the roles by the      *)
(* report (_process_existing_hosts of resmgr_provider_pf9.py).  Each may   *)
(* restart, and messages are lost with a connection.                       *)
(*                                                                         *)
(* A role is one app.  Everything is kept per host, so one host is enough. *)
(* The manager's own steps are those of RoleManager, with the states that  *)
(* it passes without waiting for the host left out: its handlers succeed   *)
(* here, and a request is one step, made while the lock is free.           *)
(***************************************************************************)
EXTENDS AppConfig, RoleStates, Sequences

CONSTANTS
  RoleVersions, \* the versions that roles ask for; apps may be in others
  RefusedVersions, \* bound: those that refused adds ask for
  DiskFails,   \* bound: whether the agent's file of the configuration may fail
  MaxAttempts, NoRecord,
  MaxQueue,    \* bound: messages under way in each direction
  MaxRequests, \* bound: add and delete requests
  MaxRestarts, \* bound: restarts of the resource manager
  MaxFaults    \* bound: everything else that goes wrong

ASSUME ConvergenceAssumption ==
  /\ RoleVersions \subseteq Versions /\ RefusedVersions \subseteq RoleVersions
  /\ {MaxAttempts, MaxQueue, MaxRequests, MaxRestarts, MaxFaults} \subseteq Nat

VARIABLES
  installed, desired, attempts, session, applying,  \* HostAgent
  record,                                           \* Bbmaster
  toHost, toMaster,                                 \* the broker
  state,      \* host_role_map.current_state of each role; NoRow without a row
  version,    \* version of the roles row it points to
  received,   \* bbmaster's record arrived after the last push
  pushKnown,  \* the host is in _last_config_push_time
  inactive,   \* the host is in _unauthorized_hosts
  poll,       \* the poller: where it is, and its snapshot of the database
  requests, restarts, faults  \* how often, for the bounds

Agent == INSTANCE HostAgent
Bbm   == INSTANCE Bbmaster

hostVars    == <<installed, desired, attempts, session, applying>>
queueVars   == <<toHost, toMaster>>
roleVars    == <<state, version>>
pushVars    == <<received, pushKnown>>
bounds      == <<requests, restarts, faults>>
managerVars == <<roleVars, pushVars, inactive, poll>>
vars == <<hostVars, record, queueVars, managerVars, bounds>>

PollPC == {"idle", "snapshot", "advance", "process"}
Idle == [pc |-> "idle", todo |-> {}, cfg |-> NoApps, reported |-> FALSE]

TypeOK ==
  /\ Agent!TypeOK /\ Bbm!TypeOK
  /\ state \in [Apps -> RoleState \union {NoRow}]
  /\ version \in [Apps -> Versions \union {Absent}]
  /\ received \in BOOLEAN /\ pushKnown \in BOOLEAN /\ inactive \in BOOLEAN
  /\ poll \in [pc : PollPC, todo : SUBSET Apps, cfg : Config, reported : BOOLEAN]
  /\ requests \in 0 .. MaxRequests /\ restarts \in 0 .. MaxRestarts
  /\ faults \in 0 .. MaxFaults

Init ==
  /\ Agent!Init /\ Bbm!Init
  /\ state = [a \in Apps |-> NoRow] /\ version = [a \in Apps |-> Absent]
  /\ received = FALSE /\ pushKnown = FALSE /\ inactive = FALSE
  /\ poll = Idle
  /\ requests = 0 /\ restarts = 0 /\ faults = 0

Assigned == {a \in Apps : state[a] # NoRow}

\* apps_config of query_host_and_app_details: the apps of the authorized roles
ExpectedConfig ==
  [a \in Apps |-> IF state[a] \in AuthedStates THEN version[a] ELSE Absent]

-----------------------------------------------------------------------------
(* The poller. *)

At(pc) == poll.pc = pc
GoTo(pc) == poll' = [poll EXCEPT !.pc = pc]
EndPoll == poll' = Idle

\* A host does not respond if its last report is too old: one that is not
\* connected or works on its apps may be, and a placeholder is.
Silent == record.status = "missing" \/ session # "up" \/ applying # NoConfig

\* A host without roles that has reported is offered to the user, until it is
\* silent for too long (_process_new_hosts, _cleanup_unauthorized_hosts).
Discover ==
  /\ At("idle") /\ Assigned = {} /\ Bbm!Known
  /\ \/ record.status # "missing" /\ inactive' = TRUE
     \/ Silent /\ inactive' = FALSE
  /\ UNCHANGED <<hostVars, record, queueVars, roleVars, pushVars, poll, bounds>>

\* process_hosts reads bbmaster's ids and the database
Snapshot ==
  /\ At("idle") /\ Assigned # {}
  /\ poll' = [pc |-> "snapshot", todo |-> Assigned, cfg |-> ExpectedConfig,
              reported |-> Bbm!Known]
  /\ UNCHANGED <<hostVars, record, queueVars, roleVars, pushVars, inactive, bounds>>

\* and turns to the host: _advance_from_transient_state, with the lock
StartAdvance ==
  /\ At("snapshot") /\ GoTo("advance")
  /\ UNCHANGED <<hostVars, record, queueVars, roleVars, pushVars, inactive, bounds>>

\* push_configuration
Push(cfg) ==
  /\ Bbm!SetHostApps(cfg)
  /\ received' = FALSE /\ pushKnown' = TRUE

Pushed == [s \in {"pre-auth", "pre-deauth"} |->
             IF s = "pre-auth" THEN "auth-converging" ELSE "deauth-converging"]

\* move_to_auth_converging_state, move_to_deauth_converging_state
AdvanceRole(a) ==
  /\ At("advance") /\ a \in poll.todo
  /\ poll' = [poll EXCEPT !.todo = @ \ {a}]
  /\ IF state[a] \in DOMAIN Pushed
       THEN Push(poll.cfg) /\ state' = [state EXCEPT ![a] = Pushed[@]]
       ELSE UNCHANGED <<record, queueVars, state, pushVars>>
  /\ UNCHANGED <<hostVars, version, inactive, bounds>>

\* an absent host is not asked for
EndAdvance ==
  /\ At("advance") /\ poll.todo = {}
  /\ IF poll.reported THEN GoTo("process") ELSE EndPoll
  /\ UNCHANGED <<hostVars, record, queueVars, roleVars, pushVars, inactive, bounds>>

\* received_since_last_push; no push is known after a restart
\* faulty: every report counts
ReceivedAlways == TRUE
ReceivedSinceLastPush == received \/ ~pushKnown

Failed(s)   == IF s = "auth-converging" THEN "auth-error"
               ELSE IF s = "deauth-converging" THEN "deauth-error" ELSE s
Finished(s) == IF s = "auth-converging" THEN "applied"
               ELSE IF s = "deauth-converging" THEN NoRow ELSE s

Processing == At("process") /\ EndPoll /\ UNCHANGED <<hostVars, inactive, bounds>>

\* The host gave up: _fail_role_converge.
HostFailed == ReceivedSinceLastPush /\ record.status = "failed"

ProcessFailed ==
  /\ Processing /\ Bbm!Known /\ HostFailed
  /\ state' = [a \in Apps |-> Failed(state[a])]
  /\ UNCHANGED <<record, queueVars, version, pushVars>>

\* The host converged, or does not answer: _finish_role_converge.
Converged ==
  /\ ReceivedSinceLastPush /\ record.status = "ok"
  /\ IsSatisfiedBy(poll.cfg, record.apps)

ProcessFinished ==
  /\ Processing /\ Bbm!Known /\ ~HostFailed
  /\ Silent \/ Converged
  /\ state' = [a \in Apps |-> Finished(state[a])]
  /\ version' = [a \in Apps |-> IF state'[a] = NoRow THEN Absent ELSE version[a]]
  /\ UNCHANGED <<record, queueVars, pushVars>>

\* host_config: what the host runs, or what it is converging to
HostConfig ==
  IF record.status = "ok" THEN record.apps
  ELSE IF record.desired = NoConfig THEN NoApps ELSE record.desired

\* The host answers, and the roles go on waiting: with another push, if it runs
\* or converges to something else.
StillWaiting ==
  /\ At("process") /\ Bbm!Known /\ ~HostFailed
  /\ record.status # "missing" /\ ~Converged

PushAgain == StillWaiting /\ ~IsSatisfiedBy(poll.cfg, HostConfig)

ProcessPush == PushAgain /\ Processing /\ Push(poll.cfg) /\ UNCHANGED roleVars

ProcessWait ==
  /\ StillWaiting /\ ~PushAgain /\ Processing
  /\ UNCHANGED <<record, queueVars, roleVars, pushVars>>

\* bbmaster forgot the host since it was listed
ProcessUnknown ==
  /\ Processing /\ ~Bbm!Known
  /\ UNCHANGED <<record, queueVars, roleVars, pushVars>>

PollStep ==
  \/ Discover \/ Snapshot \/ StartAdvance
  \/ \E a \in Apps : AdvanceRole(a)
  \/ EndAdvance
  \/ ProcessFailed \/ ProcessFinished \/ ProcessPush \/ ProcessWait
  \/ ProcessUnknown

-----------------------------------------------------------------------------
(* Requests, when the poller does not hold the lock. *)

Request(a, from, to, v) ==
  /\ requests < MaxRequests /\ ~At("advance")
  /\ state[a] \in from /\ (Assigned # {} \/ inactive)
  /\ state' = [state EXCEPT ![a] = to]
  /\ version' = [version EXCEPT ![a] = v]
  /\ requests' = requests + 1 /\ inactive' = FALSE
  /\ UNCHANGED <<hostVars, record, queueVars, pushVars, poll, restarts, faults>>

Addable == {NoRow, "applied", "auth-error"}
AddRole(a, v) == Request(a, Addable, "pre-auth", v)

\* An add that the role's state refuses has stored its version before it fails.
AddRefused(a, v) ==
  /\ requests < MaxRequests /\ ~At("advance") /\ state[a] \notin Addable
  /\ version' = [version EXCEPT ![a] = v]
  /\ requests' = requests + 1
  /\ UNCHANGED <<hostVars, record, queueVars, state, pushVars, inactive, poll, restarts, faults>>

DeleteRole(a) ==
  Request(a, {"applied", "auth-error", "deauth-error"}, "pre-deauth", version[a])

-----------------------------------------------------------------------------
(* What goes wrong. *)

Faulty == faults < MaxFaults /\ faults' = faults + 1 /\ UNCHANGED <<requests, restarts>>

\* Asking bbmaster fails, or a push raises, before or after it took effect: the
\* poll ends, the roles stay, and the time of the push is not noted.
PollFails ==
  /\ Faulty /\ EndPoll
  /\ \/ /\ At("process")
        /\ UNCHANGED <<record, queueVars>>
     \/ /\ \/ PushAgain
           \/ At("advance") /\ \E a \in poll.todo : state[a] \in DOMAIN Pushed
        /\ Bbm!SetHostApps(poll.cfg) \/ UNCHANGED <<record, queueVars>>
  /\ UNCHANGED <<hostVars, roleVars, pushVars, inactive>>

HostFault ==
  /\ Faulty /\ (Agent!Fault \/ (DiskFails /\ Agent!FileFault))
  /\ UNCHANGED <<record, managerVars>>

BbmasterFault ==
  Faulty /\ Bbm!Fault /\ UNCHANGED <<hostVars, managerVars>>

\* The resource manager restarts: the poll and the times of the pushes are lost.
ManagerRestart ==
  /\ restarts < MaxRestarts /\ restarts' = restarts + 1
  /\ EndPoll /\ pushKnown' = FALSE /\ inactive' = FALSE
  /\ UNCHANGED <<hostVars, record, queueVars, roleVars, received, requests, faults>>

-----------------------------------------------------------------------------
\* A step of the agent leaves the others alone.
ByAgent(A) == A /\ UNCHANGED <<record, managerVars, bounds>>

AgentStep == ByAgent(Agent!Step)

Consume ==
  /\ Bbm!Consume /\ received' = TRUE
  /\ UNCHANGED <<hostVars, roleVars, pushKnown, inactive, poll, bounds>>

Next ==
  \/ AgentStep \/ Consume \/ PollStep
  \/ \E a \in Apps :
       \/ \E v \in RoleVersions : AddRole(a, v)
       \/ \E v \in RefusedVersions : AddRefused(a, v)
       \/ DeleteRole(a)
  \/ PollFails \/ HostFault \/ BbmasterFault \/ ManagerRestart

Spec == Init /\ [][Next]_vars

\* Every process runs: the poller polls, bbmaster consumes, the agent reconnects,
\* beats and ends its work.  A message is consumed at some point, although here
\* heartbeats may fill the bounded queue before it again and again.
Fairness ==
  /\ WF_vars(PollStep) /\ WF_vars(Consume)
  /\ WF_vars(ByAgent(Agent!FirstHeartbeat))
  /\ WF_vars(ByAgent(Agent!Connect)) /\ WF_vars(ByAgent(Agent!OpenChannel))
  /\ WF_vars(ByAgent(Agent!Heartbeat))
  /\ WF_vars(ByAgent(Agent!EndConverge))
  /\ SF_vars(ByAgent(Agent!SetConfig))

FairSpec == Spec /\ Fairness
-----------------------------------------------------------------------------
(* Properties. *)

\* A report that bbmaster got before the last push does not fail a role
\* (received_since_last_push: "ignore it if it's leftover in the bbmaster"), as
\* long as the manager that pushed still runs: its restart forgets the push.
LeftoverFails ==
  ~received /\ \E a \in Apps : state'[a] # state[a] /\ state'[a] \in FailedStates

LeftoverIgnoredWhileUp == [][restarts = 0 => ~LeftoverFails]_vars

\* A deauthorized role whose host reports "ok" is off the host when its row goes:
\* its app is not in that report ("all assigned roles will be removed from the
\* host", DELETE of a host and of a role).
RemovedFromHost ==
  [][\A a \in Apps :
       state[a] = "deauth-converging" /\ state'[a] = NoRow
         => Silent \/ record.apps[a] = Absent]_vars

\* When requests and faults are over, no role waits for its host any more, and
\* the host runs what its roles say, or has given up on something.
Resting == \A a \in Apps : state[a] \in RestingStates \union {NoRow}

GaveUp == attempts = MaxAttempts /\ applying = NoConfig /\ desired # installed

Settled ==
  Resting /\ (Assigned = {} \/ installed = ExpectedConfig \/ GaveUp)

EventuallyConverged == <>[]Settled

\* "Push configuration to bbone is idempotent, so we will end up with a converged
\* state eventually" (add_role): unless a role has failed, the host gets at least
\* to try the configuration that its roles say.
Tried ==
  \/ Assigned = {} \/ installed = ExpectedConfig \/ desired = ExpectedConfig
  \/ \E a \in Apps : state[a] \in FailedStates

EventuallyTried == <>[]Tried

\* Pushes stop: the poller does not go on sending a host what it has.
Quiet == <>[][Len(toHost') <= Len(toHost)]_toHost
=============================================================================
