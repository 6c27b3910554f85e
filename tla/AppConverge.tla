----------------------------- MODULE AppConverge -----------------------------
(***************************************************************************)
(* How the host agent changes the apps of its host: handle_msg of          *)
(* session.py around process_apps of algorithms.py, one command of the     *)
(* package manager, a config script or the init system at a time.  Each    *)
(* may fail, and the agent may die between any two.                        *)
(*                                                                         *)
(* This is the inside of HostAgent's EndConverge.  Its connection and the  *)
(* messages it sends are left to HostAgent.                                *)
(***************************************************************************)
EXTENDS AppHost, Sequences, FiniteSets, SequencesExt

CONSTANTS
  NoConfig,    \* None
  Comms,       \* pf9-comms, through which the agent reaches the broker
  Rank,        \* the rank of each app
  Goals,       \* configurations that set_config messages bring
  Preinstalled, \* what may be on a host when the agent comes
  MaxAttempts, \* max_converge_attempts
  MaxMessages, \* bound: messages
  MaxFaults    \* bound: commands that fail, deaths of the agent, apps that change

ASSUME AppConvergeAssumption ==
  /\ Comms \in Apps /\ Rank \in [Apps -> Nat]
  /\ Goals \subseteq AppConfigs /\ Preinstalled \subseteq AppConfigs
  /\ IsFiniteSet(Apps) /\ MaxAttempts \in Nat /\ MaxMessages \in Nat /\ MaxFaults \in Nat

\* None and a missing app are told from configurations and what is in them.
ASSUME SpecialValues ==
  /\ NoConfig \notin AppConfigs
  /\ Absent \notin AppState

VARIABLES
  desired,  \* desired_apps.json, or NoConfig without it
  attempts, \* state['converge_attempts']
  goal,     \* what process_apps works on, or NoConfig
  todo,     \* the apps it has yet to change, with the commands left for each
  before,   \* history: the apps when it began
  replaced, \* history: apps that it removed for another version, and that are away
  messages, faults

convergeVars == <<desired, attempts, goal, todo, before, replaced>>
vars == <<hostVars, convergeVars, messages, faults>>

Commands == {"stop", "remove", "tools", "download", "install", "configure", "serve"}
Job == [app : Apps, ops : Seq(Commands) \ {<<>>}]

TypeOK ==
  /\ HostTypeOK
  /\ desired \in AppConfigs \union {NoConfig}
  /\ attempts \in 0 .. MaxAttempts
  /\ goal \in AppConfigs \union {NoConfig}
  /\ todo \in Seq(Job)
  /\ before \in AppConfigs /\ replaced \subseteq Apps
  /\ messages \in 0 .. MaxMessages /\ faults \in 0 .. MaxFaults

Init ==
  /\ HostInit(Preinstalled)
  /\ desired = NoConfig /\ attempts = 0
  /\ goal = NoConfig /\ todo = <<>> /\ before = apps /\ replaced = {}
  /\ messages = 0 /\ faults = 0

Waiting == goal = NoConfig

Fault == faults < MaxFaults /\ faults' = faults + 1

-----------------------------------------------------------------------------
(* process_apps: what it will do, of what it found. *)

\* get_app_ordering; apps of one rank come in any order
Orders(S) ==
  {s \in [1 .. Cardinality(S) -> S] :
     IsInjective(s) /\ \A i, j \in DOMAIN s : i < j => Rank[s[i]] <= Rank[s[j]]}

Uninstall == <<"stop", "remove">>
New == <<"download", "install", "configure", "serve">>

\* An app whose version changes is downloaded before it is uninstalled.
\* faulty: it is downloaded when it is to be installed
UpgradeLate == <<"stop", "remove", "download", "install", "configure", "serve">>
Upgrade == <<"download", "stop", "remove", "install", "configure", "serve">>

\* the commands for an app that is there and stays
\* faulty: only the version is compared
KeepVersionOnly(found, wanted) == IF found.version # wanted.version THEN Upgrade ELSE <<>>
\* faulty: an app of the right version is installed again, too
KeepReinstall(found, wanted) == IF found # wanted THEN Upgrade ELSE Uninstall \o New
Keep(found, wanted) ==
  IF found.version # wanted.version THEN Upgrade
  ELSE (IF HasConfig(found, wanted) THEN <<>> ELSE <<"configure">>) \o
       (IF HasServiceStates(found, wanted) THEN <<>> ELSE <<"serve">>)

Named(c) == {a \in Apps : c[a] # Absent}

Work(found, wanted) ==
  [a \in Apps |-> IF wanted[a] = Absent THEN Uninstall
                  ELSE IF found[a] = Absent THEN New
                  ELSE Keep(found[a], wanted[a])]

Jobs(order, work) == [i \in DOMAIN order |-> [app |-> order[i], ops |-> work[order[i]]]]

\* First the apps that are not wanted go, in any order, then comes the
\* dependency, then the apps that stay and those that are new.
Plans(found, wanted) ==
  LET work == Work(found, wanted)
      gone == Named(found) \ Named(wanted)
      kept == {a \in Named(found) \intersect Named(wanted) : work[a] # <<>>}
      new  == Named(wanted) \ Named(found)
  IN {Jobs(g, work) \o <<[app |-> Comms, ops |-> <<"tools">>]>>
        \o Jobs(k, work) \o Jobs(n, work) :
      g \in SetToSeqs(gone), k \in Orders(kept), n \in Orders(new)}

-----------------------------------------------------------------------------
(* handle_msg. *)

\* get_current_config, or an rpm that fails and says that there are no apps
CurrentConfig(found) ==
  \/ found = apps /\ UNCHANGED faults
  \/ found = QueryFailed /\ apps # QueryFailed /\ Fault

\* _handle_iaas_3166: pf9-comms runs, if it is wanted at all
\* faulty: left out
ForceNothing(wanted) == wanted
ForceComms(wanted) ==
  IF wanted[Comms] = Absent THEN wanted ELSE [wanted EXCEPT ![Comms].running = TRUE]

\* faulty: one attempt too many
ExhaustedLate(tried) == tried > MaxAttempts
Exhausted(tried) == tried >= MaxAttempts

\* From the probe (process_apps with probe_only, which installs the dependency
\* all the same) to the start of process_apps.  What has converged is found
\* before pf9-comms is forced to run.
Handle(found, wanted, tried) ==
  /\ InstallDep
  /\ desired' = ForceComms(wanted)
  /\ IF found = wanted \/ Exhausted(tried)
       THEN attempts' = tried /\ UNCHANGED <<goal, todo, before>>
       ELSE /\ attempts' = tried + 1
            /\ goal' = desired' /\ todo' \in Plans(found, desired')
            /\ before' = apps

\* a heartbeat: on with the file; without one, what is there is wanted
Heartbeat ==
  /\ Waiting
  /\ \E found \in {apps, QueryFailed} :
       /\ CurrentConfig(found)
       /\ Handle(found, IF desired = NoConfig THEN found ELSE desired, attempts)
  /\ UNCHANGED <<messages, replaced>>

Receive == Waiting /\ messages < MaxMessages /\ messages' = messages + 1

SetConfig(wanted) ==
  /\ Receive
  /\ \E found \in {apps, QueryFailed} : CurrentConfig(found) /\ Handle(found, wanted, 0)
  /\ replaced' = {}

\* Reading the apps, or the dependency of the probe, raises: the message is
\* dropped, before or after the attempts are reset.
Dropped ==
  /\ Receive /\ Fault /\ attempts' \in {attempts, 0}
  /\ UNCHANGED <<hostVars, desired, goal, todo, before, replaced>>

-----------------------------------------------------------------------------
(* process_apps at work. *)

Advance ==
  todo' = IF Tail(Head(todo).ops) = <<>> THEN Tail(todo)
          ELSE [todo EXCEPT ![1].ops = Tail(@)]
Abandon == todo' = <<>>   \* an exception: what was still to do is left

At(op, a) == todo # <<>> /\ Head(todo).app = a /\ Head(Head(todo).ops) = op

Raises == Fault /\ Abandon /\ UNCHANGED <<hostVars, replaced>>

Working == UNCHANGED <<desired, attempts, goal, before, messages>>

Succeeds == Advance /\ UNCHANGED <<replaced, faults>>

\* set_desired_service_states: a service that does not do as it is told is logged
Service(op, a, run) ==
  /\ At(op, a) /\ Working
  /\ \/ SetRunState(a, run) /\ Succeeds
     \/ Fault /\ Advance /\ UNCHANGED <<hostVars, replaced>>

\* uninstall: the service is stopped, and the package removed whether it did or not
Stop(a) == Service("stop", a, FALSE)

RemoveApp(a) ==
  /\ At("remove", a) /\ Working
  /\ \/ /\ RemovePackage(a) /\ Advance /\ UNCHANGED faults
        /\ replaced' = IF goal[a] = Absent THEN replaced ELSE replaced \union {a}
     \/ Raises

Tools ==
  /\ At("tools", Comms) /\ Working
  /\ \/ InstallDep /\ Succeeds
     \/ ~tools /\ Raises

Fetch(a) ==
  /\ At("download", a) /\ Working
  /\ \/ Download(<<a, goal[a].version>>) /\ Succeeds
     \/ <<a, goal[a].version>> \notin cache /\ Raises

\* install: from the cache, with a download if the package is not there
Install(a) ==
  /\ At("install", a) /\ Working
  /\ \/ /\ InstallFromFile(a, goal[a].version) /\ cache' = cache \union {<<a, goal[a].version>>}
        /\ Advance /\ replaced' = replaced \ {a} /\ UNCHANGED faults
     \/ Raises

Configure(a) ==
  /\ At("configure", a) /\ Working
  /\ \/ SetSettings(a, goal[a].settings) /\ Succeeds
     \/ Raises

Serve(a) == Service("serve", a, goal[a].running)

\* faulty: not before the apps are as they should be
DoneConverged == todo = <<>> /\ apps = goal
Done == todo = <<>>

\* handle_msg after process_apps: only the report depends on what it reads now;
\* the dependency of the second probe may raise out of it, and start() is called
\* again.
End ==
  /\ ~Waiting /\ Done
  /\ goal' = NoConfig
  /\ \/ InstallDep /\ UNCHANGED <<attempts, faults>>
     \/ ~tools /\ Fault /\ attempts' = 0 /\ UNCHANGED hostVars
  /\ UNCHANGED <<desired, todo, before, replaced, messages>>

Command ==
  \/ Tools
  \/ \E a \in Apps :
       Stop(a) \/ RemoveApp(a) \/ Fetch(a) \/ Install(a) \/ Configure(a) \/ Serve(a)

-----------------------------------------------------------------------------
(* update_agent. *)

\* the start of the process: the cache is cleaned, attempts are counted anew
StartProcess(files) ==
  /\ attempts' = 0 /\ goal' = NoConfig /\ todo' = <<>>
  /\ cache' = IF desired = NoConfig THEN files ELSE Cleaned(files, desired)
  /\ UNCHANGED <<tools, desired, before, replaced>>

\* A set_agent message: nothing to do for the version that is there, else it is
\* downloaded and installed; the agent is started anew either way.  The download
\* or the installation may raise.
UpdateAgent(v) ==
  /\ Receive
  /\ \/ /\ IF agent = v THEN UNCHANGED agent /\ StartProcess(cache)
             ELSE UpdateFromFile(v) /\ StartProcess(cache \union {<<Agent, v>>})
        /\ UNCHANGED <<apps, faults>>
     \/ /\ agent # v /\ Fault /\ cache' \in {cache, cache \union {<<Agent, v>>}}
        /\ UNCHANGED <<apps, tools, agent, convergeVars>>

-----------------------------------------------------------------------------
(* The rest of the host. *)

\* Without pf9-comms there is no broker: start() ends with AMQPConnectionError
\* and is called again, with no attempts made.
Reconnect ==
  /\ Waiting /\ Installed(Comms) /\ ~apps[Comms].running
  /\ attempts' = 0
  /\ UNCHANGED <<hostVars, desired, goal, todo, before, replaced, messages, faults>>

\* The agent dies at any point and is started again; a host that goes down with it
\* has stopped the services when the agent, started again, dies once more.
Restart ==
  /\ Fault
  /\ StartProcess(cache)
  /\ \/ UNCHANGED apps
     \/ Waiting /\ apps' = [a \in Apps |-> IF Installed(a) THEN [apps[a] EXCEPT !.running = FALSE]
                                ELSE Absent]
  /\ UNCHANGED <<agent, messages>>

\* A service dies, or an app is deleted out of band.
Drift(a) ==
  /\ Waiting /\ Fault /\ Installed(a)
  /\ apps' \in {[apps EXCEPT ![a].running = FALSE], [apps EXCEPT ![a] = Absent]}
  /\ UNCHANGED <<tools, cache, agent, convergeVars, messages>>

Next ==
  \/ Heartbeat \/ Dropped \/ Command \/ End \/ Reconnect \/ Restart
  \/ \E wanted \in Goals : SetConfig(wanted)
  \/ \E v \in Releases : UpdateAgent(v)
  \/ \E a \in Apps : Drift(a)

Spec == Init /\ [][Next]_vars

\* The agent's one thread goes on with what it does, its timer beats, and it
\* tries again to connect.
Fairness == WF_vars(Command \/ End) /\ WF_vars(Heartbeat) /\ WF_vars(Reconnect)

FairSpec == Spec /\ Fairness
-----------------------------------------------------------------------------
(* Properties. *)

\* process_apps keeps the promise that HostAgent is built on, for specs with
\* version, settings and service: whichever command fails and wherever the agent
\* dies, an app that was as it should be is as it was, also when it was not found
\* (a failing rpm) and installed over; and one that stays at its version is never
\* away or reset to the factory's settings.  An app that comes, goes or changes its
\* version may be away, or installed and not configured or started.
Stays(old, new) == old # Absent /\ new # Absent /\ old.version = new.version
Specs(old, new) == {old, new} \ {Absent}
HalfDone(old, new) ==
  [version  : {s.version : s \in Specs(old, new)},
   settings : {s.settings : s \in Specs(old, new)}
                \union (IF Stays(old, new) THEN {} ELSE {Factory}),
   running  : {s.running : s \in Specs(old, new)}
                \union (IF Stays(old, new) THEN {} ELSE {FALSE})]
  \union (IF Stays(old, new) THEN {} ELSE {Absent})

SpecOf == AppState \union {Absent}
Change == INSTANCE AppChange WITH
            Versions  <- AppState,
            Halfway   <- [pair \in SpecOf \X SpecOf |-> HalfDone(pair[1], pair[2])],
            installed <- IF Waiting THEN apps ELSE before,
            applying  <- goal

ImplementsAppChange == Change!Safety

\* And it ends: a change that has begun does not go on for ever.
ChangeEnds == Change!Fairness

\* An upgrade that was cut short between the removal of the old version and the
\* installation of the new needs no network to go on: the new package is in the
\* cache, also after the cleanup at a restart ("download" comes before
\* "uninstall" in process_apps).
UpgradeNeedsNoNetwork ==
  \A a \in replaced : desired[a] # Absent /\ <<a, desired[a].version>> \in cache

\* Once nothing fails any more, an agent that has attempts left reaches the
\* configuration in its file, whatever state the failures left the apps in.
Converges ==
  (faults = MaxFaults /\ Waiting /\ desired # NoConfig /\ attempts < MaxAttempts)
    ~> (Waiting /\ apps = desired)

\* pf9-comms is brought back for as long as it is wanted, also by an agent that
\* has used up its attempts, was told not to run it, or found it stopped when it
\* first came ("necessary to restart critical pf9apps like pf9-comms after a
\* reboot").
CommsStopped == Installed(Comms) /\ ~apps[Comms].running
CommsComesBack == <>[]~CommsStopped
=============================================================================
