------------------------------ MODULE HostAgent ------------------------------
(***************************************************************************)
(* The host agent (src/bbone/bbslave/bbslave/session.py and slave.py): it  *)
(* handles set_config messages and its own heartbeats one at a time, keeps *)
(* the configuration it should reach in a file, changes the installed apps *)
(* towards it, counts its attempts, and reports to the master.             *)
(*                                                                         *)
(* The agent is one thread, so handling a message is a step, but for the   *)
(* change of the apps in its middle (process_apps), which takes long and   *)
(* has messages pile up; there the agent may die, and the apps it was to   *)
(* change are left old, new or half changed (AppChange).                   *)
(***************************************************************************)
EXTENDS AppConfig, Sequences, Naturals

CONSTANTS
  MaxAttempts, \* max_converge_attempts of the agent's configuration
  MaxQueue     \* bound: messages under way in each direction

VARIABLES
  installed, \* the apps of the host, as get_current_config finds them
  desired,   \* the file desired_apps.json; NoConfig without one
  attempts,  \* state['converge_attempts']
  session,   \* start() called, first heartbeat done, connected, send channel open
  applying,  \* the configuration process_apps works on, or NoConfig
  toHost,    \* the host's queue at the broker: the data of set_config messages
  toMaster   \* status messages on their way to bbmaster

\* What process_apps leaves of an app that it was to change may be any spec: half
\* installed, installed and not configured, stopped and not removed.
AppSpec == Versions \union {Absent}
Change == INSTANCE AppChange WITH Halfway <- [pair \in AppSpec \X AppSpec |-> AppSpec]

agentVars == <<installed, desired, attempts, session, applying>>

Status == {"ok", "converging", "retrying", "failed"}
Report == [status : Status, apps : Config, desired : Config \union {NoConfig}]

UpTo(S, n) == UNION {[1 .. k -> S] : k \in 0 .. n}

TypeOK ==
  /\ installed \in Config
  /\ desired \in Config \union {NoConfig}
  /\ attempts \in 0 .. MaxAttempts
  /\ session \in {"started", "connecting", "opening", "up"}
  /\ applying \in Config \union {NoConfig}
  /\ toHost \in UpTo(Config, MaxQueue)
  /\ toMaster \in UpTo(Report, MaxQueue)

Init ==
  /\ installed = NoApps /\ desired = NoConfig
  /\ attempts = 0 /\ session = "started" /\ applying = NoConfig
  /\ toHost = <<>> /\ toMaster = <<>>

\* send_status: nothing is sent while the channel is closed
Room == session = "up" => Len(toMaster) < MaxQueue
SendStatus(status, apps, wanted) ==
  toMaster' = IF session = "up"
                THEN Append(toMaster, [status |-> status, apps |-> apps, desired |-> wanted])
                ELSE toMaster

\* save_desired_config
\* faulty: the first configuration stays
SaveDesiredOnce(cfg) == desired' = IF desired = NoConfig THEN cfg ELSE desired
SaveDesired(cfg) == desired' = cfg

\* faulty: one attempt too many
ExhaustedLate(tried) == tried > MaxAttempts
Exhausted(tried) == tried >= MaxAttempts

\* handle_msg from after save_desired_config to the start of process_apps, for the
\* configuration to reach and the attempts made so far
React(wanted, tried) ==
  /\ applying = NoConfig /\ Room
  /\ \/ /\ wanted = installed
        /\ SendStatus("ok", installed, NoConfig)
        /\ attempts' = tried /\ UNCHANGED applying
     \/ /\ wanted # installed /\ Exhausted(tried)
        /\ SendStatus("failed", installed, wanted)
        /\ attempts' = tried /\ UNCHANGED applying
     \/ /\ wanted # installed /\ ~Exhausted(tried)
        /\ SendStatus("converging", installed, wanted)
        /\ attempts' = tried + 1 /\ applying' = wanted
  /\ UNCHANGED installed

Handle(wanted, tried) == SaveDesired(wanted) /\ React(wanted, tried)

\* a heartbeat goes on with the file; without one, what is installed is desired
HandleHeartbeat == Handle(IF desired = NoConfig THEN installed ELSE desired, attempts)

\* start(): one heartbeat before there is a connection,
FirstHeartbeat ==
  /\ session = "started"
  /\ HandleHeartbeat
  /\ session' = "connecting" /\ UNCHANGED toHost

\* another when it is up (connection_up_cb), which starts the timer,
Connect ==
  /\ session = "connecting"
  /\ HandleHeartbeat
  /\ session' = "opening" /\ UNCHANGED toHost

\* and one more when the send channel is (send_channel_up_cb), as the timer's.
OpenChannel ==
  /\ session = "opening" /\ applying = NoConfig
  /\ session' = "up"
  /\ UNCHANGED <<installed, desired, attempts, applying, toHost, toMaster>>

Heartbeat ==
  /\ session = "up" /\ HandleHeartbeat
  /\ UNCHANGED <<session, toHost>>

\* A new configuration starts the count anew.
SetConfig ==
  /\ session = "up" /\ toHost # <<>>
  /\ toHost' = Tail(toHost)
  /\ Handle(Head(toHost), 0)
  /\ UNCHANGED session

\* process_apps ends, complete or with an exception, and the result is reported,
\* unless the apps that are installed now cannot be read
EndConverge ==
  /\ applying # NoConfig /\ Room
  /\ \E now \in Change!Mixture(installed, applying) :
       /\ installed' = now
       /\ \/ now = applying /\ SendStatus("ok", now, NoConfig)
          \/ /\ now # applying
             /\ SendStatus(IF Exhausted(attempts) THEN "failed" ELSE "retrying",
                           now, applying)
          \/ UNCHANGED toMaster
  /\ applying' = NoConfig
  /\ UNCHANGED <<desired, attempts, session, toHost>>

Step == FirstHeartbeat \/ Connect \/ OpenChannel \/ Heartbeat \/ SetConfig \/ EndConverge

-----------------------------------------------------------------------------
(* What goes wrong. *)

\* Reading the installed apps raises: handle_msg drops the message, before or
\* after it resets the attempts.
SetConfigDropped ==
  /\ session = "up" /\ applying = NoConfig /\ toHost # <<>>
  /\ toHost' = Tail(toHost)
  /\ attempts' \in {attempts, 0}
  /\ UNCHANGED <<installed, desired, session, applying, toMaster>>

\* save_desired_config fails, and only logs it: the agent works on a configuration
\* that it will not know of at its next heartbeat.
SetConfigUnsaved ==
  /\ session = "up" /\ toHost # <<>>
  /\ toHost' = Tail(toHost)
  /\ React(Head(toHost), 0)
  /\ UNCHANGED <<desired, session>>

\* load_desired_config fails: what is installed is taken for desired, and saved.
HeartbeatUnread ==
  /\ session = "up" /\ Handle(installed, attempts)
  /\ UNCHANGED <<session, toHost>>

\* The process dies, or start() ends with an exception, at the broker or in a
\* handler (the upload of the support bundle before the last attempt among
\* them), and is called again.  Messages are consumed without acknowledgement:
\* those delivered are lost, and so are reports not yet sent.
Restart ==
  /\ session' = "started" /\ attempts' = 0 /\ applying' = NoConfig
  /\ installed' \in IF applying = NoConfig THEN {installed}
                    ELSE Change!Mixture(installed, applying)
  /\ \E i \in 0 .. Len(toHost) : toHost' = SubSeq(toHost, i + 1, Len(toHost))
  /\ \E i \in 0 .. Len(toMaster) : toMaster' = SubSeq(toMaster, 1, i)
  /\ UNCHANGED desired

\* Apps are installed and deleted out of band.
Drift ==
  /\ applying = NoConfig
  /\ installed' \in Config \ {installed}
  /\ UNCHANGED <<desired, attempts, session, applying, toHost, toMaster>>

Fault == SetConfigDropped \/ Restart \/ Drift
FileFault == SetConfigUnsaved \/ HeartbeatUnread
=============================================================================
