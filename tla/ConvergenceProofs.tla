--------------------------- MODULE ConvergenceProofs ---------------------------
(***************************************************************************)
(* The resource manager, bbmaster and the host agent together: their state *)
(* keeps its types, and no role fails by a report from before its push     *)
(* (LeftoverIgnoredWhileUp), for any apps, versions, requests, restarts,   *)
(* lost messages and failures.                                             *)
(*                                                                         *)
(* The manager knows the reports from before a push by the time of the     *)
(* push.  That it noted one for every role that waits for its host         *)
(* (PushNoted) is what the second rests on.                                *)
(***************************************************************************)
EXTENDS Convergence, TLAPS

Reports == [status : {"ok", "converging", "retrying", "failed"}, apps : Config,
            desired : Config \union {NoConfig}]

\* TypeOK, with the bounded queues as sequences and their length
HostTypes ==
  /\ installed \in Config /\ desired \in Config \union {NoConfig}
  /\ attempts \in 0 .. MaxAttempts
  /\ session \in {"started", "connecting", "opening", "up"}
  /\ applying \in Config \union {NoConfig}

QueueTypes ==
  /\ toHost \in Seq(Config) /\ Len(toHost) <= MaxQueue
  /\ toMaster \in Seq(Reports) /\ Len(toMaster) <= MaxQueue

ManagerTypes ==
  /\ record \in {NoRecord, Bbm!Missing} \union Reports
  /\ state \in [Apps -> RoleState \union {NoRow}]
  /\ version \in [Apps -> Versions \union {Absent}]
  /\ received \in BOOLEAN /\ pushKnown \in BOOLEAN /\ inactive \in BOOLEAN
  /\ poll \in [pc : PollPC, todo : SUBSET Apps, cfg : Config, reported : BOOLEAN]

BoundTypes ==
  /\ requests \in 0 .. MaxRequests /\ restarts \in 0 .. MaxRestarts
  /\ faults \in 0 .. MaxFaults

Types == HostTypes /\ QueueTypes /\ ManagerTypes /\ BoundTypes

\* A manager that has not been restarted knows when it pushed to the host for
\* which its roles wait.
PushNoted == restarts = 0 /\ ~pushKnown => \A a \in Apps : state[a] \notin WaitingStates

IInv == Types /\ PushNoted
-----------------------------------------------------------------------------
(* Configurations and queues. *)

LEMMA SameConfig ==
  /\ Agent!Config = Config /\ Agent!Change!Config = Config /\ Bbm!Config = Config
  /\ Agent!NoApps = NoApps /\ NoApps \in Config
  /\ Agent!Report = Reports /\ Bbm!Records = {NoRecord, Bbm!Missing} \union Reports
BY DEF Agent!Config, Agent!Change!Config, Bbm!Config, Config, Agent!NoApps, NoApps,
       Agent!Report, Agent!Status, Bbm!Records, Reports

LEMMA UpToFacts ==
  ASSUME NEW S, NEW n \in Nat, NEW s \in Seq(S), Len(s) <= n
  PROVE  s \in Agent!UpTo(S, n)
<1>1. Len(s) \in 0 .. n /\ s \in [1 .. Len(s) -> S]
  OBVIOUS
<1> QED
  BY <1>1 DEF Agent!UpTo

LEMMA TypesFacts == ASSUME Types PROVE TypeOK
<1>1. /\ toHost \in Agent!UpTo(Config, MaxQueue)
      /\ toMaster \in Agent!UpTo(Reports, MaxQueue)
  BY UpToFacts, ConvergenceAssumption DEF Types, QueueTypes
<1>2. Agent!TypeOK
  BY <1>1, SameConfig DEF Types, HostTypes, Agent!TypeOK
<1>3. Bbm!TypeOK
  BY SameConfig DEF Types, ManagerTypes, Bbm!TypeOK
<1> QED
  BY <1>2, <1>3 DEF Types, ManagerTypes, BoundTypes, TypeOK

\* A part of a queue, of which messages were consumed or lost
LEMMA PartFacts ==
  ASSUME NEW S, NEW s \in Seq(S), NEW i \in 0 .. Len(s)
  PROVE  /\ SubSeq(s, 1, i) \in Seq(S) /\ Len(SubSeq(s, 1, i)) <= Len(s)
         /\ SubSeq(s, i + 1, Len(s)) \in Seq(S) /\ Len(SubSeq(s, i + 1, Len(s))) <= Len(s)
<1>1. Len(s) \in Nat /\ \A k \in 1 .. Len(s) : s[k] \in S
  OBVIOUS
<1>2. SubSeq(s, 1, i) = [k \in 1 .. i |-> s[k]]
  BY <1>1
<1>3. SubSeq(s, i + 1, Len(s)) = [k \in 1 .. Len(s) - i |-> s[i + k]]
  BY <1>1
<1> QED
  BY <1>1, <1>2, <1>3

LEMMA TailFacts ==
  ASSUME NEW S, NEW s \in Seq(S), s # <<>>
  PROVE  Head(s) \in S /\ Tail(s) \in Seq(S) /\ Len(Tail(s)) <= Len(s)
OBVIOUS

LEMMA AppendFacts ==
  ASSUME NEW S, NEW s \in Seq(S), NEW e \in S, NEW n \in Nat, Len(s) < n
  PROVE  Append(s, e) \in Seq(S) /\ Len(Append(s, e)) <= n
OBVIOUS
-----------------------------------------------------------------------------
(* The host agent. *)

LEMMA SendFacts ==
  ASSUME Types, NEW st \in {"ok", "converging", "retrying", "failed"}, NEW found \in Config,
         NEW wanted \in Config \union {NoConfig}, Agent!Room, Agent!SendStatus(st, found, wanted)
  PROVE  toMaster' \in Seq(Reports) /\ Len(toMaster') <= MaxQueue
<1> DEFINE r == [status |-> st, apps |-> found, desired |-> wanted]
<1>1. toMaster \in Seq(Reports) /\ Len(toMaster) <= MaxQueue /\ MaxQueue \in Nat
  BY ConvergenceAssumption DEF Types, QueueTypes
<1>2. r \in Reports
  BY DEF Reports
<1>3. CASE session = "up"
  <2>1. toMaster' = Append(toMaster, r) /\ Len(toMaster) < MaxQueue
    BY <1>3 DEF Agent!SendStatus, Agent!Room
  <2> HIDE DEF r
  <2> QED
    BY <1>1, <1>2, <2>1, AppendFacts
<1>4. CASE session # "up"
  BY <1>1, <1>4 DEF Agent!SendStatus
<1> QED
  BY <1>3, <1>4

LEMMA ReactFacts ==
  ASSUME Types, NEW wanted \in Config, NEW tried \in 0 .. MaxAttempts, Agent!React(wanted, tried)
  PROVE  /\ installed' = installed
         /\ attempts' \in 0 .. MaxAttempts /\ applying' \in Config \union {NoConfig}
         /\ toMaster' \in Seq(Reports) /\ Len(toMaster') <= MaxQueue
<1>1. installed \in Config /\ applying \in Config \union {NoConfig}
  BY DEF Types, HostTypes
<1>2. installed' = installed /\ Agent!Room
  BY DEF Agent!React
<1>3. CASE Agent!SendStatus("ok", installed, NoConfig) /\ attempts' = tried /\ UNCHANGED applying
  BY <1>1, <1>2, <1>3, SendFacts
<1>4. CASE Agent!SendStatus("failed", installed, wanted) /\ attempts' = tried /\ UNCHANGED applying
  BY <1>1, <1>2, <1>4, SendFacts
<1>5. CASE /\ ~Agent!Exhausted(tried) /\ Agent!SendStatus("converging", installed, wanted)
           /\ attempts' = tried + 1 /\ applying' = wanted
  <2>1. attempts' \in 0 .. MaxAttempts
    BY <1>5, ConvergenceAssumption DEF Agent!Exhausted
  <2>2. toMaster' \in Seq(Reports) /\ Len(toMaster') <= MaxQueue
    BY <1>1, <1>2, <1>5, SendFacts
  <2> QED
    BY <1>2, <1>5, <2>1, <2>2
<1> QED
  BY <1>3, <1>4, <1>5 DEF Agent!React

LEMMA HandleFacts ==
  ASSUME Types, NEW wanted \in Config, NEW tried \in 0 .. MaxAttempts, Agent!Handle(wanted, tried)
  PROVE  /\ installed' = installed /\ desired' = wanted
         /\ attempts' \in 0 .. MaxAttempts /\ applying' \in Config \union {NoConfig}
         /\ toMaster' \in Seq(Reports) /\ Len(toMaster') <= MaxQueue
BY ReactFacts DEF Agent!Handle, Agent!SaveDesired

LEMMA BeatFacts ==
  ASSUME Types, Agent!HandleHeartbeat
  PROVE  /\ installed' = installed /\ desired' \in Config
         /\ attempts' \in 0 .. MaxAttempts /\ applying' \in Config \union {NoConfig}
         /\ toMaster' \in Seq(Reports) /\ Len(toMaster') <= MaxQueue
<1>1. /\ (IF desired = NoConfig THEN installed ELSE desired) \in Config
      /\ attempts \in 0 .. MaxAttempts
  BY DEF Types, HostTypes
<1> QED
  BY <1>1, HandleFacts DEF Agent!HandleHeartbeat

LEMMA MixtureFacts ==
  ASSUME NEW found, NEW wanted, NEW now \in Agent!Change!Mixture(found, wanted)
  PROVE  now \in Config
BY SameConfig DEF Agent!Change!Mixture

LEMMA AgentSteps == ASSUME Types, Agent!Step PROVE HostTypes' /\ QueueTypes'
<1> USE DEF HostTypes, QueueTypes
<1>0. HostTypes /\ QueueTypes
  BY DEF Types
<1>1. CASE Agent!FirstHeartbeat
  BY <1>0, <1>1, BeatFacts DEF Agent!FirstHeartbeat
<1>2. CASE Agent!Connect
  BY <1>0, <1>2, BeatFacts DEF Agent!Connect
<1>6. CASE Agent!OpenChannel
  BY <1>0, <1>6 DEF Agent!OpenChannel
<1>3. CASE Agent!Heartbeat
  BY <1>0, <1>3, BeatFacts DEF Agent!Heartbeat
<1>4. CASE Agent!SetConfig
  <2>1. Head(toHost) \in Config /\ Tail(toHost) \in Seq(Config) /\ Len(Tail(toHost)) <= MaxQueue
    BY <1>0, <1>4, TailFacts, ConvergenceAssumption DEF Agent!SetConfig
  <2>2. 0 \in 0 .. MaxAttempts
    BY ConvergenceAssumption
  <2>3. /\ installed' = installed /\ desired' = Head(toHost)
        /\ attempts' \in 0 .. MaxAttempts /\ applying' \in Config \union {NoConfig}
        /\ toMaster' \in Seq(Reports) /\ Len(toMaster') <= MaxQueue
    BY <1>4, <2>1, <2>2, HandleFacts DEF Agent!SetConfig
  <2> QED
    BY <1>0, <1>4, <2>1, <2>3 DEF Agent!SetConfig
<1>5. CASE Agent!EndConverge
  <2>1. PICK now \in Agent!Change!Mixture(installed, applying) :
          /\ installed' = now
          /\ \/ now = applying /\ Agent!SendStatus("ok", now, NoConfig)
             \/ /\ now # applying
                /\ Agent!SendStatus(IF Agent!Exhausted(attempts) THEN "failed" ELSE "retrying",
                                    now, applying)
             \/ UNCHANGED toMaster
    BY <1>5 DEF Agent!EndConverge
  <2>2. /\ applying # NoConfig /\ Agent!Room /\ applying' = NoConfig
        /\ UNCHANGED <<desired, attempts, session, toHost>>
    BY <1>5 DEF Agent!EndConverge
  <2>3. now \in Config /\ applying \in Config
    BY <1>0, <2>1, <2>2, MixtureFacts
  <2>4. toMaster' \in Seq(Reports) /\ Len(toMaster') <= MaxQueue
    <3>1. CASE UNCHANGED toMaster
      BY <1>0, <3>1
    <3>2. CASE Agent!SendStatus("ok", now, NoConfig)
      BY <2>2, <2>3, <3>2, SendFacts
    <3>3. CASE Agent!SendStatus(IF Agent!Exhausted(attempts) THEN "failed" ELSE "retrying",
                                now, applying)
      BY <2>2, <2>3, <3>3, SendFacts
    <3> QED
      BY <2>1, <3>1, <3>2, <3>3
  <2> QED
    BY <1>0, <2>1, <2>2, <2>3, <2>4
<1> QED
  BY <1>1, <1>2, <1>3, <1>4, <1>5, <1>6 DEF Agent!Step

LEMMA AgentFaults == ASSUME Types, Agent!Fault \/ Agent!FileFault PROVE HostTypes' /\ QueueTypes'
<1> USE DEF HostTypes, QueueTypes
<1>0. HostTypes /\ QueueTypes /\ 0 \in 0 .. MaxAttempts /\ MaxQueue \in Nat
  BY ConvergenceAssumption DEF Types
<1>1. CASE Agent!SetConfigDropped
  BY <1>0, <1>1, TailFacts DEF Agent!SetConfigDropped
<1>2. CASE Agent!Restart
  <2>1. /\ session' = "started" /\ attempts' = 0 /\ applying' = NoConfig /\ UNCHANGED desired
        /\ installed' \in IF applying = NoConfig THEN {installed}
                          ELSE Agent!Change!Mixture(installed, applying)
    BY <1>2 DEF Agent!Restart
  <2>2. PICK i \in 0 .. Len(toHost) : toHost' = SubSeq(toHost, i + 1, Len(toHost))
    BY <1>2 DEF Agent!Restart
  <2>3. PICK j \in 0 .. Len(toMaster) : toMaster' = SubSeq(toMaster, 1, j)
    BY <1>2 DEF Agent!Restart
  <2>4. toHost' \in Seq(Config) /\ Len(toHost') <= MaxQueue
    BY <1>0, <2>2, PartFacts
  <2>5. toMaster' \in Seq(Reports) /\ Len(toMaster') <= MaxQueue
    BY <1>0, <2>3, PartFacts
  <2>6. installed' \in Config
    BY <1>0, <2>1, MixtureFacts
  <2> QED
    BY <1>0, <2>1, <2>4, <2>5, <2>6
<1>3. CASE Agent!Drift
  BY <1>0, <1>3, SameConfig DEF Agent!Drift
<1>4. CASE Agent!SetConfigUnsaved
  <2>1. Head(toHost) \in Config /\ Tail(toHost) \in Seq(Config) /\ Len(Tail(toHost)) <= MaxQueue
    BY <1>0, <1>4, TailFacts DEF Agent!SetConfigUnsaved
  <2>2. /\ installed' = installed /\ UNCHANGED <<desired, session>> /\ toHost' = Tail(toHost)
        /\ attempts' \in 0 .. MaxAttempts /\ applying' \in Config \union {NoConfig}
        /\ toMaster' \in Seq(Reports) /\ Len(toMaster') <= MaxQueue
    BY <1>0, <1>4, <2>1, ReactFacts DEF Agent!SetConfigUnsaved
  <2> QED
    BY <1>0, <2>1, <2>2
<1>5. CASE Agent!HeartbeatUnread
  <2>1. installed \in Config /\ attempts \in 0 .. MaxAttempts
    BY <1>0
  <2> QED
    BY <1>0, <1>5, <2>1, HandleFacts DEF Agent!HeartbeatUnread
<1> QED
  BY <1>1, <1>2, <1>3, <1>4, <1>5 DEF Agent!Fault, Agent!FileFault
-----------------------------------------------------------------------------
(* bbmaster and the poller. *)

LEMMA ConsumeFacts ==
  ASSUME Types, Bbm!Consume
  PROVE  record' \in Reports /\ QueueTypes'
<1>1. QueueTypes /\ MaxQueue \in Nat
  BY ConvergenceAssumption DEF Types
<1> QED
  BY <1>1, TailFacts DEF Bbm!Consume, QueueTypes

\* A push, whether bbmaster sends the configuration or the host has it
LEMMA PushFacts ==
  ASSUME Types, NEW cfg \in Config, Bbm!SetHostApps(cfg)
  PROVE  record' \in {Bbm!Missing} \union Reports /\ QueueTypes'
<1>1. QueueTypes /\ MaxQueue \in Nat /\ record \in {NoRecord, Bbm!Missing} \union Reports
  BY ConvergenceAssumption DEF Types, ManagerTypes
<1>2. /\ Len(toHost) < MaxQueue /\ UNCHANGED toMaster
      /\ record' = IF record # NoRecord THEN record ELSE Bbm!Missing
      /\ toHost' = toHost \/ toHost' = Append(toHost, cfg)
  BY DEF Bbm!SetHostApps, Bbm!Known
<1>3. toHost' \in Seq(Config) /\ Len(toHost') <= MaxQueue
  BY <1>1, <1>2, AppendFacts DEF QueueTypes
<1> QED
  BY <1>1, <1>2, <1>3 DEF QueueTypes

LEMMA BbmasterFaults ==
  ASSUME Types, Bbm!Fault
  PROVE  record' \in {record, NoRecord} /\ QueueTypes'
<1>1. QueueTypes /\ MaxQueue \in Nat
  BY ConvergenceAssumption DEF Types
<1>2. PICK i \in 0 .. Len(toHost) : toHost' = SubSeq(toHost, 1, i)
  BY DEF Bbm!Fault, Bbm!Disconnect
<1>3. PICK j \in 0 .. Len(toMaster) : toMaster' = SubSeq(toMaster, j + 1, Len(toMaster))
  BY DEF Bbm!Fault, Bbm!Disconnect
<1>4. toHost' \in Seq(Config) /\ Len(toHost') <= MaxQueue
  BY <1>1, <1>2, PartFacts DEF QueueTypes
<1>5. toMaster' \in Seq(Reports) /\ Len(toMaster') <= MaxQueue
  BY <1>1, <1>3, PartFacts DEF QueueTypes
<1> QED
  BY <1>4, <1>5 DEF Bbm!Fault, QueueTypes

LEMMA PollFacts ==
  ASSUME Types
  PROVE  /\ poll.todo \subseteq Apps /\ poll.cfg \in Config /\ poll.reported \in BOOLEAN
         /\ Idle \in [pc : PollPC, todo : SUBSET Apps, cfg : Config, reported : BOOLEAN]
         /\ \A pc \in PollPC :
              [poll EXCEPT !.pc = pc]
                \in [pc : PollPC, todo : SUBSET Apps, cfg : Config, reported : BOOLEAN]
         /\ \A a : [poll EXCEPT !.todo = poll.todo \ {a}]
                     \in [pc : PollPC, todo : SUBSET Apps, cfg : Config, reported : BOOLEAN]
<1>1. Idle \in [pc : PollPC, todo : SUBSET Apps, cfg : Config, reported : BOOLEAN]
  BY SameConfig DEF Idle, PollPC
<1> QED
  BY <1>1 DEF Types, ManagerTypes

LEMMA ExpectedFacts == ASSUME Types PROVE ExpectedConfig \in Config /\ Assigned \subseteq Apps
BY DEF Types, ManagerTypes, ExpectedConfig, Config, Assigned

PollType == [pc : PollPC, todo : SUBSET Apps, cfg : Config, reported : BOOLEAN]

LEMMA StateFacts ==
  ASSUME NEW s \in RoleState \union {NoRow}
  PROVE  /\ Failed(s) \in RoleState \union {NoRow} /\ Failed(s) \notin WaitingStates
         /\ Finished(s) \in RoleState \union {NoRow} /\ Finished(s) \notin WaitingStates
         /\ s \notin WaitingStates => Failed(s) = s
         /\ s \in DOMAIN Pushed => Pushed[s] \in RoleState
         /\ Finished(s) \in FailedStates => Finished(s) = s
         /\ s \in DOMAIN Pushed => Pushed[s] \notin FailedStates
BY DEF Failed, Finished, Pushed, RoleState, WaitingStates, NoRow, FailedStates

\* When the push is known, or no role comes to wait
LEMMA NotedFacts ==
  ASSUME IInv,
         \/ pushKnown' = TRUE
         \/ restarts' # 0
         \/ /\ UNCHANGED <<restarts, pushKnown>>
            /\ \A a \in Apps : state'[a] \in WaitingStates => state[a] \in WaitingStates
  PROVE  PushNoted'
BY DEF IInv, PushNoted

\* A step of the others leaves the manager alone.
LEMMA ManagerKept ==
  ASSUME IInv, HostTypes', QueueTypes', BoundTypes', UNCHANGED <<managerVars, restarts>>,
         record' \in {NoRecord, Bbm!Missing} \union Reports
  PROVE  IInv'
<1> USE DEF managerVars, roleVars, pushVars
<1>1. ManagerTypes'
  BY DEF IInv, Types, ManagerTypes
<1>2. PushNoted'
  BY NotedFacts
<1> QED
  BY <1>1, <1>2 DEF IInv, Types

\* A step of the manager leaves the host alone.
LEMMA ManagerStep ==
  ASSUME IInv, UNCHANGED hostVars, QueueTypes', BoundTypes', PushNoted',
         record' \in {NoRecord, Bbm!Missing} \union Reports,
         state' \in [Apps -> RoleState \union {NoRow}],
         version' \in [Apps -> Versions \union {Absent}],
         received' \in BOOLEAN, pushKnown' \in BOOLEAN, inactive' \in BOOLEAN,
         poll' \in PollType
  PROVE  IInv'
<1>1. HostTypes' /\ ManagerTypes'
  BY DEF IInv, Types, HostTypes, hostVars, ManagerTypes, PollType
<1> QED
  BY <1>1 DEF IInv, Types

LEMMA SameQueues == ASSUME IInv, UNCHANGED queueVars PROVE QueueTypes'
BY DEF IInv, Types, QueueTypes, queueVars

LEMMA SameBounds == ASSUME IInv, UNCHANGED bounds PROVE BoundTypes'
BY DEF IInv, Types, BoundTypes, bounds

LEMMA SameManager ==
  ASSUME IInv
  PROVE  /\ record \in {NoRecord, Bbm!Missing} \union Reports
         /\ state \in [Apps -> RoleState \union {NoRow}]
         /\ version \in [Apps -> Versions \union {Absent}]
         /\ received \in BOOLEAN /\ pushKnown \in BOOLEAN /\ inactive \in BOOLEAN
         /\ poll \in PollType
BY DEF IInv, Types, ManagerTypes, PollType

\* The steps of the poller that move no role and push nothing
LEMMA WalkStep ==
  ASSUME IInv, UNCHANGED <<hostVars, record, queueVars, roleVars, pushVars, bounds>>,
         inactive' \in BOOLEAN, poll' \in PollType
  PROVE  IInv'
<1> USE DEF roleVars, pushVars
<1>1. QueueTypes' /\ BoundTypes'
  BY SameQueues, SameBounds
<1>2. PushNoted'
  BY NotedFacts DEF bounds
<1> QED
  BY <1>1, <1>2, SameManager, ManagerStep

LEMMA WalkSteps ==
  ASSUME IInv,
         Discover \/ Snapshot \/ StartAdvance \/ EndAdvance \/ ProcessWait \/ ProcessUnknown
  PROVE  IInv'
<1>0. /\ Types /\ poll \in PollType /\ inactive \in BOOLEAN
      /\ Idle \in PollType /\ \A pc \in PollPC : [poll EXCEPT !.pc = pc] \in PollType
  BY SameManager, PollFacts DEF IInv, PollType
<1>1. CASE Discover
  BY <1>0, <1>1, WalkStep DEF Discover
<1>2. CASE Snapshot
  <2>1. poll' \in PollType
    BY <1>0, <1>2, ExpectedFacts DEF Snapshot, PollType, PollPC, Bbm!Known
  <2> QED
    BY <1>0, <1>2, <2>1, WalkStep DEF Snapshot
<1>3. CASE StartAdvance
  BY <1>0, <1>3, WalkStep DEF StartAdvance, GoTo, PollPC
<1>4. CASE EndAdvance
  <2>1. poll' \in PollType
    BY <1>0, <1>4 DEF EndAdvance, GoTo, EndPoll, PollPC
  <2> QED
    BY <1>0, <1>4, <2>1, WalkStep DEF EndAdvance
<1>5. CASE ProcessWait
  BY <1>0, <1>5, WalkStep DEF ProcessWait, Processing, EndPoll
<1>6. CASE ProcessUnknown
  BY <1>0, <1>6, WalkStep DEF ProcessUnknown, Processing, EndPoll
<1> QED
  BY <1>1, <1>2, <1>3, <1>4, <1>5, <1>6

\* A role comes to wait with a push that is noted.
LEMMA AdvanceStep == ASSUME IInv, NEW a \in Apps, AdvanceRole(a) PROVE IInv'
<1>0. Types /\ UNCHANGED <<hostVars, version, inactive, bounds>>
  BY DEF IInv, AdvanceRole
<1>1. poll' \in PollType
  BY <1>0, PollFacts DEF AdvanceRole, PollType
<1>2. CASE /\ state[a] \in DOMAIN Pushed /\ Push(poll.cfg)
           /\ state' = [state EXCEPT ![a] = Pushed[state[a]]]
  <2>1. record' \in {Bbm!Missing} \union Reports /\ QueueTypes'
    BY <1>0, <1>2, PollFacts, PushFacts DEF Push
  <2>2. received' = FALSE /\ pushKnown' = TRUE
    BY <1>2 DEF Push
  <2>3. state' \in [Apps -> RoleState \union {NoRow}]
    <3>1. state[a] \in RoleState \union {NoRow}
      BY SameManager
    <3>2. Pushed[state[a]] \in RoleState
      BY <1>2, <3>1, StateFacts
    <3> QED
      BY <1>2, <3>2, SameManager
  <2>4. PushNoted' /\ BoundTypes'
    BY <1>0, <2>2, NotedFacts, SameBounds
  <2> QED
    BY <1>0, <1>1, <2>1, <2>2, <2>3, <2>4, SameManager, ManagerStep
<1>3. CASE UNCHANGED <<record, queueVars, state, pushVars>>
  BY <1>0, <1>1, <1>3, SameManager, WalkStep DEF roleVars
<1> QED
  BY <1>2, <1>3 DEF AdvanceRole

LEMMA FinishSteps == ASSUME IInv, ProcessFailed \/ ProcessFinished PROVE IInv'
<1>0. /\ UNCHANGED <<hostVars, record, queueVars, pushVars, inactive, bounds>>
      /\ poll' = Idle
  BY DEF ProcessFailed, ProcessFinished, Processing, EndPoll
<1>1. /\ state' \in [Apps -> RoleState \union {NoRow}]
      /\ \A a \in Apps : state'[a] \notin WaitingStates
  <2>1. \A a \in Apps : /\ Failed(state[a]) \in (RoleState \union {NoRow}) \ WaitingStates
                        /\ Finished(state[a]) \in (RoleState \union {NoRow}) \ WaitingStates
    BY SameManager, StateFacts
  <2>2. \/ state' = [a \in Apps |-> Failed(state[a])]
        \/ state' = [a \in Apps |-> Finished(state[a])]
    BY DEF ProcessFailed, ProcessFinished
  <2> QED
    BY <2>1, <2>2
<1>2. version' \in [Apps -> Versions \union {Absent}]
  BY SameManager DEF ProcessFailed, ProcessFinished
<1>3. poll' \in PollType
  BY <1>0, PollFacts DEF IInv, PollType
<1>4. QueueTypes' /\ BoundTypes' /\ PushNoted'
  BY <1>0, <1>1, SameQueues, SameBounds, NotedFacts DEF pushVars, bounds
<1> QED
  BY <1>0, <1>1, <1>2, <1>3, <1>4, SameManager, ManagerStep DEF pushVars

LEMMA ProcessPushStep == ASSUME IInv, ProcessPush PROVE IInv'
<1>1. /\ UNCHANGED <<hostVars, roleVars, inactive, bounds>> /\ poll' = Idle /\ Push(poll.cfg)
  BY DEF ProcessPush, Processing, EndPoll
<1>2. record' \in {Bbm!Missing} \union Reports /\ QueueTypes'
      /\ received' = FALSE /\ pushKnown' = TRUE /\ poll' \in PollType
  BY <1>1, PollFacts, PushFacts DEF Push, IInv, PollType
<1>3. PushNoted' /\ BoundTypes'
  BY <1>1, <1>2, NotedFacts, SameBounds
<1> QED
  BY <1>1, <1>2, <1>3, SameManager, ManagerStep DEF roleVars

\* A request takes a role from rest to where the poller moves it on.
LEMMA RequestStep ==
  ASSUME IInv, NEW a \in Apps, NEW from, NEW to \in {"pre-auth", "pre-deauth"},
         NEW v \in Versions \union {Absent}, Request(a, from, to, v)
  PROVE  IInv'
<1>1. /\ UNCHANGED <<hostVars, record, queueVars, pushVars, poll, restarts, faults>>
      /\ state' = [state EXCEPT ![a] = to] /\ version' = [version EXCEPT ![a] = v]
      /\ requests' = requests + 1 /\ requests < MaxRequests /\ inactive' = FALSE
  BY DEF Request
<1>2. /\ state' \in [Apps -> RoleState \union {NoRow}]
      /\ version' \in [Apps -> Versions \union {Absent}]
      /\ \A b \in Apps : state'[b] \in WaitingStates => state[b] \in WaitingStates
  BY <1>1, SameManager DEF RoleState, WaitingStates
<1>3. BoundTypes'
  BY <1>1, ConvergenceAssumption DEF IInv, Types, BoundTypes
<1>4. QueueTypes' /\ PushNoted'
  BY <1>1, <1>2, SameQueues, NotedFacts DEF pushVars
<1> QED
  BY <1>1, <1>2, <1>3, <1>4, SameManager, ManagerStep DEF pushVars

ByRequest(a) ==
  \/ \E v \in RoleVersions : AddRole(a, v)
  \/ \E v \in RefusedVersions : AddRefused(a, v)
  \/ DeleteRole(a)

LEMMA RequestSteps ==
  ASSUME IInv, NEW a \in Apps, ByRequest(a)
  PROVE  IInv'
<1>1. ASSUME NEW v \in RoleVersions, AddRole(a, v) PROVE IInv'
  BY <1>1, RequestStep, ConvergenceAssumption DEF AddRole
<1>2. CASE DeleteRole(a)
  BY <1>2, SameManager, RequestStep DEF DeleteRole
<1>3. ASSUME NEW v \in RefusedVersions, AddRefused(a, v) PROVE IInv'
  <2>1. /\ UNCHANGED <<hostVars, record, queueVars, state, pushVars, inactive, poll,
                       restarts, faults>>
        /\ version' = [version EXCEPT ![a] = v]
        /\ requests' = requests + 1 /\ requests < MaxRequests
    BY <1>3 DEF AddRefused
  <2>2. version' \in [Apps -> Versions \union {Absent}]
    BY <2>1, SameManager, ConvergenceAssumption
  <2>3. BoundTypes'
    BY <2>1, ConvergenceAssumption DEF IInv, Types, BoundTypes
  <2>4. QueueTypes' /\ PushNoted'
    BY <2>1, SameQueues, NotedFacts DEF pushVars
  <2> QED
    BY <2>1, <2>2, <2>3, <2>4, SameManager, ManagerStep DEF pushVars
<1> QED
  BY <1>1, <1>2, <1>3 DEF ByRequest
-----------------------------------------------------------------------------
(* What goes wrong. *)

LEMMA FaultyFacts == ASSUME IInv, Faulty PROVE BoundTypes' /\ UNCHANGED restarts
BY ConvergenceAssumption DEF IInv, Types, BoundTypes, Faulty

LEMMA PollFailsStep == ASSUME IInv, PollFails PROVE IInv'
<1>1. /\ UNCHANGED <<hostVars, roleVars, pushVars, inactive, restarts>>
      /\ poll' = Idle /\ BoundTypes'
      /\ UNCHANGED <<record, queueVars>> \/ Bbm!SetHostApps(poll.cfg)
  BY FaultyFacts DEF PollFails, EndPoll
<1>2. record' \in {NoRecord, Bbm!Missing} \union Reports /\ QueueTypes'
  <2>1. CASE UNCHANGED <<record, queueVars>>
    BY <2>1, SameManager, SameQueues
  <2>2. CASE Bbm!SetHostApps(poll.cfg)
    BY <2>2, PollFacts, PushFacts DEF IInv
  <2> QED
    BY <1>1, <2>1, <2>2
<1>3. poll' \in PollType
  BY <1>1, PollFacts DEF IInv, PollType
<1>4. PushNoted'
  BY <1>1, NotedFacts DEF roleVars, pushVars
<1> QED
  BY <1>1, <1>2, <1>3, <1>4, SameManager, ManagerStep DEF roleVars, pushVars

LEMMA ManagerRestartStep == ASSUME IInv, ManagerRestart PROVE IInv'
<1>1. /\ UNCHANGED <<hostVars, record, queueVars, roleVars, received>>
      /\ poll' = Idle /\ pushKnown' = FALSE /\ inactive' = FALSE
      /\ restarts' = restarts + 1 /\ restarts < MaxRestarts /\ UNCHANGED <<requests, faults>>
  BY DEF ManagerRestart, EndPoll
<1>2. BoundTypes' /\ restarts' # 0
  BY <1>1, ConvergenceAssumption DEF IInv, Types, BoundTypes
<1>3. QueueTypes' /\ PushNoted' /\ poll' \in PollType
  BY <1>1, <1>2, SameQueues, NotedFacts, PollFacts DEF IInv, PollType
<1> QED
  BY <1>1, <1>2, <1>3, SameManager, ManagerStep DEF roleVars

LEMMA OthersStep ==
  ASSUME IInv, AgentStep \/ HostFault \/ BbmasterFault \/ Consume
  PROVE  IInv'
<1>0. Types
  BY DEF IInv
<1>1. CASE AgentStep
  <2>1. HostTypes' /\ QueueTypes' /\ UNCHANGED <<record, managerVars, bounds>>
    BY <1>0, <1>1, AgentSteps DEF AgentStep, ByAgent
  <2> QED
    BY <2>1, SameBounds, SameManager, ManagerKept DEF bounds
<1>2. CASE HostFault
  <2>1. HostTypes' /\ QueueTypes' /\ BoundTypes' /\ UNCHANGED <<record, managerVars, restarts>>
    BY <1>0, <1>2, AgentFaults, FaultyFacts DEF HostFault
  <2> QED
    BY <2>1, SameManager, ManagerKept
<1>3. CASE BbmasterFault
  <2>1. /\ record' \in {record, NoRecord} /\ QueueTypes' /\ BoundTypes'
        /\ UNCHANGED <<hostVars, managerVars, restarts>>
    BY <1>0, <1>3, BbmasterFaults, FaultyFacts DEF BbmasterFault
  <2>2. HostTypes'
    BY <1>0, <2>1 DEF Types, HostTypes, hostVars
  <2> QED
    BY <2>1, <2>2, SameManager, ManagerKept
<1>4. CASE Consume
  <2>1. /\ record' \in Reports /\ QueueTypes' /\ received' = TRUE
        /\ UNCHANGED <<hostVars, roleVars, pushKnown, inactive, poll, bounds>>
    BY <1>0, <1>4, ConsumeFacts DEF Consume
  <2>2. BoundTypes' /\ PushNoted'
    BY <2>1, SameBounds, NotedFacts DEF roleVars, bounds
  <2> QED
    BY <2>1, <2>2, SameManager, ManagerStep DEF roleVars
<1> QED
  BY <1>1, <1>2, <1>3, <1>4
-----------------------------------------------------------------------------
(* The theorems. *)

LEMMA InitHolds == Init => IInv
<1> SUFFICES ASSUME Init PROVE IInv
  OBVIOUS
<1> USE DEF Init, Agent!Init, Bbm!Init
<1>1. HostTypes /\ BoundTypes
  BY SameConfig, ConvergenceAssumption DEF HostTypes, BoundTypes
<1>2. QueueTypes
  BY ConvergenceAssumption DEF QueueTypes
<1>3. ManagerTypes
  BY SameConfig DEF ManagerTypes, RoleState, NoRow, Idle, PollPC
<1>4. PushNoted
  BY DEF PushNoted, NoRow, WaitingStates
<1> QED
  BY <1>1, <1>2, <1>3, <1>4 DEF IInv, Types

LEMMA NextHolds == ASSUME IInv, [Next]_vars PROVE IInv'
<1>1. CASE AgentStep \/ Consume \/ HostFault \/ BbmasterFault
  BY <1>1, OthersStep
<1>2. CASE PollStep
  <2>1. ASSUME NEW a \in Apps, AdvanceRole(a) PROVE IInv'
    BY <2>1, AdvanceStep
  <2> QED
    BY <1>2, <2>1, WalkSteps, FinishSteps, ProcessPushStep DEF PollStep
<1>3. ASSUME NEW a \in Apps, ByRequest(a) PROVE IInv'
  BY <1>3, RequestSteps
<1>4. CASE PollFails \/ ManagerRestart
  BY <1>4, PollFailsStep, ManagerRestartStep
<1>5. CASE UNCHANGED vars
  <2>1. UNCHANGED <<hostVars, record, queueVars, roleVars, pushVars, inactive, poll, bounds>>
    BY <1>5 DEF vars, hostVars, queueVars, managerVars
  <2> QED
    BY <2>1, SameManager, WalkStep
<1> QED
  BY <1>1, <1>2, <1>3, <1>4, <1>5 DEF Next, ByRequest

\* The types, and that the manager knows of the push for which a role waits.
THEOREM Invariant == Spec => []IInv
<1>1. Init => IInv
  BY InitHolds
<1>2. IInv /\ [Next]_vars => IInv'
  BY NextHolds
<1> QED
  BY <1>1, <1>2, PTL DEF Spec

\* The agent's configurations, bbmaster's record, the messages between them and the
\* manager's roles and poll stay of their types, and no queue outgrows its bound.
THEOREM TypeCorrect == Spec => []TypeOK
<1>1. IInv => TypeOK
  BY TypesFacts DEF IInv
<1> QED
  BY <1>1, Invariant, PTL

\* A report that bbmaster got before the last push fails no role while the manager
\* that pushed runs (received_since_last_push).
THEOREM LeftoversIgnored == Spec => LeftoverIgnoredWhileUp
<1>1. IInv /\ [Next]_vars => [restarts = 0 => ~LeftoverFails]_vars
  <2> SUFFICES ASSUME IInv, Next, restarts = 0, ~received, NEW a \in Apps,
                      state'[a] # state[a], state'[a] \in FailedStates
               PROVE  FALSE
    BY DEF LeftoverFails
  <2>1. state[a] \in RoleState \union {NoRow} /\ state \in [Apps -> RoleState \union {NoRow}]
    BY SameManager
  <2>2. CASE ProcessFailed
    <3>1. ~pushKnown
      BY <2>2 DEF ProcessFailed, HostFailed, ReceivedSinceLastPush
    <3>2. state[a] \notin WaitingStates /\ state'[a] = Failed(state[a])
      BY <2>2, <3>1 DEF IInv, PushNoted, ProcessFailed
    <3> QED
      BY <2>1, <3>2, StateFacts
  <2>3. CASE ProcessFinished
    <3>1. state'[a] = Finished(state[a])
      BY <2>3 DEF ProcessFinished
    <3> QED
      BY <2>1, <3>1, StateFacts
  <2>4. ASSUME NEW b \in Apps, AdvanceRole(b) PROVE FALSE
    <3>1. \/ UNCHANGED state
          \/ state[b] \in DOMAIN Pushed /\ state' = [state EXCEPT ![b] = Pushed[state[b]]]
      BY <2>4 DEF AdvanceRole
    <3>2. state[b] \in DOMAIN Pushed => Pushed[state[b]] \notin FailedStates
      BY <2>1, StateFacts
    <3> QED
      BY <2>1, <3>1, <3>2
  <2>5. ASSUME NEW b \in Apps, ByRequest(b) PROVE FALSE
    <3>1. \/ UNCHANGED state
          \/ \E to \in {"pre-auth", "pre-deauth"} : state' = [state EXCEPT ![b] = to]
      BY <2>5 DEF ByRequest, AddRole, AddRefused, DeleteRole, Request
    <3> QED
      BY <2>1, <3>1 DEF FailedStates
  <2>6. CASE \/ AgentStep \/ Consume \/ HostFault \/ BbmasterFault \/ PollFails \/ ManagerRestart
             \/ Discover \/ Snapshot \/ StartAdvance \/ EndAdvance
             \/ ProcessPush \/ ProcessWait \/ ProcessUnknown
    BY <2>6 DEF AgentStep, ByAgent, Consume, HostFault, BbmasterFault, PollFails, ManagerRestart,
         Discover, Snapshot, StartAdvance, EndAdvance, ProcessPush, ProcessWait, ProcessUnknown,
         managerVars, roleVars
  <2> QED
    BY <2>2, <2>3, <2>4, <2>5, <2>6 DEF Next, ByRequest, PollStep
<1> QED
  BY <1>1, Invariant, PTL DEF Spec, LeftoverIgnoredWhileUp
===============================================================================
