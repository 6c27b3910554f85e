-------------------------- MODULE RoleManagerProofs --------------------------
(***************************************************************************)
(* RoleManager keeps IInv and implements RoleLifeCycle, for any hosts,     *)
(* roles, versions, callers and bounds.  RoleManagerSteps deals with types *)
(* and the steps of RoleLifeCycle; here are the lock, who may write an     *)
(* association, the rows, and the theorems.                                *)
(***************************************************************************)
EXTENDS RoleManagerSteps

-----------------------------------------------------------------------------
(* The lock and the program counters. *)

\* What a caller's step does to the requests.
LEMMA StartMoves ==
  ASSUME call \in [Callers -> Call], NEW c \in Callers, NEW b,
         call' = [call EXCEPT ![c] = [call[c] EXCEPT !.pc = "start", !.new = b]]
  PROVE  /\ call'[c].pc = "start" /\ call'[c].new = b
         /\ call'[c].host = call[c].host /\ call'[c].role = call[c].role
         /\ \A d \in Callers : d # c => call'[d] = call[d]
<1>1. call[c] \in Call
  OBVIOUS
<1> QED
  BY <1>1 DEF Call

LEMMA DeauthMoves ==
  ASSUME call \in [Callers -> Call], NEW c \in Callers, NEW r, NEW rs,
         call' = [call EXCEPT ![c] =
           [call[c] EXCEPT !.pc = "deauth", !.role = r, !.pending = rs]]
  PROVE  /\ call'[c].pc = "deauth"
         /\ call'[c].host = call[c].host /\ call'[c].role = r
         /\ \A d \in Callers : d # c => call'[d] = call[d]
<1>1. call[c] \in Call
  OBVIOUS
<1> QED
  BY <1>1 DEF Call

LEMMA RequestMoves ==
  ASSUME call \in [Callers -> Call], NEW c \in Callers
  PROVE  /\ Finish(c) => /\ call'[c].pc = "idle"
                         /\ \A d \in Callers : d # c => call'[d] = call[d]
         /\ \A pc : Step(c, pc) =>
              /\ call'[c].pc = pc
              /\ call'[c].host = call[c].host /\ call'[c].role = call[c].role
              /\ call'[c].new = call[c].new
              /\ \A d \in Callers : d # c => call'[d] = call[d]
         /\ \A rs : NextPending(c, rs) =>
              /\ call'[c].pc \in {"idle", "next"}
              /\ call'[c].pc = "next" => call'[c].host = call[c].host
              /\ \A d \in Callers : d # c => call'[d] = call[d]
         /\ \A b : call' = [call EXCEPT ![c] = [call[c] EXCEPT !.pc = "start", !.new = b]]
              => /\ call'[c].pc = "start" /\ call'[c].new = b
                 /\ call'[c].host = call[c].host /\ call'[c].role = call[c].role
                 /\ \A d \in Callers : d # c => call'[d] = call[d]
         /\ \A r, rs : call' = [call EXCEPT ![c] =
                          [call[c] EXCEPT !.pc = "deauth", !.role = r, !.pending = rs]]
              => /\ call'[c].pc = "deauth"
                 /\ call'[c].host = call[c].host /\ call'[c].role = r
                 /\ \A d \in Callers : d # c => call'[d] = call[d]
<1>1. call[c] \in Call
  OBVIOUS
<1>2. Finish(c) => /\ call'[c].pc = "idle"
                   /\ \A d \in Callers : d # c => call'[d] = call[d]
  BY DEF Finish, IdleCall
<1>3. ASSUME NEW pc, Step(c, pc)
      PROVE  /\ call'[c].pc = pc
             /\ call'[c].host = call[c].host /\ call'[c].role = call[c].role
             /\ call'[c].new = call[c].new
             /\ \A d \in Callers : d # c => call'[d] = call[d]
  BY <1>1, <1>3 DEF Step, Call
<1>4. ASSUME NEW rs, NextPending(c, rs)
      PROVE  /\ call'[c].pc \in {"idle", "next"}
             /\ call'[c].pc = "next" => call'[c].host = call[c].host
             /\ \A d \in Callers : d # c => call'[d] = call[d]
  BY <1>1, <1>4 DEF NextPending, IdleCall, Call
<1> QED
  BY <1>2, <1>3, <1>4, StartMoves, DeauthMoves

\* A caller's step needs the lock free or its own, and leaves it free or its own.
LEMMA CallLock ==
  ASSUME IInv, NEW c \in Callers, CallStep(c)
  PROVE  /\ lock \in {c, Nobody} /\ lock' \in {c, Nobody}
         /\ call'[c].pc \in HoldingPC => lock' = c
         /\ call'[c].pc # "idle" =>
              call'[c].host = call[c].host /\ call[c].host \in Hosts
         /\ call'[c].pc \in HoldingPC => call'[c].role \in Roles
         /\ call'[c].pc # "insert"
         /\ \A d \in Callers : d # c => call'[d] = call[d]
<1>1. call \in [Callers -> Call] /\ call[c] \in Call
  BY DEF IInv, TypeOK, RequestsOK
<1>2. /\ call[c].pc \in HoldingPC => lock = c /\ call[c].role \in Roles
      /\ call[c].pc # "idle" => call[c].host \in Hosts
      /\ call[c].pc = "insert" => call[c].role \in Roles
  BY DEF IInv, LockDiscipline, Shape
<1>3. CASE \E q \in Roles : StartDeauth(c, q)
  <2>1. PICK q \in Roles : StartDeauth(c, q)
    BY <1>3
  <2> DEFINE rest == call[c].pending \ {q}
  <2>2. call[c].pc = "next" /\ lock = Nobody
    BY <2>1 DEF StartDeauth, LockFree
  <2>3. \/ UNCHANGED lock /\ (NextPending(c, rest) \/ Finish(c))
        \/ lock' = c /\ call' = [call EXCEPT ![c] =
             [call[c] EXCEPT !.pc = "deauth", !.role = q, !.pending = rest]]
    BY <2>1 DEF StartDeauth
  <2> DEFINE k == [call[c] EXCEPT !.pc = "deauth", !.role = q, !.pending = rest]
  <2> HIDE DEF rest
  <2>4. CASE UNCHANGED lock /\ (NextPending(c, rest) \/ Finish(c))
    BY <1>1, <1>2, <2>2, <2>4, RequestMoves DEF HoldingPC
  <2>5. CASE lock' = c /\ call' = [call EXCEPT ![c] = k]
    BY <1>1, <1>2, <2>2, <2>5, RequestMoves DEF HoldingPC
  <2> QED
    BY <2>3, <2>4, <2>5
<1>4. CASE DeleteRoleDeauth(c)
  <2>1. lock' = Nobody /\ (NextPending(c, call[c].pending) \/ Finish(c))
        /\ call[c].pc = "deauth"
    BY <1>4 DEF DeleteRoleDeauth
  <2> QED
    BY <1>1, <1>2, <2>1, RequestMoves DEF HoldingPC
<1>5. CASE InsertHost(c)
  <2>1. /\ lock = Nobody /\ call[c].pc = "insert"
        /\ (lock' = c /\ Step(c, "associate")) \/ (UNCHANGED lock /\ Finish(c))
    BY <1>5 DEF InsertHost, LockFree
  <2>2. CASE lock' = c /\ Step(c, "associate")
    <3>1. /\ call'[c].pc = "associate"
          /\ call'[c].host = call[c].host /\ call'[c].role = call[c].role
          /\ \A d \in Callers : d # c => call'[d] = call[d]
      BY <1>1, <2>2, RequestMoves
    <3> QED
      BY <1>2, <2>1, <2>2, <3>1
  <2>3. CASE UNCHANGED lock /\ Finish(c)
    BY <1>1, <1>2, <2>1, <2>3, RequestMoves DEF HoldingPC
  <2> QED
    BY <2>1, <2>2, <2>3
<1>6. CASE \/ Associate(c) \/ StartApply(c) \/ CreateCredentials(c)
           \/ CreateCredentialsFails(c) \/ StoreCredentialsFails(c) \/ UndoHost(c)
           \/ AddRoleAuth(c)
  <2>1. call[c].pc \in HoldingPC
    BY <1>6
    DEF Associate, StartApply, CreateCredentials, CreateCredentialsFails,
        StoreCredentialsFails, UndoHost, AddRoleAuth, HoldingPC
  <2>2. \/ lock' = Nobody /\ Finish(c)
        \/ UNCHANGED lock /\ \E pc \in {"credentials", "undo", "auth"} : Step(c, pc)
        \/ UNCHANGED lock /\ \E b \in BOOLEAN : call' =
             [call EXCEPT ![c] = [call[c] EXCEPT !.pc = "start", !.new = b]]
    BY <1>6
    DEF Associate, StartApply, CreateCredentials, CreateCredentialsFails,
        StoreCredentialsFails, UndoHost, AddRoleAuth
  <2> QED
    BY <1>1, <1>2, <2>1, <2>2, RequestMoves DEF HoldingPC
<1> QED
  BY <1>3, <1>4, <1>5, <1>6 DEF CallStep

\* What keeps the poller's part of LockDiscipline and Shape.
PollerPlace ==
  /\ ppc = "advance" => lock = Poller
  /\ lock = Poller => ppc \in {"advance", "check", "drop"}
  /\ ppc \notin {"idle", "classify", "hosts"} => phost \in Hosts
  /\ ppc \in {"applied", "removed", "check", "drop"} => prole \in Roles

LEMMA PollFrame ==
  ASSUME PollStep
  PROVE  UNCHANGED <<call, calls, restarts>>
BY PollLoopFrame
DEF PollStep, PollAdvance, PollerAuth, PushAuth, PushFails, PollerDeauth, PushDeauth,
    PushDeauthFails, AdvanceStep, AdvanceFails, PollConverge, FinishRole, FailRole,
    MoveToApplied, MoveToAppliedFails, RemoveRole, RemoveRoleFails, DropHost,
    apiVars, envVars

LEMMA PollLock ==
  ASSUME IInv, PollStep
  PROVE  /\ UNCHANGED lock \/ (lock \in {Poller, Nobody} /\ lock' \in {Poller, Nobody})
         /\ PollerPlace'
<1>1. PollerPlace /\ (prole # NoRole => prole \in Roles) /\ Poller # Nobody
  BY RoleManagerAssumption
  DEF IInv, LockDiscipline, Shape, PollerPlace, TypeOK, PollerOK
<1>2. CASE PollLoop
  BY <1>1, <1>2
  DEF PollLoop, ReadSnapshot, Classify, NewHost, AbsentUnauthorizedHost, AbsentHost,
      ExistingHost, StartAdvance, LockFree, AdvanceRole, AdvanceNothing, EndAdvance,
      CheckLastRole, MarkAbsentHost, FetchFails, FetchUnauthorized, ReportOther,
      ReportRaises, ReportConverged, ReportFailed, Report, EndRoles, EndPoll,
      NextHost, NextRole, AbortPoll, Goto, PollerPlace
<1>3. CASE PollAdvance
  BY <1>1, <1>3
  DEF PollAdvance, PollerAuth, PushAuth, PushFails, PollerDeauth, PushDeauth,
      PushDeauthFails, AdvanceStep, AdvanceFails, ReleaseIfHeld, AbortPoll, pollVars,
      PollerPlace
<1>4. CASE PollConverge
  BY <1>1, <1>4
  DEF PollConverge, FinishRole, FailRole, MoveToApplied, MoveToAppliedFails,
      RemoveRole, RemoveRoleFails, DropHost, AtConverged, AtDeconverged, Advancing,
      ReleaseIfHeld, NextRole, AbortPoll, Goto, PollerPlace
<1> QED
  BY <1>2, <1>3, <1>4 DEF PollStep

LEMMA LockStep ==
  ASSUME IInv, [Next]_vars
  PROVE  LockDiscipline' /\ Shape'
<1>1. LockDiscipline /\ Shape /\ (\A c \in Callers : c # Poller /\ c # Nobody)
      /\ Poller # Nobody
  BY RoleManagerAssumption DEF IInv
<1>2. CASE PollStep
  BY <1>1, <1>2, PollLock, PollFrame DEF LockDiscipline, Shape, PollerPlace
<1>3. ASSUME NEW c \in Callers, CallStep(c) PROVE LockDiscipline' /\ Shape'
  <2>1. UNCHANGED pollVars
    BY <1>3
    DEF CallStep, InsertHost, Associate, StartApply, CreateCredentials,
        CreateCredentialsFails, StoreCredentialsFails, UndoHost, AddRoleAuth,
        StartDeauth, DeleteRoleDeauth
  <2> QED
    BY <1>1, <1>3, <2>1, CallLock DEF LockDiscipline, Shape, pollVars
<1>4. ASSUME NEW c \in Callers, Request(c) PROVE LockDiscipline' /\ Shape'
  <2>1. call \in [Callers -> Call]
    BY DEF IInv, TypeOK, RequestsOK
  <2>2. /\ call'[c].pc \in {"insert", "next"} /\ call'[c].host \in Hosts
        /\ call'[c].pc = "insert" => call'[c].role \in Roles
        /\ \A d \in Callers : d # c => call'[d] = call[d]
    BY <1>4, <2>1 DEF Request, AddRole, DeleteRole, DeleteHost, Delete, IdleCall
  <2> QED
    BY <1>1, <1>4, <2>2, OtherSteps DEF LockDiscipline, Shape, HoldingPC, pollVars
<1>5. CASE Restart
  BY <1>1, <1>5 DEF Restart, AbortPoll, IdleCall, LockDiscipline, Shape, HoldingPC
<1>6. CASE GetAllHosts \/ BbmasterRestart \/ (\E h \in Hosts : HostAppears(h))
           \/ UNCHANGED vars
  BY <1>1, <1>6
  DEF GetAllHosts, BbmasterRestart, HostAppears, vars, pollVars, LockDiscipline, Shape
<1> QED
  BY <1>2, <1>3, <1>4, <1>5, <1>6 DEF Next

-----------------------------------------------------------------------------
(* Who may write an association. *)

ConvergePath == WaitingStates \union {"auth-converged", "deauth-converged"}

LEMMA AdvanceElsewhere ==
  ASSUME LifeCycle!TypeOK, NEW g \in Hosts, NEW q \in Roles, NEW old, NEW new,
         NEW h \in Hosts, NEW r \in Roles, Advance(g, q, old, new)
  PROVE  state'[h][r] = state[h][r] \/ (h = g /\ r = q /\ state[h][r] = old)
BY DEF Advance, LifeCycle!TypeOK

LEMMA EventElsewhere ==
  ASSUME LifeCycle!TypeOK, NEW g \in Hosts, NEW q \in Roles, NEW e,
         NEW h \in Hosts, NEW r \in Roles, EventDone(g, q, e)
  PROVE  lastEvent'[h][r] = lastEvent[h][r] \/ (h = g /\ r = q)
BY DEF EventDone, LifeCycle!TypeOK

\* Without the lock, the poller writes the associations that converge and no other.
LEMMA PollWrites ==
  ASSUME IInv, PollStep, NEW h \in Hosts, NEW r \in Roles
  PROVE  \/ state'[h][r] = state[h][r] /\ lastEvent'[h][r] = lastEvent[h][r]
         \/ lock = Poller
         \/ state[h][r] \in ConvergePath
<1>1. LifeCycle!TypeOK
  BY DEF IInv, TypeOK
<1>2. CASE PollLoop
  BY <1>2, PollLoopFrame
<1>3. CASE PollAdvance
  BY <1>3
  DEF PollAdvance, PollerAuth, PushAuth, PushFails, PollerDeauth, PushDeauth,
      PushDeauthFails, Advancing, IInv, LockDiscipline
<1>4. CASE DropHost
  BY <1>4 DEF DropHost
<1>5. CASE \E q \in Roles : FinishRole(q) \/ FailRole(q)
  <2>1. PICK q \in Roles : FinishRole(q) \/ FailRole(q)
    BY <1>5
  <2>2. phost \in Hosts /\ UNCHANGED lastEvent
    BY <2>1 DEF FinishRole, FailRole, IInv, Shape
  <2>3. UNCHANGED state \/ \E old \in WaitingStates, new \in RoleState :
                             Advance(phost, q, old, new)
    BY <2>1 DEF FinishRole, FailRole, WaitingStates, RoleState
  <2> QED
    BY <1>1, <2>1, <2>2, <2>3, AdvanceElsewhere DEF ConvergePath
<1>6. CASE MoveToApplied \/ MoveToAppliedFails \/ RemoveRole \/ RemoveRoleFails
  <2>1. /\ phost \in Hosts /\ prole \in Roles
        /\ state[phost][prole] \in {"auth-converged", "deauth-converged"}
    BY <1>6
    DEF IInv, TypeOK, PollerOK, Shape, Owned, OwnedByPoller, MoveToApplied,
        MoveToAppliedFails, RemoveRole, RemoveRoleFails, AtConverged, AtDeconverged,
        Advancing
  <2>2. /\ UNCHANGED lastEvent \/ \E e \in LifeCycle!Event : EventDone(phost, prole, e)
        /\ \/ \E old, new \in RoleState : Advance(phost, prole, old, new)
           \/ RemoveAssociation(phost, prole)
    BY <1>6
    DEF MoveToApplied, MoveToAppliedFails, RemoveRole, RemoveRoleFails, RoleState,
        LifeCycle!Event
  <2>3. state'[h][r] = state[h][r] \/ (h = phost /\ r = prole)
    BY <1>1, <2>1, <2>2, AdvanceElsewhere DEF RemoveAssociation, LifeCycle!TypeOK
  <2> QED
    BY <1>1, <2>1, <2>2, <2>3, EventElsewhere DEF ConvergePath
<1> QED
  BY <1>2, <1>3, <1>4, <1>5, <1>6 DEF PollStep, PollConverge

\* A caller writes its own association, and none that converges.
LEMMA CallWrites ==
  ASSUME IInv, NEW c \in Callers, CallStep(c), NEW h \in Hosts, NEW r \in Roles
  PROVE  state'[h][r] = state[h][r] \/ state[h][r] \notin ConvergePath
<1>1. LifeCycle!TypeOK
  BY DEF IInv, TypeOK
<1> DEFINE g == call[c].host  q == call[c].role
<1>2. CASE \/ InsertHost(c) \/ CreateCredentials(c) \/ CreateCredentialsFails(c)
           \/ UndoHost(c)
  BY <1>2 DEF InsertHost, CreateCredentials, CreateCredentialsFails, UndoHost, dbVars
<1>3. CASE \/ Associate(c) \/ StartApply(c) \/ StoreCredentialsFails(c)
           \/ AddRoleAuth(c) \/ DeleteRoleDeauth(c)
  <2>1. g \in Hosts /\ q \in Roles
    BY <1>3
    DEF IInv, Shape, HoldingPC, Associate, StartApply, StoreCredentialsFails,
        AddRoleAuth, DeleteRoleDeauth
  <2>2. UNCHANGED state \/ state[g][q] \notin ConvergePath
    BY <1>3
    DEF IInv, Owned, OwnedByCaller, Associate, StartApply, StoreCredentialsFails,
        AddRoleAuth, DeleteRoleDeauth, ConvergePath, WaitingStates, NoRow
  <2>3. \/ UNCHANGED state
        \/ \E old, new : Advance(g, q, old, new)
        \/ \E s : state' = [state EXCEPT ![g][q] = s]
    BY <1>3
    DEF Associate, StartApply, StoreCredentialsFails, AddRoleAuth, DeleteRoleDeauth,
        RemoveAssociation
  <2> HIDE DEF g, q
  <2>4. state'[h][r] = state[h][r] \/ (h = g /\ r = q)
    BY <1>1, <2>1, <2>3, AdvanceElsewhere DEF LifeCycle!TypeOK
  <2> QED
    BY <2>2, <2>4
<1>4. CASE \E p \in Roles : StartDeauth(c, p)
  <2>1. PICK p \in Roles : StartDeauth(c, p)
    BY <1>4
  <2>2. g \in Hosts
    BY <2>1 DEF IInv, Shape, StartDeauth
  <2>3. UNCHANGED state \/ \E old \in {"applied", "deauth-error", "auth-error"},
                             new \in RoleState : Advance(g, p, old, new)
    BY <2>1 DEF StartDeauth, RoleState
  <2> HIDE DEF g
  <2> QED
    BY <1>1, <2>2, <2>3, AdvanceElsewhere DEF ConvergePath, WaitingStates
<1> QED
  BY <1>2, <1>3, <1>4 DEF CallStep

\* A caller's own step keeps what it knows of its association.
Fresh(c) ==
  call[c].pc \in {"start", "credentials"} /\ call[c].new =>
    lastEvent[call[c].host][call[c].role] \in LifeCycle!Untouched

LEMMA OwnStep ==
  ASSUME IInv, NEW c \in Callers, CallStep(c)
  PROVE  OwnedByCaller(c)' /\ Fresh(c)'
<1>1. /\ LifeCycle!TypeOK /\ call \in [Callers -> Call] /\ LifeCycle!EventOrder
      /\ OwnedByCaller(c) /\ Fresh(c)
  BY DEF IInv, TypeOK, RequestsOK, Owned, FreshEvents, Fresh
<1> DEFINE h == call[c].host  r == call[c].role
<1>2. CASE Associate(c)
  <2>1. h \in Hosts /\ r \in Roles
    BY <1>2 DEF IInv, Shape, HoldingPC, Associate
  <2>2. CASE Finish(c)
    BY <1>1, <2>2, RequestMoves DEF OwnedByCaller, Fresh
  <2>3. CASE ~Finish(c)
    <3>1. \E b \in {state[h][r] = NoRow} :
             call' = [call EXCEPT ![c] = [call[c] EXCEPT !.pc = "start", !.new = b]]
      BY <1>2, <2>3 DEF Associate
    <3>2. /\ call'[c].pc = "start" /\ call'[c].new = (state[h][r] = NoRow)
          /\ call'[c].host = h /\ call'[c].role = r
      BY <1>1, <3>1, StartMoves
    <3>3. state[h][r] = NoRow =>
             state' = [state EXCEPT ![h][r] = "not-applied"]
      BY <1>2, <2>3 DEF Associate
    <3>4. UNCHANGED lastEvent
      BY <1>2 DEF Associate
    <3> HIDE DEF h, r
    <3>5. state[h][r] = NoRow => /\ state'[h][r] = "not-applied"
                                 /\ lastEvent'[h][r] \in LifeCycle!Untouched
      <4>1. state[h][r] = NoRow => state'[h][r] = "not-applied"
        BY <1>1, <2>1, <3>3 DEF LifeCycle!TypeOK
      <4>2. state[h][r] = NoRow => lastEvent[h][r] \in LifeCycle!Untouched
        BY <1>1, <2>1
        DEF LifeCycle!EventOrder, LifeCycle!EventsBefore, NoRow, LifeCycle!NoRow
      <4> QED
        BY <3>4, <4>1, <4>2
    <3> QED
      BY <3>2, <3>5 DEF OwnedByCaller, Fresh
  <2> QED
    BY <2>2, <2>3
<1>3. CASE StartApply(c)
  <2>1. h \in Hosts /\ r \in Roles
    BY <1>3 DEF IInv, Shape, HoldingPC, StartApply
  <2>2. CASE Finish(c)
    BY <1>1, <2>2, RequestMoves DEF OwnedByCaller, Fresh
  <2>3. CASE ~Finish(c)
    <3>1. /\ Step(c, "credentials") /\ UNCHANGED lastEvent
          /\ Advance(h, r, state[h][r], StartState(state[h][r]))
          /\ call[c].new => state[h][r] = "not-applied"
          /\ call[c].new => lastEvent[h][r] \in LifeCycle!Untouched
      BY <1>1, <1>3, <2>3 DEF StartApply, OwnedByCaller, Fresh
    <3>2. /\ call'[c].pc = "credentials" /\ call'[c].new = call[c].new
          /\ call'[c].host = h /\ call'[c].role = r
      BY <1>1, <3>1, RequestMoves
    <3> HIDE DEF h, r
    <3>3. state'[h][r] = StartState(state[h][r])
      BY <1>1, <2>1, <3>1 DEF Advance, LifeCycle!TypeOK
    <3> QED
      BY <3>1, <3>2, <3>3 DEF OwnedByCaller, Fresh, StartState
  <2> QED
    BY <2>2, <2>3
<1>4. CASE CreateCredentials(c)
  <2>1. Step(c, "auth") /\ UNCHANGED <<state, lastEvent>> /\ call[c].pc = "credentials"
    BY <1>4 DEF CreateCredentials
  <2>2. /\ call'[c].pc = "auth" /\ call'[c].new = call[c].new
        /\ call'[c].host = h /\ call'[c].role = r
    BY <1>1, <2>1, RequestMoves
  <2> QED
    BY <1>1, <2>1, <2>2 DEF OwnedByCaller, Fresh
<1>5. CASE \/ InsertHost(c) \/ CreateCredentialsFails(c) \/ StoreCredentialsFails(c)
           \/ UndoHost(c) \/ AddRoleAuth(c)
  <2>1. Finish(c) \/ Step(c, "undo") \/ Step(c, "associate")
    BY <1>5 DEF InsertHost, CreateCredentialsFails, StoreCredentialsFails, UndoHost,
                AddRoleAuth
  <2>2. call'[c].pc \in {"idle", "undo", "associate"}
    BY <1>1, <2>1, RequestMoves
  <2> QED
    BY <2>2 DEF OwnedByCaller, Fresh
<1>6. CASE \E q \in Roles : StartDeauth(c, q)
  <2>1. PICK q \in Roles : StartDeauth(c, q)
    BY <1>6
  <2> DEFINE rest == call[c].pending \ {q}
  <2>2. CASE NextPending(c, rest) \/ Finish(c)
    BY <1>1, <2>2, RequestMoves DEF OwnedByCaller, Fresh
  <2>3. CASE ~(NextPending(c, rest) \/ Finish(c))
    <3>1. h \in Hosts
      BY <2>1 DEF IInv, Shape, StartDeauth
    <3>2. /\ Advance(h, q, state[h][q], "start-deauth")
          /\ call' = [call EXCEPT ![c] =
               [call[c] EXCEPT !.pc = "deauth", !.role = q, !.pending = rest]]
      BY <2>1, <2>3 DEF StartDeauth
    <3>3. call'[c].pc = "deauth" /\ call'[c].host = h /\ call'[c].role = q
      BY <1>1, <3>2, DeauthMoves
    <3> HIDE DEF h, rest
    <3>4. state'[h][q] = "start-deauth"
      BY <1>1, <2>1, <3>1, <3>2 DEF Advance, LifeCycle!TypeOK
    <3> QED
      BY <3>3, <3>4 DEF OwnedByCaller, Fresh
  <2> QED
    BY <2>2, <2>3
<1>7. CASE DeleteRoleDeauth(c)
  BY <1>1, <1>7, RequestMoves DEF DeleteRoleDeauth, OwnedByCaller, Fresh
<1> QED
  BY <1>2, <1>3, <1>4, <1>5, <1>6, <1>7 DEF CallStep

LEMMA OwnedStep ==
  ASSUME IInv, [Next]_vars
  PROVE  Owned' /\ FreshEvents'
<1>1. /\ OwnedByPoller /\ \A c \in Callers : OwnedByCaller(c) /\ Fresh(c)
      /\ \A c \in Callers : call[c].pc \in HoldingPC =>
           /\ lock = c /\ lock # Poller /\ lock # Nobody
           /\ call[c].host \in Hosts /\ call[c].role \in Roles
      /\ call \in [Callers -> Call]
  <2>1. /\ OwnedByPoller /\ \A c \in Callers : OwnedByCaller(c) /\ Fresh(c)
        /\ call \in [Callers -> Call]
    BY DEF IInv, Owned, FreshEvents, Fresh, TypeOK, RequestsOK
  <2>2. \A c \in Callers : call[c].pc \in HoldingPC =>
           /\ lock = c /\ lock # Poller /\ lock # Nobody
           /\ call[c].host \in Hosts /\ call[c].role \in Roles
    BY RoleManagerAssumption DEF IInv, LockDiscipline, Shape, HoldingPC
  <2> QED
    BY <2>1, <2>2
<1>2. ASSUME OwnedByPoller', \A c \in Callers : OwnedByCaller(c)' /\ Fresh(c)'
      PROVE  Owned' /\ FreshEvents'
  BY <1>2 DEF Owned, FreshEvents, Fresh
\* a caller whose request nobody else may touch
<1>3. ASSUME NEW c \in Callers, call'[c] = call[c],
             call[c].pc \in HoldingPC =>
               \/ UNCHANGED <<state, lastEvent>>
               \/ /\ state'[call[c].host][call[c].role] = state[call[c].host][call[c].role]
                  /\ lastEvent'[call[c].host][call[c].role]
                       = lastEvent[call[c].host][call[c].role]
               \/ state[call[c].host][call[c].role] \in ConvergePath
      PROVE  OwnedByCaller(c)' /\ Fresh(c)'
  <2>1. CASE call[c].pc \in {"start", "credentials", "auth", "deauth"}
    BY <1>1, <1>3, <2>1
    DEF OwnedByCaller, Fresh, HoldingPC, ConvergePath, WaitingStates
  <2>2. CASE call[c].pc \notin {"start", "credentials", "auth", "deauth"}
    BY <1>3, <2>2 DEF OwnedByCaller, Fresh
  <2> QED
    BY <2>1, <2>2
<1>4. CASE PollStep
  <2>1. OwnedByPoller'
    <3>1. CASE \E r \in Roles : FinishRole(r)
      <4>1. PICK r \in Roles : FinishRole(r)
        BY <3>1
      <4>2. phost \in Hosts
        BY <4>1 DEF FinishRole, IInv, Shape
      <4>3. LifeCycle!TypeOK
        BY DEF IInv, TypeOK
      <4> QED
        BY <4>1, <4>2, <4>3 DEF FinishRole, Advance, OwnedByPoller, LifeCycle!TypeOK
    <3>2. CASE ~\E r \in Roles : FinishRole(r)
      <4>1. ppc' \notin {"applied", "removed"}
        <5>1. CASE PollLoop
          BY <5>1
          DEF PollLoop, ReadSnapshot, Classify, NewHost, AbsentUnauthorizedHost,
              AbsentHost, ExistingHost, StartAdvance, AdvanceRole, AdvanceNothing,
              EndAdvance, CheckLastRole, MarkAbsentHost, FetchFails, FetchUnauthorized,
              ReportOther, ReportRaises, ReportConverged, ReportFailed, Report,
              EndRoles, EndPoll, NextHost, NextRole, AbortPoll, Goto
        <5>2. CASE PollAdvance
          BY <5>2
          DEF PollAdvance, PollerAuth, PushAuth, PushFails, PollerDeauth, PushDeauth,
              PushDeauthFails, AdvanceStep, AdvanceFails, Advancing, AbortPoll, pollVars
        <5>3. CASE PollConverge
          BY <3>2, <5>3
          DEF PollConverge, FailRole, MoveToApplied, MoveToAppliedFails, RemoveRole,
              RemoveRoleFails, DropHost, NextRole, AbortPoll, Goto
        <5> QED
          BY <1>4, <5>1, <5>2, <5>3 DEF PollStep
      <4> QED
        BY <4>1 DEF OwnedByPoller
    <3> QED
      BY <3>1, <3>2
  <2>2. ASSUME NEW c \in Callers PROVE OwnedByCaller(c)' /\ Fresh(c)'
    <3>1. call'[c] = call[c]
      BY <1>4, PollFrame
    <3> QED
      BY <1>1, <1>3, <1>4, <3>1, PollWrites
  <2> QED
    BY <1>2, <2>1, <2>2
<1>5. ASSUME NEW c \in Callers, CallStep(c) PROVE Owned' /\ FreshEvents'
  <2>1. UNCHANGED pollVars
    BY <1>5
    DEF CallStep, InsertHost, Associate, StartApply, CreateCredentials,
        CreateCredentialsFails, StoreCredentialsFails, UndoHost, AddRoleAuth,
        StartDeauth, DeleteRoleDeauth
  <2>2. ppc \in {"applied", "removed"} =>
          /\ phost \in Hosts /\ prole \in Roles
          /\ state'[phost][prole] = state[phost][prole]
    <3>1. ppc \in {"applied", "removed"} =>
            /\ phost \in Hosts /\ prole \in Roles
            /\ state[phost][prole] \in ConvergePath
      BY <1>1 DEF IInv, Shape, OwnedByPoller, ConvergePath
    <3> QED
      BY <1>5, <3>1, CallWrites
  <2>3. OwnedByPoller'
    BY <1>1, <2>1, <2>2 DEF OwnedByPoller, pollVars
  <2>4. ASSUME NEW d \in Callers PROVE OwnedByCaller(d)' /\ Fresh(d)'
    <3>1. CASE d = c
      BY <1>5, <3>1, OwnStep
    <3>2. CASE d # c
      BY <1>1, <1>3, <1>5, <3>2, CallLock
    <3> QED
      BY <3>1, <3>2
  <2> QED
    BY <1>2, <2>3, <2>4
<1>6. ASSUME UNCHANGED <<state, lastEvent, ppc, phost, prole>>,
             \A c \in Callers : call'[c] = call[c] \/ call'[c].pc \in {"insert", "next"}
      PROVE  Owned' /\ FreshEvents'
  <2>1. OwnedByPoller'
    BY <1>1, <1>6 DEF OwnedByPoller
  <2>2. ASSUME NEW c \in Callers PROVE OwnedByCaller(c)' /\ Fresh(c)'
    BY <1>1, <1>3, <1>6 DEF OwnedByCaller, Fresh
  <2> QED
    BY <1>2, <2>1, <2>2
<1>7. CASE \E c \in Callers : Request(c)
  <2>1. UNCHANGED <<state, lastEvent, ppc, phost, prole>>
    BY <1>7, OtherSteps DEF dbVars, pollVars
  <2>2. \A c \in Callers : call'[c] = call[c] \/ call'[c].pc \in {"insert", "next"}
    BY <1>1, <1>7 DEF Request, AddRole, DeleteRole, DeleteHost, Delete, IdleCall
  <2> QED
    BY <1>6, <2>1, <2>2
<1>8. CASE GetAllHosts \/ BbmasterRestart \/ (\E h \in Hosts : HostAppears(h))
           \/ UNCHANGED vars
  <2>1. UNCHANGED <<state, lastEvent, ppc, phost, prole, call>>
    BY <1>8 DEF GetAllHosts, BbmasterRestart, HostAppears, vars, dbVars, pollVars
  <2> QED
    BY <1>6, <2>1
<1>9. CASE Restart
  BY <1>9 DEF Restart, AbortPoll, IdleCall, Owned, OwnedByPoller, OwnedByCaller,
              FreshEvents
<1> QED
  BY <1>4, <1>5, <1>7, <1>8, <1>9 DEF Next

-----------------------------------------------------------------------------
(* Rows of associations and rows of hosts. *)

LEMMA AdvanceKeepsRows ==
  ASSUME LifeCycle!TypeOK, NEW g \in Hosts, NEW q \in Roles, NEW old, NEW new,
         old # NoRow, new # NoRow, Advance(g, q, old, new)
  PROVE  \A h \in Hosts : RolesOf(h)' = RolesOf(h)
<1>1. \A h \in Hosts, r \in Roles : (state'[h][r] = NoRow) <=> (state[h][r] = NoRow)
  BY DEF Advance, LifeCycle!TypeOK
<1> QED
  BY <1>1 DEF RolesOf

LEMMA RemovalShrinks ==
  ASSUME LifeCycle!TypeOK, NEW g \in Hosts, NEW q \in Roles, RemoveAssociation(g, q)
  PROVE  \A h \in Hosts : RolesOf(h)' = IF h = g THEN RolesOf(h) \ {q} ELSE RolesOf(h)
<1>1. \A h \in Hosts, r \in Roles :
        state'[h][r] = IF h = g /\ r = q THEN NoRow ELSE state[h][r]
  BY DEF RemoveAssociation, LifeCycle!TypeOK
<1> QED
  BY <1>1 DEF RolesOf

\* The poller removes a row at one place only and adds none.
LEMMA PollRows ==
  ASSUME IInv, PollStep, ~RemoveRole
  PROVE  \A h \in Hosts : RolesOf(h)' = RolesOf(h)
<1>1. LifeCycle!TypeOK /\ (prole # NoRole => prole \in Roles)
      /\ (ppc \in {"advance", "finish", "fail", "applied", "removed"} => phost \in Hosts)
      /\ (ppc \in {"applied", "removed"} => prole \in Roles)
  BY DEF IInv, TypeOK, PollerOK, Shape
<1>2. CASE UNCHANGED state
  BY <1>2 DEF RolesOf
<1>3. CASE PollAdvance
  <2>1. phost \in Hosts /\ prole \in Roles
    BY <1>1, <1>3
    DEF PollAdvance, PollerAuth, PushAuth, PushFails, PollerDeauth, PushDeauth,
        PushDeauthFails, Advancing
  <2>2. \E old, new \in RoleState : Advance(phost, prole, old, new)
    BY <1>3
    DEF PollAdvance, PollerAuth, PushAuth, PushFails, PollerDeauth, PushDeauth,
        PushDeauthFails, Advancing, AdvanceStep, AdvanceFails, RoleState
  <2> QED
    BY <1>1, <2>1, <2>2, AdvanceKeepsRows DEF RoleState, NoRow
<1>4. CASE \E r \in Roles : FinishRole(r) \/ FailRole(r)
  <2>1. PICK r \in Roles : FinishRole(r) \/ FailRole(r)
    BY <1>4
  <2>2. phost \in Hosts
    BY <1>1, <2>1 DEF FinishRole, FailRole
  <2>3. UNCHANGED state \/ \E old, new \in RoleState : Advance(phost, r, old, new)
    BY <2>1 DEF FinishRole, FailRole, WaitingStates, RoleState
  <2> QED
    BY <1>1, <1>2, <2>1, <2>2, <2>3, AdvanceKeepsRows DEF RoleState, NoRow
<1>5. CASE MoveToApplied \/ MoveToAppliedFails \/ RemoveRoleFails
  <2>1. phost \in Hosts /\ prole \in Roles
    BY <1>1, <1>5
    DEF MoveToApplied, MoveToAppliedFails, RemoveRoleFails, AtConverged,
        AtDeconverged, Advancing
  <2>2. \E old, new \in RoleState : Advance(phost, prole, old, new)
    BY <1>5 DEF MoveToApplied, MoveToAppliedFails, RemoveRoleFails, RoleState
  <2> QED
    BY <1>1, <2>1, <2>2, AdvanceKeepsRows DEF RoleState, NoRow
<1>6. PollLoop \/ DropHost => UNCHANGED state
  BY PollLoopFrame DEF DropHost
<1> QED
  BY <1>2, <1>3, <1>4, <1>5, <1>6 DEF PollStep, PollConverge

\* A caller adds a row in Associate and removes one in StoreCredentialsFails.
LEMMA CallRows ==
  ASSUME IInv, NEW c \in Callers, CallStep(c),
         ~Associate(c), ~StoreCredentialsFails(c)
  PROVE  \A h \in Hosts : RolesOf(h)' = RolesOf(h)
<1>1. LifeCycle!TypeOK
  BY DEF IInv, TypeOK
<1> DEFINE g == call[c].host  q == call[c].role
<1>2. CASE UNCHANGED state
  BY <1>2 DEF RolesOf
<1>3. CASE StartApply(c) \/ AddRoleAuth(c) \/ DeleteRoleDeauth(c)
  <2>1. g \in Hosts /\ q \in Roles
    BY <1>3 DEF IInv, Shape, HoldingPC, StartApply, AddRoleAuth, DeleteRoleDeauth
  <2>2. UNCHANGED state \/ \E old, new \in RoleState : Advance(g, q, old, new)
    BY <1>3
    DEF IInv, Owned, OwnedByCaller, StartApply, StartState, AddRoleAuth,
        DeleteRoleDeauth, RoleState
  <2> HIDE DEF g, q
  <2> QED
    BY <1>1, <1>2, <2>1, <2>2, AdvanceKeepsRows DEF RoleState, NoRow
<1>4. CASE \E p \in Roles : StartDeauth(c, p)
  <2>1. PICK p \in Roles : StartDeauth(c, p)
    BY <1>4
  <2>2. g \in Hosts
    BY <2>1 DEF IInv, Shape, StartDeauth
  <2>3. UNCHANGED state \/ \E old, new \in RoleState : Advance(g, p, old, new)
    BY <2>1 DEF StartDeauth, RoleState
  <2> HIDE DEF g
  <2> QED
    BY <1>1, <1>2, <2>2, <2>3, AdvanceKeepsRows DEF RoleState, NoRow
<1>5. CASE \/ InsertHost(c) \/ CreateCredentials(c) \/ CreateCredentialsFails(c)
           \/ UndoHost(c)
  BY <1>2, <1>5 DEF InsertHost, CreateCredentials, CreateCredentialsFails, UndoHost,
                    dbVars
<1> QED
  BY <1>3, <1>4, <1>5 DEF CallStep

LEMMA OrphanStep ==
  ASSUME IInv, [Next]_vars
  PROVE  NoOrphan'
<1>1. LifeCycle!TypeOK /\ \A h \in Hosts : RolesOf(h) # {} => h \in hostRow
  BY DEF IInv, TypeOK, NoOrphan, RolesOf
<1>2. (\A h \in Hosts : RolesOf(h)' # {} => h \in hostRow') => NoOrphan'
  BY DEF NoOrphan, RolesOf
<1>3. ASSUME \A h \in Hosts : RolesOf(h)' \subseteq RolesOf(h),
             hostRow \subseteq hostRow' \/ \E g \in hostRow :
               RolesOf(g) = {} /\ hostRow' = hostRow \ {g}
      PROVE  NoOrphan'
  BY <1>1, <1>2, <1>3
<1>4. CASE RemoveRole
  <2>1. phost \in Hosts /\ prole \in Roles
    BY <1>4 DEF IInv, TypeOK, PollerOK, Shape, RemoveRole, AtDeconverged, Advancing
  <2>2. RemoveAssociation(phost, prole) /\ UNCHANGED hostRow
    BY <1>4 DEF RemoveRole
  <2> QED
    BY <1>1, <1>3, <2>1, <2>2, RemovalShrinks
<1>5. CASE PollStep /\ ~RemoveRole
  <2>1. UNCHANGED hostRow \/ \E g \in hostRow :
          RolesOf(g) = {} /\ hostRow' = hostRow \ {g}
    BY <1>5, PollLoopFrame
    DEF PollStep, PollAdvance, PollerAuth, PushAuth, PushFails, PollerDeauth,
        PushDeauth, PushDeauthFails, AdvanceStep, AdvanceFails, PollConverge,
        FinishRole, FailRole, MoveToApplied, MoveToAppliedFails, RemoveRoleFails,
        DropHost, DeletableRow, DeleteHostRow
  <2> QED
    BY <1>3, <1>5, <2>1, PollRows
<1>6. ASSUME NEW c \in Callers, Associate(c) PROVE NoOrphan'
  <2> DEFINE g == call[c].host  q == call[c].role
  <2>1. g \in Hosts /\ q \in Roles
    BY <1>6 DEF IInv, Shape, HoldingPC, Associate
  <2>2. \/ UNCHANGED <<hostRow, state>>
        \/ /\ g \in hostRow /\ UNCHANGED hostRow
           /\ \E s : state' = [state EXCEPT ![g][q] = s]
    BY <1>6 DEF Associate
  <2> HIDE DEF g, q
  <2>3. \A h \in Hosts : RolesOf(h)' = RolesOf(h) \/ (h = g /\ g \in hostRow)
    BY <1>1, <2>1, <2>2 DEF RolesOf, LifeCycle!TypeOK
  <2> QED
    BY <1>1, <1>2, <2>2, <2>3
<1>7. ASSUME NEW c \in Callers, StoreCredentialsFails(c) PROVE NoOrphan'
  <2> DEFINE g == call[c].host  q == call[c].role
  <2>1. g \in Hosts /\ q \in Roles
    BY <1>7 DEF IInv, Shape, HoldingPC, StoreCredentialsFails
  <2>2. (RemoveAssociation(g, q) \/ UNCHANGED state) /\ UNCHANGED hostRow
    BY <1>7 DEF StoreCredentialsFails
  <2> HIDE DEF g, q
  <2>3. \A h \in Hosts : RolesOf(h)' \subseteq RolesOf(h)
    <3>1. UNCHANGED state => \A h \in Hosts : RolesOf(h)' = RolesOf(h)
      BY DEF RolesOf
    <3> QED
      BY <1>1, <2>1, <2>2, <3>1, RemovalShrinks
  <2> QED
    BY <1>3, <2>2, <2>3
<1>8. ASSUME NEW c \in Callers, CallStep(c), ~Associate(c), ~StoreCredentialsFails(c)
      PROVE  NoOrphan'
  <2>1. hostRow \subseteq hostRow' \/ \E g \in hostRow :
          RolesOf(g) = {} /\ hostRow' = hostRow \ {g}
    BY <1>8
    DEF CallStep, InsertHost, StartApply, CreateCredentials, CreateCredentialsFails,
        UndoHost, AddRoleAuth, StartDeauth, DeleteRoleDeauth, dbVars, DeletableRow,
        DeleteHostRow
  <2> QED
    BY <1>3, <1>8, <2>1, CallRows
<1>9. CASE UNCHANGED dbVars
  BY <1>9 DEF dbVars, NoOrphan, IInv
<1> QED
  BY <1>4, <1>5, <1>6, <1>7, <1>8, <1>9, OtherSteps DEF Next, vars, Restart

\* A thread that will look after a host without roles.
Kept(h) ==
  \/ phost = h /\ ppc \in {"check", "drop"}
  \/ \E c \in Callers : call[c].host = h /\ call[c].pc \in {"associate", "undo"}

LEMMA GhostStep ==
  ASSUME IInv, [Next]_vars
  PROVE  NoGhostHost'
<1>1. /\ LifeCycle!TypeOK /\ call \in [Callers -> Call]
      /\ restarts = 0 => \A h \in hostRow : RolesOf(h) = {} => Kept(h)
      /\ hostRow \subseteq Hosts
  BY DEF IInv, TypeOK, RequestsOK, DatabaseOK, NoGhostHost, Kept
<1>2. (restarts' = 0 => \A h \in hostRow' : RolesOf(h)' = {} => Kept(h)') => NoGhostHost'
  BY DEF NoGhostHost, Kept
<1>3. CASE RemoveRole
  <2>1. phost \in Hosts /\ prole \in Roles
    BY <1>3 DEF IInv, TypeOK, PollerOK, Shape, RemoveRole, AtDeconverged, Advancing
  <2>2. RemoveAssociation(phost, prole) /\ Goto("check") /\ UNCHANGED hostRow
    BY <1>3 DEF RemoveRole
  <2>3. UNCHANGED <<call, restarts>>
    BY <1>3, PollFrame DEF PollStep, PollConverge
  <2>4. ppc \notin {"check", "drop"}
    BY <1>3 DEF RemoveRole, AtDeconverged, Advancing
  <2>5. ASSUME NEW h \in hostRow', RolesOf(h)' = {}, restarts' = 0
        PROVE  Kept(h)'
    <3>1. CASE h = phost
      BY <2>2, <3>1 DEF Goto, Kept
    <3>2. CASE h # phost
      <4>1. h \in hostRow /\ RolesOf(h) = {}
        BY <1>1, <2>1, <2>2, <2>5, <3>2, RemovalShrinks
      <4> QED
        BY <1>1, <2>3, <2>4, <2>5, <4>1 DEF Kept
    <3> QED
      BY <3>1, <3>2
  <2> QED
    BY <1>2, <2>5
<1>4. CASE PollStep /\ ~RemoveRole
  <2>1. UNCHANGED <<call, restarts>> /\ \A h \in Hosts : RolesOf(h)' = RolesOf(h)
    BY <1>4, PollFrame, PollRows
  <2>2. hostRow' \subseteq hostRow
    BY <1>4, PollLoopFrame
    DEF PollStep, PollAdvance, PollerAuth, PushAuth, PushFails, PollerDeauth,
        PushDeauth, PushDeauthFails, AdvanceStep, AdvanceFails, PollConverge,
        FinishRole, FailRole, MoveToApplied, MoveToAppliedFails, RemoveRoleFails,
        DropHost, DeleteHostRow
  <2>3. ppc \in {"check", "drop"} /\ RolesOf(phost) = {} =>
          phost \notin hostRow' \/ (ppc' = "drop" /\ phost' = phost)
    <3>1. ppc \in {"check", "drop"} => CheckLastRole \/ DropHost
      BY <1>4
      DEF PollStep, PollLoop, ReadSnapshot, Classify, NewHost, AbsentUnauthorizedHost,
          AbsentHost, ExistingHost, AdvanceRole, AdvanceNothing, EndAdvance,
          MarkAbsentHost, FetchFails, FetchUnauthorized, ReportOther, ReportRaises,
          ReportConverged, ReportFailed, Report, EndRoles, EndPoll, PollAdvance,
          PollerAuth, PushAuth, PushFails, PollerDeauth, PushDeauth, PushDeauthFails,
          Advancing, PollConverge, FinishRole, FailRole, MoveToApplied,
          MoveToAppliedFails, RemoveRoleFails, AtConverged, AtDeconverged
    <3>2. CheckLastRole /\ RolesOf(phost) = {} => ppc' = "drop" /\ phost' = phost
      BY DEF CheckLastRole, Goto
    <3>3. DropHost /\ RolesOf(phost) = {} => phost \notin hostRow'
      BY DEF DropHost, DeletableRow, DeleteHostRow
    <3> QED
      BY <3>1, <3>2, <3>3
  <2>4. ASSUME NEW h \in hostRow', RolesOf(h)' = {}, restarts' = 0
        PROVE  Kept(h)'
    <3>1. h \in hostRow /\ RolesOf(h) = {} /\ Kept(h)
      BY <1>1, <2>1, <2>2, <2>4
    <3> QED
      BY <2>1, <2>3, <2>4, <3>1 DEF Kept
  <2> QED
    BY <1>2, <2>4
<1>5. ASSUME NEW c \in Callers, CallStep(c) PROVE NoGhostHost'
  <2> DEFINE g == call[c].host  q == call[c].role
  <2>1. UNCHANGED <<ppc, phost, restarts>>
        /\ \A d \in Callers : d # c => call'[d] = call[d]
    <3>1. UNCHANGED <<ppc, phost, restarts>>
      BY <1>5
      DEF CallStep, InsertHost, Associate, StartApply, CreateCredentials,
          CreateCredentialsFails, StoreCredentialsFails, UndoHost, AddRoleAuth,
          StartDeauth, DeleteRoleDeauth, pollVars, envVars
    <3> QED
      BY <1>5, <3>1, CallLock
\* whoever looks after another host goes on doing so
  <2>2. ASSUME NEW h \in hostRow, RolesOf(h) = {}, restarts' = 0,
               call[c].pc \in {"associate", "undo"} => h # g
        PROVE  Kept(h)'
    BY <1>1, <2>1, <2>2 DEF Kept
  <2>3. CASE Associate(c)
    <3>1. g \in Hosts /\ q \in Roles /\ UNCHANGED hostRow
      BY <2>3 DEF IInv, Shape, HoldingPC, Associate
    <3>2. \/ UNCHANGED state /\ g \notin hostRow
          \/ UNCHANGED state /\ state[g][q] # NoRow
          \/ state[g][q] = NoRow /\ state' = [state EXCEPT ![g][q] = "not-applied"]
      BY <2>3 DEF Associate
    <3> HIDE DEF g, q
    <3>3. ASSUME NEW h \in hostRow', RolesOf(h)' = {}
          PROVE  h \in hostRow /\ RolesOf(h) = {} /\ h # g
      <4>1. h \in hostRow /\ h \in Hosts
        BY <1>1, <3>1
      <4>2. \A r \in Roles : state'[h][r] = NoRow
        BY <3>3 DEF RolesOf
      <4>3. \A r \in Roles : state[h][r] = NoRow
        BY <1>1, <3>1, <3>2, <4>1, <4>2 DEF LifeCycle!TypeOK, NoRow
      <4>4. h # g
        BY <1>1, <3>1, <3>2, <4>1, <4>2, <4>3 DEF LifeCycle!TypeOK, NoRow
      <4> QED
        BY <4>1, <4>3, <4>4 DEF RolesOf
    <3> QED
      BY <1>2, <2>2, <3>3
  <2>4. CASE StoreCredentialsFails(c)
    <3>1. g \in Hosts /\ q \in Roles /\ UNCHANGED hostRow /\ call[c].pc = "credentials"
      BY <2>4 DEF IInv, Shape, HoldingPC, StoreCredentialsFails
    <3>2. CASE RemoveAssociation(g, q) /\ Step(c, "undo")
      <4>1. call'[c].pc = "undo" /\ call'[c].host = g
        BY <1>1, <3>2, RequestMoves
      <4> HIDE DEF g, q
      <4>2. ASSUME NEW h \in hostRow', RolesOf(h)' = {}, restarts' = 0, h # g
            PROVE  Kept(h)'
        <5>1. h \in hostRow /\ RolesOf(h) = {}
          BY <1>1, <3>1, <3>2, <4>2, RemovalShrinks
        <5> QED
          BY <2>2, <4>2, <5>1
      <4> QED
        BY <1>2, <4>1, <4>2 DEF Kept
    <3>3. CASE UNCHANGED state
      <4>1. \A h \in Hosts : RolesOf(h)' = RolesOf(h)
        BY <3>3 DEF RolesOf
      <4> QED
        BY <1>1, <1>2, <2>2, <3>1, <4>1
    <3> QED
      BY <2>4, <3>2, <3>3 DEF StoreCredentialsFails
  <2>5. CASE InsertHost(c)
    <3>1. \A h \in Hosts : RolesOf(h)' = RolesOf(h)
      BY <2>5 DEF InsertHost, RolesOf
    <3>2. /\ g \in Hosts /\ call[c].pc = "insert"
          /\ \/ Step(c, "associate") /\ hostRow' = hostRow \union {g}
             \/ UNCHANGED hostRow
      BY <2>5 DEF IInv, Shape, InsertHost
    <3>3. Step(c, "associate") => call'[c].pc = "associate" /\ call'[c].host = g
      BY <1>1, RequestMoves
    <3> HIDE DEF g
    <3>4. ASSUME NEW h \in hostRow', RolesOf(h)' = {}, restarts' = 0
          PROVE  Kept(h)'
      <4>1. h \in hostRow \/ (h = g /\ Step(c, "associate"))
        BY <3>2, <3>4
      <4>2. CASE h \in hostRow
        BY <1>1, <2>2, <3>1, <3>2, <3>4, <4>2
      <4>3. CASE h = g /\ Step(c, "associate")
        BY <3>3, <4>3 DEF Kept
      <4> QED
        BY <4>1, <4>2, <4>3
    <3> QED
      BY <1>2, <3>4
  <2>6. CASE UndoHost(c)
    <3>1. \A h \in Hosts : RolesOf(h)' = RolesOf(h)
      BY <2>6 DEF UndoHost, RolesOf
    <3>2. \/ hostRow' = hostRow \ {g}
          \/ UNCHANGED hostRow /\ ~(g \in hostRow /\ RolesOf(g) = {})
      BY <2>6 DEF UndoHost, DeletableRow, DeleteHostRow
    <3> HIDE DEF g
    <3>3. ASSUME NEW h \in hostRow', RolesOf(h)' = {}
          PROVE  h \in hostRow /\ RolesOf(h) = {} /\ h # g
      BY <1>1, <3>1, <3>2, <3>3
    <3> QED
      BY <1>2, <2>2, <3>3
  <2>7. CASE /\ ~Associate(c) /\ ~StoreCredentialsFails(c)
             /\ ~InsertHost(c) /\ ~UndoHost(c)
    <3>1. UNCHANGED hostRow /\ call[c].pc \notin {"associate", "undo"}
      BY <1>5, <2>7
      DEF CallStep, StartApply, CreateCredentials, CreateCredentialsFails, AddRoleAuth,
          StartDeauth, DeleteRoleDeauth, dbVars
    <3>2. \A h \in Hosts : RolesOf(h)' = RolesOf(h)
      BY <1>5, <2>7, CallRows
    <3> QED
      BY <1>1, <1>2, <2>2, <3>1, <3>2
  <2> QED
    BY <2>3, <2>4, <2>5, <2>6, <2>7
<1>6. ASSUME UNCHANGED <<state, hostRow, ppc, phost, restarts>>,
             \A c \in Callers : call'[c] = call[c] \/ call[c].pc = "idle"
      PROVE  NoGhostHost'
  <2>1. ASSUME NEW h \in hostRow', RolesOf(h)' = {}, restarts' = 0
        PROVE  Kept(h)'
    <3>1. h \in hostRow /\ RolesOf(h) = {}
      BY <1>6, <2>1 DEF RolesOf
    <3> QED
      BY <1>1, <1>6, <2>1, <3>1 DEF Kept
  <2> QED
    BY <1>2, <2>1
<1>7. CASE \E c \in Callers : Request(c)
  <2>1. UNCHANGED <<state, hostRow, ppc, phost, restarts>>
    BY <1>7, OtherSteps DEF dbVars, pollVars
  <2>2. \A c \in Callers : call'[c] = call[c] \/ call[c].pc = "idle"
    BY <1>1, <1>7 DEF Request, AddRole, DeleteRole, DeleteHost, Delete
  <2> QED
    BY <1>6, <2>1, <2>2
<1>8. CASE GetAllHosts \/ BbmasterRestart \/ (\E h \in Hosts : HostAppears(h))
           \/ UNCHANGED vars
  <2>1. UNCHANGED <<state, hostRow, ppc, phost, restarts, call>>
    BY <1>8 DEF GetAllHosts, BbmasterRestart, HostAppears, vars, dbVars, pollVars, bounds
  <2> QED
    BY <1>6, <2>1
<1>9. CASE Restart
  <2>1. restarts' # 0
    BY <1>9 DEF Restart, IInv, TypeOK, WorldOK
  <2> QED
    BY <1>2, <2>1
<1> QED
  BY <1>3, <1>4, <1>5, <1>7, <1>8, <1>9 DEF Next

-----------------------------------------------------------------------------
LEMMA InitInvariant ==
  ASSUME Init
  PROVE  IInv /\ LifeCycle!Init
<1>1. LifeCycle!Init
  BY DEF Init, LifeCycle!Init, NoRow, LifeCycle!NoRow
<1>2. LifeCycle!TypeOK /\ LifeCycle!EventOrder
  BY <1>1, LifeCycle!InitFacts
<1>3. call = [c \in Callers |-> IdleCall] /\ \A c \in Callers : call[c].pc = "idle"
  BY DEF Init, IdleCall
<1>4. TypeOK
  <2>1. DatabaseOK
    BY DEF Init, DatabaseOK
  <2>2. RequestsOK
    BY <1>3, IdleType, RoleManagerAssumption DEF Init, RequestsOK
  <2>3. PollerOK
    BY NoWorkType DEF Init, PollerOK, PollPC
  <2>4. WorldOK
    BY RoleManagerAssumption DEF Init, WorldOK
  <2> QED
    BY <1>2, <2>1, <2>2, <2>3, <2>4 DEF TypeOK
<1>5. LockDiscipline /\ Shape /\ FreshEvents /\ Owned
  BY <1>3, RoleManagerAssumption
  DEF Init, LockDiscipline, Shape, FreshEvents, Owned, OwnedByPoller, OwnedByCaller,
      HoldingPC
<1>6. NoOrphan /\ NoGhostHost
  BY DEF Init, NoOrphan, NoGhostHost
<1> QED
  BY <1>1, <1>2, <1>4, <1>5, <1>6 DEF IInv

-----------------------------------------------------------------------------
(* The theorems. *)

\* No interleaving of requests, polls and crashes (add_role, delete_role,
\* process_hosts) leaves the inductive invariant.
THEOREM Invariant == Spec => []IInv
<1>1. Init => IInv
  BY InitInvariant
<1>2. IInv /\ [Next]_vars => IInv'
  BY TypeStep, LockStep, OwnedStep, OrphanStep, GhostStep DEF IInv
<1> QED
  BY <1>1, <1>2, PTL DEF Spec

\* Every variable keeps its type (the rows of dbutils.py, the threads' program
\* counters and loop variables).
THEOREM TypeCorrect == Spec => []TypeOK
<1>1. IInv => TypeOK
  BY DEF IInv
<1> QED
  BY <1>1, Invariant, PTL

\* The poller outside the lock and the API threads inside it never take an
\* association from each other (_finish_role_converge, move_new_state).
THEOREM Ownership == Spec => []Owned
<1>1. IInv => Owned
  BY DEF IInv
<1> QED
  BY <1>1, Invariant, PTL

\* No row of host_role_map outlives its hosts row, although move_to_not_applied_state
\* checks and deletes in separate transactions.
THEOREM NoOrphans == Spec => []NoOrphan
<1>1. IInv => NoOrphan
  BY DEF IInv
<1> QED
  BY <1>1, Invariant, PTL

\* Without a crash a host row without roles has a thread about to deal with it
\* (insert_update_host, move_to_not_applied_state, the handler in add_role).
THEOREM NoGhosts == Spec => []NoGhostHost
<1>1. IInv => NoGhostHost
  BY DEF IInv
<1> QED
  BY <1>1, Invariant, PTL

\* The threads, the lock and the database implement the life cycle of a role.
THEOREM Implementation == Spec => ImplementsLifeCycle
<1>1. Init => LifeCycle!Init
  BY InitInvariant
<1>2. IInv /\ [Next]_vars => [LifeCycle!Next]_(LifeCycle!roleVars)
  BY StepImplementsLifeCycle
<1> QED
  BY <1>1, <1>2, Invariant, PTL DEF Spec, ImplementsLifeCycle, LifeCycle!Spec

\* So the auth events of every role complete in order, whatever crashes.
THEOREM EventsInOrder == Spec => []LifeCycle!EventOrder
<1>1. IInv => LifeCycle!EventOrder
  BY DEF IInv
<1> QED
  BY <1>1, Invariant, PTL
=============================================================================
