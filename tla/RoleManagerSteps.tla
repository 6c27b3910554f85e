-------------------------- MODULE RoleManagerSteps --------------------------
(***************************************************************************)
(* Every step of RoleManager from a state of IInv is a step of             *)
(* RoleLifeCycle or leaves the associations alone, and keeps TypeOK.       *)
(* RoleManagerProofs goes on from here.                                    *)
(***************************************************************************)
EXTENDS RoleManager, TLAPS

-----------------------------------------------------------------------------
(* Steps of RoleLifeCycle. *)

\* A compare-and-set that finds what it expects.
LEMMA AdvanceMoves ==
  ASSUME NEW h, NEW r, NEW old, NEW new, state[h][r] = old, Advance(h, r, old, new)
  PROVE  LifeCycle!Move(h, r, old, new)
BY DEF Advance, LifeCycle!Move

LEMMA RemovalMoves ==
  ASSUME NEW h, NEW r, RemoveAssociation(h, r)
  PROVE  LifeCycle!Move(h, r, state[h][r], LifeCycle!NoRow)
BY DEF RemoveAssociation, LifeCycle!Move, NoRow, LifeCycle!NoRow

\* A compare-and-set that writes what it expects.
LEMMA AdvanceNowhere ==
  ASSUME LifeCycle!TypeOK, NEW h \in Hosts, NEW r \in Roles, NEW old,
         Advance(h, r, old, old)
  PROVE  UNCHANGED state
BY DEF Advance, LifeCycle!TypeOK

LEMMA PollLoopFrame ==
  ASSUME PollLoop
  PROVE  /\ UNCHANGED <<hostRow, state, version, creds, lastEvent, call, calls,
                        restarts, losses, bbHosts>>
BY DEF PollLoop, ReadSnapshot, Classify, NewHost, AbsentUnauthorizedHost, AbsentHost,
       ExistingHost, StartAdvance, AdvanceRole, AdvanceNothing, EndAdvance,
       CheckLastRole, MarkAbsentHost, FetchFails, FetchUnauthorized, ReportOther,
       ReportRaises, ReportConverged, ReportFailed, Report, EndRoles, EndPoll,
       dbVars, apiVars, envVars

LEMMA PollAdvanceSteps ==
  ASSUME IInv, PollAdvance
  PROVE  [LifeCycle!Next]_(LifeCycle!roleVars)
<1>1. phost \in Hosts /\ prole \in Roles
  BY DEF IInv, TypeOK, PollerOK, Shape, PollAdvance, PollerAuth, PushAuth, PushFails,
         PollerDeauth, PushDeauth, PushDeauthFails, Advancing
<1>2. CASE PollerAuth
  BY <1>1, <1>2, AdvanceMoves
  DEF PollerAuth, Advancing, AdvanceStep, AdvanceFails, EventDone, LifeCycle!Next,
      LifeCycle!Step, LifeCycle!Authorized, LifeCycle!Done, LifeCycle!NoEvent
<1>3. CASE PushAuth
  BY <1>1, <1>3, AdvanceMoves
  DEF PushAuth, Advancing, AdvanceStep, LifeCycle!Next, LifeCycle!Step,
      LifeCycle!Authorized, LifeCycle!NoEvent
<1>4. CASE PushFails
  BY <1>1, <1>4, AdvanceNowhere
  DEF PushFails, AdvanceFails, IInv, TypeOK, LifeCycle!roleVars
<1>5. CASE PollerDeauth
  BY <1>1, <1>5, AdvanceMoves
  DEF PollerDeauth, Advancing, AdvanceStep, AdvanceFails, EventDone, LifeCycle!Next,
      LifeCycle!Step, LifeCycle!Deauthorized, LifeCycle!Done, LifeCycle!NoEvent
<1>6. CASE PushDeauth
  BY <1>1, <1>6, AdvanceMoves
  DEF PushDeauth, Advancing, AdvanceStep, LifeCycle!Next, LifeCycle!Step,
      LifeCycle!Deauthorized, LifeCycle!NoEvent
<1>7. CASE PushDeauthFails
  BY <1>1, <1>7, AdvanceNowhere
  DEF PushDeauthFails, AdvanceFails, IInv, TypeOK, LifeCycle!roleVars
<1> QED
  BY <1>2, <1>3, <1>4, <1>5, <1>6, <1>7 DEF PollAdvance

LEMMA PollConvergeSteps ==
  ASSUME IInv, PollConverge
  PROVE  [LifeCycle!Next]_(LifeCycle!roleVars)
<1>1. CASE \E r \in Roles : FinishRole(r) \/ FailRole(r)
  <2>1. PICK r \in Roles : FinishRole(r) \/ FailRole(r)
    BY <1>1
  <2>2. phost \in Hosts
    BY <2>1 DEF IInv, Shape, FinishRole, FailRole
  <2>3. LifeCycle!Step(phost, r) \/ UNCHANGED LifeCycle!roleVars
    BY <2>1, <2>2, AdvanceMoves
    DEF FinishRole, FailRole, WaitingStates, LifeCycle!roleVars, LifeCycle!Step,
        LifeCycle!Authorized, LifeCycle!Deauthorized, LifeCycle!NoEvent
  <2> QED
    BY <2>2, <2>3 DEF LifeCycle!Next
<1>2. CASE MoveToApplied \/ MoveToAppliedFails
  <2>1. phost \in Hosts /\ prole \in Roles /\ state[phost][prole] = "auth-converged"
    BY <1>2 DEF IInv, TypeOK, PollerOK, Shape, Owned, OwnedByPoller, MoveToApplied,
                MoveToAppliedFails, AtConverged, Advancing
  <2>2. LifeCycle!Step(phost, prole)
    BY <1>2, <2>1, AdvanceMoves
    DEF MoveToApplied, MoveToAppliedFails, EventDone, LifeCycle!Step,
        LifeCycle!Authorized, LifeCycle!Done, LifeCycle!NoEvent
  <2> QED
    BY <2>1, <2>2 DEF LifeCycle!Next
<1>3. CASE RemoveRole \/ RemoveRoleFails
  <2>1. phost \in Hosts /\ prole \in Roles /\ state[phost][prole] = "deauth-converged"
    BY <1>3 DEF IInv, TypeOK, PollerOK, Shape, Owned, OwnedByPoller, RemoveRole,
                RemoveRoleFails, AtDeconverged, Advancing
  <2>2. LifeCycle!Step(phost, prole)
    BY <1>3, <2>1, AdvanceMoves, RemovalMoves
    DEF RemoveRole, RemoveRoleFails, EventDone, LifeCycle!Step,
        LifeCycle!Deauthorized, LifeCycle!Done, LifeCycle!NoEvent
  <2> QED
    BY <2>1, <2>2 DEF LifeCycle!Next
<1>4. CASE DropHost
  BY <1>4 DEF DropHost, LifeCycle!roleVars
<1> QED
  BY <1>1, <1>2, <1>3, <1>4 DEF PollConverge

LEMMA CallSteps ==
  ASSUME IInv, NEW c \in Callers, CallStep(c)
  PROVE  [LifeCycle!Next]_(LifeCycle!roleVars)
<1> DEFINE h == call[c].host  r == call[c].role
<1>1. CASE Associate(c)
  <2>1. h \in Hosts /\ r \in Roles
    BY <1>1 DEF IInv, Shape, HoldingPC, Associate
  <2>2. LifeCycle!Step(h, r) \/ UNCHANGED LifeCycle!roleVars
    BY <1>1, <2>1
    DEF Associate, LifeCycle!roleVars, LifeCycle!Step, LifeCycle!Requested,
        LifeCycle!Move, LifeCycle!NoEvent, NoRow, LifeCycle!NoRow
  <2> QED
    BY <2>1, <2>2 DEF LifeCycle!Next
<1>2. CASE StartApply(c)
  <2>1. h \in Hosts /\ r \in Roles
    BY <1>2 DEF IInv, Shape, HoldingPC, StartApply
  <2>2. LifeCycle!Step(h, r) \/ UNCHANGED LifeCycle!roleVars
    BY <1>2, <2>1, AdvanceMoves
    DEF StartApply, StartState, LifeCycle!roleVars, LifeCycle!Step,
        LifeCycle!Requested, LifeCycle!NoEvent
  <2> QED
    BY <2>1, <2>2 DEF LifeCycle!Next
<1>3. CASE StoreCredentialsFails(c)
  <2>1. /\ h \in Hosts /\ r \in Roles
        /\ call[c].new => state[h][r] = "start-apply"
                            /\ lastEvent[h][r] \in LifeCycle!Untouched
    BY <1>3 DEF IInv, Shape, HoldingPC, Owned, OwnedByCaller, FreshEvents,
                StoreCredentialsFails
  <2>2. LifeCycle!Step(h, r) \/ UNCHANGED LifeCycle!roleVars
    BY <1>3, <2>1, RemovalMoves
    DEF StoreCredentialsFails, LifeCycle!roleVars, LifeCycle!Step,
        LifeCycle!Requested, LifeCycle!NoEvent
  <2> QED
    BY <2>1, <2>2 DEF LifeCycle!Next
<1>4. CASE AddRoleAuth(c)
  <2>1. h \in Hosts /\ r \in Roles /\ state[h][r] \in {"start-apply", "start-edit"}
    BY <1>4 DEF IInv, Shape, HoldingPC, Owned, OwnedByCaller, AddRoleAuth
  <2>2. LifeCycle!Step(h, r) \/ UNCHANGED LifeCycle!roleVars
    BY <1>4, <2>1, AdvanceMoves
    DEF AddRoleAuth, EventDone, LifeCycle!roleVars, LifeCycle!Step,
        LifeCycle!Authorized, LifeCycle!Done, LifeCycle!NoEvent
  <2> QED
    BY <2>1, <2>2 DEF LifeCycle!Next
<1>5. CASE \E q \in Roles : StartDeauth(c, q)
  <2>1. PICK q \in Roles : StartDeauth(c, q)
    BY <1>5
  <2>2. h \in Hosts
    BY <2>1 DEF IInv, Shape, StartDeauth
  <2>3. LifeCycle!Step(h, q) \/ UNCHANGED LifeCycle!roleVars
    BY <2>1, <2>2, AdvanceMoves
    DEF StartDeauth, LifeCycle!roleVars, LifeCycle!Step, LifeCycle!Requested,
        LifeCycle!NoEvent
  <2> QED
    BY <2>2, <2>3 DEF LifeCycle!Next
<1>6. CASE DeleteRoleDeauth(c)
  <2>1. h \in Hosts /\ r \in Roles /\ state[h][r] = "start-deauth"
    BY <1>6 DEF IInv, Shape, HoldingPC, Owned, OwnedByCaller, DeleteRoleDeauth
  <2>2. LifeCycle!Step(h, r) \/ UNCHANGED LifeCycle!roleVars
    BY <1>6, <2>1, AdvanceMoves
    DEF DeleteRoleDeauth, EventDone, LifeCycle!roleVars, LifeCycle!Step,
        LifeCycle!Deauthorized, LifeCycle!Done, LifeCycle!NoEvent
  <2> QED
    BY <2>1, <2>2 DEF LifeCycle!Next
<1>7. CASE \/ InsertHost(c) \/ CreateCredentials(c) \/ CreateCredentialsFails(c)
           \/ UndoHost(c)
  BY <1>7 DEF InsertHost, CreateCredentials, CreateCredentialsFails, UndoHost, dbVars,
              LifeCycle!roleVars
<1> QED
  BY <1>1, <1>2, <1>3, <1>4, <1>5, <1>6, <1>7 DEF CallStep

\* A handler that a crash interrupts was one its role's state allows.
LEMMA HandlingSteps ==
  ASSUME IInv, NEW h \in Hosts, NEW r \in Roles, NEW e \in LifeCycle!Event,
         Handling(h, r, e), EventDone(h, r, e), UNCHANGED state
  PROVE  LifeCycle!Step(h, r)
<1>1. CASE \E c \in Callers :
             /\ call[c].host = h /\ call[c].role = r
             /\ \/ call[c].pc = "auth" /\ e = "on_auth"
                \/ call[c].pc = "deauth" /\ e = "on_deauth"
  BY <1>1 DEF IInv, Owned, OwnedByCaller, EventDone, LifeCycle!Step,
              LifeCycle!Interrupted, LifeCycle!Done
<1>2. CASE /\ phost = h /\ prole = r
           /\ \/ Advancing({"start-apply", "start-edit"}) /\ e = "on_auth"
              \/ Advancing({"start-deauth"}) /\ e = "on_deauth"
              \/ AtConverged /\ e = "on_auth_converged"
              \/ AtDeconverged /\ e = "on_deauth_converged"
  BY <1>2 DEF IInv, Owned, OwnedByPoller, Advancing, AtConverged, AtDeconverged,
              EventDone, LifeCycle!Step, LifeCycle!Interrupted, LifeCycle!Done
<1> QED
  BY <1>1, <1>2 DEF Handling

LEMMA RestartSteps ==
  ASSUME IInv, Restart
  PROVE  [LifeCycle!Next]_(LifeCycle!roleVars)
<1>1. UNCHANGED state
  BY DEF Restart, dbVars
<1>2. CASE UNCHANGED lastEvent
  BY <1>1, <1>2 DEF LifeCycle!roleVars
<1>3. CASE \E h \in Hosts, r \in Roles, e \in LifeCycle!Event :
             Handling(h, r, e) /\ EventDone(h, r, e)
  BY <1>1, <1>3, HandlingSteps DEF LifeCycle!Next
<1> QED
  BY <1>2, <1>3 DEF Restart

LEMMA OtherSteps ==
  ASSUME \/ \E c \in Callers : Request(c)
         \/ GetAllHosts \/ BbmasterRestart
         \/ \E h \in Hosts : HostAppears(h)
  PROVE  UNCHANGED <<dbVars, lastEvent, pollVars, lock, restarts>>
BY DEF Request, AddRole, DeleteRole, DeleteHost, Delete, GetAllHosts, BbmasterRestart,
       HostAppears, envVars, dbVars, pollVars, bounds

\* Every step of the resource manager is a step of one association's life, or
\* none.
LEMMA StepImplementsLifeCycle ==
  ASSUME IInv, [Next]_vars
  PROVE  [LifeCycle!Next]_(LifeCycle!roleVars)
<1>1. CASE UNCHANGED vars
  BY <1>1 DEF vars, dbVars, LifeCycle!roleVars
<1>2. CASE PollStep
  <2>1. PollLoop => UNCHANGED LifeCycle!roleVars
    BY PollLoopFrame DEF LifeCycle!roleVars
  <2> QED
    BY <1>2, <2>1, PollAdvanceSteps, PollConvergeSteps DEF PollStep
<1>3. CASE \E c \in Callers : CallStep(c)
  BY <1>3, CallSteps
<1>4. CASE Restart
  BY <1>4, RestartSteps
<1>5. CASE \/ \E c \in Callers : Request(c)
           \/ GetAllHosts \/ BbmasterRestart
           \/ \E h \in Hosts : HostAppears(h)
  BY <1>5, OtherSteps DEF dbVars, LifeCycle!roleVars
<1> QED
  BY <1>1, <1>2, <1>3, <1>4, <1>5 DEF Next

-----------------------------------------------------------------------------
(* TypeOK, part by part. *)

LEMMA UpdateVersion ==
  ASSUME version \in [Hosts -> [Roles -> Versions \union {NoVersion}]],
         NEW h \in Hosts, NEW r \in Roles,
         \/ UNCHANGED version
         \/ \E v \in Versions \union {NoVersion} :
              version' = [version EXCEPT ![h][r] = v]
  PROVE  version' \in [Hosts -> [Roles -> Versions \union {NoVersion}]]
OBVIOUS

\* The poller writes no row but a host's: whether it responds, and its end.
LEMMA PollDatabase ==
  ASSUME IInv, PollStep
  PROVE  DatabaseOK'
<1> USE DEF IInv, TypeOK
<1>1. CASE MarkAbsentHost \/ ReportOther
           \/ \E up \in BOOLEAN : ReportConverged(up) \/ ReportFailed(up)
  <2>1. \/ UNCHANGED responding
        \/ \E up \in BOOLEAN : responding' = [responding EXCEPT ![phost] = up]
    BY <1>1 DEF MarkAbsentHost, ReportOther, ReportConverged, ReportFailed, Report,
                MarkHost
  <2>2. UNCHANGED <<hostRow, version, creds>>
    BY <1>1 DEF MarkAbsentHost, ReportOther, ReportConverged, ReportFailed, Report
  <2> QED
    BY <2>1, <2>2 DEF DatabaseOK
<1>2. CASE RemoveRole
  <2>1. phost \in Hosts /\ prole \in Roles
    BY <1>2 DEF Shape, PollerOK, RemoveRole, AtDeconverged, Advancing
  <2> QED
    BY <1>2, <2>1, UpdateVersion DEF DatabaseOK, RemoveRole, RemoveAssociation
<1>3. CASE DropHost
  BY <1>3 DEF DatabaseOK, DropHost, DeleteHostRow
<1>4. ASSUME UNCHANGED <<hostRow, responding, version, creds>>
      PROVE  DatabaseOK'
  BY <1>4 DEF DatabaseOK
<1>5. CASE PollAdvance
  BY <1>4, <1>5 DEF PollAdvance, PollerAuth, PushAuth, PushFails, PollerDeauth,
                    PushDeauth, PushDeauthFails, AdvanceStep, AdvanceFails
<1>6. CASE \/ \E r \in Roles : FinishRole(r) \/ FailRole(r)
           \/ MoveToApplied \/ MoveToAppliedFails \/ RemoveRoleFails
  BY <1>4, <1>6 DEF FinishRole, FailRole, MoveToApplied, MoveToAppliedFails,
                    RemoveRoleFails
<1>7. CASE PollLoop
  <2>1. \/ UNCHANGED responding
        \/ MarkAbsentHost \/ ReportOther
        \/ \E up \in BOOLEAN : ReportConverged(up) \/ ReportFailed(up)
    BY <1>7
    DEF PollLoop, ReadSnapshot, Classify, NewHost, AbsentUnauthorizedHost, AbsentHost,
        ExistingHost, StartAdvance, AdvanceRole, AdvanceNothing, EndAdvance,
        CheckLastRole, FetchFails, FetchUnauthorized, ReportRaises, EndRoles, EndPoll,
        dbVars
  <2> QED
    BY <1>1, <1>4, <1>7, <2>1, PollLoopFrame
<1> QED
  BY <1>2, <1>3, <1>5, <1>6, <1>7 DEF PollStep, PollConverge

LEMMA CallDatabase ==
  ASSUME IInv, NEW c \in Callers, CallStep(c)
  PROVE  DatabaseOK'
<1> USE DEF IInv, TypeOK
<1> DEFINE h == call[c].host  r == call[c].role
<1>1. CASE InsertHost(c)
  <2>1. h \in Hosts
    BY <1>1 DEF Shape, InsertHost
  <2> QED
    BY <1>1, <2>1 DEF DatabaseOK, InsertHost
<1>2. CASE Associate(c) \/ StoreCredentialsFails(c)
  <2>1. /\ h \in Hosts /\ r \in Roles
        /\ call[c].ver \in Versions \union {NoVersion}
    BY <1>2 DEF Shape, HoldingPC, Associate, StoreCredentialsFails, RequestsOK, Call
  <2>2. \/ UNCHANGED version
        \/ \E v \in Versions \union {NoVersion} :
             version' = [version EXCEPT ![h][r] = v]
    BY <1>2, <2>1 DEF Associate, StoreCredentialsFails, RemoveAssociation
  <2>3. UNCHANGED <<hostRow, responding, creds>>
    BY <1>2 DEF Associate, StoreCredentialsFails
  <2> HIDE DEF h, r
  <2>4. version \in [Hosts -> [Roles -> Versions \union {NoVersion}]]
    BY DEF DatabaseOK
  <2>5. version' \in [Hosts -> [Roles -> Versions \union {NoVersion}]]
    BY <2>1, <2>2, <2>4, UpdateVersion
  <2> QED
    BY <2>3, <2>5 DEF DatabaseOK
<1>3. CASE CreateCredentials(c)
  <2>1. h \in Hosts /\ r \in Roles
    BY <1>3 DEF Shape, HoldingPC, CreateCredentials
  <2> QED
    BY <1>3, <2>1 DEF DatabaseOK, CreateCredentials
<1>4. CASE UndoHost(c)
  BY <1>4 DEF DatabaseOK, UndoHost, DeleteHostRow
<1>5. CASE \/ StartApply(c) \/ CreateCredentialsFails(c) \/ AddRoleAuth(c)
           \/ (\E q \in Roles : StartDeauth(c, q)) \/ DeleteRoleDeauth(c)
  <2>1. UNCHANGED <<hostRow, responding, version, creds>>
    BY <1>5 DEF StartApply, CreateCredentialsFails, AddRoleAuth, StartDeauth,
                DeleteRoleDeauth, dbVars
  <2> QED
    BY <2>1 DEF DatabaseOK
<1> QED
  BY <1>1, <1>2, <1>3, <1>4, <1>5 DEF CallStep

LEMMA DatabaseType ==
  ASSUME IInv, [Next]_vars
  PROVE  DatabaseOK'
<1>1. UNCHANGED dbVars => DatabaseOK'
  BY DEF dbVars, DatabaseOK, IInv, TypeOK
<1>2. Restart => UNCHANGED dbVars
  BY DEF Restart
<1> QED
  BY <1>1, <1>2, PollDatabase, CallDatabase, OtherSteps DEF Next, vars

-----------------------------------------------------------------------------
\* An update of a request keeps its type.
LEMMA PendingType ==
  ASSUME NEW k \in Call
  PROVE  k.pending \in SUBSET Roles
BY DEF Call

LEMMA PcType ==
  ASSUME call \in [Callers -> Call], NEW c \in Callers, NEW pc \in CallPC
  PROVE  [call EXCEPT ![c].pc = pc] \in [Callers -> Call]
BY DEF Call

LEMMA IdleType == IdleCall \in Call
BY DEF IdleCall, Call, CallPC

LEMMA FinishType ==
  ASSUME call \in [Callers -> Call], NEW c \in Callers, Finish(c)
  PROVE  call' \in [Callers -> Call]
BY IdleType DEF Finish

LEMMA NextPendingType ==
  ASSUME call \in [Callers -> Call], NEW c \in Callers, NEW rs \in SUBSET Roles,
         NextPending(c, rs)
  PROVE  call' \in [Callers -> Call]
<1>1. [call[c] EXCEPT !.pc = "next", !.role = NoRole, !.pending = rs] \in Call
  BY DEF Call, CallPC
<1> QED
  BY <1>1, IdleType DEF NextPending

LEMMA CallType ==
  ASSUME IInv, NEW c \in Callers, CallStep(c)
  PROVE  call' \in [Callers -> Call]
<1>1. call \in [Callers -> Call]
  BY DEF IInv, TypeOK, RequestsOK
<1>2. call[c] \in Call /\ call[c].pending \in SUBSET Roles
  BY <1>1, PendingType
<1>3. CASE Associate(c)
  <2>1. \A b \in BOOLEAN : [call[c] EXCEPT !.pc = "start", !.new = b] \in Call
    BY <1>2 DEF Call, CallPC
  <2>2. \/ Finish(c)
        \/ \E b \in BOOLEAN :
             call' = [call EXCEPT ![c] = [call[c] EXCEPT !.pc = "start", !.new = b]]
    BY <1>1, <1>3 DEF Associate
  <2> QED
    BY <1>1, <1>2, <2>1, <2>2, FinishType
<1>4. CASE \/ InsertHost(c) \/ StartApply(c) \/ CreateCredentials(c)
           \/ CreateCredentialsFails(c) \/ StoreCredentialsFails(c) \/ UndoHost(c) \/ AddRoleAuth(c)
  <2>1. Finish(c) \/ \E pc \in CallPC : call' = [call EXCEPT ![c].pc = pc]
    BY <1>4
    DEF InsertHost, StartApply, CreateCredentials, CreateCredentialsFails, StoreCredentialsFails,
        UndoHost, AddRoleAuth, Step, CallPC
  <2> QED
    BY <1>1, <2>1, PcType, FinishType
<1>5. CASE \E q \in Roles : StartDeauth(c, q)
  <2>1. PICK q \in Roles : StartDeauth(c, q)
    BY <1>5
  <2> DEFINE rest == call[c].pending \ {q}
             k == [call[c] EXCEPT !.pc = "deauth", !.role = q, !.pending = rest]
  <2>2. rest \in SUBSET Roles
    BY <1>2
  <2>3. k \in Call
    BY <1>2, <2>2 DEF Call, CallPC
  <2>4. NextPending(c, rest) \/ Finish(c) \/ call' = [call EXCEPT ![c] = k]
    BY <2>1 DEF StartDeauth
  <2> HIDE DEF rest, k
  <2> QED
    BY <1>1, <1>2, <2>2, <2>3, <2>4, NextPendingType, FinishType
<1>6. CASE DeleteRoleDeauth(c)
  BY <1>1, <1>2, <1>6, NextPendingType, FinishType DEF DeleteRoleDeauth
<1> QED
  BY <1>3, <1>4, <1>5, <1>6 DEF CallStep

LEMMA RequestType ==
  ASSUME IInv, NEW c \in Callers, Request(c)
  PROVE  call' \in [Callers -> Call] /\ calls' \in 0..MaxCalls
<1>1. call \in [Callers -> Call] /\ calls \in 0..MaxCalls
  BY DEF IInv, TypeOK, RequestsOK
<1>2. /\ calls < MaxCalls /\ calls' = calls + 1
      /\ \E k \in Call : call' = [call EXCEPT ![c] = k]
  <2>1. CASE \E h \in Hosts, r \in Roles, v \in Versions : AddRole(c, h, r, v)
    <3>1. PICK h \in Hosts, r \in Roles, v \in Versions : AddRole(c, h, r, v)
      BY <2>1
    <3>2. [IdleCall EXCEPT !.pc = "insert", !.host = h, !.role = r, !.ver = v] \in Call
      BY IdleType DEF Call, CallPC
    <3> QED
      BY <3>1, <3>2 DEF AddRole
  <2>2. ASSUME NEW h \in Hosts, NEW rs \in SUBSET Roles, Delete(c, h, rs)
        PROVE  /\ calls < MaxCalls /\ calls' = calls + 1
               /\ \E k \in Call : call' = [call EXCEPT ![c] = k]
    <3>1. [IdleCall EXCEPT !.pc = "next", !.host = h, !.pending = rs] \in Call
      BY IdleType DEF Call, CallPC
    <3> QED
      BY <2>2, <3>1 DEF Delete
  <2>3. \A h \in Hosts : RolesOf(h) \in SUBSET Roles
    BY DEF RolesOf
  <2> QED
    BY <2>1, <2>2, <2>3 DEF Request, DeleteRole, DeleteHost
<1> QED
  BY <1>1, <1>2, RoleManagerAssumption

\* Where the lock goes, in the steps of the poller and of a caller.
LEMMA LockType ==
  ASSUME IInv, [Next]_vars
  PROVE  lock' \in Callers \union {Poller, Nobody}
<1>1. lock \in Callers \union {Poller, Nobody}
  BY DEF IInv, TypeOK, RequestsOK
<1>2. CASE PollLoop
  BY <1>1, <1>2
  DEF PollLoop, ReadSnapshot, Classify, NewHost, AbsentUnauthorizedHost, AbsentHost,
      ExistingHost, StartAdvance, AdvanceRole, AdvanceNothing, EndAdvance,
      CheckLastRole, MarkAbsentHost, FetchFails, FetchUnauthorized, ReportOther,
      ReportRaises, ReportConverged, ReportFailed, Report, EndRoles, EndPoll
<1>3. CASE PollAdvance
  BY <1>1, <1>3
  DEF PollAdvance, PollerAuth, PushAuth, PushFails, PollerDeauth, PushDeauth,
      PushDeauthFails, AdvanceStep, AdvanceFails, ReleaseIfHeld
<1>4. CASE PollConverge
  BY <1>1, <1>4
  DEF PollConverge, FinishRole, FailRole, MoveToApplied, MoveToAppliedFails,
      RemoveRole, RemoveRoleFails, DropHost, ReleaseIfHeld
<1>5. CASE \E c \in Callers : CallStep(c)
  BY <1>1, <1>5
  DEF CallStep, InsertHost, Associate, StartApply, CreateCredentials,
      CreateCredentialsFails, StoreCredentialsFails, UndoHost, AddRoleAuth,
      StartDeauth, DeleteRoleDeauth
<1>6. CASE Restart \/ UNCHANGED vars
  BY <1>1, <1>6 DEF Restart, vars
<1> QED
  BY <1>1, <1>2, <1>3, <1>4, <1>5, <1>6, OtherSteps DEF Next, PollStep

LEMMA RequestsType ==
  ASSUME IInv, [Next]_vars
  PROVE  RequestsOK'
<1>1. call \in [Callers -> Call] /\ calls \in 0..MaxCalls
  BY DEF IInv, TypeOK, RequestsOK
<1>2. call' \in [Callers -> Call] /\ calls' \in 0..MaxCalls
  <2>1. CASE PollStep
    <3>1. UNCHANGED <<call, calls>>
      BY <2>1, PollLoopFrame
      DEF PollStep, PollAdvance, PollerAuth, PushAuth, PushFails, PollerDeauth,
          PushDeauth, PushDeauthFails, AdvanceStep, AdvanceFails, PollConverge,
          FinishRole, FailRole, MoveToApplied, MoveToAppliedFails, RemoveRole,
          RemoveRoleFails, DropHost, apiVars
    <3> QED
      BY <1>1, <3>1
  <2>2. CASE \E c \in Callers : CallStep(c)
    <3>1. UNCHANGED calls
      BY <2>2
      DEF CallStep, InsertHost, Associate, StartApply, CreateCredentials,
          CreateCredentialsFails, StoreCredentialsFails, UndoHost, AddRoleAuth,
          StartDeauth, DeleteRoleDeauth
    <3> QED
      BY <1>1, <2>2, <3>1, CallType
  <2>3. CASE \E c \in Callers : Request(c)
    BY <2>3, RequestType
  <2>4. CASE Restart
    BY <1>1, <2>4, IdleType DEF Restart
  <2>5. CASE GetAllHosts \/ BbmasterRestart \/ (\E h \in Hosts : HostAppears(h))
             \/ UNCHANGED vars
    BY <1>1, <2>5 DEF GetAllHosts, BbmasterRestart, HostAppears, bounds, vars
  <2> QED
    BY <2>1, <2>2, <2>3, <2>4, <2>5 DEF Next
<1> QED
  BY <1>2, LockType DEF RequestsOK

-----------------------------------------------------------------------------
LEMMA NoWorkType == NoWork \in Work /\ NoSnap \in Snap
BY DEF NoWork, Work, NoSnap, Snap

\* The ways the poller leaves a step.
LEMMA PollerMoves ==
  ASSUME PollerOK,
         NextHost \/ AbortPoll \/ NextRole \/ \E pc \in PollPC : Goto(pc)
  PROVE  PollerOK'
BY NoWorkType DEF PollerOK, NextHost, AbortPoll, NextRole, Goto, PollPC

LEMMA PollLoopType ==
  ASSUME IInv, PollLoop
  PROVE  PollerOK'
<1>1. PollerOK
  BY DEF IInv, TypeOK
<1>2. work \in Work /\ snap \in Snap
  BY <1>1 DEF PollerOK
<1>3. CASE ReadSnapshot
  <2> DEFINE s == [ids |-> bbHosts, hosts |-> hostRow,
                   up |-> {h \in hostRow : responding[h]},
                   roles |-> [h \in Hosts |-> IF h \in hostRow THEN RolesOf(h) ELSE {}]]
  <2>1. bbHosts \subseteq Hosts /\ hostRow \subseteq Hosts
    BY DEF IInv, TypeOK, WorldOK, DatabaseOK
  <2>2. s \in Snap
    BY <2>1 DEF Snap, RolesOf
  <2> HIDE DEF s
  <2>3. snap' = s /\ ppc' = "classify" /\ UNCHANGED <<phost, prole, ptodo, work>>
    BY <1>3 DEF ReadSnapshot, s
  <2> QED
    BY <1>1, <2>2, <2>3 DEF PollerOK, PollPC
<1>4. CASE Classify
  <2> DEFINE all == snap.hosts \union unauthorized
             w == [new |-> snap.ids \ all, absent |-> all \ snap.ids,
                   existing |-> all \intersect snap.ids]
  <2>1. snap.hosts \subseteq Hosts /\ snap.ids \subseteq Hosts
        /\ unauthorized \subseteq Hosts
    BY <1>2 DEF Snap, IInv, TypeOK, WorldOK
  <2>2. w \in Work
    BY <2>1 DEF Work
  <2>3. work' = w /\ ppc' = "hosts" /\ UNCHANGED <<phost, prole, ptodo, snap>>
    BY <1>4 DEF Classify
  <2> QED
    BY <1>1, <2>2, <2>3 DEF PollerOK, PollPC
<1>5. CASE \E h \in Hosts : NewHost(h)
  BY <1>1, <1>2, <1>5 DEF NewHost, PollerOK, Work
<1>6. CASE \E h \in Hosts : AbsentHost(h) \/ ExistingHost(h)
  <2>1. PICK h \in Hosts : AbsentHost(h) \/ ExistingHost(h)
    BY <1>6
  <2>2. \/ work' = [work EXCEPT !.absent = @ \ {h}]
        \/ work' = [work EXCEPT !.existing = @ \ {h}]
    BY <2>1 DEF AbsentHost, ExistingHost
  <2>3. work' \in Work
    BY <1>2, <2>2 DEF Work
  <2>4. snap.roles[h] \in SUBSET Roles
    BY <1>2 DEF Snap
  <2>5. ppc' = "advance" /\ phost' = h /\ prole' = NoRole /\ ptodo' = snap.roles[h]
        /\ UNCHANGED snap
    BY <2>1 DEF AbsentHost, ExistingHost, StartAdvance
  <2> QED
    BY <1>1, <2>3, <2>4, <2>5 DEF PollerOK, PollPC
<1>7. CASE \E r \in Roles : AdvanceRole(r)
  BY <1>1, <1>7 DEF AdvanceRole, PollerOK
<1>8. CASE \E up \in BOOLEAN : ReportConverged(up) \/ ReportFailed(up)
  <2>1. RolesOf(phost) \subseteq Roles
    BY DEF RolesOf
  <2>2. /\ ppc' \in {"finish", "fail"} /\ ptodo' = RolesOf(phost)
        /\ UNCHANGED <<phost, prole, work, snap>>
    BY <1>8 DEF ReportConverged, ReportFailed, Report
  <2> QED
    BY <1>1, <2>1, <2>2 DEF PollerOK, PollPC
<1>9. CASE \/ \E h \in Hosts : AbsentUnauthorizedHost(h)
           \/ AdvanceNothing \/ EndAdvance \/ CheckLastRole \/ MarkAbsentHost
           \/ FetchFails \/ FetchUnauthorized \/ ReportOther \/ ReportRaises
           \/ EndRoles \/ EndPoll
  <2>1. NextHost \/ AbortPoll \/ NextRole \/ \E pc \in PollPC : Goto(pc)
    BY <1>9
    DEF AbsentUnauthorizedHost, AdvanceNothing, EndAdvance, CheckLastRole,
        MarkAbsentHost, FetchFails, FetchUnauthorized, ReportOther, ReportRaises,
        EndRoles, EndPoll, PollPC
  <2> QED
    BY <1>1, <2>1, PollerMoves
<1> QED
  BY <1>3, <1>4, <1>5, <1>6, <1>7, <1>8, <1>9 DEF PollLoop

LEMMA PollerType ==
  ASSUME IInv, [Next]_vars
  PROVE  PollerOK'
<1>1. PollerOK
  BY DEF IInv, TypeOK
<1>2. CASE PollAdvance
  <2>1. UNCHANGED pollVars \/ AbortPoll
    BY <1>2
    DEF PollAdvance, PollerAuth, PushAuth, PushFails, PollerDeauth, PushDeauth,
        PushDeauthFails, AdvanceStep, AdvanceFails
  <2> QED
    BY <1>1, <2>1, PollerMoves DEF pollVars, PollerOK
<1>3. CASE \E r \in Roles : FinishRole(r) \/ FailRole(r)
  BY <1>1, <1>3 DEF FinishRole, FailRole, PollerOK, PollPC
<1>4. CASE \/ MoveToApplied \/ MoveToAppliedFails \/ RemoveRole \/ RemoveRoleFails
           \/ DropHost
  <2>1. NextRole \/ AbortPoll \/ \E pc \in PollPC : Goto(pc)
    BY <1>4
    DEF MoveToApplied, MoveToAppliedFails, RemoveRole, RemoveRoleFails, DropHost, PollPC
  <2> QED
    BY <1>1, <2>1, PollerMoves
<1>5. CASE Restart
  BY <1>1, <1>5, PollerMoves DEF Restart
<1>6. CASE UNCHANGED pollVars
  BY <1>1, <1>6 DEF pollVars, PollerOK
<1>7. CASE \E c \in Callers : CallStep(c)
  <2>1. UNCHANGED pollVars
    BY <1>7
    DEF CallStep, InsertHost, Associate, StartApply, CreateCredentials,
        CreateCredentialsFails, StoreCredentialsFails, UndoHost, AddRoleAuth,
        StartDeauth, DeleteRoleDeauth
  <2> QED
    BY <1>6, <2>1
<1> QED
  BY <1>2, <1>3, <1>4, <1>5, <1>6, <1>7, PollLoopType, OtherSteps
  DEF Next, PollStep, PollConverge, vars

-----------------------------------------------------------------------------
LEMMA WorldType ==
  ASSUME IInv, [Next]_vars
  PROVE  WorldOK'
<1>1. WorldOK
  BY DEF IInv, TypeOK
<1>2. CASE PollLoop
  <2>1. \/ unauthorized' \subseteq unauthorized
        \/ \E h \in Hosts : unauthorized' = unauthorized \union {h}
    BY <1>2
    DEF PollLoop, ReadSnapshot, Classify, NewHost, AbsentUnauthorizedHost, AbsentHost,
        ExistingHost, StartAdvance, AdvanceRole, AdvanceNothing, EndAdvance,
        CheckLastRole, MarkAbsentHost, FetchFails, FetchUnauthorized, ReportOther,
        ReportRaises, ReportConverged, ReportFailed, Report, EndRoles, EndPoll
  <2> QED
    BY <1>1, <1>2, <2>1, PollLoopFrame DEF WorldOK
<1>3. CASE PollAdvance
  <2>1. /\ UNCHANGED <<unauthorized, restarts, losses>>
        /\ UNCHANGED bbHosts \/ (phost \in Hosts /\ bbHosts' = bbHosts \union {phost})
    BY <1>3
    DEF IInv, Shape, PollAdvance, PollerAuth, PushAuth, PushFails, PollerDeauth,
        PushDeauth, PushDeauthFails, AdvanceStep, AdvanceFails, Advancing, Push, envVars
  <2> QED
    BY <1>1, <2>1 DEF WorldOK
<1>4. CASE PollConverge
  <2>1. UNCHANGED <<unauthorized, bbHosts, restarts, losses>>
    BY <1>4
    DEF PollConverge, FinishRole, FailRole, MoveToApplied, MoveToAppliedFails,
        RemoveRole, RemoveRoleFails, DropHost, envVars
  <2> QED
    BY <1>1, <2>1 DEF WorldOK
<1>5. CASE \E c \in Callers : CallStep(c)
  <2>1. unauthorized' \subseteq unauthorized /\ UNCHANGED <<bbHosts, restarts, losses>>
    BY <1>5
    DEF CallStep, InsertHost, Associate, StartApply, CreateCredentials,
        CreateCredentialsFails, StoreCredentialsFails, UndoHost, AddRoleAuth,
        StartDeauth, DeleteRoleDeauth, envVars
  <2> QED
    BY <1>1, <2>1 DEF WorldOK
<1>6. CASE \E c \in Callers : Request(c)
  BY <1>1, <1>6 DEF Request, AddRole, DeleteRole, DeleteHost, Delete, envVars, WorldOK
<1>7. CASE GetAllHosts \/ \E h \in Hosts : HostAppears(h)
  BY <1>1, <1>7 DEF GetAllHosts, HostAppears, bounds, WorldOK
<1>8. CASE BbmasterRestart \/ Restart
  <2>1. /\ bbHosts' \subseteq bbHosts /\ unauthorized' \subseteq unauthorized
        /\ UNCHANGED losses \/ (losses < MaxLosses /\ losses' = losses + 1)
        /\ UNCHANGED restarts \/ (restarts < MaxRestarts /\ restarts' = restarts + 1)
    BY <1>8 DEF BbmasterRestart, Restart
  <2> QED
    BY <1>1, <2>1, RoleManagerAssumption DEF WorldOK
<1>9. CASE UNCHANGED vars
  BY <1>1, <1>9 DEF vars, bounds, WorldOK
<1> QED
  BY <1>2, <1>3, <1>4, <1>5, <1>6, <1>7, <1>8, <1>9 DEF Next, PollStep

LEMMA TypeStep ==
  ASSUME IInv, [Next]_vars
  PROVE  TypeOK' /\ LifeCycle!EventOrder'
<1>1. LifeCycle!TypeOK' /\ LifeCycle!EventOrder'
  BY StepImplementsLifeCycle, LifeCycle!NextFacts DEF IInv, TypeOK
<1> QED
  BY <1>1, DatabaseType, RequestsType, PollerType, WorldType DEF TypeOK
=============================================================================
