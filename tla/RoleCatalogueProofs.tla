-------------------------- MODULE RoleCatalogueProofs --------------------------
(***************************************************************************)
(* What the roles table promises (OneActive, ActiveAsRecorded,             *)
(* TableRenderable, SettingsKept), for any number of versions, updates,    *)
(* requests and restarts.                                                  *)
(*                                                                         *)
(* The table is written by four parties.  Writes says what any of them     *)
(* does to it; Parameters that every parameter Consul has is known, on its *)
(* way, or lost with a call that failed; ActiveAsRecorded is inductive     *)
(* beside what Control says of the thread that watches Consul.             *)
(***************************************************************************)
EXTENDS RoleCatalogue, FiniteSetTheorems, SequenceTheorems, TLAPS

\* OneActive without the cardinality
Single == (\E v \in Versions : rows[v] # None) => \E v \in Versions : active = {v}

\* What the threads at work have in hand.
Control ==
  /\ boot \subseteq Loaded
  /\ watch.pc # "idle" => watch.version \in Versions /\ watch.doc \in Docs
  /\ watch.pc = "readd" => recorded \in Update
  /\ req.pc = "create" => req.version \in Versions /\ req.doc \in Docs
  /\ watch.pc # "idle" => call.size > 0
  /\ boot # {} => watch.pc = "idle" /\ call.size = 0 /\ (faults = 0 => recorded = None)

\* The parameters that Consul has are known, on their way, also to a process that
\* was started again, or lost; and no version in the table needs others.
Parameters ==
  /\ FileParams \subseteq params /\ params \subseteq FileParams \union consul.params
  /\ \A v \in Versions : rows[v] # None => rows[v].needs \subseteq FileParams \union consul.params
  /\ \A p \in consul.params :
       p \in params \/ p \in lost \/ \E i \in 1 .. Len(updates) : updates[i] = p
  /\ \A i \in 1 .. Len(updates) : updates[i] \in Params => updates[i] \in consul.params
  /\ \A i \in 1 .. call.begun : updates[i] \in Params => updates[i] \in params

IInv == TypeOK /\ Single /\ Control /\ Parameters /\ ActiveAsRecorded
-----------------------------------------------------------------------------
(* The starting point. *)

LEMMA InitHolds == Init => IInv
<1> SUFFICES ASSUME Init PROVE IInv
  OBVIOUS
<1>1. TypeOK
  <2>1. Loaded \subseteq Versions /\ Idle \in WatchState /\ NoRequest \in RequestState
    BY DEF Loaded, Idle, WatchState, NoRequest, RequestState
  <2>2. hosts \in [Hosts -> HostState] /\ consul \in ConsulState
    BY DEF Init, HostState, ConsulState, Unset, Value
  <2>3. updates \in Seq(Update \union Params) /\ inputs \in 0 .. MaxInputs
        /\ faults \in 0 .. MaxFaults
    BY CatalogueAssumption DEF Init
  <2>4. /\ call \in [size : Nat, begun : Nat] /\ call.begun <= call.size
        /\ call.size <= Len(updates) /\ lost \subseteq Params
    BY DEF Init, NoCall
  <2> QED
    BY <2>1, <2>2, <2>3, <2>4, CatalogueAssumption DEF Init, TypeOK
<1>2. Single /\ ActiveAsRecorded
  BY DEF Init, Single, ActiveAsRecorded
<1>3. Control
  BY DEF Init, Control, Idle, NoRequest, NoCall
<1>4. Parameters
  BY DEF Init, Parameters, NoCall
<1> QED
  BY <1>1, <1>2, <1>3, <1>4 DEF IInv

-----------------------------------------------------------------------------
(* The table. *)

\* What the Consul thread and a request have in hand.
LEMMA InHand ==
  ASSUME IInv
  PROVE  /\ watch.pc # "idle" => watch.version \in Versions /\ watch.doc \in Docs
         /\ watch.pc = "readd" => recorded[1] \in Versions /\ recorded[2] \in Docs
         /\ req.pc = "create" => req.version \in Versions /\ req.doc \in Docs
         /\ \A v \in boot : v \in Versions /\ Files[v] \in Docs
BY CatalogueAssumption DEF IInv, Control, Loaded, Update

\* Whoever writes the table saves a version that can be rendered, or activates one
\* that is there.
Saved == \E v \in Versions, doc \in Docs : Valid(doc) /\ SaveRole(v, doc)
Activated == \E v \in Versions : rows[v] # None /\ rows' = rows /\ active' = {v}
Written == UNCHANGED tableVars \/ Saved \/ Activated

LEMMA Writes == ASSUME IInv, Next PROVE Written
<1>1. ASSUME NEW v \in Versions, LoadFile(v) \/ MarkActive(v) \/ PutActive(v)
      PROVE  Written
  <2>1. CASE LoadFile(v)
    BY <2>1, InHand DEF LoadFile, Written, Saved
  <2>2. CASE MarkActive(v)
    BY <2>2 DEF MarkActive, Known, Written, Activated
  <2>3. CASE PutActive(v)
    BY <2>3 DEF PutActive, OnlyConsul, Written
  <2> QED
    BY <1>1, <2>1, <2>2, <2>3
<1>2. ASSUME NEW v \in Versions, NEW doc \in Docs, CheckCreate(v, doc) \/ PutConfig(v, doc)
      PROVE  Written
  BY <1>2 DEF CheckCreate, PutConfig, OnlyConsul, Written
<1>3. ASSUME NEW p \in Params, PutParam(p) PROVE Written
  BY <1>3 DEF PutParam, OnlyConsul, Written
<1>4. ASSUME NEW h \in Hosts, RemoveRole(h) PROVE Written
  BY <1>4 DEF RemoveRole, Written
<1>5. ASSUME NEW h \in Hosts, NEW v \in RequestedVersions, NEW custom \in SUBSET Settings,
             Add(h, v, custom)
      PROVE  Written
  BY <1>5 DEF Add, Written
<1>6. CASE Deliver \/ Return \/ FetchActive \/ Raise \/ Restart
  BY <1>6 DEF Deliver, Return, FetchActive, Raise, Restart, Written, tableVars
<1>7. CASE SaveUpdate
  BY <1>7, InHand DEF SaveUpdate, Written, Saved
<1>8. CASE Readd
  BY <1>8, InHand DEF Readd, Written, Saved
<1>9. CASE Create
  BY <1>9, InHand DEF Create, Written, Saved
<1>10. CASE StoreSettings \/ Associate
  BY <1>10 DEF StoreSettings, Associate, Written
<1>11. ASSUME (\E u \in Update : ConfigUpdate(u)) \/ (\E p \in Params : ParamUpdate(p))
       PROVE  Written
  BY <1>11 DEF ConfigUpdate, ParamUpdate, Written
<1> QED
  BY <1>1, <1>2, <1>3, <1>4, <1>5, <1>6, <1>7, <1>8, <1>9, <1>10, <1>11
     DEF Next, Watch, Serve

\* So one version is active, and what is saved needs only what is known.
LEMMA TableStep ==
  ASSUME IInv, Next
  PROVE  /\ rows' \in [Versions -> Docs \union {None}]
         /\ active' \subseteq {v \in Versions : rows'[v] # None}
         /\ Single'
         /\ \A v \in Versions : rows'[v] # None =>
              rows'[v].needs \subseteq FileParams \union consul.params
<1>1. CASE UNCHANGED tableVars
  BY <1>1 DEF IInv, TypeOK, Single, Parameters, tableVars
<1>2. ASSUME NEW v \in Versions, NEW doc \in Docs, Valid(doc), SaveRole(v, doc)
      PROVE  /\ rows' \in [Versions -> Docs \union {None}] /\ active' = {v} /\ rows'[v] = doc
             /\ doc.needs \subseteq FileParams \union consul.params
             /\ \A w \in Versions : w # v => rows'[w] = rows[w]
  BY <1>2 DEF IInv, TypeOK, Valid, SaveRole, Parameters
<1>3. ASSUME NEW v \in Versions, rows[v] # None, rows' = rows, active' = {v}
      PROVE  /\ rows' \in [Versions -> Docs \union {None}]
             /\ active' \subseteq {w \in Versions : rows'[w] # None} /\ Single'
             /\ \A w \in Versions : rows'[w] # None =>
                  rows'[w].needs \subseteq FileParams \union consul.params
  BY <1>3 DEF IInv, TypeOK, Single, Parameters
<1>4. ASSUME NEW v \in Versions, NEW doc \in Docs, Valid(doc), SaveRole(v, doc)
      PROVE  /\ rows' \in [Versions -> Docs \union {None}]
             /\ active' \subseteq {w \in Versions : rows'[w] # None} /\ Single'
             /\ \A w \in Versions : rows'[w] # None =>
                  rows'[w].needs \subseteq FileParams \union consul.params
  BY <1>2, <1>4, CatalogueAssumption DEF IInv, Single, Parameters
<1> QED
  BY <1>1, <1>3, <1>4, Writes DEF Written, Saved, Activated

-----------------------------------------------------------------------------
(* Requests. *)

\* What a request may do: it leaves the Consul thread alone, and if it writes the
\* table that is remembered.
LEMMA RequestKeeps ==
  ASSUME IInv, Next, OnlyRequest, hosts' \in [Hosts -> HostState], req' \in RequestState,
         req'.pc = "create" => req'.version \in Versions /\ req'.doc \in Docs,
         inputs' \in 0 .. MaxInputs, byHand' \in BOOLEAN,
         byHand' \/ UNCHANGED <<tableVars, byHand>>
  PROVE  IInv'
<1> USE DEF OnlyRequest, watchVars, consulVars, callVars
<1>1. TypeOK'
  BY TableStep DEF IInv, TypeOK
<1>2. Control'
  BY DEF IInv, Control
<1>3. Parameters'
  BY TableStep DEF IInv, Parameters
<1>4. ActiveAsRecorded'
  BY DEF IInv, ActiveAsRecorded, tableVars
<1> QED
  BY <1>1, <1>2, <1>3, <1>4, TableStep DEF IInv

LEMMA InputFacts == ASSUME IInv, Input PROVE inputs' \in 0 .. MaxInputs
BY CatalogueAssumption DEF IInv, TypeOK, Input

\* A request at work keeps its version and host.
LEMMA WantedType == ASSUME IInv PROVE Wanted \in Versions \union {None}
<1>1. ActiveVersion \in Versions \union {None}
  BY DEF IInv, TypeOK, ActiveVersion
<1> QED
  BY <1>1 DEF IInv, TypeOK, RequestState, Wanted

LEMMA NoRequestFacts == NoRequest \in RequestState /\ NoRequest.pc = "idle"
BY DEF NoRequest, RequestState

LEMMA MarkActiveStep ==
  ASSUME IInv, Next, NEW v \in Versions, MarkActive(v) PROVE IInv'
<1>1. inputs' \in 0 .. MaxInputs
  BY InputFacts DEF MarkActive, Request
<1> QED
  BY <1>1, RequestKeeps DEF MarkActive, IInv, TypeOK, Control

LEMMA CheckCreateStep ==
  ASSUME IInv, Next, NEW v \in Versions, NEW doc \in Docs, CheckCreate(v, doc) PROVE IInv'
<1>1. inputs' \in 0 .. MaxInputs
  BY InputFacts DEF CheckCreate, Request
<1>2. req' \in RequestState /\ req'.version = v /\ req'.doc = doc
  BY NoRequestFacts DEF CheckCreate, RequestState
<1> QED
  BY <1>1, <1>2, RequestKeeps DEF CheckCreate, IInv, TypeOK

LEMMA CreateStep == ASSUME IInv, Next, Create PROVE IInv'
BY NoRequestFacts, RequestKeeps DEF Create, IInv, TypeOK

LEMMA AddStep ==
  ASSUME IInv, Next, NEW h \in Hosts, NEW v \in RequestedVersions,
         NEW custom \in SUBSET Settings, Add(h, v, custom)
  PROVE  IInv'
<1>1. inputs' \in 0 .. MaxInputs
  BY InputFacts DEF Add, Request
<1>2. req' \in RequestState /\ req'.pc = "settings"
  BY NoRequestFacts DEF Add, RequestState, RequestedVersions
<1> QED
  BY <1>1, <1>2, RequestKeeps DEF Add, IInv, TypeOK

LEMMA StoreSettingsStep == ASSUME IInv, Next, StoreSettings PROVE IInv'
<1>1. CASE req' = NoRequest /\ UNCHANGED hosts
  BY <1>1, NoRequestFacts, RequestKeeps DEF StoreSettings, IInv, TypeOK
<1>2. CASE /\ hosts' = [hosts EXCEPT ![req.host].settings =
                          SettingsWith(@, rows[Wanted], req.custom)]
           /\ req' = [req EXCEPT !.pc = "associate"]
  <2>1. ASSUME NEW h \in Hosts
        PROVE  SettingsWith(hosts[h].settings, rows[Wanted], req.custom) \in [Settings -> Value]
    BY DEF IInv, TypeOK, HostState, SettingsWith, Value
  <2>2. hosts' \in [Hosts -> HostState]
    BY <1>2, <2>1 DEF IInv, TypeOK, HostState
  <2>3. req' \in RequestState /\ req'.pc = "associate"
    BY <1>2 DEF IInv, TypeOK, RequestState
  <2> QED
    BY <2>2, <2>3, RequestKeeps DEF StoreSettings, IInv, TypeOK
<1> QED
  BY <1>1, <1>2 DEF StoreSettings

LEMMA AssociateStep == ASSUME IInv, Next, Associate PROVE IInv'
<1>1. hosts' \in [Hosts -> HostState]
  BY WantedType DEF Associate, IInv, TypeOK, HostState
<1> QED
  BY <1>1, NoRequestFacts, RequestKeeps DEF Associate, IInv, TypeOK

LEMMA RemoveRoleStep == ASSUME IInv, Next, NEW h \in Hosts, RemoveRole(h) PROVE IInv'
<1>1. inputs' \in 0 .. MaxInputs
  BY InputFacts DEF RemoveRole, Request
<1>2. \A left \in {hosts[h].settings, Unset} : left \in [Settings -> Value]
  BY DEF IInv, TypeOK, HostState, Unset, Value
<1>3. hosts' \in [Hosts -> HostState]
  BY <1>2 DEF RemoveRole, IInv, TypeOK, HostState
<1> QED
  BY <1>1, <1>3, RequestKeeps DEF RemoveRole, IInv, TypeOK, Control

-----------------------------------------------------------------------------
(* Consul. *)

\* A change in Consul adds an update, or none.
LEMMA ConsulKeeps ==
  ASSUME IInv, Next, OnlyConsul, consul' \in ConsulState, inputs' \in 0 .. MaxInputs,
         \/ UNCHANGED updates /\ consul'.params = consul.params
         \/ \E u \in Update \union Params :
              /\ updates' = Append(updates, u)
              /\ consul'.params = IF u \in Params THEN consul.params \union {u}
                                  ELSE consul.params
  PROVE  IInv'
<1> USE DEF OnlyConsul, watchVars, tableVars, callVars
<1>1. Single' /\ Control' /\ ActiveAsRecorded'
  BY DEF IInv, Single, Control, ActiveAsRecorded
<1>2. CASE UNCHANGED updates /\ consul'.params = consul.params
  BY <1>1, <1>2 DEF IInv, TypeOK, Parameters
<1>3. ASSUME NEW u \in Update \union Params, updates' = Append(updates, u),
             consul'.params = IF u \in Params THEN consul.params \union {u}
                              ELSE consul.params
      PROVE  IInv'
  <2>1. /\ updates' \in Seq(Update \union Params) /\ Len(updates') = Len(updates) + 1
        /\ updates'[Len(updates) + 1] = u /\ Len(updates) \in Nat
        /\ \A i \in 1 .. Len(updates) : updates'[i] = updates[i]
    BY <1>3 DEF IInv, TypeOK
  <2>2. \A p \in consul'.params :
          p \in params \/ p \in lost \/ \E i \in 1 .. Len(updates') : updates'[i] = p
    BY <1>3, <2>1 DEF IInv, Parameters
  <2>3. \A i \in 1 .. Len(updates') : updates'[i] \in Params => updates'[i] \in consul'.params
    BY <1>3, <2>1 DEF IInv, Parameters
  <2>4. TypeOK' /\ Parameters'
    <3>1. \A i \in 1 .. call.begun : updates'[i] \in Params => updates'[i] \in params
      BY <2>1 DEF IInv, TypeOK, Parameters
    <3> QED
      BY <1>3, <2>1, <2>2, <2>3, <3>1 DEF IInv, TypeOK, Parameters
  <2> QED
    BY <1>1, <2>4 DEF IInv
<1> QED
  BY <1>2, <1>3

LEMMA PutConfigStep ==
  ASSUME IInv, Next, NEW v \in Versions, NEW doc \in Docs, PutConfig(v, doc) PROVE IInv'
<1>1. inputs' \in 0 .. MaxInputs
  BY InputFacts DEF PutConfig
<1>2. consul' \in ConsulState /\ consul'.params = consul.params
  BY DEF PutConfig, IInv, TypeOK, ConsulState
<1> QED
  BY <1>1, <1>2, ConsulKeeps, CatalogueAssumption DEF PutConfig, Update

LEMMA PutParamStep == ASSUME IInv, Next, NEW p \in Params, PutParam(p) PROVE IInv'
<1>1. inputs' \in 0 .. MaxInputs
  BY InputFacts DEF PutParam
<1>2. consul' \in ConsulState /\ consul'.params = consul.params \union {p}
  BY DEF PutParam, IInv, TypeOK, ConsulState
<1> QED
  BY <1>1, <1>2, ConsulKeeps DEF PutParam

LEMMA PutActiveStep == ASSUME IInv, Next, NEW v \in Versions, PutActive(v) PROVE IInv'
<1>1. inputs' \in 0 .. MaxInputs
  BY InputFacts DEF PutActive
<1>2. consul' \in ConsulState /\ consul'.params = consul.params
  BY DEF PutActive, IInv, TypeOK, ConsulState
<1> QED
  BY <1>1, <1>2, ConsulKeeps DEF PutActive

-----------------------------------------------------------------------------
(* The start of the process. *)

LEMMA LoadFileStep == ASSUME IInv, Next, NEW v \in Versions, LoadFile(v) PROVE IInv'
<1> USE DEF LoadFile, watchVars, consulVars, callVars
<1>1. TypeOK'
  BY TableStep DEF IInv, TypeOK
<1>2. Control' /\ ActiveAsRecorded'
  BY DEF IInv, Control, ActiveAsRecorded
<1>3. Parameters'
  BY TableStep DEF IInv, Parameters
<1> QED
  BY <1>1, <1>2, <1>3, TableStep DEF IInv

\* Everything is a finite set, so its sequences have all of it.
LEMMA EverythingFinite ==
  ASSUME IInv
  PROVE  Everything \subseteq Update \union Params /\ IsFiniteSet(Everything)
<1> DEFINE W == {v \in Versions : consul.docs[v] # None}
           R == {<<v, consul.docs[v]>> : v \in W}
           f == [v \in W |-> <<v, consul.docs[v]>>]
<1>1. R \subseteq Update /\ consul.params \subseteq Params
  BY DEF IInv, TypeOK, ConsulState, Update
<1>2. IsFiniteSet(W) /\ IsFiniteSet(consul.params)
  BY <1>1, CatalogueAssumption, FS_Subset
<1>3. f \in Surjection(W, R)
  BY DEF Surjection
<1>4. IsFiniteSet(R)
  BY <1>2, <1>3, FS_Surjection
<1> QED
  BY <1>1, <1>2, <1>4, FS_Union DEF Everything

LEMMA AllDelivered ==
  ASSUME IInv, NEW s \in SetToSeqs(Everything)
  PROVE  /\ s \in Seq(Update \union Params)
         /\ \A u \in Everything : \E i \in 1 .. Len(s) : s[i] = u
         /\ \A i \in 1 .. Len(s) : s[i] \in Everything
<1> DEFINE n == Cardinality(Everything)
<1>1. IsFiniteSet(Everything) /\ Everything \subseteq Update \union Params /\ n \in Nat
  BY EverythingFinite, FS_CardinalityType
<1>2. s \in [1 .. n -> Everything] /\ \A i, j \in 1 .. n : i # j => s[i] # s[j]
  BY DEF SetToSeqs
<1>3. s \in Injection(1 .. n, Everything)
  BY <1>2 DEF Injection, IsInjective
<1>4. Cardinality(1 .. n) = n
  BY <1>1, FS_Interval
<1>5. s \in Surjection(1 .. n, Everything)
  BY <1>1, <1>3, <1>4, FS_Injection
<1>6. s \in Seq(Update \union Params) /\ Len(s) = n
  BY <1>1, <1>2
<1> QED
  BY <1>2, <1>5, <1>6 DEF Surjection

\* A process that starts anew has the files' parameters; Consul's are on their way.
LEMMA RestartStep == ASSUME IInv, Next, Restart PROVE IInv'
<1>1. faults' \in 1 .. MaxFaults
  BY CatalogueAssumption DEF IInv, TypeOK, Restart, Fault
<1>2. Idle \in WatchState /\ Idle.pc = "idle" /\ Loaded \subseteq Versions
  BY DEF Idle, WatchState, Loaded
<1>3. /\ updates' \in Seq(Update \union Params)
      /\ \A u \in Everything : \E i \in 1 .. Len(updates') : updates'[i] = u
      /\ \A i \in 1 .. Len(updates') : updates'[i] \in Everything
  BY AllDelivered DEF Restart
<1>4. TypeOK'
  <2>1. /\ UNCHANGED <<rows, active, hosts, consul, inputs>>
        /\ boot' = Loaded /\ params' = FileParams /\ watch' = Idle /\ recorded' = None
        /\ pending' = {} /\ req' = NoRequest /\ byHand' = FALSE
        /\ call' = NoCall /\ lost' = {}
    BY DEF Restart, tableVars
  <2>2. FileParams \subseteq Params /\ faults' \in 0 .. MaxFaults
    BY <1>1, CatalogueAssumption
  <2> QED
    <3>1. /\ call' \in [size : Nat, begun : Nat] /\ call'.begun <= call'.size
          /\ call'.size <= Len(updates') /\ lost' \subseteq Params
      BY <1>3, <2>1 DEF NoCall
    <3> QED
      BY <1>2, <1>3, <2>1, <2>2, <3>1, NoRequestFacts DEF IInv, TypeOK
<1>5. Control' /\ ActiveAsRecorded' /\ Single'
  BY <1>1, <1>2, NoRequestFacts, TableStep
     DEF IInv, Control, ActiveAsRecorded, Restart, NoCall
<1>6. Parameters'
  <2>1. \A u \in Everything : u \in Params => u \in consul.params
    BY CatalogueAssumption DEF Everything, IInv, TypeOK, ConsulState
  <2> QED
    BY <1>3, <2>1 DEF IInv, Parameters, Restart, tableVars, Everything, NoCall
<1> QED
  BY <1>4, <1>5, <1>6 DEF IInv

-----------------------------------------------------------------------------
(* The thread that watches Consul. *)

LEMMA TurnFacts ==
  ASSUME NEW left \in SUBSET Update, Turn(left)
  PROVE  /\ watch' \in WatchState /\ watch'.pc \in {"idle", "fetch"}
         /\ watch'.pc = "idle" <=> left = {}
         /\ watch'.pc # "idle" => watch'.version \in Versions /\ watch'.doc \in Docs
BY DEF Turn, WatchState, Idle, Update

\* What is left to prove of a step of the thread.
LEMMA WatchKeeps ==
  ASSUME IInv, Next, OnlyWatch, boot = {}, watch' \in WatchState,
         watch'.pc # "idle" => watch'.version \in Versions /\ watch'.doc \in Docs,
         watch'.pc = "readd" => recorded' \in Update,
         recorded' \in Update \union {None}, pending' \subseteq Update,
         params' \subseteq Params, updates' \in Seq(Update \union Params),
         call' \in [size : Nat, begun : Nat], call'.begun <= call'.size,
         call'.size <= Len(updates'), lost' \subseteq Params,
         watch'.pc # "idle" => call'.size > 0,
         byHand' \in BOOLEAN, faults' \in 0 .. MaxFaults,
         Parameters', ActiveAsRecorded'
  PROVE  IInv'
<1> USE DEF OnlyWatch
<1>1. TypeOK'
  BY TableStep DEF IInv, TypeOK
<1>2. Control'
  BY DEF IInv, Control
<1> QED
  BY <1>1, <1>2, TableStep DEF IInv

LEMMA FaultFacts == ASSUME IInv, Fault PROVE faults' \in 1 .. MaxFaults
BY CatalogueAssumption DEF IInv, TypeOK, Fault

\* The update that is begun
LEMMA BeginFacts ==
  ASSUME IInv, NEW u, Begin(u)
  PROVE  /\ boot = {} /\ (u \in Params => u \in consul.params)
         /\ call' \in [size : Nat, begun : Nat] /\ call'.begun <= call'.size
         /\ call'.size <= Len(updates') /\ call'.size > 0
         /\ UNCHANGED <<updates, lost>>
         /\ \A i \in 1 .. call'.begun : updates[i] \in Params => updates[i] \in params \union {u}
<1>1. /\ call \in [size : Nat, begun : Nat] /\ call.begun < call.size
      /\ call.size <= Len(updates) /\ Len(updates) \in Nat
      /\ u = updates[call.begun + 1] /\ call' = [call EXCEPT !.begun = @ + 1]
      /\ UNCHANGED <<updates, lost>>
  BY DEF IInv, TypeOK, Begin
<1>2. call.begun + 1 \in 1 .. Len(updates) /\ call.size > 0
  BY <1>1
<1>3. boot = {}
  BY <1>1, <1>2 DEF IInv, Control
<1>4. u \in Params => u \in consul.params
  BY <1>1, <1>2 DEF IInv, Parameters
<1>5. \A i \in 1 .. call'.begun : i = call.begun + 1 \/ i \in 1 .. call.begun
  BY <1>1
<1>6. \A i \in 1 .. call'.begun : updates[i] \in Params => updates[i] \in params \union {u}
  BY <1>1, <1>5 DEF IInv, Parameters
<1> QED
  BY <1>1, <1>2, <1>3, <1>4, <1>6

LEMMA ConfigUpdateStep == ASSUME IInv, Next, NEW u \in Update, ConfigUpdate(u) PROVE IInv'
<1>1. UNCHANGED <<rows, recorded, pending, params, consul, byHand, faults>>
  BY DEF ConfigUpdate, OnlyWatch, tableVars
<1>2. watch' \in WatchState /\ watch'.pc = "fetch" /\ watch'.version \in Versions
      /\ watch'.doc \in Docs
  BY DEF ConfigUpdate, WatchState, Update
<1>3. /\ call' \in [size : Nat, begun : Nat] /\ call'.begun <= call'.size
      /\ call'.size <= Len(updates') /\ call'.size > 0 /\ boot = {}
      /\ UNCHANGED <<updates, lost>>
      /\ \A i \in 1 .. call'.begun : updates[i] \in Params => updates[i] \in params \union {u}
  BY BeginFacts DEF ConfigUpdate
<1>4. Parameters'
  <2>1. u \notin Params
    BY CatalogueAssumption DEF Update
  <2> QED
    BY <1>1, <1>3, <2>1 DEF IInv, Parameters
<1>5. ActiveAsRecorded' /\ OnlyWatch
  BY <1>2 DEF ActiveAsRecorded, ConfigUpdate
<1> QED
  BY <1>1, <1>2, <1>3, <1>4, <1>5, WatchKeeps DEF IInv, TypeOK

\* With nothing to try again the thread rests as it did before.
LEMMA ParamUpdateStep == ASSUME IInv, Next, NEW p \in Params, ParamUpdate(p) PROVE IInv'
<1>1. /\ watch.pc = "idle" /\ params' = params \union {p}
      /\ pending' = {} /\ Turn(pending)
      /\ UNCHANGED <<rows, active, recorded, consul, byHand, faults>>
  BY DEF ParamUpdate, Begin, OnlyWatch, tableVars, AllOf
<1>2. /\ watch' \in WatchState /\ watch'.pc \in {"idle", "fetch"}
      /\ watch'.pc = "idle" <=> pending = {}
      /\ watch'.pc # "idle" => watch'.version \in Versions /\ watch'.doc \in Docs
  BY <1>1, TurnFacts DEF IInv, TypeOK
<1>3. /\ call' \in [size : Nat, begun : Nat] /\ call'.begun <= call'.size
      /\ call'.size <= Len(updates') /\ call'.size > 0 /\ boot = {}
      /\ UNCHANGED <<updates, lost>>
      /\ \A i \in 1 .. call'.begun : updates[i] \in Params => updates[i] \in params \union {p}
      /\ p \in consul.params
  BY BeginFacts DEF ParamUpdate
<1>4. Parameters'
  BY <1>1, <1>3 DEF IInv, Parameters
<1>5. ActiveAsRecorded' /\ OnlyWatch
  BY <1>1, <1>2 DEF IInv, ActiveAsRecorded, ParamUpdate
<1>6. params' \subseteq Params
  BY <1>1 DEF IInv, TypeOK
<1> QED
  BY <1>1, <1>2, <1>3, <1>4, <1>5, <1>6, WatchKeeps DEF IInv, TypeOK

LEMMA DeliverStep == ASSUME IInv, Next, Deliver PROVE IInv'
<1>1. PICK n \in 1 .. Len(updates) : call' = [NoCall EXCEPT !.size = n]
  BY DEF Deliver
<1>2. /\ boot = {} /\ Len(updates) \in Nat
      /\ UNCHANGED <<rows, active, watch, recorded, pending, params, consul, updates, byHand,
                     lost, faults>>
  BY DEF Deliver, Running, OnlyWatch, tableVars, watchVars, IInv, TypeOK
<1>3. /\ call' \in [size : Nat, begun : Nat] /\ call'.begun <= call'.size
      /\ call'.size <= Len(updates') /\ call'.size > 0
  BY <1>1, <1>2 DEF NoCall
<1>4. Parameters' /\ ActiveAsRecorded'
  BY <1>1, <1>2 DEF IInv, Parameters, ActiveAsRecorded, NoCall
<1> QED
  BY <1>2, <1>3, <1>4, WatchKeeps DEF Deliver, IInv, TypeOK, Control

\* While the thread works the process has started.
LEMMA AtWork ==
  ASSUME IInv, watch.pc # "idle"
  PROVE  boot = {} /\ call.size > 0 /\ watch.version \in Versions /\ watch.doc \in Docs
         /\ <<watch.version, watch.doc>> \in Update /\ watch.retry \subseteq Update
BY DEF IInv, TypeOK, Control, WatchState, Update

\* The updates of a call that is over leave; what they brought is known or lost.
LEMMA LeaveFacts ==
  ASSUME IInv, updates' = Undelivered, call' = NoCall, UNCHANGED <<rows, consul>>, params \subseteq params',
         params' \subseteq FileParams \union consul.params,
         lost \subseteq lost', \A i \in 1 .. call.size : updates[i] \in Params =>
                                 updates[i] \in params' \/ updates[i] \in lost'
  PROVE  updates' \in Seq(Update \union Params) /\ Parameters'
<1>1. /\ updates \in Seq(Update \union Params) /\ Len(updates) \in Nat
      /\ call.size \in Nat /\ call.size <= Len(updates)
  BY DEF IInv, TypeOK
<1>2. /\ updates' \in Seq(Update \union Params) /\ Len(updates') = Len(updates) - call.size
      /\ \A i \in 1 .. Len(updates') : updates'[i] = updates[i + call.size]
  BY <1>1 DEF Undelivered
<1>3. ASSUME NEW q \in consul.params
      PROVE  q \in params' \/ q \in lost' \/ \E i \in 1 .. Len(updates') : updates'[i] = q
  <2>1. SUFFICES ASSUME q \notin params, q \notin lost
                 PROVE  q \in params' \/ q \in lost'
                          \/ \E i \in 1 .. Len(updates') : updates'[i] = q
    OBVIOUS
  <2>2. PICK i \in 1 .. Len(updates) : updates[i] = q
    BY <2>1 DEF IInv, Parameters
  <2>3. q \in Params
    BY DEF IInv, TypeOK, ConsulState
  <2>4. CASE i <= call.size
    BY <1>1, <2>2, <2>3, <2>4
  <2>5. CASE i > call.size
    <3>1. i - call.size \in 1 .. Len(updates') /\ updates'[i - call.size] = updates[i]
      BY <1>1, <1>2, <2>5
    <3> QED
      BY <2>2, <3>1
  <2> QED
    BY <1>1, <2>4, <2>5
<1>4. ASSUME NEW i \in 1 .. Len(updates'), updates'[i] \in Params
      PROVE  updates'[i] \in consul.params
  <2>1. i + call.size \in 1 .. Len(updates) /\ updates'[i] = updates[i + call.size]
    BY <1>1, <1>2
  <2> QED
    BY <1>4, <2>1 DEF IInv, Parameters
<1> QED
  BY <1>2, <1>3, <1>4 DEF IInv, Parameters, NoCall

\* The steps that deliver no parameter
LEMMA SameParameters ==
  ASSUME IInv, Next, OnlyWatch, UNCHANGED <<params, updates, callVars>> PROVE Parameters'
BY TableStep DEF IInv, Parameters, OnlyWatch, callVars

LEMMA CallKeeps ==
  ASSUME IInv, watch.pc # "idle", UNCHANGED <<updates, callVars>>
  PROVE  /\ call' \in [size : Nat, begun : Nat] /\ call'.begun <= call'.size
         /\ call'.size <= Len(updates') /\ call'.size > 0 /\ lost' \subseteq Params
         /\ updates' \in Seq(Update \union Params)
BY DEF IInv, TypeOK, Control, callVars

LEMMA ReturnStep == ASSUME IInv, Next, Return PROVE IInv'
<1>1. /\ call' = NoCall /\ updates' = Undelivered /\ watch.pc = "idle" /\ call.size > 0
      /\ ~(call.begun < call.size)
      /\ UNCHANGED <<rows, active, watch, recorded, pending, params, consul, byHand, lost,
                     faults>>
  BY DEF Return, Working, OnlyWatch, tableVars, watchVars
<1>2. /\ call.size \in Nat /\ call.begun \in Nat /\ call.begun <= call.size
      /\ params \subseteq FileParams \union consul.params
  BY DEF IInv, TypeOK, Parameters
<1>3. \A i \in 1 .. call.size : updates[i] \in Params => updates[i] \in params
  <2>1. call.begun = call.size
    BY <1>1, <1>2
  <2> QED
    BY <2>1 DEF IInv, Parameters
<1>4. updates' \in Seq(Update \union Params) /\ Parameters'
  BY <1>1, <1>2, <1>3, LeaveFacts
<1>5. boot = {} /\ ActiveAsRecorded'
  BY <1>1, <1>2 DEF IInv, Control, ActiveAsRecorded
<1>6. /\ call' \in [size : Nat, begun : Nat] /\ call'.begun <= call'.size
      /\ call'.size <= Len(updates')
  BY <1>1, <1>4 DEF NoCall
<1> QED
  BY <1>1, <1>4, <1>5, <1>6, WatchKeeps DEF Return, IInv, TypeOK

LEMMA FetchActiveStep == ASSUME IInv, Next, FetchActive PROVE IInv'
<1>1. boot = {} /\ <<watch.version, watch.doc>> \in Update
  BY AtWork DEF FetchActive
<1>2. recorded' \in Update \union {None} /\ faults' \in 0 .. MaxFaults
  BY <1>1, FaultFacts DEF FetchActive, IInv, TypeOK
<1>3. watch' \in WatchState /\ watch'.pc = "save" /\ watch'.version = watch.version
      /\ watch'.doc = watch.doc
  BY DEF FetchActive, IInv, TypeOK, WatchState
<1>4. ActiveAsRecorded' /\ Parameters'
  BY <1>3, SameParameters DEF ActiveAsRecorded, FetchActive
<1> QED
  BY <1>1, <1>2, <1>3, <1>4, AtWork, CallKeeps, WatchKeeps
     DEF FetchActive, IInv, TypeOK

LEMMA SaveUpdateStep == ASSUME IInv, Next, SaveUpdate PROVE IInv'
<1>1. /\ boot = {} /\ watch.version \in Versions /\ watch.doc \in Docs
      /\ <<watch.version, watch.doc>> \in Update /\ watch.retry \subseteq Update
  BY AtWork DEF SaveUpdate
<1>2. /\ UNCHANGED <<recorded, params, faults>> /\ OnlyWatch /\ Parameters'
      /\ call' \in [size : Nat, begun : Nat] /\ call'.begun <= call'.size
      /\ call'.size <= Len(updates') /\ call'.size > 0 /\ lost' \subseteq Params
      /\ updates' \in Seq(Update \union Params)
  BY SameParameters, CallKeeps DEF SaveUpdate
<1>3. CASE /\ SaveRole(watch.version, watch.doc) /\ byHand' = FALSE /\ UNCHANGED pending
           /\ IF Displaced THEN watch' = [watch EXCEPT !.pc = "readd"] ELSE Turn(watch.retry)
  <2>1. CASE Displaced /\ watch' = [watch EXCEPT !.pc = "readd"]
    <3>1. watch' \in WatchState /\ watch'.pc = "readd" /\ watch'.version = watch.version
          /\ watch'.doc = watch.doc
      BY <2>1 DEF IInv, TypeOK, WatchState
    <3>2. recorded' \in Update /\ ActiveAsRecorded'
      BY <1>2, <2>1, <3>1 DEF Displaced, IInv, TypeOK, ActiveAsRecorded
    <3> QED
      BY <1>1, <1>2, <1>3, <3>1, <3>2, WatchKeeps DEF IInv, TypeOK
  <2>2. CASE ~Displaced /\ Turn(watch.retry)
    <3>1. ActiveAsRecorded'
      BY <1>2, <1>3, <2>2 DEF Displaced, ActiveAsRecorded, SaveRole
    <3>2. /\ watch' \in WatchState /\ watch'.pc \in {"idle", "fetch"}
          /\ watch'.pc # "idle" => watch'.version \in Versions /\ watch'.doc \in Docs
      BY <1>1, <2>2, TurnFacts
    <3> QED
      BY <1>1, <1>2, <1>3, <3>1, <3>2, WatchKeeps DEF IInv, TypeOK
  <2> QED
    BY <1>3, <2>1, <2>2
<1>4. CASE Queue /\ Turn(watch.retry) /\ UNCHANGED <<tableVars, byHand>>
  <2>1. pending' \subseteq Update /\ pending' # {}
    BY <1>1, <1>4 DEF Queue, IInv, TypeOK
  <2>2. /\ watch' \in WatchState /\ watch'.pc \in {"idle", "fetch"}
        /\ watch'.pc # "idle" => watch'.version \in Versions /\ watch'.doc \in Docs
    BY <1>1, <1>4, TurnFacts
  <2> QED
    BY <1>1, <1>2, <1>4, <2>1, <2>2, WatchKeeps DEF IInv, TypeOK, ActiveAsRecorded
<1> QED
  BY <1>3, <1>4 DEF SaveUpdate

LEMMA ReaddStep == ASSUME IInv, Next, Readd PROVE IInv'
<1>1. boot = {} /\ <<watch.version, watch.doc>> \in Update /\ watch.retry \subseteq Update
  BY AtWork DEF Readd
<1>2. /\ UNCHANGED <<recorded, params, faults>> /\ OnlyWatch /\ Parameters'
      /\ call' \in [size : Nat, begun : Nat] /\ call'.begun <= call'.size
      /\ call'.size <= Len(updates') /\ call'.size > 0 /\ lost' \subseteq Params
      /\ updates' \in Seq(Update \union Params)
  BY SameParameters, CallKeeps DEF Readd
<1>3. /\ watch' \in WatchState /\ watch'.pc \in {"idle", "fetch"}
      /\ watch'.pc # "idle" => watch'.version \in Versions /\ watch'.doc \in Docs
  BY <1>1, TurnFacts DEF Readd
<1>4. CASE SaveRole(recorded[1], recorded[2]) /\ byHand' = FALSE /\ UNCHANGED pending
  <2>1. ActiveAsRecorded'
    BY <1>2, <1>4 DEF ActiveAsRecorded, SaveRole
  <2> QED
    BY <1>1, <1>2, <1>3, <1>4, <2>1, WatchKeeps DEF IInv, TypeOK
<1>5. CASE Queue /\ UNCHANGED <<tableVars, byHand>>
  <2>1. pending' \subseteq Update /\ pending' # {}
    BY <1>1, <1>5 DEF Queue, IInv, TypeOK
  <2> QED
    BY <1>1, <1>2, <1>3, <1>5, <2>1, WatchKeeps DEF IInv, TypeOK, ActiveAsRecorded
<1> QED
  BY <1>4, <1>5 DEF Readd

\* A call that fails is delivered again, or leaves with the parameters it had.
LEMMA RaiseStep == ASSUME IInv, Next, Raise PROVE IInv'
<1>1. /\ call.size \in Nat /\ call.begun \in Nat /\ Len(updates) \in Nat
      /\ call.size <= Len(updates) /\ updates \in Seq(Update \union Params)
      /\ params \subseteq FileParams \union consul.params
  BY DEF IInv, TypeOK, Parameters
<1>2. boot = {} /\ faults' \in 1 .. MaxFaults
  BY <1>1, FaultFacts DEF Raise, Working, IInv, Control
<1>3. /\ UNCHANGED <<rows, active, recorded, pending, params, consul, byHand>>
      /\ watch' = Idle /\ call' = NoCall
  BY DEF Raise, tableVars, OnlyWatch
<1>4. Idle \in WatchState /\ Idle.pc = "idle"
  BY DEF Idle, WatchState
<1>5. updates' \in Seq(Update \union Params) /\ lost' \subseteq Params /\ Parameters'
  <2>1. CASE UNCHANGED <<updates, lost>>
    BY <1>1, <1>3, <2>1 DEF IInv, TypeOK, Parameters, NoCall
  <2>2. CASE /\ updates' = Undelivered
             /\ lost' = lost \union ((Range(Delivered) \cap Params) \ params)
    <3>1. \A i \in 1 .. call.size : updates[i] \in Range(Delivered)
      <4>1. /\ Delivered \in Seq(Update \union Params) /\ DOMAIN Delivered = 1 .. call.size
            /\ \A i \in 1 .. call.size : Delivered[i] = updates[i]
        BY <1>1 DEF Delivered
      <4> QED
        BY <4>1 DEF Range
    <3>2. lost' \subseteq Params
      BY <2>2 DEF IInv, TypeOK
    <3> QED
      BY <1>1, <1>3, <2>2, <3>1, <3>2, LeaveFacts
  <2> QED
    BY <2>1, <2>2 DEF Raise
<1>6. ActiveAsRecorded'
  BY <1>2 DEF ActiveAsRecorded
<1>7. /\ call' \in [size : Nat, begun : Nat] /\ call'.begun <= call'.size
      /\ call'.size <= Len(updates')
  BY <1>3, <1>5 DEF NoCall
<1> QED
  BY <1>2, <1>3, <1>4, <1>5, <1>6, <1>7, WatchKeeps DEF Raise, IInv, TypeOK

-----------------------------------------------------------------------------
(* The theorems. *)

LEMMA Step == IInv /\ [Next]_vars => IInv'
<1> SUFFICES ASSUME IInv, [Next]_vars PROVE IInv'
  OBVIOUS
<1>1. CASE UNCHANGED vars
  BY <1>1 DEF vars, tableVars, watchVars, consulVars, callVars, IInv, TypeOK, Single, Control,
              Parameters, ActiveAsRecorded
<1>2. CASE Next
  <2>1. CASE \E v \in Versions : LoadFile(v) \/ MarkActive(v) \/ PutActive(v)
    BY <1>2, <2>1, LoadFileStep, MarkActiveStep, PutActiveStep
  <2>2. CASE \E v \in Versions, doc \in Docs : CheckCreate(v, doc) \/ PutConfig(v, doc)
    BY <1>2, <2>2, CheckCreateStep, PutConfigStep
  <2>3. CASE \E p \in Params : PutParam(p)
    BY <1>2, <2>3, PutParamStep
  <2>4. CASE \E h \in Hosts : RemoveRole(h)
    BY <1>2, <2>4, RemoveRoleStep
  <2>5. CASE \E h \in Hosts, v \in RequestedVersions, custom \in SUBSET Settings :
               Add(h, v, custom)
    BY <1>2, <2>5, AddStep
  <2>6. CASE Watch
    BY <1>2, <2>6, DeliverStep, ReturnStep, ConfigUpdateStep, ParamUpdateStep,
       FetchActiveStep, SaveUpdateStep, ReaddStep DEF Watch
  <2>7. CASE Serve
    BY <1>2, <2>7, CreateStep, StoreSettingsStep, AssociateStep DEF Serve
  <2> QED
    BY <1>2, <2>1, <2>2, <2>3, <2>4, <2>5, <2>6, <2>7, RaiseStep, RestartStep DEF Next
<1> QED
  BY <1>1, <1>2

\* The parts of the invariant hold together.
THEOREM CatalogueInvariant == Spec => []IInv
<1> QED
  BY InitHolds, Step, PTL DEF Spec

\* Every variable keeps its type, whatever comes from Consul and from requests.
THEOREM CatalogueTypes == Spec => []TypeOK
<1>1. IInv => TypeOK
  BY DEF IInv
<1> QED
  BY <1>1, CatalogueInvariant, PTL

\* Whoever saves and activates versions of a role (save_role_in_db,
\* mark_role_active), in any order and with restarts in between: if there is a
\* version, one is active and no other.
THEOREM OneVersionActive == Spec => []OneActive
<1>1. IInv => OneActive
  BY FS_Singleton DEF IInv, Single, OneActive
<1> QED
  BY <1>1, CatalogueInvariant, PTL

\* The version that _active_roles remembers is the active one whenever the Consul
\* thread rests, unless a request, a failure or an update that waits is in the way.
THEOREM RecordedVersionActive == Spec => []ActiveAsRecorded
<1>1. IInv => ActiveAsRecorded
  BY DEF IInv
<1> QED
  BY <1>1, CatalogueInvariant, PTL

\* Whatever fails in the calls of the watch (_callback) and whenever the process is
\* started again: a version in the table that cannot be rendered
\* (_substitute_host_role_params) lacks parameters that are on their way, or that a
\* call lost since the start.
THEOREM Renderable == Spec => []TableRenderable
<1>1. ASSUME IInv PROVE TableRenderable
  <2>1. ASSUME NEW v \in Versions, rows[v] # None, NEW p \in rows[v].needs, p \notin params
        PROVE  p \in OnTheWay \union lost
    <3>1. p \in consul.params /\ p \in Params
      BY <1>1, <2>1 DEF IInv, Parameters, TypeOK, ConsulState
    <3>2. CASE \E i \in 1 .. Len(updates) : updates[i] = p
      <4>1. updates \in Seq(Update \union Params)
        BY <1>1 DEF IInv, TypeOK
      <4>2. p \in Range(updates)
        BY <3>2, <4>1 DEF Range
      <4> QED
        BY <3>1, <4>2 DEF OnTheWay
    <3> QED
      BY <1>1, <2>1, <3>1, <3>2 DEF IInv, Parameters
  <2> QED
    BY <2>1 DEF TableRenderable
<1> QED
  BY <1>1, CatalogueInvariant, PTL

\* A host keeps what it was given for a custom setting (insert_update_host) until
\* its role is removed.
Kept == \A h \in Hosts, s \in Settings :
          hosts[h].settings[s] = "custom" /\ hosts'[h].version # None
            => hosts'[h].settings[s] = "custom"

THEOREM CustomSettingsKept == Spec => SettingsKept
<1>1. ASSUME IInv, Next PROVE Kept
  <2>1. CASE UNCHANGED hosts
    BY <2>1 DEF Kept
  <2>2. CASE StoreSettings
    <3>1. ASSUME NEW h \in Hosts, NEW s \in Settings, hosts[h].settings[s] = "custom"
          PROVE  hosts'[h].settings[s] = "custom"
      <4>1. hosts \in [Hosts -> HostState]
        BY <1>1 DEF IInv, TypeOK
      <4>2. CASE UNCHANGED hosts
        BY <3>1, <4>2
      <4>3. CASE hosts' = [hosts EXCEPT ![req.host].settings =
                             SettingsWith(@, rows[Wanted], req.custom)]
        <5>1. CASE h = req.host
          <6>1. hosts'[h].settings = SettingsWith(hosts[h].settings, rows[Wanted], req.custom)
            BY <4>1, <4>3, <5>1 DEF HostState
          <6> QED
            BY <3>1, <6>1 DEF SettingsWith
        <5>2. CASE h # req.host
          BY <3>1, <4>1, <4>3, <5>2
        <5> QED
          BY <5>1, <5>2
      <4> QED
        BY <2>2, <4>2, <4>3 DEF StoreSettings
    <3> QED
      BY <3>1 DEF Kept
  <2>3. CASE Associate
    BY <1>1, <2>3 DEF Associate, Kept, IInv, TypeOK, HostState
  <2>4. ASSUME NEW g \in Hosts, RemoveRole(g) PROVE Kept
    <3>1. ASSUME NEW h \in Hosts PROVE h # g => hosts'[h] = hosts[h]
      BY <1>1, <2>4 DEF RemoveRole, IInv, TypeOK
    <3>2. hosts'[g].version = None
      BY <1>1, <2>4 DEF RemoveRole, IInv, TypeOK
    <3> QED
      BY <3>1, <3>2 DEF Kept
  <2>5. UNCHANGED hosts \/ StoreSettings \/ Associate \/ \E g \in Hosts : RemoveRole(g)
    BY <1>1 DEF Next, Watch, Serve, LoadFile, MarkActive, PutActive, CheckCreate, PutConfig,
                PutParam, Add, Deliver, Return, ConfigUpdate, ParamUpdate, FetchActive, SaveUpdate, Readd,
                Raise, Restart, Create, OnlyWatch, OnlyConsul
  <2> QED
    BY <2>1, <2>2, <2>3, <2>4, <2>5
<1>2. UNCHANGED vars => Kept
  BY DEF vars, Kept
<1>3. IInv /\ [Next]_vars => [Kept]_vars
  BY <1>1, <1>2
<1> QED
  BY <1>3, CatalogueInvariant, PTL DEF Spec, SettingsKept, Kept
=============================================================================
