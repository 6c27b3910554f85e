---------------------------- MODULE RoleCatalogue ----------------------------
(***************************************************************************)
(* The roles table of the resource manager and what renders from it: the   *)
(* versions of one role, the one that is active, and the custom settings   *)
(* of the hosts that have it (dbutils.py, consul_roles.py, RolesMgr and    *)
(* the provider in resmgr_provider_pf9.py).                                *)
(*                                                                         *)
(* Four parties write it: the start of the process, from the role's files; *)
(* a thread that watches Consul; requests that create a version or         *)
(* activate one; and requests that put the role on a host.  What an add    *)
(* does to the state of a role is RoleManager's.                           *)
(***************************************************************************)
EXTENDS Naturals, FiniteSets, Sequences, SequencesExt

CONSTANTS
  Versions, Settings, Params, Hosts, None,
  Docs,       \* what is known of a version: the parameters its templates
              \* name, and its customizable settings
  Files,      \* the versions of the role under role_metadata_location
  FileParams, \* the parameters in conf.d
  MaxInputs, \* bound: Consul's changes and requests, together
  MaxFaults  \* bound: restarts of the process and calls that fail

ASSUME CatalogueAssumption ==
  /\ IsFiniteSet(Versions) /\ IsFiniteSet(Params)
  /\ Docs \subseteq [needs : SUBSET Params, settings : SUBSET Settings]
  /\ None \notin Docs /\ (Versions \X Docs) \cap Params = {}
  /\ Files \in [Versions -> Docs \union {None}] /\ FileParams \subseteq Params
  /\ MaxInputs \in Nat /\ MaxFaults \in Nat

VARIABLES
  rows, active,   \* table roles
  hosts,          \* table hosts: the version that is associated, role_settings
  params,         \* the parameters in self._config
  boot,           \* versions that the starting process has still to load
  watch,          \* the Consul thread
  recorded,       \* _active_roles: a version and its document, or None
  pending,        \* _pending_role_updates
  consul,         \* external: what Consul has
  updates,        \* external: changes that the watch has not delivered
  call,           \* how many of them the call at work delivers, and has begun
  req,            \* a request at work
  byHand,         \* history: a request was the last to activate a version
  lost,           \* history: parameters that a failed call took with it
  inputs, faults

tableVars == <<rows, active>>
watchVars == <<watch, recorded, pending, params>>
consulVars == <<consul, updates>>
callVars == <<call, lost>>
vars == <<tableVars, hosts, boot, watchVars, consulVars, callVars, req, byHand, inputs,
          faults>>

Update == Versions \X Docs
NoRequest == [pc |-> "idle", version |-> None, host |-> None, doc |-> None, custom |-> {}]
NoCall == [size |-> 0, begun |-> 0]
Idle == [pc |-> "idle", version |-> None, doc |-> None, retry |-> {}]
Value == {"unset", "default", "custom"}
Unset == [s \in Settings |-> "unset"]

HostState == [version : Versions \union {None}, settings : [Settings -> Value]]
WatchState ==
  [pc : {"idle", "fetch", "save", "readd"}, version : Versions \union {None},
   doc : Docs \union {None}, retry : SUBSET Update]
ConsulState ==
  [docs : [Versions -> Docs \union {None}], active : Versions \union {None},
   params : SUBSET Params]
RequestState ==
  [pc : {"idle", "create", "settings", "associate"}, version : Versions \union {None},
   host : Hosts \union {None}, doc : Docs \union {None}, custom : SUBSET Settings]

TypeOK ==
  /\ rows \in [Versions -> Docs \union {None}]
  /\ active \subseteq {v \in Versions : rows[v] # None}
  /\ hosts \in [Hosts -> HostState]
  /\ params \subseteq Params /\ boot \subseteq Versions
  /\ watch \in WatchState
  /\ recorded \in Update \union {None} /\ pending \subseteq Update
  /\ consul \in ConsulState
  /\ updates \in Seq(Update \union Params)
  /\ call \in [size : Nat, begun : Nat]
  /\ call.begun <= call.size /\ call.size <= Len(updates)
  /\ req \in RequestState
  /\ byHand \in BOOLEAN /\ lost \subseteq Params
  /\ inputs \in 0 .. MaxInputs /\ faults \in 0 .. MaxFaults

Loaded == {v \in Versions : Files[v] # None}

Init ==
  /\ rows = [v \in Versions |-> None] /\ active = {}
  /\ hosts = [h \in Hosts |-> [version |-> None, settings |-> Unset]]
  /\ params = FileParams /\ boot = Loaded
  /\ watch = Idle /\ recorded = None /\ pending = {}
  /\ consul \in [docs : {[v \in Versions |-> None]}, active : Versions \union {None},
                 params : {{}}]
  /\ updates = <<>> /\ call = NoCall /\ lost = {}
  /\ req = NoRequest /\ byHand = FALSE
  /\ inputs = 0 /\ faults = 0

Running == boot = {}
Fault == faults < MaxFaults /\ faults' = faults + 1

-----------------------------------------------------------------------------
(* dbutils.py *)

\* _validate_role_config: the templates of the document are rendered on trial
\* faulty: they are not
Unvalidated(doc) == TRUE
Valid(doc) == doc.needs \subseteq params

\* save_role_in_db: the version that is saved is active, whatever its "active"
\* says, and no other
\* faulty: the others stay active
SaveBeside(v, doc) == rows' = [rows EXCEPT ![v] = doc] /\ active' = active \union {v}
SaveRole(v, doc) == rows' = [rows EXCEPT ![v] = doc] /\ active' = {v}

\* query_role: the first of the active ones, or None
ActiveVersion == IF active = {} THEN None ELSE CHOOSE v \in active : TRUE

\* the version that a request is for; without one, the version active now
Wanted == IF req.version = None THEN ActiveVersion ELSE req.version

\* insert_update_host: the settings of the request go over those the host has,
\* the defaults of the version fill in what neither gives
\* faulty: what the host has is dropped
SettingsAnew(old, doc, custom) ==
  [s \in Settings |-> IF s \in custom THEN "custom"
                      ELSE IF s \in doc.settings THEN "default" ELSE "unset"]
SettingsWith(old, doc, custom) ==
  [s \in Settings |-> IF s \in custom THEN "custom"
                      ELSE IF s \in doc.settings /\ old[s] = "unset" THEN "default"
                      ELSE old[s]]

\* query_host_and_app_details renders the host's version with the parameters of
\* now; a missing one raises KeyError, for the poll of all hosts
Rendered(doc) == doc.needs \subseteq params

-----------------------------------------------------------------------------
(* The start of the process: setup_roles, in the order glob gives the files.  *)
(* A version that cannot be rendered is skipped.                              *)

LoadFile(v) ==
  /\ v \in boot /\ boot' = boot \ {v}
  /\ IF Valid(Files[v]) THEN SaveRole(v, Files[v]) ELSE UNCHANGED tableVars
  /\ UNCHANGED <<hosts, watchVars, consulVars, callVars, req, byHand, inputs, faults>>

\* The process dies at any point and is started again.  The watch begins with
\* everything that Consul has.
Everything ==
  {<<v, consul.docs[v]>> : v \in {w \in Versions : consul.docs[w] # None}} \union consul.params

Restart ==
  /\ Fault
  /\ boot' = Loaded /\ params' = FileParams
  /\ watch' = Idle /\ recorded' = None /\ pending' = {} /\ req' = NoRequest
  /\ updates' \in SetToSeqs(Everything) /\ call' = NoCall
  /\ byHand' = FALSE /\ lost' = {}
  /\ UNCHANGED <<tableVars, hosts, consul, inputs>>

-----------------------------------------------------------------------------
(* consul_roles.py *)

OnlyWatch == UNCHANGED <<hosts, boot, consul, req, inputs>>

\* The watch delivers any number of the updates in one call; they leave updates
\* when it returns.
Deliver ==
  /\ Running /\ call.size = 0
  /\ \E n \in 1 .. Len(updates) : call' = [NoCall EXCEPT !.size = n]
  /\ UNCHANGED <<tableVars, watchVars, updates, byHand, lost, faults>> /\ OnlyWatch

Working == watch.pc # "idle" \/ call.begun < call.size
Delivered == SubSeq(updates, 1, call.size)
Undelivered == SubSeq(updates, call.size + 1, Len(updates))

Return ==
  /\ call.size > 0 /\ ~Working
  /\ call' = NoCall /\ updates' = Undelivered
  /\ UNCHANGED <<tableVars, watchVars, byHand, lost, faults>> /\ OnlyWatch

\* _callback: the updates of a call, one after the other
Begin(u) ==
  /\ watch.pc = "idle" /\ call.begun < call.size
  /\ u = updates[call.begun + 1]
  /\ call' = [call EXCEPT !.begun = @ + 1]
  /\ UNCHANGED <<updates, lost>>

\* on to the next of the updates that are tried again
Turn(left) ==
  IF left = {} THEN watch' = Idle
  ELSE \E u \in left :
         watch' = [pc |-> "fetch", version |-> u[1], doc |-> u[2], retry |-> left \ {u}]

ConfigUpdate(u) ==
  /\ Begin(u)
  /\ watch' = [pc |-> "fetch", version |-> u[1], doc |-> u[2], retry |-> {}]
  /\ UNCHANGED <<tableVars, recorded, pending, params, byHand, faults>> /\ OnlyWatch

\* faulty: one of them is
OneOf(queue) == IF queue = {} THEN {} ELSE {CHOOSE u \in queue : TRUE}
AllOf(queue) == queue

\* _on_params_change: the updates that failed are all tried again
ParamUpdate(p) ==
  /\ Begin(p)
  /\ params' = params \union {p}
  /\ pending' = {} /\ Turn(AllOf(pending))
  /\ UNCHANGED <<tableVars, recorded, byHand, faults>> /\ OnlyWatch

\* _on_config_change: if the key active_version names this version, its document
\* is remembered; the key may be unreadable
FetchActive ==
  /\ watch.pc = "fetch"
  /\ \/ /\ recorded' = IF consul.active = watch.version
                         THEN <<watch.version, watch.doc>> ELSE recorded
        /\ UNCHANGED faults
     \/ Fault /\ UNCHANGED recorded
  /\ watch' = [watch EXCEPT !.pc = "save"]
  /\ UNCHANGED <<tableVars, pending, params, updates, callVars, byHand>> /\ OnlyWatch

\* What fails validation is queued, also when it was tried again.
Queue == pending' = pending \union {<<watch.version, watch.doc>>}

\* the version that was saved is not the one that is remembered
\* faulty: only its document is not
OtherDocument == recorded # None /\ recorded[1] = watch.version /\ recorded[2] # watch.doc
Displaced == recorded # None /\ recorded[1] # watch.version

SaveUpdate ==
  /\ watch.pc = "save"
  /\ IF Valid(watch.doc)
       THEN /\ SaveRole(watch.version, watch.doc) /\ byHand' = FALSE
            /\ IF Displaced THEN watch' = [watch EXCEPT !.pc = "readd"] ELSE Turn(watch.retry)
            /\ UNCHANGED pending
       ELSE Queue /\ Turn(watch.retry) /\ UNCHANGED <<tableVars, byHand>>
  /\ UNCHANGED <<recorded, params, updates, callVars, faults>> /\ OnlyWatch

\* the remembered version is saved again, with the remembered document; if that
\* cannot be rendered, it is the other update that is queued
Readd ==
  /\ watch.pc = "readd" /\ Turn(watch.retry)
  /\ IF Valid(recorded[2])
       THEN SaveRole(recorded[1], recorded[2]) /\ byHand' = FALSE /\ UNCHANGED pending
       ELSE Queue /\ UNCHANGED <<tableVars, byHand>>
  /\ UNCHANGED <<recorded, params, updates, callVars, faults>> /\ OnlyWatch

\* run_with_catch: a value that cannot be decoded or the database ends the call
\* with all that was left of it, updates that were tried again and updates not
\* begun; the watch may deliver the whole call again, or none of it
Raise ==
  /\ Working /\ Fault
  /\ watch' = Idle /\ call' = NoCall
  /\ \/ UNCHANGED <<updates, lost>>
     \/ /\ updates' = Undelivered
        /\ lost' = lost \union ((Range(Delivered) \cap Params) \ params)
  /\ UNCHANGED <<tableVars, recorded, pending, params, byHand>> /\ OnlyWatch

Watch ==
  \/ \E u \in Update : ConfigUpdate(u)
  \/ \E p \in Params : ParamUpdate(p)
  \/ Deliver \/ Return \/ FetchActive \/ SaveUpdate \/ Readd

-----------------------------------------------------------------------------
(* Requests. *)

Input == inputs < MaxInputs /\ inputs' = inputs + 1

Request == Running /\ Input

OnlyRequest == UNCHANGED <<boot, watchVars, consulVars, callVars, faults>>

\* get_role: 404 for a version that is not there
\* faulty: only when Consul has it
Recorded(v) == rows[v] # None \/ consul.docs[v] # None
Known(v) == rows[v] # None

\* mark_role_version_active; the version is looked up before the lock is taken,
\* but no version is ever removed
MarkActive(v) ==
  /\ Request /\ Known(v)
  /\ active' = {v} /\ byHand' = TRUE
  /\ UNCHANGED <<rows, hosts, req>> /\ OnlyRequest

\* create_role: refused if the version is there,
CheckCreate(v, doc) ==
  /\ Request /\ req.pc = "idle" /\ rows[v] = None
  /\ req' = [NoRequest EXCEPT !.pc = "create", !.version = v, !.doc = doc]
  /\ UNCHANGED <<tableVars, hosts, byHand>> /\ OnlyRequest

\* which it may be by now
Create ==
  /\ req.pc = "create" /\ req' = NoRequest
  /\ IF Valid(req.doc) THEN SaveRole(req.version, req.doc) /\ byHand' = TRUE
     ELSE UNCHANGED <<tableVars, byHand>>
  /\ UNCHANGED <<hosts, inputs>> /\ OnlyRequest

\* the two forms of PUT: with a version in the path, or without
RequestedVersions == Versions \union {None}

\* add_role, up to the lock
Add(h, v, custom) ==
  /\ Request /\ req.pc = "idle"
  /\ IF v = None THEN active # {} ELSE rows[v] # None
  /\ req' = [NoRequest EXCEPT !.pc = "settings", !.version = v, !.host = h, !.custom = custom]
  /\ UNCHANGED <<tableVars, hosts, byHand>> /\ OnlyRequest

StoreSettings ==
  /\ req.pc = "settings"
  /\ LET doc == rows[Wanted]
     IN IF req.custom \subseteq doc.settings
          THEN /\ hosts' = [hosts EXCEPT ![req.host].settings =
                              SettingsWith(@, doc, req.custom)]
               /\ req' = [req EXCEPT !.pc = "associate"]
          ELSE req' = NoRequest /\ UNCHANGED hosts
  /\ UNCHANGED <<tableVars, byHand, inputs>> /\ OnlyRequest

Associate ==
  /\ req.pc = "associate" /\ req' = NoRequest
  /\ hosts' = [hosts EXCEPT ![req.host].version = Wanted]
  /\ UNCHANGED <<tableVars, byHand, inputs>> /\ OnlyRequest

\* delete_role, up to the row: with the last role of a host its settings go, too
RemoveRole(h) ==
  /\ Request /\ req.pc = "idle" /\ hosts[h].version # None
  /\ \E left \in {hosts[h].settings, Unset} :
       hosts' = [hosts EXCEPT ![h] = [version |-> None, settings |-> left]]
  /\ UNCHANGED <<tableVars, byHand, req>> /\ OnlyRequest

Serve == Create \/ StoreSettings \/ Associate

-----------------------------------------------------------------------------
(* Consul, external. *)

OnlyConsul ==
  UNCHANGED <<tableVars, hosts, boot, watchVars, callVars, req, byHand, faults>>

PutConfig(v, doc) ==
  /\ Input /\ consul.docs[v] # doc
  /\ consul' = [consul EXCEPT !.docs[v] = doc]
  /\ updates' = Append(updates, <<v, doc>>) /\ OnlyConsul

PutParam(p) ==
  /\ Input /\ p \notin consul.params
  /\ consul' = [consul EXCEPT !.params = @ \union {p}]
  /\ updates' = Append(updates, p) /\ OnlyConsul

\* no callback is for this key
PutActive(v) ==
  /\ Input /\ consul.active # v
  /\ consul' = [consul EXCEPT !.active = v]
  /\ UNCHANGED updates /\ OnlyConsul

Next ==
  \/ \E v \in Versions : LoadFile(v) \/ MarkActive(v) \/ PutActive(v)
  \/ \E v \in Versions, doc \in Docs : CheckCreate(v, doc) \/ PutConfig(v, doc)
  \/ \E p \in Params : PutParam(p)
  \/ \E h \in Hosts : RemoveRole(h)
  \/ \E h \in Hosts, v \in RequestedVersions, custom \in SUBSET Settings : Add(h, v, custom)
  \/ Watch \/ Raise \/ Serve \/ Restart

Spec == Init /\ [][Next]_vars

\* The process starts, its threads run, and the watch calls back.
Fairness == WF_vars(\E v \in Versions : LoadFile(v)) /\ WF_vars(Watch) /\ WF_vars(Serve)

FairSpec == Spec /\ Fairness
-----------------------------------------------------------------------------
(* Properties. *)

\* Whoever saves and activates, a role that has versions has exactly one active
\* ("If there are other versions of the role that are marked as active, they are
\* changed to inactive"), also between the loads of a start; query_role's first()
\* and the map of permissions in setup_rabbit_credentials depend on it.
OneActive == (\E v \in Versions : rows[v] # None) => Cardinality(active) = 1

\* The version that the Consul thread remembers as active is the active one when
\* the thread rests, in whatever order the versions came and were tried again:
\* unless a request has activated another since, an update waits for a
\* parameter, or a call failed.
ActiveAsRecorded ==
  (watch.pc = "idle" /\ recorded # None /\ pending = {} /\ ~byHand /\ faults = 0)
    => active = {recorded[1]}

\* A version in the table that cannot be rendered, which ends the poll of all
\* hosts, lacks only parameters on their way from Consul, as after a restart, which
\* forgets the parameters and keeps the table; or parameters that a call lost when
\* it failed, and those only until the next restart.
OnTheWay == Range(updates) \cap Params
TableRenderable ==
  \A v \in Versions : rows[v] # None /\ ~Rendered(rows[v])
    => rows[v].needs \ params \subseteq OnTheWay \union lost

\* A host keeps the custom value of a setting through upgrades and repeated adds
\* ("the host will keep the value it had for that custom setting before the
\* call"), until its role is removed.
SettingsKept ==
  [][\A h \in Hosts, s \in Settings :
       hosts[h].settings[s] = "custom" /\ hosts'[h].version # None
         => hosts'[h].settings[s] = "custom"]_vars

\* A version that came to Consul before its parameters gets into the table when
\* they have come ("Queueing for later in case a new parameter shows up in
\* consul"): each version, in whatever order and calls versions and parameters
\* come, and also when earlier calls failed, as long as they took none of the
\* parameters with them.
Awaited(v) == \E doc \in Docs : <<v, doc>> \in pending /\ doc.needs \subseteq params \union OnTheWay
QueuedIsSaved ==
  \A v \in Versions : (Awaited(v) /\ faults = MaxFaults) ~> rows[v] # None
=============================================================================
