# Verification of the resource manager, bbmaster and the host agent

TLA+ modules, TLC configurations and TLAPS proofs about the core of pf9-du: how
*roles* are assigned to *hosts*, and how the apps of a role get onto a host and
off it again. All paths below are relative to the repository's `src/`.

Contents: 1 inventory, 2 modules, 3 runs, 4 proofs, 5 what is left out,
6 plan.

## 1. The system

### 1.1 Components

| component | state | operations | talks to |
|---|---|---|---|
| **resmgr, role life cycle** (`resmgr/resmgr/resmgr_provider_pf9.py`, `role_states.py`, `dbutils.py`) | tables `hosts`, `host_role_map`, `roles`, `rabbit_credentials`, `role_settings`; in memory `_unauthorized_hosts`, `_last_config_push_time`, `_role_update_lock` | `add_role`, `delete_role`, `delete_host`, `get_all_hosts` (a thread pool), the poll of `BbonePoller` (one thread) | bbmaster by HTTP; handlers of roles (`on_auth`, ...); the broker's users |
| resmgr, service settings | rows of services, settings per host | `set_service_settings` | pushes to all hosts of a service |
| resmgr, role versions (`consul_roles.py`, `RolesMgr`, `dbutils.py`) | table `roles` and which version is active, the parameters in `_config`, `_active_roles`, `_pending_role_updates`, custom settings of hosts | the files at the start, the watch of Consul, `create_role`, `mark_role_version_active`, the settings part of `add_role` | Consul, database |
| resmgr, controllers, middleware, migrations, test provider | none of their own | | |
| **bbmaster** (`bbone/bbmaster/bbmaster`) | `hosts` (last status message of each), `desired_apps`, `host_agents`, `pending_msgs`, all in memory | `set_host_apps`, `consume_msg`, reconnection loop | broker (AMQP), resmgr |
| **host agent** (`bbone/bbslave/bbslave`) | installed apps, `desired_apps.json`, `converge_attempts`, the connection | `handle_msg` for `set_config`, `heartbeat`, `ping`, `set_agent`, `update_cert`, ...; `reconnect_loop` | broker, pf9app |
| certificate renewal (`cert_update_thread.py`, `certs.py`, `util.py`) | key, certificate, CA, their numbered backups, `cert_info_q`, `cert_info`, `cert_update_event` | renew, replace, restart, verify, restore, report | vouch, pf9-comms |
| bbcommon (`bbone/lib/bbcommon`) | the AMQP connection and channels | `io_loop`, `dual_channel_io_loop`, `is_satisfied_by` | broker |
| pf9app (`bbone/pf9app/pf9app`) and the package cleaner (`package_cleaner.py`) | packages, settings, services, the package cache | `process_apps`, `process_agent_update`, download, clean | package manager, config scripts, init system |
| notifier (`lib/notifier`) | a list of changes to publish, its thread's channel | `publish_notification`, the I/O thread | broker |
| configutils, pf9cert, rabbit (`lib/`) | none | | |
| janitor, du_ctl, packaging | | clean-up, command line, rpm | OpenStack |

### 1.2 How they interact

A request `PUT /hosts/<id>/roles/<role>` writes the association and moves it
`not-applied -> start-apply -> pre-auth` (the `on_auth` handler runs in
between). The poller finds `pre-auth`, *pushes* the host's configuration (the
apps of all its authorized roles) to bbmaster, and moves the role to
`auth-converging`. bbmaster sends `set_config` over AMQP if the host's last
report does not name that configuration. The agent stores it, changes the apps,
and reports `ok`, `retrying` or `failed`. The poller reads the report from
bbmaster, compares it with the configuration it expects, and moves the role to
`applied` (handler `on_auth_converged`) or `auth-error`; a host that does not
respond counts as converged. Deletion mirrors this
(`start-deauth -> pre-deauth -> deauth-converging -> deauth-converged`), removes
the association, and removes the host's row with the last one.

What is rendered into a configuration comes from the `roles` table: several
versions of a role, one of them active, with parameters from files and from
Consul, and settings per host. The agent reaches the broker through pf9-comms,
which is one of its apps and works with the certificates that the renewal
thread replaces. bbmaster, the notifier and the agent share the loops of
`bbcommon/amqp.py`.

### 1.3 What is hard, and what makes each component correct

The list, line by line, is `hazards` in `PROJECT.json`. In short:

- *Role life cycle.* API threads and the poller move the same rows; the lock
  covers requests and the advance loop but not the end of a convergence. The
  poll works on a snapshot. A crash may fall between a handler and the
  compare-and-set that records it. Correct: associations move only by the legal
  steps, each with its handler, in order; whoever is about to move a role owns
  it; no row of a host is lost while roles point to it; nothing stays in a
  transient state.
- *Host inventory.* The database and `_unauthorized_hosts` are read one after
  the other. Correct: a host that is gone is forgotten.
- *bbmaster.* Everything it knows is lost by a restart, and messages by a lost
  connection. Correct: the newest configuration reaches the host in the end,
  and is not sent for ever.
- *Host agent.* Persists what it should reach, retries a bounded number of
  times, and may be interrupted anywhere. Correct: it reaches what it was last
  told, or reports that it gave up on it.
- *All three.* Reports cross pushes; each party may restart. Correct: a role is
  decided by a report about its own configuration, and roles and host agree in
  the end.
- *Certificates.* Key, certificate and CA are replaced one by one, and the
  connection they are for is the one the renewal needs. Correct: what last
  worked is never lost; what is reported is so; no request is lost.
- *pf9app.* Apps are changed one after the other: an exception leaves a mixture,
  from which the next attempt has to succeed. Correct: nothing is touched that
  needed no change; an upgrade cut short can go on; pf9-comms comes back.
- *Role versions.* Four parties write one table, and what Consul sends comes in
  any order, before the parameters it needs. Correct: one active version at
  every moment, the right one in the end; nothing that cannot be rendered.
- *Messages.* Connections and channels close in the middle of a batch, or while a
  queue is being declared. Correct: nothing twice or out of order, every message
  finds its queue, what is on its way arrives.

## 2. The modules

| module | models | extends / instantiates |
|---|---|---|
| `RoleStates` | the states and legal transitions of `role_states.py` | |
| `RoleLifeCycle` | *abstract*: the life of one association and the handler that completed last | `RoleStates` |
| `RoleManager` | API threads, poller, lock, database rows, crash and restart | `RoleStates`; implements `RoleLifeCycle` |
| `MCRoleManager` | instances of it for TLC, with symmetry | `RoleManager` |
| `RoleManagerSteps`, `RoleManagerProofs` | lemmas per action, theorems | `RoleManager` |
| `AppConfig` | configurations and `is_satisfied_by` | |
| `HostAgent` | the session of the agent, its file and attempts, its death | `AppConfig` |
| `Bbmaster` | bbmaster's record of one host, and the messages it sends | `AppConfig` |
| `Convergence` | the poller's side of one host's convergence, composed with the two | instances of `HostAgent` and `Bbmaster` |
| `ConvergenceProofs` | its invariant and theorems | `Convergence` |
| `AppChange` | *abstract*: which apps a change may touch, and what it may leave of them | `AppConfig`; `HostAgent` is built on it with "anything", `AppConverge` implements it with what the code leaves |
| `AppHost` | packages, settings, services, package manager and cache of a host: an operator per call | |
| `AppConverge`, `MCAppConverge` | `handle_msg` around `process_apps`, command by command; `update_agent`; the package cleaner | `AppHost`; implements `AppChange` |
| `AppConvergeProofs` | its invariant and theorems, the refinement among them | `AppConverge` |
| `CertUpdate` | the renewal thread and what the main thread does with it | |
| `CertUpdateProofs` | its invariant and theorems | `CertUpdate` |
| `RoleCatalogue`, `MCRoleCatalogue` | the versions of a role, Consul, settings of hosts | |
| `RoleCatalogueProofs` | its invariant and theorems | `RoleCatalogue` |
| `Messaging` | bbmaster's I/O thread, the agent's two channels, the queues between them | |
| `Notifier` | the change notifier | |
| `MCMessaging` | both with one broker | `Messaging`, instance of `Notifier` |
| `MessagingProofs` | invariants and theorems of the three | `MCMessaging` |

Three layers meet in two places. `Convergence` composes manager, bbmaster and
agent; an attempt of the agent to change the apps is a change of `AppChange`.
There, an app that is as wanted is untouched, and another is left old, new or
`Halfway`, a constant that gives the specs at which a change may stop.
`HostAgent` takes any spec for it, so nothing that `process_apps` can leave of an
app it was to change is excluded. `AppConverge` implements `AppChange` with the
specs that the real sequence of commands leaves (`HalfDone`), where a spec is
version, settings and state of the service: all that `is_dict_subset` compares.
Between the two, `AppConverge` has more ways for apps to change while nothing is
being changed (`Drift`), and `HostAgent` any.
`RoleManager` advances roles by verdicts; `Convergence` has the reports they come
from.

### 2.1 RoleManager and the code

A step that another thread can observe is an action of its own; steps between
two of them are one action. The poller is a program counter (`ppc`), loop
variables (`phost`, `prole`, `ptodo`, `work`) and the snapshot (`snap`); each
API thread is a record (`call`).

| code | actions |
|---|---|
| `process_hosts` | `ReadSnapshot` (ids of bbmaster and the database), `Classify`, then per host `NewHost`, `AbsentUnauthorizedHost`, `AbsentHost`, `ExistingHost` |
| `_advance_from_transient_state` | `AdvanceRole` chooses a role of the snapshot; `PollerAuth`, `PushAuth`, `PollerDeauth`, `PushDeauth` and their failures; `AtConverged`, `AtDeconverged` for roles a crash left there; `AdvanceNothing`; `EndAdvance` |
| `_process_existing_hosts` | `FetchFails`, `FetchUnauthorized`, `ReportConverged`, `ReportFailed`, `ReportOther`, `ReportRaises`: the verdicts its code tells apart, whatever the report was |
| `_finish_role_converge`, `_fail_role_converge` | `FinishRole`, `FailRole`, `MoveToApplied`, `RemoveRole`, their failures, `CheckLastRole`, `DropHost`, `EndRoles`: without the lock |
| `add_role` | `AddRole`, `InsertHost`, `Associate`, `StartApply`, `CreateCredentials` (and how it fails), `UndoHost`, `AddRoleAuth` |
| `delete_role`, `delete_host` | `DeleteRole`, `DeleteHost`, `StartDeauth`, `DeleteRoleDeauth` |
| `move_new_state` (dbutils) | every action with a body: the event and the compare-and-set `Advance` |
| crash of the process | `Restart`: memory is lost, rows stay; it may have run a handler whose result is not recorded |

Choices a reader should know:

- An event and the compare-and-set after it are one step where nobody else can
  observe the state in between; `Restart` has the crash between them.
- The ids of bbmaster and the rows are read in one step; the unauthorized hosts
  in the next. A poll that cannot render a role's configuration ends where it
  began and starts again, so `ReadSnapshot` is simply not enabled then.
- `CreateCredentialsFails` is an exception of `create_user` or
  `set_permissions`; the handler that should undo the add then uses an unbound
  variable, so nothing is undone.
- `FetchUnauthorized` is a host that is authorized in the snapshot and not in
  memory, for which 1375 raises `KeyError`.
- A version of `None` is the active version. General database errors are not
  modelled.
- `add_role` stores settings and version (2003) before it finds that the state of
  the role refuses the request with `RoleUpdateConflict` ("Role cannot be updated
  in the current state"), and undoes neither: the next push has the refused
  version. `Associate` does the same; no property is about it.
- A host that `add_role` moves between the two reads of the poll is in neither, and
  `NewHost` makes it unauthorized beside its row. `GetAllHosts` repairs that, when
  somebody lists the hosts (run `duplicate`).
- `NoGhostHost` is stated for runs without a crash: a crash between
  `remove_role_from_host` and `delete_host` leaves a row nothing repairs.

### 2.2 Convergence, HostAgent, Bbmaster and the code

Everything is kept per host, so there is one host; a role is one app, and a
version stands for all `is_dict_subset` compares.

| code | actions |
|---|---|
| `handle_msg` up to `process_apps` | `HostAgent!Handle`: `SaveDesired`, then `React`; used by `FirstHeartbeat`, `Connect`, `Heartbeat` and `SetConfig` |
| `process_apps` and the end of `handle_msg` | `EndConverge`; apps that were as wanted are untouched, an exception may leave the others in any spec |
| `start`, its callbacks | `FirstHeartbeat` (without a connection), `Connect` (with one, and no channel to send on), `OpenChannel` |
| `save_desired_config`, `load_desired_config` when they fail | `SetConfigUnsaved`, `HeartbeatUnread` |
| `reconnect_loop`, death of the agent | `Restart`: the attempts start anew; messages delivered (`no_ack`) and reports not sent are lost |
| `set_host_apps`, `_converge_host_if_necessary` | `Bbmaster!SetHostApps`, `MustSend` |
| `consume_msg` | `Bbmaster!Consume` |
| restart of bbmaster or loss of its connection | `Bbmaster!Fault` |
| `process_hosts` for the host | `Snapshot`, `StartAdvance`, `AdvanceRole` (the pushes), `EndAdvance`, then one of `ProcessFailed`, `ProcessFinished`, `ProcessPush`, `ProcessWait`, `ProcessUnknown` |
| `received_since_last_push` | `received` and `pushKnown`: which of the report and the push came last, and whether the manager remembers one |
| requests | `AddRole`, `AddRefused`, `DeleteRole`: one step, while the poller does not hold the lock |

Choices a reader should know:

- The states of `RoleManager` that a role passes without its host are left out:
  handlers succeed here, and `RoleManager` has the rest.
- A push and the note of its time are one step. A report that arrives between
  the two counts as older than the push; the next heartbeat repeats it.
- The poller's decision on a report is one step: only the poller moves a role
  that waits for its host.
- There is no time. A host may count as silent (`Silent`) when it is not
  connected, or while it works on its apps, however old its report is by then,
  or when bbmaster has only the placeholder; otherwise its heartbeat keeps its
  report young. Heartbeats are far more frequent than the thresholds.
- A heartbeat that cannot read the installed apps is no heartbeat. If they
  cannot be read after `process_apps`, `EndConverge` sends nothing. The upload
  of a support bundle before the last attempt, and any other exception a
  handler lets through, end the session: `Restart`.
- An agent without a file, or with one that cannot be read, takes what is installed
  for desired, and stores it. A file that cannot be written is only logged: the
  agent works on a configuration that its next heartbeat does not know.
- A version of an app is one of those that roles ask for (`RoleVersions`) or
  another, as a half changed app is.
- An add that is refused has stored its version (`AddRefused`).
- Firmware apps, which bbmaster adds to each configuration, are left out.

### 2.3 AppConverge, AppHost, AppChange and the code

`process_apps` is a list of jobs (`todo`), an app with the commands for it each,
computed from what it found and what is wanted, as the code computes it; each
command is an action that succeeds, or fails and abandons the rest.

| code | definitions |
|---|---|
| `handle_msg` to the start of `process_apps` | `Handle` (with the probe), in `Heartbeat` and `SetConfig`; `Dropped` when reading raises |
| `process_apps` | `Plans`: apps to remove, the dependency, apps that stay by rank (`Upgrade`, `Keep`), new apps by rank (`New`) |
| where an exception leaves an app | `HalfDone`, through the refinement |
| its calls | `Stop`, `RemoveApp`, `Tools`, `Fetch`, `Install`, `Configure`, `Serve` on the operators of `AppHost` |
| `handle_msg` after it | `End` |
| `_handle_iaas_3166` | `ForceComms` |
| `update_agent`, `process_agent_update`, `reboot_agent` | `UpdateAgent` |
| `clean_packages` | `Cleaned`, in `StartProcess` |
| `reconnect_loop` | `Reconnect` (`start()` ends for want of a broker and is called again), `Restart` (the process) |

Choices a reader should know:

- The docstring of `process_apps` (`algorithms.py:38-39`) says that nothing is
  changed with `probe_only`; `install_dep` is called all the same (128). The
  probe in the model installs it.
- `query_pf9_apps` of yum takes a failing rpm for a host without apps
  (`QueryFailed`); the agent then installs over what is there, and yum upgrades
  or does nothing (`InstallFromFile`).
- A service that does not do as it is told is logged (`Service`): the next
  heartbeat finds it. So a package is removed whether its service stopped or not;
  the comment at `pf9_app.py:359-360` expects an exception there.
- apt and yum are one package manager, an app has one service named like it, and
  its settings are one of two values: the factory's or tuned.
- A package holds the version that its specification names. `algorithms.py:150-152`
  allows for a wrong URL; such an app would never be as wanted, and `Converges`
  would not hold of it.
- The file of the desired configuration is written here (`HostAgent` has its
  failures): with a failed write it names the old version, and an upgrade cut short
  would not be gone on with.
- An agent update that raises may have downloaded its package by then.

### 2.4 CertUpdate and the code

| code | actions |
|---|---|
| `cert_update_thread` | `CheckVouch`, `Query`, `Timeout` or `Forced`; `Finish`, `Raise` |
| `process_cert_update_request` | `Sign`, per file `Backup` and `Write`, `PlaceCAs`, `Restart`; after a failure per file `Unlink` and `Rename`, then `RestartOld` |
| `check_for_cert_data` in `send_status` | `SendStatus`, `Take` |
| `update_cert` in `handle_msg` | `UpdateCert` |
| heartbeats (`AppConverge`) | `StartComms` |

- A renewal is a number, its generation; a key works with a certificate if they
  are of one. The CA works with any of them, as long as it is there: a CA that
  was replaced still has signed what was signed before.
- `vouch_present` stays false once it was not seen: the thread ends (`exited`),
  and with it every renewal until the process starts again.
- A renewal that is cut short between two files leaves files that do not fit
  (`HalfReplaced`). No code puts them right, so `Renewed` and `DetailsCatchUp`
  exempt hosts that stay so for ever, and no others, and `LastGoodKept` says that nothing is lost: the installer, or an
  operator, has the backups.
- Each of `Backup`, `Write`, `Unlink` and `Rename` may raise, which ends the renewal
  where it is.
- A failed restoration puts `None` on the queue, which is dropped (`NoMessage`). The
  details that follow a result may be `None`, when the certificate is gone.
- A new certificate is not near its expiry; that it comes to be is an input
  (`GrowOld`). With a `cert_refresh_interval_days` longer than a certificate lives,
  each look at it would be such an input.

### 2.5 RoleCatalogue and the code

| code | actions |
|---|---|
| `setup_roles` | `LoadFile`, in any order (`glob`) |
| a call of the watch, `_callback` | `Deliver` (any number of Consul's changes), `Begin` for each, `Return` |
| `_on_config_change` | `ConfigUpdate`, `FetchActive`, `SaveUpdate`, `Readd`: three transactions of the database, with a request to Consul between |
| `_on_params_change` | `ParamUpdate`, and `Turn` to the updates that are tried again |
| an exception in any of them, `run_with_catch` | `Raise`: the call ends. Updates that were being tried again are lost; the updates of the call are all delivered again, or those not begun, and the one at work, are lost |
| `RolesMgr.create_role`, `mark_role_version_active` | `CheckCreate` and `Create` (the check is another transaction), `MarkActive` |
| `add_role`, `delete_role` as far as settings and version go | `Add`, `StoreSettings`, `Associate`, `RemoveRole` |
| process | `Restart` |

- A document is what is told apart of it: the parameters its templates name, and
  its customizable settings. A value of a setting is unset, the version's
  default, or custom.
- The watch (firkinize) is not in the repository: whether it delivers a call again
  that raised, and how many changes one call delivers, is left open. `lost` is the
  history of parameters that a failing call took with it; `TableRenderable` and
  `QueuedIsSaved` name what such a loss costs.
- A failure may come at any point of a call, before and after each transaction and
  each parameter: a value that cannot be decoded, the database, Consul.
- `resmgr/README.md:293-294` says that a setting that is not given gets its default.
  When the active version changes between `StoreSettings` and `Associate`, which are
  two transactions, the host has no value for a setting only the newer version has,
  and an empty string is pushed. The model does this, too; `SettingsKept` is about
  values that were given.
- No version is ever removed from the table, so a look-up before the lock stays
  true.

### 2.6 Messaging, Notifier and the code

| code | actions |
|---|---|
| `io_loop` of bbmaster | `Open`, `OpenChannel`, `Bound`, `SendPending`, `ChannelClosed`, `ConnectionClosed`, `SendFails` |
| `_send_msg` and its callbacks | `Request`, `Declared` |
| `consume_msg` for answers | `Consume` |
| `dual_channel_io_loop` and the agent's callbacks | `Connect`, `SendUp`, `RecvUp`, `SendDown`, `RecvDown`, `AgentFails` |
| `process_support_request`, `process_support_command` | `HandleMsg` |
| the notifier | `Notifier!PublishNotification`, `Start`, `SendPending`, `NoChannel`, and how it fails |
| RabbitMQ | the queues `hostQ`, `masterQ`; `BrokerDies` |

- Messages are consumed without acknowledgement: those a closed channel had
  under way are lost (`SuffixesOf`). What was published last is lost with the
  connection it was published on (`PrefixesOf`); which part of it the broker had by
  then is not known, so any tail of the queue may go.
- A change may fail to be published in the first batch of a connection, too.
- `on_channel_close` deletes the channel and nothing opens another while the
  connection lives. bbmaster is `silent` then, and the notifier's thread ends
  with `KeyError`, or is `silent` when no timer was set yet; `Answered` and `Notified` exempt these two states, and a
  reader of the code should know them.
- An agent without a send channel runs a support command and cannot answer.

### 2.7 "faulty" definitions

A definition marked `faulty` is not part of the model. It is the definition
below it with a mistake someone could make, and shows that the property it is
paired with notices:

| property | definition | mistake |
|---|---|---|
| `RoleManager!TypeOK` | `StartState` | a state the table does not have |
| `Owned` | `LockFree` | nobody waits for the lock |
| `NoOrphan` | `DeletableRow` | rows with associations are deleted too |
| `NoGhostHost` | `CheckLastRole` | the last role is judged by the poll's snapshot |
| `ImplementsLifeCycle` | `StartState` | an add after an error is taken for an edit |
| `TransientResolved` | `PollerAuth` | an interrupted edit is not resumed |
| `Convergence!TypeOK` | `HostAgent!Exhausted` | one attempt too many |
| `LeftoverIgnoredWhileUp` | `ReceivedSinceLastPush` | every report counts |
| `EventuallyConverged` | `IsSatisfiedBy` | only the names of apps are compared |
| `Quiet` | `HostAgent!SaveDesired` | the first configuration is never replaced |
| `AppConverge!TypeOK` | `Exhausted` | one attempt too many |
| `UpgradeNeedsNoNetwork` | `Upgrade` | the new package is downloaded after the old one went |
| `ImplementsAppChange` | `Keep` | an app that is as wanted is installed again |
| `ChangeEnds` | `Done` | it works on until the apps are as wanted |
| `Converges` | `Keep` | only versions are compared |
| `CommsComesBack` | `ForceComms` | pf9-comms is an app like any other |
| `CertUpdate!TypeOK` | `Take` | what is not `cert_info` is a status |
| `LastGoodKept` | `AddBackup` | backups are not numbered |
| `ReportedIsTrue` | `Restarted` | the connection is not checked |
| `RenewedForAReason` | `RefreshNeeded` | the comparison the other way round |
| `RequestServed` | `ClearEvent` | the event is cleared after the renewal |
| `Renewed` | `RefreshNeeded` | the comparison the other way round |
| `DetailsCatchUp` | `Take` | the details are taken once |
| `RoleCatalogue!TypeOK` | `Known` | a version Consul has counts as in the table |
| `OneActive` | `SaveRole` | the other versions stay active |
| `ActiveAsRecorded` | `Displaced` | only another document displaces |
| `TableRenderable` | `Valid` | nothing is rendered on trial |
| `SettingsKept` | `SettingsWith` | what the host has is dropped |
| `QueuedIsSaved` | `AllOf` | one update is tried again |
| `AllTypeOK` | `Messaging!Close` | callbacks of a closed channel still come |
| `InOrderOnce`, `NotifiedInOrder` | `Taken` | the batch is dropped after it was sent |
| `Routable` | `SendMsg` | the queue is not declared first |
| `Answered`, `Notified` | `TimerSet` | an exception ends the timer for good |

## 3. The runs

| run | checks | instance | distinct states |
|---|---|---|---|
| `roles` | `TypeOK`, `Owned`, `NoOrphan`, `NoGhostHost`, `ImplementsLifeCycle` | 1 host, 2 roles with credentials, 2 API threads, 3 requests, 1 crash, 1 restart of bbmaster | 591 k |
| `progress` | `TransientResolved` | 1 host, 2 roles, 1 API thread, 2 requests, 1 crash; fair | 74 k |
| `convergence` | `TypeOK`, `LeftoverIgnoredWhileUp`, `EventuallyConverged`, `Quiet` | 1 app in 2 versions, 2 attempts, 2 requests (refused ones among them), 1 restart of the manager, 1 other fault, 1 message each way; fair | 1 336 k |
| `apps` | `TypeOK`, `UpgradeNeedsNoNetwork`, `ImplementsAppChange`, `ChangeEnds`, `Converges`, `CommsComesBack` | 2 apps (one is pf9-comms) in 2 versions and 2 settings, 2 attempts, 3 messages, 2 faults; fair | 112 k |
| `certs` | `TypeOK`, `LastGoodKept`, `ReportedIsTrue`, `RenewedForAReason`, `RequestServed`, `Renewed`, `DetailsCatchUp` | 2 expiries, new CAs or requests, 2 faults; fair | 164 k |
| `catalogue` | `TypeOK`, `OneActive`, `ActiveAsRecorded`, `TableRenderable`, `SettingsKept`, `QueuedIsSaved` | 2 versions (one from a file) in 3 documents, 2 settings, 2 parameters, 1 host, 3 inputs, 1 fault; fair | 443 k |
| `messaging` | `AllTypeOK`, `InOrderOnce`, `Routable`, `NotifiedInOrder`, `Answered`, `Notified` | 2 requests, 2 changes, 2 faults; fair | 200 k |
| `wedge`, `duplicate`, `absent`, `removal`, `stuck` | one property each | the smallest instance that shows it | |

What the passing runs show:

- `roles`, `progress`: associations move by the promised steps only, whoever is
  about to move one finds it as it left it, and none stays in between.
- `convergence`: reports and pushes that cross, restarts of all three parties,
  adds that are refused, a file that fails, changes that leave anything of an app:
  in the end the host runs what its roles say, or has said that it gave up.
- `apps`: a change may stop at any command. It touches no app that is as wanted, in
  version, settings and service; one that stays at its version is never away or
  back at the factory's settings; one that comes, goes or changes its version is
  old, new, away, or installed and not set up. The change comes to its end, an
  upgrade cut short has its package in the cache, and as long as an
  attempt is left the next ones succeed. pf9-comms comes back even when none is
  left, because `_handle_iaas_3166` has stored that it runs and reconnecting
  counts attempts anew.
- `certs`: wherever a renewal stops, the files that last worked are on the host;
  `successful` and `failed-restored` are said only of a pf9-comms that works with
  the files in place; no certificate is signed that no expiry, new CA, request or
  failure asked for.
- `catalogue`: versions, parameters and the key that names the active version
  come from Consul in any order and in calls of any length, between requests and
  restarts. One version is active, and the right one; a version in the table that
  cannot be rendered waits for a parameter under way, or for one that a failing
  call lost, and the latter until the next restart; a version that was queued is
  saved once its parameters have come, unless a failing call took one of them.
- `messaging`: a batch is lost in the middle of a broken connection, never
  repeated; queues exist when they are written to; what is on its way arrives.

The last five are *violations*: the property states what the repository says of
itself, the code does something else, and TLC prints the behaviour.

- `wedge` (`TransientResolved` with roles that need credentials): if the
  credentials of a new role cannot be created, the handler that should undo the
  add raises, the role stays in `start-apply`, and no later poll gets past
  rendering it. (With `RabbitRoles = {}`, run `progress`, the property holds.)
- `duplicate` (`NothingToDelete`): a host that `add_role` moves between the two
  reads of a poll becomes unauthorized again, gets its role, and the role is
  applied; from then on a request to delete it does nothing and succeeds.
- `absent` (`AbsentForgotten`): an unauthorized host that bbmaster no longer
  lists is never removed, and each attempt ends the poll.
- `removal` (`RemovedFromHost`): DELETE after the poll has taken its snapshot
  and before it advances the host: the snapshot, with the role, is pushed, and
  the `ok` that satisfies it completes the deletion. The app stays.
- `stuck` (`EventuallyTried`): a push to a bbmaster that has just restarted is
  not sent; if the host then reports that it failed earlier, nobody compares
  its configuration again, while its role is `applied`.

A restart of the manager forgets when it pushed (`resmgr_provider_pf9.py:582-584`
then counts every report as received since), so `LeftoverIgnoredWhileUp` is
stated for runs without one, although the docstring (561-565) says of any leftover
report that it is ignored. After a restart an old `failed` can fail a role that was
pushed since; `EventuallyConverged`, which is checked with the restart, says what
may come of it at most: a failed role, and a host that runs what its roles say or
has given up.

### 3.1 Bounds

One host is enough: locks apart, nothing relates two hosts, and the lock is
contended by threads of one host as well. Two roles are needed for deletion of
one while the other is added, and for "the last role". Three requests allow
add, delete and add again across two threads. Each crash is independent of the
others, so one at any place shows what it does to everything after it; in
`convergence` the restart of the manager and another fault combine. Two
attempts make the first and the last one differ. One message each way still
lets a push cross a report, and the lossy faults empty either queue.
`convergence` has one app (one role): what two roles of a host do to each other is checked
in `roles`, where reports may say anything.
Two versions of an app are enough for a half changed one: it is a spec that is
neither the old nor the wanted one when the other of the two, or none, is left of it.
In `convergence` every version may be asked for, also by an add that is refused
(`RoleVersions`, `RefusedVersions`), and the file may fail (`DiskFails`); the runs
for `removal` and `stuck` need less and have less.

In `apps` two apps give an order by rank, one that goes while one comes, and one
that stays; two faults are a command that fails and a death while the failure
is made good. In `certs` two inputs make a request or an expiry during the
renewal for another, and two faults a failure during the restoration after
another; the number of generations is at most the sum. In `catalogue` a
version may need one parameter or both: three inputs are a version that is queued,
tried and queued again with two parameters to come, two versions that wait for the
same one, or a version, its parameter and the key that names the active one or a
request; a call delivers up to all of them, and the fault ends it anywhere. In `messaging` two requests make an order, and two faults a close while
the first is made good.

`CHECK_DEADLOCK FALSE` stands where the bounds end all behaviour (requests,
inputs and faults used up, a full queue), in `certs` also where the thread has
ended, and in `messaging` where the bounds on messages leave nothing to send.
`apps` has a heartbeat in every state.

### 3.2 Fairness

- The poller and each accepted request are threads that run (`WF` of
  `PollStep`, `CallStep`). A push tried at every poll succeeds at some point
  (`SF` of `PushAuth`, `PushDeauth`): bbmaster is a local HTTP service, and
  without it no role of any host can move.
- In `Convergence`, bbmaster's consumer and the agent's loop run: `WF` of
  `Consume`, `FirstHeartbeat`, `Connect` (`reconnect_loop` retries for ever),
  `OpenChannel` (`retry_timeout`), `Heartbeat` (a timer), `EndConverge` (`process_apps` returns). `SF` of
  `SetConfig`: the broker delivers in order from a queue of its own, but in the
  model a heartbeat can fill the one place of `toMaster` before every
  `SetConfig`, which the real, unbounded queue does not allow to matter.
- In `AppConverge`, the agent's one thread goes on with its commands and comes to
  their end (`WF` of `Command \/ End`), its timer beats, and it reconnects.
- In `CertUpdate`, both threads run, the day of the wait passes (`Timeout`), and
  a heartbeat starts a pf9-comms that does not run (`StartComms`, which
  `CommsComesBack` shows of `AppConverge`).
- In `RoleCatalogue`, the process starts (`LoadFile`), and the watch and accepted
  requests run (`Watch`, `Serve`).
- In `Messaging` and `Notifier`, connections are tried again after their delay
  (`_io_thread`, `reconnect_loop`, `retry_timeout`), the broker answers, timers
  fire and consumers consume.
- No fairness for requests, faults, crashes or drift. Liveness "once nothing
  fails any more" is stated from the state in which the bound on faults is used
  up, so it covers every state that the faults can leave.

## 4. The proofs

TLAPS proves, for every value of the constants and every bound, under the
assumption each module states (special values are distinct, bounds are natural
numbers; for the catalogue also that versions and parameters are finitely many;
for the apps of a host that they are finitely many and that what is on it and
what it is told to run are configurations, `AppConvergeAssumption`):

| theorem | says |
|---|---|
| `LifeCycleEventOrder`, `LifeCycleLegalSteps` (`RoleLifeCycle`) | in the abstract life cycle handlers complete in order, and associations move along the table of `role_states.py` |
| `Invariant` (`RoleManagerProofs`) | `Spec => []IInv` |
| `TypeCorrect`, `Ownership`, `NoOrphans`, `NoGhosts` | the four invariants of run `roles` |
| `Implementation` | `RoleManager` implements `RoleLifeCycle` (the states map to themselves) |
| `EventsInOrder` | so handlers complete in order in the detailed model |
| `Invariant`, `LastGoodIsKept`, `ReportsAreTrue` (`CertUpdateProofs`) | two safety properties of run `certs`, for any number of renewals, failures and deaths |
| `RenewalsCaused`, `RenewalsHaveReasons`, `TypeCorrect` | the third, that renewals have reasons, and with it the types, bounds included |
| `CatalogueTypes`, `OneVersionActive`, `RecordedVersionActive`, `Renderable`, `CustomSettingsKept` (`RoleCatalogueProofs`) | the four invariants and the action property of run `catalogue` |
| `MessagingInvariant`, `RequestsInOrderOnce`, `MessagesRoutable` (`MessagingProofs`) | the invariants `InOrderOnce` and `Routable` of `Messaging`, for any number of requests and failures |
| `TogetherInvariant`, `TogetherTypes`, `ChangesInOrderOnce`, `TogetherInOrder` | the four invariants of run `messaging`: bbmaster, agent and notifier with the failures they share |
| `Invariant`, `TypeCorrect`, `UpgradesNeedNoNetwork` (`AppConvergeProofs`) | the two invariants of run `apps`, for any apps, ranks, configurations and failures |
| `Implementation` | `AppConverge` implements the safety of `AppChange`, over specs with version, settings and service |
| `Invariant`, `TypeCorrect`, `LeftoversIgnored` (`ConvergenceProofs`) | the invariant and the action property of run `convergence`, for any apps and bounds |

*Role manager.* `Owned` is the heart: the code closes each step with a
compare-and-set whose failure it only logs, so the claim is that it never
fails. It is not inductive alone. `LockDiscipline` says who holds the lock at
which program counter, hence that at most one thread is in a locked section;
the poller works without it only on rows in `ConvergePath` (waiting or
converged states), which requests refuse (`StartState` and `StartDeauth`
accept resting states). `Shape` ties program counters to loop variables, and
`FreshEvents` says that no handler has run for a row whose add may still be
undone, which is what `LifeCycle!EventOrder` and the refinement of the undo
need. `IInv` is the conjunction of these and the properties. `OwnStep`,
`OwnedStep`, `OrphanStep`, `GhostStep` and `LockStep` each carry one part over
a step; `PollWrites` and `CallWrites` summarise what poller and requests do to
rows; `RoleManagerSteps` has one lemma per action for the rest.
`Implementation` maps each action to a step of one association or a stutter,
using `Owned` for the program counters that remember a state.

*Certificates.* Files are deleted at one place, `Unlink`, so `LastGoodKept` needs
that what is deleted is not what last worked. `Replaced` says how far the
replacement has come (which files are of the newest generation, at each program
counter, by what is left of the list of files), and `Fresh` that the newest
generation has not been verified while files are replaced or restored. `Signed`
makes a new generation differ from all on the disk, and `Announced` that a
renewal that broke off has said `initiated`, which `ReportedIsTrue` needs.

*Catalogue.* `Writes` says what any step does to the table: nothing, save and
activate a version that can be rendered, or activate one that is there; so one
version is active (`Single`). For `TableRenderable`, `Parameters` says that each
of Consul's parameters is known, among the updates still to be delivered, or lost
by a call that failed, that no other parameters are known, and that rows need no
others. An update counts as still to be delivered until its call has returned, so a
parameter that is being worked on is covered; a failing call moves those of its
updates that are not delivered again to `lost`. A restart
establishes it anew, since the watch begins with a sequence of everything
(`AllDelivered`, by the cardinality of an injection). `ActiveAsRecorded` is
inductive with `Control`: the thread rests only after a save of the version it
remembers, or with an update queued.

*Messaging.* A request moves from `declaring` to `pending`, to the host's queue and
to `carriedOut`. `InOrderOnce` is not inductive alone: `Order` says that each of
these is in the order of the requests and that what is further on the way is older
(`Inc`, `Newer`, `Before`), so that moving the first of one to the end of the next
keeps it, and losing some from either keeps it too (`LessOrder`). `Routable` needs
`Queued`: what is pending has its queue as long as the broker lives. The lemmas on
parts, heads and concatenations of sequences come first (`PartFacts`,
`FirstFacts`, `JoinFacts`).

`NotifierOrder` says of the notifier that what was published and what waits are each
in order, and the former earlier: whichever part of a batch is sent, and whichever of
the rest is lost, keeps it (`BatchFacts`, `LostBatch`). In the composition a step of
one side leaves the other as it is but for the count of faults, or is the broker's
death, which closes the connections of both (`MCStep`).

*Apps.* The commands that are left (`todo`) are what `Plans` computed from the apps
that were found, and the apps have changed since: what has to be invariant is that
they still fit. `Fit` says what is true of an app for which a given tail of commands
is left: it is there when it is stopped, removed, configured or served; it is removed
for another version only with the new package in the cache; nothing is said of it when
it is about to be installed, since a failing rpm hides apps that are there. `Apart`
says that no two jobs are for one app, and `Mixed` that each app is as it was before, as it is
wanted, or, if these differ, half done, in version, settings and service: what
`AppChange` promises. A command that changes a part of an app keeps `Mixed` because
half-done specs are all the combinations of the parts (`PartChanged`); that it may
take an app away, or set it back to the factory's settings, needs that the app is one
that comes, goes or changes its version (`Loose`), which is where `Plans` has such
commands. The tails
of commands are finitely many, each with a name, so no induction over data is needed;
the lists of jobs that `Plans` joins have lemmas of their own. In the refinement
`installed` is `before` while a change goes on: commands stutter, and the end, or a
death, is the one step of the abstract change, which `Mixed` justifies.

*Convergence.* `LeftoverIgnoredWhileUp` rests on `PushNoted`: while the manager has not
been restarted, a role that waits for its host has been pushed and the time of the
push is known: a push moves roles to the waiting states only with its note
(`_last_config_push_time`).
The types carry the agent's and bbmaster's side, with the bounds of the two queues.

*Renewals.* `RenewedForAReason` is inductive with a balance, `Caused`: renewals so far
and reasons for one that still stand (the event, a renewal about to be signed, a new
CA, a certificate near its expiry in place or in the backups) are at most inputs and
failures. A renewal counts for its reason from the decision on, before the reason is
gone (`Served`, `NewCAWaits`); when it breaks off, the reason stands again, and the
failure pays for it. That a restart with the new files fails only by a fault is
`Replaced`; that a certificate is not near its expiry when it is written is `Younger`.

Only model-checked: liveness (`TransientResolved`, `EventuallyConverged`, `Quiet`,
`ChangeEnds`, `Converges`, `CommsComesBack`, `RequestServed`, `Renewed`,
`DetailsCatchUp`, `QueuedIsSaved`, `Answered`, `Notified`: fairness is out of this
prover's reach). Every safety property that a passing run checks has its theorem; the
five violations are counterexamples of TLC.

## 5. What is not modelled

- Service settings (`set_service_settings`): two requests store their values and
  push them to the hosts one after the other without a lock, so that the scripts
  of two of them may run in another order than the values were stored
  (`resmgr_provider_pf9.py:2114`). Planned.
- The `role_status` cache, metrics, notifications of the role manager, users of
  the broker: written by the modelled operations, read by none of their
  decisions.
- Of the agent: the retry of a support bundle (`_pending_support_bundle` is a
  local of `start`, lost with the session), extension data, the opcode `exit`.
  Of bbmaster: firmware apps and uploads, its REST controllers.
- The installer that puts the first certificates on a host (`host-certs`), and
  vouch itself, which signs what it is asked to.
- Virtual hosts of the broker: made at set-up, and by tests.
- Time: timeouts appear as what may happen when they pass.
- Controllers, middleware, migrations, test providers, janitor, tools and
  packaging: no protocol of their own (each is in `components`, with its reason).

## 6. Plan

Done, in this order: `RoleStates`, `RoleLifeCycle`, `RoleManager` with its
proofs; `AppConfig`, `HostAgent`, `Bbmaster`, `Convergence`; `AppChange`,
`AppHost`, `AppConverge`; `CertUpdate` with its proofs; `RoleCatalogue` with its
proofs; `Messaging`, `Notifier`; then the proofs of `AppConverge` (with its
refinement), of `Convergence`, of the notifier beside `Messaging`, and of the number
of renewals.

Next, most important first:

1. Service settings, with the race of two requests.
2. Two apps in `Convergence`; an abstract contract of the agent ("reaches the
   last configuration or gives up on it") that `HostAgent` implements.
3. `is_dict_subset` and `dict_subst` as recursive functions against reference
   definitions.
