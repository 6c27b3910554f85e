------------------------------- MODULE AppHost -------------------------------
(***************************************************************************)
(* The host as the agent's app library sees it (src/bbone/pf9app/pf9app):  *)
(* the installed packages with their settings and services (pf9_app.py),   *)
(* the package manager (pf9_app_db.py) and the cache of downloaded         *)
(* packages (pf9_app_cache.py).  One operator per call, for its success;   *)
(* the module that uses it adds the ways in which the call fails.          *)
(*                                                                         *)
(* An app has one service, named like it: the "compatibility mode" of      *)
(* config scripts without --get-services.                                  *)
(***************************************************************************)
EXTENDS Naturals

CONSTANTS
  Apps,
  Releases, \* versions of apps
  Settings, \* values of an app's config
  Factory,  \* what a freshly installed package has
  Absent

ASSUME FactoryAssumption == Factory \in Settings

VARIABLES
  apps,  \* the host's apps: packages, settings and services
  tools, \* libcgroup-tools is there, or not needed (Debian, or release 9 and later)
  cache, \* package files in the cache directory under their final names
  agent  \* installed version of pf9-hostagent

hostVars == <<apps, tools, cache, agent>>

AppState == [version : Releases, settings : Settings, running : BOOLEAN]
AppConfigs == [Apps -> AppState \union {Absent}]
NoApps == [a \in Apps |-> Absent]
Agent == "pf9-hostagent"

HostTypeOK ==
  /\ apps \in AppConfigs
  /\ tools \in BOOLEAN
  /\ cache \subseteq (Apps \union {Agent}) \X Releases
  /\ agent \in Releases

\* A host without apps, or one on which the installer put some.
HostInit(installed) ==
  /\ apps \in installed
  /\ tools \in BOOLEAN
  /\ cache = {} /\ agent \in Releases

Installed(a) == apps[a] # Absent

-----------------------------------------------------------------------------
(* pf9_app_db.py: the package manager. *)

\* query_pf9_apps of YumPkgMgr: a failing rpm says that there are no apps
QueryFailed == NoApps

\* remove_package: the service and its settings go with the package
RemovePackage(a) == apps' = [apps EXCEPT ![a] = Absent] /\ UNCHANGED <<tools, cache, agent>>

\* install_from_file.  The agent may take an installed app for a new one; yum
\* then upgrades it, or finds nothing to do.
InstallFromFile(a, v) ==
  /\ IF Installed(a)
       THEN \/ UNCHANGED apps
            \/ apps' = [apps EXCEPT ![a].version = v]
       ELSE apps' = [apps EXCEPT ![a] =
                       [version |-> v, settings |-> Factory, running |-> FALSE]]
  /\ UNCHANGED <<tools, agent>>

\* install_dep
InstallDep == tools' = TRUE /\ UNCHANGED <<apps, cache, agent>>

\* update_from_file: the package manager may not take it for an update
UpdateFromFile(v) == agent' \in {agent, v}

-----------------------------------------------------------------------------
(* pf9_app.py: settings and services. *)

\* _set_run_state
SetRunState(a, run) ==
  apps' = [apps EXCEPT ![a].running = run] /\ UNCHANGED <<tools, cache, agent>>

\* get_config and get_service_states, compared with what is wanted
HasConfig(found, wanted)        == found.settings = wanted.settings
HasServiceStates(found, wanted) == found.running = wanted.running

\* set_config
SetSettings(a, value) ==
  apps' = [apps EXCEPT ![a].settings = value] /\ UNCHANGED <<tools, cache, agent>>

-----------------------------------------------------------------------------
(* pf9_app_cache.py and package_cleaner.py: the cache. *)

\* download: a file of the final name is taken; another is fetched under a
\* temporary name and renamed when it is complete
Download(pkg) == cache' = cache \union {pkg} /\ UNCHANGED <<apps, tools, agent>>

\* clean_packages, at the start of the process: of the apps in the file, only
\* the wanted version stays
Cleaned(files, wanted) ==
  {p \in files : p[1] \in Apps /\ wanted[p[1]] # Absent
                   => p[2] = wanted[p[1]].version}
=============================================================================
