------------------------------ MODULE AppConfig ------------------------------
(***************************************************************************)
(* App configurations, as the resource manager, bbmaster and the host      *)
(* agent exchange them: for each app, what is to be installed, or Absent.  *)
(* A version stands for all that is_dict_subset compares of an app's spec: *)
(* its version, its settings and the states of its services.  The keys     *)
(* that is_satisfied_by drops (url, du_config, pkginfo, rank) are left    *)
(* out.                                                                    *)
(***************************************************************************)
CONSTANTS
  Apps, Versions,
  Absent,   \* the app is not in the configuration
  NoConfig  \* None

ASSUME AppConfigAssumption == Absent \notin Versions

Config == [Apps -> Versions \union {Absent}]
NoApps == [a \in Apps |-> Absent]

ASSUME NoConfigAssumption == NoConfig \notin Config

\* is_satisfied_by: None is satisfied by anything
\* faulty: the names are enough
SameApps(wanted, current) ==
  wanted = NoConfig \/ \A a \in Apps : (wanted[a] = Absent) <=> (current[a] = Absent)
IsSatisfiedBy(wanted, current) == wanted = NoConfig \/ wanted = current
=============================================================================
