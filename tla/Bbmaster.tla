------------------------------ MODULE Bbmaster -------------------------------
(***************************************************************************)
(* bbmaster's record of one host (src/bbone/bbmaster/bbmaster/             *)
(* bbone_provider_pf9_pika.py and bbone_provider_memory.py): the host's    *)
(* last status message, kept in memory, and the set_config message that a  *)
(* new desired configuration causes.                                       *)
(***************************************************************************)
EXTENDS AppConfig, Sequences, Naturals

CONSTANTS
  MaxQueue,  \* bound: messages under way in each direction
  NoRecord   \* the host is not in the table

VARIABLES
  record,    \* self.hosts[id]
  toHost, toMaster

\* The placeholder of a host that has never reported has no apps.
Missing == [status |-> "missing", apps |-> NoConfig, desired |-> NoConfig]

Records ==
  {NoRecord, Missing}
    \union [status : {"ok", "converging", "retrying", "failed"}, apps : Config,
            desired : Config \union {NoConfig}]

TypeOK == record \in Records

Init == record = NoRecord

Known == record # NoRecord

\* _converge_host_if_necessary: the report does not name the configuration
MustSend(rec, cfg) ==
  \/ rec.status = "ok" /\ ~IsSatisfiedBy(cfg, rec.apps)
  \/ /\ rec.status # "ok" /\ rec.desired # NoConfig
     /\ ~IsSatisfiedBy(cfg, rec.desired)

\* set_host_apps
SetHostApps(cfg) ==
  LET rec == IF Known THEN record ELSE Missing IN
  /\ Len(toHost) < MaxQueue
  /\ record' = rec
  /\ toHost' = IF MustSend(rec, cfg) THEN Append(toHost, cfg) ELSE toHost
  /\ UNCHANGED toMaster

\* consume_msg: the report replaces the record, and causes no message
Consume ==
  /\ toMaster # <<>>
  /\ record' = Head(toMaster) /\ toMaster' = Tail(toMaster)
  /\ UNCHANGED toHost

\* The process or its connection dies: messages it has not published and reports
\* delivered to it are lost,
Disconnect ==
  /\ \E i \in 0 .. Len(toHost) : toHost' = SubSeq(toHost, 1, i)
  /\ \E i \in 0 .. Len(toMaster) : toMaster' = SubSeq(toMaster, i + 1, Len(toMaster))

\* and with the process the table.
Fault == Disconnect /\ record' \in {record, NoRecord}
=============================================================================
