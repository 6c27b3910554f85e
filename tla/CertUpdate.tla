----------------------------- MODULE CertUpdate -----------------------------
(***************************************************************************)
(* The renewal of a host's certificates (cert_update_thread.py, certs.py,  *)
(* util.py of the host agent): a thread of its own looks at the            *)
(* certificate once a day or when the controller asks for a renewal, gets  *)
(* a new key, certificate and CA through pf9-comms, replaces the files one *)
(* by one, restarts pf9-comms with them, and puts the old ones back when   *)
(* it does not come up.  The agent's main thread passes on what it reports *)
(* (send_status) and the controller's requests (update_cert).              *)
(*                                                                         *)
(* Each renewal is a generation: its key, its certificate and the CA that  *)
(* signed it.  A key and a certificate work together if they are of one.   *)
(***************************************************************************)
EXTENDS Naturals, Sequences, FiniteSets

CONSTANTS
  None,
  MaxInputs, \* bound: certificates near expiry, new CAs and requests, together
  MaxFaults  \* bound: calls that fail, and deaths of the agent

ASSUME CertUpdateAssumption ==
  /\ MaxInputs \in Nat /\ MaxFaults \in Nat
  /\ None \notin Nat

VARIABLES
  live,     \* the files key.pem, cert.pem and the CA's cert.pem: their generation
  old,      \* the numbered backups of each
  comms,    \* the files that pf9-comms was started with; Down if it does not run
  gen,      \* generations that vouch has signed
  due,      \* certificates that are near their expiry
  newCA,    \* vouch lists a CA that is not on the host
  pc,       \* where the thread is
  job,      \* its local variables
  q,        \* cert_info_q
  info,     \* cert_info: what the next status message will say
  event,    \* cert_update_event
  asked,    \* history: a request that no renewal has followed yet
  verified, \* history: the files with which pf9-comms was last seen to work
  told,     \* history: the last refresh status put on the queue
  inputs, faults

fileVars   == <<live, old>>
threadVars == <<pc, job, told>>
worldVars  == <<gen, due, newCA, comms, verified>>
vars == <<fileVars, worldVars, threadVars, q, info, event, asked, inputs, faults>>

Files == {"key", "cert", "ca"}
InOrder == <<"key", "cert", "ca">>
MaxGen == MaxInputs + MaxFaults
Gen == 0 .. MaxGen
Down == [f \in Files |-> None]

RefreshStatus == {"not-refreshed", "initiated", "successful", "failed-restored", "failed"}
Details == [type : {"cert_info"}, value : Gen \union {None}]   \* None: cannot be read
Refresh == [type : {"refresh"}, value : RefreshStatus]
NoMessage == [type |-> "none", value |-> None]   \* the None of a failed restoration

CertInfo(g)  == [type |-> "cert_info", value |-> g]
Update(s)    == [type |-> "refresh", value |-> s]

\* "start" to "exited": cert_update_thread; "sign" on: process_cert_update_request
PC == {"start", "query", "wait", "exited", "sign", "backup", "write", "cas",
       "restart", "unlink", "rename", "restartOld"}

NoJob == [forced |-> FALSE, cas |-> FALSE, needed |-> FALSE, cert |-> None,
          todo |-> <<>>, backups |-> Down]

TypeOK ==
  /\ live \in [Files -> Gen \union {None}]
  /\ old \in [Files -> SUBSET Gen]
  /\ comms \in [Files -> Gen \union {None}]
  /\ gen \in Gen /\ due \subseteq Gen /\ newCA \in BOOLEAN
  /\ pc \in PC
  /\ job \in [forced : BOOLEAN, cas : BOOLEAN, needed : BOOLEAN,
              cert : Gen \union {None}, todo : Seq(Files),
              backups : [Files -> Gen \union {None}]]
  /\ q \in Seq(Details \union Refresh \union {NoMessage})
  /\ info \in [details : Gen \union {None}, refresh : RefreshStatus]
  /\ event \in BOOLEAN /\ asked \in BOOLEAN
  /\ verified \in [Files -> Gen \union {None}] /\ told \in RefreshStatus
  /\ inputs \in 0 .. MaxInputs /\ faults \in 0 .. MaxFaults

NotQueried == [details |-> None, refresh |-> "not-refreshed"]

\* A host that the installer has set up and connected.
Init ==
  /\ live = [f \in Files |-> 0] /\ old = [f \in Files |-> {}]
  /\ comms = live /\ gen = 0 /\ due = {} /\ newCA = FALSE
  /\ pc = "start" /\ job = NoJob
  /\ q = <<>> /\ info = NotQueried /\ event = FALSE /\ asked = FALSE
  /\ verified = live /\ told = "not-refreshed"
  /\ inputs = 0 /\ faults = 0

Fault == faults < MaxFaults /\ faults' = faults + 1

\* pf9-comms reaches the controller with what it was started with
Works(files) == files["key"] # None /\ files["key"] = files["cert"] /\ files["ca"] # None

GoTo(label) == pc' = label

-----------------------------------------------------------------------------
(* cert_update_thread *)

OnlyThread == UNCHANGED <<info, asked, inputs>>

\* supports_v1, through pf9-comms
SupportsV1(ok) ==
  \/ ok = Works(comms) /\ UNCHANGED faults
  \/ Works(comms) /\ Fault /\ ok = FALSE

\* check_vouch_connection; vouch_present stays False once it was not seen.
CheckVouch ==
  /\ pc = "start" /\ OnlyThread
  /\ \E ok \in BOOLEAN : SupportsV1(ok) /\ GoTo(IF ok THEN "query" ELSE "exited")
  /\ UNCHANGED <<fileVars, worldVars, job, told, q, event>>

VouchPresent == pc \notin {"start", "exited"}

\* A renewal has begun, with the result of new_ca_cert_available: an HTTP error
\* counts as no new CA.
Begin(forced, needed, cas) ==
  /\ GoTo("sign")
  /\ job' = [NoJob EXCEPT !.forced = forced, !.needed = needed, !.cas = cas,
                          !.cert = live["cert"]]

CAsChecked(cas) ==
  \/ cas = newCA /\ Works(comms) /\ UNCHANGED faults
  \/ cas = FALSE /\ newCA /\ Fault

\* cert_refresh_needed
\* faulty: the comparison the other way round
RefreshedEarly(cert) == cert \notin due
RefreshNeeded(cert) == cert \in due

\* The loop: _get_cert_info, cert_refresh_needed, new_ca_cert_available.  A
\* certificate that cannot be read, or a vouch that cannot be reached, raises.
Query ==
  /\ pc = "query" /\ OnlyThread
  /\ LET cert == live["cert"]
     IN \/ /\ cert # None
           /\ \E cas \in BOOLEAN :
                /\ CAsChecked(cas)
                /\ IF RefreshNeeded(cert) \/ cas
                     THEN /\ Begin(FALSE, RefreshNeeded(cert), cas)
                          /\ q' = Append(q, Update("initiated")) /\ told' = "initiated"
                     ELSE /\ q' = Append(q, CertInfo(cert))
                          /\ GoTo("wait") /\ UNCHANGED <<job, told>>
        \/ /\ \/ cert = None /\ UNCHANGED faults
              \/ ~Works(comms) /\ UNCHANGED faults
              \/ Fault
           /\ GoTo("wait") /\ UNCHANGED <<job, told, q>>
  /\ UNCHANGED <<fileVars, worldVars, event>>

\* The wait ends after a day; the main thread has long emptied the queue.
Timeout ==
  /\ pc = "wait" /\ ~event /\ q = <<>> /\ GoTo("query")
  /\ UNCHANGED <<fileVars, worldVars, job, told, q, event, faults>> /\ OnlyThread

\* The event is cleared before the renewal, not after it.
\* faulty: the other way round
ClearLast(when)  == IF when = "after" THEN event' = FALSE ELSE UNCHANGED event
ClearEvent(when) == IF when = "before" THEN event' = FALSE ELSE UNCHANGED event

EndForced == IF job.forced THEN ClearEvent("after") ELSE UNCHANGED event

\* or with a request.  The event is cleared first: one that comes from now on is
\* served after this renewal.  If the list of CAs cannot be had, there is none.
Forced ==
  /\ pc = "wait" /\ event /\ ClearEvent("before") /\ OnlyThread
  /\ q' = Append(q, Update("initiated")) /\ told' = "initiated"
  /\ \/ \E cas \in BOOLEAN : CAsChecked(cas) /\ Begin(TRUE, FALSE, cas)
     \/ /\ \/ Fault
           \/ ~Works(comms) /\ UNCHANGED faults
        /\ GoTo("query") /\ UNCHANGED job
  /\ UNCHANGED <<fileVars, worldVars>>

\* Back in the loop with a result.  The details are read again only if the old
\* certificate was near its expiry.
Finish(msg) ==
  /\ LET cert == IF job.needed THEN live["cert"] ELSE job.cert
     IN q' = IF job.forced THEN Append(q, msg) ELSE q \o <<msg, CertInfo(cert)>>
  /\ told' = IF msg = NoMessage THEN told ELSE msg.value
  /\ GoTo(IF job.forced THEN "query" ELSE "wait")
  /\ job' = NoJob /\ EndForced

\* with an exception
Raise ==
  /\ Fault /\ GoTo(IF job.forced THEN "query" ELSE "wait") /\ job' = NoJob
  /\ EndForced /\ UNCHANGED <<told, q>>

-----------------------------------------------------------------------------
(* process_cert_update_request *)

\* generate_key_and_csr: a new key begins a new generation
NewKey == gen + 1

\* sign_csr, through pf9-comms
SignCsr(key) == Works(comms) /\ gen' = key

Sign ==
  /\ pc = "sign" /\ asked' = FALSE
  /\ \/ /\ SignCsr(NewKey) /\ GoTo("backup")
        /\ job' = [job EXCEPT !.todo = InOrder]
        /\ UNCHANGED <<q, told, event, faults>>
     \/ /\ \/ ~Works(comms) /\ UNCHANGED faults
           \/ Fault
        /\ Finish(Update("failed")) /\ UNCHANGED gen
  /\ UNCHANGED <<fileVars, due, newCA, comms, verified, info, inputs>>

Current == Head(job.todo)
HasBackup(f) == job.backups[f] # None

\* backup_and_save_certs: the file, if there is one, is renamed to the first
\* number that is free (the directory cannot be made, or the file not renamed),
\* faulty: to number 0
Overwrite(f) == {live[f]}
AddBackup(f) == old[f] \union {live[f]}

Backup ==
  /\ pc = "backup" /\ OnlyThread
  /\ \/ /\ IF live[Current] = None THEN UNCHANGED <<fileVars, job>>
           ELSE /\ live' = [live EXCEPT ![Current] = None]
                /\ old' = [old EXCEPT ![Current] = AddBackup(Current)]
                /\ job' = [job EXCEPT !.backups[Current] = live[Current]]
        /\ GoTo("write") /\ UNCHANGED <<told, q, event, faults>>
     \/ Raise /\ UNCHANGED fileVars
  /\ UNCHANGED worldVars

\* and the new one written
Write ==
  /\ pc = "write" /\ OnlyThread
  /\ \/ /\ live' = [live EXCEPT ![Current] = gen]
        /\ job' = [job EXCEPT !.todo = Tail(@)]
        /\ GoTo(IF Tail(job.todo) # <<>> THEN "backup"
                ELSE IF job.cas THEN "cas" ELSE "restart")
        /\ UNCHANGED <<told, q, event, faults>>
     \/ Raise /\ UNCHANGED live
  /\ UNCHANGED <<old, worldVars>>

\* get_all_ca, place_new_CAs: an HTTP error is logged, another exception raised
PlaceCAs ==
  /\ pc = "cas" /\ OnlyThread
  /\ \/ newCA' = FALSE /\ GoTo("restart") /\ UNCHANGED <<job, told, q, event, faults>>
     \/ Fault /\ GoTo("restart") /\ UNCHANGED <<newCA, job, told, q, event>>
     \/ Raise /\ UNCHANGED newCA
  /\ UNCHANGED <<fileVars, gen, due, comms, verified>>

\* faulty: the connection is not checked
Unchecked(ok) ==
  /\ ok = TRUE /\ UNCHANGED verified
  /\ \/ comms' = live /\ UNCHANGED faults
     \/ Fault /\ comms' \in {live, Down}

\* restart_comms_sidekick and check_connection: pf9-comms may not start, or not
\* reach the controller in time
Restarted(ok) ==
  \/ /\ comms' = live /\ ok = Works(live)
     /\ verified' = IF ok THEN live ELSE verified
     /\ UNCHANGED faults
  \/ /\ Fault /\ comms' \in {live, Down} /\ ok = FALSE /\ UNCHANGED verified

Restart ==
  /\ pc = "restart" /\ OnlyThread
  /\ \E ok \in BOOLEAN :
       /\ Restarted(ok)
       /\ IF ok THEN Finish(Update("successful"))
          ELSE /\ GoTo("unlink") /\ UNCHANGED <<told, q, event>>
               /\ job' = [job EXCEPT !.todo = InOrder]
  /\ UNCHANGED <<fileVars, gen, due, newCA>>

\* restore_backups: where there is a backup, the new file is deleted and the
\* backup renamed
Unlink ==
  /\ pc = "unlink" /\ OnlyThread
  /\ \/ /\ \/ job.todo = <<>> /\ GoTo("restartOld") /\ UNCHANGED <<live, job>>
           \/ /\ job.todo # <<>> /\ HasBackup(Current) /\ GoTo("rename")
              /\ live' = [live EXCEPT ![Current] = None] /\ UNCHANGED job
           \/ /\ job.todo # <<>> /\ ~HasBackup(Current)
              /\ job' = [job EXCEPT !.todo = Tail(@)] /\ UNCHANGED <<pc, live>>
        /\ UNCHANGED <<told, q, event, faults>>
     \/ job.todo # <<>> /\ HasBackup(Current) /\ Raise /\ UNCHANGED live
  /\ UNCHANGED <<old, worldVars>>

Rename ==
  /\ pc = "rename" /\ OnlyThread
  /\ \/ /\ live' = [live EXCEPT ![Current] = job.backups[Current]]
        /\ old' = [old EXCEPT ![Current] = @ \ {job.backups[Current]}]
        /\ job' = [job EXCEPT !.todo = Tail(@)]
        /\ GoTo("unlink") /\ UNCHANGED <<told, q, event, faults>>
     \/ Raise /\ UNCHANGED fileVars
  /\ UNCHANGED worldVars

\* "We are in a bad state": None is returned, and put on the queue
RestartOld ==
  /\ pc = "restartOld" /\ OnlyThread
  /\ \E ok \in BOOLEAN :
       /\ Restarted(ok)
       /\ Finish(IF ok THEN Update("failed-restored") ELSE NoMessage)
  /\ UNCHANGED <<fileVars, gen, due, newCA>>

Renewal == Sign \/ Backup \/ Write \/ PlaceCAs \/ Restart \/ Unlink \/ Rename \/ RestartOld

Thread == CheckVouch \/ Query \/ Forced \/ Renewal

-----------------------------------------------------------------------------
(* The main thread. *)

\* check_for_cert_data in send_status: one message at a time; a None is dropped
\* faulty: what is not cert_info is a refresh status
TakeAny(msg) ==
  IF msg.type = "cert_info" THEN [info EXCEPT !.details = msg.value]
  ELSE [info EXCEPT !.refresh = msg.value]
\* faulty: the details are taken once
TakeFirst(msg) ==
  CASE msg.type = "cert_info" /\ info.details = None -> [info EXCEPT !.details = msg.value]
    [] msg.type = "refresh" -> [info EXCEPT !.refresh = msg.value]
    [] OTHER -> info
Take(msg) ==
  CASE msg.type = "cert_info" -> [info EXCEPT !.details = msg.value]
    [] msg.type = "refresh"   -> [info EXCEPT !.refresh = msg.value]
    [] OTHER -> info

SendStatus ==
  /\ VouchPresent /\ q # <<>>
  /\ info' = Take(Head(q)) /\ q' = Tail(q)
  /\ UNCHANGED <<fileVars, worldVars, threadVars, event, asked, inputs, faults>>

Input == inputs < MaxInputs /\ inputs' = inputs + 1

\* update_cert: ignored when vouch was not there
UpdateCert ==
  /\ Input /\ VouchPresent
  /\ event' = TRUE /\ asked' = TRUE
  /\ UNCHANGED <<fileVars, worldVars, threadVars, q, info, faults>>

-----------------------------------------------------------------------------
(* The rest of the world. *)

GrowOld ==
  /\ Input /\ live["cert"] \in Gen \ due
  /\ due' = due \union {live["cert"]}
  /\ UNCHANGED <<fileVars, gen, newCA, comms, verified, threadVars, q, info, event, asked, faults>>

RotateCA ==
  /\ Input /\ ~newCA /\ newCA' = TRUE
  /\ UNCHANGED <<fileVars, gen, due, comms, verified, threadVars, q, info, event, asked, faults>>

\* The agent's heartbeats start a pf9-comms that does not run (AppConverge).
StartComms ==
  /\ comms = Down /\ pc \notin {"restart", "restartOld"} /\ live # Down
  /\ comms' = live
  /\ UNCHANGED <<fileVars, gen, due, newCA, verified, threadVars, q, info, event, asked, inputs, faults>>

\* The agent dies and is started again, alone or with the host.
Die ==
  /\ Fault /\ pc' = "start" /\ job' = NoJob /\ told' = "not-refreshed"
  /\ q' = <<>> /\ info' = NotQueried /\ event' = FALSE /\ asked' = FALSE
  /\ comms' \in {comms, live}
  /\ UNCHANGED <<fileVars, gen, due, newCA, verified, inputs>>

Next ==
  \/ Thread \/ Timeout \/ SendStatus \/ UpdateCert
  \/ GrowOld \/ RotateCA \/ StartComms \/ Die

Spec == Init /\ [][Next]_vars

\* Both threads run, the day of the wait passes, and heartbeats start pf9-comms.
Fairness ==
  WF_vars(Thread) /\ WF_vars(Timeout) /\ WF_vars(SendStatus) /\ WF_vars(StartComms)

FairSpec == Spec /\ Fairness
-----------------------------------------------------------------------------
(* Properties. *)

\* The key, certificate and CA with which the host last reached its controller
\* are never lost, wherever a renewal is cut short: they are in place or among
\* the numbered backups, which a renewal adds to and never overwrites.
OnDisk(f, g) == live[f] = g \/ g \in old[f]
LastGoodKept == \A f \in Files : OnDisk(f, verified[f])

\* After a renewal was reported successful, or failed with the old files restored,
\* pf9-comms runs with the files that are in place and reaches the controller;
\* a renewal that has since broken off has reported "initiated".
ReportedIsTrue ==
  pc \in {"query", "wait"} /\ told \in {"successful", "failed-restored"}
    => comms = live /\ Works(live)

\* Certificates are renewed for a reason: an expiry, a new CA and a request cause one
\* renewal each, and a failure one more.  A renewal that left its reason standing
\* would be followed by another, and fill the host with backups.
RenewedForAReason == gen <= inputs + faults

\* A request to renew the certificates that comes during a renewal is not lost:
\* it is served after it, if vouch can be asked then ("update the certs without
\* worrying about expiry date").
RequestServed ==
  (asked /\ event /\ faults = MaxFaults) ~> (~asked \/ ~Works(comms))

\* A renewal or a restoration that broke off between two files leaves files that do
\* not fit together, or a pf9-comms started with such files; nothing puts the files
\* right, at the next start neither.
HalfReplaced == ~Works(live) \/ (comms # Down /\ ~Works(comms))

\* Unless one did, a certificate near its expiry is replaced once nothing fails
\* any more, for as long as the thread runs (it gives up if it does not find vouch
\* when it starts),
Renewed ==
  \/ <>[]HalfReplaced
  \/ ((live["cert"] \in due) ~> (live["cert"] \in Gen \ due \/ pc = "exited"))

\* and what the host reports of its certificate comes to be what is in place,
\* also when it was replaced for a new CA alone and the details were not read
\* again.
DetailsCatchUp ==
  \/ <>[]HalfReplaced
  \/ []<>((live["cert"] # None /\ info.details = live["cert"]) \/ pc = "exited")
=============================================================================
