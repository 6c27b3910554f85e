--------------------------- MODULE CertUpdateProofs ---------------------------
(***************************************************************************)
(* The files a renewal replaces are never lost (LastGoodKept), and what is *)
(* reported of it is so (ReportedIsTrue), for any number of renewals,      *)
(* failures and deaths of the agent; and there are no more renewals than   *)
(* reasons for one (RenewedForAReason).                                    *)
(*                                                                         *)
(* A file is deleted in one place, Unlink.  It may be, because the file is *)
(* of the generation that was signed last, and that one has never been     *)
(* seen to work: Fresh and Replaced below say so.                          *)
(***************************************************************************)
EXTENDS CertUpdate, TLAPS

OrNone(S) == S \union {None}

\* The files still to be saved, or to be restored, are a suffix of InOrder.
Suffixes == {InOrder, <<"cert", "ca">>, <<"ca">>, <<>>}
Job == [forced : BOOLEAN, cas : BOOLEAN, needed : BOOLEAN, cert : OrNone(Nat),
        todo : Suffixes, backups : [Files -> OrNone(Nat)]]

\* TypeOK without its bounds
Types ==
  /\ live \in [Files -> OrNone(Nat)] /\ old \in [Files -> SUBSET Nat]
  /\ gen \in Nat /\ verified \in [Files -> Nat]
  /\ pc \in PC /\ job \in Job
  /\ told \in RefreshStatus

\* No file is of a generation that is yet to be signed.
Signed ==
  \A f \in Files :
    /\ verified[f] <= gen
    /\ live[f] # None => live[f] <= gen
    /\ job.backups[f] # None => job.backups[f] <= gen

\* While files are replaced or restored the newest generation is not verified.
Fresh ==
  pc \in {"backup", "write", "cas", "restart", "unlink", "rename"}
    => \A f \in Files : verified[f] < gen

In(f, s) == \E i \in DOMAIN s : s[i] = f
InTodo(f) == In(f, job.todo)

\* Which files are of the newest generation: those that were saved, those that are
\* still to be restored; the file at hand is away.
Replaced ==
  /\ pc \in {"backup", "write", "rename"} => job.todo # <<>>
  /\ pc \in {"write", "rename"} => live[Current] = None
  /\ pc \in {"backup", "write"} => \A f \in Files : ~InTodo(f) => live[f] = gen
  /\ pc \in {"cas", "restart"} => \A f \in Files : live[f] = gen
  /\ pc \in {"unlink", "rename"} =>
       \A f \in Files : InTodo(f) /\ ~(pc = "rename" /\ f = Current) => live[f] = gen
  /\ pc = "rename" => HasBackup(Current)

\* A renewal under way has said so; a thread that starts has said nothing.
Announced ==
  /\ pc \in {"sign", "backup", "write", "cas", "restart", "unlink", "rename", "restartOld"}
       => told = "initiated"
  /\ pc = "start" => told = "not-refreshed"

IInv == Types /\ Signed /\ Fresh /\ Replaced /\ Announced /\ LastGoodKept /\ ReportedIsTrue
-----------------------------------------------------------------------------
(* Suffixes of InOrder. *)

\* What is left of a list of files: its first one is not among the others.
LEMMA SuffixFacts ==
  /\ \A f \in Files : In(f, InOrder) /\ ~In(f, <<>>)
  /\ InOrder \in Suffixes /\ <<>> \in Suffixes /\ InOrder # <<>>
  /\ \A s \in Suffixes : s # <<>> =>
       /\ Head(s) \in Files /\ Tail(s) \in Suffixes
       /\ ~In(Head(s), Tail(s))
       /\ \A f \in Files : In(f, s) <=> (f = Head(s) \/ In(f, Tail(s)))
<1>1. \A f \in Files : In(f, InOrder) /\ ~In(f, <<>>)
  BY DEF In, InOrder, Files
<1>2. InOrder \in Suffixes /\ <<>> \in Suffixes /\ InOrder # <<>>
  BY DEF Suffixes, InOrder
<1>3. ASSUME NEW s \in Suffixes, s # <<>>
      PROVE  /\ Head(s) \in Files /\ Tail(s) \in Suffixes
             /\ ~In(Head(s), Tail(s))
             /\ \A f \in Files : In(f, s) <=> (f = Head(s) \/ In(f, Tail(s)))
  <2>1. CASE s = InOrder
    <3>1. Head(s) = "key" /\ Tail(s) = <<"cert", "ca">>
      BY <2>1 DEF InOrder
    <3> QED
      BY <2>1, <3>1 DEF In, InOrder, Files, Suffixes
  <2>2. CASE s = <<"cert", "ca">>
    <3>1. Head(s) = "cert" /\ Tail(s) = <<"ca">>
      BY <2>2
    <3> QED
      BY <2>2, <3>1 DEF In, Files, Suffixes
  <2>3. CASE s = <<"ca">>
    <3>1. Head(s) = "ca" /\ Tail(s) = <<>>
      BY <2>3
    <3> QED
      BY <2>3, <3>1 DEF In, Files, Suffixes
  <2> QED
    BY <1>3, <2>1, <2>2, <2>3 DEF Suffixes
<1> QED
  BY <1>1, <1>2, <1>3

-----------------------------------------------------------------------------
(* One lemma per action: it keeps IInv. *)

LEMMA InitHolds == Init => IInv
<1> SUFFICES ASSUME Init PROVE IInv
  OBVIOUS
<1>1. Types
  BY CertUpdateAssumption, SuffixFacts
     DEF Init, Types, OrNone, Files, PC, Job, NoJob, Down, RefreshStatus
<1>2. Signed /\ Fresh /\ Replaced /\ Announced
  BY CertUpdateAssumption DEF Init, Signed, Fresh, Replaced, Announced, NoJob, Down, Files
<1>3. LastGoodKept /\ ReportedIsTrue
  BY DEF Init, LastGoodKept, OnDisk, ReportedIsTrue
<1> QED
  BY <1>1, <1>2, <1>3 DEF IInv

\* What the steps that change no file leave alone: they stay where they are, or
\* go to a place at which no file is being replaced.
LEMMA Elsewhere ==
  ASSUME IInv, UNCHANGED <<fileVars, gen, verified>>,
         job' \in Job, job'.backups \in {job.backups, Down},
         pc' \in PC, told' \in RefreshStatus,
         \/ UNCHANGED <<pc, job>>
         \/ pc' \in {"start", "query", "wait", "exited", "sign", "restartOld"},
         Announced', ReportedIsTrue'
  PROVE  IInv'
<1>1. Types'
  BY DEF IInv, Types, fileVars
<1>2. Signed' /\ Fresh'
  BY DEF IInv, Signed, Fresh, fileVars, Down
<1>3. Replaced'
  BY DEF IInv, Replaced, InTodo, In, Current, HasBackup, fileVars
<1>4. LastGoodKept'
  BY DEF IInv, LastGoodKept, OnDisk, fileVars
<1> QED
  BY <1>1, <1>2, <1>3, <1>4 DEF IInv

LEMMA NoJobFacts == NoJob \in Job /\ NoJob.backups = Down
BY SuffixFacts DEF NoJob, Job, OrNone, Down

\* How a renewal ends.
LEMMA FinishFacts ==
  ASSUME IInv, NEW msg, Finish(msg)
  PROVE  /\ job' = NoJob /\ pc' \in {"query", "wait"}
         /\ told' = IF msg = NoMessage THEN told ELSE msg.value
BY DEF Finish, GoTo

LEMMA RaiseFacts ==
  ASSUME IInv, Raise
  PROVE  job' = NoJob /\ pc' \in {"query", "wait"} /\ told' = told
BY DEF Raise, GoTo

\* The messages of a renewal.
LEMMA Messages ==
  /\ \A st \in RefreshStatus : Update(st) # NoMessage /\ Update(st).value = st
  /\ {"initiated", "failed", "successful", "failed-restored", "not-refreshed"}
       \subseteq RefreshStatus
BY DEF Update, NoMessage, RefreshStatus

LEMMA CheckVouchStep == ASSUME IInv, CheckVouch PROVE IInv'
<1>1. pc' \in {"query", "exited"} /\ UNCHANGED <<fileVars, worldVars, job, told>>
      /\ told = "not-refreshed"
  BY DEF CheckVouch, GoTo, IInv, Announced
<1>2. Announced' /\ ReportedIsTrue'
  BY <1>1 DEF Announced, ReportedIsTrue
<1> QED
  BY <1>1, <1>2, Elsewhere DEF IInv, Types, worldVars, PC

\* A renewal that begins says so.
LEMMA BeginFacts ==
  ASSUME IInv, NEW forced \in BOOLEAN, NEW needed \in BOOLEAN, NEW cas \in BOOLEAN,
         Begin(forced, needed, cas)
  PROVE  pc' = "sign" /\ job' \in Job /\ job'.backups = Down
<1>1. live["cert"] \in OrNone(Nat)
  BY DEF IInv, Types, Files
<1> QED
  BY <1>1, NoJobFacts DEF Begin, GoTo, Job, NoJob

LEMMA QueryStep == ASSUME IInv, Query PROVE IInv'
<1>1. UNCHANGED <<fileVars, worldVars>> /\ pc = "query"
  BY DEF Query
<1>2. CASE pc' = "wait" /\ UNCHANGED <<job, told>>
  <2>1. Announced' /\ ReportedIsTrue'
    BY <1>1, <1>2 DEF IInv, Announced, ReportedIsTrue, worldVars, fileVars, Works
  <2> QED
    BY <1>1, <1>2, <2>1, Elsewhere DEF IInv, Types, worldVars, PC
<1>3. CASE told' = "initiated" /\ \E cas \in BOOLEAN :
             Begin(FALSE, RefreshNeeded(live["cert"]), cas)
  <2>0. RefreshNeeded(live["cert"]) \in BOOLEAN
    BY DEF RefreshNeeded
  <2>1. pc' = "sign" /\ job' \in Job /\ job'.backups = Down
    BY <1>3, <2>0, BeginFacts
  <2>2. Announced' /\ ReportedIsTrue'
    BY <1>3, <2>1 DEF Announced, ReportedIsTrue
  <2> QED
    BY <1>1, <1>3, <2>1, <2>2, Elsewhere, Messages DEF worldVars, PC
<1> QED
  BY <1>2, <1>3 DEF Query, GoTo

LEMMA ForcedStep == ASSUME IInv, Forced PROVE IInv'
<1>1. UNCHANGED <<fileVars, worldVars>> /\ told' = "initiated"
  BY DEF Forced
<1>2. CASE pc' = "query" /\ UNCHANGED job
  <2>1. Announced' /\ ReportedIsTrue'
    BY <1>1, <1>2 DEF Announced, ReportedIsTrue
  <2> QED
    BY <1>1, <1>2, <2>1, Elsewhere, Messages DEF IInv, Types, worldVars, PC
<1>3. CASE \E cas \in BOOLEAN : Begin(TRUE, FALSE, cas)
  <2>1. pc' = "sign" /\ job' \in Job /\ job'.backups = Down
    BY <1>3, BeginFacts
  <2>2. Announced' /\ ReportedIsTrue'
    BY <1>1, <2>1 DEF Announced, ReportedIsTrue
  <2> QED
    BY <1>1, <2>1, <2>2, Elsewhere, Messages DEF worldVars, PC
<1> QED
  BY <1>2, <1>3 DEF Forced, GoTo

\* The steps of the main thread, of time and of the world.
LEMMA OutsideStep ==
  ASSUME IInv, Timeout \/ SendStatus \/ UpdateCert \/ GrowOld \/ RotateCA
  PROVE  IInv'
<1>1. UNCHANGED <<fileVars, gen, comms, verified, job, told>>
      /\ (pc' = pc \/ (pc = "wait" /\ pc' = "query"))
  BY DEF Timeout, SendStatus, UpdateCert, GrowOld, RotateCA, GoTo, worldVars, threadVars
<1>2. Announced' /\ ReportedIsTrue'
  BY <1>1 DEF IInv, Announced, ReportedIsTrue, fileVars, Works
<1> QED
  BY <1>1, <1>2, Elsewhere DEF IInv, Types, PC

\* A pf9-comms that does not run is not one that was reported to work.
LEMMA StartCommsStep == ASSUME IInv, StartComms PROVE IInv'
<1>1. UNCHANGED <<fileVars, gen, verified, job, told, pc>> /\ comms = Down /\ live # Down
  BY DEF StartComms, threadVars
<1>2. Announced' /\ ReportedIsTrue'
  BY <1>1 DEF IInv, Announced, ReportedIsTrue, fileVars
<1> QED
  BY <1>1, <1>2, Elsewhere DEF IInv, Types

LEMMA DieStep == ASSUME IInv, Die PROVE IInv'
<1>1. /\ UNCHANGED <<fileVars, gen, verified>> /\ job' = NoJob
      /\ pc' = "start" /\ told' = "not-refreshed"
  BY DEF Die
<1>2. Announced' /\ ReportedIsTrue'
  BY <1>1 DEF Announced, ReportedIsTrue
<1> QED
  BY <1>1, <1>2, Elsewhere, NoJobFacts, Messages DEF PC

-----------------------------------------------------------------------------
(* The steps of a renewal. *)

\* A step that ends a renewal in which no file was changed by this step.
LEMMA Ended ==
  ASSUME IInv, UNCHANGED <<fileVars, gen, verified>>, job' = NoJob,
         pc' \in {"query", "wait"}, told' \in RefreshStatus,
         told' \in {"successful", "failed-restored"} => comms' = live' /\ Works(live')
  PROVE  IInv'
<1>1. Announced' /\ ReportedIsTrue'
  BY DEF Announced, ReportedIsTrue
<1> QED
  BY <1>1, Elsewhere, NoJobFacts DEF PC

\* The new generation is one that no file has, and that was never verified.
LEMMA SignStep == ASSUME IInv, Sign PROVE IInv'
<1>1. pc = "sign" /\ UNCHANGED <<fileVars, comms, verified>> /\ told = "initiated"
  BY DEF Sign, IInv, Announced
<1>2. CASE Finish(Update("failed")) /\ UNCHANGED gen
  BY <1>1, <1>2, FinishFacts, Messages, Ended
<1>3. CASE /\ gen' = gen + 1 /\ pc' = "backup" /\ told' = told
           /\ job' = [job EXCEPT !.todo = InOrder]
  <2>1. job' \in Job /\ job'.todo = InOrder /\ job'.backups = job.backups
    BY <1>3, SuffixFacts DEF IInv, Types, Job
  <2>2. Types'
    BY <1>1, <1>3, <2>1 DEF IInv, Types, fileVars, PC
  <2>3. Signed' /\ Fresh'
    <3>1. live' = live /\ verified' = verified /\ gen' = gen + 1
          /\ job'.backups = job.backups
      BY <1>1, <1>3, <2>1 DEF fileVars
    <3>2. gen \in Nat /\ \A f \in Files : verified[f] \in Nat /\ verified[f] <= gen
      BY DEF IInv, Types, Signed
    <3>3. \A g \in OrNone(Nat) : (g # None => g <= gen) => (g # None => g <= gen + 1)
      BY <3>2 DEF OrNone
    <3>4. ASSUME NEW f \in Files
          PROVE  /\ verified[f] <= gen + 1
                 /\ live[f] # None => live[f] <= gen + 1
                 /\ job.backups[f] # None => job.backups[f] <= gen + 1
      <4>1. live[f] \in OrNone(Nat) /\ job.backups[f] \in OrNone(Nat)
        BY DEF IInv, Types, Job
      <4>2. verified[f] <= gen + 1
        BY <3>2
      <4>3. live[f] # None => live[f] <= gen
        BY DEF IInv, Signed
      <4>4. job.backups[f] # None => job.backups[f] <= gen
        BY DEF IInv, Signed
      <4> QED
        BY <3>3, <4>1, <4>2, <4>3, <4>4
    <3>5. Signed'
      BY <3>1, <3>4, Zenon DEF Signed
    <3>6. Fresh'
      BY <3>1, <3>2 DEF Fresh
    <3> QED
      BY <3>5, <3>6
  <2>4. Replaced'
    BY <1>3, <2>1, SuffixFacts DEF Replaced, InTodo
  <2>5. Announced' /\ ReportedIsTrue' /\ LastGoodKept'
    BY <1>1, <1>3 DEF IInv, Announced, ReportedIsTrue, LastGoodKept, OnDisk, fileVars
  <2> QED
    BY <2>2, <2>3, <2>4, <2>5 DEF IInv
<1> QED
  BY <1>1, <1>2, <1>3 DEF Sign, SignCsr, NewKey, GoTo

\* The file at hand is one of the files, and comes once.
LEMMA CurrentFacts ==
  ASSUME IInv, job.todo # <<>>
  PROVE  /\ Current \in Files /\ Tail(job.todo) \in Suffixes
         /\ InTodo(Current) /\ ~In(Current, Tail(job.todo))
         /\ \A f \in Files : InTodo(f) <=> (f = Current \/ In(f, Tail(job.todo)))
BY SuffixFacts DEF IInv, Types, Job, Current, InTodo

LEMMA BackupStep == ASSUME IInv, Backup PROVE IInv'
<1> DEFINE Failed == Raise /\ UNCHANGED fileVars
<1>f. CASE Failed
  <2>1. pc = "backup" /\ told = "initiated" /\ UNCHANGED <<fileVars, gen, comms, verified>>
    BY <1>f DEF Backup, IInv, Announced, worldVars, fileVars
  <2> QED
    BY <1>f, <2>1, RaiseFacts, Messages, Ended
<1> SUFFICES ASSUME ~Failed PROVE IInv'
  BY <1>f
<1>1. pc = "backup" /\ pc' = "write" /\ UNCHANGED <<gen, verified, told>>
  BY DEF Backup, GoTo, worldVars
<1>2. job.todo # <<>> /\ told = "initiated"
  BY <1>1 DEF IInv, Replaced, Announced
<1>3. Current \in Files /\ InTodo(Current)
  BY <1>2, CurrentFacts
<1>4. Announced' /\ ReportedIsTrue'
  BY <1>1, <1>2 DEF Announced, ReportedIsTrue
<1>5. CASE live[Current] = None /\ UNCHANGED <<fileVars, job>>
  <2>1. Types' /\ Signed' /\ Fresh' /\ LastGoodKept'
    BY <1>1, <1>5 DEF IInv, Types, Signed, Fresh, LastGoodKept, OnDisk, fileVars, PC
  <2>2. Replaced'
    BY <1>1, <1>5 DEF IInv, Replaced, InTodo, Current, fileVars
  <2> QED
    BY <1>4, <2>1, <2>2 DEF IInv
<1>6. CASE /\ live[Current] # None
           /\ live' = [live EXCEPT ![Current] = None]
           /\ old' = [old EXCEPT ![Current] = AddBackup(Current)]
           /\ job' = [job EXCEPT !.backups[Current] = live[Current]]
  <2>1. /\ job' \in Job /\ job'.todo = job.todo
        /\ \A f \in Files :
             job'.backups[f] = IF f = Current THEN live[Current] ELSE job.backups[f]
    BY <1>3, <1>6 DEF IInv, Types, Job
  <2>2. Current' = Current /\ \A f \in Files : InTodo(f)' <=> InTodo(f)
    BY <2>1 DEF Current, InTodo
  <2>3. Types'
    BY <1>1, <1>3, <1>6, <2>1 DEF IInv, Types, PC, AddBackup, OrNone
  <2>4. Signed' /\ Fresh'
    BY <1>1, <1>3, <1>6, <2>1 DEF IInv, Types, Signed, Fresh
  <2>5. Replaced'
    BY <1>1, <1>2, <1>3, <1>6, <2>1, <2>2 DEF IInv, Types, Replaced
  <2>6. LastGoodKept'
    BY <1>1, <1>3, <1>6 DEF IInv, Types, LastGoodKept, OnDisk, AddBackup
  <2> QED
    BY <1>4, <2>3, <2>4, <2>5, <2>6 DEF IInv
<1> QED
  BY <1>5, <1>6 DEF Backup

\* The file that is written was away; that it is away lost nothing.
LEMMA WriteStep == ASSUME IInv, Write PROVE IInv'
<1>1. pc = "write" /\ UNCHANGED <<old, gen, comms, verified>>
  BY DEF Write, worldVars
<1>2. job.todo # <<>> /\ told = "initiated" /\ live[Current] = None
  BY <1>1 DEF IInv, Replaced, Announced
<1>3. CASE Raise /\ UNCHANGED live
  BY <1>1, <1>2, <1>3, RaiseFacts, Messages, Ended DEF fileVars
<1>4. CASE /\ live' = [live EXCEPT ![Current] = gen] /\ told' = told
           /\ job' = [job EXCEPT !.todo = Tail(job.todo)]
           /\ pc' = IF Tail(job.todo) # <<>> THEN "backup"
                    ELSE IF job.cas THEN "cas" ELSE "restart"
  <2>1. /\ Current \in Files /\ Tail(job.todo) \in Suffixes
        /\ \A f \in Files : InTodo(f) <=> (f = Current \/ In(f, Tail(job.todo)))
    BY <1>2, CurrentFacts
  <2>2. job' \in Job /\ job'.todo = Tail(job.todo) /\ job'.backups = job.backups
    BY <1>4, <2>1 DEF IInv, Types, Job
  <2>3. Types'
    BY <1>1, <1>4, <2>1, <2>2 DEF IInv, Types, PC, OrNone
  <2>4. Signed' /\ Fresh'
    BY <1>1, <1>4, <2>1, <2>2 DEF IInv, Types, Signed, Fresh
  <2>5. \A f \in Files : live'[f] = IF f = Current THEN gen ELSE live[f]
    BY <1>4, <2>1 DEF IInv, Types
  <2>6. \A f \in Files : ~In(f, Tail(job.todo)) => live'[f] = gen
    BY <1>1, <2>1, <2>5 DEF IInv, Replaced
  <2>7. Replaced'
    <3>1. CASE Tail(job.todo) # <<>>
      <4>1. pc' = "backup" /\ \A f \in Files : InTodo(f)' <=> In(f, Tail(job.todo))
        BY <1>4, <2>2, <3>1 DEF InTodo
      <4> QED
        BY <1>1, <2>2, <2>6, <3>1, <4>1 DEF Replaced
    <3>2. CASE Tail(job.todo) = <<>>
      <4>1. pc' \in {"cas", "restart"}
        BY <1>4, <3>2
      <4>2. \A f \in Files : ~In(f, Tail(job.todo))
        BY <3>2, SuffixFacts
      <4>3. \A f \in Files : live'[f] = gen
        BY <2>6, <4>2
      <4> QED
        BY <1>1, <4>1, <4>3 DEF Replaced
    <3> QED
      BY <3>1, <3>2
  <2>8. LastGoodKept'
    <3>1. \A f \in Files : verified[f] # None
      BY CertUpdateAssumption DEF IInv, Types
    <3> QED
      BY <1>1, <1>2, <2>5, <3>1 DEF IInv, LastGoodKept, OnDisk
  <2>9. Announced' /\ ReportedIsTrue'
    BY <1>2, <1>4 DEF Announced, ReportedIsTrue
  <2> QED
    BY <2>3, <2>4, <2>7, <2>8, <2>9 DEF IInv
<1> QED
  BY <1>3, <1>4 DEF Write, GoTo

\* A step within a renewal after which the same files are of the newest generation.
LEMMA PlaceCAsStep == ASSUME IInv, PlaceCAs PROVE IInv'
<1>1. pc = "cas" /\ told = "initiated" /\ UNCHANGED <<fileVars, gen, comms, verified>>
  BY DEF PlaceCAs, IInv, Announced
<1>2. CASE Raise
  BY <1>1, <1>2, RaiseFacts, Messages, Ended
<1>3. CASE pc' = "restart" /\ UNCHANGED <<job, told>>
  <2>1. Types' /\ Signed' /\ Fresh' /\ LastGoodKept'
    BY <1>1, <1>3 DEF IInv, Types, Signed, Fresh, LastGoodKept, OnDisk, fileVars, PC
  <2>2. Replaced' /\ Announced' /\ ReportedIsTrue'
    BY <1>1, <1>3 DEF IInv, Replaced, Announced, ReportedIsTrue, fileVars
  <2> QED
    BY <2>1, <2>2 DEF IInv
<1> QED
  BY <1>2, <1>3 DEF PlaceCAs, GoTo

\* The files with which pf9-comms works are there.
LEMMA WorksFacts ==
  ASSUME IInv, Works(live)
  PROVE  live \in [Files -> Nat] /\ \A f \in Files : live[f] <= gen
<1>1. \A f \in Files : live[f] # None
  BY DEF Works, Files
<1> QED
  BY <1>1 DEF IInv, Types, OrNone, Signed

\* The files were verified as they are.
LEMMA Verified ==
  ASSUME IInv, UNCHANGED <<fileVars, gen>>, Works(live), comms' = live, verified' = live,
         job' = NoJob, pc' \in {"query", "wait"}, told' \in RefreshStatus
  PROVE  IInv'
<1>1. live \in [Files -> Nat] /\ \A f \in Files : live[f] <= gen
  BY WorksFacts
<1>2. Types'
  BY <1>1, NoJobFacts DEF IInv, Types, fileVars, PC
<1>3. Signed' /\ Fresh' /\ Replaced'
  BY <1>1, NoJobFacts DEF IInv, Signed, Fresh, Replaced, fileVars, Down
<1>4. LastGoodKept' /\ Announced' /\ ReportedIsTrue'
  BY DEF LastGoodKept, OnDisk, Announced, ReportedIsTrue, fileVars, Works
<1> QED
  BY <1>2, <1>3, <1>4 DEF IInv

\* restart_comms_sidekick with the answer True: the files are verified.
LEMMA RestartedFacts ==
  ASSUME IInv, NEW ok \in BOOLEAN, Restarted(ok)
  PROVE  /\ ok => comms' = live /\ verified' = live /\ Works(live)
         /\ ~ok => verified' = verified
BY DEF Restarted

LEMMA RestartStep == ASSUME IInv, Restart PROVE IInv'
<1>1. pc = "restart" /\ told = "initiated" /\ UNCHANGED <<fileVars, gen>>
  BY DEF Restart, IInv, Announced
<1>2. CASE Restarted(TRUE) /\ Finish(Update("successful"))
  <2>1. comms' = live /\ verified' = live /\ Works(live)
    BY <1>2, RestartedFacts
  <2>2. job' = NoJob /\ pc' \in {"query", "wait"} /\ told' = "successful"
    BY <1>2, FinishFacts, Messages
  <2> QED
    BY <1>1, <2>1, <2>2, Messages, Verified
<1>3. CASE /\ Restarted(FALSE) /\ pc' = "unlink" /\ told' = told
           /\ job' = [job EXCEPT !.todo = InOrder]
  <2>1. job' \in Job /\ job'.todo = InOrder /\ job'.backups = job.backups
    BY <1>3, SuffixFacts DEF IInv, Types, Job
  <2>2. verified' = verified
    BY <1>3, RestartedFacts
  <2>3. Types' /\ Signed' /\ Fresh' /\ LastGoodKept'
    BY <1>1, <1>3, <2>1, <2>2 DEF IInv, Types, Signed, Fresh, LastGoodKept, OnDisk, fileVars, PC
  <2>4. Replaced' /\ Announced' /\ ReportedIsTrue'
    BY <1>1, <1>3, <2>1 DEF IInv, Replaced, Announced, ReportedIsTrue, fileVars
  <2> QED
    BY <2>3, <2>4 DEF IInv
<1> QED
  BY <1>2, <1>3 DEF Restart, GoTo

\* What is deleted is of the newest generation, which was never verified.
LEMMA UnlinkStep == ASSUME IInv, Unlink PROVE IInv'
<1> DEFINE Failed == Raise /\ UNCHANGED live
<1>f. CASE Failed
  <2>1. pc = "unlink" /\ told = "initiated" /\ UNCHANGED <<fileVars, gen, comms, verified>>
    BY <1>f DEF Unlink, IInv, Announced, worldVars, fileVars
  <2> QED
    BY <1>f, <2>1, RaiseFacts, Messages, Ended
<1> SUFFICES ASSUME ~Failed PROVE IInv'
  BY <1>f
<1>1. pc = "unlink" /\ told' = told /\ told = "initiated" /\ UNCHANGED <<old, gen, comms, verified>>
  BY DEF Unlink, IInv, Announced, worldVars
<1>2. CASE pc' = "restartOld" /\ UNCHANGED <<live, job>>
  <2>1. Announced' /\ ReportedIsTrue'
    BY <1>1, <1>2 DEF Announced, ReportedIsTrue
  <2> QED
    BY <1>1, <1>2, <2>1, Elsewhere DEF IInv, Types, fileVars, PC
<1>3. CASE /\ job.todo # <<>> /\ HasBackup(Current) /\ pc' = "rename"
           /\ live' = [live EXCEPT ![Current] = None] /\ UNCHANGED job
  <2>1. Current \in Files /\ InTodo(Current)
    BY <1>3, CurrentFacts
  <2>2. live[Current] = gen /\ verified[Current] < gen
    BY <1>1, <2>1 DEF IInv, Replaced, Fresh
  <2>3. Types'
    BY <1>1, <1>3, <2>1 DEF IInv, Types, PC, OrNone
  <2>4. Signed' /\ Fresh'
    BY <1>1, <1>3, <2>1 DEF IInv, Types, Signed, Fresh
  <2>5. Replaced'
    BY <1>1, <1>3, <2>1 DEF IInv, Types, Replaced, InTodo, Current, HasBackup
  <2>6. LastGoodKept'
    BY <1>1, <1>3, <2>1, <2>2 DEF IInv, Types, LastGoodKept, OnDisk
  <2>7. Announced' /\ ReportedIsTrue'
    BY <1>1, <1>3 DEF Announced, ReportedIsTrue
  <2> QED
    BY <2>3, <2>4, <2>5, <2>6, <2>7 DEF IInv
<1>4. CASE /\ job.todo # <<>> /\ UNCHANGED <<pc, live>>
           /\ job' = [job EXCEPT !.todo = Tail(job.todo)]
  <2>1. /\ Tail(job.todo) \in Suffixes
        /\ \A f \in Files : In(f, Tail(job.todo)) => InTodo(f)
    BY <1>4, CurrentFacts
  <2>2. job' \in Job /\ job'.todo = Tail(job.todo) /\ job'.backups = job.backups
    BY <1>4, <2>1 DEF IInv, Types, Job
  <2>3. Types' /\ Signed' /\ Fresh' /\ LastGoodKept'
    BY <1>1, <1>4, <2>2 DEF IInv, Types, Signed, Fresh, LastGoodKept, OnDisk
  <2>4. Replaced' /\ Announced' /\ ReportedIsTrue'
    BY <1>1, <1>4, <2>1, <2>2 DEF IInv, Replaced, Announced, ReportedIsTrue, InTodo
  <2> QED
    BY <2>3, <2>4 DEF IInv
<1> QED
  BY <1>2, <1>3, <1>4 DEF Unlink, GoTo

\* What is renamed from the backups is in place.
LEMMA RenameStep == ASSUME IInv, Rename PROVE IInv'
<1> DEFINE Failed == Raise /\ UNCHANGED fileVars
<1>f. CASE Failed
  <2>1. pc = "rename" /\ told = "initiated" /\ UNCHANGED <<fileVars, gen, comms, verified>>
    BY <1>f DEF Rename, IInv, Announced, worldVars, fileVars
  <2> QED
    BY <1>f, <2>1, RaiseFacts, Messages, Ended
<1> SUFFICES ASSUME ~Failed PROVE IInv'
  BY <1>f
<1>1. /\ pc = "rename" /\ pc' = "unlink" /\ told' = told /\ told = "initiated"
      /\ UNCHANGED <<gen, comms, verified>>
  BY DEF Rename, GoTo, IInv, Announced, worldVars
<1>2. job.todo # <<>> /\ live[Current] = None /\ HasBackup(Current)
  BY <1>1 DEF IInv, Replaced
<1>3. /\ Current \in Files /\ Tail(job.todo) \in Suffixes
      /\ \A f \in Files : In(f, Tail(job.todo)) => InTodo(f) /\ f # Current
  BY <1>2, CurrentFacts
<1>4. job' \in Job /\ job'.todo = Tail(job.todo) /\ job'.backups = job.backups
  BY <1>3 DEF Rename, IInv, Types, Job
<1>5. job.backups[Current] \in Nat /\ job.backups[Current] <= gen
  BY <1>2, <1>3 DEF IInv, Types, Job, OrNone, HasBackup, Signed
<1>6. /\ live' = [live EXCEPT ![Current] = job.backups[Current]]
      /\ old' = [old EXCEPT ![Current] = old[Current] \ {job.backups[Current]}]
  BY DEF Rename
<1>7. Types'
  BY <1>1, <1>3, <1>4, <1>5, <1>6 DEF IInv, Types, PC, OrNone
<1>8. Signed' /\ Fresh'
  BY <1>1, <1>3, <1>4, <1>5, <1>6 DEF IInv, Types, Signed, Fresh
<1>9. Replaced'
  <2>1. \A f \in Files : InTodo(f)' <=> In(f, Tail(job.todo))
    BY <1>4 DEF InTodo
  <2>2. \A f \in Files : In(f, Tail(job.todo)) => live'[f] = gen
    BY <1>1, <1>3, <1>6 DEF IInv, Types, Replaced
  <2> QED
    BY <1>1, <2>1, <2>2 DEF Replaced
<1>10. LastGoodKept'
  <2>1. verified[Current] # None
    BY <1>3, CertUpdateAssumption DEF IInv, Types
  <2> QED
    BY <1>1, <1>2, <1>3, <1>6, <2>1 DEF IInv, Types, LastGoodKept, OnDisk
<1>11. Announced' /\ ReportedIsTrue'
  BY <1>1 DEF Announced, ReportedIsTrue
<1> QED
  BY <1>7, <1>8, <1>9, <1>10, <1>11 DEF IInv

LEMMA RestartOldStep == ASSUME IInv, RestartOld PROVE IInv'
<1>1. pc = "restartOld" /\ told = "initiated" /\ UNCHANGED <<fileVars, gen>>
  BY DEF RestartOld, IInv, Announced
<1>2. CASE Restarted(TRUE) /\ Finish(Update("failed-restored"))
  <2>1. comms' = live /\ verified' = live /\ Works(live)
    BY <1>2, RestartedFacts
  <2>2. job' = NoJob /\ pc' \in {"query", "wait"} /\ told' = "failed-restored"
    BY <1>2, FinishFacts, Messages
  <2> QED
    BY <1>1, <2>1, <2>2, Messages, Verified
<1>3. CASE Restarted(FALSE) /\ Finish(NoMessage)
  <2>1. job' = NoJob /\ pc' \in {"query", "wait"} /\ told' = told
    BY <1>3, FinishFacts
  <2>2. verified' = verified
    BY <1>3, RestartedFacts
  <2> QED
    BY <1>1, <2>1, <2>2, Messages, Ended
<1> QED
  BY <1>2, <1>3 DEF RestartOld

-----------------------------------------------------------------------------
(* The theorems. *)

\* IInv is an invariant: for any bounds on renewals and failures.
THEOREM Invariant == Spec => []IInv
<1>1. Init => IInv
  BY InitHolds
<1>2. IInv /\ [Next]_vars => IInv'
  <2> SUFFICES ASSUME IInv, [Next]_vars PROVE IInv'
    OBVIOUS
  <2>1. CASE Renewal
    BY <2>1, SignStep, BackupStep, WriteStep, PlaceCAsStep, RestartStep, UnlinkStep,
       RenameStep, RestartOldStep DEF Renewal
  <2>2. CASE CheckVouch \/ Query \/ Forced
    BY <2>2, CheckVouchStep, QueryStep, ForcedStep
  <2>3. CASE Timeout \/ SendStatus \/ UpdateCert \/ GrowOld \/ RotateCA
    BY <2>3, OutsideStep
  <2>4. CASE StartComms
    BY <2>4, StartCommsStep
  <2>5. CASE Die
    BY <2>5, DieStep
  <2>6. CASE UNCHANGED vars
    <3>1. UNCHANGED <<fileVars, gen, comms, verified, pc, job, told>>
      BY <2>6 DEF vars, fileVars, worldVars, threadVars
    <3>2. Announced' /\ ReportedIsTrue'
      BY <3>1 DEF IInv, Announced, ReportedIsTrue, Works, fileVars
    <3> QED
      BY <3>1, <3>2, Elsewhere DEF IInv, Types
  <2> QED
    BY <2>1, <2>2, <2>3, <2>4, <2>5, <2>6 DEF Next, Thread
<1> QED
  BY <1>1, <1>2, PTL DEF Spec

\* The key, certificate and CA with which the host last reached its controller
\* are in place or among the backups, wherever a renewal is cut short.
THEOREM LastGoodIsKept == Spec => []LastGoodKept
<1>1. IInv => LastGoodKept
  BY DEF IInv
<1> QED
  BY <1>1, Invariant, PTL

\* After a renewal was reported successful, or failed with the old files restored,
\* pf9-comms runs with the files in place and reaches the controller.
THEOREM ReportsAreTrue == Spec => []ReportedIsTrue
<1>1. IInv => ReportedIsTrue
  BY DEF IInv
<1> QED
  BY <1>1, Invariant, PTL

-----------------------------------------------------------------------------
(* How many renewals there can be. *)

Count(b) == IF b THEN 1 ELSE 0

Replacing == pc \in {"sign", "backup", "write", "cas"}

\* A certificate that is near its expiry is a reason for one renewal.  From the
\* decision on, the renewal under way is the one for it, until it has failed.
Served(g) == job.needed /\ g = job.cert /\ (Replacing \/ pc = "restart")
Expiring(g) == g \in due /\ ~Served(g)

\* So is a new CA, if the renewal was not for an expiry or a request.
NewCAWaits == newCA /\ ~(Replacing /\ ~job.forced /\ ~job.needed)

\* the certificate in place, and the one that may be put back
Reasons ==
  Count(event) + Count(pc = "sign") + Count(NewCAWaits) + Count(Expiring(live["cert"]))
    + Count(job.backups["cert"] # live["cert"] /\ Expiring(job.backups["cert"]))

\* Each renewal and each reason for one was caused by an input or a failure.
Caused == gen + Reasons <= inputs + faults

\* No certificate of a generation that is yet to be written is near its expiry.
Younger ==
  /\ \A g \in due : g <= gen
  /\ job.cert # None => job.cert <= gen
  /\ pc \in {"backup", "write", "cas", "restart"} => job.cert # gen
  /\ pc \in {"backup", "write"} => \A f \in Files : InTodo(f) => live[f] # gen
  /\ pc \in {"backup", "write"} /\ InTodo("cert") => gen \notin due

\* A renewal under way has a reason.
Purpose == Replacing => job.forced \/ job.needed \/ job.cas

\* the types that IInv leaves out
Others ==
  /\ old \in [Files -> SUBSET Gen] /\ comms \in [Files -> OrNone(Gen)]
  /\ due \in SUBSET Nat /\ newCA \in BOOLEAN /\ event \in BOOLEAN /\ asked \in BOOLEAN
  /\ q \in Seq(Details \union Refresh \union {NoMessage})
  /\ info \in [details : OrNone(Gen), refresh : RefreshStatus]
  /\ inputs \in 0 .. MaxInputs /\ faults \in 0 .. MaxFaults

Bounded == Caused /\ Younger /\ Purpose /\ Others

\* So there are no more generations than inputs and failures.
LEMMA GenFacts ==
  ASSUME IInv, Caused, Others
  PROVE  gen \in Gen /\ MaxGen \in Nat
<1>1. Reasons \in Nat
  BY DEF Reasons, Count
<1> QED
  BY <1>1, CertUpdateAssumption DEF IInv, Types, Caused, Others, Gen, MaxGen

LEMMA SuffixesAreSequences == Suffixes \subseteq Seq(Files)
<1>1. "key" \in Files /\ "cert" \in Files /\ "ca" \in Files
  BY DEF Files
<1> QED
  BY <1>1 DEF Suffixes, InOrder

LEMMA BoundedTypes == ASSUME IInv, Bounded PROVE TypeOK
<1>1. gen \in Gen /\ MaxGen \in Nat /\ \A g \in Nat : g <= gen => g \in Gen
  BY GenFacts DEF Bounded, IInv, Types, Gen
<1>2. live \in [Files -> OrNone(Gen)] /\ verified \in [Files -> OrNone(Gen)]
  BY <1>1 DEF IInv, Types, Signed, OrNone
<1>3. due \subseteq Gen
  BY <1>1 DEF Bounded, Others, Younger
<1>4. /\ job \in [forced : BOOLEAN, cas : BOOLEAN, needed : BOOLEAN, cert : OrNone(Nat),
                  todo : Suffixes, backups : [Files -> OrNone(Nat)]]
      /\ job.cert \in OrNone(Gen) /\ job.backups \in [Files -> OrNone(Gen)]
      /\ job.todo \in Seq(Files)
  BY <1>1, SuffixesAreSequences DEF IInv, Types, Job, Signed, OrNone, Bounded, Younger
<1>5. job \in [forced : BOOLEAN, cas : BOOLEAN, needed : BOOLEAN, cert : OrNone(Gen),
               todo : Seq(Files), backups : [Files -> OrNone(Gen)]]
  BY <1>4
<1> QED
  BY <1>1, <1>2, <1>3, <1>5 DEF TypeOK, IInv, Types, Bounded, Others, OrNone

\* The terms of Reasons are numbers.
Counts ==
  /\ Count(event) \in {0, 1} /\ Count(pc = "sign") \in {0, 1}
  /\ Count(NewCAWaits) \in {0, 1} /\ Count(Expiring(live["cert"])) \in {0, 1}
  /\ Count(job.backups["cert"] # live["cert"] /\ Expiring(job.backups["cert"])) \in {0, 1}

LEMMA CountFacts == Counts /\ Counts'
BY DEF Counts, Count

\* What the arithmetic needs of the types.
LEMMA Numbers ==
  ASSUME IInv, Bounded
  PROVE  /\ gen \in Nat /\ inputs \in Nat /\ faults \in Nat
         /\ job \in Job /\ due \subseteq Nat /\ None \notin Nat
         /\ live["cert"] \in OrNone(Nat) /\ job.backups["cert"] \in OrNone(Nat)
         /\ NoJob.needed = FALSE /\ NoJob.backups["cert"] = None
BY CertUpdateAssumption DEF IInv, Types, Bounded, Others, Files, Job, NoJob, Down

LEMMA CausedAtSign ==
  ASSUME IInv, Bounded, Sign PROVE Caused'
<1>1. /\ pc = "sign" /\ UNCHANGED <<live, due, newCA, inputs>>
      /\ gen \in Nat /\ inputs \in Nat /\ faults \in Nat /\ Caused
      /\ job \in Job /\ due \subseteq Nat
  BY CertUpdateAssumption DEF Sign, fileVars, IInv, Types, Bounded, Others
<1>2. CASE /\ gen' = gen + 1 /\ pc' = "backup" /\ job' = [job EXCEPT !.todo = InOrder]
           /\ UNCHANGED <<event, faults>>
  <2>1. /\ job'.forced = job.forced /\ job'.needed = job.needed /\ job'.cert = job.cert
        /\ job'.backups = job.backups
    BY <1>1, <1>2 DEF Job
  <2> QED
    BY <1>1, <1>2, <2>1 DEF Caused, Reasons, Count, NewCAWaits, Expiring, Served, Replacing
<1>3. CASE /\ gen' = gen /\ job' = NoJob /\ pc' \in {"query", "wait"} /\ event' = event
           /\ faults' \in {faults, faults + 1}
  <2>1. job'.needed = FALSE /\ job'.backups["cert"] = None /\ None \notin due'
    BY <1>1, <1>3, CertUpdateAssumption DEF NoJob, Down, Files
  <2>2. Count(NewCAWaits)' + Count(Expiring(live["cert"]))'
          <= 1 + Count(NewCAWaits) + Count(Expiring(live["cert"]))
    <3>1. CASE job.needed
      BY <1>1, <1>3, <2>1, <3>1 DEF Count, NewCAWaits, Expiring, Served, Replacing
    <3>2. CASE ~job.needed
      BY <1>1, <1>3, <2>1, <3>2 DEF Count, NewCAWaits, Expiring, Served, Replacing
    <3> QED
      BY <3>1, <3>2
  <2>3. /\ Count(event)' = Count(event)
        /\ Count(pc = "sign") = 1 /\ Count(pc = "sign")' = 0
        /\ Count(job.backups["cert"] # live["cert"] /\ Expiring(job.backups["cert"]))' = 0
    BY <1>1, <1>3, <2>1 DEF Count, Expiring
  <2>4. Counts /\ Counts'
    BY CountFacts
  <2> QED
    BY <1>1, <1>3, <2>2, <2>3, <2>4 DEF Caused, Reasons, Counts
<1> QED
  BY <1>2, <1>3 DEF Sign, Finish, EndForced, ClearEvent, GoTo, SignCsr, NewKey, Fault

LEMMA CausedAtQuery == ASSUME IInv, Bounded, Query PROVE Caused'
<1>1. /\ pc = "query" /\ UNCHANGED <<live, gen, due, newCA, inputs, event>> /\ Caused
      /\ faults' \in {faults, faults + 1}
  BY DEF Query, fileVars, worldVars, OnlyThread, CAsChecked, Fault, Bounded
<1>2. CASE pc' = "wait" /\ UNCHANGED job
  BY <1>1, <1>2, Numbers
     DEF Caused, Reasons, Count, NewCAWaits, Expiring, Served, Replacing
<1>3. CASE \E cas \in BOOLEAN :
             /\ CAsChecked(cas)
             /\ RefreshNeeded(live["cert"]) \/ cas
             /\ Begin(FALSE, RefreshNeeded(live["cert"]), cas)
  <2>1. PICK cas \in BOOLEAN :
          /\ CAsChecked(cas)
          /\ RefreshNeeded(live["cert"]) \/ cas
          /\ Begin(FALSE, RefreshNeeded(live["cert"]), cas)
    BY <1>3
  <2>2. /\ pc' = "sign" /\ job'.forced = FALSE
        /\ job'.needed = (live["cert"] \in due) /\ job'.cert = live["cert"]
        /\ job'.backups["cert"] = None
    BY <2>1 DEF Begin, GoTo, NoJob, Down, Files, RefreshNeeded
  <2>3. live["cert"] \in due \/ newCA
    BY <2>1 DEF RefreshNeeded, CAsChecked
  <2>4. Count(NewCAWaits)' + Count(Expiring(live["cert"]))' + 1
          <= Count(NewCAWaits) + Count(Expiring(live["cert"]))
    <3>1. CASE live["cert"] \in due
      <4>1. Expiring(live["cert"]) /\ ~Expiring(live["cert"])'
        BY <1>1, <2>2, <3>1 DEF Expiring, Served, Replacing
      <4>2. NewCAWaits' <=> NewCAWaits
        BY <1>1, <2>2, <3>1 DEF NewCAWaits, Replacing
      <4> QED
        BY <4>1, <4>2 DEF Count
    <3>2. CASE live["cert"] \notin due
      <4>1. ~Expiring(live["cert"]) /\ ~Expiring(live["cert"])'
        BY <1>1, <3>2 DEF Expiring
      <4>2. NewCAWaits /\ ~NewCAWaits'
        BY <1>1, <2>2, <2>3, <3>2 DEF NewCAWaits, Replacing
      <4> QED
        BY <4>1, <4>2 DEF Count
    <3> QED
      BY <3>1, <3>2
  <2>5. /\ Count(event)' = Count(event)
        /\ Count(pc = "sign") = 0 /\ Count(pc = "sign")' = 1
        /\ Count(job.backups["cert"] # live["cert"] /\ Expiring(job.backups["cert"]))' = 0
    BY <1>1, <2>2, Numbers DEF Count, Expiring
  <2> QED
    BY <1>1, <2>4, <2>5, CountFacts, Numbers DEF Caused, Reasons, Counts
<1> QED
  BY <1>2, <1>3 DEF Query, GoTo

LEMMA CausedAtForced == ASSUME IInv, Bounded, Forced PROVE Caused'
<1>1. /\ pc = "wait" /\ event /\ event' = FALSE /\ Caused
      /\ UNCHANGED <<live, gen, due, newCA, inputs>> /\ faults' \in {faults, faults + 1}
  BY DEF Forced, ClearEvent, fileVars, worldVars, OnlyThread, CAsChecked, Fault, Bounded
<1>2. CASE pc' = "query" /\ UNCHANGED job
  BY <1>1, <1>2, Numbers
     DEF Caused, Reasons, Count, NewCAWaits, Expiring, Served, Replacing
<1>3. CASE \E cas \in BOOLEAN : Begin(TRUE, FALSE, cas)
  <2>1. /\ pc' = "sign" /\ job'.forced = TRUE /\ job'.needed = FALSE
        /\ job'.backups["cert"] = None
    BY <1>3 DEF Begin, GoTo, NoJob, Down, Files
  <2> QED
    BY <1>1, <2>1, Numbers
       DEF Caused, Reasons, Count, NewCAWaits, Expiring, Served, Replacing
<1> QED
  BY <1>2, <1>3 DEF Forced, GoTo

\* A renewal that breaks off leaves one reason that it was for, and is one failure.
LEMMA CausedByFailure ==
  ASSUME IInv, Bounded, UNCHANGED <<live, gen, due, newCA, inputs>>, job' = NoJob,
         pc # "sign", pc' \in {"query", "wait"}, faults' = faults + 1, event' = event
  PROVE  Caused'
<1>1. Caused
  BY DEF Bounded
<1> QED
  BY <1>1, Numbers DEF Caused, Reasons, Count, NewCAWaits, Expiring, Served, Replacing

LEMMA RaiseCosts ==
  ASSUME Raise
  PROVE  /\ job' = NoJob /\ pc' \in {"query", "wait"} /\ faults' = faults + 1
         /\ event' = event
BY DEF Raise, GoTo, Fault, EndForced, ClearEvent

\* The certificate stays a reason while it is away.
LEMMA CausedAtBackup == ASSUME IInv, Bounded, Backup PROVE Caused'
<1> DEFINE Failed == Raise /\ UNCHANGED fileVars
<1>f. CASE Failed
  <2>1. pc = "backup" /\ UNCHANGED <<live, gen, due, newCA, inputs>>
    BY <1>f DEF Backup, worldVars, fileVars, OnlyThread
  <2> QED
    BY <1>f, <2>1, RaiseCosts, CausedByFailure
<1> SUFFICES ASSUME ~Failed PROVE Caused'
  BY <1>f
<1>1. /\ pc = "backup" /\ pc' = "write" /\ UNCHANGED <<gen, due, newCA, inputs, faults, event>>
      /\ Caused /\ Current \in Files
  <2>1. job.todo # <<>>
    BY DEF Backup, IInv, Replaced
  <2> QED
    BY <2>1, CurrentFacts DEF Backup, GoTo, worldVars, OnlyThread, Bounded
<1>2. /\ job'.needed = job.needed /\ job'.forced = job.forced /\ job'.cert = job.cert
      /\ \/ UNCHANGED <<live, job>>
         \/ live'["cert"] = None /\ job'.backups["cert"] = live["cert"]
         \/ live'["cert"] = live["cert"] /\ job'.backups["cert"] = job.backups["cert"]
  <2>1. "cert" \in Files /\ live \in [Files -> OrNone(Nat)] /\ job \in Job
    BY DEF Files, IInv, Types
  <2> QED
    BY <1>1, <2>1 DEF Backup, fileVars, Job
<1> QED
  BY <1>1, <1>2, Numbers DEF Caused, Reasons, Count, NewCAWaits, Expiring, Served, Replacing

\* The certificate that is written is not near its expiry.
LEMMA CausedAtWrite == ASSUME IInv, Bounded, Write PROVE Caused'
<1>1. /\ pc = "write" /\ UNCHANGED <<gen, due, newCA, inputs>>
      /\ Caused /\ Current \in Files
  <2>1. job.todo # <<>>
    BY DEF Write, IInv, Replaced
  <2> QED
    BY <2>1, CurrentFacts DEF Write, worldVars, OnlyThread, Bounded
<1>2. CASE Raise /\ UNCHANGED live
  BY <1>1, <1>2, RaiseCosts, CausedByFailure
<1>3. CASE /\ live' = [live EXCEPT ![Current] = gen]
           /\ job' = [job EXCEPT !.todo = Tail(@)]
           /\ pc' = IF Tail(job.todo) # <<>> THEN "backup"
                    ELSE IF job.cas THEN "cas" ELSE "restart"
           /\ UNCHANGED <<event, faults>>
  <2>1. /\ job'.needed = job.needed /\ job'.forced = job.forced /\ job'.cert = job.cert
        /\ job'.backups = job.backups
        /\ pc' \in {"backup", "cas"} \/ (pc' = "restart" /\ ~job.cas)
    BY <1>3, Numbers DEF Job
  <2>2. NewCAWaits' = NewCAWaits
    BY <1>1, <2>1 DEF NewCAWaits, Replacing, Bounded, Purpose
  <2>3. \/ live'["cert"] = live["cert"]
        \/ live'["cert"] = gen /\ live["cert"] = None /\ gen \notin due
    <3>1. "cert" \in Files /\ live \in [Files -> OrNone(Nat)] /\ live[Current] = None
          /\ InTodo(Current)
      BY <1>1, CurrentFacts DEF Files, IInv, Types, Replaced
    <3> QED
      BY <1>1, <1>3, <3>1 DEF Bounded, Younger
  <2>4. \A g : Expiring(g)' <=> Expiring(g)
    BY <1>1, <2>1 DEF Expiring, Served, Replacing
  <2>5. /\ gen' = gen /\ inputs' = inputs /\ faults' = faults
        /\ Count(event)' = Count(event) /\ Count(pc = "sign")' = Count(pc = "sign")
    BY <1>1, <1>3, <2>1 DEF Count
  <2> QED
    BY <1>1, <2>1, <2>2, <2>3, <2>4, <2>5, Numbers DEF Caused, Reasons, Count, Expiring
<1> QED
  BY <1>2, <1>3 DEF Write, GoTo

LEMMA CausedAtPlaceCAs == ASSUME IInv, Bounded, PlaceCAs PROVE Caused'
<1>1. /\ pc = "cas" /\ UNCHANGED <<live, gen, due, inputs>> /\ Caused
  BY DEF PlaceCAs, fileVars, OnlyThread, Bounded
<1>2. CASE Raise /\ UNCHANGED newCA
  BY <1>1, <1>2, RaiseCosts, CausedByFailure
<1>3. CASE /\ pc' = "restart" /\ UNCHANGED <<job, event>>
           /\ \/ newCA' = FALSE /\ faults' = faults
              \/ newCA' = newCA /\ faults' = faults + 1
  BY <1>1, <1>3, Numbers DEF Caused, Reasons, Count, NewCAWaits, Expiring, Served, Replacing
<1> QED
  BY <1>2, <1>3 DEF PlaceCAs, GoTo, Fault

\* A restart with the new files fails by a fault only, and from then on the old
\* certificate, to be put back, is a reason again.
LEMMA CausedAtRestart == ASSUME IInv, Bounded, Restart PROVE Caused'
<1>1. /\ pc = "restart" /\ UNCHANGED <<live, gen, due, newCA, inputs>> /\ Caused
      /\ live["cert"] = gen /\ Works(live) /\ job.cert # gen
  BY Numbers DEF Restart, fileVars, OnlyThread, Bounded, IInv, Replaced, Files, Works, Younger
<1>2. CASE Restarted(TRUE) /\ Finish(Update("successful"))
  <2>1. job' = NoJob /\ pc' \in {"query", "wait"} /\ event' = event /\ faults' = faults
    BY <1>2 DEF Restarted, Finish, GoTo, EndForced, ClearEvent
  <2> QED
    BY <1>1, <2>1, Numbers
       DEF Caused, Reasons, Count, NewCAWaits, Expiring, Served, Replacing
<1>3. CASE /\ Restarted(FALSE) /\ pc' = "unlink" /\ event' = event
           /\ job' = [job EXCEPT !.todo = InOrder]
  <2>1. faults' = faults + 1
    BY <1>1, <1>3 DEF Restarted, Fault
  <2>2. /\ job'.needed = job.needed /\ job'.forced = job.forced /\ job'.cert = job.cert
        /\ job'.backups = job.backups
    BY <1>3, Numbers DEF Job
  <2> QED
    BY <1>1, <1>3, <2>1, <2>2, Numbers
       DEF Caused, Reasons, Count, NewCAWaits, Expiring, Served, Replacing
<1> QED
  BY <1>2, <1>3 DEF Restart, GoTo

LEMMA CausedAtUnlink == ASSUME IInv, Bounded, Unlink PROVE Caused'
<1> DEFINE Failed == Raise /\ UNCHANGED live
<1>f. CASE Failed
  <2>1. pc = "unlink" /\ UNCHANGED <<live, gen, due, newCA, inputs>>
    BY <1>f DEF Unlink, worldVars, fileVars, OnlyThread
  <2> QED
    BY <1>f, <2>1, RaiseCosts, CausedByFailure
<1> SUFFICES ASSUME ~Failed PROVE Caused'
  BY <1>f
<1>1. /\ pc = "unlink" /\ pc' \in {"unlink", "rename", "restartOld"} /\ Caused
      /\ UNCHANGED <<gen, due, newCA, inputs, faults, event>>
  BY DEF Unlink, GoTo, worldVars, OnlyThread, Bounded
<1>2. job'.backups["cert"] = job.backups["cert"] /\ live'["cert"] \in {live["cert"], None}
  <2>1. "cert" \in Files /\ live \in [Files -> OrNone(Nat)] /\ job \in Job
    BY DEF Files, IInv, Types
  <2> QED
    BY <2>1 DEF Unlink, Job
<1> QED
  BY <1>1, <1>2, Numbers DEF Caused, Reasons, Count, NewCAWaits, Expiring, Served, Replacing

LEMMA CausedAtRename == ASSUME IInv, Bounded, Rename PROVE Caused'
<1> DEFINE Failed == Raise /\ UNCHANGED fileVars
<1>f. CASE Failed
  <2>1. pc = "rename" /\ UNCHANGED <<live, gen, due, newCA, inputs>>
    BY <1>f DEF Rename, worldVars, fileVars, OnlyThread
  <2> QED
    BY <1>f, <2>1, RaiseCosts, CausedByFailure
<1> SUFFICES ASSUME ~Failed PROVE Caused'
  BY <1>f
<1>1. /\ pc = "rename" /\ pc' = "unlink" /\ Caused
      /\ UNCHANGED <<gen, due, newCA, inputs, faults, event>>
  BY DEF Rename, GoTo, worldVars, OnlyThread, Bounded
<1>2. /\ job'.backups["cert"] = job.backups["cert"]
      /\ \/ live'["cert"] = live["cert"]
         \/ live["cert"] = None /\ live'["cert"] = job.backups["cert"]
  <2>1. "cert" \in Files /\ live \in [Files -> OrNone(Nat)] /\ job \in Job
        /\ live[Current] = None
    BY <1>1 DEF Files, IInv, Types, Replaced
  <2> QED
    BY <2>1 DEF Rename, Job
<1> QED
  BY <1>1, <1>2, Numbers DEF Caused, Reasons, Count, NewCAWaits, Expiring, Served, Replacing

LEMMA CausedAtRestartOld == ASSUME IInv, Bounded, RestartOld PROVE Caused'
<1>1. /\ pc = "restartOld" /\ UNCHANGED <<live, gen, due, newCA, inputs>> /\ Caused
      /\ job' = NoJob /\ pc' \in {"query", "wait"} /\ event' = event
      /\ faults' \in {faults, faults + 1}
  BY DEF RestartOld, Finish, GoTo, EndForced, ClearEvent, Restarted, Fault, fileVars,
         OnlyThread, Bounded
<1> QED
  BY <1>1, Numbers DEF Caused, Reasons, Count, NewCAWaits, Expiring, Served, Replacing

\* The steps of the main thread, of time and of the world.  What they cause is an
\* input each; a death costs the reason the renewal under way was for.
LEMMA CausedOutside ==
  ASSUME IInv, Bounded,
         \/ CheckVouch \/ Timeout \/ SendStatus \/ StartComms
         \/ UpdateCert \/ GrowOld \/ RotateCA \/ Die
  PROVE  Caused'
<1>0. Caused /\ "cert" \in Files
  BY DEF Bounded, Files
<1>1. CASE CheckVouch \/ Timeout \/ SendStatus \/ StartComms
  <2>1. /\ UNCHANGED <<live, gen, due, newCA, inputs, event, job>>
        /\ faults' \in {faults, faults + 1}
        /\ \/ pc' = pc
           \/ pc \in {"start", "wait"} /\ pc' \in {"query", "exited"}
    BY <1>1 DEF CheckVouch, Timeout, SendStatus, StartComms, GoTo, fileVars, worldVars,
                threadVars, OnlyThread, SupportsV1, Fault
  <2> QED
    BY <1>0, <2>1, Numbers
       DEF Caused, Reasons, Count, NewCAWaits, Expiring, Served, Replacing
<1>2. CASE UpdateCert
  BY <1>0, <1>2, Numbers
     DEF UpdateCert, Input, fileVars, worldVars, threadVars,
         Caused, Reasons, Count, NewCAWaits, Expiring, Served, Replacing
<1>3. CASE GrowOld
  BY <1>0, <1>3, Numbers
     DEF GrowOld, Input, fileVars, threadVars,
         Caused, Reasons, Count, NewCAWaits, Expiring, Served, Replacing
<1>4. CASE RotateCA
  BY <1>0, <1>4, Numbers
     DEF RotateCA, Input, fileVars, threadVars,
         Caused, Reasons, Count, NewCAWaits, Expiring, Served, Replacing
<1>5. CASE Die
  BY <1>0, <1>5, Numbers
     DEF Die, Fault, fileVars, Caused, Reasons, Count, NewCAWaits, Expiring, Served, Replacing
<1> QED
  BY <1>1, <1>2, <1>3, <1>4, <1>5

\* The steps that leave the files alone, and stay where they are or go to a place at
\* which no file is being replaced.
LEMMA YoungerElsewhere ==
  ASSUME IInv, Bounded, UNCHANGED <<live, gen>>,
         due' \subseteq due \union {live["cert"]}, None \notin due',
         job'.cert \in {job.cert, None, live["cert"]},
         UNCHANGED <<pc, job>> \/ pc' \notin {"backup", "write", "cas", "restart"}
  PROVE  Younger'
<1>1. live["cert"] # None => live["cert"] <= gen
  BY DEF IInv, Signed, Files
<1>2. "cert" \in Files
  BY DEF Files
<1> QED
  BY <1>1, <1>2, Numbers DEF Bounded, Younger, InTodo

LEMMA YoungerAtSign == ASSUME IInv, Bounded, Sign PROVE Younger' /\ Purpose'
<1>1. pc = "sign" /\ UNCHANGED <<live, due>> /\ Younger /\ Purpose
  BY DEF Sign, fileVars, Bounded
<1>2. CASE gen' = gen + 1 /\ pc' = "backup" /\ job' = [job EXCEPT !.todo = InOrder]
  <2>1. /\ job'.forced = job.forced /\ job'.needed = job.needed /\ job'.cas = job.cas
        /\ job'.cert = job.cert /\ job.cert \in OrNone(Nat)
    BY <1>2, Numbers DEF Job
  <2>2. \A f \in Files : live[f] # gen + 1
    <3>1. \A f \in Files : live[f] \in OrNone(Nat) /\ (live[f] # None => live[f] <= gen)
      BY DEF IInv, Types, Signed
    <3> QED
      BY <3>1, Numbers DEF OrNone
  <2>3. job.cert # gen + 1 /\ (job.cert # None => job.cert <= gen + 1)
    BY <1>1, <2>1, Numbers DEF Younger, OrNone
  <2>4. gen + 1 \notin due /\ \A g \in due : g <= gen + 1
    BY <1>1, Numbers DEF Younger
  <2>5. Younger'
    BY <1>1, <1>2, <2>1, <2>2, <2>3, <2>4 DEF Younger
  <2>6. Purpose'
    BY <1>1, <1>2, <2>1 DEF Purpose, Replacing
  <2> QED
    BY <2>5, <2>6
<1>3. CASE gen' = gen /\ job' = NoJob /\ pc' \in {"query", "wait"}
  <2>1. Younger'
    BY <1>1, <1>3, Numbers, YoungerElsewhere DEF NoJob
  <2> QED
    BY <1>3, <2>1 DEF Purpose, Replacing
<1> QED
  BY <1>2, <1>3 DEF Sign, Finish, GoTo, SignCsr, NewKey

\* A step that breaks off, and leaves the files as they are.
LEMMA YoungerAtRaise ==
  ASSUME IInv, Bounded, Raise, UNCHANGED <<live, gen, due>>
  PROVE  Younger' /\ Purpose'
<1>1. Younger'
  BY RaiseCosts, Numbers, YoungerElsewhere DEF NoJob
<1> QED
  BY <1>1, RaiseCosts DEF Purpose, Replacing

LEMMA YoungerAtBackup == ASSUME IInv, Bounded, Backup PROVE Younger' /\ Purpose'
<1> DEFINE Failed == Raise /\ UNCHANGED fileVars
<1>f. CASE Failed
  BY <1>f, YoungerAtRaise DEF Backup, fileVars, worldVars
<1> SUFFICES ASSUME ~Failed PROVE Younger' /\ Purpose'
  BY <1>f
<1>1. /\ pc = "backup" /\ pc' = "write" /\ UNCHANGED <<gen, due>> /\ Younger /\ Purpose
      /\ Current \in Files
  <2>1. job.todo # <<>>
    BY DEF Backup, IInv, Replaced
  <2> QED
    BY <2>1, CurrentFacts DEF Backup, GoTo, worldVars, Bounded
<1>2. /\ job'.needed = job.needed /\ job'.forced = job.forced /\ job'.cert = job.cert
      /\ job'.cas = job.cas /\ job'.todo = job.todo
      /\ \A f \in Files : live'[f] = live[f] \/ live'[f] = None
  <2>1. live \in [Files -> OrNone(Nat)] /\ job \in Job
    BY DEF IInv, Types
  <2> QED
    BY <1>1, <2>1 DEF Backup, fileVars, Job
<1> QED
  BY <1>1, <1>2, Numbers DEF Younger, Purpose, Replacing, InTodo

LEMMA YoungerAtWrite == ASSUME IInv, Bounded, Write PROVE Younger' /\ Purpose'
<1>1. pc = "write" /\ UNCHANGED <<gen, due>> /\ Younger /\ Purpose
  BY DEF Write, worldVars, Bounded
<1>2. CASE Raise /\ UNCHANGED live
  BY <1>1, <1>2, YoungerAtRaise
<1>3. CASE /\ live' = [live EXCEPT ![Current] = gen]
           /\ job' = [job EXCEPT !.todo = Tail(job.todo)]
           /\ pc' \in {"backup", "cas", "restart"}
  <2>1. /\ Current \in Files /\ ~In(Current, Tail(job.todo))
        /\ \A f \in Files : In(f, Tail(job.todo)) => InTodo(f)
    BY <1>1, CurrentFacts DEF IInv, Replaced
  <2>2. /\ job'.forced = job.forced /\ job'.needed = job.needed /\ job'.cas = job.cas
        /\ job'.cert = job.cert /\ job'.todo = Tail(job.todo)
    BY <1>3, Numbers DEF Job
  <2>3. \A f \in Files : In(f, Tail(job.todo)) => live'[f] = live[f]
    BY <1>3, <2>1 DEF IInv, Types
  <2>4. "cert" \in Files
    BY DEF Files
  <2>5. Younger'
    BY <1>1, <1>3, <2>1, <2>2, <2>3, <2>4 DEF Younger, InTodo
  <2> QED
    BY <1>1, <2>2, <2>5 DEF Purpose, Replacing
<1> QED
  BY <1>2, <1>3 DEF Write, GoTo

LEMMA YoungerInRenewal ==
  ASSUME IInv, Bounded, PlaceCAs \/ Restart \/ Unlink \/ Rename \/ RestartOld
  PROVE  Younger' /\ Purpose'
<1>0. Younger /\ Purpose
  BY DEF Bounded
<1>1. CASE PlaceCAs
  <2>1. pc = "cas" /\ UNCHANGED <<live, gen, due>>
    BY <1>1 DEF PlaceCAs, fileVars
  <2>2. CASE Raise
    BY <2>1, <2>2, YoungerAtRaise
  <2>3. CASE pc' = "restart" /\ UNCHANGED job
    BY <1>0, <2>1, <2>3 DEF Younger, Purpose, Replacing
  <2> QED
    BY <1>1, <2>2, <2>3 DEF PlaceCAs, GoTo
<1>2. CASE Restart \/ RestartOld
  <2>1. /\ UNCHANGED <<live, gen, due>> /\ pc' \in {"query", "wait", "unlink"}
        /\ job' = NoJob \/ job'.cert = job.cert
    BY <1>2, Numbers DEF Restart, RestartOld, Finish, GoTo, fileVars, Job
  <2>2. Younger'
    BY <2>1, Numbers, YoungerElsewhere DEF NoJob
  <2> QED
    BY <2>1, <2>2 DEF Purpose, Replacing
<1>3. CASE Unlink \/ Rename
  <2>1. CASE Raise /\ UNCHANGED live
    BY <1>3, <2>1, YoungerAtRaise DEF Unlink, Rename, worldVars
  <2>2. CASE ~(Raise /\ UNCHANGED live)
    <3>1. /\ UNCHANGED <<gen, due>> /\ pc' \in {"unlink", "rename", "restartOld"}
          /\ job'.cert = job.cert
      BY <1>3, <2>2, Numbers DEF Unlink, Rename, GoTo, worldVars, fileVars, Job
    <3> QED
      BY <1>0, <3>1 DEF Younger, Purpose, Replacing
  <2> QED
    BY <2>1, <2>2
<1> QED
  BY <1>1, <1>2, <1>3

LEMMA YoungerOutside ==
  ASSUME IInv, Bounded,
         \/ CheckVouch \/ Query \/ Forced \/ Timeout \/ SendStatus \/ StartComms
         \/ UpdateCert \/ GrowOld \/ RotateCA \/ Die
  PROVE  Younger' /\ Purpose'
<1>0. Younger /\ Purpose
  BY DEF Bounded
<1>1. CASE Query \/ Forced
  <2>1. UNCHANGED <<live, gen, due>>
    BY <1>1 DEF Query, Forced, fileVars, worldVars
  <2>2. \/ UNCHANGED job /\ pc' \in {"query", "wait"}
        \/ /\ pc' = "sign" /\ job'.cert = live["cert"]
           /\ job'.forced \/ job'.needed \/ job'.cas
    BY <1>1 DEF Query, Forced, Begin, NoJob, GoTo, RefreshNeeded
  <2>3. Younger'
    BY <2>1, <2>2, Numbers, YoungerElsewhere
  <2> QED
    BY <2>2, <2>3 DEF Purpose, Replacing
<1>2. CASE \/ CheckVouch \/ Timeout \/ SendStatus \/ StartComms
           \/ UpdateCert \/ GrowOld \/ RotateCA
  <2>1. /\ UNCHANGED <<live, gen, job>> /\ due' \subseteq due \union {live["cert"]}
        /\ None \notin due' /\ (UNCHANGED pc \/ pc' \in {"query", "exited"})
    BY <1>2, Numbers DEF CheckVouch, Timeout, SendStatus, StartComms, UpdateCert, GrowOld,
       RotateCA, GoTo, fileVars, worldVars, threadVars, Gen
  <2>2. Younger'
    BY <2>1, YoungerElsewhere
  <2> QED
    BY <1>0, <2>1, <2>2 DEF Purpose, Replacing
<1>3. CASE Die
  <2>1. UNCHANGED <<live, gen, due>> /\ pc' = "start" /\ job' = NoJob
    BY <1>3 DEF Die, fileVars
  <2>2. Younger'
    BY <2>1, Numbers, YoungerElsewhere DEF NoJob
  <2> QED
    BY <2>1, <2>2 DEF Purpose, Replacing
<1> QED
  BY <1>1, <1>2, <1>3

Message == Details \union Refresh \union {NoMessage}

LEMMA MessageFacts ==
  /\ \A g \in OrNone(Gen) : CertInfo(g) \in Message
  /\ \A st \in RefreshStatus : Update(st) \in Message
  /\ NoMessage \in Message
BY DEF CertInfo, Update, Message, Details, Refresh, OrNone

\* The result of a renewal and the certificate that goes with it.
LEMMA FinishSays ==
  ASSUME IInv, Bounded, NEW msg \in Message, Finish(msg)
  PROVE  q' \in Seq(Message) /\ event' = event
<1>1. TypeOK
  BY BoundedTypes
<1>2. q \in Seq(Message) /\ live["cert"] \in OrNone(Gen) /\ job.cert \in OrNone(Gen)
  BY <1>1 DEF TypeOK, Message, OrNone, Files
<1>3. ASSUME NEW g \in OrNone(Gen) PROVE q \o <<msg, CertInfo(g)>> \in Seq(Message)
  <2>1. <<msg, CertInfo(g)>> \in Seq(Message)
    BY MessageFacts
  <2> QED
    BY <1>2, <2>1
<1>4. Append(q, msg) \in Seq(Message)
  BY <1>2
<1>5. PICK cert \in OrNone(Gen) :
        q' = IF job.forced THEN Append(q, msg) ELSE q \o <<msg, CertInfo(cert)>>
  BY <1>2 DEF Finish
<1> QED
  BY <1>3, <1>4, <1>5 DEF Finish, EndForced, ClearEvent

\* What a step does to the variables of Others; the numbers are left out.
LEMMA OthersElsewhere ==
  ASSUME IInv, Bounded,
         old' = old, due' = due, newCA' \in BOOLEAN, event' \in BOOLEAN, asked' \in BOOLEAN,
         comms' \in {comms, live, Down}, q' \in Seq(Message), info' = info,
         inputs' \in 0 .. MaxInputs, faults' \in 0 .. MaxFaults
  PROVE  Others'
<1>1. TypeOK
  BY BoundedTypes
<1>2. comms' \in [Files -> OrNone(Gen)]
  BY <1>1 DEF TypeOK, OrNone, Down
<1> QED
  BY <1>2 DEF Bounded, Others, Message

LEMMA OtherTypes ==
  ASSUME IInv, Bounded
  PROVE  /\ q \in Seq(Message) /\ newCA \in BOOLEAN /\ event \in BOOLEAN /\ asked \in BOOLEAN
         /\ inputs \in 0 .. MaxInputs /\ faults \in 0 .. MaxFaults
         /\ Fault => faults' \in 0 .. MaxFaults
         /\ Input => inputs' \in 0 .. MaxInputs
         /\ \A st \in RefreshStatus : Append(q, Update(st)) \in Seq(Message)
         /\ live["cert"] # None => Append(q, CertInfo(live["cert"])) \in Seq(Message)
<1>1. q \in Seq(Message)
  BY DEF Bounded, Others, Message
<1>2. live["cert"] # None => live["cert"] \in Gen
  BY BoundedTypes DEF TypeOK, Files
<1>3. /\ \A st \in RefreshStatus : Append(q, Update(st)) \in Seq(Message)
      /\ live["cert"] # None => Append(q, CertInfo(live["cert"])) \in Seq(Message)
  BY <1>1, <1>2, MessageFacts DEF OrNone
<1>4. /\ Fault => faults' \in 0 .. MaxFaults
      /\ Input => inputs' \in 0 .. MaxInputs
  BY CertUpdateAssumption DEF Bounded, Others, Fault, Input
<1> QED
  BY <1>1, <1>3, <1>4 DEF Bounded, Others

LEMMA OthersInThread ==
  ASSUME IInv, Bounded, CheckVouch \/ Query \/ Forced
  PROVE  Others'
<1>1. /\ UNCHANGED <<old, due, newCA, comms, info, asked, inputs>>
      /\ event' \in {event, FALSE}
      /\ faults' = faults \/ Fault
  BY DEF CheckVouch, Query, Forced, ClearEvent, fileVars, worldVars, OnlyThread, CAsChecked,
         SupportsV1
<1>2. \/ q' = q \/ q' = Append(q, Update("initiated"))
      \/ live["cert"] # None /\ q' = Append(q, CertInfo(live["cert"]))
  BY DEF CheckVouch, Query, Forced
<1> QED
  BY <1>1, <1>2, OtherTypes, OthersElsewhere, Messages

LEMMA OthersInRenewal == ASSUME IInv, Bounded, Renewal PROVE Others'
<1>1. CASE Sign \/ Restart \/ RestartOld
  <2>1. /\ UNCHANGED <<old, due, newCA, info, inputs>> /\ asked' \in {asked, FALSE}
        /\ comms' \in {comms, live, Down} /\ (faults' = faults \/ Fault)
    BY <1>1 DEF Sign, Restart, RestartOld, Restarted, fileVars, OnlyThread
  <2>2. \/ q' = q /\ event' = event
        \/ \E msg \in Message : Finish(msg)
    BY <1>1, MessageFacts, Messages DEF Sign, Restart, RestartOld
  <2>3. q' \in Seq(Message) /\ event' = event
    BY <2>2, FinishSays, OtherTypes
  <2> QED
    BY <2>1, <2>3, OtherTypes, OthersElsewhere
<1>2. CASE Write \/ PlaceCAs \/ Unlink
  <2>1. /\ UNCHANGED <<old, due, comms, info, asked, inputs, event, q>>
        /\ newCA' \in {newCA, FALSE} /\ (faults' = faults \/ Fault)
    BY <1>2 DEF Write, PlaceCAs, Unlink, Raise, EndForced, ClearEvent, fileVars, worldVars,
                OnlyThread
  <2> QED
    BY <2>1, OtherTypes, OthersElsewhere
<1>3. CASE Backup \/ Rename
  <2>1. /\ UNCHANGED <<due, newCA, comms, info, asked, inputs, event, q>>
        /\ (faults' = faults \/ Fault)
    BY <1>3 DEF Backup, Rename, Raise, EndForced, ClearEvent, worldVars, OnlyThread
  <2>2. old' \in [Files -> SUBSET Gen]
    <3>1. old \in [Files -> SUBSET Gen] /\ live \in [Files -> OrNone(Gen)]
      BY BoundedTypes DEF TypeOK, OrNone
    <3>2. Current \in Files
      BY <1>3, CurrentFacts DEF Backup, Rename, IInv, Replaced
    <3> QED
      BY <1>3, <3>1, <3>2 DEF Backup, Rename, AddBackup, fileVars, OrNone
  <2> QED
    BY <2>1, <2>2, OtherTypes DEF Bounded, Others
<1> QED
  BY <1>1, <1>2, <1>3 DEF Renewal

\* A message is taken for what it is.
LEMMA OthersAtSendStatus == ASSUME IInv, Bounded, SendStatus PROVE Others'
<1>1. /\ UNCHANGED <<old, due, newCA, comms, asked, inputs, faults, event>>
      /\ q # <<>> /\ q' = Tail(q) /\ info' = Take(Head(q))
  BY DEF SendStatus, fileVars, worldVars
<1>2. Head(q) \in Message /\ Tail(q) \in Seq(Message)
  BY <1>1, OtherTypes
<1>3. info \in [details : OrNone(Gen), refresh : RefreshStatus]
  BY DEF Bounded, Others
<1>4. ASSUME NEW m \in Message
      PROVE  Take(m) \in [details : OrNone(Gen), refresh : RefreshStatus]
  <2>1. CASE m \in Details
    BY <1>3, <2>1 DEF Take, Details, OrNone
  <2>2. CASE m \in Refresh
    BY <1>3, <2>2 DEF Take, Refresh
  <2>3. CASE m = NoMessage
    BY <1>3, <2>3 DEF Take, NoMessage
  <2> QED
    BY <2>1, <2>2, <2>3 DEF Message
<1> QED
  BY <1>1, <1>2, <1>4 DEF Bounded, Others, Message

LEMMA OthersOutside ==
  ASSUME IInv, Bounded, Timeout \/ UpdateCert \/ GrowOld \/ RotateCA \/ StartComms \/ Die
  PROVE  Others'
<1>1. CASE Timeout \/ UpdateCert \/ RotateCA \/ StartComms
  <2>1. /\ UNCHANGED <<old, due, info, q, faults>> /\ comms' \in {comms, live}
        /\ newCA' \in {newCA, TRUE} /\ event' \in {event, TRUE} /\ asked' \in {asked, TRUE}
        /\ inputs' = inputs \/ Input
    BY <1>1 DEF Timeout, UpdateCert, RotateCA, StartComms, fileVars, worldVars, threadVars,
                OnlyThread
  <2> QED
    BY <2>1, OtherTypes, OthersElsewhere
<1>2. CASE GrowOld
  <2>1. /\ UNCHANGED <<old, info, q, faults, comms, newCA, event, asked>>
        /\ due' = due \union {live["cert"]} /\ live["cert"] \in Gen /\ Input
    BY <1>2 DEF GrowOld, fileVars
  <2>2. due' \in SUBSET Nat
    <3>1. live["cert"] \in Nat
      BY <2>1 DEF Gen
    <3> QED
      BY <2>1, <3>1, Numbers
  <2> QED
    BY <2>1, <2>2, OtherTypes DEF Bounded, Others
<1>3. CASE Die
  <2>1. /\ UNCHANGED <<old, due, newCA, inputs>> /\ comms' \in {comms, live}
        /\ q' = <<>> /\ info' = NotQueried /\ event' = FALSE /\ asked' = FALSE /\ Fault
    BY <1>3 DEF Die, fileVars
  <2>2. info' \in [details : OrNone(Gen), refresh : RefreshStatus]
    BY <2>1 DEF NotQueried, OrNone, RefreshStatus
  <2>3. comms' \in [Files -> OrNone(Gen)]
    BY <2>1, BoundedTypes DEF TypeOK, OrNone
  <2>4. q' \in Seq(Message) /\ faults' \in 0 .. MaxFaults
    BY <2>1, OtherTypes
  <2>5. /\ old \in [Files -> SUBSET Gen] /\ due \in SUBSET Nat /\ newCA \in BOOLEAN
        /\ inputs \in 0 .. MaxInputs
    BY DEF Bounded, Others
  <2> QED
    BY <2>1, <2>2, <2>3, <2>4, <2>5 DEF Others, Message
<1> QED
  BY <1>1, <1>2, <1>3

\* Each generation, and each reason for one that still stands, goes back to an input or
\* a failure, and the types hold with their bounds.
THEOREM RenewalsCaused == Spec => []Bounded
<1>1. Init => Bounded
  <2> SUFFICES ASSUME Init PROVE Bounded
    OBVIOUS
  <2>1. IInv
    BY InitHolds
  <2>2. Reasons = 0
    BY DEF Init, Reasons, Count, NewCAWaits, Expiring, NoJob, Replacing
  <2>3. Caused /\ Younger /\ Purpose
    BY <2>2 DEF Init, Caused, Younger, Purpose, Replacing, NoJob
  <2>4. 0 \in Gen /\ 0 \in 0 .. MaxInputs /\ 0 \in 0 .. MaxFaults
    BY CertUpdateAssumption DEF Gen, MaxGen
  <2>5. /\ old \in [Files -> SUBSET Gen] /\ comms \in [Files -> OrNone(Gen)]
        /\ info \in [details : OrNone(Gen), refresh : RefreshStatus]
    BY <2>4 DEF Init, NotQueried, OrNone, RefreshStatus
  <2>6. q \in Seq(Details \union Refresh \union {NoMessage})
    BY DEF Init
  <2>7. Others
    BY <2>4, <2>5, <2>6 DEF Init, Others
  <2> QED
    BY <2>3, <2>7 DEF Bounded
<1>2. IInv /\ Bounded /\ [Next]_vars => Bounded'
  <2> SUFFICES ASSUME IInv, Bounded, [Next]_vars PROVE Bounded'
    OBVIOUS
  <2>1. CASE Renewal
    <3>1. Caused'
      BY <2>1, CausedAtSign, CausedAtBackup, CausedAtWrite, CausedAtPlaceCAs, CausedAtRestart,
         CausedAtUnlink, CausedAtRename, CausedAtRestartOld DEF Renewal
    <3>2. Younger' /\ Purpose'
      BY <2>1, YoungerAtSign, YoungerAtBackup, YoungerAtWrite, YoungerInRenewal DEF Renewal
    <3> QED
      BY <2>1, <3>1, <3>2, OthersInRenewal DEF Bounded
  <2>2. CASE CheckVouch \/ Query \/ Forced
    BY <2>2, CausedAtQuery, CausedAtForced, CausedOutside, YoungerOutside, OthersInThread
       DEF Bounded
  <2>3. CASE Timeout \/ SendStatus \/ UpdateCert \/ GrowOld \/ RotateCA \/ StartComms \/ Die
    BY <2>3, CausedOutside, YoungerOutside, OthersAtSendStatus, OthersOutside DEF Bounded
  <2>4. CASE UNCHANGED vars
    <3>1. UNCHANGED <<fileVars, worldVars, threadVars, q, info, event, asked, inputs, faults>>
      BY <2>4 DEF vars
    <3> QED
      BY <3>1 DEF fileVars, worldVars, threadVars, Bounded, Caused, Reasons, Count,
         NewCAWaits, Expiring, Served, Replacing, Younger, InTodo, Purpose, Others
  <2> QED
    BY <2>1, <2>2, <2>3, <2>4 DEF Next, Thread
<1> QED
  BY <1>1, <1>2, Invariant, PTL DEF Spec

\* The thread signs no certificate without an expiry, a new CA, a request or a failure
\* that asks for it, each once (cert_refresh_needed, new_ca_cert_available, the event).
THEOREM RenewalsHaveReasons == Spec => []RenewedForAReason
<1>1. IInv /\ Bounded => RenewedForAReason
  <2> SUFFICES ASSUME IInv, Bounded PROVE RenewedForAReason
    OBVIOUS
  <2> QED
    BY CountFacts, Numbers DEF Bounded, Caused, Reasons, Counts, RenewedForAReason
<1> QED
  BY <1>1, Invariant, RenewalsCaused, PTL

\* Every variable keeps its type; no more certificates are ever signed than inputs
\* and failures ask for.
THEOREM TypeCorrect == Spec => []TypeOK
<1>1. IInv /\ Bounded => TypeOK
  BY BoundedTypes
<1> QED
  BY <1>1, Invariant, RenewalsCaused, PTL
=============================================================================
