--------------------------- MODULE AppConvergeProofs ---------------------------
(***************************************************************************)
(* The change of a host's apps keeps to what AppChange promises, and an    *)
(* upgrade that was cut short needs no network (UpgradeNeedsNoNetwork),    *)
(* for any apps, releases, messages and failures.                          *)
(*                                                                         *)
(* Both rest on what is true of the commands that are still to be run      *)
(* (Fit): an app is there when it is stopped, removed, configured or       *)
(* served, is only removed for another version or because it is not        *)
(* wanted, and its package is in the cache before it is removed.           *)
(***************************************************************************)
EXTENDS AppConverge, FiniteSetTheorems, SequenceTheorems, TLAPS

(* What may be left of the commands for an app that goes,   *)
G2 == <<"stop", "remove">>
G1 == <<"remove">>
(* that gets another version,                               *)
U6 == <<"download", "stop", "remove", "install", "configure", "serve">>
U5 == <<"stop", "remove", "install", "configure", "serve">>
U4 == <<"remove", "install", "configure", "serve">>
(* that is new,                                             *)
I4 == <<"download", "install", "configure", "serve">>
I3 == <<"install", "configure", "serve">>
(* and that is there;                                       *)
S2 == <<"configure", "serve">>
C1 == <<"configure">>
S1 == <<"serve">>
(* and for the dependency.                                  *)
T1 == <<"tools">>

Going      == {G1, G2}
Upgrading  == {U4, U5, U6}
Installing == {I3, I4}
Setting    == {S2, C1, S1}

\* The package that a job installs
Package(a) == <<a, goal[a].version>>

Fit(job) ==
  LET a == job.app IN
  \/ job.ops \in Going /\ goal[a] = Absent /\ Installed(a)
  \/ /\ job.ops \in Upgrading /\ goal[a] # Absent /\ Installed(a)
     /\ before[a] # Absent /\ before[a].version # goal[a].version
     /\ job.ops = U6 \/ Package(a) \in cache
  \/ job.ops \in Installing /\ goal[a] # Absent
  \/ job.ops \in Setting /\ goal[a] # Absent /\ Installed(a)
  \/ job.ops = T1

\* The jobs of a list are about different apps, but for the dependency.
Els(s) == {s[i] : i \in 1 .. Len(s)}
Other(j, k) == j.app # k.app \/ j.ops = T1 \/ k.ops = T1
Apart(s) == \A i, j \in 1 .. Len(s) : i # j => Other(s[i], s[j])

\* What the change may have left of an app by now: what Change!Mixture says of it
Left(old, new) == {old, new} \union (IF old = new THEN {} ELSE HalfDone(old, new))
Mixed(a) == apps[a] \in Left(before[a], goal[a])

\* The change may reset the app to the factory's settings, stop it and remove it.
Loose(old, new) == old # new /\ ~Stays(old, new)

AtWork ==
  /\ Apart(todo)
  /\ todo # <<>> => ~Waiting
  /\ ~Waiting => /\ goal = desired
                 /\ \A a \in Apps : Mixed(a)
                 /\ \A job \in Els(todo) : Fit(job)

\* Nothing is away for an upgrade that was never asked for.
Asked == desired = NoConfig => replaced = {}

IInv == TypeOK /\ AtWork /\ Asked /\ UpgradeNeedsNoNetwork
-----------------------------------------------------------------------------
(* The lists of commands and of jobs. *)

LEMMA OpsFacts ==
  /\ Head(G2) = "stop" /\ Tail(G2) = G1 /\ Head(G1) = "remove" /\ Tail(G1) = <<>>
  /\ Head(U6) = "download" /\ Tail(U6) = U5 /\ Head(U5) = "stop" /\ Tail(U5) = U4
  /\ Head(U4) = "remove" /\ Tail(U4) = I3
  /\ Head(I4) = "download" /\ Tail(I4) = I3 /\ Head(I3) = "install" /\ Tail(I3) = S2
  /\ Head(S2) = "configure" /\ Tail(S2) = S1 /\ Head(C1) = "configure" /\ Tail(C1) = <<>>
  /\ Head(S1) = "serve" /\ Tail(S1) = <<>> /\ Head(T1) = "tools" /\ Tail(T1) = <<>>
BY DEF G1, G2, U4, U5, U6, I3, I4, S2, C1, S1, T1

\* No two of them are the same: they differ in their length or their first command.
LEMMA OpsDistinct ==
  /\ {G1, G2, U4, U5, U6, I3, I4, S2, C1, S1, T1} \subseteq Seq(Commands) \ {<<>>}
  /\ U6 # U5 /\ U6 # U4
  /\ {G1, G2, U4, U5, U6, I3, I4, S2, C1, S1} \intersect {T1} = {}
  /\ {G1, G2} \intersect {U4, U5, U6, I3, I4, S2, C1, S1} = {}
  /\ {U4, U5, U6} \intersect {I3, I4, S2, C1, S1} = {}
  /\ {I3, I4} \intersect {S2, C1, S1} = {}
<1>1. {G1, G2, U4, U5, U6, I3, I4, S2, C1, S1, T1} \subseteq Seq(Commands) \ {<<>>}
  BY DEF G1, G2, U4, U5, U6, I3, I4, S2, C1, S1, T1, Commands
<1>2. /\ Len(G1) = 1 /\ Len(G2) = 2 /\ Len(U4) = 4 /\ Len(U5) = 5 /\ Len(U6) = 6
      /\ Len(I3) = 3 /\ Len(I4) = 4 /\ Len(S2) = 2 /\ Len(C1) = 1 /\ Len(S1) = 1 /\ Len(T1) = 1
  BY DEF G1, G2, U4, U5, U6, I3, I4, S2, C1, S1, T1
<1> QED
  BY <1>1, <1>2, OpsFacts

\* One list of jobs after another
LEMMA JoinFacts ==
  ASSUME NEW s \in Seq(Job), NEW t \in Seq(Job)
  PROVE  /\ s \o t \in Seq(Job) /\ Els(s \o t) = Els(s) \union Els(t)
         /\ Apart(s) /\ Apart(t) /\ (\A j \in Els(s), k \in Els(t) : Other(j, k))
              => Apart(s \o t)
<1> DEFINE u == s \o t
<1>1. /\ u \in Seq(Job) /\ Len(u) = Len(s) + Len(t)
      /\ Len(s) \in Nat /\ Len(t) \in Nat
      /\ \A i \in 1 .. Len(u) : u[i] = IF i <= Len(s) THEN s[i] ELSE t[i - Len(s)]
  OBVIOUS
<1> HIDE DEF u
<1>2. \A i \in 1 .. Len(s) : i \in 1 .. Len(u) /\ u[i] = s[i]
  BY <1>1
<1>3. \A i \in 1 .. Len(t) : Len(s) + i \in 1 .. Len(u) /\ u[Len(s) + i] = t[i]
  <2> TAKE i \in 1 .. Len(t)
  <2>1. Len(s) + i \in 1 .. Len(u) /\ ~(Len(s) + i <= Len(s)) /\ (Len(s) + i) - Len(s) = i
    BY <1>1
  <2> QED
    BY <1>1, <2>1
<1>4. \A i \in 1 .. Len(u) : (i \in 1 .. Len(s) /\ u[i] = s[i])
                            \/ (i - Len(s) \in 1 .. Len(t) /\ u[i] = t[i - Len(s)])
  BY <1>1
<1>5. Els(u) = Els(s) \union Els(t)
  <2>1. Els(s) \subseteq Els(u)
    BY <1>2 DEF Els
  <2>2. Els(t) \subseteq Els(u)
    BY <1>3 DEF Els
  <2>3. Els(u) \subseteq Els(s) \union Els(t)
    BY <1>4 DEF Els
  <2> QED
    BY <2>1, <2>2, <2>3
<1>6. ASSUME Apart(s), Apart(t), \A j \in Els(s), k \in Els(t) : Other(j, k),
             NEW i \in 1 .. Len(u), NEW j \in 1 .. Len(u), i # j
      PROVE  Other(u[i], u[j])
  <2>1. CASE i \in 1 .. Len(s) /\ j \in 1 .. Len(s)
    BY <1>2, <1>6, <2>1 DEF Apart
  <2>2. CASE i \in 1 .. Len(s) /\ j \notin 1 .. Len(s)
    <3>1. u[i] \in Els(s) /\ u[j] \in Els(t)
      BY <1>2, <1>4, <2>2 DEF Els
    <3> QED
      BY <1>6, <3>1
  <2>3. CASE i \notin 1 .. Len(s) /\ j \in 1 .. Len(s)
    <3>1. u[j] \in Els(s) /\ u[i] \in Els(t)
      BY <1>2, <1>4, <2>3 DEF Els
    <3> QED
      BY <1>6, <3>1 DEF Other
  <2>4. CASE i \notin 1 .. Len(s) /\ j \notin 1 .. Len(s)
    <3>1. /\ i - Len(s) \in 1 .. Len(t) /\ u[i] = t[i - Len(s)]
          /\ j - Len(s) \in 1 .. Len(t) /\ u[j] = t[j - Len(s)]
      BY <1>4, <2>4
    <3>2. i - Len(s) # j - Len(s)
      BY <1>1, <1>6
    <3> QED
      BY <1>6, <3>1, <3>2 DEF Apart
  <2> QED
    BY <2>1, <2>2, <2>3, <2>4
<1> QED
  BY <1>1, <1>5, <1>6 DEF Apart, u

LEMMA EmptyFacts == <<>> \in Seq(Job) /\ Els(<<>>) = {} /\ Apart(<<>>)
BY DEF Els, Apart

\* The job at the head, and the others, which are about other apps
LEMMA FirstFacts ==
  ASSUME NEW s \in Seq(Job), s # <<>>, Apart(s)
  PROVE  /\ Head(s) \in Els(s) /\ Head(s) \in Job /\ Tail(s) \in Seq(Job)
         /\ Els(Tail(s)) \subseteq Els(s) /\ Apart(Tail(s))
         /\ \A job \in Els(Tail(s)) : Other(Head(s), job)
<1>1. /\ Head(s) = s[1] /\ Len(s) \in Nat /\ Len(s) >= 1
      /\ Tail(s) \in Seq(Job) /\ Len(Tail(s)) = Len(s) - 1
      /\ \A i \in 1 .. Len(s) - 1 : Tail(s)[i] = s[i + 1] /\ i + 1 \in 2 .. Len(s)
      /\ Head(s) \in Job
  OBVIOUS
<1>2. Head(s) \in Els(s) /\ Els(Tail(s)) \subseteq Els(s)
  BY <1>1 DEF Els
<1>3. Apart(Tail(s))
  BY <1>1 DEF Apart
<1>4. \A job \in Els(Tail(s)) : Other(Head(s), job)
  <2>1. \A i \in 1 .. Len(Tail(s)) : i + 1 \in 1 .. Len(s) /\ i + 1 # 1 /\ 1 \in 1 .. Len(s)
    BY <1>1
  <2> QED
    BY <1>1, <2>1 DEF Els, Apart
<1> QED
  BY <1>1, <1>2, <1>3, <1>4

LEMMA JobFacts ==
  ASSUME NEW job \in [app : Apps, ops : Seq(Commands)], NEW v
  PROVE  [job EXCEPT !.ops = v] = [app |-> job.app, ops |-> v]
OBVIOUS

\* What is left when the first command has been run
LEMMA AdvanceFacts ==
  ASSUME todo \in Seq(Job), todo # <<>>, Apart(todo), Advance, Tail(T1) = <<>>
  PROVE  /\ todo' \in Seq(Job) /\ Apart(todo)'
         /\ \A job \in Els(todo)' :
              \/ job \in Els(Tail(todo))
              \/ /\ job = [app |-> Head(todo).app, ops |-> Tail(Head(todo).ops)]
                 /\ Tail(Head(todo).ops) # <<>>
<1> DEFINE first == Head(todo)
           rest  == [app |-> first.app, ops |-> Tail(first.ops)]
<1>1. /\ first \in Els(todo) /\ first \in Job /\ Tail(todo) \in Seq(Job)
      /\ Els(Tail(todo)) \subseteq Els(todo) /\ Apart(Tail(todo))
      /\ \A job \in Els(Tail(todo)) : Other(first, job)
  BY FirstFacts
<1>2. CASE Tail(first.ops) = <<>>
  BY <1>1, <1>2 DEF Advance
<1>3. CASE Tail(first.ops) # <<>>
  <2>1. todo' = [todo EXCEPT ![1].ops = Tail(@)]
    BY <1>3 DEF Advance
  <2>2. /\ 1 \in 1 .. Len(todo) /\ first = todo[1] /\ Len(todo) \in Nat
        /\ Len(Tail(todo)) = Len(todo) - 1
        /\ \A i \in 2 .. Len(todo) : i - 1 \in 1 .. Len(Tail(todo)) /\ Tail(todo)[i - 1] = todo[i]
    OBVIOUS
  <2>3. rest \in Job
    <3>1. first.app \in Apps /\ first.ops \in Seq(Commands) /\ first.ops # <<>>
      BY <1>1 DEF Job
    <3>2. Tail(first.ops) \in Seq(Commands)
      BY <3>1
    <3> QED
      BY <1>3, <3>1, <3>2 DEF Job
  <2>4. todo' = [todo EXCEPT ![1] = rest]
    <3>1. [todo[1] EXCEPT !.ops = Tail(@)] = rest
      <4>1. first \in [app : Apps, ops : Seq(Commands)]
        BY <1>1 DEF Job
      <4> QED
        BY <2>2, <4>1, JobFacts
    <3> QED
      BY <2>1, <2>2, <3>1
  <2>5. /\ todo' \in Seq(Job) /\ Len(todo') = Len(todo)
        /\ \A i \in 1 .. Len(todo) : todo'[i] = IF i = 1 THEN rest ELSE todo[i]
    BY <2>2, <2>3, <2>4
  <2>6. \A job \in Els(Tail(todo)) : Other(rest, job) /\ Other(job, rest)
    <3>1. first.ops # T1
      BY <1>3
    <3> QED
      BY <1>1, <3>1 DEF Other
  <2>7. \A i \in 2 .. Len(todo) : todo'[i] = todo[i] /\ todo[i] \in Els(Tail(todo))
    BY <2>2, <2>5 DEF Els
  <2> HIDE DEF rest
  <2>8. Apart(todo)'
    <3>1. SUFFICES ASSUME NEW i \in 1 .. Len(todo), NEW j \in 1 .. Len(todo), i # j
                   PROVE  Other(todo'[i], todo'[j])
      BY <2>5 DEF Apart
    <3>2. CASE i = 1
      BY <2>2, <2>5, <2>6, <2>7, <3>1, <3>2
    <3>3. CASE j = 1
      BY <2>2, <2>5, <2>6, <2>7, <3>1, <3>3
    <3>4. CASE i # 1 /\ j # 1
      BY <2>5, <3>1, <3>4 DEF Apart
    <3> QED
      BY <3>2, <3>3, <3>4
  <2>9. \A job \in Els(todo)' : job \in Els(Tail(todo)) \/ job = rest
    BY <2>2, <2>5, <2>7 DEF Els
  <2> QED
    BY <1>3, <2>5, <2>8, <2>9 DEF rest
<1> QED
  BY <1>2, <1>3
-----------------------------------------------------------------------------
(* What process_apps sets out to do. *)

Planned(job, found, wanted) ==
  LET a == job.app IN
  \/ job.ops = G2 /\ found[a] # Absent /\ wanted[a] = Absent
  \/ /\ job.ops = U6 /\ found[a] # Absent /\ wanted[a] # Absent
     /\ found[a].version # wanted[a].version
  \/ job.ops = I4 /\ wanted[a] # Absent
  \/ job.ops \in Setting /\ found[a] # Absent /\ wanted[a] # Absent
  \/ job.ops = T1

LEMMA OpsOf ==
  /\ Uninstall = G2 /\ Upgrade = U6 /\ New = I4
  /\ C1 \o S1 = S2 /\ C1 \o <<>> = C1 /\ <<>> \o S1 = S1 /\ <<>> \o <<>> = <<>>
<1>1. /\ C1 \in Seq(Commands) /\ S1 \in Seq(Commands) /\ S2 \in Seq(Commands)
      /\ Len(C1) = 1 /\ Len(S1) = 1 /\ Len(S2) = 2 /\ <<>> \in Seq(Commands)
  BY DEF Commands, C1, S1, S2
<1>2. C1 \o S1 = S2
  <2>1. /\ C1 \o S1 \in Seq(Commands) /\ Len(C1 \o S1) = Len(C1) + Len(S1)
        /\ \A i \in 1 .. Len(C1) + Len(S1) :
             (C1 \o S1)[i] = IF i <= Len(C1) THEN C1[i] ELSE S1[i - Len(C1)]
    BY <1>1, ConcatProperties
  <2>2. Len(C1 \o S1) = 2 /\ (C1 \o S1)[1] = C1[1] /\ (C1 \o S1)[2] = S1[1]
    BY <1>1, <2>1
  <2>3. (C1 \o S1)[1] = S2[1] /\ (C1 \o S1)[2] = S2[2]
    BY <2>2 DEF C1, S1, S2
  <2> QED
    BY <1>1, <2>1, <2>2, <2>3, SeqEqual
<1> QED
  BY <1>1, <1>2, ConcatEmptySeq DEF Uninstall, Upgrade, New, G2, U6, I4

LEMMA WorkFacts ==
  ASSUME NEW found \in AppConfigs, NEW wanted \in AppConfigs, NEW a \in Apps
  PROVE  LET ops == Work(found, wanted)[a] IN
         /\ wanted[a] = Absent => ops = G2
         /\ wanted[a] # Absent /\ found[a] = Absent => ops = I4
         /\ wanted[a] # Absent /\ found[a] # Absent =>
              \/ ops = <<>> \/ ops \in Setting
              \/ ops = U6 /\ found[a].version # wanted[a].version
<1> DEFINE ops == Work(found, wanted)[a]
<1>1. ops = IF wanted[a] = Absent THEN G2 ELSE IF found[a] = Absent THEN I4
            ELSE Keep(found[a], wanted[a])
  BY OpsOf DEF Work
<1>2. \/ Keep(found[a], wanted[a]) = <<>> \/ Keep(found[a], wanted[a]) \in Setting
      \/ Keep(found[a], wanted[a]) = U6 /\ found[a].version # wanted[a].version
  BY OpsOf DEF Keep, Setting, C1, S1
<1> QED
  BY <1>1, <1>2

LEMMA WorkType ==
  ASSUME NEW found \in AppConfigs, NEW wanted \in AppConfigs
  PROVE  /\ Work(found, wanted) \in [Apps -> Seq(Commands)]
         /\ G2 # <<>> /\ I4 # <<>>
<1>1. ASSUME NEW a \in Apps PROVE Work(found, wanted)[a] \in Seq(Commands)
  <2>1. <<>> \in Seq(Commands)
    OBVIOUS
  <2> DEFINE ops == Work(found, wanted)[a]
  <2>2. ops \in {G2, I4, U6, S2, C1, S1, <<>>}
    <3>1. LET o == ops IN
          /\ wanted[a] = Absent => o = G2
          /\ wanted[a] # Absent /\ found[a] = Absent => o = I4
          /\ wanted[a] # Absent /\ found[a] # Absent => o = <<>> \/ o \in Setting \/ o = U6
      BY WorkFacts
    <3> HIDE DEF ops
    <3> QED
      BY <3>1 DEF Setting
  <2> HIDE DEF ops
  <2>3. ops \in Seq(Commands)
    BY <2>1, <2>2, OpsDistinct
  <2> QED
    BY <2>3 DEF ops
<1> QED
  BY <1>1, OpsDistinct DEF Work

LEMMA OrderFacts ==
  ASSUME NEW S \in SUBSET Apps, NEW order \in SetToSeqs(S) \union Orders(S)
  PROVE  /\ Cardinality(S) \in Nat /\ order \in [1 .. Cardinality(S) -> S]
         /\ \A i, j \in 1 .. Cardinality(S) : i # j => order[i] # order[j]
<1>1. Cardinality(S) \in Nat
  BY FS_Subset, FS_CardinalityType, AppConvergeAssumption
<1> QED
  BY <1>1 DEF SetToSeqs, Orders, IsInjective

\* The jobs for a set of apps, in some order
LEMMA JobsFacts ==
  ASSUME NEW S \in SUBSET Apps, NEW order \in SetToSeqs(S) \union Orders(S),
         NEW work \in [Apps -> Seq(Commands)], \A a \in S : work[a] # <<>>
  PROVE  /\ Jobs(order, work) \in Seq(Job) /\ Apart(Jobs(order, work))
         /\ \A job \in Els(Jobs(order, work)) : job.app \in S /\ job.ops = work[job.app]
<1> DEFINE jobs == Jobs(order, work)
<1> DEFINE n == Cardinality(S)
<1>0. /\ n \in Nat /\ order \in [1 .. n -> S]
      /\ \A i, j \in 1 .. n : i # j => order[i] # order[j]
  BY OrderFacts
<1> HIDE DEF n
<1>1. jobs = [i \in 1 .. n |-> [app |-> order[i], ops |-> work[order[i]]]]
  BY <1>0 DEF Jobs
<1>2. \A i \in 1 .. n : /\ jobs[i].app = order[i] /\ jobs[i].ops = work[order[i]]
                        /\ order[i] \in S /\ jobs[i] \in Job
  BY <1>0, <1>1 DEF Job
<1>3. jobs \in Seq(Job) /\ Len(jobs) = n
  <2>1. jobs \in [1 .. n -> Job]
    BY <1>1, <1>2
  <2>2. n \in Nat
    BY <1>0
  <2> HIDE DEF jobs
  <2> QED
    BY <2>1, <2>2
<1> HIDE DEF jobs
<1>4. Apart(jobs)
  <2>1. \A i, j \in 1 .. n : i # j => jobs[i].app # jobs[j].app
    BY <1>0, <1>2
  <2> QED
    BY <1>3, <2>1 DEF Apart, Other
<1>5. \A job \in Els(jobs) : job.app \in S /\ job.ops = work[job.app]
  BY <1>2, <1>3 DEF Els
<1> QED
  BY <1>3, <1>4, <1>5 DEF jobs

LEMMA PlanFacts ==
  ASSUME NEW found \in AppConfigs, NEW wanted \in AppConfigs, NEW plan \in Plans(found, wanted)
  PROVE  /\ plan \in Seq(Job) /\ Apart(plan) /\ plan # <<>>
         /\ \A job \in Els(plan) : Planned(job, found, wanted)
<1> DEFINE work == Work(found, wanted)
           gone == Named(found) \ Named(wanted)
           kept == {a \in Named(found) \intersect Named(wanted) : work[a] # <<>>}
           new  == Named(wanted) \ Named(found)
           tool == [app |-> Comms, ops |-> <<"tools">>]
<1>1. PICK g \in SetToSeqs(gone), k \in Orders(kept), n \in Orders(new) :
        plan = Jobs(g, work) \o <<tool>> \o Jobs(k, work) \o Jobs(n, work)
  <2>1. Plans(found, wanted) =
          {Jobs(g, work) \o <<tool>> \o Jobs(k, work) \o Jobs(n, work) :
             g \in SetToSeqs(gone), k \in Orders(kept), n \in Orders(new)}
    BY DEF Plans
  <2> HIDE DEF work, gone, kept, new, tool
  <2> QED
    BY <2>1
<1>2. gone \in SUBSET Apps /\ kept \in SUBSET Apps /\ new \in SUBSET Apps
  BY DEF Named
<1>3. /\ work \in [Apps -> Seq(Commands)]
      /\ \A a \in gone : work[a] = G2 /\ work[a] # <<>> /\ found[a] # Absent /\ wanted[a] = Absent
      /\ \A a \in new : work[a] = I4 /\ work[a] # <<>> /\ wanted[a] # Absent
      /\ \A a \in kept : /\ found[a] # Absent /\ wanted[a] # Absent /\ work[a] # <<>>
                         /\ \/ work[a] \in Setting
                            \/ work[a] = U6 /\ found[a].version # wanted[a].version
  BY WorkType, WorkFacts DEF Named
<1> HIDE DEF work
<1>4. /\ Jobs(g, work) \in Seq(Job) /\ Apart(Jobs(g, work))
      /\ \A job \in Els(Jobs(g, work)) : job.app \in gone /\ job.ops = work[job.app]
  <2> HIDE DEF gone
  <2>1. \A a \in gone : work[a] # <<>>
    BY <1>3
  <2> QED
    BY <1>2, <1>3, <2>1, JobsFacts
<1>5. /\ Jobs(k, work) \in Seq(Job) /\ Apart(Jobs(k, work))
      /\ \A job \in Els(Jobs(k, work)) : job.app \in kept /\ job.ops = work[job.app]
  <2> HIDE DEF kept
  <2>1. \A a \in kept : work[a] # <<>>
    BY <1>3
  <2> QED
    BY <1>2, <1>3, <2>1, JobsFacts
<1>6. /\ Jobs(n, work) \in Seq(Job) /\ Apart(Jobs(n, work))
      /\ \A job \in Els(Jobs(n, work)) : job.app \in new /\ job.ops = work[job.app]
  <2> HIDE DEF new
  <2>1. \A a \in new : work[a] # <<>>
    BY <1>3
  <2> QED
    BY <1>2, <1>3, <2>1, JobsFacts
<1>7. <<tool>> \in Seq(Job) /\ Els(<<tool>>) = {tool} /\ Apart(<<tool>>) /\ tool.ops = T1
  <2>1. tool \in Job
    BY OpsDistinct, AppConvergeAssumption DEF Job, T1
  <2>2. Len(<<tool>>) = 1 /\ <<tool>>[1] = tool
    OBVIOUS
  <2> QED
    BY <2>1, <2>2 DEF Els, Apart, T1
<1> DEFINE s == Jobs(g, work) \o <<tool>>
           t == s \o Jobs(k, work)
<1>8. s \in Seq(Job) /\ Apart(s) /\ Els(s) = Els(Jobs(g, work)) \union {tool}
  BY <1>4, <1>7, JoinFacts DEF Other
<1> HIDE DEF s
<1>9. t \in Seq(Job) /\ Apart(t) /\ Els(t) = Els(Jobs(g, work)) \union {tool} \union Els(Jobs(k, work))
  <2>1. \A i \in Els(s), j \in Els(Jobs(k, work)) : Other(i, j)
    BY <1>4, <1>5, <1>7, <1>8 DEF Other
  <2> QED
    BY <1>5, <1>8, <2>1, JoinFacts
<1> HIDE DEF t
<1>10. /\ plan \in Seq(Job) /\ Apart(plan)
       /\ Els(plan) = Els(Jobs(g, work)) \union {tool} \union Els(Jobs(k, work)) \union Els(Jobs(n, work))
  <2>1. \A i \in Els(t), j \in Els(Jobs(n, work)) : Other(i, j)
    BY <1>4, <1>5, <1>6, <1>7, <1>9 DEF Other
  <2>2. plan = t \o Jobs(n, work)
    BY <1>1 DEF t, s
  <2> QED
    BY <1>6, <1>9, <2>1, <2>2, JoinFacts
<1>11. plan # <<>>
  BY <1>10, EmptyFacts
<1>12. \A job \in Els(plan) : Planned(job, found, wanted)
  BY <1>3, <1>4, <1>5, <1>6, <1>7, <1>10 DEF Planned
<1> QED
  BY <1>10, <1>11, <1>12
-----------------------------------------------------------------------------
(* One command after another. *)

\* The job at hand
LEMMA AtHand ==
  ASSUME IInv, todo # <<>>
  PROVE  /\ todo \in Seq(Job) /\ Apart(todo) /\ Head(todo) \in Job /\ Fit(Head(todo))
         /\ Tail(todo) \in Seq(Job) /\ Els(Tail(todo)) \subseteq Els(todo)
         /\ \A job \in Els(Tail(todo)) : Fit(job) /\ Other(Head(todo), job)
         /\ ~Waiting /\ goal = desired /\ goal \in AppConfigs /\ before \in AppConfigs
         /\ \A a \in Apps : Mixed(a)
<1>1. todo \in Seq(Job) /\ Apart(todo) /\ ~Waiting /\ goal = desired
  BY DEF IInv, TypeOK, AtWork
<1>2. goal \in AppConfigs /\ before \in AppConfigs
  BY <1>1 DEF IInv, TypeOK, Waiting
<1>3. (\A job \in Els(todo) : Fit(job)) /\ \A a \in Apps : Mixed(a)
  BY <1>1 DEF IInv, AtWork
<1> QED
  BY <1>1, <1>2, <1>3, FirstFacts

LEMMA FaultFacts == ASSUME IInv, Fault PROVE faults' \in 0 .. MaxFaults
BY AppConvergeAssumption DEF IInv, TypeOK, Fault

\* The other apps are as they were.
LEMMA OtherFit ==
  ASSUME NEW job, Fit(job), UNCHANGED <<goal, before>>, cache \subseteq cache',
         job.ops = T1 \/ apps'[job.app] = apps[job.app]
  PROVE  Fit(job)'
BY DEF Fit, Installed, Package

\* A command for one app that succeeds: the rest of its job fits what it has done.
LEMMA Continue ==
  ASSUME IInv, todo # <<>>, Advance, UNCHANGED <<goal, before, desired>>,
         cache \subseteq cache', NEW a \in Apps, Head(todo).app = a, Head(todo).ops # T1,
         \A b \in Apps \ {a} : apps'[b] = apps[b],
         NEW rest, Tail(Head(todo).ops) = rest,
         Mixed(a)', rest # <<>> => Fit([app |-> a, ops |-> rest])'
  PROVE  AtWork' /\ todo' \in Seq(Job)
<1>1. /\ todo' \in Seq(Job) /\ Apart(todo)'
      /\ \A job \in Els(todo)' :
           job \in Els(Tail(todo)) \/ (job = [app |-> a, ops |-> rest] /\ rest # <<>>)
  BY AtHand, AdvanceFacts, OpsFacts
<1>2. ASSUME NEW job \in Els(Tail(todo)) PROVE Fit(job)'
  <2>1. Fit(job) /\ job.app \in Apps /\ (job.ops = T1 \/ job.app # a)
    <3>1. Fit(job) /\ Other(Head(todo), job) /\ Tail(todo) \in Seq(Job)
      BY AtHand
    <3>2. job \in Job
      BY <3>1 DEF Els
    <3> QED
      BY <3>1, <3>2 DEF Other, Job
  <2> QED
    BY <2>1, OtherFit
<1>3. \A job \in Els(todo)' : Fit(job)'
  <2> TAKE job \in Els(todo)'
  <2>1. CASE job \in Els(Tail(todo))
    BY <1>2, <2>1
  <2>2. CASE job = [app |-> a, ops |-> rest] /\ rest # <<>>
    BY <2>2 DEF Fit
  <2> QED
    BY <1>1, <2>1, <2>2
<1>4. \A b \in Apps : Mixed(b)'
  BY AtHand DEF Mixed
<1>5. ~Waiting /\ ~Waiting' /\ goal' = desired'
  BY AtHand DEF Waiting
<1> QED
  BY <1>1, <1>3, <1>4, <1>5 DEF AtWork

\* An exception leaves the apps as they are.
LEMMA Broken ==
  ASSUME IInv, todo # <<>>, Abandon,
         UNCHANGED <<hostVars, desired, attempts, goal, before, replaced, messages>>,
         faults' \in 0 .. MaxFaults
  PROVE  IInv'
<1> USE DEF hostVars
<1>1. todo' = <<>> /\ todo' \in Seq(Job) /\ Apart(todo)' /\ Els(todo)' = {}
  BY EmptyFacts DEF Abandon
<1>2. TypeOK'
  BY <1>1 DEF IInv, TypeOK, HostTypeOK
<1>3. AtWork'
  BY <1>1, AtHand DEF AtWork, Waiting, Mixed
<1>4. Asked' /\ UpgradeNeedsNoNetwork'
  BY DEF IInv, Asked, UpgradeNeedsNoNetwork
<1> QED
  BY <1>2, <1>3, <1>4 DEF IInv

LEMMA NetworkKept ==
  ASSUME IInv, UNCHANGED desired, cache \subseteq cache', replaced' \subseteq replaced
  PROVE  Asked' /\ UpgradeNeedsNoNetwork'
BY DEF IInv, Asked, UpgradeNeedsNoNetwork

\* What may be left of an app that is there: any mix of what it was and what is
\* wanted, and of the factory's where the app is loose.
LEMMA LeftFacts ==
  ASSUME NEW old \in AppState \union {Absent}, NEW new \in AppState \union {Absent}, old # new
  PROVE  /\ \A x \in AppState :
              x \in Left(old, new) <=>
                /\ x.version \in {s.version : s \in Specs(old, new)}
                /\ x.settings \in {s.settings : s \in Specs(old, new)}
                     \/ (Loose(old, new) /\ x.settings = Factory)
                /\ x.running \in {s.running : s \in Specs(old, new)}
                     \/ (Loose(old, new) /\ x.running = FALSE)
         /\ Absent \in Left(old, new) <=> Loose(old, new)
<1> DEFINE V == {s.version : s \in Specs(old, new)}
           S == {s.settings : s \in Specs(old, new)}
                  \union (IF Stays(old, new) THEN {} ELSE {Factory})
           R == {s.running : s \in Specs(old, new)}
                  \union (IF Stays(old, new) THEN {} ELSE {FALSE})
           H == [version : V, settings : S, running : R]
<1>1. Left(old, new) = {old, new} \union (H \union (IF Stays(old, new) THEN {} ELSE {Absent}))
  BY DEF Left, HalfDone
<1>2. \A x \in AppState : x \in H <=> x.version \in V /\ x.settings \in S /\ x.running \in R
  BY DEF AppState
<1>3. \A x \in {old, new} : x # Absent => x \in AppState /\ x \in Specs(old, new)
  BY DEF Specs
<1>4. \A x \in {old, new} : x # Absent => x.version \in V /\ x.settings \in S /\ x.running \in R
  BY <1>3
<1>5. Absent \notin AppState
  BY SpecialValues
<1>6. Absent \notin H
  <2>1. \A x \in H : x \in AppState
    <3>1. V \subseteq Releases /\ S \subseteq Settings /\ R \subseteq BOOLEAN
      BY <1>3, FactoryAssumption DEF Specs, AppState
    <3> HIDE DEF V, S, R
    <3> QED
      BY <3>1 DEF AppState
  <2> QED
    BY <1>5, <2>1
<1>7. \A x \in AppState : x \in Left(old, new) <=> x \in H
  <2> HIDE DEF V, S, R
  <2>1. \A x \in AppState : x \in {old, new} => x \in H
    BY <1>2, <1>3, <1>4, <1>5
  <2> HIDE DEF H
  <2> QED
    BY <1>1, <1>5, <2>1
<1>8. Absent \in Left(old, new) <=> Loose(old, new)
  <2> HIDE DEF H
  <2> QED
    BY <1>1, <1>6 DEF Loose, Stays
<1>9. \A x \in AppState :
        (x \in H <=> /\ x.version \in {s.version : s \in Specs(old, new)}
                     /\ x.settings \in {s.settings : s \in Specs(old, new)}
                          \/ (Loose(old, new) /\ x.settings = Factory)
                     /\ x.running \in {s.running : s \in Specs(old, new)}
                          \/ (Loose(old, new) /\ x.running = FALSE))
  <2> HIDE DEF H
  <2> QED
    BY <1>2 DEF Loose
<1> HIDE DEF H
<1> QED
  BY <1>7, <1>8, <1>9

\* A part of an app that is changed into what is wanted
LEMMA PartChanged ==
  ASSUME NEW old \in AppState \union {Absent}, NEW new \in AppState \union {Absent}, old # new,
         NEW x \in AppState, x \in Left(old, new), NEW y \in AppState,
         y.version = x.version \/ (new # Absent /\ y.version = new.version),
         \/ y.settings = x.settings
         \/ new # Absent /\ y.settings = new.settings,
         \/ y.running = x.running
         \/ new # Absent /\ y.running = new.running
         \/ Loose(old, new) /\ y.running = FALSE
  PROVE  y \in Left(old, new)
<1> DEFINE V == {s.version : s \in Specs(old, new)}
           S == {s.settings : s \in Specs(old, new)}
           R == {s.running : s \in Specs(old, new)}
           In(z) == /\ z.version \in V
                    /\ z.settings \in S \/ (Loose(old, new) /\ z.settings = Factory)
                    /\ z.running \in R \/ (Loose(old, new) /\ z.running = FALSE)
<1>1. \A z \in AppState : z \in Left(old, new) <=> In(z)
  BY LeftFacts
<1>2. new # Absent => new.version \in V /\ new.settings \in S /\ new.running \in R
  BY DEF Specs
<1> HIDE DEF V, S, R
<1>3. In(x)
  BY <1>1
<1>4. In(y)
  BY <1>2, <1>3
<1> QED
  BY <1>1, <1>4

\* What calls leave of an app
Keeps(a) ==
  /\ apps' \in AppConfigs /\ \A b \in Apps \ {a} : apps'[b] = apps[b]
  /\ apps'[a] # Absent /\ Mixed(a)'

LEMMA SpecFacts ==
  ASSUME apps \in AppConfigs, before \in AppConfigs, goal \in AppConfigs, NEW a \in Apps
  PROVE  /\ apps[a] \in AppState \union {Absent}
         /\ before[a] \in AppState \union {Absent} /\ goal[a] \in AppState \union {Absent}
         /\ apps[a] # Absent => apps[a] \in AppState
         /\ goal[a] # Absent => goal[a] \in AppState /\ goal[a] \in Specs(before[a], goal[a])
BY DEF AppConfigs, Specs

\* An app that was changed into x
LEMMA KeepsFacts ==
  ASSUME apps \in AppConfigs, NEW a \in Apps, NEW x \in AppState, apps' = [apps EXCEPT ![a] = x],
         x \in Left(before[a], goal[a]), UNCHANGED <<before, goal>>
  PROVE  Keeps(a)
BY SpecialValues DEF AppConfigs, Keeps, Mixed

LEMMA RunFacts ==
  ASSUME apps \in AppConfigs, before \in AppConfigs, goal \in AppConfigs,
         NEW a \in Apps, Installed(a), Mixed(a), UNCHANGED <<before, goal>>,
         NEW run \in BOOLEAN, SetRunState(a, run),
         \/ goal[a] # Absent /\ run = goal[a].running
         \/ Loose(before[a], goal[a]) /\ run = FALSE
  PROVE  Keeps(a)
<1> DEFINE x == [apps[a] EXCEPT !.running = run]
<1>1. /\ apps[a] \in AppState /\ x \in AppState /\ x.version = apps[a].version
      /\ x.settings = apps[a].settings /\ x.running = run
  BY SpecFacts DEF Installed, AppState
<1>2. apps' = [apps EXCEPT ![a] = x]
  BY DEF SetRunState
<1>3. CASE before[a] = goal[a]
  <2>1. apps[a] = goal[a] /\ run = goal[a].running
    BY <1>3 DEF Mixed, Left, Loose
  <2>2. x = apps[a]
    BY <1>1, <2>1 DEF AppState
  <2> QED
    BY <1>1, <1>2, <2>2, KeepsFacts DEF Mixed
<1>4. CASE before[a] # goal[a]
  <2> HIDE DEF x
  <2>1. x \in Left(before[a], goal[a])
    BY <1>1, <1>4, SpecFacts, PartChanged DEF Mixed
  <2> QED
    BY <1>1, <1>2, <2>1, KeepsFacts
<1> QED
  BY <1>3, <1>4

LEMMA SettingsFacts ==
  ASSUME apps \in AppConfigs, before \in AppConfigs, goal \in AppConfigs,
         NEW a \in Apps, Installed(a), Mixed(a), UNCHANGED <<before, goal>>,
         goal[a] # Absent, SetSettings(a, goal[a].settings)
  PROVE  Keeps(a)
<1> DEFINE x == [apps[a] EXCEPT !.settings = goal[a].settings]
<1>1. /\ apps[a] \in AppState /\ x \in AppState /\ x.version = apps[a].version
      /\ x.settings = goal[a].settings /\ x.running = apps[a].running
  BY SpecFacts DEF Installed, AppState
<1>2. apps' = [apps EXCEPT ![a] = x]
  BY DEF SetSettings
<1>3. CASE before[a] = goal[a]
  <2>1. apps[a] = goal[a]
    BY <1>3 DEF Mixed, Left
  <2>2. x = apps[a]
    BY <1>1, <2>1 DEF AppState
  <2> QED
    BY <1>1, <1>2, <2>2, KeepsFacts DEF Mixed
<1>4. CASE before[a] # goal[a]
  <2> HIDE DEF x
  <2>1. x \in Left(before[a], goal[a])
    BY <1>1, <1>4, SpecFacts, PartChanged DEF Mixed
  <2> QED
    BY <1>1, <1>2, <2>1, KeepsFacts
<1> QED
  BY <1>3, <1>4

LEMMA InstallFacts ==
  ASSUME apps \in AppConfigs, before \in AppConfigs, goal \in AppConfigs,
         NEW a \in Apps, Mixed(a), UNCHANGED <<before, goal>>,
         goal[a] # Absent, InstallFromFile(a, goal[a].version)
  PROVE  Keeps(a)
<1>1. CASE UNCHANGED apps /\ Installed(a)
  BY <1>1 DEF Installed, Keeps, Mixed
<1>2. CASE Installed(a) /\ apps' = [apps EXCEPT ![a].version = goal[a].version]
  <2> DEFINE x == [apps[a] EXCEPT !.version = goal[a].version]
  <2>1. /\ apps[a] \in AppState /\ x \in AppState /\ x.version = goal[a].version
        /\ x.settings = apps[a].settings /\ x.running = apps[a].running
    BY <1>2, SpecFacts DEF Installed, AppState
  <2>2. apps' = [apps EXCEPT ![a] = x]
    BY <1>2
  <2>3. CASE before[a] = goal[a]
    <3>1. apps[a] = goal[a]
      BY <2>3 DEF Mixed, Left
    <3>2. x = apps[a]
      BY <2>1, <3>1 DEF AppState
    <3> QED
      BY <2>1, <2>2, <3>2, KeepsFacts DEF Mixed
  <2>4. CASE before[a] # goal[a]
    <3> HIDE DEF x
    <3>1. x \in Left(before[a], goal[a])
      BY <2>1, <2>4, SpecFacts, PartChanged DEF Mixed
    <3> QED
      BY <2>1, <2>2, <3>1, KeepsFacts
  <2> QED
    BY <2>3, <2>4
<1>3. CASE /\ ~Installed(a)
           /\ apps' = [apps EXCEPT ![a] =
                         [version |-> goal[a].version, settings |-> Factory, running |-> FALSE]]
  <2> DEFINE x == [version |-> goal[a].version, settings |-> Factory, running |-> FALSE]
  <2>1. /\ x \in AppState /\ x.version = goal[a].version
        /\ x.settings = Factory /\ x.running = FALSE
    BY SpecFacts, FactoryAssumption DEF AppState
  <2>2. before[a] # goal[a] /\ Absent \in Left(before[a], goal[a])
    BY <1>3 DEF Mixed, Left, Installed
  <2> HIDE DEF x
  <2>3. x \in Left(before[a], goal[a])
    <3> DEFINE V == {s.version : s \in Specs(before[a], goal[a])}
    <3>1. /\ before[a] \in AppState \union {Absent} /\ goal[a] \in AppState \union {Absent}
          /\ goal[a] \in Specs(before[a], goal[a])
      BY SpecFacts
    <3>2. Loose(before[a], goal[a]) /\ x.version \in V
      BY <2>1, <2>2, <3>1, LeftFacts
    <3> QED
      BY <2>1, <2>2, <3>1, <3>2, LeftFacts
  <2> QED
    BY <1>3, <2>1, <2>3, KeepsFacts DEF x
<1> QED
  BY <1>1, <1>2, <1>3 DEF InstallFromFile

\* An app that goes or changes its version is loose.
LEMMA LooseFacts ==
  ASSUME before \in AppConfigs, goal \in AppConfigs, NEW a \in Apps, Mixed(a),
         \/ goal[a] = Absent /\ Installed(a)
         \/ goal[a] # Absent /\ before[a] # Absent /\ before[a].version # goal[a].version
  PROVE  Loose(before[a], goal[a])
BY DEF Mixed, Left, Loose, Stays, Installed

\* The command at hand says what the job is, and what is left of it.
LEMMA HeadOps ==
  ASSUME IInv, NEW op, NEW a, At(op, a)
  PROVE  LET ops == Head(todo).ops IN
         /\ todo # <<>> /\ Head(todo).app = a /\ a \in Apps
         /\ op = "stop"      => (ops = G2 /\ Tail(ops) = G1) \/ (ops = U5 /\ Tail(ops) = U4)
         /\ op = "remove"    => (ops = G1 /\ Tail(ops) = <<>>) \/ (ops = U4 /\ Tail(ops) = I3)
         /\ op = "download"  => (ops = U6 /\ Tail(ops) = U5) \/ (ops = I4 /\ Tail(ops) = I3)
         /\ op = "install"   => (ops = I3 /\ Tail(ops) = S2)
         /\ op = "configure" => (ops = S2 /\ Tail(ops) = S1) \/ (ops = C1 /\ Tail(ops) = <<>>)
         /\ op = "serve"     => (ops = S1 /\ Tail(ops) = <<>>)
         /\ op = "tools"     => (ops = T1 /\ Tail(ops) = <<>>)
<1>1. todo # <<>> /\ Head(todo).app = a /\ Head(Head(todo).ops) = op
  BY DEF At
<1>2. Head(todo) \in Job /\ Fit(Head(todo))
  BY <1>1, AtHand
<1>3. a \in Apps
  BY <1>1, <1>2 DEF Job
<1>4. Head(todo).ops \in {G1, G2, U4, U5, U6, I3, I4, S2, C1, S1, T1}
  BY <1>2 DEF Fit, Going, Upgrading, Installing, Setting
<1> QED
  BY <1>1, <1>3, <1>4, OpsFacts

\* What Fit says of each job at hand
LEMMA HeadFit ==
  ASSUME IInv, todo # <<>>, NEW a, Head(todo).app = a
  PROVE  LET ops == Head(todo).ops IN
         /\ ops \in {G1, G2} => goal[a] = Absent /\ Installed(a)
         /\ ops \in {U4, U5, U6} =>
              /\ goal[a] # Absent /\ Installed(a)
              /\ before[a] # Absent /\ before[a].version # goal[a].version
              /\ ops # U6 => Package(a) \in cache
         /\ ops \in {I3, I4} => goal[a] # Absent
         /\ ops \in {S2, C1, S1} => goal[a] # Absent /\ Installed(a)
<1>1. Fit(Head(todo))
  BY AtHand
<1> QED
  BY <1>1, OpsDistinct DEF Fit, Going, Upgrading, Installing, Setting

LEMMA TypeKept ==
  ASSUME IInv, Working, todo' \in Seq(Job), apps' \in AppConfigs, tools' \in BOOLEAN,
         cache' \subseteq (Apps \union {Agent}) \X Releases, UNCHANGED agent,
         replaced' \subseteq Apps, faults' \in 0 .. MaxFaults
  PROVE  TypeOK'
BY DEF IInv, TypeOK, HostTypeOK, Working

\* A command that leaves the app there, at its version, or fetches its package
LEMMA RestFits ==
  ASSUME NEW a, NEW rest,
         \/ rest \in Going /\ goal'[a] = Absent /\ Installed(a)'
         \/ /\ rest \in {U4, U5} /\ goal'[a] # Absent /\ Installed(a)'
            /\ before'[a] # Absent /\ before'[a].version # goal'[a].version
            /\ Package(a)' \in cache'
         \/ rest \in Installing /\ goal'[a] # Absent
         \/ rest \in Setting /\ goal'[a] # Absent /\ Installed(a)'
  PROVE  Fit([app |-> a, ops |-> rest])'
BY DEF Fit, Upgrading

LEMMA KeepStep ==
  ASSUME IInv, NEW op \in {"stop", "download", "configure", "serve"}, NEW a, At(op, a),
         Working, Advance, UNCHANGED <<tools, agent, replaced>>, cache \subseteq cache',
         cache' \subseteq (Apps \union {Agent}) \X Releases, faults' \in 0 .. MaxFaults,
         IF op = "download" THEN UNCHANGED apps ELSE Keeps(a),
         op = "download" => Package(a) \in cache'
  PROVE  IInv'
<1>0. PICK rest, ops : Tail(Head(todo).ops) = rest /\ Head(todo).ops = ops
  OBVIOUS
<1>1. todo # <<>> /\ Head(todo).app = a /\ a \in Apps
  BY HeadOps
<1>2. /\ op = "stop"      => (ops = G2 /\ rest = G1) \/ (ops = U5 /\ rest = U4)
      /\ op = "download"  => (ops = U6 /\ rest = U5) \/ (ops = I4 /\ rest = I3)
      /\ op = "configure" => (ops = S2 /\ rest = S1) \/ (ops = C1 /\ rest = <<>>)
      /\ op = "serve"     => (ops = S1 /\ rest = <<>>)
  BY <1>0, HeadOps
<1>3. /\ ops \in {G1, G2} => goal[a] = Absent /\ Installed(a)
      /\ ops \in {U4, U5, U6} =>
           /\ goal[a] # Absent /\ Installed(a)
           /\ before[a] # Absent /\ before[a].version # goal[a].version
           /\ ops # U6 => Package(a) \in cache
      /\ ops \in {I3, I4} => goal[a] # Absent
      /\ ops \in {S2, C1, S1} => goal[a] # Absent /\ Installed(a)
  BY <1>0, <1>1, HeadFit
<1>4. UNCHANGED <<goal, before, desired, attempts, messages>>
  BY DEF Working
<1>5. Installed(a) => Installed(a)'
  BY DEF Keeps, Installed
<1>6. ops # T1
  BY <1>2, OpsDistinct
<1>7. op # "download" => Installed(a)
  BY <1>2, <1>3
<1>8. Mixed(a)'
  <2>1. CASE op = "download"
    BY <1>1, <1>4, <2>1, AtHand DEF Mixed
  <2>2. CASE op # "download"
    BY <2>2 DEF Keeps
  <2> QED
    BY <2>1, <2>2
<1>9. rest # <<>> => Fit([app |-> a, ops |-> rest])'
  <2>0. Package(a)' = Package(a)
    BY <1>4 DEF Package
  <2>1. CASE op = "stop" /\ ops = G2
    BY <1>2, <1>3, <1>4, <1>5, <2>1, OpsDistinct, RestFits DEF Going
  <2>2. CASE op = "stop" /\ ops = U5
    BY <1>2, <1>3, <1>4, <1>5, <2>0, <2>2, OpsDistinct, RestFits
  <2>3. CASE op = "download" /\ ops = U6
    BY <1>2, <1>3, <1>4, <1>5, <2>0, <2>3, OpsDistinct, RestFits
  <2>4. CASE op = "download" /\ ops = I4
    BY <1>2, <1>3, <1>4, <2>4, OpsDistinct, RestFits DEF Installing
  <2>5. CASE op = "configure" /\ ops = S2
    BY <1>2, <1>3, <1>4, <1>5, <2>5, OpsDistinct, RestFits DEF Setting
  <2>6. CASE rest = <<>>
    BY <2>6
  <2> QED
    BY <1>2, <2>1, <2>2, <2>3, <2>4, <2>5, <2>6
<1>10. apps' \in AppConfigs /\ \A b \in Apps \ {a} : apps'[b] = apps[b]
  BY DEF Keeps, IInv, TypeOK, HostTypeOK
<1>11. AtWork' /\ todo' \in Seq(Job)
  <2>1. Head(todo).ops # T1
    BY <1>0, <1>6
  <2> QED
    BY <1>0, <1>1, <1>4, <1>8, <1>9, <1>10, <2>1, Continue
<1>12. TypeOK'
  <2>1. tools' \in BOOLEAN /\ replaced' \subseteq Apps
    BY DEF IInv, TypeOK, HostTypeOK
  <2> QED
    BY <1>10, <1>11, <2>1, TypeKept
<1>13. Asked' /\ UpgradeNeedsNoNetwork'
  BY <1>4, NetworkKept
<1> QED
  BY <1>11, <1>12, <1>13 DEF IInv

\* Stop, Serve: the service does as it is told, or that is logged
LEMMA ServiceStep ==
  ASSUME IInv, NEW op \in {"stop", "serve"}, NEW a, NEW run \in BOOLEAN, Service(op, a, run),
         run = IF op = "stop" THEN FALSE ELSE goal[a].running
  PROVE  IInv'
<1>1. At(op, a) /\ Working
  BY DEF Service
<1>2. /\ Installed(a) /\ a \in Apps /\ Mixed(a)
      /\ before \in AppConfigs /\ goal \in AppConfigs
      /\ \/ goal[a] # Absent /\ run = goal[a].running
         \/ Loose(before[a], goal[a]) /\ run = FALSE
  <2>1. PICK ops : Head(todo).ops = ops
    OBVIOUS
  <2>2. /\ todo # <<>> /\ Head(todo).app = a /\ a \in Apps
        /\ op = "stop" => ops = G2 \/ ops = U5
        /\ op = "serve" => ops = S1
    BY <1>1, <2>1, HeadOps
  <2>3. before \in AppConfigs /\ goal \in AppConfigs /\ Mixed(a)
    BY <2>2, AtHand
  <2>4. CASE op = "stop"
    <3>1. /\ Installed(a)
          /\ \/ goal[a] = Absent
             \/ goal[a] # Absent /\ before[a] # Absent /\ before[a].version # goal[a].version
      BY <2>1, <2>2, <2>4, HeadFit
    <3> QED
      BY <2>2, <2>3, <2>4, <3>1, LooseFacts
  <2>5. CASE op = "serve"
    <3>1. Installed(a) /\ goal[a] # Absent
      BY <2>1, <2>2, <2>5, HeadFit
    <3> QED
      BY <2>2, <2>3, <2>5, <3>1
  <2> QED
    BY <2>4, <2>5
<1>3. apps \in AppConfigs /\ cache \subseteq (Apps \union {Agent}) \X Releases
      /\ faults \in 0 .. MaxFaults
  BY DEF IInv, TypeOK, HostTypeOK
<1>4. CASE SetRunState(a, run) /\ Succeeds
  <2>1. Keeps(a)
    BY <1>1, <1>2, <1>3, <1>4, RunFacts DEF Working
  <2>2. Advance /\ UNCHANGED <<tools, agent, replaced, cache, faults>>
    BY <1>4 DEF SetRunState, Succeeds
  <2> QED
    BY <1>1, <1>3, <2>1, <2>2, KeepStep
<1>5. CASE Fault /\ Advance /\ UNCHANGED <<hostVars, replaced>>
  <2>1. UNCHANGED <<apps, tools, agent, cache>>
    BY <1>5 DEF hostVars
  <2>2. Keeps(a)
    BY <1>1, <1>2, <1>3, <2>1 DEF Keeps, Installed, Mixed, Working
  <2>3. faults' \in 0 .. MaxFaults
    BY <1>5, FaultFacts
  <2> QED
    BY <1>1, <1>3, <1>5, <2>1, <2>2, <2>3, KeepStep
<1> QED
  BY <1>4, <1>5 DEF Service

LEMMA RaisesStep == ASSUME IInv, todo # <<>>, Working, Raises PROVE IInv'
BY FaultFacts, Broken DEF Working, Raises

LEMMA FetchStep == ASSUME IInv, NEW a, Fetch(a) PROVE IInv'
<1>1. At("download", a) /\ Working /\ todo # <<>> /\ Head(todo).app = a /\ a \in Apps
  BY HeadOps DEF Fetch
<1>2. CASE Download(<<a, goal[a].version>>) /\ Succeeds
  <2>1. goal[a] # Absent /\ goal \in AppConfigs
    <3>1. PICK ops : Head(todo).ops = ops
      OBVIOUS
    <3>2. ops = U6 \/ ops = I4
      BY <1>1, <3>1, HeadOps
    <3> QED
      BY <1>1, <3>1, <3>2, HeadFit, AtHand
  <2>2. Package(a) \in (Apps \union {Agent}) \X Releases
    BY <1>1, <2>1 DEF AppConfigs, AppState, Package
  <2>3. cache' = cache \union {Package(a)} /\ UNCHANGED <<apps, tools, agent, replaced, faults>> /\ Advance
    BY <1>2 DEF Download, Succeeds, Package
  <2>4. cache \subseteq (Apps \union {Agent}) \X Releases /\ faults \in 0 .. MaxFaults
    BY DEF IInv, TypeOK, HostTypeOK
  <2> QED
    BY <1>1, <2>2, <2>3, <2>4, KeepStep
<1>3. CASE Raises
  BY <1>1, <1>3, RaisesStep
<1> QED
  BY <1>2, <1>3 DEF Fetch

LEMMA ConfigureStep == ASSUME IInv, NEW a, Configure(a) PROVE IInv'
<1>1. At("configure", a) /\ Working /\ todo # <<>> /\ Head(todo).app = a /\ a \in Apps
  BY HeadOps DEF Configure
<1>2. CASE SetSettings(a, goal[a].settings) /\ Succeeds
  <2>1. goal[a] # Absent /\ Installed(a) /\ goal \in AppConfigs
    <3>1. PICK ops : Head(todo).ops = ops
      OBVIOUS
    <3>2. ops = S2 \/ ops = C1
      BY <1>1, <3>1, HeadOps
    <3> QED
      BY <1>1, <3>1, <3>2, HeadFit, AtHand
  <2>2. before \in AppConfigs /\ Mixed(a) /\ UNCHANGED <<before, goal>>
    BY <1>1, AtHand DEF Working
  <2>3. /\ apps \in AppConfigs /\ cache \subseteq (Apps \union {Agent}) \X Releases
        /\ faults \in 0 .. MaxFaults
    BY DEF IInv, TypeOK, HostTypeOK
  <2>4. Keeps(a)
    BY <1>1, <1>2, <2>1, <2>2, <2>3, SettingsFacts
  <2>5. UNCHANGED <<tools, agent, cache, replaced, faults>> /\ Advance
    BY <1>2 DEF SetSettings, Succeeds
  <2> QED
    BY <1>1, <2>3, <2>4, <2>5, KeepStep
<1>3. CASE Raises
  BY <1>1, <1>3, RaisesStep
<1> QED
  BY <1>2, <1>3 DEF Configure

LEMMA RemoveStep == ASSUME IInv, NEW a, RemoveApp(a) PROVE IInv'
<1>1. At("remove", a) /\ Working /\ todo # <<>> /\ Head(todo).app = a /\ a \in Apps
  BY HeadOps DEF RemoveApp
<1>2. UNCHANGED <<goal, before, desired, attempts, messages>>
  BY <1>1 DEF Working
<1>3. CASE /\ RemovePackage(a) /\ Advance /\ UNCHANGED faults
           /\ replaced' = IF goal[a] = Absent THEN replaced ELSE replaced \union {a}
  <2>0. PICK rest, ops : Tail(Head(todo).ops) = rest /\ Head(todo).ops = ops
    OBVIOUS
  <2>1. (ops = G1 /\ rest = <<>>) \/ (ops = U4 /\ rest = I3)
    BY <1>1, <2>0, HeadOps
  <2>2. /\ ops = G1 => goal[a] = Absent
        /\ ops = U4 => /\ goal[a] # Absent /\ before[a] # Absent
                       /\ before[a].version # goal[a].version /\ Package(a) \in cache
        /\ Installed(a)
    BY <1>1, <2>0, <2>1, HeadFit, OpsDistinct
  <2>3. apps' = [apps EXCEPT ![a] = Absent] /\ UNCHANGED <<tools, cache, agent>>
    BY <1>3 DEF RemovePackage
  <2>4. /\ apps \in AppConfigs /\ cache \subseteq (Apps \union {Agent}) \X Releases
        /\ faults \in 0 .. MaxFaults /\ tools \in BOOLEAN /\ replaced \subseteq Apps
    BY DEF IInv, TypeOK, HostTypeOK
  <2>5. apps' \in AppConfigs /\ apps'[a] = Absent /\ \A b \in Apps \ {a} : apps'[b] = apps[b]
    BY <1>1, <2>3, <2>4 DEF AppConfigs
  <2>6. Mixed(a)'
    <3>1. before \in AppConfigs /\ goal \in AppConfigs /\ Mixed(a)
      BY <1>1, AtHand
    <3>2. Loose(before[a], goal[a])
      BY <1>1, <2>1, <2>2, <3>1, LooseFacts
    <3>3. Absent \in Left(before[a], goal[a])
      BY <1>1, <3>1, <3>2, SpecFacts, LeftFacts, <2>4 DEF Loose
    <3> QED
      BY <1>2, <2>5, <3>3 DEF Mixed
  <2>7. rest # <<>> => Fit([app |-> a, ops |-> rest])'
    BY <1>2, <2>1, <2>2, OpsDistinct, RestFits DEF Installing
  <2>8. AtWork' /\ todo' \in Seq(Job)
    <3>1. Head(todo).ops # T1
      BY <2>0, <2>1, OpsDistinct
    <3> QED
      BY <1>1, <1>2, <1>3, <2>0, <2>3, <2>5, <2>6, <2>7, <3>1, Continue
  <2>9. TypeOK'
    BY <1>1, <1>3, <2>3, <2>4, <2>5, <2>8, TypeKept
  <2>10. Asked' /\ UpgradeNeedsNoNetwork'
    <3>1. goal = desired /\ desired # NoConfig
      BY <1>1, AtHand DEF Waiting
    <3>2. \A b \in replaced : desired[b] # Absent /\ <<b, desired[b].version>> \in cache
      BY DEF IInv, UpgradeNeedsNoNetwork
    <3>3. \A b \in replaced' : desired[b] # Absent /\ <<b, desired[b].version>> \in cache
      BY <1>3, <2>1, <2>2, <3>1, <3>2 DEF Package
    <3> QED
      BY <1>2, <2>3, <3>1, <3>3 DEF Asked, UpgradeNeedsNoNetwork
  <2> QED
    BY <2>8, <2>9, <2>10 DEF IInv
<1>4. CASE Raises
  BY <1>1, <1>4, RaisesStep
<1> QED
  BY <1>3, <1>4 DEF RemoveApp

LEMMA InstallStep == ASSUME IInv, NEW a, Install(a) PROVE IInv'
<1>1. At("install", a) /\ Working /\ todo # <<>> /\ Head(todo).app = a /\ a \in Apps
  BY HeadOps DEF Install
<1>2. UNCHANGED <<goal, before, desired, attempts, messages>>
  BY <1>1 DEF Working
<1>3. CASE /\ InstallFromFile(a, goal[a].version) /\ cache' = cache \union {<<a, goal[a].version>>}
           /\ Advance /\ replaced' = replaced \ {a} /\ UNCHANGED faults
  <2>0. PICK rest, ops : Tail(Head(todo).ops) = rest /\ Head(todo).ops = ops
    OBVIOUS
  <2>1. ops = I3 /\ rest = S2
    BY <1>1, <2>0, HeadOps
  <2>2. goal[a] # Absent /\ goal \in AppConfigs
    BY <1>1, <2>0, <2>1, HeadFit, AtHand
  <2>3. goal[a].version \in Releases
    BY <1>1, <2>2 DEF AppConfigs, AppState
  <2>4. /\ apps \in AppConfigs /\ cache \subseteq (Apps \union {Agent}) \X Releases
        /\ faults \in 0 .. MaxFaults /\ tools \in BOOLEAN /\ replaced \subseteq Apps
    BY DEF IInv, TypeOK, HostTypeOK
  <2>5. /\ apps' \in AppConfigs /\ \A b \in Apps \ {a} : apps'[b] = apps[b]
        /\ apps'[a] # Absent /\ Mixed(a)'
    <3>1. before \in AppConfigs /\ Mixed(a)
      BY <1>1, AtHand
    <3> QED
      BY <1>1, <1>2, <1>3, <2>2, <2>4, <3>1, InstallFacts DEF Keeps
  <2>6. Mixed(a)'
    BY <2>5
  <2>7. rest # <<>> => Fit([app |-> a, ops |-> rest])'
    BY <1>2, <2>1, <2>2, <2>5, OpsDistinct, RestFits DEF Setting, Installed
  <2>8. UNCHANGED <<tools, agent>>
    BY <1>3 DEF InstallFromFile
  <2>9. AtWork' /\ todo' \in Seq(Job)
    <3>1. Head(todo).ops # T1
      BY <2>0, <2>1, OpsDistinct
    <3> QED
      BY <1>1, <1>2, <1>3, <2>0, <2>5, <2>6, <2>7, <3>1, Continue
  <2>10. TypeOK'
    <3>1. cache' \subseteq (Apps \union {Agent}) \X Releases
      BY <1>1, <1>3, <2>3, <2>4
    <3> QED
      BY <1>1, <1>3, <2>4, <2>5, <2>8, <2>9, <3>1, TypeKept
  <2>11. Asked' /\ UpgradeNeedsNoNetwork'
    BY <1>2, <1>3, NetworkKept
  <2> QED
    BY <2>9, <2>10, <2>11 DEF IInv
<1>4. CASE Raises
  BY <1>1, <1>4, RaisesStep
<1> QED
  BY <1>3, <1>4 DEF Install

LEMMA ToolsStep == ASSUME IInv, Tools PROVE IInv'
<1>1. At("tools", Comms) /\ Working /\ todo # <<>>
  BY HeadOps DEF Tools
<1>2. CASE InstallDep /\ Succeeds
  <2>1. /\ UNCHANGED <<goal, before, desired, attempts, messages, apps, cache, agent, replaced, faults>>
        /\ tools' = TRUE /\ Advance
    BY <1>1, <1>2 DEF Working, InstallDep, Succeeds
  <2>2. PICK rest : Tail(Head(todo).ops) = rest /\ rest = <<>>
    BY <1>1, HeadOps
  <2>3. /\ todo' \in Seq(Job) /\ Apart(todo)'
        /\ \A job \in Els(todo)' : job \in Els(Tail(todo))
    BY <1>1, <2>1, <2>2, AtHand, AdvanceFacts, OpsFacts
  <2>4. \A job \in Els(todo)' : Fit(job)'
    <3> TAKE job \in Els(todo)'
    <3>1. Fit(job)
      BY <1>1, <2>3, AtHand
    <3> QED
      BY <2>1, <3>1, OtherFit
  <2>5. AtWork'
    <3>1. \A b \in Apps : Mixed(b)'
      BY <1>1, <2>1, AtHand DEF Mixed
    <3>2. ~Waiting /\ ~Waiting' /\ goal' = desired'
      BY <1>1, <2>1, AtHand DEF Waiting
    <3> QED
      BY <2>3, <2>4, <3>1, <3>2 DEF AtWork
  <2>6. TypeOK'
    BY <1>1, <2>1, <2>3 DEF IInv, TypeOK, HostTypeOK
  <2>7. Asked' /\ UpgradeNeedsNoNetwork'
    BY <2>1, NetworkKept
  <2> QED
    BY <2>5, <2>6, <2>7 DEF IInv
<1>3. CASE Raises
  BY <1>1, <1>3, RaisesStep
<1> QED
  BY <1>2, <1>3 DEF Tools
-----------------------------------------------------------------------------
(* The start and the end of a change, and the rest of the host. *)

LEMMA ForceFacts ==
  ASSUME NEW wanted \in AppConfigs
  PROVE  /\ ForceComms(wanted) \in AppConfigs
         /\ \A a \in Apps : /\ ForceComms(wanted)[a] = Absent <=> wanted[a] = Absent
                            /\ wanted[a] # Absent => ForceComms(wanted)[a].version = wanted[a].version
<1>1. CASE wanted[Comms] = Absent
  BY <1>1 DEF ForceComms
<1>2. CASE wanted[Comms] # Absent
  <2>1. wanted[Comms] \in AppState /\ [wanted[Comms] EXCEPT !.running = TRUE] \in AppState
    BY <1>2, AppConvergeAssumption DEF AppConfigs, AppState
  <2>2. [wanted[Comms] EXCEPT !.running = TRUE].version = wanted[Comms].version
    BY <2>1 DEF AppState
  <2>3. ForceComms(wanted) = [wanted EXCEPT ![Comms] = [wanted[Comms] EXCEPT !.running = TRUE]]
    BY <1>2 DEF ForceComms
  <2> QED
    BY <1>2, <2>1, <2>2, <2>3, AppConvergeAssumption, SpecialValues DEF AppConfigs
<1> QED
  BY <1>1, <1>2

\* While the agent waits there is nothing to do.
LEMMA IdleFacts ==
  ASSUME TypeOK, Asked, UpgradeNeedsNoNetwork, goal = NoConfig, todo = <<>>
  PROVE  IInv
BY EmptyFacts DEF IInv, AtWork, Waiting

LEMMA IdleStep ==
  ASSUME TypeOK', Asked', UpgradeNeedsNoNetwork', goal' = NoConfig, todo' = <<>>
  PROVE  IInv'
BY EmptyFacts DEF IInv, AtWork, Waiting, Els, Apart

LEMMA HandleStep ==
  ASSUME IInv, Waiting, NEW found \in {apps, QueryFailed}, NEW wanted \in AppConfigs,
         NEW tried \in 0 .. MaxAttempts, Handle(found, wanted, tried),
         faults' \in 0 .. MaxFaults, messages' \in 0 .. MaxMessages,
         replaced' \subseteq replaced, replaced' # {} => wanted = desired
  PROVE  IInv'
<1>1. /\ tools' = TRUE /\ UNCHANGED <<apps, cache, agent>> /\ desired' = ForceComms(wanted)
  BY DEF Handle, InstallDep
<1>2. /\ desired' \in AppConfigs
      /\ \A a \in Apps : /\ desired'[a] = Absent <=> wanted[a] = Absent
                         /\ wanted[a] # Absent => desired'[a].version = wanted[a].version
  BY <1>1, ForceFacts
<1>3. Asked' /\ UpgradeNeedsNoNetwork'
  <2>1. desired' # NoConfig
    BY <1>2, SpecialValues
  <2>2. replaced \subseteq Apps /\ \A a \in replaced : desired[a] # Absent /\ <<a, desired[a].version>> \in cache
    BY DEF IInv, TypeOK, UpgradeNeedsNoNetwork
  <2>3. \A a \in replaced' : desired'[a] # Absent /\ <<a, desired'[a].version>> \in cache
    BY <1>2, <2>2
  <2> QED
    BY <1>1, <2>1, <2>3 DEF Asked, UpgradeNeedsNoNetwork
<1>4. todo = <<>> /\ goal = NoConfig
  BY DEF IInv, AtWork, Waiting
<1>5. HostTypeOK' /\ replaced' \subseteq Apps
  BY <1>1 DEF IInv, TypeOK, HostTypeOK
<1>6. CASE attempts' = tried /\ UNCHANGED <<goal, todo, before>>
  <2>1. TypeOK'
    BY <1>2, <1>5, <1>6 DEF IInv, TypeOK
  <2> QED
    BY <1>3, <1>4, <1>6, <2>1, IdleStep
<1>7. CASE /\ attempts' = tried + 1 /\ ~Exhausted(tried)
           /\ goal' = desired' /\ todo' \in Plans(found, desired') /\ before' = apps
  <2>1. found \in AppConfigs /\ apps \in AppConfigs /\ \A a \in Apps : found[a] # Absent => found[a] = apps[a]
    BY DEF IInv, TypeOK, HostTypeOK, QueryFailed, NoApps, AppConfigs
  <2>2. PICK plan : plan = todo' /\ plan \in Plans(found, desired')
    BY <1>7
  <2>3. PICK d \in AppConfigs : d = desired'
    BY <1>2
  <2>4. /\ plan \in Seq(Job) /\ Apart(plan)
        /\ \A job \in Els(plan) : Planned(job, found, d)
    BY <2>1, <2>2, <2>3, PlanFacts
  <2>5. todo' \in Seq(Job) /\ Apart(todo)' /\ Els(todo)' = Els(plan)
    BY <2>2, <2>4 DEF Apart, Els
  <2>6. ASSUME NEW job \in Els(plan) PROVE Fit(job)'
    <3>1. Planned(job, found, d) /\ job.app \in Apps
      <4>1. job \in Job
        BY <2>4 DEF Els
      <4> QED
        BY <2>4, <4>1 DEF Job
    <3>2. goal' = d /\ before' = apps /\ apps' = apps
      BY <1>1, <1>7, <2>3
    <3> QED
      BY <2>1, <3>1, <3>2 DEF Planned, Fit, Going, Upgrading, Installing, Installed
  <2>7. \A a \in Apps : Mixed(a)'
    BY <1>1, <1>7 DEF Mixed, Left
  <2>8. AtWork'
    <3>1. goal' # NoConfig /\ goal' = desired'
      BY <1>2, <1>7, SpecialValues
    <3> QED
      BY <2>5, <2>6, <2>7, <3>1 DEF AtWork, Waiting
  <2>9. TypeOK'
    <3>1. attempts' \in 0 .. MaxAttempts
      BY <1>7, AppConvergeAssumption DEF Exhausted
    <3> QED
      BY <1>2, <1>5, <1>7, <2>1, <2>5, <3>1 DEF TypeOK
  <2> QED
    BY <1>3, <2>8, <2>9 DEF IInv
<1> QED
  BY <1>6, <1>7 DEF Handle

LEMMA QueryFacts ==
  ASSUME IInv, NEW found, CurrentConfig(found)
  PROVE  faults' \in 0 .. MaxFaults /\ found \in {apps, QueryFailed}
BY FaultFacts DEF CurrentConfig, IInv, TypeOK

LEMMA HeartbeatStep == ASSUME IInv, Heartbeat PROVE IInv'
<1>1. PICK found \in {apps, QueryFailed} :
        /\ CurrentConfig(found)
        /\ Handle(found, IF desired = NoConfig THEN found ELSE desired, attempts)
  BY DEF Heartbeat
<1>2. Waiting /\ UNCHANGED <<messages, replaced>>
  BY DEF Heartbeat
<1>3. faults' \in 0 .. MaxFaults
  BY <1>1, QueryFacts
<1>4. attempts \in 0 .. MaxAttempts /\ messages' \in 0 .. MaxMessages
  BY <1>2 DEF IInv, TypeOK
<1>5. CASE desired = NoConfig
  <2>1. found \in AppConfigs /\ replaced' = {}
    BY <1>2, <1>5 DEF IInv, TypeOK, HostTypeOK, QueryFailed, NoApps, AppConfigs, Asked
  <2>2. Handle(found, found, attempts)
    BY <1>1, <1>5
  <2> QED
    BY <1>1, <1>2, <1>3, <1>4, <2>1, <2>2, HandleStep
<1>6. CASE desired # NoConfig
  <2>1. desired \in AppConfigs /\ Handle(found, desired, attempts)
    BY <1>1, <1>6 DEF IInv, TypeOK
  <2> QED
    BY <1>1, <1>2, <1>3, <1>4, <2>1, HandleStep
<1> QED
  BY <1>5, <1>6

LEMMA ReceiveFacts == ASSUME IInv, Receive PROVE Waiting /\ messages' \in 0 .. MaxMessages
BY AppConvergeAssumption DEF Receive, IInv, TypeOK

LEMMA SetConfigStep == ASSUME IInv, NEW wanted \in Goals, SetConfig(wanted) PROVE IInv'
<1>1. PICK found \in {apps, QueryFailed} : CurrentConfig(found) /\ Handle(found, wanted, 0)
  BY DEF SetConfig
<1>2. /\ Waiting /\ messages' \in 0 .. MaxMessages /\ replaced' = {}
      /\ wanted \in AppConfigs /\ 0 \in 0 .. MaxAttempts /\ faults' \in 0 .. MaxFaults
  BY <1>1, ReceiveFacts, QueryFacts, AppConvergeAssumption DEF SetConfig
<1> QED
  BY <1>1, <1>2, HandleStep

LEMMA WaitingFacts == ASSUME IInv, Waiting PROVE goal = NoConfig /\ todo = <<>>
BY DEF IInv, AtWork, Waiting

LEMMA DroppedStep == ASSUME IInv, Dropped PROVE IInv'
<1>1. /\ Waiting /\ messages' \in 0 .. MaxMessages /\ faults' \in 0 .. MaxFaults
      /\ attempts' \in {attempts, 0}
      /\ UNCHANGED <<apps, tools, cache, agent, desired, goal, todo, before, replaced>>
  BY ReceiveFacts, FaultFacts DEF Dropped, hostVars
<1>2. TypeOK'
  BY <1>1, AppConvergeAssumption DEF IInv, TypeOK, HostTypeOK
<1>3. Asked' /\ UpgradeNeedsNoNetwork'
  BY <1>1, NetworkKept
<1> QED
  BY <1>1, <1>2, <1>3, WaitingFacts, IdleStep

LEMMA EndStep == ASSUME IInv, End PROVE IInv'
<1>1. /\ todo = <<>> /\ goal' = NoConfig
      /\ UNCHANGED <<apps, cache, agent, desired, todo, before, replaced, messages>>
      /\ tools' \in BOOLEAN /\ attempts' \in {attempts, 0} /\ faults' \in 0 .. MaxFaults
  <2>1. CASE InstallDep /\ UNCHANGED <<attempts, faults>>
    BY <2>1 DEF End, Done, InstallDep, IInv, TypeOK
  <2>2. CASE ~tools /\ Fault /\ attempts' = 0 /\ UNCHANGED hostVars
    <3>1. tools' \in BOOLEAN
      BY <2>2 DEF hostVars, IInv, TypeOK, HostTypeOK
    <3> QED
      BY <2>2, <3>1, FaultFacts DEF End, Done, hostVars
  <2> QED
    BY <2>1, <2>2 DEF End
<1>2. TypeOK'
  BY <1>1, AppConvergeAssumption DEF IInv, TypeOK, HostTypeOK
<1>3. Asked' /\ UpgradeNeedsNoNetwork'
  BY <1>1, NetworkKept
<1> QED
  BY <1>1, <1>2, <1>3, IdleStep

\* The cleanup leaves the packages that the cut-short upgrades need.
LEMMA StartStep ==
  ASSUME IInv, NEW files \in SUBSET ((Apps \union {Agent}) \X Releases), cache \subseteq files,
         StartProcess(files), apps' \in AppConfigs, agent' \in Releases,
         messages' \in 0 .. MaxMessages, faults' \in 0 .. MaxFaults
  PROVE  IInv'
<1>1. /\ attempts' = 0 /\ goal' = NoConfig /\ todo' = <<>>
      /\ UNCHANGED <<tools, desired, before, replaced>>
      /\ cache' = IF desired = NoConfig THEN files ELSE Cleaned(files, desired)
  BY DEF StartProcess
<1>2. cache' \subseteq files
  BY <1>1 DEF Cleaned
<1>3. TypeOK'
  BY <1>1, <1>2, AppConvergeAssumption, EmptyFacts DEF IInv, TypeOK, HostTypeOK
<1>4. Asked' /\ UpgradeNeedsNoNetwork'
  <2>1. ASSUME NEW a \in replaced
        PROVE  desired[a] # Absent /\ <<a, desired[a].version>> \in cache'
    <3>1. desired[a] # Absent /\ <<a, desired[a].version>> \in files /\ desired # NoConfig
      BY <2>1 DEF IInv, UpgradeNeedsNoNetwork, Asked
    <3> QED
      BY <1>1, <3>1 DEF Cleaned
  <2> QED
    BY <1>1, <2>1 DEF Asked, UpgradeNeedsNoNetwork, IInv
<1> QED
  BY <1>1, <1>3, <1>4, IdleStep

LEMMA UpdateStep == ASSUME IInv, NEW v \in Releases, UpdateAgent(v) PROVE IInv'
<1>1. /\ Waiting /\ messages' \in 0 .. MaxMessages /\ apps \in AppConfigs /\ agent \in Releases
      /\ cache \subseteq (Apps \union {Agent}) \X Releases /\ faults \in 0 .. MaxFaults
  BY ReceiveFacts DEF UpdateAgent, IInv, TypeOK, HostTypeOK
<1>2. CASE /\ agent = v /\ UNCHANGED agent /\ StartProcess(cache) /\ UNCHANGED <<apps, faults>>
  BY <1>1, <1>2, StartStep
<1>3. CASE /\ UpdateFromFile(v) /\ StartProcess(cache \union {<<Agent, v>>})
           /\ UNCHANGED <<apps, faults>>
  BY <1>1, <1>3, StartStep DEF UpdateFromFile
<1>4. CASE /\ Fault /\ cache' \in {cache, cache \union {<<Agent, v>>}}
           /\ UNCHANGED <<apps, tools, agent, convergeVars>>
  <2>1. /\ UNCHANGED <<apps, tools, agent, desired, attempts, goal, todo, before, replaced>>
        /\ cache \subseteq cache' /\ cache' \subseteq (Apps \union {Agent}) \X Releases
        /\ faults' \in 0 .. MaxFaults
    BY <1>1, <1>4, FaultFacts DEF convergeVars
  <2>2. TypeOK'
    BY <1>1, <2>1 DEF IInv, TypeOK, HostTypeOK
  <2>3. Asked' /\ UpgradeNeedsNoNetwork'
    BY <2>1, NetworkKept
  <2> QED
    BY <1>1, <2>1, <2>2, <2>3, WaitingFacts, IdleStep
<1> QED
  BY <1>2, <1>3, <1>4 DEF UpdateAgent

LEMMA ReconnectStep == ASSUME IInv, Reconnect PROVE IInv'
<1>1. /\ Waiting /\ attempts' = 0
      /\ UNCHANGED <<apps, tools, cache, agent, desired, goal, todo, before, replaced, messages, faults>>
  BY DEF Reconnect, hostVars
<1>2. TypeOK'
  BY <1>1, AppConvergeAssumption DEF IInv, TypeOK, HostTypeOK
<1>3. Asked' /\ UpgradeNeedsNoNetwork'
  BY <1>1, NetworkKept
<1> QED
  BY <1>1, <1>2, <1>3, WaitingFacts, IdleStep

LEMMA RestartStep == ASSUME IInv, Restart PROVE IInv'
<1>1. /\ StartProcess(cache) /\ UNCHANGED <<agent, messages>> /\ faults' \in 0 .. MaxFaults
      /\ apps \in AppConfigs /\ agent \in Releases /\ messages \in 0 .. MaxMessages
      /\ cache \in SUBSET ((Apps \union {Agent}) \X Releases)
  BY FaultFacts DEF Restart, IInv, TypeOK, HostTypeOK
<1>2. apps' \in AppConfigs
  <2>1. CASE UNCHANGED apps
    BY <1>1, <2>1
  <2>2. CASE apps' = [a \in Apps |-> IF Installed(a) THEN [apps[a] EXCEPT !.running = FALSE]
                                     ELSE Absent]
    <3>1. \A a \in Apps : Installed(a) => [apps[a] EXCEPT !.running = FALSE] \in AppState
      BY <1>1 DEF Installed, AppConfigs, AppState
    <3> QED
      BY <2>2, <3>1 DEF AppConfigs
  <2> QED
    BY <2>1, <2>2 DEF Restart
<1> QED
  BY <1>1, <1>2, StartStep

LEMMA DriftStep == ASSUME IInv, NEW a \in Apps, Drift(a) PROVE IInv'
<1>1. /\ Waiting /\ Installed(a) /\ faults' \in 0 .. MaxFaults /\ apps \in AppConfigs
      /\ UNCHANGED <<tools, cache, agent, desired, attempts, goal, todo, before, replaced, messages>>
  BY FaultFacts DEF Drift, convergeVars, IInv, TypeOK, HostTypeOK
<1>2. apps' \in AppConfigs
  <2>1. CASE apps' = [apps EXCEPT ![a].running = FALSE]
    <3>1. [apps[a] EXCEPT !.running = FALSE] \in AppState
      BY <1>1 DEF Installed, AppConfigs, AppState
    <3> QED
      BY <1>1, <2>1, <3>1 DEF AppConfigs
  <2>2. CASE apps' = [apps EXCEPT ![a] = Absent]
    BY <1>1, <2>2 DEF AppConfigs
  <2> QED
    BY <2>1, <2>2 DEF Drift
<1>3. TypeOK'
  BY <1>1, <1>2 DEF IInv, TypeOK, HostTypeOK
<1>4. Asked' /\ UpgradeNeedsNoNetwork'
  BY <1>1, NetworkKept
<1> QED
  BY <1>1, <1>3, <1>4, WaitingFacts, IdleStep
-----------------------------------------------------------------------------
(* The invariant. *)

LEMMA InitHolds == Init => IInv
<1> SUFFICES ASSUME Init PROVE IInv
  OBVIOUS
<1>1. TypeOK
  BY AppConvergeAssumption, EmptyFacts DEF Init, HostInit, TypeOK, HostTypeOK
<1> QED
  BY <1>1, IdleFacts DEF Init, Asked, UpgradeNeedsNoNetwork

LEMMA StutterHolds == ASSUME IInv, UNCHANGED vars PROVE IInv'
<1>1. UNCHANGED <<apps, tools, cache, agent, desired, attempts, goal, todo, before, replaced,
                  messages, faults>>
  BY DEF vars, hostVars, convergeVars
<1>2. TypeOK' /\ Asked' /\ UpgradeNeedsNoNetwork'
  BY <1>1 DEF IInv, TypeOK, HostTypeOK, Asked, UpgradeNeedsNoNetwork
<1>3. AtWork'
  <2>1. \A a \in Apps : Mixed(a)' = Mixed(a)
    BY <1>1 DEF Mixed
  <2>2. \A job : Fit(job)' = Fit(job)
    BY <1>1 DEF Fit, Installed, Package
  <2>3. Waiting' = Waiting /\ Apart(todo)' = Apart(todo) /\ Els(todo)' = Els(todo)
    BY <1>1 DEF Waiting, Apart, Els
  <2> QED
    BY <1>1, <2>1, <2>2, <2>3 DEF IInv, AtWork
<1> QED
  BY <1>2, <1>3 DEF IInv

LEMMA CommandStep == ASSUME IInv, Command PROVE IInv'
<1>1. CASE Tools
  BY <1>1, ToolsStep
<1>2. ASSUME NEW a \in Apps, Stop(a) PROVE IInv'
  BY <1>2, ServiceStep DEF Stop
<1>3. ASSUME NEW a \in Apps, RemoveApp(a) PROVE IInv'
  BY <1>3, RemoveStep
<1>4. ASSUME NEW a \in Apps, Fetch(a) PROVE IInv'
  BY <1>4, FetchStep
<1>5. ASSUME NEW a \in Apps, Install(a) PROVE IInv'
  BY <1>5, InstallStep
<1>6. ASSUME NEW a \in Apps, Configure(a) PROVE IInv'
  BY <1>6, ConfigureStep
<1>7. ASSUME NEW a \in Apps, Serve(a) PROVE IInv'
  <2>1. PICK run \in BOOLEAN : run = goal[a].running
    <3>1. goal[a] # Absent /\ goal \in AppConfigs
      <4>1. At("serve", a)
        BY <1>7 DEF Serve, Service
      <4>2. PICK ops : Head(todo).ops = ops
        OBVIOUS
      <4>3. todo # <<>> /\ Head(todo).app = a /\ ops = S1
        BY <4>1, <4>2, HeadOps
      <4> QED
        BY <4>2, <4>3, HeadFit, AtHand
    <3> QED
      BY <1>7, <3>1 DEF AppConfigs, AppState
  <2>2. Service("serve", a, run)
    BY <1>7, <2>1 DEF Serve
  <2> QED
    BY <2>1, <2>2, ServiceStep
<1> QED
  BY <1>1, <1>2, <1>3, <1>4, <1>5, <1>6, <1>7 DEF Command

LEMMA NextHolds == ASSUME IInv, [Next]_vars PROVE IInv'
<1>1. CASE Heartbeat \/ Dropped \/ Command \/ End \/ Reconnect \/ Restart
  BY <1>1, HeartbeatStep, DroppedStep, CommandStep, EndStep, ReconnectStep, RestartStep
<1>2. ASSUME NEW wanted \in Goals, SetConfig(wanted) PROVE IInv'
  BY <1>2, SetConfigStep
<1>3. ASSUME NEW v \in Releases, UpdateAgent(v) PROVE IInv'
  BY <1>3, UpdateStep
<1>4. ASSUME NEW a \in Apps, Drift(a) PROVE IInv'
  BY <1>4, DriftStep
<1>5. CASE UNCHANGED vars
  BY <1>5, StutterHolds
<1> QED
  BY <1>1, <1>2, <1>3, <1>4, <1>5 DEF Next

\* While a change goes on, the commands that are left of it fit what the host has,
\* and each app is as before, as wanted, or as far as its change allows.
THEOREM Invariant == Spec => []IInv
<1>1. Init => IInv
  BY InitHolds
<1>2. IInv /\ [Next]_vars => IInv'
  BY NextHolds
<1> QED
  BY <1>1, <1>2, PTL DEF Spec

\* The host, the agent's file and the work of process_apps stay of their types.
THEOREM TypeCorrect == Spec => []TypeOK
<1>1. IInv => TypeOK
  BY DEF IInv
<1> QED
  BY <1>1, Invariant, PTL

\* An upgrade that was cut short between the removal of the old version and the
\* installation of the new finds its package in the cache (process_apps downloads
\* before it uninstalls, and the cleanup at a restart keeps the wanted version).
THEOREM UpgradesNeedNoNetwork == Spec => []UpgradeNeedsNoNetwork
<1>1. IInv => UpgradeNeedsNoNetwork
  BY DEF IInv
<1> QED
  BY <1>1, Invariant, PTL
-----------------------------------------------------------------------------
(* The change implements AppChange. *)

\* What AppChange sees of the host; what it works on is goal.
SeenInstalled == IF Waiting THEN apps ELSE before

LEMMA ConfigFacts == Change!Config = AppConfigs
BY DEF Change!Config, AppConfigs

LEMMA MixtureFacts ==
  ASSUME NEW old \in AppConfigs, NEW new \in AppConfigs, NEW c \in AppConfigs,
         \A a \in Apps : c[a] \in Left(old[a], new[a])
  PROVE  c \in Change!Mixture(old, new)
<1> DEFINE H == [pair \in SpecOf \X SpecOf |-> HalfDone(pair[1], pair[2])]
<1>1. \A a \in Apps : H[<<old[a], new[a]>>] = HalfDone(old[a], new[a])
  BY DEF AppConfigs, SpecOf
<1> HIDE DEF H
<1>2. \A a \in Apps : c[a] \in {old[a], new[a]}
                        \union (IF old[a] = new[a] THEN {} ELSE H[<<old[a], new[a]>>])
  BY <1>1 DEF Left
<1> QED
  BY <1>2, ConfigFacts DEF Change!Mixture, H

\* A change begins with the apps that are there, and the apps are as the commands
\* left them when it ends.
LEMMA StepKinds ==
  ASSUME IInv, [Next]_vars
  PROVE  \/ Waiting /\ Waiting'
         \/ Waiting /\ ~Waiting' /\ before' = apps
         \/ ~Waiting /\ Waiting' /\ UNCHANGED apps
         \/ ~Waiting /\ ~Waiting' /\ UNCHANGED <<goal, before>>
<1>1. ASSUME NEW found, NEW wanted, NEW tried, Waiting, Handle(found, wanted, tried)
      PROVE  Waiting' \/ before' = apps
  BY <1>1 DEF Handle, Waiting
<1>2. CASE Heartbeat
  <2>1. PICK found, wanted : Waiting /\ Handle(found, wanted, attempts)
    BY <1>2 DEF Heartbeat
  <2> QED
    BY <1>1, <2>1
<1>3. ASSUME NEW wanted, SetConfig(wanted) PROVE Waiting /\ (Waiting' \/ before' = apps)
  BY <1>1, <1>3 DEF SetConfig, Receive
<1>4. CASE Dropped
  BY <1>4 DEF Dropped, Receive, Waiting
<1>5. CASE Command
  <2>1. todo # <<>> /\ Working
    BY <1>5 DEF Command, Tools, Stop, RemoveApp, Fetch, Install, Configure, Serve, Service, At
  <2> QED
    BY <2>1, AtHand DEF Working, Waiting
<1>6. CASE End
  BY <1>6 DEF End, Waiting, InstallDep, hostVars
<1>7. ASSUME NEW v, UpdateAgent(v) PROVE Waiting /\ Waiting'
  BY <1>7 DEF UpdateAgent, Receive, Waiting, StartProcess, convergeVars
<1>8. CASE Reconnect
  BY <1>8 DEF Reconnect, Waiting
<1>9. CASE Restart
  <2>1. Waiting'
    BY <1>9 DEF Restart, StartProcess, Waiting
  <2> QED
    BY <1>9, <2>1 DEF Restart
<1>10. ASSUME NEW a, Drift(a) PROVE Waiting /\ Waiting'
  BY <1>10 DEF Drift, Waiting, convergeVars
<1>11. CASE UNCHANGED vars
  <2>1. UNCHANGED <<apps, goal, before>>
    BY <1>11 DEF vars, hostVars, convergeVars
  <2> QED
    BY <2>1 DEF Waiting
<1> QED
  BY <1>2, <1>3, <1>4, <1>5, <1>6, <1>7, <1>8, <1>9, <1>10, <1>11 DEF Next

LEMMA RefineStep ==
  ASSUME IInv, IInv', [Next]_vars
  PROVE  [Change!Next]_(Change!changeVars)
<1>1. /\ apps \in AppConfigs /\ apps' \in AppConfigs /\ before' \in AppConfigs
      /\ Waiting => goal = NoConfig
      /\ Waiting' => goal' = NoConfig
      /\ ~Waiting => goal \in AppConfigs
      /\ ~Waiting' => goal' \in AppConfigs
  BY DEF IInv, TypeOK, HostTypeOK, Waiting
<1>2. /\ SeenInstalled \in Change!Config /\ SeenInstalled' \in Change!Config
      /\ goal = NoConfig <=> Waiting
      /\ goal' = NoConfig <=> Waiting'
      /\ ~Waiting' => goal' \in Change!Config
      /\ before \in AppConfigs
  BY <1>1, ConfigFacts DEF SeenInstalled, Waiting, IInv, TypeOK
<1>3. CASE Waiting /\ Waiting'
  BY <1>2, <1>3 DEF Change!Drift, Change!Next, SeenInstalled
<1>4. CASE Waiting /\ ~Waiting' /\ before' = apps
  BY <1>2, <1>4 DEF Change!Begin, Change!Next, SeenInstalled
<1>5. CASE ~Waiting /\ Waiting' /\ UNCHANGED apps
  <2>1. \A a \in Apps : apps[a] \in Left(before[a], goal[a])
    BY <1>5 DEF IInv, AtWork, Mixed
  <2>2. apps \in Change!Mixture(before, goal)
    BY <1>1, <1>2, <1>5, <2>1, MixtureFacts
  <2> QED
    BY <1>2, <1>5, <2>2 DEF Change!End, Change!Next, SeenInstalled
<1>6. CASE ~Waiting /\ ~Waiting' /\ UNCHANGED <<goal, before>>
  BY <1>6 DEF Change!changeVars
<1> QED
  BY <1>3, <1>4, <1>5, <1>6, StepKinds

\* What process_apps does to a host, one command at a time with failures and deaths of
\* the agent in between, is a change as AppChange has it, of versions, settings and
\* services: it ends with each app as it was, as wanted or as HalfDone has it, and an
\* app that was as it should be is as it was.
THEOREM Implementation == Spec => ImplementsAppChange
<1>1. Init => Change!Init
  BY ConfigFacts, AppConvergeAssumption DEF Init, HostInit, Waiting, Change!Init
<1>2. IInv /\ IInv' /\ [Next]_vars => [Change!Next]_(Change!changeVars)
  BY RefineStep
<1> QED
  BY <1>1, <1>2, Invariant, PTL DEF Spec, ImplementsAppChange, Change!Safety
===============================================================================
