---------------------------- MODULE MCAppConverge ----------------------------
(* An instance of AppConverge: pf9-comms and one more app, ranked after it. *)
EXTENDS AppConverge

CONSTANTS comms, kube, v1, v2, factory, tuned

State(v, s, run) == [version |-> v, settings |-> s, running |-> run]
With(c, k) == [a \in {comms, kube} |-> IF a = comms THEN c ELSE k]

MCRank == [a \in {comms, kube} |-> IF a = comms THEN 0 ELSE 1]
MCPreinstalled ==
  {With(Absent, Absent), With(State(v1, factory, FALSE), Absent)}
\* a first role; the upgrade of pf9-comms; the role is taken away
MCGoals ==
  {With(State(v1, factory, TRUE), State(v1, tuned, TRUE)),
   With(State(v2, tuned, FALSE), State(v1, tuned, TRUE)),
   With(State(v1, factory, TRUE), Absent)}
=============================================================================
