------------------------------ MODULE AppChange ------------------------------
(***************************************************************************)
(* What process_apps promises of a change of a host's apps, whatever it    *)
(* does on the way: it begins with the configuration to reach, ends once,  *)
(* and leaves alone the apps that it had no reason to touch.               *)
(*                                                                         *)
(* How far a change got with an app that it was to change is Halfway's.    *)
(* HostAgent is built on a change of which nothing is known here;          *)
(* AppConverge is the detailed change, and says what it is.                *)
(***************************************************************************)
EXTENDS AppConfig

CONSTANT Halfway \* for an app's old and new spec, those a change may stop at

VARIABLES
  installed, \* the apps of the host, between changes
  applying   \* the configuration the change works on, or NoConfig

changeVars == <<installed, applying>>

\* An app that is as it should be stays so; another is left as it was, half
\* changed, or done.
Mixture(old, new) ==
  {c \in Config : \A a \in Apps :
     c[a] \in {old[a], new[a]}
        \union (IF old[a] = new[a] THEN {} ELSE Halfway[<<old[a], new[a]>>])}

Init == installed \in Config /\ applying = NoConfig

Begin ==
  /\ applying = NoConfig /\ applying' \in Config
  /\ UNCHANGED installed

\* It ends: complete, with an exception, or with the death of the agent.
End ==
  /\ applying # NoConfig /\ applying' = NoConfig
  /\ installed' \in Mixture(installed, applying)

\* Apps change on their own or by another hand, between two changes.
Drift ==
  /\ applying = NoConfig /\ installed' \in Config
  /\ UNCHANGED applying

Next == Begin \/ End \/ Drift

Safety == Init /\ [][Next]_changeVars
Fairness == WF_changeVars(End)
=============================================================================
