----------------------------- MODULE MCMessaging -----------------------------
(* bbmaster, one agent and the manager's notifier with the one broker, whose *)
(* restart closes the connections of all.                                    *)
EXTENDS Messaging

CONSTANT MaxChanges

ASSUME NotifierAssumption == MaxChanges \in Nat

VARIABLES thread, channel, changes, published, made

notifierVars == <<thread, channel, changes, published, made>>

N == INSTANCE Notifier

MCInit == Init /\ N!Init

MCNext ==
  \/ Apart /\ UNCHANGED notifierVars
  \/ N!Next /\ UNCHANGED <<masterVars, hostQ, masterQ, agentVars, historyVars>>
  \/ BrokerDies /\ N!Closed

MCSpec == MCInit /\ [][MCNext]_<<vars, notifierVars>> /\ Fairness /\ N!Fairness

\* The type invariants of both modules (TypeOK of each).
AllTypeOK == TypeOK /\ N!TypeOK

\* No change is published twice or after a later one (InOrderOnce of Notifier).
NotifiedInOrder == N!InOrderOnce

\* The changes that wait are published once nothing fails any more, unless the
\* notifier's thread has ended or its channel was closed alone (Published of
\* Notifier).
Notified == N!Published
=============================================================================
