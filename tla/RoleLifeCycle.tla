---------------------------- MODULE RoleLifeCycle ----------------------------
(***************************************************************************)
(* What the resource manager promises of one role of one host: the steps a *)
(* host-role association takes through the states of role_states.py, and   *)
(* the auth event of the role (on_auth, on_auth_converged, on_deauth,      *)
(* on_deauth_converged) that has completed by each step.  It says nothing  *)
(* of threads, locks, hosts or the poller: RoleManager implements it.  Its  *)
(* theorems are few and stand at the end.                                  *)
(***************************************************************************)
EXTENDS RoleStates, TLAPS

CONSTANTS Hosts, Roles

VARIABLES
  state,     \* of the association; NoRow without one
  lastEvent  \* the last auth event that completed for the role

roleVars == <<state, lastEvent>>

Event == {"none", "on_auth", "on_auth_converged", "on_deauth",
          "on_deauth_converged"}

TypeOK ==
  /\ state \in [Hosts -> [Roles -> RoleState \union {NoRow}]]
  /\ lastEvent \in [Hosts -> [Roles -> Event]]

Init ==
  /\ state = [h \in Hosts |-> [r \in Roles |-> NoRow]]
  /\ lastEvent = [h \in Hosts |-> [r \in Roles |-> "none"]]

\* A step completes an event, or does without one.
NoEvent == UNCHANGED lastEvent
Done(h, r, e) == lastEvent' = [lastEvent EXCEPT ![h][r] = e]
Move(h, r, from, to) ==
  state[h][r] = from /\ state' = [state EXCEPT ![h][r] = to]

\* The requests: a new association, add, edit, delete; and an add that is
\* undone, before any handler has run.
Untouched == {"none", "on_deauth_converged"}

Requested(h, r) ==
  \/ Move(h, r, NoRow, "not-applied") /\ NoEvent
  \/ \E s \in {"not-applied", "auth-error"} : Move(h, r, s, "start-apply") /\ NoEvent
  \/ Move(h, r, "applied", "start-edit") /\ NoEvent
  \/ \E s \in {"applied", "auth-error", "deauth-error"} :
       Move(h, r, s, "start-deauth") /\ NoEvent
  \/ lastEvent[h][r] \in Untouched /\ Move(h, r, "start-apply", NoRow) /\ NoEvent

\* Authorization: handler, push, report of the host, handler.
Authorized(h, r) ==
  \/ \E s \in {"start-apply", "start-edit"} :
       Move(h, r, s, "pre-auth") /\ Done(h, r, "on_auth")
  \/ Move(h, r, "start-apply", "not-applied") /\ NoEvent
  \/ Move(h, r, "start-edit", "applied") /\ NoEvent
  \/ Move(h, r, "pre-auth", "auth-converging") /\ NoEvent
  \/ \E t \in {"auth-converged", "auth-error"} :
       Move(h, r, "auth-converging", t) /\ NoEvent
  \/ Move(h, r, "auth-converged", "applied") /\ Done(h, r, "on_auth_converged")
  \/ Move(h, r, "auth-converged", "auth-error") /\ NoEvent

\* Deauthorization likewise; at its end the association goes.
Deauthorized(h, r) ==
  \/ Move(h, r, "start-deauth", "pre-deauth") /\ Done(h, r, "on_deauth")
  \/ Move(h, r, "start-deauth", "applied") /\ NoEvent
  \/ Move(h, r, "pre-deauth", "deauth-converging") /\ NoEvent
  \/ \E t \in {"deauth-converged", "deauth-error"} :
       Move(h, r, "deauth-converging", t) /\ NoEvent
  \/ Move(h, r, "deauth-converged", NoRow) /\ Done(h, r, "on_deauth_converged")
  \/ Move(h, r, "deauth-converged", "deauth-error") /\ NoEvent

\* A crash after the handler and before the state change.
Interrupted(h, r) ==
  /\ UNCHANGED state
  /\ \/ state[h][r] \in {"start-apply", "start-edit"} /\ Done(h, r, "on_auth")
     \/ state[h][r] = "auth-converged" /\ Done(h, r, "on_auth_converged")
     \/ state[h][r] = "start-deauth" /\ Done(h, r, "on_deauth")
     \/ state[h][r] = "deauth-converged" /\ Done(h, r, "on_deauth_converged")

Step(h, r) ==
  Requested(h, r) \/ Authorized(h, r) \/ Deauthorized(h, r) \/ Interrupted(h, r)

Next == \E h \in Hosts, r \in Roles : Step(h, r)

Spec == Init /\ [][Next]_roleVars
-----------------------------------------------------------------------------
\* The auth events run in order, at every state a crash may leave behind: no
\* push without on_auth, no removal from the host without on_deauth, and a row
\* never disappears before on_deauth_converged unless no handler ever ran.
EventsBefore(s) ==
  CASE s \in {"pre-auth", "auth-converging"}     -> {"on_auth"}
    [] s = "auth-converged"                      -> {"on_auth", "on_auth_converged"}
    [] s \in {"pre-deauth", "deauth-converging"} -> {"on_deauth"}
    [] s = "deauth-converged"                    -> {"on_deauth", "on_deauth_converged"}
    [] s = NoRow                                 -> Untouched
    [] OTHER                                     -> Event

EventOrder ==
  \A h \in Hosts, r \in Roles : lastEvent[h][r] \in EventsBefore(state[h][r])

\* Every change of an association's state is legal in role_states.py, a new
\* row, the end of a deauthorization, or the undoing of an add: the
\* compare-and-sets of two threads never combine into any other change.
LegalStep(h, r) ==
  LET s == state[h][r]  t == state'[h][r] IN
  \/ s = t
  \/ s \in RoleState /\ t \in ValidNext[s]
  \/ s = NoRow /\ t = "not-applied"
  \/ s \in {"deauth-converged", "start-apply"} /\ t = NoRow

LegalMoves == \A h \in Hosts, r \in Roles : LegalStep(h, r)

LegalSteps == [][LegalMoves]_roleVars
-----------------------------------------------------------------------------
(* Lemmas and theorems, for any hosts and roles. *)

\* One association changes, to a state of the table or to no row.
LEMMA MoveFacts ==
  ASSUME TypeOK, NEW h \in Hosts, NEW r \in Roles, NEW from,
         NEW to \in RoleState \union {NoRow}, Move(h, r, from, to)
  PROVE  /\ state' \in [Hosts -> [Roles -> RoleState \union {NoRow}]]
         /\ state[h][r] = from /\ state'[h][r] = to
         /\ \A g \in Hosts, q \in Roles :
              g # h \/ q # r => state'[g][q] = state[g][q]
BY DEF TypeOK, Move

LEMMA DoneFacts ==
  ASSUME TypeOK, NEW h \in Hosts, NEW r \in Roles, NEW e \in Event, Done(h, r, e)
  PROVE  /\ lastEvent' \in [Hosts -> [Roles -> Event]]
         /\ lastEvent'[h][r] = e
         /\ \A g \in Hosts, q \in Roles :
              g # h \/ q # r => lastEvent'[g][q] = lastEvent[g][q]
BY DEF TypeOK, Done

\* What a step does to the association it moves, and that it moves no other.
LEMMA StepFacts ==
  ASSUME TypeOK, EventOrder, NEW h \in Hosts, NEW r \in Roles, Step(h, r)
  PROVE  /\ TypeOK'
         /\ lastEvent'[h][r] \in EventsBefore(state'[h][r])
         /\ LegalStep(h, r)
         /\ \A g \in Hosts, q \in Roles : g # h \/ q # r =>
              state'[g][q] = state[g][q] /\ lastEvent'[g][q] = lastEvent[g][q]
<1>1. lastEvent[h][r] \in EventsBefore(state[h][r])
  BY DEF EventOrder
<1>2. CASE Requested(h, r)
  BY <1>1, <1>2, MoveFacts
  DEF Requested, NoEvent, TypeOK, EventsBefore, Untouched, Event, LegalStep,
      ValidNext, RoleState, NoRow
<1>3. CASE Authorized(h, r)
  BY <1>1, <1>3, MoveFacts, DoneFacts
  DEF Authorized, NoEvent, TypeOK, EventsBefore, Untouched, Event, LegalStep,
      ValidNext, RoleState, NoRow
<1>4. CASE Deauthorized(h, r)
  BY <1>1, <1>4, MoveFacts, DoneFacts
  DEF Deauthorized, NoEvent, TypeOK, EventsBefore, Untouched, Event, LegalStep,
      ValidNext, RoleState, NoRow
<1>5. CASE Interrupted(h, r)
  BY <1>1, <1>5, DoneFacts
  DEF Interrupted, TypeOK, EventsBefore, Untouched, Event, LegalStep, RoleState, NoRow
<1> QED
  BY <1>2, <1>3, <1>4, <1>5 DEF Step

LEMMA InitFacts ==
  ASSUME Init
  PROVE  TypeOK /\ EventOrder
BY DEF Init, TypeOK, EventOrder, EventsBefore, Untouched, Event, NoRow, RoleState

LEMMA NextFacts ==
  ASSUME TypeOK, EventOrder, [Next]_roleVars
  PROVE  /\ TypeOK' /\ EventOrder'
         /\ LegalMoves
<1>1. CASE UNCHANGED roleVars
  BY <1>1 DEF roleVars, TypeOK, EventOrder, EventsBefore, LegalStep, LegalMoves
<1>2. CASE Next
  <2>1. PICK h \in Hosts, r \in Roles : Step(h, r)
    BY <1>2 DEF Next
  <2>2. ASSUME NEW g \in Hosts, NEW q \in Roles
        PROVE  lastEvent'[g][q] \in EventsBefore(state'[g][q]) /\ LegalStep(g, q)
    <3>1. CASE g = h /\ q = r
      BY <2>1, <3>1, StepFacts
    <3>2. CASE g # h \/ q # r
      <4>1. state'[g][q] = state[g][q] /\ lastEvent'[g][q] = lastEvent[g][q]
        BY <2>1, <3>2, StepFacts
      <4> QED
        BY <4>1 DEF EventOrder, LegalStep
    <3> QED
      BY <3>1, <3>2
  <2> QED
    BY <2>1, <2>2, StepFacts DEF EventOrder, LegalMoves
<1> QED
  BY <1>1, <1>2

-----------------------------------------------------------------------------
\* The auth events of a role complete in the order its states promise, whatever
\* crashes in between (the move_to_ functions of RolesMgr).
THEOREM LifeCycleEventOrder == Spec => [](TypeOK /\ EventOrder)
<1>1. Init => TypeOK /\ EventOrder
  BY InitFacts
<1>2. TypeOK /\ EventOrder /\ [Next]_roleVars => TypeOK' /\ EventOrder'
  BY NextFacts
<1> QED
  BY <1>1, <1>2, PTL DEF Spec

\* Only the transitions of role_states.py happen, and the creation and removal
\* of associations.
THEOREM LifeCycleLegalSteps == Spec => LegalSteps
<1>1. TypeOK /\ EventOrder /\ [Next]_roleVars
        => [LegalMoves]_roleVars
  BY NextFacts
<1> QED
  BY <1>1, LifeCycleEventOrder, PTL DEF Spec, LegalSteps
=============================================================================
