------------------------------- MODULE Notifier -------------------------------
(***************************************************************************)
(* The change notifier of the resource manager (src/lib/notifier): threads *)
(* queue changes, and an I/O thread publishes them, in the loop of         *)
(* bbcommon/amqp.py that bbmaster uses, too.  It looks for its channel     *)
(* without asking whether it is there, and survives only the exception of  *)
(* a closed connection.                                                    *)
(***************************************************************************)
EXTENDS Naturals, Sequences

CONSTANTS
  MaxChanges, \* bound: changes
  MaxFaults   \* bound: closed channels and connections, failed calls

VARIABLES
  thread,    \* the I/O thread: without a connection, with one, sending, silent, ended
  channel,   \* state has a channel
  changes,   \* _pending_msgs
  published, \* history: changes that were published, in order
  made,      \* history: changes that were made
  faults

notifierVars == <<thread, channel, changes, published, made>>
vars == <<notifierVars, faults>>

Ids == 1 .. MaxChanges

TypeOK ==
  /\ thread \in {"down", "opening", "sending", "silent", "ended"} /\ channel \in BOOLEAN
  /\ channel => thread = "sending"
  /\ changes \in Seq(Ids) /\ published \in Seq(Ids)
  /\ made \in 0 .. MaxChanges /\ faults \in 0 .. MaxFaults

Init ==
  /\ thread = "down" /\ channel = FALSE
  /\ changes = <<>> /\ published = <<>> /\ made = 0

Fault == faults < MaxFaults /\ faults' = faults + 1

\* publish_notification: queued, whatever the thread does
PublishNotification ==
  /\ made < MaxChanges /\ made' = made + 1
  /\ changes' = Append(changes, made')
  /\ UNCHANGED <<thread, channel, published, faults>>

\* The batch is taken out of the list before it is sent.
\* faulty: after it was sent
Left(batch)  == batch
Taken(batch) == <<>>

Send(batch) == published' = published \o batch

\* io_loop, to the connection
Open ==
  /\ thread = "down" /\ thread' = "opening"
  /\ UNCHANGED <<channel, changes, published, made, faults>>

\* and the exchange; _before_processing_messages sends, and sets both timers
Start ==
  /\ thread = "opening" /\ thread' = "sending" /\ channel' = TRUE
  /\ Send(changes) /\ changes' = Taken(changes)
  /\ UNCHANGED <<made, faults>>

\* Each connection sets the timer of _send_pending_msgs, which sets itself again.
\* faulty: an exception ends it for good
TimerOnce == thread = "sending" /\ channel /\ faults = 0
TimerSet  == thread = "sending" /\ channel

SendPending ==
  /\ TimerSet /\ changes # <<>>
  /\ Send(changes) /\ changes' = Taken(changes)
  /\ UNCHANGED <<thread, channel, made, faults>>

\* With the channel alone closed, the next batch (one with a heartbeat at the
\* latest) raises KeyError, which ends the thread.
NoChannel ==
  /\ thread = "sending" /\ ~channel
  /\ thread' = "ended" /\ changes' = Taken(changes)
  /\ UNCHANGED <<channel, published, made, faults>>

\* _io_thread catches AMQPConnectionError alone
Raises(exception) == IF exception = "AMQPConnectionError" THEN "down" ELSE "ended"

\* One publication of a batch fails, the first of a connection or a later one: the
\* rest of it is lost.
SendFails ==
  /\ thread = "opening" \/ (thread = "sending" /\ channel)
  /\ changes # <<>> /\ Fault
  /\ \E n \in 0 .. Len(changes) - 1 : Send(SubSeq(changes, 1, n))
  /\ \E exception \in {"AMQPConnectionError", "ChannelClosed"} : thread' = Raises(exception)
  /\ channel' = FALSE /\ changes' = Taken(changes) /\ UNCHANGED made

\* The channel alone is closed; while the exchange is being declared no timer is set
\* yet, and no change sent before the connection closes.
ChannelClosed ==
  /\ channel \/ thread = "opening"
  /\ Fault /\ channel' = FALSE
  /\ thread' = IF channel THEN thread ELSE "silent"
  /\ UNCHANGED <<changes, published, made>>

\* on_connection_closed stops the loop; io_loop raises AMQPConnectionError
Closed ==
  /\ IF thread = "ended" THEN UNCHANGED thread
     ELSE thread' = Raises("AMQPConnectionError")
  /\ channel' = FALSE /\ UNCHANGED <<changes, published, made>>

ConnectionClosed == thread \in {"opening", "sending", "silent"} /\ Fault /\ Closed

Next ==
  \/ PublishNotification \/ Open \/ Start \/ SendPending \/ NoChannel
  \/ SendFails \/ ChannelClosed \/ ConnectionClosed

\* The thread connects again after its delay, and its timers fire.
Fairness == WF_vars(Open) /\ WF_vars(Start) /\ WF_vars(SendPending) /\ WF_vars(NoChannel)
-----------------------------------------------------------------------------
(* Properties. *)

\* A change is published at most once, and none after a later one, over any
\* number of connections and though a batch may be cut short.
InOrderOnce == \A i, j \in DOMAIN published : i < j => published[i] < published[j]

\* The changes that wait when nothing fails any more are published, also by a
\* connection that is yet to be made; unless the channel was closed alone, or an
\* exception other than a closed connection's has ended the thread for good.
Ended == thread \in {"silent", "ended"} \/ (thread = "sending" /\ ~channel)
Published ==
  \A id \in Ids :
    (faults = MaxFaults /\ \E i \in DOMAIN changes : changes[i] = id)
      ~> ((\E i \in DOMAIN published : published[i] = id) \/ Ended)
=============================================================================
