------------------------------ MODULE Messaging ------------------------------
(***************************************************************************)
(* The messages between bbmaster and one host's agent, over RabbitMQ: the  *)
(* I/O thread of bbmaster (bbone_provider_pf9_pika.py) in the loop of      *)
(* bbcommon/amqp.py that has one channel, the agent's session (session.py) *)
(* in the loop that has two, and the queues of the broker between them.    *)
(*                                                                         *)
(* The messages are those of the support requests, which the host answers. *)
(* Neither end confirms one: what a closed connection had under way is     *)
(* lost, the last that were sent and the first that were delivered.        *)
(***************************************************************************)
EXTENDS Naturals, Sequences

CONSTANTS
  None,        \* no queue at the broker
  MaxRequests, \* bound: support requests
  MaxFaults    \* bound: closed channels and connections, restarts, failed calls

ASSUME MessagingAssumption ==
  /\ MaxRequests \in Nat /\ MaxFaults \in Nat
  /\ None \notin Seq([id : Nat, kind : {"get_support", "support_command"}])
  /\ None \notin Seq(Nat)

VARIABLES
  loop,        \* what bbmaster's self.state holds (below)
  declaring,   \* requests whose queue the broker is declaring and binding
  pending,     \* pending_msgs
  hostQ,       \* external: the host's queue at the broker
  masterQ,     \* external: bbmaster's
  connected,   \* the agent has a connection,
  send, recv,  \* a channel to send on, and one that consumes its queue
  count,       \* history: requests that were accepted
  carriedOut,  \* history: those the agent carried out, in order
  answered,    \* history: those whose answer bbmaster has
  unroutable,  \* history: a message was published that no queue took
  brokerDied,  \* history: the broker was restarted
  faults

masterVars  == <<loop, declaring, pending>>
agentVars   == <<connected, send, recv>>
historyVars == <<count, carriedOut, answered, unroutable, brokerDied>>
vars == <<masterVars, hostQ, masterQ, agentVars, historyVars, faults>>

\* "down": no connection; "opening": a connection; "channel": and a channel, on
\* which the queue is being declared; "running": it is consumed, and the timer of
\* send_pending_msgs is set; "silent": the channel is closed, the connection not
Loop == {"down", "opening", "channel", "running", "silent"}
Message == [id : 1 .. MaxRequests, kind : {"get_support", "support_command"}]
Ids == 1 .. MaxRequests

TypeOK ==
  /\ loop \in Loop
  /\ declaring \in Seq(Message) /\ pending \in Seq(Message)
  /\ hostQ \in Seq(Message) \union {None} /\ masterQ \in Seq(Ids) \union {None}
  /\ connected \in BOOLEAN /\ send \in BOOLEAN /\ recv \in BOOLEAN
  /\ (send \/ recv) => connected
  /\ recv => hostQ # None
  /\ loop = "running" => masterQ # None
  /\ declaring # <<>> => loop \in {"channel", "running"}
  /\ count \in 0 .. MaxRequests
  /\ carriedOut \in Seq(Ids) /\ answered \subseteq Ids
  /\ unroutable \in BOOLEAN /\ brokerDied \in BOOLEAN
  /\ faults \in 0 .. MaxFaults

Init ==
  /\ loop = "down" /\ declaring = <<>> /\ pending = <<>>
  /\ hostQ = None /\ masterQ = None
  /\ connected = FALSE /\ send = FALSE /\ recv = FALSE
  /\ count = 0 /\ carriedOut = <<>> /\ answered = {}
  /\ unroutable = FALSE /\ brokerDied = FALSE
  /\ faults = 0

Fault == faults < MaxFaults /\ faults' = faults + 1

PrefixesOf(s) == IF s = None THEN {None} ELSE {SubSeq(s, 1, i) : i \in 0 .. Len(s)}
SuffixesOf(s) == IF s = None THEN {None} ELSE {SubSeq(s, i + 1, Len(s)) : i \in 0 .. Len(s)}

-----------------------------------------------------------------------------
(* bbmaster's I/O thread. *)

OnlyMaster == UNCHANGED <<agentVars, count, carriedOut, brokerDied>>

\* publishing a batch to the host's queue, if it is there
Publish(batch) ==
  /\ hostQ' = IF hostQ = None THEN None ELSE hostQ \o batch
  /\ unroutable' = (unroutable \/ (hostQ = None /\ batch # <<>>))

\* The batch is taken out of the list before it is sent.
\* faulty: after it was sent
Left(batch)  == batch
Taken(batch) == <<>>

\* on_open: bbmaster has a connection, and asks for a channel
Open ==
  /\ loop = "down" /\ loop' = "opening"
  /\ UNCHANGED <<declaring, pending, hostQ, masterQ, answered, unroutable, faults>> /\ OnlyMaster

\* on_channel_open: the exchange and the queue are declared
OpenChannel ==
  /\ loop = "opening" /\ loop' = "channel"
  /\ UNCHANGED <<declaring, pending, hostQ, masterQ, answered, unroutable, faults>> /\ OnlyMaster

\* on_queue_bind: what an earlier connection left is sent, then messages consumed
Bound ==
  /\ loop = "channel" /\ loop' = "running"
  /\ Publish(pending) /\ pending' = Taken(pending)
  /\ masterQ' = IF masterQ = None THEN <<>> ELSE masterQ
  /\ UNCHANGED <<declaring, answered, faults>> /\ OnlyMaster

\* Each connection sets the timer of send_pending_msgs, which sets itself again.
\* faulty: an exception ends it for good
TimerOnce == loop = "running" /\ faults = 0
TimerSet  == loop = "running"

SendPending ==
  /\ TimerSet /\ pending # <<>>
  /\ Publish(pending) /\ pending' = Taken(pending)
  /\ UNCHANGED <<loop, declaring, masterQ, answered, faults>> /\ OnlyMaster

\* One publication fails; the exception ends the loop, and _io_thread begins anew.
SendFails ==
  /\ loop \in {"channel", "running"} /\ pending # <<>> /\ Fault
  /\ \E n \in 0 .. Len(pending) - 1 : Publish(SubSeq(pending, 1, n))
  /\ pending' = Taken(pending) /\ loop' = "down" /\ declaring' = <<>>
  /\ masterQ' \in SuffixesOf(masterQ)
  /\ UNCHANGED answered /\ OnlyMaster

\* on_bbslave_queue_bind, after the callbacks of queue_declare and two queue_bind;
\* the broker answers a channel in order
Declared ==
  /\ declaring # <<>>
  /\ hostQ' = IF hostQ = None THEN <<>> ELSE hostQ
  /\ pending' = Append(pending, Head(declaring)) /\ declaring' = Tail(declaring)
  /\ UNCHANGED <<loop, masterQ, answered, unroutable, faults>> /\ OnlyMaster

\* consume_msg: handle_support_command_response, or handle_support_bundle, which
\* may fail to write the file
Consume ==
  /\ loop = "running" /\ masterQ # <<>>
  /\ masterQ' = Tail(masterQ)
  /\ \/ answered' = answered \union {Head(masterQ)} /\ UNCHANGED faults
     \/ Fault /\ UNCHANGED answered
  /\ UNCHANGED <<masterVars, hostQ, unroutable>> /\ OnlyMaster

\* on_channel_close deletes state['channel'], and nothing opens another: the timer
\* finds no channel and is not set again.
ChannelClosed ==
  /\ loop \in {"channel", "running"} /\ Fault
  /\ loop' = "silent" /\ declaring' = <<>> /\ masterQ' \in SuffixesOf(masterQ)
  /\ UNCHANGED <<pending, hostQ, answered, unroutable>> /\ OnlyMaster

\* on_connection_closed stops the loop; _io_thread catches AMQPConnectionError
\* faulty: callbacks of the closed channel are still to come
CloseLate == loop' = "down" /\ UNCHANGED <<declaring, pending>>
Close    == loop' = "down" /\ declaring' = <<>> /\ UNCHANGED pending

ConnectionClosed ==
  /\ loop # "down" /\ Fault
  /\ Close /\ masterQ' \in SuffixesOf(masterQ) /\ hostQ' \in PrefixesOf(hostQ)
  /\ UNCHANGED <<answered, unroutable>> /\ OnlyMaster

\* The process dies and is started again.
MasterDies ==
  /\ Fault /\ loop' = "down" /\ declaring' = <<>> /\ pending' = <<>>
  /\ masterQ' \in SuffixesOf(masterQ) /\ hostQ' \in PrefixesOf(hostQ)
  /\ UNCHANGED <<answered, unroutable>> /\ OnlyMaster

Master == Open \/ OpenChannel \/ Bound \/ SendPending \/ Declared \/ Consume

-----------------------------------------------------------------------------
(* bbmaster's HTTP threads: request_support_bundle, run_support_command. *)

\* _send_msg: the queue is declared first; without a channel, RuntimeError
\* faulty: the message is queued at once
QueueAtOnce(msg) == pending' = Append(pending, msg) /\ UNCHANGED declaring
SendMsg(msg)     == declaring' = Append(declaring, msg) /\ UNCHANGED pending

Request(kind) ==
  /\ count < MaxRequests /\ loop \in {"channel", "running"}
  /\ count' = count + 1 /\ SendMsg([id |-> count', kind |-> kind])
  /\ UNCHANGED <<loop, hostQ, masterQ, agentVars, carriedOut, answered, unroutable,
                 brokerDied, faults>>

-----------------------------------------------------------------------------
(* The agent: one thread, so what happens to its channels while it handles a  *)
(* message is noticed after it.                                               *)

OnlyAgent == UNCHANGED <<masterVars, count, answered, unroutable, brokerDied>>

\* on_open, connection_up_cb
Connect ==
  /\ ~connected /\ connected' = TRUE
  /\ UNCHANGED <<send, recv, hostQ, masterQ, carriedOut, faults>> /\ OnlyAgent

\* send_channel_up_cb, the first time or after retry_timeout
SendUp ==
  /\ connected /\ ~send /\ send' = TRUE
  /\ UNCHANGED <<connected, recv, hostQ, masterQ, carriedOut, faults>> /\ OnlyAgent

\* on_recv_channel_open: the broker closes a channel that consumes a queue it does
\* not have ("common before a host is authorized"); it is opened again later
RecvUp ==
  /\ connected /\ ~recv /\ hostQ # None /\ recv' = TRUE
  /\ UNCHANGED <<connected, send, hostQ, masterQ, carriedOut, faults>> /\ OnlyAgent

\* basic_publish of the answer, whether bbmaster's queue is there or not
Answer(id) == masterQ' = IF masterQ = None THEN None ELSE Append(masterQ, id)

\* process_support_request sends nothing back without a channel, and does nothing
CarriesOut(msg) == msg.kind = "support_command" \/ send

\* process_support_command runs the command first: then state['channel'] raises
\* KeyError, which handle_msg logs.
HandleMsg ==
  /\ recv /\ hostQ # <<>> /\ hostQ' = Tail(hostQ)
  /\ LET msg == Head(hostQ)
     IN /\ carriedOut' = IF CarriesOut(msg) THEN Append(carriedOut, msg.id) ELSE carriedOut
        /\ IF send THEN Answer(msg.id) ELSE UNCHANGED masterQ
  /\ UNCHANGED <<agentVars, faults>> /\ OnlyAgent

\* start() ends with an exception, at the broker or in a handler, and is called
\* again; or the process dies; what was delivered by then is lost.
Disconnect ==
  /\ connected' = FALSE /\ send' = FALSE /\ recv' = FALSE
  /\ hostQ' \in IF recv THEN SuffixesOf(hostQ) ELSE {hostQ}

AgentFails ==
  /\ connected /\ Fault /\ Disconnect
  /\ \/ UNCHANGED carriedOut
     \/ /\ recv /\ hostQ # <<>> /\ CarriesOut(Head(hostQ)) /\ hostQ' # hostQ
        /\ carriedOut' = Append(carriedOut, Head(hostQ).id)
  /\ masterQ' \in PrefixesOf(masterQ) /\ OnlyAgent

\* _on_channel_close, send_channel_down_cb
SendDown ==
  /\ send /\ Fault /\ send' = FALSE
  /\ UNCHANGED <<connected, recv, hostQ, masterQ, carriedOut>> /\ OnlyAgent

RecvDown ==
  /\ recv /\ Fault /\ recv' = FALSE
  /\ hostQ' \in SuffixesOf(hostQ)
  /\ UNCHANGED <<connected, send, masterQ, carriedOut>> /\ OnlyAgent

Agent == Connect \/ SendUp \/ RecvUp \/ HandleMsg

\* "These queues are deleted when the server restarts."
BrokerDies ==
  /\ Fault /\ brokerDied' = TRUE
  /\ hostQ' = None /\ masterQ' = None
  /\ IF loop = "down" THEN UNCHANGED masterVars ELSE Close
  /\ connected' = FALSE /\ send' = FALSE /\ recv' = FALSE
  /\ UNCHANGED <<count, carriedOut, answered, unroutable>>

Apart ==
  \/ Master \/ SendFails \/ ChannelClosed \/ ConnectionClosed \/ MasterDies
  \/ \E kind \in {"get_support", "support_command"} : Request(kind)
  \/ Agent \/ AgentFails \/ SendDown \/ RecvDown

Next == Apart \/ BrokerDies

Spec == Init /\ [][Next]_vars

\* Both loops run: what is closed is opened again after its timeout, the broker
\* answers, and timers fire.
Fairness ==
  /\ WF_vars(Open \/ OpenChannel \/ Bound) /\ WF_vars(SendPending)
  /\ WF_vars(Declared) /\ WF_vars(Consume)
  /\ WF_vars(Connect) /\ WF_vars(SendUp) /\ WF_vars(RecvUp) /\ WF_vars(HandleMsg)

FairSpec == Spec /\ Fairness
-----------------------------------------------------------------------------
(* Properties. *)

\* The agent carries out each request at most once and in the order in which they
\* were made, over any number of connections, and though a batch may be cut short:
\* nothing is ever sent twice.
InOrderOnce ==
  \A i, j \in DOMAIN carriedOut : i < j => carriedOut[i] < carriedOut[j]

\* "If sending a message to a host, ensures that the queue is declared before
\* sending": every message finds a queue, also what one connection declared and
\* another sends; until the broker is restarted, which forgets the queue of what
\* was pending.
Routable == unroutable => brokerDied

\* What is on its way, with the queue declared or being declared
OnItsWay(id) ==
  \/ \E i \in DOMAIN declaring : declaring[i].id = id
  \/ hostQ # None /\ \E i \in DOMAIN pending : pending[i].id = id
  \/ hostQ # None /\ \E i \in DOMAIN hostQ : hostQ[i].id = id

\* Once nothing fails any more, a request that is on its way reaches the host and
\* its answer bbmaster, also when the agent could not consume the queue before
\* and when it waits for a connection of either side; unless bbmaster has lost its
\* channel alone, and then until its connection closes, too.
Answered ==
  \A id \in Ids :
    (faults = MaxFaults /\ OnItsWay(id) /\ send /\ masterQ # None)
      ~> (id \in answered \/ loop = "silent")
=============================================================================
