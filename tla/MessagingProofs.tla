---------------------------- MODULE MessagingProofs ----------------------------
(***************************************************************************)
(* No request is carried out twice or after a later one (InOrderOnce), and *)
(* while the broker lives every message finds its queue (Routable), for    *)
(* any number of requests, connections and failures.                       *)
(*                                                                         *)
(* A request moves from the list of those whose queue is being declared to *)
(* the list of pending messages, to the broker's queue and to the host.    *)
(* What is further on the way is older (Order); what fails loses requests  *)
(* and never puts one back.                                                *)
(***************************************************************************)
EXTENDS MCMessaging, SequenceTheorems, TLAPS

\* what waits at the broker
InQueue == IF hostQ = None THEN <<>> ELSE hostQ

Els(s) == {s[i] : i \in 1 .. Len(s)}
Inc(s) == \A i, j \in 1 .. Len(s) : i < j => s[i].id < s[j].id
Before(s, t) == \A m \in Els(s), n \in Els(t) : m.id < n.id

\* newer than all that was carried out, and one of those that were accepted
Newer(s) == \A m \in Els(s) :
              m.id <= count /\ \A i \in 1 .. Len(carriedOut) : carriedOut[i] < m.id

Order ==
  /\ InOrderOnce
  /\ \A i \in 1 .. Len(carriedOut) : carriedOut[i] <= count
  /\ Inc(InQueue) /\ Inc(pending) /\ Inc(declaring)
  /\ Newer(InQueue) /\ Newer(pending) /\ Newer(declaring)
  /\ Before(InQueue, pending) /\ Before(InQueue, declaring) /\ Before(pending, declaring)

\* A message is pending once its queue was declared; only the broker's death takes
\* the queue away.
Queued == ~brokerDied => (pending # <<>> => hostQ # None)

IInv == TypeOK /\ Order /\ Queued /\ Routable
-----------------------------------------------------------------------------
(* Sequences of messages. *)

LEMMA EmptyFacts == Els(<<>>) = {} /\ Inc(<<>>) /\ <<>> \in Seq(Message)
BY DEF Els, Inc

\* A part of a sequence keeps its order.
LEMMA PartFacts ==
  ASSUME NEW s \in Seq(Message), NEW a \in 1 .. Len(s) + 1, NEW b \in 0 .. Len(s)
  PROVE  /\ SubSeq(s, a, b) \in Seq(Message)
         /\ Els(SubSeq(s, a, b)) \subseteq Els(s)
         /\ Inc(s) => Inc(SubSeq(s, a, b))
<1> DEFINE t == SubSeq(s, a, b)
<1>1. /\ t \in Seq(Message) /\ Len(t) = IF a <= b THEN b - a + 1 ELSE 0
      /\ \A i \in 1 .. Len(t) : t[i] = s[a + i - 1] /\ a + i - 1 \in 1 .. Len(s)
  OBVIOUS
<1>2. Els(t) \subseteq Els(s)
  BY <1>1 DEF Els
<1>3. ASSUME Inc(s), NEW i \in 1 .. Len(t), NEW j \in 1 .. Len(t), i < j
      PROVE  t[i].id < t[j].id
  <2>1. /\ a + i - 1 \in 1 .. Len(s) /\ a + j - 1 \in 1 .. Len(s)
        /\ a + i - 1 < a + j - 1 /\ t[i] = s[a + i - 1] /\ t[j] = s[a + j - 1]
    BY <1>1, <1>3
  <2> HIDE DEF t
  <2> QED
    BY <1>3, <2>1 DEF Inc
<1> HIDE DEF t
<1>4. Inc(s) => Inc(t)
  BY <1>3 DEF Inc
<1> QED
  BY <1>1, <1>2, <1>4 DEF t

\* The first message comes before the others.
LEMMA FirstFacts ==
  ASSUME NEW s \in Seq(Message), s # <<>>
  PROVE  /\ Head(s) \in Message /\ Head(s) \in Els(s)
         /\ Tail(s) \in Seq(Message) /\ Els(Tail(s)) \subseteq Els(s)
         /\ Inc(s) => Inc(Tail(s)) /\ \A m \in Els(Tail(s)) : Head(s).id < m.id
<1>1. /\ Head(s) = s[1] /\ Len(s) \in Nat /\ Len(s) >= 1
      /\ Tail(s) \in Seq(Message) /\ Len(Tail(s)) = Len(s) - 1
      /\ \A i \in 1 .. Len(s) - 1 : Tail(s)[i] = s[i + 1] /\ i + 1 \in 1 .. Len(s)
      /\ Head(s) \in Message
  OBVIOUS
<1>2. Head(s) \in Els(s) /\ Els(Tail(s)) \subseteq Els(s)
  BY <1>1 DEF Els
<1>3. ASSUME Inc(s) PROVE Inc(Tail(s))
  BY <1>1, <1>3 DEF Inc
<1>4. ASSUME Inc(s), NEW m \in Els(Tail(s)) PROVE Head(s).id < m.id
  BY <1>1, <1>4 DEF Inc, Els
<1> QED
  BY <1>1, <1>2, <1>3, <1>4

\* One batch after another
LEMMA JoinFacts ==
  ASSUME NEW s \in Seq(Message), NEW t \in Seq(Message)
  PROVE  /\ s \o t \in Seq(Message) /\ Els(s \o t) = Els(s) \union Els(t)
         /\ Inc(s) /\ Inc(t) /\ Before(s, t) => Inc(s \o t)
<1> DEFINE u == s \o t
<1>1. /\ u \in Seq(Message) /\ Len(u) = Len(s) + Len(t)
      /\ Len(s) \in Nat /\ Len(t) \in Nat
      /\ \A i \in 1 .. Len(u) : u[i] = IF i <= Len(s) THEN s[i] ELSE t[i - Len(s)]
  OBVIOUS
<1> HIDE DEF u
<1>2. \A i \in 1 .. Len(s) : i \in 1 .. Len(u) /\ u[i] = s[i]
  BY <1>1
<1>3. \A i \in 1 .. Len(t) : Len(s) + i \in 1 .. Len(u) /\ u[Len(s) + i] = t[i]
  <2> TAKE i \in 1 .. Len(t)
  <2>1. Len(s) + i \in 1 .. Len(u) /\ ~(Len(s) + i <= Len(s)) /\ (Len(s) + i) - Len(s) = i
    BY <1>1
  <2> QED
    BY <1>1, <2>1
<1>4. \A i \in 1 .. Len(u) : (i \in 1 .. Len(s) /\ u[i] = s[i])
                            \/ (i - Len(s) \in 1 .. Len(t) /\ u[i] = t[i - Len(s)])
  BY <1>1
<1>5. Els(u) = Els(s) \union Els(t)
  <2>1. Els(s) \subseteq Els(u)
    BY <1>2 DEF Els
  <2>2. Els(t) \subseteq Els(u)
    BY <1>3 DEF Els
  <2>3. Els(u) \subseteq Els(s) \union Els(t)
    BY <1>4 DEF Els
  <2> QED
    BY <2>1, <2>2, <2>3
<1>6. ASSUME Inc(s), Inc(t), Before(s, t), NEW i \in 1 .. Len(u), NEW j \in 1 .. Len(u), i < j
      PROVE  u[i].id < u[j].id
  <2>1. CASE i <= Len(s) /\ j <= Len(s)
    BY <1>1, <1>6, <2>1 DEF Inc
  <2>2. CASE i <= Len(s) /\ j > Len(s)
    <3>1. u[i] \in Els(s) /\ u[j] \in Els(t)
      <4>1. i \in 1 .. Len(s) /\ u[i] = s[i]
        BY <1>1, <2>2
      <4>2. j - Len(s) \in 1 .. Len(t) /\ u[j] = t[j - Len(s)]
        BY <1>1, <2>2
      <4> QED
        BY <4>1, <4>2 DEF Els
    <3> QED
      BY <1>6, <3>1 DEF Before
  <2>3. CASE i > Len(s)
    <3>1. /\ i - Len(s) \in 1 .. Len(t) /\ u[i] = t[i - Len(s)]
          /\ j - Len(s) \in 1 .. Len(t) /\ u[j] = t[j - Len(s)]
          /\ i - Len(s) < j - Len(s)
      BY <1>1, <1>6, <2>3
    <3> QED
      BY <1>6, <3>1 DEF Inc
  <2> QED
    BY <1>1, <2>1, <2>2, <2>3
<1>7. Inc(s) /\ Inc(t) /\ Before(s, t) => Inc(u)
  BY <1>6 DEF Inc
<1> QED
  BY <1>1, <1>5, <1>7 DEF u

LEMMA AppendFacts ==
  ASSUME NEW s \in Seq(Message), NEW m \in Message
  PROVE  /\ Append(s, m) \in Seq(Message) /\ Els(Append(s, m)) = Els(s) \union {m}
         /\ Inc(s) /\ (\A n \in Els(s) : n.id < m.id) => Inc(Append(s, m))
         /\ Append(s, m) # <<>>
<1>1. <<m>> \in Seq(Message) /\ Append(s, m) = s \o <<m>> /\ Len(<<m>>) = 1 /\ <<m>>[1] = m
  OBVIOUS
<1>2. Els(<<m>>) = {m} /\ Inc(<<m>>)
  BY <1>1 DEF Els, Inc
<1>3. (\A n \in Els(s) : n.id < m.id) => Before(s, <<m>>)
  BY <1>2 DEF Before
<1>4. Append(s, m) # <<>>
  OBVIOUS
<1> QED
  BY <1>1, <1>2, <1>3, <1>4, JoinFacts

\* A queue is not None.
LEMMA NotNone ==
  /\ \A s \in Seq(Message) : s # None
  /\ \A s \in Seq(Ids) : s # None
<1> DEFINE M == [id : Nat, kind : {"get_support", "support_command"}]
<1>1. Message \subseteq M /\ Ids \subseteq Nat
  BY MessagingAssumption DEF Message, Ids
<1>2. ASSUME NEW s \in Seq(Message) PROVE s # None
  BY <1>1, <1>2, SeqMonotonic, MessagingAssumption
<1>3. ASSUME NEW s \in Seq(Ids) PROVE s # None
  BY <1>1, <1>3, SeqMonotonic, MessagingAssumption
<1> QED
  BY <1>2, <1>3

-----------------------------------------------------------------------------
(* What steps do to the queues. *)

LEMMA TypeFacts ==
  ASSUME IInv
  PROVE  /\ InQueue \in Seq(Message) /\ pending \in Seq(Message) /\ declaring \in Seq(Message)
         /\ carriedOut \in Seq(Ids) /\ Ids \subseteq Nat /\ \A m \in Message : m.id \in Ids
         /\ count \in Nat
  BY EmptyFacts, MessagingAssumption DEF IInv, TypeOK, InQueue, Message, Ids

LEMMA FaultFacts == ASSUME IInv, Fault PROVE faults' \in 0 .. MaxFaults
BY MessagingAssumption DEF IInv, TypeOK, Fault

\* Requests that are lost disturb no order.
LEMMA LessOrder ==
  ASSUME IInv, UNCHANGED <<carriedOut, count>>,
         Inc(InQueue)', Inc(pending)', Inc(declaring)',
         Els(InQueue)' \subseteq Els(InQueue), Els(pending)' \subseteq Els(pending),
         Els(declaring)' \subseteq Els(declaring)
  PROVE  Order'
BY DEF IInv, Order, InOrderOnce, Newer, Before

\* What is left of a queue whose channel or connection is closed
LEMMA LeftFacts ==
  ASSUME NEW q \in PrefixesOf(hostQ) \union SuffixesOf(hostQ), IInv
  PROVE  /\ q \in Seq(Message) \union {None} /\ (q = None <=> hostQ = None)
         /\ q # None => Inc(q) /\ Els(q) \subseteq Els(InQueue)
<1>1. CASE hostQ = None
  BY <1>1 DEF PrefixesOf, SuffixesOf
<1>2. CASE hostQ # None
  <2>1. hostQ \in Seq(Message) /\ InQueue = hostQ /\ Inc(hostQ)
    BY <1>2 DEF IInv, TypeOK, InQueue, Order
  <2>2. PICK i \in 0 .. Len(hostQ) :
          q = SubSeq(hostQ, 1, i) \/ q = SubSeq(hostQ, i + 1, Len(hostQ))
    BY <1>2 DEF PrefixesOf, SuffixesOf
  <2>3. /\ i + 1 \in 1 .. Len(hostQ) + 1 /\ Len(hostQ) \in 0 .. Len(hostQ)
        /\ 1 \in 1 .. Len(hostQ) + 1
    BY <2>1
  <2> QED
    BY <1>2, <2>1, <2>2, <2>3, PartFacts, NotNone
<1> QED
  BY <1>1, <1>2

LEMMA MasterLeft ==
  ASSUME NEW q \in PrefixesOf(masterQ) \union SuffixesOf(masterQ), IInv
  PROVE  q \in Seq(Ids) \union {None} /\ (q = None <=> masterQ = None)
<1>1. CASE masterQ = None
  BY <1>1 DEF PrefixesOf, SuffixesOf
<1>2. CASE masterQ # None
  <2>1. masterQ \in Seq(Ids)
    BY <1>2 DEF IInv, TypeOK
  <2>2. PICK i \in 0 .. Len(masterQ) :
          q = SubSeq(masterQ, 1, i) \/ q = SubSeq(masterQ, i + 1, Len(masterQ))
    BY <1>2 DEF PrefixesOf, SuffixesOf
  <2>3. q \in Seq(Ids)
    <3>1. SubSeq(masterQ, 1, i) \in Seq(Ids)
      BY <2>1
    <3>2. SubSeq(masterQ, i + 1, Len(masterQ)) \in Seq(Ids)
      BY <2>1
    <3> QED
      BY <2>2, <3>1, <3>2
  <2> QED
    BY <1>2, <2>3, NotNone
<1> QED
  BY <1>1, <1>2

\* What was delivered on a channel, or sent on a connection, that closes is lost.
LEMMA LostFacts ==
  ASSUME IInv, hostQ' \in PrefixesOf(hostQ) \union SuffixesOf(hostQ) \union {hostQ}
  PROVE  /\ hostQ' \in Seq(Message) \union {None} /\ (hostQ' = None <=> hostQ = None)
         /\ Inc(InQueue)' /\ Els(InQueue)' \subseteq Els(InQueue)
         /\ UNCHANGED <<pending, declaring, count, carriedOut>> => Order'
<1>1. /\ hostQ' \in Seq(Message) \union {None} /\ (hostQ' = None <=> hostQ = None)
      /\ Inc(InQueue)' /\ Els(InQueue)' \subseteq Els(InQueue)
  <2>1. CASE hostQ' = hostQ
    BY <2>1 DEF IInv, TypeOK, Order, InQueue
  <2>2. CASE hostQ' \in PrefixesOf(hostQ) \union SuffixesOf(hostQ)
    BY <2>2, LeftFacts, EmptyFacts DEF InQueue
  <2> QED
    BY <2>1, <2>2
<1>2. ASSUME UNCHANGED <<pending, declaring, count, carriedOut>> PROVE Order'
  <2>1. Inc(pending)' /\ Inc(declaring)' /\ UNCHANGED <<Els(pending), Els(declaring)>>
    BY <1>2 DEF IInv, Order, Inc, Els
  <2> QED
    BY <1>1, <1>2, <2>1, LessOrder
<1> QED
  BY <1>1, <1>2

\* A batch that is published, whole or in part: what is pending moves to the queue.
LEMMA PublishFacts ==
  ASSUME IInv, NEW n \in 0 .. Len(pending), Publish(SubSeq(pending, 1, n)),
         pending' = <<>>, Inc(declaring)', Els(declaring)' \subseteq Els(declaring),
         UNCHANGED <<carriedOut, count, brokerDied>>
  PROVE  /\ hostQ' \in Seq(Message) \union {None} /\ (hostQ' = None <=> hostQ = None)
         /\ Order' /\ Queued' /\ Routable' /\ unroutable' \in BOOLEAN
<1> DEFINE batch == SubSeq(pending, 1, n)
<1>1. batch \in Seq(Message) /\ Els(batch) \subseteq Els(pending) /\ Inc(batch)
  <2>1. pending \in Seq(Message) /\ Inc(pending)
    BY DEF IInv, TypeOK, Order
  <2>2. 1 \in 1 .. Len(pending) + 1
    BY <2>1
  <2> QED
    BY <2>1, <2>2, PartFacts
<1>2. Inc(pending)' /\ Els(pending)' = {}
  BY EmptyFacts
<1>3. pending = <<>> => batch = <<>>
  BY DEF IInv, TypeOK
<1> HIDE DEF batch
<1>4. Queued' /\ Routable' /\ unroutable' \in BOOLEAN
  BY <1>3 DEF IInv, TypeOK, Publish, Queued, Routable, batch
<1>5. CASE hostQ = None
  <2>1. hostQ' = None /\ Inc(InQueue)' /\ Els(InQueue)' = {}
    BY <1>5, EmptyFacts DEF Publish, InQueue
  <2> QED
    BY <1>2, <1>4, <1>5, <2>1, LessOrder
<1>6. CASE hostQ # None
  <2>1. hostQ \in Seq(Message) /\ InQueue = hostQ /\ hostQ' = hostQ \o batch
    BY <1>6 DEF IInv, TypeOK, InQueue, Publish, batch
  <2>2. Inc(hostQ) /\ Before(hostQ, batch)
    BY <1>1, <2>1 DEF IInv, Order, Before
  <2>3. hostQ' \in Seq(Message) /\ Els(hostQ') = Els(hostQ) \union Els(batch) /\ Inc(hostQ')
    BY <1>1, <2>1, <2>2, JoinFacts
  <2>4. InQueue' = hostQ' /\ hostQ' # None
    BY <2>3, NotNone DEF InQueue
  <2>5. Newer(InQueue)' /\ Before(InQueue, pending)' /\ Before(InQueue, declaring)'
    BY <1>1, <1>2, <2>1, <2>3, <2>4 DEF IInv, Order, Newer, Before
  <2>6. Order'
    BY <1>2, <2>3, <2>4, <2>5 DEF IInv, Order, InOrderOnce, Newer, Before
  <2> QED
    BY <1>4, <1>6, <2>3, <2>4, <2>6
<1> QED
  BY <1>5, <1>6

-----------------------------------------------------------------------------
(* bbmaster's I/O thread. *)

LEMMA InitHolds == Init => IInv
<1> SUFFICES ASSUME Init PROVE IInv
  OBVIOUS
<1>1. TypeOK
  <2>1. <<>> \in Seq(Message) /\ <<>> \in Seq(Ids)
    OBVIOUS
  <2>2. 0 \in 0 .. MaxRequests /\ 0 \in 0 .. MaxFaults
    BY MessagingAssumption
  <2> QED
    BY <2>1, <2>2 DEF Init, TypeOK, Loop
<1>2. InQueue = <<>>
  BY DEF Init, InQueue
<1>3. Order
  BY <1>2, EmptyFacts DEF Init, Order, InOrderOnce, Newer, Before
<1> QED
  BY <1>1, <1>3 DEF IInv, Init, Queued, Routable

\* The steps that leave the queue at the broker as it is, or cut it
LEMMA SameQueues ==
  ASSUME IInv, UNCHANGED <<hostQ, pending, declaring, carriedOut, count>>
  PROVE  Order'
BY DEF IInv, Order, InOrderOnce, InQueue, Inc, Newer, Before, Els

LEMMA OpenStep == ASSUME IInv, Open \/ OpenChannel PROVE IInv'
<1> USE DEF Open, OpenChannel, OnlyMaster, agentVars
<1>1. TypeOK'
  BY DEF IInv, TypeOK, Loop
<1>2. Order' /\ Queued' /\ Routable'
  BY SameQueues DEF IInv, Queued, Routable
<1> QED
  BY <1>1, <1>2 DEF IInv

LEMMA WholeBatch ==
  ASSUME IInv
  PROVE  Len(pending) \in 0 .. Len(pending) /\ SubSeq(pending, 1, Len(pending)) = pending
BY DEF IInv, TypeOK

LEMMA BoundStep == ASSUME IInv, Bound PROVE IInv'
<1> USE DEF Bound, OnlyMaster, agentVars
<1>1. /\ hostQ' \in Seq(Message) \union {None} /\ (hostQ' = None <=> hostQ = None)
      /\ Order' /\ Queued' /\ Routable' /\ unroutable' \in BOOLEAN
  <2>1. Publish(SubSeq(pending, 1, Len(pending))) /\ pending' = <<>>
    BY WholeBatch DEF Taken
  <2>2. Inc(declaring)' /\ Els(declaring)' \subseteq Els(declaring)
    BY DEF IInv, Order, Inc, Els
  <2> QED
    BY <2>1, <2>2, WholeBatch, PublishFacts
<1>2. masterQ' \in Seq(Ids) /\ masterQ' # None
  <2>1. <<>> \in Seq(Ids)
    OBVIOUS
  <2> QED
    BY <2>1, NotNone DEF IInv, TypeOK
<1>3. TypeOK'
  BY <1>1, <1>2, EmptyFacts DEF IInv, TypeOK, Loop, Taken
<1> QED
  BY <1>1, <1>3 DEF IInv

LEMMA SendPendingStep == ASSUME IInv, SendPending PROVE IInv'
<1> USE DEF SendPending, OnlyMaster, agentVars
<1>1. /\ hostQ' \in Seq(Message) \union {None} /\ (hostQ' = None <=> hostQ = None)
      /\ Order' /\ Queued' /\ Routable' /\ unroutable' \in BOOLEAN
  <2>1. Publish(SubSeq(pending, 1, Len(pending))) /\ pending' = <<>>
    BY WholeBatch DEF Taken
  <2>2. Inc(declaring)' /\ Els(declaring)' \subseteq Els(declaring)
    BY DEF IInv, Order, Inc, Els
  <2> QED
    BY <2>1, <2>2, WholeBatch, PublishFacts
<1>2. TypeOK'
  BY <1>1, EmptyFacts DEF IInv, TypeOK, Taken
<1> QED
  BY <1>1, <1>2 DEF IInv

LEMMA SendFailsStep == ASSUME IInv, SendFails PROVE IInv'
<1> USE DEF SendFails, OnlyMaster, agentVars
<1>1. /\ hostQ' \in Seq(Message) \union {None} /\ (hostQ' = None <=> hostQ = None)
      /\ Order' /\ Queued' /\ Routable' /\ unroutable' \in BOOLEAN
  <2>1. PICK n \in 0 .. Len(pending) - 1 : Publish(SubSeq(pending, 1, n))
    OBVIOUS
  <2>2. n \in 0 .. Len(pending) /\ pending' = <<>>
    BY DEF IInv, TypeOK, Taken
  <2>3. Inc(declaring)' /\ Els(declaring)' \subseteq Els(declaring)
    BY EmptyFacts
  <2> QED
    BY <2>1, <2>2, <2>3, PublishFacts
<1>2. masterQ' \in Seq(Ids) \union {None} /\ faults' \in 0 .. MaxFaults
  BY MasterLeft, FaultFacts
<1>3. TypeOK'
  BY <1>1, <1>2, EmptyFacts DEF IInv, TypeOK, Loop, Taken
<1> QED
  BY <1>1, <1>3 DEF IInv

\* A message whose queue has been declared is the newest of the pending ones.
LEMMA DeclaredStep == ASSUME IInv, Declared PROVE IInv'
<1> USE DEF Declared, OnlyMaster, agentVars
<1> DEFINE m == Head(declaring)
<1>1. pending \in Seq(Message) /\ declaring \in Seq(Message) /\ Inc(declaring) /\ Inc(pending)
  BY DEF IInv, TypeOK, Order
<1>2. /\ m \in Message /\ m \in Els(declaring)
      /\ declaring' \in Seq(Message) /\ Els(declaring)' \subseteq Els(declaring)
      /\ Inc(declaring)' /\ \A n \in Els(declaring)' : m.id < n.id
  BY <1>1, FirstFacts
<1>3. \A n \in Els(pending) : n.id < m.id
  BY <1>2 DEF IInv, Order, Before
<1>4. /\ pending' \in Seq(Message) /\ Els(pending)' = Els(pending) \union {m}
      /\ Inc(pending)' /\ pending' # <<>>
  BY <1>1, <1>2, <1>3, AppendFacts
<1>5. hostQ' = InQueue /\ InQueue' = InQueue /\ InQueue \in Seq(Message) /\ hostQ' # None
  <2>1. hostQ' = InQueue /\ InQueue \in Seq(Message)
    BY TypeFacts DEF InQueue
  <2> QED
    BY <2>1, NotNone DEF InQueue
<1> HIDE DEF m
<1>6. Newer(InQueue)' /\ Newer(pending)' /\ Newer(declaring)'
  BY <1>2, <1>4, <1>5 DEF IInv, Order, Newer
<1>7. Before(InQueue, pending)' /\ Before(InQueue, declaring)' /\ Before(pending, declaring)'
  BY <1>2, <1>4, <1>5 DEF IInv, Order, Before
<1>8. Order'
  BY <1>2, <1>4, <1>5, <1>6, <1>7 DEF IInv, Order, InOrderOnce
<1>9. TypeOK'
  BY <1>2, <1>4, <1>5 DEF IInv, TypeOK
<1> QED
  BY <1>5, <1>8, <1>9 DEF IInv, Queued, Routable

LEMMA ConsumeStep == ASSUME IInv, Consume PROVE IInv'
<1> USE DEF Consume, OnlyMaster, agentVars, masterVars
<1>1. masterQ \in Seq(Ids)
  BY DEF IInv, TypeOK
<1>2. Tail(masterQ) \in Seq(Ids) /\ Head(masterQ) \in Ids
  BY <1>1
<1>3. faults' \in 0 .. MaxFaults
  BY FaultFacts DEF IInv, TypeOK
<1>4. TypeOK'
  BY <1>2, <1>3, NotNone DEF IInv, TypeOK
<1>5. Order' /\ Queued' /\ Routable'
  BY SameQueues DEF IInv, Queued, Routable
<1> QED
  BY <1>4, <1>5 DEF IInv

\* Requests that were being declared are lost with the channel, the others stay.
LEMMA ClosedStep ==
  ASSUME IInv, ChannelClosed \/ ConnectionClosed \/ MasterDies PROVE IInv'
<1> USE DEF ChannelClosed, ConnectionClosed, MasterDies, Close, OnlyMaster, agentVars
<1>1. /\ declaring' = <<>> /\ pending' \in {pending, <<>>} /\ loop' \in {"down", "silent"}
      /\ hostQ' \in PrefixesOf(hostQ) \union {hostQ}
      /\ UNCHANGED <<carriedOut, count, unroutable, brokerDied>>
  OBVIOUS
<1>2. Inc(declaring)' /\ Els(declaring)' = {} /\ Inc(pending)' /\ Els(pending)' \subseteq Els(pending)
  BY <1>1, EmptyFacts DEF IInv, Order
<1>3. /\ hostQ' \in Seq(Message) \union {None} /\ (hostQ' = None <=> hostQ = None)
      /\ Inc(InQueue)' /\ Els(InQueue)' \subseteq Els(InQueue)
  BY <1>1, LostFacts
<1>4. Order'
  BY <1>1, <1>2, <1>3, LessOrder
<1>5. masterQ' \in Seq(Ids) \union {None} /\ faults' \in 0 .. MaxFaults
  BY MasterLeft, FaultFacts
<1>6. TypeOK'
  <2>1. declaring' \in Seq(Message) /\ pending' \in Seq(Message)
    BY <1>1, EmptyFacts DEF IInv, TypeOK
  <2>2. loop' \in Loop /\ loop' # "running" /\ declaring' = <<>>
    BY <1>1 DEF Loop
  <2>3. UNCHANGED <<agentVars, historyVars>>
    BY DEF historyVars
  <2> QED
    BY <1>3, <1>5, <2>1, <2>2, <2>3 DEF IInv, TypeOK, historyVars
<1>7. Queued' /\ Routable'
  BY <1>1, <1>3 DEF IInv, Queued, Routable
<1> QED
  BY <1>4, <1>6, <1>7 DEF IInv

\* A new request is newer than all others.
LEMMA RequestStep ==
  ASSUME IInv, NEW kind \in {"get_support", "support_command"}, Request(kind) PROVE IInv'
<1> USE DEF Request, SendMsg, agentVars
<1> DEFINE m == [id |-> count', kind |-> kind]
<1>1. count \in Nat /\ count' = count + 1 /\ count' \in 0 .. MaxRequests /\ m \in Message
  BY MessagingAssumption DEF IInv, TypeOK, Message
<1>2. declaring' = Append(declaring, m) /\ m.id = count + 1
  BY <1>1
<1>3. declaring \in Seq(Message) /\ pending \in Seq(Message) /\ InQueue \in Seq(Message)
  BY TypeFacts
<1>4. \A n \in Els(declaring) \union Els(pending) \union Els(InQueue) : n.id < m.id
  <2>1. \A n \in Els(declaring) \union Els(pending) \union Els(InQueue) :
          n \in Message /\ n.id <= count
    BY <1>3 DEF IInv, Order, Newer, Els
  <2> QED
    BY <1>1, <1>2, <2>1 DEF Message
<1> HIDE DEF m
<1>5. /\ declaring' \in Seq(Message) /\ Els(declaring)' = Els(declaring) \union {m}
      /\ Inc(declaring)'
  BY <1>1, <1>2, <1>3, <1>4, AppendFacts DEF IInv, Order
<1>6. \A i \in 1 .. Len(carriedOut) : carriedOut[i] <= count' /\ carriedOut[i] < m.id
  <2>1. \A i \in 1 .. Len(carriedOut) : carriedOut[i] \in Nat /\ carriedOut[i] <= count
    BY TypeFacts DEF IInv, Order
  <2> QED
    BY <1>1, <1>2, <2>1
<1>7. InQueue' = InQueue /\ pending' = pending
  BY DEF InQueue
<1>8. Newer(InQueue)' /\ Newer(pending)' /\ Newer(declaring)'
  <2>1. \A n \in Els(InQueue) \union Els(pending) \union Els(declaring) : n.id <= count'
    <3>1. \A n \in Els(InQueue) \union Els(pending) \union Els(declaring) : n.id <= count /\ n \in Message
      BY <1>3 DEF IInv, Order, Newer, Els
    <3> QED
      BY <1>1, <3>1, TypeFacts
  <2> QED
    BY <1>1, <1>2, <1>5, <1>6, <1>7, <2>1 DEF IInv, Order, Newer
<1>9. Before(InQueue, pending)' /\ Before(InQueue, declaring)' /\ Before(pending, declaring)'
  BY <1>4, <1>5, <1>7 DEF IInv, Order, Before
<1>10. Order'
  BY <1>5, <1>6, <1>7, <1>8, <1>9 DEF IInv, Order, InOrderOnce
<1>11. TypeOK'
  BY <1>1, <1>5 DEF IInv, TypeOK
<1> QED
  BY <1>10, <1>11 DEF IInv, Queued, Routable

-----------------------------------------------------------------------------
(* The agent. *)

\* A request that is carried out leaves the queue, with those that are lost then.
LEMMA DeliveredOrder ==
  ASSUME IInv, hostQ \in Seq(Message), hostQ # <<>>, hostQ' \in Seq(Message),
         Inc(hostQ)', Els(hostQ)' \subseteq Els(Tail(hostQ)),
         carriedOut' \in {carriedOut, Append(carriedOut, Head(hostQ).id)},
         UNCHANGED <<pending, declaring, count>>
  PROVE  Order' /\ carriedOut' \in Seq(Ids)
<1> DEFINE m == Head(hostQ)
           c == carriedOut
<1>1. InQueue = hostQ /\ InQueue' = hostQ'
  BY NotNone DEF InQueue
<1>2. /\ m \in Message /\ m \in Els(hostQ) /\ Els(hostQ)' \subseteq Els(hostQ)
      /\ \A n \in Els(hostQ)' : m.id < n.id
  BY <1>1, FirstFacts DEF IInv, Order
<1>3. /\ c \in Seq(Ids) /\ count \in Nat /\ m.id \in Ids /\ Ids \subseteq Nat
      /\ m.id <= count /\ \A i \in 1 .. Len(c) : c[i] < m.id
  BY <1>1, <1>2, TypeFacts DEF IInv, Order, Newer
<1>4. /\ \A n \in Els(hostQ)' : m.id < n.id
      /\ \A n \in Els(pending) \union Els(declaring) : m.id < n.id
  BY <1>1, <1>2 DEF IInv, Order, Before
<1>5. CASE c' = c
  BY <1>1, <1>2, <1>3, <1>5, LessOrder DEF IInv, Order, Inc, Els
<1>6. CASE c' = Append(c, m.id)
  <2>1. /\ c' \in Seq(Ids) /\ Len(c') = Len(c) + 1 /\ Len(c) \in Nat /\ DOMAIN c' = 1 .. Len(c) + 1
        /\ \A i \in 1 .. Len(c) : c'[i] = c[i] /\ c[i] \in Nat
        /\ c'[Len(c) + 1] = m.id
    <3> HIDE DEF m, c
    <3>1. /\ Append(c, m.id) \in Seq(Ids) /\ Len(Append(c, m.id)) = Len(c) + 1 /\ Len(c) \in Nat
          /\ DOMAIN Append(c, m.id) = 1 .. Len(c) + 1 /\ Append(c, m.id)[Len(c) + 1] = m.id
          /\ \A i \in 1 .. Len(c) : Append(c, m.id)[i] = c[i]
      BY <1>3
    <3>2. \A i \in 1 .. Len(c) : c[i] \in Nat
      BY TypeFacts DEF c
    <3> QED
      BY <1>6, <3>1, <3>2
  <2> HIDE DEF m
  <2>2. \A i \in 1 .. Len(c') : c'[i] <= count /\ (i \in 1 .. Len(c) \/ i = Len(c) + 1)
    BY <1>3, <2>1 DEF IInv, Order
  <2>3. InOrderOnce'
    <3>1. SUFFICES ASSUME NEW i \in 1 .. Len(c) + 1, NEW j \in 1 .. Len(c) + 1, i < j
                   PROVE  c'[i] < c'[j]
      BY <2>1 DEF InOrderOnce
    <3>2. i \in 1 .. Len(c)
      BY <2>1, <3>1
    <3>3. CASE j = Len(c) + 1
      BY <1>3, <2>1, <3>2, <3>3
    <3>4. CASE j \in 1 .. Len(c)
      <4>1. DOMAIN c = 1 .. Len(c)
        BY <1>3
      <4> QED
        BY <2>1, <3>1, <3>2, <3>4, <4>1 DEF IInv, Order, InOrderOnce
    <3> QED
      BY <2>1, <3>3, <3>4
  <2>4. /\ \A n \in Els(hostQ)' \union Els(pending) \union Els(declaring) :
             n.id <= count /\ \A i \in 1 .. Len(c') : c'[i] < n.id
    <3>1. \A n \in Els(hostQ)' \union Els(pending) \union Els(declaring) :
            n.id <= count /\ m.id < n.id /\ \A i \in 1 .. Len(c) : c[i] < n.id
      BY <1>1, <1>2, <1>4 DEF IInv, Order, Newer
    <3> QED
      BY <2>1, <2>2, <3>1
  <2>5. UNCHANGED <<Els(pending), Els(declaring), Inc(pending), Inc(declaring)>>
    BY DEF Els, Inc
  <2>6. Newer(InQueue)' /\ Newer(pending)' /\ Newer(declaring)'
    BY <1>1, <2>4, <2>5 DEF Newer
  <2>7. Before(InQueue, pending)' /\ Before(InQueue, declaring)' /\ Before(pending, declaring)'
    BY <1>1, <1>2, <2>5 DEF IInv, Order, Before
  <2>8. Inc(InQueue)' /\ Inc(pending)' /\ Inc(declaring)'
    BY <1>1, <2>5 DEF IInv, Order
  <2> QED
    BY <2>1, <2>2, <2>3, <2>6, <2>7, <2>8 DEF Order
<1> QED
  BY <1>5, <1>6

LEMMA HandleMsgStep == ASSUME IInv, HandleMsg PROVE IInv'
<1> USE DEF HandleMsg, OnlyAgent, agentVars, masterVars
<1>1. hostQ \in Seq(Message) /\ hostQ # <<>> /\ hostQ' = Tail(hostQ)
  BY DEF IInv, TypeOK
<1>2. hostQ' \in Seq(Message) /\ Inc(hostQ)' /\ hostQ' # None /\ Head(hostQ).id \in Ids
  <2>1. InQueue = hostQ
    BY <1>1, NotNone DEF InQueue
  <2> QED
    BY <1>1, <2>1, FirstFacts, NotNone, TypeFacts DEF IInv, Order
<1>3. carriedOut' \in {carriedOut, Append(carriedOut, Head(hostQ).id)}
  OBVIOUS
<1>4. Order' /\ carriedOut' \in Seq(Ids)
  BY <1>1, <1>2, <1>3, DeliveredOrder
<1>5. masterQ' \in Seq(Ids) \union {None} /\ (masterQ # None => masterQ' # None)
  <2>1. CASE masterQ' = masterQ
    BY <2>1 DEF IInv, TypeOK
  <2>2. CASE Answer(Head(hostQ).id)
    <3>1. masterQ # None => Append(masterQ, Head(hostQ).id) \in Seq(Ids)
      BY <1>2 DEF IInv, TypeOK
    <3> QED
      BY <2>2, <3>1, NotNone DEF Answer
  <2> QED
    BY <2>1, <2>2
<1>6. TypeOK'
  BY <1>2, <1>4, <1>5 DEF IInv, TypeOK
<1> QED
  BY <1>2, <1>4, <1>6 DEF IInv, Queued, Routable

LEMMA ChannelsStep == ASSUME IInv, Connect \/ SendUp \/ RecvUp \/ SendDown PROVE IInv'
<1> USE DEF Connect, SendUp, RecvUp, SendDown, OnlyAgent, masterVars
<1>1. faults' \in 0 .. MaxFaults
  BY FaultFacts DEF IInv, TypeOK
<1>2. UNCHANGED <<loop, declaring, pending, hostQ, masterQ, historyVars>>
  BY DEF historyVars
<1>3. /\ connected' \in BOOLEAN /\ send' \in BOOLEAN /\ recv' \in BOOLEAN
      /\ (send' \/ recv' => connected') /\ (recv' => hostQ' # None)
  <2>1. CASE Connect
    BY <2>1 DEF IInv, TypeOK
  <2>2. CASE SendUp
    BY <2>2 DEF IInv, TypeOK
  <2>3. CASE RecvUp
    BY <2>3 DEF IInv, TypeOK
  <2>4. CASE SendDown
    BY <2>4 DEF IInv, TypeOK
  <2> QED
    BY <2>1, <2>2, <2>3, <2>4
<1>4. TypeOK'
  BY <1>1, <1>2, <1>3 DEF IInv, TypeOK, historyVars
<1>5. Order' /\ Queued' /\ Routable'
  BY SameQueues DEF IInv, Queued, Routable
<1> QED
  BY <1>4, <1>5 DEF IInv

LEMMA RecvDownStep == ASSUME IInv, RecvDown PROVE IInv'
<1> USE DEF RecvDown, OnlyAgent, masterVars
<1>1. /\ hostQ' \in Seq(Message) \union {None} /\ (hostQ' = None <=> hostQ = None) /\ Order'
  BY LostFacts
<1>2. faults' \in 0 .. MaxFaults
  BY FaultFacts
<1>3. TypeOK'
  BY <1>1, <1>2 DEF IInv, TypeOK
<1> QED
  BY <1>1, <1>3 DEF IInv, Queued, Routable

\* A request that was carried out as the agent failed was delivered before.
LEMMA AgentFailsStep == ASSUME IInv, AgentFails PROVE IInv'
<1> USE DEF AgentFails, Disconnect, OnlyAgent, masterVars
<1>1. hostQ' \in Seq(Message) \union {None} /\ (hostQ' = None <=> hostQ = None)
  BY LostFacts
<1>2. faults' \in 0 .. MaxFaults /\ masterQ' \in Seq(Ids) \union {None}
        /\ (masterQ' = None <=> masterQ = None)
  BY FaultFacts, MasterLeft
<1>3. Order' /\ carriedOut' \in Seq(Ids)
  <2>1. CASE UNCHANGED carriedOut
    BY <2>1, LostFacts DEF IInv, TypeOK
  <2>2. CASE /\ recv /\ hostQ # <<>> /\ hostQ' # hostQ
             /\ carriedOut' = Append(carriedOut, Head(hostQ).id)
    <3>1. hostQ \in Seq(Message) /\ hostQ # None /\ hostQ' \in SuffixesOf(hostQ)
      BY <2>2, NotNone DEF IInv, TypeOK
    <3>2. PICK i \in 0 .. Len(hostQ) : hostQ' = SubSeq(hostQ, i + 1, Len(hostQ))
      BY <3>1 DEF SuffixesOf
    <3>3. i # 0
      <4>1. SubSeq(hostQ, 1, Len(hostQ)) = hostQ
        BY <3>1
      <4> QED
        BY <2>2, <3>2, <4>1
    <3>4. Els(hostQ)' \subseteq Els(Tail(hostQ))
      <4> DEFINE q == SubSeq(hostQ, i + 1, Len(hostQ))
                 t == Tail(hostQ)
      <4>1. /\ Len(hostQ) \in Nat /\ i \in 1 .. Len(hostQ)
            /\ Len(q) = Len(hostQ) - i /\ \A k \in 1 .. Len(q) : q[k] = hostQ[i + k]
            /\ Len(t) = Len(hostQ) - 1 /\ \A k \in 1 .. Len(t) : t[k] = hostQ[k + 1]
        BY <2>2, <3>1, <3>3
      <4> HIDE DEF q, t
      <4>2. ASSUME NEW k \in 1 .. Len(q)
            PROVE  i + k - 1 \in 1 .. Len(t) /\ q[k] = t[i + k - 1]
        <5>1. i + k - 1 \in 1 .. Len(t) /\ (i + k - 1) + 1 = i + k
          BY <4>1
        <5> QED
          BY <4>1, <5>1
      <4>3. Els(q) \subseteq Els(t)
        BY <4>2 DEF Els
      <4> QED
        BY <3>2, <4>3 DEF q, t
    <3>5. hostQ' \in Seq(Message) /\ Inc(hostQ)'
      <4>1. hostQ' # None /\ hostQ' \in Seq(Message) /\ InQueue' = hostQ'
        BY <1>1, <3>1 DEF InQueue
      <4>2. Inc(InQueue)'
        BY LostFacts
      <4> QED
        BY <4>1, <4>2
    <3> QED
      BY <2>2, <3>1, <3>4, <3>5, DeliveredOrder
  <2> QED
    BY <2>1, <2>2
<1>4. TypeOK'
  BY <1>1, <1>2, <1>3 DEF IInv, TypeOK
<1> QED
  BY <1>1, <1>3, <1>4 DEF IInv, Queued, Routable

\* A broker that restarts has no queue.
LEMMA BrokerDiesStep == ASSUME IInv, BrokerDies PROVE IInv'
<1> USE DEF BrokerDies, Close, masterVars
<1>1. /\ declaring' = <<>> /\ pending' = pending /\ loop' = "down"
      /\ UNCHANGED <<carriedOut, count>>
  BY DEF IInv, TypeOK
<1>2. Inc(InQueue)' /\ Els(InQueue)' = {}
  BY EmptyFacts DEF InQueue
<1>3. Inc(declaring)' /\ Els(declaring)' = {} /\ Inc(pending)' /\ Els(pending)' = Els(pending)
  BY <1>1, EmptyFacts DEF IInv, Order
<1>4. Order'
  BY <1>1, <1>2, <1>3, LessOrder
<1>5. TypeOK'
  <2>1. declaring' \in Seq(Message) /\ pending' \in Seq(Message)
    BY <1>1, EmptyFacts DEF IInv, TypeOK
  <2>2. loop' \in Loop /\ loop' # "running" /\ faults' \in 0 .. MaxFaults
    BY <1>1, FaultFacts DEF Loop
  <2>3. hostQ' = None /\ masterQ' = None /\ brokerDied' \in BOOLEAN
    OBVIOUS
  <2>4. connected' = FALSE /\ send' = FALSE /\ recv' = FALSE
    OBVIOUS
  <2> QED
    BY <1>1, <2>1, <2>2, <2>3, <2>4 DEF IInv, TypeOK
<1> QED
  BY <1>4, <1>5 DEF IInv, Queued, Routable
-----------------------------------------------------------------------------
(* The theorems. *)

LEMMA Step == IInv /\ [Next]_vars => IInv'
<1> SUFFICES ASSUME IInv, [Next]_vars PROVE IInv'
  OBVIOUS
<1>1. CASE Master
  BY <1>1, OpenStep, BoundStep, SendPendingStep, DeclaredStep, ConsumeStep DEF Master
<1>2. CASE SendFails \/ ChannelClosed \/ ConnectionClosed \/ MasterDies
  BY <1>2, SendFailsStep, ClosedStep
<1>3. CASE \E kind \in {"get_support", "support_command"} : Request(kind)
  BY <1>3, RequestStep
<1>4. CASE Agent
  BY <1>4, ChannelsStep, HandleMsgStep DEF Agent
<1>5. CASE AgentFails \/ SendDown \/ RecvDown
  BY <1>5, AgentFailsStep, ChannelsStep, RecvDownStep
<1>6. CASE BrokerDies
  BY <1>6, BrokerDiesStep
<1>7. CASE UNCHANGED vars
  <2> USE <1>7 DEF vars, masterVars, agentVars, historyVars
  <2>1. TypeOK'
    BY DEF IInv, TypeOK
  <2>2. Order' /\ Queued' /\ Routable'
    BY SameQueues DEF IInv, Queued, Routable
  <2> QED
    BY <2>1, <2>2 DEF IInv
<1> QED
  BY <1>1, <1>2, <1>3, <1>4, <1>5, <1>6, <1>7 DEF Next, Apart

\* The inductive invariant: the types, the order of the requests along their way
\* from bbmaster's lists to the agent, and that what is pending has its queue.
THEOREM MessagingInvariant == Spec => []IInv
<1>1. Init => IInv
  BY InitHolds
<1>2. IInv /\ [Next]_vars => IInv'
  BY Step
<1> QED
  BY <1>1, <1>2, PTL DEF Spec

\* The agent carries out each request at most once and in the order in which they
\* were made (_send_msg, send_pending_msgs, consume_msg), whatever connections,
\* channels, processes or the broker fail, and however often.
THEOREM RequestsInOrderOnce == Spec => []InOrderOnce
<1>1. IInv => InOrderOnce
  BY DEF IInv, Order
<1> QED
  BY <1>1, MessagingInvariant, PTL

\* The docstring of _send_msg: a message is published only to a queue that was
\* declared, and it is there until the broker is restarted.
THEOREM MessagesRoutable == Spec => []Routable
<1>1. IInv => Routable
  BY DEF IInv
<1> QED
  BY <1>1, MessagingInvariant, PTL
-----------------------------------------------------------------------------
(* The notifier: what was published comes before what waits. *)

Rising(s) == \A i, j \in 1 .. Len(s) : i < j => s[i] < s[j]
Within(s, n) == \A i \in 1 .. Len(s) : s[i] <= n
Earlier(s, t) == \A i \in 1 .. Len(s), j \in 1 .. Len(t) : s[i] < t[j]

NotifierOrder ==
  /\ Rising(published) /\ Rising(changes) /\ Earlier(published, changes)
  /\ Within(published, made) /\ Within(changes, made)

NInv == N!TypeOK /\ NotifierOrder

LEMMA NIdsFacts == N!Ids \subseteq Nat /\ MaxChanges \in Nat /\ MaxFaults \in Nat
BY NotifierAssumption, MessagingAssumption DEF N!Ids

LEMMA NumbersFacts ==
  ASSUME NEW s \in Seq(N!Ids)
  PROVE  Len(s) \in Nat /\ \A i \in 1 .. Len(s) : s[i] \in Nat
<1>1. Len(s) \in Nat /\ \A i \in 1 .. Len(s) : s[i] \in N!Ids
  OBVIOUS
<1> QED
  BY <1>1, NIdsFacts

\* A batch, whole or cut short, that follows what was published
LEMMA BatchFacts ==
  ASSUME NInv, NEW n \in 0 .. Len(changes), N!Send(SubSeq(changes, 1, n)),
         changes' = <<>>, UNCHANGED made
  PROVE  /\ published' \in Seq(N!Ids) /\ changes' \in Seq(N!Ids)
         /\ NotifierOrder'
<1> DEFINE p == published
           b == SubSeq(changes, 1, n)
           u == p \o b
<1>1. /\ p \in Seq(N!Ids) /\ changes \in Seq(N!Ids) /\ Len(changes) \in Nat /\ Len(p) \in Nat
      /\ b \in Seq(N!Ids) /\ Len(b) = n
      /\ \A i \in 1 .. n : b[i] = changes[i] /\ i \in 1 .. Len(changes)
  BY DEF NInv, N!TypeOK
<1>2. /\ u \in Seq(N!Ids) /\ Len(u) = Len(p) + n
      /\ \A i \in 1 .. Len(u) : u[i] = IF i <= Len(p) THEN p[i] ELSE b[i - Len(p)]
  <2> HIDE DEF b, p
  <2> QED
    BY <1>1
<1>3. published' = u
  BY DEF N!Send
<1>4. \A i \in 1 .. Len(u) :
        \/ i \in 1 .. Len(p) /\ u[i] = p[i]
        \/ i > Len(p) /\ i - Len(p) \in 1 .. Len(changes) /\ u[i] = changes[i - Len(p)]
  <2> HIDE DEF u, b, p
  <2> TAKE i \in 1 .. Len(u)
  <2>1. CASE i <= Len(p)
    BY <1>1, <1>2, <2>1
  <2>2. CASE i > Len(p)
    <3>1. i - Len(p) \in 1 .. n
      BY <1>1, <1>2, <2>2
    <3> QED
      BY <1>1, <1>2, <2>2, <3>1
  <2> QED
    BY <1>1, <2>1, <2>2
<1> HIDE DEF u, b
<1>5. Within(u, made)
  BY <1>4 DEF NInv, NotifierOrder, Within
<1>6. ASSUME NEW i \in 1 .. Len(u), NEW j \in 1 .. Len(u), i < j PROVE u[i] < u[j]
  <2>1. CASE i \in 1 .. Len(p) /\ u[i] = p[i] /\ j \in 1 .. Len(p) /\ u[j] = p[j]
    BY <1>6, <2>1 DEF NInv, NotifierOrder, Rising
  <2>2. CASE /\ i \in 1 .. Len(p) /\ u[i] = p[i]
             /\ j - Len(p) \in 1 .. Len(changes) /\ u[j] = changes[j - Len(p)]
    BY <2>2 DEF NInv, NotifierOrder, Earlier
  <2>3. CASE /\ i - Len(p) \in 1 .. Len(changes) /\ u[i] = changes[i - Len(p)]
             /\ j - Len(p) \in 1 .. Len(changes) /\ u[j] = changes[j - Len(p)]
    <3>1. i - Len(p) < j - Len(p)
      BY <1>1, <1>2, <1>6
    <3> QED
      BY <2>3, <3>1 DEF NInv, NotifierOrder, Rising
  <2>4. CASE i > Len(p) /\ j \in 1 .. Len(p)
    BY <1>1, <1>2, <1>6, <2>4
  <2> QED
    BY <1>4, <2>1, <2>2, <2>3, <2>4
<1>7. Rising(u)
  BY <1>6 DEF Rising
<1>8. Rising(changes)' /\ Earlier(published, changes)' /\ Within(changes, made)'
      /\ changes' \in Seq(N!Ids)
  BY DEF Rising, Earlier, Within
<1>9. Rising(published)' /\ Within(published, made)'
  BY <1>3, <1>5, <1>7 DEF Rising, Within
<1> QED
  BY <1>2, <1>3, <1>8, <1>9 DEF NotifierOrder

\* What is lost leaves the order of what was published.
LEMMA LostBatch ==
  ASSUME NInv, changes' \in {changes, <<>>}, UNCHANGED <<published, made>>
  PROVE  /\ published' \in Seq(N!Ids) /\ changes' \in Seq(N!Ids) /\ made' \in 0 .. MaxChanges
         /\ NotifierOrder'
<1>1. /\ published' \in Seq(N!Ids) /\ made' \in 0 .. MaxChanges
      /\ Rising(published)' /\ Within(published, made)'
  BY DEF NInv, N!TypeOK, NotifierOrder, Rising, Within
<1>2. CASE changes' = changes
  BY <1>1, <1>2 DEF NInv, N!TypeOK, NotifierOrder, Rising, Earlier, Within
<1>3. CASE changes' = <<>>
  <2>1. changes' \in Seq(N!Ids) /\ Len(changes') = 0
    BY <1>3
  <2>2. Rising(changes)' /\ Earlier(published, changes)' /\ Within(changes, made)'
    BY <2>1 DEF Rising, Earlier, Within
  <2> QED
    BY <1>1, <2>1, <2>2 DEF NotifierOrder
<1> QED
  BY <1>2, <1>3

LEMMA PublishStep == ASSUME NInv, N!PublishNotification PROVE NInv'
<1> USE DEF N!PublishNotification
<1>1. /\ changes \in Seq(N!Ids) /\ published \in Seq(N!Ids) /\ made \in 0 .. MaxChanges
      /\ made' = made + 1 /\ made' \in 0 .. MaxChanges /\ made' \in N!Ids
      /\ changes' = Append(changes, made') /\ published' = published
  BY NIdsFacts DEF NInv, N!TypeOK, N!Ids
<1>2. /\ Len(changes) \in Nat /\ changes' \in Seq(N!Ids) /\ Len(changes') = Len(changes) + 1
      /\ \A i \in 1 .. Len(changes) : changes'[i] = changes[i] /\ changes[i] \in Nat
      /\ changes'[Len(changes) + 1] = made'
  <2>1. PICK id \in N!Ids : id = made'
    BY <1>1
  <2>2. changes' = Append(changes, id)
    BY <1>1, <2>1
  <2>3. \A i \in 1 .. Len(changes) : changes[i] \in Nat
    BY <1>1, NumbersFacts
  <2> QED
    BY <1>1, <2>1, <2>2, <2>3
<1>3. \A i \in 1 .. Len(changes) : changes[i] <= made /\ changes[i] < made'
  BY <1>1, <1>2 DEF NInv, NotifierOrder, Within
<1>4. \A i \in 1 .. Len(published) : published[i] <= made /\ published[i] < made'
  <2>1. \A i \in 1 .. Len(published) : published[i] \in Nat
    BY <1>1, NumbersFacts
  <2> QED
    BY <1>1, <2>1 DEF NInv, NotifierOrder, Within
<1>5. \A i \in 1 .. Len(changes') : i \in 1 .. Len(changes) \/ i = Len(changes) + 1
  BY <1>2
<1>6. Rising(changes)'
  <2>1. SUFFICES ASSUME NEW i \in 1 .. Len(changes'), NEW j \in 1 .. Len(changes'), i < j
                 PROVE  changes'[i] < changes'[j]
    BY DEF Rising
  <2>2. i \in 1 .. Len(changes)
    BY <1>2, <2>1
  <2>3. CASE j \in 1 .. Len(changes)
    BY <1>2, <2>1, <2>2, <2>3 DEF NInv, NotifierOrder, Rising
  <2>4. CASE j = Len(changes) + 1
    BY <1>2, <1>3, <2>2, <2>4
  <2> QED
    BY <1>5, <2>1, <2>3, <2>4
<1>7. Within(changes, made)'
  BY <1>1, <1>2, <1>3, <1>5 DEF Within
<1>8. Earlier(published, changes)'
  BY <1>1, <1>2, <1>4, <1>5 DEF NInv, NotifierOrder, Earlier
<1>9. Rising(published)' /\ Within(published, made)'
  <2>1. \A i \in 1 .. Len(published) : published[i] <= made'
    <3>1. \A i \in 1 .. Len(published) : published[i] \in Nat
      BY <1>1, NumbersFacts
    <3> QED
      BY <1>1, <1>4, <3>1
  <2> QED
    BY <1>1, <2>1 DEF NInv, NotifierOrder, Rising, Within
<1>10. N!TypeOK'
  BY <1>1, <1>2 DEF NInv, N!TypeOK
<1> QED
  BY <1>6, <1>7, <1>8, <1>9, <1>10 DEF NInv, NotifierOrder

LEMMA NFaultFacts == ASSUME NInv, N!Fault PROVE faults' \in 0 .. MaxFaults
BY NIdsFacts DEF NInv, N!TypeOK, N!Fault

\* The sending of a batch, on a new connection and by the timer
LEMMA WholeStep ==
  ASSUME NInv, N!Send(changes), changes' = <<>>, thread' = "sending", channel' \in BOOLEAN,
         UNCHANGED <<made, faults>>
  PROVE  NInv'
<1>1. Len(changes) \in 0 .. Len(changes) /\ SubSeq(changes, 1, Len(changes)) = changes
  BY DEF NInv, N!TypeOK
<1>2. published' \in Seq(N!Ids) /\ changes' \in Seq(N!Ids) /\ NotifierOrder'
  BY <1>1, BatchFacts
<1> QED
  BY <1>2 DEF NInv, N!TypeOK

LEMMA ClosedNotifier ==
  ASSUME NInv, N!Closed, faults' \in 0 .. MaxFaults PROVE NInv'
BY LostBatch DEF NInv, N!TypeOK, N!Closed, N!Raises

LEMMA NotifierStep == ASSUME NInv, N!Next PROVE NInv'
<1>1. CASE N!PublishNotification
  BY <1>1, PublishStep
<1>2. CASE N!Open
  BY <1>2, LostBatch DEF N!Open, NInv, N!TypeOK
<1>3. CASE N!Start
  BY <1>3, WholeStep DEF N!Start, N!Taken
<1>4. CASE N!SendPending
  <2>1. thread' = "sending" /\ channel' \in BOOLEAN
    BY <1>4 DEF N!SendPending, N!TimerSet, NInv, N!TypeOK
  <2> QED
    BY <1>4, <2>1, WholeStep DEF N!SendPending, N!Taken
<1>5. CASE N!NoChannel
  BY <1>5, LostBatch DEF N!NoChannel, N!Taken, NInv, N!TypeOK
<1>6. CASE N!SendFails
  <2>1. PICK n \in 0 .. Len(changes) - 1 : N!Send(SubSeq(changes, 1, n))
    BY <1>6 DEF N!SendFails
  <2>2. n \in 0 .. Len(changes)
    BY <2>1 DEF NInv, N!TypeOK
  <2>3. published' \in Seq(N!Ids) /\ changes' \in Seq(N!Ids) /\ NotifierOrder'
    BY <1>6, <2>1, <2>2, BatchFacts DEF N!SendFails, N!Taken
  <2>4. faults' \in 0 .. MaxFaults
    BY <1>6, NFaultFacts DEF N!SendFails
  <2>5. thread' \in {"down", "ended"} /\ channel' = FALSE /\ UNCHANGED made
    BY <1>6 DEF N!SendFails, N!Raises
  <2> QED
    BY <2>3, <2>4, <2>5 DEF NInv, N!TypeOK
<1>7. CASE N!ChannelClosed
  BY <1>7, LostBatch, NFaultFacts DEF N!ChannelClosed, NInv, N!TypeOK
<1>8. CASE N!ConnectionClosed
  BY <1>8, ClosedNotifier, NFaultFacts DEF N!ConnectionClosed
<1> QED
  BY <1>1, <1>2, <1>3, <1>4, <1>5, <1>6, <1>7, <1>8 DEF N!Next
-----------------------------------------------------------------------------
(* bbmaster, the agent and the notifier together. *)

MCInv == IInv /\ NInv

\* What the notifier does leaves the messages of bbmaster and of the agent alone.
LEMMA SameMessages ==
  ASSUME IInv, UNCHANGED <<masterVars, hostQ, masterQ, agentVars, historyVars>>,
         faults' \in 0 .. MaxFaults
  PROVE  IInv'
<1> USE DEF masterVars, agentVars, historyVars
<1>1. TypeOK'
  BY DEF IInv, TypeOK
<1>2. Order' /\ Queued' /\ Routable'
  BY SameQueues DEF IInv, Queued, Routable
<1> QED
  BY <1>1, <1>2 DEF IInv

LEMMA SameNotifier ==
  ASSUME NInv, UNCHANGED notifierVars, faults' \in 0 .. MaxFaults PROVE NInv'
BY LostBatch DEF notifierVars, NInv, N!TypeOK

LEMMA MCStep == ASSUME MCInv, [MCNext]_<<vars, notifierVars>> PROVE MCInv'
<1>1. CASE Apart /\ UNCHANGED notifierVars
  <2>1. IInv'
    BY <1>1, Step DEF MCInv, Next
  <2>2. faults' \in 0 .. MaxFaults
    BY <2>1 DEF IInv, TypeOK
  <2> QED
    BY <1>1, <2>1, <2>2, SameNotifier DEF MCInv
<1>2. CASE N!Next /\ UNCHANGED <<masterVars, hostQ, masterQ, agentVars, historyVars>>
  <2>1. NInv'
    BY <1>2, NotifierStep DEF MCInv
  <2>2. faults' \in 0 .. MaxFaults
    BY <2>1 DEF NInv, N!TypeOK
  <2> QED
    BY <1>2, <2>1, <2>2, SameMessages DEF MCInv
<1>3. CASE BrokerDies /\ N!Closed
  <2>1. IInv'
    BY <1>3, Step DEF MCInv, Next
  <2>2. faults' \in 0 .. MaxFaults
    BY <2>1 DEF IInv, TypeOK
  <2> QED
    BY <1>3, <2>1, <2>2, ClosedNotifier DEF MCInv
<1>4. CASE UNCHANGED <<vars, notifierVars>>
  <2>1. IInv'
    BY <1>4, Step DEF MCInv
  <2>2. faults' \in 0 .. MaxFaults
    BY <2>1 DEF IInv, TypeOK
  <2> QED
    BY <1>4, <2>1, <2>2, SameNotifier DEF MCInv
<1> QED
  BY <1>1, <1>2, <1>3, <1>4 DEF MCNext

\* Both invariants hold of the whole, in which the broker's death closes the
\* connections of all three and the failures are counted together.
THEOREM TogetherInvariant == MCSpec => []MCInv
<1>1. MCInit => MCInv
  <2> SUFFICES ASSUME MCInit PROVE MCInv
    OBVIOUS
  <2>1. IInv
    BY InitHolds DEF MCInit
  <2>2. faults \in 0 .. MaxFaults /\ <<>> \in Seq(N!Ids)
    BY <2>1 DEF IInv, TypeOK
  <2>3. N!TypeOK
    <3>1. 0 \in 0 .. MaxChanges
      BY NIdsFacts
    <3> QED
      BY <2>2, <3>1 DEF MCInit, N!Init, N!TypeOK
  <2>4. NotifierOrder
    BY DEF MCInit, N!Init, NotifierOrder, Rising, Earlier, Within
  <2> QED
    BY <2>1, <2>3, <2>4 DEF MCInv, NInv
<1>2. MCInv /\ [MCNext]_<<vars, notifierVars>> => MCInv'
  BY MCStep
<1> QED
  BY <1>1, <1>2, PTL DEF MCSpec

\* The queues, channels and lists of bbmaster, the agent and the notifier stay of
\* their types, and what a channel needs is there with it.
THEOREM TogetherTypes == MCSpec => []AllTypeOK
<1>1. MCInv => AllTypeOK
  BY DEF MCInv, IInv, NInv, AllTypeOK
<1> QED
  BY <1>1, TogetherInvariant, PTL

\* No change is published twice or after a later one (publish_notification,
\* _send_pending_msgs), whatever fails, and however often.
THEOREM ChangesInOrderOnce == MCSpec => []NotifiedInOrder
<1>1. MCInv => NotifiedInOrder
  <2> SUFFICES ASSUME MCInv PROVE NotifiedInOrder
    OBVIOUS
  <2>1. DOMAIN published = 1 .. Len(published) /\ Rising(published)
    BY DEF MCInv, NInv, N!TypeOK, NotifierOrder
  <2> QED
    BY <2>1 DEF NotifiedInOrder, N!InOrderOnce, Rising
<1> QED
  BY <1>1, TogetherInvariant, PTL

\* The requests keep their order and find their queues in the whole, too.
THEOREM TogetherInOrder == MCSpec => [](InOrderOnce /\ Routable)
<1>1. MCInv => InOrderOnce /\ Routable
  BY DEF MCInv, IInv, Order
<1> QED
  BY <1>1, TogetherInvariant, PTL
=============================================================================
