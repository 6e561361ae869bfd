--------------------------- MODULE ConsumersProofs ---------------------------
(***************************************************************************)
(* What Consumers promises, for every consumer it models, every number of  *)
(* messages and whichever of them are another run's, and every depth,      *)
(* count, batch, prefetch and number of redeliveries.                      *)
(***************************************************************************)
EXTENDS Consumers, FiniteSetTheorems, WellFoundedInduction, SequenceTheorems, TLAPS

\* The constants, one by one.
LEMMA Bounds ==
  /\ M \in Nat /\ Foreign \subseteq 1..M /\ MaxAgain \in Nat
  /\ Depth \in Nat \ {0} /\ Count \in Nat \ {0} /\ Batch \in Nat \ {0} /\ Prefetch \in Nat \ {0}
BY ConsumersAssumption

-----------------------------------------------------------------------------
(***************************************************************************)
(* What flows: the messages and answers, where the consumer is, and the    *)
(* kinds of step there are.                                                *)
(***************************************************************************)
\* A message as it is delivered, and an answer that brings some.
Message == [id : Nat, again : BOOLEAN]
AnAnswer == [to : (1..(Depth + 1)) \cup {"unnamed"}, messages : Seq(Message)]

\* Append and Tail, by places.
LEMMA Appended ==
  ASSUME NEW S, NEW s \in Seq(S), NEW e \in S
  PROVE  /\ Append(s, e) \in Seq(S) /\ Len(Append(s, e)) = Len(s) + 1
         /\ DOMAIN s = 1..Len(s) /\ DOMAIN Append(s, e) = 1..(Len(s) + 1)
         /\ \A k \in 1..Len(s) : Append(s, e)[k] = s[k]
         /\ Append(s, e)[Len(s) + 1] = e
OBVIOUS

LEMMA Shortened ==
  ASSUME NEW S, NEW s \in Seq(S), s # <<>>
  PROVE  /\ Tail(s) \in Seq(S) /\ Len(Tail(s)) = Len(s) - 1 /\ Len(s) \in Nat \ {0}
         /\ DOMAIN s = 1..Len(s) /\ DOMAIN Tail(s) = 1..(Len(s) - 1)
         /\ \A k \in 1..(Len(s) - 1) : Tail(s)[k] = s[k + 1]
         /\ Head(s) = s[1] /\ s[1] \in S
OBVIOUS

\* The messages published, on their way, in hand and written.
FlowOK ==
  /\ client \in Clients
  /\ inHand \in Seq(Message) /\ channel \in Seq(AnAnswer) /\ rows \in Seq(Own)
  /\ seen \subseteq Nat /\ pos \in Nat /\ out \in Nat /\ pos <= out /\ out <= M

\* Where each consumer can be.  Only the waiting one shuts its connection, and
\* reads nothing more for itself afterwards.
PcOK ==
  /\ pc \in {"read", "wait", "handle", "drain", "finish", "owed", "ended", "error"}
  /\ pc = "handle" <=> inHand # <<>>
  /\ client = "kafka" => pc \in {"read", "handle", "ended"} /\ channel = <<>>
  /\ client = "redis" => pc \in {"read", "wait", "handle", "ended"}
  /\ client = "waiting" => pc \in {"read", "handle", "drain", "finish", "owed", "ended"}
  /\ client = "nats" => pc \in {"read", "handle", "ended", "error"}
  /\ client = "rabbitmq" => pc \in {"read", "handle", "ended"}
  /\ shut \in BOOLEAN /\ closed \in BOOLEAN /\ abandoned \in BOOLEAN /\ idle \in BOOLEAN
  /\ shut => client = "waiting" /\ pc # "read"
  /\ closed => shut
  /\ pc \in {"drain", "finish", "owed"} => shut

\* Requests, by name.
Names == 1..(Depth + 1)
AskedOK == waiting \in Seq(Names) /\ requests \in Seq(Names)

\* The steps by what they do.
Delivered(n, to) ==
  /\ channel' = Append(channel, Answer(to, First(n))) /\ pos' = pos + n
  /\ UNCHANGED <<inHand, seen, rows>>
Polled(n) ==
  /\ inHand = <<>> /\ channel = <<>>
  /\ inHand' = First(n) /\ pos' = pos + n
  /\ UNCHANGED <<channel, seen, rows>>
Redelivered(id) ==
  /\ channel' = Append(channel, Answer("unnamed", <<[id |-> id, again |-> TRUE]>>))
  /\ UNCHANGED <<inHand, seen, rows, pos>>
Took ==
  /\ inHand = <<>> /\ channel # <<>>
  /\ inHand' = Head(channel).messages /\ channel' = Tail(channel)
  /\ UNCHANGED <<seen, rows, pos>>
Treated ==
  /\ inHand # <<>>
  /\ inHand' = Tail(inHand) /\ seen' = seen \cup {Head(inHand).id}
  /\ rows' = IF Writes(Head(inHand)) THEN Append(rows, Head(inHand).id) ELSE rows
  /\ UNCHANGED <<channel, pos>>

\* The next messages of the stream: their numbers go on from pos.
LEMMA FirstMessages ==
  ASSUME NEW n \in Nat, pos \in Nat
  PROVE  /\ First(n) \in Seq(Message) /\ Len(First(n)) = n /\ DOMAIN First(n) = 1..n
         /\ \A i \in 1..n : First(n)[i].id = pos + i /\ First(n)[i].again = FALSE
         /\ n = 0 => First(n) = <<>>
         /\ Ids(First(n)) = (pos + 1)..(pos + n)
<1>1. First(n) \in Seq(Message) /\ Len(First(n)) = n /\ DOMAIN First(n) = 1..n
  BY DEF First, Message
<1>2. \A i \in 1..n : First(n)[i].id = pos + i /\ First(n)[i].again = FALSE
  BY DEF First
<1>3. n = 0 => First(n) = <<>>
  BY <1>1
<1>4. ASSUME NEW k \in (pos + 1)..(pos + n)
      PROVE  k \in Ids(First(n))
  <2>1. k - pos \in 1..n /\ First(n)[k - pos].id = k
    BY <1>2
  <2> QED BY <2>1, <1>1 DEF Ids
<1>5. Ids(First(n)) \subseteq (pos + 1)..(pos + n)
  BY <1>1, <1>2 DEF Ids
<1> QED BY <1>1, <1>2, <1>3, <1>4, <1>5

\* One step, by its kind.
Kind ==
  /\ client' = client
  /\ \/ \E n \in 0..(out - pos), to \in Names \cup {"unnamed"} :
           /\ Delivered(n, to) /\ n <= Count /\ (client \in {"nats", "rabbitmq"} => n <= 1)
           /\ (client = "rabbitmq" => n = 1)
     \/ \E n \in 0..(out - pos) : Polled(n) /\ n <= Count /\ client = "kafka"
     \/ \E id \in 1..pos : Redelivered(id) /\ client = "nats"
     \/ Took
     \/ Treated
     \/ UNCHANGED <<inHand, channel, seen, rows, pos>>

\* Every step is of one of these kinds.
LEMMA Kinds ==
  ASSUME FlowOK, PcOK, AskedOK, unacked \subseteq 1..pos, [Next]_vars
  PROVE  Kind
<1> USE Bounds DEF FlowOK, Kind
<1>0. client' = client
  BY Bounds DEF Next, Broker, Reads, Handles, vars, consumer, broker, stream, Publish, TimePasses,
     RedisAnswers, NatsDelivers, RabbitPushes, Deliver, NatsRedelivers, NatsEndsRequest, RedisCloses,
     BrokerTakesAcks, KafkaPolls, RedisAsks, RedisReads, WaitingReads, WaitingReadsNothing, NatsReads,
     NatsReadsStatus, NatsStops, RabbitReads, RabbitWaits, Drains, DrainOver, Finish, Reports, Ended,
     KafkaHandles, RedisHandles, WaitingHandles, NatsHandles, RabbitHandles, Handle
<1>1. CASE RedisAnswers
  <2>1. Head(requests) \in Names /\ Fewer(Count, out - pos) \in 0..(out - pos)
        /\ Fewer(Count, out - pos) <= Count
    BY <1>1 DEF RedisAnswers, AskedOK, Fewer
  <2> QED BY <1>0, <2>1, <1>1 DEF RedisAnswers, Deliver, Delivered, consumer, work
<1>2. CASE NatsDelivers \/ RabbitPushes
  <2>1. 1 \in 0..(out - pos) /\ 1 <= Count
    BY <1>2 DEF NatsDelivers, RabbitPushes
  <2>2. Delivered(1, "unnamed")
    BY <1>2 DEF NatsDelivers, RabbitPushes, Deliver, Delivered, consumer, work
  <2> QED BY <1>0, <2>1, <2>2
<1>3. CASE NatsRedelivers
  BY <1>0, <1>3 DEF NatsRedelivers, Redelivered, consumer, work
<1>4. CASE NatsEndsRequest
  <2>1. PICK i \in DOMAIN requests : channel' = Append(channel, Answer(requests[i], <<>>))
    BY <1>4 DEF NatsEndsRequest
  <2>2. requests[i] \in Names /\ 0 \in 0..(out - pos)
    BY <2>1 DEF AskedOK
  <2>4. First(0) = <<>>
    <3>1. 0 \in Nat
      OBVIOUS
    <3> QED BY <3>1, FirstMessages
  <2>3. Delivered(0, requests[i])
    BY <2>1, <2>4, <1>4 DEF NatsEndsRequest, Delivered, consumer, work, stream
  <2>5. client = "nats"
    BY <1>4 DEF NatsEndsRequest
  <2>6. 0 <= Count
    OBVIOUS
  <2> QED BY <1>0, <2>2, <2>3, <2>5, <2>6
<1>5. CASE KafkaPolls
  <2>1. inHand = <<>> /\ channel = <<>>
    BY <1>5 DEF KafkaPolls, PcOK
  <2>2. ASSUME NEW n \in 1..Fewer(Count, out - pos), inHand' = First(n), pos' = pos + n
        PROVE  n \in 0..(out - pos) /\ n <= Count /\ Polled(n)
    BY <2>1, <2>2, <1>5 DEF KafkaPolls, Polled, Fewer, asking
  <2> QED BY <1>0, <2>2, <1>5 DEF KafkaPolls, asking
<1>6. CASE RedisReads \/ WaitingReads \/ WaitingReadsNothing \/ NatsReads \/ NatsReadsStatus
           \/ RabbitReads \/ Drains
  <2>1. inHand = <<>>
    BY <1>6 DEF PcOK, RedisReads, WaitingReads, WaitingReadsNothing, NatsReads, NatsReadsStatus,
        RabbitReads, Drains
  <2> QED
    BY <1>0, <1>6, <2>1 DEF Took, RedisReads, WaitingReads, WaitingReadsNothing, NatsReads,
       NatsReadsStatus, RabbitReads, Drains, work, stream
<1>7. CASE Handles
  BY <1>0, <1>7 DEF PcOK, Handles, KafkaHandles, RedisHandles, WaitingHandles, NatsHandles,
     RabbitHandles,
     Handle, Treated, stream, asking
<1>8. CASE \/ Publish \/ TimePasses \/ BrokerTakesAcks \/ RedisCloses \/ RedisAsks \/ NatsStops
           \/ RabbitWaits \/ DrainOver \/ Finish \/ Reports \/ Ended
  BY <1>0, <1>8 DEF Publish, TimePasses, BrokerTakesAcks, RedisCloses, RedisAsks, NatsStops,
     RabbitWaits,
     DrainOver, Finish, Reports, Ended, consumer, work, ending, asking, stream, broker, vars
<1>9. CASE UNCHANGED vars
  BY <1>0, <1>9 DEF vars, consumer, work, stream, asking, broker
<1> QED
  BY <1>0, <1>1, <1>2, <1>3, <1>4, <1>5, <1>6, <1>7, <1>8, <1>9 DEF Next, Broker, Reads

-----------------------------------------------------------------------------
(***************************************************************************)
(* The parts of the invariant about messages: each is known, in order, and *)
(* another delivery of it comes after the first.                           *)
(***************************************************************************)
\* What one answer brings.
MessagesOK(ms) ==
  /\ Len(ms) <= Count /\ (client \in {"nats", "rabbitmq"} => Len(ms) <= 1)
  /\ \A i \in DOMAIN ms : ms[i].id \in 1..pos /\ (client # "nats" => ~ms[i].again)
Brought(k) == channel[k].messages
BroughtOK ==
  /\ MessagesOK(inHand)
  /\ \A k \in DOMAIN channel :
       MessagesOK(Brought(k)) /\ (client = "rabbitmq" => Brought(k) # <<>>)

\* Those that it is handed for the first time.
Brings(ms, id) == \E i \in DOMAIN ms : ~ms[i].again /\ ms[i].id = id
Ordered(ms) == \A i, j \in DOMAIN ms : i < j => ms[i].id < ms[j].id
Before(ms, ns) ==
  \A i \in DOMAIN ms, j \in DOMAIN ns : ~ms[i].again /\ ~ns[j].again => ms[i].id < ns[j].id
AfterSeen(ms) == \A i \in DOMAIN ms : ~ms[i].again => \A id \in seen : id < ms[i].id

\* First deliveries are read and handled in the stream's order.
OrderOK ==
  /\ Ordered(inHand) /\ AfterSeen(inHand)
  /\ \A k \in DOMAIN channel :
       Ordered(Brought(k)) /\ AfterSeen(Brought(k)) /\ Before(inHand, Brought(k))
  /\ \A k, l \in DOMAIN channel : k < l => Before(Brought(k), Brought(l))

\* A message that was delivered is handled, in hand, or on its way.
KnownOK ==
  \A id \in 1..pos :
    id \in seen \/ Brings(inHand, id) \/ \E k \in DOMAIN channel : Brings(Brought(k), id)

\* A message that is delivered again has been handled or lies ahead.
AgainOK ==
  /\ \A i \in DOMAIN inHand : inHand[i].again => inHand[i].id \in seen
  /\ \A k \in DOMAIN channel : \A i \in DOMAIN Brought(k) :
       Brought(k)[i].again =>
         \/ Brought(k)[i].id \in seen \/ Brings(inHand, Brought(k)[i].id)
         \/ \E l \in 1..(k - 1) : Brings(Brought(l), Brought(k)[i].id)

\* What is handled was delivered.
SeenOK == seen \subseteq 1..pos

\* The rows: in order, of what is handled, and all of the run's own that is.
RowsOK ==
  /\ \A i, j \in DOMAIN rows : i < j => rows[i] < rows[j]
  /\ \A i \in DOMAIN rows : rows[i] \in seen
  /\ \A id \in seen \cap Own : \E i \in DOMAIN rows : rows[i] = id

\* What the steps do to the channel, by places.
LEMMA Adds ==
  ASSUME channel \in Seq(AnAnswer), NEW to \in Names \cup {"unnamed"}, NEW ms \in Seq(Message),
         channel' = Append(channel, Answer(to, ms))
  PROVE  /\ channel' \in Seq(AnAnswer) /\ Len(channel') = Len(channel) + 1 /\ Len(channel) \in Nat
         /\ DOMAIN channel = 1..Len(channel) /\ DOMAIN channel' = 1..(Len(channel) + 1)
         /\ \A k \in 1..Len(channel) : Brought(k)' = Brought(k)
         /\ \A k \in {Len(channel) + 1} : Brought(k)' = ms
<1>1. Answer(to, ms) \in AnAnswer
  BY DEF Answer, AnAnswer, Names
<1>2. Answer(to, ms).messages = ms
  BY DEF Answer
<1> DEFINE a == Answer(to, ms)
<1>3. /\ Append(channel, a) \in Seq(AnAnswer) /\ Len(Append(channel, a)) = Len(channel) + 1
      /\ DOMAIN channel = 1..Len(channel) /\ DOMAIN Append(channel, a) = 1..(Len(channel) + 1)
      /\ \A k \in 1..Len(channel) : Append(channel, a)[k] = channel[k]
      /\ Append(channel, a)[Len(channel) + 1] = a
  <2>1. a \in AnAnswer
    BY <1>1
  <2> HIDE DEF a
  <2> QED BY <2>1
<1>4. Len(channel) \in Nat
  OBVIOUS
<1>5. a.messages = ms
  BY <1>2
<1> HIDE DEF a
<1>6. channel' = Append(channel, a)
  BY DEF a
<1>7. \A k \in 1..Len(channel) : channel'[k] = channel[k]
  BY <1>3, <1>6
<1>8. channel'[Len(channel) + 1].messages = ms
  BY <1>3, <1>5, <1>6
<1>9. Len(channel') = Len(channel) + 1 /\ DOMAIN channel' = 1..(Len(channel) + 1) /\ channel' \in Seq(AnAnswer)
  BY <1>3, <1>6
<1> QED BY <1>3, <1>4, <1>7, <1>8, <1>9 DEF Brought

\* The first answer is read.
LEMMA Takes ==
  ASSUME channel \in Seq(AnAnswer), Took
  PROVE  /\ channel' \in Seq(AnAnswer) /\ Len(channel) \in Nat \ {0}
         /\ DOMAIN channel = 1..Len(channel) /\ DOMAIN channel' = 1..(Len(channel) - 1)
         /\ \A k \in 1..(Len(channel) - 1) : Brought(k)' = Brought(k + 1)
         /\ inHand' = Brought(1) /\ Brought(1) \in Seq(Message) /\ Head(channel) = channel[1]
<1>1. /\ Tail(channel) \in Seq(AnAnswer) /\ Len(Tail(channel)) = Len(channel) - 1
      /\ Len(channel) \in Nat \ {0}
      /\ DOMAIN channel = 1..Len(channel) /\ DOMAIN Tail(channel) = 1..(Len(channel) - 1)
      /\ \A k \in 1..(Len(channel) - 1) : Tail(channel)[k] = channel[k + 1]
      /\ Head(channel) = channel[1] /\ channel[1] \in AnAnswer
  BY Shortened DEF Took
<1> QED BY <1>1 DEF Took, Brought, AnAnswer

\* Every kind of step keeps the messages what they are.
LEMMA FlowKept ==
  ASSUME FlowOK, PcOK, AskedOK, unacked \subseteq 1..pos, [Next]_vars
  PROVE  FlowOK'
<1> USE DEF FlowOK
<1>0. client' = client
  BY Kinds DEF Kind
<1>1. out' \in {out, out + 1} /\ out' <= M
  BY Bounds DEF Next, Broker, Reads, Handles, vars, consumer, broker, stream, Publish, TimePasses,
     RedisAnswers, NatsDelivers, RabbitPushes, Deliver, NatsRedelivers, NatsEndsRequest, RedisCloses,
     BrokerTakesAcks, KafkaPolls, RedisAsks, RedisReads, WaitingReads, WaitingReadsNothing, NatsReads,
     NatsReadsStatus, NatsStops, RabbitReads, RabbitWaits, Drains, DrainOver, Finish, Reports, Ended,
     KafkaHandles, RedisHandles, WaitingHandles, NatsHandles, RabbitHandles, Handle
<1>2. ASSUME NEW n \in 0..(out - pos), NEW to \in Names \cup {"unnamed"}, Delivered(n, to)
      PROVE  FlowOK'
  <2>1. n \in Nat
    OBVIOUS
  <2>3. First(n) \in Seq(Message)
    BY <2>1, FirstMessages
  <2>2. channel' \in Seq(AnAnswer)
    BY <1>2, <2>3, Adds DEF Delivered
  <2> QED BY <1>0, <1>1, <1>2, <2>1, <2>2 DEF Delivered
<1>3. ASSUME NEW n \in 0..(out - pos), Polled(n)
      PROVE  FlowOK'
  <2>1. n \in Nat
    OBVIOUS
  <2>3. First(n) \in Seq(Message)
    BY <2>1, FirstMessages
  <2> QED BY <1>0, <1>1, <1>3, <2>1, <2>3 DEF Polled
<1>4. ASSUME NEW id \in 1..pos, Redelivered(id)
      PROVE  FlowOK'
  <2>1. <<[id |-> id, again |-> TRUE]>> \in Seq(Message)
    BY DEF Message
  <2>2. channel' \in Seq(AnAnswer)
    BY <1>4, <2>1, Adds DEF Redelivered
  <2> QED BY <1>0, <1>1, <1>4, <2>2 DEF Redelivered
<1>5. CASE Took
  BY <1>0, <1>1, <1>5, Takes DEF Took
<1>6. CASE Treated
  <2>1. Tail(inHand) \in Seq(Message) /\ Head(inHand) \in Message
    BY <1>6 DEF Treated
  <2>3. Head(inHand).id \in Nat
    BY <2>1 DEF Message
  <2>2. rows' \in Seq(Own)
    BY <1>6 DEF Treated, Writes
  <2>4. seen' \subseteq Nat /\ inHand' \in Seq(Message) /\ channel' = channel /\ pos' = pos
    BY <1>6, <2>1, <2>3 DEF Treated
  <2> QED BY <1>0, <1>1, <2>2, <2>4
<1>7. CASE UNCHANGED <<inHand, channel, seen, rows, pos>>
  BY <1>0, <1>1, <1>7
<1> QED
  BY <1>2, <1>3, <1>4, <1>5, <1>6, <1>7, Kinds DEF Kind

\* Every step leaves the consumer where it can be.
LEMMA PcKept ==
  ASSUME FlowOK, PcOK, AskedOK, BroughtOK, [Next]_vars
  PROVE  PcOK'
<1> USE DEF PcOK
<1>1. ASSUME UNCHANGED <<client, pc, inHand, channel, shut, closed, abandoned>>, idle' \in BOOLEAN
      PROVE  PcOK'
  BY <1>1
<1>2. ASSUME client # "kafka", UNCHANGED <<client, pc, inHand, shut, closed, abandoned, idle>>
      PROVE  PcOK'
  BY <1>2
<1>3. CASE Publish \/ TimePasses \/ BrokerTakesAcks \/ Ended
  BY <1>1, <1>3 DEF Publish, TimePasses, BrokerTakesAcks, Ended, vars, consumer, work, ending,
     broker, stream, asking
<1>4. CASE RedisAnswers \/ NatsDelivers \/ NatsRedelivers \/ NatsEndsRequest \/ RabbitPushes
  BY <1>2, <1>4 DEF RedisAnswers, NatsDelivers, NatsRedelivers, NatsEndsRequest, RabbitPushes, Deliver,
     consumer, work, ending, stream
<1>5. CASE RedisCloses
  BY <1>5 DEF RedisCloses, consumer, work, ending
<1>6. CASE KafkaPolls
  <2>1. ASSUME NEW n \in 1..Fewer(Count, out - pos), inHand' = First(n), pc' = "handle"
        PROVE  PcOK'
    <3>1. n \in Nat /\ n # 0
      BY Bounds DEF FlowOK, Fewer
    <3>2. First(n) # <<>>
      BY <3>1, FirstMessages DEF FlowOK
    <3> QED BY <1>6, <2>1, <3>2 DEF KafkaPolls, ending, asking
  <2>2. CASE pc' = (IF idle THEN "ended" ELSE "read") /\ inHand' = inHand
    BY <1>6, <2>2 DEF KafkaPolls, ending, asking
  <2> QED BY <1>6, <2>1, <2>2 DEF KafkaPolls
<1>20. CASE RedisAsks
  BY <1>20 DEF RedisAsks, work, ending, stream, broker, asking
<1>21. CASE RabbitWaits
  BY <1>21 DEF RabbitWaits, work, ending, stream, broker, asking
<1>22. CASE NatsStops
  BY <1>22 DEF NatsStops, work, ending, stream, broker, asking
<1>23. CASE DrainOver
  BY <1>23 DEF DrainOver, work, ending, stream, broker, asking
<1>24. CASE Finish
  BY <1>24 DEF Finish, work, ending, stream, broker, asking
<1>25. CASE Reports
  BY <1>25 DEF Reports, work, ending, stream, broker, asking
<1>26. CASE RedisReads
  BY <1>26 DEF RedisReads, work, ending, stream, broker, asking
<1>27. CASE WaitingReads
  BY <1>27 DEF WaitingReads, work, ending, stream, broker, asking
<1>28. CASE WaitingReadsNothing
  BY <1>28 DEF WaitingReadsNothing, work, ending, stream, broker, asking
<1>29. CASE NatsReads
  BY <1>29 DEF NatsReads, work, ending, stream, broker, asking
<1>30. CASE NatsReadsStatus
  BY <1>30 DEF NatsReadsStatus, work, ending, stream, broker, asking
<1>31. CASE RabbitReads
  BY <1>31 DEF RabbitReads, BroughtOK, Brought, FlowOK, work, ending, stream, broker, asking
<1>32. CASE Drains
  BY <1>32 DEF Drains, work, ending, stream, broker, asking
<1>10. CASE Handles
  <2>3. Handle /\ UNCHANGED <<closed, shut, abandoned>> /\ idle' \in BOOLEAN
    BY <1>10 DEF Handles, KafkaHandles, RedisHandles, WaitingHandles, NatsHandles, RabbitHandles,
       Handle, ending, stream
  <2>2. inHand \in Seq(Message) /\ inHand # <<>>
    BY <2>3 DEF FlowOK, Handle
  <2>1. Tail(inHand) = <<>> <=> ~(Len(inHand) > 1)
    <3>1. Tail(inHand) \in Seq(Message) /\ Len(Tail(inHand)) = Len(inHand) - 1 /\ Len(inHand) \in Nat \ {0}
      BY <2>2
    <3> DEFINE t == Tail(inHand)
    <3>2. t \in Seq(Message)
      BY <3>1
    <3> HIDE DEF t
    <3>3. t # <<>> => Len(t) \in Nat \ {0}
      BY <3>2, EmptySeq
    <3>4. t = <<>> => Len(t) = 0
      BY EmptySeq
    <3> QED BY <3>1, <3>3, <3>4 DEF t
  <2> QED BY <2>1, <2>3 DEF Handle, asking
<1>11. CASE UNCHANGED vars
  BY <1>1, <1>11 DEF vars, consumer, work, ending, broker, asking, stream
<1> QED
  BY <1>3, <1>4, <1>5, <1>6, <1>20, <1>21, <1>22, <1>23, <1>24, <1>25, <1>26, <1>27, <1>28, <1>29,
     <1>30, <1>31, <1>32, <1>10, <1>11 DEF Next, Broker, Reads

\* A delivery by places.
LEMMA DeliveredByPlaces ==
  ASSUME FlowOK, NEW n \in 0..(out - pos), NEW to \in Names \cup {"unnamed"}, Delivered(n, to)
  PROVE  /\ Len(channel) \in Nat /\ n \in Nat
         /\ DOMAIN channel = 1..Len(channel) /\ DOMAIN channel' = 1..(Len(channel) + 1)
         /\ \A k \in 1..Len(channel) : Brought(k)' = Brought(k)
         /\ \A k \in {Len(channel) + 1} : Brought(k)' = First(n)
         /\ Len(First(n)) = n /\ DOMAIN First(n) = 1..n
         /\ \A i \in 1..n : First(n)[i].id = pos + i /\ ~First(n)[i].again
         /\ pos' = pos + n
<1>1. n \in Nat
  BY DEF FlowOK
<1>2. /\ First(n) \in Seq(Message) /\ Len(First(n)) = n /\ DOMAIN First(n) = 1..n
      /\ \A i \in 1..n : First(n)[i].id = pos + i /\ First(n)[i].again = FALSE
  BY <1>1, FirstMessages DEF FlowOK
<1>3. /\ Len(channel) \in Nat
      /\ DOMAIN channel = 1..Len(channel) /\ DOMAIN channel' = 1..(Len(channel) + 1)
      /\ \A k \in 1..Len(channel) : Brought(k)' = Brought(k)
      /\ \A k \in {Len(channel) + 1} : Brought(k)' = First(n)
  BY <1>2, Adds DEF FlowOK, Delivered
<1> QED BY <1>1, <1>2, <1>3 DEF Delivered

\* A redelivery by places.
LEMMA RedeliveredByPlaces ==
  ASSUME FlowOK, NEW id \in 1..pos, Redelivered(id)
  PROVE  \E ms :
         /\ Len(channel) \in Nat
         /\ DOMAIN channel = 1..Len(channel) /\ DOMAIN channel' = 1..(Len(channel) + 1)
         /\ \A k \in 1..Len(channel) : Brought(k)' = Brought(k)
         /\ \A k \in {Len(channel) + 1} : Brought(k)' = ms
         /\ Len(ms) = 1 /\ DOMAIN ms = 1..1 /\ ms[1].id = id /\ ms[1].again
<1> DEFINE ms == <<[id |-> id, again |-> TRUE]>>
<1>1. ms \in Seq(Message) /\ Len(ms) = 1 /\ DOMAIN ms = 1..1 /\ ms[1].id = id /\ ms[1].again
  BY DEF FlowOK, Message
<1>2. channel' = Append(channel, Answer("unnamed", ms))
  BY DEF Redelivered
<1> HIDE DEF ms
<1>3. /\ Len(channel) \in Nat
      /\ DOMAIN channel = 1..Len(channel) /\ DOMAIN channel' = 1..(Len(channel) + 1)
      /\ \A k \in 1..Len(channel) : Brought(k)' = Brought(k)
      /\ \A k \in {Len(channel) + 1} : Brought(k)' = ms
  BY <1>1, <1>2, Adds DEF FlowOK
<1> QED BY <1>1, <1>3

\* Handling by places.
LEMMA TreatedByPlaces ==
  ASSUME FlowOK, Treated
  PROVE  /\ Len(inHand) \in Nat \ {0} /\ Len(inHand') = Len(inHand) - 1
         /\ DOMAIN inHand = 1..Len(inHand) /\ DOMAIN inHand' = 1..(Len(inHand) - 1)
         /\ \A i \in 1..(Len(inHand) - 1) : inHand'[i] = inHand[i + 1]
         /\ Head(inHand) = inHand[1]
         /\ seen' = seen \cup {inHand[1].id} /\ pos' = pos /\ channel' = channel
         /\ inHand[1] \in Message
<1>1. /\ Tail(inHand) \in Seq(Message) /\ Len(Tail(inHand)) = Len(inHand) - 1
      /\ Len(inHand) \in Nat \ {0}
      /\ DOMAIN inHand = 1..Len(inHand) /\ DOMAIN Tail(inHand) = 1..(Len(inHand) - 1)
      /\ \A i \in 1..(Len(inHand) - 1) : Tail(inHand)[i] = inHand[i + 1]
      /\ Head(inHand) = inHand[1] /\ inHand[1] \in Message
  BY Shortened DEF Treated, FlowOK
<1> QED BY <1>1 DEF Treated

\* Every kind of step brings messages that are known, and as few as it may.
LEMMA BroughtKept ==
  ASSUME FlowOK, BroughtOK, Kind
  PROVE  BroughtOK' /\ (SeenOK => SeenOK')
<1> USE DEF BroughtOK, MessagesOK, SeenOK, Brought
<1>0. client' = client
  BY DEF Kind
<1>1. ASSUME NEW n \in 0..(out - pos), NEW to \in Names \cup {"unnamed"}, Delivered(n, to), n <= Count,
             client \in {"nats", "rabbitmq"} => n <= 1, client = "rabbitmq" => n = 1
      PROVE  BroughtOK' /\ (SeenOK => SeenOK')
  <2>0. /\ Len(channel) \in Nat /\ n \in Nat
        /\ DOMAIN channel = 1..Len(channel) /\ DOMAIN channel' = 1..(Len(channel) + 1)
        /\ \A k \in 1..Len(channel) : Brought(k)' = Brought(k)
        /\ \A k \in {Len(channel) + 1} : Brought(k)' = First(n)
        /\ Len(First(n)) = n /\ DOMAIN First(n) = 1..n
        /\ \A i \in 1..n : First(n)[i].id = pos + i /\ ~First(n)[i].again
        /\ pos' = pos + n
    BY <1>1, DeliveredByPlaces
  <2>1. First(n) = <<>> => n = 0
    BY <2>0
  <2>2. MessagesOK(inHand)' /\ (SeenOK => SeenOK')
    BY <1>0, <1>1, <2>0 DEF Delivered, FlowOK
  <2>3. ASSUME NEW k \in 1..Len(channel)
        PROVE  MessagesOK(Brought(k))' /\ (client = "rabbitmq" => Brought(k)' # <<>>)
    <3>1. MessagesOK(Brought(k)) /\ Brought(k)' = Brought(k) /\ (client = "rabbitmq" => Brought(k) # <<>>)
      BY <2>0
    <3> QED BY <1>0, <2>0, <3>1 DEF FlowOK
  <2>4. ASSUME NEW k \in {Len(channel) + 1}
        PROVE  MessagesOK(Brought(k))' /\ (client = "rabbitmq" => Brought(k)' # <<>>)
    BY <1>0, <1>1, <2>0, <2>1 DEF FlowOK
  <2> QED BY <1>0, <2>0, <2>2, <2>3, <2>4
<1>2. ASSUME NEW n \in 0..(out - pos), Polled(n), n <= Count, client = "kafka"
      PROVE  BroughtOK' /\ (SeenOK => SeenOK')
  <2>1. n \in Nat
    BY DEF FlowOK
  <2>2. /\ Len(First(n)) = n /\ DOMAIN First(n) = 1..n
        /\ \A i \in 1..n : First(n)[i].id = pos + i /\ First(n)[i].again = FALSE
    BY <2>1, FirstMessages DEF FlowOK
  <2> QED BY <1>0, <1>2, <2>1, <2>2, EmptySeq DEF Polled, FlowOK, Brought
<1>3. ASSUME NEW id \in 1..pos, Redelivered(id), client = "nats"
      PROVE  BroughtOK' /\ (SeenOK => SeenOK')
  <2>1. 1 <= Count
    BY Bounds
  <2>2. PICK ms :
         /\ Len(channel) \in Nat
         /\ DOMAIN channel = 1..Len(channel) /\ DOMAIN channel' = 1..(Len(channel) + 1)
         /\ \A k \in 1..Len(channel) : Brought(k)' = Brought(k)
         /\ \A k \in {Len(channel) + 1} : Brought(k)' = ms
         /\ Len(ms) = 1 /\ DOMAIN ms = 1..1 /\ ms[1].id = id /\ ms[1].again
    BY <1>3, RedeliveredByPlaces
  <2>3. UNCHANGED <<inHand, seen, pos>>
    BY <1>3 DEF Redelivered
  <2>4. ASSUME NEW k \in DOMAIN channel'
        PROVE  MessagesOK(Brought(k))' /\ (client = "rabbitmq" => Brought(k)' # <<>>)
    <3>1. k \in DOMAIN channel \/ k = Len(channel) + 1
      BY <2>2
    <3>2. CASE k \in DOMAIN channel
      BY <1>0, <2>2, <2>3, <3>2
    <3>3. CASE k = Len(channel) + 1
      <4>1. Brought(k)' = ms
        BY <2>2, <3>3
      <4>2. \A i \in DOMAIN ms : i = 1
        BY <2>2
      <4>3. MessagesOK(ms)
        BY <1>3, <2>1, <2>2, <4>2
      <4>4. client' = "nats" /\ pos' = pos
        BY <1>0, <1>3, <2>3
      <4>5. MessagesOK(ms)'
        BY <4>3, <4>4, <1>3
      <4> QED BY <1>3, <4>1, <4>4, <4>5
    <3> QED BY <3>1, <3>2, <3>3
  <2> QED BY <1>0, <2>3, <2>4
<1>4. CASE Took
  BY <1>0, <1>4, Takes DEF Took, FlowOK
<1>5. CASE Treated
  <2>1. /\ Len(inHand) \in Nat \ {0} /\ Len(inHand') = Len(inHand) - 1
        /\ DOMAIN inHand = 1..Len(inHand) /\ DOMAIN inHand' = 1..(Len(inHand) - 1)
        /\ \A i \in 1..(Len(inHand) - 1) : inHand'[i] = inHand[i + 1]
        /\ seen' = seen \cup {inHand[1].id} /\ pos' = pos /\ channel' = channel
    BY <1>5, TreatedByPlaces
  <2>2. MessagesOK(inHand)'
    <3>1. ASSUME NEW i \in DOMAIN inHand'
          PROVE  inHand'[i].id \in 1..pos' /\ (client' # "nats" => ~inHand'[i].again)
      <4>1. i + 1 \in DOMAIN inHand /\ inHand'[i] = inHand[i + 1]
        BY <2>1
      <4> QED BY <4>1, <1>0, <2>1
    <3> QED BY <1>0, <2>1, <3>1, Bounds
  <2>3. SeenOK => SeenOK'
    <3>1. 1 \in DOMAIN inHand
      BY <2>1
    <3>2. inHand[1].id \in 1..pos
      BY <3>1
    <3> QED BY <2>1, <3>2
  <2> QED BY <1>0, <2>1, <2>2, <2>3
<1>6. CASE UNCHANGED <<inHand, channel, seen, rows, pos>>
  BY <1>0, <1>6 DEF Brought
<1> QED BY <1>1, <1>2, <1>3, <1>4, <1>5, <1>6 DEF Kind

\* No kind of step loses a message.
LEMMA KnownKept ==
  ASSUME FlowOK, KnownOK, Kind
  PROVE  KnownOK'
<1> USE DEF KnownOK, Brings, Brought
<1>1. ASSUME NEW n \in 0..(out - pos), NEW to \in Names \cup {"unnamed"}, Delivered(n, to)
      PROVE  KnownOK'
  <2>0. /\ Len(channel) \in Nat /\ n \in Nat
        /\ DOMAIN channel = 1..Len(channel) /\ DOMAIN channel' = 1..(Len(channel) + 1)
        /\ \A k \in 1..Len(channel) : Brought(k)' = Brought(k)
        /\ \A k \in {Len(channel) + 1} : Brought(k)' = First(n)
        /\ Len(First(n)) = n /\ DOMAIN First(n) = 1..n
        /\ \A i \in 1..n : First(n)[i].id = pos + i /\ ~First(n)[i].again
        /\ pos' = pos + n
    BY <1>1, DeliveredByPlaces
  <2>1. ASSUME NEW id \in 1..(pos + n), id > pos
        PROVE  \E k \in DOMAIN channel' : Brings(Brought(k)', id)
    <3>1. id - pos \in 1..n /\ pos + (id - pos) = id
      BY <2>0, <2>1 DEF FlowOK
    <3>2. ~First(n)[id - pos].again /\ First(n)[id - pos].id = id
      BY <2>0, <3>1
    <3>3. \A k \in {Len(channel) + 1} : Brings(Brought(k)', id)
      BY <2>0, <3>1, <3>2
    <3> QED BY <2>0, <3>3
  <2>2. ASSUME NEW id \in 1..pos
        PROVE  id \in seen' \/ Brings(inHand', id) \/ \E k \in DOMAIN channel' : Brings(Brought(k)', id)
    BY <1>1, DeliveredByPlaces DEF Delivered
  <2>3. ASSUME NEW id \in 1..pos'
        PROVE  id \in seen' \/ Brings(inHand', id) \/ \E k \in DOMAIN channel' : Brings(Brought(k)', id)
    <3>1. CASE id > pos
      BY <2>0, <2>1, <3>1
    <3>2. CASE ~(id > pos)
      <4>1. id \in 1..pos
        BY <2>0, <3>2 DEF FlowOK
      <4> QED BY <4>1, <2>2
    <3> QED BY <3>1, <3>2
  <2> QED BY <2>3
<1>2. ASSUME NEW n \in 0..(out - pos), Polled(n)
      PROVE  KnownOK'
  <2>1. n \in Nat
    BY DEF FlowOK
  <2>2. /\ Len(First(n)) = n /\ DOMAIN First(n) = 1..n
        /\ \A i \in 1..n : First(n)[i].id = pos + i /\ First(n)[i].again = FALSE
    BY <2>1, FirstMessages DEF FlowOK
  <2>3. ASSUME NEW id \in 1..(pos + n), id > pos
        PROVE  Brings(inHand', id)
    <3>1. id - pos \in 1..n
      BY <2>3 DEF FlowOK
    <3> QED BY <3>1, <1>2, <2>2 DEF FlowOK, Polled
  <2>4. ASSUME NEW id \in 1..pos
        PROVE  id \in seen'
    BY <1>2, EmptySeq DEF Polled
  <2>5. pos' = pos + n
    BY <1>2 DEF Polled
  <2> QED BY <2>3, <2>4, <2>5 DEF FlowOK
<1>3. ASSUME NEW id \in 1..pos, Redelivered(id)
      PROVE  KnownOK'
  BY <1>3, RedeliveredByPlaces DEF Redelivered
<1>4. CASE Took
  <2>1. ASSUME NEW id \in 1..pos, NEW k \in DOMAIN channel, Brings(Brought(k), id)
        PROVE  Brings(inHand', id) \/ \E l \in DOMAIN channel' : Brings(Brought(l)', id)
    <3>1. CASE k = 1
      BY <1>4, <2>1, <3>1, Takes DEF FlowOK
    <3>2. CASE k # 1
      <4>1. k - 1 \in DOMAIN channel' /\ (k - 1) + 1 = k
        BY <1>4, <3>2, Takes DEF FlowOK
      <4>2. PICK l \in DOMAIN channel' : l + 1 = k
        BY <4>1
      <4>3. Brought(l)' = Brought(k)
        BY <4>2, <1>4, Takes DEF FlowOK
      <4> QED BY <4>3, <2>1
    <3> QED BY <3>1, <3>2
  <2>2. ~Brings(inHand, 0) /\ \A id \in 1..pos : ~Brings(inHand, id)
    BY <1>4, EmptySeq DEF Took
  <2>3. seen' = seen /\ pos' = pos
    BY <1>4 DEF Took
  <2> QED BY <2>1, <2>2, <2>3
<1>5. CASE Treated
  <2>1. ASSUME NEW id \in 1..pos, Brings(inHand, id)
        PROVE  id \in seen' \/ Brings(inHand', id)
    <3>1. PICK i \in DOMAIN inHand : ~inHand[i].again /\ inHand[i].id = id
      BY <2>1
    <3>2. CASE i = 1
      BY <3>1, <3>2, <1>5, TreatedByPlaces
    <3>3. CASE i # 1
      <4>1. i - 1 \in DOMAIN inHand' /\ inHand'[i - 1] = inHand[(i - 1) + 1] /\ (i - 1) + 1 = i
        BY <3>3, <1>5, TreatedByPlaces
      <4> QED BY <3>1, <4>1
    <3> QED BY <3>2, <3>3
  <2>2. pos' = pos /\ seen \subseteq seen' /\ channel' = channel
    BY <1>5 DEF Treated
  <2> QED BY <2>1, <2>2 DEF Brought
<1>6. CASE UNCHANGED <<inHand, channel, seen, rows, pos>>
  BY <1>6 DEF Brought
<1> QED BY <1>1, <1>2, <1>3, <1>4, <1>5, <1>6 DEF Kind

\* No kind of step swaps two first deliveries.
LEMMA OrderKept ==
  ASSUME FlowOK, BroughtOK, SeenOK, AgainOK, OrderOK, Kind
  PROVE  OrderOK'
<1> USE DEF OrderOK, Ordered, Before, AfterSeen, Brought
<1>1. ASSUME NEW n \in 0..(out - pos), NEW to \in Names \cup {"unnamed"}, Delivered(n, to)
      PROVE  OrderOK'
  <2>0. /\ Len(channel) \in Nat /\ n \in Nat
        /\ DOMAIN channel = 1..Len(channel) /\ DOMAIN channel' = 1..(Len(channel) + 1)
        /\ \A k \in 1..Len(channel) : Brought(k)' = Brought(k)
        /\ \A k \in {Len(channel) + 1} : Brought(k)' = First(n)
        /\ Len(First(n)) = n /\ DOMAIN First(n) = 1..n
        /\ \A i \in 1..n : First(n)[i].id = pos + i /\ ~First(n)[i].again
        /\ pos' = pos + n
    BY <1>1, DeliveredByPlaces
  <2>1. UNCHANGED <<inHand, seen>>
    BY <1>1 DEF Delivered
  <2>2. \A i \in DOMAIN inHand : inHand[i].id \in 1..pos
    BY DEF BroughtOK, MessagesOK
  <2>3. \A k \in DOMAIN channel : \A i \in DOMAIN Brought(k) : Brought(k)[i].id \in 1..pos
    BY DEF BroughtOK, MessagesOK
  <2>4. Ordered(First(n)) /\ AfterSeen(First(n)) /\ Before(inHand, First(n))
    BY <2>0, <2>2 DEF FlowOK, SeenOK
  <2>5. ASSUME NEW k \in 1..Len(channel)
        PROVE  Before(Brought(k), First(n))
    <3>1. ASSUME NEW i \in DOMAIN Brought(k), NEW j \in DOMAIN First(n)
          PROVE  Brought(k)[i].id < First(n)[j].id
      <4>1. Brought(k)[i].id \in 1..pos /\ First(n)[j].id = pos + j /\ j \in Nat \ {0}
        BY <2>0, <2>3
      <4> QED BY <4>1 DEF FlowOK
    <3> QED BY <3>1
  <2>6. ASSUME NEW k \in DOMAIN channel'
        PROVE  (Ordered(Brought(k)) /\ AfterSeen(Brought(k)) /\ Before(inHand, Brought(k)))'
    <3>1. k \in 1..Len(channel) \/ k = Len(channel) + 1
      BY <2>0
    <3>2. CASE k \in 1..Len(channel)
      BY <2>0, <2>1, <3>2
    <3>3. CASE k = Len(channel) + 1
      <4>1. Brought(k)' = First(n)
        BY <2>0, <3>3
      <4> QED BY <2>1, <2>4, <4>1
    <3> QED BY <3>1, <3>2, <3>3
  <2>7. ASSUME NEW k \in DOMAIN channel', NEW l \in DOMAIN channel', k < l
        PROVE  Before(Brought(k), Brought(l))'
    <3>1. k \in 1..Len(channel) /\ (l \in 1..Len(channel) \/ l = Len(channel) + 1)
      BY <2>0, <2>7
    <3>2. CASE l \in 1..Len(channel)
      BY <2>0, <2>7, <3>1, <3>2
    <3>3. CASE l = Len(channel) + 1
      <4>1. Brought(l)' = First(n) /\ Brought(k)' = Brought(k)
        BY <2>0, <3>1, <3>3
      <4> QED BY <2>5, <3>1, <4>1
    <3> QED BY <3>1, <3>2, <3>3
  <2> QED BY <2>1, <2>6, <2>7
<1>2. ASSUME NEW n \in 0..(out - pos), Polled(n)
      PROVE  OrderOK'
  <2>1. n \in Nat
    BY DEF FlowOK
  <2>2. /\ Len(First(n)) = n /\ DOMAIN First(n) = 1..n
        /\ \A i \in 1..n : First(n)[i].id = pos + i /\ First(n)[i].again = FALSE
    BY <2>1, FirstMessages DEF FlowOK
  <2>3. Ordered(First(n)) /\ AfterSeen(First(n))
    <3>1. Ordered(First(n))
      BY <2>2, <2>1 DEF FlowOK
    <3>2. ASSUME NEW i \in 1..n, NEW id \in seen
          PROVE  id < First(n)[i].id
      BY <2>2, <2>1 DEF FlowOK, SeenOK
    <3> QED BY <2>2, <3>1, <3>2
  <2>4. channel' = channel /\ DOMAIN channel = {} /\ inHand' = First(n) /\ seen' = seen
    BY <1>2, EmptySeq DEF Polled
  <2> QED BY <2>3, <2>4
<1>3. ASSUME NEW id \in 1..pos, Redelivered(id)
      PROVE  OrderOK'
  <2>2. PICK ms :
         /\ Len(channel) \in Nat
         /\ DOMAIN channel = 1..Len(channel) /\ DOMAIN channel' = 1..(Len(channel) + 1)
         /\ \A k \in 1..Len(channel) : Brought(k)' = Brought(k)
         /\ \A k \in {Len(channel) + 1} : Brought(k)' = ms
         /\ Len(ms) = 1 /\ DOMAIN ms = 1..1 /\ ms[1].id = id /\ ms[1].again
    BY <1>3, RedeliveredByPlaces
  <2>3. UNCHANGED <<inHand, seen, pos>>
    BY <1>3 DEF Redelivered
  <2>4. \A i \in DOMAIN ms : i = 1 /\ ms[i].again
    BY <2>2
  <2>5. ASSUME NEW k \in DOMAIN channel'
        PROVE  k \in DOMAIN channel \/ (k = Len(channel) + 1 /\ Brought(k)' = ms)
    BY <2>2
  <2>6. ASSUME NEW k \in DOMAIN channel'
        PROVE  (Ordered(Brought(k)) /\ AfterSeen(Brought(k)) /\ Before(inHand, Brought(k)))'
    BY <2>2, <2>3, <2>4, <2>5
  <2>7. ASSUME NEW k \in DOMAIN channel', NEW l \in DOMAIN channel', k < l
        PROVE  Before(Brought(k), Brought(l))'
    <3>1. CASE k \in DOMAIN channel /\ l \in DOMAIN channel
      BY <2>2, <2>7, <3>1
    <3>2. CASE Brought(k)' = ms \/ Brought(l)' = ms
      BY <3>2, <2>4
    <3> QED BY <2>5, <3>1, <3>2
  <2> QED BY <2>3, <2>6, <2>7
<1>4. CASE Took
  <2>1. /\ Len(channel) \in Nat \ {0}
        /\ DOMAIN channel = 1..Len(channel) /\ DOMAIN channel' = 1..(Len(channel) - 1)
        /\ \A k \in 1..(Len(channel) - 1) : Brought(k)' = Brought(k + 1)
        /\ inHand' = Brought(1)
    BY <1>4, Takes DEF FlowOK
  <2>2. seen' = seen
    BY <1>4 DEF Took
  <2>3. 1 \in DOMAIN channel /\ \A k \in DOMAIN channel' : k + 1 \in DOMAIN channel /\ 1 < k + 1
    BY <2>1
  <2>4. Ordered(inHand)' /\ AfterSeen(inHand)'
    BY <2>1, <2>2, <2>3
  <2>5. ASSUME NEW k \in DOMAIN channel'
        PROVE  (Ordered(Brought(k)) /\ AfterSeen(Brought(k)) /\ Before(inHand, Brought(k)))'
    <3>1. Brought(k)' = Brought(k + 1)
      BY <2>1
    <3>2. Ordered(Brought(k + 1)) /\ AfterSeen(Brought(k + 1)) /\ Before(Brought(1), Brought(k + 1))
      BY <2>3
    <3> HIDE DEF Brought
    <3> QED BY <2>1, <2>2, <3>1, <3>2
  <2>6. ASSUME NEW k \in DOMAIN channel', NEW l \in DOMAIN channel', k < l
        PROVE  Before(Brought(k), Brought(l))'
    <3>1. Brought(k)' = Brought(k + 1) /\ Brought(l)' = Brought(l + 1) /\ k + 1 < l + 1
      BY <2>1, <2>6
    <3>2. Before(Brought(k + 1), Brought(l + 1))
      BY <2>3, <3>1
    <3> HIDE DEF Brought
    <3> QED BY <3>1, <3>2
  <2> QED BY <2>4, <2>5, <2>6
<1>5. CASE Treated
  <2>1. /\ Len(inHand) \in Nat \ {0} /\ Len(inHand') = Len(inHand) - 1
        /\ DOMAIN inHand = 1..Len(inHand) /\ DOMAIN inHand' = 1..(Len(inHand) - 1)
        /\ \A i \in 1..(Len(inHand) - 1) : inHand'[i] = inHand[i + 1]
        /\ seen' = seen \cup {inHand[1].id} /\ pos' = pos /\ channel' = channel
    BY <1>5, TreatedByPlaces
  <2>2. 1 \in DOMAIN inHand /\ \A i \in DOMAIN inHand' : i + 1 \in DOMAIN inHand /\ 1 < i + 1 /\ inHand'[i] = inHand[i + 1]
    BY <2>1
  <2>3. Ordered(inHand)'
    BY <2>2, <2>1
  <2>4. AfterSeen(inHand)'
    BY <2>1, <2>2
  <2>5. ASSUME NEW k \in DOMAIN channel
        PROVE  AfterSeen(Brought(k))' /\ Before(inHand, Brought(k))'
    <3>1. AfterSeen(Brought(k)) /\ Before(inHand, Brought(k))
      OBVIOUS
    <3>2. Before(inHand, Brought(k))'
      BY <2>1, <2>2, <3>1
    <3>3. inHand[1].again => inHand[1].id \in seen
      BY <2>2 DEF AgainOK
    <3>4. AfterSeen(Brought(k))'
      BY <2>1, <2>2, <3>1, <3>3
    <3> QED BY <3>2, <3>4
  <2> QED BY <2>1, <2>3, <2>4, <2>5
<1>6. CASE UNCHANGED <<inHand, channel, seen, rows, pos>>
  BY <1>6
<1> QED BY <1>1, <1>2, <1>3, <1>4, <1>5, <1>6 DEF Kind

\* A redelivery is put behind every answer there is, so behind its first delivery.
LEMMA AgainKept ==
  ASSUME FlowOK, BroughtOK, KnownOK, AgainOK, Kind
  PROVE  AgainOK'
<1> USE DEF AgainOK, Brings, Brought
<1>1. ASSUME NEW n \in 0..(out - pos), NEW to \in Names \cup {"unnamed"}, Delivered(n, to)
      PROVE  AgainOK'
  <2>0. /\ Len(channel) \in Nat /\ n \in Nat
        /\ DOMAIN channel = 1..Len(channel) /\ DOMAIN channel' = 1..(Len(channel) + 1)
        /\ \A k \in 1..Len(channel) : Brought(k)' = Brought(k)
        /\ \A k \in {Len(channel) + 1} : Brought(k)' = First(n)
        /\ Len(First(n)) = n /\ DOMAIN First(n) = 1..n
        /\ \A i \in 1..n : First(n)[i].id = pos + i /\ ~First(n)[i].again
        /\ pos' = pos + n
    BY <1>1, DeliveredByPlaces
  <2>1. UNCHANGED <<inHand, seen>>
    BY <1>1 DEF Delivered
  <2>2. ASSUME NEW k \in DOMAIN channel', NEW i \in DOMAIN Brought(k)', Brought(k)'[i].again
        PROVE  k \in DOMAIN channel
    BY <2>0, <2>2
  <2>4. ASSUME NEW k \in DOMAIN channel', NEW i \in DOMAIN Brought(k)', Brought(k)'[i].again
        PROVE  \/ Brought(k)'[i].id \in seen' \/ Brings(inHand', Brought(k)'[i].id)
               \/ \E l \in 1..(k - 1) : Brings(Brought(l)', Brought(k)'[i].id)
    <3>1. k \in DOMAIN channel /\ Brought(k)' = Brought(k)
      BY <2>0, <2>2, <2>4
    <3>2. \A l \in 1..(k - 1) : Brought(l)' = Brought(l)
      BY <2>0, <3>1
    <3>3. \/ Brought(k)[i].id \in seen \/ Brings(inHand, Brought(k)[i].id)
          \/ \E l \in 1..(k - 1) : Brings(Brought(l), Brought(k)[i].id)
      BY <3>1, <2>4
    <3> QED BY <2>1, <3>1, <3>2, <3>3
  <2>5. \A i \in DOMAIN inHand' : inHand'[i].again => inHand'[i].id \in seen'
    BY <2>1
  <2> QED BY <2>4, <2>5
<1>2. ASSUME NEW n \in 0..(out - pos), Polled(n)
      PROVE  AgainOK'
  <2>1. n \in Nat
    BY DEF FlowOK
  <2>2. DOMAIN First(n) = 1..n /\ \A i \in 1..n : First(n)[i].again = FALSE
    BY <2>1, FirstMessages DEF FlowOK
  <2>4. channel' = channel /\ DOMAIN channel = {} /\ inHand' = First(n) /\ seen' = seen
    BY <1>2, EmptySeq DEF Polled
  <2> QED BY <2>2, <2>4
<1>3. ASSUME NEW id \in 1..pos, Redelivered(id)
      PROVE  AgainOK'
  <2>2. PICK ms :
         /\ Len(channel) \in Nat
         /\ DOMAIN channel = 1..Len(channel) /\ DOMAIN channel' = 1..(Len(channel) + 1)
         /\ \A k \in 1..Len(channel) : Brought(k)' = Brought(k)
         /\ \A k \in {Len(channel) + 1} : Brought(k)' = ms
         /\ Len(ms) = 1 /\ DOMAIN ms = 1..1 /\ ms[1].id = id /\ ms[1].again
    BY <1>3, RedeliveredByPlaces
  <2>3. UNCHANGED <<inHand, seen, pos>>
    BY <1>3 DEF Redelivered
  <2>4. id \in seen \/ Brings(inHand, id) \/ \E k \in DOMAIN channel : Brings(Brought(k), id)
    BY DEF KnownOK
  <2>5. ASSUME NEW k \in DOMAIN channel', NEW i \in DOMAIN Brought(k)', Brought(k)'[i].again
        PROVE  \/ Brought(k)'[i].id \in seen' \/ Brings(inHand', Brought(k)'[i].id)
               \/ \E l \in 1..(k - 1) : Brings(Brought(l)', Brought(k)'[i].id)
    <3>1. CASE k \in DOMAIN channel
      <4>1. \A l \in 1..k : Brought(l)' = Brought(l)
        BY <2>2, <3>1
      <4> QED BY <2>2, <2>3, <2>5, <3>1, <4>1
    <3>2. CASE k = Len(channel) + 1
      <4>1. Brought(k)'[i].id = id /\ 1..(k - 1) = DOMAIN channel
        BY <2>2, <3>2
      <4>2. \A l \in 1..(k - 1) : Brought(l)' = Brought(l)
        BY <2>2, <4>1
      <4>3. \A l \in DOMAIN channel : Brought(l)' = Brought(l)
        BY <4>1, <4>2
      <4>4. (\E l \in DOMAIN channel : Brings(Brought(l), id)) => \E l \in 1..(k - 1) : Brings(Brought(l)', id)
        <5>1. ASSUME NEW l \in DOMAIN channel, Brings(Brought(l), id)
              PROVE  l \in 1..(k - 1) /\ Brings(Brought(l)', id)
          <6>1. l \in 1..(k - 1) /\ Brought(l)' = Brought(l)
            BY <4>1, <4>3
          <6> QED BY <5>1, <6>1
        <5> HIDE DEF Brings
        <5> QED BY <5>1
      <4> QED BY <2>3, <2>4, <4>1, <4>4
    <3> QED BY <2>2, <3>1, <3>2
  <2> QED BY <2>3, <2>5
<1>4. CASE Took
  <2>1. /\ Len(channel) \in Nat \ {0}
        /\ DOMAIN channel = 1..Len(channel) /\ DOMAIN channel' = 1..(Len(channel) - 1)
        /\ \A k \in 1..(Len(channel) - 1) : Brought(k)' = Brought(k + 1)
        /\ inHand' = Brought(1)
    BY <1>4, Takes DEF FlowOK
  <2>2. seen' = seen /\ \A id \in Nat : ~Brings(inHand, id)
    BY <1>4, EmptySeq DEF Took
  <2>3. 1 \in DOMAIN channel /\ \A k \in DOMAIN channel' : k + 1 \in DOMAIN channel /\ k \in 1..(Len(channel) - 1)
    BY <2>1
  <2>6. \A k \in DOMAIN channel : \A i \in DOMAIN Brought(k) : Brought(k)[i].id \in Nat
    BY DEF BroughtOK, MessagesOK
  <2>4. ASSUME NEW i \in DOMAIN inHand', inHand'[i].again
        PROVE  inHand'[i].id \in seen'
    <3>1. 1..(1 - 1) = {}
      OBVIOUS
    <3> QED BY <2>1, <2>2, <2>3, <2>4, <2>6, <3>1
  <2>5. ASSUME NEW k \in DOMAIN channel', NEW i \in DOMAIN Brought(k)', Brought(k)'[i].again
        PROVE  \/ Brought(k)'[i].id \in seen' \/ Brings(inHand', Brought(k)'[i].id)
               \/ \E l \in 1..(k - 1) : Brings(Brought(l)', Brought(k)'[i].id)
    <3> DEFINE id == Brought(k + 1)[i].id
    <3>1. Brought(k)' = Brought(k + 1) /\ Brought(k)'[i].id = id
      BY <2>1
    <3>2. id \in seen \/ Brings(inHand, id) \/ \E l \in 1..((k + 1) - 1) : Brings(Brought(l), id)
      BY <2>3, <2>5, <3>1
    <3>3. id \in Nat
      BY <2>3, <2>6, <3>1, <2>5
    <3>4. ASSUME NEW l \in 1..((k + 1) - 1), Brings(Brought(l), id)
          PROVE  Brings(inHand', id) \/ \E o \in 1..(k - 1) : Brings(Brought(o)', id)
      <4>1. CASE l = 1
        BY <2>1, <3>4, <4>1
      <4>2. CASE l # 1
        <5>1. PICK o \in 1..(k - 1) : l = o + 1
          <6>1. l - 1 \in 1..(k - 1) /\ l = (l - 1) + 1
            BY <4>2, <2>3
          <6> QED BY <6>1
        <5>2. Brought(o)' = Brought(l)
          BY <2>1, <2>3, <5>1
        <5> QED BY <3>4, <5>2
      <4> QED BY <4>1, <4>2
    <3> HIDE DEF id, Brings, Brought
    <3> QED BY <2>2, <3>1, <3>2, <3>3, <3>4
  <2> QED BY <2>4, <2>5
<1>5. CASE Treated
  <2>1. /\ Len(inHand) \in Nat \ {0} /\ Len(inHand') = Len(inHand) - 1
        /\ DOMAIN inHand = 1..Len(inHand) /\ DOMAIN inHand' = 1..(Len(inHand) - 1)
        /\ \A i \in 1..(Len(inHand) - 1) : inHand'[i] = inHand[i + 1]
        /\ seen' = seen \cup {inHand[1].id} /\ pos' = pos /\ channel' = channel
    BY <1>5, TreatedByPlaces
  <2>2. 1 \in DOMAIN inHand /\ \A i \in DOMAIN inHand' : i + 1 \in DOMAIN inHand /\ 1 < i + 1 /\ inHand'[i] = inHand[i + 1]
    BY <2>1
  <2>3. ASSUME NEW i \in DOMAIN inHand', inHand'[i].again
        PROVE  inHand'[i].id \in seen'
    BY <2>1, <2>2, <2>3
  <2>4. ASSUME NEW id, Brings(inHand, id)
        PROVE  id \in seen' \/ Brings(inHand', id)
    <3>1. PICK i \in DOMAIN inHand : ~inHand[i].again /\ inHand[i].id = id
      BY <2>4
    <3>2. CASE i = 1
      BY <3>1, <3>2, <2>1
    <3>3. CASE i # 1
      <4>1. i - 1 \in DOMAIN inHand' /\ inHand'[i - 1] = inHand[(i - 1) + 1] /\ (i - 1) + 1 = i
        BY <3>3, <2>1
      <4> QED BY <3>1, <4>1
    <3> QED BY <3>2, <3>3
  <2>5. seen \subseteq seen'
    BY <2>1
  <2> HIDE DEF Brings
  <2> QED BY <2>1, <2>3, <2>4, <2>5
<1>6. CASE UNCHANGED <<inHand, channel, seen, rows, pos>>
  BY <1>6
<1> QED BY <1>1, <1>2, <1>3, <1>4, <1>5, <1>6 DEF Kind

\* A row is written for a first delivery, which is greater than every row there is.
LEMMA RowsKept ==
  ASSUME FlowOK, AgainOK, OrderOK, RowsOK, Kind
  PROVE  RowsOK'
<1>1. CASE Treated
  <2>1. /\ Len(inHand) \in Nat \ {0} /\ Len(inHand') = Len(inHand) - 1
        /\ DOMAIN inHand = 1..Len(inHand) /\ DOMAIN inHand' = 1..(Len(inHand) - 1)
        /\ \A i \in 1..(Len(inHand) - 1) : inHand'[i] = inHand[i + 1]
        /\ seen' = seen \cup {inHand[1].id} /\ pos' = pos /\ channel' = channel
    BY <1>1, TreatedByPlaces
  <2> DEFINE m == inHand[1]
  <2>2. 1 \in DOMAIN inHand /\ m \in Message /\ Head(inHand) = m
    BY <2>1, <1>1, TreatedByPlaces
  <2>3. rows' = IF m.id \in Own /\ ~m.again THEN Append(rows, m.id) ELSE rows
    BY <1>1, <2>2 DEF Treated, Writes
  <2>4. seen' = seen \cup {m.id} /\ m.id \in Nat
    BY <2>1, <2>2 DEF Message
  <2>5. m.again => m.id \in seen
    BY <2>2 DEF AgainOK
  <2>6. ~m.again => \A id \in seen : id < m.id
    BY <2>2 DEF OrderOK, AfterSeen
  <2>7. rows \in Seq(Own) /\ Own \subseteq Nat
    BY Bounds DEF FlowOK, Own
  <2> HIDE DEF m
  <2>8. CASE m.id \in Own /\ ~m.again
    <3>1. /\ Len(rows) \in Nat /\ DOMAIN rows = 1..Len(rows) /\ DOMAIN rows' = 1..(Len(rows) + 1)
          /\ \A k \in 1..Len(rows) : rows'[k] = rows[k]
          /\ rows'[Len(rows) + 1] = m.id
      BY <2>3, <2>7, <2>8
    <3>2. \A i, j \in DOMAIN rows' : i < j => rows'[i] < rows'[j]
      BY <3>1, <2>6, <2>8, <2>7 DEF RowsOK
    <3>3. \A i \in DOMAIN rows' : rows'[i] \in seen'
      BY <3>1, <2>4 DEF RowsOK
    <3>4. \A id \in seen' \cap Own : \E i \in DOMAIN rows' : rows'[i] = id
      BY <3>1, <2>4 DEF RowsOK
    <3> QED BY <3>2, <3>3, <3>4 DEF RowsOK
  <2>9. CASE ~(m.id \in Own /\ ~m.again)
    BY <2>3, <2>4, <2>5, <2>9 DEF RowsOK
  <2> QED BY <2>8, <2>9
<1>2. CASE UNCHANGED <<seen, rows>>
  BY <1>2 DEF RowsOK
<1> QED BY <1>1, <1>2 DEF Kind, Delivered, Polled, Redelivered, Took

-----------------------------------------------------------------------------
(***************************************************************************)
(* Acknowledging.                                                          *)
(***************************************************************************)
\* What is acknowledged, about to be, or kept for the next batch has been handled;
\* what the broker no longer holds has been, too.
AcksOK ==
  /\ acks \in Seq(SUBSET Nat) /\ unacked \subseteq 1..pos /\ (1..pos) \ unacked \subseteq seen
  /\ held \subseteq seen /\ \A k \in DOMAIN acks : acks[k] \subseteq seen

\* The greatest of some messages.
LEMMA Greatest ==
  ASSUME NEW n \in Nat, NEW S \in SUBSET (1..n), S # {}
  PROVE  \E tag \in S : \A id \in S : id <= tag
<1> DEFINE T == {k \in Nat : n - k \in S}
<1>1. T \subseteq Nat /\ T # {}
  <2>1. PICK id \in S : TRUE
    OBVIOUS
  <2>2. n - id \in Nat /\ n - (n - id) = id
    OBVIOUS
  <2> QED BY <2>2
<1>2. \E k \in T : \A j \in T : k <= j
  <2> DEFINE R == {ss \in Nat \X Nat : ss[1] < ss[2]}
  <2>1. IsWellFoundedOn(R, Nat)
    BY NatLessThanWellFounded DEF OpToRel
  <2> HIDE DEF R, T
  <2>2. PICK k \in T : \A j \in T : ~(<<j, k>> \in R)
    BY <1>1, <2>1, WFMin
  <2>3. \A j \in T : ~(j < k)
    BY <1>1, <2>2 DEF R
  <2> QED BY <1>1, <2>3
<1>3. PICK k \in T : \A j \in T : k <= j
  BY <1>2
<1>4. ASSUME NEW id \in S
      PROVE  id <= n - k
  <2>1. n - id \in T
    OBVIOUS
  <2>2. k <= n - id
    BY <1>3, <2>1
  <2> QED BY <2>2, <1>1
<1> QED BY <1>4

\* One more acknowledgement, of messages that have been handled.
LEMMA MoreAcks ==
  ASSUME AcksOK, NEW b \in SUBSET Nat, acks' = Append(acks, b), b \subseteq seen', seen \subseteq seen'
  PROVE  acks' \in Seq(SUBSET Nat) /\ \A k \in DOMAIN acks' : acks'[k] \subseteq seen'
<1>1. acks \in Seq(SUBSET Nat)
  BY DEF AcksOK
<1>2. /\ Append(acks, b) \in Seq(SUBSET Nat) /\ Len(acks) \in Nat
      /\ DOMAIN acks = 1..Len(acks) /\ DOMAIN Append(acks, b) = 1..(Len(acks) + 1)
      /\ \A k \in 1..Len(acks) : Append(acks, b)[k] = acks[k]
      /\ Append(acks, b)[Len(acks) + 1] = b
  BY <1>1
<1>3. \A k \in 1..(Len(acks) + 1) : acks'[k] \subseteq seen'
  <2>1. \A k \in 1..Len(acks) : acks'[k] = acks[k] /\ acks[k] \subseteq seen
    BY <1>2 DEF AcksOK
  <2>2. \A k \in 1..(Len(acks) + 1) : k \in 1..Len(acks) \/ k = Len(acks) + 1
    BY <1>2
  <2> QED BY <1>2, <2>1, <2>2
<1> QED BY <1>2, <1>3

\* Once a message of RabbitMQ's is handled, so are all that came before it.
LEMMA BeforeIsSeen ==
  ASSUME FlowOK, BroughtOK, KnownOK, OrderOK, SeenOK, client = "rabbitmq", Treated,
         NEW id \in 1..inHand[1].id
  PROVE  id \in seen'
<1>1. /\ Len(inHand) \in Nat \ {0} /\ DOMAIN inHand = 1..Len(inHand)
      /\ seen' = seen \cup {inHand[1].id}
  BY TreatedByPlaces
<1>2. Len(inHand) = 1 /\ inHand[1].id \in 1..pos /\ ~inHand[1].again
  BY <1>1 DEF BroughtOK, MessagesOK
<1>3. id \in 1..pos
  BY <1>2 DEF FlowOK
<1>4. CASE Brings(inHand, id)
  BY <1>1, <1>2, <1>4 DEF Brings
<1>5. ASSUME NEW k \in DOMAIN channel, Brings(Brought(k), id)
      PROVE  FALSE
  <2>1. PICK j \in DOMAIN Brought(k) : ~Brought(k)[j].again /\ Brought(k)[j].id = id
    BY <1>5 DEF Brings
  <2>2. inHand[1].id < id
    BY <1>1, <1>2, <2>1 DEF OrderOK, Before
  <2> QED BY <1>2, <2>2
<1> QED BY <1>1, <1>3, <1>4, <1>5 DEF KnownOK

\* Every step acknowledges what has been handled.
LEMMA AcksKept ==
  ASSUME FlowOK, PcOK, AskedOK, BroughtOK, SeenOK, KnownOK, OrderOK, AcksOK, [Next]_vars
  PROVE  AcksOK'
<1> USE DEF AcksOK
<1>1. ASSUME UNCHANGED <<acks, unacked, held, seen, pos>>
      PROVE  AcksOK'
  BY <1>1
<1>2. ASSUME NEW n \in Nat, pos' = pos + n, unacked' = unacked \cup Ids(First(n)),
             UNCHANGED <<acks, held, seen>>
      PROVE  AcksOK'
  <2>1. Ids(First(n)) = (pos + 1)..(pos + n)
    BY FirstMessages DEF FlowOK
  <2>2. unacked' \subseteq 1..pos' /\ (1..pos') \ unacked' \subseteq seen
    <3>1. pos' = pos + n /\ pos \in Nat /\ unacked' = unacked \cup ((pos + 1)..(pos + n))
      BY <1>2, <2>1 DEF FlowOK
    <3>2. unacked' \subseteq 1..pos'
      BY <3>1
    <3>3. ASSUME NEW id \in (1..pos') \ unacked'
          PROVE  id \in (1..pos) \ unacked
      BY <3>1, <3>3
    <3> QED BY <3>2, <3>3
  <2> QED BY <1>2, <2>2
<1>3. CASE RedisAnswers
  <2>1. Fewer(Count, out - pos) \in Nat
    BY Bounds DEF Fewer, FlowOK
  <2> QED BY <1>2, <1>3, <2>1 DEF RedisAnswers, Deliver, consumer, work
<1>4. CASE NatsDelivers \/ RabbitPushes
  BY <1>2, <1>4 DEF NatsDelivers, RabbitPushes, Deliver, consumer, work
<1>5. CASE BrokerTakesAcks
  <2>1. /\ Tail(acks) \in Seq(SUBSET Nat) /\ Len(acks) \in Nat \ {0} /\ DOMAIN acks = 1..Len(acks)
        /\ DOMAIN Tail(acks) = 1..(Len(acks) - 1) /\ Head(acks) = acks[1]
        /\ \A k \in 1..(Len(acks) - 1) : Tail(acks)[k] = acks[k + 1]
    BY <1>5, Shortened DEF BrokerTakesAcks
  <2>2. \A k \in DOMAIN Tail(acks) : Tail(acks)[k] \subseteq seen
    <3>1. \A k \in DOMAIN Tail(acks) : k + 1 \in DOMAIN acks /\ Tail(acks)[k] = acks[k + 1]
      BY <2>1
    <3> QED BY <3>1
  <2>3. Head(acks) \subseteq seen
    <3>1. 1 \in DOMAIN acks
      BY <2>1
    <3> QED BY <2>1, <3>1
  <2>4. acks' = Tail(acks) /\ unacked' = unacked \ Head(acks) /\ UNCHANGED <<held, seen, pos>>
    BY <1>5 DEF BrokerTakesAcks, consumer, work, stream
  <2> QED BY <2>1, <2>2, <2>3, <2>4
<1>6. CASE KafkaPolls
  <2>1. 1..pos \subseteq seen
    <3>1. inHand = <<>> /\ channel = <<>>
      BY <1>6 DEF KafkaPolls, PcOK
    <3> QED BY <3>1, EmptySeq DEF KnownOK, Brings
  <2>2. ASSUME NEW left \in {unacked, {}}, NEW n \in 1..Fewer(Count, out - pos),
               pos' = pos + n, unacked' = left \cup Ids(First(n))
        PROVE  AcksOK'
    <3>1. n \in Nat
      BY Bounds DEF Fewer, FlowOK
    <3>2. Ids(First(n)) = (pos + 1)..(pos + n)
      BY <3>1, FirstMessages DEF FlowOK
    <3>3. left \subseteq 1..pos
      OBVIOUS
    <3>4. unacked' \subseteq 1..pos' /\ (1..pos') \ unacked' \subseteq seen
      <4>1. pos' = pos + n /\ pos \in Nat /\ unacked' = left \cup ((pos + 1)..(pos + n))
        BY <2>2, <3>2 DEF FlowOK
      <4>2. unacked' \subseteq 1..pos'
        BY <3>1, <3>3, <4>1
      <4>3. ASSUME NEW id \in (1..pos') \ unacked'
            PROVE  id \in 1..pos
        BY <3>1, <4>1, <4>3
      <4> QED BY <2>1, <4>2, <4>3
    <3> QED BY <1>6, <3>4 DEF KafkaPolls
  <2>3. ASSUME pos' = pos, unacked' \in {unacked, {}}
        PROVE  AcksOK'
    BY <1>6, <2>1, <2>3 DEF KafkaPolls
  <2> QED BY <1>6, <2>2, <2>3 DEF KafkaPolls
<1>7. ASSUME Treated
      PROVE  /\ seen' = seen \cup {Head(inHand).id} /\ pos' = pos /\ Head(inHand) = inHand[1]
             /\ Head(inHand).id \in 1..pos
  <2>1. /\ DOMAIN inHand = 1..Len(inHand) /\ Head(inHand) = inHand[1] /\ pos' = pos
        /\ seen' = seen \cup {inHand[1].id} /\ Len(inHand) \in Nat \ {0}
    BY <1>7, TreatedByPlaces
  <2>2. inHand[1].id \in 1..pos
    BY <2>1 DEF BroughtOK, MessagesOK
  <2> QED BY <2>1, <2>2
<1>8. CASE Handles
  <2>1. Treated
    BY <1>8 DEF PcOK, Handles, KafkaHandles, RedisHandles, WaitingHandles, NatsHandles,
       RabbitHandles, Handle, Treated, stream, asking
  <2> DEFINE id == Head(inHand).id
  <2>2. seen' = seen \cup {id} /\ pos' = pos /\ id \in 1..pos /\ inHand[1].id = id
    BY <2>1, <1>7
  <2>3. held \subseteq Nat /\ seen \subseteq Nat /\ id \in Nat /\ {id} \in SUBSET Nat /\ held \cup {id} \in SUBSET Nat
    <3>1. seen \subseteq Nat
      BY DEF FlowOK
    <3>2. id \in Nat
      BY <2>2
    <3> HIDE DEF id
    <3> QED BY <3>1, <3>2
  <2> HIDE DEF id
  <2>4. CASE KafkaHandles
    BY <2>2, <2>4 DEF KafkaHandles
  <2>5. CASE RedisHandles
    BY <2>2, <2>5 DEF RedisHandles, id
  <2>6. CASE WaitingHandles
    <3>1. CASE acks' = acks /\ held' = held \cup {id}
      BY <2>2, <2>6, <3>1 DEF WaitingHandles
    <3>2. CASE acks' = Append(acks, held \cup {id}) /\ held' = {}
      <4>1. acks' \in Seq(SUBSET Nat) /\ \A k \in DOMAIN acks' : acks'[k] \subseteq seen'
        BY <2>2, <2>3, <3>2, MoreAcks
      <4> QED BY <2>2, <2>6, <3>2, <4>1 DEF WaitingHandles
    <3> QED BY <2>6, <3>1, <3>2 DEF WaitingHandles, id
  <2>7. CASE NatsHandles
    <3>1. acks' \in Seq(SUBSET Nat) /\ \A k \in DOMAIN acks' : acks'[k] \subseteq seen'
      BY <2>2, <2>3, <2>7, MoreAcks DEF NatsHandles, id
    <3> QED BY <2>2, <2>7, <3>1 DEF NatsHandles
  <2>8. CASE RabbitHandles
    <3>1. Covered(id) \subseteq seen' /\ Covered(id) \in SUBSET Nat
      BY <2>1, <2>2, <2>8, BeforeIsSeen DEF Covered, RabbitHandles
    <3>2. CASE acks' = acks /\ held' \subseteq held \cup {id}
      BY <2>2, <2>8, <3>2 DEF RabbitHandles
    <3>3. ASSUME NEW b \in {{id}, Covered(id)}, acks' = Append(acks, b), held' \subseteq held
          PROVE  AcksOK'
      <4>1. acks' \in Seq(SUBSET Nat) /\ \A k \in DOMAIN acks' : acks'[k] \subseteq seen'
        BY <2>2, <2>3, <3>1, <3>3, MoreAcks
      <4> QED BY <2>2, <2>8, <3>3, <4>1 DEF RabbitHandles
    <3> QED BY <2>8, <3>2, <3>3 DEF RabbitHandles, id
  <2> QED BY <1>8, <2>4, <2>5, <2>6, <2>7, <2>8 DEF Handles
<1>9. CASE RedisReads
  BY <1>9 DEF RedisReads, stream
<1>10. ASSUME Flush, UNCHANGED <<unacked, seen, pos>>
       PROVE  AcksOK'
  <2>1. CASE held = {}
    BY <1>10, <2>1 DEF Flush
  <2>2. CASE held # {}
    <3>1. acks' = Append(acks, held) /\ held \in SUBSET Nat /\ held \subseteq seen' /\ seen \subseteq seen'
      BY <1>10, <2>2 DEF Flush, FlowOK
    <3>2. acks' \in Seq(SUBSET Nat) /\ \A k \in DOMAIN acks' : acks'[k] \subseteq seen'
      BY <3>1, MoreAcks
    <3> QED BY <1>10, <3>2 DEF Flush
  <2> QED BY <2>1, <2>2
<1>11. CASE WaitingReadsNothing
  BY <1>1, <1>10, <1>11 DEF WaitingReadsNothing, stream
<1>12. CASE Finish
  BY <1>10, <1>12 DEF Finish, stream
<1>13. CASE RabbitWaits
  <2>1. CASE held = {}
    BY <1>13, <2>1 DEF RabbitWaits, stream
  <2>2. CASE held # {}
    <3> DEFINE tag == CHOOSE tag \in held : \A id \in held : id <= tag
    <3>1. 1..pos \subseteq seen
      <4>1. inHand = <<>> /\ channel = <<>>
        BY <1>13 DEF RabbitWaits, PcOK
      <4> QED BY <4>1, EmptySeq DEF KnownOK, Brings
    <3>2. held \in SUBSET (1..pos) /\ pos \in Nat
      BY DEF SeenOK, FlowOK
    <3>3. tag \in held
      BY <2>2, <3>2, Greatest
    <3>4. Covered(tag) \subseteq 1..pos
      <4> HIDE DEF tag
      <4> QED BY <3>2, <3>3 DEF Covered
    <3>5. acks' = Append(acks, Covered(tag)) /\ held' = {} /\ UNCHANGED <<unacked, seen, pos>>
      BY <1>13, <2>2 DEF RabbitWaits, stream
    <3> HIDE DEF tag
    <3>6. Covered(tag) \in SUBSET Nat /\ Covered(tag) \subseteq seen' /\ seen \subseteq seen'
      BY <3>1, <3>4, <3>5
    <3>7. acks' \in Seq(SUBSET Nat) /\ \A k \in DOMAIN acks' : acks'[k] \subseteq seen'
      BY <3>5, <3>6, MoreAcks
    <3> QED BY <3>5, <3>7
  <2> QED BY <2>1, <2>2
<1>14. CASE \/ Publish \/ TimePasses \/ NatsRedelivers \/ NatsEndsRequest \/ RedisCloses \/ RedisAsks
            \/ WaitingReads \/ NatsReads \/ NatsReadsStatus \/ NatsStops \/ RabbitReads
            \/ Drains \/ DrainOver \/ Reports \/ Ended
  BY <1>1, <1>14 DEF Publish, TimePasses, NatsRedelivers, NatsEndsRequest, RedisCloses, RedisAsks,
     WaitingReads, NatsReads, NatsReadsStatus, NatsStops, RabbitReads, Drains, DrainOver, Reports,
     Ended,
     consumer, work, ending, stream, asking, broker, vars
<1>15. CASE UNCHANGED vars
  BY <1>1, <1>15 DEF vars, consumer, work, broker, stream
<1> QED
  BY <1>3, <1>4, <1>5, <1>6, <1>8, <1>9, <1>11, <1>12, <1>13, <1>14, <1>15 DEF Next, Broker, Reads

-----------------------------------------------------------------------------
(***************************************************************************)
(* The requests: what the consumer believes to be waiting, and what is.    *)
(***************************************************************************)
\* A name that no request has.
LEMMA FreshIsNew ==
  ASSUME AskedOK, Len(waiting) <= Depth
  PROVE  Fresh \in Names /\ \A i \in DOMAIN waiting : waiting[i] # Fresh
<1>1. waiting \in Seq(Names) /\ Len(waiting) \in Nat /\ DOMAIN waiting = 1..Len(waiting)
  BY DEF AskedOK
<1>2. \E r \in Names : r \notin ToSet(waiting)
  <2> SUFFICES ASSUME Names \subseteq ToSet(waiting)
               PROVE  FALSE
    OBVIOUS
  <2> DEFINE place == [r \in Names |-> CHOOSE i \in 1..Len(waiting) : waiting[i] = r]
  <2>1. \A r \in Names : \E i \in 1..Len(waiting) : waiting[i] = r
    BY <1>1 DEF ToSet
  <2>2. place \in [Names -> 1..Len(waiting)] /\ \A r \in Names : waiting[place[r]] = r
    BY <2>1
  <2>3. /\ IsFiniteSet(1..Len(waiting)) /\ Cardinality(1..Len(waiting)) = Len(waiting)
        /\ IsFiniteSet(Names) /\ Cardinality(Names) = Depth + 1
    <3>1. Len(waiting) \in Int /\ Depth + 1 \in Int /\ 1 \in Int
      BY <1>1, Bounds
    <3>2. \A n \in Nat : IsFiniteSet(1..n) /\ Cardinality(1..n) = n
      <4> TAKE n \in Nat
      <4>1. n \in Int /\ 1 \in Int
        OBVIOUS
      <4>2. IsFiniteSet(1..n) /\ Cardinality(1..n) = IF 1 > n THEN 0 ELSE n - 1 + 1
        BY <4>1, FS_Interval
      <4> QED BY <4>2
    <3> QED BY <1>1, <3>2, Bounds DEF Names
  <2>4. Cardinality(1..Len(waiting)) < Cardinality(Names)
    BY <1>1, <2>3, Bounds
  <2> HIDE DEF place
  <2>5. \E x, y \in Names : x # y /\ place[x] = place[y]
    <3> DEFINE T == 1..Len(waiting)
    <3>1. IsFiniteSet(Names) /\ IsFiniteSet(T) /\ Cardinality(T) < Cardinality(Names) /\ place \in [Names -> T]
      BY <2>2, <2>3, <2>4
    <3> HIDE DEF T
    <3> QED BY <3>1, FS_PigeonHole
  <2> QED BY <2>2, <2>5
<1>3. Fresh \in Names /\ Fresh \notin ToSet(waiting)
  BY <1>2 DEF Fresh, Names
<1> QED BY <1>3 DEF ToSet

\* A list with the element at a place left out.
Removed(s, t, i) ==
  /\ Len(t) = Len(s) - 1
  /\ \A j \in DOMAIN t : t[j] = IF j < i THEN s[j] ELSE s[j + 1]

\* RemoveAt leaves one out.
LEMMA RemovedAt ==
  ASSUME NEW S, NEW s \in Seq(S), NEW i \in DOMAIN s
  PROVE  RemoveAt(s, i) \in Seq(S) /\ Removed(s, RemoveAt(s, i), i)
<1> DEFINE a == SubSeq(s, 1, i - 1)
           b == SubSeq(s, i + 1, Len(s))
<1>1. Len(s) \in Nat /\ DOMAIN s = 1..Len(s) /\ i \in 1..Len(s)
  OBVIOUS
<1>2. a \in Seq(S) /\ Len(a) = i - 1 /\ \A j \in 1..(i - 1) : a[j] = s[j]
  BY <1>1
<1>3. b \in Seq(S) /\ Len(b) = Len(s) - i /\ \A j \in 1..(Len(s) - i) : b[j] = s[j + i]
  BY <1>1
<1> HIDE DEF a, b
<1>4. /\ a \o b \in Seq(S) /\ Len(a \o b) = Len(s) - 1 /\ DOMAIN (a \o b) = 1..(Len(s) - 1)
      /\ \A j \in 1..(Len(s) - 1) : (a \o b)[j] = IF j < i THEN a[j] ELSE b[j - (i - 1)]
  <2>1. /\ a \o b \in Seq(S) /\ Len(a \o b) = Len(a) + Len(b)
        /\ \A j \in 1..(Len(a) + Len(b)) : (a \o b)[j] = IF j <= Len(a) THEN a[j] ELSE b[j - Len(a)]
    BY <1>2, <1>3, ConcatProperties
  <2>2. Len(a) = i - 1 /\ Len(a) + Len(b) = Len(s) - 1
    BY <1>1, <1>2, <1>3
  <2>3. DOMAIN (a \o b) = 1..Len(a \o b)
    BY <2>1, LenProperties
  <2>4. ASSUME NEW j \in 1..(Len(s) - 1)
        PROVE  (a \o b)[j] = IF j < i THEN a[j] ELSE b[j - (i - 1)]
    <3>1. j \in 1..(Len(a) + Len(b)) /\ (j <= Len(a) <=> j < i)
      BY <1>1, <2>2
    <3>2. (a \o b)[j] = IF j <= Len(a) THEN a[j] ELSE b[j - Len(a)]
      BY <2>1, <3>1
    <3> QED BY <2>2, <3>1, <3>2
  <2> QED BY <2>1, <2>2, <2>3, <2>4
<1>5. ASSUME NEW j \in 1..(Len(s) - 1)
      PROVE  (a \o b)[j] = IF j < i THEN s[j] ELSE s[j + 1]
  <2>1. CASE j < i
    <3>1. j \in 1..(i - 1)
      BY <1>1, <2>1
    <3>2. (a \o b)[j] = a[j]
      BY <1>4, <2>1
    <3> QED BY <1>2, <2>1, <3>1, <3>2
  <2>2. CASE ~(j < i)
    <3>1. j - (i - 1) \in 1..(Len(s) - i) /\ (j - (i - 1)) + i = j + 1
      BY <1>1, <2>2
    <3> QED BY <1>3, <1>4, <2>2, <3>1
  <2> QED BY <2>1, <2>2
<1>6. RemoveAt(s, i) = a \o b
  BY DEF RemoveAt, a, b
<1> QED BY <1>4, <1>5, <1>6 DEF Removed

\* So does Tail.
LEMMA RemovedFirst ==
  ASSUME NEW S, NEW s \in Seq(S), s # <<>>
  PROVE  Tail(s) \in Seq(S) /\ Removed(s, Tail(s), 1) /\ 1 \in DOMAIN s
BY Shortened DEF Removed

\* With another element at both ends it is still one left out.
LEMMA RemovedLonger ==
  ASSUME NEW S, NEW s \in Seq(S), NEW t \in Seq(S), NEW i \in DOMAIN s, NEW e \in S, Removed(s, t, i)
  PROVE  /\ Removed(Append(s, e), Append(t, e), i) /\ i \in DOMAIN Append(s, e)
         /\ Append(s, e)[i] = s[i]
<1> DEFINE u == Append(s, e)
           v == Append(t, e)
<1>1. /\ Len(s) \in Nat /\ DOMAIN s = 1..Len(s) /\ Len(u) = Len(s) + 1 /\ DOMAIN u = 1..(Len(s) + 1)
      /\ \A k \in 1..Len(s) : u[k] = s[k]
      /\ \A k \in {Len(s) + 1} : u[k] = e
  OBVIOUS
<1>2. /\ Len(t) \in Nat /\ DOMAIN t = 1..Len(t) /\ Len(v) = Len(t) + 1 /\ DOMAIN v = 1..(Len(t) + 1)
      /\ \A k \in 1..Len(t) : v[k] = t[k]
      /\ \A k \in {Len(t) + 1} : v[k] = e
  OBVIOUS
<1> HIDE DEF u, v
<1>3. Len(t) = Len(s) - 1 /\ \A j \in 1..Len(t) : t[j] = IF j < i THEN s[j] ELSE s[j + 1]
  BY <1>2 DEF Removed
<1>4. ASSUME NEW j \in DOMAIN v
      PROVE  v[j] = IF j < i THEN u[j] ELSE u[j + 1]
  <2>1. CASE j \in 1..Len(t)
    BY <1>1, <1>2, <1>3, <2>1
  <2>2. CASE j = Len(t) + 1
    BY <1>1, <1>2, <1>3, <2>2
  <2> QED BY <1>2, <2>1, <2>2
<1>5. Removed(u, v, i)
  BY <1>1, <1>2, <1>3, <1>4 DEF Removed
<1>6. i \in DOMAIN u /\ u[i] = s[i]
  BY <1>1
<1> QED BY <1>5, <1>6 DEF u, v

\* No request is waiting twice.
Distinct(s) == \A i, j \in DOMAIN s : s[i] = s[j] => i = j

\* Leaving one out of distinct elements, and adding one that was not among them.
LEMMA StillDistinct ==
  ASSUME NEW S, NEW s \in Seq(S), NEW t \in Seq(S), NEW i \in DOMAIN s, NEW e \in S,
         Removed(s, t, i), Distinct(s), \A j \in DOMAIN s : s[j] # e
  PROVE  Distinct(Append(t, e))
<1> DEFINE v == Append(t, e)
<1>1. /\ Len(t) \in Nat /\ DOMAIN t = 1..Len(t) /\ Len(v) = Len(t) + 1 /\ DOMAIN v = 1..(Len(t) + 1)
      /\ \A k \in 1..Len(t) : v[k] = t[k]
      /\ \A k \in {Len(t) + 1} : v[k] = e
  OBVIOUS
<1> HIDE DEF v
<1>2. Len(s) \in Nat /\ DOMAIN s = 1..Len(s) /\ Len(t) = Len(s) - 1
  BY DEF Removed
<1>3. \A j \in 1..Len(t) : t[j] = IF j < i THEN s[j] ELSE s[j + 1]
  BY <1>1 DEF Removed
<1>4. ASSUME NEW j \in 1..Len(t), NEW k \in 1..Len(t), t[j] = t[k]
      PROVE  j = k
  <2> DEFINE p(x) == IF x < i THEN x ELSE x + 1
  <2>1. \A x \in 1..Len(t) : p(x) \in DOMAIN s /\ t[x] = s[p(x)]
    BY <1>2, <1>3
  <2>2. p(j) = p(k)
    <3> HIDE DEF p
    <3> QED BY <2>1, <1>4 DEF Distinct
  <2> QED BY <2>2, <1>2
<1>5. \A j \in 1..Len(t) : t[j] # e
  BY <1>2, <1>3
<1>6. Distinct(v)
  BY <1>1, <1>4, <1>5 DEF Distinct
<1> QED BY <1>6 DEF v

\* What is left out is what is first found, if the elements are distinct.
LEMMA FoundFirst ==
  ASSUME NEW S, NEW s \in Seq(S), NEW e \in S, NEW i \in DOMAIN s, Distinct(s), \A j \in DOMAIN s : s[j] # e
  PROVE  RemoveFirst(Append(s, e), s[i]) = RemoveAt(Append(s, e), i)
<1> DEFINE v == Append(s, e)
           I == {j \in 1..Len(v) : v[j] = s[i]}
<1>1. /\ Len(s) \in Nat /\ DOMAIN s = 1..Len(s) /\ Len(v) = Len(s) + 1
      /\ \A k \in 1..Len(s) : v[k] = s[k]
      /\ \A k \in {Len(s) + 1} : v[k] = e
  OBVIOUS
<1>2. I = {i} /\ i \in 1..Len(v) /\ v[i] = s[i] /\ i \in Nat
  <2> HIDE DEF v
  <2>1. i \in 1..Len(v) /\ v[i] = s[i]
    BY <1>1
  <2>2. ASSUME NEW j \in 1..Len(v), v[j] = s[i]
        PROVE  j = i
    <3>1. j # Len(s) + 1
      BY <1>1, <2>2
    <3>2. j \in DOMAIN s /\ v[j] = s[j]
      BY <1>1, <3>1
    <3> QED BY <2>2, <3>2 DEF Distinct
  <2> QED BY <2>1, <2>2
<1>3. Min(I) = i
  <2> HIDE DEF I
  <2>1. Min({i}) = i
    BY <1>2 DEF Min
  <2> QED BY <1>2, <2>1
<1>4. SelectInSeq(v, LAMBDA x : x = s[i]) = i
  BY <1>2, <1>3 DEF SelectInSeq
<1>5. RemoveFirst(v, s[i]) = RemoveAt(v, i)
  BY <1>2, <1>4 DEF RemoveFirst
<1> QED BY <1>5

\* What an answer of NATS's leaves out of a list of requests.
Answers(s, t, answer) ==
  \E i \in DOMAIN s :
    /\ Removed(s, t, i)
    /\ IF answer.messages # <<>> THEN i = 1 ELSE s[i] = answer.to

\* From the consumer's list of requests to the broker's, an answer at a time.
ListsOK ==
  client = "nats" =>
    /\ Len(waiting) = Depth /\ Distinct(waiting) /\ Len(requests) + Len(channel) = Depth
    /\ \E L \in [0..Len(channel) -> Seq(Names)] :
         /\ L[0] = waiting /\ L[Len(channel)] = requests
         /\ \A k \in 1..Len(channel) : Answers(L[k - 1], L[k], channel[k])

\* The broker has one request less.
LEMMA ListsGrow ==
  ASSUME client = "nats", ListsOK, channel \in Seq(AnAnswer), AskedOK, client' = client, waiting' = waiting,
         NEW answer \in AnAnswer, channel' = Append(channel, answer),
         requests' \in Seq(Names), Answers(requests, requests', answer)
  PROVE  ListsOK'
<1>1. PICK L \in [0..Len(channel) -> Seq(Names)] :
         /\ L[0] = waiting /\ L[Len(channel)] = requests
         /\ \A k \in 1..Len(channel) : Answers(L[k - 1], L[k], channel[k])
  BY DEF ListsOK
<1> DEFINE n == Len(channel)
           K == [k \in 0..(n + 1) |-> IF k <= n THEN L[k] ELSE requests']
<1>2. /\ n \in Nat /\ Len(channel') = n + 1
      /\ \A k \in 1..n : channel'[k] = channel[k]
      /\ \A k \in {n + 1} : channel'[k] = answer
  OBVIOUS
<1> HIDE DEF n
<1>3. K \in [0..(n + 1) -> Seq(Names)] /\ K[0] = waiting /\ K[n + 1] = requests'
  BY <1>1, <1>2 DEF n
<1>4. ASSUME NEW k \in 1..(n + 1)
      PROVE  Answers(K[k - 1], K[k], channel'[k])
  <2>1. CASE k \in 1..n
    <3>1. K[k - 1] = L[k - 1] /\ K[k] = L[k] /\ channel'[k] = channel[k]
      BY <1>2, <2>1
    <3> QED BY <1>1, <2>1, <3>1 DEF n
  <2>2. CASE k = n + 1
    <3>1. K[k - 1] = requests /\ K[k] = requests' /\ channel'[k] = answer
      BY <1>1, <1>2, <2>2 DEF n
    <3> QED BY <3>1
  <2> QED BY <1>2, <2>1, <2>2
<1> HIDE DEF K
<1>5. Len(waiting') = Depth /\ Distinct(waiting') /\ Len(requests') + Len(channel') = Depth
  <2>1. Len(requests') = Len(requests) - 1
    BY DEF Answers, Removed
  <2>2. Len(requests) \in Nat /\ Len(requests) + n = Depth
    BY DEF ListsOK, AskedOK, n
  <2> QED BY <1>2, <2>1, <2>2, Bounds DEF ListsOK
<1> QED BY <1>2, <1>3, <1>4, <1>5 DEF ListsOK

\* The consumer reads an answer: what it takes off its list is what the answer
\* takes off it, and a new request goes on both.
LEMMA ListsShift ==
  ASSUME client = "nats", ListsOK, channel \in Seq(AnAnswer), AskedOK, channel # <<>>,
         client' = client, channel' = Tail(channel), requests' = Append(requests, Fresh),
         \A i \in DOMAIN waiting, t \in Seq(Names) :
           (/\ Removed(waiting, t, i)
            /\ IF channel[1].messages # <<>> THEN i = 1 ELSE waiting[i] = channel[1].to)
           => waiting' = Append(t, Fresh)
  PROVE  ListsOK' /\ AskedOK'
<1>1. PICK L \in [0..Len(channel) -> Seq(Names)] :
         /\ L[0] = waiting /\ L[Len(channel)] = requests
         /\ \A k \in 1..Len(channel) : Answers(L[k - 1], L[k], channel[k])
  BY DEF ListsOK
<1> DEFINE n == Len(channel)
           f == Fresh
           K == [k \in 0..(n - 1) |-> Append(L[k + 1], f)]
<1>2. /\ n \in Nat \ {0} /\ Len(channel') = n - 1
      /\ \A k \in 1..(n - 1) : channel'[k] = channel[k + 1]
  OBVIOUS
<1>3. f \in Names /\ \A i \in DOMAIN waiting : waiting[i] # f
  BY FreshIsNew, Bounds DEF ListsOK
<1>4. requests' = Append(requests, f)
  OBVIOUS
<1> HIDE DEF n, f
<1>5. L[1] \in Seq(Names) /\ \E i \in DOMAIN waiting :
        /\ Removed(waiting, L[1], i)
        /\ IF channel[1].messages # <<>> THEN i = 1 ELSE waiting[i] = channel[1].to
  <2>1. 1 \in 1..n /\ 1 - 1 = 0
    BY <1>2
  <2>2. Answers(L[0], L[1], channel[1])
    BY <1>1, <2>1 DEF n
  <2>3. L[1] \in Seq(Names)
    BY <1>1, <2>1 DEF n
  <2> QED BY <1>1, <2>2, <2>3 DEF Answers
<1>6. PICK i \in DOMAIN waiting : Removed(waiting, L[1], i) /\ waiting' = Append(L[1], f)
  BY <1>5 DEF f
<1>7. Distinct(waiting')
  BY <1>3, <1>5, <1>6, StillDistinct DEF ListsOK, AskedOK
<1>8. Len(waiting') = Depth /\ waiting' \in Seq(Names)
  <2>1. Len(L[1]) = Depth - 1
    BY <1>6 DEF Removed, ListsOK
  <2> QED BY <1>3, <1>5, <1>6, <2>1, Bounds
<1>9. K \in [0..(n - 1) -> Seq(Names)] /\ K[0] = waiting' /\ K[n - 1] = requests'
  <2>1. ASSUME NEW k \in 0..(n - 1)
        PROVE  Append(L[k + 1], f) \in Seq(Names)
    <3>1. L[k + 1] \in Seq(Names)
      BY <1>1, <1>2 DEF n
    <3> QED BY <1>3, <3>1
  <2>2. (n - 1) + 1 = n /\ 0 + 1 = 1 /\ 0 \in 0..(n - 1) /\ n - 1 \in 0..(n - 1)
    BY <1>2
  <2>3. K[0] = Append(L[1], f) /\ K[n - 1] = Append(L[n], f)
    BY <2>2
  <2> QED BY <1>1, <1>4, <1>6, <2>1, <2>3 DEF n
<1>10. ASSUME NEW k \in 1..(n - 1)
       PROVE  Answers(K[k - 1], K[k], channel'[k])
  <2>1. k + 1 \in 1..n /\ (k + 1) - 1 = k /\ (k - 1) + 1 = k /\ k \in 0..(n - 1) /\ k - 1 \in 0..(n - 1)
    BY <1>2
  <2>2. Answers(L[k], L[k + 1], channel[k + 1])
    BY <1>1, <2>1 DEF n
  <2>3. PICK o \in DOMAIN L[k] :
          /\ Removed(L[k], L[k + 1], o)
          /\ IF channel[k + 1].messages # <<>> THEN o = 1 ELSE L[k][o] = channel[k + 1].to
    BY <2>2 DEF Answers
  <2>4. L[k] \in Seq(Names) /\ L[k + 1] \in Seq(Names)
    BY <1>1, <2>1 DEF n
  <2>5. /\ Removed(Append(L[k], f), Append(L[k + 1], f), o) /\ o \in DOMAIN Append(L[k], f)
        /\ Append(L[k], f)[o] = L[k][o]
    BY <1>3, <2>3, <2>4, RemovedLonger
  <2>6. K[k - 1] = Append(L[k], f) /\ K[k] = Append(L[k + 1], f) /\ channel'[k] = channel[k + 1]
    BY <1>2, <2>1
  <2> HIDE DEF K
  <2> QED BY <2>3, <2>5, <2>6 DEF Answers
<1>11. AskedOK' /\ Len(requests') + Len(channel') = Depth
  <2>1. requests \in Seq(Names) /\ Len(requests) \in Nat /\ Len(requests) + n = Depth
    BY DEF ListsOK, AskedOK, n
  <2>2. requests' \in Seq(Names) /\ Len(requests') = Len(requests) + 1
    <3>1. Append(requests, f) \in Seq(Names) /\ Len(Append(requests, f)) = Len(requests) + 1
      BY <1>3, <2>1, Appended
    <3> QED BY <1>4, <3>1
  <2>3. AskedOK'
    BY <1>8, <2>2 DEF AskedOK
  <2>4. Depth \in Nat
    BY Bounds
  <2>5. Len(requests') + Len(channel') = Depth
    <3>1. \A a \in Nat, b \in Nat \ {0} : (a + 1) + (b - 1) = a + b
      OBVIOUS
    <3> HIDE DEF K
    <3>2. (Len(requests) + 1) + (n - 1) = Len(requests) + n
      BY <1>2, <2>1, <3>1
    <3>3. Len(requests') = Len(requests) + 1 /\ Len(channel') = n - 1
      BY <1>2, <2>2
    <3> QED BY <2>1, <3>2, <3>3, Zenon
  <2> QED BY <2>3, <2>5
<1> HIDE DEF K
<1> QED BY <1>2, <1>7, <1>8, <1>9, <1>10, <1>11 DEF ListsOK

\* NATS's requests: the consumer's list follows the broker's, and no status is
\* taken for an error.
AsksNats == ListsOK /\ (client = "nats" => pc # "error")

\* Leaving out the same place leaves the same.
LEMMA SameRemoved ==
  ASSUME NEW S, NEW s, NEW t \in Seq(S), NEW u \in Seq(S), NEW i, Removed(s, t, i), Removed(s, u, i)
  PROVE  t = u
<1>1. Len(t) = Len(u) /\ DOMAIN t = 1..Len(t) /\ DOMAIN u = 1..Len(u)
  BY DEF Removed
<1>2. \A j \in 1..Len(t) : t[j] = u[j]
  BY <1>1 DEF Removed
<1> QED BY <1>1, <1>2, SeqEqual

\* The first status on its way names a request that is waiting.
LEMMA HeadIsAsked ==
  ASSUME client = "nats", ListsOK, channel \in Seq(AnAnswer), channel # <<>>, channel[1].messages = <<>>
  PROVE  channel[1].to \in ToSet(waiting)
<1>1. PICK L \in [0..Len(channel) -> Seq(Names)] :
         /\ L[0] = waiting
         /\ \A k \in 1..Len(channel) : Answers(L[k - 1], L[k], channel[k])
  BY DEF ListsOK
<1>2. 1 \in 1..Len(channel) /\ 1 - 1 = 0
  OBVIOUS
<1>3. Answers(waiting, L[1], channel[1])
  BY <1>1, <1>2
<1> QED BY <1>3 DEF Answers, ToSet

\* Every step of NATS's keeps the two lists in step.
LEMMA NatsAsks ==
  ASSUME client = "nats", FlowOK, PcOK, AskedOK, AsksNats, unacked \subseteq 1..pos, [Next]_vars
  PROVE  AsksNats' /\ AskedOK'
<1> USE DEF AsksNats
<1>1. channel \in Seq(AnAnswer) /\ waiting \in Seq(Names) /\ requests \in Seq(Names)
  BY DEF FlowOK, AskedOK
<1>2. ASSUME UNCHANGED <<client, waiting, requests, channel>>, pc' # "error"
      PROVE  AsksNats' /\ AskedOK'
  BY <1>2 DEF ListsOK, AskedOK
<1>3. CASE NatsDelivers \/ NatsRedelivers
  <2>1. PICK ms \in Seq(Message) : ms # <<>> /\ channel' = Append(channel, Answer("unnamed", ms))
    <3>1. CASE NatsDelivers
      <4>1. First(1) \in Seq(Message) /\ Len(First(1)) = 1
        <5>1. 1 \in Nat
          OBVIOUS
        <5> QED BY <5>1, FirstMessages DEF FlowOK
      <4>2. First(1) # <<>>
        BY <4>1
      <4> QED BY <3>1, <4>1, <4>2 DEF NatsDelivers, Deliver
    <3>2. CASE NatsRedelivers
      <4>1. PICK id \in unacked : channel' = Append(channel, Answer("unnamed", <<[id |-> id, again |-> TRUE]>>))
        BY <3>2 DEF NatsRedelivers
      <4>2. id \in Nat
        BY <4>1 DEF FlowOK
      <4>3. <<[id |-> id, again |-> TRUE]>> \in Seq(Message) /\ <<[id |-> id, again |-> TRUE]>> # <<>>
        BY <4>2 DEF Message
      <4> QED BY <4>1, <4>3
    <3> QED BY <1>3, <3>1, <3>2
  <2> DEFINE a == Answer("unnamed", ms)
  <2>2. a \in AnAnswer /\ a.messages # <<>>
    BY <2>1 DEF Answer, AnAnswer
  <2>3. channel' = Append(channel, a) /\ requests # <<>> /\ requests' = Tail(requests)
        /\ UNCHANGED <<client, waiting, pc>>
    BY <1>3, <2>1 DEF NatsDelivers, NatsRedelivers, Deliver, consumer
  <2> HIDE DEF a
  <2>4. requests' \in Seq(Names) /\ Removed(requests, requests', 1) /\ 1 \in DOMAIN requests
    BY <1>1, <2>3, RemovedFirst
  <2>5. Answers(requests, requests', a)
    BY <2>2, <2>4 DEF Answers
  <2> QED BY <1>1, <2>2, <2>3, <2>4, <2>5, ListsGrow DEF AskedOK
<1>4. CASE NatsEndsRequest
  <2>1. PICK i \in DOMAIN requests :
          channel' = Append(channel, Answer(requests[i], <<>>)) /\ requests' = RemoveAt(requests, i)
    BY <1>4 DEF NatsEndsRequest
  <2> DEFINE a == Answer(requests[i], <<>>)
  <2>2. a \in AnAnswer /\ a.messages = <<>> /\ a.to = requests[i]
    <3>1. requests[i] \in Names /\ <<>> \in Seq(Message)
      BY <1>1, EmptySeq
    <3> QED BY <3>1 DEF Answer, AnAnswer, Names
  <2>3. channel' = Append(channel, a)
    BY <2>1
  <2> HIDE DEF a
  <2>4. requests' \in Seq(Names) /\ Removed(requests, requests', i)
    BY <1>1, <2>1, RemovedAt
  <2>5. Answers(requests, requests', a)
    BY <2>2, <2>4 DEF Answers
  <2>6. UNCHANGED <<client, waiting, pc>>
    BY <1>4 DEF NatsEndsRequest, consumer
  <2> QED BY <1>1, <2>2, <2>3, <2>4, <2>5, <2>6, ListsGrow DEF AskedOK
<1>5. Len(waiting) = Depth /\ Distinct(waiting) /\ Fresh \in Names /\ (\A i \in DOMAIN waiting : waiting[i] # Fresh)
  BY FreshIsNew, Bounds DEF ListsOK
<1>6. CASE NatsReads
  <2>1. channel # <<>> /\ channel' = Tail(channel) /\ requests' = Append(requests, Fresh)
        /\ waiting' = Append(Tail(waiting), Fresh) /\ client' = client /\ pc' = "handle"
        /\ channel[1].messages # <<>>
    <3>1. Head(channel) = channel[1]
      BY <1>1, <1>6 DEF NatsReads
    <3> QED BY <1>6, <3>1 DEF NatsReads
  <2>2. ASSUME NEW t \in Seq(Names), Removed(waiting, t, 1)
        PROVE  t = Tail(waiting)
    <3>1. waiting # <<>>
      BY <1>5, Bounds
    <3>2. Tail(waiting) \in Seq(Names) /\ Removed(waiting, Tail(waiting), 1)
      BY <1>1, <3>1, RemovedFirst
    <3> QED BY <2>2, <3>2, SameRemoved
  <2>3. ListsOK' /\ AskedOK'
    BY <1>1, <2>1, <2>2, ListsShift
  <2> QED BY <2>1, <2>3
<1>7. CASE NatsReadsStatus
  <2> DEFINE r == channel[1].to
  <2>1. channel # <<>> /\ channel' = Tail(channel) /\ requests' = Append(requests, Fresh)
        /\ waiting' = RemoveFirst(Append(waiting, Fresh), r) /\ client' = client
        /\ channel[1].messages = <<>>
        /\ pc' = (IF r \notin ToSet(waiting) THEN "error" ELSE IF idle THEN "ended" ELSE "read")
    <3>1. Head(channel) = channel[1]
      BY <1>1, <1>7 DEF NatsReadsStatus
    <3> QED BY <1>7, <3>1 DEF NatsReadsStatus
  <2> HIDE DEF r
  <2>2. ASSUME NEW i \in DOMAIN waiting, NEW t \in Seq(Names), Removed(waiting, t, i), waiting[i] = r
        PROVE  waiting' = Append(t, Fresh)
    <3> DEFINE f == Fresh
               v == Append(waiting, f)
    <3>1. waiting' = RemoveFirst(v, waiting[i]) /\ f \in Names /\ \A j \in DOMAIN waiting : waiting[j] # f
      BY <1>5, <2>1, <2>2
    <3> HIDE DEF f
    <3>2. RemoveFirst(v, waiting[i]) = RemoveAt(v, i)
      BY <1>1, <1>5, <3>1, FoundFirst
    <3>3. Removed(v, Append(t, f), i) /\ i \in DOMAIN v
      BY <1>1, <2>2, <3>1, RemovedLonger
    <3>4. v \in Seq(Names) /\ Append(t, f) \in Seq(Names)
      BY <1>1, <3>1
    <3> HIDE DEF v
    <3>5. RemoveAt(v, i) \in Seq(Names) /\ Removed(v, RemoveAt(v, i), i)
      BY <3>3, <3>4, RemovedAt
    <3>6. RemoveAt(v, i) = Append(t, f)
      BY <3>3, <3>4, <3>5, SameRemoved
    <3> QED BY <3>1, <3>2, <3>6 DEF f
  <2>3. ListsOK' /\ AskedOK'
    BY <1>1, <2>1, <2>2, ListsShift DEF r
  <2>4. r \in ToSet(waiting)
    BY <1>1, <2>1, HeadIsAsked DEF r
  <2> QED BY <2>1, <2>3, <2>4
<1>8. CASE NatsHandles
  BY <1>2, <1>8 DEF NatsHandles, Handle, asking, PcOK
<1>9. CASE \/ Publish \/ TimePasses \/ BrokerTakesAcks \/ NatsStops \/ Ended \/ UNCHANGED vars
  BY <1>2, <1>9 DEF Publish, TimePasses, BrokerTakesAcks, NatsStops, Ended, vars, consumer, broker,
     asking
<1> QED
  <2>1. ~(RedisAnswers \/ RabbitPushes \/ RedisCloses \/ KafkaPolls \/ RedisAsks \/ RedisReads \/ WaitingReads
          \/ WaitingReadsNothing \/ RabbitReads \/ RabbitWaits \/ Drains \/ DrainOver \/ Finish \/ Reports
          \/ KafkaHandles \/ RedisHandles \/ WaitingHandles \/ RabbitHandles)
    BY DEF PcOK, RedisAnswers, RabbitPushes, RedisCloses, KafkaPolls, RedisAsks, RedisReads,
       WaitingReads,
       WaitingReadsNothing, RabbitReads, RabbitWaits, Drains, DrainOver, Finish, Reports,
       KafkaHandles, RedisHandles, WaitingHandles, RabbitHandles
  <2> QED BY <1>3, <1>4, <1>6, <1>7, <1>8, <1>9, <2>1 DEF Next, Broker, Reads, Handles

\* The other consumers' requests: no more than there are answers to come.
WaitOK ==
  /\ Len(waiting) <= Depth
  /\ client = "waiting" => Len(requests) + Len(channel) <= Len(waiting)
  /\ client = "redis" =>
       IF pc = "wait" THEN Len(waiting) = 1 /\ Len(channel) + Len(requests) = 1
       ELSE waiting = <<>> /\ channel = <<>> /\ requests = <<>>
  /\ client \in {"kafka", "rabbitmq"} => waiting = <<>> /\ requests = <<>>

\* The Tail of one.
LEMMA EmptyTail ==
  ASSUME NEW S, NEW s \in Seq(S), Len(s) = 1
  PROVE  Tail(s) = <<>>
<1>1. s # <<>> /\ Tail(s) \in Seq(S) /\ Len(Tail(s)) = 0
  OBVIOUS
<1> DEFINE t == Tail(s)
<1>2. t \in Seq(S) /\ Len(t) = 0
  BY <1>1
<1> HIDE DEF t
<1>3. t = <<>>
  BY <1>2, EmptySeq
<1> QED BY <1>3 DEF t

\* Every step of the others keeps its requests so.
LEMMA OthersAsk ==
  ASSUME client # "nats", client \in Clients, channel \in Seq(AnAnswer), PcOK, AskedOK, WaitOK, [Next]_vars
  PROVE  WaitOK' /\ AskedOK'
<1> USE Bounds
<1>0. client \in {"kafka", "redis", "waiting", "rabbitmq"}
  BY ConsumersAssumption
<1>1. waiting \in Seq(Names) /\ requests \in Seq(Names) /\ Len(waiting) \in Nat /\ Len(requests) \in Nat
      /\ Len(channel) \in Nat /\ Len(<<>>) = 0
  BY DEF AskedOK
<1>2. Fresh \in Names
  BY FreshIsNew DEF WaitOK
<1>3. ASSUME UNCHANGED <<client, waiting, requests, channel>>, pc = "wait" <=> pc' = "wait"
      PROVE  WaitOK' /\ AskedOK'
  BY <1>3 DEF WaitOK, AskedOK
<1>4. CASE RedisAnswers
  <2>1. requests # <<>> /\ requests' = Tail(requests) /\ Len(channel') = Len(channel) + 1
        /\ client \in {"redis", "waiting"} /\ UNCHANGED <<client, pc, waiting>>
    BY <1>4, <1>1 DEF RedisAnswers, Deliver, consumer
  <2>2. Tail(requests) \in Seq(Names) /\ Len(Tail(requests)) = Len(requests) - 1 /\ Len(requests) # 0
    BY <1>1, <2>1
  <2>3. client = "redis" => pc = "wait"
    BY <2>1 DEF WaitOK
  <2> QED BY <1>1, <2>1, <2>2, <2>3 DEF WaitOK, AskedOK
<1>5. CASE RabbitPushes
  BY <1>1, <1>5 DEF RabbitPushes, Deliver, consumer, WaitOK, AskedOK
<1>6. CASE RedisCloses
  <2>1. requests' = <<>> /\ UNCHANGED <<client, pc, waiting, channel>> /\ client = "waiting"
    BY <1>6 DEF RedisCloses, consumer, PcOK
  <2> QED BY <1>1, <2>1 DEF WaitOK, AskedOK
<1>7. CASE KafkaPolls
  BY <1>1, <1>7 DEF KafkaPolls, asking, WaitOK, AskedOK
<1>8. CASE RedisAsks
  <2>1. waiting' = <<Fresh>> /\ requests' = <<Fresh>> /\ pc' = "wait" /\ UNCHANGED <<client, channel>>
        /\ client = "redis" /\ pc = "read"
    BY <1>8 DEF RedisAsks
  <2>2. <<Fresh>> \in Seq(Names) /\ Len(<<Fresh>>) = 1
    BY <1>2
  <2>3. Len(waiting') = 1 /\ Len(requests') = 1 /\ Len(channel') = 0
    BY <1>1, <2>1, <2>2 DEF WaitOK
  <2> QED BY <1>1, <2>1, <2>2, <2>3 DEF WaitOK, AskedOK
<1>9. CASE RedisReads
  <2>1. waiting' = <<>> /\ requests' = requests /\ channel' = Tail(channel) /\ pc' # "wait" /\ client' = client
        /\ client = "redis" /\ pc = "wait" /\ channel # <<>>
    BY <1>9 DEF RedisReads
  <2>2. Len(channel) # 0
    BY <2>1
  <2>3. Len(channel) = 1 /\ Len(requests) = 0
    BY <1>1, <2>1, <2>2 DEF WaitOK
  <2>4. Tail(channel) = <<>>
    BY <2>3, EmptyTail
  <2>5. requests = <<>>
    BY <1>1, <2>3, EmptySeq
  <2>6. <<>> \in Seq(Names)
    BY EmptySeq
  <2> QED BY <1>1, <2>1, <2>4, <2>5, <2>6 DEF WaitOK, AskedOK
<1>10. ASSUME client = "waiting", channel # <<>>, channel' = Tail(channel), client' = client, pc' # "wait",
              \/ waiting' = Append(Tail(waiting), Fresh) /\ requests' = Append(requests, Fresh)
              \/ waiting' = Tail(waiting) /\ requests' = requests
       PROVE  WaitOK' /\ AskedOK'
  <2>1. Len(channel) # 0 /\ Len(channel') = Len(channel) - 1
    BY <1>10
  <2>2. Len(waiting) # 0 /\ Len(requests) + Len(channel) <= Len(waiting) /\ Len(waiting) <= Depth
    BY <1>1, <1>10, <2>1 DEF WaitOK
  <2>3. Tail(waiting) \in Seq(Names) /\ Len(Tail(waiting)) = Len(waiting) - 1
    BY <1>1, <2>2
  <2>4. /\ Append(Tail(waiting), Fresh) \in Seq(Names) /\ Append(requests, Fresh) \in Seq(Names)
        /\ Len(Append(Tail(waiting), Fresh)) = Len(waiting) /\ Len(Append(requests, Fresh)) = Len(requests) + 1
    BY <1>1, <1>2, <2>3
  <2>5. /\ waiting' \in Seq(Names) /\ requests' \in Seq(Names)
        /\ \/ Len(waiting') = Len(waiting) /\ Len(requests') = Len(requests) + 1
           \/ Len(waiting') = Len(waiting) - 1 /\ Len(requests') = Len(requests)
    BY <1>1, <1>10, <2>3, <2>4
  <2>6. Len(waiting') <= Depth /\ Len(requests') + Len(channel') <= Len(waiting')
    BY <1>1, <2>1, <2>2, <2>5
  <2> QED BY <1>10, <2>5, <2>6 DEF WaitOK, AskedOK
<1>11. CASE WaitingReads
  BY <1>10, <1>11 DEF WaitingReads
<1>12. CASE WaitingReadsNothing
  BY <1>10, <1>12 DEF WaitingReadsNothing
<1>13. CASE Drains
  <2>1. client = "waiting"
    BY <1>13 DEF Drains, PcOK
  <2> QED BY <1>10, <1>13, <2>1 DEF Drains
<1>14. CASE RabbitReads
  BY <1>1, <1>14 DEF RabbitReads, WaitOK, AskedOK
<1>15. CASE Handles
  BY <1>3, <1>15 DEF Handles, KafkaHandles, RedisHandles, WaitingHandles, NatsHandles, RabbitHandles,
     Handle, asking
<1>16. CASE Publish \/ TimePasses \/ BrokerTakesAcks \/ RabbitWaits \/ DrainOver \/ Finish \/ Reports \/ Ended
            \/ UNCHANGED vars
  BY <1>3, <1>16 DEF Publish, TimePasses, BrokerTakesAcks, RabbitWaits, DrainOver, Finish, Reports,
     Ended, vars,
     consumer, broker, asking
<1> QED
  <2>1. ~(NatsDelivers \/ NatsRedelivers \/ NatsEndsRequest \/ NatsReads \/ NatsReadsStatus \/ NatsStops)
    BY DEF NatsDelivers, NatsRedelivers, NatsEndsRequest, NatsReads, NatsReadsStatus, NatsStops
  <2> QED
    BY <1>4, <1>5, <1>6, <1>7, <1>8, <1>9, <1>11, <1>12, <1>13, <1>14, <1>15, <1>16, <2>1 DEF Next,
       Broker, Reads

-----------------------------------------------------------------------------
(***************************************************************************)
(* The end of the waiting consumer.                                        *)
(***************************************************************************)
\* It stopped with all read, unless it gave the broker up.
EndOK ==
  /\ client = "waiting" /\ pc \in {"finish", "owed", "ended"} => abandoned \/ (closed /\ channel = <<>>)
  /\ client = "waiting" /\ pc \in {"owed", "ended"} => held = {}

\* The broker sends nothing on a connection that it has closed.
LEMMA EndKept ==
  ASSUME PcOK, EndOK, [Next]_vars
  PROVE  EndOK'
<1> USE DEF EndOK
<1>1. ASSUME UNCHANGED <<client, pc, abandoned, closed, channel, held>>
      PROVE  EndOK'
  BY <1>1
<1>2. ASSUME client' = client, client # "waiting" \/ pc' \notin {"finish", "owed", "ended"}
      PROVE  EndOK'
  BY <1>2
<1>3. CASE RedisAnswers
  BY <1>3 DEF RedisAnswers, Deliver, consumer, ending, work, PcOK
<1>4. CASE RedisCloses
  BY <1>4 DEF RedisCloses, consumer, ending, work
<1>5. CASE NatsDelivers \/ NatsRedelivers \/ NatsEndsRequest \/ RabbitPushes \/ KafkaPolls \/ RedisAsks \/ RedisReads
           \/ NatsReads \/ NatsReadsStatus \/ NatsStops \/ RabbitReads \/ RabbitWaits
  BY <1>2, <1>5 DEF NatsDelivers, NatsRedelivers, NatsEndsRequest, RabbitPushes, Deliver, KafkaPolls,
     RedisAsks, RedisReads,
     NatsReads, NatsReadsStatus, NatsStops, RabbitReads, RabbitWaits
<1>6. CASE Handles \/ WaitingReads \/ WaitingReadsNothing \/ Drains
  BY <1>2, <1>6 DEF Handles, KafkaHandles, RedisHandles, WaitingHandles, NatsHandles, RabbitHandles,
     Handle,
     WaitingReads, WaitingReadsNothing, Drains
<1>7. CASE DrainOver
  BY <1>7 DEF DrainOver, broker, stream, asking, work
<1>8. CASE Finish \/ Reports
  BY <1>8 DEF Finish, Reports, Flush, ending, stream, broker, asking, work
<1>9. CASE Publish \/ TimePasses \/ BrokerTakesAcks \/ Ended \/ UNCHANGED vars
  BY <1>1, <1>9 DEF Publish, TimePasses, BrokerTakesAcks, Ended, vars, consumer, broker, asking,
     work, ending, stream
<1> QED
  BY <1>3, <1>4, <1>5, <1>6, <1>7, <1>8, <1>9 DEF Next, Broker, Reads

\* What the waiting consumer has handled and the broker holds is owed: kept for
\* the next batch or on its way; and in the end nothing is kept.
DebtOK ==
  client = "waiting" =>
    \A id \in seen \cap unacked : id \in held \/ \E k \in DOMAIN acks : id \in acks[k]

\* Every step leaves what is owed kept or on its way.
LEMMA DebtKept ==
  ASSUME FlowOK, PcOK, SeenOK, AcksOK, DebtOK, Kind, [Next]_vars
  PROVE  DebtOK'
<1> SUFFICES ASSUME client = "waiting"
             PROVE  DebtOK'
  BY DEF Kind, DebtOK
<1>1. acks \in Seq(SUBSET Nat)
  BY DEF AcksOK
<1>2. ASSUME UNCHANGED <<seen, unacked, held, acks>>
      PROVE  DebtOK'
  BY <1>2 DEF DebtOK
<1>3. CASE RedisAnswers
  <2>1. Fewer(Count, out - pos) \in Nat
    BY Bounds DEF Fewer, FlowOK
  <2>2. \A id \in Ids(First(Fewer(Count, out - pos))) : id \notin seen
    <3> DEFINE n == Fewer(Count, out - pos)
    <3>1. Ids(First(n)) = (pos + 1)..(pos + n) /\ n \in Nat
      <4> HIDE DEF n
      <4>1. n \in Nat
        BY <2>1 DEF n
      <4> QED BY <4>1, FirstMessages DEF FlowOK
    <3> HIDE DEF n
    <3>2. \A id \in Ids(First(n)) : id \notin seen
      BY <3>1 DEF FlowOK, SeenOK
    <3> QED BY <3>2 DEF n
  <2> QED BY <1>3, <2>2 DEF RedisAnswers, Deliver, consumer, work, DebtOK
<1>4. CASE BrokerTakesAcks
  <2>1. /\ Len(acks) \in Nat \ {0} /\ DOMAIN acks = 1..Len(acks)
        /\ DOMAIN Tail(acks) = 1..(Len(acks) - 1) /\ Head(acks) = acks[1]
        /\ \A k \in 1..(Len(acks) - 1) : Tail(acks)[k] = acks[k + 1]
    BY <1>1, <1>4, Shortened DEF BrokerTakesAcks
  <2>2. ASSUME NEW id \in seen \cap (unacked \ Head(acks)), id \notin held
        PROVE  \E k \in DOMAIN Tail(acks) : id \in Tail(acks)[k]
    <3>1. PICK k \in DOMAIN acks : id \in acks[k]
      BY <2>2 DEF DebtOK
    <3>2. k # 1
      BY <2>1, <2>2, <3>1
    <3>3. k - 1 \in DOMAIN Tail(acks) /\ Tail(acks)[k - 1] = acks[(k - 1) + 1] /\ (k - 1) + 1 = k
      BY <2>1, <3>2
    <3> QED BY <3>1, <3>3
  <2> QED BY <1>4, <2>2 DEF BrokerTakesAcks, consumer, work, DebtOK
<1>5. ASSUME NEW b \in SUBSET Nat, acks' = Append(acks, b)
      PROVE  \A id : (id \in b \/ \E k \in DOMAIN acks : id \in acks[k]) => \E k \in DOMAIN acks' : id \in acks'[k]
  <2>1. /\ Len(acks) \in Nat
        /\ DOMAIN acks = 1..Len(acks) /\ DOMAIN acks' = 1..(Len(acks) + 1)
        /\ \A k \in 1..Len(acks) : acks'[k] = acks[k]
        /\ acks'[Len(acks) + 1] = b
    BY <1>1, <1>5
  <2>2. Len(acks) + 1 \in DOMAIN acks' /\ \A k \in DOMAIN acks : k \in DOMAIN acks'
    BY <2>1
  <2> QED BY <2>1, <2>2
<1>6. CASE WaitingHandles
  <2> DEFINE id == Head(inHand).id
  <2>1. seen' = seen \cup {id} /\ unacked' = unacked
    BY <1>6 DEF WaitingHandles, Handle
  <2>2. id \in Nat /\ held \subseteq Nat
    <3>1. inHand # <<>>
      BY <1>6 DEF WaitingHandles, Handle, PcOK
    <3>2. Head(inHand) \in Message
      BY <3>1 DEF FlowOK
    <3> QED BY <3>2 DEF Message, AcksOK, FlowOK
  <2> HIDE DEF id
  <2>3. CASE held' = held \cup {id} /\ acks' = acks
    BY <2>1, <2>3 DEF DebtOK
  <2>4. CASE held' = {} /\ acks' = Append(acks, held \cup {id})
    <3>1. held \cup {id} \in SUBSET Nat
      BY <2>2
    <3>2. \A i : (i \in held \cup {id} \/ \E k \in DOMAIN acks : i \in acks[k]) => \E k \in DOMAIN acks' : i \in acks'[k]
      BY <1>5, <2>4, <3>1
    <3> QED BY <2>1, <3>2 DEF DebtOK
  <2> QED BY <1>6, <2>3, <2>4 DEF WaitingHandles, id
<1>7. ASSUME Flush, UNCHANGED <<seen, unacked>>
      PROVE  DebtOK'
  <2>1. CASE held = {}
    BY <1>7, <2>1 DEF Flush, DebtOK
  <2>2. CASE held # {}
    <3>1. acks' = Append(acks, held) /\ held \in SUBSET Nat
      BY <1>7, <2>2 DEF Flush, FlowOK, AcksOK
    <3>2. \A i : (i \in held \/ \E k \in DOMAIN acks : i \in acks[k]) => \E k \in DOMAIN acks' : i \in acks'[k]
      BY <1>5, <3>1
    <3> QED BY <1>7, <3>2 DEF DebtOK
  <2> QED BY <2>1, <2>2
<1>8. CASE WaitingReadsNothing
  BY <1>2, <1>7, <1>8 DEF WaitingReadsNothing
<1>9. CASE Finish
  BY <1>7, <1>9 DEF Finish
<1>10. CASE Publish \/ TimePasses \/ RedisCloses \/ WaitingReads \/ Drains \/ DrainOver \/ Reports \/ Ended \/ UNCHANGED vars
  BY <1>2, <1>10 DEF Publish, TimePasses, RedisCloses, WaitingReads, Drains, DrainOver, Reports,
     Ended, vars,
     consumer, broker, asking, work
<1> QED
  <2>1. ~(NatsDelivers \/ NatsRedelivers \/ NatsEndsRequest \/ NatsReads \/ NatsReadsStatus \/ NatsStops
          \/ RabbitPushes \/ RabbitReads \/ RabbitWaits \/ KafkaPolls \/ RedisAsks \/ RedisReads
          \/ KafkaHandles \/ RedisHandles \/ NatsHandles \/ RabbitHandles)
    BY DEF NatsDelivers, NatsRedelivers, NatsEndsRequest, NatsReads, NatsReadsStatus, NatsStops,
       RabbitPushes, RabbitReads, RabbitWaits, KafkaPolls, RedisAsks, RedisReads,
       KafkaHandles, RedisHandles, NatsHandles, RabbitHandles
  <2> QED BY <1>3, <1>4, <1>6, <1>8, <1>9, <1>10, <2>1 DEF Next, Broker, Reads, Handles

-----------------------------------------------------------------------------
(***************************************************************************)
(* How much there is at most.                                              *)
(***************************************************************************)
\* The answers that bring a redelivered message.
AgainPlaces == {k \in DOMAIN channel : channel[k].messages # <<>> /\ channel[k].messages[1].again}

\* One if it is so.
One(p) == IF p THEN 1 ELSE 0

\* An acknowledgement has a handled message of its own, so have the messages held
\* together; of NATS's, one that acknowledges a redelivery has that redelivery.
CountOK ==
  /\ again \in Nat /\ again <= MaxAgain
  /\ client # "nats" => Len(acks) + One(held # {}) <= Cardinality(seen)
  /\ client = "nats" =>
       Len(acks) + One(inHand # <<>> /\ inHand[1].again) + Cardinality(AgainPlaces) <= Cardinality(seen) + again

\* No more messages are handled than were delivered.
LEMMA SeenIsFinite ==
  ASSUME SeenOK, pos \in Nat
  PROVE  IsFiniteSet(seen) /\ Cardinality(seen) \in Nat /\ Cardinality(seen) <= pos
<1>1. IsFiniteSet(1..pos) /\ Cardinality(1..pos) = pos
  <2>1. 1 \in Int /\ pos \in Int
    OBVIOUS
  <2>2. IsFiniteSet(1..pos) /\ Cardinality(1..pos) = IF 1 > pos THEN 0 ELSE pos - 1 + 1
    BY <2>1, FS_Interval
  <2> QED BY <2>2
<1> DEFINE T == 1..pos
<1>2. IsFiniteSet(T) /\ Cardinality(T) = pos /\ seen \in SUBSET T
  BY <1>1 DEF SeenOK
<1> HIDE DEF T
<1>3. IsFiniteSet(seen) /\ Cardinality(seen) <= Cardinality(T)
  BY <1>2, FS_Subset
<1> QED BY <1>2, <1>3, FS_CardinalityType

\* Handling a first delivery makes one more.
LEMMA SeenGrows ==
  ASSUME FlowOK, SeenOK, OrderOK, Treated
  PROVE  /\ Cardinality(seen) \in Nat /\ Cardinality(seen') \in Nat /\ Cardinality(seen) <= Cardinality(seen')
         /\ ~inHand[1].again => Cardinality(seen') = Cardinality(seen) + 1
<1>1. /\ Len(inHand) \in Nat \ {0} /\ DOMAIN inHand = 1..Len(inHand)
      /\ seen' = seen \cup {inHand[1].id} /\ inHand[1] \in Message
  BY TreatedByPlaces
<1>2. IsFiniteSet(seen) /\ Cardinality(seen) \in Nat
  BY SeenIsFinite DEF FlowOK
<1> DEFINE x == inHand[1].id
           more == seen \cup {x}
<1>3. ~inHand[1].again => x \notin seen
  <2>1. 1 \in DOMAIN inHand
    BY <1>1
  <2>2. ~inHand[1].again => \A id \in seen : id < x
    BY <2>1 DEF OrderOK, AfterSeen
  <2>3. x \in Nat
    BY <1>1 DEF Message
  <2> QED BY <2>2, <2>3
<1> HIDE DEF x
<1>4. x \notin seen => Cardinality(more) = Cardinality(seen) + 1
  BY <1>2, FS_AddElement
<1>5. x \in seen => more = seen
  OBVIOUS
<1>6. seen' = more
  BY <1>1 DEF x
<1> HIDE DEF more
<1> QED BY <1>2, <1>3, <1>4, <1>5, <1>6

\* There are finitely many.
LEMMA PlacesAreFinite ==
  ASSUME channel \in Seq(AnAnswer)
  PROVE  IsFiniteSet(AgainPlaces) /\ Cardinality(AgainPlaces) \in Nat
<1> DEFINE T == 1..Len(channel)
<1>1. IsFiniteSet(T)
  <2>1. 1 \in Int /\ Len(channel) \in Int
    OBVIOUS
  <2> QED BY <2>1, FS_Interval
<1>2. AgainPlaces \in SUBSET T
  BY DEF AgainPlaces
<1> HIDE DEF T
<1> QED BY <1>1, <1>2, FS_Subset, FS_CardinalityType

\* One more answer.
LEMMA PlacesGrow ==
  ASSUME channel \in Seq(AnAnswer), NEW a, channel' = Append(channel, a)
  PROVE  /\ Cardinality(AgainPlaces)' <= Cardinality(AgainPlaces) + 1
         /\ Cardinality(AgainPlaces)' \in Nat
         /\ ~(a.messages # <<>> /\ a.messages[1].again) => AgainPlaces' = AgainPlaces
<1>1. /\ Len(channel) \in Nat
      /\ DOMAIN channel = 1..Len(channel) /\ DOMAIN channel' = 1..(Len(channel) + 1)
      /\ \A k \in 1..Len(channel) : channel'[k] = channel[k]
      /\ \A k \in {Len(channel) + 1} : channel'[k] = a
  OBVIOUS
<1> DEFINE n == Len(channel) + 1
           P == AgainPlaces
           Q == P \cup {n}
<1>2. AgainPlaces' \in {P, Q} /\ (~(a.messages # <<>> /\ a.messages[1].again) => AgainPlaces' = P)
  BY <1>1 DEF AgainPlaces
<1>3. IsFiniteSet(P) /\ Cardinality(P) \in Nat
  BY PlacesAreFinite
<1> HIDE DEF P, n
<1>4. Cardinality(Q) \in {Cardinality(P), Cardinality(P) + 1}
  <2>1. CASE n \in P
    <3>1. Q = P
      BY <2>1
    <3> QED BY <3>1
  <2>2. CASE n \notin P
    BY <1>3, <2>2, FS_AddElement
  <2> QED BY <2>1, <2>2
<1> HIDE DEF Q
<1>5. Cardinality(AgainPlaces') <= Cardinality(P) + 1 /\ Cardinality(AgainPlaces') \in Nat
  BY <1>2, <1>3, <1>4
<1> QED BY <1>2, <1>5 DEF P

\* The first answer is read.
LEMMA PlacesShrink ==
  ASSUME channel \in Seq(AnAnswer), channel # <<>>, channel' = Tail(channel)
  PROVE  /\ Cardinality(AgainPlaces)' + One(channel[1].messages # <<>> /\ channel[1].messages[1].again)
              <= Cardinality(AgainPlaces)
         /\ Cardinality(AgainPlaces)' \in Nat
<1>1. /\ Len(channel) \in Nat \ {0}
      /\ DOMAIN channel = 1..Len(channel) /\ DOMAIN channel' = 1..(Len(channel) - 1)
      /\ \A k \in 1..(Len(channel) - 1) : channel'[k] = channel[k + 1]
  OBVIOUS
<1> DEFINE P == AgainPlaces
           R == P \ {1}
           Q == AgainPlaces'
           next == [k \in Q |-> k + 1]
<1>2. Q \subseteq Nat /\ \A k \in Q : k + 1 \in R
  BY <1>1 DEF AgainPlaces
<1>3. IsFiniteSet(P) /\ Cardinality(P) \in Nat
  BY PlacesAreFinite
<1>4. One(channel[1].messages # <<>> /\ channel[1].messages[1].again) = One(1 \in P)
  BY <1>1 DEF AgainPlaces, One
<1>5. IsFiniteSet(Q) /\ Cardinality(Q) \in Nat
  <2> DEFINE T == 1..Len(channel)
  <2>1. IsFiniteSet(T)
    <3>1. 1 \in Int /\ Len(channel) \in Int
      BY <1>1
    <3> QED BY <3>1, FS_Interval
  <2>2. Q \in SUBSET T
    BY <1>1 DEF AgainPlaces
  <2> HIDE DEF T, Q
  <2> QED BY <2>1, <2>2, FS_Subset, FS_CardinalityType
<1> HIDE DEF P, Q
<1>6. IsFiniteSet(R) /\ (1 \in P => Cardinality(R) = Cardinality(P) - 1) /\ (1 \notin P => R = P)
  BY <1>3, FS_RemoveElement
<1>7. next \in [Q -> R] /\ \A k, l \in Q : k # l => next[k] # next[l]
  <2> HIDE DEF R
  <2>1. next \in [Q -> R]
    BY <1>2
  <2>2. \A k \in Q : next[k] = k + 1
    OBVIOUS
  <2>3. \A k, l \in Q : k + 1 = l + 1 => k = l
    BY <1>2
  <2> HIDE DEF next
  <2> QED BY <2>1, <2>2, <2>3
<1> HIDE DEF R, next
<1>8. Cardinality(Q) <= Cardinality(R) /\ Cardinality(R) \in Nat
  <2>1. Cardinality(R) \in Nat
    BY <1>6, FS_CardinalityType
  <2>2. ~(Cardinality(R) < Cardinality(Q))
    BY <1>5, <1>6, <1>7, FS_PigeonHole
  <2> QED BY <1>5, <2>1, <2>2
<1>9. Cardinality(Q) + One(1 \in P) <= Cardinality(P)
  BY <1>3, <1>5, <1>6, <1>8 DEF One
<1> QED BY <1>4, <1>5, <1>9 DEF P, Q

\* The acknowledgements on their way, but for NATS's: every one has a message
\* of its own that has been handled, and the next one has one too.
LEMMA CountOthers ==
  ASSUME client # "nats", FlowOK, PcOK, BroughtOK, SeenOK, OrderOK, AcksOK, CountOK, Kind, [Next]_vars
  PROVE  CountOK'
<1>0. client' = client
  BY DEF Kind
<1>1. acks \in Seq(SUBSET Nat) /\ Len(acks) \in Nat /\ Cardinality(seen) \in Nat
  BY SeenIsFinite DEF AcksOK, FlowOK
<1>2. /\ again \in Nat /\ again <= MaxAgain
      /\ Len(acks) + One(held # {}) <= Cardinality(seen)
  BY DEF CountOK
<1>3. \A b : Len(Append(acks, b)) = Len(acks) + 1
  OBVIOUS
<1>4. ASSUME Treated, again' = again,
             acks' = acks \/ ((\E b : acks' = Append(acks, b)) /\ held' \in {held, {}})
      PROVE  CountOK'
  <2>1. Cardinality(seen') = Cardinality(seen) + 1
    <3>1. DOMAIN inHand = 1..Len(inHand) /\ Len(inHand) \in Nat \ {0}
      BY <1>4, TreatedByPlaces
    <3>2. ~inHand[1].again
      BY <3>1 DEF BroughtOK, MessagesOK
    <3> QED BY <1>4, <3>2, SeenGrows
  <2>2. Len(acks') + One(held' # {}) <= Len(acks) + One(held # {}) + 1
    <3>1. One(held # {}) \in {0, 1} /\ One(held' # {}) \in {0, 1} /\ One(FALSE) = 0
      BY DEF One
    <3>2. CASE acks' = acks
      BY <1>1, <3>1, <3>2
    <3>3. ASSUME NEW b, acks' = Append(acks, b), held' \in {held, {}}
          PROVE  Len(acks') + One(held' # {}) <= Len(acks) + One(held # {}) + 1
      <4>1. Len(acks') = Len(acks) + 1
        BY <1>3, <3>3
      <4>2. One(held' # {}) <= One(held # {})
        BY <3>3 DEF One
      <4> QED BY <1>1, <3>1, <4>1, <4>2
    <3> QED BY <1>4, <3>2, <3>3
  <2>3. Len(acks') + One(held' # {}) <= Cardinality(seen')
    <3>1. One(held # {}) \in {0, 1} /\ One(held' # {}) \in {0, 1}
      BY DEF One
    <3>2. Len(acks') \in Nat
      BY <1>1, <1>3, <1>4
    <3> QED BY <1>1, <1>2, <2>1, <2>2, <3>1, <3>2
  <2> QED BY <1>0, <1>2, <1>4, <2>3 DEF CountOK
<1>5. ASSUME seen' = seen, again' = again,
             \/ acks' = acks /\ held' \in {held, {}}
             \/ (\E b : acks' = Append(acks, b)) /\ held # {} /\ held' = {}
      PROVE  CountOK'
  <2>1. CASE acks' = acks /\ held' \in {held, {}}
    <3>1. One(held' # {}) <= One(held # {}) /\ One(held # {}) \in {0, 1} /\ One(held' # {}) \in {0, 1}
      BY <2>1 DEF One
    <3>2. Len(acks) + One(held' # {}) <= Cardinality(seen)
      BY <1>1, <1>2, <3>1
    <3> QED BY <1>0, <1>2, <1>5, <2>1, <3>2 DEF CountOK
  <2>2. ASSUME NEW b, acks' = Append(acks, b), held # {}, held' = {}
        PROVE  CountOK'
    <3>1. One(held' # {}) = 0 /\ One(held # {}) = 1
      BY <2>2 DEF One
    <3>2. Len(acks') = Len(acks) + 1
      BY <1>3, <2>2
    <3>3. Len(acks') + One(held' # {}) <= Cardinality(seen)
      BY <1>1, <1>2, <3>1, <3>2
    <3> QED BY <1>0, <1>2, <1>5, <3>3 DEF CountOK
  <2> QED BY <1>5, <2>1, <2>2
<1>6. CASE BrokerTakesAcks
  <2>1. Len(acks') = Len(acks) - 1 /\ Len(acks) # 0
    BY <1>1, <1>6, Shortened DEF BrokerTakesAcks
  <2>2. UNCHANGED <<held, seen, again>>
    BY <1>6 DEF BrokerTakesAcks, consumer, work, stream
  <2>3. One(held # {}) \in {0, 1}
    BY DEF One
  <2>4. Len(acks') + One(held # {}) <= Cardinality(seen)
    BY <1>1, <1>2, <2>1, <2>3
  <2> QED BY <1>0, <1>2, <2>2, <2>4 DEF CountOK
<1>7. CASE Handles
  <2>1. Treated /\ again' = again
    BY <1>7 DEF PcOK, Handles, KafkaHandles, RedisHandles, WaitingHandles, NatsHandles,
       RabbitHandles, Handle, Treated, stream, asking
  <2>2. acks' = acks \/ ((\E b : acks' = Append(acks, b)) /\ held' \in {held, {}})
    BY <1>7 DEF Handles, KafkaHandles, RedisHandles, WaitingHandles, NatsHandles, RabbitHandles
  <2> QED BY <1>4, <2>1, <2>2
<1>8. CASE WaitingReadsNothing \/ Finish \/ RabbitWaits \/ RedisReads
  BY <1>5, <1>8 DEF WaitingReadsNothing, Finish, RabbitWaits, RedisReads, Flush, stream
<1>9. CASE \/ Publish \/ TimePasses \/ RedisAnswers \/ RabbitPushes \/ RedisCloses \/ KafkaPolls
           \/ RedisAsks \/ WaitingReads \/ RabbitReads \/ Drains \/ DrainOver \/ Reports \/ Ended
           \/ UNCHANGED vars
  BY <1>5, <1>9 DEF Publish, TimePasses, RedisAnswers, RabbitPushes, Deliver, RedisCloses, KafkaPolls,
     RedisAsks, WaitingReads, RabbitReads, Drains, DrainOver, Reports, Ended, consumer, work, stream,
     asking, broker, vars
<1>10. ~(NatsDelivers \/ NatsRedelivers \/ NatsEndsRequest \/ NatsReads \/ NatsReadsStatus \/ NatsStops)
  BY DEF NatsDelivers, NatsRedelivers, NatsEndsRequest, NatsReads, NatsReadsStatus, NatsStops
<1> QED BY <1>6, <1>7, <1>8, <1>9, <1>10 DEF Next, Broker, Reads

\* NATS's: an acknowledgement, a redelivered message in hand or on its way has a
\* message that has been handled or a redelivery of its own.
LEMMA CountNats ==
  ASSUME client = "nats", FlowOK, PcOK, AskedOK, BroughtOK, SeenOK, OrderOK, AcksOK, CountOK, Kind,
         [Next]_vars
  PROVE  CountOK'
<1>0. client' = client
  BY DEF Kind
<1>1. acks \in Seq(SUBSET Nat) /\ Len(acks) \in Nat /\ Cardinality(seen) \in Nat /\ channel \in Seq(AnAnswer)
  BY SeenIsFinite DEF AcksOK, FlowOK
<1> DEFINE hand == One(inHand # <<>> /\ inHand[1].again)
           places == Cardinality(AgainPlaces)
<1>2. /\ again \in Nat /\ again <= MaxAgain /\ places \in Nat
      /\ Len(acks) + hand + places <= Cardinality(seen) + again
      /\ hand \in {0, 1} /\ hand' \in {0, 1}
  BY <1>1, PlacesAreFinite DEF CountOK, One
<1>3. ASSUME UNCHANGED <<inHand, channel, seen, again, acks>>
      PROVE  CountOK'
  <2>1. UNCHANGED <<hand, places>>
    BY <1>3 DEF AgainPlaces
  <2> QED BY <1>0, <1>2, <1>3, <2>1 DEF CountOK
<1>4. ASSUME NEW a, channel' = Append(channel, a), UNCHANGED <<inHand, seen, acks>>,
             \/ again' = again /\ ~(a.messages # <<>> /\ a.messages[1].again)
             \/ again' = again + 1 /\ again < MaxAgain
      PROVE  CountOK'
  <2>1. places' <= places + 1 /\ (~(a.messages # <<>> /\ a.messages[1].again) => places' = places)
    BY <1>1, <1>4, PlacesGrow
  <2>2. hand' = hand
    BY <1>4
  <2>3. places' \in Nat
    BY <1>1, <1>4, PlacesGrow
  <2>4. again' \in Nat /\ again' <= MaxAgain /\ Len(acks) + hand' + places' <= Cardinality(seen) + again'
    <3> HIDE DEF hand, places
    <3>1. MaxAgain \in Nat
      BY Bounds
    <3> QED BY <1>1, <1>2, <1>4, <2>1, <2>2, <2>3, <3>1
  <2> QED BY <1>0, <1>2, <1>4, <2>4 DEF CountOK
<1>5. ASSUME Took, UNCHANGED <<again, acks>>
      PROVE  CountOK'
  <2>1. inHand = <<>> /\ inHand' = channel[1].messages /\ channel # <<>> /\ channel' = Tail(channel) /\ seen' = seen
    BY <1>1, <1>5, Takes DEF Took, Brought
  <2>2. hand = 0
    BY <2>1 DEF One
  <2>3. places' + hand' <= places /\ places' \in Nat
    BY <1>1, <2>1, PlacesShrink
  <2>4. Len(acks) + hand' + places' <= Cardinality(seen) + again
    <3> HIDE DEF hand, places
    <3>1. Len(acks) + places <= Cardinality(seen) + again
      BY <1>1, <1>2, <2>2
    <3>2. \A a, b, c, d, e \in Nat : a + c <= b /\ d + e <= c => a + e + d <= b
      OBVIOUS
    <3>3. /\ Len(acks) \in Nat /\ Cardinality(seen) + again \in Nat /\ places \in Nat /\ hand' \in Nat
          /\ places' \in Nat
      BY <1>1, <1>2, <2>3
    <3>4. places' + hand' <= places
      BY <2>3
    <3> QED BY <3>1, <3>2, <3>3, <3>4
  <2> QED BY <1>0, <1>2, <1>5, <2>1, <2>4 DEF CountOK
<1>6. CASE NatsHandles
  <2>1. Treated /\ again' = again /\ channel' = channel
    BY <1>6 DEF PcOK, NatsHandles, Handle, Treated, stream, asking
  <2>2. hand' = 0
    <3>1. Len(inHand) \in Nat \ {0} /\ Len(inHand') = Len(inHand) - 1
      BY <2>1, TreatedByPlaces
    <3>2. Len(inHand) <= 1
      BY DEF BroughtOK, MessagesOK
    <3>3. Len(inHand') = 0 /\ Len(inHand) = 1
      BY <3>1, <3>2
    <3>4. inHand' = <<>>
      BY <2>1, <3>3, EmptyTail DEF Treated, FlowOK
    <3> QED BY <3>4 DEF One
  <2>3. places' = places
    BY <2>1 DEF AgainPlaces
  <2>4. /\ Cardinality(seen) <= Cardinality(seen') /\ Cardinality(seen') \in Nat
        /\ ~inHand[1].again => Cardinality(seen') = Cardinality(seen) + 1
    BY <2>1, SeenGrows
  <2>5. inHand[1].again => hand = 1
    BY <2>1 DEF One, Treated
  <2>6. Len(acks') = Len(acks) + 1
    BY <1>1, <1>6 DEF NatsHandles
  <2>7. Len(acks') + hand' + places' <= Cardinality(seen') + again'
    <3> HIDE DEF hand, places
    <3> QED BY <1>1, <1>2, <2>1, <2>2, <2>3, <2>4, <2>5, <2>6
  <2> QED BY <1>0, <1>2, <2>1, <2>7 DEF CountOK
<1>7. CASE BrokerTakesAcks
  <2>1. Len(acks') = Len(acks) - 1 /\ Len(acks) # 0
    BY <1>1, <1>7, Shortened DEF BrokerTakesAcks
  <2>2. UNCHANGED <<inHand, channel, seen, again>>
    BY <1>7 DEF BrokerTakesAcks, consumer, work, stream, asking
  <2>3. UNCHANGED <<hand, places>>
    BY <2>2 DEF AgainPlaces
  <2>4. Len(acks') + hand' + places' <= Cardinality(seen) + again
    <3> HIDE DEF hand, places
    <3> QED BY <1>1, <1>2, <2>1, <2>3
  <2> QED BY <1>0, <1>2, <2>2, <2>4 DEF CountOK
<1>8. CASE NatsDelivers
  <2>1. channel' = Append(channel, Answer("unnamed", First(1))) /\ UNCHANGED <<inHand, seen, acks, again>>
    BY <1>8 DEF NatsDelivers, Deliver, consumer, work
  <2>2. Answer("unnamed", First(1)).messages = First(1) /\ ~First(1)[1].again
    BY DEF Answer, First
  <2> QED BY <1>4, <2>1, <2>2
<1>9. CASE NatsRedelivers
  BY <1>4, <1>9 DEF NatsRedelivers, consumer, work
<1>10. CASE NatsEndsRequest
  <2>1. PICK i \in DOMAIN requests : channel' = Append(channel, Answer(requests[i], <<>>))
    BY <1>10 DEF NatsEndsRequest
  <2>2. UNCHANGED <<inHand, seen, acks, again>>
    BY <1>10 DEF NatsEndsRequest, consumer, work, stream
  <2>3. Answer(requests[i], <<>>).messages = <<>>
    BY DEF Answer
  <2> QED BY <1>4, <2>1, <2>2, <2>3
<1>11. CASE NatsReads
  BY <1>5, <1>11 DEF NatsReads, Took, PcOK, stream
<1>12. CASE NatsReadsStatus
  <2>1. Took /\ UNCHANGED <<again, acks>>
    BY <1>12 DEF NatsReadsStatus, Took, PcOK, work, stream
  <2> QED BY <1>5, <2>1
<1>13. CASE Publish \/ TimePasses \/ NatsStops \/ Ended \/ UNCHANGED vars
  BY <1>3, <1>13 DEF Publish, TimePasses, NatsStops, Ended, vars, consumer, broker, stream, asking, work
<1>14. ~(RedisAnswers \/ RabbitPushes \/ RedisCloses \/ KafkaPolls \/ RedisAsks \/ RedisReads
         \/ WaitingReads \/ WaitingReadsNothing \/ RabbitReads \/ RabbitWaits \/ Drains \/ DrainOver
         \/ Finish \/ Reports \/ KafkaHandles \/ RedisHandles \/ WaitingHandles \/ RabbitHandles)
  BY DEF RedisAnswers, RabbitPushes, RedisCloses, KafkaPolls, RedisAsks, RedisReads, WaitingReads,
     WaitingReadsNothing, RabbitReads, RabbitWaits, Drains, DrainOver, Finish, Reports, KafkaHandles,
     RedisHandles, WaitingHandles, RabbitHandles, PcOK
<1> QED
  BY <1>6, <1>7, <1>8, <1>9, <1>10, <1>11, <1>12, <1>13, <1>14 DEF Next, Broker, Reads, Handles

\* RabbitMQ's prefetch, and what XPENDING may say.
LimitsOK ==
  /\ reported \in -1..M
  /\ client = "rabbitmq" => Cardinality(unacked) <= Prefetch

\* No more messages are unacknowledged than were delivered.
LEMMA UnackedIsFinite ==
  ASSUME AcksOK, pos \in Nat
  PROVE  IsFiniteSet(unacked) /\ Cardinality(unacked) \in Nat /\ Cardinality(unacked) <= pos
<1>1. IsFiniteSet(1..pos) /\ Cardinality(1..pos) = pos
  <2>1. 1 \in Int /\ pos \in Int
    OBVIOUS
  <2>2. IsFiniteSet(1..pos) /\ Cardinality(1..pos) = IF 1 > pos THEN 0 ELSE pos - 1 + 1
    BY <2>1, FS_Interval
  <2> QED BY <2>2
<1> DEFINE T == 1..pos
<1>2. IsFiniteSet(T) /\ Cardinality(T) = pos /\ unacked \in SUBSET T
  BY <1>1 DEF AcksOK
<1> HIDE DEF T
<1>3. IsFiniteSet(unacked) /\ Cardinality(unacked) <= Cardinality(T)
  BY <1>2, FS_Subset
<1> QED BY <1>2, <1>3, FS_CardinalityType

\* RabbitMQ pushes no more than the prefetch allows, and XPENDING counts no more
\* messages than were published.
LEMMA LimitsKept ==
  ASSUME FlowOK, PcOK, AcksOK, LimitsOK, Kind, [Next]_vars
  PROVE  LimitsOK'
<1>0. client' = client /\ pos \in Nat /\ M \in Nat /\ pos <= M
  BY Bounds DEF Kind, FlowOK
<1>1. IsFiniteSet(unacked) /\ Cardinality(unacked) \in Nat /\ Cardinality(unacked) <= pos
  BY <1>0, UnackedIsFinite
<1>2. ASSUME reported' = reported, client = "rabbitmq" => unacked' = unacked
      PROVE  LimitsOK'
  BY <1>0, <1>2 DEF LimitsOK
<1>3. CASE Reports
  <2>1. client = "waiting"
    BY <1>3 DEF Reports, PcOK
  <2>2. reported' \in {reported, Cardinality(unacked)}
    BY <1>3 DEF Reports
  <2>3. Cardinality(unacked) \in -1..M
    BY <1>0, <1>1
  <2> QED BY <1>0, <2>1, <2>2, <2>3 DEF LimitsOK
<1>4. CASE RabbitPushes
  <2>1. Ids(First(1)) = {pos + 1}
    <3>1. 1 \in Nat /\ (pos + 1)..(pos + 1) = {pos + 1}
      BY <1>0
    <3> QED BY <1>0, <3>1, FirstMessages
  <2>2. unacked' = unacked \cup {pos + 1} /\ Cardinality(unacked) < Prefetch /\ reported' = reported
    BY <1>4, <2>1 DEF RabbitPushes, Deliver, consumer, ending
  <2>3. pos + 1 \notin unacked
    BY <1>0 DEF AcksOK
  <2> DEFINE x == pos + 1
             more == unacked \cup {x}
  <2> HIDE DEF x
  <2>4. Cardinality(more) = Cardinality(unacked) + 1
    <3>1. x \notin unacked
      BY <2>3 DEF x
    <3> QED BY <1>1, <3>1, FS_AddElement
  <2>5. unacked' = more
    BY <2>2 DEF x
  <2> HIDE DEF more
  <2>6. Prefetch \in Nat
    BY Bounds
  <2>7. Cardinality(unacked') <= Prefetch
    BY <1>1, <2>2, <2>4, <2>5, <2>6
  <2> QED BY <1>0, <2>2, <2>7 DEF LimitsOK
<1>5. CASE BrokerTakesAcks
  <2>1. unacked' \in SUBSET unacked /\ reported' = reported
    BY <1>5 DEF BrokerTakesAcks, consumer, ending
  <2> DEFINE less == unacked'
  <2>2. less \in SUBSET unacked
    BY <2>1
  <2> HIDE DEF less
  <2>3. IsFiniteSet(less) /\ Cardinality(less) <= Cardinality(unacked)
    BY <1>1, <2>2, FS_Subset
  <2>4. Cardinality(less) \in Nat
    BY <2>3, FS_CardinalityType
  <2>5. Cardinality(unacked') \in Nat /\ Cardinality(unacked') <= Cardinality(unacked)
    BY <2>3, <2>4 DEF less
  <2>6. Prefetch \in Nat
    BY Bounds
  <2> QED BY <1>0, <1>1, <2>1, <2>5, <2>6 DEF LimitsOK
<1>6. CASE \/ Publish \/ TimePasses \/ RedisAnswers \/ NatsDelivers \/ NatsRedelivers \/ NatsEndsRequest
           \/ RedisCloses \/ KafkaPolls \/ RedisAsks \/ RedisReads \/ WaitingReads \/ WaitingReadsNothing
  BY <1>2, <1>6 DEF Publish, TimePasses, RedisAnswers, NatsDelivers, Deliver, NatsRedelivers,
     NatsEndsRequest, RedisCloses, KafkaPolls, RedisAsks, RedisReads, WaitingReads, WaitingReadsNothing,
     consumer, ending, broker, PcOK
<1>7. CASE \/ NatsReads \/ NatsReadsStatus \/ NatsStops \/ RabbitReads \/ RabbitWaits \/ Drains \/ DrainOver
           \/ Finish \/ Ended \/ UNCHANGED vars
  BY <1>2, <1>7 DEF NatsReads, NatsReadsStatus, NatsStops, RabbitReads, RabbitWaits, Drains, DrainOver,
     Finish, Ended, vars, consumer, ending, broker
<1>8. CASE Handles
  BY <1>2, <1>8 DEF Handles, KafkaHandles, RedisHandles, WaitingHandles, NatsHandles, RabbitHandles,
     Handle,
     ending
<1> QED BY <1>3, <1>4, <1>5, <1>6, <1>7, <1>8 DEF Next, Broker, Reads

\* What RabbitMQ's consumer has not read is unacknowledged, each message once.
LEMMA UnreadIsUnacked ==
  ASSUME client = "rabbitmq", FlowOK, BroughtOK, SeenOK, OrderOK, AcksOK
  PROVE  Len(channel) <= Cardinality(unacked)
<1>1. /\ channel \in Seq(AnAnswer) /\ Len(channel) \in Nat /\ DOMAIN channel = 1..Len(channel)
      /\ IsFiniteSet(unacked) /\ Cardinality(unacked) \in Nat
  BY UnackedIsFinite DEF FlowOK
<1> DEFINE T == 1..Len(channel)
           f == [k \in T |-> Brought(k)[1].id]
<1>2. ASSUME NEW k \in DOMAIN channel
      PROVE  1 \in DOMAIN Brought(k) /\ ~Brought(k)[1].again /\ Brought(k)[1].id \in unacked
  <2>1. Brought(k) # <<>> /\ Brought(k) \in Seq(Message)
    <3>1. channel[k] \in AnAnswer
      BY <1>1
    <3> QED BY <3>1 DEF BroughtOK, Brought, AnAnswer
  <2>2. 1 \in DOMAIN Brought(k)
    BY <2>1
  <2>3. ~Brought(k)[1].again /\ Brought(k)[1].id \in 1..pos
    BY <2>2 DEF BroughtOK, MessagesOK
  <2>4. Brought(k)[1].id \notin seen
    <3>1. \A id \in seen : id < Brought(k)[1].id
      BY <2>2, <2>3 DEF OrderOK, AfterSeen
    <3> QED BY <2>3, <3>1 DEF FlowOK
  <2> QED BY <2>2, <2>3, <2>4 DEF AcksOK
<1>3. ASSUME NEW k \in DOMAIN channel, NEW l \in DOMAIN channel, k < l
      PROVE  Brought(k)[1].id # Brought(l)[1].id
  <2>1. Brought(k)[1].id < Brought(l)[1].id
    BY <1>2, <1>3 DEF OrderOK, Before
  <2>2. Brought(k)[1].id \in Nat
    <3>1. Brought(k)[1].id \in unacked /\ unacked \subseteq Nat
      BY <1>2 DEF AcksOK
    <3> QED BY <3>1
  <2> QED BY <2>1, <2>2
<1>4. f \in [T -> unacked] /\ \A k, l \in T : k # l => f[k] # f[l]
  <2>1. \A k \in T : f[k] = Brought(k)[1].id
    OBVIOUS
  <2>2. f \in [T -> unacked]
    BY <1>1, <1>2
  <2>3. ASSUME NEW k \in T, NEW l \in T, k # l
        PROVE  f[k] # f[l]
    <3>1. k < l \/ l < k
      BY <1>1, <2>3
    <3>2. k \in DOMAIN channel /\ l \in DOMAIN channel
      BY <1>1
    <3> HIDE DEF f
    <3> QED BY <1>3, <2>1, <3>1, <3>2
  <2> QED BY <2>2, <2>3
<1>5. IsFiniteSet(T) /\ Cardinality(T) = Len(channel)
  <2>1. 1 \in Int /\ Len(channel) \in Int
    BY <1>1
  <2>2. IsFiniteSet(T) /\ Cardinality(T) = IF 1 > Len(channel) THEN 0 ELSE Len(channel) - 1 + 1
    BY <2>1, FS_Interval
  <2> HIDE DEF T
  <2> QED BY <1>1, <2>2
<1> HIDE DEF f, T
<1>6. ~(Cardinality(unacked) < Cardinality(T))
  BY <1>1, <1>4, <1>5, FS_PigeonHole
<1> QED BY <1>1, <1>5, <1>6

-----------------------------------------------------------------------------
(***************************************************************************)
(* The theorems.                                                           *)
(***************************************************************************)
\* The inductive invariant.
IInv ==
  /\ FlowOK /\ PcOK /\ AskedOK /\ BroughtOK /\ SeenOK /\ OrderOK /\ KnownOK /\ AgainOK /\ RowsOK
  /\ AcksOK /\ WaitOK /\ AsksNats /\ EndOK /\ DebtOK /\ CountOK /\ LimitsOK

\* It holds at the start.
LEMMA InitIInv == ASSUME Init PROVE IInv
<1> USE Bounds DEF Init
<1>1. FlowOK /\ SeenOK
  BY EmptySeq DEF FlowOK, SeenOK
<1>8. PcOK
  BY DEF PcOK
<1>2. waiting \in Seq(Names) /\ requests = waiting /\ Len(waiting) <= Depth /\ (~Keeps => waiting = <<>>)
      /\ (Keeps => Len(waiting) = Depth /\ Distinct(waiting))
  <2>1. CASE Keeps
    <3> DEFINE w == [i \in 1..Depth |-> i]
    <3>1. w \in Seq(Names) /\ Len(w) = Depth /\ DOMAIN w = 1..Depth /\ \A i \in 1..Depth : w[i] = i
      BY DEF Names
    <3>2. waiting = w
      BY <2>1
    <3> HIDE DEF w
    <3> QED BY <2>1, <3>1, <3>2 DEF Distinct
  <2>2. CASE ~Keeps
    BY <2>2, EmptySeq
  <2> QED BY <2>1, <2>2
<1>3. AskedOK /\ WaitOK
  <2>1. Len(<<>>) = 0 /\ Len(waiting) \in Nat
    BY <1>2
  <2>2. client = "waiting" => Len(requests) + Len(channel) <= Len(waiting)
    BY <1>2, <2>1
  <2> QED BY <1>2, <2>2, ConsumersAssumption DEF AskedOK, WaitOK, Keeps
<1>4. BroughtOK /\ OrderOK /\ KnownOK /\ AgainOK
  <2>1. DOMAIN inHand = {} /\ DOMAIN channel = {} /\ Len(inHand) = 0 /\ 1..pos = {}
    OBVIOUS
  <2> HIDE DEF Init
  <2>2. BroughtOK
    BY <2>1 DEF BroughtOK, MessagesOK
  <2>3. OrderOK
    BY <2>1 DEF OrderOK, Ordered, AfterSeen
  <2> QED BY <2>1, <2>2, <2>3 DEF KnownOK, AgainOK
<1>5. RowsOK /\ AcksOK
  BY EmptySeq DEF RowsOK, AcksOK
<1>6. AsksNats
  <2>1. ASSUME client = "nats"
        PROVE  \E L \in [0..Len(channel) -> Seq(Names)] :
                 /\ L[0] = waiting /\ L[Len(channel)] = requests
                 /\ \A k \in 1..Len(channel) : Answers(L[k - 1], L[k], channel[k])
    <3> DEFINE L == [k \in 0..0 |-> waiting]
    <3>1. L \in [0..0 -> Seq(Names)] /\ L[0] = waiting /\ requests = waiting /\ Len(channel) = 0 /\ 1..0 = {}
      BY <1>2
    <3> HIDE DEF L
    <3> QED BY <3>1
  <2>2. client = "nats" => Len(requests) + Len(channel) = Depth
    <3>1. Len(channel) = 0
      OBVIOUS
    <3> QED BY <1>2, <3>1 DEF Keeps
  <2> QED BY <1>2, <2>1, <2>2 DEF AsksNats, ListsOK, Keeps
<1>7. EndOK /\ DebtOK
  BY DEF EndOK, DebtOK
<1>9. CountOK /\ LimitsOK
  <2>1. Cardinality({}) = 0 /\ Len(<<>>) = 0
    BY FS_EmptySet
  <2>2. AgainPlaces = {}
    BY DEF AgainPlaces
  <2>3. seen = {} /\ unacked = {} /\ held = {} /\ acks = <<>> /\ inHand = <<>> /\ again = 0 /\ reported = -1
    OBVIOUS
  <2>4. One(held # {}) = 0 /\ One(inHand # <<>> /\ inHand[1].again) = 0
    BY <2>3 DEF One
  <2> HIDE DEF Init
  <2> QED BY <2>1, <2>2, <2>3, <2>4 DEF CountOK, LimitsOK
<1> QED BY <1>1, <1>3, <1>4, <1>5, <1>6, <1>7, <1>8, <1>9 DEF IInv

\* Every step keeps it.
LEMMA NextIInv == ASSUME IInv, [Next]_vars PROVE IInv'
<1> USE DEF IInv
<1>1. unacked \subseteq 1..pos
  BY DEF AcksOK
<1>2. Kind
  BY <1>1, Kinds
<1>3. FlowOK' /\ PcOK' /\ BroughtOK' /\ SeenOK'
  BY <1>1, <1>2, FlowKept, PcKept, BroughtKept
<1>4. OrderOK' /\ KnownOK' /\ AgainOK' /\ RowsOK'
  BY <1>2, OrderKept, KnownKept, AgainKept, RowsKept
<1>5. AcksOK' /\ EndOK' /\ DebtOK'
  BY <1>2, AcksKept, EndKept, DebtKept
<1>7. CountOK' /\ LimitsOK'
  <2>1. CASE client = "nats"
    BY <1>2, <2>1, CountNats, LimitsKept
  <2>2. CASE client # "nats"
    BY <1>2, <2>2, CountOthers, LimitsKept
  <2> QED BY <2>1, <2>2
<1>6. AskedOK' /\ WaitOK' /\ AsksNats'
  <2>1. client' = client /\ client \in Clients /\ channel \in Seq(AnAnswer)
    BY <1>2 DEF Kind, FlowOK
  <2>2. CASE client = "nats"
    <3>1. AsksNats' /\ AskedOK'
      BY <1>1, <2>2, NatsAsks
    <3>2. WaitOK'
      BY <2>1, <2>2, <3>1, Bounds DEF AsksNats, ListsOK, WaitOK
    <3> QED BY <3>1, <3>2
  <2>3. CASE client # "nats"
    <3>1. WaitOK' /\ AskedOK'
      BY <2>1, <2>3, OthersAsk
    <3>2. AsksNats'
      BY <2>1, <2>3 DEF AsksNats, ListsOK
    <3> QED BY <3>1, <3>2
  <2> QED BY <2>2, <2>3
<1> QED BY <1>3, <1>4, <1>5, <1>6, <1>7

\* It holds throughout a trial.
THEOREM Holds == Spec => []IInv
<1>1. Init => IInv
  BY InitIInv
<1>2. IInv /\ [Next]_vars => IInv'
  BY NextIInv
<1> QED BY <1>1, <1>2, PTL DEF Spec

\* Types and bounds: no more than --depth requests wait, no more than --count
\* messages are in hand, and what is on its way is bounded by --depth and --prefetch.
THEOREM TypesHold == Spec => []TypeOK
<1>1. ASSUME IInv
      PROVE  TypeOK
  <2> USE <1>1, Bounds DEF IInv
  <2>1. /\ client \in Clients
        /\ pc \in {"read", "wait", "handle", "drain", "finish", "owed", "ended", "error"}
        /\ pos <= out /\ out <= M /\ again <= MaxAgain /\ rows \in Seq(Own)
        /\ seen \subseteq 1..pos /\ held \subseteq seen /\ unacked \subseteq 1..pos /\ reported \in -1..M
    BY DEF FlowOK, PcOK, SeenOK, AcksOK, CountOK, LimitsOK
  <2>2. Len(waiting) <= Depth /\ ToSet(requests) \subseteq 1..(Depth + 1)
    BY DEF WaitOK, AskedOK, Names, ToSet
  <2>3. Len(inHand) <= Count /\ inHand \in Seq([id : 1..pos, again : BOOLEAN])
    <3>1. /\ inHand \in Seq(Message) /\ Len(inHand) \in Nat /\ DOMAIN inHand = 1..Len(inHand)
          /\ Len(inHand) <= Count
      BY DEF FlowOK, BroughtOK, MessagesOK
    <3> DEFINE S == [id : 1..pos, again : BOOLEAN]
    <3>2. \A i \in 1..Len(inHand) : inHand[i] \in S
      <4>1. \A m \in Message : m.id \in 1..pos => m \in S
        BY DEF Message
      <4>2. \A i \in 1..Len(inHand) : inHand[i] \in Message /\ inHand[i].id \in 1..pos
        BY <3>1 DEF BroughtOK, MessagesOK
      <4> QED BY <4>1, <4>2
    <3> HIDE DEF S
    <3>3. inHand \in Seq(S)
      BY <3>1, <3>2
    <3> QED BY <3>1, <3>3 DEF S
  <2>4. Len(channel) <= Depth + Prefetch
    <3>1. Len(channel) \in Nat /\ Len(requests) \in Nat /\ Len(waiting) \in Nat
      BY DEF FlowOK, AskedOK
    <3>2. CASE client = "waiting"
      BY <3>1, <3>2 DEF WaitOK
    <3>3. CASE client = "nats"
      BY <3>1, <3>3 DEF AsksNats, ListsOK
    <3>4. CASE client = "redis"
      <4>1. Len(channel) <= 1
        <5>1. Len(<<>>) = 0
          OBVIOUS
        <5> QED BY <3>1, <3>4, <5>1 DEF WaitOK
      <4> QED BY <3>1, <4>1
    <3>5. CASE client = "kafka"
      <4>1. Len(channel) = 0
        BY <3>5 DEF PcOK
      <4> QED BY <4>1
    <3>6. CASE client = "rabbitmq"
      <4>1. Len(channel) <= Cardinality(unacked) /\ Cardinality(unacked) <= Prefetch
        BY <3>6, UnreadIsUnacked DEF LimitsOK
      <4>2. Cardinality(unacked) \in Nat
        BY UnackedIsFinite DEF FlowOK
      <4> QED BY <3>1, <4>1, <4>2
    <3> QED BY <2>1, <3>2, <3>3, <3>4, <3>5, <3>6, ConsumersAssumption
  <2>5. Len(acks) <= M + MaxAgain
    <3>1. /\ Len(acks) \in Nat /\ Cardinality(seen) \in Nat /\ Cardinality(seen) <= pos
          /\ pos <= M /\ pos \in Nat /\ again \in Nat /\ again <= MaxAgain
      BY SeenIsFinite DEF FlowOK, AcksOK, CountOK
    <3>2. CASE client # "nats"
      <4>1. One(held # {}) \in {0, 1} /\ Len(acks) + One(held # {}) <= Cardinality(seen)
        BY <3>2 DEF One, CountOK
      <4> QED BY <3>1, <4>1
    <3>3. CASE client = "nats"
      <4> DEFINE hand == One(inHand # <<>> /\ inHand[1].again)
                 places == Cardinality(AgainPlaces)
      <4>1. hand \in {0, 1} /\ Len(acks) + hand + places <= Cardinality(seen) + again
        BY <3>3 DEF One, CountOK
      <4>2. places \in Nat
        BY PlacesAreFinite DEF FlowOK
      <4> HIDE DEF hand, places
      <4> QED BY <3>1, <4>1, <4>2
    <3> QED BY <3>2, <3>3
  <2> QED BY <2>1, <2>2, <2>3, <2>4, <2>5 DEF TypeOK
<1>2. IInv => TypeOK
  BY <1>1
<1> QED BY <1>2, Holds, PTL

\* A message of this run that the broker no longer holds for the consumer, because
\* it was acknowledged, committed or covered by a later tag, has its row written.
THEOREM AcksWhatIsWritten == Spec => []AckedIsWritten
<1>1. IInv => AckedIsWritten
  BY DEF IInv, AcksOK, RowsOK, AckedIsWritten, ToSet
<1> QED BY <1>1, Holds, PTL

\* Rows come in the stream's order and none comes twice, whatever NATS delivers
\* again: the row of a message is written for its first delivery only.
THEOREM WritesOnce == Spec => []WrittenOnce
<1>1. IInv => WrittenOnce
  BY DEF IInv, RowsOK, WrittenOnce
<1> QED BY <1>1, Holds, PTL

\* Redis's consumers end with a row for every message of their run that was
\* delivered to them: the waiting one drains what the broker answers after the
\* idle stop, unless the broker does not close the connection in time.
THEOREM WritesWhatIsDelivered == Spec => []DeliveredIsWritten
<1>1. ASSUME IInv, client \in {"redis", "waiting"}, pc = "ended", ~abandoned
      PROVE  Own \cap 1..pos \subseteq ToSet(rows)
  <2>1. inHand = <<>> /\ channel = <<>>
    BY <1>1 DEF IInv, PcOK, WaitOK, EndOK
  <2>2. 1..pos \subseteq seen
    BY <1>1, <2>1, EmptySeq DEF IInv, KnownOK, Brings
  <2> QED BY <1>1, <2>2 DEF IInv, RowsOK, ToSet
<1>2. IInv => DeliveredIsWritten
  BY <1>1 DEF DeliveredIsWritten
<1> QED BY <1>2, Holds, PTL

\* NATS's consumer finds the request that a status names among those that it takes
\* to be waiting: though a message does not say which request it answers, taking
\* the oldest for answered never leaves out one that a status names later.
THEOREM MistakesNoStatus == Spec => []NeverMistaken
<1>1. IInv => NeverMistaken
  BY ConsumersAssumption DEF IInv, FlowOK, AsksNats, PcOK, NeverMistaken
<1> QED BY <1>1, Holds, PTL

\* XPENDING at the end of the waiting consumer counts what was delivered and never
\* handled: every acknowledgement it owed has been taken by then.
THEOREM ReportsWhatIsUnread == Spec => PendingIsUnread
<1>1. ASSUME IInv, [Next]_vars, reported' # reported
      PROVE  reported' = Cardinality((1..pos) \ seen)
  <2>1. Reports /\ acks = <<>> /\ reported' = Cardinality(unacked)
    BY <1>1 DEF Next, Broker, Reads, Handles, vars, consumer, ending, broker, stream, Publish,
       TimePasses,
       RedisAnswers, NatsDelivers, RabbitPushes, Deliver, NatsRedelivers, NatsEndsRequest, RedisCloses,
       BrokerTakesAcks, KafkaPolls, RedisAsks, RedisReads, WaitingReads, WaitingReadsNothing, NatsReads,
       NatsReadsStatus, NatsStops, RabbitReads, RabbitWaits, Drains, DrainOver, Finish, Reports, Ended,
       KafkaHandles, RedisHandles, WaitingHandles, NatsHandles, RabbitHandles, Handle
  <2>2. pc = "owed" /\ client = "waiting"
    BY <1>1, <2>1 DEF Reports, IInv, PcOK
  <2>3. held = {} /\ DOMAIN acks = {}
    BY <1>1, <2>1, <2>2, EmptySeq DEF IInv, EndOK
  <2>4. unacked = (1..pos) \ seen
    BY <1>1, <2>2, <2>3 DEF IInv, DebtOK, AcksOK
  <2> QED BY <2>1, <2>4
<1>2. IInv /\ [Next]_vars => [reported' # reported => reported' = Cardinality((1..pos) \ seen)]_vars
  BY <1>1
<1> QED BY <1>2, Holds, PTL DEF Spec, PendingIsUnread

=============================================================================
