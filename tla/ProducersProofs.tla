--------------------------- MODULE ProducersProofs ---------------------------
(***************************************************************************)
(* What Producers promises, for every producer it models, every plan, every *)
(* choice of corrections, every window and any number of answers on their  *)
(* way.                                                                    *)
(***************************************************************************)
EXTENDS Producers, FiniteSetTheorems, WellFoundedInduction, SequenceTheorems, TLAPS

\* The constants, one by one.
LEMMA Bounds ==
  /\ Clients \subseteq {"kafka", "redis", "nats", "rabbitmq"}
  /\ N \in Nat \ {0} /\ Every \in Nat /\ Window \in Nat \ {0} /\ MaxAnswers \in Nat
BY ProducersAssumption

\* The messages of the plan, their corrections, and both.
LEMMA BaseFacts ==
  /\ \A i \in 1..N : Base(i) \in Messages
  /\ \A i : Base(i).of = i /\ Base(i).rev = 1
<1>1. \A i : Base(i).of = i /\ Base(i).rev = 1
  BY DEF Base
<1>2. \A i \in 1..N : Base(i) \in Messages
  <2>1. DOMAIN Plan = 1..N /\ \A i \in 1..N : Plan[i] = Base(i)
    BY DEF Plan
  <2> QED BY <2>1 DEF Messages, ToSet
<1> QED BY <1>1, <1>2

LEMMA CorrectionFacts ==
  /\ \A i \in 1..N : Corrects(i) => Correction(i) \in Corrected
  /\ \A i : Correction(i).of = i /\ Correction(i).rev = 2
  /\ Corrected \subseteq Messages
  /\ \A m \in Corrected : m.of \in 1..N /\ Corrects(m.of) /\ m.rev = 2
  /\ \A m, o \in Corrected : m.of = o.of => m = o
  /\ client = "rabbitmq" => Corrected = {}
BY DEF Corrected, Correction, Messages, Corrects

LEMMA MessageFacts ==
  /\ \A m \in Messages : m.of \in 1..N /\ (m.rev = 1 => m = Base(m.of)) /\ (m.rev # 1 => m \in Corrected)
  /\ client = "rabbitmq" => \A m \in Messages : m = Base(m.of) /\ m.rev = 1
<1>1. ASSUME NEW m \in ToSet(Plan)
      PROVE  m.of \in 1..N /\ m = Base(m.of) /\ m.rev = 1
  <2>1. PICK i \in DOMAIN Plan : m = Plan[i]
    BY DEF ToSet
  <2>2. i \in 1..N /\ m = Base(i)
    BY <2>1 DEF Plan
  <2> QED BY <2>2, BaseFacts
<1> QED BY <1>1, CorrectionFacts DEF Messages

\* A producer stays what it is, and so does what it has to send.
LEMMA SameMessages ==
  ASSUME client' = client
  PROVE  /\ Messages' = Messages /\ Corrected' = Corrected
         /\ \A i : Corrects(i)' = Corrects(i)
BY DEF Messages, Corrected, Corrects

-----------------------------------------------------------------------------
(***************************************************************************)
(* Where the main loop is, what is due, and what the correction thread has *)
(* in hand.                                                                *)
(***************************************************************************)
\* The steps of each producer's main loop; past the plan's end next is N + 1.
Pcs == {"send", "sent", "write", "futures", "pool", "noMore", "join", "flush", "corrections", "answers",
        "ok", "failed"}
PlaceOK ==
  /\ client \in Clients /\ pc \in Pcs
  /\ next \in 1..(N + 1)
  /\ pc \in {"sent", "write"} => next <= N
  /\ pc \notin {"send", "sent", "write", "failed"} => next = N + 1
  /\ client = "kafka" => pc \in {"send", "sent", "futures", "noMore", "join", "flush", "ok", "failed"}
  /\ client = "redis" => pc \in {"send", "pool", "noMore", "join", "corrections", "ok", "failed"} /\ ~broken
  /\ client = "nats" => pc \in {"send", "write", "noMore", "join", "answers", "ok", "failed"}
  /\ client = "rabbitmq" => pc \in {"send", "answers", "ok", "failed"}
  /\ broken \in BOOLEAN

\* Corrections are due in the plan's order, each after its message.
DueOK ==
  /\ due \in Seq(Corrected)
  /\ \A i, j \in DOMAIN due : i < j => due[i].of < due[j].of
  /\ \A i \in DOMAIN due : due[i].of < next

\* The correction in hand, if there is one, comes before those that are due.
HandOK ==
  /\ inHand \subseteq Corrected
  /\ worker \in {"look", "asleep", "sending", "waiting", "gone"}
  /\ worker \notin {"sending", "waiting"} => inHand = {}
  /\ \A m, o \in inHand : m = o
  /\ \A m \in inHand : m.of < next /\ \A i \in DOMAIN due : m.of < due[i].of

\* Every step leaves the main loop where it can be.
LEMMA PlaceKept ==
  ASSUME PlaceOK, [Next]_vars
  PROVE  PlaceOK' /\ client' = client
<1> USE Bounds DEF PlaceOK, Pcs
<1>0. client' = client
  BY DEF Next, Main, Worker, vars, KafkaSend, KafkaGoOn, KafkaGot, KafkaGetRaises, RedisSubmit, NatsRegister,
     NatsWrite, RabbitPublish, WriteRaises, PlanEnds, KafkaGotLast, KafkaGotAll, RedisDrained, SayNoMore, Join,
     KafkaFlushed, RedisWrites, AnswersShort, AnswersIn, WorkerSleeps, WorkerReturns, WorkerTakes,
     WorkerSends, NatsWorkerWriteRaises, WorkerKeepsRow, RedisWorkerNotes, KafkaWorkerDies, RedisWorkerSends,
     Answered, BrokerAnswers, ReadAnswer, ConnectionFails, Ended
<1>1. CASE KafkaSend \/ KafkaGoOn \/ KafkaGot \/ KafkaGetRaises \/ RedisSubmit \/ NatsRegister \/ NatsWrite
           \/ RabbitPublish \/ WriteRaises
  BY <1>0, <1>1 DEF KafkaSend, KafkaGoOn, KafkaGot, KafkaGetRaises, RedisSubmit, NatsRegister, NatsWrite,
     RabbitPublish, WriteRaises, Go, RowDone, broker, Running
<1>2. CASE PlanEnds
  <2>1. next' = next /\ next = N + 1 /\ broken' = broken /\ pc = "send"
    BY <1>2 DEF PlanEnds, Go, broker
  <2>2. client \in {"kafka", "redis", "nats", "rabbitmq"}
    OBVIOUS
  <2>3. pc' = CASE client = "kafka" -> "futures" [] client = "redis" -> "pool"
                [] client = "nats" -> "noMore"   [] client = "rabbitmq" -> "answers"
    BY <1>2 DEF PlanEnds, Go
  <2> QED BY <1>0, <2>1, <2>2, <2>3
<1>3. CASE Join
  <2>1. next' = next /\ broken' = broken /\ pc = "join"
    BY <1>3 DEF Join, Go, broker
  <2>2. client \in {"kafka", "redis", "nats"}
    BY <2>1
  <2>3. pc' = CASE client = "kafka" -> "flush" [] client = "redis" -> "corrections" [] client = "nats" -> "answers"
    BY <1>3 DEF Join, Go
  <2> QED BY <1>0, <2>1, <2>2, <2>3
<1>4. CASE KafkaGotLast \/ KafkaGotAll \/ RedisDrained \/ SayNoMore \/ KafkaFlushed \/ RedisWrites
           \/ AnswersShort \/ AnswersIn
  BY <1>0, <1>4 DEF KafkaGotLast, KafkaGotAll, RedisDrained, SayNoMore, KafkaFlushed, RedisWrites,
     AnswersShort, AnswersIn, Go, broker
<1>5. CASE Worker
  BY <1>0, <1>5 DEF Worker, WorkerSleeps, WorkerReturns, WorkerTakes, WorkerSends, NatsWorkerWriteRaises,
     WorkerKeepsRow, RedisWorkerNotes, KafkaWorkerDies, main, broker
<1>6. CASE RedisWorkerSends \/ Answered \/ BrokerAnswers \/ ReadAnswer
  <2>1. UNCHANGED <<next, pc, broken>>
    BY <1>6 DEF RedisWorkerSends, Answered, BrokerAnswers, ReadAnswer, main
  <2> QED BY <1>0, <2>1
<1>7. CASE ConnectionFails
  <2>1. UNCHANGED <<next, pc>> /\ broken' = TRUE /\ client \in {"nats", "rabbitmq"}
    BY <1>7 DEF ConnectionFails, main
  <2> QED BY <1>0, <2>1
<1>8. CASE Ended \/ UNCHANGED vars
  <2>1. UNCHANGED <<next, pc, broken>>
    BY <1>8 DEF Ended, vars, main, broker
  <2> QED BY <1>0, <2>1
<1> QED BY <1>0, <1>1, <1>2, <1>3, <1>4, <1>5, <1>6, <1>7, <1>8 DEF Next, Main

\* The correction of the next row comes last.
LEMMA OneMoreDue ==
  ASSUME DueOK, HandOK, NEW c \in Corrected, c.of = next, next \in Nat
  PROVE  /\ Append(due, c) \in Seq(Corrected)
         /\ \A i, j \in DOMAIN Append(due, c) : i < j => Append(due, c)[i].of < Append(due, c)[j].of
         /\ \A i \in DOMAIN Append(due, c) : Append(due, c)[i].of < next + 1
         /\ \A m \in inHand, i \in DOMAIN Append(due, c) : m.of < Append(due, c)[i].of
         /\ ToSet(Append(due, c)) = ToSet(due) \cup {c}
<1> DEFINE d == Append(due, c)
<1>1. /\ d \in Seq(Corrected) /\ Len(due) \in Nat /\ DOMAIN due = 1..Len(due)
      /\ DOMAIN d = 1..(Len(due) + 1)
      /\ \A i \in 1..Len(due) : d[i] = due[i]
      /\ d[Len(due) + 1] = c
  BY DEF DueOK
<1> HIDE DEF d
<1>2. \A i \in DOMAIN d : i \in DOMAIN due \/ (i = Len(due) + 1 /\ d[i] = c)
  BY <1>1
<1>3. \A i \in DOMAIN due : due[i] \in Corrected /\ due[i].of \in Nat /\ due[i].of < next /\ d[i] = due[i]
  BY <1>1, CorrectionFacts DEF DueOK
<1>4. ASSUME NEW i \in DOMAIN d, NEW j \in DOMAIN d, i < j
      PROVE  d[i].of < d[j].of
  <2>1. CASE j \in DOMAIN due
    <3>1. i \in DOMAIN due
      BY <1>1, <1>4, <2>1
    <3> QED BY <1>3, <1>4, <2>1, <3>1 DEF DueOK
  <2>2. CASE j = Len(due) + 1 /\ d[j] = c
    <3>1. i \in DOMAIN due
      BY <1>1, <1>4, <2>2
    <3> QED BY <1>3, <2>2, <3>1
  <2> QED BY <1>2, <2>1, <2>2
<1>5. \A i \in DOMAIN d : d[i].of < next + 1
  BY <1>2, <1>3
<1>6. \A m \in inHand, i \in DOMAIN d : m.of < d[i].of
  BY <1>2, <1>3 DEF HandOK
<1>7. ToSet(d) = ToSet(due) \cup {c}
  <2>1. ToSet(d) \subseteq ToSet(due) \cup {c}
    BY <1>2, <1>3 DEF ToSet
  <2>2. \A i \in DOMAIN due : i \in DOMAIN d /\ d[i] = due[i]
    BY <1>1
  <2>3. Len(due) + 1 \in DOMAIN d
    BY <1>1
  <2> QED BY <1>1, <2>1, <2>2, <2>3 DEF ToSet
<1> QED BY <1>1, <1>4, <1>5, <1>6, <1>7 DEF d

\* A row is done: the heap may hold one more.
LEMMA RowIsDone ==
  ASSUME PlaceOK, DueOK, HandOK, RowDone, client' = client, next <= N
  PROVE  /\ DueOK' /\ HandOK' /\ next' = next + 1
         /\ \A m \in ToSet(due') : m \in ToSet(due) \/ m.of = next
         /\ inHand' = inHand /\ worker' \in {worker, "look"} /\ (worker = "sending" <=> worker' = "sending")
<1>0. next \in Nat \ {0} /\ next' = next + 1 /\ inHand' = inHand /\ Corrected' = Corrected
  BY Bounds, SameMessages DEF PlaceOK, RowDone
<1>1. worker' \in {worker, "look"} /\ (worker' # worker => worker = "asleep")
  BY DEF RowDone, Notify
<1>2. CASE Corrects(next)
  <2> DEFINE c == Correction(next)
  <2>1. next \in 1..N
    BY <1>0, Bounds
  <2>2. c \in Corrected /\ c.of = next
    BY <1>2, <2>1, CorrectionFacts
  <2>3. due' = Append(due, c)
    BY <1>2 DEF RowDone
  <2> HIDE DEF c
  <2>4. /\ Append(due, c) \in Seq(Corrected)
        /\ \A i, j \in DOMAIN Append(due, c) : i < j => Append(due, c)[i].of < Append(due, c)[j].of
        /\ \A i \in DOMAIN Append(due, c) : Append(due, c)[i].of < next + 1
        /\ \A m \in inHand, i \in DOMAIN Append(due, c) : m.of < Append(due, c)[i].of
        /\ ToSet(Append(due, c)) = ToSet(due) \cup {c}
    BY <1>0, <2>2, OneMoreDue
  <2>5. DueOK'
    BY <1>0, <2>3, <2>4 DEF DueOK
  <2>6. HandOK'
    <3>1. \A m \in inHand : m.of < next + 1
      BY <1>0, CorrectionFacts DEF HandOK
    <3> QED BY <1>0, <1>1, <2>3, <2>4, <3>1 DEF HandOK
  <2> QED BY <1>0, <1>1, <2>2, <2>3, <2>4, <2>5, <2>6
<1>3. CASE ~Corrects(next)
  <2>1. due' = due /\ worker' = worker
    BY <1>3 DEF RowDone
  <2>2. DueOK'
    <3>1. \A i \in DOMAIN due : due[i].of < next + 1
      BY <1>0, CorrectionFacts DEF DueOK
    <3> QED BY <1>0, <2>1, <3>1 DEF DueOK
  <2>3. HandOK'
    <3>1. \A m \in inHand : m.of < next + 1
      BY <1>0, CorrectionFacts DEF HandOK
    <3> QED BY <1>0, <2>1, <3>1 DEF HandOK
  <2> QED BY <1>0, <1>1, <2>1, <2>2, <2>3
<1> QED BY <1>2, <1>3

\* Every step keeps the corrections in order.
LEMMA DueKept ==
  ASSUME PlaceOK, DueOK, HandOK, [Next]_vars
  PROVE  DueOK' /\ HandOK'
<1>0. client' = client /\ Corrected' = Corrected /\ next \in Nat
  BY PlaceKept, SameMessages DEF PlaceOK
<1>1. ASSUME UNCHANGED <<due, next, inHand>>, worker' \in {"look", "asleep", "gone"} => inHand = {},
             worker' \in {"look", "asleep", "sending", "waiting", "gone"}
      PROVE  DueOK' /\ HandOK'
  BY <1>0, <1>1 DEF DueOK, HandOK
<1>2. ASSUME UNCHANGED <<due, next>>, inHand' = {}, worker' \in {"look", "asleep", "gone"}
      PROVE  DueOK' /\ HandOK'
  BY <1>0, <1>2 DEF DueOK, HandOK
<1>3. ASSUME UNCHANGED <<due, next, inHand, worker>>
      PROVE  DueOK' /\ HandOK'
  BY <1>0, <1>3 DEF DueOK, HandOK
<1>4. CASE KafkaGoOn \/ KafkaGot \/ RedisSubmit \/ NatsWrite \/ RabbitPublish
  <2>1. RowDone /\ next <= N
    BY <1>4 DEF KafkaGoOn, KafkaGot, RedisSubmit, NatsWrite, RabbitPublish, Go, PlaceOK
  <2> QED BY <1>0, <2>1, RowIsDone
<1>5. CASE WorkerTakes
  <2>1. /\ Tail(due) \in Seq(Corrected) /\ Len(due) \in Nat \ {0} /\ DOMAIN due = 1..Len(due)
        /\ DOMAIN Tail(due) = 1..(Len(due) - 1)
        /\ \A i \in 1..(Len(due) - 1) : Tail(due)[i] = due[i + 1]
        /\ Head(due) = due[1] /\ due[1] \in Corrected
    BY <1>5 DEF WorkerTakes, DueOK
  <2>2. due' = Tail(due) /\ inHand' = {due[1]} /\ next' = next /\ worker' = "sending"
    BY <1>5, <2>1 DEF WorkerTakes, Works, main
  <2>3. \A i \in DOMAIN due' : due'[i] = due[i + 1] /\ i + 1 \in DOMAIN due /\ 1 < i + 1
    BY <2>1, <2>2
  <2>4. 1 \in DOMAIN due
    BY <2>1
  <2>5. \A i, j \in DOMAIN due' : i < j => i + 1 < j + 1
    BY <2>1, <2>2
  <2>6. DueOK'
    BY <1>0, <2>1, <2>2, <2>3, <2>5 DEF DueOK
  <2>7. HandOK'
    BY <1>0, <2>1, <2>2, <2>3, <2>4 DEF DueOK, HandOK
  <2> QED BY <2>6, <2>7
<1>6. CASE WorkerSends
  BY <1>1, <1>2, <1>6 DEF WorkerSends, Works, main
<1>7. CASE NatsWorkerWriteRaises \/ WorkerKeepsRow \/ RedisWorkerNotes \/ KafkaWorkerDies
  BY <1>2, <1>7 DEF NatsWorkerWriteRaises, WorkerKeepsRow, RedisWorkerNotes, KafkaWorkerDies, Works, main
<1>8. CASE WorkerSleeps \/ WorkerReturns
  BY <1>1, <1>8 DEF WorkerSleeps, WorkerReturns, Works, main, HandOK
<1>9. CASE SayNoMore
  <2>1. UNCHANGED <<due, next, inHand>> /\ worker' \in {worker, "look"} /\ (worker' # worker => worker = "asleep")
    BY <1>9 DEF SayNoMore, Notify
  <2> QED BY <1>1, <2>1 DEF HandOK
<1>10. CASE KafkaSend \/ KafkaGetRaises \/ NatsRegister \/ WriteRaises \/ PlanEnds \/ KafkaGotLast \/ KafkaGotAll
            \/ RedisDrained \/ Join \/ KafkaFlushed \/ RedisWrites \/ AnswersShort \/ AnswersIn
  BY <1>3, <1>10 DEF KafkaSend, KafkaGetRaises, NatsRegister, WriteRaises, PlanEnds, KafkaGotLast, KafkaGotAll,
     RedisDrained, Join, KafkaFlushed, RedisWrites, AnswersShort, AnswersIn, corrections
<1>11. CASE RedisWorkerSends \/ Answered \/ BrokerAnswers \/ ReadAnswer \/ ConnectionFails \/ Ended
            \/ UNCHANGED vars
  <2>1. UNCHANGED <<main, corrections>>
    BY <1>11 DEF RedisWorkerSends, Answered, BrokerAnswers, ReadAnswer, ConnectionFails, Ended, vars
  <2> QED BY <1>3, <2>1 DEF main, corrections
<1> QED BY <1>4, <1>5, <1>6, <1>7, <1>8, <1>9, <1>10, <1>11 DEF Next, Main, Worker

-----------------------------------------------------------------------------
(***************************************************************************)
(* What has been sent, and the kinds of step there are.                    *)
(***************************************************************************)
\* The message has been written to a socket, or handed to the pool.
Sent(m) ==
  IF m.rev = 1 THEN m.of < next \/ (m.of = next /\ pc \in {"sent", "failed"})
  ELSE m.of < next /\ m \notin ToSet(due) /\ ~(worker = "sending" /\ m \in inHand)

\* What has been sent has been sent.
LEMMA SentStays ==
  ASSUME PlaceOK, DueOK, HandOK, [Next]_vars, NEW m \in Messages, Sent(m)
  PROVE  Sent(m)'
<1>0. next \in Nat /\ m.of \in Nat /\ (m.rev # 1 => m \in Corrected) /\ next <= N + 1
  BY MessageFacts, Bounds DEF PlaceOK
<1>1. CASE KafkaGoOn \/ KafkaGot \/ RedisSubmit \/ NatsWrite \/ RabbitPublish
  <2>1. RowDone /\ next <= N /\ client' = client
    BY <1>1, PlaceKept DEF KafkaGoOn, KafkaGot, RedisSubmit, NatsWrite, RabbitPublish, Go, PlaceOK
  <2>2. /\ next' = next + 1
        /\ \A o \in ToSet(due') : o \in ToSet(due) \/ o.of = next
        /\ inHand' = inHand /\ (worker = "sending" <=> worker' = "sending")
    BY <2>1, RowIsDone
  <2> QED BY <1>0, <2>2 DEF Sent
<1>2. CASE WorkerTakes
  <2>1. next' = next /\ pc' = pc /\ due' = Tail(due) /\ inHand' = {Head(due)}
    BY <1>2 DEF WorkerTakes, main
  <2>2. ToSet(Tail(due)) \subseteq ToSet(due) /\ Head(due) \in ToSet(due)
    <3>1. /\ Len(due) \in Nat \ {0} /\ DOMAIN due = 1..Len(due) /\ Head(due) = due[1]
          /\ DOMAIN Tail(due) = 1..(Len(due) - 1) /\ \A i \in 1..(Len(due) - 1) : Tail(due)[i] = due[i + 1]
      BY <1>2 DEF WorkerTakes, DueOK
    <3>2. \A i \in DOMAIN Tail(due) : i + 1 \in DOMAIN due /\ Tail(due)[i] = due[i + 1]
      BY <3>1
    <3>3. 1 \in DOMAIN due
      BY <3>1
    <3> QED BY <3>1, <3>2, <3>3 DEF ToSet
  <2> QED BY <1>0, <2>1, <2>2 DEF Sent
<1>3. CASE Worker /\ ~WorkerTakes
  <2>1. UNCHANGED <<next, pc, due>> /\ inHand' \subseteq inHand /\ (worker' = "sending" => worker = "sending")
    BY <1>3 DEF Worker, WorkerSleeps, WorkerReturns, WorkerSends, NatsWorkerWriteRaises, WorkerKeepsRow,
       RedisWorkerNotes, KafkaWorkerDies, main, Works
  <2> QED BY <2>1 DEF Sent
<1>4. ASSUME UNCHANGED <<next, due, inHand>>, worker' = "sending" => worker = "sending",
             pc \in {"sent", "failed"} => pc' \in {"sent", "failed"}
      PROVE  Sent(m)'
  BY <1>4 DEF Sent
<1>5. CASE KafkaSend \/ KafkaGetRaises \/ NatsRegister \/ WriteRaises \/ PlanEnds \/ KafkaGotLast \/ KafkaGotAll
           \/ RedisDrained \/ Join \/ KafkaFlushed \/ RedisWrites \/ AnswersShort \/ AnswersIn
  <2>1. UNCHANGED <<next, due, inHand, worker>>
    BY <1>5 DEF KafkaSend, KafkaGetRaises, NatsRegister, WriteRaises, PlanEnds, KafkaGotLast, KafkaGotAll,
       RedisDrained, Join, KafkaFlushed, RedisWrites, AnswersShort, AnswersIn, corrections
  <2>2. pc \in {"sent", "failed"} => pc' \in {"sent", "failed"}
    BY <1>5 DEF KafkaSend, KafkaGetRaises, NatsRegister, WriteRaises, PlanEnds, KafkaGotLast, KafkaGotAll,
       RedisDrained, Join, KafkaFlushed, RedisWrites, AnswersShort, AnswersIn, Go, Running
  <2> QED BY <1>4, <2>1, <2>2
<1>6. CASE SayNoMore
  BY <1>4, <1>6 DEF SayNoMore, Notify, Go
<1>7. CASE RedisWorkerSends \/ Answered \/ BrokerAnswers \/ ReadAnswer \/ ConnectionFails \/ Ended
            \/ UNCHANGED vars
  <2>1. UNCHANGED <<main, corrections>>
    BY <1>7 DEF RedisWorkerSends, Answered, BrokerAnswers, ReadAnswer, ConnectionFails, Ended, vars
  <2> QED BY <1>4, <2>1 DEF main, corrections
<1> QED BY <1>1, <1>2, <1>3, <1>5, <1>6, <1>7 DEF Next, Main

\* The steps by what they do to the account and the broker: nothing, ...
Quiet == UNCHANGED <<wire, pool, answers, said, acked, errors, waiting, lowest>>
\* ... or some messages are sent, by this step or another ...
Starting(X) == X \subseteq Messages /\ \A m \in X : ~Sent(m) /\ Sent(m)'
Sends(X) ==
  /\ client # "rabbitmq" /\ Starting(X) /\ wire' = wire \cup X
  /\ UNCHANGED <<pool, answers, said, acked, errors, waiting, lowest>>
Publishes(X) ==
  /\ client = "rabbitmq" /\ Starting(X) /\ X = {Base(next)} /\ next' = next + 1
  /\ wire' = wire \cup X /\ waiting' = waiting \cup X
  /\ UNCHANGED <<pool, answers, said, acked, errors, lowest>>
Submits(X) ==
  /\ client = "redis" /\ Starting(X) /\ pool' = pool \cup X
  /\ UNCHANGED <<wire, answers, said, acked, errors, waiting, lowest>>
Registers(X) ==
  /\ client = "nats" /\ X \subseteq Messages /\ \A m \in X : ~Sent(m)
  /\ waiting' = waiting \cup X
  /\ UNCHANGED <<wire, pool, answers, said, acked, errors, lowest>>
\* ... or known to have failed: the connection has, or the broker has refused them.
Fails(X) ==
  /\ X \subseteq Messages /\ errors' = errors \cup X
  /\ (broken /\ Starting(X)) \/ \A m \in X : said[m] = "no"
  /\ UNCHANGED <<wire, pool, answers, said, acked, waiting, lowest>>

\* Or the pool sends, or the broker answers, or an answer is read.
Kind ==
  /\ client' = client /\ next \in Nat /\ next' \in Nat /\ next <= next'
  /\ broken => broken'
  /\ \A m \in Messages : Sent(m) => Sent(m)'
  /\ \/ Quiet
     \/ \E X \in SUBSET Messages : Sends(X) \/ Publishes(X) \/ Submits(X) \/ Registers(X) \/ Fails(X)
     \/ (RedisWorkerSends \/ Answered \/ BrokerAnswers \/ ReadAnswer) /\ next' = next

\* Every step is of one of these kinds.
LEMMA Kinds ==
  ASSUME PlaceOK, DueOK, HandOK, [Next]_vars
  PROVE  Kind
<1>0. client' = client /\ next \in Nat /\ next \in 1..(N + 1) /\ Messages' = Messages
  BY Bounds, PlaceKept, SameMessages DEF PlaceOK
<1>1. \A m \in Messages : Sent(m) => Sent(m)'
  BY SentStays
<1>2. next' \in Nat /\ next <= next'
  <2>1. next' \in {next, next + 1}
    BY DEF Next, Main, Worker, vars, KafkaSend, KafkaGoOn, KafkaGot, KafkaGetRaises, RedisSubmit, NatsRegister,
       NatsWrite, RabbitPublish, WriteRaises, PlanEnds, KafkaGotLast, KafkaGotAll, RedisDrained, SayNoMore,
       Join, KafkaFlushed, RedisWrites, AnswersShort, AnswersIn, WorkerSleeps, WorkerReturns, WorkerTakes,
       WorkerSends, NatsWorkerWriteRaises, WorkerKeepsRow, RedisWorkerNotes, KafkaWorkerDies,
       RedisWorkerSends, Answered, BrokerAnswers, ReadAnswer, ConnectionFails, Ended, RowDone, main
  <2> QED BY <1>0, <2>1
<1>3. broken => broken'
  BY DEF Next, Main, Worker, vars, KafkaSend, KafkaGoOn, KafkaGot, KafkaGetRaises, RedisSubmit, NatsRegister,
     NatsWrite, RabbitPublish, WriteRaises, PlanEnds, KafkaGotLast, KafkaGotAll, RedisDrained, SayNoMore,
     Join, KafkaFlushed, RedisWrites, AnswersShort, AnswersIn, WorkerSleeps, WorkerReturns, WorkerTakes,
     WorkerSends, NatsWorkerWriteRaises, WorkerKeepsRow, RedisWorkerNotes, KafkaWorkerDies,
     RedisWorkerSends, Answered, BrokerAnswers, ReadAnswer, ConnectionFails, Ended, broker
<1>4. ASSUME Quiet
      PROVE  Kind
  BY <1>0, <1>1, <1>2, <1>3, <1>4 DEF Kind
<1>5. ASSUME NEW X \in SUBSET Messages, Sends(X) \/ Publishes(X) \/ Submits(X) \/ Registers(X) \/ Fails(X)
      PROVE  Kind
  BY <1>0, <1>1, <1>2, <1>3, <1>5 DEF Kind
<1> DEFINE b == Base(next)
<1>6. next <= N => b \in Messages
  BY <1>0, Bounds, BaseFacts
<1>7. b.of = next /\ b.rev = 1
  BY BaseFacts
<1>8. CASE KafkaSend
  <2>1. ~Sent(b)
    BY <1>0, <1>7, <1>8 DEF KafkaSend, Go, Sent
  <2>2. \A m \in {b} : Sent(m)'
    BY <1>7, <1>8 DEF KafkaSend, Go, Sent
  <2>3. b \in Messages /\ {b} \in SUBSET Messages
    BY <1>6, <1>8 DEF KafkaSend
  <2>4. Sends({b})
    BY <2>1, <2>2, <2>3, <1>8 DEF KafkaSend, Sends, Starting, account
  <2> QED BY <1>5, <2>3, <2>4
<1>9. CASE RedisSubmit \/ NatsWrite \/ RabbitPublish
  <2>1. next <= N /\ RowDone /\ pc \in {"send", "write"}
    BY <1>9 DEF RedisSubmit, NatsWrite, RabbitPublish, Go, PlaceOK
  <2>2. ~Sent(b)
    BY <1>0, <1>7, <2>1 DEF Sent
  <2>3. \A m \in {b} : Sent(m)'
    BY <1>0, <1>7, <2>1 DEF RowDone, Sent
  <2>4. b \in Messages /\ {b} \in SUBSET Messages /\ next' = next + 1
    BY <1>6, <2>1 DEF RowDone
  <2>5. CASE RedisSubmit
    <3>1. Submits({b})
      BY <2>2, <2>3, <2>4, <2>5 DEF RedisSubmit, Submits, Starting, account
    <3> QED BY <1>5, <2>4, <3>1
  <2>6. CASE NatsWrite
    <3>1. Sends({b})
      BY <2>2, <2>3, <2>4, <2>6 DEF NatsWrite, Sends, Starting, account
    <3> QED BY <1>5, <2>4, <3>1
  <2>7. CASE RabbitPublish
    <3>1. Publishes({b})
      BY <2>2, <2>3, <2>4, <2>7 DEF RabbitPublish, Publishes, Starting
    <3> QED BY <1>5, <2>4, <3>1
  <2> QED BY <1>9, <2>5, <2>6, <2>7
<1>10. CASE NatsRegister
  <2>1. ~Sent(b)
    BY <1>0, <1>7, <1>10 DEF NatsRegister, Go, Sent
  <2>2. b \in Messages /\ {b} \in SUBSET Messages
    BY <1>6, <1>10 DEF NatsRegister
  <2>3. Registers({b})
    BY <2>1, <2>2, <1>10 DEF NatsRegister, Registers, broker
  <2> QED BY <1>5, <2>2, <2>3
<1>11. CASE WorkerTakes
  <2>1. CASE client # "nats"
    BY <1>4, <1>11, <2>1 DEF WorkerTakes, Quiet, broker
  <2>2. CASE client = "nats"
    <3>1. Len(due) \in Nat \ {0} /\ DOMAIN due = 1..Len(due) /\ Head(due) = due[1] /\ due[1] \in Corrected
      BY <1>11 DEF WorkerTakes, DueOK
    <3>2. 1 \in DOMAIN due
      BY <3>1
    <3> DEFINE c == Head(due)
    <3>3. c \in ToSet(due) /\ c \in Corrected
      BY <3>1, <3>2 DEF ToSet
    <3>4. ~Sent(c) /\ {c} \in SUBSET Messages
      BY <3>3, CorrectionFacts DEF Sent
    <3>5. Registers({c})
      BY <2>2, <3>4, <1>11 DEF WorkerTakes, Registers, broker
    <3> QED BY <1>5, <3>4, <3>5
  <2> QED BY <2>1, <2>2
<1>12. ASSUME worker = "sending", UNCHANGED <<due, next>>, worker' # "sending"
       PROVE  Starting(inHand) /\ inHand \in SUBSET Messages
  <2>1. inHand \in SUBSET Messages
    BY CorrectionFacts DEF HandOK
  <2>2. ASSUME NEW m \in inHand
        PROVE  ~Sent(m) /\ Sent(m)'
    <3>1. m.rev = 2 /\ m.of < next
      BY CorrectionFacts DEF HandOK
    <3>2. ~Sent(m)
      BY <1>12, <3>1 DEF Sent
    <3>3. m \notin ToSet(due)
      <4>1. ASSUME NEW i \in DOMAIN due, m = due[i]
            PROVE  FALSE
        <5>1. m.of < due[i].of /\ m.of \in Nat
          BY CorrectionFacts DEF HandOK
        <5> QED BY <4>1, <5>1
      <4> QED BY <4>1 DEF ToSet
    <3> QED BY <1>12, <3>1, <3>2, <3>3 DEF Sent
  <2> QED BY <2>1, <2>2 DEF Starting
<1>13. CASE WorkerSends
  <2>1. Starting(inHand) /\ inHand \in SUBSET Messages
    BY <1>12, <1>13 DEF WorkerSends, Works, main
  <2>2. CASE client = "rabbitmq"
    <3>1. inHand = {}
      BY <2>2, CorrectionFacts DEF HandOK
    <3>2. Quiet
      BY <1>13, <3>1 DEF WorkerSends, Quiet, account
    <3> QED BY <1>4, <3>2
  <2>3. CASE client # "rabbitmq"
    <3>1. Sends(inHand)
      BY <1>13, <2>1, <2>3 DEF WorkerSends, Sends, account
    <3> QED BY <1>5, <2>1, <3>1
  <2> QED BY <2>2, <2>3
<1>14. CASE NatsWorkerWriteRaises
  <2>1. Starting(inHand) /\ inHand \in SUBSET Messages
    BY <1>12, <1>14 DEF NatsWorkerWriteRaises, Works, main
  <2>2. Fails(inHand)
    BY <1>14, <2>1 DEF NatsWorkerWriteRaises, Fails, broker
  <2> QED BY <1>5, <2>1, <2>2
<1>15. CASE RedisWorkerNotes
  <2>1. inHand \in SUBSET Messages /\ \A m \in inHand : said[m] = "no"
    BY <1>15, CorrectionFacts DEF RedisWorkerNotes, HandOK
  <2>2. Fails(inHand)
    BY <1>15, <2>1 DEF RedisWorkerNotes, Fails, broker
  <2> QED BY <1>5, <2>1, <2>2
<1>16. CASE RedisWorkerSends \/ Answered \/ BrokerAnswers \/ ReadAnswer
  <2>1. next' = next
    BY <1>16 DEF RedisWorkerSends, Answered, BrokerAnswers, ReadAnswer, main
  <2> QED BY <1>0, <1>1, <1>2, <1>3, <1>16, <2>1 DEF Kind
<1>17. CASE KafkaGoOn \/ KafkaGot \/ KafkaGetRaises \/ WriteRaises \/ PlanEnds \/ KafkaGotLast \/ KafkaGotAll
            \/ RedisDrained \/ SayNoMore \/ Join \/ KafkaFlushed \/ RedisWrites \/ AnswersShort \/ AnswersIn
            \/ WorkerSleeps \/ WorkerReturns \/ WorkerKeepsRow \/ KafkaWorkerDies \/ ConnectionFails \/ Ended
            \/ UNCHANGED vars
  <2>1. Quiet
    BY <1>17 DEF Quiet, KafkaGoOn, KafkaGot, KafkaGetRaises, WriteRaises, PlanEnds, KafkaGotLast, KafkaGotAll,
       RedisDrained, SayNoMore, Join, KafkaFlushed, RedisWrites, AnswersShort, AnswersIn, WorkerSleeps,
       WorkerReturns, WorkerKeepsRow, KafkaWorkerDies, ConnectionFails, Ended, vars, account, broker
  <2> QED BY <1>4, <2>1
<1> QED BY <1>8, <1>9, <1>10, <1>11, <1>13, <1>14, <1>15, <1>16, <1>17 DEF Next, Main, Worker

-----------------------------------------------------------------------------
(***************************************************************************)
(* The answers and what is waited for.  The heart of the proof: what an    *)
(* answer is taken for, of what is waited for, is what the broker meant.   *)
(***************************************************************************)
\* What an answer is, and what it was meant for; a message not yet accounted for.
AnAnswer == [to : Messages, multiple : BOOLEAN, word : {"yes", "no"}, meant : SUBSET Messages]
Meant(k) == answers[k].meant
New(m) == said[m] = "nothing" /\ m \notin acked /\ m \notin errors

\* All of them are messages of this run.
SetsOK ==
  /\ wire \subseteq Messages /\ pool \subseteq Messages /\ wire \cap pool = {}
  /\ waiting \subseteq Messages /\ acked \subseteq Messages /\ errors \subseteq Messages
  /\ said \in [Messages -> {"nothing", "yes", "no"}]
  /\ answers \in Seq(AnAnswer)
  /\ client # "redis" => pool = {}
  /\ client \in {"kafka", "redis"} => waiting = {} /\ answers = <<>>

\* What is not sent, on the wire, or answered on the way is not accounted for, and
\* no message is in two of these places.
OpenOK ==
  /\ \A m \in Messages : ~Sent(m) => New(m)
  /\ \A m \in wire \cup pool : Sent(m) /\ New(m)
  /\ \A k \in DOMAIN answers, m \in Messages : m \in Meant(k) => Sent(m) /\ New(m) /\ m \notin wire
  /\ \A k, l \in DOMAIN answers : k < l => Meant(k) \cap Meant(l) = {}

\* An answer means the message it names, or all before it, which only RabbitMQ's
\* does: then what is still on the wire or answered later has a higher number.
AnswersOK ==
  \A k \in DOMAIN answers :
    /\ answers[k].to \in Meant(k)
    /\ ~answers[k].multiple => Meant(k) = {answers[k].to}
    /\ answers[k].multiple =>
         /\ client = "rabbitmq"
         /\ \A m \in Meant(k) : m.of <= answers[k].to.of
         /\ \A m \in wire : answers[k].to.of < m.of
         /\ \A l \in DOMAIN answers : k < l => \A m \in Meant(l) : answers[k].to.of < m.of

\* What is waited for is not answered; below the lowest number nothing is.
WaitingOK ==
  /\ \A m \in waiting : said[m] = "nothing"
  /\ client = "rabbitmq" =>
       /\ \A m \in waiting : m \in wire \/ \E k \in DOMAIN answers : m \in Meant(k)
       /\ lowest \in 1..next /\ \A n \in 1..(lowest - 1) : Base(n) \notin waiting

AnswerInv == SetsOK /\ OpenOK /\ AnswersOK /\ WaitingOK

\* The answers on their way, by places.
LEMMA AnswerFacts ==
  ASSUME SetsOK
  PROVE  /\ Len(answers) \in Nat /\ DOMAIN answers = 1..Len(answers)
         /\ \A k \in DOMAIN answers :
              /\ answers[k] \in AnAnswer /\ answers[k].to \in Messages /\ Meant(k) \subseteq Messages
              /\ answers[k].word \in {"yes", "no"}
<1>1. Len(answers) \in Nat /\ DOMAIN answers = 1..Len(answers) /\ \A k \in DOMAIN answers : answers[k] \in AnAnswer
  <2> HIDE DEF AnAnswer
  <2> QED BY DEF SetsOK
<1>2. \A a \in AnAnswer : a.to \in Messages /\ a.meant \subseteq Messages /\ a.word \in {"yes", "no"}
  BY DEF AnAnswer
<1> QED BY <1>1, <1>2 DEF Meant

\* What an answer is taken for, of what is waited for, is what it was meant for.
LEMMA FoundIsMeant ==
  ASSUME PlaceOK, AnswerInv, answers # <<>>
  PROVE  /\ 1 \in DOMAIN answers /\ Head(answers) = answers[1]
         /\ Covers(answers[1]) \cap waiting \subseteq Meant(1)
         /\ Meant(1) \cap waiting \subseteq Covers(answers[1])
<1> USE DEF AnswerInv
<1>1. 1 \in DOMAIN answers /\ Head(answers) = answers[1]
  BY DEF SetsOK
<1>2. Meant(1) \subseteq Messages /\ waiting \subseteq Messages /\ answers[1].to \in Messages
  BY <1>1, AnswerFacts DEF SetsOK
<1>3. CASE ~answers[1].multiple
  BY <1>1, <1>3 DEF Covers, AnswersOK
<1>4. CASE answers[1].multiple
  <2>1. client = "rabbitmq" /\ lowest \in 1..next /\ next \in Nat
    BY <1>1, <1>4, Bounds DEF AnswersOK, WaitingOK, PlaceOK
  <2>2. \A m \in Messages : m = Base(m.of) /\ m.of \in 1..N /\ m.of \in Nat
    BY <2>1, MessageFacts, Bounds
  <2>3. Covers(answers[1]) = {Base(n) : n \in lowest..answers[1].to.of}
    BY <1>4 DEF Covers
  <2>4. ASSUME NEW m \in waiting, m \in Covers(answers[1]), m \notin Meant(1)
        PROVE  FALSE
    <3>1. PICK n \in lowest..answers[1].to.of : m = Base(n)
      BY <2>3, <2>4
    <3>2. m.of = n /\ n <= answers[1].to.of /\ answers[1].to.of \in Nat /\ n \in Nat
      BY <1>2, <2>1, <2>2, <3>1, BaseFacts
    <3>3. CASE m \in wire
      BY <1>1, <1>4, <3>2, <3>3 DEF AnswersOK
    <3>4. ASSUME NEW l \in DOMAIN answers, m \in Meant(l)
          PROVE  FALSE
      <4>1. 1 < l
        BY <2>4, <3>4, AnswerFacts
      <4>2. answers[1].to.of < m.of
        BY <1>1, <1>4, <3>4, <4>1 DEF AnswersOK
      <4> QED BY <3>2, <4>2
    <3> QED BY <2>1, <3>3, <3>4 DEF WaitingOK
  <2>5. ASSUME NEW m \in waiting, m \in Meant(1)
        PROVE  m \in Covers(answers[1])
    <3>1. m.of <= answers[1].to.of /\ m.of \in 1..N /\ m = Base(m.of) /\ answers[1].to.of \in Nat
      BY <1>1, <1>2, <1>4, <2>2, <2>5 DEF AnswersOK
    <3>2. ~(m.of \in 1..(lowest - 1))
      BY <2>1, <3>1 DEF WaitingOK
    <3>3. m.of \in lowest..answers[1].to.of
      BY <2>1, <3>1, <3>2, Bounds
    <3> QED BY <2>3, <3>1, <3>3
  <2> QED BY <1>1, <2>4, <2>5
<1> QED BY <1>1, <1>3, <1>4

\* The first number that is left.
LEMMA LowestFacts ==
  ASSUME next \in Nat, lowest \in 1..next, NEW left
  PROVE  /\ LowestOf(left) \in lowest..next
         /\ \A k \in lowest..(LowestOf(left) - 1) : Base(k) \notin left
<1> DEFINE T == {n \in lowest..next : n = next \/ Base(n) \in left}
<1>1. T \subseteq Nat /\ T # {}
  <2>1. next \in T
    OBVIOUS
  <2> QED BY <2>1
<1>2. \E n \in T : \A k \in T : n <= k
  <2> DEFINE R == {ss \in Nat \X Nat : ss[1] < ss[2]}
  <2>1. IsWellFoundedOn(R, Nat)
    BY NatLessThanWellFounded DEF OpToRel
  <2> HIDE DEF R, T
  <2>2. PICK k \in T : \A j \in T : ~(<<j, k>> \in R)
    BY <1>1, <2>1, WFMin
  <2>3. \A j \in T : ~(j < k)
    BY <1>1, <2>2 DEF R
  <2> QED BY <1>1, <2>3
<1>3. PICK n \in T : \A k \in T : n <= k
  BY <1>2
<1>4. /\ n \in lowest..next /\ (n = next \/ Base(n) \in left)
      /\ \A k \in lowest..(n - 1) : Base(k) \notin left
  <2>1. ASSUME NEW k \in lowest..(n - 1), Base(k) \in left
        PROVE  FALSE
    <3>1. k \in T /\ k < n /\ k \in Nat /\ n \in Nat
      BY <2>1, <1>1
    <3> QED BY <1>3, <3>1
  <2> QED BY <2>1
<1>5. \E i \in lowest..next :
        (i = next \/ Base(i) \in left) /\ \A k \in lowest..(i - 1) : Base(k) \notin left
  BY <1>4
<1> QED BY <1>5 DEF LowestOf

\* What every step leaves as it is.
Same ==
  /\ client' = client /\ Messages' = Messages /\ AnAnswer' = AnAnswer
  /\ next \in Nat /\ next' \in Nat /\ next <= next'
  /\ \A m \in Messages : Sent(m) => Sent(m)'

LEMMA KindSame ==
  ASSUME Kind
  PROVE  Same
BY SameMessages DEF Kind, Same, AnAnswer

\* Nothing is done.
LEMMA QuietKeeps ==
  ASSUME Same, AnswerInv, Quiet
  PROVE  AnswerInv'
<1> USE DEF Same, AnswerInv, Quiet
<1>1. SetsOK'
  BY DEF SetsOK
<1>2. OpenOK'
  BY DEF SetsOK, OpenOK, New, Meant
<1>3. AnswersOK'
  BY DEF AnswersOK, Meant
<1>4. WaitingOK'
  BY DEF WaitingOK, Meant
<1> QED BY <1>1, <1>2, <1>3, <1>4

\* Messages are sent, which have not been before.
LEMMA SendsKeeps ==
  ASSUME Same, AnswerInv, NEW X \in SUBSET Messages, Sends(X) \/ Publishes(X) \/ Submits(X)
  PROVE  AnswerInv'
<1> USE DEF Same, AnswerInv
<1>0. /\ \A m \in X : ~Sent(m) /\ Sent(m)' /\ New(m) /\ m \notin wire \cup pool
      /\ \A k \in DOMAIN answers : X \cap Meant(k) = {}
  BY DEF Sends, Publishes, Submits, Starting, OpenOK
<1>1. /\ UNCHANGED <<answers, said, acked, errors, lowest>>
      /\ wire' \in {wire, wire \cup X} /\ pool' \in {pool, pool \cup X} /\ (wire' = wire \/ pool' = pool)
      /\ client # "redis" => pool' = pool
      /\ waiting' = waiting \/ (client = "rabbitmq" /\ waiting' = waiting \cup X)
  BY DEF Sends, Publishes, Submits
<1>2. SetsOK'
  BY <1>0, <1>1 DEF SetsOK
<1>3. OpenOK'
  <2>1. \A m \in Messages : New(m)' = New(m)
    BY <1>1 DEF New
  <2>2. \A k \in DOMAIN answers : Meant(k)' = Meant(k)
    BY <1>1 DEF Meant
  <2>3. \A m \in wire' \cup pool' : m \in wire \cup pool \/ m \in X
    BY <1>1
  <2>4. \A m \in wire' \cup pool' : m \in Messages /\ Sent(m)' /\ New(m)
    BY <2>3, <1>0 DEF OpenOK, SetsOK
  <2>5. \A k \in DOMAIN answers, m \in Messages : m \in Meant(k) => m \notin wire'
    BY <1>0, <1>1 DEF OpenOK
  <2> QED BY <1>1, <2>1, <2>2, <2>4, <2>5 DEF OpenOK
<1>4. AnswersOK'
  <2>1. \A k \in DOMAIN answers : Meant(k)' = Meant(k)
    BY <1>1 DEF Meant
  <2>2. ASSUME NEW k \in DOMAIN answers, answers[k].multiple, NEW m \in wire'
        PROVE  answers[k].to.of < m.of
    <3>1. client = "rabbitmq" /\ answers[k].to \in Meant(k) /\ answers[k].to \in Messages
      BY <2>2, AnswerFacts DEF AnswersOK
    <3>2. CASE m \in wire
      BY <2>2, <3>2 DEF AnswersOK
    <3>3. CASE m \notin wire
      <4>1. X = {Base(next)} /\ m = Base(next) /\ m.of = next
        BY <1>1, <3>1, <3>3, BaseFacts DEF Sends, Publishes, Submits
      <4>2. Sent(answers[k].to) /\ answers[k].to # Base(next)
        BY <1>0, <3>1, <4>1 DEF OpenOK
      <4>3. answers[k].to = Base(answers[k].to.of) /\ answers[k].to.rev = 1 /\ answers[k].to.of \in 1..N
        BY <3>1, MessageFacts
      <4>4. answers[k].to.of # next /\ answers[k].to.of <= next
        BY <4>2, <4>3, Bounds DEF Sent
      <4> QED BY <4>1, <4>3, <4>4, Bounds
    <3> QED BY <3>2, <3>3
  <2> QED BY <1>1, <2>1, <2>2 DEF AnswersOK
<1>5. WaitingOK'
  <2>1. \A m \in waiting' : said'[m] = "nothing"
    BY <1>0, <1>1 DEF WaitingOK, New
  <2>2. ASSUME client = "rabbitmq"
        PROVE  /\ \A m \in waiting' : m \in wire' \/ \E k \in DOMAIN answers : m \in Meant(k)
               /\ lowest \in 1..next' /\ \A n \in 1..(lowest - 1) : Base(n) \notin waiting'
    <3>1. X = {Base(next)} /\ wire' = wire \cup X /\ waiting' = waiting \cup X
      BY <2>2 DEF Sends, Publishes, Submits
    <3>2. lowest \in 1..next'
      BY <2>2 DEF WaitingOK
    <3>3. \A n \in 1..(lowest - 1) : n < next
      BY <2>2 DEF WaitingOK
    <3>4. \A n \in 1..(lowest - 1) : Base(n) # Base(next)
      BY <3>3, BaseFacts
    <3> QED BY <2>2, <3>1, <3>2, <3>4 DEF WaitingOK
  <2> QED BY <1>1, <2>1, <2>2 DEF WaitingOK, Meant
<1> QED BY <1>2, <1>3, <1>4, <1>5

\* NATS's registers one before it writes it.
LEMMA RegistersKeeps ==
  ASSUME Same, AnswerInv, NEW X \in SUBSET Messages, Registers(X)
  PROVE  AnswerInv'
<1> USE DEF Same, AnswerInv, Registers
<1>1. SetsOK'
  BY DEF SetsOK
<1>2. OpenOK'
  BY DEF SetsOK, OpenOK, New, Meant
<1>3. AnswersOK'
  BY DEF AnswersOK, Meant
<1>4. WaitingOK'
  BY DEF WaitingOK, Meant, OpenOK, New
<1> QED BY <1>1, <1>2, <1>3, <1>4

\* Messages are known to have failed.
LEMMA FailsKeeps ==
  ASSUME Same, AnswerInv, NEW X \in SUBSET Messages, Fails(X)
  PROVE  AnswerInv'
<1> USE DEF Same, AnswerInv
<1>0. UNCHANGED <<wire, pool, answers, said, acked, waiting, lowest>> /\ errors' = errors \cup X
  BY DEF Fails
<1>1. \A m \in X : Sent(m)' /\ (~Sent(m) \/ ~New(m))
  BY DEF Fails, Starting, New, OpenOK
<1>2. SetsOK'
  BY <1>0 DEF SetsOK
<1>3. OpenOK'
  <2>1. \A m \in Messages : m \notin X => New(m)' = New(m)
    BY <1>0 DEF New
  <2>2. \A m \in wire \cup pool : m \notin X /\ m \in Messages
    BY <1>1 DEF OpenOK, SetsOK
  <2>3. \A k \in DOMAIN answers, m \in Messages : m \in Meant(k) => m \notin X
    BY <1>1 DEF OpenOK
  <2>4. \A m \in Messages : ~Sent(m)' => ~Sent(m) /\ m \notin X
    BY <1>1
  <2> QED BY <1>0, <2>1, <2>2, <2>3, <2>4 DEF OpenOK, Meant
<1>4. AnswersOK'
  BY <1>0 DEF AnswersOK, Meant
<1>5. WaitingOK'
  BY <1>0 DEF WaitingOK, Meant
<1> QED BY <1>2, <1>3, <1>4, <1>5

\* Redis's pool sends one.
LEMMA PoolKeeps ==
  ASSUME Same, AnswerInv, RedisWorkerSends
  PROVE  AnswerInv'
<1> USE DEF Same, AnswerInv
<1>0. PICK m \in pool : pool' = pool \ {m} /\ wire' = wire \cup {m}
  BY DEF RedisWorkerSends
<1>1. UNCHANGED <<answers, said, acked, errors, waiting, lowest>> /\ client = "redis" /\ answers = <<>>
      /\ waiting = {} /\ DOMAIN answers = {}
  BY EmptySeq DEF RedisWorkerSends, account, SetsOK
<1>2. SetsOK'
  BY <1>0, <1>1 DEF SetsOK
<1>3. OpenOK'
  BY <1>0, <1>1 DEF SetsOK, OpenOK, New
<1>4. AnswersOK' /\ WaitingOK'
  BY <1>1 DEF AnswersOK, WaitingOK
<1> QED BY <1>2, <1>3, <1>4

\* Kafka's or Redis's broker answers one.
LEMMA AnsweredKeeps ==
  ASSUME Same, AnswerInv, Answered
  PROVE  AnswerInv'
<1> USE DEF Same, AnswerInv
<1>0. PICK m \in wire, word \in {"yes", "no"} :
        /\ wire' = wire \ {m} /\ said' = [said EXCEPT ![m] = word]
        /\ acked' \in {acked, acked \cup {m}} /\ errors' \in {errors, errors \cup {m}}
  BY DEF Answered
<1>1. UNCHANGED <<answers, pool, waiting, lowest>> /\ client \in {"kafka", "redis"} /\ answers = <<>>
      /\ waiting = {} /\ DOMAIN answers = {}
  BY EmptySeq DEF Answered, SetsOK
<1>2. m \in Messages /\ Sent(m)' /\ Sent(m) /\ m \notin pool
  BY DEF OpenOK, SetsOK
<1>3. SetsOK'
  BY <1>0, <1>1, <1>2 DEF SetsOK
<1>4. OpenOK'
  <2>1. \A o \in Messages : o # m => New(o)' = New(o)
    BY <1>0, <1>2 DEF New, SetsOK
  <2> QED BY <1>0, <1>1, <1>2, <2>1 DEF SetsOK, OpenOK
<1>5. AnswersOK' /\ WaitingOK'
  BY <1>1 DEF AnswersOK, WaitingOK
<1> QED BY <1>3, <1>4, <1>5

\* NATS's or RabbitMQ's broker answers one, or several.
LEMMA BrokerKeeps ==
  ASSUME PlaceOK, Same, AnswerInv, BrokerAnswers
  PROVE  AnswerInv'
<1> USE DEF Same, AnswerInv
<1>0. PICK m \in wire, word \in {"yes", "no"}, multiple \in {FALSE, client = "rabbitmq"} :
        LET meant == {o \in wire : o = m \/ (multiple /\ o.of < m.of)}
        IN  /\ wire' = wire \ meant
            /\ answers' = Append(answers, [to |-> m, multiple |-> multiple, word |-> word, meant |-> meant])
  BY DEF BrokerAnswers
<1> DEFINE meant == {o \in wire : o = m \/ (multiple /\ o.of < m.of)}
           a == [to |-> m, multiple |-> multiple, word |-> word, meant |-> meant]
<1>1. multiple \in BOOLEAN /\ (multiple => client = "rabbitmq")
  OBVIOUS
<1>2. /\ wire' = wire \ meant /\ answers' = Append(answers, a)
      /\ m \in meant /\ meant \subseteq wire /\ wire \subseteq Messages
      /\ a.to = m /\ a.multiple = multiple /\ a.meant = meant
  BY <1>0 DEF SetsOK
<1>3. (~multiple => meant = {m}) /\ \A o \in meant : o = m \/ o.of < m.of
  BY <1>1
<1>4. multiple => \A o \in wire \ meant : o # m /\ ~(o.of < m.of)
  BY <1>1
<1>5. a \in AnAnswer
  BY <1>1, <1>2 DEF AnAnswer
<1>6. UNCHANGED <<pool, said, acked, errors, waiting, lowest>> /\ client \in {"nats", "rabbitmq"}
  BY DEF BrokerAnswers, account
<1> HIDE DEF meant, a
<1>7. /\ Len(answers) \in Nat /\ DOMAIN answers = 1..Len(answers)
      /\ Append(answers, a) \in Seq(AnAnswer)
      /\ DOMAIN Append(answers, a) = 1..(Len(answers) + 1)
      /\ \A k \in 1..Len(answers) : Append(answers, a)[k] = answers[k]
      /\ Append(answers, a)[Len(answers) + 1] = a
  BY <1>5 DEF SetsOK
<1>71. PICK last \in Nat : last = Len(answers) + 1
  BY <1>7
<1>8. /\ \A k \in DOMAIN answers' : k \in DOMAIN answers \/ k = last
      /\ DOMAIN answers \subseteq DOMAIN answers' /\ last \in DOMAIN answers'
      /\ \A k \in DOMAIN answers : answers'[k] = answers[k] /\ Meant(k)' = Meant(k)
      /\ answers'[last] = a /\ Meant(last)' = meant
      /\ \A k \in DOMAIN answers' : ~(last < k)
  <2>1. DOMAIN answers' = 1..last /\ \A k \in DOMAIN answers : answers'[k] = answers[k] /\ k \in 1..last
    BY <1>2, <1>7, <1>71
  <2>2. answers'[last] = a /\ last \in 1..last
    BY <1>2, <1>7, <1>71
  <2>3. \A k \in 1..last : k \in DOMAIN answers \/ k = last
    BY <1>7, <1>71
  <2>4. \A k \in 1..last : ~(last < k)
    BY <1>71
  <2> QED BY <1>2, <2>1, <2>2, <2>3, <2>4 DEF Meant
<1>9. SetsOK'
  <2>1. client # "redis" /\ client # "kafka"
    BY <1>6
  <2> QED BY <1>2, <1>6, <1>7, <2>1 DEF SetsOK
<1>10. \A o \in Messages : New(o)' = New(o)
  BY <1>6 DEF New
<1>11. \A o \in meant : Sent(o) /\ New(o) /\ o \in Messages /\ o \notin wire'
  BY <1>2 DEF OpenOK
<1>12. OpenOK'
  <2>1. \A k \in DOMAIN answers', o \in Messages : o \in Meant(k)' => Sent(o)' /\ New(o) /\ o \notin wire'
    <3>1. \A k \in DOMAIN answers, o \in Messages : o \in Meant(k) => Sent(o)' /\ New(o) /\ o \notin wire'
      BY <1>2 DEF OpenOK
    <3> QED BY <1>8, <1>11, <3>1
  <2>2. ASSUME NEW k \in DOMAIN answers', NEW l \in DOMAIN answers', k < l
        PROVE  Meant(k)' \cap Meant(l)' = {}
    <3>1. k \in DOMAIN answers
      <4>1. k # last
        BY <1>8, <2>2
      <4> QED BY <1>8, <4>1
    <3>2. CASE l \in DOMAIN answers
      BY <1>8, <2>2, <3>1, <3>2 DEF OpenOK
    <3>3. CASE l = last
      <4>1. \A o \in Meant(k) : o \in Messages /\ o \notin wire
        BY <3>1, AnswerFacts DEF OpenOK
      <4> QED BY <1>2, <1>8, <3>1, <3>3, <4>1
    <3> QED BY <1>8, <3>2, <3>3
  <2>3. \A o \in wire' \cup pool' : Sent(o)' /\ New(o)
    BY <1>2, <1>6 DEF OpenOK, SetsOK
  <2>4. \A o \in Messages : ~Sent(o)' => New(o)
    BY DEF OpenOK
  <2>5. \A o \in wire' \cup pool' : o \in Messages
    BY <1>9 DEF SetsOK
  <2> QED BY <1>10, <2>1, <2>2, <2>3, <2>4, <2>5 DEF OpenOK
<1>13. AnswersOK'
  <2>1. /\ a.to \in meant /\ (~a.multiple => meant = {a.to})
    BY <1>2, <1>3
  <2>2. ASSUME a.multiple
        PROVE  /\ client = "rabbitmq"
               /\ \A o \in meant : o.of <= a.to.of
               /\ \A o \in wire' : a.to.of < o.of
    <3>1. client = "rabbitmq" /\ multiple
      BY <1>1, <1>2, <2>2
    <3>2. \A o \in Messages : o = Base(o.of) /\ o.of \in Nat
      BY <3>1, MessageFacts, Bounds
    <3>3. m \in Messages /\ \A o \in meant : o.of \in Nat
      BY <1>2, <3>2
    <3>4. \A o \in meant : o.of <= m.of
      BY <1>3, <3>2, <3>3
    <3>5. ASSUME NEW o \in wire'
          PROVE  m.of < o.of
      <4>1. o \in Messages /\ o # m /\ ~(o.of < m.of)
        BY <1>2, <1>4, <3>1
      <4>2. o.of # m.of
        BY <3>2, <3>3, <4>1
      <4> QED BY <3>2, <3>3, <4>1, <4>2
    <3> QED BY <1>2, <3>1, <3>4, <3>5
  <2>3. ASSUME NEW k \in DOMAIN answers'
        PROVE  /\ answers'[k].to \in Meant(k)'
               /\ ~answers'[k].multiple => Meant(k)' = {answers'[k].to}
               /\ answers'[k].multiple =>
                    /\ client' = "rabbitmq"
                    /\ \A o \in Meant(k)' : o.of <= answers'[k].to.of
                    /\ \A o \in wire' : answers'[k].to.of < o.of
                    /\ \A l \in DOMAIN answers' : k < l => \A o \in Meant(l)' : answers'[k].to.of < o.of
    <3>1. CASE k = last
      BY <1>8, <2>1, <2>2, <3>1
    <3>2. CASE k \in DOMAIN answers
      <4>1. /\ answers[k].to \in Meant(k)
            /\ ~answers[k].multiple => Meant(k) = {answers[k].to}
            /\ answers[k].multiple => /\ client = "rabbitmq"
                                      /\ \A o \in Meant(k) : o.of <= answers[k].to.of
                                      /\ \A o \in wire : answers[k].to.of < o.of
        BY <3>2 DEF AnswersOK
      <4>2. ASSUME answers[k].multiple, NEW l \in DOMAIN answers', k < l
            PROVE  \A o \in Meant(l)' : answers[k].to.of < o.of
        <5>1. CASE l \in DOMAIN answers
          BY <1>8, <3>2, <4>2, <5>1 DEF AnswersOK
        <5>2. CASE l = last
          BY <1>2, <1>8, <4>1, <4>2, <5>2
        <5> QED BY <1>8, <5>1, <5>2
      <4> QED BY <1>2, <1>8, <3>2, <4>1, <4>2
    <3> QED BY <1>8, <3>1, <3>2
  <2> QED BY <2>3 DEF AnswersOK
<1>14. WaitingOK'
  <2>1. \A o \in waiting' : said'[o] = "nothing"
    BY <1>6 DEF WaitingOK
  <2>2. ASSUME client = "rabbitmq", NEW o \in waiting
        PROVE  o \in wire' \/ \E k \in DOMAIN answers' : o \in Meant(k)'
    <3>1. o \in wire \/ \E k \in DOMAIN answers : o \in Meant(k)
      BY <2>2 DEF WaitingOK
    <3> QED BY <1>2, <1>8, <3>1
  <2>3. client = "rabbitmq" => lowest \in 1..next' /\ \A n \in 1..(lowest - 1) : Base(n) \notin waiting
    BY DEF WaitingOK
  <2> QED BY <1>6, <2>1, <2>2, <2>3 DEF WaitingOK
<1> QED BY <1>9, <1>12, <1>13, <1>14

\* An answer is read.
LEMMA ReadKeeps ==
  ASSUME PlaceOK, Same, AnswerInv, ReadAnswer
  PROVE  AnswerInv'
<1> USE DEF Same, AnswerInv
<1>0. /\ answers # <<>> /\ answers' = Tail(answers) /\ UNCHANGED <<pool, wire, next>>
      /\ 1 \in DOMAIN answers /\ Head(answers) = answers[1]
  BY FoundIsMeant DEF ReadAnswer, main
<1> DEFINE found == Covers(answers[1]) \cap waiting
<1>1. found \subseteq Meant(1) /\ Meant(1) \cap waiting \subseteq found /\ found \subseteq waiting
  BY <1>0, FoundIsMeant
<1>2. /\ waiting' = waiting \ found /\ acked' \in {acked, acked \cup found} /\ errors' \in {errors, errors \cup found}
      /\ lowest' = IF client = "rabbitmq" THEN LowestOf(waiting \ found) ELSE lowest
      /\ said' = [m \in Messages |-> IF m \in Meant(1) THEN answers[1].word ELSE said[m]]
  BY <1>0 DEF ReadAnswer, Meant
<1>3. /\ answers[1].word \in {"yes", "no"} /\ Meant(1) \subseteq Messages /\ waiting \subseteq Messages
      /\ client \notin {"kafka", "redis"} /\ pool = {}
      /\ \A k \in DOMAIN answers : Meant(k) \subseteq Messages
  BY <1>0, AnswerFacts DEF SetsOK
<1> HIDE DEF found
<1>4. /\ Len(answers) \in Nat \ {0} /\ DOMAIN answers = 1..Len(answers)
      /\ Tail(answers) \in Seq(AnAnswer)
      /\ DOMAIN Tail(answers) = 1..(Len(answers) - 1)
      /\ \A k \in 1..(Len(answers) - 1) : Tail(answers)[k] = answers[k + 1]
  BY <1>0 DEF SetsOK
<1>5. \A k \in DOMAIN answers' : /\ k + 1 \in DOMAIN answers /\ 1 < k + 1 /\ answers'[k] = answers[k + 1]
                                 /\ Meant(k)' = Meant(k + 1)
  BY <1>0, <1>4 DEF Meant
<1>6. \A k, l \in DOMAIN answers' : k < l => k + 1 < l + 1
  BY <1>0, <1>4
<1>7. SetsOK'
  BY <1>0, <1>1, <1>2, <1>3, <1>4 DEF SetsOK
<1>8. \A m \in Messages \ Meant(1) : New(m)' = New(m) /\ said'[m] = said[m]
  BY <1>1, <1>2 DEF New
<1>9. OpenOK'
  <2>1. \A m \in Meant(1) : Sent(m) /\ Sent(m)' /\ m \notin wire
    BY <1>0, <1>3 DEF OpenOK
  <2>2. \A m \in Messages : ~Sent(m)' => New(m)'
    BY <1>8, <2>1 DEF OpenOK
  <2>3. \A m \in wire : m \in Messages \ Meant(1) /\ Sent(m)' /\ New(m)'
    BY <1>8, <2>1 DEF OpenOK, SetsOK
  <2>4. \A k \in DOMAIN answers' : Meant(1) \cap Meant(k + 1) = {}
    BY <1>0, <1>5 DEF OpenOK
  <2>5. \A k \in DOMAIN answers', m \in Messages : m \in Meant(k + 1) => Sent(m)' /\ New(m)' /\ m \notin wire
    BY <1>5, <1>8, <2>4 DEF OpenOK
  <2>6. \A k, l \in DOMAIN answers' : k < l => Meant(k + 1) \cap Meant(l + 1) = {}
    BY <1>5, <1>6 DEF OpenOK
  <2> QED BY <1>0, <1>3, <1>5, <2>2, <2>3, <2>5, <2>6 DEF OpenOK
<1>10. AnswersOK'
  BY <1>0, <1>5, <1>6 DEF AnswersOK
<1>11. WaitingOK'
  <2>1. ASSUME NEW m \in waiting'
        PROVE  m \in waiting /\ m \in Messages \ Meant(1) /\ said'[m] = "nothing"
    BY <1>1, <1>2, <1>3, <1>8, <2>1 DEF WaitingOK
  <2>2. ASSUME client = "rabbitmq", NEW m \in waiting'
        PROVE  m \in wire' \/ \E k \in DOMAIN answers' : m \in Meant(k)'
    <3>1. CASE m \in wire
      BY <1>0, <3>1
    <3>2. ASSUME NEW l \in DOMAIN answers, m \in Meant(l)
          PROVE  \E k \in DOMAIN answers' : m \in Meant(k)'
      <4>1. l # 1
        BY <2>1, <3>2
      <4>2. l - 1 \in DOMAIN answers' /\ (l - 1) + 1 = l
        BY <1>0, <1>4, <4>1
      <4> QED BY <1>5, <3>2, <4>2
    <3> QED BY <2>1, <2>2, <3>1, <3>2 DEF WaitingOK
  <2>3. ASSUME client = "rabbitmq"
        PROVE  lowest' \in 1..next' /\ \A n \in 1..(lowest' - 1) : Base(n) \notin waiting'
    <3>1. lowest \in 1..next /\ \A n \in 1..(lowest - 1) : Base(n) \notin waiting
      BY <2>3 DEF WaitingOK
    <3>2. lowest' = LowestOf(waiting')
      BY <1>2, <2>3
    <3> DEFINE left == waiting'
    <3> HIDE DEF left
    <3>3. LowestOf(left) \in lowest..next /\ \A k \in lowest..(LowestOf(left) - 1) : Base(k) \notin left
      BY <3>1, LowestFacts
    <3>4. lowest' \in lowest..next /\ \A k \in lowest..(lowest' - 1) : Base(k) \notin waiting'
      BY <3>2, <3>3 DEF left
    <3>5. lowest' \in 1..next'
      BY <1>0, <3>1, <3>4
    <3>6. ASSUME NEW n \in 1..(lowest' - 1)
          PROVE  Base(n) \notin waiting'
      <4>1. \A i, j, k \in Nat : k \in 1..(j - 1) => k \in 1..(i - 1) \/ k \in i..(j - 1)
        OBVIOUS
      <4>2. lowest \in Nat /\ lowest' \in Nat /\ n \in Nat
        BY <1>0, <3>1, <3>5
      <4>3. n \in 1..(lowest - 1) \/ n \in lowest..(lowest' - 1)
        BY <4>1, <4>2
      <4> QED BY <1>2, <3>1, <3>4, <4>3
    <3> QED BY <3>5, <3>6
  <2> QED BY <1>0, <2>1, <2>2, <2>3 DEF WaitingOK
<1> QED BY <1>7, <1>9, <1>10, <1>11

\* Every step keeps the answers what they are.
LEMMA AnswerKept ==
  ASSUME PlaceOK, DueOK, HandOK, AnswerInv, [Next]_vars
  PROVE  AnswerInv'
<1>1. Kind /\ Same
  BY Kinds, KindSame
<1>2. CASE Quiet
  BY <1>1, <1>2, QuietKeeps
<1>3. ASSUME NEW X \in SUBSET Messages, Sends(X) \/ Publishes(X) \/ Submits(X) \/ Registers(X) \/ Fails(X)
      PROVE  AnswerInv'
  BY <1>1, <1>3, SendsKeeps, RegistersKeeps, FailsKeeps
<1>4. CASE RedisWorkerSends \/ Answered \/ BrokerAnswers \/ ReadAnswer
  BY <1>1, <1>4, PoolKeeps, AnsweredKeeps, BrokerKeeps, ReadKeeps
<1> QED BY <1>1, <1>2, <1>3, <1>4 DEF Kind

\* Every step accounts for a message by what was said of it.
LEMMA OwnKept ==
  ASSUME PlaceOK, DueOK, HandOK, AnswerInv, AnswersAreOwn, [Next]_vars
  PROVE  AnswersAreOwn'
<1>0. Kind /\ Same
  BY Kinds, KindSame
<1> USE DEF Same
<1>1. broken => broken'
  BY <1>0 DEF Kind
<1>2. ASSUME UNCHANGED <<said, acked, errors>>
      PROVE  AnswersAreOwn'
  BY <1>0, <1>1, <1>2 DEF AnswersAreOwn
<1>3. CASE Quiet
  BY <1>2, <1>3 DEF Quiet
<1>4. ASSUME NEW X \in SUBSET Messages, Sends(X) \/ Publishes(X) \/ Submits(X) \/ Registers(X)
      PROVE  AnswersAreOwn'
  BY <1>2, <1>4 DEF Sends, Publishes, Submits, Registers
<1>5. ASSUME NEW X \in SUBSET Messages, Fails(X)
      PROVE  AnswersAreOwn'
  <2>1. UNCHANGED <<said, acked>> /\ errors' = errors \cup X /\ (broken \/ \A m \in X : said[m] = "no")
    BY <1>5 DEF Fails
  <2> QED BY <1>0, <1>1, <2>1 DEF AnswersAreOwn
<1>6. CASE RedisWorkerSends \/ BrokerAnswers
  BY <1>2, <1>6 DEF RedisWorkerSends, BrokerAnswers, account
<1>7. CASE Answered
  <2>1. PICK m \in wire, word \in {"yes", "no"} :
          /\ said' = [said EXCEPT ![m] = word]
          /\ IF word = "yes" THEN acked' = acked \cup {m} /\ UNCHANGED errors
             ELSE /\ UNCHANGED acked
                  /\ errors' = IF client = "redis" /\ m.rev = 2 THEN errors ELSE errors \cup {m}
    BY <1>7 DEF Answered
  <2>2. m \in Messages /\ m \notin acked /\ m \notin errors
    BY DEF AnswerInv, SetsOK, OpenOK, New
  <2>3. said'[m] = word /\ \A o \in Messages : o # m => said'[o] = said[o]
    BY <2>1, <2>2 DEF AnswerInv, SetsOK
  <2>4. CASE word = "yes"
    BY <1>0, <1>1, <2>1, <2>2, <2>3, <2>4 DEF AnswersAreOwn
  <2>5. CASE word = "no"
    BY <1>0, <1>1, <2>1, <2>2, <2>3, <2>5 DEF AnswersAreOwn
  <2> QED BY <2>4, <2>5
<1>8. CASE ReadAnswer
  <2> DEFINE found == Covers(answers[1]) \cap waiting
  <2>1. /\ 1 \in DOMAIN answers /\ Head(answers) = answers[1] /\ found \subseteq Meant(1)
    BY <1>8, FoundIsMeant DEF ReadAnswer
  <2>2. /\ acked' = IF answers[1].word = "yes" THEN acked \cup found ELSE acked
        /\ errors' = IF answers[1].word = "no" THEN errors \cup found ELSE errors
        /\ said' = [m \in Messages |-> IF m \in Meant(1) THEN answers[1].word ELSE said[m]]
    BY <1>8, <2>1 DEF ReadAnswer, Meant
  <2>3. Meant(1) \subseteq Messages /\ answers[1].word \in {"yes", "no"}
    BY <2>1, AnswerFacts DEF AnswerInv
  <2>4. \A m \in Meant(1) : m \notin acked /\ m \notin errors /\ said'[m] = answers[1].word
    BY <2>1, <2>2, <2>3 DEF AnswerInv, OpenOK, New
  <2>5. \A m \in Messages \ Meant(1) : said'[m] = said[m]
    BY <2>2
  <2> HIDE DEF found
  <2>6. ASSUME NEW m \in Messages
        PROVE  /\ m \in acked' => said'[m] = "yes"
               /\ m \in errors' => said'[m] = "no" \/ broken'
    <3>1. CASE m \in Meant(1)
      BY <2>1, <2>2, <2>4, <3>1
    <3>2. CASE m \notin Meant(1)
      BY <1>1, <2>1, <2>2, <2>5, <3>2 DEF AnswersAreOwn
    <3> QED BY <3>1, <3>2
  <2> QED BY <1>0, <2>6 DEF AnswersAreOwn
<1> QED BY <1>0, <1>3, <1>4, <1>5, <1>6, <1>7, <1>8 DEF Kind

-----------------------------------------------------------------------------
(***************************************************************************)
(* A failure has its cause.                                                *)
(***************************************************************************)
\* Kafka's futures; Kafka's and Redis's know of every acknowledgement.
FuturesOK ==
  /\ futures \in Seq(Messages)
  /\ client \in {"kafka", "redis"} => \A m \in Messages : said[m] = "yes" => m \in acked

\* What the broker took is known to be acknowledged.
LEMMA SaidYes ==
  ASSUME PlaceOK, DueOK, HandOK, AnswerInv, FuturesOK, [Next]_vars, client \in {"kafka", "redis"},
         NEW m \in Messages, said'[m] = "yes"
  PROVE  m \in acked'
<1>0. Kind
  BY Kinds
<1>1. ASSUME said' = said, acked' = acked
      PROVE  m \in acked'
  BY <1>1 DEF FuturesOK
<1>2. CASE Answered
  <2>1. PICK o \in wire, word \in {"yes", "no"} :
          /\ said' = [said EXCEPT ![o] = word]
          /\ IF word = "yes" THEN acked' = acked \cup {o} ELSE UNCHANGED acked
    BY <1>2 DEF Answered
  <2>2. o \in Messages /\ said \in [Messages -> {"nothing", "yes", "no"}]
    BY DEF AnswerInv, SetsOK
  <2>3. IF m = o THEN said'[m] = word ELSE said'[m] = said[m]
    BY <2>1, <2>2
  <2>4. CASE m = o
    <3>1. word = "yes"
      BY <2>3, <2>4
    <3> QED BY <2>1, <2>4, <3>1
  <2>5. CASE m # o
    <3>1. m \in acked
      BY <2>3, <2>5 DEF FuturesOK
    <3> QED BY <2>1, <3>1
  <2> QED BY <2>4, <2>5
<1>3. CASE ReadAnswer \/ BrokerAnswers \/ RedisWorkerSends
  <2>1. client \notin {"nats", "rabbitmq"} /\ answers = <<>>
    BY DEF AnswerInv, SetsOK
  <2>2. RedisWorkerSends
    BY <1>3, <2>1 DEF ReadAnswer, BrokerAnswers
  <2>3. said' = said /\ acked' = acked
    BY <2>2 DEF RedisWorkerSends, account
  <2> QED BY <1>1, <2>3
<1>4. CASE Quiet
  BY <1>1, <1>4 DEF Quiet
<1>5. ASSUME NEW X \in SUBSET Messages, Sends(X) \/ Publishes(X) \/ Submits(X) \/ Registers(X) \/ Fails(X)
      PROVE  m \in acked'
  BY <1>1, <1>5 DEF Sends, Publishes, Submits, Registers, Fails
<1> QED BY <1>0, <1>2, <1>3, <1>4, <1>5 DEF Kind

\* Every step keeps the futures those of messages.
LEMMA FuturesKept ==
  ASSUME PlaceOK, DueOK, HandOK, AnswerInv, FuturesOK, [Next]_vars
  PROVE  FuturesOK'
<1>0. Same
  BY Kinds, KindSame
<1> USE DEF Same
<1>1. client' \in {"kafka", "redis"} => \A m \in Messages : said'[m] = "yes" => m \in acked'
  BY <1>0, SaidYes
<1>2. futures' \in Seq(Messages)
  <2>1. CASE KafkaSend
    <3>1. Base(next) \in Messages
      BY <2>1, Bounds, BaseFacts DEF KafkaSend, PlaceOK
    <3> QED BY <2>1, <3>1 DEF KafkaSend, FuturesOK
  <2>2. CASE futures' = Tail(futures) /\ futures # <<>>
    BY <2>2 DEF FuturesOK
  <2>3. CASE futures' = futures
    BY <2>3 DEF FuturesOK
  <2>4. CASE KafkaGot
    <3>1. futures # <<>>
      BY <2>4, EmptySeq, Bounds DEF KafkaGot, MustWait
    <3> QED BY <2>2, <2>4, <3>1 DEF KafkaGot
  <2>5. CASE KafkaGotLast
    BY <2>2, <2>5 DEF KafkaGotLast
  <2>6. CASE Worker
    BY <2>3, <2>6 DEF Worker, WorkerSleeps, WorkerReturns, WorkerTakes, WorkerSends, NatsWorkerWriteRaises,
       WorkerKeepsRow, RedisWorkerNotes, KafkaWorkerDies, main
  <2>7. CASE RedisWorkerSends \/ Answered \/ BrokerAnswers \/ ReadAnswer \/ ConnectionFails \/ Ended
              \/ UNCHANGED vars
    <3>1. UNCHANGED main
      BY <2>7 DEF RedisWorkerSends, Answered, BrokerAnswers, ReadAnswer, ConnectionFails, Ended, vars
    <3> QED BY <2>3, <3>1 DEF main
  <2>8. CASE KafkaGoOn \/ KafkaGetRaises \/ RedisSubmit \/ NatsRegister \/ NatsWrite \/ RabbitPublish \/ WriteRaises
              \/ PlanEnds \/ KafkaGotAll \/ RedisDrained \/ SayNoMore \/ Join \/ KafkaFlushed \/ RedisWrites
              \/ AnswersShort \/ AnswersIn
    BY <2>3, <2>8 DEF KafkaGoOn, KafkaGetRaises, RedisSubmit, NatsRegister, NatsWrite, RabbitPublish, WriteRaises,
       PlanEnds, KafkaGotAll, RedisDrained, SayNoMore, Join, KafkaFlushed, RedisWrites, AnswersShort, AnswersIn
  <2> QED BY <2>1, <2>4, <2>5, <2>6, <2>7, <2>8 DEF Next, Main
<1> QED BY <1>0, <1>1, <1>2 DEF FuturesOK

\* Nothing moves once the producer has ended.
LEMMA EndedStays ==
  ASSUME [Next]_vars, pc \in {"ok", "failed"}
  PROVE  UNCHANGED vars
<1>1. ~Running
  BY DEF Running
<1>2. ~Main
  BY <1>1 DEF Main, KafkaSend, KafkaGoOn, KafkaGot, KafkaGetRaises, RedisSubmit, NatsRegister,
     NatsWrite, RabbitPublish, WriteRaises, PlanEnds, KafkaGotLast, KafkaGotAll, RedisDrained, SayNoMore, Join,
     KafkaFlushed, RedisWrites, AnswersShort, AnswersIn, Go
<1>3. ~Worker
  BY <1>1 DEF Worker, WorkerSleeps, WorkerReturns, WorkerTakes, WorkerSends, NatsWorkerWriteRaises,
     WorkerKeepsRow, RedisWorkerNotes, KafkaWorkerDies, Works
<1> QED BY <1>1, <1>2, <1>3 DEF Next, RedisWorkerSends, Answered, BrokerAnswers, ReadAnswer, ConnectionFails, Ended

\* Every step that fails has a cause.
LEMMA CauseKept ==
  ASSUME PlaceOK, AnswerInv, AnswersAreOwn, FuturesOK, FailsForCause, [Next]_vars
  PROVE  FailsForCause'
<1>1. CASE pc \in {"ok", "failed"}
  <2>1. UNCHANGED <<pc, broken, said, client>>
    BY <1>1, EndedStays DEF vars, main, broker
  <2> QED BY <2>1, SameMessages DEF FailsForCause
<1>2. CASE pc \notin {"ok", "failed"}
  <2>0. client' = client /\ Messages' = Messages
    BY PlaceKept, SameMessages
  <2>1. ASSUME broken, UNCHANGED broker
        PROVE  FailsForCause'
    BY <2>0, <2>1 DEF FailsForCause, broker
  <2>2. ASSUME NEW m \in Messages, said[m] # "yes", UNCHANGED broker
        PROVE  FailsForCause'
    BY <2>0, <2>2 DEF FailsForCause, broker
  <2>3. ASSUME NEW m \in errors, UNCHANGED broker
        PROVE  FailsForCause'
    <3>1. m \in Messages /\ (said[m] = "no" \/ broken)
      BY DEF AnswerInv, SetsOK, AnswersAreOwn
    <3> QED BY <2>1, <2>2, <2>3, <3>1
  <2>4. CASE pc' # "failed"
    BY <2>4 DEF FailsForCause
  <2>5. CASE KafkaGetRaises
    <3>1. UNCHANGED broker /\ futures # <<>> /\ Head(futures) \notin acked /\ client = "kafka"
      BY <2>5 DEF KafkaGetRaises
    <3>2. Head(futures) \in Messages
      BY <3>1 DEF FuturesOK
    <3> QED BY <2>2, <3>1, <3>2 DEF FuturesOK
  <2>6. CASE WriteRaises
    BY <2>1, <2>6 DEF WriteRaises
  <2>7. CASE RedisDrained \/ KafkaFlushed \/ RedisWrites
    <3>1. UNCHANGED broker /\ (errors # {} \/ pc' # "failed")
      BY <2>7 DEF RedisDrained, KafkaFlushed, RedisWrites, Go
    <3> QED BY <2>3, <2>4, <3>1
  <2>8. CASE AnswersShort
    <3>1. UNCHANGED broker /\ (broken \/ errors # {} \/ waiting # {})
      BY <2>8 DEF AnswersShort
    <3>2. \A m \in waiting : m \in Messages /\ said[m] # "yes"
      BY DEF AnswerInv, SetsOK, WaitingOK
    <3> QED BY <2>1, <2>2, <2>3, <3>1, <3>2
  <2>9. CASE Worker
    BY <1>2, <2>4, <2>9 DEF Worker, WorkerSleeps, WorkerReturns, WorkerTakes, WorkerSends, NatsWorkerWriteRaises,
       WorkerKeepsRow, RedisWorkerNotes, KafkaWorkerDies, main
  <2>10. CASE RedisWorkerSends \/ Answered \/ BrokerAnswers \/ ReadAnswer \/ ConnectionFails \/ Ended
              \/ UNCHANGED vars
    <3>1. UNCHANGED main
      BY <2>10 DEF RedisWorkerSends, Answered, BrokerAnswers, ReadAnswer, ConnectionFails, Ended, vars
    <3> QED BY <1>2, <2>4, <3>1 DEF main
  <2>11. CASE KafkaSend \/ KafkaGoOn \/ KafkaGot \/ RedisSubmit \/ NatsRegister \/ NatsWrite \/ RabbitPublish
              \/ KafkaGotLast \/ KafkaGotAll \/ SayNoMore \/ AnswersIn
    BY <2>4, <2>11 DEF KafkaSend, KafkaGoOn, KafkaGot, RedisSubmit, NatsRegister, NatsWrite, RabbitPublish,
       KafkaGotLast, KafkaGotAll, SayNoMore, AnswersIn, Go
  <2>12. CASE PlanEnds
    <3>1. client \in {"kafka", "redis", "nats", "rabbitmq"}
      BY Bounds DEF PlaceOK
    <3>2. pc' = CASE client = "kafka" -> "futures" [] client = "redis" -> "pool"
                  [] client = "nats" -> "noMore"   [] client = "rabbitmq" -> "answers"
      BY <2>12 DEF PlanEnds, Go
    <3> QED BY <2>4, <3>1, <3>2
  <2>13. CASE Join
    <3>1. client \in {"kafka", "redis", "nats"}
      BY <2>13, Bounds DEF PlaceOK, Join, Go
    <3>2. pc' = CASE client = "kafka" -> "flush" [] client = "redis" -> "corrections" [] client = "nats" -> "answers"
      BY <2>13 DEF Join, Go
    <3> QED BY <2>4, <3>1, <3>2
  <2> QED BY <2>5, <2>6, <2>7, <2>8, <2>9, <2>10, <2>11, <2>12, <2>13 DEF Next, Main
<1> QED BY <1>1, <1>2

-----------------------------------------------------------------------------
(***************************************************************************)
(* Nothing is lost: every message that has been sent is on the wire,       *)
(* waited for, or accounted for.                                           *)
(***************************************************************************)
\* A row is done: its correction is on the heap.
LEMMA RowIsDue ==
  ASSUME PlaceOK, DueOK, HandOK, RowDone, client' = client, next <= N
  PROVE  /\ ToSet(due) \subseteq ToSet(due')
         /\ \A m \in Corrected : m.of = next => m \in ToSet(due')
<1>1. CASE Corrects(next)
  <2> DEFINE c == Correction(next)
  <2>1. next \in 1..N /\ next \in Nat
    BY Bounds DEF PlaceOK
  <2>2. c \in Corrected /\ c.of = next /\ due' = Append(due, c)
    BY <1>1, <2>1, CorrectionFacts DEF RowDone
  <2> HIDE DEF c
  <2>3. ToSet(due') = ToSet(due) \cup {c}
    BY <2>1, <2>2, OneMoreDue
  <2>4. \A m \in Corrected : m.of = next => m = c
    BY <2>2, CorrectionFacts
  <2> QED BY <2>3, <2>4
<1>2. CASE ~Corrects(next)
  <2>1. \A m \in Corrected : m.of # next
    BY <1>2, CorrectionFacts
  <2> QED BY <1>2, <2>1 DEF RowDone
<1> QED BY <1>1, <1>2

\* A correction is taken off the heap.
LEMMA Taken ==
  ASSUME DueOK, HandOK, WorkerTakes
  PROVE  /\ 1 \in DOMAIN due /\ due[1] \in Corrected /\ inHand' = {due[1]} /\ Head(due) = due[1]
         /\ ToSet(due) = {due[1]} \cup ToSet(due') /\ inHand = {} /\ worker' = "sending" /\ worker = "look"
         /\ \A i \in DOMAIN due' : i + 1 \in DOMAIN due /\ due'[i] = due[i + 1] /\ due[1].of < due[i + 1].of
         /\ UNCHANGED <<next, pc>>
<1>1. /\ Len(due) \in Nat \ {0} /\ DOMAIN due = 1..Len(due)
      /\ DOMAIN Tail(due) = 1..(Len(due) - 1)
      /\ \A i \in 1..(Len(due) - 1) : Tail(due)[i] = due[i + 1]
      /\ Head(due) = due[1] /\ due[1] \in Corrected
  BY DEF WorkerTakes, DueOK
<1>2. due' = Tail(due) /\ inHand' = {due[1]} /\ UNCHANGED <<next, pc>> /\ worker' = "sending" /\ worker = "look"
  BY <1>1 DEF WorkerTakes, Works, main
<1>3. \A i \in DOMAIN due' : due'[i] = due[i + 1] /\ i + 1 \in DOMAIN due /\ 1 < i + 1
  BY <1>1, <1>2
<1>4. 1 \in DOMAIN due /\ inHand = {}
  BY <1>1, <1>2 DEF HandOK
<1>5. \A i \in DOMAIN due : i = 1 \/ (i - 1 \in DOMAIN due' /\ due'[i - 1] = due[i])
  BY <1>1, <1>2
<1>6. ToSet(due) = {due[1]} \cup ToSet(due')
  <2>1. ToSet(due') \subseteq ToSet(due)
    BY <1>3 DEF ToSet
  <2>2. due[1] \in ToSet(due)
    BY <1>4 DEF ToSet
  <2>3. ToSet(due) \subseteq {due[1]} \cup ToSet(due')
    BY <1>5 DEF ToSet
  <2> QED BY <2>1, <2>2, <2>3
<1>7. \A i \in DOMAIN due' : due[1].of < due[i + 1].of
  BY <1>3, <1>4 DEF DueOK
<1> QED BY <1>1, <1>2, <1>3, <1>4, <1>6, <1>7

\* NATS's and RabbitMQ's: the message has been registered, and what has been is
\* waited for, acknowledged or failed.
Registered(m) ==
  \/ m.of < next /\ (m.rev # 1 => m \notin ToSet(due))
  \/ m.rev = 1 /\ m.of = next /\ pc = "write"
Accounted == waiting \cup acked \cup errors

AskedOK == client \in {"nats", "rabbitmq"} => \A m \in Messages : Registered(m) => m \in Accounted

\* Every step keeps the account of what is in it.
LEMMA AccountGrows ==
  ASSUME PlaceOK, DueOK, HandOK, AnswerInv, [Next]_vars, client \in {"nats", "rabbitmq"}
  PROVE  Accounted \subseteq Accounted'
<1>0. Kind
  BY Kinds
<1>1. CASE Quiet
  BY <1>1 DEF Quiet, Accounted
<1>2. ASSUME NEW X \in SUBSET Messages, Sends(X) \/ Publishes(X) \/ Submits(X) \/ Registers(X) \/ Fails(X)
      PROVE  Accounted \subseteq Accounted'
  BY <1>2 DEF Sends, Publishes, Submits, Registers, Fails, Accounted
<1>3. CASE RedisWorkerSends \/ Answered \/ BrokerAnswers
  BY <1>3 DEF RedisWorkerSends, Answered, BrokerAnswers, account, Accounted
<1>4. CASE ReadAnswer
  <2> DEFINE found == Covers(Head(answers)) \cap waiting
  <2>1. Head(answers).word \in {"yes", "no"}
    BY <1>4, FoundIsMeant, AnswerFacts DEF ReadAnswer, AnswerInv
  <2>2. /\ waiting' = waiting \ found
        /\ acked' = IF Head(answers).word = "yes" THEN acked \cup found ELSE acked
        /\ errors' = IF Head(answers).word = "no" THEN errors \cup found ELSE errors
    BY <1>4 DEF ReadAnswer
  <2> HIDE DEF found
  <2> QED BY <2>1, <2>2 DEF Accounted
<1> QED BY <1>0, <1>1, <1>2, <1>3, <1>4 DEF Kind

\* What is registered is waited for.
LEMMA NewlyRegistered ==
  ASSUME PlaceOK, DueOK, HandOK, [Next]_vars, client \in {"nats", "rabbitmq"},
         NEW m \in Messages, ~Registered(m), Registered(m)'
  PROVE  m \in waiting'
<1>0. /\ next \in Nat /\ m.of \in Nat /\ (m.rev = 1 => m = Base(m.of)) /\ (m.rev # 1 => m \in Corrected)
      /\ next <= N + 1 /\ client' = client
  BY MessageFacts, PlaceKept, Bounds DEF PlaceOK
<1>1. ASSUME UNCHANGED <<next, due>>, pc' = "write" => pc = "write"
      PROVE  FALSE
  BY <1>1 DEF Registered
<1>2. CASE NatsRegister
  <2>1. UNCHANGED <<next, due>> /\ waiting' = waiting \cup {Base(next)}
    BY <1>2 DEF NatsRegister, corrections
  <2>2. m.rev = 1 /\ m.of = next
    BY <2>1 DEF Registered
  <2> QED BY <1>0, <2>1, <2>2
<1>3. CASE NatsWrite \/ RabbitPublish
  <2>1. /\ RowDone /\ next <= N /\ next' = next + 1 /\ pc' = "send"
        /\ (client = "nats" => pc = "write")
        /\ (client = "rabbitmq" => waiting' = waiting \cup {Base(next)})
    BY <1>3 DEF NatsWrite, RabbitPublish, Go, PlaceOK, RowDone
  <2>2. ToSet(due) \subseteq ToSet(due') /\ \A o \in Corrected : o.of = next => o \in ToSet(due')
    BY <1>0, <2>1, RowIsDue
  <2>3. m.of = next /\ m.rev = 1
    BY <1>0, <2>1, <2>2 DEF Registered
  <2> QED BY <1>0, <2>1, <2>3 DEF Registered
<1>4. CASE WorkerTakes
  <2>1. UNCHANGED <<next, pc>> /\ ToSet(due) = {due[1]} \cup ToSet(due') /\ Head(due) = due[1] /\ due[1] \in Corrected
    BY <1>4, Taken
  <2>2. m = due[1]
    BY <2>1 DEF Registered
  <2>3. client = "nats"
    BY <2>1, CorrectionFacts
  <2> QED BY <1>4, <2>1, <2>2, <2>3 DEF WorkerTakes
<1>5. CASE Worker /\ ~WorkerTakes
  BY <1>1, <1>5 DEF Worker, WorkerSleeps, WorkerReturns, WorkerSends, NatsWorkerWriteRaises, WorkerKeepsRow,
     RedisWorkerNotes, KafkaWorkerDies, main
<1>6. CASE RedisWorkerSends \/ Answered \/ BrokerAnswers \/ ReadAnswer \/ ConnectionFails \/ Ended
            \/ UNCHANGED vars
  <2>1. UNCHANGED <<main, corrections>>
    BY <1>6 DEF RedisWorkerSends, Answered, BrokerAnswers, ReadAnswer, ConnectionFails, Ended, vars
  <2> QED BY <1>1, <2>1 DEF main, corrections
<1>7. CASE KafkaSend \/ KafkaGoOn \/ KafkaGot \/ KafkaGetRaises \/ RedisSubmit \/ WriteRaises \/ KafkaGotLast
           \/ KafkaGotAll \/ RedisDrained \/ SayNoMore \/ KafkaFlushed \/ RedisWrites \/ AnswersShort \/ AnswersIn
  BY <1>1, <1>7 DEF KafkaSend, KafkaGoOn, KafkaGot, KafkaGetRaises, RedisSubmit, WriteRaises, KafkaGotLast,
     KafkaGotAll, RedisDrained, SayNoMore, KafkaFlushed, RedisWrites, AnswersShort, AnswersIn, Go, PlaceOK,
     corrections
<1>8. CASE PlanEnds
  <2>1. UNCHANGED <<next, due>> /\ pc' \in {"noMore", "answers"}
    BY <1>8 DEF PlanEnds, Go, corrections
  <2> QED BY <1>1, <2>1
<1>9. CASE Join
  <2>1. UNCHANGED <<next, due>> /\ client = "nats"
    BY <1>9 DEF Join, Go, corrections, PlaceOK
  <2>2. pc' = "answers"
    BY <1>9, <2>1 DEF Join, Go
  <2> QED BY <1>1, <2>1, <2>2
<1> QED BY <1>2, <1>3, <1>4, <1>5, <1>6, <1>7, <1>8, <1>9 DEF Next, Main

\* Every step keeps what is registered in the account.
LEMMA AskedKept ==
  ASSUME PlaceOK, DueOK, HandOK, AnswerInv, AskedOK, [Next]_vars
  PROVE  AskedOK'
<1>1. client' = client /\ Messages' = Messages
  BY PlaceKept, SameMessages
<1>2. ASSUME client \in {"nats", "rabbitmq"}, NEW m \in Messages, Registered(m)'
      PROVE  m \in Accounted'
  <2>1. CASE Registered(m)
    BY <1>2, <2>1, AccountGrows DEF AskedOK
  <2>2. CASE ~Registered(m)
    <3>1. m \in waiting'
      BY <1>2, <2>2, NewlyRegistered
    <3> QED BY <3>1 DEF Accounted
  <2> QED BY <2>1, <2>2
<1> QED BY <1>1, <1>2 DEF AskedOK

\* Kafka's and Redis's: what is not answered is on the wire or with the pool, and
\* what was refused is known to have failed, or is in the correction thread's hand.
ToldOK ==
  client \in {"kafka", "redis"} =>
    /\ \A m \in Messages :
         /\ Sent(m) /\ said[m] = "nothing" => m \in wire \cup pool
         /\ said[m] = "no" => m \in errors \/ (client = "redis" /\ m \in inHand)
    /\ client = "redis" => \A m \in wire : m.rev = 2 => m \in inHand
    /\ \A m \in pool : m.rev = 1

\* What is sent is on the wire or with the pool.
LEMMA NewlySent ==
  ASSUME PlaceOK, DueOK, HandOK, AnswerInv, [Next]_vars, client \in {"kafka", "redis"},
         NEW m \in Messages, ~Sent(m), Sent(m)'
  PROVE  m \in wire' \cup pool'
<1>0. /\ next \in Nat /\ m.of \in Nat /\ (m.rev = 1 => m = Base(m.of)) /\ (m.rev # 1 => m \in Corrected)
      /\ next <= N + 1 /\ client' = client /\ m.of <= N
  BY MessageFacts, PlaceKept, Bounds DEF PlaceOK
<1>1. ASSUME UNCHANGED <<next, due, inHand>>, worker' = "sending" <=> worker = "sending",
             pc' \in {"sent", "failed"} => pc \in {"sent", "failed"} \/ next > N
      PROVE  FALSE
  BY <1>0, <1>1, Bounds DEF Sent
<1>2. CASE KafkaSend
  <2>1. UNCHANGED <<next, due, inHand, worker>> /\ wire' = wire \cup {Base(next)}
    BY <1>2 DEF KafkaSend, corrections
  <2>2. m.rev = 1 /\ m.of = next
    BY <2>1 DEF Sent
  <2> QED BY <1>0, <2>1, <2>2
<1>3. CASE KafkaGoOn \/ KafkaGot \/ RedisSubmit
  <2>1. /\ RowDone /\ next <= N /\ next' = next + 1 /\ pc' = "send"
        /\ (client = "kafka" => pc = "sent")
        /\ (client = "redis" => pool' = pool \cup {Base(next)})
    BY <1>3 DEF KafkaGoOn, KafkaGot, RedisSubmit, Go, PlaceOK, RowDone
  <2>2. ToSet(due) \subseteq ToSet(due') /\ \A o \in Corrected : o.of = next => o \in ToSet(due')
    BY <1>0, <2>1, RowIsDue
  <2>3. inHand' = inHand /\ (worker = "sending" <=> worker' = "sending")
    BY <1>0, <2>1, RowIsDone
  <2>4. m.of = next /\ m.rev = 1
    BY <1>0, <2>1, <2>2, <2>3 DEF Sent
  <2> QED BY <1>0, <2>1, <2>4 DEF Sent
<1>4. CASE WorkerTakes
  BY <1>4, Taken DEF Sent
<1>5. CASE WorkerSends
  <2>1. UNCHANGED <<next, pc, due>> /\ wire' = wire \cup inHand
    BY <1>5 DEF WorkerSends, main
  <2>2. m \in inHand
    BY <2>1 DEF Sent
  <2> QED BY <2>1, <2>2
<1>6. CASE WorkerKeepsRow \/ RedisWorkerNotes \/ KafkaWorkerDies
  <2>1. UNCHANGED <<next, pc, due>> /\ worker # "sending" /\ worker' # "sending"
    BY <1>6 DEF WorkerKeepsRow, RedisWorkerNotes, KafkaWorkerDies, main, Works
  <2> QED BY <2>1 DEF Sent
<1>7. CASE WorkerSleeps \/ WorkerReturns
  BY <1>1, <1>7 DEF WorkerSleeps, WorkerReturns, main, Works
<1>8. CASE RedisWorkerSends \/ Answered \/ BrokerAnswers \/ ReadAnswer \/ ConnectionFails \/ Ended
            \/ UNCHANGED vars
  <2>1. UNCHANGED <<main, corrections>>
    BY <1>8 DEF RedisWorkerSends, Answered, BrokerAnswers, ReadAnswer, ConnectionFails, Ended, vars
  <2> QED BY <1>1, <2>1 DEF main, corrections
<1>9. CASE KafkaGetRaises \/ WriteRaises \/ KafkaGotLast \/ KafkaGotAll \/ RedisDrained \/ KafkaFlushed
           \/ RedisWrites \/ AnswersShort \/ AnswersIn
  <2>1. UNCHANGED <<next, due, inHand, worker>>
    BY <1>9 DEF KafkaGetRaises, WriteRaises, KafkaGotLast, KafkaGotAll, RedisDrained, KafkaFlushed,
       RedisWrites, AnswersShort, AnswersIn, corrections
  <2>2. pc' \in {"sent", "failed"} => pc \in {"sent", "failed"} \/ next > N
    BY <1>0, <1>9, Bounds DEF KafkaGetRaises, WriteRaises, KafkaGotLast, KafkaGotAll, RedisDrained, KafkaFlushed,
       RedisWrites, AnswersShort, AnswersIn, Go, PlaceOK
  <2> QED BY <1>1, <2>1, <2>2
<1>10. CASE SayNoMore
  BY <1>1, <1>10 DEF SayNoMore, Notify, Go
<1>11. CASE PlanEnds \/ Join
  <2>1. UNCHANGED <<next, due, inHand, worker>>
    BY <1>11 DEF PlanEnds, Join, corrections
  <2>2. pc' \in {"futures", "pool", "flush", "corrections"}
    BY <1>11 DEF PlanEnds, Join, Go
  <2> QED BY <1>1, <2>1, <2>2
<1>12. CASE NatsRegister \/ NatsWrite \/ RabbitPublish \/ NatsWorkerWriteRaises
  BY <1>12 DEF NatsRegister, NatsWrite, RabbitPublish, NatsWorkerWriteRaises
<1> QED BY <1>2, <1>3, <1>4, <1>5, <1>6, <1>7, <1>8, <1>9, <1>10, <1>11, <1>12 DEF Next, Main, Worker

\* What a step does to what is in hand.
LEMMA HandSteps ==
  ASSUME [Next]_vars
  PROVE  \/ inHand' = inHand
         \/ WorkerTakes \/ (client = "nats" /\ WorkerSends) \/ NatsWorkerWriteRaises \/ WorkerKeepsRow
         \/ RedisWorkerNotes \/ KafkaWorkerDies
<1>1. CASE KafkaSend \/ KafkaGoOn \/ KafkaGot \/ KafkaGetRaises \/ RedisSubmit \/ NatsRegister \/ NatsWrite
           \/ RabbitPublish \/ WriteRaises \/ PlanEnds \/ KafkaGotLast \/ KafkaGotAll \/ RedisDrained \/ SayNoMore
           \/ Join \/ KafkaFlushed \/ RedisWrites \/ AnswersShort \/ AnswersIn
  BY <1>1 DEF KafkaSend, KafkaGoOn, KafkaGot, KafkaGetRaises, RedisSubmit, NatsRegister, NatsWrite,
     RabbitPublish, WriteRaises, PlanEnds, KafkaGotLast, KafkaGotAll, RedisDrained, SayNoMore, Join,
     KafkaFlushed, RedisWrites, AnswersShort, AnswersIn, RowDone, corrections
<1>2. CASE WorkerSleeps \/ WorkerReturns \/ WorkerSends
  BY <1>2 DEF WorkerSleeps, WorkerReturns, WorkerSends
<1>3. CASE RedisWorkerSends \/ Answered \/ BrokerAnswers \/ ReadAnswer \/ ConnectionFails \/ Ended
            \/ UNCHANGED vars
  BY <1>3 DEF RedisWorkerSends, Answered, BrokerAnswers, ReadAnswer, ConnectionFails, Ended, vars, corrections
<1> QED BY <1>1, <1>2, <1>3 DEF Next, Main, Worker

\* What a step hands to the broker.
LEMMA WireSteps ==
  ASSUME [Next]_vars
  PROVE  /\ \/ wire' \subseteq wire \/ wire' = wire \cup {Base(next)}
            \/ WorkerSends \/ RedisWorkerSends
         /\ pool' \subseteq pool \cup {Base(next)}
<1>1. CASE KafkaSend \/ KafkaGoOn \/ KafkaGot \/ KafkaGetRaises \/ RedisSubmit \/ NatsRegister \/ NatsWrite
           \/ RabbitPublish \/ WriteRaises \/ PlanEnds \/ KafkaGotLast \/ KafkaGotAll \/ RedisDrained \/ SayNoMore
           \/ Join \/ KafkaFlushed \/ RedisWrites \/ AnswersShort \/ AnswersIn
  BY <1>1 DEF KafkaSend, KafkaGoOn, KafkaGot, KafkaGetRaises, RedisSubmit, NatsRegister, NatsWrite,
     RabbitPublish, WriteRaises, PlanEnds, KafkaGotLast, KafkaGotAll, RedisDrained, SayNoMore, Join,
     KafkaFlushed, RedisWrites, AnswersShort, AnswersIn, broker
<1>2. CASE Worker
  BY <1>2 DEF Worker, WorkerSleeps, WorkerReturns, WorkerTakes, WorkerSends, NatsWorkerWriteRaises,
     WorkerKeepsRow, RedisWorkerNotes, KafkaWorkerDies, broker
<1>3. CASE RedisWorkerSends \/ Answered \/ BrokerAnswers \/ ReadAnswer \/ ConnectionFails \/ Ended
            \/ UNCHANGED vars
  BY <1>3 DEF RedisWorkerSends, Answered, BrokerAnswers, ReadAnswer, ConnectionFails, Ended, vars, broker
<1> QED BY <1>1, <1>2, <1>3 DEF Next, Main

\* Every step keeps what was sent in one of these places.
LEMMA ToldKept ==
  ASSUME PlaceOK, DueOK, HandOK, AnswerInv, AnswersAreOwn, ToldOK, [Next]_vars
  PROVE  ToldOK'
<1>0. Same /\ Kind
  BY Kinds, KindSame
<1> USE DEF Same
<1>3. client \in {"kafka", "redis"} => \A m \in pool' : m.rev = 1
  BY BaseFacts, WireSteps DEF ToldOK
<1>1. CASE client \notin {"kafka", "redis"}
  BY <1>0, <1>1 DEF ToldOK
<1>2. CASE client \in {"kafka", "redis"}
  <2>0. client \notin {"nats", "rabbitmq"} /\ answers = <<>> /\ ~NatsWorkerWriteRaises /\ ~(client = "nats" /\ WorkerSends)
    BY <1>2 DEF AnswerInv, SetsOK, NatsWorkerWriteRaises
  <2>1. /\ said \in [Messages -> {"nothing", "yes", "no"}] /\ wire \subseteq Messages /\ errors \subseteq Messages
        /\ acked \subseteq Messages
    BY DEF AnswerInv, SetsOK
  <2>2. \/ said' = said /\ wire \cup pool \subseteq wire' \cup pool' /\ errors \subseteq errors'
        \/ Answered
    <3>1. CASE Quiet
      BY <3>1 DEF Quiet
    <3>2. ASSUME NEW X \in SUBSET Messages, Sends(X) \/ Publishes(X) \/ Submits(X) \/ Registers(X) \/ Fails(X)
          PROVE  said' = said /\ wire \cup pool \subseteq wire' \cup pool' /\ errors \subseteq errors'
      BY <3>2 DEF Sends, Publishes, Submits, Registers, Fails
    <3>3. CASE RedisWorkerSends
      BY <3>3 DEF RedisWorkerSends, account
    <3>4. ~BrokerAnswers /\ ~ReadAnswer
      BY <2>0 DEF BrokerAnswers, ReadAnswer
    <3> QED BY <1>0, <3>1, <3>2, <3>3, <3>4 DEF Kind
  <2>3. CASE Answered
    <3>1. PICK o \in wire, word \in {"yes", "no"} :
            /\ wire' = wire \ {o} /\ said' = [said EXCEPT ![o] = word]
            /\ IF word = "yes" THEN acked' = acked \cup {o} /\ UNCHANGED errors
               ELSE /\ UNCHANGED acked
                    /\ errors' = IF client = "redis" /\ o.rev = 2 THEN errors ELSE errors \cup {o}
      BY <2>3 DEF Answered
    <3>2. UNCHANGED <<pool, inHand, next, pc, due, worker>>
      BY <2>3 DEF Answered, main, corrections
    <3>3. \A m \in Messages : Sent(m)' = Sent(m)
      BY <3>2 DEF Sent
    <3>4. o \in Messages /\ said'[o] = word /\ \A m \in Messages : m # o => said'[m] = said[m]
      BY <2>1, <3>1
    <3>5. word = "no" => o \in errors' \/ (client = "redis" /\ o \in inHand)
      BY <1>2, <3>1 DEF ToldOK
    <3>6. errors \subseteq errors'
      BY <3>1
    <3>7. ASSUME NEW m \in Messages
          PROVE  /\ Sent(m)' /\ said'[m] = "nothing" => m \in wire' \cup pool'
                 /\ said'[m] = "no" => m \in errors' \/ (client = "redis" /\ m \in inHand')
      BY <1>2, <3>1, <3>2, <3>3, <3>4, <3>5, <3>6 DEF ToldOK
    <3>8. client = "redis" => \A m \in wire' : m.rev = 2 => m \in inHand'
      BY <1>2, <3>1, <3>2 DEF ToldOK
    <3> QED BY <1>0, <1>3, <3>7, <3>8 DEF ToldOK
  <2>4. CASE said' = said /\ wire \cup pool \subseteq wire' \cup pool' /\ errors \subseteq errors'
    <3>1. \A m \in Messages : Sent(m)' /\ said'[m] = "nothing" => m \in wire' \cup pool'
      BY <1>2, <2>4, NewlySent DEF ToldOK
    <3>2. ASSUME NEW m \in Messages, said[m] = "no", client = "redis", m \in inHand, m \notin inHand'
          PROVE  m \in errors'
      <4>1. WorkerKeepsRow \/ RedisWorkerNotes
        <5>1. ~WorkerTakes
          BY <3>2, Taken
        <5>2. ~KafkaWorkerDies
          BY <3>2 DEF KafkaWorkerDies
        <5> QED BY <2>0, <3>2, <5>1, <5>2, HandSteps
      <4>2. ~WorkerKeepsRow
        BY <3>2 DEF WorkerKeepsRow, AnswersAreOwn
      <4> QED BY <3>2, <4>1, <4>2 DEF RedisWorkerNotes
    <3>3. \A m \in Messages : said'[m] = "no" => m \in errors' \/ (client = "redis" /\ m \in inHand')
      BY <1>2, <2>4, <3>2 DEF ToldOK
    <3>4. ASSUME client = "redis", NEW m \in wire', m.rev = 2
          PROVE  m \in inHand'
      <4>1. CASE m \in wire
        <5>1. m \in inHand /\ m \notin acked /\ said[m] = "nothing"
          BY <1>2, <3>4, <4>1 DEF ToldOK, AnswerInv, OpenOK, New
        <5>2. ~WorkerTakes
          BY <5>1, Taken
        <5>3. ~KafkaWorkerDies /\ ~WorkerKeepsRow
          BY <3>4, <5>1 DEF KafkaWorkerDies, WorkerKeepsRow
        <5>4. ~RedisWorkerNotes
          <6>1. \A o \in inHand : o = m
            BY <5>1 DEF HandOK
          <6> QED BY <5>1, <6>1 DEF RedisWorkerNotes
        <5> QED BY <2>0, <5>1, <5>2, <5>3, <5>4, HandSteps
      <4>2. CASE m \notin wire
        <5>1. CASE WorkerSends
          BY <3>4, <4>2, <5>1 DEF WorkerSends
        <5>2. CASE RedisWorkerSends
          <6>1. m \in pool
            BY <3>4, <4>2, <5>2 DEF RedisWorkerSends
          <6> QED BY <1>2, <3>4, <6>1 DEF ToldOK
        <5>3. m # Base(next)
          BY <3>4, BaseFacts
        <5> QED BY <3>4, <4>2, <5>1, <5>2, <5>3, WireSteps
      <4> QED BY <4>1, <4>2
    <3> QED BY <1>0, <1>3, <3>1, <3>3, <3>4 DEF ToldOK
  <2> QED BY <2>2, <2>3, <2>4
<1> QED BY <1>1, <1>2

-----------------------------------------------------------------------------
(***************************************************************************)
(* The corrections' rows.                                                  *)
(***************************************************************************)
\* The rows kept are in order, before what is in hand and what is due.
RowsOK ==
  /\ corrRows \in Seq(Corrected)
  /\ \A i, j \in DOMAIN corrRows : i < j => corrRows[i].of < corrRows[j].of
  /\ \A i \in DOMAIN corrRows :
       /\ corrRows[i].of < next
       /\ client # "nats" => corrRows[i] \in acked
       /\ \A j \in DOMAIN due : corrRows[i].of < due[j].of
       /\ client # "nats" => \A m \in inHand : corrRows[i].of < m.of

\* A correction is due, in hand, kept, or has failed.
CorrOK ==
  /\ client = "nats" => inHand \subseteq ToSet(corrRows) /\ worker # "waiting"
  /\ \A m \in Corrected : m.of < next => m \in ToSet(due) \cup inHand \cup ToSet(corrRows) \cup errors
  /\ worker \in {"sending", "waiting"} => inHand # {}

\* One more row is kept.
LEMMA OneRow ==
  ASSUME corrRows \in Seq(Corrected), NEW c \in Corrected
  PROVE  /\ Append(corrRows, c) \in Seq(Corrected)
         /\ DOMAIN corrRows \subseteq DOMAIN Append(corrRows, c)
         /\ \A i \in DOMAIN corrRows : Append(corrRows, c)[i] = corrRows[i]
         /\ \A i \in DOMAIN Append(corrRows, c) :
              i \notin DOMAIN corrRows =>
                Append(corrRows, c)[i] = c /\ \A j \in DOMAIN Append(corrRows, c) : ~(i < j)
         /\ ToSet(Append(corrRows, c)) = ToSet(corrRows) \cup {c}
<1> DEFINE d == Append(corrRows, c)
<1>1. PICK n \in Nat : n = Len(corrRows)
  OBVIOUS
<1>2. /\ d \in Seq(Corrected) /\ DOMAIN corrRows = 1..n /\ DOMAIN d = 1..(n + 1)
      /\ \A i \in 1..n : d[i] = corrRows[i]
      /\ d[n + 1] = c
  BY <1>1
<1> HIDE DEF d
<1>3. \A i \in 1..(n + 1) : i \in 1..n \/ i = n + 1
  OBVIOUS
<1>4. 1..n \subseteq 1..(n + 1) /\ n + 1 \in 1..(n + 1) /\ \A j \in 1..(n + 1) : ~(n + 1 < j)
  OBVIOUS
<1>5. ToSet(d) = ToSet(corrRows) \cup {c}
  <2>1. ToSet(d) = {d[i] : i \in 1..(n + 1)} /\ ToSet(corrRows) = {corrRows[i] : i \in 1..n}
    BY <1>2 DEF ToSet
  <2> QED BY <1>2, <1>3, <1>4, <2>1
<1>6. \A i \in 1..(n + 1) : i \notin 1..n => i = n + 1
  BY <1>3
<1> QED BY <1>2, <1>4, <1>5, <1>6 DEF d

\* A set of one as a sequence.
LEMMA OneToSeq ==
  ASSUME NEW c
  PROVE  SetToSeq({c}) = <<c>>
<1>1. Cardinality({c}) = 1
  BY FS_Singleton
<1> DEFINE g == <<c>>
<1>2. 1..1 = {1}
  OBVIOUS
<1>3. g \in [1..1 -> {c}] /\ IsInjective(g)
  BY <1>2 DEF IsInjective
<1>4. \E f \in [1..1 -> {c}] : IsInjective(f)
  BY <1>3
<1>5. SetToSeq({c}) = CHOOSE f \in [1..1 -> {c}] : IsInjective(f)
  BY <1>1 DEF SetToSeq
<1>6. SetToSeq({c}) \in [1..1 -> {c}]
  BY <1>4, <1>5
<1>7. \A f \in [1..1 -> {c}] : f = g
  <2> SUFFICES ASSUME NEW f \in [1..1 -> {c}]
               PROVE  f = g
    OBVIOUS
  <2>1. \A i \in 1..1 : f[i] = c /\ g[i] = c
    BY <1>3
  <2> HIDE DEF g
  <2>2. f = [i \in 1..1 |-> f[i]] /\ g = [i \in 1..1 |-> g[i]]
    BY <1>3
  <2> QED BY <2>1, <2>2
<1> QED BY <1>6, <1>7

\* The rows that a step keeps.
LEMMA RowSteps ==
  ASSUME PlaceOK, DueOK, HandOK, CorrOK, RowsOK, [Next]_vars, corrRows' # corrRows
  PROVE  \/ client = "nats" /\ WorkerTakes /\ corrRows' = Append(corrRows, due[1])
         \/ WorkerKeepsRow /\ \E c \in inHand : inHand = {c} /\ c \in acked /\ corrRows' = Append(corrRows, c)
<1>1. CASE KafkaSend \/ KafkaGoOn \/ KafkaGot \/ KafkaGetRaises \/ RedisSubmit \/ NatsRegister \/ NatsWrite
           \/ RabbitPublish \/ WriteRaises \/ PlanEnds \/ KafkaGotLast \/ KafkaGotAll \/ RedisDrained \/ SayNoMore
           \/ Join \/ KafkaFlushed \/ RedisWrites \/ AnswersShort \/ AnswersIn
  BY <1>1 DEF KafkaSend, KafkaGoOn, KafkaGot, KafkaGetRaises, RedisSubmit, NatsRegister, NatsWrite,
     RabbitPublish, WriteRaises, PlanEnds, KafkaGotLast, KafkaGotAll, RedisDrained, SayNoMore, Join,
     KafkaFlushed, RedisWrites, AnswersShort, AnswersIn, RowDone, corrections
<1>2. CASE WorkerSleeps \/ WorkerReturns \/ WorkerSends \/ NatsWorkerWriteRaises \/ RedisWorkerNotes
           \/ KafkaWorkerDies
  BY <1>2 DEF WorkerSleeps, WorkerReturns, WorkerSends, NatsWorkerWriteRaises, RedisWorkerNotes, KafkaWorkerDies
<1>3. CASE RedisWorkerSends \/ Answered \/ BrokerAnswers \/ ReadAnswer \/ ConnectionFails \/ Ended
            \/ UNCHANGED vars
  BY <1>3 DEF RedisWorkerSends, Answered, BrokerAnswers, ReadAnswer, ConnectionFails, Ended, vars, corrections
<1>4. CASE WorkerTakes
  <2>1. Head(due) = due[1]
    BY <1>4, Taken
  <2> QED BY <1>4, <2>1 DEF WorkerTakes
<1>5. CASE WorkerKeepsRow
  <2>1. PICK c \in inHand : TRUE
    BY <1>5 DEF WorkerKeepsRow, Works, CorrOK
  <2>2. inHand = {c} /\ c \in acked /\ c \in Corrected
    BY <1>5 DEF WorkerKeepsRow, HandOK
  <2>3. corrRows' = corrRows \o <<c>>
    BY <1>5, <2>2, OneToSeq DEF WorkerKeepsRow
  <2>4. corrRows \o <<c>> = Append(corrRows, c)
    BY <2>2 DEF RowsOK
  <2> QED BY <1>5, <2>2, <2>3, <2>4
<1> QED BY <1>1, <1>2, <1>3, <1>4, <1>5 DEF Next, Main, Worker

\* What a step does to the heap of corrections.
LEMMA DueSteps ==
  ASSUME PlaceOK, [Next]_vars
  PROVE  \/ UNCHANGED <<due, next>>
         \/ RowDone /\ next <= N
         \/ WorkerTakes
<1>1. CASE KafkaGoOn \/ KafkaGot \/ RedisSubmit \/ NatsWrite \/ RabbitPublish
  BY <1>1 DEF KafkaGoOn, KafkaGot, RedisSubmit, NatsWrite, RabbitPublish, Go, PlaceOK
<1>2. CASE Worker /\ ~WorkerTakes
  BY <1>2 DEF Worker, WorkerSleeps, WorkerReturns, WorkerSends, NatsWorkerWriteRaises, WorkerKeepsRow,
     RedisWorkerNotes, KafkaWorkerDies, main
<1>3. CASE KafkaSend \/ KafkaGetRaises \/ NatsRegister \/ WriteRaises \/ PlanEnds \/ KafkaGotLast \/ KafkaGotAll
           \/ RedisDrained \/ SayNoMore \/ Join \/ KafkaFlushed \/ RedisWrites \/ AnswersShort \/ AnswersIn
  BY <1>3 DEF KafkaSend, KafkaGetRaises, NatsRegister, WriteRaises, PlanEnds, KafkaGotLast, KafkaGotAll,
     RedisDrained, SayNoMore, Join, KafkaFlushed, RedisWrites, AnswersShort, AnswersIn, corrections
<1>4. CASE RedisWorkerSends \/ Answered \/ BrokerAnswers \/ ReadAnswer \/ ConnectionFails \/ Ended
            \/ UNCHANGED vars
  <2>1. UNCHANGED <<main, corrections>>
    BY <1>4 DEF RedisWorkerSends, Answered, BrokerAnswers, ReadAnswer, ConnectionFails, Ended, vars
  <2> QED BY <2>1 DEF main, corrections
<1> QED BY <1>1, <1>2, <1>3, <1>4 DEF Next, Main

\* No acknowledgement and no error is forgotten.
LEMMA Grow ==
  ASSUME PlaceOK, DueOK, HandOK, [Next]_vars
  PROVE  acked \subseteq acked' /\ errors \subseteq errors'
<1>0. Kind
  BY Kinds
<1>1. CASE Quiet
  BY <1>1 DEF Quiet
<1>2. ASSUME NEW X \in SUBSET Messages, Sends(X) \/ Publishes(X) \/ Submits(X) \/ Registers(X) \/ Fails(X)
      PROVE  acked \subseteq acked' /\ errors \subseteq errors'
  BY <1>2 DEF Sends, Publishes, Submits, Registers, Fails
<1>3. CASE RedisWorkerSends \/ BrokerAnswers
  BY <1>3 DEF RedisWorkerSends, BrokerAnswers, account
<1>4. CASE Answered
  BY <1>4 DEF Answered
<1>5. CASE ReadAnswer
  BY <1>5 DEF ReadAnswer
<1> QED BY <1>0, <1>1, <1>2, <1>3, <1>4, <1>5 DEF Kind

\* Every step keeps the rows in order.
LEMMA RowsKept ==
  ASSUME PlaceOK, DueOK, HandOK, CorrOK, RowsOK, [Next]_vars
  PROVE  RowsOK'
<1>0. client' = client /\ Corrected' = Corrected /\ next \in Nat /\ acked \subseteq acked'
  BY PlaceKept, SameMessages, Grow DEF PlaceOK
<1>1. /\ corrRows \in Seq(Corrected) /\ \A i \in DOMAIN corrRows : corrRows[i] \in Corrected /\ corrRows[i].of \in Nat
      /\ \A i \in DOMAIN due : due[i] \in Corrected /\ due[i].of \in Nat
      /\ \A m \in inHand : m.of \in Nat
  BY Bounds, CorrectionFacts DEF RowsOK, DueOK, HandOK
\* The rows kept before stay before what is due and what is in hand.
<1>2. ASSUME NEW i \in DOMAIN corrRows
      PROVE  /\ corrRows[i].of < next'
             /\ client # "nats" => corrRows[i] \in acked'
             /\ \A j \in DOMAIN due' : corrRows[i].of < due'[j].of
  <2>1. client # "nats" => corrRows[i] \in acked'
    BY <1>0 DEF RowsOK
  <2>2. CASE UNCHANGED <<due, next>>
    BY <2>1, <2>2 DEF RowsOK
  <2>3. CASE RowDone /\ next <= N
    <3>1. next' = next + 1 /\ \A m \in ToSet(due') : m \in ToSet(due) \/ m.of = next
      BY <1>0, <2>3, RowIsDone
    <3>2. corrRows[i].of < next /\ \A m \in ToSet(due) : corrRows[i].of < m.of
      BY DEF RowsOK, ToSet
    <3>3. \A j \in DOMAIN due' : due'[j] \in ToSet(due')
      BY DEF ToSet
    <3>4. \A j \in DOMAIN due' : corrRows[i].of < due'[j].of
      BY <3>1, <3>2, <3>3
    <3>5. corrRows[i].of < next + 1
      BY <1>0, <1>1, <3>2
    <3> QED BY <2>1, <3>1, <3>4, <3>5
  <2>4. CASE WorkerTakes
    BY <2>1, <2>4, Taken DEF RowsOK
  <2> QED BY <2>2, <2>3, <2>4, DueSteps
<1>3. ASSUME client # "nats", NEW i \in DOMAIN corrRows, NEW m \in inHand'
      PROVE  corrRows[i].of < m.of
  <2>1. CASE WorkerTakes
    BY <1>3, <2>1, Taken DEF RowsOK
  <2>2. CASE inHand' = inHand \/ inHand' = {}
    BY <1>3, <2>2 DEF RowsOK
  <2> QED BY <1>3, <2>1, <2>2, HandSteps DEF NatsWorkerWriteRaises, WorkerKeepsRow, RedisWorkerNotes, KafkaWorkerDies
<1>4. CASE corrRows' = corrRows
  <2>1. \A i, j \in DOMAIN corrRows : i < j => corrRows[i].of < corrRows[j].of
    BY DEF RowsOK
  <2> QED BY <1>0, <1>1, <1>2, <1>3, <1>4, <2>1 DEF RowsOK
<1>5. ASSUME NEW c \in Corrected, corrRows' = Append(corrRows, c),
             \A i \in DOMAIN corrRows : corrRows[i].of < c.of,
             c.of < next', client # "nats" => c \in acked',
             \A j \in DOMAIN due' : c.of < due'[j].of,
             client # "nats" => inHand' = {}
      PROVE  RowsOK'
  <2>1. /\ corrRows' \in Seq(Corrected)
        /\ \A i \in DOMAIN corrRows : corrRows'[i] = corrRows[i]
        /\ \A i \in DOMAIN corrRows' :
             i \notin DOMAIN corrRows => corrRows'[i] = c /\ \A j \in DOMAIN corrRows' : ~(i < j)
    BY <1>1, <1>5, OneRow
  <2>2. ASSUME NEW i \in DOMAIN corrRows', NEW j \in DOMAIN corrRows', i < j
        PROVE  corrRows'[i].of < corrRows'[j].of
    <3>1. i \in DOMAIN corrRows
      BY <2>1, <2>2
    <3> QED BY <1>5, <2>1, <2>2, <3>1 DEF RowsOK
  <2>3. ASSUME NEW i \in DOMAIN corrRows'
        PROVE  /\ corrRows'[i].of < next'
               /\ client # "nats" => corrRows'[i] \in acked'
               /\ \A j \in DOMAIN due' : corrRows'[i].of < due'[j].of
               /\ client # "nats" => \A m \in inHand' : corrRows'[i].of < m.of
    BY <1>2, <1>5, <2>1
  <2> QED BY <1>0, <2>1, <2>2, <2>3 DEF RowsOK
<1>6. CASE client = "nats" /\ WorkerTakes /\ corrRows' = Append(corrRows, due[1])
  <2>1. /\ 1 \in DOMAIN due /\ due[1] \in Corrected /\ next' = next
        /\ \A j \in DOMAIN due' : due[1].of < due'[j].of
    BY <1>6, Taken
  <2>2. due[1].of < next /\ \A i \in DOMAIN corrRows : corrRows[i].of < due[1].of
    BY <2>1 DEF DueOK, RowsOK
  <2> QED BY <1>5, <1>6, <2>1, <2>2
<1>7. CASE WorkerKeepsRow /\ \E c \in inHand : inHand = {c} /\ c \in acked /\ corrRows' = Append(corrRows, c)
  <2>1. PICK c \in inHand : inHand = {c} /\ c \in acked /\ corrRows' = Append(corrRows, c)
    BY <1>7
  <2>2. c \in Corrected /\ c.of < next /\ \A i \in DOMAIN due : c.of < due[i].of
    BY <2>1 DEF HandOK
  <2>3. UNCHANGED <<due, next>> /\ inHand' = {} /\ client # "nats"
    BY <1>7, <2>1 DEF WorkerKeepsRow, main, CorrOK, Works
  <2>4. \A i \in DOMAIN corrRows : corrRows[i].of < c.of
    BY <2>1, <2>3 DEF RowsOK
  <2> QED BY <1>0, <1>5, <2>1, <2>2, <2>3, <2>4
<1> QED BY <1>4, <1>6, <1>7, RowSteps

\* What a step does to the correction thread's next step.
LEMMA WorkerSteps ==
  ASSUME [Next]_vars
  PROVE  /\ worker' \in {"sending", "waiting"} =>
              \/ worker' = worker /\ inHand' = inHand
              \/ WorkerTakes \/ (WorkerSends /\ client # "nats" /\ worker = "sending" /\ inHand' = inHand)
         /\ worker' = "gone" => worker = "gone" \/ WorkerReturns \/ KafkaWorkerDies
         /\ worker = "gone" => worker' = "gone"
         /\ worker' = "waiting" => worker = "waiting" \/ client # "nats"
         /\ UNCHANGED noMore \/ (pc = "noMore" /\ noMore' = TRUE)
<1>1. CASE KafkaSend \/ KafkaGoOn \/ KafkaGot \/ KafkaGetRaises \/ RedisSubmit \/ NatsRegister \/ NatsWrite
           \/ RabbitPublish \/ WriteRaises \/ PlanEnds \/ KafkaGotLast \/ KafkaGotAll \/ RedisDrained \/ SayNoMore
           \/ Join \/ KafkaFlushed \/ RedisWrites \/ AnswersShort \/ AnswersIn
  <2>1. inHand' = inHand /\ worker' \in {worker, "look"} /\ (worker' # worker => worker = "asleep")
    BY <1>1 DEF KafkaSend, KafkaGoOn, KafkaGot, KafkaGetRaises, RedisSubmit, NatsRegister, NatsWrite,
       RabbitPublish, WriteRaises, PlanEnds, KafkaGotLast, KafkaGotAll, RedisDrained, SayNoMore, Join,
       KafkaFlushed, RedisWrites, AnswersShort, AnswersIn, RowDone, Notify, corrections
  <2>2. UNCHANGED noMore \/ (pc = "noMore" /\ noMore' = TRUE)
    BY <1>1 DEF KafkaSend, KafkaGoOn, KafkaGot, KafkaGetRaises, RedisSubmit, NatsRegister, NatsWrite,
       RabbitPublish, WriteRaises, PlanEnds, KafkaGotLast, KafkaGotAll, RedisDrained, SayNoMore, Join,
       KafkaFlushed, RedisWrites, AnswersShort, AnswersIn, RowDone, corrections, Go
  <2> QED BY <2>1, <2>2
<1>2. CASE WorkerSleeps \/ WorkerReturns \/ WorkerTakes \/ NatsWorkerWriteRaises \/ WorkerKeepsRow
           \/ RedisWorkerNotes \/ KafkaWorkerDies
  BY <1>2 DEF WorkerSleeps, WorkerReturns, WorkerTakes, NatsWorkerWriteRaises, WorkerKeepsRow, RedisWorkerNotes,
     KafkaWorkerDies, Works
<1>3. CASE WorkerSends
  BY <1>3 DEF WorkerSends, Works
<1>4. CASE RedisWorkerSends \/ Answered \/ BrokerAnswers \/ ReadAnswer \/ ConnectionFails \/ Ended
            \/ UNCHANGED vars
  <2>1. UNCHANGED corrections
    BY <1>4 DEF RedisWorkerSends, Answered, BrokerAnswers, ReadAnswer, ConnectionFails, Ended, vars
  <2> QED BY <2>1 DEF corrections
<1> QED BY <1>1, <1>2, <1>3, <1>4 DEF Next, Main, Worker

\* No step loses a correction, unless Kafka's broker is slow with one.
LEMMA CorrKept ==
  ASSUME "kafka" \in Clients => ~SlowCorrections, PlaceOK, DueOK, HandOK, CorrOK, RowsOK, [Next]_vars
  PROVE  CorrOK'
<1>0. client' = client /\ Corrected' = Corrected /\ next \in Nat /\ errors \subseteq errors'
  BY PlaceKept, SameMessages, Grow DEF PlaceOK
<1>1. ToSet(corrRows) \subseteq ToSet(corrRows') /\ (WorkerKeepsRow => inHand \subseteq ToSet(corrRows'))
      /\ (client = "nats" /\ WorkerTakes => inHand' \subseteq ToSet(corrRows'))
  <2>1. CASE corrRows' = corrRows
    <3>1. ASSUME WorkerKeepsRow
          PROVE  FALSE
      <4>1. PICK c \in inHand : TRUE
        BY <3>1 DEF WorkerKeepsRow, Works, CorrOK
      <4>2. inHand = {c}
        BY <3>1 DEF HandOK
      <4>3. corrRows = corrRows \o <<c>>
        BY <2>1, <3>1, <4>2, OneToSeq DEF WorkerKeepsRow
      <4>4. Len(corrRows \o <<c>>) = Len(corrRows) + 1 /\ Len(corrRows) \in Nat
        BY DEF RowsOK
      <4> QED BY <4>3, <4>4
    <3>2. ASSUME client = "nats", WorkerTakes
          PROVE  FALSE
      <4>1. corrRows = Append(corrRows, Head(due))
        BY <2>1, <3>2 DEF WorkerTakes
      <4>2. Len(Append(corrRows, Head(due))) = Len(corrRows) + 1 /\ Len(corrRows) \in Nat
        BY DEF RowsOK
      <4> QED BY <4>1, <4>2
    <3> QED BY <2>1, <3>1, <3>2
  <2>2. CASE client = "nats" /\ WorkerTakes /\ corrRows' = Append(corrRows, due[1])
    <3>1. due[1] \in Corrected /\ inHand' = {due[1]} /\ worker = "look"
      BY <2>2, Taken
    <3>2. ToSet(corrRows') = ToSet(corrRows) \cup {due[1]}
      BY <2>2, <3>1, OneRow DEF RowsOK
    <3> QED BY <3>1, <3>2 DEF WorkerKeepsRow, Works
  <2>3. CASE WorkerKeepsRow /\ \E c \in inHand : inHand = {c} /\ c \in acked /\ corrRows' = Append(corrRows, c)
    <3>1. PICK c \in inHand : inHand = {c} /\ corrRows' = Append(corrRows, c)
      BY <2>3
    <3>2. ToSet(corrRows') = ToSet(corrRows) \cup {c}
      BY <3>1, OneRow DEF RowsOK, HandOK
    <3>3. ~WorkerTakes
      BY <2>3 DEF WorkerKeepsRow, WorkerTakes, Works
    <3> QED BY <3>1, <3>2, <3>3
  <2> QED BY <2>1, <2>2, <2>3, RowSteps
<1>2. inHand \subseteq inHand' \cup ToSet(corrRows') \cup errors'
  <2>1. CASE WorkerTakes
    BY <2>1, Taken
  <2>2. CASE client = "nats" /\ WorkerSends
    BY <1>1, <2>2 DEF CorrOK
  <2>3. CASE NatsWorkerWriteRaises \/ RedisWorkerNotes
    BY <2>3 DEF NatsWorkerWriteRaises, RedisWorkerNotes
  <2>4. CASE KafkaWorkerDies
    BY <1>0, <2>4 DEF KafkaWorkerDies, PlaceOK
  <2>5. CASE WorkerKeepsRow
    BY <1>1, <2>5
  <2> QED BY <2>1, <2>2, <2>3, <2>4, <2>5, HandSteps
<1>3. ASSUME NEW m \in Corrected, m.of < next'
      PROVE  m \in ToSet(due') \cup inHand' \cup ToSet(corrRows') \cup errors'
  <2>1. m.of \in Nat
    BY CorrectionFacts, Bounds
  <2>2. CASE UNCHANGED <<due, next>>
    BY <1>0, <1>1, <1>2, <1>3, <2>2 DEF CorrOK
  <2>3. CASE RowDone /\ next <= N
    <3>1. /\ ToSet(due) \subseteq ToSet(due') /\ next' = next + 1
          /\ \A o \in Corrected : o.of = next => o \in ToSet(due')
      BY <1>0, <2>3, RowIsDue DEF RowDone
    <3>2. m.of = next \/ m.of < next
      BY <1>0, <1>3, <2>1, <3>1
    <3> QED BY <1>0, <1>1, <1>2, <3>1, <3>2 DEF CorrOK
  <2>4. CASE WorkerTakes
    <3>1. ToSet(due) = {due[1]} \cup ToSet(due') /\ inHand' = {due[1]} /\ next' = next
      BY <2>4, Taken
    <3> QED BY <1>0, <1>1, <1>2, <1>3, <3>1 DEF CorrOK
  <2> QED BY <2>2, <2>3, <2>4, DueSteps
<1>4. ASSUME client = "nats"
      PROVE  inHand' \subseteq ToSet(corrRows') /\ worker' # "waiting"
  <2>1. CASE WorkerTakes
    BY <1>1, <1>4, <2>1, WorkerSteps DEF CorrOK
  <2>2. CASE inHand' \subseteq inHand
    BY <1>1, <1>4, <2>2, WorkerSteps DEF CorrOK
  <2>3. CASE WorkerSends \/ NatsWorkerWriteRaises \/ WorkerKeepsRow \/ RedisWorkerNotes \/ KafkaWorkerDies
    <3>1. inHand' \subseteq inHand
      BY <2>3 DEF WorkerSends, NatsWorkerWriteRaises, WorkerKeepsRow, RedisWorkerNotes, KafkaWorkerDies
    <3> QED BY <2>2, <3>1
  <2> QED BY <2>1, <2>2, <2>3, HandSteps
<1>5. ASSUME worker' \in {"sending", "waiting"}
      PROVE  inHand' # {}
  BY <1>5, WorkerSteps, Taken DEF CorrOK
<1> QED BY <1>0, <1>3, <1>4, <1>5 DEF CorrOK

\* When the correction thread is gone, nothing is due and nothing will be, or a
\* correction has failed; the main loop joins it before it ends.
GoneOK ==
  /\ noMore => next = N + 1
  /\ worker = "gone" => Corrected = {} \/ (due = <<>> /\ noMore) \/ errors # {}
  /\ pc \in {"flush", "corrections"} \/ (client = "nats" /\ pc = "answers") => worker = "gone"

\* Every step keeps that.
LEMMA GoneKept ==
  ASSUME "kafka" \in Clients => ~SlowCorrections, PlaceOK, DueOK, HandOK, CorrOK, GoneOK, [Next]_vars
  PROVE  GoneOK'
<1>0. client' = client /\ Corrected' = Corrected /\ next \in Nat /\ errors \subseteq errors' /\ N \in Nat
  BY PlaceKept, SameMessages, Grow, Bounds DEF PlaceOK
<1>1. ASSUME noMore
      PROVE  next' = next /\ (due' = due \/ WorkerTakes)
  <2>1. ~(next <= N)
    BY <1>0, <1>1 DEF GoneOK
  <2>2. UNCHANGED <<due, next>> \/ WorkerTakes
    BY <2>1, DueSteps
  <2> QED BY <2>2, Taken
<1>2. noMore' => next' = N + 1
  <2>1. CASE noMore
    BY <1>1, <2>1 DEF GoneOK
  <2>2. CASE ~noMore /\ noMore'
    <3>1. pc = "noMore" /\ next = N + 1
      BY <2>2, WorkerSteps DEF PlaceOK
    <3>2. ~(next <= N)
      BY <1>0, <3>1
    <3> QED BY <3>1, <3>2, DueSteps, Taken
  <2> QED BY <2>1, <2>2
<1>3. ASSUME worker' = "gone"
      PROVE  Corrected = {} \/ (due' = <<>> /\ noMore') \/ errors' # {}
  <2>1. CASE worker = "gone"
    <3>1. ~WorkerTakes
      BY <2>1 DEF WorkerTakes, Works
    <3>2. noMore => due' = due /\ noMore'
      BY <1>1, <3>1, WorkerSteps
    <3> QED BY <1>0, <2>1, <3>2 DEF GoneOK
  <2>2. CASE WorkerReturns
    BY <2>2 DEF WorkerReturns
  <2>3. CASE KafkaWorkerDies
    BY <1>0, <2>3 DEF KafkaWorkerDies, Works, CorrOK, PlaceOK
  <2> QED BY <1>3, <2>1, <2>2, <2>3, WorkerSteps
<1>4. ASSUME pc' \in {"flush", "corrections"} \/ (client = "nats" /\ pc' = "answers")
      PROVE  worker' = "gone"
  <2>1. CASE pc' = pc
    BY <1>4, <2>1, WorkerSteps DEF GoneOK
  <2>2. CASE Join
    BY <2>2, WorkerSteps DEF Join
  <2>3. CASE KafkaSend \/ KafkaGoOn \/ KafkaGot \/ KafkaGetRaises \/ RedisSubmit \/ NatsRegister \/ NatsWrite
             \/ RabbitPublish \/ WriteRaises \/ KafkaGotLast \/ KafkaGotAll \/ RedisDrained \/ SayNoMore
             \/ KafkaFlushed \/ RedisWrites \/ AnswersShort \/ AnswersIn
    BY <1>4, <2>3 DEF KafkaSend, KafkaGoOn, KafkaGot, KafkaGetRaises, RedisSubmit, NatsRegister, NatsWrite,
       RabbitPublish, WriteRaises, KafkaGotLast, KafkaGotAll, RedisDrained, SayNoMore,
       KafkaFlushed, RedisWrites, AnswersShort, AnswersIn, Go
  <2>4. CASE PlanEnds
    <3>1. client \in {"kafka", "redis", "nats", "rabbitmq"}
      BY Bounds DEF PlaceOK
    <3>2. pc' = CASE client = "kafka" -> "futures" [] client = "redis" -> "pool"
                  [] client = "nats" -> "noMore"   [] client = "rabbitmq" -> "answers"
      BY <2>4 DEF PlanEnds, Go
    <3> QED BY <1>4, <3>1, <3>2
  <2>5. CASE Worker
    BY <2>1, <2>5 DEF Worker, WorkerSleeps, WorkerReturns, WorkerTakes, WorkerSends, NatsWorkerWriteRaises,
       WorkerKeepsRow, RedisWorkerNotes, KafkaWorkerDies, main
  <2>6. CASE RedisWorkerSends \/ Answered \/ BrokerAnswers \/ ReadAnswer \/ ConnectionFails \/ Ended
            \/ UNCHANGED vars
    <3>1. UNCHANGED main
      BY <2>6 DEF RedisWorkerSends, Answered, BrokerAnswers, ReadAnswer, ConnectionFails, Ended, vars
    <3> QED BY <2>1, <3>1 DEF main
  <2> QED BY <2>2, <2>3, <2>4, <2>5, <2>6 DEF Next, Main
<1> QED BY <1>0, <1>2, <1>3, <1>4 DEF GoneOK

-----------------------------------------------------------------------------
(***************************************************************************)
(* The file.                                                               *)
(***************************************************************************)
\* A set that is listed once has as many elements as the list.
LEMMA Counted ==
  ASSUME NEW n \in Nat, NEW S, NEW f \in [1..n -> S],
         \A i, j \in 1..n : f[i] = f[j] => i = j,
         \A s \in S : \E i \in 1..n : f[i] = s
  PROVE  Cardinality(S) = n
<1>1. f \in Bijection(1..n, S)
  BY DEF Bijection, Injection, Surjection, IsInjective
<1>2. ExistsBijection(1..n, S)
  BY <1>1 DEF ExistsBijection
<1> QED BY <1>2, FS_CountingElements

\* The first k messages of the plan.
LEMMA CountBases ==
  ASSUME NEW k \in Nat
  PROVE  Cardinality({Base(i) : i \in 1..k}) = k
<1> DEFINE S == {Base(i) : i \in 1..k}
           f == [i \in 1..k |-> Base(i)]
<1>1. f \in [1..k -> S] /\ \A s \in S : \E i \in 1..k : f[i] = s
  OBVIOUS
<1>2. \A i, j \in 1..k : f[i] = f[j] => i = j
  BY BaseFacts
<1> HIDE DEF S, f
<1>3. Cardinality(S) = k
  BY <1>1, <1>2, Counted
<1> QED BY <1>3 DEF S

\* All messages of the plan, sorted, are the plan.
LEMMA AllRows ==
  Rows({Base(i) : i \in 1..N}) = [i \in 1..N |-> Base(i)]
<1> DEFINE S == {Base(i) : i \in 1..N}
<1>1. Cardinality(S) = N /\ N \in Nat
  BY CountBases, Bounds
<1>2. ASSUME NEW k \in 1..N
      PROVE  Cardinality({o \in S : o.of < Base(k).of}) = k - 1
  <2>1. {o \in S : o.of < Base(k).of} = {Base(i) : i \in 1..(k - 1)}
    <3>1. \A i \in 1..N : i < k => i \in 1..(k - 1)
      OBVIOUS
    <3>2. \A i \in 1..(k - 1) : i \in 1..N /\ i < k
      BY <1>1
    <3> QED BY <3>1, <3>2, BaseFacts
  <2>2. k - 1 \in Nat
    OBVIOUS
  <2> QED BY <2>1, <2>2, CountBases
<1>3. ASSUME NEW i \in 1..N
      PROVE  (CHOOSE m \in S : Cardinality({o \in S : o.of < m.of}) = i - 1) = Base(i)
  <2>1. Base(i) \in S /\ Cardinality({o \in S : o.of < Base(i).of}) = i - 1
    BY <1>2
  <2>2. ASSUME NEW m \in S, Cardinality({o \in S : o.of < m.of}) = i - 1
        PROVE  m = Base(i)
    <3>1. PICK k \in 1..N : m = Base(k)
      OBVIOUS
    <3>2. k - 1 = i - 1
      BY <1>2, <2>2, <3>1
    <3> QED BY <3>1, <3>2
  <2> HIDE DEF S
  <2> QED BY <2>1, <2>2
<1>4. Rows(S) = [i \in 1..N |-> CHOOSE m \in S : Cardinality({o \in S : o.of < m.of}) = i - 1]
  BY <1>1 DEF Rows
<1> QED BY <1>3, <1>4

\* Once the correction thread is gone, and nothing has failed, every correction has its row.
LEMMA EveryCorrection ==
  ASSUME DueOK, HandOK, CorrOK, RowsOK, GoneOK, next = N + 1, errors = {}, worker = "gone" \/ Corrected = {}
  PROVE  ToSet(corrRows) = Corrected /\ \A m \in Corrected : m \notin ToSet(due) /\ worker = "gone"
<1>1. ToSet(corrRows) \subseteq Corrected
  BY DEF RowsOK, ToSet
<1>2. CASE Corrected = {}
  BY <1>1, <1>2
<1>3. CASE Corrected # {}
  <2>1. due = <<>> /\ inHand = {} /\ worker = "gone"
    BY <1>3 DEF GoneOK, HandOK
  <2>2. ToSet(due) = {}
    BY <2>1, EmptySeq DEF ToSet
  <2>3. \A m \in Corrected : m.of < next
    BY CorrectionFacts, Bounds
  <2> QED BY <1>1, <2>1, <2>2, <2>3 DEF CorrOK
<1> QED BY <1>2, <1>3

\* A file that is complete.
LEMMA Completes ==
  ASSUME RowsOK, ToSet(corrRows) = Corrected, NEW n \in Nat, n = Len(corrRows),
         NEW f, Len(f) = N + n, DOMAIN f = 1..(N + n),
         \A i \in 1..N : f[i].of = Base(i) /\ f[i].ack,
         \A i \in 1..n : f[N + i].of = corrRows[i] /\ f[N + i].ack
  PROVE  /\ Len(f) = Cardinality(Messages)
         /\ \A i \in 1..N : f[i].of = Plan[i]
         /\ {f[i].of : i \in DOMAIN f} = Messages
         /\ \A i \in DOMAIN f : f[i].ack /\ f[i].of \in Messages
<1>1. N \in Nat /\ DOMAIN corrRows = 1..n /\ \A i \in 1..n : corrRows[i] \in Corrected
  BY Bounds DEF RowsOK
<1>2. \A i \in 1..(N + n) : i \in 1..N \/ \E j \in 1..n : i = N + j
  <2>1. \A i \in 1..(N + n) : i \in 1..N \/ (i - N \in 1..n /\ i = N + (i - N))
    BY <1>1
  <2> QED BY <2>1
<1>3. \A i \in 1..N : i \in 1..(N + n)
  BY <1>1
<1>4. \A j \in 1..n : N + j \in 1..(N + n)
  BY <1>1
<1>5. \A i \in DOMAIN f : f[i].ack /\ f[i].of \in Messages
  BY <1>1, <1>2, BaseFacts, CorrectionFacts
<1>6. \A i \in 1..N : Plan[i] = Base(i)
  BY DEF Plan
<1>7. Messages = {Base(i) : i \in 1..N} \cup Corrected
  <2>1. ToSet(Plan) = {Base(i) : i \in 1..N}
    BY DEF Plan, ToSet
  <2> QED BY <2>1 DEF Messages
<1>8. \A m \in Messages : \E i \in 1..(N + n) : f[i].of = m
  <2>1. \A m \in Corrected : \E j \in 1..n : corrRows[j] = m
    BY <1>1 DEF ToSet
  <2> QED BY <1>3, <1>4, <1>7, <2>1
<1>9. {f[i].of : i \in DOMAIN f} = Messages
  BY <1>5, <1>8
<1>10. ASSUME NEW i \in 1..n, NEW j \in 1..n, corrRows[i] = corrRows[j]
       PROVE  i = j
  <2>1. ~(i < j) /\ ~(j < i)
    <3>1. corrRows[i].of \in Nat /\ corrRows[j].of \in Nat
      BY <1>1, CorrectionFacts, Bounds
    <3>2. corrRows[i].of = corrRows[j].of
      BY <1>10
    <3>3. \A k, l \in DOMAIN corrRows : k < l => corrRows[k].of < corrRows[l].of
      BY DEF RowsOK
    <3>4. i \in DOMAIN corrRows /\ j \in DOMAIN corrRows
      BY <1>1
    <3>5. \A a \in Nat : ~(a < a)
      OBVIOUS
    <3> QED BY <3>1, <3>2, <3>3, <3>4, <3>5
  <2> QED BY <2>1
<1>11. ASSUME NEW i \in 1..(N + n), NEW j \in 1..(N + n), f[i].of = f[j].of
       PROVE  i = j
  <2>1. \A k \in 1..N : f[k].of.rev = 1 /\ f[k].of.of = k
    BY BaseFacts
  <2>2. \A k \in 1..n : f[N + k].of.rev = 2
    BY <1>1, CorrectionFacts
  <2>3. CASE i \in 1..N
    <3>1. j \in 1..N
      BY <1>2, <1>11, <2>1, <2>2, <2>3
    <3> QED BY <1>11, <2>1, <2>3, <3>1
  <2>4. CASE \E k \in 1..n : i = N + k
    <3>1. PICK k \in 1..n : i = N + k
      BY <2>4
    <3>2. PICK l \in 1..n : j = N + l
      BY <1>2, <1>11, <2>1, <2>2, <3>1
    <3>3. corrRows[k] = corrRows[l]
      BY <1>11, <3>1, <3>2
    <3> QED BY <1>10, <3>1, <3>2, <3>3
  <2> QED BY <1>2, <2>3, <2>4
<1>12. Cardinality(Messages) = N + n
  <2> DEFINE g == [i \in 1..(N + n) |-> f[i].of]
  <2>1. g \in [1..(N + n) -> Messages]
    BY <1>5
  <2>2. (\A i, j \in 1..(N + n) : g[i] = g[j] => i = j) /\ \A m \in Messages : \E i \in 1..(N + n) : g[i] = m
    BY <1>8, <1>11
  <2>3. N + n \in Nat
    BY <1>1
  <2> HIDE DEF g
  <2> QED BY <2>1, <2>2, <2>3, Counted
<1> QED BY <1>5, <1>6, <1>9, <1>12

\* A row, and the rows that Redis's writes when its pool is drained.
Row == [of : Messages, ack : BOOLEAN]

FileOK ==
  client = "redis" /\ pc \in {"noMore", "join", "corrections"} =>
    /\ file \in Seq(Row) /\ Len(file) = N
    /\ \A i \in 1..N : file[i].of = Base(i) /\ file[i].ack /\ Base(i) \in acked

\* What a step writes.
LEMMA FileSteps ==
  ASSUME PlaceOK, [Next]_vars
  PROVE  /\ client = "redis" /\ pc' \in {"noMore", "join", "corrections"} =>
              RedisDrained \/ (pc \in {"noMore", "join", "corrections"} /\ file' = file)
         /\ pc' = "ok" => pc = "ok" \/ KafkaFlushed \/ RedisWrites \/ AnswersIn
<1>1. CASE pc' = pc /\ file' = file
  BY <1>1
<1>2. CASE KafkaSend \/ KafkaGoOn \/ KafkaGot \/ KafkaGetRaises \/ RedisSubmit \/ NatsRegister \/ NatsWrite
           \/ RabbitPublish \/ WriteRaises \/ KafkaGotLast \/ KafkaGotAll \/ RedisDrained \/ SayNoMore
           \/ KafkaFlushed \/ RedisWrites \/ AnswersShort \/ AnswersIn
  BY <1>2 DEF KafkaSend, KafkaGoOn, KafkaGot, KafkaGetRaises, RedisSubmit, NatsRegister, NatsWrite,
     RabbitPublish, WriteRaises, KafkaGotLast, KafkaGotAll, RedisDrained, SayNoMore,
     KafkaFlushed, RedisWrites, AnswersShort, AnswersIn, Go, PlaceOK
<1>3. CASE PlanEnds
  <2>1. client \in {"kafka", "redis", "nats", "rabbitmq"}
    BY Bounds DEF PlaceOK
  <2>2. pc' = CASE client = "kafka" -> "futures" [] client = "redis" -> "pool"
                [] client = "nats" -> "noMore"   [] client = "rabbitmq" -> "answers"
    BY <1>3 DEF PlanEnds, Go
  <2> QED BY <2>1, <2>2
<1>4. CASE Join
  <2>1. client \in {"kafka", "redis", "nats"} /\ pc = "join" /\ file' = file
    BY <1>4, Bounds DEF Join, Go, PlaceOK
  <2>2. pc' = CASE client = "kafka" -> "flush" [] client = "redis" -> "corrections" [] client = "nats" -> "answers"
    BY <1>4 DEF Join, Go
  <2> QED BY <2>1, <2>2
<1>5. CASE Worker
  BY <1>1, <1>5 DEF Worker, WorkerSleeps, WorkerReturns, WorkerTakes, WorkerSends, NatsWorkerWriteRaises,
     WorkerKeepsRow, RedisWorkerNotes, KafkaWorkerDies, main
<1>6. CASE RedisWorkerSends \/ Answered \/ BrokerAnswers \/ ReadAnswer \/ ConnectionFails \/ Ended
            \/ UNCHANGED vars
  <2>1. UNCHANGED main
    BY <1>6 DEF RedisWorkerSends, Answered, BrokerAnswers, ReadAnswer, ConnectionFails, Ended, vars
  <2> QED BY <1>1, <2>1 DEF main
<1> QED BY <1>2, <1>3, <1>4, <1>5, <1>6 DEF Next, Main

\* What has been sent and answered, and has not failed, is acknowledged.
LEMMA SentIsAcked ==
  ASSUME AnswerInv, FuturesOK, ToldOK, client \in {"kafka", "redis"},
         NEW m \in Messages, Sent(m), m \notin wire \cup pool, m \notin errors, client = "redis" => m.rev = 1,
         HandOK
  PROVE  m \in acked
<1>1. said[m] \in {"nothing", "yes", "no"}
  BY DEF AnswerInv, SetsOK
<1>2. said[m] # "nothing"
  BY DEF ToldOK
<1>3. said[m] # "no"
  BY CorrectionFacts DEF ToldOK, HandOK
<1> QED BY <1>1, <1>2, <1>3 DEF FuturesOK

\* Redis's base rows are the plan's, all acknowledged.
LEMMA FileKept ==
  ASSUME PlaceOK, DueOK, HandOK, AnswerInv, FuturesOK, ToldOK, FileOK, [Next]_vars
  PROVE  FileOK'
<1>0. client' = client /\ Messages' = Messages /\ Row' = Row /\ acked \subseteq acked'
  BY PlaceKept, SameMessages, Grow DEF Row
<1>1. CASE pc \in {"noMore", "join", "corrections"} /\ file' = file
  BY <1>0, <1>1 DEF FileOK
<1>2. CASE RedisDrained /\ pc' = "noMore"
  <2> DEFINE S == {m \in acked : m.rev = 1}
  <2>1. /\ client = "redis" /\ pool = {} /\ (\A m \in wire : m.rev # 1) /\ (\A m \in errors : m.rev # 1)
        /\ file' = Stamped(Rows(S)) /\ acked' = acked /\ pc = "pool"
    BY <1>2 DEF RedisDrained, Go, account
  <2>2. ASSUME NEW i \in 1..N
        PROVE  Base(i) \in acked /\ Base(i).rev = 1
    <3>1. Base(i) \in Messages /\ Base(i).of = i /\ Base(i).rev = 1
      BY BaseFacts
    <3>2. Sent(Base(i))
      BY <2>1, <3>1, Bounds DEF Sent, PlaceOK
    <3> QED BY <2>1, <3>1, <3>2, SentIsAcked
  <2>3. S = {Base(i) : i \in 1..N}
    <3>1. \A m \in S : m.of \in 1..N /\ m = Base(m.of)
      BY MessageFacts DEF AnswerInv, SetsOK
    <3> QED BY <2>2, <3>1
  <2> DEFINE rows == [i \in 1..N |-> Base(i)]
  <2>4. file' = Stamped(rows)
    BY <2>1, <2>3, AllRows
  <2>5. \A i \in 1..N : rows[i] \in acked /\ rows[i] \in Messages
    BY <2>2, BaseFacts
  <2>6. file' = [i \in 1..N |-> [of |-> rows[i], ack |-> rows[i] \in acked]]
    BY <2>4 DEF Stamped
  <2>7. \A i \in 1..N : (rows[i] \in acked) = TRUE
    BY <2>5
  <2>8. file' = [i \in 1..N |-> [of |-> rows[i], ack |-> TRUE]]
    BY <2>6, <2>7
  <2>9. \A i \in 1..N : [of |-> rows[i], ack |-> TRUE] \in Row
    BY <2>5 DEF Row
  <2> HIDE DEF rows
  <2>10. file' \in Seq(Row) /\ Len(file') = N
    BY <2>8, <2>9, Bounds
  <2>11. \A i \in 1..N : file'[i].of = rows[i] /\ file'[i].ack
    BY <2>8
  <2>12. \A i \in 1..N : rows[i] = Base(i)
    BY DEF rows
  <2> QED BY <1>0, <2>1, <2>2, <2>10, <2>11, <2>12 DEF FileOK
<1>3. CASE RedisDrained /\ pc' # "noMore"
  BY <1>3 DEF RedisDrained, Go, FileOK
<1> QED BY <1>0, <1>1, <1>2, <1>3, FileSteps DEF FileOK

\* Rows that are all acknowledged.
LEMMA AllStamped ==
  ASSUME NEW rows \in Seq(Messages), \A i \in DOMAIN rows : rows[i] \in acked
  PROVE  /\ Stamped(rows) \in Seq(Row) /\ Len(Stamped(rows)) = Len(rows)
         /\ DOMAIN rows = 1..Len(rows) /\ Len(rows) \in Nat
         /\ \A i \in 1..Len(rows) : Stamped(rows)[i].of = rows[i] /\ Stamped(rows)[i].ack
<1>1. PICK n \in Nat : n = Len(rows)
  OBVIOUS
<1>2. DOMAIN rows = 1..n /\ \A i \in 1..n : rows[i] \in Messages /\ (rows[i] \in acked) = TRUE
  BY <1>1
<1>3. Stamped(rows) = [i \in 1..n |-> [of |-> rows[i], ack |-> TRUE]]
  BY <1>2 DEF Stamped
<1>4. \A i \in 1..n : [of |-> rows[i], ack |-> TRUE] \in Row
  BY <1>2 DEF Row
<1>5. Stamped(rows) \in Seq(Row) /\ Len(Stamped(rows)) = n
  BY <1>3, <1>4
<1>6. \A i \in 1..n : Stamped(rows)[i].of = rows[i] /\ Stamped(rows)[i].ack
  BY <1>3
<1> QED BY <1>1, <1>2, <1>5, <1>6

\* A step to OK leaves a file that is complete.
LEMMA CompleteKept ==
  ASSUME PlaceOK, DueOK, HandOK, AnswerInv, AnswersAreOwn, FuturesOK, AskedOK, ToldOK, CorrOK, RowsOK, GoneOK,
         FileOK, OkIsComplete, [Next]_vars
  PROVE  OkIsComplete'
<1>0. client' = client /\ Messages' = Messages /\ N \in Nat
  BY PlaceKept, SameMessages, Bounds
<1>1. CASE pc = "ok"
  <2>1. UNCHANGED <<pc, said, file>>
    BY <1>1, EndedStays DEF vars, main, broker
  <2> QED BY <1>0, <2>1 DEF OkIsComplete
<1>2. CASE pc # "ok" /\ pc' = "ok"
  <2>1. KafkaFlushed \/ RedisWrites \/ AnswersIn
    BY <1>2, FileSteps
  <2>2. errors = {} /\ said' = said /\ next = N + 1
    BY <1>2, <2>1 DEF KafkaFlushed, RedisWrites, AnswersIn, Go, broker, PlaceOK
  <2>3. worker = "gone" \/ Corrected = {}
    <3>1. CASE client = "rabbitmq"
      BY <3>1, CorrectionFacts
    <3>2. CASE client # "rabbitmq"
      BY <2>1, <3>2 DEF KafkaFlushed, RedisWrites, AnswersIn, Go, GoneOK
    <3> QED BY <3>1, <3>2
  <2>4. ToSet(corrRows) = Corrected /\ \A m \in Corrected : m \notin ToSet(due) /\ worker = "gone"
    BY <2>2, <2>3, EveryCorrection
  <2>5. PICK n \in Nat : n = Len(corrRows)
    BY DEF RowsOK
  <2>6. corrRows \in Seq(Messages) /\ DOMAIN corrRows = 1..n /\ \A i \in 1..n : corrRows[i] \in Corrected
    BY <2>5, CorrectionFacts DEF RowsOK
  <2>7. ASSUME NEW f, Len(f) = N + n, DOMAIN f = 1..(N + n), file' = f, Messages \subseteq acked,
               \A i \in 1..N : f[i].of = Base(i) /\ f[i].ack,
               \A i \in 1..n : f[N + i].of = corrRows[i] /\ f[N + i].ack
        PROVE  OkIsComplete'
    <3>1. /\ Len(f) = Cardinality(Messages)
          /\ \A i \in 1..N : f[i].of = Plan[i]
          /\ {f[i].of : i \in DOMAIN f} = Messages
          /\ \A i \in DOMAIN f : f[i].ack /\ f[i].of \in Messages
      BY <2>4, <2>5, <2>7, Completes
    <3>2. \A i \in DOMAIN f : said'[f[i].of] = "yes"
      BY <2>2, <2>7, <3>1 DEF AnswersAreOwn
    <3> QED BY <1>0, <2>7, <3>1, <3>2 DEF OkIsComplete
  <2>8. CASE KafkaFlushed \/ AnswersIn
    <3> DEFINE rows == Plan \o corrRows
    <3>1. file' = Stamped(rows)
      BY <1>2, <2>2, <2>8 DEF KafkaFlushed, AnswersIn, Go
    <3>2. ASSUME NEW m \in Messages
          PROVE  m \in acked
      <4>0. m.of < next /\ (m.rev = 1 \/ (m \notin ToSet(due) /\ worker = "gone"))
        <5>1. m.of \in 1..N /\ (m.rev # 1 => m \in Corrected)
          BY MessageFacts
        <5>2. m.of < next
          BY <1>0, <2>2, <5>1
        <5> QED BY <2>4, <5>1, <5>2
      <4>1. CASE KafkaFlushed
        <5>1. client = "kafka" /\ wire = {} /\ pool = {}
          BY <4>1 DEF KafkaFlushed, AnswerInv, SetsOK
        <5>2. Sent(m)
          BY <4>0 DEF Sent
        <5> QED BY <2>2, <5>1, <5>2, SentIsAcked
      <4>2. CASE AnswersIn
        <5>1. client \in {"nats", "rabbitmq"} /\ waiting = {}
          BY <4>2 DEF AnswersIn
        <5>2. Registered(m)
          BY <4>0 DEF Registered
        <5> QED BY <2>2, <5>1, <5>2 DEF AskedOK, Accounted
      <4> QED BY <2>8, <4>1, <4>2
    <3>3. /\ Plan \in Seq(Messages) /\ Len(Plan) = N /\ \A i \in 1..N : Plan[i] = Base(i)
      BY <1>0, BaseFacts DEF Plan
    <3>4. /\ rows \in Seq(Messages) /\ Len(rows) = N + n
          /\ (\A i \in 1..N : rows[i] = Base(i)) /\ \A i \in 1..n : rows[N + i] = corrRows[i]
      <4> HIDE DEF Plan
      <4> QED BY <1>0, <2>5, <2>6, <3>3
    <3> HIDE DEF rows
    <3>5. \A i \in DOMAIN rows : rows[i] \in acked
      BY <3>2, <3>4
    <3> DEFINE f == Stamped(rows)
    <3>6. f \in Seq(Row) /\ Len(f) = N + n /\ \A i \in 1..(N + n) : f[i].of = rows[i] /\ f[i].ack
      BY <3>4, <3>5, AllStamped
    <3>7. file' = f
      BY <3>1
    <3> HIDE DEF f
    <3>8. DOMAIN f = 1..(N + n)
      BY <3>6
    <3>9. (\A i \in 1..N : i \in 1..(N + n)) /\ (\A i \in 1..n : N + i \in 1..(N + n))
      BY <1>0
    <3> QED BY <2>7, <3>2, <3>4, <3>6, <3>7, <3>8, <3>9
  <2>9. CASE RedisWrites
    <3>1. client = "redis" /\ file' = file \o Stamped(corrRows) /\ pc = "corrections"
      BY <1>2, <2>2, <2>9 DEF RedisWrites, Go
    <3>2. \A i \in 1..n : corrRows[i] \in acked
      BY <2>6, <3>1 DEF RowsOK
    <3>3. /\ file \in Seq(Row) /\ Len(file) = N
          /\ \A i \in 1..N : file[i].of = Base(i) /\ file[i].ack /\ Base(i) \in acked
      BY <3>1 DEF FileOK
    <3>4. Messages \subseteq acked
      <4>1. \A m \in Corrected : m \in acked
        BY <2>4, <2>6, <3>2 DEF ToSet
      <4> QED BY <3>3, <4>1, MessageFacts
    <3> DEFINE c == Stamped(corrRows)
    <3>5. c \in Seq(Row) /\ Len(c) = n /\ \A i \in 1..n : c[i].of = corrRows[i] /\ c[i].ack
      BY <2>5, <2>6, <3>2, AllStamped
    <3> HIDE DEF c
    <3> DEFINE f == file \o c
    <3>6. /\ Len(f) = N + n /\ DOMAIN f = 1..(N + n) /\ (\A i \in 1..N : f[i] = file[i])
          /\ \A i \in 1..n : f[N + i] = c[i]
      <4>1. file \in Seq(Row) /\ Len(file) = N /\ c \in Seq(Row) /\ Len(c) = n
        BY <3>3, <3>5
      <4>2. Len(f) = N + n /\ DOMAIN f = 1..(N + n)
        BY <1>0, <4>1
      <4>3. \A i \in 1..N : f[i] = file[i]
        BY <1>0, <4>1
      <4>4. \A i \in 1..n : f[N + i] = c[i]
        BY <1>0, <4>1
      <4> QED BY <4>2, <4>3, <4>4
    <3>7. file' = f
      BY <3>1 DEF c
    <3> HIDE DEF f
    <3> QED BY <2>7, <3>3, <3>4, <3>5, <3>6, <3>7
  <2> QED BY <2>1, <2>8, <2>9
<1>3. CASE pc' # "ok"
  BY <1>3 DEF OkIsComplete
<1> QED BY <1>1, <1>2, <1>3

-----------------------------------------------------------------------------
(***************************************************************************)
(* The invariant, and the theorems.                                        *)
(***************************************************************************)
\* What holds whatever the broker does ...
IInv ==
  /\ PlaceOK /\ DueOK /\ HandOK /\ AnswerInv /\ AnswersAreOwn /\ FuturesOK /\ FailsForCause

\* ... and what holds unless Kafka's broker takes over 30 s for a correction.
Inv == IInv /\ AskedOK /\ ToldOK /\ RowsOK /\ CorrOK /\ GoneOK /\ FileOK /\ OkIsComplete

\* Both hold at the start.
LEMMA InitInv ==
  ASSUME Init
  PROVE  Inv
<1> USE DEF Init
<1>0. next = 1 /\ N \in Nat \ {0} /\ DOMAIN due = {} /\ DOMAIN answers = {} /\ DOMAIN corrRows = {}
  BY EmptySeq, Bounds
<1>1. PlaceOK /\ DueOK /\ HandOK
  <2>1. PlaceOK
    <3>1. next \in 1..(N + 1)
      BY <1>0
    <3>2. client \in Clients /\ pc = "send" /\ broken = FALSE
      OBVIOUS
    <3> QED BY <3>1, <3>2 DEF PlaceOK, Pcs
  <2>2. DueOK
    BY <1>0, EmptySeq DEF DueOK
  <2>3. HandOK
    BY DEF HandOK
  <2> QED BY <2>1, <2>2, <2>3
<1>2. SetsOK /\ OpenOK /\ AnswersOK /\ WaitingOK
  BY <1>0, EmptySeq DEF SetsOK, OpenOK, AnswersOK, WaitingOK, New
<1>3. AnswersAreOwn /\ FuturesOK /\ FailsForCause /\ OkIsComplete /\ FileOK
  BY EmptySeq DEF AnswersAreOwn, FuturesOK, FailsForCause, OkIsComplete, FileOK
<1>4. \A m \in Messages : ~(m.of < 1) /\ ~Registered(m) /\ ~Sent(m)
  BY MessageFacts DEF Registered, Sent
<1>5. AskedOK /\ ToldOK
  BY <1>4 DEF AskedOK, ToldOK
<1>6. RowsOK /\ CorrOK /\ GoneOK
  BY <1>0, <1>4, EmptySeq, CorrectionFacts DEF RowsOK, CorrOK, GoneOK
<1> QED BY <1>1, <1>2, <1>3, <1>5, <1>6 DEF Inv, IInv, AnswerInv

\* The invariant of every producer.
THEOREM Holds == Spec => []IInv
<1>1. Init => IInv
  BY InitInv DEF Inv
<1>2. IInv /\ [Next]_vars => IInv'
  BY PlaceKept, DueKept, AnswerKept, OwnKept, FuturesKept, CauseKept DEF IInv
<1> QED BY <1>1, <1>2, PTL DEF Spec

\* And of every producer whose broker is in time.
THEOREM HoldsInTime ==
  ASSUME "kafka" \in Clients => ~SlowCorrections
  PROVE  Spec => []Inv
<1>1. Init => Inv
  BY InitInv
<1>2. Inv /\ [Next]_vars => Inv'
  BY PlaceKept, DueKept, AnswerKept, OwnKept, FuturesKept, CauseKept, AskedKept, ToldKept, RowsKept, CorrKept,
     GoneKept, FileKept, CompleteKept DEF Inv, IInv
<1> QED BY <1>1, <1>2, PTL DEF Spec

\* A message is acknowledged in the account only if the broker acknowledged that
\* message, and noted as failed only if it refused it or the connection is down:
\* tokens, and RabbitMQ's numbers with `multiple`, are matched to the right rows.
THEOREM AnswersOwn == Spec => []AnswersAreOwn
<1>1. IInv => AnswersAreOwn
  BY DEF IInv
<1> QED BY <1>1, Holds, PTL

\* A producer that fails has a connection that failed, or a message that the broker
\* refused or did not acknowledge.
THEOREM FailsWithCause == Spec => []FailsForCause
<1>1. IInv => FailsForCause
  BY DEF IInv
<1> QED BY <1>1, Holds, PTL

\* A producer that ends with OK has a row for every message of its plan, in the
\* plan's order, and one for each correction, and the broker has acknowledged them
\* all; of Kafka's, provided that no correction takes the broker over 30 s, for its
\* thread then ends with the corrections after it unsent.
THEOREM WritesEveryRow ==
  ASSUME "kafka" \in Clients => ~SlowCorrections
  PROVE  Spec => []OkIsComplete
<1>1. Inv => OkIsComplete
  BY DEF Inv
<1> QED BY <1>1, HoldsInTime, PTL
=============================================================================
