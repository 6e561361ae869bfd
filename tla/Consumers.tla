------------------------------ MODULE Consumers ------------------------------
(***************************************************************************)
(* The consumers of a trial: scripts/kafka_consumer.py, redis_consumer.py, *)
(* redis_consumer_waiting.py, nats_consumer.py and rabbitmq_consumer.py.   *)
(* Each writes a row for every message of its own run that it is handed,   *)
(* acknowledges what it has handled, and stops once a request, a poll or a *)
(* wait brings nothing and nothing has come for --idle-seconds.            *)
(*                                                                         *)
(* They differ in who asks and in how they acknowledge.  Kafka's polls,    *)
(* and its next poll may commit what the one before returned.  Redis's     *)
(* asks, waits for the reply, handles it and acknowledges in batches.  The *)
(* waiting one keeps Depth requests at the broker and acknowledges on a    *)
(* second connection; so does NATS's, whose messages do not say which      *)
(* request they answer.  RabbitMQ pushes up to Prefetch messages.          *)
(*                                                                         *)
(* Messages are numbered in the order of the stream; some are of another   *)
(* run.  A connection (external) is a first-in first-out queue; the broker *)
(* answers when it does.  Time is one flag: whether --idle-seconds have    *)
(* gone by since the time the consumer last noted.                         *)
(***************************************************************************)
EXTENDS Integers, SequencesExt

CONSTANTS
  Clients,   \* the consumers: some of "kafka", "redis", "waiting", "nats", "rabbitmq"
  M,         \* the messages published
  Foreign,   \* those of another run
  Depth,     \* --depth: the requests of the waiting consumer and of NATS's
  Count,     \* --count, --max-poll-records: the messages one answer may bring
  Batch,     \* --ack-batch
  Prefetch,  \* RabbitMQ's --prefetch
  MaxAgain   \* a bound on NATS's redeliveries

ASSUME ConsumersAssumption ==
  /\ Clients \subseteq {"kafka", "redis", "waiting", "nats", "rabbitmq"}
  /\ M \in Nat /\ Foreign \subseteq 1..M
  /\ {Depth, Count, Batch, Prefetch} \subseteq Nat \ {0} /\ Batch <= Prefetch
  /\ MaxAgain \in Nat

VARIABLES
  client,    \* which consumer it is
  \* the consumer
  pc,        \* "read", "wait", "handle", "drain", "finish", "owed", "ended", "error"
  waiting,   \* asked: its requests that are not answered, oldest first
  inHand,    \* the messages it has read and not handled
  rows,      \* the rows it has written
  seen,      \* the messages it has handled
  held,      \* the messages to be acknowledged with the next batch
  idle,      \* --idle-seconds have gone by
  abandoned, \* the broker did not close the connection in time
  reported,  \* XPENDING's answer, -1 if there is none
  \* the broker and the connections
  out,       \* the messages published so far
  pos,       \* the messages delivered at least once
  requests,  \* the requests at the broker
  channel,   \* its answers that are not read
  unacked,   \* the messages delivered that it holds unacknowledged
  acks,      \* acknowledgements on their way
  again,     \* the redeliveries so far
  shut,      \* the sending half of the measuring connection is shut
  closed     \* the broker has closed the measuring connection

work == <<inHand, rows, seen, held>>
ending == <<abandoned, reported, shut>>
consumer == <<pc, waiting, work, idle, ending>>
asking == <<requests, channel>>
stream == <<out, pos, again, closed>>
broker == <<stream, asking, unacked, acks>>
vars == <<client, consumer, broker>>

Own == (1..M) \ Foreign

Keeps == client \in {"waiting", "nats"}   \* keeps Depth requests at the broker

\* At the start the consumer has its connections, its group or queue, and has
\* sent its first Depth requests.
Init ==
  /\ client \in Clients
  /\ pc = "read" /\ inHand = <<>> /\ rows = <<>> /\ seen = {} /\ held = {}
  /\ waiting = IF Keeps THEN [i \in 1..Depth |-> i] ELSE <<>>
  /\ requests = waiting
  /\ idle = FALSE /\ abandoned = FALSE /\ reported = -1 /\ shut = FALSE
  /\ out = 0 /\ pos = 0 /\ channel = <<>> /\ unacked = {} /\ acks = <<>>
  /\ again = 0 /\ closed = FALSE

Running == pc \notin {"ended", "error"}

-----------------------------------------------------------------------------
(***************************************************************************)
(* The broker (external) and the clock.                                    *)
(***************************************************************************)
Publish ==
  /\ Running /\ out < M
  /\ out' = out + 1
  /\ UNCHANGED <<client, consumer, pos, again, closed, asking, unacked, acks>>

TimePasses ==
  /\ Running /\ ~idle
  /\ idle' = TRUE
  /\ UNCHANGED <<client, pc, waiting, work, ending, broker>>

Fewer(a, b) == IF a < b THEN a ELSE b

\* The next n messages of the stream, delivered for the first time.
First(n) == [i \in 1..n |-> [id |-> pos + i, again |-> FALSE]]

Ids(messages) == {messages[i].id : i \in DOMAIN messages}

Answer(to, messages) == [to |-> to, messages |-> messages]

Deliver(to, n) ==
  /\ channel' = Append(channel, Answer(to, First(n)))
  /\ pos' = pos + n
  /\ unacked' = unacked \cup Ids(First(n))
  /\ UNCHANGED <<client, consumer, out, again, closed, acks>>

\* Redis runs a connection's requests in order: the oldest is answered with all
\* there is, up to COUNT, or, once BLOCK is over, with nothing.
RedisAnswers ==
  /\ Running /\ client \in {"redis", "waiting"} /\ ~closed /\ requests # <<>>
  /\ Deliver(Head(requests), Fewer(Count, out - pos))
  /\ requests' = Tail(requests)

\* NATS answers the oldest request with one message; the message does not name it.
NatsDelivers ==
  /\ Running /\ client = "nats" /\ requests # <<>> /\ pos < out
  /\ Deliver("unnamed", 1)
  /\ requests' = Tail(requests)

\* A message unacknowledged for too long is delivered again.
NatsRedelivers ==
  /\ Running /\ client = "nats" /\ requests # <<>> /\ again < MaxAgain
  /\ \E id \in unacked :
       channel' = Append(channel, Answer("unnamed", <<[id |-> id, again |-> TRUE]>>))
  /\ again' = again + 1
  /\ requests' = Tail(requests)
  /\ UNCHANGED <<client, consumer, out, pos, closed, unacked, acks>>

\* A request expires, or the consumer's leader has changed: the status names it.
NatsEndsRequest ==
  /\ Running /\ client = "nats"
  /\ \E i \in DOMAIN requests :
       /\ channel' = Append(channel, Answer(requests[i], <<>>))
       /\ requests' = RemoveAt(requests, i)
  /\ UNCHANGED <<client, consumer, stream, unacked, acks>>

RabbitPushes ==
  /\ Running /\ client = "rabbitmq" /\ pos < out /\ Cardinality(unacked) < Prefetch
  /\ Deliver("unnamed", 1)
  /\ UNCHANGED requests

BrokerTakesAcks ==
  /\ acks # <<>>
  /\ unacked' = unacked \ Head(acks)
  /\ acks' = Tail(acks)
  /\ UNCHANGED <<client, consumer, stream, asking>>

\* Redis frees a client whose connection has ended, and its requests with it.
RedisCloses ==
  /\ shut /\ ~closed
  /\ closed' = TRUE /\ requests' = <<>>
  /\ UNCHANGED <<client, consumer, out, pos, again, channel, unacked, acks>>

-----------------------------------------------------------------------------
(***************************************************************************)
(* Handling a message.                                                     *)
(***************************************************************************)
\* Slip: another run's message is written too.
WritesAll(message) == ~message.again

\* Slip: a message that is delivered again is written again.
WritesAgain(message) == message.id \in Own

\* A message of this run is written, unless it is marked as redelivered.
Writes(message) == message.id \in Own /\ ~message.again

\* The first message in hand is stamped, and written if it is this run's.
Handle ==
  /\ pc = "handle"
  /\ rows' = IF Writes(Head(inHand)) THEN Append(rows, Head(inHand).id) ELSE rows
  /\ seen' = seen \cup {Head(inHand).id}
  /\ inHand' = Tail(inHand)
  /\ pc' = IF Len(inHand) > 1 THEN "handle" ELSE IF shut THEN "drain" ELSE "read"
  /\ UNCHANGED <<client, waiting, ending, stream, asking>>

\* Kafka's commits nothing itself; only its own messages count against the idle stop.
KafkaHandles ==
  /\ client = "kafka" /\ Handle
  /\ idle' = (idle /\ Head(inHand).id \in Foreign)
  /\ UNCHANGED <<held, unacked, acks>>

\* Redis's acknowledges another run's message at once, its own in batches, and
\* waits for the reply.
RedisHandles ==
  /\ client = "redis" /\ Handle
  /\ LET id   == Head(inHand).id
         full == Cardinality(held \cup {id}) >= Batch
     IN  IF id \in Foreign
         THEN unacked' = unacked \ {id} /\ UNCHANGED held
         ELSE /\ held' = IF full THEN {} ELSE held \cup {id}
              /\ unacked' = IF full THEN unacked \ (held \cup {id}) ELSE unacked
  /\ UNCHANGED <<idle, acks>>

\* add: every entry is acknowledged in a batch, on the second connection.
WaitingHandles ==
  /\ client = "waiting" /\ Handle
  /\ LET batch == held \cup {Head(inHand).id}
         full  == Cardinality(batch) >= Batch
     IN  /\ held' = IF full THEN {} ELSE batch
         /\ acks' = IF full THEN Append(acks, batch) ELSE acks
  /\ UNCHANGED <<idle, unacked>>

NatsHandles ==
  /\ client = "nats" /\ Handle
  /\ acks' = Append(acks, {Head(inHand).id})
  /\ idle' = FALSE
  /\ UNCHANGED <<held, unacked>>

\* What an acknowledgement covers: with multiple set, every message up to its tag.
Covered(tag) == IF Batch > 1 THEN 1..tag ELSE {tag}

\* Slip: the batch is acknowledged under the tag of the newest message pushed.
RabbitHandlesNewest ==
  /\ client = "rabbitmq" /\ Handle
  /\ LET id   == Head(inHand).id
         full == Cardinality(held \cup {id}) >= Batch
     IN  IF id \in Foreign
         THEN acks' = Append(acks, {id}) /\ UNCHANGED held
         ELSE /\ held' = IF full THEN {} ELSE held \cup {id}
              /\ acks' = IF full THEN Append(acks, Covered(pos)) ELSE acks
  /\ idle' = FALSE
  /\ UNCHANGED unacked

\* Another run's message is acknowledged at once and alone, its own when Batch of
\* them are handled, under the last one's tag.
RabbitHandles ==
  /\ client = "rabbitmq" /\ Handle
  /\ LET id   == Head(inHand).id
         full == Cardinality(held \cup {id}) >= Batch
     IN  IF id \in Foreign
         THEN acks' = Append(acks, {id}) /\ UNCHANGED held
         ELSE /\ held' = IF full THEN {} ELSE held \cup {id}
              /\ acks' = IF full THEN Append(acks, Covered(id)) ELSE acks
  /\ idle' = FALSE
  /\ UNCHANGED unacked

-----------------------------------------------------------------------------
(***************************************************************************)
(* Asking and reading.                                                     *)
(***************************************************************************)
\* A request not outstanding.  (Requests are never named again in the code; here
\* a name is used again once its answer has been read.)
Fresh == CHOOSE r \in 1..(Depth + 1) : r \notin ToSet(waiting)

\* kafka: poll may commit what the one before returned.  With nothing brought the
\* idle stop is looked at, and close commits.
KafkaPolls ==
  /\ client = "kafka" /\ pc = "read"
  /\ \E left \in {unacked, {}} :
       \/ \E n \in 1..Fewer(Count, out - pos) :
            /\ inHand' = First(n) /\ pos' = pos + n
            /\ unacked' = left \cup Ids(First(n))
            /\ pc' = "handle"
       \/ /\ pc' = IF idle THEN "ended" ELSE "read"
          /\ unacked' = IF idle THEN {} ELSE left
          /\ UNCHANGED <<inHand, pos>>
  /\ UNCHANGED <<client, waiting, rows, seen, held, idle, ending, out, again, closed,
                 asking, acks>>

RedisAsks ==
  /\ client = "redis" /\ pc = "read"
  /\ waiting' = <<Fresh>> /\ requests' = <<Fresh>>
  /\ pc' = "wait"
  /\ UNCHANGED <<client, work, idle, ending, stream, channel, unacked, acks>>

\* With nothing in the reply what is held is acknowledged, and then the idle stop
\* is looked at.
RedisReads ==
  /\ client = "redis" /\ pc = "wait" /\ channel # <<>>
  /\ channel' = Tail(channel) /\ waiting' = <<>>
  /\ inHand' = Head(channel).messages
  /\ IF inHand' # <<>>
     THEN pc' = "handle" /\ idle' = FALSE /\ UNCHANGED <<held, unacked>>
     ELSE /\ pc' = IF idle THEN "ended" ELSE "read"
          /\ held' = {} /\ unacked' = unacked \ held
          /\ UNCHANGED idle
  /\ UNCHANGED <<client, rows, seen, ending, stream, requests, acks>>

\* A reply answers the oldest request; the next one goes before it is handled.
WaitingReads ==
  /\ client = "waiting" /\ pc = "read" /\ channel # <<>>
  /\ Head(channel).messages # <<>>
  /\ channel' = Tail(channel)
  /\ waiting' = Append(Tail(waiting), Fresh) /\ requests' = Append(requests, Fresh)
  /\ inHand' = Head(channel).messages
  /\ pc' = "handle" /\ idle' = FALSE
  /\ UNCHANGED <<client, rows, seen, held, ending, stream, unacked, acks>>

Flush == acks' = (IF held = {} THEN acks ELSE Append(acks, held)) /\ held' = {}

\* A reply with nothing: the idle stop, or the next request and a flush.
WaitingReadsNothing ==
  /\ client = "waiting" /\ pc = "read" /\ channel # <<>>
  /\ Head(channel).messages = <<>>
  /\ channel' = Tail(channel)
  /\ IF idle
     THEN /\ waiting' = Tail(waiting) /\ pc' = "drain" /\ shut' = TRUE
          /\ UNCHANGED <<requests, held, acks>>
     ELSE /\ waiting' = Append(Tail(waiting), Fresh) /\ requests' = Append(requests, Fresh)
          /\ Flush
          /\ UNCHANGED <<pc, shut>>
  /\ UNCHANGED <<client, inHand, rows, seen, idle, abandoned, reported, stream, unacked>>

\* A message: another request goes, and the oldest is taken for answered.
NatsReads ==
  /\ client = "nats" /\ pc = "read" /\ channel # <<>>
  /\ Head(channel).messages # <<>>
  /\ channel' = Tail(channel)
  /\ waiting' = Append(Tail(waiting), Fresh) /\ requests' = Append(requests, Fresh)
  /\ inHand' = Head(channel).messages
  /\ pc' = "handle"
  /\ UNCHANGED <<client, rows, seen, held, idle, ending, stream, unacked, acks>>

\* Slip: a status is taken to answer the oldest request.
NatsReadsStatusOldest ==
  /\ client = "nats" /\ pc = "read" /\ channel # <<>>
  /\ Head(channel).messages = <<>>
  /\ channel' = Tail(channel)
  /\ requests' = Append(requests, Fresh)
  /\ waiting' = Append(Tail(waiting), Fresh)
  /\ pc' = IF Head(channel).to \notin ToSet(waiting) THEN "error"
           ELSE IF idle THEN "ended" ELSE "read"
  /\ UNCHANGED <<client, work, idle, ending, stream, unacked, acks>>

\* A status: another request goes, and the one it names must be waiting.
NatsReadsStatus ==
  /\ client = "nats" /\ pc = "read" /\ channel # <<>>
  /\ Head(channel).messages = <<>>
  /\ channel' = Tail(channel)
  /\ requests' = Append(requests, Fresh)
  /\ waiting' = RemoveFirst(Append(waiting, Fresh), Head(channel).to)
  /\ pc' = IF Head(channel).to \notin ToSet(waiting) THEN "error"
           ELSE IF idle THEN "ended" ELSE "read"
  /\ UNCHANGED <<client, work, idle, ending, stream, unacked, acks>>

\* A read that brings nothing, or a PONG, once the idle time is over.
NatsStops ==
  /\ client = "nats" /\ pc = "read" /\ idle
  /\ pc' = "ended"
  /\ UNCHANGED <<client, waiting, work, idle, ending, broker>>

RabbitReads ==
  /\ client = "rabbitmq" /\ pc = "read" /\ channel # <<>>
  /\ channel' = Tail(channel)
  /\ inHand' = Head(channel).messages
  /\ pc' = "handle"
  /\ UNCHANGED <<client, waiting, rows, seen, held, idle, ending, stream, requests, unacked, acks>>

\* Slip: the time is noted after every wait, before the idle stop is looked at.
RabbitWaitsNoting ==
  /\ client = "rabbitmq" /\ pc = "read" /\ channel = <<>>
  /\ held' = {} /\ idle' = FALSE
  /\ acks' = IF held = {} THEN acks
             ELSE Append(acks, Covered(CHOOSE tag \in held : \A id \in held : id <= tag))
  /\ UNCHANGED <<client, pc, waiting, inHand, rows, seen, ending, stream, asking, unacked>>

\* A wait that brings nothing: what is held is acknowledged, then the idle stop.
RabbitWaits ==
  /\ client = "rabbitmq" /\ pc = "read" /\ channel = <<>>
  /\ held' = {}
  /\ acks' = IF held = {} THEN acks
             ELSE Append(acks, Covered(CHOOSE tag \in held : \A id \in held : id <= tag))
  /\ pc' = IF idle THEN "ended" ELSE "read"
  /\ UNCHANGED <<client, waiting, inHand, rows, seen, idle, ending, stream, asking, unacked>>

-----------------------------------------------------------------------------
(***************************************************************************)
(* The end of the waiting consumer: with the sending half shut, what the   *)
(* broker still sends is handled until it closes the connection; then the  *)
(* second connection says what is left pending.                            *)
(***************************************************************************)
\* Slip: what comes in after the stop is read and not handled.
DrainsUnread ==
  /\ pc = "drain" /\ channel # <<>>
  /\ channel' = Tail(channel) /\ waiting' = Tail(waiting)
  /\ UNCHANGED <<client, pc, work, idle, ending, stream, requests, unacked, acks>>

Drains ==
  /\ pc = "drain" /\ channel # <<>>
  /\ channel' = Tail(channel) /\ waiting' = Tail(waiting)
  /\ inHand' = Head(channel).messages
  /\ pc' = IF inHand' = <<>> THEN "drain" ELSE "handle"
  /\ UNCHANGED <<client, rows, seen, held, idle, ending, stream, requests, unacked, acks>>

\* The broker has closed the connection, or does not in CLOSING_S.
DrainOver ==
  /\ pc = "drain"
  /\ \/ closed /\ channel = <<>> /\ UNCHANGED abandoned
     \/ ~closed /\ abandoned' = TRUE
  /\ pc' = "finish"
  /\ UNCHANGED <<client, waiting, work, idle, reported, shut, broker>>

Finish ==
  /\ pc = "finish"
  /\ Flush
  /\ pc' = "owed"
  /\ UNCHANGED <<client, waiting, inHand, rows, seen, idle, ending, stream, asking, unacked>>

\* Slip: XPENDING is answered before the acknowledgements owed.
ReportsEarly ==
  /\ pc = "owed"
  /\ reported' = Cardinality(unacked)
  /\ pc' = "ended"
  /\ UNCHANGED <<client, waiting, work, idle, abandoned, shut, broker>>

\* XPENDING is answered after every acknowledgement, or not in CLOSING_S.
Reports ==
  /\ pc = "owed"
  /\ \/ acks = <<>> /\ reported' = Cardinality(unacked)
     \/ UNCHANGED reported
  /\ pc' = "ended"
  /\ UNCHANGED <<client, waiting, work, idle, abandoned, shut, broker>>

Ended == ~Running /\ acks = <<>> /\ UNCHANGED vars

Reads ==
  \/ KafkaPolls \/ RedisAsks \/ RedisReads \/ WaitingReads \/ WaitingReadsNothing
  \/ NatsReads \/ NatsReadsStatus \/ NatsStops \/ RabbitReads \/ RabbitWaits
  \/ Drains \/ DrainOver \/ Finish \/ Reports

Handles ==
  KafkaHandles \/ RedisHandles \/ WaitingHandles \/ NatsHandles \/ RabbitHandles

Broker ==
  \/ RedisAnswers \/ NatsDelivers \/ NatsRedelivers \/ NatsEndsRequest \/ RabbitPushes
  \/ RedisCloses

Next ==
  Publish \/ TimePasses \/ Broker \/ BrokerTakesAcks \/ Reads \/ Handles \/ Ended

\* The consumer goes on, time passes, a BLOCK and a connection's timeouts end.
\* Nothing is asked of the producer.
Fairness ==
  /\ WF_vars(Reads) /\ WF_vars(Handles) /\ WF_vars(TimePasses)
  /\ WF_vars(RedisAnswers) /\ WF_vars(BrokerTakesAcks)

Spec == Init /\ [][Next]_vars /\ Fairness

-----------------------------------------------------------------------------
(***************************************************************************)
(* Properties.                                                             *)
(***************************************************************************)
TypeOK ==
  /\ client \in Clients
  /\ pc \in {"read", "wait", "handle", "drain", "finish", "owed", "ended", "error"}
  /\ pos <= out /\ out <= M /\ again <= MaxAgain
  /\ Len(waiting) <= Depth /\ ToSet(requests) \subseteq 1..(Depth + 1)
  /\ inHand \in Seq([id : 1..pos, again : BOOLEAN]) /\ Len(inHand) <= Count
  /\ rows \in Seq(Own) /\ seen \subseteq 1..pos /\ held \subseteq seen
  /\ unacked \subseteq 1..pos /\ reported \in -1..M
  /\ Len(channel) <= Depth + Prefetch /\ Len(acks) <= M + MaxAgain

\* A message is acknowledged, or its offset committed, once its row is written:
\* a consumer that is cut off leaves the broker every message it has no row for.
AckedIsWritten == \A id \in (1..pos) \ unacked : id \in Own => id \in ToSet(rows)

\* The rows come in the stream's order and none comes twice, redelivered or not.
WrittenOnce == \A i, j \in DOMAIN rows : i < j => rows[i] < rows[j]

\* Redis's consumers write every message of their run that was delivered to them:
\* the waiting one too, whose requests the broker may answer after the idle stop.
DeliveredIsWritten ==
  client \in {"redis", "waiting"} /\ pc = "ended" /\ ~abandoned =>
    Own \cap 1..pos \subseteq ToSet(rows)

\* What XPENDING reports at the end is the messages delivered and never read.
PendingIsUnread ==
  [][reported' # reported => reported' = Cardinality((1..pos) \ seen)]_vars

\* Every status NATS's consumer reads names a request that is still waiting.
NeverMistaken == pc # "error"

\* Every consumer comes to its end.
Ends == <>(pc = "ended")

=============================================================================
