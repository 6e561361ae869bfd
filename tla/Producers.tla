------------------------------ MODULE Producers ------------------------------
(***************************************************************************)
(* The producers of a trial: scripts/kafka_producer.py, redis_producer.py, *)
(* nats_producer.py and rabbitmq_producer.py.  Each sends a plan's         *)
(* messages at their times, keeps account of which the broker has          *)
(* acknowledged, and ends with OK and a row for each, or fails.            *)
(*                                                                         *)
(* They differ in who waits for an acknowledgement: Kafka's main loop      *)
(* blocks on the oldest of its futures once max_inflight are out, Redis's  *)
(* pool has a thread blocked for each, NATS's acknowledgements come to a   *)
(* reader thread under a token each, RabbitMQ's come numbered, one by one  *)
(* or several at a time, in the turns of the main loop.  All but           *)
(* RabbitMQ's may also send corrections, from a thread of their own that   *)
(* the main loop feeds through a heap and a condition variable.            *)
(*                                                                         *)
(* Times are left out: a message is sent, and a correction is due, when    *)
(* its thread takes the step; a wait may be over at any time.  The broker  *)
(* (external) answers what it is sent, in any order, or not at all.        *)
(***************************************************************************)
EXTENDS Integers, SequencesExt

CONSTANTS
  Clients,   \* the producers: some of "kafka", "redis", "nats", "rabbitmq"
  N,         \* the messages of the plan
  Every,     \* corrections follow every k-th message; 0 for none
  Window,    \* Kafka's --max-inflight, Redis's --send-workers
  MaxAnswers, \* a bound on the answers on their way
  SlowCorrections \* whether Kafka's broker may take over 30 s for a correction

ASSUME ProducersAssumption ==
  /\ Clients \subseteq {"kafka", "redis", "nats", "rabbitmq"}
  /\ N \in Nat \ {0} /\ Every \in Nat /\ Window \in Nat \ {0} /\ MaxAnswers \in Nat
  /\ SlowCorrections \in BOOLEAN

Base(i) == [of |-> i, rev |-> 1]
Correction(i) == [of |-> i, rev |-> 2]

Plan == [i \in 1..N |-> Base(i)]

VARIABLES
  client,   \* which producer it is
  \* the main loop
  next,     \* the next row of the plan
  pc,       \* its next step; "ok" and "failed" are its ends
  futures,  \* kafka: the futures it will wait for, oldest first
  file,     \* the rows written, each with whether it has an acknowledgement
  \* the correction thread
  due,      \* the heap of corrections
  noMore,   \* jobs_done
  worker,   \* "look", "asleep" on the condition, "sending", "waiting" or "gone"
  inHand,   \* the correction it is sending
  corrRows, \* the rows it has kept
  \* the account of acknowledgements
  waiting,  \* the messages an acknowledgement is looked for: pending, waiting
  acked,    \* the messages whose acknowledgement has been stamped
  errors,   \* the messages known to have failed
  lowest,   \* rabbitmq: the first number that has not been answered
  \* the broker
  pool,     \* redis: messages handed to the pool, no thread having sent them
  wire,     \* messages sent that are not answered
  answers,  \* answers on their way to nats's and rabbitmq's producer
  said,     \* what the answers that came in said of each message
  broken    \* whether the connection has failed

main == <<next, pc, futures, file>>
corrections == <<due, noMore, worker, inHand, corrRows>>
account == <<waiting, acked, errors, lowest>>
broker == <<pool, wire, answers, said, broken>>
vars == <<client, main, corrections, account, broker>>

Corrects(i) == client # "rabbitmq" /\ Every > 0 /\ i % Every = 0
Corrected == {Correction(i) : i \in {j \in 1..N : Corrects(j)}}
Messages == ToSet(Plan) \cup Corrected

Running == pc \notin {"ok", "failed"}

Init ==
  /\ client \in Clients
  /\ next = 1 /\ pc = "send" /\ futures = <<>> /\ file = <<>>
  /\ due = <<>> /\ noMore = FALSE /\ inHand = {} /\ corrRows = <<>>
  /\ worker = IF Corrected = {} THEN "gone" ELSE "look"
  /\ waiting = {} /\ acked = {} /\ errors = {} /\ lowest = 1
  /\ pool = {} /\ wire = {} /\ answers = <<>> /\ broken = FALSE
  /\ said = [m \in Messages |-> "nothing"]

-----------------------------------------------------------------------------
(***************************************************************************)
(* The main loop: one message of the plan after the other.                 *)
(***************************************************************************)
Go(from, to) == Running /\ pc = from /\ pc' = to

Notify == worker' = IF worker = "asleep" THEN "look" ELSE worker

\* The row is done: its correction, if it has one, is put on the heap.
RowDone ==
  /\ next' = next + 1
  /\ IF Corrects(next)
     THEN due' = Append(due, Correction(next)) /\ Notify
     ELSE UNCHANGED <<due, worker>>
  /\ UNCHANGED <<noMore, inHand, corrRows>>

MustWait == Len(futures) >= Window

KafkaSend ==
  /\ client = "kafka" /\ Go("send", "sent") /\ next <= N
  /\ futures' = Append(futures, Base(next))
  /\ wire' = wire \cup {Base(next)}
  /\ UNCHANGED <<client, next, file, corrections, account, pool, answers, said, broken>>

\* Fewer than max_inflight are out: the loop goes on.
KafkaGoOn ==
  /\ client = "kafka" /\ Go("sent", "send") /\ ~MustWait
  /\ RowDone
  /\ UNCHANGED <<client, futures, file, account, broker>>

\* The oldest future has its answer.
KafkaGot ==
  /\ client = "kafka" /\ Go("sent", "send") /\ MustWait
  /\ Head(futures) \in acked
  /\ futures' = Tail(futures)
  /\ RowDone
  /\ UNCHANGED <<client, file, account, broker>>

\* get raises: the send failed, or nothing came in 30 s.
KafkaGetRaises ==
  /\ client = "kafka" /\ futures # <<>> /\ Head(futures) \notin acked
  /\ \/ Go("sent", "failed") /\ MustWait
     \/ Go("futures", "failed")
  /\ UNCHANGED <<client, next, futures, file, corrections, account, broker>>

RedisSubmit ==
  /\ client = "redis" /\ Go("send", "send") /\ next <= N
  /\ pool' = pool \cup {Base(next)}
  /\ RowDone
  /\ UNCHANGED <<client, futures, file, account, wire, answers, said, broken>>

\* publish: the row is registered under its token, and then written.
NatsRegister ==
  /\ client = "nats" /\ Go("send", "write") /\ next <= N
  /\ waiting' = waiting \cup {Base(next)}
  /\ UNCHANGED <<client, next, futures, file, corrections, acked, errors, lowest, broker>>

NatsWrite ==
  /\ client = "nats" /\ ~broken /\ Go("write", "send")
  /\ wire' = wire \cup {Base(next)}
  /\ RowDone
  /\ UNCHANGED <<client, futures, file, account, pool, answers, said, broken>>

RabbitPublish ==
  /\ client = "rabbitmq" /\ ~broken /\ Go("send", "send") /\ next <= N
  /\ waiting' = waiting \cup {Base(next)}
  /\ wire' = wire \cup {Base(next)}
  /\ RowDone
  /\ UNCHANGED <<client, futures, file, acked, errors, lowest, pool, answers, said, broken>>

\* A write on a connection that has failed raises.
WriteRaises ==
  /\ broken
  /\ \/ client = "nats" /\ Go("write", "failed")
     \/ client = "rabbitmq" /\ next <= N /\ Go("send", "failed")
  /\ UNCHANGED <<client, next, futures, file, corrections, account, broker>>

-----------------------------------------------------------------------------
(***************************************************************************)
(* The end of the plan.  Kafka waits for its futures, for the corrections  *)
(* and for the flush; Redis for its pool, writes, and then for the         *)
(* corrections; NATS for the corrections and then for what is unanswered;  *)
(* RabbitMQ for what is unanswered.                                        *)
(***************************************************************************)
PlanEnds ==
  /\ next > N
  /\ Go("send", CASE client = "kafka" -> "futures" [] client = "redis" -> "pool"
                  [] client = "nats" -> "noMore"   [] client = "rabbitmq" -> "answers")
  /\ UNCHANGED <<client, next, futures, file, corrections, account, broker>>

KafkaGotLast ==
  /\ futures # <<>> /\ Head(futures) \in acked
  /\ Go("futures", "futures")
  /\ futures' = Tail(futures)
  /\ UNCHANGED <<client, next, file, corrections, account, broker>>

KafkaGotAll ==
  /\ futures = <<>>
  /\ Go("futures", "noMore")
  /\ UNCHANGED <<client, next, futures, file, corrections, account, broker>>

\* Base rows sorted by their place in the plan: i - 1 rows come before the i-th.
Rows(ms) ==
  [i \in 1..Cardinality(ms) |-> CHOOSE m \in ms : Cardinality({o \in ms : o.of < m.of}) = i - 1]

Stamped(rows) == [i \in DOMAIN rows |-> [of |-> rows[i], ack |-> rows[i] \in acked]]

\* shutdown(wait=True), and the rows that came back, in the plan's order.
RedisDrained ==
  /\ client = "redis" /\ pool = {} /\ \A m \in wire : m.rev # 1
  /\ IF \E m \in errors : m.rev = 1
     THEN Go("pool", "failed") /\ UNCHANGED file
     ELSE /\ Go("pool", "noMore")
          /\ file' = Stamped(Rows({m \in acked : m.rev = 1}))
  /\ UNCHANGED <<client, next, futures, corrections, account, broker>>

\* Slip: the thread that waits for a correction is not told.
SayNoMoreUntold ==
  /\ Go("noMore", "join")
  /\ noMore' = TRUE
  /\ UNCHANGED <<client, next, futures, file, due, worker, inHand, corrRows, account, broker>>

SayNoMore ==
  /\ Go("noMore", "join")
  /\ noMore' = TRUE
  /\ Notify
  /\ UNCHANGED <<client, next, futures, file, due, inHand, corrRows, account, broker>>

Join ==
  /\ worker = "gone"
  /\ Go("join", CASE client = "kafka" -> "flush" [] client = "redis" -> "corrections"
                  [] client = "nats" -> "answers")
  /\ UNCHANGED <<client, next, futures, file, corrections, account, broker>>

\* flush returns once everything sent is answered; then the errors are looked at.
KafkaFlushed ==
  /\ client = "kafka" /\ wire = {}
  /\ IF errors # {}
     THEN Go("flush", "failed") /\ UNCHANGED file
     ELSE /\ Go("flush", "ok")
          /\ file' = Stamped(Plan \o corrRows)
  /\ UNCHANGED <<client, next, futures, corrections, account, broker>>

RedisWrites ==
  /\ client = "redis"
  /\ IF errors # {}
     THEN Go("corrections", "failed") /\ UNCHANGED file
     ELSE /\ Go("corrections", "ok")
          /\ file' = file \o Stamped(corrRows)
  /\ UNCHANGED <<client, next, futures, corrections, account, broker>>

\* The wait is given up, or a message was refused, or the connection has failed.
AnswersShort ==
  /\ client \in {"nats", "rabbitmq"} /\ (broken \/ errors # {} \/ waiting # {})
  /\ Go("answers", "failed")
  /\ UNCHANGED <<client, next, futures, file, corrections, account, broker>>

\* Everything is answered; a connection that has failed may not have been noticed.
AnswersIn ==
  /\ client \in {"nats", "rabbitmq"} /\ errors = {} /\ waiting = {}
  /\ Go("answers", "ok")
  /\ file' = Stamped(Plan \o corrRows)
  /\ UNCHANGED <<client, next, futures, corrections, account, broker>>

Main ==
  \/ KafkaSend \/ KafkaGoOn \/ KafkaGot \/ KafkaGetRaises \/ RedisSubmit
  \/ NatsRegister \/ NatsWrite \/ RabbitPublish \/ WriteRaises
  \/ PlanEnds \/ KafkaGotLast \/ KafkaGotAll \/ RedisDrained \/ SayNoMore \/ Join
  \/ KafkaFlushed \/ RedisWrites \/ AnswersShort \/ AnswersIn

-----------------------------------------------------------------------------
(***************************************************************************)
(* The correction thread.                                                  *)
(***************************************************************************)
Works(from, to) == Running /\ worker = from /\ worker' = to

WorkerSleeps ==
  /\ due = <<>> /\ ~noMore
  /\ Works("look", "asleep")
  /\ UNCHANGED <<client, main, due, noMore, inHand, corrRows, account, broker>>

WorkerReturns ==
  /\ due = <<>> /\ noMore
  /\ Works("look", "gone")
  /\ UNCHANGED <<client, main, due, noMore, inHand, corrRows, account, broker>>

\* The first correction is due: it is taken off the heap; NATS's keeps its row.
WorkerTakes ==
  /\ due # <<>>
  /\ Works("look", "sending")
  /\ due' = Tail(due) /\ inHand' = {Head(due)}
  /\ corrRows' = IF client = "nats" THEN Append(corrRows, Head(due)) ELSE corrRows
  /\ waiting' = IF client = "nats" THEN waiting \cup {Head(due)} ELSE waiting
  /\ UNCHANGED <<client, main, noMore, acked, errors, lowest, broker>>

\* NATS's publishes and goes on; the others wait for the answer.
WorkerSends ==
  /\ ~(client = "nats" /\ broken)
  /\ Works("sending", IF client = "nats" THEN "look" ELSE "waiting")
  /\ wire' = wire \cup inHand
  /\ inHand' = IF client = "nats" THEN {} ELSE inHand
  /\ UNCHANGED <<client, main, due, noMore, corrRows, account, pool, answers, said, broken>>

NatsWorkerWriteRaises ==
  /\ client = "nats" /\ broken
  /\ Works("sending", "look")
  /\ errors' = errors \cup inHand
  /\ inHand' = {}
  /\ UNCHANGED <<client, main, due, noMore, corrRows, waiting, acked, lowest, broker>>

WorkerKeepsRow ==
  /\ inHand \subseteq acked
  /\ Works("waiting", "look")
  /\ corrRows' = corrRows \o SetToSeq(inHand)
  /\ inHand' = {}
  /\ UNCHANGED <<client, main, due, noMore, account, broker>>

\* Slip: a correction that failed is not noted.
RedisWorkerForgets ==
  /\ client = "redis" /\ \E m \in inHand : said[m] = "no"
  /\ Works("waiting", "look")
  /\ inHand' = {}
  /\ UNCHANGED <<client, main, due, noMore, corrRows, account, broker>>

\* Redis's notes the error and goes on.
RedisWorkerNotes ==
  /\ client = "redis" /\ \E m \in inHand : said[m] = "no"
  /\ Works("waiting", "look")
  /\ errors' = errors \cup inHand
  /\ inHand' = {}
  /\ UNCHANGED <<client, main, due, noMore, corrRows, waiting, acked, lowest, broker>>

\* Kafka's get raises, which ends the thread: the send failed or is slow.
KafkaWorkerDies ==
  /\ client = "kafka"
  /\ inHand \subseteq errors \/ (SlowCorrections /\ inHand \subseteq wire)
  /\ Works("waiting", "gone")
  /\ inHand' = {}
  /\ UNCHANGED <<client, main, due, noMore, corrRows, account, broker>>

Worker ==
  \/ WorkerSleeps \/ WorkerReturns \/ WorkerTakes \/ WorkerSends
  \/ NatsWorkerWriteRaises \/ WorkerKeepsRow \/ RedisWorkerNotes \/ KafkaWorkerDies

-----------------------------------------------------------------------------
(***************************************************************************)
(* The broker's answers.                                                   *)
(***************************************************************************)
\* A send worker of Redis's pool sends one.
RedisWorkerSends ==
  /\ Running /\ client = "redis"
  /\ Cardinality({m \in wire : m.rev = 1}) < Window
  /\ \E m \in pool : pool' = pool \ {m} /\ wire' = wire \cup {m}
  /\ UNCHANGED <<client, main, corrections, account, answers, said, broken>>

\* kafka: the client's own thread stamps the acknowledgement, or notes the
\* error, before the future is done; redis: the thread that waits does.
Answered ==
  /\ Running /\ client \in {"kafka", "redis"}
  /\ \E m \in wire, word \in {"yes", "no"} :
       /\ wire' = wire \ {m}
       /\ said' = [said EXCEPT ![m] = word]
       /\ IF word = "yes" THEN acked' = acked \cup {m} /\ UNCHANGED errors
          ELSE /\ UNCHANGED acked
               /\ errors' = IF client = "redis" /\ m.rev = 2 THEN errors ELSE errors \cup {m}
  /\ UNCHANGED <<client, main, corrections, waiting, lowest, pool, answers, broken>>

\* The broker answers one message by its token or number, or, RabbitMQ's, all
\* up to a number that it has not answered.
BrokerAnswers ==
  /\ Running /\ client \in {"nats", "rabbitmq"} /\ ~broken
  /\ Len(answers) < MaxAnswers
  /\ \E m \in wire, word \in {"yes", "no"}, multiple \in {FALSE, client = "rabbitmq"} :
       LET meant == {o \in wire : o = m \/ (multiple /\ o.of < m.of)}
       IN  /\ wire' = wire \ meant
           /\ answers' = Append(answers,
                [to |-> m, multiple |-> multiple, word |-> word, meant |-> meant])
  /\ UNCHANGED <<client, main, corrections, account, pool, said, broken>>

\* Slip: an answer for several is taken for every message sent.
CoversAll(answer) == IF answer.multiple THEN {Base(n) : n \in 1..next} ELSE {answer.to}

\* Slip: an answer for several is taken for one.
CoversOne(answer) == {answer.to}

\* The messages an answer is taken for: multiple is every number up to its own,
\* from the first that has not been answered.
Covers(answer) ==
  IF answer.multiple THEN {Base(n) : n \in lowest..answer.to.of} ELSE {answer.to}

\* The first number not answered, or the next to be given.
LowestOf(left) ==
  CHOOSE n \in lowest..next :
    (n = next \/ Base(n) \in left) /\ \A k \in lowest..(n - 1) : Base(k) \notin left

\* The reader thread, or a turn of the main loop, reads an answer; one for
\* what is not waited for is passed over.
ReadAnswer ==
  /\ Running /\ ~broken /\ answers # <<>>
  /\ client = "rabbitmq" => pc \in {"send", "answers"}
  /\ LET answer == Head(answers)
         found  == Covers(answer) \cap waiting
     IN  /\ waiting' = waiting \ found
         /\ acked' = IF answer.word = "yes" THEN acked \cup found ELSE acked
         /\ errors' = IF answer.word = "no" THEN errors \cup found ELSE errors
         /\ lowest' = IF client = "rabbitmq" THEN LowestOf(waiting \ found) ELSE lowest
         /\ said' = [m \in Messages |-> IF m \in answer.meant THEN answer.word ELSE said[m]]
  /\ answers' = Tail(answers)
  /\ UNCHANGED <<client, main, corrections, pool, wire, broken>>

ConnectionFails ==
  /\ Running /\ client \in {"nats", "rabbitmq"} /\ ~broken
  /\ broken' = TRUE
  /\ UNCHANGED <<client, main, corrections, account, pool, wire, answers, said>>

\* The process has ended.
Ended == ~Running /\ UNCHANGED vars

Next ==
  \/ Main \/ Worker \/ RedisWorkerSends \/ Answered \/ BrokerAnswers \/ ReadAnswer
  \/ ConnectionFails \/ Ended

\* The threads go on, and waits end: a future of Kafka's is answered or expires
\* within its delivery timeout, and a command of Redis's is answered or its
\* connection ends.
Fairness ==
  /\ WF_vars(Main) /\ WF_vars(Worker) /\ WF_vars(RedisWorkerSends) /\ WF_vars(Answered)

Spec == Init /\ [][Next]_vars /\ Fairness

-----------------------------------------------------------------------------
(***************************************************************************)
(* Properties.                                                             *)
(***************************************************************************)
\* OK means that the file holds a row for every message of the plan, in its
\* order, and after them one for every correction, each acknowledged.
OkIsComplete ==
  pc = "ok" =>
    /\ Len(file) = Cardinality(Messages)
    /\ \A i \in 1..N : file[i].of = Plan[i]
    /\ {file[i].of : i \in DOMAIN file} = Messages
    /\ \A i \in DOMAIN file : file[i].ack /\ said[file[i].of] = "yes"

\* A producer fails for a cause: the connection, a message the broker refused,
\* or one it has not answered.
FailsForCause == pc = "failed" => broken \/ \E m \in Messages : said[m] # "yes"

\* An acknowledgement is counted for the message it was for, and an error too.
AnswersAreOwn ==
  \A m \in Messages :
    /\ m \in acked => said[m] = "yes"
    /\ m \in errors => said[m] = "no" \/ broken

\* Every producer comes to an end, whatever the broker does.
Ends == <>(pc \in {"ok", "failed"})

=============================================================================
