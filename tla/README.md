# Verification of the latency testbed's campaign machinery

The repository measures message latency on pairs of cloud machines. Two things in
it carry logic of their own: the machinery that decides *which run is made next,
whether it counts, and what is done after a crash or a reboot*, and the path of one
message through *producer, broker, consumer and packet capture* to the times it is
given. The first loses a night of measurements when it goes wrong; the second
changes what they say. These modules model both, check them with TLC, and prove with
TLAPS, for every value of the constants, every safety property the passing runs check:
of the ledger, the campaign, the pair's queue, the producers, the consumers, the watch
and the wire readers. What they
are after: no planned run is lost or made twice
by mistake, nothing recorded is changed, nothing is credited with another's result,
no message is counted for another's answer or given a time it did not have, and no
machine is stopped under work or left billing unseen.

## Inventory

| Part | Source | State it keeps | Operations | Hard part |
| --- | --- | --- | --- | --- |
| Run queue and ledger | `scripts/run_queue.py` | one CSV file: planned runs in shuffled rounds, their attempts, their status | `make`, `make --force`, `next`, `next --recover`, `finish` | long sequences of failures, recoveries and inserted copies |
| Campaign runner | `cloud/azure/campaign.sh` | run folders, `runs/azure/STOP`, its log, the shell's own variables | start, loop (stop, next, folder, trial, finish, guard), EXIT trap | crash between any two commands; failed writes; restarts |
| Integrity check and guard | `scripts/run_integrity.py` | none (reads the folder and the ledger) | `check` (count, repeat, stop), `guard` | failures in a row across restarts |
| Pair's job queue | `cloud/azure/queue.sh` | `jobs.txt`, `at`, `phase`, `boots`, `retried`, `seen`, `stop`, `stop_when_done`, the @reboot line | the loop; `add`, `start`, `stop`, `arm-stop`, `disarm-stop` | its own reboots, power cuts between writes, sessions that die silently |
| Session scripts | `stage0.sh`, `chain.sh`, `stage1.sh` | `stage0.log`, `chain.log`, `stage1.log`, session folders | calibrate, wait, make a campaign | hand-over by the last line of a log |
| Resume, self-stop | `resume.sh`, `stop_self.sh`, `stop_when_idle.sh` | campaign log; none; quiet looks | start a campaign again; deallocate | at most once; work that hands over between looks |
| Boot selection | `kernels.sh`, `cpus.sh`, `idle.sh` | GRUB default and one-shot entries | boot, check, restore | an entry that outlives its boot |
| Placement and settings | `cpu_placement.py`, `sched_settings.py`, `receiver_delay.py`, `placement_back` and `features_back` of `campaign.sh` | affinity masks, interrupts, qdiscs, features | set, put back | a run that ends in the middle |
| Producers | `kafka_producer.py`, `redis_producer.py`, `nats_producer.py`, `rabbitmq_producer.py` | sends that are not acknowledged, the heap of corrections, errors, rows | send, correct, take an acknowledgement, end | four ways to wait for an acknowledgement; a second thread and its condition variable |
| Consumers | `kafka_consumer.py`, `redis_consumer.py`, `redis_consumer_waiting.py`, `nats_consumer.py`, `rabbitmq_consumer.py` | requests out, rows, the batch to acknowledge | ask, read, write, acknowledge, stop when idle | answers after the idle stop, redelivery, acknowledgements for several |
| Trial runners | `run_*_trial.sh` | none | start both clients and wait | partial failure |
| Testbed watch | `testbed_watch.py`, `azure_testbed.py`, `spend.py` | since when each pair is idle, the money ledger | look, tell, deallocate, count | a stale look; half a pair stopped; the pair's own `stop_when_idle.sh` |
| Designs, rounds, fits | `law_design.py`, `rounds_rule.py`, `delay_calibration.py` | none | arithmetic over measurements | numerical, not for a model checker |
| Wire readers | `client_wire.py`, `recv_wait.py`, `kafka_wire.py`, `resp_wire.py`, `so_timestamps.py` | the pieces of a captured stream and their times | reassemble, look up | packets repeated, reordered, recut, wrapped around, missed |
| Analyses | `emit_paper_numbers.py`, `make_*_figures.py`, `tool_readings.py`, `general_method.py`, `under_load.py` and others | none | parse, summarise, draw | data, not control |

How they interact. A pair's job queue boots the machine as a job asks and starts a
session; the session calibrates and then makes one campaign over a fresh run queue;
the campaign takes one run at a time from the run queue, makes its folder, runs the
trial, has the integrity check judge it and closes its row, and asks the guard
whether to go on. Everything above talks to what is below through files and through
*the last line of a log*. A trial starts a consumer and a producer on the two sides
of a broker, and may capture their packets; they share nothing but the broker. The
watch, from somebody's own computer, reads what is at work on each pair over SSH and
asks Azure to deallocate an idle one; `stop_when_idle.sh` does the same from inside,
and neither knows of the other. What makes each part correct:

- **ledger**: file order, one run in hand, no planned run lost, a second row only
  after a failure, closed rows never change;
- **campaign**: its commands use the ledger as the ledger allows, a folder is written once,
  `done` only over a folder that counted, `CAMPAIGN_COMPLETE` only when nothing is
  owed, the guard holds, it ends;
- **pair's queue**: a job is put back once, none is passed over untried, none is
  finished on another's word, a stop is obeyed, the pair turns off once per arming,
  the list ends, unless a chain waits for ever on a calibration that died;
- **producers**: OK only over a row and an acknowledgement for every message, failure
  only for a cause, each answer counted for its own message, an end;
- **consumers**: a row before its acknowledgement, each row once and in order, what
  comes in after the idle stop written too, an end;
- **watch**: work that was seen at the last look that fell on it is not stopped,
  machines billed for nothing are told of, the ledger never counts more than one gap
  too much, an idle pair is stopped;
- **wire readers**: each byte has the time it first went by, and the time it could
  first be read.

## Modules

| Module | Models | Notes |
| --- | --- | --- |
| `RunPlan` | what the ledger promises | abstract: each planned run is waiting, in hand, done or given up |
| `RunQueue` | `run_queue.py` | refines `RunPlan` through `PlanOf` |
| `RunQueueProofs`, `RunPlanProofs` | | theorems about `RunQueue`; that it implements `RunPlan` |
| `Campaign` | `campaign.sh`'s loop, `run_integrity.py`'s guard, over `RunQueue` | refines `RunQueue` (property `LedgerUsed`) |
| `CampaignProofs` | | theorems about `Campaign` |
| `PairQueue` | `queue.sh`, with the sessions as it sees them | |
| `PairQueueProofs` | | theorems about `PairQueue` |
| `Producers` | the four producers | `client` says which; they share the main loop |
| `ProducersProofs` | | theorems about `Producers` |
| `Consumers` | the five consumers | `client` says which |
| `ConsumersProofs` | | theorems about `Consumers` |
| `Watch` | `testbed_watch.py`, `azure_testbed.py`'s steps, `spend.py`'s ledger, `stop_when_idle.sh`, `stop_self.sh`, and what is at work on the driver (`stage0.sh`, `chain.sh`, a campaign) | composes the two stoppers over one pair |
| `WatchProofs` | | theorems about `Watch` |
| `Wire` | `client_wire.Sent`, `recv_wait.Stream`, `connections_of` | loops as recursive functions of their turns |
| `WireProofs` | | theorems about `Wire` |
| `MC*` | small instances | values only |

An operator whose comment begins with "Slip:" is not part of a specification. It is
a plausible wrong version of the definition that follows it, kept to show that the
properties notice.

### RunQueue

`rows` is the CSV file. A command reads all of it and replaces it with `os.replace`,
so a command is one action and a crash inside it changes nothing. A row keeps round,
setup, attempt and status; its key is round, setup and attempt. `fail` marks the row
and inserts the copy at a later place: `Slots` is the set the seeded choice picks
from. `NextRecover` is `next --recover`, which records the row left running as a
failure and hands out the next one in the same write. `Remake` is `make --force`.

### Campaign

Each command of the loop is one step: `pc` is the next one. `folders` says of each
key whether its run folder exists and what it holds; folders may be left over from
an earlier queue of the same name. `Crash` may happen before any step, `FinishFails`
and `NextFails` are a ledger that cannot be written, `Start` is anyone starting the
campaign again (`resume.sh` does). `run_one` is one step with any verdict. The guard
is translated in full with its thresholds as constants, over the places of the rows
that are closed: `Latest(q, n)` are the last n of them. It assumes attempts finish
in file order, which `InOrder` of the ledger gives, so that the latest by
`finished_utc` are the last in the file. `verdict` at the start of a run stands for
`REASON=""` and `STOP_REASON=""`.

### PairQueue

The variables are the files of `runs/azure/queue`, the @reboot line, the session
folders with the word their log ends on, the loop's `pc`, and the sessions at work.
Every file the loop writes is written in a step of its own: `advance` is three
steps, `requeue_once` two, `prep` two. `PowerCut` ends the loop, its command and its
sessions; `Kill` ends the loop and leaves the sessions, and a command it was
running, at work. A calibration is at work alone until its chain has started, and
stays so when the chain does not; nothing reads what work that is alone does, except
whether it is still there. The reboot that a job asks for is taken to come. `Torn` says whether a halt may fall between
`advance`'s writes; with it `CreditIsOwn` fails, which is a finding below, so the
safety run is made without it and the liveness run with it. A session calibrates,
may stop there (`chain.log`), makes its folder, and ends with a word or dies. When
`stage0.sh` dies without a word, `chain.sh` has no end of its own (`chain.sh:64`): the
session is `stuck` (`CalibrationDies`), which `work_running` counts, until a later job
starts a calibration over `stage0.log` (`Rereading`) or the machine goes down. The
twelve hours of a wait are a flag that may come true whenever the loop wakes.
`tried`, `credited`, `stopAt` and `used` record what has happened and guard
nothing but the bounds.

### Producers

A producer is its main loop (`next`, `pc`), a second thread that sends corrections
(`due`, `noMore`, `worker`), and its account of acknowledgements (`waiting`, `acked`,
`errors`). What differs is who waits. Kafka's main loop waits for the oldest of its
futures once `Window` are out; a thread of the client library stamps the answer
before the future is done. Redis's pool is `Window` threads, each waiting for one
answer. NATS's reader thread takes answers under a token; RabbitMQ's main loop takes
numbered ones in its own turns, one by one or several (`Covers`), and counts the
lowest number unanswered. Every step between two locks, waits or sends is an action.
The condition variable is modelled as it is, with a worker that looks and then
sleeps in one step because it holds the lock, and a notify that wakes it. The broker
answers yes, no or not at all, in any order; `said` records what an answer said of
each message, and is what the properties compare the account with. Times are left
out: a message is sent, and a correction is due, when its thread takes the step.
`Rows` are the rows of some messages in the plan's order, each at the place of its
rank among them.

### Consumers

`pc` is a consumer's place in its loop and `waiting` its requests that have no answer
yet; a connection is a queue (`requests`, `channel`, `acks`). The broker publishes,
delivers and takes acknowledgements when it does; NATS may deliver again what is
unacknowledged, and end a request with a status; RabbitMQ pushes up to its prefetch.
Rows are written before the acknowledgement is due, in batches of `Batch`. `idle` is
the one clock: whether `--idle-seconds` have gone by since the consumer last noted
the time. The waiting Redis consumer's end is modelled step by step: it shuts its
sending half, drains what still comes (`Drains`, `DrainOver`), flushes, and asks
XPENDING (`Reports`).

### Watch

One pair: a driver, and a broker reached through it. `work` is what `ps` would show
on the driver, with `gap` for the moment between two pieces of one work, and `stuck`
for a `chain.sh` whose `stage0.sh` died without a word. Time goes in ticks; a look of
the watch takes none, but the pair's users and its own waiter act between its steps:
between reading the driver and asking Azure to deallocate it, work may begin.
What a stopper reads need not be what is there. The watch knows a session by the
names of its processes, and a job by hand, under a name of its own, only by the
processors it keeps busy: `Readings` lets such a job read as nothing at any look
(under 10% over two seconds, `testbed_watch.py:521`; `:122` tells of one core of
sixteen). The waiter sees what its `WORK` matches, which its user gives: `Pattern`, in
the runs the example of the script's header. So both can stop work under way, and the
model has them do it; `WorkIsKept` speaks of work that a stopper did see at its last
look that fell on a piece of it (`unseen`, `Sees`). That a driver with nothing at work
reads under 10% is taken for granted. `idle`
is `idle_since`, `since` the ledger's `updated`, `told` the flags of the last look.
SSH sessions and az commands fail up to `MaxFails` times; the watch is cut and started
again up to `MaxCuts` times. `unseen`, `still`, `lost` and `lead` record what has
happened, for the properties. `Sleeps` says whether the watch's computer may sleep
past a look: then two looks far apart are as many idle minutes, `WorkIsKept` is
violated by a gap at each, and the hazard list says so; the run takes `FALSE`.

### Wire

A packet carries a part of a stream of `Bytes` bytes; the capture holds any packets
of it, in any order, and its clock is their number. Both records are translated
operator by operator: `Put` is `Sent.add`, `Filled` its walk and `Turn` one turn of it;
`Added` is `Stream.add`, `Released` its loop over the packets held back and `Release`
one turn of that; `Offset` is the arithmetic on sequence numbers with their wrap-around
(`Space` in place of 2^32). The reference is the capture itself: `FirstCarrying` and
`FirstReadable` say from the packets alone what the two records should say. A capture
may begin after the connection did (`base` is `None`).

## Runs

| Run | Instance | States | Shows |
| --- | --- | --- | --- |
| `queue` | 2 setups, 2 rounds, 3 attempts | 13,426 | `TypeOK`, `InOrder`, `OneLineage`, `NothingLost`, `PastIsKept`, `CopyApart`, `ImplementsPlan` |
| `campaign` | 2 setups, 1 round, 3 attempts; guard of 3 in a row, 50% of a window of 4 | 690,412 | `NeverTwiceInAFolder`, `DoneIsCounted`, `CompleteIsComplete`, `GuardHolds`, `FoldersKept`, `CountedIsKept`, `LedgerUsed`, `Ends` |
| `pair_queue` | 4 lists of two jobs, one cut or kill | 457,038 | `TypeOK`, `PutBackOnce`, `PassedWasTried`, `CreditIsOwn` |
| `pair_queue_ends` | a list of each kind of job and two jobs on one boot; one job added, one stop, one arming, one cut | 691,528 | `StopIsObeyed`, `SelfStopsWhenArmed`, `ListEnds` |
| `producers` | 4 producers, 4 messages, 2 corrections, a window of 2 | 333,740 | `OkIsComplete`, `FailsForCause`, `AnswersAreOwn`, `Ends` |
| `consumers` | 5 consumers, 4 messages of which one is another run's, depth 2, batch 2, prefetch 3, one redelivery | 52,053 | `TypeOK`, `AckedIsWritten`, `WrittenOnce`, `DeliveredIsWritten`, `NeverMistaken`, `PendingIsUnread`, `Ends` |
| `watch` | looks 2 ticks apart, 3 idle ticks, 2 quiet looks; 2 starts, 1 failure, 1 cut; the waiter's pattern matches sessions and no job by hand | 740,845 | `TypeOK`, `WorkIsKept`, `BilledForNothingIsTold`, `CountedWithinAGap`, `IdleDriverIsStopped` |
| `wire` | 5 packets of up to 3 of 4 bytes, 8 sequence numbers | 221,434 | `LeftIsFirst`, `ReadableOnTime` |
| `late_complete`, `torn_advance`, `watch_pair`, `wire_held` | smallest that show it | | the findings |

Bounds. Two setups in two rounds let every row fail to its abandonment with rows of
both setups before and after it, in both orders, so that a copy meets places of both
kinds. The ledger needs no bound: attempts bound it. The campaign's guard is scaled
down (a window of 4, 50%) so that each rule stops a campaign that the other lets go
on. In `PairQueue`, `MaxHalts` = 1 is one power cut or kill per behaviour, at any
point; the put-back job, with its own sessions, makes lists of up to four places. Two
interruptions of one prep make the count of boots pass 2 and the list go past a job
untried and not put back, which is what the code's line "it has been rebooted twice
for this job already" chooses; so `PassedWasTried` speaks of a behaviour until its
second halt, whatever `MaxHalts` is. `MaxStops` and `MaxArms` bound the people's requests; `start` and
`disarm-stop` are not bounded. Four messages with a window, depth or batch of two let
each of them fill, empty and fill again, with a remainder at the end; two corrections
let one wait while the other is sent. `MaxAnswers` bounds RabbitMQ's and NATS's
answers on their way, so that answers for several and singles meet. In `Watch` an idle
time longer than one look apart and shorter than two makes the second idle look stop
the pair; a failure and a cut are enough for each step of a stop to fail alone, and
two starts for work in two pieces on a pair started again. In `Wire`, five packets of
a stream of four bytes are enough for a gap, two packets held, the gap filled in
pieces and a packet that covers everything; `FirstSeqs` puts the wrap-around inside
the stream and outside it.

Fairness. `RunQueue` has none: nobody has to call a command. `Campaign` has weak
fairness of its loop, one shell script that waits for nobody but commands with
timeouts; nobody has to start a campaign, so `Ends` speaks of one that runs.
`PairQueue` has weak fairness of its loop (its commands run under `timeout 43200`),
of the steps of sessions that are not stuck (a session's trials are timed out; a chain
behind a calibration that died waits for a word nobody writes, and nothing has to end
that wait, which `ListEnds` excepts) and of the boot, and strong fairness of
`WakeGivesUp`: a loop that wakes for ever, with nothing at work, has slept its
twelve hours in the end. The boot's fairness includes somebody starting a pair that
turned itself off; `ListEnds` does not need it, a pair turns itself off at its
list's end only. `Producers` has weak fairness of its threads and of the end of a
wait: a future is answered or expires, a Redis command is answered or its connection
ends. Nothing is asked of the NATS or RabbitMQ broker, whose producers have deadlines
of their own. `Consumers` has weak fairness of the consumer, of time, of a BLOCK
that ends and of the acknowledgements' connection, and none of the publisher.
`Watch` has weak fairness of time, of the watch's steps, of the waiter and of Azure
carrying out what it accepted, and of the ends of work; the watch itself may be cut
and stay off, so its liveness properties speak of a watch that runs on. `Wire` has
none.

Deadlock is checked in every run; `next` on a finished ledger and `start` on a
finished list are always possible, and a producer, a consumer or a capture that has
ended says so with a step that changes nothing (`Ended`, `Over`).

## Findings

1. *A late campaign is run twice* (`late_complete`, `queue.sh:463`). Past twelve
   hours, the state is read before the sleep and the process list after it; a
   campaign that completes in between is put back.
2. *A torn advance* (`torn_advance`, `queue.sh:125`). A cut between the write of
   the place and that of the phase makes the next job finish on the session of the
   job before.
3. *Half a pair is left billing* (`watch_pair`, `testbed_watch.py:521`). Idleness is
   read on the driver, and the broker is reached through it. When the driver was
   deallocated and the broker's request was refused, no later look can find the pair
   idle; each look raises an ALERT, and nobody stops the broker.
4. *A longer packet is dropped* (`wire_held`, `recv_wait.py:161`). Of two packets
   ahead of a gap that begin alike the first is kept; when it is the shorter one, the
   rest of the longer one never becomes readable.

Behaviour the models have that no property speaks of, because the source promises
nothing different: a command job interrupted by a power cut runs again in place
(`queue.sh:426`); a stop asked for during prep is obeyed before the job's work has
begun (`queue.sh:361`); a Kafka correction that takes the broker over 30 s ends the
correction thread, and the producer says OK without the corrections after it
(`kafka_producer.py:229`; `SlowCorrections` turns it on, the run takes it `FALSE` so
that `OkIsComplete` can be checked for everything else); NATS's and RabbitMQ's
consumers leave what was delivered and not read at the idle stop unacknowledged and
unwritten; a run that counted is recorded as failed when the campaign falls between
the verdict and `finish`, and made again (`campaign.sh:1395`, what `next --recover` is
for); `start` during a pending stop removes the stop file (`queue.sh:485`); a chain
behind a calibration that died holds the list and keeps the pair on for ever
(`chain.sh:64`); and a job under a name of its own that keeps the processors less than
10% busy is stopped with the pair (`testbed_watch.py:521`), as is one that the waiter's
pattern does not match.

## Proofs

`RunQueueProofs` proves for every design -- any finite set of setups, any number of
rounds, any `MAX_ATTEMPTS` of at least one, under `DesignAssumption`, which is
`check_design` -- that every reachable ledger is `Good`:

- rows are rows (`TypeOK`), in file order (`InFileOrder`), each second row of a
  planned run follows a failure and no attempt is skipped (`OnlyFailuresCopied`,
  `NoAttemptSkipped`), every planned run is there (`AllPlanned`), failures are
  followed by their next attempt (`FailuresFollowed`), and only last attempts are
  abandoned (`AbandonedLast`).

The parts need each other. `InFileOrder` gives that there is at most one row running
and that every later row is queued, so what `fail` inserts a copy among is queued;
`OnlyFailuresCopied` gives that the row that fails is the last of its planned run,
so its copy is the only later one; and so on. The argument follows the operators,
not the commands: `Mark`, `Copy` and `InsertAt` keep `Good` under what `Fail`,
`Take` and `Recovered` ask of them (a lemma each), and each command is one of these.
`TypeCorrect`, `OrderKept`, `RepeatsAreFailures` and `NoneLost` are its parts;
`PastKept` is the action property `PastIsKept`, proved from it.

`RunPlanProofs` proves `QueueImplementsPlan`, the refinement of `RunPlan`, from
`Good`. The plan sees a planned run's last row; in a good queue that is its one row
that has not failed (`UnfailedIsLast`, `LastRowFacts`). So marking such a row moves one
entry of the plan (`MarkInPlan`), a copy takes the failed row's place in it
(`FailInPlan`), taking the first queued row takes one waiting run in hand
(`TakeInPlan`), and a queue none of whose rows has started is the plan's initial state
however it is shuffled (`UnstartedPlan`), which is why `make --force` is a stutter.

`CampaignProofs` proves for every design and every guard, and whatever crashes,
restarts and failed writes fall between the loop's commands, that no key of a queue
finds a folder this queue made (`NoFolderTwice`), every run called done counted in its
own folder (`DoneRunsCounted`), judged folders are not written over
(`NoFolderOverwritten`), a run that counted is closed as a failure only by a later
campaign (`CountedRunsKept`), `COMPLETE` is said of complete queues only
(`CompleteMeansComplete`), and the queue is touched only through its own commands
(`LedgerUsedAsAllowed`, the refinement of `RunQueue`). The invariant `Inv` adds two
facts to `Good(rows)`: the run in hand is the one marked running, and **a folder of
this campaign's has a row that has left the queue** (`FoldersHaveRows`). The second is
the heart of it. A row that has left the queue never returns to it, a copy has a key
of its own, and keys differ (`KeysDiffer`); so a row handed out, queued until then,
has no folder. The lemmas on `Follows` in `RunQueueProofs` carry this through `Take`,
`Fail` and `Recovered`. `Campaign` reaches the queue as an instance, and the first
lemmas of `CampaignProofs` (`SameRows` ... `SameFresh`) identify that instance with
the one the proofs are about.

`GuardKeepsItsWord` adds the guard. `StreakBehind` says that the failures this
campaign has seen on end are no more than those at the end of the ledger
(`FailedTail`: closed rows with nothing done after them). A failure closes a row of
its own after every row closed before (`FailureCounted`), no other command makes a row
done (`TailGrows`), and a guard that lets the campaign go on has seen fewer than
`InARow` of them (`GuardSees`): a row that is done among the latest `InARow` would have
the whole tail after it. `CopiesKeptApart` in `RunQueueProofs` compares the repeats
before and after an insertion place by place: beside no run of its setup a copy adds
none (`ApartAddsNone`), beside one it adds one (`BesideAddsOne`), each by an injection
between the two sets of places.

`WatchProofs` proves, for every interval, idle time, gap and number of quiet looks:

- `TypesHold`, and `KeepsWork`: neither stopper stops work that has not ended and that
  it saw at its last look that fell on a piece of it, whatever pattern the waiter was
  given and whatever a job by hand reads as at other looks. It has two hypotheses, and
  both are needed. `Looks > 1`: one quiet look may fall between two pieces of one work.
  `~Sleeps`: for a watch whose computer sleeps past a look, two looks, each in a gap,
  are as many idle minutes as lie between them. `GapInv` bounds a gap by the time between two looks; `WatchInv` and
  `WaiterInv` compare the age of a gap, or of a piece of work, with the time since the
  stopper's last look: a gap that a look fell into is over by the next, and a piece
  begun since is seen. `LookInv` is what a look knows at each of its steps.
- `TellsOfWhatIsBilled`: while nothing changes after a look has begun, what it read is
  what is there and its flags say so (`ToldInv`).
- `CountsWithinAGap`: the ledger never counts more than what ran and one capped gap; it
  may count less, by all the time past the cap that the watch was off. `MoneyInv` says
  how far ahead the ledger is, and that it is ahead by less wherever a look has still
  to add to it.

`PairQueueProofs` proves, for every list, whatever may be added to it, and any number
of halts, stops and armings, with one invariant of shape (`Shape`; `TypesHold` is part
of it, the bound of the boots by the halts too):

- `ObeysStop`: while a stop is asked for, nothing begun, and nothing about to begin,
  lies past the place it was asked at (`BegunBeforeStop`);
- `StopsItselfWhenArmed`: each arming waits, is taken, or has been spent
  (`ArmedOrSpent`);
- `PutsBackOnce`, for lists with no line twice (a list with a line twice has it twice
  from the start): a line that is not noted in `retried` is on the list once, and so is
  the one just noted and about to be put back (`LinesOnce`);
- `TriesBeforePassing`, for `~Torn`: every place passed was tried, and so is the one
  the loop waits at or is about to leave (`TriedSoFar`); the count of boots passes 2
  after two halts only. With `Torn` a halt between two of `advance`'s writes leaves the
  next job the phase of the one before, which is the finding of `torn_advance`;
- `CreditsOwn`, for `~Torn`, one halt at most, and sessions that each have a boot of
  their own. A folder made since the loop noted what was there is the job's in hand
  (`FoldersOwn`), because every session alive after the job's boot is (`LiveOwn`). Only
  a halt could leave an older one alive: until it comes each session alive was begun by
  hand or is the one waited for (`Unhalted`), and after it there is none to come. The
  bound is needed, and the run has it too: a kill may leave a session at work that the
  loop no longer waits for, and a second kill, when a later job is noted as booted and
  the boot has not begun, leaves it to make a folder that this job takes for its own. `queue.sh:28` has a job without a
  boot for one "that starts nothing and only waits for the session".

`ConsumersProofs` proves, for every number of messages, whichever of them are another
run's, and every depth, count, batch, prefetch and number of redeliveries, all that
the run checks but the end: `TypesHold` (the bounds on what waits and is in hand
among it), `AcksWhatIsWritten`, `WritesOnce`, `WritesWhatIsDelivered`,
`MistakesNoStatus`, and the action property `ReportsWhatIsUnread`. The invariant
`IInv` has sixteen named parts. Every message delivered is handled, in hand or on its
way (`KnownOK`), first deliveries in the stream's order (`OrderOK`), and one delivered
again has been handled or lies behind its first delivery (`AgainOK`): that is why no
row comes twice. What the broker no longer holds, and what is about to be
acknowledged, has been handled (`AcksOK`), and what the waiting consumer has handled
is acknowledged, kept for the next batch or on its way (`DebtOK`), which is what
XPENDING counts on. NATS's list of requests taken to be waiting is followed, an answer
on its way at a time, to the list the broker has (`ListsOK`): both leave out the same
request for each answer, so a status finds the one it names. The bounds come from
counting (`CountOK`, `LimitsOK`): an acknowledgement has a handled message, or a
redelivery, of its own.

`ProducersProofs` proves, for every plan, every choice of corrections, every window
and any number of answers on their way:

- `AnswersOwn` and `FailsWithCause`, whatever the broker does (`IInv`). The heart is
  `FoundIsMeant`: what an answer is taken for, among what is waited for, is exactly
  what the broker meant by it. For that, no message is in two of the places where it
  may be -- not sent, on the wire, meant by an answer on its way -- (`OpenOK`), and an
  answer for several comes before all that is on the wire or answered later
  (`AnswersOK`), so that taking everything up to its number takes nothing of theirs;
- `WritesEveryRow` (`Inv`): a producer that says OK has a row and an acknowledgement
  for everything. Nothing sent is lost: NATS's and RabbitMQ's messages are waited for
  or accounted for once they are written (`AskedOK`), Kafka's and Redis's are on the
  wire, in the pool, or answered, and a refusal is known (`ToldOK`). A correction is
  due, in the thread's hand, kept as a row, or has failed (`CorrOK`), and the thread is
  gone only when none is left or one has failed (`GoneOK`). The rows sorted at the end
  are the plan (`AllRows`). Its hypothesis is that no Kafka correction takes the broker
  over 30 s: when `get(timeout=30)` raises, the thread that sends corrections is gone
  (`kafka_producer.py:229`), and OK is said without the rest. The three other producers
  need no hypothesis.

`WireProofs` proves, for every stream, size of packets, space of sequence numbers,
first sequence number and number of packets captured, as long as the stream is at most
half the space of sequence numbers (`WireAssumption`, what `offset` can tell apart):

- `LeftIsFirstAlways`. `LeftInv` says that the pieces are in order, apart, and not
  empty (`Tidy`), and that a byte is in a piece with a time exactly when a captured
  packet carried it, that of the first one (`PiecesOK`, `ResentOK`). `TurnKeeps` is one
  turn of `Sent.add`'s walk: what is put down before the walk's place is the packet's
  and what was there, nothing behind it has changed, and the place moves on. So the
  walk is over after as many turns as the packet has bytes (`FilledFacts`).
- `ReadableOnTimeAlways`. `ReadInv` says that the data are the stream from `Origin` on
  (`StreamOK`), that what is held back lies past the data and is a captured packet's
  (`HeldOK`), that a byte's time is one by which it and all before it had gone by, and
  at which one of them did (`TimesOK`), and that what reaches past the data is held,
  or something as long that begins with it (`KeptOK`); the last two halves only while
  no packet has been hidden (`shadowed`), which is when the code keeps its promise.
  `ReleaseKeeps` is one turn of the loop over what is held; after all of them nothing
  held touches the data (`ReleasedFacts`).

The two loops are recursive functions of the number of turns. That the function is
there, and what holds after each turn, is shown by induction on that number, from the
well-foundedness of `<` on the naturals (`LeastMember`, `Induction`): the library's
own induction theorems take an operator, which the provers here cannot instantiate.

Only model-checked: liveness (`Ends` of three modules, `ListEnds`,
`IdleDriverIsStopped`), which rests on fairness and is out of the prover's reach.

## Not modelled

The greater part of the repository's Python is analysis: `emit_paper_numbers.py`,
`make_result_figures.py`, `make_paper_figures.py`, `tool_readings.py`,
`general_method.py`, `under_load.py`, `manipulation_runs.py` and some two hundred
others read files, compute statistics and draw figures. Each runs once, keeps no
state, runs nothing concurrently and handles no failure but by ending; what is right
about it is numerical, and a model checker has nothing to explore. The same holds of
the designs, rounds and fits. The model therefore covers a small share of the lines
and most of the control.

Of the parts that are modelled: `run_one`'s commands and the numerical checks of a run
(any verdict), the text of a job line and of logs, the boot checks (refused or not),
provisioning, the parsers of Kafka, RESP, NATS and AMQP frames, the probes, and the
watch's flags about runs and measurements. A corrupt CSV file or a truncated place
file is left out: writes of one file are atomic here, `spend.py`'s rewrite of its
ledger among them. See `PROJECT.json` for the list of parts and hazards.

## Plan

Done: `RunPlan`, `RunQueue`, `Campaign`, `PairQueue`, `Producers`, `Consumers`, `Watch`
(the handover from `stage0.sh` to `chain.sh` and the two idle stops included), `Wire`;
and a theorem for every safety invariant and action property their passing runs check.

Next, to extend the model:
1. `Placement`: what a run places on the machine and `placement_back`,
   `features_back` and the EXIT trap put back, under crashes; and the last line of
   the campaign's log.
2. `BootEntry`: the one-shot and default entries behind a job's boot.
