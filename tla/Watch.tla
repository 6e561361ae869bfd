-------------------------------- MODULE Watch --------------------------------
(***************************************************************************)
(* Who stops an idle pair, and who counts what it costs.                   *)
(*                                                                         *)
(* scripts/testbed_watch.py looks at a pair (a driver, and a broker that   *)
(* is reached through it) from somebody's own computer, deallocates it     *)
(* once it has been idle long enough, and adds each look's machine time to *)
(* a ledger (scripts/spend.py).  On the driver itself stop_when_idle.sh    *)
(* may look as well, and stops the pair through stop_self.sh.  Neither     *)
(* knows of the other.  The watch looks at several pairs one after another *)
(* and keeps nothing between them, so one is modelled.                     *)
(*                                                                         *)
(* Time goes in ticks.  A look of the watch takes no ticks, but everybody  *)
(* else acts between its steps: between reading the driver and asking      *)
(* Azure to deallocate it somebody may begin work there.                   *)
(***************************************************************************)
EXTENDS Integers

CONSTANTS
  Interval,   \* ticks between two looks, the watch's and stop_when_idle's
  IdleMin,    \* --stop-idle-min, in ticks
  MaxGap,     \* spend.MAX_GAP_S, in ticks
  Looks,      \* LOOKS of stop_when_idle.sh
  Pattern,    \* the work that its WORK, which its user gives, matches
  MaxStarts,  \* bound: work begun and pairs started
  MaxFails,   \* bound: SSH sessions and az commands that fail
  MaxCuts,    \* bound: how often the watch is cut short
  Sleeps      \* whether the watch's computer may sleep past a look

Machines == {"driver", "broker"}

(***************************************************************************)
(* What is at work on the driver: stage0.sh with chain.sh behind it        *)
(* (calibrating), chain.sh alone, which will read that the calibration     *)
(* passed (passed) or waits for a word that a dead stage0.sh never wrote   *)
(* (stuck), the campaign it starts, a job somebody runs by hand under a    *)
(* name of its own, or nothing for a moment between two pieces of one work *)
(* (gap).                                                                  *)
(***************************************************************************)
Making == {"calibrating", "campaign"}
Queued == {"passed", "stuck"}
ByHand == {"hand"}
Works  == Making \union Queued \union ByHand \union {"gap", "none"}

ASSUME WatchAssumption ==
  /\ {Interval, IdleMin, MaxGap, Looks} \subseteq Nat \ {0}
  /\ {MaxStarts, MaxFails, MaxCuts} \subseteq Nat
  /\ Pattern \subseteq Making \union Queued \union ByHand
  /\ Sleeps \in BOOLEAN

VARIABLES
  on,      \* the machines that are allocated, and so billed
  going,   \* those Azure was asked to deallocate and has not yet
  work,    \* the work in hand on the driver
  age,     \* the ticks it has been what it is, as far as that matters
  unseen,  \* who did not see that work at their last look that fell on a
           \* piece of it, or has not looked since it began
  waiter,  \* stop_when_idle.sh on the driver, stop_self.sh at its end
  pc,      \* the watch's next step
  found,   \* what this look has read on the driver
  idle,    \* how long the pair has been idle (idle_since), or None
  paid,    \* whether this look counts the pair as billed (hourly_usd)
  since,   \* ticks since the ledger's "updated", or None
  told,    \* the flags the last look raised
  still,   \* whether nothing has changed on the pair since that look began
  lead,    \* what the ledger has counted since the pair's last start, less
           \* the ticks a machine of it was allocated
  lost,    \* whether work was stopped by somebody who had seen it so
  used     \* how many starts, fails and cuts there were

pair  == <<on, going, work, age, unseen, still, lost>>
watch == <<pc, found, idle, paid, told>>
money == <<since, lead>>
vars  == <<pair, waiter, watch, money, used>>

None == -1

Used(what) == used' = [used EXCEPT ![what] = @ + 1]
Left(what, most) == used[what] < most

Fails  == Left("fail", MaxFails) /\ Used("fail")
Starts == Left("start", MaxStarts) /\ Used("start")

\* Whether anything is running on the driver, between two pieces nothing is.
AtWork == work \notin {"gap", "none"}

Lower(a, b) == IF a < b THEN a ELSE b
Upper(a, b) == IF a > b THEN a ELSE b

\* Ticks are counted as far as anybody compares them.
LongAgo == Upper(Interval, MaxGap) + 1

Waiting(quiet, wait) == [at |-> "look", quiet |-> quiet, wait |-> wait]
NoWaiter == [at |-> "off", quiet |-> 0, wait |-> 0]

\* The pair is up, and the watch is started on a computer that has kept no
\* ledger yet.
Init ==
  /\ on = Machines /\ going = {}
  /\ work \in {"none", "calibrating"} /\ age = 0
  /\ unseen = {"watch", "waiter"} /\ still = FALSE /\ lost = FALSE
  /\ waiter \in {NoWaiter, Waiting(0, 0)}
  /\ pc = "start" /\ found = "unread" /\ idle = None /\ paid = FALSE /\ told = {}
  /\ since = None /\ lead = 0
  /\ used = [what \in {"start", "fail", "cut"} |-> 0]

-----------------------------------------------------------------------------
(***************************************************************************)
(* The pair and the people who use it.                                     *)
(***************************************************************************)
Becomes(to) ==
  /\ work' = to /\ age' = 0 /\ still' = FALSE
  /\ UNCHANGED <<on, going, lost, waiter, watch, money>>

\* Somebody starts a session, or a job of their own.
BeginsWork ==
  /\ work = "none" /\ "driver" \in on
  /\ Starts
  /\ unseen' = {"watch", "waiter"}
  /\ \E kind \in {"calibrating", "hand"} : Becomes(kind)

\* stage0.sh ends with CAMPAIGN_COMPLETE, with STOP_RULE, which chain.sh ends
\* on as well, or without a word.
CalibrationEnds ==
  /\ work = "calibrating"
  /\ \E end \in {"passed", "none", "stuck"} : Becomes(end)
  /\ UNCHANGED <<unseen, used>>

\* chain.sh reads that the calibration passed, and runs stage1.sh.
ChainStarts ==
  /\ work = "passed"
  /\ Becomes("campaign")
  /\ UNCHANGED <<unseen, used>>

\* A piece of work ends: the last, or one whose next piece somebody's own
\* waiter starts within the minute.  A piece with another behind it lasts
\* longer than the time between two looks.
PieceEnds ==
  /\ work \in {"campaign", "hand"}
  /\ \/ Becomes("none") /\ UNCHANGED used
     \/ age > Interval /\ Becomes("gap") /\ Starts
  /\ UNCHANGED unseen

NextPiece ==
  /\ work = "gap"
  /\ \E piece \in {"campaign", "hand"} : Becomes(piece)
  /\ UNCHANGED <<unseen, used>>

\* Nothing on a driver outlives its deallocation.
Deallocates(m) ==
  /\ m \in going
  /\ going' = going \ {m} /\ on' = on \ {m}
  /\ IF m = "driver" THEN work' = "none" /\ age' = 0 /\ waiter' = NoWaiter
     ELSE UNCHANGED <<work, age, waiter>>
  /\ still' = FALSE
  /\ UNCHANGED <<unseen, lost, watch, money, used>>

\* azure_testbed.py start, by hand: the watch never starts anything.
StartsPair ==
  /\ on # Machines /\ going = {}
  /\ Starts
  /\ on' = Machines /\ still' = FALSE
  /\ lead' = IF on = {} THEN 0 ELSE lead
  /\ UNCHANGED <<going, work, age, unseen, lost, waiter, watch, since>>

\* A gap is shorter than the time between two looks, and the steps of a look
\* take no time.  The computer the watch runs on may sleep past its next look,
\* and may be off.
Tick ==
  /\ pc \in {"off", "start", "sleep"}
  /\ pc = "sleep" /\ ~Sleeps => since < Interval
  /\ waiter.at = "look" => waiter.wait > 0
  /\ work = "gap" => age < Interval - 1
  /\ age' = IF work \in {"gap", "campaign", "hand"} THEN Lower(age + 1, Interval + 1) ELSE 0
  /\ waiter' = [waiter EXCEPT !.wait = Upper(0, @ - 1)]
  /\ idle' = IF idle = None THEN None ELSE Lower(idle + 1, IdleMin)
  /\ since' = IF since = None THEN None ELSE Lower(since + 1, LongAgo)
  /\ lead' = IF on = {} THEN lead ELSE Upper(lead - 1, -MaxGap)
  /\ UNCHANGED <<on, going, work, unseen, still, lost, pc, found, paid, told, used>>

-----------------------------------------------------------------------------
(***************************************************************************)
(* testbed_watch.py.                                                       *)
(***************************************************************************)
Goes(to) == pc' = to

\* A look that falls on a piece of the work shows it to who looks, or not; one
\* that falls between two pieces changes nothing.
Sees(who, shown) ==
  IF ~AtWork THEN unseen ELSE IF shown THEN unseen \ {who} ELSE unseen \union {who}

\* now = clock(), and what the last look read is forgotten.
Look ==
  /\ \/ pc = "start"
     \/ pc = "sleep" /\ since >= Interval
  /\ Goes("driver") /\ found' = "unread" /\ paid' = FALSE /\ told' = {}
  /\ still' = TRUE
  /\ UNCHANGED <<on, going, work, age, unseen, lost, waiter, idle, money, used>>

\* The broker is reached through its driver.
Answers(m) == {"driver", m} \subseteq on

\* What a probe can read of the driver.  A session is read off the names of its
\* processes; a job by hand only off the processors, over two seconds, and it is
\* as good as nothing while it keeps them less than 10% busy.
Readings == IF work \in ByHand THEN {work, "none"} ELSE {work}

\* probe of the driver: what it reads, or None.
ProbesDriver ==
  /\ pc = "driver" /\ Goes("broker")
  /\ \/ /\ Answers("driver")
        /\ \E reading \in Readings : found' = reading /\ unseen' = Sees("watch", reading = work)
        /\ UNCHANGED used
     \/ /\ found' = "no_answer"
        /\ IF Answers("driver") THEN Fails ELSE UNCHANGED used
        /\ UNCHANGED unseen
  /\ UNCHANGED <<on, going, work, age, still, lost, waiter, idle, paid, told, money>>

\* Slip: what is in hand is told by the runs it makes, as it once was.
IsIdleWithoutRuns == found \notin {"no_answer"} \union Making \union ByHand

\* evaluate's IDLE: it answered, nothing on it makes runs, nothing is in hand,
\* and its processors had nothing to do, as far as was read.
IsIdle == found \notin {"no_answer"} \union Making \union Queued \union ByHand

\* Slip: a pair is taken for stopped when its driver is.
PowerStateOfDriver(m) == IF "driver" \notin on THEN "deallocated" ELSE "running"

\* power_states: what Azure says of a machine.
PowerState(m) ==
  IF m \notin on THEN "deallocated" ELSE IF m \in going THEN "deallocating" ELSE "running"

\* What a look says of a machine that did not answer: INFO when Azure says it
\* is deallocated, ALERT when it says anything else or cannot say.
SaysOf(m, canSay) ==
  IF canSay /\ PowerState(m) = "deallocated" THEN <<"INFO", m>> ELSE <<"ALERT", m>>

\* Slip: idle_since is set anew by every idle look.
IdleNowAnew == IF IsIdle THEN 0 ELSE None

\* stop_idle, up to the stop: how long the pair has been idle now.
IdleNow ==
  IF ~IsIdle THEN None ELSE IF idle = None THEN 0 ELSE idle

\* probe of the broker, the rest of cycle, and stop_idle up to the stop.
ProbesBroker ==
  /\ pc = "broker"
  /\ \E answers, canSay \in BOOLEAN :
       LET dark == {m \in Machines : IF m = "driver" THEN found = "no_answer" ELSE ~answers}
       IN /\ answers => Answers("broker")
          /\ dark = {} => canSay
          /\ IF Answers("broker") = answers /\ canSay THEN UNCHANGED used ELSE Fails
          /\ told' = {SaysOf(m, canSay) : m \in dark}
                       \union (IF IsIdle THEN {<<"IDLE", "driver">>} ELSE {})
          /\ paid' = (dark # Machines)
  /\ IF IsIdle /\ IdleNow >= IdleMin
     THEN idle' = None /\ Goes("stop_driver")
     ELSE idle' = IdleNow /\ Goes("money")
  /\ UNCHANGED <<pair, waiter, found, money>>

\* Slip: a machine that is deallocated already is deallocated again.
AsksAgain(m, who) ==
  /\ going' = going \union {m}
  /\ still' = FALSE /\ UNCHANGED lost

\* Somebody asks Azure to deallocate a machine.  Work is lost to it when that
\* somebody has seen it there.
Asks(m, who) ==
  /\ going' = going \union ({m} \intersect on)
  /\ lost' = (lost \/ (m = "driver" /\ m \in on \ going /\ work # "none" /\ who \notin unseen))
  /\ still' = FALSE

\* execute over power_steps(..., "stop"): the driver's step first, as the
\* profile lists it, then the broker's; the first that fails is the last.
StopStep(m, onward) ==
  /\ \/ Asks(m, "watch") /\ Goes(onward) /\ UNCHANGED <<told, used>>
     \/ /\ Fails /\ Goes("money")
        /\ told' = told \union {<<"ALERT", "stopping">>}
        /\ UNCHANGED <<going, still, lost>>
  /\ UNCHANGED <<on, work, age, unseen, waiter, found, idle, paid, money>>

StopsDriver == pc = "stop_driver" /\ StopStep("driver", "stop_broker")
StopsBroker == pc = "stop_broker" /\ StopStep("broker", "money")

\* Slip: a gap counts for its whole length.
CountedWhole == IF since = None THEN 0 ELSE since

\* spend.track: the first look adds nothing, and a gap counts for MaxGap at
\* most.
Counted == IF since = None THEN 0 ELSE Lower(since, MaxGap)

MoneyLines ==
  /\ pc = "money" /\ Goes("sleep")
  /\ lead' = IF paid THEN lead + Counted ELSE lead
  /\ since' = 0
  /\ UNCHANGED <<pair, waiter, found, idle, paid, told, used>>

\* The watch is interrupted, or its computer restarted, and started again: the
\* ledger is on the disk, everything else was in memory.
Cut ==
  /\ pc # "off" /\ Goes("off")
  /\ Left("cut", MaxCuts) /\ Used("cut")
  /\ idle' = None /\ found' = "unread" /\ paid' = FALSE /\ told' = {}
  /\ UNCHANGED <<pair, waiter, money>>

Restarts ==
  /\ pc = "off" /\ Goes("start")
  /\ UNCHANGED <<pair, waiter, found, idle, paid, told, money, used>>

-----------------------------------------------------------------------------
(***************************************************************************)
(* stop_when_idle.sh, and stop_self.sh at its end.                         *)
(***************************************************************************)
\* A quiet look counts, one at which the pattern matches begins again.
Quiet == IF work \in Pattern THEN 0 ELSE waiter.quiet + 1

WaiterLooks ==
  /\ waiter.at = "look" /\ waiter.wait = 0
  /\ waiter' = IF Quiet < Looks THEN Waiting(Quiet, Interval)
               ELSE [at |-> "self", quiet |-> 0, wait |-> 0]
  /\ unseen' = Sees("waiter", work \in Pattern)
  /\ UNCHANGED <<on, going, work, age, still, lost, watch, money, used>>

\* Without a token, or a listing that looks like this pair, stop_self.sh asks
\* for nothing.
SelfGivesUp ==
  /\ waiter.at = "self"
  /\ Fails
  /\ waiter' = NoWaiter
  /\ UNCHANGED <<pair, watch, money>>

\* stop_self.sh asks for the broker and then for its own machine, whatever
\* Azure answers the first time.
SelfAsks ==
  /\ waiter.at \in {"self", "last"}
  /\ \/ Asks(IF waiter.at = "self" THEN "broker" ELSE "driver", "waiter") /\ UNCHANGED used
     \/ Fails /\ UNCHANGED <<going, lost, still>>
  /\ waiter' = IF waiter.at = "self" THEN [waiter EXCEPT !.at = "last"] ELSE NoWaiter
  /\ UNCHANGED <<on, work, age, unseen, watch, money>>

-----------------------------------------------------------------------------
WatchSteps == Look \/ ProbesDriver \/ ProbesBroker \/ StopsDriver \/ StopsBroker \/ MoneyLines

Next ==
  \/ BeginsWork \/ CalibrationEnds \/ ChainStarts \/ PieceEnds \/ NextPiece
  \/ (\E m \in Machines : Deallocates(m)) \/ StartsPair \/ Tick
  \/ WatchSteps \/ Cut \/ Restarts
  \/ WaiterLooks \/ SelfGivesUp \/ SelfAsks

\* The watch goes on while it is there, work that is running ends, a script
\* goes on to its next line, and Azure does what it accepted.  Nobody has to
\* begin work, to start a pair or to start the watch again.
Fairness ==
  /\ WF_vars(Tick) /\ WF_vars(WatchSteps)
  /\ WF_vars(CalibrationEnds) /\ WF_vars(ChainStarts) /\ WF_vars(PieceEnds) /\ WF_vars(NextPiece)
  /\ WF_vars(WaiterLooks) /\ WF_vars(SelfAsks)
  /\ \A m \in Machines : WF_vars(Deallocates(m))

Spec == Init /\ [][Next]_vars /\ Fairness

-----------------------------------------------------------------------------
\* The shape of the state; a machine being deallocated is still allocated, and
\* nothing is at work on a driver that is not.
TypeOK ==
  /\ on \subseteq Machines /\ going \subseteq on
  /\ work \in Works /\ age \in 0..(Interval + 1)
  /\ "driver" \notin on => work = "none" /\ waiter = NoWaiter
  /\ unseen \subseteq {"watch", "waiter"} /\ {still, lost, paid} \subseteq BOOLEAN
  /\ waiter \in [at: {"off", "look", "self", "last"}, quiet: 0..(Looks - 1), wait: 0..Interval]
  /\ pc \in {"off", "start", "sleep", "driver", "broker", "stop_driver", "stop_broker", "money"}
  /\ found \in Works \union {"unread", "no_answer"}
  /\ idle \in None..IdleMin /\ since \in None..LongAgo /\ lead \in Int
  /\ told \subseteq {"INFO", "ALERT", "IDLE"} \X (Machines \union {"stopping"})
  /\ used \in [{"start", "fail", "cut"} -> Nat]

\* Nobody stops a pair whose work has not ended and which they saw at their last
\* look that fell on a piece of it: not while it says nothing and makes no runs,
\* and not between two of its pieces (stop_idle over evaluate's IDLE, and
\* stop_when_idle.sh's quiet looks).  Work can be stopped that began after the
\* looks that condemned the pair, and so can a job by hand that kept the
\* processors less than 10% busy at the watch's look, and whatever the pattern
\* that stop_when_idle.sh was given does not match.
WorkIsKept == ~lost

\* Machines that are billed with nothing on them are told of by every whole
\* look, whichever of the two it is, whoever stopped the other, and whether or
\* not Azure can say what they are doing (evaluate and cycle).
BilledForNothingIsTold ==
  pc = "sleep" /\ still /\ on # {} /\ ~AtWork =>
    \E level \in {"IDLE", "ALERT"}, m \in Machines : <<level, m>> \in told

\* The ledger never counts more than the time the pair's machines have been
\* allocated since its last start and one gap, however long nobody watched
\* (spend.track, MAX_GAP_S).  It may count less: a look that nothing answers,
\* and what lies past a gap, count nothing.
CountedWithinAGap == lead <= MaxGap

\* While the watch runs on, a driver with nothing left to do is stopped, whatever
\* failed on the way and whatever the driver's own waiter did, unless a
\* chain waits there for a word of a calibration that died (chain.sh's loop has
\* no end of its own).
IdleDriverIsStopped ==
  <>[](pc # "off") => <>[](work = "stuck" \/ "driver" \notin on)

\* "it also deallocates a pair whose machines have been idle for 20 minutes, so
\* a pair that finished at night does not bill until morning"
\* (cloud/azure/README.md:266): both machines of a pair with nothing left to do
\* are stopped in the end.
IdlePairIsStopped ==
  <>[](pc # "off") => <>[](work = "stuck" \/ on = {})

=============================================================================
