------------------------------ MODULE PairQueue ------------------------------
(***************************************************************************)
(* A pair's own list of work (cloud/azure/queue.sh): a loop on the driver  *)
(* that goes through a job list across the machine's own reboots, with a   *)
(* place, a phase and a few notes kept in files.                           *)
(*                                                                         *)
(* The files outlive the loop; the loop, the sessions it starts and the    *)
(* commands it runs do not outlive the machine.  Every file the loop       *)
(* writes is written in a step of its own, so a power cut or a kill can    *)
(* fall between any two of them.  A session (stage0.sh, chain.sh,          *)
(* stage1.sh, campaign.sh) is what the queue sees of it: its processes,    *)
(* its folder with the last line of its campaign's log, and chain.log's    *)
(* last line.  The twelve hours of a wait are not counted: they may be     *)
(* over at any time the loop wakes.                                        *)
(***************************************************************************)
EXTENDS Integers, SequencesExt

CONSTANTS
  Lists,      \* the job lists a pair may be given
  Extra,      \* jobs that may be added while the list runs
  Halts,      \* what may halt the loop: "cut", a power cut, and "kill"
  MaxHalts,   \* bound: how many of them
  MaxStops,   \* bound: queue.sh stop
  MaxArms,    \* bound: queue.sh arm-stop
  Torn        \* whether a cut or a kill may fall between advance's writes

\* A job line, as far as the loop reads it: whether it has a boot= other than
\* none, and what it holds: a cmd=, a block=, or neither.
Job == [name: STRING, reboots: BOOLEAN, kind: {"command", "block", "wait"}]

ASSUME ListAssumption ==
  /\ Lists # {}
  /\ \A list \in Lists : list \in Seq(Job) /\ list # <<>>
  /\ Extra \subseteq Job
  /\ Halts \subseteq {"cut", "kill"}
  /\ {MaxHalts, MaxStops, MaxArms} \subseteq Nat
  /\ Torn \in BOOLEAN

VARIABLES
  \* the files
  jobs,      \* jobs.txt
  at,        \* the number of the job it is on
  phase,     \* prep, booted or waiting
  boots,     \* how often the job it is on has gone through prep
  retried,   \* the lines that have had their second go
  seen,      \* how many session folders there were when the job started
  stopFile,  \* stop
  armed,     \* stop_when_done
  cron,      \* whether the @reboot line is in
  folders,   \* the session folders, oldest first: the job that began the
             \* session and the word its campaign's log ends on
  chainSays, \* whether chain.log ends on STOP_RULE
  \* the machine
  up,        \* whether it is up
  pc,        \* the loop's next step, or "off"
  late,      \* whether a waiting loop has waited its twelve hours
  sessions,  \* the sessions at work, each by the job that began it; a
             \* calibration without its chain, or a command without its loop,
             \* is at work alone, and a chain whose calibration died without a
             \* word is stuck
  \* what has happened
  tried,     \* the places of the list whose work was begun, or which the log
             \* says STOPPED before they ran
  credited,  \* the jobs counted as finished, each with the job whose
             \* session said so
  stopAt,    \* the job it was on when the last stop was asked for
  used       \* how many halts, stops, armings and self-stops there were

files   == <<jobs, at, phase, boots, retried, seen, stopFile, armed, cron>>
outside == <<folders, chainSays>>
machine == <<up, pc, late, sessions>>
history == <<tried, credited, stopAt, used>>
vars    == <<files, outside, machine, history>>

JobInHand == jobs[at]

Places == 1..(Len(jobs) + 1)

Count(what) == used[what]
Used(what) == used' = [used EXCEPT ![what] = @ + 1]

-----------------------------------------------------------------------------
(***************************************************************************)
(* campaign_state: the first folder that was not there when the job        *)
(* started and whose log has said its last word, or else chain.log.        *)
(***************************************************************************)

Spoken == {i \in (seen + 1)..Len(folders) : folders[i].word # "none"}

FirstSpoken == CHOOSE i \in Spoken : \A j \in Spoken : i <= j

CampaignState ==
  IF Spoken # {} THEN folders[FirstSpoken].word
  ELSE IF chainSays THEN "stopped" ELSE "running"

\* The state a waiting job reads: a job with a block reads its campaign's log,
\* one without asks the machine whether anything is at work.
State ==
  IF JobInHand.kind = "block" THEN CampaignState
  ELSE IF sessions # {} THEN "running" ELSE "done"

\* The job whose session said the word that was read.
SaidBy ==
  IF JobInHand.kind = "block" /\ Spoken # {} THEN folders[FirstSpoken].by ELSE at

-----------------------------------------------------------------------------
\* queue.sh start has been run over the list.  A session somebody began by hand
\* may be at work on the pair already, if the list's first job waits for it.
Init ==
  /\ jobs \in Lists
  /\ at = 1 /\ phase = "prep" /\ boots = 0 /\ retried = {} /\ seen = 0
  /\ stopFile = FALSE /\ armed = FALSE /\ cron = TRUE
  /\ folders = <<>> /\ chainSays = FALSE
  /\ up = TRUE /\ pc = "top" /\ late = FALSE
  /\ \/ sessions = {}
     \/ /\ Head(jobs).kind = "wait"
        /\ sessions = {[id |-> 1, by |-> 0, state |-> "calibrating", folder |-> 0]}
  /\ tried = {} /\ credited = {} /\ stopAt = 0
  /\ used = [what \in {"halt", "stop", "arm", "selfstop"} |-> 0]

-----------------------------------------------------------------------------
(***************************************************************************)
(* The loop.                                                               *)
(***************************************************************************)
\* Work that starts, told apart from what is at work already.
NewWork(place, state) ==
  [id     |-> CHOOSE n \in 1..(Cardinality(sessions) + 1) : \A s \in sessions : s.id # n,
   by     |-> place,
   state  |-> state,
   folder |-> 0]

\* The chains that wait read what stage0.log says: a new one sets them going.
Rereading ==
  {IF s.state = "stuck" THEN [s EXCEPT !.state = "calibrating"] ELSE s : s \in sessions}

Step(from, to) == up /\ pc = from /\ pc' = to

TopStops ==
  /\ stopFile
  /\ Step("top", "off")
  /\ UNCHANGED <<files, outside, up, late, sessions, history>>

TopFindsEnd ==
  /\ ~stopFile /\ at > Len(jobs) /\ ~armed
  /\ Step("top", "off")
  /\ UNCHANGED <<files, outside, up, late, sessions, history>>

\* Slip: the pair turns itself off and stays armed.
TopTakesArmingKept ==
  /\ ~stopFile /\ at > Len(jobs) /\ armed
  /\ Step("top", "selfstop")
  /\ UNCHANGED <<files, outside, up, late, sessions, history>>

\* The arming is taken first, and taken once.
TopTakesArming ==
  /\ ~stopFile /\ at > Len(jobs) /\ armed
  /\ Step("top", "selfstop")
  /\ armed' = FALSE
  /\ UNCHANGED <<jobs, at, phase, boots, retried, seen, stopFile, cron>>
  /\ UNCHANGED <<outside, up, late, sessions, history>>

\* Slip: a stop asked for is looked for only when the list has ended.
TopWorksOn ==
  /\ at <= Len(jobs)
  /\ Step("top", CASE phase = "prep" -> "prep" [] phase = "booted" -> "begin"
                   [] phase = "waiting" -> "look")
  /\ UNCHANGED <<files, outside, up, late, sessions, history>>

TopWorks ==
  /\ ~stopFile /\ at <= Len(jobs)
  /\ Step("top", CASE phase = "prep" -> "prep" [] phase = "booted" -> "begin"
                   [] phase = "waiting" -> "look")
  /\ UNCHANGED <<files, outside, up, late, sessions, history>>

\* stop_self.sh: Azure turns the machine off, or is not reached.
SelfStop ==
  /\ Step("selfstop", "off")
  /\ \/ up' = FALSE /\ sessions' = {} /\ Used("selfstop")
     \/ UNCHANGED <<up, sessions, used>>
  /\ UNCHANGED <<files, outside, late, tried, credited, stopAt>>

\* prep: count, then ask for the boot, then note that it was asked for.
PrepCounts ==
  /\ Step("prep", IF boots + 1 > 2 THEN "advance" ELSE "ask")
  /\ boots' = boots + 1
  /\ UNCHANGED <<jobs, at, phase, retried, seen, stopFile, armed, cron>>
  /\ UNCHANGED <<outside, up, late, sessions, history>>

PrepNotes ==
  /\ Step("ask", IF JobInHand.reboots THEN "reboot" ELSE "top")
  /\ phase' = "booted"
  /\ UNCHANGED <<jobs, at, boots, retried, seen, stopFile, armed, cron>>
  /\ UNCHANGED <<outside, up, late, sessions, history>>

\* The reboot asked for is taken to come.
Reboot ==
  /\ Step("reboot", "off")
  /\ up' = FALSE
  /\ sessions' = {}
  /\ UNCHANGED <<files, outside, late, history>>

\* booted: a command is run here and waited for.
CommandBegins ==
  /\ Step("begin", "command")
  /\ JobInHand.kind = "command"
  /\ tried' = tried \cup {at}
  /\ UNCHANGED <<files, outside, up, late, sessions, credited, stopAt, used>>

CommandEnds ==
  /\ \/ Step("command", "advance")  \* with status 0
     \/ Step("command", "retry")    \* with any other
  /\ UNCHANGED <<files, outside, up, late, sessions, history>>

\* The machine did not come back as the job asked, or, for a block, what its
\* session needs is not there.
BeginRefused ==
  /\ Step("begin", "retry")
  /\ \/ JobInHand.kind = "command" /\ JobInHand.reboots
     \/ JobInHand.kind = "block"
  /\ tried' = tried \cup {at}
  /\ UNCHANGED <<files, outside, up, late, sessions, credited, stopAt, used>>

\* Slip: the folders there are not noted.
FoldersUnnoted ==
  /\ Step("begin", "calibration")
  /\ JobInHand.kind = "block"
  /\ tried' = tried \cup {at}
  /\ UNCHANGED <<files, outside, up, late, sessions, credited, stopAt, used>>

\* start_job: the folders there are noted, ...
NoteFolders ==
  /\ Step("begin", "calibration")
  /\ JobInHand.kind = "block"
  /\ seen' = Len(folders)
  /\ tried' = tried \cup {at}
  /\ UNCHANGED <<jobs, at, phase, boots, retried, stopFile, armed, cron>>
  /\ UNCHANGED <<outside, up, late, sessions, credited, stopAt, used>>

\* ... then the calibration is started, over a new stage0.log and with no chain of
\* its own yet, ...
CalibrationStarts ==
  /\ Step("calibration", "chain")
  /\ sessions' = Rereading \cup {NewWork(at, "alone")}
  /\ UNCHANGED <<files, outside, up, late, history>>

\* ... and then the chain, over a new chain.log.  It reads stage0.log also when
\* the calibration is over by then.
ChainStarts ==
  /\ Step("chain", "started")
  /\ LET calibration == {s \in sessions : s.by = at /\ s.state = "alone"}
     IN  sessions' = (sessions \ calibration) \cup
           (IF calibration = {} THEN {NewWork(at, "calibrating")}
            ELSE {[s EXCEPT !.state = "calibrating"] : s \in calibration})
  /\ chainSays' = FALSE
  /\ UNCHANGED <<files, folders, up, late, history>>

\* The calibration did not start, over a new stage0.log, or the chain did not,
\* over a new chain.log: the calibration is then left at work.
SessionNotStarted ==
  /\ \/ Step("calibration", "retry") /\ sessions' = Rereading /\ UNCHANGED chainSays
     \/ Step("chain", "retry") /\ chainSays' = FALSE /\ UNCHANGED sessions
  /\ UNCHANGED <<files, folders, up, late, history>>

NoteWaiting ==
  /\ \/ Step("started", "top") /\ UNCHANGED tried
     \/ Step("begin", "top") /\ JobInHand.kind = "wait" /\ tried' = tried \cup {at}
  /\ phase' = "waiting"
  /\ UNCHANGED <<jobs, at, boots, retried, seen, stopFile, armed, cron>>
  /\ UNCHANGED <<outside, up, late, sessions, credited, stopAt, used>>

\* waiting: the state is read, and then the loop sleeps.
LookFinished ==
  /\ Step("look", "advance")
  /\ State = "done"
  /\ late' = FALSE
  /\ credited' = credited \cup {[job |-> at, by |-> SaidBy]}
  /\ UNCHANGED <<files, outside, up, sessions, tried, stopAt, used>>

LookStopped ==
  /\ Step("look", "retry")
  /\ State = "stopped"
  /\ late' = FALSE
  /\ UNCHANGED <<files, outside, up, sessions, history>>

LookRunning ==
  /\ Step("look", "sleep")
  /\ State = "running"
  /\ UNCHANGED <<files, outside, up, late, sessions, history>>

\* Awake again, within twelve hours or with something still at work ...
WakeLooks ==
  /\ Step("sleep", "look")
  /\ \/ ~late /\ late' = FALSE
     \/ late' = TRUE /\ sessions # {}
  /\ UNCHANGED <<files, outside, up, sessions, history>>

\* Slip: after twelve hours it is what is still at work that is given up.
WakeGivesUpOnWork ==
  /\ Step("sleep", "retry")
  /\ sessions # {}
  /\ late' = FALSE
  /\ UNCHANGED <<files, outside, up, sessions, history>>

\* ... or after twelve hours, with nothing at work.
WakeGivesUp ==
  /\ Step("sleep", "retry")
  /\ sessions = {}
  /\ late' = FALSE
  /\ UNCHANGED <<files, outside, up, sessions, history>>

\* Slip: the line is not noted as retried.
RetryUnnoted ==
  /\ Step("retry", IF JobInHand \in retried THEN "advance" ELSE "append")
  /\ UNCHANGED <<files, outside, up, late, sessions, history>>

\* requeue_once: noted first, then put back.
RetryNotes ==
  /\ Step("retry", IF JobInHand \in retried THEN "advance" ELSE "append")
  /\ retried' = retried \cup {JobInHand}
  /\ UNCHANGED <<jobs, at, phase, boots, seen, stopFile, armed, cron>>
  /\ UNCHANGED <<outside, up, late, sessions, history>>

RetryAppends ==
  /\ Step("append", "advance")
  /\ jobs' = Append(jobs, JobInHand)
  /\ UNCHANGED <<at, phase, boots, retried, seen, stopFile, armed, cron>>
  /\ UNCHANGED <<outside, up, late, sessions, history>>

\* Slip: a job's end moves the list on by two.
AdvanceTwo ==
  /\ Step("advance", "advancePhase")
  /\ at' = at + 2
  /\ UNCHANGED <<jobs, phase, boots, retried, seen, stopFile, armed, cron>>
  /\ UNCHANGED <<outside, up, late, sessions, history>>

\* advance: the place, then the phase, then the count of boots.
Advance ==
  /\ Step("advance", "advancePhase")
  /\ at' = at + 1
  /\ UNCHANGED <<jobs, phase, boots, retried, seen, stopFile, armed, cron>>
  /\ UNCHANGED <<outside, up, late, sessions, history>>

AdvancePhase ==
  /\ Step("advancePhase", "advanceBoots")
  /\ phase' = "prep"
  /\ UNCHANGED <<jobs, at, boots, retried, seen, stopFile, armed, cron>>
  /\ UNCHANGED <<outside, up, late, sessions, history>>

\* Slip: the count of boots is kept from job to job.
AdvanceBootsKept ==
  /\ Step("advanceBoots", "top")
  /\ UNCHANGED <<files, outside, up, late, sessions, history>>

AdvanceBoots ==
  /\ Step("advanceBoots", "top")
  /\ boots' = 0
  /\ UNCHANGED <<jobs, at, phase, retried, seen, stopFile, armed, cron>>
  /\ UNCHANGED <<outside, up, late, sessions, history>>

Loop ==
  \/ TopStops \/ TopFindsEnd \/ TopTakesArming \/ TopWorks \/ SelfStop
  \/ PrepCounts \/ PrepNotes \/ Reboot
  \/ CommandBegins \/ CommandEnds \/ BeginRefused
  \/ NoteFolders \/ CalibrationStarts \/ ChainStarts \/ SessionNotStarted
  \/ NoteWaiting
  \/ LookFinished \/ LookStopped \/ LookRunning \/ WakeLooks \/ WakeGivesUp
  \/ RetryNotes \/ RetryAppends
  \/ Advance \/ AdvancePhase \/ AdvanceBoots

-----------------------------------------------------------------------------
(***************************************************************************)
(* The sessions.                                                           *)
(***************************************************************************)
Without(s) == sessions' = sessions \ {s}

\* stage1.sh makes the campaign's folder, and the campaign begins its log.
SessionMakesFolder(s) ==
  /\ s.state = "calibrating"
  /\ folders' = Append(folders, [by |-> s.by, word |-> "none"])
  /\ sessions' = (sessions \ {s}) \cup
       {[s EXCEPT !.state = "measuring", !.folder = Len(folders) + 1]}
  /\ UNCHANGED chainSays

\* The campaign says its last word and the session's processes end.
SessionEnds(s) ==
  /\ s.state = "measuring"
  /\ \E word \in {"done", "stopped"} : folders' = [folders EXCEPT ![s.folder].word = word]
  /\ Without(s)
  /\ UNCHANGED chainSays

\* The calibration trips a stop rule, which chain.sh says.
ChainStops(s) ==
  /\ s.state = "calibrating"
  /\ chainSays' = TRUE
  /\ Without(s)
  /\ UNCHANGED folders

\* stage0.sh ends without a word, and chain.sh goes on waiting for one.
CalibrationDies(s) ==
  /\ s.state = "calibrating"
  /\ sessions' = (sessions \ {s}) \cup {[s EXCEPT !.state = "stuck"]}
  /\ UNCHANGED outside

\* The session's processes end and its last word is none of those read.
SessionDies(s) ==
  /\ Without(s)
  /\ UNCHANGED outside

SessionStep ==
  /\ \E s \in sessions :
       \/ SessionMakesFolder(s) \/ SessionEnds(s)
       \/ ChainStops(s) \/ CalibrationDies(s) \/ SessionDies(s)
  /\ UNCHANGED <<files, up, pc, late, history>>

-----------------------------------------------------------------------------
(***************************************************************************)
(* The machine and the people.                                             *)
(***************************************************************************)

\* The machine comes up, and the @reboot line starts the loop.
Boot ==
  /\ ~up
  /\ up' = TRUE
  /\ pc' = IF cron THEN "top" ELSE "off"
  /\ UNCHANGED <<files, outside, late, sessions, history>>

CanHalt(what) ==
  /\ up /\ what \in Halts /\ Count("halt") < MaxHalts
  /\ pc \in {"advancePhase", "advanceBoots"} => Torn
  /\ Used("halt")

PowerCut ==
  /\ CanHalt("cut")
  /\ up' = FALSE /\ pc' = "off" /\ late' = FALSE /\ sessions' = {}
  /\ UNCHANGED <<files, outside, tried, credited, stopAt>>

\* The loop alone is killed; its sessions, and the command it was running, go on.
Kill ==
  /\ pc # "off" /\ CanHalt("kill")
  /\ pc' = "off" /\ late' = FALSE
  /\ sessions' = IF pc = "command" THEN sessions \cup {NewWork(at, "alone")} ELSE sessions
  /\ UNCHANGED <<files, outside, up, tried, credited, stopAt>>

\* queue.sh start.  The lock refuses a second loop, but the stop file is gone
\* by then.
StartLoop ==
  /\ up
  /\ stopFile' = FALSE /\ cron' = TRUE
  /\ pc' = IF pc = "off" THEN "top" ELSE pc
  /\ UNCHANGED <<jobs, at, phase, boots, retried, seen, armed>>
  /\ UNCHANGED <<outside, up, late, sessions, history>>

\* queue.sh stop
AskStop ==
  /\ up /\ Count("stop") < MaxStops
  /\ stopFile' = TRUE /\ cron' = FALSE
  /\ stopAt' = at
  /\ Used("stop")
  /\ UNCHANGED <<jobs, at, phase, boots, retried, seen, armed>>
  /\ UNCHANGED <<outside, machine, tried, credited>>

\* queue.sh arm-stop
ArmStop ==
  /\ up /\ Count("arm") < MaxArms
  /\ armed' = TRUE
  /\ Used("arm")
  /\ UNCHANGED <<jobs, at, phase, boots, retried, seen, stopFile, cron>>
  /\ UNCHANGED <<outside, machine, tried, credited, stopAt>>

DisarmStop ==
  /\ up /\ armed
  /\ armed' = FALSE
  /\ UNCHANGED <<jobs, at, phase, boots, retried, seen, stopFile, cron>>
  /\ UNCHANGED <<outside, machine, history>>

\* queue.sh add
Add ==
  /\ up
  /\ \E job \in Extra \ ToSet(jobs) : jobs' = Append(jobs, job)
  /\ UNCHANGED <<at, phase, boots, retried, seen, stopFile, armed, cron>>
  /\ UNCHANGED <<outside, machine, history>>

People == StartLoop \/ AskStop \/ ArmStop \/ DisarmStop \/ Add

Next == Loop \/ SessionStep \/ Boot \/ PowerCut \/ Kill \/ People

\* The sessions that go on by themselves.
Going == {s \in sessions : s.state # "stuck"}

\* The loop goes on while it lives: its commands end within their timeout, and
\* a loop that goes on sleeping has slept its twelve hours in the end.  A session
\* goes on until it ends, or its chain waits for a word that nothing will write:
\* nothing has to end that wait.  A machine that goes down comes back up, one that
\* turned itself off when somebody starts it.
Fairness ==
  /\ WF_vars(Loop) /\ SF_vars(WakeGivesUp)
  /\ WF_vars(SessionStep /\ Going' # Going)
  /\ WF_vars(Boot)

Spec == Init /\ [][Next]_vars /\ Fairness

-----------------------------------------------------------------------------
(***************************************************************************)
(* Properties.                                                             *)
(***************************************************************************)
Steps ==
  {"off", "top", "selfstop", "prep", "ask", "reboot", "begin", "command",
   "calibration", "chain", "started", "look", "sleep", "retry", "append",
   "advance", "advancePhase", "advanceBoots"}

TypeOK ==
  /\ jobs \in Seq(Job)
  /\ at \in 1..(Len(jobs) + 1)
  /\ phase \in {"prep", "booted", "waiting"}
  /\ boots \in 0..(MaxHalts + 1)
  /\ retried \subseteq ToSet(jobs)
  /\ seen \in 0..Len(folders)
  /\ {stopFile, armed, cron, chainSays, up, late} \subseteq BOOLEAN
  /\ late => pc \in {"look", "sleep"}
  /\ folders \in Seq([by: Nat, word: {"none", "done", "stopped"}])
  /\ pc \in Steps /\ (~up => pc = "off")
  /\ tried \cup {c.job : c \in credited} \subseteq 1..Len(jobs)
  /\ stopAt \in 0..(Len(jobs) + 1)

\* A line is put back on the end of the list once, whatever cuts and kills fall
\* between noting it and putting it back, and however its copy fares.
PutBackOnce ==
  \A job \in ToSet(jobs) : Cardinality({p \in DOMAIN jobs : jobs[p] = job}) <= 2

\* The list never goes past a job that was not tried (its work was begun, or the
\* log says STOPPED before it ran) until prep has been interrupted twice, which
\* the loop takes for two reboots and goes on to the next.
PassedWasTried == Count("halt") < 2 => \A p \in 1..(at - 1) : p \in tried

\* A job is counted as finished on the word of its own session ("only a folder
\* that was not there when it started counts as its own").
CreditIsOwn == \A c \in credited : c.by = c.job /\ c.job \in tried

\* From the moment a stop is asked for, no job after the one it is on is begun.
StopIsObeyed == stopFile => \A p \in tried : p <= stopAt

\* The pair turns itself off once for each time it was armed to, and not again
\* each time it is started with its list at an end.
SelfStopsWhenArmed == Count("selfstop") <= Count("arm")

\* The list comes to its end, however the sessions and commands end and whatever
\* is added to it on the way, unless somebody stops it, or a chain waits for ever
\* for a word of a calibration that died: the loop takes that for a session still
\* at work (chain.sh's loop has no end of its own, and work_running counts it).
ListEnds ==
  <>(at > Len(jobs) \/ stopAt # 0) \/ <>[](\E s \in sessions : s.state = "stuck")

\* A job whose session has said CAMPAIGN_COMPLETE is not put back on the list.
CompleteNotPutBack ==
  [][pc = "append" /\ jobs' # jobs =>
       \A i \in DOMAIN folders : folders[i].by = at => folders[i].word # "done"]_vars

=============================================================================
