--------------------------- MODULE PairQueueProofs ---------------------------
(***************************************************************************)
(* What PairQueue promises, for every job list, whatever may be added to   *)
(* it, however often the loop and the machine are halted, and however      *)
(* often somebody stops, arms and starts it.                               *)
(***************************************************************************)
EXTENDS PairQueue, FiniteSetTheorems, WellFoundedInduction, TLAPS

\* The constants, one by one.
LEMMA Bounds ==
  /\ Lists # {}
  /\ \A list \in Lists : list \in Seq(Job) /\ list # <<>>
  /\ Extra \subseteq Job
  /\ MaxHalts \in Nat /\ MaxStops \in Nat /\ MaxArms \in Nat
BY ListAssumption

-----------------------------------------------------------------------------
(***************************************************************************)
(* The shape of the state, in the parts that the steps change together.    *)
(***************************************************************************)
\* Where the loop has a job in hand.
InJob == Steps \ {"off", "top", "selfstop", "advancePhase", "advanceBoots"}

\* The list, and the place on it: past its end only between two jobs.
PlaceOK ==
  /\ jobs \in Seq(Job) /\ at \in 1..(Len(jobs) + 1)
  /\ pc \in InJob => at <= Len(jobs)

\* The loop, its phase, and the machine it lives on.
LoopOK ==
  /\ pc \in Steps /\ (~up => pc = "off")
  /\ phase \in {"prep", "booted", "waiting"}
  /\ pc \in {"prep", "ask"} => phase = "prep"
  /\ late => pc \in {"look", "sleep"}

\* What is either so or not.
FlagsOK == {stopFile, armed, cron, chainSays, up, late} \subseteq BOOLEAN

\* The counts; the model halts the loop MaxHalts times at most.
UsedOK == used \in [{"halt", "stop", "arm", "selfstop"} -> Nat] /\ Count("halt") <= MaxHalts

\* A job goes through prep once more than it was interrupted there: a boot is
\* counted again only after a halt.
BootsOK ==
  /\ boots \in 0..(Count("halt") + 1)
  /\ phase = "prep" /\ pc \notin {"ask", "advance", "advancePhase", "advanceBoots"} =>
       boots <= Count("halt")

\* Lines that had their second go are lines of the list.
RetriedOK == retried \subseteq ToSet(jobs)

\* What has happened happened at places the loop has come to.
TriedOK ==
  /\ tried \subseteq 1..at /\ tried \union {c.job : c \in credited} \subseteq 1..Len(jobs)
  /\ stopAt \in 0..(Len(jobs) + 1)

\* Every step keeps the loop in shape.
LEMMA LoopKept ==
  ASSUME LoopOK, FlagsOK, [Next]_vars
  PROVE  LoopOK'
<1> USE DEF LoopOK, FlagsOK, Steps
<1>1. CASE TopStops \/ TopFindsEnd \/ TopTakesArming \/ TopWorks \/ SelfStop
  BY <1>1
     DEF TopStops, TopFindsEnd, TopTakesArming, TopWorks, SelfStop, Step, files
<1>2. CASE PrepCounts \/ PrepNotes \/ Reboot
  BY <1>2
     DEF PrepCounts, PrepNotes, Reboot, Step, files
<1>3. CASE CommandBegins \/ CommandEnds \/ BeginRefused \/ NoteFolders
           \/ CalibrationStarts \/ ChainStarts \/ SessionNotStarted
  BY <1>3
     DEF CommandBegins, CommandEnds, BeginRefused, NoteFolders, CalibrationStarts,
         ChainStarts, SessionNotStarted, Step, files
<1>4. CASE NoteWaiting
  BY <1>4
     DEF NoteWaiting, Step, files
<1>5. CASE LookFinished \/ LookStopped \/ LookRunning \/ WakeLooks \/ WakeGivesUp
  BY <1>5
     DEF LookFinished, LookStopped, LookRunning, WakeLooks, WakeGivesUp, Step, files
<1>6. CASE RetryNotes \/ RetryAppends \/ Advance \/ AdvancePhase \/ AdvanceBoots
  BY <1>6
     DEF RetryNotes, RetryAppends, Advance, AdvancePhase, AdvanceBoots, Step, files
<1>7. CASE Boot \/ PowerCut \/ Kill \/ StartLoop
  BY <1>7
     DEF Boot, PowerCut, Kill, StartLoop, CanHalt, files
<1>8. ASSUME UNCHANGED <<pc, up, phase, late>>
      PROVE  LoopOK'
  BY <1>8
<1>9. CASE SessionStep \/ AskStop \/ ArmStop \/ DisarmStop \/ Add
  BY <1>8, <1>9
     DEF SessionStep, AskStop, ArmStop, DisarmStop, Add, SessionMakesFolder,
         SessionEnds, ChainStops, CalibrationDies, SessionDies, Without, files, outside, machine, history
<1>10. CASE UNCHANGED vars
  BY <1>8, <1>10 DEF vars, files, outside, machine, history
<1> QED
  BY <1>1, <1>2, <1>3, <1>4, <1>5, <1>6, <1>7, <1>9, <1>10 DEF Next, Loop, People

\* Every step keeps the flags in shape.
LEMMA FlagsKept ==
  ASSUME LoopOK, FlagsOK, [Next]_vars
  PROVE  FlagsOK'
<1> USE DEF FlagsOK
<1>1. CASE TopTakesArming
  BY <1>1
     DEF TopTakesArming, Step, files, outside, machine
<1>2. CASE SelfStop \/ Reboot
  BY <1>2
     DEF SelfStop, Reboot, Step, files, outside, machine
<1>3. CASE ChainStarts \/ SessionNotStarted
  BY <1>3
     DEF ChainStarts, SessionNotStarted, Step, files, outside, machine
<1>4. CASE WakeLooks
  BY <1>4
     DEF WakeLooks, Step, files, outside, machine
<1>5. CASE LookFinished \/ LookStopped \/ WakeGivesUp
  BY <1>5
     DEF LookFinished, LookStopped, WakeGivesUp, Step, files, outside, machine
<1>6. CASE SessionStep
  BY <1>6
     DEF SessionStep, SessionMakesFolder, SessionEnds, ChainStops, CalibrationDies, SessionDies, Without,
         files, outside, machine
<1>7. CASE Boot \/ PowerCut \/ Kill
  BY <1>7
     DEF Boot, PowerCut, Kill, CanHalt, files, outside, machine
<1>8. CASE StartLoop \/ AskStop \/ ArmStop \/ DisarmStop
  BY <1>8
     DEF StartLoop, AskStop, ArmStop, DisarmStop, files, outside, machine
<1>9. ASSUME UNCHANGED <<stopFile, armed, cron, chainSays, up, late>>
      PROVE  FlagsOK'
  BY <1>9
<1>10. CASE TopStops \/ TopFindsEnd \/ TopWorks \/ PrepCounts \/ PrepNotes \/ CommandBegins
           \/ CommandEnds \/ BeginRefused \/ NoteFolders \/ CalibrationStarts
           \/ NoteWaiting \/ LookRunning \/ RetryNotes \/ RetryAppends \/ Advance
           \/ AdvancePhase \/ AdvanceBoots \/ Add
  BY <1>9, <1>10
     DEF TopStops, TopFindsEnd, TopWorks, PrepCounts, PrepNotes, CommandBegins,
         CommandEnds, BeginRefused, NoteFolders, CalibrationStarts, NoteWaiting,
         LookRunning, RetryNotes, RetryAppends, Advance, AdvancePhase, AdvanceBoots,
         Add, files, outside, machine, history
<1>11. CASE UNCHANGED vars
  BY <1>9, <1>11 DEF vars, files, outside, machine, history
<1> QED
  BY <1>1, <1>2, <1>3, <1>4, <1>5, <1>6, <1>7, <1>8, <1>10, <1>11 DEF Next, Loop, People

\* The list only grows, and the place on it moves on where a job ends.
LEMMA PlaceKept ==
  ASSUME PlaceOK, LoopOK, [Next]_vars
  PROVE  PlaceOK'
<1> USE Bounds DEF PlaceOK, InJob, Steps
<1>1. CASE TopStops \/ TopFindsEnd \/ TopTakesArming \/ TopWorks \/ SelfStop
  BY <1>1
     DEF TopStops, TopFindsEnd, TopTakesArming, TopWorks, SelfStop, Step, files,
         JobInHand
<1>2. CASE PrepCounts \/ PrepNotes \/ Reboot
  BY <1>2
     DEF PrepCounts, PrepNotes, Reboot, Step, files, JobInHand
<1>3. CASE CommandBegins \/ CommandEnds \/ BeginRefused \/ NoteFolders
           \/ CalibrationStarts \/ ChainStarts \/ SessionNotStarted
  BY <1>3
     DEF CommandBegins, CommandEnds, BeginRefused, NoteFolders, CalibrationStarts,
         ChainStarts, SessionNotStarted, Step, files, JobInHand
<1>4. CASE NoteWaiting
  BY <1>4
     DEF NoteWaiting, Step, files, JobInHand
<1>5. CASE LookFinished \/ LookStopped \/ LookRunning \/ WakeLooks \/ WakeGivesUp
  BY <1>5
     DEF LookFinished, LookStopped, LookRunning, WakeLooks, WakeGivesUp, Step, files,
         JobInHand
<1>6. CASE RetryNotes \/ RetryAppends \/ Advance \/ AdvancePhase \/ AdvanceBoots
  BY <1>6
     DEF RetryNotes, RetryAppends, Advance, AdvancePhase, AdvanceBoots, Step, files,
         JobInHand
<1>7. CASE Boot \/ PowerCut \/ Kill \/ StartLoop
  BY <1>7
     DEF Boot, PowerCut, Kill, StartLoop, CanHalt, files, JobInHand
<1>8. CASE Add
  BY <1>8
     DEF Add, files, JobInHand
<1>9. ASSUME UNCHANGED <<jobs, at, pc>>
      PROVE  PlaceOK'
  BY <1>9
<1>10. CASE SessionStep \/ AskStop \/ ArmStop \/ DisarmStop
  BY <1>9, <1>10
     DEF SessionStep, AskStop, ArmStop, DisarmStop, SessionMakesFolder, SessionEnds,
         ChainStops, CalibrationDies, SessionDies, Without, files, outside, machine, history
<1>11. CASE UNCHANGED vars
  BY <1>9, <1>11 DEF vars, files, outside, machine, history
<1> QED
  BY <1>1, <1>2, <1>3, <1>4, <1>5, <1>6, <1>7, <1>8, <1>10, <1>11 DEF Next, Loop, People

\* What counting one of them does to the counts.
LEMMA Counting ==
  ASSUME UsedOK, NEW what \in {"halt", "stop", "arm", "selfstop"}, Used(what)
  PROVE  /\ used' \in [{"halt", "stop", "arm", "selfstop"} -> Nat]
         /\ Count(what)' = Count(what) + 1
         /\ \A other \in {"halt", "stop", "arm", "selfstop"} \ {what} : Count(other)' = Count(other)
BY DEF UsedOK, Used, Count

\* Every step counts right.
LEMMA UsedKept ==
  ASSUME UsedOK, [Next]_vars
  PROVE  UsedOK'
<1> USE Bounds, Counting
<1>1. CASE SelfStop
  <2>1. CASE Used("selfstop")
    BY <2>1 DEF UsedOK
  <2>2. CASE UNCHANGED used
    BY <2>2 DEF UsedOK, Count
  <2> QED BY <1>1, <2>1, <2>2 DEF SelfStop
<1>2. CASE PowerCut \/ Kill
  <2>1. Used("halt") /\ Count("halt") < MaxHalts
    BY <1>2 DEF PowerCut, Kill, CanHalt
  <2> QED BY <2>1 DEF UsedOK, Count
<1>3. CASE AskStop
  <2>1. Used("stop")
    BY <1>3 DEF AskStop
  <2> QED BY <2>1 DEF UsedOK
<1>4. CASE ArmStop
  <2>1. Used("arm")
    BY <1>4 DEF ArmStop
  <2> QED BY <2>1 DEF UsedOK
<1>5. ASSUME UNCHANGED <<used>>
      PROVE  UsedOK'
  BY <1>5 DEF UsedOK, Count
<1>6. CASE TopStops \/ TopFindsEnd \/ TopTakesArming \/ TopWorks \/ PrepCounts
           \/ PrepNotes \/ Reboot \/ CommandBegins \/ CommandEnds \/ BeginRefused
           \/ NoteFolders \/ CalibrationStarts \/ ChainStarts \/ SessionNotStarted
           \/ NoteWaiting \/ LookFinished \/ LookStopped \/ LookRunning \/ WakeLooks
           \/ WakeGivesUp \/ RetryNotes \/ RetryAppends \/ Advance \/ AdvancePhase
           \/ AdvanceBoots \/ SessionStep \/ Boot \/ StartLoop \/ DisarmStop \/ Add
  BY <1>5, <1>6
     DEF TopStops, TopFindsEnd, TopTakesArming, TopWorks, PrepCounts, PrepNotes, Reboot,
         CommandBegins, CommandEnds, BeginRefused, NoteFolders, CalibrationStarts,
         ChainStarts, SessionNotStarted, NoteWaiting, LookFinished, LookStopped,
         LookRunning, WakeLooks, WakeGivesUp, RetryNotes, RetryAppends, Advance,
         AdvancePhase, AdvanceBoots, SessionStep, Boot, StartLoop, DisarmStop, Add,
         SessionMakesFolder, SessionEnds, ChainStops, CalibrationDies, SessionDies, Without, files,
         outside, machine, history
<1>7. CASE UNCHANGED vars
  BY <1>5, <1>7 DEF vars, files, outside, machine, history
<1> QED
  BY <1>1, <1>2, <1>3, <1>4, <1>6, <1>7 DEF Next, Loop, People

\* A boot is counted where the phase is prep; a halt on the way allows the next
\* one; and the end of a job resets the count.
LEMMA BootsKept ==
  ASSUME BootsOK, LoopOK, UsedOK, [Next]_vars
  PROVE  BootsOK'
<1> USE Counting DEF BootsOK
<1>1. CASE SelfStop
  <2>1. UNCHANGED <<boots, phase>> /\ pc' = "off" /\ pc = "selfstop" /\ Count("halt")' = Count("halt")
    BY <1>1 DEF SelfStop, Step, files, Count
  <2> QED BY <2>1
<1>2. CASE TopStops \/ TopFindsEnd \/ TopTakesArming \/ TopWorks
  BY <1>2
     DEF TopStops, TopFindsEnd, TopTakesArming, TopWorks, Step, LoopOK, files, history,
         Count, UsedOK
<1>3. CASE PrepCounts \/ PrepNotes \/ Reboot
  BY <1>3
     DEF PrepCounts, PrepNotes, Reboot, Step, LoopOK, files, history, Count, UsedOK
<1>4. CASE CommandBegins \/ CommandEnds \/ BeginRefused \/ NoteFolders
           \/ CalibrationStarts \/ ChainStarts \/ SessionNotStarted
  BY <1>4
     DEF CommandBegins, CommandEnds, BeginRefused, NoteFolders, CalibrationStarts,
         ChainStarts, SessionNotStarted, Step, LoopOK, files, history, Count, UsedOK
<1>5. CASE NoteWaiting
  BY <1>5
     DEF NoteWaiting, Step, LoopOK, files, history, Count, UsedOK
<1>6. CASE LookFinished \/ LookStopped \/ LookRunning \/ WakeLooks \/ WakeGivesUp
  BY <1>6
     DEF LookFinished, LookStopped, LookRunning, WakeLooks, WakeGivesUp, Step, LoopOK,
         files, history, Count, UsedOK
<1>7. CASE RetryNotes \/ RetryAppends \/ Advance \/ AdvancePhase \/ AdvanceBoots
  BY <1>7
     DEF RetryNotes, RetryAppends, Advance, AdvancePhase, AdvanceBoots, Step, LoopOK,
         files, history, Count, UsedOK
<1>8. CASE PowerCut \/ Kill
  <2>1. UNCHANGED <<boots, phase>> /\ Count("halt")' = Count("halt") + 1
    BY <1>8 DEF PowerCut, Kill, CanHalt, files
  <2>2. Count("halt") \in Nat
    BY DEF UsedOK, Count
  <2> QED BY <2>1, <2>2
<1>9. CASE AskStop
  <2>1. UNCHANGED <<boots, phase, pc>> /\ Count("halt")' = Count("halt")
    BY <1>9 DEF AskStop, machine
  <2> QED BY <2>1
<1>10. CASE ArmStop
  <2>1. UNCHANGED <<boots, phase, pc>> /\ Count("halt")' = Count("halt")
    BY <1>10 DEF ArmStop, machine
  <2> QED BY <2>1
<1>11. CASE Boot \/ StartLoop
  BY <1>11
     DEF Boot, StartLoop, files, history, LoopOK, Count
<1>12. ASSUME UNCHANGED <<pc, boots, phase, used>>
      PROVE  BootsOK'
  BY <1>12 DEF Count
<1>13. CASE SessionStep \/ DisarmStop \/ Add
  BY <1>12, <1>13
     DEF SessionStep, DisarmStop, Add, SessionMakesFolder, SessionEnds, ChainStops,
         CalibrationDies, SessionDies, Without, files, outside, machine, history
<1>14. CASE UNCHANGED vars
  BY <1>12, <1>14 DEF vars, files, outside, machine, history
<1> QED
  BY <1>1, <1>2, <1>3, <1>4, <1>5, <1>6, <1>7, <1>8, <1>9, <1>10, <1>11, <1>13, <1>14 DEF Next, Loop, People

\* A line is noted while it is on the list.
LEMMA RetriedKept ==
  ASSUME RetriedOK, PlaceOK, [Next]_vars
  PROVE  RetriedOK'
<1> USE DEF RetriedOK, PlaceOK
<1>1. CASE RetryNotes
  BY <1>1
     DEF RetryNotes, Step, JobInHand, ToSet, InJob, Steps
<1>2. CASE RetryAppends
  BY <1>2
     DEF RetryAppends, Step, JobInHand, ToSet, InJob, Steps
<1>3. CASE Add
  BY <1>3
     DEF Add, JobInHand, ToSet, InJob, Steps
<1>4. ASSUME UNCHANGED <<jobs, retried>>
      PROVE  RetriedOK'
  BY <1>4
<1>5. CASE TopStops \/ TopFindsEnd \/ TopTakesArming \/ TopWorks \/ SelfStop \/ PrepCounts
           \/ PrepNotes \/ Reboot \/ CommandBegins \/ CommandEnds \/ BeginRefused
           \/ NoteFolders \/ CalibrationStarts \/ ChainStarts \/ SessionNotStarted
           \/ NoteWaiting \/ LookFinished \/ LookStopped \/ LookRunning \/ WakeLooks
           \/ WakeGivesUp \/ Advance \/ AdvancePhase \/ AdvanceBoots \/ SessionStep
           \/ Boot \/ PowerCut \/ Kill \/ StartLoop \/ AskStop \/ ArmStop \/ DisarmStop
  BY <1>4, <1>5
     DEF TopStops, TopFindsEnd, TopTakesArming, TopWorks, SelfStop, PrepCounts,
         PrepNotes, Reboot, CommandBegins, CommandEnds, BeginRefused, NoteFolders,
         CalibrationStarts, ChainStarts, SessionNotStarted, NoteWaiting, LookFinished,
         LookStopped, LookRunning, WakeLooks, WakeGivesUp, Advance, AdvancePhase,
         AdvanceBoots, SessionStep, Boot, PowerCut, Kill, StartLoop, AskStop, ArmStop,
         DisarmStop, SessionMakesFolder, SessionEnds, ChainStops, CalibrationDies, SessionDies, Without,
         CanHalt, files, outside, machine, history
<1>6. CASE UNCHANGED vars
  BY <1>4, <1>6 DEF vars, files, outside, machine, history
<1> QED
  BY <1>1, <1>2, <1>3, <1>5, <1>6 DEF Next, Loop, People

\* Work begins, and is credited, at the place the loop is on.
LEMMA TriedKept ==
  ASSUME TriedOK, PlaceOK, [Next]_vars
  PROVE  TriedOK'
<1> USE DEF TriedOK, PlaceOK, InJob, Steps
<1>1. CASE CommandBegins \/ BeginRefused \/ NoteFolders
  BY <1>1
     DEF CommandBegins, BeginRefused, NoteFolders, Step, files, history
<1>2. CASE NoteWaiting
  BY <1>2
     DEF NoteWaiting, Step, files, history
<1>3. CASE LookFinished
  BY <1>3
     DEF LookFinished, Step, files, history
<1>4. CASE AskStop
  BY <1>4
     DEF AskStop, files, history
<1>5. CASE RetryAppends
  BY <1>5
     DEF RetryAppends, Step, files, history
<1>6. CASE Add
  BY <1>6
     DEF Add, files, history
<1>7. CASE Advance
  BY <1>7
     DEF Advance, Step, files, history
<1>8. ASSUME UNCHANGED <<jobs, at, tried, credited, stopAt>>
      PROVE  TriedOK'
  BY <1>8
<1>9. CASE TopStops \/ TopFindsEnd \/ TopTakesArming \/ TopWorks \/ SelfStop \/ PrepCounts
           \/ PrepNotes \/ Reboot \/ CommandEnds \/ CalibrationStarts \/ ChainStarts
           \/ SessionNotStarted \/ LookStopped \/ LookRunning \/ WakeLooks \/ WakeGivesUp
           \/ RetryNotes \/ AdvancePhase \/ AdvanceBoots \/ SessionStep \/ Boot
           \/ PowerCut \/ Kill \/ StartLoop \/ ArmStop \/ DisarmStop
  BY <1>8, <1>9
     DEF TopStops, TopFindsEnd, TopTakesArming, TopWorks, SelfStop, PrepCounts,
         PrepNotes, Reboot, CommandEnds, CalibrationStarts, ChainStarts,
         SessionNotStarted, LookStopped, LookRunning, WakeLooks, WakeGivesUp,
         RetryNotes, AdvancePhase, AdvanceBoots, SessionStep, Boot, PowerCut, Kill,
         StartLoop, ArmStop, DisarmStop, SessionMakesFolder, SessionEnds, ChainStops,
         CalibrationDies, SessionDies, Without, CanHalt, files, outside, machine, history
<1>10. CASE UNCHANGED vars
  BY <1>8, <1>10 DEF vars, files, outside, machine, history
<1> QED
  BY <1>1, <1>2, <1>3, <1>4, <1>5, <1>6, <1>7, <1>9, <1>10 DEF Next, Loop, People

\* Work on the machine, when that many folders have been made.  The first
\* conjunct says that it is a record of these fields.
IsWork(s, made) ==
  /\ s = [id |-> s.id, by |-> s.by, state |-> s.state, folder |-> s.folder]
  /\ s.by \in Nat /\ s.folder \in 0..made
  /\ s.state = "measuring" => s.folder # 0

\* The folders, how many were noted, and what is at work.
FoldersOK ==
  /\ folders \in Seq([by: Nat, word: {"none", "done", "stopped"}]) /\ seen \in 0..Len(folders)
  /\ \A s \in sessions : IsWork(s, Len(folders))

\* The sessions that may yet make a folder or say the last word in theirs.
Live == {s \in sessions : s.state # "alone"}

\* New work, and what becomes of it.
LEMMA NewIsWork ==
  ASSUME NEW place \in Nat, NEW made \in Nat
  PROVE  IsWork(NewWork(place, "alone"), made) /\ IsWork(NewWork(place, "calibrating"), made)
BY DEF NewWork, IsWork

\* More folders change nothing about it.
LEMMA MoreMade ==
  ASSUME NEW s, NEW made \in Nat, NEW more \in Nat, made <= more, IsWork(s, made)
  PROVE  IsWork(s, more)
BY DEF IsWork

\* The chain is behind its calibration.
LEMMA Calibrates ==
  ASSUME NEW s, NEW made \in Nat, IsWork(s, made)
  PROVE  IsWork([s EXCEPT !.state = "calibrating"], made)
<1> DEFINE t == [id |-> s.id, by |-> s.by, state |-> "calibrating", folder |-> s.folder]
<1>1. [s EXCEPT !.state = "calibrating"] = t
  BY DEF IsWork
<1>2. IsWork(t, made)
  BY DEF IsWork
<1> QED BY <1>1, <1>2

\* The calibration is gone, and the chain waits.
LEMMA Sticks ==
  ASSUME NEW s, NEW made \in Nat, IsWork(s, made)
  PROVE  IsWork([s EXCEPT !.state = "stuck"], made)
<1> DEFINE t == [id |-> s.id, by |-> s.by, state |-> "stuck", folder |-> s.folder]
<1>1. [s EXCEPT !.state = "stuck"] = t
  BY DEF IsWork
<1>2. IsWork(t, made)
  BY DEF IsWork
<1> QED BY <1>1, <1>2

\* A new stage0.log: nobody's work changes hands, and who is at work alone still is.
LEMMA Rereads ==
  ASSUME FoldersOK
  PROVE  /\ \A s \in Rereading : IsWork(s, Len(folders))
         /\ \A s \in Rereading : \/ s \in sessions
                                 \/ \E t \in sessions : /\ s.by = t.by /\ t.state = "stuck"
                                                       /\ s.state = "calibrating"
<1>1. \A t \in sessions : IsWork(t, Len(folders)) /\ Len(folders) \in Nat
  BY DEF FoldersOK
<1>2. ASSUME NEW s \in Rereading
      PROVE  /\ IsWork(s, Len(folders))
             /\ \/ s \in sessions
                \/ \E t \in sessions : s.by = t.by /\ t.state = "stuck" /\ s.state = "calibrating"
  <2>1. PICK t \in sessions : s = IF t.state = "stuck" THEN [t EXCEPT !.state = "calibrating"] ELSE t
    BY DEF Rereading
  <2>2. CASE t.state = "stuck"
    <3>1. s = [t EXCEPT !.state = "calibrating"]
      BY <2>1, <2>2
    <3>2. s.by = t.by /\ s.state = "calibrating"
      BY <1>1, <3>1 DEF IsWork
    <3> QED BY <1>1, <2>2, <3>1, <3>2, Calibrates
  <2>3. CASE t.state # "stuck"
    BY <1>1, <2>1, <2>3
  <2> QED BY <2>2, <2>3
<1> QED BY <1>2

\* With no chain waiting it changes nothing.
LEMMA NothingRereads ==
  ASSUME Live = {}
  PROVE  Rereading = sessions
BY DEF Live, Rereading

\* It makes the next folder.
LEMMA Measures ==
  ASSUME NEW s, NEW made \in Nat, IsWork(s, made)
  PROVE  IsWork([s EXCEPT !.state = "measuring", !.folder = made + 1], made + 1)
<1> DEFINE t == [id |-> s.id, by |-> s.by, state |-> "measuring", folder |-> made + 1]
<1> DEFINE r == [id |-> s.id, by |-> s.by, state |-> s.state, folder |-> s.folder]
<1>0. s = r
  BY DEF IsWork
<1>1. [s EXCEPT !.state = "measuring", !.folder = made + 1] = t
  <2> DEFINE u == [id |-> s.id, by |-> s.by, state |-> "measuring", folder |-> s.folder]
  <2>1. [r EXCEPT !.state = "measuring"] = u
    OBVIOUS
  <2>2. [u EXCEPT !.folder = made + 1] = t
    OBVIOUS
  <2> HIDE DEF r, u
  <2>3. [r EXCEPT !.state = "measuring", !.folder = made + 1] = [[r EXCEPT !.state = "measuring"] EXCEPT !.folder = made + 1]
    OBVIOUS
  <2> QED BY <1>0, <2>1, <2>2, <2>3
<1>2. IsWork(t, made + 1)
  BY DEF IsWork
<1> QED BY <1>1, <1>2

\* An element of a sequence.
LEMMA Element ==
  ASSUME NEW S, NEW f \in Seq(S), NEW i \in 1..Len(f)
  PROVE  f[i] \in S
OBVIOUS

\* A last word in the log of a folder.
LEMMA Says ==
  ASSUME NEW f \in Seq([by: Nat, word: {"none", "done", "stopped"}]),
         NEW i \in 1..Len(f), NEW word \in {"done", "stopped"}
  PROVE  /\ [f EXCEPT ![i].word = word] \in Seq([by: Nat, word: {"none", "done", "stopped"}])
         /\ Len([f EXCEPT ![i].word = word]) = Len(f)
<1> DEFINE entry == [by |-> f[i].by, word |-> word]
<1>1. f[i] \in [by: Nat, word: {"none", "done", "stopped"}]
  BY Element
<1>2. [f[i] EXCEPT !.word = word] = entry
  BY <1>1
<1>3. [f EXCEPT ![i].word = word] = [f EXCEPT ![i] = entry]
  BY <1>2
<1>4. entry \in [by: Nat, word: {"none", "done", "stopped"}]
  BY <1>1
<1> HIDE DEF entry
<1> QED BY <1>3, <1>4

\* Every step keeps folders and sessions in shape.
LEMMA FoldersKept ==
  ASSUME FoldersOK, PlaceOK, [Next]_vars
  PROVE  FoldersOK'
<1> USE DEF FoldersOK
<1>1. CASE SelfStop \/ Reboot
  <2>1. UNCHANGED <<folders, seen>> /\ sessions' \subseteq sessions
    BY <1>1 DEF SelfStop, Reboot, files, outside
  <2> QED BY <2>1
<1>2. CASE PowerCut
  <2>1. UNCHANGED <<folders, seen>> /\ sessions' = {}
    BY <1>2 DEF PowerCut, files, outside
  <2> QED BY <2>1
<1>3. CASE NoteFolders
  <2>1. UNCHANGED <<folders, sessions>> /\ seen' = Len(folders)
    BY <1>3 DEF NoteFolders, outside
  <2> QED BY <2>1
<1>4. CASE CalibrationStarts \/ SessionNotStarted \/ Kill
  <2>1. UNCHANGED <<folders, seen>>
        /\ sessions' \subseteq sessions \union Rereading \union {NewWork(at, "alone")}
    BY <1>4 DEF CalibrationStarts, SessionNotStarted, Kill, files, outside
  <2> QED BY <2>1, NewIsWork, Rereads DEF PlaceOK
<1>5. CASE ChainStarts
  <2>1. UNCHANGED <<folders, seen>>
        /\ \A s \in sessions' : \/ s \in sessions \/ s = NewWork(at, "calibrating")
                               \/ \E t \in sessions : s = [t EXCEPT !.state = "calibrating"]
    BY <1>5 DEF ChainStarts, files
  <2> QED BY <2>1, Calibrates, NewIsWork DEF PlaceOK
<1>6. CASE SessionStep
  <2>1. UNCHANGED seen
    BY <1>6 DEF SessionStep, files
  <2>2. PICK s \in sessions : SessionMakesFolder(s) \/ SessionEnds(s) \/ ChainStops(s)
                           \/ CalibrationDies(s) \/ SessionDies(s)
    BY <1>6 DEF SessionStep
  <2>3. CASE SessionMakesFolder(s)
    <3>1. sessions' = (sessions \ {s}) \union {[s EXCEPT !.state = "measuring", !.folder = Len(folders) + 1]}
          /\ folders' = Append(folders, [by |-> s.by, word |-> "none"])
      BY <2>3 DEF SessionMakesFolder
    <3>2. s.by \in Nat
      BY DEF IsWork
    <3>3. folders' \in Seq([by: Nat, word: {"none", "done", "stopped"}]) /\ Len(folders') = Len(folders) + 1
      BY <3>1, <3>2
    <3>4. \A t \in sessions' : IsWork(t, Len(folders) + 1)
      <4>1. Len(folders) \in Nat
        OBVIOUS
      <4>2. \A t \in sessions : IsWork(t, Len(folders) + 1)
        BY <4>1, MoreMade
      <4>3. IsWork([s EXCEPT !.state = "measuring", !.folder = Len(folders) + 1], Len(folders) + 1)
        BY <4>1, Measures
      <4> QED BY <3>1, <4>2, <4>3
    <3> QED BY <2>1, <3>3, <3>4
  <2>4. CASE SessionEnds(s)
    <3>1. s.folder \in 1..Len(folders)
      BY <2>4 DEF SessionEnds, IsWork
    <3>2. PICK word \in {"done", "stopped"} : folders' = [folders EXCEPT ![s.folder].word = word]
      BY <2>4 DEF SessionEnds
    <3>3. folders' \in Seq([by: Nat, word: {"none", "done", "stopped"}]) /\ Len(folders') = Len(folders)
      BY <3>1, <3>2, Says
    <3>4. sessions' \subseteq sessions
      BY <2>4 DEF SessionEnds, Without
    <3> QED BY <2>1, <3>3, <3>4
  <2>5. CASE ChainStops(s) \/ SessionDies(s)
    <3>1. UNCHANGED folders /\ sessions' \subseteq sessions
      BY <2>5 DEF ChainStops, SessionDies, Without, outside
    <3> QED BY <2>1, <3>1
  <2>6. CASE CalibrationDies(s)
    <3>1. UNCHANGED folders /\ sessions' = (sessions \ {s}) \union {[s EXCEPT !.state = "stuck"]}
      BY <2>6 DEF CalibrationDies, outside
    <3> QED BY <2>1, <3>1, Sticks
  <2> QED BY <2>2, <2>3, <2>4, <2>5, <2>6
<1>7. ASSUME UNCHANGED <<folders, seen, sessions>>
      PROVE  FoldersOK'
  BY <1>7
<1>8. CASE TopStops \/ TopFindsEnd \/ TopTakesArming \/ TopWorks \/ PrepCounts
           \/ PrepNotes \/ CommandBegins \/ CommandEnds \/ BeginRefused
           \/ NoteWaiting \/ LookFinished \/ LookStopped
           \/ LookRunning \/ WakeLooks \/ WakeGivesUp \/ RetryNotes \/ RetryAppends
           \/ Advance \/ AdvancePhase \/ AdvanceBoots \/ Boot \/ StartLoop \/ AskStop
           \/ ArmStop \/ DisarmStop \/ Add
  BY <1>7, <1>8
     DEF TopStops, TopFindsEnd, TopTakesArming, TopWorks, PrepCounts, PrepNotes,
         CommandBegins, CommandEnds, BeginRefused, NoteWaiting,
         LookFinished, LookStopped, LookRunning, WakeLooks, WakeGivesUp, RetryNotes,
         RetryAppends, Advance, AdvancePhase, AdvanceBoots, Boot, StartLoop, AskStop,
         ArmStop, DisarmStop, Add, files, outside, machine, history
<1>9. CASE UNCHANGED vars
  BY <1>7, <1>9 DEF vars, files, outside, machine, history
<1> QED
  BY <1>1, <1>2, <1>3, <1>4, <1>5, <1>6, <1>8, <1>9 DEF Next, Loop, People

-----------------------------------------------------------------------------
(***************************************************************************)
(* A stop.                                                                 *)
(***************************************************************************)
\* While a stop is asked for, nothing begun lies past the place it was asked at,
\* and nothing about to begin: a loop at its top would see the stop.
BegunBeforeStop ==
  stopFile => (\A p \in tried : p <= stopAt) /\ (pc = "begin" => at <= stopAt)

\* Only AskStop moves stopAt, and it moves it to where the loop is.
LEMMA StopKept ==
  ASSUME TriedOK, PlaceOK, LoopOK, BegunBeforeStop, [Next]_vars
  PROVE  BegunBeforeStop'
<1> USE DEF BegunBeforeStop, TriedOK, PlaceOK
<1>1. CASE TopStops \/ TopFindsEnd \/ TopTakesArming \/ TopWorks \/ SelfStop
  BY <1>1
     DEF TopStops, TopFindsEnd, TopTakesArming, TopWorks, SelfStop, Step, files,
         history, LoopOK
<1>2. CASE PrepCounts \/ PrepNotes \/ Reboot
  BY <1>2
     DEF PrepCounts, PrepNotes, Reboot, Step, files, history, LoopOK
<1>3. CASE CommandBegins \/ BeginRefused \/ NoteFolders
  BY <1>3
     DEF CommandBegins, BeginRefused, NoteFolders, Step, files, history, LoopOK
<1>4. CASE CommandEnds \/ CalibrationStarts \/ ChainStarts \/ SessionNotStarted
  BY <1>4
     DEF CommandEnds, CalibrationStarts, ChainStarts, SessionNotStarted, Step, files,
         history, LoopOK
<1>5. CASE NoteWaiting
  BY <1>5
     DEF NoteWaiting, Step, files, history, LoopOK
<1>6. CASE LookFinished \/ LookStopped \/ LookRunning \/ WakeLooks \/ WakeGivesUp
  BY <1>6
     DEF LookFinished, LookStopped, LookRunning, WakeLooks, WakeGivesUp, Step, files,
         history, LoopOK
<1>7. CASE RetryNotes \/ RetryAppends \/ Advance \/ AdvancePhase \/ AdvanceBoots
  BY <1>7
     DEF RetryNotes, RetryAppends, Advance, AdvancePhase, AdvanceBoots, Step, files,
         history, LoopOK
<1>8. CASE Boot \/ PowerCut \/ Kill
  BY <1>8
     DEF Boot, PowerCut, Kill, CanHalt, files, history, LoopOK
<1>9. CASE StartLoop
  BY <1>9
     DEF StartLoop, files, history, LoopOK
<1>10. CASE AskStop
  BY <1>10
     DEF AskStop, files, history, LoopOK
<1>11. ASSUME UNCHANGED <<stopFile, tried, stopAt, pc, at>>
      PROVE  BegunBeforeStop'
  BY <1>11
<1>12. CASE SessionStep \/ ArmStop \/ DisarmStop \/ Add
  BY <1>11, <1>12
     DEF SessionStep, ArmStop, DisarmStop, Add, SessionMakesFolder, SessionEnds,
         ChainStops, CalibrationDies, SessionDies, Without, files, outside, machine, history
<1>13. CASE UNCHANGED vars
  BY <1>11, <1>13 DEF vars, files, outside, machine, history
<1> QED
  BY <1>1, <1>2, <1>3, <1>4, <1>5, <1>6, <1>7, <1>8, <1>9, <1>10, <1>12, <1>13 DEF Next, Loop, People

-----------------------------------------------------------------------------
(***************************************************************************)
(* The pair turning itself off.                                            *)
(***************************************************************************)
\* Each arming is taken, waits, or has been spent on a stop.
ArmedOrSpent ==
  Count("selfstop") + (IF armed THEN 1 ELSE 0) + (IF pc = "selfstop" THEN 1 ELSE 0) <= Count("arm")

\* The counts are numbers.
LEMMA CountsAreNumbers ==
  ASSUME UsedOK
  PROVE  Count("selfstop") \in Nat /\ Count("arm") \in Nat /\ Count("halt") \in Nat
BY DEF UsedOK, Count

\* Taking the arming, and then stopping, spends one; a halt in between loses it.
LEMMA ArmedKept ==
  ASSUME UsedOK, LoopOK, FlagsOK, ArmedOrSpent, [Next]_vars
  PROVE  ArmedOrSpent'
<1> USE CountsAreNumbers DEF ArmedOrSpent, FlagsOK
<1>1. CASE TopStops \/ TopFindsEnd \/ TopWorks
  BY <1>1
     DEF TopStops, TopFindsEnd, TopWorks, Step, files, history, Count, LoopOK
<1>2. CASE TopTakesArming
  BY <1>2
     DEF TopTakesArming, Step, files, history, Count, LoopOK
<1>3. CASE PrepCounts \/ PrepNotes \/ Reboot
  BY <1>3
     DEF PrepCounts, PrepNotes, Reboot, Step, files, history, Count, LoopOK
<1>4. CASE CommandBegins \/ CommandEnds \/ BeginRefused \/ NoteFolders
           \/ CalibrationStarts \/ ChainStarts \/ SessionNotStarted
  BY <1>4
     DEF CommandBegins, CommandEnds, BeginRefused, NoteFolders, CalibrationStarts,
         ChainStarts, SessionNotStarted, Step, files, history, Count, LoopOK
<1>5. CASE NoteWaiting
  BY <1>5
     DEF NoteWaiting, Step, files, history, Count, LoopOK
<1>6. CASE LookFinished \/ LookStopped \/ LookRunning \/ WakeLooks \/ WakeGivesUp
  BY <1>6
     DEF LookFinished, LookStopped, LookRunning, WakeLooks, WakeGivesUp, Step, files,
         history, Count, LoopOK
<1>7. CASE RetryNotes \/ RetryAppends \/ Advance \/ AdvancePhase \/ AdvanceBoots
  BY <1>7
     DEF RetryNotes, RetryAppends, Advance, AdvancePhase, AdvanceBoots, Step, files,
         history, Count, LoopOK
<1>8. CASE Boot \/ StartLoop
  BY <1>8
     DEF Boot, StartLoop, files, history, Count, LoopOK
<1>9. CASE SelfStop
  <2>1. pc = "selfstop" /\ pc' = "off" /\ UNCHANGED armed /\ (Used("selfstop") \/ UNCHANGED used)
    BY <1>9 DEF SelfStop, Step, files
  <2>2. Count("selfstop")' <= Count("selfstop") + 1 /\ Count("selfstop")' \in Nat /\ Count("arm")' = Count("arm")
    BY <2>1, Counting DEF Count
  <2> QED BY <2>1, <2>2
<1>10. CASE PowerCut \/ Kill
  <2>1. pc' = "off" /\ UNCHANGED armed /\ Used("halt")
    BY <1>10 DEF PowerCut, Kill, CanHalt, files
  <2>2. Count("selfstop")' = Count("selfstop") /\ Count("arm")' = Count("arm")
    BY <2>1, Counting
  <2> QED BY <2>1, <2>2
<1>11. CASE AskStop
  <2>1. UNCHANGED <<armed, pc>> /\ Used("stop")
    BY <1>11 DEF AskStop, machine
  <2>2. Count("selfstop")' = Count("selfstop") /\ Count("arm")' = Count("arm")
    BY <2>1, Counting
  <2> QED BY <2>1, <2>2
<1>12. CASE ArmStop
  <2>1. armed' = TRUE /\ UNCHANGED pc /\ Used("arm")
    BY <1>12 DEF ArmStop, machine
  <2>2. Count("selfstop")' = Count("selfstop") /\ Count("arm")' = Count("arm") + 1
    BY <2>1, Counting
  <2> QED BY <2>1, <2>2
<1>13. CASE DisarmStop
  <2>1. armed' = FALSE /\ UNCHANGED <<pc, used>>
    BY <1>13 DEF DisarmStop, machine, history
  <2> QED BY <2>1 DEF Count
<1>14. ASSUME UNCHANGED <<armed, pc, used>>
      PROVE  ArmedOrSpent'
  BY <1>14 DEF Count
<1>15. CASE SessionStep \/ Add
  BY <1>14, <1>15
     DEF SessionStep, Add, SessionMakesFolder, SessionEnds, ChainStops, SessionDies,
         Without, files, outside, machine, history
<1>16. CASE UNCHANGED vars
  BY <1>14, <1>16 DEF vars, files, outside, machine, history
<1> QED
  BY <1>1, <1>2, <1>3, <1>4, <1>5, <1>6, <1>7, <1>8, <1>9, <1>10, <1>11, <1>12, <1>13,
     <1>15, <1>16 DEF Next, Loop, People

-----------------------------------------------------------------------------
(***************************************************************************)
(* Going past a job.                                                       *)
(***************************************************************************)
\* Before a second halt: every place the loop has passed was tried, and the one
\* it is on once it waits there or is about to leave.
TriedSoFar ==
  Count("halt") < 2 =>
    /\ \A p \in 1..(at - 1) : p \in tried
    /\ phase = "waiting" /\ pc # "advancePhase" => at \in tried
    /\ pc \in {"command", "calibration", "chain", "started", "look", "sleep", "retry",
               "append", "advance"} => at \in tried

\* The count of boots passes 2 after two halts only, and only that leaves a job
\* from its prep.
LEMMA TriedSoFarKept ==
  ASSUME ~Torn, UsedOK, LoopOK, PlaceOK, BootsOK, TriedSoFar, [Next]_vars
  PROVE  TriedSoFar'
<1> USE DEF TriedSoFar
<1>1. CASE PowerCut \/ Kill
  <2>1. UNCHANGED <<at, phase, tried>> /\ pc' = "off" /\ Used("halt") /\ pc # "advancePhase"
    BY <1>1 DEF PowerCut, Kill, CanHalt, files
  <2>2. Count("halt")' = Count("halt") + 1
    BY <2>1, Counting
  <2> QED BY <2>1, <2>2, CountsAreNumbers
<1>2. CASE PrepCounts
  <2>1. pc = "prep" /\ phase = "prep" /\ UNCHANGED <<at, phase, tried>> /\ Count("halt")' = Count("halt")
        /\ pc' = IF boots + 1 > 2 THEN "advance" ELSE "ask"
    BY <1>2 DEF PrepCounts, Step, LoopOK, history, Count
  <2>2. boots \in Nat /\ boots <= Count("halt")
    BY <2>1, CountsAreNumbers DEF BootsOK
  <2> QED BY <2>1, <2>2, CountsAreNumbers
<1>3. CASE Advance
  <2>1. pc = "advance" /\ pc' = "advancePhase" /\ at' = at + 1 /\ UNCHANGED tried /\ Count("halt")' = Count("halt")
    BY <1>3 DEF Advance, Step, history, Count
  <2>2. at \in Nat
    BY DEF PlaceOK
  <2> QED BY <2>1, <2>2
<1>4. CASE SelfStop
  <2>1. pc = "selfstop" /\ pc' = "off" /\ UNCHANGED <<at, phase, tried>> /\ (Used("selfstop") \/ UNCHANGED used)
    BY <1>4 DEF SelfStop, Step, files
  <2>2. Count("halt")' = Count("halt")
    BY <2>1, Counting DEF Count
  <2> QED BY <2>1, <2>2
<1>5. CASE AskStop
  <2>1. UNCHANGED <<pc, at, phase, tried>> /\ Used("stop")
    BY <1>5 DEF AskStop, machine
  <2>2. Count("halt")' = Count("halt")
    BY <2>1, Counting
  <2> QED BY <2>1, <2>2
<1>6. CASE ArmStop
  <2>1. UNCHANGED <<pc, at, phase, tried>> /\ Used("arm")
    BY <1>6 DEF ArmStop, machine
  <2>2. Count("halt")' = Count("halt")
    BY <2>1, Counting
  <2> QED BY <2>1, <2>2
<1>7. CASE TopStops \/ TopFindsEnd \/ TopTakesArming \/ TopWorks
  BY <1>7
     DEF TopStops, TopFindsEnd, TopTakesArming, TopWorks, Step, files, history, Count,
         LoopOK, PlaceOK
<1>8. CASE PrepNotes \/ Reboot
  BY <1>8
     DEF PrepNotes, Reboot, Step, files, history, Count, LoopOK, PlaceOK
<1>9. CASE CommandBegins \/ BeginRefused \/ NoteFolders
  BY <1>9
     DEF CommandBegins, BeginRefused, NoteFolders, Step, files, history, Count, LoopOK,
         PlaceOK
<1>10. CASE CommandEnds \/ CalibrationStarts \/ ChainStarts \/ SessionNotStarted
  BY <1>10
     DEF CommandEnds, CalibrationStarts, ChainStarts, SessionNotStarted, Step, files,
         history, Count, LoopOK, PlaceOK
<1>11. CASE NoteWaiting
  BY <1>11
     DEF NoteWaiting, Step, files, history, Count, LoopOK, PlaceOK
<1>12. CASE LookFinished \/ LookStopped \/ LookRunning \/ WakeLooks \/ WakeGivesUp
  BY <1>12
     DEF LookFinished, LookStopped, LookRunning, WakeLooks, WakeGivesUp, Step, files,
         history, Count, LoopOK, PlaceOK
<1>13. CASE RetryNotes \/ RetryAppends \/ AdvancePhase \/ AdvanceBoots
  BY <1>13
     DEF RetryNotes, RetryAppends, AdvancePhase, AdvanceBoots, Step, files, history,
         Count, LoopOK, PlaceOK
<1>14. CASE Boot \/ StartLoop
  BY <1>14
     DEF Boot, StartLoop, files, history, Count, LoopOK, PlaceOK
<1>15. ASSUME UNCHANGED <<at, phase, pc, tried, used>>
      PROVE  TriedSoFar'
  BY <1>15 DEF Count
<1>16. CASE SessionStep \/ DisarmStop \/ Add
  BY <1>15, <1>16
     DEF SessionStep, DisarmStop, Add, SessionMakesFolder, SessionEnds, ChainStops,
         CalibrationDies, SessionDies, Without, files, outside, machine, history
<1>17. CASE UNCHANGED vars
  BY <1>15, <1>17 DEF vars, files, outside, machine, history
<1> QED
  BY <1>1, <1>2, <1>3, <1>4, <1>5, <1>6, <1>7, <1>8, <1>9, <1>10, <1>11, <1>12, <1>13,
     <1>14, <1>16, <1>17 DEF Next, Loop, People

-----------------------------------------------------------------------------
(***************************************************************************)
(* Putting a line back.                                                    *)
(***************************************************************************)
\* The list holds the line twice at most.
AtMostTwice(q, line) ==
  \E a, b \in 1..Len(q) : \A p \in 1..Len(q) : q[p] = line => p \in {a, b}

\* A line that has not been noted is there once, and so is the one that was just
\* noted and is about to be put back.
LinesOnce ==
  /\ \A p, q \in 1..Len(jobs) : jobs[p] = jobs[q] /\ jobs[p] \notin retried => p = q
  /\ pc = "append" =>
       /\ jobs[at] \in retried
       /\ \A p \in 1..Len(jobs) : jobs[p] = jobs[at] => p = at
  /\ \A r \in 1..Len(jobs) : AtMostTwice(jobs, jobs[r])

\* Append, by places.
LEMMA OneMore ==
  ASSUME NEW S, NEW q \in Seq(S), NEW line \in S
  PROVE  /\ Len(Append(q, line)) = Len(q) + 1
         /\ \A p \in 1..Len(q) : Append(q, line)[p] = q[p]
         /\ Append(q, line)[Len(q) + 1] = line
OBVIOUS

\* Another line at the end changes nothing for this one.
LEMMA StillTwice ==
  ASSUME NEW S, NEW q \in Seq(S), NEW line \in S, NEW other \in S, other # line, AtMostTwice(q, other)
  PROVE  AtMostTwice(Append(q, line), other)
<1>1. PICK a \in 1..Len(q), b \in 1..Len(q) : \A p \in 1..Len(q) : q[p] = other => p \in {a, b}
  BY DEF AtMostTwice
<1>2. ASSUME NEW p \in 1..Len(Append(q, line)), Append(q, line)[p] = other
      PROVE  p \in {a, b}
  BY <1>1, <1>2, OneMore
<1>3. a \in 1..Len(Append(q, line)) /\ b \in 1..Len(Append(q, line))
  BY OneMore
<1> QED BY <1>2, <1>3, Zenon DEF AtMostTwice

\* A line that was there once is there twice.
LEMMA NowTwice ==
  ASSUME NEW S, NEW q \in Seq(S), NEW line \in S, NEW a \in 1..Len(q),
         \A p \in 1..Len(q) : q[p] = line => p = a
  PROVE  AtMostTwice(Append(q, line), line)
<1>1. ASSUME NEW p \in 1..Len(Append(q, line)), Append(q, line)[p] = line
      PROVE  p \in {a, Len(q) + 1}
  BY <1>1, OneMore
<1>2. a \in 1..Len(Append(q, line)) /\ Len(q) + 1 \in 1..Len(Append(q, line))
  BY OneMore
<1> QED BY <1>1, <1>2, Zenon DEF AtMostTwice

\* A line that was not there is there once.
LEMMA FirstTime ==
  ASSUME NEW S, NEW q \in Seq(S), NEW line \in S, line \notin ToSet(q)
  PROVE  AtMostTwice(Append(q, line), line)
<1>1. ASSUME NEW p \in 1..Len(Append(q, line)), Append(q, line)[p] = line
      PROVE  p \in {Len(q) + 1}
  <2>1. q[p] \in ToSet(q) \/ p \notin 1..Len(q)
    BY DEF ToSet
  <2> QED BY <1>1, <2>1, OneMore
<1>2. Len(q) + 1 \in 1..Len(Append(q, line))
  BY OneMore
<1> QED BY <1>1, <1>2, Zenon DEF AtMostTwice

\* A line is noted before it is put back, so it is put back once; what is added
\* from outside is not on the list yet.
LEMMA LinesKept ==
  ASSUME PlaceOK, LoopOK, LinesOnce, [Next]_vars
  PROVE  LinesOnce'
<1> USE Bounds
<1>1. CASE RetryNotes
  <2>1. /\ UNCHANGED <<jobs, at>> /\ retried' = retried \union {jobs[at]}
        /\ pc' = "append" => jobs[at] \notin retried
    BY <1>1 DEF RetryNotes, Step, JobInHand
  <2>2. at \in 1..Len(jobs)
    BY <1>1 DEF RetryNotes, Step, PlaceOK, InJob, Steps
  <2> QED BY <2>1, <2>2 DEF LinesOnce
<1>2. CASE RetryAppends
  <2>1. jobs' = Append(jobs, jobs[at]) /\ UNCHANGED <<at, retried>> /\ pc = "append" /\ pc' = "advance"
    BY <1>2 DEF RetryAppends, Step, JobInHand
  <2>2. jobs \in Seq(Job) /\ at \in 1..Len(jobs)
    BY <2>1 DEF PlaceOK, InJob, Steps
  <2>3. jobs[at] \in Job /\ Len(jobs) \in Nat
    BY <2>2
  <2>4. /\ Len(jobs') = Len(jobs) + 1 /\ jobs'[Len(jobs) + 1] = jobs[at]
        /\ \A p \in 1..Len(jobs) : jobs'[p] = jobs[p]
    BY <2>1, <2>2, <2>3, OneMore
  <2>5. ASSUME NEW p \in 1..Len(jobs'), NEW q \in 1..Len(jobs'), jobs'[p] = jobs'[q], jobs'[p] \notin retried
        PROVE  p = q
    BY <2>1, <2>3, <2>4, <2>5 DEF LinesOnce
  <2>6. ASSUME NEW r \in 1..Len(jobs')
        PROVE  AtMostTwice(jobs', jobs'[r])
    <3>1. CASE jobs'[r] = jobs[at]
      BY <2>1, <2>2, <2>3, <3>1, NowTwice DEF LinesOnce
    <3>2. CASE jobs'[r] # jobs[at]
      <4>1. r \in 1..Len(jobs) /\ jobs'[r] = jobs[r] /\ jobs[r] \in Job
        BY <2>2, <2>3, <2>4, <3>2
      <4> QED BY <2>1, <2>2, <2>3, <3>2, <4>1, StillTwice DEF LinesOnce
    <3> QED BY <3>1, <3>2
  <2> QED BY <2>1, <2>5, <2>6 DEF LinesOnce
<1>3. CASE Add
  <2>1. PICK job \in Extra \ ToSet(jobs) : jobs' = Append(jobs, job)
    BY <1>3 DEF Add
  <2>2. UNCHANGED <<at, retried, pc>>
    BY <1>3 DEF Add, machine
  <2>3. jobs \in Seq(Job) /\ job \in Job /\ Len(jobs) \in Nat
    BY <2>1 DEF PlaceOK
  <2>4. /\ Len(jobs') = Len(jobs) + 1 /\ jobs'[Len(jobs) + 1] = job
        /\ \A p \in 1..Len(jobs) : jobs'[p] = jobs[p] /\ jobs[p] # job
    <3>1. \A p \in 1..Len(jobs) : jobs[p] \in ToSet(jobs)
      BY <2>3 DEF ToSet
    <3> QED BY <2>1, <2>3, <3>1, OneMore
  <2>5. ASSUME NEW p \in 1..Len(jobs'), NEW q \in 1..Len(jobs'), jobs'[p] = jobs'[q], jobs'[p] \notin retried
        PROVE  p = q
    BY <2>3, <2>4, <2>5 DEF LinesOnce
  <2>6. ASSUME pc = "append"
        PROVE  jobs'[at] \in retried /\ \A p \in 1..Len(jobs') : jobs'[p] = jobs'[at] => p = at
    <3>1. at \in 1..Len(jobs)
      BY <2>6 DEF PlaceOK, InJob, Steps
    <3> QED BY <2>3, <2>4, <2>6, <3>1 DEF LinesOnce
  <2>7. ASSUME NEW r \in 1..Len(jobs')
        PROVE  AtMostTwice(jobs', jobs'[r])
    <3>1. CASE r = Len(jobs) + 1
      BY <2>1, <2>3, <2>4, <3>1, FirstTime
    <3>2. CASE r \in 1..Len(jobs)
      <4>1. jobs'[r] = jobs[r] /\ jobs[r] \in Job /\ jobs[r] # job
        BY <2>3, <2>4, <3>2
      <4> QED BY <2>1, <2>3, <3>2, <4>1, StillTwice DEF LinesOnce
    <3> QED BY <2>3, <2>4, <3>1, <3>2
  <2> QED BY <2>2, <2>5, <2>6, <2>7 DEF LinesOnce
<1>4. CASE TopStops \/ TopFindsEnd \/ TopTakesArming \/ TopWorks \/ SelfStop
  BY <1>4
     DEF TopStops, TopFindsEnd, TopTakesArming, TopWorks, SelfStop, Step, files,
         LinesOnce, LoopOK
<1>5. CASE PrepCounts \/ PrepNotes \/ Reboot
  BY <1>5
     DEF PrepCounts, PrepNotes, Reboot, Step, files, LinesOnce, LoopOK
<1>6. CASE CommandBegins \/ CommandEnds \/ BeginRefused \/ NoteFolders
           \/ CalibrationStarts \/ ChainStarts \/ SessionNotStarted
  BY <1>6
     DEF CommandBegins, CommandEnds, BeginRefused, NoteFolders, CalibrationStarts,
         ChainStarts, SessionNotStarted, Step, files, LinesOnce, LoopOK
<1>7. CASE NoteWaiting
  BY <1>7
     DEF NoteWaiting, Step, files, LinesOnce, LoopOK
<1>8. CASE LookFinished \/ LookStopped \/ LookRunning \/ WakeLooks \/ WakeGivesUp
  BY <1>8
     DEF LookFinished, LookStopped, LookRunning, WakeLooks, WakeGivesUp, Step, files,
         LinesOnce, LoopOK
<1>9. CASE Advance \/ AdvancePhase \/ AdvanceBoots
  BY <1>9
     DEF Advance, AdvancePhase, AdvanceBoots, Step, files, LinesOnce, LoopOK
<1>10. CASE Boot \/ PowerCut \/ Kill \/ StartLoop
  BY <1>10
     DEF Boot, PowerCut, Kill, StartLoop, CanHalt, files, LinesOnce, LoopOK
<1>11. ASSUME UNCHANGED <<jobs, at, retried, pc>>
      PROVE  LinesOnce'
  BY <1>11 DEF LinesOnce
<1>12. CASE SessionStep \/ AskStop \/ ArmStop \/ DisarmStop
  BY <1>11, <1>12
     DEF SessionStep, AskStop, ArmStop, DisarmStop, SessionMakesFolder, SessionEnds,
         ChainStops, CalibrationDies, SessionDies, Without, files, outside, machine, history
<1>13. CASE UNCHANGED vars
  BY <1>11, <1>13 DEF vars, files, outside, machine, history
<1> QED
  BY <1>1, <1>2, <1>3, <1>4, <1>5, <1>6, <1>7, <1>8, <1>9, <1>10, <1>12, <1>13 DEF Next, Loop, People

-----------------------------------------------------------------------------
(***************************************************************************)
(* Whose word a job is credited on.                                        *)
(***************************************************************************)
\* The job in hand has a session of its own.
OnBlock == at <= Len(jobs) /\ jobs[at].kind = "block"

\* Every session has a boot of its own.
BlocksReboot == \A i \in 1..Len(jobs) : jobs[i].kind = "block" => jobs[i].reboots

\* Where the loop stands in a job, by the job's phase and kind.
StageOK ==
  /\ pc \in {"reboot", "begin", "command", "calibration", "chain", "started"} => phase = "booted"
  /\ pc \in {"look", "sleep"} => phase = "waiting"
  /\ pc = "command" => jobs[at].kind = "command"
  /\ pc \in {"calibration", "chain", "started"} => jobs[at].kind = "block"
  /\ at > Len(jobs) /\ pc # "advancePhase" => phase = "prep"

\* Before a halt a session lives while the loop waits for it: one somebody began
\* by hand, or the only one of the job in hand, which has said nothing yet.
Leaving == {"retry", "append", "advance", "advancePhase", "advanceBoots"}

ByHand(s) == s.by = 0 /\ at = 1 /\ at <= Len(jobs) /\ jobs[at].kind = "wait" /\ pc \notin Leaving

WaitedFor(s) ==
  /\ s.by = at /\ OnBlock
  /\ pc = "started" \/ (phase = "waiting" /\ pc \in {"top", "look", "sleep", "off"})
  /\ ~chainSays /\ Spoken = {}

Unhalted ==
  Count("halt") = 0 =>
    /\ \A s \in sessions : s.by <= at
    /\ \A s, t \in sessions : s.by = at /\ t.by = at => s = t
    /\ \A s \in sessions : s.by = at /\ s.state = "alone" =>
         pc \in {"chain", "retry", "append", "advance"}
    /\ \A s \in Live : ByHand(s) \/ WaitedFor(s)
    /\ pc \in {"calibration", "chain"} => Spoken = {}

\* Once a job with a session has had its boot, what lives is its own ...
LiveOwn ==
  OnBlock /\ phase \in {"booted", "waiting"} /\ pc \notin {"reboot", "advancePhase"} =>
    \A s \in Live : s.by = at

\* ... and so is every folder that was not there when it began.
Noted == pc \in {"calibration", "chain", "started"} \/ (phase = "waiting" /\ pc # "advancePhase")

FoldersOwn == OnBlock /\ Noted => \A i \in (seen + 1)..Len(folders) : folders[i].by = at

\* What stands on the list stays there.
LEMMA ListGrows ==
  ASSUME PlaceOK, [Next]_vars
  PROVE  /\ Len(jobs) \in Nat /\ Len(jobs') \in Nat /\ Len(jobs) <= Len(jobs')
         /\ \A i \in 1..Len(jobs) : jobs'[i] = jobs[i]
         /\ \A i \in 1..Len(jobs') :
              jobs'[i] \in Extra \/ \E j \in 1..Len(jobs) : jobs'[i] = jobs[j]
<1> USE Bounds
<1>1. jobs \in Seq(Job) /\ Len(jobs) \in Nat
  BY DEF PlaceOK
<1>2. ASSUME NEW job \in Job, jobs' = Append(jobs, job),
             job \in Extra \/ \E j \in 1..Len(jobs) : job = jobs[j]
      PROVE  /\ Len(jobs') \in Nat /\ Len(jobs) <= Len(jobs')
             /\ \A i \in 1..Len(jobs) : jobs'[i] = jobs[i]
             /\ \A i \in 1..Len(jobs') :
                  jobs'[i] \in Extra \/ \E j \in 1..Len(jobs) : jobs'[i] = jobs[j]
  <2>1. Len(jobs') = Len(jobs) + 1 /\ jobs'[Len(jobs) + 1] = job
        /\ \A p \in 1..Len(jobs) : jobs'[p] = jobs[p]
    BY <1>1, <1>2, OneMore
  <2>2. \A i \in 1..Len(jobs') : i \in 1..Len(jobs) \/ i = Len(jobs) + 1
    BY <1>1, <2>1
  <2> QED BY <1>1, <1>2, <2>1, <2>2
<1>3. CASE RetryAppends
  <2>1. at \in 1..Len(jobs) /\ jobs' = Append(jobs, jobs[at])
    BY <1>3 DEF RetryAppends, Step, JobInHand, PlaceOK, InJob, Steps
  <2>2. jobs[at] \in Job
    BY <1>1, <2>1, Element
  <2> QED BY <1>1, <1>2, <2>1, <2>2
<1>4. CASE Add
  <2>1. PICK job \in Extra : jobs' = Append(jobs, job)
    BY <1>4 DEF Add
  <2> QED BY <1>1, <1>2, <2>1
<1>5. ASSUME UNCHANGED jobs
      PROVE  /\ Len(jobs') \in Nat /\ Len(jobs) <= Len(jobs')
             /\ \A i \in 1..Len(jobs) : jobs'[i] = jobs[i]
             /\ \A i \in 1..Len(jobs') :
                  jobs'[i] \in Extra \/ \E j \in 1..Len(jobs) : jobs'[i] = jobs[j]
  BY <1>1, <1>5
<1>6. CASE TopStops \/ TopFindsEnd \/ TopTakesArming \/ TopWorks \/ SelfStop \/ PrepCounts
           \/ PrepNotes \/ Reboot \/ CommandBegins \/ CommandEnds \/ BeginRefused
           \/ NoteFolders \/ CalibrationStarts \/ ChainStarts \/ SessionNotStarted
           \/ NoteWaiting \/ LookFinished \/ LookStopped \/ LookRunning \/ WakeLooks
           \/ WakeGivesUp \/ RetryNotes \/ Advance \/ AdvancePhase \/ AdvanceBoots
           \/ SessionStep \/ Boot \/ PowerCut \/ Kill \/ StartLoop \/ AskStop \/ ArmStop
           \/ DisarmStop
  <2>1. UNCHANGED jobs
    BY <1>6
       DEF TopStops, TopFindsEnd, TopTakesArming, TopWorks, SelfStop, PrepCounts,
           PrepNotes, Reboot, CommandBegins, CommandEnds, BeginRefused, NoteFolders,
           CalibrationStarts, ChainStarts, SessionNotStarted, NoteWaiting, LookFinished,
           LookStopped, LookRunning, WakeLooks, WakeGivesUp, RetryNotes, Advance,
           AdvancePhase, AdvanceBoots, SessionStep, Boot, PowerCut, Kill, StartLoop,
           AskStop, ArmStop, DisarmStop, CanHalt, files
  <2> QED BY <1>1, <1>5, <2>1
<1>7. CASE UNCHANGED vars
  BY <1>1, <1>5, <1>7 DEF vars, files
<1> QED
  BY <1>3, <1>4, <1>6, <1>7 DEF Next, Loop, People

\* The same job is in hand when its place is the same.
LEMMA SameJob ==
  ASSUME PlaceOK, [Next]_vars, UNCHANGED at
  PROVE  /\ at <= Len(jobs) => at <= Len(jobs') /\ jobs'[at] = jobs[at]
         /\ at > Len(jobs') => at > Len(jobs)
         /\ OnBlock => OnBlock'
         /\ at <= Len(jobs) => (OnBlock' <=> OnBlock)
<1>1. at \in Nat /\ at >= 1
  BY DEF PlaceOK
<1>2. at <= Len(jobs) => at <= Len(jobs') /\ jobs'[at] = jobs[at]
  BY <1>1, ListGrows
<1>3. at > Len(jobs') => at > Len(jobs)
  BY <1>1, ListGrows
<1> QED BY <1>2, <1>3 DEF OnBlock

\* No session is put on the list without a boot of its own.
LEMMA BlocksRebootKept ==
  ASSUME \A job \in Extra : job.kind = "block" => job.reboots,
         PlaceOK, BlocksReboot, [Next]_vars
  PROVE  BlocksReboot'
<1> SUFFICES ASSUME NEW i \in 1..Len(jobs'), jobs'[i].kind = "block"
             PROVE  jobs'[i].reboots
  BY DEF BlocksReboot
<1>1. jobs'[i] \in Extra \/ \E j \in 1..Len(jobs) : jobs'[i] = jobs[j]
  BY ListGrows
<1> QED BY <1>1 DEF BlocksReboot

\* Every step leaves the loop where the job's phase and kind have it.
LEMMA StageKept ==
  ASSUME ~Torn, PlaceOK, LoopOK, StageOK, [Next]_vars
  PROVE  StageOK'
<1>1. at \in Nat /\ Len(jobs) \in Nat /\ (pc \in InJob => at <= Len(jobs))
  BY ListGrows DEF PlaceOK
<1>2. /\ UNCHANGED at => (at <= Len(jobs) => jobs'[at] = jobs[at])
      /\ UNCHANGED at => (at > Len(jobs') => at > Len(jobs))
  BY SameJob
<1> USE DEF StageOK, InJob, Steps
<1>3. CASE TopStops \/ TopFindsEnd \/ TopTakesArming \/ TopWorks \/ SelfStop
  BY <1>1, <1>2, <1>3
     DEF TopStops, TopFindsEnd, TopTakesArming, TopWorks, SelfStop, Step, files, LoopOK
<1>4. CASE PrepCounts \/ PrepNotes \/ Reboot
  BY <1>1, <1>2, <1>4 DEF PrepCounts, PrepNotes, Reboot, Step, files, LoopOK
<1>5. CASE CommandBegins \/ BeginRefused \/ NoteFolders
  BY <1>1, <1>2, <1>5 DEF CommandBegins, BeginRefused, NoteFolders, Step, files, JobInHand
<1>6. CASE CommandEnds \/ CalibrationStarts \/ ChainStarts \/ SessionNotStarted
  BY <1>1, <1>2, <1>6
     DEF CommandEnds, CalibrationStarts, ChainStarts, SessionNotStarted, Step, files
<1>7. CASE NoteWaiting
  BY <1>1, <1>2, <1>7 DEF NoteWaiting, Step, files
<1>8. CASE LookFinished \/ LookStopped \/ LookRunning \/ WakeLooks \/ WakeGivesUp
  BY <1>1, <1>2, <1>8
     DEF LookFinished, LookStopped, LookRunning, WakeLooks, WakeGivesUp, Step, files
<1>9. CASE RetryNotes \/ RetryAppends
  BY <1>1, <1>2, <1>9 DEF RetryNotes, RetryAppends, Step, files
<1>10. CASE Advance
  BY <1>10 DEF Advance, Step
<1>11. CASE AdvancePhase \/ AdvanceBoots
  BY <1>1, <1>2, <1>11 DEF AdvancePhase, AdvanceBoots, Step, files
<1>12. CASE Boot \/ PowerCut \/ Kill \/ StartLoop
  BY <1>1, <1>2, <1>12 DEF Boot, PowerCut, Kill, StartLoop, CanHalt, files, LoopOK
<1>13. CASE SessionStep \/ AskStop \/ ArmStop \/ DisarmStop \/ Add
  <2>1. UNCHANGED <<at, pc, phase>>
    BY <1>13 DEF SessionStep, AskStop, ArmStop, DisarmStop, Add, files, machine
  <2> QED BY <1>1, <1>2, <2>1
<1>14. CASE UNCHANGED vars
  BY <1>14 DEF vars, files, machine
<1> QED
  BY <1>3, <1>4, <1>5, <1>6, <1>7, <1>8, <1>9, <1>10, <1>11, <1>12, <1>13, <1>14
     DEF Next, Loop, People

\* What a session's step does to the sessions and the folders.
LEMMA SessionSteps ==
  ASSUME FoldersOK, SessionStep
  PROVE  /\ UNCHANGED <<at, pc, phase, seen, jobs, used>>
         /\ \E s \in sessions :
              \/ /\ s \in Live /\ chainSays' = chainSays
                 /\ Len(folders') = Len(folders) + 1 /\ Spoken' = Spoken
                 /\ \A i \in 1..Len(folders) : folders'[i] = folders[i]
                 /\ folders'[Len(folders) + 1].by = s.by
                 /\ \E t : sessions' = (sessions \ {s}) \union {t} /\ t.by = s.by /\ t.state = "measuring"
              \/ /\ s \in Live /\ chainSays' = chainSays /\ folders' = folders
                 /\ \E t : sessions' = (sessions \ {s}) \union {t} /\ t.by = s.by /\ t.state = "stuck"
              \/ /\ s \in Live /\ sessions' = sessions \ {s}
                 /\ Len(folders') = Len(folders)
                 /\ \A i \in 1..Len(folders) : folders'[i].by = folders[i].by
              \/ /\ sessions' = sessions \ {s} /\ folders' = folders /\ chainSays' = chainSays
<1>1. UNCHANGED <<at, pc, phase, seen, jobs, used>>
  BY DEF SessionStep, files, history
<1>2. PICK s \in sessions : SessionMakesFolder(s) \/ SessionEnds(s) \/ ChainStops(s)
                           \/ CalibrationDies(s) \/ SessionDies(s)
  BY DEF SessionStep
<1>3. folders \in Seq([by: Nat, word: {"none", "done", "stopped"}]) /\ Len(folders) \in Nat
      /\ seen \in 0..Len(folders) /\ IsWork(s, Len(folders))
  BY DEF FoldersOK
<1>4. CASE SessionMakesFolder(s)
  <2> DEFINE n == Len(folders) + 1
             entry == [by |-> s.by, word |-> "none"]
             t == [s EXCEPT !.state = "measuring", !.folder = n]
  <2>1. folders' = Append(folders, entry) /\ chainSays' = chainSays /\ s.state = "calibrating"
        /\ sessions' = (sessions \ {s}) \union {t}
    BY <1>4 DEF SessionMakesFolder
  <2>2. t.by = s.by /\ t.state = "measuring"
    BY <1>3 DEF IsWork
  <2>3. entry \in [by: Nat, word: {"none", "done", "stopped"}] /\ entry.word = "none" /\ entry.by = s.by
    BY <1>3 DEF IsWork
  <2> HIDE DEF entry, t
  <2>4. Len(folders') = n /\ folders'[n] = entry /\ \A i \in 1..Len(folders) : folders'[i] = folders[i]
    BY <1>3, <2>1, <2>3, OneMore
  <2>5. Spoken' = Spoken
    <3>1. \A i \in (seen + 1)..n : i \in 1..Len(folders) \/ i = n
      BY <1>3
    <3>2. \A i : i \in (seen + 1)..n /\ folders'[i].word # "none" <=>
                 i \in (seen + 1)..Len(folders) /\ folders[i].word # "none"
      BY <1>3, <2>3, <2>4, <3>1
    <3>3. Spoken' = {i \in (seen + 1)..n : folders'[i].word # "none"}
      BY <1>1, <2>4 DEF Spoken
    <3> HIDE DEF n
    <3> QED BY <3>2, <3>3 DEF Spoken
  <2>6. s \in Live
    BY <2>1 DEF Live
  <2> QED BY <1>1, <2>1, <2>2, <2>3, <2>4, <2>5, <2>6
<1>5. CASE SessionEnds(s)
  <2>1. PICK word \in {"done", "stopped"} : folders' = [folders EXCEPT ![s.folder].word = word]
    BY <1>5 DEF SessionEnds
  <2>2. s.folder \in 1..Len(folders) /\ s \in Live /\ sessions' = sessions \ {s}
    BY <1>3, <1>5 DEF SessionEnds, IsWork, Live, Without
  <2>3. Len(folders') = Len(folders)
    BY <1>3, <2>1, <2>2, Says
  <2>4. ASSUME NEW i \in 1..Len(folders) PROVE folders'[i].by = folders[i].by
    <3>1. PICK k \in 1..Len(folders) : k = s.folder
      BY <2>2
    <3>2. folders[k] \in [by: Nat, word: {"none", "done", "stopped"}]
      BY <1>3, Element
    <3> DEFINE entry == [folders[k] EXCEPT !.word = word]
    <3>3. folders' = [folders EXCEPT ![k] = entry]
      BY <2>1, <3>1
    <3>4. entry.by = folders[k].by
      BY <3>2
    <3> HIDE DEF entry
    <3>5. folders'[i] = IF i = k THEN entry ELSE folders[i]
      BY <1>3, <3>3
    <3> QED BY <3>4, <3>5
  <2> QED BY <1>1, <2>2, <2>3, <2>4
<1>6. CASE ChainStops(s)
  <2>1. sessions' = sessions \ {s} /\ folders' = folders /\ s \in Live
    BY <1>6 DEF ChainStops, Without, Live
  <2> QED BY <1>1, <2>1
<1>7. CASE SessionDies(s)
  <2>1. sessions' = sessions \ {s} /\ folders' = folders /\ chainSays' = chainSays
    BY <1>7 DEF SessionDies, Without, outside
  <2> QED BY <1>1, <2>1
<1>8. CASE CalibrationDies(s)
  <2> DEFINE t == [s EXCEPT !.state = "stuck"]
  <2>1. sessions' = (sessions \ {s}) \union {t} /\ folders' = folders /\ chainSays' = chainSays /\ s \in Live
    BY <1>8 DEF CalibrationDies, outside, Live
  <2>2. t.by = s.by /\ t.state = "stuck"
    BY <1>3 DEF IsWork
  <2> HIDE DEF t
  <2> QED BY <1>1, <2>1, <2>2
<1> QED BY <1>2, <1>4, <1>5, <1>6, <1>7, <1>8

\* A boot clears what lives; what begins after it is the job's own.  A kill that
\* comes before the boot is the first, and finds nothing alive (Unhalted).
LEMMA LiveOwnKept ==
  ASSUME ~Torn, MaxHalts <= 1, PlaceOK, LoopOK, UsedOK, FoldersOK, BlocksReboot, StageOK,
         Unhalted, LiveOwn, [Next]_vars
  PROVE  LiveOwn'
<1> SUFFICES ASSUME OnBlock', phase' \in {"booted", "waiting"}, pc' \notin {"reboot", "advancePhase"},
                    NEW s \in Live'
             PROVE  s.by = at'
  BY DEF LiveOwn
<1>1. ASSUME UNCHANGED at, at > Len(jobs), pc # "advancePhase" PROVE phase = "prep"
  BY <1>1 DEF StageOK
<1>2. at \in Nat /\ Len(jobs) \in Nat
  BY ListGrows DEF PlaceOK
<1>3. ASSUME UNCHANGED <<at, phase>>, pc \notin {"reboot", "advancePhase"}
      PROVE  \A t \in Live : t.by = at
  <2>1. at <= Len(jobs)
    BY <1>1, <1>2, <1>3
  <2>2. OnBlock
    BY <1>3, <2>1, SameJob
  <2> QED BY <1>3, <2>2 DEF LiveOwn
<1>4. ASSUME sessions' \subseteq sessions, UNCHANGED <<at, phase>>, pc \notin {"reboot", "advancePhase"}
      PROVE  s.by = at'
  <2>1. s \in Live
    BY <1>4 DEF Live
  <2> QED BY <1>3, <1>4, <2>1
<1>5. CASE TopStops \/ TopFindsEnd \/ TopTakesArming \/ TopWorks \/ SelfStop
  <2>1. sessions' \subseteq sessions /\ UNCHANGED <<at, phase>> /\ pc \in {"top", "selfstop"}
    BY <1>5
       DEF TopStops, TopFindsEnd, TopTakesArming, TopWorks, SelfStop, Step, files
  <2> QED BY <1>4, <2>1
<1>6. CASE PrepCounts
  BY <1>6 DEF PrepCounts, Step, LoopOK
<1>7. CASE PrepNotes
  <2>1. pc = "ask" /\ UNCHANGED <<at, jobs>> /\ pc' = IF jobs[at].reboots THEN "reboot" ELSE "top"
    BY <1>7 DEF PrepNotes, Step, JobInHand
  <2>2. at \in 1..Len(jobs) /\ jobs[at].kind = "block"
    BY <1>2, <2>1 DEF PlaceOK, OnBlock
  <2> QED BY <2>1, <2>2 DEF BlocksReboot
<1>8. CASE Reboot \/ PowerCut
  BY <1>8 DEF Reboot, PowerCut, Live
<1>9. CASE CommandBegins \/ CommandEnds \/ BeginRefused \/ NoteFolders
  <2>1. /\ UNCHANGED <<at, phase, sessions>>
        /\ pc \in {"begin", "command"}
    BY <1>9
       DEF CommandBegins, CommandEnds, BeginRefused, NoteFolders, Step, files
  <2> QED BY <1>4, <2>1
<1>10. CASE CalibrationStarts \/ SessionNotStarted
  <2>1. /\ UNCHANGED <<at, phase>> /\ pc \in {"calibration", "chain"}
        /\ sessions' \subseteq sessions \union Rereading \union {NewWork(at, "alone")}
    BY <1>10 DEF CalibrationStarts, SessionNotStarted, Step, files
  <2>2. NewWork(at, "alone").state = "alone"
    BY DEF NewWork
  <2>3. \E t \in Live : s.by = t.by
    BY <2>1, <2>2, Rereads DEF Live
  <2> QED BY <1>3, <2>1, <2>3
<1>11. CASE ChainStarts
  <2>0. NewWork(at, "calibrating").by = at
    BY DEF NewWork
  <2>1. UNCHANGED <<at, phase>> /\ pc = "chain"
        /\ \/ s \in sessions \/ s.by = at
           \/ \E t \in sessions : t.by = at /\ s = [t EXCEPT !.state = "calibrating"]
    BY <1>11, <2>0 DEF ChainStarts, Step, files, Live
  <2>2. CASE s \in sessions
    BY <1>3, <2>1, <2>2 DEF Live
  <2>3. ASSUME NEW t \in sessions, t.by = at, s = [t EXCEPT !.state = "calibrating"]
        PROVE  s.by = at
    BY <2>3 DEF FoldersOK, IsWork
  <2> QED BY <2>1, <2>2, <2>3
<1>12. CASE NoteWaiting
  <2>1. UNCHANGED <<at, sessions, jobs>> /\ pc \in {"started", "begin"}
    BY <1>12 DEF NoteWaiting, Step
  <2>2. phase = "booted" /\ OnBlock /\ s \in Live
    BY <2>1 DEF StageOK, OnBlock, Live
  <2> QED BY <2>1, <2>2 DEF LiveOwn
<1>13. CASE LookFinished \/ LookStopped \/ LookRunning \/ WakeLooks \/ WakeGivesUp
            \/ RetryNotes \/ RetryAppends \/ AdvanceBoots
  <2>1. /\ UNCHANGED <<at, phase, sessions>>
        /\ pc \in {"look", "sleep", "retry", "append", "advanceBoots"}
    BY <1>13
       DEF LookFinished, LookStopped, LookRunning, WakeLooks, WakeGivesUp, RetryNotes,
           RetryAppends, AdvanceBoots, Step, files
  <2> QED BY <1>4, <2>1
<1>14. CASE Advance \/ AdvancePhase
  BY <1>14 DEF Advance, AdvancePhase, Step
<1>15. CASE SessionStep
  <2>1. UNCHANGED <<at, pc, phase>>
    BY <1>15, SessionSteps
  <2>2. \A t \in Live : t.by = at
    BY <1>3, <2>1
  <2>3. PICK r \in sessions :
          \/ r \in Live /\ \E t : sessions' = (sessions \ {r}) \union {t} /\ t.by = r.by
          \/ sessions' \subseteq sessions
    BY <1>15, SessionSteps
  <2>4. s \in Live \/ (r \in Live /\ s.by = r.by)
    BY <2>3 DEF Live
  <2> QED BY <2>1, <2>2, <2>4
<1>16. CASE Kill
  <2>1. /\ UNCHANGED <<at, phase, jobs>> /\ pc # "advancePhase" /\ Count("halt") < MaxHalts
        /\ sessions' \subseteq sessions \union {NewWork(at, "alone")}
    BY <1>16 DEF Kill, CanHalt, files
  <2>2. NewWork(at, "alone").state = "alone"
    BY DEF NewWork
  <2>3. s \in Live
    BY <2>1, <2>2 DEF Live
  <2>4. CASE pc = "reboot"
    <3>1. Count("halt") = 0
      BY <2>1, CountsAreNumbers, Bounds
    <3>2. ByHand(s) \/ WaitedFor(s)
      BY <2>3, <3>1 DEF Unhalted
    <3>3. jobs[at].kind = "block"
      BY <2>1 DEF OnBlock
    <3> QED BY <2>4, <3>2, <3>3 DEF ByHand, WaitedFor
  <2> QED BY <1>3, <2>1, <2>3, <2>4
<1>17. CASE Boot \/ StartLoop
  <2>1. UNCHANGED <<at, phase, sessions>> /\ (pc = "off" \/ pc' = pc)
    BY <1>17 DEF Boot, StartLoop, files, LoopOK
  <2> QED BY <1>4, <2>1
<1>18. CASE AskStop \/ ArmStop \/ DisarmStop \/ Add \/ UNCHANGED vars
  <2>1. UNCHANGED <<at, phase, sessions, pc>>
    BY <1>18 DEF AskStop, ArmStop, DisarmStop, Add, vars, files, machine
  <2> QED BY <1>4, <2>1
<1> QED
  BY <1>5, <1>6, <1>7, <1>8, <1>9, <1>10, <1>11, <1>12, <1>13, <1>14, <1>15, <1>16, <1>17,
     <1>18 DEF Next, Loop, People

\* The folders a job finds beyond those it noted are made by what lives.
LEMMA FoldersOwnKept ==
  ASSUME ~Torn, PlaceOK, LoopOK, FoldersOK, StageOK, LiveOwn, FoldersOwn, [Next]_vars
  PROVE  FoldersOwn'
<1> SUFFICES ASSUME OnBlock', Noted', NEW i \in (seen' + 1)..Len(folders')
             PROVE  folders'[i].by = at'
  BY DEF FoldersOwn
<1>1. at \in Nat /\ Len(jobs) \in Nat /\ (pc \in InJob => at <= Len(jobs))
  BY ListGrows DEF PlaceOK
<1>2. ASSUME UNCHANGED at, Noted PROVE OnBlock
  <2>1. at <= Len(jobs)
    BY <1>1, <1>2 DEF Noted, StageOK, InJob, Steps
  <2> QED BY <1>2, <2>1, SameJob
<1>3. ASSUME UNCHANGED <<at, folders, seen>>, Noted PROVE folders'[i].by = at'
  BY <1>2, <1>3 DEF FoldersOwn
<1>4. CASE TopStops \/ TopFindsEnd \/ TopTakesArming \/ TopWorks \/ SelfStop
  <2>1. UNCHANGED <<at, folders, seen, phase>> /\ Noted
    BY <1>4
       DEF TopStops, TopFindsEnd, TopTakesArming, TopWorks, SelfStop, Step, files, outside,
           Noted, LoopOK
  <2> QED BY <1>3, <2>1
<1>5. CASE PrepCounts \/ PrepNotes \/ Reboot
  BY <1>5 DEF PrepCounts, PrepNotes, Reboot, Step, files, Noted, LoopOK, StageOK
<1>6. CASE CommandBegins \/ CommandEnds \/ BeginRefused
  BY <1>6 DEF CommandBegins, CommandEnds, BeginRefused, Step, files, Noted, StageOK
<1>7. CASE NoteFolders
  <2>1. seen' = Len(folders) /\ folders' = folders /\ Len(folders) \in Nat
    BY <1>7 DEF NoteFolders, outside, FoldersOK
  <2> QED BY <2>1
<1>8. CASE CalibrationStarts \/ ChainStarts \/ SessionNotStarted
  <2>1. UNCHANGED <<at, folders, seen>> /\ Noted
    BY <1>8 DEF CalibrationStarts, ChainStarts, SessionNotStarted, Step, files, outside, Noted
  <2> QED BY <1>3, <2>1
<1>9. CASE NoteWaiting
  <2>1. UNCHANGED <<at, folders, seen, jobs>> /\ (pc = "started" \/ JobInHand.kind = "wait")
    BY <1>9 DEF NoteWaiting, Step, outside
  <2>2. pc = "started"
    BY <2>1 DEF OnBlock, JobInHand
  <2> QED BY <1>3, <2>1, <2>2 DEF Noted
<1>10. CASE LookFinished \/ LookStopped \/ LookRunning \/ WakeLooks \/ WakeGivesUp
  <2>1. UNCHANGED <<at, folders, seen>> /\ Noted
    BY <1>10
       DEF LookFinished, LookStopped, LookRunning, WakeLooks, WakeGivesUp, Step, files, outside,
           Noted, StageOK
  <2> QED BY <1>3, <2>1
<1>11. CASE RetryNotes \/ RetryAppends \/ AdvanceBoots
  <2>1. UNCHANGED <<at, folders, seen, phase>> /\ Noted
    BY <1>11 DEF RetryNotes, RetryAppends, AdvanceBoots, Step, outside, Noted
  <2> QED BY <1>3, <2>1
<1>12. CASE Advance \/ AdvancePhase
  BY <1>12 DEF Advance, AdvancePhase, Step, Noted
<1>13. CASE SessionStep
  <2>1. UNCHANGED <<at, pc, phase, seen>>
    BY <1>13, SessionSteps
  <2>2. Noted
    BY <2>1 DEF Noted
  <2>3. \A j \in (seen + 1)..Len(folders) : folders[j].by = at
    BY <1>2, <2>1, <2>2 DEF FoldersOwn
  <2>4. \A s \in Live : s.by = at
    BY <1>2, <2>1, <2>2 DEF LiveOwn, Noted, StageOK
  <2>5. Len(folders) \in Nat /\ seen \in Nat
    BY DEF FoldersOK
  <2>8. CASE folders' = folders
    BY <2>1, <2>3, <2>8
  <2>6. CASE \E s \in Live : /\ Len(folders') = Len(folders) + 1
                             /\ \A j \in 1..Len(folders) : folders'[j] = folders[j]
                             /\ folders'[Len(folders) + 1].by = s.by
    <3>1. (i \in 1..Len(folders) /\ i \in (seen + 1)..Len(folders)) \/ i = Len(folders) + 1
      BY <2>1, <2>5, <2>6
    <3> QED BY <2>1, <2>3, <2>4, <2>6, <3>1
  <2>7. CASE Len(folders') = Len(folders) /\ \A j \in 1..Len(folders) : folders'[j].by = folders[j].by
    <3>1. i \in 1..Len(folders) /\ i \in (seen + 1)..Len(folders)
      BY <2>1, <2>5, <2>7
    <3> QED BY <2>1, <2>3, <2>7, <3>1
  <2> QED BY <1>13, <2>6, <2>7, <2>8, SessionSteps
<1>14. CASE PowerCut \/ Kill
  <2>1. UNCHANGED <<at, folders, seen, phase>> /\ Noted
    BY <1>14 DEF PowerCut, Kill, CanHalt, files, outside, Noted
  <2> QED BY <1>3, <2>1
<1>15. CASE Boot \/ StartLoop
  <2>1. UNCHANGED <<at, folders, seen, phase>> /\ Noted
    BY <1>15 DEF Boot, StartLoop, files, outside, Noted, LoopOK
  <2> QED BY <1>3, <2>1
<1>16. CASE AskStop \/ ArmStop \/ DisarmStop \/ Add \/ UNCHANGED vars
  <2>1. UNCHANGED <<at, folders, seen, phase, pc>> /\ Noted
    BY <1>16 DEF AskStop, ArmStop, DisarmStop, Add, vars, files, outside, machine, Noted
  <2> QED BY <1>3, <2>1
<1> QED
  BY <1>4, <1>5, <1>6, <1>7, <1>8, <1>9, <1>10, <1>11, <1>12, <1>13, <1>14, <1>15, <1>16
     DEF Next, Loop, People

\* A count that stands at no halts after a step stood there before it.
LEMMA NotHalted ==
  ASSUME UsedOK, [Next]_vars, Count("halt")' = 0
  PROVE  Count("halt") = 0 /\ ~PowerCut /\ ~Kill
<1>1. ASSUME PowerCut \/ Kill PROVE FALSE
  <2>1. Used("halt")
    BY <1>1 DEF PowerCut, Kill, CanHalt
  <2> QED BY <2>1, Counting, CountsAreNumbers
<1>2. CASE SelfStop \/ AskStop \/ ArmStop
  <2>1. Used("selfstop") \/ Used("stop") \/ Used("arm") \/ UNCHANGED used
    BY <1>2 DEF SelfStop, AskStop, ArmStop
  <2>2. Count("halt")' = Count("halt")
    BY <2>1, Counting DEF Count
  <2> QED BY <1>1, <2>2
<1>3. CASE UNCHANGED used
  BY <1>1, <1>3 DEF Count
<1>4. CASE TopStops \/ TopFindsEnd \/ TopTakesArming \/ TopWorks \/ PrepCounts
           \/ PrepNotes \/ Reboot \/ CommandBegins \/ CommandEnds \/ BeginRefused
           \/ NoteFolders \/ CalibrationStarts \/ ChainStarts \/ SessionNotStarted
           \/ NoteWaiting \/ LookFinished \/ LookStopped \/ LookRunning \/ WakeLooks
           \/ WakeGivesUp \/ RetryNotes \/ RetryAppends \/ Advance \/ AdvancePhase
           \/ AdvanceBoots \/ SessionStep \/ Boot \/ StartLoop \/ DisarmStop \/ Add
  BY <1>3, <1>4
     DEF TopStops, TopFindsEnd, TopTakesArming, TopWorks, PrepCounts, PrepNotes, Reboot,
         CommandBegins, CommandEnds, BeginRefused, NoteFolders, CalibrationStarts,
         ChainStarts, SessionNotStarted, NoteWaiting, LookFinished, LookStopped,
         LookRunning, WakeLooks, WakeGivesUp, RetryNotes, RetryAppends, Advance,
         AdvancePhase, AdvanceBoots, SessionStep, Boot, StartLoop, DisarmStop, Add, history
<1>5. CASE UNCHANGED vars
  BY <1>3, <1>5 DEF vars, history
<1> QED BY <1>1, <1>2, <1>4, <1>5 DEF Next, Loop, People

\* While a session lives that nothing was said of, the look sees work under way.
LEMMA StillRunning ==
  ASSUME NEW s \in Live, pc = "look", ByHand(s) \/ WaitedFor(s)
  PROVE  State = "running"
<1>1. s \in sessions
  BY DEF Live
<1>2. CASE ByHand(s)
  BY <1>1, <1>2 DEF ByHand, State, JobInHand
<1>3. CASE WaitedFor(s)
  BY <1>3 DEF WaitedFor, OnBlock, State, JobInHand, CampaignState
<1> QED BY <1>2, <1>3

\* Without a halt a session that lives is waited for, and no job is left or begun
\* while one does.
LEMMA UnhaltedKept ==
  ASSUME ~Torn, PlaceOK, LoopOK, UsedOK, BootsOK, FoldersOK, StageOK, Unhalted, [Next]_vars
  PROVE  Unhalted'
<1> SUFFICES ASSUME Count("halt")' = 0
             PROVE  /\ \A s \in sessions' : s.by <= at'
                    /\ \A s, t \in sessions' : s.by = at' /\ t.by = at' => s = t
                    /\ \A s \in sessions' : s.by = at' /\ s.state = "alone" =>
                         pc' \in {"chain", "retry", "append", "advance"}
                    /\ \A s \in Live' : ByHand(s)' \/ WaitedFor(s)'
                    /\ pc' \in {"calibration", "chain"} => Spoken' = {}
  BY DEF Unhalted
<1>1. Count("halt") = 0 /\ ~PowerCut /\ ~Kill
  BY NotHalted
<1>2. /\ \A s \in sessions : s.by <= at
      /\ \A s, t \in sessions : s.by = at /\ t.by = at => s = t
      /\ \A s \in sessions : s.by = at /\ s.state = "alone" =>
           pc \in {"chain", "retry", "append", "advance"}
      /\ \A s \in Live : ByHand(s) \/ WaitedFor(s)
      /\ pc \in {"calibration", "chain"} => Spoken = {}
  BY <1>1 DEF Unhalted
<1>3. at \in Nat /\ at >= 1 /\ Len(jobs) \in Nat /\ (pc \in InJob => at <= Len(jobs))
      /\ \A s \in sessions : s.by \in Nat
  BY ListGrows DEF PlaceOK, FoldersOK, IsWork
\* Only a session put on the list by hand, or one the loop waits for, lives: at
\* the other steps there is none.
<1>4. ASSUME pc \in {"begin", "calibration", "chain", "command"}, JobInHand.kind # "wait"
      PROVE  Live = {}
  BY <1>2, <1>4 DEF ByHand, WaitedFor, JobInHand
<1>5. ASSUME pc \in Leaving PROVE Live = {}
  BY <1>2, <1>5 DEF ByHand, WaitedFor, Leaving
\* A hand-begun session goes on being so, and one waited for too.
<1>6. ASSUME UNCHANGED at, NEW s, ByHand(s), pc' \notin Leaving PROVE ByHand(s)'
  BY <1>6, SameJob DEF ByHand
<1>7. ASSUME UNCHANGED <<at, chainSays>>, Spoken' = Spoken, NEW s, NEW t, WaitedFor(s), t.by = s.by,
             pc' = "started" \/ (phase' = "waiting" /\ pc' \in {"top", "look", "sleep", "off"})
      PROVE  WaitedFor(t)'
  BY <1>7, SameJob DEF WaitedFor
<1>8. UNCHANGED <<folders, seen>> => Spoken' = Spoken
  BY DEF Spoken
\* Nothing changes for the sessions, and the loop neither begins nor leaves a job
\* that has one.
<1>9. ASSUME UNCHANGED <<at, sessions, chainSays>>, Spoken' = Spoken,
             pc' \in {"calibration", "chain"} => pc \in {"calibration", "chain"},
             pc \in {"chain", "retry", "append", "advance"} =>
               pc' \in {"chain", "retry", "append", "advance"},
             Live = {} \/ pc' \notin Leaving,
             \A s \in Live : WaitedFor(s) =>
               pc' = "started" \/ (phase' = "waiting" /\ pc' \in {"top", "look", "sleep", "off"})
      PROVE  Unhalted'
  <2>1. Live' = Live
    BY <1>9 DEF Live
  <2>2. \A s \in Live : ByHand(s)' \/ WaitedFor(s)'
    BY <1>2, <1>6, <1>7, <1>9
  <2> QED BY <1>2, <1>9, <2>1, <2>2 DEF Unhalted
<1> DEFINE Kept == Unhalted'
<1>10. CASE TopStops \/ TopFindsEnd \/ TopTakesArming \/ TopWorks
  <2>1. /\ UNCHANGED <<at, sessions, chainSays, folders, seen, phase>> /\ pc = "top"
        /\ pc' \in {"off", "selfstop", "prep", "begin", "look"}
        /\ pc' = "off" \/ (pc' = "look" /\ phase = "waiting") \/ phase # "waiting" \/ at > Len(jobs)
    BY <1>10
       DEF TopStops, TopFindsEnd, TopTakesArming, TopWorks, Step, files, outside, LoopOK
  <2>2. \A s \in Live : WaitedFor(s) => phase = "waiting" /\ at <= Len(jobs)
    BY <2>1 DEF WaitedFor, OnBlock
  <2>3. \A s \in Live : WaitedFor(s) =>
          phase' = "waiting" /\ pc' \in {"top", "look", "sleep", "off"}
    BY <1>3, <2>1, <2>2
  <2>4. Kept
    BY <1>8, <1>9, <2>1, <2>3 DEF Leaving
  <2> QED BY <2>4 DEF Unhalted
<1>11. CASE SelfStop
  <2>1. /\ UNCHANGED <<at, chainSays, folders, seen, phase>> /\ pc = "selfstop" /\ pc' = "off"
        /\ (sessions' = sessions \/ sessions' = {})
    BY <1>11 DEF SelfStop, Step, files, outside
  <2>2. CASE sessions' = sessions
    <3>1. \A s \in Live : ~WaitedFor(s)
      BY <2>1 DEF WaitedFor
    <3>2. Kept
      BY <1>8, <1>9, <2>1, <2>2, <3>1 DEF Leaving
    <3> QED BY <3>2 DEF Unhalted
  <2> QED BY <2>1, <2>2 DEF Live
<1>12. CASE PrepCounts \/ PrepNotes
  <2>1. /\ UNCHANGED <<at, sessions, chainSays, folders, seen>>
        /\ pc \in {"prep", "ask"} /\ pc' \in {"ask", "reboot", "top"}
    <3>1. CASE PrepCounts
      <4>1. pc = "prep" /\ boots <= 0 /\ boots \in Nat
        BY <1>1, <3>1 DEF BootsOK, PrepCounts, Step, LoopOK
      <4>2. ~(boots + 1 > 2)
        BY <4>1
      <4> QED BY <3>1, <4>1, <4>2 DEF PrepCounts, Step, outside
    <3>2. CASE PrepNotes
      BY <3>2 DEF PrepNotes, Step, outside
    <3> QED BY <1>12, <3>1, <3>2
  <2>2. \A s \in Live : ~WaitedFor(s)
    BY <2>1 DEF WaitedFor
  <2>3. Kept
    BY <1>8, <1>9, <2>1, <2>2 DEF Leaving
  <2> QED BY <2>3 DEF Unhalted
<1>13. CASE Reboot
  <2>1. sessions' = {} /\ pc' = "off"
    BY <1>13 DEF Reboot, Step
  <2> QED BY <2>1 DEF Live
<1>14. CASE CommandBegins \/ CommandEnds \/ BeginRefused
  <2>1. /\ UNCHANGED <<at, sessions, chainSays, folders, seen>>
        /\ pc \in {"begin", "command"} /\ pc' \in {"command", "advance", "retry"}
        /\ JobInHand.kind # "wait"
    BY <1>14 DEF CommandBegins, CommandEnds, BeginRefused, Step, files, outside, StageOK, JobInHand
  <2>2. Live = {}
    BY <1>4, <2>1
  <2>3. Kept
    BY <1>8, <1>9, <2>1, <2>2
  <2> QED BY <2>3 DEF Unhalted
<1>15. CASE NoteFolders
  <2>1. /\ UNCHANGED <<at, sessions, chainSays, folders>> /\ seen' = Len(folders)
        /\ pc = "begin" /\ pc' = "calibration" /\ JobInHand.kind = "block"
    BY <1>15 DEF NoteFolders, Step, outside
  <2>2. Live = {}
    BY <1>4, <2>1
  <2>3. Spoken' = {}
    <3>1. (Len(folders) + 1)..Len(folders) = {}
      BY DEF FoldersOK
    <3> QED BY <2>1, <3>1 DEF Spoken
  <2>4. Live' = {}
    BY <2>1, <2>2 DEF Live
  <2> QED BY <1>2, <2>1, <2>3, <2>4
<1>16. CASE CalibrationStarts
  <2> DEFINE n == NewWork(at, "alone")
  <2>1. /\ UNCHANGED <<at, chainSays, folders, seen>> /\ pc = "calibration" /\ pc' = "chain"
        /\ sessions' = Rereading \union {n}
    BY <1>16 DEF CalibrationStarts, Step, files, outside
  <2>2. n.by = at /\ n.state = "alone"
    BY DEF NewWork
  <2> HIDE DEF n
  <2>3. Live = {}
    BY <1>4, <2>1 DEF StageOK, JobInHand
  <2>6. sessions' = sessions \union {n}
    BY <2>1, <2>3, NothingRereads
  <2>4. \A s \in sessions : s.by # at
    BY <1>2, <2>1, <2>3 DEF Live
  <2>5. Live' = {} /\ Spoken' = {}
    BY <1>2, <1>8, <2>1, <2>2, <2>3, <2>6 DEF Live
  <2> QED BY <1>2, <1>3, <2>1, <2>2, <2>4, <2>5, <2>6
<1>17. CASE ChainStarts
  <2> DEFINE calibration == {s \in sessions : s.by = at /\ s.state = "alone"}
             Goes(s) == [s EXCEPT !.state = "calibrating"]
             n == NewWork(at, "calibrating")
  <2>1. /\ UNCHANGED <<at, folders, seen, jobs>> /\ pc = "chain" /\ pc' = "started" /\ chainSays' = FALSE
        /\ sessions' = (sessions \ calibration) \union
             (IF calibration = {} THEN {n} ELSE {Goes(s) : s \in calibration})
    BY <1>17 DEF ChainStarts, Step, files
  <2>2. \A s \in sessions : Goes(s).by = s.by /\ Goes(s).state = "calibrating"
    BY DEF FoldersOK, IsWork
  <2>10. n.by = at /\ n.state = "calibrating"
    BY DEF NewWork
  <2> HIDE DEF Goes, n
  <2>3. OnBlock /\ Live = {}
    <3>1. OnBlock
      BY <1>3, <2>1 DEF StageOK, InJob, Steps, OnBlock
    <3> QED BY <1>4, <2>1, <3>1 DEF OnBlock, JobInHand
  <2>4. \A s \in sessions : s.by = at => s \in calibration
    BY <2>3 DEF Live
  <2>5. \A s \in sessions' : \/ s \in sessions /\ s.by # at
                             \/ s.state = "calibrating" /\ s.by = at
    BY <2>1, <2>2, <2>4, <2>10
  <2>6. \A s, t \in sessions' : s.by = at /\ t.by = at => s = t
    <3>1. \A s, t \in calibration : s = t
      BY <1>2
    <3>2. \A s \in sessions' : s.by = at => \/ calibration = {} /\ s = n
                                            \/ \E r \in calibration : s = Goes(r)
      BY <2>1, <2>4
    <3> HIDE DEF calibration
    <3> QED BY <3>1, <3>2
  <2>7. Spoken' = {}
    BY <1>2, <1>8, <2>1
  <2>8. \A s \in Live' : s.by = at
    BY <2>3, <2>5 DEF Live
  <2>9. \A s \in Live' : WaitedFor(s)'
    BY <2>1, <2>3, <2>7, <2>8 DEF WaitedFor, OnBlock
  <2> HIDE DEF calibration
  <2> QED BY <1>2, <1>3, <2>1, <2>5, <2>6, <2>9
<1>18. CASE SessionNotStarted
  <2>1. /\ UNCHANGED <<at, folders, seen>> /\ sessions' \in {sessions, Rereading}
        /\ pc \in {"calibration", "chain"} /\ pc' = "retry"
    BY <1>18 DEF SessionNotStarted, Step, files
  <2>2. Live = {}
    BY <1>4, <2>1 DEF StageOK, JobInHand
  <2>4. sessions' = sessions
    BY <2>1, <2>2, NothingRereads
  <2>3. Live' = {}
    BY <2>2, <2>4 DEF Live
  <2> QED BY <1>2, <2>1, <2>3, <2>4
<1>19. CASE NoteWaiting
  <2>1. /\ UNCHANGED <<at, sessions, chainSays, folders, seen>>
        /\ pc \in {"started", "begin"} /\ pc' = "top" /\ phase' = "waiting"
    BY <1>19 DEF NoteWaiting, Step, outside
  <2>2. Kept
    BY <1>8, <1>9, <2>1 DEF Leaving
  <2> QED BY <2>2 DEF Unhalted
<1>20. CASE LookFinished \/ LookStopped
  <2>1. /\ UNCHANGED <<at, sessions, chainSays, folders, seen>>
        /\ pc = "look" /\ pc' \in {"advance", "retry"} /\ State # "running"
    BY <1>20 DEF LookFinished, LookStopped, Step, files, outside
  <2>2. Live = {}
    BY <1>2, <2>1, StillRunning
  <2>3. Kept
    BY <1>8, <1>9, <2>1, <2>2
  <2> QED BY <2>3 DEF Unhalted
<1>21. CASE LookRunning \/ WakeLooks
  <2>1. /\ UNCHANGED <<at, sessions, chainSays, folders, seen, phase>>
        /\ pc \in {"look", "sleep"} /\ pc' \in {"look", "sleep"} /\ phase = "waiting"
    BY <1>21 DEF LookRunning, WakeLooks, Step, files, outside, StageOK
  <2>2. Kept
    BY <1>8, <1>9, <2>1 DEF Leaving
  <2> QED BY <2>2 DEF Unhalted
<1>22. CASE WakeGivesUp
  <2>1. sessions' = {} /\ pc' = "retry"
    BY <1>22 DEF WakeGivesUp, Step
  <2> QED BY <2>1 DEF Live
<1>23. CASE RetryNotes \/ RetryAppends
  <2>1. /\ UNCHANGED <<at, sessions, chainSays, folders, seen>>
        /\ pc \in {"retry", "append"} /\ pc' \in {"append", "advance"}
    BY <1>23 DEF RetryNotes, RetryAppends, Step, outside
  <2>2. Live = {}
    BY <1>5, <2>1 DEF Leaving
  <2>3. Kept
    BY <1>8, <1>9, <2>1, <2>2
  <2> QED BY <2>3 DEF Unhalted
<1>24. CASE Advance
  <2>1. at' = at + 1 /\ sessions' = sessions /\ pc = "advance" /\ pc' = "advancePhase"
    BY <1>24 DEF Advance, Step
  <2>2. Live' = {}
    BY <1>5, <2>1 DEF Leaving, Live
  <2>3. \A s \in sessions : s.by <= at + 1 /\ s.by # at + 1
    BY <1>2, <1>3
  <2> QED BY <2>1, <2>2, <2>3
<1>25. CASE AdvancePhase \/ AdvanceBoots
  <2>1. /\ UNCHANGED <<at, sessions, chainSays, folders, seen>>
        /\ pc \in {"advancePhase", "advanceBoots"} /\ pc' \in {"advanceBoots", "top"}
    BY <1>25 DEF AdvancePhase, AdvanceBoots, Step, outside
  <2>2. Live = {}
    BY <1>5, <2>1 DEF Leaving
  <2>3. Kept
    BY <1>8, <1>9, <2>1, <2>2
  <2> QED BY <2>3 DEF Unhalted
<1>26. CASE SessionStep
  <2>1. UNCHANGED <<at, pc, phase, seen, jobs>>
    BY <1>26, SessionSteps
  <2>2. \A s : ByHand(s) => ByHand(s)'
    BY <2>1 DEF ByHand
  <2>3. ASSUME NEW s \in Live, WaitedFor(s), NEW t \in Live PROVE t = s
    <3>1. t \in sessions /\ s \in sessions /\ s.by = at
      BY <2>3 DEF Live, WaitedFor
    <3>2. ~ByHand(t)
      BY <2>3 DEF ByHand, WaitedFor, OnBlock
    <3>3. t.by = at
      BY <1>2, <2>3, <3>2 DEF WaitedFor
    <3> QED BY <1>2, <3>1, <3>3
  <2>4. ASSUME NEW s \in Live, chainSays' = chainSays, Spoken' = Spoken,
               NEW t, sessions' = (sessions \ {s}) \union {t}, t.by = s.by, t.state # "alone"
        PROVE  Kept
    <3>1. s \in sessions /\ \A r \in Live' : r = t \/ r \in Live
      BY <2>4 DEF Live
    <3>2. \A q, r : ByHand(q) /\ r.by = q.by => ByHand(r)'
      BY <2>1 DEF ByHand
    <3>3. \A r \in Live' : ByHand(r)' \/ WaitedFor(r)'
      <4>1. \A q \in Live : \A r : r.by = q.by => ByHand(r)' \/ WaitedFor(r)'
        <5> TAKE q \in Live
        <5> TAKE r
        <5> HAVE r.by = q.by
        <5>1. CASE ByHand(q)
          BY <3>2, <5>1
        <5>2. CASE WaitedFor(q)
          <6>1. UNCHANGED <<at, chainSays>> /\ Spoken' = Spoken
                /\ (pc' = "started" \/ (phase' = "waiting" /\ pc' \in {"top", "look", "sleep", "off"}))
            BY <2>1, <2>4, <5>2 DEF WaitedFor
          <6> QED BY <1>7, <5>2, <6>1
        <5> QED BY <1>2, <5>1, <5>2
      <4> QED BY <2>4, <3>1, <4>1
    <3>4. \A r \in sessions' : r = t \/ (r \in sessions /\ r # s)
      BY <2>4
    <3>5. \A q, r \in sessions' : q.by = at /\ r.by = at => q = r
      BY <1>2, <2>4, <3>1, <3>4
    <3> QED BY <1>2, <2>1, <2>4, <3>1, <3>3, <3>4, <3>5 DEF Unhalted
  <2>5. ASSUME NEW s \in Live, sessions' = sessions \ {s} PROVE Kept
    <3>1. \A r \in Live' : r \in Live /\ r # s
      BY <2>5 DEF Live
    <3>2. \A r \in Live' : ByHand(r)'
      <4> TAKE r \in Live'
      <4>1. r \in Live /\ ~WaitedFor(r)
        BY <2>3, <2>5, <3>1
      <4> QED BY <1>2, <2>2, <4>1
    <3>3. pc \notin {"calibration", "chain"}
      <4>1. pc \in {"calibration", "chain"} => Live = {}
        BY <1>4 DEF StageOK, JobInHand
      <4> QED BY <2>5, <4>1
    <3> QED BY <1>2, <2>1, <2>5, <3>2, <3>3 DEF Unhalted
  <2>6. ASSUME NEW s \in sessions, sessions' = sessions \ {s}, folders' = folders, chainSays' = chainSays
        PROVE  Kept
    <3>1. Spoken' = Spoken
      BY <1>8, <2>1, <2>6
    <3>2. \A r \in Live' : r \in Live
      BY <2>6 DEF Live
    <3>3. \A r \in Live : ByHand(r)' \/ WaitedFor(r)'
      <4> TAKE r \in Live
      <4>1. CASE WaitedFor(r)
        <5>1. pc' = "started" \/ (phase' = "waiting" /\ pc' \in {"top", "look", "sleep", "off"})
          BY <2>1, <4>1 DEF WaitedFor
        <5> QED BY <1>7, <2>1, <2>6, <3>1, <4>1, <5>1
      <4> QED BY <1>2, <2>2, <4>1
    <3> QED BY <1>2, <2>1, <2>6, <3>1, <3>2, <3>3 DEF Unhalted
  <2>8. folders' = folders => Spoken' = Spoken
    BY <1>8, <2>1
  <2>7. Kept
    BY <1>26, <2>4, <2>5, <2>6, <2>8, SessionSteps
  <2> QED BY <2>7 DEF Unhalted
<1>27. CASE Boot \/ StartLoop
  <2>1. /\ UNCHANGED <<at, sessions, chainSays, folders, seen, phase>>
        /\ (pc' = pc \/ (pc = "off" /\ pc' = "top"))
    BY <1>27 DEF Boot, StartLoop, files, outside, LoopOK
  <2>2. \A s \in Live : WaitedFor(s) =>
          pc' = "started" \/ (phase' = "waiting" /\ pc' \in {"top", "look", "sleep", "off"})
    BY <2>1 DEF WaitedFor
  <2>3. Live = {} \/ pc' \notin Leaving
    BY <1>5, <2>1 DEF Leaving
  <2>4. Kept
    BY <1>8, <1>9, <2>1, <2>2, <2>3
  <2> QED BY <2>4 DEF Unhalted
<1>28. CASE AskStop \/ ArmStop \/ DisarmStop \/ Add \/ UNCHANGED vars
  <2>1. UNCHANGED <<at, sessions, chainSays, folders, seen, phase, pc>>
    BY <1>28 DEF AskStop, ArmStop, DisarmStop, Add, vars, files, outside, machine
  <2>2. \A s \in Live : WaitedFor(s) =>
          pc' = "started" \/ (phase' = "waiting" /\ pc' \in {"top", "look", "sleep", "off"})
    BY <2>1 DEF WaitedFor
  <2>3. Live = {} \/ pc' \notin Leaving
    BY <1>5, <2>1
  <2>4. Kept
    BY <1>8, <1>9, <2>1, <2>2, <2>3
  <2> QED BY <2>4 DEF Unhalted
<1> QED
  BY <1>1, <1>10, <1>11, <1>12, <1>13, <1>14, <1>15, <1>16, <1>17, <1>18, <1>19, <1>20, <1>21,
     <1>22, <1>23, <1>24, <1>25, <1>26, <1>27, <1>28 DEF Next, Loop, People

\* A set of naturals that is not empty has a least member.
LEMMA LeastPlace ==
  ASSUME NEW S, S \subseteq Nat, S # {}
  PROVE  \E i \in S : \A j \in S : i <= j
<1> DEFINE R == {ss \in Nat \X Nat : ss[1] < ss[2]}
<1>1. IsWellFoundedOn(R, Nat)
  BY NatLessThanWellFounded DEF OpToRel
<1> HIDE DEF R
<1>2. PICK i \in S : \A j \in S : ~(<<j, i>> \in R)
  BY <1>1, WFMin
<1>3. \A j \in S : ~(j < i)
  BY <1>2 DEF R
<1> QED BY <1>3

\* A folder that has spoken is one of those beyond the ones noted.
LEMMA FirstIsSpoken ==
  ASSUME FoldersOK, Spoken # {}
  PROVE  FirstSpoken \in Spoken
<1>1. Spoken \subseteq Nat
  BY DEF Spoken, FoldersOK
<1>2. \E i \in Spoken : \A j \in Spoken : i <= j
  BY <1>1, LeastPlace
<1> QED BY <1>2, Zenon DEF FirstSpoken

\* A job is credited on its own session's word, and was tried.
LEMMA CreditKept ==
  ASSUME MaxHalts <= 1, PlaceOK, UsedOK, FoldersOK, StageOK, TriedSoFar, FoldersOwn,
         CreditIsOwn, [Next]_vars
  PROVE  CreditIsOwn'
<1>1. CASE LookFinished
  <2>1. credited' = credited \union {[job |-> at, by |-> SaidBy]} /\ UNCHANGED tried
        /\ pc = "look"
    BY <1>1 DEF LookFinished, Step
  <2>2. at \in tried
    <3>1. Count("halt") < 2
      BY CountsAreNumbers, Bounds DEF UsedOK
    <3> QED BY <2>1, <3>1 DEF TriedSoFar
  <2>3. SaidBy = at
    <3>1. CASE JobInHand.kind = "block" /\ Spoken # {}
      <4>1. OnBlock /\ Noted
        BY <2>1, <3>1 DEF OnBlock, JobInHand, Noted, StageOK, PlaceOK, InJob, Steps
      <4>2. FirstSpoken \in (seen + 1)..Len(folders)
        BY <3>1, FirstIsSpoken DEF Spoken
      <4>3. folders[FirstSpoken].by = at
        BY <4>1, <4>2 DEF FoldersOwn
      <4> QED BY <3>1, <4>3 DEF SaidBy
    <3>2. CASE ~(JobInHand.kind = "block" /\ Spoken # {})
      BY <3>2 DEF SaidBy
    <3> QED BY <3>1, <3>2
  <2>4. [job |-> at, by |-> SaidBy].job = at /\ [job |-> at, by |-> SaidBy].by = SaidBy
    OBVIOUS
  <2> QED BY <2>1, <2>2, <2>3, <2>4 DEF CreditIsOwn
<1>2. ASSUME UNCHANGED credited, tried \subseteq tried' PROVE CreditIsOwn'
  BY <1>2 DEF CreditIsOwn
<1>3. CASE CommandBegins \/ BeginRefused \/ NoteFolders \/ NoteWaiting
  BY <1>2, <1>3 DEF CommandBegins, BeginRefused, NoteFolders, NoteWaiting
<1>4. CASE TopStops \/ TopFindsEnd \/ TopTakesArming \/ TopWorks \/ SelfStop \/ PrepCounts
           \/ PrepNotes \/ Reboot \/ CommandEnds \/ CalibrationStarts \/ ChainStarts
           \/ SessionNotStarted \/ LookStopped \/ LookRunning \/ WakeLooks \/ WakeGivesUp
           \/ RetryNotes \/ RetryAppends \/ Advance \/ AdvancePhase \/ AdvanceBoots
           \/ SessionStep \/ Boot \/ PowerCut \/ Kill \/ StartLoop \/ AskStop \/ ArmStop
           \/ DisarmStop \/ Add
  <2>1. UNCHANGED <<credited, tried>>
    BY <1>4
       DEF TopStops, TopFindsEnd, TopTakesArming, TopWorks, SelfStop, PrepCounts,
           PrepNotes, Reboot, CommandEnds, CalibrationStarts, ChainStarts,
           SessionNotStarted, LookStopped, LookRunning, WakeLooks, WakeGivesUp,
           RetryNotes, RetryAppends, Advance, AdvancePhase, AdvanceBoots, SessionStep,
           Boot, PowerCut, Kill, StartLoop, AskStop, ArmStop, DisarmStop, Add, history
  <2> QED BY <1>2, <2>1
<1>5. CASE UNCHANGED vars
  BY <1>2, <1>5 DEF vars, history
<1> QED BY <1>1, <1>3, <1>4, <1>5 DEF Next, Loop, People
-----------------------------------------------------------------------------
(***************************************************************************)
(* The theorems.                                                           *)
(***************************************************************************)
\* All of the shape.
Shape ==
  /\ LoopOK /\ FlagsOK /\ PlaceOK /\ UsedOK
  /\ BootsOK /\ RetriedOK /\ TriedOK /\ FoldersOK

\* A started list is in shape.
LEMMA InitShape ==
  ASSUME Init
  PROVE  Shape
<1> USE Bounds DEF Init
<1>1. jobs \in Seq(Job) /\ Len(jobs) \in Nat /\ Len(jobs) # 0
  OBVIOUS
<1>2. LoopOK
  BY DEF LoopOK, Steps
<1>3. FlagsOK
  BY DEF FlagsOK
<1>4. PlaceOK
  BY <1>1 DEF PlaceOK, InJob, Steps
<1>5. UsedOK
  BY DEF UsedOK, Count
<1>6. BootsOK
  BY <1>5, CountsAreNumbers DEF BootsOK
<1>7. RetriedOK
  BY DEF RetriedOK
<1>8. TriedOK
  BY <1>1 DEF TriedOK
<1>9. FoldersOK
  <2>1. folders = <<>> /\ seen = 0
        /\ sessions \subseteq {[id |-> 1, by |-> 0, state |-> "calibrating", folder |-> 0]}
    OBVIOUS
  <2> QED BY <2>1 DEF FoldersOK, IsWork
<1> QED
  BY <1>2, <1>3, <1>4, <1>5, <1>6, <1>7, <1>8, <1>9 DEF Shape

\* Every step keeps the shape.
LEMMA ShapeKept ==
  ASSUME Shape, [Next]_vars
  PROVE  Shape'
BY LoopKept, FlagsKept, PlaceKept, UsedKept, BootsKept, RetriedKept, TriedKept, FoldersKept DEF Shape

\* The shape says more than the types.
LEMMA ShapeGivesTypes ==
  ASSUME Shape
  PROVE  TypeOK
<1>1. boots \in 0..(MaxHalts + 1)
  BY Bounds, CountsAreNumbers DEF Shape, BootsOK, UsedOK
<1> QED
  BY <1>1 DEF Shape, TypeOK, LoopOK, FlagsOK, PlaceOK, RetriedOK, TriedOK, FoldersOK

\* The state is in shape, the bounds on boots and places among it.
THEOREM ShapeHolds == Spec => []Shape
BY InitShape, ShapeKept, PTL DEF Spec

\* The state has its types.
THEOREM TypesHold == Spec => []TypeOK
BY ShapeHolds, ShapeGivesTypes, PTL

\* No job after the one the loop is on is begun once a stop is asked for,
\* whatever is killed, booted or cut before the loop sees it.
THEOREM ObeysStop == Spec => []StopIsObeyed
<1> DEFINE IInv == Shape /\ BegunBeforeStop
<1>1. Init => IInv
  BY InitShape DEF Init, BegunBeforeStop
<1>2. IInv /\ [Next]_vars => IInv'
  BY ShapeKept, StopKept DEF Shape
<1>3. IInv => StopIsObeyed
  BY DEF BegunBeforeStop, StopIsObeyed
<1> QED
  BY <1>1, <1>2, <1>3, PTL DEF Spec

\* The pair turns itself off once for each time it was armed, at most: not again
\* at each start with its list at an end (queue.sh takes the arming first).
THEOREM StopsItselfWhenArmed == Spec => []SelfStopsWhenArmed
<1> DEFINE IInv == Shape /\ ArmedOrSpent
<1>1. Init => IInv
  <2> SUFFICES ASSUME Init PROVE ArmedOrSpent
    BY InitShape
  <2>1. Count("selfstop") = 0 /\ Count("arm") = 0
    BY DEF Init, Count
  <2>2. armed = FALSE /\ pc = "top"
    BY DEF Init
  <2> QED BY <2>1, <2>2 DEF ArmedOrSpent
<1>2. IInv /\ [Next]_vars => IInv'
  BY ShapeKept, ArmedKept DEF Shape
<1>3. IInv => SelfStopsWhenArmed
  BY CountsAreNumbers DEF Shape, ArmedOrSpent, SelfStopsWhenArmed
<1> QED
  BY <1>1, <1>2, <1>3, PTL DEF Spec

\* The list passes no untried job before prep was interrupted twice, if no halt
\* falls between advance's writes.  One that does leaves the phase of the job
\* before, and the next one may be passed on it.
THEOREM TriesBeforePassing ==
  ASSUME ~Torn
  PROVE  Spec => []PassedWasTried
<1> DEFINE IInv == Shape /\ TriedSoFar
<1>1. Init => IInv
  <2> SUFFICES ASSUME Init PROVE TriedSoFar
    BY InitShape
  <2>1. at = 1 /\ phase = "prep" /\ pc = "top"
    BY DEF Init
  <2> QED BY <2>1 DEF TriedSoFar
<1>2. IInv /\ [Next]_vars => IInv'
  BY ShapeKept, TriedSoFarKept DEF Shape
<1>3. IInv => PassedWasTried
  BY DEF TriedSoFar, PassedWasTried
<1> QED
  BY <1>1, <1>2, <1>3, PTL DEF Spec

\* Two places are two at most.
LEMMA TwoPlaces ==
  ASSUME NEW S, NEW q \in Seq(S), NEW line, AtMostTwice(q, line)
  PROVE  Cardinality({p \in DOMAIN q : q[p] = line}) <= 2
<1> DEFINE places == {p \in DOMAIN q : q[p] = line}
<1>1. PICK a \in 1..Len(q), b \in 1..Len(q) : \A p \in 1..Len(q) : q[p] = line => p \in {a, b}
  BY DEF AtMostTwice
<1> DEFINE one == {a}
           two == one \union {b}
<1>2. places \subseteq two
  BY <1>1
<1>3. IsFiniteSet(one) /\ Cardinality(one) = 1
  BY FS_Singleton
<1> HIDE DEF one
<1>4. IsFiniteSet(two) /\ (Cardinality(two) = 1 \/ Cardinality(two) = 2)
  BY <1>3, FS_AddElement
<1> HIDE DEF two, places
<1>5. Cardinality(places) <= Cardinality(two) /\ IsFiniteSet(places)
  BY <1>2, <1>4, FS_Subset
<1>6. Cardinality(places) \in Nat
  BY <1>5, FS_CardinalityType
<1>7. Cardinality(places) <= 2
  BY <1>4, <1>5, <1>6
<1> QED BY <1>7 DEF places

\* A line is on the list twice at most, whatever cuts and kills fall between
\* noting it and putting it back, if the list had no line twice to begin with.
THEOREM PutsBackOnce ==
  ASSUME \A list \in Lists : IsInjective(list)
  PROVE  Spec => []PutBackOnce
<1> DEFINE IInv == Shape /\ LinesOnce
<1>1. Init => IInv
  <2> SUFFICES ASSUME Init PROVE LinesOnce
    BY InitShape
  <2>1. jobs \in Seq(Job) /\ pc = "top"
    BY Bounds DEF Init
  <2>2. \A p, q \in 1..Len(jobs) : jobs[p] = jobs[q] => p = q
    BY <2>1 DEF Init, IsInjective
  <2>3. ASSUME NEW r \in 1..Len(jobs)
        PROVE  AtMostTwice(jobs, jobs[r])
    BY <2>2 DEF AtMostTwice
  <2> QED BY <2>1, <2>2, <2>3 DEF LinesOnce
<1>2. IInv /\ [Next]_vars => IInv'
  BY ShapeKept, LinesKept DEF Shape
<1>3. IInv => PutBackOnce
  <2> SUFFICES ASSUME IInv, NEW job \in ToSet(jobs)
               PROVE  Cardinality({p \in DOMAIN jobs : jobs[p] = job}) <= 2
    BY DEF PutBackOnce
  <2>1. jobs \in Seq(Job)
    BY DEF Shape, PlaceOK
  <2>2. AtMostTwice(jobs, job)
    BY <2>1 DEF LinesOnce, ToSet
  <2> QED BY <2>1, <2>2, TwoPlaces
<1> QED
  BY <1>1, <1>2, <1>3, PTL DEF Spec

\* A job is counted as finished on its own session's word, if every session has a
\* boot of its own, no halt falls between advance's writes, and there is one halt
\* at most.  A second kill, after a job is noted as booted and before the boot, would
\* leave the session before it alive to make a folder that the job takes for its own.
THEOREM CreditsOwn ==
  ASSUME ~Torn, MaxHalts <= 1,
         \A list \in Lists : \A i \in 1..Len(list) : list[i].kind = "block" => list[i].reboots,
         \A job \in Extra : job.kind = "block" => job.reboots
  PROVE  Spec => []CreditIsOwn
<1> DEFINE IInv == /\ Shape /\ TriedSoFar
                   /\ BlocksReboot /\ StageOK
                   /\ Unhalted /\ LiveOwn /\ FoldersOwn
                   /\ CreditIsOwn
<1>1. Init => IInv
  <2> SUFFICES ASSUME Init PROVE IInv
    OBVIOUS
  <2>1. jobs \in Lists /\ at = 1 /\ phase = "prep" /\ pc = "top" /\ folders = <<>> /\ credited = {}
    BY DEF Init
  <2>2. jobs \in Seq(Job) /\ Len(jobs) \in Nat /\ Len(jobs) # 0 /\ Head(jobs) = jobs[1]
    BY <2>1, Bounds
  <2>3. BlocksReboot /\ StageOK /\ LiveOwn /\ FoldersOwn /\ CreditIsOwn /\ TriedSoFar
    BY <2>1, <2>2 DEF BlocksReboot, StageOK, LiveOwn, FoldersOwn, Noted, CreditIsOwn, TriedSoFar
  <2>4. Unhalted
    <3>1. \A s \in sessions : s.by = 0 /\ s.state = "calibrating" /\ ByHand(s)
      BY <2>1, <2>2 DEF Init, ByHand, Leaving
    <3> QED BY <2>1, <3>1 DEF Unhalted, Live
  <2> QED BY <2>3, <2>4, InitShape
<1>2. IInv /\ [Next]_vars => IInv'
  <2> SUFFICES ASSUME IInv, [Next]_vars PROVE IInv'
    OBVIOUS
  <2>1. /\ LoopOK /\ FlagsOK /\ PlaceOK /\ UsedOK
        /\ BootsOK /\ RetriedOK /\ TriedOK /\ FoldersOK
    BY DEF Shape
  <2>2. Shape' /\ TriedSoFar'
    BY <2>1, ShapeKept, TriedSoFarKept
  <2>3. BlocksReboot' /\ StageOK'
    BY <2>1, BlocksRebootKept, StageKept
  <2>4. Unhalted' /\ LiveOwn' /\ FoldersOwn'
    BY <2>1, UnhaltedKept, LiveOwnKept, FoldersOwnKept
  <2>5. CreditIsOwn'
    BY <2>1, CreditKept
  <2> QED BY <2>2, <2>3, <2>4, <2>5
<1>3. IInv => CreditIsOwn
  OBVIOUS
<1> QED
  BY <1>1, <1>2, <1>3, PTL DEF Spec

=============================================================================
