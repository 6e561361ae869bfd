------------------------------ MODULE Campaign ------------------------------
(***************************************************************************)
(* The campaign runner: the loop of cloud/azure/campaign.sh, the guard it  *)
(* asks after every run (scripts/run_integrity.py) and the run folders it  *)
(* makes, over the run queue of module RunQueue.                           *)
(*                                                                         *)
(* One campaign runs at a time over a queue.  Every command the loop calls *)
(* is one step, so a crash -- a kill, a power cut, a reboot -- can fall    *)
(* between any two of them, and whoever starts the campaign again may do   *)
(* so at any later time.  A trial is a verdict: count, repeat, or stop.    *)
(* The queue's commands may fail to write (a full disk); its readers are   *)
(* taken not to fail.                                                      *)
(***************************************************************************)
EXTENDS Integers, SequencesExt

CONSTANTS
  Setups, Rounds, MaxAttempts,  \* the design, as in RunQueue
  InARow,                       \* GUARD_IN_A_ROW, 3 in the source
  Window, MinFinished,          \* GUARD_WINDOW and GUARD_MIN_FINISHED, 20 and 10
  SharePercent,                 \* GUARD_SHARE, 20 in the source
  Leftovers                     \* the keys an earlier queue of the same name
                                \* may have left folders for

\* check_design, as in RunQueue.
ASSUME DesignAssumption ==
  /\ IsFiniteSet(Setups) /\ Setups # {}
  /\ Rounds \in Nat \ {0} /\ MaxAttempts \in Nat \ {0}
  /\ Rounds > 1 => Cardinality(Setups) > 1

ASSUME GuardAssumption ==
  /\ InARow \in Nat \ {0}
  /\ Window \in Nat \ {0}
  /\ MinFinished \in Nat \ {0}
  /\ SharePercent \in 0..100

VARIABLES
  rows,      \* the queue's file
  folders,   \* for each key, what its run folder holds
  stopFile,  \* whether runs/azure/STOP is there
  pc,        \* the loop's next step, or "off": no campaign is running
  recover,   \* whether RECOVER still holds --recover
  run,       \* the place in the queue of the run in hand
  verdict,   \* the verdict on the run in hand
  word,      \* the last word this campaign's log has said
  streak     \* how many runs on end this campaign has seen fail

vars == <<rows, folders, stopFile, pc, recover, run, verdict, word, streak>>

Queue == INSTANCE RunQueue

Keys == (1..Rounds) \X Setups \X (1..MaxAttempts)

\* "earlier": left by another queue of the same name; "begun": made, nothing
\* judged in it yet; "counted" and "refused": judged.
FolderStates == {"none", "earlier", "begun", "counted", "refused"}

Verdicts == {"count", "repeat", "stop"}

LoopSteps == {"top", "next", "folder", "trial", "finish", "after"}

NoRun == 0

KeyInHand == Queue!Key(rows[run])

-----------------------------------------------------------------------------
(***************************************************************************)
(* The guard: the last few attempts all failed, or too large a share of    *)
(* the recent ones did.  Attempts finish in file order, one second apart   *)
(* or more, so the latest by finished_utc are the last in the file.        *)
(***************************************************************************)
Finished(q) == Queue!Closed(q)

Latest(q, n) == {i \in Finished(q) : Cardinality({j \in Finished(q) : i < j}) < n}

Failures(q, n) == {i \in Latest(q, n) : q[i].status # "done"}

\* Slip: one failure more is let through.
GuardStopsLate(q) == Cardinality(Failures(q, InARow + 1)) > InARow

GuardStops(q) ==
  \/ Cardinality(Finished(q)) >= InARow /\ Failures(q, InARow) = Latest(q, InARow)
  \/ /\ Cardinality(Finished(q)) >= MinFinished
     /\ 100 * Cardinality(Failures(q, Window))
          > SharePercent * Cardinality(Latest(q, Window))

-----------------------------------------------------------------------------
Init ==
  /\ rows \in Queue!FreshQueues
  /\ \E left \in SUBSET Leftovers :
       folders = [k \in Keys |-> IF k \in left THEN "earlier" ELSE "none"]
  /\ stopFile \in BOOLEAN
  /\ pc = "off"
  /\ recover = FALSE
  /\ run = NoRun
  /\ verdict = "count"
  /\ word = "none"
  /\ streak = 0

\* The script's own variables, before it starts and once it is gone.
ScriptGone ==
  pc' = "off" /\ recover' = FALSE /\ run' = NoRun /\ verdict' = "count" /\ streak' = 0

\* The campaign ends, with a last word in its log.
End(said) == ScriptGone /\ word' = said

\* The campaign is started and finds the testbed ready.
Start ==
  /\ pc = "off"
  /\ pc' = "top"
  /\ recover' = TRUE
  /\ word' = "none"
  /\ UNCHANGED <<rows, folders, stopFile, run, verdict, streak>>

\* It is started and the testbed is not ready.
StartRefused ==
  /\ pc = "off"
  /\ word' = "FATAL"
  /\ UNCHANGED <<rows, folders, stopFile, pc, recover, run, verdict, streak>>

\* Somebody asks for a stop, whether or not a campaign is running.
AskStop ==
  /\ stopFile' = TRUE
  /\ UNCHANGED <<rows, folders, pc, recover, run, verdict, word, streak>>

\* The loop's first lines: a stop asked for is obeyed, and forgotten.
TopStops ==
  /\ pc = "top" /\ stopFile
  /\ stopFile' = FALSE
  /\ End("STOPPED")
  /\ UNCHANGED <<rows, folders>>

TopGoesOn ==
  /\ pc = "top" /\ ~stopFile
  /\ pc' = "next"
  /\ UNCHANGED <<rows, folders, stopFile, recover, run, verdict, word, streak>>

-----------------------------------------------------------------------------
(***************************************************************************)
(* run_queue.py next, with --recover the first time and without it after.  *)
(***************************************************************************)
Refused == ~recover /\ Queue!Running(rows) # {}

\* The queue as next finds it, once it has recorded what was left running.
Ready == IF recover THEN Queue!Recovered(rows) ELSE {rows}

NextHands ==
  /\ pc = "next" /\ ~Refused
  /\ \E q \in Ready :
       /\ Queue!Queued(q) # {}
       /\ rows' = Queue!Take(q)
       /\ run' = Queue!FirstQueued(q)
  /\ pc' = "folder"
  /\ recover' = FALSE
  /\ UNCHANGED <<folders, stopFile, verdict, word, streak>>

\* Slip: next's exit 3 is not told from a run handed out.
NextFinishedUnseen ==
  /\ pc = "next" /\ ~Refused
  /\ \E q \in Ready : Queue!Queued(q) = {} /\ rows' = q
  /\ pc' = "top"
  /\ UNCHANGED <<folders, stopFile, recover, run, verdict, word, streak>>

\* Slip: a queue with nothing queued is complete, whatever is marked running.
NextFinishedEarly ==
  /\ pc = "next"
  /\ Queue!Queued(rows) = {}
  /\ rows' = rows
  /\ End("COMPLETE")
  /\ UNCHANGED <<folders, stopFile>>

NextFinished ==
  /\ pc = "next" /\ ~Refused
  /\ \E q \in Ready : Queue!Queued(q) = {} /\ rows' = q
  /\ End("COMPLETE")
  /\ UNCHANGED <<folders, stopFile>>

\* A run is marked running already, or the queue could not be written.
NextFails ==
  /\ pc = "next"
  /\ End("FATAL")
  /\ UNCHANGED <<rows, folders, stopFile>>

-----------------------------------------------------------------------------
(***************************************************************************)
(* The run's folder, its trial, and its line in the ledger.                *)
(***************************************************************************)
FolderTaken ==
  /\ pc = "folder" /\ folders[KeyInHand] # "none"
  /\ End("FATAL")
  /\ UNCHANGED <<rows, folders, stopFile>>

\* Slip: the folder is made with mkdir -p and nobody asks whether it was there.
MakeFolderUnasked ==
  /\ pc = "folder"
  /\ folders' = [folders EXCEPT ![KeyInHand] = "begun"]
  /\ verdict' = "count"
  /\ pc' = "trial"
  /\ UNCHANGED <<rows, stopFile, recover, run, word, streak>>

MakeFolder ==
  /\ pc = "folder" /\ folders[KeyInHand] = "none"
  /\ folders' = [folders EXCEPT ![KeyInHand] = "begun"]
  /\ verdict' = "count"
  /\ pc' = "trial"
  /\ UNCHANGED <<rows, stopFile, recover, run, word, streak>>

RunOne ==
  /\ pc = "trial"
  /\ verdict' \in Verdicts
  /\ folders' = [folders EXCEPT ![KeyInHand] =
                   IF verdict' = "count" THEN "counted" ELSE "refused"]
  /\ pc' = "finish"
  /\ UNCHANGED <<rows, stopFile, recover, run, word, streak>>

\* Slip: the run is closed as done unless the campaign is to stop.
FinishUnlessStop ==
  /\ pc = "finish"
  /\ \/ verdict # "stop" /\ rows' = Queue!Mark(rows, run, "done") /\ streak' = 0
     \/ verdict = "stop" /\ rows' \in Queue!Fail(rows, run) /\ streak' = streak + 1
  /\ pc' = "after"
  /\ UNCHANGED <<folders, stopFile, recover, run, verdict, word>>

\* Slip: a run that counted may be closed as failed.
FinishEither ==
  /\ pc = "finish"
  /\ \/ verdict = "count" /\ rows' = Queue!Mark(rows, run, "done") /\ streak' = 0
     \/ rows' \in Queue!Fail(rows, run) /\ streak' = streak + 1
  /\ pc' = "after"
  /\ UNCHANGED <<folders, stopFile, recover, run, verdict, word>>

\* Slip: a run that failed goes back to the queue in its own place.
FinishInPlace ==
  /\ pc = "finish"
  /\ \/ verdict = "count" /\ rows' = Queue!Mark(rows, run, "done") /\ streak' = 0
     \/ verdict # "count" /\ rows' = Queue!Mark(rows, run, "queued") /\ streak' = streak + 1
  /\ pc' = "after"
  /\ UNCHANGED <<folders, stopFile, recover, run, verdict, word>>

Finish ==
  /\ pc = "finish"
  /\ \/ verdict = "count" /\ rows' = Queue!Mark(rows, run, "done") /\ streak' = 0
     \/ verdict # "count" /\ rows' \in Queue!Fail(rows, run) /\ streak' = streak + 1
  /\ pc' = "after"
  /\ UNCHANGED <<folders, stopFile, recover, run, verdict, word>>

\* The ledger could not be written, and the loop does not ask.
FinishFails ==
  /\ pc = "finish"
  /\ pc' = "after"
  /\ UNCHANGED <<rows, folders, stopFile, recover, run, verdict, word, streak>>

\* A stop rule of the run's own, or the guard's.
StopRule ==
  /\ pc = "after"
  /\ verdict = "stop" \/ GuardStops(rows)
  /\ End("STOP_RULE")
  /\ UNCHANGED <<rows, folders, stopFile>>

GoOn ==
  /\ pc = "after"
  /\ verdict # "stop" /\ ~GuardStops(rows)
  /\ pc' = "top"
  /\ run' = NoRun
  /\ UNCHANGED <<rows, folders, stopFile, recover, verdict, word, streak>>

\* The runner is gone, with nothing said.
Crash ==
  /\ pc # "off"
  /\ ScriptGone
  /\ UNCHANGED <<rows, folders, stopFile, word>>

-----------------------------------------------------------------------------
Loop ==
  \/ TopStops \/ TopGoesOn
  \/ NextHands \/ NextFinished \/ NextFails
  \/ FolderTaken \/ MakeFolder \/ RunOne
  \/ Finish \/ FinishFails
  \/ StopRule \/ GoOn

Next == Start \/ StartRefused \/ AskStop \/ Loop \/ Crash

\* A campaign that is running goes on to its next step: the loop is one shell
\* script that waits for nobody.
Fairness == WF_vars(Loop)

Spec == Init /\ [][Next]_vars /\ Fairness

-----------------------------------------------------------------------------
(***************************************************************************)
(* Properties.                                                             *)
(***************************************************************************)
\* A folder that is already there when a run comes to it was left by another
\* queue: no key of this queue is handed out twice, whatever crashes and
\* failed writes went before.
NeverTwiceInAFolder ==
  pc = "folder" => folders[KeyInHand] \in {"none", "earlier"}

\* What a folder holds once its run is judged, and what another queue left, is
\* never written over ("a run never writes into another run's folder").
FoldersKept ==
  [][\A k \in Keys : folders[k] \in {"earlier", "counted", "refused"}
       => folders'[k] = folders[k]]_vars

\* Every run the ledger calls done counted, in a folder of its own.
DoneIsCounted ==
  \A i \in DOMAIN rows :
    rows[i].status = "done" => folders[Queue!Key(rows[i])] = "counted"

\* A run that counted is never closed as a failure by its own campaign: only
\* a campaign started later, which found it still marked running, does that.
CountedIsKept ==
  [][\A i \in Queue!Running(rows) :
       folders[Queue!Key(rows[i])] = "counted"
         /\ rows'[i].status \in {"failed", "abandoned"}
         => recover /\ pc = "next"]_vars

\* CAMPAIGN_COMPLETE is said only when every planned run is done or abandoned.
CompleteIsComplete ==
  word = "COMPLETE" =>
    \A u \in Queue!Units : \E i \in DOMAIN rows :
      Queue!Unit(rows[i]) = u /\ rows[i].status \in {"done", "abandoned"}

\* One campaign never records more than GUARD_IN_A_ROW failures on end.
GuardHolds == streak <= InARow

\* Everything the campaign does to the queue is one of the queue's commands.
LedgerUsed == Queue!Spec

\* A campaign that has started does not run for ever.
Ends == (pc # "off") ~> (pc = "off")

=============================================================================
