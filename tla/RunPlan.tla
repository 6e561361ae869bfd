------------------------------ MODULE RunPlan -------------------------------
(***************************************************************************)
(* What the run queue promises, without the queue: every planned run is    *)
(* waiting, in hand, done or given up; one run is in hand at a time; a run *)
(* that fails waits for its next attempt until the attempts are used up;   *)
(* and what is done or given up stays so.  The order runs are taken in is  *)
(* left open.                                                              *)
(***************************************************************************)
EXTENDS Integers

CONSTANTS Units,       \* the planned runs
          MaxAttempts  \* how many attempts each is given

VARIABLE plan  \* for each planned run, the attempt it is at and its state

States == {"waiting", "in hand", "done", "given up"}

TypeOK == plan \in [Units -> [attempt: 1..MaxAttempts, state: States]]

InHand == {u \in Units : plan[u].state = "in hand"}

AfterFailure(entry) ==
  IF entry.attempt < MaxAttempts
  THEN [attempt |-> entry.attempt + 1, state |-> "waiting"]
  ELSE [entry EXCEPT !.state = "given up"]

Init == plan = [u \in Units |-> [attempt |-> 1, state |-> "waiting"]]

Start(u) ==
  /\ InHand = {}
  /\ plan[u].state = "waiting"
  /\ plan' = [plan EXCEPT ![u].state = "in hand"]

Succeed(u) ==
  /\ plan[u].state = "in hand"
  /\ plan' = [plan EXCEPT ![u].state = "done"]

Lose(u) ==
  /\ plan[u].state = "in hand"
  /\ plan' = [plan EXCEPT ![u] = AfterFailure(@)]

\* A recovery: the run in hand is recorded as a failure and, in the same step,
\* another run -- or the same one again -- is taken in hand.
LoseAndStart(u, v) ==
  LET lost == [plan EXCEPT ![u] = AfterFailure(@)]
  IN  /\ plan[u].state = "in hand"
      /\ lost[v].state = "waiting"
      /\ plan' = [lost EXCEPT ![v].state = "in hand"]

Next ==
  \/ \E u \in Units : Start(u) \/ Succeed(u) \/ Lose(u)
  \/ \E u, v \in Units : LoseAndStart(u, v)

Spec == Init /\ [][Next]_plan

=============================================================================
