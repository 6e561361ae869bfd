------------------------------ MODULE RunQueue ------------------------------
(***************************************************************************)
(* The randomised run queue and the ledger it keeps (scripts/run_queue.py). *)
(* The queue is one CSV file.  Each command of the script reads the whole  *)
(* file, changes it and puts a complete new file in its place (os.replace), *)
(* so a command is one step of this module and a crash inside a command    *)
(* leaves the file as it was.                                              *)
(*                                                                         *)
(* A row keeps the fields the rules read: round and setup (the planned run *)
(* it belongs to), attempt and status.  Parameters, reasons, time stamps,  *)
(* run folders and the seed are left out; what the seed decides -- the     *)
(* shuffles and the place of a copy -- is a choice of any allowed value.   *)
(***************************************************************************)
EXTENDS Integers, SequencesExt

CONSTANTS
  Setups,      \* the ids of the design's setups
  Rounds,      \* how many times each setup is planned
  MaxAttempts  \* MAX_ATTEMPTS, 3 in the source

\* check_design: a design without setups or rounds is refused, and so is one
\* whose single setup would have to follow itself.
ASSUME DesignAssumption ==
  /\ IsFiniteSet(Setups)
  /\ Setups # {}
  /\ Rounds \in Nat \ {0}
  /\ Rounds > 1 => Cardinality(Setups) > 1
  /\ MaxAttempts \in Nat \ {0}

VARIABLE rows  \* the CSV file, in file order

Statuses == {"queued", "running", "done", "failed", "abandoned"}

Row == [round: 1..Rounds, setup: Setups, attempt: 1..MaxAttempts,
        status: Statuses]

\* The planned run a row belongs to, and the key that names the row itself
\* ("r<round>-<setup>-a<attempt>").
Unit(row) == <<row.round, row.setup>>
Key(row)  == <<row.round, row.setup, row.attempt>>

Units == (1..Rounds) \X Setups

Having(q, statuses) == {i \in DOMAIN q : q[i].status \in statuses}
Queued(q)  == Having(q, {"queued"})
Running(q) == Having(q, {"running"})
Closed(q)  == Having(q, {"done", "failed", "abandoned"})

-----------------------------------------------------------------------------
(***************************************************************************)
(* make: one shuffle of the setups per round, no round opening with the    *)
(* setup the round before it closed on, every run queued for the first     *)
(* time.                                                                   *)
(***************************************************************************)
Width == Cardinality(Setups)

ShuffledRounds ==
  {orders \in [1..Rounds -> SetToSeqs(Setups)] :
     \A r \in 1..(Rounds - 1) : orders[r + 1][1] # orders[r][Width]}

RoundOf(k) == ((k - 1) \div Width) + 1
PlaceOf(k) == ((k - 1) % Width) + 1

MakeRows(orders) ==
  [k \in 1..(Rounds * Width) |->
     [round |-> RoundOf(k), setup |-> orders[RoundOf(k)][PlaceOf(k)],
      attempt |-> 1, status |-> "queued"]]

FreshQueues == {MakeRows(orders) : orders \in ShuffledRounds}

-----------------------------------------------------------------------------
(***************************************************************************)
(* fail: the row keeps its place and is marked failed, and a copy for the  *)
(* next attempt goes in at some later place, beside no run of the same     *)
(* setup if such a place exists.  With the attempts used up there is no    *)
(* copy and the row is abandoned.  Position p puts the copy before what is *)
(* now row p; Len(q) + 1 puts it at the end.                               *)
(***************************************************************************)
Mark(q, i, status) == [q EXCEPT ![i].status = status]

BesideSameSetup(q, p, setup) ==
  \/ p > 1 /\ q[p - 1].setup = setup
  \/ p <= Len(q) /\ q[p].setup = setup

Later(q, i) == (i + 1)..(Len(q) + 1)

Allowed(q, i) == {p \in Later(q, i) : ~BesideSameSetup(q, p, q[i].setup)}

\* Slip: any later place will do.
SlotsUnchecked(q, i) == Later(q, i)

Slots(q, i) == IF Allowed(q, i) # {} THEN Allowed(q, i) ELSE Later(q, i)

\* Slip: the copy keeps the attempt, and so the key, of the failed row.
CopySameAttempt(row) == [row EXCEPT !.status = "queued"]

Copy(row) == [row EXCEPT !.status = "queued", !.attempt = @ + 1]

\* Slip: the attempts are counted one too far.
FailOnceMore(q, i) ==
  IF q[i].attempt > MaxAttempts
  THEN {Mark(q, i, "abandoned")}
  ELSE {InsertAt(Mark(q, i, "failed"), p, Copy(q[i])) : p \in Slots(q, i)}

Fail(q, i) ==
  IF q[i].attempt >= MaxAttempts
  THEN {Mark(q, i, "abandoned")}
  ELSE {InsertAt(Mark(q, i, "failed"), p, Copy(q[i])) : p \in Slots(q, i)}

\* take_next's last loop: the first queued row starts running.
FirstQueued(q) == CHOOSE i \in Queued(q) : \A j \in Queued(q) : i <= j

Take(q) == IF Queued(q) = {} THEN q ELSE Mark(q, FirstQueued(q), "running")

\* Slip: an interrupted run is marked failed, but not queued again.
RecoveredUncopied(q) == {[i \in DOMAIN q |->
  IF i \in Running(q) THEN [q[i] EXCEPT !.status = "failed"] ELSE q[i]]}

\* What next --recover makes of the rows still marked running: each becomes a
\* failure.  The code walks a list of them; InOrder says it never has more
\* than one member.
Recovered(q) ==
  IF Running(q) = {} THEN {q} ELSE UNION {Fail(q, i) : i \in Running(q)}

-----------------------------------------------------------------------------
(***************************************************************************)
(* The commands.                                                           *)
(***************************************************************************)
Init == rows \in FreshQueues

\* Slip: next hands out a run while another is marked running.
NextRunUnrefused == rows' = Take(rows)

\* next: refused while a row is marked running.
NextRun ==
  /\ Running(rows) = {}
  /\ rows' = Take(rows)

\* next --recover
NextRecover == \E q \in Recovered(rows) : rows' = Take(q)

\* Slip: finish does not ask that the row be marked running.
FinishDoneUnasked ==
  \E i \in DOMAIN rows \ Closed(rows) : rows' = Mark(rows, i, "done")

\* finish --status done
FinishDone == \E i \in Running(rows) : rows' = Mark(rows, i, "done")

\* finish --status failed
FinishFailed == \E i \in Running(rows) : rows' \in Fail(rows, i)

\* Slip: make --force replaces a queue that has started.
RemakeStarted == rows' \in FreshQueues

\* make --force over a queue none of whose runs has started
Remake ==
  /\ \A i \in DOMAIN rows : rows[i].status = "queued"
  /\ rows' \in FreshQueues

Next == NextRun \/ NextRecover \/ FinishDone \/ FinishFailed \/ Remake

Spec == Init /\ [][Next]_rows

-----------------------------------------------------------------------------
(***************************************************************************)
(* Properties.                                                             *)
(***************************************************************************)

\* Every row of the file is a row the script writes, with no attempt past
\* MAX_ATTEMPTS.
TypeOK == rows \in Seq(Row)

InFileOrder(q) ==
  \A i, j \in DOMAIN q :
    i < j /\ q[i].status \in {"queued", "running"} => q[j].status = "queued"

OnlyFailuresCopied(q) ==
  \A i, j \in DOMAIN q :
    i < j /\ Unit(q[i]) = Unit(q[j])
      => q[i].status = "failed" /\ q[i].attempt < q[j].attempt

NoAttemptSkipped(q) ==
  \A j \in DOMAIN q :
    q[j].attempt > 1
      => \E i \in DOMAIN q : /\ i < j
                             /\ Unit(q[i]) = Unit(q[j])
                             /\ q[i].attempt = q[j].attempt - 1

AllPlanned(q) == \A u \in Units : \E i \in DOMAIN q : Unit(q[i]) = u

FailuresFollowed(q) ==
  \A i \in DOMAIN q :
    q[i].status = "failed"
      => \E j \in DOMAIN q : /\ i < j
                             /\ Unit(q[j]) = Unit(q[i])
                             /\ q[j].attempt = q[i].attempt + 1

AbandonedLast(q) ==
  \A i \in DOMAIN q : q[i].status = "abandoned" => q[i].attempt = MaxAttempts

\* Runs are handed out in file order, one at a time: nothing that has started
\* comes after a queued row, and only queued rows come after a running one.
\* next takes the first queued row and fail puts copies only later than it.
InOrder == InFileOrder(rows)

\* A planned run has a second row only because the first one failed: of two
\* rows of one planned run the earlier is marked failed, the later is a later
\* attempt, and no attempt is skipped.  So nothing puts a finished run back in
\* the queue, and no key appears twice.
OneLineage == OnlyFailuresCopied(rows) /\ NoAttemptSkipped(rows)

\* No planned run drops out: each is in the ledger from the start, a failed row
\* is always followed by its next attempt, and a run is abandoned only at its
\* last attempt.
NothingLost ==
  AllPlanned(rows) /\ FailuresFollowed(rows) /\ AbandonedLast(rows)

\* The ledger's past is kept: a row that is done, failed or abandoned keeps its
\* place and its contents through every later command, a forced make included.
PastIsKept ==
  [][\A i \in Closed(rows) : i \in DOMAIN rows' /\ rows'[i] = rows[i]]_rows

\* How many runs are followed at once by a run of the same setup.
Repeats(q) ==
  Cardinality({k \in 1..(Len(q) - 1) : q[k].setup = q[k + 1].setup})

\* A copy goes beside a run of its own setup only if every later place would
\* put it beside one ("never beside a run of the same setup if that can be
\* avoided").
CopyApart ==
  [][Len(rows') > Len(rows) /\ Repeats(rows') > Repeats(rows)
       => \A i \in Running(rows) : \A p \in Later(rows, i) :
            Repeats(InsertAt(rows, p, rows[i])) > Repeats(rows)]_rows

-----------------------------------------------------------------------------
(***************************************************************************)
(* The queue implements the plan: a planned run is where its last row is.  *)
(***************************************************************************)
LastRow(q, u) ==
  CHOOSE i \in DOMAIN q :
    Unit(q[i]) = u /\ \A j \in DOMAIN q : Unit(q[j]) = u => j <= i

PlanState ==
  [queued |-> "waiting", running |-> "in hand", done |-> "done",
   abandoned |-> "given up", failed |-> "failed"]

PlanOf(q) ==
  [u \in Units |-> [attempt |-> q[LastRow(q, u)].attempt,
                    state   |-> PlanState[q[LastRow(q, u)].status]]]

Plan == INSTANCE RunPlan WITH plan <- PlanOf(rows)

\* Every command of the queue is a step of the plan, or changes nothing in it.
ImplementsPlan == Plan!Spec

=============================================================================
