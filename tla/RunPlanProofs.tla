---------------------------- MODULE RunPlanProofs ----------------------------
(***************************************************************************)
(* The run queue implements RunPlan, for every design.                     *)
(*                                                                         *)
(* The plan's view of a planned run is its last row.  In a good queue that *)
(* is its one row that has not failed, which is what makes the view easy   *)
(* to follow through a command: a command that marks such a row moves one  *)
(* entry of the plan, and a copy takes the failed row's place in it.       *)
(***************************************************************************)
EXTENDS RunQueueProofs

-----------------------------------------------------------------------------
\* What the plan says of a planned run, in terms of its row that has not failed.
Entry(row) == [attempt |-> row.attempt, state |-> PlanState[row.status]]

\* An entry keeps the row's attempt, and tells what is in hand by its status.
LEMMA EntryFacts ==
  ASSUME NEW row
  PROVE  /\ Entry(row).attempt = row.attempt
         /\ row.status = "queued" => Entry(row).state = "waiting"
         /\ row.status = "running" => Entry(row).state = "in hand"
         /\ row.status \in {"queued", "done", "abandoned"} => Entry(row).state # "in hand"
<1>1. Entry(row).attempt = row.attempt /\ Entry(row).state = PlanState[row.status]
  BY DEF Entry
<1>2. /\ PlanState["queued"] = "waiting" /\ PlanState["running"] = "in hand"
      /\ PlanState["done"] = "done" /\ PlanState["abandoned"] = "given up"
  BY DEF PlanState
<1>3. row.status = "queued" => Entry(row).state = "waiting"
  BY <1>1, <1>2, Zenon
<1>4. row.status = "running" => Entry(row).state = "in hand"
  BY <1>1, <1>2, Zenon
<1>5. ASSUME row.status \in {"queued", "done", "abandoned"}
      PROVE  Entry(row).state # "in hand"
  <2>1. Entry(row).state = "waiting" \/ Entry(row).state = "done" \/ Entry(row).state = "given up"
    BY <1>1, <1>2, <1>5, Zenon
  <2> QED
    BY <2>1
<1> QED
  BY <1>1, <1>3, <1>4, <1>5

\* The entry of a planned run is that of its row that has not failed.
LEMMA PlanAt ==
  ASSUME NEW q, Good(q), NEW i \in DOMAIN q, q[i].status # "failed"
  PROVE  /\ Unit(q[i]) \in Units
         /\ PlanOf(q)[Unit(q[i])] = Entry(q[i])
<1>1. Unit(q[i]) \in Units
  BY RowFacts DEF Good
<1>2. LastRow(q, Unit(q[i])) = i
  BY UnfailedIsLast
<1> QED
  BY <1>1, <1>2 DEF PlanOf, Entry

\* Every planned run's entry is that of such a row.
LEMMA PlanFrom ==
  ASSUME NEW q, Good(q), NEW u \in Units
  PROVE  \E i \in DOMAIN q : /\ Unit(q[i]) = u /\ q[i].status # "failed"
                             /\ PlanOf(q)[u] = Entry(q[i])
<1>1. /\ LastRow(q, u) \in DOMAIN q /\ Unit(q[LastRow(q, u)]) = u
      /\ q[LastRow(q, u)].status # "failed"
  BY LastRowFacts
<1> QED
  BY <1>1, PlanAt

-----------------------------------------------------------------------------
(***************************************************************************)
(* What the operators of the queue do to the plan.                         *)
(***************************************************************************)

\* Marking a row that has not failed moves its planned run's entry alone.
LEMMA MarkInPlan ==
  ASSUME NEW q, Good(q), NEW i \in DOMAIN q, q[i].status # "failed",
         NEW status \in Statuses \ {"failed"}, Good(Mark(q, i, status))
  PROVE  PlanOf(Mark(q, i, status)) =
           [PlanOf(q) EXCEPT ![Unit(q[i])].state = PlanState[status]]
<1> DEFINE m == Mark(q, i, status)
           u == Unit(q[i])
<1>1. q \in Seq(Row)
  BY DEF Good
<1>2. /\ DOMAIN m = DOMAIN q
      /\ m[i].status = status
      /\ \A k \in DOMAIN q \ {i} : m[k] = q[k]
      /\ \A k \in DOMAIN q : Unit(m[k]) = Unit(q[k]) /\ m[k].attempt = q[k].attempt
  BY <1>1, MarkFacts
<1> HIDE DEF m
<1>3. u \in Units /\ PlanOf(q)[u] = Entry(q[i])
  BY PlanAt
<1>4. PlanOf(m)[u] = [PlanOf(q)[u] EXCEPT !.state = PlanState[status]]
  <2>1. PlanOf(m)[Unit(m[i])] = Entry(m[i])
    BY <1>2, PlanAt DEF m
  <2> QED
    BY <1>2, <1>3, <2>1 DEF Entry
<1>5. ASSUME NEW v \in Units, v # u
      PROVE  PlanOf(m)[v] = PlanOf(q)[v]
  <2>1. PICK j \in DOMAIN q : /\ Unit(q[j]) = v /\ q[j].status # "failed"
                              /\ PlanOf(q)[v] = Entry(q[j])
    BY PlanFrom
  <2>2. j # i /\ m[j] = q[j]
    BY <1>2, <1>5, <2>1
  <2>3. PlanOf(m)[Unit(m[j])] = Entry(m[j])
    BY <1>2, <2>1, <2>2, PlanAt DEF m
  <2> QED
    BY <2>1, <2>2, <2>3
<1>6. /\ PlanOf(m) = [v \in Units |-> PlanOf(m)[v]]
      /\ PlanOf(q) = [v \in Units |-> PlanOf(q)[v]]
  BY DEF PlanOf
<1> HIDE DEF u
<1>7. PlanOf(m) = [PlanOf(q) EXCEPT ![u] = [PlanOf(q)[u] EXCEPT !.state = PlanState[status]]]
  BY <1>3, <1>4, <1>5, <1>6
<1> QED
  BY <1>7 DEF m, u

\* After a failure with attempts left, the copy is the planned run's last row;
\* without, the row is marked abandoned.
LEMMA FailInPlan ==
  ASSUME NEW q, Good(q), NEW i \in Running(q), NEW r \in Fail(q, i)
  PROVE  /\ Unit(q[i]) \in Units
         /\ PlanOf(r) = [PlanOf(q) EXCEPT ![Unit(q[i])] = Plan!AfterFailure(Entry(q[i]))]
<1> DEFINE u == Unit(q[i])
<1>1. q \in Seq(Row) /\ Good(r)
  BY FailKeepsGood DEF Good
<1>2. i \in DOMAIN q /\ q[i].status = "running"
  BY DEF Running, Having
<1>3. u \in Units /\ PlanOf(q)[u] = Entry(q[i])
  BY <1>2, PlanAt
<1>4. /\ PlanOf(r) = [v \in Units |-> PlanOf(r)[v]]
      /\ PlanOf(q) = [v \in Units |-> PlanOf(q)[v]]
  BY DEF PlanOf
<1>5. q[i].attempt \in 1..MaxAttempts /\ MaxAttempts \in Nat
  BY <1>1, <1>2, RowFacts, DesignAssumption
<1>6. CASE q[i].attempt >= MaxAttempts
  <2>1. r = Mark(q, i, "abandoned")
    BY <1>6 DEF Fail
  <2>2. PlanOf(r) = [PlanOf(q) EXCEPT ![u].state = PlanState["abandoned"]]
    <3>1. "abandoned" \in Statuses \ {"failed"}
      BY DEF Statuses
    <3> QED
      BY <1>1, <1>2, <2>1, <3>1, MarkInPlan
  <2>3. Plan!AfterFailure(Entry(q[i])) = [Entry(q[i]) EXCEPT !.state = "given up"]
    <3>1. Entry(q[i]).attempt = q[i].attempt
      BY EntryFacts
    <3>2. ~(q[i].attempt < MaxAttempts)
      BY <1>5, <1>6
    <3>3. ~(Entry(q[i]).attempt < MaxAttempts)
      BY <3>1, <3>2, Zenon
    <3> QED
      BY <3>3 DEF Plan!AfterFailure
  <2>4. PlanState["abandoned"] = "given up"
    BY DEF PlanState
  <2> QED
    BY <1>3, <2>2, <2>3, <2>4
<1>7. CASE q[i].attempt < MaxAttempts
  <2>1. PICK p \in Later(q, i) : r = InsertAt(Mark(q, i, "failed"), p, Copy(q[i]))
    <3>1. r \in {InsertAt(Mark(q, i, "failed"), p, Copy(q[i])) : p \in Slots(q, i)}
      BY <1>5, <1>7 DEF Fail
    <3> QED
      BY <3>1, SlotsAreLater
  <2>2. /\ Len(r) = Len(q) + 1
        /\ i < p /\ p \in 1..Len(r)
        /\ Unit(r[p]) = Unit(q[i])
        /\ r[p].attempt = q[i].attempt + 1
        /\ r[p].status = "queued"
        /\ \A k \in 1..(p - 1) : k # i => r[k] = q[k]
        /\ \A k \in p..Len(q) : r[k + 1] = q[k]
    BY <1>7, <2>1, FailWithCopyFacts
  <2>3. /\ DOMAIN q = 1..Len(q) /\ Len(q) \in Nat
        /\ DOMAIN r = 1..Len(r) /\ Len(r) \in Nat
    BY <1>1, RowFacts DEF Good
  <2>4. PlanOf(r)[u] = Plan!AfterFailure(Entry(q[i]))
    <3>1. PlanOf(r)[Unit(r[p])] = Entry(r[p])
      BY <1>1, <2>2, <2>3, PlanAt
    <3>2. Entry(r[p]) = [attempt |-> q[i].attempt + 1, state |-> "waiting"]
      BY <2>2 DEF Entry, PlanState
    <3>3. Plan!AfterFailure(Entry(q[i])) = [attempt |-> q[i].attempt + 1, state |-> "waiting"]
      BY <1>7 DEF Plan!AfterFailure, Entry
    <3> QED
      BY <2>2, <3>1, <3>2, <3>3
  <2>5. ASSUME NEW v \in Units, v # u
        PROVE  PlanOf(r)[v] = PlanOf(q)[v]
    <3>1. PICK j \in DOMAIN q : /\ Unit(q[j]) = v /\ q[j].status # "failed"
                                /\ PlanOf(q)[v] = Entry(q[j])
      BY PlanFrom
    <3>2. PICK k \in DOMAIN r : r[k] = q[j]
      <4>1. CASE j < p
        <5>1. j \in 1..(p - 1) /\ j # i /\ j \in DOMAIN r
          BY <2>2, <2>3, <2>5, <3>1, <4>1
        <5> QED
          BY <2>2, <5>1
      <4>2. CASE ~(j < p)
        <5>1. j \in p..Len(q) /\ j + 1 \in DOMAIN r
          BY <2>2, <2>3, <4>2
        <5> QED
          BY <2>2, <5>1
      <4> QED
        BY <4>1, <4>2
    <3>3. PlanOf(r)[Unit(r[k])] = Entry(r[k])
      BY <1>1, <3>1, <3>2, PlanAt
    <3> QED
      BY <3>1, <3>2, <3>3
  <2> HIDE DEF u
  <2>6. PlanOf(r) = [PlanOf(q) EXCEPT ![u] = Plan!AfterFailure(Entry(q[i]))]
    BY <1>3, <1>4, <2>4, <2>5
  <2> QED
    BY <1>3, <2>6 DEF u
<1> QED
  BY <1>3, <1>5, <1>6, <1>7

\* With nothing running, nothing is in hand.
LEMMA NothingInHand ==
  ASSUME NEW q, Good(q), Running(q) = {}, NEW u \in Units
  PROVE  PlanOf(q)[u].state # "in hand"
<1>1. PICK j \in DOMAIN q : /\ Unit(q[j]) = u /\ q[j].status # "failed"
                            /\ PlanOf(q)[u] = Entry(q[j])
  BY PlanFrom
<1>2. q[j].status \in Statuses
  BY RowFacts DEF Good
<1>3. q[j].status \in {"queued", "done", "abandoned"}
  BY <1>1, <1>2 DEF Statuses, Running, Having
<1> QED
  BY <1>1, <1>3, EntryFacts

\* Taking the first queued row, if there is one, takes a waiting run in hand.
LEMMA TakeInPlan ==
  ASSUME NEW q, Good(q), Running(q) = {}
  PROVE  \/ Take(q) = q
         \/ \E u \in Units : /\ PlanOf(q)[u].state = "waiting"
                             /\ PlanOf(Take(q)) = [PlanOf(q) EXCEPT ![u].state = "in hand"]
<1>1. CASE Queued(q) = {}
  BY <1>1 DEF Take
<1>2. CASE Queued(q) # {}
  <2> DEFINE i == FirstQueued(q)
             u == Unit(q[i])
  <2>1. i \in DOMAIN q /\ q[i].status = "queued"
    BY <1>2, FirstQueuedExists DEF Good
  <2> HIDE DEF i
  <2>2. u \in Units /\ PlanOf(q)[u] = Entry(q[i])
    BY <2>1, PlanAt
  <2>3. PlanOf(q)[u].state = "waiting"
    BY <2>1, <2>2, EntryFacts
  <2>4. Take(q) = Mark(q, i, "running") /\ Good(Take(q))
    BY <1>2, TakeKeepsGood DEF Take, i
  <2>5. "running" \in Statuses \ {"failed"}
    BY DEF Statuses
  <2>6. PlanOf(Take(q)) = [PlanOf(q) EXCEPT ![u].state = PlanState["running"]]
    BY <2>1, <2>4, <2>5, MarkInPlan
  <2>7. PlanState["running"] = "in hand"
    BY DEF PlanState
  <2> QED
    BY <2>2, <2>3, <2>6, <2>7
<1> QED
  BY <1>1, <1>2

\* While every row is queued, the plan is as it was at the start.
LEMMA UnstartedPlan ==
  ASSUME NEW q, Good(q), \A k \in DOMAIN q : q[k].status = "queued"
  PROVE  PlanOf(q) = [u \in Units |-> [attempt |-> 1, state |-> "waiting"]]
<1>1. ASSUME NEW u \in Units
      PROVE  PlanOf(q)[u] = [attempt |-> 1, state |-> "waiting"]
  <2>1. PICK j \in DOMAIN q : /\ Unit(q[j]) = u /\ q[j].status # "failed"
                              /\ PlanOf(q)[u] = Entry(q[j])
    BY PlanFrom
  <2>2. q[j].attempt = 1
    <3> SUFFICES ASSUME q[j].attempt # 1 PROVE FALSE
      OBVIOUS
    <3>1. q[j].attempt > 1
      BY DesignAssumption, RowFacts DEF Good
    <3>2. PICK i \in DOMAIN q : i < j /\ Unit(q[i]) = Unit(q[j])
      BY <3>1 DEF Good, NoAttemptSkipped
    <3>3. q[i].status = "failed"
      BY <3>2 DEF Good, OnlyFailuresCopied
    <3> QED
      BY <3>3
  <2> QED
    <3>1. Entry(q[j]) = [attempt |-> q[j].attempt, state |-> Entry(q[j]).state]
      BY DEF Entry
    <3>2. Entry(q[j]).state = "waiting"
      BY <2>1, EntryFacts
    <3> QED
      BY <2>1, <2>2, <3>1, <3>2
<1>2. PlanOf(q) = [u \in Units |-> PlanOf(q)[u]]
  BY DEF PlanOf
<1> QED
  BY <1>1, <1>2

-----------------------------------------------------------------------------
(***************************************************************************)
(* The commands, and the theorem.                                          *)
(***************************************************************************)

\* Taking a run in hand, as a step of the plan.
LEMMA TakeIsStart ==
  ASSUME Good(rows), Running(rows) = {}, rows' = Take(rows)
  PROVE  Plan!Next \/ PlanOf(rows)' = PlanOf(rows)
<1>1. CASE Take(rows) = rows
  BY <1>1
<1>2. CASE \E u \in Units : /\ PlanOf(rows)[u].state = "waiting"
                            /\ PlanOf(Take(rows)) = [PlanOf(rows) EXCEPT ![u].state = "in hand"]
  <2>1. PICK u \in Units : /\ PlanOf(rows)[u].state = "waiting"
                           /\ PlanOf(rows') = [PlanOf(rows) EXCEPT ![u].state = "in hand"]
    BY <1>2
  <2>2. Plan!InHand = {}
    BY NothingInHand DEF Plan!InHand
  <2>3. Plan!Start(u)
    BY <2>1, <2>2 DEF Plan!Start
  <2> QED
    BY <2>3 DEF Plan!Next
<1> QED
  BY <1>1, <1>2, TakeInPlan

\* A failure, as a step of the plan.
LEMMA FailIsLose ==
  ASSUME Good(rows), NEW i \in Running(rows), rows' \in Fail(rows, i)
  PROVE  Plan!Next
<1> DEFINE u == Unit(rows[i])
<1>1. i \in DOMAIN rows /\ rows[i].status = "running"
  BY DEF Running, Having
<1>2. /\ u \in Units
      /\ PlanOf(rows') = [PlanOf(rows) EXCEPT ![u] = Plan!AfterFailure(Entry(rows[i]))]
  BY FailInPlan
<1>3. PlanOf(rows)[u] = Entry(rows[i]) /\ PlanOf(rows)[u].state = "in hand"
  BY <1>1, PlanAt, EntryFacts
<1>4. Plan!Lose(u)
  BY <1>2, <1>3 DEF Plan!Lose
<1> QED
  BY <1>2, <1>4 DEF Plan!Next

\* A failure after which a run is taken in hand, as one step of the plan.
LEMMA RecoverIsLoseAndStart ==
  ASSUME Good(rows), NEW i \in Running(rows), NEW q \in Fail(rows, i), rows' = Take(q)
  PROVE  Plan!Next
<1> DEFINE u == Unit(rows[i])
           lost == [PlanOf(rows) EXCEPT ![u] = Plan!AfterFailure(@)]
<1>1. Good(q) /\ Running(q) = {}
  BY FailKeepsGood
<1>2. CASE Take(q) = q
  BY <1>2, FailIsLose
<1>3. CASE \E v \in Units : /\ PlanOf(q)[v].state = "waiting"
                            /\ PlanOf(Take(q)) = [PlanOf(q) EXCEPT ![v].state = "in hand"]
  <2>1. PICK v \in Units : /\ PlanOf(q)[v].state = "waiting"
                           /\ PlanOf(rows') = [PlanOf(q) EXCEPT ![v].state = "in hand"]
    BY <1>3
  <2>2. i \in DOMAIN rows /\ rows[i].status = "running"
    BY DEF Running, Having
  <2>3. PlanOf(rows)[u] = Entry(rows[i]) /\ PlanOf(rows)[u].state = "in hand"
    BY <2>2, PlanAt, EntryFacts
  <2>4. u \in Units /\ PlanOf(q) = lost
    <3>1. /\ u \in Units
          /\ PlanOf(q) = [PlanOf(rows) EXCEPT ![u] = Plan!AfterFailure(Entry(rows[i]))]
      BY FailInPlan
    <3> QED
      BY <2>3, <3>1
  <2>5. Plan!LoseAndStart(u, v)
    BY <2>1, <2>3, <2>4 DEF Plan!LoseAndStart
  <2> QED
    BY <2>4, <2>5 DEF Plan!Next
<1> QED
  BY <1>1, <1>2, <1>3, TakeInPlan

\* Every step of the queue is a step of the plan, or changes nothing in it.
LEMMA StepInPlan ==
  ASSUME Good(rows), [Next]_rows
  PROVE  Plan!Next \/ PlanOf(rows)' = PlanOf(rows)
<1>1. Good(rows')
  BY StepKeeps DEF Kept
<1>2. CASE NextRun
  BY <1>2, TakeIsStart DEF NextRun
<1>3. CASE NextRecover
  <2>1. PICK q \in Recovered(rows) : rows' = Take(q)
    BY <1>3 DEF NextRecover
  <2>2. CASE Running(rows) = {}
    BY <2>1, <2>2, TakeIsStart DEF Recovered
  <2>3. CASE Running(rows) # {}
    <3>1. PICK i \in Running(rows) : q \in Fail(rows, i)
      BY <2>1, <2>3 DEF Recovered
    <3> QED
      BY <2>1, <3>1, RecoverIsLoseAndStart
  <2> QED
    BY <2>2, <2>3
<1>4. CASE FinishDone
  <2>1. PICK i \in Running(rows) : rows' = Mark(rows, i, "done")
    BY <1>4 DEF FinishDone
  <2> DEFINE u == Unit(rows[i])
  <2>2. i \in DOMAIN rows /\ rows[i].status = "running"
    BY DEF Running, Having
  <2>3. u \in Units /\ PlanOf(rows)[u].state = "in hand"
    BY <2>2, PlanAt, EntryFacts
  <2>4. "done" \in Statuses \ {"failed"} /\ PlanState["done"] = "done"
    BY DEF Statuses, PlanState
  <2>5. PlanOf(rows') = [PlanOf(rows) EXCEPT ![u].state = PlanState["done"]]
    BY <1>1, <2>1, <2>2, <2>4, MarkInPlan
  <2>6. Plan!Succeed(u)
    BY <2>3, <2>4, <2>5 DEF Plan!Succeed
  <2> QED
    BY <2>3, <2>6 DEF Plan!Next
<1>5. CASE FinishFailed
  BY <1>5, FailIsLose DEF FinishFailed
<1>6. CASE Remake
  <2>1. \A k \in DOMAIN rows' : rows'[k].status = "queued"
    BY <1>6, FreshIsGood DEF Remake
  <2>2. \A k \in DOMAIN rows : rows[k].status = "queued"
    BY <1>6 DEF Remake
  <2>3. PlanOf(rows') = PlanOf(rows)
    BY <1>1, <2>1, <2>2, UnstartedPlan
  <2> QED
    BY <2>3
<1>7. CASE UNCHANGED rows
  BY <1>7
<1> QED
  BY <1>2, <1>3, <1>4, <1>5, <1>6, <1>7 DEF Next

\* The queue implements the plan: whatever commands are given, each planned run
\* waits, is taken in hand alone, and is done or given up after its last
\* attempt, once and for all.
THEOREM QueueImplementsPlan == Spec => ImplementsPlan
<1>1. Init => Plan!Init
  <2> SUFFICES ASSUME Init PROVE Plan!Init
    OBVIOUS
  <2>1. Good(rows) /\ \A k \in DOMAIN rows : rows[k].status = "queued"
    BY FreshIsGood DEF Init
  <2> QED
    BY <2>1, UnstartedPlan DEF Plan!Init
<1>2. Good(rows) /\ [Next]_rows => [Plan!Next]_(PlanOf(rows))
  BY StepInPlan
<1> QED
  BY <1>1, <1>2, LedgerGood, PTL DEF Spec, ImplementsPlan, Plan!Spec

=============================================================================
