--------------------------- MODULE RunQueueProofs ---------------------------
(***************************************************************************)
(* The run queue keeps its invariants for every design: any number of      *)
(* setups and rounds, any number of attempts.                              *)
(*                                                                         *)
(* The four invariants of RunQueue are inductive only together.  Good(q)   *)
(* is their conjunction for a queue q; the lemmas show that a fresh queue  *)
(* is good and that taking, closing and failing a run keep it good, and    *)
(* the theorems put the commands together from them.                       *)
(***************************************************************************)
EXTENDS RunQueue, SequenceTheorems, FiniteSetTheorems,
        WellFoundedInduction, TLAPS

Good(q) ==
  /\ q \in Seq(Row)
  /\ InFileOrder(q)
  /\ OnlyFailuresCopied(q)
  /\ NoAttemptSkipped(q)
  /\ AllPlanned(q)
  /\ FailuresFollowed(q)
  /\ AbandonedLast(q)

-----------------------------------------------------------------------------
(***************************************************************************)
(* Sequences.                                                              *)
(***************************************************************************)

\* What an insertion makes of a sequence: the earlier elements keep their
\* places and the later ones move up by one.
LEMMA InsertAtFacts ==
  ASSUME NEW S, NEW s \in Seq(S), NEW p \in 1..(Len(s) + 1), NEW e \in S
  PROVE  LET r == InsertAt(s, p, e)
         IN  /\ r \in Seq(S)
             /\ Len(r) = Len(s) + 1
             /\ r[p] = e
             /\ \A k \in 1..(p - 1) : r[k] = s[k]
             /\ \A k \in p..Len(s) : r[k + 1] = s[k]
<1> DEFINE a == SubSeq(s, 1, p - 1)
           b == SubSeq(s, p, Len(s))
           r == InsertAt(s, p, e)
<1>1. p \in Int /\ Len(s) \in Nat /\ \A k \in 1..Len(s) : s[k] \in S
  BY ElementOfSeq, LenProperties
<1>2. /\ a \in Seq(S) /\ Len(a) = p - 1
      /\ \A k \in 1..(p - 1) : a[k] = s[k]
  <2>1. \A k \in 1..(p - 1) : s[k] \in S
    BY <1>1
  <2>2. /\ a \in Seq(S) /\ Len(a) = IF 1 <= p - 1 THEN p - 1 - 1 + 1 ELSE 0
        /\ \A k \in 1..(p - 1 - 1 + 1) : a[k] = s[1 + k - 1]
    BY <1>1, <2>1, SubSeqProperties
  <2> QED
    BY <1>1, <2>2
<1>3. /\ b \in Seq(S) /\ Len(b) = Len(s) - p + 1
      /\ \A k \in 1..(Len(s) - p + 1) : b[k] = s[p + k - 1]
  <2>1. \A k \in p..Len(s) : s[k] \in S
    BY <1>1
  <2>2. /\ b \in Seq(S) /\ Len(b) = IF p <= Len(s) THEN Len(s) - p + 1 ELSE 0
        /\ \A k \in 1..(Len(s) - p + 1) : b[k] = s[p + k - 1]
    BY <1>1, <2>1, SubSeqProperties
  <2> QED
    BY <1>1, <2>2
<1>4. <<e>> \in Seq(S) /\ Len(<<e>>) = 1 /\ <<e>>[1] = e
  OBVIOUS
<1> HIDE DEF a, b
<1>5. /\ a \o <<e>> \in Seq(S) /\ Len(a \o <<e>>) = p
      /\ \A k \in 1..p : (a \o <<e>>)[k] = IF k <= p - 1 THEN a[k] ELSE <<e>>[k - (p - 1)]
  BY <1>1, <1>2, <1>4, ConcatProperties
<1>6. /\ r \in Seq(S) /\ Len(r) = Len(s) + 1
      /\ \A k \in 1..(Len(s) + 1) :
           r[k] = IF k <= p THEN (a \o <<e>>)[k] ELSE b[k - p]
  <2>1. r = (a \o <<e>>) \o b
    BY DEF InsertAt, a, b
  <2> HIDE DEF r
  <2>2. /\ (a \o <<e>>) \o b \in Seq(S)
        /\ Len((a \o <<e>>) \o b) = Len(a \o <<e>>) + Len(b)
        /\ \A k \in 1..(Len(a \o <<e>>) + Len(b)) :
             ((a \o <<e>>) \o b)[k] = IF k <= Len(a \o <<e>>) THEN (a \o <<e>>)[k]
                                      ELSE b[k - Len(a \o <<e>>)]
    <3>1. a \o <<e>> \in Seq(S) /\ b \in Seq(S)
      BY <1>3, <1>5
    <3> QED
      BY <3>1, ConcatProperties, Zenon
  <2>3. Len(a \o <<e>>) = p /\ Len(b) = Len(s) - p + 1
    BY <1>3, <1>5
  <2>4. p + (Len(s) - p + 1) = Len(s) + 1
    BY <1>1
  <2> QED
    BY <2>1, <2>2, <2>3, <2>4
<1>7. r[p] = e
  BY <1>1, <1>4, <1>5, <1>6
<1>8. \A k \in 1..(p - 1) : r[k] = s[k]
  BY <1>1, <1>2, <1>5, <1>6
<1>9. \A k \in p..Len(s) : r[k + 1] = s[k]
  <2> TAKE k \in p..Len(s)
  <2>1. k + 1 \in 1..(Len(s) + 1) /\ ~(k + 1 <= p)
    BY <1>1
  <2>2. r[k + 1] = b[k + 1 - p]
    BY <1>6, <2>1
  <2>3. k + 1 - p \in 1..(Len(s) - p + 1) /\ p + (k + 1 - p) - 1 = k
    BY <1>1
  <2> QED
    BY <1>3, <2>2, <2>3
<1> QED
  BY <1>6, <1>7, <1>8, <1>9

\* Marking a row changes its status and nothing else.
LEMMA MarkFacts ==
  ASSUME NEW q \in Seq(Row), NEW i \in DOMAIN q, NEW status \in Statuses
  PROVE  LET m == Mark(q, i, status)
         IN  /\ m \in Seq(Row)
             /\ Len(m) = Len(q)
             /\ DOMAIN m = DOMAIN q
             /\ m[i].status = status
             /\ \A k \in DOMAIN q \ {i} : m[k] = q[k]
             /\ \A k \in DOMAIN q : Unit(m[k]) = Unit(q[k]) /\ m[k].attempt = q[k].attempt
<1> DEFINE m == Mark(q, i, status)
<1>1. DOMAIN q = 1..Len(q) /\ Len(q) \in Nat /\ \A k \in DOMAIN q : q[k] \in Row
  BY ElementOfSeq, LenProperties
<1>2. [q[i] EXCEPT !.status = status] \in Row
  BY <1>1 DEF Row
<1>3. m = [q EXCEPT ![i] = [q[i] EXCEPT !.status = status]]
  BY DEF Mark
<1>4. m \in Seq(Row) /\ Len(m) = Len(q) /\ DOMAIN m = DOMAIN q
  BY <1>1, <1>2, <1>3, ExceptSeq
<1>5. m[i] = [q[i] EXCEPT !.status = status] /\ \A k \in DOMAIN q \ {i} : m[k] = q[k]
  BY <1>3
<1>6. /\ m[i].status = status /\ m[i].round = q[i].round
      /\ m[i].setup = q[i].setup /\ m[i].attempt = q[i].attempt
  BY <1>1, <1>5 DEF Row
<1> QED
  BY <1>4, <1>5, <1>6 DEF Unit

-----------------------------------------------------------------------------
(***************************************************************************)
(* Rows.                                                                   *)
(***************************************************************************)

\* The fields of a row of the file.
LEMMA RowFacts ==
  ASSUME NEW q \in Seq(Row)
  PROVE  /\ DOMAIN q = 1..Len(q)
         /\ Len(q) \in Nat
         /\ \A k \in DOMAIN q :
              /\ q[k] \in Row
              /\ q[k].attempt \in 1..MaxAttempts
              /\ q[k].status \in Statuses
              /\ Unit(q[k]) \in Units
<1>1. DOMAIN q = 1..Len(q) /\ Len(q) \in Nat /\ \A k \in DOMAIN q : q[k] \in Row
  BY ElementOfSeq, LenProperties
<1> QED
  BY <1>1 DEF Row, Unit, Units

\* Runs that go out in order go out one at a time.
LEMMA OneAtATime ==
  ASSUME NEW q \in Seq(Row), InFileOrder(q), NEW i \in Running(q)
  PROVE  /\ i \in DOMAIN q
         /\ q[i].status = "running"
         /\ Running(q) = {i}
         /\ \A k \in DOMAIN q : k < i => q[k].status \notin {"queued", "running"}
         /\ \A k \in DOMAIN q : i < k => q[k].status = "queued"
<1>1. i \in DOMAIN q /\ q[i].status = "running"
  BY DEF Running, Having
<1>2. \A k \in DOMAIN q : k < i => q[k].status \notin {"queued", "running"}
  BY <1>1 DEF InFileOrder
<1>3. \A k \in DOMAIN q : i < k => q[k].status = "queued"
  BY <1>1 DEF InFileOrder
<1>4. \A k \in DOMAIN q : k # i => k < i \/ i < k
  BY <1>1, RowFacts
<1>5. Running(q) = {i}
  BY <1>1, <1>2, <1>3, <1>4 DEF Running, Having
<1> QED
  BY <1>1, <1>2, <1>3, <1>5

\* A row that has not failed may be marked anything but queued or failed, as
\* far as the invariants other than the order are concerned.
LEMMA MarkKeepsGood ==
  ASSUME NEW q, Good(q), NEW i \in DOMAIN q,
         NEW status \in {"running", "done", "abandoned"},
         q[i].status # "failed",
         status = "abandoned" => q[i].attempt = MaxAttempts,
         InFileOrder(Mark(q, i, status))
  PROVE  Good(Mark(q, i, status))
<1> DEFINE m == Mark(q, i, status)
<1>1. q \in Seq(Row)
  BY DEF Good
<1>2. /\ m \in Seq(Row) /\ DOMAIN m = DOMAIN q
      /\ m[i].status = status
      /\ \A k \in DOMAIN q \ {i} : m[k] = q[k]
      /\ \A k \in DOMAIN q : Unit(m[k]) = Unit(q[k]) /\ m[k].attempt = q[k].attempt
  <2>1. status \in Statuses
    BY DEF Statuses
  <2> QED
    BY <1>1, <2>1, MarkFacts
<1> HIDE DEF m
<1>3. OnlyFailuresCopied(m)
  <2> SUFFICES ASSUME NEW a \in DOMAIN m, NEW b \in DOMAIN m,
                      a < b, Unit(m[a]) = Unit(m[b])
               PROVE  m[a].status = "failed" /\ m[a].attempt < m[b].attempt
    BY DEF OnlyFailuresCopied
  <2>1. q[a].status = "failed" /\ q[a].attempt < q[b].attempt
    BY <1>2 DEF Good, OnlyFailuresCopied
  <2> QED
    BY <1>2, <2>1
<1>4. NoAttemptSkipped(m)
  BY <1>2 DEF Good, NoAttemptSkipped
<1>5. AllPlanned(m)
  BY <1>2 DEF Good, AllPlanned
<1>6. FailuresFollowed(m)
  <2> SUFFICES ASSUME NEW a \in DOMAIN m, m[a].status = "failed"
               PROVE  \E b \in DOMAIN m : /\ a < b
                                          /\ Unit(m[b]) = Unit(m[a])
                                          /\ m[b].attempt = m[a].attempt + 1
    BY DEF FailuresFollowed
  <2>1. a # i /\ q[a].status = "failed"
    BY <1>2
  <2> QED
    BY <1>2, <2>1 DEF Good, FailuresFollowed
<1>7. AbandonedLast(m)
  BY <1>2 DEF Good, AbandonedLast
<1> QED
  BY <1>2, <1>3, <1>4, <1>5, <1>6, <1>7 DEF Good, m

-----------------------------------------------------------------------------
(***************************************************************************)
(* next and finish --status done.                                          *)
(***************************************************************************)

\* There is a first queued row whenever there is a queued row.
LEMMA FirstQueuedExists ==
  ASSUME NEW q \in Seq(Row), Queued(q) # {}
  PROVE  /\ FirstQueued(q) \in DOMAIN q
         /\ q[FirstQueued(q)].status = "queued"
         /\ \A j \in DOMAIN q : j < FirstQueued(q) => q[j].status # "queued"
<1>1. /\ Queued(q) \subseteq Nat
      /\ \A j \in Queued(q) : j \in DOMAIN q /\ q[j].status = "queued"
  BY RowFacts DEF Queued, Having
<1>2. \E i \in Queued(q) : \A j \in Queued(q) : i <= j
  <2> DEFINE R == {ss \in Nat \X Nat : ss[1] < ss[2]}
  <2>1. IsWellFoundedOn(R, Nat)
    BY NatLessThanWellFounded DEF OpToRel
  <2> HIDE DEF R
  <2>2. PICK i \in Queued(q) : \A j \in Queued(q) : ~(<<j, i>> \in R)
    BY <1>1, <2>1, WFMin
  <2>3. \A j \in Queued(q) : ~(j < i)
    BY <1>1, <2>2 DEF R
  <2> QED
    BY <1>1, <2>3
<1>3. FirstQueued(q) \in Queued(q) /\ \A j \in Queued(q) : FirstQueued(q) <= j
  BY <1>2 DEF FirstQueued
<1>4. \A j \in DOMAIN q : q[j].status = "queued" => j \in Queued(q)
  BY DEF Queued, Having
<1> QED
  BY <1>1, <1>3, <1>4, RowFacts

LEMMA TakeKeepsGood ==
  ASSUME NEW q, Good(q), Running(q) = {}
  PROVE  /\ Good(Take(q))
         /\ DOMAIN Take(q) = DOMAIN q
         /\ \A k \in DOMAIN q : q[k].status # "queued" => Take(q)[k] = q[k]
<1>1. q \in Seq(Row)
  BY DEF Good
<1>2. CASE Queued(q) = {}
  BY <1>2 DEF Take
<1>3. CASE Queued(q) # {}
  <2> DEFINE i == FirstQueued(q)
             m == Mark(q, i, "running")
  <2>1. /\ i \in DOMAIN q /\ q[i].status = "queued"
        /\ \A j \in DOMAIN q : j < i => q[j].status # "queued"
    BY <1>1, <1>3, FirstQueuedExists
  <2>2. "running" \in Statuses
    BY DEF Statuses
  <2> HIDE DEF i
  <2>3. /\ m \in Seq(Row) /\ DOMAIN m = DOMAIN q
        /\ m[i].status = "running"
        /\ \A k \in DOMAIN q \ {i} : m[k] = q[k]
    BY <1>1, <2>1, <2>2, MarkFacts
  <2>4. InFileOrder(m)
    <3> SUFFICES ASSUME NEW a \in DOMAIN m, NEW b \in DOMAIN m, a < b,
                        m[a].status \in {"queued", "running"}
                 PROVE  m[b].status = "queued"
      BY DEF InFileOrder
    <3>1. DOMAIN q = 1..Len(q) /\ Len(q) \in Nat
      BY <1>1, RowFacts
    <3>2. \A k \in DOMAIN q : q[k].status # "running"
      BY DEF Running, Having
    <3>3. CASE a = i
      <4>1. b # i /\ q[b].status = "queued"
        BY <2>1, <2>3, <3>1, <3>3 DEF Good, InFileOrder
      <4> QED
        BY <2>3, <4>1
    <3>4. CASE a # i
      <4>1. q[a].status = "queued"
        BY <2>3, <3>2, <3>4
      <4>2. i < a
        BY <2>1, <2>3, <3>1, <3>4, <4>1
      <4>3. b # i /\ q[b].status = "queued"
        BY <2>1, <2>3, <3>1, <4>1, <4>2 DEF Good, InFileOrder
      <4> QED
        BY <2>3, <4>3
    <3> QED
      BY <3>3, <3>4
  <2>5. Good(m)
    BY <2>1, <2>4, MarkKeepsGood
  <2>6. Take(q) = m
    BY <1>3 DEF Take, i
  <2> QED
    BY <2>1, <2>3, <2>5, <2>6
<1> QED
  BY <1>2, <1>3

\* Closing the run in progress as done, or as abandoned at its last attempt.
LEMMA CloseKeepsGood ==
  ASSUME NEW q, Good(q), NEW i \in Running(q),
         NEW status \in {"done", "abandoned"},
         status = "abandoned" => q[i].attempt = MaxAttempts
  PROVE  /\ Good(Mark(q, i, status))
         /\ Running(Mark(q, i, status)) = {}
         /\ DOMAIN Mark(q, i, status) = DOMAIN q
         /\ \A k \in DOMAIN q \ {i} : Mark(q, i, status)[k] = q[k]
<1> DEFINE m == Mark(q, i, status)
<1>1. q \in Seq(Row) /\ InFileOrder(q)
  BY DEF Good
<1>2. /\ i \in DOMAIN q /\ q[i].status = "running" /\ Running(q) = {i}
      /\ \A k \in DOMAIN q : i < k => q[k].status = "queued"
  BY <1>1, OneAtATime
<1>3. status \in Statuses /\ status \notin {"queued", "running", "failed"}
  BY DEF Statuses
<1>4. /\ m \in Seq(Row) /\ DOMAIN m = DOMAIN q
      /\ m[i].status = status
      /\ \A k \in DOMAIN q \ {i} : m[k] = q[k]
  BY <1>1, <1>2, <1>3, MarkFacts
<1> HIDE DEF m
<1>5. InFileOrder(m)
  BY <1>1, <1>2, <1>3, <1>4 DEF InFileOrder
<1>6. Running(m) = {}
  BY <1>2, <1>3, <1>4 DEF Running, Having
<1>7. Good(m)
  BY <1>2, <1>5, MarkKeepsGood DEF m
<1> QED
  BY <1>4, <1>6, <1>7 DEF m

-----------------------------------------------------------------------------
(***************************************************************************)
(* fail.                                                                   *)
(***************************************************************************)

\* A copy goes in at some later place of the file.
LEMMA SlotsAreLater ==
  ASSUME NEW q, NEW i
  PROVE  Slots(q, i) \subseteq Later(q, i)
BY DEF Slots, Allowed

\* The copy is a row for the next attempt at the same planned run.
LEMMA CopyFacts ==
  ASSUME NEW row \in Row, row.attempt < MaxAttempts
  PROVE  /\ Copy(row) \in Row
         /\ Unit(Copy(row)) = Unit(row)
         /\ Copy(row).attempt = row.attempt + 1
         /\ Copy(row).status = "queued"
<1>1. MaxAttempts \in Nat
  BY DesignAssumption
<1>2. /\ row.attempt + 1 \in 1..MaxAttempts
      /\ "queued" \in Statuses
  BY <1>1 DEF Row, Statuses
<1> QED
  BY <1>2 DEF Copy, Row, Unit

\* Where the rows are after a failure: those before the copy's place keep
\* theirs, those after it move up by one, the failed row is marked and nothing
\* else changes.
LEMMA FailWithCopyFacts ==
  ASSUME NEW q, Good(q), NEW i \in Running(q), q[i].attempt < MaxAttempts,
         NEW p \in Later(q, i)
  PROVE  LET r == InsertAt(Mark(q, i, "failed"), p, Copy(q[i]))
         IN  /\ r \in Seq(Row)
             /\ Len(r) = Len(q) + 1
             /\ i < p /\ p \in 1..Len(r)
             /\ Unit(r[p]) = Unit(q[i])
             /\ r[p].attempt = q[i].attempt + 1
             /\ r[p].status = "queued"
             /\ Unit(r[i]) = Unit(q[i])
             /\ r[i].attempt = q[i].attempt
             /\ r[i].status = "failed"
             /\ \A k \in 1..(p - 1) : k # i => r[k] = q[k]
             /\ \A k \in p..Len(q) : r[k + 1] = q[k]
<1> DEFINE m == Mark(q, i, "failed")
           r == InsertAt(m, p, Copy(q[i]))
<1>1. q \in Seq(Row) /\ i \in DOMAIN q
  BY OneAtATime DEF Good
<1>2. /\ DOMAIN q = 1..Len(q) /\ Len(q) \in Nat
      /\ q[i] \in Row
  BY <1>1, RowFacts
<1>3. /\ Copy(q[i]) \in Row
      /\ Unit(Copy(q[i])) = Unit(q[i])
      /\ Copy(q[i]).attempt = q[i].attempt + 1
      /\ Copy(q[i]).status = "queued"
  BY <1>2, CopyFacts
<1>4. "failed" \in Statuses
  BY DEF Statuses
<1>5. /\ m \in Seq(Row) /\ Len(m) = Len(q)
      /\ m[i].status = "failed"
      /\ \A k \in DOMAIN q \ {i} : m[k] = q[k]
      /\ Unit(m[i]) = Unit(q[i]) /\ m[i].attempt = q[i].attempt
  BY <1>1, <1>4, MarkFacts
<1>6. p \in 1..(Len(m) + 1) /\ i < p /\ p \in Int
  BY <1>1, <1>2, <1>5 DEF Later
<1> HIDE DEF m
<1>7. /\ r \in Seq(Row)
      /\ Len(r) = Len(m) + 1
      /\ r[p] = Copy(q[i])
      /\ \A k \in 1..(p - 1) : r[k] = m[k]
      /\ \A k \in p..Len(m) : r[k + 1] = m[k]
  <2>1. m \in Seq(Row) /\ Copy(q[i]) \in Row /\ p \in 1..(Len(m) + 1)
    BY <1>3, <1>5, <1>6
  <2> QED
    BY <2>1, InsertAtFacts, SMTT(60)
<1> HIDE DEF r
<1>8. i \in 1..(p - 1)
  BY <1>1, <1>2, <1>6
<1>9. \A k \in 1..(p - 1) : k # i => r[k] = q[k]
  <2> TAKE k \in 1..(p - 1)
  <2>1. r[k] = m[k]
    BY <1>7
  <2>2. k \in DOMAIN q
    BY <1>2, <1>5, <1>6
  <2> QED
    BY <1>5, <2>1, <2>2
<1>10. \A k \in p..Len(q) : r[k + 1] = q[k]
  BY <1>2, <1>5, <1>6, <1>7
<1> QED
  BY <1>2, <1>3, <1>5, <1>6, <1>7, <1>8, <1>9, <1>10 DEF r, m

\* A failure keeps the queue good, leaves nothing running and touches none of
\* the rows that were closed before.
LEMMA FailKeepsGood ==
  ASSUME NEW q, Good(q), NEW i \in Running(q), NEW r \in Fail(q, i)
  PROVE  /\ Good(r)
         /\ Running(r) = {}
         /\ Len(r) >= Len(q)
         /\ \A k \in 1..(i - 1) : r[k] = q[k]
<1>1. /\ q \in Seq(Row) /\ InFileOrder(q) /\ OnlyFailuresCopied(q)
      /\ NoAttemptSkipped(q) /\ AllPlanned(q) /\ FailuresFollowed(q)
      /\ AbandonedLast(q)
  BY DEF Good
<1>2. /\ i \in DOMAIN q /\ q[i].status = "running" /\ Running(q) = {i}
      /\ \A k \in DOMAIN q : k < i => q[k].status \notin {"queued", "running"}
      /\ \A k \in DOMAIN q : i < k => q[k].status = "queued"
  BY <1>1, OneAtATime
<1>3. /\ DOMAIN q = 1..Len(q) /\ Len(q) \in Nat
      /\ \A k \in DOMAIN q : q[k].attempt \in 1..MaxAttempts
  BY <1>1, RowFacts
<1>4. MaxAttempts \in Nat
  BY DesignAssumption
<1>5. CASE q[i].attempt >= MaxAttempts
  <2>1. r = Mark(q, i, "abandoned")
    BY <1>5 DEF Fail
  <2>2. q[i].attempt = MaxAttempts
    BY <1>2, <1>3, <1>4, <1>5
  <2>3. Good(r) /\ Running(r) = {} /\ DOMAIN r = DOMAIN q
        /\ \A k \in DOMAIN q \ {i} : r[k] = q[k]
    BY <2>1, <2>2, CloseKeepsGood
  <2>4. DOMAIN r = 1..Len(r) /\ Len(r) \in Nat
    BY <2>3, RowFacts DEF Good
  <2>5. Len(r) = Len(q)
    BY <1>3, <2>3, <2>4
  <2> QED
    BY <1>2, <1>3, <2>3, <2>5
<1>6. CASE q[i].attempt < MaxAttempts
  <2>1. PICK p \in Later(q, i) : r = InsertAt(Mark(q, i, "failed"), p, Copy(q[i]))
    BY <1>3, <1>4, <1>2, <1>6, SlotsAreLater DEF Fail
  <2>2. /\ r \in Seq(Row)
        /\ Len(r) = Len(q) + 1
        /\ i < p /\ p \in 1..Len(r)
        /\ Unit(r[p]) = Unit(q[i])
        /\ r[p].attempt = q[i].attempt + 1
        /\ r[p].status = "queued"
        /\ Unit(r[i]) = Unit(q[i])
        /\ r[i].attempt = q[i].attempt
        /\ r[i].status = "failed"
        /\ \A k \in 1..(p - 1) : k # i => r[k] = q[k]
        /\ \A k \in p..Len(q) : r[k + 1] = q[k]
    BY <1>6, <2>1, FailWithCopyFacts
  <2>3. DOMAIN r = 1..(Len(q) + 1)
    BY <2>2, RowFacts
  \* Every row but the copy is one of the old rows, old[k], moved or not.
  <2> DEFINE old == [k \in DOMAIN r |-> IF k < p THEN k ELSE k - 1]
             new == [k \in DOMAIN q |-> IF k < p THEN k ELSE k + 1]
  <2>4. \A k \in DOMAIN r \ {p} :
          /\ old[k] \in DOMAIN q /\ new[old[k]] = k
          /\ Unit(r[k]) = Unit(q[old[k]]) /\ r[k].attempt = q[old[k]].attempt
          /\ k # i => r[k] = q[old[k]] /\ old[k] # i
    BY <1>2, <1>3, <2>2, <2>3
  <2>5. \A k \in DOMAIN q : /\ new[k] \in DOMAIN r \ {p} /\ old[new[k]] = k
                            /\ k # i => new[k] # i
    BY <1>2, <1>3, <2>2, <2>3
  <2>6. /\ \A a, b \in DOMAIN r \ {p} : a < b => old[a] < old[b]
        /\ \A a, b \in DOMAIN q : a < b => new[a] < new[b]
        /\ \A a \in DOMAIN r : a < p => old[a] < p
        /\ \A a \in DOMAIN r : p < a => p <= old[a]
        /\ old[i] = i /\ new[i] = i /\ i \in DOMAIN r \ {p}
        /\ DOMAIN r \subseteq Int /\ DOMAIN q \subseteq Int /\ p \in Int /\ i \in Int
    BY <1>2, <1>3, <2>2, <2>3
  <2> HIDE DEF old, new
  \* No later row belongs to the planned run that failed.
  <2>7. \A k \in DOMAIN q : Unit(q[k]) = Unit(q[i]) => k <= i /\ q[k].attempt <= q[i].attempt
    <3> SUFFICES ASSUME NEW k \in DOMAIN q, Unit(q[k]) = Unit(q[i])
                 PROVE  k <= i /\ q[k].attempt <= q[i].attempt
      OBVIOUS
    <3>1. ~(i < k)
      BY <1>1, <1>2 DEF OnlyFailuresCopied
    <3>2. k < i => q[k].attempt < q[i].attempt
      BY <1>1, <1>2 DEF OnlyFailuresCopied
    <3> QED
      BY <1>2, <1>3, <3>1, <3>2
  <2>8. InFileOrder(r)
    <3> SUFFICES ASSUME NEW a \in DOMAIN r, NEW b \in DOMAIN r, a < b,
                        r[a].status \in {"queued", "running"}
                 PROVE  r[b].status = "queued"
      BY DEF InFileOrder
    <3>1. b # i /\ a # i
      <4>1. a # i
        BY <2>2
      <4>2. b # i
        <5> SUFFICES ASSUME b = i PROVE FALSE
          OBVIOUS
        <5>1. a # p /\ a < i
          BY <2>2, <2>6
        <5>2. old[a] < i /\ old[a] \in DOMAIN q /\ r[a] = q[old[a]]
          BY <2>4, <2>6, <4>1, <5>1
        <5> QED
          BY <1>2, <5>2
      <4> QED
        BY <4>1, <4>2
    <3>2. CASE a = p
      <4>1. b # p /\ r[b] = q[old[b]] /\ old[b] \in DOMAIN q /\ i < old[b]
        BY <2>2, <2>4, <2>6, <3>1, <3>2
      <4> QED
        BY <1>2, <4>1
    <3>3. CASE b = p
      BY <2>2, <3>3
    <3>4. CASE a # p /\ b # p
      <4>1. /\ r[a] = q[old[a]] /\ r[b] = q[old[b]] /\ old[a] < old[b]
            /\ old[a] \in DOMAIN q /\ old[b] \in DOMAIN q
        BY <2>4, <2>6, <3>1, <3>4
      <4> QED
        BY <1>1, <4>1 DEF InFileOrder
    <3> QED
      BY <3>2, <3>3, <3>4
  <2>9. OnlyFailuresCopied(r)
    <3> SUFFICES ASSUME NEW a \in DOMAIN r, NEW b \in DOMAIN r,
                        a < b, Unit(r[a]) = Unit(r[b])
                 PROVE  r[a].status = "failed" /\ r[a].attempt < r[b].attempt
      BY DEF OnlyFailuresCopied
    <3>1. CASE a = p
      <4>1. b # p /\ Unit(q[old[b]]) = Unit(q[i]) /\ old[b] \in DOMAIN q /\ i < old[b]
        <5>1. b # p /\ p <= old[b]
          BY <2>6, <3>1
        <5>2. Unit(r[b]) = Unit(q[old[b]]) /\ old[b] \in DOMAIN q
          BY <2>4, <5>1
        <5>3. Unit(r[b]) = Unit(q[i])
          BY <2>2, <3>1
        <5> QED
          BY <2>2, <2>6, <5>1, <5>2, <5>3
      <4> QED
        BY <1>3, <2>6, <2>7, <4>1
    <3>2. CASE b = p
      <4>1. a # p /\ Unit(q[old[a]]) = Unit(q[i]) /\ old[a] \in DOMAIN q
        BY <2>2, <2>4, <2>6, <3>2
      <4>2. q[old[a]].attempt <= q[i].attempt /\ old[a] <= i
        BY <2>7, <4>1
      <4>3. r[a].attempt < r[b].attempt
        BY <1>2, <1>3, <2>2, <2>4, <3>2, <4>1, <4>2
      <4>4. CASE a = i
        BY <2>2, <4>3, <4>4
      <4>5. CASE a # i
        <5>1. old[a] < i /\ r[a] = q[old[a]]
          BY <2>4, <2>6, <4>1, <4>2, <4>5
        <5>2. q[old[a]].status = "failed"
          BY <1>1, <1>2, <4>1, <5>1 DEF OnlyFailuresCopied
        <5> QED
          BY <4>3, <5>1, <5>2
      <4> QED
        BY <4>4, <4>5
    <3>3. CASE a # p /\ b # p
      <4>1. /\ Unit(q[old[a]]) = Unit(q[old[b]]) /\ old[a] < old[b]
            /\ old[a] \in DOMAIN q /\ old[b] \in DOMAIN q
        BY <2>4, <2>6, <3>3
      <4>2. q[old[a]].status = "failed" /\ q[old[a]].attempt < q[old[b]].attempt
        BY <1>1, <4>1 DEF OnlyFailuresCopied
      <4>3. a # i
        BY <1>2, <2>6, <4>2
      <4> QED
        BY <2>4, <3>3, <4>2, <4>3
    <3> QED
      BY <3>1, <3>2, <3>3
  <2>10. NoAttemptSkipped(r)
    <3> SUFFICES ASSUME NEW b \in DOMAIN r, r[b].attempt > 1
                 PROVE  \E a \in DOMAIN r : /\ a < b
                                            /\ Unit(r[a]) = Unit(r[b])
                                            /\ r[a].attempt = r[b].attempt - 1
      BY DEF NoAttemptSkipped
    <3>1. CASE b = p
      BY <1>2, <1>3, <2>2, <2>6, <3>1
    <3>2. CASE b # p
      <4>1. PICK a \in DOMAIN q : /\ a < old[b]
                                  /\ Unit(q[a]) = Unit(q[old[b]])
                                  /\ q[a].attempt = q[old[b]].attempt - 1
        BY <1>1, <2>4, <3>2 DEF NoAttemptSkipped
      <4>2. new[a] < b /\ new[a] \in DOMAIN r \ {p} /\ old[new[a]] = a
        BY <2>4, <2>5, <2>6, <3>2, <4>1
      <4> QED
        BY <2>4, <3>2, <4>1, <4>2
    <3> QED
      BY <3>1, <3>2
  <2>11. AllPlanned(r)
    BY <1>1, <2>4, <2>5 DEF AllPlanned
  <2>12. FailuresFollowed(r)
    <3> SUFFICES ASSUME NEW a \in DOMAIN r, r[a].status = "failed"
                 PROVE  \E b \in DOMAIN r : /\ a < b
                                            /\ Unit(r[b]) = Unit(r[a])
                                            /\ r[b].attempt = r[a].attempt + 1
      BY DEF FailuresFollowed
    <3>1. CASE a = i
      BY <2>2, <2>3, <3>1
    <3>2. CASE a # i
      <4>1. a # p /\ r[a] = q[old[a]] /\ old[a] \in DOMAIN q
        BY <2>2, <2>4, <3>2
      <4>2. PICK b \in DOMAIN q : /\ old[a] < b
                                  /\ Unit(q[b]) = Unit(q[old[a]])
                                  /\ q[b].attempt = q[old[a]].attempt + 1
        BY <1>1, <4>1 DEF FailuresFollowed
      <4>3. a < new[b] /\ new[b] \in DOMAIN r \ {p} /\ old[new[b]] = b
        BY <2>4, <2>5, <2>6, <4>1, <4>2
      <4> QED
        BY <2>4, <4>1, <4>2, <4>3
    <3> QED
      BY <3>1, <3>2
  <2>13. AbandonedLast(r)
    <3> SUFFICES ASSUME NEW a \in DOMAIN r, r[a].status = "abandoned"
                 PROVE  r[a].attempt = MaxAttempts
      BY DEF AbandonedLast
    <3>1. a # p /\ a # i
      BY <2>2
    <3> QED
      BY <1>1, <2>4, <3>1 DEF AbandonedLast
  <2>14. Running(r) = {}
    <3> SUFFICES ASSUME NEW a \in DOMAIN r, r[a].status = "running"
                 PROVE  FALSE
      BY DEF Running, Having
    <3>1. a # p /\ a # i
      BY <2>2
    <3>2. old[a] \in Running(q) /\ old[a] # i
      BY <2>4, <3>1 DEF Running, Having
    <3> QED
      BY <1>2, <3>2
  <2>15. \A k \in 1..(i - 1) : r[k] = q[k]
    BY <1>2, <1>3, <2>2, <2>6
  <2> QED
    BY <1>3, <2>2, <2>8, <2>9, <2>10, <2>11, <2>12, <2>13, <2>14, <2>15 DEF Good
<1> QED
  BY <1>2, <1>3, <1>4, <1>5, <1>6

-----------------------------------------------------------------------------
(***************************************************************************)
(* make.                                                                   *)
(***************************************************************************)

\* There are as many runs in a round as setups, and at least one.
LEMMA WidthType == Width \in Nat \ {0}
<1>1. Width \in Nat
  BY DesignAssumption, FS_CardinalityType DEF Width
<1>2. Width # 0
  BY DesignAssumption, FS_EmptySet DEF Width
<1> QED
  BY <1>1, <1>2

\* A shuffle has every setup at one place, and no setup twice.
LEMMA ShuffleFacts ==
  ASSUME NEW order \in SetToSeqs(Setups)
  PROVE  /\ order \in [1..Width -> Setups]
         /\ \A a, b \in 1..Width : order[a] = order[b] => a = b
         /\ \A s \in Setups : \E p \in 1..Width : order[p] = s
<1>1. order \in [1..Width -> Setups] /\ IsInjective(order)
  BY DEF SetToSeqs, Width, IsInjective
<1>2. order \in Injection(1..Width, Setups)
  BY <1>1 DEF Injection
<1>3. Cardinality(1..Width) = Width
  BY WidthType, FS_Interval
<1>4. order \in Surjection(1..Width, Setups)
  BY <1>2, <1>3, DesignAssumption, FS_Injection DEF Width
<1> QED
  BY <1>1, <1>4 DEF IsInjective, Surjection

\* Places in the file and places in the rounds are the same thing.
LEMMA PlaceFacts ==
  /\ \A k \in 1..(Rounds * Width) :
       RoundOf(k) \in 1..Rounds /\ PlaceOf(k) \in 1..Width
  /\ \A j, k \in 1..(Rounds * Width) :
       RoundOf(j) = RoundOf(k) /\ PlaceOf(j) = PlaceOf(k) => j = k
  /\ \A r \in 1..Rounds, p \in 1..Width :
       /\ (r - 1) * Width + p \in 1..(Rounds * Width)
       /\ RoundOf((r - 1) * Width + p) = r
       /\ PlaceOf((r - 1) * Width + p) = p
<1>1. Width \in Nat \ {0} /\ Rounds \in Nat \ {0}
  BY WidthType, DesignAssumption
<1>2. \A k \in Nat : /\ k \div Width \in Nat
                     /\ k % Width \in 0..(Width - 1)
                     /\ k = Width * (k \div Width) + (k % Width)
  BY <1>1
<1>3. \A k \in 1..(Rounds * Width) : RoundOf(k) \in 1..Rounds /\ PlaceOf(k) \in 1..Width
  <2> SUFFICES ASSUME NEW k \in 1..(Rounds * Width)
               PROVE  RoundOf(k) \in 1..Rounds /\ PlaceOf(k) \in 1..Width
    OBVIOUS
  <2> DEFINE d == (k - 1) \div Width
             m == (k - 1) % Width
  <2>1. k - 1 \in Nat /\ k - 1 < Rounds * Width
    BY <1>1
  <2>2. d \in Nat /\ m \in 0..(Width - 1) /\ k - 1 = Width * d + m
    BY <1>2, <2>1
  <2> HIDE DEF d, m
  <2>3. d < Rounds
    <3> SUFFICES ASSUME d >= Rounds PROVE FALSE
      BY <1>1, <2>2
    <3>1. Width * d >= Width * Rounds
      BY <1>1, <2>2
    <3> QED
      BY <1>1, <2>1, <2>2, <3>1
  <2> QED
    BY <1>1, <2>2, <2>3 DEF RoundOf, PlaceOf, d, m
<1>4. \A j, k \in 1..(Rounds * Width) :
        RoundOf(j) = RoundOf(k) /\ PlaceOf(j) = PlaceOf(k) => j = k
  <2> SUFFICES ASSUME NEW j \in 1..(Rounds * Width), NEW k \in 1..(Rounds * Width),
                      RoundOf(j) = RoundOf(k), PlaceOf(j) = PlaceOf(k)
               PROVE  j = k
    OBVIOUS
  <2>1. j - 1 \in Nat /\ k - 1 \in Nat
    BY <1>1
  <2>2. (j - 1) \div Width = (k - 1) \div Width /\ (j - 1) % Width = (k - 1) % Width
    BY <1>2, <2>1 DEF RoundOf, PlaceOf
  <2>3. j - 1 = k - 1
    BY <1>2, <2>1, <2>2
  <2> QED
    BY <1>1, <2>3
<1>5. \A r \in 1..Rounds, p \in 1..Width :
       /\ (r - 1) * Width + p \in 1..(Rounds * Width)
       /\ RoundOf((r - 1) * Width + p) = r
       /\ PlaceOf((r - 1) * Width + p) = p
  <2> SUFFICES ASSUME NEW r \in 1..Rounds, NEW p \in 1..Width
               PROVE  /\ (r - 1) * Width + p \in 1..(Rounds * Width)
                      /\ RoundOf((r - 1) * Width + p) = r
                      /\ PlaceOf((r - 1) * Width + p) = p
    OBVIOUS
  <2> DEFINE e == r - 1
             n == Width * e + (p - 1)
             d == n \div Width
             m == n % Width
  <2>1. /\ e \in Nat /\ e + 1 <= Rounds /\ p - 1 \in 0..(Width - 1) /\ n \in Nat
        /\ (r - 1) * Width + p = n + 1
    BY <1>1
  <2>2. d \in Nat /\ m \in 0..(Width - 1) /\ n = Width * d + m
    BY <1>2, <2>1
  <2>3. d = e /\ m = p - 1
    <3> HIDE DEF d, m, e
    <3>1. Width * d + m = Width * e + (p - 1)
      BY <2>1, <2>2
    <3>2. ~(d < e)
      <4> SUFFICES ASSUME d < e PROVE FALSE
        OBVIOUS
      <4>1. Width * (d + 1) <= Width * e
        BY <1>1, <2>1, <2>2
      <4>2. Width * (d + 1) = Width * d + Width
        BY <1>1, <2>1, <2>2
      <4> QED
        BY <1>1, <2>1, <2>2, <3>1, <4>1, <4>2
    <3>3. ~(e < d)
      <4> SUFFICES ASSUME e < d PROVE FALSE
        OBVIOUS
      <4>1. Width * (e + 1) <= Width * d
        BY <1>1, <2>1, <2>2
      <4>2. Width * (e + 1) = Width * e + Width
        BY <1>1, <2>1, <2>2
      <4> QED
        BY <1>1, <2>1, <2>2, <3>1, <4>1, <4>2
    <3>4. d = e
      BY <2>1, <2>2, <3>2, <3>3
    <3> QED
      BY <1>1, <2>1, <2>2, <3>1, <3>4
  <2>4. n + 1 <= Rounds * Width
    <3> HIDE DEF e
    <3>1. Width * (e + 1) <= Width * Rounds
      BY <1>1, <2>1
    <3>2. Width * (e + 1) = Width * e + Width /\ Width * Rounds = Rounds * Width
      BY <1>1, <2>1
    <3> QED
      BY <1>1, <2>1, <3>1, <3>2
  <2>5. RoundOf(n + 1) = r /\ PlaceOf(n + 1) = p
    <3> DEFINE k == n + 1
    <3>1. k - 1 = n
      BY <2>1
    <3>2. d + 1 = r /\ m + 1 = p
      BY <2>1, <2>3
    <3> HIDE DEF k, n
    <3>3. RoundOf(k) = d + 1 /\ PlaceOf(k) = m + 1
      BY <3>1, Zenon DEF RoundOf, PlaceOf
    <3> QED
      BY <3>2, <3>3 DEF k
  <2> QED
    BY <1>1, <2>1, <2>4, <2>5
<1> QED
  BY <1>3, <1>4, <1>5

\* A queue just made is good, and every run in it is queued.
LEMMA FreshIsGood ==
  ASSUME NEW q \in FreshQueues
  PROVE  /\ Good(q)
         /\ \A k \in DOMAIN q : q[k].status = "queued"
<1>1. PICK orders \in ShuffledRounds : q = MakeRows(orders)
  BY DEF FreshQueues
<1>2. \A r \in 1..Rounds : orders[r] \in SetToSeqs(Setups)
  BY DEF ShuffledRounds
<1> DEFINE N == Rounds * Width
           row(k) == [round |-> RoundOf(k), setup |-> orders[RoundOf(k)][PlaceOf(k)],
                      attempt |-> 1, status |-> "queued"]
<1>3. N \in Nat /\ q = [k \in 1..N |-> row(k)]
  BY <1>1, WidthType, DesignAssumption DEF MakeRows
<1>4. 1 \in 1..MaxAttempts /\ "queued" \in Statuses
  BY DesignAssumption DEF Statuses
<1>5. \A k \in 1..N : row(k) \in Row
  <2> SUFFICES ASSUME NEW k \in 1..N PROVE row(k) \in Row
    OBVIOUS
  <2>1. RoundOf(k) \in 1..Rounds /\ PlaceOf(k) \in 1..Width
    BY PlaceFacts
  <2>2. orders[RoundOf(k)][PlaceOf(k)] \in Setups
    BY <1>2, <2>1, ShuffleFacts
  <2> QED
    BY <1>4, <2>1, <2>2 DEF Row
<1> HIDE DEF N
<1>6. q \in Seq(Row) /\ DOMAIN q = 1..N
  BY <1>3, <1>5
<1>7. \A k \in 1..N : /\ q[k].status = "queued" /\ q[k].attempt = 1
                      /\ Unit(q[k]) = <<RoundOf(k), orders[RoundOf(k)][PlaceOf(k)]>>
  BY <1>3 DEF Unit
<1>8. \A j, k \in 1..N : Unit(q[j]) = Unit(q[k]) => j = k
  <2> SUFFICES ASSUME NEW j \in 1..N, NEW k \in 1..N, Unit(q[j]) = Unit(q[k])
               PROVE  j = k
    OBVIOUS
  <2>1. /\ RoundOf(j) = RoundOf(k)
        /\ orders[RoundOf(j)][PlaceOf(j)] = orders[RoundOf(k)][PlaceOf(k)]
    BY <1>7
  <2>2. RoundOf(k) \in 1..Rounds /\ PlaceOf(j) \in 1..Width /\ PlaceOf(k) \in 1..Width
    BY PlaceFacts DEF N
  <2>3. PlaceOf(j) = PlaceOf(k)
    BY <1>2, <2>1, <2>2, ShuffleFacts
  <2> QED
    BY <2>1, <2>3, PlaceFacts DEF N
<1>9. AllPlanned(q)
  <2> SUFFICES ASSUME NEW r \in 1..Rounds, NEW s \in Setups
               PROVE  \E k \in DOMAIN q : Unit(q[k]) = <<r, s>>
    BY DEF AllPlanned, Units
  <2>1. PICK p \in 1..Width : orders[r][p] = s
    BY <1>2, ShuffleFacts
  <2> DEFINE k == (r - 1) * Width + p
  <2>2. k \in 1..N /\ RoundOf(k) = r /\ PlaceOf(k) = p
    BY PlaceFacts DEF N
  <2> HIDE DEF k
  <2> QED
    BY <1>6, <1>7, <2>1, <2>2
<1>10. InFileOrder(q)
  BY <1>6, <1>7 DEF InFileOrder
<1>11. OnlyFailuresCopied(q)
  BY <1>3, <1>6, <1>8 DEF OnlyFailuresCopied
<1>12. NoAttemptSkipped(q) /\ FailuresFollowed(q) /\ AbandonedLast(q)
  BY <1>6, <1>7 DEF NoAttemptSkipped, FailuresFollowed, AbandonedLast
<1> QED
  BY <1>6, <1>7, <1>9, <1>10, <1>11, <1>12 DEF Good

-----------------------------------------------------------------------------
(***************************************************************************)
(* The commands.                                                           *)
(***************************************************************************)

\* What every command does to a good queue: it stays good, it grows no
\* shorter, and the rows closed before keep their places and contents.
Kept(q, r) ==
  /\ Good(r)
  /\ \A k \in Closed(q) : k \in DOMAIN r /\ r[k] = q[k]

\* Closed rows are neither queued nor running.
LEMMA ClosedFacts ==
  ASSUME NEW q \in Seq(Row), NEW k \in Closed(q)
  PROVE  k \in DOMAIN q /\ q[k].status \notin {"queued", "running"}
BY DEF Closed, Having

\* A failure keeps what was closed before it: those rows all come earlier.
LEMMA FailKeepsClosed ==
  ASSUME NEW q, Good(q), NEW i \in Running(q), NEW r \in Fail(q, i)
  PROVE  Kept(q, r) /\ Running(r) = {}
<1>1. q \in Seq(Row) /\ InFileOrder(q)
  BY DEF Good
<1>2. /\ i \in DOMAIN q /\ q[i].status = "running"
      /\ \A k \in DOMAIN q : i < k => q[k].status = "queued"
  BY <1>1, OneAtATime
<1>3. /\ Good(r) /\ Running(r) = {} /\ Len(r) >= Len(q)
      /\ \A k \in 1..(i - 1) : r[k] = q[k]
  BY FailKeepsGood
<1>4. /\ DOMAIN q = 1..Len(q) /\ Len(q) \in Nat
      /\ DOMAIN r = 1..Len(r) /\ Len(r) \in Nat
  BY <1>1, <1>3, RowFacts DEF Good
<1>5. ASSUME NEW k \in Closed(q)
      PROVE  k \in DOMAIN r /\ r[k] = q[k]
  <2>1. k \in DOMAIN q /\ q[k].status \notin {"queued", "running"}
    BY <1>1, ClosedFacts
  <2>2. k \in 1..(i - 1)
    BY <1>2, <1>4, <2>1
  <2> QED
    BY <1>3, <1>4, <2>1, <2>2
<1> QED
  BY <1>3, <1>5 DEF Kept

\* Recording what was running as a failure leaves nothing running.
LEMMA RecoveredKeepsClosed ==
  ASSUME NEW q, Good(q), NEW r \in Recovered(q)
  PROVE  Kept(q, r) /\ Running(r) = {}
<1>1. CASE Running(q) = {}
  <2>1. r = q
    BY <1>1 DEF Recovered
  <2>2. \A k \in Closed(q) : k \in DOMAIN q
    BY DEF Closed, Having
  <2> QED
    BY <1>1, <2>1, <2>2 DEF Kept
<1>2. CASE Running(q) # {}
  <2>1. PICK i \in Running(q) : r \in Fail(q, i)
    BY <1>2 DEF Recovered
  <2> QED
    BY <2>1, FailKeepsClosed
<1> QED
  BY <1>1, <1>2

\* Handing out a run keeps what was closed.
LEMMA TakeKeepsClosed ==
  ASSUME NEW q, Good(q), Running(q) = {}
  PROVE  Kept(q, Take(q))
<1>1. /\ Good(Take(q)) /\ DOMAIN Take(q) = DOMAIN q
      /\ \A k \in DOMAIN q : q[k].status # "queued" => Take(q)[k] = q[k]
  BY TakeKeepsGood
<1>2. \A k \in Closed(q) : k \in DOMAIN q /\ q[k].status # "queued"
  BY DEF Closed, Having
<1> QED
  BY <1>1, <1>2 DEF Kept

\* Every step of the specification keeps the ledger good, and its past.
LEMMA StepKeeps ==
  ASSUME Good(rows), [Next]_rows
  PROVE  Kept(rows, rows')
<1>1. CASE NextRun
  BY <1>1, TakeKeepsClosed DEF NextRun
<1>2. CASE NextRecover
  <2>1. PICK q \in Recovered(rows) : rows' = Take(q)
    BY <1>2 DEF NextRecover
  <2>2. Kept(rows, q) /\ Running(q) = {}
    BY <2>1, RecoveredKeepsClosed
  <2>3. Kept(q, rows')
    BY <2>1, <2>2, TakeKeepsClosed DEF Kept
  <2>4. rows \in Seq(Row) /\ q \in Seq(Row)
    BY <2>2 DEF Good, Kept
  <2>5. ASSUME NEW k \in Closed(rows)
        PROVE  k \in Closed(q) /\ q[k] = rows[k]
    BY <2>2 DEF Kept, Closed, Having
  <2> QED
    BY <2>3, <2>5 DEF Kept
<1>3. CASE FinishDone
  <2>1. PICK i \in Running(rows) : rows' = Mark(rows, i, "done")
    BY <1>3 DEF FinishDone
  <2>2. /\ Good(rows') /\ DOMAIN rows' = DOMAIN rows
        /\ \A k \in DOMAIN rows \ {i} : rows'[k] = rows[k]
    BY <2>1, CloseKeepsGood
  <2>3. ASSUME NEW k \in Closed(rows) PROVE k \in DOMAIN rows \ {i}
    BY <2>1 DEF Closed, Running, Having
  <2> QED
    BY <2>2, <2>3 DEF Kept
<1>4. CASE FinishFailed
  BY <1>4, FailKeepsClosed DEF FinishFailed
<1>5. CASE Remake
  <2>1. Good(rows')
    BY <1>5, FreshIsGood DEF Remake
  <2>2. Closed(rows) = {}
    BY <1>5 DEF Remake, Closed, Having
  <2> QED
    BY <2>1, <2>2 DEF Kept
<1>6. CASE UNCHANGED rows
  <2>1. \A k \in Closed(rows) : k \in DOMAIN rows
    BY DEF Closed, Having
  <2> QED
    BY <1>6, <2>1 DEF Kept
<1> QED
  BY <1>1, <1>2, <1>3, <1>4, <1>5, <1>6 DEF Next

-----------------------------------------------------------------------------
(***************************************************************************)
(* The last row of a planned run.                                          *)
(***************************************************************************)

\* A row that has not failed is the last of its planned run.
LEMMA UnfailedIsLast ==
  ASSUME NEW q, Good(q), NEW i \in DOMAIN q, q[i].status # "failed"
  PROVE  LastRow(q, Unit(q[i])) = i
<1> DEFINE IsLast(k) == /\ Unit(q[k]) = Unit(q[i])
                        /\ \A j \in DOMAIN q : Unit(q[j]) = Unit(q[i]) => j <= k
<1>1. DOMAIN q \subseteq Int
  BY RowFacts DEF Good
<1>2. IsLast(i)
  <2> SUFFICES ASSUME NEW j \in DOMAIN q, Unit(q[j]) = Unit(q[i])
               PROVE  j <= i
    OBVIOUS
  <2>1. ~(i < j)
    BY DEF Good, OnlyFailuresCopied
  <2> QED
    BY <1>1, <2>1
<1>3. \A k \in DOMAIN q : IsLast(k) => k = i
  BY <1>1, <1>2
<1>4. LastRow(q, Unit(q[i])) = CHOOSE k \in DOMAIN q : IsLast(k)
  BY DEF LastRow
<1> HIDE DEF IsLast
<1> QED
  BY <1>2, <1>3, <1>4

\* Every planned run has a row that has not failed.
LEMMA LastRowFacts ==
  ASSUME NEW q, Good(q), NEW u \in Units
  PROVE  /\ LastRow(q, u) \in DOMAIN q
         /\ Unit(q[LastRow(q, u)]) = u
         /\ q[LastRow(q, u)].status # "failed"
<1> DEFINE Mine == {i \in DOMAIN q : Unit(q[i]) = u}
           R == {ss \in Nat \X Nat : ss[1] < ss[2]}
           Behind == {Len(q) - i : i \in Mine}
<1>1. DOMAIN q = 1..Len(q) /\ Len(q) \in Nat
  BY RowFacts DEF Good
<1>2. PICK one \in DOMAIN q : Unit(q[one]) = u
  BY DEF Good, AllPlanned
<1>3. Behind # {} /\ Behind \subseteq Nat
  BY <1>1, <1>2
<1>4. IsWellFoundedOn(R, Nat)
  BY NatLessThanWellFounded DEF OpToRel
<1> HIDE DEF R, Behind
<1>5. PICK d \in Behind : \A e \in Behind : ~(<<e, d>> \in R)
  BY <1>3, <1>4, WFMin
<1>6. PICK i \in Mine : d = Len(q) - i
  BY DEF Behind
<1>7. \A j \in Mine : j <= i
  <2> TAKE j \in Mine
  <2>1. Len(q) - j \in Behind /\ Len(q) - j \in Nat /\ d \in Nat
    BY <1>3 DEF Behind
  <2>2. ~(Len(q) - j < d)
    BY <1>5, <2>1 DEF R
  <2> QED
    BY <1>1, <1>6, <2>2
<1>8. q[i].status # "failed"
  <2> SUFFICES ASSUME q[i].status = "failed" PROVE FALSE
    OBVIOUS
  <2>1. PICK j \in DOMAIN q : i < j /\ Unit(q[j]) = Unit(q[i])
    BY DEF Good, FailuresFollowed
  <2> QED
    BY <1>1, <1>7, <2>1
<1>9. LastRow(q, u) = i
  BY <1>8, UnfailedIsLast
<1> QED
  BY <1>8, <1>9

-----------------------------------------------------------------------------
(***************************************************************************)
(* What the operators do to single rows, for those who keep something by   *)
(* the key of a row, as the campaign does its run folders.                 *)
(***************************************************************************)

\* No two rows have one key.
LEMMA KeysDiffer ==
  ASSUME NEW q, Good(q), NEW a \in DOMAIN q, NEW b \in DOMAIN q, Key(q[a]) = Key(q[b])
  PROVE  a = b
<1>1. a \in Int /\ b \in Int /\ q[a].attempt \in Int /\ q[b].attempt \in Int
  BY RowFacts DEF Good
<1>2. Unit(q[a]) = Unit(q[b]) /\ q[a].attempt = q[b].attempt
  BY DEF Key, Unit
<1>3. ~(a < b) /\ ~(b < a)
  BY <1>1, <1>2 DEF Good, OnlyFailuresCopied
<1> QED
  BY <1>1, <1>3

\* Every row of q that has left the queue is there in r, under its key and out
\* of the queue, and every row of r that is done was in q.
Follows(q, r) ==
  /\ \A j \in DOMAIN q :
       q[j].status # "queued"
         => \E k \in DOMAIN r : Key(r[k]) = Key(q[j]) /\ r[k].status # "queued"
  /\ \A k \in DOMAIN r :
       r[k].status = "done" => \E j \in DOMAIN q : q[j] = r[k]

\* A marked row keeps its key.
LEMMA MarkKeepsKeys ==
  ASSUME NEW q, Good(q), NEW i \in DOMAIN q, NEW status \in Statuses
  PROVE  /\ DOMAIN Mark(q, i, status) = DOMAIN q
         /\ Mark(q, i, status)[i].status = status
         /\ \A k \in DOMAIN q \ {i} : Mark(q, i, status)[k] = q[k]
         /\ \A k \in DOMAIN q : Key(Mark(q, i, status)[k]) = Key(q[k])
<1> DEFINE m == Mark(q, i, status)
<1>1. /\ DOMAIN m = DOMAIN q /\ m[i].status = status
      /\ \A k \in DOMAIN q \ {i} : m[k] = q[k]
      /\ \A k \in DOMAIN q : Unit(m[k]) = Unit(q[k]) /\ m[k].attempt = q[k].attempt
  BY MarkFacts DEF Good
<1> HIDE DEF m
<1>2. \A k \in DOMAIN q : Key(m[k]) = Key(q[k])
  BY <1>1 DEF Key, Unit
<1> QED
  BY <1>1, <1>2 DEF m

\* A run handed out was queued before, and is the one that runs.
LEMMA TakeHandsOut ==
  ASSUME NEW q, Good(q), Running(q) = {}, Queued(q) # {}
  PROVE  LET i == FirstQueued(q)
         IN  /\ Good(Take(q))
             /\ Follows(q, Take(q))
             /\ i \in DOMAIN q /\ q[i].status = "queued"
             /\ i \in Running(Take(q))
             /\ Key(Take(q)[i]) = Key(q[i])
<1> DEFINE i == FirstQueued(q)
           m == Mark(q, i, "running")
<1>1. i \in DOMAIN q /\ q[i].status = "queued"
  BY FirstQueuedExists DEF Good
<1>2. Good(Take(q)) /\ Take(q) = m
  BY TakeKeepsGood DEF Take
<1> HIDE DEF i
<1>3. /\ DOMAIN m = DOMAIN q /\ m[i].status = "running"
      /\ \A k \in DOMAIN q \ {i} : m[k] = q[k]
      /\ \A k \in DOMAIN q : Key(m[k]) = Key(q[k])
  <2>1. "running" \in Statuses
    BY DEF Statuses
  <2> QED
    BY <1>1, <2>1, MarkKeepsKeys
<1> HIDE DEF m
<1>4. i \in Running(m)
  BY <1>1, <1>3 DEF Running, Having
<1>5. Follows(q, m)
  <2>1. \A j \in DOMAIN q : q[j].status # "queued" => j # i /\ m[j] = q[j]
    BY <1>1, <1>3
  <2>2. \A k \in DOMAIN m : m[k].status = "done" => k # i /\ q[k] = m[k]
    BY <1>3
  <2> QED
    BY <1>3, <2>1, <2>2 DEF Follows
<1> QED
  BY <1>1, <1>2, <1>3, <1>4, <1>5 DEF i

\* A failure closes its own row and no other.
LEMMA FailCloses ==
  ASSUME NEW q, Good(q), NEW i \in Running(q), NEW r \in Fail(q, i)
  PROVE  Good(r) /\ Running(r) = {} /\ Follows(q, r)
<1>1. Good(r) /\ Running(r) = {} /\ Len(r) >= Len(q) /\ \A k \in 1..(i - 1) : r[k] = q[k]
  BY FailKeepsGood
<1>2. /\ i \in DOMAIN q /\ q[i].status = "running"
      /\ \A k \in DOMAIN q : i < k => q[k].status = "queued"
  BY OneAtATime DEF Good
<1>3. /\ DOMAIN q = 1..Len(q) /\ Len(q) \in Nat
      /\ DOMAIN r = 1..Len(r) /\ Len(r) \in Nat
      /\ q[i].attempt \in 1..MaxAttempts /\ MaxAttempts \in Nat
  BY <1>1, <1>2, RowFacts, DesignAssumption DEF Good
<1>4. /\ Key(r[i]) = Key(q[i]) /\ r[i].status \notin {"queued", "done"}
      /\ \A k \in DOMAIN r : r[k].status = "done" => \E j \in DOMAIN q : q[j] = r[k]
  <2>1. CASE q[i].attempt >= MaxAttempts
    <3>1. r = Mark(q, i, "abandoned")
      BY <2>1 DEF Fail
    <3>2. "abandoned" \in Statuses
      BY DEF Statuses
    <3>3. /\ DOMAIN r = DOMAIN q /\ r[i].status = "abandoned"
          /\ \A k \in DOMAIN q \ {i} : r[k] = q[k]
          /\ \A k \in DOMAIN q : Key(r[k]) = Key(q[k])
      BY <1>2, <3>1, <3>2, MarkKeepsKeys
    <3> QED
      BY <1>2, <3>3
  <2>2. CASE q[i].attempt < MaxAttempts
    <3>1. PICK p \in Later(q, i) : r = InsertAt(Mark(q, i, "failed"), p, Copy(q[i]))
      <4>1. r \in {InsertAt(Mark(q, i, "failed"), p, Copy(q[i])) : p \in Slots(q, i)}
        BY <1>3, <2>2 DEF Fail
      <4> QED
        BY <4>1, SlotsAreLater
    <3>2. /\ Len(r) = Len(q) + 1
          /\ i < p /\ p \in 1..Len(r)
          /\ r[p].status = "queued"
          /\ Unit(r[i]) = Unit(q[i]) /\ r[i].attempt = q[i].attempt
          /\ r[i].status = "failed"
          /\ \A k \in 1..(p - 1) : k # i => r[k] = q[k]
          /\ \A k \in p..Len(q) : r[k + 1] = q[k]
      BY <2>2, <3>1, FailWithCopyFacts
    <3>3. ASSUME NEW k \in DOMAIN r, r[k].status = "done"
          PROVE  \E j \in DOMAIN q : q[j] = r[k]
      <4>1. k # i /\ k # p
        BY <3>2, <3>3
      <4>2. CASE k < p
        BY <1>3, <3>2, <4>1, <4>2
      <4>3. CASE p < k
        <5>1. k - 1 \in p..Len(q) /\ (k - 1) + 1 = k /\ k - 1 \in DOMAIN q
          BY <1>3, <3>2, <4>3
        <5> QED
          BY <3>2, <5>1
      <4> QED
        BY <1>3, <3>2, <4>1, <4>2, <4>3
    <3>4. Key(r[i]) = Key(q[i])
      BY <3>2 DEF Key, Unit
    <3> QED
      BY <3>2, <3>3, <3>4
  <2> QED
    BY <1>3, <2>1, <2>2
<1>5. ASSUME NEW j \in DOMAIN q, q[j].status # "queued"
      PROVE  \E k \in DOMAIN r : Key(r[k]) = Key(q[j]) /\ r[k].status # "queued"
  <2>1. ~(i < j) /\ j \in DOMAIN r
    BY <1>1, <1>2, <1>3, <1>5
  <2>2. CASE j = i
    <3>1. i \in DOMAIN r /\ Key(r[i]) = Key(q[i]) /\ r[i].status # "queued"
      BY <1>4, <2>1, <2>2
    <3> QED
      BY <2>2, <3>1, Zenon
  <2>3. CASE j < i
    <3>1. r[j] = q[j]
      BY <1>1, <1>2, <1>3, <2>3
    <3> QED
      BY <1>5, <2>1, <3>1
  <2> QED
    BY <1>2, <1>3, <2>1, <2>2, <2>3
<1> QED
  BY <1>1, <1>4, <1>5 DEF Follows

\* A run closed as done leaves every other row as it was.
LEMMA DoneCloses ==
  ASSUME NEW q, Good(q), NEW i \in Running(q)
  PROVE  LET r == Mark(q, i, "done")
         IN  /\ Good(r)
             /\ \A j \in DOMAIN q :
                  q[j].status # "queued"
                    => \E k \in DOMAIN r : Key(r[k]) = Key(q[j]) /\ r[k].status # "queued"
             /\ \A k \in DOMAIN r :
                  r[k].status = "done"
                    => Key(r[k]) = Key(q[i]) \/ \E j \in DOMAIN q : q[j] = r[k]
<1> DEFINE r == Mark(q, i, "done")
<1>1. i \in DOMAIN q
  BY DEF Running, Having
<1>2. Good(r)
  BY CloseKeepsGood
<1>3. /\ DOMAIN r = DOMAIN q /\ r[i].status = "done"
      /\ \A k \in DOMAIN q \ {i} : r[k] = q[k]
      /\ \A k \in DOMAIN q : Key(r[k]) = Key(q[k])
  <2>1. "done" \in Statuses
    BY DEF Statuses
  <2> QED
    BY <1>1, <2>1, MarkKeepsKeys
<1> HIDE DEF r
<1>4. \A j \in DOMAIN q :
        q[j].status # "queued" => Key(r[j]) = Key(q[j]) /\ r[j].status # "queued"
  BY <1>3
<1>5. \A k \in DOMAIN r : Key(r[k]) = Key(q[i]) \/ q[k] = r[k]
  BY <1>3
<1> QED
  BY <1>2, <1>3, <1>4, <1>5 DEF r

\* A queue follows itself.
LEMMA FollowsSelf ==
  ASSUME NEW q
  PROVE  Follows(q, q)
BY DEF Follows

\* What follows what follows a queue follows it.
LEMMA FollowsOn ==
  ASSUME NEW q, NEW r, NEW s, Follows(q, r), Follows(r, s)
  PROVE  Follows(q, s)
<1>1. ASSUME NEW j \in DOMAIN q, q[j].status # "queued"
      PROVE  \E k \in DOMAIN s : Key(s[k]) = Key(q[j]) /\ s[k].status # "queued"
  <2>1. PICK l \in DOMAIN r : Key(r[l]) = Key(q[j]) /\ r[l].status # "queued"
    BY <1>1 DEF Follows
  <2>2. PICK k \in DOMAIN s : Key(s[k]) = Key(r[l]) /\ s[k].status # "queued"
    BY <2>1 DEF Follows
  <2> QED
    BY <2>1, <2>2
<1>2. ASSUME NEW k \in DOMAIN s, s[k].status = "done"
      PROVE  \E j \in DOMAIN q : q[j] = s[k]
  <2>1. PICK l \in DOMAIN r : r[l] = s[k]
    BY <1>2 DEF Follows
  <2>2. r[l].status = "done"
    BY <1>2, <2>1
  <2> QED
    BY <2>1, <2>2 DEF Follows
<1> QED
  BY <1>1, <1>2 DEF Follows

\* A recovery closes what was running and no other row.
LEMMA RecoveryCloses ==
  ASSUME NEW q, Good(q), NEW r \in Recovered(q)
  PROVE  Good(r) /\ Running(r) = {} /\ Follows(q, r)
<1>1. CASE Running(q) = {}
  BY <1>1, FollowsSelf DEF Recovered
<1>2. CASE Running(q) # {}
  BY <1>2, FailCloses DEF Recovered
<1> QED
  BY <1>1, <1>2

-----------------------------------------------------------------------------
(***************************************************************************)
(* A copy beside a run of its own setup.  RepeatPlaces are the rows that   *)
(* Repeats counts; an insertion moves the later ones up by one, adds one   *)
(* for each neighbour of the same setup, and takes away the place it goes  *)
(* into when that was between two rows of one setup.                       *)
(***************************************************************************)
RepeatPlaces(q) == {k \in 1..(Len(q) - 1) : q[k].setup = q[k + 1].setup}

\* r is q with a row of that setup before what was row p, as far as the setups
\* go.
PutIn(q, p, setup, r) ==
  /\ Len(r) = Len(q) + 1
  /\ p \in 1..Len(r)
  /\ r[p].setup = setup
  /\ \A k \in 1..(p - 1) : r[k].setup = q[k].setup
  /\ \A k \in p..Len(q) : r[k + 1].setup = q[k].setup

\* A file has finitely many repeats.
LEMMA RepeatsFinite ==
  ASSUME NEW q \in Seq(Row)
  PROVE  /\ Repeats(q) = Cardinality(RepeatPlaces(q))
         /\ IsFiniteSet(RepeatPlaces(q)) /\ RepeatPlaces(q) \subseteq 1..(Len(q) - 1)
         /\ Repeats(q) \in Nat
<1>1. Repeats(q) = Cardinality(RepeatPlaces(q)) /\ RepeatPlaces(q) \subseteq 1..(Len(q) - 1)
  BY DEF Repeats, RepeatPlaces
<1>2. Len(q) - 1 \in Int
  BY RowFacts
<1>3. IsFiniteSet(1..(Len(q) - 1))
  BY <1>2, FS_Interval
<1>4. IsFiniteSet(RepeatPlaces(q))
  BY <1>1, <1>3, FS_Subset
<1> QED
  BY <1>1, <1>4, FS_CardinalityType

\* Beside no run of its setup, the row adds no repeat.
LEMMA ApartAddsNone ==
  ASSUME NEW q \in Seq(Row), NEW r \in Seq(Row), NEW p, NEW setup,
         PutIn(q, p, setup, r), ~BesideSameSetup(q, p, setup)
  PROVE  Repeats(r) <= Repeats(q)
<1> DEFINE Back == [k \in RepeatPlaces(r) |-> IF k < p THEN k ELSE k - 1]
<1>1. /\ Len(q) \in Nat /\ Len(r) = Len(q) + 1 /\ p \in 1..(Len(q) + 1)
      /\ r[p].setup = setup
      /\ \A k \in 1..(p - 1) : r[k].setup = q[k].setup
      /\ \A k \in p..Len(q) : r[k + 1].setup = q[k].setup
      /\ p > 1 => q[p - 1].setup # setup
      /\ p <= Len(q) => q[p].setup # setup
  BY RowFacts DEF PutIn, BesideSameSetup
<1>2. ASSUME NEW k \in RepeatPlaces(r)
      PROVE  /\ k \in Int /\ (k < p - 1 \/ p < k)
             /\ Back[k] \in RepeatPlaces(q)
  <2>1. k \in 1..Len(q) /\ r[k].setup = r[k + 1].setup
    BY <1>1 DEF RepeatPlaces
  <2>2. k # p
    <3> SUFFICES ASSUME k = p PROVE FALSE
      OBVIOUS
    <3>1. p \in p..Len(q)
      BY <1>1, <2>1
    <3>2. r[p + 1].setup = q[p].setup
      BY <1>1, <3>1
    <3> QED
      BY <1>1, <2>1, <3>1, <3>2
  <2>3. k # p - 1
    <3> SUFFICES ASSUME k = p - 1 PROVE FALSE
      OBVIOUS
    <3>1. k \in 1..(p - 1) /\ k + 1 = p /\ p > 1
      BY <1>1, <2>1
    <3> QED
      BY <1>1, <2>1, <3>1
  <2>4. CASE k < p - 1
    <3>1. k \in 1..(p - 1) /\ k + 1 \in 1..(p - 1) /\ k \in 1..(Len(q) - 1) /\ k < p
      BY <1>1, <2>1, <2>4
    <3>2. q[k].setup = q[k + 1].setup
      BY <1>1, <2>1, <3>1
    <3> QED
      BY <2>4, <3>1, <3>2 DEF RepeatPlaces
  <2>5. CASE p < k
    <3>1. /\ k - 1 \in p..Len(q) /\ k \in p..Len(q) /\ (k - 1) + 1 = k
          /\ k - 1 \in 1..(Len(q) - 1) /\ ~(k < p)
      BY <1>1, <2>1, <2>5
    <3>2. r[k].setup = q[k - 1].setup /\ r[k + 1].setup = q[k].setup
      <4>1. \A l \in p..Len(q) : r[l + 1].setup = q[l].setup
        BY <1>1
      <4>2. r[(k - 1) + 1].setup = q[k - 1].setup
        BY <3>1, <4>1
      <4> QED
        BY <3>1, <4>1, <4>2
    <3>3. k - 1 \in RepeatPlaces(q)
      BY <2>1, <3>1, <3>2 DEF RepeatPlaces
    <3> QED
      BY <2>5, <3>1, <3>3
  <2> QED
    BY <1>1, <2>1, <2>2, <2>3, <2>4, <2>5
<1>3. Back \in Injection(RepeatPlaces(r), RepeatPlaces(q))
  <2>1. Back \in [RepeatPlaces(r) -> RepeatPlaces(q)]
    BY <1>2
  <2>2. ASSUME NEW a \in RepeatPlaces(r), NEW b \in RepeatPlaces(r), Back[a] = Back[b]
        PROVE  a = b
    <3>1. /\ a \in Int /\ b \in Int /\ p \in Int
          /\ a < p - 1 \/ p < a
          /\ b < p - 1 \/ p < b
      BY <1>1, <1>2
    <3>2. (IF a < p THEN a ELSE a - 1) = (IF b < p THEN b ELSE b - 1)
      BY <2>2
    <3> QED
      BY <3>1, <3>2
  <2> QED
    BY <2>1, <2>2 DEF Injection, IsInjective
<1> HIDE DEF Back
<1> QED
  BY <1>3, RepeatsFinite, FS_Injection

\* Beside a run of its setup, it adds one.
LEMMA BesideAddsOne ==
  ASSUME NEW q \in Seq(Row), NEW r \in Seq(Row), NEW p, NEW setup,
         PutIn(q, p, setup, r), BesideSameSetup(q, p, setup)
  PROVE  Repeats(r) > Repeats(q)
<1> DEFINE New == IF p <= Len(q) /\ q[p].setup = setup THEN p ELSE p - 1
           On == [k \in RepeatPlaces(q) |-> IF k < p THEN k ELSE k + 1]
<1>1. /\ Len(q) \in Nat /\ Len(r) = Len(q) + 1 /\ p \in 1..(Len(q) + 1)
      /\ r[p].setup = setup
      /\ \A k \in 1..(p - 1) : r[k].setup = q[k].setup
      /\ \A k \in p..Len(q) : r[k + 1].setup = q[k].setup
      /\ \/ p > 1 /\ q[p - 1].setup = setup
         \/ p <= Len(q) /\ q[p].setup = setup
  BY RowFacts DEF PutIn, BesideSameSetup
<1>2. New \in RepeatPlaces(r)
  <2>1. CASE p <= Len(q) /\ q[p].setup = setup
    <3>1. p \in p..Len(q) /\ p \in 1..(Len(r) - 1)
      BY <1>1, <2>1
    <3>2. r[p + 1].setup = setup
      BY <1>1, <2>1, <3>1
    <3> QED
      BY <1>1, <2>1, <3>1, <3>2 DEF RepeatPlaces
  <2>2. CASE ~(p <= Len(q) /\ q[p].setup = setup)
    <3>1. p > 1 /\ q[p - 1].setup = setup
      BY <1>1, <2>2
    <3>2. p - 1 \in 1..(p - 1) /\ p - 1 \in 1..(Len(r) - 1) /\ (p - 1) + 1 = p
      BY <1>1, <3>1
    <3>3. r[p - 1].setup = setup
      BY <1>1, <3>1, <3>2
    <3>4. p - 1 \in RepeatPlaces(r)
      BY <1>1, <3>2, <3>3 DEF RepeatPlaces
    <3> QED
      BY <2>2, <3>4
  <2> QED
    BY <2>1, <2>2
<1>3. ASSUME NEW k \in RepeatPlaces(q)
      PROVE  /\ k \in Int
             /\ On[k] \in RepeatPlaces(r) \ {New}
  <2>1. k \in 1..(Len(q) - 1) /\ k \in 1..Len(q) /\ q[k].setup = q[k + 1].setup
    BY <1>1 DEF RepeatPlaces
  <2>2. CASE k < p - 1
    <3>1. k \in 1..(p - 1) /\ k + 1 \in 1..(p - 1) /\ k \in 1..(Len(r) - 1)
      BY <1>1, <2>1, <2>2
    <3>2. r[k].setup = r[k + 1].setup
      BY <1>1, <2>1, <3>1
    <3>3. k \in RepeatPlaces(r)
      BY <3>1, <3>2 DEF RepeatPlaces
    <3>4. On[k] = k /\ k # p /\ k # p - 1
      BY <1>1, <2>1, <2>2
    <3> QED
      BY <2>1, <3>3, <3>4
  <2>3. CASE k = p - 1
    <3>1. /\ k \in 1..(p - 1) /\ k + 1 = p /\ k \in 1..(Len(r) - 1)
          /\ p > 1 /\ p <= Len(q)
      BY <1>1, <2>1, <2>3
    <3>2. q[p - 1].setup = q[p].setup /\ q[p].setup = setup
      BY <1>1, <2>1, <2>3, <3>1
    <3>3. r[k].setup = r[k + 1].setup
      BY <1>1, <2>3, <3>1, <3>2
    <3>4. k \in RepeatPlaces(r)
      BY <3>1, <3>3 DEF RepeatPlaces
    <3>5. On[k] = k /\ New = p /\ k # p
      BY <1>1, <2>1, <2>3, <3>1, <3>2
    <3> QED
      BY <2>1, <3>4, <3>5
  <2>4. CASE p <= k
    <3>1. /\ k \in p..Len(q) /\ k + 1 \in p..Len(q) /\ k + 1 \in 1..(Len(r) - 1)
      BY <1>1, <2>1, <2>4
    <3>2. \A l \in p..Len(q) : r[l + 1].setup = q[l].setup
      BY <1>1
    <3>3. r[k + 1].setup = q[k].setup /\ r[(k + 1) + 1].setup = q[k + 1].setup
      BY <3>1, <3>2
    <3>4. k + 1 \in RepeatPlaces(r)
      BY <2>1, <3>1, <3>3 DEF RepeatPlaces
    <3>5. On[k] = k + 1 /\ k + 1 # p /\ k + 1 # p - 1
      BY <1>1, <2>1, <2>4
    <3> QED
      BY <2>1, <3>4, <3>5
  <2> QED
    BY <1>1, <2>1, <2>2, <2>3, <2>4
<1>4. On \in Injection(RepeatPlaces(q), RepeatPlaces(r) \ {New})
  <2>1. On \in [RepeatPlaces(q) -> RepeatPlaces(r) \ {New}]
    BY <1>3
  <2>2. ASSUME NEW a \in RepeatPlaces(q), NEW b \in RepeatPlaces(q), On[a] = On[b]
        PROVE  a = b
    <3>1. a \in Int /\ b \in Int /\ p \in Int
      BY <1>1, <1>3
    <3>2. (IF a < p THEN a ELSE a + 1) = (IF b < p THEN b ELSE b + 1)
      BY <2>2
    <3> QED
      BY <3>1, <3>2
  <2> QED
    BY <2>1, <2>2 DEF Injection, IsInjective
<1> HIDE DEF On, New
<1>5. IsFiniteSet(RepeatPlaces(r) \ {New})
      /\ Cardinality(RepeatPlaces(r) \ {New}) = Cardinality(RepeatPlaces(r)) - 1
  BY <1>2, RepeatsFinite, FS_RemoveElement
<1>6. Cardinality(RepeatPlaces(q)) <= Cardinality(RepeatPlaces(r) \ {New})
  BY <1>4, <1>5, FS_Injection
<1>7. /\ Repeats(q) = Cardinality(RepeatPlaces(q)) /\ Repeats(q) \in Nat
      /\ Repeats(r) = Cardinality(RepeatPlaces(r)) /\ Repeats(r) \in Nat
  BY RepeatsFinite
<1> QED
  BY <1>5, <1>6, <1>7

\* Marking a row changes no setup.
LEMMA TakeRepeats ==
  ASSUME NEW q, Good(q)
  PROVE  Len(Take(q)) = Len(q) /\ Repeats(Take(q)) = Repeats(q)
<1>1. q \in Seq(Row) /\ DOMAIN q = 1..Len(q) /\ Len(q) \in Nat
  BY RowFacts DEF Good
<1>2. CASE Queued(q) = {}
  BY <1>2 DEF Take
<1>3. CASE Queued(q) # {}
  <2> DEFINE i == FirstQueued(q)
             m == Mark(q, i, "running")
  <2>1. i \in DOMAIN q /\ "running" \in Statuses
    BY <1>1, <1>3, FirstQueuedExists DEF Statuses
  <2> HIDE DEF i
  <2>2. Len(m) = Len(q) /\ \A k \in DOMAIN q : Unit(m[k]) = Unit(q[k])
    BY <1>1, <2>1, MarkFacts
  <2>3. Take(q) = m
    BY <1>3 DEF Take, i
  <2> HIDE DEF m
  <2>4. \A k \in 1..Len(q) : m[k].setup = q[k].setup
    BY <1>1, <2>2 DEF Unit
  <2>5. \A k \in 1..(Len(q) - 1) : k \in 1..Len(q) /\ k + 1 \in 1..Len(q)
    BY <1>1
  <2>6. \A k \in 1..(Len(q) - 1) :
          (m[k].setup = m[k + 1].setup) <=> (q[k].setup = q[k + 1].setup)
    BY <2>4, <2>5
  <2> QED
    BY <2>2, <2>3, <2>6 DEF Repeats
<1> QED
  BY <1>2, <1>3

\* A failure whose copy makes a repeat had no later place that would make none.
LEMMA FailApart ==
  ASSUME NEW q, Good(q), NEW i \in Running(q), NEW r \in Fail(q, i),
         Len(r) > Len(q), Repeats(r) > Repeats(q)
  PROVE  \A p \in Later(q, i) : Repeats(InsertAt(q, p, q[i])) > Repeats(q)
<1>1. /\ q \in Seq(Row) /\ i \in DOMAIN q /\ q[i] \in Row
      /\ DOMAIN q = 1..Len(q) /\ Len(q) \in Nat
      /\ q[i].attempt \in Int /\ MaxAttempts \in Int
  BY OneAtATime, RowFacts, DesignAssumption DEF Good
<1>2. q[i].attempt < MaxAttempts
  <2> SUFFICES ASSUME q[i].attempt >= MaxAttempts PROVE FALSE
    BY <1>1
  <2>1. r = Mark(q, i, "abandoned") /\ "abandoned" \in Statuses
    BY DEF Fail, Statuses
  <2>2. Len(r) = Len(q)
    BY <1>1, <2>1, MarkFacts
  <2> QED
    BY <1>1, <2>2
<1>3. PICK p \in Slots(q, i) : r = InsertAt(Mark(q, i, "failed"), p, Copy(q[i]))
  BY <1>1, <1>2 DEF Fail
<1>4. p \in Later(q, i)
  BY <1>3, SlotsAreLater
<1>5. r \in Seq(Row) /\ PutIn(q, p, q[i].setup, r)
  <2>1. /\ r \in Seq(Row)
        /\ Len(r) = Len(q) + 1
        /\ p \in 1..Len(r)
        /\ Unit(r[p]) = Unit(q[i]) /\ Unit(r[i]) = Unit(q[i])
        /\ \A k \in 1..(p - 1) : k # i => r[k] = q[k]
        /\ \A k \in p..Len(q) : r[k + 1] = q[k]
    BY <1>2, <1>3, <1>4, FailWithCopyFacts
  <2>2. r[p].setup = q[i].setup /\ r[i].setup = q[i].setup
    BY <2>1 DEF Unit
  <2>3. \A k \in 1..(p - 1) : r[k].setup = q[k].setup
    BY <2>1, <2>2
  <2> QED
    BY <2>1, <2>2, <2>3 DEF PutIn
<1>6. BesideSameSetup(q, p, q[i].setup)
  <2> SUFFICES ASSUME ~BesideSameSetup(q, p, q[i].setup) PROVE FALSE
    OBVIOUS
  <2>1. Repeats(r) <= Repeats(q)
    BY <1>1, <1>5, ApartAddsNone
  <2>2. Repeats(r) \in Nat /\ Repeats(q) \in Nat
    BY <1>1, <1>5, RepeatsFinite
  <2> QED
    BY <2>1, <2>2
<1>7. Allowed(q, i) = {}
  BY <1>3, <1>6 DEF Slots, Allowed
<1> SUFFICES ASSUME NEW o \in Later(q, i)
             PROVE  Repeats(InsertAt(q, o, q[i])) > Repeats(q)
  OBVIOUS
<1>8. BesideSameSetup(q, o, q[i].setup)
  BY <1>7 DEF Allowed
<1> DEFINE s == InsertAt(q, o, q[i])
<1>9. o \in 1..(Len(q) + 1)
  BY <1>1 DEF Later
<1>10. /\ s \in Seq(Row) /\ Len(s) = Len(q) + 1 /\ s[o] = q[i]
       /\ \A k \in 1..(o - 1) : s[k] = q[k]
       /\ \A k \in o..Len(q) : s[k + 1] = q[k]
  <2>1. q \in Seq(Row) /\ q[i] \in Row /\ o \in 1..(Len(q) + 1)
    BY <1>1, <1>9
  <2> QED
    BY <2>1, InsertAtFacts, SMTT(60)
<1> HIDE DEF s
<1>11. PutIn(q, o, q[i].setup, s)
  BY <1>9, <1>10 DEF PutIn
<1>12. Repeats(s) > Repeats(q)
  BY <1>1, <1>8, <1>10, <1>11, BesideAddsOne
<1> QED
  BY <1>12 DEF s

-----------------------------------------------------------------------------
(***************************************************************************)
(* The theorems.                                                           *)
(***************************************************************************)

\* The invariant the others follow from: after any commands the ledger is
\* good.
THEOREM LedgerGood == Spec => []Good(rows)
<1>1. Init => Good(rows)
  BY FreshIsGood DEF Init
<1>2. Good(rows) /\ [Next]_rows => Good(rows)'
  BY StepKeeps DEF Kept
<1> QED
  BY <1>1, <1>2, PTL DEF Spec

\* Every row of the file is a row the script writes.
THEOREM TypeCorrect == Spec => []TypeOK
<1>1. Good(rows) => TypeOK
  BY DEF Good, TypeOK
<1> QED
  BY <1>1, LedgerGood, PTL

\* Runs are handed out in file order, one at a time.
THEOREM OrderKept == Spec => []InOrder
<1>1. Good(rows) => InOrder
  BY DEF Good, InOrder
<1> QED
  BY <1>1, LedgerGood, PTL

\* A planned run is repeated only because it failed.
THEOREM RepeatsAreFailures == Spec => []OneLineage
<1>1. Good(rows) => OneLineage
  BY DEF Good, OneLineage
<1> QED
  BY <1>1, LedgerGood, PTL

\* No planned run drops out of the ledger.
THEOREM NoneLost == Spec => []NothingLost
<1>1. Good(rows) => NothingLost
  BY DEF Good, NothingLost
<1> QED
  BY <1>1, LedgerGood, PTL

\* No command rewrites the past.
THEOREM PastKept == Spec => PastIsKept
<1>1. Good(rows) /\ [Next]_rows
        => [\A i \in Closed(rows) : i \in DOMAIN rows' /\ rows'[i] = rows[i]]_rows
  BY StepKeeps DEF Kept
<1> QED
  BY <1>1, LedgerGood, PTL DEF Spec, PastIsKept

\* A copy goes beside a run of its own setup only where nothing else is left.
THEOREM CopiesKeptApart == Spec => CopyApart
<1>1. Good(rows) /\ [Next]_rows
        => [Len(rows') > Len(rows) /\ Repeats(rows') > Repeats(rows)
              => \A i \in Running(rows) : \A p \in Later(rows, i) :
                   Repeats(InsertAt(rows, p, rows[i])) > Repeats(rows)]_rows
  <2> SUFFICES ASSUME Good(rows), Next,
                      Len(rows') > Len(rows), Repeats(rows') > Repeats(rows),
                      NEW i \in Running(rows)
               PROVE  \A p \in Later(rows, i) :
                        Repeats(InsertAt(rows, p, rows[i])) > Repeats(rows)
    OBVIOUS
  <2>1. /\ Running(rows) = {i} /\ rows \in Seq(Row) /\ Len(rows) \in Nat
        /\ i \in DOMAIN rows /\ rows[i].status = "running"
    BY OneAtATime, RowFacts DEF Good
  <2>2. PICK r : Good(r) /\ r \in Fail(rows, i) /\ Len(r) > Len(rows) /\ Repeats(r) > Repeats(rows)
    <3>1. CASE NextRun
      BY <2>1, <3>1 DEF NextRun
    <3>2. CASE NextRecover
      <4>1. PICK r \in Recovered(rows) : rows' = Take(r)
        BY <3>2 DEF NextRecover
      <4>2. r \in Fail(rows, i)
        BY <2>1, <4>1 DEF Recovered
      <4>3. Good(r)
        BY <4>2, FailKeepsGood
      <4>4. Len(rows') = Len(r) /\ Repeats(rows') = Repeats(r)
        BY <4>1, <4>3, TakeRepeats
      <4> QED
        BY <4>2, <4>3, <4>4
    <3>3. CASE FinishDone
      <4>1. rows' = Mark(rows, i, "done") /\ "done" \in Statuses
        BY <2>1, <3>3 DEF FinishDone, Statuses
      <4>2. Len(rows') = Len(rows)
        BY <2>1, <4>1, MarkFacts
      <4> QED
        BY <2>1, <4>2
    <3>4. CASE FinishFailed
      <4>1. rows' \in Fail(rows, i)
        BY <2>1, <3>4 DEF FinishFailed
      <4> QED
        BY <4>1, FailKeepsGood
    <3>5. CASE Remake
      BY <2>1, <3>5 DEF Remake
    <3> QED
      BY <3>1, <3>2, <3>3, <3>4, <3>5 DEF Next
  <2> QED
    BY <2>2, FailApart
<1> QED
  BY <1>1, LedgerGood, PTL DEF Spec, CopyApart

=============================================================================
