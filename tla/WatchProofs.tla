----------------------------- MODULE WatchProofs -----------------------------
(***************************************************************************)
(* What Watch promises, for every interval, idle time, gap and number of   *)
(* quiet looks, and however many pieces of work, failures and cuts.        *)
(***************************************************************************)
EXTENDS Watch, TLAPS

\* The constants, one by one.
LEMMA Times ==
  /\ Interval \in Nat \ {0} /\ IdleMin \in Nat \ {0}
  /\ MaxGap \in Nat \ {0} /\ Looks \in Nat \ {0}
  /\ MaxStarts \in Nat /\ MaxFails \in Nat /\ MaxCuts \in Nat
BY WatchAssumption

\* Counted far enough for whoever compares.
LEMMA FarEnough == LongAgo \in Nat /\ LongAgo > Interval /\ LongAgo > MaxGap
BY Times DEF LongAgo, Upper

-----------------------------------------------------------------------------
(***************************************************************************)
(* Types.                                                                  *)
(***************************************************************************)
\* TypeOK in the parts that the steps change together.
PairOK ==
  /\ on \subseteq Machines /\ going \subseteq on
  /\ work \in Works /\ age \in 0..(Interval + 1)
  /\ "driver" \notin on => work = "none" /\ waiter = NoWaiter
SeenOK == unseen \subseteq {"watch", "waiter"} /\ {still, lost, paid} \subseteq BOOLEAN
WaiterOK ==
  waiter \in [at: {"off", "look", "self", "last"}, quiet: 0..(Looks - 1), wait: 0..Interval]
LookOK ==
  /\ pc \in {"off", "start", "sleep", "driver", "broker", "stop_driver", "stop_broker", "money"}
  /\ found \in Works \union {"unread", "no_answer"}
ClockOK ==
  /\ idle \in None..IdleMin /\ since \in None..LongAgo /\ lead \in Int
ToldOK == told \subseteq {"INFO", "ALERT", "IDLE"} \X (Machines \union {"stopping"})
UsedOK == used \in [{"start", "fail", "cut"} -> Nat]

\* The parts make the whole.
LEMMA TypeParts == TypeOK <=> PairOK /\ SeenOK /\ WaiterOK /\ LookOK /\ ClockOK /\ ToldOK /\ UsedOK
BY Zenon DEF TypeOK, PairOK, SeenOK, WaiterOK, LookOK, ClockOK, ToldOK, UsedOK

\* The numbers among them.
LEMMA Numbers ==
  ASSUME TypeOK
  PROVE  age \in 0..(Interval + 1) /\ idle \in Int /\ since \in Int /\ lead \in Int
<1>1. PairOK /\ ClockOK
  BY TypeParts
<1>2. idle \in Int /\ since \in Int
  BY <1>1, Times, FarEnough DEF ClockOK, None
<1> QED BY <1>1, <1>2 DEF PairOK, ClockOK

\* A step counts one start, failure or cut, or none.
LEMMA UsedKept ==
  ASSUME UsedOK, [Next]_vars
  PROVE  UsedOK'
<1>1. ASSUME NEW what \in {"start", "fail", "cut"}, Used(what)
      PROVE  UsedOK'
  BY <1>1 DEF Used, UsedOK
<1>2. ASSUME UNCHANGED used
      PROVE  UsedOK'
  BY <1>2 DEF UsedOK
<1>3. UNCHANGED used \/ \E what \in {"start", "fail", "cut"} : Used(what)
  <2>1. CASE Next
    BY <2>1, Zenon DEF Next, WatchSteps, BeginsWork, CalibrationEnds, ChainStarts, PieceEnds, NextPiece,
     Deallocates, StartsPair, Tick, Look, ProbesDriver, ProbesBroker, StopsDriver, StopsBroker,
     StopStep, MoneyLines, Cut, Restarts, WaiterLooks, SelfGivesUp, SelfAsks, Starts, Fails
  <2> QED BY <2>1 DEF vars
<1> QED BY <1>1, <1>2, <1>3

\* Who has seen the work, and the flags.
LEMMA SeenKept ==
  ASSUME SeenOK, [Next]_vars
  PROVE  SeenOK'
<1> USE DEF SeenOK
<1>1. CASE BeginsWork
  BY <1>1 DEF BeginsWork, Becomes, watch
<1>2. CASE CalibrationEnds \/ ChainStarts \/ PieceEnds \/ NextPiece
  BY <1>2 DEF CalibrationEnds, ChainStarts, PieceEnds, NextPiece, Becomes, watch
<1>3. CASE (\E m \in Machines : Deallocates(m)) \/ StartsPair \/ Tick
  BY <1>3 DEF Deallocates, StartsPair, Tick, watch
<1>4. CASE Look \/ MoneyLines \/ Cut \/ Restarts
  BY <1>4 DEF Look, MoneyLines, Cut, Restarts, pair
<1>5. CASE ProbesDriver \/ WaiterLooks
  BY <1>5 DEF ProbesDriver, WaiterLooks, Sees, watch
<1>6. CASE ProbesBroker
  BY <1>6 DEF ProbesBroker, pair
<1>7. CASE StopsDriver \/ StopsBroker
  BY <1>7 DEF StopsDriver, StopsBroker, StopStep, Asks
<1>8. CASE SelfGivesUp \/ SelfAsks
  BY <1>8 DEF SelfGivesUp, SelfAsks, Asks, pair, watch
<1>9. CASE UNCHANGED vars
  BY <1>9 DEF vars, pair, watch
<1> QED
  BY <1>1, <1>2, <1>3, <1>4, <1>5, <1>6, <1>7, <1>8, <1>9 DEF Next, WatchSteps

\* The quiet looks stay below Looks: at Looks the waiter goes to stop_self.sh.
LEMMA WaiterKept ==
  ASSUME WaiterOK, [Next]_vars
  PROVE  WaiterOK'
<1> USE Times DEF WaiterOK
<1>1. ASSUME waiter' \in {waiter, NoWaiter}
      PROVE  WaiterOK'
  BY <1>1 DEF NoWaiter
<1>2. CASE Tick
  BY <1>2 DEF Tick, Upper
<1>3. CASE WaiterLooks
  BY <1>3 DEF WaiterLooks, Quiet, Waiting
<1>4. CASE SelfAsks
  <2>1. CASE waiter' = [waiter EXCEPT !.at = "last"]
    BY <2>1
  <2> QED BY <1>1, <1>4, <2>1 DEF SelfAsks
<1>5. CASE Next /\ ~(Tick \/ WaiterLooks \/ SelfAsks)
  <2>1. waiter' \in {waiter, NoWaiter}
    BY <1>5 DEF Next, WatchSteps, BeginsWork, CalibrationEnds, ChainStarts, PieceEnds, NextPiece, Becomes,
     Deallocates, StartsPair, Look, ProbesDriver, ProbesBroker, StopsDriver, StopsBroker,
     StopStep, MoneyLines, Cut, Restarts, SelfGivesUp
  <2> QED BY <1>1, <2>1
<1>6. CASE UNCHANGED vars
  BY <1>1, <1>6 DEF vars
<1> QED
  BY <1>2, <1>3, <1>4, <1>5, <1>6

\* Where the watch is, and what it has read.
LEMMA LookKept ==
  ASSUME LookOK, PairOK, [Next]_vars
  PROVE  LookOK'
<1> USE DEF LookOK
<1>1. ASSUME UNCHANGED <<pc, found>>
      PROVE  LookOK'
  BY <1>1
<1>2. CASE Look \/ MoneyLines \/ Restarts
  BY <1>2 DEF Look, MoneyLines, Restarts, Goes
<1>3. CASE ProbesDriver
  BY <1>3 DEF ProbesDriver, Goes, PairOK, Readings, Works
<1>4. CASE ProbesBroker
  BY <1>4 DEF ProbesBroker, Goes
<1>5. CASE StopsDriver \/ StopsBroker
  BY <1>5 DEF StopsDriver, StopsBroker, StopStep, Goes
<1>6. CASE Cut
  BY <1>6 DEF Cut, Goes
<1>7. CASE BeginsWork \/ CalibrationEnds \/ ChainStarts \/ PieceEnds \/ NextPiece
           \/ (\E m \in Machines : Deallocates(m)) \/ StartsPair \/ Tick
           \/ WaiterLooks \/ SelfGivesUp \/ SelfAsks
  BY <1>1, <1>7 DEF BeginsWork, CalibrationEnds, ChainStarts, PieceEnds, NextPiece, Becomes,
       Deallocates, StartsPair, Tick, WaiterLooks, SelfGivesUp, SelfAsks, watch
<1>8. CASE UNCHANGED vars
  BY <1>1, <1>8 DEF vars, watch
<1> QED
  BY <1>2, <1>3, <1>4, <1>5, <1>6, <1>7, <1>8 DEF Next, WatchSteps

\* The clocks stay within their bounds, and what the ledger counts is a number.
LEMMA ClockKept ==
  ASSUME ClockOK, [Next]_vars
  PROVE  ClockOK'
<1> USE Times, FarEnough DEF ClockOK, None
<1>1. ASSUME UNCHANGED <<idle, since, lead>>
      PROVE  ClockOK'
  BY <1>1
<1>2. CASE Tick
  <2>1. idle' \in None..IdleMin
    BY <1>2 DEF Tick, Lower
  <2>2. since' \in None..LongAgo
    <3>1. CASE since = None
      BY <1>2, <3>1 DEF Tick
    <3>2. CASE since # None
      <4>1. since' = IF since + 1 < LongAgo THEN since + 1 ELSE LongAgo
        BY <1>2, <3>2, Zenon DEF Tick, Lower
      <4> QED BY <3>2, <4>1
    <3> QED BY <3>1, <3>2
  <2>3. lead' \in Int
    BY <1>2 DEF Tick, Upper
  <2> QED BY <2>1, <2>2, <2>3
<1>3. CASE StartsPair
  <2>1. UNCHANGED <<idle, since>> /\ lead' \in {0, lead}
    BY <1>3 DEF StartsPair, watch
  <2> QED BY <2>1
<1>4. CASE ProbesBroker
  <2>1. idle' \in {None, 0, idle} /\ UNCHANGED <<since, lead>>
    BY <1>4 DEF ProbesBroker, IdleNow, money
  <2> QED BY <2>1
<1>5. CASE MoneyLines
  <2>1. Counted \in Int
    BY DEF Counted, Lower
  <2> QED BY <1>5, <2>1 DEF MoneyLines
<1>6. CASE Cut
  <2>1. idle' = None /\ UNCHANGED <<since, lead>>
    BY <1>6 DEF Cut, money
  <2> QED BY <2>1
<1>7. CASE BeginsWork \/ CalibrationEnds \/ ChainStarts \/ PieceEnds \/ NextPiece
           \/ (\E m \in Machines : Deallocates(m)) \/ Look \/ ProbesDriver \/ StopsDriver \/ StopsBroker
           \/ Restarts \/ WaiterLooks \/ SelfGivesUp \/ SelfAsks
  BY <1>1, <1>7 DEF BeginsWork, CalibrationEnds, ChainStarts, PieceEnds, NextPiece, Becomes,
       Deallocates, Look, ProbesDriver, StopsDriver, StopsBroker, StopStep, Restarts,
       WaiterLooks, SelfGivesUp, SelfAsks, watch, money
<1>8. CASE UNCHANGED vars
  BY <1>1, <1>8 DEF vars, watch, money
<1> QED
  BY <1>2, <1>3, <1>4, <1>5, <1>6, <1>7, <1>8 DEF Next, WatchSteps

\* A look raises flags about machines, and one about the stopping.
LEMMA ToldKept ==
  ASSUME ToldOK, [Next]_vars
  PROVE  ToldOK'
<1> USE DEF ToldOK
<1>1. ASSUME UNCHANGED told
      PROVE  ToldOK'
  BY <1>1
<1>2. CASE Look \/ Cut
  BY <1>2 DEF Look, Cut
<1>3. CASE ProbesBroker
  <2>1. PICK answers, canSay \in BOOLEAN :
          told' = {SaysOf(m, canSay) : m \in {m \in Machines : IF m = "driver" THEN found = "no_answer" ELSE ~answers}}
                       \union (IF IsIdle THEN {<<"IDLE", "driver">>} ELSE {})
    BY <1>3, Zenon DEF ProbesBroker
  <2>2. \A m \in Machines : SaysOf(m, canSay) \in {"INFO", "ALERT"} \X Machines
    BY DEF SaysOf
  <2>3. <<"IDLE", "driver">> \in {"IDLE"} \X Machines
    BY DEF Machines
  <2> QED BY <2>1, <2>2, <2>3
<1>4. CASE StopsDriver \/ StopsBroker
  <2>1. told' \in {told, told \union {<<"ALERT", "stopping">>}}
    BY <1>4 DEF StopsDriver, StopsBroker, StopStep
  <2> QED BY <2>1
<1>5. CASE Next /\ ~(Look \/ Cut \/ ProbesBroker \/ StopsDriver \/ StopsBroker)
  <2>1. UNCHANGED told
    BY <1>5 DEF Next, WatchSteps, BeginsWork, CalibrationEnds, ChainStarts, PieceEnds, NextPiece, Becomes,
     Deallocates, StartsPair, Tick, ProbesDriver, MoneyLines, Restarts, WaiterLooks, SelfGivesUp, SelfAsks, watch
  <2> QED BY <1>1, <2>1
<1>6. CASE UNCHANGED vars
  BY <1>1, <1>6 DEF vars, watch
<1> QED
  BY <1>2, <1>3, <1>4, <1>5, <1>6

\* A machine that is being deallocated is allocated, and nothing outlives its
\* driver.
LEMMA PairKept ==
  ASSUME PairOK, WaiterOK, [Next]_vars
  PROVE  PairOK'
<1> USE Times DEF PairOK
<1>1. CASE BeginsWork \/ CalibrationEnds \/ ChainStarts \/ PieceEnds \/ NextPiece
  BY <1>1 DEF BeginsWork, CalibrationEnds, ChainStarts, PieceEnds, NextPiece, Becomes,
              Works, Making, Queued, ByHand
<1>2. CASE \E m \in Machines : Deallocates(m)
  BY <1>2 DEF Deallocates, Works, NoWaiter
<1>3. CASE StartsPair
  BY <1>3 DEF StartsPair
<1>4. CASE Tick
  <2>1. ASSUME "driver" \notin on
        PROVE  waiter' = NoWaiter
    BY <1>4, <2>1 DEF Tick, NoWaiter, Upper
  <2>2. age' \in 0..(Interval + 1)
    BY <1>4 DEF Tick, Lower
  <2> QED BY <1>4, <2>1, <2>2 DEF Tick
<1>5. CASE StopsDriver \/ StopsBroker
  BY <1>5 DEF StopsDriver, StopsBroker, StopStep, Asks
<1>6. CASE WaiterLooks
  BY <1>6 DEF WaiterLooks, NoWaiter
<1>7. CASE SelfGivesUp
  BY <1>7 DEF SelfGivesUp, NoWaiter, pair
<1>8. CASE SelfAsks
  BY <1>8 DEF SelfAsks, Asks, NoWaiter
<1>9. ASSUME UNCHANGED <<on, going, work, age, waiter>>
      PROVE  PairOK'
  BY <1>9
<1>10. CASE Look \/ ProbesDriver \/ ProbesBroker \/ MoneyLines \/ Cut \/ Restarts
  BY <1>9, <1>10 DEF Look, ProbesDriver, ProbesBroker, MoneyLines, Cut, Restarts, pair
<1>11. CASE UNCHANGED vars
  BY <1>9, <1>11 DEF vars, pair
<1> QED
  BY <1>1, <1>2, <1>3, <1>4, <1>5, <1>6, <1>7, <1>8, <1>10, <1>11 DEF Next, WatchSteps



\* It begins in shape.
LEMMA InitTypes ==
  ASSUME Init
  PROVE  TypeOK
<1> USE Times DEF Init, Machines, NoWaiter, Waiting, None
<1>1. PairOK
  BY DEF PairOK, Works, Making, Queued, ByHand
<1>2. SeenOK /\ ToldOK /\ UsedOK
  BY DEF SeenOK, ToldOK, UsedOK
<1>3. WaiterOK
  BY DEF WaiterOK
<1>4. LookOK
  BY DEF LookOK
<1>5. ClockOK
  BY FarEnough DEF ClockOK
<1> QED
  BY <1>1, <1>2, <1>3, <1>4, <1>5, TypeParts

\* Every step keeps the shape.
LEMMA TypesKept ==
  ASSUME TypeOK, [Next]_vars
  PROVE  TypeOK'
<1>1. PairOK /\ SeenOK /\ WaiterOK /\ LookOK /\ ClockOK /\ ToldOK /\ UsedOK
  BY TypeParts
<1>2. (PairOK /\ SeenOK /\ WaiterOK /\ LookOK /\ ClockOK /\ ToldOK /\ UsedOK)'
  BY <1>1, PairKept, SeenKept, WaiterKept, LookKept, ClockKept, ToldKept, UsedKept
<1>3. (TypeOK <=> PairOK /\ SeenOK /\ WaiterOK /\ LookOK /\ ClockOK /\ ToldOK /\ UsedOK)'
  BY TypeParts, PTL
<1> QED
  BY <1>2, <1>3

-----------------------------------------------------------------------------
(***************************************************************************)
(* What is known at each place of a look.                                  *)
(***************************************************************************)
\* Whether who has seen the work that is in hand.
Seen(who) == who \notin unseen

\* A gap is shorter than the time between two looks.
GapInv == work = "gap" => age <= Interval - 1

\* What the next piece of a work can be.
Piece == {"campaign", "hand"}

\* Work that a look which read nothing at work can have left behind: a gap, or
\* a piece that began since.
Calm == work = "none" \/ work = "gap" \/ (work \in Piece /\ age = 0)

\* A watch whose computer does not sleep looks when the interval is over; one
\* that has stopped a pair, or has begun anew, counts it idle no longer.
LookInv ==
  /\ pc = "sleep" => since \in 0..Interval
  /\ pc \in {"off", "start", "stop_driver", "stop_broker"} => idle = None
  /\ pc \notin {"off", "start", "driver", "sleep"} => found # "unread"

\* While a pair counts as idle, work that the watch saw at its last look that
\* fell on a piece of it is over, or in a gap since before the last look, or a
\* piece that began after it: the next look finds none of the gap left, and
\* falls on the piece.
WatchInv ==
  Seen("watch") =>
    /\ pc = "sleep" /\ idle # None =>
         \/ work = "none"
         \/ work = "gap" /\ since <= age
         \/ work \in Piece /\ age <= since
    /\ pc = "driver" /\ idle # None => work = "none" \/ (work \in Piece /\ age <= Interval)
    /\ pc = "broker" /\ IsIdle => Calm /\ (idle # None => work = "none")
    /\ pc = "money" /\ idle # None => Calm
    /\ pc = "stop_driver" => work = "none"

\* The same of the waiter on the driver, from its first quiet look to the next.
WaiterInv ==
  Seen("waiter") =>
    /\ waiter.at = "look" /\ waiter.quiet > 0 =>
         \/ work = "none"
         \/ work = "gap" /\ Interval - waiter.wait <= age
         \/ work \in Piece /\ age <= Interval - waiter.wait
    /\ waiter.at \in {"self", "last"} => work = "none"

\* A flag that somebody would act on.
Told == \E level \in {"IDLE", "ALERT"}, m \in Machines : <<level, m>> \in told
\* While nothing changes after a look has begun, what it read is what is there,
\* and its flags say so.
ToldInv ==
  still =>
    /\ pc = "broker" => found = "no_answer" \/ (found \in Readings /\ "driver" \in on)
    /\ pc \in {"stop_driver", "stop_broker", "money", "sleep"} /\ on # {} /\ ~AtWork => Told

\* The ledger is ahead by a gap less what the next look would add at most, also
\* when the machine that answered has been deallocated since.
MoneyInv ==
  /\ lead <= MaxGap
  /\ on # {} \/ (pc = "broker" /\ found # "no_answer")
        \/ (pc \in {"stop_driver", "stop_broker", "money"} /\ paid) =>
      lead + Counted <= MaxGap

\* A gap begins at age 0 and ends before the next look.
LEMMA GapKept ==
  ASSUME PairOK, GapInv, [Next]_vars
  PROVE  GapInv'
<1> USE Times DEF GapInv, PairOK
<1>1. CASE Tick
  BY <1>1 DEF Tick, Lower
<1>2. CASE BeginsWork \/ CalibrationEnds \/ ChainStarts \/ PieceEnds \/ NextPiece
  BY <1>2 DEF BeginsWork, CalibrationEnds, ChainStarts, PieceEnds, NextPiece, Becomes
<1>3. CASE \E m \in Machines : Deallocates(m)
  BY <1>3 DEF Deallocates
<1>4. ASSUME UNCHANGED <<work, age>>
      PROVE  GapInv'
  BY <1>4
<1>5. CASE StartsPair \/ WatchSteps \/ Cut \/ Restarts \/ WaiterLooks \/ SelfGivesUp \/ SelfAsks
  BY <1>4, <1>5 DEF StartsPair, WatchSteps, Look, ProbesDriver, ProbesBroker, StopsDriver, StopsBroker,
       StopStep, MoneyLines, Cut, Restarts, WaiterLooks, SelfGivesUp, SelfAsks, pair
<1>6. CASE UNCHANGED vars
  BY <1>4, <1>6 DEF vars, pair
<1> QED
  BY <1>1, <1>2, <1>3, <1>5, <1>6 DEF Next

\* The waiter needs two quiet looks: a gap cannot last from one to the other.
LEMMA WaiterInvKept ==
  ASSUME TypeOK, Looks > 1, GapInv, WaiterInv, [Next]_vars
  PROVE  WaiterInv'
<1> USE Times DEF WaiterInv, Seen, Piece
<1>1. waiter.quiet \in 0..(Looks - 1) /\ waiter.wait \in 0..Interval /\ age \in 0..(Interval + 1)
  BY DEF TypeOK
<1>2. CASE Tick
  <2>1. /\ UNCHANGED <<work, unseen>> /\ waiter'.at = waiter.at /\ waiter'.quiet = waiter.quiet
        /\ waiter.at = "look" => waiter.wait > 0 /\ waiter'.wait = waiter.wait - 1
    <3>1. waiter' = [waiter EXCEPT !.wait = Upper(0, waiter.wait - 1)] /\ UNCHANGED <<work, unseen>>
          /\ (waiter.at = "look" => waiter.wait > 0)
      BY <1>2, Zenon DEF Tick
    <3>2. waiter'.at = waiter.at /\ waiter'.quiet = waiter.quiet /\ waiter'.wait = Upper(0, waiter.wait - 1)
      BY <3>1, TypeParts DEF WaiterOK
    <3> QED BY <1>1, <3>1, <3>2 DEF Upper
  <2>2. work \in {"gap", "campaign", "hand"} => age' = Lower(age + 1, Interval + 1)
    BY <1>2 DEF Tick
  <2> QED BY <1>1, <2>1, <2>2 DEF Lower, GapInv
<1>3. CASE BeginsWork
  BY <1>3 DEF BeginsWork
<1>4. CASE CalibrationEnds \/ ChainStarts
  BY <1>4 DEF CalibrationEnds, ChainStarts, Becomes
<1>5. CASE PieceEnds
  BY <1>1, <1>5 DEF PieceEnds, Becomes
<1>6. CASE NextPiece
  BY <1>1, <1>6 DEF NextPiece, Becomes
<1>7. CASE \E m \in Machines : Deallocates(m)
  BY <1>7 DEF Deallocates, NoWaiter
<1>8. CASE WaiterLooks
  <2>1. CASE work \in Pattern
    BY <1>8, <2>1 DEF WaiterLooks, Quiet, Waiting
  <2>3. CASE AtWork /\ work \notin Pattern
    BY <1>8, <2>3 DEF WaiterLooks, Sees
  <2>2. CASE ~AtWork
    <3>1. UNCHANGED <<work, age, unseen>> /\ waiter.at = "look" /\ waiter.wait = 0
      BY <1>8, <2>2 DEF WaiterLooks, Sees
    <3>2. Quiet = waiter.quiet + 1
      BY <2>2, WatchAssumption DEF Quiet, AtWork, Making, Queued, ByHand
    <3>3. CASE Quiet < Looks
      <4>1. waiter'.at = "look" /\ waiter'.quiet = Quiet /\ waiter'.wait = Interval
        BY <1>8, <3>3 DEF WaiterLooks, Waiting
      <4>2. work \in {"gap", "none"}
        BY <2>2 DEF AtWork
      <4> QED BY <1>1, <3>1, <4>1, <4>2
    <3>4. CASE ~(Quiet < Looks)
      <4>1. waiter'.at = "self" /\ waiter.quiet > 0
        BY <1>1, <1>8, <3>2, <3>4 DEF WaiterLooks
      <4>2. work = "gap" => age <= Interval - 1
        BY DEF GapInv
      <4>3. work \in {"gap", "none"}
        BY <2>2 DEF AtWork
      <4>4. Seen("waiter") => work = "none"
        BY <1>1, <3>1, <4>1, <4>2, <4>3 DEF Seen
      <4> QED BY <3>1, <4>1, <4>4
    <3> QED BY <3>3, <3>4
  <2> QED BY <2>1, <2>2, <2>3
<1>9. CASE SelfGivesUp
  BY <1>9 DEF SelfGivesUp, NoWaiter, pair
<1>10. CASE SelfAsks
  <2>1. UNCHANGED <<work, age, unseen>>
    BY <1>10 DEF SelfAsks
  <2>2. waiter'.at \in {"last", "off"} /\ waiter.at \in {"self", "last"}
    BY <1>10 DEF SelfAsks, NoWaiter, TypeOK
  <2> QED BY <2>1, <2>2
<1>11. CASE ProbesDriver
  <2>1. UNCHANGED <<work, age, waiter>> /\ ("waiter" \in unseen' <=> "waiter" \in unseen)
    BY <1>11 DEF ProbesDriver, Sees
  <2> QED BY <2>1
<1>12. ASSUME UNCHANGED <<work, age, unseen, waiter>>
       PROVE  WaiterInv'
  BY <1>12
<1>13. CASE StartsPair \/ Look \/ ProbesBroker \/ StopsDriver \/ StopsBroker \/ MoneyLines \/ Cut \/ Restarts
  BY <1>12, <1>13 DEF StartsPair, Look, ProbesBroker, StopsDriver, StopsBroker,
       StopStep, MoneyLines, Cut, Restarts, pair
<1>14. CASE UNCHANGED vars
  BY <1>12, <1>14 DEF vars, pair
<1> QED
  BY <1>2, <1>3, <1>4, <1>5, <1>6, <1>7, <1>8, <1>9, <1>10, <1>11, <1>13, <1>14 DEF Next, WatchSteps

\* A driver that is idle is told of as IDLE; a machine that is allocated and
\* does not answer as ALERT, and one of them always is the case.
LEMMA ToldInvKept ==
  ASSUME TypeOK, ToldInv, [Next]_vars
  PROVE  ToldInv'
<1> USE DEF ToldInv
<1>1. CASE BeginsWork \/ CalibrationEnds \/ ChainStarts \/ PieceEnds \/ NextPiece
           \/ (\E m \in Machines : Deallocates(m)) \/ StartsPair
  BY <1>1, Zenon DEF BeginsWork, CalibrationEnds, ChainStarts, PieceEnds, NextPiece, Becomes, Deallocates, StartsPair
<1>2. CASE Tick \/ WaiterLooks \/ SelfGivesUp
  BY <1>2 DEF Tick, WaiterLooks, SelfGivesUp, pair, watch, AtWork, Told, Readings
<1>3. CASE Look \/ Cut \/ Restarts
  BY <1>3 DEF Look, Cut, Restarts, Goes
<1>4. CASE ProbesDriver
  BY <1>4 DEF ProbesDriver, Goes, Answers, Readings
<1>5. CASE ProbesBroker
  <2> SUFFICES ASSUME still, on # {}, ~AtWork
               PROVE  Told'
    BY <1>5, Zenon DEF ProbesBroker, pair, AtWork, Goes
  <2>1. PICK answers, canSay \in BOOLEAN :
          /\ answers => Answers("broker")
          /\ told' = {SaysOf(m, canSay) : m \in {m \in Machines : IF m = "driver" THEN found = "no_answer" ELSE ~answers}}
                       \union (IF IsIdle THEN {<<"IDLE", "driver">>} ELSE {})
    BY <1>5, Zenon DEF ProbesBroker
  <2>2. CASE found # "no_answer"
    <3>1. IsIdle
      BY <1>5, <2>2 DEF ProbesBroker, AtWork, Readings, IsIdle, Making, Queued, ByHand
    <3> QED BY <2>1, <3>1 DEF Told, Machines
  <2>3. CASE found = "no_answer"
    <3>1. ASSUME NEW m \in on, m \in {o \in Machines : IF o = "driver" THEN found = "no_answer" ELSE ~answers}
          PROVE  Told'
      <4>1. SaysOf(m, canSay) = <<"ALERT", m>>
        BY <3>1 DEF SaysOf, PowerState
      <4>2. <<"ALERT", m>> \in told'
        BY <2>1, <3>1, <4>1, Zenon
      <4> QED BY <4>2, <3>1, Zenon DEF Told
    <3>2. PICK m \in on : m \in Machines /\ ("driver" \in on => m = "driver")
      BY DEF TypeOK
    <3>3. m # "driver" => ~answers
      BY <2>1, <3>2 DEF Answers
    <3> QED BY <2>3, <3>1, <3>2, <3>3, Zenon
  <2> QED BY <2>2, <2>3
<1>6. CASE StopsDriver \/ StopsBroker
  <2>1. CASE ~still'
    BY <2>1
  <2>2. CASE still'
    <3>1. UNCHANGED <<on, work, still>> /\ told \subseteq told' /\ pc' = "money" /\ pc \in {"stop_driver", "stop_broker"}
      BY <1>6, <2>2 DEF StopsDriver, StopsBroker, StopStep, Asks, Goes
    <3> QED BY <3>1 DEF Told, AtWork
  <2> QED BY <2>1, <2>2
<1>7. CASE MoneyLines
  <2>1. UNCHANGED <<on, work, still, told>> /\ pc = "money" /\ pc' = "sleep"
    BY <1>7 DEF MoneyLines, pair, Goes
  <2> QED BY <2>1 DEF Told, AtWork
<1>8. CASE SelfAsks
  <2>1. CASE ~still'
    BY <2>1
  <2>2. CASE still'
    <3>1. UNCHANGED <<on, work, still, told, pc, found>>
      BY <1>8, <2>2 DEF SelfAsks, Asks, watch
    <3> QED BY <3>1 DEF Told, AtWork, Readings
  <2> QED BY <2>1, <2>2
<1>9. CASE UNCHANGED vars
  BY <1>9 DEF vars, pair, watch, Told, AtWork, Readings
<1> QED
  BY <1>1, <1>2, <1>3, <1>4, <1>5, <1>6, <1>7, <1>8, <1>9 DEF Next, WatchSteps

\* Every step keeps LookInv, if the watch's computer does not sleep.
LEMMA LookInvKept ==
  ASSUME TypeOK, ~Sleeps, LookInv, [Next]_vars
  PROVE  LookInv'
<1> USE Times, FarEnough DEF LookInv, None
<1>1. ClockOK /\ PairOK
  BY TypeParts
<1> USE Numbers
<1>2. CASE Tick
  <2>1. UNCHANGED <<pc, found>> /\ pc \in {"off", "start", "sleep"}
    BY <1>2 DEF Tick
  <2>2. pc = "sleep" => since' \in 0..Interval
    <3>1. ASSUME pc = "sleep"
          PROVE  since < Interval /\ since' = Lower(since + 1, LongAgo)
      BY <1>2, <3>1 DEF Tick, None
    <3> QED BY <3>1 DEF Lower
  <2>3. idle = None => idle' = None
    BY <1>2 DEF Tick
  <2> QED BY <2>1, <2>2, <2>3
<1>3. CASE Look \/ Restarts
  BY <1>3 DEF Look, Restarts, Goes
<1>4. CASE ProbesDriver
  BY <1>1, <1>4 DEF ProbesDriver, Goes, PairOK, Readings, Works, Making, Queued, ByHand
<1>5. CASE ProbesBroker
  BY <1>5 DEF ProbesBroker, Goes
<1>6. CASE StopsDriver \/ StopsBroker
  BY <1>6 DEF StopsDriver, StopsBroker, StopStep, Goes
<1>7. CASE MoneyLines
  <2>1. since' = 0 /\ pc' = "sleep"
    BY <1>7 DEF MoneyLines, Goes
  <2> QED BY <2>1
<1>8. CASE Cut
  BY <1>8 DEF Cut, Goes
<1>9. ASSUME UNCHANGED <<pc, found, idle, since>>
      PROVE  LookInv'
  BY <1>9
<1>10. CASE BeginsWork \/ CalibrationEnds \/ ChainStarts \/ PieceEnds \/ NextPiece
           \/ (\E m \in Machines : Deallocates(m)) \/ StartsPair
           \/ WaiterLooks \/ SelfGivesUp \/ SelfAsks
  BY <1>9, <1>10 DEF BeginsWork, CalibrationEnds, ChainStarts, PieceEnds, NextPiece, Becomes,
       Deallocates, StartsPair, WaiterLooks, SelfGivesUp, SelfAsks, watch, money
<1>11. CASE UNCHANGED vars
  BY <1>9, <1>11 DEF vars, watch, money
<1> QED
  BY <1>2, <1>3, <1>4, <1>5, <1>6, <1>7, <1>8, <1>10, <1>11 DEF Next, WatchSteps

\* Every step keeps WatchInv, if the watch's computer does not sleep: a pair is
\* stopped at its second idle look at the earliest.
LEMMA WatchInvKept ==
  ASSUME TypeOK, ~Sleeps, GapInv, LookInv, WatchInv, [Next]_vars
  PROVE  WatchInv'
<1> USE Times DEF WatchInv, Seen, None, Piece
<1>1. ClockOK /\ PairOK
  BY TypeParts
<1> USE Numbers
<1>2. CASE Tick
  <2>1. UNCHANGED <<pc, work, unseen>> /\ pc \in {"off", "start", "sleep"}
    BY <1>2 DEF Tick
  <2>2. idle = None <=> idle' = None
    <3>1. idle # None => idle' = Lower(idle + 1, IdleMin)
      BY <1>2 DEF Tick
    <3>2. idle = None => idle' = None
      BY <1>2 DEF Tick
    <3> QED BY <1>1, <3>1, <3>2 DEF Lower, None, ClockOK
  <2>3. CASE pc = "sleep"
    <3>1. since < Interval /\ since' = Lower(since + 1, LongAgo) /\ since \in 0..Interval
      BY <1>2, <2>3 DEF Tick, None, LookInv
    <3>2. since' = since + 1
      BY <3>1, FarEnough DEF Lower
    <3>3. work \in {"gap", "campaign", "hand"} => age' = Lower(age + 1, Interval + 1)
      BY <1>2 DEF Tick
    <3>4. work \in {"gap", "campaign", "hand"} => age' = IF age + 1 < Interval + 1 THEN age + 1 ELSE Interval + 1
      BY <3>3 DEF Lower
    <3>5. age \in 0..(Interval + 1)
      BY <1>1 DEF PairOK
    <3> QED BY <2>1, <2>2, <2>3, <3>1, <3>2, <3>4, <3>5
  <2>4. CASE pc # "sleep"
    BY <2>1, <2>4
  <2> QED BY <2>3, <2>4
<1>3. CASE BeginsWork
  BY <1>3 DEF BeginsWork
<1>4. CASE CalibrationEnds \/ ChainStarts
  BY <1>4 DEF CalibrationEnds, ChainStarts, Becomes, watch, Calm, IsIdle
<1>5. CASE PieceEnds
  <2>1. /\ work \in {"campaign", "hand"} /\ UNCHANGED <<pc, idle, since, found, unseen>> /\ age' = 0
        /\ work' = "none" \/ (age > Interval /\ work' = "gap")
    BY <1>5 DEF PieceEnds, Becomes, watch, money
  <2>2. age \in 0..(Interval + 1) /\ (pc = "sleep" => since \in 0..Interval)
    BY <1>1 DEF PairOK, LookInv
  <2>3. work' = "gap" /\ "watch" \notin unseen =>
          /\ ~(pc = "sleep" /\ idle # None)
          /\ ~(pc = "driver" /\ idle # None)
          /\ ~(pc = "broker" /\ IsIdle)
          /\ ~(pc = "money" /\ idle # None)
          /\ ~(pc = "stop_driver")
    BY <2>1, <2>2 DEF Calm
  <2>4. IsIdle <=> IsIdle'
    BY <2>1 DEF IsIdle
  <2> QED BY <2>1, <2>3, <2>4 DEF Calm
<1>6. CASE NextPiece
  <2>1. work = "gap" /\ work' \in Piece /\ age' = 0 /\ UNCHANGED <<pc, idle, since, found, unseen>>
    BY <1>6 DEF NextPiece, Becomes, watch, money
  <2>2. pc = "sleep" => since \in 0..Interval
    BY DEF LookInv
  <2>3. IsIdle <=> IsIdle'
    BY <2>1 DEF IsIdle
  <2> QED BY <2>1, <2>2, <2>3 DEF Calm
<1>7. CASE \E m \in Machines : Deallocates(m)
  <2>1. UNCHANGED <<pc, idle, since, found, unseen>> /\ (work' = "none" \/ UNCHANGED <<work, age>>)
    BY <1>7 DEF Deallocates, watch, money
  <2>2. IsIdle <=> IsIdle'
    BY <2>1 DEF IsIdle
  <2> QED BY <2>1, <2>2 DEF Calm
<1>8. CASE Look
  <2>1. /\ UNCHANGED <<work, age, unseen, idle>> /\ pc' = "driver"
        /\ pc = "start" \/ (pc = "sleep" /\ since >= Interval)
    BY <1>8 DEF Look, Goes
  <2>2. age \in 0..(Interval + 1) /\ (pc = "sleep" => since \in 0..Interval)
        /\ (pc = "start" => idle = None) /\ (work = "gap" => age <= Interval - 1)
    BY <1>1 DEF PairOK, LookInv, GapInv
  <2> QED BY <2>1, <2>2
<1>9. CASE ProbesDriver
  <2>1. /\ UNCHANGED <<work, age, idle>> /\ pc = "driver" /\ pc' = "broker"
        /\ \/ \E reading \in Readings : found' = reading /\ unseen' = Sees("watch", reading = work)
           \/ found' = "no_answer" /\ unseen' = unseen
    BY <1>9 DEF ProbesDriver, Goes
  <2>2. ASSUME IsIdle', "watch" \notin unseen'
        PROVE  unseen' = unseen /\ work \in {"gap", "none"}
    <3>1. PICK reading \in Readings : found' = reading /\ unseen' = Sees("watch", reading = work)
      BY <2>1, <2>2 DEF IsIdle
    <3>2. CASE reading = work
      <4>1. work \in {"gap", "none"}
        BY <1>1, <2>2, <3>1, <3>2 DEF IsIdle, PairOK, Works, Making, Queued, ByHand
      <4> QED BY <3>1, <4>1 DEF Sees, AtWork
    <3>3. CASE reading # work
      <4>1. work = "hand"
        BY <3>3 DEF Readings, ByHand
      <4> QED BY <2>2, <3>1, <3>3, <4>1 DEF Sees, AtWork
    <3> QED BY <3>2, <3>3
  <2> QED BY <2>1, <2>2 DEF Calm
<1>10. CASE ProbesBroker
  <2>1. /\ UNCHANGED <<work, age, unseen, found>> /\ pc = "broker"
        /\ IF IsIdle /\ IdleNow >= IdleMin
           THEN idle' = None /\ pc' = "stop_driver"
           ELSE idle' = IdleNow /\ pc' = "money"
    BY <1>10, Zenon DEF ProbesBroker, Goes, pair
  <2>2. CASE IsIdle /\ IdleNow >= IdleMin
    <3>1. idle # None
      BY <2>2 DEF IdleNow
    <3> QED BY <2>1, <2>2, <3>1 DEF Calm
  <2>3. CASE ~(IsIdle /\ IdleNow >= IdleMin)
    <3>1. idle' # None => IsIdle
      BY <2>1, <2>3 DEF IdleNow
    <3> QED BY <2>1, <2>3, <3>1 DEF Calm
  <2> QED BY <2>2, <2>3
<1>11. CASE StopsDriver \/ StopsBroker
  <2>1. UNCHANGED <<work, age, unseen, idle>> /\ idle = None /\ pc' \in {"stop_broker", "money"}
    BY <1>11 DEF StopsDriver, StopsBroker, StopStep, Goes, LookInv
  <2> QED BY <2>1
<1>12. CASE MoneyLines
  <2>1. UNCHANGED <<work, age, unseen, idle>> /\ pc = "money" /\ pc' = "sleep" /\ since' = 0
    BY <1>12 DEF MoneyLines, Goes, pair
  <2>2. age \in 0..(Interval + 1)
    BY <1>1 DEF PairOK
  <2> QED BY <2>1, <2>2 DEF Calm
<1>13. CASE Cut \/ Restarts
  BY <1>13 DEF Cut, Restarts, Goes
<1>14. CASE WaiterLooks
  <2>1. UNCHANGED <<work, age, idle, pc, found, since>> /\ ("watch" \in unseen' <=> "watch" \in unseen)
    BY <1>14 DEF WaiterLooks, watch, money, Sees
  <2>2. IsIdle <=> IsIdle'
    BY <2>1 DEF IsIdle
  <2> QED BY <2>1, <2>2 DEF Calm
<1>15. ASSUME UNCHANGED <<work, age, unseen, pc, found, idle, since>>
       PROVE  WatchInv'
  <2>1. IsIdle <=> IsIdle'
    BY <1>15 DEF IsIdle
  <2> QED BY <1>15, <2>1 DEF Calm
<1>16. CASE StartsPair \/ SelfGivesUp \/ SelfAsks
  BY <1>15, <1>16 DEF StartsPair, SelfGivesUp, SelfAsks, pair, watch, money
<1>17. CASE UNCHANGED vars
  BY <1>15, <1>17 DEF vars, pair, watch, money
<1> QED
  BY <1>2, <1>3, <1>4, <1>5, <1>6, <1>7, <1>8, <1>9, <1>10, <1>11, <1>12, <1>13, <1>14, <1>16, <1>17
     DEF Next, WatchSteps

\* Only the two who stop the pair lose work, and neither has seen any.
LEMMA NothingLost ==
  ASSUME WatchInv, WaiterInv, WorkIsKept, [Next]_vars
  PROVE  WorkIsKept'
<1> USE DEF WorkIsKept
<1>1. CASE StopsDriver
  BY <1>1 DEF StopsDriver, StopStep, Asks, WatchInv, Seen
<1>2. CASE StopsBroker
  BY <1>2 DEF StopsBroker, StopStep, Asks
<1>3. CASE SelfAsks
  BY <1>3 DEF SelfAsks, Asks, WaiterInv, Seen
<1>4. ASSUME UNCHANGED lost
      PROVE  WorkIsKept'
  BY <1>4
<1>5. CASE BeginsWork \/ CalibrationEnds \/ ChainStarts \/ PieceEnds \/ NextPiece
           \/ (\E m \in Machines : Deallocates(m)) \/ StartsPair \/ Tick
           \/ Look \/ ProbesDriver \/ ProbesBroker \/ MoneyLines \/ Cut \/ Restarts
           \/ WaiterLooks \/ SelfGivesUp
  BY <1>4, <1>5 DEF BeginsWork, CalibrationEnds, ChainStarts, PieceEnds, NextPiece, Becomes,
       Deallocates, StartsPair, Tick, Look, ProbesDriver, ProbesBroker, MoneyLines, Cut, Restarts,
       WaiterLooks, SelfGivesUp, pair
<1>6. CASE UNCHANGED vars
  BY <1>4, <1>6 DEF vars, pair
<1> QED
  BY <1>1, <1>2, <1>3, <1>5, <1>6 DEF Next, WatchSteps

\* A tick with a machine allocated takes one from the lead and adds one at most
\* to what the next look counts.
LEMMA MoneyInvKept ==
  ASSUME TypeOK, MoneyInv, [Next]_vars
  PROVE  MoneyInv'
<1> USE Times, FarEnough DEF MoneyInv, None
<1>1. ClockOK /\ PairOK
  BY TypeParts
<1> USE Numbers
<1>2. lead \in Int /\ since \in None..LongAgo
  BY <1>1 DEF ClockOK
<1>3. CASE Tick
  <2>1. UNCHANGED <<on, pc, paid, found>> /\ pc \in {"off", "start", "sleep"}
    BY <1>3 DEF Tick
  <2>2. CASE on = {}
    BY <1>3, <2>1, <2>2 DEF Tick
  <2>3. CASE on # {}
    <3>1. lead' = Upper(lead - 1, -MaxGap)
      BY <1>3, <2>3 DEF Tick
    <3>2. Counted \in 0..MaxGap /\ Counted' \in 0..MaxGap /\ Counted' <= Counted + 1
      <4>1. CASE since = None
        <5>1. since' = None
          BY <1>3, <4>1 DEF Tick
        <5> QED BY <4>1, <5>1 DEF Counted
      <4>2. CASE since # None
        <5>1. since' = IF since + 1 < LongAgo THEN since + 1 ELSE LongAgo
          BY <1>3, <4>2, Zenon DEF Tick, Lower
        <5>2. since \in Nat /\ since' \in Nat
          BY <1>2, <4>2, <5>1 DEF None
        <5>3. Counted = IF since < MaxGap THEN since ELSE MaxGap
          BY <4>2 DEF Counted, Lower
        <5>4. Counted' = IF since' < MaxGap THEN since' ELSE MaxGap
          BY <5>2 DEF Counted, Lower, None
        <5> QED BY <5>1, <5>2, <5>3, <5>4
      <4> QED BY <4>1, <4>2
    <3>3. lead + Counted <= MaxGap
      BY <2>3
    <3>4. ASSUME NEW c \in 0..MaxGap, NEW d \in 0..MaxGap, d <= c + 1, lead + c <= MaxGap
          PROVE  lead' \in Int /\ lead' <= MaxGap /\ lead' + d <= MaxGap
      <4>1. CASE lead - 1 > -MaxGap
        <5>1. lead' = lead - 1
          BY <3>1, <4>1 DEF Upper
        <5> QED BY <1>2, <3>4, <5>1
      <4>2. CASE ~(lead - 1 > -MaxGap)
        <5>1. lead' = -MaxGap
          BY <3>1, <4>2 DEF Upper
        <5> QED BY <3>4, <5>1
      <4> QED BY <4>1, <4>2
    <3>5. lead' \in Int /\ lead' <= MaxGap /\ lead' + Counted' <= MaxGap
      BY <3>2, <3>3, <3>4
    <3> QED BY <3>5
  <2> QED BY <2>2, <2>3
<1>4. CASE StartsPair
  <2>1. UNCHANGED <<pc, found, paid, since>> /\ lead' = IF on = {} THEN 0 ELSE lead
    BY <1>4 DEF StartsPair, watch
  <2>2. Counted' = Counted /\ Counted \in 0..MaxGap
    BY <1>2, <2>1 DEF Counted, Lower, None
  <2> QED BY <2>1, <2>2
<1>5. CASE ProbesDriver
  <2>1. UNCHANGED <<on, since, lead>> /\ pc' = "broker" /\ (found' = "no_answer" \/ "driver" \in on)
    BY <1>5 DEF ProbesDriver, Goes, Answers, money
  <2>2. Counted' = Counted
    BY <2>1 DEF Counted
  <2> QED BY <2>1, <2>2
<1>6. CASE ProbesBroker
  <2>1. UNCHANGED <<on, since, lead>> /\ pc = "broker" /\ pc' \in {"money", "stop_driver"}
    BY <1>6 DEF ProbesBroker, Goes, pair, money
  <2>2. PICK answers \in BOOLEAN :
          /\ answers => Answers("broker")
          /\ paid' = ({m \in Machines : IF m = "driver" THEN found = "no_answer" ELSE ~answers} # Machines)
    BY <1>6, Zenon DEF ProbesBroker
  <2>3. paid' => found # "no_answer" \/ on # {}
    BY <2>2 DEF Machines, Answers
  <2>4. Counted' = Counted
    BY <2>1 DEF Counted
  <2> QED BY <2>1, <2>3, <2>4
<1>7. CASE MoneyLines
  <2>1. UNCHANGED on /\ pc = "money" /\ pc' = "sleep" /\ since' = 0 /\ lead' = IF paid THEN lead + Counted ELSE lead
    BY <1>7 DEF MoneyLines, Goes, pair
  <2>2. Counted' = 0
    BY <2>1 DEF Counted, Lower, None
  <2>3. lead' \in Int /\ lead' <= MaxGap
    <3>1. Counted \in Int
      BY <1>2 DEF Counted, Lower, None
    <3> QED BY <1>2, <2>1, <3>1
  <2> QED BY <2>1, <2>2, <2>3
<1>8. CASE StopsDriver \/ StopsBroker
  <2>1. UNCHANGED <<on, since, lead, paid>> /\ pc \in {"stop_driver", "stop_broker"} /\ pc' \in {"money", "stop_broker"}
    BY <1>8 DEF StopsDriver, StopsBroker, StopStep, Goes, money
  <2>2. Counted' = Counted
    BY <2>1 DEF Counted
  <2> QED BY <2>1, <2>2
<1>9. CASE Look \/ Cut \/ Restarts
  <2>1. UNCHANGED <<on, since, lead>> /\ pc' \in {"driver", "off", "start"}
    BY <1>9 DEF Look, Cut, Restarts, Goes, pair, money
  <2>2. Counted' = Counted
    BY <2>1 DEF Counted
  <2> QED BY <2>1, <2>2
<1>10. ASSUME on' \subseteq on, UNCHANGED <<pc, found, paid, since, lead>>
       PROVE  MoneyInv'
  <2>1. Counted' = Counted
    BY <1>10 DEF Counted
  <2> QED BY <1>10, <2>1
<1>11. CASE BeginsWork \/ CalibrationEnds \/ ChainStarts \/ PieceEnds \/ NextPiece
            \/ (\E m \in Machines : Deallocates(m)) \/ WaiterLooks \/ SelfGivesUp \/ SelfAsks
  BY <1>10, <1>11 DEF BeginsWork, CalibrationEnds, ChainStarts, PieceEnds, NextPiece, Becomes,
       Deallocates, WaiterLooks, SelfGivesUp, SelfAsks, pair, watch, money
<1>12. CASE UNCHANGED vars
  BY <1>10, <1>12 DEF vars, pair, watch, money
<1> QED
  BY <1>3, <1>4, <1>5, <1>6, <1>7, <1>8, <1>9, <1>11, <1>12 DEF Next, WatchSteps

-----------------------------------------------------------------------------
(***************************************************************************)
(* The theorems.                                                           *)
(***************************************************************************)

\* The state keeps its shape, whoever does what.
THEOREM TypesHold == Spec => []TypeOK
<1>1. Init => TypeOK
  BY InitTypes
<1>2. TypeOK /\ [Next]_vars => TypeOK'
  BY TypesKept
<1> QED
  BY <1>1, <1>2, PTL DEF Spec

\* Nobody stops a pair whose work has not ended and which they saw at their last
\* look that fell on a piece of it, whatever pattern stop_when_idle.sh was given,
\* if that takes more than one quiet look and the watch's computer does not sleep
\* past a look.  One quiet look could be between two pieces, and so could the two
\* looks before and after a sleep.
THEOREM KeepsWork ==
  ASSUME ~Sleeps, Looks > 1
  PROVE  Spec => []WorkIsKept
<1> DEFINE IInv == TypeOK /\ GapInv /\ LookInv /\ WatchInv /\ WaiterInv /\ WorkIsKept
<1>1. Init => IInv
  <2> SUFFICES ASSUME Init PROVE IInv
    OBVIOUS
  <2>1. TypeOK
    BY InitTypes
  <2>2. GapInv /\ LookInv /\ WorkIsKept
    BY DEF Init, GapInv, LookInv, WorkIsKept
  <2>3. WatchInv /\ WaiterInv
    BY DEF Init, WatchInv, WaiterInv, Seen
  <2> QED BY <2>1, <2>2, <2>3
<1>2. IInv /\ [Next]_vars => IInv'
  <2> SUFFICES ASSUME IInv, [Next]_vars PROVE IInv'
    OBVIOUS
  <2>1. TypeOK'
    BY TypesKept
  <2>2. GapInv'
    BY GapKept, TypeParts
  <2>3. LookInv'
    BY LookInvKept
  <2>4. WatchInv'
    BY WatchInvKept
  <2>5. WaiterInv'
    BY WaiterInvKept
  <2>6. WorkIsKept'
    BY NothingLost
  <2> QED BY <2>1, <2>2, <2>3, <2>4, <2>5, <2>6
<1> QED
  BY <1>1, <1>2, PTL DEF Spec

\* Every whole look tells of machines that are billed with nothing on them,
\* whatever failed during it.
THEOREM TellsOfWhatIsBilled == Spec => []BilledForNothingIsTold
<1> DEFINE IInv == TypeOK /\ ToldInv
<1>1. Init => IInv
  BY InitTypes DEF Init, ToldInv
<1>2. IInv /\ [Next]_vars => IInv'
  BY TypesKept, ToldInvKept
<1>3. IInv => BilledForNothingIsTold
  BY DEF ToldInv, BilledForNothingIsTold, Told
<1> QED
  BY <1>1, <1>2, <1>3, PTL DEF Spec

\* The ledger never counts more than the time the machines were allocated and one
\* gap, however long the watch was away and however often it was cut.  How far it
\* falls behind has no bound: lead stands for that down to one gap only.
THEOREM CountsWithinAGap == Spec => []CountedWithinAGap
<1> DEFINE IInv == TypeOK /\ MoneyInv
<1>1. Init => IInv
  <2> SUFFICES ASSUME Init PROVE IInv
    OBVIOUS
  <2>1. lead = 0 /\ Counted = 0
    BY DEF Init, Counted
  <2> QED BY <2>1, InitTypes, Times DEF MoneyInv
<1>2. IInv /\ [Next]_vars => IInv'
  BY TypesKept, MoneyInvKept
<1>3. IInv => CountedWithinAGap
  BY DEF MoneyInv, CountedWithinAGap
<1> QED
  BY <1>1, <1>2, <1>3, PTL DEF Spec

=============================================================================
