--------------------------- MODULE CampaignProofs ---------------------------
(***************************************************************************)
(* The campaign uses the ledger as the ledger allows, and keeps its run    *)
(* folders by the ledger's keys, whatever crashes, restarts and writes     *)
(* that fail fall between its commands, for every design.                  *)
(*                                                                         *)
(* Ledger is the queue with what is proved of it; Queue is the queue as    *)
(* the campaign calls it.  They are two instances of one module, and the   *)
(* first lemmas say so of the operators used here.                         *)
(***************************************************************************)
EXTENDS Campaign, FiniteSetTheorems, TLAPS

Ledger == INSTANCE RunQueueProofs

-----------------------------------------------------------------------------
\* The design the campaign is given is one the ledger's proofs take.
LEMMA DesignFits == Ledger!DesignAssumption
BY DesignAssumption
   DEF Ledger!DesignAssumption, Ledger!IsFiniteSet, IsFiniteSet, Ledger!Cardinality, Cardinality

LEMMA SameRows ==
  ASSUME NEW q
  PROVE  /\ Queue!Running(q) = Ledger!Running(q)
         /\ Queue!Queued(q) = Ledger!Queued(q)
         /\ Queue!FirstQueued(q) = Ledger!FirstQueued(q)
         /\ Queue!Take(q) = Ledger!Take(q)
         /\ \A i, status : Queue!Mark(q, i, status) = Ledger!Mark(q, i, status)
         /\ Queue!Key(q) = Ledger!Key(q)
BY DEF Queue!Running, Queue!Having, Ledger!Running, Ledger!Having, Queue!Queued,
       Ledger!Queued, Queue!FirstQueued, Ledger!FirstQueued, Queue!Take, Ledger!Take,
       Queue!Mark, Ledger!Mark, Queue!Key, Ledger!Key

LEMMA SameFail ==
  ASSUME NEW q, NEW i
  PROVE  Queue!Fail(q, i) = Ledger!Fail(q, i)
<1>1. Queue!Slots(q, i) = Ledger!Slots(q, i)
  <2>1. \A p, s : Queue!BesideSameSetup(q, p, s) = Ledger!BesideSameSetup(q, p, s)
    BY DEF Queue!BesideSameSetup, Ledger!BesideSameSetup
  <2>2. Queue!Later(q, i) = Ledger!Later(q, i)
    BY DEF Queue!Later, Ledger!Later
  <2>3. Queue!Allowed(q, i) = Ledger!Allowed(q, i)
    BY <2>1, <2>2 DEF Queue!Allowed, Ledger!Allowed
  <2> QED
    BY <2>2, <2>3 DEF Queue!Slots, Ledger!Slots
<1>2. Queue!Copy(q[i]) = Ledger!Copy(q[i])
  BY DEF Queue!Copy, Ledger!Copy
<1>3. \A s : Queue!Mark(q, i, s) = Ledger!Mark(q, i, s)
  BY SameRows
<1>4. \A s, p, e : Queue!InsertAt(s, p, e) = Ledger!InsertAt(s, p, e)
  BY DEF Queue!InsertAt, Ledger!InsertAt
<1> QED
  BY <1>1, <1>2, <1>3, <1>4 DEF Queue!Fail, Ledger!Fail

LEMMA SameRecovered ==
  ASSUME NEW q
  PROVE  Queue!Recovered(q) = Ledger!Recovered(q)
<1>1. Queue!Running(q) = Ledger!Running(q)
  BY SameRows
<1>2. \A i : Queue!Fail(q, i) = Ledger!Fail(q, i)
  BY SameFail
<1> QED
  BY <1>1, <1>2 DEF Queue!Recovered, Ledger!Recovered

LEMMA SameFresh == Queue!FreshQueues = Ledger!FreshQueues
<1>1. Queue!Width = Ledger!Width
  BY DEF Queue!Width, Ledger!Width, Queue!Cardinality, Ledger!Cardinality
<1>2. Queue!SetToSeqs(Setups) = Ledger!SetToSeqs(Setups)
  BY DEF Queue!SetToSeqs, Ledger!SetToSeqs, Queue!IsInjective, Ledger!IsInjective,
         Queue!Cardinality, Ledger!Cardinality
<1>3. Queue!ShuffledRounds = Ledger!ShuffledRounds
  BY <1>1, <1>2 DEF Queue!ShuffledRounds, Ledger!ShuffledRounds
<1>4. \A k : Queue!RoundOf(k) = Ledger!RoundOf(k) /\ Queue!PlaceOf(k) = Ledger!PlaceOf(k)
  BY <1>1 DEF Queue!RoundOf, Ledger!RoundOf, Queue!PlaceOf, Ledger!PlaceOf
<1>5. \A orders : Queue!MakeRows(orders) = Ledger!MakeRows(orders)
  BY <1>1, <1>4 DEF Queue!MakeRows, Ledger!MakeRows
<1> QED
  BY <1>3, <1>5 DEF Queue!FreshQueues, Ledger!FreshQueues

-----------------------------------------------------------------------------
(***************************************************************************)
(* The invariant.  A folder of this campaign's is made only for a row that *)
(* has left the queue, and such a row never returns to it: that is why no  *)
(* run finds a folder of this queue's own, and what NeverTwiceInAFolder    *)
(* and DoneIsCounted rest on.                                              *)
(***************************************************************************)
OwnFolder == {"begun", "counted", "refused"}

HasLeft(q, k) == \E i \in DOMAIN q : Queue!Key(q[i]) = k /\ q[i].status # "queued"

FoldersHaveRows == \A k \in Keys : folders[k] \in OwnFolder => HasLeft(rows, k)

RunInHandRuns == pc \in {"folder", "trial", "finish"} => run \in Queue!Running(rows)

FolderInHand ==
  /\ pc = "trial" => folders[KeyInHand] = "begun"
  /\ pc = "finish"
       => folders[KeyInHand] = IF verdict = "count" THEN "counted" ELSE "refused"

Inv ==
  /\ Ledger!Good(rows)
  /\ folders \in [Keys -> FolderStates]
  /\ recover \in BOOLEAN
  /\ FoldersHaveRows
  /\ RunInHandRuns
  /\ FolderInHand
  /\ NeverTwiceInAFolder
  /\ DoneIsCounted

\* The key of a row of the file is a key a folder can have.
LEMMA KeyIsKey ==
  ASSUME NEW q, Ledger!Good(q), NEW i \in DOMAIN q
  PROVE  Queue!Key(q[i]) \in Keys
<1>1. q \in Seq(Ledger!Row)
  BY DEF Ledger!Good
<1>2. q[i] \in Ledger!Row
  BY <1>1
<1> QED
  BY <1>2 DEF Ledger!Row, Queue!Key, Keys

\* The queue next goes by has nothing running in it, and what had left the
\* queue before has left it still.
LEMMA ReadyFacts ==
  ASSUME Ledger!Good(rows), recover \in BOOLEAN, ~Refused, NEW q \in Ready
  PROVE  Ledger!Good(q) /\ Ledger!Running(q) = {} /\ Ledger!Follows(rows, q)
<1>1. CASE recover
  <2>1. q \in Ledger!Recovered(rows)
    BY <1>1, SameRecovered DEF Ready
  <2> QED
    BY <2>1, DesignFits, Ledger!RecoveryCloses
<1>2. CASE ~recover
  <2>1. q = rows /\ Ledger!Running(rows) = {}
    BY <1>2, SameRows DEF Ready, Refused
  <2> QED
    BY <2>1, DesignFits, Ledger!FollowsSelf
<1> QED
  BY <1>1, <1>2

\* What follows the queue has rows for the same folders, and its runs that are
\* done were done.
LEMMA FollowingKeeps ==
  ASSUME NEW r, Ledger!Follows(rows, r), FoldersHaveRows, DoneIsCounted
  PROVE  /\ \A k \in Keys : folders[k] \in OwnFolder => HasLeft(r, k)
         /\ \A i \in DOMAIN r :
              r[i].status = "done" => folders[Queue!Key(r[i])] = "counted"
<1>1. \A row : Queue!Key(row) = Ledger!Key(row)
  BY SameRows
<1>2. ASSUME NEW k \in Keys, folders[k] \in OwnFolder
      PROVE  HasLeft(r, k)
  <2>1. PICK j \in DOMAIN rows : Queue!Key(rows[j]) = k /\ rows[j].status # "queued"
    BY <1>2 DEF FoldersHaveRows, HasLeft
  <2> QED
    BY <1>1, <2>1 DEF HasLeft, Ledger!Follows
<1>3. ASSUME NEW i \in DOMAIN r, r[i].status = "done"
      PROVE  folders[Queue!Key(r[i])] = "counted"
  <2>1. PICK j \in DOMAIN rows : rows[j] = r[i]
    BY <1>3 DEF Ledger!Follows
  <2> QED
    BY <1>3, <2>1 DEF DoneIsCounted
<1> QED
  BY <1>2, <1>3

\* The row in hand is the only running row of the queue, and no other row has
\* its key.
LEMMA InHandFacts ==
  ASSUME Ledger!Good(rows), run \in Queue!Running(rows)
  PROVE  /\ run \in DOMAIN rows /\ rows[run].status = "running"
         /\ run \in Ledger!Running(rows)
         /\ KeyInHand \in Keys
         /\ HasLeft(rows, KeyInHand)
         /\ \A i \in Queue!Running(rows) : i = run
         /\ \A i \in DOMAIN rows : Queue!Key(rows[i]) = KeyInHand => i = run
<1>1. run \in DOMAIN rows /\ rows[run].status = "running"
  BY DEF Queue!Running, Queue!Having
<1>2. run \in Ledger!Running(rows)
  BY SameRows
<1>3. Ledger!Running(rows) = {run}
  BY <1>2, DesignFits, Ledger!OneAtATime DEF Ledger!Good
<1>4. \A i \in DOMAIN rows : Queue!Key(rows[i]) = KeyInHand => i = run
  <2>1. \A row : Queue!Key(row) = Ledger!Key(row)
    BY SameRows
  <2> QED
    BY <1>1, <2>1, DesignFits, Ledger!KeysDiffer DEF KeyInHand
<1> QED
  BY <1>1, <1>2, <1>3, <1>4, SameRows, KeyIsKey DEF HasLeft, KeyInHand

-----------------------------------------------------------------------------
(***************************************************************************)
(* One lemma per kind of step.                                             *)
(***************************************************************************)

\* A campaign that has not begun: a fresh queue, and no folder of its own.
LEMMA InitIsGood ==
  ASSUME Init
  PROVE  Inv
<1>1. Ledger!Good(rows) /\ \A i \in DOMAIN rows : rows[i].status = "queued"
  BY SameFresh, DesignFits, Ledger!FreshIsGood DEF Init
<1>2. \A k \in Keys : folders[k] \in {"none", "earlier"}
  BY DEF Init
<1>3. folders \in [Keys -> FolderStates]
  BY DEF Init, FolderStates
<1>4. FoldersHaveRows
  BY <1>2 DEF FoldersHaveRows, OwnFolder
<1>5. DoneIsCounted
  BY <1>1 DEF DoneIsCounted
<1>6. pc = "off" /\ recover \in BOOLEAN
  BY DEF Init
<1> QED
  BY <1>1, <1>3, <1>4, <1>5, <1>6
     DEF Inv, RunInHandRuns, FolderInHand, NeverTwiceInAFolder

\* A step that leaves the queue and the folders alone and has no run in hand
\* after it.
LEMMA IdleKeeps ==
  ASSUME Inv, UNCHANGED <<rows, folders>>, recover' \in BOOLEAN,
         pc' \notin {"folder", "trial", "finish"}
  PROVE  Inv'
BY DEF Inv, FoldersHaveRows, HasLeft, RunInHandRuns, FolderInHand,
       NeverTwiceInAFolder, DoneIsCounted

\* next hands a run out.
LEMMA NextHandsKeeps ==
  ASSUME Inv, NextHands
  PROVE  Inv'
<1>1. PICK q \in Ready : /\ Queue!Queued(q) # {}
                         /\ rows' = Queue!Take(q)
                         /\ run' = Queue!FirstQueued(q)
  BY DEF NextHands
<1>2. Ledger!Good(q) /\ Ledger!Running(q) = {} /\ Ledger!Follows(rows, q)
  BY ReadyFacts DEF Inv, NextHands
<1>3. /\ Ledger!Queued(q) # {} /\ rows' = Ledger!Take(q) /\ run' = Ledger!FirstQueued(q)
      /\ \A row : Queue!Key(row) = Ledger!Key(row)
      /\ \A r : Queue!Running(r) = Ledger!Running(r)
  BY <1>1, SameRows
<1>4. /\ Ledger!Good(rows') /\ Ledger!Follows(q, rows')
      /\ run' \in DOMAIN q /\ q[run'].status = "queued"
      /\ run' \in Ledger!Running(rows')
      /\ Ledger!Key(rows'[run']) = Ledger!Key(q[run'])
  BY <1>2, <1>3, DesignFits, Ledger!TakeHandsOut
<1>5. Ledger!Follows(rows, rows')
  BY <1>2, <1>4, DesignFits, Ledger!FollowsOn
<1>6. folders' = folders /\ pc' = "folder" /\ recover' = FALSE
  BY DEF NextHands
<1>7. FoldersHaveRows' /\ DoneIsCounted'
  BY <1>5, <1>6, FollowingKeeps DEF Inv, FoldersHaveRows, HasLeft, DoneIsCounted
<1>8. RunInHandRuns'
  BY <1>3, <1>4 DEF RunInHandRuns
<1>9. NeverTwiceInAFolder'
  <2> DEFINE k == Ledger!Key(q[run'])
  <2>1. KeyInHand' = k /\ k \in Keys
    BY <1>2, <1>3, <1>4, KeyIsKey DEF KeyInHand
  <2>2. ASSUME folders[k] \in OwnFolder PROVE FALSE
    <3>1. PICK j \in DOMAIN q : Queue!Key(q[j]) = k /\ q[j].status # "queued"
      BY <1>2, <2>1, <2>2, FollowingKeeps DEF Inv, HasLeft
    <3>2. j = run'
      BY <1>2, <1>3, <1>4, <3>1, DesignFits, Ledger!KeysDiffer
    <3> QED
      BY <1>4, <3>1, <3>2
  <2> HIDE DEF k
  <2>3. folders[k] \in FolderStates
    BY <2>1 DEF Inv
  <2> QED
    BY <1>6, <2>1, <2>2, <2>3 DEF NeverTwiceInAFolder, OwnFolder, FolderStates
<1> QED
  BY <1>4, <1>6, <1>7, <1>8, <1>9 DEF Inv, FolderInHand

\* next finds nothing queued.
LEMMA NextFinishedKeeps ==
  ASSUME Inv, NextFinished
  PROVE  Inv'
<1>1. rows' \in Ready
  BY DEF NextFinished
<1>2. Ledger!Good(rows') /\ Ledger!Follows(rows, rows')
  BY <1>1, ReadyFacts DEF Inv, NextFinished
<1>3. folders' = folders /\ pc' = "off" /\ recover' = FALSE
  BY DEF NextFinished, End, ScriptGone
<1>4. FoldersHaveRows' /\ DoneIsCounted'
  BY <1>2, <1>3, FollowingKeeps DEF Inv, FoldersHaveRows, HasLeft, DoneIsCounted
<1> QED
  BY <1>2, <1>3, <1>4 DEF Inv, RunInHandRuns, FolderInHand, NeverTwiceInAFolder

\* The folder of the run in hand is written, and no other.
LEMMA FolderWritten ==
  ASSUME Inv, run \in Queue!Running(rows), UNCHANGED <<rows, run, recover>>,
         pc' \in {"trial", "finish"},
         NEW state \in OwnFolder, folders' = [folders EXCEPT ![KeyInHand] = state],
         pc' = "trial" => state = "begun",
         pc' = "finish" => state = IF verdict' = "count" THEN "counted" ELSE "refused"
  PROVE  Inv'
<1>1. /\ run \in DOMAIN rows /\ rows[run].status = "running"
      /\ KeyInHand \in Keys /\ HasLeft(rows, KeyInHand)
      /\ \A i \in DOMAIN rows : Queue!Key(rows[i]) = KeyInHand => i = run
  BY InHandFacts DEF Inv
<1>2. folders' \in [Keys -> FolderStates]
  BY DEF Inv, OwnFolder, FolderStates
<1>3. /\ folders'[KeyInHand] = state
      /\ \A k \in Keys \ {KeyInHand} : folders'[k] = folders[k]
  BY <1>1 DEF Inv
<1>4. FoldersHaveRows'
  BY <1>1, <1>3 DEF Inv, FoldersHaveRows, HasLeft
<1>5. DoneIsCounted'
  <2> SUFFICES ASSUME NEW i \in DOMAIN rows, rows[i].status = "done"
               PROVE  folders'[Queue!Key(rows[i])] = "counted"
    BY DEF DoneIsCounted
  <2>1. Queue!Key(rows[i]) \in Keys \ {KeyInHand}
    BY <1>1, KeyIsKey DEF Inv
  <2> QED
    BY <1>3, <2>1 DEF Inv, DoneIsCounted
<1>6. KeyInHand' = KeyInHand
  BY DEF KeyInHand
<1>7. FolderInHand'
  BY <1>3, <1>6 DEF FolderInHand
<1>8. RunInHandRuns' /\ NeverTwiceInAFolder'
  BY DEF RunInHandRuns, NeverTwiceInAFolder
<1> QED
  BY <1>2, <1>4, <1>5, <1>7, <1>8 DEF Inv

\* The run in hand is closed.
LEMMA FinishKeeps ==
  ASSUME Inv, Finish
  PROVE  Inv'
<1>1. /\ run \in Queue!Running(rows) /\ folders' = folders /\ pc' = "after"
      /\ recover' = recover
  BY DEF Inv, RunInHandRuns, Finish
<1>2. /\ run \in Ledger!Running(rows) /\ KeyInHand \in Keys
      /\ \A row : Queue!Key(row) = Ledger!Key(row)
  BY <1>1, InHandFacts, SameRows DEF Inv
<1>3. CASE verdict = "count"
  <2>1. rows' = Ledger!Mark(rows, run, "done")
    BY <1>3, SameRows DEF Finish
  <2>2. /\ Ledger!Good(rows')
        /\ \A j \in DOMAIN rows :
             rows[j].status # "queued"
               => \E k \in DOMAIN rows' :
                    Ledger!Key(rows'[k]) = Ledger!Key(rows[j]) /\ rows'[k].status # "queued"
        /\ \A k \in DOMAIN rows' :
             rows'[k].status = "done"
               => \/ Ledger!Key(rows'[k]) = Ledger!Key(rows[run])
                  \/ \E j \in DOMAIN rows : rows[j] = rows'[k]
    BY <1>2, <2>1, DesignFits, Ledger!DoneCloses DEF Inv
  <2>3. folders[KeyInHand] = "counted"
    BY <1>3 DEF Inv, FolderInHand, Finish
  <2>4. FoldersHaveRows'
    <3> SUFFICES ASSUME NEW k \in Keys, folders[k] \in OwnFolder
                 PROVE  HasLeft(rows', k)
      BY <1>1 DEF FoldersHaveRows, HasLeft
    <3>1. PICK j \in DOMAIN rows : Queue!Key(rows[j]) = k /\ rows[j].status # "queued"
      BY DEF Inv, FoldersHaveRows, HasLeft
    <3> QED
      BY <1>2, <2>2, <3>1 DEF HasLeft
  <2>5. DoneIsCounted'
    <3> SUFFICES ASSUME NEW k \in DOMAIN rows', rows'[k].status = "done"
                 PROVE  folders[Queue!Key(rows'[k])] = "counted"
      BY <1>1 DEF DoneIsCounted
    <3>1. CASE Ledger!Key(rows'[k]) = Ledger!Key(rows[run])
      BY <1>2, <2>3, <3>1 DEF KeyInHand
    <3>2. CASE \E j \in DOMAIN rows : rows[j] = rows'[k]
      BY <3>2 DEF Inv, DoneIsCounted
    <3> QED
      BY <2>2, <3>1, <3>2
  <2> QED
    BY <1>1, <2>2, <2>4, <2>5 DEF Inv, RunInHandRuns, FolderInHand, NeverTwiceInAFolder
<1>4. CASE verdict # "count"
  <2>1. rows' \in Ledger!Fail(rows, run)
    BY <1>4, SameFail DEF Finish
  <2>2. Ledger!Good(rows') /\ Ledger!Follows(rows, rows')
    BY <1>2, <2>1, DesignFits, Ledger!FailCloses DEF Inv
  <2>3. FoldersHaveRows' /\ DoneIsCounted'
    BY <1>1, <2>2, FollowingKeeps DEF Inv, FoldersHaveRows, HasLeft, DoneIsCounted
  <2> QED
    BY <1>1, <2>2, <2>3 DEF Inv, RunInHandRuns, FolderInHand, NeverTwiceInAFolder
<1> QED
  BY <1>3, <1>4

\* Every step keeps the invariant.
LEMMA InvKept ==
  ASSUME Inv, [Next]_vars
  PROVE  Inv'
<1>1. CASE Start
  BY <1>1, IdleKeeps DEF Start, Inv
<1>2. CASE StartRefused
  BY <1>2, IdleKeeps DEF StartRefused, Inv
<1>3. CASE UNCHANGED <<rows, folders, pc, recover, run, verdict>>
  BY <1>3 DEF Inv, FoldersHaveRows, HasLeft, RunInHandRuns, FolderInHand, KeyInHand,
              NeverTwiceInAFolder, DoneIsCounted
<1>4. CASE TopStops \/ NextFails \/ FolderTaken \/ StopRule
  BY <1>4, IdleKeeps DEF TopStops, NextFails, FolderTaken, StopRule, End, ScriptGone
<1>5. CASE TopGoesOn \/ FinishFails \/ GoOn
  BY <1>5, IdleKeeps DEF TopGoesOn, FinishFails, GoOn, Inv
<1>6. CASE NextHands
  BY <1>6, NextHandsKeeps
<1>7. CASE NextFinished
  BY <1>7, NextFinishedKeeps
<1>8. CASE MakeFolder
  <2>1. run \in Queue!Running(rows)
    BY <1>8 DEF Inv, RunInHandRuns, MakeFolder
  <2>2. "begun" \in OwnFolder
    BY DEF OwnFolder
  <2> QED
    BY <1>8, <2>1, <2>2, FolderWritten DEF MakeFolder
<1>9. CASE RunOne
  <2> DEFINE state == IF verdict' = "count" THEN "counted" ELSE "refused"
  <2>1. run \in Queue!Running(rows)
    BY <1>9 DEF Inv, RunInHandRuns, RunOne
  <2>2. state \in OwnFolder
    BY DEF OwnFolder
  <2>3. /\ folders' = [folders EXCEPT ![KeyInHand] = state]
        /\ pc' = "finish" /\ UNCHANGED <<rows, run, recover>>
    BY <1>9 DEF RunOne
  <2> QED
    BY <2>1, <2>2, <2>3, FolderWritten
<1>10. CASE Finish
  BY <1>10, FinishKeeps
<1>11. CASE Crash
  BY <1>11, IdleKeeps DEF Crash, ScriptGone
<1>12. AskStop \/ UNCHANGED vars => UNCHANGED <<rows, folders, pc, recover, run, verdict>>
  BY DEF AskStop, vars
<1> QED
  BY <1>1, <1>2, <1>3, <1>4, <1>5, <1>6, <1>7, <1>8, <1>9, <1>10, <1>11, <1>12
     DEF Next, Loop

-----------------------------------------------------------------------------
(***************************************************************************)
(* The theorems.                                                           *)
(***************************************************************************)

\* The invariant the others follow from.
THEOREM CampaignGood == Spec => []Inv
<1>1. Init => Inv
  BY InitIsGood
<1>2. Inv /\ [Next]_vars => Inv'
  BY InvKept
<1> QED
  BY <1>1, <1>2, PTL DEF Spec

\* No key of a queue is handed out twice: a folder already there was left by
\* another queue.
THEOREM NoFolderTwice == Spec => []NeverTwiceInAFolder
<1>1. Inv => NeverTwiceInAFolder
  BY DEF Inv
<1> QED
  BY <1>1, CampaignGood, PTL

\* Every run the ledger calls done counted, in a folder of its own.
THEOREM DoneRunsCounted == Spec => []DoneIsCounted
<1>1. Inv => DoneIsCounted
  BY DEF Inv
<1> QED
  BY <1>1, CampaignGood, PTL

\* No folder that holds a judged run, or another queue's, is written over.
THEOREM NoFolderOverwritten == Spec => FoldersKept
<1>1. Inv /\ [Next]_vars
        => [\A k \in Keys : folders[k] \in {"earlier", "counted", "refused"}
              => folders'[k] = folders[k]]_vars
  <2> SUFFICES ASSUME Inv, Next, NEW k \in Keys,
                      folders[k] \in {"earlier", "counted", "refused"}
               PROVE  folders'[k] = folders[k]
    OBVIOUS
  <2>1. CASE MakeFolder
    BY <2>1 DEF MakeFolder, Inv
  <2>2. CASE RunOne
    BY <2>2 DEF RunOne, Inv, FolderInHand
  <2>3. CASE UNCHANGED folders
    BY <2>3
  <2> QED
    BY <2>1, <2>2, <2>3
       DEF Next, Loop, Start, StartRefused, AskStop, TopStops, TopGoesOn, NextHands,
           NextFinished, NextFails, FolderTaken, Finish, FinishFails, StopRule, GoOn, Crash
<1> QED
  BY <1>1, CampaignGood, PTL DEF Spec, FoldersKept

\* A run that counted is closed as a failure only by a campaign started later.
THEOREM CountedRunsKept == Spec => CountedIsKept
<1>1. Inv /\ [Next]_vars
        => [\A i \in Queue!Running(rows) :
              folders[Queue!Key(rows[i])] = "counted"
                /\ rows'[i].status \in {"failed", "abandoned"}
                => recover /\ pc = "next"]_vars
  <2> SUFFICES ASSUME Inv, Next, NEW i \in Queue!Running(rows),
                      folders[Queue!Key(rows[i])] = "counted",
                      rows'[i].status \in {"failed", "abandoned"}
               PROVE  recover /\ pc = "next"
    OBVIOUS
  <2>1. rows[i].status = "running"
    BY DEF Queue!Running, Queue!Having
  <2>2. CASE NextHands \/ NextFinished
    BY <2>2 DEF NextHands, NextFinished, Refused
  <2>3. CASE Finish
    <3>1. /\ run \in Queue!Running(rows)
          /\ folders[KeyInHand] = IF verdict = "count" THEN "counted" ELSE "refused"
      BY <2>3 DEF Inv, RunInHandRuns, FolderInHand, Finish
    <3>2. i = run /\ i \in DOMAIN rows /\ i \in Ledger!Running(rows)
      BY <3>1, InHandFacts DEF Inv
    <3>3. rows' = Ledger!Mark(rows, i, "done")
      BY <2>3, <3>1, <3>2, SameRows DEF Finish, KeyInHand
    <3>4. rows'[i].status = "done"
      <4>1. "done" \in Ledger!Statuses
        BY DEF Ledger!Statuses
      <4> QED
        BY <3>2, <3>3, <4>1, DesignFits, Ledger!MarkKeepsKeys DEF Inv
    <3> QED
      BY <3>4
  <2>4. CASE UNCHANGED rows
    BY <2>1, <2>4
  <2> QED
    BY <2>2, <2>3, <2>4
       DEF Next, Loop, Start, StartRefused, AskStop, TopStops, TopGoesOn, NextFails,
           FolderTaken, MakeFolder, RunOne, FinishFails, StopRule, GoOn, Crash
<1> QED
  BY <1>1, CampaignGood, PTL DEF Spec, CountedIsKept

\* A queue with nothing queued and nothing running has closed every planned
\* run: the run's row that has not failed is done or abandoned.
LEMMA EmptyIsComplete ==
  ASSUME NEW q, Ledger!Good(q), Ledger!Running(q) = {}, Queue!Queued(q) = {}
  PROVE  \A u \in Queue!Units : \E i \in DOMAIN q :
           Queue!Unit(q[i]) = u /\ q[i].status \in {"done", "abandoned"}
<1> SUFFICES ASSUME NEW u \in Queue!Units
             PROVE  \E i \in DOMAIN q :
                      Queue!Unit(q[i]) = u /\ q[i].status \in {"done", "abandoned"}
  OBVIOUS
<1>1. u \in Ledger!Units /\ \A row : Queue!Unit(row) = Ledger!Unit(row)
  BY DEF Queue!Units, Ledger!Units, Queue!Unit, Ledger!Unit
<1>2. PICK i \in DOMAIN q : Ledger!Unit(q[i]) = u /\ q[i].status # "failed"
  BY <1>1, DesignFits, Ledger!LastRowFacts
<1>3. q[i].status \in Ledger!Statuses
  BY DesignFits, Ledger!RowFacts DEF Ledger!Good
<1>4. q[i].status \notin {"queued", "running"}
  BY DEF Queue!Queued, Queue!Having, Ledger!Running, Ledger!Having
<1> QED
  BY <1>1, <1>2, <1>3, <1>4 DEF Ledger!Statuses

\* The last word is COMPLETE only while no campaign runs, so nothing changes
\* the queue under it.
SaidAtTheEnd == word = "COMPLETE" => pc = "off"

LEMMA CompleteKept ==
  ASSUME Inv, SaidAtTheEnd, CompleteIsComplete, [Next]_vars
  PROVE  (SaidAtTheEnd /\ CompleteIsComplete)'
<1>1. CASE NextFinished
  <2>1. rows' \in Ready /\ Queue!Queued(rows') = {} /\ pc' = "off"
    BY <1>1 DEF NextFinished, End, ScriptGone
  <2>2. Ledger!Good(rows') /\ Ledger!Running(rows') = {}
    BY <1>1, <2>1, ReadyFacts DEF Inv, NextFinished
  <2>3. \A u \in Queue!Units : \E i \in DOMAIN rows' :
          Queue!Unit(rows'[i]) = u /\ rows'[i].status \in {"done", "abandoned"}
    BY <2>1, <2>2, EmptyIsComplete
  <2> QED
    BY <2>1, <2>3 DEF SaidAtTheEnd, CompleteIsComplete
<1>2. CASE word' # "COMPLETE"
  BY <1>2 DEF SaidAtTheEnd, CompleteIsComplete
<1>3. CASE UNCHANGED <<rows, word, pc>>
  BY <1>3 DEF SaidAtTheEnd, CompleteIsComplete
<1>4. CASE pc # "off" /\ word' = word
  BY <1>2, <1>4 DEF SaidAtTheEnd
<1> QED
  BY <1>1, <1>2, <1>3, <1>4
     DEF Next, Loop, vars, Start, StartRefused, AskStop, TopStops, TopGoesOn, NextHands,
         NextFails, FolderTaken, MakeFolder, RunOne, Finish, FinishFails, StopRule, GoOn,
         Crash, End

\* CAMPAIGN_COMPLETE is said only when every planned run is done or abandoned.
THEOREM CompleteMeansComplete == Spec => []CompleteIsComplete
<1>1. Init => SaidAtTheEnd /\ CompleteIsComplete
  BY DEF Init, SaidAtTheEnd, CompleteIsComplete
<1>2. Inv /\ (SaidAtTheEnd /\ CompleteIsComplete) /\ [Next]_vars
        => (SaidAtTheEnd /\ CompleteIsComplete)'
  BY CompleteKept
<1> QED
  BY <1>1, <1>2, CampaignGood, PTL DEF Spec

\* Everything the campaign does to the queue is one of the queue's commands.
THEOREM LedgerUsedAsAllowed == Spec => LedgerUsed
<1>1. Init => Queue!Init
  BY DEF Init, Queue!Init
<1>2. Inv /\ [Next]_vars => [Queue!Next]_rows
  <2> SUFFICES ASSUME Inv, Next PROVE Queue!Next \/ UNCHANGED rows
    BY DEF vars
  <2>1. CASE NextHands
    <3>1. PICK q \in Ready : rows' = Queue!Take(q)
      BY <2>1 DEF NextHands
    <3> QED
      BY <2>1, <3>1
         DEF Ready, NextHands, Refused, Queue!Next, Queue!NextRun, Queue!NextRecover
  <2>2. CASE NextFinished
    <3>1. rows' \in Ready /\ rows' = Queue!Take(rows')
      BY <2>2 DEF NextFinished, Queue!Take
    <3> QED
      BY <2>2, <3>1
         DEF Ready, NextFinished, Refused, Queue!Next, Queue!NextRun, Queue!NextRecover
  <2>3. CASE Finish
    <3>1. run \in Queue!Running(rows)
      BY <2>3 DEF Inv, RunInHandRuns, Finish
    <3> QED
      BY <2>3, <3>1 DEF Finish, Queue!Next, Queue!FinishDone, Queue!FinishFailed
  <2>4. CASE UNCHANGED rows
    BY <2>4
  <2> QED
    BY <2>1, <2>2, <2>3, <2>4
       DEF Next, Loop, Start, StartRefused, AskStop, TopStops, TopGoesOn, NextFails,
           FolderTaken, MakeFolder, RunOne, FinishFails, StopRule, GoOn, Crash
<1>3. UNCHANGED vars => UNCHANGED rows
  BY DEF vars
<1> QED
  BY <1>1, <1>2, <1>3, CampaignGood, PTL DEF Spec, LedgerUsed, Queue!Spec

-----------------------------------------------------------------------------
(***************************************************************************)
(* The guard.  The failures this campaign has seen on end are among the    *)
(* last rows the ledger closed: each closed a row of its own, after every  *)
(* row closed before it, and nothing the queue's commands do closes a row  *)
(* as done without the campaign's counting afresh.                         *)
(***************************************************************************)
FailedTail(q) ==
  {i \in Finished(q) : \A j \in Finished(q) : i <= j => q[j].status # "done"}

StreakBehind ==
  /\ streak \in Nat
  /\ streak <= Cardinality(FailedTail(rows))
  /\ streak <= InARow
  /\ pc # "after" => streak < InARow

\* The rows that are closed are finitely many places of the file.
LEMMA FinishedFacts ==
  ASSUME NEW q, Ledger!Good(q)
  PROVE  /\ Finished(q) = Ledger!Closed(q)
         /\ Finished(q) \subseteq DOMAIN q /\ DOMAIN q \subseteq Int
         /\ IsFiniteSet(Finished(q)) /\ IsFiniteSet(FailedTail(q))
<1>1. DOMAIN q = 1..Len(q) /\ Len(q) \in Nat
  BY DesignFits, Ledger!RowFacts DEF Ledger!Good
<1>2. IsFiniteSet(DOMAIN q)
  BY <1>1, FS_Interval
<1>3. Finished(q) = Ledger!Closed(q) /\ Finished(q) \subseteq DOMAIN q
  BY DEF Finished, Queue!Closed, Queue!Having, Ledger!Closed, Ledger!Having
<1>4. FailedTail(q) \subseteq Finished(q)
  BY DEF FailedTail
<1>5. IsFiniteSet(Finished(q))
  BY <1>2, <1>3, FS_Subset
<1>6. IsFiniteSet(FailedTail(q))
  BY <1>4, <1>5, FS_Subset
<1> QED
  BY <1>1, <1>3, <1>5, <1>6

\* A queue that keeps what was closed, and has nothing done that was not done
\* before, has every failure at the end of the file that there was.
LEMMA TailGrows ==
  ASSUME NEW q, Ledger!Good(q), NEW r, Ledger!Kept(q, r), Ledger!Follows(q, r)
  PROVE  /\ FailedTail(q) \subseteq FailedTail(r)
         /\ \A j \in Finished(r) : r[j].status = "done" => j \in Finished(q) /\ q[j] = r[j]
<1>1. /\ Ledger!Good(r)
      /\ \A k \in Ledger!Closed(q) : k \in DOMAIN r /\ r[k] = q[k]
  BY DEF Ledger!Kept
<1>2. Finished(q) = Ledger!Closed(q) /\ Finished(r) = Ledger!Closed(r)
  BY <1>1, FinishedFacts
<1>3. ASSUME NEW j \in Finished(r), r[j].status = "done"
      PROVE  j \in Finished(q) /\ q[j] = r[j]
  <2>1. j \in DOMAIN r
    BY <1>1, FinishedFacts
  <2>2. PICK k \in DOMAIN q : q[k] = r[j]
    BY <1>3, <2>1 DEF Ledger!Follows
  <2>3. k \in Ledger!Closed(q)
    BY <1>3, <2>2 DEF Ledger!Closed, Ledger!Having
  <2>4. k \in DOMAIN r /\ r[k] = r[j]
    BY <1>1, <2>2, <2>3
  <2>5. k = j
    BY <1>1, <2>1, <2>4, DesignFits, Ledger!KeysDiffer
  <2> QED
    BY <1>2, <2>2, <2>3, <2>5
<1>4. ASSUME NEW i \in FailedTail(q)
      PROVE  i \in FailedTail(r)
  <2>1. i \in Finished(q) /\ \A j \in Finished(q) : i <= j => q[j].status # "done"
    BY DEF FailedTail
  <2>2. i \in DOMAIN r /\ r[i] = q[i]
    BY <1>1, <1>2, <2>1
  <2>3. i \in Finished(r)
    BY <2>1, <2>2 DEF Finished, Queue!Closed, Queue!Having
  <2>4. \A j \in Finished(r) : i <= j => r[j].status # "done"
    BY <1>3, <2>1
  <2> QED
    BY <2>3, <2>4 DEF FailedTail
<1> QED
  BY <1>3, <1>4

\* The row that fails is closed where it stands.
LEMMA FailedIsClosed ==
  ASSUME NEW q, Ledger!Good(q), NEW i \in Ledger!Running(q), NEW r \in Ledger!Fail(q, i)
  PROVE  i \in DOMAIN r /\ r[i].status \in {"failed", "abandoned"}
<1>1. i \in DOMAIN q /\ DOMAIN q = 1..Len(q) /\ Len(q) \in Nat
  BY DesignFits, Ledger!OneAtATime, Ledger!RowFacts DEF Ledger!Good
<1>2. q[i].attempt \in Int /\ MaxAttempts \in Nat
  BY <1>1, DesignFits, Ledger!RowFacts DEF Ledger!Good, Ledger!DesignAssumption
<1>3. CASE q[i].attempt >= MaxAttempts
  <2>1. r = Ledger!Mark(q, i, "abandoned")
    BY <1>3 DEF Ledger!Fail
  <2>2. "abandoned" \in Ledger!Statuses
    BY DEF Ledger!Statuses
  <2>3. /\ DOMAIN Ledger!Mark(q, i, "abandoned") = DOMAIN q
        /\ Ledger!Mark(q, i, "abandoned")[i].status = "abandoned"
    <3>1. i \in DOMAIN q
      BY <1>1
    <3> QED
      BY <2>2, <3>1, DesignFits, Ledger!MarkKeepsKeys, SMTT(60)
  <2> QED
    BY <1>1, <2>1, <2>3
<1>4. CASE q[i].attempt < MaxAttempts
  <2>1. r \in {Ledger!InsertAt(Ledger!Mark(q, i, "failed"), p, Ledger!Copy(q[i]))
                 : p \in Ledger!Slots(q, i)}
    BY <1>2, <1>4 DEF Ledger!Fail
  <2>2. PICK p \in Ledger!Later(q, i) :
               r = Ledger!InsertAt(Ledger!Mark(q, i, "failed"), p, Ledger!Copy(q[i]))
    <3>1. Ledger!Slots(q, i) \subseteq Ledger!Later(q, i)
      BY DesignFits, Ledger!SlotsAreLater
    <3> QED
      BY <2>1, <3>1
  <2>3. r[i].status = "failed" /\ Len(r) = Len(q) + 1 /\ r \in Seq(Ledger!Row)
    BY <1>4, <2>2, DesignFits, Ledger!FailWithCopyFacts
  <2>4. DOMAIN r = 1..Len(r)
    BY <2>3, DesignFits, Ledger!RowFacts
  <2> QED
    BY <1>1, <2>3, <2>4
<1> QED
  BY <1>2, <1>3, <1>4

\* A failure is one more of the failures at the end of the file.
LEMMA FailureCounted ==
  ASSUME NEW q, Ledger!Good(q), NEW i \in Ledger!Running(q), NEW r \in Ledger!Fail(q, i)
  PROVE  Cardinality(FailedTail(q)) + 1 <= Cardinality(FailedTail(r))
<1>1. Ledger!Kept(q, r) /\ Ledger!Follows(q, r) /\ Ledger!Good(r)
  BY DesignFits, Ledger!FailKeepsClosed, Ledger!FailCloses
<1>2. /\ i \in DOMAIN q /\ q[i].status = "running" /\ i \in Int
      /\ \A k \in DOMAIN q : i < k => q[k].status = "queued"
  BY DesignFits, Ledger!OneAtATime, Ledger!RowFacts DEF Ledger!Good
<1>3. i \notin Finished(q)
  BY <1>2 DEF Finished, Queue!Closed, Queue!Having
<1>4. i \in Finished(r) /\ r[i].status # "done"
  BY FailedIsClosed DEF Finished, Queue!Closed, Queue!Having
<1>5. \A j \in Finished(r) : i <= j => r[j].status # "done"
  <2> SUFFICES ASSUME NEW j \in Finished(r), i <= j, r[j].status = "done"
               PROVE  FALSE
    OBVIOUS
  <2>1. j \in Finished(q) /\ q[j] = r[j]
    BY <1>1, TailGrows
  <2>2. j \in DOMAIN q /\ j \in Int /\ j # i
    BY <1>3, <2>1, FinishedFacts
  <2>3. q[j].status = "queued"
    BY <1>2, <2>2
  <2> QED
    BY <2>1, <2>3
<1>6. i \in FailedTail(r) /\ i \notin FailedTail(q)
  BY <1>3, <1>4, <1>5 DEF FailedTail
<1>7. FailedTail(q) \cup {i} \subseteq FailedTail(r)
  BY <1>1, <1>6, TailGrows
<1>8. IsFiniteSet(FailedTail(q)) /\ IsFiniteSet(FailedTail(r))
  BY <1>1, FinishedFacts
<1>9. Cardinality(FailedTail(q) \cup {i}) = Cardinality(FailedTail(q)) + 1
  BY <1>6, <1>8, FS_AddElement
<1> QED
  BY <1>7, <1>8, <1>9, FS_Subset

\* What keeps and follows the queue has as many failures at its end.
LEMMA TailNoShorter ==
  ASSUME NEW q, Ledger!Good(q), NEW r, Ledger!Kept(q, r), Ledger!Follows(q, r)
  PROVE  Cardinality(FailedTail(q)) <= Cardinality(FailedTail(r))
<1>1. FailedTail(q) \subseteq FailedTail(r)
  BY TailGrows
<1>2. IsFiniteSet(FailedTail(r))
  BY FinishedFacts DEF Ledger!Kept
<1> QED
  BY <1>1, <1>2, FS_Subset

\* A guard that lets a campaign go on has seen fewer than InARow failures at
\* the end of the file.
LEMMA GuardSees ==
  ASSUME NEW q, Ledger!Good(q), ~GuardStops(q)
  PROVE  Cardinality(FailedTail(q)) < InARow
<1> DEFINE T == FailedTail(q)
<1>1. /\ Finished(q) \subseteq Int
      /\ IsFiniteSet(Finished(q)) /\ IsFiniteSet(T)
      /\ T \subseteq Finished(q) /\ InARow \in Nat
  BY FinishedFacts, GuardAssumption DEF FailedTail
<1>2. /\ Cardinality(T) \in Nat /\ Cardinality(Finished(q)) \in Nat
      /\ Cardinality(T) <= Cardinality(Finished(q))
  BY <1>1, FS_Subset, FS_CardinalityType
<1> SUFFICES ASSUME Cardinality(T) >= InARow PROVE FALSE
  BY <1>1, <1>2
<1>3. ASSUME NEW i \in Latest(q, InARow), q[i].status = "done"
      PROVE  FALSE
  <2> DEFINE After == {j \in Finished(q) : i < j}
  <2>1. i \in Finished(q) /\ Cardinality(After) < InARow
    BY DEF Latest
  <2>2. \A k \in T : k \in After
    BY <1>1, <1>3, <2>1 DEF FailedTail
  <2>3. After \subseteq Finished(q)
    OBVIOUS
  <2> HIDE DEF After
  <2>4. IsFiniteSet(After)
    BY <1>1, <2>3, FS_Subset
  <2>5. Cardinality(T) <= Cardinality(After) /\ Cardinality(After) \in Nat
    BY <2>2, <2>4, FS_Subset, FS_CardinalityType
  <2> QED
    BY <1>1, <1>2, <2>1, <2>5
<1>4. Failures(q, InARow) = Latest(q, InARow)
  BY <1>3 DEF Failures
<1> QED
  BY <1>1, <1>2, <1>4 DEF GuardStops

\* Every step keeps the count behind the failures at the end of the file.
LEMMA StreakKept ==
  ASSUME Inv, StreakBehind, [Next]_vars
  PROVE  StreakBehind'
<1>1. InARow \in Nat \ {0} /\ Ledger!Good(rows) /\ recover \in BOOLEAN
  BY GuardAssumption DEF Inv
<1>2. Ledger!Good(rows)'
  BY InvKept DEF Inv
<1>3. /\ Cardinality(FailedTail(rows)) \in Nat
      /\ Cardinality(FailedTail(rows')) \in Nat
  BY <1>1, <1>2, FinishedFacts, FS_CardinalityType
<1>4. CASE streak' = 0
  BY <1>1, <1>3, <1>4 DEF StreakBehind
<1>5. CASE UNCHANGED <<rows, streak>> /\ (pc' = "after" \/ pc # "after")
  BY <1>5 DEF StreakBehind
<1>6. CASE GoOn
  <2>1. UNCHANGED <<rows, streak>> /\ ~GuardStops(rows)
    BY <1>6 DEF GoOn
  <2>2. Cardinality(FailedTail(rows)) < InARow
    BY <1>1, <2>1, GuardSees
  <2> QED
    BY <1>1, <1>3, <2>1, <2>2 DEF StreakBehind
<1>7. CASE NextHands
  <2>1. PICK q \in Ready : rows' = Queue!Take(q)
    BY <1>7 DEF NextHands
  <2>2. Ledger!Good(q) /\ Ledger!Running(q) = {} /\ Ledger!Follows(rows, q)
    BY <1>1, <1>7, ReadyFacts DEF NextHands
  <2>3. Ledger!Kept(rows, q)
    <3>1. CASE recover
      BY <1>1, <3>1, SameRecovered, DesignFits, Ledger!RecoveredKeepsClosed DEF Ready
    <3>2. CASE ~recover
      BY <1>1, <3>2 DEF Ready, Ledger!Kept, Ledger!Closed, Ledger!Having
    <3> QED
      BY <3>1, <3>2
  <2>4. Ledger!Kept(q, Ledger!Take(q)) /\ rows' = Ledger!Take(q)
    BY <2>1, <2>2, SameRows, DesignFits, Ledger!TakeKeepsClosed
  <2>5. Ledger!Follows(q, Ledger!Take(q))
    <3>1. CASE Ledger!Queued(q) = {}
      BY <3>1 DEF Ledger!Take, Ledger!Follows
    <3>2. CASE Ledger!Queued(q) # {}
      BY <2>2, <3>2, DesignFits, Ledger!TakeHandsOut
    <3> QED
      BY <3>1, <3>2
  <2>6. Cardinality(FailedTail(rows)) <= Cardinality(FailedTail(q))
    BY <1>1, <2>2, <2>3, TailNoShorter
  <2>7. Cardinality(FailedTail(q)) <= Cardinality(FailedTail(rows'))
    BY <2>2, <2>4, <2>5, TailNoShorter
  <2>8. Cardinality(FailedTail(q)) \in Nat
    BY <2>2, FinishedFacts, FS_CardinalityType
  <2>9. streak' = streak /\ pc # "after"
    BY <1>7 DEF NextHands
  <2> QED
    BY <1>1, <1>3, <2>6, <2>7, <2>8, <2>9 DEF StreakBehind
<1>8. CASE Finish /\ verdict # "count"
  <2>1. /\ run \in Ledger!Running(rows) /\ rows' \in Ledger!Fail(rows, run)
        /\ streak' = streak + 1 /\ pc = "finish" /\ pc' = "after"
    <3>1. run \in Queue!Running(rows)
      BY <1>8 DEF Inv, RunInHandRuns, Finish
    <3> QED
      BY <1>1, <1>8, <3>1, InHandFacts, SameFail DEF Finish
  <2>2. Cardinality(FailedTail(rows)) + 1 <= Cardinality(FailedTail(rows'))
    BY <1>1, <2>1, FailureCounted
  <2> QED
    BY <1>1, <1>3, <2>1, <2>2 DEF StreakBehind
<1> QED
  BY <1>4, <1>5, <1>6, <1>7, <1>8
     DEF Next, Loop, vars, Start, StartRefused, AskStop, TopStops, TopGoesOn, NextFinished,
         NextFails, FolderTaken, MakeFolder, RunOne, Finish, FinishFails, StopRule, Crash,
         End, ScriptGone

\* One campaign never records more than GUARD_IN_A_ROW failures on end, however
\* its crashes and failed writes fall and whatever its ledger held before it.
THEOREM GuardKeepsItsWord == Spec => []GuardHolds
<1>1. Init => StreakBehind
  <2> SUFFICES ASSUME Init PROVE StreakBehind
    OBVIOUS
  <2>1. Ledger!Good(rows)
    BY InitIsGood DEF Inv
  <2>2. Cardinality(FailedTail(rows)) \in Nat
    BY <2>1, FinishedFacts, FS_CardinalityType
  <2> QED
    BY <2>2, GuardAssumption DEF Init, StreakBehind
<1>2. Inv /\ StreakBehind /\ [Next]_vars => StreakBehind'
  BY StreakKept
<1>3. Inv /\ StreakBehind => GuardHolds
  BY DEF GuardHolds, StreakBehind
<1> QED
  BY <1>1, <1>2, <1>3, CampaignGood, PTL DEF Spec

=============================================================================
