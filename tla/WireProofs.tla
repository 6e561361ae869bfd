------------------------------ MODULE WireProofs ------------------------------
(***************************************************************************)
(* The two records of a captured stream say what the capture says, for     *)
(* every capture: any stream, any packets, in any order and any number.    *)
(*                                                                         *)
(* Both are built by loops.  Each loop is a recursive function over its    *)
(* turns; that there is one, and what holds after every turn, are shown    *)
(* by induction on the turns (Induction), with what a single turn does     *)
(* (TurnKeeps, ReleaseKeeps) as the step.                                  *)
(***************************************************************************)
EXTENDS Wire, SequenceTheorems, FiniteSetTheorems,
        WellFoundedInduction, TLAPS

-----------------------------------------------------------------------------
(***************************************************************************)
(* Natural numbers.                                                        *)
(***************************************************************************)

\* A set of naturals that is not empty has a least member.
LEMMA LeastMember ==
  ASSUME NEW S, S \subseteq Nat, S # {}
  PROVE  \E m \in S : \A n \in S : m <= n
<1> DEFINE R == {ss \in Nat \X Nat : ss[1] < ss[2]}
<1>1. IsWellFoundedOn(R, Nat)
  BY NatLessThanWellFounded DEF OpToRel
<1> HIDE DEF R
<1>2. PICK m \in S : \A n \in S : ~(<<n, m>> \in R)
  BY <1>1, WFMin
<1>3. \A n \in S : ~(n < m)
  BY <1>2 DEF R
<1> QED
  BY <1>3

\* What holds 0, and with a number the next, holds every number.
LEMMA Induction ==
  ASSUME NEW S, 0 \in S, \A n \in Nat : n \in S => n + 1 \in S
  PROVE  \A n \in Nat : n \in S
<1> SUFFICES ASSUME Nat \ S # {} PROVE FALSE
  OBVIOUS
<1>1. PICK m \in Nat \ S : \A n \in Nat \ S : m <= n
  BY LeastMember
<1>2. m # 0 /\ m - 1 \in Nat
  BY <1>1
<1>3. m - 1 \in S
  BY <1>1, <1>2
<1>4. (m - 1) + 1 \in S
  BY <1>2, <1>3
<1> QED
  BY <1>1, <1>4

-----------------------------------------------------------------------------
(***************************************************************************)
(* Looking up a place in a sorted sequence (bisect_right).                 *)
(***************************************************************************)

\* Sorted, as the starts and the ends of the pieces and of the runs are.
Ascending(s, n) ==
  /\ DOMAIN s = 1..n
  /\ \A k \in 1..n : s[k] \in Int
  /\ \A j, k \in 1..n : j < k => s[j] <= s[k]

\* All before the place found are at most x, all from it on are more.
LEMMA AfterFacts ==
  ASSUME NEW n \in Nat, NEW s, Ascending(s, n), NEW x \in Int
  PROVE  /\ After(s, x) \in 1..(n + 1)
         /\ \A k \in 1..n : k < After(s, x) <=> s[k] <= x
<1> DEFINE Above == {k \in 1..(n + 1) : k = n + 1 \/ s[k] > x}
<1>1. n + 1 \in Above /\ Above \subseteq Nat
  OBVIOUS
<1> HIDE DEF Above
<1>2. PICK m \in Above : \A k \in Above : m <= k
  BY <1>1, LeastMember
<1> USE DEF Above
<1>3. m \in 1..(n + 1) /\ (m = n + 1 \/ s[m] > x)
  BY <1>2
<1>4. \A k \in 1..n : s[k] <= x <=> k <= m - 1
  <2> TAKE k \in 1..n
  <2>1. s[k] \in Int
    BY DEF Ascending
  <2>2. CASE k <= m - 1
    <3>1. k \notin Above
      BY <1>2, <1>3, <2>2
    <3> QED
      BY <2>1, <2>2, <3>1
  <2>3. CASE k > m - 1
    <3>1. m \in 1..n /\ s[m] > x /\ s[m] \in Int
      BY <1>3, <2>3 DEF Ascending
    <3>2. s[m] <= s[k]
      BY <1>3, <2>1, <2>3, <3>1 DEF Ascending
    <3> QED
      BY <2>1, <2>3, <3>1, <3>2
  <2> QED
    BY <1>3, <2>2, <2>3
<1>5. {k \in DOMAIN s : s[k] <= x} = 1..(m - 1)
  BY <1>3, <1>4 DEF Ascending
<1>6. Cardinality(1..(m - 1)) = m - 1
  BY <1>3, FS_Interval
<1>7. After(s, x) = m
  <2>1. After(s, x) = Cardinality(1..(m - 1)) + 1
    BY <1>5, Zenon DEF After
  <2> QED
    BY <1>3, <1>6, <2>1
<1> QED
  BY <1>3, <1>4, <1>7

LEMMA InsertAtFacts ==
  ASSUME NEW S, NEW s \in Seq(S), NEW p \in 1..(Len(s) + 1), NEW e \in S,
         NEW r, r = InsertAt(s, p, e)
  PROVE  /\ r \in Seq(S)
         /\ Len(r) = Len(s) + 1
         /\ r[p] = e
         /\ \A k \in 1..(p - 1) : r[k] = s[k]
         /\ \A k \in p..Len(s) : r[k + 1] = s[k]
<1> DEFINE a == SubSeq(s, 1, p - 1)
           b == SubSeq(s, p, Len(s))
<1>1. p \in Int /\ Len(s) \in Nat /\ \A k \in 1..Len(s) : s[k] \in S
  BY ElementOfSeq, LenProperties
<1>2. /\ a \in Seq(S) /\ Len(a) = p - 1
      /\ \A k \in 1..(p - 1) : a[k] = s[k]
  <2>1. \A k \in 1..(p - 1) : s[k] \in S
    BY <1>1
  <2>2. /\ a \in Seq(S) /\ Len(a) = IF 1 <= p - 1 THEN p - 1 - 1 + 1 ELSE 0
        /\ \A k \in 1..(p - 1 - 1 + 1) : a[k] = s[1 + k - 1]
    BY <1>1, <2>1, SubSeqProperties
  <2> QED
    BY <1>1, <2>2
<1>3. /\ b \in Seq(S) /\ Len(b) = Len(s) - p + 1
      /\ \A k \in 1..(Len(s) - p + 1) : b[k] = s[p + k - 1]
  <2>1. \A k \in p..Len(s) : s[k] \in S
    BY <1>1
  <2>2. /\ b \in Seq(S) /\ Len(b) = IF p <= Len(s) THEN Len(s) - p + 1 ELSE 0
        /\ \A k \in 1..(Len(s) - p + 1) : b[k] = s[p + k - 1]
    BY <1>1, <2>1, SubSeqProperties
  <2> QED
    BY <1>1, <2>2
<1>4. <<e>> \in Seq(S) /\ Len(<<e>>) = 1 /\ <<e>>[1] = e
  OBVIOUS
<1> HIDE DEF a, b
<1>5. /\ a \o <<e>> \in Seq(S) /\ Len(a \o <<e>>) = p
      /\ \A k \in 1..p : (a \o <<e>>)[k] = IF k <= p - 1 THEN a[k] ELSE <<e>>[k - (p - 1)]
  BY <1>1, <1>2, <1>4, ConcatProperties
<1>6. /\ r \in Seq(S) /\ Len(r) = Len(s) + 1
      /\ \A k \in 1..(Len(s) + 1) :
           r[k] = IF k <= p THEN (a \o <<e>>)[k] ELSE b[k - p]
  <2>1. r = (a \o <<e>>) \o b
    BY DEF InsertAt, a, b
  <2>2. /\ (a \o <<e>>) \o b \in Seq(S)
        /\ Len((a \o <<e>>) \o b) = Len(a \o <<e>>) + Len(b)
        /\ \A k \in 1..(Len(a \o <<e>>) + Len(b)) :
             ((a \o <<e>>) \o b)[k] = IF k <= Len(a \o <<e>>) THEN (a \o <<e>>)[k]
                                      ELSE b[k - Len(a \o <<e>>)]
    <3>1. a \o <<e>> \in Seq(S) /\ b \in Seq(S)
      BY <1>3, <1>5
    <3> QED
      BY <3>1, ConcatProperties, Zenon
  <2>3. Len(a \o <<e>>) = p /\ Len(b) = Len(s) - p + 1
    BY <1>3, <1>5
  <2>4. p + (Len(s) - p + 1) = Len(s) + 1
    BY <1>1
  <2> QED
    BY <2>1, <2>2, <2>3, <2>4
<1>7. r[p] = e
  BY <1>1, <1>4, <1>5, <1>6
<1>8. \A k \in 1..(p - 1) : r[k] = s[k]
  BY <1>1, <1>2, <1>5, <1>6
<1>9. \A k \in p..Len(s) : r[k + 1] = s[k]
  <2> TAKE k \in p..Len(s)
  <2>1. k + 1 \in 1..(Len(s) + 1) /\ ~(k + 1 <= p)
    BY <1>1
  <2>2. r[k + 1] = b[k + 1 - p]
    BY <1>6, <2>1
  <2>3. k + 1 - p \in 1..(Len(s) - p + 1) /\ p + (k + 1 - p) - 1 = k
    BY <1>1
  <2> QED
    BY <1>3, <2>2, <2>3
<1> QED
  BY <1>6, <1>7, <1>8, <1>9

-----------------------------------------------------------------------------
(***************************************************************************)
(* Pieces (client_wire.Sent).                                              *)
(***************************************************************************)
PieceType == [start : Int, end : Int, time : Nat]

\* The pieces are in order and have nothing in common.
Apart(q) ==
  /\ \A k \in DOMAIN q : q[k].start < q[k].end
  /\ \A j, k \in DOMAIN q : j < k => q[j].end <= q[k].start

Tidy(q) == q \in Seq(PieceType) /\ Apart(q)

\* Whether a byte has a time.
Has(q, x, t) ==
  \E k \in DOMAIN q : q[k].start <= x /\ x < q[k].end /\ q[k].time = t

LEMMA PieceFacts ==
  ASSUME NEW q \in Seq(PieceType)
  PROVE  /\ DOMAIN q = 1..Len(q) /\ Len(q) \in Nat
         /\ \A k \in DOMAIN q : q[k].start \in Int /\ q[k].end \in Int /\ q[k].time \in Nat
<1>1. DOMAIN q = 1..Len(q) /\ Len(q) \in Nat /\ \A k \in DOMAIN q : q[k] \in PieceType
  BY LenProperties, ElementOfSeq
<1> QED
  BY <1>1 DEF PieceType

\* A byte has one time at most.
LEMMA OneTime ==
  ASSUME NEW q, Tidy(q), NEW x \in Int, NEW t, NEW u, Has(q, x, t), Has(q, x, u)
  PROVE  t = u
<1>1. /\ DOMAIN q = 1..Len(q) /\ Len(q) \in Nat
      /\ \A k \in DOMAIN q : q[k].start \in Int /\ q[k].end \in Int /\ q[k].time \in Nat
  BY PieceFacts DEF Tidy
<1>2. PICK j \in DOMAIN q : q[j].start <= x /\ x < q[j].end /\ q[j].time = t
  BY DEF Has
<1>3. PICK k \in DOMAIN q : q[k].start <= x /\ x < q[k].end /\ q[k].time = u
  BY DEF Has
<1>4. ~(j < k) /\ ~(k < j)
  BY <1>1, <1>2, <1>3 DEF Tidy, Apart
<1>5. j = k
  BY <1>1, <1>4
<1> QED
  BY <1>2, <1>3, <1>5

\* The starts and the ends of the pieces are ascending.
LEMMA StartsAscend ==
  ASSUME NEW q, Tidy(q)
  PROVE  /\ Ascending([k \in DOMAIN q |-> q[k].start], Len(q))
         /\ Ascending([k \in DOMAIN q |-> q[k].end], Len(q))
<1>1. /\ DOMAIN q = 1..Len(q) /\ Len(q) \in Nat
      /\ \A k \in DOMAIN q : q[k].start \in Int /\ q[k].end \in Int
  BY PieceFacts DEF Tidy
<1>2. \A j, k \in DOMAIN q : j < k => q[j].start <= q[k].start /\ q[j].end <= q[k].end
  <2> TAKE j, k \in DOMAIN q
  <2> HAVE j < k
  <2>1. q[j].start < q[j].end /\ q[j].end <= q[k].start /\ q[k].start < q[k].end
    BY DEF Tidy, Apart
  <2>2. \A a, b, c, d \in Int : a < b /\ b <= c /\ c < d => a <= c /\ b <= d
    OBVIOUS
  <2> QED
    BY <1>1, <2>1, <2>2
<1> QED
  BY <1>1, <1>2 DEF Ascending

\* at answers with the time the byte has.
LEMMA AtFacts ==
  ASSUME NEW q, Tidy(q), NEW x \in Int
  PROVE  /\ At(q, x) \in Nat => Has(q, x, At(q, x))
         /\ At(q, x) = None => \A t : ~Has(q, x, t)
         /\ At(q, x) \in Nat \union {None}
<1> DEFINE starts == [k \in DOMAIN q |-> q[k].start]
           i == After(starts, x) - 1
<1>1. /\ DOMAIN q = 1..Len(q) /\ Len(q) \in Nat
      /\ \A k \in DOMAIN q : q[k].start \in Int /\ q[k].end \in Int /\ q[k].time \in Nat
  BY PieceFacts DEF Tidy
<1>2. /\ After(starts, x) \in 1..(Len(q) + 1)
      /\ \A k \in 1..Len(q) : k < After(starts, x) <=> starts[k] <= x
  <2>1. Ascending(starts, Len(q))
    BY StartsAscend
  <2> HIDE DEF starts
  <2> QED
    BY <1>1, <2>1, AfterFacts
<1>3. At(q, x) = IF i >= 1 /\ x < q[i].end THEN q[i].time ELSE None
  BY DEF At
<1>4. i \in 0..Len(q) /\ \A k \in DOMAIN q : k <= i <=> q[k].start <= x
  <2>1. \A k \in DOMAIN q : starts[k] = q[k].start
    OBVIOUS
  <2> HIDE DEF starts
  <2> QED
    BY <1>1, <1>2, <2>1
<1> HIDE DEF i
<1>5. CASE i >= 1 /\ x < q[i].end
  BY <1>1, <1>3, <1>4, <1>5 DEF Has, None
<1>6. CASE ~(i >= 1 /\ x < q[i].end)
  <2>1. \A t : ~Has(q, x, t)
    <3> SUFFICES ASSUME NEW k \in DOMAIN q, q[k].start <= x, x < q[k].end PROVE FALSE
      BY DEF Has
    <3>1. k <= i /\ k # i /\ i \in DOMAIN q
      BY <1>1, <1>4, <1>6
    <3>2. q[k].end <= q[i].start /\ q[i].start <= x
      BY <1>1, <1>4, <3>1 DEF Tidy, Apart
    <3> QED
      BY <1>1, <3>1, <3>2
  <2> QED
    BY <1>3, <1>6, <2>1 DEF None
<1> QED
  BY <1>5, <1>6

\* covers answers whether any of the packet's bytes has a time.
LEMMA CoversFacts ==
  ASSUME NEW q, Tidy(q), NEW start \in Int, NEW end \in Int, start < end
  PROVE  Covers(q, start, end) <=> \E x \in start..(end - 1), t \in Nat : Has(q, x, t)
<1> DEFINE starts == [k \in DOMAIN q |-> q[k].start]
           i == After(starts, start) - 1
<1>1. /\ DOMAIN q = 1..Len(q) /\ Len(q) \in Nat
      /\ \A k \in DOMAIN q : q[k].start \in Int /\ q[k].end \in Int /\ q[k].time \in Nat
  BY PieceFacts DEF Tidy
<1>2. /\ After(starts, start) \in 1..(Len(q) + 1)
      /\ \A k \in 1..Len(q) : k < After(starts, start) <=> starts[k] <= start
  <2>1. Ascending(starts, Len(q))
    BY StartsAscend
  <2> HIDE DEF starts
  <2> QED
    BY <1>1, <2>1, AfterFacts
<1>3. Covers(q, start, end) <=> \/ i >= 1 /\ q[i].end > start
                                \/ i + 1 <= Len(q) /\ q[i + 1].start < end
  BY DEF Covers
<1>4. i \in 0..Len(q) /\ \A k \in DOMAIN q : k <= i <=> q[k].start <= start
  <2>1. \A k \in DOMAIN q : starts[k] = q[k].start
    OBVIOUS
  <2> HIDE DEF starts
  <2> QED
    BY <1>1, <1>2, <2>1
<1> HIDE DEF i
<1>5. ASSUME i >= 1, q[i].end > start
      PROVE  \E x \in start..(end - 1), t \in Nat : Has(q, x, t)
  <2>1. Has(q, start, q[i].time) /\ q[i].time \in Nat
    BY <1>1, <1>4, <1>5 DEF Has
  <2>2. start \in start..(end - 1)
    OBVIOUS
  <2> QED
    BY <2>1, <2>2
<1>6. ASSUME i + 1 <= Len(q), q[i + 1].start < end
      PROVE  \E x \in start..(end - 1), t \in Nat : Has(q, x, t)
  <2> DEFINE k == i + 1
  <2>1. k \in DOMAIN q /\ q[k].start > start /\ q[k].start < q[k].end
    BY <1>1, <1>4, <1>6 DEF Tidy, Apart
  <2>2. Has(q, q[k].start, q[k].time)
    BY <1>1, <2>1 DEF Has
  <2> QED
    BY <1>1, <1>6, <2>1, <2>2
<1>7. ASSUME NEW x \in start..(end - 1), NEW t \in Nat, Has(q, x, t)
      PROVE  \/ i >= 1 /\ q[i].end > start
             \/ i + 1 <= Len(q) /\ q[i + 1].start < end
  <2>1. PICK k \in DOMAIN q : q[k].start <= x /\ x < q[k].end
    BY <1>7 DEF Has
  <2>2. CASE k <= i
    <3>1. i >= 1 /\ i \in DOMAIN q /\ (k = i \/ q[k].end <= q[i].start)
      BY <1>1, <1>4, <2>2 DEF Tidy, Apart
    <3>2. q[i].start < q[i].end
      BY <3>1 DEF Tidy, Apart
    <3>3. k # i => q[i].start > x
      BY <1>1, <2>1, <3>1
    <3> QED
      BY <1>1, <1>4, <2>1, <3>1, <3>2, <3>3
  <2>3. CASE k > i
    <3>1. i + 1 \in DOMAIN q /\ (k = i + 1 \/ q[i + 1].end <= q[k].start)
      BY <1>1, <1>4, <2>3 DEF Tidy, Apart
    <3>2. q[i + 1].start < q[i + 1].end
      BY <3>1 DEF Tidy, Apart
    <3> QED
      BY <1>1, <2>1, <3>1, <3>2
  <2> QED
    BY <1>1, <1>4, <2>2, <2>3
<1> QED
  BY <1>3, <1>5, <1>6, <1>7

\* What putting down a piece at its place does.
LEMMA InsertPiece ==
  ASSUME NEW q, Tidy(q), NEW i \in 1..(Len(q) + 1), NEW start \in Int, NEW stop \in Int,
         NEW ns \in Nat, start < stop,
         \A k \in DOMAIN q : k < i => q[k].end <= start,
         \A k \in DOMAIN q : k >= i => stop <= q[k].start,
         NEW r, r = InsertAt(q, i, Piece(start, stop, ns))
  PROVE  /\ Tidy(r) /\ Len(r) = Len(q) + 1
         /\ \A k \in 1..i : r[k].end <= stop
         /\ \A k \in (i + 1)..Len(r) : r[k].end > stop
         /\ \A x, t : Has(r, x, t) <=> \/ Has(q, x, t)
                                       \/ start <= x /\ x < stop /\ t = ns
<1> DEFINE e == Piece(start, stop, ns)
<1>1. /\ DOMAIN q = 1..Len(q) /\ Len(q) \in Nat /\ q \in Seq(PieceType)
      /\ \A k \in DOMAIN q : q[k].start \in Int /\ q[k].end \in Int
  BY PieceFacts DEF Tidy
<1>2. e \in PieceType /\ e.start = start /\ e.end = stop /\ e.time = ns
  BY DEF Piece, PieceType
<1> HIDE DEF e
<1>3. /\ r \in Seq(PieceType)
      /\ Len(r) = Len(q) + 1
      /\ r[i] = e
      /\ \A k \in 1..(i - 1) : r[k] = q[k]
      /\ \A k \in i..Len(q) : r[k + 1] = q[k]
  <2>1. r = InsertAt(q, i, e)
    BY DEF e
  <2> QED
    BY <1>1, <1>2, <2>1, InsertAtFacts
<1>4. DOMAIN r = 1..(Len(q) + 1)
  BY <1>1, <1>3
<1>5. \A k \in (i + 1)..(Len(q) + 1) : k - 1 \in DOMAIN q /\ k - 1 >= i /\ r[k] = q[k - 1]
  <2> TAKE k \in (i + 1)..(Len(q) + 1)
  <2>1. k - 1 \in i..Len(q) /\ (k - 1) + 1 = k
    BY <1>1
  <2> QED
    BY <1>1, <1>3, <2>1
<1>6. \A k \in 1..(i - 1) : k \in DOMAIN q /\ k < i /\ r[k] = q[k]
  BY <1>1, <1>3
<1>7. \A k \in DOMAIN r : k \in 1..(i - 1) \/ k = i \/ k \in (i + 1)..(Len(q) + 1)
  BY <1>1, <1>4
<1>8. \A k \in DOMAIN r : r[k].start < r[k].end
  BY <1>2, <1>3, <1>5, <1>6, <1>7 DEF Tidy, Apart
<1>9. \A j, k \in DOMAIN r : j < k => r[j].end <= r[k].start
  <2> TAKE j, k \in DOMAIN r
  <2> HAVE j < k
  <2>1. CASE k \in 1..(i - 1)
    <3>1. j \in 1..(i - 1)
      BY <1>4, <2>1
    <3> QED
      BY <1>6, <2>1, <3>1 DEF Tidy, Apart
  <2>2. CASE k = i
    <3>1. j \in 1..(i - 1)
      BY <1>4, <2>2
    <3> QED
      BY <1>2, <1>3, <1>6, <2>2, <3>1
  <2>3. CASE k \in (i + 1)..(Len(q) + 1)
    <3>1. k - 1 \in DOMAIN q /\ k - 1 >= i /\ r[k] = q[k - 1]
      BY <1>5, <2>3
    <3>2. CASE j \in 1..(i - 1)
      <4>1. j \in DOMAIN q /\ r[j] = q[j] /\ j < k - 1
        BY <1>1, <1>6, <3>1, <3>2
      <4> QED
        BY <3>1, <4>1 DEF Tidy, Apart
    <3>3. CASE j = i
      BY <1>2, <1>3, <3>1, <3>3
    <3>4. CASE j \in (i + 1)..(Len(q) + 1)
      <4>1. j - 1 \in DOMAIN q /\ r[j] = q[j - 1] /\ j - 1 < k - 1
        BY <1>1, <1>5, <2>3, <3>4
      <4> QED
        BY <3>1, <4>1 DEF Tidy, Apart
    <3> QED
      BY <1>7, <3>2, <3>3, <3>4
  <2> QED
    BY <1>7, <2>1, <2>2, <2>3
<1>10. \A k \in 1..i : r[k].end <= stop
  <2> TAKE k \in 1..i
  <2>1. k = i \/ k \in 1..(i - 1)
    BY <1>1
  <2>2. CASE k = i
    BY <1>2, <1>3, <2>2
  <2>3. CASE k \in 1..(i - 1)
    <3>1. r[k].end \in Int /\ r[k].end <= start
      BY <1>1, <1>6, <2>3
    <3> QED
      BY <3>1
  <2> QED
    BY <2>1, <2>2, <2>3
<1>11. \A k \in (i + 1)..Len(r) : r[k].end > stop
  <2> TAKE k \in (i + 1)..Len(r)
  <2>1. k - 1 \in DOMAIN q /\ k - 1 >= i /\ r[k] = q[k - 1]
    BY <1>3, <1>5
  <2>2. stop <= q[k - 1].start /\ q[k - 1].start < q[k - 1].end
    BY <2>1 DEF Tidy, Apart
  <2> QED
    BY <1>1, <2>1, <2>2
<1>12. \A x, t : Has(r, x, t) <=> \/ Has(q, x, t)
                                  \/ start <= x /\ x < stop /\ t = ns
  <2> TAKE x, t
  <2>1. ASSUME Has(r, x, t) PROVE Has(q, x, t) \/ (start <= x /\ x < stop /\ t = ns)
    <3>1. PICK k \in DOMAIN r : r[k].start <= x /\ x < r[k].end /\ r[k].time = t
      BY <2>1 DEF Has
    <3> QED
      BY <1>2, <1>3, <1>5, <1>6, <1>7, <3>1 DEF Has
  <2>2. ASSUME start <= x, x < stop, t = ns PROVE Has(r, x, t)
    <3>1. i \in DOMAIN r
      BY <1>1, <1>4
    <3> QED
      BY <1>2, <1>3, <2>2, <3>1 DEF Has
  <2>3. ASSUME Has(q, x, t) PROVE Has(r, x, t)
    <3>1. PICK k \in DOMAIN q : q[k].start <= x /\ x < q[k].end /\ q[k].time = t
      BY <2>3 DEF Has
    <3>2. \E l \in DOMAIN r : r[l] = q[k]
      <4>1. CASE k < i
        <5>1. k \in 1..(i - 1) /\ k \in DOMAIN r
          BY <1>1, <1>4, <4>1
        <5> QED
          BY <1>3, <5>1
      <4>2. CASE k >= i
        <5>1. k \in i..Len(q) /\ k + 1 \in DOMAIN r
          BY <1>1, <1>4, <4>2
        <5> QED
          BY <1>3, <5>1
      <4> QED
        BY <1>1, <4>1, <4>2
    <3> QED
      BY <3>1, <3>2 DEF Has
  <2> QED
    BY <2>1, <2>2, <2>3
<1>13. Tidy(r)
  BY <1>3, <1>8, <1>9 DEF Tidy, Apart
<1> QED
  BY <1>3, <1>10, <1>11, <1>12, <1>13

\* add's walk over q with the packet start..(end - 1) has come to w.
Walking(w, q, start, end, ns) ==
  /\ w \in [q : Seq(PieceType), i : Nat, start : Int]
  /\ Tidy(w.q) /\ w.i \in 1..(Len(w.q) + 1) /\ start <= w.start
  /\ \A k \in DOMAIN w.q : k < w.i => w.q[k].end <= w.start
  /\ \A k \in DOMAIN w.q : k >= w.i => w.q[k].end > w.start
  /\ \A x \in Int : \A t : Has(w.q, x, t) <=>
       \/ Has(q, x, t)
       \/ start <= x /\ x < w.start /\ x < end /\ t = ns /\ \A u : ~Has(q, x, u)

\* A turn goes on with the walk, by one byte at least.
LEMMA TurnKeeps ==
  ASSUME NEW q, Tidy(q), NEW start \in Int, NEW end \in Int, NEW ns \in Nat, start < end,
         NEW w, Walking(w, q, start, end, ns)
  PROVE  /\ Walking(Turn(w, end, ns), q, start, end, ns)
         /\ w.start >= end => Turn(w, end, ns) = w
         /\ w.start < end => Turn(w, end, ns).start > w.start
<1>1. /\ w \in [q : Seq(PieceType), i : Nat, start : Int]
      /\ w.q \in Seq(PieceType) /\ w.i \in Nat /\ w.start \in Int
      /\ DOMAIN w.q = 1..Len(w.q) /\ Len(w.q) \in Nat
      /\ \A k \in DOMAIN w.q : w.q[k].start \in Int /\ w.q[k].end \in Int
  <2>1. w \in [q : Seq(PieceType), i : Nat, start : Int]
    BY DEF Walking
  <2>2. w.q \in Seq(PieceType) /\ w.i \in Nat /\ w.start \in Int
    BY <2>1
  <2> QED
    BY <2>1, <2>2, PieceFacts
<1>2. CASE w.start >= end
  <2>1. Turn(w, end, ns) = w
    BY <1>2 DEF Turn
  <2> QED
    BY <1>1, <1>2, <2>1
<1>3. CASE w.start < end /\ w.i <= Len(w.q) /\ w.q[w.i].start <= w.start
  <2> DEFINE v == Turn(w, end, ns)
             i == w.i
  <2>1. /\ v \in [q : Seq(PieceType), i : Nat, start : Int]
        /\ v.q = w.q /\ v.i = i + 1 /\ v.start = w.q[i].end
    <3>1. i \in DOMAIN w.q
      BY <1>1, <1>3 DEF Walking
    <3>2. v = [w EXCEPT !.i = @ + 1, !.start = w.q[w.i].end]
      BY <1>1, <1>3 DEF Turn
    <3>3. /\ w.q[i].end \in Int /\ i + 1 \in Nat
          /\ w = [q |-> w.q, i |-> w.i, start |-> w.start]
      BY <1>1, <3>1
    <3>4. v = [q |-> w.q, i |-> i + 1, start |-> w.q[i].end]
      BY <3>2, <3>3
    <3> HIDE DEF v
    <3> QED
      BY <1>1, <3>3, <3>4
  <2> HIDE DEF v
  <2>2. i \in DOMAIN w.q /\ w.q[i].end > w.start /\ i \in 1..Len(w.q)
    BY <1>1, <1>3 DEF Walking
  <2>3. \A k \in DOMAIN w.q : k < i + 1 => w.q[k].end <= w.q[i].end
    <3> TAKE k \in DOMAIN w.q
    <3> HAVE k < i + 1
    <3>1. CASE k = i
      BY <1>1, <2>2, <3>1
    <3>2. CASE k < i
      <4>1. w.q[k].end <= w.start
        BY <3>2 DEF Walking
      <4> QED
        BY <1>1, <2>2, <4>1
    <3> QED
      BY <1>1, <2>2, <3>1, <3>2
  <2>4. \A k \in DOMAIN w.q : k >= i + 1 => w.q[k].end > w.q[i].end
    <3> TAKE k \in DOMAIN w.q
    <3> HAVE k >= i + 1
    <3>1. w.q[i].end <= w.q[k].start /\ w.q[k].start < w.q[k].end
      BY <1>1, <2>2 DEF Walking, Tidy, Apart
    <3> QED
      BY <1>1, <2>2, <3>1
  <2>5. \A x \in Int : \A t : Has(w.q, x, t) <=>
          \/ Has(q, x, t)
          \/ start <= x /\ x < w.q[i].end /\ x < end /\ t = ns /\ \A u : ~Has(q, x, u)
    <3> TAKE x \in Int
    <3> TAKE t
    <3>1. Has(w.q, x, t) <=>
            \/ Has(q, x, t)
            \/ start <= x /\ x < w.start /\ x < end /\ t = ns /\ \A u : ~Has(q, x, u)
      BY DEF Walking
    <3>2. ASSUME w.start <= x, x < w.q[i].end PROVE Has(q, x, w.q[i].time)
      <4>1. Has(w.q, x, w.q[i].time)
        <5>1. w.q[i].start <= x
          BY <1>1, <1>3, <2>2, <3>2
        <5> QED
          BY <2>2, <3>2, <5>1 DEF Has
      <4>2. ~(x < w.start)
        BY <1>1, <3>2
      <4> QED
        BY <4>1, <4>2 DEF Walking
    <3>3. x < w.start => x < w.q[i].end
      BY <1>1, <2>2
    <3> QED
      BY <1>1, <2>2, <3>1, <3>2, <3>3
  <2>6. Walking(v, q, start, end, ns)
    <3>1. start <= w.q[i].end
      BY <1>1, <2>2 DEF Walking
    <3>2. i + 1 \in 1..(Len(w.q) + 1)
      BY <1>1, <2>2
    <3> QED
      BY <2>1, <2>3, <2>4, <2>5, <3>1, <3>2 DEF Walking
  <2>7. ~(w.start >= end) /\ v.start > w.start
    BY <1>1, <1>3, <2>1, <2>2
  <2> QED
    BY <2>6, <2>7 DEF v
<1>4. CASE w.start < end /\ ~(w.i <= Len(w.q) /\ w.q[w.i].start <= w.start)
  <2> DEFINE v == Turn(w, end, ns)
             i == w.i
             stop == IF w.i > Len(w.q) \/ end <= w.q[w.i].start THEN end ELSE w.q[w.i].start
             r == InsertAt(w.q, w.i, Piece(w.start, stop, ns))
  <2>1. v = [q |-> r, i |-> i + 1, start |-> stop]
    BY <1>1, <1>4 DEF Turn
  <2>2. i \in 1..(Len(w.q) + 1) /\ (i <= Len(w.q) => i \in DOMAIN w.q)
    BY <1>1 DEF Walking
  <2>3. stop \in Int /\ w.start < stop /\ stop <= end
    BY <1>1, <1>4, <2>2
  <2>4. \A k \in DOMAIN w.q : k >= i => stop <= w.q[k].start
    <3> TAKE k \in DOMAIN w.q
    <3> HAVE k >= i
    <3>1. i \in DOMAIN w.q /\ stop <= w.q[i].start
      BY <1>1, <1>4, <2>2
    <3>2. k # i => w.q[i].end <= w.q[k].start /\ w.q[i].start < w.q[i].end
      BY <1>1, <3>1 DEF Walking, Tidy, Apart
    <3> QED
      BY <1>1, <2>3, <3>1, <3>2
  <2>5. \A k \in DOMAIN w.q : k < i => w.q[k].end <= w.start
    BY DEF Walking
  <2>6. Tidy(w.q)
    BY DEF Walking
  <2> HIDE DEF v, stop
  <2>7. /\ Tidy(r) /\ Len(r) = Len(w.q) + 1
        /\ \A k \in 1..i : r[k].end <= stop
        /\ \A k \in (i + 1)..Len(r) : r[k].end > stop
        /\ \A x, t : Has(r, x, t) <=> \/ Has(w.q, x, t)
                                      \/ w.start <= x /\ x < stop /\ t = ns
    <3>1. r = InsertAt(w.q, i, Piece(w.start, stop, ns))
      OBVIOUS
    <3> HIDE DEF r
    <3>2. w.start \in Int
      BY <1>1
    <3>3. i \in 1..(Len(w.q) + 1) /\ stop \in Int /\ w.start < stop
      BY <2>2, <2>3
    <3> DEFINE p == w.q
               a == w.start
    <3>4. Tidy(p) /\ i \in 1..(Len(p) + 1) /\ a \in Int /\ stop \in Int /\ a < stop
      BY <2>6, <3>2, <3>3
    <3>5. /\ \A k \in DOMAIN p : k >= i => stop <= p[k].start
          /\ \A k \in DOMAIN p : k < i => p[k].end <= a
          /\ r = InsertAt(p, i, Piece(a, stop, ns))
      BY <2>4, <2>5, <3>1
    <3> HIDE DEF i, p, a
    <3>6. /\ Tidy(r) /\ Len(r) = Len(p) + 1
          /\ \A k \in 1..i : r[k].end <= stop
          /\ \A k \in (i + 1)..Len(r) : r[k].end > stop
          /\ \A x, t : Has(r, x, t) <=> Has(p, x, t) \/ (a <= x /\ x < stop /\ t = ns)
      BY <3>4, <3>5, InsertPiece
    <3> QED
      BY <3>6 DEF p, a
  <2> HIDE DEF r
  <2>8. r \in Seq(PieceType) /\ DOMAIN r = 1..(Len(w.q) + 1)
    BY <1>1, <2>7, PieceFacts DEF Tidy
  <2>9. /\ v \in [q : Seq(PieceType), i : Nat, start : Int]
        /\ v.q = r /\ v.i = i + 1 /\ v.start = stop
    BY <1>1, <2>1, <2>3, <2>8
  <2>10. \A x \in Int : \A t : Has(r, x, t) <=>
          \/ Has(q, x, t)
          \/ start <= x /\ x < stop /\ x < end /\ t = ns /\ \A u : ~Has(q, x, u)
    <3> TAKE x \in Int
    <3> TAKE t
    <3>1. \A u : Has(w.q, x, u) <=>
            \/ Has(q, x, u)
            \/ start <= x /\ x < w.start /\ x < end /\ u = ns /\ \A u2 : ~Has(q, x, u2)
      BY DEF Walking
    <3>2. Has(r, x, t) <=> \/ Has(w.q, x, t)
                           \/ w.start <= x /\ x < stop /\ t = ns
      BY <2>7
    <3>3. x < w.start => x < stop
      BY <1>1, <2>3
    <3>4. ASSUME w.start <= x, x < stop PROVE \A u : ~Has(q, x, u)
      <4>1. \A u : ~Has(w.q, x, u)
        <5> SUFFICES ASSUME NEW k \in DOMAIN w.q, w.q[k].start <= x, x < w.q[k].end
                     PROVE  FALSE
          BY DEF Has
        <5>1. CASE k >= i
          BY <1>1, <2>3, <2>4, <3>4, <5>1
        <5>2. CASE k < i
          BY <1>1, <2>5, <3>4, <5>2
        <5> QED
          BY <1>1, <5>1, <5>2
      <4> QED
        BY <3>1, <4>1
    <3>5. w.start <= x => start <= x
      BY <1>1 DEF Walking
    <3>6. x < stop => x < end
      BY <2>3
    <3>7. x < w.start \/ w.start <= x
      BY <1>1
    <3> QED
      BY <3>1, <3>2, <3>3, <3>4, <3>5, <3>6, <3>7
  <2>11. Walking(v, q, start, end, ns)
    <3>1. start <= stop
      BY <1>1, <2>3 DEF Walking
    <3>2. i + 1 \in 1..(Len(r) + 1)
      BY <1>1, <2>2, <2>7
    <3>3. \A k \in DOMAIN r : k < i + 1 => r[k].end <= stop
      BY <1>1, <2>2, <2>7, <2>8
    <3>4. \A k \in DOMAIN r : k >= i + 1 => r[k].end > stop
      BY <1>1, <2>2, <2>7, <2>8
    <3> QED
      BY <2>7, <2>9, <2>10, <3>1, <3>2, <3>3, <3>4 DEF Walking
  <2>12. ~(w.start >= end) /\ v.start > w.start
    BY <1>1, <1>4, <2>3, <2>9
  <2> QED
    BY <2>11, <2>12 DEF v
<1> QED
  BY <1>1, <1>2, <1>3, <1>4

\* The walk leaves the times there were and gives the packet's time to the
\* packet's other bytes.
LEMMA FilledFacts ==
  ASSUME NEW q, Tidy(q), NEW start \in Int, NEW end \in Int, NEW ns \in Nat, start < end,
         NEW i \in 1..(Len(q) + 1),
         \A k \in DOMAIN q : k < i => q[k].end <= start,
         \A k \in DOMAIN q : k >= i => q[k].end > start,
         NEW r, r = Filled(q, i, start, end, ns)
  PROVE  /\ Tidy(r)
         /\ \A x \in Int : \A t : Has(r, x, t) <=>
              \/ Has(q, x, t)
              \/ start <= x /\ x < end /\ t = ns /\ \A u : ~Has(q, x, u)
<1> DEFINE w0 == [q |-> q, i |-> i, start |-> start]
           n == end - start
           Walks(f, m) == f = [k \in 0..m |-> IF k = 0 THEN w0 ELSE Turn(f[k - 1], end, ns)]
           f == CHOOSE g : Walks(g, n)
<1>1. n \in Nat /\ n > 0
  OBVIOUS
<1>2. r = f[n].q
  BY DEF Filled
<1> HIDE DEF w0
<1>3. \E g : Walks(g, n)
  <2> DEFINE S == {m \in Nat : \E g : Walks(g, m)}
  <2>1. 0 \in S
    <3>1. Walks([k \in 0..0 |-> w0], 0)
      OBVIOUS
    <3> HIDE DEF Walks
    <3> QED
      BY <3>1
  <2>2. ASSUME NEW m \in Nat, m \in S PROVE m + 1 \in S
    <3>1. PICK g : Walks(g, m)
      BY <2>2
    <3> DEFINE h == [k \in 0..(m + 1) |-> IF k <= m THEN g[k] ELSE Turn(g[m], end, ns)]
    <3>2. \A k \in 0..(m + 1) : h[k] = IF k = 0 THEN w0 ELSE Turn(h[k - 1], end, ns)
      <4> TAKE k \in 0..(m + 1)
      <4>1. CASE k = 0
        BY <3>1, <4>1
      <4>2. CASE k # 0 /\ k <= m
        <5>1. k - 1 \in 0..(m + 1) /\ k - 1 <= m /\ k \in 0..m
          BY <4>2
        <5>2. h[k] = g[k] /\ h[k - 1] = g[k - 1]
          BY <4>2, <5>1
        <5>3. g[k] = Turn(g[k - 1], end, ns)
          BY <3>1, <4>2, <5>1
        <5> HIDE DEF h
        <5> QED
          BY <4>2, <5>2, <5>3
      <4>3. CASE k = m + 1
        <5>1. k # 0 /\ ~(k <= m) /\ k - 1 = m /\ m \in 0..(m + 1) /\ m <= m
          BY <4>3
        <5>2. h[k] = Turn(g[m], end, ns) /\ h[m] = g[m]
          BY <5>1
        <5> HIDE DEF h
        <5> QED
          BY <5>1, <5>2
      <4> QED
        BY <4>1, <4>2, <4>3
    <3>3. Walks(h, m + 1)
      <4>1. h = [k \in 0..(m + 1) |-> h[k]]
        OBVIOUS
      <4> HIDE DEF h
      <4> QED
        BY <3>2, <4>1
    <3> HIDE DEF Walks, h
    <3> QED
      BY <3>3
  <2> HIDE DEF S
  <2>3. n \in S
    BY <1>1, <2>1, <2>2, Induction
  <2> QED
    BY <2>3 DEF S
<1>4. Walks(f, n)
  <2> HIDE DEF Walks
  <2> QED
    BY <1>3
<1>5. f[0] = w0 /\ \A k \in 1..n : f[k] = Turn(f[k - 1], end, ns)
  <2> HIDE DEF f, n
  <2> QED
    BY <1>1, <1>4
<1> HIDE DEF f, Walks
<1>6. Walking(f[0], q, start, end, ns) /\ f[0].start = start
  <2>1. q \in Seq(PieceType) /\ i \in Nat
    BY DEF Tidy
  <2>2. /\ w0 \in [q : Seq(PieceType), i : Nat, start : Int]
        /\ w0.q = q /\ w0.i = i /\ w0.start = start
    BY <2>1 DEF w0
  <2> QED
    BY <1>5, <2>2 DEF Walking
<1> DEFINE T == {k \in Nat : k <= n => /\ Walking(f[k], q, start, end, ns)
                                       /\ f[k].start >= end \/ f[k].start >= start + k}
<1>7. 0 \in T
  BY <1>6
<1>8. ASSUME NEW k \in Nat, k \in T PROVE k + 1 \in T
  <2> SUFFICES ASSUME k + 1 <= n
               PROVE  /\ Walking(f[k + 1], q, start, end, ns)
                      /\ f[k + 1].start >= end \/ f[k + 1].start >= start + (k + 1)
    BY <1>1
  <2>1. k + 1 \in 1..n /\ (k + 1) - 1 = k /\ k <= n
    BY <1>1
  <2>2. f[k + 1] = Turn(f[k], end, ns)
    BY <1>5, <2>1
  <2>3. Walking(f[k], q, start, end, ns) /\ (f[k].start >= end \/ f[k].start >= start + k)
    BY <1>8, <2>1
  <2>4. /\ Walking(f[k + 1], q, start, end, ns)
        /\ f[k].start >= end => f[k + 1] = f[k]
        /\ f[k].start < end => f[k + 1].start > f[k].start
    BY <2>2, <2>3, TurnKeeps
  <2>5. f[k].start \in Int /\ f[k + 1].start \in Int
    BY <2>3, <2>4 DEF Walking
  <2> QED
    BY <2>3, <2>4, <2>5
<1> HIDE DEF T
<1>9. n \in T
  BY <1>1, <1>7, <1>8, Induction
<1>10. Walking(f[n], q, start, end, ns) /\ f[n].start >= end
  <2>1. /\ Walking(f[n], q, start, end, ns)
        /\ f[n].start >= end \/ f[n].start >= start + n
    BY <1>1, <1>9 DEF T
  <2> QED
    BY <2>1
<1>11. \A x \in Int : x < end => x < f[n].start
  <2>1. f[n].start \in Int
    BY <1>10 DEF Walking
  <2> QED
    BY <1>10, <2>1
<1> QED
  BY <1>2, <1>10, <1>11 DEF Walking

\* add as a whole.
LEMMA PutFacts ==
  ASSUME NEW q, Tidy(q), NEW start \in Int, NEW end \in Int, NEW ns \in Nat, start < end,
         NEW r, r = Put(q, ns, start, end)
  PROVE  /\ Tidy(r)
         /\ \A x \in Int : \A t : Has(r, x, t) <=>
              \/ Has(q, x, t)
              \/ start <= x /\ x < end /\ t = ns /\ \A u : ~Has(q, x, u)
<1>1. /\ DOMAIN q = 1..Len(q) /\ Len(q) \in Nat /\ q \in Seq(PieceType)
      /\ \A k \in DOMAIN q : q[k].start \in Int /\ q[k].end \in Int
  BY PieceFacts DEF Tidy
<1>2. CASE q = <<>> \/ start >= Last(q).end
  <2> DEFINE e == Piece(start, end, ns)
  <2>1. r = Append(q, e)
    BY <1>2 DEF Put
  <2>2. e \in PieceType /\ e.start = start /\ e.end = end /\ e.time = ns
    BY DEF Piece, PieceType
  <2> HIDE DEF e
  <2>3. \A k \in DOMAIN q : q[k].end <= start
    <3> TAKE k \in DOMAIN q
    <3>1. Len(q) \in DOMAIN q /\ start >= q[Len(q)].end
      BY <1>1, <1>2 DEF Last
    <3>2. k # Len(q) => q[k].end <= q[Len(q)].start /\ q[Len(q)].start < q[Len(q)].end
      BY <1>1, <3>1 DEF Tidy, Apart
    <3> QED
      BY <1>1, <3>1, <3>2
  <2>4. /\ r \in Seq(PieceType) /\ Len(r) = Len(q) + 1 /\ DOMAIN r = 1..(Len(q) + 1)
        /\ r[Len(q) + 1] = e
        /\ \A k \in 1..Len(q) : r[k] = q[k]
    BY <1>1, <2>1, <2>2, AppendProperties
  <2>5. \A k \in DOMAIN r : k \in DOMAIN q \/ k = Len(q) + 1
    BY <1>1, <2>4
  <2>6. Tidy(r)
    <3>1. \A k \in DOMAIN r : r[k].start < r[k].end
      BY <1>1, <2>2, <2>4, <2>5 DEF Tidy, Apart
    <3>2. \A j, k \in DOMAIN r : j < k => r[j].end <= r[k].start
      <4> TAKE j, k \in DOMAIN r
      <4> HAVE j < k
      <4>1. j \in DOMAIN q /\ r[j] = q[j]
        BY <1>1, <2>4
      <4>2. CASE k = Len(q) + 1
        BY <2>2, <2>3, <2>4, <4>1, <4>2
      <4>3. CASE k \in DOMAIN q
        BY <1>1, <2>4, <4>1, <4>3 DEF Tidy, Apart
      <4> QED
        BY <2>5, <4>2, <4>3
    <3> QED
      BY <2>4, <3>1, <3>2 DEF Tidy, Apart
  <2>7. ASSUME NEW x \in Int, NEW t
        PROVE  Has(r, x, t) <=> Has(q, x, t) \/ (start <= x /\ x < end /\ t = ns)
    <3>1. Has(r, x, t) => Has(q, x, t) \/ (start <= x /\ x < end /\ t = ns)
      BY <1>1, <2>2, <2>4, <2>5 DEF Has
    <3>2. Has(q, x, t) => Has(r, x, t)
      BY <1>1, <2>4 DEF Has
    <3>3. start <= x /\ x < end /\ t = ns => Has(r, x, t)
      <4>1. Len(q) + 1 \in DOMAIN r
        BY <1>1, <2>4
      <4> QED
        BY <2>2, <2>4, <4>1 DEF Has
    <3> QED
      BY <3>1, <3>2, <3>3
  <2>8. ASSUME NEW x \in Int, start <= x PROVE \A u : ~Has(q, x, u)
    BY <1>1, <2>3, <2>8 DEF Has
  <2> QED
    BY <2>6, <2>7, <2>8
<1>3. CASE ~(q = <<>> \/ start >= Last(q).end)
  <2> DEFINE ends == [k \in DOMAIN q |-> q[k].end]
             i == After(ends, start)
  <2>1. r = Filled(q, i, start, end, ns)
    BY <1>3 DEF Put
  <2>2. i \in 1..(Len(q) + 1) /\ \A k \in 1..Len(q) : k < i <=> ends[k] <= start
    <3>1. Ascending(ends, Len(q))
      BY StartsAscend
    <3> HIDE DEF ends
    <3> QED
      BY <1>1, <3>1, AfterFacts
  <2>3. \A k \in DOMAIN q : ends[k] = q[k].end
    OBVIOUS
  <2> HIDE DEF i, ends
  <2>4. \A k \in DOMAIN q : k < i => q[k].end <= start
    BY <1>1, <2>2, <2>3
  <2>5. \A k \in DOMAIN q : k >= i => q[k].end > start
    BY <1>1, <2>2, <2>3
  <2> QED
    BY <2>1, <2>2, <2>4, <2>5, FilledFacts
<1> QED
  BY <1>2, <1>3

-----------------------------------------------------------------------------
(***************************************************************************)
(* The inductive invariant.                                                *)
(***************************************************************************)

\* A byte went by first with the t-th packet.
FirstAt(byte, t) ==
  /\ t \in DOMAIN capture /\ Carries(capture[t], byte)
  /\ \A j \in DOMAIN capture : j < t => ~Carries(capture[j], byte)

\* The place of every packet is counted from Origin.
BaseOK ==
  /\ capture \in Seq(Packet) /\ isn \in FirstSeqs
  /\ IF capture = <<>> THEN base \in {None, isn}
     ELSE Origin \in 0..(Bytes - 1) /\ base = (isn + Origin) % Space

\* The pieces hold each byte's first time and no other.
PiecesOK ==
  /\ Tidy(pieces)
  /\ \A x \in Int : \A t : Has(pieces, x, t) <=> FirstAt(x + Origin, t)

ResentOK ==
  resent = {k \in DOMAIN capture : \E j \in 1..(k - 1), byte \in 0..(Bytes - 1) :
              Carries(capture[k], byte) /\ Carries(capture[j], byte)}

LeftInv == BaseOK /\ PiecesOK /\ ResentOK

RunType  == [end : Int, time : Nat]
HeldType == [start : Int, time : Nat, chunk : Seq(Int)]
StreamType == [data : Seq(Int), runs : Seq(RunType), pending : SUBSET HeldType]

\* The place x of a stream with these runs can be read at t.
ReadAt(rs, x, t) ==
  \E k \in DOMAIN rs :
    x < rs[k].end /\ rs[k].time = t /\ \A j \in DOMAIN rs : j < k => rs[j].end <= x

\* The runs divide the data up.
RunsOK(rs, d) ==
  /\ \A j, k \in DOMAIN rs : j < k => rs[j].end < rs[k].end
  /\ IF rs = <<>> THEN d = 0 ELSE rs[Len(rs)].end = d

\* A chunk holds the stream's own bytes from its start on.
OwnBytes(chunk, start, origin) ==
  \A i \in DOMAIN chunk : chunk[i] = origin + start + i - 1

Now == [data |-> data, runs |-> runs, pending |-> pending]

StreamOK ==
  /\ Now \in StreamType /\ IsFiniteSet(pending)
  /\ RunsOK(runs, Len(data))
  /\ OwnBytes(data, 0, Origin)

\* What is held back begins beyond a gap, and is a packet of the capture.
HeldOK ==
  \A h \in pending :
    /\ h.start > Len(data)
    /\ h.time \in DOMAIN capture
    /\ capture[h.time].first = Origin + h.start
    /\ h.chunk = Payload(capture[h.time])

\* When a byte can be read, it and every byte before it have gone by; and if
\* nothing was hidden, one of them went by just then.
TimesOK ==
  \A x \in 0..(Len(data) - 1) : \A t :
    ReadAt(runs, x, t) =>
      /\ t \in DOMAIN capture
      /\ \A y \in 0..x : \E k \in 1..t : Carries(capture[k], y + Origin)
      /\ ~shadowed => \E y \in 0..x : FirstAt(y + Origin, t)

\* If nothing was hidden, every packet with bytes beyond the data is held back,
\* itself or one as long with its start.
KeptOK ==
  ~shadowed =>
    \A k \in DOMAIN capture :
      capture[k].last - Origin >= Len(data) =>
        \E h \in pending :
          h.start = capture[k].first - Origin /\ Len(h.chunk) >= Len(Payload(capture[k]))

ReadInv == StreamOK /\ HeldOK /\ TimesOK /\ KeptOK /\ shadowed \in BOOLEAN

-----------------------------------------------------------------------------
(***************************************************************************)
(* The place of a packet.                                                  *)
(***************************************************************************)

LEMMA ConstantFacts ==
  /\ Bytes \in Nat /\ Space \in Nat /\ Space > 0 /\ 2 * Bytes <= Space
  /\ \A n \in FirstSeqs : n \in 0..(Space - 1)
  BY WireAssumption

LEMMA ModFacts ==
  ASSUME NEW a \in Int, NEW c \in 0..(Space - 1), NEW d \in Int, a = Space * d + c
  PROVE  a % Space = c
<1> DEFINE e == a \div Space
           m == a % Space
<1>1. Space \in Nat /\ Space > 0
  BY ConstantFacts
<1>2. e \in Int /\ m \in 0..(Space - 1) /\ a = Space * e + m
  BY <1>1
<1> HIDE DEF e, m
<1>3. ~(e > d)
  <2> SUFFICES ASSUME e > d PROVE FALSE
    OBVIOUS
  <2>1. Space * e >= Space * (d + 1) /\ Space * (d + 1) = Space * d + Space
    BY <1>1, <1>2
  <2> QED
    BY <1>1, <1>2, <2>1
<1>4. ~(e < d)
  <2> SUFFICES ASSUME e < d PROVE FALSE
    OBVIOUS
  <2>1. Space * d >= Space * (e + 1) /\ Space * (e + 1) = Space * e + Space
    BY <1>1, <1>2
  <2> QED
    BY <1>1, <1>2, <2>1
<1>5. e = d
  BY <1>2, <1>3, <1>4
<1> QED
  BY <1>1, <1>2, <1>5 DEF m

\* offset finds a packet's place again, wrap-around included.
LEMMA OffsetFacts ==
  ASSUME NEW n \in 0..(Space - 1), NEW first \in 0..(Bytes - 1), NEW origin \in 0..(Bytes - 1)
  PROVE  Offset((n + first) % Space, (n + origin) % Space) = first - origin
<1> DEFINE a == (n + first) % Space
           b == (n + origin) % Space
           rel == (a - b) % Space
<1>1. Bytes \in Nat /\ Space \in Nat /\ Space > 0 /\ 2 * Bytes <= Space
  BY ConstantFacts
<1>2. \A k \in 0..(Bytes - 1) :
        \/ (n + k) % Space = n + k
        \/ (n + k) % Space = n + k - Space
  <2> TAKE k \in 0..(Bytes - 1)
  <2>1. CASE n + k < Space
    <3>1. n + k = Space * 0 + (n + k) /\ n + k \in 0..(Space - 1)
      BY <1>1, <2>1
    <3> QED
      BY <3>1, ModFacts
  <2>2. CASE n + k >= Space
    <3>1. n + k = Space * 1 + (n + k - Space) /\ n + k - Space \in 0..(Space - 1) /\ n + k \in Int
      BY <1>1, <2>2
    <3> QED
      BY <3>1, ModFacts
  <2> QED
    BY <1>1, <2>1, <2>2
<1>3. /\ a = n + first \/ a = n + first - Space
      /\ b = n + origin \/ b = n + origin - Space
      /\ a \in Int /\ b \in Int
  BY <1>1, <1>2
<1> HIDE DEF a, b
<1>4. CASE first >= origin
  <2>1. first - origin \in 0..(Space - 1) /\ a - b \in Int
    BY <1>1, <1>3, <1>4
  <2>2. \E d \in Int : a - b = Space * d + (first - origin)
    <3>1. \/ a - b = Space * 0 + (first - origin)
          \/ a - b = Space * 1 + (first - origin)
          \/ a - b = Space * (-1) + (first - origin)
      BY <1>1, <1>3
    <3> QED
      BY <3>1
  <2>3. rel = first - origin
    BY <2>1, <2>2, ModFacts
  <2> QED
    BY <1>1, <1>4, <2>3 DEF Offset, a, b
<1>5. CASE first < origin
  <2>1. first - origin + Space \in 0..(Space - 1) /\ a - b \in Int
    BY <1>1, <1>3, <1>5
  <2>2. \E d \in Int : a - b = Space * d + (first - origin + Space)
    <3>1. \/ a - b = Space * (-1) + (first - origin + Space)
          \/ a - b = Space * 0 + (first - origin + Space)
          \/ a - b = Space * (-2) + (first - origin + Space)
      BY <1>1, <1>3
    <3> QED
      BY <3>1
  <2>3. rel = first - origin + Space
    BY <2>1, <2>2, ModFacts
  <2> HIDE DEF rel
  <2>4. 2 * rel >= Space /\ rel - Space = first - origin
    BY <1>1, <1>5, <2>3
  <2> QED
    BY <2>4 DEF Offset, a, b, rel
<1> QED
  BY <1>4, <1>5

LEMMA PacketFacts ==
  ASSUME NEW p \in Packet
  PROVE  /\ p.first \in 0..(Bytes - 1) /\ p.last \in 0..(Bytes - 1) /\ p.first <= p.last
         /\ Payload(p) \in Seq(Int) /\ Len(Payload(p)) = p.last - p.first + 1
         /\ DOMAIN Payload(p) = 1..(p.last - p.first + 1)
         /\ \A i \in DOMAIN Payload(p) : Payload(p)[i] = p.first + i - 1
<1>1. p.first \in 0..(Bytes - 1) /\ p.last \in 0..(Bytes - 1) /\ p.first <= p.last
  BY DEF Packet
<1> DEFINE n == p.last - p.first + 1
<1>2. n \in Nat /\ Payload(p) = [i \in 1..n |-> p.first + i - 1]
  BY <1>1, ConstantFacts DEF Payload
<1> HIDE DEF n
<1>3. \A i \in 1..n : p.first + i - 1 \in Int
  BY <1>1, <1>2, ConstantFacts
<1>4. Payload(p) \in Seq(Int) /\ Len(Payload(p)) = n
  BY <1>2, <1>3
<1> QED
  BY <1>1, <1>2, <1>4 DEF n

\* What the capture of a packet does to the origin, and where the packet begins.
LEMMA CaptureFacts ==
  ASSUME BaseOK, NEW p \in Packet, Capture(p)
  PROVE  /\ BaseOK'
         /\ capture' = Append(capture, p)
         /\ DOMAIN capture' = 1..(Len(capture) + 1) /\ Len(capture) \in Nat
         /\ capture'[Len(capture) + 1] = p
         /\ \A k \in DOMAIN capture : capture'[k] = capture[k]
         /\ Origin' \in 0..(Bytes - 1)
         /\ capture # <<>> => Origin' = Origin
         /\ Offset(SeqNumber(p), IF base = None THEN SeqNumber(p) ELSE base) = p.first - Origin'
<1>1. /\ capture' = Append(capture, p) /\ isn' = isn
      /\ base' = IF base = None THEN SeqNumber(p) ELSE base
  BY DEF Capture
<1>2. /\ capture \in Seq(Packet) /\ Len(capture) \in Nat /\ DOMAIN capture = 1..Len(capture)
      /\ isn \in FirstSeqs /\ isn \in 0..(Space - 1)
  BY ConstantFacts, LenProperties DEF BaseOK
<1>3. /\ capture' \in Seq(Packet) /\ Len(capture') = Len(capture) + 1
      /\ DOMAIN capture' = 1..(Len(capture) + 1)
      /\ capture'[Len(capture) + 1] = p
      /\ \A k \in DOMAIN capture : capture'[k] = capture[k]
  BY <1>1, <1>2, AppendProperties
<1>4. p.first \in 0..(Bytes - 1)
  BY PacketFacts
<1>5. (isn + 0) % Space = isn /\ 0 \in 0..(Bytes - 1)
  <2>1. isn + 0 = Space * 0 + isn
    BY <1>2, ConstantFacts
  <2> QED
    BY <1>2, <1>4, <2>1, ModFacts, ConstantFacts
<1>6. SeqNumber(p) = (isn + p.first) % Space /\ None = -1
  BY DEF SeqNumber, None
<1>7. capture' # <<>>
  BY <1>2, <1>3
<1>8. /\ Origin' \in 0..(Bytes - 1)
      /\ base' = (isn + Origin') % Space
      /\ capture # <<>> => Origin' = Origin
  <2>1. CASE capture # <<>>
    <3>1. base = (isn + Origin) % Space /\ Origin \in 0..(Bytes - 1)
      BY <2>1 DEF BaseOK
    <3>2. base # None
      <4>1. isn + Origin \in Int
        BY <1>2, <3>1, ConstantFacts
      <4>2. (isn + Origin) % Space \in 0..(Space - 1)
        BY <4>1, ConstantFacts
      <4> QED
        BY <1>6, <3>1, <4>2, ConstantFacts
    <3>3. 1 \in DOMAIN capture
      BY <1>2, <2>1
    <3>4. Origin' = Origin
      BY <1>1, <1>3, <3>2, <3>3 DEF Origin
    <3> QED
      BY <1>1, <3>1, <3>2, <3>4
  <2>2. CASE capture = <<>> /\ base = isn
    <3>1. base # None
      BY <1>2, <1>6, <2>2, ConstantFacts
    <3>2. Origin' = 0
      BY <1>1, <2>2, <3>1 DEF Origin
    <3> QED
      BY <1>1, <1>5, <2>2, <3>1, <3>2
  <2>3. CASE capture = <<>> /\ base = None
    <3>1. base' = (isn + p.first) % Space /\ capture'[1] = p
      BY <1>1, <1>3, <1>6, <2>3
    <3>2. base' = isn => p.first = 0
      <4>1. Offset((isn + p.first) % Space, (isn + 0) % Space) = p.first - 0
        BY <1>2, <1>4, <1>5, OffsetFacts
      <4>2. Offset((isn + 0) % Space, (isn + 0) % Space) = 0 - 0
        BY <1>2, <1>5, OffsetFacts
      <4> QED
        BY <1>4, <1>5, <3>1, <4>1, <4>2
    <3>3. Origin' = p.first
      BY <1>1, <3>1, <3>2 DEF Origin
    <3> QED
      BY <1>4, <2>3, <3>1, <3>3
  <2> QED
    BY <2>1, <2>2, <2>3 DEF BaseOK
<1>9. Offset(SeqNumber(p), IF base = None THEN SeqNumber(p) ELSE base) = p.first - Origin'
  BY <1>1, <1>2, <1>4, <1>6, <1>8, OffsetFacts
<1>10. BaseOK'
  BY <1>1, <1>2, <1>3, <1>7, <1>8 DEF BaseOK
<1> QED
  BY <1>1, <1>2, <1>3, <1>8, <1>9, <1>10

-----------------------------------------------------------------------------
(***************************************************************************)
(* The pieces and the packets counted as sent again.                       *)
(***************************************************************************)

\* A byte that some packet carried went by first with one of them.
LEMMA FirstExists ==
  ASSUME capture \in Seq(Packet), NEW byte, NEW j \in DOMAIN capture, Carries(capture[j], byte)
  PROVE  \E t \in DOMAIN capture : FirstAt(byte, t) /\ t <= j
<1> DEFINE S == {k \in DOMAIN capture : Carries(capture[k], byte)}
<1>1. S \subseteq Nat /\ j \in S
  BY LenProperties
<1> HIDE DEF S
<1>2. PICK t \in S : \A k \in S : t <= k
  BY <1>1, LeastMember
<1>3. t \in DOMAIN capture /\ t \in Nat /\ Carries(capture[t], byte) /\ t <= j
  BY <1>1, <1>2 DEF S
<1>4. \A k \in DOMAIN capture : k < t => ~Carries(capture[k], byte)
  BY <1>1, <1>2, <1>3 DEF S
<1> QED
  BY <1>3, <1>4 DEF FirstAt

\* FirstCarrying is that packet.
LEMMA FirstCarryingFacts ==
  ASSUME capture \in Seq(Packet), NEW byte
  PROVE  /\ FirstCarrying(byte) # None => FirstAt(byte, FirstCarrying(byte))
         /\ FirstCarrying(byte) = None => \A t : ~FirstAt(byte, t)
         /\ \A t : FirstAt(byte, t) => t = FirstCarrying(byte)
<1> DEFINE S == {k \in DOMAIN capture : Carries(capture[k], byte)}
<1>1. S \subseteq Nat /\ DOMAIN capture = 1..Len(capture)
  BY LenProperties
<1>2. FirstCarrying(byte) = IF S = {} THEN None ELSE Min(S)
  BY DEF FirstCarrying
<1>3. \A t : FirstAt(byte, t) => t \in S
  BY DEF FirstAt
<1>4. CASE S = {}
  BY <1>2, <1>3, <1>4
<1>5. CASE S # {}
  <2>1. Min(S) \in S /\ \A k \in S : Min(S) <= k
    <3> HIDE DEF S
    <3>1. \E t \in S : \A k \in S : t <= k
      BY <1>1, <1>5, LeastMember
    <3> QED
      BY <3>1, Zenon DEF Min
  <2>2. FirstCarrying(byte) = Min(S)
    BY <1>2, <1>5
  <2> DEFINE t == Min(S)
  <2>3. t \in S /\ \A k \in S : t <= k
    BY <2>1
  <2> HIDE DEF t
  <2>4. FirstAt(byte, t)
    BY <1>1, <2>3 DEF FirstAt
  <2>5. \A u : FirstAt(byte, u) => u = t
    <3> TAKE u
    <3> HAVE FirstAt(byte, u)
    <3>1. u \in S /\ t \in Nat /\ u \in Nat /\ t <= u
      BY <1>1, <1>3, <2>3
    <3>2. ~(t < u)
      BY <2>3 DEF FirstAt
    <3> QED
      BY <3>1, <3>2
  <2>6. t # None
    BY <1>1, <2>3 DEF None
  <2> QED
    BY <2>2, <2>4, <2>5, <2>6 DEF t
<1> QED
  BY <1>4, <1>5

\* The packet just captured is the first with what no packet had carried.
LEMMA FirstAtNext ==
  ASSUME BaseOK, NEW p \in Packet, Capture(p), NEW byte, NEW t
  PROVE  FirstAt(byte, t)' <=> \/ FirstAt(byte, t)
                               \/ /\ t = Len(capture) + 1 /\ Carries(p, byte)
                                  /\ \A u : ~FirstAt(byte, u)
<1> DEFINE n == Len(capture)
<1>1. /\ DOMAIN capture' = 1..(n + 1) /\ n \in Nat
      /\ capture'[n + 1] = p
      /\ \A k \in DOMAIN capture : capture'[k] = capture[k]
  BY CaptureFacts
<1>2. DOMAIN capture = 1..n /\ capture \in Seq(Packet)
  BY LenProperties DEF BaseOK
<1> HIDE DEF n
<1>3. ASSUME FirstAt(byte, t) PROVE FirstAt(byte, t)'
  <2>1. t \in DOMAIN capture /\ t \in DOMAIN capture' /\ Carries(capture'[t], byte)
    BY <1>1, <1>2, <1>3 DEF FirstAt
  <2>2. \A j \in DOMAIN capture' : j < t => ~Carries(capture'[j], byte)
    BY <1>1, <1>2, <1>3, <2>1 DEF FirstAt
  <2> QED
    BY <2>1, <2>2 DEF FirstAt, Carries
<1>4. ASSUME t = n + 1, Carries(p, byte), \A u : ~FirstAt(byte, u) PROVE FirstAt(byte, t)'
  <2>1. \A j \in DOMAIN capture : ~Carries(capture[j], byte)
    BY <1>2, <1>4, FirstExists
  <2>2. t \in DOMAIN capture' /\ Carries(capture'[t], byte)
    BY <1>1, <1>4
  <2>3. \A j \in DOMAIN capture' : j < t => ~Carries(capture'[j], byte)
    BY <1>1, <1>2, <1>4, <2>1
  <2> QED
    BY <2>2, <2>3 DEF FirstAt, Carries
<1>5. ASSUME FirstAt(byte, t)'
      PROVE  FirstAt(byte, t) \/ (t = n + 1 /\ Carries(p, byte) /\ \A u : ~FirstAt(byte, u))
  <2>1. /\ t \in DOMAIN capture' /\ Carries(capture'[t], byte)
        /\ \A j \in DOMAIN capture' : j < t => ~Carries(capture'[j], byte)
    BY <1>5 DEF FirstAt, Carries
  <2>2. CASE t \in DOMAIN capture
    BY <1>1, <1>2, <2>1, <2>2 DEF FirstAt
  <2>3. CASE t = n + 1
    <3>1. \A j \in DOMAIN capture : ~Carries(capture[j], byte)
      BY <1>1, <1>2, <2>1, <2>3
    <3> QED
      BY <1>1, <2>1, <2>3, <3>1 DEF FirstAt
  <2> QED
    BY <1>1, <1>2, <2>1, <2>2, <2>3
<1> QED
  BY <1>3, <1>4, <1>5 DEF n

LEMMA LeftStep ==
  ASSUME LeftInv, NEW p \in Packet, Capture(p)
  PROVE  LeftInv'
<1>o. PICK o : o = Origin'
  OBVIOUS
<1> DEFINE start == p.first - o
           end == p.last - o + 1
           ns == Len(capture) + 1
<1>0. BaseOK /\ PiecesOK /\ ResentOK
  BY DEF LeftInv
<1>1. /\ BaseOK'
      /\ DOMAIN capture' = 1..(Len(capture) + 1) /\ Len(capture) \in Nat
      /\ capture'[Len(capture) + 1] = p
      /\ \A k \in DOMAIN capture : capture'[k] = capture[k]
      /\ o \in 0..(Bytes - 1)
      /\ capture # <<>> => o = Origin
      /\ Offset(SeqNumber(p), IF base = None THEN SeqNumber(p) ELSE base) = start
  BY <1>o, <1>0, CaptureFacts
<1>2. /\ p.first \in 0..(Bytes - 1) /\ p.last \in 0..(Bytes - 1) /\ p.first <= p.last
      /\ Len(Payload(p)) = p.last - p.first + 1
  BY PacketFacts
<1>3. capture \in Seq(Packet) /\ DOMAIN capture = 1..Len(capture)
  BY <1>0, LenProperties DEF BaseOK
<1>4. start \in Int /\ end \in Int /\ start < end /\ start + Len(Payload(p)) = end /\ ns \in Nat
  <2>1. /\ p.first \in Int /\ p.last \in Int /\ o \in Int /\ p.first <= p.last
        /\ Len(Payload(p)) = p.last - p.first + 1
    BY <1>1, <1>2, ConstantFacts
  <2>2. start \in Int /\ end \in Int /\ start < end
    BY <2>1
  <2>3. start + (p.last - p.first + 1) = end
    BY <2>1
  <2> HIDE DEF start, end
  <2> QED
    BY <1>1, <2>1, <2>2, <2>3
<1>5. /\ pieces' = Put(pieces, ns, start, end)
      /\ resent' = IF Covers(pieces, start, end) THEN resent \union {ns} ELSE resent
  BY <1>1, <1>4 DEF Capture
<1> HIDE DEF start, end
<1>6. Tidy(pieces) /\ \A x \in Int : \A t : Has(pieces, x, t) <=> FirstAt(x + Origin, t)
  BY <1>0 DEF PiecesOK
<1>7. \A x \in Int : \A t : Has(pieces, x, t) <=> FirstAt(x + o, t)
  <2>1. CASE capture # <<>>
    BY <1>1, <1>6, <2>1
  <2>2. CASE capture = <<>>
    <3>1. \A b, t : ~FirstAt(b, t)
      BY <2>2 DEF FirstAt
    <3> QED
      BY <1>6, <3>1
  <2> QED
    BY <2>1, <2>2
<1>8. \A x \in Int : start <= x /\ x < end <=> Carries(p, x + o)
  BY <1>1, <1>2, ConstantFacts DEF Carries, start, end
<1>9. PiecesOK'
  <2> DEFINE r == pieces'
  <2>1. /\ Tidy(r)
        /\ \A x \in Int : \A t : Has(r, x, t) <=>
             \/ Has(pieces, x, t)
             \/ start <= x /\ x < end /\ t = ns /\ \A u : ~Has(pieces, x, u)
    BY <1>4, <1>5, <1>6, PutFacts
  <2> HIDE DEF r
  <2>2. \A x \in Int : \A t : Has(r, x, t) <=> FirstAt(x + o, t)'
    <3> TAKE x \in Int
    <3> TAKE t
    <3>1. PICK b : b = x + o
      OBVIOUS
    <3>2. FirstAt(b, t)' <=> \/ FirstAt(b, t)
                             \/ t = ns /\ Carries(p, b) /\ \A u : ~FirstAt(b, u)
      BY <1>0, FirstAtNext
    <3>3. Has(r, x, t) <=> FirstAt(b, t)'
      BY <1>7, <1>8, <2>1, <3>1, <3>2
    <3> QED
      BY <3>1, <3>3
  <2> QED
    BY <1>o, <2>1, <2>2 DEF PiecesOK, r
<1>10. ResentOK'
  <2> DEFINE Again(k) == \E j \in 1..(k - 1), byte \in 0..(Bytes - 1) :
                           Carries(capture[k], byte) /\ Carries(capture[j], byte)
             Again2(k) == \E j \in 1..(k - 1), byte \in 0..(Bytes - 1) :
                           Carries(capture'[k], byte) /\ Carries(capture'[j], byte)
  <2>1. \A k \in DOMAIN capture : Again2(k) <=> Again(k)
    BY <1>1, <1>3
  <2>2. Again2(ns) <=> Covers(pieces, start, end)
    <3>1. Covers(pieces, start, end) <=> \E x \in start..(end - 1), t \in Nat : Has(pieces, x, t)
      BY <1>4, <1>6, CoversFacts
    <3>2. ASSUME NEW x \in start..(end - 1), NEW t \in Nat, Has(pieces, x, t) PROVE Again2(ns)
      <4>1. x \in Int /\ Carries(p, x + o)
        BY <1>4, <1>8
      <4>2. t \in DOMAIN capture /\ Carries(capture[t], x + o)
        BY <1>7, <3>2, <4>1 DEF FirstAt
      <4>3. x + o \in 0..(Bytes - 1)
        BY <1>1, <1>2, <4>1, ConstantFacts DEF Carries
      <4> QED
        BY <1>1, <1>3, <4>1, <4>2, <4>3
    <3>3. ASSUME Again2(ns)
          PROVE  \E x \in start..(end - 1), t \in Nat : Has(pieces, x, t)
      <4>1. PICK j \in 1..(ns - 1), byte \in 0..(Bytes - 1) :
              Carries(capture'[ns], byte) /\ Carries(capture'[j], byte)
        BY <3>3
      <4>2. j \in DOMAIN capture /\ Carries(capture[j], byte) /\ Carries(p, byte)
        BY <1>1, <1>3, <4>1
      <4>3. PICK t \in DOMAIN capture : FirstAt(byte, t)
        BY <1>3, <4>2, FirstExists
      <4>4. byte - o \in Int /\ (byte - o) + o = byte /\ t \in Nat
        BY <1>1, <1>3, ConstantFacts
      <4>5. Has(pieces, byte - o, t)
        BY <1>7, <4>3, <4>4
      <4>6. byte - o \in start..(end - 1)
        BY <1>4, <1>8, <4>2, <4>4
      <4> QED
        BY <4>4, <4>5, <4>6
    <3> QED
      BY <3>1, <3>2, <3>3
  <2>3. resent = {k \in DOMAIN capture : Again(k)}
    BY <1>0 DEF ResentOK
  <2>4. DOMAIN capture' = DOMAIN capture \union {ns}
    BY <1>1, <1>3
  <2> HIDE DEF Again, Again2
  <2>5. resent' = {k \in DOMAIN capture' : Again2(k)}
    BY <1>5, <2>1, <2>2, <2>3, <2>4
  <2> QED
    BY <2>5 DEF ResentOK, Again2, Carries
<1> QED
  BY <1>1, <1>9, <1>10 DEF LeftInv

LEMMA LeftInit == Init => LeftInv
<1> SUFFICES ASSUME Init PROVE LeftInv
  OBVIOUS
<1>1. capture = <<>> /\ pieces = <<>> /\ resent = {} /\ base \in {None, isn} /\ isn \in FirstSeqs
  BY DEF Init
<1>2. <<>> \in Seq(Packet) /\ <<>> \in Seq(PieceType) /\ DOMAIN <<>> = {}
  OBVIOUS
<1>3. BaseOK
  BY <1>1, <1>2 DEF BaseOK
<1>4. PiecesOK
  BY <1>1, <1>2 DEF PiecesOK, Tidy, Apart, Has, FirstAt
<1>5. ResentOK
  BY <1>1, <1>2 DEF ResentOK
<1> QED
  BY <1>3, <1>4, <1>5 DEF LeftInv

\* The records stand still when the capture does.
LEMMA LeftStutter == LeftInv /\ UNCHANGED vars => LeftInv'
<1> SUFFICES ASSUME LeftInv, UNCHANGED vars PROVE LeftInv'
  OBVIOUS
<1>1. /\ isn' = isn /\ base' = base /\ pieces' = pieces
      /\ resent' = resent /\ capture' = capture
  BY DEF vars, stream
<1>2. Origin' = Origin
  BY <1>1 DEF Origin
<1>3. BaseOK'
  BY <1>1, <1>2 DEF LeftInv, BaseOK
<1>4. PiecesOK'
  BY <1>1, <1>2 DEF LeftInv, PiecesOK, FirstAt
<1>5. ResentOK'
  BY <1>1 DEF LeftInv, ResentOK
<1> QED
  BY <1>3, <1>4, <1>5 DEF LeftInv

LEMMA LeftInvariant == Spec => []LeftInv
<1>1. LeftInv /\ [Next]_vars => LeftInv'
  BY LeftStep, LeftStutter DEF Next, Over
<1> QED
  BY <1>1, LeftInit, PTL DEF Spec

LEMMA LeftInvGives == LeftInv => LeftIsFirst
<1> SUFFICES ASSUME LeftInv, capture # <<>> PROVE
      /\ \A byte \in 0..(Bytes - 1) : At(pieces, byte - Origin) = FirstCarrying(byte)
      /\ resent = {k \in DOMAIN capture : \E j \in 1..(k - 1), byte \in 0..(Bytes - 1) :
                     Carries(capture[k], byte) /\ Carries(capture[j], byte)}
  BY DEF LeftIsFirst
<1>1. /\ capture \in Seq(Packet) /\ Origin \in Int /\ Tidy(pieces)
      /\ \A x \in Int : \A t : Has(pieces, x, t) <=> FirstAt(x + Origin, t)
  BY ConstantFacts DEF LeftInv, BaseOK, PiecesOK
<1>2. ASSUME NEW byte \in 0..(Bytes - 1)
      PROVE  At(pieces, byte - Origin) = FirstCarrying(byte)
  <2> DEFINE x == byte - Origin
             t == At(pieces, x)
  <2>1. x \in Int /\ x + Origin = byte
    BY <1>1, ConstantFacts
  <2> HIDE DEF x
  <2>2. /\ t \in Nat => Has(pieces, x, t)
        /\ t = None => \A u : ~Has(pieces, x, u)
        /\ t \in Nat \union {None}
    BY <1>1, <2>1, AtFacts
  <2> HIDE DEF t
  <2>3. \A u : Has(pieces, x, u) <=> FirstAt(byte, u)
    BY <1>1, <2>1
  <2>4. t = FirstCarrying(byte)
    BY <1>1, <2>2, <2>3, FirstCarryingFacts
  <2> QED
    BY <2>4 DEF t, x
<1> QED
  BY <1>2 DEF LeftInv, ResentOK

\* Every byte is given the time of the first packet that carried it, whatever
\* went by again, in whatever order and however cut, and a packet is counted as
\* sent again when the capture had seen some of it (client_wire.Sent,
\* Conn.resent).
THEOREM LeftIsFirstAlways == Spec => []LeftIsFirst
  BY LeftInvariant, LeftInvGives, PTL

-----------------------------------------------------------------------------
(***************************************************************************)
(* Reassembly (recv_wait.Stream).                                          *)
(***************************************************************************)
LEMMA RunFacts ==
  ASSUME NEW rs \in Seq(RunType), NEW d \in Int, RunsOK(rs, d)
  PROVE  /\ DOMAIN rs = 1..Len(rs) /\ Len(rs) \in Nat
         /\ \A k \in DOMAIN rs : rs[k].end \in Int /\ rs[k].time \in Nat /\ rs[k].end <= d
<1>1. DOMAIN rs = 1..Len(rs) /\ Len(rs) \in Nat /\ \A k \in DOMAIN rs : rs[k] \in RunType
  BY LenProperties, ElementOfSeq
<1>2. \A k \in DOMAIN rs : rs[k].end \in Int /\ rs[k].time \in Nat
  BY <1>1 DEF RunType
<1>3. \A k \in DOMAIN rs : rs[k].end <= d
  <2> TAKE k \in DOMAIN rs
  <2>1. rs # <<>> /\ Len(rs) \in DOMAIN rs /\ rs[Len(rs)].end = d
    BY <1>1 DEF RunsOK
  <2>2. k = Len(rs) \/ rs[k].end < rs[Len(rs)].end
    BY <1>1, <2>1 DEF RunsOK
  <2> QED
    BY <1>2, <2>1, <2>2
<1> QED
  BY <1>1, <1>2, <1>3

\* b is what of a chunk from start on lies beyond d.
RestOf(b, start, chunk, d) ==
  /\ b \in Seq(Int) /\ Len(b) = start + Len(chunk) - d
  /\ \A i \in 1..Len(b) : d - start + i \in DOMAIN chunk /\ b[i] = chunk[d - start + i]

\* What of a chunk lies beyond the data.
LEMMA BeyondFacts ==
  ASSUME NEW s, s.data \in Seq(Int), NEW start \in Int, NEW chunk \in Seq(Int),
         start <= Len(s.data), Len(s.data) < start + Len(chunk)
  PROVE  RestOf(Beyond(s, start, chunk), start, chunk, Len(s.data))
<1> DEFINE b == Beyond(s, start, chunk)
           m == Len(s.data) - start + 1
           n == Len(chunk)
<1>1. /\ Len(s.data) \in Nat /\ n \in Nat /\ DOMAIN chunk = 1..n
      /\ \A i \in 1..n : chunk[i] \in Int
  BY LenProperties, ElementOfSeq
<1>2. b = SubSeq(chunk, m, n)
  BY DEF Beyond
<1>3. m \in 1..n /\ n - m + 1 = start + n - Len(s.data)
  BY <1>1
<1>4. \A i \in m..n : chunk[i] \in Int
  BY <1>1, <1>3
<1>5. m - 1 = Len(s.data) - start
  BY <1>1
<1> HIDE DEF b, m, n
<1>6. /\ b \in Seq(Int) /\ Len(b) = IF m <= n THEN n - m + 1 ELSE 0
      /\ \A i \in 1..(n - m + 1) : b[i] = chunk[m + i - 1]
  BY <1>1, <1>2, <1>3, <1>4, SubSeqProperties
<1>7. Len(b) = n - m + 1
  BY <1>3, <1>6
<1>8. \A i \in 1..(n - m + 1) : m + i - 1 = (m - 1) + i /\ m + i - 1 \in 1..n
  BY <1>1, <1>3
<1>9. RestOf(b, start, chunk, Len(s.data))
  BY <1>1, <1>3, <1>5, <1>6, <1>7, <1>8 DEF n, RestOf
<1> QED
  BY <1>9 DEF b

\* r is s with its data carried on to d, readable there from t.
CarriedOn(r, s, o, t, d) ==
  /\ r \in StreamType /\ r.pending = s.pending
  /\ Len(r.data) = d
  /\ RunsOK(r.runs, Len(r.data)) /\ OwnBytes(r.data, 0, o)
  /\ \A x \in Nat : \A u : ReadAt(r.runs, x, u) <=>
       \/ ReadAt(s.runs, x, u)
       \/ Len(s.data) <= x /\ x < Len(r.data) /\ u = t

\* What appending a chunk to the data does.
LEMMA AppendedFacts ==
  ASSUME NEW s \in StreamType, NEW o \in Int, NEW t \in Nat,
         RunsOK(s.runs, Len(s.data)), OwnBytes(s.data, 0, o),
         NEW start \in Int, NEW chunk \in Seq(Int), OwnBytes(chunk, start, o),
         start <= Len(s.data), Len(s.data) < start + Len(chunk),
         NEW r, r = Appended(s, t, Beyond(s, start, chunk))
  PROVE  CarriedOn(r, s, o, t, start + Len(chunk))
<1> DEFINE b == Beyond(s, start, chunk)
           d == Len(s.data)
           e == start + Len(chunk)
           rs == s.runs
           run == [end |-> d + Len(b), time |-> t]
<1>1. /\ s = [data |-> s.data, runs |-> rs, pending |-> s.pending]
      /\ s.data \in Seq(Int) /\ rs \in Seq(RunType) /\ s.pending \in SUBSET HeldType
  BY DEF StreamType
<1>2. r = [data |-> s.data \o b, runs |-> Append(rs, run), pending |-> s.pending]
  BY <1>1 DEF Appended
<1>3. /\ b \in Seq(Int) /\ Len(b) = e - d
      /\ \A i \in 1..Len(b) : d - start + i \in DOMAIN chunk /\ b[i] = chunk[d - start + i]
  <2>1. s.data \in Seq(Int)
    BY <1>1
  <2>2. RestOf(Beyond(s, start, chunk), start, chunk, Len(s.data))
    <3> HIDE DEF b, d, e, rs, run
    <3> QED
      BY <2>1, BeyondFacts
  <2>3. RestOf(b, start, chunk, d) /\ e = start + Len(chunk)
    BY <2>2
  <2> HIDE DEF b, d, e
  <2>4. d \in Int /\ start \in Int /\ Len(chunk) \in Int
    BY <2>1, LenProperties DEF d
  <2>5. Len(b) = e - d
    BY <2>3, <2>4 DEF RestOf
  <2>6. b \in Seq(Int)
    BY <2>3 DEF RestOf
  <2>7. \A i \in 1..Len(b) : d - start + i \in DOMAIN chunk /\ b[i] = chunk[d - start + i]
    BY <2>3, Zenon DEF RestOf
  <2> QED
    BY <2>5, <2>6, <2>7
<1>4. d \in Nat /\ DOMAIN s.data = 1..d /\ Len(chunk) \in Nat /\ e \in Int /\ d < e
  BY <1>1, LenProperties
<1> HIDE DEF b, d, e, rs
<1>5. run \in RunType /\ run.end = e /\ run.time = t
  BY <1>3, <1>4 DEF RunType
<1> HIDE DEF run
<1> DEFINE rd == r.data
           rr == r.runs
<1>6. /\ rd = s.data \o b /\ rr = Append(rs, run) /\ r.pending = s.pending
      /\ r = [data |-> rd, runs |-> rr, pending |-> s.pending]
  BY <1>2
<1> HIDE DEF rd, rr
<1>7. /\ rd \in Seq(Int) /\ Len(rd) = e /\ DOMAIN rd = 1..e
      /\ \A i \in 1..e : /\ i <= d => rd[i] = s.data[i]
                         /\ \A j : i > d /\ j = i - d => rd[i] = b[j]
  <2>1. /\ s.data \o b \in Seq(Int) /\ Len(s.data \o b) = d + Len(b)
        /\ \A i \in 1..(d + Len(b)) : (s.data \o b)[i] = IF i <= d THEN s.data[i] ELSE b[i - d]
    BY <1>1, <1>3, ConcatProperties DEF d
  <2>2. d + Len(b) = e
    BY <1>3, <1>4
  <2>3. Len(rd) = e /\ rd \in Seq(Int)
    BY <1>6, <2>1, <2>2
  <2>4. DOMAIN rd = 1..e
    BY <2>3, LenProperties
  <2>5. \A i \in 1..e : rd[i] = IF i <= d THEN s.data[i] ELSE b[i - d]
    BY <1>6, <2>1, <2>2
  <2>6. \A i \in 1..e : i > d => ~(i <= d)
    BY <1>4
  <2> QED
    BY <2>3, <2>4, <2>5, <2>6
<1>8. /\ rr \in Seq(RunType) /\ Len(rr) = Len(rs) + 1
      /\ DOMAIN rr = 1..(Len(rs) + 1)
      /\ rr[Len(rs) + 1] = run
      /\ \A k \in 1..Len(rs) : rr[k] = rs[k]
  BY <1>1, <1>5, <1>6, AppendProperties
<1>9. r \in StreamType
  <2>1. rd \in Seq(Int) /\ rr \in Seq(RunType) /\ s.pending \in SUBSET HeldType
    BY <1>1, <1>7, <1>8
  <2> QED
    BY <1>6, <2>1 DEF StreamType
<1>10. OwnBytes(rd, 0, o)
  <2> SUFFICES ASSUME NEW i \in 1..e PROVE rd[i] = o + 0 + i - 1
    BY <1>7 DEF OwnBytes
  <2>1. CASE i <= d
    <3>1. i \in DOMAIN s.data /\ rd[i] = s.data[i]
      BY <1>4, <1>7, <2>1
    <3> QED
      BY <3>1 DEF OwnBytes
  <2>2. CASE i > d
    <3>1. PICK j : j = i - d
      OBVIOUS
    <3>a. j \in 1..Len(b) /\ d - start + j = i - start
      BY <1>3, <1>4, <2>2, <3>1
    <3>b. rd[i] = b[j]
      BY <1>7, <2>2, <3>1
    <3>2. i - start \in DOMAIN chunk /\ rd[i] = chunk[i - start]
      BY <1>3, <3>a, <3>b
    <3>3. chunk[i - start] = o + start + (i - start) - 1
      BY <3>2 DEF OwnBytes
    <3> QED
      BY <1>4, <3>2, <3>3
  <2> QED
    BY <1>4, <2>1, <2>2
<1>11. /\ DOMAIN rs = 1..Len(rs) /\ Len(rs) \in Nat
       /\ \A k \in DOMAIN rs : rs[k].end \in Int /\ rs[k].end <= d
  <2>1. RunsOK(rs, d)
    BY DEF rs, d
  <2> QED
    BY <1>1, <1>4, <2>1, RunFacts
<1>12. RunsOK(rr, e)
  <2>1. \A j, k \in DOMAIN rr : j < k => rr[j].end < rr[k].end
    <3> TAKE j, k \in DOMAIN rr
    <3> HAVE j < k
    <3>1. j \in DOMAIN rs /\ rr[j] = rs[j]
      BY <1>8, <1>11
    <3>2. CASE k \in DOMAIN rs
      <4>1. rs[j].end < rs[k].end
        BY <3>1, <3>2 DEF RunsOK, rs
      <4> QED
        BY <1>8, <1>11, <3>1, <3>2, <4>1
    <3>3. CASE k = Len(rs) + 1
      BY <1>4, <1>5, <1>8, <1>11, <3>1, <3>3
    <3> QED
      BY <1>8, <1>11, <3>2, <3>3
  <2>2. rr # <<>> /\ rr[Len(rr)].end = e
    BY <1>5, <1>8, <1>11
  <2> QED
    BY <2>1, <2>2 DEF RunsOK
<1>13. ASSUME NEW x \in Nat, NEW u
       PROVE  ReadAt(rr, x, u) <=> ReadAt(rs, x, u) \/ (d <= x /\ x < e /\ u = t)
  <2>1. ASSUME ReadAt(rs, x, u) PROVE ReadAt(rr, x, u)
    <3>1. PICK k \in DOMAIN rs :
            x < rs[k].end /\ rs[k].time = u /\ \A j \in DOMAIN rs : j < k => rs[j].end <= x
      BY <2>1 DEF ReadAt
    <3>2. k \in DOMAIN rr /\ rr[k] = rs[k]
      BY <1>8, <1>11
    <3>3. \A j \in DOMAIN rr : j < k => rr[j].end <= x
      <4> TAKE j \in DOMAIN rr
      <4> HAVE j < k
      <4>1. k \in 1..Len(rs) /\ j \in 1..(Len(rs) + 1)
        BY <1>8, <1>11
      <4>2. j \in DOMAIN rs
        BY <1>11, <4>1
      <4> QED
        BY <1>8, <1>11, <3>1, <4>2
    <3> QED
      BY <3>1, <3>2, <3>3 DEF ReadAt
  <2>2. ASSUME d <= x, x < e, u = t PROVE ReadAt(rr, x, u)
    <3>1. Len(rs) + 1 \in DOMAIN rr
      BY <1>8, <1>11
    <3>2. \A j \in DOMAIN rr : j < Len(rs) + 1 => rr[j].end <= x
      BY <1>4, <1>8, <1>11, <2>2
    <3> QED
      BY <1>5, <1>8, <2>2, <3>1, <3>2 DEF ReadAt
  <2>3. ASSUME ReadAt(rr, x, u)
        PROVE  ReadAt(rs, x, u) \/ (d <= x /\ x < e /\ u = t)
    <3>1. PICK k \in DOMAIN rr :
            /\ x < rr[k].end /\ rr[k].time = u
            /\ \A j \in DOMAIN rr : j < k => rr[j].end <= x
      BY <2>3 DEF ReadAt
    <3>2. CASE k \in DOMAIN rs
      <4>1. rr[k] = rs[k]
        BY <1>8, <1>11, <3>2
      <4>2. \A j \in DOMAIN rs : j < k => rs[j].end <= x
        BY <1>8, <1>11, <3>1
      <4> QED
        BY <3>1, <3>2, <4>1, <4>2 DEF ReadAt
    <3>3. CASE k = Len(rs) + 1
      <4>1. x < e /\ u = t
        BY <1>5, <1>8, <3>1, <3>3
      <4>2. d <= x
        <5>1. CASE rs = <<>>
          <6>1. d = 0 /\ Len(rs) = 0
            BY <5>1 DEF RunsOK, rs, d
          <6> QED
            BY <6>1
        <5>2. CASE rs # <<>>
          <6>1. Len(rs) \in DOMAIN rs /\ Len(rs) \in DOMAIN rr /\ Len(rs) < k
            BY <1>8, <1>11, <3>3, <5>2
          <6>2. rs[Len(rs)].end = d
            BY <5>2 DEF RunsOK, rs, d
          <6> QED
            BY <1>8, <1>11, <3>1, <6>1, <6>2
        <5> QED
          BY <5>1, <5>2
      <4> QED
        BY <4>1, <4>2
    <3> QED
      BY <1>8, <1>11, <3>2, <3>3
  <2> QED
    BY <2>1, <2>2, <2>3
<1> QED
  BY <1>6, <1>7, <1>9, <1>10, <1>12, <1>13 DEF rs, d, e, rd, rr, CarriedOn

\* The packets held back, as the release of them needs them.
HeldFine(held, o, ns) ==
  /\ IsFiniteSet(held) /\ held \subseteq HeldType
  /\ \A h \in held : h.start \in Nat /\ h.time < ns /\ OwnBytes(h.chunk, h.start, o)

\* The release of what s0 holds back, at ns, has come to s.
Releasing(s, s0, o, ns) ==
  /\ s \in StreamType /\ RunsOK(s.runs, Len(s.data)) /\ OwnBytes(s.data, 0, o)
  /\ Len(s0.data) <= Len(s.data)
  /\ s.pending \subseteq s0.pending
  /\ \A h \in s0.pending \ s.pending : h.start + Len(h.chunk) <= Len(s.data)
  /\ \A x \in Nat : \A u : ReadAt(s.runs, x, u) <=>
       \/ ReadAt(s0.runs, x, u)
       \/ Len(s0.data) <= x /\ x < Len(s.data) /\ u = ns
  /\ \A x \in Nat : Len(s0.data) <= x /\ x < Len(s.data) =>
       \E h \in s0.pending : h.start <= x /\ x < h.start + Len(h.chunk)

\* Nothing more can be released.
AtGap(s) == \A h \in s.pending : h.start > Len(s.data)

LEMMA FirstHeldFacts ==
  ASSUME NEW held, held # {}, \A h \in held : h.start \in Nat
  PROVE  FirstHeld(held) \in held /\ \A g \in held : FirstHeld(held).start <= g.start
<1> DEFINE S == {h.start : h \in held}
<1>1. S \subseteq Nat /\ S # {}
  OBVIOUS
<1> HIDE DEF S
<1>2. PICK m \in S : \A n \in S : m <= n
  BY <1>1, LeastMember
<1>3. \E h \in held : \A g \in held : h.start <= g.start
  BY <1>2 DEF S
<1> QED
  BY <1>3, Zenon DEF FirstHeld

LEMMA PendingOnly ==
  ASSUME NEW s \in StreamType, NEW held
  PROVE  [s EXCEPT !.pending = held] = [data |-> s.data, runs |-> s.runs, pending |-> held]
<1>1. PICK d \in Seq(Int), rs \in Seq(RunType), p \in SUBSET HeldType :
        s = [data |-> d, runs |-> rs, pending |-> p]
  BY DEF StreamType
<1>2. s.data = d /\ s.runs = rs
  BY <1>1
<1>3. [s EXCEPT !.pending = held] = [data |-> d, runs |-> rs, pending |-> held]
  BY <1>1
<1> QED
  BY <1>2, <1>3

\* A turn of the loop releases one packet or finds the gap.
LEMMA ReleaseKeeps ==
  ASSUME NEW s0, NEW o \in Int, NEW ns \in Nat, HeldFine(s0.pending, o, ns),
         s0 \in StreamType,
         NEW s, Releasing(s, s0, o, ns), NEW r, r = Release(s, ns)
  PROVE  /\ Releasing(r, s0, o, ns)
         /\ AtGap(s) => r = s
         /\ ~AtGap(s) => /\ s.pending # {}
                         /\ Cardinality(r.pending) = Cardinality(s.pending) - 1
<1> DEFINE held == FirstHeld(s.pending)
           rest == [s EXCEPT !.pending = @ \ {held}]
<1>1. /\ s \in StreamType /\ RunsOK(s.runs, Len(s.data)) /\ OwnBytes(s.data, 0, o)
      /\ s.pending \subseteq s0.pending /\ Len(s0.data) <= Len(s.data)
  BY DEF Releasing
<1>2. /\ s = [data |-> s.data, runs |-> s.runs, pending |-> s.pending]
      /\ s.data \in Seq(Int) /\ s.runs \in Seq(RunType) /\ s.pending \in SUBSET HeldType
  BY <1>1 DEF StreamType
<1>3. /\ Len(s.data) \in Nat /\ Len(s0.data) \in Nat
      /\ \A h \in s.pending : /\ h.start \in Nat /\ h.time \in Nat /\ h.time < ns
                              /\ h.chunk \in Seq(Int) /\ Len(h.chunk) \in Nat
                              /\ OwnBytes(h.chunk, h.start, o)
  <2>1. s0.data \in Seq(Int)
    BY DEF StreamType
  <2>2. \A h \in HeldType : h.time \in Nat /\ h.chunk \in Seq(Int)
    BY DEF HeldType
  <2> QED
    BY <1>1, <1>2, <2>1, <2>2, LenProperties DEF HeldFine
<1>4. r = IF s.pending = {} \/ held.start > Len(s.data) THEN s
          ELSE IF held.start + Len(held.chunk) <= Len(s.data) THEN rest
          ELSE Appended(rest, HeldTime(held.time, ns), Beyond(s, held.start, held.chunk))
  BY DEF Release
<1>5. s.pending # {} => held \in s.pending /\ \A g \in s.pending : held.start <= g.start
  BY <1>3, FirstHeldFacts
<1>6. AtGap(s) <=> s.pending = {} \/ held.start > Len(s.data)
  <2> HIDE DEF held
  <2>1. ASSUME s.pending # {}, held.start > Len(s.data), NEW g \in s.pending
        PROVE  g.start > Len(s.data)
    <3>1. held.start \in Nat /\ g.start \in Nat /\ held.start <= g.start
      BY <1>3, <1>5, <2>1
    <3> QED
      BY <1>3, <2>1, <3>1
  <2> QED
    BY <1>5, <2>1 DEF AtGap
<1>7. CASE AtGap(s)
  BY <1>4, <1>6, <1>7
<1>8. CASE ~AtGap(s)
  <2> HIDE DEF held
  <2>1. held \in s.pending /\ s.pending # {} /\ ~(held.start > Len(s.data))
    BY <1>5, <1>6, <1>8
  <2>2. held.start \in Nat /\ held.start <= Len(s.data) /\ Len(held.chunk) \in Nat
    BY <1>3, <2>1
  <2>3. /\ rest = [data |-> s.data, runs |-> s.runs, pending |-> s.pending \ {held}]
        /\ rest \in StreamType /\ rest.data = s.data /\ rest.runs = s.runs
        /\ rest.pending = s.pending \ {held}
    <3>1. rest = [data |-> s.data, runs |-> s.runs, pending |-> s.pending \ {held}]
      BY <1>1, PendingOnly
    <3>2. s.pending \ {held} \in SUBSET HeldType
      BY <1>2
    <3> HIDE DEF rest
    <3> QED
      BY <1>2, <3>1, <3>2 DEF StreamType
  <2> HIDE DEF rest
  <2>4. Cardinality(s.pending \ {held}) = Cardinality(s.pending) - 1
    <3>1. IsFiniteSet(s.pending)
      BY <1>1, FS_Subset DEF HeldFine
    <3> QED
      BY <2>1, <3>1, FS_RemoveElement
  <2>5. CASE held.start + Len(held.chunk) <= Len(s.data)
    <3>1. r = rest
      BY <1>4, <1>6, <1>8, <2>5
    <3>2. \A h \in s0.pending \ (s.pending \ {held}) : h.start + Len(h.chunk) <= Len(s.data)
      BY <2>5 DEF Releasing
    <3>3. s.pending \ {held} \subseteq s0.pending
      BY <1>1
    <3>4. Releasing(rest, s0, o, ns)
      BY <2>3, <3>2, <3>3 DEF Releasing
    <3> QED
      BY <1>8, <2>1, <2>3, <2>4, <3>1, <3>4
  <2>6. CASE held.start + Len(held.chunk) > Len(s.data)
    <3>1. HeldTime(held.time, ns) = ns
      BY <1>3, <2>1 DEF HeldTime
    <3>2. ~(held.start + Len(held.chunk) <= Len(s.data))
      BY <1>3, <2>2, <2>6
    <3>3. r = Appended(rest, ns, Beyond(rest, held.start, held.chunk))
      <4>1. Beyond(rest, held.start, held.chunk) = Beyond(s, held.start, held.chunk)
        BY <2>3 DEF Beyond
      <4> QED
        BY <1>4, <1>6, <1>8, <3>1, <3>2, <4>1
    <3> DEFINE start == held.start
               chunk == held.chunk
    <3>4. /\ rest \in StreamType /\ start \in Int /\ chunk \in Seq(Int) /\ OwnBytes(chunk, start, o)
          /\ start <= Len(rest.data) /\ Len(rest.data) < start + Len(chunk)
          /\ RunsOK(rest.runs, Len(rest.data)) /\ OwnBytes(rest.data, 0, o)
          /\ r = Appended(rest, ns, Beyond(rest, start, chunk))
      BY <1>1, <1>3, <2>1, <2>2, <2>3, <2>6, <3>3
    <3> HIDE DEF start, chunk
    <3>5. /\ r \in StreamType /\ r.pending = rest.pending
          /\ Len(r.data) = start + Len(chunk)
          /\ RunsOK(r.runs, Len(r.data)) /\ OwnBytes(r.data, 0, o)
          /\ \A x \in Nat : \A u : ReadAt(r.runs, x, u) <=>
               \/ ReadAt(rest.runs, x, u)
               \/ Len(rest.data) <= x /\ x < Len(r.data) /\ u = ns
      <4>1. CarriedOn(r, rest, o, ns, start + Len(chunk))
        BY <3>4, AppendedFacts
      <4> QED
        BY <4>1 DEF CarriedOn
    <3> DEFINE d0 == Len(s0.data)
               d  == Len(s.data)
               e  == Len(r.data)
    <3>6. /\ d0 \in Nat /\ d \in Nat /\ e \in Int /\ d0 <= d /\ d < e
          /\ e = held.start + Len(held.chunk)
      <4>1. e = held.start + Len(held.chunk)
        BY <3>5 DEF start, chunk
      <4> HIDE DEF e
      <4> QED
        BY <1>1, <1>3, <2>2, <2>6, <4>1
    <3>7. /\ r.pending = s.pending \ {held}
          /\ \A x \in Nat : \A u : ReadAt(r.runs, x, u) <=>
               ReadAt(s.runs, x, u) \/ (d <= x /\ x < e /\ u = ns)
      BY <2>3, <3>5
    <3>8. /\ \A h \in s0.pending \ s.pending : h.start + Len(h.chunk) <= d
          /\ \A x \in Nat : \A u : ReadAt(s.runs, x, u) <=>
               ReadAt(s0.runs, x, u) \/ (d0 <= x /\ x < d /\ u = ns)
          /\ \A x \in Nat : d0 <= x /\ x < d =>
               \E h \in s0.pending : h.start <= x /\ x < h.start + Len(h.chunk)
      BY DEF Releasing
    <3>9. \A h \in s0.pending : h.start \in Nat /\ Len(h.chunk) \in Nat
      <4>1. \A h \in HeldType : h.chunk \in Seq(Int)
        BY DEF HeldType
      <4> QED
        BY <4>1, LenProperties DEF HeldFine
    <3>10. /\ r \in StreamType /\ RunsOK(r.runs, e) /\ OwnBytes(r.data, 0, o)
      BY <3>5
    <3> HIDE DEF d0, d, e
    <3>11. d0 <= e
      BY <3>6
    <3>12. r.pending \subseteq s0.pending
      BY <1>1, <3>7
    <3>13. \A h \in s0.pending \ r.pending : h.start + Len(h.chunk) <= e
      <4> TAKE h \in s0.pending \ r.pending
      <4>1. CASE h = held
        BY <3>6, <4>1
      <4>2. CASE h # held
        <5>1. h.start + Len(h.chunk) <= d
          BY <3>7, <3>8, <4>2
        <5> QED
          BY <3>6, <3>9, <5>1
      <4> QED
        BY <4>1, <4>2
    <3>14. \A x \in Nat : \A u : ReadAt(r.runs, x, u) <=>
             ReadAt(s0.runs, x, u) \/ (d0 <= x /\ x < e /\ u = ns)
      <4> TAKE x \in Nat
      <4> TAKE u
      <4>1. (d0 <= x /\ x < e) <=> (d0 <= x /\ x < d) \/ (d <= x /\ x < e)
        BY <3>6
      <4> QED
        BY <3>7, <3>8, <4>1
    <3>15. \A x \in Nat : d0 <= x /\ x < e =>
             \E h \in s0.pending : h.start <= x /\ x < h.start + Len(h.chunk)
      <4> TAKE x \in Nat
      <4> HAVE d0 <= x /\ x < e
      <4>1. CASE x < d
        BY <3>8, <4>1
      <4>2. CASE ~(x < d)
        <5>1. held \in s0.pending /\ held.start <= x /\ x < held.start + Len(held.chunk)
          BY <1>1, <2>1, <2>2, <3>6, <4>2 DEF d
        <5> QED
          BY <5>1
      <4> QED
        BY <4>1, <4>2
    <3>16. Releasing(r, s0, o, ns)
      BY <3>10, <3>11, <3>12, <3>13, <3>14, <3>15 DEF Releasing, d0, e
    <3> QED
      BY <1>8, <2>1, <2>4, <3>7, <3>16
  <2> QED
    BY <1>3, <2>2, <2>5, <2>6
<1> QED
  BY <1>7, <1>8

\* The loop as a whole.
LEMMA ReleasedFacts ==
  ASSUME NEW s0, NEW o \in Int, NEW ns \in Nat, HeldFine(s0.pending, o, ns),
         s0 \in StreamType, RunsOK(s0.runs, Len(s0.data)), OwnBytes(s0.data, 0, o),
         NEW r, r = Released(s0, ns)
  PROVE  Releasing(r, s0, o, ns) /\ AtGap(r)
<1> DEFINE n == Cardinality(s0.pending)
           Loops(f, m) == f = [k \in 0..m |-> IF k = 0 THEN s0 ELSE Release(f[k - 1], ns)]
           f == CHOOSE g : Loops(g, n)
<1>1. n \in Nat
  BY FS_CardinalityType DEF HeldFine
<1>2. r = f[n]
  BY DEF Released
<1>3. \E g : Loops(g, n)
  <2> DEFINE S == {m \in Nat : \E g : Loops(g, m)}
  <2> HIDE DEF n
  <2>1. 0 \in S
    <3>1. Loops([k \in 0..0 |-> s0], 0)
      OBVIOUS
    <3> HIDE DEF Loops
    <3> QED
      BY <3>1
  <2>2. ASSUME NEW m \in Nat, m \in S PROVE m + 1 \in S
    <3>1. PICK g : Loops(g, m)
      BY <2>2
    <3> DEFINE h == [k \in 0..(m + 1) |-> IF k <= m THEN g[k] ELSE Release(g[m], ns)]
    <3>2. \A k \in 0..(m + 1) : h[k] = IF k = 0 THEN s0 ELSE Release(h[k - 1], ns)
      <4> TAKE k \in 0..(m + 1)
      <4>1. CASE k = 0
        BY <3>1, <4>1
      <4>2. CASE k # 0 /\ k <= m
        <5>1. k - 1 \in 0..(m + 1) /\ k - 1 <= m /\ k \in 0..m
          BY <4>2
        <5>2. h[k] = g[k] /\ h[k - 1] = g[k - 1]
          BY <4>2, <5>1
        <5>3. g[k] = Release(g[k - 1], ns)
          BY <3>1, <4>2, <5>1
        <5> HIDE DEF h
        <5> QED
          BY <4>2, <5>2, <5>3
      <4>3. CASE k = m + 1
        <5>1. k # 0 /\ ~(k <= m) /\ k - 1 = m /\ m \in 0..(m + 1) /\ m <= m
          BY <4>3
        <5>2. h[k] = Release(g[m], ns) /\ h[m] = g[m]
          BY <5>1
        <5> HIDE DEF h
        <5> QED
          BY <5>1, <5>2
      <4> QED
        BY <4>1, <4>2, <4>3
    <3>3. Loops(h, m + 1)
      <4>1. h = [k \in 0..(m + 1) |-> h[k]]
        OBVIOUS
      <4> HIDE DEF h
      <4> QED
        BY <3>2, <4>1
    <3> HIDE DEF Loops, h
    <3> QED
      BY <3>3
  <2> HIDE DEF S
  <2>3. n \in S
    BY <1>1, <2>1, <2>2, Induction
  <2> QED
    BY <2>3 DEF S
<1>4. Loops(f, n)
  <2> HIDE DEF Loops, n
  <2> QED
    BY <1>3
<1>5. f[0] = s0 /\ \A k \in 1..n : f[k] = Release(f[k - 1], ns)
  <2> HIDE DEF f, n
  <2> QED
    BY <1>1, <1>4
<1> HIDE DEF f, Loops
<1>6. Releasing(f[0], s0, o, ns)
  <2>1. Len(s0.data) \in Nat
    <3>1. s0.data \in Seq(Int)
      BY DEF StreamType
    <3> QED
      BY <3>1, LenProperties
  <2> QED
    BY <1>5, <2>1 DEF Releasing
<1> DEFINE T == {k \in Nat : k <= n => /\ Releasing(f[k], s0, o, ns)
                                       /\ AtGap(f[k]) \/ Cardinality(f[k].pending) = n - k}
<1>7. 0 \in T
  BY <1>1, <1>5, <1>6
<1> HIDE DEF n
<1>8. ASSUME NEW k \in Nat, k \in T PROVE k + 1 \in T
  <2> SUFFICES ASSUME k + 1 <= n
               PROVE  /\ Releasing(f[k + 1], s0, o, ns)
                      /\ AtGap(f[k + 1]) \/ Cardinality(f[k + 1].pending) = n - (k + 1)
    BY <1>1
  <2>1. k + 1 \in 1..n /\ (k + 1) - 1 = k /\ k <= n
    BY <1>1
  <2>2. f[k + 1] = Release(f[k], ns)
    BY <1>5, <2>1
  <2>3. /\ Releasing(f[k], s0, o, ns)
        /\ AtGap(f[k]) \/ Cardinality(f[k].pending) = n - k
    BY <1>8, <2>1
  <2>4. /\ Releasing(f[k + 1], s0, o, ns)
        /\ AtGap(f[k]) => f[k + 1] = f[k]
        /\ ~AtGap(f[k]) => Cardinality(f[k + 1].pending) = Cardinality(f[k].pending) - 1
    <3> DEFINE v == f[k]
               w == f[k + 1]
    <3>1. Releasing(v, s0, o, ns) /\ w = Release(v, ns)
      BY <2>2, <2>3
    <3> HIDE DEF v, w
    <3>2. /\ Releasing(w, s0, o, ns)
          /\ AtGap(v) => w = v
          /\ ~AtGap(v) => Cardinality(w.pending) = Cardinality(v.pending) - 1
      BY <3>1, ReleaseKeeps
    <3> QED
      BY <3>2 DEF v, w
  <2>5. (n - k) - 1 = n - (k + 1)
    BY <1>1
  <2> QED
    BY <2>3, <2>4, <2>5
<1> HIDE DEF T
<1>9. n \in T
  BY <1>1, <1>7, <1>8, Induction
<1>10. /\ Releasing(f[n], s0, o, ns)
       /\ AtGap(f[n]) \/ Cardinality(f[n].pending) = 0
  BY <1>1, <1>9 DEF T
<1>11. Cardinality(f[n].pending) = 0 => AtGap(f[n])
  <2>1. IsFiniteSet(f[n].pending)
    BY <1>10, FS_Subset DEF Releasing, HeldFine
  <2> QED
    BY <2>1, FS_EmptySet DEF AtGap
<1> QED
  BY <1>2, <1>10, <1>11

\* Looking up a place of the data finds the run that holds it.
LEMMA ReadableFacts ==
  ASSUME NEW rs \in Seq(RunType), NEW d \in Int, RunsOK(rs, d), NEW x \in Nat,
         NEW i, i = After([k \in DOMAIN rs |-> rs[k].end], x)
  PROVE  /\ x < d => i \in DOMAIN rs /\ ReadAt(rs, x, rs[i].time)
         /\ x >= d => i = Len(rs) + 1
<1> DEFINE ends == [k \in DOMAIN rs |-> rs[k].end]
<1>1. /\ DOMAIN rs = 1..Len(rs) /\ Len(rs) \in Nat
      /\ \A k \in DOMAIN rs : rs[k].end \in Int /\ rs[k].end <= d
  BY RunFacts
<1>2. \A k \in DOMAIN rs : ends[k] = rs[k].end
  OBVIOUS
<1>3. DOMAIN ends = 1..Len(rs)
  BY <1>1
<1>4. i = After(ends, x)
  OBVIOUS
<1> HIDE DEF ends
<1>5. \A j, k \in 1..Len(rs) : j < k => ends[j] <= ends[k]
  <2> TAKE j, k \in 1..Len(rs)
  <2> HAVE j < k
  <2>1. rs[j].end < rs[k].end /\ rs[j].end \in Int /\ rs[k].end \in Int
    BY <1>1 DEF RunsOK
  <2> QED
    BY <1>1, <1>2, <2>1
<1>6. Ascending(ends, Len(rs))
  BY <1>1, <1>2, <1>3, <1>5 DEF Ascending
<1>7. i \in 1..(Len(rs) + 1) /\ \A k \in DOMAIN rs : k < i <=> rs[k].end <= x
  <2>1. /\ After(ends, x) \in 1..(Len(rs) + 1)
        /\ \A k \in 1..Len(rs) : k < After(ends, x) <=> ends[k] <= x
    BY <1>1, <1>6, AfterFacts
  <2> QED
    BY <1>1, <1>2, <1>4, <2>1
<1>a. i \in Int /\ ~(i < i)
  BY <1>1, <1>7
<1>b. \A k \in DOMAIN rs : ~(k < i) => x < rs[k].end
  <2> TAKE k \in DOMAIN rs
  <2>1. rs[k].end \in Int /\ (k < i <=> rs[k].end <= x)
    BY <1>1, <1>7
  <2> QED
    BY <2>1
<1>8. ASSUME x < d PROVE i \in DOMAIN rs /\ ReadAt(rs, x, rs[i].time)
  <2>1. rs # <<>> \/ d = 0
    BY DEF RunsOK
  <2>2. Len(rs) \in DOMAIN rs /\ rs[Len(rs)].end = d
    BY <1>1, <1>8, <2>1 DEF RunsOK
  <2>3. ~(Len(rs) < i)
    BY <1>7, <1>8, <2>2
  <2>4. i \in DOMAIN rs
    BY <1>1, <1>7, <2>3
  <2>5. x < rs[i].end
    BY <1>a, <1>b, <2>4
  <2>6. \A j \in DOMAIN rs : j < i => rs[j].end <= x
    BY <1>7
  <2> QED
    BY <2>4, <2>5, <2>6 DEF ReadAt
<1>9. ASSUME x >= d PROVE i = Len(rs) + 1
  <2>1. ASSUME i \in DOMAIN rs PROVE FALSE
    <3>1. rs[i].end \in Int /\ rs[i].end <= d /\ x < rs[i].end
      BY <1>1, <1>a, <1>b, <2>1
    <3> QED
      BY <1>9, <3>1
  <2> QED
    BY <1>1, <1>7, <2>1
<1> QED
  BY <1>8, <1>9

\* The invariant, with the origin named: it is the one the next packet is
\* counted from too, as long as there has been none.
ReadInvFrom(o) ==
  /\ OwnBytes(data, 0, o)
  /\ \A h \in pending :
       /\ h.start > Len(data) /\ h.time \in DOMAIN capture
       /\ capture[h.time].first = o + h.start /\ h.chunk = Payload(capture[h.time])
  /\ \A x \in 0..(Len(data) - 1) : \A t :
       ReadAt(runs, x, t) =>
         /\ t \in DOMAIN capture
         /\ \A y \in 0..x : \E k \in 1..t : Carries(capture[k], y + o)
         /\ ~shadowed => \E y \in 0..x : FirstAt(y + o, t)
  /\ ~shadowed =>
       \A k \in DOMAIN capture :
         capture[k].last - o >= Len(data) =>
           \E h \in pending :
             h.start = capture[k].first - o /\ Len(h.chunk) >= Len(Payload(capture[k]))

LEMMA StreamFacts ==
  ASSUME Now \in StreamType
  PROVE  data \in Seq(Int) /\ runs \in Seq(RunType) /\ pending \subseteq HeldType /\ Len(data) \in Nat
<1>1. data \in Seq(Int) /\ runs \in Seq(RunType) /\ pending \subseteq HeldType
  BY DEF StreamType, Now
<1> QED
  BY <1>1, LenProperties

LEMMA OriginNamed ==
  ASSUME BaseOK, ReadInv, NEW p \in Packet, Capture(p), NEW o, o = Origin'
  PROVE  ReadInvFrom(o)
<1>1. CASE capture # <<>>
  <2>1. o = Origin
    BY <1>1, CaptureFacts
  <2> QED
    BY <2>1 DEF ReadInv, ReadInvFrom, StreamOK, HeldOK, TimesOK, KeptOK
<1>2. CASE capture = <<>>
  <2>1. DOMAIN capture = {}
    BY <1>2
  <2>2. pending = {}
    BY <2>1 DEF ReadInv, HeldOK
  <2>3. Len(data) = 0 /\ data \in Seq(Int)
    <3>1. data \in Seq(Int) /\ runs \in Seq(RunType) /\ Len(data) \in Nat /\ RunsOK(runs, Len(data))
      BY StreamFacts DEF ReadInv, StreamOK
    <3>2. ASSUME 0 < Len(data) PROVE FALSE
      <4>1. \E t : ReadAt(runs, 0, t)
        <5> DEFINE i == After([k \in DOMAIN runs |-> runs[k].end], 0)
        <5>1. i = After([k \in DOMAIN runs |-> runs[k].end], 0)
          OBVIOUS
        <5> HIDE DEF i
        <5>2. ReadAt(runs, 0, runs[i].time)
          BY <3>1, <3>2, <5>1, ReadableFacts
        <5> QED
          BY <5>2
      <4>2. 0 \in 0..(Len(data) - 1)
        BY <3>1, <3>2
      <4> QED
        BY <2>1, <4>1, <4>2 DEF ReadInv, TimesOK
    <3> QED
      BY <3>1, <3>2
  <2>4. DOMAIN data = {}
    <3>1. DOMAIN data = 1..Len(data)
      BY <2>3, LenProperties
    <3> QED
      BY <2>3, <3>1
  <2> QED
    BY <2>1, <2>2, <2>3, <2>4 DEF ReadInvFrom, OwnBytes
<1> QED
  BY <1>1, <1>2

\* What a packet does to the stream: nothing, if it holds nothing new or one with
\* its start is held back already; it is held back itself; or it carries the
\* data on, and with it what it was that held it back.
LEMMA AddedOutcome ==
  ASSUME BaseOK, ReadInv, NEW p \in Packet, Capture(p), NEW o, o = Origin',
         NEW start, start = p.first - o, NEW ns, ns = Len(capture) + 1
  PROVE  \/ /\ data' = data /\ runs' = runs /\ pending' = pending
            /\ ~shadowed' /\ p.last - o >= Len(data) =>
                 \E h \in pending : h.start = start /\ Len(h.chunk) >= Len(Payload(p))
         \/ /\ data' = data /\ runs' = runs /\ start > Len(data)
            /\ pending' = pending \union {[start |-> start, time |-> ns, chunk |-> Payload(p)]}
         \/ /\ start <= Len(data) /\ Len(data) < start + Len(Payload(p))
            /\ \E s0 : /\ s0 \in StreamType /\ s0.pending = pending
                       /\ Len(s0.data) = start + Len(Payload(p))
                       /\ \A x \in Nat : \A u : ReadAt(s0.runs, x, u) <=>
                            \/ ReadAt(runs, x, u)
                            \/ Len(data) <= x /\ x < Len(s0.data) /\ u = ns
                       /\ Releasing(Now', s0, o, ns) /\ AtGap(Now')
<1> DEFINE chunk == Payload(p)
           new   == Added(Now, ns, start, chunk)
<1>1. /\ Now \in StreamType /\ IsFiniteSet(pending) /\ RunsOK(runs, Len(data))
      /\ Now.data = data /\ Now.runs = runs /\ Now.pending = pending
  BY DEF ReadInv, StreamOK, Now
<1>2. /\ o \in 0..(Bytes - 1) /\ Len(capture) \in Nat
      /\ Offset(SeqNumber(p), IF base = None THEN SeqNumber(p) ELSE base) = start
  BY CaptureFacts
<1>3. /\ p.first \in Int /\ p.last \in Int /\ p.first <= p.last
      /\ chunk \in Seq(Int) /\ Len(chunk) = p.last - p.first + 1
      /\ DOMAIN chunk = 1..(p.last - p.first + 1)
      /\ \A i \in DOMAIN chunk : chunk[i] = p.first + i - 1
  BY PacketFacts, ConstantFacts
<1>4. data \in Seq(Int) /\ runs \in Seq(RunType) /\ pending \subseteq HeldType /\ Len(data) \in Nat
  BY <1>1, StreamFacts
<1>5. o \in Int /\ start \in Int /\ ns \in Nat /\ start + Len(chunk) = p.last - o + 1
  <2>1. o \in Int
    BY <1>2, ConstantFacts
  <2>2. start \in Int /\ start = p.first - o
    BY <1>3, <2>1
  <2>3. ns \in Nat
    BY <1>2
  <2> QED
    BY <1>3, <2>1, <2>2, <2>3
<1>6. /\ data' = new.data /\ runs' = new.runs /\ pending' = new.pending
      /\ shadowed' = (shadowed \/ (start > Len(data) /\ \E h \in HeldAt(Now, start) :
                                     Len(h.chunk) < Len(chunk)))
  BY <1>2 DEF Capture, Now
<1>7. new = IF start > Len(data)
            THEN IF HeldAt(Now, start) # {} THEN Now
                 ELSE [Now EXCEPT !.pending = @ \union {[start |-> start, time |-> ns, chunk |-> chunk]}]
            ELSE IF start + Len(chunk) <= Len(data) THEN Now
            ELSE Released(Appended(Now, ns, Beyond(Now, start, chunk)), ns)
  BY <1>1 DEF Added
<1> HIDE DEF new, chunk
<1>8. CASE start > Len(data) /\ HeldAt(Now, start) # {}
  <2>1. data' = data /\ runs' = runs /\ pending' = pending
    BY <1>1, <1>6, <1>7, <1>8
  <2>2. PICK h \in pending : h.start = start /\ h \in HeldAt(Now, start)
    BY <1>1, <1>8 DEF HeldAt
  <2>3. ~shadowed' => ~(Len(h.chunk) < Len(chunk))
    BY <1>6, <1>8, <2>2
  <2>4. Len(h.chunk) \in Nat /\ Len(chunk) \in Nat
    <3>1. h.chunk \in Seq(Int)
      BY <1>4, <2>2 DEF HeldType
    <3> QED
      BY <1>3, <3>1, LenProperties
  <2>5. ~shadowed' => Len(h.chunk) >= Len(chunk)
    BY <2>3, <2>4
  <2> QED
    BY <2>1, <2>2, <2>5 DEF chunk
<1>9. CASE start > Len(data) /\ HeldAt(Now, start) = {}
  <2> DEFINE held == pending \union {[start |-> start, time |-> ns, chunk |-> chunk]}
  <2>1. new = [Now EXCEPT !.pending = held]
    BY <1>1, <1>7, <1>9
  <2> HIDE DEF held
  <2>2. new = [data |-> data, runs |-> runs, pending |-> held]
    BY <1>1, <2>1, PendingOnly
  <2>3. data' = data /\ runs' = runs /\ pending' = held
    BY <1>6, <2>2
  <2> QED
    BY <1>9, <2>3 DEF held, chunk
<1>10. CASE start <= Len(data) /\ start + Len(chunk) <= Len(data)
  <2>1. data' = data /\ runs' = runs /\ pending' = pending
    BY <1>1, <1>4, <1>5, <1>6, <1>7, <1>10
  <2>2. ~(p.last - o >= Len(data))
    BY <1>3, <1>4, <1>5, <1>10
  <2> QED
    BY <2>1, <2>2
<1>11. CASE start <= Len(data) /\ Len(data) < start + Len(chunk)
  <2> DEFINE s0 == Appended(Now, ns, Beyond(Now, start, chunk))
  <2>1. /\ ~(start > Len(data)) /\ ~(start + Len(chunk) <= Len(data))
    <3>1. Len(chunk) \in Nat
      BY <1>3, LenProperties
    <3> QED
      BY <1>4, <1>5, <1>11, <3>1
  <2>2. new = Released(s0, ns)
    BY <1>7, <2>1
  <2>3. OwnBytes(data, 0, o)
    BY OriginNamed DEF ReadInvFrom
  <2>4. OwnBytes(chunk, start, o)
    <3>1. \A i \in DOMAIN chunk : chunk[i] = o + start + i - 1
      <4> TAKE i \in DOMAIN chunk
      <4>1. i \in Int /\ chunk[i] = p.first + i - 1
        BY <1>3
      <4>2. p.first = o + start
        BY <1>3, <1>5
      <4> QED
        BY <1>5, <4>1, <4>2
    <3> QED
      BY <3>1 DEF OwnBytes
  <2>5. CarriedOn(s0, Now, o, ns, start + Len(chunk))
    <3>1. s0 = Appended(Now, ns, Beyond(Now, start, chunk))
      OBVIOUS
    <3> HIDE DEF s0
    <3>2. /\ RunsOK(Now.runs, Len(Now.data)) /\ OwnBytes(Now.data, 0, o)
          /\ start <= Len(Now.data) /\ Len(Now.data) < start + Len(chunk)
      BY <1>1, <1>11, <2>3
    <3> QED
      BY <1>1, <1>3, <1>5, <2>4, <3>1, <3>2, AppendedFacts
  <2> HIDE DEF s0
  <2>6. /\ s0 \in StreamType /\ s0.pending = pending
        /\ Len(s0.data) = start + Len(chunk)
        /\ RunsOK(s0.runs, Len(s0.data)) /\ OwnBytes(s0.data, 0, o)
        /\ \A x \in Nat : \A u : ReadAt(s0.runs, x, u) <=>
             \/ ReadAt(runs, x, u)
             \/ Len(data) <= x /\ x < Len(s0.data) /\ u = ns
    BY <1>1, <2>5 DEF CarriedOn
  <2>7. HeldFine(s0.pending, o, ns)
    <3>1. \A h \in pending : h.start \in Nat /\ h.time < ns /\ OwnBytes(h.chunk, h.start, o)
      <4> TAKE h \in pending
      <4>1. /\ h.start > Len(data) /\ h.time \in DOMAIN capture
            /\ capture[h.time].first = o + h.start /\ h.chunk = Payload(capture[h.time])
        BY OriginNamed DEF ReadInvFrom
      <4>2. capture \in Seq(Packet) /\ DOMAIN capture = 1..Len(capture)
        BY LenProperties DEF BaseOK
      <4>3. capture[h.time] \in Packet /\ h.time < ns
        BY <1>2, <4>1, <4>2, ElementOfSeq
      <4>4. h.start \in Int
        BY <1>4 DEF HeldType
      <4>5. \A i \in DOMAIN h.chunk : h.chunk[i] = o + h.start + i - 1
        BY <4>1, <4>3, PacketFacts
      <4> QED
        BY <1>4, <4>1, <4>3, <4>4, <4>5 DEF OwnBytes
    <3> QED
      BY <1>1, <1>4, <2>6, <3>1 DEF HeldFine
  <2>8. Releasing(new, s0, o, ns) /\ AtGap(new)
    BY <1>5, <2>2, <2>6, <2>7, ReleasedFacts
  <2>9. Now' = new
    <3>1. new \in StreamType
      BY <2>8 DEF Releasing
    <3>2. new = [data |-> new.data, runs |-> new.runs, pending |-> new.pending]
      BY <3>1 DEF StreamType
    <3> QED
      BY <1>6, <3>2 DEF Now
  <2>10. Releasing(Now', s0, o, ns) /\ AtGap(Now')
    BY <2>8, <2>9
  <2> QED
    BY <1>11, <2>6, <2>10 DEF chunk
<1>12. \/ start > Len(data)
       \/ start <= Len(data) /\ start + Len(chunk) <= Len(data)
       \/ start <= Len(data) /\ Len(data) < start + Len(chunk)
  <2>1. Len(chunk) \in Nat
    BY <1>3, LenProperties
  <2> QED
    BY <1>4, <1>5, <2>1
<1> QED
  BY <1>8, <1>9, <1>10, <1>11, <1>12

\* If nothing was hidden, the place after the data has not gone by.
LEMMA GapNotCarried ==
  ASSUME capture \in Seq(Packet), Len(data) \in Nat, NEW o \in Int, ReadInvFrom(o), ~shadowed,
         NEW b, b = Len(data) + o
  PROVE  \A k \in DOMAIN capture : ~Carries(capture[k], b)
<1> SUFFICES ASSUME NEW k \in DOMAIN capture, Carries(capture[k], b) PROVE FALSE
  OBVIOUS
<1> DEFINE q == capture[k]
           d == Len(data)
<1>1. q \in Packet
  BY ElementOfSeq
<1>2. q.first \in Int /\ q.last \in Int /\ q.first <= b /\ b <= q.last
  <2>1. Carries(q, b)
    OBVIOUS
  <2> HIDE DEF q
  <2> QED
    BY <1>1, <2>1, PacketFacts, ConstantFacts DEF Carries
<1>3. q.last - o >= d => \E h \in pending : h.start = q.first - o
  BY DEF ReadInvFrom
<1>4. \A h \in pending : h.start > d
  BY DEF ReadInvFrom
<1>5. d \in Nat /\ b = d + o
  OBVIOUS
<1> HIDE DEF q, d
<1>6. q.last - o >= d /\ ~(q.first - o > d)
  BY <1>2, <1>5
<1> QED
  BY <1>3, <1>4, <1>6

LEMMA ReadStep ==
  ASSUME BaseOK, ReadInv, NEW p \in Packet, Capture(p)
  PROVE  ReadInv'
<1>d. PICK d : d = Len(data)
  OBVIOUS
<1>n. PICK ns : ns = Len(capture) + 1
  OBVIOUS
<1>e. PICK e : e = Len(data')
  OBVIOUS
<1>1. PICK o : o = Origin'
  OBVIOUS
<1>2. PICK start : start = p.first - o
  OBVIOUS
<1>3. /\ BaseOK' /\ Len(capture) \in Nat /\ DOMAIN capture = 1..Len(capture)
      /\ DOMAIN capture' = 1..ns /\ capture'[ns] = p /\ ns \in Nat
      /\ \A k \in DOMAIN capture : capture'[k] = capture[k]
      /\ o \in Int /\ capture \in Seq(Packet)
  <2>1. capture \in Seq(Packet) /\ DOMAIN capture = 1..Len(capture)
    BY LenProperties DEF BaseOK
  <2> QED
    BY <1>n, <1>1, <2>1, CaptureFacts, ConstantFacts
<1>4. /\ p.first \in Int /\ p.last \in Int /\ p.first <= p.last
      /\ Payload(p) \in Seq(Int) /\ Len(Payload(p)) = p.last - p.first + 1
  BY PacketFacts, ConstantFacts
<1>5. /\ Now \in StreamType /\ IsFiniteSet(pending) /\ RunsOK(runs, d)
      /\ data \in Seq(Int) /\ runs \in Seq(RunType) /\ pending \subseteq HeldType /\ d \in Nat
      /\ shadowed \in BOOLEAN
  BY <1>d, StreamFacts DEF ReadInv, StreamOK
<1>6. ReadInvFrom(o)
  BY <1>1, OriginNamed
<1>a. /\ p.first \in Int /\ p.last \in Int /\ o \in Int /\ d \in Nat /\ start \in Int
      /\ start = p.first - o /\ p.first = o + start
  BY <1>2, <1>3, <1>4, <1>5
<1>b. ns \in DOMAIN capture' /\ capture'[ns] = p
  BY <1>n, <1>3
<1>7. ~shadowed' => ~shadowed
  BY DEF Capture
<1>8. shadowed' \in BOOLEAN
  BY DEF Capture
<1>9. start \in Int /\ start + Len(Payload(p)) = p.last - o + 1
  BY <1>2, <1>3, <1>4
<1> DEFINE Kept == /\ data' = data /\ runs' = runs /\ pending' = pending
                   /\ ~shadowed' /\ p.last - o >= d =>
                        \E h \in pending : h.start = start /\ Len(h.chunk) >= Len(Payload(p))
           Held == /\ data' = data /\ runs' = runs /\ start > d
                   /\ pending' = pending \union {[start |-> start, time |-> ns, chunk |-> Payload(p)]}
           On(s0) == /\ start <= d /\ d < start + Len(Payload(p))
                     /\ s0 \in StreamType /\ s0.pending = pending
                     /\ Len(s0.data) = start + Len(Payload(p))
                     /\ \A x \in Nat : \A u : ReadAt(s0.runs, x, u) <=>
                          \/ ReadAt(runs, x, u)
                          \/ d <= x /\ x < Len(s0.data) /\ u = ns
                     /\ Releasing(Now', s0, o, ns) /\ AtGap(Now')
<1>10. Kept \/ Held \/ \E s0 : On(s0)
  BY <1>d, <1>n, <1>1, <1>2, AddedOutcome
<1>11. ASSUME NEW s0, On(s0)
       PROVE  /\ start <= d /\ d < p.last - o + 1 /\ p.last - o + 1 <= e /\ e \in Nat
              /\ Now' \in StreamType /\ RunsOK(runs', e) /\ OwnBytes(data', 0, o)
              /\ pending' \subseteq pending /\ \A h \in pending' : h.start > e
              /\ \A h \in pending \ pending' : h.start + Len(h.chunk) <= e
              /\ \A x \in Nat : \A u : ReadAt(runs', x, u) <=>
                   ReadAt(runs, x, u) \/ (d <= x /\ x < e /\ u = ns)
              /\ \A x \in Nat : p.last - o + 1 <= x /\ x < e =>
                   \E h \in pending : h.start <= x /\ x < h.start + Len(h.chunk)
  <2>1. Now'.data = data' /\ Now'.runs = runs' /\ Now'.pending = pending'
    BY DEF Now
  <2> DEFINE m == Len(s0.data)
  <2>2. m = p.last - o + 1 /\ start <= d /\ d < m /\ s0.pending = pending
    BY <1>9, <1>11
  <2>3. /\ Now' \in StreamType /\ RunsOK(runs', e) /\ OwnBytes(data', 0, o)
        /\ m <= e /\ pending' \subseteq pending
        /\ \A h \in pending \ pending' : h.start + Len(h.chunk) <= e
        /\ \A x \in Nat : \A u : ReadAt(runs', x, u) <=>
             ReadAt(s0.runs, x, u) \/ (m <= x /\ x < e /\ u = ns)
        /\ \A x \in Nat : m <= x /\ x < e =>
             \E h \in pending : h.start <= x /\ x < h.start + Len(h.chunk)
    BY <1>e, <1>11, <2>1 DEF Releasing
  <2>4. \A h \in pending' : h.start > e
    BY <1>e, <1>11, <2>1 DEF AtGap
  <2>5. e \in Nat
    <3>1. data' \in Seq(Int)
      BY <2>1, <2>3 DEF StreamType
    <3> QED
      BY <1>e, <3>1, LenProperties
  <2>6. \A x \in Nat : \A u : ReadAt(s0.runs, x, u) <=>
          ReadAt(runs, x, u) \/ (d <= x /\ x < m /\ u = ns)
    BY <1>11
  <2> HIDE DEF m
  <2>7. \A x \in Nat : d <= x /\ x < e <=> (d <= x /\ x < m) \/ (m <= x /\ x < e)
    BY <1>3, <1>4, <1>5, <2>2, <2>3, <2>5
  <2>8. \A x \in Nat : \A u : ReadAt(runs', x, u) <=>
          ReadAt(runs, x, u) \/ (d <= x /\ x < e /\ u = ns)
    BY <2>3, <2>6, <2>7
  <2> QED
    BY <2>2, <2>3, <2>4, <2>5, <2>8
<1> HIDE DEF On
<1>12. StreamOK'
  <2>1. CASE Kept
    BY <1>d, <1>1, <1>5, <1>6, <2>1 DEF StreamOK, ReadInvFrom, Now
  <2>2. CASE Held
    <3> DEFINE g == [start |-> start, time |-> ns, chunk |-> Payload(p)]
    <3>1. g \in HeldType
      BY <1>3, <1>4, <1>9 DEF HeldType
    <3> HIDE DEF g
    <3>2. pending' = pending \union {g}
      BY <2>2 DEF g
    <3>3. IsFiniteSet(pending')
      BY <1>5, <3>2, FS_AddElement
    <3>4. Now' \in StreamType
      BY <1>5, <2>2, <3>1, <3>2 DEF Now, StreamType
    <3> QED
      BY <1>d, <1>1, <1>5, <1>6, <2>2, <3>3, <3>4 DEF StreamOK, ReadInvFrom
  <2>3. ASSUME NEW s0, On(s0) PROVE StreamOK'
    <3>1. /\ Now' \in StreamType /\ RunsOK(runs', e) /\ OwnBytes(data', 0, o)
          /\ pending' \subseteq pending
      BY <1>11, <2>3
    <3>2. IsFiniteSet(pending')
      BY <1>5, <3>1, FS_Subset
    <3> QED
      BY <1>e, <1>1, <3>1, <3>2 DEF StreamOK
  <2> QED
    BY <1>10, <2>1, <2>2, <2>3
<1>13. HeldOK'
  <2>1. ASSUME NEW h \in pending
        PROVE  /\ h.start > d /\ h.time \in DOMAIN capture'
               /\ capture'[h.time].first = o + h.start /\ h.chunk = Payload(capture'[h.time])
    <3>1. /\ h.start > d /\ h.time \in DOMAIN capture
          /\ capture[h.time].first = o + h.start /\ h.chunk = Payload(capture[h.time])
      BY <1>d, <1>6 DEF ReadInvFrom
    <3> QED
      BY <1>n, <1>3, <3>1
  <2> SUFFICES ASSUME NEW h \in pending'
               PROVE  /\ h.start > e /\ h.time \in DOMAIN capture'
                      /\ capture'[h.time].first = o + h.start
                      /\ h.chunk = Payload(capture'[h.time])
    BY <1>e, <1>1 DEF HeldOK, Payload
  <2>2. CASE Kept
    BY <1>e, <1>d, <2>1, <2>2
  <2>3. CASE Held
    <3>1. e = d
      BY <1>e, <1>d, <2>3
    <3>2. CASE h \in pending
      BY <2>1, <3>1, <3>2
    <3>3. CASE h = [start |-> start, time |-> ns, chunk |-> Payload(p)]
      <4>1. h.start = start /\ h.time = ns /\ h.chunk = Payload(p)
        BY <3>3
      <4>2. ns \in DOMAIN capture' /\ p.first = o + start /\ start > d
        BY <1>a, <1>b, <2>3
      <4> QED
        BY <1>3, <3>1, <4>1, <4>2
    <3> QED
      BY <2>3, <3>2, <3>3
  <2>4. ASSUME NEW s0, On(s0)
        PROVE  /\ h.start > e /\ h.time \in DOMAIN capture'
               /\ capture'[h.time].first = o + h.start
               /\ h.chunk = Payload(capture'[h.time])
    <3>1. h \in pending /\ h.start > e
      BY <1>11, <2>4
    <3> QED
      BY <2>1, <3>1
  <2> QED
    BY <1>10, <2>2, <2>3, <2>4
<1>14. TimesOK'
  <2> SUFFICES ASSUME NEW x \in 0..(e - 1), NEW t, ReadAt(runs', x, t)
               PROVE  /\ t \in DOMAIN capture'
                      /\ \A y \in 0..x : \E k \in 1..t : Carries(capture'[k], y + o)
                      /\ ~shadowed' => \E y \in 0..x : FirstAt(y + o, t)'
    BY <1>e, <1>1 DEF TimesOK
  <2>1. \A b, u : FirstAt(b, u) => FirstAt(b, u)'
    BY FirstAtNext
  <2>2. ASSUME NEW z \in 0..(d - 1), NEW u, ReadAt(runs, z, u)
        PROVE  /\ u \in DOMAIN capture
               /\ \A y \in 0..z : \E k \in 1..u : Carries(capture[k], y + o)
               /\ ~shadowed => \E y \in 0..z : FirstAt(y + o, u)
    BY <1>d, <1>6, <2>2 DEF ReadInvFrom
  <2>3. ASSUME NEW z \in Nat, NEW u, ReadAt(runs, z, u)
        PROVE  z \in 0..(d - 1)
    <3>1. PICK k \in DOMAIN runs : z < runs[k].end
      BY <2>3 DEF ReadAt
    <3>2. runs[k].end \in Int /\ runs[k].end <= d
      BY <1>5, RunFacts
    <3> QED
      BY <1>5, <3>1, <3>2
  <2>4. CASE ReadAt(runs, x, t)
    <3>1. /\ t \in DOMAIN capture
          /\ \A y \in 0..x : \E k \in 1..t : Carries(capture[k], y + o)
          /\ ~shadowed => \E y \in 0..x : FirstAt(y + o, t)
      <4>1. x \in Nat
        OBVIOUS
      <4> QED
        BY <2>2, <2>3, <2>4, <4>1
    <3>2. \A y \in 0..x : \E k \in 1..t : Carries(capture'[k], y + o)
      <4> TAKE y \in 0..x
      <4>1. PICK k \in 1..t : Carries(capture[k], y + o)
        BY <3>1
      <4>2. k \in DOMAIN capture
        BY <1>3, <3>1
      <4>3. Carries(capture'[k], y + o)
        BY <1>3, <4>1, <4>2
      <4> QED
        BY <4>3
    <3>3. ~shadowed' => \E y \in 0..x : FirstAt(y + o, t)'
      <4> HAVE ~shadowed'
      <4>1. PICK y \in 0..x : FirstAt(y + o, t)
        BY <1>7, <3>1
      <4>2. PICK b : b = y + o
        OBVIOUS
      <4>3. FirstAt(b, t)'
        BY <2>1, <4>1, <4>2
      <4>4. FirstAt(y + o, t)'
        BY <4>2, <4>3
      <4> QED
        BY <4>4
    <3> QED
      BY <1>n, <1>3, <3>1, <3>2, <3>3
  <2>5. CASE ~ReadAt(runs, x, t)
    <3>1. PICK s0 : On(s0)
      <4>1. runs' # runs
        BY <2>5
      <4> QED
        BY <1>10, <4>1
    <3>2. /\ start <= d /\ d < p.last - o + 1 /\ p.last - o + 1 <= e /\ e \in Nat
          /\ \A z \in Nat : \A u : ReadAt(runs', z, u) <=>
               ReadAt(runs, z, u) \/ (d <= z /\ z < e /\ u = ns)
          /\ \A z \in Nat : p.last - o + 1 <= z /\ z < e =>
               \E h \in pending : h.start <= z /\ z < h.start + Len(h.chunk)
      BY <1>11, <3>1
    <3>3. x \in Nat /\ d <= x /\ x < e /\ t = ns
      BY <2>5, <3>2
    <3>4. ns \in DOMAIN capture' /\ t \in DOMAIN capture'
      BY <1>b, <3>3
    <3>5. ASSUME NEW y \in 0..x PROVE \E k \in 1..t : Carries(capture'[k], y + o)
      <4>1. y \in Nat /\ y < e
        BY <3>2, <3>3
      <4>2. ASSUME NEW k \in DOMAIN capture, Carries(capture[k], y + o)
            PROVE  \E l \in 1..t : Carries(capture'[l], y + o)
        <5>1. k \in 1..t /\ Carries(capture'[k], y + o)
          BY <1>n, <1>3, <3>3, <4>2
        <5> QED
          BY <5>1
      <4>3. CASE y < d
        <5> DEFINE i == After([k \in DOMAIN runs |-> runs[k].end], y)
        <5>1. i = After([k \in DOMAIN runs |-> runs[k].end], y)
          OBVIOUS
        <5> HIDE DEF i
        <5>2. ReadAt(runs, y, runs[i].time)
          BY <1>5, <4>1, <4>3, <5>1, ReadableFacts
        <5>3. y \in 0..(d - 1) /\ y \in 0..y
          BY <1>5, <4>1, <4>3
        <5>4. PICK u : u = runs[i].time
          OBVIOUS
        <5>5. u \in DOMAIN capture /\ \E k \in 1..u : Carries(capture[k], y + o)
          BY <2>2, <5>2, <5>3, <5>4
        <5>6. \E k \in DOMAIN capture : Carries(capture[k], y + o)
          BY <1>3, <5>5
        <5> QED
          BY <4>2, <5>6
      <4>4. CASE d <= y /\ y < p.last - o + 1
        <5>1. p.first <= y + o /\ y + o <= p.last
          <6>1. start <= y
            BY <1>a, <3>2, <4>1, <4>4
          <6> QED
            BY <1>a, <4>1, <4>4, <6>1
        <5>2. t \in 1..t /\ capture'[t] = p
          BY <1>3, <1>b, <3>3
        <5> QED
          BY <5>1, <5>2 DEF Carries
      <4>5. CASE p.last - o + 1 <= y
        <5>1. PICK h \in pending : h.start <= y /\ y < h.start + Len(h.chunk)
          BY <3>2, <4>1, <4>5
        <5>2. /\ h.time \in DOMAIN capture /\ capture[h.time].first = o + h.start
              /\ h.chunk = Payload(capture[h.time])
          BY <1>6 DEF ReadInvFrom
        <5> DEFINE q == capture[h.time]
        <5>3. q \in Packet
          BY <1>3, <5>2, ElementOfSeq
        <5>4. h.start \in Int
          BY <1>5 DEF HeldType
        <5>5. /\ q.first \in Int /\ q.last \in Int /\ q.first = o + h.start
              /\ Len(h.chunk) = q.last - q.first + 1
          <6>1. q.first = o + h.start /\ h.chunk = Payload(q)
            BY <5>2
          <6> HIDE DEF q
          <6> QED
            BY <5>3, <6>1, PacketFacts, ConstantFacts
        <5> HIDE DEF q
        <5>6. q.first <= y + o /\ y + o <= q.last
          BY <1>3, <4>1, <5>1, <5>4, <5>5
        <5>7. Carries(q, y + o)
          BY <5>6 DEF Carries
        <5> QED
          BY <4>2, <5>2, <5>7 DEF q
      <4> QED
        BY <1>3, <1>4, <1>5, <4>1, <4>3, <4>4, <4>5
    <3>6. ~shadowed' => \E y \in 0..x : FirstAt(y + o, t)'
      <4> HAVE ~shadowed'
      <4>1. PICK b : b = d + o
        OBVIOUS
      <4>2. \A u : ~FirstAt(b, u)
        <5>1. ~shadowed
          BY <1>7
        <5> QED
          BY <1>a, <1>d, <1>3, <1>5, <1>6, <4>1, <5>1, GapNotCarried DEF FirstAt
      <4>3. Carries(p, b)
        <5>1. start <= d /\ d < p.last - o + 1
          BY <3>2
        <5>2. p.first <= b /\ b <= p.last
          BY <1>a, <4>1, <5>1
        <5> QED
          BY <5>2 DEF Carries
      <4>4. FirstAt(b, ns)'
        BY <1>n, <4>2, <4>3, FirstAtNext
      <4>5. d \in 0..x /\ FirstAt(d + o, t)'
        BY <1>5, <3>3, <4>1, <4>4
      <4> QED
        BY <4>5
    <3> QED
      BY <3>4, <3>5, <3>6
  <2> QED
    BY <2>4, <2>5
<1>15. KeptOK'
  <2> SUFFICES ASSUME ~shadowed', NEW k \in DOMAIN capture', capture'[k].last - o >= e
               PROVE  \E h \in pending' :
                        /\ h.start = capture'[k].first - o
                        /\ Len(h.chunk) >= Len(Payload(capture'[k]))
    BY <1>e, <1>1 DEF KeptOK, Payload
  <2> DEFINE q == capture'[k]
  <2>1. ASSUME k \in DOMAIN capture, q.last - o >= d
        PROVE  \E h \in pending : h.start = q.first - o /\ Len(h.chunk) >= Len(Payload(q))
    <3>1. q = capture[k]
      BY <1>3, <2>1
    <3> QED
      BY <1>d, <1>6, <1>7, <2>1, <3>1 DEF ReadInvFrom
  <2>2. k \in DOMAIN capture \/ q = p
    BY <1>n, <1>3
  <2>3. q.last - o >= e
    OBVIOUS
  <2>4. /\ q.first \in Int /\ q.last \in Int /\ Len(Payload(q)) = q.last - q.first + 1
    <3>1. q \in Packet
      BY <1>3, ElementOfSeq DEF BaseOK
    <3> HIDE DEF q
    <3> QED
      BY <3>1, PacketFacts, ConstantFacts
  <2> HIDE DEF q
  <2>5. CASE Kept
    <3>1. e = d
      BY <1>e, <1>d, <2>5
    <3> QED
      BY <1>2, <2>1, <2>2, <2>3, <2>5, <3>1 DEF q
  <2>6. CASE Held
    <3>1. e = d
      BY <1>e, <1>d, <2>6
    <3>2. CASE k \in DOMAIN capture
      BY <2>1, <2>3, <2>6, <3>1, <3>2 DEF q
    <3>3. CASE q = p
      <4> DEFINE h == [start |-> start, time |-> ns, chunk |-> Payload(p)]
      <4>1. h \in pending'
        BY <2>6
      <4>2. h.start = q.first - o /\ h.chunk = Payload(q)
        BY <1>2, <3>3
      <4>3. Len(Payload(q)) >= Len(Payload(q))
        BY <2>4
      <4> QED
        BY <4>1, <4>2, <4>3 DEF q
    <3> QED
      BY <2>2, <3>2, <3>3
  <2>7. ASSUME NEW s0, On(s0)
        PROVE  \E h \in pending' : /\ h.start = q.first - o
                                   /\ Len(h.chunk) >= Len(Payload(q))
    <3>1. /\ d < p.last - o + 1 /\ p.last - o + 1 <= e /\ e \in Nat
          /\ \A h \in pending \ pending' : h.start + Len(h.chunk) <= e
      BY <1>11, <2>7
    <3>2. q # p /\ q.last - o >= d
      <4>1. d < e
        BY <1>a, <3>1
      <4>2. ~(p.last - o >= e) /\ q.last - o \in Int
        BY <1>a, <2>4, <3>1
      <4>3. \A a, b, c \in Int : a >= b /\ c < b => a >= c
        OBVIOUS
      <4> QED
        BY <1>a, <2>3, <3>1, <4>1, <4>2, <4>3
    <3>3. PICK h \in pending : h.start = q.first - o /\ Len(h.chunk) >= Len(Payload(q))
      BY <2>1, <2>2, <3>2
    <3>4. h.start \in Int /\ Len(h.chunk) \in Nat
      <4>1. h \in HeldType
        BY <1>5
      <4>2. h.start \in Int /\ h.chunk \in Seq(Int)
        BY <4>1 DEF HeldType
      <4> QED
        BY <4>2, LenProperties
    <3>5. ~(h.start + Len(h.chunk) <= e)
      <4>1. \A a, b, c, m, n, z \in Int :
              /\ a - z >= c /\ m = a - b + 1 /\ n >= m => ~(b - z + n <= c)
        OBVIOUS
      <4>2. q.last - o >= e /\ q.first \in Int /\ q.last \in Int
        BY <2>3, <2>4
      <4>3. Len(Payload(q)) = q.last - q.first + 1 /\ Len(h.chunk) >= Len(Payload(q))
        BY <2>4, <3>3
      <4>4. h.start = q.first - o /\ Len(h.chunk) \in Int /\ Len(Payload(q)) \in Int
        BY <2>4, <3>3, <3>4
      <4>5. o \in Int /\ e \in Int
        BY <1>a, <3>1
      <4> QED
        BY <4>1, <4>2, <4>3, <4>4, <4>5
    <3> QED
      BY <3>1, <3>3, <3>5
  <2> QED
    BY <1>10, <2>5, <2>6, <2>7 DEF q
<1> QED
  BY <1>8, <1>12, <1>13, <1>14, <1>15 DEF ReadInv

LEMMA ReadInit == Init => ReadInv
<1> SUFFICES ASSUME Init PROVE ReadInv
  OBVIOUS
<1>1. data = <<>> /\ runs = <<>> /\ pending = {} /\ capture = <<>> /\ shadowed = FALSE
  BY DEF Init
<1>2. /\ <<>> \in Seq(Int) /\ <<>> \in Seq(RunType) /\ DOMAIN <<>> = {} /\ Len(<<>>) = 0
      /\ {} \subseteq HeldType
  OBVIOUS
<1>3. StreamOK
  <2>1. Now \in StreamType
    BY <1>1, <1>2 DEF Now, StreamType
  <2>2. IsFiniteSet(pending)
    BY <1>1, FS_EmptySet
  <2> QED
    BY <1>1, <1>2, <2>1, <2>2 DEF StreamOK, RunsOK, OwnBytes
<1>4. HeldOK
  BY <1>1 DEF HeldOK
<1>5. TimesOK
  BY <1>1, <1>2 DEF TimesOK, ReadAt
<1>6. KeptOK
  BY <1>1, <1>2 DEF KeptOK
<1> QED
  BY <1>1, <1>3, <1>4, <1>5, <1>6 DEF ReadInv

\* The stream stands still when the capture does.
LEMMA ReadStutter == ReadInv /\ UNCHANGED vars => ReadInv'
<1> SUFFICES ASSUME ReadInv, UNCHANGED vars PROVE ReadInv'
  OBVIOUS
<1>1. /\ isn' = isn /\ base' = base /\ data' = data /\ runs' = runs
      /\ pending' = pending /\ capture' = capture /\ shadowed' = shadowed
  BY DEF vars, stream
<1>2. Origin' = Origin /\ Now' = Now
  BY <1>1 DEF Origin, Now
<1>3. StreamOK'
  BY <1>1, <1>2 DEF ReadInv, StreamOK
<1>4. HeldOK'
  BY <1>1, <1>2 DEF ReadInv, HeldOK
<1>5. TimesOK'
  <2>1. \A byte, t : FirstAt(byte, t)' <=> FirstAt(byte, t)
    BY <1>1 DEF FirstAt
  <2> QED
    BY <1>1, <1>2, <2>1 DEF ReadInv, TimesOK
<1>6. KeptOK'
  BY <1>1, <1>2 DEF ReadInv, KeptOK
<1> QED
  BY <1>1, <1>3, <1>4, <1>5, <1>6 DEF ReadInv

LEMMA ReadInvariant == Spec => [](BaseOK /\ ReadInv)
<1>1. Init => BaseOK /\ ReadInv
  BY LeftInit, ReadInit DEF LeftInv
<1>2. BaseOK /\ ReadInv /\ [Next]_vars => (BaseOK /\ ReadInv)'
  <2> SUFFICES ASSUME BaseOK, ReadInv, [Next]_vars PROVE BaseOK' /\ ReadInv'
    OBVIOUS
  <2>1. CASE \E p \in Packet : Capture(p)
    BY <2>1, CaptureFacts, ReadStep
  <2>2. CASE UNCHANGED vars
    <3>1. isn' = isn /\ base' = base /\ capture' = capture
      BY <2>2 DEF vars, stream
    <3>2. Origin' = Origin
      BY <3>1 DEF Origin
    <3> QED
      BY <2>2, <3>1, <3>2, ReadStutter DEF BaseOK
  <2> QED
    BY <2>1, <2>2 DEF Next, Over
<1> QED
  BY <1>1, <1>2, PTL DEF Spec

\* A set of naturals that has a bound has a greatest member.
LEMMA MaxFacts ==
  ASSUME NEW t \in Nat, NEW S, S \subseteq 0..t, S # {}
  PROVE  Max(S) \in S /\ \A k \in S : k <= Max(S)
<1> DEFINE Down == {t - k : k \in S}
<1>1. Down \subseteq Nat /\ Down # {}
  OBVIOUS
<1>2. PICK m \in Down : \A n \in Down : m <= n
  <2> HIDE DEF Down
  <2> QED
    BY <1>1, LeastMember
<1>3. PICK x \in S : m = t - x
  BY <1>2
<1>4. \A k \in S : x >= k
  <2> TAKE k \in S
  <2>1. m <= t - k /\ k \in Nat /\ x \in Nat
    BY <1>2
  <2> QED
    BY <1>3, <2>1
<1>5. Max(S) \in S /\ \A k \in S : Max(S) >= k
  <2>1. \E y \in S : \A k \in S : y >= k
    BY <1>4
  <2> QED
    BY <2>1, Zenon DEF Max
<1> DEFINE y == Max(S)
<1>6. y \in S /\ \A k \in S : y >= k
  BY <1>5
<1> HIDE DEF y
<1>7. \A k \in S : k <= y
  <2> TAKE k \in S
  <2>1. y >= k /\ y \in Nat /\ k \in Nat
    BY <1>6
  <2> QED
    BY <2>1
<1> QED
  BY <1>6, <1>7 DEF y

\* A place with no byte before it missing by t is readable by t.
LEMMA SeenBy ==
  ASSUME capture \in Seq(Packet), Origin \in Int, NEW x \in Nat, NEW byte, byte = x + Origin,
         NEW t \in DOMAIN capture,
         \A y \in 0..x : \E k \in 1..t : Carries(capture[k], y + Origin)
  PROVE  /\ FirstReadable(byte) # None /\ FirstReadable(byte) <= t
         /\ (\E y \in 0..x : FirstAt(y + Origin, t)) => FirstReadable(byte) = t
<1>1. PICK o \in Int : o = Origin
  OBVIOUS
<1> DEFINE Seen == {FirstCarrying(b) : b \in o..byte}
<1>2. t \in Nat /\ DOMAIN capture = 1..Len(capture) /\ Len(capture) \in Nat
  BY LenProperties
<1>3. ASSUME NEW b \in o..byte
      PROVE  FirstCarrying(b) \in 1..t
  <2>1. b - o \in 0..x /\ (b - o) + o = b
    BY <1>1
  <2>2. PICK k \in 1..t : Carries(capture[k], b)
    BY <1>1, <2>1
  <2>3. k \in DOMAIN capture
    BY <1>2
  <2>4. PICK u \in DOMAIN capture : FirstAt(b, u) /\ u <= k
    BY <2>2, <2>3, FirstExists
  <2>5. FirstCarrying(b) = u
    BY <2>4, FirstCarryingFacts
  <2> QED
    BY <1>2, <2>3, <2>4, <2>5
<1>4. Seen \subseteq 1..t
  BY <1>3
<1>5. Seen # {}
  <2>1. o \in o..byte
    BY <1>1
  <2> QED
    BY <2>1
<1>6. FirstReadable(byte) = IF None \in Seen THEN None ELSE Max(Seen)
  BY <1>1 DEF FirstReadable
<1>7. ASSUME NEW y \in 0..x, FirstAt(y + o, t) PROVE t \in Seen
  <2>1. PICK b : b = y + o
    OBVIOUS
  <2>2. b \in o..byte
    BY <1>1, <2>1
  <2>3. FirstCarrying(b) = t
    BY <1>7, <2>1, FirstCarryingFacts
  <2> QED
    BY <2>2, <2>3
<1> HIDE DEF Seen
<1>8. None \notin Seen
  BY <1>2, <1>4 DEF None
<1>9. Max(Seen) \in Seen /\ \A k \in Seen : k <= Max(Seen)
  <2>1. Seen \subseteq 0..t
    BY <1>2, <1>4
  <2> QED
    BY <1>2, <1>5, <2>1, MaxFacts
<1> DEFINE r == FirstReadable(byte)
<1>10. r \in Seen /\ \A k \in Seen : k <= r
  BY <1>6, <1>8, <1>9
<1> HIDE DEF r
<1>11. r # None /\ r <= t /\ r \in Nat
  BY <1>2, <1>4, <1>8, <1>10
<1>12. t \in Seen => r = t
  BY <1>2, <1>10, <1>11
<1> QED
  BY <1>1, <1>7, <1>11, <1>12 DEF r

LEMMA ReadInvGives == BaseOK /\ ReadInv => ReadableOnTime
<1> SUFFICES ASSUME BaseOK, ReadInv, capture # <<>> PROVE
      /\ \A i \in DOMAIN data : data[i] = Origin + i - 1
      /\ \A byte \in Origin..(Bytes - 1) :
           IF shadowed
           THEN ReadableAs(byte) # None =>
                  FirstReadable(byte) # None /\ ReadableAs(byte) >= FirstReadable(byte)
           ELSE ReadableAs(byte) = FirstReadable(byte)
  BY DEF ReadableOnTime
<1>1. PICK o : o = Origin
  OBVIOUS
<1>2. capture \in Seq(Packet) /\ o \in Nat /\ Bytes \in Nat
  BY <1>1, ConstantFacts DEF BaseOK
<1>3. /\ Now \in StreamType /\ IsFiniteSet(pending) /\ RunsOK(runs, Len(data))
      /\ OwnBytes(data, 0, o)
  BY <1>1 DEF ReadInv, StreamOK
<1>4. data \in Seq(Int) /\ runs \in Seq(RunType) /\ pending \subseteq HeldType /\ Len(data) \in Nat
  BY <1>3, StreamFacts
<1>5. ReadInvFrom(o)
  BY <1>1 DEF ReadInv, ReadInvFrom, StreamOK, HeldOK, TimesOK, KeptOK
<1>6. \A i \in DOMAIN data : data[i] = o + i - 1
  <2> TAKE i \in DOMAIN data
  <2>1. i \in Int
    BY <1>4, LenProperties
  <2>2. data[i] = o + 0 + i - 1
    BY <1>3 DEF OwnBytes
  <2> QED
    BY <1>2, <2>1, <2>2
<1>7. ASSUME NEW byte \in o..(Bytes - 1)
      PROVE  IF shadowed
             THEN ReadableAs(byte) # None =>
                    FirstReadable(byte) # None /\ ReadableAs(byte) >= FirstReadable(byte)
             ELSE ReadableAs(byte) = FirstReadable(byte)
  <2>1. PICK x \in Nat : x = byte - o /\ byte = x + o
    <3>1. byte - o \in Nat /\ byte = (byte - o) + o
      BY <1>2
    <3> QED
      BY <3>1
  <2>2. PICK i : i = After([k \in DOMAIN runs |-> runs[k].end], x)
    OBVIOUS
  <2>3. ReadableAs(byte) = IF i <= Len(runs) THEN runs[i].time ELSE None
    <3>1. ReadableAs(byte) = Readable(x)
      BY <1>1, <2>1 DEF ReadableAs
    <3> QED
      BY <2>2, <3>1 DEF Readable
  <2>4. /\ x < Len(data) => i \in DOMAIN runs /\ ReadAt(runs, x, runs[i].time)
        /\ x >= Len(data) => i = Len(runs) + 1
    BY <1>3, <1>4, <2>2, ReadableFacts
  <2>5. DOMAIN runs = 1..Len(runs) /\ Len(runs) \in Nat
    BY <1>4, LenProperties
  <2>6. CASE x < Len(data)
    <3>1. PICK t : t = runs[i].time
      OBVIOUS
    <3>2. ReadableAs(byte) = t /\ ReadAt(runs, x, t)
      BY <2>3, <2>4, <2>5, <2>6, <3>1
    <3>3. x \in 0..(Len(data) - 1)
      BY <1>4, <2>6
    <3>4. /\ t \in DOMAIN capture
          /\ \A y \in 0..x : \E k \in 1..t : Carries(capture[k], y + o)
          /\ ~shadowed => \E y \in 0..x : FirstAt(y + o, t)
      BY <1>5, <3>2, <3>3 DEF ReadInvFrom
    <3> DEFINE r == FirstReadable(byte)
    <3>5. r # None /\ r <= t /\ ((\E y \in 0..x : FirstAt(y + o, t)) => r = t)
      <4>1. /\ capture \in Seq(Packet) /\ Origin \in Int /\ x \in Nat /\ byte = x + Origin
            /\ t \in DOMAIN capture
            /\ \A y \in 0..x : \E k \in 1..t : Carries(capture[k], y + Origin)
        BY <1>1, <1>2, <2>1, <3>4
      <4>2. /\ r # None /\ r <= t
            /\ (\E y \in 0..x : FirstAt(y + Origin, t)) => r = t
        BY <4>1, SeenBy
      <4> QED
        BY <1>1, <4>2
    <3> HIDE DEF r
    <3>6. t \in Int /\ r <= t => t >= r
      <4>1. t \in Nat
        BY <1>2, <3>4, LenProperties
      <4> QED
        BY <4>1
    <3>7. t \in Int
      BY <1>2, <3>4, LenProperties
    <3> QED
      BY <3>2, <3>4, <3>5, <3>6, <3>7 DEF r
  <2>7. CASE x >= Len(data)
    <3>1. ReadableAs(byte) = None
      BY <2>3, <2>4, <2>5, <2>7
    <3>2. ASSUME ~shadowed PROVE FirstReadable(byte) = None
      <4>1. PICK b : b = Len(data) + o
        OBVIOUS
      <4>2. b \in o..byte
        BY <1>2, <1>4, <2>1, <2>7, <4>1
      <4>3. \A k \in DOMAIN capture : ~Carries(capture[k], b)
        BY <1>2, <1>4, <1>5, <3>2, <4>1, GapNotCarried
      <4>4. \A u : ~FirstAt(b, u)
        BY <4>3 DEF FirstAt
      <4>5. FirstCarrying(b) = None
        BY <1>2, <4>4, FirstCarryingFacts
      <4> QED
        BY <1>1, <4>2, <4>5 DEF FirstReadable
    <3> QED
      BY <3>1, <3>2
  <2> QED
    BY <1>4, <2>1, <2>6, <2>7
<1> QED
  BY <1>1, <1>6, <1>7

\* The reassembled bytes are the stream's own, none twice and none left out, and
\* each is readable from the moment it and every byte before it had been seen,
\* unless a packet held back hid a longer one; and never earlier even then
\* (recv_wait.Stream).
THEOREM ReadableOnTimeAlways == Spec => []ReadableOnTime
  BY ReadInvariant, ReadInvGives, PTL

=============================================================================
