--------------------------------- MODULE Wire ---------------------------------
(***************************************************************************)
(* One direction of a TCP connection as a packet capture saw it, and the   *)
(* two records the readers keep of it: when each byte first went by        *)
(* (client_wire.Sent) and when each byte could first be read               *)
(* (recv_wait.Stream).  Every time a message is given rests on these two.  *)
(*                                                                         *)
(* A packet carries the bytes first..last of the stream, a byte being its  *)
(* place there from 0.  The capture may see packets in any order, twice,   *)
(* or cut another way when they are sent again, may miss some, and may     *)
(* begin after the connection did.  Its clock is the number of packets it  *)
(* has seen.                                                               *)
(***************************************************************************)
EXTENDS Integers, SequencesExt, FiniteSetsExt

CONSTANTS
  Bytes,       \* how long the stream is
  Segment,     \* the longest packet
  Space,       \* the sequence numbers there are, 2^32 of them in TCP
  FirstSeqs,   \* the sequence numbers the stream's first byte may have
  MaxPackets   \* bound: how many packets the capture sees

\* offset tells what lies before the stream's start from what lies ahead of it
\* as long as the stream is shorter than half the sequence numbers.
ASSUME WireAssumption ==
  /\ {Bytes, Segment, Space, MaxPackets} \subseteq Nat \ {0}
  /\ 2 * Bytes <= Space
  /\ FirstSeqs \subseteq 0..(Space - 1)

Packet == {p \in [first : 0..(Bytes - 1), last : 0..(Bytes - 1)] :
             p.first <= p.last /\ p.last - p.first < Segment}

VARIABLES
  isn,       \* the sequence number of the stream's first byte
  base,      \* Stream.base, or None
  data,      \* Stream.data, each byte by its place in the stream
  runs,      \* Stream.ends and Stream.times
  pending,   \* Stream.pending
  pieces,    \* Sent.starts, Sent.ends and Sent.times
  resent,    \* Conn.resent, each by its place in the capture
  capture,   \* the packets, in the order the capture saw them
  shadowed   \* whether a packet was held back for a longer one with its start

stream == <<base, data, runs, pending>>
vars   == <<isn, stream, pieces, resent, capture, shadowed>>

None == -1

Payload(p) == [i \in 1..(p.last - p.first + 1) |-> p.first + i - 1]

\* The first place in a sorted sequence that holds more than x (bisect_right).
After(s, x) == Cardinality({i \in DOMAIN s : s[i] <= x}) + 1

SeqNumber(p) == (isn + p.first) % Space

\* The capture holds the connection's SYN, or begins after it.
Init ==
  /\ isn \in FirstSeqs
  /\ base \in {None, isn}
  /\ data = <<>> /\ runs = <<>> /\ pending = {}
  /\ pieces = <<>> /\ resent = {} /\ capture = <<>> /\ shadowed = FALSE

-----------------------------------------------------------------------------
(***************************************************************************)
(* recv_wait.Stream.                                                       *)
(***************************************************************************)
\* offset: where a sequence number falls in the stream, wrap-around included.
Offset(seq, from) ==
  LET rel == (seq - from) % Space
  IN IF 2 * rel >= Space THEN rel - Space ELSE rel

\* _append.
Appended(s, ns, chunk) ==
  [s EXCEPT !.data = @ \o chunk,
            !.runs = Append(@, [end |-> Len(s.data) + Len(chunk), time |-> ns])]

\* What of a chunk that begins at start lies beyond the data.
Beyond(s, start, chunk) == SubSeq(chunk, Len(s.data) - start + 1, Len(chunk))

\* Slip: what was held back is given the time it came at.
HeldTimeOwn(then, ns) == then

\* max(then, ns): what was held back is readable when the gap before it fills.
HeldTime(then, ns) == IF then > ns THEN then ELSE ns

\* One turn of the loop over the pending packets, from the lowest start up to
\* the next gap.
FirstHeld(held) == CHOOSE h \in held : \A g \in held : h.start <= g.start

Release(s, ns) ==
  LET held == FirstHeld(s.pending)
      rest == [s EXCEPT !.pending = @ \ {held}]
  IN IF s.pending = {} \/ held.start > Len(s.data) THEN s
     ELSE IF held.start + Len(held.chunk) <= Len(s.data) THEN rest
     ELSE Appended(rest, HeldTime(held.time, ns), Beyond(s, held.start, held.chunk))

\* The loop: a turn for each of them.
Released(s, ns) ==
  LET loop[n \in 0..Cardinality(s.pending)] ==
        IF n = 0 THEN s ELSE Release(loop[n - 1], ns)
  IN loop[Cardinality(s.pending)]

HeldAt(s, start) == {h \in s.pending : h.start = start}

\* add.  Of two packets ahead of a gap that begin alike the first one is kept.
Added(s, ns, start, chunk) ==
  IF start > Len(s.data)
  THEN IF HeldAt(s, start) # {} THEN s
       ELSE [s EXCEPT !.pending = @ \union {[start |-> start, time |-> ns, chunk |-> chunk]}]
  ELSE IF start + Len(chunk) <= Len(s.data) THEN s
  ELSE Released(Appended(s, ns, Beyond(s, start, chunk)), ns)

\* readable, of a place in the stream as offset counts it.
Readable(offset) ==
  LET i == After([k \in DOMAIN runs |-> runs[k].end], offset)
  IN IF i <= Len(runs) THEN runs[i].time ELSE None

-----------------------------------------------------------------------------
(***************************************************************************)
(* client_wire.Sent.                                                       *)
(***************************************************************************)
Piece(start, end, ns) == [start |-> start, end |-> end, time |-> ns]

\* One turn of add's walk over the pieces a packet overlaps: past a piece, or to
\* the next one, putting down only what lies between them.
Turn(w, end, ns) ==
  IF w.start >= end THEN w
  ELSE IF w.i <= Len(w.q) /\ w.q[w.i].start <= w.start
  THEN [w EXCEPT !.i = @ + 1, !.start = w.q[w.i].end]
  ELSE LET stop == IF w.i > Len(w.q) \/ end <= w.q[w.i].start THEN end ELSE w.q[w.i].start
       IN [q |-> InsertAt(w.q, w.i, Piece(w.start, stop, ns)), i |-> w.i + 1, start |-> stop]

\* The walk: each turn goes on by one byte at least.
Filled(q, i, start, end, ns) ==
  LET walk[n \in 0..(end - start)] ==
        IF n = 0 THEN [q |-> q, i |-> i, start |-> start] ELSE Turn(walk[n - 1], end, ns)
  IN walk[end - start].q

\* Slip: the walk stops at the first piece that is there already.
FilledOnce(q, ns, start, end) ==
  IF q = <<>> \/ start >= Last(q).end THEN Append(q, Piece(start, end, ns))
  ELSE LET i == After([k \in DOMAIN q |-> q[k].end], start)
       IN IF q[i].start <= start THEN q
          ELSE InsertAt(q, i, Piece(start, IF end <= q[i].start THEN end ELSE q[i].start, ns))

\* add.
Put(q, ns, start, end) ==
  IF q = <<>> \/ start >= Last(q).end THEN Append(q, Piece(start, end, ns))
  ELSE Filled(q, After([k \in DOMAIN q |-> q[k].end], start), start, end, ns)

\* at: the piece that begins last at or before the byte, if it reaches it.
At(q, offset) ==
  LET i == After([k \in DOMAIN q |-> q[k].start], offset) - 1
  IN IF i >= 1 /\ offset < q[i].end THEN q[i].time ELSE None

\* covers: the piece the packet begins in, or the one after its start.
Covers(q, start, end) ==
  LET i == After([k \in DOMAIN q |-> q[k].start], start) - 1
  IN \/ i >= 1 /\ q[i].end > start
     \/ i + 1 <= Len(q) /\ q[i + 1].start < end

-----------------------------------------------------------------------------
\* connections_of, for one packet that carries bytes.
Capture(p) ==
  /\ Len(capture) < MaxPackets
  /\ LET from  == IF base = None THEN SeqNumber(p) ELSE base
         start == Offset(SeqNumber(p), from)
         end   == start + Len(Payload(p))
         ns    == Len(capture) + 1
         old   == [data |-> data, runs |-> runs, pending |-> pending]
         new   == Added(old, ns, start, Payload(p))
     IN /\ base' = from
        /\ data' = new.data /\ runs' = new.runs /\ pending' = new.pending
        /\ resent' = IF Covers(pieces, start, end) THEN resent \union {ns} ELSE resent
        /\ pieces' = Put(pieces, ns, start, end)
        /\ shadowed' = (shadowed \/ (start > Len(data) /\ \E h \in HeldAt(old, start) :
                                       Len(h.chunk) < Len(Payload(p))))
  /\ capture' = Append(capture, p)
  /\ UNCHANGED isn

\* The capture is over.
Over == Len(capture) = MaxPackets /\ UNCHANGED vars

Next == (\E p \in Packet : Capture(p)) \/ Over

Spec == Init /\ [][Next]_vars

-----------------------------------------------------------------------------
(***************************************************************************)
(* What the records should say, from the capture alone.  A capture that    *)
(* holds no SYN counts from its first packet.                              *)
(***************************************************************************)
Origin == IF base = isn THEN 0 ELSE capture[1].first

Carries(p, byte) == p.first <= byte /\ byte <= p.last

\* The first packet that carried a byte.
FirstCarrying(byte) ==
  LET found == {k \in DOMAIN capture : Carries(capture[k], byte)}
  IN IF found = {} THEN None ELSE Min(found)

\* A byte can be read once it and every byte before it, from the origin on,
\* have been seen.
FirstReadable(byte) ==
  LET seen == {FirstCarrying(b) : b \in Origin..byte}
  IN IF None \in seen THEN None ELSE Max(seen)

ReadableAs(byte) == Readable(byte - Origin)

\* Every byte is given the time of the first packet that carried it, however
\* often, in whatever order and in whatever pieces it went by again, and a
\* packet is counted as sent again when the capture had seen some of it
\* (client_wire.Sent, Conn.resent).
LeftIsFirst ==
  capture # <<>> =>
    /\ \A byte \in 0..(Bytes - 1) : At(pieces, byte - Origin) = FirstCarrying(byte)
    /\ resent = {k \in DOMAIN capture : \E j \in 1..(k - 1), byte \in 0..(Bytes - 1) :
                   Carries(capture[k], byte) /\ Carries(capture[j], byte)}

\* The reassembled bytes are the stream's own, none twice and none left out, and
\* each is readable from the moment it and every byte before it had been seen,
\* unless a packet held back hid a longer one; and never earlier even then
\* (recv_wait.Stream).
ReadableOnTime ==
  capture # <<>> =>
    /\ \A i \in DOMAIN data : data[i] = Origin + i - 1
    /\ \A byte \in Origin..(Bytes - 1) :
         IF shadowed
         THEN ReadableAs(byte) # None =>
                FirstReadable(byte) # None /\ ReadableAs(byte) >= FirstReadable(byte)
         ELSE ReadableAs(byte) = FirstReadable(byte)

\* "a byte is readable once it and every byte before it have arrived"
\* (recv_wait.py, Stream).
ReadableOnceArrived ==
  capture # <<>> =>
    \A byte \in Origin..(Bytes - 1) : ReadableAs(byte) = FirstReadable(byte)

=============================================================================
