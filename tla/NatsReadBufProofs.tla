------------------------- MODULE NatsReadBufProofs -------------------------
(***************************************************************************)
(* The read buffer is right for every initial size, limit, payload and     *)
(* message length.                                                         *)
(***************************************************************************)
EXTENDS NatsReadBuf, NatsBufProofs

\* What ParsesStream and RecvRoom rest on: also a closed connection leaves a
\* buffer that is larger than two bytes, recv() leaves its last byte free, and
\* between two calls of recv() the readable bytes are at the front.
ReadInv ==
    /\ taken \in Nat /\ received \in Nat /\ len \in Nat
    /\ pc \in {"recv", "process", "closed"}
    /\ r.cap \in Nat /\ r.cap > 2
    /\ pc # "closed" => Holds(r, taken) /\ r.end - r.pos = received - taken
    /\ pc # "closed" => r.end <= r.cap - 1
    /\ pc = "recv" => r.pos = 0 /\ r.end < r.cap - 1

LEMMA ReadInit == Init => ReadInv
<1> SUFFICES ASSUME Init PROVE ReadInv
  OBVIOUS
<1>1. r.pos = 0 /\ r.end = 0 /\ r.cap = InitSize
  BY DEF Init, Create
<1> QED
  BY <1>1, BufAssumption, ReadAssumption DEF Init, ReadInv, Holds, Lens

LEMMA ReadNext == ReadInv /\ [Next]_vars => ReadInv'
<1> SUFFICES ASSUME ReadInv, [Next]_vars PROVE ReadInv'
  OBVIOUS
<1>1. CASE Recv
  <2>1. PICK n \in 1 .. Room : received' = received + n /\ r' = Write(r, received, n)
    BY <1>1 DEF Recv
  <2>2. /\ Holds(r, taken) /\ r.pos = 0 /\ r.end < r.cap - 1
        /\ received = taken + (r.end - r.pos)
        /\ r.pos \in Nat /\ r.end \in Nat /\ r.cap \in Nat
    BY <1>1, HoldsFacts DEF Recv, ReadInv
  <2>3. n \in Nat /\ r.end + n <= r.cap - 1
    BY <2>1, <2>2 DEF Room
  <2>4. /\ Holds(r', taken) /\ r'.pos = r.pos /\ r'.end = r.end + n /\ r'.cap = r.cap
    BY <2>1, <2>2, <2>3, WriteHolds DEF ReadInv
  <2> QED
    BY <1>1, <2>1, <2>2, <2>3, <2>4 DEF Recv, ReadInv
<1>2. CASE ProcessEnd
  <2>1. /\ Holds(r, taken) /\ r.end - r.pos = received - taken /\ r.pos = r.end
        /\ r.end - r.pos = 0
    BY <1>2, HoldsFacts DEF ProcessEnd, ReadInv
  <2>2. /\ Holds(r', taken) /\ r'.pos = 0 /\ r'.end = r.end - r.pos /\ r'.cap = r.cap
    BY <1>2, <2>1, CompactHolds DEF ProcessEnd, ReadInv
  <2> QED
    BY <1>2, <2>1, <2>2 DEF ProcessEnd, ReadInv
<1>3. CASE ProcessMessage
  <2>1. /\ Holds(r, taken) /\ r.end - r.pos = received - taken /\ len <= r.end - r.pos
        /\ r.pos \in Nat /\ r.end \in Nat /\ r.cap \in Nat
    BY <1>3, HoldsFacts DEF ProcessMessage, ReadInv
  <2>2. /\ Holds(r', taken + len) /\ r'.pos = r.pos + len /\ r'.end = r.end /\ r'.cap = r.cap
    BY <1>3, <2>1, AdvanceHolds DEF ProcessMessage, ReadInv
  <2>3. taken' = taken + len /\ len' \in Nat /\ UNCHANGED <<received, pc>> /\ pc = "process"
    BY <1>3, ReadAssumption DEF ProcessMessage, Lens
  <2> QED
    BY <2>1, <2>2, <2>3 DEF ReadInv
<1>4. CASE ProcessPartial
  <2> DEFINE b == Compact(r)
  <2>1. /\ Holds(b, taken) /\ b.pos = 0 /\ b.end = r.end - r.pos /\ b.cap = r.cap
        /\ r.end - r.pos = received - taken /\ b.end \in Nat /\ b.cap \in Nat
        /\ b.end <= b.cap - 1
    BY <1>4, HoldsFacts, CompactHolds DEF ProcessPartial, Partial, ReadInv
  <2> HIDE DEF b
  <2>2. CASE Full(b)
    <3>1. r' \in Ensure(b, r.cap - 1, 0)
      BY <1>4, <2>2 DEF ProcessPartial, b
    <3>4. r.cap - 1 \in Nat /\ taken \in Nat
      BY DEF ReadInv
    <3>2. /\ Holds(r', taken) /\ r'.end + (r.cap - 1) <= r'.cap
          /\ r'.end - r'.pos = b.end - b.pos /\ r'.cap >= b.cap /\ (b.pos = 0 => r'.pos = 0)
      BY <2>1, <3>1, <3>4, EnsureHolds
    <3>3. r'.end \in Nat /\ r'.cap \in Nat
      BY <3>2, <3>4, HoldsFacts
    <3> QED
      BY <1>4, <2>1, <3>2, <3>3 DEF ProcessPartial, ReadInv
  <2>3. CASE ~Full(b)
    <3>1. r' = b /\ b.end < b.cap - 1
      BY <1>4, <2>1, <2>3 DEF ProcessPartial, b, Full
    <3> QED
      BY <1>4, <2>1, <3>1 DEF ProcessPartial, ReadInv
  <2> QED
    BY <2>2, <2>3
<1>5. CASE ProcessTooLong
  <2>1. Compact(r).cap = r.cap
    BY <1>5, CompactHolds DEF ProcessTooLong, Partial, ReadInv
  <2>2. r'.cap = r.cap
    BY <1>5, <2>1, ResetHolds DEF ProcessTooLong, ReadInv
  <2> QED
    BY <1>5, <2>2 DEF ProcessTooLong, ReadInv
<1>6. CASE Disconnect
  <2>1. r'.cap = r.cap
    BY <1>6, ResetHolds DEF Disconnect, ReadInv
  <2> QED
    BY <1>6, <2>1 DEF Disconnect, ReadInv
<1>7. CASE Reconnect
  <2>1. Holds(r', 0) /\ r'.pos = 0 /\ r'.end = 0 /\ r'.cap = r.cap
    BY <1>7, ResetHolds DEF Reconnect, ReadInv
  <2>2. len' \in Nat
    BY <1>7, ReadAssumption DEF Reconnect, Lens
  <2> QED
    BY <1>7, <2>1, <2>2 DEF Reconnect, ReadInv
<1>8. CASE UNCHANGED vars
  BY <1>8 DEF vars, ReadInv, Holds
<1> QED
  BY <1>1, <1>2, <1>3, <1>4, <1>5, <1>6, <1>7, <1>8 DEF Next, Process

LEMMA ReadCorrect == Spec => []ReadInv
BY ReadInit, ReadNext, PTL DEF Spec

\* The parser always sees the unparsed rest of what the server sent, for every
\* buffer size and limit, every length of messages and every way recv() cuts the
\* stream.
THEOREM ReadBufCorrect == Spec => []ParsesStream
<1>1. ReadInv => ParsesStream
  BY DEF ReadInv, ParsesStream
<1> QED
  BY <1>1, ReadCorrect, PTL

\* recv() always has room: ngx_nats_process_buffer never returns to it with a
\* full buffer, which recv() would take for a disconnect.
THEOREM RecvRoomCorrect == Spec => []RecvRoom
<1>1. ReadInv => RecvRoom
  BY HoldsFacts DEF ReadInv, RecvRoom, Room
<1> QED
  BY <1>1, ReadCorrect, PTL

=============================================================================
