------------------------- MODULE NatsWriteBufProofs -------------------------
(***************************************************************************)
(* When the write buffer is right: as long as it never has to grow while   *)
(* part of it is sent.                                                     *)
(***************************************************************************)
EXTENDS NatsWriteBuf, NatsBufProofs

WriteInv ==
    /\ sent \in Nat /\ queued \in Nat
    /\ Holds(w, sent) /\ w.end - w.pos = queued - sent

LEMMA WriteInit == Init => WriteInv
<1> SUFFICES ASSUME Init PROVE WriteInv
  OBVIOUS
<1>1. w.pos = 0 /\ w.end = 0 /\ w.cap = InitSize
  BY DEF Init, Create
<1> QED
  BY <1>1, BufAssumption DEF Init, WriteInv, Holds

LEMMA WriteNext ==
    ASSUME ~GrowsHalfSent
    PROVE  WriteInv /\ [Next]_vars => WriteInv'
<1> SUFFICES ASSUME WriteInv, [Next]_vars PROVE WriteInv'
  OBVIOUS
<1> USE BufAssumption, WriteAssumption
<1>0. /\ w.pos \in Nat /\ w.end \in Nat /\ w.cap \in Nat /\ w.pos <= w.end /\ w.end <= w.cap
      /\ sent \in Nat /\ queued \in Nat /\ Holds(w, sent) /\ w.end - w.pos = queued - sent
  BY HoldsFacts DEF WriteInv
<1>1. ASSUME NEW size \in 1 .. MaxLen, AddMessage(size) PROVE WriteInv'
  <2>1. PICK b \in Ensure(w, size, 1) : w' = Write(b, queued, size)
    BY <1>1 DEF AddMessage
  <2>2. size \in Nat
    OBVIOUS
  <2>3. w.pos = 0 \/ w.end - w.pos + size <= w.cap
    BY <1>0, <1>1, <2>2 DEF AddMessage
  <2>4. /\ Holds(b, sent) /\ b.end + size <= b.cap /\ b.end - b.pos = w.end - w.pos
        /\ b.cap >= w.cap
        /\ w.pos = 0 => b.pos = 0
    BY <1>0, <2>1, <2>2, <2>3, EnsureHolds
  <2>5. b.pos \in Nat /\ b.end \in Nat /\ b.cap \in Nat /\ queued = sent + (b.end - b.pos)
    BY <1>0, <2>4, HoldsFacts
  <2>6. Holds(w', sent) /\ w'.pos = b.pos /\ w'.end = b.end + size /\ w'.cap = b.cap
    BY <1>0, <2>1, <2>2, <2>4, <2>5, WriteHolds
  <2>7. queued' = queued + size /\ sent' = sent
    BY <1>1 DEF AddMessage
  <2> QED
    BY <1>0, <2>2, <2>4, <2>5, <2>6, <2>7 DEF WriteInv
<1>2. ASSUME NEW size \in 1 .. MaxLen, AddMessageFails(size) PROVE WriteInv'
  <2> DEFINE e == IF w.pos = w.end THEN Reset(w) ELSE w
  <2>1. Holds(e, sent) /\ e.end - e.pos = w.end - w.pos
    BY <1>0, ResetHolds
  <2>2. w' = e \/ w' = Move(e)
    BY <1>2 DEF AddMessageFails, MakeRoom
  <2> HIDE DEF e
  <2>3. Holds(w', sent) /\ w'.end - w'.pos = w.end - w.pos
    <3>1. e.end \in Nat /\ e.pos \in Nat
      BY <1>0, <2>1, HoldsFacts
    <3>2. Holds(Move(e), sent) /\ Move(e).pos = 0 /\ Move(e).end = e.end - e.pos
      BY <1>0, <2>1, MoveHolds
    <3>3. Move(e).end - Move(e).pos = e.end - e.pos
      BY <3>1, <3>2
    <3> QED
      BY <2>1, <2>2, <3>2, <3>3, Zenon
  <2>4. queued' = queued /\ sent' = sent
    BY <1>2 DEF AddMessageFails
  <2> QED
    BY <1>0, <2>3, <2>4 DEF WriteInv
<1>3. CASE Flush
  <2>1. PICK n \in 1 .. w.end - w.pos :
          /\ w' = IF w.pos + n = w.end THEN Reset(w) ELSE Advance(w, n)
          /\ sent' = sent + n
    BY <1>0, <1>3 DEF Flush
  <2>2. queued' = queued
    BY <1>3 DEF Flush
  <2>3. CASE w.pos + n = w.end
    <3>1. Holds(w', sent + n) /\ w'.pos = 0 /\ w'.end = 0 /\ w'.cap = w.cap
      BY <1>0, <2>1, <2>3, ResetHolds
    <3> QED
      BY <1>0, <2>1, <2>2, <2>3, <3>1 DEF WriteInv
  <2>4. CASE w.pos + n # w.end
    <3>1. Holds(w', sent + n) /\ w'.pos = w.pos + n /\ w'.end = w.end /\ w'.cap = w.cap
      BY <1>0, <2>1, <2>4, AdvanceHolds
    <3> QED
      BY <1>0, <2>1, <2>2, <2>4, <3>1 DEF WriteInv
  <2> QED
    BY <2>3, <2>4
<1>4. CASE Reconnect
  <2>1. Holds(w', 0) /\ w'.pos = 0 /\ w'.end = 0 /\ w'.cap = w.cap
    BY <1>0, <1>4, ResetHolds DEF Reconnect
  <2> QED
    BY <1>0, <1>4, <2>1 DEF Reconnect, WriteInv
<1>5. CASE UNCHANGED vars
  BY <1>5 DEF vars, WriteInv, Holds
<1> QED
  BY <1>1, <1>2, <1>3, <1>4, <1>5 DEF Next

\* The server gets the bytes that were appended, in order, whatever is
\* appended and sent, short sends, compaction and growth included, if the buffer
\* never has to grow while part of it is sent.
THEOREM WriteBufCorrect ==
    ASSUME ~GrowsHalfSent
    PROVE  Spec => []SendsStream
<1>1. WriteInv => SendsStream
  BY DEF WriteInv, SendsStream
<1>2. WriteInv /\ [Next]_vars => WriteInv'
  BY WriteNext
<1> QED
  BY <1>1, <1>2, WriteInit, PTL DEF Spec

=============================================================================
