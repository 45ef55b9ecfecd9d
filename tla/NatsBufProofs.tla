--------------------------- MODULE NatsBufProofs ---------------------------
(***************************************************************************)
(* What the operations of ngx_nats_buf_t keep: the readable bytes.         *)
(***************************************************************************)
EXTENDS NatsBuf, TLAPS

\* A buffer that holds the stream from byte f on: the hypotheses in arithmetic
LEMMA HoldsFacts ==
    ASSUME NEW b, NEW f \in Nat, Holds(b, f)
    PROVE  /\ b.pos \in Nat /\ b.end \in Nat /\ b.cap \in Nat
           /\ b.pos <= b.end /\ b.end <= b.cap /\ b.end - b.pos \in Nat
           /\ \A i \in 0 .. b.end - b.pos - 1 : b.mem[b.pos + i] = f + i
<1>1. /\ b.pos \in Nat /\ b.end \in Nat /\ b.cap \in Nat
      /\ b.pos <= b.end /\ b.end <= b.cap
  BY DEF Holds
<1>2. ASSUME NEW i \in 0 .. b.end - b.pos - 1
      PROVE  b.mem[b.pos + i] = f + i
  <2>1. b.pos + i \in b.pos .. b.end - 1 /\ f + ((b.pos + i) - b.pos) = f + i
    BY <1>1
  <2> QED
    BY <2>1 DEF Holds
<1> QED
  BY <1>1, <1>2

\* ngx_nats_buf_reset
LEMMA ResetHolds ==
    ASSUME NEW b, b.cap \in Nat, NEW f \in Nat
    PROVE  /\ Holds(Reset(b), f)
           /\ Reset(b).pos = 0 /\ Reset(b).end = 0 /\ Reset(b).cap = b.cap
BY DEF Reset, Holds

\* The readable bytes copied to the front of memory that is large enough
LEMMA FrontHolds ==
    ASSUME NEW b, NEW f \in Nat, Holds(b, f), NEW ns \in Nat, b.end - b.pos <= ns
    PROVE  \A i \in 0 .. b.end - b.pos - 1 : Moved(b, ns)[i] = f + i
BY HoldsFacts DEF Moved

LEMMA MoveHolds ==
    ASSUME NEW b, NEW f \in Nat, Holds(b, f)
    PROVE  /\ Holds(Move(b), f)
           /\ Move(b).pos = 0 /\ Move(b).end = b.end - b.pos /\ Move(b).cap = b.cap
<1>1. \A i \in 0 .. b.end - b.pos - 1 : Moved(b, b.cap)[i] = f + (i - 0)
  BY HoldsFacts, FrontHolds
<1>2. /\ Move(b).pos = 0 /\ Move(b).end = b.end - b.pos /\ Move(b).cap = b.cap
      /\ Move(b).mem = Moved(b, b.cap)
  BY DEF Move
<1> QED
  BY <1>1, <1>2, HoldsFacts DEF Holds

\* ngx_nats_buf_compact
LEMMA CompactHolds ==
    ASSUME NEW b, NEW f \in Nat, Holds(b, f)
    PROVE  /\ Holds(Compact(b), f) /\ Compact(b).pos = 0
           /\ Compact(b).end = b.end - b.pos /\ Compact(b).cap = b.cap
BY HoldsFacts, MoveHolds, ResetHolds DEF Compact

\* Bytes received or appended
LEMMA WriteHolds ==
    ASSUME NEW b, NEW f \in Nat, Holds(b, f), NEW n \in Nat, b.end + n <= b.cap
    PROVE  /\ Holds(Write(b, f + (b.end - b.pos), n), f)
           /\ Write(b, f + (b.end - b.pos), n).pos = b.pos
           /\ Write(b, f + (b.end - b.pos), n).end = b.end + n
           /\ Write(b, f + (b.end - b.pos), n).cap = b.cap
<1> DEFINE v == Write(b, f + (b.end - b.pos), n)
<1>1. v.pos = b.pos /\ v.end = b.end + n /\ v.cap = b.cap
  BY DEF Write
<1>2. ASSUME NEW i \in b.pos .. b.end + n - 1
      PROVE  v.mem[i] = f + (i - b.pos)
  <2>1. i \in 0 .. b.cap - 1
    BY HoldsFacts
  <2>2. v.mem[i] = IF b.end <= i /\ i < b.end + n
                     THEN (f + (b.end - b.pos)) + (i - b.end) ELSE b.mem[i]
    BY <2>1 DEF Write
  <2>3. i < b.end => b.mem[i] = f + (i - b.pos)
    BY HoldsFacts DEF Holds
  <2> QED
    BY <2>2, <2>3, HoldsFacts
<1> QED
  BY <1>1, <1>2, HoldsFacts DEF Holds

\* Bytes parsed or sent
LEMMA AdvanceHolds ==
    ASSUME NEW b, NEW f \in Nat, Holds(b, f), NEW n \in Nat, n <= b.end - b.pos
    PROVE  /\ Holds(Advance(b, n), f + n)
           /\ Advance(b, n).pos = b.pos + n /\ Advance(b, n).end = b.end
           /\ Advance(b, n).cap = b.cap
<1> DEFINE v == Advance(b, n)
<1>1. v.pos = b.pos + n /\ v.end = b.end /\ v.cap = b.cap /\ v.mem = b.mem
  BY DEF Advance
<1>2. ASSUME NEW i \in b.pos + n .. b.end - 1
      PROVE  v.mem[i] = (f + n) + (i - (b.pos + n))
  <2>1. b.mem[i] = f + (i - b.pos)
    BY HoldsFacts DEF Holds
  <2> QED
    BY <1>1, <2>1, HoldsFacts
<1> QED
  BY <1>1, <1>2, HoldsFacts DEF Holds

\* ngx_nats_buf_ensure keeps the readable bytes if it need not reallocate or
\* they are at the front.
LEMMA EnsureHolds ==
    ASSUME NEW b, NEW f \in Nat, Holds(b, f), NEW size \in Nat, NEW compact \in Int,
           b.pos = 0 \/ (compact # 0 /\ b.end - b.pos + size <= b.cap),
           NEW v \in Ensure(b, size, compact)
    PROVE  /\ Holds(v, f) /\ v.end + size <= v.cap /\ v.end - v.pos = b.end - b.pos
           /\ v.cap >= b.cap
           /\ b.pos = 0 => v.pos = 0
<1> DEFINE e == IF b.pos = b.end THEN Reset(b) ELSE b
           r == MakeRoom(b, size, compact)
<1>1. /\ Holds(e, f) /\ e.end - e.pos = b.end - b.pos /\ e.cap = b.cap
      /\ b.pos = 0 => e.pos = 0
      /\ e.pos = 0 \/ (compact # 0 /\ e.end - e.pos + size <= e.cap)
  <2>1. CASE b.pos = b.end
    BY <2>1, HoldsFacts, ResetHolds
  <2>2. CASE b.pos # b.end
    BY <2>2
  <2> QED
    BY <2>1, <2>2
<1>2. r = IF ~Fits(e, size) /\ compact # 0 /\ e.pos > 0 /\ size <= e.cap - e.end + e.pos
            THEN Move(e) ELSE e
  BY DEF MakeRoom
<1> HIDE DEF e, r
<1>3. /\ e.pos \in Nat /\ e.end \in Nat /\ e.cap \in Nat /\ e.pos <= e.end /\ e.end <= e.cap
  BY <1>1, HoldsFacts
<1>4. /\ Holds(r, f) /\ r.end - r.pos = b.end - b.pos /\ r.cap = b.cap
      /\ b.pos = 0 => r.pos = 0
      /\ ~Fits(r, size) => r.pos = 0
  <2>1. CASE ~Fits(e, size) /\ compact # 0 /\ e.pos > 0 /\ size <= e.cap - e.end + e.pos
    BY <1>1, <1>2, <1>3, <2>1, MoveHolds
  <2>2. CASE ~(~Fits(e, size) /\ compact # 0 /\ e.pos > 0 /\ size <= e.cap - e.end + e.pos)
    <3>1. ~Fits(e, size) => e.pos = 0
      BY <1>1, <1>3, <2>2
    <3> QED
      BY <1>1, <1>2, <2>2, <3>1
  <2> QED
    BY <2>1, <2>2
<1>5. /\ r.pos \in Nat /\ r.end \in Nat /\ r.cap \in Nat /\ r.pos <= r.end /\ r.end <= r.cap
      /\ r.end - r.pos \in Nat
  BY <1>4, HoldsFacts
<1>6. CASE Fits(r, size)
  <2>1. v = r
    BY <1>6 DEF Ensure, r
  <2> QED
    BY <1>4, <1>5, <1>6, <2>1 DEF Fits
<1>7. CASE ~Fits(r, size)
  <2>1. PICK ns \in Doubled(r.cap, r.end - r.pos + size) : v = Realloc(r, ns)
    BY <1>7 DEF Ensure, r
  <2>2. ns \in Nat /\ ns >= r.end - r.pos + size /\ ns >= 2 * r.cap
    BY <1>5, <2>1 DEF Doubled
  <2>3. r.pos = 0
    BY <1>4, <1>7
  <2>4. v.pos = 0 /\ v.end = r.end /\ v.cap = ns /\ v.mem = Moved(r, ns)
    BY <2>1, <2>3 DEF Realloc
  <2>5. \A i \in 0 .. r.end - 1 : v.mem[i] = f + (i - 0)
    BY <1>4, <1>5, <2>2, <2>3, <2>4, FrontHolds
  <2>6. Holds(v, f)
    BY <1>5, <2>2, <2>3, <2>4, <2>5 DEF Holds
  <2> QED
    BY <1>4, <1>5, <2>2, <2>3, <2>4, <2>6
<1> QED
  BY <1>6, <1>7

=============================================================================
