------------------------------ MODULE NatsBuf ------------------------------
(***************************************************************************)
(* ngx_nats_buf_t (src/src/ngx_nats_comm.c): a growing byte buffer whose   *)
(* readable part lies between pos and end.  NatsReadBuf and NatsWriteBuf   *)
(* are its two users.                                                      *)
(*                                                                         *)
(* A byte is its number in the stream that goes through the buffer, so     *)
(* that a byte lost, repeated or out of place shows.  Junk is what memory  *)
(* holds before it is written, and what bytes become that were moved or    *)
(* dropped: no correct reader tells them apart.                            *)
(***************************************************************************)
EXTENDS Integers

CONSTANTS
    InitSize,  \* the size given to ngx_nats_buf_create
    MaxSize    \* NGX_NATS_MAX_MESSAGE_SIZE

ASSUME BufAssumption ==
    /\ InitSize \in Nat /\ InitSize > 2
    /\ MaxSize \in Nat

Junk == -1

\* Memory of ns bytes that starts with the readable bytes of b
Moved(b, ns) ==
    [i \in 0 .. ns - 1 |-> IF i < b.end - b.pos THEN b.mem[b.pos + i] ELSE Junk]

Blank(n) == [i \in 0 .. n - 1 |-> Junk]

\* ngx_nats_buf_create
Create == [mem |-> Blank(InitSize), pos |-> 0, end |-> 0, cap |-> InitSize]

\* ngx_nats_buf_reset
Reset(b) == [mem |-> Blank(b.cap), pos |-> 0, end |-> 0, cap |-> b.cap]

FaultyMove(b) ==                \* a slip to test the properties with: end stays
    [mem |-> Moved(b, b.cap), pos |-> 0, end |-> b.end, cap |-> b.cap]

\* The memmove of compact and of ensure
Move(b) == [mem |-> Moved(b, b.cap), pos |-> 0, end |-> b.end - b.pos, cap |-> b.cap]

\* ngx_nats_buf_compact
Compact(b) == IF b.pos = b.end THEN Reset(b) ELSE Move(b)

FaultyFits(b, size) == b.cap - b.end >= size - 1   \* another, off by one
Fits(b, size) == b.cap - b.end >= size

\* What ngx_nats_buf_ensure does to make room before it reallocates
MakeRoom(b, size, compact) ==
    LET e == IF b.pos = b.end THEN Reset(b) ELSE b
    IN  IF ~Fits(e, size) /\ compact # 0 /\ e.pos > 0 /\ size <= e.cap - e.end + e.pos
          THEN Move(e)
          ELSE e

\* The loop `ns <<= 1`: the first doubling of cap that holds need bytes
Doubled(cap, need) ==
    {ns \in 2 * cap .. 2 * (cap + need) :
        /\ ns >= need
        /\ ns = 2 * cap \/ ns < 2 * need
        /\ \E k \in 1 .. ns \div cap : ns = cap * 2^k}

\* The reallocation: the readable bytes go to the front of the new memory,
\* pos and end stay what they were.
Realloc(b, ns) == [mem |-> Moved(b, ns), pos |-> b.pos, end |-> b.end, cap |-> ns]

\* The buffer after an ngx_nats_buf_ensure that returns NGX_OK; there is none
\* if it is at its limit.
Ensure(b, size, compact) ==
    LET r == MakeRoom(b, size, compact)
    IN  IF Fits(r, size) THEN {r}
        ELSE IF r.cap >= MaxSize THEN {}
        ELSE {Realloc(r, ns) : ns \in Doubled(r.cap, r.end - r.pos + size)}

\* n bytes of the stream, from number first on, copied in at end
Write(b, first, n) ==
    [mem |-> [i \in 0 .. b.cap - 1 |->
                IF b.end <= i /\ i < b.end + n THEN first + (i - b.end) ELSE b.mem[i]],
     pos |-> b.pos, end |-> b.end + n, cap |-> b.cap]

\* buf->pos += n
Advance(b, n) == [mem |-> b.mem, pos |-> b.pos + n, end |-> b.end, cap |-> b.cap]

-----------------------------------------------------------------------------
\* "The readable/sendable portion of the buffer is between pos and end,
\* 0<=pos<=end<=cap", and that portion is the stream from byte first on.
Holds(b, first) ==
    /\ b.pos \in Nat /\ b.end \in Nat /\ b.cap \in Nat
    /\ b.pos <= b.end /\ b.end <= b.cap
    /\ \A i \in b.pos .. b.end - 1 : b.mem[i] = first + (i - b.pos)

=============================================================================
