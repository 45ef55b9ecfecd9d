---------------------------- MODULE NatsWriteBuf ----------------------------
(***************************************************************************)
(* The write buffer, byte by byte: ngx_nats_add_message, which appends a   *)
(* piece of a message, and ngx_nats_flush, which sends what there is.      *)
(***************************************************************************)
EXTENDS NatsBuf

CONSTANTS
    GrowsHalfSent,  \* do clients publish so much after a short send that what
                    \* waits no longer fits the buffer?
    MaxLen,         \* bound: the longest piece appended
    MaxStream,      \* bound: bytes appended on one connection
    OsFaults        \* may an allocation fail?

ASSUME WriteAssumption ==
    /\ GrowsHalfSent \in BOOLEAN
    /\ MaxLen \in Nat \ {0}
    /\ MaxStream \in Nat
    /\ OsFaults \in BOOLEAN

VARIABLES
    w,        \* nc_write_buf
    queued,   \* bytes appended on this connection
    sent      \* bytes send() has taken

vars == <<w, queued, sent>>

Init == w = Create /\ queued = 0 /\ sent = 0

\* ngx_nats_add_message
AddMessage(size) ==
    /\ queued + size <= MaxStream
    /\ GrowsHalfSent \/ w.pos = 0 \/ queued - sent + size <= w.cap
    /\ \E b \in Ensure(w, size, 1) : w' = Write(b, queued, size)
    /\ queued' = queued + size
    /\ sent' = sent

\* ... returns NGX_ERROR, the buffer being at its limit or memory short
AddMessageFails(size) ==
    /\ \/ Ensure(w, size, 1) = {}
       \/ OsFaults /\ ~Fits(MakeRoom(w, size, 1), size)
    /\ w' = MakeRoom(w, size, 1)
    /\ UNCHANGED <<queued, sent>>

\* ngx_nats_flush: send() takes n bytes (none: NGX_AGAIN)
Flush ==
    /\ w.pos # w.end
    /\ \E n \in 1 .. w.end - w.pos :
        /\ w' = IF w.pos + n = w.end THEN Reset(w) ELSE Advance(w, n)
        /\ sent' = sent + n
    /\ queued' = queued

\* The connection is closed and the next one set up.
Reconnect ==
    /\ w' = Reset(w)
    /\ queued' = 0 /\ sent' = 0

Next == \/ \E size \in 1 .. MaxLen : AddMessage(size) \/ AddMessageFails(size)
        \/ Flush \/ Reconnect

Spec == Init /\ [][Next]_vars

-----------------------------------------------------------------------------
(* Properties *)

\* "The readable/sendable portion of the buffer is between pos and end,
\* 0<=pos<=end<=cap", and it is what was appended and not sent yet, in order,
\* across compaction, growth, failed appends and short sends: the server gets
\* the very bytes the functions of the API wrote.
SendsStream == Holds(w, sent) /\ w.end - w.pos = queued - sent

=============================================================================
