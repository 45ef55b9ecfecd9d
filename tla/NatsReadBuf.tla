---------------------------- MODULE NatsReadBuf ----------------------------
(***************************************************************************)
(* The read buffer, byte by byte: the loop of ngx_nats_read_from_nats that *)
(* receives into it and the one of ngx_nats_process_buffer that takes      *)
(* messages off it, compacts it and lets it grow.                          *)
(*                                                                         *)
(* The parser (ngx_nats_parse) is its verdict: a message is complete once  *)
(* its bytes, as many as the server meant it to have, are in the buffer.   *)
(***************************************************************************)
EXTENDS NatsBuf

CONSTANTS
    Payloads,    \* the values of max_payload that an INFO announces
    MaxLen,      \* bound: the longest message sent
    MaxStream,   \* bound: bytes the server sends on one connection
    OsFaults     \* may an allocation fail?

ASSUME ReadAssumption ==
    /\ Payloads \subseteq Int /\ MaxStream \in Nat
    /\ MaxLen \in Nat \ {0}
    /\ OsFaults \in BOOLEAN

VARIABLES
    r,        \* nc_read_buf
    received, \* bytes of this connection received
    taken,    \* bytes of this connection parsed and skipped
    len,      \* length of the message under way, header included
    payload,  \* nc->srv_max_payload, 0 before INFO
    pc        \* "recv", "process" or "closed"

vars == <<r, received, taken, len, payload, pc>>

Lens == 1 .. MaxLen

Init ==
    /\ r = Create
    /\ received = 0 /\ taken = 0 /\ len \in Lens
    /\ payload = 0 /\ pc = "recv"

\* recv() into all but the last byte of what is free
Room == r.cap - r.end - 1

Recv ==
    /\ pc = "recv"
    /\ \E n \in 1 .. Room :
        /\ received + n <= MaxStream
        /\ received' = received + n
        /\ r' = Write(r, received, n)
    /\ pc' = "process"
    /\ UNCHANGED <<taken, len, payload>>

\* _nats_process_buffer_msg with nothing left to parse
ProcessEnd ==
    /\ pc = "process" /\ r.pos = r.end
    /\ r' = Compact(r)
    /\ pc' = "recv"
    /\ UNCHANGED <<received, taken, len, payload>>

\* A whole message: buf->pos += rc.  An INFO may set srv_max_payload.
ProcessMessage ==
    /\ pc = "process" /\ r.end - r.pos >= len
    /\ r' = Advance(r, len)
    /\ taken' = taken + len
    /\ len' \in Lens
    /\ payload' \in Payloads \cup {payload}
    /\ UNCHANGED <<received, pc>>

Partial == pc = "process" /\ r.pos < r.end /\ r.end - r.pos < len

FaultyFull(b) == b.end >= b.cap     \* forgets the byte recv() leaves free

Full(b)  == b.end >= b.cap - 1

Limit(b) == (payload > 0 /\ b.cap >= payload) \/ b.cap >= MaxSize

\* NGX_NATS_PROTO_AGAIN and there is room for more, or the buffer grows
ProcessPartial ==
    /\ Partial
    /\ IF Full(Compact(r))
         THEN ~Limit(Compact(r)) /\ r' \in Ensure(Compact(r), r.cap - 1, 0)
         ELSE r' = Compact(r)
    /\ pc' = "recv"
    /\ UNCHANGED <<received, taken, len, payload>>

\* "NATS sent message larger than promised", or no memory: the connection is
\* closed.
ProcessTooLong ==
    /\ Partial /\ Full(Compact(r))
    /\ Limit(Compact(r)) \/ OsFaults
    /\ r' = Reset(Compact(r))
    /\ pc' = "closed"
    /\ UNCHANGED <<received, taken, len, payload>>

\* The connection ends for another reason: between two turns of the loop, or
\* because of what a message says.
Disconnect ==
    /\ pc # "closed"
    /\ r' = Reset(r)
    /\ pc' = "closed"
    /\ UNCHANGED <<received, taken, len, payload>>

\* ngx_nats_connect_loop resets the buffers once more; the memory stays.
Reconnect ==
    /\ pc = "closed"
    /\ r' = Reset(r)
    /\ received' = 0 /\ taken' = 0 /\ len' \in Lens
    /\ payload' = 0 /\ pc' = "recv"

Process == ProcessEnd \/ ProcessMessage \/ ProcessPartial \/ ProcessTooLong

Next == Recv \/ Process \/ Disconnect \/ Reconnect

Spec == Init /\ [][Next]_vars

-----------------------------------------------------------------------------
(* Properties *)

\* What the parser is given is what the server sent and was not parsed yet, at
\* every message boundary and however recv() cut the stream, across compaction,
\* growth and reconnects.
ParsesStream == pc # "closed" => Holds(r, taken) /\ r.end - r.pos = received - taken

\* recv() is never called with no room: it would return 0, which the handler
\* takes for a disconnect, and cap - end - 1 never wraps around.
RecvRoom == pc = "recv" => Room > 0

=============================================================================
