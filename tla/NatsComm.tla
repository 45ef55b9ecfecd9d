------------------------------ MODULE NatsComm ------------------------------
(***************************************************************************)
(* The connection manager of nginx-nats (src/src/ngx_nats_comm.c) as one   *)
(* nginx worker runs it: the connect loop over the configured servers, the *)
(* reconnect timer, the CONNECT/PONG handshake, reading and dispatching    *)
(* messages, flushing the write buffer, the ping timer, tearing a          *)
(* connection down, and the calls client modules make.                     *)
(*                                                                         *)
(* The worker is single threaded, but its handlers re-enter each other: a  *)
(* client callback may publish, the publish may flush, the flush may find  *)
(* the connection broken, and closing it calls the clients again and       *)
(* reconnects, all below the frame that made the first callback.  So the   *)
(* C stack is a variable: `stack` holds what is left to do of each         *)
(* function under way, innermost first.  A call in tail position leaves    *)
(* no frame behind.  Events of the network are taken between handlers.     *)
(*                                                                         *)
(* Buffers hold whole protocol messages; their bytes are in NatsBuf.       *)
(*                                                                         *)
(* Definitions named Faulty... are variants with a plausible slip, used to *)
(* test that the properties notice it; the specification has none of them. *)
(***************************************************************************)
EXTENDS Integers, Sequences

CONSTANTS
    N,               \* number of `server` lines in nats{...}
    Clients,         \* client modules that may call ngx_nats_add_client
    Socks,           \* ngx_connection_t objects nginx can hand out
    NoSock,          \* a NULL nc->pc.connection
    Behaves,         \* what each server may do: accept a connection, decline
                     \* it or let it hang, greet without its version, answer
                     \* CONNECT or refuse it, end its stream, reset the
                     \* connection, jam it, or say one of Chat
    CallbackCalls,   \* callbacks from which clients call the API
    NestedErrors,    \* may a send made inside a callback fail?
    OsFaults,        \* may an allocation or an event registration fail?
    MaxCalls,        \* bound: API calls in a behaviour
    MaxChat,         \* bound: unsolicited server messages in a behaviour
    MaxSid           \* bound: the sids a MSG may carry

Callbacks  == {"connected", "disconnected", "msg"}
Chat       == {"OK", "PING", "PONG", "ERR", "MSG", "BAD"}
Behaviours == {"accept", "decline", "hang", "bare", "answer", "refuse",
               "drop", "reset", "jam"} \cup Chat
Servers    == 0 .. N - 1

ASSUME CommAssumption ==
    /\ N \in Nat \ {0}
    /\ NoSock \notin Socks
    /\ Behaves \in [Servers -> SUBSET Behaviours]
    /\ CallbackCalls \subseteq Callbacks
    /\ NestedErrors \in BOOLEAN
    /\ OsFaults \in BOOLEAN
    /\ MaxCalls \in Nat
    /\ MaxChat \in Nat
    /\ MaxSid \in Nat

VARIABLES
    phase,     \* "boot", "run" (ngx_nats_data is set) or "exit"
    \* ngx_nats_data_t
    curr,      \* curr_index
    rtimer,    \* reconnect_timer.timer_set
    current,   \* nc # NULL
    clients,   \* cd.clients, in registration order
    subs,      \* the live sids of cd.subs
    nextId,    \* cd.next_id
    \* ngx_nats_connection_t.  Every nc is the first allocation after a reset
    \* of nc_pool, so they all live at the same address: this is that memory.
    bits,      \* state
    conn,      \* pc.connection
    info,      \* srv_version # NULL
    ptimer,    \* ping_timer.timer_set
    phandler,  \* ping_timer.handler # NULL
    \* the two buffers, shared by all connections
    wbuf,      \* messages between pos and end of nc_write_buf
    rbuf,      \* messages received into nc_read_buf
    rpos,      \* how many of them pos has passed
    \* nginx and the network
    sock,      \* the connections, with what the server has sent
    stack,     \* frames of the handlers under way, innermost first
    fault,     \* first undefined behaviour met, or "none"
    \* history and bounds
    told,      \* last callback each client got
    tried,     \* servers attempted since the last wait
    halfway,   \* a call failed with a part of it in the write buffer of nc
    calls,     \* API calls made
    chat       \* unsolicited server messages sent

ndVars   == <<phase, curr, rtimer, current>>
cdVars   == <<clients, subs, nextId>>
ncVars   == <<bits, conn, info, ptimer, phandler>>
rVars    == <<rbuf, rpos>>
histVars == <<told, tried, halfway>>
capVars  == <<calls, chat>>
vars == <<ndVars, cdVars, ncVars, wbuf, rVars, sock, stack, fault, histVars, capVars>>

-----------------------------------------------------------------------------
(* Data *)

Ready == {"BYTES", "SENT", "OKAYED", "INFO"}    \* NGX_NATS_STATE_READY, 0x0f

LastIndex == 0      \* nd->last_index: set to 0 once and never assigned again

\* "INFO-" is an INFO that is accepted and has no field `version`.
Ins  == Chat \cup {"INFO", "INFO-"}
Outs == {"CONNECT", "PONG", "PUB", "PUB-", "SUB", "SUB-", "UNSUB"}

Reasons == {"CONNECT_FAILED", "CONNECT_REFUSED", "WRITE_TIMEOUT",
            "BAD_PROTOCOL", "DISCONNECTED", "INTERNAL_ERROR"}

\* What the server has made of the handshake: it has sent INFO, has received
\* CONNECT, has answered it with PONG, or with -ERR.
Peers == {"info", "conn", "ponged", "refused"}

Sock == [st : {"free", "syn", "est", "err"}, wtimer : BOOLEAN, wev : BOOLEAN,
         full : BOOLEAN, fin : BOOLEAN, inq : Seq(Ins),
         peer : Peers, srv : Servers]

FreeSock == [st |-> "free", wtimer |-> FALSE, wev |-> FALSE, full |-> FALSE,
             fin |-> FALSE, inq |-> <<>>, peer |-> "info", srv |-> 0]

Faults == {"none", "null_conn", "timer_zeroed", "null_handler", "read_past_end",
           "null_version"}

Ops == {"connect", "flush", "recv", "process", "ready", "callback",
        "close", "notify", "finish"}

Frame == [op : Ops, i : Nat, n : Nat,
          why : Reasons \cup Callbacks \cup {"now", "later", "none"},
          c : Socks \cup {NoSock}]

Act(op) == [op |-> op, i |-> 0, n |-> 0, why |-> "none", c |-> NoSock]

Close(reason) == [Act("close") EXCEPT !.why = reason]
Callback(cb)  == [Act("callback") EXCEPT !.why = cb]
Process(skip) == [Act("process") EXCEPT !.i = skip]
FaultyLoop(op, why) ==          \* misses the first client
    [Act(op) EXCEPT !.i = 2, !.n = Len(clients), !.why = why]
Loop(op, why) == [Act(op) EXCEPT !.i = 1, !.n = Len(clients), !.why = why]
\* ngx_nats_read_from_nats with wlen, the bytes to send when it was called
RecvCall(c) == [op |-> "recv", i |-> Len(wbuf), n |-> 0, why |-> "none", c |-> c]

Top     == Head(stack)
Running == phase = "run" /\ fault = "none"
Idle    == Running /\ stack = <<>>
At(op)  == Running /\ stack # <<>> /\ Top.op = op

Return      == stack' = Tail(stack)
Jump(f)     == stack' = <<f>> \o Tail(stack)
Call(f)     == stack' = <<f>> \o stack
Invoke(f, g) == stack' = <<g, f>> \o Tail(stack)   \* go on as f once g returns

Nested  == \E j \in 1 .. Len(stack) : stack[j].op = "callback"
IsReady == current /\ bits = Ready
Registered == {clients[j] : j \in 1 .. Len(clients)}

-----------------------------------------------------------------------------
(* Pieces shared by the handlers *)

SetSock(c, r) == sock' = [sock EXCEPT ![c] = r]

ResetBuffers == wbuf' = <<>> /\ rbuf' = <<>> /\ rpos' = 0

FaultyCheckConnected ==         \* arms the timer without its handler
    /\ bits' = bits \cup {"BYTES"}
    /\ ptimer' = TRUE /\ UNCHANGED phandler

\* ngx_nats_check_connected: the first byte in either direction arms the ping
\* timer; its handler is set only if the timer was not running.
CheckConnected ==
    /\ bits' = bits \cup {"BYTES"}
    /\ IF "BYTES" \in bits
         THEN UNCHANGED <<ptimer, phandler>>
         ELSE ptimer' = TRUE /\ phandler' = IF ptimer THEN phandler ELSE TRUE

\* ngx_nats_test_connect finds an error pending on the socket: the attempt was
\* declined, or the connection, long established perhaps, was reset.
ConnectError(c) == sock[c].st = "err"

\* send() or recv() fails: there is an error pending or no socket any more, or
\* the reset comes only now, while a handler is under way.
Broken(c) ==
    \/ sock[c].st \in {"free", "err"}
    \/ sock[c].st = "est" /\ "reset" \in Behaves[sock[c].srv]

\* The subscription table, as the set of its sids: a slot in use is one with a
\* sid, and a freed one is the first to be used again.
GetSubscription(sid)    == sid \in subs
AddSubscription(sid)    == subs' = subs \cup {sid}
RemoveSubscription(sid) == subs' = subs \ {sid}

\* ngx_nats_parse_info fills in nc.  What counts is srv_version: it is set if
\* INFO has a version, and stays what it was if not.
ParseInfo(m) == info' = IF m = "INFO" THEN TRUE ELSE info

FaultyAddReconnectTimer(idx) == \* forgets to arm it
    /\ rtimer' = rtimer
    /\ curr' = -1

FaultyRetryIndex(idx) ==        \* steps back each time it is called
    /\ rtimer' = TRUE
    /\ curr' = idx - 1

\* ngx_nats_add_reconnect_timer, with curr_index = idx when it is called.
AddReconnectTimer(idx) ==
    /\ rtimer' = TRUE
    /\ curr' = IF rtimer THEN idx ELSE -1

\* ngx_nats_connection_init: what the state and the write buffer become.
InitBits == bits \cup {"SENT"}
InitWbuf == IF "SENT" \in bits THEN wbuf ELSE Append(wbuf, "CONNECT")

FaultyNextIndex == IF curr < 0 THEN LastIndex ELSE curr     \* never advances

\* The server ngx_nats_connect_loop turns to, and whether it has gone round.
NextIndex == IF curr < 0 THEN LastIndex
             ELSE IF curr + 1 >= N THEN 0 ELSE curr + 1
WentRound == curr >= 0 /\ NextIndex = LastIndex

\* How a server greets (external)
Greetings(srv) == {"INFO"} \cup IF "bare" \in Behaves[srv] THEN {"INFO-"} ELSE {}

-----------------------------------------------------------------------------
Init ==
    /\ phase = "boot" /\ curr = -1 /\ rtimer = FALSE /\ current = FALSE
    /\ clients = <<>> /\ subs = {} /\ nextId = 0
    /\ bits = {} /\ conn = NoSock /\ info = FALSE
    /\ ptimer = FALSE /\ phandler = FALSE
    /\ wbuf = <<>> /\ rbuf = <<>> /\ rpos = 0
    /\ sock = [c \in Socks |-> FreeSock]
    /\ stack = <<>> /\ fault = "none"
    /\ told = [cl \in Clients |-> "down"] /\ tried = {} /\ halfway = FALSE
    /\ calls = 0 /\ chat = 0

\* ngx_nats_init, from ngx_nats_core_init_process
InitProcess ==
    /\ phase = "boot"
    /\ phase' = "run"
    /\ stack' = <<Act("connect")>>
    /\ UNCHANGED <<curr, rtimer, current, cdVars, ncVars, wbuf, rVars, sock,
                   fault, histVars, capVars>>

\* ngx_nats_exit, from ngx_nats_core_exit_process
ExitProcess ==
    /\ Idle
    /\ phase' = "exit"
    /\ UNCHANGED <<curr, rtimer, current, cdVars, ncVars, wbuf, rVars, sock,
                   stack, fault, histVars, capVars>>

-----------------------------------------------------------------------------
(* Connecting *)

\* ngx_nats_reconnect_handler, called by nginx with timer_set already cleared
ReconnectTimer ==
    /\ Idle /\ rtimer
    /\ rtimer' = FALSE
    /\ tried' = {}
    /\ stack' = <<Act("connect")>>
    /\ UNCHANGED <<phase, curr, current, cdVars, ncVars, wbuf, rVars, sock,
                   fault, told, halfway, capVars>>

\* ngx_nats_connect_loop, after every server was tried
ConnectGiveUp ==
    /\ At("connect") /\ WentRound
    /\ AddReconnectTimer(NextIndex)
    /\ Return
    /\ UNCHANGED <<phase, current, cdVars, ncVars, wbuf, rVars, sock, fault,
                   histVars, capVars>>

\* One attempt of ngx_nats_connect_loop: pool and buffers are reset, which
\* zeroes the previous nc and its ping timer, armed or not; nc is the first
\* allocation of the pool just reset, so it does not fail.
Attempt ==
    /\ At("connect") /\ ~WentRound
    /\ curr' = NextIndex
    /\ tried' = tried \cup {NextIndex}
    /\ current' = TRUE
    /\ info' = FALSE /\ ptimer' = FALSE /\ phandler' = FALSE
    /\ fault' = IF ptimer THEN "timer_zeroed" ELSE fault
    /\ rbuf' = <<>> /\ rpos' = 0 /\ halfway' = FALSE
    /\ UNCHANGED <<phase, rtimer, cdVars, told, capVars>>

\* ngx_event_connect_peer failed at once: NGX_AGAIN, the loop goes on.
ConnectDeclined ==
    /\ Attempt
    /\ \/ "decline" \in Behaves[NextIndex]
       \/ \A c \in Socks : sock[c].st # "free"
    /\ bits' = {} /\ conn' = NoSock /\ wbuf' = <<>>
    /\ UNCHANGED <<sock, stack>>

FaultyConnectGoesOn ==          \* does not wait for the attempt to be decided
    /\ Attempt
    /\ \E c \in Socks :
        /\ sock[c].st = "free"
        /\ conn' = c
        /\ SetSock(c, [FreeSock EXCEPT !.st = "syn", !.wtimer = TRUE, !.srv = NextIndex])
    /\ bits' = {} /\ wbuf' = <<>> /\ stack' = stack

FaultyConnectKeepsState ==      \* nc is allocated but not zeroed
    /\ Attempt
    /\ \E c \in Socks :
        /\ sock[c].st = "free"
        /\ conn' = c
        /\ SetSock(c, [FreeSock EXCEPT !.st = "syn", !.wtimer = TRUE, !.srv = NextIndex])
    /\ bits' = bits /\ wbuf' = <<>>
    /\ Return

\* connect() is in progress: the write timer runs until it is decided.
ConnectInProgress ==
    /\ Attempt
    /\ \E c \in Socks :
        /\ sock[c].st = "free"
        /\ conn' = c
        /\ SetSock(c, [FreeSock EXCEPT !.st = "syn", !.wtimer = TRUE,
                                       !.srv = NextIndex])
    /\ bits' = {} /\ wbuf' = <<>>
    /\ Return

\* Connected right here: CONNECT is queued and flushed.  A writable edge is
\* still reported for the new descriptor.
ConnectAtOnce ==
    /\ Attempt
    /\ "accept" \in Behaves[NextIndex]
    /\ \E c \in Socks :
        /\ sock[c].st = "free"
        /\ conn' = c
        /\ \E m \in Greetings(NextIndex) :
              SetSock(c, [FreeSock EXCEPT !.st = "est", !.wev = TRUE,
                                          !.inq = <<m>>, !.srv = NextIndex])
    /\ bits' = {"SENT"} /\ wbuf' = <<"CONNECT">>
    /\ Jump(Act("flush"))

-----------------------------------------------------------------------------
(* Writing: ngx_nats_flush *)

FlushNothing ==
    /\ At("flush") /\ wbuf = <<>>
    /\ Return
    /\ UNCHANGED <<ndVars, cdVars, ncVars, wbuf, rVars, sock, fault, histVars,
                   capVars>>

\* May a send or an event registration fail here?
MayFail == Nested => NestedErrors

\* send() failed
FlushError ==
    /\ At("flush") /\ wbuf # <<>> /\ MayFail
    /\ Broken(conn)
    /\ Jump(Close("DISCONNECTED"))
    /\ UNCHANGED <<ndVars, cdVars, ncVars, wbuf, rVars, sock, fault, histVars,
                   capVars>>

\* send() took some bytes: k whole messages, and part of the next if k is
\* not all of them, in which case the socket is now full.
FlushSome ==
    /\ At("flush") /\ wbuf # <<>>
    /\ sock[conn].st = "est" /\ ~sock[conn].full
    /\ \E k \in 0 .. Len(wbuf) :
        /\ wbuf' = SubSeq(wbuf, k + 1, Len(wbuf))
        /\ SetSock(conn, [sock[conn] EXCEPT
              !.full = k < Len(wbuf),
              !.peer = IF k > 0 /\ wbuf[1] = "CONNECT" THEN "conn" ELSE @])
        /\ \/ Return
           \/ OsFaults /\ MayFail /\ k = Len(wbuf) /\ Jump(Close("INTERNAL_ERROR"))
    /\ CheckConnected
    /\ UNCHANGED <<ndVars, cdVars, conn, info, rVars, fault, histVars, capVars>>

\* send() would block: the write timer starts again from 5 s.
FlushAgain ==
    /\ At("flush") /\ wbuf # <<>>
    /\ sock[conn].full \/ sock[conn].st = "syn"
    /\ SetSock(conn, [sock[conn] EXCEPT !.wtimer = TRUE])
    /\ \/ Return
       \/ OsFaults /\ MayFail /\ Jump(Close("INTERNAL_ERROR"))
    /\ UNCHANGED <<ndVars, cdVars, ncVars, wbuf, rVars, fault, histVars, capVars>>

\* ngx_nats_write_event_handler: the first one queues CONNECT.
WriteEvent(c) ==
    /\ Idle /\ sock[c].wev
    /\ SetSock(c, [sock[c] EXCEPT !.wev = FALSE, !.wtimer = FALSE])
    /\ bits' = InitBits /\ wbuf' = InitWbuf
    /\ stack' = <<Act("flush")>>
    /\ UNCHANGED <<ndVars, cdVars, conn, info, ptimer, phandler, rVars, fault,
                   histVars, capVars>>

\* ... with write->timedout
WriteTimeout(c) ==
    /\ Idle /\ sock[c].wtimer
    /\ (IF sock[c].st = "syn" THEN "hang" ELSE "jam") \in Behaves[sock[c].srv]
    /\ SetSock(c, [sock[c] EXCEPT !.wtimer = FALSE])
    /\ stack' = <<Close("WRITE_TIMEOUT")>>
    /\ UNCHANGED <<ndVars, cdVars, ncVars, wbuf, rVars, fault, histVars, capVars>>

-----------------------------------------------------------------------------
(* Reading *)

\* ngx_nats_read_event_handler: test_connect, which is called on every event,
\* finds an error, or read_from_nats starts.
\* (The read timer is never armed, so read->timedout never is set.)
ReadEvent(c) ==
    /\ Idle
    /\ \/ /\ ConnectError(c)
          /\ stack' = <<Close("CONNECT_FAILED")>>
       \/ /\ sock[c].st = "est" /\ (sock[c].inq # <<>> \/ sock[c].fin)
          /\ stack' = <<RecvCall(c)>>
    /\ UNCHANGED <<ndVars, cdVars, ncVars, wbuf, rVars, sock, fault, histVars,
                   capVars>>

\* ngx_nats_read_from_nats, one turn of its loop: recv() returned k whole
\* messages (0: part of one, which matters only as the first bytes).
RecvData ==
    /\ At("recv") /\ sock[Top.c].st = "est" /\ sock[Top.c].inq # <<>>
    /\ \E k \in (IF "BYTES" \in bits THEN 1 ELSE 0) .. Len(sock[Top.c].inq) :
        /\ rbuf' = rbuf \o SubSeq(sock[Top.c].inq, 1, k)
        /\ SetSock(Top.c, [sock[Top.c] EXCEPT !.inq = SubSeq(@, k + 1, Len(@))])
    /\ CheckConnected
    /\ Call(Process(0))
    /\ UNCHANGED <<ndVars, cdVars, conn, info, wbuf, rpos, fault, histVars, capVars>>

FaultyRecvAgain ==              \* leaves what the callbacks wrote to others
    /\ At("recv")
    /\ sock[Top.c].st \in {"syn", "est"} /\ sock[Top.c].inq = <<>> /\ ~sock[Top.c].fin
    /\ Return
    /\ UNCHANGED <<ndVars, cdVars, ncVars, wbuf, rVars, sock, fault, histVars, capVars>>

\* Nothing left to read.  The write buffer is flushed if it is longer now
\* than wlen, its length when the handler started.
RecvAgain ==
    /\ At("recv")
    /\ sock[Top.c].st \in {"syn", "est"} /\ sock[Top.c].inq = <<>> /\ ~sock[Top.c].fin
    /\ \/ IF Top.i < Len(wbuf) THEN Jump(Act("flush")) ELSE Return
       \/ OsFaults /\ Jump(Close("INTERNAL_ERROR"))
    /\ UNCHANGED <<ndVars, cdVars, ncVars, wbuf, rVars, sock, fault, histVars,
                   capVars>>

\* End of stream, or recv() failed
RecvEnd ==
    /\ At("recv")
    /\ \/ sock[Top.c].fin /\ sock[Top.c].inq = <<>>
       \/ Broken(Top.c)
    /\ Jump(Close("DISCONNECTED"))
    /\ UNCHANGED <<ndVars, cdVars, ncVars, wbuf, rVars, sock, fault, histVars,
                   capVars>>

-----------------------------------------------------------------------------
(* Dispatching: ngx_nats_process_buffer and _nats_process_buffer_msg *)

\* The whole buffer is processed: compact it.
ProcessEnd ==
    /\ At("process") /\ Top.i = 0 /\ rpos = Len(rbuf)
    /\ rbuf' = <<>> /\ rpos' = 0
    /\ Return
    /\ UNCHANGED <<ndVars, cdVars, ncVars, wbuf, sock, fault, histVars, capVars>>

\* buf->pos += rc after a message whose handling called back
ProcessSkip ==
    /\ At("process") /\ Top.i = 1
    /\ rpos' = rpos + 1
    /\ fault' = IF rpos + 1 > Len(rbuf) THEN "read_past_end" ELSE fault
    /\ Jump(Process(0))
    /\ UNCHANGED <<ndVars, cdVars, ncVars, wbuf, rbuf, sock, histVars, capVars>>

Parsed(m) == At("process") /\ Top.i = 0 /\ rpos < Len(rbuf) /\ rbuf[rpos + 1] = m

ProcessOk ==
    /\ Parsed("OK")
    /\ rpos' = rpos + 1
    /\ UNCHANGED <<ndVars, cdVars, ncVars, wbuf, rbuf, sock, stack, fault,
                   histVars, capVars>>

\* The handshake does not wait for INFO.
ProcessInfo ==
    /\ \E m \in {"INFO", "INFO-"} : Parsed(m) /\ ParseInfo(m)
    /\ rpos' = rpos + 1
    /\ UNCHANGED <<ndVars, cdVars, bits, conn, ptimer, phandler, wbuf, rbuf,
                   sock, stack, fault, histVars, capVars>>

\* The PONG is left to the flush at the end of ngx_nats_read_from_nats; it is
\* dropped when the write buffer cannot grow.
ProcessPing ==
    /\ Parsed("PING")
    /\ \/ wbuf' = Append(wbuf, "PONG")
       \/ OsFaults /\ wbuf' = wbuf
    /\ rpos' = rpos + 1
    /\ UNCHANGED <<ndVars, cdVars, ncVars, rbuf, sock, stack, fault, histVars,
                   capVars>>

\* The first PONG makes the connection ready: ngx_nats_connection_ready logs
\* srv_version, then goes through the clients known now.
ProcessPong ==
    /\ Parsed("PONG")
    /\ \/ /\ "OKAYED" \notin bits
          /\ bits' = Ready
          /\ fault' = IF info THEN fault ELSE "null_version"
          /\ Invoke(Process(1), Loop("ready", "none"))
          /\ rpos' = rpos
       \/ /\ "OKAYED" \in bits
          /\ rpos' = rpos + 1
          /\ UNCHANGED <<bits, fault, stack>>
    /\ UNCHANGED <<ndVars, cdVars, conn, info, ptimer, phandler, wbuf, rbuf,
                   sock, histVars, capVars>>

FaultyCloseTwice(reason) ==     \* the second close reconnects at once
    stack' = <<Close(reason), Close("DISCONNECTED")>> \o Tail(Tail(stack))

\* A handler that closes the connection returns NGX_ERROR through
\* ngx_nats_process_buffer, and ngx_nats_read_from_nats closes it again.
CloseTwice(reason) ==
    stack' = <<Close(reason), Close("BAD_PROTOCOL")>> \o Tail(Tail(stack))

\* -ERR ends the connection only while CONNECT waits for its answer.
ProcessErr ==
    /\ Parsed("ERR")
    /\ \/ /\ "SENT" \in bits /\ "OKAYED" \notin bits
          /\ CloseTwice("CONNECT_REFUSED")
          /\ rpos' = rpos
       \/ /\ "SENT" \notin bits \/ "OKAYED" \in bits
          /\ rpos' = rpos + 1
          /\ stack' = stack
    /\ UNCHANGED <<ndVars, cdVars, ncVars, wbuf, rbuf, sock, fault, histVars,
                   capVars>>

\* Unparsable, too long, unsupported, or an INFO that is not one
ProcessBad ==
    /\ Parsed("BAD")
    /\ CloseTwice("BAD_PROTOCOL")
    /\ UNCHANGED <<ndVars, cdVars, ncVars, wbuf, rVars, sock, fault, histVars,
                   capVars>>

\* ngx_nats_process_msg.  The sid may be unknown; a known one may have had its
\* `max` messages with this one; the message is lost if there is no memory.
ProcessMsg ==
    /\ Parsed("MSG")
    /\ \E sid \in 1 .. MaxSid :
        \/ /\ ~GetSubscription(sid)
           /\ rpos' = rpos + 1
           /\ UNCHANGED <<subs, stack>>
        \/ /\ GetSubscription(sid)
           /\ RemoveSubscription(sid) \/ UNCHANGED subs
           /\ \/ Invoke(Process(1), Callback("msg")) /\ rpos' = rpos
              \/ OsFaults /\ rpos' = rpos + 1 /\ stack' = stack
    /\ UNCHANGED <<ndVars, clients, nextId, ncVars, wbuf, rbuf, sock, fault,
                   histVars, capVars>>

FaultyReadyLoop ==              \* goes on to clients added meanwhile
    /\ At("ready")
    /\ \/ /\ Top.i <= Len(clients)
          /\ told' = [told EXCEPT ![clients[Top.i]] = "up"]
          /\ stack' = <<Callback("connected"), [Top EXCEPT !.i = @ + 1, !.n = Len(clients)]>>
                      \o Tail(stack)
       \/ Top.i > Len(clients) /\ told' = told /\ Return
    /\ UNCHANGED <<ndVars, cdVars, ncVars, wbuf, rVars, sock, fault, tried, halfway,
                   capVars>>

\* The loop of ngx_nats_connection_ready
ReadyLoop ==
    /\ At("ready")
    /\ \/ /\ Top.i <= Top.n
          /\ told' = [told EXCEPT ![clients[Top.i]] = "up"]
          /\ Invoke([Top EXCEPT !.i = @ + 1], Callback("connected"))
       \/ /\ Top.i > Top.n
          /\ told' = told
          /\ Return
    /\ UNCHANGED <<ndVars, cdVars, ncVars, wbuf, rVars, sock, fault, tried, halfway,
                   capVars>>

-----------------------------------------------------------------------------
(* Tearing down: ngx_nats_close_connection, always called with reconnect # 0 *)

\* Up to the calls of `disconnected`: the timers, the socket (if not closed
\* yet), and the decision when to reconnect.
CloseSocket ==
    /\ At("close")
    /\ ptimer' = FALSE
    /\ fault' = IF conn = NoSock THEN "null_conn" ELSE fault
    /\ sock' = [c \in Socks |-> IF c = conn THEN FreeSock ELSE sock[c]]
    /\ Jump(Loop(IF bits = Ready THEN "notify" ELSE "finish",
                 IF Top.why = "DISCONNECTED" \/ "BYTES" \notin bits
                   THEN "now" ELSE "later"))
    /\ UNCHANGED <<ndVars, cdVars, bits, conn, info, phandler, wbuf, rVars,
                   histVars, capVars>>

CloseNotify ==
    /\ At("notify")
    /\ \/ /\ Top.i <= Top.n
          /\ told' = [told EXCEPT ![clients[Top.i]] = "down"]
          /\ Invoke([Top EXCEPT !.i = @ + 1], Callback("disconnected"))
       \/ /\ Top.i > Top.n
          /\ told' = told
          /\ Jump([Top EXCEPT !.op = "finish"])
    /\ UNCHANGED <<ndVars, cdVars, ncVars, wbuf, rVars, sock, fault, tried, halfway,
                   capVars>>

FaultyCloseFinish ==            \* keeps the subscriptions
    /\ At("finish")
    /\ current' = FALSE
    /\ ResetBuffers
    /\ \/ Top.why = "now" /\ rtimer' = FALSE /\ curr' = curr /\ Jump(Act("connect"))
       \/ Top.why = "later" /\ AddReconnectTimer(curr) /\ Return
    /\ UNCHANGED <<phase, cdVars, ncVars, sock, fault, histVars, capVars>>

\* The rest: drop the subscriptions, nc and the buffers, then
\* ngx_nats_process_reconnect or ngx_nats_add_reconnect_timer.
CloseFinish ==
    /\ At("finish")
    /\ subs' = {} /\ nextId' = 0
    /\ current' = FALSE
    /\ ResetBuffers
    /\ \/ /\ Top.why = "now"
          /\ rtimer' = FALSE /\ curr' = curr
          /\ Jump(Act("connect"))
       \/ /\ Top.why = "later"
          /\ AddReconnectTimer(curr)
          /\ Return
    /\ UNCHANGED <<phase, clients, ncVars, sock, fault, histVars, capVars>>

-----------------------------------------------------------------------------
(* The ping timer: ngx_nats_ping_handler *)

\* ngx_event_expire_timers clears timer_set before it calls the handler, which
\* takes that for a cancellation and returns: the lines that send PING and arm
\* the timer again are never reached.
PingTimer ==
    /\ Idle /\ ptimer
    /\ ptimer' = FALSE
    /\ fault' = IF phandler THEN fault ELSE "null_handler"
    /\ UNCHANGED <<ndVars, cdVars, bits, conn, info, phandler, wbuf, rVars, sock, stack,
                   histVars, capVars>>

-----------------------------------------------------------------------------
(* The client functions.  A call that is refused because the connection is *)
(* not ready changes nothing and is not shown.                             *)

\* A call from a callback does not find a reset pending if NestedErrors says so.
Caller ==
    /\ Running /\ calls < MaxCalls
    /\ calls' = calls + 1
    /\ stack # <<>> => Top.op = "callback" /\ Top.why \in CallbackCalls
    /\ stack # <<>> /\ ~NestedErrors => sock[conn].st # "err"

AddClient(cl) ==
    /\ Caller /\ cl \notin Registered
    /\ clients' = Append(clients, cl)
    /\ IF IsReady
         THEN told' = [told EXCEPT ![cl] = "up"] /\ Call(Callback("connected"))
         ELSE UNCHANGED <<told, stack>>
    /\ UNCHANGED <<ndVars, subs, nextId, ncVars, wbuf, rVars, sock, fault, tried, halfway,
                   chat>>

Publish ==
    /\ Caller /\ IsReady
    /\ \/ wbuf' = Append(wbuf, "PUB") /\ Call(Act("flush")) /\ UNCHANGED halfway
       \* the header fits, the data does not: what is there stays, unflushed
       \/ OsFaults /\ wbuf' = Append(wbuf, "PUB-") /\ stack' = stack /\ halfway' = TRUE
    /\ UNCHANGED <<ndVars, cdVars, ncVars, rVars, sock, fault, told, tried, chat>>

Subscribe ==
    /\ Caller /\ IsReady
    /\ nextId' = nextId + 1
    /\ \/ /\ AddSubscription(nextId + 1)
          /\ wbuf' = Append(wbuf, "SUB") /\ Call(Act("flush")) /\ UNCHANGED halfway
       \* no memory for the entry, for SUB, or for the UNSUB that sets `max`
       \/ /\ OsFaults /\ stack' = stack
          /\ \/ UNCHANGED <<subs, wbuf, halfway>>
             \/ AddSubscription(nextId + 1) /\ UNCHANGED <<wbuf, halfway>>
             \/ /\ AddSubscription(nextId + 1)
                /\ wbuf' = Append(wbuf, "SUB-") /\ halfway' = TRUE
    /\ UNCHANGED <<ndVars, clients, ncVars, rVars, sock, fault, told, tried, chat>>

Unsubscribe ==
    /\ Caller /\ IsReady
    /\ \E sid \in subs : RemoveSubscription(sid)
    /\ \/ wbuf' = Append(wbuf, "UNSUB") /\ Call(Act("flush"))
       \/ OsFaults /\ UNCHANGED <<wbuf, stack>>
    /\ UNCHANGED <<ndVars, clients, nextId, ncVars, rVars, sock, fault, histVars,
                   chat>>

CallbackReturn ==
    /\ At("callback")
    /\ Return
    /\ UNCHANGED <<ndVars, cdVars, ncVars, wbuf, rVars, sock, fault, histVars,
                   capVars>>

-----------------------------------------------------------------------------
(* The network and the servers (external) *)

netVars == <<ndVars, cdVars, ncVars, wbuf, rVars, stack, fault, histVars, calls>>

\* A connection in progress is decided.
Establish(c) ==
    /\ Idle /\ sock[c].st = "syn" /\ "accept" \in Behaves[sock[c].srv]
    /\ \E m \in Greetings(sock[c].srv) :
          SetSock(c, [sock[c] EXCEPT !.st = "est", !.wev = TRUE, !.inq = <<m>>])
    /\ UNCHANGED <<netVars, chat>>

Refuse(c) ==
    /\ Idle /\ sock[c].st = "syn" /\ "decline" \in Behaves[sock[c].srv]
    /\ SetSock(c, [sock[c] EXCEPT !.st = "err", !.wev = TRUE])
    /\ UNCHANGED <<netVars, chat>>

\* A full socket can take bytes again.
Drain(c) ==
    /\ Idle /\ sock[c].full
    /\ SetSock(c, [sock[c] EXCEPT !.full = FALSE, !.wev = TRUE])
    /\ UNCHANGED <<netVars, chat>>

\* The answer to the PING that goes with CONNECT
AnswerConnect(c) ==
    /\ Idle /\ sock[c].st = "est" /\ ~sock[c].fin /\ sock[c].peer = "conn"
    /\ "answer" \in Behaves[sock[c].srv]
    /\ SetSock(c, [sock[c] EXCEPT !.peer = "ponged", !.inq = Append(@, "PONG")])
    /\ UNCHANGED <<netVars, chat>>

RefuseConnect(c) ==
    /\ Idle /\ sock[c].st = "est" /\ ~sock[c].fin /\ sock[c].peer = "conn"
    /\ "refuse" \in Behaves[sock[c].srv]
    /\ SetSock(c, [sock[c] EXCEPT !.peer = "refused", !.inq = Append(@, "ERR")])
    /\ UNCHANGED <<netVars, chat>>

\* Anything else a server may say; only -ERR, +OK and garbage before CONNECT
ServerSays(c, m) ==
    /\ Idle /\ sock[c].st = "est" /\ ~sock[c].fin
    /\ m \in Behaves[sock[c].srv] /\ chat < MaxChat
    /\ m \in {"PING", "PONG", "MSG"} => sock[c].peer = "ponged"
    /\ chat' = chat + 1
    /\ SetSock(c, [sock[c] EXCEPT !.inq = Append(@, m)])
    /\ UNCHANGED netVars

\* The server ends its stream and goes on receiving.
ServerCloses(c) ==
    /\ Idle /\ sock[c].st = "est" /\ ~sock[c].fin /\ "drop" \in Behaves[sock[c].srv]
    /\ SetSock(c, [sock[c] EXCEPT !.fin = TRUE])
    /\ UNCHANGED <<netVars, chat>>

\* The server, or something on the way, resets the connection, also one whose
\* stream has ended.  The error is pending and wakes both handlers.
ServerResets(c) ==
    /\ Idle /\ sock[c].st = "est" /\ "reset" \in Behaves[sock[c].srv]
    /\ SetSock(c, [sock[c] EXCEPT !.st = "err", !.wev = TRUE, !.full = FALSE,
                                  !.inq = <<>>])
    /\ UNCHANGED <<netVars, chat>>

\* After a crash or at exit nothing more happens.
Terminated ==
    /\ phase = "exit" \/ fault # "none"
    /\ UNCHANGED vars

-----------------------------------------------------------------------------
Connect == ConnectGiveUp \/ ConnectDeclined \/ ConnectInProgress \/ ConnectAtOnce
Flush   == FlushNothing \/ FlushError \/ FlushSome \/ FlushAgain
Recv    == RecvData \/ RecvAgain \/ RecvEnd
Dispatch == \/ ProcessEnd \/ ProcessSkip \/ ProcessOk \/ ProcessInfo \/ ProcessPing
            \/ ProcessPong \/ ProcessErr \/ ProcessBad \/ ProcessMsg \/ ReadyLoop
TearDown == CloseSocket \/ CloseNotify \/ CloseFinish

\* A step of the handler under way
Step == Connect \/ Flush \/ Recv \/ Dispatch \/ TearDown \/ CallbackReturn

Client == Publish \/ Subscribe \/ Unsubscribe \/ \E cl \in Clients : AddClient(cl)

Timer == ReconnectTimer \/ PingTimer \/ \E c \in Socks : WriteTimeout(c)

Event == \E c \in Socks : ReadEvent(c) \/ WriteEvent(c)

Network == \E c \in Socks :
    \/ Establish(c) \/ Refuse(c) \/ Drain(c) \/ AnswerConnect(c) \/ RefuseConnect(c)
    \/ ServerCloses(c) \/ ServerResets(c)
    \/ \E m \in Chat : ServerSays(c, m)

Next == \/ InitProcess \/ ExitProcess \/ Step \/ Client \/ Timer \/ Event
        \/ Network \/ Terminated

Spec == Init /\ [][Next]_vars

\* What nginx and the kernel guarantee: a handler under way goes on; the event
\* loop comes back to every timer that expired and to every descriptor that is
\* ready, whatever else it handles in between; a connection attempt or a full
\* socket is resolved one way or another; a server that speaks the protocol
\* answers CONNECT.  Every short send takes a byte or more, so the first message
\* is sent whole in the end.  Nothing is assumed of API calls, chatter, drops and
\* resets.
Unblocked(c) == Establish(c) \/ Refuse(c) \/ Drain(c) \/ WriteTimeout(c)

Fairness ==
    /\ WF_vars(InitProcess) /\ WF_vars(Step)
    /\ SF_vars(FlushSome /\ wbuf' # wbuf)
    /\ SF_vars(ReconnectTimer) /\ SF_vars(PingTimer)
    /\ \A c \in Socks :
        /\ SF_vars(ReadEvent(c)) /\ SF_vars(WriteEvent(c))
        /\ SF_vars(Unblocked(c))
        /\ SF_vars(AnswerConnect(c) \/ RefuseConnect(c))

LiveSpec == Spec /\ Fairness

-----------------------------------------------------------------------------
(* Properties *)

\* The types of all variables.
TypeOK ==
    /\ phase \in {"boot", "run", "exit"}
    /\ curr \in -1 .. N - 1
    /\ rtimer \in BOOLEAN /\ current \in BOOLEAN
    /\ clients \in Seq(Clients)
    /\ subs \subseteq Nat /\ nextId \in Nat
    /\ bits \subseteq Ready
    /\ conn \in Socks \cup {NoSock}
    /\ info \in BOOLEAN /\ ptimer \in BOOLEAN /\ phandler \in BOOLEAN
    /\ wbuf \in Seq(Outs) /\ rbuf \in Seq(Ins) /\ rpos \in Nat
    /\ sock \in [Socks -> Sock]
    /\ stack \in Seq(Frame)
    /\ fault \in Faults
    /\ told \in [Clients -> {"up", "down"}]
    /\ tried \subseteq Servers /\ halfway \in BOOLEAN
    /\ calls \in 0 .. MaxCalls /\ chat \in 0 .. MaxChat

Open == {c \in Socks : sock[c].st # "free"}

\* The server of a connection may greet without its version.
Bare(c) == "bare" \in Behaves[sock[c].srv]

\* No sequence of events makes ngx_nats_close_connection follow a NULL
\* connection, ngx_nats_connect_loop zero a ping timer that is in nginx's
\* timer tree, a ping timer run without a handler, or `pos += rc` leave the
\* read buffer.  ngx_nats_connection_ready does follow a NULL srv_version, but
\* only on a connection to a server that may greet without a version.
NoFault ==
    /\ fault \in {"none", "null_version"}
    /\ fault = "null_version" => \E c \in Open : Bare(c)

\* "currently one only": the buffers and the memory of nc are shared by all
\* connections, so no descriptor other than nc's is ever left open by the
\* close and reconnect paths, the double close of ngx_nats_read_from_nats
\* included.
OneConnection == Open \subseteq {conn}

\* Between handlers the worker waits for exactly one of two things, a
\* connection or the reconnect timer, so it neither loses touch with NATS for
\* good nor has the timer replace a live connection.  An attempt under way
\* has its write timer, the only thing that ends one that hangs.
NeverStuck == Idle =>
    /\ rtimer <=> Open = {}
    /\ \A c \in Open : sock[c].st = "syn" => sock[c].wtimer

\* Between handlers every registered client has been told the truth: its last
\* callback was `connected` exactly when ngx_nats_publish would be accepted,
\* however its registration interleaved with the handshake, with the loops
\* over the clients and with the teardown.
ClientView == Idle => \A cl \in Registered : told[cl] = "up" <=> IsReady

\* ngx_nats_connection_ready never calls `connected` in a client that has had
\* it for this connection, also not one that was added from a callback while
\* the loop was under way.
ConnectedOnce ==
    [][At("ready") /\ Len(stack') > Len(stack) => told[clients[Top.i]] = "down"]_vars

\* No subscription outlives its connection: the next one starts with no sids,
\* numbered from 1 again, as the server does.
NoStaleSubs == Idle /\ ~IsReady => subs = {} /\ nextId = 0

\* Bytes left in the write buffer between handlers have something that will
\* send them: a write event is pending, or the socket is full and will have
\* one.  ngx_nats_read_from_nats compares with a length taken before the
\* callbacks ran, and a short send registers no event.  Not so after a call
\* failed halfway: its remains are flushed by nobody, and what is flushed
\* while a handler reads makes wlen larger than what it leaves, a PONG say.
WriteProgress ==
    Idle /\ wbuf # <<>> /\ ~halfway => \A c \in Open : sock[c].full \/ sock[c].wev

\* The worker calls the connection ready only if the server has accepted this
\* connection's CONNECT: the state bits of an earlier connection, left in the
\* same memory, never count for the next one.
ReadyAgreed == IsReady => \A c \in Open : sock[c].peer = "ponged"

\* "we're out of memory, do not put us into a tight connection loop": between
\* two waits for the reconnect timer no server is tried twice, however the
\* connections in between ended.
NoTightLoop == At("connect") /\ ~WentRound => NextIndex \notin tried

\* Once armed, the reconnect timer is disarmed only by its expiry: the second
\* close of a connection never turns a wait into an immediate reconnect.
TimerHonoured == [][rtimer => rtimer' \/ ReconnectTimer]_vars

\* As long as servers only decline, hang, or end their streams in good order, the
\* worker ends up with a ready connection to the one that works, for good.
EventuallyReady == <>[](IsReady \/ phase = "exit")

-----------------------------------------------------------------------------
(* What the documentation says and the code does not do *)

\* "ping specified the interval at which Nginx sends PING messages": a
\* connection that stays ready has its ping timer armed, or armed again.
KeepsPinging == []<>(~IsReady \/ phase = "exit" \/ ptimer)

\* "0<=pos<=end" for the read buffer
ReadPosInBuffer == rpos <= Len(rbuf)

-----------------------------------------------------------------------------
(* The inductive invariant behind NoFault, OneConnection, NeverStuck,      *)
(* NoTightLoop and TimerHonoured, for clients that do not call the API     *)
(* from `disconnected` and sends that do not fail below a callback.        *)

Rotated == curr \in Servers /\ tried = 0 .. curr

\* What the worker has: neither a connection nor a timer (yet), a connection,
\* one whose socket is closed, or the timer
Connecting == /\ ~rtimer /\ Open = {} /\ ~ptimer /\ ~IsReady
              /\ IF curr = -1 THEN tried = {} ELSE Rotated
Live       == ~rtimer /\ Open = {conn} /\ conn \in Socks /\ Rotated
Closing    == ~rtimer /\ Open = {} /\ ~ptimer /\ Rotated /\ conn \in Socks
Waiting    == rtimer /\ Open = {} /\ ~ptimer /\ ~IsReady /\ curr = -1

\* Who may call whom while the connection is up: ngx_nats_process_buffer is
\* called by the reader only, and a flush that is not called by an event
\* handler is called from a callback.
Shape(s) == \A j \in 1 .. Len(s) :
    /\ s[j].op \in {"flush", "recv", "process", "ready", "callback"}
    /\ s[j].op = "callback" => s[j].why # "disconnected"
    /\ s[j].op = "recv" => j = Len(s)
    /\ s[j].op = "process" => j + 1 = Len(s) /\ s[j + 1].op = "recv"
    /\ s[j].op = "flush" => j = Len(s) \/ s[j + 1].op = "callback"

Working  == Live /\ Shape(stack)
Dialling == Connecting /\ Len(stack) = 1 /\ Top.op = "connect"

\* A close is under way, at position k of the stack (2 while it calls a
\* client); another one may follow it, which finds its work done.
Tearing(k) ==
    /\ Len(stack) \in {k, k + 1}
    /\ stack[k].op \in {"close", "notify", "finish"}
    /\ Len(stack) = k + 1 =>
          /\ stack[k + 1].op = "close" /\ stack[k + 1].why # "DISCONNECTED"
          /\ "BYTES" \in bits
    /\ stack[k].op = "close" =>
          \/ Live /\ (Len(stack) = k + 1 => stack[k].why # "DISCONNECTED")
          \/ /\ Waiting /\ conn \in Socks /\ Len(stack) = k
             /\ "BYTES" \in bits /\ stack[k].why # "DISCONNECTED"
    /\ stack[k].op \in {"notify", "finish"} =>
          \/ Closing /\ (Len(stack) = k + 1 => stack[k].why = "later")
          \/ Waiting /\ conn \in Socks /\ Len(stack) = k /\ stack[k].why = "later"

Notifying == Top.op = "callback" /\ Top.why = "disconnected" /\ stack[2].op = "notify"

TearingDown == Tearing(1) \/ (Notifying /\ Tearing(2))

Mode ==
    \/ phase = "boot" /\ stack = <<>> /\ Connecting
    \/ phase # "boot" /\ stack = <<>> /\ (Live \/ Waiting)
    \/ phase = "run" /\ stack # <<>> /\ (Working \/ Dialling \/ TearingDown)

\* The reader works on nc's established socket, and what it has yet to skip
\* is there and came after INFO, if the server says its version.
Reading(f) ==
    /\ f.op = "recv" => f.c = conn /\ sock[conn].st = "est"
    /\ f.op = "process" =>
          /\ rpos + f.i <= Len(rbuf) /\ "BYTES" \in bits
          /\ f.i # 0 => info \/ Bare(conn)

Reader == rpos <= Len(rbuf) /\ \A j \in 1 .. Len(stack) : Reading(stack[j])

\* INFO comes first, and is next as long as it has not been handled.
InfoFirst == ~info => \A c \in Open : ~Bare(c) =>
    /\ rpos < Len(rbuf) => rbuf[rpos + 1] = "INFO"
    /\ rpos >= Len(rbuf) /\ sock[c].st = "est" => sock[c].inq # <<>> /\ sock[c].inq[1] = "INFO"

\* A closed socket has no events left; a pending attempt has its write timer,
\* until that closes it.
Pending == \A c \in Socks :
    /\ sock[c].st = "free" => sock[c] = FreeSock
    /\ sock[c].st = "syn" =>
        /\ ~sock[c].wev /\ ~sock[c].full
        /\ sock[c].wtimer \/ (stack # <<>> /\ Top.op = "close")

\* The control flow of the worker, in the middle of handlers too: it is idle, at
\* work on a connection, dialling or tearing down, with the stack, the timers
\* and the buffers that go with it, whichever function re-entered which.
ControlInv == NoFault /\ Mode /\ Reader /\ InfoFirst /\ Pending /\ (ptimer => phandler)

-----------------------------------------------------------------------------
(* What ControlInv needs beside it to be an inductive invariant behind     *)
(* ClientView, ConnectedOnce, NoStaleSubs, ReadyAgreed and WriteProgress   *)

Frames(s) == {s[k] : k \in 1 .. Len(s)}

\* The loops over the clients under way, each with the number of frames below
LoopOps  == {"ready", "notify", "finish"}
Loops(s) == {<<s[k], Len(s) - k>> : k \in {j \in 1 .. Len(s) : s[j].op \in LoopOps}}

\* There are subscriptions only on a connection that is ready.
SubsInv == ~IsReady => subs = {} /\ nextId = 0

\* CONNECT is the first thing written, and the server says PING, PONG and MSG
\* only once it has answered it.
Answered(q) == \E k \in 1 .. Len(q) : q[k] \in {"PING", "PONG", "MSG"}

Handshake(s) ==
    /\ s.st = "syn" => bits = {}
    /\ "SENT" \notin bits => wbuf = <<>> /\ s.peer = "info"
    /\ \A k \in 1 .. Len(wbuf) : wbuf[k] = "CONNECT" => k = 1 /\ s.peer = "info"
    /\ "OKAYED" \in bits \/ Answered(rbuf) \/ Answered(s.inq) => s.peer = "ponged"

HandshakeInv == \A c \in Open : Handshake(sock[c])

\* ngx_nats_connection_ready is called by the reader and knows the clients there
\* were then; no client comes while ngx_nats_close_connection tells them.
LoopsInv == \A p \in Loops(stack) :
    /\ p[1].op = "ready" => /\ p[2] = 2 /\ bits = Ready
                           /\ p[1].i >= 1 /\ p[1].n <= Len(clients)
    /\ p[1].op = "notify" => p[1].i >= 1 /\ p[1].n = Len(clients)

\* Client j is on the connected side of the loop of frame f.
Reached(f, j) ==
    /\ f.op = "ready" => j < f.i \/ j > f.n
    /\ f.op = "notify" => j >= f.i
    /\ f.op # "finish"

\* A client thinks it is connected exactly when the connection is ready and no
\* loop has yet to tell it so, or has told it otherwise.
ToldInv ==
    /\ Open # {} => current
    /\ "OKAYED" \in bits => bits = Ready
    /\ \A i, j \in 1 .. Len(clients) : clients[i] = clients[j] => i = j
    /\ \A cl \in Clients \ Registered : told[cl] = "down"
    /\ \A j \in 1 .. Len(clients) :
          told[clients[j]] = "up" <=> IsReady /\ \A p \in Loops(stack) : Reached(p[1], j)

\* What is in the write buffer has a write event to come, or a function under
\* way that flushes it or drops it.  A reader that found bytes there when it
\* started, and so may leave some, knows that an event is to come.
Blocked == \A c \in Open : sock[c].full \/ sock[c].wev

WriteInv == ~halfway =>
    /\ \A f \in Frames(stack) : f.op = "recv" => f.i = 0 \/ Blocked
    /\ wbuf # <<>> => \/ Blocked
                   \/ \E f \in Frames(stack) : f.op \in {"flush", "recv", "close"}

\* What the clients have been told, the subscriptions, the handshake and the
\* write buffer are those of the one connection, also while callbacks run
\* below ngx_nats_connection_ready, ngx_nats_process_msg and
\* ngx_nats_close_connection.
ClientInv == SubsInv /\ HandshakeInv /\ LoopsInv /\ ToldInv /\ WriteInv

=============================================================================
