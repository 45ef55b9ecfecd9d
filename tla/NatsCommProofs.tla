--------------------------- MODULE NatsCommProofs ---------------------------
(***************************************************************************)
(* Proofs about NatsComm, for every number of servers, clients, sockets    *)
(* and every value of the bounds: its types, in every environment, and     *)
(* that its control flow is sound (ControlInv), in environments in which   *)
(* clients do not call the API from `disconnected` and no send made below  *)
(* a callback fails.                                                       *)
(***************************************************************************)
EXTENDS NatsComm, SequenceTheorems, TLAPS

-----------------------------------------------------------------------------
(* Frames, sockets and stacks *)

LEMMA FrameTypes ==
    /\ \A op \in Ops : Act(op) \in Frame /\ Act(op).op = op
    /\ \A r \in Reasons : Close(r) \in Frame /\ Close(r).op = "close"
    /\ \A cb \in Callbacks : Callback(cb) \in Frame /\ Callback(cb).op = "callback"
    /\ \A k \in Nat : Process(k) \in Frame /\ Process(k).op = "process"
BY DEF Act, Close, Callback, Process, Frame, Ops, Reasons, Callbacks

LEMMA RecvFrame ==
    ASSUME NEW c \in Socks, Len(wbuf) \in Nat
    PROVE  RecvCall(c) \in Frame /\ RecvCall(c).c = c /\ RecvCall(c).op = "recv"
BY DEF RecvCall, Frame, Ops

\* The frames of the loops over the clients
LEMMA LoopFrames ==
    ASSUME clients \in Seq(Clients), NEW op \in Ops, NEW w \in {"none", "now", "later"}
    PROVE  Loop(op, w) \in Frame /\ Loop(op, w).op = op /\ Loop(op, w).why = w
<1>1. Len(clients) \in Nat
  BY LenProperties
<1> QED
  BY <1>1 DEF Loop, Act, Frame

LEMMA NextFrames ==
    ASSUME NEW f \in Frame
    PROVE  /\ [f EXCEPT !.i = @ + 1] \in Frame /\ [f EXCEPT !.i = @ + 1].op = f.op
           /\ [f EXCEPT !.i = @ + 1].why = f.why
           /\ [f EXCEPT !.op = "finish"] \in Frame /\ [f EXCEPT !.op = "finish"].op = "finish"
BY DEF Frame, Ops

\* What a stack must look like for the handlers to make sense of it: somebody
\* called ngx_nats_process_buffer, and a reader has a socket.
StackOK(s) ==
    /\ s \in Seq(Frame)
    /\ \A j \in 1 .. Len(s) :
        /\ s[j].op = "process" => j < Len(s)
        /\ s[j].op = "recv" => s[j].c \in Socks

LEMMA PopOK ==
    ASSUME NEW s, StackOK(s), s # <<>>
    PROVE  /\ StackOK(Tail(s))
           /\ Head(s) \in Frame
           /\ Head(s).op = "process" => Tail(s) # <<>>
           /\ Head(s).op = "recv" => Head(s).c \in Socks
<1> USE DEF StackOK
<1>1. Len(s) \in Nat \ {0}
  BY EmptySeq
<1>2. /\ Head(s) = s[1] /\ Tail(s) \in Seq(Frame) /\ Len(Tail(s)) = Len(s) - 1
      /\ \A i \in 1 .. Len(Tail(s)) : Tail(s)[i] = s[i + 1]
  BY HeadTailProperties
<1>3. StackOK(Tail(s))
  BY <1>1, <1>2
<1>4. Head(s) \in Frame
  BY <1>1, <1>2
<1>5. Head(s).op = "process" => Tail(s) # <<>>
  BY <1>1, <1>2
<1>6. Head(s).op = "recv" => Head(s).c \in Socks
  BY <1>1, <1>2
<1> QED
  BY <1>3, <1>4, <1>5, <1>6

LEMMA EmptyOK == StackOK(<<>>)
BY EmptySeq DEF StackOK

LEMMA PushOK ==
    ASSUME NEW s, StackOK(s), NEW f \in Frame,
           f.op = "process" => s # <<>>,
           f.op = "recv" => f.c \in Socks
    PROVE  StackOK(<<f>> \o s)
<1>1. <<f>> \in Seq(Frame) /\ Len(<<f>>) = 1 /\ <<f>>[1] = f
  OBVIOUS
<1> QED
  BY <1>1, ConcatProperties DEF StackOK

LEMMA PushTwoOK ==
    ASSUME NEW s, StackOK(s), NEW f \in Frame, NEW g \in Frame,
           f.op # "recv", g.op # "recv", g.op = "process" => s # <<>>
    PROVE  StackOK(<<f, g>> \o s)
<1>1. /\ <<f, g>> \in Seq(Frame) /\ Len(<<f, g>>) = 2
      /\ <<f, g>>[1] = f /\ <<f, g>>[2] = g
  OBVIOUS
<1> QED
  BY <1>1, ConcatProperties DEF StackOK

LEMMA OneOK ==
    ASSUME NEW f \in Frame, f.op # "process", f.op = "recv" => f.c \in Socks
    PROVE  StackOK(<<f>>)
<1>1. <<f>> \in Seq(Frame) /\ Len(<<f>>) = 1 /\ <<f>>[1] = f
  OBVIOUS
<1> QED
  BY <1>1 DEF StackOK

LEMMA TwoOK ==
    ASSUME NEW f \in Frame, f.op # "process", f.op # "recv",
           NEW g \in Frame, g.op # "process", g.op # "recv"
    PROVE  StackOK(<<f, g>>)
<1>1. /\ <<f, g>> \in Seq(Frame) /\ Len(<<f, g>>) = 2
      /\ <<f, g>>[1] = f /\ <<f, g>>[2] = g
  OBVIOUS
<1> QED
  BY <1>1 DEF StackOK

LEMMA FreeSockType == FreeSock \in Sock
BY CommAssumption DEF FreeSock, Sock, Servers, Peers

\* Every update of a socket the actions make
LEMMA SockUpdates ==
    ASSUME NEW r \in Sock
    PROVE  /\ \A b \in BOOLEAN : [r EXCEPT !.wtimer = b] \in Sock
           /\ [r EXCEPT !.wev = FALSE, !.wtimer = FALSE] \in Sock
           /\ \A b \in BOOLEAN, p \in Peers : [r EXCEPT !.full = b, !.peer = p] \in Sock
           /\ \A q \in Seq(Ins) : [r EXCEPT !.inq = q] \in Sock
           /\ \A q \in Seq(Ins), p \in Peers : [r EXCEPT !.peer = p, !.inq = q] \in Sock
           /\ \A q \in Seq(Ins) : [r EXCEPT !.st = "est", !.wev = TRUE, !.inq = q] \in Sock
           /\ [r EXCEPT !.st = "err", !.wev = TRUE] \in Sock
           /\ [r EXCEPT !.st = "err", !.wev = TRUE, !.full = FALSE, !.inq = <<>>] \in Sock
           /\ [r EXCEPT !.full = FALSE, !.wev = TRUE] \in Sock
           /\ [r EXCEPT !.fin = TRUE] \in Sock
           /\ r.inq \in Seq(Ins) /\ r.peer \in Peers
BY EmptySeq DEF Sock

\* What a server says first
LEMMA GreetingTypes ==
    ASSUME NEW srv, NEW m \in Greetings(srv)
    PROVE  /\ m \in {"INFO", "INFO-"} /\ m \in Ins /\ <<m>> \in Seq(Ins)
           /\ m = "INFO" \/ "bare" \in Behaves[srv]
BY DEF Greetings, Ins

LEMMA SubSeqType ==
    ASSUME NEW S, NEW s \in Seq(S), NEW m \in Nat \ {0}, NEW n \in 0 .. Len(s)
    PROVE  SubSeq(s, m, n) \in Seq(S)
<1>1. Len(s) \in Nat /\ m \in Int /\ n \in Int
  BY LenProperties
<1>2. \A i \in m .. n : s[i] \in S
  BY <1>1, ElementOfSeq
<1> QED
  BY <1>1, <1>2, SubSeqProperties

LEMMA SetSockType ==
    ASSUME sock \in [Socks -> Sock], NEW c, NEW r, c \in Socks => r \in Sock, SetSock(c, r)
    PROVE  sock' \in [Socks -> Sock]
BY DEF SetSock

LEMMA NextIndexType ==
    ASSUME curr \in -1 .. N - 1
    PROVE  NextIndex \in Servers
BY CommAssumption DEF NextIndex, LastIndex, Servers

-----------------------------------------------------------------------------
(* Type correctness *)

TypeInv == TypeOK /\ StackOK(stack)

LEMMA TypeConnect ==
    ASSUME TypeInv, Connect \/ InitProcess \/ ExitProcess \/ ReconnectTimer
    PROVE  TypeInv'
<1> USE CommAssumption, FrameTypes DEF TypeInv
<1>0. <<>> \in Seq(Ins) /\ <<>> \in Seq(Outs)
  BY EmptySeq
<1>1. CASE InitProcess
  <2>1. StackOK(stack')
    BY <1>1, OneOK DEF InitProcess, Ops
  <2> QED
    BY <1>1, <2>1 DEF InitProcess, TypeOK, StackOK, cdVars, ncVars, rVars, histVars, capVars
<1>2. CASE ExitProcess
  BY <1>2 DEF ExitProcess, TypeOK, StackOK, cdVars, ncVars, rVars, histVars, capVars
<1>3. CASE ReconnectTimer
  <2>1. StackOK(stack')
    BY <1>3, OneOK DEF ReconnectTimer, Ops
  <2> QED
    BY <1>3, <2>1 DEF ReconnectTimer, TypeOK, StackOK, cdVars, ncVars, rVars, capVars
<1>4. CASE ConnectGiveUp
  <2>1. StackOK(stack')
    BY <1>4, PopOK DEF ConnectGiveUp, At, Return
  <2>2. curr' \in -1 .. N - 1 /\ rtimer' \in BOOLEAN
    BY <1>4, NextIndexType DEF ConnectGiveUp, AddReconnectTimer, TypeOK, Servers
  <2> QED
    BY <1>4, <2>1, <2>2 DEF ConnectGiveUp, TypeOK, StackOK, cdVars, ncVars, rVars, histVars, capVars
<1>5. ASSUME Attempt
      PROVE  /\ curr' \in -1 .. N - 1 /\ current' \in BOOLEAN
             /\ tried' \subseteq Servers /\ halfway' \in BOOLEAN
             /\ info' \in BOOLEAN /\ ptimer' \in BOOLEAN /\ phandler' \in BOOLEAN
             /\ fault' \in Faults
             /\ rbuf' \in Seq(Ins) /\ rpos' \in Nat
             /\ UNCHANGED <<phase, rtimer, clients, subs, nextId, told, calls, chat>>
             /\ NextIndex \in Servers
  <2>1. NextIndex \in Servers
    BY NextIndexType DEF TypeOK
  <2>2. fault' \in Faults
    BY <1>5 DEF Attempt, TypeOK, Faults
  <2>3. curr' \in -1 .. N - 1
    BY <1>5, <2>1 DEF Attempt, Servers
  <2>4. tried' \subseteq Servers
    BY <1>5, <2>1 DEF Attempt, TypeOK
  <2>5. UNCHANGED <<phase, rtimer, clients, subs, nextId, told, calls, chat>>
    BY <1>5 DEF Attempt, cdVars, capVars
  <2> QED
    BY <1>5, <1>0, <2>1, <2>2, <2>3, <2>4, <2>5 DEF Attempt
<1>6. CASE ConnectDeclined
  BY <1>6, <1>5, <1>0 DEF ConnectDeclined, TypeOK, StackOK, Ready
<1>7. CASE ConnectInProgress
  <2>1. StackOK(stack')
    BY <1>7, PopOK DEF ConnectInProgress, Attempt, At, Return
  <2>2. [FreeSock EXCEPT !.st = "syn", !.wtimer = TRUE, !.srv = NextIndex] \in Sock
    BY <1>7, <1>5, FreeSockType DEF ConnectInProgress, Sock
  <2>3. sock' \in [Socks -> Sock] /\ conn' \in Socks
    BY <1>7, <2>2, SetSockType DEF ConnectInProgress, TypeOK
  <2> QED
    BY <1>7, <1>5, <1>0, <2>1, <2>3 DEF ConnectInProgress, TypeOK, StackOK
<1>8. CASE ConnectAtOnce
  <2>1. StackOK(stack')
    BY <1>8, PopOK, PushOK DEF ConnectAtOnce, Attempt, At, Jump, Ops
  <2>2. <<"CONNECT">> \in Seq(Outs)
    BY DEF Outs
  <2>3. \A m \in Greetings(NextIndex) :
          [FreeSock EXCEPT !.st = "est", !.wev = TRUE, !.inq = <<m>>, !.srv = NextIndex] \in Sock
    BY <1>8, <1>5, GreetingTypes, FreeSockType DEF ConnectAtOnce, Sock
  <2>4. sock' \in [Socks -> Sock] /\ conn' \in Socks
    BY <1>8, <2>3, SetSockType DEF ConnectAtOnce, TypeOK
  <2> QED
    BY <1>8, <1>5, <2>1, <2>2, <2>4 DEF ConnectAtOnce, TypeOK, StackOK, Ready
<1> QED
  BY <1>1, <1>2, <1>3, <1>4, <1>6, <1>7, <1>8 DEF Connect

\* ngx_nats_check_connected
LEMMA CheckConnectedType ==
    ASSUME TypeOK, CheckConnected
    PROVE  bits' \subseteq Ready /\ ptimer' \in BOOLEAN /\ phandler' \in BOOLEAN
BY DEF CheckConnected, TypeOK, Ready

LEMMA TypeWrite ==
    ASSUME TypeInv, Flush \/ \E c \in Socks : WriteEvent(c) \/ WriteTimeout(c)
    PROVE  TypeInv'
<1> USE CommAssumption, FrameTypes DEF TypeInv, ndVars, cdVars, ncVars, rVars, histVars, capVars
<1>1. CASE FlushNothing
  <2>1. StackOK(stack')
    BY <1>1, PopOK DEF FlushNothing, At, Return
  <2> QED
    BY <1>1, <2>1 DEF FlushNothing, TypeOK, StackOK
<1>2. CASE FlushError
  <2>1. StackOK(stack')
    BY <1>2, PopOK, PushOK DEF FlushError, At, Jump, Reasons
  <2> QED
    BY <1>2, <2>1 DEF FlushError, TypeOK, StackOK
<1>3. CASE FlushSome
  <2>1. StackOK(stack')
    BY <1>3, PopOK, PushOK DEF FlushSome, At, Return, Jump, Reasons
  <2>2. PICK k \in 0 .. Len(wbuf) :
          /\ wbuf' = SubSeq(wbuf, k + 1, Len(wbuf))
          /\ SetSock(conn, [sock[conn] EXCEPT
                !.full = k < Len(wbuf),
                !.peer = IF k > 0 /\ wbuf[1] = "CONNECT" THEN "conn" ELSE @])
    BY <1>3 DEF FlushSome
  <2>3. sock' \in [Socks -> Sock]
    <3> SUFFICES ASSUME conn \in Socks
                 PROVE  [sock[conn] EXCEPT
                          !.full = k < Len(wbuf),
                          !.peer = IF k > 0 /\ wbuf[1] = "CONNECT" THEN "conn" ELSE @] \in Sock
      BY <2>2, SetSockType DEF TypeOK
    <3>1. sock[conn] \in Sock /\ Len(wbuf) \in Nat
      BY LenProperties DEF TypeOK
    <3>2. (k < Len(wbuf)) \in BOOLEAN
      OBVIOUS
    <3>3. (IF k > 0 /\ wbuf[1] = "CONNECT" THEN "conn" ELSE sock[conn].peer) \in Peers
      BY <3>1, SockUpdates DEF Peers
    <3> QED
      BY <3>1, <3>2, <3>3, SockUpdates
  <2>4. wbuf' \in Seq(Outs)
    <3>1. wbuf \in Seq(Outs) /\ Len(wbuf) \in Nat
      BY LenProperties DEF TypeOK
    <3> QED
      BY <2>2, <3>1, SubSeqType
  <2> QED
    BY <1>3, <2>1, <2>3, <2>4, CheckConnectedType DEF FlushSome, TypeOK, StackOK
<1>4. CASE FlushAgain
  <2>1. StackOK(stack')
    BY <1>4, PopOK, PushOK DEF FlushAgain, At, Return, Jump, Reasons
  <2>2. conn \in Socks => [sock[conn] EXCEPT !.wtimer = TRUE] \in Sock
    BY SockUpdates DEF TypeOK
  <2>3. sock' \in [Socks -> Sock]
    BY <1>4, <2>2, SetSockType DEF FlushAgain, TypeOK
  <2> QED
    BY <1>4, <2>1, <2>3 DEF FlushAgain, TypeOK, StackOK
<1>5. ASSUME NEW c \in Socks, WriteEvent(c) PROVE TypeInv'
  <2>1. StackOK(stack')
    BY <1>5, OneOK DEF WriteEvent, Ops
  <2>2. [sock[c] EXCEPT !.wev = FALSE, !.wtimer = FALSE] \in Sock
    BY SockUpdates DEF TypeOK
  <2>3. sock' \in [Socks -> Sock]
    BY <1>5, <2>2, SetSockType DEF WriteEvent, TypeOK
  <2>4. bits' \subseteq Ready /\ wbuf' \in Seq(Outs)
    <3>1. Append(wbuf, "CONNECT") \in Seq(Outs)
      BY AppendProperties DEF TypeOK, Outs
    <3> QED
      BY <1>5, <3>1 DEF WriteEvent, InitBits, InitWbuf, TypeOK, Ready
  <2> QED
    BY <1>5, <2>1, <2>3, <2>4 DEF WriteEvent, TypeOK, StackOK
<1>6. ASSUME NEW c \in Socks, WriteTimeout(c) PROVE TypeInv'
  <2>1. StackOK(stack')
    BY <1>6, OneOK DEF WriteTimeout, Reasons
  <2>2. [sock[c] EXCEPT !.wtimer = FALSE] \in Sock
    BY SockUpdates DEF TypeOK
  <2>3. sock' \in [Socks -> Sock]
    BY <1>6, <2>2, SetSockType DEF WriteTimeout, TypeOK
  <2> QED
    BY <1>6, <2>1, <2>3 DEF WriteTimeout, TypeOK, StackOK
<1> QED
  BY <1>1, <1>2, <1>3, <1>4, <1>5, <1>6 DEF Flush

LEMMA TypeRead ==
    ASSUME TypeInv, Recv \/ \E c \in Socks : ReadEvent(c)
    PROVE  TypeInv'
<1> USE CommAssumption, FrameTypes DEF TypeInv, ndVars, cdVars, ncVars, rVars, histVars, capVars
<1>1. ASSUME NEW c \in Socks, ReadEvent(c) PROVE TypeInv'
  <2>1. Len(wbuf) \in Nat
    BY LenProperties DEF TypeOK
  <2>2. RecvCall(c) \in Frame /\ RecvCall(c).c = c /\ RecvCall(c).op = "recv"
    BY <2>1, RecvFrame
  <2>3. StackOK(stack')
    BY <1>1, <2>2, OneOK DEF ReadEvent, ConnectError, Reasons
  <2> QED
    BY <1>1, <2>3 DEF ReadEvent, ConnectError, TypeOK, StackOK
<1>2. CASE RecvData
  <2>1. Top.c \in Socks /\ stack # <<>> /\ sock[Top.c] \in Sock
    BY <1>2, PopOK DEF RecvData, At, Top, TypeOK
  <2>2. StackOK(stack')
    BY <1>2, <2>1, PushOK DEF RecvData, Call
  <2>3. PICK k \in Nat :
          /\ k <= Len(sock[Top.c].inq)
          /\ rbuf' = rbuf \o SubSeq(sock[Top.c].inq, 1, k)
          /\ SetSock(Top.c, [sock[Top.c] EXCEPT !.inq = SubSeq(@, k + 1, Len(@))])
    <3>1. PICK k \in (IF "BYTES" \in bits THEN 1 ELSE 0) .. Len(sock[Top.c].inq) :
            /\ rbuf' = rbuf \o SubSeq(sock[Top.c].inq, 1, k)
            /\ SetSock(Top.c, [sock[Top.c] EXCEPT !.inq = SubSeq(@, k + 1, Len(@))])
      BY <1>2 DEF RecvData
    <3>2. Len(sock[Top.c].inq) \in Nat
      BY <2>1, SockUpdates, LenProperties
    <3>3. k \in Nat /\ k <= Len(sock[Top.c].inq)
      BY <3>2
    <3> QED
      BY <3>1, <3>3
  <2>4. sock[Top.c].inq \in Seq(Ins)
    BY <2>1, SockUpdates
  <2>5. /\ SubSeq(sock[Top.c].inq, 1, k) \in Seq(Ins)
        /\ SubSeq(sock[Top.c].inq, k + 1, Len(sock[Top.c].inq)) \in Seq(Ins)
    <3>1. Len(sock[Top.c].inq) \in Nat
      BY <2>4, LenProperties
    <3>2. /\ 1 \in Nat \ {0} /\ k \in 0 .. Len(sock[Top.c].inq)
          /\ k + 1 \in Nat \ {0} /\ Len(sock[Top.c].inq) \in 0 .. Len(sock[Top.c].inq)
      BY <2>3, <3>1
    <3>3. SubSeq(sock[Top.c].inq, 1, k) \in Seq(Ins)
      BY <2>4, <3>2, SubSeqType
    <3>4. SubSeq(sock[Top.c].inq, k + 1, Len(sock[Top.c].inq)) \in Seq(Ins)
      BY <2>4, <3>2, SubSeqType
    <3> QED
      BY <3>3, <3>4
  <2>6. [sock[Top.c] EXCEPT !.inq = SubSeq(@, k + 1, Len(@))] \in Sock
    BY <2>1, <2>5, SockUpdates
  <2>7. sock' \in [Socks -> Sock]
    BY <2>3, <2>6, SetSockType DEF TypeOK
  <2>8. rbuf' \in Seq(Ins)
    BY <2>3, <2>5, ConcatProperties DEF TypeOK
  <2> QED
    BY <1>2, <2>2, <2>7, <2>8, CheckConnectedType DEF RecvData, TypeOK, StackOK
<1>3. CASE RecvAgain
  <2>1. StackOK(stack')
    BY <1>3, PopOK, PushOK DEF RecvAgain, At, Return, Jump, Reasons, Ops
  <2> QED
    BY <1>3, <2>1 DEF RecvAgain, TypeOK, StackOK
<1>4. CASE RecvEnd
  <2>1. StackOK(stack')
    BY <1>4, PopOK, PushOK DEF RecvEnd, At, Jump, Reasons
  <2> QED
    BY <1>4, <2>1 DEF RecvEnd, TypeOK, StackOK
<1> QED
  BY <1>1, <1>2, <1>3, <1>4 DEF Recv

LEMMA TypeDispatch ==
    ASSUME TypeInv, Dispatch
    PROVE  TypeInv'
<1> USE CommAssumption, FrameTypes DEF TypeInv, ndVars, cdVars, ncVars, rVars, histVars, capVars
<1>0. At("process") => StackOK(Tail(stack)) /\ Tail(stack) # <<>> /\ StackOK(Tail(Tail(stack)))
  BY PopOK DEF At, Top
<1>1. CASE ProcessEnd
  <2>1. StackOK(stack')
    BY <1>1, PopOK DEF ProcessEnd, At, Return
  <2> QED
    BY <1>1, <2>1, EmptySeq DEF ProcessEnd, TypeOK, StackOK
<1>2. CASE ProcessSkip
  <2>1. StackOK(stack')
    BY <1>2, <1>0, PushOK DEF ProcessSkip, Jump
  <2>2. fault' \in Faults
    BY <1>2 DEF ProcessSkip, TypeOK, Faults
  <2>3. /\ rpos' \in Nat
        /\ UNCHANGED <<phase, curr, rtimer, current, clients, subs, nextId, bits, conn, info,
                       ptimer, phandler, wbuf, rbuf, sock, told, tried, halfway, calls, chat>>
    BY <1>2 DEF ProcessSkip, TypeOK
  <2> QED
    BY <2>1, <2>2, <2>3 DEF TypeOK, StackOK
<1>3. CASE ProcessOk
  BY <1>3 DEF ProcessOk, TypeOK, StackOK
<1>4. CASE ProcessInfo
  <2>1. info' \in BOOLEAN
    BY <1>4 DEF ProcessInfo, ParseInfo, TypeOK
  <2> QED
    BY <1>4, <2>1 DEF ProcessInfo, TypeOK, StackOK
<1>5. CASE ProcessPing
  <2>1. Append(wbuf, "PONG") \in Seq(Outs)
    BY AppendProperties DEF TypeOK, Outs
  <2>3. wbuf' \in {wbuf, Append(wbuf, "PONG")} /\ rpos' = rpos + 1
    BY <1>5 DEF ProcessPing
  <2>4. wbuf \in Seq(Outs) /\ rpos \in Nat
    BY DEF TypeOK
  <2>2. wbuf' \in Seq(Outs) /\ rpos' \in Nat
    BY <2>1, <2>3, <2>4
  <2> QED
    BY <1>5, <2>2 DEF ProcessPing, TypeOK, StackOK
<1>6. CASE ProcessPong
  <2>2. /\ Loop("ready", "none") \in Frame /\ Loop("ready", "none").op = "ready"
        /\ Process(1) \in Frame /\ Process(1).op = "process"
    BY LoopFrames DEF TypeOK, Ops
  <2>3. StackOK(<<Loop("ready", "none"), Process(1)>> \o Tail(stack))
    BY <1>6, <1>0, <2>2, PushTwoOK DEF ProcessPong, Parsed
  <2>5. StackOK(stack')
    BY <1>6, <2>3 DEF ProcessPong, Invoke
  <2>4. bits' \subseteq Ready /\ fault' \in Faults /\ rpos' \in Nat
    BY <1>6 DEF ProcessPong, TypeOK, Faults
  <2> QED
    BY <1>6, <2>5, <2>4 DEF ProcessPong, TypeOK, StackOK
<1>7. CASE ProcessErr
  <2>0. StackOK(<<Close("CONNECT_REFUSED"), Close("BAD_PROTOCOL")>> \o Tail(Tail(stack)))
    BY <1>7, <1>0, PushTwoOK DEF ProcessErr, Parsed, Reasons
  <2>1. StackOK(stack')
    BY <1>7, <2>0 DEF ProcessErr, CloseTwice
  <2>2. rpos' \in Nat
    BY <1>7 DEF ProcessErr, TypeOK
  <2> QED
    BY <1>7, <2>1, <2>2 DEF ProcessErr, TypeOK, StackOK
<1>8. CASE ProcessBad
  <2>1. StackOK(stack')
    BY <1>8, <1>0, PushTwoOK DEF ProcessBad, Parsed, CloseTwice, Reasons
  <2> QED
    BY <1>8, <2>1 DEF ProcessBad, TypeOK, StackOK
<1>9. CASE ProcessMsg
  <2>0. StackOK(<<Callback("msg"), Process(1)>> \o Tail(stack))
    BY <1>9, <1>0, PushTwoOK DEF ProcessMsg, GetSubscription, RemoveSubscription, Parsed, Callbacks
  <2>1. StackOK(stack')
    BY <1>9, <2>0 DEF ProcessMsg, GetSubscription, RemoveSubscription, Invoke
  <2>2. subs' \subseteq subs /\ rpos' \in {rpos, rpos + 1}
    BY <1>9 DEF ProcessMsg, GetSubscription, RemoveSubscription
  <2>3. subs' \subseteq Nat /\ rpos' \in Nat
    BY <2>2 DEF TypeOK
  <2> QED
    BY <1>9, <2>1, <2>3 DEF ProcessMsg, GetSubscription, RemoveSubscription, TypeOK, StackOK
<1>10. CASE ReadyLoop
  <2>1. /\ StackOK(Tail(stack)) /\ Top \in Frame /\ Top.op = "ready"
    BY <1>10, PopOK DEF ReadyLoop, At, Top
  <2>2. /\ [Top EXCEPT !.i = @ + 1] \in Frame
        /\ [Top EXCEPT !.i = @ + 1].op = "ready"
    BY <2>1, NextFrames
  <2>5. StackOK(<<Callback("connected"), [Top EXCEPT !.i = @ + 1]>> \o Tail(stack))
    BY <2>1, <2>2, PushTwoOK DEF Callbacks
  <2>3. StackOK(stack')
    BY <1>10, <2>1, <2>5 DEF ReadyLoop, Invoke, Return
  <2>4. told' \in [Clients -> {"up", "down"}]
    BY <1>10 DEF ReadyLoop, TypeOK
  <2> QED
    BY <1>10, <2>3, <2>4 DEF ReadyLoop, TypeOK, StackOK
<1> QED
  BY <1>1, <1>2, <1>3, <1>4, <1>5, <1>6, <1>7, <1>8, <1>9, <1>10 DEF Dispatch

LEMMA TypeTearDown ==
    ASSUME TypeInv, TearDown \/ PingTimer \/ CallbackReturn
    PROVE  TypeInv'
<1> USE CommAssumption, FrameTypes DEF TypeInv, ndVars, cdVars, ncVars, rVars, histVars, capVars
<1>1. CASE CloseSocket
  <2> DEFINE op == IF bits = Ready THEN "notify" ELSE "finish"
             w  == IF Top.why = "DISCONNECTED" \/ "BYTES" \notin bits THEN "now" ELSE "later"
  <2>1. op \in {"notify", "finish"} /\ w \in {"now", "later"} /\ op \in Ops
    BY DEF Ops
  <2>2. Loop(op, w) \in Frame /\ Loop(op, w).op \in {"notify", "finish"}
    BY <2>1, LoopFrames DEF TypeOK
  <2>3. StackOK(stack')
    BY <1>1, <2>2, PopOK, PushOK DEF CloseSocket, At, Jump
  <2>4. sock' \in [Socks -> Sock]
    BY <1>1, FreeSockType DEF CloseSocket, TypeOK
  <2>5. fault' \in Faults
    BY <1>1 DEF CloseSocket, TypeOK, Faults
  <2> QED
    BY <1>1, <2>3, <2>4, <2>5 DEF CloseSocket, TypeOK, StackOK
<1>2. CASE CloseNotify
  <2>1. /\ StackOK(Tail(stack)) /\ Top \in Frame /\ Top.op = "notify"
    BY <1>2, PopOK DEF CloseNotify, At, Top
  <2>2. /\ [Top EXCEPT !.i = @ + 1] \in Frame /\ [Top EXCEPT !.i = @ + 1].op = "notify"
        /\ [Top EXCEPT !.op = "finish"] \in Frame /\ [Top EXCEPT !.op = "finish"].op = "finish"
    BY <2>1, NextFrames
  <2>5. /\ StackOK(<<Callback("disconnected"), [Top EXCEPT !.i = @ + 1]>> \o Tail(stack))
        /\ StackOK(<<[Top EXCEPT !.op = "finish"]>> \o Tail(stack))
    BY <2>1, <2>2, PushOK, PushTwoOK DEF Callbacks
  <2>3. StackOK(stack')
    BY <1>2, <2>5 DEF CloseNotify, Invoke, Jump
  <2>4. told' \in [Clients -> {"up", "down"}]
    BY <1>2 DEF CloseNotify, TypeOK
  <2> QED
    BY <1>2, <2>3, <2>4 DEF CloseNotify, TypeOK, StackOK
<1>3. CASE CloseFinish
  <2>1. StackOK(stack')
    BY <1>3, PopOK, PushOK DEF CloseFinish, At, Jump, Return, Ops
  <2>2. curr' \in {curr, -1} /\ rtimer' \in BOOLEAN
    BY <1>3 DEF CloseFinish, AddReconnectTimer
  <2>4. curr' \in -1 .. N - 1
    BY <2>2 DEF TypeOK
  <2>3. <<>> \in Seq(Ins) /\ <<>> \in Seq(Outs)
    BY EmptySeq
  <2> QED
    BY <1>3, <2>1, <2>2, <2>3, <2>4 DEF CloseFinish, ResetBuffers, TypeOK, StackOK
<1>4. CASE PingTimer
  <2>1. fault' \in Faults
    BY <1>4 DEF PingTimer, TypeOK, Faults
  <2> QED
    BY <1>4, <2>1 DEF PingTimer, TypeOK, StackOK
<1>5. CASE CallbackReturn
  <2>1. StackOK(stack')
    BY <1>5, PopOK DEF CallbackReturn, At, Return
  <2> QED
    BY <1>5, <2>1 DEF CallbackReturn, TypeOK, StackOK
<1> QED
  BY <1>1, <1>2, <1>3, <1>4, <1>5 DEF TearDown

LEMMA TypeClient ==
    ASSUME TypeInv, Client
    PROVE  TypeInv'
<1> USE CommAssumption, FrameTypes DEF TypeInv, ndVars, cdVars, ncVars, rVars, histVars, capVars
<1>0. ASSUME NEW f, f \in {Act("flush"), Callback("connected")}
      PROVE  StackOK(<<f>> \o stack)
  BY <1>0, PushOK DEF Ops, Callbacks
<1>1. ASSUME Caller PROVE calls' \in 0 .. MaxCalls
  BY <1>1 DEF Caller, TypeOK
<1>2. \A m \in Outs : Append(wbuf, m) \in Seq(Outs)
  BY AppendProperties DEF TypeOK
<1>3. ASSUME NEW cl \in Clients, AddClient(cl) PROVE TypeInv'
  <2>1. StackOK(stack')
    BY <1>3, <1>0 DEF AddClient, Call
  <2>2. clients' \in Seq(Clients)
    BY <1>3, AppendProperties DEF AddClient, TypeOK
  <2>3. told' \in [Clients -> {"up", "down"}]
    BY <1>3 DEF AddClient, TypeOK
  <2> QED
    BY <1>3, <1>1, <2>1, <2>2, <2>3 DEF AddClient, TypeOK, StackOK
<1>4. CASE Publish
  <2>1. StackOK(stack')
    BY <1>4, <1>0 DEF Publish, Call
  <2>2. wbuf' \in Seq(Outs)
    BY <1>4, <1>2 DEF Publish, Outs
  <2> QED
    BY <1>4, <1>1, <2>1, <2>2 DEF Publish, TypeOK, StackOK
<1>5. CASE Subscribe
  <2>1. StackOK(stack')
    BY <1>5, <1>0 DEF Subscribe, AddSubscription, Call
  <2>2. wbuf' \in Seq(Outs)
    BY <1>5, <1>2 DEF Subscribe, AddSubscription, Outs, TypeOK
  <2>3. subs' = subs \/ subs' = subs \cup {nextId + 1}
    BY <1>5 DEF Subscribe, AddSubscription
  <2>4. nextId' = nextId + 1 /\ nextId \in Nat /\ subs \subseteq Nat
    BY <1>5 DEF Subscribe, AddSubscription, TypeOK
  <2>5. subs' \subseteq Nat /\ nextId' \in Nat
    <3>1. nextId + 1 \in Nat
      BY ONLY <2>4
    <3> QED
      BY ONLY <2>3, <2>4, <3>1
  <2> QED
    BY <1>5, <1>1, <2>1, <2>2, <2>5 DEF Subscribe, AddSubscription, TypeOK, StackOK
<1>6. CASE Unsubscribe
  <2>1. StackOK(stack')
    BY <1>6, <1>0 DEF Unsubscribe, RemoveSubscription, Call
  <2>2. wbuf' \in Seq(Outs)
    BY <1>6, <1>2 DEF Unsubscribe, RemoveSubscription, Outs, TypeOK
  <2>3. subs' \subseteq Nat
    BY <1>6 DEF Unsubscribe, RemoveSubscription, TypeOK
  <2> QED
    BY <1>6, <1>1, <2>1, <2>2, <2>3 DEF Unsubscribe, RemoveSubscription, TypeOK, StackOK
<1> QED
  BY <1>3, <1>4, <1>5, <1>6 DEF Client

LEMMA TypeNetwork ==
    ASSUME TypeInv, Network
    PROVE  TypeInv'
<1> USE CommAssumption DEF TypeInv, ndVars, cdVars, ncVars, rVars, histVars, capVars
<1>1. PICK c \in Socks :
        \/ Establish(c) \/ Refuse(c) \/ Drain(c) \/ AnswerConnect(c) \/ RefuseConnect(c)
        \/ ServerCloses(c) \/ ServerResets(c) \/ \E m \in Chat : ServerSays(c, m)
  BY DEF Network
<1>2. sock[c] \in Sock /\ sock[c].inq \in Seq(Ins)
  BY SockUpdates DEF TypeOK
<1>3. /\ \A m \in Ins : Append(sock[c].inq, m) \in Seq(Ins)
      /\ \A m \in Greetings(sock[c].srv) : <<m>> \in Seq(Ins)
  BY <1>2, AppendProperties, GreetingTypes
<1>4. /\ \A m \in Greetings(sock[c].srv) :
            [sock[c] EXCEPT !.st = "est", !.wev = TRUE, !.inq = <<m>>] \in Sock
      /\ [sock[c] EXCEPT !.st = "err", !.wev = TRUE] \in Sock
      /\ [sock[c] EXCEPT !.st = "err", !.wev = TRUE, !.full = FALSE, !.inq = <<>>] \in Sock
      /\ [sock[c] EXCEPT !.full = FALSE, !.wev = TRUE] \in Sock
      /\ [sock[c] EXCEPT !.fin = TRUE] \in Sock
  BY <1>2, <1>3, SockUpdates
<1>5. /\ [sock[c] EXCEPT !.peer = "ponged", !.inq = Append(@, "PONG")] \in Sock
      /\ [sock[c] EXCEPT !.peer = "refused", !.inq = Append(@, "ERR")] \in Sock
  BY <1>2, <1>3, SockUpdates DEF Peers, Ins, Chat
<1>6. \A m \in Chat : [sock[c] EXCEPT !.inq = Append(@, m)] \in Sock
  BY <1>2, <1>3, SockUpdates DEF Ins
<1>7. PICK r \in Sock : SetSock(c, r)
  BY <1>1, <1>4, <1>5, <1>6
     DEF Establish, Refuse, Drain, AnswerConnect, RefuseConnect, ServerCloses, ServerResets,
         ServerSays
<1>8. sock' \in [Socks -> Sock]
  BY <1>7, SetSockType DEF TypeOK
<1>9. UNCHANGED netVars /\ (chat' = chat \/ (chat < MaxChat /\ chat' = chat + 1))
  BY <1>1 DEF Establish, Refuse, Drain, AnswerConnect, RefuseConnect, ServerCloses,
              ServerResets, ServerSays
<1>10. chat' \in 0 .. MaxChat
  BY <1>9 DEF TypeOK
<1> QED
  BY <1>8, <1>9, <1>10 DEF netVars, TypeOK, StackOK

LEMMA TypeInit ==
    ASSUME Init
    PROVE  TypeInv
<1>1. StackOK(stack) /\ clients \in Seq(Clients) /\ wbuf \in Seq(Outs) /\ rbuf \in Seq(Ins)
  BY EmptyOK, EmptySeq DEF Init
<1>2. sock \in [Socks -> Sock]
  BY FreeSockType DEF Init
<1>3. curr \in -1 .. N - 1 /\ calls \in 0 .. MaxCalls /\ chat \in 0 .. MaxChat
  BY CommAssumption DEF Init
<1> QED
  BY <1>1, <1>2, <1>3 DEF Init, TypeInv, TypeOK, Faults, StackOK

LEMMA TypeNext ==
    ASSUME TypeInv, [Next]_vars
    PROVE  TypeInv'
<1>1. CASE UNCHANGED vars
  BY <1>1 DEF vars, ndVars, cdVars, ncVars, rVars, histVars, capVars, TypeInv, TypeOK, StackOK
<1>2. CASE Next
  BY <1>1, <1>2, TypeConnect, TypeWrite, TypeRead, TypeDispatch, TypeTearDown, TypeClient,
     TypeNetwork DEF Next, Step, Timer, Event, Terminated
<1> QED
  BY <1>1, <1>2

\* Every variable keeps its type, and every handler finds on the stack what it
\* needs, whatever clients call from where and whatever fails.
THEOREM TypeCorrect == Spec => []TypeOK
<1>1. Init => TypeInv
  BY TypeInit
<1>2. TypeInv /\ [Next]_vars => TypeInv'
  BY TypeNext
<1>3. TypeInv => TypeOK
  BY DEF TypeInv
<1> QED
  BY <1>1, <1>2, <1>3, PTL DEF Spec

-----------------------------------------------------------------------------
(* The control flow *)

GoodEnvironment ==
    /\ CallbackCalls \subseteq {"connected", "msg"}
    /\ ~NestedErrors

-----------------------------------------------------------------------------
(* Stacks *)

LEMMA Popped ==
    ASSUME NEW s \in Seq(Frame), s # <<>>
    PROVE  /\ Len(s) \in Nat \ {0} /\ Head(s) = s[1] /\ Head(s) \in Frame
           /\ Tail(s) \in Seq(Frame) /\ Len(Tail(s)) = Len(s) - 1
           /\ \A i \in 1 .. Len(s) - 1 : Tail(s)[i] = s[i + 1]
           /\ Tail(s) = <<>> <=> Len(s) = 1
<1>1. Len(s) \in Nat \ {0}
  BY EmptySeq
<1>2. /\ Head(s) = s[1] /\ Tail(s) \in Seq(Frame) /\ Len(Tail(s)) = Len(s) - 1
      /\ \A i \in 1 .. Len(Tail(s)) : Tail(s)[i] = s[i + 1]
  BY HeadTailProperties
<1>3. Head(s) \in Frame
  BY <1>1, <1>2
<1>4. Tail(s) = <<>> <=> Len(Tail(s)) = 0
  BY <1>2, EmptySeq
<1> QED
  BY <1>1, <1>2, <1>3, <1>4

LEMMA Pushed ==
    ASSUME NEW s \in Seq(Frame), NEW f \in Frame
    PROVE  /\ <<f>> \o s \in Seq(Frame) /\ Len(<<f>> \o s) = Len(s) + 1
           /\ Len(s) \in Nat /\ <<f>> \o s # <<>>
           /\ (<<f>> \o s)[1] = f /\ Head(<<f>> \o s) = f
           /\ \A i \in 1 .. Len(s) : (<<f>> \o s)[i + 1] = s[i]
<1>1. <<f>> \in Seq(Frame) /\ Len(<<f>>) = 1 /\ <<f>>[1] = f /\ Len(s) \in Nat
  BY LenProperties
<1>2. /\ <<f>> \o s \in Seq(Frame) /\ Len(<<f>> \o s) = Len(s) + 1
      /\ \A i \in 1 .. Len(s) + 1 : (<<f>> \o s)[i] = IF i <= 1 THEN <<f>>[i] ELSE s[i - 1]
  BY <1>1, ConcatProperties
<1>3. <<f>> \o s # <<>>
  BY <1>1, <1>2, EmptySeq
<1>4. Head(<<f>> \o s) = (<<f>> \o s)[1]
  BY <1>2, <1>3, Popped
<1> QED
  BY <1>1, <1>2, <1>3, <1>4

LEMMA PushedTwo ==
    ASSUME NEW s \in Seq(Frame), NEW f \in Frame, NEW g \in Frame
    PROVE  /\ <<f, g>> \o s \in Seq(Frame) /\ Len(<<f, g>> \o s) = Len(s) + 2
           /\ Len(s) \in Nat /\ <<f, g>> \o s # <<>>
           /\ (<<f, g>> \o s)[1] = f /\ (<<f, g>> \o s)[2] = g /\ Head(<<f, g>> \o s) = f
           /\ \A i \in 1 .. Len(s) : (<<f, g>> \o s)[i + 2] = s[i]
<1>1. /\ <<f, g>> \in Seq(Frame) /\ Len(<<f, g>>) = 2
      /\ <<f, g>>[1] = f /\ <<f, g>>[2] = g /\ Len(s) \in Nat
  BY LenProperties
<1>2. /\ <<f, g>> \o s \in Seq(Frame) /\ Len(<<f, g>> \o s) = Len(s) + 2
      /\ \A i \in 1 .. Len(s) + 2 :
            (<<f, g>> \o s)[i] = IF i <= 2 THEN <<f, g>>[i] ELSE s[i - 2]
  BY <1>1, ConcatProperties
<1>3. <<f, g>> \o s # <<>>
  BY <1>1, <1>2, EmptySeq
<1>4. Head(<<f, g>> \o s) = (<<f, g>> \o s)[1]
  BY <1>2, <1>3, Popped
<1>5. ASSUME NEW i \in 1 .. Len(s) PROVE (<<f, g>> \o s)[i + 2] = s[i]
  BY <1>1, <1>2
<1> QED
  BY <1>1, <1>2, <1>3, <1>4, <1>5

LEMMA Alone ==
    ASSUME NEW f \in Frame
    PROVE  /\ <<f>> \in Seq(Frame) /\ Len(<<f>>) = 1 /\ <<f>> # <<>>
           /\ <<f>>[1] = f /\ Head(<<f>>) = f
OBVIOUS

-----------------------------------------------------------------------------
(* The stacks of a connection that is up *)

LEMMA ShapePop ==
    ASSUME NEW s \in Seq(Frame), s # <<>>, Shape(s)
    PROVE  Shape(Tail(s))
<1> DEFINE t == Tail(s)
<1>1. /\ Len(s) \in Nat \ {0} /\ Len(t) = Len(s) - 1
      /\ \A i \in 1 .. Len(s) - 1 : t[i] = s[i + 1]
  BY Popped
<1> HIDE DEF t
<1> SUFFICES ASSUME NEW j \in 1 .. Len(t)
             PROVE  /\ t[j].op \in {"flush", "recv", "process", "ready", "callback"}
                    /\ t[j].op = "callback" => t[j].why # "disconnected"
                    /\ t[j].op = "recv" => j = Len(t)
                    /\ t[j].op = "process" => j + 1 = Len(t) /\ t[j + 1].op = "recv"
                    /\ t[j].op = "flush" => j = Len(t) \/ t[j + 1].op = "callback"
  BY DEF Shape, t
<1>2. /\ j + 1 \in 1 .. Len(s) /\ t[j] = s[j + 1]
      /\ j # Len(t) => t[j + 1] = s[(j + 1) + 1]
  BY <1>1
<1>3. /\ s[j + 1].op \in {"flush", "recv", "process", "ready", "callback"}
      /\ s[j + 1].op = "callback" => s[j + 1].why # "disconnected"
      /\ s[j + 1].op = "recv" => j + 1 = Len(s)
      /\ s[j + 1].op = "process" => (j + 1) + 1 = Len(s) /\ s[(j + 1) + 1].op = "recv"
      /\ s[j + 1].op = "flush" => j + 1 = Len(s) \/ s[(j + 1) + 1].op = "callback"
  BY <1>2 DEF Shape
<1> QED
  BY <1>1, <1>2, <1>3

\* A function of the connection is called, or called back.
LEMMA ShapePush ==
    ASSUME NEW s \in Seq(Frame), Shape(s), NEW f \in Frame,
           \/ f.op = "ready"
           \/ f.op = "callback" /\ f.why # "disconnected"
           \/ f.op = "flush" /\ (s # <<>> => s[1].op = "callback")
           \/ f.op = "process" /\ Len(s) = 1 /\ s[1].op = "recv"
           \/ f.op = "recv" /\ s = <<>>
    PROVE  Shape(<<f>> \o s)
<1> DEFINE t == <<f>> \o s
<1>1. /\ Len(t) = Len(s) + 1 /\ Len(s) \in Nat /\ t[1] = f
      /\ \A i \in 1 .. Len(s) : t[i + 1] = s[i]
  BY Pushed
<1>2. s = <<>> <=> Len(s) = 0
  BY EmptySeq
<1> HIDE DEF t
<1> SUFFICES ASSUME NEW j \in 1 .. Len(t)
             PROVE  /\ t[j].op \in {"flush", "recv", "process", "ready", "callback"}
                    /\ t[j].op = "callback" => t[j].why # "disconnected"
                    /\ t[j].op = "recv" => j = Len(t)
                    /\ t[j].op = "process" => j + 1 = Len(t) /\ t[j + 1].op = "recv"
                    /\ t[j].op = "flush" => j = Len(t) \/ t[j + 1].op = "callback"
  BY DEF Shape, t
<1>3. CASE j = 1
  <2>1. Len(s) # 0 => t[j + 1] = s[1]
    BY <1>1, <1>3
  <2> QED
    BY <1>1, <1>2, <1>3, <2>1
<1>4. CASE j # 1
  <2>1. /\ j - 1 \in 1 .. Len(s) /\ t[j] = s[j - 1]
        /\ j # Len(t) => t[j + 1] = s[(j - 1) + 1]
    BY <1>1, <1>4
  <2>2. /\ s[j - 1].op \in {"flush", "recv", "process", "ready", "callback"}
        /\ s[j - 1].op = "callback" => s[j - 1].why # "disconnected"
        /\ s[j - 1].op = "recv" => j - 1 = Len(s)
        /\ s[j - 1].op = "process" => (j - 1) + 1 = Len(s) /\ s[(j - 1) + 1].op = "recv"
        /\ s[j - 1].op = "flush" => j - 1 = Len(s) \/ s[(j - 1) + 1].op = "callback"
    BY <2>1 DEF Shape
  <2> QED
    BY <1>1, <1>4, <2>1, <2>2
<1> QED
  BY <1>3, <1>4

\* A function goes on as g when the f it calls returns.
LEMMA ShapePushTwo ==
    ASSUME NEW s \in Seq(Frame), Shape(s), NEW f \in Frame, NEW g \in Frame,
           f.op = "ready" \/ (f.op = "callback" /\ f.why # "disconnected"),
           g.op = "ready" \/ (g.op = "process" /\ Len(s) = 1 /\ s[1].op = "recv")
    PROVE  Shape(<<f, g>> \o s)
<1> DEFINE t == <<f, g>> \o s
<1>1. /\ Len(t) = Len(s) + 2 /\ Len(s) \in Nat /\ t[1] = f /\ t[2] = g
      /\ \A i \in 1 .. Len(s) : t[i + 2] = s[i]
  BY PushedTwo
<1> HIDE DEF t
<1> SUFFICES ASSUME NEW j \in 1 .. Len(t)
             PROVE  /\ t[j].op \in {"flush", "recv", "process", "ready", "callback"}
                    /\ t[j].op = "callback" => t[j].why # "disconnected"
                    /\ t[j].op = "recv" => j = Len(t)
                    /\ t[j].op = "process" => j + 1 = Len(t) /\ t[j + 1].op = "recv"
                    /\ t[j].op = "flush" => j = Len(t) \/ t[j + 1].op = "callback"
  BY DEF Shape, t
<1>2. CASE j = 1
  BY <1>1, <1>2
<1>3. CASE j = 2
  <2>1. Len(s) # 0 => t[j + 1] = s[1]
    BY <1>1, <1>3
  <2> QED
    BY <1>1, <1>3, <2>1
<1>4. CASE j > 2
  <2>1. /\ j - 2 \in 1 .. Len(s) /\ t[j] = s[j - 2]
        /\ j # Len(t) => t[j + 1] = s[(j - 2) + 1]
    BY <1>1, <1>4
  <2>2. /\ s[j - 2].op \in {"flush", "recv", "process", "ready", "callback"}
        /\ s[j - 2].op = "callback" => s[j - 2].why # "disconnected"
        /\ s[j - 2].op = "recv" => j - 2 = Len(s)
        /\ s[j - 2].op = "process" => (j - 2) + 1 = Len(s) /\ s[(j - 2) + 1].op = "recv"
        /\ s[j - 2].op = "flush" => j - 2 = Len(s) \/ s[(j - 2) + 1].op = "callback"
    BY <2>1 DEF Shape
  <2> QED
    BY <1>1, <1>4, <2>1, <2>2
<1> QED
  BY <1>2, <1>3, <1>4

-----------------------------------------------------------------------------
(* What the function under way says about the state *)

LEMMA TopMode ==
    ASSUME TypeInv, ControlInv, stack # <<>>
    PROVE  /\ phase = "run" /\ stack \in Seq(Frame) /\ Len(stack) \in Nat \ {0}
           /\ Top = stack[1] /\ Top \in Frame
           /\ Top.op \in {"flush", "recv", "process", "ready"} => Working
           /\ Top.op = "callback" /\ Top.why # "disconnected" => Working
           /\ Top.op = "callback" /\ Top.why = "disconnected" => Notifying /\ Tearing(2)
           /\ Top.op = "connect" => Dialling
           /\ Top.op \in {"close", "notify", "finish"} => Tearing(1)
<1>1. phase = "run" /\ (Working \/ Dialling \/ TearingDown)
  BY DEF ControlInv, Mode
<1>2. stack \in Seq(Frame) /\ Len(stack) \in Nat \ {0} /\ Top = stack[1] /\ Top \in Frame
  BY Popped DEF TypeInv, TypeOK, Top
<1>3. Working => /\ Top.op \in {"flush", "recv", "process", "ready", "callback"}
                 /\ Top.op = "callback" => Top.why # "disconnected"
  BY <1>2 DEF Working, Shape
<1>4. Dialling => Top.op = "connect"
  BY DEF Dialling
<1>5. TearingDown =>
        \/ Top.op \in {"close", "notify", "finish"} /\ Tearing(1)
        \/ Top.op = "callback" /\ Top.why = "disconnected" /\ Notifying /\ Tearing(2)
  BY <1>2 DEF TearingDown, Tearing, Notifying
<1> QED
  BY <1>1, <1>2, <1>3, <1>4, <1>5

\* Who is below it
LEMMA TopShape ==
    ASSUME TypeInv, ControlInv, stack # <<>>, Working
    PROVE  /\ Top.op = "recv" => Len(stack) = 1
           /\ Top.op = "process" => Len(stack) = 2 /\ stack[2].op = "recv"
           /\ Top.op = "flush" => Len(stack) = 1 \/ Nested
<1>1. Len(stack) \in Nat \ {0} /\ Top = stack[1] /\ Shape(stack)
  BY TopMode DEF Working
<1>2. PICK j \in 1 .. Len(stack) : j = 1
  BY <1>1
<1>4. /\ stack[j].op = "recv" => j = Len(stack)
      /\ stack[j].op = "process" => j + 1 = Len(stack) /\ stack[j + 1].op = "recv"
      /\ stack[j].op = "flush" => j = Len(stack) \/ stack[j + 1].op = "callback"
  BY <1>1 DEF Shape
<1>3. Len(stack) # 1 /\ stack[2].op = "callback" => Nested
  <2>1. Len(stack) # 1 => 2 \in 1 .. Len(stack)
    BY <1>1
  <2> QED
    BY <2>1 DEF Nested
<1>5. j + 1 = 2
  BY <1>2
<1> QED
  BY <1>1, <1>2, <1>3, <1>4, <1>5

\* Between handlers
LEMMA IdleMode ==
    ASSUME ControlInv, Idle
    PROVE  /\ Live \/ Waiting
           /\ Open # {} => Live
           /\ rtimer => Waiting
           /\ IsReady => Live
BY DEF ControlInv, Mode, Idle, Running, Live, Waiting

-----------------------------------------------------------------------------
(* What a step keeps *)

LEMMA OpenSame ==
    ASSUME sock \in [Socks -> Sock], NEW c \in Socks, NEW r, SetSock(c, r),
           r.st = "free" <=> sock[c].st = "free"
    PROVE  Open' = Open
BY DEF Open, SetSock

LEMMA OpenAdds ==
    ASSUME sock \in [Socks -> Sock], NEW c \in Socks, NEW r, SetSock(c, r), r.st # "free"
    PROVE  Open' = Open \cup {c}
BY DEF Open, SetSock

LEMMA LiveSame ==
    ASSUME Live, Open' = Open, UNCHANGED <<rtimer, conn, curr, tried>>
    PROVE  Live'
BY DEF Live, Rotated, Servers

LEMMA WaitingSame ==
    ASSUME Waiting, Open' = Open, UNCHANGED <<rtimer, ptimer, current, bits, curr>>
    PROVE  Waiting'
BY DEF Waiting, IsReady

LEMMA ReaderSame ==
    ASSUME Reader, UNCHANGED <<rbuf, rpos, conn, info>>,
           "BYTES" \in bits => "BYTES" \in bits',
           sock'[conn].st = sock[conn].st, sock'[conn].srv = sock[conn].srv,
           \A j \in 1 .. Len(stack') : stack'[j].op \in {"recv", "process"} =>
              \E i \in 1 .. Len(stack) : stack'[j] = stack[i]
    PROVE  Reader'
BY DEF Reader, Reading, Bare

FirstInfo(q) == q # <<>> /\ q[1] = "INFO"

LEMMA InfoSame ==
    ASSUME InfoFirst, UNCHANGED <<rbuf, rpos, info>>,
           \A c \in Socks : sock'[c].st # "free" =>
              /\ sock[c].st # "free" /\ sock'[c].srv = sock[c].srv
              /\ sock'[c].st = "est" =>
                    \/ sock[c].st = "est" /\ (FirstInfo(sock[c].inq) => FirstInfo(sock'[c].inq))
                    \/ FirstInfo(sock'[c].inq)
                    \/ Bare(c)
    PROVE  InfoFirst'
BY DEF InfoFirst, FirstInfo, Open, Bare

LEMMA InfoDone ==
    ASSUME Live', info' \/ Bare(conn)'
    PROVE  InfoFirst'
BY DEF InfoFirst, Live, Bare

Closes(s) == s # <<>> /\ Head(s).op = "close"

LEMMA PendingSame ==
    ASSUME Pending, UNCHANGED sock, ~Closes(stack)
    PROVE  Pending'
BY DEF Pending, Closes, Top

LEMMA PendingSet ==
    ASSUME sock \in [Socks -> Sock], Pending, ~Closes(stack),
           NEW c \in Socks, NEW r, SetSock(c, r), r.st # "free",
           r.st = "syn" => ~r.wev /\ ~r.full /\ (r.wtimer \/ Closes(stack'))
    PROVE  Pending'
BY DEF Pending, Closes, Top, SetSock

\* The function under way returns to the one that called it, or to nginx.
LEMMA WorkingPop ==
    ASSUME TypeInv, ControlInv, stack # <<>>, Working,
           stack' = Tail(stack), phase' = phase, Live'
    PROVE  /\ Mode'
           /\ \A j \in 1 .. Len(stack') : \E i \in 1 .. Len(stack) : stack'[j] = stack[i]
<1>1. /\ phase = "run" /\ stack \in Seq(Frame) /\ Len(stack) \in Nat \ {0}
  BY TopMode
<1>2. Shape(stack')
  BY <1>1, ShapePop DEF Working
<1>3. Mode'
  BY <1>1, <1>2 DEF Mode, Working
<1>4. ASSUME NEW j \in 1 .. Len(stack')
      PROVE  \E i \in 1 .. Len(stack) : stack'[j] = stack[i]
  <2>1. j + 1 \in 1 .. Len(stack) /\ stack'[j] = stack[j + 1]
    BY <1>1, Popped
  <2> QED
    BY <2>1
<1> QED
  BY <1>3, <1>4

-----------------------------------------------------------------------------
(* Every step keeps ControlInv *)

LEMMA ControlStart ==
    ASSUME TypeInv, ControlInv, fault = "none", InitProcess \/ ExitProcess \/ ReconnectTimer
    PROVE  ControlInv'
<1> DEFINE f == Act("connect")
<1>0. /\ f \in Frame /\ f.op = "connect"
      /\ Len(<<f>>) = 1 /\ <<f>> # <<>> /\ <<f>>[1] = f /\ Head(<<f>>) = f
  BY FrameTypes, Alone DEF Ops
<1> HIDE DEF f
<1>1. CASE InitProcess
  <2>1. /\ stack = <<>> /\ Connecting /\ stack' = <<f>> /\ phase' = "run"
        /\ UNCHANGED <<curr, rtimer, current, bits, conn, info, ptimer, phandler, rbuf, rpos,
                       sock, fault, tried>>
    BY <1>1 DEF InitProcess, ControlInv, Mode, f, cdVars, ncVars, rVars, histVars
  <2>2. Connecting'
    BY <2>1 DEF Connecting, Open, IsReady, Rotated
  <2>3. Mode'
    BY <1>0, <2>1, <2>2 DEF Mode, Dialling, Top
  <2>4. Reader'
    BY <1>0, <2>1, ReaderSame DEF ControlInv
  <2>5. InfoFirst'
    BY <2>1, InfoSame DEF ControlInv
  <2>6. Pending'
    BY <2>1, PendingSame DEF ControlInv, Closes
  <2> QED
    BY <2>1, <2>3, <2>4, <2>5, <2>6 DEF ControlInv, NoFault
<1>2. CASE ExitProcess
  <2>1. /\ stack = <<>> /\ stack' = <<>> /\ phase' = "exit"
        /\ UNCHANGED <<curr, rtimer, current, bits, conn, info, ptimer, phandler, rbuf, rpos,
                       sock, fault, tried>>
    BY <1>2 DEF ExitProcess, Idle, cdVars, ncVars, rVars, histVars
  <2>2. Open' = Open
    BY <2>1 DEF Open
  <2>3. Mode'
    BY <1>2, <2>1, <2>2, IdleMode, LiveSame, WaitingSame DEF Mode, ExitProcess
  <2>4. Reader'
    BY <2>1, ReaderSame DEF ControlInv
  <2>5. InfoFirst'
    BY <2>1, InfoSame DEF ControlInv
  <2>6. Pending'
    BY <2>1, PendingSame DEF ControlInv, Closes
  <2> QED
    BY <2>1, <2>3, <2>4, <2>5, <2>6 DEF ControlInv, NoFault
<1>3. CASE ReconnectTimer
  <2>1. /\ Idle /\ rtimer /\ ~rtimer' /\ tried' = {} /\ stack' = <<f>>
        /\ phase = "run" /\ stack = <<>>
        /\ UNCHANGED <<phase, curr, current, bits, conn, info, ptimer, phandler, rbuf, rpos,
                       sock, fault>>
    BY <1>3 DEF ReconnectTimer, Idle, Running, f, cdVars, ncVars, rVars
  <2>2. Waiting
    BY <2>1, IdleMode
  <2>3. Connecting'
    BY <2>1, <2>2 DEF Connecting, Waiting, Open, IsReady
  <2>4. Mode'
    BY <1>0, <2>1, <2>3 DEF Mode, Dialling, Top
  <2>5. Reader'
    BY <1>0, <2>1, ReaderSame DEF ControlInv
  <2>6. InfoFirst'
    BY <2>1, InfoSame DEF ControlInv
  <2>7. Pending'
    BY <2>1, PendingSame DEF ControlInv, Closes
  <2> QED
    BY <2>1, <2>4, <2>5, <2>6, <2>7 DEF ControlInv, NoFault
<1> QED
  BY <1>1, <1>2, <1>3

\* One attempt: the next server in order, which was not tried since the wait
LEMMA AttemptFacts ==
    ASSUME TypeInv, ControlInv, fault = "none", Attempt
    PROVE  /\ phase = "run" /\ Len(stack) = 1 /\ Top.op = "connect" /\ Tail(stack) = <<>>
           /\ stack # <<>>
           /\ Open = {} /\ Rotated' /\ curr' \in Servers /\ NextIndex \notin tried
           /\ ~rtimer' /\ ~ptimer' /\ ~phandler' /\ fault' = "none" /\ phase' = phase
           /\ info' = FALSE /\ rbuf' = <<>> /\ rpos' = 0 /\ Len(rbuf') = 0
           /\ curr \in -1 .. N - 1
<1>1. /\ stack # <<>> /\ phase = "run" /\ Len(stack) = 1 /\ Top.op = "connect"
      /\ Tail(stack) = <<>> /\ Connecting
  BY TopMode, Popped DEF Attempt, At, Dialling
<1>2. curr \in -1 .. N - 1 /\ N \in Nat \ {0}
  BY CommAssumption DEF TypeInv, TypeOK
<1>3. ~WentRound /\ curr' = NextIndex /\ tried' = tried \cup {NextIndex}
  BY DEF Attempt
<1>4. CASE curr = -1
  <2>1. NextIndex = 0 /\ tried = {}
    BY <1>1, <1>4 DEF NextIndex, LastIndex, Connecting
  <2>2. 0 .. 0 = {0} /\ 0 \in 0 .. N - 1
    BY <1>2
  <2> QED
    BY <1>1, <1>2, <1>3, <2>1, <2>2, EmptySeq
       DEF Attempt, Connecting, Rotated, Servers, ControlInv, NoFault
<1>5. CASE curr # -1
  <2>1. curr \in 0 .. N - 1 /\ tried = 0 .. curr
    BY <1>1, <1>5 DEF Connecting, Rotated, Servers
  <2>2. NextIndex = curr + 1 /\ curr + 1 \in 0 .. N - 1
    BY <1>2, <1>3, <2>1 DEF WentRound, NextIndex, LastIndex
  <2>3. tried' = 0 .. curr + 1
    BY <1>3, <2>1, <2>2
  <2> QED
    BY <1>1, <1>2, <1>3, <2>1, <2>2, <2>3, EmptySeq
       DEF Attempt, Connecting, Rotated, Servers, ControlInv, NoFault
<1> QED
  BY <1>4, <1>5

LEMMA ControlConnect ==
    ASSUME TypeInv, ControlInv, fault = "none", Connect
    PROVE  ControlInv'
<1>0. sock \in [Socks -> Sock] /\ stack \in Seq(Frame) /\ NoSock \notin Socks
  BY CommAssumption DEF TypeInv, TypeOK
<1>1. CASE ConnectGiveUp
  <2>1. /\ stack # <<>> /\ phase = "run" /\ Len(stack) = 1 /\ Top.op = "connect"
        /\ Tail(stack) = <<>> /\ Connecting
    BY <1>1, TopMode, Popped DEF ConnectGiveUp, At, Dialling
  <2>2. /\ stack' = <<>> /\ rtimer' /\ curr' = -1 /\ phase' = phase
        /\ UNCHANGED <<current, bits, conn, info, ptimer, phandler, rbuf, rpos, sock, fault>>
    BY <1>1, <2>1 DEF ConnectGiveUp, AddReconnectTimer, Return, Connecting, ncVars, rVars
  <2>3. Waiting'
    BY <2>1, <2>2 DEF Waiting, Connecting, Open, IsReady
  <2>4. Mode'
    BY <2>1, <2>2, <2>3 DEF Mode
  <2>5. Reader'
    BY <2>2, EmptySeq, ReaderSame DEF ControlInv
  <2>6. InfoFirst'
    BY <2>2, InfoSame DEF ControlInv
  <2>7. Pending'
    BY <2>1, <2>2, PendingSame DEF ControlInv, Closes, Top
  <2> QED
    BY <2>2, <2>4, <2>5, <2>6, <2>7 DEF ControlInv, NoFault
<1>2. CASE ConnectDeclined
  <2>1. /\ UNCHANGED <<sock, stack>> /\ bits' = {} /\ Attempt
    BY <1>2 DEF ConnectDeclined
  <2>2. Connecting'
    BY <2>1, AttemptFacts DEF Connecting, Open, IsReady, Ready, Servers
  <2>3. Mode'
    BY <2>1, <2>2, AttemptFacts DEF Mode, Dialling, Top
  <2>4. Reader'
    <3>1. Len(stack) = 1 /\ stack[1].op = "connect"
      BY <2>1, AttemptFacts, TopMode
    <3> QED
      BY <2>1, <3>1, AttemptFacts DEF Reader, Reading
  <2>5. InfoFirst'
    BY <2>1, AttemptFacts DEF InfoFirst, Open
  <2>6. Pending'
    BY <2>1, AttemptFacts, PendingSame DEF ControlInv, Closes, Top
  <2> QED
    BY <2>1, <2>3, <2>4, <2>5, <2>6, AttemptFacts DEF ControlInv, NoFault
<1>3. CASE ConnectInProgress
  <2> DEFINE r == [FreeSock EXCEPT !.st = "syn", !.wtimer = TRUE, !.srv = NextIndex]
  <2>1. PICK c \in Socks : sock[c].st = "free" /\ conn' = c /\ SetSock(c, r)
    BY <1>3 DEF ConnectInProgress
  <2>2. r.st = "syn" /\ r.wtimer /\ ~r.wev /\ ~r.full
    BY DEF FreeSock
  <2> HIDE DEF r
  <2>3. Attempt /\ stack' = <<>> /\ Len(stack') = 0
    BY <1>3, AttemptFacts, EmptySeq DEF ConnectInProgress, Return
  <2>4. Open' = {c}
    BY <1>0, <2>1, <2>2, <2>3, OpenAdds, AttemptFacts
  <2>5. Live'
    BY <2>1, <2>3, <2>4, AttemptFacts DEF Live
  <2>6. Mode'
    BY <2>3, <2>5, AttemptFacts DEF Mode
  <2>7. Reader'
    BY <2>3, AttemptFacts DEF Reader
  <2>8. InfoFirst'
    <3>1. \A d \in Socks : sock'[d].st # "est"
      BY <1>0, <2>1, <2>2, <2>3, AttemptFacts DEF SetSock, Open
    <3> QED
      BY <2>3, <3>1, AttemptFacts DEF InfoFirst, Open
  <2>9. Pending'
    BY <1>0, <2>1, <2>2, <2>3, AttemptFacts, PendingSet DEF ControlInv, Closes, Top
  <2> QED
    BY <2>3, <2>6, <2>7, <2>8, <2>9, AttemptFacts DEF ControlInv, NoFault
<1>4. CASE ConnectAtOnce
  <2>0. PICK c \in Socks, m \in Greetings(NextIndex) :
          /\ sock[c].st = "free" /\ conn' = c
          /\ SetSock(c, [FreeSock EXCEPT !.st = "est", !.wev = TRUE, !.inq = <<m>>,
                                         !.srv = NextIndex])
    BY <1>4 DEF ConnectAtOnce
  <2> DEFINE r == [FreeSock EXCEPT !.st = "est", !.wev = TRUE, !.inq = <<m>>,
                                   !.srv = NextIndex]
             f == Act("flush")
  <2>1. sock[c].st = "free" /\ conn' = c /\ SetSock(c, r)
    BY <2>0
  <2>2. r.st = "est" /\ r.inq = <<m>> /\ r.srv = NextIndex
    BY DEF FreeSock
  <2>3. f \in Frame /\ f.op = "flush"
    BY FrameTypes DEF Ops
  <2> HIDE DEF r
  <2>4. Attempt /\ stack' = <<f>> \o <<>> /\ <<>> \in Seq(Frame) /\ Len(<<>>) = 0
    BY <1>4, AttemptFacts, EmptySeq DEF ConnectAtOnce, Jump
  <2> HIDE DEF f
  <2>5. Len(stack') = 1 /\ stack' # <<>> /\ stack'[1] = f /\ Head(stack') = f
    BY <2>3, <2>4, Pushed
  <2>6. Open' = {c}
    BY <1>0, <2>1, <2>2, <2>4, OpenAdds, AttemptFacts
  <2>7. Live'
    BY <2>1, <2>4, <2>6, AttemptFacts DEF Live
  <2>8. Shape(stack')
    BY <2>3, <2>5 DEF Shape
  <2>9. Mode'
    BY <2>4, <2>5, <2>7, <2>8, AttemptFacts DEF Mode, Working
  <2>10. Reader'
    BY <2>3, <2>4, <2>5, AttemptFacts DEF Reader, Reading
  <2>11. InfoFirst'
    <3>1. sock'[c] = r
      BY <1>0, <2>1 DEF SetSock
    <3>2. FirstInfo(<<m>>) \/ Bare(c)'
      BY <2>2, <3>1, GreetingTypes DEF FirstInfo, Bare
    <3> QED
      BY <2>2, <2>4, <2>6, <3>1, <3>2, AttemptFacts DEF InfoFirst, FirstInfo
  <2>12. Pending'
    BY <1>0, <2>1, <2>2, <2>4, AttemptFacts, PendingSet DEF ControlInv, Closes, Top
  <2> QED
    BY <2>4, <2>9, <2>10, <2>11, <2>12, AttemptFacts DEF ControlInv, NoFault
<1> QED
  BY <1>1, <1>2, <1>3, <1>4 DEF Connect

\* The outermost handler ends by closing a connection that is up.
LEMMA WorkingClose ==
    ASSUME TypeInv, ControlInv, stack # <<>>, Len(stack) = 1,
           NEW reason \in Reasons, stack' = <<Close(reason)>> \o Tail(stack),
           phase' = phase, Live'
    PROVE  /\ Mode' /\ Closes(stack')
           /\ \A j \in 1 .. Len(stack') : stack'[j].op = "close"
<1>1. phase = "run" /\ Tail(stack) = <<>> /\ Tail(stack) \in Seq(Frame) /\ Len(Tail(stack)) = 0
  BY TopMode, Popped
<1>2. Close(reason) \in Frame /\ Close(reason).op = "close"
  BY FrameTypes
<1>3. /\ Len(stack') = 1 /\ stack' # <<>> /\ stack'[1].op = "close" /\ Head(stack').op = "close"
  BY <1>1, <1>2, Pushed
<1>4. Tearing(1)'
  <2>1. Len(stack') \in {1, 1 + 1} /\ Len(stack') # 1 + 1
    BY <1>3
  <2> QED
    BY <1>3, <2>1 DEF Tearing
<1>5. Mode'
  BY <1>1, <1>3, <1>4 DEF Mode, TearingDown
<1>6. ASSUME NEW j \in 1 .. Len(stack') PROVE stack'[j].op = "close"
  <2>1. j = 1
    <3>1. Len(stack') = 1
      BY <1>3
    <3>2. j \in 1 .. 1
      BY <3>1
    <3> QED
      BY <3>2
  <2> QED
    BY <1>3, <2>1
<1>7. Closes(stack')
  BY <1>3 DEF Closes
<1> QED
  BY <1>5, <1>6, <1>7

\* ngx_nats_check_connected
LEMMA CheckConnectedFacts ==
    ASSUME CheckConnected, ptimer => phandler
    PROVE  "BYTES" \in bits' /\ (ptimer' => phandler')
BY DEF CheckConnected

\* The fields the updates of a socket leave alone
LEMMA SockFields ==
    ASSUME NEW r \in Sock
    PROVE  /\ \A b : [r EXCEPT !.wtimer = b].st = r.st /\ [r EXCEPT !.wtimer = b].inq = r.inq
                  /\ [r EXCEPT !.wtimer = b].wev = r.wev /\ [r EXCEPT !.wtimer = b].full = r.full
           /\ \A b : [r EXCEPT !.wtimer = b].srv = r.srv
           /\ [r EXCEPT !.wtimer = TRUE].wtimer
           /\ [r EXCEPT !.wev = FALSE, !.wtimer = FALSE].st = r.st
           /\ [r EXCEPT !.wev = FALSE, !.wtimer = FALSE].inq = r.inq
           /\ [r EXCEPT !.wev = FALSE, !.wtimer = FALSE].srv = r.srv
           /\ \A b, q : /\ [r EXCEPT !.full = b, !.peer = q].st = r.st
                        /\ [r EXCEPT !.full = b, !.peer = q].inq = r.inq
                        /\ [r EXCEPT !.full = b, !.peer = q].srv = r.srv
           /\ \A q : /\ [r EXCEPT !.inq = q].st = r.st /\ [r EXCEPT !.inq = q].inq = q
                     /\ [r EXCEPT !.inq = q].srv = r.srv
BY DEF Sock

LEMMA ControlFlush ==
    ASSUME TypeInv, ControlInv, fault = "none", GoodEnvironment, Flush
    PROVE  ControlInv'
<1> USE DEF ndVars, ncVars, rVars, histVars
<1>0. sock \in [Socks -> Sock] /\ stack \in Seq(Frame) /\ NoSock \notin Socks
  BY CommAssumption DEF TypeInv, TypeOK
<1>1. At("flush")
  BY DEF Flush, FlushNothing, FlushError, FlushSome, FlushAgain
<1>2. /\ stack # <<>> /\ phase = "run" /\ Working /\ Live /\ conn \in Socks /\ ~Closes(stack)
      /\ Top.op = "flush"
  BY <1>1, TopMode DEF At, Working, Live, Closes, Top
<1>3. MayFail => Len(stack) = 1
  BY <1>2, TopShape DEF MayFail, GoodEnvironment
<1>4. "INTERNAL_ERROR" \in Reasons /\ "DISCONNECTED" \in Reasons
  BY DEF Reasons
<1>5. CASE FlushNothing
  <2>1. /\ stack' = Tail(stack)
        /\ UNCHANGED <<phase, curr, rtimer, bits, conn, info, ptimer, phandler, rbuf, rpos, sock,
                       fault, tried>>
    BY <1>5 DEF FlushNothing, Return
  <2>2. Live'
    BY <1>2, <2>1, LiveSame DEF Open
  <2>3. Mode' /\ \A j \in 1 .. Len(stack') : \E i \in 1 .. Len(stack) : stack'[j] = stack[i]
    BY <1>2, <2>1, <2>2, WorkingPop
  <2>4. Reader'
    BY <2>1, <2>3, ReaderSame DEF ControlInv
  <2>5. InfoFirst' /\ Pending'
    BY <1>2, <2>1, InfoSame, PendingSame DEF ControlInv
  <2> QED
    BY <2>1, <2>3, <2>4, <2>5 DEF ControlInv, NoFault
<1>6. CASE FlushError
  <2>1. /\ stack' = <<Close("DISCONNECTED")>> \o Tail(stack) /\ Len(stack) = 1
        /\ UNCHANGED <<phase, curr, rtimer, bits, conn, info, ptimer, phandler, rbuf, rpos, sock,
                       fault, tried>>
    BY <1>3, <1>6 DEF FlushError, Jump
  <2>2. Live'
    BY <1>2, <2>1, LiveSame DEF Open
  <2>3. Mode' /\ \A j \in 1 .. Len(stack') : stack'[j].op = "close"
    BY <1>2, <1>4, <2>1, <2>2, WorkingClose
  <2>4. Reader'
    BY <2>1, <2>3, ReaderSame DEF ControlInv
  <2>5. InfoFirst' /\ Pending'
    BY <1>2, <2>1, InfoSame, PendingSame DEF ControlInv
  <2> QED
    BY <2>1, <2>3, <2>4, <2>5 DEF ControlInv, NoFault
<1>7. ASSUME NEW r, SetSock(conn, r), r.st = sock[conn].st, r.inq = sock[conn].inq,
             r.srv = sock[conn].srv,
             r.st = "syn" => ~r.wev /\ ~r.full /\ r.wtimer,
             sock[conn].st # "free",
             "BYTES" \in bits => "BYTES" \in bits', ptimer' => phandler',
             \/ stack' = Tail(stack)
             \/ Len(stack) = 1 /\ stack' = <<Close("INTERNAL_ERROR")>> \o Tail(stack),
             UNCHANGED <<phase, curr, rtimer, conn, info, rbuf, rpos, fault, tried>>
      PROVE  ControlInv'
  <2>1. Open' = Open
    BY <1>0, <1>2, <1>7, OpenSame
  <2>2. Live'
    BY <1>2, <1>7, <2>1, LiveSame
  <2>3. /\ Mode'
        /\ \A j \in 1 .. Len(stack') :
              \/ \E i \in 1 .. Len(stack) : stack'[j] = stack[i]
              \/ stack'[j].op = "close"
    BY <1>2, <1>4, <1>7, <2>2, WorkingPop, WorkingClose
  <2>4. \A c \in Socks : /\ sock'[c].st = sock[c].st /\ sock'[c].inq = sock[c].inq
                         /\ sock'[c].srv = sock[c].srv
    BY <1>0, <1>7 DEF SetSock
  <2>5. Reader'
    BY <1>2, <1>7, <2>3, <2>4, ReaderSame DEF ControlInv
  <2>6. InfoFirst'
    BY <1>7, <2>4, InfoSame DEF ControlInv
  <2>7. Pending'
    BY <1>0, <1>2, <1>7, PendingSet DEF ControlInv
  <2> QED
    BY <1>7, <2>3, <2>5, <2>6, <2>7 DEF ControlInv, NoFault
<1>8. CASE FlushSome
  <2>1. PICK k \in 0 .. Len(wbuf) :
          /\ SetSock(conn, [sock[conn] EXCEPT
                !.full = k < Len(wbuf),
                !.peer = IF k > 0 /\ wbuf[1] = "CONNECT" THEN "conn" ELSE @])
          /\ \/ Return
             \/ OsFaults /\ MayFail /\ k = Len(wbuf) /\ Jump(Close("INTERNAL_ERROR"))
    BY <1>8 DEF FlushSome
  <2> DEFINE r == [sock[conn] EXCEPT
                     !.full = k < Len(wbuf),
                     !.peer = IF k > 0 /\ wbuf[1] = "CONNECT" THEN "conn" ELSE @]
  <2>2. sock[conn].st = "est" /\ sock[conn] \in Sock
    BY <1>0, <1>2, <1>8 DEF FlushSome
  <2>3. r.st = sock[conn].st /\ r.inq = sock[conn].inq /\ r.srv = sock[conn].srv
    BY <2>2, SockFields
  <2>4. SetSock(conn, r)
    BY <2>1
  <2> HIDE DEF r
  <2>5. "BYTES" \in bits' /\ (ptimer' => phandler')
    BY <1>8, CheckConnectedFacts DEF FlushSome, ControlInv
  <2>6. \/ stack' = Tail(stack)
        \/ Len(stack) = 1 /\ stack' = <<Close("INTERNAL_ERROR")>> \o Tail(stack)
    BY <1>3, <2>1 DEF Return, Jump
  <2>7. UNCHANGED <<phase, curr, rtimer, conn, info, rbuf, rpos, fault, tried>>
    BY <1>8 DEF FlushSome
  <2> QED
    BY <1>7, <2>2, <2>3, <2>4, <2>5, <2>6, <2>7
<1>9. CASE FlushAgain
  <2> DEFINE r == [sock[conn] EXCEPT !.wtimer = TRUE]
  <2>1. sock[conn] \in Sock /\ (sock[conn].full \/ sock[conn].st = "syn")
    BY <1>0, <1>2, <1>9 DEF FlushAgain
  <2>2. /\ r.st = sock[conn].st /\ r.inq = sock[conn].inq /\ r.srv = sock[conn].srv /\ r.wtimer
        /\ r.wev = sock[conn].wev /\ r.full = sock[conn].full
    BY <2>1, SockFields
  <2>3. SetSock(conn, r)
    BY <1>9 DEF FlushAgain
  <2> HIDE DEF r
  <2>4. sock[conn].st # "free" /\ (sock[conn].st = "syn" => ~sock[conn].wev /\ ~sock[conn].full)
    BY <1>2, <2>1 DEF ControlInv, Pending, FreeSock
  <2>5. \/ stack' = Tail(stack)
        \/ Len(stack) = 1 /\ stack' = <<Close("INTERNAL_ERROR")>> \o Tail(stack)
    BY <1>3, <1>9 DEF FlushAgain, Return, Jump
  <2>6. UNCHANGED <<phase, curr, rtimer, bits, conn, info, ptimer, phandler, rbuf, rpos, fault,
                    tried>>
    BY <1>9 DEF FlushAgain
  <2>7. ptimer => phandler
    BY DEF ControlInv
  <2> QED
    BY <1>7, <2>2, <2>3, <2>4, <2>5, <2>6, <2>7
<1> QED
  BY <1>5, <1>6, <1>8, <1>9 DEF Flush

\* A socket that is in use between handlers is nc's.
LEMMA IdleOpen ==
    ASSUME TypeInv, ControlInv, Idle, NEW c \in Socks, sock[c].st # "free"
    PROVE  /\ Live /\ conn = c /\ ~Closes(stack) /\ phase = "run" /\ stack = <<>>
           /\ sock \in [Socks -> Sock] /\ sock[c] \in Sock /\ sock[c].inq \in Seq(Ins)
<1>1. Live /\ conn = c
  BY IdleMode DEF Live, Open
<1>2. sock \in [Socks -> Sock] /\ sock[c] \in Sock /\ sock[c].inq \in Seq(Ins)
  BY SockUpdates DEF TypeInv, TypeOK
<1> QED
  BY <1>1, <1>2 DEF Idle, Running, Closes

\* An event that has its handler still to run leaves a mark on the socket.
LEMMA Marked ==
    ASSUME TypeInv, ControlInv, NEW c \in Socks,
           sock[c].wev \/ sock[c].wtimer \/ sock[c].full
    PROVE  /\ sock[c].st # "free"
           /\ sock[c].wev \/ sock[c].full => sock[c].st # "syn"
BY DEF ControlInv, Pending, FreeSock

LEMMA AppendFirst ==
    ASSUME NEW q \in Seq(Ins), NEW m \in Ins, FirstInfo(q)
    PROVE  FirstInfo(Append(q, m))
<1>1. Len(q) \in Nat \ {0}
  BY EmptySeq DEF FirstInfo
<1>2. Append(q, m)[1] = q[1] /\ Append(q, m) # <<>>
  BY <1>1, AppendProperties
<1> QED
  BY <1>2 DEF FirstInfo

LEMMA ControlNetwork ==
    ASSUME TypeInv, ControlInv, fault = "none", Network
    PROVE  ControlInv'
<1> USE DEF ndVars, ncVars, rVars, histVars
<1>1. PICK c \in Socks :
        \/ Establish(c) \/ Refuse(c) \/ Drain(c) \/ AnswerConnect(c) \/ RefuseConnect(c)
        \/ ServerCloses(c) \/ ServerResets(c) \/ \E m \in Chat : ServerSays(c, m)
  BY DEF Network
<1>2. Idle /\ UNCHANGED netVars
  BY <1>1 DEF Establish, Refuse, Drain, AnswerConnect, RefuseConnect, ServerCloses,
              ServerResets, ServerSays
<1>3. sock[c].st # "free" /\ (sock[c].full => sock[c].st # "syn")
  BY <1>1, Marked
     DEF Establish, Refuse, Drain, AnswerConnect, RefuseConnect, ServerCloses, ServerResets,
         ServerSays
<1>4. /\ Live /\ conn = c /\ ~Closes(stack) /\ phase = "run" /\ stack = <<>>
      /\ sock \in [Socks -> Sock] /\ sock[c] \in Sock /\ sock[c].inq \in Seq(Ins)
  BY <1>2, <1>3, IdleOpen
<1>5. ASSUME NEW r, SetSock(c, r), r.st # "free" /\ r.st # "syn", r.srv = sock[c].srv,
             r.st = "est" => \/ sock[c].st = "est" /\ (FirstInfo(sock[c].inq) => FirstInfo(r.inq))
                             \/ FirstInfo(r.inq) \/ Bare(c)
      PROVE  ControlInv'
  <2>1. /\ stack' = <<>>
        /\ UNCHANGED <<phase, curr, rtimer, current, bits, conn, info, ptimer, phandler,
                       rbuf, rpos, fault, tried>>
    BY <1>2, <1>4 DEF netVars
  <2>2. Open' = Open
    BY <1>3, <1>4, <1>5, OpenSame
  <2>3. Live'
    BY <1>4, <2>1, <2>2, LiveSame
  <2>4. Mode'
    BY <1>4, <2>1, <2>3 DEF Mode
  <2>5. Reader'
    BY <2>1, EmptySeq DEF ControlInv, Reader
  <2>6. \A d \in Socks : sock'[d] = IF d = c THEN r ELSE sock[d]
    BY <1>4, <1>5 DEF SetSock
  <2>7. InfoFirst'
    BY <1>3, <1>5, <2>1, <2>6, InfoSame DEF ControlInv
  <2>8. Pending'
    BY <1>4, <1>5, PendingSet DEF ControlInv
  <2> QED
    BY <2>1, <2>4, <2>5, <2>7, <2>8 DEF ControlInv, NoFault
<1>6. CASE Establish(c)
  <2>0. PICK m \in Greetings(sock[c].srv) :
          SetSock(c, [sock[c] EXCEPT !.st = "est", !.wev = TRUE, !.inq = <<m>>])
    BY <1>6 DEF Establish
  <2> DEFINE r == [sock[c] EXCEPT !.st = "est", !.wev = TRUE, !.inq = <<m>>]
  <2>1. /\ r.st = "est" /\ r.inq = <<m>> /\ r.srv = sock[c].srv
        /\ FirstInfo(<<m>>) \/ Bare(c)
    BY <1>4, GreetingTypes DEF Sock, FirstInfo, Bare
  <2>2. SetSock(c, r)
    BY <2>0
  <2> HIDE DEF r
  <2> QED
    BY <1>5, <2>1, <2>2
<1>7. CASE Refuse(c)
  <2> DEFINE r == [sock[c] EXCEPT !.st = "err", !.wev = TRUE]
  <2>1. r.st = "err" /\ r.srv = sock[c].srv
    BY <1>4 DEF Sock
  <2>2. SetSock(c, r)
    BY <1>7 DEF Refuse
  <2> HIDE DEF r
  <2> QED
    BY <1>5, <2>1, <2>2
<1>8. CASE Drain(c)
  <2> DEFINE r == [sock[c] EXCEPT !.full = FALSE, !.wev = TRUE]
  <2>1. r.st = sock[c].st /\ r.inq = sock[c].inq /\ r.srv = sock[c].srv
    BY <1>4 DEF Sock
  <2>2. SetSock(c, r) /\ sock[c].full
    BY <1>8 DEF Drain
  <2> HIDE DEF r
  <2> QED
    BY <1>3, <1>5, <2>1, <2>2
<1>9. CASE ServerCloses(c)
  <2> DEFINE r == [sock[c] EXCEPT !.fin = TRUE]
  <2>1. r.st = sock[c].st /\ r.inq = sock[c].inq /\ r.srv = sock[c].srv
    BY <1>4 DEF Sock
  <2>2. SetSock(c, r) /\ sock[c].st = "est"
    BY <1>9 DEF ServerCloses
  <2> HIDE DEF r
  <2> QED
    BY <1>5, <2>1, <2>2
<1>10. ASSUME NEW m \in Ins, NEW q,
              \/ SetSock(c, [sock[c] EXCEPT !.peer = q, !.inq = Append(@, m)])
              \/ SetSock(c, [sock[c] EXCEPT !.inq = Append(@, m)]),
              sock[c].st = "est"
       PROVE  ControlInv'
  <2>1. FirstInfo(sock[c].inq) => FirstInfo(Append(sock[c].inq, m))
    BY <1>4, AppendFirst
  <2>2. CASE SetSock(c, [sock[c] EXCEPT !.peer = q, !.inq = Append(@, m)])
    <3> DEFINE r == [sock[c] EXCEPT !.peer = q, !.inq = Append(@, m)]
    <3>1. r.st = sock[c].st /\ r.inq = Append(sock[c].inq, m) /\ r.srv = sock[c].srv
      BY <1>4 DEF Sock
    <3>2. SetSock(c, r)
      BY <2>2
    <3> HIDE DEF r
    <3> QED
      BY <1>5, <1>10, <2>1, <3>1, <3>2
  <2>3. CASE SetSock(c, [sock[c] EXCEPT !.inq = Append(@, m)])
    <3> DEFINE r == [sock[c] EXCEPT !.inq = Append(@, m)]
    <3>1. r.st = sock[c].st /\ r.inq = Append(sock[c].inq, m) /\ r.srv = sock[c].srv
      BY <1>4 DEF Sock
    <3>2. SetSock(c, r)
      BY <2>3
    <3> HIDE DEF r
    <3> QED
      BY <1>5, <1>10, <2>1, <3>1, <3>2
  <2> QED
    BY <1>10, <2>2, <2>3
<1>11. CASE AnswerConnect(c)
  <2>1. sock[c].st = "est" /\ "PONG" \in Ins
    BY <1>11 DEF AnswerConnect, Ins, Chat
  <2>2. SetSock(c, [sock[c] EXCEPT !.peer = "ponged", !.inq = Append(@, "PONG")])
    BY <1>11 DEF AnswerConnect
  <2> QED
    BY <1>10, <2>1, <2>2
<1>12. CASE RefuseConnect(c)
  <2>1. sock[c].st = "est" /\ "ERR" \in Ins
    BY <1>12 DEF RefuseConnect, Ins, Chat
  <2>2. SetSock(c, [sock[c] EXCEPT !.peer = "refused", !.inq = Append(@, "ERR")])
    BY <1>12 DEF RefuseConnect
  <2> QED
    BY <1>10, <2>1, <2>2
<1>13. ASSUME NEW m \in Chat, ServerSays(c, m) PROVE ControlInv'
  <2>1. sock[c].st = "est" /\ m \in Ins
    BY <1>13 DEF ServerSays, Ins
  <2>2. SetSock(c, [sock[c] EXCEPT !.inq = Append(@, m)])
    BY <1>13 DEF ServerSays
  <2> QED
    BY <1>10, <2>1, <2>2
<1>14. CASE ServerResets(c)
  <2> DEFINE r == [sock[c] EXCEPT !.st = "err", !.wev = TRUE, !.full = FALSE, !.inq = <<>>]
  <2>1. r.st = "err" /\ r.srv = sock[c].srv
    BY <1>4 DEF Sock
  <2>2. SetSock(c, r)
    BY <1>14 DEF ServerResets
  <2> HIDE DEF r
  <2> QED
    BY <1>5, <2>1, <2>2
<1> QED
  BY <1>1, <1>6, <1>7, <1>8, <1>9, <1>11, <1>12, <1>13, <1>14

\* A handler starts on nc's socket.
LEMMA IdleStart ==
    ASSUME TypeInv, ControlInv, Idle, NEW f \in Frame, stack' = <<f>>,
           f.op \in {"flush", "recv", "close"}, Live', phase' = phase
    PROVE  /\ Mode' /\ Len(stack') = 1 /\ stack'[1] = f
           /\ f.op = "close" => Closes(stack')
<1>1. /\ Len(stack') = 1 /\ stack' # <<>> /\ stack'[1] = f /\ Head(stack') = f
      /\ phase = "run"
  BY Alone DEF Idle, Running
<1>2. CASE f.op = "close"
  <2>1. Len(stack') \in {1, 1 + 1} /\ Len(stack') # 1 + 1
    BY <1>1
  <2>2. Tearing(1)'
    BY <1>1, <1>2, <2>1 DEF Tearing
  <2> QED
    BY <1>1, <1>2, <2>2 DEF Mode, TearingDown, Closes
<1>3. CASE f.op # "close"
  <2>1. Shape(stack')
    BY <1>1, <1>3 DEF Shape
  <2> QED
    BY <1>1, <1>3, <2>1 DEF Mode, Working
<1> QED
  BY <1>2, <1>3

LEMMA ControlEvent ==
    ASSUME TypeInv, ControlInv, fault = "none", GoodEnvironment,
           PingTimer \/ \E c \in Socks : ReadEvent(c) \/ WriteEvent(c) \/ WriteTimeout(c)
    PROVE  ControlInv'
<1> USE DEF ndVars, ncVars, rVars, histVars
<1>1. CASE PingTimer
  <2>1. /\ Idle /\ ptimer /\ ~ptimer' /\ stack' = stack /\ stack = <<>>
        /\ UNCHANGED <<phase, curr, rtimer, current, bits, conn, info, phandler, rbuf, rpos,
                       sock, tried>>
    BY <1>1 DEF PingTimer, GoodEnvironment, Idle
  <2>2. phandler
    BY <2>1 DEF ControlInv
  <2>3. fault' = fault
    BY <1>1, <2>2 DEF PingTimer
  <2>4. Live
    BY <2>1, IdleMode DEF Waiting
  <2>5. Live'
    BY <2>1, <2>4, LiveSame DEF Open
  <2>6. Mode'
    BY <2>1, <2>5 DEF Mode, Idle, Running
  <2>7. Reader'
    BY <2>1, ReaderSame DEF ControlInv
  <2>8. InfoFirst' /\ Pending'
    BY <2>1, InfoSame, PendingSame DEF ControlInv, Closes
  <2> QED
    BY <2>1, <2>3, <2>6, <2>7, <2>8 DEF ControlInv, NoFault
<1>2. ASSUME NEW c \in Socks, ReadEvent(c) PROVE ControlInv'
  <2>1. Idle /\ sock[c].st # "free"
    BY <1>2 DEF ReadEvent, ConnectError
  <2>2. /\ Live /\ conn = c /\ ~Closes(stack) /\ phase = "run" /\ stack = <<>>
        /\ sock \in [Socks -> Sock]
    BY <2>1, IdleOpen
  <2>3. UNCHANGED <<phase, curr, rtimer, current, bits, conn, info, ptimer, phandler, rbuf, rpos,
                    sock, fault, tried>>
    BY <1>2 DEF ReadEvent, ConnectError
  <2>4. Live'
    BY <2>2, <2>3, LiveSame DEF Open
  <2>5. ASSUME NEW f \in Frame, stack' = <<f>>,
               \/ f.op = "close"
               \/ f.op = "recv" /\ f.c = c /\ sock[c].st = "est"
        PROVE  ControlInv'
    <3>1. Mode' /\ Len(stack') = 1 /\ stack'[1] = f
      BY <2>1, <2>3, <2>4, <2>5, IdleStart
    <3>2. rpos <= Len(rbuf)
      BY DEF ControlInv, Reader
    <3>3. Reader'
      BY <2>2, <2>3, <2>5, <3>1, <3>2 DEF Reader, Reading
    <3>4. InfoFirst' /\ Pending'
      BY <2>2, <2>3, InfoSame, PendingSame DEF ControlInv
    <3> QED
      BY <2>3, <3>1, <3>3, <3>4 DEF ControlInv, NoFault
  <2>6. Close("CONNECT_FAILED") \in Frame /\ Close("CONNECT_FAILED").op = "close"
    BY FrameTypes DEF Reasons
  <2>7. Len(wbuf) \in Nat
    BY LenProperties DEF TypeInv, TypeOK
  <2>8. RecvCall(c) \in Frame /\ RecvCall(c).c = c /\ RecvCall(c).op = "recv"
    BY <2>7, RecvFrame
  <2> QED
    BY <1>2, <2>5, <2>6, <2>8 DEF ReadEvent, ConnectError
<1>3. ASSUME NEW c \in Socks, NEW r, NEW f \in Frame, Idle, sock[c].st # "free",
             SetSock(c, r), r.st = sock[c].st, r.inq = sock[c].inq, r.srv = sock[c].srv,
             stack' = <<f>>, f.op \in {"flush", "close"},
             r.st = "syn" => ~r.wev /\ ~r.full /\ f.op = "close",
             "BYTES" \in bits => "BYTES" \in bits',
             UNCHANGED <<phase, curr, rtimer, conn, info, ptimer, phandler, rbuf, rpos, fault,
                         tried>>
      PROVE  ControlInv'
  <2>1. /\ Live /\ conn = c /\ ~Closes(stack) /\ phase = "run" /\ stack = <<>>
        /\ sock \in [Socks -> Sock]
    BY <1>3, IdleOpen
  <2>2. Open' = Open
    BY <1>3, <2>1, OpenSame
  <2>3. Live'
    BY <1>3, <2>1, <2>2, LiveSame
  <2>4. Mode' /\ Len(stack') = 1 /\ stack'[1] = f /\ (f.op = "close" => Closes(stack'))
    BY <1>3, <2>3, IdleStart
  <2>5. rpos <= Len(rbuf)
    BY DEF ControlInv, Reader
  <2>6. Reader'
    BY <1>3, <2>4, <2>5 DEF Reader, Reading
  <2>7. \A d \in Socks : /\ sock'[d].st = sock[d].st /\ sock'[d].inq = sock[d].inq
                         /\ sock'[d].srv = sock[d].srv
    BY <1>3, <2>1 DEF SetSock
  <2>8. InfoFirst'
    BY <1>3, <2>7, InfoSame DEF ControlInv
  <2>9. Pending'
    BY <1>3, <2>1, <2>4, PendingSet DEF ControlInv
  <2> QED
    BY <1>3, <2>4, <2>6, <2>8, <2>9 DEF ControlInv, NoFault
<1>4. ASSUME NEW c \in Socks, WriteEvent(c) PROVE ControlInv'
  <2> DEFINE r == [sock[c] EXCEPT !.wev = FALSE, !.wtimer = FALSE]
             f == Act("flush")
  <2>1. Idle /\ sock[c].wev /\ SetSock(c, r) /\ stack' = <<f>>
    BY <1>4 DEF WriteEvent
  <2>2. sock[c].st # "free" /\ sock[c].st # "syn"
    BY <2>1, Marked
  <2>3. r.st = sock[c].st /\ r.inq = sock[c].inq /\ r.srv = sock[c].srv
    BY <2>1, <2>2, IdleOpen, SockFields
  <2>4. f \in Frame /\ f.op = "flush"
    BY FrameTypes DEF Ops
  <2> HIDE DEF r, f
  <2>5. /\ "BYTES" \in bits => "BYTES" \in bits'
        /\ UNCHANGED <<phase, curr, rtimer, conn, info, ptimer, phandler, rbuf, rpos, fault,
                       tried>>
    BY <1>4 DEF WriteEvent, InitBits
  <2> QED
    BY <1>3, <2>1, <2>2, <2>3, <2>4, <2>5
<1>5. ASSUME NEW c \in Socks, WriteTimeout(c) PROVE ControlInv'
  <2> DEFINE r == [sock[c] EXCEPT !.wtimer = FALSE]
             f == Close("WRITE_TIMEOUT")
  <2>1. Idle /\ sock[c].wtimer /\ SetSock(c, r) /\ stack' = <<f>>
    BY <1>5 DEF WriteTimeout
  <2>2. sock[c].st # "free" /\ (sock[c].st = "syn" => ~sock[c].wev /\ ~sock[c].full)
    BY <2>1, Marked
  <2>3. /\ r.st = sock[c].st /\ r.inq = sock[c].inq /\ r.srv = sock[c].srv
        /\ r.wev = sock[c].wev /\ r.full = sock[c].full
    BY <2>1, <2>2, IdleOpen, SockFields
  <2>4. f \in Frame /\ f.op = "close"
    BY FrameTypes DEF Reasons
  <2> HIDE DEF r, f
  <2>5. UNCHANGED <<phase, curr, rtimer, bits, conn, info, ptimer, phandler, rbuf, rpos, fault,
                    tried>>
    BY <1>5 DEF WriteTimeout
  <2> QED
    BY <1>3, <2>1, <2>2, <2>3, <2>4, <2>5
<1> QED
  BY <1>1, <1>2, <1>4, <1>5

LEMMA ProcessFrame ==
    ASSUME NEW k \in Nat
    PROVE  Process(k) \in Frame /\ Process(k).op = "process" /\ Process(k).i = k
BY DEF Process, Act, Frame, Ops

\* Bytes move from the socket to the read buffer: INFO stays the first message
\* that is not handled.
LEMMA Received ==
    ASSUME NEW a \in Seq(Ins), NEW q \in Seq(Ins), NEW k \in 0 .. Len(q),
           NEW p \in Nat, p <= Len(a)
    PROVE  LET b == a \o SubSeq(q, 1, k)
               t == SubSeq(q, k + 1, Len(q))
           IN  /\ p <= Len(b) /\ Len(b) = Len(a) + k
               /\ p < Len(a) => p < Len(b) /\ b[p + 1] = a[p + 1]
               /\ p = Len(a) /\ k > 0 => p < Len(b) /\ b[p + 1] = q[1]
               /\ FirstInfo(q) /\ k = 0 => FirstInfo(t)
<1>1. Len(a) \in Nat /\ Len(q) \in Nat /\ k \in Nat /\ k <= Len(q)
  BY LenProperties
<1>2. \A i \in 1 .. k : q[i] \in Ins
  BY <1>1, ElementOfSeq
<1> DEFINE u == SubSeq(q, 1, k)
<1>3. u \in Seq(Ins) /\ Len(u) = k /\ \A i \in 1 .. k : u[i] = q[i]
  <2>1. /\ SubSeq(q, 1, k) \in Seq(Ins)
        /\ Len(SubSeq(q, 1, k)) = (IF 1 <= k THEN k - 1 + 1 ELSE 0)
        /\ \A i \in 1 .. k - 1 + 1 : SubSeq(q, 1, k)[i] = q[1 + i - 1]
    BY <1>1, <1>2, SubSeqProperties
  <2>2. Len(u) = k
    BY <1>1, <2>1
  <2>3. ASSUME NEW i \in 1 .. k PROVE u[i] = q[i]
    <3>1. i \in 1 .. k - 1 + 1 /\ 1 + i - 1 = i
      BY <1>1
    <3> QED
      BY <2>1, <3>1
  <2> QED
    BY <2>1, <2>2, <2>3
<1> HIDE DEF u
<1> DEFINE b == a \o u
<1>4. /\ Len(b) = Len(a) + k
      /\ \A i \in 1 .. Len(a) + k : b[i] = IF i <= Len(a) THEN a[i] ELSE u[i - Len(a)]
  BY <1>1, <1>3, ConcatProperties
<1> HIDE DEF b
<1>5. p < Len(a) => b[p + 1] = a[p + 1]
  BY <1>1, <1>4
<1>6. p = Len(a) /\ k > 0 => b[p + 1] = q[1]
  <2> SUFFICES ASSUME p = Len(a), k > 0 PROVE b[p + 1] = q[1]
    OBVIOUS
  <2>1. b[p + 1] = u[p + 1 - Len(a)] /\ p + 1 - Len(a) = 1
    BY <1>1, <1>4
  <2>2. 1 \in 1 .. k
    BY <1>1
  <2> QED
    BY <1>3, <2>1, <2>2
<1>7. ASSUME FirstInfo(q), k = 0 PROVE FirstInfo(SubSeq(q, k + 1, Len(q)))
  <2>1. Len(q) > 0
    BY <1>1, <1>7, EmptySeq DEF FirstInfo
  <2>2. \A i \in 1 .. Len(q) : q[i] \in Ins
    BY <1>1, ElementOfSeq
  <2> DEFINE t == SubSeq(q, 1, Len(q))
  <2>3. /\ t \in Seq(Ins)
        /\ Len(t) = (IF 1 <= Len(q) THEN Len(q) - 1 + 1 ELSE 0)
        /\ \A i \in 1 .. Len(q) - 1 + 1 : t[i] = q[1 + i - 1]
    BY <1>1, <2>2, SubSeqProperties
  <2> HIDE DEF t
  <2>4. Len(t) # 0
    BY <1>1, <2>1, <2>3
  <2>5. t # <<>>
    BY <2>3, <2>4, EmptySeq
  <2>6. 1 \in 1 .. Len(q) - 1 + 1 /\ 1 + 1 - 1 = 1
    BY <1>1, <2>1
  <2>7. t[1] = q[1]
    BY <2>3, <2>6
  <2>8. SubSeq(q, k + 1, Len(q)) = t
    BY <1>7 DEF t
  <2> QED
    BY <1>7, <2>5, <2>7, <2>8 DEF FirstInfo
<1>8. /\ p <= Len(b) /\ (p < Len(a) => p < Len(b)) /\ (p = Len(a) /\ k > 0 => p < Len(b))
  <2>1. ASSUME NEW m \in Nat, NEW n, n = m + k, p <= m
        PROVE  p <= n /\ (p < m => p < n) /\ (p = m /\ k > 0 => p < n)
    BY <1>1, <2>1
  <2> QED
    BY <1>1, <1>4, <2>1
<1> QED
  BY <1>4, <1>5, <1>6, <1>7, <1>8, Zenon DEF b, u

LEMMA ControlRecv ==
    ASSUME TypeInv, ControlInv, fault = "none", GoodEnvironment, Recv
    PROVE  ControlInv'
<1> USE DEF ndVars, ncVars, rVars, histVars
<1>0. /\ sock \in [Socks -> Sock] /\ stack \in Seq(Frame) /\ rbuf \in Seq(Ins) /\ rpos \in Nat
  BY DEF TypeInv, TypeOK
<1>1. At("recv")
  BY DEF Recv, RecvData, RecvAgain, RecvEnd
<1>2. /\ stack # <<>> /\ phase = "run" /\ Working /\ Live /\ conn \in Socks /\ ~Closes(stack)
      /\ Top.op = "recv" /\ Top = stack[1] /\ Len(stack) = 1
  BY <1>1, TopMode, TopShape DEF At, Working, Live, Closes, Top
<1>3. Top.c = conn /\ sock[conn].st = "est" /\ rpos <= Len(rbuf)
  BY <1>2 DEF ControlInv, Reader, Reading
<1>4. sock[conn] \in Sock /\ sock[conn].inq \in Seq(Ins)
  BY <1>0, <1>2, SockUpdates
<1>5. CASE RecvData
  <2> DEFINE q == sock[conn].inq
  <2>1. PICK k \in (IF "BYTES" \in bits THEN 1 ELSE 0) .. Len(q) :
          /\ rbuf' = rbuf \o SubSeq(q, 1, k)
          /\ SetSock(conn, [sock[conn] EXCEPT !.inq = SubSeq(@, k + 1, Len(@))])
    BY <1>3, <1>5 DEF RecvData
  <2>2. k \in 0 .. Len(q)
    BY <1>4, LenProperties
  <2> DEFINE t == SubSeq(q, k + 1, Len(q))
             r == [sock[conn] EXCEPT !.inq = t]
  <2>18. SetSock(conn, r)
    BY <2>1
  <2> HIDE DEF t
  <2>19. r.st = "est" /\ r.inq = t /\ r.srv = sock[conn].srv
    BY <1>3, <1>4, SockFields
  <2>3. SetSock(conn, r) /\ r.st = "est" /\ r.inq = t /\ r.srv = sock[conn].srv
    BY <2>18, <2>19
  <2>20. q \in Seq(Ins)
    BY <1>4
  <2> HIDE DEF r, q
  <2>21. LET b == rbuf \o SubSeq(q, 1, k)
             u == SubSeq(q, k + 1, Len(q))
         IN  /\ rpos <= Len(b) /\ Len(b) = Len(rbuf) + k
             /\ rpos < Len(rbuf) => rpos < Len(b) /\ b[rpos + 1] = rbuf[rpos + 1]
             /\ rpos = Len(rbuf) /\ k > 0 => rpos < Len(b) /\ b[rpos + 1] = q[1]
             /\ FirstInfo(q) /\ k = 0 => FirstInfo(u)
    BY <1>0, <1>3, <2>2, <2>20, Received, Zenon
  <2>4. /\ rpos <= Len(rbuf') /\ Len(rbuf') = Len(rbuf) + k
        /\ rpos < Len(rbuf) => rpos < Len(rbuf') /\ rbuf'[rpos + 1] = rbuf[rpos + 1]
        /\ rpos = Len(rbuf) /\ k > 0 => rpos < Len(rbuf') /\ rbuf'[rpos + 1] = q[1]
        /\ FirstInfo(q) /\ k = 0 => FirstInfo(t)
    BY <2>1, <2>21 DEF t
  <2>5. Len(rbuf) \in Nat /\ k \in Nat
    BY <1>0, <2>2, <2>20, LenProperties
  <2>6. /\ stack' = <<Process(0)>> \o stack
        /\ UNCHANGED <<phase, curr, rtimer, current, conn, info, rpos, fault, tried>>
    BY <1>5 DEF RecvData, Call
  <2>7. /\ Process(0) \in Frame /\ Process(0).op = "process" /\ Process(0).i = 0
    BY ProcessFrame
  <2>8. /\ Len(stack') = 2 /\ stack' # <<>> /\ stack'[1] = Process(0) /\ stack'[2] = stack[1]
    <3>1. 1 \in 1 .. Len(stack) /\ 1 + 1 = 2 /\ Len(stack) + 1 = 2
      BY <1>2
    <3> QED
      BY <1>0, <2>6, <2>7, <3>1, Pushed
  <2>9. "BYTES" \in bits' /\ (ptimer' => phandler')
    BY <1>5, CheckConnectedFacts DEF RecvData, ControlInv
  <2>10. Open' = Open
    BY <1>0, <1>2, <1>3, <2>3, OpenSame
  <2>11. Live'
    BY <1>2, <2>6, <2>10, LiveSame
  <2>12. Shape(stack')
    BY <1>0, <1>2, <2>6, <2>7, ShapePush DEF Working
  <2>13. Mode'
    BY <1>2, <2>6, <2>8, <2>11, <2>12 DEF Mode, Working
  <2>14. \A d \in Socks : sock'[d] = IF d = conn THEN r ELSE sock[d]
    BY <1>0, <2>3 DEF SetSock
  <2>15. Reader'
    <3>1. sock'[conn].st = "est"
      BY <1>2, <2>3, <2>14
    <3>2. Reading(stack[1])' /\ Reading(stack[2])'
      BY <1>0, <1>2, <1>3, <2>4, <2>6, <2>7, <2>8, <2>9, <3>1 DEF Reading
    <3>3. ASSUME NEW j \in 1 .. Len(stack') PROVE j = 1 \/ j = 2
      BY <2>8
    <3> QED
      BY <2>4, <2>6, <3>2, <3>3 DEF Reader
  <2>16. InfoFirst'
    <3>0. /\ Open = {conn} /\ Open' = {conn} /\ sock'[conn] = r
          /\ Bare(conn)' <=> Bare(conn)
      BY <1>2, <2>3, <2>6, <2>10, <2>14 DEF Live, Bare
    <3> SUFFICES ASSUME ~info, ~Bare(conn)
                 PROVE  /\ rpos < Len(rbuf') => rbuf'[rpos + 1] = "INFO"
                        /\ rpos >= Len(rbuf') => FirstInfo(t)
      BY <2>3, <2>6, <3>0 DEF InfoFirst, FirstInfo
    <3>1. CASE rpos < Len(rbuf)
      BY <1>0, <2>4, <2>5, <3>0, <3>1 DEF ControlInv, InfoFirst
    <3>2. CASE rpos = Len(rbuf)
      <4>2. FirstInfo(q)
        BY <1>0, <1>3, <2>5, <3>0, <3>2 DEF ControlInv, InfoFirst, FirstInfo, q
      <4>3. CASE k = 0
        BY <1>0, <2>4, <2>5, <3>2, <4>2, <4>3
      <4>4. CASE k > 0
        BY <1>0, <2>4, <2>5, <3>2, <4>2, <4>4 DEF FirstInfo
      <4> QED
        BY <2>5, <4>3, <4>4
    <3> QED
      BY <1>0, <1>3, <2>5, <3>1, <3>2
  <2>17. Pending'
    BY <1>0, <1>2, <2>3, PendingSet DEF ControlInv
  <2> QED
    BY <2>6, <2>9, <2>13, <2>15, <2>16, <2>17 DEF ControlInv, NoFault
<1>6. ASSUME NEW f \in Frame, f.op \in {"flush", "close"},
             stack' = Tail(stack) \/ stack' = <<f>> \o Tail(stack),
             UNCHANGED <<phase, curr, rtimer, bits, conn, info, ptimer, phandler, rbuf, rpos, sock,
                         fault, tried>>
      PROVE  ControlInv'
  <2>1. Live'
    BY <1>2, <1>6, LiveSame DEF Open
  <2>2. Tail(stack) = <<>> /\ Tail(stack) \in Seq(Frame) /\ Len(Tail(stack)) = 0
    BY <1>0, <1>2, Popped
  <2>3. CASE stack' = Tail(stack)
    <3>1. Mode' /\ \A j \in 1 .. Len(stack') : \E i \in 1 .. Len(stack) : stack'[j] = stack[i]
      BY <1>2, <1>6, <2>1, <2>3, WorkingPop
    <3>2. Reader'
      BY <1>6, <3>1, ReaderSame DEF ControlInv
    <3>3. InfoFirst' /\ Pending'
      BY <1>2, <1>6, InfoSame, PendingSame DEF ControlInv
    <3> QED
      BY <1>6, <3>1, <3>2, <3>3 DEF ControlInv, NoFault
  <2>4. CASE stack' = <<f>> \o Tail(stack)
    <3>1. Len(stack') = 1 /\ stack' # <<>> /\ stack'[1] = f
      BY <1>6, <2>2, <2>4, Pushed
    <3>2. Mode'
      <4>1. CASE f.op = "flush"
        <5>1. Shape(stack')
          BY <3>1, <4>1 DEF Shape
        <5> QED
          BY <1>2, <1>6, <2>1, <3>1, <5>1 DEF Mode, Working
      <4>2. CASE f.op = "close"
        <5>1. Len(stack') \in {1, 1 + 1} /\ Len(stack') # 1 + 1
          BY <3>1
        <5>2. Tearing(1)'
          BY <2>1, <3>1, <4>2, <5>1 DEF Tearing
        <5> QED
          BY <1>2, <1>6, <3>1, <5>2 DEF Mode, TearingDown
      <4> QED
        BY <1>6, <4>1, <4>2
    <3>3. Reader'
      BY <1>3, <1>6, <3>1 DEF Reader, Reading
    <3>4. InfoFirst' /\ Pending'
      BY <1>2, <1>6, InfoSame, PendingSame DEF ControlInv
    <3> QED
      BY <1>6, <3>2, <3>3, <3>4 DEF ControlInv, NoFault
  <2> QED
    BY <1>6, <2>3, <2>4
<1>7. /\ Act("flush") \in Frame /\ Act("flush").op = "flush"
      /\ Close("INTERNAL_ERROR") \in Frame /\ Close("INTERNAL_ERROR").op = "close"
      /\ Close("DISCONNECTED") \in Frame /\ Close("DISCONNECTED").op = "close"
  BY FrameTypes DEF Ops, Reasons
<1>8. CASE RecvAgain
  <2>1. UNCHANGED <<phase, curr, rtimer, current, bits, conn, info, ptimer, phandler, rbuf, rpos, sock,
                    fault, tried>>
    BY <1>8 DEF RecvAgain
  <2>2. \/ stack' = Tail(stack) \/ stack' = <<Act("flush")>> \o Tail(stack)
        \/ stack' = <<Close("INTERNAL_ERROR")>> \o Tail(stack)
    BY <1>8 DEF RecvAgain, Return, Jump
  <2> QED
    BY <1>6, <1>7, <2>1, <2>2
<1>9. CASE RecvEnd
  <2>1. UNCHANGED <<phase, curr, rtimer, current, bits, conn, info, ptimer, phandler, rbuf, rpos, sock,
                    fault, tried>>
    BY <1>9 DEF RecvEnd
  <2>2. stack' = <<Close("DISCONNECTED")>> \o Tail(stack)
    BY <1>9 DEF RecvEnd, Jump
  <2> QED
    BY <1>6, <1>7, <2>1, <2>2
<1> QED
  BY <1>5, <1>8, <1>9 DEF Recv

LEMMA CloseFrame ==
    ASSUME NEW reason \in Reasons
    PROVE  Close(reason) \in Frame /\ Close(reason).op = "close" /\ Close(reason).why = reason
BY DEF Close, Act, Frame, Ops

LEMMA CallbackFrame ==
    ASSUME NEW cb \in Callbacks
    PROVE  Callback(cb) \in Frame /\ Callback(cb).op = "callback" /\ Callback(cb).why = cb
BY DEF Callback, Act, Frame, Ops

\* ngx_nats_process_buffer at work
LEMMA ProcessFacts ==
    ASSUME TypeInv, ControlInv, At("process")
    PROVE  /\ stack # <<>> /\ phase = "run" /\ Working /\ Live /\ ~Closes(stack)
           /\ stack \in Seq(Frame) /\ Top = stack[1] /\ Top.op = "process"
           /\ Len(stack) = 2 /\ stack[2].op = "recv" /\ stack[2] \in Frame
           /\ stack[2].c = conn /\ sock[conn].st = "est"
           /\ rpos + Top.i <= Len(rbuf) /\ "BYTES" \in bits /\ (Top.i # 0 => info \/ Bare(conn))
           /\ Tail(stack) \in Seq(Frame) /\ Len(Tail(stack)) = 1 /\ Tail(stack)[1] = stack[2]
           /\ Tail(stack) # <<>> /\ Tail(Tail(stack)) = <<>>
           /\ Len(rbuf) \in Nat /\ rpos \in Nat
<1>1. /\ stack # <<>> /\ phase = "run" /\ Working /\ Live /\ ~Closes(stack)
      /\ stack \in Seq(Frame) /\ Top = stack[1] /\ Top.op = "process"
  BY TopMode DEF At, Working, Closes, Top
<1>2. Len(stack) = 2 /\ stack[2].op = "recv"
  BY <1>1, TopShape
<1>3. 1 \in 1 .. Len(stack) /\ 2 \in 1 .. Len(stack)
  BY <1>2
<1>4. Reading(stack[1]) /\ Reading(stack[2]) /\ stack[2] \in Frame
  BY <1>1, <1>3, ElementOfSeq DEF ControlInv, Reader
<1>5. /\ Tail(stack) \in Seq(Frame) /\ Len(Tail(stack)) = 1 /\ Tail(stack)[1] = stack[2]
      /\ Tail(stack) # <<>>
  <2>1. 1 \in 1 .. Len(stack) - 1 /\ 1 + 1 = 2 /\ Len(stack) - 1 = 1 /\ Len(stack) # 1
    BY <1>2
  <2> QED
    BY <1>1, <2>1, Popped
<1>6. Tail(Tail(stack)) = <<>>
  BY <1>5, Popped
<1>7. Len(rbuf) \in Nat /\ rpos \in Nat
  BY LenProperties DEF TypeInv, TypeOK
<1> QED
  BY <1>1, <1>2, <1>4, <1>5, <1>6, <1>7 DEF Reading

\* A message is handled without a call.
LEMMA ProcessStays ==
    ASSUME TypeInv, ControlInv, fault = "none", At("process"), Top.i = 0, rpos < Len(rbuf),
           rpos' = rpos + 1, info' \/ Bare(conn),
           UNCHANGED <<phase, curr, rtimer, bits, conn, ptimer, phandler, rbuf, sock, stack,
                       fault, tried>>
    PROVE  ControlInv'
<1> USE ProcessFacts
<1>1. Live' /\ (info' \/ Bare(conn)')
  BY LiveSame DEF Open, Bare
<1>2. Mode'
  BY <1>1 DEF Mode, Working
<1>3. Reader'
  <2>1. rpos' <= Len(rbuf')
    OBVIOUS
  <2>2. Reading(stack[1])' /\ Reading(stack[2])'
    BY <1>1 DEF Reading
  <2>3. Len(stack') = 2
    BY ProcessFacts
  <2>4. \A j \in 1 .. Len(stack') : j = 1 \/ j = 2
    BY ONLY <2>3
  <2> QED
    BY <2>1, <2>2, <2>4 DEF Reader
<1>4. InfoFirst'
  BY <1>1, InfoDone
<1>5. Pending'
  BY PendingSame DEF ControlInv
<1> QED
  BY <1>2, <1>3, <1>4, <1>5 DEF ControlInv, NoFault

\* A message is handled by a call of f; it is skipped when f returns.
LEMMA ProcessCalls ==
    ASSUME TypeInv, ControlInv, fault = "none", At("process"), Top.i = 0, rpos < Len(rbuf),
           info \/ Bare(conn),
           NEW f \in Frame, f.op = "ready" \/ (f.op = "callback" /\ f.why # "disconnected"),
           stack' = <<f, Process(1)>> \o Tail(stack), "BYTES" \in bits',
           fault' = fault \/ (~info /\ fault' = "null_version"),
           UNCHANGED <<phase, curr, rtimer, conn, info, ptimer, phandler, rbuf, rpos, sock, tried>>
    PROVE  ControlInv'
<1> USE ProcessFacts
<1>1. Live' /\ (info' \/ Bare(conn)')
  BY LiveSame DEF Open, Bare
<1>2. Process(1) \in Frame /\ Process(1).op = "process" /\ Process(1).i = 1
  BY ProcessFrame
<1>3. /\ Len(stack') = 3 /\ stack' # <<>> /\ stack'[1] = f /\ stack'[2] = Process(1)
      /\ stack'[3] = stack[2]
  <2>1. Len(Tail(stack)) = 1
    BY ProcessFacts
  <2>2. 1 \in 1 .. Len(Tail(stack)) /\ 1 + 2 = 3 /\ Len(Tail(stack)) + 2 = 3
    <3>1. \A n : n = 1 => 1 \in 1 .. n /\ 1 + 2 = 3 /\ n + 2 = 3
      BY ONLY TRUE
    <3> QED
      BY ONLY <2>1, <3>1, Zenon
  <2> QED
    BY <1>2, <2>2, PushedTwo
<1>4. Shape(stack')
  BY <1>2, ShapePop, ShapePushTwo DEF Working
<1>5. Mode'
  BY <1>1, <1>3, <1>4 DEF Mode, Working
<1>6. Reader'
  <2>1. rpos' <= Len(rbuf')
    OBVIOUS
  <2>2. Reading(stack[1])' /\ Reading(stack[2])' /\ Reading(stack[3])'
    BY <1>1, <1>2, <1>3 DEF Reading
  <2>3. ASSUME NEW j \in 1 .. Len(stack') PROVE j = 1 \/ j = 2 \/ j = 3
    BY <1>3
  <2> QED
    BY <2>1, <2>2, <2>3 DEF Reader
<1>7. InfoFirst'
  BY <1>1, InfoDone
<1>8. Pending'
  BY PendingSame DEF ControlInv
<1>9. NoFault'
  BY <1>1 DEF NoFault, Live
<1> QED
  BY <1>5, <1>6, <1>7, <1>8, <1>9 DEF ControlInv

\* A message makes the worker close the connection, and close it again.
LEMMA ProcessCloses ==
    ASSUME TypeInv, ControlInv, fault = "none", At("process"),
           NEW reason \in Reasons, reason # "DISCONNECTED", CloseTwice(reason),
           UNCHANGED <<phase, curr, rtimer, bits, conn, info, ptimer, phandler, rbuf, rpos, sock,
                       fault, tried>>
    PROVE  ControlInv'
<1> USE ProcessFacts
<1>1. Live'
  BY LiveSame DEF Open
<1> DEFINE f == Close(reason)
           g == Close("BAD_PROTOCOL")
<1>2. /\ f \in Frame /\ f.op = "close" /\ f.why # "DISCONNECTED"
      /\ g \in Frame /\ g.op = "close" /\ g.why # "DISCONNECTED"
  BY CloseFrame DEF Reasons
<1>3. stack' = <<f, g>> \o <<>> /\ <<>> \in Seq(Frame) /\ Len(<<>>) = 0
  BY EmptySeq DEF CloseTwice
<1> HIDE DEF f, g
<1>4. Len(stack') = 2 /\ stack' # <<>> /\ stack'[1] = f /\ stack'[2] = g
  BY <1>2, <1>3, PushedTwo
<1>5. Len(stack') = 1 + 1 /\ Len(stack') # 1 /\ stack'[1 + 1] = g
  BY <1>4
<1>6. Tearing(1)'
  BY <1>1, <1>2, <1>4, <1>5 DEF Tearing
<1>7. Mode'
  BY <1>4, <1>6 DEF Mode, TearingDown
<1>8. Reader'
  <2>1. rpos' <= Len(rbuf')
    BY DEF ControlInv, Reader
  <2>2. Reading(stack[1])' /\ Reading(stack[2])'
    BY <1>2, <1>4 DEF Reading
  <2>3. ASSUME NEW j \in 1 .. Len(stack') PROVE j = 1 \/ j = 2
    BY <1>4
  <2> QED
    BY <2>1, <2>2, <2>3 DEF Reader
<1>9. InfoFirst' /\ Pending'
  BY InfoSame, PendingSame DEF ControlInv
<1> QED
  BY <1>7, <1>8, <1>9 DEF ControlInv, NoFault

\* A message that is not INFO comes after it, if INFO has a version.
LEMMA AfterInfo ==
    ASSUME TypeInv, ControlInv, NEW m, Parsed(m), m # "INFO"
    PROVE  info \/ Bare(conn)
<1>1. conn \in Open
  BY ProcessFacts DEF Parsed, Live
<1> QED
  BY <1>1 DEF ControlInv, InfoFirst, Parsed

LEMMA ControlDispatch ==
    ASSUME TypeInv, ControlInv, fault = "none", Dispatch
    PROVE  ControlInv'
<1> USE DEF ndVars, ncVars, rVars, histVars
<1>1. CASE ProcessEnd
  <2>1. /\ At("process") /\ rpos = Len(rbuf) /\ rbuf' = <<>> /\ rpos' = 0 /\ stack' = Tail(stack)
        /\ UNCHANGED <<phase, curr, rtimer, bits, conn, info, ptimer, phandler, sock, fault, tried>>
    BY <1>1 DEF ProcessEnd, Return
  <2>2. /\ stack # <<>> /\ Working /\ Live /\ ~Closes(stack) /\ Len(stack') = 1
        /\ stack'[1].op = "recv" /\ stack'[1].c = conn /\ sock[conn].st = "est"
    BY <2>1, ProcessFacts
  <2>3. Live'
    BY <2>1, <2>2, LiveSame DEF Open
  <2>4. Mode'
    BY <2>1, <2>2, <2>3, WorkingPop
  <2>5. Reader'
    <3>1. rpos' <= Len(rbuf')
      BY <2>1, EmptySeq
    <3>2. Reading(stack[1])'
      BY <2>1, <2>2 DEF Reading
    <3>3. \A j \in 1 .. Len(stack') : j = 1
      <4>1. Len(stack') = 1
        BY <2>2
      <4> QED
        BY ONLY <4>1
    <3> QED
      BY <3>1, <3>2, <3>3 DEF Reader
  <2>6. InfoFirst'
    <3>1. Len(rbuf') = 0 /\ ~(rpos' < Len(rbuf')) /\ rpos >= Len(rbuf)
      <4>1. Len(rbuf') = 0 /\ rpos' = 0
        BY <2>1, EmptySeq
      <4>2. rpos \in Nat /\ Len(rbuf) = rpos
        BY <2>1, ProcessFacts
      <4> QED
        BY <4>1, <4>2
    <3> QED
      BY <2>1, <3>1 DEF ControlInv, InfoFirst, Open, Bare
  <2>7. Pending'
    BY <2>1, <2>2, PendingSame DEF ControlInv
  <2> QED
    BY <2>1, <2>4, <2>5, <2>6, <2>7 DEF ControlInv, NoFault
<1>2. CASE ProcessSkip
  <2>1. /\ At("process") /\ Top.i = 1 /\ rpos' = rpos + 1 /\ stack' = <<Process(0)>> \o Tail(stack)
        /\ fault' = IF rpos + 1 > Len(rbuf) THEN "read_past_end" ELSE fault
        /\ UNCHANGED <<phase, curr, rtimer, bits, conn, info, ptimer, phandler, rbuf, sock, tried>>
    BY <1>2 DEF ProcessSkip, Jump
  <2>2. /\ stack # <<>> /\ phase = "run" /\ Working /\ Live /\ ~Closes(stack)
        /\ stack \in Seq(Frame) /\ Tail(stack) \in Seq(Frame) /\ Len(Tail(stack)) = 1
        /\ Tail(stack)[1] = stack[2] /\ stack[2].op = "recv" /\ stack[2].c = conn
        /\ sock[conn].st = "est" /\ rpos + 1 <= Len(rbuf) /\ "BYTES" \in bits
        /\ info \/ Bare(conn)
        /\ rpos \in Nat /\ Len(rbuf) \in Nat
    BY <2>1, ProcessFacts
  <2>3. Live'
    BY <2>1, <2>2, LiveSame DEF Open
  <2>4. Process(0) \in Frame /\ Process(0).op = "process" /\ Process(0).i = 0
    BY ProcessFrame
  <2>5. Len(stack') = 2 /\ stack' # <<>> /\ stack'[1] = Process(0) /\ stack'[2] = stack[2]
    <3>1. 1 \in 1 .. Len(Tail(stack)) /\ 1 + 1 = 2 /\ Len(Tail(stack)) + 1 = 2
      <4>1. Len(Tail(stack)) = 1
        BY <2>2
      <4> QED
        BY ONLY <4>1
    <3> QED
      BY <2>1, <2>2, <2>4, <3>1, Pushed
  <2>6. Shape(stack')
    BY <2>1, <2>2, <2>4, ShapePop, ShapePush DEF Working
  <2>7. Mode'
    BY <2>1, <2>2, <2>3, <2>5, <2>6 DEF Mode, Working
  <2>8. Reader'
    <3>1. rpos' <= Len(rbuf') /\ rpos' + 0 <= Len(rbuf')
      BY <2>1, <2>2
    <3>2. Reading(stack[1])' /\ Reading(stack[2])'
      BY <2>1, <2>2, <2>4, <2>5, <3>1 DEF Reading
    <3>3. \A j \in 1 .. Len(stack') : j = 1 \/ j = 2
      <4>1. Len(stack') = 2
        BY <2>5
      <4> QED
        BY ONLY <4>1
    <3> QED
      BY <3>1, <3>2, <3>3 DEF Reader
  <2>9. InfoFirst'
    <3>1. info' \/ Bare(conn)'
      BY <2>1, <2>2 DEF Bare
    <3> QED
      BY <2>3, <3>1, InfoDone
  <2>10. Pending'
    BY <2>1, <2>2, PendingSame DEF ControlInv
  <2>11. fault' = fault
    BY <2>1, <2>2
  <2> QED
    BY <2>1, <2>7, <2>8, <2>9, <2>10, <2>11 DEF ControlInv, NoFault
<1>3. ASSUME NEW m, Parsed(m), rpos' = rpos + 1, m = "INFO" => info', m # "INFO" => info' = info,
             UNCHANGED <<phase, curr, rtimer, bits, conn, ptimer, phandler, rbuf, sock, stack,
                         fault, tried>>
      PROVE  ControlInv'
  <2>1. (info' \/ Bare(conn)) /\ At("process") /\ Top.i = 0 /\ rpos < Len(rbuf)
    BY <1>3, AfterInfo DEF Parsed
  <2> QED
    BY <1>3, <2>1, ProcessStays
<1>4. CASE ProcessOk
  BY <1>3, <1>4 DEF ProcessOk
<1>5. CASE ProcessInfo
  <2>1. PICK m \in {"INFO", "INFO-"} : Parsed(m) /\ ParseInfo(m)
    BY <1>5 DEF ProcessInfo
  <2> QED
    BY <1>3, <1>5, <2>1 DEF ProcessInfo, ParseInfo
<1>6. CASE ProcessPing
  BY <1>3, <1>6 DEF ProcessPing
<1>7. CASE ProcessPong
  <2>1. /\ Parsed("PONG") /\ (info \/ Bare(conn))
        /\ At("process") /\ Top.i = 0 /\ rpos < Len(rbuf)
        /\ UNCHANGED <<phase, curr, rtimer, conn, info, ptimer, phandler, rbuf, sock, tried>>
    BY <1>7, AfterInfo DEF ProcessPong, Parsed
  <2>2. CASE bits' = Ready /\ fault' = (IF info THEN fault ELSE "null_version") /\ rpos' = rpos
             /\ stack' = <<Loop("ready", "none"), Process(1)>> \o Tail(stack)
    <3> DEFINE f == Loop("ready", "none")
    <3>1. f \in Frame /\ f.op = "ready"
      BY LoopFrames DEF TypeInv, TypeOK, Ops
    <3>2. stack' = <<f, Process(1)>> \o Tail(stack)
      BY <2>2
    <3> HIDE DEF f
    <3>3. "BYTES" \in bits'
      BY <2>2 DEF Ready
    <3> QED
      BY <2>1, <2>2, <3>1, <3>2, <3>3, ProcessCalls
  <2>3. CASE rpos' = rpos + 1 /\ UNCHANGED <<bits, fault, stack>>
    BY <1>3, <2>1, <2>3
  <2> QED
    BY <1>7, <2>1, <2>2, <2>3 DEF ProcessPong, Invoke
<1>8. CASE ProcessErr
  <2>1. /\ Parsed("ERR") /\ At("process")
        /\ UNCHANGED <<phase, curr, rtimer, bits, conn, info, ptimer, phandler, rbuf, sock, fault,
                       tried>>
        /\ \/ CloseTwice("CONNECT_REFUSED") /\ rpos' = rpos
           \/ rpos' = rpos + 1 /\ stack' = stack
    BY <1>8 DEF ProcessErr, Parsed
  <2>2. "CONNECT_REFUSED" \in Reasons
    BY DEF Reasons
  <2>3. CASE CloseTwice("CONNECT_REFUSED") /\ rpos' = rpos
    BY <2>1, <2>2, <2>3, ProcessCloses
  <2>4. CASE rpos' = rpos + 1 /\ stack' = stack
    BY <1>3, <2>1, <2>4
  <2> QED
    BY <2>1, <2>3, <2>4
<1>9. CASE ProcessBad
  <2>1. "BAD_PROTOCOL" \in Reasons
    BY DEF Reasons
  <2> QED
    BY <1>9, <2>1, ProcessCloses DEF ProcessBad, Parsed
<1>10. CASE ProcessMsg
  <2>1. /\ Parsed("MSG") /\ (info \/ Bare(conn))
        /\ At("process") /\ Top.i = 0 /\ rpos < Len(rbuf)
        /\ UNCHANGED <<phase, curr, rtimer, bits, conn, info, ptimer, phandler, rbuf, sock, fault,
                       tried>>
        /\ \/ stack' = <<Callback("msg"), Process(1)>> \o Tail(stack) /\ rpos' = rpos
           \/ rpos' = rpos + 1 /\ stack' = stack
    BY <1>10, AfterInfo DEF ProcessMsg, GetSubscription, RemoveSubscription, Parsed, Invoke
  <2>2. CASE stack' = <<Callback("msg"), Process(1)>> \o Tail(stack) /\ rpos' = rpos
    <3> DEFINE f == Callback("msg")
    <3>1. f \in Frame /\ f.op = "callback" /\ f.why # "disconnected"
      BY CallbackFrame DEF Callbacks
    <3>2. stack' = <<f, Process(1)>> \o Tail(stack) /\ "BYTES" \in bits'
      BY <2>1, <2>2, ProcessFacts
    <3> HIDE DEF f
    <3> QED
      BY <2>1, <2>2, <3>1, <3>2, ProcessCalls
  <2>3. CASE rpos' = rpos + 1 /\ stack' = stack
    BY <1>3, <2>1, <2>3
  <2> QED
    BY <2>1, <2>2, <2>3
<1>11. CASE ReadyLoop
  <2>1. /\ At("ready")
        /\ UNCHANGED <<phase, curr, rtimer, bits, conn, info, ptimer, phandler, rbuf, rpos, sock,
                       fault, tried>>
        /\ \/ stack' = <<Callback("connected"), [Top EXCEPT !.i = @ + 1]>> \o Tail(stack)
           \/ stack' = Tail(stack)
    BY <1>11 DEF ReadyLoop, Invoke, Return
  <2>2. /\ stack # <<>> /\ phase = "run" /\ Working /\ Live /\ ~Closes(stack)
        /\ stack \in Seq(Frame) /\ Top \in Frame /\ Top.op = "ready"
    BY <2>1, TopMode DEF At, Working, Closes, Top
  <2>3. Live'
    BY <2>1, <2>2, LiveSame DEF Open
  <2>4. InfoFirst' /\ Pending'
    BY <2>1, <2>2, InfoSame, PendingSame DEF ControlInv
  <2>5. CASE stack' = Tail(stack)
    <3>1. Mode' /\ \A j \in 1 .. Len(stack') : \E i \in 1 .. Len(stack) : stack'[j] = stack[i]
      BY <2>1, <2>2, <2>3, <2>5, WorkingPop
    <3>2. Reader'
      BY <2>1, <3>1, ReaderSame DEF ControlInv
    <3> QED
      BY <2>1, <2>4, <3>1, <3>2 DEF ControlInv, NoFault
  <2>6. CASE stack' = <<Callback("connected"), [Top EXCEPT !.i = @ + 1]>> \o Tail(stack)
    <3> DEFINE f == Callback("connected")
               g == [Top EXCEPT !.i = @ + 1]
    <3>1. /\ f \in Frame /\ f.op = "callback" /\ f.why # "disconnected"
          /\ g \in Frame /\ g.op = "ready"
      BY <2>2, CallbackFrame, NextFrames DEF Callbacks
    <3>2. stack' = <<f, g>> \o Tail(stack)
      BY <2>6
    <3> HIDE DEF f, g
    <3>3. /\ Tail(stack) \in Seq(Frame) /\ Len(Tail(stack)) = Len(stack) - 1
          /\ Len(stack) \in Nat \ {0} /\ \A i \in 1 .. Len(stack) - 1 : Tail(stack)[i] = stack[i + 1]
      BY <2>2, Popped
    <3>4. Shape(stack')
      BY <2>2, <3>1, <3>2, <3>3, ShapePop, ShapePushTwo DEF Working
    <3>5. /\ stack' # <<>> /\ stack'[1] = f /\ stack'[2] = g /\ Len(stack') = Len(Tail(stack)) + 2
          /\ \A i \in 1 .. Len(Tail(stack)) : stack'[i + 2] = Tail(stack)[i]
      BY <3>1, <3>2, <3>3, PushedTwo
    <3>6. Mode'
      BY <2>1, <2>2, <2>3, <3>4, <3>5 DEF Mode, Working
    <3>7. ASSUME NEW j \in 1 .. Len(stack'), stack'[j].op \in {"recv", "process"}
          PROVE  \E i \in 1 .. Len(stack) : stack'[j] = stack[i]
      <4>1. j # 1 /\ j # 2
        BY <3>1, <3>5, <3>7
      <4>2. j - 2 \in 1 .. Len(stack) - 1 /\ (j - 2) + 2 = j /\ (j - 2) + 1 = j - 1
            /\ j - 1 \in 1 .. Len(stack)
        BY <3>3, <3>5, <4>1
      <4>3. stack'[j] = stack[j - 1]
        BY <3>3, <3>5, <4>2
      <4> QED
        BY <4>2, <4>3
    <3>8. Reader'
      BY <2>1, <3>7, ReaderSame DEF ControlInv
    <3> QED
      BY <2>1, <2>4, <3>6, <3>8 DEF ControlInv, NoFault
  <2> QED
    BY <2>1, <2>5, <2>6
<1> QED
  BY <1>1, <1>2, <1>4, <1>5, <1>6, <1>7, <1>8, <1>9, <1>10, <1>11 DEF Dispatch

-----------------------------------------------------------------------------
(* Closing *)

\* The function at the top of the stack goes on as f.
LEMMA Replaced ==
    ASSUME NEW s \in Seq(Frame), s # <<>>, NEW f \in Frame, NEW t, t = <<f>> \o Tail(s)
    PROVE  /\ Len(t) = Len(s) /\ t # <<>> /\ t[1] = f /\ Head(t) = f
           /\ Len(s) = 2 => t[2] = s[2]
<1>1. /\ Len(s) \in Nat \ {0} /\ Tail(s) \in Seq(Frame) /\ Len(Tail(s)) = Len(s) - 1
      /\ \A i \in 1 .. Len(s) - 1 : Tail(s)[i] = s[i + 1]
  BY Popped
<1>2. /\ Len(t) = Len(Tail(s)) + 1 /\ t # <<>> /\ t[1] = f /\ Head(t) = f
      /\ \A i \in 1 .. Len(Tail(s)) : t[i + 1] = Tail(s)[i]
  BY <1>1, Pushed
<1>3. Len(t) = Len(s)
  BY <1>1, <1>2
<1>4. ASSUME Len(s) = 2 PROVE t[2] = s[2]
  <2>1. 1 \in 1 .. Len(s) - 1 /\ 1 \in 1 .. Len(Tail(s)) /\ 1 + 1 = 2
    BY <1>1, <1>4
  <2> QED
    BY <1>1, <1>2, <2>1
<1> QED
  BY <1>2, <1>3, <1>4

\* A function at the top of the stack goes on as g when the f it calls returns.
LEMMA Nesting ==
    ASSUME NEW s \in Seq(Frame), s # <<>>, NEW f \in Frame, NEW g \in Frame,
           NEW t, t = <<f, g>> \o Tail(s)
    PROVE  /\ Len(t) = Len(s) + 1 /\ t # <<>> /\ t[1] = f /\ Head(t) = f /\ t[2] = g
           /\ Len(s) = 2 => t[3] = s[2]
<1>1. /\ Len(s) \in Nat \ {0} /\ Tail(s) \in Seq(Frame) /\ Len(Tail(s)) = Len(s) - 1
      /\ \A i \in 1 .. Len(s) - 1 : Tail(s)[i] = s[i + 1]
  BY Popped
<1>2. /\ Len(t) = Len(Tail(s)) + 2 /\ t # <<>> /\ t[1] = f /\ Head(t) = f /\ t[2] = g
      /\ \A i \in 1 .. Len(Tail(s)) : t[i + 2] = Tail(s)[i]
  BY <1>1, PushedTwo
<1>3. Len(t) = Len(s) + 1
  BY <1>1, <1>2
<1>4. ASSUME Len(s) = 2 PROVE t[3] = s[2]
  <2>1. 1 \in 1 .. Len(s) - 1 /\ 1 \in 1 .. Len(Tail(s)) /\ 1 + 1 = 2 /\ 1 + 2 = 3
    BY <1>1, <1>4
  <2> QED
    BY <1>1, <1>2, <2>1
<1> QED
  BY <1>2, <1>3, <1>4

\* What a close finds
LEMMA TearingFacts ==
    ASSUME TypeInv, ControlInv, Running, stack # <<>>, Top.op \in {"close", "notify", "finish"}
    PROVE  /\ phase = "run" /\ stack \in Seq(Frame) /\ Top = stack[1] /\ Top \in Frame
           /\ conn \in Socks
           /\ Len(stack) = 1 \/ (Len(stack) = 2 /\ stack[2].op = "close"
                                 /\ stack[2].why # "DISCONNECTED" /\ "BYTES" \in bits)
           /\ Top.op = "close" =>
                \/ Live /\ (Len(stack) = 2 => Top.why # "DISCONNECTED")
                \/ Waiting /\ Len(stack) = 1 /\ "BYTES" \in bits /\ Top.why # "DISCONNECTED"
           /\ Top.op # "close" =>
                \/ Closing /\ (Len(stack) = 2 => Top.why = "later")
                \/ Waiting /\ Len(stack) = 1 /\ Top.why = "later"
<1>1. /\ phase = "run" /\ stack \in Seq(Frame) /\ Top = stack[1] /\ Top \in Frame /\ Tearing(1)
  BY TopMode
<1>2. 1 + 1 = 2
  OBVIOUS
<1> QED
  BY <1>1, <1>2 DEF Tearing, Live, Closing

\* ... and what it leaves on the stack
LEMMA TearingOn ==
    ASSUME phase' = "run", stack' # <<>>,
           stack'[1].op \in {"notify", "finish"},
           Len(stack') = 1 \/ (Len(stack') = 2 /\ stack'[2].op = "close"
                                 /\ stack'[2].why # "DISCONNECTED" /\ "BYTES" \in bits'),
           \/ Closing' /\ (Len(stack') = 2 => stack'[1].why = "later")
           \/ Waiting' /\ conn' \in Socks /\ Len(stack') = 1 /\ stack'[1].why = "later"
    PROVE  Mode'
<1>1. 1 + 1 = 2
  OBVIOUS
<1>2. Tearing(1)'
  BY <1>1 DEF Tearing
<1> QED
  BY <1>2 DEF Mode, TearingDown

\* Nobody reads any more.
LEMMA NobodyReads ==
    ASSUME rpos' <= Len(rbuf'), \A j \in 1 .. Len(stack') : stack'[j].op \notin {"recv", "process"}
    PROVE  Reader'
BY DEF Reader, Reading

LEMMA ControlTearDown ==
    ASSUME TypeInv, ControlInv, fault = "none", TearDown
    PROVE  ControlInv'
<1> USE DEF ndVars, ncVars, rVars, histVars
<1>0. sock \in [Socks -> Sock] /\ NoSock \notin Socks /\ clients \in Seq(Clients)
  BY CommAssumption DEF TypeInv, TypeOK
<1>1. CASE CloseSocket
  <2> DEFINE w == IF Top.why = "DISCONNECTED" \/ "BYTES" \notin bits THEN "now" ELSE "later"
             o == IF bits = Ready THEN "notify" ELSE "finish"
             f == Loop(o, w)
  <2>1. /\ At("close") /\ stack' = <<f>> \o Tail(stack) /\ ptimer' = FALSE
        /\ sock' = [c \in Socks |-> IF c = conn THEN FreeSock ELSE sock[c]]
        /\ fault' = IF conn = NoSock THEN "null_conn" ELSE fault
        /\ UNCHANGED <<phase, curr, rtimer, current, bits, conn, info, phandler, rbuf, rpos, tried>>
    BY <1>1 DEF CloseSocket, Jump
  <2>2. f \in Frame /\ f.op \in {"notify", "finish"} /\ f.why = w
    <3>1. o \in Ops /\ w \in {"none", "now", "later"} /\ o \in {"notify", "finish"}
      BY DEF Ops
    <3> HIDE DEF o, w
    <3> QED
      BY <1>0, <3>1, LoopFrames
  <2>3. Len(stack) = 2 /\ Top.why # "DISCONNECTED" /\ "BYTES" \in bits => f.why = "later"
    BY <2>2
  <2>4. "BYTES" \in bits /\ Top.why # "DISCONNECTED" => f.why = "later"
    BY <2>2
  <2> HIDE DEF f
  <2>5. /\ stack # <<>> /\ Running /\ Top.op = "close"
    BY <2>1 DEF At
  <2>6. /\ phase = "run" /\ stack \in Seq(Frame) /\ conn \in Socks
        /\ Len(stack) = 1 \/ (Len(stack) = 2 /\ stack[2].op = "close"
                                 /\ stack[2].why # "DISCONNECTED" /\ "BYTES" \in bits)
        /\ \/ Live /\ (Len(stack) = 2 => Top.why # "DISCONNECTED")
           \/ Waiting /\ Len(stack) = 1 /\ "BYTES" \in bits /\ Top.why # "DISCONNECTED"
    BY <2>5, TearingFacts
  <2>7. /\ Len(stack') = Len(stack) /\ stack' # <<>> /\ stack'[1] = f
        /\ Len(stack) = 2 => stack'[2] = stack[2]
    BY <2>1, <2>2, <2>5, <2>6, Replaced
  <2>8. Open' = {} /\ FreeSock.st = "free"
    BY <1>0, <2>1, <2>6 DEF Open, FreeSock, Live, Waiting
  <2>9. \/ Closing' /\ (Len(stack') = 2 => stack'[1].why = "later")
        \/ Waiting' /\ conn' \in Socks /\ Len(stack') = 1 /\ stack'[1].why = "later"
    <3>1. CASE Live /\ (Len(stack) = 2 => Top.why # "DISCONNECTED")
      <4>1. Closing'
        BY <2>1, <2>6, <2>8, <3>1 DEF Live, Closing, Rotated, Servers
      <4> QED
        BY <2>3, <2>6, <2>7, <3>1, <4>1
    <3>2. CASE Waiting /\ Len(stack) = 1 /\ "BYTES" \in bits /\ Top.why # "DISCONNECTED"
      <4>1. Waiting'
        BY <2>1, <2>8, <3>2 DEF Waiting, IsReady
      <4> QED
        BY <2>1, <2>4, <2>6, <2>7, <3>2, <4>1
    <3> QED
      BY <2>6, <3>1, <3>2
  <2>10. Mode'
    BY <2>1, <2>2, <2>6, <2>7, <2>9, TearingOn
  <2>11. Reader'
    <3>1. \A j \in 1 .. Len(stack') : j = 1 \/ (j = 2 /\ Len(stack) = 2)
      BY <2>6, <2>7
    <3>2. \A j \in 1 .. Len(stack') : stack'[j].op \notin {"recv", "process"}
      BY <2>2, <2>6, <2>7, <3>1
    <3> QED
      BY <2>1, <3>2, NobodyReads DEF ControlInv, Reader
  <2>12. InfoFirst' /\ Pending'
    <3>1. \A c \in Socks : sock'[c].st = "free" /\ sock'[c] = FreeSock
      BY <1>0, <2>1, <2>6, <2>8 DEF Open, Live, Waiting, ControlInv, Pending
    <3> QED
      BY <2>1, <3>1 DEF InfoFirst, Open, Pending, ControlInv
  <2>13. fault' = fault /\ (ptimer' => phandler')
    BY <1>0, <2>1, <2>6
  <2> QED
    BY <2>10, <2>11, <2>12, <2>13 DEF ControlInv, NoFault
<1>2. CASE CloseNotify
  <2>1. /\ At("notify")
        /\ UNCHANGED <<phase, curr, rtimer, current, bits, conn, info, ptimer, phandler, rbuf, rpos,
                       sock, fault, tried>>
        /\ \/ stack' = <<Callback("disconnected"), [Top EXCEPT !.i = @ + 1]>> \o Tail(stack)
           \/ stack' = <<[Top EXCEPT !.op = "finish"]>> \o Tail(stack)
    BY <1>2 DEF CloseNotify, Invoke, Jump
  <2>2. stack # <<>> /\ Running /\ Top.op = "notify" /\ ~Closes(stack)
    BY <2>1 DEF At, Closes, Top
  <2>3. /\ phase = "run" /\ stack \in Seq(Frame) /\ conn \in Socks /\ Top \in Frame
        /\ Len(stack) = 1 \/ (Len(stack) = 2 /\ stack[2].op = "close"
                                 /\ stack[2].why # "DISCONNECTED" /\ "BYTES" \in bits)
        /\ \/ Closing /\ (Len(stack) = 2 => Top.why = "later")
           \/ Waiting /\ Len(stack) = 1 /\ Top.why = "later"
    BY <2>2, TearingFacts
  <2>4. (Closing => Closing') /\ (Waiting => Waiting')
    BY <2>1 DEF Closing, Waiting, Rotated, Servers, Open, IsReady
  <2>5. InfoFirst' /\ Pending'
    BY <2>1, <2>2, InfoSame, PendingSame DEF ControlInv
  <2>6. CASE stack' = <<[Top EXCEPT !.op = "finish"]>> \o Tail(stack)
    <3> DEFINE f == [Top EXCEPT !.op = "finish"]
    <3>1. f \in Frame /\ f.op = "finish" /\ f.why = Top.why
      BY <2>3 DEF Frame, Ops
    <3>2. stack' = <<f>> \o Tail(stack)
      BY <2>6
    <3> HIDE DEF f
    <3>3. /\ Len(stack') = Len(stack) /\ stack' # <<>> /\ stack'[1] = f
          /\ Len(stack) = 2 => stack'[2] = stack[2]
      BY <2>2, <2>3, <3>1, <3>2, Replaced
    <3>4. Mode'
      BY <2>1, <2>3, <2>4, <3>1, <3>3, TearingOn
    <3>5. \A j \in 1 .. Len(stack') : j = 1 \/ (j = 2 /\ Len(stack) = 2)
      BY <2>3, <3>3
    <3>6. \A j \in 1 .. Len(stack') : stack'[j].op \notin {"recv", "process"}
      BY <2>3, <3>1, <3>3, <3>5
    <3>7. Reader'
      BY <2>1, <3>6, NobodyReads DEF ControlInv, Reader
    <3> QED
      BY <2>1, <2>5, <3>4, <3>7 DEF ControlInv, NoFault
  <2>7. CASE stack' = <<Callback("disconnected"), [Top EXCEPT !.i = @ + 1]>> \o Tail(stack)
    <3> DEFINE f == Callback("disconnected")
               g == [Top EXCEPT !.i = @ + 1]
    <3>1. /\ f \in Frame /\ f.op = "callback" /\ f.why = "disconnected"
      BY CallbackFrame DEF Callbacks
    <3>2. /\ g \in Frame /\ g.op = "notify" /\ g.why = Top.why
      BY <2>2, <2>3, NextFrames
    <3>3. stack' = <<f, g>> \o Tail(stack)
      BY <2>7
    <3> HIDE DEF f, g
    <3>4. /\ Len(stack') = Len(stack) + 1 /\ stack' # <<>> /\ stack'[1] = f /\ Head(stack') = f
          /\ stack'[2] = g
          /\ Len(stack) = 2 => stack'[3] = stack[2]
      BY <2>2, <2>3, <3>1, <3>2, <3>3, Nesting
    <3>5. 2 + 1 = 3 /\ (Len(stack') = 2 \/ Len(stack') = 3) /\ (Len(stack') = 3 <=> Len(stack) = 2)
          /\ (Len(stack') = 2 <=> Len(stack) = 1)
      <4>1. (Len(stack) = 1 \/ Len(stack) = 2) /\ Len(stack') = Len(stack) + 1
        BY <2>3, <3>4
      <4>2. ASSUME NEW m, NEW n \in {1, 2}, m = n + 1
            PROVE  2 + 1 = 3 /\ (m = 2 \/ m = 3) /\ (m = 3 <=> n = 2) /\ (m = 2 <=> n = 1)
        BY ONLY <4>2
      <4> QED
        BY <4>1, <4>2, Zenon
    <3>6. Tearing(2)'
      BY <2>1, <2>3, <2>4, <3>2, <3>4, <3>5 DEF Tearing
    <3>7. Mode'
      BY <2>1, <2>3, <3>1, <3>2, <3>4, <3>6 DEF Mode, TearingDown, Notifying, Top
    <3>8. \A j \in 1 .. Len(stack') : j = 1 \/ j = 2 \/ (j = 3 /\ Len(stack) = 2)
      <4>1. ASSUME NEW m, NEW n, m = 2 \/ m = 3, m = 3 <=> n = 2, NEW j \in 1 .. m
            PROVE  j = 1 \/ j = 2 \/ (j = 3 /\ n = 2)
        BY ONLY <4>1
      <4> QED
        BY <3>5, <4>1, Zenon
    <3>9. \A j \in 1 .. Len(stack') : stack'[j].op \notin {"recv", "process"}
      BY <2>3, <3>1, <3>2, <3>4, <3>8
    <3>10. Reader'
      BY <2>1, <3>9, NobodyReads DEF ControlInv, Reader
    <3> QED
      BY <2>1, <2>5, <3>7, <3>10 DEF ControlInv, NoFault
  <2> QED
    BY <2>1, <2>6, <2>7
<1>3. CASE CloseFinish
  <2>1. /\ At("finish") /\ current' = FALSE /\ rbuf' = <<>> /\ rpos' = 0
        /\ UNCHANGED <<phase, bits, conn, info, ptimer, phandler, sock, fault, tried>>
        /\ \/ /\ Top.why = "now" /\ rtimer' = FALSE /\ curr' = curr
              /\ stack' = <<Act("connect")>> \o Tail(stack)
           \/ /\ Top.why = "later" /\ rtimer' = TRUE /\ curr' = IF rtimer THEN curr ELSE -1
              /\ stack' = Tail(stack)
    BY <1>3 DEF CloseFinish, ResetBuffers, AddReconnectTimer, Jump, Return
  <2>2. stack # <<>> /\ Running /\ Top.op = "finish" /\ ~Closes(stack)
    BY <2>1 DEF At, Closes, Top
  <2>3. /\ phase = "run" /\ stack \in Seq(Frame) /\ conn \in Socks /\ Top \in Frame
        /\ Len(stack) = 1 \/ (Len(stack) = 2 /\ stack[2].op = "close"
                                 /\ stack[2].why # "DISCONNECTED" /\ "BYTES" \in bits)
        /\ \/ Closing /\ (Len(stack) = 2 => Top.why = "later")
           \/ Waiting /\ Len(stack) = 1 /\ Top.why = "later"
    BY <2>2, TearingFacts
  <2>4. Pending'
    BY <2>1, <2>2, PendingSame DEF ControlInv
  <2>5. InfoFirst' /\ rpos' <= Len(rbuf')
    <3>1. Len(rbuf') = 0 /\ rpos' = 0
      BY <2>1, EmptySeq
    <3>2. \A c \in Socks : sock'[c].st # "est"
      BY <2>1, <2>3 DEF Closing, Waiting, Open
    <3> QED
      BY <3>1, <3>2 DEF InfoFirst, Open
  <2>6. ~IsReady' /\ Open' = Open
    BY <2>1 DEF IsReady, Open
  <2>7. CASE Top.why = "now"
    <3> DEFINE f == Act("connect")
    <3>1. f \in Frame /\ f.op = "connect"
      BY FrameTypes DEF Ops
    <3>2. stack' = <<f>> \o Tail(stack) /\ Closing /\ Len(stack) = 1 /\ curr' = curr /\ ~rtimer'
      BY <2>1, <2>3, <2>7
    <3> HIDE DEF f
    <3>3. Len(stack') = 1 /\ stack' # <<>> /\ stack'[1] = f /\ Head(stack') = f
      BY <2>2, <2>3, <3>1, <3>2, Replaced
    <3>4. Connecting'
      <4>1. curr' # -1
        BY <3>2, CommAssumption DEF Closing, Rotated, Servers
      <4> QED
        BY <2>1, <2>6, <3>2, <4>1 DEF Connecting, Closing, Rotated, Servers
    <3>5. Mode'
      BY <2>1, <2>3, <3>1, <3>3, <3>4 DEF Mode, Dialling, Top
    <3>6. \A j \in 1 .. Len(stack') : stack'[j].op \notin {"recv", "process"}
      BY <3>1, <3>3
    <3> QED
      BY <2>1, <2>4, <2>5, <3>5, <3>6, NobodyReads DEF ControlInv, NoFault
  <2>8. CASE Top.why = "later"
    <3>1. stack' = Tail(stack) /\ rtimer' /\ Waiting'
      BY <2>1, <2>3, <2>6, <2>8 DEF Waiting, Closing
    <3>2. /\ stack' \in Seq(Frame) /\ Len(stack') = Len(stack) - 1
          /\ \A i \in 1 .. Len(stack) - 1 : stack'[i] = stack[i + 1]
          /\ stack' = <<>> <=> Len(stack) = 1
      BY <2>2, <2>3, <3>1, Popped
    <3>3. CASE Len(stack) = 1
      <4>1. Len(stack') = 0 /\ stack' = <<>>
        BY <3>2, <3>3
      <4>2. Mode'
        BY <2>1, <2>3, <3>1, <4>1 DEF Mode
      <4>3. Reader'
        BY <2>5, <4>1, NobodyReads
      <4> QED
        BY <2>1, <2>4, <2>5, <4>2, <4>3 DEF ControlInv, NoFault
    <3>4. CASE Len(stack) = 2
      <4>1. Len(stack') = 1 /\ stack' # <<>> /\ stack'[1] = stack[2]
        <5>1. 1 \in 1 .. Len(stack) - 1 /\ 1 + 1 = 2 /\ Len(stack) - 1 = 1 /\ Len(stack) # 1
          BY <3>4
        <5> QED
          BY <3>2, <5>1
      <4>2. Tearing(1)'
        <5>1. Len(stack') \in {1, 1 + 1} /\ Len(stack') # 1 + 1
          BY <4>1
        <5> QED
          BY <2>1, <2>3, <3>1, <3>4, <4>1, <5>1 DEF Tearing
      <4>3. Mode'
        BY <2>1, <2>3, <4>1, <4>2 DEF Mode, TearingDown
      <4>4. \A j \in 1 .. Len(stack') : stack'[j].op \notin {"recv", "process"}
        BY <2>3, <3>4, <4>1
      <4> QED
        BY <2>1, <2>4, <2>5, <4>3, <4>4, NobodyReads DEF ControlInv, NoFault
    <3> QED
      BY <2>3, <3>3, <3>4
  <2> QED
    BY <2>1, <2>7, <2>8
<1> QED
  BY <1>1, <1>2, <1>3 DEF TearDown

-----------------------------------------------------------------------------
(* Clients *)

LEMMA ControlReturn ==
    ASSUME TypeInv, ControlInv, fault = "none", CallbackReturn
    PROVE  ControlInv'
<1> USE DEF ndVars, ncVars, rVars, histVars
<1>1. /\ At("callback") /\ stack' = Tail(stack)
      /\ UNCHANGED <<phase, curr, rtimer, current, bits, conn, info, ptimer, phandler, rbuf, rpos,
                     sock, fault, tried>>
  BY DEF CallbackReturn, Return
<1>2. /\ stack # <<>> /\ Top.op = "callback" /\ phase = "run" /\ stack \in Seq(Frame)
      /\ ~Closes(stack) /\ (Working \/ (Notifying /\ Tearing(2)))
  BY <1>1, TopMode DEF At, Closes, Top
<1>3. InfoFirst' /\ Pending'
  BY <1>1, <1>2, InfoSame, PendingSame DEF ControlInv
<1>4. CASE Working
  <2>1. Live'
    BY <1>1, <1>4, LiveSame DEF Open, Working
  <2>2. Mode' /\ \A j \in 1 .. Len(stack') : \E i \in 1 .. Len(stack) : stack'[j] = stack[i]
    BY <1>1, <1>2, <1>4, <2>1, WorkingPop
  <2>3. Reader'
    BY <1>1, <2>2, ReaderSame DEF ControlInv
  <2> QED
    BY <1>1, <1>3, <2>2, <2>3 DEF ControlInv, NoFault
<1>5. CASE Notifying /\ Tearing(2)
  <2>0. 2 + 1 = 3 /\ 1 + 1 = 2
    OBVIOUS
  <2>1. /\ Len(stack) \in {2, 3} /\ stack[2].op = "notify"
        /\ Len(stack) = 3 => /\ stack[3].op = "close" /\ stack[3].why # "DISCONNECTED"
                             /\ "BYTES" \in bits
        /\ \/ Closing /\ (Len(stack) = 3 => stack[2].why = "later")
           \/ Waiting /\ conn \in Socks /\ Len(stack) = 2 /\ stack[2].why = "later"
    BY <1>5, <2>0 DEF Tearing, Notifying
  <2>2. /\ Len(stack') = Len(stack) - 1 /\ (stack' = <<>> <=> Len(stack) = 1)
        /\ \A i \in 1 .. Len(stack) - 1 : stack'[i] = stack[i + 1]
    BY <1>1, <1>2, Popped
  <2>3. /\ stack' # <<>> /\ stack'[1] = stack[2]
        /\ Len(stack') = 1 \/ Len(stack') = 2
        /\ (Len(stack') = 1 <=> Len(stack) = 2) /\ (Len(stack') = 2 <=> Len(stack) = 3)
        /\ Len(stack') = 2 => stack'[2] = stack[3]
    <3>1. 1 \in 1 .. Len(stack) - 1 /\ Len(stack) # 1 /\ (Len(stack) = 3 => 2 \in 1 .. Len(stack) - 1)
      BY <2>1
    <3>2. stack' # <<>> /\ stack'[1] = stack[2] /\ (Len(stack) = 3 => stack'[2] = stack[3])
      BY <2>0, <2>2, <3>1
    <3>3. /\ Len(stack') = 1 \/ Len(stack') = 2
          /\ (Len(stack') = 1 <=> Len(stack) = 2) /\ (Len(stack') = 2 <=> Len(stack) = 3)
      BY <2>1, <2>2
    <3> QED
      BY <3>2, <3>3
  <2>4. (Closing => Closing') /\ (Waiting => Waiting')
    BY <1>1 DEF Closing, Waiting, Rotated, Servers, Open, IsReady
  <2>5. Mode'
    BY <1>1, <1>2, <2>1, <2>3, <2>4, TearingOn
  <2>6. \A j \in 1 .. Len(stack') : j = 1 \/ (j = 2 /\ Len(stack) = 3)
    <3>1. (Len(stack') = 1 \/ Len(stack') = 2) /\ (Len(stack') = 2 <=> Len(stack) = 3)
      BY <2>3
    <3>2. ASSUME NEW m, m = 1 \/ m = 2 PROVE \A j \in 1 .. m : j = 1 \/ (j = 2 /\ m = 2)
      BY ONLY <3>2
    <3>3. \A j \in 1 .. Len(stack') : j = 1 \/ (j = 2 /\ Len(stack') = 2)
      BY <3>1, <3>2, Zenon
    <3> QED
      BY <3>1, <3>3, Zenon
  <2>7. \A j \in 1 .. Len(stack') : stack'[j].op \notin {"recv", "process"}
    BY <2>1, <2>3, <2>6
  <2>8. Reader'
    BY <1>1, <2>7, NobodyReads DEF ControlInv, Reader
  <2> QED
    BY <1>1, <1>3, <2>5, <2>8 DEF ControlInv, NoFault
<1> QED
  BY <1>2, <1>4, <1>5

\* A client may call only between handlers, or while the connection is up.
LEMMA CallerFacts ==
    ASSUME TypeInv, ControlInv, GoodEnvironment, Caller
    PROVE  /\ stack \in Seq(Frame) /\ phase = "run" /\ ~Closes(stack) /\ Running
           /\ stack # <<>> => Working /\ stack[1].op = "callback"
           /\ stack = <<>> => Live \/ Waiting
           /\ IsReady => Live /\ Shape(stack)
<1>1. stack \in Seq(Frame) /\ phase = "run" /\ Running
  BY DEF TypeInv, TypeOK, Caller, Running
<1>2. CASE stack # <<>>
  <2>1. Top.op = "callback" /\ Top.why # "disconnected"
    BY <1>2 DEF Caller, GoodEnvironment
  <2> QED
    BY <1>1, <1>2, <2>1, TopMode DEF Working, Closes, Top
<1>3. CASE stack = <<>>
  <2>1. Shape(stack)
    BY <1>3 DEF Shape
  <2> QED
    BY <1>1, <1>3, <2>1, IdleMode DEF Idle, Closes
<1> QED
  BY <1>2, <1>3

\* A client call that leads to a call of f, or to none
LEMMA ClientCalls ==
    ASSUME TypeInv, ControlInv, fault = "none", GoodEnvironment, Caller,
           UNCHANGED <<phase, curr, rtimer, current, bits, conn, info, ptimer, phandler, rbuf, rpos,
                       sock, fault, tried>>,
           \/ stack' = stack
           \/ /\ IsReady
              /\ \E f \in Frame : /\ f.op = "flush" \/ (f.op = "callback" /\ f.why # "disconnected")
                                  /\ stack' = <<f>> \o stack
    PROVE  ControlInv'
<1>1. InfoFirst' /\ Pending'
  BY CallerFacts, InfoSame, PendingSame DEF ControlInv
<1>2. CASE stack' = stack
  <2>1. Mode'
    <3>1. CASE stack = <<>>
      BY <1>2, <3>1, CallerFacts, LiveSame, WaitingSame DEF Mode, Open
    <3>2. CASE stack # <<>>
      BY <1>2, <3>2, CallerFacts, LiveSame DEF Mode, Open, Working
    <3> QED
      BY <3>1, <3>2
  <2>2. Reader'
    BY <1>2 DEF ControlInv, Reader, Reading, Bare
  <2> QED
    BY <1>1, <2>1, <2>2 DEF ControlInv, NoFault
<1>3. ASSUME NEW f \in Frame, f.op = "flush" \/ (f.op = "callback" /\ f.why # "disconnected"),
             stack' = <<f>> \o stack, IsReady
      PROVE  ControlInv'
  <2>1. /\ stack \in Seq(Frame) /\ phase = "run" /\ Live /\ Shape(stack)
        /\ stack # <<>> => stack[1].op = "callback"
    BY <1>3, CallerFacts
  <2>2. Live'
    BY <2>1, LiveSame DEF Open
  <2>3. Shape(stack')
    BY <1>3, <2>1, ShapePush
  <2>4. /\ stack' # <<>> /\ stack'[1] = f /\ Len(stack') = Len(stack) + 1 /\ Len(stack) \in Nat
        /\ \A i \in 1 .. Len(stack) : stack'[i + 1] = stack[i]
    BY <1>3, <2>1, Pushed
  <2>5. Mode'
    BY <2>1, <2>2, <2>3, <2>4 DEF Mode, Working
  <2>6. ASSUME NEW j \in 1 .. Len(stack'), stack'[j].op \in {"recv", "process"}
        PROVE  \E i \in 1 .. Len(stack) : stack'[j] = stack[i]
    <3>1. j # 1
      BY <1>3, <2>4, <2>6
    <3>2. j - 1 \in 1 .. Len(stack) /\ (j - 1) + 1 = j
      BY <2>4, <3>1
    <3> QED
      BY <2>4, <3>2
  <2>7. Reader'
    BY <2>6, ReaderSame DEF ControlInv
  <2> QED
    BY <1>1, <2>5, <2>7 DEF ControlInv, NoFault
<1> QED
  BY <1>2, <1>3

LEMMA ControlClient ==
    ASSUME TypeInv, ControlInv, fault = "none", GoodEnvironment, Client
    PROVE  ControlInv'
<1> USE DEF ndVars, ncVars, rVars, histVars
<1>1. /\ Act("flush") \in Frame /\ Act("flush").op = "flush"
  BY FrameTypes DEF Ops
<1>2. Callback("connected") \in Frame /\ Callback("connected").op = "callback"
      /\ Callback("connected").why # "disconnected"
  BY CallbackFrame DEF Callbacks
<1>3. /\ Caller
      /\ UNCHANGED <<phase, curr, rtimer, current, bits, conn, info, ptimer, phandler, rbuf, rpos,
                     sock, fault, tried>>
  BY DEF Client, Publish, Subscribe, Unsubscribe, AddClient
<1>4. \/ stack' = stack
      \/ IsReady /\ stack' = <<Act("flush")>> \o stack
      \/ IsReady /\ stack' = <<Callback("connected")>> \o stack
  BY DEF Client, Publish, Subscribe, Unsubscribe, AddClient, Call
<1> QED
  BY <1>1, <1>2, <1>3, <1>4, ClientCalls

-----------------------------------------------------------------------------
(* The theorems *)

LEMMA ControlInit ==
    ASSUME Init
    PROVE  ControlInv
<1>1. stack = <<>> /\ Len(stack) = 0 /\ Len(rbuf) = 0 /\ rpos = 0
  BY EmptySeq DEF Init
<1>2. \A c \in Socks : sock[c] = FreeSock /\ FreeSock.st = "free"
  BY DEF Init, FreeSock
<1>3. Mode
  BY <1>1, <1>2 DEF Init, Mode, Connecting, Open, IsReady
<1>4. Reader /\ InfoFirst /\ Pending
  BY <1>1, <1>2 DEF Reader, InfoFirst, Open, Pending
<1> QED
  BY <1>3, <1>4 DEF Init, ControlInv, NoFault

\* Nothing is done after a fault.
LEMMA NextRuns ==
    ASSUME ControlInv, Next, ~Terminated
    PROVE  fault = "none"
<1>1. CASE InitProcess
  <2>1. Open = {}
    BY <1>1 DEF InitProcess, ControlInv, Mode, Connecting
  <2> QED
    BY <2>1 DEF ControlInv, NoFault
<1>2. CASE ExitProcess \/ Timer \/ Event \/ Client
  BY <1>2 DEF ExitProcess, Timer, ReconnectTimer, PingTimer, WriteTimeout, Event, ReadEvent,
     WriteEvent, Idle, Client, AddClient, Publish, Subscribe, Unsubscribe, Caller, Running
<1>3. CASE Connect \/ Flush \/ Recv
  BY <1>3 DEF Connect, ConnectGiveUp, ConnectDeclined, ConnectInProgress, ConnectAtOnce, Attempt,
     Flush, FlushNothing, FlushError, FlushSome, FlushAgain, Recv, RecvData, RecvAgain, RecvEnd,
     At, Running
<1>4. CASE Dispatch \/ TearDown \/ CallbackReturn
  BY <1>4 DEF Dispatch, ProcessEnd, ProcessSkip, ProcessOk, ProcessInfo, ProcessPing, ProcessPong,
     ProcessErr, ProcessBad, ProcessMsg, ReadyLoop, Parsed, TearDown, CloseSocket, CloseNotify,
     CloseFinish, CallbackReturn, At, Running
<1>5. CASE Network
  BY <1>5 DEF Network, Establish, Refuse, Drain, AnswerConnect, RefuseConnect, ServerCloses,
     ServerResets, ServerSays, Idle, Running
<1> QED
  BY <1>1, <1>2, <1>3, <1>4, <1>5 DEF Next, Step

LEMMA ControlNext ==
    ASSUME TypeInv, ControlInv, GoodEnvironment, [Next]_vars
    PROVE  ControlInv'
<1>1. CASE UNCHANGED vars
  <2>1. UNCHANGED <<phase, curr, rtimer, current, bits, conn, info, ptimer, phandler, rbuf, rpos, sock,
                    stack, fault, tried>>
    BY <1>1 DEF vars, ndVars, cdVars, ncVars, rVars, histVars
  <2>2. Open' = Open /\ (IsReady <=> IsReady') /\ Top' = Top /\ (Rotated <=> Rotated')
    <3>1. Open' = Open /\ Top' = Top
      BY <2>1 DEF Open, Top
    <3>2. IsReady <=> IsReady'
      BY <2>1, Zenon DEF IsReady
    <3>3. Rotated <=> Rotated'
      BY <2>1, SMT DEF Rotated, Servers
    <3> QED
      BY <3>1, <3>2, <3>3
  <2>3. (Live => Live') /\ (Waiting => Waiting') /\ (Closing => Closing') /\ (Connecting => Connecting')
    BY <2>1, <2>2 DEF Live, Waiting, Closing, Connecting
  <2>4. Mode'
    BY <2>1, <2>2, <2>3 DEF ControlInv, Mode, Working, Shape, Dialling, TearingDown, Tearing,
       Notifying
  <2>5. Reader' /\ InfoFirst' /\ Pending' /\ NoFault'
    BY <2>1, <2>2 DEF ControlInv, Reader, Reading, InfoFirst, Pending, NoFault, Bare
  <2> QED
    BY <2>1, <2>4, <2>5 DEF ControlInv
<1>2. CASE Next
  BY <1>1, <1>2, NextRuns, ControlStart, ControlConnect, ControlFlush, ControlNetwork, ControlEvent,
     ControlRecv, ControlDispatch, ControlTearDown, ControlReturn, ControlClient
  DEF Next, Step, Timer, Event, Network, Terminated
<1> QED
  BY <1>1, <1>2

\* What the invariant says of a state
LEMMA ControlImplies ==
    ASSUME TypeInv, ControlInv
    PROVE  NoFault /\ OneConnection /\ NeverStuck /\ NoTightLoop
<1>1. OneConnection
  BY DEF ControlInv, Mode, Working, Dialling, TearingDown, Tearing, Connecting, Live, Closing,
     Waiting, OneConnection
<1>2. NeverStuck
  <2> SUFFICES ASSUME Idle
               PROVE  /\ rtimer <=> Open = {}
                      /\ \A c \in Open : sock[c].st = "syn" => sock[c].wtimer
    BY DEF NeverStuck
  <2>1. rtimer <=> Open = {}
    BY IdleMode DEF Live, Waiting
  <2>2. \A c \in Open : sock[c].st = "syn" => sock[c].wtimer
    BY DEF ControlInv, Pending, Open, Idle
  <2> QED
    BY <2>1, <2>2
<1>3. NoTightLoop
  <2> SUFFICES ASSUME At("connect"), ~WentRound
               PROVE  NextIndex \notin tried
    BY DEF NoTightLoop
  <2>1. Connecting /\ N \in Nat \ {0} /\ curr \in -1 .. N - 1
    BY TopMode, CommAssumption DEF At, Dialling, TypeInv, TypeOK
  <2>2. CASE curr = -1
    BY <2>1, <2>2 DEF Connecting
  <2>3. CASE curr # -1
    <3>1. tried = 0 .. curr /\ curr \in Nat
      BY <2>1, <2>3 DEF Connecting, Rotated
    <3>2. NextIndex = curr + 1
      BY <2>1, <3>1 DEF WentRound, NextIndex, LastIndex
    <3> QED
      BY <3>1, <3>2
  <2> QED
    BY <2>2, <2>3
<1> QED
  BY <1>1, <1>2, <1>3 DEF ControlInv

\* Only the expiry of the reconnect timer disarms it: a close that finds it
\* armed has nothing to decide any more.
LEMMA TimerStep ==
    ASSUME TypeInv, ControlInv, Next, rtimer
    PROVE  rtimer' \/ ReconnectTimer
<1> USE DEF ndVars
<1>1. CASE CloseFinish
  <2>1. Running /\ stack # <<>> /\ Top.op = "finish"
    BY <1>1 DEF CloseFinish, At
  <2>2. Top.why = "later"
    BY <2>1, TearingFacts DEF Closing
  <2> QED
    BY <1>1, <2>2 DEF CloseFinish, AddReconnectTimer
<1>2. CASE ~CloseFinish
  <2>1. CASE InitProcess \/ ExitProcess \/ Terminated
    BY <2>1 DEF InitProcess, ExitProcess, Terminated, vars
  <2>2. CASE Connect \/ Flush \/ Recv
    BY <2>2 DEF Connect, ConnectGiveUp, AddReconnectTimer, ConnectDeclined, ConnectInProgress,
       ConnectAtOnce, Attempt, Flush, FlushNothing, FlushError, FlushSome, FlushAgain,
       Recv, RecvData, RecvAgain, RecvEnd
  <2>3. CASE Dispatch
    BY <2>3 DEF Dispatch, ProcessEnd, ProcessSkip, ProcessOk, ProcessInfo, ProcessPing, ProcessPong,
       ProcessErr, ProcessBad, ProcessMsg, ReadyLoop
  <2>4. CASE TearDown \/ CallbackReturn
    BY <1>2, <2>4 DEF TearDown, CloseSocket, CloseNotify, CallbackReturn
  <2>5. CASE Client
    BY <2>5 DEF Client, Publish, Subscribe, Unsubscribe, AddClient
  <2>6. CASE Timer \/ Event
    BY <2>6 DEF Timer, PingTimer, WriteTimeout, Event, ReadEvent, WriteEvent
  <2>7. CASE Network
    BY <2>7 DEF Network, Establish, Refuse, Drain, AnswerConnect, RefuseConnect, ServerCloses,
       ServerResets, ServerSays, netVars
  <2> QED
    BY <2>1, <2>2, <2>3, <2>4, <2>5, <2>6, <2>7 DEF Next, Step
<1> QED
  BY <1>1, <1>2

\* What ngx_nats_data_t, the connection, the reader and the call stack say of
\* one another holds in every state, in the middle of a handler too:
\* the invariant behind the theorems below.
THEOREM ControlCorrect ==
    ASSUME GoodEnvironment
    PROVE  Spec => [](TypeInv /\ ControlInv)
<1>1. Init => TypeInv /\ ControlInv
  BY TypeInit, ControlInit
<1>2. TypeInv /\ ControlInv /\ [Next]_vars => TypeInv' /\ ControlInv'
  BY TypeNext, ControlNext
<1> QED
  BY <1>1, <1>2, PTL DEF Spec

\* No handler reads past the end of the read buffer, closes a connection that is
\* gone, zeroes the ping timer while it is armed or lets it expire without a
\* handler, and srv_version is NULL when it is printed only if the server may
\* leave it out of INFO.
THEOREM NoFaultCorrect ==
    ASSUME GoodEnvironment
    PROVE  Spec => []NoFault
<1>1. Spec => [](TypeInv /\ ControlInv)
  BY ControlCorrect
<1>2. TypeInv /\ ControlInv => NoFault
  BY ControlImplies
<1> QED
  BY <1>1, <1>2, PTL

\* However connections end, closes that come twice included, no descriptor but
\* nc's is left open.
THEOREM OneConnectionCorrect ==
    ASSUME GoodEnvironment
    PROVE  Spec => []OneConnection
<1>1. Spec => [](TypeInv /\ ControlInv)
  BY ControlCorrect
<1>2. TypeInv /\ ControlInv => OneConnection
  BY ControlImplies
<1> QED
  BY <1>1, <1>2, PTL

\* Between handlers the worker has a connection or the reconnect timer and never
\* both, and an attempt that hangs has its write timer.
THEOREM NeverStuckCorrect ==
    ASSUME GoodEnvironment
    PROVE  Spec => []NeverStuck
<1>1. Spec => [](TypeInv /\ ControlInv)
  BY ControlCorrect
<1>2. TypeInv /\ ControlInv => NeverStuck
  BY ControlImplies
<1> QED
  BY <1>1, <1>2, PTL

\* Between two waits for the reconnect timer no server is tried twice, whichever
\* errors end the connections in between.
THEOREM NoTightLoopCorrect ==
    ASSUME GoodEnvironment
    PROVE  Spec => []NoTightLoop
<1>1. Spec => [](TypeInv /\ ControlInv)
  BY ControlCorrect
<1>2. TypeInv /\ ControlInv => NoTightLoop
  BY ControlImplies
<1> QED
  BY <1>1, <1>2, PTL

\* The reconnect delay is kept: the second close of a connection never turns
\* the wait that the first one started into an immediate reconnect.
THEOREM TimerCorrect ==
    ASSUME GoodEnvironment
    PROVE  Spec => TimerHonoured
<1>1. Spec => [](TypeInv /\ ControlInv)
  BY ControlCorrect
<1>2. TypeInv /\ ControlInv /\ [Next]_vars => [rtimer => rtimer' \/ ReconnectTimer]_vars
  BY TimerStep
<1> QED
  BY <1>1, <1>2, PTL DEF Spec, TimerHonoured

=============================================================================
