------------------------- MODULE NatsClientProofs -------------------------
(***************************************************************************)
(* What clients and servers are told is true, and what is written is sent: *)
(* ClientInv is inductive beside ControlInv, in the same environments.     *)
(***************************************************************************)
EXTENDS NatsCommProofs

-----------------------------------------------------------------------------
(* Frames and loops of a stack *)

LEMMA FramesEmpty == Frames(<<>>) = {} /\ Loops(<<>>) = {}
BY EmptySeq DEF Frames, Loops

LEMMA FramesPop ==
    ASSUME NEW s \in Seq(Frame), s # <<>>
    PROVE  /\ Frames(s) = Frames(Tail(s)) \cup {Head(s)}
           /\ Head(s).op \notin LoopOps => Loops(s) = Loops(Tail(s))
           /\ Head(s).op \in LoopOps => Loops(s) = Loops(Tail(s)) \cup {<<Head(s), Len(s) - 1>>}
<1> DEFINE t == Tail(s)
<1>1. /\ Len(s) \in Nat \ {0} /\ Head(s) = s[1] /\ Len(t) = Len(s) - 1
      /\ \A i \in 1 .. Len(s) - 1 : t[i] = s[i + 1]
  BY Popped
<1> HIDE DEF t
<1>2. \A k \in 1 .. Len(s) : k = 1 \/ (k - 1 \in 1 .. Len(t) /\ s[k] = t[k - 1]
                                       /\ Len(s) - k = Len(t) - (k - 1))
  BY <1>1
<1>3. \A k \in 1 .. Len(t) : k + 1 \in 1 .. Len(s) /\ t[k] = s[k + 1]
                             /\ Len(s) - (k + 1) = Len(t) - k
  BY <1>1
<1>4. 1 \in 1 .. Len(s)
  BY <1>1
<1>5. Frames(s) = Frames(t) \cup {Head(s)}
  BY <1>1, <1>2, <1>3, <1>4 DEF Frames
<1>6. ASSUME NEW p \in Loops(s)
      PROVE  p \in Loops(t) \/ (Head(s).op \in LoopOps /\ p = <<Head(s), Len(s) - 1>>)
  <2>1. PICK k \in 1 .. Len(s) : s[k].op \in LoopOps /\ p = <<s[k], Len(s) - k>>
    BY <1>6 DEF Loops
  <2>2. CASE k = 1
    BY <1>1, <2>1, <2>2
  <2>3. CASE k # 1
    BY <1>2, <2>1, <2>3 DEF Loops
  <2> QED
    BY <2>2, <2>3
<1>7. ASSUME NEW p \in Loops(t) PROVE p \in Loops(s)
  <2>1. PICK k \in 1 .. Len(t) : t[k].op \in LoopOps /\ p = <<t[k], Len(t) - k>>
    BY <1>7 DEF Loops
  <2> QED
    BY <1>3, <2>1 DEF Loops
<1>8. Head(s).op \in LoopOps => <<Head(s), Len(s) - 1>> \in Loops(s)
  BY <1>1, <1>4 DEF Loops
<1> QED
  BY <1>5, <1>6, <1>7, <1>8 DEF t

LEMMA FramesPush ==
    ASSUME NEW s \in Seq(Frame), NEW f \in Frame
    PROVE  /\ <<f>> \o s \in Seq(Frame)
           /\ Frames(<<f>> \o s) = Frames(s) \cup {f}
           /\ f.op \notin LoopOps => Loops(<<f>> \o s) = Loops(s)
           /\ f.op \in LoopOps => Loops(<<f>> \o s) = Loops(s) \cup {<<f, Len(s)>>}
<1> DEFINE t == <<f>> \o s
<1>1. /\ t \in Seq(Frame) /\ t # <<>> /\ Head(t) = f /\ Len(t) = Len(s) + 1 /\ Len(s) \in Nat
      /\ t[1] = f /\ \A i \in 1 .. Len(s) : t[i + 1] = s[i]
  BY Pushed
<1>2. /\ Tail(t) \in Seq(Frame) /\ Len(Tail(t)) = Len(t) - 1
      /\ \A i \in 1 .. Len(t) - 1 : Tail(t)[i] = t[i + 1]
  BY <1>1, Popped
<1>3. Tail(t) = s
  BY <1>1, <1>2, SeqEqual
<1>4. Len(t) - 1 = Len(s)
  BY <1>1
<1> QED
  BY <1>1, <1>3, <1>4, FramesPop

LEMMA FramesTwo ==
    ASSUME NEW s \in Seq(Frame), NEW f \in Frame, NEW g \in Frame
    PROVE  /\ <<f, g>> \o s = <<f>> \o (<<g>> \o s)
           /\ <<f, g>> \o s \in Seq(Frame)
<1>1. <<g>> \o s \in Seq(Frame) /\ Len(<<g>> \o s) = Len(s) + 1 /\ Len(s) \in Nat
      /\ (<<g>> \o s)[1] = g /\ \A i \in 1 .. Len(s) : (<<g>> \o s)[i + 1] = s[i]
  BY Pushed
<1> DEFINE u == <<g>> \o s
           t == <<f>> \o u
           v == <<f, g>> \o s
<1>2. /\ t \in Seq(Frame) /\ Len(t) = Len(u) + 1 /\ t[1] = f
      /\ \A i \in 1 .. Len(u) : t[i + 1] = u[i]
  BY <1>1, Pushed
<1>3. /\ v \in Seq(Frame) /\ Len(v) = Len(s) + 2 /\ v[1] = f /\ v[2] = g
      /\ \A i \in 1 .. Len(s) : v[i + 2] = s[i]
  BY PushedTwo
<1> HIDE DEF t, v
<1>4. ASSUME NEW i \in 1 .. Len(v) PROVE v[i] = t[i]
  <2>1. CASE i = 1
    BY <1>2, <1>3, <2>1
  <2>2. CASE i = 2
    <3>1. t[1 + 1] = u[1]
      BY <1>1, <1>2
    <3> QED
      BY <1>1, <1>3, <2>2, <3>1
  <2>3. CASE i > 2
    <3>1. i - 2 \in 1 .. Len(s) /\ i - 1 \in 1 .. Len(u) /\ (i - 2) + 2 = i
          /\ (i - 1) + 1 = i /\ (i - 2) + 1 = i - 1
      BY <1>1, <1>3, <2>3
    <3>2. v[i] = s[i - 2] /\ t[i] = u[i - 1] /\ u[i - 1] = s[i - 2]
      BY <1>1, <1>2, <1>3, <3>1
    <3> QED
      BY <3>2
  <2> QED
    BY <1>1, <1>3, <2>1, <2>2, <2>3
<1>5. Len(v) = Len(t)
  BY <1>1, <1>2, <1>3
<1>6. v = t
  BY <1>2, <1>3, <1>4, <1>5, SeqEqual
<1> QED
  BY <1>3, <1>6 DEF t, v

-----------------------------------------------------------------------------
(* Subscriptions *)

LEMMA SubsSame ==
    ASSUME SubsInv, IsReady => IsReady', UNCHANGED <<subs, nextId>>
    PROVE  SubsInv'
BY DEF SubsInv

\* ngx_nats_check_connected and ngx_nats_connection_init leave a ready
\* connection ready.
LEMMA ReadyStays ==
    ASSUME CheckConnected \/ bits' = InitBits, current' = current
    PROVE  IsReady => IsReady'
BY DEF CheckConnected, InitBits, IsReady, Ready

LEMMA DiallingFacts ==
    ASSUME TypeInv, ControlInv, At("connect")
    PROVE  /\ Dialling /\ Connecting /\ ~IsReady /\ Open = {} /\ Len(stack) = 1
           /\ stack \in Seq(Frame) /\ stack # <<>> /\ Top.op = "connect" /\ Tail(stack) = <<>>
<1>1. stack # <<>> /\ Top.op = "connect"
  BY DEF At
<1>2. Dialling /\ stack \in Seq(Frame)
  BY <1>1, TopMode
<1>3. Connecting /\ ~IsReady /\ Open = {} /\ Len(stack) = 1
  BY <1>2 DEF Dialling, Connecting
<1>4. Tail(stack) = <<>>
  BY <1>1, <1>2, <1>3, Popped
<1> QED
  BY <1>1, <1>2, <1>3, <1>4

\* The network changes a socket and nothing else.
LEMMA NetworkFacts ==
    ASSUME Network
    PROVE  /\ Idle
           /\ UNCHANGED <<phase, curr, rtimer, current, clients, subs, nextId, bits, conn, info,
                          ptimer, phandler, wbuf, rbuf, rpos, stack, fault, told, tried, halfway>>
<1>1. Idle /\ UNCHANGED netVars
  BY DEF Network, Establish, Refuse, Drain, AnswerConnect, RefuseConnect, ServerCloses,
         ServerResets, ServerSays
<1> QED
  BY <1>1 DEF netVars, ndVars, cdVars, ncVars, rVars, histVars

LEMMA SubsNext ==
    ASSUME TypeInv, ControlInv, SubsInv, [Next]_vars
    PROVE  SubsInv'
<1> USE DEF ndVars, cdVars, ncVars
<1>1. CASE UNCHANGED vars
  BY <1>1, SubsSame DEF vars, IsReady
<1>2. CASE InitProcess \/ ExitProcess \/ ReconnectTimer \/ PingTimer \/ CallbackReturn \/ Terminated
  BY <1>2, SubsSame DEF InitProcess, ExitProcess, ReconnectTimer, PingTimer, CallbackReturn,
     Terminated, IsReady, vars
<1>3. CASE Connect
  <2>1. UNCHANGED <<subs, nextId>> /\ At("connect")
    BY <1>3 DEF Connect, ConnectGiveUp, ConnectDeclined, ConnectInProgress, ConnectAtOnce, Attempt
  <2> QED
    BY <2>1, SubsSame, DiallingFacts
<1>4. CASE Flush
  <2>1. UNCHANGED <<subs, nextId, current>> /\ (CheckConnected \/ bits' = bits)
    BY <1>4 DEF Flush, FlushNothing, FlushError, FlushSome, FlushAgain
  <2> QED
    BY <2>1, SubsSame, ReadyStays DEF IsReady
<1>5. CASE Recv
  <2>1. UNCHANGED <<subs, nextId, current>> /\ (CheckConnected \/ bits' = bits)
    BY <1>5 DEF Recv, RecvData, RecvAgain, RecvEnd
  <2> QED
    BY <2>1, SubsSame, ReadyStays DEF IsReady
<1>6. CASE Dispatch /\ ~ProcessMsg
  <2>1. UNCHANGED <<subs, nextId, current>> /\ (bits' = Ready \/ bits' = bits)
    BY <1>6 DEF Dispatch, ProcessEnd, ProcessSkip, ProcessOk, ProcessInfo, ProcessPing, ProcessPong,
       ProcessErr, ProcessBad, ReadyLoop
  <2> QED
    BY <2>1, SubsSame DEF IsReady
<1>7. CASE ProcessMsg
  <2>1. subs' \subseteq subs /\ UNCHANGED <<nextId, current, bits>>
    BY <1>7 DEF ProcessMsg, GetSubscription, RemoveSubscription
  <2> QED
    BY <2>1 DEF SubsInv, IsReady
<1>8. CASE CloseSocket \/ CloseNotify
  BY <1>8, SubsSame DEF CloseSocket, CloseNotify, IsReady
<1>9. CASE CloseFinish
  BY <1>9 DEF CloseFinish, SubsInv
<1>10. CASE Client
  <2>1. CASE IsReady
    <3>1. UNCHANGED <<current, bits>>
      BY <1>10 DEF Client, Publish, Subscribe, Unsubscribe, AddClient
    <3> QED
      BY <2>1, <3>1 DEF SubsInv, IsReady
  <2>2. CASE ~IsReady
    BY <1>10, <2>2, SubsSame DEF Client, Publish, Subscribe, Unsubscribe, AddClient
  <2> QED
    BY <2>1, <2>2
<1>11. CASE \E c \in Socks : ReadEvent(c) \/ WriteTimeout(c)
  BY <1>11, SubsSame DEF ReadEvent, WriteTimeout, IsReady
<1>12. CASE \E c \in Socks : WriteEvent(c)
  BY <1>12, SubsSame, ReadyStays DEF WriteEvent
<1>13. CASE Network
  BY <1>13, NetworkFacts, SubsSame DEF IsReady
<1> QED
  BY <1>1, <1>2, <1>3, <1>4, <1>5, <1>6, <1>7, <1>8, <1>9, <1>10, <1>11, <1>12, <1>13
     DEF Next, Step, Timer, Event, TearDown

-----------------------------------------------------------------------------
(* The handshake *)

LEMMA HandshakeSame ==
    ASSUME HandshakeInv, UNCHANGED <<bits, wbuf, rbuf>>,
           \A c \in Socks : sock'[c].st # "free" =>
              /\ sock[c].st # "free" /\ (sock'[c].st = "syn" => sock[c].st = "syn")
              /\ sock'[c].peer = sock[c].peer /\ sock'[c].inq = sock[c].inq
    PROVE  HandshakeInv'
BY DEF HandshakeInv, Handshake, Answered, Open

\* The one socket there is
LEMMA HandshakeOf ==
    ASSUME HandshakeInv, Live
    PROVE  /\ sock[conn].st = "syn" => bits = {}
           /\ "SENT" \notin bits => wbuf = <<>> /\ sock[conn].peer = "info"
           /\ \A k \in 1 .. Len(wbuf) : wbuf[k] = "CONNECT" => k = 1 /\ sock[conn].peer = "info"
           /\ "OKAYED" \in bits \/ Answered(rbuf) \/ Answered(sock[conn].inq) =>
                 sock[conn].peer = "ponged"
BY DEF HandshakeInv, Handshake, Live, Open

LEMMA HandshakeOn ==
    ASSUME \A c \in Socks : sock'[c].st # "free" =>
              /\ sock'[c].st = "syn" => bits' = {}
              /\ "SENT" \notin bits' => wbuf' = <<>> /\ sock'[c].peer = "info"
              /\ \A k \in 1 .. Len(wbuf') :
                    wbuf'[k] = "CONNECT" => k = 1 /\ sock'[c].peer = "info"
              /\ "OKAYED" \in bits' \/ Answered(rbuf') \/ Answered(sock'[c].inq) =>
                    sock'[c].peer = "ponged"
    PROVE  HandshakeInv'
BY DEF HandshakeInv, Handshake, Open, Answered

\* Nothing is said, or only the greeting is.
LEMMA NothingAnswered ==
    ~Answered(<<>>) /\ \A srv : \A m \in Greetings(srv) : ~Answered(<<m>>)
<1>1. Len(<<>>) = 0
  OBVIOUS
<1>2. ASSUME NEW srv, NEW m \in Greetings(srv) PROVE ~Answered(<<m>>)
  <2>1. Len(<<m>>) = 1 /\ <<m>>[1] = m /\ m \in {"INFO", "INFO-"}
    BY GreetingTypes
  <2> QED
    BY <2>1 DEF Answered
<1> QED
  BY <1>1, <1>2 DEF Answered

LEMMA AppendAnswered ==
    ASSUME NEW q \in Seq(Ins), NEW m \in Ins, Answered(Append(q, m))
    PROVE  Answered(q) \/ m \in {"PING", "PONG", "MSG"}
<1>1. /\ Len(q) \in Nat /\ Len(Append(q, m)) = Len(q) + 1
      /\ \A i \in 1 .. Len(q) : Append(q, m)[i] = q[i]
      /\ Append(q, m)[Len(q) + 1] = m
  BY AppendProperties, LenProperties
<1>2. PICK k \in 1 .. Len(q) + 1 : Append(q, m)[k] \in {"PING", "PONG", "MSG"}
  BY <1>1 DEF Answered
<1>3. CASE k = Len(q) + 1
  BY <1>1, <1>2, <1>3
<1>4. CASE k # Len(q) + 1
  <2>1. k \in 1 .. Len(q)
    BY <1>1, <1>4
  <2> QED
    BY <1>1, <1>2, <2>1 DEF Answered
<1> QED
  BY <1>3, <1>4

LEMMA ReceivedAnswered ==
    ASSUME NEW a \in Seq(Ins), NEW q \in Seq(Ins), NEW k \in 0 .. Len(q)
    PROVE  /\ Answered(a \o SubSeq(q, 1, k)) => Answered(a) \/ Answered(q)
           /\ Answered(SubSeq(q, k + 1, Len(q))) => Answered(q)
<1>1. Len(a) \in Nat /\ Len(q) \in Nat /\ k \in Nat /\ k <= Len(q)
  BY LenProperties
<1>2. \A i \in 1 .. Len(q) : q[i] \in Ins
  BY <1>1, ElementOfSeq
<1> DEFINE u == SubSeq(q, 1, k)
           t == SubSeq(q, k + 1, Len(q))
           b == a \o u
<1>3. u \in Seq(Ins) /\ Len(u) = k /\ \A i \in 1 .. k : u[i] = q[i]
  <2>1. 1 \in Int /\ k \in Int /\ \A i \in 1 .. k : q[i] \in Ins
    BY <1>1, <1>2
  <2>2. /\ u \in Seq(Ins) /\ Len(u) = IF 1 <= k THEN k - 1 + 1 ELSE 0
        /\ \A i \in 1 .. k - 1 + 1 : u[i] = q[1 + i - 1]
    BY <2>1, SubSeqProperties
  <2>3. Len(u) = k
    BY <1>1, <2>2
  <2>4. ASSUME NEW i \in 1 .. k PROVE u[i] = q[i]
    BY <1>1, <2>2
  <2> QED
    BY <2>2, <2>3, <2>4
<1>4. Len(t) = Len(q) - k /\ \A i \in 1 .. Len(q) - k : t[i] = q[i + k]
  <2>1. k + 1 \in Int /\ Len(q) \in Int /\ \A i \in k + 1 .. Len(q) : q[i] \in Ins
    BY <1>1, <1>2
  <2>2. /\ Len(t) = IF k + 1 <= Len(q) THEN Len(q) - (k + 1) + 1 ELSE 0
        /\ \A i \in 1 .. Len(q) - (k + 1) + 1 : t[i] = q[(k + 1) + i - 1]
    BY <2>1, SubSeqProperties
  <2>3. Len(t) = Len(q) - k
    BY <1>1, <2>2
  <2>4. ASSUME NEW i \in 1 .. Len(q) - k PROVE t[i] = q[i + k]
    BY <1>1, <2>2
  <2> QED
    BY <2>3, <2>4
<1>5. Len(b) = Len(a) + k /\ \A i \in 1 .. Len(a) + k : b[i] = IF i <= Len(a) THEN a[i] ELSE u[i - Len(a)]
  BY <1>1, <1>3, ConcatProperties
<1> HIDE DEF u, t, b
<1>6. ASSUME Answered(b) PROVE Answered(a) \/ Answered(q)
  <2>1. PICK i \in 1 .. Len(a) + k : b[i] \in {"PING", "PONG", "MSG"}
    BY <1>5, <1>6 DEF Answered
  <2>2. CASE i <= Len(a)
    <3>1. i \in 1 .. Len(a) /\ b[i] = a[i]
      BY <1>1, <1>5, <2>2
    <3> QED
      BY <2>1, <3>1 DEF Answered
  <2>3. CASE i > Len(a)
    <3>1. i - Len(a) \in 1 .. k /\ i - Len(a) \in 1 .. Len(q)
      BY <1>1, <2>3
    <3>2. b[i] = q[i - Len(a)]
      BY <1>1, <1>3, <1>5, <2>3, <3>1
    <3> QED
      BY <2>1, <3>1, <3>2 DEF Answered
  <2> QED
    BY <1>1, <2>2, <2>3
<1>7. ASSUME Answered(t) PROVE Answered(q)
  <2>1. PICK i \in 1 .. Len(q) - k : t[i] \in {"PING", "PONG", "MSG"}
    BY <1>4, <1>7 DEF Answered
  <2>2. i + k \in 1 .. Len(q) /\ t[i] = q[i + k]
    BY <1>1, <1>4
  <2> QED
    BY <2>1, <2>2 DEF Answered
<1> QED
  BY <1>6, <1>7 DEF u, t, b

LEMMA HandshakeConnect ==
    ASSUME TypeInv, ControlInv, HandshakeInv, Connect
    PROVE  HandshakeInv'
<1> USE DEF ndVars, cdVars, ncVars, rVars, histVars
<1>0. At("connect")
  BY DEF Connect, ConnectGiveUp, ConnectDeclined, ConnectInProgress, ConnectAtOnce, Attempt
<1>1. /\ sock \in [Socks -> Sock]
      /\ \A c \in Socks : sock[c].st = "free"
  BY <1>0, DiallingFacts DEF Open, TypeInv, TypeOK
<1>2. CASE ConnectGiveUp
  BY <1>2, HandshakeSame DEF ConnectGiveUp
<1>3. CASE ConnectDeclined
  BY <1>1, <1>3, HandshakeOn DEF ConnectDeclined
<1>4. CASE ConnectInProgress
  <2>1. PICK c \in Socks :
          sock' = [sock EXCEPT ![c] =
                     [FreeSock EXCEPT !.st = "syn", !.wtimer = TRUE, !.srv = NextIndex]]
    BY <1>4 DEF ConnectInProgress, SetSock
  <2>2. sock'[c].peer = "info" /\ sock'[c].inq = <<>> /\ \A d \in Socks : d # c => sock'[d] = sock[d]
    BY <1>1, <2>1 DEF FreeSock
  <2>3. bits' = {} /\ wbuf' = <<>> /\ rbuf' = <<>> /\ Len(<<>>) = 0
    BY <1>4 DEF ConnectInProgress, Attempt
  <2>4. ~Answered(<<>>)
    BY NothingAnswered
  <2> QED
    BY <1>1, <2>2, <2>3, <2>4, HandshakeOn
<1>5. CASE ConnectAtOnce
  <2>1. PICK c \in Socks, m \in Greetings(NextIndex) :
          sock' = [sock EXCEPT ![c] =
                     [FreeSock EXCEPT !.st = "est", !.wev = TRUE,
                                      !.inq = <<m>>, !.srv = NextIndex]]
    BY <1>5 DEF ConnectAtOnce, SetSock
  <2>2. /\ sock'[c].peer = "info" /\ sock'[c].inq = <<m>> /\ sock'[c].st = "est"
        /\ \A d \in Socks : d # c => sock'[d] = sock[d]
    BY <1>1, <2>1 DEF FreeSock
  <2>3. bits' = {"SENT"} /\ wbuf' = <<"CONNECT">> /\ rbuf' = <<>> /\ Len(wbuf') = 1
    BY <1>5 DEF ConnectAtOnce, Attempt
  <2>4. ~Answered(<<>>) /\ ~Answered(<<m>>)
    BY NothingAnswered
  <2> QED
    BY <1>1, <2>2, <2>3, <2>4, HandshakeOn
<1> QED
  BY <1>2, <1>3, <1>4, <1>5 DEF Connect

\* A function that works on the open connection
LEMMA WorkFacts ==
    ASSUME TypeInv, ControlInv, Running, stack # <<>>,
           Top.op \in {"flush", "recv", "process", "ready"}
    PROVE  /\ Working /\ Live /\ conn \in Socks /\ sock[conn] \in Sock /\ sock[conn].st # "free"
           /\ sock \in [Socks -> Sock] /\ \A c \in Socks : sock[c].st # "free" => c = conn
           /\ stack \in Seq(Frame) /\ Top = stack[1] /\ Len(stack) \in Nat \ {0}
<1>1. Working /\ stack \in Seq(Frame) /\ Top = stack[1] /\ Len(stack) \in Nat \ {0}
  BY TopMode
<1>2. Live /\ conn \in Socks /\ Open = {conn} /\ sock \in [Socks -> Sock]
  BY <1>1 DEF Working, Live, TypeInv, TypeOK
<1>3. sock[conn].st # "free" /\ \A c \in Socks : sock[c].st # "free" => c = conn
  BY <1>2 DEF Open
<1> QED
  BY <1>1, <1>2, <1>3

LEMMA HandshakeFlush ==
    ASSUME TypeInv, ControlInv, HandshakeInv, Flush
    PROVE  HandshakeInv'
<1> USE DEF ndVars, cdVars, ncVars, rVars, histVars
<1>0. At("flush")
  BY DEF Flush, FlushNothing, FlushError, FlushSome, FlushAgain
<1>1. /\ Live /\ conn \in Socks /\ sock[conn] \in Sock /\ sock[conn].st # "free"
      /\ sock \in [Socks -> Sock] /\ \A c \in Socks : sock[c].st # "free" => c = conn
  BY <1>0, WorkFacts DEF At
<1>2. CASE FlushNothing \/ FlushError
  BY <1>2, HandshakeSame DEF FlushNothing, FlushError
<1>3. CASE FlushAgain
  <2>1. sock' = [sock EXCEPT ![conn] = [sock[conn] EXCEPT !.wtimer = TRUE]]
        /\ UNCHANGED <<bits, wbuf, rbuf>>
    BY <1>3 DEF FlushAgain, SetSock
  <2>2. /\ sock'[conn].st = sock[conn].st /\ sock'[conn].peer = sock[conn].peer
        /\ sock'[conn].inq = sock[conn].inq /\ \A d \in Socks : d # conn => sock'[d] = sock[d]
    BY <1>1, <2>1 DEF Sock
  <2> QED
    BY <2>1, <2>2, HandshakeSame
<1>4. CASE FlushSome
  <2>1. PICK k \in 0 .. Len(wbuf) :
          /\ wbuf' = SubSeq(wbuf, k + 1, Len(wbuf))
          /\ sock' = [sock EXCEPT ![conn] = [sock[conn] EXCEPT
                !.full = k < Len(wbuf),
                !.peer = IF k > 0 /\ wbuf[1] = "CONNECT" THEN "conn" ELSE @]]
    BY <1>4 DEF FlushSome, SetSock
  <2>2. /\ wbuf # <<>> /\ sock[conn].st = "est" /\ bits' = bits \cup {"BYTES"} /\ rbuf' = rbuf
        /\ wbuf \in Seq(Outs) /\ Len(wbuf) \in Nat \ {0}
    BY <1>4, EmptySeq DEF FlushSome, CheckConnected, TypeInv, TypeOK
  <2>3. /\ sock'[conn].st = "est" /\ sock'[conn].inq = sock[conn].inq
        /\ sock'[conn].peer = IF k > 0 /\ wbuf[1] = "CONNECT" THEN "conn" ELSE sock[conn].peer
        /\ \A d \in Socks : d # conn => sock'[d] = sock[d]
    BY <1>1, <2>1, <2>2 DEF Sock
  <2>4. "SENT" \in bits
    BY <1>1, <2>2, HandshakeOf
  <2>5. /\ Len(wbuf') = Len(wbuf) - k
        /\ \A i \in 1 .. Len(wbuf) - k : wbuf'[i] = wbuf[i + k]
    <3>1. k + 1 \in Int /\ Len(wbuf) \in Int /\ k \in Nat /\ k <= Len(wbuf)
          /\ \A i \in k + 1 .. Len(wbuf) : wbuf[i] \in Outs
      BY <2>2, ElementOfSeq
    <3>2. /\ Len(wbuf') = IF k + 1 <= Len(wbuf) THEN Len(wbuf) - (k + 1) + 1 ELSE 0
          /\ \A i \in 1 .. Len(wbuf) - (k + 1) + 1 : wbuf'[i] = wbuf[(k + 1) + i - 1]
      BY <2>1, <3>1, SubSeqProperties
    <3>3. Len(wbuf') = Len(wbuf) - k
      BY <2>2, <3>1, <3>2
    <3>4. ASSUME NEW i \in 1 .. Len(wbuf) - k PROVE wbuf'[i] = wbuf[i + k]
      BY <2>2, <3>1, <3>2
    <3> QED
      BY <3>3, <3>4
  <2>6. ASSUME NEW i \in 1 .. Len(wbuf'), wbuf'[i] = "CONNECT"
        PROVE  i = 1 /\ sock'[conn].peer = "info"
    <3>1. i + k \in 1 .. Len(wbuf) /\ wbuf[i + k] = "CONNECT"
      BY <2>2, <2>5, <2>6
    <3>2. i + k = 1 /\ sock[conn].peer = "info"
      BY <1>1, <3>1, HandshakeOf
    <3>3. i = 1 /\ k = 0
      BY <3>2, <2>2, <2>5
    <3> QED
      BY <2>3, <3>2, <3>3
  <2>7. "OKAYED" \in bits \/ Answered(rbuf) \/ Answered(sock[conn].inq) =>
           sock'[conn].peer = "ponged"
    <3>1. 1 \in 1 .. Len(wbuf)
      BY <2>2
    <3> QED
      BY <1>1, <2>3, <3>1, HandshakeOf
  <2> QED
    BY <1>1, <2>2, <2>3, <2>4, <2>6, <2>7, HandshakeOn
<1> QED
  BY <1>2, <1>3, <1>4 DEF Flush

LEMMA HandshakeEvent ==
    ASSUME TypeInv, ControlInv, HandshakeInv,
           PingTimer \/ \E c \in Socks : ReadEvent(c) \/ WriteEvent(c) \/ WriteTimeout(c)
    PROVE  HandshakeInv'
<1> USE DEF ndVars, cdVars, ncVars, rVars, histVars
<1>1. CASE PingTimer \/ \E c \in Socks : ReadEvent(c)
  BY <1>1, HandshakeSame DEF PingTimer, ReadEvent
<1>2. ASSUME NEW c \in Socks, WriteTimeout(c) PROVE HandshakeInv'
  <2>1. sock' = [sock EXCEPT ![c] = [sock[c] EXCEPT !.wtimer = FALSE]] /\ UNCHANGED <<bits, wbuf, rbuf>>
    BY <1>2 DEF WriteTimeout, SetSock
  <2>2. sock \in [Socks -> Sock] /\ sock[c] \in Sock
    BY DEF TypeInv, TypeOK
  <2>3. /\ sock'[c].st = sock[c].st /\ sock'[c].peer = sock[c].peer /\ sock'[c].inq = sock[c].inq
        /\ \A d \in Socks : d # c => sock'[d] = sock[d]
    BY <2>1, <2>2 DEF Sock
  <2> QED
    BY <2>1, <2>3, HandshakeSame
<1>3. ASSUME NEW c \in Socks, WriteEvent(c) PROVE HandshakeInv'
  <2>1. /\ Idle /\ sock[c].wev /\ bits' = InitBits /\ wbuf' = InitWbuf /\ rbuf' = rbuf
        /\ sock' = [sock EXCEPT ![c] = [sock[c] EXCEPT !.wev = FALSE, !.wtimer = FALSE]]
    BY <1>3 DEF WriteEvent, SetSock
  <2>2. sock[c].st # "free" /\ sock[c].st # "syn"
    BY <2>1, Marked
  <2>3. Live /\ conn = c
    BY <2>1, <2>2, IdleMode DEF Live, Open
  <2>4. sock \in [Socks -> Sock] /\ sock[c] \in Sock /\ wbuf \in Seq(Outs)
    BY DEF TypeInv, TypeOK
  <2>5. /\ sock'[c].st = sock[c].st /\ sock'[c].peer = sock[c].peer /\ sock'[c].inq = sock[c].inq
        /\ \A d \in Socks : d # c => sock'[d] = sock[d] /\ sock[d].st = "free"
    BY <2>1, <2>3, <2>4 DEF Sock, Live, Open
  <2>6. ASSUME NEW k \in 1 .. Len(wbuf'), wbuf'[k] = "CONNECT"
        PROVE  k = 1 /\ sock[c].peer = "info"
    <3>1. CASE "SENT" \in bits
      BY <2>1, <2>3, <2>6, <3>1, HandshakeOf DEF InitWbuf
    <3>2. CASE "SENT" \notin bits
      <4>1. wbuf = <<>> /\ sock[c].peer = "info" /\ wbuf' = Append(wbuf, "CONNECT")
        BY <2>1, <2>3, <3>2, HandshakeOf DEF InitWbuf
      <4>2. Len(wbuf') = 1
        BY <4>1
      <4> QED
        BY <2>6, <4>1, <4>2
    <3> QED
      BY <3>1, <3>2
  <2>7. "SENT" \in bits' /\ ("OKAYED" \in bits' => "OKAYED" \in bits)
    BY <2>1 DEF InitBits
  <2> QED
    BY <2>1, <2>2, <2>3, <2>5, <2>6, <2>7, HandshakeOf, HandshakeOn
<1> QED
  BY <1>1, <1>2, <1>3

LEMMA HandshakeRecv ==
    ASSUME TypeInv, ControlInv, HandshakeInv, Recv
    PROVE  HandshakeInv'
<1> USE DEF ndVars, cdVars, ncVars, rVars, histVars
<1>1. CASE RecvAgain \/ RecvEnd
  BY <1>1, HandshakeSame DEF RecvAgain, RecvEnd
<1>2. CASE RecvData
  <2>0. Running /\ stack # <<>> /\ Top.op = "recv"
    BY <1>2 DEF RecvData, At
  <2>1. /\ Live /\ conn \in Socks /\ sock[conn] \in Sock /\ Top = stack[1] /\ Len(stack) \in Nat \ {0}
        /\ sock \in [Socks -> Sock] /\ \A c \in Socks : sock[c].st # "free" => c = conn
    BY <2>0, WorkFacts
  <2>2. Top.c = conn /\ sock[conn].st = "est"
    BY <2>0, <2>1 DEF ControlInv, Reader, Reading
  <2>3. /\ rbuf \in Seq(Ins) /\ sock[conn].inq \in Seq(Ins) /\ Len(sock[conn].inq) \in Nat
    BY <2>1, SockUpdates, LenProperties DEF TypeInv, TypeOK
  <2>4. PICK k \in (IF "BYTES" \in bits THEN 1 ELSE 0) .. Len(sock[conn].inq) :
          /\ rbuf' = rbuf \o SubSeq(sock[conn].inq, 1, k)
          /\ sock' = [sock EXCEPT ![conn] = [sock[conn] EXCEPT !.inq = SubSeq(@, k + 1, Len(@))]]
    BY <1>2, <2>2 DEF RecvData, SetSock
  <2>5. k \in 0 .. Len(sock[conn].inq)
    BY <2>3
  <2>6. /\ sock'[conn].st = "est" /\ sock'[conn].peer = sock[conn].peer
        /\ sock'[conn].inq = SubSeq(sock[conn].inq, k + 1, Len(sock[conn].inq))
        /\ \A d \in Socks : d # conn => sock'[d] = sock[d]
    BY <2>1, <2>2, <2>4 DEF Sock
  <2>7. Answered(rbuf') \/ Answered(sock'[conn].inq) => Answered(rbuf) \/ Answered(sock[conn].inq)
    BY <2>3, <2>4, <2>5, <2>6, ReceivedAnswered
  <2>8. wbuf' = wbuf /\ bits' = bits \cup {"BYTES"}
    BY <1>2 DEF RecvData, CheckConnected
  <2> QED
    BY <2>1, <2>6, <2>7, <2>8, HandshakeOf, HandshakeOn
<1> QED
  BY <1>1, <1>2 DEF Recv

LEMMA HandshakeDispatch ==
    ASSUME TypeInv, ControlInv, HandshakeInv, Dispatch
    PROVE  HandshakeInv'
<1> USE DEF ndVars, cdVars, ncVars, rVars, histVars
<1>1. CASE ProcessSkip \/ ProcessOk \/ ProcessInfo \/ ProcessErr \/ ProcessBad \/ ProcessMsg \/ ReadyLoop
  BY <1>1, HandshakeSame DEF ProcessSkip, ProcessOk, ProcessInfo, ProcessErr, ProcessBad,
     ProcessMsg, ReadyLoop
<1>2. CASE ProcessEnd
  <2>1. UNCHANGED <<bits, wbuf, sock>> /\ rbuf' = <<>>
    BY <1>2 DEF ProcessEnd
  <2>2. At("process")
    BY <1>2 DEF ProcessEnd
  <2>3. Live /\ \A c \in Socks : sock[c].st # "free" => c = conn
    BY <2>2, WorkFacts DEF At
  <2> QED
    BY <2>1, <2>3, HandshakeOf, HandshakeOn, NothingAnswered
<1>3. ASSUME NEW m \in {"PING", "PONG"}, Parsed(m)
      PROVE  /\ Live /\ \A c \in Socks : sock[c].st # "free" => c = conn
             /\ sock[conn].peer = "ponged" /\ "SENT" \in bits /\ sock[conn].st = "est"
  <2>1. At("process") /\ rpos < Len(rbuf) /\ rbuf[rpos + 1] = m
    BY <1>3 DEF Parsed
  <2>2. Live /\ (\A c \in Socks : sock[c].st # "free" => c = conn) /\ sock[conn].st = "est"
    BY <2>1, WorkFacts, ProcessFacts DEF At
  <2>3. Answered(rbuf)
    <3>1. rpos + 1 \in 1 .. Len(rbuf)
      BY <2>1, ProcessFacts
    <3> QED
      BY <2>1, <3>1 DEF Answered
  <2> QED
    BY <2>2, <2>3, HandshakeOf
<1>4. CASE ProcessPing
  <2>1. /\ UNCHANGED <<bits, rbuf, sock>> /\ (wbuf' = wbuf \/ wbuf' = Append(wbuf, "PONG"))
        /\ Parsed("PING") /\ wbuf \in Seq(Outs) /\ Len(wbuf) \in Nat
    BY <1>4, LenProperties DEF ProcessPing, TypeInv, TypeOK
  <2>2. ASSUME NEW k \in 1 .. Len(wbuf'), wbuf'[k] = "CONNECT"
        PROVE  k \in 1 .. Len(wbuf) /\ wbuf[k] = "CONNECT"
    <3>1. CASE wbuf' = wbuf
      BY <2>2, <3>1
    <3>2. CASE wbuf' = Append(wbuf, "PONG")
      <4>1. /\ Len(wbuf') = Len(wbuf) + 1 /\ wbuf'[Len(wbuf) + 1] = "PONG"
            /\ \A i \in 1 .. Len(wbuf) : wbuf'[i] = wbuf[i]
        BY <2>1, <3>2
      <4>2. k # Len(wbuf) + 1
        BY <2>2, <4>1
      <4> QED
        BY <2>1, <2>2, <4>1, <4>2
    <3> QED
      BY <2>1, <3>1, <3>2
  <2> QED
    BY <1>3, <2>1, <2>2, HandshakeOf, HandshakeOn
<1>5. CASE ProcessPong
  <2>1. UNCHANGED <<wbuf, rbuf, sock>> /\ (bits' = bits \/ bits' = Ready) /\ Parsed("PONG")
    BY <1>5 DEF ProcessPong
  <2> QED
    BY <1>3, <2>1, HandshakeOf, HandshakeOn DEF Ready
<1> QED
  BY <1>1, <1>2, <1>4, <1>5 DEF Dispatch

\* While a connection is torn down no other one is open, and once its socket
\* is closed none is.
LEMMA TornDown ==
    ASSUME TypeInv, ControlInv, TearDown
    PROVE  /\ \A c \in Socks : sock'[c].st = "free"
           /\ conn' = conn /\ conn \in Socks
           /\ CloseNotify \/ CloseFinish => UNCHANGED sock
<1> USE DEF ndVars, ncVars
<1>1. /\ Running /\ stack # <<>> /\ Top.op \in {"close", "notify", "finish"}
      /\ Top.op = "close" <=> CloseSocket
  BY DEF TearDown, CloseSocket, CloseNotify, CloseFinish, At
<1>2. /\ conn \in Socks /\ Open \subseteq {conn} /\ (Top.op # "close" => Open = {})
  BY <1>1, TearingFacts DEF Live, Waiting, Closing
<1>3. conn' = conn /\ (CloseNotify \/ CloseFinish => UNCHANGED sock)
  BY DEF TearDown, CloseSocket, CloseNotify, CloseFinish
<1>4. CASE CloseSocket
  <2>1. FreeSock.st = "free"
    BY DEF FreeSock
  <2>2. \A c \in Socks : sock'[c] = IF c = conn THEN FreeSock ELSE sock[c]
    BY <1>4 DEF CloseSocket
  <2>3. \A c \in Socks : sock[c].st # "free" => c = conn
    BY <1>2 DEF Open
  <2> QED
    BY <1>2, <1>3, <2>1, <2>2, <2>3
<1>5. CASE ~CloseSocket
  BY <1>1, <1>2, <1>3, <1>5 DEF TearDown, Open
<1> QED
  BY <1>2, <1>3, <1>4, <1>5

\* What a client's call writes
LEMMA ClientWrites ==
    ASSUME TypeInv, Client
    PROVE  /\ Caller
           /\ UNCHANGED <<phase, curr, rtimer, current, bits, conn, info, ptimer, phandler,
                          rbuf, rpos, sock, fault, tried>>
           /\ ~IsReady => UNCHANGED <<wbuf, stack, told, subs, nextId, halfway>>
           /\ \/ wbuf' = wbuf
              \/ \E m \in {"PUB", "PUB-", "SUB", "SUB-", "UNSUB"} : wbuf' = Append(wbuf, m)
           /\ Len(wbuf) \in Nat /\ wbuf \in Seq(Outs)
<1> USE DEF ndVars, cdVars, ncVars, rVars, histVars
<1>1. Len(wbuf) \in Nat /\ wbuf \in Seq(Outs)
  BY LenProperties DEF TypeInv, TypeOK
<1>2. CASE Publish
  BY <1>1, <1>2 DEF Publish
<1>3. CASE Subscribe
  BY <1>1, <1>3 DEF Subscribe
<1>4. CASE Unsubscribe
  BY <1>1, <1>4 DEF Unsubscribe
<1>5. CASE \E cl \in Clients : AddClient(cl)
  BY <1>1, <1>5 DEF AddClient
<1> QED
  BY <1>2, <1>3, <1>4, <1>5 DEF Client

LEMMA HandshakeClient ==
    ASSUME TypeInv, ControlInv, GoodEnvironment, HandshakeInv, Client
    PROVE  HandshakeInv'
<1>1. CASE ~IsReady
  BY <1>1, ClientWrites, HandshakeSame
<1>2. CASE IsReady
  <2>1. Live /\ \A c \in Socks : sock[c].st # "free" => c = conn
    BY <1>2, ClientWrites, CallerFacts DEF Live, Open
  <2>2. "SENT" \in bits /\ UNCHANGED <<bits, rbuf, sock>>
    BY <1>2, ClientWrites DEF IsReady, Ready
  <2>3. ASSUME NEW k \in 1 .. Len(wbuf'), wbuf'[k] = "CONNECT"
        PROVE  k \in 1 .. Len(wbuf) /\ wbuf[k] = "CONNECT"
    <3>1. CASE wbuf' = wbuf
      BY <2>3, <3>1
    <3>2. ASSUME NEW m \in {"PUB", "PUB-", "SUB", "SUB-", "UNSUB"}, wbuf' = Append(wbuf, m)
          PROVE  k \in 1 .. Len(wbuf) /\ wbuf[k] = "CONNECT"
      <4>1. /\ Len(wbuf') = Len(wbuf) + 1 /\ wbuf'[Len(wbuf) + 1] = m
            /\ \A i \in 1 .. Len(wbuf) : wbuf'[i] = wbuf[i]
        BY <3>2, ClientWrites DEF Outs
      <4>2. k # Len(wbuf) + 1
        BY <2>3, <4>1
      <4> QED
        BY <2>3, <4>1, <4>2, ClientWrites
    <3> QED
      BY <3>1, <3>2, ClientWrites
  <2> QED
    BY <2>1, <2>2, <2>3, HandshakeOf, HandshakeOn
<1> QED
  BY <1>1, <1>2

LEMMA HandshakeNetwork ==
    ASSUME TypeInv, ControlInv, HandshakeInv, Network
    PROVE  HandshakeInv'
<1>1. PICK c \in Socks :
        \/ Establish(c) \/ Refuse(c) \/ Drain(c) \/ AnswerConnect(c) \/ RefuseConnect(c)
        \/ ServerCloses(c) \/ ServerResets(c) \/ \E m \in Chat : ServerSays(c, m)
  BY DEF Network
<1>2. Idle /\ UNCHANGED <<bits, wbuf, rbuf, conn>>
  BY NetworkFacts
<1>3. sock[c].st # "free"
  BY <1>1, Marked
     DEF Establish, Refuse, Drain, AnswerConnect, RefuseConnect, ServerCloses, ServerResets,
         ServerSays
<1>4. /\ Live /\ conn = c /\ \A d \in Socks : sock[d].st # "free" => d = c
  BY <1>2, <1>3, IdleMode DEF Live, Open
<1>5. sock \in [Socks -> Sock] /\ sock[c] \in Sock /\ sock[c].inq \in Seq(Ins)
  BY SockUpdates DEF TypeInv, TypeOK
<1>6. ASSUME NEW r, r \in Sock, SetSock(c, r), r.peer = sock[c].peer,
             r.st = "syn" => sock[c].st = "syn", Answered(r.inq) => Answered(sock[c].inq)
      PROVE  HandshakeInv'
  <2>1. sock'[c] = r /\ \A d \in Socks : d # c => sock'[d] = sock[d]
    BY <1>5, <1>6 DEF SetSock
  <2> QED
    BY <1>2, <1>4, <1>6, <2>1, HandshakeOf, HandshakeOn
<1>7. CASE Establish(c)
  <2>0. PICK m \in Greetings(sock[c].srv) :
          SetSock(c, [sock[c] EXCEPT !.st = "est", !.wev = TRUE, !.inq = <<m>>])
    BY <1>7 DEF Establish
  <2> DEFINE r == [sock[c] EXCEPT !.st = "est", !.wev = TRUE, !.inq = <<m>>]
  <2>1. SetSock(c, r)
    BY <2>0
  <2>2. <<m>> \in Seq(Ins)
    BY GreetingTypes
  <2>3. r \in Sock /\ r.peer = sock[c].peer /\ r.st = "est" /\ r.inq = <<m>>
    BY <1>5, <2>2 DEF Sock
  <2> QED
    BY <1>6, <2>1, <2>3, NothingAnswered
<1>8. CASE Refuse(c) \/ Drain(c) \/ ServerCloses(c)
  <2>1. PICK r \in {[sock[c] EXCEPT !.st = "err", !.wev = TRUE],
                    [sock[c] EXCEPT !.full = FALSE, !.wev = TRUE],
                    [sock[c] EXCEPT !.fin = TRUE]} : SetSock(c, r)
    BY <1>8 DEF Refuse, Drain, ServerCloses
  <2>2. /\ r \in Sock /\ r.peer = sock[c].peer /\ r.inq = sock[c].inq
        /\ r.st = "err" \/ r.st = sock[c].st
    BY <1>5, <2>1 DEF Sock
  <2> QED
    BY <1>6, <2>1, <2>2
<1>9. ASSUME NEW m \in Chat, ServerSays(c, m) PROVE HandshakeInv'
  <2>1. /\ SetSock(c, [sock[c] EXCEPT !.inq = Append(@, m)]) /\ m \in Ins
        /\ m \in {"PING", "PONG", "MSG"} => sock[c].peer = "ponged"
        /\ sock[c].st = "est"
    BY <1>9 DEF ServerSays, Ins
  <2>2. /\ sock'[c].inq = Append(sock[c].inq, m) /\ sock'[c].peer = sock[c].peer
        /\ sock'[c].st = "est" /\ \A d \in Socks : d # c => sock'[d] = sock[d]
    BY <1>5, <2>1 DEF SetSock, Sock
  <2>3. Answered(sock'[c].inq) => Answered(sock[c].inq) \/ m \in {"PING", "PONG", "MSG"}
    BY <1>5, <2>1, <2>2, AppendAnswered
  <2> QED
    BY <1>2, <1>4, <2>1, <2>2, <2>3, HandshakeOf, HandshakeOn
<1>10. CASE AnswerConnect(c) \/ RefuseConnect(c)
  <2>1. PICK p \in {"ponged", "refused"}, m \in {"PONG", "ERR"} :
          /\ SetSock(c, [sock[c] EXCEPT !.peer = p, !.inq = Append(@, m)])
          /\ sock[c].peer = "conn" /\ sock[c].st = "est"
          /\ m = "PONG" => p = "ponged"
    BY <1>10 DEF AnswerConnect, RefuseConnect
  <2>2. /\ sock'[c].inq = Append(sock[c].inq, m) /\ sock'[c].peer = p
        /\ sock'[c].st = "est" /\ \A d \in Socks : d # c => sock'[d] = sock[d]
    BY <1>5, <2>1 DEF SetSock, Sock
  <2>3. m \in Ins
    BY DEF Ins, Chat
  <2>4. Answered(sock'[c].inq) => Answered(sock[c].inq) \/ m = "PONG"
    BY <1>5, <2>2, <2>3, AppendAnswered
  <2> QED
    BY <1>2, <1>4, <2>1, <2>2, <2>4, HandshakeOf, HandshakeOn
<1>11. CASE ServerResets(c)
  <2> DEFINE r == [sock[c] EXCEPT !.st = "err", !.wev = TRUE, !.full = FALSE, !.inq = <<>>]
  <2>1. SetSock(c, r)
    BY <1>11 DEF ServerResets
  <2>2. r \in Sock /\ r.peer = sock[c].peer /\ r.st = "err" /\ r.inq = <<>>
    BY <1>5, EmptySeq DEF Sock
  <2> QED
    BY <1>6, <2>1, <2>2, NothingAnswered
<1> QED
  BY <1>1, <1>7, <1>8, <1>9, <1>10, <1>11

LEMMA HandshakeNext ==
    ASSUME TypeInv, ControlInv, GoodEnvironment, HandshakeInv, [Next]_vars
    PROVE  HandshakeInv'
<1> USE DEF ndVars, cdVars, ncVars, rVars, histVars
<1>1. CASE UNCHANGED vars \/ Terminated
  BY <1>1, HandshakeSame DEF vars, Terminated
<1>2. CASE InitProcess \/ ExitProcess \/ ReconnectTimer \/ CallbackReturn
  BY <1>2, HandshakeSame DEF InitProcess, ExitProcess, ReconnectTimer, CallbackReturn
<1>3. CASE TearDown
  BY <1>3, TornDown, HandshakeOn
<1> QED
  BY <1>1, <1>2, <1>3, HandshakeConnect, HandshakeFlush, HandshakeRecv, HandshakeDispatch,
     HandshakeClient, HandshakeEvent, HandshakeNetwork DEF Next, Step, Timer, Event

-----------------------------------------------------------------------------
(* The clients *)

\* Functions that are no loop over the clients come and go.
LEMMA LoopsSame ==
    ASSUME stack \in Seq(Frame),
           \/ stack' = stack
           \/ stack # <<>> /\ Top.op \notin LoopOps /\ stack' = Tail(stack)
           \/ \E f \in Frame :
                 /\ f.op \notin LoopOps
                 /\ \/ stack' = <<f>> \o stack
                    \/ stack # <<>> /\ Top.op \notin LoopOps /\ stack' = <<f>> \o Tail(stack)
                    \/ Loops(stack) = {} /\ stack' = <<f>>
           \/ \E f, g \in Frame :
                 /\ f.op \notin LoopOps /\ g.op \notin LoopOps
                 /\ \/ stack # <<>> /\ Top.op \notin LoopOps /\ stack' = <<f, g>> \o Tail(stack)
                    \/ Loops(stack) = {} /\ stack' = <<f, g>> \o <<>>
    PROVE  Loops(stack') = Loops(stack)
<1>0. stack # <<>> => Tail(stack) \in Seq(Frame)
  BY Popped
<1>1. stack # <<>> /\ Top.op \notin LoopOps => Loops(Tail(stack)) = Loops(stack)
  BY FramesPop DEF Top
<1>2. ASSUME NEW s \in Seq(Frame), NEW f \in Frame, f.op \notin LoopOps
      PROVE  Loops(<<f>> \o s) = Loops(s)
  BY <1>2, FramesPush
<1>3. ASSUME NEW s \in Seq(Frame), NEW f \in Frame, NEW g \in Frame,
             f.op \notin LoopOps, g.op \notin LoopOps
      PROVE  Loops(<<f, g>> \o s) = Loops(s)
  <2>1. <<g>> \o s \in Seq(Frame) /\ Loops(<<g>> \o s) = Loops(s)
    BY <1>3, FramesPush
  <2>2. Loops(<<f>> \o (<<g>> \o s)) = Loops(s)
    BY <1>3, <2>1, FramesPush
  <2> QED
    BY <2>2, FramesTwo
<1>4. ASSUME NEW f \in Frame, f.op \notin LoopOps PROVE Loops(<<f>>) = {}
  <2>1. Len(<<f>>) = 1 /\ <<f>>[1] = f
    OBVIOUS
  <2> QED
    BY <1>4, <2>1 DEF Loops
<1>5. Loops(<<>>) = {} /\ <<>> \in Seq(Frame)
  BY FramesEmpty, EmptySeq
<1>6. CASE stack' = stack
  BY <1>6
<1>7. CASE stack # <<>> /\ Top.op \notin LoopOps /\ stack' = Tail(stack)
  BY <1>1, <1>7
<1>8. ASSUME NEW f \in Frame, f.op \notin LoopOps,
             \/ stack' = <<f>> \o stack
             \/ stack # <<>> /\ Top.op \notin LoopOps /\ stack' = <<f>> \o Tail(stack)
             \/ Loops(stack) = {} /\ stack' = <<f>>
      PROVE  Loops(stack') = Loops(stack)
  <2>1. Loops(<<f>> \o stack) = Loops(stack) /\ Loops(<<f>>) = {}
    BY <1>2, <1>4, <1>8
  <2>2. stack # <<>> => Loops(<<f>> \o Tail(stack)) = Loops(Tail(stack))
    BY <1>0, <1>2, <1>8
  <2> QED
    BY <1>1, <1>8, <2>1, <2>2, Zenon
<1>9. ASSUME NEW f \in Frame, NEW g \in Frame, f.op \notin LoopOps, g.op \notin LoopOps,
             \/ stack # <<>> /\ Top.op \notin LoopOps /\ stack' = <<f, g>> \o Tail(stack)
             \/ Loops(stack) = {} /\ stack' = <<f, g>> \o <<>>
      PROVE  Loops(stack') = Loops(stack)
  <2>1. Loops(<<f, g>> \o <<>>) = {}
    BY <1>3, <1>5, <1>9
  <2>2. stack # <<>> => Loops(<<f, g>> \o Tail(stack)) = Loops(Tail(stack))
    BY <1>0, <1>3, <1>9
  <2> QED
    BY <1>1, <1>9, <2>1, <2>2, Zenon
<1> QED
  BY <1>6, <1>7, <1>8, <1>9

\* A step that calls no client and leaves the connection as ready as it was
LEMMA ToldSame ==
    ASSUME LoopsInv, ToldInv, Loops(stack') = Loops(stack), UNCHANGED <<clients, told, current>>,
           \/ bits' = bits
           \/ CheckConnected
           \/ bits' = InitBits,
           Open' # {} => Open # {}
    PROVE  LoopsInv' /\ ToldInv'
<1>1. "OKAYED" \in bits => bits = Ready
  BY DEF ToldInv
<1>2. /\ bits' = Ready <=> bits = Ready
      /\ "OKAYED" \in bits' => bits' = Ready
  BY <1>1 DEF CheckConnected, InitBits, Ready
<1>3. IsReady' <=> IsReady
  BY <1>2 DEF IsReady
<1>4. LoopsInv'
  BY <1>2 DEF LoopsInv
<1>5. Open' # {} => current'
  BY DEF ToldInv
<1>6. ToldInv'
  BY <1>2, <1>3, <1>5 DEF ToldInv, Registered, Reached
<1> QED
  BY <1>4, <1>6

\* Sockets keep being open or free.
LEMMA OpenStays ==
    ASSUME sock \in [Socks -> Sock], NEW c, NEW r, SetSock(c, r), c \in Socks => r.st # "free",
           c \in Socks => sock[c].st # "free"
    PROVE  Open' = Open
BY DEF Open, SetSock

\* As long as there is no ready connection nobody is told that there is one.
LEMMA ToldDown ==
    ASSUME ToldInv, ~IsReady, ~IsReady', UNCHANGED <<clients, told>>,
           Open' # {} => current', "OKAYED" \in bits' => bits' = Ready
    PROVE  ToldInv'
BY DEF ToldInv, Registered

LEMMA NoLoops ==
    ASSUME Loops(stack') = {}
    PROVE  LoopsInv'
BY DEF LoopsInv

LEMMA ToldConnect ==
    ASSUME TypeInv, ControlInv, LoopsInv, ToldInv, Connect
    PROVE  LoopsInv' /\ ToldInv'
<1> USE DEF ndVars, cdVars, ncVars, histVars
<1>0. At("connect")
  BY DEF Connect, ConnectGiveUp, ConnectDeclined, ConnectInProgress, ConnectAtOnce, Attempt
<1>1. /\ ~IsReady /\ Open = {} /\ stack \in Seq(Frame) /\ stack # <<>> /\ Top.op = "connect"
      /\ Tail(stack) = <<>>
  BY <1>0, DiallingFacts
<1>2. Loops(stack) = {}
  BY <1>1, FramesPop, FramesEmpty DEF Top, LoopOps
<1>3. CASE ConnectGiveUp
  <2>1. UNCHANGED <<clients, told, current, bits, sock>> /\ stack' = Tail(stack)
    BY <1>3 DEF ConnectGiveUp, Return
  <2>2. Loops(stack') = Loops(stack)
    BY <1>1, <2>1, LoopsSame DEF LoopOps
  <2> QED
    BY <2>1, <2>2, ToldSame DEF Open
<1>4. ASSUME Attempt, bits' \subseteq {"SENT"},
             \/ stack' = stack
             \/ stack' = Tail(stack)
             \/ stack' = <<Act("flush")>> \o Tail(stack)
      PROVE  LoopsInv' /\ ToldInv'
  <2>1. UNCHANGED <<clients, told>> /\ current' /\ ~IsReady' /\ "OKAYED" \notin bits'
    BY <1>4 DEF Attempt, IsReady, Ready
  <2>2. Act("flush") \in Frame /\ Act("flush").op = "flush"
    BY FrameTypes DEF Ops
  <2>3. Loops(stack') = Loops(stack)
    BY <1>1, <1>4, <2>2, LoopsSame DEF LoopOps
  <2> QED
    BY <1>1, <1>2, <2>1, <2>3, ToldDown, NoLoops
<1>5. CASE ConnectDeclined
  BY <1>4, <1>5 DEF ConnectDeclined
<1>6. CASE ConnectInProgress
  BY <1>4, <1>6 DEF ConnectInProgress, Return
<1>7. CASE ConnectAtOnce
  BY <1>4, <1>7 DEF ConnectAtOnce, Jump
<1> QED
  BY <1>3, <1>5, <1>6, <1>7 DEF Connect

LEMMA ToldFlush ==
    ASSUME TypeInv, ControlInv, LoopsInv, ToldInv, Flush
    PROVE  LoopsInv' /\ ToldInv'
<1> USE DEF ndVars, cdVars, ncVars, histVars
<1>0. /\ At("flush") /\ UNCHANGED <<clients, told, current>> /\ (bits' = bits \/ CheckConnected)
      /\ \/ stack' = Tail(stack)
         \/ \E r \in Reasons : stack' = <<Close(r)>> \o Tail(stack)
  BY DEF Flush, FlushNothing, FlushError, FlushSome, FlushAgain, Return, Jump, Reasons
<1>1. /\ conn \in Socks /\ sock[conn] \in Sock /\ sock[conn].st # "free" /\ stack # <<>>
      /\ sock \in [Socks -> Sock] /\ stack \in Seq(Frame) /\ Top.op = "flush"
  BY <1>0, WorkFacts DEF At
<1>2. Loops(stack') = Loops(stack)
  <2>1. \A r \in Reasons : Close(r) \in Frame /\ Close(r).op = "close"
    BY FrameTypes
  <2> QED
    BY <1>0, <1>1, <2>1, LoopsSame DEF LoopOps
<1>3. Open' = Open
  <2>1. CASE FlushNothing \/ FlushError
    BY <2>1 DEF FlushNothing, FlushError, Open
  <2>2. CASE FlushAgain
    <3>1. SetSock(conn, [sock[conn] EXCEPT !.wtimer = TRUE])
      BY <2>2 DEF FlushAgain
    <3>2. [sock[conn] EXCEPT !.wtimer = TRUE].st # "free"
      BY <1>1 DEF Sock
    <3> QED
      BY <1>1, <3>1, <3>2, OpenStays
  <2>3. CASE FlushSome
    <3>1. PICK b, p : SetSock(conn, [sock[conn] EXCEPT !.full = b, !.peer = p])
      BY <2>3 DEF FlushSome
    <3>2. [sock[conn] EXCEPT !.full = b, !.peer = p].st # "free"
      BY <1>1 DEF Sock
    <3> QED
      BY <1>1, <3>1, <3>2, OpenStays
  <2> QED
    BY <2>1, <2>2, <2>3 DEF Flush
<1> QED
  BY <1>0, <1>2, <1>3, ToldSame

LEMMA ToldRecv ==
    ASSUME TypeInv, ControlInv, LoopsInv, ToldInv, Recv
    PROVE  LoopsInv' /\ ToldInv'
<1> USE DEF ndVars, cdVars, ncVars, histVars
<1>0. /\ At("recv") /\ UNCHANGED <<clients, told, current>> /\ (bits' = bits \/ CheckConnected)
      /\ \/ stack' = Tail(stack)
         \/ stack' = <<Process(0)>> \o stack
         \/ stack' = <<Act("flush")>> \o Tail(stack)
         \/ \E r \in Reasons : stack' = <<Close(r)>> \o Tail(stack)
  BY DEF Recv, RecvData, RecvAgain, RecvEnd, Return, Jump, Call, Reasons
<1>1. /\ conn \in Socks /\ sock[conn] \in Sock /\ sock[conn].st # "free" /\ stack # <<>>
      /\ sock \in [Socks -> Sock] /\ stack \in Seq(Frame) /\ Top.op = "recv"
      /\ Top = stack[1] /\ Len(stack) \in Nat \ {0}
  BY <1>0, WorkFacts DEF At
<1>2. Loops(stack') = Loops(stack)
  <2>1. /\ \A r \in Reasons : Close(r) \in Frame /\ Close(r).op = "close"
        /\ Act("flush") \in Frame /\ Act("flush").op = "flush"
        /\ Process(0) \in Frame /\ Process(0).op = "process"
    BY FrameTypes DEF Ops
  <2> QED
    BY <1>0, <1>1, <2>1, LoopsSame DEF LoopOps
<1>3. Open' = Open
  <2>1. CASE RecvAgain \/ RecvEnd
    BY <2>1 DEF RecvAgain, RecvEnd, Open
  <2>2. CASE RecvData
    <3>0. Top.c = conn
      BY <1>1 DEF ControlInv, Reader, Reading
    <3>1. PICK q : SetSock(conn, [sock[conn] EXCEPT !.inq = q])
      BY <2>2, <3>0 DEF RecvData
    <3>2. [sock[conn] EXCEPT !.inq = q].st # "free"
      BY <1>1 DEF Sock
    <3> QED
      BY <1>1, <3>1, <3>2, OpenStays
  <2> QED
    BY <2>1, <2>2 DEF Recv
<1> QED
  BY <1>0, <1>2, <1>3, ToldSame

LEMMA ToldEvent ==
    ASSUME TypeInv, ControlInv, LoopsInv, ToldInv,
           PingTimer \/ \E c \in Socks : ReadEvent(c) \/ WriteEvent(c) \/ WriteTimeout(c)
    PROVE  LoopsInv' /\ ToldInv'
<1> USE DEF ndVars, cdVars, ncVars, histVars
<1>0. sock \in [Socks -> Sock] /\ Len(wbuf) \in Nat
  BY LenProperties DEF TypeInv, TypeOK
<1>1. /\ Idle /\ UNCHANGED <<clients, told, current>> /\ (bits' = bits \/ bits' = InitBits)
      /\ \/ stack' = stack
         \/ stack' = <<Act("flush")>>
         \/ \E c \in Socks : stack' = <<RecvCall(c)>>
         \/ \E r \in Reasons : stack' = <<Close(r)>>
  BY DEF PingTimer, ReadEvent, WriteEvent, WriteTimeout, Reasons
<1>2. stack = <<>> /\ Loops(stack) = {} /\ stack \in Seq(Frame)
  BY <1>1, FramesEmpty, EmptySeq DEF Idle
<1>3. Loops(stack') = Loops(stack)
  <2>1. /\ \A r \in Reasons : Close(r) \in Frame /\ Close(r).op = "close"
        /\ Act("flush") \in Frame /\ Act("flush").op = "flush"
        /\ \A c \in Socks : RecvCall(c) \in Frame /\ RecvCall(c).op = "recv"
    BY <1>0, FrameTypes, RecvFrame DEF Ops
  <2> QED
    BY <1>1, <1>2, <2>1, LoopsSame DEF LoopOps
<1>4. Open' = Open
  <2>1. CASE PingTimer \/ \E c \in Socks : ReadEvent(c)
    BY <2>1 DEF PingTimer, ReadEvent, Open
  <2>2. ASSUME NEW c \in Socks, WriteEvent(c) \/ WriteTimeout(c) PROVE Open' = Open
    <3>1. sock[c].st # "free"
      BY <2>2, Marked DEF WriteEvent, WriteTimeout
    <3>2. PICK r \in {[sock[c] EXCEPT !.wev = FALSE, !.wtimer = FALSE],
                      [sock[c] EXCEPT !.wtimer = FALSE]} : SetSock(c, r)
      BY <2>2 DEF WriteEvent, WriteTimeout
    <3>3. r.st # "free"
      BY <1>0, <3>1, <3>2 DEF Sock
    <3> QED
      BY <1>0, <3>1, <3>2, <3>3, OpenStays
  <2> QED
    BY <2>1, <2>2
<1> QED
  BY <1>1, <1>3, <1>4, ToldSame

LEMMA ToldNetwork ==
    ASSUME TypeInv, ControlInv, LoopsInv, ToldInv, Network
    PROVE  LoopsInv' /\ ToldInv'
<1>1. PICK c \in Socks :
        \/ Establish(c) \/ Refuse(c) \/ Drain(c) \/ AnswerConnect(c) \/ RefuseConnect(c)
        \/ ServerCloses(c) \/ ServerResets(c) \/ \E m \in Chat : ServerSays(c, m)
  BY DEF Network
<1>2. sock[c].st # "free" /\ sock \in [Socks -> Sock] /\ sock[c] \in Sock
  BY <1>1, Marked DEF Establish, Refuse, Drain, AnswerConnect, RefuseConnect, ServerCloses,
     ServerResets, ServerSays, TypeInv, TypeOK
<1>3. PICK r : SetSock(c, r) /\ r.st # "free"
  <2>1. CASE Establish(c) \/ Refuse(c) \/ Drain(c) \/ ServerCloses(c) \/ ServerResets(c)
    <3>1. /\ \A q : [sock[c] EXCEPT !.st = "est", !.wev = TRUE, !.inq = q].st = "est"
          /\ [sock[c] EXCEPT !.st = "err", !.wev = TRUE].st = "err"
          /\ [sock[c] EXCEPT !.st = "err", !.wev = TRUE, !.full = FALSE, !.inq = <<>>].st = "err"
          /\ [sock[c] EXCEPT !.full = FALSE, !.wev = TRUE].st = sock[c].st
          /\ [sock[c] EXCEPT !.fin = TRUE].st = sock[c].st
      BY <1>2 DEF Sock
    <3> QED
      BY <1>2, <2>1, <3>1 DEF Establish, Refuse, Drain, ServerCloses, ServerResets
  <2>2. CASE AnswerConnect(c) \/ RefuseConnect(c) \/ \E m \in Chat : ServerSays(c, m)
    <3>1. PICK p, q : \/ SetSock(c, [sock[c] EXCEPT !.peer = p, !.inq = q])
                      \/ SetSock(c, [sock[c] EXCEPT !.inq = q])
      BY <2>2 DEF AnswerConnect, RefuseConnect, ServerSays
    <3>2. /\ [sock[c] EXCEPT !.peer = p, !.inq = q].st # "free"
          /\ [sock[c] EXCEPT !.inq = q].st # "free"
      BY <1>2 DEF Sock
    <3> QED
      BY <3>1, <3>2
  <2> QED
    BY <1>1, <2>1, <2>2
<1>4. Open' = Open
  BY <1>2, <1>3, OpenStays
<1> QED
  BY <1>4, NetworkFacts, ToldSame

\* The loop frames
LEMMA LoopFields ==
    ASSUME clients \in Seq(Clients), NEW op \in Ops, NEW w \in {"none", "now", "later"}
    PROVE  /\ Loop(op, w) \in Frame /\ Loop(op, w).op = op /\ Loop(op, w).why = w
           /\ Loop(op, w).i = 1 /\ Loop(op, w).n = Len(clients) /\ Len(clients) \in Nat
<1>1. Loop(op, w) \in Frame /\ Loop(op, w).op = op /\ Loop(op, w).why = w
  BY LoopFrames
<1>2. Loop(op, w).i = 1 /\ Loop(op, w).n = Len(clients)
  BY DEF Loop, Act
<1> QED
  BY <1>1, <1>2, LenProperties

\* While the connection is up the only loop is that of ngx_nats_connection_ready.
LEMMA WorkingLoops ==
    ASSUME stack = <<>> \/ Working, NEW p \in Loops(stack)
    PROVE  p[1].op = "ready"
<1>1. stack # <<>>
  BY FramesEmpty
<1>2. PICK k \in 1 .. Len(stack) : stack[k].op \in LoopOps /\ p[1] = stack[k]
  BY DEF Loops
<1> QED
  BY <1>1, <1>2 DEF Working, Shape, LoopOps

\* ... and there is one of it.
LEMMA ReadyAlone ==
    ASSUME TypeInv, ControlInv, LoopsInv, Running, stack # <<>>, Top.op = "ready"
    PROVE  /\ Loops(stack) = {<<Top, 2>>} /\ Loops(Tail(stack)) = {} /\ Len(stack) = 3
           /\ stack \in Seq(Frame) /\ Top \in Frame /\ bits = Ready
           /\ Top.i \in Nat \ {0} /\ Top.n \in Nat /\ Top.n <= Len(clients)
           /\ Tail(stack) \in Seq(Frame) /\ Len(Tail(stack)) = 2
<1>1. Working /\ stack \in Seq(Frame) /\ Top = stack[1] /\ Len(stack) \in Nat \ {0}
  BY WorkFacts
<1>2. /\ Top \in Frame /\ Tail(stack) \in Seq(Frame) /\ Len(Tail(stack)) = Len(stack) - 1
      /\ \A i \in 1 .. Len(stack) - 1 : Tail(stack)[i] = stack[i + 1]
  BY <1>1, Popped DEF Top
<1>3. Loops(stack) = Loops(Tail(stack)) \cup {<<Top, Len(stack) - 1>>}
  BY <1>1, FramesPop DEF Top, LoopOps
<1>4. <<Top, Len(stack) - 1>>[1] = Top /\ <<Top, Len(stack) - 1>>[2] = Len(stack) - 1
  OBVIOUS
<1>5. /\ Len(stack) - 1 = 2 /\ bits = Ready /\ Top.i >= 1 /\ Top.n <= Len(clients)
  BY <1>3, <1>4 DEF LoopsInv
<1>6. ASSUME NEW p \in Loops(Tail(stack)) PROVE FALSE
  <2>1. PICK k \in 1 .. Len(Tail(stack)) : p = <<Tail(stack)[k], Len(Tail(stack)) - k>>
    BY DEF Loops
  <2>2. p[2] = Len(Tail(stack)) - k
    BY <2>1
  <2>3. p \in Loops(stack) /\ p[1].op = "ready"
    BY <1>1, <1>3, WorkingLoops
  <2>4. p[2] = 2
    BY <2>3 DEF LoopsInv
  <2>5. k \in 1 .. 2 /\ p[2] = 2 - k
    BY <1>1, <1>2, <1>5, <2>2
  <2> QED
    BY <2>4, <2>5
<1>7. Top.i \in Nat \ {0} /\ Top.n \in Nat
  BY <1>2, <1>5 DEF Frame
<1>8. Len(stack) = 3 /\ Len(Tail(stack)) = 2
  <2>1. Len(stack) \in Nat /\ Len(stack) - 1 = 2 /\ Len(Tail(stack)) = Len(stack) - 1
    BY <1>1, <1>2, <1>5
  <2> QED
    BY ONLY <2>1
<1>9. Loops(Tail(stack)) = {} /\ Loops(stack) = {<<Top, 2>>}
  BY <1>3, <1>5, <1>6
<1> QED
  BY <1>1, <1>2, <1>5, <1>7, <1>8, <1>9

LEMMA ToldDispatch ==
    ASSUME TypeInv, ControlInv, LoopsInv, ToldInv, Dispatch, ~ReadyLoop, ~(bits' = Ready /\ bits # Ready)
    PROVE  LoopsInv' /\ ToldInv'
<1> USE DEF ndVars, cdVars, ncVars, histVars
<1>1. /\ At("process") /\ UNCHANGED <<clients, told, current, sock>>
  BY DEF Dispatch, ProcessEnd, ProcessSkip, ProcessOk, ProcessInfo, ProcessPing, ProcessPong,
     ProcessErr, ProcessBad, ProcessMsg, Parsed
<1>2. /\ stack # <<>> /\ Top.op = "process" /\ stack \in Seq(Frame) /\ Tail(stack) \in Seq(Frame)
      /\ Tail(stack) # <<>> /\ Tail(Tail(stack)) = <<>> /\ Head(Tail(stack)).op = "recv"
  <2>1. Tail(stack)[1].op = "recv" /\ Tail(stack) \in Seq(Frame) /\ Tail(stack) # <<>>
    BY <1>1, ProcessFacts
  <2> QED
    BY <1>1, <2>1, ProcessFacts, Popped
<1>3. Loops(stack) = {}
  <2>1. Loops(stack) = Loops(Tail(stack))
    BY <1>2, FramesPop DEF LoopOps, Top
  <2>2. Loops(Tail(stack)) = {}
    BY <1>2, FramesPop, FramesEmpty DEF LoopOps
  <2> QED
    BY <2>1, <2>2
<1>4. /\ bits' = bits
      /\ \/ stack' = stack
         \/ stack' = Tail(stack)
         \/ stack' = <<Process(0)>> \o Tail(stack)
         \/ stack' = <<Callback("msg"), Process(1)>> \o Tail(stack)
         \/ \E r \in Reasons : stack' = <<Close(r), Close("BAD_PROTOCOL")>> \o <<>>
  <2>1. CASE ProcessEnd \/ ProcessSkip \/ ProcessOk \/ ProcessInfo \/ ProcessPing
    BY <2>1 DEF ProcessEnd, ProcessSkip, ProcessOk, ProcessInfo, ProcessPing, Return, Jump
  <2>2. CASE ProcessErr \/ ProcessBad
    BY <1>2, <2>2 DEF ProcessErr, ProcessBad, CloseTwice, Reasons
  <2>3. CASE ProcessMsg
    BY <2>3 DEF ProcessMsg, Invoke
  <2>4. CASE ProcessPong
    BY <2>4 DEF ProcessPong, Ready
  <2> QED
    BY <2>1, <2>2, <2>3, <2>4 DEF Dispatch
<1>5. Loops(stack') = Loops(stack)
  <2>1. /\ \A r \in Reasons : Close(r) \in Frame /\ Close(r).op = "close"
        /\ Process(0) \in Frame /\ Process(0).op = "process"
        /\ Process(1) \in Frame /\ Process(1).op = "process"
        /\ Callback("msg") \in Frame /\ Callback("msg").op = "callback" /\ "BAD_PROTOCOL" \in Reasons
    BY FrameTypes DEF Ops, Callbacks, Reasons
  <2> QED
    BY <1>2, <1>3, <1>4, <2>1, LoopsSame DEF LoopOps
<1>6. Open' = Open
  BY <1>1 DEF Open
<1> QED
  BY <1>1, <1>4, <1>5, <1>6, ToldSame

\* One loop under way, alone or with the function it has called
LEMMA OneLoop ==
    ASSUME NEW s \in Seq(Frame), Loops(s) = {}, NEW f \in Frame, f.op \in LoopOps,
           NEW g \in Frame, g.op \notin LoopOps
    PROVE  /\ Loops(<<f>> \o s) = {<<f, Len(s)>>}
           /\ Loops(<<g, f>> \o s) = {<<f, Len(s)>>}
           /\ Loops(<<f, g>> \o s) = {<<f, Len(s) + 1>>}
<1>1. /\ <<f>> \o s \in Seq(Frame) /\ <<g>> \o s \in Seq(Frame)
      /\ Len(<<g>> \o s) = Len(s) + 1
  BY Pushed
<1>2. Loops(<<f>> \o s) = {<<f, Len(s)>>} /\ Loops(<<g>> \o s) = {}
  BY FramesPush
<1>3. Loops(<<g>> \o (<<f>> \o s)) = {<<f, Len(s)>>}
  BY <1>1, <1>2, FramesPush
<1>4. Loops(<<f>> \o (<<g>> \o s)) = {<<f, Len(s) + 1>>}
  BY <1>1, <1>2, FramesPush
<1> QED
  BY <1>2, <1>3, <1>4, FramesTwo

LEMMA OneReached ==
    ASSUME NEW f, NEW d, Loops(stack') = {<<f, d>>}
    PROVE  /\ LoopsInv' <=> /\ f.op = "ready" => /\ d = 2 /\ bits' = Ready
                                                  /\ f.i >= 1 /\ f.n <= Len(clients')
                            /\ f.op = "notify" => f.i >= 1 /\ f.n = Len(clients')
           /\ \A j : (\A p \in Loops(stack') : Reached(p[1], j)) <=> Reached(f, j)
<1>1. <<f, d>>[1] = f /\ <<f, d>>[2] = d
  OBVIOUS
<1> QED
  BY <1>1 DEF LoopsInv

LEMMA ToldOn ==
    ASSUME Open' # {} => current', "OKAYED" \in bits' => bits' = Ready,
           ToldInv, clients' = clients,
           \A cl \in Clients \ Registered : told'[cl] = told[cl],
           \A j \in 1 .. Len(clients) : told'[clients[j]] = "up" <=>
               IsReady' /\ \A p \in Loops(stack') : Reached(p[1], j)
    PROVE  ToldInv'
BY DEF ToldInv, Registered, Reached

\* ngx_nats_connection_ready: its loop starts.
LEMMA ToldPong ==
    ASSUME TypeInv, ControlInv, LoopsInv, ToldInv, ProcessPong, bits' = Ready, bits # Ready
    PROVE  LoopsInv' /\ ToldInv'
<1> USE DEF ndVars, cdVars, ncVars, histVars
<1> DEFINE f == Loop("ready", "none")
           g == Process(1)
<1>1. /\ At("process") /\ UNCHANGED <<clients, told, current, sock>>
      /\ stack' = <<f, g>> \o Tail(stack)
  BY DEF ProcessPong, Parsed, Invoke
<1>2. /\ Tail(stack) \in Seq(Frame) /\ Len(Tail(stack)) = 1 /\ Tail(stack) # <<>>
      /\ Tail(stack)[1].op = "recv" /\ Tail(Tail(stack)) = <<>> /\ Live
  BY <1>1, ProcessFacts
<1>3. Loops(Tail(stack)) = {}
  BY <1>2, Popped, FramesPop, FramesEmpty DEF LoopOps
<1>4. /\ f \in Frame /\ f.op = "ready" /\ f.i = 1 /\ f.n = Len(clients) /\ Len(clients) \in Nat
      /\ g \in Frame /\ g.op = "process"
  BY LoopFields, FrameTypes DEF TypeInv, TypeOK, Ops
<1> HIDE DEF f, g
<1>5. Loops(stack') = {<<f, 2>>}
  <2>1. Loops(<<f, g>> \o Tail(stack)) = {<<f, Len(Tail(stack)) + 1>>}
    BY <1>2, <1>3, <1>4, OneLoop DEF LoopOps
  <2>2. Len(Tail(stack)) + 1 = 2
    BY <1>2
  <2> QED
    BY <1>1, <2>1, <2>2
<1>6. current /\ Open' = Open
  BY <1>1, <1>2 DEF ToldInv, Live, Open
<1>7. LoopsInv'
  <2>1. f.i >= 1 /\ f.n <= Len(clients') /\ f.op = "ready"
    BY <1>1, <1>4
  <2> QED
    BY <1>5, <2>1, OneReached
<1>8. \A j \in 1 .. Len(clients) : told[clients[j]] # "up" /\ ~Reached(f, j)
  BY <1>4 DEF ToldInv, IsReady, Reached
<1>9. \A j \in 1 .. Len(clients) : ~\A p \in Loops(stack') : Reached(p[1], j)
  BY <1>5, <1>8, OneReached
<1>10. ToldInv'
  BY <1>1, <1>6, <1>8, <1>9, ToldOn
<1> QED
  BY <1>7, <1>10

\* The frame of a loop that goes on to the next client
LEMMA NextLoop ==
    ASSUME NEW f \in Frame
    PROVE  LET g == [f EXCEPT !.i = @ + 1]
           IN  g \in Frame /\ g.op = f.op /\ g.why = f.why /\ g.n = f.n /\ g.i = f.i + 1
BY DEF Frame

\* One client is told: the others keep what they were told.
LEMMA TellOne ==
    ASSUME TypeInv, ToldInv, NEW i \in 1 .. Len(clients), NEW v \in {"up", "down"},
           told' = [told EXCEPT ![clients[i]] = v]
    PROVE  /\ told'[clients[i]] = v
           /\ \A j \in 1 .. Len(clients) : j # i => told'[clients[j]] = told[clients[j]]
           /\ \A cl \in Clients \ Registered : told'[cl] = told[cl]
<1>1. clients \in Seq(Clients) /\ told \in [Clients -> {"up", "down"}]
  BY DEF TypeInv, TypeOK
<1>2. \A j \in 1 .. Len(clients) : clients[j] \in Clients
  BY <1>1, ElementOfSeq
<1> QED
  BY <1>1, <1>2 DEF ToldInv, Registered

LEMMA ToldReady ==
    ASSUME TypeInv, ControlInv, LoopsInv, ToldInv, ReadyLoop
    PROVE  LoopsInv' /\ ToldInv'
<1> USE DEF ndVars, cdVars, ncVars, histVars
<1>1. /\ Running /\ stack # <<>> /\ Top.op = "ready"
      /\ UNCHANGED <<clients, current, bits, sock>>
  BY DEF ReadyLoop, At
<1>2. /\ Loops(stack) = {<<Top, 2>>} /\ Loops(Tail(stack)) = {} /\ Top \in Frame /\ bits = Ready
      /\ Top.i \in Nat \ {0} /\ Top.n \in Nat /\ Top.n <= Len(clients)
      /\ Tail(stack) \in Seq(Frame) /\ Len(Tail(stack)) = 2
  BY <1>1, ReadyAlone
<1>3. IsReady /\ IsReady' /\ current /\ Open' = Open
  BY <1>1, <1>2, WorkFacts DEF ToldInv, IsReady, Live, Open
<1>4. Len(clients) \in Nat
  BY LenProperties DEF TypeInv, TypeOK
<1>5. \A j \in 1 .. Len(clients) : told[clients[j]] = "up" <=> j < Top.i \/ j > Top.n
  <2>1. <<Top, 2>>[1] = Top
    OBVIOUS
  <2>2. \A j : (\A p \in Loops(stack) : Reached(p[1], j)) <=> Reached(Top, j)
    BY <1>2, <2>1
  <2>3. \A j : Reached(Top, j) <=> j < Top.i \/ j > Top.n
    BY <1>1 DEF Reached
  <2> QED
    BY <1>3, <2>2, <2>3 DEF ToldInv
<1>6. CASE Top.i <= Top.n
  <2> DEFINE g == Callback("connected")
             f == [Top EXCEPT !.i = @ + 1]
  <2>1. /\ told' = [told EXCEPT ![clients[Top.i]] = "up"]
        /\ stack' = <<g, f>> \o Tail(stack)
    BY <1>2, <1>6 DEF ReadyLoop, Invoke
  <2>2. /\ f \in Frame /\ f.op = "ready" /\ f.n = Top.n /\ f.i = Top.i + 1
        /\ g \in Frame /\ g.op = "callback"
    BY <1>1, <1>2, NextLoop, FrameTypes DEF Callbacks
  <2> HIDE DEF f, g
  <2>3. Loops(stack') = {<<f, 2>>}
    <3>1. Loops(<<g, f>> \o Tail(stack)) = {<<f, Len(Tail(stack))>>}
      BY <1>2, <2>2, OneLoop DEF LoopOps
    <3> QED
      BY <1>2, <2>1, <3>1
  <2>4. LoopsInv'
    <3>1. f.i >= 1 /\ f.n <= Len(clients') /\ f.op = "ready" /\ bits' = Ready
      BY <1>1, <1>2, <2>2
    <3> QED
      BY <2>3, <3>1, OneReached
  <2>5. Top.i \in 1 .. Len(clients)
    BY <1>2, <1>4, <1>6
  <2>6. \A j \in 1 .. Len(clients) : told'[clients[j]] = "up" <=> j < f.i \/ j > f.n
    <3> TAKE j \in 1 .. Len(clients)
    <3>1. CASE j = Top.i
      <4>1. told'[clients[j]] = "up"
        BY <2>1, <2>5, <3>1, TellOne
      <4> QED
        BY <1>2, <2>2, <3>1, <4>1
    <3>2. CASE j # Top.i
      <4>1. told'[clients[j]] = told[clients[j]]
        BY <2>1, <2>5, <3>2, TellOne
      <4>2. j < f.i <=> j < Top.i
        BY <1>2, <2>2, <3>2
      <4> QED
        BY <1>5, <2>2, <4>1, <4>2
    <3> QED
      BY <3>1, <3>2
  <2>7. \A j : (\A p \in Loops(stack') : Reached(p[1], j)) <=> j < f.i \/ j > f.n
    BY <2>2, <2>3, OneReached DEF Reached
  <2>8. \A cl \in Clients \ Registered : told'[cl] = told[cl]
    BY <2>1, <2>5, TellOne
  <2>9. ToldInv'
    BY <1>1, <1>2, <1>3, <2>6, <2>7, <2>8, ToldOn
  <2> QED
    BY <2>4, <2>9
<1>7. CASE Top.i > Top.n
  <2>1. told' = told /\ stack' = Tail(stack)
    BY <1>2, <1>7 DEF ReadyLoop, Return
  <2>2. LoopsInv'
    BY <1>2, <2>1, NoLoops
  <2>3. \A j \in 1 .. Len(clients) : told[clients[j]] = "up"
    BY <1>2, <1>4, <1>5, <1>7
  <2>4. ToldInv'
    BY <1>1, <1>2, <1>3, <2>1, <2>3, ToldOn
  <2> QED
    BY <2>2, <2>4
<1> QED
  BY <1>2, <1>6, <1>7

\* Below a close there is at most another close.
LEMMA TearTail ==
    ASSUME TypeInv, ControlInv, Running, stack # <<>>, Top.op \in {"close", "notify", "finish"}
    PROVE  /\ stack \in Seq(Frame) /\ Top \in Frame /\ Tail(stack) \in Seq(Frame)
           /\ Loops(Tail(stack)) = {} /\ Len(Tail(stack)) = Len(stack) - 1
           /\ Top.op = "close" => Loops(stack) = {}
           /\ Top.op # "close" => Loops(stack) = {<<Top, Len(stack) - 1>>}
<1>1. /\ stack \in Seq(Frame) /\ Top \in Frame
      /\ Len(stack) = 1 \/ (Len(stack) = 2 /\ stack[2].op = "close")
  BY TearingFacts
<1>2. /\ Tail(stack) \in Seq(Frame) /\ Len(Tail(stack)) = Len(stack) - 1
      /\ \A i \in 1 .. Len(stack) - 1 : Tail(stack)[i] = stack[i + 1]
      /\ Tail(stack) = <<>> <=> Len(stack) = 1
  BY <1>1, Popped
<1>3. Loops(Tail(stack)) = {}
  <2>1. CASE Len(stack) = 1
    BY <1>2, <2>1, FramesEmpty
  <2>2. CASE Len(stack) = 2
    <3> DEFINE t == Tail(stack)
    <3>1. Len(t) = 1 /\ t[1] = stack[2] /\ stack[2].op = "close"
      BY <1>1, <1>2, <2>2
    <3> HIDE DEF t
    <3>2. \A k \in 1 .. Len(t) : t[k].op \notin LoopOps
      BY <3>1 DEF LoopOps
    <3>3. Loops(t) = {}
      BY <3>2 DEF Loops
    <3> QED
      BY <3>3 DEF t
  <2> QED
    BY <1>1, <2>1, <2>2
<1>4. /\ Top.op = "close" => Loops(stack) = {}
      /\ Top.op # "close" => Loops(stack) = {<<Top, Len(stack) - 1>>}
  BY <1>1, <1>3, FramesPop DEF Top, LoopOps
<1> QED
  BY <1>1, <1>2, <1>3, <1>4

LEMMA ToldTearDown ==
    ASSUME TypeInv, ControlInv, LoopsInv, ToldInv, TearDown
    PROVE  LoopsInv' /\ ToldInv'
<1> USE DEF ndVars, cdVars, ncVars, histVars
<1>0. /\ Running /\ stack # <<>> /\ Top.op \in {"close", "notify", "finish"} /\ clients' = clients
      /\ bits' = bits
  BY DEF TearDown, CloseSocket, CloseNotify, CloseFinish, At
<1>1. /\ stack \in Seq(Frame) /\ Top \in Frame /\ Tail(stack) \in Seq(Frame)
      /\ Loops(Tail(stack)) = {} /\ Len(Tail(stack)) = Len(stack) - 1
      /\ Top.op = "close" => Loops(stack) = {}
      /\ Top.op # "close" => Loops(stack) = {<<Top, Len(stack) - 1>>}
  BY <1>0, TearTail
<1>2. Open' = {} /\ ("OKAYED" \in bits => bits = Ready)
  BY TornDown DEF Open, ToldInv
<1>3. clients \in Seq(Clients) /\ Len(clients) \in Nat /\ told \in [Clients -> {"up", "down"}]
  BY LenProperties DEF TypeInv, TypeOK
<1>4. Top.op # "close" => \A j \in 1 .. Len(clients) :
          told[clients[j]] = "up" <=> IsReady /\ Reached(Top, j)
  <2>1. <<Top, Len(stack) - 1>>[1] = Top
    OBVIOUS
  <2>2. Top.op # "close" =>
          \A j : (\A p \in Loops(stack) : Reached(p[1], j)) <=> Reached(Top, j)
    BY <1>1, <2>1
  <2> QED
    BY <2>2 DEF ToldInv
<1>5. CASE CloseSocket
  <2> DEFINE w == IF Top.why = "DISCONNECTED" \/ "BYTES" \notin bits THEN "now" ELSE "later"
             o == IF bits = Ready THEN "notify" ELSE "finish"
             f == Loop(o, w)
  <2>1. /\ Top.op = "close" /\ stack' = <<f>> \o Tail(stack) /\ UNCHANGED <<current, told>>
    BY <1>5 DEF CloseSocket, Jump, At
  <2>2. o \in Ops /\ w \in {"now", "later"} /\ o \in LoopOps /\ o # "ready"
    BY DEF Ops, LoopOps
  <2>3. f \in Frame /\ f.op = o /\ f.i = 1 /\ f.n = Len(clients)
    BY <1>3, <2>2, LoopFields
  <2>4. o = "finish" <=> bits # Ready
    OBVIOUS
  <2> HIDE DEF w, o, f
  <2>5. Loops(stack') = {<<f, Len(Tail(stack))>>}
    BY <1>1, <2>1, <2>2, <2>3, FramesPush
  <2>6. LoopsInv'
    <3>1. f.i >= 1 /\ f.n = Len(clients') /\ f.op # "ready"
      BY <1>0, <2>2, <2>3
    <3> QED
      BY <2>5, <3>1, OneReached
  <2>7. \A j \in 1 .. Len(clients) : told[clients[j]] = "up" <=> IsReady /\ bits = Ready
    BY <1>1, <2>1 DEF ToldInv, IsReady
  <2>8. \A j \in 1 .. Len(clients) : Reached(f, j) <=> bits = Ready
    BY <1>3, <2>2, <2>3, <2>4 DEF Reached, LoopOps
  <2>9. \A j : (\A p \in Loops(stack') : Reached(p[1], j)) <=> Reached(f, j)
    BY <2>5, OneReached
  <2>10. IsReady' <=> IsReady
    BY <1>0, <2>1 DEF IsReady
  <2>11. ToldInv'
    BY <1>0, <1>2, <2>1, <2>7, <2>8, <2>9, <2>10, ToldOn
  <2> QED
    BY <2>6, <2>11
<1>6. CASE CloseNotify
  <2>1. /\ Top.op = "notify" /\ UNCHANGED current
    BY <1>6 DEF CloseNotify, At
  <2>2. Top.i \in Nat \ {0} /\ Top.n = Len(clients)
    <3>1. <<Top, Len(stack) - 1>>[1] = Top /\ <<Top, Len(stack) - 1>> \in Loops(stack)
      BY <1>1, <2>1
    <3>2. Top.i >= 1 /\ Top.n = Len(clients)
      BY <2>1, <3>1 DEF LoopsInv
    <3>3. Top.i \in Nat
      BY <1>1 DEF Frame
    <3> QED
      BY <3>2, <3>3
  <2>3. IsReady' <=> IsReady
    BY <1>0, <2>1 DEF IsReady
  <2>4. \A j \in 1 .. Len(clients) : told[clients[j]] = "up" <=> IsReady /\ j >= Top.i
    BY <1>4, <2>1 DEF Reached
  <2>5. CASE Top.i <= Top.n
    <3> DEFINE g == Callback("disconnected")
               f == [Top EXCEPT !.i = @ + 1]
    <3>1. /\ told' = [told EXCEPT ![clients[Top.i]] = "down"]
          /\ stack' = <<g, f>> \o Tail(stack)
      BY <1>3, <1>6, <2>2, <2>5 DEF CloseNotify, Invoke
    <3>2. /\ f \in Frame /\ f.op = "notify" /\ f.n = Top.n /\ f.i = Top.i + 1
          /\ g \in Frame /\ g.op = "callback"
      BY <1>1, <2>1, NextLoop, FrameTypes DEF Callbacks
    <3> HIDE DEF f, g
    <3>3. Loops(stack') = {<<f, Len(Tail(stack))>>}
      <4>1. Loops(<<g, f>> \o Tail(stack)) = {<<f, Len(Tail(stack))>>}
        BY <1>1, <3>2, OneLoop DEF LoopOps
      <4> QED
        BY <3>1, <4>1
    <3>4. LoopsInv'
      <4>1. f.i >= 1 /\ f.n = Len(clients') /\ f.op = "notify"
        BY <1>0, <2>2, <3>2
      <4> QED
        BY <3>3, <4>1, OneReached
    <3>5. Top.i \in 1 .. Len(clients)
      BY <1>3, <2>2, <2>5
    <3>6. \A j \in 1 .. Len(clients) : told'[clients[j]] = "up" <=> IsReady /\ j >= f.i
      <4> TAKE j \in 1 .. Len(clients)
      <4>1. CASE j = Top.i
        <5>1. told'[clients[j]] = "down"
          BY <3>1, <3>5, <4>1, TellOne
        <5> QED
          BY <2>2, <3>2, <4>1, <5>1
      <4>2. CASE j # Top.i
        <5>1. told'[clients[j]] = told[clients[j]]
          BY <3>1, <3>5, <4>2, TellOne
        <5>2. j >= f.i <=> j >= Top.i
          BY <2>2, <3>2, <4>2
        <5> QED
          BY <2>4, <5>1, <5>2
      <4> QED
        BY <4>1, <4>2
    <3>7. \A j : (\A p \in Loops(stack') : Reached(p[1], j)) <=> j >= f.i
      BY <3>2, <3>3, OneReached DEF Reached
    <3>8. \A cl \in Clients \ Registered : told'[cl] = told[cl]
      BY <3>1, <3>5, TellOne
    <3>9. ToldInv'
      BY <1>0, <1>2, <2>3, <3>6, <3>7, <3>8, ToldOn
    <3> QED
      BY <3>4, <3>9
  <2>6. CASE Top.i > Top.n
    <3> DEFINE f == [Top EXCEPT !.op = "finish"]
    <3>1. told' = told /\ stack' = <<f>> \o Tail(stack)
      BY <1>3, <1>6, <2>2, <2>6 DEF CloseNotify, Jump
    <3>2. f \in Frame /\ f.op = "finish"
      BY <1>1, NextFrames
    <3> HIDE DEF f
    <3>3. Loops(stack') = {<<f, Len(Tail(stack))>>}
      BY <1>1, <3>1, <3>2, FramesPush DEF LoopOps
    <3>4. LoopsInv'
      BY <3>2, <3>3, OneReached
    <3>5. \A j \in 1 .. Len(clients) : told[clients[j]] # "up"
      BY <1>3, <2>2, <2>4, <2>6
    <3>6. \A j : ~\A p \in Loops(stack') : Reached(p[1], j)
      BY <3>2, <3>3, OneReached DEF Reached
    <3>7. ToldInv'
      BY <1>0, <1>2, <3>1, <3>5, <3>6, ToldOn
    <3> QED
      BY <3>4, <3>7
  <2> QED
    BY <1>3, <2>2, <2>5, <2>6
<1>7. CASE CloseFinish
  <2>1. /\ Top.op = "finish" /\ told' = told /\ ~current'
        /\ stack' = Tail(stack) \/ stack' = <<Act("connect")>> \o Tail(stack)
    BY <1>7 DEF CloseFinish, At, Jump, Return
  <2>2. Act("connect") \in Frame /\ Act("connect").op = "connect"
    BY FrameTypes DEF Ops
  <2>3. Loops(stack') = {}
    <3>1. Loops(<<Act("connect")>> \o Tail(stack)) = {}
      BY <1>1, <2>2, FramesPush DEF LoopOps
    <3> QED
      BY <1>1, <2>1, <3>1
  <2>4. \A j \in 1 .. Len(clients) : told[clients[j]] # "up"
    BY <1>4, <2>1 DEF Reached
  <2>5. ToldInv'
    BY <1>0, <1>2, <2>1, <2>4, ToldOn DEF IsReady
  <2> QED
    BY <2>3, <2>5, NoLoops
<1> QED
  BY <1>5, <1>6, <1>7 DEF TearDown

LEMMA ToldClient ==
    ASSUME TypeInv, ControlInv, GoodEnvironment, LoopsInv, ToldInv, Client
    PROVE  LoopsInv' /\ ToldInv'
<1> USE DEF ndVars, cdVars, ncVars, histVars
<1>0. /\ Caller /\ UNCHANGED <<current, bits, sock>> /\ Open' = Open /\ (IsReady' <=> IsReady)
  BY ClientWrites DEF Open, IsReady
<1>1. stack \in Seq(Frame) /\ (stack = <<>> \/ Working)
  BY <1>0, CallerFacts
<1>2. /\ Act("flush") \in Frame /\ Act("flush").op = "flush"
      /\ Callback("connected") \in Frame /\ Callback("connected").op = "callback"
  BY FrameTypes DEF Ops, Callbacks
<1>3. Loops(stack') = Loops(stack)
  <2>1. \/ stack' = stack
        \/ \E f \in {Act("flush"), Callback("connected")} : stack' = <<f>> \o stack
    BY DEF Client, Publish, Subscribe, Unsubscribe, AddClient, Call
  <2> QED
    BY <1>1, <1>2, <2>1, LoopsSame DEF LoopOps
<1>4. CASE Publish \/ Subscribe \/ Unsubscribe
  <2>1. UNCHANGED <<clients, told>>
    BY <1>4 DEF Publish, Subscribe, Unsubscribe
  <2> QED
    BY <1>0, <1>3, <2>1, ToldSame
<1>5. ASSUME NEW cl \in Clients, AddClient(cl) PROVE LoopsInv' /\ ToldInv'
  <2>1. /\ cl \notin Registered /\ clients' = Append(clients, cl)
        /\ told' = IF IsReady THEN [told EXCEPT ![cl] = "up"] ELSE told
    BY <1>5 DEF AddClient
  <2>2. /\ clients \in Seq(Clients) /\ Len(clients) \in Nat /\ told \in [Clients -> {"up", "down"}]
        /\ Len(clients') = Len(clients) + 1 /\ clients'[Len(clients) + 1] = cl
        /\ \A j \in 1 .. Len(clients) : clients'[j] = clients[j] /\ clients[j] \in Clients
    BY <2>1, AppendProperties, LenProperties, ElementOfSeq DEF TypeInv, TypeOK
  <2>3. \A p \in Loops(stack) : p[1].op = "ready" /\ p[1].n <= Len(clients)
                                /\ p[2] = 2 /\ p[1].i >= 1 /\ bits = Ready
    BY <1>1, WorkingLoops DEF LoopsInv
  <2>4. \A p \in Loops(stack) : p[1].i \in Nat /\ p[1].n \in Nat
    <3> TAKE p \in Loops(stack)
    <3>1. PICK k \in 1 .. Len(stack) : p = <<stack[k], Len(stack) - k>>
      BY DEF Loops
    <3>2. p[1] = stack[k] /\ stack[k] \in Frame
      BY <1>1, <3>1, ElementOfSeq
    <3> QED
      BY <3>2 DEF Frame
  <2>5. LoopsInv'
    <3>1. \A p \in Loops(stack) : p[1].op = "ready" /\ p[1].n <= Len(clients')
                                  /\ p[2] = 2 /\ p[1].i >= 1 /\ bits' = Ready
      BY <1>0, <2>2, <2>3, <2>4
    <3> QED
      BY <1>3, <3>1 DEF LoopsInv
  <2>6. \A j \in 1 .. Len(clients) : clients[j] # cl
    BY <2>1 DEF Registered
  <2>7. ASSUME NEW i \in 1 .. Len(clients'), NEW j \in 1 .. Len(clients'), clients'[i] = clients'[j]
        PROVE  i = j
    <3>1. i \in 1 .. Len(clients) \/ i = Len(clients) + 1
      BY <2>2
    <3>2. j \in 1 .. Len(clients) \/ j = Len(clients) + 1
      BY <2>2
    <3> QED
      BY <2>2, <2>6, <2>7, <3>1, <3>2 DEF ToldInv
  <2>8. ASSUME NEW d \in Clients \ Registered' PROVE told'[d] = "down"
    <3>1. cl \in Registered' /\ \A j \in 1 .. Len(clients) : clients[j] \in Registered'
      <4>1. Len(clients) + 1 \in 1 .. Len(clients') /\ \A j \in 1 .. Len(clients) : j \in 1 .. Len(clients')
        BY <2>2
      <4> QED
        BY <2>2, <4>1 DEF Registered
    <3>2. d \notin Registered /\ d # cl
      BY <3>1 DEF Registered
    <3> QED
      BY <2>1, <2>2, <3>2 DEF ToldInv
  <2>9. ASSUME NEW j \in 1 .. Len(clients')
        PROVE  told'[clients'[j]] = "up" <=> IsReady /\ \A p \in Loops(stack) : Reached(p[1], j)
    <3>1. CASE j \in 1 .. Len(clients)
      <4>1. told'[clients'[j]] = told[clients[j]]
        BY <2>1, <2>2, <2>6, <3>1
      <4> QED
        BY <3>1, <4>1 DEF ToldInv
    <3>2. CASE j = Len(clients) + 1
      <4>1. \A p \in Loops(stack) : Reached(p[1], j)
        BY <2>2, <2>3, <2>4, <3>2 DEF Reached
      <4>2. told[cl] = "down"
        BY <2>1 DEF ToldInv
      <4>3. told'[cl] = "up" <=> IsReady
        BY <2>1, <2>2, <4>2
      <4> QED
        BY <2>2, <3>2, <4>1, <4>3
    <3> QED
      BY <2>2, <3>1, <3>2
  <2>10. ToldInv'
    <3>1. (Open' # {} => current') /\ ("OKAYED" \in bits' => bits' = Ready)
      BY <1>0 DEF ToldInv
    <3>2. \A j \in 1 .. Len(clients') :
             told'[clients'[j]] = "up" <=> IsReady' /\ \A p \in Loops(stack') : Reached(p[1], j)
      BY <1>0, <1>3, <2>9
    <3> QED
      BY <2>7, <2>8, <3>1, <3>2 DEF ToldInv, Reached
  <2> QED
    BY <2>5, <2>10
<1> QED
  BY <1>4, <1>5 DEF Client

LEMMA ToldNext ==
    ASSUME TypeInv, ControlInv, GoodEnvironment, LoopsInv, ToldInv, [Next]_vars
    PROVE  LoopsInv' /\ ToldInv'
<1> USE DEF ndVars, cdVars, ncVars, histVars
<1>0. stack \in Seq(Frame)
  BY DEF TypeInv, TypeOK
<1>1. CASE UNCHANGED vars \/ Terminated \/ ExitProcess
  <2>1. UNCHANGED <<clients, told, current, bits, sock, stack>>
    BY <1>1 DEF vars, Terminated, ExitProcess
  <2> QED
    BY <1>0, <2>1, LoopsSame, ToldSame DEF Open
<1>2. CASE InitProcess \/ ReconnectTimer
  <2>1. /\ UNCHANGED <<clients, told, current, bits, sock>> /\ stack = <<>>
        /\ stack' = <<Act("connect")>>
    BY <1>2 DEF InitProcess, ReconnectTimer, Idle, ControlInv, Mode
  <2>2. Act("connect") \in Frame /\ Act("connect").op = "connect"
    BY FrameTypes DEF Ops
  <2>3. Loops(stack) = {}
    BY <2>1, FramesEmpty
  <2>4. Loops(stack') = Loops(stack)
    BY <1>0, <2>1, <2>2, <2>3, LoopsSame DEF LoopOps
  <2> QED
    BY <2>1, <2>4, ToldSame DEF Open
<1>3. CASE CallbackReturn
  <2>1. /\ UNCHANGED <<clients, told, current, bits, sock>> /\ stack # <<>>
        /\ Top.op = "callback" /\ stack' = Tail(stack)
    BY <1>3 DEF CallbackReturn, At, Return
  <2>2. Loops(stack') = Loops(stack)
    BY <1>0, <2>1, LoopsSame DEF LoopOps
  <2> QED
    BY <2>1, <2>2, ToldSame DEF Open
<1>4. CASE Dispatch
  <2>1. CASE bits' = Ready /\ bits # Ready
    <3>1. ProcessPong
      BY <1>4, <2>1 DEF Dispatch, ProcessEnd, ProcessSkip, ProcessOk, ProcessInfo, ProcessPing,
         ProcessErr, ProcessBad, ProcessMsg, ReadyLoop
    <3> QED
      BY <2>1, <3>1, ToldPong
  <2> QED
    BY <1>4, <2>1, ToldReady, ToldDispatch
<1> QED
  BY <1>1, <1>2, <1>3, <1>4, ToldConnect, ToldFlush, ToldRecv, ToldTearDown, ToldClient,
     ToldEvent, ToldNetwork DEF Next, Step, Timer, Event

-----------------------------------------------------------------------------
(* What is written is sent *)

\* A stack that has somebody on it who flushes the write buffer or drops it
Sender(s) == \E f \in Frames(s) : f.op \in {"flush", "recv", "close"}

\* A reader on s that found bytes to send when it started
Late(s) == \E f \in Frames(s) : f.op = "recv" /\ f.i # 0

LEMMA WriteParts ==
    ASSUME WriteInv, ~halfway
    PROVE  (Late(stack) => Blocked) /\ (wbuf = <<>> \/ Blocked \/ Sender(stack))
BY DEF WriteInv, Late, Sender

LEMMA WriteOn ==
    ASSUME ~halfway' => /\ Late(stack') => Blocked'
                        /\ wbuf' = <<>> \/ Blocked' \/ Sender(stack')
    PROVE  WriteInv'
BY DEF WriteInv, Late, Sender

LEMMA SenderPush ==
    ASSUME NEW s \in Seq(Frame), NEW f \in Frame
    PROVE  /\ Sender(<<f>> \o s) <=> Sender(s) \/ f.op \in {"flush", "recv", "close"}
           /\ Late(<<f>> \o s) <=> Late(s) \/ (f.op = "recv" /\ f.i # 0)
<1>1. Frames(<<f>> \o s) = Frames(s) \cup {f}
  BY FramesPush
<1> QED
  BY <1>1 DEF Sender, Late

LEMMA SenderPushTwo ==
    ASSUME NEW s \in Seq(Frame), NEW f \in Frame, NEW g \in Frame, f.op # "recv", g.op # "recv"
    PROVE  /\ Sender(<<f, g>> \o s) <=> Sender(s) \/ f.op \in {"flush", "close"}
                                                  \/ g.op \in {"flush", "close"}
           /\ Late(<<f, g>> \o s) <=> Late(s)
<1>1. <<g>> \o s \in Seq(Frame)
  BY FramesPush
<1>2. /\ Sender(<<g>> \o s) <=> Sender(s) \/ g.op \in {"flush", "close"}
      /\ Late(<<g>> \o s) <=> Late(s)
  BY SenderPush
<1>3. /\ Sender(<<f>> \o (<<g>> \o s)) <=> Sender(<<g>> \o s) \/ f.op \in {"flush", "close"}
      /\ Late(<<f>> \o (<<g>> \o s)) <=> Late(<<g>> \o s)
  BY <1>1, SenderPush
<1>4. <<f, g>> \o s = <<f>> \o (<<g>> \o s)
  BY FramesTwo
<1> QED
  BY <1>2, <1>3, <1>4

LEMMA SenderPop ==
    ASSUME NEW s \in Seq(Frame), s # <<>>
    PROVE  /\ Sender(s) <=> Sender(Tail(s)) \/ Head(s).op \in {"flush", "recv", "close"}
           /\ Late(s) <=> Late(Tail(s)) \/ (Head(s).op = "recv" /\ Head(s).i # 0)
<1>1. Frames(s) = Frames(Tail(s)) \cup {Head(s)}
  BY FramesPop
<1> QED
  BY <1>1 DEF Sender, Late

LEMMA SenderNone == ~Sender(<<>>) /\ ~Late(<<>>)
BY FramesEmpty DEF Sender, Late

LEMMA SenderOne ==
    ASSUME NEW f \in Frame
    PROVE  /\ Sender(<<f>>) <=> f.op \in {"flush", "recv", "close"}
           /\ Late(<<f>>) <=> f.op = "recv" /\ f.i # 0
<1>1. Frames(<<f>>) = {f}
  BY DEF Frames
<1> QED
  BY <1>1 DEF Sender, Late

\* An event stays pending, a full socket full.
LEMMA BlockedStays ==
    ASSUME Blocked, \A c \in Socks : sock'[c].st # "free" =>
              sock[c].st # "free" /\ (sock[c].full \/ sock[c].wev => sock'[c].full \/ sock'[c].wev)
    PROVE  Blocked'
BY DEF Blocked, Open

\* Nothing is blocked where nothing is open.
LEMMA BlockedClosed ==
    ASSUME \A c \in Socks : sock'[c].st = "free"
    PROVE  Blocked'
BY DEF Blocked, Open

LEMMA WriteConnect ==
    ASSUME TypeInv, ControlInv, Connect
    PROVE  WriteInv'
<1>0. At("connect")
  BY DEF Connect, ConnectGiveUp, ConnectDeclined, ConnectInProgress, ConnectAtOnce, Attempt
<1>1. Tail(stack) = <<>> /\ (\A c \in Socks : sock[c].st = "free") /\ <<>> \in Seq(Frame)
  BY <1>0, DiallingFacts, EmptySeq DEF Open
<1>2. CASE ConnectGiveUp \/ ConnectDeclined
  BY <1>1, <1>2, BlockedClosed, WriteOn DEF ConnectGiveUp, ConnectDeclined
<1>3. CASE ConnectInProgress
  BY <1>1, <1>3, SenderNone, WriteOn DEF ConnectInProgress, Return
<1>4. CASE ConnectAtOnce
  <2>1. Act("flush") \in Frame /\ Act("flush").op = "flush"
    BY FrameTypes DEF Ops
  <2>2. Sender(stack') /\ ~Late(stack')
    BY <1>1, <1>4, <2>1, SenderPush, SenderNone DEF ConnectAtOnce, Jump
  <2> QED
    BY <2>2, WriteOn
<1> QED
  BY <1>2, <1>3, <1>4 DEF Connect

LEMMA WriteFlush ==
    ASSUME TypeInv, ControlInv, HandshakeInv, WriteInv, Flush
    PROVE  WriteInv'
<1> USE DEF histVars
<1>0. At("flush") /\ halfway' = halfway
  BY DEF Flush, FlushNothing, FlushError, FlushSome, FlushAgain
<1>1. /\ Live /\ conn \in Socks /\ sock[conn] \in Sock /\ sock[conn].st # "free" /\ stack # <<>>
      /\ sock \in [Socks -> Sock] /\ stack \in Seq(Frame) /\ Top.op = "flush"
      /\ \A c \in Socks : sock[c].st # "free" => c = conn
  BY <1>0, WorkFacts DEF At
<1> SUFFICES ASSUME ~halfway
             PROVE  (Late(stack') => Blocked') /\ (wbuf' = <<>> \/ Blocked' \/ Sender(stack'))
  BY <1>0, WriteOn
<1>2. Late(stack) => Blocked
  BY WriteParts
<1>3. Tail(stack) \in Seq(Frame) /\ (Late(Tail(stack)) <=> Late(stack))
  BY <1>1, SenderPop, Popped DEF Top
<1>4. /\ \A r \in Reasons : Close(r) \in Frame /\ Close(r).op = "close"
      /\ {"DISCONNECTED", "INTERNAL_ERROR"} \subseteq Reasons
  BY FrameTypes DEF Reasons
<1>5. CASE FlushNothing
  BY <1>2, <1>3, <1>5 DEF FlushNothing, Return, Blocked, Open
<1>6. CASE FlushError
  <2>1. stack' = <<Close("DISCONNECTED")>> \o Tail(stack) /\ UNCHANGED sock
    BY <1>6 DEF FlushError, Jump
  <2>2. Sender(stack') /\ (Late(stack') <=> Late(stack))
    BY <1>3, <1>4, <2>1, SenderPush
  <2> QED
    BY <1>2, <2>1, <2>2 DEF Blocked, Open
<1>7. CASE FlushAgain
  <2>1. /\ wbuf # <<>> /\ (sock[conn].full \/ sock[conn].st = "syn")
        /\ sock' = [sock EXCEPT ![conn] = [sock[conn] EXCEPT !.wtimer = TRUE]]
    BY <1>7 DEF FlushAgain, SetSock
  <2>2. sock[conn].full
    <3>1. CASE sock[conn].st = "syn"
      <4>1. bits = {}
        BY <1>1, <3>1, HandshakeOf
      <4>2. wbuf = <<>>
        BY <1>1, <4>1, HandshakeOf
      <4> QED
        BY <2>1, <4>2
    <3> QED
      BY <2>1, <3>1
  <2>3. sock'[conn].full /\ \A d \in Socks : d # conn => sock'[d] = sock[d]
    BY <1>1, <2>1, <2>2 DEF Sock
  <2>4. Blocked'
    BY <1>1, <2>3 DEF Blocked, Open
  <2> QED
    BY <2>4
<1>8. CASE FlushSome
  <2>0. PICK k \in 0 .. Len(wbuf) :
          /\ wbuf' = SubSeq(wbuf, k + 1, Len(wbuf))
          /\ \E p : sock' = [sock EXCEPT ![conn] = [sock[conn] EXCEPT !.full = k < Len(wbuf), !.peer = p]]
    BY <1>8 DEF FlushSome, SetSock
  <2>1. PICK p :
          /\ wbuf' = SubSeq(wbuf, k + 1, Len(wbuf))
          /\ sock' = [sock EXCEPT ![conn] = [sock[conn] EXCEPT !.full = k < Len(wbuf), !.peer = p]]
    BY <2>0
  <2>2. ~sock[conn].full /\ Len(wbuf) \in Nat
    BY <1>8, LenProperties DEF FlushSome, TypeInv, TypeOK
  <2>3. /\ sock'[conn].full = (k < Len(wbuf)) /\ sock'[conn].wev = sock[conn].wev
        /\ \A d \in Socks : d # conn => sock'[d] = sock[d]
    BY <1>1, <2>1 DEF Sock
  <2>4. CASE k < Len(wbuf)
    BY <1>1, <2>3, <2>4 DEF Blocked, Open
  <2>5. CASE k = Len(wbuf)
    <3>1. wbuf' = <<>>
      <4>1. Len(wbuf) < k + 1 /\ k + 1 \in Int /\ Len(wbuf) \in Int
        BY <2>2, <2>5
      <4> QED
        BY <2>1, <4>1, SubSeqEmpty
    <3>2. Blocked => Blocked'
      BY <1>1, <2>2, <2>3 DEF Blocked, Open
    <3>3. Late(stack') => Late(stack)
      <4>1. stack' = Tail(stack) \/ stack' = <<Close("INTERNAL_ERROR")>> \o Tail(stack)
        BY <1>8 DEF FlushSome, Return, Jump
      <4>2. Late(<<Close("INTERNAL_ERROR")>> \o Tail(stack)) <=> Late(Tail(stack))
        BY <1>3, <1>4, SenderPush
      <4> QED
        BY <1>3, <4>1, <4>2
    <3> QED
      BY <1>2, <3>1, <3>2, <3>3
  <2> QED
    BY <2>2, <2>4, <2>5
<1> QED
  BY <1>5, <1>6, <1>7, <1>8 DEF Flush

LEMMA WriteEvents ==
    ASSUME TypeInv, ControlInv, WriteInv,
           PingTimer \/ \E c \in Socks : ReadEvent(c) \/ WriteEvent(c) \/ WriteTimeout(c)
    PROVE  WriteInv'
<1> USE DEF histVars
<1>0. /\ stack = <<>> /\ halfway' = halfway
      /\ wbuf \in Seq(Outs) /\ Len(wbuf) \in Nat
  BY LenProperties DEF PingTimer, ReadEvent, WriteEvent, WriteTimeout, Idle, TypeInv, TypeOK
<1> SUFFICES ASSUME ~halfway
             PROVE  (Late(stack') => Blocked') /\ (wbuf' = <<>> \/ Blocked' \/ Sender(stack'))
  BY <1>0, WriteOn
<1>1. wbuf = <<>> \/ Blocked
  BY <1>0, WriteParts, SenderNone
<1>2. /\ \A r \in Reasons : Close(r) \in Frame /\ Close(r).op = "close"
      /\ {"CONNECT_FAILED", "WRITE_TIMEOUT"} \subseteq Reasons
      /\ Act("flush") \in Frame /\ Act("flush").op = "flush"
  BY FrameTypes DEF Ops, Reasons
<1>3. CASE PingTimer
  BY <1>0, <1>1, <1>3, SenderNone DEF PingTimer, Blocked, Open
<1>4. CASE \E c \in Socks : WriteEvent(c)
  <2>1. stack' = <<Act("flush")>>
    BY <1>4 DEF WriteEvent
  <2> QED
    BY <1>2, <2>1, SenderOne
<1>5. CASE \E c \in Socks : WriteTimeout(c)
  <2>1. stack' = <<Close("WRITE_TIMEOUT")>>
    BY <1>5 DEF WriteTimeout
  <2> QED
    BY <1>2, <2>1, SenderOne
<1>6. ASSUME NEW c \in Socks, ReadEvent(c)
      PROVE  (Late(stack') => Blocked') /\ Sender(stack')
  <2>1. UNCHANGED sock /\ (stack' = <<Close("CONNECT_FAILED")>> \/ stack' = <<RecvCall(c)>>)
    BY <1>6 DEF ReadEvent
  <2>2. RecvCall(c) \in Frame /\ RecvCall(c).op = "recv" /\ RecvCall(c).i = Len(wbuf)
    BY <1>0, RecvFrame DEF RecvCall
  <2>3. Blocked' <=> Blocked
    BY <2>1 DEF Blocked, Open
  <2>4. CASE stack' = <<Close("CONNECT_FAILED")>>
    BY <1>2, <2>4, SenderOne
  <2>5. CASE stack' = <<RecvCall(c)>>
    <3>1. Late(stack') => Len(wbuf) # 0
      BY <2>2, <2>5, SenderOne
    <3>2. Len(<<>>) = 0
      OBVIOUS
    <3> QED
      BY <1>1, <2>2, <2>3, <2>5, <3>1, <3>2, SenderOne
  <2> QED
    BY <2>1, <2>4, <2>5
<1> QED
  BY <1>3, <1>4, <1>5, <1>6

LEMMA WriteRecv ==
    ASSUME TypeInv, ControlInv, WriteInv, Recv
    PROVE  WriteInv'
<1> USE DEF histVars
<1>0. At("recv") /\ halfway' = halfway
  BY DEF Recv, RecvData, RecvAgain, RecvEnd
<1>1. /\ conn \in Socks /\ sock[conn] \in Sock /\ stack # <<>> /\ Top = stack[1]
      /\ sock \in [Socks -> Sock] /\ stack \in Seq(Frame) /\ Top.op = "recv"
      /\ Working /\ Len(stack) \in Nat \ {0}
  BY <1>0, WorkFacts DEF At
<1>2. Tail(stack) = <<>> /\ Tail(stack) \in Seq(Frame) /\ Top \in Frame
  BY <1>1, TopShape, Popped DEF Top
<1> SUFFICES ASSUME ~halfway
             PROVE  (Late(stack') => Blocked') /\ (wbuf' = <<>> \/ Blocked' \/ Sender(stack'))
  BY <1>0, WriteOn
<1>3. Late(stack) => Blocked
  BY WriteParts
<1>4. Sender(stack) /\ (Late(stack) <=> Top.i # 0)
  BY <1>1, <1>2, SenderPop, SenderNone DEF Top
<1>5. /\ \A r \in Reasons : Close(r) \in Frame /\ Close(r).op = "close"
      /\ {"DISCONNECTED", "INTERNAL_ERROR"} \subseteq Reasons
      /\ Act("flush") \in Frame /\ Act("flush").op = "flush"
      /\ Process(0) \in Frame /\ Process(0).op = "process"
  BY FrameTypes DEF Reasons, Ops
<1>6. ASSUME NEW f \in Frame, f.op \in {"flush", "close"}, stack' = <<f>> \o Tail(stack)
      PROVE  ~Late(stack') /\ Sender(stack')
  BY <1>2, <1>6, SenderPush, SenderNone
<1>7. CASE RecvEnd
  <2>1. stack' = <<Close("DISCONNECTED")>> \o Tail(stack)
    BY <1>7 DEF RecvEnd, Jump
  <2> QED
    BY <1>5, <1>6, <2>1
<1>8. CASE RecvAgain
  <2>1. UNCHANGED <<sock, wbuf>>
    BY <1>8 DEF RecvAgain
  <2>2. CASE stack' = Tail(stack) /\ ~(Top.i < Len(wbuf))
    <3>1. wbuf # <<>> => Blocked
      <4>1. Len(wbuf) \in Nat /\ Top.i \in Nat /\ (wbuf # <<>> => Len(wbuf) # 0)
        BY <1>2, EmptySeq, LenProperties DEF TypeInv, TypeOK, Frame
      <4>2. wbuf # <<>> => Top.i # 0
        BY <2>2, <4>1
      <4> QED
        BY <1>3, <1>4, <4>2
    <3> QED
      BY <1>2, <2>1, <2>2, <3>1, SenderNone DEF Blocked, Open
  <2>3. CASE stack' = <<Act("flush")>> \o Tail(stack)
    BY <1>5, <1>6, <2>3
  <2>4. CASE stack' = <<Close("INTERNAL_ERROR")>> \o Tail(stack)
    BY <1>5, <1>6, <2>4
  <2> QED
    BY <1>8, <2>2, <2>3, <2>4 DEF RecvAgain, Jump, Return
<1>9. CASE RecvData
  <2>0. Top.c = conn
    BY <1>1 DEF ControlInv, Reader, Reading
  <2>1. PICK q : sock' = [sock EXCEPT ![conn] = [sock[conn] EXCEPT !.inq = q]]
    BY <1>9, <2>0 DEF RecvData, SetSock
  <2>2. /\ sock'[conn].full = sock[conn].full /\ sock'[conn].wev = sock[conn].wev
        /\ sock'[conn].st = sock[conn].st /\ \A d \in Socks : d # conn => sock'[d] = sock[d]
    BY <1>1, <2>1 DEF Sock
  <2>3. Blocked => Blocked'
    BY <2>2, BlockedStays
  <2>4. stack' = <<Process(0)>> \o stack
    BY <1>9 DEF RecvData, Call
  <2>5. Sender(stack') /\ (Late(stack') <=> Late(stack))
    BY <1>1, <1>4, <1>5, <2>4, SenderPush
  <2> QED
    BY <1>3, <2>3, <2>5
<1> QED
  BY <1>7, <1>8, <1>9 DEF Recv

\* A step that leaves buffer and socket alone
LEMMA WriteSame ==
    ASSUME WriteInv, UNCHANGED <<wbuf, sock, halfway>>,
           Late(stack') => Late(stack), Sender(stack) => Sender(stack')
    PROVE  WriteInv'
<1>1. Blocked' <=> Blocked
  BY DEF Blocked, Open
<1> QED
  BY <1>1, WriteParts, WriteOn

LEMMA WriteDispatch ==
    ASSUME TypeInv, ControlInv, WriteInv, Dispatch
    PROVE  WriteInv'
<1> USE DEF histVars
<1>0. /\ \A r \in Reasons : Close(r) \in Frame /\ Close(r).op = "close"
      /\ {"CONNECT_REFUSED", "BAD_PROTOCOL"} \subseteq Reasons
      /\ Process(0) \in Frame /\ Process(0).op = "process"
      /\ Process(1) \in Frame /\ Process(1).op = "process"
      /\ \A cb \in Callbacks : Callback(cb) \in Frame /\ Callback(cb).op = "callback"
      /\ Loop("ready", "none") \in Frame /\ Loop("ready", "none").op = "ready"
      /\ "msg" \in Callbacks /\ "connected" \in Callbacks
  BY FrameTypes, LoopFrames DEF Reasons, Ops, Callbacks, TypeInv, TypeOK
<1>1. CASE ReadyLoop
  <2>1. /\ Running /\ stack # <<>> /\ Top.op = "ready" /\ UNCHANGED <<wbuf, sock, halfway>>
        /\ \/ stack' = Tail(stack)
           \/ stack' = <<Callback("connected"), [Top EXCEPT !.i = @ + 1]>> \o Tail(stack)
    BY <1>1 DEF ReadyLoop, At, Invoke, Return
  <2>2. stack \in Seq(Frame) /\ Tail(stack) \in Seq(Frame) /\ Top \in Frame
    BY <2>1, WorkFacts, Popped DEF Top
  <2>3. (Late(Tail(stack)) <=> Late(stack)) /\ (Sender(Tail(stack)) <=> Sender(stack))
    BY <2>1, <2>2, SenderPop DEF Top
  <2> DEFINE f == [Top EXCEPT !.i = @ + 1]
             g == Callback("connected")
  <2>4. f \in Frame /\ f.op = "ready" /\ g \in Frame /\ g.op = "callback"
    BY <1>0, <2>1, <2>2, NextFrames
  <2> HIDE DEF f, g
  <2>5. /\ Late(<<g, f>> \o Tail(stack)) <=> Late(Tail(stack))
        /\ Sender(<<g, f>> \o Tail(stack)) <=> Sender(Tail(stack))
    BY <2>2, <2>4, SenderPushTwo
  <2>6. (Late(stack') => Late(stack)) /\ (Sender(stack) => Sender(stack'))
    BY <2>1, <2>3, <2>5 DEF f, g
  <2> QED
    BY <2>1, <2>6, WriteSame
<1>2. CASE ~ReadyLoop
  <2>1. At("process") /\ UNCHANGED <<sock, halfway>>
    BY <1>2 DEF Dispatch, ProcessEnd, ProcessSkip, ProcessOk, ProcessInfo, ProcessPing, ProcessPong,
       ProcessErr, ProcessBad, ProcessMsg, Parsed
  <2>2. /\ stack # <<>> /\ Top.op = "process" /\ stack \in Seq(Frame) /\ Tail(stack) \in Seq(Frame)
        /\ Tail(stack) # <<>> /\ Tail(Tail(stack)) = <<>> /\ Tail(stack)[1].op = "recv"
    BY <2>1, ProcessFacts
  <2>3. Sender(Tail(stack)) /\ Sender(stack) /\ (Late(Tail(stack)) <=> Late(stack))
    BY <2>2, SenderPop, Popped DEF Top
  <2>4. \/ stack' = stack
        \/ stack' = Tail(stack)
        \/ stack' = <<Process(0)>> \o Tail(stack)
        \/ stack' = <<Callback("msg"), Process(1)>> \o Tail(stack)
        \/ stack' = <<Loop("ready", "none"), Process(1)>> \o Tail(stack)
        \/ \E r \in Reasons : stack' = <<Close(r), Close("BAD_PROTOCOL")>> \o <<>>
    <3>1. CASE ProcessEnd \/ ProcessSkip \/ ProcessOk \/ ProcessInfo \/ ProcessPing
      BY <3>1 DEF ProcessEnd, ProcessSkip, ProcessOk, ProcessInfo, ProcessPing, Return, Jump
    <3>2. CASE ProcessErr \/ ProcessBad
      BY <1>0, <2>2, <3>2 DEF ProcessErr, ProcessBad, CloseTwice
    <3>3. CASE ProcessMsg \/ ProcessPong
      BY <3>3 DEF ProcessMsg, ProcessPong, Invoke
    <3> QED
      BY <1>2, <3>1, <3>2, <3>3 DEF Dispatch
  <2>5. /\ Late(<<Process(0)>> \o Tail(stack)) <=> Late(Tail(stack))
        /\ Sender(<<Process(0)>> \o Tail(stack)) <=> Sender(Tail(stack))
    BY <1>0, <2>2, SenderPush
  <2>6. /\ Late(<<Callback("msg"), Process(1)>> \o Tail(stack)) <=> Late(Tail(stack))
        /\ Sender(<<Callback("msg"), Process(1)>> \o Tail(stack)) <=> Sender(Tail(stack))
    BY <1>0, <2>2, SenderPushTwo
  <2>7. /\ Late(<<Loop("ready", "none"), Process(1)>> \o Tail(stack)) <=> Late(Tail(stack))
        /\ Sender(<<Loop("ready", "none"), Process(1)>> \o Tail(stack)) <=> Sender(Tail(stack))
    BY <1>0, <2>2, SenderPushTwo
  <2>8. \A r \in Reasons : /\ ~Late(<<Close(r), Close("BAD_PROTOCOL")>> \o <<>>)
                           /\ Sender(<<Close(r), Close("BAD_PROTOCOL")>> \o <<>>)
    <3>1. <<>> \in Seq(Frame)
      BY EmptySeq
    <3> QED
      BY <1>0, <3>1, SenderPushTwo, SenderNone
  <2>9. Sender(stack') /\ (Late(stack') => Late(stack))
    BY <2>3, <2>4, <2>5, <2>6, <2>7, <2>8
  <2>10. Blocked' <=> Blocked
    BY <2>1 DEF Blocked, Open
  <2> QED
    BY <2>1, <2>9, <2>10, WriteParts, WriteOn
<1> QED
  BY <1>1, <1>2

LEMMA WriteClient ==
    ASSUME TypeInv, ControlInv, GoodEnvironment, WriteInv, Client
    PROVE  WriteInv'
<1> USE DEF histVars
<1>0. stack \in Seq(Frame) /\ UNCHANGED sock /\ (Blocked' <=> Blocked)
  BY ClientWrites DEF TypeInv, TypeOK, Blocked, Open
<1>1. /\ Act("flush") \in Frame /\ Act("flush").op = "flush"
      /\ Callback("connected") \in Frame /\ Callback("connected").op = "callback"
  BY FrameTypes DEF Ops, Callbacks
<1>2. /\ Sender(<<Act("flush")>> \o stack) /\ (Late(<<Act("flush")>> \o stack) <=> Late(stack))
      /\ Sender(<<Callback("connected")>> \o stack) <=> Sender(stack)
      /\ Late(<<Callback("connected")>> \o stack) <=> Late(stack)
  BY <1>0, <1>1, SenderPush
<1>3. \/ halfway'
      \/ UNCHANGED halfway /\ stack' = <<Act("flush")>> \o stack
      \/ UNCHANGED <<halfway, wbuf>> /\ (stack' = stack \/ stack' = <<Callback("connected")>> \o stack)
  BY DEF Client, Publish, Subscribe, Unsubscribe, AddClient, Call
<1>4. CASE halfway'
  BY <1>4, WriteOn
<1>5. CASE UNCHANGED halfway /\ stack' = <<Act("flush")>> \o stack
  BY <1>0, <1>2, <1>5, WriteParts, WriteOn
<1>6. CASE UNCHANGED <<halfway, wbuf>> /\ (stack' = stack \/ stack' = <<Callback("connected")>> \o stack)
  BY <1>0, <1>2, <1>6, WriteSame
<1> QED
  BY <1>3, <1>4, <1>5, <1>6

LEMMA WriteNetwork ==
    ASSUME TypeInv, ControlInv, WriteInv, Network
    PROVE  WriteInv'
<1>1. PICK c \in Socks :
        \/ Establish(c) \/ Refuse(c) \/ Drain(c) \/ AnswerConnect(c) \/ RefuseConnect(c)
        \/ ServerCloses(c) \/ ServerResets(c) \/ \E m \in Chat : ServerSays(c, m)
  BY DEF Network
<1>2. sock[c].st # "free" /\ sock \in [Socks -> Sock] /\ sock[c] \in Sock
  BY <1>1, Marked DEF Establish, Refuse, Drain, AnswerConnect, RefuseConnect, ServerCloses,
     ServerResets, ServerSays, TypeInv, TypeOK
<1>3. /\ \A d \in Socks : d # c => sock'[d] = sock[d]
      /\ sock'[c].wev \/ (sock'[c].full = sock[c].full /\ sock'[c].wev = sock[c].wev)
  <2>1. CASE Establish(c) \/ Refuse(c) \/ Drain(c) \/ ServerCloses(c) \/ ServerResets(c)
    BY <1>2, <2>1 DEF Establish, Refuse, Drain, ServerCloses, ServerResets, SetSock, Sock
  <2>2. CASE AnswerConnect(c) \/ RefuseConnect(c) \/ \E m \in Chat : ServerSays(c, m)
    <3>1. PICK p, q : \/ sock' = [sock EXCEPT ![c] = [sock[c] EXCEPT !.peer = p, !.inq = q]]
                      \/ sock' = [sock EXCEPT ![c] = [sock[c] EXCEPT !.inq = q]]
      BY <2>2 DEF AnswerConnect, RefuseConnect, ServerSays, SetSock
    <3> QED
      BY <1>2, <3>1 DEF Sock
  <2> QED
    BY <1>1, <2>1, <2>2
<1>4. Blocked => Blocked'
  BY <1>2, <1>3, BlockedStays
<1>5. UNCHANGED <<stack, wbuf, halfway>>
  BY NetworkFacts
<1> QED
  BY <1>4, <1>5, WriteParts, WriteOn

LEMMA WriteNext ==
    ASSUME TypeInv, ControlInv, GoodEnvironment, HandshakeInv, WriteInv, [Next]_vars
    PROVE  WriteInv'
<1> USE DEF histVars
<1>0. stack \in Seq(Frame)
  BY DEF TypeInv, TypeOK
<1>1. CASE UNCHANGED vars \/ Terminated \/ ExitProcess
  <2>1. UNCHANGED <<wbuf, sock, halfway, stack>>
    BY <1>1 DEF vars, Terminated, ExitProcess
  <2> QED
    BY <2>1, WriteSame
<1>2. CASE InitProcess \/ ReconnectTimer
  <2>1. UNCHANGED <<wbuf, sock, halfway>> /\ stack = <<>> /\ stack' = <<Act("connect")>>
    BY <1>2 DEF InitProcess, ReconnectTimer, Idle, ControlInv, Mode
  <2>2. Act("connect") \in Frame /\ Act("connect").op = "connect"
    BY FrameTypes DEF Ops
  <2>3. ~Late(stack') /\ ~Sender(stack)
    BY <2>1, <2>2, SenderOne, SenderNone
  <2> QED
    BY <2>1, <2>3, WriteSame
<1>3. CASE CallbackReturn
  <2>1. UNCHANGED <<wbuf, sock, halfway>> /\ stack # <<>> /\ Top.op = "callback" /\ stack' = Tail(stack)
    BY <1>3 DEF CallbackReturn, At, Return
  <2>2. (Late(stack') => Late(stack)) /\ (Sender(stack) => Sender(stack'))
    BY <1>0, <2>1, SenderPop DEF Top
  <2> QED
    BY <2>1, <2>2, WriteSame
<1>4. CASE TearDown
  BY <1>4, TornDown, BlockedClosed, WriteOn
<1> QED
  BY <1>1, <1>2, <1>3, <1>4, WriteConnect, WriteFlush, WriteRecv, WriteDispatch, WriteClient,
     WriteEvents, WriteNetwork DEF Next, Step, Timer, Event

-----------------------------------------------------------------------------
(* The theorems *)

LEMMA ClientInit ==
    ASSUME Init
    PROVE  ClientInv
<1>1. /\ stack = <<>> /\ clients = <<>> /\ subs = {} /\ nextId = 0 /\ bits = {} /\ wbuf = <<>>
      /\ told = [cl \in Clients |-> "down"] /\ Open = {}
  BY DEF Init, Open, FreeSock
<1>2. Frames(stack) = {} /\ Loops(stack) = {} /\ Len(clients) = 0
  BY <1>1, FramesEmpty, EmptySeq
<1>3. SubsInv /\ HandshakeInv /\ LoopsInv
  BY <1>1, <1>2 DEF SubsInv, HandshakeInv, LoopsInv
<1>4. ToldInv
  BY <1>1, <1>2 DEF ToldInv, Registered
<1>5. WriteInv
  BY <1>1, <1>2 DEF WriteInv
<1> QED
  BY <1>3, <1>4, <1>5 DEF ClientInv

LEMMA ClientNext ==
    ASSUME TypeInv, ControlInv, ClientInv, GoodEnvironment, [Next]_vars
    PROVE  ClientInv'
BY SubsNext, HandshakeNext, ToldNext, WriteNext DEF ClientInv

\* What the invariant says of a state
LEMMA ClientImplies ==
    ASSUME TypeInv, ControlInv, ClientInv
    PROVE  ClientView /\ NoStaleSubs /\ ReadyAgreed /\ WriteProgress
<1>1. ClientView
  <2> SUFFICES ASSUME Idle, NEW j \in 1 .. Len(clients)
               PROVE  told[clients[j]] = "up" <=> IsReady
    BY DEF ClientView, Registered
  <2>1. Loops(stack) = {}
    BY FramesEmpty DEF Idle
  <2> QED
    BY <2>1 DEF ClientInv, ToldInv
<1>2. NoStaleSubs
  BY DEF ClientInv, SubsInv, NoStaleSubs
<1>3. ReadyAgreed
  BY DEF ClientInv, HandshakeInv, Handshake, ReadyAgreed, IsReady, Ready
<1>4. WriteProgress
  <2> SUFFICES ASSUME Idle, wbuf # <<>>, ~halfway
               PROVE  Blocked
    BY DEF WriteProgress, Blocked
  <2>1. Frames(stack) = {}
    BY FramesEmpty DEF Idle
  <2> QED
    BY <2>1 DEF ClientInv, WriteInv
<1> QED
  BY <1>1, <1>2, <1>3, <1>4

\* ngx_nats_connection_ready calls a client that is on the far side of its loop.
LEMMA ConnectedStep ==
    ASSUME TypeInv, ControlInv, ClientInv, GoodEnvironment, Next,
           At("ready"), Len(stack') > Len(stack)
    PROVE  told[clients[Top.i]] = "down"
<1>1. Running /\ stack # <<>> /\ Top.op = "ready"
  BY DEF At
<1>2. ReadyLoop
  <2>1. ~Idle /\ Len(stack) \in Nat
    BY <1>1, LenProperties DEF Idle, TypeInv, TypeOK
  <2>2. ~Client
    <3>1. Client => Caller
      BY DEF Client, Publish, Subscribe, Unsubscribe, AddClient
    <3> QED
      BY <1>1, <2>1, <3>1 DEF Caller, Idle
  <2>3. ~Network /\ ~Timer /\ ~Event /\ ~InitProcess /\ ~ExitProcess
    BY <1>1, <2>1, NetworkFacts DEF Timer, Event, ReconnectTimer, PingTimer, WriteTimeout, ReadEvent,
       WriteEvent, InitProcess, ExitProcess, Running, Idle
  <2>4. ~Terminated
    BY <2>1 DEF Terminated, vars
  <2>5. ~Connect /\ ~Flush /\ ~Recv /\ ~TearDown /\ ~CallbackReturn
    BY <1>1 DEF At, Connect, ConnectGiveUp, ConnectDeclined, ConnectInProgress,
       ConnectAtOnce, Attempt, Flush, FlushNothing, FlushError, FlushSome, FlushAgain,
       Recv, RecvData, RecvAgain, RecvEnd, TearDown, CloseSocket, CloseNotify, CloseFinish,
       CallbackReturn
  <2>6. Dispatch => ReadyLoop
    BY <1>1 DEF At, Dispatch, ProcessEnd, ProcessSkip, ProcessOk, ProcessInfo, ProcessPing, ProcessPong,
       ProcessErr, ProcessBad, ProcessMsg, Parsed
  <2> QED
    BY <2>2, <2>3, <2>4, <2>5, <2>6 DEF Next, Step
<1>3. /\ Loops(stack) = {<<Top, 2>>} /\ Top.i \in Nat \ {0} /\ Top.n \in Nat
      /\ Top.n <= Len(clients) /\ Len(clients) \in Nat /\ stack \in Seq(Frame)
  BY <1>1, ReadyAlone, LenProperties DEF ClientInv, TypeInv, TypeOK
<1>4. Top.i <= Top.n
  <2> SUFFICES ASSUME stack' = Tail(stack)
               PROVE  FALSE
    BY <1>2, <1>3 DEF ReadyLoop, Return
  <2>1. Len(Tail(stack)) = Len(stack) - 1 /\ Len(stack) \in Nat
    BY <1>1, <1>3, HeadTailProperties, LenProperties
  <2> QED
    BY <2>1
<1>5. Top.i \in 1 .. Len(clients)
  BY <1>3, <1>4
<1>6. ~Reached(Top, Top.i)
  BY <1>1, <1>3, <1>4 DEF Reached
<1>7. \E p \in Loops(stack) : ~Reached(p[1], Top.i)
  <2>1. <<Top, 2>>[1] = Top
    OBVIOUS
  <2> QED
    BY <1>3, <1>6, <2>1
<1>8. told[clients[Top.i]] # "up"
  BY <1>5, <1>7 DEF ClientInv, ToldInv
<1> QED
  BY <1>3, <1>5, <1>8, ElementOfSeq DEF TypeInv, TypeOK

\* Registered clients, subscriptions, the handshake and the write buffer stay
\* consistent in every state, in the middle of a handler too: the invariant
\* that the theorems below rest on.
THEOREM ClientCorrect ==
    ASSUME GoodEnvironment
    PROVE  Spec => [](TypeInv /\ ControlInv /\ ClientInv)
<1>1. Init => TypeInv /\ ControlInv /\ ClientInv
  BY TypeInit, ControlInit, ClientInit
<1>2. TypeInv /\ ControlInv /\ ClientInv /\ [Next]_vars => TypeInv' /\ ControlInv' /\ ClientInv'
  BY TypeNext, ControlNext, ClientNext
<1> QED
  BY <1>1, <1>2, PTL DEF Spec

\* Between handlers every client that ngx_nats_add_client has registered knows
\* whether ngx_nats_publish would be accepted, whichever loop its registration
\* fell into.
THEOREM ClientViewCorrect ==
    ASSUME GoodEnvironment
    PROVE  Spec => []ClientView
<1>1. Spec => [](TypeInv /\ ControlInv /\ ClientInv)
  BY ClientCorrect
<1>2. TypeInv /\ ControlInv /\ ClientInv => ClientView
  BY ClientImplies
<1> QED
  BY <1>1, <1>2, PTL

\* ngx_nats_close_connection leaves no subscription to the next connection.
THEOREM NoStaleSubsCorrect ==
    ASSUME GoodEnvironment
    PROVE  Spec => []NoStaleSubs
<1>1. Spec => [](TypeInv /\ ControlInv /\ ClientInv)
  BY ClientCorrect
<1>2. TypeInv /\ ControlInv /\ ClientInv => NoStaleSubs
  BY ClientImplies
<1> QED
  BY <1>1, <1>2, PTL

\* The state bits say READY only on a connection whose CONNECT the server has
\* answered.
THEOREM ReadyAgreedCorrect ==
    ASSUME GoodEnvironment
    PROVE  Spec => []ReadyAgreed
<1>1. Spec => [](TypeInv /\ ControlInv /\ ClientInv)
  BY ClientCorrect
<1>2. TypeInv /\ ControlInv /\ ClientInv => ReadyAgreed
  BY ClientImplies
<1> QED
  BY <1>1, <1>2, PTL

\* No handler leaves bytes behind that nothing will send, as long as no call
\* failed halfway on the connection.
THEOREM WriteProgressCorrect ==
    ASSUME GoodEnvironment
    PROVE  Spec => []WriteProgress
<1>1. Spec => [](TypeInv /\ ControlInv /\ ClientInv)
  BY ClientCorrect
<1>2. TypeInv /\ ControlInv /\ ClientInv => WriteProgress
  BY ClientImplies
<1> QED
  BY <1>1, <1>2, PTL

\* ngx_nats_connection_ready calls `connected` only in clients that have not had
\* it: the bound it takes before the loop leaves out those that are added
\* from a callback, whom ngx_nats_add_client tells itself.
THEOREM ConnectedOnceCorrect ==
    ASSUME GoodEnvironment
    PROVE  Spec => ConnectedOnce
<1>1. Spec => [](TypeInv /\ ControlInv /\ ClientInv)
  BY ClientCorrect
<1>2. TypeInv /\ ControlInv /\ ClientInv /\ [Next]_vars =>
        [At("ready") /\ Len(stack') > Len(stack) => told[clients[Top.i]] = "down"]_vars
  BY ConnectedStep
<1> QED
  BY <1>1, <1>2, PTL DEF Spec, ConnectedOnce

=============================================================================
