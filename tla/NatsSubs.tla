----------------------------- MODULE NatsSubs ------------------------------
(***************************************************************************)
(* The client interface from end to end: ngx_nats_subscribe, unsubscribe   *)
(* and publish with the table of subscriptions behind them, the two        *)
(* streams of a connection, the server's own table, and                    *)
(* ngx_nats_process_msg, which finds the handler of a message.             *)
(*                                                                         *)
(* NatsComm models when a connection is ready and when it is lost; here    *)
(* that is `up`.  What a call writes is the sequence of its                *)
(* ngx_nats_add_message calls; flush and recv() (NatsWriteBuf,             *)
(* NatsReadBuf) hand the bytes on in order, so `out` and `in` are what is  *)
(* under way.  A message handler calls the interface as its last act, so   *)
(* its calls are the calls made right after it.                            *)
(***************************************************************************)
EXTENDS Integers, Sequences, FiniteSets

CONSTANTS
    Clients,        \* ngx_nats_client_t's
    Maxima,         \* values of `max` that clients ask for
    Lengths,        \* lengths of the payloads that clients publish
    Strings,        \* strlen(data) when a payload of length 0 is published
    StaleHandles,   \* do clients use sids of a connection that is gone?
    OsFaults,       \* may an allocation fail?
    MaxSubs,        \* bound: subscriptions made
    MaxOut,         \* bound: lines under way to the server
    MaxIn,          \* bound: messages under way to the client
    MaxSent,        \* bound: messages for one subscription
    NoCall          \* no message handler has been called yet

ASSUME SubsAssumption ==
    /\ Maxima \subseteq Nat /\ Lengths \subseteq Nat /\ Strings \subseteq Nat
    /\ MaxSubs \in Nat /\ MaxOut \in Nat /\ MaxIn \in Nat /\ MaxSent \in Nat
    /\ StaleHandles \in BOOLEAN /\ OsFaults \in BOOLEAN
    /\ NoCall \notin Nat

VARIABLES
    up,       \* nd->nc is set and ready
    next_id,  \* cd->next_id
    slots,    \* cd->subs; sid 0 marks a slot that is free
    handles,  \* the sids each client was given by ngx_nats_subscribe
    base,     \* subscriptions made on earlier connections
    out,      \* written and not yet read by the server
    in,       \* MSGs sent and not yet handled
    srv,      \* the server's subscriptions of this connection
    need,     \* the server waits for need payload bytes and a CRLF; Idle
    garbled,  \* the server could not make sense of the stream
    halfway,  \* a call failed on this connection with a part of it written
    called,   \* the subscription whose handler was called last ...
    meant     \* ... and the one the server had sent the message for

table  == <<next_id, slots, handles, base>>
server == <<srv, need, garbled>>
vars   == <<up, next_id, slots, handles, base, out, in, srv, need, garbled,
            halfway, called, meant>>

Idle == -1

\* client_subscription_data of the subscription with this sid: its number
\* among all that were ever made
Data(sid) == base + sid

Init ==
    /\ up = FALSE
    /\ next_id = 0 /\ slots = <<>> /\ base = 0
    /\ handles = [c \in Clients |-> {}]
    /\ out = <<>> /\ in = <<>>
    /\ srv = [sid \in {} |-> 0] /\ need = Idle /\ garbled = FALSE
    /\ halfway = FALSE /\ called = NoCall /\ meant = NoCall

-----------------------------------------------------------------------------
(* The table of subscriptions *)

\* ngx_nats_get_subscription: the first slot with this sid, if there is one
GetSubscription(sid) ==
    {i \in DOMAIN slots : slots[i].sid = sid /\ \A j \in 1 .. i - 1 : slots[j].sid # sid}

\* ngx_nats_add_subscription: the first free slot, or a new one at the end
AddSubscription ==
    IF GetSubscription(0) = {} THEN {Len(slots) + 1} ELSE GetSubscription(0)

\* cd->subs with slot i set
SetSlot(i, sub) == IF i > Len(slots) THEN Append(slots, sub) ELSE [slots EXCEPT ![i] = sub]

\* s with its fields, and another sid or another number of messages counted
With(s, sid, recv) ==
    [sid |-> sid, client |-> s.client, data |-> s.data, max |-> s.max, recv |-> recv]

FaultyRemoveSubscription(i) == [slots EXCEPT ![i] = With(slots[i], -1, slots[i].recv)]

\* ngx_nats_remove_subscription, in slot i
RemoveSubscription(i) == [slots EXCEPT ![i] = With(slots[i], 0, slots[i].recv)]

-----------------------------------------------------------------------------
(* Client functions.  Each appends its lines with ngx_nats_add_message one *)
(* after the other and returns at the first one that fails.                *)

FaultySub(sid) == [cmd |-> "SUB", sid |-> sid - 1, n |-> Data(sid)]   \* next_id++
FaultyPub(len) == [cmd |-> "PUB", sid |-> 0, n |-> len + 2]           \* counts the CRLF

Sub(sid)        == [cmd |-> "SUB", sid |-> sid, n |-> Data(sid)]
Unsub(sid, max) == [cmd |-> "UNSUB", sid |-> sid, n |-> max]
Pub(len)        == [cmd |-> "PUB", sid |-> 0, n |-> len]
Bytes(n)        == [cmd |-> "bytes", sid |-> 0, n |-> n]
CRLF            == [cmd |-> "crlf", sid |-> 0, n |-> 0]

\* The first k of these lines are written.
WriteLines(lines, k) ==
    /\ k = Len(lines) \/ OsFaults
    /\ Len(out) + Len(lines) <= MaxOut
    /\ out' = out \o SubSeq(lines, 1, k)
    /\ halfway' = (halfway \/ k < Len(lines))

FaultySubscribeLines(sid, max) == <<Sub(sid)>>      \* leaves `max` to the client

SubscribeLines(sid, max) ==
    IF max > 0 THEN <<Sub(sid), Unsub(sid, max)>> ELSE <<Sub(sid)>>

\* a slip: the sid is the number of the slot, and is used again with it
FaultySubscribe(c, max) ==
    /\ up /\ base + next_id < MaxSubs
    /\ next_id' = next_id + 1
    /\ \E i \in AddSubscription :
        /\ slots' = SetSlot(i, [sid |-> i, client |-> c, data |-> Data(next_id'),
                                max |-> max, recv |-> 0])
        /\ WriteLines(SubscribeLines(i, max), Len(SubscribeLines(i, max)))
        /\ handles' = [handles EXCEPT ![c] = @ \cup {i}]
    /\ UNCHANGED <<up, base, in, server, called, meant>>

\* ngx_nats_subscribe.  A call that fails to write keeps its slot.
Subscribe(c, max) ==
    /\ up /\ base + next_id < MaxSubs
    /\ next_id' = next_id + 1
    /\ \E i \in AddSubscription :
        slots' = SetSlot(i, [sid |-> next_id', client |-> c, data |-> Data(next_id'),
                             max |-> max, recv |-> 0])
    /\ \E k \in 0 .. Len(SubscribeLines(next_id', max)) :
        /\ WriteLines(SubscribeLines(next_id', max), k)
        /\ handles' = IF k < Len(SubscribeLines(next_id', max)) THEN handles
                      ELSE [handles EXCEPT ![c] = @ \cup {next_id'}]
    /\ UNCHANGED <<up, base, in, server, called, meant>>

\* ngx_array_push has no memory for another slot.
SubscribeFails ==
    /\ OsFaults /\ up /\ base + next_id < MaxSubs /\ GetSubscription(0) = {}
    /\ next_id' = next_id + 1
    /\ UNCHANGED <<up, slots, handles, base, out, in, server, halfway, called, meant>>

\* ngx_nats_unsubscribe: any sid the caller was given, owner or not; NGX_DECLINED,
\* and nothing changes, if no slot has it.
Unsubscribe(c, sid) ==
    /\ up /\ sid \in handles[c] /\ sid # 0
    /\ \E i \in GetSubscription(sid) : slots' = RemoveSubscription(i)
    /\ \E k \in 0 .. 1 : WriteLines(<<Unsub(sid, 0)>>, k)
    /\ UNCHANGED <<up, next_id, handles, base, in, server, called, meant>>

\* ngx_nats_add_message(nc, data, len), where size 0 stands for strlen(data)
Payload(len, strlen) ==
    IF len > 0 THEN <<Bytes(len)>> ELSE IF strlen > 0 THEN <<Bytes(strlen)>> ELSE <<>>

\* ngx_nats_publish
Publish(len) ==
    /\ up
    /\ \E strlen \in Strings :
        LET lines == <<Pub(len)>> \o Payload(len, strlen) \o <<CRLF>>
        IN  \E k \in 0 .. Len(lines) : WriteLines(lines, k)
    /\ UNCHANGED <<up, table, in, server, called, meant>>

-----------------------------------------------------------------------------
(* A MSG comes in: ngx_nats_process_msg *)

FaultyCountMessage(i) ==             \* one too many
    LET s == slots[i]
    IN  IF s.max = 0 THEN slots
        ELSE IF s.recv >= s.max
               THEN [slots EXCEPT ![i] = With(s, 0, s.recv + 1)]
               ELSE [slots EXCEPT ![i] = With(s, s.sid, s.recv + 1)]

\* The slots once a message for slot i is counted, which may remove it
CountMessage(i) ==
    LET s == slots[i]
    IN  IF s.max = 0 THEN slots
        ELSE IF s.recv + 1 >= s.max
               THEN [slots EXCEPT ![i] = With(s, 0, s.recv + 1)]
               ELSE [slots EXCEPT ![i] = With(s, s.sid, s.recv + 1)]

\* Handler and data were read from the slot before it was removed.
ProcessMsg ==
    /\ up /\ in # <<>>
    /\ \E i \in GetSubscription(Head(in).sid) :
        /\ slots' = CountMessage(i)
        /\ \/ called' = slots[i].data /\ meant' = Head(in).data
           \/ OsFaults /\ UNCHANGED <<called, meant>>
    /\ in' = Tail(in)
    /\ UNCHANGED <<up, next_id, handles, base, out, server, halfway>>

\* Nobody has this sid any more.
ProcessUnknown ==
    /\ up /\ in # <<>> /\ GetSubscription(Head(in).sid) = {}
    /\ in' = Tail(in)
    /\ UNCHANGED <<up, table, out, server, halfway, called, meant>>

-----------------------------------------------------------------------------
(* The connection *)

\* ngx_nats_connection_ready on a new socket
Connect ==
    /\ ~up
    /\ up' = TRUE
    /\ UNCHANGED <<table, out, in, server, halfway, called, meant>>

FaultyDisconnect ==                  \* forgets to reset the read buffer
    /\ up
    /\ up' = FALSE
    /\ slots' = <<>> /\ next_id' = 0
    /\ base' = base + next_id
    /\ handles' = IF StaleHandles THEN handles ELSE [c \in Clients |-> {}]
    /\ out' = <<>>
    /\ srv' = [sid \in {} |-> 0] /\ need' = Idle /\ garbled' = FALSE
    /\ halfway' = FALSE
    /\ UNCHANGED <<in, called, meant>>

\* ngx_nats_close_connection: the subscriptions and the sids go with it, and
\* so does what was under way.
Disconnect ==
    /\ up
    /\ up' = FALSE
    /\ slots' = <<>> /\ next_id' = 0
    /\ base' = base + next_id
    /\ handles' = IF StaleHandles THEN handles ELSE [c \in Clients |-> {}]
    /\ out' = <<>> /\ in' = <<>>
    /\ srv' = [sid \in {} |-> 0] /\ need' = Idle /\ garbled' = FALSE
    /\ halfway' = FALSE
    /\ UNCHANGED <<called, meant>>

-----------------------------------------------------------------------------
(* The server *)

Without(sid) == [x \in DOMAIN srv \ {sid} |-> srv[x]]

\* A subscription, the MSGs sent for it, and how many it ends with (0: none)
SrvSet(sid, data, sent, max) ==
    [x \in DOMAIN srv \cup {sid} |->
        IF x = sid THEN [data |-> data, sent |-> sent, max |-> max] ELSE srv[x]]

\* What it waits for: a command, or what a PUB announced
Expected(line) ==
    \/ need = Idle /\ line.cmd \in {"SUB", "UNSUB", "PUB"}
    \/ need > 0 /\ line = Bytes(need)
    \/ need = 0 /\ line = CRLF

\* It reads one line.  UNSUB with a number ends the subscription after that
\* many messages, those already sent included.
ServerReads ==
    /\ up /\ out # <<>> /\ ~garbled /\ Expected(Head(out))
    /\ LET line == Head(out)
       IN  /\ srv' = CASE line.cmd = "SUB" -> SrvSet(line.sid, line.n, 0, 0)
                       [] line.cmd = "UNSUB" /\ line.sid \in DOMAIN srv ->
                            IF line.n > srv[line.sid].sent
                              THEN SrvSet(line.sid, srv[line.sid].data, srv[line.sid].sent, line.n)
                              ELSE Without(line.sid)
                       [] OTHER -> srv
           /\ need' = CASE line.cmd = "PUB" -> line.n
                        [] line.cmd = "bytes" -> 0
                        [] OTHER -> Idle
    /\ out' = Tail(out)
    /\ UNCHANGED <<up, table, in, garbled, halfway, called, meant>>

\* It takes something else for what it waits for.
ServerLost ==
    /\ up /\ out # <<>> /\ ~garbled /\ ~Expected(Head(out))
    /\ garbled' = TRUE
    /\ UNCHANGED <<up, table, out, in, srv, need, halfway, called, meant>>

\* It sends a message that matches a subscription.
ServerSends(sid) ==
    /\ up /\ sid \in DOMAIN srv
    /\ Len(in) < MaxIn /\ srv[sid].sent < MaxSent
    /\ in' = Append(in, [sid |-> sid, data |-> srv[sid].data])
    /\ srv' = IF srv[sid].sent + 1 = srv[sid].max THEN Without(sid)
              ELSE SrvSet(sid, srv[sid].data, srv[sid].sent + 1, srv[sid].max)
    /\ UNCHANGED <<up, table, out, need, garbled, halfway, called, meant>>

Calls ==
    \/ \E c \in Clients, max \in Maxima : Subscribe(c, max)
    \/ SubscribeFails
    \/ \E c \in Clients : \E sid \in handles[c] : Unsubscribe(c, sid)
    \/ \E len \in Lengths : Publish(len)

Server == ServerReads \/ ServerLost \/ \E sid \in DOMAIN srv : ServerSends(sid)

Next == Calls \/ ProcessMsg \/ ProcessUnknown \/ Connect \/ Disconnect \/ Server

Spec == Init /\ [][Next]_vars

-----------------------------------------------------------------------------
(* Properties *)

LiveSlots == {i \in DOMAIN slots : slots[i].sid # 0}

Slot == [sid : Nat, client : Clients, data : Nat, max : Maxima, recv : Nat]
Line == [cmd : {"SUB", "UNSUB", "PUB", "bytes", "crlf"}, sid : Nat, n : Nat]
Calling == Nat \cup {NoCall}

TypeOK ==
    /\ up \in BOOLEAN /\ garbled \in BOOLEAN /\ halfway \in BOOLEAN
    /\ next_id \in Nat /\ base \in Nat
    /\ slots \in Seq(Slot) /\ out \in Seq(Line) /\ in \in Seq([sid : Nat, data : Nat])
    /\ handles \in [Clients -> SUBSET Nat]
    /\ DOMAIN srv \subseteq Nat
    /\ \A sid \in DOMAIN srv : srv[sid] \in [data : Nat, sent : Nat, max : Nat]
    /\ need \in Nat \cup {Idle}
    /\ called \in Calling /\ meant \in Calling

\* A message is given to the handler of the very subscription the server sent
\* it for: not to one that took over its slot, nor to one of a later connection
\* that has the same sid.
RightSubscription == called = meant

\* The server knows only sids that were given out on this connection, and never
\* sends sid 0, with which ngx_nats_get_subscription would find a free slot and
\* call the handler it still holds.
SidsKnown ==
    /\ \A sid \in DOMAIN srv : sid \in 1 .. next_id
    /\ \A i \in DOMAIN in : in[i].sid \in 1 .. next_id

\* ngx_nats_unsubscribe does not look at its client: it is enough that no client
\* holds a sid under which another client's subscription is found.
HandlesOwned ==
    \A c \in Clients, i \in LiveSlots : slots[i].sid \in handles[c] => slots[i].client = c

\* The server reads the commands that the calls wrote, and takes no payload for
\* a command nor a command for payload, unless a call failed halfway.
FramesKept == garbled => halfway

\* Once everything under way has arrived, client and server agree on which
\* subscriptions there are, on their limits and on how far they have come,
\* although each of them counts and ends them by itself.
Agree ==
    up /\ out = <<>> /\ in = <<>> /\ ~halfway =>
        /\ DOMAIN srv = {slots[i].sid : i \in LiveSlots}
        /\ \A i \in LiveSlots :
            LET s == srv[slots[i].sid]
            IN  s.max = slots[i].max /\ (s.max > 0 => s.sent = slots[i].recv)

\* The part of the invariant the proofs need beyond the types: a live slot, the
\* server's table and both streams name a subscription by the sid it got on this
\* connection, no two live slots have the same one, and none has had its last
\* message.
SlotsInv ==
    /\ \A i \in LiveSlots :
        /\ slots[i].sid \in 1 .. next_id /\ slots[i].data = Data(slots[i].sid)
        /\ slots[i].max > 0 => slots[i].recv < slots[i].max
    /\ \A i, j \in LiveSlots : slots[i].sid = slots[j].sid => i = j
    /\ base + next_id <= MaxSubs
StreamsInv ==
    /\ \A sid \in DOMAIN srv : sid \in 1 .. next_id /\ srv[sid].data = Data(sid)
    /\ \A i \in DOMAIN in : in[i].sid \in 1 .. next_id /\ in[i].data = Data(in[i].sid)
    /\ \A i \in DOMAIN out : out[i].cmd = "SUB" =>
        out[i].sid \in 1 .. next_id /\ out[i].n = Data(out[i].sid)
SubsInv == TypeOK /\ SlotsInv /\ StreamsInv /\ called = meant

\* Beside SubsInv, for HandlesOwned: sids that clients hold are of this connection.
HandlesInv == HandlesOwned /\ \A c \in Clients : handles[c] \subseteq 1 .. next_id

\* Beside SubsInv, for FramesKept: what is under way, read line by line by who
\* waits for n, has each line where it is expected and ends with a whole command.
Fits(n, line) ==
    \/ n = Idle /\ line.cmd \in {"SUB", "UNSUB", "PUB"}
    \/ n > 0 /\ line = Bytes(n)
    \/ n = 0 /\ line = CRLF
After(line) == IF line.cmd = "PUB" THEN line.n ELSE IF line.cmd = "bytes" THEN 0 ELSE Idle
Framed(n, q) ==
    IF q = <<>> THEN n = Idle
    ELSE /\ Fits(n, q[1]) /\ After(q[Len(q)]) = Idle
         /\ \A i \in 1 .. Len(q) - 1 : Fits(After(q[i]), q[i + 1])

FramesInv == ~halfway => ~garbled /\ Framed(need, out)

\* Beside SubsInv, for Agree.  A sid has one SUB, and its UNSUBs come later.
Lines(q)   == {q[i] : i \in 1 .. Len(q)}
Ordered(q) == \A i, j \in 1 .. Len(q) :
    q[i].cmd = "SUB" /\ q[j].cmd \in {"SUB", "UNSUB"} /\ q[j].sid = q[i].sid => i <= j

IsLive(sid)  == \E i \in LiveSlots : slots[i].sid = sid
Starts(sid)  == \E l \in Lines(out) : l.cmd = "SUB" /\ l.sid = sid
Ends(sid, n) == \E l \in Lines(out) : l.cmd = "UNSUB" /\ l.sid = sid /\ l.n = n

\* The MSGs of a subscription under way
Coming(q, sid) == Cardinality({i \in 1 .. Len(q) : q[i].sid = sid})

\* A subscription in force is one the server has yet to hear of, one it has, with
\* its limit or the limit under way, or one that the server has ended and whose
\* last message is under way.
SlotAgrees(s) ==
    /\ \A l \in Lines(out) : l.cmd = "UNSUB" /\ l.sid = s.sid => l.n = s.max /\ s.max > 0
    /\ \/ Starts(s.sid) /\ s.recv = 0 /\ (s.max > 0 => Ends(s.sid, s.max))
       \/ /\ s.sid \in DOMAIN srv
          /\ s.max > 0 => s.recv + Coming(in, s.sid) = srv[s.sid].sent
          /\ srv[s.sid].max = s.max \/ (srv[s.sid].max = 0 /\ Ends(s.sid, s.max))
       \/ /\ s.sid \notin DOMAIN srv /\ ~Starts(s.sid)
          /\ s.max > 0 /\ s.recv + Coming(in, s.sid) >= s.max

\* The server has not ended it too late, and hears of it if the client has.
SrvAgrees(sid) ==
    /\ srv[sid].max > 0 => srv[sid].sent < srv[sid].max
    /\ IsLive(sid) \/ \E n \in 0 .. srv[sid].sent : Ends(sid, n)

StartAgrees(sid) ==
    /\ sid \notin DOMAIN srv /\ Coming(in, sid) = 0
    /\ IsLive(sid) \/ Ends(sid, 0)

Agreeing ==
    /\ Ordered(out)
    /\ \A l \in Lines(out) : l.cmd = "UNSUB" => l.sid \in 1 .. next_id
    /\ \A i \in LiveSlots : SlotAgrees(slots[i])
    /\ \A sid \in DOMAIN srv : SrvAgrees(sid)
    /\ \A sid \in 1 .. next_id : Starts(sid) => StartAgrees(sid)

AgreeInv == ~halfway => Agreeing

\* The lines and messages under way between ngx_nats_subscribe,
\* ngx_nats_unsubscribe, ngx_nats_publish and the server can be read in only one
\* way, and once they have been both ends have the same subscriptions, each of
\* them that of the client that holds its sid.
TalkInv == HandlesInv /\ FramesInv /\ AgreeInv

\* What the slots stand for
Left(s) == IF s.max = 0 THEN 0 ELSE s.max - s.recv
Subscription(s) == [data |-> s.data, client |-> s.client, left |-> Left(s)]

Live == {Subscription(slots[i]) : i \in LiveSlots}

PubSub == INSTANCE NatsPubSub WITH Datas <- 1 .. MaxSubs, live <- Live

\* Slots, sids, counters and both streams implement the promise of NatsPubSub: a
\* handler is called for a subscription in force and for no other, never more
\* than `max` times, and never after it was unsubscribed or the connection lost.
ImplementsPubSub == PubSub!Spec

=============================================================================
