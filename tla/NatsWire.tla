------------------------------ MODULE NatsWire ------------------------------
(***************************************************************************)
(* From the socket to the handlers: the read buffer of NatsReadBuf with    *)
(* the bytes a server really sends, the parser that finds messages in them *)
(* and the part of _nats_process_buffer_msg that depends on what they say. *)
(*                                                                         *)
(* The server writes a script, a sequence of messages (see NatsServer); it *)
(* arrives in pieces of any size.  What a message does to the clients and  *)
(* to the write buffer is in NatsComm and NatsSubs.                        *)
(***************************************************************************)
EXTENDS NatsJson, NatsBuf

CONSTANTS
    Scripts,    \* what a server may send: sequences of messages, and whether
                \* they come all at once or in pieces of any size
    Later,      \* bound: those among them that servers send after a reconnect
    MaxStream   \* bound: more than the bytes of any script

\* A message sent: what it means, its bytes, the fields of an INFO, and whether
\* it is one that a client must understand.  The first n of a sequence of them
\* make these bytes and say these fields.
TextTo(sends, n)   == FlattenSeq([i \in 1 .. n |-> sends[i].text])
FieldsTo(sends, n) == FlattenSeq([i \in 1 .. n |-> sends[i].fields])
GoodOnes(sends)    == {i \in DOMAIN sends : \A j \in 1 .. i : sends[j].good}

\* A sequence; INFO bodies that say these fields, and those that say nothing
IsList(items) == items \in Seq(Range(items))
Says(body, fields) ==
    LET json == JsonParse(body)
    IN  /\ json.rc = 0 /\ json.val.type = "object" /\ IsList(json.val.items)
        /\ Understood(json.val.items) /\ Understood(fields)
        /\ Told(json.val.items) = Told(fields)
SaysNothing(body) ==
    LET json == JsonParse(body)
    IN  json.rc = 0 /\ json.val.type = "object" =>
            IsList(json.val.items) /\ ~Understood(json.val.items)

\* A good message, on its own and in one piece, is parsed as it was meant; from
\* the first bad one on the bytes are no message, or an INFO that says nothing.
Speaks(sends) ==
    /\ \A i \in GoodOnes(sends) :
        LET m == sends[i]
        IN  /\ Parse(m.text) = Formed(Len(m.text), m.msg)
            /\ IF m.msg.type = "INFO" THEN Says(m.msg.body, m.fields) ELSE m.fields = <<>>
    /\ \A i \in DOMAIN sends \ GoodOnes(sends) :
        LET all  == TextTo(sends, Len(sends))
            rest == SubSeq(all, Len(TextTo(sends, i - 1)) + 1, Len(all))
        IN  1 .. i - 1 \subseteq GoodOnes(sends) /\ Parse(rest).rc > 0 =>
                Parse(rest).msg.type = "INFO" /\ SaysNothing(Parse(rest).msg.body)

ASSUME WireAssumption ==
    /\ Later \subseteq Scripts /\ MaxStream \in Nat /\ IntMax \in Nat
    /\ \A s \in Scripts :
        /\ IsList(s.sends)
        /\ \A i \in DOMAIN s.sends :
            /\ s.sends[i].text \in Seq(STRING)
            /\ IsList(s.sends[i].fields)
            /\ \A f \in Range(s.sends[i].fields) : f.value.int \in -(IntMax + 1) .. IntMax
        /\ Len(TextTo(s.sends, Len(s.sends))) < MaxStream

VARIABLES
    script,   \* what the server sends on this connection
    r,        \* nc_read_buf: places in the stream
    received, \* bytes received
    taken,    \* bytes parsed and skipped
    info,     \* the srv_... fields of nc
    okayed,   \* NGX_NATS_STATE_CONNECT_OKAYED; CONNECT_SENT is set before recv()
    handled,  \* the messages handled, as the parser understood them
    pc,       \* "recv", "process" or "closed"
    why       \* why it was closed: "bad", "refused", "overlong" or "broken"

vars == <<script, r, received, taken, info, okayed, handled, pc, why>>

Init ==
    /\ script \in Scripts
    /\ r = Create /\ received = 0 /\ taken = 0
    /\ info = NoInfo /\ okayed = FALSE /\ handled = <<>>
    /\ pc = "recv" /\ why = "open"

Sends  == script.sends
Stream == TextTo(Sends, Len(Sends))

\* recv() into all but the last byte of what is free
Room == r.cap - r.end - 1
Left == Len(Stream) - received

Recv ==
    /\ pc = "recv"
    /\ \E n \in 1 .. Room :
        /\ n <= Left
        /\ script.whole => n = Room \/ n = Left
        /\ received' = received + n
        /\ r' = Write(r, received, n)
    /\ pc' = "process"
    /\ UNCHANGED <<script, taken, info, okayed, handled, why>>

\* bytes: what is between pos and end, as text
Bytes ==
    [i \in 1 .. r.end - r.pos |->
        LET at == r.mem[r.pos + i - 1]
        IN  IF at \in 0 .. Len(Stream) - 1 THEN Stream[at + 1] ELSE "JUNK"]

Close(reason) ==
    /\ r' = Reset(r)
    /\ pc' = "closed"
    /\ why' = reason
    /\ UNCHANGED <<script, received, taken, info, okayed, handled>>

-----------------------------------------------------------------------------
(* _nats_process_buffer_msg, with the parser's verdict v on Bytes *)

ProcessEnd ==
    /\ r.pos = r.end
    /\ r' = Compact(r)
    /\ pc' = "recv"
    /\ UNCHANGED <<script, received, taken, info, okayed, handled, why>>

NewInfo(msg) == IF msg.type = "INFO" THEN ParseInfoFields(info, msg.body) ELSE info

\* What makes the handler give the connection up: -ERR as the answer to
\* CONNECT, or an INFO that it can not read
Rejects(msg) == (msg.type = "-ERR" /\ ~okayed) \/ NewInfo(msg) = BadInfo

\* A message is handled and skipped.
ProcessMessage(v) ==
    /\ v.rc > 0 /\ ~Rejects(v.msg)
    /\ info' = NewInfo(v.msg)
    /\ okayed' = (okayed \/ v.msg.type = "PONG")
    /\ handled' = Append(handled, v.msg)
    /\ r' = Advance(r, v.rc)
    /\ taken' = taken + v.rc
    /\ UNCHANGED <<script, received, pc, why>>

\* The message closes the connection: it is invalid, or its contents are.
ProcessBad(v) ==
    /\ r.pos < r.end
    /\ v.rc \in {InvalidHeader, InvalidMsg} \/ (v.rc > 0 /\ Rejects(v.msg))
    /\ Close(IF v.msg.type = "-ERR" THEN "refused" ELSE "bad")

Full(b)  == b.end >= b.cap - 1
Limit(b) == (info.max_payload > 0 /\ b.cap >= info.max_payload) \/ b.cap >= MaxSize

\* The message is not complete: the buffer is compacted, and grows if it is full.
ProcessPartial(v) ==
    /\ r.pos < r.end /\ v.rc = Again
    /\ LET b == Compact(r)
       IN  IF Full(b) THEN ~Limit(b) /\ r' \in Ensure(b, r.cap - 1, 0) ELSE r' = b
    /\ pc' = "recv"
    /\ UNCHANGED <<script, received, taken, info, okayed, handled, why>>

\* It is not complete and there is no more room for it.
ProcessTooLong(v) ==
    /\ r.pos < r.end /\ v.rc = Again
    /\ Full(Compact(r)) /\ Limit(Compact(r))
    /\ Close("overlong")

Process ==
    /\ pc = "process"
    /\ LET v == IF r.pos = r.end THEN Failed(Again) ELSE Parse(Bytes)
       IN  \/ ProcessEnd
           \/ ProcessMessage(v)
           \/ ProcessBad(v)
           \/ ProcessPartial(v)
           \/ ProcessTooLong(v)

\* The server closes the connection, or it breaks.
Disconnect ==
    /\ pc = "recv"
    /\ Close("broken")

\* ngx_nats_connect_loop: the buffer is reset and keeps its memory, the new nc
\* is zeroed
Reconnect ==
    /\ pc = "closed"
    /\ script' \in Later
    /\ r' = Reset(r) /\ received' = 0 /\ taken' = 0
    /\ info' = NoInfo /\ okayed' = FALSE /\ handled' = <<>>
    /\ pc' = "recv" /\ why' = "open"

Next == Recv \/ Process \/ Disconnect \/ Reconnect

Spec == Init /\ [][Next]_vars

-----------------------------------------------------------------------------
(* Properties *)

\* The messages up to the first bad one, and the one under way
Good     == GoodOnes(Sends)
UnderWay == Len(handled) + 1

\* Of one message in one piece the parsers understand what it means, and nothing
\* of a text that is none.  The other properties say that this does not depend
\* on how the stream is cut and on what has come before and comes after.
TextsParsed == Speaks(Sends)

\* What the parser takes for a message is the next message that the server
\* sent, however the stream was cut; a text that is no message is never taken
\* for one; and the server data are what the INFOs so far said.
HandledRight ==
    /\ \A i \in DOMAIN handled : i \in Good /\ handled[i] = Sends[i].msg
    /\ info = InfoOf(FieldsTo(Sends, Len(handled)))

\* "NATS sent invalid message": only a bad message, or an -ERR in the place of
\* the first PONG, closes a connection.
ClosedForCause ==
    /\ why = "bad" => UnderWay \notin Good
    /\ why = "refused" => Sends[UnderWay].msg.type = "-ERR" /\ \A i \in DOMAIN handled : handled[i].type # "PONG"

\* When the worker waits for more bytes it has handled all that came: a message
\* that is complete does not lie in the buffer until the next one arrives.
NothingLeft ==
    pc = "recv" => \A i \in Good :
        received >= Len(TextTo(Sends, i)) => i <= Len(handled)

\* NatsReadBuf takes "its bytes are all there" for the verdict of the parser.
\* That is right: what happens here is what happens there, a bad message being
\* one that never becomes complete.
RB == INSTANCE NatsReadBuf WITH
        Payloads <- -(IntMax + 1) .. IntMax,
        MaxLen   <- MaxStream,
        OsFaults <- FALSE,
        len      <- IF UnderWay \in Good THEN Len(Sends[UnderWay].text) ELSE MaxStream,
        payload  <- info.max_payload

ImplementsReadBuf == RB!Spec

=============================================================================
