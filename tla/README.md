# A TLA+ development for nginx-nats

nginx-nats keeps one connection to a NATS server in every nginx worker and lets
other nginx modules publish and subscribe over it. This directory holds a model
of that code, the TLC runs that check it on small instances and the TLAPS proofs
of its main properties. Line numbers are those of `src/src/ngx_nats_comm.c`
unless another file is named.

## Inventory

| component | state | operations | modelled |
|---|---|---|---|
| connection manager (`ngx_nats_comm.c`) | `ngx_nats_data_t`: `curr_index`, `last_index`, reconnect timer, `nc`; `ngx_nats_connection_t`: state bits, peer connection, INFO data, ping timer | connect loop, reconnect, event handlers, flush, read loop, dispatch, ping, close | `NatsComm` |
| client interface (`ngx_nats_comm.c`, `ngx_nats.h`) | clients in registration order; `subs`, an array of slots with sid, owner, handler and counters; `next_id` | add_client, publish, subscribe, unsubscribe; callbacks `connected`, `disconnected`, `handle_msg` | `NatsComm` (when calls and callbacks happen), `NatsSubs` (what they do), `NatsPubSub` (what they promise) |
| buffers (`ngx_nats_buf_*`) | `buf`, `pos`, `end`, `cap` | create, reset, compact, ensure | `NatsBuf`, `NatsReadBuf`, `NatsWriteBuf` |
| protocol parser (`ngx_nats_protocol.c`) | none, a pure function | parse | `NatsParse`, `NatsWire` |
| JSON parser, INFO (`ngx_nats_json.c`, `ngx_nats_parse_info`) | the string buffer of a parse; the `srv_` fields | parse | `NatsJson`, `NatsWire` |
| module and configuration (`ngx_nats.c`) | `ngx_nats_core_conf_t`, `ngx_nats_present` | parsing `nats{...}`, init_module, init_process, exit_process | `NatsConf` |
| random numbers, inboxes, local address | a seed, an address | I/O and formatting | no |

How they interact. nginx calls `ngx_nats_init` when a worker starts, and then the
handlers: `ngx_nats_connection_handler` for the events of the descriptor,
`ngx_nats_reconnect_handler` and `ngx_nats_ping_handler` for the two timers. They
call each other and the clients; the clients call back into the API, in their own
time or from within a callback. The two buffers and the memory of `nc` are reused
by every connection.

What is hard. The worker has one thread, so there are no data races; but its
functions re-enter each other. `read_from_nats` calls `process_buffer`, which
calls a client, which publishes; the publish flushes, the flush finds the
connection broken and closes it, the close calls the clients and reconnects, and
only then does `process_buffer` go on with what it was doing. A bad message makes
the connection be closed twice. Servers decline, hang, refuse CONNECT, jam, end or
reset the connection or send garbage at any time, sends are short, timers race with
answers, allocations fail. What makes the code right is that after all of it the
worker has one connection or one timer and not both, that clients know which, and
that the bytes in the buffers are the right ones. Then there are the streams:
what a server sends is cut anywhere by `recv()`, and what the two ends believe
about subscriptions is always a little out of date. And there is state that
outlives what it belongs to: slots and sids are used again, a static variable
survives a reload. The `hazards` of `PROJECT.json`
list where each of these bites.

## Modules

`NatsComm` is the connection manager. Its variables are the fields of
`ngx_nats_data_t` and `ngx_nats_connection_t` (the comments in the module name
them), the sockets, and `stack`: the C stack, innermost frame first, holding for
every function under way what it has yet to do. A frame's `op` names the function,
`i` and `n` are its loop counter and bound (or, for the reader, `wlen`), `why` the
reason of a close or the callback under way. A call in tail position leaves no
frame. Each action is one function or one branch of it, up to its next call:

| actions | code |
|---|---|
| `InitProcess`, `ExitProcess` | 1248-1272, `ngx_nats.c` 479-519 |
| `ReconnectTimer`, `AddReconnectTimer` | 1021-1057 |
| `ConnectGiveUp`, `ConnectDeclined`, `ConnectInProgress`, `ConnectAtOnce` | 1074-1243 |
| `FlushNothing`, `FlushSome`, `FlushError`, `FlushAgain`, `CheckConnected` | 333-426 |
| `WriteEvent`, `WriteTimeout`, `ReadEvent` | 969-1018 |
| `RecvData`, `RecvAgain`, `RecvEnd` | 915-966 |
| `ProcessEnd` ... `ProcessMsg`, `ProcessSkip` | 637-913 |
| `ReadyLoop` | 454-486 |
| `CloseSocket`, `CloseNotify`, `CloseFinish` | 216-307 |
| `PingTimer` | 310-330 |
| `AddClient`, `Publish`, `Subscribe`, `Unsubscribe`, `CallbackReturn` | 1278-1481 |
| `Establish`, `Refuse`, `Drain`, `AnswerConnect`, `RefuseConnect`, `ServerSays`, `ServerCloses`, `ServerResets` | the network and the servers (external) |

A message is its kind; the buffers of `NatsComm` are sequences of whole messages.
What would be undefined behaviour in C sets `fault`, and nothing happens after it.
The network acts between handlers only: what arrives during a handler is seen by
the next `recv()` as if it had arrived before or after. A reset is the exception:
a server that resets connections may do so under a handler, whose `send()` or `recv()`
then fails (`Broken`). Between handlers a reset leaves its error at the socket, where
the next read event finds it (`ConnectError`: 998 asks for it on every event, not only
at the end of an attempt) and closes as if the connection could not be made, with the
wait that 295 prescribes if bytes were exchanged. The end of a stream is read by `recv()` and closes with
DISCONNECTED instead.

The environment is given by constants: `OsFaults` says whether allocations and
event registrations fail, `NestedErrors` whether a send below a callback may fail,
`CallbackCalls` from which callbacks clients use the API, `Behaves` what each
server does. Of a server it is assumed that it greets with INFO, with or without a
version (`Greetings`), before it says anything else, and that it sends
no PING, PONG or MSG of its own before it has answered CONNECT; +OK, -ERR and bytes that are no
message may come at any time, the others of `Chat` from then on. nginx clears `timer_set` before it calls the handler of an expired
timer; `PingTimer` is what the ping handler does then.

`NatsBuf` has the functions of `ngx_nats_buf_t` as operators on a record with the
memory in it, a byte being its number in the stream. `NatsReadBuf` runs the
read loop on it and `NatsWriteBuf` `ngx_nats_add_message` and `ngx_nats_flush`.
The three abstract what `NatsComm` leaves out and the other way round: `NatsComm`
has every path on which a buffer is reset, the byte modules have every way its
bytes move between resets.

`NatsParse` and `NatsJson` are the two parsers, function by function, as operators
on sequences of atoms: a word is one atom, the bytes that the parsers tell apart
are atoms of their own. The width of an integer and the sizes of the string buffer
are constants. The three functions of the JSON parser that call each other are one
recursive function of what is to be read and from where, so that the module can be
proved about; `Told`, `InfoAfter` and `InfoOf` say, without any loop, what the fields of an INFO
mean. `NatsServer` is the other end: how a server writes its messages,
and which texts are JSON, as a grammar by cases that shares no scanning code with
the parsers. It also fixes the dialect (single quotes are allowed, -05 is an integer and
-0 is none, what follows the object is ignored). `NatsWire` composes them: the
server sends a script, `Recv` takes any number of bytes of it into the buffer of
`NatsBuf`, `Process` parses what is there and does what
`_nats_process_buffer_msg` does with it. What a script has to be is `Speaks`: each
of its good messages, alone and in one piece, is parsed as it was meant, and its first
bad one is not parsed, or is an INFO that says nothing. Only `MCNatsWire` knows `NatsServer`, and takes its scripts from
it. `NatsWire` implements `NatsReadBuf`
(`ImplementsReadBuf`), which is what justifies that `NatsReadBuf`, and
with it its proofs, take "all its bytes are there" for the verdict of the parser.

`NatsSubs` is the client interface from end to end: slots, sids and counters on
one side, the table of the server on the other, and between them what is under way
in both directions. A call is the sequence of the lines it writes and may fail
after each of them. `NatsPubSub` is the promise behind it, a set of subscriptions
with the number of messages left to each; `NatsSubs` implements it
(`ImplementsPubSub`) with the live slots for that set.

| actions of `NatsSubs` | code |
|---|---|
| `Subscribe`, `SubscribeFails`, `SubscribeLines` | 1377-1437 |
| `Unsubscribe` | 1440-1481 |
| `Publish`, `Payload`, `WriteLines` | 1312-1374, 429-451 |
| `ProcessMsg`, `ProcessUnknown`, `CountMessage` | 637-700 |
| `GetSubscription`, `AddSubscription`, `RemoveSubscription` | 574-635 |
| `Connect`, `Disconnect` | 838-849, 275-282 |
| `ServerReads`, `ServerLost`, `ServerSends` | the server (external) |

`NatsConf` is the section of the configuration through the life of nginx: files
are read directive by directive (`Block`, `Server`, `SetReconnect`, ...,
`BlockEnd`), accepted (`FileEnd`, with `init_module`) or rejected, workers are
forked (`Fork`, with `init_process`) and exit. A configuration that `conf_ctx` does
not have is an empty set, and to follow it sets `fault`.

`MCNatsComm`, `MCNatsSubs`, `MCNatsWire` and `MCNatsConf` hold the instances for
TLC. Definitions named `Faulty...` are variants with a plausible slip. No
specification uses them; putting one in the place of the definition it varies
(`mutants` in `PROJECT.json`) must make the property concerned fail.

## Runs

| run | instance | result |
|---|---|---|
| `comm_safety` | 2 servers with all of `Behaviours` (the second always names its version), 2 clients, 2 sockets, 3 API calls, 1 unsolicited message, allocations and registrations that may fail | all hold, 2 000 000 states |
| `comm_live` | two servers that decline, hang or end their streams in good order, a third that works | `EventuallyReady` holds |
| `comm_no_ping` | one server that works | `KeepsPinging` is violated |
| `comm_nested_close` | sends below a callback may fail | `ReadPosInBuffer` is violated |
| `comm_reentry` | clients publish in `disconnected` | `OneConnection` is violated |
| `read_buf` | first buffer 3 bytes, limit 12, messages up to 13 bytes, streams up to 16, `max_payload` 0 or 7 | both hold, 39 000 states |
| `write_buf` | short sends, compaction, growth of a buffer of which nothing is sent | `SendsStream` holds, 1 900 states |
| `write_buf_short` | the buffer may also grow after a short send | `SendsStream` is violated |
| `wire` | conversations of an INFO and two messages cut anywhere, several hundred INFOs with values at the ends of their ranges or texts near to JSON, messages that lack an atom, reconnects | all hold, 28 000 states |
| `subs` | 2 clients, 2 subscriptions without limit or with 2 messages, payloads of length 0 and 1, 3 lines and 2 messages under way, failing calls, reconnects | all hold, 790 000 states |
| `conf` | 2 workers, 2 servers, 2 accepted configurations, any number of rejected ones, every file with a section or none | both hold, 125 000 states |
| `conf_reload` | files that gain or lose the section | `NoNullConf` is violated |

What the properties say is in the comment before each of them. The safety
properties of `NatsComm` are about the states between handlers (`Idle`) or hold
throughout; together they say that the worker has a connection or the timer
(`NeverStuck`), one descriptor at most (`OneConnection`), clients that know
(`ClientView`, `ConnectedOnce`), nothing left of an old connection (`NoStaleSubs`,
`ReadyAgreed`), no forgotten bytes (`WriteProgress`), a kept delay (`NoTightLoop`,
`TimerHonoured`) and no undefined behaviour (`NoFault`). Those of `NatsWire` compare
what was handled with what was sent (`HandledRight`), the reason of a close with
the message that caused it (`ClosedForCause`) and what was handled with what has
arrived (`NothingLeft`); and `TextsParsed` compares the parsers with the grammar of
`NatsServer` on the text of each message of each script, taken alone. Those of `NatsSubs` say
that a message finds its own subscription, not one that has its slot or its sid now (`RightSubscription`,
`SidsKnown`), that no client can end the subscription of another (`HandlesOwned`),
that the server reads what the calls wrote (`FramesKept`), and that
both ends come to the same table when everything has arrived (`Agree`). `ControlInv`,
`ClientInv` and `TalkInv` are the inductive invariants of the proofs.

The violated ones are the findings of `PROJECT.json`, each with the line of the
documentation it contradicts:

1. The ping handler returns if `timer_set` is 0, which it always is when a timer
   has expired (`comm_no_ping`). A handler without that test would have to see to
   it that the flush it makes has not closed the connection before it arms the timer.
2. After a connection was closed below a message callback, `pos` leaves the read
   buffer (`comm_nested_close`).
3. An API call in `disconnected` is accepted and leaves two connections
   (`comm_reentry`).
4. A write buffer that grows while half sent keeps its old `pos` and `end`
   (`write_buf_short`).
5. `ngx_nats_present` is set by the first section read, of a rejected file too, and
   never cleared (`conf_reload`).

Findings 2 and 3 are why `comm_safety` has `NestedErrors = FALSE` and
`CallbackCalls = {"connected", "msg"}`: beyond them the code does not keep its
invariants. For the same reason `subs` has `Strings = {0}` and `StaleHandles =
FALSE`: `ngx_nats_add_message` takes size 0 for "use strlen", so that an empty
payload must point to an empty string (435), and `ngx_nats_unsubscribe` ignores
its client, so that clients must forget their sids in `disconnected`.

Smaller differences between the documents and the code, met on the way:

* `README.md` says that all servers are tried before a wait. `last_index` is 0 for
  ever (`ngx_nats.c` 471), so a round ends at the first server rather than where it
  began (1123), and after a disconnect from the last server none is tried.
* It says that all are tried after NATS disconnects. When the connection was reset after
  bytes were exchanged, it is closed as one that could not be made (998) and the worker
  waits at once (295).
* It says that the first working server is used. A wait sets `curr_index` to -1
  (1050): a first server that refuses CONNECT, or accepts connections and resets them, is
  the only one ever tried. With `"refuse"` or `"reset"` among the behaviours of the first
  server of `comm_live`, `EventuallyReady` does not hold.
* It says that the default of `ping` is 30 seconds; the code has 20.
* A message for which there is no room is reported as "larger than promised" (746). What is
  compared with `max_payload` is the capacity of the full buffer (742), so that the header
  counts too: when a doubling of the buffer comes to `max_payload` or little more, as 4096
  bytes do for the usual 1048576, a message whose payload keeps the promise closes
  the connection. In `NatsWire`, `max_payload` 9 and a payload of 9 bytes do it.
* An INFO need not have a version (531), but `ngx_nats_connection_ready` prints
  `srv_version` in any case (469): it follows a NULL pointer for a server that
  leaves it out. `NoFault` says that no other server can bring that about, since the
  first INFO of a connection is handled before its first PONG.
* `-ERR` or `INFO` with a blank and no text take the CR for text; the branch for an
  empty INFO (852) is never taken.
* `ngx_nats_subscribe` does not limit its subject, and the line is cut off at
  576 bytes.
* `ngx_nats_read_from_nats` flushes if the write buffer is longer than it was at the
  start (963). If an append failed halfway earlier, its first part is still there; a
  callback flushes it, a PING then appends a PONG, and the comparison is false: the
  PONG waits for the next flush. The proof of `WriteProgress` found this; with one
  unsolicited message per behaviour TLC does not reach it. The server cannot read the stream
  beyond the failed append anyway, so `WriteProgress` leaves such connections out
  (`halfway`).

Bounds. Two servers are the fewest for which order and rotation matter, and two
sockets let a second connection exist by mistake. Three API calls allow a client
to be added within a callback, subscribe and publish; one unsolicited message,
besides INFO, PONG and -ERR, can be any kind on any of the connections of a
behaviour, and there is no bound on connections. `MaxSid` covers a known and an
unknown sid. A buffer of three
bytes doubles twice below its limit, so that growth, compaction and both limits
happen. In `wire` the first buffer has four bytes, so that each script makes it grow and every
position is cut; integers have 8 bits and strings at most 6 characters, so that
both ends of both ranges are met; openings come all at once, since cutting them
gives nothing the conversations have not. In `subs` two subscriptions reuse one
slot, or have a slot each, on one connection or on two, and two messages are under way
when they end. In `conf` two lengths of 300 are each allowed and together too long.
`Symmetry` is sound: sockets, clients, workers and listed servers are not told
apart, and it is used with invariants, action properties and the refinement of
`NatsPubSub` only, all of which are symmetric.

Fairness. A handler under way goes on (weak: one thread, no blocking calls).
nginx's loop handles every descriptor that is ready and every timer that has
expired, whatever else it handles (strong, since another event may make it
unready for a while). An attempt or a full socket is resolved or times out after
5 s; a server that speaks the protocol answers CONNECT; every send takes at
least one byte, so the first message leaves in the end. Nothing is assumed of
clients, chatter, drops and resets.

All runs check for deadlock: a worker that is not at its end always has a timer or
a connection, and the other modules can always disconnect, reconnect or read the
next file, up to their bounds.

## Proofs

Each module with proofs is named after the one it is about (`NatsClientProofs` goes
on from `NatsCommProofs`; `NatsWireProofs` is also about `NatsParse` and `NatsJson`). They
hold for every value of the constants that satisfies the named assumptions of the modules. Every invariant was
checked by TLC before it was proved, in the run of its module (`WireInv` with the
instance of `wire`) and `TalkInv` also with three subscriptions, limits 0 to 2, 6 lines
and 4 messages under way.

| theorems | property | assumes |
|---|---|---|
| `TypeCorrect` | `TypeOK` | |
| `ControlCorrect`, `NoFaultCorrect`, `OneConnectionCorrect`, `NeverStuckCorrect`, `NoTightLoopCorrect`, `TimerCorrect` | `ControlInv`, `NoFault`, `OneConnection`, `NeverStuck`, `NoTightLoop`, `TimerHonoured` | `GoodEnvironment` |
| `ClientCorrect`, `ClientViewCorrect`, `NoStaleSubsCorrect`, `ReadyAgreedCorrect`, `WriteProgressCorrect`, `ConnectedOnceCorrect` | `ClientInv`, `ClientView`, `NoStaleSubs`, `ReadyAgreed`, `WriteProgress`, `ConnectedOnce` | `GoodEnvironment` |
| `ReadBufCorrect`, `RecvRoomCorrect` | `ParsesStream`, `RecvRoom` | |
| `WriteBufCorrect` | `SendsStream` | `~GrowsHalfSent` |
| `SubsTypeCorrect`, `DeliveryCorrect`, `SidsCorrect`, `SubsImplementsPubSub`, `AgreeCorrect` | `TypeOK`, `RightSubscription`, `SidsKnown`, `ImplementsPubSub`, `Agree` | |
| `HandlesCorrect` | `HandlesOwned` | `~StaleHandles` |
| `FramesCorrect` | `FramesKept` | `Strings \subseteq {0}` |
| `TalkCorrect` | `TalkInv` | both |
| `ParseStable`, `ParseInBounds`, `PayloadOpaque`, `InfoBody`, `SetFieldsRight` | about the parsers, see below | |
| `HandledRightCorrect`, `ClosedForCauseCorrect`, `NothingLeftCorrect`, `WireImplementsReadBuf` | `HandledRight`, `ClosedForCause`, `NothingLeft`, `ImplementsReadBuf` | `AllSpeak` |
| `ConfUsable` | `RunsUsable` | |
| `ConfNoNull` | `NoNullConf` | `~MayChange` |

`GoodEnvironment` is that of `comm_safety`: clients call from `connected` and message
callbacks only, and no send below a callback fails; findings 2 and 3 are what is left
out. Allocations and registrations may fail. `~GrowsHalfSent` says that after a short
send what waits fits the buffer (finding 4), `~MayChange` that either every file has a
section or none (finding 5). `~StaleHandles` and `Strings \subseteq {0}` are the rules for clients named above. `AllSpeak`
says of each script what `TextsParsed` checks of those of the `wire` run, `Speaks`: it is
about the parsers on each good message, whole and alone, and on the first bad one with
all that follows it. It says nothing of how the stream is cut, of what lies in the buffer
before and behind a good message, or of the read loop.

The arguments:

* Types. `TypeOK` alone is not inductive: an action that returns to its caller
  needs to know that there is one. `StackOK` adds that `process_buffer` has a reader
  below it and that a reader has a socket.
* Control. `ControlInv` says in which of a few modes the worker is: idle with a connection
  or with the timer; working on a connection that is up, with a stack of a known
  shape (`Shape`); dialling; or tearing down, at most two closes deep (`Tearing`).
  A second close can only find a connection that waits (or the first close still
  to be done), has seen bytes, and has a reason other than a disconnect, hence it
  waits too: this is what keeps the delay. A connection that is up was made to
  server `curr`, after the servers 0 .. `curr` were tried (`Rotated`), whence
  `NoTightLoop`. `InfoFirst` follows INFO from the server's queue through the read
  buffer: on a connection to a server that names its version any other message finds it set. `Pending` says that a closed
  socket has no events left and that an attempt has its timer. One lemma per group of
  actions shows that `ControlInv` is kept.
* Clients. The properties speak of the states between handlers, so `ClientInv` has
  to say what holds in the middle of them. `ToldInv` gives for each client the exact
  condition under which it thinks it is connected: the connection is ready and every
  loop over the clients that is on the stack has already told it so, or has not yet told
  it otherwise (`Reached`). That needs `LoopsInv`, what each loop knows of the
  list: `ngx_nats_connection_ready` has its bound from before, and clients added since
  are past it and were told by `ngx_nats_add_client`; a closing loop covers all, since
  no client calls from `disconnected`. `HandshakeInv` follows CONNECT
  from the write buffer to the server and its answer back, so that the state bits
  cannot be ahead of the server (`ReadyAgreed`). `WriteInv` says that bytes in the
  write buffer are blocked by a full socket, or that a flush, a reader or a close is
  on the stack that will deal with them; and that a reader which started with bytes
  in the buffer, for which the comparison of line 963 proves nothing, is blocked.
* Read buffer. The invariant adds that `recv()` leaves the last byte free and
  that between two calls the readable bytes are at the front; so `ensure` without
  compaction reallocates only a compacted buffer.
* Subscriptions. `SubsInv` says that live slots, the table of the server and both
  streams name a subscription by the sid it got on this connection (`StreamsInv`),
  that no two live slots share one and that none has had its last message
  (`SlotsInv`). The first is what makes a message meet its own subscription; the
  second makes `max - recv` a number of messages left, so that a step on a slot is
  a step on the one subscription it stands for.
* The conversation. `TalkInv` adds three parts, each inductive beside `SubsInv`.
  `HandlesInv`: sids that clients hold are of this connection. `FramesInv`: every
  line under way is one that its predecessor leads to, and the last one ends a command
  (`Framed`); appending the lines of a whole call and reading the first line keep that.
  `AgreeInv` says for each live slot in which of three stages the server is
  (`SlotAgrees`): it has not read the SUB; it has the subscription, and what the client
  has counted plus the MSGs under way is what the server has sent; or it has ended it and
  the last message is under way. The limit is at the server or in an
  UNSUB still to be read. In the other direction a subscription of the server without
  a slot has its UNSUB under way (`SrvAgrees`). `Coming`, the number of MSGs
  of a sid in the stream, changes by one when a message of that sid is sent or handled:
  the lemmas on it carry the counting. With nothing under way only the second stage
  is left, and this is `Agree`.
* The parsers. `ParseSound` compares the verdict on some bytes with the verdict on any
  continuation of them: each function looks for the first of some bytes from a position on
  (`Find`, `Skip`), and a first one that has come stays the first. A verdict other than
  "more" is thus final (`ParseStable`), and a message never reaches beyond the bytes at
  hand (`ParseInBounds`), though four tests for it in `ngx_nats_parse_msg` are each
  off by one or two from the others. For all headers and payloads a MSG is taken by its
  announced length (`PayloadOpaque`), for all texts the body of an INFO ends at
  the first CR (`InfoBody`).
* The fields of an INFO. `SetFields` is a loop, `InfoAfter` says what it should come to:
  the last field of a name counts. That the two agree for every sequence of fields
  (`SetFieldsRight`) is an induction over its length. The induction theorems of the library
  cannot be used, as they take an operator; `LeastNat`
  and `SetInduction` say the same about sets of numbers, and the induction is on
  the set of lengths for which the two agree.
* The stream. `WireInv` says that the messages handled are the first ones of the script,
  that the buffer holds the stream from the end of the last of them to the last byte
  received (`StreamInv`, with the lemmas of the read buffer on `Holds`), and that a worker which waits
  for bytes lacks some of the message under way. That message, if good, begins at `pos`; alone it
  is parsed as it was meant, so with `ParseStable` it is also parsed so with
  what lies behind it, and with less than its text the verdict can only be "more", since
  any other would be the verdict on the whole. A
  bad one is either not parsed or an INFO whose fields close the connection. The refinement of
  `NatsReadBuf` rests on the same invariant: "its bytes are all there" is the verdict.
* Configuration. The invariants follow a configuration from
  the draft to the workers, and `ngx_nats_present` with it.

Only model-checked: the liveness property `EventuallyReady`, which is out of the
prover's reach (fairness, ENABLED); and `TextsParsed`, which is what the parsers compute on given
texts, evaluated by TLC: that the JSON parser agrees with a grammar for
every text takes induction over the text in both, and the string buffer and the number
ranges make the two agree only up to their bounds. The properties of the runs that
expect a violation are false, and stay so.

## Not modelled

Log messages, formatting of commands, addresses and names; kqueue, with which the end of a
stream may also be taken for a failed attempt (185); the
`NGX_ERROR` return of `ngx_nats_connect_loop` (its allocation is the first of a
pool just reset, which has room for it); read timeouts (the read timer is never
armed); shutdown beyond `ngx_nats_exit`. `ngx_nats_conn_err_reported` only decides
what is logged.

Of the parsers: overflow in `_nats_atoi` (numbers of 19 digits), running out of
memory, the value of a double and hexadecimal ones (`strtod` accepts them,
`IsDouble` does not; no script has one), the zero bytes written behind a body, the debug
print. Upper and lower case are not told apart, as in the code.

`ngx_nats_create_inbox`, the generator of random numbers with its self-test, and the
search for a local address: their results are numbers and names that nothing else
in the code depends on, and there is no state but a seed. Pools are not modelled;
those of `ngx_nats_core_create_conf` are never destroyed.

## Plan

1. `NatsComm` and its proofs, the buffers and theirs (done).
2. `NatsSubs` and `NatsPubSub` with the refinement and its proof (done).
3. `NatsParse`, `NatsJson` and `NatsWire`, with `NatsReadBuf` on top (done).
4. `NatsConf` and its proofs (done).
5. Proofs of `ClientInv` with `ClientView`, `ConnectedOnce`, `NoStaleSubs`, `ReadyAgreed`
   and `WriteProgress` (done).
6. Proofs of `TalkInv` with `FramesKept`, `HandlesOwned` and `Agree` (done).
7. `NatsWireProofs`: stability of the parser, the fields of an INFO, the invariant of the
   read loop with its real parsers and the refinement of `NatsReadBuf` (done).
8. Left: that `JsonParse` agrees with the grammar of `NatsServer` for every text, and
   overflow in `_nats_atoi`, which needs integers of the real width.
