---------------------------- MODULE NatsPubSub -----------------------------
(***************************************************************************)
(* What the client interface promises about subscriptions, without slots,  *)
(* subscription numbers, a server or a stream.  A subscription is one call *)
(* of ngx_nats_subscribe; it is known by the client_subscription_data that *)
(* the call was given, which no two calls share.                           *)
(***************************************************************************)
EXTENDS Integers

CONSTANTS
    Clients,    \* ngx_nats_client_t's
    Maxima,     \* the values of `max` clients ask for; 0: no limit
    Datas,      \* the values of client_subscription_data
    NoCall      \* no message handler has been called yet

VARIABLES
    live,       \* the subscriptions in force: whose they are, and in `left` how
                \* many messages are to come before they end, 0 if any number
    called      \* the subscription whose handler was called last

vars == <<live, called>>

Init == live = {} /\ called = NoCall

Subscribe(c, max) ==
    /\ \E d \in Datas :
        /\ \A s \in live : s.data # d
        /\ live' = live \cup {[data |-> d, client |-> c, left |-> max]}
    /\ UNCHANGED called

\* s after one more message for it: gone if that was the last one
Counted(s) ==
    IF s.left = 0 THEN {s}
    ELSE IF s.left = 1 THEN {}
    ELSE {[data |-> s.data, client |-> s.client, left |-> s.left - 1]}

\* The handler of a subscription in force is called ...
Deliver(s) ==
    /\ live' = (live \ {s}) \cup Counted(s)
    /\ called' = s.data

\* ... or the message is dropped, for lack of memory.
Drop(s) ==
    /\ live' = (live \ {s}) \cup Counted(s)
    /\ UNCHANGED called

Unsubscribe(s) == live' = live \ {s} /\ UNCHANGED called

\* The connection is lost, and with it every subscription.
Disconnect == live' = {} /\ UNCHANGED called

Next ==
    \/ \E c \in Clients, max \in Maxima : Subscribe(c, max)
    \/ \E s \in live : Deliver(s) \/ Drop(s) \/ Unsubscribe(s)
    \/ Disconnect

Spec == Init /\ [][Next]_vars

=============================================================================
