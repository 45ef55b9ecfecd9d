--------------------------- MODULE NatsConfProofs ---------------------------
(***************************************************************************)
(* Whatever files are read, accepted or rejected, a worker runs with a     *)
(* configuration that the connection manager can use; and no process       *)
(* follows the null pointer of a missing section, if a section neither     *)
(* appears nor disappears.                                                 *)
(***************************************************************************)
EXTENDS NatsConf, TLAPS

Conf == [servers : Seq(Servers), reconnect : Int, ping : Int, user : Int, password : Int]

\* Outside a block the draft has been through ngx_nats_core_init_conf, and what
\* workers run with was the draft once.
ConfInv ==
    /\ draft \subseteq Conf
    /\ parsing # "block" => \A c \in draft : Usable(c)
    /\ \A c \in conf : Usable(c)
    /\ DOMAIN runs = Workers
    /\ RunsUsable

\* The section is there in all files or in none, and ngx_nats_present is only
\* set where it is there.
PresentInv ==
    /\ uses \in BOOLEAN
    /\ present => uses
    /\ cycles > 0 /\ uses => conf # {}
    /\ fault = "none"

-----------------------------------------------------------------------------

\* ngx_nats_core_create_conf and the handlers of the directives build a
\* configuration.
LEMMA Directives ==
    /\ NewConf \in Conf
    /\ \A c \in Conf, s \in Servers : [c EXCEPT !.servers = Append(c.servers, s)] \in Conf
    /\ \A c \in Conf, n \in Int :
        /\ [c EXCEPT !.reconnect = n] \in Conf /\ [c EXCEPT !.ping = n] \in Conf
        /\ [c EXCEPT !.user = n] \in Conf /\ [c EXCEPT !.password = n] \in Conf
<1>1. NewConf \in Conf
  BY DEF Conf, NewConf, Unset
<1>2. ASSUME NEW c \in Conf, NEW s \in Servers
      PROVE  [c EXCEPT !.servers = Append(c.servers, s)] \in Conf
  <2>1. Append(c.servers, s) \in Seq(Servers)
    BY DEF Conf
  <2> QED
    BY <2>1 DEF Conf
<1>3. ASSUME NEW c \in Conf, NEW n \in Int
      PROVE  /\ [c EXCEPT !.reconnect = n] \in Conf /\ [c EXCEPT !.ping = n] \in Conf
             /\ [c EXCEPT !.user = n] \in Conf /\ [c EXCEPT !.password = n] \in Conf
  BY DEF Conf
<1> QED
  BY <1>1, <1>2, <1>3

\* ngx_nats_core_init_conf makes a configuration usable or rejects it.
LEMMA FilledUsable ==
    ASSUME NEW c \in Conf, Accepted(c)
    PROVE  Filled(c) \in Conf /\ Usable(Filled(c))
<1>1. Or(c.reconnect, DefaultReconnect) \in Int \ {Unset} /\ Or(c.ping, DefaultPing) \in Int \ {Unset}
  BY DEF Conf, Or, Unset, DefaultReconnect, DefaultPing
<1>2. Or(c.user, DefaultUser) \in Int /\ Or(c.password, 0) \in Int
  BY DEF Conf, Or, DefaultUser
<1>3. /\ Filled(c).servers = c.servers /\ c.servers \in Seq(Servers)
      /\ Filled(c).reconnect = Or(c.reconnect, DefaultReconnect)
      /\ Filled(c).ping = Or(c.ping, DefaultPing)
      /\ Filled(c).user = Or(c.user, DefaultUser) /\ Filled(c).password = Or(c.password, 0)
  BY DEF Conf, Filled
<1>4. Filled(c) \in Conf
  BY <1>1, <1>2, <1>3 DEF Conf, Filled
<1>5. Hardcoded + Filled(c).user + Filled(c).password <= ConnStr
  BY <1>2, <1>3 DEF Accepted, Hardcoded, ConnStr, MaxUserPass
<1> QED
  BY <1>1, <1>3, <1>4, <1>5 DEF Usable, Accepted

LEMMA ConfStart == Init => ConfInv
BY DEF Init, ConfInv, RunsUsable

LEMMA ConfStep == ConfInv /\ [Next]_vars => ConfInv'
<1> SUFFICES ASSUME ConfInv, [Next]_vars PROVE ConfInv'
  OBVIOUS
<1>1. CASE ReadFile \/ Reject
  BY <1>1 DEF ReadFile, Reject, ConfInv, RunsUsable
<1>2. CASE Block
  BY <1>2, Directives DEF Block, ConfInv, RunsUsable
<1>3. CASE \E s \in Servers : Server(s)
  BY <1>3, Directives DEF Server, ConfInv, RunsUsable
<1>4. CASE SetReconnect \/ SetPing \/ SetUser \/ SetPassword
  <2>0. draft \subseteq Conf /\ Times \subseteq Int /\ Lens \subseteq Int
    BY ConfAssumption DEF ConfInv
  <2>1. PICK c \in Conf : Set(c)
    <3>1. CASE SetReconnect
      BY <2>0, <3>1, Directives, Zenon DEF SetReconnect
    <3>2. CASE SetPing
      BY <2>0, <3>2, Directives, Zenon DEF SetPing
    <3>3. CASE SetUser
      BY <2>0, <3>3, Directives, Zenon DEF SetUser
    <3>4. CASE SetPassword
      BY <2>0, <3>4, Directives, Zenon DEF SetPassword
    <3> QED
      BY <1>4, <3>1, <3>2, <3>3, <3>4
  <2> QED
    BY <2>1 DEF Set, ConfInv, RunsUsable
<1>5. CASE BlockEnd
  BY <1>5, FilledUsable DEF BlockEnd, ConfInv, RunsUsable
<1>6. CASE FileEnd
  BY <1>6 DEF FileEnd, ConfInv, RunsUsable
<1>7. ASSUME NEW w \in Workers, Fork(w) PROVE ConfInv'
  BY <1>7 DEF Fork, ConfInv, RunsUsable
<1>8. ASSUME NEW w \in Workers, Exit(w) PROVE ConfInv'
  BY <1>8 DEF Exit, ConfInv, RunsUsable
<1>9. CASE UNCHANGED vars
  BY <1>9 DEF vars, ConfInv, RunsUsable
<1> QED
  BY <1>1, <1>2, <1>3, <1>4, <1>5, <1>6, <1>7, <1>8, <1>9 DEF Next, Parse

\* A worker always runs ngx_nats.c's connection manager with a server, with
\* intervals, and with a user and a password that fit the CONNECT line, for
\* every file, reload, rejected reload and number of workers.
THEOREM ConfUsable == Spec => []RunsUsable
<1>1. ConfInv => RunsUsable
  BY DEF ConfInv
<1> QED
  BY <1>1, ConfStart, ConfStep, PTL DEF Spec

-----------------------------------------------------------------------------

LEMMA PresentStart == Init => PresentInv
BY DEF Init, PresentInv

LEMMA PresentStep ==
    ASSUME ~MayChange, cycles \in Nat, PresentInv, [Next]_vars
    PROVE  PresentInv' /\ cycles' \in Nat
<1>1. CASE ReadFile \/ Reject \/ Block
  BY <1>1 DEF ReadFile, Reject, Block, PresentInv
<1>2. CASE \/ BlockEnd \/ \E s \in Servers : Server(s)
           \/ SetReconnect \/ SetPing \/ SetUser \/ SetPassword
  BY <1>2 DEF BlockEnd, Server, SetReconnect, SetPing, SetUser, SetPassword, Set, PresentInv
<1>3. CASE FileEnd
  BY <1>3 DEF FileEnd, PresentInv
<1>4. CASE \E w \in Workers : Fork(w) \/ Exit(w)
  BY <1>4 DEF Fork, Exit, PresentInv
<1>5. CASE UNCHANGED vars
  BY <1>5 DEF vars, PresentInv
<1> QED
  BY <1>1, <1>2, <1>3, <1>4, <1>5 DEF Next, Parse

\* "nats{...} section is not in config. Just ignore." (ngx_nats_core_init_module)
\* works as long as no reload adds or removes the section.
THEOREM ConfNoNull == ~MayChange => (Spec => []NoNullConf)
<1> SUFFICES ASSUME ~MayChange PROVE Spec => []NoNullConf
  OBVIOUS
<1>1. Init => PresentInv /\ cycles \in Nat
  BY PresentStart DEF Init
<1>2. (PresentInv /\ cycles \in Nat) /\ [Next]_vars => (PresentInv /\ cycles \in Nat)'
  BY PresentStep
<1>3. PresentInv => NoNullConf
  BY DEF PresentInv, NoNullConf
<1> QED
  BY <1>1, <1>2, <1>3, PTL DEF Spec

=============================================================================
