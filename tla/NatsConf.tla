------------------------------ MODULE NatsConf ------------------------------
(***************************************************************************)
(* The nats{...} section (src/src/ngx_nats.c) through starts, reloads and  *)
(* worker processes.  nginx, which reads the file, calls the handlers of   *)
(* directives, keeps the old cycle when a reload is rejected and forks the *)
(* workers, is modelled as the module relies on it.                        *)
(*                                                                         *)
(* A configuration (ngx_nats_core_conf_t) keeps the list of servers, the   *)
(* intervals and the lengths of user and password.  The set that holds it  *)
(* is empty where the code has a null pointer in conf_ctx.                 *)
(***************************************************************************)
EXTENDS Integers, Sequences

CONSTANTS
    Workers,    \* worker processes
    Servers,    \* the servers that may be listed
    Times,      \* values of the intervals that may be given
    Lens,       \* lengths that a user name or a password may have
    MaxServers, \* bound: server lines in a section
    MaxCycles,  \* bound: configurations accepted
    MayChange   \* may a file have a section when another one had none?

ASSUME ConfAssumption ==
    /\ Times \subseteq Nat /\ Lens \subseteq Nat
    /\ MaxServers \in Nat /\ MaxCycles \in Nat /\ MayChange \in BOOLEAN

VARIABLES
    uses,     \* do the files have a section? (if they may not change)
    parsing,  \* "no", "main" or "block": where the parser is in the file
    present,  \* ngx_nats_present, which outlives cycles
    draft,    \* conf_ctx of the cycle being set up
    conf,     \* conf_ctx of the current cycle
    cycles,   \* configurations accepted so far
    runs,     \* per worker: the configuration it runs NATS with
    up,       \* workers that are running
    fault     \* "none", or the process that followed a null pointer

vars == <<uses, parsing, present, draft, conf, cycles, runs, up, fault>>

Unset == -1                 \* NGX_CONF_UNSET_MSEC, and data == NULL of a string
DefaultReconnect == 1000    \* NGX_NATS_DEFAULT_RECONNECT
DefaultPing      == 20000   \* NGX_NATS_DEFAULT_PING
DefaultUser      == 16      \* strlen of NGX_NATS_DEFAULT_USER
MaxUserPass      == 512     \* NGX_NATS_MAS_USER_PASS_LEN
Hardcoded        == 87      \* the CONNECT and PING lines without user and password
ConnStr          == MaxUserPass + 128   \* sizeof(connstr) in ngx_nats_connection_init

Init ==
    /\ uses \in BOOLEAN
    /\ parsing = "no" /\ present = FALSE /\ draft = {} /\ conf = {} /\ cycles = 0
    /\ runs = [w \in Workers |-> {}] /\ up = {} /\ fault = "none"

Running == fault # "master"

-----------------------------------------------------------------------------
(* Reading a file *)

\* The start of nginx, or a reload
ReadFile ==
    /\ Running /\ parsing = "no" /\ cycles < MaxCycles
    /\ parsing' = "main" /\ draft' = {}
    /\ UNCHANGED <<uses, present, conf, cycles, runs, up, fault>>

\* An error anywhere: a reload is given up.  At the start nginx exits, and the
\* next start is a new process.
Reject ==
    /\ parsing # "no"
    /\ parsing' = "no" /\ draft' = {}
    /\ present' = (present /\ cycles > 0)
    /\ UNCHANGED <<uses, conf, cycles, runs, up, fault>>

\* ngx_nats_core_create_conf
NewConf == [servers |-> <<>>, reconnect |-> Unset, ping |-> Unset, user |-> Unset, password |-> Unset]

\* ngx_nats_block, up to the call of ngx_conf_parse.  A second section takes
\* the place of the first.
Block ==
    /\ parsing = "main" /\ (MayChange \/ uses)
    /\ parsing' = "block" /\ present' = TRUE /\ draft' = {NewConf}
    /\ UNCHANGED <<uses, conf, cycles, runs, up, fault>>

\* ngx_nats_core_server
Server(s) ==
    /\ parsing = "block"
    /\ \E c \in draft :
        /\ Len(c.servers) < MaxServers
        /\ draft' = {[c EXCEPT !.servers = Append(c.servers, s)]}
    /\ UNCHANGED <<uses, parsing, present, conf, cycles, runs, up, fault>>

\* ngx_conf_set_msec_slot and ngx_conf_set_str_slot: a directive that is given
\* twice is an error (Reject).
Set(c) ==
    /\ parsing = "block"
    /\ draft' = {c}
    /\ UNCHANGED <<uses, parsing, present, conf, cycles, runs, up, fault>>

SetReconnect == \E c \in draft, t \in Times : c.reconnect = Unset /\ Set([c EXCEPT !.reconnect = t])
SetPing      == \E c \in draft, t \in Times : c.ping = Unset /\ Set([c EXCEPT !.ping = t])
SetUser      == \E c \in draft, n \in Lens  : c.user = Unset /\ Set([c EXCEPT !.user = n])
SetPassword  == \E c \in draft, n \in Lens  : c.password = Unset /\ Set([c EXCEPT !.password = n])

Or(value, default) == IF value = Unset THEN default ELSE value

\* The defaults of ngx_nats_core_init_conf
Filled(c) ==
    [servers   |-> c.servers,
     reconnect |-> Or(c.reconnect, DefaultReconnect),
     ping      |-> Or(c.ping, DefaultPing),
     user      |-> Or(c.user, DefaultUser),
     password  |-> Or(c.password, 0)]

\* A slip to test the properties with: the lengths are checked one by one.
FaultyAccepted(c) ==
    c.servers # <<>> /\ Filled(c).user <= MaxUserPass /\ Filled(c).password <= MaxUserPass

\* "no servers defined", "user name and password are too long"
Accepted(c) == c.servers # <<>> /\ Filled(c).user + Filled(c).password <= MaxUserPass

\* The rest of ngx_nats_block, with ngx_nats_core_init_conf
BlockEnd ==
    /\ parsing = "block"
    /\ \E c \in draft : Accepted(c) /\ draft' = {Filled(c)}
    /\ parsing' = "main"
    /\ UNCHANGED <<uses, present, conf, cycles, runs, up, fault>>

\* The end of the file: the new cycle becomes the current one, and
\* ngx_nats_core_init_module runs.
FileEnd ==
    /\ parsing = "main" /\ (MayChange \/ uses = (draft # {}))
    /\ conf' = draft /\ cycles' = cycles + 1
    /\ parsing' = "no" /\ draft' = {}
    /\ fault' = IF present /\ draft = {} THEN "master" ELSE fault
    /\ UNCHANGED <<uses, present, runs, up>>

-----------------------------------------------------------------------------
(* Workers *)

\* A slip to test the properties with: ngx_nats_present is not looked at.
FaultyFork(w) ==
    /\ Running /\ parsing = "no" /\ cycles > 0 /\ w \notin up
    /\ up' = up \cup {w}
    /\ runs' = [runs EXCEPT ![w] = conf]
    /\ fault' = IF conf = {} THEN "worker" ELSE fault
    /\ UNCHANGED <<uses, parsing, present, draft, conf, cycles>>

\* A worker is forked, after a reload or to replace one that died, and
\* ngx_nats_core_init_process runs with its copy of ngx_nats_present.
Fork(w) ==
    /\ Running /\ parsing = "no" /\ cycles > 0 /\ w \notin up
    /\ up' = up \cup {w}
    /\ runs' = [runs EXCEPT ![w] = IF present THEN conf ELSE {}]
    /\ fault' = IF present /\ conf = {} THEN "worker" ELSE fault
    /\ UNCHANGED <<uses, parsing, present, draft, conf, cycles>>

\* ngx_nats_core_exit_process and ngx_nats_exit, or the worker is killed
Exit(w) ==
    /\ w \in up
    /\ up' = up \ {w}
    /\ runs' = [runs EXCEPT ![w] = {}]
    /\ UNCHANGED <<uses, parsing, present, draft, conf, cycles, fault>>

Parse ==
    \/ ReadFile \/ Reject \/ Block \/ BlockEnd \/ FileEnd
    \/ \E s \in Servers : Server(s)
    \/ SetReconnect \/ SetPing \/ SetUser \/ SetPassword

Next == Parse \/ \E w \in Workers : Fork(w) \/ Exit(w)

Spec == Init /\ [][Next]_vars

-----------------------------------------------------------------------------
(* Properties *)

\* What the connection manager takes for granted: there is a server to connect
\* to, the timers have intervals, and the CONNECT line with user and password
\* fits into connstr, whatever sections, reloads and rejected files came before.
Usable(c) ==
    /\ c.servers # <<>>
    /\ c.reconnect # Unset /\ c.ping # Unset
    /\ Hardcoded + c.user + c.password <= ConnStr

RunsUsable == \A w \in Workers : \A c \in runs[w] : Usable(c)

\* "nats{...} section is not in config. Just ignore.": no process follows the
\* null pointer that stands for the missing section.
NoNullConf == fault = "none"

=============================================================================
