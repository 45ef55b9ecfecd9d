---------------------------- MODULE MCNatsComm ----------------------------
(* Instances of NatsComm for TLC: what the servers may do in each of them. *)
EXTENDS NatsComm, TLC

CONSTANTS c1, c2, s1, s2

\* Every server may do all of it, but only the first greets without its version.
Everything == [i \in Servers |-> IF i = 0 THEN Behaviours ELSE Behaviours \ {"bare"}]

\* Every server works.
Reliable == [i \in Servers |-> {"accept", "answer"}]

\* The last server works; the others may fail in every way that does not
\* make the worker wait before it goes on.
FirstUnreliable == [i \in Servers |->
    {"accept", "answer"} \cup (IF i = N - 1 THEN {} ELSE {"decline", "hang", "drop"})]

SockSymmetry == Permutations({s1, s2})
Symmetry == SockSymmetry \cup Permutations({c1, c2})

===========================================================================
