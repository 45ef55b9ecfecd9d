----------------------------- MODULE MCNatsSubs -----------------------------
(***************************************************************************)
(* NatsSubs for TLC: the clients may be exchanged.                         *)
(***************************************************************************)
EXTENDS NatsSubs, TLC

Symmetry == Permutations(Clients)

=============================================================================
