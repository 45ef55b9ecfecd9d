----------------------------- MODULE MCNatsConf -----------------------------
\* Names for the model values that TLC checks NatsConf with
EXTENDS NatsConf, TLC

CONSTANTS w1, w2, a, b

Symmetry == Permutations(Workers) \cup Permutations(Servers)

=============================================================================
