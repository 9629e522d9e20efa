---------------------------- MODULE MCRadosGrace ----------------------------
EXTENDS RadosGrace, TLC

CONSTANTS n1, n2

MCGroups == {{n1}, {n2}, {n1, n2}}
Sym == Permutations(Nodes) \cup Permutations(Callers)
=============================================================================
