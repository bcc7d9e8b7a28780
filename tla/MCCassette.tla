------------------------------ MODULE MCCassette ------------------------------
(* Three clients, which may follow one another or overlap, over two requests. *)
EXTENDS Cassette, TLC

CONSTANTS c1, c2, c3, k1, k2, yes, no

MCClients == {c1, c2, c3}
MCKeys == {k1, k2}
MCOutputs == {yes, no}
Symmetry == Permutations(MCClients) \cup Permutations(MCKeys) \cup Permutations(MCOutputs)
=============================================================================
