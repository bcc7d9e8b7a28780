------------------------------ MODULE Ranking -------------------------------
(***************************************************************************)
(* Sorting a set by a strict total order, as Python's sorted() and a heap  *)
(* emptied one by one do.  The n-th member is the one that n - 1 members   *)
(* come before.  (The community modules' SetToSortSeq rests on an operator *)
(* that the proof system has no definition of.)                            *)
(***************************************************************************)
EXTENDS Naturals, FiniteSets

Ranked(S, Op(_, _)) ==
  [n \in 1 .. Cardinality(S) |->
     CHOOSE x \in S : Cardinality({y \in S : Op(y, x)}) = n - 1]
=============================================================================
