----------------------------- MODULE MCSeeding ------------------------------
(* Four seeds and a directory with a name of its own.  The first template  *)
(* has a seed the lazy solver passes and three valid ones; the edited one  *)
(* has one valid seed, two rejected for other reasons and one that cannot  *)
(* be bound.                                                               *)
EXTENDS Seeding, TLC

Pass == [bound |-> TRUE, coherent |-> TRUE, floor |-> TRUE, ceiling |-> TRUE]
Incoherent == [bound |-> TRUE, coherent |-> FALSE, floor |-> FALSE, ceiling |-> FALSE]
Unsolved == [Pass EXCEPT !.floor = FALSE]
Unbound == [Incoherent EXCEPT !.bound = FALSE]
Gamed == [Pass EXCEPT !.ceiling = FALSE]

MCJudged ==
  (0 :> (0 :> Gamed @@ 1 :> Pass @@ 2 :> Pass @@ 3 :> Pass)) @@
  (1 :> (0 :> Pass @@ 1 :> Unsolved @@ 2 :> Incoherent @@ 3 :> Unbound))
MCFiles == << "world", "eval" >>
=============================================================================
