------------------------------ MODULE MCKernel ------------------------------
(* A small instance of the kernel: a plain event that may raise, one whose *)
(* two follow-ups fall due at once and later, and one routed to a handler  *)
(* (its follow_ups are ignored).                                           *)
EXTENDS Kernel, TLC

CONSTANTS plain, chain, handled

MCKinds == {plain, chain, handled}
MCHandled == {handled}
MCFaulty == {plain}
MCFollowUps ==
  plain :> << >> @@
  chain :> << [delay |-> 1, kind |-> plain], [delay |-> 0, kind |-> handled] >> @@
  handled :> << [delay |-> 0, kind |-> chain] >>
MCInstants == 0 .. 2
=============================================================================
