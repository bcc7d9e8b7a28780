---------------------------- MODULE MCCliSession ----------------------------
(* A reply that comes after a later scripted message, a scripted message   *)
(* at the opening, and a completion gated on the operator's own request.   *)
EXTENDS CliSession, TLC

CONSTANTS ask, reply, script, gated

MCFollowUps ==
  ask :> << [delay |-> 1, kind |-> reply] >> @@
  reply :> << >> @@ script :> << >> @@ gated :> << >>
MCGates == gated :> ask
MCTimeline == << [at |-> 0, kind |-> script], [at |-> 1, kind |-> gated],
                 [at |-> 2, kind |-> script] >>
=============================================================================
