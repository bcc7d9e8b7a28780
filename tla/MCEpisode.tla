----------------------------- MODULE MCEpisode ------------------------------
(* Two personas: one knows a blocker behind an intent and a topic, and a   *)
(* second one behind a gate no argument of the shipped send_message meets, *)
(* and answers later; one answers at once, and only on another topic.  A   *)
(* decision the agent may write gates a scripted completion, which gates a *)
(* second one; writes are refused by either guard and for their path.      *)
EXTENDS Episode, TLC

CONSTANTS surfaced, hidden, replan, shed, done, blocked, stuck,  \* slots
          holder, peer, channel,                  \* addressees
          ask, chat                               \* bodies

MCSlots == {surfaced, hidden, replan, shed, done, blocked, stuck}
MCFloorDenied == {surfaced, blocked}
MCMoreDenied == {shed, done}
MCIntent == ask :> "ask_status" @@ chat :> "inform"
MCRefs == ask :> {"payments"} @@ chat :> {"payments"}
MCOffers == [b \in {ask, chat} |-> {}]

Item(about, gate, s) ==
  [intent |-> "ask_status", about |-> {about}, gate |-> gate, reveals |-> {s}]

MCKnowledge ==
  holder :> << Item("payments", "needs_rapport", hidden),
               Item("payments", "ask_direct", surfaced) >> @@
  peer :> << Item("launch", "ask_direct", surfaced) >>
MCDelay == holder :> 1 @@ peer :> 0

Write(s, v) == [slot |-> s, value |-> v]
MCUpdates == { << Write(replan, TRUE) >>,
               << Write(replan, FALSE) >>,
               << Write(replan, TRUE), Write(done, TRUE) >>,
               << Write(replan, FALSE), Write(stuck, TRUE) >>,
               << Write(blocked, FALSE) >> }

Gated(g, f) == [type |-> "system_effect", gate |-> {g}, flips |-> {f}]
MCTimeline ==
  << [at |-> 3, kind |-> Gated(shed, done)],
     [at |-> 1, kind |-> Gated(replan, shed)],
     [at |-> 0, kind |-> [type |-> "npc_message"]] >>
MCWaits == {-1, 3}
MCMeetings == {1}
MCTimes == 0 .. 12
=============================================================================
