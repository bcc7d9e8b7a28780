----------------------------- MODULE MCRollout -----------------------------
(* Two rollouts against one server that may be restarted once.             *)
EXTENDS Rollout, TLC
=============================================================================
