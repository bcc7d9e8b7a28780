----------------------------- MODULE MCRunIndex -----------------------------
(* One run of the CLI and one of a rollout; one process of each kind, any  *)
(* two of them at a time.                                                  *)
EXTENDS RunIndex

CONSTANTS a, agent, ls, eval, ui
=============================================================================
