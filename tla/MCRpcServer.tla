---------------------------- MODULE MCRpcServer -----------------------------
(* Two clients, and two scenarios that share one of two personas; one      *)
(* guards one of two edits, the other both.  The other persona's reply     *)
(* takes longer than the shortest wait, so that it can be pending when the *)
(* scenario without him is loaded.                                         *)
EXTENDS RpcServer, TLC

CONSTANTS c1, c2, launch, hiring, ann, bob, task, budget

MCScript == launch :> <<1, 3>> @@ hiring :> <<2>>
MCCast == launch :> {ann, bob} @@ hiring :> {ann}
MCGuard == launch :> {budget} @@ hiring :> {task, budget}
MCDelay == ann :> 1 @@ bob :> 2
MCWaits == {-1, 1, 2}
=============================================================================
