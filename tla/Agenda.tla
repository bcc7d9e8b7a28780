------------------------------- MODULE Agenda -------------------------------
(***************************************************************************)
(* What the simulation kernel promises the rest of the system about its    *)
(* events, whatever calls advance_until splits its work into:              *)
(*                                                                         *)
(*   - an event is pending from the moment it is scheduled, and leaves     *)
(*     the agenda once: it fires, or a failing run of the loop drops it;   *)
(*   - it is overtaken only by an event that is due strictly earlier:      *)
(*     two events fire out of the order they were scheduled in only when   *)
(*     their due times say so;                                             *)
(*   - sequence numbers are never reused, and what a firing event          *)
(*     schedules is due no earlier than the event itself.                  *)
(*                                                                         *)
(* Kernel implements this specification (Kernel!Implementation).           *)
(***************************************************************************)
EXTENDS Naturals, Sequences

VARIABLES pending,  \* the events scheduled and not yet fired or dropped
          fired,    \* the events fired, in order
          issued    \* the number of sequence numbers handed out

Events == [seq : Nat, time : Nat, cause : Nat]

(* The events this step puts on the agenda carry fresh, distinct numbers.  *)
Added == pending' \ pending

Fresh ==
  /\ issued' >= issued
  /\ \A e \in Added : issued < e.seq /\ e.seq <= issued'
  /\ \A e, f \in Added : e.seq = f.seq => e = f

(* Nothing that was scheduled before e is due at e's time or earlier.      *)
MayFire(e) == \A f \in pending : f.seq < e.seq => e.time < f.time

Init == /\ pending = {}
        /\ fired = << >>
        /\ issued = 0

Schedule ==
  /\ pending \subseteq pending'
  /\ Fresh
  /\ UNCHANGED fired

Fire ==
  \E e \in pending :
    /\ MayFire(e)
    /\ fired' = Append(fired, e)
    /\ pending \ {e} \subseteq pending'
    /\ e \notin pending'
    /\ Fresh
    /\ \A f \in Added : f.time >= e.time /\ f.cause = e.seq

Drop ==
  /\ pending' \subseteq pending
  /\ UNCHANGED <<fired, issued>>

Next == Schedule \/ Fire \/ Drop

Spec == Init /\ [][Next]_<<pending, fired, issued>>
=============================================================================
