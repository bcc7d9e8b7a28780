---------------------------- MODULE KernelProofs ----------------------------
(***************************************************************************)
(* What the kernel guarantees for every choice of kinds, follow-ups,       *)
(* instants and bound: type correctness, that every sequence number is     *)
(* accounted for exactly once, the order of application, and that the      *)
(* loop implements Agenda.                                                 *)
(***************************************************************************)
EXTENDS Kernel, SequenceTheorems, TLAPS

-----------------------------------------------------------------------------
(* The follow-ups of an event: fresh consecutive numbers, none due before  *)
(* its parent.                                                             *)

(* The follow-ups apply() schedules are a list of delays and kinds.        *)
LEMMA FollowUpsType ==
  ASSUME NEW e \in Event
  PROVE  /\ FollowUpsOf(e) \in Seq([delay : Nat, kind : Kinds])
         /\ Len(FollowUpsOf(e)) \in Nat
         /\ DOMAIN FollowUpsOf(e) = 1 .. Len(FollowUpsOf(e))
<1>1. e.kind \in Kinds
  BY DEF Event
<1>2. FollowUpsOf(e) \in Seq([delay : Nat, kind : Kinds])
  <2>1. << >> \in Seq([delay : Nat, kind : Kinds])
    OBVIOUS
  <2> QED  BY <1>1, <2>1, KindsAssumption DEF FollowUpsOf
<1> QED  BY <1>2

(* The events apply() schedules carry the next sequence numbers, one each, *)
(* the applied event's seq as their cause, and are due no earlier than it. *)
LEMMA EmittedFacts ==
  ASSUME NEW e \in Event, seq \in Nat
  PROVE  /\ Emitted(e) \subseteq Event
         /\ \A f \in Emitted(e) : /\ seq < f.seq
                                  /\ f.seq <= seq + Len(FollowUpsOf(e))
                                  /\ f.time >= e.time
                                  /\ f.cause = e.seq
         /\ \A f, g \in Emitted(e) : f.seq = g.seq => f = g
         /\ \A n \in seq + 1 .. seq + Len(FollowUpsOf(e)) :
              \E f \in Emitted(e) : f.seq = n
<1> DEFINE F == FollowUpsOf(e)
           New(i) == [seq |-> seq + i, time |-> e.time + F[i].delay,
                      kind |-> F[i].kind, cause |-> e.seq]
<1>1. /\ F \in Seq([delay : Nat, kind : Kinds])
      /\ Len(F) \in Nat
      /\ DOMAIN F = 1 .. Len(F)
  BY FollowUpsType
<1> HIDE DEF F
<1>2. ASSUME NEW i \in DOMAIN F
      PROVE  /\ i \in Nat
             /\ i >= 1
             /\ i <= Len(F)
             /\ F[i].delay \in Nat
             /\ F[i].kind \in Kinds
  <2>1. i \in 1 .. Len(F)
    BY <1>1
  <2>2. F[i] \in [delay : Nat, kind : Kinds]
    BY <1>1, <2>1, ElementOfSeq
  <2> QED  BY <1>1, <2>1, <2>2
<1>3. e.seq \in Nat /\ e.time \in Nat
  BY DEF Event
<1>4. Emitted(e) = {New(i) : i \in DOMAIN F}
  BY DEF Emitted, F
<1>5. Emitted(e) \subseteq Event
  BY <1>2, <1>3, <1>4 DEF Event
<1>6. \A f \in Emitted(e) : /\ seq < f.seq
                            /\ f.seq <= seq + Len(F)
                            /\ f.time >= e.time
                            /\ f.cause = e.seq
  BY <1>1, <1>2, <1>3, <1>4
<1>7. \A f, g \in Emitted(e) : f.seq = g.seq => f = g
  <2>1. ASSUME NEW i \in DOMAIN F, NEW j \in DOMAIN F, New(i).seq = New(j).seq
        PROVE  i = j
    BY <2>1, <1>2
  <2> QED  BY <2>1, <1>4
<1>8. \A n \in seq + 1 .. seq + Len(F) : \E f \in Emitted(e) : f.seq = n
  <2> TAKE n \in seq + 1 .. seq + Len(F)
  <2>1. n - seq \in DOMAIN F
    BY <1>1
  <2>2. New(n - seq).seq = n
    OBVIOUS
  <2> QED  BY <2>1, <2>2, <1>4
<1> QED  BY <1>5, <1>6, <1>7, <1>8 DEF F

-----------------------------------------------------------------------------
(* Type correctness.                                                       *)

(* A fresh kernel is well typed.                                           *)
LEMMA TypeInit == Init => TypeOK
<1> SUFFICES ASSUME Init  PROVE TypeOK
  OBVIOUS
<1>1. log \in Seq(Event)
  BY EmptySeq DEF Init
<1>2. advancing \in BOOLEAN
  BY DEF Init
<1>3. now \in Nat /\ seq \in Nat /\ until \in Nat
  BY DEF Init
<1>4. queue \in SUBSET Event /\ batch \in SUBSET Event /\ lost \in SUBSET Event
  BY DEF Init
<1> QED  BY <1>1, <1>2, <1>3, <1>4 DEF TypeOK

(* No operation of the kernel, and no failing call, breaks its types.      *)
LEMMA TypeStep ==
  ASSUME TypeOK, [Next]_vars
  PROVE  TypeOK'
<1> USE DEF TypeOK
<1>1. ASSUME NEW t \in Instants, NEW k \in Kinds, Schedule(t, k)  PROVE TypeOK'
  BY <1>1, InstantsAssumption DEF Schedule, Event
<1>2. ASSUME NEW t \in Instants, PopDue(t)  PROVE TypeOK'
  BY <1>2, InstantsAssumption DEF PopDue, Due
<1>3. ASSUME NEW e \in batch, Apply(e)  PROVE TypeOK'
  <2>1. e \in Event
    OBVIOUS
  <2>2. Emitted(e) \subseteq Event /\ Len(FollowUpsOf(e)) \in Nat
    BY <2>1, EmittedFacts, FollowUpsType
  <2> QED  BY <1>3, <2>1, <2>2 DEF Apply
<1>4. ASSUME NEW e \in batch, Raise(e)  PROVE TypeOK'
  BY <1>4 DEF Raise
<1>5. CASE Return
  BY <1>5 DEF Return
<1>6. CASE UNCHANGED vars
  BY <1>6 DEF vars
<1> QED  BY <1>1, <1>2, <1>3, <1>4, <1>5, <1>6 DEF Next, ApplyNext

(* Every reachable state of the kernel is well typed, whatever follow-ups  *)
(* its events carry.                                                       *)
THEOREM TypeCorrect == Spec => []TypeOK
<1>1. TypeOK /\ [Next]_vars => TypeOK'
  BY TypeStep
<1> QED  BY TypeInit, <1>1, PTL DEF Spec

(* The numbers of the events issued so far are 1 .. seq.                   *)
LEMMA IssuedBounds ==
  ASSUME TypeOK, ExactlyOnce
  PROVE  \A e \in Issued : e \in Event /\ e.seq \in Nat /\ 1 <= e.seq /\ e.seq <= seq
<1> TAKE e \in Issued
<1>1. \A i \in DOMAIN log : log[i] \in Event
  BY ElementOfSeq, LenProperties DEF TypeOK
<1>2. e \in Event
  BY <1>1 DEF TypeOK, Issued, Logged
<1>3. e.seq \in 1 .. seq
  BY DEF ExactlyOnce
<1> QED  BY <1>2, <1>3 DEF TypeOK

-----------------------------------------------------------------------------
(* The inductive invariant, action by action.                              *)

(* Telling the sinks of an event adds it to what was logged and keeps      *)
(* every earlier position of the log.                                      *)
LEMMA LogAppend ==
  ASSUME log \in Seq(Event), NEW e \in Event, log' = Append(log, e)
  PROVE  /\ Len(log) \in Nat
         /\ DOMAIN log = 1 .. Len(log)
         /\ DOMAIN log' = 1 .. Len(log) + 1
         /\ \A i \in 1 .. Len(log) : log'[i] = log[i]
         /\ log'[Len(log) + 1] = e
         /\ Logged' = Logged \cup {e}
<1>1. /\ Len(log) \in Nat
      /\ DOMAIN log = 1 .. Len(log)
      /\ DOMAIN log' = 1 .. Len(log) + 1
      /\ \A i \in 1 .. Len(log) : log'[i] = log[i]
      /\ log'[Len(log) + 1] = e
  BY AppendProperties, LenProperties
<1>2. 1 .. Len(log) + 1 = (1 .. Len(log)) \cup {Len(log) + 1}
  BY <1>1
<1>3. Logged' = Logged \cup {e}
  BY <1>1, <1>2 DEF Logged
<1> QED  BY <1>1, <1>3

(* The invariant holds of a fresh kernel, which has issued nothing.        *)
LEMMA InitInvariant == Init => IInv
<1> SUFFICES ASSUME Init  PROVE IInv
  OBVIOUS
<1>1. TypeOK
  BY TypeInit
<1>2. DOMAIN log = {} /\ Logged = {}
  BY DEF Init, Logged
<1>3. ExactlyOnce
  <2>1. Issued = {}
    BY <1>2 DEF Init, Issued
  <2>2. 1 .. seq = {}
    BY DEF Init
  <2> QED  BY <1>2, <2>1, <2>2 DEF Init, ExactlyOnce
<1>4. NoOvertaking /\ CausalOrder
  BY <1>2 DEF Init, NoOvertaking, CausalOrder
<1>5. BatchInCall /\ PendingOrder /\ ClockOrTarget
  BY <1>2 DEF Init, BatchInCall, PendingOrder, ClockOrTarget
<1> QED  BY <1>1, <1>3, <1>4, <1>5 DEF IInv

(* schedule() keeps the invariant: its event has a number above every      *)
(* other.                                                                  *)
LEMMA ScheduleInvariant ==
  ASSUME IInv, NEW t \in Instants, NEW k \in Kinds, Schedule(t, k)
  PROVE  IInv'
<1> DEFINE new == [seq |-> seq + 1, time |-> t, kind |-> k, cause |-> 0]
<1> USE DEF IInv
<1>1. TypeOK'
  BY TypeStep DEF Next
<1>2. /\ new \in Event
      /\ new.seq = seq + 1
      /\ new.cause = 0
      /\ seq \in Nat
  BY InstantsAssumption DEF TypeOK, Event
<1>3. \A e \in Issued : e \in Event /\ e.seq \in Nat /\ e.seq <= seq
  BY IssuedBounds
<1>4. /\ queue' = queue \cup {new}
      /\ seq' = seq + 1
      /\ Logged' = Logged
      /\ UNCHANGED <<now, advancing, until, batch, log, lost>>
  BY DEF Schedule, Logged
<1> HIDE DEF new
<1>5. Issued' = Issued \cup {new}
  BY <1>4 DEF Issued
<1>6. new \notin Issued
  BY <1>2, <1>3
<1>7. ExactlyOnce'
  <2>1. {e.seq : e \in Issued'} = 1 .. seq'
    <3>1. {e.seq : e \in Issued'} = (1 .. seq) \cup {seq + 1}
      BY <1>2, <1>5 DEF ExactlyOnce
    <3> QED  BY <3>1, <1>2, <1>4
  <2>2. \A e, f \in Issued' : e.seq = f.seq => e = f
    BY <1>2, <1>3, <1>5 DEF ExactlyOnce
  <2>3. new \notin batch /\ new \notin Logged /\ new \notin lost
    BY <1>6 DEF Issued
  <2> QED  BY <1>4, <2>1, <2>2, <2>3 DEF ExactlyOnce
<1>8. NoOvertaking'
  BY <1>4 DEF NoOvertaking
<1>9. CausalOrder'
  BY <1>2, <1>4 DEF CausalOrder
<1>10. BatchInCall'
  BY <1>4 DEF BatchInCall
<1>11. PendingOrder'
  <2>1. \A e \in Logged \cup batch : ~(new.seq < e.seq)
    BY <1>2, <1>3 DEF Issued
  <2> QED  BY <1>4, <2>1 DEF PendingOrder
<1>12. ClockOrTarget'
  BY <1>4 DEF ClockOrTarget
<1> QED  BY <1>1, <1>7, <1>8, <1>9, <1>10, <1>11, <1>12

(* Popping the due events keeps the invariant: an event left queued is due *)
(* later than every popped one.                                            *)
LEMMA PopDueInvariant ==
  ASSUME IInv, NEW t \in Instants, PopDue(t)
  PROVE  IInv'
<1> USE DEF IInv
<1>1. TypeOK'
  BY TypeStep DEF Next
<1>2. batch = {}
  BY DEF PopDue, BatchInCall
<1>3. /\ batch' = Due(t)
      /\ queue' = queue \ Due(t)
      /\ Due(t) \subseteq queue
      /\ until' = t
      /\ ~advancing
      /\ advancing'
      /\ Logged' = Logged
      /\ UNCHANGED <<now, seq, log, lost>>
  BY DEF PopDue, Due, Logged
<1>4. queue' \cup batch' = queue \cup batch
  BY <1>2, <1>3
<1>5. Issued' = Issued
  BY <1>3, <1>4 DEF Issued
<1>6. ExactlyOnce'
  BY <1>2, <1>3, <1>4, <1>5 DEF ExactlyOnce
<1>7. NoOvertaking'
  BY <1>3 DEF NoOvertaking
<1>8. CausalOrder'
  <2>1. queue' \cup batch' \cup lost' = queue \cup batch \cup lost
    BY <1>3, <1>4
  <2> QED  BY <1>3, <2>1 DEF CausalOrder
<1>9. BatchInCall'
  BY <1>3 DEF BatchInCall, Due
<1>10. PendingOrder'
  <2>1. \A e \in batch', f \in queue' : e.time < f.time
    <3> TAKE e \in batch', f \in queue'
    <3>1. e \in Event /\ f \in Event
      BY <1>3 DEF TypeOK
    <3>2. e.time <= t /\ ~(f.time <= t)
      BY <1>3 DEF Due
    <3> QED  BY <3>1, <3>2, InstantsAssumption DEF Event
  <2> QED  BY <1>3, <1>4, <2>1 DEF PendingOrder
<1>11. ClockOrTarget'
  BY <1>3 DEF ClockOrTarget
<1> QED  BY <1>1, <1>6, <1>7, <1>8, <1>9, <1>10, <1>11

(* One turn of the loop keeps the invariant: the least event of the batch  *)
(* joins the log, its follow-ups join the queue with fresh numbers.        *)
LEMMA ApplyInvariant ==
  ASSUME IInv, NEW e \in batch, Apply(e)
  PROVE  IInv'
<1> DEFINE new == Emitted(e)
           n == Len(FollowUpsOf(e))
<1> USE DEF IInv
<1>1. TypeOK'
  BY TypeStep DEF Next, ApplyNext
<1>2. e \in Event /\ seq \in Nat /\ log \in Seq(Event)
  BY DEF TypeOK
<1>3. /\ new \subseteq Event
      /\ \A f \in new : seq < f.seq /\ f.seq <= seq + n /\ f.time >= e.time /\ f.cause = e.seq
      /\ \A f, g \in new : f.seq = g.seq => f = g
      /\ \A m \in seq + 1 .. seq + n : \E f \in new : f.seq = m
  BY <1>2, EmittedFacts
<1>4. n \in Nat
  BY <1>2, FollowUpsType
<1>5. /\ seq' = seq + n
      /\ queue' = queue \cup new
      /\ batch' = batch \ {e}
      /\ advancing
      /\ IsNext(e)
      /\ UNCHANGED <<now, advancing, until, lost>>
  BY DEF Apply
<1>6. /\ DOMAIN log = 1 .. Len(log)
      /\ DOMAIN log' = 1 .. Len(log) + 1
      /\ \A i \in 1 .. Len(log) : log'[i] = log[i]
      /\ log'[Len(log) + 1] = e
      /\ Logged' = Logged \cup {e}
      /\ Len(log) \in Nat
  BY <1>2, LogAppend DEF Apply
<1>7. \A f \in Issued : f \in Event /\ f.seq \in Nat /\ 1 <= f.seq /\ f.seq <= seq
  BY IssuedBounds
<1>8. \A i \in 1 .. Len(log) : log[i] \in Logged /\ log[i] \in Event
  BY <1>2, <1>6 DEF Logged
<1> HIDE DEF new, n
<1>9. Issued' = Issued \cup new
  BY <1>5, <1>6 DEF Issued
<1>10. \A f \in new : f \notin Issued /\ f \in Event /\ f.seq \in Nat
  BY <1>2, <1>3, <1>7 DEF Event
<1>11. e \notin Logged /\ e \notin queue /\ e \notin lost /\ e \in Issued
  BY DEF ExactlyOnce, Issued
<1>12. ExactlyOnce'
  <2>1. {f.seq : f \in Issued'} = 1 .. seq'
    <3>1. {f.seq : f \in new} = seq + 1 .. seq + n
      BY <1>2, <1>3, <1>4, <1>10
    <3>2. {f.seq : f \in Issued'} = (1 .. seq) \cup (seq + 1 .. seq + n)
      BY <3>1, <1>9 DEF ExactlyOnce
    <3> QED  BY <3>2, <1>2, <1>4, <1>5
  <2>2. \A f, g \in Issued' : f.seq = g.seq => f = g
    <3>1. ASSUME NEW f \in Issued, NEW g \in new  PROVE f.seq # g.seq
      BY <1>2, <1>3, <1>7, <1>10
    <3> QED  BY <3>1, <1>3, <1>9 DEF ExactlyOnce
  <2>3. \A i, j \in DOMAIN log' : log'[i] = log'[j] => i = j
    BY <1>6, <1>8, <1>11 DEF ExactlyOnce
  <2>4. /\ new \cap batch = {}
        /\ new \cap Logged = {}
        /\ new \cap lost = {}
        /\ e \notin new
    BY <1>10, <1>11 DEF Issued
  <2> QED  BY <1>5, <1>6, <1>11, <2>1, <2>2, <2>3, <2>4 DEF ExactlyOnce
<1>13. NoOvertaking'
  <2> SUFFICES ASSUME NEW i \in DOMAIN log', NEW j \in DOMAIN log',
                      i < j, log'[j].seq < log'[i].seq
               PROVE  log'[i].time < log'[j].time
    BY DEF NoOvertaking
  <2>1. i \in 1 .. Len(log)
    BY <1>6
  <2>2. CASE j \in 1 .. Len(log)
    BY <1>6, <2>1, <2>2 DEF NoOvertaking
  <2>3. CASE j = Len(log) + 1
    BY <1>6, <1>8, <2>1, <2>3 DEF PendingOrder
  <2> QED  BY <1>6, <2>2, <2>3
<1>14. CausalOrder'
  <2>1. \A f \in new : e.seq = f.cause /\ e.seq < f.seq /\ e.time <= f.time
    BY <1>2, <1>3, <1>7, <1>10, <1>11 DEF Event
  <2>2. \A f \in queue' \cup batch' \cup lost' :
          f.cause # 0 => \E c \in Logged' :
            c.seq = f.cause /\ c.seq < f.seq /\ c.time <= f.time
    BY <1>5, <1>6, <2>1 DEF CausalOrder
  <2>3. \A j \in DOMAIN log' :
          log'[j].cause # 0 => \E i \in 1 .. j - 1 :
            /\ log'[i].seq = log'[j].cause
            /\ log'[i].seq < log'[j].seq
            /\ log'[i].time <= log'[j].time
    <3> SUFFICES ASSUME NEW j \in DOMAIN log', log'[j].cause # 0
                 PROVE  \E i \in 1 .. j - 1 :
                          /\ log'[i].seq = log'[j].cause
                          /\ log'[i].seq < log'[j].seq
                          /\ log'[i].time <= log'[j].time
      OBVIOUS
    <3>1. CASE j \in 1 .. Len(log)
      <4>1. PICK i \in 1 .. j - 1 : /\ log[i].seq = log[j].cause
                                    /\ log[i].seq < log[j].seq
                                    /\ log[i].time <= log[j].time
        BY <1>6, <3>1 DEF CausalOrder
      <4>2. i \in 1 .. Len(log)
        BY <1>6, <3>1
      <4> QED  BY <1>6, <3>1, <4>1, <4>2
    <3>2. CASE j = Len(log) + 1
      <4>1. PICK c \in Logged : c.seq = e.cause /\ c.seq < e.seq /\ c.time <= e.time
        BY <1>6, <3>2 DEF CausalOrder
      <4>2. PICK i \in 1 .. Len(log) : log[i] = c
        BY <1>6 DEF Logged
      <4> QED  BY <1>6, <3>2, <4>1, <4>2
    <3> QED  BY <1>6, <3>1, <3>2
  <2> QED  BY <2>2, <2>3 DEF CausalOrder
<1>15. BatchInCall'
  BY <1>5 DEF BatchInCall
<1>16. PendingOrder'
  <2>1. \A f \in batch : f.seq < e.seq => e.time < f.time
    <3> TAKE f \in batch
    <3>1. f \in Event /\ (f = e \/ Before(e, f))
      BY <1>5 DEF TypeOK, IsNext
    <3> QED  BY <1>2, <3>1 DEF Before, Event
  <2>2. \A f \in Logged \cup batch, g \in new : ~(g.seq < f.seq)
    BY <1>2, <1>3, <1>7, <1>10 DEF Issued
  <2>3. \A f \in Logged', g \in queue' \cup batch' : g.seq < f.seq => f.time < g.time
    BY <1>5, <1>6, <2>1, <2>2 DEF PendingOrder
  <2>4. \A f \in batch', g \in queue' : g.seq < f.seq => f.time < g.time
    BY <1>5, <2>2 DEF PendingOrder
  <2> QED  BY <2>3, <2>4 DEF PendingOrder
<1>17. ClockOrTarget'
  BY <1>5, <1>6 DEF ClockOrTarget, BatchInCall
<1> QED  BY <1>1, <1>12, <1>13, <1>14, <1>15, <1>16, <1>17

(* A call that raises keeps the invariant: its batch moves to the lost     *)
(* events as a whole.                                                      *)
LEMMA RaiseInvariant ==
  ASSUME IInv, NEW e \in batch, Raise(e)
  PROVE  IInv'
<1> USE DEF IInv
<1>1. TypeOK'
  BY TypeStep DEF Next, ApplyNext
<1>2. /\ lost' = lost \cup batch
      /\ batch' = {}
      /\ Logged' = Logged
      /\ UNCHANGED <<now, seq, queue, until, log>>
  BY DEF Raise, Logged
<1>3. ExactlyOnce'
  <2>1. Issued' = Issued
    BY <1>2 DEF Issued
  <2> QED  BY <1>2, <2>1 DEF ExactlyOnce
<1>4. CausalOrder'
  BY <1>2 DEF CausalOrder
<1>5. NoOvertaking' /\ BatchInCall' /\ PendingOrder'
  BY <1>2 DEF NoOvertaking, BatchInCall, PendingOrder
<1>6. ClockOrTarget'
  BY <1>2 DEF ClockOrTarget
<1> QED  BY <1>1, <1>3, <1>4, <1>5, <1>6

(* The clock move that ends a call keeps the invariant.                    *)
LEMMA ReturnInvariant ==
  ASSUME IInv, Return
  PROVE  IInv'
<1> USE DEF IInv
<1>1. TypeOK'
  BY TypeStep DEF Next
<1>2. /\ batch = {}
      /\ now' = IF until < now THEN now ELSE until
      /\ Logged' = Logged
      /\ UNCHANGED <<seq, queue, until, batch, log, lost>>
  BY DEF Return, Logged
<1>3. ExactlyOnce'
  BY <1>2 DEF ExactlyOnce, Issued
<1>4. NoOvertaking' /\ CausalOrder' /\ BatchInCall' /\ PendingOrder'
  BY <1>2 DEF NoOvertaking, CausalOrder, BatchInCall, PendingOrder
<1>5. ClockOrTarget'
  <2> SUFFICES ASSUME lost = {}, NEW f \in Logged  PROVE f.time <= now'
    BY <1>2 DEF ClockOrTarget
  <2>1. f \in Event
    BY ElementOfSeq, LenProperties DEF Logged, TypeOK
  <2> QED  BY <1>2, <2>1 DEF ClockOrTarget, TypeOK, Event
<1> QED  BY <1>1, <1>3, <1>4, <1>5

(* The strengthened invariant holds in every reachable state.              *)
THEOREM InductiveInvariant == Spec => []IInv
<1>1. IInv /\ [Next]_vars => IInv'
  <2> SUFFICES ASSUME IInv, [Next]_vars  PROVE IInv'
    OBVIOUS
  <2>1. CASE UNCHANGED vars
    BY <2>1 DEF vars, IInv, TypeOK, Logged, Issued, ExactlyOnce, NoOvertaking,
                CausalOrder, BatchInCall, PendingOrder, ClockOrTarget
  <2> QED  BY <2>1, ScheduleInvariant, PopDueInvariant, ApplyInvariant,
             RaiseInvariant, ReturnInvariant DEF Next, ApplyNext
<1> QED  BY InitInvariant, <1>1, PTL DEF Spec

(* Every sequence number names one event, in exactly one place, whatever   *)
(* the calls, follow-ups and failures.                                     *)
THEOREM ExactlyOnceHolds == Spec => []ExactlyOnce
<1>1. IInv => ExactlyOnce
  BY DEF IInv
<1> QED  BY InductiveInvariant, <1>1, PTL

(* An event is overtaken only by one that is due strictly earlier.         *)
THEOREM NoOvertakingHolds == Spec => []NoOvertaking
<1>1. IInv => NoOvertaking
  BY DEF IInv
<1> QED  BY InductiveInvariant, <1>1, PTL

(* caused_by is a causal order on what was applied.                        *)
THEOREM CausalOrderHolds == Spec => []CausalOrder
<1>1. IInv => CausalOrder
  BY DEF IInv
<1> QED  BY InductiveInvariant, <1>1, PTL

(* Without a failing call, the clock between calls covers the log.         *)
THEOREM ClockCoversLogHolds == Spec => []ClockCoversLog
<1>1. IInv => ClockCoversLog
  BY DEF IInv, TypeOK, ClockOrTarget, ClockCoversLog, Logged
<1> QED  BY InductiveInvariant, <1>1, PTL

-----------------------------------------------------------------------------
(* Refinement: a step of the loop is a step of the agenda or a stutter.    *)

(* Two issued events with the same agenda entry are the same event.        *)
LEMMA EntryInjective ==
  ASSUME TypeOK, ExactlyOnce, NEW e \in Issued, NEW f \in Issued, Entry(e).seq = Entry(f).seq
  PROVE  e = f
BY DEF Entry, ExactlyOnce

(* Logging an event fires its entry on the agenda.                         *)
LEMMA FiredAppend ==
  ASSUME log \in Seq(Event), NEW e \in Event, log' = Append(log, e)
  PROVE  Fired' = Append(Fired, Entry(e))
<1>1. /\ Len(log) \in Nat
      /\ DOMAIN log = 1 .. Len(log)
      /\ DOMAIN log' = 1 .. Len(log) + 1
      /\ \A i \in 1 .. Len(log) : log'[i] = log[i]
      /\ log'[Len(log) + 1] = e
  BY LogAppend
<1>2. \A i \in 1 .. Len(log) : log[i] \in Event
  BY ElementOfSeq
<1> DEFINE R == [seq : Nat, time : Nat, cause : Nat]
<1>3. \A f \in Event : Entry(f) \in R
  BY DEF Entry, Event
<1>4. Fired = [i \in 1 .. Len(log) |-> Entry(log[i])]
  BY <1>1 DEF Fired
<1>5. Fired \in Seq(R) /\ Len(Fired) = Len(log)
  BY <1>1, <1>2, <1>3, <1>4, IsASeq
<1>6. /\ Append(Fired, Entry(e)) \in Seq(R)
      /\ Len(Append(Fired, Entry(e))) = Len(log) + 1
      /\ \A i \in 1 .. Len(log) : Append(Fired, Entry(e))[i] = Fired[i]
      /\ Append(Fired, Entry(e))[Len(log) + 1] = Entry(e)
  BY <1>1, <1>3, <1>5, AppendProperties
<1>7. Fired' = [i \in 1 .. Len(log) + 1 |-> Entry(log'[i])]
  BY <1>1 DEF Fired
<1>8. \A i \in 1 .. Len(log) + 1 : log'[i] \in Event
  BY <1>1, <1>2
<1>9. Fired' \in Seq(R) /\ Len(Fired') = Len(log) + 1
  BY <1>1, <1>3, <1>7, <1>8, IsASeq
<1>10. \A i \in 1 .. Len(log) + 1 : Fired'[i] = Append(Fired, Entry(e))[i]
  <2> TAKE i \in 1 .. Len(log) + 1
  <2>1. CASE i \in 1 .. Len(log)
    <3>1. Append(Fired, Entry(e))[i] = Entry(log[i])
      BY <1>4, <1>6, <2>1
    <3>2. Fired'[i] = Entry(log'[i])
      BY <1>7
    <3>3. log'[i] = log[i]
      BY <1>1, <2>1
    <3> QED  BY <3>1, <3>2, <3>3
  <2>2. CASE i = Len(log) + 1
    BY <1>1, <1>6, <1>7, <2>2
  <2>3. i \in 1 .. Len(log) \/ i = Len(log) + 1
    BY <1>1
  <2> QED  BY <2>1, <2>2, <2>3
<1> QED  BY <1>1, <1>6, <1>9, <1>10, SeqEqual

(* A fresh kernel is an empty agenda.                                      *)
LEMMA AgendaInit == Init => A!Init
<1> SUFFICES ASSUME Init  PROVE A!Init
  OBVIOUS
<1>1. Pending = {}
  BY DEF Init, Pending
<1>2. log = << >> /\ seq = 0
  BY DEF Init
<1>3. Fired = << >>
  BY <1>2 DEF Fired
<1> QED  BY <1>1, <1>2, <1>3 DEF A!Init

(* schedule() is a Schedule of the agenda.                                 *)
LEMMA AgendaSchedule ==
  ASSUME IInv, NEW t \in Instants, NEW k \in Kinds, Schedule(t, k)
  PROVE  A!Schedule
<1> DEFINE new == [seq |-> seq + 1, time |-> t, kind |-> k, cause |-> 0]
<1>1. /\ queue' = queue \cup {new}
      /\ seq' = seq + 1
      /\ UNCHANGED <<batch, log>>
  BY DEF Schedule
<1>2. Entry(new).seq = seq + 1
  BY DEF Entry
<1> HIDE DEF new
<1>3. Pending' = Pending \cup {Entry(new)}
  BY <1>1 DEF Pending
<1>4. Fired' = Fired
  BY <1>1 DEF Fired
<1>5. seq \in Nat
  BY DEF IInv, TypeOK
<1>6. A!Added \subseteq {Entry(new)}
  BY <1>3 DEF A!Added
<1>7. A!Fresh
  BY <1>1, <1>2, <1>5, <1>6 DEF A!Fresh
<1> QED  BY <1>3, <1>4, <1>7 DEF A!Schedule

(* Applying an event is a Fire of the agenda: nothing scheduled before it  *)
(* and due by its time is still pending.                                   *)
LEMMA AgendaFire ==
  ASSUME IInv, NEW e \in batch, Apply(e)
  PROVE  A!Fire
<1> DEFINE new == Emitted(e)
           n == Len(FollowUpsOf(e))
<1> USE DEF IInv
<1>1. e \in Event /\ seq \in Nat /\ log \in Seq(Event) /\ batch \subseteq Event /\ queue \subseteq Event
  BY DEF TypeOK
<1>2. /\ new \subseteq Event
      /\ \A f \in new : seq < f.seq /\ f.seq <= seq + n /\ f.time >= e.time /\ f.cause = e.seq
      /\ \A f, g \in new : f.seq = g.seq => f = g
  BY <1>1, EmittedFacts
<1>3. n \in Nat
  BY <1>1, FollowUpsType
<1>4. /\ seq' = seq + n
      /\ queue' = queue \cup new
      /\ batch' = batch \ {e}
      /\ IsNext(e)
      /\ log' = Append(log, e)
  BY DEF Apply
<1> HIDE DEF new, n
<1>5. \A f \in Issued : f \in Event /\ f.seq \in Nat /\ f.seq <= seq
  BY IssuedBounds
<1>6. e \in Issued /\ e \notin queue /\ \A f \in queue \cup batch : f \in Issued
  BY DEF Issued, ExactlyOnce
<1>7. \A f \in queue \cup batch : f # e => Entry(f) # Entry(e)
  BY <1>6, EntryInjective
<1>8. \A f \in new : Entry(f) # Entry(e)
  BY <1>1, <1>2, <1>5, <1>6 DEF Entry, Event
<1>9. Entry(e) \in Pending
  BY DEF Pending
<1>10. A!MayFire(Entry(e))
  <2> SUFFICES ASSUME NEW f \in queue \cup batch, f.seq < e.seq  PROVE e.time < f.time
    BY DEF A!MayFire, Pending, Entry
  <2>1. CASE f \in queue
    BY <2>1 DEF PendingOrder
  <2>2. CASE f \in batch
    <3>1. f \in Event /\ (f = e \/ Before(e, f))
      BY <1>1, <1>4, <2>2 DEF IsNext
    <3> QED  BY <1>1, <3>1 DEF Before, Event
  <2> QED  BY <2>1, <2>2
<1>11. Fired' = Append(Fired, Entry(e))
  BY <1>1, <1>4, FiredAppend
<1>12. Pending' = (Pending \ {Entry(e)}) \cup {Entry(f) : f \in new}
  <2>1. queue' \cup batch' = ((queue \cup batch) \ {e}) \cup new
    BY <1>4, <1>6
  <2> QED  BY <2>1, <1>7 DEF Pending
<1>13. A!Added \subseteq {Entry(f) : f \in new}
  BY <1>12 DEF A!Added
<1>14. A!Fresh
  <2>1. \A f \in new : Entry(f).seq = f.seq
    BY DEF Entry
  <2> QED  BY <1>1, <1>2, <1>3, <1>4, <1>13, <2>1 DEF A!Fresh
<1>15. \A f \in A!Added : f.time >= Entry(e).time /\ f.cause = Entry(e).seq
  BY <1>2, <1>13 DEF Entry
<1>16. Entry(e) \notin Pending'
  BY <1>8, <1>12
<1> QED  BY <1>9, <1>10, <1>11, <1>12, <1>14, <1>15, <1>16 DEF A!Fire

(* Every step of the kernel is a step of the agenda or leaves it as it is. *)
LEMMA AgendaStep ==
  ASSUME IInv, [Next]_vars
  PROVE  [A!Next]_<<Pending, Fired, seq>>
<1>1. ASSUME NEW t \in Instants, PopDue(t)  PROVE UNCHANGED <<Pending, Fired, seq>>
  <2>1. queue' \cup batch' = queue \cup batch
    BY <1>1 DEF PopDue, Due, IInv, BatchInCall
  <2> QED  BY <1>1, <2>1 DEF PopDue, Pending, Fired
<1>2. ASSUME NEW e \in batch, Raise(e)  PROVE A!Drop
  BY <1>2 DEF Raise, A!Drop, Pending, Fired
<1>3. CASE Return
  BY <1>3 DEF Return, Pending, Fired
<1>4. CASE UNCHANGED vars
  BY <1>4 DEF vars, Pending, Fired
<1> QED  BY AgendaSchedule, AgendaFire, <1>1, <1>2, <1>3, <1>4 DEF Next, ApplyNext, A!Next

(* The loop, with its up-front pop, its late clock move and its failures,  *)
(* implements the agenda.                                                  *)
THEOREM KernelImplementsAgenda == Spec => Implementation
BY AgendaInit, AgendaStep, InductiveInvariant, PTL DEF Spec, Implementation, A!Spec
=============================================================================
