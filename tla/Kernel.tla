------------------------------- MODULE Kernel -------------------------------
(***************************************************************************)
(* The simulation kernel (kernel.py, events.py, clock.py): a clock, a      *)
(* priority queue of events and the loop that applies them.  A call of     *)
(* advance_until(t) pops every due event up front, applies the popped      *)
(* events one by one and only then moves the clock.  Applying an event     *)
(* may schedule follow-ups, and may raise; both happen between the pop     *)
(* and the move, which is why one call is several actions here.            *)
(*                                                                         *)
(* An event is [seq, time, kind, cause].  Its kind stands for everything   *)
(* apply() looks at: whether a handler is registered for it, the           *)
(* follow-ups its payload carries, and whether writing its deltas can      *)
(* raise.                                                                  *)
(***************************************************************************)
EXTENDS Naturals, Sequences, FiniteSets

CONSTANTS Kinds,      \* the kinds of event
          Handled,    \* those with a registered handler
          Faulty,     \* those whose deltas or handler may raise
          FollowUps,  \* FollowUps[k]: the follow_ups list of k's payload
          Instants,   \* the sim-times callers name
          MaxSeq      \* bound: callers schedule only below this seq

ASSUME KindsAssumption ==
  /\ Handled \subseteq Kinds
  /\ Faulty \subseteq Kinds
  /\ FollowUps \in [Kinds -> Seq([delay : Nat, kind : Kinds])]
ASSUME InstantsAssumption == Instants \subseteq Nat
ASSUME MaxSeqAssumption == MaxSeq \in Nat

VARIABLES now,        \* SimClock._now
          seq,        \* Kernel._seq
          queue,      \* EventQueue._heap
          advancing,  \* a call of advance_until is running,
          until,      \*   this is its argument t,
          batch,      \*   and these popped events are still to be applied
          log,        \* what the sinks were told, in order
          lost        \* history: popped, and dropped when the call raised

vars == <<now, seq, queue, advancing, until, batch, log, lost>>

Event == [seq : Nat, time : Nat, kind : Kinds, cause : Nat]

Logged == {log[i] : i \in DOMAIN log}

-----------------------------------------------------------------------------
(* The queue: ordered by (sim_time, seq).                                  *)

Before(e, f) == \/ e.time < f.time
                \/ e.time = f.time /\ e.seq < f.seq

Due(t) == {e \in queue : e.time <= t}

(* Slip: the popped list is walked as a bag.                               *)
IsNextInAnyOrder(e) == e \in batch

IsNext(e) == /\ e \in batch
             /\ \A f \in batch : f = e \/ Before(e, f)

-----------------------------------------------------------------------------
Init ==
  /\ now = 0
  /\ seq = 0
  /\ queue = {}
  /\ advancing = FALSE
  /\ until = 0
  /\ batch = {}
  /\ log = << >>
  /\ lost = {}

(* A caller outside the loop schedules an event.  Nothing checks sim_time  *)
(* against the clock: a scenario loaded late schedules into the past.      *)
Schedule(t, k) ==
  /\ ~advancing
  /\ seq < MaxSeq
  /\ seq' = seq + 1
  /\ queue' = queue \cup {[seq |-> seq + 1, time |-> t, kind |-> k, cause |-> 0]}
  /\ UNCHANGED <<now, advancing, until, batch, log, lost>>

(* Slip: pop_due peeks.                                                    *)
PopDueKeepsQueue(t) ==
  /\ ~advancing
  /\ advancing' = TRUE
  /\ until' = t
  /\ batch' = Due(t)
  /\ UNCHANGED <<now, seq, queue, log, lost>>

(* advance_until(t), its first statement: the whole batch leaves the       *)
(* queue at once, whatever t is.                                           *)
PopDue(t) ==
  /\ ~advancing
  /\ advancing' = TRUE
  /\ until' = t
  /\ batch' = Due(t)
  /\ queue' = queue \ Due(t)
  /\ UNCHANGED <<now, seq, log, lost>>

(* The follow-ups of e: a registered handler replaces the default path,    *)
(* follow-ups included.                                                    *)
FollowUpsOf(e) == IF e.kind \in Handled THEN << >> ELSE FollowUps[e.kind]

(* Slips: a delay taken as a sim-time, and one counted from a minute early. *)
EmittedAtDelay(e) ==
  {[seq   |-> seq + i,
    time  |-> FollowUpsOf(e)[i].delay,
    kind  |-> FollowUpsOf(e)[i].kind,
    cause |-> e.seq] : i \in DOMAIN FollowUpsOf(e)}

EmittedEarly(e) ==
  {[seq   |-> seq + i,
    time  |-> e.time + FollowUpsOf(e)[i].delay - 1,
    kind  |-> FollowUpsOf(e)[i].kind,
    cause |-> e.seq] : i \in DOMAIN FollowUpsOf(e)}

Emitted(e) ==
  {[seq   |-> seq + i,
    time  |-> e.time + FollowUpsOf(e)[i].delay,
    kind  |-> FollowUpsOf(e)[i].kind,
    cause |-> e.seq] : i \in DOMAIN FollowUpsOf(e)}

(* One turn of the loop: apply() writes, schedules the follow-ups in list  *)
(* order, then tells the sinks.                                            *)
Apply(e) ==
  /\ advancing
  /\ IsNext(e)
  /\ seq' = seq + Len(FollowUpsOf(e))
  /\ queue' = queue \cup Emitted(e)
  /\ batch' = batch \ {e}
  /\ log' = Append(log, e)
  /\ UNCHANGED <<now, advancing, until, lost>>

(* Slip: the sinks are told of the event that raised.                      *)
RaiseLogged(e) ==
  /\ advancing
  /\ IsNext(e)
  /\ e.kind \in Faulty
  /\ advancing' = FALSE
  /\ lost' = lost \cup (batch \ {e})
  /\ batch' = {}
  /\ log' = Append(log, e)
  /\ UNCHANGED <<now, seq, queue, until>>

(* apply() raises out of advance_until: the events popped and not yet      *)
(* applied are in no container any more, and the clock has not moved.      *)
Raise(e) ==
  /\ advancing
  /\ IsNext(e)
  /\ e.kind \in Faulty
  /\ advancing' = FALSE
  /\ lost' = lost \cup batch
  /\ batch' = {}
  /\ UNCHANGED <<now, seq, queue, until, log>>

(* The loop is over: the clock moves to t, or the call raises because t    *)
(* lies behind it; the caller gets control back either way.                *)
Return ==
  /\ advancing
  /\ batch = {}
  /\ advancing' = FALSE
  /\ now' = IF until < now THEN now ELSE until
  /\ UNCHANGED <<seq, queue, until, batch, log, lost>>

ApplyNext == \E e \in batch : Apply(e) \/ Raise(e)

Next ==
  \/ \E t \in Instants, k \in Kinds : Schedule(t, k)
  \/ \E t \in Instants : PopDue(t)
  \/ ApplyNext
  \/ Return

Spec == Init /\ [][Next]_vars

-----------------------------------------------------------------------------
(* Properties *)

TypeOK ==
  /\ now \in Nat
  /\ seq \in Nat
  /\ queue \in SUBSET Event
  /\ advancing \in BOOLEAN
  /\ until \in Nat
  /\ batch \in SUBSET Event
  /\ log \in Seq(Event)
  /\ lost \in SUBSET Event

(* Every sequence number handed out names one event, and that event is in  *)
(* exactly one place: still queued, popped by the running call, told to    *)
(* the sinks at one position of the log, or dropped by a call that raised. *)
(* No path through the pop, the follow-ups and the errors duplicates one   *)
(* or forgets one.                                                         *)
Issued == queue \cup batch \cup Logged \cup lost

ExactlyOnce ==
  /\ {e.seq : e \in Issued} = 1 .. seq
  /\ \A e, f \in Issued : e.seq = f.seq => e = f
  /\ queue \cap batch = {}
  /\ (queue \cup batch) \cap Logged = {}
  /\ (queue \cup batch \cup Logged) \cap lost = {}
  /\ \A i, j \in DOMAIN log : log[i] = log[j] => i = j

(* An event is overtaken only by one that is due strictly earlier: when a  *)
(* later-scheduled event was applied first, its due time was earlier.      *)
(* Ordering inside one batch, follow-ups that stay queued overdue, events  *)
(* scheduled into the past and dropped batches never break it.             *)
NoOvertaking ==
  \A i, j \in DOMAIN log :
    i < j /\ log[j].seq < log[i].seq => log[i].time < log[j].time

(* caused_by is a causal order: the event an event names as its cause was  *)
(* applied before it, was scheduled before it, and was due no later.       *)
CausalOrder ==
  /\ \A e \in queue \cup batch \cup lost :
       e.cause # 0 => \E c \in Logged :
         c.seq = e.cause /\ c.seq < e.seq /\ c.time <= e.time
  /\ \A j \in DOMAIN log :
       log[j].cause # 0 => \E i \in 1 .. j - 1 :
         /\ log[i].seq = log[j].cause
         /\ log[i].seq < log[j].seq
         /\ log[i].time <= log[j].time

(* Between calls the clock is never behind an applied event, as long as no *)
(* call has raised: the clock is moved after the batch, and a call that    *)
(* raises leaves applied events in the future of the clock.                *)
ClockCoversLog ==
  lost = {} /\ ~advancing => \A i \in DOMAIN log : log[i].time <= now

(* The inductive strengthening of the four: a popped batch exists only     *)
(* inside a call and is due by its target; whatever is still pending was   *)
(* scheduled after, or is due after, everything applied so far, and        *)
(* whatever stayed queued after, or due after, everything popped.          *)
BatchInCall == /\ ~advancing => batch = {}
               /\ \A e \in batch : e.time <= until

PendingOrder ==
  /\ \A e \in Logged, f \in queue \cup batch : f.seq < e.seq => e.time < f.time
  /\ \A e \in batch, f \in queue : f.seq < e.seq => e.time < f.time

ClockOrTarget ==
  lost = {} => \A e \in Logged : \/ e.time <= now
                                 \/ advancing /\ e.time <= until

IInv == /\ TypeOK
        /\ ExactlyOnce
        /\ NoOvertaking
        /\ CausalOrder
        /\ BatchInCall
        /\ PendingOrder
        /\ ClockOrTarget

(* The kernel implements the agenda: what Agenda says a caller may rely on *)
(* holds of the two-phase loop, its pop and its clock move being stutters. *)
Entry(e) == [seq |-> e.seq, time |-> e.time, cause |-> e.cause]

Pending == {Entry(e) : e \in queue \cup batch}

Fired == [i \in DOMAIN log |-> Entry(log[i])]

A == INSTANCE Agenda WITH pending <- Pending, fired <- Fired, issued <- seq

Implementation == A!Spec
=============================================================================
