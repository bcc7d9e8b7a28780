--------------------------- MODULE EpisodeProofs ----------------------------
(***************************************************************************)
(* What an episode guarantees for every cast, script, agent, horizon and   *)
(* budget: that its log is in due order, that the live world is the replay *)
(* of the log, that what shows was earned, that a refused step costs       *)
(* nothing but itself, and that the episode is paid once for what a        *)
(* regrade confirms.  All of it rests on what is proved of the kernel.     *)
(***************************************************************************)
EXTENDS Episode, SequenceTheorems, TLAPS

KP == INSTANCE KernelProofs WITH
        Kinds <- EventKinds, Handled <- HandledKinds, Faulty <- RefusedKinds,
        FollowUps <- FollowUpsOfKind, Instants <- Times,
        MaxSeq <- Len(Timeline) + MaxSteps + MaxSteps

-----------------------------------------------------------------------------
(* The episode's kinds satisfy what the kernel assumes of its own.         *)

(* A kind of event is recognised by its type: only the agent's verbs and   *)
(* the personas' replies have the types the script may not use.            *)
LEMMA KindsByType ==
  ASSUME NEW k \in EventKinds
  PROVE  /\ k.type = "send_message" => k \in MessageKinds
         /\ k.type = "npc_reply" => k \in ReplyKinds
         /\ k.type = "mutate" => k \in UpdateKinds
         /\ k.type = "system_effect" => k \in ScriptKinds
         /\ k \in ScriptKinds => k.type \notin {"send_message", "npc_reply", "mutate"}
         /\ k \in MessageKinds => k.type = "send_message"
         /\ k \in UpdateKinds => k.type = "mutate"
<1>1. k \in MessageKinds => k.type = "send_message"
  BY DEF MessageKinds
<1>2. k \in ReplyKinds => k.type = "npc_reply"
  BY DEF ReplyKinds
<1>3. k \in UpdateKinds => k.type = "mutate"
  BY DEF UpdateKinds
<1>4. k \in ScriptKinds => k.type \notin {"send_message", "npc_reply", "mutate"}
  BY ScriptAssumption
<1> QED  BY <1>1, <1>2, <1>3, <1>4 DEF EventKinds

(* The follow-ups of a message are at most the reply of its addressee.     *)
LEMMA FollowUpsFact ==
  ASSUME NEW k \in EventKinds
  PROVE  /\ ~(k.type = "send_message" /\ k.to \in NPCs) => FollowUpsOfKind[k] = << >>
         /\ k.type = "send_message" /\ k.to \in NPCs =>
              /\ FollowUpsOfKind[k] =
                   << [delay |-> Delay[k.to],
                       kind  |-> [type |-> "npc_reply", npc |-> k.to, body |-> k.body]] >>
              /\ [type |-> "npc_reply", npc |-> k.to, body |-> k.body] \in EventKinds
              /\ Delay[k.to] \in Nat
<1>1. k.type = "send_message" => k.body \in Bodies
  BY KindsByType DEF MessageKinds
<1>2. k.type = "send_message" /\ k.to \in NPCs =>
        [type |-> "npc_reply", npc |-> k.to, body |-> k.body] \in EventKinds
  BY <1>1 DEF EventKinds, ReplyKinds
<1> QED  BY <1>2, CastAssumption DEF FollowUpsOfKind

(* The assumptions of Kernel, under the substitution of this module.       *)
LEMMA KernelAssumptions ==
  /\ HandledKinds \subseteq EventKinds
  /\ RefusedKinds \subseteq EventKinds
  /\ FollowUpsOfKind \in [EventKinds -> Seq([delay : Nat, kind : EventKinds])]
  /\ Times \subseteq Nat
  /\ Len(Timeline) + MaxSteps + MaxSteps \in Nat
<1>1. HandledKinds \subseteq EventKinds /\ RefusedKinds \subseteq EventKinds
  BY DEF HandledKinds, RefusedKinds, EventKinds
<1>2. FollowUpsOfKind \in [EventKinds -> Seq([delay : Nat, kind : EventKinds])]
  <2>1. ASSUME NEW k \in EventKinds
        PROVE  FollowUpsOfKind[k] \in Seq([delay : Nat, kind : EventKinds])
    <3>1. CASE k.type = "send_message" /\ k.to \in NPCs
      <4>1. [delay |-> Delay[k.to],
             kind  |-> [type |-> "npc_reply", npc |-> k.to, body |-> k.body]]
              \in [delay : Nat, kind : EventKinds]
        BY <3>1, FollowUpsFact
      <4> DEFINE r == [delay |-> Delay[k.to],
                       kind  |-> [type |-> "npc_reply", npc |-> k.to, body |-> k.body]]
      <4>2. FollowUpsOfKind[k] = << r >>
        BY <3>1, FollowUpsFact
      <4>3. r \in [delay : Nat, kind : EventKinds]
        BY <4>1
      <4> HIDE DEF r
      <4> QED  BY <4>2, <4>3
    <3>2. CASE ~(k.type = "send_message" /\ k.to \in NPCs)
      <4>1. FollowUpsOfKind[k] = << >>
        BY <3>2, FollowUpsFact
      <4> QED  BY <4>1
    <3> QED  BY <3>1, <3>2
  <2>2. FollowUpsOfKind = [k \in EventKinds |-> FollowUpsOfKind[k]]
    BY DEF FollowUpsOfKind
  <2> QED  BY <2>1, <2>2
<1>3. Len(Timeline) \in Nat
  BY ScriptAssumption
<1>4. Times \subseteq Nat /\ MaxSteps \in Nat
  BY EpisodeAssumption
<1>5. Len(Timeline) + MaxSteps + MaxSteps \in Nat
  BY <1>3, <1>4
<1> QED  BY <1>1, <1>2, <1>4, <1>5, Zenon

-----------------------------------------------------------------------------
(* Each action is an action of the kernel or leaves it as it is.           *)

(* The clock and the target of the last call are times of the episode.     *)
ClockInTimes == now \in Times /\ until \in Times

(* Loading schedules a scripted event or ends.                             *)
LEMMA LoadIsSchedule ==
  ASSUME LoadScript, seq \in Nat
  PROVE  \/ \E i \in DOMAIN Timeline : /\ i = seq + 1
                                       /\ Timeline[i].at \in Times
                                       /\ Timeline[i].kind \in ScriptKinds
                                       /\ K!Schedule(Timeline[i].at, Timeline[i].kind)
                                       /\ mode' = "loading"
         \/ UNCHANGED kernelVars /\ mode' = "ready"
<1>1. CASE seq < Len(Timeline)
  <2>1. seq + 1 \in DOMAIN Timeline
    BY <1>1, ScriptAssumption
  <2>2. Timeline[seq + 1] \in [at : Times, kind : ScriptKinds]
    <3> DEFINE T == [at : Times, kind : ScriptKinds]
    <3>1. Timeline \in Seq(T)
      BY ScriptAssumption
    <3> HIDE DEF T
    <3>2. Timeline[seq + 1] \in T
      BY <2>1, <3>1, ElementOfSeq, LenProperties
    <3> QED  BY <3>2 DEF T
  <2> QED  BY <1>1, <2>1, <2>2 DEF LoadScript
<1>2. CASE ~(seq < Len(Timeline))
  BY <1>2 DEF LoadScript
<1> QED  BY <1>1, <1>2

(* The shape of a step, as the kernel sees it.                             *)
LEMMA StepShape ==
  ASSUME [Next]_vars, seq \in Nat, ClockInTimes
  PROVE  \/ UNCHANGED kernelVars
         \/ \E t \in Times, k \in EventKinds : K!Schedule(t, k)
         \/ \E t \in Times : K!PopDue(t)
         \/ \E e \in batch : K!Apply(e) \/ K!Raise(e)
         \/ K!Return
<1>1. CASE UNCHANGED vars
  BY <1>1 DEF vars
<1>2. CASE Observe \/ Reject
  BY <1>2 DEF Observe, Reject
<1>3. ASSUME NEW d \in Waits, Wait(d)  PROVE \E t \in Times : K!PopDue(t)
  BY <1>3 DEF Wait, Advance
<1>4. ASSUME NEW m \in Meetings, Attend(m)  PROVE \E t \in Times : K!PopDue(t)
  BY <1>4, EpisodeAssumption DEF Attend, Advance, ClockInTimes
<1>5. ASSUME NEW k \in MessageKinds \cup UpdateKinds, Mutate(k)
      PROVE  \E t \in Times, l \in EventKinds : K!Schedule(t, l)
  BY <1>5 DEF Mutate, ClockInTimes, EventKinds
<1>6. CASE LoadScript
  BY <1>6, LoadIsSchedule DEF EventKinds
<1>7. CASE KernelTurn
  BY <1>7 DEF KernelTurn, ApplyEvent, RefuseEvent
<1>8. CASE EndAdvance \/ DrainReturns
  BY <1>8 DEF EndAdvance, DrainReturns
<1>9. CASE Drain
  BY <1>9 DEF Drain, ClockInTimes
<1>10. CASE EndMutate
  BY <1>10 DEF EndMutate
<1> QED  BY <1>1, <1>2, <1>3, <1>4, <1>5, <1>6, <1>7, <1>8, <1>9, <1>10
       DEF Next, AgentStep, ServeStep

(* The kernel named by the specification and the kernel the lemmas are     *)
(* about are the same.                                                     *)
LEMMA SameKernel ==
  /\ K!Init <=> KP!Init
  /\ K!TypeOK <=> KP!TypeOK
  /\ K!Next <=> KP!Next
  /\ kernelVars = KP!vars
  /\ K!vars = KP!vars
<1>1. K!Init <=> KP!Init
  BY Zenon DEF K!Init, KP!Init
<1>2. K!TypeOK <=> KP!TypeOK
  BY Zenon DEF K!TypeOK, KP!TypeOK, K!Event, KP!Event
<1>3. kernelVars = KP!vars /\ K!vars = KP!vars
  BY Zenon DEF kernelVars, K!vars, KP!vars
<1>4. \A t, k : K!Schedule(t, k) <=> KP!Schedule(t, k)
  BY Zenon DEF K!Schedule, KP!Schedule
<1>5. \A t : K!PopDue(t) <=> KP!PopDue(t)
  BY Zenon DEF K!PopDue, KP!PopDue, K!Due, KP!Due
<1>6. \A e : K!IsNext(e) <=> KP!IsNext(e)
  BY Zenon DEF K!IsNext, KP!IsNext, K!Before, KP!Before
<1>7. \A e : K!FollowUpsOf(e) = KP!FollowUpsOf(e)
  BY Zenon DEF K!FollowUpsOf, KP!FollowUpsOf
<1>8. \A e : K!Emitted(e) = KP!Emitted(e)
  BY Zenon DEF K!Emitted, KP!Emitted, K!FollowUpsOf, KP!FollowUpsOf
<1>9. \A e : K!Apply(e) <=> KP!Apply(e)
  BY <1>6, <1>7, <1>8, Zenon DEF K!Apply, KP!Apply
<1>10. \A e : K!Raise(e) <=> KP!Raise(e)
  BY <1>6, Zenon DEF K!Raise, KP!Raise
<1>11. K!Return <=> KP!Return
  BY Zenon DEF K!Return, KP!Return
<1>12. K!Next <=> KP!Next
  BY <1>4, <1>5, <1>9, <1>10, <1>11, Zenon DEF K!Next, KP!Next, K!ApplyNext, KP!ApplyNext
<1> QED  BY <1>1, <1>2, <1>3, <1>12, Zenon

(* Every step is a step of the kernel, and what the kernel is called with  *)
(* stays a time of the episode.                                            *)
LEMMA KernelStep ==
  ASSUME [Next]_vars, K!TypeOK, ClockInTimes
  PROVE  [K!Next]_(K!vars) /\ K!TypeOK' /\ ClockInTimes'
<1>1. seq \in Nat
  BY DEF K!TypeOK
<1>2. [K!Next]_(K!vars)
  <2>1. \/ UNCHANGED kernelVars
        \/ \E t \in Times, k \in EventKinds : K!Schedule(t, k)
        \/ \E t \in Times : K!PopDue(t)
        \/ \E e \in batch : K!Apply(e) \/ K!Raise(e)
        \/ K!Return
    BY <1>1, StepShape
  <2> QED  BY <2>1 DEF K!Next, K!ApplyNext, K!vars, kernelVars
<1>3. K!TypeOK'
  <2>1. KP!TypeOK /\ [KP!Next]_(KP!vars)
    BY <1>2, SameKernel, Zenon DEF K!vars, KP!vars
  <2>2. KP!TypeOK'
    BY <2>1, KernelAssumptions, KP!TypeStep, Zenon
  <2> QED  BY <2>2, Zenon DEF K!TypeOK, KP!TypeOK, K!Event, KP!Event
<1>4. ClockInTimes'
  <2>1. \/ UNCHANGED <<now, until>>
        \/ \E t \in Times : until' = t /\ now' = now
        \/ UNCHANGED until /\ now' \in {now, until}
    <3>1. ASSUME NEW e, K!Apply(e) \/ K!Raise(e)  PROVE UNCHANGED <<now, until>>
      BY <3>1 DEF K!Apply, K!Raise
    <3>2. ASSUME NEW t, NEW k, K!Schedule(t, k)  PROVE UNCHANGED <<now, until>>
      BY <3>2 DEF K!Schedule
    <3>3. ASSUME NEW t \in Times, K!PopDue(t)  PROVE until' = t /\ now' = now
      BY <3>3 DEF K!PopDue
    <3>4. CASE K!Return
      BY <3>4 DEF K!Return
    <3> QED  BY <1>1, StepShape, <3>1, <3>2, <3>3, <3>4 DEF kernelVars
  <2> QED  BY <2>1 DEF ClockInTimes
<1> QED  BY <1>2, <1>3, <1>4

(* A fresh episode has a fresh kernel.                                     *)
LEMMA KernelStart == Init => K!Init /\ K!TypeOK /\ ClockInTimes
<1> SUFFICES ASSUME Init  PROVE K!Init /\ K!TypeOK /\ ClockInTimes
  OBVIOUS
<1>1. K!Init
  BY DEF Init
<1>2. KP!Init
  BY <1>1, SameKernel, Zenon
<1>3. KP!TypeOK
  BY <1>2, KernelAssumptions, KP!TypeInit, Zenon
<1>4. K!TypeOK
  BY <1>3, SameKernel, Zenon
<1>5. ClockInTimes
  BY <1>1, EpisodeAssumption DEF K!Init, ClockInTimes
<1> QED  BY <1>1, <1>4, <1>5

(* Hidden behind the kernel's variables, an episode is a run of the        *)
(* kernel.                                                                 *)
LEMMA RunsKernel == Spec => K!Spec
<1>1. K!TypeOK /\ ClockInTimes /\ [Next]_vars =>
        [K!Next]_(K!vars) /\ K!TypeOK' /\ ClockInTimes'
  BY KernelStep
<1> QED  BY <1>1, KernelStart, PTL DEF Spec, K!Spec

(* So everything proved of the kernel holds of the episode.                *)
LEMMA KernelKept == Spec => [](KP!IInv /\ ClockInTimes)
<1>1. K!TypeOK /\ ClockInTimes /\ [Next]_vars =>
        [K!Next]_(K!vars) /\ K!TypeOK' /\ ClockInTimes'
  BY KernelStep
<1>2. Spec => []ClockInTimes
  BY <1>1, KernelStart, PTL DEF Spec
<1>3. K!Spec <=> KP!Spec
  <2>1. [K!Next]_(K!vars) <=> [KP!Next]_(KP!vars)
    BY SameKernel, Zenon DEF K!vars, KP!vars
  <2> QED  BY <2>1, SameKernel, PTL DEF K!Spec, KP!Spec
<1>4. KP!Spec => []KP!IInv
  BY KernelAssumptions, KP!InductiveInvariant, Zenon
<1> QED  BY RunsKernel, <1>2, <1>3, <1>4, PTL

-----------------------------------------------------------------------------
(* Type correctness.                                                       *)

DeltaSets == UNION {[S -> BOOLEAN] : S \in SUBSET Slots}
Effects   == [sets : DeltaSets, says : {"ack", "reveal", "nothing"}]

Types == /\ world \in [Slots -> BOOLEAN]
         /\ effects \in Seq(Effects)
         /\ Len(effects) = Len(log)
         /\ mode \in {"loading", "ready", "advance", "mutate"}
         /\ steps \in 0 .. MaxSteps
         /\ horizon \in Nat
         /\ deadline \subseteq Nat \ {0}
         /\ outcome \in {"none", "timeout", "completed"}
         /\ grade \in [Slots -> BOOLEAN]
         /\ rewards \in Nat
         /\ reported \in BOOLEAN
         /\ torn \subseteq Slots

IsDecision(d, p, body) ==
  /\ d \in Effects
  /\ \A s \in DOMAIN d.sets :
       /\ d.sets[s] = TRUE
       /\ \E i \in KnownTo(p) : /\ s \in Knowledge[p][i].reveals
                                /\ Unlocks(Knowledge[p][i], body)

(* The persona's decision: nothing, or the reveals of an item the message  *)
(* unlocks.                                                                *)
LEMMA DecisionFacts ==
  \A p \in NPCs : \A body : IsDecision(Decision(p, body), p, body)
<1> TAKE p \in NPCs
<1> TAKE body
<1> USE DEF IsDecision
<1> DEFINE d == Decision(p, body)
           U == Unlocked(p, body)
<1>1. NoSets \in DeltaSets /\ DOMAIN NoSets = {}
  BY DEF NoSets, DeltaSets
<1>2. CASE U = {}
  BY <1>1, <1>2 DEF Decision, Effects
<1>3. CASE U # {}
  <2> DEFINE n == CHOOSE i \in U : TRUE
             R == Knowledge[p][n].reveals
  <2>1. n \in U
    BY <1>3
  <2>2. n \in KnownTo(p) /\ Unlocks(Knowledge[p][n], body)
    BY <2>1 DEF Unlocked
  <2>3. R \subseteq Slots
    BY <2>2, CastAssumption
  <2>4. d = [sets |-> [s \in R |-> TRUE], says |-> "reveal"]
    BY <1>3 DEF Decision
  <2> HIDE DEF n
  <2>5. [s \in R |-> TRUE] \in DeltaSets
    <3>1. [s \in R |-> TRUE] \in [R -> BOOLEAN]
      OBVIOUS
    <3> QED  BY <2>3, <3>1 DEF DeltaSets
  <2> QED  BY <2>2, <2>4, <2>5 DEF Effects
<1> QED  BY <1>2, <1>3

(* What applying an event of a kind may write.                             *)
LEMMA EffectFacts ==
  ASSUME world \in [Slots -> BOOLEAN], NEW k \in EventKinds, k \notin RefusedKinds,
         NEW d \in EffectsOf(k)
  PROVE  /\ d \in Effects
         /\ k.type = "npc_reply" => IsDecision(d, k.npc, k.body)
         /\ k.type = "system_effect" => d = GatedEffect(k)
         /\ k.type # "npc_reply" => DOMAIN d.sets \cap Revealed = {}
<1>1. NoSets \in DeltaSets /\ DOMAIN NoSets = {}
  BY DEF NoSets, DeltaSets
<1>2. CASE k.type = "npc_reply"
  <2>1. k.npc \in NPCs
    BY <1>2, KindsByType DEF ReplyKinds
  <2>2. d = Decision(k.npc, k.body) \/ d = [sets |-> NoSets, says |-> "ack"]
    BY <1>2 DEF EffectsOf, Replies
  <2>3. CASE d = Decision(k.npc, k.body)
    <3>1. IsDecision(d, k.npc, k.body)
      BY <2>1, <2>3, DecisionFacts, Zenon
    <3> QED  BY <1>2, <3>1 DEF IsDecision
  <2>4. CASE d = [sets |-> NoSets, says |-> "ack"]
    BY <1>1, <1>2, <2>4 DEF Effects, IsDecision
  <2> QED  BY <2>2, <2>3, <2>4
<1>3. CASE k.type = "system_effect"
  <2>1. d = GatedEffect(k)
    BY <1>3 DEF EffectsOf
  <2>2. k.flips \subseteq Slots \ Revealed
    BY <1>3, KindsByType, ScriptAssumption
  <2> DEFINE F == k.flips
  <2>3. [s \in F |-> TRUE] \in [F -> BOOLEAN]
    OBVIOUS
  <2>4. [s \in F |-> TRUE] \in DeltaSets /\ DOMAIN [s \in F |-> TRUE] = F
    BY <2>2, <2>3 DEF DeltaSets
  <2>5. d.says = "nothing" /\ (d.sets = NoSets \/ d.sets = [s \in F |-> TRUE])
    BY <2>1 DEF GatedEffect
  <2>6. d = [sets |-> d.sets, says |-> d.says]
    BY <2>1 DEF GatedEffect
  <2> QED  BY <1>1, <1>3, <2>1, <2>2, <2>4, <2>5, <2>6 DEF Effects
<1>4. CASE k.type = "mutate"
  <2>1. k \in UpdateKinds
    BY <1>4, KindsByType
  <2> DEFINE w == k.writes
             W == {w[i].slot : i \in 1 .. Len(w)}
  <2>2. w \in Seq([slot : Slots, value : BOOLEAN])
    BY <2>1, WriteAssumption DEF UpdateKinds
  <2>3. \A i \in 1 .. Len(w) : w[i].slot \in Slots \ Revealed
    <3> TAKE i \in 1 .. Len(w)
    <3>1. w[i] \in [slot : Slots, value : BOOLEAN]
      BY <2>2, ElementOfSeq
    <3>2. i \in DOMAIN w
      BY <2>2
    <3> QED  BY <2>1, <3>1, <3>2, WriteAssumption DEF RefusedKinds, UpdateKinds
  <2>4. d = [sets |-> Sets(w, Len(w)), says |-> "nothing"]
    BY <1>4 DEF EffectsOf
  <2> HIDE DEF w
  <2>5. W \subseteq Slots \ Revealed
    BY <2>3
  <2>6. Sets(w, Len(w)) \in [W -> BOOLEAN]
    BY DEF Sets
  <2>7. Sets(w, Len(w)) \in DeltaSets /\ DOMAIN Sets(w, Len(w)) = W
    BY <2>5, <2>6 DEF DeltaSets
  <2> QED  BY <1>4, <2>4, <2>5, <2>7 DEF Effects
<1>5. CASE k.type \notin {"npc_reply", "system_effect", "mutate"}
  <2>1. d = [sets |-> NoSets, says |-> "nothing"]
    BY <1>5 DEF EffectsOf
  <2> QED  BY <1>1, <1>5, <2>1 DEF Effects
<1> QED  BY <1>2, <1>3, <1>4, <1>5

(* Projected worlds are worlds.                                            *)
LEMMA ProjectType == \A at : Project(at) \in [Slots -> BOOLEAN]
BY DEF Project, Opening

(* The end of a step keeps the grader's state well typed.                  *)
LEMMA ReplyTypes ==
  ASSUME Types, NEW n, ReplyOk(n) \/ ReplyError(n)
  PROVE  /\ mode' = "ready"
         /\ outcome' \in {"none", "timeout", "completed"}
         /\ grade' \in [Slots -> BOOLEAN]
         /\ rewards' \in Nat
         /\ reported' \in BOOLEAN
<1>1. mode' = "ready" /\ reported' = (reported \/ Done(n))
  BY DEF ReplyOk, ReplyError
<1>2. reported' \in BOOLEAN
  BY <1>1, Zenon
<1>3. /\ outcome' \in {outcome, "timeout", "completed"}
      /\ grade' = grade \/ grade' = Project(horizon)
      /\ rewards' \in {rewards, rewards + 1}
  BY DEF ReplyOk, ReplyError
<1> QED  BY <1>1, <1>2, <1>3, ProjectType DEF Types

(* Which steps change what the world and the log say: the turns of the     *)
(* loop.  The configuration never changes.                                 *)
LEMMA WorldFrame ==
  ASSUME [Next]_vars
  PROVE  /\ UNCHANGED configVars
         /\ \/ \E e \in batch : ApplyEvent(e)
            \/ \E e \in batch : RefuseEvent(e)
            \/ UNCHANGED <<world, effects, torn, log>>
<1>1. CASE UNCHANGED vars
  BY <1>1 DEF vars, kernelVars, configVars
<1>2. CASE Observe \/ Reject \/ EndMutate
  BY <1>2 DEF Observe, Reject, EndMutate, kernelVars, configVars
<1>3. ASSUME NEW d \in Waits, Wait(d)  PROVE UNCHANGED <<configVars, world, effects, torn, log>>
  BY <1>3 DEF Wait, Advance, K!PopDue
<1>4. ASSUME NEW m \in Meetings, Attend(m)  PROVE UNCHANGED <<configVars, world, effects, torn, log>>
  BY <1>4 DEF Attend, Advance, K!PopDue
<1>5. ASSUME NEW k \in MessageKinds \cup UpdateKinds, Mutate(k)
      PROVE  UNCHANGED <<configVars, world, effects, torn, log>>
  BY <1>5 DEF Mutate, K!Schedule
<1>6. CASE LoadScript
  BY <1>6 DEF LoadScript, K!Schedule, kernelVars
<1>7. ASSUME NEW e \in batch, ApplyEvent(e)  PROVE UNCHANGED configVars
  BY <1>7 DEF ApplyEvent
<1>8. ASSUME NEW e \in batch, RefuseEvent(e)  PROVE UNCHANGED configVars
  BY <1>8 DEF RefuseEvent
<1>9. CASE EndAdvance \/ Drain \/ DrainReturns
  BY <1>9 DEF EndAdvance, Drain, DrainReturns, K!PopDue, K!Return
<1> QED  BY <1>1, <1>2, <1>3, <1>4, <1>5, <1>6, <1>7, <1>8, <1>9
       DEF Next, AgentStep, ServeStep, KernelTurn

(* A turn of the loop appends the event to the log and its deltas to the   *)
(* effects.                                                                *)
LEMMA ApplyFacts ==
  ASSUME Types, K!TypeOK, NEW e \in batch, ApplyEvent(e)
  PROVE  /\ e \in K!Event /\ e.kind \in EventKinds /\ e.kind \notin RefusedKinds
         /\ K!Apply(e)
         /\ DOMAIN log = 1 .. Len(log) /\ Len(log) \in Nat
         /\ DOMAIN log' = 1 .. Len(log) + 1
         /\ DOMAIN effects = 1 .. Len(log)
         /\ DOMAIN effects' = 1 .. Len(log) + 1
         /\ \A i \in 1 .. Len(log) : log'[i] = log[i] /\ effects'[i] = effects[i]
         /\ log'[Len(log) + 1] = e
         /\ \E d \in EffectsOf(e.kind) : /\ world' = Overlay(world, d.sets)
                                         /\ effects' = Append(effects, d)
                                         /\ effects'[Len(log) + 1] = d
                                         /\ d \in Effects
         /\ UNCHANGED <<mode, steps, configVars, graderVars, torn>>
<1>1. e \in K!Event /\ e.kind \in EventKinds
  BY DEF K!TypeOK, K!Event
<1>2. /\ K!Apply(e) /\ e.kind \notin RefusedKinds
      /\ log' = Append(log, e)
      /\ UNCHANGED <<mode, steps, configVars, graderVars, torn>>
  BY DEF ApplyEvent, K!Apply
<1>3. log \in Seq(K!Event) /\ effects \in Seq(Effects) /\ Len(effects) = Len(log)
  BY DEF K!TypeOK, Types
<1>4. /\ DOMAIN log = 1 .. Len(log) /\ Len(log) \in Nat
      /\ DOMAIN log' = 1 .. Len(log) + 1
      /\ \A i \in 1 .. Len(log) : log'[i] = log[i]
      /\ log'[Len(log) + 1] = e
  BY <1>1, <1>2, <1>3, AppendProperties, LenProperties
<1>5. PICK d \in EffectsOf(e.kind) : world' = Overlay(world, d.sets) /\ effects' = Append(effects, d)
  BY DEF ApplyEvent
<1>6. d \in Effects
  BY <1>1, <1>2, EffectFacts DEF Types
<1>7. /\ DOMAIN effects = 1 .. Len(log)
      /\ DOMAIN effects' = 1 .. Len(log) + 1
      /\ \A i \in 1 .. Len(log) : effects'[i] = effects[i]
      /\ effects'[Len(log) + 1] = d
  BY <1>3, <1>5, <1>6, AppendProperties, LenProperties
<1> QED  BY <1>1, <1>2, <1>4, <1>5, <1>6, <1>7

(* A refused event changes only slots it may write, which are torn, and    *)
(* none that a persona reveals.                                            *)
LEMMA RefuseFacts ==
  ASSUME Types, K!TypeOK, NEW e \in batch, RefuseEvent(e)
  PROVE  /\ K!Raise(e) /\ e.kind \in UpdateKinds
         /\ world' \in [Slots -> BOOLEAN]
         /\ torn \subseteq torn' /\ torn' \subseteq Slots
         /\ (torn' \ torn) \cap Revealed = {}
         /\ \A s \in Slots : s \in Revealed \/ s \notin torn' => world'[s] = world[s]
         /\ ReplyError(now)
         /\ UNCHANGED <<log, effects, steps, configVars>>
<1>1. /\ K!Raise(e) /\ e.kind \in UpdateKinds
      /\ ReplyError(now)
      /\ UNCHANGED <<log, effects, steps, configVars>>
  BY DEF RefuseEvent, RefusedKinds, K!Raise
<1> DEFINE w == e.kind.writes
<1>2. w \in Seq([slot : Slots, value : BOOLEAN])
  BY <1>1, WriteAssumption DEF UpdateKinds
<1>20. w \in Updates
  BY <1>1 DEF UpdateKinds
<1>3. PICK n \in DOMAIN w : /\ \A j \in 1 .. n - 1 : w[j].slot \notin Refused
                            /\ world' = Overlay(world, Sets(w, n - 1))
                            /\ torn' = torn \cup DOMAIN Sets(w, n - 1)
  BY DEF RefuseEvent
<1> HIDE DEF w
<1> DEFINE D == Sets(w, n - 1)
<1>4. DOMAIN D \subseteq Slots \ Revealed
  <2>1. n \in 1 .. Len(w) /\ Len(w) \in Nat
    BY <1>2, <1>3
  <2>2. \A j \in 1 .. n - 1 : w[j].slot \in Slots \ Revealed
    <3> TAKE j \in 1 .. n - 1
    <3>1. j \in 1 .. Len(w) /\ j \in DOMAIN w
      BY <1>2, <2>1
    <3>2. w[j] \in [slot : Slots, value : BOOLEAN]
      BY <1>2, <3>1, ElementOfSeq
    <3>3. w[j].slot \in Revealed => w[j].slot \in Refused
      BY <1>20, <3>1, WriteAssumption
    <3> QED  BY <1>3, <3>2, <3>3
  <2>3. DOMAIN D = {w[i].slot : i \in 1 .. n - 1}
    BY DEF Sets
  <2> QED  BY <2>2, <2>3
<1>5. \A s \in DOMAIN D : D[s] \in BOOLEAN
  BY DEF Sets
<1> HIDE DEF D
<1>6. world' = [s \in Slots |-> IF s \in DOMAIN D THEN D[s] ELSE world[s]]
  BY <1>3 DEF Overlay, D
<1>7. torn' = torn \cup DOMAIN D
  BY <1>3 DEF D
<1>8. world' \in [Slots -> BOOLEAN]
  BY <1>5, <1>6 DEF Types
<1> QED  BY <1>1, <1>4, <1>6, <1>7, <1>8 DEF Types

(* A fresh episode is well typed.                                          *)
LEMMA TypesStart == Init => Types
<1> SUFFICES ASSUME Init  PROVE Types
  OBVIOUS
<1>1. log = << >> /\ effects = << >> /\ mode = "loading" /\ steps = 0
  BY DEF Init, K!Init
<1>2. Opening \in [Slots -> BOOLEAN]
  BY DEF Opening
<1>3. horizon \in Nat /\ deadline \subseteq Nat \ {0} /\ 0 \in 0 .. MaxSteps
  BY EpisodeAssumption DEF Init
<1>4. effects \in Seq(Effects) /\ Len(effects) = Len(log)
  BY <1>1
<1> QED  BY <1>1, <1>2, <1>3, <1>4 DEF Init, Types

(* Every step keeps the types.                                             *)
LEMMA TypesStep ==
  ASSUME Types, K!TypeOK, [Next]_vars
  PROVE  Types'
<1>1. UNCHANGED configVars
  BY WorldFrame
<1>2. CASE UNCHANGED vars
  BY <1>2 DEF vars, kernelVars, configVars, graderVars, Types
<1>3. ASSUME NEW e \in batch, ApplyEvent(e)  PROVE Types'
  <2>1. PICK d \in Effects : world' = Overlay(world, d.sets) /\ effects' = Append(effects, d)
    BY <1>3, ApplyFacts
  <2>2. effects' \in Seq(Effects) /\ Len(effects') = Len(effects) + 1
    BY <2>1, AppendProperties DEF Types
  <2>3. Len(log') = Len(log) + 1
    BY <1>3, AppendProperties, ApplyFacts DEF K!Apply, K!TypeOK
  <2>4. world' \in [Slots -> BOOLEAN]
    <3>1. \A s \in DOMAIN d.sets : d.sets[s] \in BOOLEAN
      BY DEF Effects, DeltaSets
    <3> QED  BY <2>1, <3>1 DEF Overlay, Types
  <2> QED  BY <1>1, <1>3, <2>2, <2>3, <2>4, ApplyFacts DEF Types, configVars, graderVars
<1>4. ASSUME NEW e \in batch, RefuseEvent(e)  PROVE Types'
  <2>1. ReplyError(now)
    BY <1>4, RefuseFacts
  <2>2. /\ mode' = "ready"
        /\ outcome' \in {"none", "timeout", "completed"}
        /\ grade' \in [Slots -> BOOLEAN]
        /\ rewards' \in Nat
        /\ reported' \in BOOLEAN
    BY <2>1, ReplyTypes
  <2> QED  BY <1>1, <1>4, <2>2, RefuseFacts DEF Types, configVars
<1>5. CASE UNCHANGED <<world, effects, torn, log>>
  <2>1. ASSUME BeginStep  PROVE steps' \in 0 .. MaxSteps
    BY <2>1, EpisodeAssumption DEF BeginStep, Types
  <2>2. ASSUME NEW n, ReplyOk(n) \/ ReplyError(n), steps' \in 0 .. MaxSteps  PROVE Types'
    <3>1. /\ mode' = "ready"
          /\ outcome' \in {"none", "timeout", "completed"}
          /\ grade' \in [Slots -> BOOLEAN]
          /\ rewards' \in Nat
          /\ reported' \in BOOLEAN
      BY <2>2, ReplyTypes
    <3> QED  BY <1>1, <1>5, <2>2, <3>1 DEF Types, configVars
  <2>3. ASSUME UNCHANGED graderVars, steps' \in 0 .. MaxSteps,
               mode' \in {"loading", "ready", "advance", "mutate"}
        PROVE  Types'
    BY <1>1, <1>5, <2>3 DEF Types, configVars, graderVars
  <2>4. CASE Observe \/ Reject
    BY <2>1, <2>2, <2>4 DEF Observe, Reject
  <2>5. ASSUME NEW d \in Waits, Wait(d)  PROVE Types'
    BY <2>1, <2>3, <2>5 DEF Wait, Advance
  <2>6. ASSUME NEW m \in Meetings, Attend(m)  PROVE Types'
    BY <2>1, <2>3, <2>6 DEF Attend, Advance
  <2>7. ASSUME NEW k \in MessageKinds \cup UpdateKinds, Mutate(k)  PROVE Types'
    BY <2>1, <2>3, <2>7 DEF Mutate
  <2>8. CASE LoadScript
    BY <2>3, <2>8 DEF LoadScript, Types
  <2>9. CASE EndAdvance
    BY <2>2, <2>9 DEF EndAdvance, Types
  <2>10. CASE EndMutate
    BY <2>2, <2>10 DEF EndMutate, Types
  <2>11. CASE Drain \/ DrainReturns
    BY <2>3, <2>11 DEF Drain, DrainReturns, Types
  <2> QED  BY <1>2, <1>3, <1>4, <2>4, <2>5, <2>6, <2>7, <2>8, <2>9, <2>10, <2>11
         DEF Next, AgentStep, ServeStep, KernelTurn
<1> QED  BY <1>3, <1>4, <1>5, WorldFrame

(* Every state of an episode is well typed.                                *)
THEOREM TypeCorrect == Spec => []TypeOK
<1>1. KP!IInv => K!TypeOK
  BY SameKernel, Zenon DEF KP!IInv
<1>2. Types /\ K!TypeOK /\ [Next]_vars => Types'
  BY TypesStep
<1>3. Types /\ K!TypeOK => TypeOK
  BY DEF Types, TypeOK
<1> QED  BY <1>1, <1>2, <1>3, TypesStart, KernelKept, PTL DEF Spec

-----------------------------------------------------------------------------
(* Timing: what the phase of the running call says of the clock, of what   *)
(* was applied and of what is pending.                                     *)

ByAgent(e) == e.kind \in MessageKinds \cup UpdateKinds

(* Times in the log never go down.                                         *)
LogSorted == \A i, j \in DOMAIN log : i < j => log[i].time <= log[j].time

Loading ==
  mode = "loading" => /\ ~advancing /\ now = 0 /\ DOMAIN log = {}
                      /\ \A e \in queue : e.cause = 0 /\ ~ByAgent(e)

AtRest ==
  mode = "ready" => /\ ~advancing
                    /\ \A i \in DOMAIN log : log[i].time <= now
                    /\ \A e \in queue : /\ e.time >= now /\ ~ByAgent(e)
                                        /\ e.cause # 0 => e.time > now

(* The loop of a wait: what it popped lies between the clock and its       *)
(* target, what it left lies after both.                                   *)
Moving ==
  mode = "advance" =>
    /\ advancing
    /\ \A e \in queue : /\ e.time >= now /\ e.time > until /\ ~ByAgent(e)
                        /\ e.cause # 0 => e.time > now
    /\ \A e \in batch : e.time >= now /\ ~ByAgent(e)
    /\ \A i \in DOMAIN log : log[i].time <= now \/ log[i].time <= until
    /\ \A i \in DOMAIN log, e \in batch : log[i].time <= e.time

(* The drain of a mutate: the clock stands, the one event of the agent is  *)
(* due, and a write of the agent is popped before anything else can be.    *)
Mutating ==
  mode = "mutate" =>
    /\ \A i \in DOMAIN log : log[i].time <= now
    /\ \A e \in queue \cup batch : e.time >= now
    /\ \A e \in queue \cup batch : ByAgent(e) => e.time = now
    /\ \A e, f \in queue \cup batch : ByAgent(e) /\ ByAgent(f) => e = f
    /\ advancing => until = now /\ \A e \in queue : ~ByAgent(e)
    /\ ~advancing => \A e, f \in queue : ByAgent(e) /\ f.cause # 0 => f.time > now
    /\ \A e \in batch, f \in queue : e.kind \in UpdateKinds => f.time > now

Timing == LogSorted /\ Loading /\ AtRest /\ Moving /\ Mutating

(* What the kernel's invariant gives the proofs below.                     *)
KernelFacts == K!TypeOK /\ K!BatchInCall

(* Follow-ups come of messages to personas only, and are their replies.    *)
LEMMA EmittedShape ==
  ASSUME NEW e \in K!Event, seq \in Nat
  PROVE  \A f \in K!Emitted(e) :
           /\ e.kind \in MessageKinds /\ e.kind.to \in NPCs
           /\ f.kind = [type |-> "npc_reply", npc |-> e.kind.to, body |-> e.kind.body]
           /\ f.kind \in EventKinds
           /\ f.time = e.time + Delay[e.kind.to] /\ Delay[e.kind.to] \in Nat
           /\ f.cause = e.seq
           /\ ~ByAgent(f)
<1> DEFINE k == e.kind
<1>1. k \in EventKinds /\ e.time \in Nat
  BY DEF K!Event
<1>2. CASE k.type = "send_message" /\ k.to \in NPCs
  <2>1. k \notin HandledKinds
    BY <1>2 DEF HandledKinds
  <2> DEFINE r == [type |-> "npc_reply", npc |-> k.to, body |-> k.body]
             F == << [delay |-> Delay[k.to], kind |-> r] >>
  <2>2. K!FollowUpsOf(e) = F
    BY <1>1, <1>2, <2>1, FollowUpsFact DEF K!FollowUpsOf
  <2>3. DOMAIN F = {1} /\ F[1].delay = Delay[k.to] /\ F[1].kind = r
    BY DEF F
  <2>4. k \in MessageKinds /\ r \in EventKinds /\ Delay[k.to] \in Nat
    BY <1>1, <1>2, KindsByType, FollowUpsFact
  <2>5. r \notin MessageKinds \cup UpdateKinds
    BY DEF MessageKinds, UpdateKinds
  <2> HIDE DEF F
  <2>6. K!Emitted(e) = {[seq |-> seq + 1, time |-> e.time + Delay[k.to], kind |-> r, cause |-> e.seq]}
    BY <2>2, <2>3 DEF K!Emitted
  <2> QED  BY <1>2, <2>4, <2>5, <2>6 DEF ByAgent
<1>3. CASE ~(k.type = "send_message" /\ k.to \in NPCs)
  <2>1. K!FollowUpsOf(e) = << >>
    BY <1>1, <1>3, FollowUpsFact DEF K!FollowUpsOf
  <2>2. K!Emitted(e) = {}
    BY <2>1 DEF K!Emitted
  <2> QED  BY <2>2
<1> QED  BY <1>2, <1>3

(* Loading keeps the timing: nothing is due before the clock, at 0.        *)
LEMMA TimingLoad ==
  ASSUME Timing, KernelFacts, LoadScript
  PROVE  Timing'
<1>1. seq \in Nat /\ queue \subseteq K!Event
  BY DEF KernelFacts, K!TypeOK
<1>2. mode = "loading" /\ ~advancing /\ now = 0 /\ DOMAIN log = {}
  BY DEF LoadScript, Timing, Loading
<1>3. ASSUME NEW i \in DOMAIN Timeline, Timeline[i].kind \in ScriptKinds, mode' = "loading",
             K!Schedule(Timeline[i].at, Timeline[i].kind)
      PROVE  Timing'
  <2> DEFINE new == [seq |-> seq + 1, time |-> Timeline[i].at, kind |-> Timeline[i].kind, cause |-> 0]
  <2>1. queue' = queue \cup {new} /\ UNCHANGED <<now, advancing, log>>
    BY <1>3 DEF K!Schedule
  <2>2. new.cause = 0 /\ ~ByAgent(new)
    BY <1>3, KindsByType DEF ByAgent, EventKinds
  <2> HIDE DEF new
  <2> QED  BY <1>2, <1>3, <2>1, <2>2 DEF Timing, LogSorted, Loading, AtRest, Moving, Mutating, ByAgent
<1>4. ASSUME UNCHANGED kernelVars, mode' = "ready"  PROVE Timing'
  BY <1>1, <1>2, <1>4 DEF kernelVars, Timing, LogSorted, Loading, AtRest, Moving, Mutating, ByAgent, K!Event
<1> QED  BY <1>1, <1>3, <1>4, LoadIsSchedule

(* A call of advance_until pops what lies between the clock and its        *)
(* target.                                                                 *)
LEMMA TimingAdvance ==
  ASSUME Timing, KernelFacts, NEW t \in Nat, Advance(t)
  PROVE  Timing'
<1>1. /\ queue \subseteq K!Event /\ now \in Nat
      /\ \A i \in DOMAIN log : log[i] \in K!Event
  BY ElementOfSeq, LenProperties DEF KernelFacts, K!TypeOK
<1>2. /\ mode = "ready" /\ mode' = "advance"
      /\ advancing' /\ until' = t
      /\ batch' = K!Due(t) /\ queue' = queue \ K!Due(t)
      /\ UNCHANGED <<now, log>>
  BY DEF Advance, BeginStep, K!PopDue
<1>3. \A e \in queue' : e \in queue /\ e.time > t
  BY <1>1, <1>2 DEF K!Due, K!Event
<1>4. \A e \in batch' : e \in queue
  BY <1>2 DEF K!Due
<1>5. Moving'
  <2>1. \A i \in DOMAIN log, e \in queue : log[i].time <= e.time
    BY <1>1, <1>2 DEF Timing, AtRest, K!Event
  <2> QED  BY <1>2, <1>3, <1>4, <2>1 DEF Timing, AtRest, Moving, ByAgent
<1>6. LogSorted'
  BY <1>2 DEF Timing, LogSorted
<1> QED  BY <1>2, <1>5, <1>6 DEF Timing, Loading, AtRest, Mutating

(* The clock move leaves nothing the call was to apply behind it.          *)
LEMMA TimingEndAdvance ==
  ASSUME Timing, KernelFacts, EndAdvance
  PROVE  Timing'
<1>1. /\ queue \subseteq K!Event /\ now \in Nat /\ until \in Nat
      /\ \A i \in DOMAIN log : log[i] \in K!Event
  BY ElementOfSeq, LenProperties DEF KernelFacts, K!TypeOK
<1>2. /\ mode = "advance" /\ mode' = "ready"
      /\ ~advancing'
      /\ now' = IF until < now THEN now ELSE until
      /\ UNCHANGED <<queue, log>>
  BY DEF EndAdvance, K!Return, ReplyOk, ReplyError
<1>3. AtRest'
  BY <1>1, <1>2 DEF Timing, Moving, AtRest, ByAgent, K!Event
<1>4. LogSorted'
  BY <1>2 DEF Timing, LogSorted
<1> QED  BY <1>2, <1>3, <1>4 DEF Timing, Loading, Moving, Mutating

(* A mutate is stamped with the clock.                                     *)
LEMMA TimingMutate ==
  ASSUME Timing, KernelFacts, NEW k \in MessageKinds \cup UpdateKinds, Mutate(k)
  PROVE  Timing'
<1> DEFINE new == [seq |-> seq + 1, time |-> now, kind |-> k, cause |-> 0]
<1>1. /\ queue \subseteq K!Event /\ now \in Nat
  BY DEF KernelFacts, K!TypeOK
<1>2. /\ mode = "ready" /\ mode' = "mutate" /\ ~advancing
      /\ queue' = queue \cup {new}
      /\ UNCHANGED <<now, advancing, batch, log>>
  BY DEF Mutate, BeginStep, K!Schedule
<1>3. new.time = now /\ new.cause = 0 /\ ByAgent(new)
  BY DEF ByAgent
<1> HIDE DEF new
<1>4. batch = {}
  BY <1>2 DEF KernelFacts, K!BatchInCall
<1>5. Mutating'
  BY <1>1, <1>2, <1>3, <1>4 DEF Timing, AtRest, Mutating, ByAgent
<1>6. LogSorted'
  BY <1>2 DEF Timing, LogSorted
<1> QED  BY <1>2, <1>5, <1>6 DEF Timing, Loading, AtRest, Moving

(* A pass of the drain pops exactly what is due at the clock.              *)
LEMMA TimingDrain ==
  ASSUME Timing, KernelFacts, Drain
  PROVE  Timing'
<1>1. queue \subseteq K!Event /\ now \in Nat
  BY DEF KernelFacts, K!TypeOK
<1>2. /\ mode = "mutate" /\ mode' = "mutate" /\ ~advancing /\ advancing' /\ until' = now
      /\ batch' = K!Due(now) /\ queue' = queue \ K!Due(now)
      /\ UNCHANGED <<now, log>>
  BY DEF Drain, K!PopDue
<1>3. \A e \in queue' : e \in queue /\ e.time > now
  BY <1>1, <1>2 DEF K!Due, K!Event
<1>4. \A e \in batch' : e \in queue
  BY <1>2 DEF K!Due
<1>5. Mutating'
  <2>1. \A e \in queue' : ~ByAgent(e)
    BY <1>1, <1>2, <1>3 DEF Timing, Mutating, K!Event
  <2>2. \A e \in queue' \cup batch' : e \in queue
    BY <1>3, <1>4
  <2> QED  BY <1>2, <1>3, <2>1, <2>2 DEF Timing, Mutating, ByAgent
<1>6. LogSorted'
  BY <1>2 DEF Timing, LogSorted
<1> QED  BY <1>2, <1>5, <1>6 DEF Timing, Loading, AtRest, Moving

(* The pass returns with the clock where it was.                           *)
LEMMA TimingDrainReturns ==
  ASSUME Timing, KernelFacts, DrainReturns
  PROVE  Timing'
<1>1. /\ mode = "mutate" /\ mode' = "mutate" /\ advancing /\ ~advancing' /\ batch = {}
      /\ now' = IF until < now THEN now ELSE until
      /\ UNCHANGED <<queue, until, batch, log>>
  BY DEF DrainReturns, K!Return
<1>2. now' = now /\ \A e \in queue : ~ByAgent(e)
  BY <1>1 DEF Timing, Mutating
<1>3. Mutating'
  BY <1>1, <1>2 DEF Timing, Mutating, ByAgent
<1>4. LogSorted'
  BY <1>1 DEF Timing, LogSorted
<1> QED  BY <1>1, <1>3, <1>4 DEF Timing, Loading, AtRest, Moving

(* The reply of a mutate is given when nothing is due any more.            *)
LEMMA TimingEndMutate ==
  ASSUME Timing, KernelFacts, EndMutate
  PROVE  Timing'
<1>1. queue \subseteq K!Event /\ now \in Nat
  BY DEF KernelFacts, K!TypeOK
<1>2. /\ mode = "mutate" /\ mode' = "ready" /\ ~advancing /\ K!Due(now) = {}
      /\ UNCHANGED kernelVars
  BY DEF EndMutate, ReplyOk
<1>3. \A e \in queue : e.time > now
  BY <1>1, <1>2 DEF K!Due, K!Event
<1>4. AtRest'
  BY <1>1, <1>2, <1>3 DEF Timing, Mutating, AtRest, kernelVars, ByAgent, K!Event
<1>5. LogSorted'
  BY <1>2 DEF Timing, LogSorted, kernelVars
<1> QED  BY <1>2, <1>4, <1>5 DEF Timing, Loading, Moving, Mutating

(* A refused write stops a drain that had popped everything due.           *)
LEMMA TimingRefuse ==
  ASSUME Timing, KernelFacts, Types, NEW e \in batch, RefuseEvent(e)
  PROVE  Timing'
<1>1. /\ e.kind \in UpdateKinds /\ K!Raise(e) /\ ReplyError(now)
  BY RefuseFacts DEF KernelFacts
<1>2. /\ advancing /\ ~advancing' /\ mode' = "ready"
      /\ UNCHANGED <<now, queue, log>>
  BY <1>1 DEF K!Raise, ReplyError
<1>3. mode = "mutate"
  <2>1. mode # "advance"
    BY <1>1 DEF Timing, Moving, ByAgent
  <2> QED  BY <1>2, <2>1 DEF Types, Timing, Loading, AtRest
<1>4. AtRest'
  BY <1>1, <1>2, <1>3 DEF Timing, Mutating, AtRest, ByAgent
<1>5. LogSorted'
  BY <1>2 DEF Timing, LogSorted
<1> QED  BY <1>2, <1>4, <1>5 DEF Timing, Loading, Moving, Mutating

(* A turn of the loop applies nothing before what is in the log, and only  *)
(* a message leaves something new behind.                                  *)
LEMMA TimingApply ==
  ASSUME Timing, KernelFacts, Types, NEW e \in batch, ApplyEvent(e)
  PROVE  Timing'
<1> DEFINE n == Len(log)
<1>1. /\ e \in K!Event /\ K!Apply(e)
      /\ e.kind \notin RefusedKinds
      /\ n \in Nat
      /\ DOMAIN log = 1 .. n /\ DOMAIN log' = 1 .. n + 1
      /\ \A i \in 1 .. n : log'[i] = log[i]
      /\ log'[n + 1] = e
      /\ mode' = mode
  BY ApplyFacts DEF KernelFacts
<1> HIDE DEF n
<1>2. /\ advancing /\ advancing' /\ K!IsNext(e)
      /\ queue' = queue \cup K!Emitted(e)
      /\ batch' = batch \ {e}
      /\ UNCHANGED <<now, until>>
  BY <1>1 DEF K!Apply
<1>3. /\ queue \subseteq K!Event /\ batch \subseteq K!Event /\ now \in Nat /\ until \in Nat /\ seq \in Nat
      /\ \A i \in DOMAIN log : log[i] \in K!Event
      /\ \A f \in batch : f.time <= until
  BY ElementOfSeq, LenProperties DEF KernelFacts, K!TypeOK, K!BatchInCall
<1>4. \A f \in K!Emitted(e) :
        /\ e.kind \in MessageKinds
        /\ f.time >= e.time
        /\ ~ByAgent(f)
  <2> TAKE f \in K!Emitted(e)
  <2>1. /\ e.kind \in MessageKinds
        /\ f.time = e.time + Delay[e.kind.to] /\ Delay[e.kind.to] \in Nat
        /\ ~ByAgent(f)
    BY <1>1, <1>3, EmittedShape, Zenon
  <2>2. e.time \in Nat
    BY <1>1 DEF K!Event
  <2> QED  BY <2>1, <2>2
<1>5. \A f \in batch : e.time <= f.time
  BY <1>1, <1>2, <1>3 DEF K!IsNext, K!Before, K!Event
<1>6. mode \in {"advance", "mutate"}
  BY <1>2 DEF Types, Timing, Loading, AtRest
<1>7. CASE mode = "advance"
  <2>1. ~ByAgent(e)
    BY <1>7 DEF Timing, Moving
  <2>2. K!Emitted(e) = {}
    BY <1>4, <2>1 DEF ByAgent
  <2>3. \A i \in 1 .. n : log[i].time <= e.time
    BY <1>1, <1>7 DEF Timing, Moving
  <2>4. LogSorted'
    BY <1>1, <2>3 DEF Timing, LogSorted
  <2>5. Moving'
    BY <1>1, <1>2, <1>3, <1>5, <1>7, <2>2 DEF Timing, Moving, ByAgent
  <2> QED  BY <1>1, <1>7, <2>4, <2>5 DEF Timing, Loading, AtRest, Mutating
<1>8. CASE mode = "mutate"
  <2>1. until = now /\ e.time >= now
    BY <1>2, <1>8 DEF Timing, Mutating
  <2>2. e.time = now
    BY <1>1, <1>3, <2>1 DEF K!Event
  <2>3. \A i \in 1 .. n : log[i].time <= e.time
    BY <1>1, <1>8, <2>2 DEF Timing, Mutating
  <2>4. LogSorted'
    BY <1>1, <2>3 DEF Timing, LogSorted
  <2>5. \A f \in K!Emitted(e) : f.time >= now /\ ~ByAgent(f)
    BY <1>4, <2>2
  <2>6. \A f \in batch' : f.kind \in UpdateKinds => K!Emitted(e) = {}
    <3> SUFFICES ASSUME NEW f \in batch', f.kind \in UpdateKinds, NEW g \in K!Emitted(e)
                 PROVE  FALSE
      BY Zenon
    <3>1. ByAgent(e) /\ ByAgent(f) /\ f # e /\ f \in batch
      BY <1>2, <1>4 DEF ByAgent
    <3> QED  BY <1>8, <3>1 DEF Timing, Mutating
  <2>7. Mutating'
    <3>1. \A i \in DOMAIN log' : log'[i].time <= now'
      BY <1>1, <1>2, <1>8, <2>2, <1>3 DEF Timing, Mutating, K!Event
    <3>2. \A f \in queue' \cup batch' : f \in queue \cup batch \/ f \in K!Emitted(e)
      BY <1>2
    <3>3. \A f \in queue' \cup batch' : f.time >= now'
      BY <1>2, <1>8, <2>5, <3>2 DEF Timing, Mutating
    <3>4. \A f \in queue' \cup batch' : ByAgent(f) => f.time = now'
      BY <1>2, <1>8, <2>5, <3>2 DEF Timing, Mutating
    <3>5. \A f, g \in queue' \cup batch' : ByAgent(f) /\ ByAgent(g) => f = g
      BY <1>8, <2>5, <3>2 DEF Timing, Mutating
    <3>6. \A f \in queue' : ~ByAgent(f)
      BY <1>2, <1>8, <2>5 DEF Timing, Mutating
    <3>7. \A f \in batch', g \in queue' : f.kind \in UpdateKinds => g.time > now'
      BY <1>2, <1>8, <2>6 DEF Timing, Mutating
    <3> QED  BY <1>2, <2>1, <3>1, <3>3, <3>4, <3>5, <3>6, <3>7 DEF Mutating, ByAgent
  <2> QED  BY <1>1, <1>8, <2>4, <2>7 DEF Timing, Loading, AtRest, Moving
<1> QED  BY <1>6, <1>7, <1>8

(* A fresh episode has applied nothing.                                    *)
LEMMA TimingStart == Init => Timing
<1> SUFFICES ASSUME Init  PROVE Timing
  OBVIOUS
<1>1. DOMAIN log = {} /\ queue = {} /\ mode = "loading" /\ ~advancing /\ now = 0
  BY DEF Init, K!Init
<1> QED  BY <1>1 DEF Timing, LogSorted, Loading, AtRest, Moving, Mutating

(* Every step keeps the timing.                                            *)
LEMMA TimingStep ==
  ASSUME Timing, KernelFacts, Types, ClockInTimes, [Next]_vars
  PROVE  Timing'
<1>1. ASSUME UNCHANGED kernelVars, mode' = mode  PROVE Timing'
  BY <1>1 DEF kernelVars, Timing, LogSorted, Loading, AtRest, Moving, Mutating, ByAgent
<1>2. CASE UNCHANGED vars
  BY <1>1, <1>2 DEF vars, kernelVars
<1>3. CASE Observe \/ Reject
  BY <1>1, <1>3 DEF Observe, Reject, BeginStep, ReplyOk, ReplyError
<1>4. ASSUME NEW d \in Waits, Wait(d)  PROVE Timing'
  BY <1>4, TimingAdvance, EpisodeAssumption DEF Wait
<1>5. ASSUME NEW m \in Meetings, Attend(m)  PROVE Timing'
  <2>1. \E t \in Nat : Advance(t)
    BY <1>5, EpisodeAssumption DEF Attend, ClockInTimes
  <2> QED  BY <2>1, TimingAdvance
<1>6. CASE KernelTurn
  BY <1>6, TimingApply, TimingRefuse DEF KernelTurn
<1> QED  BY <1>2, <1>3, <1>4, <1>5, <1>6, TimingLoad, TimingEndAdvance, TimingMutate,
            TimingDrain, TimingDrainReturns, TimingEndMutate
       DEF Next, AgentStep, ServeStep

(* The invariant all the episode's theorems rest on.                       *)
Base == KP!IInv /\ ClockInTimes /\ Types /\ Timing

LEMMA BaseFacts == ASSUME KP!IInv  PROVE KernelFacts
<1>1. K!TypeOK
  BY SameKernel, Zenon DEF KP!IInv
<1>2. K!BatchInCall
  BY Zenon DEF KP!IInv, KP!BatchInCall, K!BatchInCall
<1> QED  BY <1>1, <1>2 DEF KernelFacts

(* It holds in every state of an episode.                                  *)
LEMMA BaseKept == Spec => []Base
<1>1. KP!IInv => KernelFacts
  BY BaseFacts
<1>2. Types /\ KernelFacts /\ [Next]_vars => Types'
  BY TypesStep DEF KernelFacts
<1>3. Timing /\ KernelFacts /\ Types /\ ClockInTimes /\ [Next]_vars => Timing'
  BY TimingStep
<1>4. Base <=> KP!IInv /\ ClockInTimes /\ Types /\ Timing
  BY DEF Base
<1> QED  BY <1>1, <1>2, <1>3, <1>4, TypesStart, TimingStart, KernelKept, PTL DEF Spec

-----------------------------------------------------------------------------
(* Order.                                                                  *)

(* Times never go down, numbers are unique and nothing is overtaken at its *)
(* own time, so the log is in (sim_time, seq) order.                       *)
LEMMA LogOrder == ASSUME Base  PROVE LogInDueOrder
<1>1. /\ \A i \in DOMAIN log : log[i] \in K!Event
      /\ LogSorted
  BY BaseFacts, ElementOfSeq, LenProperties DEF Base, KernelFacts, K!TypeOK, Timing
<1>2. KP!NoOvertaking /\ KP!ExactlyOnce
  BY Zenon DEF Base, KP!IInv
<1>3. \A i, j \in DOMAIN log : log[i].seq = log[j].seq => i = j
  BY <1>2 DEF KP!ExactlyOnce, KP!Issued, KP!Logged
<1> QED
  <2> SUFFICES ASSUME NEW i \in DOMAIN log, NEW j \in DOMAIN log, i < j
               PROVE  K!Before(log[i], log[j])
    BY DEF LogInDueOrder
  <2>1. i \in Nat /\ j \in Nat
    BY LenProperties, BaseFacts DEF Base, KernelFacts, K!TypeOK
  <2>2. log[i].time <= log[j].time
    BY <1>1 DEF LogSorted
  <2>3. log[i].seq # log[j].seq
    BY <1>3, <2>1
  <2>4. log[j].seq < log[i].seq => log[i].time < log[j].time
    BY <1>2 DEF KP!NoOvertaking
  <2> QED  BY <1>1, <2>2, <2>3, <2>4 DEF K!Before, K!Event

(* Events take effect on time and in order: the recorded log is in         *)
(* (sim_time, seq) order, and between steps nothing is overdue.            *)
THEOREM OnTimeHolds == Spec => []OnTime
<1>1. Base => OnTime
  <2> SUFFICES ASSUME Base  PROVE OnTime
    OBVIOUS
  <2>1. LogInDueOrder
    BY LogOrder
  <2>2. NothingOverdue
    BY DEF Base, Timing, AtRest, NothingOverdue
  <2> QED  BY <2>1, <2>2 DEF OnTime
<1> QED  BY <1>1, BaseKept, PTL

-----------------------------------------------------------------------------
(* The reward.                                                             *)

(* Paid once by the budget rule, and paid as soon as the clock says done.  *)
Paid == RewardOnce /\ (Done(now) => outcome # "none")

(* What a step does to the grader: a success reply as of the new clock, an *)
(* error reply as of a clock that stands, or nothing while the clock       *)
(* stands.                                                                 *)
LEMMA ReplyShape ==
  ASSUME [Next]_vars, KernelFacts, Timing
  PROVE  \/ ReplyOk(now') /\ now' >= now /\ UNCHANGED <<log, effects>>
         \/ ReplyError(now) /\ now' = now /\ UNCHANGED <<log, effects>>
         \/ UNCHANGED <<graderVars, now>>
<1>1. now \in Nat /\ until \in Nat
  BY DEF KernelFacts, K!TypeOK
<1>2. CASE UNCHANGED vars
  BY <1>2 DEF vars, kernelVars
<1>3. CASE Observe \/ EndMutate
  <2>1. ReplyOk(now) /\ UNCHANGED <<kernelVars, effects>>
    BY <1>3 DEF Observe, EndMutate
  <2>2. now' = now /\ log' = log
    BY <2>1 DEF kernelVars
  <2> QED  BY <1>1, <2>1, <2>2
<1>4. CASE Reject
  BY <1>4 DEF Reject, kernelVars
<1>5. CASE EndAdvance
  <2>1. CASE until < now
    BY <1>1, <1>5, <2>1 DEF EndAdvance, K!Return
  <2>2. CASE ~(until < now)
    BY <1>1, <1>5, <2>2 DEF EndAdvance, K!Return
  <2> QED  BY <2>1, <2>2
<1>6. ASSUME NEW e \in batch, RefuseEvent(e)  PROVE ReplyError(now) /\ UNCHANGED <<now, log, effects>>
  BY <1>6 DEF RefuseEvent, K!Raise
<1>7. ASSUME NEW e \in batch, ApplyEvent(e)  PROVE UNCHANGED <<graderVars, now>>
  BY <1>7 DEF ApplyEvent, K!Apply
<1>8. ASSUME NEW d \in Waits, Wait(d)  PROVE UNCHANGED <<graderVars, now>>
  BY <1>8 DEF Wait, Advance, K!PopDue
<1>9. ASSUME NEW m \in Meetings, Attend(m)  PROVE UNCHANGED <<graderVars, now>>
  BY <1>9 DEF Attend, Advance, K!PopDue
<1>10. ASSUME NEW k \in MessageKinds \cup UpdateKinds, Mutate(k)  PROVE UNCHANGED <<graderVars, now>>
  BY <1>10 DEF Mutate, K!Schedule
<1>11. CASE LoadScript
  BY <1>11 DEF LoadScript, K!Schedule, kernelVars
<1>12. CASE Drain
  BY <1>12 DEF Drain, K!PopDue
<1>13. CASE DrainReturns
  <2>1. UNCHANGED graderVars
    BY <1>13 DEF DrainReturns
  <2>2. now' = now
    BY <1>13 DEF DrainReturns, K!Return, Timing, Mutating
  <2> QED  BY <2>1, <2>2
<1> QED  BY <1>2, <1>3, <1>4, <1>5, <1>6, <1>7, <1>8, <1>9, <1>10, <1>11, <1>12, <1>13
       DEF Next, AgentStep, ServeStep, KernelTurn

(* A fresh episode is not done and not paid.                               *)
LEMMA PaidStart == Init => Paid
<1> SUFFICES ASSUME Init  PROVE Paid
  OBVIOUS
<1>1. /\ now = 0 /\ horizon \in Nat /\ deadline \subseteq Nat \ {0}
      /\ outcome = "none" /\ rewards = 0 /\ reported = FALSE
  BY EpisodeAssumption DEF Init, K!Init
<1>2. ~Done(now)
  BY <1>1 DEF Done
<1> QED  BY <1>1, <1>2 DEF Paid, RewardOnce, DoneIsScored

(* The reward is paid at the first success reply that is done, and an      *)
(* error reply is never the first reply to be done.                        *)
LEMMA PaidStep ==
  ASSUME Paid, Types, Timing, KernelFacts, ClockInTimes, [Next]_vars
  PROVE  Paid'
<1>1. /\ now \in Nat /\ horizon \in Nat /\ deadline \subseteq Nat
      /\ outcome \in {"none", "timeout", "completed"}
      /\ now' \in Nat
  <2>1. now' \in Nat
    BY KernelStep DEF KernelFacts, K!TypeOK
  <2> QED  BY <2>1 DEF KernelFacts, K!TypeOK, Types
<1>2. horizon' = horizon /\ deadline' = deadline
  BY WorldFrame DEF configVars
<1>3. CASE ReplyOk(now') /\ now' >= now
  <2>1. reported' = (reported \/ Done(now'))
    BY <1>3 DEF ReplyOk
  <2>2. CASE Done(now') /\ outcome = "none"
    <3>1. /\ outcome' = IF TimedOut(now') THEN "timeout" ELSE "completed"
          /\ rewards' = rewards + 1
      BY <1>3, <2>2 DEF ReplyOk
    <3>2. rewards' = 1 /\ outcome' # "none"
      BY <2>2, <3>1 DEF Paid, RewardOnce
    <3>3. outcome' = "timeout" => \E d \in deadline : d <= now' /\ (d < horizon \/ horizon = 0)
      BY <1>1, <3>1 DEF TimedOut
    <3>4. outcome' = "completed" => horizon > 0 /\ now' >= horizon /\ \A d \in deadline : d >= horizon
      <4> SUFFICES ASSUME ~TimedOut(now')
                   PROVE  horizon > 0 /\ now' >= horizon /\ \A d \in deadline : d >= horizon
        BY <3>1
      <4>1. \A d \in deadline : now' >= d => horizon > 0 /\ d >= horizon
        BY <1>1 DEF TimedOut
      <4>2. horizon > 0 /\ now' >= horizon
        BY <1>1, <2>2, <4>1 DEF Done
      <4> QED  BY <1>1, <4>1, <4>2
    <3> QED  BY <1>2, <3>2, <3>3, <3>4 DEF Paid, RewardOnce, DoneIsScored
  <2>3. CASE ~(Done(now') /\ outcome = "none")
    <3>1. UNCHANGED <<outcome, rewards>>
      BY <1>3, <2>3 DEF ReplyOk
    <3>2. Done(now') => outcome # "none"
      BY <2>3
    <3>3. reported' => outcome # "none"
      BY <2>1, <3>2 DEF Paid, RewardOnce, DoneIsScored
    <3>4. Done(now)' => outcome # "none"
      BY <1>2, <3>2 DEF Done
    <3> QED  BY <1>1, <1>2, <1>3, <3>1, <3>3, <3>4 DEF Paid, RewardOnce, DoneIsScored
  <2> QED  BY <2>2, <2>3
<1>4. CASE ReplyError(now) /\ now' = now
  <2>1. reported' => outcome # "none"
    BY <1>4 DEF ReplyError, Paid, RewardOnce, DoneIsScored
  <2>2. Done(now)' <=> Done(now)
    BY <1>2, <1>4 DEF Done
  <2> QED  BY <1>2, <1>4, <2>1, <2>2 DEF ReplyError, Paid, RewardOnce, DoneIsScored
<1>5. CASE UNCHANGED <<graderVars, now>>
  <2>1. Done(now)' <=> Done(now)
    BY <1>2, <1>5 DEF Done
  <2> QED  BY <1>2, <1>5, <2>1 DEF graderVars, Paid, RewardOnce, DoneIsScored
<1> QED  BY <1>3, <1>4, <1>5, ReplyShape

(* The log of a completed episode grows at or after the horizon only, and  *)
(* only writes at the horizon change what it projects to.                  *)
LEMMA RegradeStep ==
  ASSUME RegradeAgrees, Paid, Types, Timing, KernelFacts, [Next]_vars
  PROVE  RegradeAgrees'
<1>1. horizon' = horizon /\ horizon \in Nat
  BY WorldFrame DEF configVars, Types
<1>2. CASE UNCHANGED <<log, effects>>
  <2>1. \A s \in Slots : Project(horizon)'[s] = Project(horizon)[s]
    BY <1>1, <1>2 DEF Project, LastWriterBy, WritersBy, K!Before
  <2>2. UNCHANGED <<outcome, grade>> \/ grade' = Project(horizon)
    BY ReplyShape DEF ReplyOk, ReplyError, graderVars
  <2> QED  BY <1>1, <1>2, <2>1, <2>2 DEF RegradeAgrees
<1>3. ASSUME NEW e \in batch, ApplyEvent(e)  PROVE RegradeAgrees'
  <2> DEFINE n == Len(log)
  <2>1. /\ e \in K!Event /\ n \in Nat
        /\ DOMAIN log = 1 .. n /\ DOMAIN log' = 1 .. n + 1
        /\ \A i \in 1 .. n : log'[i] = log[i] /\ effects'[i] = effects[i]
        /\ log'[n + 1] = e
        /\ UNCHANGED graderVars
        /\ advancing
    BY <1>3, ApplyFacts DEF KernelFacts, K!Apply
  <2> HIDE DEF n
  <2>2. UNCHANGED <<outcome, grade>>
    BY <2>1 DEF graderVars
  <2> SUFFICES ASSUME outcome = "completed", NEW s \in Slots, grade[s] # Project(horizon)'[s],
                      ~ \E i \in DOMAIN log' : log'[i].time = horizon /\ s \in DOMAIN effects'[i].sets
               PROVE  FALSE
    BY <1>1, <2>2 DEF RegradeAgrees
  <2>3. e.time >= horizon
    <3>1. now >= horizon /\ now \in Nat
      BY DEF Paid, RewardOnce, KernelFacts, K!TypeOK
    <3>2. e.time >= now
      BY <2>1 DEF Types, Timing, Loading, AtRest, Moving, Mutating
    <3> QED  BY <1>1, <2>1, <3>1, <3>2 DEF K!Event
  <2>4. ~(e.time <= horizon /\ s \in DOMAIN effects'[n + 1].sets)
    <3>1. n + 1 \in DOMAIN log'
      BY <2>1
    <3> QED  BY <1>1, <2>1, <2>3, <3>1 DEF K!Event
  <2>5. WritersBy(horizon, s)' = WritersBy(horizon, s)
    BY <1>1, <2>1, <2>4 DEF WritersBy
  <2>6. LastWriterBy(horizon, s)' = LastWriterBy(horizon, s)
    <3>1. \A i \in WritersBy(horizon, s) : log'[i] = log[i]
      BY <2>1 DEF WritersBy
    <3> QED  BY <2>5, <3>1 DEF LastWriterBy, K!Before
  <2>7. \A i \in LastWriterBy(horizon, s) : effects'[i] = effects[i]
    BY <2>1 DEF LastWriterBy, WritersBy
  <2>8. Project(horizon)'[s] = Project(horizon)[s]
    BY <1>1, <2>5, <2>6, <2>7 DEF Project, Opening
  <2>9. PICK i \in DOMAIN log : log[i].time = horizon /\ s \in DOMAIN effects[i].sets
    BY <2>8 DEF RegradeAgrees
  <2> QED  BY <1>1, <2>1, <2>9
<1>4. ASSUME NEW e \in batch, RefuseEvent(e)  PROVE UNCHANGED <<log, effects>>
  BY <1>4 DEF RefuseEvent, K!Raise
<1> QED  BY <1>2, <1>3, <1>4, WorldFrame

(* The episode is paid once, for what a regrade confirms: the outcome the  *)
(* budget rule asks for, and the grade a later projection at the horizon   *)
(* gives, but for writes stamped with the horizon itself.                  *)
THEOREM RewardHolds == Spec => []RewardStands
<1>1. Base => KernelFacts /\ Types /\ Timing /\ ClockInTimes
  BY BaseFacts DEF Base
<1>2. Paid /\ Types /\ Timing /\ KernelFacts /\ ClockInTimes /\ [Next]_vars => Paid'
  BY PaidStep
<1>3. RegradeAgrees /\ Paid /\ Types /\ Timing /\ KernelFacts /\ [Next]_vars => RegradeAgrees'
  BY RegradeStep
<1>4. Init => RegradeAgrees
  BY DEF Init, RegradeAgrees
<1>5. Paid /\ RegradeAgrees => RewardStands
  BY DEF Paid, RewardStands
<1> QED  BY <1>1, <1>2, <1>3, <1>4, <1>5, PaidStart, BaseKept, PTL DEF Spec

-----------------------------------------------------------------------------
(* Replay.                                                                 *)

Writers(s) == {i \in DOMAIN log : s \in DOMAIN effects[i].sets}

(* The world shows, in every slot no failing application wrote, the value  *)
(* of the last recorded write, or the opening one.                         *)
WorldIsLastWrite ==
  \A s \in Slots \ torn :
    \/ Writers(s) = {} /\ world[s] = FALSE
    \/ \E i \in Writers(s) : /\ \A j \in Writers(s) : j <= i
                             /\ world[s] = effects[i].sets[s]

(* Every step keeps it: a turn of the loop records what it writes.         *)
LEMMA LastWriteStep ==
  ASSUME WorldIsLastWrite, Types, KernelFacts, [Next]_vars
  PROVE  WorldIsLastWrite'
<1>1. ASSUME NEW e \in batch, ApplyEvent(e)  PROVE WorldIsLastWrite'
  <2> DEFINE n == Len(log)
  <2>1. /\ n \in Nat
        /\ DOMAIN log = 1 .. n /\ DOMAIN log' = 1 .. n + 1
        /\ \A i \in 1 .. n : effects'[i] = effects[i]
        /\ torn' = torn
    BY <1>1, ApplyFacts DEF KernelFacts
  <2>2. PICK d \in Effects : world' = Overlay(world, d.sets) /\ effects'[n + 1] = d
    BY <1>1, ApplyFacts DEF KernelFacts
  <2> HIDE DEF n
  <2> SUFFICES ASSUME NEW s \in Slots \ torn
               PROVE  \/ Writers(s)' = {} /\ world'[s] = FALSE
                      \/ \E i \in Writers(s)' : /\ \A j \in Writers(s)' : j <= i
                                                /\ world'[s] = effects'[i].sets[s]
    BY <2>1 DEF WorldIsLastWrite
  <2>3. CASE s \in DOMAIN d.sets
    <3>1. n + 1 \in Writers(s)'
      BY <2>1, <2>2, <2>3 DEF Writers
    <3>2. \A j \in Writers(s)' : j <= n + 1
      BY <2>1 DEF Writers
    <3>3. world'[s] = effects'[n + 1].sets[s]
      BY <2>2, <2>3 DEF Overlay
    <3> QED  BY <3>1, <3>2, <3>3
  <2>4. CASE s \notin DOMAIN d.sets
    <3>1. Writers(s)' = Writers(s)
      BY <2>1, <2>2, <2>4 DEF Writers
    <3>2. world'[s] = world[s]
      BY <2>2, <2>4 DEF Overlay
    <3>3. \A i \in Writers(s) : effects'[i] = effects[i]
      BY <2>1 DEF Writers
    <3> QED  BY <3>1, <3>2, <3>3 DEF WorldIsLastWrite
  <2> QED  BY <2>3, <2>4
<1>2. ASSUME NEW e \in batch, RefuseEvent(e)  PROVE WorldIsLastWrite'
  <2>1. /\ torn \subseteq torn' /\ UNCHANGED <<log, effects>>
        /\ \A s \in Slots \ torn' : world'[s] = world[s]
    BY <1>2, RefuseFacts DEF KernelFacts
  <2> QED  BY <2>1 DEF WorldIsLastWrite, Writers
<1>3. CASE UNCHANGED <<world, effects, torn, log>>
  BY <1>3 DEF WorldIsLastWrite, Writers
<1> QED  BY <1>1, <1>2, <1>3, WorldFrame

(* It holds in every state of an episode.                                  *)
LEMMA LastWriteKept == Spec => []WorldIsLastWrite
<1>1. Base => KernelFacts /\ Types
  BY BaseFacts DEF Base
<1>2. WorldIsLastWrite /\ Types /\ KernelFacts /\ [Next]_vars => WorldIsLastWrite'
  BY LastWriteStep
<1>3. Init => WorldIsLastWrite
  <2> SUFFICES ASSUME Init  PROVE WorldIsLastWrite
    OBVIOUS
  <2>1. DOMAIN log = {} /\ \A s \in Slots : world[s] = FALSE
    BY DEF Init, K!Init, Opening
  <2> QED  BY <2>1 DEF WorldIsLastWrite, Writers
<1> QED  BY <1>1, <1>2, <1>3, BaseKept, PTL DEF Spec

(* Between steps the projection sees the whole log, and its last writer by *)
(* (sim_time, seq) is the last one of the log.                             *)
LEMMA LastWriteIsReplay ==
  ASSUME WorldIsLastWrite, Base
  PROVE  ReplayAgrees
<1> SUFFICES ASSUME mode = "ready", NEW s \in Slots \ torn  PROVE world[s] = Project(now)[s]
  BY DEF ReplayAgrees
<1>1. /\ DOMAIN log \subseteq Nat
      /\ \A i \in DOMAIN log : log[i] \in K!Event
  BY BaseFacts, ElementOfSeq, LenProperties DEF Base, KernelFacts, K!TypeOK
<1>2. WritersBy(now, s) = Writers(s)
  BY DEF Base, Timing, AtRest, WritersBy, Writers
<1>3. CASE Writers(s) = {}
  <2>1. world[s] = FALSE
    BY <1>3 DEF WorldIsLastWrite
  <2> QED  BY <1>2, <1>3, <2>1 DEF Project, Opening
<1>4. CASE Writers(s) # {}
  <2>1. PICK i \in Writers(s) : (\A j \in Writers(s) : j <= i) /\ world[s] = effects[i].sets[s]
    BY <1>4 DEF WorldIsLastWrite
  <2>2. \A j \in Writers(s) : j # i => K!Before(log[j], log[i]) /\ ~K!Before(log[i], log[j])
    <3> SUFFICES ASSUME NEW j \in Writers(s), j # i
                 PROVE  K!Before(log[j], log[i]) /\ ~K!Before(log[i], log[j])
      OBVIOUS
    <3>1. i \in DOMAIN log /\ j \in DOMAIN log
      BY DEF Writers
    <3>2. j < i
      BY <1>1, <2>1, <3>1
    <3>3. K!Before(log[j], log[i])
      BY <3>1, <3>2, LogOrder DEF LogInDueOrder
    <3> QED  BY <1>1, <3>1, <3>3 DEF K!Before, K!Event
  <2>3. LastWriterBy(now, s) = {i}
    BY <1>2, <2>1, <2>2, Zenon DEF LastWriterBy
  <2>4. Project(now)[s] = (\E l \in {i} : effects[l].sets[s])
    BY <1>2, <1>4, <2>3 DEF Project
  <2>5. world[s] \in BOOLEAN
    BY DEF Base, Types
  <2>6. Project(now)[s] \in BOOLEAN
    BY <2>4
  <2>7. Project(now)[s] <=> effects[i].sets[s]
    BY <2>4
  <2> QED  BY <2>1, <2>5, <2>6, <2>7
<1> QED  BY <1>3, <1>4

(* Replaying the recorded deltas over the opening gives the live world, in *)
(* every slot no failing application wrote.                                *)
THEOREM ReplayHolds == Spec => []ReplayAgrees
<1>1. WorldIsLastWrite /\ Base => ReplayAgrees
  BY LastWriteIsReplay
<1> QED  BY <1>1, LastWriteKept, BaseKept, PTL

-----------------------------------------------------------------------------
(* What shows was earned.                                                  *)

(* A pending reply has in the log the message it answers: to that persona, *)
(* with that body, its cause, and that persona's delay ago.                *)
RepliesAnswer ==
  \A e \in queue \cup batch : e.kind.type = "npc_reply" =>
    \E i \in DOMAIN log :
      /\ log[i].kind.type = "send_message"
      /\ log[i].kind.to = e.kind.npc /\ e.kind.npc \in NPCs
      /\ log[i].kind.body = e.kind.body
      /\ e.cause = log[i].seq
      /\ e.time = log[i].time + Delay[e.kind.npc]

(* How a step changes what is pending: nothing new but an event of the     *)
(* script or the agent, or the follow-ups of the event applied.            *)
LEMMA PendingFrame ==
  ASSUME [Next]_vars, KernelFacts, Timing, ClockInTimes
  PROVE  \/ \E e \in batch : ApplyEvent(e)
         \/ /\ log' = log
            /\ \A f \in queue' \cup batch' :
                 f \in queue \cup batch \/ f.kind.type # "npc_reply"
<1>1. seq \in Nat
  BY DEF KernelFacts, K!TypeOK
<1>2. CASE UNCHANGED vars
  BY <1>2 DEF vars, kernelVars
<1>3. CASE Observe \/ Reject \/ EndMutate
  BY <1>3 DEF Observe, Reject, EndMutate, kernelVars
<1>4. ASSUME NEW t, K!PopDue(t)
      PROVE  log' = log /\ \A f \in queue' \cup batch' : f \in queue \cup batch
  BY <1>4 DEF K!PopDue, K!Due
<1>5. ASSUME NEW t, NEW k \in EventKinds, k \notin ReplyKinds, K!Schedule(t, k)
      PROVE  /\ log' = log
             /\ \A f \in queue' \cup batch' : f \in queue \cup batch \/ f.kind.type # "npc_reply"
  <2>1. k.type # "npc_reply"
    BY <1>5, KindsByType
  <2> QED  BY <1>5, <2>1 DEF K!Schedule
<1>6. CASE LoadScript
  <2>1. ASSUME NEW k \in ScriptKinds  PROVE k \in EventKinds /\ k \notin ReplyKinds
    BY KindsByType DEF EventKinds, ReplyKinds
  <2> QED  BY <1>1, <1>5, <1>6, <2>1, LoadIsSchedule DEF kernelVars
<1>7. ASSUME NEW k \in MessageKinds \cup UpdateKinds, Mutate(k)
      PROVE  /\ log' = log
             /\ \A f \in queue' \cup batch' : f \in queue \cup batch \/ f.kind.type # "npc_reply"
  <2>1. k \in EventKinds /\ k \notin ReplyKinds
    BY DEF EventKinds, MessageKinds, UpdateKinds, ReplyKinds
  <2> QED  BY <1>5, <1>7, <2>1 DEF Mutate
<1>8. ASSUME NEW e \in batch, RefuseEvent(e)
      PROVE  log' = log /\ \A f \in queue' \cup batch' : f \in queue \cup batch
  BY <1>8 DEF RefuseEvent, K!Raise
<1>9. CASE EndAdvance \/ DrainReturns
  BY <1>9 DEF EndAdvance, DrainReturns, K!Return
<1>10. CASE (\E d \in Waits : Wait(d)) \/ (\E m \in Meetings : Attend(m)) \/ Drain
  BY <1>4, <1>10 DEF Wait, Attend, Advance, Drain
<1> QED  BY <1>2, <1>3, <1>6, <1>7, <1>8, <1>9, <1>10
       DEF Next, AgentStep, ServeStep, KernelTurn

(* Every step keeps the provenance of pending replies.                     *)
LEMMA RepliesAnswerStep ==
  ASSUME RepliesAnswer, Types, KernelFacts, Timing, ClockInTimes, [Next]_vars
  PROVE  RepliesAnswer'
<1>1. ASSUME NEW e \in batch, ApplyEvent(e)  PROVE RepliesAnswer'
  <2> DEFINE n == Len(log)
  <2>1. /\ e \in K!Event /\ K!Apply(e) /\ n \in Nat
        /\ DOMAIN log = 1 .. n /\ DOMAIN log' = 1 .. n + 1
        /\ \A i \in 1 .. n : log'[i] = log[i]
        /\ log'[n + 1] = e
    BY <1>1, ApplyFacts DEF KernelFacts
  <2> HIDE DEF n
  <2>2. \A f \in queue' \cup batch' : f \in queue \cup batch \/ f \in K!Emitted(e)
    BY <2>1 DEF K!Apply
  <2> SUFFICES ASSUME NEW f \in queue' \cup batch', f.kind.type = "npc_reply"
               PROVE  \E i \in DOMAIN log' :
                        /\ log'[i].kind.type = "send_message"
                        /\ log'[i].kind.to = f.kind.npc /\ f.kind.npc \in NPCs
                        /\ log'[i].kind.body = f.kind.body
                        /\ f.cause = log'[i].seq
                        /\ f.time = log'[i].time + Delay[f.kind.npc]
    BY DEF RepliesAnswer
  <2>3. CASE f \in queue \cup batch
    <3>1. PICK i \in DOMAIN log :
            /\ log[i].kind.type = "send_message"
            /\ log[i].kind.to = f.kind.npc /\ f.kind.npc \in NPCs
            /\ log[i].kind.body = f.kind.body
            /\ f.cause = log[i].seq
            /\ f.time = log[i].time + Delay[f.kind.npc]
      BY <2>3 DEF RepliesAnswer
    <3>2. i \in DOMAIN log' /\ log'[i] = log[i]
      BY <2>1
    <3> QED  BY <3>1, <3>2
  <2>4. CASE f \in K!Emitted(e)
    <3>1. seq \in Nat
      BY DEF KernelFacts, K!TypeOK
    <3>2. /\ e.kind \in MessageKinds /\ e.kind.to \in NPCs
          /\ f.kind = [type |-> "npc_reply", npc |-> e.kind.to, body |-> e.kind.body]
          /\ f.time = e.time + Delay[e.kind.to]
          /\ f.cause = e.seq
      BY <2>1, <2>4, <3>1, EmittedShape, Zenon
    <3>3. e.kind.type = "send_message"
      BY <3>2 DEF MessageKinds
    <3>4. f.kind.npc = e.kind.to /\ f.kind.body = e.kind.body
      BY <3>2
    <3>5. n + 1 \in DOMAIN log'
      BY <2>1
    <3> QED  BY <2>1, <3>2, <3>3, <3>4, <3>5
  <2> QED  BY <2>2, <2>3, <2>4
<1>2. ASSUME log' = log,
             \A f \in queue' \cup batch' : f \in queue \cup batch \/ f.kind.type # "npc_reply"
      PROVE  RepliesAnswer'
  BY <1>2 DEF RepliesAnswer
<1> QED  BY <1>1, <1>2, PendingFrame

(* Every step keeps it: a revealed slot is written by a reply that answers *)
(* a message which unlocks it, and by nothing else.                        *)
LEMMA EarnedStep ==
  ASSUME EarnedReveal, RepliesAnswer, Types, KernelFacts, [Next]_vars
  PROVE  EarnedReveal'
<1>1. ASSUME NEW e \in batch, ApplyEvent(e)  PROVE EarnedReveal'
  <2>0. PICK n : n = Len(log)
    OBVIOUS
  <2>1. /\ e.kind \in EventKinds /\ e.kind \notin RefusedKinds /\ n \in Nat
        /\ DOMAIN log = 1 .. n /\ DOMAIN log' = 1 .. n + 1
        /\ \A i \in 1 .. n : log'[i] = log[i] /\ effects'[i] = effects[i]
        /\ log'[n + 1] = e
    BY <1>1, <2>0, ApplyFacts DEF KernelFacts
  <2>2. PICK d \in EffectsOf(e.kind) : /\ world' = Overlay(world, d.sets)
                                       /\ effects'[n + 1] = d
    BY <1>1, <2>0, ApplyFacts DEF KernelFacts
  <2> SUFFICES ASSUME NEW s \in Revealed, world'[s]
               PROVE  \E j \in DOMAIN log' : s \in DOMAIN effects'[j].sets /\ Earned(s, j)'
    BY DEF EarnedReveal
  <2>3. s \in Slots
    BY CastAssumption DEF Revealed
  <2>4. CASE s \notin DOMAIN d.sets
    <3>1. world[s]
      BY <2>2, <2>3, <2>4 DEF Overlay
    <3>2. PICK j \in DOMAIN log : s \in DOMAIN effects[j].sets /\ Earned(s, j)
      BY <3>1 DEF EarnedReveal
    <3>3. \A i \in 1 .. j : log'[i] = log[i]
      BY <2>1
    <3>4. log'[j] = log[j] /\ \A i \in 1 .. j - 1 : log'[i] = log[i]
      BY <2>1, <3>3
    <3>5. Earned(s, j)'
      BY <3>2, <3>4 DEF Earned
    <3> QED  BY <2>1, <3>2, <3>5
  <2>5. CASE s \in DOMAIN d.sets
    <3>0. world \in [Slots -> BOOLEAN]
      BY DEF Types
    <3>1. /\ e.kind.type = "npc_reply" =>
               IsDecision(d, e.kind.npc, e.kind.body)
          /\ e.kind.type # "npc_reply" => DOMAIN d.sets \cap Revealed = {}
      BY <2>1, <2>2, <3>0, EffectFacts, Zenon
    <3>2. e.kind.type = "npc_reply"
      BY <2>5, <3>1
    <3>3. PICK m \in KnownTo(e.kind.npc) :
            /\ s \in Knowledge[e.kind.npc][m].reveals
            /\ Unlocks(Knowledge[e.kind.npc][m], e.kind.body)
      BY <2>5, <3>1, <3>2, Zenon DEF IsDecision
    <3>4. PICK i \in DOMAIN log :
            /\ log[i].kind.type = "send_message"
            /\ log[i].kind.to = e.kind.npc /\ e.kind.npc \in NPCs
            /\ log[i].kind.body = e.kind.body
            /\ e.cause = log[i].seq
            /\ e.time = log[i].time + Delay[e.kind.npc]
      BY <3>2 DEF RepliesAnswer
    <3>5. i \in 1 .. (n + 1) - 1 /\ log'[i] = log[i] /\ n + 1 \in DOMAIN log'
      BY <2>1
    <3>6. Earned(s, n + 1)'
      <4>1. EarnedBy(s, e, log[i])
        BY <3>2, <3>3, <3>4 DEF EarnedBy, Unlocks
      <4> QED  BY <2>1, <3>5, <4>1 DEF Earned
    <3> QED  BY <2>2, <2>5, <3>5, <3>6
  <2> QED  BY <2>4, <2>5
<1>2. ASSUME NEW e \in batch, RefuseEvent(e)  PROVE EarnedReveal'
  <2>1. UNCHANGED <<log, effects>> /\ \A s \in Slots \cap Revealed : world'[s] = world[s]
    BY <1>2, RefuseFacts DEF KernelFacts
  <2>2. Revealed \subseteq Slots
    BY CastAssumption DEF Revealed
  <2> QED  BY <2>1, <2>2 DEF EarnedReveal, Earned
<1>3. CASE UNCHANGED <<world, effects, torn, log>>
  BY <1>3 DEF EarnedReveal, Earned
<1> QED  BY <1>1, <1>2, <1>3, WorldFrame

(* Every step keeps it: the gate is read in the world, which shows the     *)
(* last recorded write of every slot no failing application wrote.         *)
LEMMA GatedStep ==
  ASSUME GatedCompletion, WorldIsLastWrite, Types, KernelFacts, [Next]_vars
  PROVE  GatedCompletion'
<1> DEFINE Met(k, j) == \A s \in k.gate :
             s \in torn \/ \E i \in 1 .. j - 1 : s \in DOMAIN effects[i].sets /\ effects[i].sets[s]
           Unmet(k, j) == \E s \in k.gate :
             \/ s \in torn
             \/ {i \in 1 .. j - 1 : s \in DOMAIN effects[i].sets} = {}
             \/ \E i \in 1 .. j - 1 : s \in DOMAIN effects[i].sets /\ ~effects[i].sets[s]
           Fair(j) == log[j].kind.type = "system_effect" =>
             /\ effects[j].sets # NoSets => Met(log[j].kind, j)
             /\ effects[j].sets = NoSets => Unmet(log[j].kind, j)
<1>0. GatedCompletion <=> \A j \in DOMAIN log : Fair(j)
  BY DEF GatedCompletion, GateAt
<1>00. GatedCompletion' <=> \A j \in DOMAIN log' : Fair(j)'
  BY DEF GatedCompletion, GateAt
<1>1. ASSUME NEW e \in batch, ApplyEvent(e)  PROVE GatedCompletion'
  <2>0. PICK n : n = Len(log)
    OBVIOUS
  <2>1. /\ e.kind \in EventKinds /\ e.kind \notin RefusedKinds /\ n \in Nat
        /\ DOMAIN log = 1 .. n /\ DOMAIN log' = 1 .. n + 1
        /\ \A i \in 1 .. n : log'[i] = log[i] /\ effects'[i] = effects[i]
        /\ log'[n + 1] = e
        /\ torn' = torn
    BY <1>1, <2>0, ApplyFacts DEF KernelFacts
  <2>2. PICK d \in EffectsOf(e.kind) : effects'[n + 1] = d
    BY <1>1, <2>0, ApplyFacts DEF KernelFacts
  <2>3. ASSUME NEW j \in 1 .. n  PROVE Fair(j)'
    <3>1. Fair(j)
      BY <1>0, <2>1, <2>3
    <3>2. log'[j] = log[j] /\ effects'[j] = effects[j] /\ \A i \in 1 .. j - 1 : effects'[i] = effects[i]
      BY <2>1
    <3> QED  BY <2>1, <3>1, <3>2
  <2>4. Fair(n + 1)'
    <3> SUFFICES ASSUME e.kind.type = "system_effect"
                 PROVE  /\ d.sets # NoSets => Met(e.kind, n + 1)'
                        /\ d.sets = NoSets => Unmet(e.kind, n + 1)'
      BY <2>1, <2>2
    <3> DEFINE k == e.kind
    <3>1. d.sets = IF \A s \in k.gate : world[s] THEN [s \in k.flips |-> TRUE] ELSE NoSets
      <4>1. world \in [Slots -> BOOLEAN]
        BY DEF Types
      <4>2. d = GatedEffect(k)
        BY <2>1, <2>2, <4>1, EffectFacts, Zenon
      <4> QED  BY <4>2 DEF GatedEffect
    <3>2. k.gate \subseteq Slots /\ k.flips # {}
      BY <2>1, KindsByType, ScriptAssumption
    <3>3. d.sets = NoSets => ~ \A s \in k.gate : world[s]
      <4>1. DOMAIN NoSets = {} /\ DOMAIN [s \in k.flips |-> TRUE] = k.flips
        BY DEF NoSets
      <4> QED  BY <3>1, <3>2, <4>1
    <3>4. \A i \in 1 .. (n + 1) - 1 : i \in DOMAIN log /\ effects'[i] = effects[i]
      BY <2>1
    <3>5. ASSUME NEW s \in k.gate, s \notin torn
          PROVE  \/ Writers(s) = {} /\ world[s] = FALSE
                 \/ \E i \in Writers(s) : world[s] = effects[i].sets[s]
      BY <3>2, <3>5 DEF WorldIsLastWrite
    <3>6. ASSUME d.sets # NoSets  PROVE Met(k, n + 1)'
      <4> SUFFICES ASSUME NEW s \in k.gate, s \notin torn
                   PROVE  \E i \in 1 .. (n + 1) - 1 : s \in DOMAIN effects'[i].sets /\ effects'[i].sets[s]
        BY <2>1
      <4>1. world[s]
        BY <3>1, <3>6
      <4>2. PICK i \in Writers(s) : world[s] = effects[i].sets[s]
        BY <3>5, <4>1
      <4>3. i \in 1 .. (n + 1) - 1 /\ s \in DOMAIN effects[i].sets
        BY <2>1 DEF Writers
      <4> QED  BY <3>4, <4>1, <4>2, <4>3
    <3>7. ASSUME d.sets = NoSets  PROVE Unmet(k, n + 1)'
      <4>1. PICK s \in k.gate : ~world[s]
        BY <3>3, <3>7
      <4>2. CASE s \in torn
        BY <2>1, <4>1, <4>2
      <4>3. CASE s \notin torn /\ Writers(s) = {}
        <5>1. {i \in 1 .. (n + 1) - 1 : s \in DOMAIN effects'[i].sets} = {}
          BY <3>4, <4>3 DEF Writers
        <5> QED  BY <4>1, <5>1
      <4>4. ASSUME NEW i \in Writers(s), world[s] = effects[i].sets[s]  PROVE Unmet(k, n + 1)'
        <5>1. i \in 1 .. (n + 1) - 1 /\ s \in DOMAIN effects[i].sets
          BY <2>1 DEF Writers
        <5>2. s \in DOMAIN effects'[i].sets /\ ~effects'[i].sets[s]
          BY <3>4, <4>1, <4>4, <5>1
        <5> QED  BY <4>1, <5>1, <5>2
      <4> QED  BY <3>5, <4>2, <4>3, <4>4
    <3> QED  BY <3>6, <3>7
  <2>5. \A j \in DOMAIN log' : Fair(j)'
    <3>1. \A j \in DOMAIN log' : j \in 1 .. n \/ j = n + 1
      BY <2>1
    <3> QED  BY <2>3, <2>4, <3>1, Zenon
  <2> QED  BY <1>00, <2>5, Zenon
<1>2. ASSUME torn \subseteq torn', UNCHANGED <<log, effects>>  PROVE GatedCompletion'
  <2>1. ASSUME NEW j \in DOMAIN log  PROVE Fair(j)'
    <3>1. Fair(j)
      BY <1>0, <2>1
    <3> QED  BY <1>2, <3>1
  <2> QED  BY <1>00, <1>2, <2>1, Zenon
<1>3. ASSUME NEW e \in batch, RefuseEvent(e)  PROVE GatedCompletion'
  BY <1>2, <1>3, RefuseFacts DEF KernelFacts
<1> QED  BY <1>1, <1>2, <1>3, WorldFrame

(* Neither a blocker nor a gated slot shows without the doing that earns   *)
(* it, and none that was earned stays hidden when its moment fires.        *)
THEOREM EffectsEarned == Spec => []EffectsAreEarned
<1>1. Base => KernelFacts /\ Types /\ Timing /\ ClockInTimes
  BY BaseFacts DEF Base
<1>2. RepliesAnswer /\ Types /\ KernelFacts /\ Timing /\ ClockInTimes /\ [Next]_vars => RepliesAnswer'
  BY RepliesAnswerStep
<1>3. EarnedReveal /\ RepliesAnswer /\ Types /\ KernelFacts /\ [Next]_vars => EarnedReveal'
  BY EarnedStep
<1>4. GatedCompletion /\ WorldIsLastWrite /\ Types /\ KernelFacts /\ [Next]_vars => GatedCompletion'
  BY GatedStep
<1>5. Init => RepliesAnswer /\ EarnedReveal /\ GatedCompletion
  <2> SUFFICES ASSUME Init  PROVE RepliesAnswer /\ EarnedReveal /\ GatedCompletion
    OBVIOUS
  <2>1. DOMAIN log = {} /\ queue = {} /\ batch = {} /\ \A s \in Slots : world[s] = FALSE
    BY DEF Init, K!Init, Opening
  <2>2. Revealed \subseteq Slots
    BY CastAssumption DEF Revealed
  <2> QED  BY <2>1, <2>2 DEF RepliesAnswer, EarnedReveal, GatedCompletion
<1>6. EarnedReveal /\ GatedCompletion => EffectsAreEarned
  BY DEF EffectsAreEarned
<1> QED  BY <1>1, <1>2, <1>3, <1>4, <1>5, <1>6, LastWriteKept, BaseKept, PTL DEF Spec
-----------------------------------------------------------------------------
(* A refused step costs its own event and nothing else.                    *)

(* While a write of the agent is pending, it is the last event issued: it  *)
(* was scheduled last, and nothing applied beside it has follow-ups.       *)
UpdateIsLast ==
  mode = "mutate" => \A e \in queue \cup batch : e.kind \in UpdateKinds => e.seq = seq

LostAreRefused == \A e \in lost : e.kind \in RefusedKinds

(* The loader hands out the first numbers, one for each scripted moment.   *)
Loaded == /\ mode = "loading" => seq <= Len(Timeline)
          /\ mode # "loading" => seq >= Len(Timeline)

ScriptPlays(i) ==
  \E e \in InForce : /\ e.seq = i
                     /\ e.time = Timeline[i].at
                     /\ e.kind = Timeline[i].kind

ScriptIssued == \A i \in DOMAIN Timeline : i <= seq => ScriptPlays(i)

Contained == UpdateIsLast /\ LostAreRefused /\ Loaded /\ ScriptIssued /\ AnswersStand

(* How a step changes what is issued.                                      *)
LEMMA IssuedFrame ==
  ASSUME [Next]_vars, KernelFacts, Timing
  PROVE  \/ LoadScript
         \/ \E k \in MessageKinds \cup UpdateKinds : Mutate(k)
         \/ \E e \in batch : ApplyEvent(e)
         \/ \E e \in batch : RefuseEvent(e)
         \/ /\ UNCHANGED <<seq, log, lost>>
            /\ queue' \cup batch' = queue \cup batch
            /\ mode' = "loading" <=> mode = "loading"
            /\ mode' = "mutate" => mode = "mutate"
<1>1. ~advancing => batch = {}
  BY DEF KernelFacts, K!BatchInCall
<1>2. CASE UNCHANGED vars
  BY <1>2 DEF vars, kernelVars
<1>3. CASE Observe \/ Reject \/ EndMutate
  BY <1>3 DEF Observe, Reject, EndMutate, BeginStep, ReplyOk, ReplyError, kernelVars
<1>4. ASSUME NEW t, K!PopDue(t)
      PROVE  UNCHANGED <<seq, log, lost>> /\ queue' \cup batch' = queue \cup batch
  BY <1>1, <1>4 DEF K!PopDue, K!Due
<1>5. CASE (\E d \in Waits : Wait(d)) \/ (\E m \in Meetings : Attend(m)) \/ Drain
  BY <1>4, <1>5 DEF Wait, Attend, Advance, BeginStep, Drain
<1>6. CASE EndAdvance \/ DrainReturns
  BY <1>6 DEF EndAdvance, DrainReturns, K!Return, ReplyOk, ReplyError
<1> QED  BY <1>2, <1>3, <1>5, <1>6 DEF Next, AgentStep, ServeStep, KernelTurn

(* A message to a persona leaves its reply pending.                        *)
LEMMA MessageAnswered ==
  ASSUME NEW e \in K!Event, seq \in Nat, e.kind.type = "send_message", e.kind.to \in NPCs
  PROVE  \E r \in K!Emitted(e) :
           /\ r.cause = e.seq
           /\ r.time = e.time + Delay[e.kind.to]
           /\ r.kind = [type |-> "npc_reply", npc |-> e.kind.to, body |-> e.kind.body]
<1> DEFINE k == e.kind
<1>1. k \in EventKinds /\ k \notin HandledKinds
  BY DEF K!Event, HandledKinds
<1> DEFINE r == [type |-> "npc_reply", npc |-> k.to, body |-> k.body]
           F == << [delay |-> Delay[k.to], kind |-> r] >>
<1>2. K!FollowUpsOf(e) = F
  BY <1>1, FollowUpsFact DEF K!FollowUpsOf
<1>3. DOMAIN F = {1} /\ F[1].delay = Delay[k.to] /\ F[1].kind = r
  BY DEF F
<1> HIDE DEF F
<1>4. K!Emitted(e) = {[seq |-> seq + 1, time |-> e.time + Delay[k.to], kind |-> r, cause |-> e.seq]}
  BY <1>2, <1>3 DEF K!Emitted
<1> QED  BY <1>4

(* Nothing that is not a message to a persona hands out numbers.           *)
LEMMA OnlyMessagesEmit ==
  ASSUME NEW e \in K!Event, seq \in Nat, e.kind \notin MessageKinds
  PROVE  Len(K!FollowUpsOf(e)) = 0 /\ K!Emitted(e) = {}
<1>1. e.kind \in EventKinds
  BY DEF K!Event
<1>2. K!FollowUpsOf(e) = << >>
  BY <1>1, KindsByType, FollowUpsFact DEF K!FollowUpsOf
<1> QED  BY <1>2 DEF K!Emitted

(* When a write is refused, it stands alone in the batch: all that was     *)
(* popped with it is due now and was numbered before it.                   *)
LEMMA RefusedAlone ==
  ASSUME UpdateIsLast, Base, NEW e \in batch, RefuseEvent(e)
  PROVE  batch = {e} /\ mode = "mutate"
<1>1. KernelFacts /\ Types /\ Timing
  BY BaseFacts DEF Base
<1>2. e.kind \in UpdateKinds /\ K!Raise(e)
  BY <1>1, RefuseFacts DEF KernelFacts
<1>3. advancing /\ K!IsNext(e)
  BY <1>2 DEF K!Raise
<1>4. mode = "mutate"
  BY <1>1, <1>2, <1>3 DEF Types, Timing, Loading, AtRest, Moving, ByAgent
<1>5. e.seq = seq /\ e.time = now /\ until = now
  BY <1>1, <1>2, <1>3, <1>4 DEF UpdateIsLast, Timing, Mutating, ByAgent
<1>6. \A f \in batch : f \in K!Event /\ f.time <= until /\ f.seq <= seq
  <2>1. \A f \in batch : f \in K!Event /\ f.time <= until
    BY <1>1 DEF KernelFacts, K!TypeOK, K!BatchInCall
  <2>2. KP!ExactlyOnce
    BY Zenon DEF Base, KP!IInv
  <2>3. \A f \in batch : f.seq \in 1 .. seq
    BY <2>2 DEF KP!ExactlyOnce, KP!Issued
  <2>4. seq \in Nat
    BY <1>1 DEF KernelFacts, K!TypeOK
  <2> QED  BY <2>1, <2>3, <2>4
<1>7. now \in Nat /\ seq \in Nat
  BY <1>1 DEF KernelFacts, K!TypeOK
<1>8. \A f \in batch : f = e
  BY <1>3, <1>5, <1>6, <1>7 DEF K!IsNext, K!Before, K!Event
<1> QED  BY <1>4, <1>8

(* Scripted moments and answers stay in force while nothing but writes of  *)
(* the agent falls out of it.                                              *)
LEMMA StaysInForce ==
  ASSUME ScriptIssued, AnswersStand, KernelFacts,
         \A x \in InForce : x \in InForce' \/ x.kind \in UpdateKinds
  PROVE  /\ \A i \in DOMAIN Timeline : i <= seq => ScriptPlays(i)'
         /\ \A m \in K!Logged : m.kind.type = "send_message" /\ m.kind.to \in NPCs =>
              \E r \in InForce' : /\ r.cause = m.seq
                                  /\ r.time = m.time + Delay[m.kind.to]
                                  /\ r.kind = [type |-> "npc_reply", npc  |-> m.kind.to,
                                               body |-> m.kind.body]
<1>1. ASSUME NEW i \in DOMAIN Timeline, i <= seq  PROVE ScriptPlays(i)'
  <2>1. PICK x \in InForce : x.seq = i /\ x.time = Timeline[i].at /\ x.kind = Timeline[i].kind
    BY <1>1 DEF ScriptIssued, ScriptPlays
  <2>2. x.kind \in ScriptKinds
    BY <2>1 DEF ScriptKinds
  <2>3. x.kind \notin UpdateKinds
    BY <2>2, ScriptAssumption DEF UpdateKinds
  <2> QED  BY <2>1, <2>3 DEF ScriptPlays
<1>2. ASSUME NEW m \in K!Logged, m.kind.type = "send_message", m.kind.to \in NPCs
      PROVE  \E r \in InForce' : /\ r.cause = m.seq
                                 /\ r.time = m.time + Delay[m.kind.to]
                                 /\ r.kind = [type |-> "npc_reply", npc  |-> m.kind.to,
                                              body |-> m.kind.body]
  <2>1. PICK r \in InForce : /\ r.cause = m.seq
                             /\ r.time = m.time + Delay[m.kind.to]
                             /\ r.kind = [type |-> "npc_reply", npc  |-> m.kind.to,
                                          body |-> m.kind.body]
    BY <1>2 DEF AnswersStand
  <2>2. r.kind \notin UpdateKinds
    BY <2>1 DEF UpdateKinds
  <2> QED  BY <2>1, <2>2
<1> QED  BY <1>1, <1>2

(* Every step keeps it.                                                    *)
LEMMA ContainedStep ==
  ASSUME Contained, Base, [Next]_vars
  PROVE  Contained'
<1> USE DEF Contained
<1>1. KernelFacts /\ Types /\ Timing /\ seq \in Nat /\ Len(Timeline) \in Nat
  BY BaseFacts, ScriptAssumption DEF Base, KernelFacts, K!TypeOK
<1>2. DOMAIN Timeline = 1 .. Len(Timeline)
  BY ScriptAssumption
<1>3. ASSUME \A x \in InForce : x \in InForce' \/ x.kind \in UpdateKinds,
             UNCHANGED log,
             seq' = seq \/ seq >= Len(Timeline)
      PROVE  ScriptIssued' /\ AnswersStand'
  <2>1. \A i \in DOMAIN Timeline : i <= seq' => i <= seq
    BY <1>1, <1>2, <1>3
  <2>2. K!Logged' = K!Logged
    BY <1>3 DEF K!Logged
  <2> QED  BY <1>1, <1>3, <2>1, <2>2, StaysInForce DEF ScriptIssued, AnswersStand
<1>4. ASSUME NEW t, NEW k, K!Schedule(t, k)
      PROVE  /\ seq' = seq + 1 /\ UNCHANGED <<batch, log, lost>>
             /\ queue' = queue \cup {[seq |-> seq + 1, time |-> t, kind |-> k, cause |-> 0]}
             /\ \A x \in InForce : x \in InForce'
             /\ [seq |-> seq + 1, time |-> t, kind |-> k, cause |-> 0] \in InForce'
  BY <1>4 DEF K!Schedule, InForce, K!Logged
<1>5. CASE LoadScript
  <2>1. mode = "loading"
    BY <1>5 DEF LoadScript
  <2>2. CASE seq < Len(Timeline)
    <3>1. K!Schedule(Timeline[seq + 1].at, Timeline[seq + 1].kind) /\ mode' = mode
      BY <1>5, <2>2 DEF LoadScript
    <3> DEFINE new == [seq |-> seq + 1, time |-> Timeline[seq + 1].at,
                       kind |-> Timeline[seq + 1].kind, cause |-> 0]
    <3>2. seq' = seq + 1 /\ UNCHANGED <<batch, log, lost>> /\ new \in InForce'
      BY <1>4, <3>1
    <3>3. \A x \in InForce : x \in InForce'
      BY <1>4, <3>1
    <3>4. \A i \in DOMAIN Timeline : i <= seq => ScriptPlays(i)'
      BY <1>1, <3>3, StaysInForce
    <3>5. ASSUME NEW i \in DOMAIN Timeline, i = seq + 1  PROVE ScriptPlays(i)'
      BY <3>2, <3>5 DEF ScriptPlays
    <3>6. ScriptIssued'
      <4> SUFFICES ASSUME NEW i \in DOMAIN Timeline, i <= seq'  PROVE ScriptPlays(i)'
        BY DEF ScriptIssued
      <4>1. i <= seq \/ i = seq + 1
        BY <1>1, <1>2, <3>2
      <4> QED  BY <3>4, <3>5, <4>1
    <3>7. AnswersStand'
      <4>1. K!Logged' = K!Logged
        BY <3>2 DEF K!Logged
      <4> QED  BY <1>1, <3>3, <4>1, StaysInForce DEF AnswersStand
    <3>8. UpdateIsLast' /\ LostAreRefused' /\ Loaded'
      BY <1>1, <2>1, <2>2, <3>1, <3>2 DEF UpdateIsLast, LostAreRefused, Loaded
    <3> QED  BY <3>6, <3>7, <3>8
  <2>3. CASE ~(seq < Len(Timeline))
    <3>1. UNCHANGED kernelVars /\ mode' = "ready"
      BY <1>5, <2>3 DEF LoadScript
    <3>2. \A x \in InForce : x \in InForce'
      BY <3>1 DEF kernelVars, InForce, K!Logged
    <3>3. ScriptIssued' /\ AnswersStand'
      BY <1>3, <3>1, <3>2 DEF kernelVars
    <3> QED  BY <1>1, <2>3, <3>1, <3>3 DEF kernelVars, UpdateIsLast, LostAreRefused, Loaded
  <2> QED  BY <2>2, <2>3
<1>6. ASSUME NEW k \in MessageKinds \cup UpdateKinds, Mutate(k)  PROVE Contained'
  <2> DEFINE new == [seq |-> seq + 1, time |-> now, kind |-> k, cause |-> 0]
  <2>1. mode = "ready" /\ mode' = "mutate" /\ K!Schedule(now, k)
    BY <1>6 DEF Mutate, BeginStep
  <2>2. /\ seq' = seq + 1 /\ UNCHANGED <<batch, log, lost>>
        /\ queue' = queue \cup {new}
        /\ \A x \in InForce : x \in InForce'
    BY <1>4, <2>1
  <2>3. batch = {} /\ \A e \in queue : e.kind \notin UpdateKinds
    BY <1>1, <2>1 DEF Timing, AtRest, ByAgent, KernelFacts, K!BatchInCall
  <2>4. UpdateIsLast'
    BY <2>2, <2>3 DEF UpdateIsLast
  <2>5. seq >= Len(Timeline)
    BY <2>1 DEF Loaded
  <2>6. ScriptIssued' /\ AnswersStand'
    BY <1>3, <2>2, <2>5
  <2>7. LostAreRefused' /\ Loaded'
    BY <1>1, <2>1, <2>2, <2>5 DEF LostAreRefused, Loaded
  <2> QED  BY <2>4, <2>6, <2>7
<1>7. ASSUME NEW e \in batch, ApplyEvent(e)  PROVE Contained'
  <2>1. /\ e \in K!Event /\ K!Apply(e) /\ mode' = mode /\ Len(log) \in Nat
        /\ DOMAIN log = 1 .. Len(log) /\ DOMAIN log' = 1 .. Len(log) + 1
        /\ \A i \in 1 .. Len(log) : log'[i] = log[i]
        /\ log'[Len(log) + 1] = e
    BY <1>1, <1>7, ApplyFacts DEF KernelFacts
  <2>2. /\ advancing
        /\ seq' = seq + Len(K!FollowUpsOf(e))
        /\ queue' = queue \cup K!Emitted(e)
        /\ batch' = batch \ {e}
        /\ lost' = lost
    BY <2>1 DEF K!Apply
  <2>3. K!Logged' = K!Logged \cup {e}
    BY <2>1 DEF K!Logged
  <2>4. \A x \in InForce : x \in InForce'
    BY <2>2, <2>3 DEF InForce
  <2>5. mode # "loading" /\ seq >= Len(Timeline)
    BY <1>1, <2>2 DEF Timing, Loading, Loaded
  <2>6. seq' \in Nat /\ seq' >= seq
    <3>1. FollowUpsOfKind \in [EventKinds -> Seq([delay : Nat, kind : EventKinds])]
      BY KernelAssumptions
    <3>2. Len(K!FollowUpsOf(e)) \in Nat
      BY <2>1, <3>1, LenProperties DEF K!FollowUpsOf, K!Event
    <3> QED  BY <1>1, <2>2, <3>2
  <2>7. ScriptIssued'
    <3>1. \A i \in DOMAIN Timeline : ScriptPlays(i)'
      BY <1>1, <1>2, <2>4, <2>5, StaysInForce
    <3> QED  BY <3>1 DEF ScriptIssued
  <2>8. AnswersStand'
    <3> SUFFICES ASSUME NEW m \in K!Logged', m.kind.type = "send_message", m.kind.to \in NPCs
                 PROVE  \E r \in InForce' : /\ r.cause = m.seq
                                            /\ r.time = m.time + Delay[m.kind.to]
                                            /\ r.kind = [type |-> "npc_reply", npc  |-> m.kind.to,
                                                         body |-> m.kind.body]
      BY DEF AnswersStand
    <3>1. CASE m \in K!Logged
      BY <1>1, <2>4, <3>1, StaysInForce
    <3>2. CASE m = e
      <4>1. K!Emitted(e) \subseteq InForce'
        BY <2>2 DEF InForce
      <4> QED  BY <1>1, <2>1, <3>2, <4>1, MessageAnswered
    <3> QED  BY <2>3, <3>1, <3>2
  <2>9. UpdateIsLast'
    <3> SUFFICES ASSUME mode = "mutate", NEW f \in queue' \cup batch', f.kind \in UpdateKinds
                 PROVE  f.seq = seq'
      BY <2>1 DEF UpdateIsLast
    <3>1. f \notin K!Emitted(e)
      BY <1>1, <2>1, EmittedShape DEF ByAgent
    <3>2. f \in queue \cup batch
      BY <2>2, <3>1
    <3>3. f \notin {e}
      <4>1. f = e => f \in queue
        BY <2>2, <3>1
      <4>2. f \notin queue
        BY <1>1, <2>2 DEF Timing, Mutating, ByAgent
      <4> QED  BY <4>1, <4>2
    <3>4. e.kind \notin MessageKinds
      BY <1>1, <3>2, <3>3 DEF Timing, Mutating, ByAgent
    <3>5. seq' = seq
      BY <1>1, <2>1, <2>2, <3>4, OnlyMessagesEmit
    <3> QED  BY <3>2, <3>5 DEF UpdateIsLast
  <2>10. LostAreRefused' /\ Loaded'
    BY <1>1, <2>1, <2>2, <2>5, <2>6 DEF LostAreRefused, Loaded
  <2> QED  BY <2>7, <2>8, <2>9, <2>10
<1>8. ASSUME NEW e \in batch, RefuseEvent(e)  PROVE Contained'
  <2>1. batch = {e} /\ mode = "mutate"
    BY <1>8, RefusedAlone
  <2>2. K!Raise(e) /\ ReplyError(now) /\ e.kind \in RefusedKinds /\ e.kind \in UpdateKinds
    BY <1>1, <1>8, RefuseFacts DEF KernelFacts, RefuseEvent
  <2>3. /\ lost' = lost \cup batch /\ batch' = {} /\ mode' = "ready"
        /\ UNCHANGED <<seq, queue, log>>
    BY <2>2 DEF K!Raise, ReplyError
  <2>4. LostAreRefused'
    BY <2>1, <2>2, <2>3 DEF LostAreRefused
  <2>5. \A x \in InForce : x \in InForce' \/ x.kind \in UpdateKinds
    BY <2>1, <2>2, <2>3 DEF InForce, K!Logged
  <2>6. ScriptIssued' /\ AnswersStand'
    BY <1>3, <2>3, <2>5
  <2> QED  BY <2>1, <2>3, <2>4, <2>6 DEF UpdateIsLast, Loaded
<1>9. ASSUME UNCHANGED <<seq, log, lost>>,
             queue' \cup batch' = queue \cup batch,
             mode' = "loading" <=> mode = "loading",
             mode' = "mutate" => mode = "mutate"
      PROVE  Contained'
  <2>1. \A x \in InForce : x \in InForce'
    BY <1>9 DEF InForce, K!Logged
  <2>2. ScriptIssued' /\ AnswersStand'
    BY <1>3, <1>9, <2>1
  <2> QED  BY <1>9, <2>2 DEF UpdateIsLast, LostAreRefused, Loaded
<1> QED  BY <1>1, <1>5, <1>6, <1>7, <1>8, <1>9, IssuedFrame

(* A step that is refused in the middle of the loop costs its own event    *)
(* and nothing else: only refused writes are ever lost, every scripted     *)
(* moment stays pending until it has played, and every message a persona   *)
(* was told of has its answer pending or given.                            *)
THEOREM RefusalContained == Spec => []RefusalIsContained
<1>1. Contained /\ Base /\ [Next]_vars => Contained'
  BY ContainedStep
<1>2. Init => Contained
  <2> SUFFICES ASSUME Init  PROVE Contained
    OBVIOUS
  <2>1. DOMAIN log = {} /\ queue = {} /\ batch = {} /\ lost = {} /\ seq = 0 /\ mode = "loading"
    BY DEF Init, K!Init
  <2>2. DOMAIN Timeline = 1 .. Len(Timeline) /\ Len(Timeline) \in Nat
    BY ScriptAssumption
  <2>3. K!Logged = {}
    BY <2>1 DEF K!Logged
  <2> QED  BY <2>1, <2>2, <2>3
       DEF Contained, UpdateIsLast, LostAreRefused, Loaded, ScriptIssued, AnswersStand
<1>3. Contained /\ Base => RefusalIsContained
  <2> SUFFICES ASSUME Contained, Base  PROVE RefusalIsContained
    OBVIOUS
  <2>1. seq \in Nat /\ Len(Timeline) \in Nat /\ DOMAIN Timeline = 1 .. Len(Timeline)
    BY BaseFacts, ScriptAssumption DEF Base, KernelFacts, K!TypeOK
  <2>2. ScriptStands
    <3> SUFFICES ASSUME mode # "loading", NEW i \in DOMAIN Timeline  PROVE ScriptPlays(i)
      BY DEF ScriptStands, ScriptPlays
    <3> QED  BY <2>1 DEF Contained, Loaded, ScriptIssued
  <2> QED  BY <2>2 DEF Contained, LostAreRefused, RefusalIsContained
<1> QED  BY <1>1, <1>2, <1>3, BaseKept, PTL DEF Spec
=============================================================================
