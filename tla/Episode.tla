------------------------------ MODULE Episode -------------------------------
(***************************************************************************)
(* One episode: an agent drives the world through the Tool API, personas   *)
(* answer its messages, a scripted timeline fires, and the environment     *)
(* grades the run once the clock crosses the horizon or the time budget.   *)
(* Every effect goes through the kernel, whose steps this module takes     *)
(* from Kernel and completes with what each kind of event does to the      *)
(* world (api/rpc.py, npc/, scenario/loader.py, openenv/environment.py,    *)
(* eval/project.py).                                                       *)
(*                                                                         *)
(* The world is a function from slots to BOOLEAN: the fields the rubric,   *)
(* the gates and the guard tell apart (a blocker's "surfaced", a task's    *)
(* "done", the existence of a decision).  A step of the environment is a   *)
(* sequence of actions: the call, the turns of the kernel loop, the reply. *)
(***************************************************************************)
EXTENDS Integers, Sequences, FiniteSets

CONSTANTS
  Slots,       \* graded or gating fields of the world
  FloorDenied, \* those guarded by DENIED_PATHS
  MoreDenied,  \* those guarded by the scenario's denied_paths only
  Unwalkable,  \* those named by a path that cannot be written: malformed, or
               \* through a field that is not a dict
  NPCs,        \* registered personas
  Others,      \* addressees with no persona (channels, unregistered people)
  Bodies,      \* message bodies with their refs
  Intent,      \* Intent[b]: the intent a body is classified as
  Refs,        \* Refs[b]: the topics its refs mention
  Offers,      \* Offers[b]: the gates its other arguments meet
  Knowledge,   \* Knowledge[p]: p's knowledge_scope, a list of items
  Delay,       \* Delay[p]: p's response_delay
  Updates,     \* the field writes of the agent's mutates, in order
  Timeline,    \* the scripted events in file order
  Waits,       \* durations the agent waits for
  Meetings,    \* ends of the meetings it attends
  Horizons, Deadlines, \* episodes: horizon, and a set holding max_weeks or none
  Times,       \* sim-times an episode reaches
  MaxSteps     \* bound: steps the agent takes

Unclassified == "unclassified"  \* the parser raised

(* One kind of event per verb and target the properties tell apart.        *)
MessageKinds == [type : {"send_message"}, to : NPCs \cup Others, body : Bodies]
ReplyKinds   == [type : {"npc_reply"}, npc : NPCs, body : Bodies]
UpdateKinds  == [type : {"mutate"}, writes : Updates]
ScriptKinds  == {ev.kind : ev \in {Timeline[i] : i \in DOMAIN Timeline}}
EventKinds   == MessageKinds \cup ReplyKinds \cup UpdateKinds \cup ScriptKinds

HandledKinds == {k \in EventKinds : k.type \in {"npc_reply", "system_effect"}}

KnownTo(p) == DOMAIN Knowledge[p]

Denied == FloorDenied \cup MoreDenied

(* Where a write of the agent makes apply() raise: PermissionError of the  *)
(* guard, ValueError of the path.                                          *)
Refused == Denied \cup Unwalkable

(* A mutate whose deltas are refused inside apply(): the dry run of the    *)
(* Tool API looks at the floor only.                                       *)
RefusedKinds ==
  {k \in UpdateKinds : \E i \in DOMAIN k.writes : k.writes[i].slot \in Refused}

(* send_message to a registered persona schedules its reply.               *)
FollowUpsOfKind ==
  [k \in EventKinds |->
     IF k.type = "send_message" /\ k.to \in NPCs
       THEN << [delay |-> Delay[k.to],
                kind  |-> [type |-> "npc_reply", npc |-> k.to, body |-> k.body]] >>
       ELSE << >>]

(* The slots a persona can show by an answer.                              *)
Revealed == UNION {UNION {Knowledge[p][i].reveals : i \in KnownTo(p)} : p \in NPCs}

ASSUME EpisodeAssumption ==
  /\ Times \subseteq Nat /\ 0 \in Times
  /\ Meetings \subseteq Times
  /\ Waits \subseteq Int
  /\ Horizons \subseteq Nat
  /\ \A D \in Deadlines : D \subseteq Nat \ {0}
  /\ MaxSteps \in Nat

(* Persona packs: delays are durations, reveals name fields of the world.  *)
ASSUME CastAssumption ==
  /\ Delay \in [NPCs -> Nat]
  /\ \A p \in NPCs : \A i \in KnownTo(p) : Knowledge[p][i].reveals \subseteq Slots

(* The loader schedules messages, meetings and effects, never a verb of    *)
(* the agent or a reply; an effect flips fields it is there to flip, and   *)
(* none that only a persona may reveal.                                    *)
ASSUME ScriptAssumption ==
  /\ Timeline \in Seq([at : Times, kind : ScriptKinds])
  /\ \A k \in ScriptKinds :
       /\ k.type \notin {"send_message", "npc_reply", "mutate"}
       /\ k.type = "system_effect" =>
            /\ k.gate \subseteq Slots
            /\ k.flips \subseteq Slots \ Revealed
            /\ k.flips # {}

(* The agent's writes: no verb of the catalog has an effect whose path     *)
(* lies under blockers, where what a persona reveals is; one that had      *)
(* would have to be refused.  (The floor's blockers.*.surfaced alone does  *)
(* not see to it: its * stands for one segment, an id may have a dot.)     *)
ASSUME WriteAssumption ==
  /\ Updates \subseteq Seq([slot : Slots, value : BOOLEAN])
  /\ \A w \in Updates : \A i \in DOMAIN w : w[i].slot \in Revealed => w[i].slot \in Refused

VARIABLES now, seq, queue, advancing, until, batch, log, lost  \* the kernel
VARIABLES world,     \* WorldState._data
          effects,   \* the deltas the sink was given, one entry per log entry
          mode,      \* what the running call of the Tool API is doing
          steps,     \* State.step_count
          horizon,   \* the last checkpoint
          deadline,  \* {max_weeks in minutes}, or {} when there is no budget
          outcome,   \* "none" until scored, then the meta outcome
          grade,     \* the projected world the reward was computed from
          rewards,   \* history: replies that carried a reward
          reported,  \* history: some reply said done
          torn       \* history: slots written by applications that raised

kernelVars == <<now, seq, queue, advancing, until, batch, log, lost>>
graderVars == <<outcome, grade, rewards, reported>>
configVars == <<horizon, deadline>>
vars == <<kernelVars, world, effects, mode, steps, configVars, graderVars, torn>>

K == INSTANCE Kernel WITH
       Kinds <- EventKinds, Handled <- HandledKinds, Faulty <- RefusedKinds,
       FollowUps <- FollowUpsOfKind, Instants <- Times,
       MaxSeq <- Len(Timeline) + MaxSteps + MaxSteps

-----------------------------------------------------------------------------
(* Worlds and deltas.  A delta set is a function from the slots written to *)
(* the values written; says is the reply a handler appended to messages.   *)

Overlay(w, d) == [s \in Slots |-> IF s \in DOMAIN d THEN d[s] ELSE w[s]]

(* The first n writes in order: a later write of a slot replaces it.       *)
Sets(writes, n) ==
  [s \in {writes[i].slot : i \in 1 .. n} |->
     \E i \in 1 .. n : /\ writes[i].slot = s /\ writes[i].value
                       /\ \A j \in i + 1 .. n : writes[j].slot # s]

NoSets == [s \in {} |-> FALSE]

Opening == [s \in Slots |-> FALSE]

(* project(trajectory, at): the opening snapshot overlaid, in (sim_time,   *)
(* seq) order, with the recorded deltas of the events due by at.           *)
WritersBy(at, s) ==
  {i \in DOMAIN log : log[i].time <= at /\ s \in DOMAIN effects[i].sets}

LastWriterBy(at, s) ==
  {i \in WritersBy(at, s) :
     \A j \in WritersBy(at, s) : i = j \/ K!Before(log[j], log[i])}

Project(at) ==
  [s \in Slots |-> IF WritersBy(at, s) = {} THEN Opening[s]
                   ELSE \E i \in LastWriterBy(at, s) : effects[i].sets[s]]

-----------------------------------------------------------------------------
(* reset: a fresh world and kernel; the loader schedules the timeline.     *)

Init ==
  /\ K!Init
  /\ world = Opening
  /\ effects = << >>
  /\ mode = "loading"
  /\ steps = 0
  /\ horizon \in Horizons
  /\ deadline \in Deadlines
  /\ outcome = "none"
  /\ grade = Opening
  /\ rewards = 0
  /\ reported = FALSE
  /\ torn = {}

LoadScript ==
  /\ mode = "loading"
  /\ IF seq < Len(Timeline)
       THEN /\ K!Schedule(Timeline[seq + 1].at, Timeline[seq + 1].kind)
            /\ UNCHANGED mode
       ELSE /\ mode' = "ready"
            /\ UNCHANGED kernelVars
  /\ UNCHANGED <<world, effects, steps, configVars, graderVars, torn>>

-----------------------------------------------------------------------------
(* The end of a step (SaasWorldEnvironment.step after dispatch).           *)

Done(n) == \/ horizon > 0 /\ n >= horizon
           \/ \E d \in deadline : n >= d

TimedOut(n) == \E d \in deadline : n >= d /\ (horizon <= 0 \/ d < horizon)

(* An error reply says whether the episode is done and never scores it.    *)
ReplyError(n) ==
  /\ mode' = "ready"
  /\ reported' = (reported \/ Done(n))
  /\ UNCHANGED <<outcome, grade, rewards>>

(* Slips: paid at every done reply; graded as of the clock.                *)
ReplyOkPaysAgain(n) ==
  /\ mode' = "ready"
  /\ reported' = (reported \/ Done(n))
  /\ IF Done(n)
       THEN /\ outcome' = IF TimedOut(n) THEN "timeout" ELSE "completed"
            /\ grade' = Project(horizon)
            /\ rewards' = rewards + 1
       ELSE UNCHANGED <<outcome, grade, rewards>>

ReplyOkGradesNow(n) ==
  /\ mode' = "ready"
  /\ reported' = (reported \/ Done(n))
  /\ IF Done(n) /\ outcome = "none"
       THEN /\ outcome' = IF TimedOut(n) THEN "timeout" ELSE "completed"
            /\ grade' = Project(n)
            /\ rewards' = rewards + 1
       ELSE UNCHANGED <<outcome, grade, rewards>>

(* A success reply scores the episode the first time it is done.           *)
ReplyOk(n) ==
  /\ mode' = "ready"
  /\ reported' = (reported \/ Done(n))
  /\ IF Done(n) /\ outcome = "none"
       THEN /\ outcome' = IF TimedOut(n) THEN "timeout" ELSE "completed"
            /\ grade' = Project(horizon)
            /\ rewards' = rewards + 1
       ELSE UNCHANGED <<outcome, grade, rewards>>

BeginStep == /\ mode = "ready"
             /\ steps < MaxSteps
             /\ steps' = steps + 1

(* An observe verb: a read and a reply.                                    *)
Observe ==
  /\ BeginStep
  /\ ReplyOk(now)
  /\ UNCHANGED <<kernelVars, world, effects, configVars, torn>>

(* Unknown verb, bad arguments, failed precondition, or a mutate that      *)
(* writes a floor path: an error reply before anything is scheduled.       *)
Reject ==
  /\ BeginStep
  /\ ReplyError(now)
  /\ UNCHANGED <<kernelVars, world, effects, configVars, torn>>

-----------------------------------------------------------------------------
(* The advance class: one call of advance_until.                           *)

Advance(target) ==
  /\ BeginStep
  /\ K!PopDue(target)
  /\ mode' = "advance"
  /\ UNCHANGED <<world, effects, configVars, graderVars, torn>>

(* wait: a negative duration makes the kernel call raise.                  *)
Wait(d) == now + d \in Times /\ Advance(now + d)

(* attend_meeting: never rewinds, a past meeting releases to now.          *)
Attend(end) == Advance(IF end < now THEN now ELSE end)

EndAdvance ==
  /\ mode = "advance"
  /\ K!Return
  /\ IF until < now THEN ReplyError(now) ELSE ReplyOk(until)
  /\ UNCHANGED <<world, effects, steps, configVars, torn>>

-----------------------------------------------------------------------------
(* The mutate class: schedule at now, then drain everything due at now.    *)

PassesDryRun(k) ==
  k \in UpdateKinds => \A i \in DOMAIN k.writes : k.writes[i].slot \notin FloorDenied

Mutate(k) ==
  /\ BeginStep
  /\ PassesDryRun(k)
  /\ K!Schedule(now, k)
  /\ mode' = "mutate"
  /\ UNCHANGED <<world, effects, configVars, graderVars, torn>>

Drain ==
  /\ mode = "mutate"
  /\ K!Due(now) # {}
  /\ K!PopDue(now)
  /\ UNCHANGED <<world, effects, mode, steps, configVars, graderVars, torn>>

DrainReturns ==
  /\ mode = "mutate"
  /\ K!Return
  /\ UNCHANGED <<world, effects, mode, steps, configVars, graderVars, torn>>

(* Slips: the reply does not wait for the cascade; it waits for the whole  *)
(* queue.                                                                  *)
EndMutateUndrained ==
  /\ mode = "mutate"
  /\ ~advancing
  /\ ReplyOk(now)
  /\ UNCHANGED <<kernelVars, world, effects, steps, configVars, torn>>

EndMutateEmpty ==
  /\ mode = "mutate"
  /\ ~advancing
  /\ queue = {}
  /\ ReplyOk(now)
  /\ UNCHANGED <<kernelVars, world, effects, steps, configVars, torn>>

EndMutate ==
  /\ mode = "mutate"
  /\ ~advancing
  /\ K!Due(now) = {}
  /\ ReplyOk(now)
  /\ UNCHANGED <<kernelVars, world, effects, steps, configVars, torn>>

-----------------------------------------------------------------------------
(* What applying an event does to the world.                               *)

(* Slips: any topic will do; the gate is not looked at.                    *)
UnlocksAnyTopic(item, body) ==
  /\ Intent[body] = item.intent
  /\ item.gate = "ask_direct" \/ item.gate \in Offers[body]

UnlocksUngated(item, body) ==
  /\ Intent[body] = item.intent
  /\ item.about = {} \/ Refs[body] \cap item.about # {}

(* The persona's first item this message unlocks: its intent matches, the  *)
(* message mentions one of its topics unless it lists none, and carries    *)
(* the offer or the rapport its gate asks for, if it has such a gate.      *)
Unlocks(item, body) ==
  /\ Intent[body] = item.intent
  /\ item.about = {} \/ Refs[body] \cap item.about # {}
  /\ item.gate = "ask_direct" \/ item.gate \in Offers[body]

Unlocked(p, body) ==
  {i \in KnownTo(p) : /\ Unlocks(Knowledge[p][i], body)
                      /\ \A j \in 1 .. i - 1 : ~Unlocks(Knowledge[p][j], body)}

(* decide(): the reveal writes the blocker's slot; no item, an ack.  An    *)
(* intent outside allowed_intents, to which decide() would answer nothing, *)
(* never reaches it: parse_intent raises.                                  *)
Decision(p, body) ==
  IF Unlocked(p, body) = {}
    THEN [sets |-> NoSets, says |-> "ack"]
    ELSE LET item == Knowledge[p][CHOOSE i \in Unlocked(p, body) : TRUE]
         IN [sets |-> [s \in item.reveals |-> TRUE], says |-> "reveal"]

(* The reply handler.  The parser may raise (a cassette miss, an intent    *)
(* outside the enum, an API failure): the core is bypassed, a bare ack.    *)
Replies(k) == {Decision(k.npc, k.body), [sets |-> NoSets, says |-> "ack"]}

(* Slip: the flip does not wait for its gate.                              *)
GatedEffectAlways(k) == [sets |-> [s \in k.flips |-> TRUE], says |-> "nothing"]

(* Gated completion: the gate is evaluated on the world at fire time.      *)
GatedEffect(k) ==
  [sets |-> IF \A s \in k.gate : world[s] THEN [s \in k.flips |-> TRUE] ELSE NoSets,
   says |-> "nothing"]

EffectsOf(k) ==
  CASE k.type = "npc_reply"     -> Replies(k)
    [] k.type = "system_effect" -> {GatedEffect(k)}
    [] k.type = "mutate" -> {[sets |-> Sets(k.writes, Len(k.writes)), says |-> "nothing"]}
    [] OTHER -> {[sets |-> NoSets, says |-> "nothing"]}

(* Slips: the sink is not told; it is told of the payload's deltas only.   *)
ApplyEventUntold(e) ==
  /\ e.kind \notin RefusedKinds
  /\ K!Apply(e)
  /\ \E d \in EffectsOf(e.kind) : world' = Overlay(world, d.sets)
  /\ UNCHANGED <<effects, mode, steps, configVars, graderVars, torn>>

ApplyEventPayloadOnly(e) ==
  /\ e.kind \notin RefusedKinds
  /\ K!Apply(e)
  /\ \E d \in EffectsOf(e.kind) :
       /\ world' = Overlay(world, d.sets)
       /\ effects' = Append(effects,
            IF e.kind \in HandledKinds THEN [d EXCEPT !.sets = NoSets] ELSE d)
  /\ UNCHANGED <<mode, steps, configVars, graderVars, torn>>

ApplyEvent(e) ==
  /\ e.kind \notin RefusedKinds
  /\ K!Apply(e)
  /\ \E d \in EffectsOf(e.kind) :
       /\ world' = Overlay(world, d.sets)
       /\ effects' = Append(effects, d)
  /\ UNCHANGED <<mode, steps, configVars, graderVars, torn>>

(* The event's first refused path raises after the deltas before it were   *)
(* written; dispatch turns the exception into an error reply.              *)
RefuseEvent(e) ==
  /\ e.kind \in RefusedKinds
  /\ K!Raise(e)
  /\ LET w == e.kind.writes IN
     \E n \in DOMAIN w :
       /\ w[n].slot \in Refused
       /\ \A j \in 1 .. n - 1 : w[j].slot \notin Refused
       /\ world' = Overlay(world, Sets(w, n - 1))
       /\ torn' = torn \cup DOMAIN Sets(w, n - 1)
  /\ ReplyError(now)
  /\ UNCHANGED <<effects, steps, configVars>>

KernelTurn == \E e \in batch : ApplyEvent(e) \/ RefuseEvent(e)

-----------------------------------------------------------------------------
AgentStep ==
  \/ Observe
  \/ Reject
  \/ \E d \in Waits : Wait(d)
  \/ \E m \in Meetings : Attend(m)
  \/ \E k \in MessageKinds \cup UpdateKinds : Mutate(k)

ServeStep ==
  \/ LoadScript
  \/ KernelTurn
  \/ EndAdvance
  \/ Drain
  \/ DrainReturns
  \/ EndMutate

Next == AgentStep \/ ServeStep

Spec == Init /\ [][Next]_vars

(* A call, once begun, runs to its reply; the agent may stop for ever.     *)
FairSpec == Spec /\ WF_vars(ServeStep)

-----------------------------------------------------------------------------
(* Properties *)

TypeOK ==
  /\ K!TypeOK
  /\ world \in [Slots -> BOOLEAN]
  /\ Len(effects) = Len(log)
  /\ mode \in {"loading", "ready", "advance", "mutate"}
  /\ steps \in 0 .. MaxSteps
  /\ outcome \in {"none", "timeout", "completed"}
  /\ grade \in [Slots -> BOOLEAN]
  /\ rewards \in Nat
  /\ reported \in BOOLEAN
  /\ torn \subseteq Slots

(* The recorded log is in (sim_time, seq) order.  The kernel alone does    *)
(* not give this; the discipline of the Tool API does: mutates are stamped *)
(* with the clock, the same-time cascade is drained before the reply, and  *)
(* only the advance class moves the clock.                                 *)
LogInDueOrder ==
  \A i, j \in DOMAIN log : i < j => K!Before(log[i], log[j])

(* Between steps nothing the agent caused is overdue, and nothing at all   *)
(* is due before the clock: a reply due at the moment of the message has   *)
(* been given before the step returns.                                     *)
NothingOverdue ==
  mode = "ready" => \A e \in queue : /\ e.time >= now
                                     /\ e.cause # 0 => e.time > now

(* The two together: events take effect on time and in order.              *)
OnTime == LogInDueOrder /\ NothingOverdue

(* A blocker is surfaced only by asking: the world shows it only after a   *)
(* message of the agent, to a persona who knows it, classified as the      *)
(* item's intent, mentioning its topic and meeting its gate, was answered  *)
(* after that persona's delay.                                             *)
EarnedBy(s, reply, message) ==
  LET m == message.kind IN
  /\ m.type = "send_message" /\ m.to \in NPCs
  /\ reply.kind.type = "npc_reply" /\ reply.kind.npc = m.to
  /\ reply.cause = message.seq
  /\ reply.time = message.time + Delay[m.to]
  /\ \E n \in KnownTo(m.to) :
       LET item == Knowledge[m.to][n] IN
       /\ s \in item.reveals
       /\ item.intent = Intent[m.body]
       /\ item.about = {} \/ item.about \cap Refs[m.body] # {}
       /\ item.gate = "ask_direct" \/ item.gate \in Offers[m.body]

Earned(s, j) == \E i \in 1 .. j - 1 : EarnedBy(s, log[j], log[i])

EarnedReveal ==
  \A s \in Revealed : world[s] =>
    \E j \in DOMAIN log : s \in DOMAIN effects[j].sets /\ Earned(s, j)

(* A gated completion flips its slots exactly when the agent's doing made  *)
(* the gate true before the scripted moment; a decision taken after the    *)
(* moment does not count, and one that was written by a step that failed   *)
(* is the only other way.                                                  *)
GateAt(k, j) ==
  \A s \in k.gate :
    \/ s \in torn
    \/ \E i \in 1 .. j - 1 : s \in DOMAIN effects[i].sets /\ effects[i].sets[s]

GatedCompletion ==
  \A j \in DOMAIN log :
    log[j].kind.type = "system_effect" =>
      /\ effects[j].sets # NoSets => GateAt(log[j].kind, j)
      /\ effects[j].sets = NoSets =>
           \E s \in log[j].kind.gate :
             LET W == {i \in 1 .. j - 1 : s \in DOMAIN effects[i].sets}
             IN \/ s \in torn
                \/ W = {}
                \/ \E i \in W : ~effects[i].sets[s]

(* Both: neither a blocker nor a gated slot shows without the doing that   *)
(* earns it, and none that was earned stays hidden when its moment fires.  *)
EffectsAreEarned == EarnedReveal /\ GatedCompletion

(* Replaying the recorded deltas over the opening gives the live world, in *)
(* every slot no failing application wrote: handlers report exactly what   *)
(* they wrote, reveals and gated flips included, and the (sim_time, seq)   *)
(* order of the replay is the order the writes were made in.               *)
ReplayAgrees ==
  mode = "ready" => \A s \in Slots \ torn : world[s] = Project(now)[s]

(* The reward is given once, as the outcome the budget rule asks for, and  *)
(* once a reply has said done it has been given.                           *)
DoneIsScored == reported => outcome # "none"

RewardOnce ==
  /\ rewards = (IF outcome = "none" THEN 0 ELSE 1)
  /\ outcome = "completed" => /\ horizon > 0 /\ now >= horizon
                              /\ \A d \in deadline : d >= horizon
  /\ outcome = "timeout" =>
       \E d \in deadline : d <= now /\ (d < horizon \/ horizon = 0)
  /\ DoneIsScored

(* Regrading a completed episode gives the reward that was paid, whatever  *)
(* the agent does afterwards and however far the last wait overshot the    *)
(* horizon; only writes stamped with the horizon itself, made after the    *)
(* clock landed exactly on it, come between the two.                       *)
RegradeAgrees ==
  outcome = "completed" =>
    \A s \in Slots : grade[s] # Project(horizon)[s] =>
      \E i \in DOMAIN log : log[i].time = horizon /\ s \in DOMAIN effects[i].sets

(* Both: the episode is paid once, for what a regrade confirms.            *)
RewardStands == RewardOnce /\ RegradeAgrees

(* A step that is refused in the middle of the loop costs its own event    *)
(* and nothing else.  The events popped with it are dropped by the raise,  *)
(* so this rests on what the Tool API lets come together in one batch and  *)
(* in which order: the only events ever lost are refused writes, every     *)
(* scripted moment stays pending until it has played at its own minute,    *)
(* and every message a persona was told of has its answer pending or given *)
(* at the time its delay says.                                             *)
InForce == queue \cup batch \cup K!Logged

ScriptStands ==
  mode # "loading" =>
    \A i \in DOMAIN Timeline :
      \E e \in InForce : /\ e.seq = i
                         /\ e.time = Timeline[i].at
                         /\ e.kind = Timeline[i].kind

AnswersStand ==
  \A m \in K!Logged : m.kind.type = "send_message" /\ m.kind.to \in NPCs =>
    \E r \in InForce : /\ r.cause = m.seq
                       /\ r.time = m.time + Delay[m.kind.to]
                       /\ r.kind = [type |-> "npc_reply", npc  |-> m.kind.to,
                                    body |-> m.kind.body]

RefusalIsContained ==
  /\ \A e \in lost : e.kind \in RefusedKinds
  /\ ScriptStands
  /\ AnswersStand

(* Every step the agent takes gets its reply.                              *)
StepReturns == mode # "ready" ~> mode = "ready"
=============================================================================
