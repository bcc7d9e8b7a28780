----------------------------- MODULE RpcServer ------------------------------
(***************************************************************************)
(* The JSON-RPC Tool API server (api/app.py, api/rpc.py): one kernel and   *)
(* one world in one process, and the clients of the CLI's http backend     *)
(* (cli/runtime.py, cli/backend.py).  A request is handled to its end on   *)
(* the server's event loop, so each is one action; a client's advance --to *)
(* is two requests, and others may come between them.                      *)
(*                                                                         *)
(* load_scenario replaces the world, the personas and the guard of the     *)
(* running kernel, and keeps its clock, its counter and its queue: a       *)
(* scenario may be loaded late, and on top of another one's pending        *)
(* events.  restore and load_bootstrap replace the world alone.            *)
(*                                                                         *)
(* The world is the list of the events that wrote to it since it was       *)
(* seeded.  Events fire as in Kernel; Episode has what they write.         *)
(***************************************************************************)
EXTENDS Integers, Sequences, SequencesExt, FiniteSets, Ranking

CONSTANTS
  Clients,
  Scenarios,
  Script,   \* Script[s]: the minutes of s's scripted entries, in file order
  Cast,     \* Cast[s]: the personas s activates
  Guard,    \* Guard[s]: the edits that s's denied_paths refuse
  Edits,    \* the mutates, by what they write
  Partial,  \* those whose unguarded first write precedes a guarded one
  People,   \* whom a message may be sent to
  Delay,    \* Delay[p]: response_delay of p
  Waits,    \* durations of a wait, negative ones too
  Targets,  \* sim-times named by advance --to
  MaxLoads, MaxCalls  \* bounds: loads, and requests that may fire events

ASSUME RpcAssumption ==
  /\ Script \in [Scenarios -> Seq(Nat)]
  /\ Cast \in [Scenarios -> SUBSET People]
  /\ Guard \in [Scenarios -> SUBSET Edits] /\ Partial \subseteq Edits
  /\ Delay \in [People -> Nat \ {0}]
  /\ Waits \subseteq Int /\ Targets \subseteq Nat
  /\ MaxLoads \in Nat

VARIABLES
  now, seq, queue,    \* Kernel
  world,     \* WorldState: the events that wrote to it
  cast,      \* NPCEngine.npcs of the engine attached last
  guard,     \* WorldState._denied_paths
  advance,   \* advance[c]: c is between the two requests of an advance --to
  snap,      \* snap[c]: the result of c's last snapshot request
  ok,        \* the last request was answered with a result, not an error
  loads,     \* history: how many loads, and of the last one
  loaded,    \*   the scenario, the clock and the personas' due replies,
  replaced,  \*   and whether restore or load_bootstrap came after it
  calls      \* bounded count

kernelVars == <<now, seq, queue>>
loadVars == <<cast, guard, loads, loaded>>
vars == <<kernelVars, world, loadVars, advance, snap, ok, replaced, calls>>

NoScenario == "none"

Event == [seq : Nat, time : Nat, kind : {"script", "edit", "message", "reply"},
          about : Edits \cup People \cup Nat, load : Nat]

Before(e, f) == \/ e.time < f.time
                \/ e.time = f.time /\ e.seq < f.seq

Due(t) == {e \in queue : e.time <= t}
InOrder(events) == Ranked(events, Before)

(* Slip: the engine answers for anyone.                                    *)
WritesForAnyone(e) == TRUE

(* A reply due from a persona the attached engine does not know writes     *)
(* nothing.  Every other event takes its place in the list of those that   *)
(* wrote, a scripted entry too whose gate is shut or which has no deltas.  *)
Writes(e) == e.kind = "reply" => e.about \in cast

(* advance_until on a batch taken off the queue, and what it schedules.    *)
Written(batch) == world \o InOrder({e \in batch : Writes(e)})

Fire(batch, followUps) ==
  /\ queue' = (queue \ batch) \cup followUps
  /\ world' = Written(batch)

(* Others' requests that move the clock tell on an advance under way.      *)
Moved(c, d) == [x \in Clients |->
  IF x # c /\ advance[x].open THEN [advance[x] EXCEPT !.drift = @ + d]
  ELSE advance[x]]

Closed == [open |-> FALSE, target |-> 0, saw |-> 0, drift |-> 0]

Handle(c) == /\ calls < MaxCalls
             /\ ~advance[c].open
             /\ calls' = calls + 1

-----------------------------------------------------------------------------
(* create_app: a bootstrapped world, an empty kernel, no engine.           *)

Init ==
  /\ now = 0 /\ seq = 0 /\ queue = {}
  /\ world = << >>
  /\ cast = {} /\ guard = {}
  /\ advance = [c \in Clients |-> Closed]
  /\ snap = [c \in Clients |-> << >>]
  /\ ok = TRUE
  /\ loads = 0 /\ replaced = FALSE /\ calls = 0
  /\ loaded = [scenario |-> NoScenario, at |-> 0]

(* Slip: the minutes of the script counted from the clock.                 *)
ScriptOfFromNow(s) ==
  {[seq |-> seq + i, time |-> now + Script[s][i], kind |-> "script", about |-> i,
    load |-> loads + 1] : i \in DOMAIN Script[s]}

ScriptOf(s) ==
  {[seq |-> seq + i, time |-> Script[s][i], kind |-> "script", about |-> i,
    load |-> loads + 1] : i \in DOMAIN Script[s]}

(* load_scenario: seed, guard, engine, then the timeline, whatever the     *)
(* clock says and on top of what is queued.                                *)
LoadScenario(c, s) ==
  /\ loads < MaxLoads
  /\ ~advance[c].open
  /\ world' = << >>
  /\ guard' = Guard[s]
  /\ cast' = Cast[s]
  /\ seq' = seq + Len(Script[s])
  /\ queue' = queue \cup ScriptOf(s)
  /\ loads' = loads + 1
  /\ loaded' = [scenario |-> s, at |-> now]
  /\ replaced' = FALSE
  /\ UNCHANGED <<now, advance, snap, calls>>
  /\ ok' = TRUE

(* load_bootstrap, and restore of a snapshot taken earlier: the world and  *)
(* nothing else.                                                           *)
LoadBootstrap(c) ==
  /\ Handle(c)
  /\ world' = << >>
  /\ replaced' = TRUE
  /\ UNCHANGED <<kernelVars, loadVars, advance, snap>>
  /\ ok' = TRUE

Restore(c) ==
  /\ Handle(c)
  /\ world' = snap[c]
  /\ replaced' = TRUE
  /\ UNCHANGED <<kernelVars, loadVars, advance, snap>>
  /\ ok' = TRUE

Snapshot(c) ==
  /\ ~advance[c].open
  /\ snap' = [snap EXCEPT ![c] = world]
  /\ UNCHANGED <<kernelVars, world, loadVars, advance, replaced, calls>>
  /\ ok' = TRUE

-----------------------------------------------------------------------------
(* action: a mutate is scheduled at the clock and drained at once, with    *)
(* whatever a late load left due.                                          *)

Mutation(kind, about) ==
  [seq |-> seq + 1, time |-> now, kind |-> kind, about |-> about, load |-> loads]

(* Slip: the edit is applied at once, ahead of what is due.                *)
EditAhead(c, e) ==
  /\ Handle(c)
  /\ e \notin guard
  /\ seq' = seq + 1
  /\ world' = Append(world, Mutation("edit", e))
  /\ UNCHANGED <<now, queue, loadVars, advance, snap, replaced>>
  /\ ok' = TRUE

(* Slip: the edit waits for the next request that fires what is due.       *)
EditUndrained(c, e) ==
  /\ Handle(c)
  /\ e \notin guard
  /\ seq' = seq + 1
  /\ queue' = queue \cup {Mutation("edit", e)}
  /\ UNCHANGED <<now, world, loadVars, advance, snap, replaced>>
  /\ ok' = TRUE

Edit(c, e) ==
  /\ Handle(c)
  /\ e \notin guard
  /\ seq' = seq + 1
  /\ Fire(Due(now) \cup {Mutation("edit", e)}, {})
  /\ UNCHANGED <<now, loadVars, advance, snap, replaced>>
  /\ ok' = TRUE

(* The dry run knows the guard's floor only: the scenario's denied path is *)
(* refused when the event is applied, behind what was due before it and    *)
(* behind the writes its own list has before that one.                     *)
EditRefused(c, e) ==
  /\ Handle(c)
  /\ e \in guard
  /\ seq' = seq + 1
  /\ queue' = queue \ Due(now)
  /\ world' = Written(Due(now) \cup
                      {Mutation("edit", p) : p \in Partial \cap {e}})
  /\ UNCHANGED <<now, loadVars, advance, snap, replaced>>
  /\ ok' = FALSE

(* Slip: the delay is taken off.                                           *)
AnswerBefore(p) ==
  {[seq |-> seq + 2, time |-> now - Delay[q], kind |-> "reply", about |-> q,
    load |-> loads] : q \in cast \cap {p}}

(* Only a persona of the attached engine owes an answer.                   *)
AnswerOf(p) ==
  {[seq |-> seq + 2, time |-> now + Delay[q], kind |-> "reply", about |-> q,
    load |-> loads] : q \in cast \cap {p}}

SendMessage(c, p) ==
  /\ Handle(c)
  /\ seq' = seq + 1 + Cardinality(AnswerOf(p))
  /\ Fire(Due(now) \cup {Mutation("message", p)}, AnswerOf(p))
  /\ UNCHANGED <<now, loadVars, advance, snap, replaced>>
  /\ ok' = TRUE

(* wait, by a client's advance --by or any other caller.                   *)
Wait(c, d) ==
  /\ Handle(c)
  /\ d >= 0
  /\ now' = now + d
  /\ Fire(Due(now + d), {})
  /\ advance' = Moved(c, d)
  /\ UNCHANGED <<seq, loadVars, snap, replaced>>
  /\ ok' = TRUE

(* A negative duration: no argument check looks at the sign, so what was   *)
(* due by then is applied before the clock refuses.                        *)
WaitBack(c, d) ==
  /\ Handle(c)
  /\ d < 0
  /\ Fire(Due(now + d), {})
  /\ UNCHANGED <<now, seq, loadVars, advance, snap, replaced>>
  /\ ok' = FALSE

(* advance --to t: ask the clock, then wait for the difference.            *)
AskNow(c, t) ==
  /\ Handle(c)
  /\ advance' = [advance EXCEPT
       ![c] = [open |-> TRUE, target |-> t, saw |-> now, drift |-> 0]]
  /\ UNCHANGED <<kernelVars, world, loadVars, snap, replaced>>
  /\ ok' = TRUE

(* Slip: the target is sent as the duration.                               *)
DurationOfTarget(c) == advance[c].target

Duration(c) == advance[c].target - advance[c].saw

SendWait(c) ==
  /\ advance[c].open /\ Duration(c) >= 0
  /\ now' = now + Duration(c)
  /\ Fire(Due(now'), {})
  /\ advance' = [Moved(c, Duration(c)) EXCEPT ![c] = Closed]
  /\ UNCHANGED <<seq, loadVars, snap, replaced, calls>>
  /\ ok' = TRUE

(* Slip: the sign is dropped on the way to the queue.                      *)
SendWaitForward(c) ==
  /\ advance[c].open /\ Duration(c) < 0
  /\ Fire(Due(now - Duration(c)), {})
  /\ advance' = [advance EXCEPT ![c] = Closed]
  /\ UNCHANGED <<now, seq, loadVars, snap, replaced, calls>>
  /\ ok' = FALSE

(* A target behind the clock asked for: nothing on this path checks the    *)
(* sign, the batch due by then is applied, and the clock refuses.          *)
SendWaitBack(c) ==
  /\ advance[c].open /\ Duration(c) < 0
  /\ Fire(Due(now + Duration(c)), {})
  /\ advance' = [advance EXCEPT ![c] = Closed]
  /\ UNCHANGED <<now, seq, loadVars, snap, replaced, calls>>
  /\ ok' = FALSE

Next == \E c \in Clients :
  \/ \E s \in Scenarios : LoadScenario(c, s)
  \/ LoadBootstrap(c) \/ Snapshot(c) \/ Restore(c)
  \/ \E e \in Edits : Edit(c, e) \/ EditRefused(c, e)
  \/ \E p \in People : SendMessage(c, p)
  \/ \E d \in Waits : Wait(c, d) \/ WaitBack(c, d)
  \/ \E t \in Targets : AskNow(c, t)
  \/ SendWait(c) \/ SendWaitBack(c)

Spec == Init /\ [][Next]_vars

-----------------------------------------------------------------------------
(* Properties *)

TypeOK ==
  /\ now \in Nat /\ seq \in Nat
  /\ queue \subseteq Event
  /\ world \in Seq(Event)
  /\ cast \subseteq People /\ guard \subseteq Edits
  /\ \A c \in Clients : snap[c] \in Seq(Event)
  /\ ok \in BOOLEAN /\ replaced \in BOOLEAN
  /\ loads \in 0 .. MaxLoads /\ loaded.scenario \in Scenarios \cup {NoScenario}

Running == loads > 0 /\ ~replaced

(* The timeline of the scenario loaded last plays out in the world it      *)
(* seeded (loader.py schedules it on a kernel whose clock and queue it     *)
(* does not reset): each entry is still queued or has written exactly      *)
(* once, never before its minute, and it is left queued behind the clock   *)
(* only if the load itself came after that minute.  Neither an older       *)
(* scenario's pending events nor other clients' calls nor refused calls    *)
(* change that.                                                            *)
Entries(i, events) ==
  {e \in events : e.kind = "script" /\ e.load = loads /\ e.about = i}

TimelinePlaysOut ==
  Running => \A i \in DOMAIN Script[loaded.scenario] :
    LET minute == Script[loaded.scenario][i]
        waiting == Entries(i, queue) # {}
        plays == {k \in DOMAIN world : Entries(i, {world[k]}) # {}}
    IN /\ Cardinality(plays) = IF waiting THEN 0 ELSE 1
       /\ waiting => minute > now \/ minute <= loaded.at
       /\ ~waiting => minute <= now

(* What a loaded world was written by lies in it in the order of (sim_time,*)
(* seq), which is the order the evaluator replays the log in: also when    *)
(* the load was late and when an older scenario's events fire into it.     *)
WorldInOrder ==
  Running => \A i, j \in DOMAIN world : i < j => Before(world[i], world[j])

(* What an older scenario left queued still fires: its scripted entries    *)
(* and edits write to the new world, whoever they speak for.  Beyond that  *)
(* the world is that of the load: no answer in it is given by a persona    *)
(* outside the cast, although answers promised by another scenario's       *)
(* personas are still queued when load_scenario puts a new engine in       *)
(* place, and no call made before the load has any other effect after it.  *)
NoStrangersAnswer ==
  Running => \A i \in DOMAIN world :
    /\ world[i].kind = "reply" => world[i].about \in Cast[loaded.scenario]
    /\ world[i].load # loads => world[i].kind \in {"script", "reply"}

(* Both: the loaded world is written in order, and by older calls only     *)
(* what they had promised.                                                 *)
LoadedWorldStands == WorldInOrder /\ NoStrangersAnswer

(* advance --to over http lands where it was sent, later by exactly what   *)
(* other clients advanced the clock between its two requests, and never    *)
(* moves the clock back.                                                   *)
AdvanceLands ==
  [][\A c \in Clients : advance[c].open /\ ~advance'[c].open =>
       now' = IF advance[c].target >= advance[c].saw
                THEN advance[c].target + advance[c].drift
                ELSE now]_vars

(* A call answered with an error (a guarded edit, a wait of a negative     *)
(* duration, an advance --to behind the clock) never moves the clock and   *)
(* never fires an event before its minute: what it leaves in the world was *)
(* due already, or is the torn write of its own edit.                      *)
RefusedStaysPut ==
  [][~ok' => /\ now' = now
             /\ IsPrefix(world, world')
             /\ \A i \in Len(world) + 1 .. Len(world') :
                  world'[i] \in Due(now) \/ world'[i].seq = seq + 1]_vars

(* Both: only an advance that is accepted moves the clock, and it moves it *)
(* to where it was sent.                                                   *)
ClockIsKept == AdvanceLands /\ RefusedStaysPut
=============================================================================
