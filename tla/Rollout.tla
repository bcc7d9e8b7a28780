------------------------------ MODULE Rollout ------------------------------
(***************************************************************************)
(* One policy rollout over HTTP: the agent loop (scripts/pm_agent_llm.py), *)
(* the client SDK (openenv/client.py), the server's handlers               *)
(* (openenv/server.py) over one environment, and the run directory written *)
(* at the end (trajectory/actionlog.py).                                   *)
(*                                                                         *)
(* The server runs reset and step on its event loop, one at a time and to  *)
(* the end, in the order they arrive; GET /trajectory is handed to a       *)
(* thread, which reads the opening and then the events while the loop goes *)
(* on.  A client waits for its reply and gives up at its timeout; its      *)
(* request is served all the same.  Rollouts follow one another against    *)
(* the same server.  The model behind the agent answers any list of tool   *)
(* calls, or fails.                                                        *)
(*                                                                         *)
(* Of the environment only the clock, the number of applied events and     *)
(* what decides done and reward are kept; Episode has the rest.            *)
(***************************************************************************)
EXTENDS Naturals, Sequences, SequencesExt, FiniteSets, FiniteSetsExt

CONSTANTS Waits,        \* how long a wait may be
          Horizon,      \* the rubric's last checkpoint
          Deadlines,    \* the max-weeks budgets; 0 is none
          MaxTurns,     \* the agent's turn budget
          MaxCalls,     \* bound: tool calls in one answer of the model
          MaxRollouts,  \* bound: rollouts against one server
          MaxRestarts   \* bound: restarts of the server

ASSUME RolloutAssumption ==
  /\ Waits \subseteq Nat /\ Deadlines \subseteq Nat
  /\ Horizon \in Nat \ {0} /\ MaxTurns \in Nat /\ MaxCalls \in Nat

VARIABLES episode,   \* the reset the environment's world and events come from, 0: none
          opening,   \* the one its opening snapshot comes from
          now, deadline, scored, steps, events,  \* SaasWorldEnvironment
          readers,   \* the threads at /trajectory, and the opening they have read
          inbox,     \* the requests the server has yet to handle
          reply,     \* what has come back to the waiting client
          phase,     \* where the running rollout is
          turn, todo, finished, final, rows,  \* run_episode's locals
          disk,      \* what the rollout has written, or NoRun
          rollouts, restarts  \* bounded counts

serverVars == <<episode, opening, now, deadline, scored, steps, events>>
envVars == <<serverVars, readers>>
loopVars == <<turn, todo, finished, final, rows>>
vars == <<envVars, inbox, reply, phase, loopVars, disk, rollouts, restarts>>

Call(verb, d) == [verb |-> verb, d |-> d]

(* A wait, a verb that changes the world, a verb the Tool API refuses, and *)
(* the loop's own finish.                                                  *)
Calls == {Call("wait", d) : d \in Waits} \cup
         {Call("edit", 0), Call("bad", 0), Call("finish", 0)}

(* brain.respond: whatever the model, or a script in its place, answers.   *)
Responses == SeqOf(Calls, MaxCalls)

(* The reward of a reply: none, graded on the merits, or lost to the time  *)
(* budget.  The breakdown comes with it in the metadata.                   *)
Rewards == {"none", "completed", "timeout"}
Result == [done : BOOLEAN, reward : Rewards]

(* What the waiting client has got so far.                                 *)
Waiting == [status |-> "waiting"]
Failed == [status |-> "failed"]
Ok(body) == [status |-> "ok", body |-> body]
NoRun == [written |-> FALSE]

-----------------------------------------------------------------------------
(* The environment, as the server calls it.                                *)

Done(t) == t >= Horizon \/ (deadline # 0 /\ t >= deadline)
TimedOut(t) == deadline # 0 /\ t >= deadline /\ deadline < Horizon

Request == Head(inbox)

(* A reply reaches the rollout that asked, if it is still waiting.         *)
Reply(from, answer) ==
  reply' = IF from = rollouts /\ reply = Waiting THEN answer ELSE reply

Send(answer) == inbox' = Tail(inbox) /\ Reply(Request.from, answer)

(* The loop takes a request of this kind, unless it is inside a reset.     *)
Takes(kind) == inbox # << >> /\ Request.kind = kind /\ opening = episode

(* POST /reset: a fresh world, whatever the last one was doing; the        *)
(* opening is the last thing to be replaced.                               *)
HandleReset ==
  /\ Takes("reset")
  /\ episode' = Request.from
  /\ deadline' = Request.deadline
  /\ now' = 0 /\ scored' = FALSE /\ steps' = 0 /\ events' = 0
  /\ UNCHANGED <<opening, readers, inbox, reply, phase, loopVars, disk, rollouts, restarts>>

EndReset ==
  /\ opening # episode
  /\ opening' = episode
  /\ Send(Ok([done |-> FALSE, reward |-> "none"]))
  /\ UNCHANGED <<episode, now, deadline, scored, steps, events, readers, phase,
                 loopVars, disk, rollouts, restarts>>

(* POST /step before any reset, or after a restart: a 500.                 *)
HandleNoEpisode ==
  /\ Takes("step") /\ episode = 0
  /\ Send(Failed)
  /\ UNCHANGED <<envVars, phase, loopVars, disk, rollouts, restarts>>

(* POST /step, refused: it can say done, it never pays.                    *)
HandleRefused ==
  /\ Takes("step") /\ episode # 0
  /\ Request.call.verb = "bad"
  /\ steps' = steps + 1
  /\ Send(Ok([done |-> Done(now), reward |-> "none"]))
  /\ UNCHANGED <<episode, opening, now, deadline, scored, events, readers, phase,
                 loopVars, disk, rollouts, restarts>>

(* POST /step: the verb is applied; the first reply past the end is paid.  *)
(* No event raises inside a wait: only the agent's writes do, in their own *)
(* step.                                                                   *)
HandleStep ==
  /\ Takes("step") /\ episode # 0
  /\ Request.call.verb # "bad"
  /\ steps' = steps + 1
  /\ now' = now + Request.call.d
  /\ events' = IF Request.call.verb = "edit" THEN events + 1 ELSE events
  /\ scored' = (scored \/ Done(now'))
  /\ Send(Ok([done |-> Done(now'),
              reward |-> IF ~Done(now') \/ scored THEN "none"
                         ELSE IF TimedOut(now') THEN "timeout" ELSE "completed"]))
  /\ UNCHANGED <<episode, opening, deadline, readers, phase, loopVars, disk,
                 rollouts, restarts>>

(* GET /trajectory: the loop hands it to a thread, which gets to read the  *)
(* opening and then the events whatever the loop does meanwhile.           *)
HandleTrajectory ==
  /\ Takes("trajectory")
  /\ readers' = readers \cup {[from |-> Request.from, read |-> FALSE, opening |-> 0]}
  /\ inbox' = Tail(inbox)
  /\ UNCHANGED <<serverVars, reply, phase, loopVars, disk, rollouts, restarts>>

ReadOpening(r) ==
  /\ ~r.read
  /\ readers' = (readers \ {r}) \cup {[r EXCEPT !.read = TRUE, !.opening = opening]}
  /\ UNCHANGED <<serverVars, inbox, reply, phase, loopVars, disk, rollouts, restarts>>

ReadEvents(r) ==
  /\ r.read
  /\ readers' = readers \ {r}
  /\ Reply(r.from, Ok([opening |-> r.opening, episode |-> episode, events |-> events]))
  /\ UNCHANGED <<serverVars, inbox, phase, loopVars, disk, rollouts, restarts>>

(* The server process ends and is started again: the episode is gone, and  *)
(* the connections with it.                                                *)
Restart ==
  /\ restarts < MaxRestarts
  /\ restarts' = restarts + 1
  /\ episode' = 0 /\ opening' = 0 /\ now' = 0 /\ deadline' = 0
  /\ scored' = FALSE /\ steps' = 0 /\ events' = 0
  /\ inbox' = << >> /\ readers' = {}
  /\ reply' = IF reply = Waiting THEN Failed ELSE reply
  /\ UNCHANGED <<phase, loopVars, disk, rollouts>>

-----------------------------------------------------------------------------
Init ==
  /\ episode = 0 /\ opening = 0 /\ now = 0 /\ deadline = 0
  /\ scored = FALSE /\ steps = 0 /\ events = 0
  /\ inbox = << >> /\ readers = {}
  /\ reply = Failed
  /\ phase = "idle"
  /\ turn = 0 /\ todo = << >> /\ finished = FALSE
  /\ final = [done |-> FALSE, reward |-> "none"] /\ rows = << >>
  /\ disk = NoRun
  /\ rollouts = 0 /\ restarts = 0

Post(request) ==
  /\ inbox' = Append(inbox, request)
  /\ reply' = Waiting

Step(call) == [kind |-> "step", from |-> rollouts, call |-> call]

(* run_episode begins with a reset; its run directory is a new one.        *)
Start(d) ==
  /\ phase = "idle"
  /\ rollouts < MaxRollouts
  /\ rollouts' = rollouts + 1
  /\ Post([kind |-> "reset", from |-> rollouts + 1, deadline |-> d])
  /\ phase' = "resetting"
  /\ turn' = 0 /\ todo' = << >> /\ finished' = FALSE /\ rows' = << >>
  /\ final' = [done |-> FALSE, reward |-> "none"]
  /\ disk' = NoRun
  /\ UNCHANGED <<envVars, restarts>>

Answered == reply.status = "ok"

Opened ==
  /\ phase = "resetting" /\ Answered
  /\ final' = reply.body
  /\ phase' = "thinking"
  /\ UNCHANGED <<envVars, inbox, reply, turn, todo, finished, rows, disk,
                 rollouts, restarts>>

(* Slip: one turn too many.                                                *)
ThinkOnceMore(response) ==
  /\ phase = "thinking" /\ turn <= MaxTurns
  /\ turn' = turn + 1
  /\ todo' = response
  /\ finished' = FALSE
  /\ phase' = IF response = << >> THEN "closing" ELSE "acting"
  /\ UNCHANGED <<envVars, inbox, reply, final, rows, disk, rollouts, restarts>>

(* brain.respond: the next turn's tool calls.  None ends the loop.         *)
Think(response) ==
  /\ phase = "thinking" /\ turn < MaxTurns
  /\ turn' = turn + 1
  /\ todo' = response
  /\ finished' = FALSE
  /\ phase' = IF response = << >> THEN "closing" ELSE "acting"
  /\ UNCHANGED <<envVars, inbox, reply, final, rows, disk, rollouts, restarts>>

OutOfTurns ==
  /\ phase = "thinking" /\ turn = MaxTurns
  /\ phase' = "closing"
  /\ UNCHANGED <<envVars, inbox, reply, loopVars, disk, rollouts, restarts>>

(* finish is noted; the calls after it in the same answer are still made.  *)
Finish ==
  /\ phase = "acting" /\ todo # << >> /\ Head(todo).verb = "finish"
  /\ finished' = TRUE
  /\ todo' = Tail(todo)
  /\ UNCHANGED <<envVars, inbox, reply, phase, turn, final, rows, disk,
                 rollouts, restarts>>

Act ==
  /\ phase = "acting" /\ todo # << >> /\ Head(todo).verb # "finish"
  /\ Post(Step(Head(todo)))
  /\ phase' = "awaiting"
  /\ UNCHANGED <<envVars, loopVars, disk, rollouts, restarts>>

(* The reply replaces the last one and becomes a row of the action log.    *)
Observe ==
  /\ phase = "awaiting" /\ Answered
  /\ final' = reply.body
  /\ rows' = Append(rows, [turn |-> turn, done |-> reply.body.done, reward |-> reply.body.reward])
  /\ todo' = Tail(todo)
  /\ phase' = "acting"
  /\ UNCHANGED <<envVars, inbox, reply, turn, finished, disk, rollouts, restarts>>

(* Only after the whole answer is acted on does the loop look at done.     *)
TurnEnds ==
  /\ phase = "acting" /\ todo = << >>
  /\ phase' = IF finished \/ final.done THEN "closing" ELSE "thinking"
  /\ UNCHANGED <<envVars, inbox, reply, loopVars, disk, rollouts, restarts>>

(* An agent that did not cross the end is taken past whichever end binds.  *)
CloseBy == Max({Horizon, deadline}) + 1

Close ==
  /\ phase = "closing" /\ ~final.done
  /\ Post(Step(Call("wait", CloseBy)))
  /\ phase' = "crossing"
  /\ UNCHANGED <<envVars, loopVars, disk, rollouts, restarts>>

Crossed ==
  /\ phase = "crossing" /\ Answered
  /\ final' = reply.body
  /\ rows' = Append(rows, [turn |-> turn + 1, done |-> reply.body.done, reward |-> reply.body.reward])
  /\ phase' = "closed"
  /\ UNCHANGED <<envVars, inbox, reply, turn, todo, finished, disk, rollouts, restarts>>

(* Slip: an agent that called finish is believed.                          *)
FetchFinished ==
  /\ phase = "closed" \/ (phase = "closing" /\ (final.done \/ finished))
  /\ Post([kind |-> "trajectory", from |-> rollouts])
  /\ phase' = "fetching"
  /\ UNCHANGED <<envVars, loopVars, disk, rollouts, restarts>>

Fetch ==
  /\ phase = "closed" \/ (phase = "closing" /\ final.done)
  /\ Post([kind |-> "trajectory", from |-> rollouts])
  /\ phase' = "fetching"
  /\ UNCHANGED <<envVars, loopVars, disk, rollouts, restarts>>

(* _persist and write_run: the manifest and score.json come from the last  *)
(* reply, trajectory.jsonl from the rows, events.jsonl from the server.    *)
Persist ==
  /\ phase = "fetching" /\ Answered
  /\ disk' = [written |-> TRUE, reward |-> final.reward, rows |-> rows,
              log |-> reply.body]
  /\ phase' = "idle"
  /\ UNCHANGED <<envVars, inbox, reply, loopVars, rollouts, restarts>>

(* Slips: the client asks again after a timeout; only posts have one.      *)
GiveUpRetries ==
  /\ phase = "awaiting" /\ reply = Waiting
  /\ Len(inbox) < 2
  /\ Post(Step(Head(todo)))
  /\ UNCHANGED <<envVars, phase, loopVars, disk, rollouts, restarts>>

GiveUpOnPosts ==
  /\ phase \in {"resetting", "awaiting", "crossing"} /\ reply = Waiting
  /\ reply' = Failed
  /\ phase' = "idle"
  /\ UNCHANGED <<envVars, inbox, loopVars, disk, rollouts, restarts>>

(* The reply does not come in time: ConnectionError ends the rollout, and  *)
(* nothing of it is written.                                               *)
GiveUp ==
  /\ phase \in {"resetting", "awaiting", "crossing", "fetching"} /\ reply = Waiting
  /\ reply' = Failed
  /\ phase' = "idle"
  /\ UNCHANGED <<envVars, inbox, loopVars, disk, rollouts, restarts>>

(* A 500, a refused connection, or the model's API failing.                *)
Die ==
  /\ \/ phase \in {"resetting", "awaiting", "crossing", "fetching"} /\ reply = Failed
     \/ phase = "thinking" /\ turn < MaxTurns
  /\ phase' = "idle"
  /\ UNCHANGED <<envVars, inbox, reply, loopVars, disk, rollouts, restarts>>

Server ==
  \/ HandleReset \/ EndReset \/ HandleNoEpisode \/ HandleRefused \/ HandleStep
  \/ HandleTrajectory \/ \E r \in readers : ReadOpening(r) \/ ReadEvents(r)

Loop ==
  \/ Opened \/ OutOfTurns \/ Finish \/ Act \/ Observe \/ TurnEnds
  \/ Close \/ Crossed \/ Fetch \/ Persist \/ Die
  \/ \E response \in Responses : Think(response)

Next ==
  \/ Server \/ Loop \/ GiveUp \/ Restart
  \/ \E d \in Deadlines : Start(d)

(* The loop keeps running and a client that waits for ever gives up; the   *)
(* server may hang, and no one has to start a rollout or to restart it.    *)
Fairness == WF_vars(Loop) /\ WF_vars(GiveUp)

Spec == Init /\ [][Next]_vars /\ Fairness

-----------------------------------------------------------------------------
(* Properties *)

Row == [turn : Nat, done : BOOLEAN, reward : Rewards]

TypeOK ==
  /\ episode \in 0 .. rollouts /\ opening \in 0 .. rollouts
  /\ readers \subseteq [from : 1 .. rollouts, read : BOOLEAN, opening : 0 .. rollouts]
  /\ now \in Nat /\ deadline \in Deadlines \cup {0} /\ steps \in Nat /\ events \in Nat
  /\ scored \in BOOLEAN /\ finished \in BOOLEAN
  /\ \A i \in DOMAIN inbox : inbox[i].from \in 1 .. rollouts
  /\ turn \in 0 .. MaxTurns /\ todo \in Seq(Calls)
  /\ final \in Result /\ rows \in Seq(Row)
  /\ phase \in {"idle", "resetting", "thinking", "acting", "awaiting", "closing",
                "crossing", "closed", "fetching"}

(* A written run was graded: its episode crossed an end on the server and  *)
(* exactly one of its rows carries the reward, whoever ended the loop, in  *)
(* whatever turn (pm_agent_llm.py "close the episode so it gets a terminal *)
(* grade").  If the model made one call per answer, the manifest has it.   *)
Paid(r) == {i \in DOMAIN r : r[i].reward # "none"}
OneCallPerTurn(r) == \A i, j \in DOMAIN r : i # j => r[i].turn # r[j].turn

RunsAreGraded ==
  disk.written => /\ Cardinality(Paid(disk.rows)) = 1
                  /\ disk.log.episode = rollouts /\ episode = rollouts => scored
                  /\ OneCallPerTurn(disk.rows) => disk.reward # "none"

(* The action log is complete: until the server is restarted, the episode  *)
(* was driven by the rows of its own rollout and by nothing else, neither  *)
(* by a retry nor by a step that a dead rollout had left on its way; and   *)
(* the opening and the events written with it are both of that episode,    *)
(* although a thread reads them one after the other while the loop serves  *)
(* whatever request comes next.                                            *)
RowsAreTheSteps ==
  disk.written /\ restarts = 0 =>
    /\ Len(disk.rows) = steps
    /\ disk.log = [opening |-> rollouts, episode |-> rollouts, events |-> events]

(* Every rollout ends, written or not, even if the server hangs: the turn  *)
(* budget bounds the loop and the timeout every request.                   *)
RolloutEnds == phase # "idle" ~> phase = "idle"

(* actionlog.py:10 says of score.json "evaluator breakdown, present once   *)
(* the episode crossed the horizon".                                       *)
ScoreIsWritten == disk.written => disk.reward # "none"
=============================================================================
