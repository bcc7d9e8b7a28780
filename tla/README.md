# Saasworld: a TLA+ verification project

Saasworld simulates a software company in which an agent plays a product
manager. A deterministic, event-driven world is written by one kernel; agents
act through a small set of verbs; simulated coworkers ("personas") answer after
a delay and reveal facts only when asked rightly; a scripted timeline fires
around them; and an evaluator turns the event log into a reward. The same log
is the only record of a run, so ordering, replay and scoring have to agree, over
HTTP, across command-line processes and after kills.

This directory models the parts that decide *what happens and what it is worth*,
checks them with TLC and proves every safety property checked with TLAPS. Every definition is
translated from the source; `PROJECT.json` maps each one to the lines it stands
for, and lists the hazards the properties are aimed at.

Contents: [Inventory](#inventory) · [Modules](#modules) · [Runs](#runs) ·
[Fairness](#fairness) · [Proofs](#proofs) · [Findings](#findings) ·
[Observations](#observations) · [Abstractions](#abstractions-and-what-is-not-modelled) ·
[Plan](#plan)

## Inventory

Paths are below `src/saasworld/` unless they begin with `scripts/`.

| component | state | operations | what is hard | correct when |
|---|---|---|---|---|
| Kernel `kernel.py` `events.py` `clock.py` | clock, counter, heap of events, handlers, sinks | `schedule`, `advance_until`, `apply` | the due events are popped *before* the loop, follow-ups join the queue during it, an event may raise out of it, the clock moves last | no event is lost or fired twice; causes before effects; an event is overtaken only by one due strictly earlier; every call returns |
| World `state/` | nested partitions, denied paths | `apply(deltas)`, `read`, `snapshot`, `restore` | a delta list is checked and written one delta at a time | what is written is what the log records |
| Tool API `api/rpc.py` `actions/` | none of its own | observe, mutate (schedule at now, drain), advance | dry run with a smaller guard than the kernel's; draining cascades until nothing is due | each step returns, nothing is overdue after it |
| Personas `npc/` | runtime configs | delayed reply: classify, decide, write, render | the classification may fail; the decision is taken when the reply fires | a blocker shows only after the right question to the right person |
| Scenario loader `scenario/loader.py` | none | world seed, timeline, gated completions | a gate is read at fire time, in the order events fire | an effect happens exactly when its gate was opened in time |
| Environment `openenv/environment.py` | kernel, world, sink list, deadline, scored flag | `reset`, `step`, `canonical_trajectory` | horizon against time budget, overshooting waits, steps after done, error replies | the reward is paid once, and grading later gives the same |
| HTTP server and client, rollout `openenv/` `scripts/pm_agent_llm.py` `trajectory/actionlog.py` | one environment; the loop's transcript; a run directory | `/reset` `/step` `/trajectory`; the agent loop; `write_run` | timeouts with the step taken anyway, restarts, several tool calls in one answer | each rollout ends, a written run is graded and complete |
| Command line `cli/` and run store `trajectory/` | `trajectory.jsonl`, `snapshots/`, `session.json`, `score.json` | load, step, advance, resume, checkpoint, run-eval, traj replay | one process per command, log appended during it and session written after it; kills and error exits in between | the chain of processes keeps one clock, counter and queue; a resume rebuilds the world; a score stands |
| Scenario resolution `engine/sample.py` `bind.py` `assemble.py` `project.py` `gate.py` `scenario/loader.py` | none: a template, a seed's draws, the organisation | sample, bind, assemble, project_eval, check_coherence | rules relate only some of the slots, a conditional slot leaves a stand-in behind, world and grader are built apart, a rule may never be met | the cast can be brought to life; what is called coherent can be won; the call ends |
| Scenario engine `engine/` | content files, manifest, permissions, set manifest, verdict cache | generate, validate, freeze, build_set | files written one by one, unlock-stamp-lock, kills, a template edited meanwhile, memoised verdicts | a set is the first valid seeds; what is frozen stays |
| Evaluator `eval/` | none: reads the log, appends score records | `project`, predicates, `score` | cut by sim-time, a baseline at the opening minute, repeated scoring over its own records | the score is what the moves earn |
| LLM cassette `llm/client.py` `llm/cache.py` | append-only file, in-memory map | hit, miss, record | several recorders, kills between append and answer | one request, one answer, and it is on disk |
| LLM prompts `llm/parser.py` `extractor.py` `schemas.py` | none | classify, render, extract | – | not modelled |
| JSON-RPC server and its clients `api/app.py` `api/rpc.py` `cli/runtime.py` | one kernel and world in one process; a client between two requests | the verbs, `load_scenario`, `load_bootstrap`, `snapshot`, `restore`, `now`; `advance --to` as two requests | a scenario is loaded onto a kernel that keeps its clock, counter and queue; other clients between `now` and `wait`; calls that fail after they have written | the scenario loaded last plays out once and in order, and only its cast answers; an advance lands where it was sent |
| Run index and inspector `trajectory/index.py` `cli/traj.py` `api/inspector/router.py` | a DuckDB table derived from the run directories; nothing | rebuild, refresh, ls, query, run-eval; the scan of all runs | files read one after the other beside the processes that write them, statements that commit one by one, kills, one process per database file | a row is never ahead of itself; what is answered is whole |
| Random-rollout and determinism scripts, data | – | – | – | not modelled |

How they meet: everything that changes the world is an event of the kernel. The
Tool API schedules the agent's verbs at the current time and drains what falls
due; the persona engine and the loader are *handlers* called from inside
`Kernel.apply`; sinks are told of each applied event and its deltas. There are
two such sinks, the environment's list and the run store's file, and everything
downstream (evaluator, replay, projection, index, inspector) reads what they were
told.
So the interesting interleavings are those of the agent's calls with the turns
of the kernel's loop, of the loop with the writes to the run directory, and of
client, server and process lifetimes around them.

## Modules

| module | models | composed of |
|---|---|---|
| `Agenda` | what a caller may rely on of a simulation agenda: an abstract specification | – |
| `Kernel` | `kernel.py`, `events.py`, `clock.py` | implements `Agenda` |
| `KernelProofs` | theorems about `Kernel` | extends `Kernel`, `TLAPS` |
| `Episode` | one environment episode: world, guard, Tool API, personas, loader, environment, projection | instantiates `Kernel`, steps it by its own actions |
| `CliSession` | a run directory and the chain of processes over it | instantiates `Kernel` |
| `Evaluator` | path reader, predicates, score over the log | – |
| `Seeding` | the scenario engine's directory tree | – |
| `Resolve` | sampling, binding, assembly, grader and coherence check | – |
| `Cassette` | recording and replaying LLM clients | – |
| `Rollout` | agent loop, HTTP client and server with its thread pool, run written | – |
| `RpcServer` | the JSON-RPC server, its kernel across loads, and the http clients of the CLI | – |
| `Ranking` | sorting a set by an order, as `sorted()` and an emptied heap do; used by `CliSession` and `RpcServer` | – |
| `RunIndex` | run directories, the index and its users, the inspector's scan | – |
| `CliSessionProofs` | theorems about `CliSession`, and about `FlattenSeq` and sorting by rank | extends `CliSession`, `TLAPS` and the theorem libraries, instantiates `KernelProofs` |
| `RpcServerProofs` | theorems about `RpcServer`, and about sorting by rank | extends `RpcServer`, `TLAPS`, `SequenceTheorems`, `FiniteSetTheorems` |
| `EpisodeProofs` | theorems about `Episode` | extends `Episode`, `TLAPS`, instantiates `KernelProofs` |
| `ScoreProofs` | theorems about `RunIndex` and `Evaluator` | extends both, `TLAPS`, `SequenceTheorems`, `FiniteSetTheorems` |
| `RolloutProofs` | theorems about `Rollout` | extends `Rollout`, `TLAPS`, `FiniteSetTheorems` |
| `EngineProofs` | theorems about `Seeding` and `Resolve` | extends both, `TLAPS`, `FiniteSetTheorems` |
| `CassetteProofs` | theorems about `Cassette` | extends `Cassette`, `TLAPS`, `WellFoundedInduction` |
| `MC*` | the small instances TLC checks, one for each module but `Agenda`, `Ranking` and the proofs | extend the module |

Definitions whose comment begins with *Slip* are plausible mistakes in the code
beside them (a dropped guard, an early write, a missing reset). None is part of
a specification: each is the mutated form under which a named property fails.

**Kernel.** `queue` is the heap as a set ordered by `Before`; `batch` is the list
`pop_due` returned, still being walked; `advancing` and `until` are the call's
frame; `log` is what the sinks were told; `lost` is a history of what a raising
call dropped. `PopDue`, `Apply` (or `Raise`), `Return` are the three statements
of `advance_until`. `Kinds` stands for all `apply` looks at: a handler, the
payload's follow-ups, and whether its writing can raise.

**Episode.** The world is a Boolean per slot, a slot being a field that the
rubric, a gate or the guard tells apart. A step is a call (`Observe`, `Reject`,
`Wait`, `Attend`, `Mutate`), turns of the kernel (`ApplyEvent`, `RefuseEvent`,
`Drain`), and a reply (`EndAdvance`, `EndMutate`) that may score. `EffectsOf` has
two outcomes for a persona's reply: the decision, and the bare acknowledgement
after a failed classification. `Unlocks` has all three conditions of a reveal: intent,
topic and gate. `RefuseEvent` stops at the first write that raises, whether the guard
(`Denied`) or the path (`Unwalkable`) refuses it, and leaves those before it in place, as
`WorldState.apply` does.

**CliSession.** Disk and memory are separate variables. `Load`, `OpenRun`,
`Resume`, `Step`, `Advance`, `WriteSnapshot`, `WriteSession` follow
`cli/backend.py` and `cli/runtime.py`; `ApplyEvent` appends to the log file at
once; `Abort` ends a command at any point, `CutSnapshot` and `CutSession` inside the
`write_text` of a file, which a resume that opens it cannot parse. `Load` may come
again for the same run id and then finds the old files. The world is the sequence of effects
written, so a lost, repeated or reordered delta is visible. `StateAt`, `Graded`
and `Pov` are the three readers of a run.

**Seeding.** A content file is identified with the draw it was written from (seed
and template version), so mixtures of two draws are visible. `Judged` is what
the pure stages and the two solvers make of a draw. Each file is a step, and so
are hashing, stamping and locking.

**Resolve.** One resolution, stage by stage. A template is a record of what the
stages read: value slots with their sampling rules, entity slots in bind order
with selector, rule and condition, tasks, the blocker and its overlays for each
type, scripted lines, what the predicates mention and weigh, and the coherence
checks. A token such as `$holder_mgr` is a pair. A seed is a stream of draws, so
each choice a stream can make is a step and the run covers every seed. An
exception of any stage is `stage = "raised"`. Its outcome is what `Seeding` calls
`Judged`, the solvers apart.

**Evaluator.** JSON values, the path reader with its filters and aliases, the
predicates, the weights and the score records. The log is written by the moves
that can touch a graded field, including a raw reschedule that only the reference
solver makes. `Earned` says what a history deserves, in terms of the moves. The names of
`Evaluator` and `Resolve` carry a prefix (`EvalSpec`, `ResolveSpec`) because a proof
module extends each together with another component.

**Cassette.** Each process has one client; recording is five steps (miss, ask,
answer, append, remember), with a kill between any two.

**Rollout.** Requests queue at the server (`inbox`). `/step` is handled to its end on
the event loop; a `/reset` replaces the parts of the environment in order, the
opening last (`HandleReset`, `EndReset`), and `/trajectory` is handed to a thread
that reads the opening and then the events (`readers`, `ReadOpening`,
`ReadEvents`) while the loop goes on. `GiveUp` is the client's timeout; the request
stays queued. `Restart` empties the server.

**RpcServer.** A request runs to its end on the server's event loop, so each is one
action; a client's `advance --to` is two (`AskNow`, then `SendWait` or
`SendWaitBack`). `WaitBack` is a direct wait of a negative duration. The world is the list of the events that wrote to it since it was
seeded, so that events missing, repeated, out of order or of a stranger are visible;
what each writes is `Episode`'s matter. `load` in an event is a history of the
scenario that scheduled it. `drift` is a history of what other clients added to the
clock during an advance.

**RunIndex.** A log is the number of its records and a score the number of records
it graded. Each file access and each SQL statement is a step of the process that
makes it (`pc`); `lock` is the process that has the database open, since DuckDB
refuses a second one. `Kill` is a kill or any exception, which ends a process between
any two steps: a manifest half written, a row without the index's fields, a
database that is taken. `since` is a history: the logs as they were when a reader
listed the directories.

## Runs

State counts are distinct states; each run takes from seconds to about two minutes
on two workers.

| run | instance | shows |
|---|---|---|
| `kernel` | 3 instants, 3 scheduled events, a chain with follow-ups now and later, a faulty kind, a handled kind; 168,545 states | all interleavings of schedule, advance, cascade and raise keep `ExactlyOnce`, `NoOvertaking`, `CausalOrder`; `Implementation` is refinement of `Agenda` |
| `episode` | 2 personas (one answers at once, one later), 2 bodies, 5 slots, 2 chained gated completions and a message at minute 0, writes refused by the floor, by the instance and by their path, horizons 2 and 4, budget none or 3, 4 steps; 497,084 states | the log is in due order and nothing is overdue between steps (`OnTime`), reveals and gated flips happen when earned and only then (`EffectsAreEarned`), replay gives the world, the reward is paid once and a regrade agrees (`RewardStands`), a step refused inside the kernel loses its own event and no other (`RefusalIsContained`), every step is answered |
| `cli` | a reply that falls between scripted events, a gated event, 4 commands, 2 aborts (between steps or inside a file), 2 loads; 1,082,966 states | undisturbed, clock, counter and queue of the processes are those of one kernel (`OneKernel`), and resume, point-of-view and evaluator agree under the conditions stated; with aborts and a second load nothing is forgotten, repeats are bounded by both and the session stays coherent (`AbortsOnlyRepeat`), and a score stands (`GradesStand`) |
| `evaluator` | 4 moves, clock 0..2, checkpoint at 1, 4 decision records, 2 messages, 1 email, 2 scores; 490,227 states | each score is what the history earns, first and second time, and score records get fresh numbers (`GradingStands`) |
| `seeding` | 4 seeds, a curated directory, 2 template versions, 3 calls, 1 kill; 66,329 states | published sets are the first valid seeds, unless the template was edited under a verdict kept from before, stamps match, tears are one per kill, members hold their seeds and what is frozen stays (`PublishedStands`) |
| `resolve` | the 3 archetypes over 10 people of `org.json` and 6 mis-authored templates, 3 redraws; 3,231 states | every seed casts different people who are on stage and what is coherent can be won (`InstanceIsPlayable`), each resolution ends |
| `cassette` | 3 clients, 2 requests, 2 outputs, 3 lines; 319,350 states | a client never changes its answer and recorders in turn agree (`OneAnswer`), answers are on disk, a replay is a function of the file as opened |
| `rollout` | 3 turns of up to 2 calls, 2 rollouts, 1 restart, budgets none, before and behind the horizon; 581,379 states | rollouts end, written runs are graded once, rows are the served steps and opening and events of one episode, one call per answer keeps the reward |
| `rpc` | 2 clients, 2 scenarios sharing one of 2 personas, 2 edits of which one writes before it is refused, waits of 1, 2 and -1, targets 1 and 3, 2 loads, 3 further requests; 221,859 states | the scenario loaded last plays out (`TimelinePlaysOut`), its world is written in order, nobody outside its cast answers in it and older calls write to it only what they had scheduled or promised (`LoadedWorldStands`), an advance lands where it was sent and a refused call moves no clock and fires nothing early (`ClockIsKept`) |
| `index` | a run of the CLI, one of a rollout, a lister, a grader, an inspector, 2 at a time, 2 records; 3,094,407 states | rows are unique and honest at any moment (`RowsAreHonest`), answers are whole (`AnswersAreWhole`) |
| `cli_resume`, `rollout_score` | as above, smaller | a stated expectation of the code that the code does not meet: [Findings](#findings) |

Why the bounds are enough. *kernel*: overtaking needs two events in a batch and a
third scheduled by the first; three calls to `schedule` with two follow-ups each
give up to nine events, and three instants separate before, at and after.
*episode*: the longest story a property tells is message, wait, write, wait past
the end, which is four steps; horizons and budgets lie before, at and after each
other, and waits overshoot both. *cli*: a resume can go wrong after a command whose
records are out of order, needs a second command to see it and a third to act on
it; two aborts let one fall on the consequences of the other, and a second load on
both. *evaluator*: the
predicates read at most two decisions, one message and one date change apart;
four moves put two of them on each side of the checkpoint. *seeding*: a build of
two out of four seeds meets a reject, a reuse and a new directory; a third call
sees what a killed one left. *resolve*: nothing is bounded but the
number of redraws (3 for the code's 64), the people (those of each role and
relation the selectors tell apart) and the values of the slots that only feed
prose. *cassette*: two clients can disagree, a third
replays what they wrote. *rollout*: a second rollout meets the requests a first
one gave up on. *rpc*: one load onto the leftovers of another, with each client
between its two requests once; waits and delays are chosen so that an answer can be
pending when the scenario without its persona is loaded, and targets lie before and
behind the clock. *index*: every statement of one process can fall between any two
of another; a third process finds the database taken, as a second does, and a second
run only lengthens the loops, which the proofs cover. Longer runs only repeat these patterns; TLC covers the instances
exhaustively, and the proofs remove the bounds from safety.

Deadlock is checked for `kernel` and `index`. In the others the system may really stop:
the agent's steps, the commands, calls, clients or rollouts allowed by the bound
are used up.

Symmetry is used in `cassette` only (clients, requests and outputs are
interchangeable), a run with no temporal property.

## Fairness

* `Episode!FairSpec`: weak fairness of the serving steps together. A dispatched
  call runs to its reply; the agent is under no obligation to act. That a drain
  ends is *not* assumed: it follows, since replies carry no follow-ups of their
  own, and `StepReturns` fails for the mutant that waits for the whole queue.
* `Rollout!Spec`: weak fairness of the client's loop and of its timeout. None of
  the server, which may hang or vanish: `RolloutEnds` holds even so, because each
  request has a timeout and the turns are bounded.
* `Resolve!ResolveSpec`: weak fairness of the call, which nothing interrupts.
  `ResolutionEnds` needs the cap on redraws: without the count a rule that cannot
  be met keeps it drawing.
* The other modules state safety only: their processes may stop at any step, and
  nothing in the code makes an agent, a user or a client go on.

## Proofs

`KernelProofs` proves, for every set of kinds, every handler table and follow-up
list, every set of instants and every bound:

* `TypeCorrect`: `Spec => []TypeOK`.
* `InductiveInvariant`: `Spec => []IInv`, from which `ExactlyOnceHolds`,
  `NoOvertakingHolds`, `CausalOrderHolds`, `ClockCoversLogHolds`.
* `KernelImplementsAgenda`: `Spec => A!Spec`.

Assumptions: `KindsAssumption` (handled and faulty kinds are kinds; follow-ups are
finite lists with natural delays), `InstantsAssumption` (callers name natural
times) and `MaxSeqAssumption`. The code accepts a negative delay or time in an
event's payload; none of its callers gives one.

Why the invariant has to be stronger. `NoOvertaking` speaks of two logged events.
When the later one is being logged, it must already be known that no pending
event with a smaller number is due as early: that is the first part of
`PendingOrder` (logged against pending). It is not inductive either, since a
batch is popped as a whole and follow-ups arrive behind it; the second part orders
the batch against what stayed in the queue, and holds because a later pop cannot
happen while a batch exists (`BatchInCall`), and because what an event schedules
gets a greater number than all before it. `ClockCoversLog` is about quiet states;
`ClockOrTarget` carries it through a call: what is logged is covered by the clock
or by the running call's target, unless a call has raised. `ExactlyOnce` is needed
throughout, to know that a number names one event. Each action has a lemma, each
lemma a step per conjunct. The refinement maps `queue \cup batch` to the agenda's
`pending` and erases kinds: a pop and a clock move stutter, a turn of the loop is
`Fire`, and a raise is `Drop`. `MayFire` is `PendingOrder` together with
`IsNext`.

`ScoreProofs` proves, of `RunIndex`, for every number of runs, processes and records:

* `TypeCorrect`: `Spec => []TypeOK`.
* `RowsHonest`: `Spec => []RowsAreHonest`.
* `AnswersWhole`: `Spec => []AnswersAreWhole`.

Assumption: `IndexAssumption` (the two sorts of directories are disjoint, and so are
the three sorts of processes; no process is `NoOne`).

The argument. Logs only grow (`LogsGrow`), so a score never grades more than its log
has (`ScoresAreBacked`), and whatever a process holds in its hand stays below the log
while others write (`WorkInHand`); since `_derive_row` reads the score before the
records, the row it inserts is honest. That it is the only row of its run rests on
`OneWriter`: a process between `Open` and its end has the database to itself, so what
`Delete` removed is still gone at `Insert`, and what `Clear` emptied is filled by one
process only. `ListingSoFar` and `ScanSoFar` say of a reader half way that what it has
done is the listing less what is left to do, with no record older than the listing
missing; at `todo = {}` that is the property. The scan may leave out a directory
whose manifest does not parse and which has no log: then it had none when it was
listed. `GradeSoFar` carries the score of a run-eval from its file to its row. `Roles`
keeps each kind of process to its own phases. All of it is inductive only
together (`IInv`); each part has its own lemma, and the steps of one process leave
the others' state alone (`OthersStandStill`).

Of `Evaluator` it proves, for any argument records of decisions, messages and emails,
any horizon and clock, any number of moves and any number of scores, both invariants of
the run `evaluator`:

* `EvalTypeCorrect`: `EvalSpec => []EvalTypeOK`, with it that no score exceeds 1000.
* `ScoresStand`: `EvalSpec => []GradingStands`.

Assumptions: `ArgsAssumption` (decisions and messages have the fields of their verb in
`data/actions.json`; ids are scalars or `None`, references a list or `None`) and
`BoundsAssumption` (the bounds are natural, and the clock may reach the horizon).

The argument. The score is computed on a JSON tree, by path, after a replay in order of
time and number; what it must be is said of the moves. The invariant about the log
(`LogInv`) is that every event is one the moves write, with its own deltas and a number
of its own, and that moves are numbered in the order of their minutes. Numbers being
distinct, the replay's order is total and every set of events has a last one (`Latest`,
by minimal counterexample among subsets), so the replay is well defined
(`ReplayExists`). `Replayed(S, w)` says what the world `w` left by the events `S` is: a
tree of the shape `Built` whose date is that of the last reschedule in `S`, whose
blocker has surfaced if a reply is in `S`, and whose lists hold the arguments of the
messages and decisions in `S`, the last decision about the project with none about it
after. Each kind of event preserves that (`ReplayStep`, over `DateAfter`,
`SurfacedAfter`, `MessagesAfter`, `DecisionsAfter`), so it holds of every projection
(`ProjectIs`). From it each reading of the rubric follows (`GoNoGosAre`, `ToldIs`,
`GradedIs`, `CommsIs`), and the sum is what was earned (`Grading`). The state invariant is
then short. Until the first score, the numbers given are below the next one and those of
pending replies are free (`OpenInv`), so the log stays well ordered whichever reply falls due.
The first score ends the episode; what a further one reads is the same log with records
of the score in it, which are of no kind that earns (`EarnedStands`) and whose numbers
are above all before them (`NextSeqIs`), which is `RecordsAreFresh`.

`CassetteProofs` proves, for any clients, requests and outputs, and files of any length:

* `TypeCorrect`: `Spec => []TypeOK`, with it that the model is never asked for a
  request the client remembers.
* `OneAnswerHolds`: `Spec => []OneAnswer`.
* `AnswersOnDisk`: `Spec => []AnswersAreOnDisk`.

The only assumption is `BoundAssumption`, which no step uses. The argument. What a
client answered it still remembers (`Remembered`): the one step that changes what it
remembers, `Remember`, adds a request it did not have. What it remembers is on disk
(`OnDisk`), because a record is remembered after it is appended, and because `Reading`
shows that what `read_cassette` returns are lines of the file; that lemma needs the
last line of a request to exist, which is the least-number principle (`LastLine`). A
replay never leaves `idle`, so it remembers what it opened (`Replays`). For recorders,
`Agreement` says that as long as they have not overlapped the one there is knows
every request of the file except, for one step, the one it has just written: hence it
never writes a request a second time, and the file gives each request one output. A
recorder killed between the two leaves a line its successor reads.

`EngineProofs` proves, of `Seeding`, for any template, and any number of seeds, directories, content
files, edits, calls and kills, every property the run `seeding` checks:

* `TypeCorrect`: `Spec => []TypeOK`.
* `FirstValid`: `Spec => []SetIsFirstValid`.
* `InstancesWhole`: `Spec => []InstancesAreWhole`.
* `PublishedHolds`: `Spec => PublishedStands`.

Assumptions: `SearchAssumption` (the seeds a search may reach are seeds),
`DirsAssumption` (directories are numbered, finitely many, and a curated one bears no
seed's number; there is a content file) and `TemplateAssumption` (what the pure stages
say of a version and a seed is four booleans).

The argument. A search that is to publish the right seeds must know, seed by seed, that
its members are the valid ones gone by and its rejections the others (`Picked`), which
takes that the memo of verdicts names the version it judged (`CacheIsHonest`). That
each member is backed by a directory of its own (`Found`) needs two facts about
directories the search did not write: one found at the start still holds its seed, and
one it may come to write bears no manifest (`Search`). Both rest on `Named`: a
directory with a seed's number holds that seed, since nobody generates another into it.
For the same reason a build never writes over a locked directory, so `StampIsContent`
survives `WriteFile`; the stages `stamp` and `lock` know what they hashed (`Phases`).
`Unkilled` says what only kills can spoil: a frozen directory is locked or in the hands
of the call that stamps it, so stamping it again changes nothing. A directory torn
after a step was torn before it, unless the step is a kill of the call writing to it
(`TornStep`), so tears are counted by kills.

Of `Resolve` it proves, for any organisation, any finite templates, any draw and any
number of redraws:

* `ResolveTypeCorrect`: `ResolveSpec => []ResolveTypeOK`.
* `Playable`: `ResolveSpec => [](Authored(template) => InstanceIsPlayable)`.

Nothing in the code asks an archetype to be written so that its instances can be played,
and one can be written that is not. `Authored` says what it takes, as a lint a new
archetype could be held to: parts that draw from common candidates are told to differ;
whoever has a line, an overlay, a task or a secret is always cast and activated; the
grader mentions only what is always there; a hidden critical fact is told by those who
know it, and the checks ask that one person does; the target is checked. `MCResolve`
assumes it of every template of the run, the three archetypes of `data/templates/`
among them, and TLC evaluates that assumption; so the hypothesis is met by the ones the
repository ships, and `InstanceIsPlayable` is checked of them without it.

Assumptions: `ResolveAssumption` (the agent is in the organisation, "nobody" is not,
people's ids are dotted) and `ArchetypeAssumption` (a template has finitely many samples
and slots, at least one of each; slots have names and aliases of their own; the pointer
is a person; a secret is known to finitely many).

The argument. The invariant follows the stages: each slot gone by was bound to one of its
own candidates, or skipped if it is conditional (`BoundInv`); two that are bound differ
(`ApartInv`, where `PartsApart` is used); from `project` on the facts are what the operators
of assembly make of the bindings (`FactsInv`), nothing mentioned is missing past that
stage (`GateInv`), and a verdict is that of the checks (`VerdictInv`). Coherence then
follows from the bindings by reading the lint clause by clause (`CastReady`, `Winnable`).

`RolloutProofs` proves, for any waits, deadlines, budgets, answers of the model, and any
number of rollouts and restarts, the safety properties of the run `rollout`:

* `TypeCorrect`: `Spec => []TypeOK`.
* `RunsGraded`: `Spec => []RunsAreGraded`.
* `RowsComplete`: `Spec => []RowsAreTheSteps`.

Assumption: `RolloutAssumption` (times and budgets are natural, the horizon is not 0).

The argument. A running rollout has at most one request in flight, the last in the line
or in one thread, and only while its client waits (`Asked`). Requests are served in
order, so when its reset is answered everything older has been served: from there on it
is `Alone` with the server, which is in its episode or has been restarted. What an older
thread still has to deliver finds no one waiting (`ReplyTo`). `Seen` can then relate the
two sides step by step: the rows, with the one whose answer is yet to be read (`Trace`),
are as many as the server counts, and one of them is paid if and only if the server has
paid (`Counted`). `PaidAtTheEnd` says the server pays when its clock passes an end and
not again, so that the row of a step is done exactly if one is paid by then (`Extend`);
the loop stops in the turn that saw it (`Turns`) or the forced wait crosses the end. A
reset that is half way is still the request at the head (`Resets`), which keeps a thread
of the running rollout from reading across it (`Fetched`).

`EpisodeProofs` proves, for any cast, messages, writes, script, waits, meetings, horizon,
budget and number of steps, every safety property the run `episode` checks:

* `TypeCorrect`: `Spec => []TypeOK`.
* `OnTimeHolds`: `Spec => []OnTime`.
* `ReplayHolds`: `Spec => []ReplayAgrees`.
* `EffectsEarned`: `Spec => []EffectsAreEarned`.
* `RewardHolds`: `Spec => []RewardStands`.
* `RefusalContained`: `Spec => []RefusalIsContained`.

Assumptions: `EpisodeAssumption` (times, horizons and waits are numbers, a time budget
is positive: a budget of nothing is over at the first reply, an error too, which is done
and scores nothing), `CastAssumption` (delays are durations, reveals name fields),
`ScriptAssumption` (the script has the types of event the loader knows, and an effect
flips something, nothing a persona is there to reveal) and `WriteAssumption` (a write of
the agent to what personas reveal is refused; no verb of `data/actions.json` has a path
under `blockers`, so none is made. The floor's `blockers.*.surfaced` is not what this
rests on: its `*` stands for one segment, and `blocker.psp_cert` has a dot).

The argument. `StepShape` reads each step as one operation of the kernel, so every
episode is a run of the kernel (lemma `RunsKernel`); `KernelProofs`, instantiated under
the same substitution, then says of the episode that numbers are unique and that nothing is overtaken at its own time. What the
kernel alone cannot give is that times never go down in the log; `Timing` does, phase by
phase: at rest everything pending is due at the clock or later, and what an event caused
strictly later (`AtRest`); a wait has popped what lies between the clock and its target
and left what lies after both (`Moving`); in a drain the clock stands, the one event of
the agent is due at it, and a write that may be refused is never in a batch with a
message, so that a refusal leaves nothing due behind (`Mutating`). With the order of the
log, the last writer of a slot by `(sim_time, seq)` is the last one recorded, and
`WorldIsLastWrite` carries that its value is the one the world shows, unless the slot is
torn: hence the replay, and hence that a gate read in the world is a gate made by
recorded writes. A pending reply has its message in the log (`RepliesAnswer`), and only
replies write what personas reveal. For the reward, `Paid` adds that the clock is never
past an end of the episode unpaid, so that no error reply is the first to say done; and
as events apply at or after the clock, a completed episode's projection at the horizon
can only change at the horizon. For a refusal, the kernel alone would drop a whole batch.
`Contained` says why nothing else is in it: an update is the last of its batch and of its
minute (`UpdateIsLast`), because it is numbered last and the call drains at once; hence
what raises loses itself alone (`RefusedAlone`), and what is in force (queued, in the
batch or logged) stays so (`StaysInForce`). The script is in force once loaded
(`ScriptIssued`), and so is the answer to a message from the moment it is logged
(`MessageAnswered`).

`CliSessionProofs` proves, for any script, verbs, advances, horizon, and any number of
commands, aborts and loads:

* `ChainIsOneKernel`: `Spec => OneKernel`.
* `AbortsRepeatOnly`: `Spec => []AbortsOnlyRepeat`.
* `TypeCorrect`: `Spec => []TypeOK`.
* `ResumeRebuilds`: `Spec => []ResumeIsExact`.
* `GradesHold`: `Spec => []GradesStand`.

Assumptions: `KindsAssumption` (only verbs carry follow-ups, and no follow-up is a verb)
and `ScriptAssumption` (times and the horizon are numbers, the script holds no verb).

The argument. For the first, `Chain` says that in the gap between two commands of an
unbroken chain the session file holds what memory held, and `CallInv` that no command
ends, but by an abort, inside the kernel's loop. For the second, each step goes one of
five ways as the log, the session and the pending events see it (`Shapes`): a load empties
the events, a resume takes them from the session, a schedule adds one, an application
moves one to the log and adds fresh ones, and all else leaves them. The invariant then
speaks of memory and of the file at once: `DistinctInv` and `AccountedInv` of what either
holds; `RepeatInv`, that a number which may still be logged, by the running command or by
the next one, has one record less than there were loads and aborts, so that each record
is paid for by the abort or the load that made the number open again; `OnTimeInv`, that a
verb fires at the minute it was scheduled at, so that its follow-up is not behind the
clock the session keeps.

The other three speak of what is read back from files, and share one invariant,
`ReadBackInv`. It adds to the two above:

* `DiskInv`: every file holds effects, deltas and log have the same length, and the
  opening snapshot is there before the first session is.
* `KeptInv`: while undisturbed, the counter is past what is logged, a snapshot bears
  the number of the opening or of a record, and a command that has ended has the world
  of its last snapshot or the one a replay gives. That is `ResumeIsExact` but for one
  fact: if no record has a number above the last, nothing is left to replay on top of a
  snapshot under the last number, and the replay is that snapshot (`KeptClaim`). Where
  numbers are out of order the second alternative is all there is, and finding 1 is what
  it allows.
* `OrderInv`: an undisturbed log is in the order of time and nothing pending is due
  before what is logged, so that in a log which is also in the order of numbers both
  readers cut off the same suffix.
* `WorldInv`: then the world is all deltas put together and a snapshot is those up to
  its number. With it, `GraderClaim` shows that the two ways to a moment, from the
  nearest snapshot by number and from the opening by time, put the same deltas together.
* `ScoreInv`: after a score past the horizon every clock that can still be resumed is
  past it, so that what is logged later is not graded (`GradedAppended`) and no snapshot
  taken later is the opening one.

The lemmas beneath are about `FlattenSeq` and sorting: flattening a sequence is the sum
of a recursive function (`Sums`), which is unique, splits at any place, grows by what is
appended and ignores empty entries; and `Ranked`, read off a log whose records are in
order, is the log itself (`GradedOrdered`).

`RpcServerProofs` proves, for any clients, scenarios, edits, delays, waits, targets, and
any number of loads and calls, every property the run `rpc` checks:

* `TypeCorrect`: `Spec => []TypeOK`.
* `TimelinePlays`: `Spec => []TimelinePlaysOut`.
* `WorldKept`: `Spec => []LoadedWorldStands`.
* `ClockKept`: `Spec => ClockIsKept`.

Assumption: `RpcAssumption` (times, waits and targets are numbers; a persona takes at
least a minute to answer, as every pack under `data/` does: the fastest takes thirty;
each scenario has a script, a cast and a guard). A script may hold any minutes in any order.

The argument. A request that fires events takes the due ones off the queue and writes
them in order; `Fires` is that step, whatever request it was part of. `InOrderSorts` says
that sorting by rank is right: on distinct events `Before` is a strict total order, the
number of members before one is injective on a finite set, hence onto `1 .. n`, hence the
list has each event once and the earlier first. `WorldInv` is then what makes appending
such a batch keep the order: all that is in the world comes before all that is pending,
since a request takes everything up to a minute and what it schedules is numbered above
and due no earlier. It is about loaded worlds only: a restore puts back a world that says
nothing about the queue (`replaced`). `PlayInv` says for each entry of the script that it
is one event, in the queue or in one place of the world and not both; `CastInv` that an
event is behind the clock only if the load was, which is what the property says of
waiting entries. For the action property, `AdvanceInv` carries that the clock is what the
advance under way has seen and what others have added; a refused call is `Fires` up to a
minute at or before the clock.

The invariants of this section were checked with TLC on the instances of the runs before
they were proved.

Induction is available only as the least-number principle, on sets of numbers (`NatSet`
in `CliSessionProofs`, `LastLine` in `CassetteProofs`), since the general theorems take an
operator: enough for facts about all prefixes of a sequence, such as those about
`FlattenSeq`. Two definitions were written so that they can be reasoned about: `Ranked`
sorts by rank where `SetToSortSeq` sorts by a definition the prover lacks, and `Saved`
writes a snapshot without `@@`. Both are the same functions.

Model-checked only: liveness (`StepReturns`, `RolloutEnds`, `ResolutionEnds`), which is
beyond this prover. Every invariant and every action property of a passing run is stated
by a theorem.

## Findings

Each is a sentence in the repository which a run refutes.

1. `cli_resume` / `ResumeRestoresWorld` (`cli/backend.py:137`). A snapshot is named by
   the *last recorded* number and a resume takes snapshot and counter as if
   numbers were in order. A persona's reply, scheduled late and due early, breaks
   it: deltas are applied twice or dropped. `ResumeIsExact` states when it is right.
2. `rollout_score` / `ScoreIsWritten` (`scripts/pm_agent_llm.py:523`). A further tool
   call in the answer that crossed the horizon replaces the only reply with the
   reward; the run is written with none, and without `score.json`.

## Observations

Met while reading, not refuted by a run of their own:

* `bind.py` says that `Unsatisfiable` triggers a resample; `build_set` does not catch
  it, so one seed without candidates ends the whole build (action
  `Seeding!Unsatisfiable`).
* No verb writes a launch date; the reference solver moves it with a raw system
  event. The validity gate certifies a score of 1000 thousandths where, by
  `Evaluator!Earned`, an agent's moves reach 955.
* A mutate whose second delta a scenario's own denied path refuses has already
  written the first (`state/store.py:50`; `Episode!RefuseEvent` and its `torn` slots).
  The sinks are told nothing, so the trajectory, "the canonical kernel event log the
  Evaluator scores and replay tools reconstruct from" (`environment.py:161`), does not
  explain the world; `ReplayAgrees` is therefore stated for the other slots. The dry
  run in `api/rpc.py` knows the general floor only, which is why such an event
  reaches the kernel.
* A resumed kernel has the persona handler and not the loader's
  (`cli/backend.py:142`; `armed` in `CliSession`): a gated completion that fires in a
  later command writes nothing although its gate holds. Nor has a resumed world the
  instance's denied paths.
* Loading a run id a second time keeps its old log and snapshots
  (`trajectory/store.py:91` makes the directory with `exist_ok`, the log is opened for
  appending): the first resume then replays the old log into the fresh world, and a
  score of the first load stays beside the new run.
* A kill inside the write of one snapshot stops every later command on the run id,
  since a resume parses all of them, and a second load does not remove the file
  unless it has the same number (`CutSnapshot`).
* `load_scenario` on a running JSON-RPC server keeps the clock, the counter and the
  queue. Entries before the clock fire together at the next call, and pending events
  of the scenario before write to the new world, scripted messages of people outside
  its cast included; `LoadedWorldStands` says what holds even so.
* `advance --to` behind the clock is a usage error of the embedded backend
  (`cli/runtime.py:94`). The http backend sends a negative duration: what was overdue
  by that minute is applied and the call then answers with an error
  (`RpcServer!SendWaitBack`). A direct `wait` with a negative duration does the same
  (`WaitBack`): no argument check looks at the sign.
* The guard's floor takes ids to be free of dots (`state/guard.py:9`), and the ids of
  the shipped people, tasks and hidden blockers are not: `blockers.*.surfaced` matches no
  path of a blocker that a persona reveals. What keeps agents
  from writing there is that no verb has such a path.
* A persona's fact can ask for an offer of help or for rapport
  (`npc/decision.py:39`), read from the arguments `help_offered` and `rapport` of the
  message. `send_message` has neither in `data/actions.json`, and unknown arguments are
  rejected, so no message of an agent can meet such a gate. `hidden-critical-blocker`
  draws `reveal.gate` among the three values, and no part of the template uses the draw:
  every instance asks directly.
* After an edit of a template in one process, `build_set` lists members by the verdicts
  of the template before (`engine/gate.py:50`); `SetIsFirstValid` excuses such sets
  (`stale`), `Seeding!Edit` followed by a build makes them.
* `traj ls` and `traj query` raise on any directory below `runs/` that a policy
  rollout wrote, whose manifest has no `run_id` and whose rows have no `actor`
  (`RunIndex!ReadLog`), although `rebuild` is documented as taking every run under
  `runs_dir`, and `scripts/pm_agent_llm.py:598` writes there by default.
* The inspector reads a run's records before its score, the index its score before
  its records: only the index can promise that a score is not ahead of the records
  shown with it.
* Any reader of `/trajectory` other than the rollout itself can get the opening of
  one episode with the events of another, if a `/reset` falls between the two reads
  (`ReadOpening`, `ReadEvents`). The rollout's own request comes behind its steps, and
  its rows are whole (`RowsAreTheSteps`).
* `sample._holds` passes a rule that names an entity slot as "deferred to bind", but
  `bind` evaluates the rules of entity slots only, so such a rule is never checked.
* `release-triage` does not pin its critical project: either of its two may be bound,
  and the instance is coherent with each. `delivery-slip` binds freely too; its
  coherence check rejects the wrong one.
* `project_eval` looks up slot ids and dotted bindings only. A grader that names a
  person who is not activated fails there, one that names an undotted id the
  world lacks does not.
* `traj replay` compares the state after the last record with the newest snapshot.
  On a healthy run the rebuild starts *from* that snapshot, so the check compares
  it with itself; what it does detect is a log left out of order.
* After an error inside a command, `cli/runtime.py` exits before the checkpoint
  though events were logged: the next command repeats them under the same
  numbers (`RepeatsAreAborts` bounds this).
* A checkpoint taken before any record rewrites `0.json` with the current clock;
  the second half of `GradesStand` therefore asks for `opened = 0`.
* `validate` judges a fresh draw from the recorded seed and never reads the
  instance's files. `freeze` asks no gate.
* `data/actions.json` describes effects of `send_email` and `book_meeting` (a reply, a
  meeting start) that no code produces.

## Abstractions, and what is not modelled

* **Worlds.** `Episode` keeps Boolean slots, `CliSession` a sequence of effects,
  `Evaluator` real JSON trees. Which paths cannot be written is the constant `Unwalkable`
  in `Episode`; `inc`, `link` and `unlink` deltas and scoped views are left out of the
  first two.
* **Replay.** `state_at` applies each record with its own actor as source
  (`trajectory/replay.py:64`), so that the floor could refuse a persona's reveal on replay
  and raise. `CliSession!StateAt` always applies: a reveal writes
  `blockers.<id>.surfaced`, which the floor's pattern does not match when the id is
  dotted, and the ids of all shipped blockers that a persona reveals are. With dot-free
  ids a resume that replays a reveal would raise.
* **Seeding.** Locking and unlocking a directory is one step, where `freeze` changes the
  mode of five files in a loop: a kill inside leaves some writable and some not. `generate`
  is called with a curated directory or the one `build_set` names by the seed, as the
  repository's callers do; a caller of the command line may name any other.
* **Rollout.** The kernel does not refuse a wait: an event that raises inside one would
  answer the closing wait with an error, which `pm_agent_llm.py:539` does not look at, and
  the run would be written ungraded. The shipped scenarios have no such event, since what
  raises is a write of the agent, and `Episode!RefusalIsContained` rests on its being
  drained in its own call.
* **Writes of one file.** A snapshot or a session can be cut inside its write in
  `CliSession`, a manifest is created empty and then filled in `RunIndex`, a line can be
  torn in `Cassette`; elsewhere the write of a file is atomic. Files of a run directory
  are separate steps in `CliSession`, `RunIndex` and `Seeding`; `Rollout` writes its run as
  one. An append to the log is atomic everywhere: a torn last line makes each reader
  raise (or, in the inspector, stop before it).
* **Concurrency.** Commands on one run id do not overlap in `CliSession` (the CLI has no
  lock and is meant to be used so); in `RunIndex` the writers of a run, its graders and
  readers do. One client drives an environment server, as documented, `/trajectory`
  being read by a thread beside it; the JSON-RPC server has several.
* **RpcServer.** A kernel call is one step: `Kernel` and `Episode` show what happens inside
  one. A snapshot a client restores is one the same client took. A load that fails
  (a missing file, a version mismatch) changes nothing and is left out.
* **RunIndex.** What a score or a row says beyond its number of records is left out, and
  so are the named queries, which only read.
* **LLM.** A classification is right or fails. Prompts, voices and the extractor
  are not modelled.
* **Scenario resolution.** `Resolve` leaves out prose, dates and derived values, which
  no guard of the stages reads; the substring search of `project_eval` for ids is
  membership; a persona is identified with its person. A token bound to nothing and an
  archetype with neither a block for the drawn type nor a `_default` raise `KeyError` in
  the code and are no inputs of the model (`ResolveAssumption`, `ArchetypeAssumption` and
  `MCResolve` give tokens of bound aliases). Of the coherence checks, those that read a
  `surfaced`, `resolved` or `done` field and those that name a denied path are left out: the
  first compare two literals of the template, the second one with the floor. `Seeding` keeps only the
  outcome, the constant `Judged`, of which the two solvers' runs are part.
* **Not modelled at all.** The random-rollout and determinism scripts: drivers in one
  process and in sequence, over the environment `Episode` models and the `write_run`
  that `Rollout` and `RunIndex` model. The inspector's other views (cohort, scenario,
  one run), which format what they read. Argument parsing and rendering, prompt
  schemas.

## Plan

The order of work was: `Agenda` and `Kernel` with their proofs, since all else
runs on them; `Episode`, which says what the kernel is for; `CliSession`, where
crashes live; then the parts at the edges, `Seeding`, `Evaluator`, `Cassette`,
`Rollout`, and `Resolve`, which opens what `Seeding` takes as given; then the parts that
several processes share, `RpcServer` and `RunIndex`; then the proofs of `RunIndex`,
`Cassette`, `Seeding`, `Rollout`, `Episode`, `CliSession`, `RpcServer`, `Resolve` and
`Evaluator`. What is left, most valuable first:

1. The grading theorem for rubrics other than that of checkout-not-ready.
2. Delta operations other than set and append, with the evaluator's projection
   against the store's replay.
3. Overlapping commands on one run directory, if a lock is ever added.
