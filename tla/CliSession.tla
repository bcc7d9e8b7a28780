----------------------------- MODULE CliSession -----------------------------
(***************************************************************************)
(* The embedded backend of the operator CLI: every command is a process    *)
(* that rebuilds the episode from runs/<run_id>/, runs one Tool API call   *)
(* and writes the episode back (cli/backend.py, cli/runtime.py,            *)
(* trajectory/store.py, trajectory/replay.py).                             *)
(*                                                                         *)
(* On disk: the log, to which the sink appends during the call; the world  *)
(* snapshots, one file per seq; the session file (clock, seq, pending      *)
(* events).  In memory: a kernel, a world and a store, all lost when the   *)
(* command ends.  The kernel's log variable is the file, it outlives the   *)
(* process; the others are reread.                                         *)
(*                                                                         *)
(* The world is what the deltas append to it: the sequence of the events   *)
(* whose deltas were written, as the messages partition is.                *)
(***************************************************************************)
EXTENDS Naturals, Sequences, SequencesExt, FiniteSets, FiniteSetsExt, Functions, Ranking

CONSTANTS Kinds, Handled, FollowUps,  \* as in Kernel; no event of these raises
          Gates,       \* Gates[k]: the kind whose effect opens gated kind k
          Timeline,    \* the scripted events in file order
          Calls,       \* the kinds of the operator's mutating verbs
          Durations,   \* how far an advance goes
          Times,       \* sim-times an episode reaches
          Horizon,     \* when the rubric's last checkpoint grades
          MaxSeq,      \* bound: events are scheduled only below this seq
          MaxCommands, \* bound: commands that reach the kernel
          MaxAborts,   \* bound: commands that end early
          MaxLoads     \* bound: loads of the same run id

(* Only the operator's verbs carry follow-ups (rpc.py), and what they      *)
(* carry is a reply; the loader's events have none.                        *)
ASSUME KindsAssumption ==
  /\ Handled \subseteq Kinds /\ Calls \subseteq Kinds
  /\ FollowUps \in [Kinds -> Seq([delay : Nat, kind : Kinds])]
  /\ \A k \in Kinds : \A i \in DOMAIN FollowUps[k] : FollowUps[k][i].kind \notin Calls
  /\ \A k \in Kinds \ (Calls \cup Handled) : FollowUps[k] = << >>
ASSUME ScriptAssumption ==
  /\ Times \subseteq Nat /\ 0 \in Times /\ Durations \subseteq Nat
  /\ Timeline \in Seq([at : Times, kind : Kinds \ Calls])
  /\ MaxSeq \in Nat /\ Horizon \in Nat

VARIABLES now, seq, queue, advancing, until, batch, log, lost  \* the kernel
VARIABLES world,    \* WorldState: the effects written, in order
          armed,    \* this kernel has a handler for gated events
          lastSeq,  \* TrajectoryStore._last_seq
          deltas,   \* the log file's delta fields, in step with log
          snaps,    \* snapshots/<seq>.json, its state: a partial function of seq
          cut,      \* the snapshots whose file is truncated
          opened,   \* the sim_time in snapshots/0.json
          score,    \* score.json: what was graded, or NoScore
          sess,     \* session.json, or NoSession
          phase,    \* what the running command is about to do
          commands, aborts, loads  \* bounded counts

kernelVars == <<now, seq, queue, advancing, until, batch, log, lost>>
memoryVars == <<now, seq, queue, advancing, until, batch, world, armed, lastSeq>>
fileVars == <<snaps, cut, opened>>
diskVars == <<log, deltas, fileVars, score, sess>>
countVars == <<commands, aborts, loads>>
vars == <<kernelVars, world, armed, lastSeq, deltas, fileVars, score, sess, phase, countVars>>

K == INSTANCE Kernel WITH Faulty <- {}, Instants <- Times

NoScore == [graded |-> << >>, past |-> FALSE, load |-> 0]
NoSession == [now |-> 0, seq |-> 0, pending |-> {}, readable |-> FALSE]

-----------------------------------------------------------------------------
(* Reading a run back (replay.py).                                         *)

(* Slip: the snapshot's own record is applied again.                       *)
StateAtInclusive(s) ==
  LET base == Max({b \in DOMAIN snaps : b <= s})
      From(i) == base <= log[i].seq /\ log[i].seq <= s
  IN snaps[base] \o
       FlattenSeq([i \in DOMAIN log |-> IF From(i) THEN deltas[i] ELSE << >>])

(* state_at(s): the snapshot with the greatest seq at or below s, then, in *)
(* file order, the deltas of the records whose seq lies between the two.   *)
(* Each is applied as its actor's, and passes the floor as it did live: a  *)
(* reveal is the exception, whose path the floor does not match only       *)
(* because the blockers' ids are dotted.                                   *)
StateAt(s) ==
  LET below == {b \in DOMAIN snaps : b <= s}
      base  == Max(below)
      after == {i \in DOMAIN log : base < log[i].seq /\ log[i].seq <= s}
      tail  == FlattenSeq([i \in DOMAIN log |-> IF i \in after THEN deltas[i] ELSE << >>])
  IN snaps[base] \o tail

(* eval/project.py over the opening snapshot and the records: the state    *)
(* graded at sim-time at.  A snapshot later than that is no base.          *)
Graded(at) ==
  LET Entry(i) == [time |-> log[i].time, seq |-> log[i].seq, line |-> i, deltas |-> deltas[i]]
      Earlier(x, y) == \/ x.time < y.time
                       \/ x.time = y.time /\ x.seq < y.seq
                       \/ x.time = y.time /\ x.seq = y.seq /\ x.line < y.line
      graded == Ranked({Entry(i) : i \in {j \in DOMAIN log : log[j].time <= at}}, Earlier)
  IN [based |-> opened <= at, effects |-> FlattenSeq([n \in DOMAIN graded |-> graded[n].deltas])]

(* Slip: the view stops short of its own minute.                           *)
PovBefore(at) ==
  StateAt(Max({0} \cup {log[i].seq : i \in {j \in DOMAIN log : log[j].time < at}}))

(* trajectory/project.py: the state after the greatest seq seen by at.     *)
Pov(at) ==
  StateAt(Max({0} \cup {log[i].seq : i \in {j \in DOMAIN log : log[j].time <= at}}))

(* The seq a store reads off the last line of a log that is there.         *)
LastLogged == IF log = << >> THEN 0 ELSE Last(log).seq

-----------------------------------------------------------------------------
Init ==
  /\ K!Init
  /\ world = << >>
  /\ armed = FALSE
  /\ lastSeq = 0
  /\ deltas = << >>
  /\ snaps = << >> /\ cut = {}
  /\ opened = 0
  /\ score = NoScore
  /\ sess = NoSession
  /\ phase = "idle"
  /\ commands = 0 /\ aborts = 0 /\ loads = 0

(* start_run: a fresh world and kernel for the run id, whatever the run    *)
(* directory already holds.                                                *)
Load ==
  /\ phase = "idle"
  /\ loads < MaxLoads
  /\ loads' = loads + 1
  /\ now' = 0 /\ seq' = 0 /\ queue' = {} /\ batch' = {} /\ advancing' = FALSE
  /\ world' = << >>
  /\ armed' = TRUE
  /\ lastSeq' = 0
  /\ phase' = "loading"
  /\ UNCHANGED <<until, lost, diskVars, commands, aborts>>

LoadScript ==
  /\ phase = "loading"
  /\ seq < Len(Timeline)
  /\ K!Schedule(Timeline[seq + 1].at, Timeline[seq + 1].kind)
  /\ UNCHANGED <<world, armed, lastSeq, deltas, fileVars, score, sess, phase, countVars>>

(* The snapshot files once the world is saved under s.                     *)
Saved(s) == [b \in DOMAIN snaps \cup {s} |-> IF b = s THEN world ELSE snaps[b]]

(* open_run: the manifest and the opening snapshot.  The log is left as    *)
(* it is, and so are the other snapshots.                                  *)
OpenRun ==
  /\ phase = "loading"
  /\ seq = Len(Timeline)
  /\ snaps' = Saved(0)
  /\ cut' = cut \ {0}
  /\ opened' = 0
  /\ phase' = "session"
  /\ UNCHANGED <<kernelVars, world, armed, lastSeq, deltas, score, sess, countVars>>

(* Slip: the clock restarts at the last record's sim-time.                *)
ResumeAtLastRecord ==
  /\ phase = "idle"
  /\ sess.readable /\ cut = {}
  /\ commands < MaxCommands
  /\ commands' = commands + 1
  /\ now' = IF log = << >> THEN 0 ELSE Last(log).time
  /\ seq' = sess.seq
  /\ queue' = sess.pending
  /\ advancing' = FALSE
  /\ batch' = {}
  /\ world' = StateAt(sess.seq)
  /\ armed' = FALSE
  /\ lastSeq' = LastLogged
  /\ phase' = "resumed"
  /\ UNCHANGED <<until, lost, diskVars, aborts, loads>>

(* resume_run: the world from the log at the session's seq, the clock, the *)
(* seq and the queue from the session; the persona engine is attached, the *)
(* loader's own handler is not.  Every snapshot is parsed, whichever is    *)
(* the base: one truncated file stops this and every later command.        *)
Resume ==
  /\ phase = "idle"
  /\ sess.readable /\ cut = {}
  /\ commands < MaxCommands
  /\ commands' = commands + 1
  /\ now' = sess.now
  /\ seq' = sess.seq
  /\ queue' = sess.pending
  /\ advancing' = FALSE
  /\ batch' = {}
  /\ world' = StateAt(sess.seq)
  /\ armed' = FALSE
  /\ lastSeq' = LastLogged
  /\ phase' = "resumed"
  /\ UNCHANGED <<until, lost, diskVars, aborts, loads>>

(* observe, a usage error, an error reply to a call that never reached the *)
(* kernel: the command ends and writes nothing.                            *)
Exit ==
  /\ phase = "resumed"
  /\ phase' = "idle"
  /\ UNCHANGED <<memoryVars, lost, diskVars, countVars>>

(* step with a mutating verb: schedule at now, drain what is due at now.   *)
Step(k) ==
  /\ phase = "resumed"
  /\ K!Schedule(now, k)
  /\ phase' = "draining"
  /\ UNCHANGED <<world, armed, lastSeq, deltas, fileVars, score, sess, countVars>>

Drain ==
  /\ phase = "draining"
  /\ K!Due(now) # {}
  /\ K!PopDue(now)
  /\ UNCHANGED <<world, armed, lastSeq, deltas, fileVars, score, sess, phase, countVars>>

Drained ==
  /\ phase = "draining"
  /\ ~advancing
  /\ K!Due(now) = {}
  /\ phase' = "snapshot"
  /\ UNCHANGED <<memoryVars, lost, diskVars, countVars>>

(* advance --by d, advance --to now + d, or step wait.                     *)
Advance(d) ==
  /\ phase = "resumed"
  /\ now + d \in Times
  /\ K!PopDue(now + d)
  /\ phase' = "advancing"
  /\ UNCHANGED <<world, armed, lastSeq, deltas, fileVars, score, sess, countVars>>

Return ==
  /\ phase \in {"draining", "advancing"}
  /\ K!Return
  /\ phase' = IF phase = "advancing" THEN "snapshot" ELSE phase
  /\ UNCHANGED <<world, armed, lastSeq, deltas, fileVars, score, sess, countVars>>

(* What an event writes: its payload's or its handler's deltas; a gated    *)
(* event has none of its own, its handler writes them if the gate holds.   *)
Opened(k) == \E i \in DOMAIN world : world[i].kind = Gates[k]

WrittenBy(e) ==
  IF e.kind \in DOMAIN Gates /\ ~(armed /\ Opened(e.kind))
    THEN << >>
    ELSE << [seq |-> e.seq, kind |-> e.kind] >>

(* Slip: the record carries no delta field when there is none.             *)
ApplyEventBare(e) ==
  /\ phase \in {"draining", "advancing"}
  /\ K!Apply(e)
  /\ world' = world \o WrittenBy(e)
  /\ deltas' = IF WrittenBy(e) = << >> THEN deltas ELSE Append(deltas, WrittenBy(e))
  /\ lastSeq' = e.seq
  /\ UNCHANGED <<armed, fileVars, score, sess, phase, countVars>>

(* apply() and the store's record(): the line is in the file before the    *)
(* next event is applied, long before the session is written.              *)
ApplyEvent(e) ==
  /\ phase \in {"draining", "advancing"}
  /\ K!Apply(e)
  /\ world' = world \o WrittenBy(e)
  /\ deltas' = Append(deltas, WrittenBy(e))
  /\ lastSeq' = e.seq
  /\ UNCHANGED <<armed, fileVars, score, sess, phase, countVars>>

(* checkpoint: the world under the seq recorded last, then the session.    *)
WriteSnapshot ==
  /\ phase = "snapshot"
  /\ snaps' = Saved(lastSeq)
  /\ cut' = cut \ {lastSeq}
  /\ opened' = IF lastSeq = 0 THEN now ELSE opened
  /\ phase' = "session"
  /\ UNCHANGED <<kernelVars, world, armed, lastSeq, deltas, score, sess, countVars>>

(* Slips: the last recorded seq stands for the counter; follow-ups are not *)
(* saved.                                                                  *)
WriteSessionLastSeq ==
  /\ phase = "session"
  /\ sess' = [now |-> now, seq |-> lastSeq, pending |-> queue, readable |-> TRUE]
  /\ phase' = "idle"
  /\ UNCHANGED <<memoryVars, lost, log, deltas, fileVars, score, countVars>>

WriteSessionNoFollowUps ==
  /\ phase = "session"
  /\ sess' = [now |-> now, seq |-> seq, pending |-> {e \in queue : e.cause = 0},
              readable |-> TRUE]
  /\ phase' = "idle"
  /\ UNCHANGED <<memoryVars, lost, log, deltas, fileVars, score, countVars>>

(* _write_session.  After a load it and the checkpoint that follows write  *)
(* the same world, seq 0 and session again: one write stands for them.     *)
WriteSession ==
  /\ phase = "session"
  /\ sess' = [now |-> now, seq |-> seq, pending |-> queue, readable |-> TRUE]
  /\ phase' = "idle"
  /\ UNCHANGED <<memoryVars, lost, log, deltas, fileVars, score, countVars>>

(* run_eval: a pure read of the log that writes score.json.  (The index    *)
(* row it refreshes is derived from the same files and read back by none.) *)
RunEval ==
  /\ phase = "idle"
  /\ 0 \in DOMAIN snaps \ cut
  /\ score' = [graded |-> Graded(Horizon), past |-> sess.now > Horizon /\ log # << >>,
               load |-> loads]
  /\ UNCHANGED <<kernelVars, world, armed, lastSeq, deltas, fileVars, sess, phase,
                 countVars>>

(* The command ends at any point: an error reply, which raises CliError    *)
(* past the checkpoint, an interrupt, a kill.  What is on disk stays.      *)
Abort ==
  /\ phase # "idle"
  /\ aborts < MaxAborts
  /\ aborts' = aborts + 1
  /\ phase' = "idle"
  /\ UNCHANGED <<memoryVars, lost, diskVars, commands, loads>>

(* A kill inside write_text, which truncates the file before it writes it: *)
(* the snapshot, or the session, cannot be parsed.                         *)
CutSnapshot ==
  /\ phase = "snapshot" \/ (phase = "loading" /\ seq = Len(Timeline))
  /\ aborts < MaxAborts
  /\ aborts' = aborts + 1
  /\ cut' = cut \cup {lastSeq}
  /\ phase' = "idle"
  /\ UNCHANGED <<memoryVars, lost, log, deltas, snaps, opened, score, sess, commands, loads>>

CutSession ==
  /\ phase = "session"
  /\ aborts < MaxAborts
  /\ aborts' = aborts + 1
  /\ sess' = NoSession
  /\ phase' = "idle"
  /\ UNCHANGED <<memoryVars, lost, log, deltas, fileVars, score, commands, loads>>

Next ==
  \/ Load \/ LoadScript \/ OpenRun
  \/ Resume \/ Exit
  \/ \E k \in Calls : Step(k)
  \/ \E d \in Durations : Advance(d)
  \/ Drain \/ Drained \/ Return
  \/ \E e \in batch : ApplyEvent(e)
  \/ WriteSnapshot \/ WriteSession
  \/ RunEval
  \/ Abort \/ CutSnapshot \/ CutSession

Spec == Init /\ [][Next]_vars

-----------------------------------------------------------------------------
(* Properties *)

Effect == [seq : Nat, kind : Kinds]

TypeOK ==
  /\ K!TypeOK
  /\ world \in Seq(Effect)
  /\ armed \in BOOLEAN
  /\ lastSeq \in Nat
  /\ Len(deltas) = Len(log) /\ \A i \in DOMAIN deltas : deltas[i] \in Seq(Effect)
  /\ \A s \in DOMAIN snaps : s \in Nat /\ snaps[s] \in Seq(Effect)
  /\ cut \subseteq Nat
  /\ opened \in Nat /\ score.past \in BOOLEAN
  /\ sess.pending \subseteq K!Event /\ sess.now \in Nat /\ sess.seq \in Nat
  /\ phase \in {"idle", "loading", "resumed", "draining", "advancing",
                "snapshot", "session"}

(* As long as nothing is aborted and the run id is not loaded again, the   *)
(* chain of processes is one kernel: ending a command and resuming it in   *)
(* another loses, repeats and moves no event, neither of the queue nor of  *)
(* the clock and the counter.                                              *)
OneKernel == K!Init /\ [][aborts' = 0 /\ loads' = 1 => K!Next]_kernelVars

(* Then what a resume would rebuild is the world the command left, when    *)
(* the record written last is also the one with the greatest seq.          *)
Idle == phase = "idle" /\ sess.readable

Undisturbed == aborts = 0 /\ loads = 1

ResumeIsExact ==
  Idle /\ Undisturbed /\ (\A i \in DOMAIN log : log[i].seq <= lastSeq) =>
    StateAt(sess.seq) = world

(* Whatever is aborted where, and whatever a directory held when its run   *)
(* id was loaded again, no event a finished command knows of is            *)
(* forgotten: it is in the log or pending in the session.                  *)
NothingForgotten ==
  sess.readable => \A n \in 1 .. sess.seq :
    \/ \E i \in DOMAIN log : log[i].seq = n
    \/ \E e \in sess.pending : e.seq = n

(* An aborted command makes later ones repeat or reuse what it had logged, *)
(* and a second load starts over behind the old log, never more: a seq has *)
(* at most one record for each load and each abort.                        *)
Records(n) == {i \in DOMAIN log : log[i].seq = n}

RepeatsAreAborts ==
  \A n \in {log[i].seq : i \in DOMAIN log} : Cardinality(Records(n)) <= loads + aborts

(* The session file is coherent on its own wherever a command was cut: its *)
(* pending events are distinct, were issued by its counter and are not due *)
(* before its clock.                                                       *)
SessionCoherent ==
  \A e, f \in sess.pending : /\ e.seq <= sess.seq
                             /\ e.time >= sess.now
                             /\ e.seq = f.seq => e = f

(* The three: what an abort does to the log is repetition and nothing      *)
(* else, and the session the next command starts from is never broken.     *)
AbortsOnlyRepeat == NothingForgotten /\ RepeatsAreAborts /\ SessionCoherent

(* A score written after the last checkpoint stands until the run id is    *)
(* loaded again: whatever is stepped, advanced, cut short or resumed       *)
(* afterwards, the stored trajectory grades to the same state (runtime.py  *)
(* run_eval over score.py's cut by sim-time).                              *)
ScoreStands == score.past /\ score.load = loads => score.graded = Graded(Horizon)

(* If nothing was aborted, the run loaded once and the log is in seq       *)
(* order, two ways to rebuild a moment agree: the grader's view, from the  *)
(* nearest snapshot and by seq, is the state the evaluator graded, from    *)
(* the opening by sim-time.                                                *)
InSeqOrder == \A i, j \in DOMAIN log : i < j => log[i].seq < log[j].seq

GraderSeesWhatIsGraded ==
  Idle /\ Undisturbed /\ InSeqOrder /\ opened = 0 =>
    \A at \in Times : at <= now => Pov(at) = Graded(at).effects

(* Both: what is graded does not depend on when, nor on who rebuilds it.   *)
GradesStand == ScoreStands /\ GraderSeesWhatIsGraded

(* backend.py:130 "Rebuild a live episode from disk: world from the log":  *)
(* between commands the rebuilt world would be the one that was left.      *)
ResumeRestoresWorld == Idle => StateAt(sess.seq) = world
=============================================================================
