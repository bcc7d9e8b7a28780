------------------------------ MODULE Evaluator ------------------------------
(***************************************************************************)
(* The evaluator of Saasworld: an episode's event log is replayed to the   *)
(* checkpoint of the rubric, predicates read the resulting world by path,  *)
(* and their weighted credits are the agent's reward (src/saasworld/eval). *)
(*                                                                         *)
(* The log is written here by the moves that can touch a graded field: the *)
(* agent's verbs, a persona's delayed reveal, and the raw reschedule that  *)
(* only the reference solver of the validity gate may issue.  The rubric   *)
(* is that of data/scenarios/checkout-not-ready.  Credits are counted in   *)
(* thousandths of the full score.                                          *)
(***************************************************************************)
EXTENDS Naturals, Sequences, FiniteSets, FiniteSetsExt, Functions, Ranking

CONSTANTS
  Decisions,  \* the argument records record_decision is called with
  Tellings,   \* the argument records send_message is called with
  Emails,     \* the argument records send_email is called with
  Horizon,    \* the minute of the rubric's only checkpoint
  MaxNow,     \* bound on the clock
  MaxMoves,   \* bound on the moves of one episode
  MaxScores   \* bound on the calls of score()

ASSUME BoundsAssumption == /\ {Horizon, MaxNow, MaxMoves, MaxScores} \subseteq Nat
                           /\ Horizon <= MaxNow

VARIABLES
  now,      \* the kernel's clock
  nextSeq,  \* the sequence number the kernel gives next
  pending,  \* replies scheduled and not yet due, [seq, sim_time]
  events,   \* the trajectory: applied events, then the score records
  results   \* what each call of score() returned

evalVars == <<now, nextSeq, pending, events, results>>

-----------------------------------------------------------------------------
(* World values: what JSON holds, with None and the reader's MISSING apart. *)

Missing == [tag |-> "missing"]
None == [tag |-> "none"]
Atom(v) == [tag |-> "atom", atom |-> v]
Dict(f) == [tag |-> "dict", keys |-> f]
\* The items at their places; one that a filter drops leaves its place empty.
List(s) == [tag |-> "list", items |-> s]
IsDict(node) == node.tag = "dict"
IsList(node) == node.tag = "list"

\* dict.get(key, default)
Get(node, key, default) == IF key \in DOMAIN node.keys THEN node.keys[key] ELSE default

Nothing == [none \in {} |-> None]

\* What the catalogue's verbs are called with: optional ids, a list of ids for refs.
Scalar(v) == v = None \/ (v.tag = "atom" /\ v = Atom(v.atom))

ASSUME ArgsAssumption ==
  /\ \A d \in Decisions : /\ DOMAIN d = {"about", "type", "action", "new_date", "owner"}
                          /\ \A field \in DOMAIN d : Scalar(d[field])
  /\ \A t \in Tellings : /\ DOMAIN t = {"to", "refs"} /\ Scalar(t.to)
                         /\ t.refs = None \/ IsList(t.refs)

-----------------------------------------------------------------------------
(* The path reader. A path is a sequence of tokens. *)

Name(n) == [kind |-> "name", arg |-> n]
Filter(conds) == [kind |-> "filter", arg |-> conds]

Alias == [references |-> "refs", refs |-> "references"]

\* A field of a list item, under its other name when it has not this one.
Field(item, key) ==
  IF ~IsDict(item) THEN None
  ELSE IF key \in DOMAIN item.keys THEN item.keys[key]
  ELSE IF key \in DOMAIN Alias THEN Get(item, Alias[key], None) ELSE None

Matches(item, conds) ==
  \A c \in conds : LET held == Field(item, c.key)
                   IN  \/ held = c.want
                       \/ IsList(held) /\ c.want \in Range(held.items)

ReadToken(node, tok) ==
  CASE tok.kind = "name" /\ IsList(node) ->
         List([i \in DOMAIN node.items |-> Field(node.items[i], tok.arg)])
    [] tok.kind = "name" /\ IsDict(node) -> Get(node, tok.arg, Missing)
    [] tok.kind = "filter" /\ IsList(node) ->
         List(Restrict(node.items, {i \in DOMAIN node.items : Matches(node.items[i], tok.arg)}))
    [] tok.kind = "filter" /\ ~IsList(node) -> List(<<>>)
    [] OTHER -> Missing

\* The first name is looked up by WorldState.read, which answers None.
Read(world, path) ==
  LET node[i \in 1 .. Len(path)] == IF i = 1 THEN Get(world, path[1].arg, None)
                                    ELSE ReadToken(node[i - 1], path[i])
  IN  node[Len(path)]

-----------------------------------------------------------------------------
(* Deltas, and the replay that projects the world at an instant. *)

With(node, key, value) ==
  Dict([k \in DOMAIN node.keys \cup {key} |-> IF k = key THEN value ELSE node.keys[k]])

\* The nodes on the way down are found or made, and their entries on the way back up.
Put(world, path, value) ==
  LET n == Len(path)
      node[i \in 1 .. n] == IF i = 1 THEN world ELSE Get(node[i - 1], path[i - 1], Dict(Nothing))
      new[i \in 1 .. n + 1] == IF i = n + 1 THEN value ELSE With(node[i], path[i], new[i + 1])
  IN  new[1]

ApplyDelta(world, d) ==
  IF d.op = "set" THEN Put(world, d.path, d.value)
  ELSE Put(world, d.path,
           List(Append(Get(world, Head(d.path), List(<<>>)).items, d.value)))

ApplyAll(world, deltas) ==
  LET applied[i \in 0 .. Len(deltas)] == IF i = 0 THEN world ELSE ApplyDelta(applied[i - 1], deltas[i])
  IN  applied[Len(deltas)]

About == "proj.checkout"

Opening ==
  Dict([org |-> Dict([cto |-> Dict(Nothing), holder |-> Dict(Nothing)]),
        projects |-> Dict([proj |-> Dict([checkout |->
                       Dict([launch_date |-> Atom("d1")])])]),
        blockers |-> Dict([blocker |-> Dict([psp_cert |->
                       Dict([surfaced |-> Atom("false")])])]),
        messages |-> List(<<>>), email |-> List(<<>>), decisions |-> List(<<>>)])

InTimeOrder(a, b) == \/ a.sim_time < b.sim_time
                     \/ a.sim_time = b.sim_time /\ a.seq < b.seq

\* The last of these events; no two share a seq.
LastIn(trajectory, S) ==
  CHOOSE i \in S : \A j \in S \ {i} : InTimeOrder(trajectory[j], trajectory[i])

\* project(): from the opening snapshot, whose seq is 0, replay what lies at or before `at`.
Project(trajectory, at) ==
  LET past == {i \in DOMAIN trajectory : trajectory[i].seq > 0 /\ trajectory[i].sim_time <= at}
      world[S \in SUBSET past] ==
        IF S = {} THEN Opening
        ELSE LET last == LastIn(trajectory, S)
             IN  ApplyAll(world[S \ {last}], trajectory[last].deltas)
  IN  world[past]

-----------------------------------------------------------------------------
(* Predicates: a credit in tenths, from the world and the baseline. *)

FieldEq(spec, world) == IF Read(world, spec.path) = spec.want THEN 10 ELSE 0

SetMembership(spec, world) ==
  LET held == Read(world, spec.path)
      vals == IF IsList(held) THEN Range(held.items) ELSE {held}
  IN  IF held # Missing /\ vals \cap spec.allowed # {} THEN 10 ELSE 0

Existence(spec, world) ==
  LET held == Read(world, spec.path) IN IF IsList(held) /\ DOMAIN held.items # {} THEN 10 ELSE 0

Changed(spec, world, baseline) ==
  IF Read(world, spec.path) # Read(baseline, spec.path) THEN 10 ELSE 0

LeafAssert(spec, world, baseline) ==
  CASE spec.kind = "set" -> SetMembership(spec, world)
    [] spec.kind = "existence" -> Existence(spec, world)
    [] spec.kind = "changed" -> Changed(spec, world, baseline)
    [] spec.kind = "eq" -> FieldEq(spec, world)

\* Slip: the credits of the disjuncts add up.
EvalAssertSumming(spec, world, baseline) ==
  IF spec.kind # "any" THEN LeafAssert(spec, world, baseline)
  ELSE MapThenSumSet(LAMBDA i : LeafAssert(spec.subs[i], world, baseline), DOMAIN spec.subs)

\* any: one fully satisfied disjunct is the whole credit; no rubric nests it.
EvalAssert(spec, world, baseline) ==
  IF spec.kind # "any" THEN LeafAssert(spec, world, baseline)
  ELSE IF \E i \in DOMAIN spec.subs : LeafAssert(spec.subs[i], world, baseline) = 10
  THEN 10 ELSE 0

Surfaced == <<Name("blockers"), Name("blocker"), Name("psp_cert"), Name("surfaced")>>
LaunchDate == <<Name("projects"), Name("proj"), Name("checkout"), Name("launch_date")>>
GoNoGo == {[key |-> "type", want |-> Atom("gonogo")], [key |-> "about", want |-> Atom(About)]}
CtoTold == {[key |-> "to", want |-> Atom("cto")], [key |-> "references", want |-> Atom("psp_cert")]}

\* Slip: the first decision counts.
GradedFirst(world) ==
  LET decisions == Read(world, <<Name("decisions")>>)
      matches == {i \in DOMAIN decisions.items : Get(decisions.items[i], "about", None) = Atom(About)}
  IN  IF matches = {} THEN None ELSE decisions.items[Min(matches)]

\* decision_comms grades the last decision about the project, None if there is none.
GradedDecision(world) ==
  LET decisions == Read(world, <<Name("decisions")>>)
      matches == {i \in DOMAIN decisions.items :
                    /\ IsDict(decisions.items[i])
                    /\ Get(decisions.items[i], "about", None) = Atom(About)}
  IN  IF ~IsList(decisions) \/ matches = {} THEN None ELSE decisions.items[Max(matches)]

Is(b, n) == IF b THEN n ELSE 0

\* Each claim of the decision is credited only if the world backs it.
DecisionComms(world, baseline) ==
  LET decision == GradedDecision(world)
      org == Read(world, <<Name("org")>>)
      owner == Get(decision, "owner", None)
  IN  IF decision = None THEN 0
      ELSE Is(Read(world, Surfaced) = Atom("true"), 5)
           + Is(/\ Get(decision, "new_date", None) # None
                /\ Changed([path |-> LaunchDate], world, baseline) = 10, 3)
           + Is(owner # None /\ IsDict(org) /\ owner.atom \in DOMAIN org.keys, 2)

-----------------------------------------------------------------------------
(* The rubric of checkout-not-ready, weights in hundredths. *)

Checkpoint == <<
  [id |-> "blocker_surfaced", w |-> 30,
   spec |-> [kind |-> "eq", path |-> Surfaced, want |-> Atom("true")]],
  [id |-> "acted_on_blocker", w |-> 30,
   spec |-> [kind |-> "any",
             subs |-> <<[kind |-> "changed", path |-> LaunchDate],
                        [kind |-> "existence", path |-> <<Name("decisions"), Filter(GoNoGo)>>]>>]],
  [id |-> "correct_action", w |-> 15,
   spec |-> [kind |-> "set", path |-> <<Name("decisions"), Filter(GoNoGo), Name("action")>>,
             allowed |-> {Atom("reschedule"), Atom("hold_and_mitigate")}]],
  [id |-> "stakeholder_informed", w |-> 10,
   spec |-> [kind |-> "existence", path |-> <<Name("messages"), Filter(CtoTold)>>]]>>

Artifact == [id |-> "decision_comms", w |-> 15]

Weighted(credits) ==
  LET sum[i \in 0 .. Len(Checkpoint)] ==
        IF i = 0 THEN 0 ELSE sum[i - 1] + Checkpoint[i].w * credits[i]
  IN  sum[Len(Checkpoint)]

WeightsSum == Artifact.w + Weighted([i \in DOMAIN Checkpoint |-> 1])

\* score(): the weighted credits at the checkpoint, in thousandths.
ScoreOf(trajectory) ==
  LET world == Project(trajectory, Horizon)
      baseline == Project(trajectory, 0)
  IN  Artifact.w * DecisionComms(world, baseline)
      + Weighted([i \in DOMAIN Checkpoint |-> EvalAssert(Checkpoint[i].spec, world, baseline)])

NextSeq(trajectory) == 1 + Max({0} \cup {e.seq : e \in Range(trajectory)})

ScoreKinds == {"checkpoint_score", "final_score"}

-----------------------------------------------------------------------------
(* The moves of an episode. *)

EvalInit ==
  /\ now = 0
  /\ nextSeq = 1
  /\ pending = {}
  /\ events = <<>>
  /\ results = <<>>

Playing == results = <<>> /\ nextSeq <= MaxMoves

\* An event of `kind` applied now; what it was called with is kept beside its deltas.
Apply(kind, args, deltas) ==
  events' = Append(events, [seq |-> nextSeq, sim_time |-> now, kind |-> kind,
                            args |-> args, deltas |-> deltas])

Do(kind, args, deltas) ==
  /\ Playing
  /\ Apply(kind, args, deltas)
  /\ nextSeq' = nextSeq + 1
  /\ UNCHANGED <<now, pending, results>>

Add(partition, fields) == <<[op |-> "append", path |-> <<partition>>, value |-> Dict(fields)]>>

\* record_decision: one structured entry, every field as the caller gave it.
RecordDecision(args) == Do("record_decision", args, Add("decisions", args))

SendMessage(args) == Do("send_message", args, Add("messages", args))

SendEmail(args) == Do("send_email", args, Add("email", args))

\* The right question to the holder: a message now, and the reveal one minute later.
AskHolder ==
  /\ Playing
  /\ LET args == [to |-> Atom("holder"), refs |-> None]
     IN  Apply("send_message", args, Add("messages", args))
  /\ pending' = pending \cup {[seq |-> nextSeq + 1, sim_time |-> now + 1]}
  /\ nextSeq' = nextSeq + 2
  /\ UNCHANGED <<now, results>>

\* The solver's raw system event; no verb and no reply writes this path.
Reschedule(date) ==
  /\ Do("reschedule", [date |-> Atom(date)],
        <<[op |-> "set", path |-> <<"projects", "proj", "checkout", "launch_date">>,
           value |-> Atom(date)]>>)

Reply == [to |-> Atom("agent"), refs |-> List(<<Atom("psp_cert")>>)]

Reveal(p) ==
  [seq |-> p.seq, sim_time |-> p.sim_time, kind |-> "npc_reply", args |-> Nothing,
   deltas |-> <<[op |-> "set", path |-> <<"blockers", "blocker", "psp_cert", "surfaced">>,
                 value |-> Atom("true")],
                [op |-> "append", path |-> <<"messages">>, value |-> Dict(Reply)]>>]

DueBy(minute) == {p \in pending : p.sim_time <= minute}

\* The clock moves and the replies due by then are applied, each where the queue has it.
Advance ==
  LET due == Ranked(DueBy(now + 1), InTimeOrder)
  IN  /\ results = <<>>
      /\ now < MaxNow
      /\ now' = now + 1
      /\ events' = events \o [i \in DOMAIN due |-> Reveal(due[i])]
      /\ pending' = pending \ DueBy(now + 1)
      /\ UNCHANGED <<nextSeq, results>>

ScoreRecord(n, kind) ==
  [seq |-> n, sim_time |-> Horizon, kind |-> kind, args |-> Nothing, deltas |-> <<>>]

\* score(): grade, then append the two score records, numbered above everything read.
Score ==
  LET seq == NextSeq(events)
  IN  /\ now >= Horizon
      /\ Len(results) < MaxScores
      /\ WeightsSum = 100
      /\ results' = Append(results, ScoreOf(events))
      /\ events' = events \o <<ScoreRecord(seq, "checkpoint_score"), ScoreRecord(seq + 1, "final_score")>>
      /\ UNCHANGED <<now, nextSeq, pending>>

EvalNext ==
  \/ \E d \in Decisions : RecordDecision(d)
  \/ \E t \in Tellings : SendMessage(t)
  \/ \E t \in Emails : SendEmail(t)
  \/ AskHolder
  \/ \E date \in {"d1", "d2"} : Reschedule(date)
  \/ Advance
  \/ Score

EvalSpec == EvalInit /\ [][EvalNext]_evalVars

-----------------------------------------------------------------------------
(* What a score must be, stated on the history of moves and not on the world. *)

Done(kind) == {e \in Range(events) : e.kind = kind /\ e.sim_time <= Horizon}

Discovered == Done("npc_reply") # {}
\* The launch date as of minute t: where the last reschedule left it, or as seeded.
DateBy(t) ==
  LET moves == {e \in Done("reschedule") : e.sim_time <= t}
  IN  IF moves = {} THEN Atom("d1")
      ELSE (CHOOSE e \in moves : \A f \in moves : f.seq <= e.seq).args.date
\* The baseline is the world as of minute 0, what was applied in that minute included.
Moved == DateBy(Horizon) # DateBy(0)
GoNoGos == {e \in Done("record_decision") : e.args.type = Atom("gonogo") /\ e.args.about = Atom(About)}
Final == CHOOSE e \in Done("record_decision") :
           /\ e.args.about = Atom(About)
           /\ \A f \in Done("record_decision") : f.args.about = Atom(About) => f.seq <= e.seq
Told == \E e \in Done("send_message") :
          /\ e.args.to = Atom("cto")
          /\ IsList(e.args.refs) /\ Atom("psp_cert") \in Range(e.args.refs.items)

\* The credit the history earns, read off the scenario's own description of its rubric.
Earned ==
  Is(Discovered, 300)
  + Is(Moved \/ GoNoGos # {}, 300)
  + Is(\E e \in GoNoGos : e.args.action \in {Atom("reschedule"), Atom("hold_and_mitigate")}, 150)
  + Is(Told, 100)
  + (IF \E e \in Done("record_decision") : e.args.about = Atom(About)
     THEN Is(Discovered, 75) + Is(Moved /\ Final.args.new_date # None, 45)
          + Is(Final.args.owner \in {Atom("cto"), Atom("holder")}, 30)
     ELSE 0)

-----------------------------------------------------------------------------
(* Properties *)

\* The clock, the log and the scores stay within their bounds, and a score never
\* exceeds the full thousand (score() sums weighted credits without clamping).
EvalTypeOK ==
  /\ now \in 0..MaxNow
  /\ nextSeq \in 1..(MaxMoves + 2)
  /\ \A p \in pending : p.seq \in 1..(MaxMoves + 1) /\ p.sim_time \in 1..(MaxNow + 1)
  /\ \A e \in Range(events) : e.seq \in Nat \ {0} /\ e.sim_time \in 0..MaxNow
  /\ \A i \in DOMAIN results : results[i] \in 0..1000

\* Every score the evaluator returns is the one the moves made by the checkpoint earn:
\* what comes later, what touches no graded field, and an earlier call of score() with its
\* records in the log change nothing (eval.json no_activity_reward, score.py:3-5).
ScoreIsEarned == \A i \in DOMAIN results : results[i] = Earned

\* Score records never take a number of an event they were computed from, nor of one another
\* (_append_records: "each with a fresh seq above everything read").
RecordsAreFresh ==
  \A i, j \in DOMAIN events :
    i < j /\ events[j].kind \in ScoreKinds => events[i].seq < events[j].seq

\* Both: grading pays what was earned and never disturbs the log it grades.
GradingStands == ScoreIsEarned /\ RecordsAreFresh
=============================================================================
