------------------------------ MODULE RunIndex ------------------------------
(***************************************************************************)
(* The run directories and what is derived from them: the DuckDB index     *)
(* (trajectory/index.py), its users traj ls / query (cli/traj.py) and      *)
(* run-eval (cli/runtime.py), and the inspector's scan                     *)
(* (api/inspector/router.py), each a process of its own, while the CLI's   *)
(* commands and the policy rollouts (trajectory/actionlog.py) write.       *)
(*                                                                         *)
(* Nothing locks a run directory: a reader opens its files one after the   *)
(* other.  DuckDB lets one process open the database file and refuses the  *)
(* next; every statement commits by itself.  Any process can be killed.    *)
(*                                                                         *)
(* A log is the number of its records, a score the number of records it    *)
(* graded, {} when there is no score.json.                                 *)
(***************************************************************************)
EXTENDS Naturals, FiniteSets

CONSTANTS
  Runs,       \* run directories the CLI makes
  AgentRuns,  \* run directories of a policy rollout: no run_id, other rows
  Listers,    \* processes: traj ls and traj query,
  Graders,    \*   run-eval,
  Inspectors, \*   GET /inspector/api/runs
  NoOne,      \* no process
  MaxLog,     \* bound: records in a log
  MaxProcs    \* bound: processes running at a time

ASSUME IndexAssumption ==
  /\ Runs \cap AgentRuns = {}
  /\ NoOne \notin Listers \cup Graders \cup Inspectors
  /\ Listers \cap Graders = {}
  /\ (Listers \cup Graders) \cap Inspectors = {}
  /\ MaxLog \in Nat /\ MaxProcs \in Nat

Dirs == Runs \cup AgentRuns
Procs == Listers \cup Graders \cup Inspectors

VARIABLES
  manifest,  \* manifest[d]: "absent", "half" written, or "whole"
  log,       \* log[d]: the records in trajectory.jsonl
  score,     \* score[d]: what score.json graded
  rows,      \* the table runs of index.duckdb
  lock,      \* the process that has index.duckdb open
  pc, todo,  \* where a process is, and the directories it has yet to visit
  got,       \* the row, summary or grade it is working on
  seen,      \* an inspector's summaries so far
  since      \* history: the logs when its listing of the directories began

dirVars == <<manifest, log, score>>
vars == <<dirVars, rows, lock, pc, todo, got, seen, since>>

Row == [run : Dirs, log : Nat, score : SUBSET Nat]
NoListing == [d \in {} |-> 0]
NoRow == [run |-> NoOne, log |-> 0, score |-> {}]

Listed == {d \in Dirs : manifest[d] # "absent"}

-----------------------------------------------------------------------------
Init ==
  /\ manifest = [d \in Dirs |-> "absent"]
  /\ log = [d \in Dirs |-> 0]
  /\ score = [d \in Dirs |-> {}]
  /\ rows = {}
  /\ lock = NoOne
  /\ pc = [p \in Procs |-> "idle"]
  /\ todo = [p \in Procs |-> {}]
  /\ got = [p \in Procs |-> NoRow]
  /\ seen = [p \in Procs |-> {}]
  /\ since = [p \in Procs |-> NoListing]

procVars == <<pc, todo, got, seen, since>>

(* open_run and write_run begin with the manifest, a second load of a run  *)
(* writes it again; write_text creates or empties the file, then fills it. *)
CreateManifest(d) ==
  /\ manifest[d] = "absent" \/ (d \in Runs /\ manifest[d] = "whole")
  /\ manifest' = [manifest EXCEPT ![d] = "half"]
  /\ UNCHANGED <<log, score, rows, lock, procVars>>

FillManifest(d) ==
  /\ manifest[d] = "half"
  /\ manifest' = [manifest EXCEPT ![d] = "whole"]
  /\ UNCHANGED <<log, score, rows, lock, procVars>>

(* TrajectoryStore.record, or write_run's loop over the rows.              *)
AppendRecord(d) ==
  /\ manifest[d] = "whole"
  /\ log[d] < MaxLog
  /\ d \in AgentRuns => score[d] = {}
  /\ log' = [log EXCEPT ![d] = @ + 1]
  /\ UNCHANGED <<manifest, score, rows, lock, procVars>>

(* write_run's score.json, after all its rows.                             *)
ScoreAgentRun(d) ==
  /\ d \in AgentRuns /\ manifest[d] = "whole"
  /\ score[d] = {}
  /\ score' = [score EXCEPT ![d] = {log[d]}]
  /\ UNCHANGED <<manifest, log, rows, lock, procVars>>

-----------------------------------------------------------------------------
(* Processes.                                                              *)

Goto(p, l) == pc' = [pc EXCEPT ![p] = l]

Starts(p) == /\ pc[p] = "idle"
             /\ Cardinality({q \in Procs : pc[q] # "idle"}) < MaxProcs

(* The database file is closed by the process's end, however it ends.      *)
Release(p) == lock' = IF lock = p THEN NoOne ELSE lock

End(p) == /\ Goto(p, "idle")
          /\ Release(p)
          /\ todo' = [todo EXCEPT ![p] = {}]
          /\ got' = [got EXCEPT ![p] = NoRow]
          /\ seen' = [seen EXCEPT ![p] = {}]
          /\ since' = [since EXCEPT ![p] = NoListing]
          /\ UNCHANGED <<dirVars, rows>>

(* A kill, or an exception: a file that does not parse, a row without the  *)
(* index's fields, a database another process has open.                    *)
Kill(p) == pc[p] # "idle" /\ End(p)

(* run-eval reads the log and grades it, then writes score.json.           *)
Grade(p, d) ==
  /\ p \in Graders /\ Starts(p)
  /\ d \in Runs /\ manifest[d] = "whole"
  /\ got' = [got EXCEPT ![p] = [run |-> d, log |-> log[d], score |-> {}]]
  /\ todo' = [todo EXCEPT ![p] = {d}]
  /\ Goto(p, "graded")
  /\ UNCHANGED <<dirVars, rows, lock, seen, since>>

(* Slip: the score is of the records before the last one.                  *)
WriteScoreShort(p) ==
  /\ pc[p] = "graded"
  /\ score' = [score EXCEPT ![got[p].run] = {got[p].log - 1}]
  /\ Goto(p, "opening")
  /\ UNCHANGED <<manifest, log, rows, lock, todo, got, seen, since>>

WriteScore(p) ==
  /\ pc[p] = "graded"
  /\ score' = [score EXCEPT ![got[p].run] = {got[p].log}]
  /\ Goto(p, "opening")
  /\ UNCHANGED <<manifest, log, rows, lock, todo, got, seen, since>>

Call(p) ==
  /\ p \in Listers /\ Starts(p)
  /\ Goto(p, "opening")
  /\ UNCHANGED <<dirVars, rows, lock, todo, got, seen, since>>

(* Slip: the database is shared.                                           *)
OpenShared(p) ==
  /\ pc[p] = "opening"
  /\ lock' = p
  /\ Goto(p, IF p \in Listers THEN "clearing" ELSE "next")
  /\ UNCHANGED <<dirVars, rows, todo, got, seen, since>>

(* duckdb.connect: a second process is refused, and Kill is what it does.  *)
Open(p) ==
  /\ pc[p] = "opening" /\ lock = NoOne
  /\ lock' = p
  /\ Goto(p, IF p \in Listers THEN "clearing" ELSE "next")
  /\ UNCHANGED <<dirVars, rows, todo, got, seen, since>>

(* rebuild: the table is emptied, then the directories are listed.         *)
Clear(p) ==
  /\ pc[p] = "clearing"
  /\ rows' = {}
  /\ todo' = [todo EXCEPT ![p] = Listed]
  /\ since' = [since EXCEPT ![p] = [d \in Listed |-> log[d]]]
  /\ Goto(p, "next")
  /\ UNCHANGED <<dirVars, lock, got, seen>>

(* _derive_row, its first half: the manifest must parse, then the score.   *)
ReadScore(p, d) ==
  /\ pc[p] = "next" /\ d \in todo[p]
  /\ manifest[d] = "whole"
  /\ got' = [got EXCEPT ![p] = [run |-> d, log |-> 0, score |-> score[d]]]
  /\ Goto(p, "reading")
  /\ UNCHANGED <<dirVars, rows, lock, todo, seen, since>>

(* Its second half, the records: those of a rollout have no actor, its     *)
(* manifest no run_id, and Kill is what happens.                           *)
ReadLog(p) ==
  /\ pc[p] = "reading"
  /\ got[p].run \in Runs
  /\ got' = [got EXCEPT ![p].log = log[got[p].run]]
  /\ Goto(p, "deleting")
  /\ UNCHANGED <<dirVars, rows, lock, todo, seen, since>>

(* Slip: the row is inserted beside the old one.                           *)
DeleteNothing(p) ==
  /\ pc[p] = "deleting"
  /\ Goto(p, "inserting")
  /\ UNCHANGED <<dirVars, rows, lock, todo, got, seen, since>>

(* _upsert: two statements, each committed.                                *)
Delete(p) ==
  /\ pc[p] = "deleting"
  /\ rows' = {r \in rows : r.run # got[p].run}
  /\ Goto(p, "inserting")
  /\ UNCHANGED <<dirVars, lock, todo, got, seen, since>>

Insert(p) ==
  /\ pc[p] = "inserting"
  /\ rows' = rows \cup {got[p]}
  /\ todo' = [todo EXCEPT ![p] = @ \ {got[p].run}]
  /\ Goto(p, "next")
  /\ UNCHANGED <<dirVars, lock, got, seen, since>>

(* ls and query answer with the rows, run-eval with the score; the end of  *)
(* the process closes the database.                                        *)
Answer(p) == pc[p] = "next" /\ todo[p] = {} /\ End(p)

-----------------------------------------------------------------------------
(* list_runs: a directory is summarised from its rows first and its score  *)
(* afterwards, if its manifest parses or it has a log at all.              *)

Scan(p) ==
  /\ p \in Inspectors /\ Starts(p)
  /\ todo' = [todo EXCEPT ![p] = Listed]
  /\ since' = [since EXCEPT ![p] = [d \in Listed |-> log[d]]]
  /\ Goto(p, "scanning")
  /\ UNCHANGED <<dirVars, rows, lock, got, seen>>

NotARun(d) == manifest[d] = "half" /\ log[d] = 0

Skip(p, d) ==
  /\ pc[p] = "scanning" /\ d \in todo[p]
  /\ NotARun(d)
  /\ todo' = [todo EXCEPT ![p] = @ \ {d}]
  /\ UNCHANGED <<dirVars, rows, lock, pc, got, seen, since>>

SummarizeRows(p, d) ==
  /\ pc[p] = "scanning" /\ d \in todo[p]
  /\ ~ NotARun(d)
  /\ got' = [got EXCEPT ![p] = [run |-> d, log |-> log[d], score |-> {}]]
  /\ Goto(p, "summarizing")
  /\ UNCHANGED <<dirVars, rows, lock, todo, seen, since>>

SummarizeScore(p) ==
  /\ pc[p] = "summarizing"
  /\ seen' = [seen EXCEPT ![p] = @ \cup {[got[p] EXCEPT !.score = score[got[p].run]]}]
  /\ todo' = [todo EXCEPT ![p] = @ \ {got[p].run}]
  /\ Goto(p, "scanning")
  /\ UNCHANGED <<dirVars, rows, lock, got, since>>

Respond(p) == pc[p] = "scanning" /\ todo[p] = {} /\ End(p)

-----------------------------------------------------------------------------
Write(d) == CreateManifest(d) \/ FillManifest(d) \/ AppendRecord(d) \/ ScoreAgentRun(d)

Index(p) ==
  \/ Call(p) \/ Open(p) \/ Clear(p)
  \/ \E d \in Dirs : Grade(p, d) \/ ReadScore(p, d)
  \/ WriteScore(p) \/ ReadLog(p) \/ Delete(p) \/ Insert(p) \/ Answer(p)

Inspect(p) ==
  \/ Scan(p) \/ SummarizeScore(p) \/ Respond(p)
  \/ \E d \in Dirs : Skip(p, d) \/ SummarizeRows(p, d)

Next ==
  \/ \E d \in Dirs : Write(d)
  \/ \E p \in Procs : Index(p) \/ Inspect(p) \/ Kill(p)

Spec == Init /\ [][Next]_vars

-----------------------------------------------------------------------------
(* Properties *)

IndexPhases == {"clearing", "next", "reading", "deleting", "inserting"}

TypeOK ==
  /\ manifest \in [Dirs -> {"absent", "half", "whole"}]
  /\ log \in [Dirs -> Nat]
  /\ score \in [Dirs -> SUBSET Nat]
  /\ rows \in SUBSET Row
  /\ lock \in Procs \cup {NoOne}
  /\ pc \in [Procs -> IndexPhases \cup
                {"idle", "graded", "opening", "scanning", "summarizing"}]
  /\ todo \in [Procs -> SUBSET Dirs]
  /\ got \in [Procs -> [run : Dirs \cup {NoOne}, log : Nat, score : SUBSET Nat]]
  /\ seen \in [Procs -> SUBSET Row]
  /\ DOMAIN since = Procs
  /\ \A p \in Procs : /\ DOMAIN since[p] \subseteq Dirs
                      /\ since[p] \in [DOMAIN since[p] -> Nat]

(* At any moment, whoever was killed in whatever statement, the index has  *)
(* at most one row for a run, and that row holds together: its score is    *)
(* not of a later log than the one it counts, although run-eval and the    *)
(* commands that extend the log run while the row is derived.              *)
RowsAreHonest ==
  /\ \A r, s \in rows : r.run = s.run => r = s
  /\ \A r \in rows : /\ r.run \in Runs
                     /\ r.log <= log[r.run]
                     /\ \A n \in r.score : n <= r.log

(* One entry for each directory due, out of those listed, with no record   *)
(* older than the listing missing and none invented.                       *)
Whole(entries, listing, due) ==
  /\ due \subseteq {e.run : e \in entries}
  /\ \A e \in entries : /\ e.run \in DOMAIN listing
                        /\ listing[e.run] <= e.log /\ e.log <= log[e.run]
                        /\ \A n \in e.score : n <= log[e.run]

Begun(listing) == {d \in DOMAIN listing : listing[d] > 0}

(* What is answered is whole: a listing that gets as far as its answer     *)
(* shows every run, whatever state it found the database in and whatever   *)
(* other process wanted it; the inspector's scan, which takes no lock and  *)
(* reads broken files, shows every run that had begun; and a run-eval that *)
(* reports success leaves a graded row.                                    *)
AnswersAreWhole ==
  \A p \in Procs : todo[p] = {} =>
    /\ pc[p] = "scanning" => Whole(seen[p], since[p], Begun(since[p]))
    /\ pc[p] = "next" /\ p \in Listers => Whole(rows, since[p], DOMAIN since[p])
    /\ pc[p] = "next" /\ p \in Graders => got[p] \in rows /\ got[p].score # {}
=============================================================================
