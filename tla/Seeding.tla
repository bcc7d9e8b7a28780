------------------------------ MODULE Seeding -------------------------------
(***************************************************************************)
(* The seeding engine: a template and a seed resolve to an instance, a     *)
(* gate judges it, freezing stamps its directory, and a search over        *)
(* consecutive seeds builds a set of valid instances (engine/__init__.py,  *)
(* engine/gate.py, engine/freeze.py).                                      *)
(*                                                                         *)
(* The template file may be edited between any two steps and a process may *)
(* be killed in any call; each content file of an instance is written by a *)
(* step of its own.  What the pure stages (sample, bind, assemble,         *)
(* project_eval) and the two reference solvers compute of a template       *)
(* version and a seed is the constant Judged; a fact-map is the pair of    *)
(* the two, and a content file is the fact-map it was written from.        *)
(***************************************************************************)
EXTENDS Naturals, Sequences, FiniteSets, Functions

CONSTANTS
  Seeds,      \* seeds in play, an interval; a set's own directory for a seed
              \* bears its number
  Curated,    \* directories with a name of their own, numbered above Seeds
  Edits,      \* bound: edits of the template, versions 0 .. Edits
  Judged,     \* Judged[v][s]: [bound, coherent, floor, ceiling]
  Files,      \* the content files, in the order they are written
  Starts,     \* first seeds callers name
  Count,      \* size of the set they ask for
  ScanLimit,  \* and how many seeds they allow to be scanned
  MaxCalls, MaxCrashes  \* bounds

Dirs == Seeds \cup Curated

ASSUME SearchAssumption ==
  /\ Count \in Nat \ {0} /\ ScanLimit \in Nat
  /\ Starts \subseteq Nat
  /\ \A s \in Starts : s .. s + ScanLimit - 1 \subseteq Seeds

ASSUME DirsAssumption ==
  /\ Dirs \subseteq Nat /\ IsFiniteSet(Dirs)
  /\ Seeds \cap Curated = {}
  /\ Files \in Seq(Range(Files)) /\ Files # << >>

ASSUME TemplateAssumption ==
  /\ Edits \in Nat /\ MaxCalls \in Nat /\ MaxCrashes \in Nat
  /\ \A v \in 0 .. Edits, s \in Seeds :
       Judged[v][s] \in [bound : BOOLEAN, coherent : BOOLEAN, floor : BOOLEAN,
                        ceiling : BOOLEAN]

VARIABLES
  version,   \* the template file's content
  cache,     \* _VERDICT_CACHE: seed -> verdict, with the version judged
  content,   \* content[d][f]: the fact-map file f of d was written from
  manifest,  \* scenario.json of d, or NoManifest
  readonly,  \* d's files have lost their write bits
  set,       \* data/sets/<archetype>.json, or NoSet
  job,       \* the running call
  calls, crashes

vars == <<version, cache, content, manifest, readonly, set, job, calls, crashes>>
disk == <<content, manifest, readonly, set>>

Absent == [seed |-> 0, version |-> 0, made |-> FALSE]
FactMap(s, v) == [seed |-> s, version |-> v, made |-> TRUE]
Blank == [f \in Range(Files) |-> Absent]
NoManifest == [seed |-> 0, frozen |-> FALSE, hash |-> Blank, written |-> FALSE]
NoSet == [start |-> 0, members |-> << >>, rejected |-> << >>, scanned |-> 0,
          version |-> 0, stale |-> FALSE, written |-> FALSE]

Idle == [op |-> "idle", stage |-> "none", start |-> 0, cur |-> 0, version |-> 0,
         existing |-> << >>, members |-> << >>, rejected |-> << >>, stale |-> FALSE,
         dir |-> 0, made |-> Absent, parts |-> 0, hash |-> Blank]

Init ==
  /\ version = 0
  /\ cache = << >>
  /\ content = [d \in Dirs |-> Blank]
  /\ manifest = [d \in Dirs |-> NoManifest]
  /\ readonly = [d \in Dirs |-> FALSE]
  /\ set = NoSet
  /\ job = Idle
  /\ calls = 0 /\ crashes = 0

-----------------------------------------------------------------------------
(* The gate.                                                               *)

(* evaluate: coherence, then the competent solver, then the lazy one.      *)
(* Slip: the lazy solver is not run.                                       *)
VerdictNoCeiling(v, s) ==
  LET j == Judged[v][s] IN
  CASE ~j.coherent -> "coherence"
    [] j.coherent /\ ~j.floor -> "solvable_floor"
    [] OTHER -> "passed"

Verdict(v, s) ==
  LET j == Judged[v][s] IN
  CASE ~j.coherent -> "coherence"
    [] j.coherent /\ ~j.floor -> "solvable_floor"
    [] j.coherent /\ j.floor /\ ~j.ceiling -> "nontrivial_ceiling"
    [] OTHER -> "passed"

(* sample and bind find a candidate for every slot.                        *)
Runs(v, s) == Judged[v][s].bound

(* gate_once's memo: the key is the seed (with the archetype and the       *)
(* substrate, fixed here), not the template's content.                     *)
Cached(v, s) ==
  IF s \in DOMAIN cache THEN cache[s] ELSE [verdict |-> Verdict(v, s), of |-> v]

-----------------------------------------------------------------------------
(* The environment: an author edits the template, a process comes to its   *)
(* end between calls, or is killed in one.                                 *)

Edit ==
  /\ version < Edits
  /\ version' = version + 1
  /\ UNCHANGED <<cache, disk, job, calls, crashes>>

Exit ==
  /\ job = Idle
  /\ cache # << >>
  /\ cache' = << >>
  /\ UNCHANGED <<version, disk, job, calls, crashes>>

Crash ==
  /\ job # Idle
  /\ crashes < MaxCrashes
  /\ crashes' = crashes + 1
  /\ job' = Idle
  /\ cache' = << >>
  /\ UNCHANGED <<version, disk, calls>>

Call == /\ job = Idle
        /\ calls < MaxCalls
        /\ calls' = calls + 1

-----------------------------------------------------------------------------
(* Slip: the write replaces the file, whatever its mode.                   *)
GenerateOverLocked(d, s) ==
  /\ Call
  /\ d \in Curated \cup {s}
  /\ Runs(version, s)
  /\ job' = [Idle EXCEPT !.op = "generate", !.stage = "write", !.dir = d,
                         !.made = FactMap(s, version)]
  /\ UNCHANGED <<version, cache, disk, crashes>>

(* write_candidate: the content files one by one, then the manifest.  A    *)
(* read-only file fails the first write.  The code takes any directory;    *)
(* its callers name a curated one or the one build_set names by the seed.  *)
Generate(d, s) ==
  /\ Call
  /\ d \in Curated \cup {s}
  /\ Runs(version, s)
  /\ ~readonly[d]
  /\ job' = [Idle EXCEPT !.op = "generate", !.stage = "write", !.dir = d,
                         !.made = FactMap(s, version)]
  /\ UNCHANGED <<version, cache, disk, crashes>>

WriteFile ==
  /\ job.stage = "write"
  /\ job.parts < Len(Files)
  /\ content' = [content EXCEPT ![job.dir][Files[job.parts + 1]] = job.made]
  /\ job' = [job EXCEPT !.parts = @ + 1]
  /\ UNCHANGED <<version, cache, manifest, readonly, set, calls, crashes>>

WriteManifest ==
  /\ job.stage = "write"
  /\ job.parts = Len(Files)
  /\ manifest' = [manifest EXCEPT ![job.dir] =
       [NoManifest EXCEPT !.seed = job.made.seed, !.written = TRUE]]
  /\ job' = IF job.op = "generate" THEN Idle ELSE [job EXCEPT !.stage = "hash"]
  /\ UNCHANGED <<version, cache, content, readonly, set, calls, crashes>>

-----------------------------------------------------------------------------
(* freeze: no gate is asked.  Hash what is there, unlock, stamp, lock.     *)

Freeze(d) ==
  /\ Call
  /\ manifest[d].written
  /\ job' = [Idle EXCEPT !.op = "freeze", !.stage = "hash", !.dir = d]
  /\ UNCHANGED <<version, cache, disk, crashes>>

HashContent ==
  /\ job.stage = "hash"
  /\ job' = [job EXCEPT !.stage = "stamp", !.hash = content[job.dir]]
  /\ readonly' = [readonly EXCEPT ![job.dir] = FALSE]
  /\ UNCHANGED <<version, cache, content, manifest, set, calls, crashes>>

Stamp ==
  /\ job.stage = "stamp"
  /\ manifest' = [manifest EXCEPT ![job.dir].frozen = TRUE, ![job.dir].hash = job.hash]
  /\ job' = [job EXCEPT !.stage = "lock"]
  /\ UNCHANGED <<version, cache, content, readonly, set, calls, crashes>>

(* Slip: the write bits are left.                                          *)
LockLeftOpen ==
  /\ job.stage = "lock"
  /\ job' = IF job.op = "freeze" THEN Idle
            ELSE [job EXCEPT !.stage = "scan", !.cur = @ + 1,
                    !.members = Append(@, [seed |-> job.cur, dir |-> job.dir])]
  /\ UNCHANGED <<version, cache, content, manifest, readonly, set, calls, crashes>>

(* The modes of the five files are changed in one step.                    *)
Lock ==
  /\ job.stage = "lock"
  /\ readonly' = [readonly EXCEPT ![job.dir] = TRUE]
  /\ job' = IF job.op = "freeze" THEN Idle
            ELSE [job EXCEPT !.stage = "scan", !.cur = @ + 1,
                    !.members = Append(@, [seed |-> job.cur, dir |-> job.dir])]
  /\ UNCHANGED <<version, cache, content, manifest, set, calls, crashes>>

-----------------------------------------------------------------------------
(* build_set: the template, the substrate and the directories are read     *)
(* once, then the seeds are gated one after the other.                     *)

(* Slip: only the archetype of a manifest is compared.                     *)
ExistingOfArchetype ==
  LET holders(s) == {d \in Dirs : manifest[d].written}
  IN [s \in {s \in Seeds : holders(s) # {}} |->
        CHOOSE d \in holders(s) : \A e \in holders(s) : e <= d]

(* _existing_by_seed: the last directory, by name, whose manifest can be   *)
(* read and names the seed; frozen or not, whatever it was made from.      *)
Existing ==
  LET holders(s) == {d \in Dirs : manifest[d].written /\ manifest[d].seed = s}
  IN [s \in {s \in Seeds : holders(s) # {}} |->
        CHOOSE d \in holders(s) : \A e \in holders(s) : e <= d]

BuildSet(s) ==
  /\ Call
  /\ job' = [Idle EXCEPT !.op = "build", !.stage = "scan", !.start = s, !.cur = s,
                         !.version = version, !.existing = Existing]
  /\ UNCHANGED <<version, cache, disk, crashes>>

(* Slip: one member too many is looked for.                                *)
ScanningPast == /\ job.stage = "scan"
                /\ Len(job.members) <= Count
                /\ job.cur - job.start < ScanLimit

Scanning == /\ job.stage = "scan"
            /\ Len(job.members) < Count
            /\ job.cur - job.start < ScanLimit

(* sample or bind raises, and so does the call.                            *)
Unsatisfiable ==
  /\ Scanning
  /\ ~Runs(job.version, job.cur)
  /\ job' = Idle
  /\ UNCHANGED <<version, cache, disk, calls, crashes>>

Gate(next) ==
  LET c == Cached(job.version, job.cur) IN
  /\ Scanning
  /\ Runs(job.version, job.cur)
  /\ cache' = [s \in DOMAIN cache \cup {job.cur} |-> IF s = job.cur THEN c ELSE cache[s]]
  /\ job' = [next EXCEPT !.stale = @ \/ c.of # job.version]
  /\ UNCHANGED <<version, disk, calls, crashes>>

Judgement == Cached(job.version, job.cur).verdict

Reject ==
  /\ Judgement # "passed"
  /\ Gate([job EXCEPT !.cur = @ + 1,
             !.rejected = Append(@, [seed |-> job.cur, stage |-> Judgement])])

Reuse ==
  /\ Judgement = "passed"
  /\ job.cur \in DOMAIN job.existing
  /\ Gate([job EXCEPT !.cur = @ + 1,
             !.members = Append(@, [seed |-> job.cur, dir |-> job.existing[job.cur]])])

Materialize ==
  /\ Judgement = "passed"
  /\ job.cur \notin DOMAIN job.existing
  /\ Gate([job EXCEPT !.stage = "write", !.dir = job.cur, !.parts = 0,
             !.made = FactMap(job.cur, job.version)])

Judge == Scanning /\ Runs(job.version, job.cur) /\ (Reject \/ Reuse \/ Materialize)

(* The set's manifest, full or short; the CLI then reports a short one.    *)
Publish ==
  /\ job.stage = "scan"
  /\ Len(job.members) = Count \/ job.cur - job.start >= ScanLimit
  /\ set' = [start |-> job.start, members |-> job.members, rejected |-> job.rejected,
             scanned |-> job.cur, version |-> job.version, stale |-> job.stale,
             written |-> TRUE]
  /\ job' = Idle
  /\ UNCHANGED <<version, cache, content, manifest, readonly, calls, crashes>>

-----------------------------------------------------------------------------
Work == WriteFile \/ WriteManifest \/ HashContent \/ Stamp \/ Lock
          \/ Unsatisfiable \/ Judge \/ Publish

Next ==
  \/ Edit \/ Exit \/ Crash
  \/ \E d \in Dirs, s \in Seeds : Generate(d, s)
  \/ \E d \in Dirs : Freeze(d)
  \/ \E s \in Starts : BuildSet(s)
  \/ Work

Spec == Init /\ [][Next]_vars

-----------------------------------------------------------------------------
(* Properties *)

FactMaps == [seed : Seeds \cup {0}, version : 0 .. Edits, made : BOOLEAN]

TypeOK ==
  /\ version \in 0 .. Edits
  /\ DOMAIN cache \subseteq Seeds
  /\ content \in [Dirs -> [Range(Files) -> FactMaps]]
  /\ \A d \in Dirs : manifest[d].hash \in [Range(Files) -> FactMaps]
  /\ readonly \in [Dirs -> BOOLEAN]
  /\ job.parts \in 0 .. Len(Files) /\ Len(job.members) <= Count
  /\ job.cur \in Nat /\ job.dir \in Dirs \cup {0}

(* The published set is the first Count seeds from start that pass all     *)
(* three gates, every other seed before the end of the scan is on record   *)
(* with a gate it fails, and a short set means the scan limit was reached; *)
(* only a verdict cached before an edit of the template can differ.        *)
Failed(v, s) ==
  LET j == Judged[v][s]
  IN {g \in {"coherence", "solvable_floor", "nontrivial_ceiling"} :
        \/ g = "coherence" /\ ~j.coherent
        \/ g = "solvable_floor" /\ ~j.floor
        \/ g = "nontrivial_ceiling" /\ ~j.ceiling}

SetIsFirstValid ==
  LET seeds == {set.members[i].seed : i \in DOMAIN set.members}
      scanned == set.start .. set.scanned - 1
  IN set.written /\ ~set.stale =>
       /\ seeds = {s \in scanned : Failed(set.version, s) = {}}
       /\ {set.rejected[i].seed : i \in DOMAIN set.rejected} = scanned \ seeds
       /\ \A i \in DOMAIN set.rejected :
            set.rejected[i].stage \in Failed(set.version, set.rejected[i].seed)
       /\ Cardinality(seeds) = Count \/ set.scanned = set.start + ScanLimit

(* When a set is published each member's directory holds the instance of   *)
(* the member's seed, and no directory backs two members.                  *)
MembersHoldTheirSeeds ==
  [][set' # set =>
       /\ \A i \in DOMAIN set'.members :
            LET m == set'.members[i] IN
            /\ manifest[m.dir].written /\ manifest[m.dir].seed = m.seed
            /\ content[m.dir][Files[1]].seed = m.seed \/ crashes > 0
       /\ \A i, j \in DOMAIN set'.members :
            set'.members[i].dir = set'.members[j].dir => i = j]_vars

(* The stamp of a locked instance is the hash of its files, through any    *)
(* re-freezing, regeneration and kill; and a directory whose world and     *)
(* grader come from different fact-maps is one whose rewriting was killed, *)
(* at most one for each kill.                                              *)
StampIsContent ==
  \A d \in Dirs : readonly[d] => manifest[d].frozen /\ manifest[d].hash = content[d]

Torn(d) == /\ manifest[d].written
           /\ ~(job.stage = "write" /\ job.dir = d)
           /\ \E f, g \in Range(Files) : content[d][f] # content[d][g]

TornByKills == Cardinality({d \in Dirs : Torn(d)}) <= crashes

InstancesAreWhole == StampIsContent /\ TornByKills

(* A frozen instance is never changed, whatever is generated, frozen again *)
(* or built after it and however the template is edited, unless a kill     *)
(* fell between the unlocking and the locking of its files.                *)
FrozenIsImmutable ==
  [][\A d \in Dirs : manifest[d].frozen /\ crashes = 0 =>
       manifest'[d] = manifest[d] /\ content'[d] = content[d]]_vars

(* Both: what a published set and a frozen directory say stays so.         *)
PublishedStands == MembersHoldTheirSeeds /\ FrozenIsImmutable
=============================================================================
