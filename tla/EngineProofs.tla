---------------------------- MODULE EngineProofs -----------------------------
(***************************************************************************)
(* What the scenario engine guarantees.  Of its calls (Seeding), for any   *)
(* template, any number of seeds, directories and content files, and any   *)
(* sequence of calls, edits and kills: a set is the first valid seeds, a   *)
(* locked instance is what its stamp says, and what was frozen or          *)
(* published stands.  Of one resolution (Resolve), for any archetype       *)
(* written as Authored asks, any org and any draw: its cast is ready, and  *)
(* a coherent instance can be won.                                         *)
(***************************************************************************)
EXTENDS Seeding, Resolve, FiniteSetTheorems, TLAPS

(* The types of the state.                                                 *)
Hashes == [Range(Files) -> FactMaps]
Manifests == [seed : Seeds \cup {0}, frozen : BOOLEAN, hash : Hashes, written : BOOLEAN]
Members == [seed : Nat, dir : Dirs]
Gates == {"coherence", "solvable_floor", "nontrivial_ceiling"}
Rejections == [seed : Nat, stage : Gates]
Listings == UNION {[S -> Dirs] : S \in SUBSET Seeds}

Jobs == [op : {"idle", "generate", "freeze", "build"},
         stage : {"none", "write", "hash", "stamp", "lock", "scan"},
         start : Nat, cur : Nat, version : 0 .. Edits, existing : Listings,
         members : Seq(Members), rejected : Seq(Rejections), stale : BOOLEAN,
         dir : Dirs \cup {0}, made : FactMaps, parts : Nat, hash : Hashes]

Types ==
  /\ version \in 0 .. Edits
  /\ content \in [Dirs -> Hashes]
  /\ manifest \in [Dirs -> Manifests]
  /\ readonly \in [Dirs -> BOOLEAN]
  /\ job \in Jobs
  /\ calls \in Nat /\ crashes \in Nat

(* A cached verdict is the verdict of the version it names.                *)
CacheIsHonest ==
  /\ DOMAIN cache \subseteq Seeds
  /\ \A s \in DOMAIN cache : /\ cache[s].of \in 0 .. Edits
                             /\ cache[s].verdict = Verdict(cache[s].of, s)

(* What a call that writes to a directory knows of it, stage by stage.     *)
AtWork == job.stage \in {"write", "hash", "stamp", "lock"}

WritesInto(d) == job.stage = "write" /\ job.dir = d

Phases ==
  /\ job.op = "idle" => job.stage = "none"
  /\ job.stage = "scan" => job.op = "build"
  /\ job.op = "build" => job.stage \in {"write", "hash", "stamp", "lock", "scan"}
  /\ AtWork => job.dir \in Dirs
  /\ job.stage = "write" => /\ job.op \in {"generate", "build"}
                            /\ job.made.seed \in Seeds
                            /\ job.dir \in Seeds => job.dir = job.made.seed
                            /\ ~readonly[job.dir]
                            /\ \A i \in 1 .. job.parts :
                                 content[job.dir][Files[i]] = job.made
  /\ job.parts <= Len(Files)
  /\ job.stage \in {"hash", "stamp", "lock"} => /\ job.op \in {"freeze", "build"}
                                                /\ manifest[job.dir].written
  /\ job.stage \in {"stamp", "lock"} => /\ ~readonly[job.dir]
                                        /\ job.hash = content[job.dir]
  /\ job.stage = "lock" => /\ manifest[job.dir].frozen
                           /\ manifest[job.dir].hash = content[job.dir]

(* A directory that bears a seed's number holds that seed.                 *)
Named ==
  \A d \in Dirs : /\ d \in Seeds /\ manifest[d].written => manifest[d].seed = d
                  /\ manifest[d].frozen => manifest[d].written

(* Without a kill, a directory nobody is writing to holds the seed its     *)
(* manifest names, and a stamp is good until its files are locked again.   *)
Unkilled ==
  crashes = 0 =>
    \A d \in Dirs :
      /\ manifest[d].written /\ ~WritesInto(d) =>
           content[d][Files[1]].seed = manifest[d].seed
      /\ manifest[d].frozen =>
           /\ manifest[d].hash = content[d]
           /\ readonly[d] \/ (job.stage \in {"stamp", "lock"} /\ job.dir = d)

(* The search: its bounds, the directories it found when it began, and     *)
(* that no directory it may come to write bears a manifest.                *)
Search ==
  job.op = "build" =>
    /\ job.start \in Starts /\ job.start <= job.cur
    /\ job.cur <= job.start + ScanLimit
    /\ job.stage # "scan" => /\ job.cur < job.start + ScanLimit
                             /\ job.dir = job.cur /\ job.cur \in Seeds
                             /\ job.cur \notin DOMAIN job.existing
                             /\ Len(job.members) < Count
    /\ job.stage = "write" => job.made.seed = job.cur
    /\ DOMAIN job.existing \subseteq Seeds
    /\ \A s \in DOMAIN job.existing :
         /\ job.existing[s] \in Dirs
         /\ manifest[job.existing[s]].written
         /\ manifest[job.existing[s]].seed = s
    /\ \A s \in Seeds :
         s >= job.cur /\ s \notin DOMAIN job.existing
             /\ (s = job.cur => job.stage \in {"scan", "write"}) =>
           ~manifest[s].written

(* Its members are seeds gone by, each in a directory of its own.          *)
Found ==
  job.op = "build" =>
    /\ \A i \in DOMAIN job.members :
         /\ manifest[job.members[i].dir].written
         /\ manifest[job.members[i].dir].seed = job.members[i].seed
         /\ job.members[i].seed < job.cur
         /\ ~WritesInto(job.members[i].dir)
    /\ \A i, j \in DOMAIN job.members :
         job.members[i].seed = job.members[j].seed => i = j

(* Nobody else has members.                                                *)
NoMembers == job.op # "build" => job.members = << >>

(* They are the valid ones among them, as far as the verdicts are fresh.   *)
SeedsOf(list) == {list[i].seed : i \in DOMAIN list}
Valid(v, scanned) == {s \in scanned : Failed(v, s) = {}}

Sorted(list, members, v, scanned) ==
  /\ SeedsOf(members) = Valid(v, scanned)
  /\ SeedsOf(list) = scanned \ SeedsOf(members)
  /\ \A i \in DOMAIN list : list[i].stage \in Failed(v, list[i].seed)

Picked ==
  job.op = "build" =>
    /\ IsFiniteSet(SeedsOf(job.members))
    /\ Cardinality(SeedsOf(job.members)) = Len(job.members)
    /\ Len(job.members) <= Count
    /\ ~job.stale =>
         /\ Sorted(job.rejected, job.members, job.version, job.start .. job.cur - 1)
         /\ job.stage # "scan" => Failed(job.version, job.cur) = {}

IInv == /\ Types
        /\ CacheIsHonest
        /\ Phases
        /\ Named
        /\ StampIsContent
        /\ Unkilled
        /\ TornByKills
        /\ Search
        /\ Found
        /\ NoMembers
        /\ Picked
        /\ SetIsFirstValid

-----------------------------------------------------------------------------
(* Types.                                                                  *)
LEMMA Constants ==
  /\ Idle \in Jobs /\ Blank \in Hashes /\ NoManifest \in Manifests
  /\ \A s \in Seeds, v \in 0 .. Edits : FactMap(s, v) \in FactMaps
  /\ Seeds \subseteq Nat
  /\ Len(Files) \in Nat \ {0} /\ DOMAIN Files = 1 .. Len(Files)
  /\ \A i \in 1 .. Len(Files) : Files[i] \in Range(Files)
  /\ \A f \in Range(Files) : \E i \in 1 .. Len(Files) : f = Files[i]
<1>1. Absent \in FactMaps
  BY TemplateAssumption DEF Absent, FactMaps
<1>2. Blank \in Hashes
  BY <1>1 DEF Blank, Hashes
<1>3. NoManifest \in Manifests
  BY <1>2 DEF NoManifest, Manifests
<1>4. << >> \in Listings
  <2>1. << >> \in [{} -> Dirs]
    OBVIOUS
  <2> QED  BY <2>1 DEF Listings
<1>5. Idle \in Jobs
  BY <1>1, <1>2, <1>4, TemplateAssumption DEF Idle, Jobs
<1>6. \A s \in Seeds, v \in 0 .. Edits : FactMap(s, v) \in FactMaps
  BY DEF FactMap, FactMaps
<1>7. Seeds \subseteq Nat
  BY DirsAssumption DEF Dirs
<1>8. Files \in Seq(Range(Files)) /\ Files # << >>
  BY DirsAssumption
<1> HIDE DEF Idle
<1>9. Len(Files) \in Nat \ {0} /\ DOMAIN Files = 1 .. Len(Files)
  BY <1>8
<1> QED  BY <1>2, <1>3, <1>5, <1>6, <1>7, <1>9 DEF Range

(* A finite set of numbers has a greatest, by the least counterexample.    *)
LEMMA Last ==
  ASSUME NEW T \in SUBSET Nat, IsFiniteSet(T), T # {}
  PROVE  \E d \in T : \A e \in T : e <= d
<1> DEFINE Bad == {U \in SUBSET T : U # {} /\ ~ \E d \in U : \A e \in U : e <= d}
<1>1. IsFiniteSet(T) /\ T \subseteq Nat
  OBVIOUS
<1> SUFFICES ASSUME Bad # {} PROVE FALSE
  OBVIOUS
<1>2. Bad \subseteq FiniteSubsetsOf(T)
  BY <1>1, FS_FiniteSubsetsOfFinite
<1>3. IsWellFoundedOn(StrictSubsetOrdering(T), FiniteSubsetsOf(T))
  BY FS_StrictSubsetOrderingWellFounded
<1>4. PICK U \in Bad : \A W \in Bad : ~(<<W, U>> \in StrictSubsetOrdering(T))
  <2> HIDE DEF Bad
  <2> QED  BY <1>2, <1>3, WFMin, Zenon
<1>5. PICK x \in U : TRUE
  OBVIOUS
<1>6. U \ {x} # {}
  BY <1>1, <1>5
<1>7. U \ {x} \notin Bad
  BY <1>4, <1>5 DEF StrictSubsetOrdering
<1>8. PICK y \in U \ {x} : \A e \in U \ {x} : e <= y
  BY <1>6, <1>7
<1>9. x \in Nat /\ y \in Nat /\ U \subseteq Nat
  BY <1>1, <1>5, <1>8
<1>10. CASE x <= y
  BY <1>5, <1>8, <1>9, <1>10
<1>11. CASE y <= x
  BY <1>5, <1>8, <1>9, <1>11
<1> QED  BY <1>9, <1>10, <1>11

LEMMA ExistingFacts ==
  ASSUME Types
  PROVE  /\ Existing \in Listings
         /\ DOMAIN Existing \subseteq Seeds
         /\ \A s \in DOMAIN Existing : /\ Existing[s] \in Dirs
                                       /\ manifest[Existing[s]].written
                                       /\ manifest[Existing[s]].seed = s
         /\ \A s \in Seeds : s \notin DOMAIN Existing =>
              \A d \in Dirs : ~(manifest[d].written /\ manifest[d].seed = s)
<1> DEFINE Holders(s) == {d \in Dirs : manifest[d].written /\ manifest[d].seed = s}
           Pick(s) == CHOOSE d \in Holders(s) : \A e \in Holders(s) : e <= d
           D == {s \in Seeds : Holders(s) # {}}
<1>1. Existing = [s \in D |-> Pick(s)]
  BY Zenon DEF Existing
<1>2. ASSUME NEW s \in D
      PROVE  Pick(s) \in Holders(s)
  <2>1. \E d \in Holders(s) : \A e \in Holders(s) : e <= d
    <3>1. Holders(s) \in SUBSET Dirs /\ Holders(s) # {}
      OBVIOUS
    <3> HIDE DEF Holders
    <3> QED  BY <3>1, DirsAssumption, FS_Subset, Last
  <2> HIDE DEF Holders
  <2> QED  BY <2>1
<1>3. D \in SUBSET Seeds /\ \A s \in D : Pick(s) \in Dirs
  BY <1>2
<1>4. Existing \in [D -> Dirs]
  <2> HIDE DEF Pick, D
  <2> QED  BY <1>1, <1>3
<1>5. Existing \in Listings
  BY <1>3, <1>4 DEF Listings
<1>6. DOMAIN Existing = D /\ \A s \in D : Existing[s] = Pick(s)
  <2> HIDE DEF Pick, D
  <2> QED  BY <1>1
<1>7. \A s \in D : /\ Existing[s] \in Dirs
                   /\ manifest[Existing[s]].written
                   /\ manifest[Existing[s]].seed = s
  BY <1>2, <1>6
<1> HIDE DEF Pick
<1> QED  BY <1>3, <1>5, <1>6, <1>7

(* The gate's verdict is a gate the instance fails, if there is one.       *)
LEMMA VerdictFacts ==
  ASSUME NEW v \in 0 .. Edits, NEW s \in Seeds
  PROVE  /\ Verdict(v, s) = "passed" => Failed(v, s) = {}
         /\ Verdict(v, s) # "passed" => Verdict(v, s) \in Failed(v, s) /\ Verdict(v, s) \in Gates
<1> DEFINE j == Judged[v][s]
<1>1. j \in [bound : BOOLEAN, coherent : BOOLEAN, floor : BOOLEAN, ceiling : BOOLEAN]
  BY TemplateAssumption
<1>2. Verdict(v, s) = CASE ~j.coherent -> "coherence"
                        [] j.coherent /\ ~j.floor -> "solvable_floor"
                        [] j.coherent /\ j.floor /\ ~j.ceiling -> "nontrivial_ceiling"
                        [] OTHER -> "passed"
  BY DEF Verdict
<1>3. Failed(v, s) = {g \in {"coherence", "solvable_floor", "nontrivial_ceiling"} :
                        \/ g = "coherence" /\ ~j.coherent
                        \/ g = "solvable_floor" /\ ~j.floor
                        \/ g = "nontrivial_ceiling" /\ ~j.ceiling}
  BY DEF Failed
<1> HIDE DEF j
<1>4. j.coherent \in BOOLEAN /\ j.floor \in BOOLEAN /\ j.ceiling \in BOOLEAN
  BY <1>1
<1>5. CASE ~j.coherent
  BY <1>2, <1>3, <1>5 DEF Gates
<1>6. CASE j.coherent /\ ~j.floor
  BY <1>2, <1>3, <1>6 DEF Gates
<1>7. CASE j.coherent /\ j.floor /\ ~j.ceiling
  BY <1>2, <1>3, <1>7 DEF Gates
<1>8. CASE j.coherent /\ j.floor /\ j.ceiling
  BY <1>2, <1>3, <1>8 DEF Gates
<1> QED  BY <1>4, <1>5, <1>6, <1>7, <1>8

(* What a search that goes on asks about: a seed of the scan, and of it a  *)
(* verdict of the version the answer names.                                *)
LEMMA GateFacts ==
  ASSUME Types, CacheIsHonest, Search, Phases, Scanning
  PROVE  /\ job.cur \in Seeds /\ job.op = "build"
         /\ Cached(job.version, job.cur).of \in 0 .. Edits
         /\ Judgement = Verdict(Cached(job.version, job.cur).of, job.cur)
<1>1. job.op = "build" /\ job.stage = "scan"
  BY DEF Scanning, Phases
<1>2. /\ job.start \in Starts /\ job.start <= job.cur /\ job.cur - job.start < ScanLimit
      /\ job.start \in Nat /\ job.cur \in Nat
  BY <1>1 DEF Search, Scanning, Types, Jobs
<1>3. job.cur \in job.start .. job.start + ScanLimit - 1
  BY <1>2, SearchAssumption
<1>4. job.cur \in Seeds
  BY <1>2, <1>3, SearchAssumption
<1>5. job.version \in 0 .. Edits
  BY DEF Types, Jobs
<1> QED  BY <1>1, <1>4, <1>5 DEF Cached, CacheIsHonest, Judgement

-----------------------------------------------------------------------------
(* What Next does, step by step.                                           *)
Serving == WriteFile \/ WriteManifest \/ HashContent \/ Stamp \/ Lock
Searching == Reject \/ Reuse \/ Materialize

LEMMA Steps ==
  ASSUME [Next]_vars
  PROVE  \/ Edit \/ Exit \/ Crash
         \/ \E d \in Dirs, s \in Seeds : Generate(d, s)
         \/ \E d \in Dirs : Freeze(d)
         \/ \E s \in Starts : BuildSet(s)
         \/ Serving
         \/ Unsatisfiable
         \/ Scanning /\ Searching
         \/ Publish
         \/ UNCHANGED vars
BY Zenon DEF Next, Work, Judge, Serving, Searching

LEMMA TypesStep ==
  ASSUME Types, CacheIsHonest, Search, Phases, [Next]_vars
  PROVE  Types'
<1> USE DEF Types, disk
<1>1. CASE Edit \/ Exit \/ UNCHANGED vars
  BY <1>1, TemplateAssumption DEF Edit, Exit, vars
<1>2. CASE Crash \/ Unsatisfiable
  BY <1>2, Constants DEF Crash, Unsatisfiable
<1>3. ASSUME NEW d \in Dirs, NEW s \in Seeds, Generate(d, s)
      PROVE  Types'
  <2>1. FactMap(s, version) \in FactMaps
    BY Constants
  <2>2. job' \in Jobs
    BY <1>3, <2>1, Constants DEF Generate, Jobs
  <2> QED  BY <1>3, <2>2 DEF Generate, Call
<1>4. ASSUME NEW d \in Dirs, Freeze(d)
      PROVE  Types'
  <2>2. job' \in Jobs
    BY <1>4, Constants DEF Freeze, Jobs
  <2> QED  BY <1>4, <2>2 DEF Freeze, Call
<1>5. ASSUME NEW s \in Starts, BuildSet(s)
      PROVE  Types'
  <2>1. s \in Nat /\ Existing \in Listings
    BY SearchAssumption, ExistingFacts
  <2>2. job' \in Jobs
    BY <1>5, <2>1, Constants DEF BuildSet, Jobs
  <2> QED  BY <1>5, <2>2 DEF BuildSet, Call
<1>6. CASE WriteFile
  <2>0. job.parts + 1 \in Nat
    BY DEF Jobs
  <2>1. job' \in Jobs
    BY <1>6, <2>0, Zenon DEF WriteFile, Jobs
  <2>2. content' \in [Dirs -> Hashes]
    BY <1>6, Constants DEF WriteFile, Jobs, Hashes
  <2> QED  BY <1>6, <2>1, <2>2 DEF WriteFile
<1>7. CASE WriteManifest
  <2>1. job' \in Jobs
    BY <1>7, Constants DEF WriteManifest, Jobs
  <2>2. [NoManifest EXCEPT !.seed = job.made.seed, !.written = TRUE] \in Manifests
    BY Constants DEF Manifests, Jobs, FactMaps
  <2> QED  BY <1>7, <2>1, <2>2 DEF WriteManifest
<1>8. CASE HashContent
  <2>1. job.dir \in Dirs
    BY <1>8 DEF HashContent, Phases, AtWork
  <2>2. job' \in Jobs
    BY <1>8, <2>1 DEF HashContent, Jobs
  <2> QED  BY <1>8, <2>2 DEF HashContent
<1>9. CASE Stamp
  <2>1. job' \in Jobs
    BY <1>9 DEF Stamp, Jobs
  <2>2. job.hash \in Hashes
    BY DEF Jobs
  <2>3. manifest' \in [Dirs -> Manifests]
    BY <1>9, <2>2 DEF Stamp, Manifests
  <2> QED  BY <1>9, <2>1, <2>3 DEF Stamp
<1>10. CASE Lock
  <2>1. job.dir \in Dirs
    BY <1>10 DEF Lock, Phases, AtWork
  <2>2. [seed |-> job.cur, dir |-> job.dir] \in Members
    BY <2>1 DEF Members, Jobs
  <2>4. Append(job.members, [seed |-> job.cur, dir |-> job.dir]) \in Seq(Members)
        /\ job.cur + 1 \in Nat
    BY <2>2 DEF Jobs
  <2>3. job' \in Jobs
    BY <1>10, <2>4, Constants DEF Lock, Jobs
  <2> QED  BY <1>10, <2>3 DEF Lock
<1>11. CASE Scanning /\ Searching
  <2>1. job.cur \in Seeds /\ job.op = "build" /\ job.cur \in Nat
    BY <1>11, GateFacts, Constants
  <2>2. CASE Reject
    <3>1. [seed |-> job.cur, stage |-> Judgement] \in Rejections
      BY <1>11, <2>1, <2>2, GateFacts, VerdictFacts DEF Reject, Rejections
    <3>2. /\ Append(job.rejected, [seed |-> job.cur, stage |-> Judgement]) \in Seq(Rejections)
          /\ job.cur + 1 \in Nat
      BY <3>1 DEF Jobs
    <3> QED  BY <2>2, <3>2 DEF Reject, Gate, Jobs
  <2>3. CASE Reuse
    <3>1. [seed |-> job.cur, dir |-> job.existing[job.cur]] \in Members
      BY <2>1, <2>3 DEF Reuse, Members, Search
    <3>2. /\ Append(job.members, [seed |-> job.cur, dir |-> job.existing[job.cur]])
               \in Seq(Members)
          /\ job.cur + 1 \in Nat
      BY <3>1 DEF Jobs
    <3> QED  BY <2>3, <3>2 DEF Reuse, Gate, Jobs
  <2>4. CASE Materialize
    <3>1. FactMap(job.cur, job.version) \in FactMaps /\ job.cur \in Dirs
      BY <2>1, Constants DEF Jobs, Dirs
    <3> QED  BY <2>4, <3>1 DEF Materialize, Gate, Jobs
  <2> QED  BY <1>11, <2>2, <2>3, <2>4 DEF Searching
<1>12. CASE Publish
  BY <1>12, Constants DEF Publish
<1> QED
  BY Steps, <1>1, <1>2, <1>3, <1>4, <1>5, <1>6, <1>7, <1>8, <1>9, <1>10, <1>11, <1>12
     DEF Serving

(* The job after each step that keeps it.                                  *)
Fields == {"op", "stage", "start", "cur", "version", "existing", "members", "rejected",
           "stale", "dir", "made", "parts", "hash"}

OnlyChanges(fields) == \A f \in Fields \ fields : job'[f] = job[f]

LEMMA JobSteps ==
  ASSUME Types
  PROVE  /\ Idle.op = "idle" /\ Idle.stage = "none" /\ Idle.parts = 0
         /\ WriteFile =>
              /\ OnlyChanges({"parts"})
              /\ job'.parts = job.parts + 1
         /\ WriteManifest /\ job.op # "generate" =>
              /\ OnlyChanges({"stage"})
              /\ job'.stage = "hash"
         /\ WriteManifest /\ job.op = "generate" => job' = Idle
         /\ HashContent =>
              /\ OnlyChanges({"stage", "hash"})
              /\ job'.stage = "stamp" /\ job'.hash = content[job.dir]
         /\ Stamp =>
              /\ OnlyChanges({"stage"})
              /\ job'.stage = "lock"
         /\ Lock /\ job.op = "freeze" => job' = Idle
         /\ Lock /\ job.op # "freeze" =>
              /\ OnlyChanges({"stage", "cur", "members"})
              /\ job'.stage = "scan" /\ job'.cur = job.cur + 1
              /\ job'.members = Append(job.members, [seed |-> job.cur, dir |-> job.dir])
         /\ Reject =>
              /\ OnlyChanges({"cur", "rejected", "stale"})
              /\ job'.cur = job.cur + 1
              /\ job'.rejected = Append(job.rejected, [seed |-> job.cur, stage |-> Judgement])
         /\ Reuse =>
              /\ OnlyChanges({"cur", "members", "stale"})
              /\ job'.cur = job.cur + 1
              /\ job'.members = Append(job.members, [seed |-> job.cur, dir |-> job.existing[job.cur]])
         /\ Materialize =>
              /\ OnlyChanges({"stage", "stale", "dir", "made", "parts"})
              /\ job'.stage = "write" /\ job'.dir = job.cur /\ job'.parts = 0
              /\ job'.made = FactMap(job.cur, job.version)
         /\ Searching =>
              /\ job'.stale = (job.stale \/ Cached(job.version, job.cur).of # job.version)
              /\ UNCHANGED <<version, content, manifest, readonly, set, calls, crashes>>
<1> USE DEF Types, Jobs, OnlyChanges, Fields
<1>1. Idle.op = "idle" /\ Idle.stage = "none" /\ Idle.parts = 0
  BY DEF Idle
<1>2. ASSUME WriteFile
      PROVE  /\ OnlyChanges({"parts"})
             /\ job'.parts = job.parts + 1
  BY <1>2 DEF WriteFile
<1>3. ASSUME WriteManifest, job.op # "generate"
      PROVE  /\ OnlyChanges({"stage"})
             /\ job'.stage = "hash"
  BY <1>3 DEF WriteManifest
<1>4. WriteManifest /\ job.op = "generate" => job' = Idle
  BY DEF WriteManifest
<1>5. ASSUME HashContent
      PROVE  /\ OnlyChanges({"stage", "hash"})
             /\ job'.stage = "stamp" /\ job'.hash = content[job.dir]
  BY <1>5 DEF HashContent
<1>6. ASSUME Stamp
      PROVE  /\ OnlyChanges({"stage"})
             /\ job'.stage = "lock"
  BY <1>6 DEF Stamp
<1>7. Lock /\ job.op = "freeze" => job' = Idle
  BY DEF Lock
<1>8. ASSUME Lock, job.op # "freeze"
      PROVE  /\ OnlyChanges({"stage", "cur", "members"})
             /\ job'.stage = "scan" /\ job'.cur = job.cur + 1
             /\ job'.members = Append(job.members, [seed |-> job.cur, dir |-> job.dir])
  BY <1>8 DEF Lock
<1>9. ASSUME Reject
      PROVE  /\ OnlyChanges({"cur", "rejected", "stale"})
             /\ job'.cur = job.cur + 1
             /\ job'.rejected = Append(job.rejected, [seed |-> job.cur, stage |-> Judgement])
  BY <1>9 DEF Reject, Gate
<1>10. ASSUME Reuse
      PROVE  /\ OnlyChanges({"cur", "members", "stale"})
             /\ job'.cur = job.cur + 1
             /\ job'.members = Append(job.members, [seed |-> job.cur, dir |-> job.existing[job.cur]])
  BY <1>10 DEF Reuse, Gate
<1>11. ASSUME Materialize
      PROVE  /\ OnlyChanges({"stage", "stale", "dir", "made", "parts"})
             /\ job'.stage = "write" /\ job'.dir = job.cur /\ job'.parts = 0
             /\ job'.made = FactMap(job.cur, job.version)
  BY <1>11 DEF Materialize, Gate
<1>12. ASSUME Searching
       PROVE  /\ job'.stale = (job.stale \/ Cached(job.version, job.cur).of # job.version)
              /\ UNCHANGED <<version, content, manifest, readonly, set, calls, crashes>>
  <2>1. CASE Reject
    BY <2>1 DEF Reject, Gate, disk
  <2>2. CASE Reuse
    BY <2>2 DEF Reuse, Gate, disk
  <2>3. CASE Materialize
    BY <2>3 DEF Materialize, Gate, disk
  <2> QED  BY <1>12, <2>1, <2>2, <2>3 DEF Searching
<1> HIDE DEF Types, Jobs, OnlyChanges, Fields
<1> QED
  BY <1>1, <1>2, <1>3, <1>4, <1>5, <1>6, <1>7, <1>8, <1>9, <1>10, <1>11, <1>12

-----------------------------------------------------------------------------
(* The writer knows its directory.                                         *)
LEMMA PhasesStep ==
  ASSUME Types, Types', CacheIsHonest, Search, Phases, Named, StampIsContent, [Next]_vars
  PROVE  Phases'
<1> USE DEF Phases, AtWork, disk
<1>1. CASE Edit \/ Exit \/ UNCHANGED vars
  BY <1>1 DEF Edit, Exit, vars
<1>2. CASE job' = Idle
  BY <1>2, JobSteps, Constants
<1>3. ASSUME NEW d \in Dirs, NEW s \in Seeds, Generate(d, s)
      PROVE  Phases'
  <2>1. /\ job'.op = "generate" /\ job'.stage = "write" /\ job'.dir = d /\ job'.parts = 0
        /\ job'.made = FactMap(s, version) /\ FactMap(s, version).seed = s
    BY <1>3, Constants DEF Generate, Idle, FactMap
  <2>2. readonly' = readonly /\ ~readonly[d] /\ (d \in Seeds => d = s)
    BY <1>3, DirsAssumption DEF Generate
  <2> QED  BY <2>1, <2>2, Constants
<1>4. ASSUME NEW d \in Dirs, Freeze(d)
      PROVE  Phases'
  <2>1. job'.op = "freeze" /\ job'.stage = "hash" /\ job'.dir = d /\ job'.parts = 0
    BY <1>4 DEF Freeze, Idle
  <2>2. manifest' = manifest /\ manifest[d].written
    BY <1>4 DEF Freeze
  <2> QED  BY <2>1, <2>2, Constants
<1>5. ASSUME NEW s \in Starts, BuildSet(s)
      PROVE  Phases'
  <2>1. job'.op = "build" /\ job'.stage = "scan" /\ job'.parts = 0
    BY <1>5 DEF BuildSet, Idle
  <2> QED  BY <2>1, Constants
<1>6. CASE WriteFile
  <2>1. /\ job'.op = job.op /\ job'.stage = "write" /\ job.stage = "write"
        /\ job'.dir = job.dir /\ job'.made = job.made /\ job'.parts = job.parts + 1
    BY <1>6, JobSteps DEF WriteFile, OnlyChanges, Fields
  <2>2. /\ readonly' = readonly /\ job.parts \in Nat /\ job.parts < Len(Files)
        /\ content' = [content EXCEPT ![job.dir][Files[job.parts + 1]] = job.made]
    BY <1>6 DEF WriteFile, Types, Jobs
  <2>3. \A i \in 1 .. job'.parts : content'[job.dir][Files[i]] = job.made
    <3> TAKE i \in 1 .. job'.parts
    <3>1. i \in 1 .. Len(Files) /\ job.parts + 1 \in 1 .. Len(Files)
      BY <2>1, <2>2, Constants
    <3>2. content[job.dir] \in [Range(Files) -> FactMaps] /\ job.dir \in Dirs
      BY <2>1 DEF Types, Hashes
    <3>3. Files[i] \in Range(Files) /\ Files[job.parts + 1] \in Range(Files)
      BY <3>1, Constants
    <3>4. CASE i = job.parts + 1
      BY <2>2, <3>2, <3>3, <3>4 DEF Types
    <3>5. CASE i \in 1 .. job.parts
      BY <2>1, <2>2, <3>2, <3>3, <3>5 DEF Types
    <3> QED  BY <2>1, <2>2, <3>4, <3>5
  <2> QED  BY <2>1, <2>2, <2>3, Constants
<1>7. CASE WriteManifest /\ job.op # "generate"
  <2>1. /\ job'.op = "build" /\ job'.stage = "hash" /\ job'.dir = job.dir
        /\ job'.parts = job.parts
    BY <1>7, JobSteps DEF WriteManifest, OnlyChanges, Fields
  <2>2. manifest'[job.dir].written
    BY <1>7 DEF WriteManifest, Types, NoManifest
  <2> QED  BY <1>7, <2>1, <2>2 DEF WriteManifest
<1>8. CASE HashContent
  <2>1. /\ job'.op = job.op /\ job'.stage = "stamp" /\ job'.dir = job.dir
        /\ job'.parts = job.parts /\ job'.hash = content[job.dir]
    BY <1>8, JobSteps DEF OnlyChanges, Fields
  <2>2. ~readonly'[job.dir] /\ content' = content /\ manifest' = manifest
    BY <1>8 DEF HashContent, Types
  <2> QED  BY <1>8, <2>1, <2>2 DEF HashContent
<1>9. CASE Stamp
  <2>1. /\ job'.op = job.op /\ job'.stage = "lock" /\ job'.dir = job.dir
        /\ job'.parts = job.parts /\ job'.hash = job.hash
    BY <1>9, JobSteps DEF OnlyChanges, Fields
  <2>2. /\ content' = content /\ readonly' = readonly
        /\ manifest'[job.dir].frozen /\ manifest'[job.dir].hash = job.hash
        /\ manifest'[job.dir].written = manifest[job.dir].written
    BY <1>9 DEF Stamp, Types, Manifests
  <2> QED  BY <1>9, <2>1, <2>2 DEF Stamp
<1>10. CASE Lock /\ job.op # "freeze"
  <2>1. job'.op = "build" /\ job'.stage = "scan" /\ job'.parts = job.parts
    BY <1>10, JobSteps DEF Lock, OnlyChanges, Fields
  <2> QED  BY <2>1
<1>11. CASE Scanning /\ Searching
  <2>1. job.op = "build" /\ job.stage = "scan" /\ job.cur \in Seeds
    BY <1>11, GateFacts DEF Scanning
  <2>2. CASE Reject \/ Reuse
    <3>1. job'.op = "build" /\ job'.stage = "scan" /\ job'.parts = job.parts
      BY <2>1, <2>2, JobSteps DEF OnlyChanges, Fields
    <3> QED  BY <3>1
  <2>3. CASE Materialize
    <3>1. /\ job'.op = "build" /\ job'.stage = "write" /\ job'.dir = job.cur /\ job'.parts = 0
          /\ job'.made = FactMap(job.cur, job.version) /\ readonly' = readonly
      BY <1>11, <2>1, <2>3, JobSteps DEF OnlyChanges, Fields
    <3>2. ~readonly[job.cur]
      <4>1. job.cur \in Nat /\ job.cur >= job.cur /\ job.cur \notin DOMAIN job.existing
        BY <2>1, <2>3, Constants DEF Materialize
      <4>2. ~manifest[job.cur].written
        BY <2>1, <4>1 DEF Search
      <4> QED  BY <2>1, <4>2 DEF StampIsContent, Named, Dirs
    <3> QED  BY <2>1, <3>1, <3>2, Constants DEF FactMap, Dirs
  <2> QED  BY <1>11, <2>2, <2>3 DEF Searching
<1>12. CASE Crash \/ Unsatisfiable \/ Publish
  BY <1>2, <1>12 DEF Crash, Unsatisfiable, Publish
<1>13. CASE WriteManifest /\ job.op = "generate"
  BY <1>2, <1>13 DEF WriteManifest
<1>14. CASE Lock /\ job.op = "freeze"
  BY <1>2, <1>14 DEF Lock
<1> HIDE DEF Phases, AtWork, disk
<1> QED
  BY Steps, <1>1, <1>3, <1>4, <1>5, <1>6, <1>7, <1>8, <1>9, <1>10, <1>11, <1>12, <1>13,
     <1>14 DEF Serving

-----------------------------------------------------------------------------
(* What the steps do to the directories.                                   *)
DirsStand == UNCHANGED <<content, manifest, readonly>>

LEMMA DirSteps ==
  ASSUME Types, Phases, [Next]_vars
  PROVE  \/ DirsStand
         \/ /\ WriteFile /\ UNCHANGED <<manifest, readonly>>
            /\ \A d \in Dirs : d # job.dir => content'[d] = content[d]
         \/ /\ WriteManifest /\ UNCHANGED <<content, readonly>>
            /\ manifest'[job.dir].seed = job.made.seed
            /\ manifest'[job.dir].written /\ ~manifest'[job.dir].frozen
            /\ \A d \in Dirs : d # job.dir => manifest'[d] = manifest[d]
         \/ /\ HashContent /\ UNCHANGED <<content, manifest>>
            /\ ~readonly'[job.dir]
            /\ \A d \in Dirs : d # job.dir => readonly'[d] = readonly[d]
         \/ /\ Stamp /\ UNCHANGED <<content, readonly>>
            /\ manifest'[job.dir].seed = manifest[job.dir].seed
            /\ manifest'[job.dir].written = manifest[job.dir].written
            /\ manifest'[job.dir].frozen /\ manifest'[job.dir].hash = job.hash
            /\ \A d \in Dirs : d # job.dir => manifest'[d] = manifest[d]
         \/ /\ Lock /\ UNCHANGED <<content, manifest>>
            /\ readonly'[job.dir]
            /\ \A d \in Dirs : d # job.dir => readonly'[d] = readonly[d]
<1> USE DEF DirsStand, disk
<1>1. CASE Edit \/ Exit \/ UNCHANGED vars \/ Crash \/ Unsatisfiable \/ Publish
  BY <1>1 DEF Edit, Exit, vars, Crash, Unsatisfiable, Publish
<1>2. ASSUME NEW d \in Dirs, NEW s \in Seeds, Generate(d, s)
      PROVE  DirsStand
  BY <1>2 DEF Generate
<1>3. ASSUME NEW d \in Dirs, Freeze(d)
      PROVE  DirsStand
  BY <1>3 DEF Freeze
<1>4. ASSUME NEW s \in Starts, BuildSet(s)
      PROVE  DirsStand
  BY <1>4 DEF BuildSet
<1>5. CASE Scanning /\ Searching
  BY <1>5, JobSteps
<1>6. CASE WriteFile
  BY <1>6 DEF WriteFile, Types
<1>7. CASE WriteManifest
  BY <1>7 DEF WriteManifest, Types, NoManifest, Phases, AtWork
<1>8. CASE HashContent
  BY <1>8 DEF HashContent, Types, Phases, AtWork
<1>9. CASE Stamp
  BY <1>9 DEF Stamp, Types, Manifests, Phases, AtWork
<1>10. CASE Lock
  BY <1>10 DEF Lock, Types, Phases, AtWork
<1> QED
  BY Steps, <1>1, <1>2, <1>3, <1>4, <1>5, <1>6, <1>7, <1>8, <1>9, <1>10 DEF Serving

(* Directories keep their seeds and stamps.                                *)
LEMMA NamedStep ==
  ASSUME Types, Phases, Named, [Next]_vars
  PROVE  Named'
<1> USE DEF Named
<1>1. CASE DirsStand
  BY <1>1 DEF DirsStand
<1>2. CASE WriteManifest
  <2>1. job.stage = "write" /\ job.dir \in Dirs /\ (job.dir \in Seeds => job.made.seed = job.dir)
    BY <1>2 DEF WriteManifest, Phases, AtWork
  <2> QED  BY <1>2, <2>1, DirSteps DEF WriteManifest, NoManifest, Types
<1>3. CASE Stamp
  <2>1. job.dir \in Dirs /\ manifest[job.dir].written
    BY <1>3 DEF Stamp, Phases, AtWork
  <2> QED  BY <1>3, <2>1 DEF Stamp, Types, Manifests
<1>4. CASE UNCHANGED manifest
  BY <1>4
<1> QED  BY <1>1, <1>2, <1>3, <1>4, DirSteps

LEMMA StampStep ==
  ASSUME Types, Phases, StampIsContent, [Next]_vars
  PROVE  StampIsContent'
<1> USE DEF StampIsContent
<1>1. CASE DirsStand
  BY <1>1 DEF DirsStand
<1>2. CASE ~DirsStand
  <2>1. job.dir \in Dirs
    BY <1>2, DirSteps DEF WriteFile, WriteManifest, HashContent, Stamp, Lock, Phases, AtWork
  <2>2. \A d \in Dirs : d # job.dir =>
          /\ content'[d] = content[d] /\ manifest'[d] = manifest[d] /\ readonly'[d] = readonly[d]
    BY <1>2, DirSteps
  <2>3. readonly'[job.dir] =>
          manifest'[job.dir].frozen /\ manifest'[job.dir].hash = content'[job.dir]
    BY <1>2, <2>1, DirSteps DEF WriteFile, WriteManifest, Stamp, Lock, Phases
  <2> QED  BY <2>1, <2>2, <2>3
<1> QED  BY <1>1, <1>2

(* Whoever has a directory in hand goes on with it, unless it is killed.   *)
LEMMA InHand ==
  ASSUME Types, CacheIsHonest, Search, Phases, [Next]_vars
  PROVE  /\ crashes \in Nat /\ (crashes' = crashes \/ (crashes' = crashes + 1 /\ Crash))
         /\ job.stage = "write" =>
              \/ WriteManifest
              \/ Crash
              \/ job'.stage = "write" /\ job'.dir = job.dir
         /\ job.stage \in {"stamp", "lock"} =>
              \/ Lock
              \/ Crash
              \/ job'.stage \in {"stamp", "lock"} /\ job'.dir = job.dir
<1> USE DEF Types, Jobs, Phases, AtWork
<1>1. CASE Edit \/ Exit \/ UNCHANGED vars
  BY <1>1 DEF Edit, Exit, vars
<1>2. CASE Crash
  BY <1>2 DEF Crash
<1>3. ASSUME NEW d \in Dirs, NEW s \in Seeds, Generate(d, s)
      PROVE  job = Idle /\ crashes' = crashes
  BY <1>3 DEF Generate, Call
<1>4. ASSUME NEW d \in Dirs, Freeze(d)
      PROVE  job = Idle /\ crashes' = crashes
  BY <1>4 DEF Freeze, Call
<1>5. ASSUME NEW s \in Starts, BuildSet(s)
      PROVE  job = Idle /\ crashes' = crashes
  BY <1>5 DEF BuildSet, Call
<1>6. CASE WriteFile
  BY <1>6, JobSteps DEF WriteFile, OnlyChanges, Fields
<1>7. CASE WriteManifest
  BY <1>7 DEF WriteManifest
<1>8. CASE HashContent
  BY <1>8 DEF HashContent
<1>9. CASE Stamp
  BY <1>9, JobSteps DEF Stamp, OnlyChanges, Fields
<1>10. CASE Lock
  BY <1>10 DEF Lock
<1>11. CASE Scanning /\ Searching
  BY <1>11, JobSteps DEF Scanning
<1>12. CASE Unsatisfiable \/ Publish
  BY <1>12 DEF Unsatisfiable, Scanning, Publish
<1> HIDE DEF Types, Jobs, Phases, AtWork
<1>13. job = Idle => job.stage = "none"
  BY JobSteps
<1>14. crashes \in Nat
  BY DEF Types
<1> QED
  BY Steps, <1>1, <1>2, <1>3, <1>4, <1>5, <1>6, <1>7, <1>8, <1>9, <1>10, <1>11, <1>12,
     <1>13, <1>14 DEF Serving

LEMMA UnkilledStep ==
  ASSUME Types, Phases, CacheIsHonest, Search, Named, StampIsContent, Unkilled, [Next]_vars
  PROVE  Unkilled'
<1> SUFFICES ASSUME crashes' = 0, NEW d \in Dirs
             PROVE  /\ manifest'[d].written /\ ~WritesInto(d)' =>
                         content'[d][Files[1]].seed = manifest'[d].seed
                    /\ manifest'[d].frozen =>
                         /\ manifest'[d].hash = content'[d]
                         /\ readonly'[d] \/ (job'.stage \in {"stamp", "lock"} /\ job'.dir = d)
  BY DEF Unkilled
<1>1. crashes = 0 /\ ~Crash
  BY InHand DEF Crash
<1>2. /\ manifest[d].written /\ ~WritesInto(d) => content[d][Files[1]].seed = manifest[d].seed
      /\ manifest[d].frozen =>
           /\ manifest[d].hash = content[d]
           /\ readonly[d] \/ (job.stage \in {"stamp", "lock"} /\ job.dir = d)
  BY <1>1 DEF Unkilled
<1>3. \/ WritesInto(d)'
      \/ ~WritesInto(d)
      \/ WriteManifest
  BY <1>1, InHand DEF WritesInto
<1>4. CASE DirsStand /\ ~WriteManifest /\ ~Lock
  <2>1. content' = content /\ manifest' = manifest /\ readonly' = readonly
    BY <1>4 DEF DirsStand
  <2>2. job.stage \in {"stamp", "lock"} /\ job.dir = d =>
          job'.stage \in {"stamp", "lock"} /\ job'.dir = d
    BY <1>1, <1>4, InHand
  <2> QED  BY <1>2, <1>3, <1>4, <2>1, <2>2
<1>5. CASE WriteFile
  <2>1. /\ job.stage = "write" /\ job'.stage = "write" /\ job'.dir = job.dir
        /\ manifest' = manifest /\ readonly' = readonly /\ ~readonly[job.dir]
        /\ d # job.dir => content'[d] = content[d]
    BY <1>5, JobSteps, DirSteps DEF WriteFile, OnlyChanges, Fields, Phases
  <2> QED  BY <1>2, <2>1 DEF WritesInto
<1>6. CASE WriteManifest
  <2>1. /\ job.stage = "write" /\ content' = content /\ readonly' = readonly
        /\ job.parts = Len(Files)
    BY <1>6 DEF WriteManifest
  <2>2. CASE d # job.dir
    <3>1. manifest'[d] = manifest[d]
      BY <1>6, <2>2 DEF WriteManifest, Types
    <3> QED  BY <1>2, <2>1, <2>2, <3>1 DEF WritesInto
  <2>3. CASE d = job.dir
    <3>1. manifest'[d].seed = job.made.seed /\ ~manifest'[d].frozen
      BY <1>6, <2>3 DEF WriteManifest, Types, NoManifest
    <3>2. content[d][Files[1]] = job.made
      BY <2>1, <2>3, Constants DEF Phases
    <3> QED  BY <2>1, <3>1, <3>2
  <2> QED  BY <2>2, <2>3
<1>7. CASE HashContent
  <2>1. /\ job.stage = "hash" /\ job'.stage = "stamp" /\ job'.dir = job.dir
        /\ manifest' = manifest /\ content' = content
        /\ d # job.dir => readonly'[d] = readonly[d]
    BY <1>7, JobSteps DEF HashContent, OnlyChanges, Fields, Types
  <2> QED  BY <1>2, <2>1 DEF WritesInto
<1>8. CASE Stamp
  <2>1. /\ job.stage = "stamp" /\ job'.stage = "lock" /\ job'.dir = job.dir
        /\ readonly' = readonly /\ content' = content /\ job.hash = content[job.dir]
    BY <1>8, JobSteps DEF Stamp, OnlyChanges, Fields, Phases
  <2>2. d # job.dir => manifest'[d] = manifest[d]
    BY <1>8 DEF Stamp, Types
  <2>3. d = job.dir => /\ manifest'[d].seed = manifest[d].seed
                       /\ manifest'[d].written = manifest[d].written
                       /\ manifest'[d].hash = job.hash
    BY <1>8 DEF Stamp, Types, Manifests
  <2> QED  BY <1>2, <2>1, <2>2, <2>3 DEF WritesInto
<1>9. CASE Lock
  <2>1. /\ job.stage = "lock" /\ manifest' = manifest /\ content' = content
        /\ readonly'[d] = IF d = job.dir THEN TRUE ELSE readonly[d]
    BY <1>9 DEF Lock, Types
  <2> QED  BY <1>2, <2>1 DEF WritesInto
<1> QED
  BY DirSteps, <1>4, <1>5, <1>6, <1>7, <1>8, <1>9

-----------------------------------------------------------------------------
(* A directory comes to be torn by a kill, and by nothing else.            *)
TornDirs == {d \in Dirs : Torn(d)}

LEMMA TornStep ==
  ASSUME Types, Phases, CacheIsHonest, Search, TornByKills, [Next]_vars
  PROVE  TornByKills'
<1>1. IsFiniteSet(TornDirs) /\ Cardinality(TornDirs) \in Nat /\ Cardinality(TornDirs) <= crashes
  <2>1. TornDirs \in SUBSET Dirs
    BY DEF TornDirs
  <2> QED  BY <2>1, DirsAssumption, FS_Subset, FS_CardinalityType DEF TornByKills, TornDirs
<1>2. SUFFICES /\ IsFiniteSet(TornDirs') /\ Cardinality(TornDirs') <= crashes'
  BY DEF TornByKills, TornDirs
<1>3. /\ crashes \in Nat
      /\ crashes' = crashes \/ (crashes' = crashes + 1 /\ Crash)
  BY InHand
<1>4. ASSUME ~Crash
      PROVE  TornDirs' \subseteq TornDirs
  <2> SUFFICES ASSUME NEW d \in Dirs, Torn(d)', ~Torn(d)
               PROVE  FALSE
    BY DEF TornDirs
  <2>1. /\ manifest'[d].written
        /\ ~(job'.stage = "write" /\ job'.dir = d)
        /\ \E f, g \in Range(Files) : content'[d][f] # content'[d][g]
    BY DEF Torn
  <2>2. ~(job.stage = "write" /\ job.dir = d) \/ WriteManifest
    BY <1>4, <2>1, InHand
  <2>3. CASE WriteManifest /\ job.dir = d
    <3>1. content' = content /\ job.stage = "write" /\ job.parts = Len(Files)
      BY <2>3 DEF WriteManifest
    <3>2. \A f \in Range(Files) : content[d][f] = job.made
      BY <2>3, <3>1, Constants DEF Phases
    <3> QED  BY <2>1, <3>1, <3>2
  <2>4. CASE ~(job.stage = "write" /\ job.dir = d)
    <3>1. content'[d] = content[d]
      BY <2>4, DirSteps DEF DirsStand, WriteFile
    <3>2. manifest[d].written
      <4>1. ~(WriteManifest /\ d = job.dir)
        BY <2>4 DEF WriteManifest
      <4> QED  BY <2>1, <4>1, DirSteps DEF DirsStand
    <3> QED  BY <2>1, <2>4, <3>1, <3>2 DEF Torn
  <2> QED  BY <2>2, <2>3, <2>4 DEF WriteManifest
<1>5. CASE ~Crash
  BY <1>1, <1>3, <1>4, <1>5, FS_Subset, FS_CardinalityType
<1>6. CASE Crash
  <2>1. TornDirs' \subseteq TornDirs \cup {job.dir}
    BY <1>6 DEF TornDirs, Torn, Crash, disk
  <2>2. IsFiniteSet(TornDirs \cup {job.dir})
        /\ Cardinality(TornDirs \cup {job.dir}) <= Cardinality(TornDirs) + 1
        /\ Cardinality(TornDirs \cup {job.dir}) \in Nat
    <3>1. /\ IsFiniteSet(TornDirs \cup {job.dir})
          /\ Cardinality(TornDirs \cup {job.dir}) =
               IF job.dir \in TornDirs THEN Cardinality(TornDirs) ELSE Cardinality(TornDirs) + 1
      BY <1>1, FS_AddElement
    <3> QED  BY <1>1, <3>1
  <2>3. IsFiniteSet(TornDirs') /\ Cardinality(TornDirs') <= Cardinality(TornDirs \cup {job.dir})
        /\ Cardinality(TornDirs') \in Nat
    BY <2>1, <2>2, FS_Subset, FS_CardinalityType
  <2>4. crashes' = crashes + 1
    BY <1>6 DEF Crash
  <2> QED  BY <1>1, <1>3, <2>2, <2>3, <2>4
<1> QED  BY <1>5, <1>6

-----------------------------------------------------------------------------
(* The search.                                                             *)
LEMMA SearchStep ==
  ASSUME Types, Types', Phases, CacheIsHonest, Search, Named, [Next]_vars
  PROVE  Search'
<1> SUFFICES ASSUME job'.op = "build" PROVE Search'
  BY DEF Search
<1> USE DEF disk
<1>1. job' # Idle
  BY JobSteps
<1>2. CASE Edit \/ Exit \/ UNCHANGED vars
  BY <1>2 DEF Edit, Exit, vars, Search
<1>3. CASE \E d \in Dirs, s \in Seeds : Generate(d, s)
  BY <1>3 DEF Generate, Idle
<1>4. CASE \E d \in Dirs : Freeze(d)
  BY <1>4 DEF Freeze, Idle
<1>5. ASSUME NEW s \in Starts, BuildSet(s)
      PROVE  Search'
  <2>1. /\ job'.start = s /\ job'.cur = s /\ job'.stage = "scan" /\ job'.existing = Existing
        /\ manifest' = manifest
    BY <1>5 DEF BuildSet, Idle
  <2>2. s \in Nat /\ s <= s /\ s <= s + ScanLimit
    BY SearchAssumption
  <2>3. \A t \in Seeds : t \notin DOMAIN Existing => ~manifest[t].written
    BY ExistingFacts DEF Named, Dirs
  <2> QED  BY <2>1, <2>2, <2>3, ExistingFacts DEF Search
<1>6. ASSUME WriteFile \/ HashContent \/ Stamp \/ (WriteManifest /\ job.op # "generate")
      PROVE  Search'
  <2>1. /\ job.op = "build" /\ job.stage # "scan" /\ AtWork /\ job'.stage # "scan"
        /\ job'.start = job.start /\ job'.cur = job.cur /\ job'.existing = job.existing
        /\ job'.dir = job.dir /\ job'.members = job.members
        /\ job'.stage = "write" => job.stage = "write" /\ job'.made = job.made
        /\ job.stage # "write" => job'.stage # "write"
    BY <1>6, JobSteps DEF WriteFile, HashContent, Stamp, WriteManifest, OnlyChanges, Fields, AtWork
  <2>2. \A d \in Dirs : d # job.dir => manifest'[d] = manifest[d]
    BY <1>6, DirSteps DEF DirsStand, WriteFile, HashContent, Stamp, WriteManifest, Lock
  <2>3. \/ job.stage = "write" /\ ~manifest[job.dir].written
        \/ /\ job.stage # "write" /\ manifest'[job.dir].written = manifest[job.dir].written
           /\ manifest'[job.dir].seed = manifest[job.dir].seed
    <3>1. CASE job.stage = "write"
      <4>1. job.cur \in Seeds /\ job.dir = job.cur /\ job.cur \notin DOMAIN job.existing
        BY <2>1 DEF Search
      <4>2. job.cur >= job.cur
        BY <4>1, Constants
      <4> QED  BY <2>1, <3>1, <4>1, <4>2 DEF Search
    <3>2. CASE job.stage # "write"
      BY <1>6, <3>2, DirSteps DEF DirsStand, WriteFile, WriteManifest, Lock
    <3> QED  BY <3>1, <3>2
  <2>4. \A s \in DOMAIN job.existing :
          /\ job.existing[s] \in Dirs
          /\ manifest'[job.existing[s]].written
          /\ manifest'[job.existing[s]].seed = s
    BY <2>1, <2>2, <2>3 DEF Search
  <2>5. ASSUME NEW s \in Seeds, s >= job.cur, s \notin DOMAIN job.existing,
               s = job.cur => job'.stage \in {"scan", "write"}
        PROVE  ~manifest'[s].written
    <3>1. CASE s # job.cur
      BY <2>1, <2>2, <2>5, <3>1 DEF Search, Dirs
    <3>2. CASE s = job.cur
      <4>1. job.stage = "write" /\ job'.stage = "write"
        BY <2>1, <2>5, <3>2
      <4>2. manifest' = manifest
        BY <1>6, <4>1, JobSteps DEF WriteFile, HashContent, Stamp, WriteManifest
      <4> QED  BY <2>1, <2>5, <3>2, <4>1, <4>2 DEF Search
    <3> QED  BY <3>1, <3>2
  <2> QED  BY <2>1, <2>4, <2>5 DEF Search
<1>7. ASSUME Lock, job.op # "freeze"
      PROVE  Search'
  <2>1. /\ job.op = "build" /\ job.stage = "lock" /\ job'.stage = "scan"
        /\ job'.start = job.start /\ job'.cur = job.cur + 1 /\ job'.existing = job.existing
        /\ manifest' = manifest
    BY <1>7, JobSteps DEF Lock, OnlyChanges, Fields, Phases
  <2>2. job.start \in Nat /\ job.cur \in Nat
    BY DEF Types, Jobs
  <2>3. \A s \in Seeds : s >= job.cur + 1 => s >= job.cur /\ s # job.cur
    BY <2>2, Constants
  <2> QED  BY <2>1, <2>2, <2>3, SearchAssumption DEF Search
<1>8. ASSUME Scanning, Searching
      PROVE  Search'
  <2>1. /\ job.op = "build" /\ job.stage = "scan" /\ job.cur \in Seeds
        /\ manifest' = manifest /\ job.cur - job.start < ScanLimit /\ Len(job.members) < Count
    BY <1>8, GateFacts, JobSteps DEF Scanning
  <2>2. job.start \in Nat /\ job.cur \in Nat
    BY DEF Types, Jobs
  <2>3. \A s \in Seeds : s >= job.cur + 1 => s >= job.cur /\ s # job.cur
    BY <2>2, Constants
  <2>4. CASE Reject \/ Reuse
    <3>1. /\ job'.start = job.start /\ job'.cur = job.cur + 1 /\ job'.existing = job.existing
          /\ job'.stage = "scan"
      BY <2>1, <2>4, JobSteps DEF OnlyChanges, Fields
    <3> QED  BY <2>1, <2>2, <2>3, <3>1, SearchAssumption DEF Search
  <2>5. CASE Materialize
    <3>1. /\ job'.start = job.start /\ job'.cur = job.cur /\ job'.existing = job.existing
          /\ job'.stage = "write" /\ job'.dir = job.cur /\ job'.members = job.members
          /\ job'.made.seed = job.cur
      BY <2>1, <2>5, JobSteps DEF OnlyChanges, Fields, FactMap
    <3>2. job.cur \notin DOMAIN job.existing
      BY <2>5 DEF Materialize
    <3> QED  BY <2>1, <2>2, <3>1, <3>2, SearchAssumption DEF Search
  <2> QED  BY <1>8, <2>4, <2>5 DEF Searching
<1>9. CASE Crash \/ Unsatisfiable \/ Publish
  BY <1>1, <1>9 DEF Crash, Unsatisfiable, Publish
<1>10. CASE (WriteManifest /\ job.op = "generate") \/ (Lock /\ job.op = "freeze")
  BY <1>1, <1>10, JobSteps
<1> QED
  BY Steps, <1>2, <1>3, <1>4, <1>5, <1>6, <1>7, <1>8, <1>9, <1>10
     DEF Serving

(* A list with one more entry.                                             *)
LEMMA Longer ==
  ASSUME NEW S, NEW list \in Seq(S), NEW x \in S
  PROVE  /\ DOMAIN list = 1 .. Len(list) /\ Len(list) \in Nat
         /\ DOMAIN Append(list, x) = DOMAIN list \cup {Len(list) + 1}
         /\ Len(list) + 1 \notin DOMAIN list
         /\ Append(list, x)[Len(list) + 1] = x
         /\ \A i \in DOMAIN list : Append(list, x)[i] = list[i]
         /\ Len(Append(list, x)) = Len(list) + 1
         /\ SeedsOf(Append(list, x)) = SeedsOf(list) \cup {x.seed}
<1>1. /\ DOMAIN list = 1 .. Len(list) /\ Len(list) \in Nat
      /\ DOMAIN Append(list, x) = DOMAIN list \cup {Len(list) + 1}
      /\ Len(list) + 1 \notin DOMAIN list
      /\ Append(list, x)[Len(list) + 1] = x
      /\ \A i \in DOMAIN list : Append(list, x)[i] = list[i]
      /\ Len(Append(list, x)) = Len(list) + 1
  OBVIOUS
<1>2. SeedsOf(Append(list, x)) = SeedsOf(list) \cup {x.seed}
  <2> DEFINE longer == Append(list, x)
  <2> HIDE DEF longer
  <2>1. SeedsOf(longer) = SeedsOf(list) \cup {x.seed}
    BY <1>1 DEF SeedsOf, longer
  <2> QED  BY <2>1 DEF longer
<1> QED  BY <1>1, <1>2

(* What a member found stays found as the search goes on past it.          *)
FoundIn(members) ==
  /\ \A i \in DOMAIN members :
       /\ manifest[members[i].dir].written
       /\ manifest[members[i].dir].seed = members[i].seed
       /\ members[i].seed < job.cur
       /\ ~WritesInto(members[i].dir)
  /\ \A i, j \in DOMAIN members : members[i].seed = members[j].seed => i = j

LEMMA FoundStep ==
  ASSUME Types, Types', Phases, CacheIsHonest, Search, Named, Found, [Next]_vars
  PROVE  Found'
<1> SUFFICES ASSUME job'.op = "build" PROVE FoundIn(job.members)'
  BY DEF Found, FoundIn
<1> USE DEF disk
<1>1. job' # Idle
  BY JobSteps
<1>2. job.op = "build" => /\ FoundIn(job.members)
                          /\ job.members \in Seq(Members) /\ job.cur \in Nat
                          /\ \A i \in DOMAIN job.members :
                               job.members[i].dir \in Dirs /\ job.members[i].seed \in Nat
  <2>1. job.members \in Seq(Members) /\ job.cur \in Nat
    BY DEF Types, Jobs
  <2>2. \A i \in DOMAIN job.members : job.members[i] \in Members
    BY <2>1
  <2> QED  BY <2>1, <2>2 DEF Found, FoundIn, Members
<1>3. CASE Edit \/ Exit \/ UNCHANGED vars
  BY <1>2, <1>3 DEF Edit, Exit, vars, FoundIn, WritesInto
<1>4. CASE \E d \in Dirs, s \in Seeds : Generate(d, s)
  BY <1>4 DEF Generate, Idle
<1>12. CASE \E d \in Dirs : Freeze(d)
  BY <1>12 DEF Freeze, Idle
<1>5. ASSUME NEW s \in Starts, BuildSet(s)
      PROVE  FoundIn(job.members)'
  <2>1. job'.members = << >>
    BY <1>5 DEF BuildSet, Idle
  <2> QED  BY <2>1 DEF FoundIn
<1>6. ASSUME WriteFile \/ HashContent \/ Stamp \/ (WriteManifest /\ job.op # "generate")
      PROVE  FoundIn(job.members)'
  <2>1. /\ job.op = "build" /\ AtWork
        /\ job'.cur = job.cur /\ job'.dir = job.dir /\ job'.members = job.members
        /\ job'.stage = "write" => job.stage = "write"
    BY <1>6, JobSteps DEF WriteFile, HashContent, Stamp, WriteManifest, OnlyChanges, Fields, AtWork
  <2>2. \A d \in Dirs : d # job.dir => manifest'[d] = manifest[d]
    BY <1>6, DirSteps DEF DirsStand, WriteFile, HashContent, Stamp, WriteManifest, Lock
  <2>3. job.stage # "write" => /\ manifest'[job.dir].written = manifest[job.dir].written
                               /\ manifest'[job.dir].seed = manifest[job.dir].seed
    BY <1>6, DirSteps DEF DirsStand, WriteFile, WriteManifest, Lock
  <2>4. \A i \in DOMAIN job.members :
          /\ manifest'[job.members[i].dir].written
          /\ manifest'[job.members[i].dir].seed = job.members[i].seed
    BY <1>2, <2>1, <2>2, <2>3 DEF FoundIn, WritesInto
  <2> QED  BY <1>2, <2>1, <2>4 DEF FoundIn, WritesInto
<1>7. ASSUME NEW d \in Dirs, job.op = "build", manifest[d].written, manifest[d].seed = job.cur,
             job'.members = Append(job.members, [seed |-> job.cur, dir |-> d]),
             manifest' = manifest, job'.cur = job.cur + 1, job'.stage = "scan"
      PROVE  FoundIn(job.members)'
  <2> DEFINE m == [seed |-> job.cur, dir |-> d]
             n == Len(job.members) + 1
             longer == Append(job.members, m)
  <2>1. m \in Members /\ m.seed = job.cur /\ m.dir = d
    BY <1>2, <1>7 DEF Members
  <2>2. /\ DOMAIN longer = DOMAIN job.members \cup {n} /\ longer[n] = m
        /\ \A i \in DOMAIN job.members : longer[i] = job.members[i]
    BY <1>2, <1>7, <2>1, Longer
  <2> HIDE DEF m, n, longer
  <2>3. \A i \in DOMAIN longer : /\ manifest[longer[i].dir].written
                                 /\ manifest[longer[i].dir].seed = longer[i].seed
                                 /\ longer[i].seed < job.cur + 1
    BY <1>2, <1>7, <2>1, <2>2 DEF FoundIn
  <2>4. \A i, j \in DOMAIN longer : longer[i].seed = longer[j].seed => i = j
    <3>1. \A i \in DOMAIN job.members : longer[i].seed < job.cur /\ longer[i].seed \in Nat
      BY <1>2, <1>7, <2>2 DEF FoundIn
    <3>2. \A i \in DOMAIN job.members : longer[i].seed # longer[n].seed
      BY <1>2, <1>7, <2>1, <2>2, <3>1
    <3> QED  BY <1>2, <1>7, <2>2, <3>2 DEF FoundIn
  <2>5. job'.members = longer
    BY <1>7 DEF longer, m
  <2> QED  BY <1>7, <2>3, <2>4, <2>5 DEF FoundIn, WritesInto
<1>8. CASE Lock /\ job.op # "freeze"
  <2>1. /\ job.op = "build" /\ job.stage = "lock" /\ job'.stage = "scan"
        /\ job'.cur = job.cur + 1 /\ manifest' = manifest
        /\ job'.members = Append(job.members, [seed |-> job.cur, dir |-> job.dir])
    BY <1>8, JobSteps DEF Lock, OnlyChanges, Fields, Phases
  <2>2. /\ job.dir \in Dirs /\ manifest[job.dir].written
        /\ job.dir = job.cur /\ job.cur \in Seeds
    BY <2>1 DEF Search, Phases, AtWork
  <2>3. manifest[job.dir].seed = job.cur
    BY <2>2 DEF Named
  <2> QED  BY <1>7, <2>1, <2>2, <2>3
<1>9. CASE Scanning /\ Searching
  <2>1. job.op = "build" /\ job.stage = "scan" /\ job.cur \in Seeds /\ manifest' = manifest
    BY <1>9, GateFacts, JobSteps DEF Scanning
  <2>2. CASE Reject
    <3>1. job'.members = job.members /\ job'.cur = job.cur + 1 /\ job'.stage = "scan"
      BY <2>1, <2>2, JobSteps DEF OnlyChanges, Fields
    <3> QED  BY <1>2, <2>1, <3>1 DEF FoundIn, WritesInto
  <2>3. CASE Reuse
    <3>1. /\ job'.members = Append(job.members, [seed |-> job.cur, dir |-> job.existing[job.cur]])
          /\ job'.cur = job.cur + 1 /\ job'.stage = "scan" /\ job.cur \in DOMAIN job.existing
      BY <2>1, <2>3, JobSteps DEF OnlyChanges, Fields, Reuse
    <3> QED  BY <1>7, <2>1, <3>1 DEF Search
  <2>4. CASE Materialize
    <3>1. /\ job'.members = job.members /\ job'.cur = job.cur /\ job'.dir = job.cur
          /\ job.cur \notin DOMAIN job.existing
      BY <2>1, <2>4, JobSteps DEF OnlyChanges, Fields, Materialize
    <3>2. job.cur >= job.cur
      BY <1>2, <2>1
    <3>3. ~manifest[job.cur].written
      BY <2>1, <3>1, <3>2 DEF Search
    <3> QED  BY <1>2, <2>1, <3>1, <3>3 DEF FoundIn, WritesInto
  <2> QED  BY <1>9, <2>2, <2>3, <2>4 DEF Searching
<1>10. CASE Crash \/ Unsatisfiable \/ Publish
  BY <1>1, <1>10 DEF Crash, Unsatisfiable, Publish
<1>11. CASE (WriteManifest /\ job.op = "generate") \/ (Lock /\ job.op = "freeze")
  BY <1>1, <1>11, JobSteps
<1> QED
  BY Steps, <1>3, <1>4, <1>5, <1>6, <1>8, <1>9, <1>10, <1>11, <1>12
     DEF Serving

-----------------------------------------------------------------------------
(* The members are the valid seeds of those gone by.                       *)
LEMMA OneMoreSeed ==
  ASSUME Types, Search, job.op = "build"
  PROVE  /\ job.start .. (job.cur + 1) - 1 = (job.start .. job.cur - 1) \cup {job.cur}
         /\ job.cur \notin job.start .. job.cur - 1
<1>1. job.start \in Nat /\ job.cur \in Nat /\ job.start <= job.cur
  BY DEF Types, Jobs, Search
<1> QED  BY <1>1

LEMMA Accepted ==
  ASSUME Types, Search, Found, Picked, job.op = "build",
         NEW d \in Dirs, Len(job.members) < Count
  PROVE  LET longer == Append(job.members, [seed |-> job.cur, dir |-> d])
         IN /\ IsFiniteSet(SeedsOf(longer)) /\ Cardinality(SeedsOf(longer)) = Len(longer)
            /\ Len(longer) <= Count
            /\ ~job.stale /\ Failed(job.version, job.cur) = {} =>
                 Sorted(job.rejected, longer, job.version, job.start .. (job.cur + 1) - 1)
<1> DEFINE m == [seed |-> job.cur, dir |-> d]
           longer == Append(job.members, m)
           S == job.start .. job.cur - 1
           T == job.start .. (job.cur + 1) - 1
<1>1. job.members \in Seq(Members) /\ m \in Members /\ m.seed = job.cur /\ job.cur \in Nat
  BY DEF Types, Jobs, Members
<1>2. /\ SeedsOf(longer) = SeedsOf(job.members) \cup {job.cur}
      /\ Len(longer) = Len(job.members) + 1 /\ Len(job.members) \in Nat
  BY <1>1, Longer
<1>3. job.cur \notin SeedsOf(job.members)
  BY <1>1 DEF SeedsOf, Found
<1>4. IsFiniteSet(SeedsOf(job.members)) /\ Cardinality(SeedsOf(job.members)) = Len(job.members)
  BY DEF Picked
<1>5. IsFiniteSet(SeedsOf(longer)) /\ Cardinality(SeedsOf(longer)) = Len(longer)
  BY <1>2, <1>3, <1>4, FS_AddElement
<1>6. Len(longer) <= Count
  BY <1>2, SearchAssumption
<1>7. ASSUME ~job.stale, Failed(job.version, job.cur) = {}
      PROVE  Sorted(job.rejected, longer, job.version, T)
  <2>1. T = S \cup {job.cur} /\ job.cur \notin S
    BY OneMoreSeed
  <2>2. Sorted(job.rejected, job.members, job.version, S)
    BY <1>7 DEF Picked
  <2> HIDE DEF S, T, longer
  <2> QED  BY <1>2, <1>7, <2>1, <2>2 DEF Sorted, Valid
<1> QED  BY <1>5, <1>6, <1>7

LEMMA PickedStep ==
  ASSUME Types, Types', Phases, CacheIsHonest, Search, Found, Picked, [Next]_vars
  PROVE  Picked'
<1> SUFFICES ASSUME job'.op = "build" PROVE Picked'
  BY DEF Picked
<1> USE DEF disk
<1>1. job' # Idle
  BY JobSteps
<1>2. CASE Edit \/ Exit \/ UNCHANGED vars
  BY <1>2 DEF Edit, Exit, vars, Picked
<1>3. CASE \E d \in Dirs, s \in Seeds : Generate(d, s)
  BY <1>3 DEF Generate, Idle
<1>4. CASE \E d \in Dirs : Freeze(d)
  BY <1>4 DEF Freeze, Idle
<1>5. ASSUME NEW s \in Starts, BuildSet(s)
      PROVE  Picked'
  <2>1. /\ job'.members = << >> /\ job'.rejected = << >> /\ job'.stage = "scan"
        /\ job'.start = s /\ job'.cur = s
    BY <1>5 DEF BuildSet, Idle
  <2>2. s \in Nat /\ s .. s - 1 = {}
    BY SearchAssumption
  <2>3. SeedsOf(<< >>) = {}
    BY DEF SeedsOf
  <2>4. IsFiniteSet({}) /\ Cardinality({}) = 0 /\ Len(<< >>) = 0
    BY FS_EmptySet
  <2>5. Sorted(job'.rejected, job'.members, job'.version, job'.start .. job'.cur - 1)
    BY <2>1, <2>2, <2>3 DEF Sorted, Valid
  <2>6. SeedsOf(job'.members) = {} /\ Len(job'.members) = 0
    BY <2>1, <2>3, <2>4
  <2>7. 0 <= Count
    BY SearchAssumption
  <2> QED  BY <2>1, <2>4, <2>5, <2>6, <2>7 DEF Picked
<1>6. ASSUME WriteFile \/ HashContent \/ Stamp \/ (WriteManifest /\ job.op # "generate")
      PROVE  Picked'
  <2>1. /\ job.op = "build" /\ job.stage # "scan"
        /\ job'.start = job.start /\ job'.cur = job.cur /\ job'.version = job.version
        /\ job'.members = job.members /\ job'.rejected = job.rejected
        /\ job'.stale = job.stale
    BY <1>6, JobSteps DEF WriteFile, HashContent, Stamp, WriteManifest, OnlyChanges, Fields
  <2> QED  BY <2>1 DEF Picked
<1>7. CASE Lock /\ job.op # "freeze"
  <2>1. /\ job.op = "build" /\ job.stage = "lock" /\ job'.stage = "scan"
        /\ job'.start = job.start /\ job'.cur = job.cur + 1 /\ job'.version = job.version
        /\ job'.members = Append(job.members, [seed |-> job.cur, dir |-> job.dir])
        /\ job'.rejected = job.rejected /\ job'.stale = job.stale
    BY <1>7, JobSteps DEF Lock, OnlyChanges, Fields
  <2>2. Len(job.members) < Count /\ job.dir \in Dirs
    BY <2>1 DEF Search, Phases, AtWork
  <2>3. ~job.stale => Failed(job.version, job.cur) = {}
    BY <2>1 DEF Picked
  <2> QED  BY <2>1, <2>2, <2>3, Accepted DEF Picked
<1>8. CASE Scanning /\ Searching
  <2>1. /\ job.op = "build" /\ job.stage = "scan" /\ job.cur \in Seeds
        /\ Len(job.members) < Count
        /\ job'.stale = (job.stale \/ Cached(job.version, job.cur).of # job.version)
    BY <1>8, GateFacts, JobSteps DEF Scanning
  <2>2. ~job'.stale => ~job.stale /\ Judgement = Verdict(job.version, job.cur)
    BY <1>8, <2>1, GateFacts
  <2>3. job.version \in 0 .. Edits
    BY DEF Types, Jobs
  <2>4. CASE Reject
    <3>1. /\ job'.start = job.start /\ job'.cur = job.cur + 1 /\ job'.version = job.version
          /\ job'.members = job.members /\ job'.stage = "scan"
          /\ job'.rejected = Append(job.rejected, [seed |-> job.cur, stage |-> Judgement])
      BY <2>1, <2>4, JobSteps DEF OnlyChanges, Fields
    <3>2. ASSUME ~job'.stale
          PROVE  Sorted(job'.rejected, job.members, job.version, job.start .. (job.cur + 1) - 1)
      <4> DEFINE r == [seed |-> job.cur, stage |-> Judgement]
                 n == Len(job.rejected) + 1
                 S == job.start .. job.cur - 1
                 T == job.start .. (job.cur + 1) - 1
      <4>1. Judgement \in Failed(job.version, job.cur) /\ Judgement \in Gates
        BY <2>1, <2>2, <2>3, <2>4, <3>2, VerdictFacts DEF Reject
      <4>2. r \in Rejections /\ r.seed = job.cur /\ r.stage = Judgement
            /\ job.rejected \in Seq(Rejections)
        BY <2>1, <4>1, Constants DEF Rejections, Types, Jobs
      <4>3. /\ DOMAIN job'.rejected = DOMAIN job.rejected \cup {n} /\ job'.rejected[n] = r
            /\ \A i \in DOMAIN job.rejected : job'.rejected[i] = job.rejected[i]
            /\ SeedsOf(job'.rejected) = SeedsOf(job.rejected) \cup {job.cur}
        BY <3>1, <4>2, Longer
      <4>4. T = S \cup {job.cur} /\ job.cur \notin S
        BY <2>1, OneMoreSeed
      <4>5. Sorted(job.rejected, job.members, job.version, S)
        BY <2>1, <2>2, <3>2 DEF Picked
      <4> HIDE DEF r, n, S, T
      <4>6. SeedsOf(job.members) = Valid(job.version, T)
        BY <4>1, <4>4, <4>5 DEF Sorted, Valid
      <4>7. job.cur \notin SeedsOf(job.members)
        BY <4>4, <4>5 DEF Sorted, Valid
      <4>8. SeedsOf(job'.rejected) = T \ SeedsOf(job.members)
        BY <4>3, <4>4, <4>5, <4>7 DEF Sorted
      <4>9. \A i \in DOMAIN job'.rejected :
              job'.rejected[i].stage \in Failed(job.version, job'.rejected[i].seed)
        BY <4>1, <4>2, <4>3, <4>5 DEF Sorted
      <4> QED  BY <4>6, <4>8, <4>9 DEF Sorted, T
    <3> QED  BY <2>1, <3>1, <3>2 DEF Picked
  <2>5. CASE Reuse
    <3>1. /\ job'.start = job.start /\ job'.cur = job.cur + 1 /\ job'.version = job.version
          /\ job'.members = Append(job.members, [seed |-> job.cur, dir |-> job.existing[job.cur]])
          /\ job'.rejected = job.rejected /\ job'.stage = "scan"
          /\ job.cur \in DOMAIN job.existing
      BY <2>1, <2>5, JobSteps DEF OnlyChanges, Fields, Reuse
    <3>2. job.existing[job.cur] \in Dirs
      BY <2>1, <3>1 DEF Search
    <3>3. ~job'.stale => ~job.stale /\ Failed(job.version, job.cur) = {}
      BY <2>1, <2>2, <2>3, <2>5, VerdictFacts DEF Reuse
    <3> QED  BY <2>1, <3>1, <3>2, <3>3, Accepted DEF Picked
  <2>6. CASE Materialize
    <3>1. /\ job'.start = job.start /\ job'.cur = job.cur /\ job'.version = job.version
          /\ job'.members = job.members /\ job'.rejected = job.rejected
      BY <2>1, <2>6, JobSteps DEF OnlyChanges, Fields
    <3>2. ~job'.stale => ~job.stale /\ Failed(job.version, job.cur) = {}
      BY <2>1, <2>2, <2>3, <2>6, VerdictFacts DEF Materialize
    <3> QED  BY <2>1, <3>1, <3>2 DEF Picked
  <2> QED  BY <1>8, <2>4, <2>5, <2>6 DEF Searching
<1>9. CASE Crash \/ Unsatisfiable \/ Publish
  BY <1>1, <1>9 DEF Crash, Unsatisfiable, Publish
<1>10. CASE (WriteManifest /\ job.op = "generate") \/ (Lock /\ job.op = "freeze")
  BY <1>1, <1>10, JobSteps
<1> QED
  BY Steps, <1>2, <1>3, <1>4, <1>5, <1>6, <1>7, <1>8, <1>9, <1>10 DEF Serving

LEMMA NoMembersStep ==
  ASSUME Types, Phases, CacheIsHonest, Search, NoMembers, [Next]_vars
  PROVE  NoMembers'
<1> USE DEF NoMembers
<1>1. CASE Edit \/ Exit \/ UNCHANGED vars
  BY <1>1 DEF Edit, Exit, vars
<1>2. CASE job' = Idle
  BY <1>2 DEF Idle
<1>3. CASE \E d \in Dirs, s \in Seeds : Generate(d, s)
  BY <1>3 DEF Generate, Idle
<1>4. CASE \E d \in Dirs : Freeze(d)
  BY <1>4 DEF Freeze, Idle
<1>5. CASE \E s \in Starts : BuildSet(s)
  BY <1>5 DEF BuildSet, Idle
<1>6. CASE WriteFile \/ HashContent \/ Stamp \/ (WriteManifest /\ job.op # "generate")
  BY <1>6, JobSteps DEF OnlyChanges, Fields
<1>7. CASE Lock /\ job.op # "freeze"
  BY <1>7, JobSteps DEF OnlyChanges, Fields, Lock, Phases
<1>8. CASE Scanning /\ Searching
  BY <1>8, JobSteps, GateFacts DEF OnlyChanges, Fields, Searching
<1>9. CASE Crash \/ Unsatisfiable \/ Publish
  BY <1>2, <1>9 DEF Crash, Unsatisfiable, Publish
<1>10. CASE (WriteManifest /\ job.op = "generate") \/ (Lock /\ job.op = "freeze")
  BY <1>2, <1>10, JobSteps
<1> QED
  BY Steps, <1>1, <1>3, <1>4, <1>5, <1>6, <1>7, <1>8, <1>9, <1>10 DEF Serving

(* What is published is what was picked.                                   *)
LEMMA SetStep ==
  ASSUME Types, Phases, CacheIsHonest, Search, Picked, SetIsFirstValid, [Next]_vars
  PROVE  SetIsFirstValid'
<1>1. CASE UNCHANGED set
  BY <1>1 DEF SetIsFirstValid
<1>2. CASE Publish
  <2>1. /\ set'.start = job.start /\ set'.members = job.members /\ set'.rejected = job.rejected
        /\ set'.scanned = job.cur /\ set'.version = job.version /\ set'.stale = job.stale
        /\ job.stage = "scan" /\ (Len(job.members) = Count \/ job.cur - job.start >= ScanLimit)
    BY <1>2 DEF Publish
  <2>2. job.op = "build"
    BY <2>1 DEF Phases
  <2>3. job.start \in Nat /\ job.cur \in Nat /\ job.start <= job.cur
        /\ job.cur <= job.start + ScanLimit
    BY <2>2 DEF Types, Jobs, Search
  <2>4. Cardinality(SeedsOf(job.members)) = Len(job.members)
    BY <2>2 DEF Picked
  <2>5. Cardinality(SeedsOf(set'.members)) = Count \/ set'.scanned = set'.start + ScanLimit
    BY <2>1, <2>3, <2>4, SearchAssumption
  <2>6. ~set'.stale =>
          Sorted(set'.rejected, set'.members, set'.version, set'.start .. set'.scanned - 1)
    BY <2>1, <2>2 DEF Picked
  <2> QED  BY <2>5, <2>6 DEF SetIsFirstValid, Sorted, SeedsOf, Valid
<1>3. UNCHANGED set \/ Publish
  <2> USE DEF disk
  <2>1. CASE \E d \in Dirs, s \in Seeds : Generate(d, s)
    BY <2>1 DEF Generate
  <2>2. CASE \E d \in Dirs : Freeze(d)
    BY <2>2 DEF Freeze
  <2>3. CASE \E s \in Starts : BuildSet(s)
    BY <2>3 DEF BuildSet
  <2>4. CASE Serving
    BY <2>4 DEF Serving, WriteFile, WriteManifest, HashContent, Stamp, Lock
  <2>5. CASE Scanning /\ Searching
    BY <2>5, JobSteps
  <2>6. CASE Edit \/ Exit \/ Crash \/ Unsatisfiable \/ UNCHANGED vars
    BY <2>6 DEF Edit, Exit, Crash, Unsatisfiable, vars
  <2> QED  BY Steps, <2>1, <2>2, <2>3, <2>4, <2>5, <2>6
<1> QED  BY <1>1, <1>2, <1>3

(* The memo of a process.                                                  *)
LEMMA CacheStep ==
  ASSUME Types, Phases, CacheIsHonest, Search, [Next]_vars
  PROVE  CacheIsHonest'
<1>1. CASE UNCHANGED cache
  BY <1>1 DEF CacheIsHonest
<1>2. CASE cache' = << >>
  BY <1>2 DEF CacheIsHonest
<1>3. CASE Scanning /\ Searching
  <2> DEFINE c == Cached(job.version, job.cur)
  <2>1. cache' = [s \in DOMAIN cache \cup {job.cur} |-> IF s = job.cur THEN c ELSE cache[s]]
    BY <1>3 DEF Searching, Reject, Reuse, Materialize, Gate
  <2>2. job.cur \in Seeds /\ c.of \in 0 .. Edits /\ c.verdict = Verdict(c.of, job.cur)
    BY <1>3, GateFacts DEF Judgement
  <2> HIDE DEF c
  <2> QED  BY <2>1, <2>2 DEF CacheIsHonest
<1>4. \/ UNCHANGED cache
      \/ cache' = << >>
      \/ Scanning /\ Searching
  <2>1. CASE \E d \in Dirs, s \in Seeds : Generate(d, s)
    BY <2>1 DEF Generate
  <2>2. CASE \E d \in Dirs : Freeze(d)
    BY <2>2 DEF Freeze
  <2>3. CASE \E s \in Starts : BuildSet(s)
    BY <2>3 DEF BuildSet
  <2>4. CASE Serving
    BY <2>4 DEF Serving, WriteFile, WriteManifest, HashContent, Stamp, Lock
  <2>5. CASE Edit \/ Exit \/ Crash \/ Unsatisfiable \/ Publish \/ UNCHANGED vars
    BY <2>5 DEF Edit, Exit, Crash, Unsatisfiable, Publish, vars
  <2> QED  BY Steps, <2>1, <2>2, <2>3, <2>4, <2>5
<1> QED  BY <1>1, <1>2, <1>3, <1>4

-----------------------------------------------------------------------------
LEMMA InitHolds == Init => IInv
<1> SUFFICES ASSUME Init PROVE IInv
  OBVIOUS
<1>1. /\ Idle.op = "idle" /\ Idle.stage = "none" /\ Idle.parts = 0
      /\ NoManifest.written = FALSE /\ NoManifest.frozen = FALSE /\ NoSet.written = FALSE
  BY DEF Idle, NoManifest, NoSet
<1>2. Types
  BY Constants, TemplateAssumption DEF Init, Types
<1>3. CacheIsHonest
  BY DEF Init, CacheIsHonest
<1>4. Phases /\ Search /\ Found /\ NoMembers /\ Picked
  <2>1. Idle.members = << >>
    BY DEF Idle
  <2> QED  BY <1>1, <2>1, Constants DEF Init, Phases, AtWork, Search, Found, NoMembers, Picked
<1>5. Named /\ StampIsContent /\ Unkilled
  BY <1>1 DEF Init, Named, StampIsContent, Unkilled
<1>6. SetIsFirstValid
  BY <1>1 DEF Init, SetIsFirstValid
<1>7. TornByKills
  <2>1. {d \in Dirs : Torn(d)} = {}
    BY <1>1 DEF Init, Torn
  <2> QED  BY <2>1, FS_EmptySet DEF Init, TornByKills
<1> QED  BY <1>2, <1>3, <1>4, <1>5, <1>6, <1>7 DEF IInv

LEMMA StepHolds == ASSUME IInv, [Next]_vars PROVE IInv'
<1> USE DEF IInv
<1>1. Types' /\ CacheIsHonest'
  BY TypesStep, CacheStep
<1>2. Phases' /\ Named' /\ StampIsContent'
  BY <1>1, PhasesStep, NamedStep, StampStep
<1>3. Unkilled' /\ TornByKills'
  BY UnkilledStep, TornStep
<1>4. Search' /\ Found' /\ Picked'
  BY <1>1, SearchStep, FoundStep, PickedStep
<1>5. NoMembers' /\ SetIsFirstValid'
  BY NoMembersStep, SetStep
<1> QED  BY <1>1, <1>2, <1>3, <1>4, <1>5

THEOREM Inductive == Spec => []IInv
BY InitHolds, StepHolds, PTL DEF Spec

(* The types of the state, and that a build never holds more than Count    *)
(* members.                                                                *)
THEOREM TypeCorrect == Spec => []TypeOK
<1>1. IInv => TypeOK
  <2> SUFFICES ASSUME IInv PROVE TypeOK
    OBVIOUS
  <2>1. Len(job.members) <= Count /\ job.parts \in 0 .. Len(Files)
    <3>1. job.op # "build" => Len(job.members) <= Count
      BY SearchAssumption DEF IInv, NoMembers
    <3>2. job.op = "build" => Len(job.members) <= Count
      BY DEF IInv, Picked
    <3> QED  BY <3>1, <3>2, Constants DEF IInv, Phases, Types, Jobs
  <2> QED  BY <2>1 DEF IInv, TypeOK, Types, CacheIsHonest, Jobs, Manifests, Hashes
<1> QED  BY Inductive, <1>1, PTL

(* A published set is the first Count valid seeds from its start, every    *)
(* other seed scanned is on record with a gate it fails, and a short set   *)
(* means the scan limit.                                                   *)
THEOREM FirstValid == Spec => []SetIsFirstValid
<1>1. IInv => SetIsFirstValid
  BY DEF IInv
<1> QED  BY Inductive, <1>1, PTL

(* A locked instance is what its stamp says, and every directory with a    *)
(* world and a grader of different fact-maps has cost a kill.              *)
THEOREM InstancesWhole == Spec => []InstancesAreWhole
<1>1. IInv => InstancesAreWhole
  BY DEF IInv, InstancesAreWhole
<1> QED  BY Inductive, <1>1, PTL

(* When a set is published its members' directories hold the instances of  *)
(* their seeds, one each; and what is frozen is never changed, as long as  *)
(* nothing was killed.                                                     *)
THEOREM PublishedHolds == Spec => PublishedStands
<1>1. ASSUME IInv, [Next]_vars, set' # set
      PROVE  /\ \A i \in DOMAIN set'.members :
                  LET m == set'.members[i] IN
                  /\ manifest[m.dir].written /\ manifest[m.dir].seed = m.seed
                  /\ content[m.dir][Files[1]].seed = m.seed \/ crashes > 0
             /\ \A i, j \in DOMAIN set'.members :
                  set'.members[i].dir = set'.members[j].dir => i = j
  <2> USE DEF disk
  <2>1. Publish
    <3>1. CASE \E d \in Dirs, s \in Seeds : Generate(d, s)
      BY <1>1, <3>1 DEF Generate
    <3>2. CASE \E d \in Dirs : Freeze(d)
      BY <1>1, <3>2 DEF Freeze
    <3>3. CASE \E s \in Starts : BuildSet(s)
      BY <1>1, <3>3 DEF BuildSet
    <3>4. CASE Serving
      BY <1>1, <3>4 DEF Serving, WriteFile, WriteManifest, HashContent, Stamp, Lock
    <3>5. CASE Scanning /\ Searching
      BY <1>1, <3>5, JobSteps DEF IInv
    <3>6. CASE Edit \/ Exit \/ Crash \/ Unsatisfiable \/ UNCHANGED vars
      BY <1>1, <3>6 DEF Edit, Exit, Crash, Unsatisfiable, vars
    <3> QED  BY <1>1, Steps, <3>1, <3>2, <3>3, <3>4, <3>5, <3>6
  <2>2. set'.members = job.members /\ job.stage = "scan" /\ job.op = "build"
    BY <1>1, <2>1 DEF Publish, IInv, Phases
  <2>3. /\ \A i \in DOMAIN job.members :
             /\ job.members[i].dir \in Dirs
             /\ manifest[job.members[i].dir].written
             /\ manifest[job.members[i].dir].seed = job.members[i].seed
             /\ ~WritesInto(job.members[i].dir)
        /\ \A i, j \in DOMAIN job.members : job.members[i].seed = job.members[j].seed => i = j
    <3>1. \A i \in DOMAIN job.members : job.members[i].dir \in Dirs
      <4>1. job.members \in Seq(Members)
        BY <1>1 DEF IInv, Types, Jobs
      <4>2. \A i \in DOMAIN job.members : job.members[i] \in Members
        BY <4>1
      <4> QED  BY <4>2 DEF Members
    <3> QED  BY <1>1, <2>2, <3>1 DEF IInv, Found
  <2>4. crashes \in Nat
    BY <1>1 DEF IInv, Types
  <2>5. ASSUME NEW i \in DOMAIN job.members
        PROVE  content[job.members[i].dir][Files[1]].seed = job.members[i].seed \/ crashes > 0
    BY <1>1, <2>3, <2>4 DEF IInv, Unkilled
  <2> QED  BY <2>2, <2>3, <2>5
<1>2. ASSUME IInv, [Next]_vars, NEW d \in Dirs, manifest[d].frozen, crashes = 0
      PROVE  manifest'[d] = manifest[d] /\ content'[d] = content[d]
  <2>1. /\ manifest[d].hash = content[d] /\ manifest[d].written
        /\ readonly[d] \/ (job.stage \in {"stamp", "lock"} /\ job.dir = d)
    BY <1>2 DEF IInv, Unkilled, Named
  <2>2. ~(job.stage = "write" /\ job.dir = d)
    BY <1>2, <2>1 DEF IInv, Phases
  <2>3. CASE ~(Stamp /\ job.dir = d)
    BY <1>2, <2>2, <2>3, DirSteps DEF IInv, DirsStand, WriteFile, WriteManifest
  <2>4. CASE Stamp /\ job.dir = d
    <3>1. job.hash = content[d] /\ content' = content
      BY <1>2, <2>4 DEF IInv, Phases, Stamp
    <3>2. manifest'[d] = [manifest[d] EXCEPT !.frozen = TRUE, !.hash = job.hash]
      BY <1>2, <2>4 DEF IInv, Stamp, Types
    <3>3. manifest[d] \in Manifests
      BY <1>2 DEF IInv, Types
    <3>4. /\ manifest[d].frozen = TRUE /\ manifest[d].hash = job.hash
          /\ manifest[d] = [seed |-> manifest[d].seed, frozen |-> manifest[d].frozen,
                            hash |-> manifest[d].hash, written |-> manifest[d].written]
      BY <1>2, <2>1, <3>1, <3>3 DEF Manifests
    <3>5. manifest'[d] = [seed |-> manifest[d].seed, frozen |-> TRUE,
                          hash |-> job.hash, written |-> manifest[d].written]
      BY <3>2, <3>3 DEF Manifests
    <3> QED  BY <3>1, <3>4, <3>5
  <2> QED  BY <2>3, <2>4
<1>3. ASSUME IInv, [Next]_vars
      PROVE  \A d \in Dirs : manifest[d].frozen /\ crashes = 0 =>
               manifest'[d] = manifest[d] /\ content'[d] = content[d]
  BY <1>2, <1>3
<1>4. Spec => MembersHoldTheirSeeds
  BY <1>1, Inductive, PTL DEF Spec, MembersHoldTheirSeeds
<1>5. Spec => FrozenIsImmutable
  BY <1>3, Inductive, PTL DEF Spec, FrozenIsImmutable
<1> QED  BY <1>4, <1>5 DEF PublishedStands

-----------------------------------------------------------------------------
(* The resolution of one template (Resolve).                               *)

(* Parts of the invariant: the stage, and how far sampling has come.       *)
Stages == {"sample", "bind", "project", "gate", "done", "raised"}

DrawInv ==
  /\ template \in Templates /\ stage \in Stages
  /\ DOMAIN draw \subseteq {s.name : s \in Range(template.samples)}
  /\ IsFiniteSet(DOMAIN draw)
  /\ stage = "sample" => Cardinality(DOMAIN draw) < Len(template.samples)
  /\ tries \in 0 .. MaxTries
  /\ at \in 1 .. Len(template.slots) + 1

(* The slots gone by that were bound, each to a candidate of its own.      *)
Filled == {i \in 1 .. at - 1 : template.slots[i].alias \in DOMAIN bound}

Held(i) == bound[template.slots[i].alias]

BoundInv ==
  /\ \A a \in DOMAIN bound : \E i \in Filled : template.slots[i].alias = a
  /\ \A i \in Filled : Held(i) \in Candidates(template, template.slots[i].from)
  /\ \A i \in 1 .. at - 1 : template.slots[i].when = {} => i \in Filled
  /\ \A n \in DOMAIN ids : \E i \in Filled :
       template.slots[i].name = n /\ template.slots[i].into # "pointer" /\ ids[n] = Held(i)
  /\ \A i \in Filled : template.slots[i].into # "pointer" =>
       template.slots[i].name \in DOMAIN ids /\ ids[template.slots[i].name] = Held(i)
  /\ pointer # Nobody =>
       \E i \in Filled : template.slots[i].into = "pointer" /\ pointer = Held(i)

ApartInv ==
  PartsApart(template) => \A i, j \in Filled : i < j => Held(i) # Held(j)

(* What the later stages have made of it.                                  *)
FactsInv ==
  stage \in {"project", "gate", "done"} =>
    /\ at = Len(template.slots) + 1
    /\ facts.active = Activated /\ facts.tasks = Tasks /\ facts.blockers = Blockers
    /\ facts.overlay = Overlay
    /\ facts.senders = {Subst(e.from) : e \in {e \in template.script : Cond(e.when)}}

GateInv == stage \in {"gate", "done"} => Missing = {}

VerdictInv ==
  /\ verdict \in {"none", "coherent", "incoherent"}
  /\ verdict = "coherent" => stage = "done" /\ Coherent

ResolveInv == DrawInv /\ BoundInv /\ ApartInv /\ FactsInv /\ GateInv /\ VerdictInv

(* A slot of a template, and the samples of one.                           *)
LEMMA SlotFacts ==
  ASSUME NEW t \in Templates
  PROVE  /\ Len(t.samples) \in Nat \ {0} /\ Len(t.slots) \in Nat \ {0}
         /\ DOMAIN t.slots = 1 .. Len(t.slots)
         /\ \A i \in 1 .. Len(t.samples) : t.samples[i] \in Range(t.samples)
         /\ \A i, j \in DOMAIN t.slots :
              t.slots[i].alias = t.slots[j].alias \/ t.slots[i].name = t.slots[j].name => i = j
         /\ \A i \in DOMAIN t.slots :
              t.slots[i].into = "pointer" => t.slots[i].from.kind # "projects"
<1>1. t.samples \in Seq(Range(t.samples)) /\ t.samples # << >>
  BY ArchetypeAssumption
<1>2. t.slots \in Seq(Range(t.slots)) /\ t.slots # << >>
  BY ArchetypeAssumption
<1>3. Len(t.samples) \in Nat \ {0} /\ \A i \in 1 .. Len(t.samples) : t.samples[i] \in Range(t.samples)
  BY <1>1
<1>4. Len(t.slots) \in Nat \ {0} /\ DOMAIN t.slots = 1 .. Len(t.slots)
  BY <1>2
<1> QED  BY <1>3, <1>4, ArchetypeAssumption

(* A candidate is a person who is alive, or a project; never no one.       *)
LEMMA CandidateFacts ==
  ASSUME NEW t, NEW from, NEW c \in Candidates(t, from)
  PROVE  /\ c \in DOMAIN People \cup t.projects
         /\ from.kind \in {"role", "reports", "projects"}
         /\ from.kind # "projects" => c \in DOMAIN People /\ Live(c) /\ c # Nobody
         /\ from.kind = "projects" => c \in t.projects
BY ResolveAssumption DEF Candidates

LEMMA WithIs ==
  ASSUME NEW f, NEW x, NEW v
  PROVE  /\ DOMAIN With(f, x, v) = DOMAIN f \cup {x}
         /\ With(f, x, v)[x] = v
         /\ \A y \in DOMAIN f : y # x => With(f, x, v)[y] = f[y]
BY DEF With

LEMMA DrawInit == ResolveInit => DrawInv
<1> SUFFICES ASSUME ResolveInit  PROVE DrawInv
  OBVIOUS
<1>1. template \in Templates /\ DOMAIN draw = {}
  BY DEF ResolveInit
<1>2. IsFiniteSet(DOMAIN draw) /\ Cardinality(DOMAIN draw) = 0
  BY <1>1, FS_EmptySet
<1> QED  BY <1>1, <1>2, SlotFacts, ResolveAssumption DEF ResolveInit, DrawInv, Stages

LEMMA DrawStep ==
  ASSUME DrawInv, [ResolveNext]_resolveVars
  PROVE  DrawInv'
<1> USE DEF DrawInv, Stages
<1>0. /\ Len(template.samples) \in Nat \ {0} /\ Len(template.slots) \in Nat \ {0}
      /\ \A i \in 1 .. Len(template.samples) : template.samples[i] \in Range(template.samples)
      /\ MaxTries \in Nat
      /\ Cardinality(DOMAIN draw) \in Nat
  BY SlotFacts, FS_CardinalityType, ResolveAssumption
<1>1. ASSUME stage = "sample", NEW v, Accept(v)  PROVE DrawInv'
  <2> DEFINE d == With(draw, SampleSlot.name, v)
  <2>1. DOMAIN d = DOMAIN draw \cup {SampleSlot.name}
    BY DEF With
  <2>2. SampleSlot \in Range(template.samples)
    BY <1>0, <1>1 DEF SampleSlot
  <2>3. IsFiniteSet(DOMAIN d) /\ Cardinality(DOMAIN d) \in Nat
        /\ Cardinality(DOMAIN d) <= Cardinality(DOMAIN draw) + 1
    <3>1. /\ IsFiniteSet(DOMAIN draw \cup {SampleSlot.name})
          /\ \/ Cardinality(DOMAIN draw \cup {SampleSlot.name}) = Cardinality(DOMAIN draw)
             \/ Cardinality(DOMAIN draw \cup {SampleSlot.name}) = Cardinality(DOMAIN draw) + 1
      BY FS_AddElement
    <3> QED  BY <1>0, <2>1, <3>1
  <2>4. /\ draw' = d /\ tries' = 0
        /\ stage' = IF Cardinality(DOMAIN d) = Len(template.samples) THEN "bind" ELSE "sample"
        /\ UNCHANGED <<template, at>>
    BY <1>1 DEF Accept
  <2> HIDE DEF d
  <2>5. DOMAIN draw' \subseteq {s.name : s \in Range(template.samples)}
    BY <2>1, <2>2, <2>4
  <2>6. stage' = "sample" => Cardinality(DOMAIN draw') < Len(template'.samples)
    BY <1>0, <1>1, <2>3, <2>4
  <2> QED  BY <1>0, <2>3, <2>4, <2>5, <2>6
<1>2. ASSUME NEW v, Redraw(v)  PROVE DrawInv'
  BY <1>0, <1>2 DEF Redraw
<1>3. CASE Raise
  BY <1>3 DEF Raise
<1>4. CASE BindSlot \/ SkipSlot
  BY <1>0, <1>4 DEF BindSlot, SkipSlot, Binding
<1>5. CASE Assemble \/ ProjectEval \/ CheckCoherence \/ UNCHANGED resolveVars
  BY <1>5 DEF Assemble, ProjectEval, CheckCoherence, resolveVars
<1> QED  BY <1>1, <1>2, <1>3, <1>4, <1>5 DEF ResolveNext, Sample, GiveUp, BindRaises, ProjectRaises

(* A slot that is bound joins those filled, and the others hold what they  *)
(* held.                                                                   *)
LEMMA BindAdds ==
  ASSUME DrawInv, Binding, NEW c, bound' = With(bound, Slot.alias, c), at' = at + 1,
         template' = template,
         \A i \in Filled : template.slots[i].alias \in DOMAIN bound
  PROVE  /\ at \in DOMAIN template.slots /\ at \notin Filled
         /\ Filled' = Filled \cup {at}
         /\ (\A i : i = at => Held(i)' = c) /\ \A i \in Filled : Held(i)' = Held(i)
         /\ DOMAIN bound' = DOMAIN bound \cup {template.slots[at].alias}
<1>1. /\ at \in 1 .. Len(template.slots) /\ DOMAIN template.slots = 1 .. Len(template.slots)
      /\ Len(template.slots) \in Nat
      /\ \A i, j \in DOMAIN template.slots :
           template.slots[i].alias = template.slots[j].alias => i = j
  BY SlotFacts DEF DrawInv, Binding
<1>2. /\ DOMAIN bound' = DOMAIN bound \cup {template.slots[at].alias}
      /\ bound'[template.slots[at].alias] = c
      /\ \A a \in DOMAIN bound : a # template.slots[at].alias => bound'[a] = bound[a]
  BY DEF With, Slot
<1>3. \A i \in 1 .. at - 1 : i \in DOMAIN template.slots /\ i # at
                             /\ template.slots[i].alias # template.slots[at].alias
  BY <1>1
<1>4. 1 .. at' - 1 = 1 .. at - 1 \cup {at} /\ at \notin 1 .. at - 1
  BY <1>1
<1>5. Filled' = Filled \cup {at}
  BY <1>2, <1>3, <1>4 DEF Filled
<1>6. (\A i : i = at => Held(i)' = c) /\ \A i \in Filled : Held(i)' = Held(i)
  BY <1>2, <1>3 DEF Filled, Held
<1> QED  BY <1>1, <1>2, <1>4, <1>5, <1>6 DEF Filled

(* Nothing else changes who is cast.                                       *)
LEMMA NotBinding ==
  ASSUME [ResolveNext]_resolveVars, ~BindSlot
  PROVE  /\ UNCHANGED <<template, bound, ids, pointer>>
         /\ at' = at \/ SkipSlot
BY DEF ResolveNext, Sample, Accept, Redraw, GiveUp, Raise, SkipSlot, BindRaises, Assemble, ProjectEval,
       ProjectRaises, CheckCoherence, resolveVars

LEMMA BoundStep ==
  ASSUME DrawInv, BoundInv, [ResolveNext]_resolveVars
  PROVE  BoundInv'
<1>0. at \in Nat \ {0} /\ \A i \in 1 .. at - 1 : i \in DOMAIN template.slots
  BY SlotFacts DEF DrawInv
<1>1. CASE BindSlot
  <2>1. PICK c \in Eligible :
          /\ bound' = With(bound, Slot.alias, c)
          /\ IF Slot.into = "pointer" THEN pointer' = c /\ UNCHANGED ids
                                      ELSE ids' = With(ids, Slot.name, c) /\ UNCHANGED pointer
    BY <1>1 DEF BindSlot
  <2>2. /\ Binding /\ at' = at + 1 /\ template' = template
        /\ Slot = template.slots[at]
    BY <1>1 DEF BindSlot, Slot
  <2>3. c \in Candidates(template, template.slots[at].from)
    BY <2>1, <2>2 DEF Eligible
  <2>4. /\ at \in DOMAIN template.slots /\ at \notin Filled
        /\ Filled' = Filled \cup {at}
        /\ (\A i : i = at => Held(i)' = c) /\ \A i \in Filled : Held(i)' = Held(i)
        /\ DOMAIN bound' = DOMAIN bound \cup {template.slots[at].alias}
    BY <2>1, <2>2, BindAdds DEF Filled
  <2>5. \A i \in DOMAIN template.slots :
          i # at => template.slots[i].name # template.slots[at].name
    BY <2>4, SlotFacts DEF DrawInv
  <2>6. \A i \in Filled : i \in DOMAIN template.slots /\ i # at
    BY <1>0, <2>4 DEF Filled
  <2>7. (\A a \in DOMAIN bound : \E i \in Filled : template.slots[i].alias = a)'
    BY <2>2, <2>4 DEF BoundInv
  <2>8. (\A i \in Filled : Held(i) \in Candidates(template, template.slots[i].from))'
    <3> SUFFICES ASSUME NEW i \in Filled'
                 PROVE  Held(i)' \in Candidates(template, template.slots[i].from)
      BY <2>2 DEF Candidates
    <3>1. CASE i = at
      BY <2>3, <2>4, <3>1
    <3>2. CASE i \in Filled
      BY <2>4, <3>2 DEF BoundInv
    <3> QED  BY <2>4, <3>1, <3>2
  <2>9. (\A i \in 1 .. at - 1 : template.slots[i].when = {} => i \in Filled)'
    <3>1. \A i \in 1 .. at' - 1 : i \in 1 .. at - 1 \/ i = at
      BY <1>0, <2>2
    <3> QED  BY <2>2, <2>4, <3>1 DEF BoundInv
  <2>10. CASE Slot.into = "pointer"
    <3>1. pointer' = c /\ ids' = ids /\ template.slots[at].into = "pointer"
      BY <2>1, <2>2, <2>10
    <3> QED  BY <2>2, <2>4, <2>7, <2>8, <2>9, <3>1 DEF BoundInv
  <2>11. CASE Slot.into # "pointer"
    <3>1. /\ pointer' = pointer /\ template.slots[at].into # "pointer"
          /\ ids' = With(ids, template.slots[at].name, c)
      BY <2>1, <2>2, <2>11
    <3>2. /\ DOMAIN ids' = DOMAIN ids \cup {template.slots[at].name}
          /\ ids'[template.slots[at].name] = c
          /\ \A n \in DOMAIN ids : n # template.slots[at].name => ids'[n] = ids[n]
      BY <3>1 DEF With
    <3>3. (\A n \in DOMAIN ids : \E i \in Filled :
             template.slots[i].name = n /\ template.slots[i].into # "pointer" /\ ids[n] = Held(i))'
      <4> SUFFICES ASSUME NEW n \in DOMAIN ids'
                   PROVE  \E i \in Filled' : template.slots[i].name = n
                            /\ template.slots[i].into # "pointer" /\ ids'[n] = Held(i)'
        BY <2>2
      <4>1. CASE n = template.slots[at].name
        BY <2>4, <3>1, <3>2, <4>1
      <4>2. CASE n # template.slots[at].name
        <5>1. PICK i \in Filled : /\ template.slots[i].name = n /\ template.slots[i].into # "pointer"
                                  /\ ids[n] = Held(i)
          BY <3>2, <4>2 DEF BoundInv
        <5> QED  BY <2>4, <3>2, <4>2, <5>1
      <4> QED  BY <4>1, <4>2
    <3>4. (\A i \in Filled : template.slots[i].into # "pointer" =>
             template.slots[i].name \in DOMAIN ids /\ ids[template.slots[i].name] = Held(i))'
      <4> SUFFICES ASSUME NEW i \in Filled', template.slots[i].into # "pointer"
                   PROVE  /\ template.slots[i].name \in DOMAIN ids'
                          /\ ids'[template.slots[i].name] = Held(i)'
        BY <2>2
      <4>1. CASE i = at
        BY <2>4, <3>2, <4>1
      <4>2. CASE i \in Filled
        BY <2>4, <2>5, <2>6, <3>2, <4>2 DEF BoundInv
      <4> QED  BY <2>4, <4>1, <4>2
    <3>5. (pointer # Nobody =>
             \E i \in Filled : template.slots[i].into = "pointer" /\ pointer = Held(i))'
      BY <2>2, <2>4, <3>1 DEF BoundInv
    <3> QED  BY <2>7, <2>8, <2>9, <3>3, <3>4, <3>5 DEF BoundInv
  <2> QED  BY <2>10, <2>11
<1>2. CASE ~BindSlot /\ at' = at
  <2>1. UNCHANGED <<template, bound, ids, pointer, at>>
    BY <1>2, NotBinding
  <2>2. Filled' = Filled /\ \A i : Held(i)' = Held(i)
    BY <2>1 DEF Filled, Held
  <2> QED  BY <2>1, <2>2 DEF BoundInv, Candidates
<1>3. CASE ~BindSlot /\ SkipSlot
  <2>1. UNCHANGED <<template, bound, ids, pointer>> /\ at' = at + 1 /\ Binding
    BY <1>3, NotBinding DEF SkipSlot
  <2>2. template.slots[at].when # {}
    BY <1>3 DEF SkipSlot, Cond, Slot
  <2>3. at \in DOMAIN template.slots
    BY <2>1, SlotFacts DEF DrawInv, Binding
  <2>4. template.slots[at].alias \notin DOMAIN bound
    <3> SUFFICES ASSUME template.slots[at].alias \in DOMAIN bound  PROVE FALSE
      OBVIOUS
    <3>1. PICK i \in Filled : template.slots[i].alias = template.slots[at].alias
      BY DEF BoundInv
    <3>2. i \in 1 .. at - 1 /\ i \in DOMAIN template.slots
      BY <1>0 DEF Filled
    <3>3. i = at
      BY <2>3, <3>1, <3>2, SlotFacts DEF DrawInv
    <3> QED  BY <1>0, <3>2, <3>3
  <2>5. 1 .. at' - 1 = 1 .. at - 1 \cup {at}
    BY <1>0, <2>1
  <2>6. Filled' = Filled /\ \A i : Held(i)' = Held(i)
    BY <2>1, <2>4, <2>5 DEF Filled, Held
  <2> QED  BY <2>1, <2>2, <2>5, <2>6 DEF BoundInv, Candidates
<1> QED  BY <1>1, <1>2, <1>3, NotBinding

(* Who is bound is none of those bound before.                             *)
LEMMA ApartStep ==
  ASSUME DrawInv, BoundInv, ApartInv, [ResolveNext]_resolveVars
  PROVE  ApartInv'
<1>0. at \in Nat \ {0} /\ \A i \in 1 .. at - 1 : i \in DOMAIN template.slots
  BY SlotFacts DEF DrawInv
<1>1. CASE BindSlot
  <2>1. PICK c \in Eligible : bound' = With(bound, Slot.alias, c)
    BY <1>1 DEF BindSlot
  <2>2. /\ Binding /\ at' = at + 1 /\ template' = template
        /\ Slot = template.slots[at]
    BY <1>1 DEF BindSlot, Slot
  <2>3. /\ at \in DOMAIN template.slots /\ at \notin Filled
        /\ Filled' = Filled \cup {at}
        /\ (\A i : i = at => Held(i)' = c) /\ \A i \in Filled : Held(i)' = Held(i)
    BY <2>1, <2>2, BindAdds DEF Filled
  <2> SUFFICES ASSUME PartsApart(template), NEW i \in Filled', NEW j \in Filled', i < j
               PROVE  Held(i)' # Held(j)'
    BY <2>2 DEF ApartInv, PartsApart, Candidates
  <2>4. \A k \in Filled : k \in 1 .. at - 1
    BY DEF Filled
  <2>5. CASE j \in Filled
    <3>1. i \in Filled
      BY <1>0, <2>3, <2>4, <2>5
    <3> QED  BY <2>3, <2>5, <3>1 DEF ApartInv
  <2>6. CASE j = at
    <3>1. i \in Filled
      BY <1>0, <2>3, <2>6
    <3>2. i \in DOMAIN template.slots /\ template.slots[i].alias \in DOMAIN bound
      BY <1>0, <2>4, <3>1 DEF Filled
    <3>3. Held(i) \in Candidates(template, template.slots[i].from)
      BY <3>1 DEF BoundInv
    <3>4. c \in Candidates(template, template.slots[at].from)
      BY <2>2 DEF Eligible
    <3>5. template.slots[i].alias # "agent"
      BY <3>2 DEF PartsApart
    <3>6. c # Held(i)
      <4>1. CASE Candidates(template, template.slots[i].from)
                   \cap Candidates(template, template.slots[at].from) = {}
        BY <3>3, <3>4, <4>1
      <4>2. CASE [rhs |-> template.slots[i].alias, eq |-> FALSE] \in template.slots[at].rule
        <5> DEFINE r == [rhs |-> template.slots[i].alias, eq |-> FALSE]
        <5>1. (c = (IF r.rhs = "agent" THEN Agent ELSE bound[r.rhs])) <=> r.eq
          BY <2>2, <4>2 DEF Eligible
        <5>2. r.rhs = template.slots[i].alias /\ ~r.eq
          OBVIOUS
        <5> QED  BY <3>5, <5>1, <5>2 DEF Held
      <4> QED  BY <2>3, <2>6, <3>2, <4>1, <4>2 DEF PartsApart
    <3> QED  BY <2>3, <2>6, <3>1, <3>6
  <2> QED  BY <2>3, <2>5, <2>6
<1>2. CASE ~BindSlot /\ at' = at
  <2>1. UNCHANGED <<template, bound, at>>
    BY <1>2, NotBinding
  <2> QED  BY <2>1 DEF ApartInv, Filled, Held, PartsApart, Candidates
<1>3. CASE ~BindSlot /\ SkipSlot
  <2>1. UNCHANGED <<template, bound>> /\ at' = at + 1 /\ Binding
    BY <1>3, NotBinding DEF SkipSlot
  <2>2. at \in DOMAIN template.slots /\ template.slots[at].alias \notin DOMAIN bound
    <3>1. at \in DOMAIN template.slots
      BY <2>1, SlotFacts DEF DrawInv, Binding
    <3>2. \A i \in Filled : template.slots[i].alias # template.slots[at].alias
      <4> SUFFICES ASSUME NEW i \in Filled
                   PROVE  template.slots[i].alias # template.slots[at].alias
        OBVIOUS
      <4>1. i \in 1 .. at - 1 /\ i \in DOMAIN template.slots
        BY <1>0 DEF Filled
      <4>2. i # at
        BY <1>0, <4>1
      <4> QED  BY <3>1, <4>1, <4>2, SlotFacts DEF DrawInv
    <3> QED  BY <3>1, <3>2 DEF BoundInv
  <2>3. 1 .. at' - 1 = 1 .. at - 1 \cup {at}
    BY <1>0, <2>1
  <2>4. Filled' = Filled /\ \A i : Held(i)' = Held(i)
    BY <2>1, <2>2, <2>3 DEF Filled, Held
  <2> QED  BY <2>1, <2>4 DEF ApartInv, PartsApart, Candidates
<1> QED  BY <1>1, <1>2, <1>3, NotBinding

(* What the later stages read does not change once the facts are there.    *)
LEMMA FactsStep ==
  ASSUME DrawInv, FactsInv, [ResolveNext]_resolveVars
  PROVE  FactsInv'
<1>1. CASE Assemble
  <2>1. UNCHANGED <<template, draw, at, bound, pointer>> /\ at > Len(template.slots)
    BY <1>1 DEF Assemble
  <2>2. /\ Activated' = Activated /\ Tasks' = Tasks /\ Blockers' = Blockers /\ Overlay' = Overlay
        /\ {Subst(e.from) : e \in {e \in template.script : Cond(e.when)}}'
             = {Subst(e.from) : e \in {e \in template.script : Cond(e.when)}}
    BY <2>1 DEF Activated, Tasks, Blockers, Overlay, Subst, Cond, Env, Content, HasPointer
  <2>3. at = Len(template.slots) + 1
    BY <2>1, SlotFacts DEF DrawInv
  <2>4. /\ facts'.active = Activated /\ facts'.tasks = Tasks /\ facts'.blockers = Blockers
        /\ facts'.overlay = Overlay
        /\ facts'.senders = {Subst(e.from) : e \in {e \in template.script : Cond(e.when)}}
    BY <1>1 DEF Assemble
  <2> QED  BY <2>1, <2>2, <2>3, <2>4 DEF FactsInv
<1>2. CASE ProjectEval \/ CheckCoherence \/ UNCHANGED resolveVars
  <2>1. /\ UNCHANGED <<template, draw, at, bound, pointer, facts>>
        /\ stage \in {"project", "gate", "done"} \/ stage' = stage
    BY <1>2 DEF ProjectEval, CheckCoherence, resolveVars
  <2>2. /\ Activated' = Activated /\ Tasks' = Tasks /\ Blockers' = Blockers /\ Overlay' = Overlay
        /\ {Subst(e.from) : e \in {e \in template.script : Cond(e.when)}}'
             = {Subst(e.from) : e \in {e \in template.script : Cond(e.when)}}
    BY <2>1 DEF Activated, Tasks, Blockers, Overlay, Subst, Cond, Env, Content, HasPointer
  <2> QED  BY <2>1, <2>2 DEF FactsInv
<1>3. CASE Sample \/ BindSlot \/ SkipSlot \/ BindRaises \/ ProjectRaises
  <2>1. stage' \notin {"project", "gate", "done"}
    BY <1>3 DEF Sample, Accept, Redraw, GiveUp, Raise, BindSlot, SkipSlot, Binding, BindRaises,
                ProjectRaises
  <2> QED  BY <2>1 DEF FactsInv
<1> QED  BY <1>1, <1>2, <1>3 DEF ResolveNext

LEMMA VerdictStep ==
  ASSUME GateInv, VerdictInv, [ResolveNext]_resolveVars
  PROVE  GateInv' /\ VerdictInv'
<1>1. CASE ProjectEval
  <2>1. /\ Missing = {} /\ verdict' = verdict /\ verdict # "coherent"
        /\ UNCHANGED <<template, draw, bound, ids, pointer, facts>>
    BY <1>1 DEF ProjectEval, VerdictInv
  <2>2. Missing' = Missing
    BY <2>1 DEF Missing, Mentioned, Bindings, WorldIds, Subst, Env, Content
  <2> QED  BY <2>1, <2>2 DEF GateInv, VerdictInv
<1>2. CASE CheckCoherence
  <2>1. /\ stage = "gate" /\ stage' = "done"
        /\ verdict' = IF Coherent THEN "coherent" ELSE "incoherent"
        /\ UNCHANGED <<template, draw, bound, ids, pointer, facts>>
    BY <1>2 DEF CheckCoherence
  <2>2. Missing' = Missing /\ Coherent' = Coherent
    BY <2>1 DEF Missing, Mentioned, Bindings, WorldIds, Subst, Env, Content, Coherent, InvariantOk,
                One, Items, Weight
  <2> QED  BY <2>1, <2>2 DEF GateInv, VerdictInv
<1>3. CASE UNCHANGED resolveVars
  <2>1. Missing' = Missing /\ Coherent' = Coherent
    BY <1>3 DEF resolveVars, Missing, Mentioned, Bindings, WorldIds, Subst, Env, Content, Coherent,
                InvariantOk, One, Items, Weight
  <2> QED  BY <1>3, <2>1 DEF resolveVars, GateInv, VerdictInv
<1>4. CASE Sample \/ BindSlot \/ SkipSlot \/ BindRaises \/ Assemble \/ ProjectRaises
  <2>1. /\ stage' \notin {"gate", "done"} /\ stage # "done" /\ verdict' = verdict
    BY <1>4 DEF Sample, Accept, Redraw, GiveUp, Raise, BindSlot, SkipSlot, Binding, BindRaises,
                Assemble, ProjectRaises
  <2> QED  BY <2>1 DEF GateInv, VerdictInv
<1> QED  BY <1>1, <1>2, <1>3, <1>4 DEF ResolveNext

LEMMA InvInit == ResolveInit => ResolveInv
<1> SUFFICES ASSUME ResolveInit  PROVE ResolveInv
  OBVIOUS
<1>1. DrawInv /\ at = 1 /\ DOMAIN bound = {} /\ DOMAIN ids = {} /\ pointer = Nobody
  BY DrawInit DEF ResolveInit
<1>2. Filled = {} /\ 1 .. at - 1 = {}
  BY <1>1 DEF Filled
<1>3. BoundInv /\ ApartInv
  BY <1>1, <1>2 DEF BoundInv, ApartInv
<1> QED  BY <1>1, <1>3 DEF ResolveInit, ResolveInv, FactsInv, GateInv, VerdictInv

LEMMA InvStep == ResolveInv /\ [ResolveNext]_resolveVars => ResolveInv'
BY DrawStep, BoundStep, ApartStep, FactsStep, VerdictStep DEF ResolveInv

-----------------------------------------------------------------------------
(* What the claims read off the invariant.                                 *)

LEMMA FilledFacts ==
  ASSUME DrawInv, BoundInv, NEW i \in Filled
  PROVE  /\ i \in DOMAIN template.slots /\ i \in 1 .. at - 1 /\ i \in Nat
         /\ template.slots[i].alias \in DOMAIN bound
         /\ Held(i) = bound[template.slots[i].alias]
         /\ Held(i) \in Candidates(template, template.slots[i].from)
<1>1. /\ i \in 1 .. at - 1 /\ at \in 1 .. Len(template.slots) + 1
      /\ Len(template.slots) \in Nat /\ DOMAIN template.slots = 1 .. Len(template.slots)
  BY SlotFacts DEF DrawInv, Filled
<1>2. i \in DOMAIN template.slots /\ i \in Nat
  BY <1>1
<1>3. Held(i) \in Candidates(template, template.slots[i].from)
  BY DEF BoundInv
<1> QED  BY <1>1, <1>2, <1>3 DEF Filled, Held

(* The invariant types the state.                                          *)
LEMMA InvTypes == ResolveInv => ResolveTypeOK
<1> SUFFICES ASSUME ResolveInv  PROVE ResolveTypeOK
  OBVIOUS
<1> USE DEF ResolveInv
<1>1. Range(bound) \subseteq DOMAIN People \cup template.projects
  <2> SUFFICES ASSUME NEW a \in DOMAIN bound  PROVE bound[a] \in DOMAIN People \cup template.projects
    BY DEF Range
  <2>1. PICK i \in Filled : template.slots[i].alias = a
    BY DEF BoundInv
  <2> QED  BY <2>1, FilledFacts, CandidateFacts
<1>2. Range(ids) \subseteq Range(bound)
  <2> SUFFICES ASSUME NEW n \in DOMAIN ids  PROVE ids[n] \in Range(bound)
    BY DEF Range
  <2>1. PICK i \in Filled : ids[n] = Held(i)
    BY DEF BoundInv
  <2> QED  BY <2>1, FilledFacts DEF Range
<1>3. pointer \in DOMAIN People \cup {Nobody}
  <2> SUFFICES ASSUME pointer # Nobody  PROVE pointer \in DOMAIN People
    OBVIOUS
  <2>1. PICK i \in Filled : template.slots[i].into = "pointer" /\ pointer = Held(i)
    BY DEF BoundInv
  <2>2. i \in DOMAIN template.slots /\ Held(i) \in Candidates(template, template.slots[i].from)
    BY <2>1, FilledFacts
  <2>3. template.slots[i].from.kind # "projects"
    BY <2>1, <2>2, SlotFacts DEF DrawInv
  <2> QED  BY <2>1, <2>2, <2>3, CandidateFacts
<1> QED  BY <1>1, <1>2, <1>3 DEF ResolveTypeOK, DrawInv, Stages, VerdictInv

(* A part always cast is held by a candidate for it, under its alias and   *)
(* under its name.                                                         *)
LEMMA CastIs ==
  ASSUME ResolveInv, Assembled, PartsApart(template),
         NEW a, NEW kinds, AlwaysCast(template, a, kinds)
  PROVE  /\ a \in DOMAIN bound /\ a \notin {"agent", "pointer", "blocker"}
         /\ Env[a] = bound[a] /\ bound[a] \in Range(ids)
         /\ kinds \subseteq {"role", "reports"} =>
              bound[a] \in DOMAIN People /\ Live(bound[a]) /\ bound[a] # Nobody
<1>1. PICK i \in DOMAIN template.slots :
        /\ template.slots[i].alias = a /\ template.slots[i].into = "ids"
        /\ template.slots[i].when = {} /\ template.slots[i].from.kind \in kinds
  BY DEF AlwaysCast
<1>2. i \in Filled
  <2>1. at = Len(template.slots) + 1 /\ i \in 1 .. Len(template.slots)
        /\ Len(template.slots) \in Nat
    BY SlotFacts DEF ResolveInv, FactsInv, Assembled, DrawInv
  <2> QED  BY <1>1, <2>1 DEF ResolveInv, BoundInv
<1>3. a \in DOMAIN bound /\ bound[a] = Held(i)
      /\ bound[a] \in Candidates(template, template.slots[i].from)
  BY <1>1, <1>2, FilledFacts DEF ResolveInv
<1>4. a \notin {"agent", "pointer", "blocker"}
  BY <1>1 DEF PartsApart
<1>5. bound[a] \in Range(ids)
  BY <1>1, <1>2, <1>3 DEF ResolveInv, BoundInv, Range
<1> QED  BY <1>1, <1>3, <1>4, <1>5, CandidateFacts DEF Env

LEMMA PlaysIs ==
  ASSUME ResolveInv, Assembled, PartsApart(template), NEW token, Plays(template, token)
  PROVE  OnStage(Subst(token))
<1>1. /\ token \in Range(template.activate) /\ token[2] = "id"
      /\ AlwaysCast(template, token[1], {"role", "reports"})
  BY DEF Plays, Activates
<1>2. /\ token[1] \notin {"agent", "pointer", "blocker"}
      /\ Env[token[1]] = bound[token[1]] /\ Live(bound[token[1]]) /\ bound[token[1]] # Nobody
  BY <1>1, CastIs
<1>3. Subst(token) = bound[token[1]] /\ token # <<"pointer", "id">>
  BY <1>1, <1>2 DEF Subst
<1>4. Subst(token) \in Activated
  BY <1>1, <1>2, <1>3 DEF Activated
<1> QED  BY <1>2, <1>3, <1>4 DEF OnStage, ResolveInv, FactsInv, Assembled

LEMMA PointerIs ==
  ASSUME ResolveInv, Assembled
  PROVE  LET token == <<"pointer", "id">>
         IN  /\ pointer = Nobody => Subst(token) = Agent
             /\ pointer # Nobody => Subst(token) = pointer /\ pointer \in DOMAIN People
             /\ pointer # Nobody /\ Activates(template, token) => OnStage(pointer)
<1> DEFINE token == <<"pointer", "id">>
<1>1. Subst(token) = IF pointer = Nobody THEN Agent ELSE pointer
  BY DEF Subst, Env
<1>2. ASSUME pointer # Nobody  PROVE pointer \in DOMAIN People /\ Live(pointer)
  <2>1. PICK i \in Filled : template.slots[i].into = "pointer" /\ pointer = Held(i)
    BY <1>2 DEF ResolveInv, BoundInv
  <2>2. i \in DOMAIN template.slots /\ Held(i) \in Candidates(template, template.slots[i].from)
    BY <2>1, FilledFacts DEF ResolveInv
  <2>3. template.slots[i].from.kind # "projects"
    BY <2>1, <2>2, SlotFacts DEF ResolveInv, DrawInv
  <2> QED  BY <2>1, <2>2, <2>3, CandidateFacts
<1>3. ASSUME pointer # Nobody, token \in Range(template.activate)  PROVE pointer \in Activated
  BY <1>3 DEF Activated
<1> QED  BY <1>1, <1>2, <1>3 DEF OnStage, Activates, ResolveInv, FactsInv, Assembled

LEMMA MayPlayIs ==
  ASSUME ResolveInv, Assembled, PartsApart(template), NEW token, MayPlay(template, token)
  PROVE  Subst(token) = Agent \/ OnStage(Subst(token))
<1>1. CASE token = <<"agent", "id">>
  BY <1>1 DEF Subst, Env
<1>2. CASE token = <<"pointer", "id">> /\ Activates(template, token)
  BY <1>2, PointerIs
<1> QED  BY <1>1, <1>2, PlaysIs DEF MayPlay

(* The blocker drawn, and distractors only the agent knows of.             *)
Drawn == [id |-> Content.id, known |-> {Subst(t) : t \in Content.known},
          class |-> Content.class, surfaced |-> Content.surfaced]

LEMMA BlockersAre ==
  /\ Drawn \in Blockers
  /\ \A b \in Blockers : b = Drawn \/ (b.known = {Agent} /\ b.class = "minor")
<1> DEFINE n == IF template.repeat = "" THEN 0 ELSE draw[template.repeat]
           others == {[id |-> template.distractors[i], known |-> {Agent}, class |-> "minor",
                       surfaced |-> FALSE] : i \in 1 .. n}
<1>1. Blockers = {Drawn} \cup others
  BY DEF Blockers, Drawn
<1>2. ASSUME NEW b \in others  PROVE b.known = {Agent} /\ b.class = "minor"
  <2>1. PICK i \in 1 .. n : b = [id |-> template.distractors[i], known |-> {Agent},
                                 class |-> "minor", surfaced |-> FALSE]
    BY <1>2
  <2> QED  BY <2>1
<1> HIDE DEF others
<1> QED  BY <1>1, <1>2

(* Tasks are the template's, with their owners and projects filled in.     *)
LEMMA TasksAre ==
  /\ \A t \in Tasks : \E k \in template.tasks :
       /\ t.id = k.id /\ t.owner = Subst(k.owner) /\ t.project = Subst(k.project)
       /\ t.class = k.class
  /\ \A k \in template.tasks : \E t \in Tasks : t.id = k.id
<1> DEFINE task(t) == [id |-> t.id, owner |-> Subst(t.owner), project |-> Subst(t.project),
                       class |-> t.class]
<1>1. Tasks = {task(t) : t \in template.tasks}
  BY DEF Tasks
<1>2. \A k : /\ task(k).id = k.id /\ task(k).owner = Subst(k.owner)
            /\ task(k).project = Subst(k.project) /\ task(k).class = k.class
  OBVIOUS
<1> HIDE DEF task
<1> QED  BY <1>1, <1>2

(* The blocker that was drawn is one of the template's.                    *)
LEMMA ContentIs ==
  ASSUME "_default" \in DOMAIN template.blockers
  PROVE  Content \in Range(template.blockers)
BY DEF Content, Range

(* Distinct parts, distinct people, and none of them the agent.            *)
LEMMA CastApart ==
  ASSUME ResolveInv, PartsApart(template)
  PROVE  /\ \A a, b \in DOMAIN bound : bound[a] = bound[b] => a = b
         /\ Agent \notin Range(bound)
<1>1. ASSUME NEW a \in DOMAIN bound, NEW b \in DOMAIN bound, bound[a] = bound[b]
      PROVE  a = b
  <2>1. PICK i \in Filled : template.slots[i].alias = a
    BY DEF ResolveInv, BoundInv
  <2>2. PICK j \in Filled : template.slots[j].alias = b
    BY DEF ResolveInv, BoundInv
  <2>3. i \in Nat /\ j \in Nat /\ Held(i) = Held(j)
    BY <1>1, <2>1, <2>2, FilledFacts DEF ResolveInv
  <2>4. ~(i < j) /\ ~(j < i)
    BY <2>3 DEF ResolveInv, ApartInv
  <2> QED  BY <2>1, <2>2, <2>3, <2>4
<1>2. ASSUME NEW a \in DOMAIN bound  PROVE bound[a] # Agent
  <2>1. PICK i \in Filled : template.slots[i].alias = a
    BY DEF ResolveInv, BoundInv
  <2>2. bound[a] \in Candidates(template, template.slots[i].from)
    BY <2>1, FilledFacts DEF ResolveInv
  <2>3. ~Live(Agent)
    BY ResolveAssumption DEF Live
  <2> QED  BY <2>2, <2>3, CandidateFacts DEF PartsApart
<1> QED  BY <1>1, <1>2 DEF Range

(* Those with an overlay, of the blocker drawn.                            *)
LEMMA Overlaid ==
  ASSUME ResolveInv, Assembled, Authored(template), NEW p \in DOMAIN Overlay
  PROVE  /\ OnStage(p)
         /\ \E o \in Range(Content.overlays) : p = Subst(o.who) /\ Overlay[p] = o.reveals
<1> DEFINE kept == {i \in DOMAIN Content.overlays :
                      Content.overlays[i].when = "has_pointer" => HasPointer}
           who(i) == Subst(Content.overlays[i].who)
           mine == {i \in kept : who(i) = p}
<1>0. /\ PartsApart(template) /\ PlayersActivated(template)
      /\ Content \in Range(template.blockers)
  BY ContentIs DEF Authored, PlayersActivated
<1>1. /\ Content.overlays \in Seq(Range(Content.overlays))
      /\ \A o \in Range(Content.overlays) :
           \/ Plays(template, o.who)
           \/ /\ o.who = <<"pointer", "id">> /\ Activates(template, o.who)
              /\ o.when = "has_pointer"
  BY <1>0 DEF PlayersActivated
<1>2. /\ Len(Content.overlays) \in Nat /\ DOMAIN Content.overlays = 1 .. Len(Content.overlays)
      /\ mine \in SUBSET (0 .. Len(Content.overlays))
  BY <1>1
<1>3. mine # {} /\ Overlay[p] = Content.overlays[Max(mine)].reveals
  BY DEF Overlay
<1> HIDE DEF mine
<1>4. Max(mine) \in mine
  <2>1. IsFiniteSet(mine) /\ mine \subseteq Nat
    <3>1. IsFiniteSet(0 .. Len(Content.overlays))
      BY <1>2, FS_Interval
    <3>2. IsFiniteSet(mine)
      BY <1>2, <3>1, FS_Subset
    <3> QED  BY <1>2, <3>2
  <2>2. \E x \in mine : \A y \in mine : x >= y
    BY <1>3, <2>1, Last
  <2> QED  BY <2>2, Zenon DEF Max
<1> DEFINE o == Content.overlays[Max(mine)]
<1>5. /\ o \in Range(Content.overlays) /\ p = Subst(o.who)
      /\ o.when = "has_pointer" => HasPointer
  BY <1>4 DEF mine, Range
<1>6. OnStage(p)
  <2>1. CASE Plays(template, o.who)
    BY <1>0, <1>5, <2>1, PlaysIs
  <2>2. CASE o.who = <<"pointer", "id">> /\ Activates(template, o.who) /\ o.when = "has_pointer"
    BY <1>5, <2>2, PointerIs DEF HasPointer
  <2> QED  BY <1>1, <1>5, <2>1, <2>2
<1> QED  BY <1>3, <1>5, <1>6

LEMMA CastReady == ResolveInv /\ Authored(template) => CastIsReady
<1> SUFFICES ASSUME ResolveInv, Authored(template), Assembled  PROVE CastIsReady
  BY DEF CastIsReady
<1>0. /\ PartsApart(template) /\ PlayersActivated(template)
      /\ Content \in Range(template.blockers)
  BY ContentIs DEF Authored, PlayersActivated
<1>1. /\ facts.tasks = Tasks /\ facts.blockers = Blockers /\ facts.overlay = Overlay
      /\ facts.senders = {Subst(e.from) : e \in {e \in template.script : Cond(e.when)}}
  BY DEF ResolveInv, FactsInv, Assembled
<1>2. ASSUME NEW p \in facts.senders  PROVE OnStage(p)
  <2>1. PICK e \in template.script : p = Subst(e.from)
    BY <1>1, <1>2
  <2> QED  BY <1>0, <2>1, PlaysIs DEF PlayersActivated
<1>3. ASSUME NEW t \in facts.tasks  PROVE t.owner = Agent \/ OnStage(t.owner)
  <2>1. PICK k \in template.tasks : t.owner = Subst(k.owner)
    BY <1>1, <1>3, TasksAre
  <2> QED  BY <1>0, <2>1, MayPlayIs DEF PlayersActivated
<1>4. ASSUME NEW b \in facts.blockers, NEW p \in b.known \ {Agent}  PROVE OnStage(p)
  <2>1. b.known = {Subst(t) : t \in Content.known} \/ b.known = {Agent}
    BY <1>1, <1>4, BlockersAre DEF Drawn
  <2>2. PICK t \in Content.known : p = Subst(t)
    BY <1>4, <2>1
  <2> QED  BY <1>0, <1>4, <2>2, MayPlayIs DEF PlayersActivated
<1> QED  BY <1>0, <1>1, <1>2, <1>3, <1>4, CastApart, Overlaid DEF CastIsReady

(* What the grader mentions is there: ids of slots, people and managers    *)
(* have been looked up, the rest no instance is without.                   *)
LEMMA MentionedThere ==
  ASSUME ResolveInv, stage \in {"gate", "done"}, Authored(template)
  PROVE  Mentioned \subseteq WorldIds
<1> SUFFICES ASSUME NEW token \in UNION {s.refs : s \in Range(template.shapes)}
             PROVE  Subst(token) \in WorldIds
  BY DEF Mentioned
<1>0. /\ PartsApart(template) /\ PlayersActivated(template) /\ MentionsKnown(template)
      /\ Assembled /\ Missing = {}
  BY DEF Authored, Assembled, ResolveInv, GateInv
<1>1. Subst(token) \in Mentioned
  BY DEF Mentioned
<1>2. ASSUME Subst(token) \in Range(ids) \/ Subst(token) \in Bindings \cap Dotted
      PROVE  Subst(token) \in WorldIds
  BY <1>0, <1>1, <1>2 DEF Missing
<1>3. facts.tasks = Tasks /\ facts.blockers = Blockers
  BY <1>0 DEF ResolveInv, FactsInv, Assembled
<1>4. \E b \in facts.blockers : b.id = Content.id
  BY <1>3, BlockersAre DEF Drawn
<1>5. CASE token[2] = "id"
  <2>0. Subst(token) = Env[token[1]]
    BY <1>5 DEF Subst
  <2>1. CASE token[1] = "agent"
    BY <2>0, <2>1 DEF Env, WorldIds
  <2>2. CASE token[1] = "pointer"
    <3>1. Subst(token) = (IF pointer = Nobody THEN Agent ELSE pointer)
      BY <2>0, <2>2 DEF Env
    <3>2. CASE pointer = Nobody
      BY <3>1, <3>2 DEF WorldIds
    <3>3. CASE pointer # Nobody
      <4>1. Subst(token) \in DOMAIN People
        BY <1>0, <3>1, <3>3, PointerIs
      <4>2. Subst(token) \in Range(Env)
        BY <2>0, <2>2 DEF Env, Range
      <4> QED  BY <1>2, <4>1, <4>2, ResolveAssumption DEF Bindings
    <3> QED  BY <3>2, <3>3
  <2>3. CASE token[1] = "blocker"
    <3>1. Subst(token) = Content.id
      BY <2>0, <2>3 DEF Env
    <3> QED  BY <1>4, <3>1 DEF WorldIds
  <2>4. CASE AlwaysCast(template, token[1], {"role", "reports", "projects"})
    BY <1>0, <1>2, <2>0, <2>4, CastIs
  <2> QED  BY <1>0, <1>5, <2>1, <2>2, <2>3, <2>4 DEF MentionsKnown
<1>6. CASE token[2] = "mgr"
  <2>1. /\ AlwaysCast(template, token[1], {"role", "reports"})
        /\ \A p \in DOMAIN People : Live(p) => People[p].boss \in DOMAIN People
    BY <1>0, <1>6 DEF MentionsKnown
  <2>2. /\ token[1] \in DOMAIN bound /\ token[1] # "agent"
        /\ Env[token[1]] = bound[token[1]]
        /\ bound[token[1]] \in DOMAIN People /\ Live(bound[token[1]])
    BY <1>0, <2>1, CastIs
  <2>3. Subst(token) = Manager(Env[token[1]]) /\ Subst(token) \in DOMAIN People
    BY <1>6, <2>1, <2>2 DEF Subst, Manager
  <2>4. Subst(token) \in Bindings
    BY <2>2, <2>3 DEF Bindings, Env
  <2> QED  BY <1>2, <2>3, <2>4, ResolveAssumption
<1>7. CASE token[2] = "lit"
  <2>0. Subst(token) = token[1]
    BY <1>7 DEF Subst
  <2>1. CASE token[1] \in {k.id : k \in template.tasks}
    <3>1. \E t \in facts.tasks : t.id = token[1]
      BY <1>3, <2>1, TasksAre
    <3> QED  BY <2>0, <3>1 DEF WorldIds
  <2>2. CASE \A b \in Range(template.blockers) : b.id = token[1]
    <3>1. Content.id = token[1]
      BY <1>0, <2>2, ContentIs DEF PlayersActivated
    <3> QED  BY <1>4, <2>0, <3>1 DEF WorldIds
  <2> QED  BY <1>0, <1>7, <2>1, <2>2 DEF MentionsKnown
<1> QED  BY <1>0, <1>5, <1>6, <1>7 DEF MentionsKnown

(* A hidden critical blocker is the only critical fact, and the checks     *)
(* leave one person who knows it, whose overlay reveals it.                *)
LEMMA SecretIsTold ==
  ASSUME ResolveInv, Authored(template), verdict = "coherent",
         NEW b \in facts.blockers, b.class = "critical", ~b.surfaced
  PROVE  \E p \in DOMAIN facts.overlay :
           b.known = {p} /\ OnStage(p) /\ facts.overlay[p] = b.id
<1>0. /\ Assembled /\ Coherent /\ PartsApart(template) /\ SecretsTold(template)
      /\ Content \in Range(template.blockers)
  BY ContentIs DEF ResolveInv, VerdictInv, Assembled, Authored, PlayersActivated
<1>1. facts.tasks = Tasks /\ facts.blockers = Blockers /\ facts.overlay = Overlay
  BY <1>0 DEF ResolveInv, FactsInv, Assembled
<1>2. /\ b = Drawn /\ Content.class = "critical" /\ ~Content.surfaced
      /\ b.id = Content.id /\ b.known = {Subst(t) : t \in Content.known}
  BY <1>1, BlockersAre DEF Drawn
<1>3. /\ \A k \in template.tasks : k.class # "critical"
      /\ \A o \in Range(Content.overlays) : o.reveals = b.id => o.who \in Content.known
      /\ Checks(template, "active", "critical") /\ Checks(template, "reveal", "critical")
      /\ \E i \in DOMAIN template.coherence :
           template.coherence[i] = [kind |-> "known_to", of |-> "critical", eq |-> 1]
  BY <1>0, <1>2 DEF SecretsTold
<1>4. Items("critical") = {b}
  <2>1. \A t \in facts.tasks : t.class # "critical"
    BY <1>1, <1>3, TasksAre
  <2>2. \A c \in facts.blockers : c.class = "critical" => c = b
    BY <1>1, <1>2, BlockersAre
  <2> QED  BY <2>1, <2>2 DEF Items
<1>5. One("critical") = b
  BY <1>4 DEF One
<1>6. PICK p : b.known = {p}
  <2>1. PICK i \in DOMAIN template.coherence :
          template.coherence[i] = [kind |-> "known_to", of |-> "critical", eq |-> 1]
    BY <1>3
  <2>2. InvariantOk(template.coherence[i])
    BY <1>0 DEF Coherent
  <2>3. template.coherence[i].kind = "known_to" /\ template.coherence[i].of = "critical"
        /\ template.coherence[i].eq = 1
    BY <2>1
  <2>4. Cardinality(b.known) = 1
    BY <1>5, <2>2, <2>3 DEF InvariantOk
  <2>5. IsFiniteSet(Content.known)
    BY <1>0, ArchetypeAssumption DEF ResolveInv, DrawInv
  <2>6. IsFiniteSet({Subst(t) : t \in Content.known})
    <3> DEFINE T == {Subst(t) : t \in Content.known}
               f == [t \in Content.known |-> Subst(t)]
    <3>1. f \in Surjection(Content.known, T)
      BY DEF Surjection
    <3> QED  BY <2>5, <3>1, FS_Surjection
  <2> QED  BY <1>2, <2>4, <2>6, FS_Singleton
<1>7. p # Agent
  <2>1. PICK i \in DOMAIN template.coherence :
          template.coherence[i].kind = "active" /\ template.coherence[i].of = "critical"
    BY <1>3 DEF Checks
  <2>2. InvariantOk(template.coherence[i])
    BY <1>0 DEF Coherent
  <2>3. People[p].tier = "active"
    BY <1>5, <1>6, <2>1, <2>2 DEF InvariantOk
  <2> QED  BY <2>3, ResolveAssumption
<1>8. PICK q \in DOMAIN Overlay : Overlay[q] = b.id
  <2>1. PICK i \in DOMAIN template.coherence :
          template.coherence[i].kind = "reveal" /\ template.coherence[i].of = "critical"
    BY <1>3 DEF Checks
  <2>2. InvariantOk(template.coherence[i])
    BY <1>0 DEF Coherent
  <2>3. b.id \in Range(facts.overlay)
    BY <1>5, <2>1, <2>2 DEF InvariantOk
  <2> QED  BY <1>1, <2>3 DEF Range
<1>9. q = p
  <2>1. PICK o \in Range(Content.overlays) : q = Subst(o.who) /\ Overlay[q] = o.reveals
    BY <1>0, <1>8, Overlaid
  <2>2. o.who \in Content.known
    BY <1>3, <1>8, <2>1
  <2> QED  BY <1>2, <1>6, <2>1, <2>2
<1> QED  BY <1>0, <1>1, <1>6, <1>8, <1>9, Overlaid

LEMMA TargetIs ==
  ASSUME ResolveInv, Authored(template), verdict = "coherent", template.target # ""
  PROVE  bound["critical_project"] = template.target
<1>0. /\ Assembled /\ Coherent /\ PartsApart(template) /\ TargetChecked(template)
      /\ Content \in Range(template.blockers)
  BY ContentIs DEF ResolveInv, VerdictInv, Assembled, Authored, PlayersActivated
<1>1. facts.tasks = Tasks /\ facts.blockers = Blockers
  BY <1>0 DEF ResolveInv, FactsInv, Assembled
<1>2. PICK i \in DOMAIN template.coherence :
        /\ template.coherence[i].kind = "project" /\ template.coherence[i].eq = template.target
        /\ \A k \in template.tasks : k.class = template.coherence[i].of =>
             k.project = <<"critical_project", "id">>
        /\ template.coherence[i].of \notin {"minor"} \cup {b.class : b \in Range(template.blockers)}
  BY <1>0 DEF TargetChecked
<1> DEFINE class == template.coherence[i].of
<1>3. Items(class) # {} /\ One(class).project = template.target
  BY <1>0, <1>2 DEF Coherent, InvariantOk
<1>4. One(class) \in facts.blockers \cup facts.tasks /\ One(class).class = class
  BY <1>3 DEF One, Items
<1>5. \A b \in facts.blockers : b.class # class
  <2>1. Content.class # class /\ class # "minor"
    BY <1>0, <1>2
  <2>2. Drawn.class = Content.class
    BY DEF Drawn
  <2> HIDE DEF class
  <2> QED  BY <1>1, <2>1, <2>2, BlockersAre
<1>6. One(class) \in Tasks
  BY <1>1, <1>4, <1>5
<1>7. PICK k \in template.tasks : One(class).project = Subst(k.project) /\ k.class = class
  BY <1>4, <1>6, TasksAre
<1>8. Subst(<<"critical_project", "id">>) = Env["critical_project"]
  BY DEF Subst
<1>9. Env["critical_project"] = bound["critical_project"]
  BY <1>0, CastIs DEF TargetChecked
<1> QED  BY <1>2, <1>3, <1>7, <1>8, <1>9

LEMMA Winnable == ResolveInv /\ Authored(template) => CoherentIsWinnable
<1> SUFFICES ASSUME ResolveInv, Authored(template), verdict = "coherent"  PROVE CoherentIsWinnable
  BY DEF CoherentIsWinnable
<1>1. stage = "done"
  BY DEF ResolveInv, VerdictInv
<1> QED  BY <1>1, MentionedThere, SecretIsTold, TargetIs DEF CoherentIsWinnable

(* The state of a resolution has its types, whatever the templates.        *)
THEOREM ResolveTypeCorrect == ResolveSpec => []ResolveTypeOK
<1>1. ResolveInit => ResolveInv
  BY InvInit
<1>2. ResolveInv /\ [ResolveNext]_resolveVars => ResolveInv'
  BY InvStep
<1>3. ResolveInv => ResolveTypeOK
  BY InvTypes
<1> QED  BY <1>1, <1>2, <1>3, PTL DEF ResolveSpec

(* Whatever is drawn of an archetype written as Authored asks, its parts   *)
(* are played by different people who are brought to life, and what is     *)
(* found coherent can be won.                                              *)
THEOREM Playable == ResolveSpec => [](Authored(template) => InstanceIsPlayable)
<1>1. ResolveInit => ResolveInv
  BY InvInit
<1>2. ResolveInv /\ [ResolveNext]_resolveVars => ResolveInv'
  BY InvStep
<1>3. ResolveInv => (Authored(template) => InstanceIsPlayable)
  BY CastReady, Winnable DEF InstanceIsPlayable
<1> QED  BY <1>1, <1>2, <1>3, PTL DEF ResolveSpec
=============================================================================
