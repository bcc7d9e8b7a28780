----------------------------- MODULE ScoreProofs -----------------------------
(***************************************************************************)
(* What holds of the scores of runs, for any number of runs and processes  *)
(* and for any log of moves.  The rows of the index are honest at every    *)
(* moment, and whatever is answered is whole (RunIndex); a score is what   *)
(* the moves in its log earn, and grading disturbs nothing (Evaluator).    *)
(***************************************************************************)
EXTENDS RunIndex, Evaluator, SequenceTheorems, FiniteSetTheorems, TLAPS

(* Why they hold.  Each kind of process keeps to its own phases.           *)
Roles ==
  \A p \in Procs :
    /\ pc[p] \in IndexPhases \cup {"opening"} => p \in Listers \cup Graders
    /\ pc[p] = "clearing" => p \in Listers
    /\ pc[p] = "graded" => p \in Graders
    /\ pc[p] \in {"scanning", "summarizing"} => p \in Inspectors

(* Only the process that has the database open is in the phases that       *)
(* change it.                                                              *)
OneWriter == \A p \in Procs : pc[p] \in IndexPhases => lock = p

(* A score never grades more than the log has, since the log only grows.   *)
ScoresAreBacked == \A d \in Dirs : \A n \in score[d] : n <= log[d]

(* The row in hand is of a directory still to be done, and as honest as    *)
(* the half of it that was read.                                           *)
Backed(row) == /\ row.log <= log[row.run]
               /\ \A n \in row.score : n <= log[row.run]

InHand(p) ==
  /\ pc[p] \in {"graded", "reading", "deleting", "inserting", "summarizing"} =>
       got[p].run \in todo[p] /\ Backed(got[p])
  /\ pc[p] \in {"deleting", "inserting"} =>
       got[p].run \in Runs /\ \A n \in got[p].score : n <= got[p].log
  /\ pc[p] = "inserting" => \A r \in rows : r.run # got[p].run

WorkInHand == \A p \in Procs : InHand(p)

(* What a reader has done so far is the listing less what is to be done.   *)
DoneSoFar(entries, p) ==
  /\ todo[p] \subseteq DOMAIN since[p]
  /\ {e.run : e \in entries} = DOMAIN since[p] \ todo[p]
  /\ \A d \in DOMAIN since[p] : since[p][d] <= log[d]
  /\ \A e \in entries : since[p][e.run] <= e.log /\ Backed(e)
  /\ pc[p] \in {"deleting", "inserting"} => since[p][got[p].run] <= got[p].log

ListingSoFar ==
  \A p \in Listers : pc[p] \in IndexPhases \ {"clearing"} => DoneSoFar(rows, p)

(* A scan leaves out only what had no record when it was listed.           *)
SeenSoFar(p) ==
  /\ todo[p] \subseteq DOMAIN since[p]
  /\ Begun(since[p]) \ todo[p] \subseteq {e.run : e \in seen[p]}
  /\ \A d \in DOMAIN since[p] : since[p][d] <= log[d]
  /\ \A e \in seen[p] : e.run \in DOMAIN since[p] /\ since[p][e.run] <= e.log /\ Backed(e)
  /\ pc[p] = "summarizing" => since[p][got[p].run] <= got[p].log

ScanSoFar ==
  \A p \in Inspectors :
    /\ pc[p] = "idle" => seen[p] = {}
    /\ pc[p] \in {"scanning", "summarizing"} => SeenSoFar(p)

(* run-eval has one directory in hand, graded before it is indexed.        *)
Graded(p) ==
  /\ pc[p] \in {"graded", "opening"} => todo[p] = {got[p].run} /\ got[p].run \in Runs
  /\ pc[p] = "opening" => score[got[p].run] # {}
  /\ pc[p] = "next" =>
       \/ todo[p] = {} /\ got[p] \in rows /\ got[p].score # {}
       \/ \E d \in Runs : todo[p] = {d} /\ score[d] # {}
  /\ pc[p] \in {"reading", "deleting", "inserting"} =>
       todo[p] = {got[p].run} /\ got[p].score # {}

GradeSoFar == \A p \in Graders : Graded(p)

IInv == /\ TypeOK
        /\ RowsAreHonest
        /\ Roles
        /\ OneWriter
        /\ ScoresAreBacked
        /\ WorkInHand
        /\ ListingSoFar
        /\ ScanSoFar
        /\ GradeSoFar

-----------------------------------------------------------------------------
(* The types, for every step.                                              *)
LEMMA TypeInit == Init => TypeOK
BY IndexAssumption DEF Init, TypeOK, NoRow, NoListing, Procs, Dirs, Row

LEMMA TypeStep ==
  ASSUME TypeOK, WorkInHand, [Next]_vars
  PROVE  TypeOK'
<1> USE IndexAssumption DEF TypeOK, dirVars, procVars, Goto
<1>1. ASSUME NEW d \in Dirs, Write(d)
      PROVE  TypeOK'
  <2>1. CASE CreateManifest(d) \/ FillManifest(d)
    BY <2>1 DEF CreateManifest, FillManifest
  <2>2. CASE AppendRecord(d)
    BY <2>2 DEF AppendRecord
  <2>3. CASE ScoreAgentRun(d)
    <3>1. {log[d]} \in SUBSET Nat
      OBVIOUS
    <3> QED  BY <2>3, <3>1 DEF ScoreAgentRun
  <2> QED  BY <1>1, <2>1, <2>2, <2>3 DEF Write
<1>2. ASSUME NEW p \in Procs, Call(p) \/ Open(p)
      PROVE  TypeOK'
  BY <1>2 DEF Call, Open, Starts, IndexPhases
<1>3. ASSUME NEW p \in Procs, Clear(p)
      PROVE  TypeOK'
  BY <1>3 DEF Clear, Listed, IndexPhases, Row
<1>4. ASSUME NEW p \in Procs, NEW d \in Dirs, Grade(p, d) \/ ReadScore(p, d)
      PROVE  TypeOK'
  <2>1. /\ [run |-> d, log |-> log[d], score |-> {}] \in
             [run : Dirs \cup {NoOne}, log : Nat, score : SUBSET Nat]
        /\ [run |-> d, log |-> 0, score |-> score[d]] \in
             [run : Dirs \cup {NoOne}, log : Nat, score : SUBSET Nat]
    OBVIOUS
  <2>2. CASE Grade(p, d)
    BY <2>1, <2>2 DEF Grade, Starts
  <2>3. CASE ReadScore(p, d)
    BY <2>1, <2>3 DEF ReadScore, IndexPhases
  <2> QED  BY <1>4, <2>2, <2>3
<1>5. ASSUME NEW p \in Procs, WriteScore(p)
      PROVE  TypeOK'
  BY <1>5 DEF WriteScore, WorkInHand, InHand
<1>6. ASSUME NEW p \in Procs, ReadLog(p)
      PROVE  TypeOK'
  BY <1>6 DEF ReadLog, IndexPhases, Dirs
<1>7. ASSUME NEW p \in Procs, Delete(p) \/ Insert(p)
      PROVE  TypeOK'
  <2>1. CASE Delete(p)
    BY <2>1 DEF Delete, IndexPhases
  <2>2. CASE Insert(p)
    <3>1. got[p] \in Row
      BY <2>2 DEF Insert, WorkInHand, InHand, Row
    <3>2. rows' \in SUBSET Row
      BY <2>2, <3>1 DEF Insert
    <3> QED  BY <2>2, <3>2 DEF Insert, IndexPhases
  <2> QED  BY <1>7, <2>1, <2>2
<1>8. ASSUME NEW p \in Procs, Answer(p) \/ Respond(p) \/ Kill(p)
      PROVE  TypeOK'
  <2>1. End(p)
    BY <1>8 DEF Answer, Respond, Kill
  <2>2. /\ NoRow \in [run : Dirs \cup {NoOne}, log : Nat, score : SUBSET Nat]
        /\ DOMAIN NoListing = {} /\ NoListing \in [DOMAIN NoListing -> Nat]
    BY DEF NoRow, NoListing
  <2>3. /\ pc' = [pc EXCEPT ![p] = "idle"]
        /\ lock' \in Procs \cup {NoOne}
        /\ todo' = [todo EXCEPT ![p] = {}]
        /\ got' = [got EXCEPT ![p] = NoRow]
        /\ seen' = [seen EXCEPT ![p] = {}]
        /\ since' = [since EXCEPT ![p] = NoListing]
        /\ UNCHANGED <<manifest, log, score, rows>>
    BY <2>1 DEF End, Release
  <2> HIDE DEF dirVars, procVars, Goto
  <2> QED  BY <2>2, <2>3
<1>9. ASSUME NEW p \in Procs, Scan(p)
      PROVE  TypeOK'
  BY <1>9 DEF Scan, Starts, Listed
<1>10. ASSUME NEW p \in Procs, NEW d \in Dirs, Skip(p, d) \/ SummarizeRows(p, d)
       PROVE  TypeOK'
  <2>1. CASE Skip(p, d)
    BY <2>1 DEF Skip
  <2>2. CASE SummarizeRows(p, d)
    BY <2>2 DEF SummarizeRows
  <2> QED  BY <1>10, <2>1, <2>2
<1>11. ASSUME NEW p \in Procs, SummarizeScore(p)
       PROVE  TypeOK'
  <2>1. /\ got[p].run \in Dirs
        /\ score[got[p].run] \in SUBSET Nat
    BY <1>11 DEF SummarizeScore, WorkInHand, InHand
  <2>2. [got[p] EXCEPT !.score = score[got[p].run]] \in Row
    BY <2>1 DEF Row
  <2> QED  BY <1>11, <2>1, <2>2 DEF SummarizeScore
<1>12. CASE UNCHANGED vars
  BY <1>12 DEF vars
<1> QED
  BY <1>1, <1>2, <1>3, <1>4, <1>5, <1>6, <1>7, <1>8, <1>9, <1>10, <1>11, <1>12
     DEF Next, Index, Inspect

-----------------------------------------------------------------------------
(* Logs only grow: TrajectoryStore appends, and nothing rewrites.          *)
LEMMA LogsGrow ==
  ASSUME TypeOK, [Next]_vars
  PROVE  \A d \in Dirs : log[d] <= log'[d]
<1> USE DEF TypeOK, dirVars
<1>1. ASSUME NEW d \in Dirs, AppendRecord(d)
      PROVE  \A e \in Dirs : log[e] <= log'[e]
  BY <1>1 DEF AppendRecord
<1>2. ASSUME UNCHANGED log
      PROVE  \A e \in Dirs : log[e] <= log'[e]
  BY <1>2
<1> QED
  BY <1>1, <1>2
     DEF Next, Write, Index, Inspect, CreateManifest, FillManifest, ScoreAgentRun,
         Call, Open, Clear, Grade, ReadScore, WriteScore, ReadLog, Delete, Insert,
         Answer, Scan, Skip, SummarizeRows, SummarizeScore, Respond, Kill, End, vars

(* Each kind of process keeps to its own phases.                           *)
LEMMA RolesStep ==
  ASSUME TypeOK, Roles, [Next]_vars
  PROVE  Roles'
<1> USE IndexAssumption DEF TypeOK, Roles, Goto, dirVars, procVars, IndexPhases, Procs
<1>1. ASSUME NEW p \in Procs, Call(p) \/ Open(p) \/ Clear(p)
      PROVE  Roles'
  BY <1>1 DEF Call, Open, Clear
<1>2. ASSUME NEW p \in Procs, NEW d \in Dirs, Grade(p, d) \/ ReadScore(p, d)
      PROVE  Roles'
  BY <1>2 DEF Grade, ReadScore
<1>3. ASSUME NEW p \in Procs, WriteScore(p) \/ ReadLog(p) \/ Delete(p) \/ Insert(p)
      PROVE  Roles'
  BY <1>3 DEF WriteScore, ReadLog, Delete, Insert
<1>4. ASSUME NEW p \in Procs, End(p)
      PROVE  Roles'
  BY <1>4 DEF End
<1>5. ASSUME NEW p \in Procs, Scan(p) \/ SummarizeScore(p)
      PROVE  Roles'
  BY <1>5 DEF Scan, SummarizeScore
<1>6. ASSUME NEW p \in Procs, NEW d \in Dirs, Skip(p, d) \/ SummarizeRows(p, d)
      PROVE  Roles'
  BY <1>6 DEF Skip, SummarizeRows
<1>7. ASSUME NEW d \in Dirs, Write(d)
      PROVE  Roles'
  BY <1>7 DEF Write, CreateManifest, FillManifest, AppendRecord, ScoreAgentRun
<1>8. CASE UNCHANGED vars
  BY <1>8 DEF vars
<1> QED
  BY <1>1, <1>2, <1>3, <1>4, <1>5, <1>6, <1>7, <1>8
     DEF Next, Index, Inspect, Answer, Respond, Kill

(* The database file has one user, and only the user changes the table.    *)
LEMMA OneWriterStep ==
  ASSUME TypeOK, OneWriter, [Next]_vars
  PROVE  OneWriter'
<1> USE IndexAssumption DEF TypeOK, OneWriter, Goto, dirVars, procVars, IndexPhases
<1>1. ASSUME NEW p \in Procs, Open(p)
      PROVE  OneWriter'
  <2>1. \A q \in Procs : pc[q] \notin IndexPhases
    BY <1>1 DEF Open, Procs
  <2> QED  BY <1>1, <2>1 DEF Open
<1>2. ASSUME NEW p \in Procs, End(p)
      PROVE  OneWriter'
  BY <1>2 DEF End, Release
<1>3. ASSUME NEW p \in Procs, Clear(p) \/ ReadLog(p) \/ Delete(p) \/ Insert(p)
      PROVE  OneWriter'
  BY <1>3 DEF Clear, ReadLog, Delete, Insert
<1>4. ASSUME NEW p \in Procs, NEW d \in Dirs,
             ReadScore(p, d) \/ Grade(p, d) \/ Skip(p, d) \/ SummarizeRows(p, d)
      PROVE  OneWriter'
  BY <1>4 DEF ReadScore, Grade, Skip, SummarizeRows
<1>5. ASSUME NEW p \in Procs, Call(p) \/ WriteScore(p) \/ Scan(p) \/ SummarizeScore(p)
      PROVE  OneWriter'
  BY <1>5 DEF Call, WriteScore, Scan, SummarizeScore
<1>6. ASSUME NEW d \in Dirs, Write(d)
      PROVE  OneWriter'
  BY <1>6 DEF Write, CreateManifest, FillManifest, AppendRecord, ScoreAgentRun
<1>7. CASE UNCHANGED vars
  BY <1>7 DEF vars
<1> QED
  BY <1>1, <1>2, <1>3, <1>4, <1>5, <1>6, <1>7
     DEF Next, Index, Inspect, Answer, Respond, Kill

-----------------------------------------------------------------------------
(* A score, once written, grades no more than the log then had.            *)
LEMMA ScoresStep ==
  ASSUME TypeOK, ScoresAreBacked, WorkInHand, [Next]_vars
  PROVE  ScoresAreBacked'
<1> USE DEF TypeOK, ScoresAreBacked, dirVars, procVars
<1>1. ASSUME NEW d \in Dirs, AppendRecord(d)
      PROVE  ScoresAreBacked'
  BY <1>1 DEF AppendRecord
<1>2. ASSUME NEW d \in Dirs, ScoreAgentRun(d)
      PROVE  ScoresAreBacked'
  BY <1>2 DEF ScoreAgentRun
<1>3. ASSUME NEW p \in Procs, WriteScore(p)
      PROVE  ScoresAreBacked'
  <2>1. got[p].log <= log[got[p].run]
    BY <1>3 DEF WriteScore, WorkInHand, InHand, Backed
  <2> QED  BY <1>3, <2>1 DEF WriteScore
<1>4. ASSUME UNCHANGED <<log, score>>
      PROVE  ScoresAreBacked'
  BY <1>4
<1> QED
  BY <1>1, <1>2, <1>3, <1>4
     DEF Next, Write, Index, Inspect, CreateManifest, FillManifest, Call, Open, Clear,
         Grade, ReadScore, ReadLog, Delete, Insert, Answer, Scan, Skip, SummarizeRows,
         SummarizeScore, Respond, Kill, End, vars

(* The rows are honest after every step.                                   *)
LEMMA HonestStep ==
  ASSUME TypeOK, TypeOK', RowsAreHonest, WorkInHand, [Next]_vars
  PROVE  RowsAreHonest'
<1> USE DEF RowsAreHonest
<1>1. ASSUME NEW S \in SUBSET rows, rows' = S
      PROVE  RowsAreHonest'
  <2>1. ASSUME NEW r \in rows'
        PROVE  r.log <= log'[r.run]
    <3>1. r \in rows /\ r.run \in Dirs /\ r.log \in Nat
      BY <1>1 DEF TypeOK, Row
    <3>2. /\ r.log <= log[r.run] /\ log[r.run] <= log'[r.run]
          /\ log[r.run] \in Nat /\ log'[r.run] \in Nat
      BY <3>1, LogsGrow DEF TypeOK
    <3> QED  BY <3>1, <3>2
  <2> QED  BY <1>1, <2>1
<1>2. ASSUME NEW p \in Procs, Insert(p)
      PROVE  RowsAreHonest'
  <2>1. rows' = rows \cup {got[p]} /\ log' = log
    BY <1>2 DEF Insert, dirVars
  <2>2. /\ got[p].run \in Runs /\ Backed(got[p])
        /\ \A n \in got[p].score : n <= got[p].log
        /\ \A r \in rows : r.run # got[p].run
    BY <1>2 DEF Insert, WorkInHand, InHand
  <2> QED  BY <2>1, <2>2 DEF Backed
<1>3. ASSUME NEW p \in Procs, Delete(p) \/ Clear(p)
      PROVE  RowsAreHonest'
  <2>1. rows' \in SUBSET rows
    BY <1>3 DEF Delete, Clear
  <2> QED  BY <1>1, <2>1
<1>4. CASE rows' = rows
  BY <1>1, <1>4
<1> QED
  BY <1>2, <1>3, <1>4
     DEF Next, Write, Index, Inspect, CreateManifest, FillManifest, AppendRecord,
         ScoreAgentRun, Call, Open, Grade, ReadScore, WriteScore, ReadLog, Answer,
         Scan, Skip, SummarizeRows, SummarizeScore, Respond, Kill, End, vars, dirVars

(* One process leaves the others' state alone, and the table while one of  *)
(* them is at it.                                                          *)
LEMMA OthersStandStill ==
  ASSUME TypeOK, OneWriter,
         NEW p \in Procs, NEW q \in Procs, p # q, Index(q) \/ Inspect(q) \/ Kill(q)
  PROVE  /\ pc'[p] = pc[p] /\ todo'[p] = todo[p] /\ got'[p] = got[p]
         /\ seen'[p] = seen[p] /\ since'[p] = since[p]
         /\ pc[p] \in IndexPhases => rows' = rows
<1>1. ASSUME pc[p] \in IndexPhases
      PROVE  pc[q] \notin IndexPhases
  BY <1>1 DEF OneWriter
<1> QED
  BY <1>1
     DEF Index, Inspect, Kill, Call, Open, Clear, Grade, ReadScore, WriteScore,
         ReadLog, Delete, Insert, Answer, Scan, Skip, SummarizeRows, SummarizeScore,
         Respond, End, Goto, TypeOK, IndexPhases

(* The work in hand: what others do leaves it alone, since logs only grow  *)
(* and the table has one writer.                                           *)
LEMMA WorkInHandStep ==
  ASSUME TypeOK, TypeOK', OneWriter, ScoresAreBacked, WorkInHand, [Next]_vars
  PROVE  WorkInHand'
<1>1. ASSUME NEW p \in Procs,
             pc'[p] = pc[p], todo'[p] = todo[p], got'[p] = got[p],
             pc[p] = "inserting" => rows' \subseteq rows
      PROVE  InHand(p)'
  <2>1. InHand(p)
    BY DEF WorkInHand
  <2>2. ASSUME pc[p] \in {"graded", "reading", "deleting", "inserting", "summarizing"}
        PROVE  Backed(got[p])'
    <3>1. /\ got[p].run \in Dirs /\ got[p].log \in Nat /\ got[p].score \in SUBSET Nat
          /\ Backed(got[p])
      BY <2>1, <2>2 DEF InHand, TypeOK
    <3>2. log[got[p].run] <= log'[got[p].run]
      BY <3>1, LogsGrow
    <3>3. log[got[p].run] \in Nat /\ log'[got[p].run] \in Nat
      BY <3>1 DEF TypeOK
    <3> QED  BY <1>1, <3>1, <3>2, <3>3 DEF Backed
  <2> QED  BY <1>1, <2>1, <2>2 DEF InHand
<1>2. ASSUME NEW d \in Dirs, Write(d)
      PROVE  WorkInHand'
  BY <1>1, <1>2
     DEF WorkInHand, Write, CreateManifest, FillManifest, AppendRecord, ScoreAgentRun, procVars
<1>3. ASSUME UNCHANGED vars
      PROVE  WorkInHand'
  BY <1>1, <1>3 DEF WorkInHand, vars, procVars
<1>4. ASSUME NEW q \in Procs, Index(q) \/ Inspect(q) \/ Kill(q)
      PROVE  WorkInHand'
  <2>1. ASSUME NEW p \in Procs, p # q
        PROVE  InHand(p)'
    <3>1. pc[p] = "inserting" => pc[p] \in IndexPhases
      BY DEF IndexPhases
    <3> QED  BY <1>1, <1>4, <2>1, <3>1, OthersStandStill
  <2>2. InHand(q)'
    <3> USE DEF TypeOK, InHand, dirVars, Goto
    <3>1. CASE Call(q) \/ Open(q) \/ Clear(q) \/ Scan(q)
      BY <3>1 DEF Call, Open, Clear, Scan
    <3>2. ASSUME NEW d \in Dirs, Grade(q, d)
          PROVE  InHand(q)'
      BY <3>2 DEF Grade, Backed
    <3>3. CASE WriteScore(q)
      BY <3>3 DEF WriteScore
    <3>4. ASSUME NEW d \in Dirs, ReadScore(q, d)
          PROVE  InHand(q)'
      BY <3>4 DEF ReadScore, Backed, ScoresAreBacked
    <3>5. CASE ReadLog(q)
      <4>1. got'[q] = [got[q] EXCEPT !.log = log[got[q].run]]
        BY <3>5 DEF ReadLog
      <4> QED  BY <3>5, <4>1 DEF ReadLog, WorkInHand, Backed
    <3>6. CASE Delete(q)
      BY <3>6 DEF Delete, WorkInHand, Backed
    <3>7. CASE Insert(q) \/ SummarizeScore(q)
      BY <3>7 DEF Insert, SummarizeScore
    <3>8. ASSUME NEW d \in Dirs, Skip(q, d) \/ SummarizeRows(q, d)
          PROVE  InHand(q)'
      BY <3>8 DEF Skip, SummarizeRows, Backed
    <3>9. CASE End(q)
      BY <3>9 DEF End
    <3> QED
      BY <1>4, <3>1, <3>2, <3>3, <3>4, <3>5, <3>6, <3>7, <3>8, <3>9
         DEF Index, Inspect, Answer, Respond, Kill
  <2> QED  BY <2>1, <2>2 DEF WorkInHand
<1> QED  BY <1>2, <1>3, <1>4 DEF Next

-----------------------------------------------------------------------------
(* A listing stays whole so far.                                           *)
LEMMA ListingStep ==
  ASSUME TypeOK, TypeOK', Roles, OneWriter, WorkInHand, ListingSoFar, [Next]_vars
  PROVE  ListingSoFar'
<1> DEFINE Sound(p) == pc[p] \in IndexPhases \ {"clearing"} => DoneSoFar(rows, p)
<1>1. ASSUME NEW p \in Listers,
             pc'[p] = pc[p], todo'[p] = todo[p], got'[p] = got[p], since'[p] = since[p],
             pc[p] \in IndexPhases => rows' = rows
      PROVE  Sound(p)'
  <2> SUFFICES ASSUME pc[p] \in IndexPhases \ {"clearing"}
               PROVE  DoneSoFar(rows, p)'
    BY <1>1
  <2>1. DoneSoFar(rows, p) /\ rows' = rows
    BY <1>1 DEF ListingSoFar
  <2>2. p \in Procs /\ DOMAIN since[p] \subseteq Dirs /\ since[p] \in [DOMAIN since[p] -> Nat]
    BY DEF Procs, TypeOK
  <2>3. ASSUME NEW d \in DOMAIN since[p]
        PROVE  since[p][d] <= log'[d]
    BY <2>1, <2>2, LogsGrow DEF DoneSoFar, TypeOK
  <2>4. ASSUME NEW e \in rows
        PROVE  Backed(e)'
    <3>1. e.run \in Dirs /\ e.log \in Nat /\ e.score \in SUBSET Nat
      BY DEF TypeOK, Row
    <3>2. log[e.run] <= log'[e.run] /\ log[e.run] \in Nat /\ log'[e.run] \in Nat
      BY <3>1, LogsGrow DEF TypeOK
    <3> QED  BY <2>1, <3>1, <3>2 DEF DoneSoFar, Backed
  <2> QED  BY <1>1, <2>1, <2>3, <2>4 DEF DoneSoFar
<1>2. ASSUME NEW d \in Dirs, Write(d)
      PROVE  ListingSoFar'
  BY <1>1, <1>2
     DEF ListingSoFar, Write, CreateManifest, FillManifest, AppendRecord, ScoreAgentRun,
         procVars
<1>3. ASSUME UNCHANGED vars
      PROVE  ListingSoFar'
  BY <1>1, <1>3 DEF ListingSoFar, vars
<1>4. ASSUME NEW q \in Procs, Index(q) \/ Inspect(q) \/ Kill(q)
      PROVE  ListingSoFar'
  <2>1. ASSUME NEW p \in Listers, p # q
        PROVE  Sound(p)'
    BY <1>1, <1>4, <2>1, OthersStandStill DEF Procs
  <2>2. ASSUME q \in Listers
        PROVE  Sound(q)'
    <3> USE <2>2 DEF TypeOK, Goto, dirVars, IndexPhases
    <3>1. CASE Call(q) \/ Open(q) \/ Scan(q) \/ WriteScore(q) \/ SummarizeScore(q) \/ End(q)
      BY <3>1 DEF Call, Open, Scan, WriteScore, SummarizeScore, End, Roles
    <3>2. ASSUME NEW d \in Dirs, Grade(q, d) \/ Skip(q, d) \/ SummarizeRows(q, d)
          PROVE  Sound(q)'
      BY <3>2, IndexAssumption DEF Grade, Skip, SummarizeRows, Roles, Procs
    <3>3. CASE Clear(q)
      BY <3>3 DEF Clear, DoneSoFar, Listed
    <3>4. ASSUME NEW d \in Dirs, ReadScore(q, d)
          PROVE  Sound(q)'
      BY <3>4 DEF ReadScore, DoneSoFar, ListingSoFar, Backed
    <3>5. CASE ReadLog(q)
      <4>1. got'[q] = [got[q] EXCEPT !.log = log[got[q].run]]
        BY <3>5 DEF ReadLog
      <4> QED  BY <3>5, <4>1 DEF ReadLog, DoneSoFar, ListingSoFar, WorkInHand, InHand, Backed
    <3>6. CASE Delete(q)
      <4>1. rows' = rows
        BY <3>6 DEF Delete, DoneSoFar, ListingSoFar, WorkInHand, InHand
      <4> QED  BY <3>6, <4>1 DEF Delete, DoneSoFar, ListingSoFar, Backed
    <3>7. CASE Insert(q)
      <4>1. /\ rows' = rows \cup {got[q]} /\ todo'[q] = todo[q] \ {got[q].run}
            /\ UNCHANGED <<log, since>> /\ pc'[q] = "next"
        BY <3>7 DEF Insert
      <4>2. /\ got[q].run \in todo[q] /\ Backed(got[q])
            /\ since[q][got[q].run] <= got[q].log /\ DoneSoFar(rows, q)
        BY <3>7 DEF Insert, WorkInHand, InHand, ListingSoFar, DoneSoFar
      <4>3. {e.run : e \in rows'} = {e.run : e \in rows} \cup {got[q].run}
        BY <4>1
      <4>4. {e.run : e \in rows'} = DOMAIN since'[q] \ todo'[q]
        BY <4>1, <4>2, <4>3 DEF DoneSoFar
      <4> QED  BY <4>1, <4>2, <4>4 DEF DoneSoFar, Backed
    <3> QED
      BY <1>4, <3>1, <3>2, <3>3, <3>4, <3>5, <3>6, <3>7
         DEF Index, Inspect, Answer, Respond, Kill
  <2> QED  BY <2>1, <2>2 DEF ListingSoFar
<1> QED  BY <1>2, <1>3, <1>4 DEF Next

(* So does the inspector's scan.                                           *)
LEMMA ScanStep ==
  ASSUME TypeOK, TypeOK', Roles, OneWriter, ScoresAreBacked, WorkInHand, ScanSoFar,
         [Next]_vars
  PROVE  ScanSoFar'
<1> DEFINE Sound(p) == /\ pc[p] = "idle" => seen[p] = {}
                       /\ pc[p] \in {"scanning", "summarizing"} => SeenSoFar(p)
<1>1. ASSUME NEW p \in Inspectors,
             pc'[p] = pc[p], todo'[p] = todo[p], got'[p] = got[p],
             seen'[p] = seen[p], since'[p] = since[p]
      PROVE  Sound(p)'
  <2> SUFFICES ASSUME pc[p] \in {"scanning", "summarizing"}
               PROVE  SeenSoFar(p)'
    BY <1>1 DEF ScanSoFar
  <2>1. SeenSoFar(p)
    BY DEF ScanSoFar
  <2>2. /\ p \in Procs /\ seen[p] \in SUBSET Row
        /\ DOMAIN since[p] \subseteq Dirs /\ since[p] \in [DOMAIN since[p] -> Nat]
    BY DEF Procs, TypeOK
  <2>3. ASSUME NEW d \in DOMAIN since[p]
        PROVE  since[p][d] <= log'[d]
    BY <2>1, <2>2, LogsGrow DEF SeenSoFar, TypeOK
  <2>4. ASSUME NEW e \in seen[p]
        PROVE  Backed(e)'
    <3>1. e.run \in Dirs /\ e.log \in Nat /\ e.score \in SUBSET Nat
      BY <2>2 DEF Row
    <3>2. log[e.run] <= log'[e.run] /\ log[e.run] \in Nat /\ log'[e.run] \in Nat
      BY <3>1, LogsGrow DEF TypeOK
    <3> QED  BY <2>1, <3>1, <3>2 DEF SeenSoFar, Backed
  <2> QED  BY <1>1, <2>1, <2>3, <2>4 DEF SeenSoFar
<1>2. ASSUME NEW d \in Dirs, Write(d)
      PROVE  ScanSoFar'
  BY <1>1, <1>2
     DEF ScanSoFar, Write, CreateManifest, FillManifest, AppendRecord, ScoreAgentRun,
         procVars
<1>3. ASSUME UNCHANGED vars
      PROVE  ScanSoFar'
  BY <1>1, <1>3 DEF ScanSoFar, vars
<1>4. ASSUME NEW q \in Procs, Index(q) \/ Inspect(q) \/ Kill(q)
      PROVE  ScanSoFar'
  <2>1. ASSUME NEW p \in Inspectors, p # q
        PROVE  Sound(p)'
    BY <1>1, <1>4, <2>1, OthersStandStill DEF Procs
  <2>2. ASSUME q \in Inspectors
        PROVE  Sound(q)'
    <3> USE <2>2 DEF TypeOK, Goto, dirVars
    <3>1. pc[q] \in {"idle", "scanning", "summarizing"}
      BY IndexAssumption DEF Roles, Procs
    <3>2. CASE Scan(q)
      BY <3>2 DEF Scan, Starts, ScanSoFar, SeenSoFar, Listed, Begun
    <3>3. ASSUME NEW d \in Dirs, SummarizeRows(q, d)
          PROVE  Sound(q)'
      BY <3>3 DEF SummarizeRows, ScanSoFar, SeenSoFar, Backed
    <3>7. ASSUME NEW d \in Dirs, Skip(q, d)
          PROVE  Sound(q)'
      <4>1. /\ SeenSoFar(q) /\ d \in todo[q] /\ log[d] = 0
            /\ todo'[q] = todo[q] \ {d} /\ pc'[q] = "scanning"
            /\ UNCHANGED <<log, score, seen, since>>
        BY <3>7 DEF Skip, NotARun, ScanSoFar
      <4>2. d \notin Begun(since[q])
        BY <4>1 DEF SeenSoFar, Begun
      <4> QED  BY <4>1, <4>2 DEF SeenSoFar, Backed
    <3>4. CASE SummarizeScore(q)
      <4> DEFINE entry == [got[q] EXCEPT !.score = score[got[q].run]]
      <4>1. /\ seen'[q] = seen[q] \cup {entry} /\ todo'[q] = todo[q] \ {got[q].run}
            /\ UNCHANGED <<log, since>> /\ pc'[q] = "scanning"
        BY <3>4 DEF SummarizeScore
      <4>2. /\ got[q].run \in todo[q] /\ Backed(got[q])
            /\ since[q][got[q].run] <= got[q].log /\ SeenSoFar(q)
        BY <3>4 DEF SummarizeScore, WorkInHand, InHand, ScanSoFar, SeenSoFar
      <4>3. entry.run = got[q].run /\ entry.log = got[q].log /\ entry.score = score[got[q].run]
        OBVIOUS
      <4> HIDE DEF entry
      <4>4. {e.run : e \in seen'[q]} = {e.run : e \in seen[q]} \cup {got[q].run}
        BY <4>1, <4>3
      <4>5. Begun(since'[q]) \ todo'[q] \subseteq {e.run : e \in seen'[q]}
        BY <4>1, <4>2, <4>4 DEF SeenSoFar
      <4> QED  BY <4>1, <4>2, <4>3, <4>5 DEF SeenSoFar, Backed, ScoresAreBacked
    <3>5. CASE End(q)
      BY <3>5 DEF End
    <3>6. ~ (Call(q) \/ Open(q) \/ Clear(q) \/ WriteScore(q) \/ ReadLog(q) \/ Delete(q)
             \/ Insert(q)) /\ \A d \in Dirs : ~ (Grade(q, d) \/ ReadScore(q, d))
      BY <3>1, IndexAssumption
         DEF Call, Open, Clear, WriteScore, ReadLog, Delete, Insert, Grade, ReadScore
    <3> QED
      BY <1>4, <3>2, <3>3, <3>4, <3>5, <3>6, <3>7 DEF Index, Inspect, Answer, Respond, Kill
  <2> QED  BY <2>1, <2>2 DEF ScanSoFar
<1> QED  BY <1>2, <1>3, <1>4 DEF Next

(* And run-eval's work.                                                    *)
LEMMA GradeStep ==
  ASSUME TypeOK, Roles, OneWriter, WorkInHand, GradeSoFar, [Next]_vars
  PROVE  GradeSoFar'
<1>1. \A d \in Dirs : score[d] # {} => score'[d] # {}
  <2>1. ASSUME NEW d \in Dirs, ScoreAgentRun(d)
        PROVE  \A e \in Dirs : score[e] # {} => score'[e] # {}
    BY <2>1 DEF ScoreAgentRun, TypeOK
  <2>2. ASSUME NEW p \in Procs, WriteScore(p)
        PROVE  \A e \in Dirs : score[e] # {} => score'[e] # {}
    BY <2>2 DEF WriteScore, TypeOK
  <2>3. ASSUME UNCHANGED score
        PROVE  \A e \in Dirs : score[e] # {} => score'[e] # {}
    BY <2>3
  <2> QED
    BY <2>1, <2>2, <2>3
       DEF Next, Write, Index, Inspect, Kill, CreateManifest, FillManifest, AppendRecord,
           Call, Open, Clear, Grade, ReadScore, ReadLog, Delete, Insert, Answer, Scan,
           Skip, SummarizeRows, SummarizeScore, Respond, End, vars, dirVars
<1>2. ASSUME NEW p \in Graders, pc'[p] = pc[p], todo'[p] = todo[p], got'[p] = got[p],
             pc[p] \in IndexPhases => rows' = rows
      PROVE  Graded(p)'
  <2>1. Graded(p)
    BY DEF GradeSoFar
  <2> QED  BY <1>1, <1>2, <2>1 DEF Graded, IndexPhases, Dirs
<1>3. ASSUME NEW d \in Dirs, Write(d)
      PROVE  GradeSoFar'
  BY <1>2, <1>3
     DEF GradeSoFar, Write, CreateManifest, FillManifest, AppendRecord, ScoreAgentRun,
         procVars
<1>4. ASSUME UNCHANGED vars
      PROVE  GradeSoFar'
  BY <1>2, <1>4 DEF GradeSoFar, vars
<1>5. ASSUME NEW q \in Procs, Index(q) \/ Inspect(q) \/ Kill(q)
      PROVE  GradeSoFar'
  <2>1. ASSUME NEW p \in Graders, p # q
        PROVE  Graded(p)'
    BY <1>2, <1>5, <2>1, OthersStandStill DEF Procs
  <2>2. ASSUME q \in Graders
        PROVE  Graded(q)'
    <3> USE <2>2 DEF TypeOK, Goto, dirVars, Dirs
    <3>1. q \notin Listers \cup Inspectors
      BY IndexAssumption
    <3>2. Graded(q)
      BY DEF GradeSoFar
    <3>3. ASSUME NEW d \in Dirs, Grade(q, d)
          PROVE  Graded(q)'
      BY <3>3 DEF Grade, Graded
    <3>4. CASE WriteScore(q)
      BY <3>2, <3>4 DEF WriteScore, Graded
    <3>5. CASE Open(q)
      BY <3>1, <3>2, <3>5 DEF Open, Graded
    <3>6. ASSUME NEW d \in Dirs, ReadScore(q, d)
          PROVE  Graded(q)'
      BY <3>2, <3>6 DEF ReadScore, Graded
    <3>7. CASE ReadLog(q)
      <4>1. got'[q] = [got[q] EXCEPT !.log = log[got[q].run]]
        BY <3>7 DEF ReadLog
      <4> QED  BY <3>2, <3>7, <4>1 DEF ReadLog, Graded
    <3>8. CASE Delete(q)
      BY <3>2, <3>8 DEF Delete, Graded
    <3>9. CASE Insert(q)
      BY <3>2, <3>9 DEF Insert, Graded
    <3>10. CASE End(q)
      BY <3>10 DEF End, Graded
    <3>11. /\ ~ (Call(q) \/ Clear(q) \/ Scan(q) \/ SummarizeScore(q))
           /\ \A d \in Dirs : ~ (Skip(q, d) \/ SummarizeRows(q, d))
      BY <3>1 DEF Call, Clear, Scan, SummarizeScore, Skip, SummarizeRows, Roles, Procs
    <3> QED
      BY <1>5, <3>3, <3>4, <3>5, <3>6, <3>7, <3>8, <3>9, <3>10, <3>11
         DEF Index, Inspect, Answer, Respond, Kill
  <2> QED  BY <2>1, <2>2 DEF GradeSoFar
<1> QED  BY <1>3, <1>4, <1>5 DEF Next

-----------------------------------------------------------------------------
(* The inductive invariant.                                                *)
LEMMA Invariance == Spec => []IInv
<1>1. Init => IInv
  <2> SUFFICES ASSUME Init
               PROVE  IInv
    OBVIOUS
  <2>1. TypeOK
    BY TypeInit
  <2>2. RowsAreHonest
    BY DEF Init, RowsAreHonest
  <2>3. Roles /\ OneWriter /\ WorkInHand /\ ListingSoFar
    BY DEF Init, Roles, OneWriter, WorkInHand, InHand, ListingSoFar, IndexPhases, Procs
  <2>4. ScoresAreBacked
    BY DEF Init, ScoresAreBacked
  <2>5. ScanSoFar /\ GradeSoFar
    BY DEF Init, ScanSoFar, GradeSoFar, Graded, Procs
  <2> QED  BY <2>1, <2>2, <2>3, <2>4, <2>5 DEF IInv
<1>2. IInv /\ [Next]_vars => IInv'
  <2> SUFFICES ASSUME IInv, [Next]_vars
               PROVE  IInv'
    OBVIOUS
  <2>1. TypeOK'
    BY TypeStep DEF IInv
  <2> QED
    BY <2>1, HonestStep, RolesStep, OneWriterStep, ScoresStep, WorkInHandStep,
       ListingStep, ScanStep, GradeStep DEF IInv
<1> QED  BY <1>1, <1>2, PTL DEF Spec

(* The state keeps its types, whatever the readers find in the directories.*)
THEOREM TypeCorrect == Spec => []TypeOK
<1>1. IInv => TypeOK
  BY DEF IInv
<1> QED  BY <1>1, Invariance, PTL

(* The index never holds two rows for a run, nor a row whose score is of   *)
(* more records than it counts: _derive_row reads the score first, logs    *)
(* only grow, and _upsert's two statements have the database to themselves.*)
THEOREM RowsHonest == Spec => []RowsAreHonest
<1>1. IInv => RowsAreHonest
  BY DEF IInv
<1> QED  BY <1>1, Invariance, PTL

(* A listing that answers has an entry for every run there was, a scan for *)
(* every run that had begun, and a run-eval that succeeds has indexed its  *)
(* score, for any number of runs and processes, killed anywhere.           *)
THEOREM AnswersWhole == Spec => []AnswersAreWhole
<1>1. IInv => AnswersAreWhole
  <2> SUFFICES ASSUME IInv, NEW p \in Procs, todo[p] = {}
               PROVE  /\ pc[p] = "scanning" => Whole(seen[p], since[p], Begun(since[p]))
                      /\ pc[p] = "next" /\ p \in Listers => Whole(rows, since[p], DOMAIN since[p])
                      /\ pc[p] = "next" /\ p \in Graders =>
                           got[p] \in rows /\ got[p].score # {}
    BY DEF AnswersAreWhole
  <2>2. ASSUME pc[p] = "scanning"
        PROVE  Whole(seen[p], since[p], Begun(since[p]))
    <3>1. SeenSoFar(p)
      BY <2>2 DEF IInv, Roles, ScanSoFar
    <3> QED  BY <3>1 DEF SeenSoFar, Whole, Backed
  <2>3. ASSUME pc[p] = "next", p \in Listers
        PROVE  Whole(rows, since[p], DOMAIN since[p])
    <3>1. DoneSoFar(rows, p)
      BY <2>3 DEF IInv, ListingSoFar, IndexPhases
    <3> QED  BY <3>1 DEF DoneSoFar, Whole, Backed
  <2>4. pc[p] = "next" /\ p \in Graders => got[p] \in rows /\ got[p].score # {}
    BY DEF IInv, GradeSoFar, Graded
  <2> QED  BY <2>2, <2>3, <2>4
<1> QED  BY <1>1, Invariance, PTL

-----------------------------------------------------------------------------
(* The operators along a path or a list of deltas, for the lengths in use. *)

(* Reading is looking up one token after the other.                        *)
ReadBy(world, path, node) ==
  node = [i \in 1 .. Len(path) |-> IF i = 1 THEN Get(world, path[1].arg, None)
                                   ELSE ReadToken(node[i - 1], path[i])]

LEMMA ReadDef ==
  ASSUME NEW world, NEW path
  PROVE  Read(world, path) = (CHOOSE node : ReadBy(world, path, node))[Len(path)]
BY DEF Read, ReadBy

LEMMA ReadIs ==
  ASSUME NEW world, NEW path, Len(path) \in 1 .. 4
  PROVE  \E node : ReadBy(world, path, node) /\ Read(world, path) = node[Len(path)]
<1> DEFINE n == Len(path)
           first  == Get(world, path[1].arg, None)
           second == ReadToken(first, path[2])
           third  == ReadToken(second, path[3])
           fourth == ReadToken(third, path[4])
           at(i) == CASE i = 1 -> first [] i = 2 -> second [] i = 3 -> third [] i = 4 -> fourth
           f == [i \in 1 .. n |-> at(i)]
<1>1. ReadBy(world, path, f)
  <2>1. \A i \in 1 .. n : f[i] = IF i = 1 THEN first ELSE ReadToken(f[i - 1], path[i])
    <3> SUFFICES ASSUME NEW i \in 1 .. n
                 PROVE  f[i] = IF i = 1 THEN first ELSE ReadToken(f[i - 1], path[i])
      OBVIOUS
    <3>1. i \in 1 .. 4 /\ n \in 1 .. 4
      OBVIOUS
    <3> HIDE DEF n, first
    <3>2. CASE i = 1
      BY <3>1, <3>2
    <3>3. CASE i = 2
      BY <3>1, <3>3
    <3>4. CASE i = 3
      BY <3>1, <3>4
    <3>5. CASE i = 4
      BY <3>1, <3>5
    <3> QED  BY <3>1, <3>2, <3>3, <3>4, <3>5
  <2> HIDE DEF first
  <2>2. f = [i \in 1 .. n |-> f[i]]
    <3> HIDE DEF at, n
    <3> QED  OBVIOUS
  <2> HIDE DEF f
  <2>3. f = [i \in 1 .. n |-> IF i = 1 THEN first ELSE ReadToken(f[i - 1], path[i])]
    BY <2>1, <2>2
  <2> QED  BY <2>3 DEF ReadBy, first
<1> HIDE DEF f
<1>2. ReadBy(world, path, CHOOSE node : ReadBy(world, path, node))
  BY <1>1, Zenon
<1> QED  BY <1>2, ReadDef

LEMMA ReadOne ==
  ASSUME NEW world, NEW a
  PROVE  Read(world, <<a>>)
           = Get(world, a.arg, None)
<1> DEFINE path == <<a>>
<1>1. Len(path) = 1 /\ path[1] = a
  OBVIOUS
<1> HIDE DEF path
<1>2. PICK node : ReadBy(world, path, node) /\ Read(world, path) = node[1]
  <2>1. Len(path) = 1 /\ Len(path) \in 1 .. 4
    BY <1>1
  <2> QED  BY <2>1, ReadIs, Zenon
<1>3. /\ node[1] = Get(world, a.arg, None)
  BY <1>1, <1>2 DEF ReadBy
<1> QED  BY <1>2, <1>3 DEF path

LEMMA ReadTwo ==
  ASSUME NEW world, NEW a, NEW b
  PROVE  Read(world, <<a, b>>)
           = ReadToken(Get(world, a.arg, None), b)
<1> DEFINE path == <<a, b>>
<1>1. Len(path) = 2 /\ path[1] = a /\ path[2] = b
  OBVIOUS
<1> HIDE DEF path
<1>2. PICK node : ReadBy(world, path, node) /\ Read(world, path) = node[2]
  <2>1. Len(path) = 2 /\ Len(path) \in 1 .. 4
    BY <1>1
  <2> QED  BY <2>1, ReadIs, Zenon
<1>3. /\ node[1] = Get(world, a.arg, None)
      /\ node[2] = ReadToken(node[1], b)
  BY <1>1, <1>2 DEF ReadBy
<1> QED  BY <1>2, <1>3 DEF path

LEMMA ReadThree ==
  ASSUME NEW world, NEW a, NEW b, NEW c
  PROVE  Read(world, <<a, b, c>>)
           = ReadToken(ReadToken(Get(world, a.arg, None), b), c)
<1> DEFINE path == <<a, b, c>>
<1>1. Len(path) = 3 /\ path[1] = a /\ path[2] = b /\ path[3] = c
  OBVIOUS
<1> HIDE DEF path
<1>2. PICK node : ReadBy(world, path, node) /\ Read(world, path) = node[3]
  <2>1. Len(path) = 3 /\ Len(path) \in 1 .. 4
    BY <1>1
  <2> QED  BY <2>1, ReadIs, Zenon
<1>3. /\ node[1] = Get(world, a.arg, None)
      /\ node[2] = ReadToken(node[1], b)
      /\ node[3] = ReadToken(node[2], c)
  BY <1>1, <1>2 DEF ReadBy
<1> QED  BY <1>2, <1>3 DEF path

LEMMA ReadFour ==
  ASSUME NEW world, NEW a, NEW b, NEW c, NEW d
  PROVE  Read(world, <<a, b, c, d>>)
           = ReadToken(ReadToken(ReadToken(Get(world, a.arg, None), b), c), d)
<1> DEFINE path == <<a, b, c, d>>
<1>1. Len(path) = 4 /\ path[1] = a /\ path[2] = b /\ path[3] = c /\ path[4] = d
  OBVIOUS
<1> HIDE DEF path
<1>2. PICK node : ReadBy(world, path, node) /\ Read(world, path) = node[4]
  <2>1. Len(path) = 4 /\ Len(path) \in 1 .. 4
    BY <1>1
  <2> QED  BY <2>1, ReadIs, Zenon
<1>3. /\ node[1] = Get(world, a.arg, None)
      /\ node[2] = ReadToken(node[1], b)
      /\ node[3] = ReadToken(node[2], c)
      /\ node[4] = ReadToken(node[3], d)
  BY <1>1, <1>2 DEF ReadBy
<1> QED  BY <1>2, <1>3 DEF path

(* Putting a value at a path: the nodes down to it, and back.              *)
NodesTo(world, path, node) ==
  node = [i \in 1 .. Len(path) |-> IF i = 1 THEN world
                                   ELSE Get(node[i - 1], path[i - 1], Dict(Nothing))]

Rebuilt(path, value, node, new) ==
  new = [i \in 1 .. Len(path) + 1 |-> IF i = Len(path) + 1 THEN value
                                      ELSE With(node[i], path[i], new[i + 1])]

LEMMA PutDef ==
  ASSUME NEW world, NEW path, NEW value
  PROVE  LET node == CHOOSE node : NodesTo(world, path, node)
         IN  Put(world, path, value) = (CHOOSE new : Rebuilt(path, value, node, new))[1]
BY DEF Put, NodesTo, Rebuilt

LEMMA PuttingAtTop ==
  ASSUME NEW world, NEW key, NEW value
  PROVE  Put(world, <<key>>, value) = With(world, key, value)
<1> DEFINE path == <<key>>
           node == CHOOSE node : NodesTo(world, path, node)
           new == CHOOSE new : Rebuilt(path, value, node, new)
<1>1. Len(path) = 1 /\ path[1] = key
  OBVIOUS
<1> HIDE DEF path
<1>2. NodesTo(world, path, [i \in 1 .. 1 |-> world])
  BY <1>1 DEF NodesTo
<1>3. NodesTo(world, path, node)
  BY <1>2, Zenon
<1>4. node[1] = world
  BY <1>1, <1>3 DEF NodesTo
<1> HIDE DEF node
<1>5. Rebuilt(path, value, node, [i \in 1 .. 2 |-> IF i = 2 THEN value ELSE With(node[1], key, value)])
  <2> DEFINE f == [i \in 1 .. 2 |-> IF i = 2 THEN value ELSE With(node[1], key, value)]
  <2>1. f = [i \in 1 .. 2 |-> IF i = 2 THEN value ELSE With(node[i], path[i], f[i + 1])]
    <3>1. \A i \in 1 .. 2 : (IF i = 2 THEN value ELSE With(node[1], key, value))
                              = (IF i = 2 THEN value ELSE With(node[i], path[i], f[i + 1]))
      BY <1>1
    <3> QED  BY <3>1
  <2> HIDE DEF f
  <2>2. Len(path) + 1 = 2
    BY <1>1
  <2> QED  BY <2>1, <2>2 DEF Rebuilt, f
<1>6. Rebuilt(path, value, node, new)
  BY <1>5, Zenon
<1>7. new[2] = value /\ new[1] = With(node[1], path[1], new[2])
  <2> HIDE DEF new
  <2>1. Len(path) + 1 = 2
    BY <1>1
  <2>2. new = [i \in 1 .. 2 |-> IF i = 2 THEN value ELSE With(node[i], path[i], new[i + 1])]
    BY <1>6, <2>1 DEF Rebuilt
  <2> QED  BY <2>2
<1>8. Put(world, path, value) = new[1]
  BY PutDef DEF node
<1> QED  BY <1>1, <1>4, <1>7, <1>8 DEF path

LEMMA PuttingDeep ==
  ASSUME NEW world, NEW a, NEW b, NEW c, NEW d, NEW value
  PROVE  LET second == Get(world, a, Dict(Nothing))
             third  == Get(second, b, Dict(Nothing))
             fourth == Get(third, c, Dict(Nothing))
         IN  Put(world, <<a, b, c, d>>, value)
               = With(world, a, With(second, b, With(third, c, With(fourth, d, value))))
<1> DEFINE path == <<a, b, c, d>>
           node == CHOOSE node : NodesTo(world, path, node)
           new == CHOOSE new : Rebuilt(path, value, node, new)
           second == Get(world, a, Dict(Nothing))
           third  == Get(second, b, Dict(Nothing))
           fourth == Get(third, c, Dict(Nothing))
           down(i) == CASE i = 1 -> world [] i = 2 -> second [] i = 3 -> third [] i = 4 -> fourth
           f == [i \in 1 .. 4 |-> down(i)]
<1>1. Len(path) = 4 /\ path[1] = a /\ path[2] = b /\ path[3] = c /\ path[4] = d
  OBVIOUS
<1> HIDE DEF path
<1>2. f = [i \in 1 .. 4 |-> IF i = 1 THEN world ELSE Get(f[i - 1], path[i - 1], Dict(Nothing))]
  <2>1. ASSUME NEW i \in 1 .. 4
        PROVE  f[i] = IF i = 1 THEN world ELSE Get(f[i - 1], path[i - 1], Dict(Nothing))
    <3>1. /\ f[1] = world /\ f[2] = second /\ f[3] = third /\ f[4] = fourth
      OBVIOUS
    <3> HIDE DEF f
    <3>2. i = 1 \/ i = 2 \/ i = 3 \/ i = 4
      OBVIOUS
    <3> QED  BY <1>1, <3>1, <3>2
  <2>2. f = [i \in 1 .. 4 |-> f[i]]
    <3> HIDE DEF down
    <3> QED  OBVIOUS
  <2> HIDE DEF f
  <2> QED  BY <2>1, <2>2
<1> HIDE DEF f
<1>3. NodesTo(world, path, f)
  BY <1>1, <1>2 DEF NodesTo
<1>4. NodesTo(world, path, node)
  BY <1>3, Zenon
<1>5. node[1] = world /\ node[2] = second /\ node[3] = third /\ node[4] = fourth
  <2>1. /\ node[1] = world /\ node[2] = Get(node[1], path[1], Dict(Nothing))
        /\ node[3] = Get(node[2], path[2], Dict(Nothing))
        /\ node[4] = Get(node[3], path[3], Dict(Nothing))
    <3> HIDE DEF node
    <3>1. node = [i \in 1 .. 4 |-> IF i = 1 THEN world
                                   ELSE Get(node[i - 1], path[i - 1], Dict(Nothing))]
      BY <1>1, <1>4 DEF NodesTo
    <3> QED  BY <3>1
  <2> QED  BY <1>1, <2>1
<1> HIDE DEF node, second, third, fourth
<1> DEFINE new4 == With(node[4], d, value)
           new3 == With(node[3], c, new4)
           new2 == With(node[2], b, new3)
           new1 == With(node[1], a, new2)
           up(i) == CASE i = 1 -> new1 [] i = 2 -> new2 [] i = 3 -> new3 [] i = 4 -> new4
                      [] i = 5 -> value
           g == [i \in 1 .. 5 |-> up(i)]
<1>6. g = [i \in 1 .. 5 |-> IF i = 5 THEN value ELSE With(node[i], path[i], g[i + 1])]
  <2>1. ASSUME NEW i \in 1 .. 5
        PROVE  g[i] = IF i = 5 THEN value ELSE With(node[i], path[i], g[i + 1])
    <3>1. /\ g[1] = new1 /\ g[2] = new2 /\ g[3] = new3 /\ g[4] = new4 /\ g[5] = value
      OBVIOUS
    <3> HIDE DEF g
    <3>2. i = 1 \/ i = 2 \/ i = 3 \/ i = 4 \/ i = 5
      OBVIOUS
    <3> QED  BY <1>1, <3>1, <3>2
  <2>2. g = [i \in 1 .. 5 |-> g[i]]
    <3> HIDE DEF up
    <3> QED  OBVIOUS
  <2> HIDE DEF g
  <2> QED  BY <2>1, <2>2
<1> HIDE DEF g
<1>7. Rebuilt(path, value, node, g)
  <2>1. Len(path) + 1 = 5
    BY <1>1
  <2> QED  BY <1>6, <2>1 DEF Rebuilt
<1>8. Rebuilt(path, value, node, new)
  BY <1>7, Zenon
<1>9. /\ new[5] = value /\ new[4] = With(node[4], d, new[5])
      /\ new[3] = With(node[3], c, new[4]) /\ new[2] = With(node[2], b, new[3])
      /\ new[1] = With(node[1], a, new[2])
  <2> HIDE DEF new
  <2>1. Len(path) + 1 = 5
    BY <1>1
  <2>2. new = [i \in 1 .. 5 |-> IF i = 5 THEN value ELSE With(node[i], path[i], new[i + 1])]
    BY <1>8, <2>1 DEF Rebuilt
  <2>3. /\ new[5] = value /\ new[4] = With(node[4], path[4], new[5])
        /\ new[3] = With(node[3], path[3], new[4]) /\ new[2] = With(node[2], path[2], new[3])
        /\ new[1] = With(node[1], path[1], new[2])
    BY <2>2
  <2> QED  BY <1>1, <2>3
<1>10. Put(world, path, value) = new[1]
  BY PutDef DEF node
<1> HIDE DEF new
<1> QED  BY <1>5, <1>9, <1>10 DEF path, second, third, fourth

(* Deltas one after the other.                                             *)
AppliedBy(world, deltas, applied) ==
  applied = [i \in 0 .. Len(deltas) |-> IF i = 0 THEN world
                                        ELSE ApplyDelta(applied[i - 1], deltas[i])]

LEMMA ApplyAllDef ==
  ASSUME NEW world, NEW deltas
  PROVE  ApplyAll(world, deltas)
           = (CHOOSE applied : AppliedBy(world, deltas, applied))[Len(deltas)]
BY DEF ApplyAll, AppliedBy

LEMMA Applying ==
  ASSUME NEW world, NEW deltas
  PROVE  /\ Len(deltas) = 0 => ApplyAll(world, deltas) = world
         /\ Len(deltas) = 1 => ApplyAll(world, deltas) = ApplyDelta(world, deltas[1])
         /\ Len(deltas) = 2 => ApplyAll(world, deltas)
                                 = ApplyDelta(ApplyDelta(world, deltas[1]), deltas[2])
<1> DEFINE first  == ApplyDelta(world, deltas[1])
           second == ApplyDelta(first, deltas[2])
           at(i) == CASE i = 0 -> world [] i = 1 -> first [] i = 2 -> second
           applied == CHOOSE applied : AppliedBy(world, deltas, applied)
<1>1. ASSUME NEW n \in 0 .. 2, Len(deltas) = n
      PROVE  /\ ApplyAll(world, deltas) = applied[n]
             /\ applied = [i \in 0 .. n |-> IF i = 0 THEN world
                                            ELSE ApplyDelta(applied[i - 1], deltas[i])]
  <2> DEFINE f == [i \in 0 .. n |-> at(i)]
  <2>1. ASSUME NEW i \in 0 .. n
        PROVE  f[i] = IF i = 0 THEN world ELSE ApplyDelta(f[i - 1], deltas[i])
    <3>1. \A j \in 0 .. n : f[j] = at(j)
      OBVIOUS
    <3> HIDE DEF f
    <3>2. i = 0 \/ (i = 1 /\ i - 1 = 0 /\ 0 \in 0 .. n) \/ (i = 2 /\ i - 1 = 1 /\ 1 \in 0 .. n)
      BY <1>1
    <3>3. at(0) = world /\ at(1) = first /\ at(2) = second
      OBVIOUS
    <3> HIDE DEF at
    <3> QED  BY <3>1, <3>2, <3>3
  <2>2. f = [i \in 0 .. n |-> f[i]]
    <3> HIDE DEF at
    <3> QED  OBVIOUS
  <2> HIDE DEF f
  <2>3. f = [i \in 0 .. n |-> IF i = 0 THEN world ELSE ApplyDelta(f[i - 1], deltas[i])]
    BY <2>1, <2>2
  <2>4. AppliedBy(world, deltas, f)
    BY <1>1, <2>3 DEF AppliedBy
  <2>5. AppliedBy(world, deltas, applied)
    BY <2>4, Zenon
  <2> HIDE DEF applied
  <2>6. applied = [i \in 0 .. n |-> IF i = 0 THEN world
                                    ELSE ApplyDelta(applied[i - 1], deltas[i])]
    BY <1>1, <2>5 DEF AppliedBy
  <2>7. ApplyAll(world, deltas) = applied[n]
    BY <1>1, ApplyAllDef DEF applied
  <2> QED  BY <2>6, <2>7
<1> HIDE DEF applied
<1>2. CASE Len(deltas) = 0
  <2>1. /\ ApplyAll(world, deltas) = applied[0]
        /\ applied = [i \in 0 .. 0 |-> IF i = 0 THEN world
                                       ELSE ApplyDelta(applied[i - 1], deltas[i])]
    BY <1>1, <1>2
  <2>2. applied[0] = world
    BY <2>1
  <2> QED  BY <1>2, <2>1, <2>2
<1>3. CASE Len(deltas) = 1
  <2>1. /\ ApplyAll(world, deltas) = applied[1]
        /\ applied = [i \in 0 .. 1 |-> IF i = 0 THEN world
                                       ELSE ApplyDelta(applied[i - 1], deltas[i])]
    BY <1>1, <1>3
  <2>2. applied[0] = world /\ applied[1] = ApplyDelta(applied[0], deltas[1])
    BY <2>1
  <2> QED  BY <1>3, <2>1, <2>2
<1>4. CASE Len(deltas) = 2
  <2>1. /\ ApplyAll(world, deltas) = applied[2]
        /\ applied = [i \in 0 .. 2 |-> IF i = 0 THEN world
                                       ELSE ApplyDelta(applied[i - 1], deltas[i])]
    BY <1>1, <1>4
  <2>2. /\ applied[0] = world /\ applied[1] = ApplyDelta(applied[0], deltas[1])
        /\ applied[2] = ApplyDelta(applied[1], deltas[2])
    BY <2>1
  <2> QED  BY <1>4, <2>1, <2>2
<1> QED  BY <1>2, <1>3, <1>4

(* The weighted sum of the four credits.                                   *)
SumBy(credits, sum) ==
  sum = [i \in 0 .. Len(Checkpoint) |-> IF i = 0 THEN 0
                                        ELSE sum[i - 1] + Checkpoint[i].w * credits[i]]

LEMMA WeightedDef ==
  ASSUME NEW credits
  PROVE  Weighted(credits) = (CHOOSE sum : SumBy(credits, sum))[Len(Checkpoint)]
BY DEF Weighted, SumBy

LEMMA CheckpointIs ==
  /\ Len(Checkpoint) = 4 /\ DOMAIN Checkpoint = 1 .. 4
  /\ Checkpoint[1].w = 30 /\ Checkpoint[2].w = 30 /\ Checkpoint[3].w = 15 /\ Checkpoint[4].w = 10
  /\ Checkpoint[1].spec = [kind |-> "eq", path |-> Surfaced, want |-> Atom("true")]
  /\ Checkpoint[2].spec =
       [kind |-> "any",
        subs |-> <<[kind |-> "changed", path |-> LaunchDate],
                   [kind |-> "existence", path |-> <<Name("decisions"), Filter(GoNoGo)>>]>>]
  /\ Checkpoint[3].spec =
       [kind |-> "set", path |-> <<Name("decisions"), Filter(GoNoGo), Name("action")>>,
        allowed |-> {Atom("reschedule"), Atom("hold_and_mitigate")}]
  /\ Checkpoint[4].spec =
       [kind |-> "existence", path |-> <<Name("messages"), Filter(CtoTold)>>]
BY DEF Checkpoint

LEMMA Weighing ==
  ASSUME NEW credits, \A i \in 1 .. 4 : credits[i] \in Nat
  PROVE  Weighted(credits) = 30 * credits[1] + 30 * credits[2] + 15 * credits[3] + 10 * credits[4]
<1> DEFINE first  == 30 * credits[1]
           second == first + 30 * credits[2]
           third  == second + 15 * credits[3]
           fourth == third + 10 * credits[4]
           at(i) == CASE i = 0 -> 0 [] i = 1 -> first [] i = 2 -> second [] i = 3 -> third
                      [] i = 4 -> fourth
           f == [i \in 0 .. 4 |-> at(i)]
           sum == CHOOSE sum : SumBy(credits, sum)
<1>1. ASSUME NEW i \in 0 .. 4
      PROVE  f[i] = IF i = 0 THEN 0 ELSE f[i - 1] + Checkpoint[i].w * credits[i]
  <2>1. f[0] = 0 /\ f[1] = first /\ f[2] = second /\ f[3] = third /\ f[4] = fourth
    OBVIOUS
  <2>2. i = 0 \/ i = 1 \/ i = 2 \/ i = 3 \/ i = 4
    OBVIOUS
  <2>3. 0 + 30 * credits[1] = first
    OBVIOUS
  <2> HIDE DEF f
  <2> QED  BY <2>1, <2>2, <2>3, CheckpointIs
<1>2. f = [i \in 0 .. 4 |-> f[i]]
  <2> HIDE DEF at
  <2> QED  OBVIOUS
<1> HIDE DEF f
<1>3. f = [i \in 0 .. 4 |-> IF i = 0 THEN 0 ELSE f[i - 1] + Checkpoint[i].w * credits[i]]
  BY <1>1, <1>2
<1>4. SumBy(credits, f)
  BY <1>3, CheckpointIs DEF SumBy
<1>5. SumBy(credits, sum)
  BY <1>4, Zenon
<1> HIDE DEF sum
<1>6. sum = [i \in 0 .. 4 |-> IF i = 0 THEN 0 ELSE sum[i - 1] + Checkpoint[i].w * credits[i]]
  BY <1>5, CheckpointIs DEF SumBy
<1>7. /\ sum[0] = 0 /\ sum[1] = sum[0] + Checkpoint[1].w * credits[1]
      /\ sum[2] = sum[1] + Checkpoint[2].w * credits[2]
      /\ sum[3] = sum[2] + Checkpoint[3].w * credits[3]
      /\ sum[4] = sum[3] + Checkpoint[4].w * credits[4]
  BY <1>6
<1>8. Weighted(credits) = sum[4]
  BY WeightedDef, CheckpointIs DEF sum
<1>9. sum[1] = 30 * credits[1] /\ sum[2] = 30 * credits[1] + 30 * credits[2]
  BY <1>7, CheckpointIs
<1> QED  BY <1>7, <1>8, <1>9, CheckpointIs

-----------------------------------------------------------------------------
(* The inductive invariant of the evaluator's log.                         *)

Moves == {"record_decision", "send_message", "send_email", "reschedule"}

Question == [to |-> Atom("holder"), refs |-> None]

Dates == {[date |-> Atom("d1")], [date |-> Atom("d2")]}

(* What an event of a kind was called with, and what it writes.            *)
Written(e) ==
  \/ /\ e.kind = "record_decision" /\ e.args \in Decisions
     /\ e.deltas = Add("decisions", e.args)
  \/ /\ e.kind = "send_message" /\ e.args \in Tellings \cup {Question}
     /\ e.deltas = Add("messages", e.args)
  \/ e.kind = "send_email" /\ e.deltas = Add("email", e.args)
  \/ /\ e.kind = "reschedule" /\ e.args \in Dates
     /\ e.deltas = <<[op |-> "set", path |-> <<"projects", "proj", "checkout", "launch_date">>,
                      value |-> e.args.date]>>
  \/ e.kind = "npc_reply" /\ e.deltas = Reveal(e).deltas
  \/ e.kind \in ScoreKinds /\ e.deltas = <<>>

(* Every event is one of these and has a number of its own, and the moves  *)
(* are numbered in the order of their minutes.                             *)
LogInv ==
  /\ events \in Seq(Range(events))
  /\ \A i \in DOMAIN events : /\ events[i].seq \in Nat \ {0}
                              /\ events[i].sim_time \in 0 .. MaxNow
                              /\ Written(events[i])
  /\ \A i, j \in DOMAIN events : events[i].seq = events[j].seq => i = j
  /\ \A i, j \in DOMAIN events :
       events[i].kind \in Moves /\ events[j].kind \in Moves =>
         (events[i].sim_time < events[j].sim_time => events[i].seq < events[j].seq)

(* Until the first score the numbers given are below the next one, those   *)
(* of pending replies are free, and nothing lies ahead of the clock.       *)
OpenInv ==
  results = <<>> =>
    /\ \A i \in DOMAIN events : /\ events[i].seq < nextSeq
                                /\ events[i].sim_time <= now
                                /\ events[i].kind \notin ScoreKinds
    /\ \A p \in pending : /\ p.seq < nextSeq
                          /\ \A i \in DOMAIN events : events[i].seq # p.seq
    /\ \A p, q \in pending : p.seq = q.seq => p = q

BoundsInv ==
  /\ now \in 0 .. MaxNow
  /\ nextSeq \in 1 .. MaxMoves + 2
  /\ pending \subseteq [seq : 1 .. MaxMoves + 1, sim_time : 1 .. MaxNow + 1]
  /\ IsFiniteSet(pending)
  /\ results \in Seq(0 .. 1000)

EvalInv == BoundsInv /\ LogInv /\ OpenInv /\ ScoreIsEarned /\ RecordsAreFresh

-----------------------------------------------------------------------------
(* The replay.                                                             *)

LEMMA LogIsFinite ==
  ASSUME LogInv
  PROVE  /\ Len(events) \in Nat /\ DOMAIN events = 1 .. Len(events)
         /\ IsFiniteSet(DOMAIN events)
         /\ \A S \in SUBSET (DOMAIN events) : IsFiniteSet(S) /\ Cardinality(S) \in Nat
<1>1. Len(events) \in Nat /\ DOMAIN events = 1 .. Len(events)
  BY LenProperties DEF LogInv
<1>2. IsFiniteSet(DOMAIN events)
  BY <1>1, FS_Interval
<1> QED  BY <1>1, <1>2, FS_Subset, FS_CardinalityType

(* Numbers being distinct, the order of replay is total.                   *)
LEMMA OrderTotal ==
  ASSUME LogInv, NEW i \in DOMAIN events, NEW j \in DOMAIN events, NEW k \in DOMAIN events
  PROVE  /\ i # j => InTimeOrder(events[i], events[j]) \/ InTimeOrder(events[j], events[i])
         /\ ~(InTimeOrder(events[i], events[j]) /\ InTimeOrder(events[j], events[i]))
         /\ InTimeOrder(events[i], events[j]) /\ InTimeOrder(events[j], events[k])
              => InTimeOrder(events[i], events[k])
<1>1. \A n \in DOMAIN events : events[n].seq \in Nat /\ events[n].sim_time \in Nat
  BY DEF LogInv
<1>2. i # j => events[i].seq # events[j].seq
  BY DEF LogInv
<1> QED  BY <1>1, <1>2 DEF InTimeOrder

LEMMA Latest ==
  ASSUME LogInv, NEW T \in SUBSET (DOMAIN events), T # {}
  PROVE  \E i \in T : \A j \in T \ {i} : InTimeOrder(events[j], events[i])
<1> DEFINE Ends(U) == \E i \in U : \A j \in U \ {i} : InTimeOrder(events[j], events[i])
           Bad == {U \in SUBSET T : U # {} /\ ~Ends(U)}
<1>1. IsFiniteSet(T) /\ T \subseteq DOMAIN events
  BY LogIsFinite
<1> SUFFICES ASSUME Bad # {} PROVE FALSE
  OBVIOUS
<1>2. Bad \subseteq FiniteSubsetsOf(T)
  BY <1>1, FS_FiniteSubsetsOfFinite
<1>3. IsWellFoundedOn(StrictSubsetOrdering(T), FiniteSubsetsOf(T))
  BY FS_StrictSubsetOrderingWellFounded
<1>4. PICK U \in Bad : \A W \in Bad : ~(<<W, U>> \in StrictSubsetOrdering(T))
  <2> HIDE DEF Bad
  <2> QED  BY <1>2, <1>3, WFMin, Zenon
<1>5. PICK x \in U : TRUE
  OBVIOUS
<1>6. U \ {x} # {}
  BY <1>5
<1>7. U \ {x} \notin Bad
  BY <1>4, <1>5 DEF StrictSubsetOrdering
<1>8. PICK y \in U \ {x} : \A j \in (U \ {x}) \ {y} : InTimeOrder(events[j], events[y])
  BY <1>6, <1>7
<1>9. x \in DOMAIN events /\ y \in DOMAIN events /\ U \subseteq DOMAIN events /\ x # y
  BY <1>1, <1>5, <1>8
<1>10. CASE InTimeOrder(events[x], events[y])
  <2>1. \A j \in U \ {y} : InTimeOrder(events[j], events[y])
    BY <1>8, <1>10
  <2> QED  BY <1>8, <2>1
<1>11. CASE InTimeOrder(events[y], events[x])
  <2>1. ASSUME NEW j \in U \ {x}  PROVE InTimeOrder(events[j], events[x])
    <3>1. j = y \/ InTimeOrder(events[j], events[y])
      BY <1>8, <2>1
    <3>2. j \in DOMAIN events
      BY <1>9, <2>1
    <3> QED  BY <1>9, <1>11, <3>1, <3>2, OrderTotal
  <2> QED  BY <1>5, <2>1
<1> QED  BY <1>9, <1>10, <1>11, OrderTotal

LEMMA LastIs ==
  ASSUME LogInv, NEW S \in SUBSET (DOMAIN events), S # {}
  PROVE  LET last == LastIn(events, S)
         IN  last \in S /\ \A j \in S \ {last} : InTimeOrder(events[j], events[last])
<1>1. \E i \in S : \A j \in S \ {i} : InTimeOrder(events[j], events[i])
  BY Latest
<1> QED  BY <1>1, Zenon DEF LastIn

Past(at) == {i \in DOMAIN events : events[i].seq > 0 /\ events[i].sim_time <= at}

Replays(sets, world) ==
  world = [S \in sets |-> IF S = {} THEN Opening
                          ELSE ApplyAll(world[S \ {LastIn(events, S)}],
                                        events[LastIn(events, S)].deltas)]

LEMMA ProjectDef ==
  ASSUME NEW at
  PROVE  Project(events, at)
           = (CHOOSE world : Replays(SUBSET Past(at), world))[Past(at)]
BY DEF Project, Replays, Past

(* The recursion has a solution: one for the sets of at most n events      *)
(* gives one for those of n + 1.                                           *)
LEMMA ReplayExists ==
  ASSUME LogInv, NEW past \in SUBSET (DOMAIN events)
  PROVE  \E world : Replays(SUBSET past, world)
<1> DEFINE Small(n) == {S \in SUBSET past : Cardinality(S) <= n}
           Bad == {U \in SUBSET past : ~\E world : Replays(Small(Cardinality(U)), world)}
<1>1. \A S \in SUBSET past : IsFiniteSet(S) /\ Cardinality(S) \in Nat
  BY LogIsFinite
<1>2. ASSUME NEW S \in SUBSET past, S # {}
      PROVE  LET T == S \ {LastIn(events, S)}
             IN  T \in SUBSET past /\ Cardinality(T) = Cardinality(S) - 1
  <2>1. LastIn(events, S) \in S
    BY <1>2, LastIs
  <2> QED  BY <1>1, <2>1, FS_RemoveElement
<1>3. Bad = {}
  <2> SUFFICES ASSUME Bad # {} PROVE FALSE
    OBVIOUS
  <2>1. PICK U \in Bad : \A W \in Bad : ~(<<W, U>> \in StrictSubsetOrdering(past))
    <3>1. Bad \subseteq FiniteSubsetsOf(past)
      BY <1>1, FS_FiniteSubsetsOfFinite
    <3>2. IsWellFoundedOn(StrictSubsetOrdering(past), FiniteSubsetsOf(past))
      BY FS_StrictSubsetOrderingWellFounded
    <3> HIDE DEF Bad
    <3> QED  BY <3>1, <3>2, WFMin, Zenon
  <2> DEFINE n == Cardinality(U)
  <2>2. CASE n = 0
    <3> DEFINE world == [S \in Small(0) |-> Opening]
    <3>1. \A S \in Small(0) : S = {}
      <4>1. \A S \in Small(0) : IsFiniteSet(S) /\ Cardinality(S) = 0
        BY <1>1
      <4> QED  BY <4>1, FS_EmptySet
    <3>2. Replays(Small(0), world)
      <4> HIDE DEF Small
      <4> QED  BY <3>1 DEF Replays
    <3> QED  BY <2>1, <2>2, <3>2
  <2>3. CASE n # 0
    <3>1. n - 1 \in Nat /\ n \in Nat /\ U # {}
      BY <1>1, <2>3, FS_EmptySet
    <3>2. PICK old : Replays(Small(n - 1), old)
      <4>1. PICK x \in U : TRUE
        BY <3>1
      <4>2. U \ {x} \in SUBSET past /\ Cardinality(U \ {x}) = n - 1
        BY <1>1, <4>1, FS_RemoveElement
      <4>3. <<U \ {x}, U>> \in StrictSubsetOrdering(past)
        BY <4>1 DEF StrictSubsetOrdering
      <4>4. U \ {x} \notin Bad
        BY <2>1, <4>3
      <4> HIDE DEF Small
      <4> QED  BY <4>2, <4>4
    <3> DEFINE value(w, S) == IF S = {} THEN Opening
                              ELSE ApplyAll(w[S \ {LastIn(events, S)}],
                                            events[LastIn(events, S)].deltas)
               new == [S \in Small(n) |-> value(old, S)]
    <3>3. ASSUME NEW S \in Small(n)  PROVE value(old, S) = value(new, S)
      <4>1. CASE S = {}
        BY <4>1
      <4>2. CASE S # {}
        <5> DEFINE T == S \ {LastIn(events, S)}
        <5>1. T \in Small(n - 1) /\ T \in Small(n)
          BY <1>1, <1>2, <3>1, <4>2
        <5> HIDE DEF T, Small
        <5>2. old[T] = value(old, T)
          BY <3>2, <5>1 DEF Replays
        <5>3. new[T] = value(old, T)
          BY <5>1
        <5> QED  BY <4>2, <5>2, <5>3 DEF T
      <4> QED  BY <4>1, <4>2
    <3> HIDE DEF Small
    <3>4. new = [S \in Small(n) |-> value(new, S)]
      <4>1. new = [S \in Small(n) |-> value(old, S)]
        OBVIOUS
      <4> HIDE DEF new, value
      <4> QED  BY <3>3, <4>1
    <3> HIDE DEF new
    <3>5. Replays(Small(n), new)
      BY <3>4 DEF Replays
    <3> QED  BY <2>1, <3>5 DEF Small
  <2> QED  BY <2>2, <2>3
<1>4. Small(Cardinality(past)) = SUBSET past
  <2>1. IsFiniteSet(past) /\ past \in SUBSET past
    BY <1>1
  <2>2. \A S \in SUBSET past : Cardinality(S) <= Cardinality(past)
    BY <2>1, FS_Subset
  <2> QED  BY <2>2
<1>5. Cardinality(past) \in Nat
  BY <1>1
<1>6. past \notin Bad
  BY <1>3
<1>7. \E world : Replays(Small(Cardinality(past)), world)
  <2> HIDE DEF Small
  <2> QED  BY <1>5, <1>6
<1> QED  BY <1>4, <1>7

-----------------------------------------------------------------------------
(* What a replayed world looks like, and what each delta does to it.       *)

Org == Dict([cto |-> Dict(Nothing), holder |-> Dict(Nothing)])

Built(date, surfaced, m, e, c) ==
  Dict([org |-> Org,
        projects |-> Dict([proj |-> Dict([checkout |-> Dict([launch_date |-> date])])]),
        blockers |-> Dict([blocker |-> Dict([psp_cert |-> Dict([surfaced |-> surfaced])])]),
        messages |-> List(m), email |-> List(e), decisions |-> List(c)])

LEMMA OpeningIs == Opening = Built(Atom("d1"), Atom("false"), <<>>, <<>>, <<>>)
BY DEF Opening, Built, Org

(* The two forms of a delta.                                               *)
Adding(partition, v) == [op |-> "append", path |-> <<partition>>, value |-> v]

Setting(path, v) == [op |-> "set", path |-> path, value |-> v]

DatePath == <<"projects", "proj", "checkout", "launch_date">>
FlagPath == <<"blockers", "blocker", "psp_cert", "surfaced">>

LEMMA Appended ==
  ASSUME NEW date, NEW surfaced, NEW m, NEW e, NEW c, NEW v
  PROVE  LET w == Built(date, surfaced, m, e, c)
         IN  /\ ApplyDelta(w, Adding("messages", v))
                  = Built(date, surfaced, Append(m, v), e, c)
             /\ ApplyDelta(w, Adding("email", v))
                  = Built(date, surfaced, m, Append(e, v), c)
             /\ ApplyDelta(w, Adding("decisions", v))
                  = Built(date, surfaced, m, e, Append(c, v))
<1> DEFINE w == Built(date, surfaced, m, e, c)
<1>1. ASSUME NEW p
      PROVE  ApplyDelta(w, Adding(p, v))
               = With(w, p, List(Append(Get(w, p, List(<<>>)).items, v)))
  <2>1. /\ Adding(p, v).op # "set" /\ Adding(p, v).path = <<p>> /\ Adding(p, v).value = v
        /\ Head(<<p>>) = p
    BY DEF Adding
  <2> HIDE DEF w
  <2>2. ApplyDelta(w, Adding(p, v)) = Put(w, <<p>>, List(Append(Get(w, p, List(<<>>)).items, v)))
    BY <2>1 DEF ApplyDelta
  <2> QED  BY <2>2, PuttingAtTop
<1>2. /\ Get(w, "messages", List(<<>>)).items = m
      /\ Get(w, "email", List(<<>>)).items = e
      /\ Get(w, "decisions", List(<<>>)).items = c
  BY DEF Built, Dict, List, Get
<1>3. ASSUME NEW x
      PROVE  /\ With(w, "messages", List(x)) = Built(date, surfaced, x, e, c)
             /\ With(w, "email", List(x)) = Built(date, surfaced, m, x, c)
             /\ With(w, "decisions", List(x)) = Built(date, surfaced, m, e, x)
  BY DEF With, Built, Dict
<1> HIDE DEF w
<1> QED  BY <1>1, <1>2, <1>3 DEF w

LEMMA Assigned ==
  ASSUME NEW date, NEW surfaced, NEW m, NEW e, NEW c, NEW v
  PROVE  LET w == Built(date, surfaced, m, e, c)
         IN  /\ ApplyDelta(w, Setting(DatePath, v))
                  = Built(v, surfaced, m, e, c)
             /\ ApplyDelta(w, Setting(FlagPath, v))
                  = Built(date, v, m, e, c)
<1> DEFINE w == Built(date, surfaced, m, e, c)
<1>1. ASSUME NEW path
      PROVE  ApplyDelta(w, Setting(path, v)) = Put(w, path, v)
  BY DEF ApplyDelta, Setting
<1>2. ApplyDelta(w, Setting(DatePath, v))
        = Built(v, surfaced, m, e, c)
  <2> DEFINE fourth == Dict([launch_date |-> date])
             third  == Dict([checkout |-> fourth])
             second == Dict([proj |-> third])
  <2>1. /\ Get(w, "projects", Dict(Nothing)) = second
        /\ Get(second, "proj", Dict(Nothing)) = third
        /\ Get(third, "checkout", Dict(Nothing)) = fourth
    BY DEF Built, Dict, Get
  <2>2. With(fourth, "launch_date", v) = Dict([launch_date |-> v])
    BY DEF With, Dict
  <2>3. \A x : With(third, "checkout", x) = Dict([checkout |-> x])
    BY DEF With, Dict
  <2>4. \A x : With(second, "proj", x) = Dict([proj |-> x])
    BY DEF With, Dict
  <2>5. \A x : With(w, "projects", x)
                 = Dict([org |-> Org, projects |-> x,
                         blockers |-> Dict([blocker |-> Dict([psp_cert |-> Dict([surfaced |-> surfaced])])]),
                         messages |-> List(m), email |-> List(e), decisions |-> List(c)])
    BY DEF With, Dict, Built
  <2> HIDE DEF w, fourth, third, second
  <2>6. Put(w, DatePath, v)
          = With(w, "projects", With(second, "proj", With(third, "checkout",
                 With(fourth, "launch_date", v))))
    BY <2>1, PuttingDeep DEF DatePath, FlagPath
  <2>7. Put(w, DatePath, v)
          = Built(v, surfaced, m, e, c)
    BY <2>2, <2>3, <2>4, <2>5, <2>6 DEF Built
  <2> QED  BY <1>1, <2>7
<1>3. ApplyDelta(w, Setting(FlagPath, v))
        = Built(date, v, m, e, c)
  <2> DEFINE fourth == Dict([surfaced |-> surfaced])
             third  == Dict([psp_cert |-> fourth])
             second == Dict([blocker |-> third])
  <2>1. /\ Get(w, "blockers", Dict(Nothing)) = second
        /\ Get(second, "blocker", Dict(Nothing)) = third
        /\ Get(third, "psp_cert", Dict(Nothing)) = fourth
    BY DEF Built, Dict, Get
  <2>2. With(fourth, "surfaced", v) = Dict([surfaced |-> v])
    BY DEF With, Dict
  <2>3. \A x : With(third, "psp_cert", x) = Dict([psp_cert |-> x])
    BY DEF With, Dict
  <2>4. \A x : With(second, "blocker", x) = Dict([blocker |-> x])
    BY DEF With, Dict
  <2>5. \A x : With(w, "blockers", x)
                 = Dict([org |-> Org, blockers |-> x,
                         projects |-> Dict([proj |-> Dict([checkout |-> Dict([launch_date |-> date])])]),
                         messages |-> List(m), email |-> List(e), decisions |-> List(c)])
    BY DEF With, Dict, Built
  <2> HIDE DEF w, fourth, third, second
  <2>6. Put(w, FlagPath, v)
          = With(w, "blockers", With(second, "blocker", With(third, "psp_cert",
                 With(fourth, "surfaced", v))))
    BY <2>1, PuttingDeep DEF DatePath, FlagPath
  <2>7. Put(w, FlagPath, v)
          = Built(date, v, m, e, c)
    BY <2>2, <2>3, <2>4, <2>5, <2>6 DEF Built
  <2> QED  BY <1>1, <2>7
<1> QED  BY <1>2, <1>3

(* What the fields hold after the replay of a set of events: the date of   *)
(* the last reschedule, ...                                                *)
OfKind(S, kind) == {i \in S : events[i].kind = kind}

DateIn(S, date) ==
  /\ OfKind(S, "reschedule") = {} => date = Atom("d1")
  /\ \A i \in OfKind(S, "reschedule") :
       (\A j \in OfKind(S, "reschedule") \ {i} : InTimeOrder(events[j], events[i]))
         => date = events[i].args.date

(* whether a reply came, ...                                               *)
SurfacedIn(S, surfaced) ==
  surfaced = Atom(IF OfKind(S, "npc_reply") = {} THEN "false" ELSE "true")

(* what was sent, ...                                                      *)
Sent == {Dict(t) : t \in Tellings \cup {Question, Reply}}

MessagesIn(S, m) ==
  /\ m \in Seq(Sent)
  /\ \A q \in DOMAIN m : \/ m[q] = Dict(Reply)
                         \/ \E i \in OfKind(S, "send_message") : m[q] = Dict(events[i].args)
  /\ \A i \in OfKind(S, "send_message") : \E q \in DOMAIN m : m[q] = Dict(events[i].args)

(* and what was decided, the last about the project in the last place of   *)
(* its like.                                                               *)
Decided == {Dict(d) : d \in Decisions}

OnIt(S) == {i \in OfKind(S, "record_decision") : events[i].args.about = Atom(About)}

DecisionsIn(S, c) ==
  /\ c \in Seq(Decided)
  /\ \A q \in DOMAIN c : \E i \in OfKind(S, "record_decision") : c[q] = Dict(events[i].args)
  /\ \A i \in OfKind(S, "record_decision") : \E q \in DOMAIN c : c[q] = Dict(events[i].args)
  /\ \A i \in OnIt(S) :
       (\A j \in OnIt(S) \ {i} : InTimeOrder(events[j], events[i])) =>
         \E q \in DOMAIN c : /\ c[q] = Dict(events[i].args)
                             /\ \A r \in DOMAIN c : r > q => c[r].keys.about # Atom(About)

Replayed(S, w) ==
  \E date, surfaced, m, e, c :
    /\ w = Built(date, surfaced, m, e, c)
    /\ DateIn(S, date) /\ SurfacedIn(S, surfaced) /\ MessagesIn(S, m) /\ DecisionsIn(S, c)

LEMMA ReplayedNone == Replayed({}, Opening)
<1>1. DateIn({}, Atom("d1")) /\ SurfacedIn({}, Atom("false"))
  BY DEF DateIn, SurfacedIn, OfKind
<1>2. MessagesIn({}, <<>>) /\ DecisionsIn({}, <<>>)
  BY DEF MessagesIn, DecisionsIn, OfKind, OnIt
<1> QED  BY <1>1, <1>2, OpeningIs, Zenon DEF Replayed

(* One event later than all the others.                                    *)
LEMMA DateAfter ==
  ASSUME LogInv, NEW S \in SUBSET (DOMAIN events), NEW i \in S, NEW date,
         \A j \in S \ {i} : InTimeOrder(events[j], events[i]), DateIn(S \ {i}, date)
  PROVE  /\ events[i].kind # "reschedule" => DateIn(S, date)
         /\ events[i].kind = "reschedule" => DateIn(S, events[i].args.date)
<1>1. CASE events[i].kind # "reschedule"
  <2>1. OfKind(S, "reschedule") = OfKind(S \ {i}, "reschedule")
    BY <1>1 DEF OfKind
  <2> QED  BY <1>1, <2>1 DEF DateIn
<1>2. CASE events[i].kind = "reschedule"
  <2>1. i \in OfKind(S, "reschedule")
    BY <1>2 DEF OfKind
  <2>2. ASSUME NEW k \in OfKind(S, "reschedule"), k # i
        PROVE  ~InTimeOrder(events[i], events[k])
    BY <2>2, OrderTotal DEF OfKind
  <2> QED  BY <1>2, <2>1, <2>2 DEF DateIn
<1> QED  BY <1>1, <1>2

LEMMA SurfacedAfter ==
  ASSUME NEW S, NEW i \in S, NEW surfaced, SurfacedIn(S \ {i}, surfaced)
  PROVE  /\ events[i].kind # "npc_reply" => SurfacedIn(S, surfaced)
         /\ events[i].kind = "npc_reply" => SurfacedIn(S, Atom("true"))
BY DEF SurfacedIn, OfKind

LEMMA MessagesAfter ==
  ASSUME LogInv, NEW S \in SUBSET (DOMAIN events), NEW i \in S, NEW m,
         MessagesIn(S \ {i}, m)
  PROVE  /\ events[i].kind # "send_message" => MessagesIn(S, m)
         /\ events[i].kind = "send_message" => MessagesIn(S, Append(m, Dict(events[i].args)))
         /\ events[i].kind = "npc_reply" => MessagesIn(S, Append(m, Dict(Reply)))
<1> DEFINE Was == OfKind(S \ {i}, "send_message")
<1>1. m \in Seq(Sent)
  BY DEF MessagesIn
<1>2. events[i].kind # "send_message" => OfKind(S, "send_message") = Was
  BY DEF OfKind
<1>3. events[i].kind = "send_message" => OfKind(S, "send_message") = Was \cup {i}
  BY DEF OfKind
<1>4. /\ \A q \in DOMAIN m : m[q] = Dict(Reply) \/ \E k \in Was : m[q] = Dict(events[k].args)
      /\ \A k \in Was : \E q \in DOMAIN m : m[q] = Dict(events[k].args)
  BY DEF MessagesIn
<1>5. ASSUME NEW x \in Sent
      PROVE  /\ Append(m, x) \in Seq(Sent) /\ DOMAIN Append(m, x) = DOMAIN m \cup {Len(m) + 1}
             /\ \A q \in DOMAIN m : Append(m, x)[q] = m[q]
             /\ Append(m, x)[Len(m) + 1] = x
  <2> HIDE DEF Sent
  <2> QED  BY <1>1, AppendProperties, LenProperties
<1> HIDE DEF Was
<1>6. CASE events[i].kind # "send_message"
  <2>1. MessagesIn(S, m)
    BY <1>1, <1>2, <1>4, <1>6 DEF MessagesIn
  <2>2. Dict(Reply) \in Sent
    BY DEF Sent
  <2>3. MessagesIn(S, Append(m, Dict(Reply)))
    <3> DEFINE n == Append(m, Dict(Reply))
    <3>1. /\ n \in Seq(Sent) /\ DOMAIN n = DOMAIN m \cup {Len(m) + 1}
          /\ \A q \in DOMAIN m : n[q] = m[q]
          /\ n[Len(m) + 1] = Dict(Reply)
      BY <1>5, <2>2
    <3> HIDE DEF n
    <3> QED  BY <1>2, <1>4, <1>6, <3>1 DEF MessagesIn, n
  <2> QED  BY <1>6, <2>1, <2>3
<1>7. CASE events[i].kind = "send_message"
  <2>1. events[i].args \in Tellings \cup {Question}
    BY <1>7 DEF LogInv, Written, ScoreKinds
  <2>2. Dict(events[i].args) \in Sent
    BY <2>1 DEF Sent
  <2> DEFINE n == Append(m, Dict(events[i].args))
  <2>3. /\ n \in Seq(Sent) /\ DOMAIN n = DOMAIN m \cup {Len(m) + 1}
        /\ \A q \in DOMAIN m : n[q] = m[q]
        /\ n[Len(m) + 1] = Dict(events[i].args)
    BY <1>5, <2>2
  <2> HIDE DEF n
  <2>4. MessagesIn(S, n)
    BY <1>3, <1>4, <1>7, <2>3 DEF MessagesIn
  <2> QED  BY <1>7, <2>4 DEF n
<1> QED  BY <1>6, <1>7

LEMMA DecisionsAfter ==
  ASSUME LogInv, NEW S \in SUBSET (DOMAIN events), NEW i \in S, NEW c,
         \A j \in S \ {i} : InTimeOrder(events[j], events[i]), DecisionsIn(S \ {i}, c)
  PROVE  /\ events[i].kind # "record_decision" => DecisionsIn(S, c)
         /\ events[i].kind = "record_decision" => DecisionsIn(S, Append(c, Dict(events[i].args)))
<1> DEFINE Was == OfKind(S \ {i}, "record_decision")
           On == OnIt(S \ {i})
           Ends(on, k) == \A j \in on \ {k} : InTimeOrder(events[j], events[k])
<1>1. c \in Seq(Decided)
  BY DEF DecisionsIn
<1>2. /\ \A q \in DOMAIN c : \E k \in Was : c[q] = Dict(events[k].args)
      /\ \A k \in Was : \E q \in DOMAIN c : c[q] = Dict(events[k].args)
      /\ \A k \in On : Ends(On, k) =>
           \E q \in DOMAIN c : /\ c[q] = Dict(events[k].args)
                               /\ \A r \in DOMAIN c : r > q => c[r].keys.about # Atom(About)
  BY DEF DecisionsIn
<1>3. CASE events[i].kind # "record_decision"
  <2>1. OfKind(S, "record_decision") = Was
    BY <1>3 DEF OfKind
  <2>2. OnIt(S) = On
    BY <2>1 DEF OnIt
  <2> HIDE DEF Was, On
  <2>3. DecisionsIn(S, c)
    BY <1>1, <1>2, <2>1, <2>2 DEF DecisionsIn
  <2> QED  BY <1>3, <2>3
<1>4. CASE events[i].kind = "record_decision"
  <2> DEFINE n == Append(c, Dict(events[i].args))
             last == Len(c) + 1
  <2>1. OfKind(S, "record_decision") = Was \cup {i}
    BY <1>4 DEF OfKind
  <2>2. events[i].args \in Decisions
    BY <1>4 DEF LogInv, Written, ScoreKinds
  <2>3. Dict(events[i].args) \in Decided
    BY <2>2 DEF Decided
  <2>4. /\ n \in Seq(Decided) /\ DOMAIN n = DOMAIN c \cup {last}
        /\ \A q \in DOMAIN c : n[q] = c[q]
        /\ n[last] = Dict(events[i].args)
        /\ \A q \in DOMAIN c : q \in Nat /\ q < last
        /\ last \in Nat
    <3> HIDE DEF Decided
    <3> QED  BY <1>1, <2>3, AppendProperties, LenProperties
  <2>5. n[last].keys.about = events[i].args.about
    BY <2>4 DEF Dict
  <2>6. On \subseteq S \ {i} /\ i \notin On
    BY DEF OnIt, OfKind
  <2>7. CASE events[i].args.about = Atom(About)
    <3>1. OnIt(S) = On \cup {i}
      BY <1>4, <2>7 DEF OnIt, OfKind
    <3>2. ASSUME NEW k \in On  PROVE ~Ends(On \cup {i}, k)
      <4>1. k \in S \ {i} /\ k \in DOMAIN events /\ i \in DOMAIN events
        BY <2>6
      <4>2. ~InTimeOrder(events[i], events[k])
        BY <4>1, OrderTotal
      <4> QED  BY <4>1, <4>2
    <3> HIDE DEF n, last, Was, On
    <3>3. \A q \in DOMAIN n : \E k \in Was \cup {i} : n[q] = Dict(events[k].args)
      BY <1>2, <2>4
    <3>4. \A k \in Was \cup {i} : \E q \in DOMAIN n : n[q] = Dict(events[k].args)
      BY <1>2, <2>4
    <3>5. \A k \in On \cup {i} : Ends(On \cup {i}, k) =>
            \E q \in DOMAIN n : /\ n[q] = Dict(events[k].args)
                                /\ \A r \in DOMAIN n : r > q => n[r].keys.about # Atom(About)
      <4>1. last \in DOMAIN n /\ \A r \in DOMAIN n : ~(r > last)
        BY <2>4
      <4> QED  BY <2>4, <3>2, <4>1
    <3> HIDE DEF Ends
    <3>6. DecisionsIn(S, n)
      BY <2>1, <2>4, <3>1, <3>3, <3>4, <3>5 DEF DecisionsIn, Ends
    <3> QED  BY <1>4, <3>6 DEF n
  <2>8. CASE events[i].args.about # Atom(About)
    <3>1. OnIt(S) = On
      BY <2>8 DEF OnIt, OfKind
    <3> HIDE DEF n, last, Was, On
    <3>3. \A q \in DOMAIN n : \E k \in Was \cup {i} : n[q] = Dict(events[k].args)
      BY <1>2, <2>4
    <3>4. \A k \in Was \cup {i} : \E q \in DOMAIN n : n[q] = Dict(events[k].args)
      BY <1>2, <2>4
    <3> HIDE DEF Ends
    <3>5. ASSUME NEW k \in On, Ends(On, k)
          PROVE  \E q \in DOMAIN n : /\ n[q] = Dict(events[k].args)
                                     /\ \A r \in DOMAIN n : r > q => n[r].keys.about # Atom(About)
      <4>1. PICK q \in DOMAIN c : /\ c[q] = Dict(events[k].args)
                                  /\ \A r \in DOMAIN c : r > q => c[r].keys.about # Atom(About)
        BY <1>2, <3>5
      <4>2. q \in DOMAIN n /\ n[q] = Dict(events[k].args)
        BY <2>4, <4>1
      <4>3. ASSUME NEW r \in DOMAIN n, r > q  PROVE n[r].keys.about # Atom(About)
        <5>1. CASE r \in DOMAIN c
          BY <2>4, <4>1, <4>3, <5>1
        <5>2. CASE r = last
          BY <2>5, <2>8, <5>2
        <5> QED  BY <2>4, <5>1, <5>2
      <4> QED  BY <4>2, <4>3
    <3>6. \A k \in On : Ends(On, k) =>
            \E q \in DOMAIN n : /\ n[q] = Dict(events[k].args)
                                /\ \A r \in DOMAIN n : r > q => n[r].keys.about # Atom(About)
      BY <3>5
    <3>7. \A k \in OnIt(S) :
            (\A j \in OnIt(S) \ {k} : InTimeOrder(events[j], events[k])) =>
              \E q \in DOMAIN n : /\ n[q] = Dict(events[k].args)
                                  /\ \A r \in DOMAIN n : r > q => n[r].keys.about # Atom(About)
      BY <3>1, <3>6 DEF Ends
    <3>8. /\ \A q \in DOMAIN n : \E k \in OfKind(S, "record_decision") :
                                    n[q] = Dict(events[k].args)
          /\ \A k \in OfKind(S, "record_decision") : \E q \in DOMAIN n :
                                    n[q] = Dict(events[k].args)
      BY <2>1, <3>3, <3>4
    <3>9. DecisionsIn(S, n)
      BY <2>4, <3>7, <3>8 DEF DecisionsIn
    <3> QED  BY <1>4, <3>9 DEF n
  <2> QED  BY <2>7, <2>8
<1> QED  BY <1>3, <1>4

LEMMA ReplayStep ==
  ASSUME LogInv, NEW S \in SUBSET (DOMAIN events), NEW i \in S, NEW w,
         \A j \in S \ {i} : InTimeOrder(events[j], events[i]), Replayed(S \ {i}, w)
  PROVE  Replayed(S, ApplyAll(w, events[i].deltas))
<1> DEFINE T == S \ {i}
           ev == events[i]
           new == ApplyAll(w, ev.deltas)
<1> SUFFICES Replayed(S, new)
  OBVIOUS
<1>1. PICK date, surfaced, m, e, c :
        /\ w = Built(date, surfaced, m, e, c)
        /\ DateIn(T, date) /\ SurfacedIn(T, surfaced) /\ MessagesIn(T, m) /\ DecisionsIn(T, c)
  BY DEF Replayed
<1>2. /\ ev.kind # "reschedule" => DateIn(S, date)
      /\ ev.kind = "reschedule" => DateIn(S, ev.args.date)
      /\ ev.kind # "npc_reply" => SurfacedIn(S, surfaced)
      /\ ev.kind = "npc_reply" => SurfacedIn(S, Atom("true"))
      /\ ev.kind # "send_message" => MessagesIn(S, m)
      /\ ev.kind = "send_message" => MessagesIn(S, Append(m, Dict(ev.args)))
      /\ ev.kind = "npc_reply" => MessagesIn(S, Append(m, Dict(Reply)))
      /\ ev.kind # "record_decision" => DecisionsIn(S, c)
      /\ ev.kind = "record_decision" => DecisionsIn(S, Append(c, Dict(ev.args)))
  BY <1>1, DateAfter, SurfacedAfter, MessagesAfter, DecisionsAfter
<1>3. \A d, s, x, y, z : /\ new = Built(d, s, x, y, z)
                         /\ DateIn(S, d) /\ SurfacedIn(S, s) /\ MessagesIn(S, x) /\ DecisionsIn(S, z)
                         => Replayed(S, new)
  <2> HIDE DEF new
  <2> QED  BY Zenon DEF Replayed
<1>4. Written(ev)
  BY DEF LogInv
<1> HIDE DEF ev
<1>5. ASSUME NEW d  PROVE ApplyAll(w, <<d>>) = ApplyDelta(w, d)
  BY Applying
<1>6. CASE ev.kind = "record_decision" /\ ev.deltas = Add("decisions", ev.args)
  <2>1. new = Built(date, surfaced, m, e, Append(c, Dict(ev.args)))
    <3> DEFINE d == Adding("decisions", Dict(ev.args))
    <3>1. ApplyDelta(w, d) = Built(date, surfaced, m, e, Append(c, Dict(ev.args)))
      BY <1>1, Appended
    <3>2. ev.deltas = <<d>>
      BY <1>6 DEF Add, Adding
    <3> HIDE DEF d
    <3> QED  BY <1>5, <3>1, <3>2
  <2> HIDE DEF new
  <2> QED  BY <1>2, <1>3, <1>6, <2>1 DEF ev
<1>7. CASE ev.kind = "send_message" /\ ev.deltas = Add("messages", ev.args)
  <2>1. new = Built(date, surfaced, Append(m, Dict(ev.args)), e, c)
    <3> DEFINE d == Adding("messages", Dict(ev.args))
    <3>1. ApplyDelta(w, d) = Built(date, surfaced, Append(m, Dict(ev.args)), e, c)
      BY <1>1, Appended
    <3>2. ev.deltas = <<d>>
      BY <1>7 DEF Add, Adding
    <3> HIDE DEF d
    <3> QED  BY <1>5, <3>1, <3>2
  <2> HIDE DEF new
  <2> QED  BY <1>2, <1>3, <1>7, <2>1 DEF ev
<1>8. CASE ev.kind = "send_email" /\ ev.deltas = Add("email", ev.args)
  <2>1. new = Built(date, surfaced, m, Append(e, Dict(ev.args)), c)
    <3> DEFINE d == Adding("email", Dict(ev.args))
    <3>1. ApplyDelta(w, d) = Built(date, surfaced, m, Append(e, Dict(ev.args)), c)
      BY <1>1, Appended
    <3>2. ev.deltas = <<d>>
      BY <1>8 DEF Add, Adding
    <3> HIDE DEF d
    <3> QED  BY <1>5, <3>1, <3>2
  <2> HIDE DEF new
  <2> QED  BY <1>2, <1>3, <1>8, <2>1 DEF ev
<1>9. CASE /\ ev.kind = "reschedule"
           /\ ev.deltas = <<[op |-> "set", path |-> <<"projects", "proj", "checkout", "launch_date">>,
                             value |-> ev.args.date]>>
  <2>1. new = Built(ev.args.date, surfaced, m, e, c)
    <3> DEFINE d == Setting(DatePath, ev.args.date)
    <3>1. ApplyDelta(w, d) = Built(ev.args.date, surfaced, m, e, c)
      BY <1>1, Assigned
    <3>2. ev.deltas = <<d>>
      BY <1>9 DEF Setting, DatePath
    <3> HIDE DEF d
    <3> QED  BY <1>5, <3>1, <3>2
  <2> HIDE DEF new
  <2> QED  BY <1>2, <1>3, <1>9, <2>1 DEF ev
<1>10. CASE ev.kind = "npc_reply" /\ ev.deltas = Reveal(ev).deltas
  <2> DEFINE d1 == Setting(FlagPath, Atom("true"))
             d2 == Adding("messages", Dict(Reply))
  <2>1. ev.deltas = <<d1, d2>>
    BY <1>10 DEF Reveal, Setting, Adding, FlagPath
  <2>2. ApplyDelta(w, d1) = Built(date, Atom("true"), m, e, c)
    BY <1>1, Assigned
  <2>3. ApplyDelta(Built(date, Atom("true"), m, e, c), d2)
          = Built(date, Atom("true"), Append(m, Dict(Reply)), e, c)
    BY Appended
  <2> HIDE DEF d1, d2
  <2>4. new = ApplyDelta(ApplyDelta(w, d1), d2)
    BY <2>1, Applying
  <2>5. new = Built(date, Atom("true"), Append(m, Dict(Reply)), e, c)
    BY <2>2, <2>3, <2>4
  <2> HIDE DEF new
  <2> QED  BY <1>2, <1>3, <1>10, <2>5 DEF ev, new
<1>11. CASE ev.kind \in ScoreKinds /\ ev.deltas = <<>>
  <2>1. new = Built(date, surfaced, m, e, c)
    BY <1>1, <1>11, Applying
  <2>2. /\ ev.kind # "reschedule" /\ ev.kind # "npc_reply"
        /\ ev.kind # "send_message" /\ ev.kind # "record_decision"
    BY <1>11 DEF ScoreKinds
  <2> HIDE DEF new
  <2> QED  BY <1>2, <1>3, <2>1, <2>2 DEF ev, new
<1> QED  BY <1>4, <1>6, <1>7, <1>8, <1>9, <1>10, <1>11, Zenon DEF Written

(* The world the evaluator grades is the replay of the events by then.     *)
LEMMA ProjectIs ==
  ASSUME LogInv, NEW at
  PROVE  Replayed(Past(at), Project(events, at))
<1> DEFINE past == Past(at)
           world == CHOOSE world : Replays(SUBSET past, world)
           Bad == {S \in SUBSET past : ~Replayed(S, world[S])}
<1>1. past \in SUBSET (DOMAIN events)
  BY DEF Past
<1> HIDE DEF past
<1>2. Replays(SUBSET past, world)
  BY <1>1, ReplayExists, Zenon
<1> HIDE DEF world
<1>3. ASSUME NEW S \in SUBSET past, S # {}
      PROVE  world[S] = ApplyAll(world[S \ {LastIn(events, S)}], events[LastIn(events, S)].deltas)
  BY <1>2, <1>3 DEF Replays
<1>4. world[{}] = Opening
  BY <1>2 DEF Replays
<1>5. Bad = {}
  <2> SUFFICES ASSUME Bad # {} PROVE FALSE
    OBVIOUS
  <2>1. PICK S \in Bad : \A W \in Bad : ~(<<W, S>> \in StrictSubsetOrdering(past))
    <3>1. IsFiniteSet(past)
      BY <1>1, LogIsFinite
    <3>2. Bad \subseteq FiniteSubsetsOf(past)
      BY <3>1, FS_FiniteSubsetsOfFinite
    <3>3. IsWellFoundedOn(StrictSubsetOrdering(past), FiniteSubsetsOf(past))
      BY FS_StrictSubsetOrderingWellFounded
    <3> HIDE DEF Bad
    <3> QED  BY <3>2, <3>3, WFMin, Zenon
  <2>2. S # {}
    BY <1>4, ReplayedNone
  <2> DEFINE last == LastIn(events, S)
  <2>3. S \in SUBSET past /\ S \in SUBSET (DOMAIN events)
    BY <1>1
  <2>4. last \in S /\ \A j \in S \ {last} : InTimeOrder(events[j], events[last])
    BY <2>2, <2>3, LastIs
  <2>5. <<S \ {last}, S>> \in StrictSubsetOrdering(past)
    BY <2>3, <2>4 DEF StrictSubsetOrdering
  <2>6. Replayed(S \ {last}, world[S \ {last}])
    BY <2>1, <2>3, <2>5
  <2>7. Replayed(S, world[S])
    BY <1>3, <2>2, <2>3, <2>4, <2>6, ReplayStep
  <2> QED  BY <2>7
<1>6. Replayed(past, world[past])
  BY <1>5
<1>7. Project(events, at) = world[past]
  BY ProjectDef DEF world, past
<1> QED  BY <1>6, <1>7 DEF past

-----------------------------------------------------------------------------
(* What the predicates read in a replayed world.                           *)

Kept(items, conds) == Restrict(items, {i \in DOMAIN items : Matches(items[i], conds)})

ActionsOf(items) == [i \in DOMAIN items |-> Field(items[i], "action")]

LEMMA WorldReads ==
  ASSUME NEW date, NEW surfaced, NEW m, NEW e, NEW c, NEW w,
         w = Built(date, surfaced, m, e, c)
  PROVE  /\ Read(w, Surfaced) = surfaced
         /\ Read(w, LaunchDate) = date
         /\ Read(w, <<Name("org")>>) = Org
         /\ Read(w, <<Name("decisions")>>) = List(c)
         /\ Read(w, <<Name("decisions"), Filter(GoNoGo)>>) = List(Kept(c, GoNoGo))
         /\ Read(w, <<Name("decisions"), Filter(GoNoGo), Name("action")>>)
              = List(ActionsOf(Kept(c, GoNoGo)))
         /\ Read(w, <<Name("messages"), Filter(CtoTold)>>) = List(Kept(m, CtoTold))
<1>1. ASSUME NEW n  PROVE Name(n).arg = n /\ Name(n).kind = "name"
  BY DEF Name
<1>2. ASSUME NEW f, NEW n  PROVE ReadToken(Dict(f), Name(n)) = Get(Dict(f), n, Missing)
  BY DEF ReadToken, Name, Dict, IsDict, IsList
<1>3. ASSUME NEW s, NEW n
      PROVE  ReadToken(List(s), Name(n)) = List([i \in DOMAIN s |-> Field(s[i], n)])
  <2>1. IsList(List(s)) /\ ~IsDict(List(s)) /\ List(s).items = s
    BY DEF List, IsList, IsDict
  <2> DEFINE l == List(s)
  <2> HIDE DEF l
  <2>2. ReadToken(l, Name(n)) = List([i \in DOMAIN l.items |-> Field(l.items[i], n)])
    BY <1>1, <2>1 DEF ReadToken, l
  <2> QED  BY <2>1, <2>2 DEF l
<1>4. ASSUME NEW s, NEW conds  PROVE ReadToken(List(s), Filter(conds)) = List(Kept(s, conds))
  BY DEF ReadToken, Filter, List, IsList, Kept
<1>5. /\ Get(w, "org", None) = Org
      /\ Get(w, "decisions", None) = List(c)
      /\ Get(w, "messages", None) = List(m)
      /\ Get(w, "projects", None) = Dict([proj |-> Dict([checkout |-> Dict([launch_date |-> date])])])
      /\ Get(w, "blockers", None) = Dict([blocker |-> Dict([psp_cert |-> Dict([surfaced |-> surfaced])])])
  BY DEF Built, Dict, Get
<1>6. ASSUME NEW x  PROVE /\ Get(Dict([proj |-> x]), "proj", Missing) = x
                          /\ Get(Dict([checkout |-> x]), "checkout", Missing) = x
                          /\ Get(Dict([launch_date |-> x]), "launch_date", Missing) = x
                          /\ Get(Dict([blocker |-> x]), "blocker", Missing) = x
                          /\ Get(Dict([psp_cert |-> x]), "psp_cert", Missing) = x
                          /\ Get(Dict([surfaced |-> x]), "surfaced", Missing) = x
  BY DEF Get, Dict
<1>7. Read(w, Surfaced) = surfaced
  <2>1. Read(w, Surfaced)
          = ReadToken(ReadToken(ReadToken(Get(w, Name("blockers").arg, None), Name("blocker")),
                                Name("psp_cert")), Name("surfaced"))
    BY ReadFour DEF Surfaced
  <2>2. Get(w, Name("blockers").arg, None) = Dict([blocker |-> Dict([psp_cert |-> Dict([surfaced |-> surfaced])])])
    BY <1>1, <1>5
  <2>3. ReadToken(Dict([blocker |-> Dict([psp_cert |-> Dict([surfaced |-> surfaced])])]), Name("blocker"))
          = Dict([psp_cert |-> Dict([surfaced |-> surfaced])])
    BY <1>2, <1>6
  <2>4. ReadToken(Dict([psp_cert |-> Dict([surfaced |-> surfaced])]), Name("psp_cert")) = Dict([surfaced |-> surfaced])
    BY <1>2, <1>6
  <2>5. ReadToken(Dict([surfaced |-> surfaced]), Name("surfaced")) = surfaced
    BY <1>2, <1>6
  <2> QED  BY <2>1, <2>2, <2>3, <2>4, <2>5
<1>8. Read(w, LaunchDate) = date
  <2>1. Read(w, LaunchDate)
          = ReadToken(ReadToken(ReadToken(Get(w, Name("projects").arg, None), Name("proj")),
                                Name("checkout")), Name("launch_date"))
    BY ReadFour DEF LaunchDate
  <2>2. Get(w, Name("projects").arg, None) = Dict([proj |-> Dict([checkout |-> Dict([launch_date |-> date])])])
    BY <1>1, <1>5
  <2>3. ReadToken(Dict([proj |-> Dict([checkout |-> Dict([launch_date |-> date])])]), Name("proj"))
          = Dict([checkout |-> Dict([launch_date |-> date])])
    BY <1>2, <1>6
  <2>4. ReadToken(Dict([checkout |-> Dict([launch_date |-> date])]), Name("checkout")) = Dict([launch_date |-> date])
    BY <1>2, <1>6
  <2>5. ReadToken(Dict([launch_date |-> date]), Name("launch_date")) = date
    BY <1>2, <1>6
  <2> QED  BY <2>1, <2>2, <2>3, <2>4, <2>5
<1>9. Read(w, <<Name("org")>>) = Org /\ Read(w, <<Name("decisions")>>) = List(c)
  BY <1>1, <1>5, ReadOne
<1>10. /\ Read(w, <<Name("decisions"), Filter(GoNoGo)>>) = List(Kept(c, GoNoGo))
       /\ Read(w, <<Name("messages"), Filter(CtoTold)>>) = List(Kept(m, CtoTold))
  <2>1. /\ Read(w, <<Name("decisions"), Filter(GoNoGo)>>)
             = ReadToken(Get(w, Name("decisions").arg, None), Filter(GoNoGo))
        /\ Read(w, <<Name("messages"), Filter(CtoTold)>>)
             = ReadToken(Get(w, Name("messages").arg, None), Filter(CtoTold))
    BY ReadTwo
  <2> QED  BY <1>1, <1>4, <1>5, <2>1
<1>11. Read(w, <<Name("decisions"), Filter(GoNoGo), Name("action")>>)
         = List(ActionsOf(Kept(c, GoNoGo)))
  <2>1. Read(w, <<Name("decisions"), Filter(GoNoGo), Name("action")>>)
          = ReadToken(ReadToken(Get(w, Name("decisions").arg, None), Filter(GoNoGo)), Name("action"))
    BY ReadThree
  <2> QED  BY <1>1, <1>3, <1>4, <1>5, <2>1 DEF ActionsOf
<1> QED  BY <1>7, <1>8, <1>9, <1>10, <1>11

LEMMA KeptIs ==
  ASSUME NEW items, NEW conds
  PROVE  /\ DOMAIN Kept(items, conds) = {i \in DOMAIN items : Matches(items[i], conds)}
         /\ \A i \in DOMAIN Kept(items, conds) : Kept(items, conds)[i] = items[i]
BY DEF Kept, Restrict

(* The atoms and the absent are neither lists nor each other.              *)
LEMMA Scalars ==
  ASSUME NEW v, Scalar(v)
  PROVE  ~IsList(v)
BY DEF Scalar, IsList, None, Atom

LEMMA DecisionFacts ==
  ASSUME NEW d \in Decisions
  PROVE  /\ DOMAIN d = {"about", "type", "action", "new_date", "owner"}
         /\ \A field \in DOMAIN d : Scalar(d[field])
BY ArgsAssumption

LEMMA MatchesGoNoGo ==
  ASSUME NEW d \in Decisions
  PROVE  /\ Matches(Dict(d), GoNoGo) <=> d.type = Atom("gonogo") /\ d.about = Atom(About)
         /\ Field(Dict(d), "action") = d.action
<1>1. /\ Field(Dict(d), "type") = d.type /\ Field(Dict(d), "about") = d.about
      /\ Field(Dict(d), "action") = d.action
  BY DecisionFacts DEF Field, Dict, IsDict
<1>2. ~IsList(d.type) /\ ~IsList(d.about)
  BY DecisionFacts, Scalars
<1> DEFINE p == [key |-> "type", want |-> Atom("gonogo")]
           q == [key |-> "about", want |-> Atom(About)]
<1>3. Matches(Dict(d), GoNoGo)
        <=> \A x \in {p, q} : LET held == Field(Dict(d), x.key)
                              IN  held = x.want \/ (IsList(held) /\ x.want \in Range(held.items))
  BY DEF Matches, GoNoGo
<1>4. p.key = "type" /\ p.want = Atom("gonogo") /\ q.key = "about" /\ q.want = Atom(About)
  OBVIOUS
<1> HIDE DEF p, q
<1> QED  BY <1>1, <1>2, <1>3, <1>4

LEMMA MatchesTold ==
  ASSUME NEW t \in Tellings \cup {Question, Reply}
  PROVE  Matches(Dict(t), CtoTold)
           <=> /\ t.to = Atom("cto")
               /\ IsList(t.refs) /\ Atom("psp_cert") \in Range(t.refs.items)
<1>1. /\ DOMAIN t = {"to", "refs"}
      /\ ~IsList(t.to)
      /\ t.refs = None \/ IsList(t.refs)
  <2>1. CASE t \in Tellings
    BY <2>1, ArgsAssumption, Scalars
  <2>2. CASE t \in {Question, Reply}
    BY <2>2 DEF Question, Reply, IsList, List, Atom, None
  <2> QED  BY <2>1, <2>2
<1>2. Field(Dict(t), "to") = t.to /\ Field(Dict(t), "references") = t.refs
  BY <1>1 DEF Field, Dict, IsDict, Alias, Get
<1>3. t.refs # Atom("psp_cert")
  BY <1>1 DEF IsList, None, Atom
<1> DEFINE p == [key |-> "to", want |-> Atom("cto")]
           q == [key |-> "references", want |-> Atom("psp_cert")]
<1>4. Matches(Dict(t), CtoTold)
        <=> \A x \in {p, q} : LET held == Field(Dict(t), x.key)
                              IN  held = x.want \/ (IsList(held) /\ x.want \in Range(held.items))
  BY DEF Matches, CtoTold
<1>5. p.key = "to" /\ p.want = Atom("cto") /\ q.key = "references" /\ q.want = Atom("psp_cert")
  OBVIOUS
<1> HIDE DEF p, q
<1> QED  BY <1>1, <1>2, <1>3, <1>4, <1>5

-----------------------------------------------------------------------------
(* The fields and the history of moves say the same.                       *)

LEMMA DoneIs ==
  ASSUME LogInv, NEW kind
  PROVE  /\ \A e : e \in Done(kind) <=> \E i \in OfKind(Past(Horizon), kind) : e = events[i]
         /\ \A i \in OfKind(Past(Horizon), kind) : events[i] \in Done(kind)
         /\ Done(kind) = {} <=> OfKind(Past(Horizon), kind) = {}
<1>1. \A i \in DOMAIN events : events[i].seq > 0
  BY DEF LogInv
<1>2. \A e : e \in Done(kind) <=> \E i \in OfKind(Past(Horizon), kind) : e = events[i]
  BY <1>1 DEF Done, Range, OfKind, Past
<1> QED  BY <1>2

(* Of moves the last in the order of replay is the one numbered highest.   *)
LEMMA LastMove ==
  ASSUME LogInv, NEW K \in SUBSET (DOMAIN events), K # {},
         \A i \in K : events[i].kind \in Moves
  PROVE  \E i \in K : /\ \A j \in K \ {i} : InTimeOrder(events[j], events[i])
                      /\ \A j \in K : events[j].seq <= events[i].seq
                      /\ \A k \in K : (\A j \in K : events[j].seq <= events[k].seq) => k = i
<1>1. PICK i \in K : \A j \in K \ {i} : InTimeOrder(events[j], events[i])
  BY Latest
<1>2. \A j \in K : events[j].seq \in Nat /\ events[j].sim_time \in Nat
  BY DEF LogInv
<1>3. ASSUME NEW j \in K  PROVE events[j].seq <= events[i].seq
  <2>1. CASE j = i
    BY <1>2, <2>1
  <2>2. CASE j # i
    <3>1. InTimeOrder(events[j], events[i])
      BY <1>1, <2>2
    <3>2. events[j].sim_time < events[i].sim_time => events[j].seq < events[i].seq
      BY DEF LogInv
    <3> QED  BY <1>2, <3>1, <3>2 DEF InTimeOrder
  <2> QED  BY <2>1, <2>2
<1>4. ASSUME NEW k \in K, \A j \in K : events[j].seq <= events[k].seq
      PROVE  k = i
  <2>1. events[k].seq = events[i].seq
    BY <1>2, <1>3, <1>4
  <2> QED  BY <2>1 DEF LogInv
<1> QED  BY <1>1, <1>3, <1>4

LEMMA DateIs ==
  ASSUME LogInv, BoundsInv, NEW at \in Nat, at <= Horizon, NEW date, DateIn(Past(at), date)
  PROVE  DateBy(at) = date
<1> DEFINE K == OfKind(Past(at), "reschedule")
           moves == {e \in Done("reschedule") : e.sim_time <= at}
<1>1. K \in SUBSET (DOMAIN events) /\ \A i \in K : events[i].kind \in Moves
  BY DEF OfKind, Past, Moves
<1>2. \A e : e \in moves <=> \E i \in K : e = events[i]
  <2>1. \A i \in DOMAIN events : events[i].sim_time \in Nat
    BY DEF LogInv
  <2>2. Horizon \in Nat
    BY BoundsAssumption
  <2>3. \A i : i \in K <=> i \in OfKind(Past(Horizon), "reschedule") /\ events[i].sim_time <= at
    BY <2>1, <2>2 DEF OfKind, Past
  <2> QED  BY <2>3, DoneIs
<1>3. CASE K = {}
  <2>1. moves = {}
    BY <1>2, <1>3
  <2> QED  BY <1>3, <2>1 DEF DateBy, DateIn
<1>4. CASE K # {}
  <2>1. PICK i \in K : /\ \A j \in K \ {i} : InTimeOrder(events[j], events[i])
                       /\ \A j \in K : events[j].seq <= events[i].seq
                       /\ \A k \in K : (\A j \in K : events[j].seq <= events[k].seq) => k = i
    <3> HIDE DEF K
    <3> QED  BY <1>1, <1>4, LastMove
  <2>2. date = events[i].args.date
    BY <2>1 DEF DateIn
  <2> HIDE DEF K, moves
  <2>3. moves # {} /\ events[i] \in moves /\ \A f \in moves : f.seq <= events[i].seq
    BY <1>2, <2>1
  <2>4. ASSUME NEW e \in moves, \A f \in moves : f.seq <= e.seq  PROVE e = events[i]
    BY <1>2, <2>1, <2>4
  <2>5. (CHOOSE e \in moves : \A f \in moves : f.seq <= e.seq) = events[i]
    BY <2>3, <2>4, Zenon
  <2>6. DateBy(at) = (CHOOSE e \in moves : \A f \in moves : f.seq <= e.seq).args.date
    BY <2>3 DEF DateBy, moves
  <2> QED  BY <2>2, <2>5, <2>6
<1> QED  BY <1>3, <1>4

(* What the last decision about the project is.                            *)
LEMMA FinalIs ==
  ASSUME LogInv, OnIt(Past(Horizon)) # {}
  PROVE  \E i \in OnIt(Past(Horizon)) :
           /\ \A j \in OnIt(Past(Horizon)) \ {i} : InTimeOrder(events[j], events[i])
           /\ Final = events[i]
<1> DEFINE K == OnIt(Past(Horizon))
           Is1(e) == /\ e.args.about = Atom(About)
                     /\ \A f \in Done("record_decision") : f.args.about = Atom(About) => f.seq <= e.seq
<1>1. K \in SUBSET (DOMAIN events) /\ \A i \in K : events[i].kind \in Moves
  BY DEF OnIt, OfKind, Past, Moves
<1>2. PICK i \in K : /\ \A j \in K \ {i} : InTimeOrder(events[j], events[i])
                     /\ \A j \in K : events[j].seq <= events[i].seq
                     /\ \A k \in K : (\A j \in K : events[j].seq <= events[k].seq) => k = i
  <2> HIDE DEF K
  <2> QED  BY <1>1, LastMove DEF K
<1>3. \A e : e \in Done("record_decision") /\ e.args.about = Atom(About)
               <=> \E k \in K : e = events[k]
  BY DoneIs DEF OnIt
<1> HIDE DEF K
<1>4. events[i] \in Done("record_decision") /\ Is1(events[i])
  BY <1>2, <1>3
<1>5. ASSUME NEW e \in Done("record_decision"), Is1(e)  PROVE e = events[i]
  <2>1. PICK k \in K : e = events[k]
    BY <1>3, <1>5
  <2>2. \A j \in K : events[j].seq <= events[k].seq
    BY <1>3, <1>5, <2>1
  <2> QED  BY <1>2, <2>1, <2>2
<1>6. Final = CHOOSE e \in Done("record_decision") : Is1(e)
  BY DEF Final
<1> HIDE DEF Is1
<1>7. Final = events[i]
  BY <1>4, <1>5, <1>6, Zenon
<1> QED  BY <1>2, <1>7 DEF K

-----------------------------------------------------------------------------
(* The credits.                                                            *)

LEMMA Leaves ==
  ASSUME NEW w, NEW b, NEW spec
  PROVE  /\ spec.kind = "eq" =>
              EvalAssert(spec, w, b) = IF Read(w, spec.path) = spec.want THEN 10 ELSE 0
         /\ spec.kind = "set" => EvalAssert(spec, w, b) = SetMembership(spec, w)
         /\ spec.kind = "existence" =>
              /\ EvalAssert(spec, w, b) = Existence(spec, w)
              /\ LeafAssert(spec, w, b) = Existence(spec, w)
         /\ spec.kind = "changed" =>
              LeafAssert(spec, w, b) = IF Read(w, spec.path) # Read(b, spec.path) THEN 10 ELSE 0
         /\ spec.kind = "any" =>
              EvalAssert(spec, w, b) = IF \E i \in DOMAIN spec.subs : LeafAssert(spec.subs[i], w, b) = 10
                                       THEN 10 ELSE 0
<1>1. /\ spec.kind = "eq" => LeafAssert(spec, w, b) = FieldEq(spec, w)
      /\ spec.kind = "set" => LeafAssert(spec, w, b) = SetMembership(spec, w)
      /\ spec.kind = "existence" => LeafAssert(spec, w, b) = Existence(spec, w)
      /\ spec.kind = "changed" => LeafAssert(spec, w, b) = Changed(spec, w, b)
  BY DEF LeafAssert
<1> QED  BY <1>1 DEF EvalAssert, FieldEq, Changed

LEMMA ListExists ==
  ASSUME NEW w, NEW spec, NEW s, Read(w, spec.path) = List(s)
  PROVE  Existence(spec, w) = IF DOMAIN s # {} THEN 10 ELSE 0
<1>1. IsList(List(s)) /\ List(s).items = s
  BY DEF IsList, List
<1> QED  BY <1>1 DEF Existence

LEMMA ListMeets ==
  ASSUME NEW w, NEW spec, NEW s, Read(w, spec.path) = List(s)
  PROVE  SetMembership(spec, w) = IF Range(s) \cap spec.allowed # {} THEN 10 ELSE 0
<1>1. IsList(List(s)) /\ List(s).items = s /\ List(s) # Missing
  BY DEF IsList, List, Missing
<1> QED  BY <1>1 DEF SetMembership

(* Where the places of a list stand for the decisions or messages made.    *)
LEMMA GoNoGosAre ==
  ASSUME LogInv, NEW c, DecisionsIn(Past(Horizon), c)
  PROVE  /\ DOMAIN Kept(c, GoNoGo) # {} <=> GoNoGos # {}
         /\ \A x : (\E q \in DOMAIN Kept(c, GoNoGo) : Field(Kept(c, GoNoGo)[q], "action") = x)
                     <=> \E e \in GoNoGos : e.args.action = x
<1> DEFINE K == OfKind(Past(Horizon), "record_decision")
<1>1. \A e : e \in Done("record_decision") <=> \E i \in K : e = events[i]
  BY DoneIs
<1>2. \A i \in K : events[i].args \in Decisions
  BY DEF OfKind, Past, LogInv, Written, ScoreKinds
<1>3. /\ \A q \in DOMAIN c : \E i \in K : c[q] = Dict(events[i].args)
      /\ \A i \in K : \E q \in DOMAIN c : c[q] = Dict(events[i].args)
  BY DEF DecisionsIn
<1> HIDE DEF K
<1>4. \A i \in K : /\ Matches(Dict(events[i].args), GoNoGo) <=> events[i] \in GoNoGos
                   /\ Field(Dict(events[i].args), "action") = events[i].args.action
  BY <1>1, <1>2, MatchesGoNoGo DEF GoNoGos
<1>5. \A e \in GoNoGos : \E i \in K : e = events[i]
  BY <1>1 DEF GoNoGos
<1>6. /\ \A q : q \in DOMAIN Kept(c, GoNoGo) <=> q \in DOMAIN c /\ Matches(c[q], GoNoGo)
      /\ \A q \in DOMAIN Kept(c, GoNoGo) : Kept(c, GoNoGo)[q] = c[q]
  BY KeptIs
<1>7. \A q \in DOMAIN Kept(c, GoNoGo) :
        \E e \in GoNoGos : Field(Kept(c, GoNoGo)[q], "action") = e.args.action
  BY <1>3, <1>4, <1>6
<1>8. \A e \in GoNoGos :
        \E q \in DOMAIN Kept(c, GoNoGo) : Field(Kept(c, GoNoGo)[q], "action") = e.args.action
  <2> SUFFICES ASSUME NEW e \in GoNoGos
               PROVE  \E q \in DOMAIN Kept(c, GoNoGo) :
                        Field(Kept(c, GoNoGo)[q], "action") = e.args.action
    OBVIOUS
  <2>1. PICK i \in K : e = events[i]
    BY <1>5
  <2>2. PICK q \in DOMAIN c : c[q] = Dict(events[i].args)
    BY <1>3
  <2> QED  BY <1>4, <1>6, <2>1, <2>2
<1> QED  BY <1>7, <1>8

LEMMA ToldIs ==
  ASSUME LogInv, NEW m, MessagesIn(Past(Horizon), m)
  PROVE  DOMAIN Kept(m, CtoTold) # {} <=> Told
<1> DEFINE K == OfKind(Past(Horizon), "send_message")
           Tells(t) == /\ t.to = Atom("cto")
                       /\ IsList(t.refs) /\ Atom("psp_cert") \in Range(t.refs.items)
<1>1. \A e : e \in Done("send_message") <=> \E i \in K : e = events[i]
  BY DoneIs
<1>2. \A i \in K : events[i].args \in Tellings \cup {Question, Reply}
  BY DEF OfKind, Past, LogInv, Written, ScoreKinds
<1>3. /\ \A q \in DOMAIN m : m[q] = Dict(Reply) \/ \E i \in K : m[q] = Dict(events[i].args)
      /\ \A i \in K : \E q \in DOMAIN m : m[q] = Dict(events[i].args)
  BY DEF MessagesIn
<1> HIDE DEF K
<1>4. \A i \in K : Matches(Dict(events[i].args), CtoTold) <=> Tells(events[i].args)
  BY <1>2, MatchesTold
<1>5. ~Matches(Dict(Reply), CtoTold)
  <2>1. Reply.to # Atom("cto")
    BY DEF Reply, Atom
  <2> QED  BY <2>1, MatchesTold
<1>6. Told <=> \E e \in Done("send_message") : Tells(e.args)
  BY DEF Told
<1> HIDE DEF Tells
<1>7. \A q : q \in DOMAIN Kept(m, CtoTold) <=> q \in DOMAIN m /\ Matches(m[q], CtoTold)
  BY KeptIs
<1> QED  BY <1>1, <1>3, <1>4, <1>5, <1>6, <1>7

(* decision_comms grades the last decision about the project.              *)
LEMMA GradedIs ==
  ASSUME LogInv, NEW w, NEW c, Read(w, <<Name("decisions")>>) = List(c),
         DecisionsIn(Past(Horizon), c)
  PROVE  /\ OnIt(Past(Horizon)) = {} => GradedDecision(w) = None
         /\ OnIt(Past(Horizon)) # {} => GradedDecision(w) = Dict(Final.args)
<1> DEFINE matches == {q \in DOMAIN c : IsDict(c[q]) /\ Get(c[q], "about", None) = Atom(About)}
           K == OfKind(Past(Horizon), "record_decision")
<1>1. IsList(List(c)) /\ List(c).items = c
  BY DEF IsList, List
<1>2. GradedDecision(w) = IF matches = {} THEN None ELSE c[Max(matches)]
  BY <1>1 DEF GradedDecision
<1>3. /\ \A q \in DOMAIN c : \E i \in K : c[q] = Dict(events[i].args)
      /\ \A i \in K : \E q \in DOMAIN c : c[q] = Dict(events[i].args)
  BY DEF DecisionsIn
<1>4. \A i \in K : events[i].args \in Decisions
  BY DEF OfKind, Past, LogInv, Written, ScoreKinds
<1>5. ASSUME NEW d \in Decisions
      PROVE  IsDict(Dict(d)) /\ Dict(d).keys = d /\ Get(Dict(d), "about", None) = d.about
  BY DecisionFacts DEF IsDict, Dict, Get
<1>6. \A q \in DOMAIN c : q \in matches <=> c[q].keys.about = Atom(About)
  <2> HIDE DEF K
  <2> QED  BY <1>3, <1>4, <1>5
<1>7. CASE OnIt(Past(Horizon)) = {}
  <2>1. matches = {}
    <3>1. \A i \in K : events[i].args.about # Atom(About)
      BY <1>7 DEF OnIt
    <3> HIDE DEF K
    <3> QED  BY <1>3, <1>4, <1>5, <1>6, <3>1
  <2> QED  BY <1>2, <1>7, <2>1
<1>8. CASE OnIt(Past(Horizon)) # {}
  <2>1. PICK i \in OnIt(Past(Horizon)) :
          /\ \A j \in OnIt(Past(Horizon)) \ {i} : InTimeOrder(events[j], events[i])
          /\ Final = events[i]
    BY <1>8, FinalIs
  <2>2. PICK q \in DOMAIN c : /\ c[q] = Dict(events[i].args)
                              /\ \A r \in DOMAIN c : r > q => c[r].keys.about # Atom(About)
    BY <2>1 DEF DecisionsIn
  <2>3. i \in K /\ events[i].args.about = Atom(About)
    BY DEF OnIt
  <2> HIDE DEF K
  <2>4. q \in matches
    BY <1>4, <1>5, <1>6, <2>2, <2>3
  <2>5. \A r \in matches : r \in Nat /\ r \in DOMAIN c /\ ~(r > q) /\ q \in Nat
    <3>1. DOMAIN c = 1 .. Len(c) /\ Len(c) \in Nat
      BY LenProperties DEF DecisionsIn
    <3> QED  BY <1>6, <2>2, <3>1
  <2> HIDE DEF matches
  <2>6. Max(matches) = q
    <3>1. \A r \in matches : q >= r
      BY <2>5
    <3>2. \A x \in matches : (\A r \in matches : x >= r) => x = q
      BY <2>4, <2>5, <3>1
    <3> QED  BY <2>4, <3>1, <3>2 DEF Max
  <2> QED  BY <1>2, <1>8, <2>1, <2>2, <2>4, <2>6
<1> QED  BY <1>7, <1>8

LEMMA CommsIs ==
  ASSUME LogInv, BoundsInv, NEW date, NEW surfaced, NEW m, NEW e, NEW c, NEW b, NEW w,
         w = Built(date, surfaced, m, e, c),
         DateIn(Past(Horizon), date), SurfacedIn(Past(Horizon), surfaced),
         DecisionsIn(Past(Horizon), c),
         Read(b, LaunchDate) = DateBy(0)
  PROVE  DecisionComms(w, b) = IF OnIt(Past(Horizon)) = {} THEN 0
                               ELSE Is(Discovered, 5) + Is(Moved /\ Final.args.new_date # None, 3)
                                    + Is(Final.args.owner \in {Atom("cto"), Atom("holder")}, 2)
<1>1. /\ Read(w, Surfaced) = surfaced /\ Read(w, LaunchDate) = date
      /\ Read(w, <<Name("org")>>) = Org /\ Read(w, <<Name("decisions")>>) = List(c)
  BY WorldReads
<1>2. (surfaced = Atom("true")) <=> Discovered
  <2>1. Atom("true") # Atom("false")
    BY DEF Atom
  <2> QED  BY <2>1, DoneIs DEF SurfacedIn, Discovered
<1>3. date = DateBy(Horizon)
  BY BoundsAssumption, DateIs
<1>4. Changed([path |-> LaunchDate], w, b) = 10 <=> Moved
  BY <1>1, <1>3 DEF Changed, Moved
<1>5. CASE OnIt(Past(Horizon)) = {}
  <2>1. GradedDecision(w) = None
    BY <1>1, <1>5, GradedIs
  <2> QED  BY <1>5, <2>1 DEF DecisionComms
<1>6. CASE OnIt(Past(Horizon)) # {}
  <2>1. GradedDecision(w) = Dict(Final.args)
    BY <1>1, <1>6, GradedIs
  <2>2. Final.args \in Decisions
    <3>1. PICK i \in OnIt(Past(Horizon)) : Final = events[i]
      BY <1>6, FinalIs
    <3> QED  BY <3>1 DEF OnIt, OfKind, Past, LogInv, Written, ScoreKinds
  <2> DEFINE d == Final.args
  <2>3. /\ Dict(d) # None /\ Get(Dict(d), "owner", None) = d.owner
        /\ Get(Dict(d), "new_date", None) = d.new_date /\ Scalar(d.owner)
    BY <2>2, DecisionFacts DEF Get, Dict, None
  <2>4. IsDict(Org) /\ DOMAIN Org.keys = {"cto", "holder"}
    BY DEF Org, Dict, IsDict
  <2>5. (d.owner # None /\ d.owner.atom \in DOMAIN Org.keys)
          <=> d.owner \in {Atom("cto"), Atom("holder")}
    BY <2>3, <2>4 DEF Scalar, Atom, None
  <2> HIDE DEF d
  <2>6. DecisionComms(w, b) = Is(surfaced = Atom("true"), 5)
                              + Is(d.new_date # None /\ Changed([path |-> LaunchDate], w, b) = 10, 3)
                              + Is(d.owner # None /\ IsDict(Org) /\ d.owner.atom \in DOMAIN Org.keys, 2)
    BY <1>1, <2>1, <2>3 DEF DecisionComms, d
  <2> QED  BY <1>2, <1>4, <1>6, <2>4, <2>5, <2>6 DEF Is, d
<1> QED  BY <1>5, <1>6

(* The score of the log is what the history of moves earns.                *)
LEMMA Grading ==
  ASSUME LogInv, BoundsInv
  PROVE  ScoreOf(events) = Earned /\ Earned \in 0 .. 1000
<1> DEFINE w == Project(events, Horizon)
           b == Project(events, 0)
           credits == [i \in DOMAIN Checkpoint |-> EvalAssert(Checkpoint[i].spec, w, b)]
<1>1. PICK date, surfaced, m, e, c :
        /\ w = Built(date, surfaced, m, e, c)
        /\ DateIn(Past(Horizon), date) /\ SurfacedIn(Past(Horizon), surfaced)
        /\ MessagesIn(Past(Horizon), m) /\ DecisionsIn(Past(Horizon), c)
  BY ProjectIs DEF Replayed
<1>2. Read(b, LaunchDate) = DateBy(0)
  <2>1. PICK date0, surfaced0, m0, e0, c0 :
          b = Built(date0, surfaced0, m0, e0, c0) /\ DateIn(Past(0), date0)
    BY ProjectIs DEF Replayed
  <2> HIDE DEF b
  <2>2. Read(b, LaunchDate) = date0
    BY <2>1, WorldReads
  <2>3. DateBy(0) = date0
    BY <2>1, BoundsAssumption, DateIs
  <2> QED  BY <2>2, <2>3
<1> HIDE DEF w, b
<1>3. /\ Read(w, Surfaced) = surfaced /\ Read(w, LaunchDate) = date
      /\ Read(w, <<Name("decisions"), Filter(GoNoGo)>>) = List(Kept(c, GoNoGo))
      /\ Read(w, <<Name("decisions"), Filter(GoNoGo), Name("action")>>)
           = List(ActionsOf(Kept(c, GoNoGo)))
      /\ Read(w, <<Name("messages"), Filter(CtoTold)>>) = List(Kept(m, CtoTold))
  BY <1>1, WorldReads
<1>4. EvalAssert(Checkpoint[1].spec, w, b) = IF Discovered THEN 10 ELSE 0
  <2>1. (surfaced = Atom("true")) <=> Discovered
    <3>1. Atom("true") # Atom("false")
      BY DEF Atom
    <3> QED  BY <1>1, <3>1, DoneIs DEF SurfacedIn, Discovered
  <2> DEFINE spec == [kind |-> "eq", path |-> Surfaced, want |-> Atom("true")]
  <2>2. spec.kind = "eq" /\ spec.path = Surfaced /\ spec.want = Atom("true")
    OBVIOUS
  <2>3. Checkpoint[1].spec = spec
    BY CheckpointIs
  <2> HIDE DEF spec
  <2> QED  BY <1>3, <2>1, <2>2, <2>3, Leaves
<1>5. EvalAssert(Checkpoint[2].spec, w, b) = IF Moved \/ GoNoGos # {} THEN 10 ELSE 0
  <2> DEFINE s1 == [kind |-> "changed", path |-> LaunchDate]
             s2 == [kind |-> "existence", path |-> <<Name("decisions"), Filter(GoNoGo)>>]
             subs == <<s1, s2>>
             spec == [kind |-> "any", subs |-> subs]
  <2>1. Checkpoint[2].spec = spec
    BY CheckpointIs
  <2>2. spec.kind = "any" /\ spec.subs = subs
    OBVIOUS
  <2>3. DOMAIN subs = {1, 2} /\ subs[1] = s1 /\ subs[2] = s2
    OBVIOUS
  <2>4. /\ s1.kind = "changed" /\ s1.path = LaunchDate
        /\ s2.kind = "existence" /\ s2.path = <<Name("decisions"), Filter(GoNoGo)>>
    OBVIOUS
  <2> HIDE DEF spec, subs, s1, s2
  <2>5. LeafAssert(s1, w, b) = IF Moved THEN 10 ELSE 0
    <3>1. date = DateBy(Horizon)
      BY <1>1, BoundsAssumption, DateIs
    <3> QED  BY <1>2, <1>3, <2>4, <3>1, Leaves DEF Moved
  <2>6. LeafAssert(s2, w, b) = IF GoNoGos # {} THEN 10 ELSE 0
    <3>1. Existence(s2, w) = IF DOMAIN Kept(c, GoNoGo) # {} THEN 10 ELSE 0
      BY <1>3, <2>4, ListExists
    <3>2. DOMAIN Kept(c, GoNoGo) # {} <=> GoNoGos # {}
      BY <1>1, GoNoGosAre
    <3> QED  BY <2>4, <3>1, <3>2, Leaves
  <2>7. EvalAssert(spec, w, b) = IF \E i \in DOMAIN subs : LeafAssert(subs[i], w, b) = 10
                                 THEN 10 ELSE 0
    BY <2>2, Leaves
  <2> QED  BY <2>1, <2>3, <2>5, <2>6, <2>7
<1>6. EvalAssert(Checkpoint[3].spec, w, b)
        = IF \E g \in GoNoGos : g.args.action \in {Atom("reschedule"), Atom("hold_and_mitigate")}
          THEN 10 ELSE 0
  <2> DEFINE allowed == {Atom("reschedule"), Atom("hold_and_mitigate")}
             path == <<Name("decisions"), Filter(GoNoGo), Name("action")>>
             spec == [kind |-> "set", path |-> path, allowed |-> allowed]
             s == ActionsOf(Kept(c, GoNoGo))
  <2>1. Checkpoint[3].spec = spec
    BY CheckpointIs
  <2>2. spec.kind = "set" /\ spec.path = path /\ spec.allowed = allowed
    OBVIOUS
  <2>3. Read(w, path) = List(s)
    BY <1>3
  <2>4. \A x : x \in Range(s) <=> \E q \in DOMAIN Kept(c, GoNoGo) :
                                    Field(Kept(c, GoNoGo)[q], "action") = x
    BY DEF Range, ActionsOf
  <2>5. \A x : x \in Range(s) <=> \E g \in GoNoGos : g.args.action = x
    <3> HIDE DEF s
    <3> QED  BY <1>1, <2>4, GoNoGosAre
  <2> HIDE DEF spec, s, path, allowed
  <2>6. EvalAssert(spec, w, b) = IF Range(s) \cap allowed # {} THEN 10 ELSE 0
    BY <2>2, <2>3, Leaves, ListMeets
  <2>7. Range(s) \cap allowed # {} <=> \E g \in GoNoGos : g.args.action \in allowed
    BY <2>5
  <2> QED  BY <2>1, <2>6, <2>7 DEF allowed
<1>7. EvalAssert(Checkpoint[4].spec, w, b) = IF Told THEN 10 ELSE 0
  <2> DEFINE path == <<Name("messages"), Filter(CtoTold)>>
             spec == [kind |-> "existence", path |-> path]
  <2>1. Checkpoint[4].spec = spec
    BY CheckpointIs
  <2>2. spec.kind = "existence" /\ spec.path = path /\ Read(w, path) = List(Kept(m, CtoTold))
    BY <1>3
  <2> HIDE DEF spec, path
  <2>3. EvalAssert(spec, w, b) = IF DOMAIN Kept(m, CtoTold) # {} THEN 10 ELSE 0
    BY <2>2, Leaves, ListExists
  <2>4. DOMAIN Kept(m, CtoTold) # {} <=> Told
    BY <1>1, ToldIs
  <2> QED  BY <2>1, <2>3, <2>4
<1>8. DecisionComms(w, b)
        = IF OnIt(Past(Horizon)) = {} THEN 0
          ELSE Is(Discovered, 5) + Is(Moved /\ Final.args.new_date # None, 3)
               + Is(Final.args.owner \in {Atom("cto"), Atom("holder")}, 2)
  BY <1>1, <1>2, CommsIs
<1>9. OnIt(Past(Horizon)) # {}
        <=> \E d \in Done("record_decision") : d.args.about = Atom(About)
  BY DoneIs DEF OnIt
<1>10. ScoreOf(events) = 15 * DecisionComms(w, b) + Weighted(credits)
  BY DEF ScoreOf, Artifact, w, b
<1>11. /\ credits[1] = EvalAssert(Checkpoint[1].spec, w, b)
       /\ credits[2] = EvalAssert(Checkpoint[2].spec, w, b)
       /\ credits[3] = EvalAssert(Checkpoint[3].spec, w, b)
       /\ credits[4] = EvalAssert(Checkpoint[4].spec, w, b)
  BY CheckpointIs
<1>12. \A i \in 1 .. 4 : credits[i] \in {0, 10}
  <2> HIDE DEF credits
  <2>1. \A i \in 1 .. 4 : i = 1 \/ i = 2 \/ i = 3 \/ i = 4
    OBVIOUS
  <2> QED  BY <1>4, <1>5, <1>6, <1>7, <1>11, <2>1
<1> HIDE DEF credits
<1>13. Weighted(credits) = 30 * credits[1] + 30 * credits[2] + 15 * credits[3] + 10 * credits[4]
  <2>1. \A i \in 1 .. 4 : credits[i] \in Nat
    BY <1>12
  <2> QED  BY <2>1, Weighing
<1>14. /\ 30 * credits[1] = Is(Discovered, 300)
       /\ 30 * credits[2] = Is(Moved \/ GoNoGos # {}, 300)
       /\ 15 * credits[3] = Is(\E g \in GoNoGos : g.args.action \in {Atom("reschedule"), Atom("hold_and_mitigate")}, 150)
       /\ 10 * credits[4] = Is(Told, 100)
  BY <1>4, <1>5, <1>6, <1>7, <1>11 DEF Is
<1>15. 15 * DecisionComms(w, b)
         = IF \E d \in Done("record_decision") : d.args.about = Atom(About)
           THEN Is(Discovered, 75) + Is(Moved /\ Final.args.new_date # None, 45)
                + Is(Final.args.owner \in {Atom("cto"), Atom("holder")}, 30)
           ELSE 0
  BY <1>8, <1>9 DEF Is
<1>16. ScoreOf(events) = Earned
  <2> DEFINE comms == 15 * DecisionComms(w, b)
             one == Is(Discovered, 300)
             two == Is(Moved \/ GoNoGos # {}, 300)
             three == Is(\E g \in GoNoGos : g.args.action \in {Atom("reschedule"), Atom("hold_and_mitigate")}, 150)
             four == Is(Told, 100)
  <2>1. Earned = one + two + three + four + comms
    BY <1>15 DEF Earned
  <2>2. one \in Nat /\ two \in Nat /\ three \in Nat /\ four \in Nat
    BY DEF Is
  <2>3. comms \in Nat
    BY <1>8 DEF Is
  <2>4. Weighted(credits) = one + two + three + four
    BY <1>13, <1>14
  <2>5. ScoreOf(events) = comms + Weighted(credits)
    BY <1>10
  <2> HIDE DEF comms, one, two, three, four
  <2> QED  BY <2>1, <2>2, <2>3, <2>4, <2>5
<1>17. Earned \in 0 .. 1000
  <2>1. /\ Is(Discovered, 300) \in 0 .. 300 /\ Is(Moved \/ GoNoGos # {}, 300) \in 0 .. 300
        /\ Is(\E g \in GoNoGos : g.args.action \in {Atom("reschedule"), Atom("hold_and_mitigate")}, 150)
             \in 0 .. 150
        /\ Is(Told, 100) \in 0 .. 100
        /\ Is(Discovered, 75) \in 0 .. 75 /\ Is(Moved /\ Final.args.new_date # None, 45) \in 0 .. 45
        /\ Is(Final.args.owner \in {Atom("cto"), Atom("holder")}, 30) \in 0 .. 30
    BY DEF Is
  <2> DEFINE comms == IF \E d \in Done("record_decision") : d.args.about = Atom(About)
                      THEN Is(Discovered, 75) + Is(Moved /\ Final.args.new_date # None, 45)
                           + Is(Final.args.owner \in {Atom("cto"), Atom("holder")}, 30)
                      ELSE 0
             one == Is(Discovered, 300)
             two == Is(Moved \/ GoNoGos # {}, 300)
             three == Is(\E g \in GoNoGos : g.args.action \in {Atom("reschedule"), Atom("hold_and_mitigate")}, 150)
             four == Is(Told, 100)
  <2>2. comms \in 0 .. 150
    <3> DEFINE x == Is(Discovered, 75)
               y == Is(Moved /\ Final.args.new_date # None, 45)
               z == Is(Final.args.owner \in {Atom("cto"), Atom("holder")}, 30)
    <3>1. comms = x + y + z \/ comms = 0
      OBVIOUS
    <3>2. x \in 0 .. 75 /\ y \in 0 .. 45 /\ z \in 0 .. 30
      BY <2>1
    <3> HIDE DEF comms, x, y, z
    <3> QED  BY <3>1, <3>2
  <2>3. Earned = one + two + three + four + comms
    BY DEF Earned
  <2> HIDE DEF comms, one, two, three, four
  <2>4. one \in 0 .. 300 /\ two \in 0 .. 300 /\ three \in 0 .. 150 /\ four \in 0 .. 100
    BY <2>1 DEF one, two, three, four
  <2> QED  BY <2>2, <2>3, <2>4
<1> QED  BY <1>16, <1>17

-----------------------------------------------------------------------------
(* The replies due, one after the other.                                   *)

Queued(S) ==
  /\ S \subseteq [seq : Nat, sim_time : Nat] /\ IsFiniteSet(S)
  /\ \A p, q \in S : p.seq = q.seq => p = q

Ahead(S, x) == {y \in S : InTimeOrder(y, x)}

LEMMA RankedIs ==
  ASSUME NEW S
  PROVE  Ranked(S, InTimeOrder) = [n \in 1 .. Cardinality(S) |->
                                     CHOOSE x \in S : Cardinality(Ahead(S, x)) = n - 1]
BY Zenon DEF Ranked, Ahead

LEMMA QueueOrder ==
  ASSUME NEW S, Queued(S), NEW x \in S, NEW y \in S
  PROVE  /\ ~InTimeOrder(x, x)
         /\ InTimeOrder(x, y) => ~InTimeOrder(y, x)
         /\ InTimeOrder(x, y) \/ InTimeOrder(y, x) \/ x = y
         /\ \A z \in S : InTimeOrder(x, y) /\ InTimeOrder(y, z) => InTimeOrder(x, z)
<1>1. \A z \in S : z.sim_time \in Nat /\ z.seq \in Nat
  BY DEF Queued
<1>2. x.seq = y.seq => x = y
  BY DEF Queued
<1> QED  BY <1>1, <1>2 DEF InTimeOrder

LEMMA RankRises ==
  ASSUME NEW S, Queued(S), NEW x \in S, NEW y \in S, InTimeOrder(x, y)
  PROVE  Cardinality(Ahead(S, x)) < Cardinality(Ahead(S, y))
<1>1. IsFiniteSet(Ahead(S, y))
  <2>1. Ahead(S, y) \in SUBSET S
    BY DEF Ahead
  <2> QED  BY <2>1, FS_Subset DEF Queued
<1>2. Ahead(S, x) \in SUBSET Ahead(S, y) /\ x \in Ahead(S, y) /\ x \notin Ahead(S, x)
  BY QueueOrder DEF Ahead
<1>3. /\ IsFiniteSet(Ahead(S, x))
      /\ Cardinality(Ahead(S, x)) <= Cardinality(Ahead(S, y))
      /\ Cardinality(Ahead(S, x)) # Cardinality(Ahead(S, y))
  BY <1>1, <1>2, FS_Subset
<1>4. Cardinality(Ahead(S, x)) \in Nat /\ Cardinality(Ahead(S, y)) \in Nat
  BY <1>1, <1>3, FS_CardinalityType
<1> QED  BY <1>3, <1>4

(* Every place is the rank of a member.                                    *)
LEMMA EveryRank ==
  ASSUME NEW S, Queued(S)
  PROVE  /\ Cardinality(S) \in Nat
         /\ \A n \in 1 .. Cardinality(S) : \E x \in S : Cardinality(Ahead(S, x)) = n - 1
<1> DEFINE N == Cardinality(S)
           T == 0 .. N - 1
           r == [x \in S |-> Cardinality(Ahead(S, x))]
<1>1. IsFiniteSet(S) /\ N \in Nat
  BY FS_CardinalityType DEF Queued
<1>2. ASSUME NEW x \in S  PROVE Cardinality(Ahead(S, x)) \in T
  <2>1. Ahead(S, x) \in SUBSET S /\ x \notin Ahead(S, x)
    BY QueueOrder DEF Ahead
  <2>2. /\ IsFiniteSet(Ahead(S, x))
        /\ Cardinality(Ahead(S, x)) <= N
        /\ Cardinality(Ahead(S, x)) # N
    BY <1>1, <2>1, FS_Subset
  <2>3. Cardinality(Ahead(S, x)) \in Nat
    BY <2>2, FS_CardinalityType
  <2> QED  BY <1>1, <2>2, <2>3
<1>3. ASSUME NEW x \in S, NEW y \in S, Cardinality(Ahead(S, x)) = Cardinality(Ahead(S, y))
      PROVE  x = y
  <2>1. Cardinality(Ahead(S, x)) \in Nat /\ Cardinality(Ahead(S, y)) \in Nat
    BY <1>2
  <2>2. ~InTimeOrder(x, y) /\ ~InTimeOrder(y, x)
    BY <1>3, <2>1, RankRises
  <2> QED  BY <2>2, QueueOrder
<1>4. IsFiniteSet(T) /\ Cardinality(T) = N
  BY <1>1, FS_Interval
<1>5. r \in Injection(S, T)
  BY <1>2, <1>3 DEF Injection, IsInjective
<1> HIDE DEF T, r
<1>6. r \in Surjection(S, T)
  BY <1>1, <1>4, <1>5, FS_Injection
<1>7. \A t \in T : \E x \in S : r[x] = t
  BY <1>6 DEF Surjection
<1>8. ASSUME NEW n \in 1 .. N  PROVE \E x \in S : Cardinality(Ahead(S, x)) = n - 1
  <2>1. n - 1 \in T
    BY <1>1 DEF T
  <2>2. PICK x \in S : r[x] = n - 1
    BY <1>7, <2>1
  <2> QED  BY <2>2 DEF r
<1> QED  BY <1>1, <1>8

(* So the list takes members of the queue, none of them twice.             *)
LEMMA DueInTurn ==
  ASSUME NEW S, Queued(S)
  PROVE  LET due == Ranked(S, InTimeOrder)
         IN  /\ DOMAIN due = 1 .. Cardinality(S) /\ Cardinality(S) \in Nat
             /\ \A i \in DOMAIN due : due[i] \in S
             /\ \A i, j \in DOMAIN due : due[i] = due[j] => i = j
<1> DEFINE N == Cardinality(S)
           due == Ranked(S, InTimeOrder)
<1>1. N \in Nat /\ \A n \in 1 .. N : \E x \in S : Cardinality(Ahead(S, x)) = n - 1
  BY EveryRank
<1>2. due = [n \in 1 .. N |-> CHOOSE x \in S : Cardinality(Ahead(S, x)) = n - 1]
  BY RankedIs
<1> HIDE DEF N, due
<1>3. ASSUME NEW n \in 1 .. N  PROVE due[n] \in S /\ Cardinality(Ahead(S, due[n])) = n - 1
  <2>1. due[n] = CHOOSE x \in S : Cardinality(Ahead(S, x)) = n - 1
    BY <1>2
  <2> QED  BY <1>1, <2>1, Zenon
<1>4. DOMAIN due = 1 .. N
  BY <1>2
<1>5. ASSUME NEW i \in 1 .. N, NEW j \in 1 .. N, due[i] = due[j]  PROVE i = j
  <2>1. i - 1 = j - 1
    BY <1>3, <1>5
  <2> QED  BY <1>1, <2>1
<1> QED  BY <1>1, <1>3, <1>4, <1>5 DEF N, due

(* The log numbers its events below the number a score record takes.       *)
LEMMA Highest ==
  ASSUME NEW T \in SUBSET Nat, IsFiniteSet(T), T # {}
  PROVE  \E d \in T : \A e \in T : e <= d
<1> DEFINE Tops(U) == \E d \in U : \A e \in U : e <= d
           Bad == {U \in SUBSET T : U # {} /\ ~Tops(U)}
<1> SUFFICES ASSUME Bad # {} PROVE FALSE
  OBVIOUS
<1>1. PICK U \in Bad : \A W \in Bad : ~(<<W, U>> \in StrictSubsetOrdering(T))
  <2>1. Bad \subseteq FiniteSubsetsOf(T)
    BY FS_FiniteSubsetsOfFinite
  <2>2. IsWellFoundedOn(StrictSubsetOrdering(T), FiniteSubsetsOf(T))
    BY FS_StrictSubsetOrderingWellFounded
  <2> HIDE DEF Bad
  <2> QED  BY <2>1, <2>2, WFMin, Zenon
<1>2. PICK x \in U : TRUE
  OBVIOUS
<1>3. U \ {x} # {} /\ U \ {x} \notin Bad
  <2>1. x \in Nat
    OBVIOUS
  <2>2. CASE U = {x}
    BY <2>1, <2>2
  <2>3. CASE U # {x}
    BY <1>1, <1>2, <2>3 DEF StrictSubsetOrdering
  <2> QED  BY <2>2, <2>3
<1>4. PICK y \in U \ {x} : \A e \in U \ {x} : e <= y
  BY <1>3
<1>5. x \in Nat /\ y \in Nat /\ U \subseteq Nat
  BY <1>2, <1>4
<1>6. x <= y \/ y <= x
  BY <1>5
<1> QED  BY <1>2, <1>4, <1>5, <1>6

LEMMA NextSeqIs ==
  ASSUME LogInv
  PROVE  /\ NextSeq(events) \in Nat \ {0}
         /\ \A i \in DOMAIN events : events[i].seq < NextSeq(events)
<1> DEFINE f == [i \in DOMAIN events |-> events[i].seq]
           Seqs == {e.seq : e \in Range(events)}
           T == {0} \cup Seqs
<1>1. \A i \in DOMAIN events : events[i].seq \in Nat
  BY DEF LogInv
<1>2. Seqs \in SUBSET Nat /\ \A i \in DOMAIN events : events[i].seq \in Seqs
  BY <1>1 DEF Range
<1>3. f \in Surjection(DOMAIN events, Seqs)
  BY DEF Surjection, Range
<1>4. IsFiniteSet(Seqs)
  <2> HIDE DEF f, Seqs
  <2> QED  BY <1>3, LogIsFinite, FS_Surjection
<1> HIDE DEF Seqs
<1>5. IsFiniteSet(T) /\ T \in SUBSET Nat /\ T # {}
  <2>1. T = Seqs \cup {0}
    OBVIOUS
  <2> QED  BY <1>2, <1>4, <2>1, FS_AddElement
<1>6. PICK d \in T : \A e \in T : e <= d
  <2> HIDE DEF T
  <2> QED  BY <1>5, Highest
<1>7. Max(T) = d
  <2>1. \A y \in T : d >= y
    BY <1>5, <1>6
  <2>2. \A x \in T : (\A y \in T : x >= y) => x = d
    BY <1>5, <1>6, <2>1
  <2> HIDE DEF T
  <2> QED  BY <2>1, <2>2 DEF Max
<1>8. NextSeq(events) = 1 + d
  BY <1>7 DEF NextSeq, Seqs
<1> QED  BY <1>1, <1>2, <1>5, <1>6, <1>8

-----------------------------------------------------------------------------
(* Every step keeps the invariant.                                         *)

LEMMA OwnRange ==
  ASSUME NEW S, NEW s \in Seq(S)
  PROVE  s \in Seq(Range(s))
<1>1. /\ Len(s) \in Nat /\ s = [i \in 1 .. Len(s) |-> s[i]]
      /\ \A i \in 1 .. Len(s) : s[i] \in Range(s)
  BY LenProperties DEF Range
<1> QED  BY <1>1, IsASeq

LEMMA LogAppended ==
  ASSUME LogInv, NEW ev
  PROVE  LET grown == Append(events, ev)
         IN  /\ grown \in Seq(Range(grown))
             /\ Len(events) \in Nat /\ DOMAIN events = 1 .. Len(events)
             /\ DOMAIN grown = 1 .. Len(events) + 1
             /\ \A i \in DOMAIN events : i \in DOMAIN grown /\ grown[i] = events[i]
             /\ grown[Len(events) + 1] = ev
<1> DEFINE R == Range(events) \cup {ev}
<1>1. events \in Seq(R)
  <2>1. Len(events) \in Nat /\ events = [i \in 1 .. Len(events) |-> events[i]]
        /\ \A i \in 1 .. Len(events) : events[i] \in R
    BY LenProperties DEF LogInv, Range
  <2> QED  BY <2>1, IsASeq
<1>2. ev \in R
  OBVIOUS
<1> HIDE DEF R
<1> DEFINE grown == Append(events, ev)
<1>3. /\ grown \in Seq(R) /\ Len(grown) = Len(events) + 1
      /\ \A i \in 1 .. Len(events) : grown[i] = events[i]
      /\ grown[Len(events) + 1] = ev
  BY <1>1, <1>2, AppendProperties
<1>4. /\ Len(events) \in Nat /\ DOMAIN events = 1 .. Len(events)
      /\ DOMAIN grown = 1 .. Len(grown)
  BY <1>1, <1>3, LenProperties
<1> HIDE DEF grown
<1>5. grown \in Seq(Range(grown))
  BY <1>3, OwnRange
<1> QED  BY <1>3, <1>4, <1>5 DEF grown

LEMMA MoveStep ==
  ASSUME EvalInv, Playing, NEW ev, ev.seq = nextSeq, ev.sim_time = now, ev.kind \in Moves,
         Written(ev), events' = Append(events, ev), UNCHANGED <<now, results>>,
         NEW P, P \subseteq {[seq |-> nextSeq + 1, sim_time |-> now + 1]},
         pending' = pending \cup P,
         nextSeq' = nextSeq + 1 \/ nextSeq' = nextSeq + 2,
         P # {} => nextSeq' = nextSeq + 2
  PROVE  EvalInv'
<1> DEFINE n == Len(events)
<1>1. /\ events' \in Seq(Range(events'))
      /\ n \in Nat /\ DOMAIN events = 1 .. n /\ DOMAIN events' = 1 .. n + 1
      /\ \A i \in 1 .. n : events'[i] = events[i]
      /\ events'[n + 1] = ev
  BY LogAppended DEF EvalInv
<1>2. /\ now \in Nat /\ nextSeq \in Nat \ {0} /\ nextSeq <= MaxMoves /\ now <= MaxNow
      /\ MaxNow \in Nat /\ MaxMoves \in Nat
      /\ results = <<>>
  BY BoundsAssumption DEF EvalInv, BoundsInv, Playing
<1>3. /\ \A i \in 1 .. n : /\ events[i].seq \in Nat \ {0} /\ events[i].seq < nextSeq
                           /\ events[i].sim_time \in 0 .. MaxNow /\ events[i].sim_time <= now
                           /\ events[i].kind \notin ScoreKinds
                           /\ Written(events[i])
      /\ \A i, j \in 1 .. n : events[i].seq = events[j].seq => i = j
      /\ \A i, j \in 1 .. n : events[i].kind \in Moves /\ events[j].kind \in Moves =>
           (events[i].sim_time < events[j].sim_time => events[i].seq < events[j].seq)
  BY <1>1, <1>2 DEF EvalInv, LogInv, OpenInv
<1>4. ev.kind \notin ScoreKinds
  BY DEF Moves, ScoreKinds
<1>5. /\ pending \subseteq [seq : 1 .. MaxMoves + 1, sim_time : 1 .. MaxNow + 1]
      /\ IsFiniteSet(pending) /\ results \in Seq(0 .. 1000)
  BY DEF EvalInv, BoundsInv
<1>6. /\ \A p \in pending : p.seq < nextSeq /\ \A i \in 1 .. n : events[i].seq # p.seq
      /\ \A p, q \in pending : p.seq = q.seq => p = q
  BY <1>1, <1>2 DEF EvalInv, OpenInv
<1> HIDE DEF n
<1>7. LogInv'
  <2>1. ASSUME NEW i \in 1 .. n + 1
        PROVE  /\ events'[i].seq \in Nat \ {0} /\ events'[i].sim_time \in 0 .. MaxNow
               /\ Written(events'[i])
    <3>1. CASE i \in 1 .. n
      BY <1>1, <1>3, <3>1
    <3>2. CASE i = n + 1
      BY <1>1, <1>2, <3>2
    <3> QED  BY <1>1, <3>1, <3>2
  <2>2. ASSUME NEW i \in 1 .. n + 1, NEW j \in 1 .. n + 1
        PROVE  /\ events'[i].seq = events'[j].seq => i = j
               /\ events'[i].kind \in Moves /\ events'[j].kind \in Moves =>
                    (events'[i].sim_time < events'[j].sim_time => events'[i].seq < events'[j].seq)
    <3>1. CASE i \in 1 .. n /\ j \in 1 .. n
      BY <1>1, <1>3, <3>1
    <3>2. CASE i \in 1 .. n /\ j = n + 1
      BY <1>1, <1>2, <1>3, <3>2
    <3>3. CASE i = n + 1 /\ j \in 1 .. n
      BY <1>1, <1>2, <1>3, <3>3
    <3>4. CASE i = n + 1 /\ j = n + 1
      BY <1>1, <1>2, <3>4
    <3> QED  BY <1>1, <3>1, <3>2, <3>3, <3>4
  <2> QED  BY <1>1, <2>1, <2>2 DEF LogInv
<1>8. OpenInv'
  <2>1. \A i \in 1 .. n + 1 : /\ events'[i].seq <= nextSeq /\ events'[i].sim_time <= now
                              /\ events'[i].kind \notin ScoreKinds
                              /\ events'[i].seq \in Nat
    <3> SUFFICES ASSUME NEW i \in 1 .. n + 1
                 PROVE  /\ events'[i].seq <= nextSeq /\ events'[i].sim_time <= now
                        /\ events'[i].kind \notin ScoreKinds
                        /\ events'[i].seq \in Nat
      OBVIOUS
    <3>1. CASE i \in 1 .. n
      BY <1>1, <1>2, <1>3, <3>1
    <3>2. CASE i = n + 1
      BY <1>1, <1>2, <1>4, <3>2
    <3> QED  BY <1>1, <3>1, <3>2
  <2>2. \A p \in P : p.seq = nextSeq + 1 /\ p = [seq |-> nextSeq + 1, sim_time |-> now + 1]
    OBVIOUS
  <2>3. \A p \in pending : p.seq \in Nat
    BY <1>5
  <2>4. ASSUME NEW p \in pending'
        PROVE  p.seq < nextSeq' /\ \A i \in 1 .. n + 1 : events'[i].seq # p.seq
    <3>1. CASE p \in P
      <4>1. nextSeq' = nextSeq + 2 /\ p.seq = nextSeq + 1
        BY <2>2, <3>1
      <4>2. p.seq < nextSeq'
        BY <1>2, <4>1
      <4>3. ASSUME NEW i \in 1 .. n + 1  PROVE events'[i].seq # nextSeq + 1
        <5> DEFINE x == events'[i].seq
        <5>1. x \in Nat /\ x <= nextSeq
          BY <2>1
        <5> HIDE DEF x
        <5>2. x # nextSeq + 1
          BY <1>2, <5>1
        <5> QED  BY <5>2 DEF x
      <4> QED  BY <4>1, <4>2, <4>3
    <3>2. CASE p \in pending
      <4>1. \A i \in 1 .. n + 1 : i = n + 1 \/ i \in 1 .. n
        BY <1>1
      <4> QED  BY <1>1, <1>2, <1>6, <2>3, <3>2, <4>1
    <3> QED  BY <3>1, <3>2
  <2>5. ASSUME NEW p \in pending', NEW q \in pending', p.seq = q.seq  PROVE p = q
    <3>1. \A x \in pending : x.seq < nextSeq + 1
      BY <1>2, <1>6, <2>3
    <3>2. \A x \in pending : x.seq # nextSeq + 1
      BY <1>2, <2>3, <3>1
    <3> QED  BY <1>6, <2>2, <2>5, <3>2
  <2>6. ASSUME NEW i \in 1 .. n + 1  PROVE events'[i].seq < nextSeq'
    <3> DEFINE x == events'[i].seq
    <3>1. x \in Nat /\ x <= nextSeq
      BY <2>1
    <3> HIDE DEF x
    <3>2. x < nextSeq + 1 /\ x < nextSeq + 2
      BY <1>2, <3>1
    <3> QED  BY <3>2 DEF x
  <2> QED  BY <1>1, <2>1, <2>4, <2>5, <2>6 DEF OpenInv
<1>9. BoundsInv'
  <2>1. pending' \subseteq [seq : 1 .. MaxMoves + 1, sim_time : 1 .. MaxNow + 1]
    <3>1. P \subseteq [seq : 1 .. MaxMoves + 1, sim_time : 1 .. MaxNow + 1]
      BY <1>2
    <3> QED  BY <1>5, <3>1
  <2>2. IsFiniteSet(pending')
    <3> DEFINE Owed == {[seq |-> nextSeq + 1, sim_time |-> now + 1]}
    <3>1. IsFiniteSet(Owed) /\ P \in SUBSET Owed
      BY FS_Singleton
    <3> HIDE DEF Owed
    <3>2. IsFiniteSet(P)
      BY <3>1, FS_Subset
    <3> QED  BY <1>5, <3>2, FS_Union
  <2> QED  BY <1>2, <1>5, <2>1, <2>2 DEF BoundsInv
<1>10. RecordsAreFresh'
  <2>1. \A j \in 1 .. n + 1 : events'[j].kind \notin ScoreKinds
    <3>1. \A j \in 1 .. n + 1 : j = n + 1 \/ j \in 1 .. n
      BY <1>1
    <3> QED  BY <1>1, <1>3, <1>4, <3>1
  <2> QED  BY <1>1, <2>1 DEF RecordsAreFresh
<1>11. ScoreIsEarned'
  BY <1>2 DEF ScoreIsEarned
<1> QED  BY <1>7, <1>8, <1>9, <1>10, <1>11 DEF EvalInv

LEMMA LogJoined ==
  ASSUME LogInv, NEW m \in Nat, NEW t, t = [i \in 1 .. m |-> t[i]]
  PROVE  LET grown == events \o t
         IN  /\ grown \in Seq(Range(grown))
             /\ Len(events) \in Nat /\ DOMAIN events = 1 .. Len(events)
             /\ DOMAIN grown = 1 .. Len(events) + m
             /\ \A i \in 1 .. Len(events) : grown[i] = events[i]
             /\ \A i \in 1 .. m : grown[Len(events) + i] = t[i]
             /\ \A i \in DOMAIN grown : i \in 1 .. Len(events)
                                      \/ \E k \in 1 .. m : i = Len(events) + k
<1> DEFINE R == Range(events) \cup Range(t)
           n == Len(events)
           grown == events \o t
<1>1. n \in Nat /\ DOMAIN events = 1 .. n
  BY LogIsFinite
<1>2. events \in Seq(R)
  <2>1. /\ events = [i \in 1 .. n |-> events[i]]
        /\ \A i \in 1 .. n : events[i] \in R
    BY <1>1, LenProperties DEF LogInv, Range
  <2> HIDE DEF R, n
  <2> QED  BY <1>1, <2>1, IsASeq
<1>3. t \in Seq(R) /\ Len(t) = m
  <2>1. \A i \in 1 .. m : t[i] \in R
    BY DEF Range
  <2>2. t \in Seq(R)
    <3> HIDE DEF R
    <3> QED  BY <2>1, IsASeq
  <2>3. DOMAIN t = 1 .. m
    OBVIOUS
  <2> QED  BY <2>2, <2>3, LenProperties
<1> HIDE DEF R
<1>4. /\ grown \in Seq(R) /\ Len(grown) = n + m
      /\ \A i \in 1 .. n + m : grown[i] = IF i <= n THEN events[i] ELSE t[i - n]
  BY <1>2, <1>3, ConcatProperties
<1> HIDE DEF n, grown
<1>5. DOMAIN grown = 1 .. n + m
  BY <1>4, LenProperties
<1>6. ASSUME NEW i \in 1 .. n  PROVE grown[i] = events[i]
  <2>1. i \in 1 .. n + m /\ i <= n
    BY <1>1
  <2> QED  BY <1>4, <2>1
<1>7. ASSUME NEW i \in 1 .. m  PROVE grown[n + i] = t[i]
  <2>1. n + i \in 1 .. n + m /\ ~(n + i <= n) /\ (n + i) - n = i
    BY <1>1
  <2> QED  BY <1>4, <2>1
<1>8. ASSUME NEW i \in 1 .. n + m, i \notin 1 .. n  PROVE \E k \in 1 .. m : i = n + k
  <2>1. i - n \in 1 .. m /\ i = n + (i - n)
    BY <1>1, <1>8
  <2> QED  BY <2>1
<1>9. grown \in Seq(Range(grown))
  BY <1>4, OwnRange
<1> QED  BY <1>1, <1>5, <1>6, <1>7, <1>8, <1>9 DEF n, grown

LEMMA AdvanceStep == ASSUME EvalInv, Advance PROVE EvalInv'
<1> DEFINE S == DueBy(now + 1)
           due == Ranked(S, InTimeOrder)
           m == Cardinality(S)
           t == [i \in DOMAIN due |-> Reveal(due[i])]
           n == Len(events)
<1>1. /\ now \in Nat /\ now < MaxNow /\ MaxNow \in Nat /\ MaxMoves \in Nat
      /\ nextSeq \in Nat /\ nextSeq \in 1 .. MaxMoves + 2
      /\ results = <<>> /\ results' = results /\ nextSeq' = nextSeq
      /\ now' = now + 1 /\ pending' = pending \ S /\ events' = events \o t
      /\ results \in Seq(0 .. 1000)
  BY BoundsAssumption DEF EvalInv, BoundsInv, Advance
<1>2. /\ pending \subseteq [seq : 1 .. MaxMoves + 1, sim_time : 1 .. MaxNow + 1]
      /\ IsFiniteSet(pending)
      /\ \A p \in pending : p.seq < nextSeq /\ \A i \in DOMAIN events : events[i].seq # p.seq
      /\ \A p, q \in pending : p.seq = q.seq => p = q
  BY <1>1 DEF EvalInv, BoundsInv, OpenInv
<1>3. S \in SUBSET pending /\ \A p \in S : p.sim_time <= now + 1
  BY DEF DueBy
<1>4. Queued(S)
  <2>1. \A p \in pending : p \in [seq : Nat, sim_time : Nat]
    BY <1>1, <1>2
  <2>2. IsFiniteSet(S)
    BY <1>2, <1>3, FS_Subset
  <2> HIDE DEF S
  <2> QED  BY <1>2, <1>3, <2>1, <2>2 DEF Queued
<1> HIDE DEF S
<1>5. /\ DOMAIN due = 1 .. m /\ m \in Nat
      /\ \A i \in 1 .. m : due[i] \in S
      /\ \A i, j \in 1 .. m : due[i] = due[j] => i = j
  BY <1>4, DueInTurn
<1> HIDE DEF due, m
<1>6. t = [i \in 1 .. m |-> t[i]] /\ \A i \in 1 .. m : t[i] = Reveal(due[i])
  BY <1>5
<1> HIDE DEF t
<1>7. /\ events' \in Seq(Range(events'))
      /\ n \in Nat /\ DOMAIN events = 1 .. n /\ DOMAIN events' = 1 .. n + m
      /\ \A i \in 1 .. n : events'[i] = events[i]
      /\ \A i \in 1 .. m : events'[n + i] = t[i]
      /\ \A i \in DOMAIN events' : i \in 1 .. n \/ \E k \in 1 .. m : i = n + k
  BY <1>1, <1>5, <1>6, LogJoined DEF EvalInv
<1> HIDE DEF n
<1>8. ASSUME NEW k \in 1 .. m
      PROVE  /\ t[k].seq = due[k].seq /\ t[k].seq \in Nat \ {0} /\ t[k].seq < nextSeq
             /\ t[k].sim_time \in 0 .. MaxNow /\ t[k].sim_time <= now + 1
             /\ t[k].kind = "npc_reply" /\ Written(t[k])
             /\ \A i \in 1 .. n : events[i].seq # t[k].seq
  <2> DEFINE p == due[k]
  <2>1. p \in S /\ p \in pending /\ p.sim_time <= now + 1
    BY <1>3, <1>5
  <2>2. p.seq \in 1 .. MaxMoves + 1 /\ p.sim_time \in 1 .. MaxNow + 1
    BY <1>2, <2>1
  <2> HIDE DEF p
  <2>3. t[k] = Reveal(p)
    BY <1>6 DEF p
  <2>4. /\ Reveal(p).seq = p.seq /\ Reveal(p).sim_time = p.sim_time
        /\ Reveal(p).kind = "npc_reply" /\ Reveal(p).deltas = Reveal(Reveal(p)).deltas
    BY DEF Reveal
  <2>5. Written(t[k])
    BY <2>3, <2>4 DEF Written
  <2>6. p.seq \in Nat \ {0} /\ p.sim_time \in 0 .. MaxNow
    BY <1>1, <2>1, <2>2
  <2>7. t[k].seq = due[k].seq
    BY <2>3, <2>4 DEF p
  <2> QED  BY <1>2, <1>7, <2>1, <2>3, <2>4, <2>5, <2>6, <2>7
<1>9. /\ \A i \in 1 .. n : /\ events[i].seq \in Nat \ {0} /\ events[i].seq < nextSeq
                           /\ events[i].sim_time \in 0 .. MaxNow /\ events[i].sim_time <= now
                           /\ events[i].kind \notin ScoreKinds
                           /\ Written(events[i])
      /\ \A i, j \in 1 .. n : events[i].seq = events[j].seq => i = j
      /\ \A i, j \in 1 .. n : events[i].kind \in Moves /\ events[j].kind \in Moves =>
           (events[i].sim_time < events[j].sim_time => events[i].seq < events[j].seq)
  <2>1. LogInv /\ (results = <<>> => OpenInv)
    BY DEF EvalInv
  <2>2. \A i \in 1 .. n : /\ events[i].seq < nextSeq /\ events[i].sim_time <= now
                          /\ events[i].kind \notin ScoreKinds
    BY <1>1, <1>7, <2>1 DEF OpenInv
  <2> QED  BY <1>7, <2>1, <2>2 DEF LogInv
<1>10. "npc_reply" \notin Moves /\ "npc_reply" \notin ScoreKinds
  BY DEF Moves, ScoreKinds
<1>11. ASSUME NEW i \in DOMAIN events'
       PROVE  /\ events'[i].seq \in Nat \ {0} /\ events'[i].seq < nextSeq
              /\ events'[i].sim_time \in 0 .. MaxNow /\ events'[i].sim_time <= now + 1
              /\ events'[i].kind \notin ScoreKinds /\ Written(events'[i])
  <2>1. CASE i \in 1 .. n
    <3>1. \A x \in 0 .. MaxNow : x <= now => x <= now + 1
      BY <1>1
    <3> QED  BY <1>7, <1>9, <2>1, <3>1
  <2>2. CASE \E k \in 1 .. m : i = n + k
    <3>1. PICK k \in 1 .. m : i = n + k
      BY <2>2
    <3>2. events'[i] = t[k]
      BY <1>7, <3>1
    <3> QED  BY <1>8, <1>10, <3>2
  <2> QED  BY <1>7, <2>1, <2>2
<1>12. LogInv'
  <2>1. ASSUME NEW i \in DOMAIN events', NEW j \in DOMAIN events', events'[i].seq = events'[j].seq
        PROVE  i = j
    <3>1. CASE i \in 1 .. n /\ j \in 1 .. n
      BY <1>7, <1>9, <2>1, <3>1
    <3>2. CASE i \in 1 .. n /\ \E k \in 1 .. m : j = n + k
      BY <1>7, <1>8, <2>1, <3>2
    <3>3. CASE j \in 1 .. n /\ \E k \in 1 .. m : i = n + k
      BY <1>7, <1>8, <2>1, <3>3
    <3>4. CASE (\E k \in 1 .. m : i = n + k) /\ \E k \in 1 .. m : j = n + k
      <4>1. PICK k \in 1 .. m : i = n + k
        BY <3>4
      <4>2. PICK l \in 1 .. m : j = n + l
        BY <3>4
      <4>3. due[k].seq = due[l].seq
        BY <1>7, <1>8, <2>1, <4>1, <4>2
      <4>4. due[k] = due[l]
        BY <1>2, <1>3, <1>5, <4>3
      <4> QED  BY <1>5, <4>1, <4>2, <4>4
    <3> QED  BY <1>7, <3>1, <3>2, <3>3, <3>4
  <2>2. ASSUME NEW i \in DOMAIN events', NEW j \in DOMAIN events',
               events'[i].kind \in Moves, events'[j].kind \in Moves,
               events'[i].sim_time < events'[j].sim_time
        PROVE  events'[i].seq < events'[j].seq
    <3>1. \A k \in 1 .. m : events'[n + k].kind \notin Moves
      BY <1>7, <1>8, <1>10
    <3>2. i \in 1 .. n /\ j \in 1 .. n
      BY <1>7, <2>2, <3>1
    <3> QED  BY <1>7, <1>9, <2>2, <3>2
  <2> QED  BY <1>7, <1>11, <2>1, <2>2 DEF LogInv
<1>13. OpenInv'
  <2>1. ASSUME NEW p \in pending', NEW i \in DOMAIN events'  PROVE events'[i].seq # p.seq
    <3>1. p \in pending /\ p \notin S
      BY <1>1
    <3>2. CASE i \in 1 .. n
      BY <1>2, <1>7, <3>1, <3>2
    <3>3. CASE \E k \in 1 .. m : i = n + k
      <4>1. PICK k \in 1 .. m : i = n + k
        BY <3>3
      <4>2. events'[i].seq = due[k].seq /\ due[k] \in S /\ due[k] \in pending
        BY <1>3, <1>5, <1>7, <1>8, <4>1
      <4> QED  BY <1>2, <3>1, <4>2
    <3> QED  BY <1>7, <3>2, <3>3
  <2> QED  BY <1>1, <1>2, <1>11, <2>1 DEF OpenInv
<1>14. BoundsInv'
  <2>1. IsFiniteSet(pending')
    <3>1. pending' \in SUBSET pending
      BY <1>1
    <3> QED  BY <1>2, <3>1, FS_Subset
  <2> QED  BY <1>1, <1>2, <2>1 DEF BoundsInv
<1>15. RecordsAreFresh'
  BY <1>11 DEF RecordsAreFresh
<1>16. ScoreIsEarned'
  BY <1>1 DEF ScoreIsEarned
<1> QED  BY <1>12, <1>13, <1>14, <1>15, <1>16 DEF EvalInv

(* Score records are no moves and no replies: what was earned stands.      *)
EarnedBy(replies, dates, decisions, messages) ==
  LET by(t) == LET moves == {e \in dates : e.sim_time <= t}
               IN  IF moves = {} THEN Atom("d1")
                   ELSE (CHOOSE e \in moves : \A f \in moves : f.seq <= e.seq).args.date
      moved == by(Horizon) # by(0)
      goNoGos == {e \in decisions : e.args.type = Atom("gonogo") /\ e.args.about = Atom(About)}
      final == CHOOSE e \in decisions :
                 /\ e.args.about = Atom(About)
                 /\ \A f \in decisions : f.args.about = Atom(About) => f.seq <= e.seq
  IN  Is(replies # {}, 300)
      + Is(moved \/ goNoGos # {}, 300)
      + Is(\E e \in goNoGos : e.args.action \in {Atom("reschedule"), Atom("hold_and_mitigate")}, 150)
      + Is(\E e \in messages : /\ e.args.to = Atom("cto")
                               /\ IsList(e.args.refs) /\ Atom("psp_cert") \in Range(e.args.refs.items),
           100)
      + (IF \E e \in decisions : e.args.about = Atom(About)
         THEN Is(replies # {}, 75) + Is(moved /\ final.args.new_date # None, 45)
              + Is(final.args.owner \in {Atom("cto"), Atom("holder")}, 30)
         ELSE 0)

LEMMA EarnedIs ==
  Earned = EarnedBy(Done("npc_reply"), Done("reschedule"), Done("record_decision"),
                    Done("send_message"))
BY DEF Earned, EarnedBy, Discovered, Moved, DateBy, GoNoGos, Final, Told

LEMMA EarnedStands ==
  ASSUME \A kind \in {"npc_reply", "reschedule", "record_decision", "send_message"} :
           Done(kind)' = Done(kind)
  PROVE  Earned' = Earned
<1>1. Earned' = EarnedBy(Done("npc_reply")', Done("reschedule")', Done("record_decision")',
                         Done("send_message")')
  BY DEF Earned, EarnedBy, Discovered, Moved, DateBy, GoNoGos, Final, Told
<1> QED  BY <1>1, EarnedIs

LEMMA ScoreStep == ASSUME EvalInv, Score PROVE EvalInv'
<1> DEFINE s == NextSeq(events)
           first == ScoreRecord(s, "checkpoint_score")
           second == ScoreRecord(s + 1, "final_score")
           t == <<first, second>>
           n == Len(events)
<1>1. /\ results' = Append(results, ScoreOf(events)) /\ events' = events \o t
      /\ UNCHANGED <<now, nextSeq, pending>>
  BY DEF Score
<1>2. LogInv /\ BoundsInv /\ ScoreIsEarned /\ RecordsAreFresh
  BY DEF EvalInv
<1>3. s \in Nat \ {0} /\ \A i \in DOMAIN events : events[i].seq < s
  BY <1>2, NextSeqIs
<1> HIDE DEF s
<1>4. Horizon \in 0 .. MaxNow
  BY BoundsAssumption
<1>5. /\ first.seq = s /\ first.sim_time = Horizon /\ first.kind = "checkpoint_score"
      /\ second.seq = s + 1 /\ second.sim_time = Horizon /\ second.kind = "final_score"
      /\ Written(first) /\ Written(second)
  BY DEF ScoreRecord, Written, ScoreKinds
<1>6. t = [i \in 1 .. 2 |-> t[i]] /\ t[1] = first /\ t[2] = second
  <2> HIDE DEF first, second
  <2> QED  OBVIOUS
<1> HIDE DEF t, first, second
<1>7. /\ events' \in Seq(Range(events'))
      /\ n \in Nat /\ DOMAIN events = 1 .. n /\ DOMAIN events' = 1 .. n + 2
      /\ \A i \in 1 .. n : events'[i] = events[i]
      /\ events'[n + 1] = first /\ events'[n + 2] = second
      /\ \A i \in DOMAIN events' : i \in 1 .. n \/ i = n + 1 \/ i = n + 2
  <2>1. 2 \in Nat /\ 1 \in 1 .. 2 /\ 2 \in 1 .. 2
    OBVIOUS
  <2>2. /\ events' \in Seq(Range(events'))
        /\ n \in Nat /\ DOMAIN events = 1 .. n /\ DOMAIN events' = 1 .. n + 2
        /\ \A i \in 1 .. n : events'[i] = events[i]
        /\ \A i \in 1 .. 2 : events'[n + i] = t[i]
    <3> DEFINE grown == events \o t
    <3>1. /\ grown \in Seq(Range(grown))
          /\ n \in Nat /\ DOMAIN events = 1 .. n /\ DOMAIN grown = 1 .. n + 2
          /\ \A i \in 1 .. n : grown[i] = events[i]
          /\ \A i \in 1 .. 2 : grown[n + i] = t[i]
      <4>1. PICK m \in Nat : m = 2
        OBVIOUS
      <4>2. t = [i \in 1 .. m |-> t[i]]
        BY <1>6, <4>1
      <4>3. /\ grown \in Seq(Range(grown))
            /\ n \in Nat /\ DOMAIN events = 1 .. n /\ DOMAIN grown = 1 .. n + m
            /\ \A i \in 1 .. n : grown[i] = events[i]
            /\ \A i \in 1 .. m : grown[n + i] = t[i]
        BY <1>2, <4>2, LogJoined
      <4> HIDE DEF grown, n
      <4> QED  BY <4>1, <4>3
    <3>2. events' = grown
      BY <1>1
    <3> HIDE DEF grown, n
    <3> QED  BY <3>1, <3>2
  <2> HIDE DEF n
  <2>3. events'[n + 1] = first /\ events'[n + 2] = second
    BY <1>6, <2>1, <2>2
  <2> QED  BY <2>2, <2>3
<1> HIDE DEF n
<1>8. /\ \A i \in 1 .. n : /\ events[i].seq \in Nat \ {0} /\ events[i].seq < s
                           /\ events[i].sim_time \in 0 .. MaxNow
                           /\ Written(events[i])
      /\ \A i, j \in 1 .. n : events[i].seq = events[j].seq => i = j
      /\ \A i, j \in 1 .. n : events[i].kind \in Moves /\ events[j].kind \in Moves =>
           (events[i].sim_time < events[j].sim_time => events[i].seq < events[j].seq)
      /\ \A i, j \in 1 .. n : i < j /\ events[j].kind \in ScoreKinds => events[i].seq < events[j].seq
  BY <1>2, <1>3, <1>7 DEF LogInv, RecordsAreFresh
<1>9. LogInv'
  <2>1. ASSUME NEW i \in DOMAIN events'
        PROVE  /\ events'[i].seq \in Nat \ {0} /\ events'[i].sim_time \in 0 .. MaxNow
               /\ Written(events'[i])
    <3>1. CASE i \in 1 .. n
      BY <1>7, <1>8, <3>1
    <3>2. CASE i = n + 1
      BY <1>3, <1>4, <1>5, <1>7, <3>2
    <3>3. CASE i = n + 2
      BY <1>3, <1>4, <1>5, <1>7, <3>3
    <3> QED  BY <1>7, <2>1, <3>1, <3>2, <3>3
  <2>2. ASSUME NEW i \in DOMAIN events', NEW j \in DOMAIN events', events'[i].seq = events'[j].seq
        PROVE  i = j
    <3>1. \A k \in 1 .. n : events'[k].seq \in Nat /\ events'[k].seq < s
      BY <1>7, <1>8
    <3>2. events'[n + 1].seq = s /\ events'[n + 2].seq = s + 1 /\ s \in Nat
      BY <1>3, <1>5, <1>7
    <3>3. CASE i \in 1 .. n /\ j \in 1 .. n
      BY <1>7, <1>8, <2>2, <3>3
    <3>4. CASE i \in 1 .. n /\ (j = n + 1 \/ j = n + 2)
      BY <2>2, <3>1, <3>2, <3>4
    <3>5. CASE j \in 1 .. n /\ (i = n + 1 \/ i = n + 2)
      BY <2>2, <3>1, <3>2, <3>5
    <3>6. CASE (i = n + 1 \/ i = n + 2) /\ (j = n + 1 \/ j = n + 2)
      BY <2>2, <3>2, <3>6
    <3> QED  BY <1>7, <2>2, <3>3, <3>4, <3>5, <3>6
  <2>3. ASSUME NEW i \in DOMAIN events', NEW j \in DOMAIN events',
               events'[i].kind \in Moves, events'[j].kind \in Moves,
               events'[i].sim_time < events'[j].sim_time
        PROVE  events'[i].seq < events'[j].seq
    <3>1. events'[n + 1].kind \notin Moves /\ events'[n + 2].kind \notin Moves
      BY <1>5, <1>7 DEF Moves
    <3>2. i \in 1 .. n /\ j \in 1 .. n
      BY <1>7, <2>3, <3>1
    <3> QED  BY <1>7, <1>8, <2>3, <3>2
  <2> QED  BY <1>7, <2>1, <2>2, <2>3 DEF LogInv
<1>10. RecordsAreFresh'
  <2> SUFFICES ASSUME NEW i \in DOMAIN events', NEW j \in DOMAIN events', i < j,
                      events'[j].kind \in ScoreKinds
               PROVE  events'[i].seq < events'[j].seq
    BY DEF RecordsAreFresh
  <2>1. \A k \in 1 .. n : events'[k].seq \in Nat /\ events'[k].seq < s
    BY <1>7, <1>8
  <2>2. events'[n + 1].seq = s /\ events'[n + 2].seq = s + 1 /\ s \in Nat
    BY <1>3, <1>5, <1>7
  <2>3. CASE j \in 1 .. n
    <3>1. i \in 1 .. n
      BY <1>7, <2>3
    <3> QED  BY <1>7, <1>8, <2>3, <3>1
  <2>4. CASE j = n + 1
    <3>1. i \in 1 .. n
      BY <1>7, <2>4
    <3> QED  BY <2>1, <2>2, <2>4, <3>1
  <2>5. CASE j = n + 2
    <3>1. i \in 1 .. n \/ i = n + 1
      BY <1>7, <2>5
    <3>2. events'[i].seq \in Nat /\ events'[i].seq <= s
      BY <2>1, <2>2, <3>1
    <3> QED  BY <2>2, <2>5, <3>2
  <2> QED  BY <1>7, <2>3, <2>4, <2>5
<1>11. Earned' = Earned
  <2>1. ASSUME NEW kind \in {"npc_reply", "reschedule", "record_decision", "send_message"}
        PROVE  Done(kind)' = Done(kind)
    <3>1. first.kind # kind /\ second.kind # kind
      BY <1>5
    <3>2. \A e : e \in Range(events') <=> e \in Range(events) \/ e = first \/ e = second
      <4>1. \A i : i \in DOMAIN events' <=> i \in DOMAIN events \/ i = n + 1 \/ i = n + 2
        BY <1>7
      <4>2. \A i \in DOMAIN events : events'[i] = events[i]
        BY <1>7
      <4> QED  BY <1>7, <4>1, <4>2 DEF Range
    <3> QED  BY <3>1, <3>2 DEF Done
  <2> QED  BY <2>1, EarnedStands
<1>12. ScoreOf(events) = Earned /\ Earned \in 0 .. 1000
  BY <1>2, Grading
<1>13. /\ results \in Seq(0 .. 1000) /\ results' \in Seq(0 .. 1000)
       /\ Len(results) \in Nat /\ DOMAIN results = 1 .. Len(results)
       /\ DOMAIN results' = 1 .. Len(results) + 1
       /\ \A i \in DOMAIN results : results'[i] = results[i]
       /\ results'[Len(results) + 1] = Earned
  BY <1>1, <1>2, <1>12, AppendProperties, LenProperties DEF BoundsInv
<1>14. ScoreIsEarned'
  <2> SUFFICES ASSUME NEW i \in DOMAIN results'  PROVE results'[i] = Earned'
    BY DEF ScoreIsEarned
  <2>1. i \in DOMAIN results \/ i = Len(results) + 1
    BY <1>13
  <2>2. \A k \in DOMAIN results : results[k] = Earned
    BY <1>2 DEF ScoreIsEarned
  <2> QED  BY <1>11, <1>13, <2>1, <2>2
<1>15. BoundsInv'
  BY <1>1, <1>2, <1>13 DEF BoundsInv
<1>16. OpenInv'
  <2>1. results' # <<>>
    <3>1. Len(results) + 1 \in DOMAIN results'
      BY <1>13
    <3> QED  BY <3>1
  <2> QED  BY <2>1 DEF OpenInv
<1> QED  BY <1>9, <1>10, <1>14, <1>15, <1>16 DEF EvalInv

LEMMA EvalInvInit == EvalInit => EvalInv
<1> SUFFICES ASSUME EvalInit PROVE EvalInv
  OBVIOUS
<1>1. BoundsInv
  BY BoundsAssumption, FS_EmptySet DEF EvalInit, BoundsInv
<1>2. LogInv /\ OpenInv /\ RecordsAreFresh /\ ScoreIsEarned
  BY DEF EvalInit, LogInv, OpenInv, RecordsAreFresh, ScoreIsEarned
<1> QED  BY <1>1, <1>2 DEF EvalInv

LEMMA DoIs ==
  ASSUME EvalInv, NEW kind \in Moves, NEW args, NEW deltas, Do(kind, args, deltas),
         Written([seq |-> nextSeq, sim_time |-> now, kind |-> kind, args |-> args, deltas |-> deltas])
  PROVE  EvalInv'
<1> DEFINE ev == [seq |-> nextSeq, sim_time |-> now, kind |-> kind, args |-> args, deltas |-> deltas]
           P == {x \in {0} : FALSE}
<1>1. /\ Playing /\ events' = Append(events, ev) /\ nextSeq' = nextSeq + 1
      /\ UNCHANGED <<now, pending, results>>
  BY DEF Do, Apply
<1>2. ev.seq = nextSeq /\ ev.sim_time = now /\ ev.kind = kind /\ Written(ev)
  OBVIOUS
<1>3. P = {} /\ pending' = pending \cup P /\ P \subseteq {[seq |-> nextSeq + 1, sim_time |-> now + 1]}
  BY <1>1
<1> HIDE DEF ev, P
<1> QED  BY <1>1, <1>2, <1>3, MoveStep

LEMMA EvalInvStep == ASSUME EvalInv, [EvalNext]_evalVars PROVE EvalInv'
<1> DEFINE ev(kind, args, deltas) == [seq |-> nextSeq, sim_time |-> now, kind |-> kind,
                                      args |-> args, deltas |-> deltas]
<1>1. ASSUME NEW d \in Decisions, RecordDecision(d)  PROVE EvalInv'
  <2>1. Written(ev("record_decision", d, Add("decisions", d)))
    BY DEF Written
  <2>2. "record_decision" \in Moves
    BY DEF Moves
  <2>3. Do("record_decision", d, Add("decisions", d))
    BY <1>1 DEF RecordDecision
  <2> QED  BY <2>1, <2>2, <2>3, DoIs
<1>2. ASSUME NEW a \in Tellings, SendMessage(a)  PROVE EvalInv'
  <2>1. Written(ev("send_message", a, Add("messages", a)))
    BY DEF Written
  <2>2. "send_message" \in Moves
    BY DEF Moves
  <2>3. Do("send_message", a, Add("messages", a))
    BY <1>2 DEF SendMessage
  <2> QED  BY <2>1, <2>2, <2>3, DoIs
<1>3. ASSUME NEW a \in Emails, SendEmail(a)  PROVE EvalInv'
  <2>1. Written(ev("send_email", a, Add("email", a)))
    BY DEF Written
  <2>2. "send_email" \in Moves
    BY DEF Moves
  <2>3. Do("send_email", a, Add("email", a))
    BY <1>3 DEF SendEmail
  <2> QED  BY <2>1, <2>2, <2>3, DoIs
<1>4. ASSUME AskHolder  PROVE EvalInv'
  <2> DEFINE asked == ev("send_message", Question, Add("messages", Question))
             P == {[seq |-> nextSeq + 1, sim_time |-> now + 1]}
  <2>1. /\ Playing /\ events' = Append(events, asked) /\ nextSeq' = nextSeq + 2
        /\ pending' = pending \cup P /\ UNCHANGED <<now, results>>
    BY <1>4 DEF AskHolder, Apply, Question
  <2>2. asked.seq = nextSeq /\ asked.sim_time = now /\ asked.kind = "send_message"
    OBVIOUS
  <2>3. Written(asked)
    BY DEF Written
  <2>4. asked.kind \in Moves
    BY DEF Moves
  <2>5. P \subseteq {[seq |-> nextSeq + 1, sim_time |-> now + 1]}
    OBVIOUS
  <2> HIDE DEF asked, P
  <2> QED  BY <2>1, <2>2, <2>3, <2>4, <2>5, MoveStep
<1>5. ASSUME NEW date \in {"d1", "d2"}, Reschedule(date)  PROVE EvalInv'
  <2> DEFINE args == [date |-> Atom(date)]
             deltas == <<[op |-> "set", path |-> <<"projects", "proj", "checkout", "launch_date">>,
                          value |-> Atom(date)]>>
  <2>1. Written(ev("reschedule", args, deltas))
    BY DEF Written, Dates
  <2>2. "reschedule" \in Moves
    BY DEF Moves
  <2>3. Do("reschedule", args, deltas)
    BY <1>5 DEF Reschedule
  <2> HIDE DEF args, deltas
  <2> QED  BY <2>1, <2>2, <2>3, DoIs
<1>6. CASE UNCHANGED evalVars
  <2>1. /\ now' = now /\ nextSeq' = nextSeq /\ pending' = pending
        /\ events' = events /\ results' = results
    BY <1>6 DEF evalVars
  <2>2. Earned' = Earned
    <3>1. ASSUME NEW kind \in {"npc_reply", "reschedule", "record_decision", "send_message"}
          PROVE  Done(kind)' = Done(kind)
      BY <2>1 DEF Done
    <3> QED  BY <3>1, EarnedStands
  <2>3. ScoreIsEarned'
    BY <2>1, <2>2 DEF EvalInv, ScoreIsEarned
  <2>4. BoundsInv' /\ LogInv' /\ OpenInv' /\ RecordsAreFresh'
    BY <2>1 DEF EvalInv, BoundsInv, LogInv, OpenInv, RecordsAreFresh
  <2> QED  BY <2>3, <2>4 DEF EvalInv
<1> QED  BY <1>1, <1>2, <1>3, <1>4, <1>5, <1>6, AdvanceStep, ScoreStep DEF EvalNext

LEMMA EvalInvariance == EvalSpec => []EvalInv
<1>1. EvalInv /\ [EvalNext]_evalVars => EvalInv'
  BY EvalInvStep
<1> QED  BY <1>1, EvalInvInit, PTL DEF EvalSpec

(* The evaluator's clock, log and scores stay within their bounds; above   *)
(* all, no score exceeds the full thousand, although score() adds weighted *)
(* credits without clamping them.                                          *)
THEOREM EvalTypeCorrect == EvalSpec => []EvalTypeOK
<1>1. EvalInv => EvalTypeOK
  <2> SUFFICES ASSUME EvalInv PROVE EvalTypeOK
    OBVIOUS
  <2>1. \A p \in pending : p.seq \in 1 .. (MaxMoves + 1) /\ p.sim_time \in 1 .. (MaxNow + 1)
    <3> SUFFICES ASSUME NEW p \in pending
                 PROVE  p.seq \in 1 .. (MaxMoves + 1) /\ p.sim_time \in 1 .. (MaxNow + 1)
      OBVIOUS
    <3>1. p \in [seq : 1 .. (MaxMoves + 1), sim_time : 1 .. (MaxNow + 1)]
      BY DEF EvalInv, BoundsInv
    <3> QED  BY <3>1
  <2>2. \A e \in Range(events) : e.seq \in Nat \ {0} /\ e.sim_time \in 0 .. MaxNow
    BY DEF EvalInv, LogInv, Range
  <2>3. \A i \in DOMAIN results : results[i] \in 0 .. 1000
    <3> DEFINE Scores == 0 .. 1000
    <3>1. results \in Seq(Scores)
      BY DEF EvalInv, BoundsInv
    <3> HIDE DEF Scores
    <3>2. \A i \in DOMAIN results : results[i] \in Scores
      BY <3>1, LenProperties, ElementOfSeq
    <3> QED  BY <3>2 DEF Scores
  <2> QED  BY <2>1, <2>2, <2>3 DEF EvalTypeOK, EvalInv, BoundsInv
<1> QED  BY <1>1, EvalInvariance, PTL

(* The score is the one the moves made by the checkpoint earn: the replay  *)
(* of the log, read by path, agrees with the history for every log and     *)
(* every cast of arguments, whenever and however often it is graded; and   *)
(* the records of a score take numbers above all that it graded.           *)
THEOREM ScoresStand == EvalSpec => []GradingStands
<1>1. EvalInv => GradingStands
  BY DEF EvalInv, GradingStands
<1> QED  BY <1>1, EvalInvariance, PTL
=============================================================================
