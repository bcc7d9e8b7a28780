------------------------------- MODULE Cassette -------------------------------
(***************************************************************************)
(* The determinism layer of Saasworld's language-model calls               *)
(* (src/saasworld/llm/client.py, cache.py).  A client reads the cassette   *)
(* file once, answers a known request from memory, and on an unknown one   *)
(* raises CacheMiss (replay) or calls the model, appends the output to the *)
(* file, remembers it and answers (record).  Each process has one client;  *)
(* several processes may share the file, and any may be killed.            *)
(***************************************************************************)
EXTENDS Naturals, Sequences

CONSTANTS
  Clients,   \* the clients ever opened, one per process or episode
  Keys,      \* cache keys: canonical requests
  Outputs,   \* what the model may output; nothing makes it repeat itself
  MaxLines   \* bound on the lines of the cassette

ASSUME BoundAssumption == MaxLines \in Nat

VARIABLES
  disk,        \* the records of the cassette file, [key, output]
  torn,        \* a write was cut short: the file no longer parses
  status,      \* per client: "off", "idle", "calling", "writing", "returning" or "dead"
  mode,        \* per client: "replay" or "record"
  recorded,    \* per client: LLMClient._recorded
  pending,     \* per client: the record being made, if any
  openedAt,    \* history, per client: the lines it read when it was opened
  answered,    \* history, per client: the <<key, output>> it ever answered
  missed,      \* history, per client: the keys it raised CacheMiss for
  overlapped   \* history: two record-mode clients were once open together

fileVars == <<disk, torn>>
historyVars == <<openedAt, answered, missed, overlapped>>
vars == <<fileVars, status, mode, recorded, pending, historyVars>>

Record == [key : Keys, output : Outputs]
Nothing == [k \in {} |-> FALSE]
Put(known, rec) ==
  [key \in DOMAIN known \cup {rec.key} |-> IF key = rec.key THEN rec.output ELSE known[key]]
Lines(file) == {file[i] : i \in DOMAIN file}
Alive(c) == status[c] \notin {"off", "dead"}

\* read_cassette: the last line of a key wins.
LastOf(file, key) ==
  CHOOSE i \in DOMAIN file :
    /\ file[i].key = key
    /\ \A j \in DOMAIN file : file[j].key = key => j <= i

ReadCassette(file) ==
  [key \in {line.key : line \in Lines(file)} |-> file[LastOf(file, key)].output]

Init ==
  /\ disk = <<>>
  /\ torn = FALSE
  /\ status = [c \in Clients |-> "off"]
  /\ mode = [c \in Clients |-> "replay"]
  /\ recorded = [c \in Clients |-> Nothing]
  /\ pending = [c \in Clients |-> {}]
  /\ openedAt = [c \in Clients |-> <<>>]
  /\ answered = [c \in Clients |-> {}]
  /\ missed = [c \in Clients |-> {}]
  /\ overlapped = FALSE

-----------------------------------------------------------------------------

\* LLMClient(): json.loads raises on a torn line, so no client opens a torn cassette.
Open(c, m) ==
  /\ status[c] = "off"
  /\ ~torn
  /\ status' = [status EXCEPT ![c] = "idle"]
  /\ mode' = [mode EXCEPT ![c] = m]
  /\ recorded' = [recorded EXCEPT ![c] = ReadCassette(disk)]
  /\ openedAt' = [openedAt EXCEPT ![c] = disk]
  /\ overlapped' = \/ overlapped
                   \/ m = "record" /\ \E d \in Clients : Alive(d) /\ mode[d] = "record"
  /\ UNCHANGED <<fileVars, pending, answered, missed>>

Answer(c, key, output) == answered' = [answered EXCEPT ![c] = @ \cup {<<key, output>>}]

\* call(): a hit.
Hit(c, key) ==
  /\ status[c] = "idle"
  /\ key \in DOMAIN recorded[c]
  /\ Answer(c, key, recorded[c][key])
  /\ UNCHANGED <<fileVars, status, mode, recorded, pending, openedAt, missed, overlapped>>

\* call(): a miss in replay mode raises CacheMiss.
Miss(c, key) ==
  /\ status[c] = "idle"
  /\ key \notin DOMAIN recorded[c]
  /\ mode[c] # "record"
  /\ missed' = [missed EXCEPT ![c] = @ \cup {key}]
  /\ UNCHANGED <<fileVars, status, mode, recorded, pending, openedAt, answered, overlapped>>

\* Slip: record mode refreshes what is recorded.
CallModelOnHit(c, key) ==
  /\ status[c] = "idle"
  /\ mode[c] = "record"
  /\ Len(disk) < MaxLines
  /\ \E output \in Outputs : pending' = [pending EXCEPT ![c] = {[key |-> key, output |-> output]}]
  /\ status' = [status EXCEPT ![c] = "calling"]
  /\ UNCHANGED <<fileVars, mode, recorded, historyVars>>

\* _record(): the request is sent; what the model will say is anybody's guess.
CallModel(c, key) ==
  /\ status[c] = "idle"
  /\ mode[c] = "record"
  /\ key \notin DOMAIN recorded[c]
  /\ Len(disk) < MaxLines
  /\ \E output \in Outputs : pending' = [pending EXCEPT ![c] = {[key |-> key, output |-> output]}]
  /\ status' = [status EXCEPT ![c] = "calling"]
  /\ UNCHANGED <<fileVars, mode, recorded, historyVars>>

\* The API, or the extraction of its output, raises: nothing is recorded, nothing answered.
ModelFails(c) ==
  /\ status[c] = "calling"
  /\ status' = [status EXCEPT ![c] = "idle"]
  /\ pending' = [pending EXCEPT ![c] = {}]
  /\ UNCHANGED <<fileVars, mode, recorded, historyVars>>

ModelAnswers(c) ==
  /\ status[c] = "calling"
  /\ status' = [status EXCEPT ![c] = "writing"]
  /\ UNCHANGED <<fileVars, mode, recorded, pending, historyVars>>

\* Slip: the line stays in a buffer while the answer is already used.
AppendBuffered(c) ==
  /\ status[c] = "writing"
  /\ \E rec \in pending[c] : Answer(c, rec.key, rec.output)
  /\ status' = [status EXCEPT ![c] = "returning"]
  /\ UNCHANGED <<fileVars, mode, recorded, pending, openedAt, missed, overlapped>>

\* append_cassette: one line, whatever other processes appended meanwhile.
AppendLine(c) ==
  /\ status[c] = "writing"
  /\ \E rec \in pending[c] : disk' = Append(disk, rec)
  /\ status' = [status EXCEPT ![c] = "returning"]
  /\ UNCHANGED <<torn, mode, recorded, pending, historyVars>>

\* Slip: the new record is not remembered.
RememberWithoutRecord(c) ==
  /\ status[c] = "returning"
  /\ \E rec \in pending[c] : Answer(c, rec.key, rec.output)
  /\ pending' = [pending EXCEPT ![c] = {}]
  /\ status' = [status EXCEPT ![c] = "idle"]
  /\ UNCHANGED <<fileVars, mode, recorded, openedAt, missed, overlapped>>

\* The new record enters _recorded and call() returns its output.
Remember(c) ==
  /\ status[c] = "returning"
  /\ \E rec \in pending[c] :
       /\ recorded' = [recorded EXCEPT ![c] = Put(@, rec)]
       /\ Answer(c, rec.key, rec.output)
  /\ pending' = [pending EXCEPT ![c] = {}]
  /\ status' = [status EXCEPT ![c] = "idle"]
  /\ UNCHANGED <<fileVars, mode, openedAt, missed, overlapped>>

\* The process ends; killed inside the write it may leave half a line.
End(c) ==
  /\ Alive(c)
  /\ status' = [status EXCEPT ![c] = "dead"]
  /\ torn' \in {torn, torn \/ status[c] = "writing"}
  /\ UNCHANGED <<disk, mode, recorded, pending, historyVars>>

Next ==
  \E c \in Clients :
    \/ \E m \in {"replay", "record"} : Open(c, m)
    \/ \E key \in Keys : Hit(c, key) \/ Miss(c, key) \/ CallModel(c, key)
    \/ ModelFails(c)
    \/ ModelAnswers(c)
    \/ AppendLine(c)
    \/ Remember(c)
    \/ End(c)

Spec == Init /\ [][Next]_vars

-----------------------------------------------------------------------------
(* Properties *)

\* Types and bounds; the model is only ever called for a request the client has no record of.
TypeOK ==
  /\ disk \in Seq(Record) /\ torn \in BOOLEAN /\ overlapped \in BOOLEAN
  /\ status \in [Clients -> {"off", "idle", "calling", "writing", "returning", "dead"}]
  /\ mode \in [Clients -> {"replay", "record"}]
  /\ pending \in [Clients -> SUBSET Record]
  /\ openedAt \in [Clients -> Seq(Record)]
  /\ answered \in [Clients -> SUBSET (Keys \X Outputs)]
  /\ missed \in [Clients -> SUBSET Keys]
  /\ DOMAIN recorded = Clients
  /\ \A c \in Clients :
       /\ DOMAIN recorded[c] \subseteq Keys
       /\ recorded[c] \in [DOMAIN recorded[c] -> Outputs]
       /\ status[c] \in {"calling", "writing", "returning"} =>
            \E rec \in Record : pending[c] = {rec} /\ rec.key \notin DOMAIN recorded[c]

\* However often a client is asked, and whatever other recorders append to the file meanwhile,
\* the same request always gets the answer it got first; and a replay's answers and misses are
\* those of the file as it was when the replay began.
ReplayReadsItsOpening ==
  \A c \in Clients : mode[c] = "replay" =>
    /\ \A a \in answered[c] : a[2] = ReadCassette(openedAt[c])[a[1]]
    /\ missed[c] \cap DOMAIN ReadCassette(openedAt[c]) = {}

OneAnswerPerClient ==
  /\ \A c \in Clients : \A a, b \in answered[c] : a[1] = b[1] => a[2] = b[2]
  /\ ReplayReadsItsOpening

\* Recorders that follow one another, killed or not, give each request one answer for good, and
\* every later replay gives it too (client.py:3-5 "a cache hit returns the recorded output
\* byte-for-byte").  Recorders that overlap lose this: both miss, both append, the last line wins.
OneAnswerForAll ==
  ~overlapped => \A c, d \in Clients : \A a \in answered[c], b \in answered[d] :
                   a[1] = b[1] => a[2] = b[2]

\* All three: a request has one answer, for a client, for its successors and for every replay.
OneAnswer == OneAnswerPerClient /\ OneAnswerForAll

\* What was ever answered is in the file, even when the recorder died right after, so that the
\* run that received the answer can be replayed.
AnswersAreOnDisk ==
  \A c \in Clients : \A a \in answered[c] :
    [key |-> a[1], output |-> a[2]] \in Lines(disk)
=============================================================================
