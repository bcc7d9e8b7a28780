---------------------------- MODULE CassetteProofs ----------------------------
(***************************************************************************)
(* What a cassette promises for any clients, requests and outputs: every   *)
(* answer is on disk, a client never changes an answer, and recorders that *)
(* follow one another, killed or not, agree for good.                      *)
(***************************************************************************)
EXTENDS Cassette, TLAPS, WellFoundedInduction

(* What a client remembers, and what it is about to answer, is on disk.    *)
OnDisk ==
  \A c \in Clients :
    /\ \A k \in DOMAIN recorded[c] : [key |-> k, output |-> recorded[c][k]] \in Lines(disk)
    /\ status[c] = "returning" => pending[c] \subseteq Lines(disk)

(* What a client answered it still remembers.                              *)
Remembered ==
  \A c \in Clients : \A a \in answered[c] :
    /\ a[1] \in DOMAIN recorded[c]
    /\ a[2] = recorded[c][a[1]]

(* A replay remembers what it opened, and never gets to write.             *)
Replaying(c) ==
  \/ status[c] = "off" /\ answered[c] = {} /\ missed[c] = {}
  \/ /\ status[c] \in {"idle", "dead"}
     /\ recorded[c] = ReadCassette(openedAt[c])
     /\ missed[c] \cap DOMAIN recorded[c] = {}

Replays == \A c \in Clients : /\ mode[c] = "replay" => Replaying(c)
                              /\ status[c] = "off" => mode[c] = "replay"

(* While recorders do not overlap, the one there is knows every request of *)
(* the file but the one it has just written, so no request has two lines.  *)
Recording(c) == Alive(c) /\ mode[c] = "record"

Knows(c) ==
  \A line \in Lines(disk) :
    \/ line.key \in DOMAIN recorded[c]
    \/ status[c] = "returning" /\ line \in pending[c]

Agreement ==
  ~overlapped =>
    /\ \A c, d \in Clients : Recording(c) /\ Recording(d) => c = d
    /\ \A l1, l2 \in Lines(disk) : l1.key = l2.key => l1.output = l2.output
    /\ \A c \in Clients : Recording(c) => Knows(c)

IInv == TypeOK /\ OnDisk /\ AnswersAreOnDisk /\ Remembered /\ Replays /\ Agreement

-----------------------------------------------------------------------------
(* The cassette file.                                                      *)

LEMMA LastLine ==
  ASSUME NEW file \in Seq(Record), NEW i \in DOMAIN file
  PROVE  /\ LastOf(file, file[i].key) \in DOMAIN file
         /\ file[LastOf(file, file[i].key)].key = file[i].key
<1> DEFINE key == file[i].key
           T == {n \in Nat : n < Len(file) /\ file[Len(file) - n].key = key}
<1>1. i \in 1..Len(file) /\ DOMAIN file = 1..Len(file) /\ Len(file) \in Nat
  OBVIOUS
<1>2. Len(file) - i \in T
  BY <1>1
<1> HIDE DEF T
<1>3. T \subseteq Nat
  BY DEF T
<1>4. PICK n \in T : \A m \in T : ~ (<<m, n>> \in OpToRel(<, Nat))
  BY <1>2, <1>3, WFMin, NatLessThanWellFounded, Zenon
<1>5. \A m \in T : n <= m
  <2> SUFFICES ASSUME NEW m \in T, m < n PROVE FALSE
    BY <1>3
  <2>1. <<m, n>> \in Nat \X Nat /\ <<m, n>>[1] < <<m, n>>[2]
    BY <1>3
  <2>2. <<m, n>> \in OpToRel(<, Nat)
    BY <2>1, Zenon DEF OpToRel
  <2> QED  BY <1>4, <2>2
<1>6. /\ Len(file) - n \in DOMAIN file
      /\ file[Len(file) - n].key = key
  BY <1>1 DEF T
<1>7. ASSUME NEW j \in DOMAIN file, file[j].key = key
      PROVE  j <= Len(file) - n
  <2>1. Len(file) - j \in T
    BY <1>1, <1>7 DEF T
  <2> QED  BY <1>1, <1>3, <1>5, <2>1
<1>8. \E l \in DOMAIN file : file[l].key = key /\ \A j \in DOMAIN file : file[j].key = key => j <= l
  BY <1>6, <1>7
<1> QED  BY <1>8 DEF LastOf

LEMMA Reading ==
  ASSUME NEW file \in Seq(Record)
  PROVE  /\ DOMAIN ReadCassette(file) = {line.key : line \in Lines(file)}
         /\ DOMAIN ReadCassette(file) \subseteq Keys
         /\ ReadCassette(file) \in [DOMAIN ReadCassette(file) -> Outputs]
         /\ \A k \in DOMAIN ReadCassette(file) :
              [key |-> k, output |-> ReadCassette(file)[k]] \in Lines(file)
<1>1. DOMAIN ReadCassette(file) = {line.key : line \in Lines(file)}
  BY DEF ReadCassette
<1>2. Lines(file) \subseteq Record
  BY DEF Lines
<1>3. ASSUME NEW k \in DOMAIN ReadCassette(file)
      PROVE  /\ k \in Keys
             /\ ReadCassette(file)[k] \in Outputs
             /\ [key |-> k, output |-> ReadCassette(file)[k]] \in Lines(file)
  <2>1. PICK i \in DOMAIN file : k = file[i].key
    BY <1>1 DEF Lines
  <2>2. LastOf(file, k) \in DOMAIN file /\ file[LastOf(file, k)].key = k
    BY <2>1, LastLine
  <2>3. ReadCassette(file)[k] = file[LastOf(file, k)].output
    BY <1>1 DEF ReadCassette
  <2>4. file[LastOf(file, k)] \in Record
    BY <2>2
  <2>5. file[LastOf(file, k)] = [key |-> k, output |-> ReadCassette(file)[k]]
    BY <2>2, <2>3, <2>4 DEF Record
  <2> QED  BY <2>2, <2>4, <2>5 DEF Lines, Record
<1>4. ReadCassette(file) = [k \in DOMAIN ReadCassette(file) |-> ReadCassette(file)[k]]
  BY <1>1 DEF ReadCassette
<1> QED  BY <1>1, <1>3, <1>4

LEMMA Appending ==
  ASSUME NEW file \in Seq(Record), NEW rec \in Record
  PROVE  /\ Append(file, rec) \in Seq(Record)
         /\ Lines(Append(file, rec)) = Lines(file) \cup {rec}
<1>1. DOMAIN Append(file, rec) = 1..(Len(file) + 1) /\ DOMAIN file = 1..Len(file)
  OBVIOUS
<1>2. /\ Append(file, rec)[Len(file) + 1] = rec
      /\ \A i \in 1..Len(file) : Append(file, rec)[i] = file[i]
  OBVIOUS
<1>3. Lines(file) \cup {rec} \subseteq Lines(Append(file, rec))
  BY <1>1, <1>2 DEF Lines
<1>4. ASSUME NEW i \in 1..(Len(file) + 1)
      PROVE  Append(file, rec)[i] \in Lines(file) \cup {rec}
  <2>1. i \in 1..Len(file) \/ i = Len(file) + 1
    OBVIOUS
  <2> QED  BY <1>1, <1>2, <2>1 DEF Lines
<1> QED  BY <1>1, <1>3, <1>4 DEF Lines

-----------------------------------------------------------------------------
(* The types, for every step.                                              *)
LEMMA TypeInit == Init => TypeOK
<1> SUFFICES ASSUME Init PROVE TypeOK
  OBVIOUS
<1>1. DOMAIN Nothing = {} /\ Nothing \in [{} -> Outputs]
  BY DEF Nothing
<1>2. <<>> \in Seq(Record)
  OBVIOUS
<1> QED  BY <1>1, <1>2 DEF Init, TypeOK

LEMMA TypeStep == ASSUME TypeOK, [Next]_vars PROVE TypeOK'
<1> USE DEF TypeOK, fileVars, historyVars
<1>1. ASSUME NEW c \in Clients, NEW m \in {"replay", "record"}, Open(c, m)
      PROVE  TypeOK'
  BY <1>1, Reading DEF Open
<1>2. ASSUME NEW c \in Clients, NEW key \in Keys, Hit(c, key)
      PROVE  TypeOK'
  <2>1. <<key, recorded[c][key]>> \in Keys \X Outputs
    BY <1>2 DEF Hit
  <2> QED  BY <1>2, <2>1 DEF Hit, Answer
<1>3. ASSUME NEW c \in Clients, NEW key \in Keys, Miss(c, key)
      PROVE  TypeOK'
  BY <1>3 DEF Miss
<1>4. ASSUME NEW c \in Clients, NEW key \in Keys, CallModel(c, key)
      PROVE  TypeOK'
  <2>1. PICK output \in Outputs :
          pending' = [pending EXCEPT ![c] = {[key |-> key, output |-> output]}]
    BY <1>4 DEF CallModel
  <2>2. [key |-> key, output |-> output] \in Record
    BY DEF Record
  <2>3. pending' \in [Clients -> SUBSET Record]
    BY <2>1, <2>2
  <2>4. pending'[c] = {[key |-> key, output |-> output]}
        /\ [key |-> key, output |-> output].key \notin DOMAIN recorded[c]
    BY <1>4, <2>1 DEF CallModel
  <2>5. \A d \in Clients : d # c => pending'[d] = pending[d] /\ status'[d] = status[d]
    BY <1>4, <2>1 DEF CallModel
  <2>6. /\ recorded' = recorded
        /\ status' \in [Clients -> {"off", "idle", "calling", "writing", "returning", "dead"}]
    BY <1>4 DEF CallModel
  <2>7. \A d \in Clients : status'[d] \in {"calling", "writing", "returning"} =>
          \E rec \in Record : pending'[d] = {rec} /\ rec.key \notin DOMAIN recorded'[d]
    BY <2>2, <2>4, <2>5, <2>6
  <2> QED  BY <1>4, <2>3, <2>6, <2>7 DEF CallModel
<1>5. ASSUME NEW c \in Clients, ModelFails(c) \/ ModelAnswers(c) \/ End(c)
      PROVE  TypeOK'
  <2>1. CASE ModelFails(c)
    BY <2>1 DEF ModelFails
  <2>2. CASE ModelAnswers(c)
    BY <2>2 DEF ModelAnswers
  <2>3. CASE End(c)
    BY <2>3 DEF End, Alive
  <2> QED  BY <1>5, <2>1, <2>2, <2>3
<1>6. ASSUME NEW c \in Clients, AppendLine(c)
      PROVE  TypeOK'
  <2>1. disk' \in Seq(Record)
    BY <1>6 DEF AppendLine
  <2> QED  BY <1>6, <2>1 DEF AppendLine
<1>7. ASSUME NEW c \in Clients, Remember(c)
      PROVE  TypeOK'
  <2>1. PICK rec \in pending[c] :
          /\ recorded' = [recorded EXCEPT ![c] = Put(@, rec)]
          /\ Answer(c, rec.key, rec.output)
    BY <1>7 DEF Remember
  <2>2. rec.key \in Keys /\ rec.output \in Outputs
    BY DEF Record
  <2>3. answered' \in [Clients -> SUBSET (Keys \X Outputs)]
    BY <2>1, <2>2 DEF Answer
  <2>4. /\ DOMAIN recorded'[c] \subseteq Keys
        /\ recorded'[c] \in [DOMAIN recorded'[c] -> Outputs]
    BY <2>1, <2>2 DEF Put
  <2>5. \A d \in Clients : d # c => recorded'[d] = recorded[d]
    BY <2>1
  <2> QED  BY <1>7, <2>1, <2>3, <2>4, <2>5 DEF Remember
<1>8. CASE UNCHANGED vars
  BY <1>8 DEF vars
<1> QED  BY <1>1, <1>2, <1>3, <1>4, <1>5, <1>6, <1>7, <1>8 DEF Next

(* Types: of the file, of what a client remembers and of what it answers,  *)
(* and that the model is never asked for what is recorded.                 *)
THEOREM TypeCorrect == Spec => []TypeOK
<1> QED  BY TypeInit, TypeStep, PTL DEF Spec

-----------------------------------------------------------------------------
(* What is answered is remembered and on disk.                             *)
Kept == OnDisk /\ AnswersAreOnDisk /\ Remembered

LEMMA KeptStep ==
  ASSUME TypeOK, Kept, Replays, [Next]_vars
  PROVE  Kept'
<1> USE DEF Kept, OnDisk, AnswersAreOnDisk, Remembered, fileVars, historyVars
<1> USE DEF TypeOK
<1>1. ASSUME NEW c \in Clients, NEW m \in {"replay", "record"}, Open(c, m)
      PROVE  Kept'
  <2>1. answered[c] = {} /\ status'[c] = "idle" /\ recorded'[c] = ReadCassette(disk)
    BY <1>1 DEF Open, Replays, Replaying
  <2>2. \A d \in Clients : d # c => recorded'[d] = recorded[d] /\ status'[d] = status[d]
    BY <1>1 DEF Open
  <2>3. disk' = disk /\ answered' = answered /\ pending' = pending
    BY <1>1 DEF Open
  <2>4. \A k \in DOMAIN recorded'[c] : [key |-> k, output |-> recorded'[c][k]] \in Lines(disk)
    BY <2>1, Reading
  <2>5. OnDisk'
    BY <2>1, <2>2, <2>3, <2>4
  <2>6. AnswersAreOnDisk'
    BY <2>3
  <2>7. Remembered'
    BY <2>1, <2>2, <2>3
  <2> QED  BY <2>5, <2>6, <2>7
<1>2. ASSUME NEW c \in Clients, NEW key \in Keys, Hit(c, key)
      PROVE  Kept'
  <2>1. \A d \in Clients : \A a \in answered'[d] :
          a \in answered[d] \/ (d = c /\ a = <<key, recorded[c][key]>>)
    BY <1>2 DEF Hit, Answer
  <2>2. [key |-> key, output |-> recorded[c][key]] \in Lines(disk)
    BY <1>2 DEF Hit
  <2> QED  BY <1>2, <2>1, <2>2 DEF Hit
<1>3. ASSUME NEW c \in Clients, NEW key \in Keys, Miss(c, key) \/ CallModel(c, key)
      PROVE  Kept'
  <2>1. CASE Miss(c, key)
    BY <2>1 DEF Miss
  <2>2. CASE CallModel(c, key)
    BY <2>2 DEF CallModel
  <2> QED  BY <1>3, <2>1, <2>2
<1>4. ASSUME NEW c \in Clients, ModelFails(c) \/ ModelAnswers(c) \/ End(c)
      PROVE  Kept'
  <2>1. CASE ModelFails(c)
    BY <2>1 DEF ModelFails
  <2>2. CASE ModelAnswers(c)
    BY <2>2 DEF ModelAnswers
  <2>3. CASE End(c)
    BY <2>3 DEF End
  <2> QED  BY <1>4, <2>1, <2>2, <2>3
<1>5. ASSUME NEW c \in Clients, AppendLine(c)
      PROVE  Kept'
  <2>1. PICK rec \in Record : pending[c] = {rec} /\ disk' = Append(disk, rec)
    BY <1>5 DEF AppendLine
  <2>2. Lines(disk') = Lines(disk) \cup {rec}
    BY <2>1, Appending
  <2> HIDE DEF Lines
  <2> QED  BY <1>5, <2>1, <2>2 DEF AppendLine
<1>6. ASSUME NEW c \in Clients, Remember(c)
      PROVE  Kept'
  <2>0. PICK rec \in Record : pending[c] = {rec} /\ rec.key \notin DOMAIN recorded[c]
    BY <1>6 DEF Remember
  <2>1. /\ pending[c] = {rec} /\ rec.key \notin DOMAIN recorded[c]
        /\ recorded' = [recorded EXCEPT ![c] = Put(@, rec)]
        /\ Answer(c, rec.key, rec.output)
    BY <1>6, <2>0 DEF Remember
  <2>2. rec \in Lines(disk) /\ rec = [key |-> rec.key, output |-> rec.output]
    BY <1>6, <2>1 DEF Remember, Record
  <2>3. /\ DOMAIN recorded'[c] = DOMAIN recorded[c] \cup {rec.key}
        /\ recorded'[c][rec.key] = rec.output
        /\ \A k \in DOMAIN recorded[c] : recorded'[c][k] = recorded[c][k]
    BY <2>1 DEF Put
  <2>4. \A d \in Clients : d # c => recorded'[d] = recorded[d]
    BY <2>1
  <2>5. \A d \in Clients : \A a \in answered'[d] :
          a \in answered[d] \/ (d = c /\ a = <<rec.key, rec.output>>)
    BY <2>1 DEF Answer
  <2>6. /\ disk' = disk
        /\ \A d \in Clients : status'[d] = "returning" =>
             status[d] = "returning" /\ pending'[d] = pending[d]
    BY <1>6 DEF Remember
  <2>7. OnDisk'
    <3>1. ASSUME NEW d \in Clients, NEW k \in DOMAIN recorded'[d]
          PROVE  [key |-> k, output |-> recorded'[d][k]] \in Lines(disk)
      <4>1. CASE d = c /\ k = rec.key
        BY <2>2, <2>3, <4>1
      <4>2. CASE d = c /\ k \in DOMAIN recorded[c]
        BY <2>3, <4>2
      <4>3. CASE d # c
        BY <2>4, <4>3
      <4> QED  BY <2>3, <3>1, <4>1, <4>2, <4>3
    <3>2. \A d \in Clients : status'[d] = "returning" => pending'[d] \subseteq Lines(disk)
      BY <2>6
    <3> QED  BY <2>6, <3>1, <3>2
  <2>8. ASSUME NEW d \in Clients, NEW a \in answered'[d]
        PROVE  /\ [key |-> a[1], output |-> a[2]] \in Lines(disk')
               /\ a[1] \in DOMAIN recorded'[d]
               /\ a[2] = recorded'[d][a[1]]
    <3>1. CASE a \in answered[d]
      <4>1. /\ [key |-> a[1], output |-> a[2]] \in Lines(disk)
            /\ a[1] \in DOMAIN recorded[d]
            /\ a[2] = recorded[d][a[1]]
        BY <3>1
      <4>2. CASE d = c
        BY <2>3, <2>6, <4>1, <4>2
      <4>3. CASE d # c
        BY <2>4, <2>6, <4>1, <4>3
      <4> QED  BY <4>2, <4>3
    <3>2. CASE d = c /\ a = <<rec.key, rec.output>>
      BY <2>2, <2>3, <2>6, <3>2
    <3> QED  BY <2>5, <2>8, <3>1, <3>2
  <2>9. AnswersAreOnDisk'
    BY <2>8, Zenon
  <2> HIDE DEF TypeOK, OnDisk, AnswersAreOnDisk, Kept
  <2>10. Remembered'
    BY <2>8
  <2> QED  BY <2>7, <2>9, <2>10 DEF Kept
<1>7. CASE UNCHANGED vars
  BY <1>7 DEF vars
<1> QED  BY <1>1, <1>2, <1>3, <1>4, <1>5, <1>6, <1>7 DEF Next

(* A replay reads nothing but the file it opened.                          *)
LEMMA ReplayStep ==
  ASSUME TypeOK, Replays, [Next]_vars
  PROVE  Replays'
<1> USE DEF TypeOK, Replays, Replaying, fileVars, historyVars
<1>1. ASSUME NEW c \in Clients, NEW m \in {"replay", "record"}, Open(c, m)
      PROVE  Replays'
  BY <1>1 DEF Open
<1>2. ASSUME NEW c \in Clients, NEW key \in Keys, Hit(c, key) \/ Miss(c, key) \/ CallModel(c, key)
      PROVE  Replays'
  <2>1. CASE Hit(c, key)
    BY <2>1 DEF Hit, Answer
  <2>2. CASE Miss(c, key)
    BY <2>2 DEF Miss
  <2>3. CASE CallModel(c, key)
    BY <2>3 DEF CallModel
  <2> QED  BY <1>2, <2>1, <2>2, <2>3
<1>3. ASSUME NEW c \in Clients, ModelFails(c) \/ ModelAnswers(c) \/ AppendLine(c)
      PROVE  Replays'
  <2>1. CASE ModelFails(c)
    BY <2>1 DEF ModelFails
  <2>2. CASE ModelAnswers(c)
    BY <2>2 DEF ModelAnswers
  <2>3. CASE AppendLine(c)
    BY <2>3 DEF AppendLine
  <2> QED  BY <1>3, <2>1, <2>2, <2>3
<1>4. ASSUME NEW c \in Clients, Remember(c)
      PROVE  Replays'
  <2>1. mode[c] = "record" /\ status'[c] = "idle"
    BY <1>4 DEF Remember
  <2>2. mode' = mode /\ missed' = missed /\ openedAt' = openedAt
        /\ \A d \in Clients : d # c =>
             status'[d] = status[d] /\ recorded'[d] = recorded[d] /\ answered'[d] = answered[d]
    BY <1>4 DEF Remember, Answer
  <2> QED  BY <2>1, <2>2
<1>5. ASSUME NEW c \in Clients, End(c)
      PROVE  Replays'
  BY <1>5 DEF End, Alive
<1>6. CASE UNCHANGED vars
  BY <1>6 DEF vars
<1> QED  BY <1>1, <1>2, <1>3, <1>4, <1>5, <1>6 DEF Next

(* Recorders that follow one another write each request once.              *)
LEMMA AgreementStep ==
  ASSUME TypeOK, Replays, Agreement, [Next]_vars
  PROVE  Agreement'
<1> USE DEF TypeOK, Agreement, Recording, Alive, Knows, fileVars, historyVars
<1>1. ASSUME NEW c \in Clients, NEW m \in {"replay", "record"}, Open(c, m)
      PROVE  Agreement'
  <2> SUFFICES ASSUME ~overlapped'
               PROVE  Agreement'
    OBVIOUS
  <2>1. /\ ~overlapped /\ disk' = disk
        /\ m = "record" => ~ \E d \in Clients : Recording(d)
    BY <1>1 DEF Open
  <2>2. \A d \in Clients : d # c => (Recording(d)' <=> Recording(d)) /\ (Knows(d)' <=> Knows(d))
    BY <1>1 DEF Open
  <2>3. Recording(c)' <=> m = "record"
    BY <1>1 DEF Open
  <2>4. Knows(c)'
    <3>1. disk' = disk /\ recorded'[c] = ReadCassette(disk)
      BY <1>1 DEF Open
    <3>2. DOMAIN ReadCassette(disk) = {line.key : line \in Lines(disk)}
      BY Reading
    <3>3. \A line \in Lines(disk) : line.key \in DOMAIN ReadCassette(disk)
      BY <3>2
    <3> QED  BY <3>1, <3>3
  <2>5. ~Recording(c)
    BY <1>1 DEF Open
  <2> HIDE DEF Recording, Knows
  <2>6. \A d, e \in Clients : Recording(d)' /\ Recording(e)' => d = e
    BY <2>1, <2>2, <2>3
  <2>7. \A d \in Clients : Recording(d)' => Knows(d)'
    BY <2>1, <2>2, <2>4
  <2> QED  BY <2>1, <2>6, <2>7
<1>2. ASSUME NEW c \in Clients, NEW key \in Keys, Hit(c, key) \/ Miss(c, key) \/ CallModel(c, key)
      PROVE  Agreement'
  <2>1. CASE Hit(c, key)
    BY <2>1 DEF Hit
  <2>2. CASE Miss(c, key)
    BY <2>2 DEF Miss
  <2>3. CASE CallModel(c, key)
    BY <2>3 DEF CallModel
  <2> QED  BY <1>2, <2>1, <2>2, <2>3
<1>3. ASSUME NEW c \in Clients, ModelFails(c) \/ ModelAnswers(c) \/ End(c)
      PROVE  Agreement'
  <2>1. CASE ModelFails(c)
    BY <2>1 DEF ModelFails
  <2>2. CASE ModelAnswers(c)
    BY <2>2 DEF ModelAnswers
  <2>3. CASE End(c)
    BY <2>3 DEF End
  <2> QED  BY <1>3, <2>1, <2>2, <2>3
<1>4. ASSUME NEW c \in Clients, AppendLine(c), ~overlapped
      PROVE  Agreement'
  <2>1. PICK rec \in Record :
          /\ pending[c] = {rec} /\ rec.key \notin DOMAIN recorded[c]
          /\ disk' = Append(disk, rec)
    BY <1>4 DEF AppendLine
  <2>2. Lines(disk') = Lines(disk) \cup {rec}
    BY <2>1, Appending
  <2>3. /\ Recording(c)
        /\ mode' = mode /\ recorded' = recorded /\ pending' = pending
        /\ overlapped' = overlapped
        /\ status' = [status EXCEPT ![c] = "returning"]
    BY <1>4 DEF AppendLine, Replays, Replaying
  <2>4. \A line \in Lines(disk) : line.key \in DOMAIN recorded[c]
    BY <1>4, <2>3 DEF AppendLine
  <2>5. \A l1, l2 \in Lines(disk') : l1.key = l2.key => l1.output = l2.output
    BY <1>4, <2>1, <2>2, <2>4
  <2>6. \A d \in Clients : Recording(d)' <=> Recording(d)
    BY <2>3
  <2>7. Knows(c)'
    BY <2>1, <2>2, <2>3, <2>4
  <2>8. \A d \in Clients : Recording(d) => d = c
    BY <1>4, <2>3
  <2> QED  BY <2>5, <2>6, <2>7, <2>8
<1>5. ASSUME NEW c \in Clients, Remember(c), ~overlapped
      PROVE  Agreement'
  <2>0. PICK rec \in Record : pending[c] = {rec}
    BY <1>5 DEF Remember
  <2>1. pending[c] = {rec} /\ recorded' = [recorded EXCEPT ![c] = Put(@, rec)]
    BY <1>5, <2>0 DEF Remember
  <2>2. /\ DOMAIN recorded'[c] = DOMAIN recorded[c] \cup {rec.key}
        /\ \A d \in Clients : d # c => recorded'[d] = recorded[d]
    BY <2>1 DEF Put
  <2>3. disk' = disk /\ mode' = mode /\ overlapped' = overlapped /\ status[c] = "returning"
        /\ status' = [status EXCEPT ![c] = "idle"] /\ pending' = [pending EXCEPT ![c] = {}]
    BY <1>5 DEF Remember
  <2>4. \A d \in Clients : Recording(d)' <=> Recording(d)
    BY <2>3
  <2>5. \A d \in Clients : Knows(d) => Knows(d)'
    BY <2>1, <2>2, <2>3
  <2> QED  BY <1>5, <2>3, <2>4, <2>5
<1>6. ASSUME NEW c \in Clients, overlapped, AppendLine(c) \/ Remember(c)
      PROVE  Agreement'
  BY <1>6 DEF AppendLine, Remember
<1>7. CASE UNCHANGED vars
  BY <1>7 DEF vars
<1> QED  BY <1>1, <1>2, <1>3, <1>4, <1>5, <1>6, <1>7 DEF Next

-----------------------------------------------------------------------------
LEMMA InitHolds == Init => IInv
<1> SUFFICES ASSUME Init PROVE IInv
  OBVIOUS
<1>1. TypeOK
  BY TypeInit
<1>2. DOMAIN Nothing = {} /\ Lines(disk) = {}
  BY DEF Nothing, Lines, Init
<1>3. OnDisk /\ AnswersAreOnDisk /\ Remembered
  BY <1>2 DEF Init, OnDisk, AnswersAreOnDisk, Remembered
<1>4. Replays /\ Agreement
  BY <1>2 DEF Init, Replays, Replaying, Agreement, Recording, Alive
<1> QED  BY <1>1, <1>3, <1>4 DEF IInv

LEMMA StepHolds == ASSUME IInv, [Next]_vars PROVE IInv'
BY TypeStep, KeptStep, ReplayStep, AgreementStep DEF IInv, Kept

THEOREM Inductive == Spec => []IInv
BY InitHolds, StepHolds, PTL DEF Spec

(* The same request has one answer: for a client however often it asks,    *)
(* for every recorder that follows another, and for every replay.          *)
THEOREM OneAnswerHolds == Spec => []OneAnswer
<1>1. ASSUME IInv
      PROVE  OneAnswerPerClient
  BY <1>1, Reading DEF IInv, Remembered, Replays, Replaying, OneAnswerPerClient, ReplayReadsItsOpening
<1>2. ASSUME IInv
      PROVE  OneAnswerForAll
  BY <1>2 DEF IInv, Agreement, AnswersAreOnDisk, OneAnswerForAll
<1> QED  BY Inductive, <1>1, <1>2, PTL DEF OneAnswer

(* Every answer a client was ever given is in the cassette file.           *)
THEOREM AnswersOnDisk == Spec => []AnswersAreOnDisk
<1>1. IInv => AnswersAreOnDisk
  BY DEF IInv
<1> QED  BY Inductive, <1>1, PTL
=============================================================================
