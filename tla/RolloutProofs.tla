---------------------------- MODULE RolloutProofs ----------------------------
(***************************************************************************)
(* What a written run is, for any number of rollouts, turns and restarts,  *)
(* any answers of the model and any order of timeouts, requests and        *)
(* threads: it was graded, once, and it is the whole of its own episode.   *)
(***************************************************************************)
EXTENDS Rollout, FiniteSetTheorems, TLAPS

(* The types of the messages.                                              *)
AllCalls == [verb : {"wait", "edit", "bad", "finish"}, d : Nat]

Requests == [kind : {"reset"}, from : Nat, deadline : Deadlines] \cup
            [kind : {"step"}, from : Nat, call : AllCalls] \cup
            [kind : {"trajectory"}, from : Nat]

Logs == [opening : Nat, episode : Nat, events : Nat]
Replies == {Waiting, Failed} \cup [status : {"ok"}, body : Result \cup Logs]

Types ==
  /\ TypeOK
  /\ inbox \in Seq(Requests) /\ reply \in Replies
  /\ rollouts \in Nat /\ restarts \in Nat

(* A reset is newer than the world it replaces, and resets come in order;  *)
(* between its two steps it is still the request at the head, and nothing  *)
(* happened in the new world.                                              *)
Resets ==
  /\ \A i \in DOMAIN inbox : inbox[i].kind = "reset" => inbox[i].from > opening
  /\ \A i, j \in DOMAIN inbox :
       i < j /\ inbox[i].kind = "reset" /\ inbox[j].kind = "reset" =>
         inbox[i].from < inbox[j].from
  /\ opening # episode => /\ inbox # << >>
                          /\ Request.kind = "reset" /\ Request.from = episode
                          /\ steps = 0 /\ events = 0 /\ ~scored

(* The reward has been paid if and only if the clock is past the end.      *)
PaidAtTheEnd == scored <=> Done(now)

(* The running rollout's request is the last in the inbox, or with one     *)
(* thread, and then its client is still waiting for it.                    *)
Fits(p, kind) == \/ p = "resetting" /\ kind = "reset"
                 \/ p \in {"awaiting", "crossing"} /\ kind = "step"
                 \/ p = "fetching" /\ kind = "trajectory"

Ours(m) == m.from = rollouts

Asked ==
  phase # "idle" =>
    /\ rollouts > 0
    /\ \A i \in DOMAIN inbox : Ours(inbox[i]) =>
         /\ i = Len(inbox) /\ reply = Waiting
         /\ Fits(phase, inbox[i].kind)
         /\ phase = "crossing" => /\ inbox[i].call.verb = "wait"
                                  /\ inbox[i].call.d >= Horizon
         /\ \A r \in readers : ~Ours(r)
    /\ \A r \in readers : Ours(r) =>
         /\ reply = Waiting /\ phase = "fetching"
         /\ \A q \in readers : Ours(q) => q = r

(* From the answer to its reset on, the rollout is alone with the server,  *)
(* which is in its episode or has been restarted.                          *)
InSession == phase # "idle" /\ (phase = "resetting" => Answered)

Alone ==
  InSession => /\ \A i \in DOMAIN inbox : Ours(inbox[i])
               /\ opening = episode
               /\ episode \in {0, rollouts}
               /\ episode = 0 => restarts > 0

(* The steps of the rollout that the server has taken: the rows, and the   *)
(* one whose answer is yet to be read.                                     *)
RowOf(t, body) == [turn |-> t, done |-> body.done, reward |-> body.reward]

Trace ==
  IF phase = "awaiting" /\ Answered THEN Append(rows, RowOf(turn, reply.body))
  ELSE IF phase = "crossing" /\ Answered THEN Append(rows, RowOf(turn + 1, reply.body))
  ELSE rows

(* One of them is paid as soon as one is done, which is never undone, and  *)
(* the loop does not outlive the turn that saw it.                         *)
Ledger(t) ==
  /\ \A i, j \in Paid(t) : i = j
  /\ \A i \in Paid(t) : t[i].done
  /\ \A i \in DOMAIN t : t[i].done => Paid(t) # {}
  /\ \A i, j \in DOMAIN t : i < j /\ t[i].done => t[j].done /\ t[j].turn = t[i].turn

NotDone(t) == \A i \in DOMAIN t : ~t[i].done

Turns ==
  /\ phase \in {"resetting", "thinking"} => NotDone(rows)
  /\ phase \in {"acting", "awaiting"} =>
       \A i \in DOMAIN Trace : Trace[i].done => Trace[i].turn = turn
  /\ phase = "crossing" => NotDone(rows) /\ (Answered => reply.body.done)
  /\ phase \in {"closed", "fetching"} => Paid(rows) # {}

LastSeen ==
  IF rows = << >> THEN final = [done |-> FALSE, reward |-> "none"]
  ELSE LET last == rows[Len(rows)] IN final = [done |-> last.done, reward |-> last.reward]

(* The steps the server counts are those, and it has paid if one is paid.  *)
Counted == InSession /\ episode = rollouts =>
             /\ steps = Len(Trace)
             /\ scored <=> Paid(Trace) # {}

Seen ==
  phase # "idle" =>
    /\ phase \in {"resetting", "awaiting", "crossing"} /\ Answered => reply.body \in Result
    /\ Ledger(Trace)
    /\ Turns
    /\ LastSeen
    /\ phase = "resetting" => /\ rows = << >>
                              /\ Answered => reply.body = [done |-> FALSE, reward |-> "none"]
    /\ Counted

(* What a thread, and then the client, has got of a server that is not     *)
(* restarted is the rollout's own.                                         *)
Fetched ==
  phase = "fetching" =>
    /\ \A r \in readers : Ours(r) /\ r.read /\ restarts = 0 => r.opening = rollouts
    /\ Answered => /\ reply.body \in Logs
                   /\ restarts = 0 => reply.body = [opening |-> rollouts,
                                        episode |-> rollouts, events |-> events]

(* Nothing happens after a run is written until the next rollout.          *)
Written ==
  disk.written => /\ phase = "idle" /\ rollouts > 0
                  /\ inbox = << >> /\ opening = episode
                  /\ RunsAreGraded /\ RowsAreTheSteps

IInv == /\ Types
        /\ Resets
        /\ PaidAtTheEnd
        /\ Asked
        /\ Alone
        /\ Seen
        /\ Fetched
        /\ Written

-----------------------------------------------------------------------------
(* Sequences, as the inbox and the rows use them.                          *)
LEMMA TailFacts ==
  ASSUME NEW S, NEW s \in Seq(S), s # << >>
  PROVE  /\ Head(s) = s[1] /\ Head(s) \in S /\ 1 \in DOMAIN s
         /\ Tail(s) \in Seq(S) /\ Len(Tail(s)) = Len(s) - 1
         /\ \A i \in DOMAIN Tail(s) : i + 1 \in DOMAIN s /\ Tail(s)[i] = s[i + 1]
  OBVIOUS

LEMMA AppendFacts ==
  ASSUME NEW S, NEW s \in Seq(S), NEW e \in S
  PROVE  /\ Append(s, e) \in Seq(S) /\ Len(Append(s, e)) = Len(s) + 1
         /\ DOMAIN Append(s, e) = DOMAIN s \cup {Len(s) + 1}
         /\ Append(s, e)[Len(s) + 1] = e
         /\ \A i \in DOMAIN s : Append(s, e)[i] = s[i]
         /\ Append(s, e) # << >>
  OBVIOUS

(* The calls of an answer, and the wait that closes an episode.            *)
LEMMA CallFacts ==
  /\ Calls \subseteq AllCalls
  /\ Responses \subseteq Seq(Calls)
  /\ Deadlines \subseteq Nat
<1>1. Calls \subseteq AllCalls
  BY RolloutAssumption DEF Calls, Call, AllCalls
<1>2. ASSUME NEW r \in Responses PROVE r \in Seq(Calls)
  <2>1. PICK m \in 0 .. MaxCalls : r \in [1 .. m -> Calls]
    BY <1>2 DEF Responses, SeqOf
  <2> QED BY <2>1, RolloutAssumption
<1> QED BY <1>1, <1>2, RolloutAssumption

LEMMA CloseFacts ==
  ASSUME Types
  PROVE  /\ CloseBy \in Nat /\ CloseBy >= Horizon
         /\ Call("wait", CloseBy) \in AllCalls
<1>1. deadline \in Nat /\ Horizon \in Nat
  BY CallFacts, RolloutAssumption DEF Types, TypeOK
<1> DEFINE S == {Horizon, deadline}
           m == IF Horizon >= deadline THEN Horizon ELSE deadline
<1>2. m \in S /\ \A y \in S : m >= y
  BY <1>1
<1>3. Max(S) \in S /\ \A y \in S : Max(S) >= y
  <2> HIDE DEF m, S
  <2> QED BY <1>2 DEF Max
<1> QED BY <1>1, <1>3 DEF CloseBy, Call, AllCalls

(* What a request is, by its kind.                                         *)
LEMMA RequestFacts ==
  ASSUME NEW m \in Requests
  PROVE  /\ m.from \in Nat /\ m.kind \in {"reset", "step", "trajectory"}
         /\ m.kind = "reset" => m.deadline \in Deadlines
         /\ m.kind = "step" => m.call \in AllCalls /\ m.call.d \in Nat
  BY DEF Requests, AllCalls

LEMMA ReplyFacts ==
  /\ Waiting \in Replies /\ Failed \in Replies
  /\ \A b \in Result \cup Logs : Ok(b) \in Replies /\ Ok(b).status = "ok" /\ Ok(b).body = b
  /\ Waiting.status # "ok" /\ Failed.status # "ok"
  BY DEF Waiting, Failed, Ok, Replies

(* A reply is for the running rollout or changes nothing.                  *)
LEMMA ReplyTo ==
  ASSUME NEW from, NEW answer \in Replies, reply \in Replies, Reply(from, answer)
  PROVE  /\ reply' \in Replies
         /\ from = rollouts /\ reply = Waiting => reply' = answer
         /\ ~(from = rollouts /\ reply = Waiting) => reply' = reply
  BY DEF Reply

(* Most steps of the loop touch neither the server nor the line.           *)
Local == \/ Opened \/ OutOfTurns \/ Finish \/ Observe \/ TurnEnds
         \/ Crossed \/ Persist \/ Die \/ GiveUp
         \/ \E response \in Responses : Think(response)

Asks == Act \/ Close \/ Fetch \/ \E d \in Deadlines : Start(d)

Serves == \/ HandleReset \/ EndReset \/ HandleNoEpisode \/ HandleRefused
          \/ HandleStep \/ HandleTrajectory

Reads == \E r \in readers : ReadOpening(r) \/ ReadEvents(r)

LEMMA Steps ==
  ASSUME [Next]_vars
  PROVE  Local \/ Asks \/ Serves \/ Reads \/ Restart \/ UNCHANGED vars
  BY DEF Next, Server, Loop, Local, Asks, Serves, Reads

LEMMA LocalFrame ==
  ASSUME Local
  PROVE  UNCHANGED <<envVars, inbox, rollouts, restarts>>
  BY DEF Local, Opened, OutOfTurns, Finish, Observe, TurnEnds, Crossed, Persist,
         Die, GiveUp, Think

LEMMA HeadFacts ==
  ASSUME Types, inbox # << >>
  PROVE  /\ Request \in Requests /\ Request = inbox[1] /\ 1 \in DOMAIN inbox
         /\ Request.from \in 1 .. rollouts
         /\ Tail(inbox) \in Seq(Requests) /\ Len(Tail(inbox)) = Len(inbox) - 1
         /\ \A i \in DOMAIN Tail(inbox) : /\ i + 1 \in DOMAIN inbox
                                          /\ Tail(inbox)[i] = inbox[i + 1]
  BY TailFacts DEF Types, TypeOK, Request

-----------------------------------------------------------------------------
(* Types.                                                                  *)
LEMMA Beginnings ==
  /\ [done |-> FALSE, reward |-> "none"] \in Result
  /\ << >> \in Seq(Calls) /\ << >> \in Seq(Row) /\ << >> \in Seq(Requests)
  /\ 0 \in 0 .. MaxTurns
<1>1. [done |-> FALSE, reward |-> "none"] \in Result
  BY DEF Result, Rewards
<1>2. 0 \in 0 .. MaxTurns
  BY RolloutAssumption
<1> QED BY <1>1, <1>2

LEMMA InitTypes ==
  ASSUME Init
  PROVE  Types
<1>1. /\ inbox \in Seq(Requests) /\ reply \in Replies
      /\ todo \in Seq(Calls) /\ rows \in Seq(Row) /\ final \in Result
  BY Beginnings, ReplyFacts DEF Init
<1>2. /\ \A i \in DOMAIN inbox : inbox[i].from \in 1 .. rollouts
      /\ episode \in 0 .. rollouts /\ opening \in 0 .. rollouts
      /\ readers \subseteq [from : 1 .. rollouts, read : BOOLEAN, opening : 0 .. rollouts]
      /\ turn \in 0 .. MaxTurns
  BY RolloutAssumption DEF Init
<1>3. /\ episode = 0 /\ opening = 0 /\ now = 0 /\ deadline = 0
      /\ scored = FALSE /\ steps = 0 /\ events = 0 /\ finished = FALSE
      /\ rollouts = 0 /\ restarts = 0 /\ phase = "idle"
  BY DEF Init
<1> QED BY <1>1, <1>2, <1>3 DEF Types, TypeOK

LEMMA LocalTypes ==
  ASSUME Types, Seen, Local
  PROVE  Types'
<1>1. UNCHANGED <<episode, opening, now, deadline, scored, steps, events, readers,
                  inbox, rollouts, restarts>>
  BY LocalFrame DEF envVars, serverVars
<1>2. reply' \in Replies
  BY ReplyFacts DEF Types, Local, Opened, OutOfTurns, Finish, Observe, TurnEnds,
     Crossed, Persist, Die, GiveUp, Think
<1>3. turn' \in 0 .. MaxTurns
  BY RolloutAssumption DEF Types, TypeOK, loopVars, Local, Opened, OutOfTurns, Finish, Observe,
     TurnEnds, Crossed, Persist, Die, GiveUp, Think
<1>4. todo' \in Seq(Calls)
  <2>1. CASE Finish \/ Observe
    <3>1. todo # << >> => Tail(todo) \in Seq(Calls)
      BY TailFacts DEF Types, TypeOK
    <3>2. CASE todo # << >>
      BY <2>1, <3>1, <3>2 DEF Finish, Observe
    <3>3. CASE todo = << >>
      BY <2>1, <3>3 DEF Finish, Observe
    <3> QED BY <3>2, <3>3
  <2>2. CASE \E response \in Responses : Think(response)
    BY <2>2, CallFacts DEF Think
  <2>3. CASE Opened \/ OutOfTurns \/ TurnEnds \/ Crossed \/ Persist \/ Die \/ GiveUp
    BY <2>3 DEF Types, TypeOK, loopVars, Opened, OutOfTurns, TurnEnds, Crossed, Persist,
       Die, GiveUp
  <2> QED BY <2>1, <2>2, <2>3 DEF Local
<1>5. finished' \in BOOLEAN
  BY DEF Types, TypeOK, loopVars, Local, Opened, OutOfTurns, Finish, Observe,
     TurnEnds, Crossed, Persist, Die, GiveUp, Think
<1>6. final' \in Result /\ rows' \in Seq(Row)
  <2>1. CASE Opened \/ Observe \/ Crossed
    <3>1. reply.body \in Result
      BY <2>1 DEF Seen, Opened, Observe, Crossed, Answered
    <3>2. RowOf(turn, reply.body) \in Row /\ RowOf(turn + 1, reply.body) \in Row
      BY <3>1, RolloutAssumption DEF Types, TypeOK, RowOf, Row, Result
    <3>3. /\ Append(rows, RowOf(turn, reply.body)) \in Seq(Row)
          /\ Append(rows, RowOf(turn + 1, reply.body)) \in Seq(Row)
      BY <3>2, AppendFacts DEF Types, TypeOK
    <3> QED BY <2>1, <3>1, <3>3 DEF Types, TypeOK, Opened, Observe, Crossed, RowOf
  <2>2. CASE ~(Opened \/ Observe \/ Crossed)
    BY <2>2 DEF Types, TypeOK, loopVars, Local, OutOfTurns, Finish, TurnEnds, Persist,
       Die, GiveUp, Think
  <2> QED BY <2>1, <2>2
<1>7. phase' \in {"idle", "resetting", "thinking", "acting", "awaiting", "closing",
                  "crossing", "closed", "fetching"}
  BY DEF Types, TypeOK, Local, Opened, OutOfTurns, Finish, Observe, TurnEnds,
     Crossed, Persist, Die, GiveUp, Think
<1> QED BY <1>1, <1>2, <1>3, <1>4, <1>5, <1>6, <1>7 DEF Types, TypeOK

(* What a client sends.                                                    *)
Request1 == inbox'[Len(inbox) + 1]

LEMMA AsksFrame ==
  ASSUME Types, Asks
  PROVE  /\ UNCHANGED <<envVars, restarts>>
         /\ reply' = Waiting
         /\ inbox' \in Seq(Requests) /\ Len(inbox') = Len(inbox) + 1
         /\ DOMAIN inbox' = DOMAIN inbox \cup {Len(inbox) + 1}
         /\ \A i \in DOMAIN inbox : inbox'[i] = inbox[i]
         /\ Request1.from = rollouts' /\ rollouts' \in {rollouts, rollouts + 1}
<1>1. ASSUME NEW m \in Requests, Post(m), m.from = rollouts',
             rollouts' \in {rollouts, rollouts + 1}, UNCHANGED <<envVars, restarts>>
      PROVE  /\ UNCHANGED <<envVars, restarts>>
             /\ reply' = Waiting
             /\ inbox' \in Seq(Requests) /\ Len(inbox') = Len(inbox) + 1
             /\ DOMAIN inbox' = DOMAIN inbox \cup {Len(inbox) + 1}
             /\ \A i \in DOMAIN inbox : inbox'[i] = inbox[i]
             /\ Request1.from = rollouts' /\ rollouts' \in {rollouts, rollouts + 1}
  BY <1>1, AppendFacts DEF Types, Post, Request1
<1>2. ASSUME NEW d \in Deadlines, Start(d)
      PROVE  \E m \in Requests : Post(m) /\ m.from = rollouts'
  <2>1. [kind |-> "reset", from |-> rollouts + 1, deadline |-> d] \in Requests
    BY <1>2 DEF Types, Requests
  <2> QED BY <2>1, <1>2 DEF Start
<1>3. ASSUME Act PROVE \E m \in Requests : Post(m) /\ m.from = rollouts'
  <2>1. Head(todo) \in AllCalls
    BY <1>3, TailFacts, CallFacts DEF Act, Types, TypeOK
  <2>2. Step(Head(todo)) \in Requests
    BY <2>1 DEF Types, Requests, Step
  <2> QED BY <2>2, <1>3 DEF Act, Step
<1>4. ASSUME Close PROVE \E m \in Requests : Post(m) /\ m.from = rollouts'
  <2>1. Step(Call("wait", CloseBy)) \in Requests
    BY CloseFacts DEF Types, Requests, Step
  <2> QED BY <2>1, <1>4 DEF Close, Step
<1>5. ASSUME Fetch PROVE \E m \in Requests : Post(m) /\ m.from = rollouts'
  <2>1. [kind |-> "trajectory", from |-> rollouts] \in Requests
    BY DEF Types, Requests
  <2> QED BY <2>1, <1>5 DEF Fetch
<1>6. /\ UNCHANGED <<envVars, restarts>>
      /\ rollouts' \in {rollouts, rollouts + 1}
  BY DEF Asks, Act, Close, Fetch, Start
<1> QED BY <1>1, <1>2, <1>3, <1>4, <1>5, <1>6 DEF Asks

LEMMA AsksTypes ==
  ASSUME Types, Asked, Asks
  PROVE  Types'
<1>1. /\ UNCHANGED <<episode, opening, now, deadline, scored, steps, events, readers, restarts>>
      /\ inbox' \in Seq(Requests) /\ reply' \in Replies
      /\ rollouts' \in Nat /\ rollouts' >= rollouts
      /\ \A i \in DOMAIN inbox' : inbox'[i].from \in 1 .. rollouts'
  <2>1. rollouts' \in Nat /\ rollouts' >= rollouts
    BY AsksFrame DEF Types
  <2>2. rollouts' > 0
    <3>1. rollouts \in Nat
      BY DEF Types
    <3>2. CASE \E d \in Deadlines : Start(d)
      BY <3>1, <3>2 DEF Start
    <3>3. CASE Act \/ Close \/ Fetch
      BY <3>3 DEF Act, Close, Fetch, Asked
    <3> QED BY <3>2, <3>3 DEF Asks
  <2>3. Request1.from \in 1 .. rollouts'
    BY AsksFrame, <2>1, <2>2
  <2>4. \A i \in DOMAIN inbox' : inbox'[i].from \in 1 .. rollouts'
    <3>1. rollouts \in Nat /\ \A i \in DOMAIN inbox : inbox[i].from \in 1 .. rollouts
      BY DEF Types, TypeOK
    <3>2. ASSUME NEW i \in DOMAIN inbox PROVE inbox'[i].from \in 1 .. rollouts'
      <4>1. inbox'[i] = inbox[i] /\ inbox[i].from \in 1 .. rollouts
        BY AsksFrame, <3>1
      <4> QED BY <4>1, <3>1, <2>1
    <3>3. inbox'[Len(inbox) + 1].from \in 1 .. rollouts'
      BY <2>3 DEF Request1
    <3>4. DOMAIN inbox' = DOMAIN inbox \cup {Len(inbox) + 1}
      BY AsksFrame
    <3> QED BY <3>2, <3>3, <3>4
  <2> QED BY AsksFrame, ReplyFacts, <2>1, <2>4 DEF envVars, serverVars
<1>2. /\ turn' \in 0 .. MaxTurns /\ todo' \in Seq(Calls) /\ finished' \in BOOLEAN
      /\ final' \in Result /\ rows' \in Seq(Row)
  <2>1. CASE \E d \in Deadlines : Start(d)
    <3>1. /\ turn' = 0 /\ todo' = << >> /\ finished' = FALSE /\ rows' = << >>
          /\ final' = [done |-> FALSE, reward |-> "none"]
      BY <2>1 DEF Start
    <3> QED BY <3>1, Beginnings
  <2>2. CASE Act \/ Close \/ Fetch
    BY <2>2 DEF Types, TypeOK, Act, Close, Fetch, loopVars
  <2> QED BY <2>1, <2>2 DEF Asks
<1>3. phase' \in {"resetting", "awaiting", "crossing", "fetching"}
  BY DEF Asks, Start, Act, Close, Fetch
<1> QED BY <1>1, <1>2, <1>3 DEF Types, TypeOK

(* The server answers the request at the head of the line, or takes it     *)
(* into a new episode without removing it.                                 *)
Answers == EndReset \/ HandleNoEpisode \/ HandleRefused \/ HandleStep

LEMMA AnswersFrame ==
  ASSUME Types, Resets, Answers
  PROVE  /\ inbox # << >> /\ inbox' = Tail(inbox)
         /\ \E answer \in Replies : Reply(Request.from, answer)
         /\ Request.kind = IF EndReset THEN "reset" ELSE "step"
         /\ UNCHANGED <<episode, deadline, readers, phase, turn, todo, finished, final,
                        rows, disk, rollouts, restarts>>
<1>1. CASE EndReset
  <2>1. Ok([done |-> FALSE, reward |-> "none"]) \in Replies
    BY ReplyFacts, Beginnings
  <2> QED BY <1>1, <2>1 DEF EndReset, Send, Resets, loopVars
<1>2. CASE HandleNoEpisode
  <2>1. ~EndReset
    BY <1>2 DEF HandleNoEpisode, EndReset, Takes
  <2> QED BY <1>2, <2>1, ReplyFacts DEF HandleNoEpisode, Send, Takes, loopVars, envVars, serverVars
<1>3. CASE HandleRefused
  <2>1. ~EndReset
    BY <1>3 DEF HandleRefused, EndReset, Takes
  <2>2. [done |-> Done(now), reward |-> "none"] \in Result
    BY DEF Result, Rewards, Done
  <2>3. Ok([done |-> Done(now), reward |-> "none"]) \in Replies
    BY <2>2, ReplyFacts
  <2> QED BY <1>3, <2>1, <2>3 DEF HandleRefused, Send, Takes, loopVars
<1>4. CASE HandleStep
  <2>1. ~EndReset
    BY <1>4 DEF HandleStep, EndReset, Takes
  <2> DEFINE body == [done |-> Done(now'),
                      reward |-> IF ~Done(now') \/ scored THEN "none"
                                 ELSE IF TimedOut(now') THEN "timeout" ELSE "completed"]
  <2>2. body \in Result
    BY DEF Result, Rewards, Done
  <2>3. Ok(body) \in Replies
    BY <2>2, ReplyFacts
  <2>4. inbox' = Tail(inbox) /\ Reply(Request.from, Ok(body))
    BY <1>4 DEF HandleStep, Send
  <2> HIDE DEF body
  <2> QED BY <1>4, <2>1, <2>3, <2>4 DEF HandleStep, Takes, loopVars
<1> QED BY <1>1, <1>2, <1>3, <1>4 DEF Answers

(* Whatever is removed, the rest of the line was in it.                    *)
LEMMA TailTypes ==
  ASSUME Types, inbox # << >>
  PROVE  /\ Tail(inbox) \in Seq(Requests)
         /\ \A i \in DOMAIN Tail(inbox) : Tail(inbox)[i].from \in 1 .. rollouts
  BY HeadFacts DEF Types, TypeOK

LEMMA AnswersTypes ==
  ASSUME Types, Resets, Answers
  PROVE  Types'
<1>1. /\ inbox' \in Seq(Requests)
      /\ \A i \in DOMAIN inbox' : inbox'[i].from \in 1 .. rollouts
  BY AnswersFrame, TailTypes
<1>2. reply' \in Replies
  BY AnswersFrame, ReplyTo DEF Types
<1>3. /\ opening' \in 0 .. rollouts /\ now' \in Nat /\ steps' \in Nat
      /\ events' \in Nat /\ scored' \in BOOLEAN
  <2>1. CASE EndReset
    BY <2>1 DEF EndReset, Types, TypeOK
  <2>2. CASE HandleNoEpisode
    BY <2>2 DEF HandleNoEpisode, Types, TypeOK, envVars, serverVars
  <2>3. CASE HandleRefused
    BY <2>3 DEF HandleRefused, Types, TypeOK
  <2>4. CASE HandleStep
    <3>1. Request.call.d \in Nat
      BY <2>4, HeadFacts, RequestFacts DEF HandleStep, Takes
    <3> QED BY <2>4, <3>1 DEF HandleStep, Types, TypeOK, Done
  <2> QED BY <2>1, <2>2, <2>3, <2>4 DEF Answers
<1> QED BY <1>1, <1>2, <1>3, AnswersFrame DEF Types, TypeOK

LEMMA TakesTypes ==
  ASSUME Types, HandleReset \/ HandleTrajectory
  PROVE  Types'
<1>1. CASE HandleReset
  <2>1. Request.from \in 1 .. rollouts /\ Request.deadline \in Deadlines
    BY <1>1, HeadFacts, RequestFacts DEF HandleReset, Takes
  <2>2. /\ episode' \in 0 .. rollouts /\ deadline' \in Deadlines \cup {0}
        /\ now' \in Nat /\ steps' \in Nat /\ events' \in Nat /\ scored' \in BOOLEAN
    <3>1. /\ episode' = Request.from /\ deadline' = Request.deadline
          /\ now' = 0 /\ steps' = 0 /\ events' = 0 /\ scored' = FALSE
      BY <1>1 DEF HandleReset
    <3>2. rollouts \in Nat
      BY DEF Types
    <3>3. scored' \in BOOLEAN
      BY <3>1
    <3> QED BY <2>1, <3>1, <3>2, <3>3
  <2>3. UNCHANGED <<opening, readers, inbox, reply, phase, turn, todo, finished, final,
                    rows, rollouts, restarts>>
    BY <1>1 DEF HandleReset, loopVars
  <2> QED BY <2>2, <2>3 DEF Types, TypeOK
<1>2. CASE HandleTrajectory
  <2>1. Request.from \in 1 .. rollouts
    BY <1>2, HeadFacts DEF HandleTrajectory, Takes
  <2>2. readers' \subseteq [from : 1 .. rollouts, read : BOOLEAN, opening : 0 .. rollouts]
    <3>1. [from |-> Request.from, read |-> FALSE, opening |-> 0]
            \in [from : 1 .. rollouts, read : BOOLEAN, opening : 0 .. rollouts]
      BY <2>1 DEF Types
    <3> QED BY <1>2, <3>1 DEF HandleTrajectory, Types, TypeOK
  <2>3. /\ inbox' \in Seq(Requests)
        /\ \A i \in DOMAIN inbox' : inbox'[i].from \in 1 .. rollouts
    BY <1>2, TailTypes DEF HandleTrajectory, Takes
  <2> QED BY <1>2, <2>2, <2>3 DEF HandleTrajectory, Types, TypeOK, loopVars, serverVars
<1> QED BY <1>1, <1>2

LEMMA ReadsFrame ==
  ASSUME Reads
  PROVE  UNCHANGED <<serverVars, inbox, phase, loopVars, disk, rollouts, restarts>>
  BY DEF Reads, ReadOpening, ReadEvents

LEMMA ReadsTypes ==
  ASSUME Types, Reads
  PROVE  Types'
<1>1. UNCHANGED <<serverVars, inbox, phase, loopVars, disk, rollouts, restarts>>
  BY ReadsFrame
<1>2. /\ readers' \subseteq [from : 1 .. rollouts, read : BOOLEAN, opening : 0 .. rollouts]
      /\ reply' \in Replies
  <2>1. PICK r \in readers : ReadOpening(r) \/ ReadEvents(r)
    BY DEF Reads
  <2>2. r \in [from : 1 .. rollouts, read : BOOLEAN, opening : 0 .. rollouts]
    BY DEF Types, TypeOK
  <2>3. CASE ReadOpening(r)
    <3>1. [r EXCEPT !.read = TRUE, !.opening = opening]
            \in [from : 1 .. rollouts, read : BOOLEAN, opening : 0 .. rollouts]
      BY <2>2 DEF Types, TypeOK
    <3> QED BY <2>3, <3>1 DEF ReadOpening, Types, TypeOK
  <2>4. CASE ReadEvents(r)
    <3>1. [opening |-> r.opening, episode |-> episode, events |-> events] \in Logs
      BY <2>2 DEF Logs, Types, TypeOK
    <3>2. reply' \in Replies
      BY <2>4, <3>1, ReplyFacts, ReplyTo DEF ReadEvents, Types
    <3> QED BY <2>4, <3>2 DEF ReadEvents, Types, TypeOK
  <2> QED BY <2>1, <2>3, <2>4
<1> QED BY <1>1, <1>2 DEF Types, TypeOK, serverVars, loopVars

LEMMA RestartTypes ==
  ASSUME Types, Restart
  PROVE  Types'
<1>1. inbox' \in Seq(Requests) /\ reply' \in Replies /\ restarts' \in Nat
  BY Beginnings, ReplyFacts DEF Restart, Types
<1>2. /\ episode' \in 0 .. rollouts /\ opening' \in 0 .. rollouts
      /\ deadline' \in Deadlines \cup {0}
      /\ now' \in Nat /\ steps' \in Nat /\ events' \in Nat /\ scored' \in BOOLEAN
      /\ readers' = {} /\ DOMAIN inbox' = {}
  <2>1. /\ episode' = 0 /\ opening' = 0 /\ deadline' = 0
        /\ now' = 0 /\ steps' = 0 /\ events' = 0 /\ scored' = FALSE
        /\ readers' = {} /\ inbox' = << >>
    BY DEF Restart
  <2>2. rollouts \in Nat
    BY DEF Types
  <2>3. scored' \in BOOLEAN
    BY <2>1
  <2> QED BY <2>1, <2>2, <2>3
<1>3. UNCHANGED <<phase, turn, todo, finished, final, rows, rollouts>>
  BY DEF Restart, loopVars
<1> QED BY <1>1, <1>2, <1>3 DEF Types, TypeOK

LEMMA NextTypes ==
  ASSUME Types, Resets, Asked, Seen, [Next]_vars
  PROVE  Types'
<1>1. CASE UNCHANGED vars
  BY <1>1 DEF Types, TypeOK, vars, envVars, serverVars, loopVars
<1> QED BY <1>1, Steps, LocalTypes, AsksTypes, AnswersTypes, TakesTypes, ReadsTypes,
        RestartTypes DEF Serves, Answers

-----------------------------------------------------------------------------
(* Resets, and the one payment.                                            *)
LEMMA TailResets ==
  ASSUME Types, Resets, inbox # << >>
  PROVE  \A i, j \in DOMAIN Tail(inbox) :
           /\ Tail(inbox)[i].kind = "reset" => Tail(inbox)[i].from > opening
           /\ i < j /\ Tail(inbox)[i].kind = "reset" /\ Tail(inbox)[j].kind = "reset" =>
                Tail(inbox)[i].from < Tail(inbox)[j].from
           /\ Request.kind = "reset" /\ Tail(inbox)[i].kind = "reset" =>
                Tail(inbox)[i].from > Request.from
<1> TAKE i, j \in DOMAIN Tail(inbox)
<1>1. /\ i + 1 \in DOMAIN inbox /\ Tail(inbox)[i] = inbox[i + 1]
      /\ j + 1 \in DOMAIN inbox /\ Tail(inbox)[j] = inbox[j + 1]
      /\ Request = inbox[1] /\ 1 \in DOMAIN inbox
      /\ i \in Nat /\ j \in Nat /\ i >= 1
  BY HeadFacts
<1>2. /\ inbox[1].from \in Nat /\ inbox[i + 1].from \in Nat
  BY <1>1 DEF Types, TypeOK
<1> QED BY <1>1, <1>2 DEF Resets

LEMMA NextResets ==
  ASSUME Types, Resets, [Next]_vars
  PROVE  Resets'
<1>1. CASE Local
  BY <1>1, LocalFrame DEF Resets, envVars, serverVars, Request
<1>2. CASE Asks
  <2>1. UNCHANGED <<opening, episode, steps, events, scored>>
    BY <1>2, AsksFrame DEF envVars, serverVars
  <2>2. Request1.kind = "reset" => Request1.from = rollouts + 1
    <3>1. CASE \E d \in Deadlines : Start(d)
      BY <1>2, <3>1, AsksFrame DEF Start
    <3>2. CASE Act \/ Close \/ Fetch
      <4>1. \E m : Post(m) /\ m.kind # "reset"
        BY <3>2 DEF Act, Close, Fetch, Step
      <4> QED BY <4>1 DEF Post, Request1, Types
    <3> QED BY <1>2, <3>1, <3>2 DEF Asks
  <2>3. \A i \in DOMAIN inbox' : inbox'[i].kind = "reset" => inbox'[i].from > opening
    <3>1. rollouts + 1 > opening
      BY DEF Types, TypeOK
    <3> QED BY <1>2, <2>2, <3>1, AsksFrame DEF Resets, Request1
  <2>4. ASSUME NEW i \in DOMAIN inbox', NEW j \in DOMAIN inbox', i < j,
               inbox'[i].kind = "reset", inbox'[j].kind = "reset"
        PROVE  inbox'[i].from < inbox'[j].from
    <3>1. i \in DOMAIN inbox /\ inbox'[i] = inbox[i]
      BY <1>2, <2>4, AsksFrame DEF Types
    <3>2. CASE j \in DOMAIN inbox
      BY <1>2, <2>4, <3>1, <3>2, AsksFrame DEF Resets
    <3>3. CASE j \notin DOMAIN inbox
      <4>1. inbox'[j].from = rollouts + 1
        BY <1>2, <2>2, <2>4, <3>3, AsksFrame DEF Request1
      <4>2. inbox[i].from \in 1 .. rollouts /\ rollouts \in Nat
        BY <3>1 DEF Types, TypeOK
      <4> QED BY <3>1, <4>1, <4>2
    <3> QED BY <3>2, <3>3
  <2>5. inbox # << >> => inbox' # << >> /\ Request' = Request
    <3>1. inbox # << >> => 1 \in DOMAIN inbox /\ Request = inbox[1]
      BY HeadFacts
    <3>2. inbox' # << >> /\ Request' = inbox'[1]
      BY <1>2, AsksFrame, TailFacts DEF Request, Types
    <3> QED BY <1>2, <3>1, <3>2, AsksFrame
  <2> QED BY <2>1, <2>3, <2>4, <2>5 DEF Resets
<1>3. CASE EndReset
  <2>1. inbox' = Tail(inbox) /\ inbox # << >> /\ Request.kind = "reset"
    BY <1>3, AnswersFrame DEF Answers
  <2>2. opening' = Request.from /\ episode' = opening'
    BY <1>3 DEF EndReset, Resets
  <2> QED BY <2>1, <2>2, TailResets DEF Resets
<1>4. CASE HandleNoEpisode \/ HandleRefused \/ HandleStep \/ HandleTrajectory
  <2>1. inbox' = Tail(inbox) /\ inbox # << >>
    BY <1>4, AnswersFrame DEF Answers, HandleTrajectory, Takes
  <2>2. UNCHANGED <<opening, episode>> /\ opening = episode
    BY <1>4 DEF HandleNoEpisode, HandleRefused, HandleStep, HandleTrajectory, Takes,
       envVars, serverVars
  <2> QED BY <2>1, <2>2, TailResets DEF Resets
<1>5. CASE HandleReset
  BY <1>5 DEF HandleReset, Takes, Resets, Request
<1>6. CASE Reads
  BY <1>6, ReadsFrame DEF Resets, serverVars, Request
<1>7. CASE Restart
  BY <1>7 DEF Restart, Resets
<1>8. CASE UNCHANGED vars
  BY <1>8 DEF Resets, Request, vars, envVars, serverVars
<1> QED BY <1>1, <1>2, <1>3, <1>4, <1>5, <1>6, <1>7, <1>8, Steps DEF Serves

(* A clock that is past an end stays past it, and none is past at once.    *)
LEMMA DoneFacts ==
  ASSUME Types
  PROVE  /\ deadline \in Nat /\ now \in Nat /\ Horizon \in Nat \ {0}
         /\ \A d \in Nat : Done(now) => Done(now + d)
         /\ \A d \in Nat : d >= Horizon => Done(now + d)
<1>1. deadline \in Nat /\ now \in Nat /\ Horizon \in Nat \ {0}
  BY CallFacts, RolloutAssumption DEF Types, TypeOK
<1> QED BY <1>1 DEF Done

LEMMA NextPaidAtTheEnd ==
  ASSUME Types, Resets, PaidAtTheEnd, [Next]_vars
  PROVE  PaidAtTheEnd'
<1>1. CASE UNCHANGED <<now, deadline, scored>>
  BY <1>1 DEF PaidAtTheEnd, Done
<1>2. CASE HandleReset
  <2>1. deadline' \in Nat
    BY <1>2, HeadFacts, RequestFacts, CallFacts DEF HandleReset, Takes
  <2>2. now' = 0 /\ scored' = FALSE
    BY <1>2 DEF HandleReset
  <2>3. ~Done(now)'
    BY <2>1, <2>2, RolloutAssumption DEF Done
  <2> QED BY <2>2, <2>3 DEF PaidAtTheEnd
<1>3. CASE HandleStep
  <2>1. Request.call.d \in Nat
    BY <1>3, HeadFacts, RequestFacts DEF HandleStep, Takes
  <2>2. now' = now + Request.call.d /\ deadline' = deadline /\ scored' = (scored \/ Done(now'))
    BY <1>3 DEF HandleStep
  <2>3. Done(now)' <=> Done(now')
    BY <2>2 DEF Done
  <2>4. Done(now) => Done(now')
    BY <2>1, <2>2, DoneFacts
  <2> QED BY <2>2, <2>3, <2>4 DEF PaidAtTheEnd
<1>4. CASE Restart
  <2>1. now' = 0 /\ deadline' = 0 /\ scored' = FALSE
    BY <1>4 DEF Restart
  <2>2. ~Done(now)'
    BY <2>1, RolloutAssumption DEF Done
  <2> QED BY <2>1, <2>2 DEF PaidAtTheEnd
<1>5. CASE Local \/ Asks \/ Reads
  BY <1>1, <1>5, LocalFrame, AsksFrame, ReadsFrame DEF envVars, serverVars
<1>6. CASE EndReset \/ HandleNoEpisode \/ HandleRefused \/ HandleTrajectory
  BY <1>1, <1>6 DEF EndReset, HandleNoEpisode, HandleRefused, HandleTrajectory, envVars, serverVars
<1>7. CASE UNCHANGED vars
  BY <1>1, <1>7 DEF vars, envVars, serverVars
<1> QED BY <1>2, <1>3, <1>4, <1>5, <1>6, <1>7, Steps DEF Serves

-----------------------------------------------------------------------------
(* One request of the running rollout at a time.                           *)
Unasked == /\ \A i \in DOMAIN inbox : ~Ours(inbox[i])
           /\ \A r \in readers : ~Ours(r)

LEMMA NothingAsked ==
  ASSUME Asked, phase # "idle",
         reply # Waiting \/ phase \in {"thinking", "acting", "closing", "closed"}
  PROVE  Unasked
  BY DEF Asked, Unasked, Fits

LEMMA LocalAsked ==
  ASSUME Asked, Local
  PROVE  Asked'
<1>1. UNCHANGED <<readers, inbox, rollouts>>
  BY LocalFrame DEF envVars
<1>2. CASE GiveUp \/ Die \/ Persist
  BY <1>2 DEF GiveUp, Die, Persist, Asked
<1>3. CASE ~(GiveUp \/ Die \/ Persist)
  <2>1. /\ phase # "idle"
        /\ Answered \/ phase \in {"thinking", "acting", "closing", "closed"}
    BY <1>3 DEF Local, Opened, OutOfTurns, Finish, Observe, TurnEnds, Crossed, Think
  <2>2. Unasked
    BY <2>1, NothingAsked, ReplyFacts DEF Answered
  <2> QED BY <1>1, <2>1, <2>2 DEF Asked, Unasked, Ours
<1> QED BY <1>2, <1>3

LEMMA AsksAsked ==
  ASSUME Types, Asked, Asks
  PROVE  Asked'
<1>1. /\ \A i \in DOMAIN inbox : inbox[i].from # rollouts'
      /\ \A r \in readers' : r.from # rollouts'
      /\ rollouts' > 0
  <2>1. CASE \E d \in Deadlines : Start(d)
    <3>1. rollouts' = rollouts + 1 /\ rollouts \in Nat
      BY <2>1 DEF Start, Types
    <3> QED BY <3>1, AsksFrame DEF envVars, Types, TypeOK
  <2>2. CASE Act \/ Close \/ Fetch
    <3>1. rollouts' = rollouts /\ readers' = readers
      BY <2>2 DEF Act, Close, Fetch, envVars
    <3>2. phase # "idle" /\ phase \in {"acting", "closing", "closed"}
      BY <2>2 DEF Act, Close, Fetch
    <3>3. Unasked /\ rollouts > 0
      BY <3>2, NothingAsked DEF Asked
    <3> QED BY <3>1, <3>3 DEF Unasked, Ours
  <2> QED BY <2>1, <2>2 DEF Asks
<1>2. /\ Fits(phase', Request1.kind)
      /\ phase' = "crossing" => Request1.call.verb = "wait" /\ Request1.call.d >= Horizon
  <2>1. ASSUME NEW m, Post(m) PROVE Request1 = m
    BY <2>1 DEF Post, Request1, Types
  <2>2. CASE \E d \in Deadlines : Start(d)
    BY <2>1, <2>2 DEF Start, Fits
  <2>3. CASE Act
    BY <2>1, <2>3 DEF Act, Fits, Step
  <2>4. CASE Close
    <3>1. Request1 = Step(Call("wait", CloseBy)) /\ phase' = "crossing"
      BY <2>1, <2>4 DEF Close
    <3> QED BY <3>1, CloseFacts DEF Fits, Step, Call
  <2>5. CASE Fetch
    BY <2>1, <2>5 DEF Fetch, Fits
  <2> QED BY <2>2, <2>3, <2>4, <2>5 DEF Asks
<1>3. ASSUME NEW i \in DOMAIN inbox', inbox'[i].from = rollouts'
      PROVE  i = Len(inbox') /\ inbox'[i] = Request1
  BY <1>1, <1>3, AsksFrame DEF Request1
<1>4. reply' = Waiting
  BY AsksFrame
<1> QED BY <1>1, <1>2, <1>3, <1>4 DEF Asked, Ours, Fits

LEMMA AnswersAsked ==
  ASSUME Types, Resets, Asked, Answers
  PROVE  Asked'
<1>1. /\ inbox # << >> /\ inbox' = Tail(inbox)
      /\ UNCHANGED <<readers, phase, rollouts>>
  BY AnswersFrame
<1> SUFFICES ASSUME phase # "idle" PROVE Asked'
  BY <1>1 DEF Asked
<1>2. ~Ours(Request) => reply' = reply
  BY AnswersFrame, ReplyTo DEF Ours, Types
<1>3. ASSUME NEW i \in DOMAIN Tail(inbox), Ours(Tail(inbox)[i])
      PROVE  /\ i = Len(Tail(inbox)) /\ ~Ours(Request)
             /\ Ours(inbox[i + 1]) /\ i + 1 \in DOMAIN inbox /\ Tail(inbox)[i] = inbox[i + 1]
  <2>1. /\ i + 1 \in DOMAIN inbox /\ Tail(inbox)[i] = inbox[i + 1]
        /\ Request = inbox[1] /\ 1 \in DOMAIN inbox /\ i \in Nat /\ i >= 1
        /\ Len(Tail(inbox)) = Len(inbox) - 1 /\ Len(inbox) \in Nat
    BY <1>1, HeadFacts DEF Types
  <2>2. i + 1 = Len(inbox)
    BY <1>3, <2>1 DEF Asked
  <2>3. Ours(inbox[1]) => 1 = Len(inbox)
    BY <2>1 DEF Asked
  <2> QED BY <1>3, <2>1, <2>2, <2>3
<1>4. (\E r \in readers : Ours(r)) => ~Ours(Request)
  <2>1. Request = inbox[1] /\ 1 \in DOMAIN inbox
    BY <1>1, HeadFacts
  <2> QED BY <2>1 DEF Asked
<1>5. \A m : Ours(m)' <=> Ours(m)
  BY <1>1 DEF Ours
<1> QED BY <1>1, <1>2, <1>3, <1>4 DEF Asked, Ours

LEMMA TakesAsked ==
  ASSUME Types, Asked, HandleReset \/ HandleTrajectory
  PROVE  Asked'
<1>1. CASE HandleReset
  BY <1>1 DEF HandleReset, Asked, Ours
<1>2. CASE HandleTrajectory
  <2>1. /\ inbox # << >> /\ inbox' = Tail(inbox) /\ UNCHANGED <<reply, phase, rollouts>>
        /\ Request.kind = "trajectory"
    BY <1>2 DEF HandleTrajectory, Takes
  <2> DEFINE new == [from |-> Request.from, read |-> FALSE, opening |-> 0]
  <2>2. readers' = readers \cup {new} /\ new.from = Request.from
    BY <1>2 DEF HandleTrajectory
  <2> HIDE DEF new
  <2> SUFFICES ASSUME phase # "idle" PROVE Asked'
    BY <2>1 DEF Asked
  <2>3. Request = inbox[1] /\ 1 \in DOMAIN inbox
    BY <2>1, HeadFacts
  <2>4. ASSUME NEW i \in DOMAIN Tail(inbox), Ours(Tail(inbox)[i])
        PROVE  /\ i = Len(Tail(inbox)) /\ ~Ours(Request)
               /\ Ours(inbox[i + 1]) /\ i + 1 \in DOMAIN inbox /\ Tail(inbox)[i] = inbox[i + 1]
    <3>1. /\ i + 1 \in DOMAIN inbox /\ Tail(inbox)[i] = inbox[i + 1]
          /\ i \in Nat /\ i >= 1
          /\ Len(Tail(inbox)) = Len(inbox) - 1 /\ Len(inbox) \in Nat
      BY <2>1, HeadFacts DEF Types
    <3>2. i + 1 = Len(inbox)
      BY <2>4, <3>1 DEF Asked
    <3>3. Ours(inbox[1]) => 1 = Len(inbox)
      BY <2>3 DEF Asked
    <3> QED BY <2>3, <2>4, <3>1, <3>2, <3>3
  <2>5. CASE Ours(Request)
    <3>1. /\ reply = Waiting /\ phase = "fetching"
          /\ \A r \in readers : ~Ours(r)
      BY <2>1, <2>3, <2>5 DEF Asked, Fits
    <3>2. \A i \in DOMAIN Tail(inbox) : ~Ours(Tail(inbox)[i])
      BY <2>4, <2>5
    <3> QED BY <2>1, <2>2, <3>1, <3>2 DEF Asked, Ours
  <2>6. CASE ~Ours(Request)
    <3>1. \A r \in readers' : Ours(r) => r \in readers
      BY <2>2, <2>6 DEF Ours
    <3>2. \A i \in DOMAIN Tail(inbox) : Ours(Tail(inbox)[i]) => \A r \in readers' : ~Ours(r)
      BY <2>4, <3>1 DEF Asked
    <3> QED BY <2>1, <2>4, <3>1, <3>2 DEF Asked, Ours
  <2> QED BY <2>5, <2>6
<1> QED BY <1>1, <1>2

LEMMA ReadsAsked ==
  ASSUME Types, Asked, Reads
  PROVE  Asked'
<1>1. UNCHANGED <<inbox, phase, rollouts>>
  BY ReadsFrame
<1> SUFFICES ASSUME phase # "idle" PROVE Asked'
  BY <1>1 DEF Asked
<1>2. PICK r \in readers : ReadOpening(r) \/ ReadEvents(r)
  BY DEF Reads
<1>3. CASE ReadOpening(r)
  <2> DEFINE q == [r EXCEPT !.read = TRUE, !.opening = opening]
  <2>1. r \in [from : 1 .. rollouts, read : BOOLEAN, opening : 0 .. rollouts]
    BY DEF Types, TypeOK
  <2>2. q.from = r.from /\ readers' = (readers \ {r}) \cup {q} /\ reply' = reply
    BY <1>3, <2>1 DEF ReadOpening
  <2> HIDE DEF q
  <2> QED BY <1>1, <2>2 DEF Asked, Ours
<1>4. CASE ReadEvents(r)
  <2>1. readers' = readers \ {r}
    BY <1>4 DEF ReadEvents
  <2>2. CASE Ours(r)
    BY <1>1, <2>1, <2>2 DEF Asked, Ours
  <2>3. CASE ~Ours(r)
    <3>1. reply' = reply
      BY <1>4, <2>3 DEF ReadEvents, Reply, Ours
    <3> QED BY <1>1, <2>1, <3>1 DEF Asked, Ours
  <2> QED BY <2>2, <2>3
<1> QED BY <1>2, <1>3, <1>4

LEMMA NextAsked ==
  ASSUME Types, Resets, Asked, [Next]_vars
  PROVE  Asked'
<1>1. CASE Restart
  BY <1>1 DEF Restart, Asked
<1>2. CASE UNCHANGED vars
  BY <1>2 DEF vars, envVars, Asked, Ours
<1> QED BY <1>1, <1>2, Steps, LocalAsked, AsksAsked, AnswersAsked, TakesAsked, ReadsAsked
        DEF Serves, Answers

-----------------------------------------------------------------------------
(* Alone with the server from the answer to the reset on.                  *)

(* Only the answer to its own reset puts the rollout in session.           *)
LEMMA EntersByReset ==
  ASSUME Types, Resets, Asked, Answers \/ Reads, InSession', ~InSession
  PROVE  EndReset /\ phase = "resetting" /\ Ours(Request) /\ reply = Waiting
<1>1. UNCHANGED <<phase, rollouts>>
  BY AnswersFrame, ReadsFrame
<1>2. phase = "resetting" /\ ~Answered /\ Answered'
  BY <1>1 DEF InSession
<1>3. reply' # reply
  BY <1>2 DEF Answered
<1>4. CASE Answers
  <2>1. Ours(Request) /\ reply = Waiting
    BY <1>3, <1>4, AnswersFrame, ReplyTo DEF Ours, Types
  <2>2. Request = inbox[1] /\ 1 \in DOMAIN inbox
    BY <1>4, AnswersFrame, HeadFacts
  <2>3. Request.kind = "reset"
    BY <1>2, <2>1, <2>2 DEF Asked, Fits
  <2> QED BY <1>2, <1>4, <2>1, <2>3, AnswersFrame
<1>5. CASE Reads
  <2>1. PICK r \in readers : ReadOpening(r) \/ ReadEvents(r)
    BY <1>5 DEF Reads
  <2>2. Ours(r)
    BY <1>3, <2>1 DEF ReadOpening, ReadEvents, Reply, Ours
  <2> QED BY <1>2, <2>2 DEF Asked
<1> QED BY <1>4, <1>5

LEMMA NextAlone ==
  ASSUME Types, Resets, Asked, Alone, [Next]_vars
  PROVE  Alone'
<1> SUFFICES ASSUME InSession'
             PROVE  /\ \A i \in DOMAIN inbox' : inbox'[i].from = rollouts'
                    /\ opening' = episode'
                    /\ episode' \in {0, rollouts'}
                    /\ episode' = 0 => restarts' > 0
  BY DEF Alone, Ours
<1>1. CASE Local
  <2>1. InSession
    BY <1>1 DEF InSession, Local, Opened, OutOfTurns, Finish, Observe, TurnEnds, Crossed,
       Persist, Die, GiveUp, Think
  <2> QED BY <1>1, <2>1, LocalFrame DEF Alone, Ours, envVars, serverVars
<1>2. CASE Asks
  <2>1. CASE \E d \in Deadlines : Start(d)
    <3>1. phase' = "resetting" /\ reply' = Waiting
      BY <2>1 DEF Start, Post
    <3> QED BY <3>1 DEF InSession, Answered, Waiting
  <2>2. CASE Act \/ Close \/ Fetch
    <3>1. InSession /\ rollouts' = rollouts
      BY <2>2 DEF Act, Close, Fetch, InSession
    <3> QED BY <1>2, <3>1, AsksFrame DEF Alone, Ours, Request1, envVars, serverVars
  <2> QED BY <1>2, <2>1, <2>2 DEF Asks
<1>3. CASE Answers
  <2>1. /\ inbox # << >> /\ inbox' = Tail(inbox)
        /\ UNCHANGED <<episode, phase, rollouts, restarts>>
    BY <1>3, AnswersFrame
  <2>2. CASE InSession
    <3>1. opening = episode /\ ~EndReset
      BY <2>2 DEF Alone, EndReset
    <3>2. opening' = opening
      BY <1>3, <3>1 DEF Answers, HandleNoEpisode, HandleRefused, HandleStep, envVars, serverVars
    <3>3. \A i \in DOMAIN Tail(inbox) : Ours(Tail(inbox)[i])
      BY <2>1, <2>2, HeadFacts DEF Alone
    <3> QED BY <2>1, <2>2, <3>1, <3>2, <3>3 DEF Alone, Ours
  <2>3. CASE ~InSession
    <3>1. EndReset /\ phase = "resetting" /\ Ours(Request)
      BY <1>3, <2>3, EntersByReset
    <3>2. Request = inbox[1] /\ 1 \in DOMAIN inbox /\ Len(Tail(inbox)) = Len(inbox) - 1
      BY <2>1, HeadFacts
    <3>3. Len(inbox) = 1 /\ rollouts > 0
      BY <3>1, <3>2 DEF Asked
    <3>4. Tail(inbox) = << >>
      BY <2>1, <3>2, <3>3, HeadFacts
    <3>5. episode = rollouts /\ opening' = episode
      BY <3>1 DEF EndReset, Resets, Ours
    <3> QED BY <2>1, <3>3, <3>4, <3>5
  <2> QED BY <2>2, <2>3
<1>4. CASE HandleReset
  <2>1. InSession /\ UNCHANGED <<inbox, reply, phase, rollouts>>
    BY <1>4 DEF HandleReset, InSession, Answered
  <2>2. /\ Request = inbox[1] /\ 1 \in DOMAIN inbox /\ Request.kind = "reset"
    BY <1>4, HeadFacts DEF HandleReset, Takes
  <2>3. Ours(Request)
    BY <2>1, <2>2 DEF Alone
  <2>4. phase = "resetting" /\ reply = Waiting
    BY <2>1, <2>2, <2>3 DEF Asked, Fits, InSession
  <2> QED BY <2>1, <2>4 DEF InSession, Answered, Waiting
<1>5. CASE HandleTrajectory
  <2>1. /\ InSession /\ inbox # << >> /\ inbox' = Tail(inbox)
        /\ UNCHANGED <<episode, opening, rollouts, restarts>>
    BY <1>5 DEF HandleTrajectory, Takes, InSession, Answered, serverVars
  <2>2. \A i \in DOMAIN Tail(inbox) : Ours(Tail(inbox)[i])
    BY <2>1, HeadFacts DEF Alone
  <2> QED BY <2>1, <2>2 DEF Alone, Ours
<1>6. CASE Reads
  <2>1. InSession
    BY <1>6, EntersByReset, ReadsFrame DEF EndReset, serverVars
  <2> QED BY <1>6, <2>1, ReadsFrame DEF Alone, Ours, serverVars
<1>7. CASE Restart
  BY <1>7 DEF Restart, Types
<1>8. CASE UNCHANGED vars
  <2>1. InSession
    BY <1>8 DEF vars, InSession, Answered
  <2> QED BY <1>8, <2>1 DEF Alone, Ours, vars, envVars, serverVars
<1> QED BY <1>1, <1>2, <1>3, <1>4, <1>5, <1>6, <1>7, <1>8, Steps DEF Serves, Answers

-----------------------------------------------------------------------------
(* The rows, as they grow.                                                 *)
LEMMA EmptyLedger ==
  Ledger(<< >>) /\ NotDone(<< >>) /\ Paid(<< >>) = {}
  BY DEF Ledger, NotDone, Paid

LEMMA LastDone ==
  ASSUME Types, Ledger(rows), LastSeen
  PROVE  /\ ~final.done => NotDone(rows)
         /\ final.done => Paid(rows) # {}
<1>1. CASE rows = << >>
  BY <1>1, EmptyLedger DEF LastSeen
<1>2. CASE rows # << >>
  <2> DEFINE n == Len(rows)
  <2>1. n \in DOMAIN rows /\ n \in Nat /\ \A i \in DOMAIN rows : i \in Nat /\ i <= n
    BY <1>2 DEF Types, TypeOK
  <2>2. final.done = rows[n].done
    BY <1>2 DEF LastSeen
  <2>3. ASSUME NEW i \in DOMAIN rows, rows[i].done PROVE rows[n].done
    <3>1. CASE i = n
      BY <2>3, <3>1
    <3>2. CASE i # n
      <4>1. i < n
        BY <2>1, <3>2
      <4> QED BY <2>1, <2>3, <4>1 DEF Ledger
    <3> QED BY <3>1, <3>2
  <2> QED BY <2>1, <2>2, <2>3 DEF NotDone, Ledger
<1> QED BY <1>1, <1>2

(* A row is added: done means that one is paid, it or one before it.       *)
LEMMA Extend ==
  ASSUME NEW t \in Seq(Row), Ledger(t), NEW n \in Nat, NEW body \in Result,
         NEW paid \in BOOLEAN, paid <=> Paid(t) # {},
         body.reward # "none" => ~paid /\ body.done,
         body.done => paid \/ body.reward # "none",
         \A i \in DOMAIN t : t[i].done => body.done /\ t[i].turn = n
  PROVE  /\ Ledger(Append(t, RowOf(n, body)))
         /\ Paid(Append(t, RowOf(n, body))) # {} <=> paid \/ body.reward # "none"
<1> DEFINE row == RowOf(n, body)
           u == Append(t, row)
           k == Len(t) + 1
<1>1. row \in Row /\ row.turn = n /\ row.done = body.done /\ row.reward = body.reward
  BY DEF RowOf, Row, Result
<1>2. /\ DOMAIN u = DOMAIN t \cup {k} /\ u[k] = row
      /\ \A i \in DOMAIN t : u[i] = t[i] /\ i < k /\ i \in Nat
      /\ k \notin DOMAIN t /\ k \in Nat
  BY <1>1, AppendFacts
<1> HIDE DEF u, row, k
<1>3. Paid(u) = Paid(t) \cup (IF body.reward # "none" THEN {k} ELSE {})
  BY <1>1, <1>2 DEF Paid
<1>4. Paid(u) # {} <=> paid \/ body.reward # "none"
  BY <1>3
<1>5. \A i, j \in Paid(u) : i = j
  BY <1>3 DEF Ledger
<1>6. \A i \in Paid(u) : u[i].done
  <2>1. \A i \in Paid(t) : i \in DOMAIN t /\ t[i].done
    BY DEF Ledger, Paid
  <2> QED BY <1>1, <1>2, <1>3, <2>1
<1>7. \A i \in DOMAIN u : u[i].done => Paid(u) # {}
  <2>1. \A i \in DOMAIN t : t[i].done => Paid(t) # {}
    BY DEF Ledger
  <2> QED BY <1>1, <1>2, <1>3, <1>4, <2>1
<1>8. ASSUME NEW i \in DOMAIN u, NEW j \in DOMAIN u, i < j, u[i].done
      PROVE  u[j].done /\ u[j].turn = u[i].turn
  <2>1. i \in DOMAIN t
    BY <1>2, <1>8
  <2>2. CASE j = k
    BY <1>1, <1>2, <1>8, <2>1, <2>2
  <2>3. CASE j # k
    <3>1. j \in DOMAIN t
      BY <1>2, <2>3
    <3> QED BY <1>2, <1>8, <2>1, <3>1 DEF Ledger
  <2> QED BY <2>2, <2>3
<1>9. Ledger(u)
  BY <1>5, <1>6, <1>7, <1>8 DEF Ledger
<1> QED BY <1>4, <1>9 DEF u, row

-----------------------------------------------------------------------------
(* What the loop has seen is what the server has done.                     *)
LEMMA LocalSeen ==
  ASSUME Types, Asked, Seen, Local
  PROVE  Seen'
<1> SUFFICES ASSUME phase' # "idle" PROVE Seen'
  BY DEF Seen
<1>1. UNCHANGED <<episode, scored, steps, rollouts>>
  BY LocalFrame DEF envVars, serverVars
<1>2. phase # "idle" /\ ~GiveUp /\ ~Die /\ ~Persist
  BY DEF Local, GiveUp, Die, Persist, Opened, OutOfTurns, Finish, Observe, TurnEnds,
     Crossed, Think
<1>3. CASE Opened
  <2>1. /\ phase = "resetting" /\ Answered /\ phase' = "thinking"
        /\ final' = reply.body /\ rows' = rows
    BY <1>3 DEF Opened
  <2>2. rows = << >> /\ reply.body = [done |-> FALSE, reward |-> "none"]
    BY <1>2, <2>1 DEF Seen
  <2>3. Trace = rows /\ Trace' = rows' /\ InSession
    BY <1>2, <2>1 DEF Trace, InSession
  <2>4. Ledger(rows)
    BY <1>2, <2>3 DEF Seen
  <2>5. Turns' /\ LastSeen'
    BY <2>1, <2>2, EmptyLedger DEF Turns, LastSeen
  <2>6. Counted'
    BY <1>1, <1>2, <2>1, <2>3 DEF Seen, Counted
  <2> QED BY <2>1, <2>3, <2>4, <2>5, <2>6 DEF Seen
<1>4. CASE OutOfTurns \/ TurnEnds \/ \E response \in Responses : Think(response)
  <2>1. /\ phase \in {"thinking", "acting"} /\ phase' \in {"thinking", "acting", "closing"}
        /\ phase = "acting" => phase' = IF finished \/ final.done THEN "closing" ELSE "thinking"
        /\ UNCHANGED <<final, rows, reply>>
    BY <1>4 DEF OutOfTurns, TurnEnds, Think, loopVars
  <2>2. Trace = rows /\ Trace' = rows /\ InSession
    BY <2>1 DEF Trace, InSession
  <2>3. Ledger(rows) /\ LastSeen
    BY <1>2, <2>2 DEF Seen
  <2>4. phase' \in {"thinking", "acting"} => NotDone(rows)
    <3>1. CASE phase = "thinking"
      BY <1>2, <3>1 DEF Seen, Turns
    <3>2. CASE phase = "acting"
      BY <2>1, <2>3, <3>2, LastDone
    <3> QED BY <2>1, <3>1, <3>2
  <2>5. Turns' /\ LastSeen'
    BY <2>1, <2>2, <2>3, <2>4 DEF Turns, LastSeen, NotDone
  <2>6. Counted'
    BY <1>1, <1>2, <2>1, <2>2 DEF Seen, Counted
  <2> QED BY <2>1, <2>2, <2>3, <2>5, <2>6 DEF Seen
<1>5. CASE Finish
  <2>1. UNCHANGED <<phase, reply, turn, final, rows>>
    BY <1>5 DEF Finish
  <2>2. UNCHANGED <<Trace, Answered>> /\ (InSession)' = InSession
    BY <2>1 DEF Trace, Answered, InSession
  <2> QED BY <1>1, <1>2, <2>1, <2>2 DEF Seen, Turns, LastSeen, Counted
<1>6. CASE Observe
  <2>1. /\ phase = "awaiting" /\ Answered /\ phase' = "acting" /\ UNCHANGED turn
        /\ final' = reply.body /\ rows' = Append(rows, RowOf(turn, reply.body))
    BY <1>6 DEF Observe, RowOf
  <2>2. reply.body \in Result
    BY <1>2, <2>1 DEF Seen
  <2>3. Trace = rows' /\ Trace' = rows' /\ InSession
    BY <2>1 DEF Trace, InSession
  <2>4. Ledger(rows') /\ Turns'
    BY <1>2, <2>1, <2>3 DEF Seen, Turns
  <2>5. LastSeen'
    <3>1. RowOf(turn, reply.body) \in Row
      BY <2>2, RolloutAssumption DEF RowOf, Row, Result, Types, TypeOK
    <3>2. /\ rows' # << >> /\ rows'[Len(rows')] = RowOf(turn, reply.body)
      BY <2>1, <3>1, AppendFacts DEF Types, TypeOK
    <3>3. reply.body = [done |-> reply.body.done, reward |-> reply.body.reward]
      BY <2>2 DEF Result
    <3> QED BY <2>1, <3>2, <3>3 DEF LastSeen, RowOf
  <2>6. Counted'
    BY <1>1, <1>2, <2>3 DEF Seen, Counted
  <2> QED BY <2>1, <2>3, <2>4, <2>5, <2>6 DEF Seen
<1>7. CASE Crossed
  <2>1. /\ phase = "crossing" /\ Answered /\ phase' = "closed"
        /\ final' = reply.body /\ rows' = Append(rows, RowOf(turn + 1, reply.body))
    BY <1>7 DEF Crossed, RowOf
  <2>2. reply.body \in Result /\ reply.body.done
    BY <1>2, <2>1 DEF Seen, Turns
  <2>3. Trace = rows' /\ Trace' = rows' /\ InSession
    BY <2>1 DEF Trace, InSession
  <2>4. Ledger(rows')
    BY <1>2, <2>3 DEF Seen
  <2>5. RowOf(turn + 1, reply.body) \in Row
    BY <2>2, RolloutAssumption DEF RowOf, Row, Result, Types, TypeOK
  <2>6. /\ rows' # << >> /\ rows'[Len(rows')] = RowOf(turn + 1, reply.body)
        /\ Len(rows') \in DOMAIN rows'
    BY <2>1, <2>5, AppendFacts DEF Types, TypeOK
  <2>7. LastSeen'
    <3>1. reply.body = [done |-> reply.body.done, reward |-> reply.body.reward]
      BY <2>2 DEF Result
    <3> QED BY <2>1, <2>6, <3>1 DEF LastSeen, RowOf
  <2>8. Turns'
    <3>1. Paid(rows') # {}
      BY <2>2, <2>4, <2>6 DEF Ledger, RowOf
    <3> QED BY <2>1, <3>1 DEF Turns, Paid
  <2>9. Counted'
    BY <1>1, <1>2, <2>3 DEF Seen, Counted
  <2> QED BY <2>1, <2>3, <2>4, <2>7, <2>8, <2>9 DEF Seen
<1> QED BY <1>2, <1>3, <1>4, <1>5, <1>6, <1>7 DEF Local

LEMMA AsksSeen ==
  ASSUME Types, Asked, Seen, Asks
  PROVE  Seen'
<1>1. /\ UNCHANGED <<episode, scored, steps>> /\ reply' = Waiting /\ ~(Answered)'
  BY AsksFrame DEF envVars, serverVars, Answered, Waiting
<1>2. Trace' = rows'
  BY <1>1 DEF Trace
<1>3. CASE \E d \in Deadlines : Start(d)
  <2>1. /\ phase' = "resetting" /\ rows' = << >>
        /\ final' = [done |-> FALSE, reward |-> "none"]
    BY <1>3 DEF Start
  <2>2. ~(InSession)'
    BY <1>1, <2>1 DEF InSession
  <2>3. Turns' /\ LastSeen' /\ Ledger(rows')
    BY <2>1, EmptyLedger DEF Turns, LastSeen
  <2> QED BY <1>1, <1>2, <2>1, <2>2, <2>3 DEF Seen, Counted
<1>4. CASE Act \/ Close \/ Fetch
  <2>1. /\ UNCHANGED <<turn, final, rows, rollouts>>
        /\ phase \in {"acting", "closing", "closed"}
        /\ phase' \in {"awaiting", "crossing", "fetching"}
        /\ phase' = "awaiting" => phase = "acting"
        /\ phase' = "crossing" => ~final.done
        /\ phase' = "fetching" => phase = "closed" \/ final.done
    BY <1>4 DEF Act, Close, Fetch, loopVars
  <2>2. phase # "idle" /\ Trace = rows /\ InSession /\ (InSession)'
    BY <2>1 DEF Trace, InSession
  <2>3. Ledger(rows) /\ LastSeen
    BY <2>2 DEF Seen
  <2>4. LastSeen'
    BY <2>1, <2>3 DEF LastSeen
  <2>5. Turns'
    <3>1. phase' = "awaiting" => \A i \in DOMAIN rows : rows[i].done => rows[i].turn = turn
      BY <2>1, <2>2 DEF Seen, Turns
    <3>2. phase' = "crossing" => NotDone(rows)
      BY <2>1, <2>3, LastDone
    <3>3. phase' = "fetching" => Paid(rows) # {}
      BY <2>1, <2>2, <2>3, LastDone DEF Seen, Turns
    <3> QED BY <1>1, <1>2, <2>1, <3>1, <3>2, <3>3 DEF Turns, NotDone, Paid
  <2>6. Counted'
    BY <1>1, <1>2, <2>1, <2>2 DEF Seen, Counted
  <2> QED BY <1>1, <1>2, <2>1, <2>3, <2>4, <2>5, <2>6 DEF Seen
<1> QED BY <1>3, <1>4 DEF Asks

(* A step that tells the running rollout nothing leaves what it has seen;  *)
(* the server may change under a rollout whose reset it has not answered.  *)
LEMMA UntoldSeen ==
  ASSUME Seen, UNCHANGED <<phase, reply, turn, final, rows, rollouts>>,
         InSession => UNCHANGED <<episode, scored, steps>>
  PROVE  Seen'
<1>1. UNCHANGED <<Trace, Answered>> /\ (InSession)' = InSession
  BY DEF Trace, Answered, InSession
<1>2. CASE InSession
  BY <1>1, <1>2 DEF Seen, Turns, LastSeen, Counted
<1>3. CASE ~InSession
  BY <1>1, <1>3 DEF Seen, Turns, LastSeen, Counted
<1> QED BY <1>2, <1>3

(* In a session the request at the head is the rollout's own, and its      *)
(* client is waiting for the answer.                                       *)
LEMMA HeadIsOurs ==
  ASSUME Types, Asked, Alone, InSession, inbox # << >>
  PROVE  Ours(Request) /\ reply = Waiting /\ phase # "resetting"
<1>1. Request = inbox[1] /\ 1 \in DOMAIN inbox
  BY HeadFacts
<1> QED BY <1>1 DEF Alone, Asked, InSession, Answered, Waiting

(* A step of the running rollout is taken.                                 *)
LEMMA StepSeen ==
  ASSUME Types, Resets, PaidAtTheEnd, Asked, Alone, Seen, phase # "idle",
         Ours(Request), reply = Waiting, HandleRefused \/ HandleStep
  PROVE  Seen'
<1>1. /\ inbox # << >> /\ Request.kind = "step" /\ opening = episode /\ episode # 0
      /\ Request = inbox[1] /\ 1 \in DOMAIN inbox
      /\ UNCHANGED <<episode, phase, turn, final, rows, rollouts>>
  BY HeadFacts DEF HandleRefused, HandleStep, Takes, loopVars
<1>2. /\ phase \in {"awaiting", "crossing"}
      /\ phase = "crossing" => Request.call.verb = "wait" /\ Request.call.d >= Horizon
      /\ InSession /\ ~Answered
  BY <1>1, ReplyFacts DEF Asked, Fits, InSession, Answered
<1>3. /\ Trace = rows /\ Ledger(rows) /\ Turns /\ LastSeen
      /\ episode = rollouts /\ steps = Len(rows) /\ (scored <=> Paid(rows) # {})
  BY <1>1, <1>2 DEF Trace, Seen, Alone, Counted
<1> DEFINE n == IF phase = "awaiting" THEN turn ELSE turn + 1
<1>4. n \in Nat /\ rows \in Seq(Row) /\ steps' = Len(rows) + 1
  BY <1>3, RolloutAssumption DEF Types, TypeOK, HandleRefused, HandleStep
<1>5. ASSUME NEW i \in DOMAIN rows, rows[i].done
      PROVE  Done(now) /\ rows[i].turn = n
  <2>1. scored
    BY <1>3, <1>5 DEF Ledger
  <2>2. phase = "awaiting" /\ rows[i].turn = turn
    BY <1>2, <1>3, <1>5 DEF Turns, NotDone
  <2> QED BY <2>1, <2>2 DEF PaidAtTheEnd
<1>6. \E body \in Result :
        /\ reply' = Ok(body)
        /\ scored' = (scored \/ body.reward # "none")
        /\ body.reward # "none" => ~scored /\ body.done
        /\ body.done => scored \/ body.reward # "none"
        /\ Done(now) => body.done
        /\ phase = "crossing" => body.done
  <2>1. CASE HandleRefused
    <3> DEFINE body == [done |-> Done(now), reward |-> "none"]
    <3>1. body \in Result /\ body.done = Done(now) /\ body.reward = "none"
      BY DEF Result, Rewards, Done
    <3>2. reply' = Ok(body) /\ scored' = scored /\ phase # "crossing"
      BY <1>2, <2>1 DEF HandleRefused, Send, Reply, Ours
    <3>3. scored <=> Done(now)
      BY DEF PaidAtTheEnd
    <3> HIDE DEF body
    <3> QED BY <3>1, <3>2, <3>3 DEF Types, TypeOK
  <2>2. CASE HandleStep
    <3> DEFINE body == [done |-> Done(now'),
                        reward |-> IF ~Done(now') \/ scored THEN "none"
                                   ELSE IF TimedOut(now') THEN "timeout" ELSE "completed"]
    <3>1. body \in Result /\ body.done = Done(now')
          /\ (body.reward # "none" <=> Done(now') /\ ~scored)
      BY DEF Result, Rewards, Done
    <3>2. reply' = Ok(body) /\ scored' = (scored \/ Done(now')) /\ now' = now + Request.call.d
      BY <2>2 DEF HandleStep, Send, Reply, Ours
    <3>3. Request.call.d \in Nat
      BY <1>1, HeadFacts, RequestFacts
    <3>4. /\ Done(now) => Done(now')
          /\ phase = "crossing" => Done(now')
      BY <1>2, <3>2, <3>3, DoneFacts
    <3>5. scored <=> Done(now)
      BY DEF PaidAtTheEnd
    <3> HIDE DEF body
    <3> QED BY <3>1, <3>2, <3>4, <3>5
  <2> QED BY <2>1, <2>2
<1>7. PICK body \in Result :
        /\ reply' = Ok(body)
        /\ scored' = (scored \/ body.reward # "none")
        /\ body.reward # "none" => ~scored /\ body.done
        /\ body.done => scored \/ body.reward # "none"
        /\ Done(now) => body.done
        /\ phase = "crossing" => body.done
  BY <1>6
<1>8. (Answered)' /\ reply'.body = body
  BY <1>7, ReplyFacts DEF Answered
<1>9. /\ Ledger(Append(rows, RowOf(n, body)))
      /\ Paid(Append(rows, RowOf(n, body))) # {} <=> scored \/ body.reward # "none"
  <2>1. scored \in BOOLEAN
    BY DEF Types, TypeOK
  <2> QED BY <1>3, <1>4, <1>5, <1>7, <2>1, Extend
<1>10. Trace' = Append(rows, RowOf(n, body))
  BY <1>1, <1>2, <1>8 DEF Trace, RowOf
<1>11. /\ Len(Trace') = Len(rows) + 1
       /\ \A i \in DOMAIN Trace' : Trace'[i].done => Trace'[i].turn = n
  <2>1. RowOf(n, body) \in Row /\ RowOf(n, body).turn = n
    BY <1>4 DEF RowOf, Row, Result
  <2> QED BY <1>4, <1>5, <1>10, <2>1, AppendFacts
<1>12. Turns'
  BY <1>1, <1>2, <1>3, <1>7, <1>8, <1>11 DEF Turns, NotDone
<1>13. LastSeen'
  BY <1>1, <1>3 DEF LastSeen
<1>14. Counted'
  BY <1>4, <1>7, <1>9, <1>10, <1>11 DEF Counted, Paid
<1> QED BY <1>1, <1>2, <1>8, <1>9, <1>10, <1>12, <1>13, <1>14 DEF Seen, Ledger, Paid

LEMMA AnswersSeen ==
  ASSUME Types, Resets, PaidAtTheEnd, Asked, Alone, Seen, Answers
  PROVE  Seen'
<1>1. /\ inbox # << >> /\ UNCHANGED <<episode, phase, turn, final, rows, rollouts>>
  BY AnswersFrame
<1>2. CASE ~(Ours(Request) /\ reply = Waiting)
  <2>1. reply' = reply
    BY <1>2, AnswersFrame, ReplyTo DEF Ours, Types
  <2>2. ~InSession
    BY <1>1, <1>2, HeadIsOurs
  <2> QED BY <1>1, <2>1, <2>2, UntoldSeen
<1>3. CASE phase = "idle"
  BY <1>1, <1>3 DEF Seen
<1>4. CASE Ours(Request) /\ reply = Waiting /\ phase # "idle"
  <2>1. Request = inbox[1] /\ 1 \in DOMAIN inbox /\ rollouts > 0 /\ Fits(phase, Request.kind)
    BY <1>1, <1>4, HeadFacts DEF Asked
  <2>2. CASE EndReset
    <3>1. /\ phase = "resetting" /\ reply' = Ok([done |-> FALSE, reward |-> "none"])
          /\ steps' = 0 /\ ~scored'
      BY <1>1, <1>4, <2>1, <2>2, AnswersFrame DEF EndReset, Send, Reply, Ours, Resets, Fits
    <3>2. /\ rows = << >> /\ LastSeen
      BY <3>1 DEF Seen
    <3>3. reply'.body = [done |-> FALSE, reward |-> "none"] /\ reply'.body \in Result
      BY <3>1, ReplyFacts, Beginnings
    <3>4. Trace' = << >>
      BY <1>1, <3>1, <3>2 DEF Trace
    <3>5. Turns' /\ LastSeen' /\ Counted'
      BY <1>1, <3>1, <3>2, <3>4, EmptyLedger DEF Turns, LastSeen, Counted
    <3> QED BY <1>1, <3>1, <3>2, <3>3, <3>4, <3>5, EmptyLedger DEF Seen
  <2>3. CASE HandleNoEpisode
    <3>1. /\ reply' = Failed /\ episode' = 0 /\ UNCHANGED rollouts
      BY <1>1, <1>4, <2>3 DEF HandleNoEpisode, Send, Reply, Ours
    <3>2. ~Answered /\ ~(Answered)'
      BY <1>4, <3>1, ReplyFacts DEF Answered
    <3>3. UNCHANGED Trace
      BY <1>1, <3>2 DEF Trace
    <3>4. Turns' /\ LastSeen' /\ Counted'
      BY <1>1, <1>4, <2>1, <3>1, <3>2, <3>3 DEF Seen, Turns, LastSeen, Counted
    <3> QED BY <1>1, <1>4, <3>2, <3>3, <3>4 DEF Seen
  <2>4. CASE HandleRefused \/ HandleStep
    BY <1>4, <2>4, StepSeen
  <2> QED BY <2>2, <2>3, <2>4 DEF Answers
<1> QED BY <1>2, <1>3, <1>4

LEMMA NextSeen ==
  ASSUME Types, Resets, PaidAtTheEnd, Asked, Alone, Seen, [Next]_vars
  PROVE  Seen'
<1>1. CASE HandleReset
  <2>1. /\ inbox # << >> /\ Request.kind = "reset"
        /\ UNCHANGED <<phase, reply, turn, final, rows, rollouts>>
    BY <1>1 DEF HandleReset, Takes, loopVars
  <2>2. ~InSession
    BY <2>1, HeadIsOurs, HeadFacts DEF Asked, Fits, InSession
  <2> QED BY <2>1, <2>2, UntoldSeen
<1>2. CASE HandleTrajectory
  BY <1>2, UntoldSeen DEF HandleTrajectory, serverVars, loopVars
<1>3. CASE Reads
  <2>1. UNCHANGED <<episode, scored, steps, phase, turn, final, rows, rollouts>>
    BY <1>3, ReadsFrame DEF serverVars, loopVars
  <2>2. CASE reply' = reply
    BY <2>1, <2>2, UntoldSeen
  <2>3. CASE phase = "idle"
    BY <2>1, <2>3 DEF Seen
  <2>4. CASE reply' # reply /\ phase # "idle"
    <3>1. phase = "fetching"
      BY <1>3, <2>4 DEF Reads, ReadOpening, ReadEvents, Reply, Asked, Ours
    <3>2. Trace = rows /\ Trace' = rows /\ InSession
      BY <2>1, <3>1 DEF Trace, InSession
    <3>3. Turns' /\ LastSeen' /\ Counted'
      BY <2>1, <3>1, <3>2 DEF Seen, Turns, LastSeen, Counted
    <3> QED BY <2>1, <3>1, <3>2, <3>3 DEF Seen
  <2> QED BY <2>2, <2>3, <2>4
<1>4. CASE Restart
  <2>1. /\ UNCHANGED <<phase, turn, final, rows, rollouts>> /\ episode' = 0
        /\ reply' = reply \/ (~Answered /\ ~(Answered)')
    BY <1>4, ReplyFacts DEF Restart, loopVars, Answered
  <2>2. UNCHANGED Trace /\ ((Answered)' <=> Answered)
        /\ (Answered => reply'.body = reply.body)
    BY <2>1 DEF Trace, Answered
  <2>3. phase # "idle" => Counted'
    BY <2>1 DEF Counted, Asked
  <2>4. CASE phase # "idle"
    <3>1. Turns' /\ LastSeen'
      BY <2>1, <2>2, <2>4 DEF Seen, Turns, LastSeen
    <3> QED BY <2>1, <2>2, <2>3, <2>4, <3>1 DEF Seen
  <2> QED BY <2>1, <2>4 DEF Seen
<1>5. CASE UNCHANGED vars
  BY <1>5, UntoldSeen DEF vars, envVars, serverVars, loopVars
<1> QED BY <1>1, <1>2, <1>3, <1>4, <1>5, Steps, LocalSeen, AsksSeen, AnswersSeen
        DEF Serves, Answers

-----------------------------------------------------------------------------
(* What is fetched, and what is written of it.                             *)
LEMMA ServesFetching ==
  ASSUME Types, Resets, Asked, Alone, Serves, phase = "fetching"
  PROVE  HandleTrajectory
<1>1. InSession
  BY DEF InSession
<1>2. inbox # << >>
  BY AnswersFrame DEF Serves, Answers, HandleReset, HandleTrajectory, Takes
<1>3. Request.kind = "trajectory"
  BY <1>1, <1>2, HeadIsOurs, HeadFacts DEF Asked, Fits
<1> QED BY <1>3, AnswersFrame DEF Serves, Answers, HandleReset, Takes

LEMMA NextFetched ==
  ASSUME Types, Resets, Asked, Alone, Fetched, [Next]_vars
  PROVE  Fetched'
<1> SUFFICES ASSUME phase' = "fetching" PROVE Fetched'
  BY DEF Fetched
<1>1. CASE Local
  BY <1>1 DEF Local, Opened, OutOfTurns, Finish, Observe, TurnEnds, Crossed, Persist,
     Die, GiveUp, Think
<1>2. CASE Asks
  <2>1. Fetch /\ phase # "idle" /\ phase \in {"closing", "closed"}
    BY <1>2 DEF Asks, Start, Act, Close, Fetch
  <2>2. Unasked /\ UNCHANGED <<readers, rollouts>> /\ reply' = Waiting
    BY <2>1, NothingAsked DEF Fetch, Post, envVars
  <2> QED BY <2>2 DEF Fetched, Unasked, Ours, Answered, Waiting
<1>3. CASE Serves
  <2>1. phase = "fetching"
    BY <1>3, AnswersFrame DEF Serves, Answers, HandleReset, HandleTrajectory
  <2>2. HandleTrajectory
    BY <1>3, <2>1, ServesFetching
  <2> QED BY <2>1, <2>2 DEF HandleTrajectory, Fetched, Ours, Answered, serverVars
<1>4. CASE Reads
  <2>1. UNCHANGED <<episode, opening, events, rollouts, restarts>> /\ phase = "fetching"
    BY <1>4, ReadsFrame DEF serverVars
  <2>2. restarts = 0 => episode = rollouts /\ opening = rollouts
    BY <2>1 DEF Alone, InSession
  <2>3. PICK r \in readers : ReadOpening(r) \/ ReadEvents(r)
    BY <1>4 DEF Reads
  <2>4. r \in [from : 1 .. rollouts, read : BOOLEAN, opening : 0 .. rollouts]
    BY DEF Types, TypeOK
  <2>5. CASE ReadOpening(r)
    <3> DEFINE q == [r EXCEPT !.read = TRUE, !.opening = opening]
    <3>1. q.opening = opening /\ readers' = (readers \ {r}) \cup {q} /\ reply' = reply
      BY <2>4, <2>5 DEF ReadOpening
    <3> HIDE DEF q
    <3> QED BY <2>1, <2>2, <3>1 DEF Fetched, Ours, Answered
  <2>6. CASE ReadEvents(r)
    <3> DEFINE log == [opening |-> r.opening, episode |-> episode, events |-> events]
    <3>1. readers' = readers \ {r} /\ r.read
      BY <2>6 DEF ReadEvents
    <3>2. CASE reply' = reply
      BY <2>1, <3>1, <3>2 DEF Fetched, Ours, Answered
    <3>3. CASE reply' # reply
      <4>1. Ours(r) /\ reply' = Ok(log)
        BY <2>6, <3>3 DEF ReadEvents, Reply, Ours
      <4>2. log \in Logs
        BY <2>4 DEF Logs, Types, TypeOK
      <4>3. reply'.body = log
        BY <4>1, <4>2, ReplyFacts
      <4>4. restarts = 0 => r.opening = rollouts
        BY <2>1, <3>1, <4>1 DEF Fetched
      <4> QED BY <2>1, <2>2, <3>1, <4>2, <4>3, <4>4 DEF Fetched, Ours
    <3> QED BY <3>2, <3>3
  <2> QED BY <2>3, <2>5, <2>6
<1>5. CASE Restart
  <2>1. /\ restarts' # 0 /\ readers' = {} /\ phase = "fetching"
        /\ reply' = reply \/ ~(Answered)'
    BY <1>5, ReplyFacts DEF Restart, Types, Answered
  <2> QED BY <2>1 DEF Fetched, Answered
<1>6. CASE UNCHANGED vars
  BY <1>6 DEF vars, envVars, serverVars, Fetched, Ours, Answered
<1> QED BY <1>1, <1>2, <1>3, <1>4, <1>5, <1>6, Steps

(* A run in which one row is paid and the last one is done has the reward  *)
(* in its last row, unless the turn of that row has an other row.          *)
LEMMA OneCallPays ==
  ASSUME Types, Ledger(rows), LastSeen, Paid(rows) # {}
  PROVE  /\ Cardinality(Paid(rows)) = 1
         /\ OneCallPerTurn(rows) => final.reward # "none"
<1>1. PICK p : p \in Paid(rows)
  OBVIOUS
<1>2. Paid(rows) = {p} /\ p \in DOMAIN rows /\ rows[p].done /\ rows[p].reward # "none"
  BY <1>1 DEF Ledger, Paid
<1>3. Cardinality(Paid(rows)) = 1
  BY <1>2, FS_Singleton
<1>4. ASSUME OneCallPerTurn(rows) PROVE final.reward # "none"
  <2> DEFINE n == Len(rows)
  <2>1. n \in DOMAIN rows /\ n \in Nat /\ p \in Nat /\ p <= n /\ rows # << >>
    BY <1>2 DEF Types, TypeOK
  <2>2. final.reward = rows[n].reward
    BY <2>1 DEF LastSeen
  <2>3. p = n
    <3>1. CASE p < n
      <4>1. rows[n].turn = rows[p].turn
        BY <1>2, <2>1, <3>1 DEF Ledger
      <4> QED BY <1>2, <1>4, <2>1, <3>1, <4>1 DEF OneCallPerTurn
    <3> QED BY <2>1, <3>1
  <2> QED BY <1>2, <2>2, <2>3
<1> QED BY <1>3, <1>4

LEMMA PersistWritten ==
  ASSUME Types, Asked, Alone, Seen, Fetched, Persist
  PROVE  Written'
<1>1. /\ phase = "fetching" /\ Answered /\ phase' = "idle"
      /\ disk' = [written |-> TRUE, reward |-> final.reward, rows |-> rows, log |-> reply.body]
      /\ UNCHANGED <<episode, opening, scored, steps, events, inbox, rollouts, restarts>>
  BY DEF Persist, envVars, serverVars
<1>2. /\ disk'.reward = final.reward /\ disk'.rows = rows /\ disk'.log = reply.body
  BY <1>1
<1>3. InSession /\ phase # "idle" /\ Trace = rows
  BY <1>1 DEF InSession, Trace
<1>4. Unasked
  BY <1>1, <1>3, NothingAsked, ReplyFacts DEF Answered
<1>5. inbox = << >> /\ rollouts > 0 /\ opening = episode
  <2>1. DOMAIN inbox = {}
    BY <1>3, <1>4 DEF Alone, Unasked
  <2> QED BY <1>3, <2>1 DEF Types, Asked, Alone
<1>6. Ledger(rows) /\ LastSeen /\ Paid(rows) # {}
  BY <1>1, <1>3 DEF Seen, Turns
<1>7. RunsAreGraded'
  <2>1. episode = rollouts => scored
    BY <1>3, <1>6 DEF Seen, Counted
  <2> QED BY <1>1, <1>2, <1>6, <2>1, OneCallPays DEF RunsAreGraded, Paid, OneCallPerTurn
<1>8. RowsAreTheSteps'
  <2>1. ASSUME restarts = 0
        PROVE  /\ Len(rows) = steps
               /\ reply.body = [opening |-> rollouts, episode |-> rollouts, events |-> events]
    <3>1. episode = rollouts
      BY <1>3, <2>1 DEF Alone
    <3> QED BY <1>1, <1>3, <2>1, <3>1 DEF Seen, Counted, Fetched
  <2> QED BY <1>1, <1>2, <2>1 DEF RowsAreTheSteps
<1> QED BY <1>1, <1>5, <1>7, <1>8 DEF Written

LEMMA NextWritten ==
  ASSUME IInv, [Next]_vars
  PROVE  Written'
<1> USE DEF IInv
<1>1. CASE Persist
  BY <1>1, PersistWritten
<1>2. CASE Local /\ ~Persist
  <2>1. phase # "idle" /\ disk' = disk
    BY <1>2 DEF Local, Opened, OutOfTurns, Finish, Observe, TurnEnds, Crossed, Die, GiveUp, Think
  <2> QED BY <2>1 DEF Written
<1>3. CASE Asks
  <2>1. ~disk'.written
    <3>1. CASE \E d \in Deadlines : Start(d)
      <4>1. disk' = [written |-> FALSE]
        BY <3>1 DEF Start, NoRun
      <4> QED BY <4>1
    <3>2. CASE Act \/ Close \/ Fetch
      <4>1. disk' = disk /\ phase # "idle"
        BY <3>2 DEF Act, Close, Fetch
      <4> QED BY <4>1 DEF Written
    <3> QED BY <1>3, <3>1, <3>2 DEF Asks
  <2> QED BY <2>1 DEF Written
<1>4. CASE Serves
  <2>1. disk' = disk /\ (inbox # << >> \/ opening # episode)
    BY <1>4, AnswersFrame DEF Serves, Answers, HandleReset, HandleTrajectory, Takes
  <2> QED BY <2>1 DEF Written
<1>5. CASE Reads
  BY <1>5, ReadsFrame DEF Written, RunsAreGraded, RowsAreTheSteps, serverVars
<1>6. CASE Restart
  <2>1. /\ UNCHANGED <<disk, phase, rollouts>> /\ inbox' = << >>
        /\ opening' = 0 /\ episode' = 0 /\ restarts' # 0
    BY <1>6 DEF Restart, Types
  <2> QED BY <2>1 DEF Written, RunsAreGraded, RowsAreTheSteps
<1>7. CASE UNCHANGED vars
  BY <1>7 DEF vars, envVars, serverVars, Written, RunsAreGraded, RowsAreTheSteps
<1> QED BY <1>1, <1>2, <1>3, <1>4, <1>5, <1>6, <1>7, Steps

-----------------------------------------------------------------------------
LEMMA InitInv ==
  ASSUME Init
  PROVE  IInv
<1>1. Resets /\ Asked /\ Alone /\ Seen /\ Fetched
  BY DEF Init, Resets, Asked, Alone, InSession, Seen, Fetched
<1>2. PaidAtTheEnd
  BY RolloutAssumption DEF Init, PaidAtTheEnd, Done
<1>3. Written
  BY DEF Init, Written, NoRun
<1> QED BY <1>1, <1>2, <1>3, InitTypes DEF IInv

LEMMA NextInv ==
  ASSUME IInv, [Next]_vars
  PROVE  IInv'
  BY NextTypes, NextResets, NextPaidAtTheEnd, NextAsked, NextAlone, NextSeen, NextFetched,
   NextWritten DEF IInv

THEOREM Invariance == Spec => []IInv
<1>1. Init => IInv
  BY InitInv
<1>2. IInv /\ [Next]_vars => IInv'
  BY NextInv
<1> QED BY <1>1, <1>2, PTL DEF Spec

(* The loop, the server, its threads and what is in flight between them    *)
(* keep to their types: whatever is queued or read was sent by a rollout   *)
(* that was started.                                                       *)
THEOREM TypeCorrect == Spec => []TypeOK
<1>1. IInv => TypeOK
  BY DEF IInv, Types
<1> QED BY <1>1, Invariance, PTL

(* Every run that pm_agent_llm.py writes was graded: one row carries the   *)
(* reward, whoever ended the loop and whenever, and the manifest has it if *)
(* the model made one call per answer.                                     *)
THEOREM RunsGraded == Spec => []RunsAreGraded
<1>1. IInv => RunsAreGraded
  BY DEF IInv, Written, RunsAreGraded
<1> QED BY <1>1, Invariance, PTL

(* Every run written while the server stays up is the whole of its own     *)
(* episode, whatever earlier rollouts left on its way or in a thread.      *)
THEOREM RowsComplete == Spec => []RowsAreTheSteps
<1>1. IInv => RowsAreTheSteps
  BY DEF IInv, Written, RowsAreTheSteps
<1> QED BY <1>1, Invariance, PTL
=============================================================================
