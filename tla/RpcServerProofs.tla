-------------------------- MODULE RpcServerProofs ---------------------------
(***************************************************************************)
(* What one server guarantees its clients for any number of them, any      *)
(* scenarios and any course of requests: a loaded timeline plays out in    *)
(* the world it was loaded into, that world is written in order and nobody *)
(* outside the cast answers in it, and the clock is moved only by an       *)
(* advance that is accepted.                                               *)
(***************************************************************************)
EXTENDS RpcServer, SequenceTheorems, FiniteSetTheorems, TLAPS

-----------------------------------------------------------------------------
(* Sorting a batch.                                                        *)

(* What can be sorted by (sim_time, seq): no two members share a seq.      *)
Sortable(S) ==
  /\ S \subseteq Event /\ IsFiniteSet(S)
  /\ \A e, f \in S : e.seq = f.seq => e = f

Below(S, x) == {y \in S : Before(y, x)}

LEMMA InOrderIs ==
  ASSUME NEW S
  PROVE  InOrder(S) = [n \in 1 .. Cardinality(S) |->
                         CHOOSE x \in S : Cardinality(Below(S, x)) = n - 1]
BY Zenon DEF InOrder, Ranked, Below

(* Before is a strict total order on what can be sorted.                   *)
LEMMA BeforeOrders ==
  ASSUME NEW S, Sortable(S), NEW x \in S, NEW y \in S
  PROVE  /\ ~Before(x, x)
         /\ Before(x, y) => ~Before(y, x)
         /\ Before(x, y) \/ Before(y, x) \/ x = y
         /\ \A z \in S : Before(x, y) /\ Before(y, z) => Before(x, z)
<1>1. \A z \in S : z.time \in Nat /\ z.seq \in Nat
  BY DEF Sortable, Event
<1>2. x.seq = y.seq => x = y
  BY DEF Sortable
<1> QED  BY <1>1, <1>2 DEF Before

(* Fewer members come before an earlier one.                               *)
LEMMA RankGrows ==
  ASSUME NEW S, Sortable(S), NEW x \in S, NEW y \in S, Before(x, y)
  PROVE  Cardinality(Below(S, x)) < Cardinality(Below(S, y))
<1>1. IsFiniteSet(Below(S, y))
  <2>1. Below(S, y) \in SUBSET S
    BY DEF Below
  <2> QED  BY <2>1, FS_Subset DEF Sortable
<1>2. Below(S, x) \in SUBSET Below(S, y)
  BY BeforeOrders DEF Below
<1>3. x \in Below(S, y) /\ x \notin Below(S, x)
  BY BeforeOrders DEF Below
<1>4. /\ IsFiniteSet(Below(S, x))
      /\ Cardinality(Below(S, x)) <= Cardinality(Below(S, y))
      /\ Cardinality(Below(S, x)) # Cardinality(Below(S, y))
  BY <1>1, <1>2, <1>3, FS_Subset
<1>5. Cardinality(Below(S, x)) \in Nat /\ Cardinality(Below(S, y)) \in Nat
  BY <1>1, <1>4, FS_CardinalityType
<1> QED  BY <1>4, <1>5

(* Every place is the rank of exactly one member.                          *)
LEMMA RankOnto ==
  ASSUME NEW S, Sortable(S)
  PROVE  /\ Cardinality(S) \in Nat
         /\ \A x \in S : Cardinality(Below(S, x)) \in 0 .. Cardinality(S) - 1
         /\ \A n \in 1 .. Cardinality(S) : \E x \in S : Cardinality(Below(S, x)) = n - 1
         /\ \A x, y \in S : Cardinality(Below(S, x)) = Cardinality(Below(S, y)) => x = y
<1> DEFINE N == Cardinality(S)
           T == 0 .. N - 1
           r == [x \in S |-> Cardinality(Below(S, x))]
<1>1. IsFiniteSet(S) /\ N \in Nat
  BY FS_CardinalityType DEF Sortable
<1>2. ASSUME NEW x \in S  PROVE Cardinality(Below(S, x)) \in T
  <2>1. Below(S, x) \in SUBSET S /\ x \notin Below(S, x)
    BY BeforeOrders DEF Below
  <2>2. /\ IsFiniteSet(Below(S, x))
        /\ Cardinality(Below(S, x)) <= N
        /\ Cardinality(Below(S, x)) # N
    BY <1>1, <2>1, FS_Subset
  <2>3. Cardinality(Below(S, x)) \in Nat
    BY <2>2, FS_CardinalityType
  <2> QED  BY <1>1, <2>2, <2>3
<1>3. ASSUME NEW x \in S, NEW y \in S, Cardinality(Below(S, x)) = Cardinality(Below(S, y))
      PROVE  x = y
  <2>1. Cardinality(Below(S, x)) \in Nat /\ Cardinality(Below(S, y)) \in Nat
    BY <1>2
  <2>2. ~Before(x, y) /\ ~Before(y, x)
    BY <1>3, <2>1, RankGrows
  <2> QED  BY <2>2, BeforeOrders
<1>4. IsFiniteSet(T) /\ Cardinality(T) = N
  BY <1>1, FS_Interval
<1>5. r \in Injection(S, T)
  BY <1>2, <1>3 DEF Injection, IsInjective
<1> HIDE DEF T, r
<1>6. r \in Surjection(S, T)
  BY <1>1, <1>4, <1>5, FS_Injection
<1>7. \A t \in T : \E x \in S : r[x] = t
  BY <1>6 DEF Surjection
<1>8. ASSUME NEW n \in 1 .. N  PROVE \E x \in S : Cardinality(Below(S, x)) = n - 1
  <2>1. n - 1 \in T
    BY <1>1 DEF T
  <2>2. PICK x \in S : r[x] = n - 1
    BY <1>7, <2>1
  <2> QED  BY <2>2 DEF r
<1> QED  BY <1>1, <1>2, <1>3, <1>8 DEF T

(* InOrder lists a batch: every member once, the earlier first.            *)
LEMMA InOrderSorts ==
  ASSUME NEW S, Sortable(S)
  PROVE  /\ InOrder(S) \in Seq(S) /\ InOrder(S) \in Seq(Event)
         /\ Len(InOrder(S)) = Cardinality(S) /\ Cardinality(S) \in Nat
         /\ \A i \in 1 .. Cardinality(S) : InOrder(S)[i] \in S
         /\ \A x \in S : \E i \in 1 .. Cardinality(S) : InOrder(S)[i] = x
         /\ \A i, j \in 1 .. Cardinality(S) : i < j => Before(InOrder(S)[i], InOrder(S)[j])
<1> DEFINE N == Cardinality(S)
           s == InOrder(S)
<1>1. /\ N \in Nat
      /\ \A x \in S : Cardinality(Below(S, x)) \in 0 .. N - 1
      /\ \A n \in 1 .. N : \E x \in S : Cardinality(Below(S, x)) = n - 1
      /\ \A x, y \in S : Cardinality(Below(S, x)) = Cardinality(Below(S, y)) => x = y
  BY RankOnto
<1>2. s = [n \in 1 .. N |-> CHOOSE x \in S : Cardinality(Below(S, x)) = n - 1]
  BY InOrderIs
<1> HIDE DEF N, s
<1>3. ASSUME NEW n \in 1 .. N  PROVE s[n] \in S /\ Cardinality(Below(S, s[n])) = n - 1
  <2>1. s[n] = CHOOSE x \in S : Cardinality(Below(S, x)) = n - 1
    BY <1>2
  <2> QED  BY <1>1, <2>1, Zenon
<1>4. \A i \in 1 .. N : s[i] \in S
  BY <1>3
<1>5. s = [i \in 1 .. N |-> s[i]]
  BY <1>2
<1>6. s \in Seq(S)
  BY <1>1, <1>4, <1>5, IsASeq
<1>7. s \in Seq(Event)
  <2>1. \A i \in 1 .. N : s[i] \in Event
    BY <1>4 DEF Sortable
  <2> QED  BY <1>1, <1>5, <2>1, IsASeq
<1>8. Len(s) = N
  <2>1. DOMAIN s = 1 .. N
    BY <1>2
  <2> QED  BY <1>1, <1>6, <2>1, LenProperties
<1>9. ASSUME NEW x \in S  PROVE \E i \in 1 .. N : s[i] = x
  <2> DEFINE n == Cardinality(Below(S, x)) + 1
  <2>1. n \in 1 .. N /\ n - 1 = Cardinality(Below(S, x))
    BY <1>1
  <2>2. s[n] \in S /\ Cardinality(Below(S, s[n])) = Cardinality(Below(S, x))
    BY <1>3, <2>1
  <2> QED  BY <1>1, <2>1, <2>2
<1>10. ASSUME NEW i \in 1 .. N, NEW j \in 1 .. N, i < j  PROVE Before(s[i], s[j])
  <2>1. /\ s[i] \in S /\ s[j] \in S
        /\ Cardinality(Below(S, s[i])) = i - 1 /\ Cardinality(Below(S, s[j])) = j - 1
    BY <1>3
  <2>2. s[i] # s[j]
    BY <1>1, <1>10, <2>1
  <2>3. ~Before(s[j], s[i])
    <3>1. ~(j - 1 < i - 1)
      BY <1>1, <1>10
    <3> QED  BY <2>1, <3>1, RankGrows
  <2> QED  BY <2>1, <2>2, <2>3, BeforeOrders
<1> QED  BY <1>1, <1>4, <1>6, <1>7, <1>8, <1>9, <1>10 DEF N, s

-----------------------------------------------------------------------------
(* The inductive invariant.                                                *)

Advances == [open : BOOLEAN, target : Nat, saw : Nat, drift : Nat]

Types ==
  /\ now \in Nat /\ seq \in Nat
  /\ queue \subseteq Event /\ IsFiniteSet(queue)
  /\ world \in Seq(Event)
  /\ cast \subseteq People /\ guard \subseteq Edits
  /\ advance \in [Clients -> Advances]
  /\ \A c \in Clients : snap[c] \in Seq(Event)
  /\ ok \in BOOLEAN /\ replaced \in BOOLEAN
  /\ loads \in 0 .. MaxLoads
  /\ loaded \in [scenario : Scenarios \cup {NoScenario}, at : Nat]

(* Pending events are distinct and were issued by the counter, none of     *)
(* them for a scenario that is not loaded yet, and a call's own mutation   *)
(* is never one of them.                                                   *)
QueueInv ==
  /\ \A e, f \in queue : e.seq = f.seq => e = f
  /\ \A e \in queue : e.seq <= seq /\ e.load <= loads /\ e.kind \in {"script", "reply"}

(* The engine is that of the scenario loaded last, and only its load       *)
(* leaves anything queued behind the clock.                                *)
CastInv ==
  loads > 0 =>
    /\ loaded.scenario \in Scenarios
    /\ cast = Cast[loaded.scenario]
    /\ \A e \in queue : e.time > now \/ e.time <= loaded.at

(* What a loaded world was written by was due and issued, comes before all *)
(* that is pending, and lies in order.                                     *)
WorldInv ==
  Running =>
    /\ \A i \in DOMAIN world : /\ world[i].time <= now /\ world[i].seq <= seq
                               /\ world[i].kind = "reply" => world[i].about \in cast
                               /\ world[i].kind \notin {"script", "reply"} =>
                                    world[i].load = loads
                               /\ \A e \in queue : Before(world[i], e)
    /\ \A i, j \in DOMAIN world : i < j => Before(world[i], world[j])

IsEntry(i, e) == e.kind = "script" /\ e.load = loads /\ e.about = i

Minute(i) == Script[loaded.scenario][i]

(* An entry of the timeline is one event, at its minute: pending, or in    *)
(* one place of the world, and not both.                                   *)
PlayInv ==
  Running => \A i \in DOMAIN Script[loaded.scenario] :
    /\ \A e \in queue : IsEntry(i, e) => e.time = Minute(i)
    /\ \A e, f \in queue : IsEntry(i, e) /\ IsEntry(i, f) => e = f
    /\ \A k \in DOMAIN world : IsEntry(i, world[k]) => world[k].time = Minute(i)
    /\ \A k, l \in DOMAIN world : IsEntry(i, world[k]) /\ IsEntry(i, world[l]) => k = l
    /\ (\E e \in queue : IsEntry(i, e)) <=> ~\E k \in DOMAIN world : IsEntry(i, world[k])

(* The clock is what an advance under way has seen, and what others have   *)
(* moved it by since.                                                      *)
AdvanceInv ==
  \A c \in Clients : advance[c].open => now = advance[c].saw + advance[c].drift

IInv == Types /\ QueueInv /\ CastInv /\ WorldInv /\ PlayInv /\ AdvanceInv

-----------------------------------------------------------------------------
(* What a request does to the queue and the world.                         *)

(* A request that fires: what is due by t, and at the clock the mutation   *)
(* it carries (of X, one event or none), go through the world; the answer  *)
(* owed (of F, one event or none) is queued.                               *)
Fires(t, X, F) ==
  /\ world' = world \o InOrder({e \in Due(t) \cup X : Writes(e)})
  /\ queue' = (queue \ Due(t)) \cup F
  /\ t \in Int /\ now' \in Nat /\ t <= now'
  /\ now' = t \/ now' = now
  /\ now <= now'
  /\ X \subseteq Event /\ F \subseteq Event /\ IsFiniteSet(X) /\ IsFiniteSet(F)
  /\ X # {} => t = now /\ now' = now
  /\ F # {} => now' = now
  /\ \A e \in X : /\ e.seq = seq + 1 /\ e.time = now /\ e.load = loads
                  /\ e.kind # "script" /\ e.kind # "reply"
  /\ \A e, f \in X : e = f
  /\ \A e \in F : /\ e.seq = seq + 2 /\ e.time > now /\ e.kind = "reply" /\ e.load = loads
  /\ \A e, f \in F : e = f
  /\ seq' \in Nat /\ seq' >= seq
  /\ X # {} => seq' >= seq + 1
  /\ F # {} => seq' >= seq + 2
  /\ UNCHANGED <<loadVars, replaced>>

(* Everything that fires is known, finite and distinct.                    *)
LEMMA BatchSortable ==
  ASSUME Types, QueueInv, NEW t \in Int, NEW X \in SUBSET Event, IsFiniteSet(X),
         \A e \in X : e.seq = seq + 1, \A e, f \in X : e = f
  PROVE  Sortable({e \in Due(t) \cup X : Writes(e)})
<1> DEFINE W == {e \in Due(t) \cup X : Writes(e)}
<1>1. Due(t) \in SUBSET queue
  BY DEF Due
<1>2. IsFiniteSet(Due(t))
  BY <1>1, FS_Subset DEF Types
<1>3. IsFiniteSet(Due(t) \cup X)
  BY <1>2, FS_Union
<1>4. W \in SUBSET (Due(t) \cup X)
  OBVIOUS
<1>5. IsFiniteSet(W)
  BY <1>3, <1>4, FS_Subset
<1>6. \A e \in W : e \in queue \/ e \in X
  BY <1>1
<1>7. W \subseteq Event
  BY <1>6 DEF Types
<1>8. \A e \in queue : e.seq \in Nat /\ e.seq <= seq
  BY DEF Types, QueueInv, Event
<1>9. ASSUME NEW e \in W, NEW f \in W, e.seq = f.seq  PROVE e = f
  <2>1. seq \in Nat
    BY DEF Types
  <2> QED  BY <1>6, <1>8, <1>9, <2>1 DEF QueueInv
<1> QED  BY <1>5, <1>7, <1>9 DEF Sortable

(* The world grows by those of them that write, in order.                  *)
LEMMA WorldGrows ==
  ASSUME Types, NEW W, Sortable(W), world' = world \o InOrder(W)
  PROVE  /\ world' \in Seq(Event)
         /\ Len(world) \in Nat /\ DOMAIN world = 1 .. Len(world)
         /\ Len(world') \in Nat /\ DOMAIN world' = 1 .. Len(world')
         /\ Len(world) <= Len(world')
         /\ \A i \in DOMAIN world : i \in DOMAIN world' /\ world'[i] = world[i]
         /\ \A i \in Len(world) + 1 .. Len(world') : world'[i] \in W
         /\ \A e \in W : \E i \in Len(world) + 1 .. Len(world') : world'[i] = e
         /\ \A i, j \in Len(world) + 1 .. Len(world') :
              i < j => Before(world'[i], world'[j])
         /\ IsPrefix(world, world')
<1> DEFINE s == InOrder(W)
           N == Cardinality(W)
           L == Len(world)
<1>1. /\ s \in Seq(Event) /\ Len(s) = N /\ N \in Nat
      /\ \A i \in 1 .. N : s[i] \in W
      /\ \A x \in W : \E i \in 1 .. N : s[i] = x
      /\ \A i, j \in 1 .. N : i < j => Before(s[i], s[j])
  BY InOrderSorts
<1> HIDE DEF s, N
<1>2. world \in Seq(Event) /\ L \in Nat /\ DOMAIN world = 1 .. L
  BY LenProperties DEF Types
<1>3. /\ world' \in Seq(Event) /\ Len(world') = L + N
      /\ \A i \in 1 .. L + N : world'[i] = IF i <= L THEN world[i] ELSE s[i - L]
  BY <1>1, <1>2, ConcatProperties DEF s
<1>4. DOMAIN world' = 1 .. Len(world') /\ Len(world') \in Nat
  BY <1>3, LenProperties
<1>5. \A i \in DOMAIN world : i \in DOMAIN world' /\ world'[i] = world[i]
  BY <1>1, <1>2, <1>3, <1>4
<1>6. ASSUME NEW i \in L + 1 .. Len(world')
      PROVE  i - L \in 1 .. N /\ world'[i] = s[i - L]
  BY <1>1, <1>2, <1>3, <1>6
<1>7. \A i \in L + 1 .. Len(world') : world'[i] \in W
  BY <1>1, <1>6
<1>8. ASSUME NEW e \in W  PROVE \E i \in L + 1 .. Len(world') : world'[i] = e
  <2>1. PICK n \in 1 .. N : s[n] = e
    BY <1>1
  <2>2. L + n \in L + 1 .. Len(world') /\ (L + n) - L = n
    BY <1>1, <1>2, <1>3
  <2> QED  BY <1>6, <2>1, <2>2
<1>9. \A i, j \in L + 1 .. Len(world') : i < j => Before(world'[i], world'[j])
  <2> SUFFICES ASSUME NEW i \in L + 1 .. Len(world'), NEW j \in L + 1 .. Len(world'), i < j
               PROVE  Before(world'[i], world'[j])
    OBVIOUS
  <2>1. i - L \in 1 .. N /\ j - L \in 1 .. N /\ i - L < j - L
    BY <1>2, <1>6
  <2> QED  BY <1>1, <1>6, <2>1
<1>10. IsPrefix(world, world')
  <2>1. SubSeq(world, 1, L) = SubSeq(world', 1, L)
    <3>1. SubSeq(world, 1, L) = [i \in 1 .. L |-> world[i]]
      BY <1>2, SubSeqProperties
    <3>2. SubSeq(world', 1, L) = [i \in 1 .. L |-> world'[i]]
      BY <1>1, <1>2, <1>3, SubSeqProperties
    <3> QED  BY <1>2, <1>5, <3>1, <3>2
  <2> QED  BY <1>1, <1>2, <1>3, <2>1 DEF IsPrefix
<1>11. L <= Len(world')
  BY <1>1, <1>2, <1>3
<1> QED  BY <1>2, <1>3, <1>4, <1>5, <1>7, <1>8, <1>9, <1>10, <1>11, Zenon

(* What fires by t leaves the queue and writes, unless it is the reply of  *)
(* a stranger.                                                             *)
LEMMA FiresWorldGrows ==
  ASSUME Types, QueueInv, NEW t, NEW X, NEW F, Fires(t, X, F)
  PROVE  /\ world' \in Seq(Event)
         /\ Len(world) \in Nat /\ DOMAIN world = 1 .. Len(world)
         /\ Len(world') \in Nat /\ DOMAIN world' = 1 .. Len(world')
         /\ Len(world) <= Len(world')
         /\ \A i \in DOMAIN world : i \in DOMAIN world' /\ world'[i] = world[i]
         /\ \A i \in DOMAIN world' :
              \/ i \in DOMAIN world
              \/ /\ i \in Len(world) + 1 .. Len(world')
                 /\ world'[i] \in Due(t) \/ world'[i] \in X
                 /\ Writes(world'[i])
         /\ \A e \in Due(t) : Writes(e) => \E i \in DOMAIN world' : world'[i] = e
         /\ \A i, j \in Len(world) + 1 .. Len(world') :
              i < j => Before(world'[i], world'[j])
         /\ IsPrefix(world, world')
<1> DEFINE W == {e \in Due(t) \cup X : Writes(e)}
<1>1. t \in Int /\ X \in SUBSET Event /\ IsFiniteSet(X)
  BY DEF Fires
<1>2. (\A e \in X : e.seq = seq + 1) /\ \A e, f \in X : e = f
  BY DEF Fires
<1>3. Sortable(W)
  BY <1>1, <1>2, BatchSortable
<1>4. world' = world \o InOrder(W)
  BY DEF Fires
<1>5. \A e : e \in W <=> (e \in Due(t) \/ e \in X) /\ Writes(e)
  OBVIOUS
<1> HIDE DEF W
<1>6. /\ world' \in Seq(Event)
      /\ Len(world) \in Nat /\ DOMAIN world = 1 .. Len(world)
      /\ Len(world') \in Nat /\ DOMAIN world' = 1 .. Len(world')
      /\ Len(world) <= Len(world')
      /\ \A i \in DOMAIN world : i \in DOMAIN world' /\ world'[i] = world[i]
      /\ \A i \in Len(world) + 1 .. Len(world') : world'[i] \in W
      /\ \A e \in W : \E i \in Len(world) + 1 .. Len(world') : world'[i] = e
      /\ \A i, j \in Len(world) + 1 .. Len(world') : i < j => Before(world'[i], world'[j])
      /\ IsPrefix(world, world')
  BY <1>3, <1>4, WorldGrows
<1>7. \A i \in DOMAIN world' : i \in DOMAIN world \/ i \in Len(world) + 1 .. Len(world')
  BY <1>6
<1>8. \A i \in Len(world) + 1 .. Len(world') : i \in DOMAIN world'
  BY <1>6
<1> QED  BY <1>5, <1>6, <1>7, <1>8, Zenon

LEMMA FiresQueue ==
  ASSUME Types, QueueInv, CastInv, NEW t, NEW X, NEW F, Fires(t, X, F)
  PROVE  /\ QueueInv' /\ CastInv'
         /\ queue' \subseteq Event /\ IsFiniteSet(queue')
<1>1. \A e \in queue' : (e \in queue /\ e \notin Due(t)) \/ e \in F
  BY DEF Fires
<1>2. /\ now \in Nat /\ seq \in Nat /\ t \in Int /\ now' \in Nat /\ seq' \in Nat /\ seq <= seq'
      /\ \A e \in queue : e.time \in Nat /\ e.seq \in Nat /\ e.load \in Nat
      /\ \A e \in F : /\ e \in Event /\ e.seq = seq + 2 /\ e.time > now
                      /\ e.kind = "reply" /\ e.load = loads
      /\ F # {} => now' = now /\ seq' >= seq + 2
      /\ now' = t \/ now' = now
      /\ UNCHANGED <<cast, loads, loaded>>
      /\ loads \in Nat
  BY DEF Fires, Types, Event, loadVars
<1>3. \A e \in queue : e \notin Due(t) => e.time > t
  BY <1>2 DEF Due
<1>4. \A e \in queue' : e.seq <= seq' /\ e.load <= loads' /\ e.kind \in {"script", "reply"}
  <2> SUFFICES ASSUME NEW e \in queue'
               PROVE  e.seq <= seq' /\ e.load <= loads' /\ e.kind \in {"script", "reply"}
    OBVIOUS
  <2>1. CASE e \in queue
    BY <1>2, <2>1 DEF QueueInv
  <2>2. CASE e \in F
    BY <1>2, <2>2
  <2> QED  BY <1>1, <2>1, <2>2
<1>5. \A e, f \in queue' : e.seq = f.seq => e = f
  <2> SUFFICES ASSUME NEW e \in queue', NEW f \in queue', e.seq = f.seq  PROVE e = f
    OBVIOUS
  <2>1. \A g \in queue : g.seq <= seq
    BY DEF QueueInv
  <2>2. \A g, h \in F : g = h
    BY DEF Fires
  <2> QED  BY <1>1, <1>2, <2>1, <2>2 DEF QueueInv
<1>6. CastInv'
  <2>1. ASSUME loads > 0, NEW e \in queue'  PROVE e.time > now' \/ e.time <= loaded.at
    <3>1. CASE e \in F
      BY <1>2, <3>1
    <3>2. CASE e \in queue /\ e \notin Due(t)
      BY <1>2, <1>3, <2>1, <3>2 DEF CastInv
    <3> QED  BY <1>1, <3>1, <3>2
  <2> QED  BY <1>2, <2>1 DEF CastInv
<1>7. queue' \subseteq Event
  BY <1>1, <1>2 DEF Types
<1>8. IsFiniteSet(queue')
  <2>1. (queue \ Due(t)) \in SUBSET queue
    OBVIOUS
  <2>2. IsFiniteSet(queue \ Due(t)) /\ IsFiniteSet(F)
    BY <2>1, FS_Subset DEF Types, Fires
  <2>3. IsFiniteSet((queue \ Due(t)) \cup F)
    BY <2>2, FS_Union
  <2> QED  BY <2>3 DEF Fires
<1> QED  BY <1>4, <1>5, <1>6, <1>7, <1>8 DEF QueueInv

LEMMA FiresWorld ==
  ASSUME Types, QueueInv, CastInv, WorldInv, NEW t, NEW X, NEW F, Fires(t, X, F)
  PROVE  WorldInv'
<1>0. /\ now \in Nat /\ seq \in Nat /\ t \in Int /\ now' \in Nat /\ seq' \in Nat /\ seq <= seq'
      /\ t <= now' /\ now <= now'
      /\ \A e \in queue : /\ e.time \in Nat /\ e.seq \in Nat /\ e.seq <= seq
                          /\ e.kind \in {"script", "reply"}
      /\ \A e \in F : e \in Event /\ e.time \in Nat /\ e.time > now
      /\ F # {} => now' = now
      /\ \A e \in X : e.seq = seq + 1 /\ e.time = now /\ e.load = loads /\ e.kind # "reply"
      /\ X # {} => t = now /\ seq' >= seq + 1
      /\ UNCHANGED <<cast, loads, replaced>>
  BY DEF Fires, Types, Event, loadVars, QueueInv
<1>1. \A e \in queue' : (e \in queue /\ e.time > t) \/ e \in F
  BY <1>0 DEF Fires, Due
<1>2. \A e \in Due(t) : e \in queue /\ e.time <= t
  BY DEF Due
<1>3. /\ Len(world) \in Nat /\ DOMAIN world = 1 .. Len(world)
      /\ Len(world') \in Nat /\ DOMAIN world' = 1 .. Len(world')
      /\ \A i \in DOMAIN world : i \in DOMAIN world' /\ world'[i] = world[i]
      /\ \A i \in DOMAIN world' :
           \/ i \in DOMAIN world
           \/ /\ i \in Len(world) + 1 .. Len(world')
              /\ world'[i] \in Due(t) \/ world'[i] \in X
              /\ Writes(world'[i])
      /\ \A i, j \in Len(world) + 1 .. Len(world') : i < j => Before(world'[i], world'[j])
  BY FiresWorldGrows
<1> SUFFICES ASSUME Running  PROVE WorldInv'
  BY <1>0 DEF WorldInv, Running
<1>4. /\ \A i \in DOMAIN world : /\ world[i].time <= now /\ world[i].seq <= seq
                                 /\ world[i].kind = "reply" => world[i].about \in cast
                                 /\ world[i].kind \notin {"script", "reply"} =>
                                      world[i].load = loads
                                 /\ \A e \in queue : Before(world[i], e)
      /\ \A i, j \in DOMAIN world : i < j => Before(world[i], world[j])
  BY DEF WorldInv
<1>5. \A i \in DOMAIN world : world[i].time \in Nat /\ world[i].seq \in Nat
  <2>1. \A i \in DOMAIN world : world[i] \in Event
    BY <1>3, ElementOfSeq DEF Types
  <2> QED  BY <2>1 DEF Event
<1>6. ASSUME NEW i \in DOMAIN world, NEW e \in queue'  PROVE Before(world'[i], e)
  <2>1. CASE e \in queue
    BY <1>3, <1>4, <2>1
  <2>2. CASE e \in F
    <3>1. world'[i] = world[i] /\ world[i].time <= now
      BY <1>3, <1>4
    <3>2. world[i].time < e.time
      BY <1>0, <1>5, <2>2, <3>1
    <3> QED  BY <3>1, <3>2 DEF Before
  <2> QED  BY <1>1, <2>1, <2>2
<1>7. ASSUME NEW w, w \in Due(t) \/ w \in X, Writes(w)
      PROVE  /\ w.time <= now' /\ w.seq <= seq'
             /\ w.kind = "reply" => w.about \in cast
             /\ w.kind \notin {"script", "reply"} => w.load = loads
             /\ \A e \in queue' : Before(w, e)
             /\ \A i \in DOMAIN world : Before(world[i], w)
  <2>1. CASE w \in Due(t)
    <3>1. /\ w \in queue /\ w.time <= t /\ w.time \in Nat /\ w.seq \in Nat
          /\ w.kind \in {"script", "reply"}
      BY <1>0, <1>2, <2>1
    <3>2. \A e \in queue' : w.time < e.time
      <4> SUFFICES ASSUME NEW e \in queue'  PROVE w.time < e.time
        OBVIOUS
      <4>1. CASE e \in queue /\ e.time > t
        BY <1>0, <3>1, <4>1
      <4>2. CASE e \in F
        BY <1>0, <3>1, <4>2
      <4> QED  BY <1>1, <4>1, <4>2
    <3>3. w.time <= now' /\ w.seq <= seq'
      BY <1>0, <3>1
    <3> QED  BY <1>4, <1>7, <3>1, <3>2, <3>3 DEF Before, Writes
  <2>2. CASE w \in X
    <3>1. /\ w.seq = seq + 1 /\ w.time = now /\ w.load = loads /\ w.kind # "reply" /\ t = now
          /\ seq' >= seq + 1
      BY <1>0, <2>2
    <3>2. \A e \in queue' : w.time < e.time
      BY <1>0, <1>1, <3>1
    <3>3. \A i \in DOMAIN world : world[i].time <= w.time /\ world[i].seq < w.seq
      BY <1>0, <1>4, <1>5, <3>1
    <3>4. \A i \in DOMAIN world : Before(world[i], w)
      BY <1>0, <1>5, <3>1, <3>3 DEF Before
    <3>5. \A e \in queue' : Before(w, e)
      BY <3>2 DEF Before
    <3> QED  BY <1>0, <3>1, <3>4, <3>5
  <2> QED  BY <1>7, <2>1, <2>2
<1>8. ASSUME NEW i \in DOMAIN world'
      PROVE  /\ world'[i].time <= now' /\ world'[i].seq <= seq'
             /\ world'[i].kind = "reply" => world'[i].about \in cast'
             /\ world'[i].kind \notin {"script", "reply"} => world'[i].load = loads'
             /\ \A e \in queue' : Before(world'[i], e)
  <2>1. CASE i \in DOMAIN world
    <3>1. world'[i] = world[i] /\ world[i].time <= now' /\ world[i].seq <= seq'
      BY <1>0, <1>3, <1>4, <1>5, <2>1
    <3> QED  BY <1>0, <1>4, <1>6, <2>1, <3>1
  <2>2. CASE i \notin DOMAIN world
    BY <1>0, <1>3, <1>7, <2>2
  <2> QED  BY <2>1, <2>2
<1>9. ASSUME NEW i \in DOMAIN world', NEW j \in DOMAIN world', i < j
      PROVE  Before(world'[i], world'[j])
  <2>1. CASE i \in DOMAIN world /\ j \in DOMAIN world
    BY <1>3, <1>4, <1>9, <2>1
  <2>2. CASE i \in DOMAIN world /\ j \notin DOMAIN world
    BY <1>3, <1>7, <2>2
  <2>3. CASE i \notin DOMAIN world
    <3>1. i \in Len(world) + 1 .. Len(world')
      BY <1>3, <2>3
    <3>2. j \in Len(world) + 1 .. Len(world')
      BY <1>3, <1>9, <3>1
    <3> QED  BY <1>3, <1>9, <3>1, <3>2
  <2> QED  BY <2>1, <2>2, <2>3
<1> QED  BY <1>8, <1>9 DEF WorldInv

LEMMA FiresPlay ==
  ASSUME Types, QueueInv, PlayInv, NEW t, NEW X, NEW F, Fires(t, X, F)
  PROVE  PlayInv'
<1>0. /\ \A e \in F : e.kind = "reply"
      /\ \A e \in X : e.kind # "script"
      /\ UNCHANGED <<loads, loaded, replaced>>
  BY DEF Fires, loadVars
<1>1. \A e : e \in queue' <=> (e \in queue /\ e \notin Due(t)) \/ e \in F
  BY DEF Fires
<1>2. Due(t) \subseteq queue
  BY DEF Due
<1>3. /\ Len(world) \in Nat /\ DOMAIN world = 1 .. Len(world)
      /\ Len(world') \in Nat /\ DOMAIN world' = 1 .. Len(world')
      /\ \A i \in DOMAIN world : i \in DOMAIN world' /\ world'[i] = world[i]
      /\ \A i \in DOMAIN world' :
           \/ i \in DOMAIN world
           \/ /\ i \in Len(world) + 1 .. Len(world')
              /\ world'[i] \in Due(t) \/ world'[i] \in X
              /\ Writes(world'[i])
      /\ \A e \in Due(t) : Writes(e) => \E i \in DOMAIN world' : world'[i] = e
      /\ \A i, j \in Len(world) + 1 .. Len(world') : i < j => Before(world'[i], world'[j])
  BY FiresWorldGrows
<1> SUFFICES ASSUME Running, NEW i \in DOMAIN Script[loaded.scenario]
             PROVE  /\ \A e \in queue' : IsEntry(i, e) => e.time = Minute(i)
                    /\ \A e, f \in queue' : IsEntry(i, e) /\ IsEntry(i, f) => e = f
                    /\ \A k \in DOMAIN world' : IsEntry(i, world'[k]) => world'[k].time = Minute(i)
                    /\ \A k, l \in DOMAIN world' :
                         IsEntry(i, world'[k]) /\ IsEntry(i, world'[l]) => k = l
                    /\ (\E e \in queue' : IsEntry(i, e))
                         <=> ~\E k \in DOMAIN world' : IsEntry(i, world'[k])
  BY <1>0 DEF PlayInv, Running, IsEntry, Minute
<1>4. /\ \A e \in queue : IsEntry(i, e) => e.time = Minute(i)
      /\ \A e, f \in queue : IsEntry(i, e) /\ IsEntry(i, f) => e = f
      /\ \A k \in DOMAIN world : IsEntry(i, world[k]) => world[k].time = Minute(i)
      /\ \A k, l \in DOMAIN world : IsEntry(i, world[k]) /\ IsEntry(i, world[l]) => k = l
      /\ (\E e \in queue : IsEntry(i, e)) <=> ~\E k \in DOMAIN world : IsEntry(i, world[k])
  BY Zenon DEF PlayInv
<1>5. \A e \in queue' : IsEntry(i, e) => e \in queue /\ e \notin Due(t)
  BY <1>0, <1>1 DEF IsEntry
<1>6. \A k \in DOMAIN world' :
        IsEntry(i, world'[k]) =>
          \/ k \in DOMAIN world /\ world'[k] = world[k]
          \/ k \in Len(world) + 1 .. Len(world') /\ world'[k] \in Due(t)
  BY <1>0, <1>3 DEF IsEntry
<1>7. \A k \in DOMAIN world' : IsEntry(i, world'[k]) => world'[k].time = Minute(i)
  BY <1>2, <1>4, <1>6
<1>8. ASSUME NEW k \in DOMAIN world', NEW l \in DOMAIN world',
             IsEntry(i, world'[k]), IsEntry(i, world'[l])
      PROVE  k = l
  <2>1. CASE k \in DOMAIN world /\ l \in DOMAIN world
    BY <1>3, <1>4, <1>8, <2>1
  <2>2. CASE k \in DOMAIN world /\ world'[l] \in Due(t)
    BY <1>2, <1>3, <1>4, <1>8, <2>2
  <2>3. CASE l \in DOMAIN world /\ world'[k] \in Due(t)
    BY <1>2, <1>3, <1>4, <1>8, <2>3
  <2>4. CASE /\ k \in Len(world) + 1 .. Len(world') /\ world'[k] \in Due(t)
             /\ l \in Len(world) + 1 .. Len(world') /\ world'[l] \in Due(t)
    <3>1. world'[k] = world'[l]
      BY <1>2, <1>4, <1>8, <2>4
    <3>2. world'[k].time \in Nat /\ world'[k].seq \in Nat
      BY <1>2, <2>4 DEF Types, Event
    <3>3. ~Before(world'[k], world'[k])
      BY <3>2 DEF Before
    <3>4. ~(k < l) /\ ~(l < k)
      BY <1>3, <2>4, <3>1, <3>3
    <3> QED  BY <1>3, <2>4, <3>4
  <2> QED  BY <1>6, <1>8, <2>1, <2>2, <2>3, <2>4
<1>9. ASSUME NEW e \in queue', IsEntry(i, e), NEW k \in DOMAIN world', IsEntry(i, world'[k])
      PROVE  FALSE
  <2>1. e \in queue /\ e \notin Due(t)
    BY <1>5, <1>9
  <2>2. ~\E l \in DOMAIN world : IsEntry(i, world[l])
    BY <1>4, <1>9, <2>1
  <2>3. world'[k] \in Due(t)
    BY <1>6, <1>9, <2>2
  <2> QED  BY <1>2, <1>4, <1>9, <2>1, <2>3
<1>10. ASSUME ~\E k \in DOMAIN world' : IsEntry(i, world'[k])
       PROVE  \E e \in queue' : IsEntry(i, e)
  <2>1. ~\E k \in DOMAIN world : IsEntry(i, world[k])
    BY <1>3, <1>10
  <2>2. PICK e \in queue : IsEntry(i, e)
    BY <1>4, <2>1
  <2>3. Writes(e)
    BY <2>2 DEF IsEntry, Writes
  <2>4. e \notin Due(t)
    BY <1>3, <1>10, <2>2, <2>3
  <2> QED  BY <1>1, <2>2, <2>4
<1> QED  BY <1>4, <1>5, <1>7, <1>8, <1>9, <1>10, Zenon

(* The mutation of a request is one new event.                             *)
LEMMA MutationIs ==
  ASSUME Types, NEW kind \in {"edit", "message"}, NEW about \in Edits \cup People
  PROVE  /\ Mutation(kind, about) \in Event
         /\ Mutation(kind, about).seq = seq + 1
         /\ Mutation(kind, about).time = now
         /\ Mutation(kind, about).kind = kind
         /\ Mutation(kind, about).load = loads
BY DEF Types, Event, Mutation

(* A set of at most one event.                                             *)
LEMMA AtMostOne ==
  ASSUME NEW x, NEW S \in SUBSET {x}
  PROVE  /\ IsFiniteSet(S) /\ Cardinality(S) \in Nat
         /\ S # {} => Cardinality(S) = 1
         /\ \A e \in S : e = x
<1>1. IsFiniteSet({x}) /\ Cardinality({x}) = 1
  BY FS_Singleton
<1>2. IsFiniteSet(S)
  BY <1>1, FS_Subset
<1>3. S = {} \/ S = {x}
  OBVIOUS
<1> QED  BY <1>1, <1>2, <1>3, FS_CardinalityType

(* The answer owed is one event, later than the clock.                     *)
LEMMA AnswerIs ==
  ASSUME Types, NEW p \in People
  PROVE  /\ AnswerOf(p) \subseteq Event
         /\ IsFiniteSet(AnswerOf(p))
         /\ Cardinality(AnswerOf(p)) \in Nat
         /\ AnswerOf(p) # {} => Cardinality(AnswerOf(p)) = 1
         /\ \A e \in AnswerOf(p) : /\ e.seq = seq + 2 /\ e.time > now
                                   /\ e.kind = "reply" /\ e.load = loads
         /\ \A e, f \in AnswerOf(p) : e = f
<1> DEFINE x == [seq |-> seq + 2, time |-> now + Delay[p], kind |-> "reply", about |-> p,
                 load |-> loads]
<1>1. Delay[p] \in Nat \ {0}
  BY RpcAssumption
<1>2. AnswerOf(p) \in SUBSET {x}
  BY DEF AnswerOf
<1>3. x \in Event /\ x.seq = seq + 2 /\ x.time > now /\ x.kind = "reply" /\ x.load = loads
  BY <1>1 DEF Types, Event
<1> HIDE DEF x
<1>4. /\ IsFiniteSet(AnswerOf(p)) /\ Cardinality(AnswerOf(p)) \in Nat
      /\ AnswerOf(p) # {} => Cardinality(AnswerOf(p)) = 1
      /\ \A e \in AnswerOf(p) : e = x
  BY <1>2, AtMostOne
<1> QED  BY <1>3, <1>4

(* Taking the mutation off a queue that never held it.                     *)
LEMMA NotQueued ==
  ASSUME Types, QueueInv, NEW m, m.seq = seq + 1, NEW t, NEW F
  PROVE  (queue \ (Due(t) \cup {m})) \cup F = (queue \ Due(t)) \cup F
<1>1. seq \in Nat /\ \A e \in queue : e.seq \in Nat /\ e.seq <= seq
  BY DEF Types, QueueInv, Event
<1>2. m \notin queue
  BY <1>1
<1> QED  BY <1>2

LEMMA EditFires ==
  ASSUME Types, QueueInv, NEW c \in Clients, NEW e \in Edits, Edit(c, e)
  PROVE  Fires(now, {Mutation("edit", e)}, {})
<1> DEFINE m == Mutation("edit", e)
           X == {m}
<1>1. m \in Event /\ m.seq = seq + 1 /\ m.time = now /\ m.kind = "edit" /\ m.load = loads
  BY MutationIs
<1> HIDE DEF m
<1>2. world' = world \o InOrder({f \in Due(now) \cup X : Writes(f)})
  BY Zenon DEF Edit, Fire, Written, m
<1>3. queue' = (queue \ (Due(now) \cup X)) \cup {}
  BY Zenon DEF Edit, Fire, m
<1>4. queue' = (queue \ Due(now)) \cup {}
  BY <1>1, <1>3, NotQueued
<1>5. IsFiniteSet(X) /\ IsFiniteSet({})
  BY FS_Singleton, FS_EmptySet
<1>6. now' = now /\ seq' = seq + 1 /\ UNCHANGED <<loadVars, replaced>>
  BY DEF Edit
<1>7. now \in Nat /\ seq \in Nat
  BY DEF Types
<1>8. Fires(now, X, {})
  BY <1>1, <1>2, <1>4, <1>5, <1>6, <1>7 DEF Fires
<1> QED  BY <1>8 DEF m

LEMMA EditRefusedFires ==
  ASSUME Types, QueueInv, NEW c \in Clients, NEW e \in Edits, EditRefused(c, e)
  PROVE  Fires(now, {Mutation("edit", p) : p \in Partial \cap {e}}, {})
<1> DEFINE m == Mutation("edit", e)
           X == {Mutation("edit", p) : p \in Partial \cap {e}}
<1>1. m \in Event /\ m.seq = seq + 1 /\ m.time = now /\ m.kind = "edit" /\ m.load = loads
  BY MutationIs
<1>2. X \in SUBSET {m}
  OBVIOUS
<1>3. world' = world \o InOrder({f \in Due(now) \cup X : Writes(f)})
  BY Zenon DEF EditRefused, Written
<1>4. queue' = (queue \ Due(now)) \cup {}
  BY DEF EditRefused
<1> HIDE DEF m, X
<1>5. IsFiniteSet(X) /\ IsFiniteSet({}) /\ \A f \in X : f = m
  BY <1>2, AtMostOne, FS_EmptySet
<1>6. now' = now /\ seq' = seq + 1 /\ UNCHANGED <<loadVars, replaced>>
  BY DEF EditRefused
<1>7. now \in Nat /\ seq \in Nat
  BY DEF Types
<1>8. Fires(now, X, {})
  BY <1>1, <1>3, <1>4, <1>5, <1>6, <1>7 DEF Fires
<1> QED  BY <1>8 DEF X

LEMMA SendMessageFires ==
  ASSUME Types, QueueInv, NEW c \in Clients, NEW p \in People, SendMessage(c, p)
  PROVE  Fires(now, {Mutation("message", p)}, AnswerOf(p))
<1> DEFINE m == Mutation("message", p)
           X == {m}
           F == AnswerOf(p)
<1>1. m \in Event /\ m.seq = seq + 1 /\ m.time = now /\ m.kind = "message" /\ m.load = loads
  BY MutationIs
<1>2. /\ F \subseteq Event /\ IsFiniteSet(F) /\ Cardinality(F) \in Nat
      /\ F # {} => Cardinality(F) = 1
      /\ \A e \in F : e.seq = seq + 2 /\ e.time > now /\ e.kind = "reply" /\ e.load = loads
      /\ \A e, f \in F : e = f
  BY AnswerIs
<1>3. seq' = seq + 1 + Cardinality(F)
  BY DEF SendMessage
<1> HIDE DEF m, F
<1>4. world' = world \o InOrder({f \in Due(now) \cup X : Writes(f)})
  BY Zenon DEF SendMessage, Fire, Written, m
<1>5. queue' = (queue \ (Due(now) \cup X)) \cup F
  BY Zenon DEF SendMessage, Fire, m, F
<1>6. queue' = (queue \ Due(now)) \cup F
  BY <1>1, <1>5, NotQueued
<1>7. IsFiniteSet(X)
  BY FS_Singleton
<1>8. now' = now /\ UNCHANGED <<loadVars, replaced>>
  BY DEF SendMessage
<1>9. now \in Nat /\ seq \in Nat
  BY DEF Types
<1>10. seq' \in Nat /\ seq' >= seq + 1 /\ (F # {} => seq' >= seq + 2)
  BY <1>2, <1>3, <1>9
<1>11. Fires(now, X, F)
  BY <1>1, <1>2, <1>4, <1>6, <1>7, <1>8, <1>9, <1>10 DEF Fires
<1> QED  BY <1>11 DEF m, F

(* A wait carries no mutation.                                             *)
LEMMA WaitFires ==
  ASSUME Types, NEW t \in Int, Fire(Due(t), {}), now' \in Nat, now <= now',
         t <= now', now' = t \/ now' = now, UNCHANGED <<seq, loadVars, replaced>>
  PROVE  Fires(t, {}, {})
<1>1. {f \in Due(t) : Writes(f)} = {f \in Due(t) \cup {} : Writes(f)}
  OBVIOUS
<1>2. world' = world \o InOrder({f \in Due(t) \cup {} : Writes(f)})
  <2>1. world' = world \o InOrder({f \in Due(t) : Writes(f)})
    BY Zenon DEF Fire, Written
  <2> QED  BY <1>1, <2>1, Zenon
<1>3. queue' = (queue \ Due(t)) \cup {}
  BY DEF Fire
<1>4. IsFiniteSet({})
  BY FS_EmptySet
<1>5. now \in Nat /\ seq \in Nat /\ seq' = seq
  BY DEF Types
<1> QED  BY <1>2, <1>3, <1>4, <1>5 DEF Fires

LEMMA WaitBackFires ==
  ASSUME Types, NEW c \in Clients, NEW d \in Waits, WaitBack(c, d)
  PROVE  Fires(now + d, {}, {}) /\ d < 0 /\ d \in Int
<1>1. d \in Int /\ now \in Nat
  BY RpcAssumption DEF Types
<1>2. now' = now /\ d < 0 /\ Fire(Due(now + d), {})
  BY DEF WaitBack
<1>3. now + d \in Int /\ now + d <= now'
  BY <1>1, <1>2
<1>4. UNCHANGED <<seq, loadVars, replaced>>
  BY DEF WaitBack
<1>5. Fires(now + d, {}, {})
  BY <1>1, <1>2, <1>3, <1>4, WaitFires
<1> QED  BY <1>1, <1>2, <1>5

LEMMA SendWaitFires ==
  ASSUME Types, NEW c \in Clients, SendWait(c)
  PROVE  now' = now + Duration(c) /\ now' \in Nat /\ now <= now' /\ Fires(now', {}, {})
<1>1. Duration(c) \in Int /\ now \in Nat
  BY DEF Duration, Types, Advances
<1>2. now' = now + Duration(c) /\ Duration(c) >= 0 /\ Fire(Due(now'), {})
  BY DEF SendWait
<1>3. now' \in Nat /\ now <= now' /\ now' \in Int
  BY <1>1, <1>2
<1>4. UNCHANGED <<seq, loadVars, replaced>>
  BY DEF SendWait
<1> DEFINE t == now'
<1>5. t \in Int /\ Fire(Due(t), {}) /\ t <= now' /\ now' = t
  BY <1>2, <1>3
<1>6. Fires(t, {}, {})
  BY <1>3, <1>4, <1>5, WaitFires
<1> QED  BY <1>2, <1>3, <1>6

LEMMA SendWaitBackFires ==
  ASSUME Types, NEW c \in Clients, SendWaitBack(c)
  PROVE  Fires(now + Duration(c), {}, {}) /\ Duration(c) < 0 /\ Duration(c) \in Int
<1>1. Duration(c) \in Int /\ now \in Nat
  BY DEF Duration, Types, Advances
<1>2. now' = now /\ Duration(c) < 0 /\ Fire(Due(now + Duration(c)), {})
  BY DEF SendWaitBack
<1>3. now + Duration(c) \in Int /\ now + Duration(c) <= now'
  BY <1>1, <1>2
<1>4. UNCHANGED <<seq, loadVars, replaced>>
  BY DEF SendWaitBack
<1>5. Fires(now + Duration(c), {}, {})
  BY <1>1, <1>2, <1>3, <1>4, WaitFires
<1> QED  BY <1>1, <1>2, <1>5

-----------------------------------------------------------------------------
(* Every request keeps the invariant.                                      *)

(* What a step does to the queue, the world and the clock: it fires, or it *)
(* loads, or it puts another world in place, or it leaves them alone.      *)
Replaces == /\ UNCHANGED <<kernelVars, loadVars>> /\ replaced' = TRUE
            /\ world' \in Seq(Event)

Leaves == UNCHANGED <<kernelVars, loadVars, replaced, world>>

LEMMA RequestShape ==
  ASSUME Types, QueueInv, [Next]_vars
  PROVE  \/ \E t, X, F : Fires(t, X, F)
         \/ \E c \in Clients, s \in Scenarios : LoadScenario(c, s)
         \/ Replaces
         \/ Leaves
<1>1. ASSUME NEW c \in Clients,
             LoadBootstrap(c) \/ Restore(c)
      PROVE  Replaces
  BY <1>1, EmptySeq DEF LoadBootstrap, Restore, Replaces, Types
<1>2. ASSUME NEW c \in Clients, Snapshot(c)  PROVE Leaves
  BY <1>2 DEF Snapshot, Leaves
<1>3. ASSUME NEW c \in Clients, NEW e \in Edits, Edit(c, e)  PROVE \E t, X, F : Fires(t, X, F)
  BY <1>3, EditFires, Zenon
<1>4. ASSUME NEW c \in Clients, NEW e \in Edits, EditRefused(c, e)
      PROVE  \E t, X, F : Fires(t, X, F)
  BY <1>4, EditRefusedFires, Zenon
<1>5. ASSUME NEW c \in Clients, NEW p \in People, SendMessage(c, p)
      PROVE  \E t, X, F : Fires(t, X, F)
  BY <1>5, SendMessageFires, Zenon
<1>6. ASSUME NEW c \in Clients, NEW d \in Waits, Wait(c, d)  PROVE \E t, X, F : Fires(t, X, F)
  <2>1. now + d \in Nat /\ now <= now + d /\ now + d \in Int
    BY <1>6, RpcAssumption DEF Types, Wait
  <2>2. now' = now + d /\ Fire(Due(now + d), {}) /\ UNCHANGED <<seq, loadVars, replaced>>
    BY <1>6 DEF Wait
  <2>3. now' \in Nat /\ now <= now' /\ now + d <= now'
    BY <2>1, <2>2
  <2>4. Fires(now + d, {}, {})
    BY <2>1, <2>2, <2>3, WaitFires
  <2> QED  BY <2>4, Zenon
<1>60. ASSUME NEW c \in Clients, NEW d \in Waits, WaitBack(c, d)
       PROVE  \E t, X, F : Fires(t, X, F)
  BY <1>60, WaitBackFires, Zenon
<1>7. ASSUME NEW c \in Clients, NEW t \in Targets, AskNow(c, t)  PROVE Leaves
  BY <1>7 DEF AskNow, Leaves
<1>8. ASSUME NEW c \in Clients, SendWait(c)  PROVE \E t, X, F : Fires(t, X, F)
  BY <1>8, SendWaitFires, Zenon
<1>9. ASSUME NEW c \in Clients, SendWaitBack(c)  PROVE \E t, X, F : Fires(t, X, F)
  BY <1>9, SendWaitBackFires, Zenon
<1>10. CASE UNCHANGED vars
  BY <1>10 DEF vars, Leaves
<1> QED  BY <1>1, <1>2, <1>3, <1>4, <1>5, <1>6, <1>60, <1>7, <1>8, <1>9, <1>10, Zenon DEF Next

(* The script of a load: one new event for each entry, at its minute.      *)
LEMMA ScriptIs ==
  ASSUME Types, QueueInv, NEW s \in Scenarios
  PROVE  /\ ScriptOf(s) \subseteq Event /\ IsFiniteSet(ScriptOf(s))
         /\ Len(Script[s]) \in Nat
         /\ \A e \in ScriptOf(s) :
              /\ e.kind = "script" /\ e.load = loads + 1
              /\ e.seq > seq /\ e.seq <= seq + Len(Script[s])
              /\ e.about \in DOMAIN Script[s] /\ e.time = Script[s][e.about]
         /\ \A e, f \in ScriptOf(s) : e.seq = f.seq => e = f
         /\ \A e, f \in ScriptOf(s) : e.about = f.about => e = f
         /\ \A i \in DOMAIN Script[s] : \E e \in ScriptOf(s) : e.about = i
<1> DEFINE D == DOMAIN Script[s]
           Of(i) == [seq |-> seq + i, time |-> Script[s][i], kind |-> "script", about |-> i,
                     load |-> loads + 1]
           f == [i \in D |-> Of(i)]
<1>1. /\ Script[s] \in Seq(Nat) /\ Len(Script[s]) \in Nat /\ D = 1 .. Len(Script[s])
  BY RpcAssumption, LenProperties
<1>2. \A i \in D : Script[s][i] \in Nat
  BY <1>1, ElementOfSeq
<1>3. seq \in Nat /\ loads \in Nat
  BY DEF Types
<1>4. ScriptOf(s) = {Of(i) : i \in D}
  BY DEF ScriptOf
<1>5. ASSUME NEW i \in D
      PROVE  /\ Of(i) \in Event /\ Of(i).kind = "script" /\ Of(i).load = loads + 1
             /\ Of(i).seq = seq + i /\ Of(i).seq > seq /\ Of(i).seq <= seq + Len(Script[s])
             /\ Of(i).about = i /\ Of(i).time = Script[s][i]
  <2>1. i \in Nat /\ i >= 1 /\ i <= Len(Script[s])
    BY <1>1
  <2>2. seq + i \in Nat /\ seq + i > seq /\ seq + i <= seq + Len(Script[s]) /\ loads + 1 \in Nat
    BY <1>1, <1>3, <2>1
  <2>3. Of(i) \in Event
    BY <1>2, <2>1, <2>2 DEF Event
  <2> QED  BY <2>2, <2>3
<1>6. IsFiniteSet(ScriptOf(s))
  <2>1. f \in Surjection(D, ScriptOf(s))
    <3>1. \A i \in D : f[i] \in ScriptOf(s)
      BY <1>4
    <3>2. \A e \in ScriptOf(s) : \E i \in D : f[i] = e
      BY <1>4
    <3> QED  BY <3>1, <3>2 DEF Surjection
  <2>2. IsFiniteSet(D)
    BY <1>1, FS_Interval
  <2> HIDE DEF f, D
  <2> QED  BY <2>1, <2>2, FS_Surjection
<1> HIDE DEF Of
<1>7. \A e \in ScriptOf(s) : \E i \in D : e = Of(i)
  BY <1>4
<1>8. \A e, g \in ScriptOf(s) : e.about = g.about => e = g
  BY <1>5, <1>7
<1>9. \A e, g \in ScriptOf(s) : e.seq = g.seq => e = g
  <2> SUFFICES ASSUME NEW e \in ScriptOf(s), NEW g \in ScriptOf(s), e.seq = g.seq
               PROVE  e = g
    OBVIOUS
  <2>1. PICK i \in D : e = Of(i)
    BY <1>7
  <2>2. PICK j \in D : g = Of(j)
    BY <1>7
  <2>3. seq + i = seq + j
    BY <1>5, <2>1, <2>2
  <2>4. i = j
    BY <1>1, <1>3, <2>3
  <2> QED  BY <2>1, <2>2, <2>4
<1>10. \A i \in D : \E e \in ScriptOf(s) : e.about = i
  BY <1>4, <1>5
<1>11. \A e \in ScriptOf(s) :
         /\ e \in Event /\ e.kind = "script" /\ e.load = loads + 1
         /\ e.seq > seq /\ e.seq <= seq + Len(Script[s])
         /\ e.about \in D /\ e.time = Script[s][e.about]
  BY <1>5, <1>7
<1> QED  BY <1>1, <1>6, <1>8, <1>9, <1>10, <1>11

LEMMA LoadStep ==
  ASSUME Types, QueueInv, NEW c \in Clients, NEW s \in Scenarios, LoadScenario(c, s)
  PROVE  /\ QueueInv' /\ CastInv' /\ WorldInv' /\ PlayInv'
         /\ queue' \subseteq Event /\ IsFiniteSet(queue')
         /\ seq' \in Nat
<1>0. /\ world' = << >> /\ cast' = Cast[s] /\ seq' = seq + Len(Script[s])
      /\ queue' = queue \cup ScriptOf(s) /\ loads' = loads + 1
      /\ loaded' = [scenario |-> s, at |-> now] /\ replaced' = FALSE /\ now' = now
  BY DEF LoadScenario
<1>1. /\ ScriptOf(s) \subseteq Event /\ IsFiniteSet(ScriptOf(s))
      /\ Len(Script[s]) \in Nat
      /\ \A e \in ScriptOf(s) :
           /\ e.kind = "script" /\ e.load = loads + 1
           /\ e.seq > seq /\ e.seq <= seq + Len(Script[s])
           /\ e.about \in DOMAIN Script[s] /\ e.time = Script[s][e.about]
      /\ \A e, f \in ScriptOf(s) : e.seq = f.seq => e = f
      /\ \A e, f \in ScriptOf(s) : e.about = f.about => e = f
      /\ \A i \in DOMAIN Script[s] : \E e \in ScriptOf(s) : e.about = i
  BY ScriptIs
<1>2. /\ seq \in Nat /\ loads \in Nat /\ now \in Nat
      /\ \A e \in queue : /\ e.seq \in Nat /\ e.seq <= seq /\ e.time \in Nat
                          /\ e.load \in Nat /\ e.load <= loads
                          /\ e.kind \in {"script", "reply"}
  BY DEF Types, QueueInv, Event
<1>3. QueueInv'
  <2>1. \A e \in ScriptOf(s) : e.seq \in Nat
    BY <1>1 DEF Event
  <2>2. \A e, f \in queue' : e.seq = f.seq => e = f
    BY <1>0, <1>1, <1>2, <2>1 DEF QueueInv
  <2>3. \A e \in queue' : e.seq <= seq' /\ e.load <= loads' /\ e.kind \in {"script", "reply"}
    <3> SUFFICES ASSUME NEW e \in queue'
                 PROVE  e.seq <= seq' /\ e.load <= loads' /\ e.kind \in {"script", "reply"}
      OBVIOUS
    <3>1. CASE e \in queue
      BY <1>0, <1>1, <1>2, <3>1
    <3>2. CASE e \in ScriptOf(s)
      BY <1>0, <1>1, <1>2, <3>2
    <3> QED  BY <1>0, <3>1, <3>2
  <2> QED  BY <2>2, <2>3 DEF QueueInv
<1>4. CastInv'
  <2>1. \A e \in queue' : e.time \in Nat
    BY <1>0, <1>1, <1>2 DEF Event
  <2>2. loaded'.scenario = s /\ loaded'.at = now
    BY <1>0
  <2>3. \A e \in queue' : e.time > now' \/ e.time <= loaded'.at
    BY <1>0, <1>2, <2>1, <2>2
  <2> QED  BY <1>0, <2>2, <2>3 DEF CastInv
<1>5. WorldInv'
  BY <1>0 DEF WorldInv
<1>6. PlayInv'
  <2>1. loaded'.scenario = s
    BY <1>0
  <2>2. \A e \in queue : ~(e.load = loads + 1)
    BY <1>2
  <2>3. ASSUME NEW i \in DOMAIN Script[s]
        PROVE  /\ \A e \in queue' : IsEntry(i, e)' => e \in ScriptOf(s) /\ e.about = i
               /\ \E e \in queue' : IsEntry(i, e)'
    <3>1. PICK e \in ScriptOf(s) : e.about = i
      BY <1>1
    <3> QED  BY <1>0, <1>1, <2>2, <3>1 DEF IsEntry
  <2>4. DOMAIN world' = {}
    BY <1>0
  <2>5. ASSUME NEW i \in DOMAIN Script[s]
        PROVE  /\ \A e \in queue' : IsEntry(i, e)' => e.time = Script[s][i]
               /\ \A e, f \in queue' : IsEntry(i, e)' /\ IsEntry(i, f)' => e = f
    <3>1. \A e \in ScriptOf(s) : e.time = Script[s][e.about]
      BY <1>1
    <3>2. \A e \in queue' : IsEntry(i, e)' => e \in ScriptOf(s) /\ e.about = i
      BY <2>3
    <3>3. \A e, f \in ScriptOf(s) : e.about = f.about => e = f
      BY <1>1
    <3>4. \A e \in queue' : IsEntry(i, e)' => e.time = Script[s][i]
      BY <3>1, <3>2
    <3>5. \A e, f \in queue' : IsEntry(i, e)' /\ IsEntry(i, f)' => e = f
      BY <3>2, <3>3
    <3> QED  BY <3>4, <3>5
  <2>6. \A i : Minute(i)' = Script[s][i]
    BY <2>1 DEF Minute
  <2> QED  BY <2>1, <2>3, <2>4, <2>5, <2>6 DEF PlayInv
<1>7. queue' \subseteq Event
  BY <1>0, <1>1 DEF Types
<1>8. IsFiniteSet(queue')
  BY <1>0, <1>1, FS_Union DEF Types
<1>9. seq' \in Nat
  BY <1>0, <1>1, <1>2
<1> QED  BY <1>3, <1>4, <1>5, <1>6, <1>7, <1>8, <1>9

(* Types of what a request changes besides: whose turn it is to answer,    *)
(* what is guarded, which scenario is loaded.                              *)
LEMMA RestTypes ==
  ASSUME Types, [Next]_vars
  PROVE  /\ cast' \subseteq People /\ guard' \subseteq Edits
         /\ \A c \in Clients : snap'[c] \in Seq(Event)
         /\ ok' \in BOOLEAN /\ replaced' \in BOOLEAN
         /\ loads' \in 0 .. MaxLoads
         /\ loaded' \in [scenario : Scenarios \cup {NoScenario}, at : Nat]
<1> DEFINE P == /\ cast' \subseteq People /\ guard' \subseteq Edits
                /\ \A c \in Clients : snap'[c] \in Seq(Event)
                /\ ok' \in BOOLEAN /\ replaced' \in BOOLEAN
                /\ loads' \in 0 .. MaxLoads
                /\ loaded' \in [scenario : Scenarios \cup {NoScenario}, at : Nat]
<1>1. ASSUME NEW c \in Clients, NEW s \in Scenarios, LoadScenario(c, s)  PROVE P
  <2>1. /\ cast' = Cast[s] /\ guard' = Guard[s] /\ loads' = loads + 1 /\ loads < MaxLoads
        /\ loaded' = [scenario |-> s, at |-> now] /\ snap' = snap /\ replaced' = FALSE
        /\ ok' = TRUE
    BY <1>1 DEF LoadScenario
  <2>2. loads' \in 0 .. MaxLoads
    BY <2>1, RpcAssumption DEF Types
  <2>3. cast' \subseteq People /\ guard' \subseteq Edits
    BY <2>1, RpcAssumption
  <2> QED  BY <2>1, <2>2, <2>3 DEF Types
<1>2. ASSUME UNCHANGED <<loadVars, snap>>, ok' \in BOOLEAN, replaced' \in BOOLEAN  PROVE P
  BY <1>2 DEF loadVars, Types
<1>3. ASSUME NEW c \in Clients, Snapshot(c)  PROVE P
  <2>1. snap' = [snap EXCEPT ![c] = world]
    BY <1>3 DEF Snapshot
  <2>2. \A d \in Clients : snap'[d] = snap[d] \/ snap'[d] = world
    <3>1. \A d : d \in DOMAIN snap => snap'[d] = snap[d] \/ snap'[d] = world
      BY <2>1
    <3>2. \A d : d \notin DOMAIN snap => snap'[d] = snap[d]
      BY <2>1
    <3> QED  BY <3>1, <3>2
  <2>3. UNCHANGED <<loadVars, replaced>> /\ ok' = TRUE
    BY <1>3 DEF Snapshot
  <2> QED  BY <2>2, <2>3 DEF loadVars, Types
<1>4. ASSUME NEW c \in Clients, LoadBootstrap(c) \/ Restore(c)  PROVE P
  BY <1>2, <1>4 DEF LoadBootstrap, Restore
<1>5. ASSUME NEW c \in Clients, NEW e \in Edits, Edit(c, e) \/ EditRefused(c, e)  PROVE P
  BY <1>2, <1>5 DEF Edit, EditRefused, Types
<1>6. ASSUME NEW c \in Clients, NEW p \in People, SendMessage(c, p)  PROVE P
  BY <1>2, <1>6 DEF SendMessage, Types
<1>7. ASSUME NEW c \in Clients, NEW d \in Waits, Wait(c, d) \/ WaitBack(c, d)  PROVE P
  BY <1>2, <1>7 DEF Wait, WaitBack, Types
<1>8. ASSUME NEW c \in Clients, NEW t \in Targets, AskNow(c, t)  PROVE P
  BY <1>2, <1>8 DEF AskNow, Types
<1>9. ASSUME NEW c \in Clients, SendWait(c) \/ SendWaitBack(c)  PROVE P
  BY <1>2, <1>9 DEF SendWait, SendWaitBack, Types
<1>10. ASSUME UNCHANGED vars  PROVE P
  BY <1>2, <1>10 DEF vars, Types
<1> HIDE DEF P
<1>11. P
  BY <1>1, <1>3, <1>4, <1>5, <1>6, <1>7, <1>8, <1>9, <1>10 DEF Next
<1> QED  BY <1>11 DEF P

(* The clock moves for all but the client that moves it.                   *)
LEMMA MovedIs ==
  ASSUME Types, NEW c \in Clients, NEW d \in Nat
  PROVE  /\ Moved(c, d) \in [Clients -> Advances]
         /\ \A x \in Clients :
              /\ Moved(c, d)[x].open = advance[x].open
              /\ Moved(c, d)[x].target = advance[x].target
              /\ Moved(c, d)[x].saw = advance[x].saw
              /\ x # c /\ advance[x].open => Moved(c, d)[x].drift = advance[x].drift + d
<1>1. \A x \in Clients : advance[x] \in Advances
  BY DEF Types
<1>2. \A x \in Clients : [advance[x] EXCEPT !.drift = @ + d] \in Advances
  BY <1>1 DEF Advances
<1> QED  BY <1>1, <1>2 DEF Moved, Advances

LEMMA AdvanceStep ==
  ASSUME Types, AdvanceInv, [Next]_vars
  PROVE  /\ now' \in Nat
         /\ advance' \in [Clients -> Advances] /\ AdvanceInv'
         /\ \A c \in Clients : advance[c].open /\ ~advance'[c].open =>
              now' = IF advance[c].target >= advance[c].saw
                       THEN advance[c].target + advance[c].drift
                       ELSE now
<1> DEFINE P == /\ now' \in Nat
                /\ advance' \in [Clients -> Advances] /\ AdvanceInv'
                /\ \A c \in Clients : advance[c].open /\ ~advance'[c].open =>
                     now' = IF advance[c].target >= advance[c].saw
                              THEN advance[c].target + advance[c].drift
                              ELSE now
<1>0. /\ now \in Nat /\ advance \in [Clients -> Advances]
      /\ \A c \in Clients : /\ advance[c] \in Advances
                            /\ advance[c].open \in BOOLEAN /\ advance[c].target \in Nat
                            /\ advance[c].saw \in Nat /\ advance[c].drift \in Nat
      /\ Closed \in Advances /\ ~Closed.open
      /\ Waits \subseteq Int /\ Targets \subseteq Nat
  BY RpcAssumption DEF Types, Advances, Closed
<1>1. ASSUME UNCHANGED <<now, advance>>  PROVE P
  BY <1>0, <1>1 DEF AdvanceInv
<1>2. ASSUME NEW c \in Clients, NEW s \in Scenarios, LoadScenario(c, s)  PROVE P
  BY <1>1, <1>2 DEF LoadScenario
<1>3. ASSUME NEW c \in Clients, LoadBootstrap(c) \/ Snapshot(c) \/ Restore(c)  PROVE P
  BY <1>1, <1>3 DEF LoadBootstrap, Snapshot, Restore, kernelVars
<1>4. ASSUME NEW c \in Clients, NEW e \in Edits, Edit(c, e) \/ EditRefused(c, e)  PROVE P
  BY <1>1, <1>4 DEF Edit, EditRefused
<1>5. ASSUME NEW c \in Clients, NEW p \in People, SendMessage(c, p)  PROVE P
  BY <1>1, <1>5 DEF SendMessage
<1>6. ASSUME NEW c \in Clients, NEW d \in Waits, Wait(c, d)  PROVE P
  <2>1. d \in Nat /\ now' = now + d /\ advance' = Moved(c, d) /\ ~advance[c].open
    <3>1. d \in Int /\ d >= 0
      BY <1>0, <1>6 DEF Wait
    <3> QED  BY <1>6, <3>1 DEF Wait, Handle
  <2>2. /\ advance' \in [Clients -> Advances]
        /\ \A x \in Clients :
             /\ advance'[x].open = advance[x].open
             /\ advance'[x].saw = advance[x].saw
             /\ x # c /\ advance[x].open => advance'[x].drift = advance[x].drift + d
    BY <2>1, MovedIs
  <2>3. AdvanceInv'
    <3> SUFFICES ASSUME NEW x \in Clients, advance'[x].open
                 PROVE  now' = advance'[x].saw + advance'[x].drift
      BY DEF AdvanceInv
    <3>1. advance[x].open /\ x # c
      BY <2>1, <2>2
    <3>2. now = advance[x].saw + advance[x].drift
      BY <3>1 DEF AdvanceInv
    <3> QED  BY <1>0, <2>1, <2>2, <3>1, <3>2
  <2>4. now' \in Nat
    BY <1>0, <2>1
  <2> QED  BY <2>2, <2>3, <2>4
<1>60. ASSUME NEW c \in Clients, NEW d \in Waits, WaitBack(c, d)  PROVE P
  BY <1>1, <1>60 DEF WaitBack
<1>7. ASSUME NEW c \in Clients, NEW t \in Targets, AskNow(c, t)  PROVE P
  <2> DEFINE a == [open |-> TRUE, target |-> t, saw |-> now, drift |-> 0]
  <2>1. advance' = [advance EXCEPT ![c] = a] /\ now' = now /\ ~advance[c].open
    BY <1>7 DEF AskNow, kernelVars, Handle
  <2>2. a \in Advances /\ a.open /\ a.saw = now /\ a.drift = 0
    BY <1>0 DEF Advances
  <2> HIDE DEF a
  <2>3. /\ advance' \in [Clients -> Advances] /\ advance'[c] = a
        /\ \A x \in Clients : x # c => advance'[x] = advance[x]
    BY <1>0, <2>1, <2>2
  <2>4. AdvanceInv'
    BY <1>0, <2>1, <2>2, <2>3 DEF AdvanceInv
  <2> QED  BY <1>0, <2>1, <2>2, <2>3, <2>4
<1>8. ASSUME NEW c \in Clients, SendWait(c)  PROVE P
  <2> DEFINE d == Duration(c)
             m == Moved(c, d)
  <2>1. /\ advance[c].open /\ d >= 0 /\ now' = now + d
        /\ advance' = [m EXCEPT ![c] = Closed]
    BY <1>8 DEF SendWait
  <2>2. d \in Nat /\ d = advance[c].target - advance[c].saw
    BY <1>0, <2>1 DEF Duration
  <2>3. /\ m \in [Clients -> Advances]
        /\ \A x \in Clients :
             /\ m[x].open = advance[x].open
             /\ m[x].saw = advance[x].saw
             /\ x # c /\ advance[x].open => m[x].drift = advance[x].drift + d
    BY <2>2, MovedIs
  <2> HIDE DEF m, d
  <2>4. /\ advance' \in [Clients -> Advances] /\ advance'[c] = Closed
        /\ \A x \in Clients : x # c => advance'[x] = m[x]
    BY <1>0, <2>1, <2>3
  <2>5. AdvanceInv'
    <3> SUFFICES ASSUME NEW x \in Clients, advance'[x].open
                 PROVE  now' = advance'[x].saw + advance'[x].drift
      BY DEF AdvanceInv
    <3>1. x # c /\ advance'[x] = m[x] /\ advance[x].open
      BY <1>0, <2>3, <2>4
    <3>2. now = advance[x].saw + advance[x].drift
      BY <3>1 DEF AdvanceInv
    <3> QED  BY <1>0, <2>1, <2>2, <2>3, <3>1, <3>2
  <2>6. now' = advance[c].target + advance[c].drift /\ advance[c].target >= advance[c].saw
    <3>1. now = advance[c].saw + advance[c].drift
      BY <2>1 DEF AdvanceInv
    <3> QED  BY <1>0, <2>1, <2>2, <3>1
  <2>7. now' \in Nat
    BY <1>0, <2>1, <2>2
  <2>8. \A x \in Clients : x # c => advance'[x].open = advance[x].open
    BY <2>3, <2>4
  <2> QED  BY <2>4, <2>5, <2>6, <2>7, <2>8
<1>9. ASSUME NEW c \in Clients, SendWaitBack(c)  PROVE P
  <2>1. /\ advance' = [advance EXCEPT ![c] = Closed] /\ now' = now
        /\ advance[c].target - advance[c].saw < 0
    BY <1>9 DEF SendWaitBack, Duration
  <2>2. /\ advance' \in [Clients -> Advances] /\ advance'[c] = Closed
        /\ \A x \in Clients : x # c => advance'[x] = advance[x]
    BY <1>0, <2>1
  <2>3. AdvanceInv'
    BY <1>0, <2>1, <2>2 DEF AdvanceInv
  <2>4. ~(advance[c].target >= advance[c].saw)
    BY <1>0, <2>1
  <2> QED  BY <1>0, <2>1, <2>2, <2>3, <2>4
<1>10. ASSUME UNCHANGED vars  PROVE P
  BY <1>1, <1>10 DEF vars, kernelVars
<1> HIDE DEF P
<1>11. P
  BY <1>2, <1>3, <1>4, <1>5, <1>6, <1>60, <1>7, <1>8, <1>9, <1>10 DEF Next
<1> QED  BY <1>11 DEF P

(* A refused call leaves the clock, and adds to the world what was due, or *)
(* what its own edit wrote before it was refused.                          *)
LEMMA RefusedStep ==
  ASSUME Types, QueueInv, [Next]_vars
  PROVE  [~ok' => /\ now' = now
                  /\ IsPrefix(world, world')
                  /\ \A i \in Len(world) + 1 .. Len(world') :
                       world'[i] \in Due(now) \/ world'[i].seq = seq + 1]_vars
<1> DEFINE P == /\ now' = now
                /\ IsPrefix(world, world')
                /\ \A i \in Len(world) + 1 .. Len(world') :
                     world'[i] \in Due(now) \/ world'[i].seq = seq + 1
<1>1. ASSUME NEW t, NEW X, Fires(t, X, {}), now' = now, Due(t) \subseteq Due(now)  PROVE P
  <2>1. /\ IsPrefix(world, world')
        /\ Len(world) \in Nat /\ DOMAIN world = 1 .. Len(world)
        /\ Len(world') \in Nat /\ DOMAIN world' = 1 .. Len(world')
        /\ \A i \in DOMAIN world' : \/ i \in DOMAIN world
                                    \/ world'[i] \in Due(t) \/ world'[i] \in X
    BY <1>1, FiresWorldGrows
  <2>2. \A e \in X : e.seq = seq + 1
    BY <1>1 DEF Fires
  <2>3. \A i \in Len(world) + 1 .. Len(world') : i \in DOMAIN world' /\ i \notin DOMAIN world
    BY <2>1
  <2> QED  BY <1>1, <2>1, <2>2, <2>3
<1>2. ASSUME NEW c \in Clients, NEW e \in Edits, EditRefused(c, e)  PROVE P
  <2>1. Fires(now, {Mutation("edit", p) : p \in Partial \cap {e}}, {})
    BY <1>2, EditRefusedFires
  <2>2. now' = now
    BY <1>2 DEF EditRefused
  <2> HIDE DEF P
  <2> QED  BY <1>1, <2>1, <2>2
<1>3. ASSUME NEW c \in Clients, SendWaitBack(c)  PROVE P
  <2>1. Fires(now + Duration(c), {}, {}) /\ Duration(c) < 0 /\ Duration(c) \in Int
    BY <1>3, SendWaitBackFires
  <2>2. now' = now
    BY <1>3 DEF SendWaitBack
  <2>3. Due(now + Duration(c)) \subseteq Due(now)
    <3>1. now \in Nat /\ \A e \in queue : e.time \in Nat
      BY DEF Types, Event
    <3> QED  BY <2>1, <3>1 DEF Due
  <2> HIDE DEF P
  <2> QED  BY <1>1, <2>1, <2>2, <2>3
<1>30. ASSUME NEW c \in Clients, NEW d \in Waits, WaitBack(c, d)  PROVE P
  <2>1. Fires(now + d, {}, {}) /\ d < 0 /\ d \in Int
    BY <1>30, WaitBackFires
  <2>2. now' = now
    BY <1>30 DEF WaitBack
  <2>3. Due(now + d) \subseteq Due(now)
    <3>1. now \in Nat /\ \A e \in queue : e.time \in Nat
      BY DEF Types, Event
    <3> QED  BY <2>1, <3>1 DEF Due
  <2> HIDE DEF P
  <2> QED  BY <1>1, <2>1, <2>2, <2>3
<1> HIDE DEF P
<1>4. ASSUME ~ok', Next  PROVE P
  <2>1. ASSUME NEW c \in Clients, NEW s \in Scenarios, LoadScenario(c, s)  PROVE P
    BY <1>4, <2>1 DEF LoadScenario
  <2>2. ASSUME NEW c \in Clients, LoadBootstrap(c) \/ Snapshot(c) \/ Restore(c)  PROVE P
    BY <1>4, <2>2 DEF LoadBootstrap, Snapshot, Restore
  <2>3. ASSUME NEW c \in Clients, NEW e \in Edits, Edit(c, e)  PROVE P
    BY <1>4, <2>3 DEF Edit
  <2>4. ASSUME NEW c \in Clients, NEW p \in People, SendMessage(c, p)  PROVE P
    BY <1>4, <2>4 DEF SendMessage
  <2>5. ASSUME NEW c \in Clients, NEW d \in Waits, Wait(c, d)  PROVE P
    BY <1>4, <2>5 DEF Wait
  <2>6. ASSUME NEW c \in Clients, NEW t \in Targets, AskNow(c, t)  PROVE P
    BY <1>4, <2>6 DEF AskNow
  <2>7. ASSUME NEW c \in Clients, SendWait(c)  PROVE P
    BY <1>4, <2>7 DEF SendWait
  <2> QED  BY <1>2, <1>3, <1>30, <1>4, <2>1, <2>2, <2>3, <2>4, <2>5, <2>6, <2>7 DEF Next
<1>5. [~ok' => P]_vars
  BY <1>4
<1> QED  BY <1>5 DEF P

(* A server that has just started has the invariant.                       *)
LEMMA InvInit == Init => IInv
<1> SUFFICES ASSUME Init  PROVE IInv
  OBVIOUS
<1>1. Types
  <2>1. IsFiniteSet(queue)
    BY FS_EmptySet DEF Init
  <2>2. advance \in [Clients -> Advances]
    BY DEF Init, Closed, Advances
  <2>3. world \in Seq(Event) /\ \A c \in Clients : snap[c] \in Seq(Event)
    BY EmptySeq DEF Init
  <2>4. loads \in 0 .. MaxLoads
    BY RpcAssumption DEF Init
  <2> QED  BY <2>1, <2>2, <2>3, <2>4 DEF Init, Types
<1>2. QueueInv /\ CastInv /\ WorldInv /\ PlayInv
  BY DEF Init, QueueInv, CastInv, WorldInv, PlayInv, Running
<1>3. AdvanceInv
  BY DEF Init, AdvanceInv, Closed
<1> QED  BY <1>1, <1>2, <1>3 DEF IInv

(* Every request keeps it.                                                 *)
LEMMA InvStep ==
  ASSUME IInv, [Next]_vars
  PROVE  IInv'
<1> USE DEF IInv
<1>1. AdvanceInv' /\ now' \in Nat /\ advance' \in [Clients -> Advances]
  BY AdvanceStep
<1>2. /\ cast' \subseteq People /\ guard' \subseteq Edits
      /\ \A c \in Clients : snap'[c] \in Seq(Event)
      /\ ok' \in BOOLEAN /\ replaced' \in BOOLEAN
      /\ loads' \in 0 .. MaxLoads
      /\ loaded' \in [scenario : Scenarios \cup {NoScenario}, at : Nat]
  BY RestTypes
<1>3. /\ QueueInv' /\ CastInv' /\ WorldInv' /\ PlayInv'
      /\ seq' \in Nat /\ queue' \subseteq Event /\ IsFiniteSet(queue')
      /\ world' \in Seq(Event)
  <2>1. ASSUME NEW t, NEW X, NEW F, Fires(t, X, F)
        PROVE  /\ QueueInv' /\ CastInv' /\ WorldInv' /\ PlayInv'
               /\ seq' \in Nat /\ queue' \subseteq Event /\ IsFiniteSet(queue')
               /\ world' \in Seq(Event)
    <3>1. QueueInv' /\ CastInv' /\ queue' \subseteq Event /\ IsFiniteSet(queue')
      BY <2>1, FiresQueue
    <3>2. WorldInv' /\ PlayInv'
      BY <2>1, FiresWorld, FiresPlay
    <3>3. world' \in Seq(Event)
      BY <2>1, FiresWorldGrows
    <3>4. seq' \in Nat
      BY <2>1 DEF Fires
    <3> QED  BY <3>1, <3>2, <3>3, <3>4
  <2>2. ASSUME NEW c \in Clients, NEW s \in Scenarios, LoadScenario(c, s)
        PROVE  /\ QueueInv' /\ CastInv' /\ WorldInv' /\ PlayInv'
               /\ seq' \in Nat /\ queue' \subseteq Event /\ IsFiniteSet(queue')
               /\ world' \in Seq(Event)
    <3>1. world' \in Seq(Event)
      BY <2>2, EmptySeq DEF LoadScenario
    <3> QED  BY <2>2, <3>1, LoadStep
  <2>3. CASE Replaces
    BY <2>3 DEF Replaces, kernelVars, loadVars, Types, QueueInv, CastInv, WorldInv, PlayInv,
                Running
  <2>4. CASE Leaves
    <3>1. UNCHANGED <<now, seq, queue, cast, loads, loaded, replaced, world>>
      BY <2>4 DEF Leaves, kernelVars, loadVars
    <3>2. QueueInv' /\ CastInv' /\ WorldInv'
      BY <3>1 DEF QueueInv, CastInv, WorldInv, Running
    <3>3. PlayInv'
      BY <3>1 DEF PlayInv, Running, IsEntry, Minute
    <3> QED  BY <3>1, <3>2, <3>3 DEF Types
  <2> QED  BY <2>1, <2>2, <2>3, <2>4, RequestShape, Zenon
<1> QED  BY <1>1, <1>2, <1>3 DEF Types

-----------------------------------------------------------------------------
(* What the invariant says of the properties.                              *)

LEMMA TimelineClaim == IInv => TimelinePlaysOut
<1> SUFFICES ASSUME IInv, Running, NEW i \in DOMAIN Script[loaded.scenario]
             PROVE  LET minute == Script[loaded.scenario][i]
                        waiting == Entries(i, queue) # {}
                        plays == {k \in DOMAIN world : Entries(i, {world[k]}) # {}}
                    IN /\ Cardinality(plays) = IF waiting THEN 0 ELSE 1
                       /\ waiting => minute > now \/ minute <= loaded.at
                       /\ ~waiting => minute <= now
  BY DEF TimelinePlaysOut
<1> DEFINE minute == Script[loaded.scenario][i]
           waiting == Entries(i, queue) # {}
           plays == {k \in DOMAIN world : Entries(i, {world[k]}) # {}}
<1>1. /\ \A e \in queue : IsEntry(i, e) => e.time = minute
      /\ \A k \in DOMAIN world : IsEntry(i, world[k]) => world[k].time = minute
      /\ \A k, l \in DOMAIN world : IsEntry(i, world[k]) /\ IsEntry(i, world[l]) => k = l
      /\ (\E e \in queue : IsEntry(i, e)) <=> ~\E k \in DOMAIN world : IsEntry(i, world[k])
  BY DEF IInv, PlayInv, Minute
<1>2. waiting <=> \E e \in queue : IsEntry(i, e)
  BY DEF Entries, IsEntry
<1>3. \A k : k \in plays <=> k \in DOMAIN world /\ IsEntry(i, world[k])
  BY DEF Entries, IsEntry
<1>4. CASE waiting
  <2>1. PICK e \in queue : IsEntry(i, e)
    BY <1>2, <1>4
  <2>2. minute > now \/ minute <= loaded.at
    <3>1. loads > 0
      BY DEF Running
    <3>2. e.time > now \/ e.time <= loaded.at
      BY <3>1 DEF IInv, CastInv
    <3> QED  BY <1>1, <2>1, <3>2
  <2> HIDE DEF plays, waiting, minute
  <2>3. plays = {}
    BY <1>1, <1>3, <2>1
  <2>4. Cardinality(plays) = 0
    BY <2>3, FS_EmptySet
  <2>5. /\ Cardinality(plays) = IF waiting THEN 0 ELSE 1
        /\ waiting => minute > now \/ minute <= loaded.at
        /\ ~waiting => minute <= now
    BY <1>4, <2>2, <2>4
  <2> QED  BY <2>5 DEF plays, waiting, minute
<1>5. CASE ~waiting
  <2>1. PICK k \in DOMAIN world : IsEntry(i, world[k])
    BY <1>1, <1>2, <1>5
  <2>2. minute <= now
    <3>1. world[k].time <= now
      BY DEF IInv, WorldInv
    <3> QED  BY <1>1, <2>1, <3>1
  <2> HIDE DEF plays, waiting, minute
  <2>3. plays = {k}
    BY <1>1, <1>3, <2>1
  <2>4. Cardinality(plays) = 1
    BY <2>3, FS_Singleton
  <2>5. /\ Cardinality(plays) = IF waiting THEN 0 ELSE 1
        /\ waiting => minute > now \/ minute <= loaded.at
        /\ ~waiting => minute <= now
    BY <1>5, <2>2, <2>4
  <2> QED  BY <2>5 DEF plays, waiting, minute
<1> QED  BY <1>4, <1>5

LEMMA WorldClaim == IInv => LoadedWorldStands
BY DEF IInv, WorldInv, CastInv, Running, LoadedWorldStands, WorldInOrder, NoStrangersAnswer

(* Every request finds and leaves the server's state well typed.           *)
THEOREM TypeCorrect == Spec => []TypeOK
<1>1. IInv => TypeOK
  BY DEF IInv, Types, TypeOK
<1>2. IInv /\ [Next]_vars => IInv'
  BY InvStep
<1> QED  BY InvInit, <1>1, <1>2, PTL DEF Spec

(* However late a scenario is loaded, over whatever is pending, and        *)
(* whatever calls come between: each entry of its timeline is pending or   *)
(* has written exactly once, never before its minute, and is behind the    *)
(* clock only if the load was.                                             *)
THEOREM TimelinePlays == Spec => []TimelinePlaysOut
<1>1. IInv /\ [Next]_vars => IInv'
  BY InvStep
<1> QED  BY InvInit, TimelineClaim, <1>1, PTL DEF Spec

(* A loaded world is written in the order of (sim_time, seq), no persona   *)
(* outside its cast answers in it, and an older call writes to it only     *)
(* what it had promised.                                                   *)
THEOREM WorldKept == Spec => []LoadedWorldStands
<1>1. IInv /\ [Next]_vars => IInv'
  BY InvStep
<1> QED  BY InvInit, WorldClaim, <1>1, PTL DEF Spec

(* advance --to lands where it was sent, plus what other clients advanced  *)
(* meanwhile, and never moves back; a call answered with an error moves    *)
(* nothing and fires nothing that was not due.                             *)
THEOREM ClockKept == Spec => ClockIsKept
<1>1. IInv /\ [Next]_vars => IInv'
  BY InvStep
<1>2. IInv /\ [Next]_vars =>
        [\A c \in Clients : advance[c].open /\ ~advance'[c].open =>
           now' = IF advance[c].target >= advance[c].saw
                    THEN advance[c].target + advance[c].drift
                    ELSE now]_vars
  BY AdvanceStep DEF IInv
<1>3. IInv /\ [Next]_vars =>
        [~ok' => /\ now' = now
                 /\ IsPrefix(world, world')
                 /\ \A i \in Len(world) + 1 .. Len(world') :
                      world'[i] \in Due(now) \/ world'[i].seq = seq + 1]_vars
  BY RefusedStep DEF IInv
<1> QED  BY InvInit, <1>1, <1>2, <1>3, PTL DEF Spec, ClockIsKept, AdvanceLands, RefusedStaysPut
=============================================================================
