-------------------------- MODULE CliSessionProofs --------------------------
(***************************************************************************)
(* What a chain of command processes over one run directory guarantees for *)
(* every script, every verb and any number of commands, kills and reloads: *)
(* undisturbed it is one kernel, and what is cut short costs repetition    *)
(* and nothing else.                                                       *)
(***************************************************************************)
EXTENDS CliSession, SequenceTheorems, FiniteSetTheorems, WellFoundedInduction, TLAPS

KP == INSTANCE KernelProofs WITH Faulty <- {}, Instants <- Times

-----------------------------------------------------------------------------
(* Numbers and sequences.                                                  *)

(* A set of numbers that holds 0 and what follows each of its members.     *)
LEMMA NatSet ==
  ASSUME NEW T, 0 \in T, \A n \in Nat : n \in T => n + 1 \in T
  PROVE  Nat \subseteq T
<1> SUFFICES ASSUME Nat \ T # {}  PROVE FALSE
  OBVIOUS
<1>1. PICK n \in Nat \ T : \A m \in Nat \ T : ~(<<m, n>> \in OpToRel(<, Nat))
  <2> HIDE DEF OpToRel
  <2> QED  BY WFMin, NatLessThanWellFounded, Zenon
<1>2. \A m \in Nat \ T : ~(m < n)
  <2>1. \A m \in Nat : m < n => <<m, n>> \in OpToRel(<, Nat)
    BY <1>1, Zenon DEF OpToRel
  <2> QED  BY <1>1, <2>1, Zenon
<1>3. n # 0 /\ n \in Nat /\ n \notin T
  BY <1>1
<1>4. n - 1 \in Nat /\ n - 1 < n /\ (n - 1) + 1 = n
  BY <1>3
<1> QED  BY <1>2, <1>3, <1>4

(* A bounded set of numbers has a greatest member.                         *)
LEMMA Greatest ==
  ASSUME NEW n \in Nat, NEW S \in SUBSET (0 .. n), S # {}
  PROVE  Max(S) \in S /\ \A y \in S : Max(S) >= y
<1> DEFINE T == {m \in Nat : \A R \in SUBSET (0 .. m) :
                               R # {} => \E x \in R : \A y \in R : x >= y}
<1>1. 0 \in T
  <2> SUFFICES ASSUME NEW R \in SUBSET (0 .. 0), R # {}  PROVE \E x \in R : \A y \in R : x >= y
    OBVIOUS
  <2>1. PICK x \in R : TRUE
    OBVIOUS
  <2>2. \A y \in R : x >= y
    OBVIOUS
  <2> QED  BY <2>2
<1>2. ASSUME NEW m \in Nat, m \in T  PROVE m + 1 \in T
  <2> SUFFICES ASSUME NEW R \in SUBSET (0 .. m + 1), R # {}
               PROVE  \E x \in R : \A y \in R : x >= y
    OBVIOUS
  <2>1. CASE m + 1 \in R
    <3>1. \A y \in R : m + 1 >= y
      OBVIOUS
    <3> QED  BY <2>1, <3>1
  <2>2. CASE m + 1 \notin R
    <3>1. R \in SUBSET (0 .. m)
      BY <2>2
    <3> QED  BY <1>2, <3>1
  <2> QED  BY <2>1, <2>2
<1> HIDE DEF T
<1>3. n \in T
  BY <1>1, <1>2, NatSet
<1>4. \E x \in S : \A y \in S : x >= y
  BY <1>3 DEF T
<1> QED  BY <1>4, Zenon DEF Max


(* The sums that FlattenSeq runs through, from the left.                   *)
Sums(s, G) == G[0] = << >> /\ \A i \in 1 .. Len(s) : G[i] = G[i - 1] \o s[i]

(* The function FlattenSeq is defined by.                                   *)
Flattening(s, F) == F = [i \in 1 .. Len(s) |-> IF i = 1 THEN s[i] ELSE F[i - 1] \o s[i]]

LEMMA FlattenDef ==
  ASSUME NEW s, Len(s) # 0
  PROVE  FlattenSeq(s) = (CHOOSE F : Flattening(s, F))[Len(s)]
BY DEF FlattenSeq, Flattening

LEMMA SumsExist ==
  ASSUME NEW E, NEW s \in Seq(Seq(E))
  PROVE  \E G \in [0 .. Len(s) -> Seq(E)] : Sums(s, G)
<1> DEFINE To(m, G) == G[0] = << >> /\ \A i \in 1 .. m : G[i] = G[i - 1] \o s[i]
           T == {m \in Nat : m <= Len(s) => \E G \in [0 .. m -> Seq(E)] : To(m, G)}
<1>0. Len(s) \in Nat /\ \A i \in 1 .. Len(s) : s[i] \in Seq(E)
  BY ElementOfSeq, LenProperties
<1>1. 0 \in T
  <2>1. To(0, [i \in 0 .. 0 |-> << >>])
    OBVIOUS
  <2>2. [i \in 0 .. 0 |-> << >>] \in [0 .. 0 -> Seq(E)]
    BY EmptySeq
  <2> QED  BY <2>1, <2>2
<1>2. ASSUME NEW m \in Nat, m \in T  PROVE m + 1 \in T
  <2> SUFFICES ASSUME m + 1 <= Len(s)
               PROVE  \E G \in [0 .. m + 1 -> Seq(E)] : To(m + 1, G)
    <3> HIDE DEF To
    <3> QED  OBVIOUS
  <2>0. m <= Len(s)
    BY <1>0
  <2>1. PICK G \in [0 .. m -> Seq(E)] : To(m, G)
    <3> HIDE DEF To
    <3> QED  BY <1>2, <2>0
  <2> DEFINE H == [i \in 0 .. m + 1 |-> IF i = m + 1 THEN G[m] \o s[m + 1] ELSE G[i]]
  <2>2. G[m] \o s[m + 1] \in Seq(E)
    BY <1>0, ConcatProperties
  <2>3. H \in [0 .. m + 1 -> Seq(E)]
    BY <2>2
  <2>4. H[0] = << >>
    BY <2>1
  <2>5. ASSUME NEW i \in 1 .. m + 1  PROVE H[i] = H[i - 1] \o s[i]
    <3>1. CASE i = m + 1
      <4>1. H[i] = G[m] \o s[m + 1] /\ i - 1 = m /\ i - 1 # m + 1 /\ i - 1 \in 0 .. m + 1
        BY <3>1
      <4>2. H[i - 1] = G[m]
        BY <4>1
      <4> QED  BY <3>1, <4>1, <4>2
    <3>2. CASE i \in 1 .. m
      <4>1. H[i] = G[i] /\ H[i - 1] = G[i - 1]
        BY <3>2
      <4> QED  BY <2>1, <3>2, <4>1
    <3>3. i = m + 1 \/ i \in 1 .. m
      OBVIOUS
    <3> HIDE DEF H
    <3> QED  BY <3>1, <3>2, <3>3
  <2> QED  BY <2>3, <2>4, <2>5
<1> HIDE DEF T
<1>3. Len(s) \in T
  BY <1>0, <1>1, <1>2, NatSet
<1>4. Len(s) <= Len(s)
  BY <1>0
<1>5. \E G \in [0 .. Len(s) -> Seq(E)] : To(Len(s), G)
  <2> HIDE DEF To
  <2> QED  BY <1>3, <1>4 DEF T
<1> QED  BY <1>5, Zenon DEF Sums

LEMMA FlattenIsSum ==
  ASSUME NEW E, NEW s \in Seq(Seq(E)), NEW G, Sums(s, G)
  PROVE  FlattenSeq(s) = G[Len(s)]
<1>0. Len(s) \in Nat /\ \A i \in 1 .. Len(s) : s[i] \in Seq(E)
  BY ElementOfSeq, LenProperties
<1>1. CASE Len(s) = 0
  <2>1. FlattenSeq(s) = s /\ s = << >>
    BY <1>1, EmptySeq DEF FlattenSeq
  <2> QED  BY <1>1, <2>1 DEF Sums
<1>2. CASE Len(s) # 0
  <2>1. \E F : Flattening(s, F)
    <3>1. PICK H \in [0 .. Len(s) -> Seq(E)] : Sums(s, H)
      BY SumsExist
    <3> DEFINE F == [i \in 1 .. Len(s) |-> H[i]]
    <3>2. ASSUME NEW i \in 1 .. Len(s)
          PROVE  H[i] = IF i = 1 THEN s[i] ELSE F[i - 1] \o s[i]
      <4>1. H[i] = H[i - 1] \o s[i]
        BY <3>1 DEF Sums
      <4>2. CASE i = 1
        <5>1. H[1] = << >> \o s[1]
          <6>1. H[1 - 1] = << >> /\ 1 - 1 = 0
            BY <3>1 DEF Sums
          <6> QED  BY <4>1, <4>2, <6>1
        <5> QED  BY <1>0, <4>2, <5>1, ConcatEmptySeq
      <4>3. CASE i # 1
        <5>1. i - 1 \in 1 .. Len(s)
          BY <1>0, <4>3
        <5>2. F[i - 1] = H[i - 1]
          BY <5>1
        <5> QED  BY <4>1, <4>3, <5>2
      <4> QED  BY <4>2, <4>3
    <3>3. Flattening(s, F)
      BY <3>2 DEF Flattening
    <3> QED  BY <3>3
  <2> DEFINE C == CHOOSE F : Flattening(s, F)
  <2>2. Flattening(s, C)
    BY <2>1
  <2>3. FlattenSeq(s) = C[Len(s)]
    BY <1>2, FlattenDef
  <2> HIDE DEF C
  <2> DEFINE T == {m \in Nat : m + 1 <= Len(s) => C[m + 1] = G[m + 1]}
  <2>4. \A i \in 1 .. Len(s) : C[i] = IF i = 1 THEN s[i] ELSE C[i - 1] \o s[i]
    BY <2>2, Zenon DEF Flattening
  <2>5. 0 \in T
    <3>0. 1 \in 1 .. Len(s) /\ 1 - 1 = 0
      BY <1>0, <1>2
    <3>1. C[1] = s[1] /\ G[1] = << >> \o s[1]
      BY <2>4, <3>0 DEF Sums
    <3> QED  BY <1>0, <1>2, <3>1, ConcatEmptySeq
  <2>6. ASSUME NEW m \in Nat, m \in T  PROVE m + 1 \in T
    <3> SUFFICES ASSUME m + 2 <= Len(s)  PROVE C[m + 2] = G[m + 2]
      OBVIOUS
    <3>0. m + 2 \in 1 .. Len(s) /\ (m + 2) - 1 = m + 1 /\ m + 2 # 1
      BY <1>0
    <3>1. C[m + 2] = C[m + 1] \o s[m + 2]
      BY <2>4, <3>0
    <3>2. G[m + 2] = G[m + 1] \o s[m + 2]
      BY <3>0 DEF Sums
    <3>3. C[m + 1] = G[m + 1]
      BY <1>0, <2>6
    <3> QED  BY <3>1, <3>2, <3>3
  <2> HIDE DEF T
  <2>7. Len(s) - 1 \in T
    BY <1>0, <1>2, <2>5, <2>6, NatSet
  <2>8. C[Len(s)] = G[Len(s)]
    BY <1>0, <1>2, <2>7 DEF T
  <2> QED  BY <2>3, <2>8
<1> QED  BY <1>1, <1>2

(* Joining sequences gives a sequence, ...                                 *)
LEMMA FlattenType ==
  ASSUME NEW E, NEW s \in Seq(Seq(E))
  PROVE  FlattenSeq(s) \in Seq(E)
<1>1. PICK G \in [0 .. Len(s) -> Seq(E)] : Sums(s, G)
  BY SumsExist
<1>2. FlattenSeq(s) = G[Len(s)]
  BY <1>1, FlattenIsSum
<1>3. Len(s) \in 0 .. Len(s)
  BY LenProperties
<1> QED  BY <1>2, <1>3

(* ... one more to join comes last, ...                                    *)
LEMMA FlattenAppend ==
  ASSUME NEW E, NEW s \in Seq(Seq(E)), NEW x \in Seq(E)
  PROVE  FlattenSeq(Append(s, x)) = FlattenSeq(s) \o x
<1> DEFINE t == Append(s, x)
<1>0. /\ Len(s) \in Nat /\ t \in Seq(Seq(E)) /\ Len(t) = Len(s) + 1
      /\ \A i \in 1 .. Len(s) : t[i] = s[i]
      /\ t[Len(s) + 1] = x
  BY AppendProperties, LenProperties
<1> HIDE DEF t
<1>1. PICK G \in [0 .. Len(t) -> Seq(E)] : Sums(t, G)
  BY <1>0, SumsExist
<1>2. Sums(s, G)
  <2>1. ASSUME NEW i \in 1 .. Len(s)  PROVE G[i] = G[i - 1] \o s[i]
    <3>1. i \in 1 .. Len(t)
      BY <1>0
    <3> QED  BY <1>0, <1>1, <3>1 DEF Sums
  <2> QED  BY <1>1, <2>1 DEF Sums
<1>3. FlattenSeq(s) = G[Len(s)] /\ FlattenSeq(t) = G[Len(t)]
  BY <1>0, <1>1, <1>2, FlattenIsSum
<1>4. Len(t) \in 1 .. Len(t) /\ Len(t) - 1 = Len(s)
  BY <1>0
<1>5. G[Len(t)] = G[Len(t) - 1] \o t[Len(t)]
  BY <1>1, <1>4 DEF Sums
<1> QED  BY <1>0, <1>3, <1>4, <1>5 DEF t

(* Joining is associative.                                                 *)
Joined(a, b) == a \o b

Regroups(Q) == \A a, b, c \in Q : Joined(Joined(a, b), c) = Joined(a, Joined(b, c))

LEMMA Regroup == ASSUME NEW E  PROVE Regroups(Seq(E))
BY ConcatAssociative DEF Joined, Regroups

(* The first k of s, and the rest of it, the others made empty.            *)
Parts(s, k, u, v) ==
  \A i \in 1 .. Len(s) : /\ u[i] = IF i <= k THEN s[i] ELSE << >>
                         /\ v[i] = IF i <= k THEN << >> ELSE s[i]

(* ... and a sequence joined out of those up to a point and those after it *)
(* is the two joined.                                                      *)
LEMMA FlattenSplit ==
  ASSUME NEW E, NEW s \in Seq(Seq(E)), NEW k \in Nat, NEW u \in Seq(Seq(E)),
         NEW v \in Seq(Seq(E)), Len(u) = Len(s), Len(v) = Len(s),
         Parts(s, k, u, v)
  PROVE  FlattenSeq(s) = FlattenSeq(u) \o FlattenSeq(v)
<1>0. Len(s) \in Nat /\ \A i \in 1 .. Len(s) : s[i] \in Seq(E)
  BY ElementOfSeq, LenProperties
<1>1. PICK S \in [0 .. Len(s) -> Seq(E)] : Sums(s, S)
  BY SumsExist
<1>2. PICK U \in [0 .. Len(s) -> Seq(E)] : Sums(u, U)
  BY SumsExist
<1>3. PICK V \in [0 .. Len(s) -> Seq(E)] : Sums(v, V)
  BY SumsExist
<1> DEFINE T == {m \in Nat : m <= Len(s) => /\ S[m] = U[m] \o V[m]
                                            /\ m <= k => V[m] = << >>}
<1>4. 0 \in T
  <2>1. S[0] = << >> /\ U[0] = << >> /\ V[0] = << >>
    BY <1>1, <1>2, <1>3 DEF Sums
  <2>2. << >> \o << >> = << >>
    BY ConcatEmptySeq, EmptySeq
  <2> QED  BY <2>1, <2>2
<1>5. ASSUME NEW m \in Nat, m \in T  PROVE m + 1 \in T
  <2> SUFFICES ASSUME m + 1 <= Len(s)
               PROVE  /\ S[m + 1] = U[m + 1] \o V[m + 1]
                      /\ m + 1 <= k => V[m + 1] = << >>
    OBVIOUS
  <2>0. m <= Len(s)
    BY <1>0
  <2>1. /\ m + 1 \in 1 .. Len(s) /\ (m + 1) - 1 = m /\ m \in 0 .. Len(s)
        /\ S[m] = U[m] \o V[m] /\ (m <= k => V[m] = << >>)
    <3>1. S[m] = U[m] \o V[m] /\ (m <= k => V[m] = << >>)
      BY <1>5, <2>0, Zenon
    <3> HIDE DEF T
    <3>2. m + 1 \in 1 .. Len(s) /\ (m + 1) - 1 = m /\ m \in 0 .. Len(s)
      BY <1>0, <2>0
    <3> QED  BY <3>1, <3>2
  <2>2. /\ S[m + 1] = S[m] \o s[m + 1]
        /\ U[m + 1] = U[m] \o u[m + 1]
        /\ V[m + 1] = V[m] \o v[m + 1]
    BY <1>1, <1>2, <1>3, <2>1 DEF Sums
  <2>3. U[m] \in Seq(E) /\ V[m] \in Seq(E) /\ s[m + 1] \in Seq(E)
    BY <1>0, <2>1
  <2> HIDE DEF T
  <2>4. CASE m + 1 <= k
    <3>0. m <= k
      BY <2>4
    <3>1. u[m + 1] = s[m + 1] /\ v[m + 1] = << >> /\ V[m] = << >>
      BY <2>1, <2>4, <3>0 DEF Parts
    <3>2. S[m] = U[m] /\ V[m + 1] = << >>
      BY <2>1, <2>2, <2>3, <3>1, ConcatEmptySeq, EmptySeq
    <3>3. U[m + 1] \o << >> = U[m + 1]
      <4>1. U[m + 1] \in Seq(E)
        <5>1. m + 1 \in 0 .. Len(u)
          BY <1>0, <2>1
        <5> QED  BY <5>1
      <4> QED  BY <4>1, ConcatEmptySeq
    <3> QED  BY <2>2, <3>1, <3>2, <3>3
  <2>5. CASE ~(m + 1 <= k)
    <3>1. u[m + 1] = << >> /\ v[m + 1] = s[m + 1]
      BY <2>1, <2>5 DEF Parts
    <3>2. U[m + 1] = U[m]
      BY <2>2, <2>3, <3>1, ConcatEmptySeq
    <3>3. Joined(Joined(U[m], V[m]), s[m + 1]) = Joined(U[m], Joined(V[m], s[m + 1]))
      <4> DEFINE Q == Seq(E)
      <4>1. Regroups(Q)
        BY Regroup
      <4>2. U[m] \in Q /\ V[m] \in Q /\ s[m + 1] \in Q
        BY <2>3
      <4> HIDE DEF Q
      <4> QED  BY <4>1, <4>2 DEF Regroups
    <3>4. S[m + 1] = Joined(Joined(U[m], V[m]), s[m + 1])
      BY <2>1, <2>2 DEF Joined
    <3>5. U[m + 1] \o V[m + 1] = Joined(U[m], Joined(V[m], s[m + 1]))
      BY <2>2, <3>1, <3>2 DEF Joined
    <3> QED  BY <2>5, <3>3, <3>4, <3>5
  <2> QED  BY <2>4, <2>5
<1> HIDE DEF T
<1>6. Nat \subseteq T
  BY <1>4, <1>5, NatSet
<1>7. S[Len(s)] = U[Len(s)] \o V[Len(s)]
  <2>1. Len(s) \in T /\ Len(s) <= Len(s)
    BY <1>0, <1>6
  <2> QED  BY <2>1, Zenon DEF T
<1>8. /\ FlattenSeq(s) = S[Len(s)] /\ FlattenSeq(u) = U[Len(s)]
      /\ FlattenSeq(v) = V[Len(s)]
  BY <1>1, <1>2, <1>3, FlattenIsSum
<1> QED  BY <1>7, <1>8

(* Empty ones at the end leave no trace, ...                               *)
LEMMA FlattenPadded ==
  ASSUME NEW E, NEW s \in Seq(Seq(E)), NEW t \in Seq(Seq(E)), Len(t) <= Len(s),
         \A i \in 1 .. Len(s) : s[i] = IF i <= Len(t) THEN t[i] ELSE << >>
  PROVE  FlattenSeq(s) = FlattenSeq(t)
<1>0. Len(s) \in Nat /\ Len(t) \in Nat
  BY LenProperties
<1>1. PICK S \in [0 .. Len(s) -> Seq(E)] : Sums(s, S)
  BY SumsExist
<1>2. Sums(t, S)
  <2>1. ASSUME NEW i \in 1 .. Len(t)  PROVE S[i] = S[i - 1] \o t[i]
    <3>1. i \in 1 .. Len(s) /\ i <= Len(t)
      BY <1>0
    <3> QED  BY <1>1, <3>1 DEF Sums
  <2> QED  BY <1>1, <2>1 DEF Sums
<1> DEFINE T == {m \in Nat : Len(t) <= m /\ m <= Len(s) => S[m] = S[Len(t)]}
<1>3. 0 \in T
  BY <1>0
<1>4. ASSUME NEW m \in Nat, m \in T  PROVE m + 1 \in T
  <2> SUFFICES ASSUME Len(t) <= m + 1, m + 1 <= Len(s)
               PROVE  S[m + 1] = S[Len(t)]
    OBVIOUS
  <2>1. CASE Len(t) = m + 1
    BY <2>1
  <2>2. CASE Len(t) <= m
    <3>1. /\ m + 1 \in 1 .. Len(s) /\ (m + 1) - 1 = m /\ m \in 0 .. Len(s)
          /\ ~(m + 1 <= Len(t)) /\ m <= Len(s)
      BY <1>0, <2>2
    <3>2. S[m + 1] = S[m] \o << >> /\ S[m] \in Seq(E)
      BY <1>1, <3>1 DEF Sums
    <3>3. S[m] = S[Len(t)]
      BY <1>4, <2>2, <3>1
    <3> QED  BY <3>2, <3>3, ConcatEmptySeq
  <2> QED  BY <1>0, <2>1, <2>2
<1> HIDE DEF T
<1>5. S[Len(s)] = S[Len(t)]
  <2>1. Nat \subseteq T
    BY <1>3, <1>4, NatSet
  <2>2. Len(s) \in T /\ Len(s) <= Len(s)
    BY <1>0, <2>1
  <2> QED  BY <2>2 DEF T
<1>6. FlattenSeq(s) = S[Len(s)] /\ FlattenSeq(t) = S[Len(t)]
  BY <1>1, <1>2, FlattenIsSum
<1> QED  BY <1>5, <1>6

(* ... and empty ones alone make an empty one.                             *)
LEMMA FlattenNothing ==
  ASSUME NEW E, NEW s \in Seq(Seq(E)), \A i \in 1 .. Len(s) : s[i] = << >>
  PROVE  FlattenSeq(s) = << >>
<1>1. /\ << >> \in Seq(Seq(E)) /\ Len(<< >>) = 0 /\ Len(s) \in Nat
  BY EmptySeq, LenProperties
<1>2. FlattenSeq(s) = FlattenSeq(<< >>)
  BY <1>1, FlattenPadded
<1> QED  BY <1>1, <1>2 DEF FlattenSeq

-----------------------------------------------------------------------------
(* The kernel of a command.                                                *)

(* The assumptions of Kernel, under the substitution of this module.       *)
LEMMA KernelAssumptions ==
  /\ Handled \subseteq Kinds
  /\ {} \subseteq Kinds
  /\ FollowUps \in [Kinds -> Seq([delay : Nat, kind : Kinds])]
  /\ Times \subseteq Nat
  /\ MaxSeq \in Nat
<1>1. {} \subseteq Kinds
  OBVIOUS
<1> QED  BY <1>1, KindsAssumption, ScriptAssumption, Zenon

(* The kernel named by the specification and the kernel the lemmas are     *)
(* about are the same.                                                     *)
LEMMA SameKernel ==
  /\ K!Init <=> KP!Init
  /\ K!TypeOK <=> KP!TypeOK
  /\ K!Event = KP!Event
  /\ \A t, k : K!Schedule(t, k) <=> KP!Schedule(t, k)
  /\ \A t : K!PopDue(t) <=> KP!PopDue(t)
  /\ \A e : K!Apply(e) <=> KP!Apply(e)
  /\ K!Return <=> KP!Return
  /\ \A e : K!FollowUpsOf(e) = KP!FollowUpsOf(e)
  /\ \A e : K!Emitted(e) = KP!Emitted(e)
<1>1. K!Init <=> KP!Init
  BY Zenon DEF K!Init, KP!Init
<1>2. K!TypeOK <=> KP!TypeOK
  BY Zenon DEF K!TypeOK, KP!TypeOK, K!Event, KP!Event
<1>3. K!Event = KP!Event
  BY Zenon DEF K!Event, KP!Event
<1>4. \A t, k : K!Schedule(t, k) <=> KP!Schedule(t, k)
  BY Zenon DEF K!Schedule, KP!Schedule
<1>5. \A t : K!PopDue(t) <=> KP!PopDue(t)
  BY Zenon DEF K!PopDue, KP!PopDue, K!Due, KP!Due
<1>6. \A e : K!IsNext(e) <=> KP!IsNext(e)
  BY Zenon DEF K!IsNext, KP!IsNext, K!Before, KP!Before
<1>7. \A e : K!FollowUpsOf(e) = KP!FollowUpsOf(e)
  BY Zenon DEF K!FollowUpsOf, KP!FollowUpsOf
<1>8. \A e : K!Emitted(e) = KP!Emitted(e)
  BY Zenon DEF K!Emitted, KP!Emitted, K!FollowUpsOf, KP!FollowUpsOf
<1>9. \A e : K!Apply(e) <=> KP!Apply(e)
  BY <1>6, <1>7, <1>8, Zenon DEF K!Apply, KP!Apply
<1>10. K!Return <=> KP!Return
  BY Zenon DEF K!Return, KP!Return
<1> QED  BY <1>1, <1>2, <1>3, <1>4, <1>5, <1>7, <1>8, <1>9, <1>10, Zenon

(* An operation of the kernel keeps its types.                             *)
LEMMA KernelTypeStep ==
  ASSUME K!TypeOK,
         \/ \E t \in Times, k \in Kinds : K!Schedule(t, k)
         \/ \E t \in Times : K!PopDue(t)
         \/ \E e \in batch : K!Apply(e)
         \/ K!Return
         \/ UNCHANGED kernelVars
  PROVE  K!TypeOK'
<1>1. KP!TypeOK
  BY SameKernel
<1>2. KP!Next \/ UNCHANGED KP!vars
  <2>1. CASE \E t \in Times, k \in Kinds : K!Schedule(t, k)
    BY <2>1, SameKernel, Zenon DEF KP!Next
  <2>2. CASE \E t \in Times : K!PopDue(t)
    BY <2>2, SameKernel, Zenon DEF KP!Next
  <2>3. CASE \E e \in batch : K!Apply(e)
    BY <2>3, SameKernel, Zenon DEF KP!Next, KP!ApplyNext
  <2>4. CASE K!Return
    BY <2>4, SameKernel, Zenon DEF KP!Next
  <2>5. CASE UNCHANGED kernelVars
    BY <2>5 DEF KP!vars, kernelVars
  <2> QED  BY <2>1, <2>2, <2>3, <2>4, <2>5
<1>3. KP!TypeOK'
  BY <1>1, <1>2, KernelAssumptions, KP!TypeStep, Zenon
<1> QED  BY <1>3, Zenon DEF K!TypeOK, KP!TypeOK, K!Event, KP!Event

(* What apply() schedules: fresh distinct numbers, nothing due before the  *)
(* event itself, never a verb; and nothing at all unless it is a verb.     *)
LEMMA EmittedFacts ==
  ASSUME NEW e \in K!Event, seq \in Nat
  PROVE  /\ K!Emitted(e) \subseteq K!Event
         /\ \A f \in K!Emitted(e) : /\ seq < f.seq
                                    /\ f.seq <= seq + Len(K!FollowUpsOf(e))
                                    /\ f.time >= e.time
                                    /\ f.kind \notin Calls
         /\ \A f, g \in K!Emitted(e) : f.seq = g.seq => f = g
         /\ \A n \in seq + 1 .. seq + Len(K!FollowUpsOf(e)) :
              \E f \in K!Emitted(e) : f.seq = n
         /\ e.kind \notin Calls => K!Emitted(e) = {}
         /\ Len(K!FollowUpsOf(e)) \in Nat
<1>1. e \in KP!Event
  BY SameKernel, Zenon
<1>2. /\ KP!Emitted(e) \subseteq KP!Event
      /\ \A f \in KP!Emitted(e) : /\ seq < f.seq
                                  /\ f.seq <= seq + Len(KP!FollowUpsOf(e))
                                  /\ f.time >= e.time
                                  /\ f.cause = e.seq
      /\ \A f, g \in KP!Emitted(e) : f.seq = g.seq => f = g
      /\ \A n \in seq + 1 .. seq + Len(KP!FollowUpsOf(e)) :
           \E f \in KP!Emitted(e) : f.seq = n
  BY <1>1, KernelAssumptions, KP!EmittedFacts, Zenon
<1>3. Len(KP!FollowUpsOf(e)) \in Nat
  BY <1>1, KernelAssumptions, KP!FollowUpsType, Zenon
<1>4. K!Emitted(e) = KP!Emitted(e) /\ K!FollowUpsOf(e) = KP!FollowUpsOf(e)
  BY SameKernel, Zenon
<1>5. e.kind \in Kinds
  BY DEF K!Event
<1>6. \A f \in K!Emitted(e) : f.kind \notin Calls
  <2>1. ASSUME NEW i \in DOMAIN K!FollowUpsOf(e)
        PROVE  K!FollowUpsOf(e)[i].kind \notin Calls
    BY <1>5, <2>1, KindsAssumption DEF K!FollowUpsOf
  <2> QED  BY <2>1 DEF K!Emitted
<1>7. e.kind \notin Calls => K!Emitted(e) = {}
  <2>1. e.kind \notin Calls => K!FollowUpsOf(e) = << >>
    BY <1>5, KindsAssumption DEF K!FollowUpsOf
  <2> QED  BY <2>1 DEF K!Emitted
<1>8. K!Event = KP!Event
  BY SameKernel, Zenon
<1> QED  BY <1>2, <1>3, <1>4, <1>6, <1>7, <1>8, Zenon

-----------------------------------------------------------------------------
(* Types: those of TypeOK that do not rest on what a replay computes.      *)

Phases == {"idle", "loading", "resumed", "draining", "advancing", "snapshot", "session"}

Sessions == [now : Times, seq : Nat, pending : SUBSET K!Event, readable : BOOLEAN]

Types == /\ K!TypeOK
         /\ now \in Times /\ until \in Times
         /\ sess \in Sessions
         /\ aborts \in Nat /\ loads \in Nat
         /\ phase \in Phases

(* The script as the loader schedules it.                                  *)
LEMMA ScriptEntry ==
  ASSUME seq \in Nat, seq < Len(Timeline)
  PROVE  /\ Timeline[seq + 1].at \in Times
         /\ Timeline[seq + 1].kind \in Kinds \ Calls
<1> DEFINE T == [at : Times, kind : Kinds \ Calls]
<1>1. Timeline \in Seq(T)
  BY ScriptAssumption
<1> HIDE DEF T
<1>2. seq + 1 \in DOMAIN Timeline
  BY <1>1, LenProperties
<1>3. Timeline[seq + 1] \in T
  BY <1>1, <1>2, ElementOfSeq, LenProperties
<1> QED  BY <1>3 DEF T

(* A command works the kernel through its operations only; a load and a    *)
(* resume set it up afresh.                                                *)
LEMMA StepShape ==
  ASSUME [Next]_vars, Types
  PROVE  \/ Load
         \/ Resume
         \/ UNCHANGED kernelVars
         \/ \E t \in Times, k \in Kinds : K!Schedule(t, k)
         \/ \E t \in Times : K!PopDue(t)
         \/ \E e \in batch : K!Apply(e)
         \/ K!Return
<1> USE DEF kernelVars, memoryVars, diskVars, fileVars
<1>1. CASE LoadScript
  BY <1>1, ScriptEntry DEF LoadScript, Types, K!TypeOK
<1>2. ASSUME NEW k \in Calls, Step(k)  PROVE \E t \in Times, l \in Kinds : K!Schedule(t, l)
  BY <1>2, KindsAssumption DEF Step, Types
<1>3. ASSUME NEW d \in Durations, Advance(d)  PROVE \E t \in Times : K!PopDue(t)
  BY <1>3 DEF Advance
<1>4. CASE Drain
  BY <1>4 DEF Drain, Types
<1>5. CASE Return
  BY <1>5 DEF Return
<1>6. ASSUME NEW e \in batch, ApplyEvent(e)  PROVE K!Apply(e)
  BY <1>6 DEF ApplyEvent
<1>7. CASE OpenRun \/ WriteSnapshot \/ RunEval
  BY <1>7 DEF OpenRun, WriteSnapshot, RunEval
<1>8. CASE Exit \/ Drained \/ WriteSession \/ Abort \/ CutSnapshot \/ CutSession
  BY <1>8 DEF Exit, Drained, WriteSession, Abort, CutSnapshot, CutSession
<1>9. CASE UNCHANGED vars
  BY <1>9 DEF vars
<1> QED  BY <1>1, <1>2, <1>3, <1>4, <1>5, <1>6, <1>7, <1>8, <1>9 DEF Next

(* A fresh run directory is well typed.                                    *)
LEMMA TypesInit == Init => Types
<1> SUFFICES ASSUME Init  PROVE Types
  OBVIOUS
<1>1. K!TypeOK
  BY SameKernel, KernelAssumptions, KP!TypeInit, Zenon DEF Init
<1>2. now \in Times /\ until \in Times
  BY ScriptAssumption DEF Init, K!Init
<1>3. sess \in Sessions
  BY ScriptAssumption DEF Init, NoSession, Sessions
<1>4. aborts \in Nat /\ loads \in Nat /\ phase \in Phases
  BY DEF Init, Phases
<1> QED  BY <1>1, <1>2, <1>3, <1>4 DEF Types

(* Every command keeps the types, whatever it reads back.                  *)
LEMMA TypesStep ==
  ASSUME Types, [Next]_vars
  PROVE  Types'
<1> USE DEF kernelVars, memoryVars, diskVars, fileVars, countVars
<1>1. K!TypeOK' /\ now' \in Times /\ until' \in Times
  <2>1. CASE Load
    BY <2>1, ScriptAssumption DEF Load, Types, K!TypeOK
  <2>2. CASE Resume
    BY <2>2, ScriptAssumption DEF Resume, Types, Sessions, K!TypeOK
  <2>3. CASE ~Load /\ ~Resume
    <3>1. K!TypeOK'
      BY <2>3, StepShape, KernelTypeStep DEF Types
    <3>2. ASSUME NEW t \in Times, NEW k \in Kinds, K!Schedule(t, k)
          PROVE  UNCHANGED <<now, until>>
      BY <3>2 DEF K!Schedule
    <3>3. ASSUME NEW t \in Times, K!PopDue(t)  PROVE now' = now /\ until' = t
      BY <3>3 DEF K!PopDue
    <3>4. ASSUME NEW e \in batch, K!Apply(e)  PROVE UNCHANGED <<now, until>>
      BY <3>4 DEF K!Apply
    <3>5. ASSUME K!Return  PROVE now' \in Times /\ until' \in Times
      BY <3>5 DEF K!Return, Types
    <3>6. now' \in Times /\ until' \in Times
      BY <2>3, StepShape, <3>2, <3>3, <3>4, <3>5 DEF Types
    <3> QED  BY <3>1, <3>6
  <2> QED  BY <2>1, <2>2, <2>3
<1>2. sess' \in Sessions
  <2>1. CASE WriteSession
    BY <2>1 DEF WriteSession, Types, Sessions, K!TypeOK
  <2>2. CASE CutSession
    BY <2>2, ScriptAssumption DEF CutSession, NoSession, Sessions
  <2>3. UNCHANGED sess \/ WriteSession \/ CutSession
    BY DEF Next, vars, Load, LoadScript, OpenRun, Resume, Exit, Step, Advance, Drain,
           Drained, Return, ApplyEvent, WriteSnapshot, RunEval, Abort, CutSnapshot
  <2> QED  BY <2>1, <2>2, <2>3 DEF Types
<1>3. aborts' \in Nat /\ loads' \in Nat
  <2>1. /\ aborts' \in {aborts, aborts + 1}
        /\ loads' \in {loads, loads + 1}
    BY DEF Next, vars, Load, LoadScript, OpenRun, Resume, Exit, Step, Advance, Drain, Drained,
           Return, ApplyEvent, WriteSnapshot, WriteSession, RunEval, Abort, CutSnapshot, CutSession
  <2> QED  BY <2>1 DEF Types
<1>4. phase' \in Phases
  BY DEF Types, Phases, Next, vars, Load, LoadScript, OpenRun, Resume, Exit, Step, Advance,
         Drain, Drained, Return, ApplyEvent, WriteSnapshot, WriteSession, RunEval, Abort,
         CutSnapshot, CutSession
<1> QED  BY <1>1, <1>2, <1>3, <1>4 DEF Types

-----------------------------------------------------------------------------
(* The undisturbed chain is one kernel.                                    *)

SessionIsMemory == sess.now = now /\ sess.seq = seq /\ sess.pending = queue

(* A command is inside the kernel's loop only while it drains or advances, *)
(* and one that has just resumed holds what the session file holds.        *)
CallInv ==
  /\ ~advancing => batch = {}
  /\ phase \in {"loading", "resumed", "snapshot", "session"} => ~advancing
  /\ phase = "resumed" => sess.readable /\ SessionIsMemory

(* While nothing was aborted or loaded twice, the gap between two commands *)
(* holds in the file what the last one left in memory.                     *)
Unbroken == aborts = 0 /\ loads <= 1

Chain ==
  Unbroken =>
    /\ loads = 0 => K!Init /\ phase = "idle" /\ ~sess.readable
    /\ phase = "idle" => ~advancing
    /\ phase = "idle" /\ sess.readable => SessionIsMemory

(* No command leaves the loop or the session in between.                   *)
LEMMA CallStep ==
  ASSUME CallInv, [Next]_vars
  PROVE  CallInv'
<1> USE DEF CallInv, SessionIsMemory, kernelVars, memoryVars, diskVars, fileVars
<1>1. CASE Load
  BY <1>1 DEF Load
<1>2. CASE LoadScript
  BY <1>2 DEF LoadScript, K!Schedule
<1>3. CASE OpenRun \/ WriteSnapshot \/ RunEval
  BY <1>3 DEF OpenRun, WriteSnapshot, RunEval
<1>4. CASE Resume
  BY <1>4 DEF Resume
<1>5. CASE Exit \/ Drained \/ WriteSession
  BY <1>5 DEF Exit, Drained, WriteSession
<1>6. ASSUME NEW k \in Calls, Step(k)  PROVE CallInv'
  BY <1>6 DEF Step, K!Schedule
<1>7. ASSUME NEW d \in Durations, Advance(d)  PROVE CallInv'
  BY <1>7 DEF Advance, K!PopDue
<1>8. CASE Drain
  BY <1>8 DEF Drain, K!PopDue
<1>9. CASE Return
  BY <1>9 DEF Return, K!Return
<1>10. ASSUME NEW e \in batch, ApplyEvent(e)  PROVE CallInv'
  BY <1>10 DEF ApplyEvent, K!Apply
<1>11. CASE Abort \/ CutSnapshot \/ CutSession
  BY <1>11 DEF Abort, CutSnapshot, CutSession
<1>12. CASE UNCHANGED vars
  BY <1>12 DEF vars
<1> QED  BY <1>1, <1>2, <1>3, <1>4, <1>5, <1>6, <1>7, <1>8, <1>9, <1>10, <1>11, <1>12 DEF Next

(* Ending a command and starting the next moves nothing.                   *)
LEMMA ChainStep ==
  ASSUME Types, CallInv, Chain, [Next]_vars
  PROVE  Chain'
<1> USE DEF Chain, Unbroken, SessionIsMemory, countVars, kernelVars, memoryVars, diskVars,
            fileVars
<1>0. aborts \in Nat /\ loads \in Nat
  BY DEF Types
<1>1. CASE Load
  BY <1>0, <1>1 DEF Load
<1>2. CASE LoadScript
  BY <1>2 DEF LoadScript
<1>3. CASE OpenRun \/ WriteSnapshot
  BY <1>3 DEF OpenRun, WriteSnapshot
<1>4. CASE RunEval
  BY <1>4 DEF RunEval, K!Init
<1>5. CASE Resume
  BY <1>5 DEF Resume
<1>6. CASE Exit \/ Drained \/ WriteSession
  BY <1>6 DEF Exit, Drained, WriteSession, CallInv
<1>7. ASSUME NEW k \in Calls, Step(k)  PROVE Chain'
  BY <1>7 DEF Step
<1>8. ASSUME NEW d \in Durations, Advance(d)  PROVE Chain'
  BY <1>8 DEF Advance
<1>9. CASE Drain
  BY <1>9 DEF Drain
<1>10. CASE Return
  BY <1>10 DEF Return
<1>11. ASSUME NEW e \in batch, ApplyEvent(e)  PROVE Chain'
  BY <1>11 DEF ApplyEvent
<1>12. CASE Abort \/ CutSnapshot \/ CutSession
  BY <1>0, <1>12 DEF Abort, CutSnapshot, CutSession
<1>13. CASE UNCHANGED vars
  BY <1>13 DEF vars, K!Init
<1> QED  BY <1>1, <1>2, <1>3, <1>4, <1>5, <1>6, <1>7, <1>8, <1>9, <1>10, <1>11, <1>12, <1>13
       DEF Next

(* A load that is the first starts from a fresh kernel, and a resume finds *)
(* in the files what the memory of the last command held.                  *)
LEMMA OneKernelStep ==
  ASSUME Types, CallInv, Chain, [Next]_vars, aborts' = 0, loads' = 1
  PROVE  K!Next \/ UNCHANGED kernelVars
<1>1. CASE Load
  <2>1. K!Init /\ aborts = 0
    BY <1>1 DEF Load, Chain, Unbroken, Types
  <2> QED  BY <1>1, <2>1 DEF Load, K!Init, kernelVars, diskVars
<1>2. CASE Resume
  <2>1. advancing = FALSE /\ batch = {} /\ SessionIsMemory
    BY <1>2 DEF Resume, Chain, Unbroken, CallInv, Types, K!TypeOK
  <2> QED  BY <1>2, <2>1 DEF Resume, SessionIsMemory, kernelVars, diskVars
<1>3. CASE ~Load /\ ~Resume
  BY <1>3, StepShape DEF K!Next, K!ApplyNext
<1> QED  BY <1>1, <1>2, <1>3

(* As long as nothing is aborted and the run id is not loaded again, the   *)
(* chain of processes is one kernel: whatever the script, the verbs and    *)
(* the number of commands, no event, clock or counter is changed by ending *)
(* a command and resuming it in another.                                   *)
THEOREM ChainIsOneKernel == Spec => OneKernel
<1>1. Init => K!Init /\ Types /\ CallInv /\ Chain
  <2> SUFFICES ASSUME Init  PROVE K!Init /\ Types /\ CallInv /\ Chain
    OBVIOUS
  <2> QED  BY TypesInit DEF Init, K!Init, CallInv, Chain, NoSession
<1>2. Types /\ CallInv /\ Chain /\ [Next]_vars => Types' /\ CallInv' /\ Chain'
  BY TypesStep, CallStep, ChainStep
<1>3. Types /\ CallInv /\ Chain /\ [Next]_vars =>
        [aborts' = 0 /\ loads' = 1 => K!Next]_kernelVars
  BY OneKernelStep
<1> QED  BY <1>1, <1>2, <1>3, PTL DEF Spec, OneKernel

-----------------------------------------------------------------------------
(* What an aborted command may cost: the five ways a step can go, as the   *)
(* log, the session file and the pending events see it.                    *)

Memory == queue \cup batch

Running == phase # "idle"

(* The pending events of a running command are distinct.                   *)
DistinctInv ==
  /\ Running => /\ queue \cap batch = {}
                /\ \A e, f \in Memory : e.seq = f.seq => e = f
                /\ \A e \in Memory : e.seq <= seq
  /\ \A e, f \in sess.pending : e.seq = f.seq => e = f
  /\ \A e \in sess.pending : e.seq <= sess.seq

Loads == /\ Memory' = {} /\ batch' = {} /\ seq' = 0 /\ UNCHANGED <<log, sess, aborts>>
         /\ loads' = loads + 1 /\ Running'

Resumes == /\ Memory' = sess.pending /\ batch' = {} /\ seq' = sess.seq /\ now' = sess.now
           /\ UNCHANGED <<log, sess, aborts, loads>>
           /\ phase = "idle" /\ sess.readable /\ Running'

(* The pending events stay as they are: inside a command, between two, at  *)
(* the end of one that wrote nothing, at the end of one that wrote its     *)
(* session, or where one is cut short.                                     *)
Quiet ==
  /\ Memory' = Memory /\ UNCHANGED <<seq, log, loads>>
  /\ Running' => queue' \cap batch' = {}
  /\ \/ phase' = phase /\ UNCHANGED <<sess, aborts>>
     \/ Running /\ Running' /\ UNCHANGED <<sess, aborts>>
     \/ phase = "resumed" /\ phase' = "idle" /\ UNCHANGED <<sess, aborts>>
     \/ /\ Running /\ phase' = "idle" /\ UNCHANGED aborts
        /\ sess' = [now |-> now, seq |-> seq, pending |-> Memory, readable |-> TRUE]
     \/ /\ Running /\ phase' = "idle" /\ aborts' = aborts + 1
        /\ sess' = sess \/ sess' = NoSession

Schedules(t, k) ==
  /\ Memory' = Memory \cup {[seq |-> seq + 1, time |-> t, kind |-> k, cause |-> 0]}
  /\ seq' = seq + 1
  /\ queue' \cap batch' = {}
  /\ Running /\ Running' /\ UNCHANGED <<log, sess, aborts, loads>>

Applies(e) ==
  /\ e \in batch /\ e \in Memory
  /\ Memory' = (Memory \ {e}) \cup K!Emitted(e)
  /\ queue' \cap batch' = {}
  /\ seq' = seq + Len(K!FollowUpsOf(e))
  /\ log' = Append(log, e)
  /\ Running /\ Running' /\ UNCHANGED <<sess, aborts, loads>>

(* Every step goes one of the five ways.                                   *)
LEMMA Shapes ==
  ASSUME Types, CallInv, DistinctInv, [Next]_vars
  PROVE  \/ Loads \/ Resumes \/ Quiet
         \/ \E t \in Times, k \in Kinds : Schedules(t, k)
         \/ \E e \in batch : Applies(e)
<1> USE DEF Memory, Running, kernelVars, memoryVars, diskVars, fileVars, countVars
<1>1. CASE Load
  <2> QED  BY <1>1 DEF Load, Loads
<1>2. CASE Resume
  <2> QED  BY <1>2 DEF Resume, Resumes
<1>3. ASSUME NEW t \in Times, NEW k \in Kinds, K!Schedule(t, k),
             phase # "idle", phase' # "idle", UNCHANGED <<sess, aborts, loads>>
      PROVE  Schedules(t, k)
  BY <1>3 DEF Schedules, K!Schedule, CallInv
<1>4. CASE LoadScript
  <2>1. /\ Timeline[seq + 1].at \in Times /\ Timeline[seq + 1].kind \in Kinds
        /\ K!Schedule(Timeline[seq + 1].at, Timeline[seq + 1].kind)
    BY <1>4, ScriptEntry DEF LoadScript, Types, K!TypeOK
  <2>2. Schedules(Timeline[seq + 1].at, Timeline[seq + 1].kind)
    BY <1>3, <1>4, <2>1 DEF LoadScript
  <2> QED  BY <2>1, <2>2
<1>5. ASSUME NEW k \in Calls, Step(k)  PROVE Schedules(now, k)
  <2>1. now \in Times /\ k \in Kinds
    BY KindsAssumption DEF Types
  <2> QED  BY <1>3, <1>5, <2>1 DEF Step
<1>6. ASSUME NEW e \in batch, ApplyEvent(e)  PROVE Applies(e)
  <2>1. /\ queue \cap batch = {}
        /\ \A f \in Memory : f.seq <= seq
        /\ phase # "idle"
    BY <1>6 DEF DistinctInv, ApplyEvent
  <2>2. e \in K!Event /\ seq \in Nat /\ batch \subseteq K!Event
    BY DEF Types, K!TypeOK
  <2>3. \A f \in K!Emitted(e) : seq < f.seq
    BY <2>2, EmittedFacts
  <2>4. K!Emitted(e) \subseteq K!Event
    BY <2>2, EmittedFacts
  <2>5. K!Emitted(e) \cap batch = {}
    BY <2>1, <2>2, <2>3, <2>4 DEF K!Event
  <2> QED  BY <1>6, <2>1, <2>5 DEF ApplyEvent, Applies, K!Apply
<1>7. ASSUME NEW t, K!PopDue(t)  PROVE /\ Memory' = Memory /\ UNCHANGED <<seq, log>>
                                          /\ queue' \cap batch' = {}
  BY <1>7 DEF K!PopDue, K!Due, CallInv
<1>8. ASSUME NEW d \in Durations, Advance(d)  PROVE Quiet
  BY <1>7, <1>8 DEF Advance, Quiet
<1>9. CASE Drain
  BY <1>7, <1>9 DEF Drain, Quiet
<1>10. CASE Return
  BY <1>10 DEF Return, K!Return, Quiet, DistinctInv
<1>11. CASE OpenRun \/ WriteSnapshot \/ RunEval
  BY <1>11 DEF OpenRun, WriteSnapshot, RunEval, Quiet, DistinctInv
<1>12. CASE Exit \/ Drained
  BY <1>12 DEF Exit, Drained, Quiet, DistinctInv
<1>13. CASE WriteSession
  BY <1>13 DEF WriteSession, Quiet, CallInv, DistinctInv
<1>14. CASE Abort \/ CutSnapshot \/ CutSession
  BY <1>14 DEF Abort, CutSnapshot, CutSession, Quiet
<1>15. CASE UNCHANGED vars
  BY <1>15 DEF vars, Quiet, DistinctInv
<1> QED  BY <1>1, <1>2, <1>4, <1>5, <1>6, <1>8, <1>9, <1>10, <1>11, <1>12, <1>13, <1>14, <1>15,
            KindsAssumption DEF Next, Types

(* What a running command holds and what a session keeps stays distinct.   *)
LEMMA DistinctStep ==
  ASSUME Types, CallInv, DistinctInv, [Next]_vars
  PROVE  DistinctInv'
<1> USE DEF DistinctInv, Running
<1>0. /\ seq \in Nat /\ Memory \subseteq K!Event
      /\ sess.seq \in Nat /\ sess.pending \subseteq K!Event
  BY DEF Types, K!TypeOK, Memory, Sessions
<1>1. CASE Loads
  BY <1>1 DEF Loads
<1>2. CASE Resumes
  BY <1>2 DEF Resumes
<1>3. CASE Quiet
  BY <1>3 DEF Quiet, NoSession
<1>4. ASSUME NEW t \in Times, NEW k \in Kinds, Schedules(t, k)  PROVE DistinctInv'
  <2> DEFINE f == [seq |-> seq + 1, time |-> t, kind |-> k, cause |-> 0]
  <2>1. \A e \in Memory : e.seq \in Nat /\ e.seq <= seq
    BY <1>0, <1>4 DEF Schedules, K!Event
  <2>2. \A e \in Memory' : e \in Memory \/ e = f
    BY <1>4 DEF Schedules
  <2>3. f.seq = seq + 1
    OBVIOUS
  <2> HIDE DEF f
  <2>4. \A e, g \in Memory' : e.seq = g.seq => e = g
    BY <1>0, <1>4, <2>1, <2>2, <2>3 DEF Schedules
  <2>5. \A e \in Memory' : e.seq <= seq'
    BY <1>0, <1>4, <2>1, <2>2, <2>3 DEF Schedules
  <2> QED  BY <1>4, <2>4, <2>5 DEF Schedules
<1>5. ASSUME NEW e \in batch, Applies(e)  PROVE DistinctInv'
  <2>1. e \in K!Event
    BY <1>0, <1>5 DEF Applies
  <2>2. /\ \A f \in K!Emitted(e) : seq < f.seq /\ f.seq <= seq + Len(K!FollowUpsOf(e))
        /\ \A f, g \in K!Emitted(e) : f.seq = g.seq => f = g
        /\ K!Emitted(e) \subseteq K!Event
        /\ Len(K!FollowUpsOf(e)) \in Nat
    BY <1>0, <2>1, EmittedFacts
  <2>3. \A f \in Memory : f.seq \in Nat /\ f.seq <= seq
    BY <1>0, <1>5 DEF Applies, K!Event
  <2>4. \A f \in Memory' : f \in Memory \/ f \in K!Emitted(e)
    BY <1>5 DEF Applies
  <2>5. \A f, g \in Memory' : f.seq = g.seq => f = g
    BY <1>0, <1>5, <2>2, <2>3, <2>4 DEF Applies, K!Event
  <2>6. \A f \in Memory' : f.seq <= seq'
    BY <1>0, <1>5, <2>2, <2>3, <2>4 DEF Applies, K!Event
  <2> QED  BY <1>5, <2>5, <2>6 DEF Applies
<1> QED  BY <1>1, <1>2, <1>3, <1>4, <1>5, Shapes

-----------------------------------------------------------------------------
(* Nothing is forgotten.                                                   *)

LoggedSeq(n) == \E i \in DOMAIN log : log[i].seq = n

(* Every number the running command's counter has passed is in the log or  *)
(* still pending, and so is every number of the session.                   *)
AccountedInv ==
  /\ Running => \A n \in 1 .. seq : LoggedSeq(n) \/ \E e \in Memory : e.seq = n
  /\ NothingForgotten

(* The log only grows.                                                     *)
LEMMA LogGrows ==
  ASSUME Types, NEW e \in K!Event, log' = Append(log, e)
  PROVE  /\ Len(log) \in Nat
         /\ DOMAIN log = 1 .. Len(log)
         /\ DOMAIN log' = 1 .. Len(log) + 1
         /\ \A i \in DOMAIN log : log'[i] = log[i]
         /\ log'[Len(log) + 1] = e
<1>1. log \in Seq(K!Event)
  BY DEF Types, K!TypeOK
<1> QED  BY <1>1, AppendProperties, LenProperties

(* A pending event leaves memory only by way of the log.                   *)
LEMMA AccountedStep ==
  ASSUME Types, CallInv, DistinctInv, AccountedInv, [Next]_vars
  PROVE  AccountedInv'
<1> USE DEF AccountedInv, NothingForgotten, Running, LoggedSeq
<1>0. /\ seq \in Nat /\ Memory \subseteq K!Event
      /\ sess.seq \in Nat /\ sess.pending \subseteq K!Event
  BY DEF Types, K!TypeOK, Memory, Sessions
<1>1. CASE Loads
  BY <1>1 DEF Loads
<1>2. CASE Resumes
  BY <1>2 DEF Resumes
<1>3. CASE Quiet
  BY <1>3 DEF Quiet, NoSession
<1>4. ASSUME NEW t \in Times, NEW k \in Kinds, Schedules(t, k)  PROVE AccountedInv'
  <2> DEFINE f == [seq |-> seq + 1, time |-> t, kind |-> k, cause |-> 0]
  <2>1. f \in Memory' /\ f.seq = seq + 1 /\ Memory \subseteq Memory'
    BY <1>4 DEF Schedules
  <2> HIDE DEF f
  <2>2. \A n \in 1 .. seq + 1 : n \in 1 .. seq \/ n = seq + 1
    BY <1>0
  <2> QED  BY <1>4, <2>1, <2>2 DEF Schedules
<1>5. ASSUME NEW e \in batch, Applies(e)  PROVE AccountedInv'
  <2>1. e \in K!Event
    BY <1>0, <1>5 DEF Applies
  <2>2. /\ \A n \in seq + 1 .. seq + Len(K!FollowUpsOf(e)) : \E f \in K!Emitted(e) : f.seq = n
        /\ Len(K!FollowUpsOf(e)) \in Nat
    BY <1>0, <2>1, EmittedFacts
  <2>3. \A n : LoggedSeq(n) => LoggedSeq(n)'
    BY <1>5, <2>1, LogGrows DEF Applies
  <2>4. LoggedSeq(e.seq)'
    <3>1. Len(log) + 1 \in DOMAIN log' /\ log'[Len(log) + 1] = e
      BY <1>5, <2>1, LogGrows DEF Applies
    <3> QED  BY <3>1
  <2>5. ASSUME NEW n \in 1 .. seq'
        PROVE  LoggedSeq(n)' \/ \E f \in Memory' : f.seq = n
    <3>1. CASE n \in 1 .. seq
      <4>1. PICK f \in Memory : LoggedSeq(n) \/ f.seq = n
        BY <1>5, <3>1 DEF Applies
      <4>2. f = e \/ f \in Memory'
        BY <1>5 DEF Applies
      <4> HIDE DEF LoggedSeq
      <4> QED  BY <2>3, <2>4, <4>1, <4>2
    <3>2. CASE n \in seq + 1 .. seq + Len(K!FollowUpsOf(e))
      BY <1>5, <2>2, <3>2 DEF Applies
    <3> QED  BY <1>0, <1>5, <2>2, <3>1, <3>2 DEF Applies
  <2>6. NothingForgotten'
    <3>1. UNCHANGED sess
      BY <1>5 DEF Applies
    <3>2. sess.readable => \A n \in 1 .. sess.seq :
            LoggedSeq(n) \/ \E f \in sess.pending : f.seq = n
      OBVIOUS
    <3> HIDE DEF LoggedSeq
    <3>3. sess.readable => \A n \in 1 .. sess.seq :
            LoggedSeq(n)' \/ \E f \in sess.pending : f.seq = n
      BY <2>3, <3>2
    <3> QED  BY <3>1, <3>3 DEF LoggedSeq
  <2> HIDE DEF LoggedSeq, NothingForgotten
  <2> QED  BY <2>5, <2>6
<1> QED  BY <1>1, <1>2, <1>3, <1>4, <1>5, Shapes

-----------------------------------------------------------------------------
(* What is repeated, and how often.                                        *)

Copies(n) == Cardinality(Records(n))

(* The numbers a command may still log: those of the events it holds and   *)
(* those its counter has not reached.                                      *)
Open(n, counter, events) == n > counter \/ \E e \in events : e.seq = n

(* A number that may be logged again has one record less than its due.     *)
RepeatInv ==
  /\ \A n \in Nat : Copies(n) <= loads + aborts
  /\ Running => \A n \in Nat : Open(n, seq, Memory) => Copies(n) < loads + aborts
  /\ phase = "idle" /\ sess.readable =>
       \A n \in Nat : Open(n, sess.seq, sess.pending) => Copies(n) < loads + aborts

(* The copies of a number are counted.                                     *)
LEMMA CopiesType ==
  ASSUME Types, NEW n
  PROVE  /\ IsFiniteSet(Records(n))
         /\ Copies(n) \in Nat
<1>1. log \in Seq(K!Event)
  BY DEF Types, K!TypeOK
<1>2. /\ Records(n) \subseteq 1 .. Len(log)
      /\ Len(log) \in Nat
  BY <1>1, LenProperties DEF Records
<1>3. IsFiniteSet(Records(n))
  <2>1. IsFiniteSet(1 .. Len(log))
    BY <1>2, FS_Interval
  <2> QED  BY <1>2, <2>1, FS_Subset
<1> QED  BY <1>3, FS_CardinalityType DEF Copies

(* Applying an event adds one record, of its own number.                   *)
LEMMA CopiesGrow ==
  ASSUME Types, NEW e \in K!Event, log' = Append(log, e), NEW n
  PROVE  /\ n = e.seq => Copies(n)' = Copies(n) + 1
         /\ n # e.seq => Copies(n)' = Copies(n)
<1>1. /\ Len(log) \in Nat
      /\ DOMAIN log = 1 .. Len(log)
      /\ DOMAIN log' = 1 .. Len(log) + 1
      /\ \A i \in DOMAIN log : log'[i] = log[i]
      /\ log'[Len(log) + 1] = e
  BY LogGrows
<1>2. CASE n = e.seq
  <2>1. Records(n)' = Records(n) \cup {Len(log) + 1}
    BY <1>1, <1>2 DEF Records
  <2>2. Len(log) + 1 \notin Records(n)
    BY <1>1 DEF Records
  <2>3. Cardinality(Records(n) \cup {Len(log) + 1}) = Cardinality(Records(n)) + 1
    BY <2>2, CopiesType, FS_AddElement
  <2> QED  BY <1>2, <2>1, <2>3 DEF Copies
<1>3. CASE n # e.seq
  <2>1. Records(n)' = Records(n)
    BY <1>1, <1>3 DEF Records
  <2> QED  BY <1>3, <2>1 DEF Copies
<1> QED  BY <1>2, <1>3

(* Every abort and every load pays for one more record of a number.        *)
LEMMA RepeatStep ==
  ASSUME Types, CallInv, DistinctInv, RepeatInv, [Next]_vars
  PROVE  RepeatInv'
<1> USE DEF RepeatInv, Running
<1>0. /\ seq \in Nat /\ Memory \subseteq K!Event
      /\ sess.seq \in Nat /\ sess.pending \subseteq K!Event
      /\ loads \in Nat /\ aborts \in Nat
      /\ \A n \in Nat : Copies(n) \in Nat
  BY CopiesType DEF Types, K!TypeOK, Memory, Sessions
<1>1. ASSUME UNCHANGED log  PROVE \A n \in Nat : Copies(n)' = Copies(n)
  BY <1>1 DEF Copies, Records
<1>2. CASE Loads
  <2>1. /\ \A n \in Nat : Copies(n)' = Copies(n)
        /\ loads' = loads + 1 /\ aborts' = aborts /\ phase' # "idle"
    BY <1>1, <1>2 DEF Loads
  <2> QED  BY <1>0, <2>1
<1>3. CASE Resumes
  <2>1. /\ \A n \in Nat : Copies(n)' = Copies(n)
        /\ loads' = loads /\ aborts' = aborts
        /\ phase = "idle" /\ sess.readable /\ phase' # "idle"
    BY <1>1, <1>3 DEF Resumes
  <2>2. \A n \in Nat : Open(n, seq, Memory)' <=> Open(n, sess.seq, sess.pending)
    BY <1>3 DEF Resumes, Open
  <2> QED  BY <1>0, <2>1, <2>2
<1>4. CASE Quiet
  <2>1. /\ \A n \in Nat : Copies(n)' = Copies(n)
        /\ loads' = loads
        /\ \A n \in Nat : Open(n, seq, Memory)' <=> Open(n, seq, Memory)
    BY <1>1, <1>4 DEF Quiet, Open
  <2>2. CASE UNCHANGED <<phase, sess, aborts>>
    <3>1. \A n \in Nat : Open(n, sess.seq, sess.pending)' <=> Open(n, sess.seq, sess.pending)
      BY <2>2 DEF Open
    <3> QED  BY <1>0, <2>1, <2>2, <3>1
  <2>3. CASE Running /\ Running' /\ UNCHANGED <<sess, aborts>>
    BY <1>0, <2>1, <2>3
  <2>4. CASE phase = "resumed" /\ phase' = "idle" /\ UNCHANGED <<sess, aborts>>
    <3>1. \A n \in Nat : Open(n, sess.seq, sess.pending)' <=> Open(n, seq, Memory)
      BY <2>4 DEF Open, Memory, CallInv, SessionIsMemory
    <3> QED  BY <1>0, <2>1, <2>4, <3>1
  <2>5. CASE /\ Running /\ phase' = "idle" /\ UNCHANGED aborts
             /\ sess' = [now |-> now, seq |-> seq, pending |-> Memory, readable |-> TRUE]
    <3>1. \A n \in Nat : Open(n, sess.seq, sess.pending)' <=> Open(n, seq, Memory)
      BY <2>5 DEF Open
    <3> QED  BY <1>0, <2>1, <2>5, <3>1
  <2>6. CASE Running /\ phase' = "idle" /\ aborts' = aborts + 1
    BY <1>0, <2>1, <2>6
  <2> QED  BY <1>4, <2>2, <2>3, <2>4, <2>5, <2>6 DEF Quiet
<1>5. ASSUME NEW t \in Times, NEW k \in Kinds, Schedules(t, k)  PROVE RepeatInv'
  <2>1. /\ \A n \in Nat : Copies(n)' = Copies(n)
        /\ loads' = loads /\ aborts' = aborts /\ phase # "idle" /\ phase' # "idle"
    BY <1>1, <1>5 DEF Schedules
  <2> DEFINE f == [seq |-> seq + 1, time |-> t, kind |-> k, cause |-> 0]
  <2>2. /\ \A e \in Memory' : e \in Memory \/ e = f
        /\ seq' = seq + 1 /\ f.seq = seq + 1
    BY <1>5 DEF Schedules
  <2> HIDE DEF f
  <2>3. \A n \in Nat : Open(n, seq, Memory)' => Open(n, seq, Memory)
    BY <1>0, <2>2 DEF Open
  <2> QED  BY <1>0, <2>1, <2>3
<1>6. ASSUME NEW e \in batch, Applies(e)  PROVE RepeatInv'
  <2>1. e \in K!Event /\ e.seq \in Nat
    BY <1>0, <1>6 DEF Applies, K!Event
  <2>2. \A n \in Nat : /\ n = e.seq => Copies(n)' = Copies(n) + 1
                       /\ n # e.seq => Copies(n)' = Copies(n)
    BY <1>6, <2>1, CopiesGrow DEF Applies
  <2>3. /\ loads' = loads /\ aborts' = aborts /\ phase # "idle" /\ phase' # "idle"
    BY <1>6 DEF Applies
  <2>4. Open(e.seq, seq, Memory) /\ e.seq <= seq
    BY <1>6 DEF Applies, Open, DistinctInv
  <2>5. /\ \A f \in K!Emitted(e) : seq < f.seq
        /\ Len(K!FollowUpsOf(e)) \in Nat
        /\ K!Emitted(e) \subseteq K!Event
    BY <1>0, <2>1, EmittedFacts
  <2>6. ASSUME NEW n \in Nat, Open(n, seq, Memory)'
        PROVE  n # e.seq /\ Open(n, seq, Memory)
    <3>1. CASE n > seq'
      <4>1. n > seq
        BY <1>0, <1>6, <2>5, <3>1 DEF Applies
      <4> QED  BY <1>0, <2>1, <2>4, <4>1 DEF Open
    <3>2. CASE \E f \in Memory' : f.seq = n
      <4>1. PICK f \in Memory' : f.seq = n
        BY <3>2
      <4>2. CASE f \in Memory /\ f # e
        BY <1>6, <4>1, <4>2 DEF Applies, DistinctInv, Open
      <4>3. CASE f \in K!Emitted(e)
        BY <1>0, <2>1, <2>4, <2>5, <4>1, <4>3 DEF Open
      <4> QED  BY <1>6, <4>2, <4>3 DEF Applies
    <3> QED  BY <2>6, <3>1, <3>2 DEF Open
  <2>7. \A n \in Nat : Copies(n)' <= loads' + aborts'
    BY <1>0, <2>1, <2>2, <2>3, <2>4
  <2>8. \A n \in Nat : Open(n, seq, Memory)' => Copies(n)' < loads' + aborts'
    BY <1>0, <2>2, <2>3, <2>6
  <2> QED  BY <2>3, <2>7, <2>8
<1> QED  BY <1>2, <1>3, <1>4, <1>5, <1>6, Shapes

-----------------------------------------------------------------------------
(* The session file is coherent.                                           *)

(* Nothing pending lies behind the clock of the command that holds it, nor *)
(* behind the minute it is moving to: only a verb carries a follow-up, and *)
(* a verb is applied at the minute it was scheduled at.                    *)
OnTimeInv ==
  /\ Running => \A e \in Memory : /\ e.time >= now
                                  /\ e.kind \in Calls => phase = "draining" /\ e.time = now
  /\ phase \in {"draining", "advancing"} /\ advancing =>
       /\ until >= now
       /\ \A e \in queue : e.time >= until
       /\ phase = "draining" => until = now
  /\ phase = "loading" => now = 0
  /\ \A e \in sess.pending : e.time >= sess.now /\ e.kind \notin Calls

(* No command writes a session with an event its clock has passed.         *)
LEMMA OnTimeStep ==
  ASSUME Types, CallInv, OnTimeInv, [Next]_vars
  PROVE  OnTimeInv'
<1> USE DEF OnTimeInv, Running, Memory, CallInv, kernelVars, memoryVars, diskVars, fileVars
<1>0. /\ now \in Nat /\ until \in Nat /\ seq \in Nat
      /\ queue \subseteq K!Event /\ batch \subseteq K!Event
      /\ \A e \in K!Event : e.time \in Nat
  BY DEF Types, K!TypeOK, K!Event
<1>1. CASE Load
  BY <1>1 DEF Load
<1>2. ASSUME NEW t \in Nat, NEW k, K!Schedule(t, k)
      PROVE  /\ batch' = {} /\ ~advancing'
             /\ \A e \in queue' : e \in queue \/ (e.time = t /\ e.kind = k)
             /\ now' = now
  BY <1>2 DEF K!Schedule
<1>3. CASE LoadScript
  <2>1. /\ Timeline[seq + 1].at \in Nat /\ Timeline[seq + 1].kind \notin Calls
        /\ K!Schedule(Timeline[seq + 1].at, Timeline[seq + 1].kind)
        /\ phase = "loading" /\ phase' = "loading" /\ sess' = sess
    BY <1>0, <1>3, ScriptEntry, ScriptAssumption DEF LoadScript
  <2>2. now = 0 /\ Timeline[seq + 1].at >= 0
    BY <2>1
  <2> QED  BY <1>0, <1>2, <2>1, <2>2
<1>4. CASE OpenRun \/ WriteSnapshot \/ RunEval
  BY <1>4 DEF OpenRun, WriteSnapshot, RunEval
<1>5. CASE Resume
  BY <1>5 DEF Resume
<1>6. CASE Exit \/ Abort \/ CutSnapshot
  BY <1>6 DEF Exit, Abort, CutSnapshot
<1>7. CASE CutSession
  BY <1>7 DEF CutSession, NoSession
<1>8. ASSUME NEW k \in Calls, Step(k)  PROVE OnTimeInv'
  BY <1>0, <1>2, <1>8 DEF Step
<1>9. ASSUME NEW t \in Nat, t >= now, K!PopDue(t)
      PROVE  /\ until' = t /\ now' = now /\ queue' \cup batch' = queue \cup batch
             /\ \A e \in queue' : e.time >= t
  BY <1>0, <1>9 DEF K!PopDue, K!Due
<1>10. ASSUME NEW d \in Durations, Advance(d)  PROVE OnTimeInv'
  <2>1. now + d \in Nat /\ now + d >= now
    BY <1>0, ScriptAssumption
  <2>2. /\ phase = "resumed" /\ phase' = "advancing" /\ sess' = sess
        /\ K!PopDue(now + d)
    BY <1>10 DEF Advance
  <2> QED  BY <1>9, <2>1, <2>2
<1>11. CASE Drain
  <2>1. /\ phase = "draining" /\ phase' = "draining" /\ sess' = sess
        /\ K!PopDue(now) /\ now >= now
    BY <1>0, <1>11 DEF Drain
  <2> QED  BY <1>0, <1>9, <2>1
<1>12. CASE Drained
  <2>1. /\ phase = "draining" /\ ~advancing /\ phase' = "snapshot"
        /\ \A e \in queue : ~(e.time <= now)
    BY <1>12 DEF Drained, K!Due
  <2>2. \A e \in Memory : e.time > now /\ e.kind \notin Calls
    BY <1>0, <2>1
  <2>3. UNCHANGED <<now, queue, batch, advancing, sess>>
    BY <1>12 DEF Drained
  <2> QED  BY <1>0, <2>1, <2>2, <2>3
<1>13. CASE Return
  <2>1. /\ advancing /\ batch = {} /\ advancing' = FALSE
        /\ now' = (IF until < now THEN now ELSE until)
        /\ UNCHANGED <<queue, batch, sess>>
        /\ phase \in {"draining", "advancing"}
        /\ phase' = (IF phase = "advancing" THEN "snapshot" ELSE phase)
    BY <1>13 DEF Return, K!Return
  <2>2. now' = until
    BY <1>0, <2>1
  <2> QED  BY <1>0, <2>1, <2>2
<1>14. ASSUME NEW e \in batch, ApplyEvent(e)  PROVE OnTimeInv'
  <2>1. e \in K!Event /\ phase \in {"draining", "advancing"} /\ advancing
    BY <1>0, <1>14 DEF ApplyEvent, K!Apply
  <2>2. /\ queue' = queue \cup K!Emitted(e) /\ batch' = batch \ {e}
        /\ UNCHANGED <<now, until, advancing, phase, sess>>
    BY <1>14 DEF ApplyEvent, K!Apply
  <2>3. \A f \in K!Emitted(e) : /\ f \in K!Event
                                /\ f.time >= e.time
                                /\ f.kind \notin Calls
                                /\ phase = "draining" /\ until = now
    BY <1>0, <2>1, EmittedFacts
  <2>4. e.time >= now /\ e.time \in Nat
    BY <1>0, <2>1
  <2> QED  BY <1>0, <2>1, <2>2, <2>3, <2>4
<1>15. CASE WriteSession
  BY <1>15 DEF WriteSession
<1>16. CASE UNCHANGED vars
  BY <1>16 DEF vars
<1> QED  BY <1>1, <1>3, <1>4, <1>5, <1>6, <1>7, <1>8, <1>10, <1>11, <1>12, <1>13, <1>14, <1>15,
            <1>16 DEF Next

-----------------------------------------------------------------------------
(* The inductive invariant.                                                *)

IInv == /\ Types
        /\ CallInv
        /\ DistinctInv
        /\ AccountedInv
        /\ RepeatInv
        /\ OnTimeInv

(* A directory nothing was run in has it.                                  *)
LEMMA InvInit == Init => IInv
<1> SUFFICES ASSUME Init  PROVE IInv
  OBVIOUS
<1>1. Types
  BY TypesInit
<1>2. /\ phase = "idle" /\ loads = 0 /\ aborts = 0 /\ sess = NoSession /\ log = << >>
      /\ batch = {} /\ advancing = FALSE
  BY DEF Init, K!Init
<1>3. CallInv /\ DistinctInv /\ OnTimeInv /\ AccountedInv
  BY <1>2 DEF CallInv, DistinctInv, OnTimeInv, AccountedInv, NothingForgotten, Running, NoSession
<1>4. RepeatInv
  <2>1. \A n \in Nat : Records(n) = {}
    BY <1>2 DEF Records
  <2>2. \A n \in Nat : Copies(n) = 0
    BY <2>1, FS_EmptySet DEF Copies
  <2> QED  BY <1>2, <2>2 DEF RepeatInv, Running, NoSession
<1> QED  BY <1>1, <1>3, <1>4 DEF IInv

(* It says what is claimed of aborted commands.                            *)
LEMMA InvClaim == IInv => AbortsOnlyRepeat
<1> SUFFICES ASSUME IInv  PROVE AbortsOnlyRepeat
  OBVIOUS
<1>1. NothingForgotten
  BY DEF IInv, AccountedInv
<1>2. RepeatsAreAborts
  <2>1. \A i \in DOMAIN log : log[i].seq \in Nat
    <3>1. log \in Seq(K!Event)
      BY DEF IInv, Types, K!TypeOK
    <3>2. \A i \in DOMAIN log : log[i] \in K!Event
      BY <3>1, ElementOfSeq, LenProperties
    <3> QED  BY <3>2 DEF K!Event
  <2> QED  BY <2>1 DEF IInv, RepeatInv, RepeatsAreAborts, Copies
<1>3. SessionCoherent
  BY DEF IInv, DistinctInv, OnTimeInv, SessionCoherent
<1> QED  BY <1>1, <1>2, <1>3 DEF AbortsOnlyRepeat

(* However many commands are cut short, wherever, and however often a run  *)
(* id is loaded again: no event a session knows of is forgotten, a number  *)
(* is logged at most once for each load and each abort, and the session    *)
(* the next command starts from is coherent.                               *)
THEOREM AbortsRepeatOnly == Spec => []AbortsOnlyRepeat
<1>1. IInv /\ [Next]_vars => IInv'
  BY TypesStep, CallStep, DistinctStep, AccountedStep, RepeatStep, OnTimeStep DEF IInv
<1> QED  BY InvInit, <1>1, InvClaim, PTL DEF Spec

-----------------------------------------------------------------------------
(* What a replay reads back.                                               *)

(* The deltas that lie after one number and up to another, in file order.  *)
Between(a, b) ==
  [i \in DOMAIN log |-> IF a < log[i].seq /\ log[i].seq <= b THEN deltas[i] ELSE << >>]

(* Every file holds effects, and the opening snapshot is there before the  *)
(* first session is.                                                       *)
DiskInv ==
  /\ world \in Seq(Effect) /\ armed \in BOOLEAN /\ lastSeq \in Nat
  /\ deltas \in Seq(Seq(Effect)) /\ Len(deltas) = Len(log)
  /\ \A s \in DOMAIN snaps : s \in Nat /\ snaps[s] \in Seq(Effect)
  /\ cut \subseteq Nat
  /\ opened \in Nat /\ score.past \in BOOLEAN
  /\ sess.readable \/ phase \notin {"idle", "loading"} => 0 \in DOMAIN snaps

(* The log is a list of events and the deltas are in step with it.         *)
LEMMA LogTypes ==
  ASSUME Types
  PROVE  /\ log \in Seq(K!Event) /\ Len(log) \in Nat /\ DOMAIN log = 1 .. Len(log)
         /\ \A i \in DOMAIN log : /\ log[i] \in K!Event
                                  /\ log[i].seq \in Nat /\ log[i].time \in Nat
         /\ LastLogged \in Nat
         /\ LastLogged = IF log = << >> THEN 0 ELSE log[Len(log)].seq
         /\ log # << >> <=> Len(log) \in DOMAIN log
<1>1. log \in Seq(K!Event)
  BY DEF Types, K!TypeOK
<1>2. Len(log) \in Nat /\ DOMAIN log = 1 .. Len(log)
  BY <1>1, LenProperties
<1>3. \A i \in DOMAIN log : log[i] \in K!Event
  BY <1>1, <1>2, ElementOfSeq
<1>4. \A i \in DOMAIN log : log[i].seq \in Nat /\ log[i].time \in Nat
  BY <1>3 DEF K!Event
<1>5. log # << >> <=> Len(log) \in DOMAIN log
  BY <1>1, <1>2, EmptySeq
<1>6. LastLogged = IF log = << >> THEN 0 ELSE log[Len(log)].seq
  BY DEF LastLogged, Last
<1> QED  BY <1>1, <1>2, <1>3, <1>4, <1>5, <1>6

LEMMA BetweenType ==
  ASSUME Types, DiskInv, NEW a, NEW b
  PROVE  /\ Between(a, b) \in Seq(Seq(Effect))
         /\ Len(Between(a, b)) = Len(log)
         /\ DOMAIN Between(a, b) = 1 .. Len(log)
<1>1. Len(log) \in Nat /\ DOMAIN log = 1 .. Len(log)
  BY LogTypes
<1>2. \A i \in 1 .. Len(log) : deltas[i] \in Seq(Effect)
  BY <1>1, ElementOfSeq DEF DiskInv
<1>3. \A i \in 1 .. Len(log) : Between(a, b)[i] \in Seq(Effect)
  BY <1>1, <1>2, EmptySeq DEF Between
<1>4. Between(a, b) = [i \in 1 .. Len(log) |-> Between(a, b)[i]]
  BY <1>1 DEF Between
<1> DEFINE s == Between(a, b)
           D == Seq(Effect)
<1> HIDE DEF s, D
<1>5. s \in Seq(D)
  BY <1>1, <1>3, <1>4, IsASeq DEF s, D
<1>6. DOMAIN s = 1 .. Len(log)
  BY <1>1 DEF s, Between
<1>7. Len(s) = Len(log)
  BY <1>1, <1>5, <1>6, LenProperties
<1> QED  BY <1>5, <1>6, <1>7 DEF s, D

(* state_at finds the nearest snapshot and goes on from there.             *)
LEMMA Replay ==
  ASSUME Types, DiskInv, NEW s \in Nat, 0 \in DOMAIN snaps
  PROVE  \E base \in DOMAIN snaps :
           /\ base <= s
           /\ \A b \in DOMAIN snaps : b <= s => b <= base
           /\ StateAt(s) = snaps[base] \o FlattenSeq(Between(base, s))
           /\ StateAt(s) \in Seq(Effect)
<1> DEFINE below == {b \in DOMAIN snaps : b <= s}
           base == Max(below)
<1>1. below \in SUBSET (0 .. s) /\ below # {} /\ below \subseteq DOMAIN snaps
  BY DEF DiskInv
<1>2. base \in below /\ \A b \in below : base >= b
  <2> HIDE DEF below
  <2> QED  BY <1>1, Greatest
<1>3. base \in DOMAIN snaps /\ base <= s /\ base \in Nat
  BY <1>2 DEF DiskInv
<1>4. \A b \in DOMAIN snaps : b <= s => b <= base
  BY <1>2, <1>3 DEF DiskInv
<1> DEFINE after == {i \in DOMAIN log : base < log[i].seq /\ log[i].seq <= s}
<1>5. StateAt(s) = snaps[base] \o
                   FlattenSeq([i \in DOMAIN log |-> IF i \in after THEN deltas[i] ELSE << >>])
  BY DEF StateAt
<1> HIDE DEF base
<1>6. [i \in DOMAIN log |-> IF i \in after THEN deltas[i] ELSE << >>] = Between(base, s)
  BY DEF Between
<1>7. FlattenSeq(Between(base, s)) \in Seq(Effect)
  BY BetweenType, FlattenType
<1>8. snaps[base] \in Seq(Effect)
  BY <1>3 DEF DiskInv
<1>9. StateAt(s) = snaps[base] \o FlattenSeq(Between(base, s))
  BY <1>5, <1>6
<1>10. StateAt(s) \in Seq(Effect)
  BY <1>7, <1>8, <1>9, ConcatProperties
<1> QED  BY <1>3, <1>4, <1>9, <1>10

(* What an event writes is a list of effects.                              *)
LEMMA WrittenType ==
  ASSUME NEW e \in K!Event
  PROVE  WrittenBy(e) \in Seq(Effect)
<1>1. [seq |-> e.seq, kind |-> e.kind] \in Effect
  BY DEF K!Event, Effect
<1>2. \A x : x \in Effect => << x >> \in Seq(Effect) /\ << >> \in Seq(Effect)
  OBVIOUS
<1> QED  BY <1>1, <1>2 DEF WrittenBy

(* One more snapshot file holds effects if the world does.                 *)
LEMMA SavedType ==
  ASSUME DiskInv, NEW b \in Nat
  PROVE  /\ \A s \in DOMAIN Saved(b) : s \in Nat /\ Saved(b)[s] \in Seq(Effect)
         /\ DOMAIN Saved(b) = DOMAIN snaps \cup {b}
         /\ Saved(b)[b] = world
         /\ \A s \in DOMAIN snaps : s # b => Saved(b)[s] = snaps[s]
BY DEF DiskInv, Saved

(* Every command leaves effects in the files.                              *)
LEMMA DiskStep ==
  ASSUME Types, CallInv, DiskInv, [Next]_vars
  PROVE  DiskInv'
<1> USE DEF kernelVars, memoryVars, diskVars, fileVars
<1>0. /\ seq \in Nat /\ now \in Nat /\ sess.seq \in Nat /\ sess.now \in Nat
      /\ batch \subseteq K!Event
  BY ScriptAssumption DEF Types, K!TypeOK, Sessions
<1>1. CASE Load
  <2>1. << >> \in Seq(Effect)
    OBVIOUS
  <2> QED  BY <1>1, <2>1 DEF Load, DiskInv
<1>2. CASE LoadScript
  BY <1>2 DEF LoadScript, DiskInv, K!Schedule
<1>3. CASE OpenRun
  BY <1>3, SavedType DEF OpenRun, DiskInv
<1>4. CASE Resume
  <2>1. 0 \in DOMAIN snaps
    BY <1>4 DEF Resume, DiskInv
  <2>2. StateAt(sess.seq) \in Seq(Effect)
    BY <1>0, <2>1, Replay
  <2>3. LastLogged \in Nat
    BY LogTypes
  <2> QED  BY <1>4, <2>1, <2>2, <2>3 DEF Resume, DiskInv
<1>5. CASE Exit \/ Drained \/ Abort
  BY <1>5 DEF Exit, Drained, Abort, DiskInv
<1>6. ASSUME NEW k \in Calls, Step(k)  PROVE DiskInv'
  BY <1>6 DEF Step, K!Schedule, DiskInv
<1>7. ASSUME NEW d \in Durations, Advance(d)  PROVE DiskInv'
  BY <1>7 DEF Advance, K!PopDue, DiskInv
<1>8. CASE Drain
  BY <1>8 DEF Drain, K!PopDue, DiskInv
<1>9. CASE Return
  BY <1>9 DEF Return, K!Return, DiskInv
<1>10. ASSUME NEW e \in batch, ApplyEvent(e)  PROVE DiskInv'
  <2>1. e \in K!Event /\ e.seq \in Nat
    BY <1>0 DEF K!Event
  <2>2. WrittenBy(e) \in Seq(Effect)
    BY <2>1, WrittenType
  <2>3. /\ world' = world \o WrittenBy(e) /\ deltas' = Append(deltas, WrittenBy(e))
        /\ lastSeq' = e.seq /\ log' = Append(log, e)
        /\ UNCHANGED <<armed, snaps, cut, opened, score, sess, phase>>
    BY <1>10 DEF ApplyEvent, K!Apply
  <2>4. world' \in Seq(Effect)
    BY <2>2, <2>3, ConcatProperties DEF DiskInv
  <2>5. deltas' \in Seq(Seq(Effect)) /\ Len(deltas') = Len(deltas) + 1
    BY <2>2, <2>3, AppendProperties DEF DiskInv
  <2>6. Len(log') = Len(log) + 1
    BY <2>1, <2>3, LogTypes, AppendProperties
  <2>7. Len(deltas') = Len(log')
    BY <2>5, <2>6 DEF DiskInv
  <2> QED  BY <2>1, <2>3, <2>4, <2>5, <2>7 DEF DiskInv
<1>11. CASE WriteSnapshot
  <2>1. lastSeq \in Nat
    BY DEF DiskInv
  <2> QED  BY <1>0, <1>11, <2>1, SavedType DEF WriteSnapshot, DiskInv
<1>12. CASE WriteSession
  BY <1>12 DEF WriteSession, DiskInv
<1>13. CASE RunEval
  BY <1>13 DEF RunEval, DiskInv
<1>14. CASE CutSnapshot
  BY <1>14 DEF CutSnapshot, DiskInv
<1>15. CASE CutSession
  BY <1>15 DEF CutSession, NoSession, DiskInv
<1>16. CASE UNCHANGED vars
  BY <1>16 DEF vars, DiskInv
<1> QED  BY <1>1, <1>2, <1>3, <1>4, <1>5, <1>6, <1>7, <1>8, <1>9, <1>10, <1>11, <1>12, <1>13,
            <1>14, <1>15, <1>16 DEF Next

-----------------------------------------------------------------------------
(* Between undisturbed commands a resume rebuilds what was left.           *)

(* While nothing was aborted or loaded twice, a load finds an empty log,   *)
(* the counter is past what is logged, a snapshot bears the number of the  *)
(* opening or of a record, and a command that ends, or has just begun, has *)
(* the world of its last snapshot, or the one a replay gives.              *)
KeptInv ==
  Unbroken =>
    /\ phase = "loading" => log = << >>
    /\ lastSeq = LastLogged
    /\ \A i \in DOMAIN log : log[i].seq <= seq
    /\ \A b \in DOMAIN snaps : b = 0 \/ LoggedSeq(b)
    /\ phase = "session" => lastSeq \in DOMAIN snaps /\ snaps[lastSeq] = world
    /\ phase = "resumed" => world = StateAt(sess.seq)
    /\ phase = "idle" /\ sess.readable =>
         \/ lastSeq \in DOMAIN snaps /\ snaps[lastSeq] = world
         \/ world = StateAt(sess.seq)

(* What a replay reads does not change between two commands.               *)
LEMMA ReplayUnmoved ==
  ASSUME UNCHANGED <<log, deltas, snaps>>
  PROVE  /\ \A s : StateAt(s)' = StateAt(s)
         /\ LastLogged' = LastLogged
         /\ \A n : LoggedSeq(n)' <=> LoggedSeq(n)
         /\ \A at : Pov(at)' = Pov(at)
BY DEF StateAt, LastLogged, LoggedSeq, Pov

LEMMA KeptStep ==
  ASSUME Types, CallInv, Chain, DistinctInv, DiskInv, KeptInv, [Next]_vars
  PROVE  KeptInv'
<1> USE DEF Unbroken, kernelVars, memoryVars, diskVars, fileVars, countVars
<1>0. /\ seq \in Nat /\ now \in Nat /\ sess.seq \in Nat /\ aborts \in Nat /\ loads \in Nat
      /\ batch \subseteq K!Event /\ lastSeq \in Nat
  BY ScriptAssumption DEF Types, K!TypeOK, Sessions, DiskInv
<1> SUFFICES ASSUME Unbroken'  PROVE KeptInv'
  BY DEF KeptInv
<1>a. Unbroken
  BY <1>0 DEF Next, vars, Load, LoadScript, OpenRun, Resume, Exit, Step, Advance, Drain, Drained,
              Return, ApplyEvent, WriteSnapshot, WriteSession, RunEval, Abort, CutSnapshot,
              CutSession
<1> HIDE DEF Unbroken
<1>b. /\ phase = "loading" => log = << >>
      /\ lastSeq = LastLogged
      /\ \A i \in DOMAIN log : log[i].seq <= seq
      /\ \A b \in DOMAIN snaps : b = 0 \/ LoggedSeq(b)
      /\ phase = "session" => lastSeq \in DOMAIN snaps /\ snaps[lastSeq] = world
      /\ phase = "resumed" => world = StateAt(sess.seq)
      /\ phase = "idle" /\ sess.readable =>
           \/ lastSeq \in DOMAIN snaps /\ snaps[lastSeq] = world
           \/ world = StateAt(sess.seq)
  BY <1>a DEF KeptInv
<1>1. CASE Load
  <2>1. loads = 0
    BY <1>0, <1>1, <1>a DEF Load, Unbroken
  <2>2. log = << >>
    BY <1>a, <2>1 DEF Chain, K!Init
  <2>3. LastLogged' = 0 /\ log' = << >>
    BY <1>1, <2>2 DEF Load, LastLogged
  <2> QED  BY <1>1, <1>b, <2>2, <2>3, ReplayUnmoved DEF Load, KeptInv
<1>2. CASE LoadScript
  <2>1. UNCHANGED <<log, deltas, snaps, world, lastSeq, phase>> /\ seq' = seq + 1
        /\ phase = "loading"
    BY <1>2 DEF LoadScript, K!Schedule
  <2>2. log = << >> /\ log' = << >>
    BY <1>b, <2>1
  <2> QED  BY <1>b, <2>1, <2>2, ReplayUnmoved DEF KeptInv
<1>3. CASE OpenRun
  <2>1. /\ log = << >> /\ log' = << >> /\ lastSeq = 0 /\ lastSeq' = 0 /\ LastLogged' = 0
        /\ phase' = "session" /\ snaps' = Saved(0) /\ world' = world /\ seq' = seq
    BY <1>3, <1>b DEF OpenRun, LastLogged
  <2>2. \A n : LoggedSeq(n)' <=> LoggedSeq(n)
    BY <2>1 DEF LoggedSeq
  <2>3. DOMAIN snaps' = DOMAIN snaps \cup {0} /\ snaps'[0] = world
    <3>1. DOMAIN Saved(0) = DOMAIN snaps \cup {0} /\ Saved(0)[0] = world
      BY SavedType
    <3> QED  BY <2>1, <3>1
  <2> QED  BY <1>b, <2>1, <2>2, <2>3 DEF KeptInv
<1>4. CASE Resume
  <2>1. /\ UNCHANGED <<log, deltas, snaps, sess>> /\ seq' = sess.seq /\ lastSeq' = LastLogged
        /\ world' = StateAt(sess.seq) /\ phase' = "resumed"
        /\ phase = "idle" /\ sess.readable
    BY <1>4 DEF Resume
  <2>2. seq' = seq
    BY <1>a, <2>1 DEF Chain, SessionIsMemory
  <2> QED  BY <1>b, <2>1, <2>2, ReplayUnmoved DEF KeptInv
<1>5. CASE Exit
  <2>1. /\ UNCHANGED <<log, deltas, snaps, sess, seq, lastSeq, world>>
        /\ phase = "resumed" /\ phase' = "idle"
    BY <1>5 DEF Exit
  <2> QED  BY <1>b, <2>1, ReplayUnmoved DEF KeptInv
<1>6. ASSUME UNCHANGED <<log, deltas, snaps, lastSeq, world>>, seq' >= seq, seq' \in Nat,
             phase' \in {"draining", "advancing", "snapshot"}
      PROVE  KeptInv'
  <2>1. \A i \in DOMAIN log : log[i].seq <= seq'
    BY <1>0, <1>6, <1>b, LogTypes
  <2> QED  BY <1>b, <1>6, <2>1, ReplayUnmoved DEF KeptInv
<1>7. ASSUME NEW k \in Calls, Step(k)  PROVE KeptInv'
  BY <1>0, <1>6, <1>7 DEF Step, K!Schedule
<1>8. ASSUME NEW d \in Durations, Advance(d)  PROVE KeptInv'
  BY <1>0, <1>6, <1>8 DEF Advance, K!PopDue
<1>9. CASE Drain
  BY <1>0, <1>6, <1>9 DEF Drain, K!PopDue
<1>10. CASE Drained
  BY <1>0, <1>6, <1>10 DEF Drained
<1>11. CASE Return
  BY <1>0, <1>6, <1>11 DEF Return, K!Return
<1>12. ASSUME NEW e \in batch, ApplyEvent(e)  PROVE KeptInv'
  <2>1. e \in K!Event /\ e.seq \in Nat
    BY <1>0 DEF K!Event
  <2>2. /\ lastSeq' = e.seq /\ log' = Append(log, e) /\ phase \in {"draining", "advancing"}
        /\ seq' = seq + Len(K!FollowUpsOf(e))
        /\ UNCHANGED <<snaps, sess, phase>>
    BY <1>12 DEF ApplyEvent, K!Apply
  <2>3. Len(K!FollowUpsOf(e)) \in Nat
    BY <1>0, <2>1, EmittedFacts
  <2>4. e.seq <= seq
    BY <2>2 DEF DistinctInv, Running, Memory
  <2>5. /\ Len(log) \in Nat /\ DOMAIN log = 1 .. Len(log) /\ DOMAIN log' = 1 .. Len(log) + 1
        /\ \A i \in DOMAIN log : log'[i] = log[i]
        /\ log'[Len(log) + 1] = e
    BY <2>1, <2>2, LogGrows
  <2>6. LastLogged' = e.seq
    <3>1. log' \in Seq(K!Event)
      BY <2>1, <2>2, AppendProperties, LogTypes
    <3>2. Len(log') = Len(log) + 1
      BY <2>1, <2>2, AppendProperties, LogTypes
    <3>3. log' # << >>
      BY <2>5, <3>1, <3>2, EmptySeq
    <3> QED  BY <2>5, <3>2, <3>3 DEF LastLogged, Last
  <2>7. \A i \in DOMAIN log' : log'[i].seq <= seq'
    <3>1. \A i \in DOMAIN log : log[i].seq \in Nat /\ log[i].seq <= seq
      BY <1>b, LogTypes
    <3>2. \A i \in DOMAIN log' : i \in DOMAIN log \/ i = Len(log) + 1
      BY <2>5
    <3> QED  BY <1>0, <2>1, <2>2, <2>3, <2>4, <2>5, <3>1, <3>2
  <2>8. \A n : LoggedSeq(n) => LoggedSeq(n)'
    BY <2>5 DEF LoggedSeq
  <2> QED  BY <1>b, <2>2, <2>6, <2>7, <2>8 DEF KeptInv
<1>13. CASE WriteSnapshot
  <2>1. /\ UNCHANGED <<log, deltas, seq, lastSeq, world>> /\ phase' = "session"
        /\ snaps' = Saved(lastSeq)
    BY <1>13 DEF WriteSnapshot
  <2>2. LastLogged' = LastLogged /\ \A n : LoggedSeq(n)' <=> LoggedSeq(n)
    BY <2>1 DEF LastLogged, LoggedSeq
  <2>3. lastSeq = 0 \/ LoggedSeq(lastSeq)
    BY <1>b, LogTypes DEF LoggedSeq
  <2>4. DOMAIN snaps' = DOMAIN snaps \cup {lastSeq} /\ snaps'[lastSeq] = world
    <3>1. DOMAIN Saved(lastSeq) = DOMAIN snaps \cup {lastSeq} /\ Saved(lastSeq)[lastSeq] = world
      BY <1>0, SavedType
    <3> QED  BY <2>1, <3>1
  <2> QED  BY <1>b, <2>1, <2>2, <2>3, <2>4 DEF KeptInv
<1>14. CASE WriteSession
  <2>1. /\ UNCHANGED <<log, deltas, snaps, seq, lastSeq, world>>
        /\ phase = "session" /\ phase' = "idle"
    BY <1>14 DEF WriteSession
  <2> QED  BY <1>b, <2>1, ReplayUnmoved DEF KeptInv
<1>15. CASE RunEval \/ UNCHANGED vars
  <2>1. UNCHANGED <<log, deltas, snaps, sess, seq, lastSeq, world, phase>>
    BY <1>15 DEF RunEval, vars
  <2> QED  BY <1>b, <2>1, ReplayUnmoved DEF KeptInv
<1>16. ~Abort /\ ~CutSnapshot /\ ~CutSession
  BY <1>0, <1>a DEF Abort, CutSnapshot, CutSession, Unbroken
<1> QED  BY <1>1, <1>2, <1>3, <1>4, <1>5, <1>7, <1>8, <1>9, <1>10, <1>11, <1>12, <1>13, <1>14,
            <1>15, <1>16 DEF Next

(* Then what a resume would rebuild is the world the command left.         *)
LEMMA KeptClaim ==
  ASSUME Types, Chain, DiskInv, KeptInv
  PROVE  ResumeIsExact
<1> SUFFICES ASSUME phase = "idle", sess.readable, aborts = 0, loads = 1,
                    \A i \in DOMAIN log : log[i].seq <= lastSeq,
                    lastSeq \in DOMAIN snaps, snaps[lastSeq] = world
             PROVE  StateAt(sess.seq) = world
  BY DEF ResumeIsExact, Idle, Undisturbed, KeptInv, Unbroken
<1>0. sess.seq \in Nat /\ lastSeq \in Nat /\ 0 \in DOMAIN snaps
  BY DEF Types, Sessions, DiskInv
<1>1. PICK base \in DOMAIN snaps :
        /\ base <= sess.seq
        /\ \A b \in DOMAIN snaps : b <= sess.seq => b <= base
        /\ StateAt(sess.seq) = snaps[base] \o FlattenSeq(Between(base, sess.seq))
  BY <1>0, Replay
<1>2. lastSeq <= sess.seq
  <2>1. lastSeq = LastLogged /\ sess.seq = seq
    BY DEF KeptInv, Unbroken, Chain, SessionIsMemory
  <2>2. lastSeq = 0 \/ \E i \in DOMAIN log : log[i].seq = lastSeq
    BY <2>1, LogTypes
  <2> QED  BY <1>0, <2>1, <2>2 DEF KeptInv, Unbroken
<1>3. base = lastSeq
  <2>1. base = 0 \/ LoggedSeq(base)
    BY <1>1 DEF KeptInv, Unbroken
  <2>2. base \in Nat
    BY <1>1 DEF DiskInv
  <2>3. base <= lastSeq
    BY <1>0, <2>1, <2>2 DEF LoggedSeq
  <2> QED  BY <1>0, <1>1, <1>2, <2>2, <2>3
<1>4. FlattenSeq(Between(base, sess.seq)) = << >>
  <2>1. \A i \in 1 .. Len(log) : Between(base, sess.seq)[i] = << >>
    BY <1>0, <1>3, LogTypes DEF Between
  <2> QED  BY <2>1, BetweenType, FlattenNothing
<1>5. world \o << >> = world
  BY ConcatEmptySeq DEF DiskInv
<1> QED  BY <1>1, <1>3, <1>4, <1>5

-----------------------------------------------------------------------------
(* The two readers of a run agree.                                         *)

(* Numbers count from one.                                                 *)
NumberedInv ==
  /\ Running => \A e \in Memory : e.seq >= 1
  /\ \A e \in sess.pending : e.seq >= 1
  /\ \A i \in DOMAIN log : log[i].seq >= 1

LEMMA NumberedStep ==
  ASSUME Types, CallInv, DistinctInv, NumberedInv, [Next]_vars
  PROVE  NumberedInv'
<1> USE DEF NumberedInv, Running
<1>0. seq \in Nat /\ Memory \subseteq K!Event
  BY DEF Types, K!TypeOK, Memory
<1>1. CASE Loads
  BY <1>1 DEF Loads
<1>2. CASE Resumes
  BY <1>2 DEF Resumes
<1>3. CASE Quiet
  BY <1>3 DEF Quiet, NoSession
<1>4. ASSUME NEW t \in Times, NEW k \in Kinds, Schedules(t, k)  PROVE NumberedInv'
  BY <1>0, <1>4 DEF Schedules
<1>5. ASSUME NEW e \in batch, Applies(e)  PROVE NumberedInv'
  <2>1. e \in K!Event /\ e.seq >= 1
    BY <1>0, <1>5 DEF Applies
  <2>2. \A f \in K!Emitted(e) : f.seq \in Nat /\ seq < f.seq
    BY <1>0, <2>1, EmittedFacts DEF K!Event
  <2>3. \A f \in Memory' : f.seq >= 1
    BY <1>0, <1>5, <2>2 DEF Applies
  <2>4. \A i \in DOMAIN log' : log'[i].seq >= 1
    <3>1. /\ Len(log) \in Nat /\ DOMAIN log = 1 .. Len(log) /\ DOMAIN log' = 1 .. Len(log) + 1
          /\ \A i \in DOMAIN log : log'[i] = log[i]
          /\ log'[Len(log) + 1] = e
      BY <1>5, <2>1, LogGrows DEF Applies
    <3>2. \A i \in DOMAIN log' : i \in DOMAIN log \/ i = Len(log) + 1
      BY <3>1
    <3> QED  BY <2>1, <3>1, <3>2
  <2> QED  BY <1>5, <2>3, <2>4 DEF Applies
<1> QED  BY <1>1, <1>2, <1>3, <1>4, <1>5, Shapes

(* An undisturbed log is in the order of time, and what is pending is due  *)
(* no earlier than what is logged.                                         *)
OrderInv ==
  Unbroken =>
    /\ \A i, j \in DOMAIN log : i < j => log[i].time <= log[j].time
    /\ \A i \in DOMAIN log : \/ log[i].time <= now
                             \/ advancing /\ log[i].time <= until
    /\ \A i \in DOMAIN log : \A e \in Memory : log[i].time <= e.time
    /\ \A e \in batch : e.time <= until

LEMMA OrderStep ==
  ASSUME Types, CallInv, Chain, OnTimeInv, KeptInv, OrderInv, [Next]_vars
  PROVE  OrderInv'
<1> USE DEF kernelVars, memoryVars, diskVars, fileVars, countVars
<1>0. /\ now \in Nat /\ until \in Nat /\ aborts \in Nat /\ loads \in Nat
      /\ Memory \subseteq K!Event /\ \A e \in K!Event : e.time \in Nat
      /\ seq \in Nat
  BY ScriptAssumption DEF Types, K!TypeOK, K!Event, Memory
<1> SUFFICES ASSUME Unbroken'  PROVE OrderInv'
  BY DEF OrderInv
<1>a. Unbroken
  BY <1>0 DEF Unbroken, Next, vars, Load, LoadScript, OpenRun, Resume, Exit, Step, Advance,
              Drain, Drained, Return, ApplyEvent, WriteSnapshot, WriteSession, RunEval, Abort,
              CutSnapshot, CutSession
<1>b. /\ \A i, j \in DOMAIN log : i < j => log[i].time <= log[j].time
      /\ \A i \in DOMAIN log : \/ log[i].time <= now
                               \/ advancing /\ log[i].time <= until
      /\ \A i \in DOMAIN log : \A e \in Memory : log[i].time <= e.time
      /\ \A e \in batch : e.time <= until
  BY <1>a DEF OrderInv
<1>c. \A i \in DOMAIN log : log[i].time \in Nat
  BY LogTypes
<1>1. CASE Load
  <2>1. loads = 0
    BY <1>0, <1>1, <1>a DEF Load, Unbroken
  <2>2. log = << >> /\ log' = << >> /\ batch' = {}
    BY <1>1, <1>a, <2>1 DEF Chain, K!Init, Load
  <2> QED  BY <2>2 DEF OrderInv
<1>2. CASE LoadScript
  <2>1. log = << >> /\ log' = << >> /\ batch' = {}
    BY <1>2, <1>a DEF LoadScript, K!Schedule, KeptInv, CallInv
  <2> QED  BY <2>1 DEF OrderInv
<1>3. CASE Resume
  <2>1. /\ now' = now /\ queue' = queue /\ batch' = {} /\ log' = log /\ ~advancing
    BY <1>3, <1>a DEF Resume, Chain, SessionIsMemory
  <2> QED  BY <1>b, <2>1 DEF OrderInv, Memory
<1>4. ASSUME NEW k \in Calls, Step(k)  PROVE OrderInv'
  <2>1. /\ batch = {} /\ batch' = {} /\ ~advancing /\ log' = log /\ now' = now
        /\ \A e \in queue' : e \in queue \/ e.time = now
    BY <1>4 DEF Step, K!Schedule, CallInv
  <2>2. \A i \in DOMAIN log : log[i].time <= now
    BY <1>b, <2>1
  <2> QED  BY <1>b, <2>1, <2>2 DEF OrderInv, Memory
<1>5. ASSUME NEW t \in Nat, K!PopDue(t)  PROVE OrderInv'
  <2>1. /\ ~advancing /\ batch' \subseteq queue /\ queue' \subseteq queue /\ until' = t
        /\ \A e \in batch' : e.time <= t
        /\ log' = log /\ now' = now
    BY <1>5 DEF K!PopDue, K!Due
  <2>2. \A i \in DOMAIN log : log[i].time <= now
    BY <1>b, <2>1
  <2> QED  BY <1>b, <2>1, <2>2 DEF OrderInv, Memory
<1>6. ASSUME NEW d \in Durations, Advance(d)  PROVE OrderInv'
  <2>1. now + d \in Nat /\ K!PopDue(now + d)
    BY <1>0, <1>6, ScriptAssumption DEF Advance
  <2> QED  BY <1>5, <2>1
<1>7. CASE Drain
  BY <1>0, <1>5, <1>7 DEF Drain
<1>8. CASE Return
  <2>1. /\ now' = (IF until < now THEN now ELSE until)
        /\ batch = {} /\ UNCHANGED <<queue, batch, log, until>>
    BY <1>8 DEF Return, K!Return
  <2>2. \A i \in DOMAIN log : log[i].time <= now'
    BY <1>0, <1>b, <1>c, <2>1
  <2> QED  BY <1>b, <2>1, <2>2 DEF OrderInv, Memory
<1>9. ASSUME NEW e \in batch, ApplyEvent(e)  PROVE OrderInv'
  <2>1. e \in K!Event /\ e \in Memory /\ e.time \in Nat
    BY <1>0 DEF Memory
  <2>2. /\ log' = Append(log, e) /\ advancing /\ phase \in {"draining", "advancing"}
        /\ queue' = queue \cup K!Emitted(e) /\ batch' = batch \ {e}
        /\ UNCHANGED <<now, until, advancing>>
        /\ \A f \in batch : f = e \/ K!Before(e, f)
    BY <1>9 DEF ApplyEvent, K!Apply, K!IsNext
  <2>3. \A f \in Memory' : e.time <= f.time
    <3>1. \A f \in batch : e.time <= f.time
      BY <1>0, <2>1, <2>2 DEF K!Before, Memory
    <3>2. \A f \in queue : e.time <= f.time
      BY <1>0, <1>b, <2>1, <2>2 DEF OnTimeInv, Memory
    <3>3. \A f \in K!Emitted(e) : e.time <= f.time
      BY <1>0, <2>1, EmittedFacts
    <3> QED  BY <2>2, <3>1, <3>2, <3>3 DEF Memory
  <2>4. \A f \in Memory' : f.time \in Nat
    <3>1. K!Emitted(e) \subseteq K!Event
      BY <1>0, <2>1, EmittedFacts
    <3> QED  BY <1>0, <2>2, <3>1 DEF Memory
  <2>5. /\ Len(log) \in Nat /\ DOMAIN log = 1 .. Len(log) /\ DOMAIN log' = 1 .. Len(log) + 1
        /\ \A i \in DOMAIN log : log'[i] = log[i]
        /\ log'[Len(log) + 1] = e
    BY <2>1, <2>2, LogGrows
  <2>6. \A i \in DOMAIN log' : i \in DOMAIN log \/ i = Len(log) + 1
    BY <2>5
  <2>7. \A i \in DOMAIN log' : log'[i].time \in Nat /\ log'[i].time <= e.time
    BY <1>b, <1>c, <2>1, <2>5, <2>6
  <2>8. \A i, j \in DOMAIN log' : i < j => log'[i].time <= log'[j].time
    <3> SUFFICES ASSUME NEW i \in DOMAIN log', NEW j \in DOMAIN log', i < j
                 PROVE  log'[i].time <= log'[j].time
      OBVIOUS
    <3>1. CASE j = Len(log) + 1
      BY <2>5, <2>7, <3>1
    <3>2. CASE j \in DOMAIN log
      <4>1. i \in DOMAIN log
        BY <2>5, <3>2
      <4> QED  BY <1>b, <2>5, <3>2, <4>1
    <3> QED  BY <2>6, <3>1, <3>2
  <2>9. \A i \in DOMAIN log' : log'[i].time <= now' \/ (advancing' /\ log'[i].time <= until')
    <3>0. advancing'
      BY <2>2, Zenon
    <3>1. e.time <= until
      BY <1>b
    <3>2. ASSUME NEW i \in DOMAIN log
          PROVE  log'[i].time <= now' \/ (advancing' /\ log'[i].time <= until')
      <4>1. log'[i] = log[i] /\ now' = now /\ until' = until
        BY <2>2, <2>5
      <4>2. log[i].time <= now \/ log[i].time <= until
        BY <1>b
      <4>3. log'[i].time <= now' \/ log'[i].time <= until'
        BY <4>1, <4>2
      <4> QED  BY <3>0, <4>3, Zenon
    <3>3. log'[Len(log) + 1].time <= until'
      BY <2>2, <2>5, <3>1
    <3> QED  BY <2>6, <3>0, <3>2, <3>3
  <2>10. \A i \in DOMAIN log' : \A f \in Memory' : log'[i].time <= f.time
    BY <2>1, <2>3, <2>4, <2>7
  <2>11. \A f \in batch' : f.time <= until'
    BY <1>b, <2>2
  <2> QED  BY <2>8, <2>9, <2>10, <2>11 DEF OrderInv
<1>10. CASE UNCHANGED <<now, queue, advancing, until, batch, log>>
  BY <1>b, <1>10 DEF OrderInv, Memory
<1>11. CASE OpenRun \/ WriteSnapshot \/ RunEval \/ UNCHANGED vars
  BY <1>10, <1>11 DEF OpenRun, WriteSnapshot, RunEval, vars
<1>12. CASE Exit \/ Drained \/ WriteSession \/ Abort \/ CutSnapshot \/ CutSession
  BY <1>10, <1>12 DEF Exit, Drained, WriteSession, Abort, CutSnapshot, CutSession
<1> QED  BY <1>1, <1>2, <1>3, <1>4, <1>6, <1>7, <1>8, <1>9, <1>11, <1>12 DEF Next

(* The deltas of the records up to a number, and the state they give.      *)
First(b) == [i \in DOMAIN log |-> IF log[i].seq <= b THEN deltas[i] ELSE << >>]

Upto(b) == FlattenSeq(First(b))

(* An undisturbed log in the order of its numbers has built the world of   *)
(* the running command, and that of every snapshot.                        *)
WorldInv ==
  Unbroken /\ InSeqOrder =>
    /\ world = FlattenSeq(deltas)
    /\ \A b \in DOMAIN snaps : snaps[b] = Upto(b)

LEMMA FirstType ==
  ASSUME Types, DiskInv, NEW b
  PROVE  /\ First(b) \in Seq(Seq(Effect))
         /\ Len(First(b)) = Len(log)
         /\ DOMAIN First(b) = 1 .. Len(log)
<1>1. Len(log) \in Nat /\ DOMAIN log = 1 .. Len(log)
  BY LogTypes
<1>2. \A i \in 1 .. Len(log) : deltas[i] \in Seq(Effect)
  BY <1>1, ElementOfSeq DEF DiskInv
<1>3. \A i \in 1 .. Len(log) : First(b)[i] \in Seq(Effect)
  BY <1>1, <1>2, EmptySeq DEF First
<1>4. First(b) = [i \in 1 .. Len(log) |-> First(b)[i]]
  BY <1>1 DEF First
<1> DEFINE s == First(b)
           D == Seq(Effect)
<1> HIDE DEF s, D
<1>5. s \in Seq(D)
  BY <1>1, <1>3, <1>4, IsASeq DEF s, D
<1>6. DOMAIN s = 1 .. Len(log)
  BY <1>1 DEF s, First
<1>7. Len(s) = Len(log)
  BY <1>1, <1>5, <1>6, LenProperties
<1> QED  BY <1>5, <1>6, <1>7 DEF s, D

(* Past every record the state is that of the whole log.                   *)
LEMMA UptoAll ==
  ASSUME Types, DiskInv, NEW s, \A i \in DOMAIN log : log[i].seq <= s
  PROVE  Upto(s) = FlattenSeq(deltas)
<1>1. First(s) = deltas
  <2>1. \A i \in 1 .. Len(log) : First(s)[i] = deltas[i]
    BY LogTypes DEF First
  <2> DEFINE D == Seq(Effect)
             u == First(s)
  <2>2. u \in Seq(D) /\ deltas \in Seq(D) /\ Len(u) = Len(log) /\ Len(deltas) = Len(log)
    BY FirstType DEF DiskInv
  <2>3. \A i \in 1 .. Len(u) : u[i] = deltas[i]
    BY <2>1, <2>2
  <2> HIDE DEF D, u
  <2>4. u = deltas
    BY <2>2, <2>3, SeqEqual
  <2> QED  BY <2>4 DEF u
<1> QED  BY <1>1 DEF Upto

(* In a log in order the records up to a number come first.                *)
LEMMA Cutoff ==
  ASSUME Types, InSeqOrder, NEW b \in Nat
  PROVE  \E k \in 0 .. Len(log) : \A i \in 1 .. Len(log) : log[i].seq <= b <=> i <= k
<1> DEFINE S == {0} \cup {i \in 1 .. Len(log) : log[i].seq <= b}
<1>0. /\ Len(log) \in Nat /\ DOMAIN log = 1 .. Len(log)
      /\ \A i \in 1 .. Len(log) : log[i].seq \in Nat
  BY LogTypes
<1>1. S \in SUBSET (0 .. Len(log)) /\ S # {}
  BY <1>0
<1>2. Max(S) \in S /\ \A i \in S : Max(S) >= i
  <2> HIDE DEF S
  <2> QED  BY <1>0, <1>1, Greatest
<1> DEFINE k == Max(S)
<1>3. k \in S /\ k \in 0 .. Len(log) /\ \A i \in S : k >= i
  BY <1>1, <1>2
<1> HIDE DEF k
<1>4. ASSUME NEW i \in 1 .. Len(log)  PROVE log[i].seq <= b <=> i <= k
  <2>1. ASSUME log[i].seq <= b  PROVE i <= k
    BY <1>0, <1>3, <2>1
  <2>2. ASSUME i <= k  PROVE log[i].seq <= b
    <3>1. k \in 1 .. Len(log) /\ log[k].seq <= b
      BY <1>3, <2>2
    <3>2. i = k \/ log[i].seq < log[k].seq
      BY <1>0, <2>2, <3>1 DEF InSeqOrder
    <3> QED  BY <1>0, <3>1, <3>2
  <2> QED  BY <2>1, <2>2
<1> QED  BY <1>3, <1>4

(* A replay gives what the log built.                                      *)
LEMMA ReplayOrdered ==
  ASSUME Types, DiskInv, InSeqOrder, NEW s \in Nat, 0 \in DOMAIN snaps,
         \A b \in DOMAIN snaps : snaps[b] = Upto(b)
  PROVE  StateAt(s) = Upto(s)
<1>1. PICK base \in DOMAIN snaps :
        /\ base <= s
        /\ StateAt(s) = snaps[base] \o FlattenSeq(Between(base, s))
  BY Replay
<1>2. base \in Nat
  BY <1>1 DEF DiskInv
<1>3. PICK k \in 0 .. Len(log) : \A i \in 1 .. Len(log) : log[i].seq <= base <=> i <= k
  BY <1>2, Cutoff
<1>4. Parts(First(s), k, First(base), Between(base, s))
  <2> SUFFICES ASSUME NEW i \in 1 .. Len(First(s))
               PROVE  /\ First(base)[i] = IF i <= k THEN First(s)[i] ELSE << >>
                      /\ Between(base, s)[i] = IF i <= k THEN << >> ELSE First(s)[i]
    BY Zenon DEF Parts
  <2>1. i \in 1 .. Len(log) /\ i \in DOMAIN log
    BY FirstType, LogTypes
  <2>2. log[i].seq \in Nat /\ (log[i].seq <= base <=> i <= k)
    BY <1>3, <2>1, LogTypes
  <2>3. /\ First(base)[i] = IF log[i].seq <= base THEN deltas[i] ELSE << >>
        /\ First(s)[i] = IF log[i].seq <= s THEN deltas[i] ELSE << >>
        /\ Between(base, s)[i] =
             IF base < log[i].seq /\ log[i].seq <= s THEN deltas[i] ELSE << >>
    BY <2>1 DEF First, Between
  <2> QED  BY <1>1, <1>2, <2>2, <2>3
<1>5. FlattenSeq(First(s)) = FlattenSeq(First(base)) \o FlattenSeq(Between(base, s))
  <2>1. k \in Nat
    BY <1>3, LogTypes
  <2> QED  BY <1>4, <2>1, FirstType, BetweenType, FlattenSplit
<1>6. snaps[base] = Upto(base)
  BY <1>1
<1> QED  BY <1>1, <1>5, <1>6 DEF Upto

(* One more record: it comes last, and the state up to it is the state so  *)
(* far and what it writes.                                                 *)
LEMMA RecordAppended ==
  ASSUME Types, DiskInv, NEW e \in K!Event, log' = Append(log, e),
         deltas' = Append(deltas, WrittenBy(e)), NEW b \in Nat
  PROVE  /\ FlattenSeq(deltas') = FlattenSeq(deltas) \o WrittenBy(e)
         /\ b < e.seq => Upto(b)' = Upto(b)
<1>1. /\ Len(log) \in Nat /\ DOMAIN log = 1 .. Len(log) /\ DOMAIN log' = 1 .. Len(log) + 1
      /\ \A i \in DOMAIN log : log'[i] = log[i]
      /\ log'[Len(log) + 1] = e
  BY LogGrows
<1>2. deltas \in Seq(Seq(Effect)) /\ WrittenBy(e) \in Seq(Effect) /\ Len(deltas) = Len(log)
  BY WrittenType DEF DiskInv
<1>3. FlattenSeq(deltas') = FlattenSeq(deltas) \o WrittenBy(e)
  BY <1>2, FlattenAppend
<1> DEFINE D == Seq(Effect)
<1>4. deltas \in Seq(D)
  BY <1>2
<1>5. WrittenBy(e) \in D
  BY <1>2
<1> HIDE DEF D
<1>6. \A i \in 1 .. Len(log) : deltas'[i] = deltas[i]
  BY <1>2, <1>4, <1>5, AppendProperties
<1>7. ASSUME b < e.seq  PROVE Upto(b)' = Upto(b)
  <2>1. \A i \in 1 .. Len(log) : First(b)'[i] = First(b)[i]
    <3> SUFFICES ASSUME NEW i \in 1 .. Len(log)  PROVE First(b)'[i] = First(b)[i]
      OBVIOUS
    <3>1. i \in DOMAIN log /\ i \in DOMAIN log'
      BY <1>1
    <3> QED  BY <1>1, <1>6, <3>1 DEF First
  <2>2. First(b)'[Len(log) + 1] = << >>
    <3>1. Len(log) + 1 \in DOMAIN log' /\ ~(e.seq <= b)
      BY <1>1, <1>7 DEF K!Event
    <3> QED  BY <1>1, <3>1 DEF First
  <2> DEFINE u == First(b)
             v == First(b)'
  <2>3. u \in Seq(D) /\ Len(u) = Len(log)
    BY FirstType DEF D
  <2>4. DOMAIN v = 1 .. Len(log) + 1
    BY <1>1 DEF First
  <2>5. v = Append(u, << >>)
    <3>1. << >> \in D
      BY EmptySeq DEF D
    <3>2. \A i \in 1 .. Len(log) : v[i] = u[i]
      BY <2>1
    <3>3. v[Len(log) + 1] = << >>
      BY <2>2
    <3>4. v = [i \in 1 .. Len(log) + 1 |-> v[i]]
      BY <1>1 DEF First
    <3> HIDE DEF u, v
    <3>5. \A i \in 1 .. Len(log) + 1 : v[i] \in D
      <4>1. \A i \in 1 .. Len(log) : u[i] \in D
        BY <2>3, ElementOfSeq
      <4>2. \A i \in 1 .. Len(log) + 1 : i \in 1 .. Len(log) \/ i = Len(log) + 1
        BY <1>1
      <4> QED  BY <3>1, <3>2, <3>3, <4>1, <4>2
    <3>6. Len(log) + 1 \in Nat
      BY <1>1
    <3>7. v \in Seq(D)
      BY <3>4, <3>5, <3>6, IsASeq
    <3>8. Len(v) = Len(log) + 1
      BY <2>4, <3>6, <3>7, LenProperties
    <3> DEFINE w == Append(u, << >>)
    <3>9. /\ w \in Seq(D) /\ Len(w) = Len(log) + 1
          /\ \A i \in 1 .. Len(log) : w[i] = u[i]
          /\ w[Len(log) + 1] = << >>
      BY <2>3, <3>1, AppendProperties
    <3> HIDE DEF w
    <3>10. \A i \in 1 .. Len(v) : v[i] = w[i]
      BY <1>1, <3>2, <3>3, <3>8, <3>9
    <3>11. v = w
      BY <3>7, <3>8, <3>9, <3>10, SeqEqual
    <3> QED  BY <3>11 DEF w
  <2>6. FlattenSeq(v) = FlattenSeq(u) \o << >>
    <3>1. u \in Seq(Seq(Effect)) /\ << >> \in Seq(Effect)
      BY FirstType, EmptySeq
    <3> HIDE DEF u, v
    <3> QED  BY <2>5, <3>1, FlattenAppend
  <2>7. FlattenSeq(u) \in Seq(Effect)
    BY FirstType, FlattenType
  <2> HIDE DEF u, v
  <2>8. FlattenSeq(v) = FlattenSeq(u)
    BY <2>6, <2>7, ConcatEmptySeq
  <2> QED  BY <2>8 DEF Upto, u, v
<1> QED  BY <1>3, <1>7

LEMMA WorldStep ==
  ASSUME Types, CallInv, Chain, DistinctInv, DiskInv, KeptInv, NumberedInv, WorldInv,
         [Next]_vars
  PROVE  WorldInv'
<1> USE DEF kernelVars, memoryVars, diskVars, fileVars, countVars
<1>0. /\ aborts \in Nat /\ loads \in Nat /\ sess.seq \in Nat /\ lastSeq \in Nat
      /\ batch \subseteq K!Event
  BY DEF Types, K!TypeOK, Sessions, DiskInv
<1> SUFFICES ASSUME Unbroken', InSeqOrder'  PROVE WorldInv'
  BY DEF WorldInv
<1>a. Unbroken
  BY <1>0 DEF Unbroken, Next, vars, Load, LoadScript, OpenRun, Resume, Exit, Step, Advance,
              Drain, Drained, Return, ApplyEvent, WriteSnapshot, WriteSession, RunEval, Abort,
              CutSnapshot, CutSession
<1>b. ASSUME InSeqOrder
      PROVE  /\ world = FlattenSeq(deltas)
             /\ \A b \in DOMAIN snaps : snaps[b] = Upto(b)
  BY <1>a, <1>b DEF WorldInv
<1>c. ASSUME UNCHANGED <<log, deltas, snaps>>, InSeqOrder => world' = FlattenSeq(deltas)
      PROVE  WorldInv'
  <2>1. InSeqOrder
    BY <1>c DEF InSeqOrder
  <2>2. \A b : Upto(b)' = Upto(b)
    BY <1>c DEF Upto, First
  <2> QED  BY <1>b, <1>c, <2>1, <2>2 DEF WorldInv
<1>d. ASSUME UNCHANGED <<log, deltas, world>>,
             NEW s \in Nat, snaps' = Saved(s), \A i \in DOMAIN log : log[i].seq <= s
      PROVE  WorldInv'
  <2>1. InSeqOrder
    BY <1>d DEF InSeqOrder
  <2>2. \A b : Upto(b)' = Upto(b)
    BY <1>d DEF Upto, First
  <2>3. /\ DOMAIN snaps' = DOMAIN snaps \cup {s} /\ snaps'[s] = world
        /\ \A b \in DOMAIN snaps : b # s => snaps'[b] = snaps[b]
    BY <1>d, SavedType, Zenon
  <2>4. Upto(s) = world
    BY <1>b, <1>d, <2>1, UptoAll
  <2> QED  BY <1>b, <1>d, <2>1, <2>2, <2>3, <2>4 DEF WorldInv
<1>1. CASE Load
  <2>1. loads = 0
    BY <1>0, <1>1, <1>a DEF Load, Unbroken
  <2>2. log = << >> /\ Len(deltas) = 0
    BY <1>a, <2>1 DEF Chain, K!Init, DiskInv
  <2>3. deltas = << >>
    BY <2>2, EmptySeq DEF DiskInv
  <2>4. FlattenSeq(deltas) = << >>
    <3>1. deltas \in Seq(Seq(Effect)) /\ \A i \in 1 .. Len(deltas) : deltas[i] = << >>
      BY <2>2 DEF DiskInv
    <3> QED  BY <3>1, FlattenNothing
  <2> QED  BY <1>1, <1>c, <2>4 DEF Load
<1>2. CASE OpenRun
  <2>1. log = << >>
    BY <1>2, <1>a DEF OpenRun, KeptInv
  <2>2. \A i \in DOMAIN log : log[i].seq <= 0
    BY <2>1
  <2> QED  BY <1>2, <1>d, <2>2 DEF OpenRun
<1>3. CASE Resume
  <2>1. /\ world' = StateAt(sess.seq) /\ 0 \in DOMAIN snaps /\ sess.seq = seq
        /\ UNCHANGED <<log, deltas, snaps>>
    BY <1>3, <1>a DEF Resume, DiskInv, Chain, SessionIsMemory
  <2>2. \A i \in DOMAIN log : log[i].seq <= sess.seq
    BY <1>a, <2>1 DEF KeptInv
  <2>3. InSeqOrder => StateAt(sess.seq) = FlattenSeq(deltas)
    <3> SUFFICES ASSUME InSeqOrder  PROVE StateAt(sess.seq) = FlattenSeq(deltas)
      OBVIOUS
    <3>1. StateAt(sess.seq) = Upto(sess.seq)
      BY <1>0, <1>b, <2>1, ReplayOrdered
    <3>2. Upto(sess.seq) = FlattenSeq(deltas)
      BY <2>2, UptoAll
    <3> QED  BY <3>1, <3>2
  <2> QED  BY <1>c, <2>1, <2>3
<1>4. ASSUME UNCHANGED <<log, deltas, snaps, world>>  PROVE WorldInv'
  BY <1>4, <1>b, <1>c
<1>5. ASSUME NEW k \in Calls, Step(k)  PROVE WorldInv'
  BY <1>4, <1>5 DEF Step, K!Schedule
<1>6. ASSUME NEW d \in Durations, Advance(d)  PROVE WorldInv'
  BY <1>4, <1>6 DEF Advance, K!PopDue
<1>7. CASE LoadScript \/ Drain \/ Return
  BY <1>4, <1>7 DEF LoadScript, Drain, Return, K!Schedule, K!PopDue, K!Return
<1>8. CASE Exit \/ Drained \/ WriteSession \/ RunEval \/ UNCHANGED vars
  BY <1>4, <1>8 DEF Exit, Drained, WriteSession, RunEval, vars
<1>9. CASE Abort \/ CutSnapshot \/ CutSession
  BY <1>4, <1>9 DEF Abort, CutSnapshot, CutSession
<1>10. CASE WriteSnapshot
  <2>1. lastSeq = LastLogged
    BY <1>a DEF KeptInv
  <2>2. /\ UNCHANGED <<log, deltas, world>> /\ snaps' = Saved(lastSeq)
    BY <1>10 DEF WriteSnapshot
  <2>3. InSeqOrder
    BY <2>2 DEF InSeqOrder
  <2>4. ASSUME NEW i \in DOMAIN log  PROVE log[i].seq <= lastSeq
    <3>1. /\ Len(log) \in DOMAIN log /\ lastSeq = log[Len(log)].seq
          /\ Len(log) \in Nat /\ i \in 1 .. Len(log) /\ log[i].seq \in Nat
      BY <2>1, LogTypes
    <3>2. i = Len(log) \/ log[i].seq < log[Len(log)].seq
      BY <2>3, <3>1 DEF InSeqOrder
    <3> QED  BY <1>0, <3>1, <3>2
  <2> QED  BY <1>0, <1>d, <2>2, <2>4
<1>11. ASSUME NEW e \in batch, ApplyEvent(e)  PROVE WorldInv'
  <2>1. e \in K!Event /\ e.seq \in Nat
    BY <1>0 DEF K!Event
  <2>2. /\ world' = world \o WrittenBy(e) /\ deltas' = Append(deltas, WrittenBy(e))
        /\ log' = Append(log, e) /\ snaps' = snaps /\ phase \in {"draining", "advancing"}
    BY <1>11 DEF ApplyEvent, K!Apply
  <2>3. /\ Len(log) \in Nat /\ DOMAIN log = 1 .. Len(log) /\ DOMAIN log' = 1 .. Len(log) + 1
        /\ \A i \in DOMAIN log : log'[i] = log[i]
        /\ log'[Len(log) + 1] = e
    BY <2>1, <2>2, LogGrows
  <2>4. InSeqOrder
    <3> SUFFICES ASSUME NEW i \in DOMAIN log, NEW j \in DOMAIN log, i < j
                 PROVE  log[i].seq < log[j].seq
      BY DEF InSeqOrder
    <3>1. i \in DOMAIN log' /\ j \in DOMAIN log'
      BY <2>3
    <3>2. log'[i].seq < log'[j].seq
      BY <3>1 DEF InSeqOrder
    <3> QED  BY <2>3, <3>2
  <2>5. FlattenSeq(deltas') = FlattenSeq(deltas) \o WrittenBy(e)
    BY <2>1, <2>2, RecordAppended
  <2>6. \A b \in DOMAIN snaps : b \in Nat /\ b < e.seq
    <3> SUFFICES ASSUME NEW b \in DOMAIN snaps  PROVE b < e.seq
      BY DEF DiskInv
    <3>1. CASE b = 0
      <4>1. e.seq >= 1
        BY <2>2 DEF NumberedInv, Running, Memory
      <4> QED  BY <2>1, <3>1, <4>1
    <3>2. CASE LoggedSeq(b)
      <4>1. PICK i \in DOMAIN log : log[i].seq = b
        BY <3>2 DEF LoggedSeq
      <4>2. i \in DOMAIN log' /\ Len(log) + 1 \in DOMAIN log' /\ i < Len(log) + 1
        BY <2>3
      <4>3. log'[i].seq < log'[Len(log) + 1].seq
        BY <4>2 DEF InSeqOrder
      <4> QED  BY <2>3, <4>1, <4>3
    <3> QED  BY <1>a, <3>1, <3>2 DEF KeptInv
  <2>7. \A b \in DOMAIN snaps : Upto(b)' = Upto(b)
    BY <2>1, <2>2, <2>6, RecordAppended
  <2>8. \A b \in DOMAIN snaps' : snaps'[b] = Upto(b)'
    BY <1>b, <2>2, <2>4, <2>7
  <2>9. world' = FlattenSeq(deltas')
    BY <1>b, <2>2, <2>4, <2>5
  <2> QED  BY <2>8, <2>9 DEF WorldInv
<1> QED  BY <1>1, <1>2, <1>3, <1>5, <1>6, <1>7, <1>8, <1>9, <1>10, <1>11 DEF Next

(* The names that Graded gives to what it sorts, and to their order.       *)
Line(i) == [time |-> log[i].time, seq |-> log[i].seq, line |-> i, deltas |-> deltas[i]]

Precedes(x, y) == \/ x.time < y.time
                  \/ x.time = y.time /\ x.seq < y.seq
                  \/ x.time = y.time /\ x.seq = y.seq /\ x.line < y.line

Lines(at) == {Line(i) : i \in {j \in DOMAIN log : log[j].time <= at}}

Nth(S, n) == CHOOSE x \in S : Cardinality({y \in S : Precedes(y, x)}) = n - 1

Sorted(S) == [m \in 1 .. Cardinality(S) |-> Nth(S, m)]

GradedFrom(S, based) ==
  [based |-> based, effects |-> FlattenSeq([n \in DOMAIN Sorted(S) |-> Sorted(S)[n].deltas])]

LEMMA GradedIs ==
  ASSUME NEW at
  PROVE  Graded(at) = GradedFrom(Lines(at), opened <= at)
BY Zenon DEF Graded, Ranked, Lines, Line, Precedes, Nth, Sorted, GradedFrom

(* A list without repetitions has as many members as places.               *)
LEMMA ListCount ==
  ASSUME NEW n \in Nat, NEW f, \A i, j \in 1 .. n : f[i] = f[j] => i = j,
         NEW S, \A x : x \in S <=> \E i \in 1 .. n : x = f[i]
  PROVE  IsFiniteSet(S) /\ Cardinality(S) = n
<1> DEFINE g == [i \in 1 .. n |-> f[i]]
<1>1. g \in Bijection(1 .. n, S)
  BY Zenon DEF Bijection, Injection, Surjection, IsInjective
<1>2. ExistsBijection(1 .. n, S)
  BY <1>1, Zenon DEF ExistsBijection
<1>3. IsFiniteSet(1 .. n) /\ Cardinality(1 .. n) = n
  BY FS_Interval
<1> QED  BY <1>2, <1>3, FS_Bijection

(* In a log in the order of time the records seen by a moment come first.  *)
LEMMA TimeCutoff ==
  ASSUME Types, \A i, j \in DOMAIN log : i < j => log[i].time <= log[j].time, NEW at \in Nat
  PROVE  \E k \in 0 .. Len(log) : \A i \in 1 .. Len(log) : log[i].time <= at <=> i <= k
<1> DEFINE S == {0} \cup {i \in 1 .. Len(log) : log[i].time <= at}
<1>0. /\ Len(log) \in Nat /\ DOMAIN log = 1 .. Len(log)
      /\ \A i \in 1 .. Len(log) : log[i].time \in Nat
  BY LogTypes
<1>1. S \in SUBSET (0 .. Len(log)) /\ S # {}
  BY <1>0
<1>2. Max(S) \in S /\ \A i \in S : Max(S) >= i
  <2> HIDE DEF S
  <2> QED  BY <1>0, <1>1, Greatest
<1> DEFINE k == Max(S)
<1>3. k \in S /\ k \in 0 .. Len(log) /\ \A i \in S : k >= i
  BY <1>1, <1>2
<1> HIDE DEF k
<1>4. ASSUME NEW i \in 1 .. Len(log)  PROVE log[i].time <= at <=> i <= k
  <2>1. ASSUME log[i].time <= at  PROVE i <= k
    BY <1>0, <1>3, <2>1
  <2>2. ASSUME i <= k  PROVE log[i].time <= at
    <3>1. k \in 1 .. Len(log) /\ log[k].time <= at
      BY <1>3, <2>2
    <3>2. i = k \/ log[i].time <= log[k].time
      BY <1>0, <2>2, <3>1
    <3> QED  BY <1>0, <3>1, <3>2
  <2> QED  BY <2>1, <2>2
<1> QED  BY <1>3, <1>4

(* In a log in the order of time and of its numbers, the records seen by a *)
(* moment are graded in file order.                                        *)
LEMMA GradedOrdered ==
  ASSUME Types, InSeqOrder, \A i, j \in DOMAIN log : i < j => log[i].time <= log[j].time,
         NEW at, NEW p \in 0 .. Len(log),
         \A i \in 1 .. Len(log) : log[i].time <= at <=> i <= p
  PROVE  Graded(at).effects = FlattenSeq([n \in 1 .. p |-> deltas[n]])
<1>0. /\ Len(log) \in Nat /\ DOMAIN log = 1 .. Len(log) /\ p \in Nat
      /\ \A i \in 1 .. p : /\ i \in DOMAIN log /\ log[i].time \in Nat /\ log[i].seq \in Nat
  BY LogTypes
<1>1. Lines(at) = {Line(i) : i \in 1 .. p}
  <2>1. {j \in DOMAIN log : log[j].time <= at} = 1 .. p
    BY <1>0
  <2> QED  BY <2>1, Zenon DEF Lines
<1>2. ASSUME NEW i \in 1 .. p, NEW j \in 1 .. p
      PROVE  Precedes(Line(j), Line(i)) <=> j < i
  <2>1. i < j => log[i].time <= log[j].time /\ log[i].seq < log[j].seq
    BY <1>0 DEF InSeqOrder
  <2>2. j < i => log[j].time <= log[i].time /\ log[j].seq < log[i].seq
    BY <1>0 DEF InSeqOrder
  <2>3. i \in Nat /\ j \in Nat
    OBVIOUS
  <2> QED  BY <1>0, <2>1, <2>2, <2>3 DEF Precedes, Line
<1> DEFINE f == [i \in 1 .. Len(log) |-> Line(i)]
<1>3. ASSUME NEW i \in 1 .. p, NEW j \in 1 .. p, Line(i) = Line(j)  PROVE i = j
  BY <1>3 DEF Line
<1>4. \A q \in 0 .. p : Cardinality({Line(i) : i \in 1 .. q}) = q
  <2> SUFFICES ASSUME NEW q \in 0 .. p  PROVE Cardinality({Line(i) : i \in 1 .. q}) = q
    OBVIOUS
  <2> DEFINE R == {Line(i) : i \in 1 .. q}
  <2>1. \A i \in 1 .. q : i \in 1 .. p /\ f[i] = Line(i)
    BY <1>0
  <2>2. q \in Nat /\ \A i, j \in 1 .. q : f[i] = f[j] => i = j
    BY <1>0, <1>3, <2>1
  <2>3. \A x : x \in R <=> \E i \in 1 .. q : x = f[i]
    BY <2>1, Zenon
  <2> HIDE DEF f, R
  <2>4. Cardinality(R) = q
    BY <2>2, <2>3, ListCount
  <2> QED  BY <2>4 DEF R
<1>5. Cardinality(Lines(at)) = p
  BY <1>0, <1>1, <1>4
<1>6. ASSUME NEW n \in 1 .. p  PROVE Nth(Lines(at), n) = Line(n)
  <2>1. ASSUME NEW i \in 1 .. p
        PROVE  Cardinality({y \in Lines(at) : Precedes(y, Line(i))}) = i - 1
    <3>1. {y \in Lines(at) : Precedes(y, Line(i))} = {Line(j) : j \in 1 .. i - 1}
      <4>1. ASSUME NEW y \in Lines(at), Precedes(y, Line(i))
            PROVE  y \in {Line(j) : j \in 1 .. i - 1}
        <5>1. PICK j \in 1 .. p : y = Line(j)
          BY <1>1
        <5>2. j < i
          BY <1>2, <4>1, <5>1
        <5>3. j \in 1 .. i - 1
          BY <5>2
        <5> QED  BY <5>1, <5>3
      <4>2. ASSUME NEW j \in 1 .. i - 1
            PROVE  Line(j) \in Lines(at) /\ Precedes(Line(j), Line(i))
        <5>1. j \in 1 .. p /\ j < i
          BY <1>0
        <5> QED  BY <1>1, <1>2, <5>1
      <4> QED  BY <4>1, <4>2
    <3>2. i - 1 \in 0 .. p
      BY <1>0
    <3> QED  BY <1>4, <3>1, <3>2
  <2>2. Line(n) \in Lines(at) /\ Cardinality({y \in Lines(at) : Precedes(y, Line(n))}) = n - 1
    BY <1>1, <2>1
  <2>3. ASSUME NEW x \in Lines(at), Cardinality({y \in Lines(at) : Precedes(y, x)}) = n - 1
        PROVE  x = Line(n)
    <3>1. PICK i \in 1 .. p : x = Line(i)
      BY <1>1
    <3>2. i - 1 = n - 1
      BY <2>1, <2>3, <3>1
    <3>3. i = n
      BY <3>2
    <3> QED  BY <3>1, <3>3
  <2> QED  BY <2>2, <2>3, Zenon DEF Nth
<1> DEFINE r == Sorted(Lines(at))
<1>7. Graded(at).effects = FlattenSeq([n \in DOMAIN r |-> r[n].deltas])
  BY GradedIs DEF GradedFrom
<1>8. DOMAIN r = 1 .. p /\ \A n \in 1 .. p : r[n].deltas = deltas[n]
  <2>1. \A n \in 1 .. p : Line(n).deltas = deltas[n]
    BY DEF Line
  <2> QED  BY <1>5, <1>6, <2>1 DEF Sorted
<1> HIDE DEF r
<1>9. [n \in DOMAIN r |-> r[n].deltas] = [n \in 1 .. p |-> deltas[n]]
  BY <1>8
<1> QED  BY <1>7, <1>9

(* The grader's view of a moment is the state graded.                      *)
LEMMA GraderClaim ==
  ASSUME Types, DiskInv, KeptInv, NumberedInv, OrderInv, WorldInv
  PROVE  GraderSeesWhatIsGraded
<1> SUFFICES ASSUME phase = "idle", sess.readable, Unbroken, InSeqOrder, NEW at \in Times
             PROVE  Pov(at) = Graded(at).effects
  BY DEF GraderSeesWhatIsGraded, Idle, Undisturbed, Unbroken
<1>0. /\ Len(log) \in Nat /\ DOMAIN log = 1 .. Len(log) /\ at \in Nat /\ seq \in Nat
      /\ \A i \in DOMAIN log : log[i].seq \in Nat /\ log[i].seq >= 1 /\ log[i].seq <= seq
      /\ 0 \in DOMAIN snaps
      /\ \A b \in DOMAIN snaps : snaps[b] = Upto(b)
  BY LogTypes, ScriptAssumption DEF NumberedInv, KeptInv, DiskInv, WorldInv, Types, K!TypeOK
<1>1. \A i, j \in DOMAIN log : i < j => log[i].time <= log[j].time
  BY DEF OrderInv
<1>2. PICK p \in 0 .. Len(log) : \A i \in 1 .. Len(log) : log[i].time <= at <=> i <= p
  BY <1>0, <1>1, TimeCutoff
<1>3. p \in Nat /\ \A i \in 1 .. p : i \in DOMAIN log
  BY <1>0
<1> DEFINE S == {0} \cup {log[i].seq : i \in {j \in DOMAIN log : log[j].time <= at}}
           m == Max(S)
<1>4. m \in S /\ (\A n \in S : m >= n) /\ m \in Nat
  <2>1. S \in SUBSET (0 .. seq) /\ S # {}
    BY <1>0
  <2> HIDE DEF S
  <2>2. Max(S) \in S /\ \A n \in S : Max(S) >= n
    BY <1>0, <2>1, Greatest
  <2>3. \A n \in S : n \in Nat
    BY <1>0, <2>1
  <2> QED  BY <2>2, <2>3, Zenon
<1>5. Pov(at) = StateAt(m)
  BY Zenon DEF Pov
<1> HIDE DEF m
<1>6. ASSUME NEW i \in 1 .. Len(log)  PROVE log[i].seq <= m <=> i <= p
  <2>1. ASSUME i <= p  PROVE log[i].seq <= m
    <3>1. log[i].seq \in S
      BY <1>0, <1>2, <2>1
    <3> QED  BY <1>0, <1>4, <3>1
  <2>2. ASSUME ~(i <= p)  PROVE ~(log[i].seq <= m)
    <3>1. CASE m = 0
      BY <1>0, <3>1
    <3>2. ASSUME NEW j \in DOMAIN log, log[j].time <= at, m = log[j].seq
          PROVE  ~(log[i].seq <= m)
      <4>1. j <= p
        BY <1>0, <1>2, <3>2
      <4>2. j < i
        BY <1>0, <1>3, <2>2, <4>1
      <4>3. log[j].seq < log[i].seq
        BY <1>0, <4>2 DEF InSeqOrder
      <4> QED  BY <1>0, <3>2, <4>3
    <3> QED  BY <1>4, <3>1, <3>2
  <2> QED  BY <2>1, <2>2
<1>7. StateAt(m) = Upto(m)
  BY <1>0, <1>4, ReplayOrdered
<1> DEFINE t == [n \in 1 .. p |-> deltas[n]]
<1>8. Upto(m) = FlattenSeq(t)
  <2>1. \A i \in 1 .. p : deltas[i] \in Seq(Effect)
    BY <1>0, <1>3, ElementOfSeq DEF DiskInv
  <2> DEFINE D == Seq(Effect)
  <2>2. \A i \in 1 .. p : deltas[i] \in D
    BY <2>1
  <2> HIDE DEF D
  <2>3. t \in Seq(D)
    BY <1>3, <2>2, IsASeq
  <2>4. DOMAIN t = 1 .. p
    OBVIOUS
  <2>5. Len(t) = p
    BY <1>3, <2>3, <2>4, LenProperties
  <2>6. /\ First(m) \in Seq(Seq(Effect)) /\ Len(First(m)) = Len(log)
    BY FirstType
  <2>7. \A i \in 1 .. Len(log) : First(m)[i] = IF i <= Len(t) THEN t[i] ELSE << >>
    <3> SUFFICES ASSUME NEW i \in 1 .. Len(log)
                 PROVE  First(m)[i] = IF i <= Len(t) THEN t[i] ELSE << >>
      OBVIOUS
    <3>1. First(m)[i] = IF log[i].seq <= m THEN deltas[i] ELSE << >>
      BY <1>0 DEF First
    <3>2. i <= p => t[i] = deltas[i]
      OBVIOUS
    <3> HIDE DEF t
    <3> QED  BY <1>6, <2>5, <3>1, <3>2
  <2> HIDE DEF t
  <2>8. FlattenSeq(First(m)) = FlattenSeq(t)
    <3>1. t \in Seq(Seq(Effect)) /\ Len(t) <= Len(First(m))
      BY <1>0, <1>2, <2>3, <2>5, <2>6 DEF D
    <3> QED  BY <2>6, <2>7, <3>1, FlattenPadded
  <2> QED  BY <2>8 DEF Upto
<1>9. Graded(at).effects = FlattenSeq(t)
  BY <1>1, <1>2, GradedOrdered
<1> QED  BY <1>5, <1>7, <1>8, <1>9

-----------------------------------------------------------------------------
(* A score stands.                                                         *)

(* A score of the current load that was written after the last checkpoint: *)
(* the log is not empty, every clock is past the checkpoint, no load is    *)
(* under way, and no snapshot taken now is an opening one.                 *)
ScoreInv ==
  /\ score.load \in Nat /\ score.load <= loads
  /\ score.past /\ score.load = loads =>
       /\ log # << >>
       /\ sess.readable => sess.now > Horizon
       /\ Running => phase # "loading" /\ now > Horizon /\ lastSeq >= 1
       /\ score.graded = Graded(Horizon)

(* What is graded at a moment is a matter of the records it has seen.      *)
LEMMA GradedSame ==
  ASSUME NEW at, Lines(at)' = Lines(at), opened' = opened
  PROVE  Graded(at)' = Graded(at)
<1>1. Graded(at) = GradedFrom(Lines(at), opened <= at)
  BY GradedIs
<1>2. Graded(at)' = GradedFrom(Lines(at)', opened' <= at)
  BY Zenon DEF Graded, Ranked, Lines, Line, Precedes, Nth, Sorted, GradedFrom
<1> QED  BY <1>1, <1>2

(* A record due later is not graded.                                       *)
LEMMA GradedAppended ==
  ASSUME Types, DiskInv, NEW e \in K!Event, log' = Append(log, e),
         deltas' = Append(deltas, WrittenBy(e)), opened' = opened,
         NEW at \in Nat, e.time > at
  PROVE  Graded(at)' = Graded(at)
<1>1. /\ Len(log) \in Nat /\ DOMAIN log = 1 .. Len(log) /\ DOMAIN log' = 1 .. Len(log) + 1
      /\ \A i \in DOMAIN log : log'[i] = log[i]
      /\ log'[Len(log) + 1] = e
      /\ e.time \in Nat
  BY LogGrows DEF K!Event
<1>2. \A i \in DOMAIN log : deltas'[i] = deltas[i]
  <2> DEFINE D == Seq(Effect)
  <2>1. deltas \in Seq(D) /\ WrittenBy(e) \in D /\ Len(deltas) = Len(log)
    BY WrittenType DEF DiskInv
  <2> HIDE DEF D
  <2> QED  BY <1>1, <2>1, AppendProperties
<1>3. {j \in DOMAIN log' : log'[j].time <= at} = {j \in DOMAIN log : log[j].time <= at}
  <2>1. \A i \in DOMAIN log' : i \in DOMAIN log \/ i = Len(log) + 1
    BY <1>1
  <2>2. ~(e.time <= at)
    BY <1>1
  <2>3. \A i \in DOMAIN log : i \in DOMAIN log'
    BY <1>1
  <2> QED  BY <1>1, <2>1, <2>2, <2>3
<1>4. \A i \in DOMAIN log : Line(i)' = Line(i)
  BY <1>1, <1>2 DEF Line
<1>5. Lines(at)' = Lines(at)
  <2> DEFINE I == {j \in DOMAIN log : log[j].time <= at}
  <2>1. \A i \in I : Line(i)' = Line(i)
    BY <1>4
  <2>2. Lines(at)' = {Line(i)' : i \in I}
    BY <1>3, Zenon DEF Lines
  <2>3. Lines(at) = {Line(i) : i \in I}
    BY Zenon DEF Lines
  <2> HIDE DEF I
  <2> QED  BY <2>1, <2>2, <2>3
<1> QED  BY <1>5, GradedSame

LEMMA ScoreStep ==
  ASSUME Types, CallInv, DistinctInv, OnTimeInv, DiskInv, NumberedInv, ScoreInv, [Next]_vars
  PROVE  ScoreInv'
<1> USE DEF kernelVars, memoryVars, diskVars, fileVars, countVars
<1>0. /\ loads \in Nat /\ now \in Nat /\ until \in Nat /\ sess.now \in Nat /\ Horizon \in Nat
      /\ batch \subseteq K!Event /\ lastSeq \in Nat
      /\ score.load \in Nat /\ score.load <= loads
  BY ScriptAssumption DEF Types, K!TypeOK, Sessions, DiskInv, ScoreInv
<1>a. ASSUME score.past, score.load = loads
      PROVE  /\ log # << >>
             /\ sess.readable => sess.now > Horizon
             /\ Running => phase # "loading" /\ now > Horizon /\ lastSeq >= 1
             /\ score.graded = Graded(Horizon)
  BY <1>a DEF ScoreInv
<1>b. ASSUME UNCHANGED <<log, deltas, opened>>  PROVE Graded(Horizon)' = Graded(Horizon)
  <2>1. Lines(Horizon)' = Lines(Horizon)
    BY <1>b DEF Lines, Line
  <2> QED  BY <1>b, <2>1, GradedSame
<1>c. ASSUME UNCHANGED <<log, deltas, opened, score, loads>>,
             sess' = sess \/ ~sess'.readable \/ (Running /\ sess'.now = now),
             Running' => \/ Running /\ phase' # "loading" /\ now' >= now /\ now' \in Nat
                            /\ lastSeq' = lastSeq
                         \/ Running /\ phase = "loading"
                         \/ sess.readable /\ phase' # "loading" /\ now' = sess.now
                            /\ lastSeq' = LastLogged
      PROVE  ScoreInv'
  <2>1. score'.load \in Nat /\ score'.load <= loads'
    BY <1>0, <1>c
  <2>2. ASSUME score'.past, score'.load = loads'
        PROVE  /\ log' # << >>
               /\ sess'.readable => sess'.now > Horizon
               /\ Running' => phase' # "loading" /\ now' > Horizon /\ lastSeq' >= 1
               /\ score'.graded = Graded(Horizon)'
    <3>0. score.past /\ score.load = loads
      BY <1>c, <2>2
    <3>1. /\ log # << >>
          /\ sess.readable => sess.now > Horizon
          /\ Running => phase # "loading" /\ now > Horizon /\ lastSeq >= 1
          /\ score.graded = Graded(Horizon)
      BY <1>a, <3>0
    <3>2. sess'.readable => sess'.now > Horizon
      BY <1>0, <1>c, <3>1
    <3>3. LastLogged >= 1
      BY <3>1, LogTypes DEF NumberedInv
    <3>4. Running' => phase' # "loading" /\ now' > Horizon /\ lastSeq' >= 1
      BY <1>0, <1>c, <3>1, <3>3
    <3> QED  BY <1>b, <1>c, <3>1, <3>2, <3>4
  <2> QED  BY <2>1, <2>2 DEF ScoreInv
<1>1. CASE Load
  <2>1. loads' = loads + 1 /\ score' = score
    BY <1>1 DEF Load
  <2> QED  BY <1>0, <2>1 DEF ScoreInv
<1>2. CASE LoadScript
  BY <1>2, <1>c DEF LoadScript, K!Schedule, Running
<1>3. CASE OpenRun
  <2>1. phase = "loading" /\ UNCHANGED <<score, loads>>
    BY <1>3 DEF OpenRun
  <2>2. ~(score.past /\ score.load = loads)
    BY <1>a, <2>1 DEF Running
  <2> QED  BY <1>0, <2>1, <2>2 DEF ScoreInv
<1>4. CASE Resume
  <2>1. UNCHANGED <<log, deltas, opened, score, loads, sess>>
    BY <1>4 DEF Resume
  <2>2. sess.readable /\ phase' = "resumed" /\ now' = sess.now /\ lastSeq' = LastLogged
    BY <1>4 DEF Resume
  <2> QED  BY <1>c, <2>1, <2>2
<1>5. ASSUME UNCHANGED <<log, deltas, opened, score, loads, sess, lastSeq>>,
             now' >= now, now' \in Nat,
             Running /\ phase' # "loading"
      PROVE  ScoreInv'
  BY <1>5, <1>c
<1>6. ASSUME NEW k \in Calls, Step(k)  PROVE ScoreInv'
  BY <1>0, <1>5, <1>6 DEF Step, K!Schedule, Running
<1>7. ASSUME NEW d \in Durations, Advance(d)  PROVE ScoreInv'
  BY <1>0, <1>5, <1>7 DEF Advance, K!PopDue, Running
<1>8. CASE Drain
  BY <1>0, <1>5, <1>8 DEF Drain, K!PopDue, Running
<1>9. CASE Exit \/ Drained
  BY <1>0, <1>5, <1>9 DEF Exit, Drained, Running
<1>10. CASE Return
  <2>1. /\ UNCHANGED <<log, deltas, opened, score, loads, sess, lastSeq>>
        /\ now' = (IF until < now THEN now ELSE until)
        /\ Running /\ phase' # "loading"
    BY <1>10 DEF Return, K!Return, Running
  <2>2. now' >= now /\ now' \in Nat
    BY <1>0, <2>1
  <2> QED  BY <1>5, <2>1, <2>2
<1>11. ASSUME NEW e \in batch, ApplyEvent(e)  PROVE ScoreInv'
  <2>1. e \in K!Event /\ e.seq \in Nat /\ e.time \in Nat
    BY <1>0 DEF K!Event
  <2>2. /\ log' = Append(log, e) /\ deltas' = Append(deltas, WrittenBy(e)) /\ lastSeq' = e.seq
        /\ UNCHANGED <<now, opened, score, sess, phase, loads>>
        /\ phase \in {"draining", "advancing"}
    BY <1>11 DEF ApplyEvent, K!Apply
  <2>3. e.time >= now /\ e.seq >= 1
    BY <2>2 DEF OnTimeInv, NumberedInv, Running, Memory
  <2>4. ASSUME score'.past, score'.load = loads'
        PROVE  /\ log' # << >>
               /\ sess'.readable => sess'.now > Horizon
               /\ Running' => phase' # "loading" /\ now' > Horizon /\ lastSeq' >= 1
               /\ score'.graded = Graded(Horizon)'
    <3>0. score.past /\ score.load = loads
      BY <2>2, <2>4
    <3>1. /\ sess.readable => sess.now > Horizon
          /\ now > Horizon
          /\ score.graded = Graded(Horizon)
      BY <1>a, <2>2, <3>0 DEF Running
    <3>2. e.time > Horizon
      BY <1>0, <2>1, <2>3, <3>1
    <3>3. Graded(Horizon)' = Graded(Horizon)
      BY <1>0, <2>1, <2>2, <3>2, GradedAppended
    <3>4. log' # << >>
      <4>1. DOMAIN log' = 1 .. Len(log) + 1 /\ Len(log) \in Nat
        BY <2>1, <2>2, LogGrows
      <4>2. 1 \in DOMAIN log'
        BY <4>1
      <4> QED  BY <4>2
    <3> QED  BY <2>2, <2>3, <3>1, <3>3, <3>4
  <2> QED  BY <1>0, <2>2, <2>4 DEF ScoreInv
<1>12. CASE WriteSnapshot
  <2>1. /\ UNCHANGED <<log, deltas, score, loads, sess, lastSeq, now>>
        /\ opened' = (IF lastSeq = 0 THEN now ELSE opened)
        /\ phase = "snapshot" /\ phase' = "session"
    BY <1>12 DEF WriteSnapshot
  <2>2. CASE score.past /\ score.load = loads
    <3>1. lastSeq >= 1
      BY <1>a, <2>1, <2>2 DEF Running
    <3>2. opened' = opened
      BY <1>0, <2>1, <3>1
    <3> QED  BY <1>0, <1>5, <2>1, <3>2 DEF Running
  <2>3. CASE ~(score.past /\ score.load = loads)
    BY <1>0, <2>1, <2>3 DEF ScoreInv
  <2> QED  BY <2>2, <2>3
<1>13. CASE WriteSession
  <2>1. /\ UNCHANGED <<log, deltas, opened, score, loads>>
        /\ sess' = [now |-> now, seq |-> seq, pending |-> queue, readable |-> TRUE]
        /\ phase = "session" /\ phase' = "idle"
    BY <1>13 DEF WriteSession
  <2>2. sess'.now = now
    BY <2>1
  <2> QED  BY <1>c, <2>1, <2>2 DEF Running
<1>14. CASE RunEval
  <2>1. /\ phase = "idle" /\ UNCHANGED <<log, deltas, opened, loads, sess, phase>>
        /\ score' = [graded |-> Graded(Horizon), past |-> sess.now > Horizon /\ log # << >>,
                     load |-> loads]
    BY <1>14 DEF RunEval
  <2>2. /\ score'.graded = Graded(Horizon) /\ score'.load = loads
        /\ score'.past => sess.now > Horizon /\ log # << >>
    BY <2>1
  <2> QED  BY <1>0, <1>b, <2>1, <2>2 DEF ScoreInv, Running
<1>15. CASE Abort \/ CutSnapshot
  <2>1. UNCHANGED <<log, deltas, opened, score, loads, sess>> /\ phase' = "idle"
    BY <1>15 DEF Abort, CutSnapshot
  <2> QED  BY <1>c, <2>1 DEF Running
<1>16. CASE CutSession
  <2>1. UNCHANGED <<log, deltas, opened, score, loads>> /\ phase' = "idle" /\ ~sess'.readable
    BY <1>16 DEF CutSession, NoSession
  <2> QED  BY <1>c, <2>1 DEF Running
<1>17. CASE UNCHANGED vars
  <2>1. UNCHANGED <<log, deltas, opened, score, loads, sess, lastSeq, now, phase>>
    BY <1>17 DEF vars
  <2> QED  BY <1>0, <1>c, <2>1 DEF Running
<1> QED  BY <1>1, <1>2, <1>3, <1>4, <1>6, <1>7, <1>8, <1>9, <1>10, <1>11, <1>12, <1>13, <1>14,
            <1>15, <1>16, <1>17 DEF Next

-----------------------------------------------------------------------------
(* The inductive invariant of what is read back.                           *)

ReadBackInv ==
  /\ IInv
  /\ Chain
  /\ DiskInv
  /\ KeptInv
  /\ NumberedInv
  /\ OrderInv
  /\ WorldInv
  /\ ScoreInv

(* A directory nothing was run in has it.                                  *)
LEMMA ReadBackInit == Init => ReadBackInv
<1> SUFFICES ASSUME Init  PROVE ReadBackInv
  OBVIOUS
<1>0. /\ K!Init /\ world = << >> /\ armed = FALSE /\ lastSeq = 0 /\ deltas = << >>
      /\ snaps = << >> /\ cut = {} /\ opened = 0 /\ score = NoScore /\ sess = NoSession
      /\ phase = "idle" /\ aborts = 0 /\ loads = 0
  BY DEF Init
<1>1. log = << >> /\ queue = {} /\ batch = {} /\ advancing = FALSE /\ Len(log) = 0
  BY <1>0, EmptySeq DEF K!Init
<1>2. IInv
  BY InvInit
<1>3. Chain /\ KeptInv /\ NumberedInv /\ OrderInv
  BY <1>0, <1>1 DEF Chain, KeptInv, NumberedInv, OrderInv, Running, NoSession, LastLogged
<1>4. DiskInv
  <2>1. world \in Seq(Effect) /\ deltas \in Seq(Seq(Effect)) /\ Len(deltas) = 0
    BY <1>0, EmptySeq
  <2>2. DOMAIN snaps = {}
    BY <1>0
  <2> QED  BY <1>0, <1>1, <2>1, <2>2 DEF DiskInv, NoScore, NoSession
<1>5. WorldInv
  <2>1. deltas \in Seq(Seq(Effect)) /\ \A i \in 1 .. Len(deltas) : deltas[i] = << >>
    BY <1>0, EmptySeq
  <2>2. FlattenSeq(deltas) = << >>
    BY <2>1, FlattenNothing
  <2>3. DOMAIN snaps = {}
    BY <1>0
  <2> QED  BY <1>0, <2>2, <2>3 DEF WorldInv
<1>6. ScoreInv
  BY <1>0 DEF ScoreInv, NoScore
<1> QED  BY <1>2, <1>3, <1>4, <1>5, <1>6 DEF ReadBackInv

(* Every step keeps it.                                                    *)
LEMMA ReadBackStep ==
  ASSUME ReadBackInv, [Next]_vars
  PROVE  ReadBackInv'
<1>1. IInv'
  BY TypesStep, CallStep, DistinctStep, AccountedStep, RepeatStep, OnTimeStep
  DEF ReadBackInv, IInv
<1>2. Chain' /\ DiskInv' /\ KeptInv'
  BY ChainStep, DiskStep, KeptStep DEF ReadBackInv, IInv
<1>3. NumberedInv' /\ OrderInv'
  BY NumberedStep, OrderStep DEF ReadBackInv, IInv
<1>4. WorldInv' /\ ScoreInv'
  BY WorldStep, ScoreStep DEF ReadBackInv, IInv
<1> QED  BY <1>1, <1>2, <1>3, <1>4 DEF ReadBackInv

(* It says what is claimed of types, ...                                   *)
LEMMA TypeClaim ==
  ASSUME Types, DiskInv
  PROVE  TypeOK
<1>1. Len(deltas) = Len(log) /\ \A i \in DOMAIN deltas : deltas[i] \in Seq(Effect)
  <2> DEFINE D == Seq(Effect)
  <2>1. deltas \in Seq(D) /\ Len(deltas) = Len(log)
    BY DEF DiskInv
  <2> HIDE DEF D
  <2>2. \A i \in DOMAIN deltas : deltas[i] \in D
    BY <2>1, ElementOfSeq, LenProperties
  <2> QED  BY <2>1, <2>2 DEF D
<1>2. sess.pending \subseteq K!Event /\ sess.now \in Nat /\ sess.seq \in Nat
  BY ScriptAssumption DEF Types, Sessions
<1> QED  BY <1>1, <1>2 DEF Types, Phases, DiskInv, TypeOK

(* ... and of what is graded.                                              *)
LEMMA GradesClaim ==
  ASSUME ReadBackInv
  PROVE  GradesStand
<1>1. ScoreStands
  BY DEF ReadBackInv, ScoreInv, ScoreStands
<1>2. GraderSeesWhatIsGraded
  BY GraderClaim DEF ReadBackInv, IInv
<1> QED  BY <1>1, <1>2 DEF GradesStand

(* Memory and every file hold what their readers expect, wherever a        *)
(* command was cut and whatever a replay built the world from.             *)
THEOREM TypeCorrect == Spec => []TypeOK
<1>1. ReadBackInv => TypeOK
  BY TypeClaim DEF ReadBackInv, IInv
<1>2. ReadBackInv /\ [Next]_vars => ReadBackInv'
  BY ReadBackStep
<1> QED  BY ReadBackInit, <1>1, <1>2, PTL DEF Spec

(* Between commands of an undisturbed run, the world that resume_run would *)
(* rebuild, from the nearest snapshot and the log, is the world the last   *)
(* command left, when the record written last has the greatest seq.        *)
THEOREM ResumeRebuilds == Spec => []ResumeIsExact
<1>1. ReadBackInv => ResumeIsExact
  BY KeptClaim DEF ReadBackInv, IInv
<1>2. ReadBackInv /\ [Next]_vars => ReadBackInv'
  BY ReadBackStep
<1> QED  BY ReadBackInit, <1>1, <1>2, PTL DEF Spec

(* A score written past the last checkpoint is what the stored run grades  *)
(* to until the run id is loaded again, whatever is stepped, advanced, cut *)
(* short or resumed; and what the grader is shown of a moment, by seq from *)
(* the nearest snapshot, is what is graded, by sim-time from the opening.  *)
THEOREM GradesHold == Spec => []GradesStand
<1>1. ReadBackInv => GradesStand
  BY GradesClaim
<1>2. ReadBackInv /\ [Next]_vars => ReadBackInv'
  BY ReadBackStep
<1> QED  BY ReadBackInit, <1>1, <1>2, PTL DEF Spec
=============================================================================
