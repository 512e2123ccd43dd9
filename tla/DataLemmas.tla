----------------------------- MODULE DataLemmas -----------------------------
(***************************************************************************)
(* Lemmas about the data the models are built from: sequences and what     *)
(* Retain leaves of them, lists without repetition, orders of a set.  They *)
(* are of no part of the system; the proofs of the parts cite them.        *)
(*                                                                         *)
(* The induction theorems of the library take an operator, which the       *)
(* provers cannot instantiate.  Here an induction is over a set that       *)
(* collects what has the property: LeastNatural takes the well-foundedness *)
(* of Nat from the library, and Induction, SequenceInduction and           *)
(* SubsetInduction follow from it.                                         *)
(***************************************************************************)
EXTENDS Subsequences, SequencesExt, FiniteSetTheorems, WellFoundedInduction, TLAPS

(* A set of numbers that is not empty has a least one.                     *)
LEMMA LeastNatural ==
    ASSUME NEW T \in SUBSET Nat, T # {}
    PROVE  \E n \in T : \A m \in T : n <= m
<1>1. PICK n \in T : \A m \in T : <<m, n>> \notin OpToRel(<, Nat)
  BY WFMin, NatLessThanWellFounded, Zenon
<1>2. \A m \in T : ~(m < n)
  BY <1>1, Zenon DEF OpToRel
<1> QED BY <1>2

(* Up to n: what has 0, and the next of each of its members, has all.      *)
LEMMA Induction ==
    ASSUME NEW n \in Nat, NEW G, 0 \in G, \A i \in 0 .. n - 1 : i \in G => i + 1 \in G
    PROVE  \A i \in 0 .. n : i \in G
<1> DEFINE Bad == {i \in 0 .. n : i \notin G}
<1> SUFFICES ASSUME Bad # {} PROVE FALSE
  OBVIOUS
<1>1. Bad \in SUBSET Nat
  OBVIOUS
<1>2. PICK i \in Bad : \A j \in Bad : i <= j
  BY <1>1, LeastNatural
<1>3. i # 0 /\ i - 1 \in 0 .. n - 1 /\ i - 1 \notin Bad
  BY <1>2
<1>4. i - 1 \in G
  BY <1>3
<1> QED BY <1>3, <1>4

\* One step of the recursion
Step(s, T, f, i) == IF i = 0 THEN <<>> ELSE IF s[i] \in T THEN Append(f[i - 1], s[i]) ELSE f[i - 1]

\* The functions that satisfy the recursion, up to n
Unfolds(s, T, S, n) == {f \in [0 .. n -> Seq(S)] : \A i \in 0 .. n : f[i] = Step(s, T, f, i)}

(* There is a function that unfolds the recursion of Retain over s.        *)
LEMMA StepsExist ==
    ASSUME NEW S, NEW s \in Seq(S), NEW T
    PROVE  Unfolds(s, T, S, Len(s)) # {}
<1> DEFINE G == {n \in 0 .. Len(s) : Unfolds(s, T, S, n) # {}}
<1>1. 0 \in G
  <2>1. [i \in 0 .. 0 |-> <<>>] \in Unfolds(s, T, S, 0)
    BY DEF Step, Unfolds
  <2> QED BY <2>1
<1>2. ASSUME NEW n \in 0 .. Len(s) - 1, n \in G
      PROVE  n + 1 \in G
  <2>1. PICK f \in [0 .. n -> Seq(S)] : \A i \in 0 .. n : f[i] = Step(s, T, f, i)
    BY <1>2 DEF Unfolds
  <2> DEFINE last == IF s[n + 1] \in T THEN Append(f[n], s[n + 1]) ELSE f[n]
             g == [i \in 0 .. n + 1 |-> IF i = n + 1 THEN last ELSE f[i]]
  <2>2. last \in Seq(S)
    OBVIOUS
  <2> HIDE DEF last
  <2>3. g \in [0 .. n + 1 -> Seq(S)]
    BY <2>2
  <2>4. \A i \in 0 .. n : g[i] = f[i]
    OBVIOUS
  <2>5. g[n + 1] = last
    OBVIOUS
  <2> HIDE DEF g
  <2>6. ASSUME NEW i \in 0 .. n + 1
        PROVE  g[i] = Step(s, T, g, i)
    <3>1. CASE i = n + 1
      BY <3>1, <2>4, <2>5 DEF Step, last
    <3>2. CASE i \in 0 .. n
      <4>1. i # 0 => i - 1 \in 0 .. n
        BY <3>2
      <4>2. Step(s, T, g, i) = Step(s, T, f, i)
        BY <4>1, <2>4 DEF Step
      <4> QED BY <3>2, <4>2, <2>4, <2>1
    <3> QED BY <3>1, <3>2
  <2>7. g \in Unfolds(s, T, S, n + 1)
    BY <2>3, <2>6 DEF Unfolds
  <2> QED BY <2>7
<1> HIDE DEF G
<1>3. Len(s) \in Nat
  OBVIOUS
<1>4. \A n \in 0 .. Len(s) : n \in G
  BY <1>1, <1>2, <1>3, Induction
<1> QED BY <1>3, <1>4 DEF G

(* Retain is the last value of such a function.                            *)
LEMMA RetainSteps ==
    ASSUME NEW S, NEW s \in Seq(S), NEW T
    PROVE  \E f \in Unfolds(s, T, S, Len(s)) : Retain(s, T) = f[Len(s)]
<1> DEFINE Recursion(f) == f = [i \in 0 .. Len(s) |-> Step(s, T, f, i)]
           chosen == CHOOSE f : Recursion(f)
<1>1. PICK f \in Unfolds(s, T, S, Len(s)) : TRUE
  BY StepsExist
<1>2. f = [i \in 0 .. Len(s) |-> f[i]] /\ \A i \in 0 .. Len(s) : f[i] = Step(s, T, f, i)
  BY <1>1 DEF Unfolds
<1>3. Recursion(f)
  BY <1>2
<1>4. Recursion(chosen)
  BY <1>3
<1>5. Retain(s, T) = chosen[Len(s)]
  BY DEF Retain, Step
<1> HIDE DEF chosen
<1>6. \A i \in 0 .. Len(s) : chosen[i] = Step(s, T, chosen, i)
  BY <1>4
<1> DEFINE G == {i \in 0 .. Len(s) : chosen[i] \in Seq(S)}
<1>7. Len(s) \in Nat /\ 0 \in G
  <2>1. Len(s) \in Nat /\ 0 \in 0 .. Len(s)
    OBVIOUS
  <2>2. chosen[0] = <<>>
    BY <2>1, <1>6 DEF Step
  <2>3. <<>> \in Seq(S)
    OBVIOUS
  <2> QED BY <2>1, <2>2, <2>3
<1>8. ASSUME NEW i \in 0 .. Len(s) - 1, i \in G
      PROVE  i + 1 \in G
  <2>1. i + 1 \in 1 .. Len(s) /\ (i + 1) - 1 = i
    OBVIOUS
  <2>2. chosen[i + 1] = IF s[i + 1] \in T THEN Append(chosen[i], s[i + 1]) ELSE chosen[i]
    BY <1>6, <2>1 DEF Step
  <2>3. s[i + 1] \in S /\ chosen[i] \in Seq(S)
    BY <1>8, <2>1
  <2>4. chosen[i + 1] \in Seq(S)
    BY <2>2, <2>3
  <2> QED BY <2>1, <2>4
<1> HIDE DEF G
<1>9. \A i \in 0 .. Len(s) : i \in G
  BY <1>7, <1>8, Induction
<1>10. chosen \in [0 .. Len(s) -> Seq(S)]
  BY <1>4, <1>9 DEF G
<1>11. chosen \in Unfolds(s, T, S, Len(s))
  BY <1>6, <1>10 DEF Unfolds
<1> QED BY <1>5, <1>11

\* g lists the positions in s of the elements of w.
Embeds(g, w, s, T, n) ==
    /\ DOMAIN g = 1 .. Len(w)
    /\ \A j \in 1 .. Len(w) : g[j] \in 1 .. n /\ w[j] = s[g[j]] /\ s[g[j]] \in T
    /\ \A j, k \in 1 .. Len(w) : j < k => g[j] < g[k]
    /\ \A i \in 1 .. n : s[i] \in T => \E j \in 1 .. Len(w) : g[j] = i

(* What is left of s is in s, at growing places, and nothing that is in T  *)
(* is left out.                                                            *)
LEMMA RetainEmbeds ==
    ASSUME NEW S, NEW s \in Seq(S), NEW T
    PROVE  /\ Retain(s, T) \in Seq(S)
           /\ \E g : Embeds(g, Retain(s, T), s, T, Len(s))
<1>1. PICK f \in Unfolds(s, T, S, Len(s)) : Retain(s, T) = f[Len(s)]
  BY RetainSteps
<1>2. f \in [0 .. Len(s) -> Seq(S)] /\ \A i \in 0 .. Len(s) : f[i] = Step(s, T, f, i)
  BY DEF Unfolds
<1>3. Len(s) \in Nat
  OBVIOUS
<1> DEFINE G == {n \in 0 .. Len(s) : \E g : Embeds(g, f[n], s, T, n)}
<1>4. 0 \in G
  <2>1. f[0] = <<>>
    BY <1>2, <1>3 DEF Step
  <2>2. Embeds(<<>>, <<>>, s, T, 0)
    BY DEF Embeds
  <2> QED BY <2>1, <2>2
<1>5. ASSUME NEW n \in 0 .. Len(s) - 1, n \in G
      PROVE  n + 1 \in G
  <2>1. PICK g : Embeds(g, f[n], s, T, n)
    BY <1>5
  <2>0. n + 1 \in 1 .. Len(s) /\ (n + 1) - 1 = n
    OBVIOUS
  <2>2. f[n + 1] = IF s[n + 1] \in T THEN Append(f[n], s[n + 1]) ELSE f[n]
    <3>1. f[n + 1] = Step(s, T, f, n + 1)
      BY <1>2, <2>0
    <3>2. Step(s, T, f, n + 1) = IF s[n + 1] \in T THEN Append(f[n], s[n + 1]) ELSE f[n]
      BY <2>0 DEF Step
    <3> QED BY <3>1, <3>2
  <2>3. CASE s[n + 1] \notin T
    <3>1. Embeds(g, f[n], s, T, n + 1)
      BY <2>1, <2>3 DEF Embeds
    <3> QED BY <3>1, <2>2, <2>3
  <2>4. CASE s[n + 1] \in T
    <3> DEFINE w == f[n]
               v == Append(w, s[n + 1])
               h == [j \in 1 .. Len(v) |-> IF j = Len(v) THEN n + 1 ELSE g[j]]
    <3>1. w \in Seq(S) /\ s[n + 1] \in S
      BY <1>2
    <3>2. v \in Seq(S) /\ Len(v) = Len(w) + 1 /\ v[Len(v)] = s[n + 1] /\ \A j \in 1 .. Len(w) : v[j] = w[j]
      BY <3>1
    <3>3. Len(w) \in Nat
      BY <3>1
    <3> HIDE DEF v, w
    <3>4. \A j \in 1 .. Len(w) : h[j] = g[j]
      BY <3>2, <3>3
    <3>5. h[Len(v)] = n + 1 /\ DOMAIN h = 1 .. Len(v)
      BY <3>2, <3>3
    <3> HIDE DEF h
    <3>6. Embeds(g, w, s, T, n)
      BY <2>1 DEF w
    <3>7. Embeds(h, v, s, T, n + 1)
      <4>1. \A j \in 1 .. Len(v) : h[j] \in 1 .. n + 1 /\ v[j] = s[h[j]] /\ s[h[j]] \in T
        <5>1. ASSUME NEW j \in 1 .. Len(w)
              PROVE  h[j] \in 1 .. n + 1 /\ v[j] = s[h[j]] /\ s[h[j]] \in T
          <6>1. h[j] = g[j] /\ v[j] = w[j] /\ g[j] \in 1 .. n /\ w[j] = s[g[j]] /\ s[g[j]] \in T
            BY <3>2, <3>4, <3>6 DEF Embeds
          <6> QED BY <6>1
        <5>2. h[Len(v)] = n + 1 /\ v[Len(v)] = s[n + 1]
          BY <3>2, <3>5
        <5> QED BY <5>1, <5>2, <3>2, <3>3, <2>4
      <4>2. ASSUME NEW j \in 1 .. Len(v), NEW k \in 1 .. Len(v), j < k
            PROVE  h[j] < h[k]
        <5>1. j \in 1 .. Len(w) /\ h[j] = g[j] /\ g[j] \in 1 .. n
          BY <4>2, <3>2, <3>3, <3>4, <3>6 DEF Embeds
        <5>2. CASE k = Len(v)
          BY <5>1, <5>2, <3>5
        <5>3. CASE k # Len(v)
          <6>1. k \in 1 .. Len(w) /\ h[k] = g[k]
            BY <5>3, <3>2, <3>3, <3>4
          <6> QED BY <6>1, <5>1, <4>2, <3>6 DEF Embeds
        <5> QED BY <5>2, <5>3
      <4>3. \A i \in 1 .. n + 1 : s[i] \in T => \E j \in 1 .. Len(v) : h[j] = i
        <5>1. ASSUME NEW i \in 1 .. n, s[i] \in T
              PROVE  \E j \in 1 .. Len(v) : h[j] = i
          <6>1. PICK j \in 1 .. Len(w) : g[j] = i
            BY <5>1, <3>6 DEF Embeds
          <6> QED BY <6>1, <3>2, <3>3, <3>4
        <5>2. Len(v) \in 1 .. Len(v)
          BY <3>2, <3>3
        <5> QED BY <5>1, <5>2, <3>5
      <4> QED BY <4>1, <4>2, <4>3, <3>5 DEF Embeds
    <3>8. f[n + 1] = v
      BY <2>2, <2>4 DEF v, w
    <3> QED BY <3>7, <3>8
  <2> QED BY <2>3, <2>4
<1> HIDE DEF G
<1>6. Len(s) \in G
  <2>1. \A i \in 0 .. Len(s) : i \in G
    BY <1>3, <1>4, <1>5, Induction
  <2> QED BY <2>1, <1>3
<1> QED BY <1>1, <1>2, <1>3, <1>6 DEF G

(* What the result contains. *)
LEMMA RetainContains ==
    ASSUME NEW S, NEW s \in Seq(S), NEW T
    PROVE  /\ Retain(s, T) \in Seq(S)
           /\ \A e : Contains(Retain(s, T), e) <=> Contains(s, e) /\ e \in T
<1> DEFINE w == Retain(s, T)
<1>1. w \in Seq(S)
  BY RetainEmbeds
<1>2. PICK g : Embeds(g, w, s, T, Len(s))
  BY RetainEmbeds
<1> HIDE DEF w
<1>3. ASSUME NEW e, Contains(w, e)
      PROVE  Contains(s, e) /\ e \in T
  BY <1>2, <1>3 DEF Embeds, Contains
<1>4. ASSUME NEW e, Contains(s, e), e \in T
      PROVE  Contains(w, e)
  <2>1. PICK i \in 1 .. Len(s) : s[i] = e
    BY <1>4 DEF Contains
  <2>2. PICK j \in 1 .. Len(w) : g[j] = i
    BY <1>2, <1>4, <2>1 DEF Embeds
  <2>3. w[j] = e
    BY <1>2, <2>1, <2>2 DEF Embeds
  <2> QED BY <2>3 DEF Contains
<1> QED BY <1>1, <1>3, <1>4 DEF w

(* What is in s once is in the result once. *)
LEMMA RetainInjective ==
    ASSUME NEW S, NEW s \in Seq(S), NEW T, IsInjective(s)
    PROVE  IsInjective(Retain(s, T))
<1> DEFINE w == Retain(s, T)
<1>1. w \in Seq(S)
  BY RetainEmbeds
<1>2. PICK g : Embeds(g, w, s, T, Len(s))
  BY RetainEmbeds
<1> HIDE DEF w
<1>3. DOMAIN w = 1 .. Len(w) /\ Len(w) \in Nat /\ DOMAIN s = 1 .. Len(s)
  BY <1>1
<1>4. ASSUME NEW j \in 1 .. Len(w), NEW k \in 1 .. Len(w), w[j] = w[k]
      PROVE  j = k
  <2>1. g[j] \in 1 .. Len(s) /\ g[k] \in 1 .. Len(s) /\ s[g[j]] = s[g[k]]
    BY <1>2, <1>4 DEF Embeds
  <2>2. g[j] = g[k]
    BY <2>1, <1>3 DEF IsInjective
  <2>3. ~(j < k) /\ ~(k < j)
    BY <2>1, <2>2, <1>2 DEF Embeds
  <2> QED BY <2>3
<1>5. IsInjective(w)
  BY <1>3, <1>4 DEF IsInjective
<1> QED BY <1>5 DEF w
-----------------------------------------------------------------------------
Prefix(s, n) == SubSeq(s, 1, n)

(* A sequence is made of its prefixes, one element after the other.        *)
LEMMA PrefixFacts ==
    ASSUME NEW S, NEW s \in Seq(S)
    PROVE  /\ Len(s) \in Nat /\ Prefix(s, 0) = <<>> /\ Prefix(s, Len(s)) = s
           /\ \A n \in 0 .. Len(s) - 1 :
                /\ Prefix(s, n) \in Seq(S) /\ s[n + 1] \in S
                /\ Prefix(s, n + 1) = Append(Prefix(s, n), s[n + 1])
BY DEF Prefix

(* A set that has the empty sequence, and every sequence that is one       *)
(* element longer than one it has, has all of them.                        *)
LEMMA SequenceInduction ==
    ASSUME NEW S, NEW G, <<>> \in G, \A s \in Seq(S), e \in S : s \in G => Append(s, e) \in G
    PROVE  Seq(S) \subseteq G
<1> SUFFICES ASSUME NEW s \in Seq(S) PROVE s \in G
  OBVIOUS
<1> DEFINE H == {n \in 0 .. Len(s) : Prefix(s, n) \in G}
<1>1. Len(s) \in Nat /\ 0 \in H
  BY PrefixFacts
<1>2. ASSUME NEW n \in 0 .. Len(s) - 1, n \in H
      PROVE  n + 1 \in H
  <2>1. n + 1 \in 1 .. Len(s)
    OBVIOUS
  <2>2. Prefix(s, n) \in Seq(S) /\ s[n + 1] \in S /\ Prefix(s, n + 1) = Append(Prefix(s, n), s[n + 1])
    BY PrefixFacts
  <2>3. Append(Prefix(s, n), s[n + 1]) \in G
    BY <1>2, <2>2
  <2>4. Prefix(s, n + 1) \in G
    BY <2>2, <2>3, Zenon
  <2>5. n + 1 \in 0 .. Len(s)
    BY <2>1
  <2> QED BY <2>4, <2>5, Zenon
<1> HIDE DEF H
<1>3. Len(s) \in H
  <2>1. \A n \in 0 .. Len(s) : n \in H
    BY <1>1, <1>2, Induction
  <2> QED BY <2>1, <1>1
<1>4. Prefix(s, Len(s)) = s
  BY PrefixFacts
<1> QED BY <1>3, <1>4 DEF H

(* There is only one such function, up to its last value.                  *)
LEMMA RetainUnique ==
    ASSUME NEW S, NEW s \in Seq(S), NEW T, NEW f \in Unfolds(s, T, S, Len(s))
    PROVE  Retain(s, T) = f[Len(s)]
<1>1. PICK g \in Unfolds(s, T, S, Len(s)) : Retain(s, T) = g[Len(s)]
  BY RetainSteps
<1>2. Len(s) \in Nat
  OBVIOUS
<1>3. /\ \A i \in 0 .. Len(s) : f[i] = Step(s, T, f, i)
      /\ \A i \in 0 .. Len(s) : g[i] = Step(s, T, g, i)
  BY DEF Unfolds
<1> DEFINE G == {i \in 0 .. Len(s) : f[i] = g[i]}
<1>4. 0 \in G
  BY <1>2, <1>3 DEF Step
<1>5. ASSUME NEW i \in 0 .. Len(s) - 1, i \in G
      PROVE  i + 1 \in G
  <2>1. i + 1 \in 1 .. Len(s) /\ (i + 1) - 1 = i
    OBVIOUS
  <2>2. Step(s, T, f, i + 1) = Step(s, T, g, i + 1)
    BY <1>5, <2>1 DEF Step
  <2> QED BY <2>1, <2>2, <1>3
<1> HIDE DEF G
<1>6. \A i \in 0 .. Len(s) : i \in G
  BY <1>2, <1>4, <1>5, Induction
<1> QED BY <1>1, <1>2, <1>6 DEF G

(* Nothing is left of nothing.                                             *)
LEMMA RetainEmpty ==
    ASSUME NEW T
    PROVE  Retain(<<>>, T) = <<>>
<1>1. PICK f : f = [i \in 0 .. 0 |-> <<>>]
  OBVIOUS
<1>2. <<>> \in Seq({}) /\ Len(<<>>) = 0
  OBVIOUS
<1>3. f \in Unfolds(<<>>, T, {}, Len(<<>>))
  BY <1>1, <1>2 DEF Step, Unfolds
<1>4. f[Len(<<>>)] = <<>>
  BY <1>1, <1>2
<1>5. Retain(<<>>, T) = f[Len(<<>>)]
  BY <1>2, <1>3, RetainUnique, Zenon
<1> QED BY <1>4, <1>5, Zenon

(* How the result grows with the sequence.                                 *)
LEMMA RetainAppend ==
    ASSUME NEW S, NEW s \in Seq(S), NEW T, NEW e \in S
    PROVE  Retain(Append(s, e), T) = IF e \in T THEN Append(Retain(s, T), e) ELSE Retain(s, T)
<1> DEFINE t == Append(s, e)
<1>1. t \in Seq(S) /\ Len(t) = Len(s) + 1 /\ t[Len(s) + 1] = e /\ (\A i \in 1 .. Len(s) : t[i] = s[i])
      /\ Len(s) \in Nat
  OBVIOUS
<1> HIDE DEF t
<1>2. PICK f \in Unfolds(t, T, S, Len(t)) : Retain(t, T) = f[Len(t)]
  BY <1>1, RetainSteps
<1>3. f \in [0 .. Len(t) -> Seq(S)] /\ \A i \in 0 .. Len(t) : f[i] = Step(t, T, f, i)
  BY DEF Unfolds
<1> DEFINE g == [i \in 0 .. Len(s) |-> f[i]]
<1>4. g \in Unfolds(s, T, S, Len(s))
  <2>1. g \in [0 .. Len(s) -> Seq(S)]
    BY <1>1, <1>3
  <2>2. ASSUME NEW i \in 0 .. Len(s)
        PROVE  g[i] = Step(s, T, g, i)
    <3>1. i \in 0 .. Len(t) /\ g[i] = Step(t, T, f, i)
      BY <1>1, <1>3
    <3>2. Step(t, T, f, i) = Step(s, T, g, i)
      <4>1. CASE i = 0
        BY <4>1 DEF Step
      <4>2. CASE i # 0
        <5>1. i \in 1 .. Len(s) /\ i - 1 \in 0 .. Len(s) /\ t[i] = s[i]
          BY <4>2, <1>1
        <5> QED BY <5>1 DEF Step
      <4> QED BY <4>1, <4>2
    <3> QED BY <3>1, <3>2
  <2> HIDE DEF g
  <2> QED BY <2>1, <2>2 DEF Unfolds
<1>5. Retain(s, T) = f[Len(s)]
  <2>1. Retain(s, T) = g[Len(s)]
    BY <1>4, RetainUnique
  <2> QED BY <2>1, <1>1
<1>6. f[Len(t)] = IF e \in T THEN Append(f[Len(s)], e) ELSE f[Len(s)]
  <2>1. Len(t) \in 0 .. Len(t) /\ Len(t) # 0 /\ Len(t) - 1 = Len(s) /\ t[Len(t)] = e
    BY <1>1
  <2>2. f[Len(t)] = Step(t, T, f, Len(t))
    BY <2>1, <1>3
  <2> QED BY <2>1, <2>2 DEF Step
<1> QED BY <1>2, <1>5, <1>6 DEF t

(* Only what the sequence has matters of the set.                          *)
LEMMA RetainAgree ==
    ASSUME NEW S, NEW s \in Seq(S), NEW T, NEW U, \A i \in 1 .. Len(s) : s[i] \in T <=> s[i] \in U
    PROVE  Retain(s, T) = Retain(s, U)
<1>1. PICK f \in Unfolds(s, T, S, Len(s)) : Retain(s, T) = f[Len(s)]
  BY RetainSteps
<1>2. f \in [0 .. Len(s) -> Seq(S)] /\ \A i \in 0 .. Len(s) : f[i] = Step(s, T, f, i)
  BY DEF Unfolds
<1>3. \A i \in 0 .. Len(s) : Step(s, T, f, i) = Step(s, U, f, i)
  <2>1. \A i \in 0 .. Len(s) : i = 0 \/ i \in 1 .. Len(s)
    OBVIOUS
  <2> QED BY <2>1 DEF Step
<1>4. f \in Unfolds(s, U, S, Len(s))
  BY <1>2, <1>3 DEF Unfolds
<1> QED BY <1>1, <1>4, RetainUnique

(* It is taken of the parts of a sequence, and in two steps or in one.     *)
LEMMA RetainConcat ==
    ASSUME NEW S, NEW s \in Seq(S), NEW T
    PROVE  \A t \in Seq(S) : Retain(s \o t, T) = Retain(s, T) \o Retain(t, T)
<1> DEFINE G == {t \in Seq(S) : Retain(s \o t, T) = Retain(s, T) \o Retain(t, T)}
<1>1. Retain(s, T) \in Seq(S)
  BY RetainContains
<1>2. <<>> \in G
  <2>1. Retain(<<>>, T) = <<>> /\ <<>> \in Seq(S)
    BY RetainEmpty
  <2>2. s \o <<>> = s /\ Retain(s, T) \o <<>> = Retain(s, T)
    BY <1>1
  <2> QED BY <2>1, <2>2
<1>3. ASSUME NEW t \in Seq(S), NEW e \in S, t \in G
      PROVE  Append(t, e) \in G
  <2>1. s \o Append(t, e) = Append(s \o t, e) /\ s \o t \in Seq(S) /\ Append(t, e) \in Seq(S)
    OBVIOUS
  <2>2. Retain(t, T) \in Seq(S)
    BY RetainContains
  <2>3. Retain(s, T) \o Append(Retain(t, T), e) = Append(Retain(s, T) \o Retain(t, T), e)
    BY <1>1, <2>2
  <2>4. Retain(Append(t, e), T) = IF e \in T THEN Append(Retain(t, T), e) ELSE Retain(t, T)
    BY RetainAppend
  <2>5. \A u \in Seq(S) : Retain(Append(u, e), T) = IF e \in T THEN Append(Retain(u, T), e) ELSE Retain(u, T)
    BY RetainAppend
  <2> QED BY <1>3, <2>1, <2>3, <2>4, <2>5
<1> HIDE DEF G
<1>4. Seq(S) \subseteq G
  BY <1>2, <1>3, SequenceInduction
<1> QED BY <1>4 DEF G

(* To retain twice is to retain what is in both sets.                      *)
LEMMA RetainRetain ==
    ASSUME NEW S, NEW T, NEW U
    PROVE  \A s \in Seq(S) : Retain(Retain(s, T), U) = Retain(s, T \cap U)
<1> DEFINE G == {s \in Seq(S) : Retain(Retain(s, T), U) = Retain(s, T \cap U)}
<1>1. <<>> \in Seq(S)
  OBVIOUS
<1>3. <<>> \in G
  BY <1>1, RetainEmpty
<1>4. ASSUME NEW s \in Seq(S), NEW e \in S, s \in G
      PROVE  Append(s, e) \in G
  <2>1. Retain(s, T) \in Seq(S) /\ Append(s, e) \in Seq(S)
    BY RetainContains
  <2>2. Retain(Append(s, e), T) = IF e \in T THEN Append(Retain(s, T), e) ELSE Retain(s, T)
    BY RetainAppend
  <2>3. Retain(Append(s, e), T \cap U) = IF e \in T \cap U THEN Append(Retain(s, T \cap U), e) ELSE Retain(s, T \cap U)
    BY RetainAppend
  <2>4. Retain(Append(Retain(s, T), e), U)
          = IF e \in U THEN Append(Retain(Retain(s, T), U), e) ELSE Retain(Retain(s, T), U)
    BY <2>1, RetainAppend
  <2>5. Retain(Retain(Append(s, e), T), U) = Retain(Append(s, e), T \cap U)
    <3>1. CASE e \in T /\ e \in U
      BY <3>1, <1>4, <2>2, <2>3, <2>4
    <3>2. CASE e \in T /\ e \notin U
      BY <3>2, <1>4, <2>2, <2>3, <2>4
    <3>3. CASE e \notin T
      BY <3>3, <1>4, <2>2, <2>3
    <3> QED BY <3>1, <3>2, <3>3
  <2> QED BY <2>1, <2>5
<1> HIDE DEF G
<1>5. Seq(S) \subseteq G
  BY <1>3, <1>4, SequenceInduction
<1> QED BY <1>5 DEF G

(* It is no longer than the sequence.                                      *)
LEMMA RetainShorter ==
    ASSUME NEW S, NEW T
    PROVE  \A s \in Seq(S) : Len(Retain(s, T)) \in Nat /\ Len(Retain(s, T)) <= Len(s)
<1> DEFINE G == {s \in Seq(S) : Len(Retain(s, T)) <= Len(s)}
<1>1. \A s \in Seq(S) : Retain(s, T) \in Seq(S) /\ Len(Retain(s, T)) \in Nat /\ Len(s) \in Nat
  BY RetainContains
<1>2. <<>> \in G
  <2>1. <<>> \in Seq(S)
    OBVIOUS
  <2>2. Retain(<<>>, T) = <<>>
    BY RetainEmpty
  <2> QED BY <2>1, <2>2
<1>3. ASSUME NEW s \in Seq(S), NEW e \in S, s \in G
      PROVE  Append(s, e) \in G
  <2>1. Retain(Append(s, e), T) = IF e \in T THEN Append(Retain(s, T), e) ELSE Retain(s, T)
    BY RetainAppend
  <2>2. Len(Append(s, e)) = Len(s) + 1 /\ Append(s, e) \in Seq(S)
        /\ Len(Append(Retain(s, T), e)) = Len(Retain(s, T)) + 1
    BY <1>1
  <2> QED BY <1>1, <1>3, <2>1, <2>2
<1> HIDE DEF G
<1>4. Seq(S) \subseteq G
  BY <1>2, <1>3, SequenceInduction
<1> QED BY <1>1, <1>4 DEF G

(* Of a sequence that has nothing of the set, nothing is kept.             *)
LEMMA RetainNothing ==
    ASSUME NEW S, NEW s \in Seq(S), NEW T, \A i \in 1 .. Len(s) : s[i] \notin T
    PROVE  Retain(s, T) = <<>>
<1> DEFINE w == Retain(s, T)
<1>1. w \in Seq(S) /\ \A e : Contains(w, e) => Contains(s, e) /\ e \in T
  BY RetainContains
<1>2. \A e : Contains(s, e) => e \notin T
  BY DEF Contains
<1> HIDE DEF w
<1>3. \A e : ~Contains(w, e)
  BY <1>1, <1>2
<1>4. w = <<>>
  <2>1. Len(w) \in Nat /\ ~(1 \in 1 .. Len(w))
    BY <1>1, <1>3 DEF Contains
  <2> QED BY <2>1, <1>1
<1> QED BY <1>4 DEF w
-----------------------------------------------------------------------------
(* A list contains its head and what its tail contains, once if it has no  *)
(* repetition.                                                             *)
LEMMA TailContains ==
    ASSUME NEW S, NEW s \in Seq(S), s # <<>>
    PROVE  /\ Tail(s) \in Seq(S) /\ Head(s) \in S
           /\ Contains(s, Head(s))
           /\ \A d : Contains(s, d) <=> d = Head(s) \/ Contains(Tail(s), d)
           /\ \A d : Contains(Tail(s), d) <=> \E i \in 2 .. Len(s) : s[i] = d
           /\ IsInjective(s) => IsInjective(Tail(s)) /\ ~Contains(Tail(s), Head(s))
<1>1. Len(s) \in Nat /\ Len(s) >= 1 /\ Head(s) = s[1] /\ DOMAIN s = 1 .. Len(s)
  OBVIOUS
<1>2. Tail(s) \in Seq(S) /\ Len(Tail(s)) = Len(s) - 1 /\ \A i \in 1 .. Len(s) - 1 : Tail(s)[i] = s[i + 1]
  OBVIOUS
<1>3. DOMAIN Tail(s) = 1 .. Len(s) - 1
  BY <1>2
<1>4. ASSUME NEW d
      PROVE  Contains(Tail(s), d) <=> \E i \in 2 .. Len(s) : s[i] = d
  <2>1. ASSUME NEW i \in 1 .. Len(s) - 1, Tail(s)[i] = d
        PROVE  \E k \in 2 .. Len(s) : s[k] = d
    <3>1. i + 1 \in 2 .. Len(s) /\ s[i + 1] = d
      BY <2>1, <1>1, <1>2
    <3> QED BY <3>1
  <2>2. ASSUME NEW k \in 2 .. Len(s), s[k] = d
        PROVE  \E i \in 1 .. Len(s) - 1 : Tail(s)[i] = d
    <3>1. k - 1 \in 1 .. Len(s) - 1 /\ Tail(s)[k - 1] = d
      BY <2>2, <1>1, <1>2
    <3> QED BY <3>1
  <2> QED BY <2>1, <2>2, <1>2 DEF Contains
<1>5. ASSUME NEW d
      PROVE  Contains(s, d) <=> d = s[1] \/ \E i \in 2 .. Len(s) : s[i] = d
  BY <1>1 DEF Contains
<1>6. ASSUME IsInjective(s)
      PROVE  IsInjective(Tail(s)) /\ ~Contains(Tail(s), Head(s))
  <2>1. \A i, k \in 1 .. Len(s) : s[i] = s[k] => i = k
    BY <1>1, <1>6 DEF IsInjective
  <2>2. ASSUME NEW i \in 1 .. Len(s) - 1, NEW k \in 1 .. Len(s) - 1, Tail(s)[i] = Tail(s)[k]
        PROVE  i = k
    <3>1. s[i + 1] = s[k + 1] /\ i + 1 \in 1 .. Len(s) /\ k + 1 \in 1 .. Len(s)
      BY <2>2, <1>1, <1>2
    <3> QED BY <3>1, <2>1
  <2>3. IsInjective(Tail(s))
    BY <2>2, <1>3 DEF IsInjective
  <2>4. ~Contains(Tail(s), s[1])
    BY <1>4, <2>1, <1>1
  <2> QED BY <2>3, <2>4, <1>1
<1> QED BY <1>1, <1>2, <1>4, <1>5, <1>6

(* What an Append adds.                                                    *)
LEMMA AppendContains ==
    ASSUME NEW S, NEW s \in Seq(S), NEW e \in S
    PROVE  /\ Append(s, e) \in Seq(S)
           /\ \A d : Contains(Append(s, e), d) <=> d = e \/ Contains(s, d)
           /\ IsInjective(s) /\ ~Contains(s, e) => IsInjective(Append(s, e))
<1> DEFINE t == Append(s, e)
<1>1. t \in Seq(S) /\ Len(t) = Len(s) + 1 /\ t[Len(s) + 1] = e /\ \A i \in 1 .. Len(s) : t[i] = s[i]
  OBVIOUS
<1>2. Len(s) \in Nat /\ DOMAIN s = 1 .. Len(s) /\ DOMAIN t = 1 .. Len(s) + 1
  BY <1>1
<1> HIDE DEF t
<1>3. \A d : Contains(t, d) <=> d = e \/ Contains(s, d)
  BY <1>1, <1>2 DEF Contains
<1>4. ASSUME IsInjective(s), ~Contains(s, e)
      PROVE  IsInjective(t)
  <2> SUFFICES ASSUME NEW i \in 1 .. Len(s) + 1, NEW k \in 1 .. Len(s) + 1, t[i] = t[k]
               PROVE  i = k
    BY <1>2 DEF IsInjective
  <2>1. \A j \in 1 .. Len(s) : s[j] # e
    BY <1>4 DEF Contains
  <2>2. CASE i = Len(s) + 1 \/ k = Len(s) + 1
    BY <2>1, <2>2, <1>1, <1>2
  <2>3. CASE i # Len(s) + 1 /\ k # Len(s) + 1
    <3>1. i \in 1 .. Len(s) /\ k \in 1 .. Len(s) /\ s[i] = s[k]
      BY <2>3, <1>1, <1>2
    <3> QED BY <3>1, <1>2, <1>4 DEF IsInjective
  <2> QED BY <2>2, <2>3
<1> QED BY <1>1, <1>3, <1>4 DEF t

(* What a concatenation contains, and when it has no repetition.           *)
LEMMA ConcatContains ==
    ASSUME NEW S, NEW s \in Seq(S), NEW t \in Seq(S)
    PROVE  /\ s \o t \in Seq(S)
           /\ \A d : Contains(s \o t, d) <=> Contains(s, d) \/ Contains(t, d)
           /\ IsInjective(s) /\ IsInjective(t) /\ (\A d \in S : ~(Contains(s, d) /\ Contains(t, d)))
                => IsInjective(s \o t)
<1> DEFINE u == s \o t
<1>1. u \in Seq(S) /\ Len(u) = Len(s) + Len(t) /\ Len(s) \in Nat /\ Len(t) \in Nat
  OBVIOUS
<1>2. \A i \in 1 .. Len(s) : u[i] = s[i]
  OBVIOUS
<1>3. \A i \in 1 .. Len(t) : u[Len(s) + i] = t[i]
  OBVIOUS
<1>4. DOMAIN u = 1 .. Len(s) + Len(t) /\ DOMAIN s = 1 .. Len(s) /\ DOMAIN t = 1 .. Len(t)
  BY <1>1
<1> HIDE DEF u
<1>5. ASSUME NEW k \in 1 .. Len(u), k \notin 1 .. Len(s)
      PROVE  k - Len(s) \in 1 .. Len(t) /\ u[k] = t[k - Len(s)]
  <2>1. k - Len(s) \in 1 .. Len(t) /\ Len(s) + (k - Len(s)) = k
    BY <1>1, <1>5
  <2> QED BY <2>1, <1>3
<1>6. ASSUME NEW d
      PROVE  Contains(u, d) <=> Contains(s, d) \/ Contains(t, d)
  <2>1. Contains(u, d) => Contains(s, d) \/ Contains(t, d)
    BY <1>2, <1>5 DEF Contains
  <2>2. Contains(s, d) => Contains(u, d)
    BY <1>1, <1>2 DEF Contains
  <2>3. ASSUME NEW i \in 1 .. Len(t), t[i] = d
        PROVE  \E k \in 1 .. Len(u) : u[k] = d
    <3>1. Len(s) + i \in 1 .. Len(u) /\ u[Len(s) + i] = d
      BY <1>1, <1>3, <2>3
    <3> QED BY <3>1
  <2> QED BY <2>1, <2>2, <2>3 DEF Contains
<1>7. ASSUME IsInjective(s), IsInjective(t), \A d \in S : ~(Contains(s, d) /\ Contains(t, d))
      PROVE  IsInjective(u)
  <2> SUFFICES ASSUME NEW i \in 1 .. Len(u), NEW k \in 1 .. Len(u), u[i] = u[k]
               PROVE  i = k
    BY <1>1, <1>4 DEF IsInjective
  <2>1. ASSUME NEW a \in 1 .. Len(s), NEW b \in 1 .. Len(t)
        PROVE  s[a] # t[b]
    <3>1. s[a] \in S /\ Contains(s, s[a]) /\ Contains(t, t[b])
      BY DEF Contains
    <3> QED BY <3>1, <1>7
  <2>2. CASE i \in 1 .. Len(s) /\ k \in 1 .. Len(s)
    BY <2>2, <1>2, <1>4, <1>7 DEF IsInjective
  <2>3. CASE i \notin 1 .. Len(s) /\ k \notin 1 .. Len(s)
    <3>1. i - Len(s) \in 1 .. Len(t) /\ k - Len(s) \in 1 .. Len(t) /\ t[i - Len(s)] = t[k - Len(s)]
      BY <2>3, <1>5
    <3>2. i - Len(s) = k - Len(s)
      BY <3>1, <1>4, <1>7 DEF IsInjective
    <3> QED BY <3>2, <1>1
  <2>4. CASE i \in 1 .. Len(s) /\ k \notin 1 .. Len(s)
    BY <2>4, <2>1, <1>2, <1>5
  <2>5. CASE i \notin 1 .. Len(s) /\ k \in 1 .. Len(s)
    BY <2>5, <2>1, <1>2, <1>5
  <2> QED BY <2>2, <2>3, <2>4, <2>5
<1> QED BY <1>1, <1>6, <1>7 DEF u

(* An order of a finite set (SetToSeqs) contains the set, without          *)
(* repetition.                                                             *)
LEMMA OrderContains ==
    ASSUME NEW S, IsFiniteSet(S), NEW order \in SetToSeqs(S)
    PROVE  /\ order \in Seq(S) /\ IsInjective(order)
           /\ \A d : Contains(order, d) <=> d \in S
<1> DEFINE n == Cardinality(S)
           D == 1 .. n
<1>1. n \in Nat
  BY FS_CardinalityType
<1>2. order \in [D -> S] /\ \A i, j \in D : i # j => order[i] # order[j]
  BY DEF SetToSeqs
<1> HIDE DEF n
<1>3. order \in Seq(S) /\ Len(order) = n /\ DOMAIN order = D
  BY <1>1, <1>2
<1>4. IsInjective(order)
  BY <1>2, <1>3 DEF IsInjective
<1>5. order \in Injection(D, S)
  BY <1>2, <1>4 DEF Injection, IsInjective
<1>6. Cardinality(D) = n
  BY <1>1, FS_Interval
<1>7. order \in Surjection(D, S)
  BY <1>5, <1>6, FS_Injection DEF n
<1>8. \A d \in S : \E i \in D : order[i] = d
  BY <1>7 DEF Surjection
<1> QED BY <1>2, <1>3, <1>4, <1>8 DEF Contains

(* Array.push and Array.shift.                                             *)
LEMMA AppendFacts ==
    ASSUME NEW S, NEW s \in Seq(S), NEW x \in S
    PROVE  /\ Append(s, x) \in Seq(S) /\ Append(s, x) # <<>> /\ Len(Append(s, x)) = Len(s) + 1
           /\ Tail(Append(s, x)) \in Seq(S) /\ Head(Append(s, x)) \in S /\ Len(Tail(Append(s, x))) = Len(s)
<1>1. Append(s, x) \in Seq(S) /\ Len(Append(s, x)) = Len(s) + 1 /\ Len(s) \in Nat
  OBVIOUS
<1>2. Append(s, x) # <<>>
  BY <1>1
<1> DEFINE w == Append(s, x)
<1>4. w \in Seq(S) /\ w # <<>> /\ Len(w) = Len(s) + 1
  BY <1>1, <1>2
<1> HIDE DEF w
<1>5. Tail(w) \in Seq(S) /\ Head(w) \in S /\ Len(Tail(w)) = Len(w) - 1
  BY <1>4
<1>6. Len(Tail(w)) = Len(s)
  BY <1>1, <1>4, <1>5
<1> QED BY <1>1, <1>2, <1>5, <1>6 DEF w

(* Names that stay opaque: the provers rewrite Append and \o, and then do  *)
(* not see the instances of a lemma about both.                            *)
Appended(s, x) == Append(s, x)
Joined(r, s) == r \o s

(* To append to a concatenation is to append to its second part.           *)
LEMMA AppendConcat ==
    ASSUME NEW S, NEW r \in Seq(S), NEW s \in Seq(S), NEW x \in S
    PROVE  Appended(Joined(r, s), x) = Joined(r, Appended(s, x))
  BY DEF Appended, Joined

\* Array.map
Mapped(s, g) == [i \in DOMAIN s |-> g[s[i]]]

\* g takes the elements of T, and no others, to elements of U.
Takes(g, S, R, T, U) == g \in [S -> R] /\ \A x \in S : g[x] \in U <=> x \in T

(* A map that takes T, and nothing else of S, into U leaves as many in U   *)
(* as there are in T.                                                      *)
LEMMA RetainMapped ==
    ASSUME NEW S, NEW R, NEW g, NEW T, NEW U, Takes(g, S, R, T, U)
    PROVE  \A s \in Seq(S) : Mapped(s, g) \in Seq(R) /\ Len(Retain(Mapped(s, g), U)) = Len(Retain(s, T))
<1> USE DEF Mapped, Takes
<1> DEFINE G == {s \in Seq(S) : Mapped(s, g) \in Seq(R) /\ Len(Retain(Mapped(s, g), U)) = Len(Retain(s, T))}
<1>1. <<>> \in G
  <2>1. Mapped(<<>>, g) = <<>> /\ <<>> \in Seq(S) /\ <<>> \in Seq(R)
    OBVIOUS
  <2> QED BY <2>1, RetainEmpty
<1>2. ASSUME NEW s \in Seq(S), NEW e \in S, s \in G
      PROVE  Append(s, e) \in G
  <2> DEFINE m == Mapped(s, g)
             t == Append(s, e)
  <2>1. m \in Seq(R) /\ Len(m) = Len(s) /\ Len(s) \in Nat /\ g[e] \in R /\ Len(Retain(m, U)) = Len(Retain(s, T))
        /\ \A i \in 1 .. Len(s) : m[i] = g[s[i]]
    BY <1>2
  <2>2. t \in Seq(S) /\ DOMAIN t = 1 .. Len(s) + 1 /\ t[Len(s) + 1] = e /\ \A i \in 1 .. Len(s) : t[i] = s[i]
    BY <2>1
  <2> HIDE DEF m
  <2>3. Append(m, g[e]) \in Seq(R) /\ Len(Append(m, g[e])) = Len(s) + 1 /\ Append(m, g[e])[Len(s) + 1] = g[e]
        /\ \A i \in 1 .. Len(s) : Append(m, g[e])[i] = m[i]
    BY <2>1
  <2> HIDE DEF t
  <2>4. Mapped(t, g) \in Seq(R) /\ Len(Mapped(t, g)) = Len(s) + 1 /\ \A i \in 1 .. Len(s) + 1 : Mapped(t, g)[i] = g[t[i]]
    <3>1. \A i \in 1 .. Len(s) + 1 : t[i] \in S /\ g[t[i]] \in R
      BY <2>2
    <3> QED BY <3>1, <2>1, <2>2
  <2>5. Mapped(t, g) = Append(m, g[e])
    BY <2>1, <2>2, <2>3, <2>4
  <2> HIDE DEF Mapped
  <2>6. Retain(Append(m, g[e]), U) = IF g[e] \in U THEN Append(Retain(m, U), g[e]) ELSE Retain(m, U)
    BY <2>1, RetainAppend
  <2>7. Retain(t, T) = IF e \in T THEN Append(Retain(s, T), e) ELSE Retain(s, T)
    BY RetainAppend DEF t
  <2>8. Retain(m, U) \in Seq(R) /\ Retain(s, T) \in Seq(S)
    BY <2>1, RetainContains
  <2>9. Len(Append(Retain(m, U), g[e])) = Len(Retain(m, U)) + 1 /\ Len(Append(Retain(s, T), e)) = Len(Retain(s, T)) + 1
    BY <2>8
  <2>10. Len(Retain(Mapped(t, g), U)) = Len(Retain(t, T))
    BY <2>1, <2>5, <2>6, <2>7, <2>9
  <2> QED BY <2>2, <2>4, <2>10 DEF t
<1> HIDE DEF Mapped
<1>3. Seq(S) \subseteq G
  BY <1>1, <1>2, SequenceInduction
<1> QED BY <1>3

(* What keeps less is shorter.                                             *)
LEMMA RetainMonotone ==
    ASSUME NEW S, NEW s \in Seq(S), NEW T, NEW U, U \subseteq T
    PROVE  Len(Retain(s, U)) <= Len(Retain(s, T))
<1>1. Retain(Retain(s, T), U) = Retain(s, T \cap U) /\ T \cap U = U
  BY RetainRetain
<1>2. Retain(s, T) \in Seq(S)
  BY RetainContains
<1>3. Len(Retain(Retain(s, T), U)) <= Len(Retain(s, T))
  BY <1>2, RetainShorter
<1> QED BY <1>1, <1>3

(* A first element that is not kept leaves what is kept of the rest.       *)
LEMMA RetainTail ==
    ASSUME NEW S, NEW s \in Seq(S), s # <<>>, NEW T, s[1] \notin T
    PROVE  Len(Retain(s, T)) <= Len(s) - 1
<1> DEFINE first == <<s[1]>>
           rest == Tail(s)
<1>1. first \in Seq(S) /\ Len(first) = 1 /\ first[1] = s[1] /\ Len(s) \in Nat
  OBVIOUS
<1>2. rest \in Seq(S) /\ Len(rest) = Len(s) - 1 /\ s = first \o rest
  OBVIOUS
<1> HIDE DEF first, rest
<1>3. Retain(first \o rest, T) = Retain(first, T) \o Retain(rest, T)
  BY <1>1, <1>2, RetainConcat
<1>4. \A i \in 1 .. Len(first) : first[i] \notin T
  BY <1>1
<1>5. Retain(first, T) = <<>>
  BY <1>1, <1>4, RetainNothing
<1>6. Retain(rest, T) \in Seq(S) /\ Len(Retain(rest, T)) <= Len(rest)
  BY <1>2, RetainContains, RetainShorter
<1>7. <<>> \o Retain(rest, T) = Retain(rest, T)
  BY <1>6
<1>8. Retain(s, T) = Retain(rest, T)
  BY <1>2, <1>3, <1>5, <1>7
<1> QED BY <1>2, <1>6, <1>8
-----------------------------------------------------------------------------
(* A set that has every subset of D that is one element larger than sets   *)
(* it has, has all of them.                                                *)
LEMMA SubsetInduction ==
  ASSUME NEW D, IsFiniteSet(D), NEW G, {} \in G,
         \A T \in SUBSET D : T # {} /\ (\A x \in T : T \ {x} \in G) => T \in G
  PROVE  SUBSET D \subseteq G
<1> DEFINE n == Cardinality(D)
           H == {i \in 0 .. n : \A T \in SUBSET D : Cardinality(T) = i => T \in G}
<1>1. n \in Nat /\ \A T \in SUBSET D : IsFiniteSet(T) /\ Cardinality(T) \in 0 .. n
  <2>1. n \in Nat
    BY FS_CardinalityType
  <2> SUFFICES ASSUME NEW T \in SUBSET D
               PROVE  IsFiniteSet(T) /\ Cardinality(T) \in 0 .. n
    BY <2>1
  <2>2. IsFiniteSet(T) /\ Cardinality(T) <= n
    BY FS_Subset
  <2> QED BY <2>1, <2>2, FS_CardinalityType
<1> HIDE DEF n
<1>2. 0 \in H
  <2>1. \A T \in SUBSET D : Cardinality(T) = 0 => T = {}
    <3> SUFFICES ASSUME NEW T \in SUBSET D, Cardinality(T) = 0
                 PROVE  T = {}
      OBVIOUS
    <3>1. IsFiniteSet(T)
      BY <1>1
    <3> QED BY <3>1, FS_EmptySet
  <2>2. 0 \in 0 .. n
    BY <1>1
  <2>3. ASSUME NEW T \in SUBSET D, Cardinality(T) = 0
        PROVE  T \in G
    <3>1. T = {}
      BY <2>1, <2>3
    <3> QED BY <3>1
  <2> QED BY <2>2, <2>3
<1>3. ASSUME NEW i \in 0 .. n - 1, i \in H
      PROVE  i + 1 \in H
  <2>1. i + 1 \in 0 .. n
    BY <1>1
  <2>2. ASSUME NEW T \in SUBSET D, Cardinality(T) = i + 1
        PROVE  T \in G
    <3>1. ASSUME T = {} PROVE FALSE
      <4>1. Cardinality(T) = 0
        BY <3>1, FS_EmptySet
      <4>2. i \in Nat /\ Cardinality(T) = i + 1
        BY <1>1, <2>2
      <4> QED BY <4>1, <4>2
    <3>2. ASSUME NEW x \in T
          PROVE  T \ {x} \in G
      <4>1. Cardinality(T \ {x}) = Cardinality(T) - 1 /\ IsFiniteSet(T)
        BY <1>1, FS_RemoveElement
      <4>2. Cardinality(T \ {x}) = i /\ T \ {x} \in SUBSET D
        BY <4>1, <2>2
      <4> QED BY <4>2, <1>3
    <3> QED BY <3>1, <3>2
  <2> QED BY <2>1, <2>2
<1>4. \A i \in 0 .. n : i \in H
  <2> HIDE DEF H
  <2> QED BY <1>1, <1>2, <1>3, Induction
<1> QED BY <1>1, <1>4

(* A list is followed by the other.                                        *)
LEMMA ConcatFacts ==
    ASSUME NEW S, NEW s \in Seq(S), NEW w \in Seq(S), NEW z, z = s \o w
    PROVE  /\ DOMAIN s = 1 .. Len(s) /\ Len(s) \in Nat /\ Len(w) \in Nat
           /\ z \in Seq(S) /\ DOMAIN z = 1 .. Len(s) + Len(w) /\ Len(z) = Len(s) + Len(w)
           /\ \A i \in 1 .. Len(s) : z[i] = s[i]
           /\ \A j \in 1 .. Len(w) : z[Len(s) + j] = w[j]
OBVIOUS
=============================================================================
