---------------------------- MODULE SequenceFacts ----------------------------
(***************************************************************************)
(* What the proofs need to know of numbers, sequences and sums. The        *)
(* community modules define the folds with CHOOSE over functions; here     *)
(* such a function is shown to exist and to be computed step by step, by   *)
(* induction over the numbers up to a bound, so that theorems may speak of *)
(* FoldLeft, of FlattenSeq and of what they do to a sequence that grows or *)
(* shrinks at its ends.                                                    *)
(***************************************************************************)
EXTENDS Integers, Sequences, SequencesExt, SequenceTheorems, FiniteSetTheorems,
        WellFoundedInduction, TLAPS
-----------------------------------------------------------------------------
(* Induction over the numbers up to a bound, and what recursion computes.  *)

(* A set of numbers has a least one.                                       *)
LEMMA LeastNumber ==
  ASSUME NEW S, S \subseteq Nat, S # {}
  PROVE  \E n \in S : \A m \in S : n <= m
  <1> DEFINE below == {ss \in Nat \X Nat : ss[1] < ss[2]}
  <1>1. IsWellFoundedOn(below, Nat)
    BY NatLessThanWellFounded, Zenon DEF OpToRel
  <1>2. \A m, n \in S : m < n => <<m, n>> \in below
    OBVIOUS
  <1> HIDE DEF below
  <1>3. PICK n \in S : \A m \in S : <<m, n>> \notin below
    BY <1>1, WFMin, Zenon
  <1>4. \A m \in S : ~(m < n)
    BY <1>2, <1>3, Zenon
  <1> QED BY <1>4

(* Induction up to a bound: a set that has 0 and with every number the     *)
(* next.                                                                   *)
LEMMA UpTo ==
  ASSUME NEW k \in Nat, NEW S, 0 \in S, \A n \in 0..(k - 1) : n \in S => n + 1 \in S
  PROVE  0..k \subseteq S
  <1> DEFINE rest == (0..k) \ S
  <1>1. rest \subseteq Nat /\ \A n \in rest : n \in 0..k /\ n \notin S
    OBVIOUS
  <1>2. \A n \in 0..k : n \notin S => n \in rest
    OBVIOUS
  <1> HIDE DEF rest
  <1>3. SUFFICES ASSUME rest # {} PROVE FALSE
    BY <1>2
  <1>4. PICK n \in rest : \A m \in rest : n <= m
    BY <1>1, <1>3, LeastNumber
  <1>5. n # 0 /\ n \in 0..k
    BY <1>1, <1>4
  <1>6. n - 1 \in 0..(k - 1) /\ n - 1 \in 0..k /\ (n - 1) + 1 = n /\ ~(n <= n - 1)
    BY <1>5
  <1>7. n - 1 \in S
    BY <1>2, <1>4, <1>6
  <1> QED BY <1>1, <1>4, <1>6, <1>7

(* What a recursion that goes up to n computes, step by step.              *)
Computes(p, V, base, n, step) ==
  /\ p \in [0..n -> V] /\ p[0] = base
  /\ \A i \in 1..n : p[i] = step[i][p[i - 1]]

(* A function that is defined step by step exists.                         *)
LEMMA StepsExist ==
  ASSUME NEW V, NEW base \in V, NEW n \in Nat, NEW step \in [1..n -> [V -> V]]
  PROVE  \E p : Computes(p, V, base, n, step)
  <1> DEFINE S == {k \in 0..n : \E p : Computes(p, V, base, k, step)}
  <1>1. 0 \in S
    <2>1. Computes([i \in 0..0 |-> base], V, base, 0, step)
      BY DEF Computes
    <2>2. 0 \in 0..n
      OBVIOUS
    <2> QED BY <2>1, <2>2
  <1>2. ASSUME NEW k \in 0..(n - 1), k \in S PROVE k + 1 \in S
    <2>1. PICK p : Computes(p, V, base, k, step)
      BY <1>2
    <2> DEFINE q == [i \in 0..(k + 1) |-> IF i <= k THEN p[i] ELSE step[k + 1][p[k]]]
    <2>2. p[k] \in V /\ k + 1 \in 1..n /\ k + 1 \in 0..n
      BY <2>1 DEF Computes
    <2>3. q \in [0..(k + 1) -> V] /\ q[0] = base
      BY <2>1, <2>2 DEF Computes
    <2>4. ASSUME NEW i \in 1..(k + 1) PROVE q[i] = step[i][q[i - 1]]
      <3>1. CASE i <= k
        BY <2>1, <3>1 DEF Computes
      <3>2. CASE i = k + 1
        BY <3>2
      <3> QED BY <3>1, <3>2
    <2> HIDE DEF q
    <2>5. Computes(q, V, base, k + 1, step)
      BY <2>3, <2>4 DEF Computes
    <2> QED BY <2>2, <2>5
  <1> HIDE DEF S
  <1>3. 0..n \subseteq S
    BY <1>1, <1>2, UpTo
  <1>4. n \in S
    BY <1>3
  <1> QED BY <1>4 DEF S

(* FlattenSeq joins the sequences one after the other.                     *)
LEMMA FlattenedStepwise ==
  ASSUME NEW T, NEW n \in Nat, NEW s \in [1..n -> Seq(T)]
  PROVE  \E p \in [0..n -> Seq(T)] :
           /\ p[0] = <<>> /\ \A i \in 1..n : p[i] = p[i - 1] \o s[i]
           /\ FlattenSeq(s) = p[n]
  <1>1. s \in Seq(Seq(T)) /\ Len(s) = n
    <2>1. s \in Seq(Seq(T))
      BY SeqDef
    <2> QED BY <2>1, LenProperties
  <1> DEFINE step == [i \in 1..n |-> [v \in Seq(T) |-> v \o s[i]]]
  <1>2. step \in [1..n -> [Seq(T) -> Seq(T)]]
    <2>1. ASSUME NEW i \in 1..n, NEW v \in Seq(T) PROVE v \o s[i] \in Seq(T)
      BY ConcatProperties
    <2> QED BY <2>1
  <1>3. \A i \in 1..n : \A v \in Seq(T) : step[i][v] = v \o s[i]
    OBVIOUS
  <1> HIDE DEF step
  <1>4. <<>> \in Seq(T)
    OBVIOUS
  <1>5. PICK p \in [0..n -> Seq(T)] : p[0] = <<>> /\ \A i \in 1..n : p[i] = step[i][p[i - 1]]
    <2>1. \E p : Computes(p, Seq(T), <<>>, n, step)
      BY <1>2, <1>4, StepsExist, Zenon
    <2> QED BY <2>1 DEF Computes
  <1>6. \A i \in 1..n : p[i - 1] \in Seq(T) /\ p[i] = p[i - 1] \o s[i]
    <2> TAKE i \in 1..n
    <2>1. i - 1 \in 0..n
      OBVIOUS
    <2> QED BY <1>3, <1>5, <2>1
  <1>7. FlattenSeq(s) = p[n]
    <2>1. CASE n = 0
      BY <1>1, <1>5, <2>1 DEF FlattenSeq
    <2>2. CASE n # 0
      <3> DEFINE Def(g) == g = [i \in 1..n |-> IF i = 1 THEN s[i] ELSE g[i - 1] \o s[i]]
                 f == CHOOSE g : Def(g)
                 r == [i \in 1..n |-> p[i]]
      <3>1. FlattenSeq(s) = f[n]
        BY <1>1, <2>2 DEF FlattenSeq
      <3>2. \A i \in 1..n : r[i] = IF i = 1 THEN s[i] ELSE r[i - 1] \o s[i]
        <4> TAKE i \in 1..n
        <4>1. CASE i = 1
          <5>1. p[1] = p[0] \o s[1] /\ s[1] \in Seq(T)
            BY <1>6, <4>1
          <5>2. p[1] = s[1]
            BY <1>5, <5>1, ConcatEmptySeq
          <5> QED BY <4>1, <5>2
        <4>2. CASE i # 1
          <5>1. i - 1 \in 1..n /\ r[i - 1] = p[i - 1]
            BY <4>2
          <5> QED BY <1>6, <4>2, <5>1
        <4> QED BY <4>1, <4>2
      <3>3. Def(r)
        BY <3>2
      <3>4. Def(f)
        <4> HIDE DEF r
        <4> QED BY <3>3
      <3> DEFINE S == {i \in 0..n : i > 0 => f[i] = p[i]}
      <3> HIDE DEF f
      <3>5. 0 \in S
        OBVIOUS
      <3>6. ASSUME NEW k \in 0..(n - 1), k \in S PROVE k + 1 \in S
        <4>1. k + 1 \in 1..n /\ (k + 1) - 1 = k /\ k + 1 \in 0..n
          OBVIOUS
        <4>2. f[k + 1] = IF k + 1 = 1 THEN s[k + 1] ELSE f[(k + 1) - 1] \o s[k + 1]
          BY <3>4, <4>1
        <4>3. r[k + 1] = IF k + 1 = 1 THEN s[k + 1] ELSE r[(k + 1) - 1] \o s[k + 1]
          BY <3>2, <4>1
        <4>4. r[k + 1] = p[k + 1] /\ (k > 0 => r[k] = p[k])
          BY <4>1
        <4>5. k > 0 => f[k] = p[k]
          BY <3>6
        <4> HIDE DEF r
        <4>6. f[k + 1] = p[k + 1]
          BY <4>1, <4>2, <4>3, <4>4, <4>5
        <4> QED BY <4>1, <4>6
      <3> HIDE DEF S
      <3>7. 0..n \subseteq S
        BY <3>5, <3>6, UpTo
      <3>8. n \in S
        BY <3>7
      <3> USE DEF S
      <3> QED BY <2>2, <3>1, <3>8
    <2> QED BY <2>1, <2>2
  <1> QED BY <1>5, <1>6, <1>7

(* Nothing joined is nothing.                                              *)
LEMMA FlattenedEmpty == FlattenSeq(<<>>) = <<>>
  BY DEF FlattenSeq

(* Sequences over a set, joined, are one over it.                          *)
LEMMA FlattenedType ==
  ASSUME NEW T, NEW n \in Nat, NEW s \in [1..n -> Seq(T)]
  PROVE  FlattenSeq(s) \in Seq(T)
  <1>1. PICK p \in [0..n -> Seq(T)] :
          /\ p[0] = <<>> /\ \A i \in 1..n : p[i] = p[i - 1] \o s[i]
          /\ FlattenSeq(s) = p[n]
    BY FlattenedStepwise
  <1> QED BY <1>1

(* The last sequence comes last.                                           *)
LEMMA FlattenedLast ==
  ASSUME NEW T, NEW n \in Nat, NEW s \in [1..(n + 1) -> Seq(T)]
  PROVE  FlattenSeq(s) = FlattenSeq([i \in 1..n |-> s[i]]) \o s[n + 1]
  <1> DEFINE front == [i \in 1..n |-> s[i]]
  <1>1. front \in [1..n -> Seq(T)] /\ \A i \in 1..n : front[i] = s[i]
    OBVIOUS
  <1> HIDE DEF front
  <1>2. PICK p \in [0..n -> Seq(T)] :
          /\ p[0] = <<>> /\ \A i \in 1..n : p[i] = p[i - 1] \o front[i]
          /\ FlattenSeq(front) = p[n]
    BY <1>1, FlattenedStepwise
  <1>3. n + 1 \in Nat
    OBVIOUS
  <1>4. PICK q \in [0..(n + 1) -> Seq(T)] :
          /\ q[0] = <<>> /\ \A i \in 1..(n + 1) : q[i] = q[i - 1] \o s[i]
          /\ FlattenSeq(s) = q[n + 1]
    BY <1>3, FlattenedStepwise
  <1> DEFINE S == {i \in 0..n : p[i] = q[i]}
  <1>5. 0 \in S
    BY <1>2, <1>4
  <1>6. ASSUME NEW k \in 0..(n - 1), k \in S PROVE k + 1 \in S
    <2>1. k + 1 \in 1..n /\ k + 1 \in 1..(n + 1) /\ (k + 1) - 1 = k /\ k + 1 \in 0..n
      OBVIOUS
    <2>2. p[k + 1] = p[k] \o s[k + 1]
      BY <1>1, <1>2, <2>1
    <2>3. q[k + 1] = q[k] \o s[k + 1]
      BY <1>4, <2>1
    <2> QED BY <1>6, <2>1, <2>2, <2>3
  <1> HIDE DEF S
  <1>7. 0..n \subseteq S
    BY <1>5, <1>6, UpTo
  <1>8. p[n] = q[n]
    BY <1>7 DEF S
  <1>9. n + 1 \in 1..(n + 1) /\ (n + 1) - 1 = n
    OBVIOUS
  <1>10. q[n + 1] = q[(n + 1) - 1] \o s[n + 1]
    BY <1>4, <1>9
  <1> QED BY <1>2, <1>4, <1>8, <1>9, <1>10 DEF front
-----------------------------------------------------------------------------
(* Sums of the numbers of a sequence.                                      *)

(* The sum of a sequence of numbers.                                       *)
Total(s) == FoldLeft(LAMBDA m, n : m + n, 0, s)

(* The sums of the first numbers of a sequence.                            *)
SumsOf(p, s) ==
  /\ p \in [0..Len(s) -> Int] /\ p[0] = 0
  /\ \A i \in 1..Len(s) : p[i] = p[i - 1] + s[i]

(* Max of a set that has its upper bound.                                  *)
LEMMA GreatestOf ==
  ASSUME NEW k \in Nat, NEW t \in SUBSET (1..(k + 1)), k + 1 \in t
  PROVE  Max(t) = k + 1
  <1>1. \A y \in t : k + 1 >= y
    OBVIOUS
  <1>2. \E x \in t : \A y \in t : x >= y
    BY <1>1
  <1> DEFINE m == Max(t)
  <1>3. m \in t /\ \A y \in t : m >= y
    BY <1>2 DEF Max
  <1> HIDE DEF m
  <1>4. m \in 1..(k + 1) /\ m >= k + 1
    BY <1>3
  <1>5. m = k + 1
    BY <1>4
  <1> QED BY <1>5 DEF m

(* The equation of a fold over the numbers up to k.                        *)
AddsUp(g, k, s) ==
  g = [t \in SUBSET (1..k) |-> IF t = {} THEN 0 ELSE g[t \ {Max(t)}] + s[Max(t)]]

(* There is a function with that equation.                                 *)
LEMMA SumExists ==
  ASSUME NEW n \in Nat, NEW s
  PROVE  \E g : AddsUp(g, n, s)
  <1> DEFINE S == {k \in 0..n : \E g : AddsUp(g, k, s)}
  <1>1. 0 \in S
    <2>1. AddsUp([t \in SUBSET (1..0) |-> 0], 0, s)
      <3>1. \A t \in SUBSET (1..0) : t = {}
        OBVIOUS
      <3> QED BY <3>1 DEF AddsUp
    <2>2. 0 \in 0..n
      OBVIOUS
    <2> QED BY <2>1, <2>2
  <1>2. ASSUME NEW k \in 0..(n - 1), k \in S PROVE k + 1 \in S
    <2>1. PICK g : AddsUp(g, k, s)
      BY <1>2
    <2> DEFINE h == [t \in SUBSET (1..(k + 1)) |->
                       IF k + 1 \in t THEN g[t \ {k + 1}] + s[k + 1] ELSE g[t]]
    <2>2. k \in Nat /\ k + 1 \in 0..n
      OBVIOUS
    <2>3. \A t \in SUBSET (1..(k + 1)) : k + 1 \notin t => t \in SUBSET (1..k)
      OBVIOUS
    <2>4. \A t \in SUBSET (1..k) : t \in SUBSET (1..(k + 1)) /\ k + 1 \notin t
      OBVIOUS
    <2>5. ASSUME NEW t \in SUBSET (1..(k + 1))
          PROVE  h[t] = IF t = {} THEN 0 ELSE h[t \ {Max(t)}] + s[Max(t)]
      <3>1. CASE k + 1 \in t
        <4>1. Max(t) = k + 1
          BY <2>2, <3>1, GreatestOf
        <4>2. t \ {k + 1} \in SUBSET (1..(k + 1)) /\ k + 1 \notin t \ {k + 1}
          OBVIOUS
        <4>3. h[t \ {k + 1}] = g[t \ {k + 1}]
          BY <4>2
        <4> QED BY <3>1, <4>1, <4>3
      <3>2. CASE k + 1 \notin t
        <4>1. t \in SUBSET (1..k) /\ h[t] = g[t]
          BY <2>3, <3>2
        <4>2. g[t] = IF t = {} THEN 0 ELSE g[t \ {Max(t)}] + s[Max(t)]
          BY <2>1, <4>1 DEF AddsUp
        <4>3. t \ {Max(t)} \in SUBSET (1..k)
          BY <4>1
        <4>4. h[t \ {Max(t)}] = g[t \ {Max(t)}]
          BY <2>4, <4>3
        <4> QED BY <4>1, <4>2, <4>4
      <3> QED BY <3>1, <3>2
    <2>6. AddsUp(h, k + 1, s)
      BY <2>5 DEF AddsUp
    <2> HIDE DEF h
    <2> QED BY <2>2, <2>6
  <1> HIDE DEF S
  <1>3. 0..n \subseteq S
    BY <1>1, <1>2, UpTo
  <1>4. n \in S
    BY <1>3
  <1> QED BY <1>4 DEF S

(* FoldLeft adds one number after the other.                               *)
LEMMA TotalStepwise ==
  ASSUME NEW s \in Seq(Int)
  PROVE  \E p : SumsOf(p, s) /\ Total(s) = p[Len(s)]
  <1> DEFINE n == Len(s)
             g == CHOOSE iter : AddsUp(iter, n, s)
             p == [i \in 0..n |-> g[1..i]]
  <1>1. n \in Nat /\ DOMAIN s = 1..n
    OBVIOUS
  <1>2. Total(s) = g[1..n]
    BY <1>1 DEF Total, FoldLeft, MapThenFoldSet, AddsUp
  <1>3. AddsUp(g, n, s)
    BY <1>1, SumExists, Zenon
  <1> HIDE DEF g
  <1>4. p[0] = 0
    <2>1. 1..0 = {} /\ 0 \in 0..n /\ {} \in SUBSET (1..n)
      BY <1>1
    <2>2. g[{}] = 0
      BY <1>3, <2>1 DEF AddsUp
    <2> QED BY <2>1, <2>2
  <1>5. ASSUME NEW i \in 1..n PROVE p[i] = p[i - 1] + s[i]
    <2>1. /\ 1..i \in SUBSET (1..n) /\ i \in 1..i /\ (i - 1) + 1 = i /\ i - 1 \in Nat
          /\ i - 1 \in 0..n /\ i \in 0..n
      BY <1>1
    <2>4. (1..i) \ {i} = 1..(i - 1) /\ 1..i # {}
      <3>1. i \in Nat
        BY <1>1
      <3>2. \A x : x \in (1..i) \ {i} <=> x \in 1..(i - 1)
        BY <3>1
      <3>3. i \in 1..i
        BY <1>1
      <3> QED BY <3>2, <3>3
    <2>2. Max(1..i) = i
      <3> DEFINE k == i - 1
                 t == 1..i
      <3>1. k \in Nat /\ t \in SUBSET (1..(k + 1)) /\ k + 1 \in t
        BY <2>1
      <3> HIDE DEF t
      <3>2. Max(t) = k + 1
        BY <3>1, GreatestOf
      <3> QED BY <2>1, <3>2 DEF t
    <2>3. g[1..i] = g[(1..i) \ {Max(1..i)}] + s[Max(1..i)]
      BY <1>3, <2>1, <2>4 DEF AddsUp
    <2> QED BY <2>1, <2>2, <2>3, <2>4
  <1>6. p \in [0..n -> Int]
    <2> DEFINE S == {i \in 0..n : p[i] \in Int}
    <2>1. DOMAIN p = 0..n /\ p = [i \in 0..n |-> p[i]]
      OBVIOUS
    <2> HIDE DEF p
    <2>2. 0 \in S
      BY <1>1, <1>4
    <2>3. ASSUME NEW k \in 0..(n - 1), k \in S PROVE k + 1 \in S
      <3>1. k + 1 \in 1..n /\ (k + 1) - 1 = k /\ k + 1 \in 0..n /\ p[k] \in Int
        BY <1>1, <2>3
      <3>2. p[k + 1] = p[k] + s[k + 1]
        BY <1>5, <3>1
      <3>3. s[k + 1] \in Int
        BY <3>1
      <3> QED BY <3>1, <3>2, <3>3
    <2> HIDE DEF S
    <2>4. 0..n \subseteq S
      BY <1>1, <2>2, <2>3, UpTo
    <2>5. \A i \in 0..n : p[i] \in Int
      BY <2>4 DEF S
    <2> QED BY <2>1, <2>5
  <1>7. p[n] = g[1..n]
    BY <1>1
  <1> HIDE DEF p
  <1> QED BY <1>1, <1>2, <1>4, <1>5, <1>6, <1>7 DEF SumsOf

(* The sum of no numbers.                                                  *)
LEMMA TotalEmpty == Total(<<>>) = 0
  <1> DEFINE s == <<>>
  <1>1. s \in Seq(Int) /\ Len(s) = 0
    OBVIOUS
  <1> HIDE DEF s
  <1>2. PICK p : SumsOf(p, s) /\ Total(s) = p[Len(s)]
    BY <1>1, TotalStepwise
  <1>3. Total(s) = 0
    BY <1>1, <1>2 DEF SumsOf
  <1> QED BY <1>3 DEF s

(* A sum is an integer.                                                    *)
LEMMA TotalType ==
  ASSUME NEW s \in Seq(Int)
  PROVE  Total(s) \in Int
  <1>1. PICK p : SumsOf(p, s) /\ Total(s) = p[Len(s)]
    BY TotalStepwise
  <1>2. Len(s) \in 0..Len(s)
    OBVIOUS
  <1> QED BY <1>1, <1>2 DEF SumsOf

(* Sequences that begin alike have the same first sums.                    *)
LEMMA SumsAgree ==
  ASSUME NEW s \in Seq(Int), NEW t \in Seq(Int), NEW p, NEW q, SumsOf(p, s), SumsOf(q, t),
         NEW n \in Nat, n <= Len(s), n <= Len(t), \A i \in 1..n : s[i] = t[i]
  PROVE  p[n] = q[n]
  <1> DEFINE S == {i \in 0..n : p[i] = q[i]}
  <1>1. 0 \in S
    BY DEF SumsOf
  <1>2. ASSUME NEW k \in 0..(n - 1), k \in S PROVE k + 1 \in S
    <2>1. k + 1 \in 1..n /\ k + 1 \in 1..Len(s) /\ k + 1 \in 1..Len(t) /\ (k + 1) - 1 = k
          /\ k + 1 \in 0..n
      OBVIOUS
    <2>2. p[k + 1] = p[k] + s[k + 1] /\ q[k + 1] = q[k] + t[k + 1] /\ s[k + 1] = t[k + 1]
      BY <2>1 DEF SumsOf
    <2> QED BY <1>2, <2>1, <2>2
  <1> HIDE DEF S
  <1>3. 0..n \subseteq S
    BY <1>1, <1>2, UpTo
  <1> QED BY <1>3 DEF S

(* One more number at the end.                                             *)
LEMMA TotalAppend ==
  ASSUME NEW s \in Seq(Int), NEW x \in Int
  PROVE  Total(Append(s, x)) = Total(s) + x
  <1> DEFINE t == Append(s, x)
  <1>1. /\ t \in Seq(Int) /\ Len(t) = Len(s) + 1 /\ Len(s) \in Nat /\ t[Len(s) + 1] = x
        /\ \A i \in 1..Len(s) : s[i] = t[i]
    OBVIOUS
  <1> HIDE DEF t
  <1>2. PICK p : SumsOf(p, s) /\ Total(s) = p[Len(s)]
    BY TotalStepwise
  <1>3. PICK q : SumsOf(q, t) /\ Total(t) = q[Len(t)]
    BY <1>1, TotalStepwise
  <1>4. p[Len(s)] = q[Len(s)]
    <2> DEFINE n == Len(s)
    <2>1. n \in Nat /\ n <= Len(s) /\ n <= Len(t) /\ \A i \in 1..n : s[i] = t[i]
      BY <1>1
    <2> HIDE DEF n
    <2>2. p[n] = q[n]
      BY <1>1, <1>2, <1>3, <2>1, SumsAgree
    <2> QED BY <2>2 DEF n
  <1>5. Len(s) + 1 \in 1..Len(t) /\ (Len(s) + 1) - 1 = Len(s)
    BY <1>1
  <1>6. q[Len(s) + 1] = q[Len(s)] + t[Len(s) + 1]
    BY <1>3, <1>5 DEF SumsOf
  <1>7. Total(t) = Total(s) + x
    BY <1>1, <1>2, <1>3, <1>4, <1>6
  <1> QED BY <1>7 DEF t

(* One number less at the beginning.                                       *)
LEMMA TotalTail ==
  ASSUME NEW s \in Seq(Int), s # <<>>
  PROVE  Total(s) = Head(s) + Total(Tail(s))
  <1> DEFINE t == Tail(s)
  <1>1. /\ t \in Seq(Int) /\ Len(s) = Len(t) + 1 /\ Len(t) \in Nat /\ s[1] = Head(s)
        /\ \A i \in 1..Len(t) : t[i] = s[i + 1]
        /\ s[1] \in Int /\ \A i \in 1..Len(t) : t[i] \in Int
    OBVIOUS
  <1> HIDE DEF t
  <1>2. PICK p : SumsOf(p, s) /\ Total(s) = p[Len(s)]
    BY TotalStepwise
  <1>3. PICK q : SumsOf(q, t) /\ Total(t) = q[Len(t)]
    BY <1>1, TotalStepwise
  <1> DEFINE S == {i \in 0..Len(t) : p[i + 1] = s[1] + q[i]}
  <1>4. 0 \in S
    <2>1. 1 \in 1..Len(s) /\ 1 - 1 = 0 /\ 0 \in 0..Len(t) /\ 0 + 1 = 1
      BY <1>1
    <2>2. p[1] = p[0] + s[1] /\ p[0] = 0 /\ q[0] = 0
      BY <1>2, <1>3, <2>1 DEF SumsOf
    <2> QED BY <1>1, <2>1, <2>2
  <1>5. ASSUME NEW k \in 0..(Len(t) - 1), k \in S PROVE k + 1 \in S
    <2>1. /\ k + 1 \in 1..Len(t) /\ k + 2 \in 1..Len(s) /\ (k + 1) - 1 = k /\ (k + 2) - 1 = k + 1
          /\ k + 1 \in 0..Len(t) /\ (k + 1) + 1 = k + 2 /\ k \in 0..Len(t)
      BY <1>1
    <2>2. p[k + 2] = p[k + 1] + s[k + 2] /\ q[k + 1] = q[k] + t[k + 1] /\ q[k] \in Int
      BY <1>2, <1>3, <2>1 DEF SumsOf
    <2>3. t[k + 1] = s[k + 2] /\ t[k + 1] \in Int
      BY <1>1, <2>1
    <2>4. p[k + 1] = s[1] + q[k]
      BY <1>5
    <2>5. p[k + 2] = s[1] + q[k + 1]
      BY <1>1, <2>2, <2>3, <2>4
    <2> QED BY <2>1, <2>5
  <1> HIDE DEF S
  <1>6. 0..Len(t) \subseteq S
    BY <1>1, <1>4, <1>5, UpTo
  <1>7. p[Len(t) + 1] = s[1] + q[Len(t)]
    BY <1>1, <1>6 DEF S
  <1> QED BY <1>1, <1>2, <1>3, <1>7 DEF t

(* A sum of numbers none of which is positive.                             *)
LEMMA TotalOfDebts ==
  ASSUME NEW s \in Seq(Int), \A i \in 1..Len(s) : s[i] <= 0
  PROVE  Total(s) <= 0
  <1>1. PICK p : SumsOf(p, s) /\ Total(s) = p[Len(s)]
    BY TotalStepwise
  <1> DEFINE S == {i \in 0..Len(s) : p[i] <= 0}
  <1>2. 0 \in S
    BY <1>1 DEF SumsOf
  <1>3. ASSUME NEW k \in 0..(Len(s) - 1), k \in S PROVE k + 1 \in S
    <2>1. /\ k + 1 \in 1..Len(s) /\ (k + 1) - 1 = k /\ k \in 0..Len(s) /\ k + 1 \in 0..Len(s)
      OBVIOUS
    <2>2. p[k + 1] = p[k] + s[k + 1] /\ s[k + 1] <= 0 /\ s[k + 1] \in Int /\ p[k] \in Int
      BY <1>1, <2>1 DEF SumsOf
    <2>3. p[k] <= 0
      BY <1>3
    <2>4. p[k + 1] <= 0
      BY <2>2, <2>3
    <2> QED BY <2>1, <2>4
  <1> HIDE DEF S
  <1>4. Len(s) \in Nat
    OBVIOUS
  <1>5. 0..Len(s) \subseteq S
    BY <1>2, <1>3, <1>4, UpTo
  <1> QED BY <1>1, <1>4, <1>5 DEF S

(* The sum of the first n numbers.                                         *)
FirstTotal(f, n) == Total([i \in 1..n |-> f[i]])

(* The sums of the first n of numbers that are not negative: each adds the *)
(* next number, and none is more than the last.                            *)
LEMMA FirstTotals ==
  ASSUME NEW N \in Nat, NEW f \in [1..N -> Nat]
  PROVE  /\ FirstTotal(f, 0) = 0
         /\ \A n \in 0..(N - 1) : FirstTotal(f, n + 1) = FirstTotal(f, n) + f[n + 1]
         /\ \A n \in 0..N : FirstTotal(f, n) \in Nat /\ FirstTotal(f, n) <= FirstTotal(f, N)
         /\ \A n \in 0..(N - 1) : FirstTotal(f, n) + f[n + 1] <= FirstTotal(f, N)
  <1>1. FirstTotal(f, 0) = 0
    <2>1. [i \in 1..0 |-> f[i]] = <<>>
      OBVIOUS
    <2> QED BY <2>1, TotalEmpty DEF FirstTotal
  <1>2. ASSUME NEW n \in 0..N
        PROVE  [i \in 1..n |-> f[i]] \in Seq(Int) /\ Len([i \in 1..n |-> f[i]]) = n
    <2> DEFINE g == [i \in 1..n |-> f[i]]
    <2>1. n \in Nat /\ \A i \in 1..n : f[i] \in Int
      OBVIOUS
    <2>2. g \in [1..n -> Int]
      BY <2>1
    <2> HIDE DEF g
    <2>3. g \in Seq(Int)
      BY <2>1, <2>2, SeqDef
    <2>4. Len(g) = n
      BY <2>1, <2>2, <2>3, LenProperties
    <2> QED BY <2>3, <2>4 DEF g
  <1>3. ASSUME NEW n \in 0..(N - 1)
        PROVE  FirstTotal(f, n + 1) = FirstTotal(f, n) + f[n + 1]
    <2> DEFINE g == [i \in 1..n |-> f[i]]
               h == [i \in 1..(n + 1) |-> f[i]]
               x == f[n + 1]
    <2>1. /\ n \in 0..N /\ n + 1 \in 0..N /\ n + 1 \in 1..N /\ n \in Nat /\ x \in Int
          /\ \A i \in 1..(n + 1) : i \in 1..n \/ i = n + 1
      OBVIOUS
    <2>2. g \in Seq(Int) /\ Len(g) = n /\ h \in Seq(Int) /\ Len(h) = n + 1
      BY <1>2, <2>1
    <2>3. /\ \A i \in 1..n : g[i] = f[i] /\ i \in 1..(n + 1)
          /\ \A i \in 1..(n + 1) : h[i] = f[i]
      BY <2>1
    <2> HIDE DEF g, h, x
    <2>4. /\ Append(g, x) \in Seq(Int) /\ Len(Append(g, x)) = n + 1
          /\ \A i \in 1..(n + 1) : Append(g, x)[i] = h[i]
      <3>1. /\ Append(g, x) \in Seq(Int) /\ Len(Append(g, x)) = n + 1 /\ Append(g, x)[n + 1] = x
            /\ \A i \in 1..n : Append(g, x)[i] = g[i]
        BY <2>1, <2>2, AppendProperties
      <3> QED BY <2>1, <2>3, <3>1 DEF x
    <2> DEFINE u == Append(g, x)
    <2>5. u \in Seq(Int) /\ Len(u) = Len(h) /\ \A i \in 1..Len(u) : u[i] = h[i]
      BY <2>2, <2>4
    <2> HIDE DEF u
    <2>6. u = h
      BY <2>2, <2>5, SeqEqual
    <2>7. Total(u) = Total(g) + x
      BY <2>1, <2>2, TotalAppend DEF u
    <2> QED BY <2>6, <2>7 DEF FirstTotal, g, h, x
  <1> DEFINE S == {n \in 0..N : FirstTotal(f, n) \in Nat}
  <1>4. 0 \in S
    BY <1>1
  <1>5. ASSUME NEW n \in 0..(N - 1), n \in S PROVE n + 1 \in S
    <2>1. f[n + 1] \in Nat /\ n + 1 \in 0..N /\ FirstTotal(f, n) \in Nat
      BY <1>5
    <2>2. FirstTotal(f, n + 1) \in Nat
      BY <1>3, <2>1
    <2> QED BY <2>1, <2>2
  <1> HIDE DEF S
  <1>6. 0..N \subseteq S
    BY <1>4, <1>5, UpTo
  <1>7. \A n \in 0..N : FirstTotal(f, n) \in Nat
    BY <1>6 DEF S
  <1>8. ASSUME NEW n \in 0..N PROVE FirstTotal(f, n) <= FirstTotal(f, N)
    <2> DEFINE D == {d \in 0..(N - n) : FirstTotal(f, n) <= FirstTotal(f, n + d)}
    <2>1. 0 \in D
      <3>1. n + 0 = n /\ FirstTotal(f, n) \in Nat /\ 0 \in 0..(N - n)
        BY <1>7
      <3> QED BY <3>1
    <2>2. ASSUME NEW d \in 0..((N - n) - 1), d \in D PROVE d + 1 \in D
      <3>1. /\ n + d \in 0..(N - 1) /\ n + d \in 0..N /\ n + (d + 1) = (n + d) + 1 /\ d + 1 \in 0..(N - n)
            /\ (n + d) + 1 \in 1..N
        OBVIOUS
      <3>2. /\ FirstTotal(f, (n + d) + 1) = FirstTotal(f, n + d) + f[(n + d) + 1]
            /\ FirstTotal(f, n + d) \in Nat /\ FirstTotal(f, n) \in Nat /\ f[(n + d) + 1] \in Nat
        BY <1>3, <1>7, <3>1
      <3>3. FirstTotal(f, n) <= FirstTotal(f, n + d)
        BY <2>2
      <3>4. FirstTotal(f, n) <= FirstTotal(f, (n + d) + 1)
        BY <3>2, <3>3
      <3> QED BY <3>1, <3>4
    <2> HIDE DEF D
    <2>3. N - n \in Nat
      OBVIOUS
    <2>4. 0..(N - n) \subseteq D
      BY <2>1, <2>2, <2>3, UpTo
    <2>5. N - n \in D /\ n + (N - n) = N
      BY <2>3, <2>4
    <2> QED BY <2>5 DEF D
  <1>9. ASSUME NEW n \in 0..(N - 1) PROVE FirstTotal(f, n) + f[n + 1] <= FirstTotal(f, N)
    <2>1. n + 1 \in 0..N
      OBVIOUS
    <2> QED BY <1>3, <1>8, <2>1
  <1> QED BY <1>1, <1>3, <1>7, <1>8, <1>9
-----------------------------------------------------------------------------
(* What a sequence holds, and what it ends with.                           *)

(* A sequence without elements.                                            *)
LEMMA EmptyRange == Range(<<>>) = {} /\ IsInjective(<<>>)
  BY DEF Range, IsInjective

(* The elements of a sequence and their places.                            *)
LEMMA RangeInSet ==
  ASSUME NEW T, NEW s \in Seq(T)
  PROVE  /\ Range(s) \subseteq T
         /\ \A x \in Range(s) : \E i \in 1..Len(s) : s[i] = x
         /\ \A i \in 1..Len(s) : s[i] \in Range(s)
  BY DEF Range

(* One more element.                                                       *)
LEMMA RangeOfAppend ==
  ASSUME NEW T, NEW s \in Seq(T), NEW x \in T
  PROVE  /\ Append(s, x) \in Seq(T) /\ Range(Append(s, x)) = Range(s) \cup {x}
         /\ IsInjective(s) /\ x \notin Range(s) => IsInjective(Append(s, x))
  <1> DEFINE t == Append(s, x)
  <1>1. /\ t \in Seq(T) /\ Len(t) = Len(s) + 1 /\ Len(s) \in Nat /\ t[Len(s) + 1] = x
        /\ \A i \in 1..Len(s) : t[i] = s[i]
        /\ DOMAIN t = 1..(Len(s) + 1) /\ DOMAIN s = 1..Len(s)
    OBVIOUS
  <1> HIDE DEF t
  <1>2. \A i \in 1..(Len(s) + 1) : i \in 1..Len(s) \/ i = Len(s) + 1
    BY <1>1
  <1>3. 1..Len(s) \subseteq 1..(Len(s) + 1) /\ Len(s) + 1 \in 1..(Len(s) + 1)
    BY <1>1
  <1>4. Range(t) = Range(s) \cup {x}
    BY <1>1, <1>2, <1>3 DEF Range
  <1>5. ASSUME IsInjective(s), x \notin Range(s) PROVE IsInjective(t)
    <2>1. \A i \in 1..Len(s) : s[i] # x
      BY <1>1, <1>5 DEF Range
    <2> SUFFICES ASSUME NEW i \in DOMAIN t, NEW j \in DOMAIN t, t[i] = t[j] PROVE i = j
      BY DEF IsInjective
    <2>2. (i \in 1..Len(s) \/ i = Len(s) + 1) /\ (j \in 1..Len(s) \/ j = Len(s) + 1)
      BY <1>1, <1>2
    <2>3. CASE i \in 1..Len(s) /\ j \in 1..Len(s)
      BY <1>1, <1>5, <2>3 DEF IsInjective
    <2>4. CASE i \in 1..Len(s) /\ j = Len(s) + 1
      BY <1>1, <2>1, <2>4
    <2>5. CASE i = Len(s) + 1 /\ j \in 1..Len(s)
      BY <1>1, <2>1, <2>5
    <2> QED BY <2>2, <2>3, <2>4, <2>5
  <1> QED BY <1>1, <1>4, <1>5 DEF t

(* One element less.                                                       *)
LEMMA RangeOfTail ==
  ASSUME NEW T, NEW s \in Seq(T), s # <<>>
  PROVE  /\ Head(s) \in T /\ Tail(s) \in Seq(T)
         /\ Len(Tail(s)) = Len(s) - 1 /\ Head(s) = s[1]
         /\ \A i \in 1..Len(Tail(s)) : Tail(s)[i] = s[i + 1] /\ i + 1 \in 1..Len(s)
         /\ Range(s) = {Head(s)} \cup Range(Tail(s))
         /\ IsInjective(s) => IsInjective(Tail(s)) /\ Head(s) \notin Range(Tail(s))
  <1> DEFINE t == Tail(s)
  <1>1. /\ t \in Seq(T) /\ Len(t) = Len(s) - 1 /\ Len(s) \in Nat /\ Len(s) > 0
        /\ \A i \in 1..Len(t) : t[i] = s[i + 1]
        /\ Head(s) = s[1] /\ s[1] \in T
        /\ DOMAIN t = 1..Len(t) /\ DOMAIN s = 1..Len(s)
    OBVIOUS
  <1> HIDE DEF t
  <1>2. /\ \A i \in 1..Len(s) : i = 1 \/ (i - 1 \in 1..Len(t) /\ (i - 1) + 1 = i)
        /\ \A i \in 1..Len(t) : i + 1 \in 1..Len(s) /\ i + 1 # 1
        /\ 1 \in 1..Len(s)
    BY <1>1
  <1>3. Range(s) = {s[1]} \cup Range(t)
    <2>1. Range(s) \subseteq {s[1]} \cup Range(t)
      <3> SUFFICES ASSUME NEW i \in 1..Len(s) PROVE s[i] \in {s[1]} \cup Range(t)
        BY <1>1 DEF Range
      <3>1. CASE i = 1
        BY <3>1
      <3>2. CASE i # 1
        <4>1. i - 1 \in 1..Len(t) /\ t[i - 1] = s[i]
          BY <1>1, <1>2, <3>2
        <4> QED BY <1>1, <4>1 DEF Range
      <3> QED BY <3>1, <3>2
    <2>2. {s[1]} \cup Range(t) \subseteq Range(s)
      BY <1>1, <1>2 DEF Range
    <2> QED BY <2>1, <2>2
  <1>4. ASSUME IsInjective(s) PROVE IsInjective(t) /\ s[1] \notin Range(t)
    <2>1. ASSUME NEW i \in 1..Len(t), NEW j \in 1..Len(t), t[i] = t[j] PROVE i = j
      <3>1. s[i + 1] = s[j + 1] /\ i + 1 \in 1..Len(s) /\ j + 1 \in 1..Len(s)
        BY <1>1, <1>2, <2>1
      <3>2. i + 1 = j + 1
        BY <1>1, <1>4, <3>1 DEF IsInjective
      <3> QED BY <1>1, <3>2
    <2>2. ASSUME NEW i \in 1..Len(t), t[i] = s[1] PROVE FALSE
      BY <1>1, <1>2, <1>4, <2>2 DEF IsInjective
    <2> QED BY <1>1, <2>1, <2>2 DEF IsInjective, Range
  <1> QED BY <1>1, <1>2, <1>3, <1>4 DEF t

(* Two sequences joined.                                                   *)
LEMMA RangeOfJoin ==
  ASSUME NEW T, NEW s \in Seq(T), NEW t \in Seq(T)
  PROVE  /\ s \o t \in Seq(T) /\ Range(s \o t) = Range(s) \cup Range(t)
         /\ IsInjective(s) /\ IsInjective(t) /\ Range(s) \cap Range(t) = {} => IsInjective(s \o t)
  <1> DEFINE u == s \o t
             m == Len(s)
  <1>1. /\ u \in Seq(T) /\ Len(u) = m + Len(t) /\ m \in Nat /\ Len(t) \in Nat
        /\ DOMAIN u = 1..(m + Len(t)) /\ DOMAIN s = 1..m /\ DOMAIN t = 1..Len(t)
    OBVIOUS
  <1>2. \A i \in 1..(m + Len(t)) : u[i] = IF i <= m THEN s[i] ELSE t[i - m]
    OBVIOUS
  <1> HIDE DEF u, m
  <1>3. /\ \A i \in 1..m : i \in 1..(m + Len(t)) /\ u[i] = s[i]
        /\ \A i \in 1..Len(t) : i + m \in 1..(m + Len(t)) /\ u[i + m] = t[i]
        /\ \A i \in 1..(m + Len(t)) :
             i \in 1..m \/ (i - m \in 1..Len(t) /\ (i - m) + m = i)
    <2> DEFINE n == Len(t)
    <2>n. m \in Nat /\ n \in Nat
      BY <1>1
    <2> HIDE DEF n
    <2>1. ASSUME NEW i \in 1..m PROVE i \in 1..(m + n) /\ i <= m
      BY <2>n
    <2>2. ASSUME NEW i \in 1..n PROVE i + m \in 1..(m + n) /\ ~(i + m <= m) /\ (i + m) - m = i
      BY <2>n
    <2>3. ASSUME NEW i \in 1..(m + n)
          PROVE  i \in 1..m \/ (i - m \in 1..n /\ (i - m) + m = i)
      BY <2>n
    <2>4. \A i \in 1..(m + n) : u[i] = IF i <= m THEN s[i] ELSE t[i - m]
      BY <1>2 DEF n
    <2>5. /\ \A i \in 1..m : i \in 1..(m + n) /\ u[i] = s[i]
          /\ \A i \in 1..n : i + m \in 1..(m + n) /\ u[i + m] = t[i]
      BY <2>1, <2>2, <2>4, Zenon
    <2> QED BY <2>3, <2>5 DEF n
  <1>4. Range(u) = Range(s) \cup Range(t)
    <2>1. ASSUME NEW i \in 1..(m + Len(t)) PROVE u[i] \in Range(s) \cup Range(t)
      <3>1. CASE i \in 1..m
        BY <1>1, <1>3, <3>1 DEF Range
      <3>2. CASE i - m \in 1..Len(t) /\ (i - m) + m = i
        <4>1. u[i] = t[i - m]
          BY <1>3, <3>2
        <4> QED BY <1>1, <3>2, <4>1 DEF Range
      <3> QED BY <1>3, <3>1, <3>2
    <2>2. Range(u) \subseteq Range(s) \cup Range(t)
      BY <1>1, <2>1 DEF Range
    <2>3. Range(s) \subseteq Range(u)
      BY <1>1, <1>3 DEF Range
    <2>4. Range(t) \subseteq Range(u)
      <3> SUFFICES ASSUME NEW i \in 1..Len(t) PROVE t[i] \in Range(u)
        BY <1>1 DEF Range
      <3>1. i + m \in 1..(m + Len(t)) /\ u[i + m] = t[i]
        BY <1>3
      <3> QED BY <1>1, <3>1 DEF Range
    <2> QED BY <2>2, <2>3, <2>4
  <1>5. ASSUME IsInjective(s), IsInjective(t), Range(s) \cap Range(t) = {} PROVE IsInjective(u)
    <2>1. \A i \in 1..m, j \in 1..Len(t) : s[i] # t[j]
      BY <1>1, <1>5 DEF Range
    <2> SUFFICES ASSUME NEW i \in 1..(m + Len(t)), NEW j \in 1..(m + Len(t)), u[i] = u[j] PROVE i = j
      BY <1>1 DEF IsInjective
    <2>2. CASE i \in 1..m /\ j \in 1..m
      BY <1>1, <1>3, <1>5, <2>2 DEF IsInjective
    <2>3. CASE i \in 1..m /\ j \notin 1..m
      <3>1. u[i] = s[i] /\ j - m \in 1..Len(t) /\ u[j] = t[j - m]
        BY <1>3, <2>3
      <3> QED BY <2>1, <2>3, <3>1
    <2>4. CASE i \notin 1..m /\ j \in 1..m
      <3>1. u[j] = s[j] /\ i - m \in 1..Len(t) /\ u[i] = t[i - m]
        BY <1>3, <2>4
      <3> QED BY <2>1, <2>4, <3>1
    <2>5. CASE i \notin 1..m /\ j \notin 1..m
      <3>1. /\ i - m \in 1..Len(t) /\ j - m \in 1..Len(t) /\ u[i] = t[i - m] /\ u[j] = t[j - m]
            /\ (i - m) + m = i /\ (j - m) + m = j
        BY <1>3, <2>5
      <3>2. i - m = j - m
        BY <1>1, <1>5, <3>1 DEF IsInjective
      <3> QED BY <3>1, <3>2
    <2> QED BY <2>2, <2>3, <2>4, <2>5
  <1> QED BY <1>1, <1>4, <1>5 DEF u

(* IsSuffix, by the places of the elements.                                *)
LEMMA EndsAlike ==
  ASSUME NEW T, NEW s \in Seq(T), NEW t \in Seq(T), Len(s) <= Len(t),
         \A i \in 1..Len(s) : s[i] = t[i + (Len(t) - Len(s))]
  PROVE  IsSuffix(s, t)
  <1> DEFINE m == Len(s)
             n == Len(t)
             a == Reverse(s)
             b == Reverse(t)
  <1>1. m \in Nat /\ n \in Nat /\ m <= n
    OBVIOUS
  <1>2. /\ a = [i \in 1..m |-> s[(m - i) + 1]] /\ b = [i \in 1..n |-> t[(n - i) + 1]]
    BY DEF Reverse
  <1>3. /\ a \in Seq(T) /\ Len(a) = m /\ \A i \in 1..m : a[i] = s[(m - i) + 1]
        /\ b \in Seq(T) /\ Len(b) = n /\ \A i \in 1..n : b[i] = t[(n - i) + 1]
    <2>1. \A i \in 1..m : s[(m - i) + 1] \in T
      BY <1>1
    <2>2. \A i \in 1..n : t[(n - i) + 1] \in T
      BY <1>1
    <2>3. a \in [1..m -> T] /\ b \in [1..n -> T]
      BY <1>2, <2>1, <2>2
    <2>4. a \in Seq(T) /\ b \in Seq(T)
      <3> HIDE DEF a, b, m, n
      <3> QED BY <1>1, <2>3, IsASeq
    <2>5. Len(a) = m /\ Len(b) = n
      BY <1>1, <2>3, <2>4, LenProperties
    <2> HIDE DEF a, b
    <2> QED BY <1>2, <2>4, <2>5
  <1> HIDE DEF a, b, m, n
  <1>4. \A i \in 1..m : a[i] = b[i]
    <2> TAKE i \in 1..m
    <2> DEFINE j == (m - i) + 1
    <2>1. j \in 1..m /\ j + (n - m) = (n - i) + 1 /\ i \in 1..n
      BY <1>1
    <2>2. s[j] = t[j + (n - m)]
      <3> HIDE DEF j
      <3> QED BY <2>1 DEF m, n
    <2>3. a[i] = s[j] /\ b[i] = t[(n - i) + 1]
      BY <1>3, <2>1
    <2> QED BY <2>1, <2>2, <2>3
  <1>5. IsPrefix(a, b)
    <2>1. SubSeq(a, 1, m) = SubSeq(b, 1, m)
      <3>1. SubSeq(a, 1, m) \in Seq(T) /\ Len(SubSeq(a, 1, m)) = m
            /\ \A i \in 1..m : SubSeq(a, 1, m)[i] = a[i]
        BY <1>1, <1>3
      <3>2. SubSeq(b, 1, m) \in Seq(T) /\ Len(SubSeq(b, 1, m)) = m
            /\ \A i \in 1..m : SubSeq(b, 1, m)[i] = b[i]
        BY <1>1, <1>3
      <3> DEFINE u == SubSeq(a, 1, m)
                 v == SubSeq(b, 1, m)
      <3>3. u \in Seq(T) /\ v \in Seq(T) /\ Len(u) = Len(v) /\ \A i \in 1..Len(u) : u[i] = v[i]
        BY <1>4, <3>1, <3>2
      <3> HIDE DEF u, v
      <3>4. u = v
        BY <3>3, SeqEqual
      <3> QED BY <3>4 DEF u, v
    <2> QED BY <1>1, <1>3, <2>1 DEF IsPrefix
  <1> QED BY <1>5 DEF IsSuffix, a, b

(* Every sequence ends with nothing.                                       *)
LEMMA EmptySuffix ==
  ASSUME NEW T, NEW t \in Seq(T)
  PROVE  IsSuffix(<<>>, t)
  <1> DEFINE s == <<>>
  <1>1. s \in Seq(T) /\ Len(s) = 0 /\ Len(s) <= Len(t)
    OBVIOUS
  <1>2. \A i \in 1..Len(s) : s[i] = t[i + (Len(t) - Len(s))]
    BY <1>1
  <1> HIDE DEF s
  <1>3. IsSuffix(s, t)
    BY <1>1, <1>2, EndsAlike
  <1> QED BY <1>3 DEF s
=============================================================================
