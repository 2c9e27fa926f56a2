----------------------------- MODULE FoldProofs -----------------------------
(***************************************************************************)
(* What the proofs of PartsProofs and TypeListProofs need of numbers and   *)
(* sequences: the least and the greatest of a set, induction with a set in *)
(* the place of the property, and a fold taken step by step.               *)
(***************************************************************************)
EXTENDS Integers, SequencesExt, SequenceTheorems, WellFoundedInduction, TLAPS

-----------------------------------------------------------------------------
(* Induction *)

\* Every set of numbers has a least one: the library's theorem about well-founded
\* relations, for <.
LEMMA LeastNumber ==
  ASSUME NEW T \in SUBSET Nat, T # {}
  PROVE  \E n \in T : \A m \in T : n <= m
<1>1. \E n \in T : \A m \in T : <<m, n>> \notin OpToRel(<, Nat)
  BY NatLessThanWellFounded, WFMin
<1>2. PICK n \in T : \A m \in T : <<m, n>> \notin OpToRel(<, Nat)
  BY <1>1
<1>3. \A m \in T : ~(m < n)
  BY <1>2 DEF OpToRel
<1> QED
  BY <1>3

\* Induction, with a set for the property.
LEMMA Induction ==
  ASSUME NEW T, 0 \in T, \A n \in Nat : n \in T => n + 1 \in T
  PROVE  Nat \subseteq T
<1> SUFFICES ASSUME NEW k \in Nat, k \notin T PROVE FALSE
  OBVIOUS
<1> DEFINE U == Nat \ T
<1>1. PICK n \in U : \A m \in U : n <= m
  BY LeastNumber
<1>2. n # 0 /\ n - 1 \in Nat
  BY <1>1
<1>3. n - 1 \in T
  BY <1>1, <1>2
<1> QED
  BY <1>1, <1>2, <1>3

\* A set of indices has a greatest one, which is what Max chooses.
LEMMA MaxOfIndices ==
  ASSUME NEW n \in Nat, NEW S \in SUBSET (1..n), S # {}
  PROVE  Max(S) \in S /\ \A m \in S : m <= Max(S)
<1> DEFINE U == {u \in Nat : \A m \in S : m <= u}
<1>1. PICK u \in U : \A v \in U : u <= v
  <2>1. n \in U
    OBVIOUS
  <2> QED
    BY <2>1, LeastNumber
<1>2. u \in S
  <2> SUFFICES ASSUME u \notin S PROVE FALSE
    OBVIOUS
  <2>1. PICK m \in S : TRUE
    OBVIOUS
  <2>2. u >= 1 /\ u - 1 \in Nat
    BY <2>1, <1>1
  <2>3. \A k \in S : k <= u - 1
    BY <1>1, <2>2
  <2>4. u - 1 \in U
    BY <2>2, <2>3
  <2> QED
    BY <2>4, <1>1
<1>3. \E x \in S : \A y \in S : x >= y
  BY <1>1, <1>2
<1>4. Max(S) \in S /\ \A y \in S : Max(S) >= y
  BY <1>3 DEF Max
<1> QED
  BY <1>4

\* What a property has of every shorter sequence it has of all.
LEMMA SeqInduction ==
  ASSUME NEW S, NEW T, <<>> \in T,
         \A s \in Seq(S), e \in S : s \in T => Append(s, e) \in T
  PROVE  Seq(S) \subseteq T
<1> DEFINE D == {n \in Nat : \A s \in Seq(S) : Len(s) = n => s \in T}
<1>1. 0 \in D
  <2>1. \A s \in Seq(S) : Len(s) = 0 => s = <<>>
    OBVIOUS
  <2> QED
    BY <2>1
<1>2. ASSUME NEW n \in Nat, n \in D PROVE n + 1 \in D
  <2> SUFFICES ASSUME NEW s \in Seq(S), Len(s) = n + 1 PROVE s \in T
    OBVIOUS
  <2> DEFINE h == SubSeq(s, 1, n)
  <2>1. h \in Seq(S) /\ Len(h) = n /\ \A i \in 1..n : h[i] = s[i]
    <3>1. \A i \in 1..n : s[i] \in S
      OBVIOUS
    <3> QED
      BY <3>1, SubSeqProperties
  <2>2. s[n + 1] \in S
    OBVIOUS
  <2>3. s = Append(h, s[n + 1])
    <3> HIDE DEF h
    <3>1. Append(h, s[n + 1]) \in Seq(S) /\ Len(Append(h, s[n + 1])) = n + 1
      BY <2>1, <2>2
    <3>2. \A i \in 1..(n + 1) : Append(h, s[n + 1])[i] = s[i]
      BY <2>1, <2>2
    <3> QED
      BY <3>1, <3>2, SeqEqual
  <2> HIDE DEF h
  <2>4. h \in T
    BY <2>1, <1>2
  <2> QED
    BY <2>1, <2>2, <2>3, <2>4
<1> HIDE DEF D
<1>3. Nat \subseteq D
  BY <1>1, <1>2, Induction
<1>4. ASSUME NEW s \in Seq(S) PROVE s \in T
  <2>1. Len(s) \in D
    BY <1>3
  <2> QED
    BY <2>1 DEF D
<1> QED
  BY <1>4

-----------------------------------------------------------------------------
(* Folds *)

\* FoldLeft is the value at 1..n of a function on the sets of indices, defined by
\* recursion on their greatest element.  step[<<v, k>>] is what the operator makes
\* of v and the k-th element.
Steps(f, n, base, step) ==
   f = [S \in SUBSET (1..n) |-> IF S = {} THEN base ELSE step[<<f[S \ {Max(S)}], Max(S)>>]]

\* There is such a function, with values in T ...
Solvable(k, T, base, step) == \E f \in [SUBSET (1..k) -> T] : Steps(f, k, base, step)

\* ... for every n: a set that has n + 1 is the last step of one that has not.
LEMMA FoldExists ==
  ASSUME NEW n \in Nat, NEW T, NEW base \in T, NEW step \in [T \X (1..n) -> T]
  PROVE  Solvable(n, T, base, step)
<1> DEFINE D == {k \in Nat : k <= n => Solvable(k, T, base, step)}
<1>1. 0 \in D
  <2> DEFINE f == [S \in SUBSET (1..0) |-> base]
  <2>1. \A S \in SUBSET (1..0) : S = {}
    OBVIOUS
  <2>2. f \in [SUBSET (1..0) -> T]
    OBVIOUS
  <2>3. Steps(f, 0, base, step)
    BY <2>1 DEF Steps
  <2> QED
    BY <2>2, <2>3 DEF Solvable
<1>2. ASSUME NEW k \in Nat, k \in D PROVE k + 1 \in D
  <2> SUFFICES ASSUME k + 1 <= n
               PROVE  Solvable(k + 1, T, base, step)
    OBVIOUS
  <2>1. PICK g \in [SUBSET (1..k) -> T] : Steps(g, k, base, step)
    <3>1. Solvable(k, T, base, step)
      BY <1>2
    <3> QED
      BY <3>1 DEF Solvable
  <2> DEFINE f == [S \in SUBSET (1..(k + 1)) |->
                     IF k + 1 \in S THEN step[<<g[S \ {k + 1}], k + 1>>] ELSE g[S]]
  <2>2. ASSUME NEW S \in SUBSET (1..(k + 1)), k + 1 \in S
        PROVE  Max(S) = k + 1 /\ S \ {k + 1} \in SUBSET (1..k)
    <3>1. Max(S) \in S /\ \A m \in S : m <= Max(S)
      <4>1. k + 1 \in Nat /\ S # {}
        BY <2>2
      <4> QED
        BY <4>1, MaxOfIndices
    <3>2. Max(S) = k + 1
      <4>1. Max(S) \in 1..(k + 1)
        BY <3>1
      <4> QED
        BY <4>1, <3>1, <2>2
    <3> QED
      BY <3>2, <2>2
  <2>3. ASSUME NEW S \in SUBSET (1..(k + 1)), k + 1 \notin S
        PROVE  S \in SUBSET (1..k)
    BY <2>3
  <2>4. f \in [SUBSET (1..(k + 1)) -> T]
    <3> SUFFICES ASSUME NEW S \in SUBSET (1..(k + 1)) PROVE f[S] \in T
      OBVIOUS
    <3>1. CASE k + 1 \in S
      <4>1. g[S \ {k + 1}] \in T /\ k + 1 \in 1..n
        BY <3>1, <2>2
      <4>2. f[S] = step[<<g[S \ {k + 1}], k + 1>>]
        BY <3>1
      <4> QED
        BY <4>1, <4>2
    <3>2. CASE k + 1 \notin S
      BY <3>2, <2>3
    <3> QED
      BY <3>1, <3>2
  <2>5. ASSUME NEW S \in SUBSET (1..(k + 1))
        PROVE  f[S] = IF S = {} THEN base ELSE step[<<f[S \ {Max(S)}], Max(S)>>]
    <3>1. CASE k + 1 \in S
      <4>1. Max(S) = k + 1 /\ S \ {k + 1} \in SUBSET (1..k)
        BY <3>1, <2>2
      <4>2. f[S \ {k + 1}] = g[S \ {k + 1}]
        BY <4>1
      <4>3. f[S] = step[<<g[S \ {k + 1}], k + 1>>] /\ S # {}
        BY <3>1
      <4> QED
        BY <4>1, <4>2, <4>3
    <3>2. CASE k + 1 \notin S /\ S # {}
      <4>1. S \in SUBSET (1..k)
        BY <3>2, <2>3
      <4>2. Max(S) \in S
        BY <4>1, <3>2, MaxOfIndices
      <4>3. S \ {Max(S)} \in SUBSET (1..k) /\ k + 1 \notin S \ {Max(S)}
        BY <4>1, <3>2
      <4>4. f[S] = g[S] /\ f[S \ {Max(S)}] = g[S \ {Max(S)}]
        BY <3>2, <4>3
      <4>5. g[S] = step[<<g[S \ {Max(S)}], Max(S)>>]
        BY <2>1, <4>1, <3>2 DEF Steps
      <4> QED
        BY <4>4, <4>5, <3>2
    <3>3. CASE S = {}
      <4>1. f[S] = g[S] /\ S \in SUBSET (1..k)
        BY <3>3
      <4> QED
        BY <4>1, <3>3, <2>1 DEF Steps
    <3> QED
      BY <3>1, <3>2, <3>3
  <2>6. Steps(f, k + 1, base, step)
    BY <2>5 DEF Steps
  <2> QED
    BY <2>4, <2>6 DEF Solvable
<1>3. n \in D
  BY <1>1, <1>2, Induction
<1> QED
  BY <1>3

\* The sets of indices that matter.
LEMMA UpTo ==
  ASSUME NEW n \in Nat, NEW k \in 1..n
  PROVE  /\ (1..k) \in SUBSET (1..n) /\ 1..k # {}
         /\ Max(1..k) = k /\ (1..k) \ {Max(1..k)} = 1..(k - 1)
<1>1. (1..k) \in SUBSET (1..n) /\ k \in 1..k
  OBVIOUS
<1>2. Max(1..k) \in 1..k /\ \A m \in 1..k : m <= Max(1..k)
  BY <1>1, MaxOfIndices
<1>3. Max(1..k) = k
  BY <1>1, <1>2
<1> QED
  BY <1>1, <1>3

\* v is what n steps make of base, one after the other.
Chain(g, n, T, base, step) ==
    /\ g \in [0..n -> T]
    /\ g[0] = base
    /\ \A k \in 1..n : g[k] = step[<<g[k - 1], k>>]

IsFold(v, n, T, base, step) == \E g : Chain(g, n, T, base, step) /\ v = g[n]

\* A function as above, taken at 1..n, has gone through the steps one by one.
LEMMA FoldByStep ==
  ASSUME NEW n \in Nat, NEW T, NEW base \in T, NEW step \in [T \X (1..n) -> T],
         NEW f, f[{}] = base,
         \A S \in SUBSET (1..n) : S # {} /\ f[S \ {Max(S)}] \in T =>
             f[S] = step[<<f[S \ {Max(S)}], Max(S)>>]
  PROVE  IsFold(f[1..n], n, T, base, step)
<1> DEFINE g == [k \in 0..n |-> f[1..k]]
           D == {k \in Nat : k <= n => g[k] \in T}
<1>1. g[0] = base
  <2>1. 1..0 = {} /\ 0 \in 0..n
    OBVIOUS
  <2> QED
    BY <2>1
<1>2. ASSUME NEW k \in 1..n, g[k - 1] \in T
      PROVE  g[k] = step[<<g[k - 1], k>>] /\ g[k] \in T
  <2>1. k \in 0..n /\ k - 1 \in 0..n
    OBVIOUS
  <2>2. /\ (1..k) \in SUBSET (1..n) /\ 1..k # {}
        /\ Max(1..k) = k /\ (1..k) \ {Max(1..k)} = 1..(k - 1)
    BY UpTo
  <2>3. f[1..k] = step[<<f[1..(k - 1)], k>>]
    BY <1>2, <2>1, <2>2
  <2>4. g[k] = step[<<g[k - 1], k>>]
    BY <2>1, <2>3
  <2> QED
    BY <1>2, <2>4
<1>3. ASSUME NEW k \in Nat, k \in D PROVE k + 1 \in D
  <2> SUFFICES ASSUME k + 1 <= n PROVE g[k + 1] \in T
    OBVIOUS
  <2>1. k + 1 \in 1..n /\ g[(k + 1) - 1] \in T
    BY <1>3
  <2> QED
    BY <2>1, <1>2
<1>4. 0 \in D
  BY <1>1
<1> HIDE DEF D
<1>5. Nat \subseteq D
  BY <1>3, <1>4, Induction
<1>6. ASSUME NEW k \in 0..n PROVE g[k] \in T
  <2>1. k \in Nat /\ k <= n /\ k \in D
    BY <1>5
  <2> QED
    BY <2>1 DEF D
<1>7. \A k \in 1..n : g[k] = step[<<g[k - 1], k>>]
  <2> SUFFICES ASSUME NEW k \in 1..n PROVE g[k] = step[<<g[k - 1], k>>]
    OBVIOUS
  <2>1. k - 1 \in 0..n
    OBVIOUS
  <2> QED
    BY <2>1, <1>2, <1>6
<1>8. g \in [0..n -> T] /\ f[1..n] = g[n]
  BY <1>6
<1> HIDE DEF g
<1> QED
  BY <1>1, <1>7, <1>8 DEF IsFold, Chain

\* One more element is one more step.
LEMMA FoldOfOneMore ==
  ASSUME NEW n \in Nat, NEW T, NEW base, NEW v, NEW w, NEW short, NEW long,
         IsFold(v, n, T, base, short), IsFold(w, n + 1, T, base, long),
         \A t \in T, k \in 1..n : long[<<t, k>>] = short[<<t, k>>]
  PROVE  v \in T /\ w \in T /\ w = long[<<v, n + 1>>]
<1>1. PICK g : Chain(g, n, T, base, short) /\ v = g[n]
  BY DEF IsFold
<1>2. PICK h : Chain(h, n + 1, T, base, long) /\ w = h[n + 1]
  BY DEF IsFold
<1> DEFINE D == {k \in Nat : k <= n => g[k] = h[k]}
<1>3. 0 \in D
  BY <1>1, <1>2 DEF Chain
<1>4. ASSUME NEW k \in Nat, k \in D PROVE k + 1 \in D
  <2> SUFFICES ASSUME k + 1 <= n PROVE g[k + 1] = h[k + 1]
    OBVIOUS
  <2>1. g[k] = h[k] /\ g[k] \in T /\ k + 1 \in 1..n /\ k + 1 \in 1..(n + 1) /\ (k + 1) - 1 = k
    BY <1>1, <1>4 DEF Chain
  <2>2. g[k + 1] = short[<<g[k], k + 1>>] /\ h[k + 1] = long[<<h[k], k + 1>>]
    BY <1>1, <1>2, <2>1 DEF Chain
  <2> QED
    BY <2>1, <2>2
<1>5. n \in D
  <2> HIDE DEF D
  <2> QED
    BY <1>3, <1>4, Induction
<1>6. g[n] = h[n]
  BY <1>5
<1>7. n + 1 \in 1..(n + 1) /\ (n + 1) - 1 = n /\ n \in 0..n /\ n + 1 \in 0..(n + 1)
  OBVIOUS
<1>8. h[n + 1] = long[<<h[n], n + 1>>]
  BY <1>2, <1>7 DEF Chain
<1> QED
  BY <1>1, <1>2, <1>6, <1>7, <1>8 DEF Chain

\* No elements leave the base.
LEMMA FoldOfNone ==
  ASSUME NEW T, NEW base, NEW v, NEW step, IsFold(v, 0, T, base, step)
  PROVE  v = base
  BY DEF IsFold, Chain
=============================================================================
