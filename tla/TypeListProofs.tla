--------------------------- MODULE TypeListProofs ---------------------------
(***************************************************************************)
(* Proofs about TypeList, for any types, keys and values, and lists and    *)
(* dictionaries of any length.                                             *)
(***************************************************************************)
EXTENDS TypeList, FoldProofs

-----------------------------------------------------------------------------
(* Searches *)

\* f is as Search defines it, ...
SearchesFrom(f, n, found, end) ==
    f = [i \in 1..(n + 1) |->
            IF i > n THEN end ELSE IF i \in DOMAIN found THEN found[i] ELSE f[i + 1]]

\* ... and there is such a function.
LEMMA SearchSolvable ==
  ASSUME NEW n \in Nat, NEW found, NEW end
  PROVE  \E f : SearchesFrom(f, n, found, end)
<1> DEFINE From(i) == {j \in i..n : j \in DOMAIN found}
           first(i) == CHOOSE j \in From(i) : \A m \in From(i) : j <= m
           f == [i \in 1..(n + 1) |-> IF From(i) = {} THEN end ELSE found[first(i)]]
<1>1. ASSUME NEW i \in 1..(n + 1), From(i) # {}
      PROVE  first(i) \in From(i) /\ \A m \in From(i) : first(i) <= m
  <2>1. From(i) \in SUBSET Nat
    OBVIOUS
  <2>2. \E j \in From(i) : \A m \in From(i) : j <= m
    <3> HIDE DEF From
    <3> QED
      BY <2>1, <1>1, LeastNumber
  <2> QED
    BY <2>2
<1>2. ASSUME NEW i \in 1..(n + 1)
      PROVE  f[i] = IF i > n THEN end ELSE IF i \in DOMAIN found THEN found[i] ELSE f[i + 1]
  <2>1. CASE i > n
    <3>1. From(i) = {}
      BY <2>1
    <3> QED
      BY <2>1, <3>1
  <2>2. CASE i <= n /\ i \in DOMAIN found
    <3>1. i \in From(i)
      BY <2>2
    <3>2. first(i) = i
      <4>1. first(i) \in i..n /\ first(i) <= i
        BY <1>1, <3>1
      <4> QED
        BY <4>1
    <3> QED
      BY <2>2, <3>1, <3>2
  <2>3. CASE i <= n /\ i \notin DOMAIN found
    <3>1. From(i) = From(i + 1) /\ i + 1 \in 1..(n + 1) /\ ~(i > n)
      BY <2>3
    <3>2. first(i) = first(i + 1)
      BY <3>1
    <3> HIDE DEF From, first
    <3>3. f[i] = f[i + 1]
      BY <3>1, <3>2
    <3> QED
      BY <3>1, <3>3, <2>3
  <2> QED
    BY <2>1, <2>2, <2>3
<1>3. f = [i \in 1..(n + 1) |->
             IF i > n THEN end ELSE IF i \in DOMAIN found THEN found[i] ELSE f[i + 1]]
  <2> HIDE DEF From, first
  <2> QED
    BY <1>2
<1>4. SearchesFrom(f, n, found, end)
  BY <1>3 DEF SearchesFrom
<1> QED
  BY <1>4

\* A search is the value at 1 of a function as it defines it.
LEMMA SearchStarts ==
  ASSUME NEW S, NEW l \in Seq(S), NEW found, NEW end
  PROVE  \E from : SearchesFrom(from, Len(l), found, end) /\ Search(l, found, end) = from[1]
<1> DEFINE from == CHOOSE f : f = [i \in 1..(Len(l) + 1) |->
                      IF i > Len(l) THEN end ELSE IF i \in DOMAIN found THEN found[i] ELSE f[i + 1]]
<1>1. Search(l, found, end) = from[1]
  BY DEF Search
<1>2. \E f : SearchesFrom(f, Len(l), found, end)
  <2>1. Len(l) \in Nat
    OBVIOUS
  <2> QED
    BY <2>1, SearchSolvable
<1>3. SearchesFrom(from, Len(l), found, end)
  BY <1>2 DEF SearchesFrom
<1> HIDE DEF from
<1> QED
  BY <1>1, <1>3

\* It ends at the first place it can ...
LEMMA SearchFinds ==
  ASSUME NEW S, NEW l \in Seq(S), NEW found, NEW end, NEW k \in 1..Len(l),
         k \in DOMAIN found, \A j \in 1..(k - 1) : j \notin DOMAIN found
  PROVE  Search(l, found, end) = found[k]
<1>1. PICK from : SearchesFrom(from, Len(l), found, end) /\ Search(l, found, end) = from[1]
  BY SearchStarts
<1>2. Len(l) \in Nat
  OBVIOUS
<1> DEFINE D == {j \in Nat : j < k => from[1] = from[j + 1]}
<1>3. ASSUME NEW j \in Nat, j \in D PROVE j + 1 \in D
  <2> SUFFICES ASSUME j + 1 < k PROVE from[1] = from[(j + 1) + 1]
    OBVIOUS
  <2>1. j + 1 \in 1..(Len(l) + 1) /\ ~(j + 1 > Len(l)) /\ j + 1 \notin DOMAIN found
    BY <1>2
  <2>2. from[j + 1] = from[(j + 1) + 1]
    BY <2>1, <1>1 DEF SearchesFrom
  <2>3. from[1] = from[j + 1]
    BY <1>3
  <2> QED
    BY <2>2, <2>3
<1>4. 0 \in D
  OBVIOUS
<1>5. k - 1 \in D
  <2> HIDE DEF D
  <2> QED
    BY <1>3, <1>4, Induction
<1>6. from[1] = from[k]
  BY <1>5
<1>7. k \in 1..(Len(l) + 1) /\ ~(k > Len(l))
  BY <1>2
<1> QED
  BY <1>1, <1>6, <1>7 DEF SearchesFrom

\* ... and else when the pack has run out.
LEMMA SearchEnds ==
  ASSUME NEW S, NEW l \in Seq(S), NEW found, NEW end,
         \A j \in 1..Len(l) : j \notin DOMAIN found
  PROVE  Search(l, found, end) = end
<1>1. PICK from : SearchesFrom(from, Len(l), found, end) /\ Search(l, found, end) = from[1]
  BY SearchStarts
<1>2. Len(l) \in Nat
  OBVIOUS
<1> DEFINE D == {j \in Nat : j <= Len(l) => from[1] = from[j + 1]}
<1>3. ASSUME NEW j \in Nat, j \in D PROVE j + 1 \in D
  <2> SUFFICES ASSUME j + 1 <= Len(l) PROVE from[1] = from[(j + 1) + 1]
    OBVIOUS
  <2>1. j + 1 \in 1..(Len(l) + 1) /\ ~(j + 1 > Len(l)) /\ j + 1 \notin DOMAIN found
    BY <1>2
  <2>2. from[j + 1] = from[(j + 1) + 1]
    BY <2>1, <1>1 DEF SearchesFrom
  <2>3. from[1] = from[j + 1]
    BY <1>2, <1>3
  <2> QED
    BY <2>2, <2>3
<1>4. 0 \in D
  OBVIOUS
<1>5. Len(l) \in D
  <2> HIDE DEF D
  <2> QED
    BY <1>2, <1>3, <1>4, Induction
<1>6. from[1] = from[Len(l) + 1]
  BY <1>2, <1>5
<1>7. Len(l) + 1 \in 1..(Len(l) + 1) /\ Len(l) + 1 > Len(l)
  BY <1>2
<1> QED
  BY <1>1, <1>6, <1>7 DEF SearchesFrom

-----------------------------------------------------------------------------
(* Collections, and what they keep *)

\* A collection grows by what part has of each element.
Collecting(g, n, part, T) ==
    /\ g \in [0..n -> Seq(T)]
    /\ g[0] = <<>>
    /\ \A k \in 1..n : g[k] = IF k \in DOMAIN part THEN Append(g[k - 1], part[k]) ELSE g[k - 1]

CollectStep(n, part, T) ==
    [p \in Seq(T) \X (1..n) |-> IF p[2] \in DOMAIN part THEN Append(p[1], part[p[2]]) ELSE p[1]]

\* There is such a growth for every part, ...
LEMMA CollectingSolvable ==
  ASSUME NEW n \in Nat, NEW T, NEW part, \A i \in DOMAIN part : part[i] \in T
  PROVE  \E g : Collecting(g, n, part, T)
<1>1. CollectStep(n, part, T) \in [Seq(T) \X (1..n) -> Seq(T)] /\ <<>> \in Seq(T)
  BY DEF CollectStep
<1>2. PICK f \in [SUBSET (1..n) -> Seq(T)] : Steps(f, n, <<>>, CollectStep(n, part, T))
  BY <1>1, FoldExists DEF Solvable
<1>3. f[{}] = <<>>
  BY <1>2 DEF Steps
<1>4. \A U \in SUBSET (1..n) : U # {} /\ f[U \ {Max(U)}] \in Seq(T) =>
          f[U] = CollectStep(n, part, T)[<<f[U \ {Max(U)}], Max(U)>>]
  BY <1>2 DEF Steps
<1>5. IsFold(f[1..n], n, Seq(T), <<>>, CollectStep(n, part, T))
  BY <1>1, <1>3, <1>4, FoldByStep
<1>6. PICK g : Chain(g, n, Seq(T), <<>>, CollectStep(n, part, T))
  BY <1>5 DEF IsFold
<1>7. ASSUME NEW k \in 1..n
      PROVE  g[k] = IF k \in DOMAIN part THEN Append(g[k - 1], part[k]) ELSE g[k - 1]
  <2>1. g[k - 1] \in Seq(T)
    BY <1>6 DEF Chain
  <2> QED
    BY <2>1, <1>6 DEF Chain, CollectStep
<1> QED
  BY <1>6, <1>7 DEF Collecting, Chain

\* ... and a collection is where it ends.
LEMMA CollectStarts ==
  ASSUME NEW S, NEW l \in Seq(S), NEW T, NEW part, \A i \in DOMAIN part : part[i] \in T
  PROVE  \E g : Collecting(g, Len(l), part, T) /\ Collect(l, part) = g[Len(l)]
<1> DEFINE upTo == CHOOSE f : f = [i \in 0..Len(l) |->
                      IF i = 0 THEN <<>>
                      ELSE IF i \in DOMAIN part THEN Append(f[i - 1], part[i]) ELSE f[i - 1]]
<1>1. Collect(l, part) = upTo[Len(l)]
  BY DEF Collect
<1>2. Len(l) \in Nat
  OBVIOUS
<1>3. PICK g : Collecting(g, Len(l), part, T)
  BY <1>2, CollectingSolvable
<1>4. g = [i \in 0..Len(l) |->
             IF i = 0 THEN <<>>
             ELSE IF i \in DOMAIN part THEN Append(g[i - 1], part[i]) ELSE g[i - 1]]
  <2>1. ASSUME NEW i \in 0..Len(l)
        PROVE  g[i] = IF i = 0 THEN <<>>
                      ELSE IF i \in DOMAIN part THEN Append(g[i - 1], part[i]) ELSE g[i - 1]
    <3>1. i # 0 => i \in 1..Len(l)
      BY <1>2
    <3> QED
      BY <3>1, <1>3 DEF Collecting
  <2> QED
    BY <2>1, <1>3 DEF Collecting
<1>5. upTo = [i \in 0..Len(l) |->
                IF i = 0 THEN <<>>
                ELSE IF i \in DOMAIN part THEN Append(upTo[i - 1], part[i]) ELSE upTo[i - 1]]
  BY <1>4
<1> HIDE DEF upTo
<1> DEFINE D == {k \in Nat : k <= Len(l) => upTo[k] = g[k]}
<1>6. 0 \in D
  BY <1>2, <1>3, <1>5 DEF Collecting
<1>7. ASSUME NEW k \in Nat, k \in D PROVE k + 1 \in D
  <2> SUFFICES ASSUME k + 1 <= Len(l) PROVE upTo[k + 1] = g[k + 1]
    OBVIOUS
  <2>1. k + 1 \in 0..Len(l) /\ k + 1 \in 1..Len(l) /\ k + 1 # 0 /\ (k + 1) - 1 = k /\ upTo[k] = g[k]
    BY <1>2, <1>7
  <2>2. upTo[k + 1] = IF k + 1 \in DOMAIN part THEN Append(upTo[k], part[k + 1]) ELSE upTo[k]
    BY <2>1, <1>5
  <2>3. g[k + 1] = IF k + 1 \in DOMAIN part THEN Append(g[k], part[k + 1]) ELSE g[k]
    BY <2>1, <1>3 DEF Collecting
  <2> QED
    BY <2>1, <2>2, <2>3
<1>8. Len(l) \in D
  <2> HIDE DEF D
  <2> QED
    BY <1>2, <1>6, <1>7, Induction
<1> QED
  BY <1>1, <1>2, <1>3, <1>8

\* What is kept of nothing, and with one element more behind the others.
LEMMA KeptNone == ASSUME NEW l PROVE IsKept(<<>>, l, {})
<1> DEFINE at == [i \in {} |-> i]
<1>1. at \in [DOMAIN <<>> -> {}] /\ DOMAIN <<>> = {}
  OBVIOUS
<1> QED
  BY <1>1 DEF IsKept

\* One more place behind the others keeps one more element.
LEMMA KeptOneMore ==
  ASSUME NEW T, NEW part \in Seq(T), NEW l, NEW n \in Nat, NEW keep \in SUBSET (1..n),
         IsKept(part, l, keep), l[n + 1] \in T
  PROVE  IsKept(Append(part, l[n + 1]), l, keep \cup {n + 1})
<1> DEFINE more == Append(part, l[n + 1])
           m    == Len(part)
<1>1. m \in Nat /\ DOMAIN part = 1..m
  OBVIOUS
<1>2. DOMAIN more = 1..(m + 1) /\ more[m + 1] = l[n + 1] /\ \A i \in 1..m : more[i] = part[i]
  OBVIOUS
<1> HIDE DEF more, m
<1>3. PICK at \in [1..m -> keep] :
         /\ \A i, j \in 1..m : i < j => at[i] < at[j]
         /\ \A k \in keep : \E i \in 1..m : at[i] = k
         /\ \A i \in 1..m : part[i] = l[at[i]]
  BY <1>1 DEF IsKept
<1> DEFINE at2 == [i \in 1..(m + 1) |-> IF i = m + 1 THEN n + 1 ELSE at[i]]
<1>4. ASSUME NEW i \in 1..m PROVE i \in 1..(m + 1) /\ at2[i] = at[i] /\ at[i] \in 1..n
  <2>1. i \in 1..(m + 1) /\ i # m + 1
    BY <1>1
  <2>2. at[i] \in keep
    BY <1>3
  <2> QED
    BY <2>1, <2>2
<1>5. m + 1 \in 1..(m + 1) /\ at2[m + 1] = n + 1
  BY <1>1
<1>6. ASSUME NEW i \in 1..(m + 1), i # m + 1 PROVE i \in 1..m
  BY <1>1, <1>6
<1>7. at2 \in [1..(m + 1) -> keep \cup {n + 1}]
  BY <1>3, <1>4, <1>6
<1> HIDE DEF at2
<1>8. ASSUME NEW i \in 1..(m + 1), NEW j \in 1..(m + 1), i < j PROVE at2[i] < at2[j]
  <2>1. i \in 1..m
    BY <1>1, <1>8
  <2>2. CASE j = m + 1
    BY <2>1, <2>2, <1>4, <1>5
  <2>3. CASE j \in 1..m
    BY <2>1, <2>3, <1>3, <1>4, <1>8
  <2> QED
    BY <2>2, <2>3, <1>6
<1>9. ASSUME NEW k \in keep \cup {n + 1} PROVE \E i \in 1..(m + 1) : at2[i] = k
  <2>1. CASE k \in keep
    BY <2>1, <1>3, <1>4
  <2>2. CASE k = n + 1
    BY <2>2, <1>5
  <2> QED
    BY <2>1, <2>2
<1>10. ASSUME NEW i \in 1..(m + 1) PROVE more[i] = l[at2[i]]
  BY <1>2, <1>3, <1>4, <1>5, <1>6
<1>11. DOMAIN more = 1..(m + 1)
  BY <1>2
<1>12. IsKept(more, l, keep \cup {n + 1})
  <2>1. at2 \in [DOMAIN more -> keep \cup {n + 1}]
    BY <1>7, <1>11
  <2>2. \A i, j \in DOMAIN more : i < j => at2[i] < at2[j]
    BY <1>8, <1>11
  <2>3. \A k \in keep \cup {n + 1} : \E i \in DOMAIN more : at2[i] = k
    BY <1>9, <1>11
  <2>4. \A i \in DOMAIN more : more[i] = l[at2[i]]
    BY <1>10, <1>11
  <2> QED
    BY <2>1, <2>2, <2>3, <2>4, Zenon DEF IsKept
<1> QED
  BY <1>12 DEF more

\* It only matters what there is at the places that are kept.
LEMMA KeptSame ==
  ASSUME NEW part, NEW l, NEW m, NEW keep, IsKept(part, l, keep), \A i \in keep : l[i] = m[i]
  PROVE  IsKept(part, m, keep)
  BY DEF IsKept

\* A collection keeps the places that part has.
LEMMA CollectKeeps ==
  ASSUME NEW S, NEW l \in Seq(S), NEW T, NEW part,
         DOMAIN part \in SUBSET (1..Len(l)), \A i \in DOMAIN part : part[i] \in T
  PROVE  Collect(l, part) \in Seq(T) /\ IsKept(Collect(l, part), part, DOMAIN part)
<1>1. PICK g : Collecting(g, Len(l), part, T) /\ Collect(l, part) = g[Len(l)]
  BY CollectStarts
<1>2. Len(l) \in Nat
  OBVIOUS
<1> DEFINE keep(k) == {i \in DOMAIN part : i <= k}
           D == {k \in Nat : k <= Len(l) => IsKept(g[k], part, keep(k))}
<1>3. 0 \in D
  <2>1. keep(0) = {}
    OBVIOUS
  <2>2. g[0] = <<>>
    BY <1>1 DEF Collecting
  <2> QED
    BY <2>1, <2>2, KeptNone
<1>4. ASSUME NEW k \in Nat, k \in D PROVE k + 1 \in D
  <2> SUFFICES ASSUME k + 1 <= Len(l) PROVE IsKept(g[k + 1], part, keep(k + 1))
    OBVIOUS
  <2>1. k + 1 \in 1..Len(l) /\ (k + 1) - 1 = k /\ k \in 0..Len(l) /\ IsKept(g[k], part, keep(k))
    BY <1>2, <1>4
  <2>2. g[k + 1] = IF k + 1 \in DOMAIN part THEN Append(g[k], part[k + 1]) ELSE g[k]
    BY <2>1, <1>1 DEF Collecting
  <2>3. CASE k + 1 \in DOMAIN part
    <3>1. keep(k + 1) = keep(k) \cup {k + 1} /\ keep(k) \in SUBSET (1..k)
      BY <2>3
    <3>2. g[k] \in Seq(T)
      BY <1>1, <2>1 DEF Collecting
    <3>3. part[k + 1] \in T
      BY <2>3
    <3> HIDE DEF keep
    <3>4. IsKept(Append(g[k], part[k + 1]), part, keep(k) \cup {k + 1})
      BY <2>1, <3>1, <3>2, <3>3, KeptOneMore
    <3> QED
      BY <2>2, <2>3, <3>1, <3>4
  <2>4. CASE k + 1 \notin DOMAIN part
    <3>1. keep(k + 1) = keep(k)
      BY <2>4
    <3> QED
      BY <2>1, <2>2, <2>4, <3>1
  <2> QED
    BY <2>3, <2>4
<1>5. Len(l) \in D
  <2> HIDE DEF D
  <2> QED
    BY <1>2, <1>3, <1>4, Induction
<1>6. keep(Len(l)) = DOMAIN part
  <2>1. \A i \in DOMAIN part : i \in 1..Len(l)
    OBVIOUS
  <2>2. \A i \in DOMAIN part : i <= Len(l)
    BY <1>2, <2>1
  <2> QED
    BY <2>2
<1>7. g[Len(l)] \in Seq(T)
  BY <1>1, <1>2 DEF Collecting
<1> QED
  BY <1>1, <1>2, <1>5, <1>6, <1>7

\* A collection of something of every element has it in its place.
LEMMA CollectAll ==
  ASSUME NEW S, NEW l \in Seq(S), NEW T, NEW part \in [1..Len(l) -> T]
  PROVE  Collect(l, part) = part
<1>0. DOMAIN part = 1..Len(l) /\ \A i \in DOMAIN part : part[i] \in T
  OBVIOUS
<1>1. PICK g : Collecting(g, Len(l), part, T) /\ Collect(l, part) = g[Len(l)]
  BY <1>0, CollectStarts
<1>2. Len(l) \in Nat
  OBVIOUS
<1> DEFINE D == {k \in Nat : k <= Len(l) => Len(g[k]) = k /\ \A i \in 1..k : g[k][i] = part[i]}
<1>3. 0 \in D
  <2>1. g[0] = <<>>
    BY <1>1 DEF Collecting
  <2> QED
    BY <2>1
<1>4. ASSUME NEW k \in Nat, k \in D PROVE k + 1 \in D
  <2> SUFFICES ASSUME k + 1 <= Len(l)
               PROVE  Len(g[k + 1]) = k + 1 /\ \A i \in 1..(k + 1) : g[k + 1][i] = part[i]
    OBVIOUS
  <2>1. /\ k + 1 \in 1..Len(l) /\ (k + 1) - 1 = k /\ k \in 0..Len(l)
        /\ Len(g[k]) = k /\ \A i \in 1..k : g[k][i] = part[i]
    BY <1>2, <1>4
  <2>2. g[k + 1] = Append(g[k], part[k + 1])
    BY <2>1, <1>0, <1>1 DEF Collecting
  <2>3. g[k] \in Seq(T) /\ part[k + 1] \in T
    BY <1>1, <2>1 DEF Collecting
  <2> QED
    BY <2>1, <2>2, <2>3
<1>5. Len(l) \in D
  <2> HIDE DEF D
  <2> QED
    BY <1>2, <1>3, <1>4, Induction
<1>6. g[Len(l)] \in Seq(T)
  BY <1>1, <1>2 DEF Collecting
<1>7. part \in Seq(T) /\ Len(part) = Len(l)
  <2>1. \A n \in Nat : \A s \in [1..n -> T] : s \in Seq(T) /\ Len(s) = n
    BY SeqDef
  <2> QED
    BY <2>1, <1>2
<1> QED
  BY <1>1, <1>2, <1>5, <1>6, <1>7, SeqEqual

-----------------------------------------------------------------------------
(* Looking up *)

\* A search ends at the least of the places it can end at.
LEMMA SearchIs ==
  ASSUME NEW S, NEW l \in Seq(S), NEW found, DOMAIN found \in SUBSET (1..Len(l)), NEW end
  PROVE  \/ DOMAIN found = {} /\ Search(l, found, end) = end
         \/ \E k \in DOMAIN found : /\ \A j \in DOMAIN found : k <= j
                                    /\ Search(l, found, end) = found[k]
<1>1. Len(l) \in Nat
  OBVIOUS
<1>2. CASE DOMAIN found = {}
  BY <1>2, SearchEnds
<1>3. CASE DOMAIN found # {}
  <2>1. DOMAIN found \in SUBSET Nat
    BY <1>1
  <2>2. PICK k \in DOMAIN found : \A j \in DOMAIN found : k <= j
    BY <2>1, <1>3, LeastNumber
  <2>3. k \in 1..Len(l) /\ \A j \in 1..(k - 1) : j \notin DOMAIN found
    BY <1>1, <2>2
  <2>4. Search(l, found, end) = found[k]
    BY <2>3, SearchFinds
  <2> QED
    BY <2>2, <2>4
<1> QED
  BY <1>2, <1>3

\* ContainType tells whether the type has a place.
LEMMA ContainTypeTells ==
  ASSUME NEW l \in Seq(Types), NEW t
  PROVE  ContainType(t, l) = (Places(l, t) # {})
<1> DEFINE found == [i \in Places(l, t) |-> TRUE]
<1>1. DOMAIN found \in SUBSET (1..Len(l)) /\ DOMAIN found = Places(l, t)
  BY DEF Places
<1>2. \A k \in DOMAIN found : found[k] = TRUE
  OBVIOUS
<1>3. ContainType(t, l) = Search(l, found, FALSE)
  BY DEF ContainType
<1> HIDE DEF found
<1> QED
  BY <1>1, <1>2, <1>3, SearchIs

\* Type2Pos is the place before the first one of the type.
LEMMA Type2PosFinds ==
  ASSUME NEW l \in Seq(Types), NEW t
  PROVE  \/ Places(l, t) = {} /\ Type2Pos(t, l) = IllFormed
         \/ \E k \in Places(l, t) : (\A j \in Places(l, t) : k <= j) /\ Type2Pos(t, l) = k - 1
<1> DEFINE found == [i \in Places(l, t) |-> i - 1]
<1>1. DOMAIN found \in SUBSET (1..Len(l)) /\ DOMAIN found = Places(l, t)
  BY DEF Places
<1>2. \A k \in Places(l, t) : found[k] = k - 1
  OBVIOUS
<1>3. Type2Pos(t, l) = Search(l, found, IllFormed)
  BY DEF Type2Pos
<1> HIDE DEF found
<1> QED
  BY <1>1, <1>2, <1>3, SearchIs

\* Counting an index down ends at the element after as many others.
LEMMA IndexEnds ==
  ASSUME NEW l \in Seq(Types), NEW i \in Nat
  PROVE  Index(l, i) = IF i < Len(l) THEN {i + 1} ELSE {}
  BY DEF Index

\* So a search by index ends there, if there is one.
LEMMA SearchIndex ==
  ASSUME NEW l \in Seq(Types), NEW i \in Nat, NEW found, DOMAIN found = Index(l, i), NEW end
  PROVE  Search(l, found, end) = IF i < Len(l) THEN found[i + 1] ELSE end
<1>1. Len(l) \in Nat
  OBVIOUS
<1>2. DOMAIN found = IF i < Len(l) THEN {i + 1} ELSE {}
  BY IndexEnds
<1>3. DOMAIN found \in SUBSET (1..Len(l))
  BY <1>1, <1>2
<1> QED
  BY <1>2, <1>3, SearchIs

\* Pos2Type is the element at that place.
LEMMA Pos2TypeFinds ==
  ASSUME NEW l \in Seq(Types), NEW i \in Nat
  PROVE  Pos2Type(i, l) = IF i < Len(l) THEN l[i + 1] ELSE IllFormed
<1> DEFINE found == [j \in Index(l, i) |-> l[j]]
<1>1. DOMAIN found = Index(l, i) /\ Pos2Type(i, l) = Search(l, found, IllFormed)
  BY DEF Pos2Type
<1>2. i < Len(l) => found[i + 1] = l[i + 1]
  BY IndexEnds
<1> HIDE DEF found
<1> QED
  BY <1>1, <1>2, SearchIndex

\* The look-ups agree in every list of types.
LEMMA PositionsOfList ==
  ASSUME list \in Seq(Types) PROVE PositionsAgree
<1>1. Len(list) \in Nat /\ Indices \in SUBSET Nat
  BY TypeListAssumption DEF Indices
<1>2. ASSUME NEW t \in Types
      PROVE  IF ContainType(t, list)
             THEN /\ Pos2Type(Type2Pos(t, list), list) = t
                  /\ \A i \in 1..Type2Pos(t, list) : list[i] # t
             ELSE Type2Pos(t, list) = IllFormed
  <2>1. CASE Places(list, t) = {}
    BY <2>1, ContainTypeTells, Type2PosFinds
  <2>2. CASE Places(list, t) # {}
    <3>1. PICK k \in Places(list, t) :
             (\A j \in Places(list, t) : k <= j) /\ Type2Pos(t, list) = k - 1
      BY <2>2, Type2PosFinds
    <3>2. k \in 1..Len(list) /\ list[k] = t /\ k - 1 \in Nat /\ k - 1 < Len(list) /\ (k - 1) + 1 = k
      BY <1>1 DEF Places
    <3>3. Pos2Type(k - 1, list) = t
      BY <3>2, Pos2TypeFinds
    <3>4. \A i \in 1..(k - 1) : list[i] # t
      BY <1>1, <3>1, <3>2 DEF Places
    <3> QED
      BY <2>2, <3>1, <3>3, <3>4, ContainTypeTells
  <2> QED
    BY <2>1, <2>2
<1>3. \A i \in Indices : Pos2Type(i, list) = IF i < Len(list) THEN list[i + 1] ELSE IllFormed
  BY <1>1, Pos2TypeFinds
<1> QED
  BY <1>2, <1>3 DEF PositionsAgree

-----------------------------------------------------------------------------
(* Edits *)

\* A pack without one element is the list without it, ...
LEMMA AroundNothing ==
  ASSUME NEW T, NEW l \in Seq(T), NEW i \in 1..Len(l)
  PROVE  Around(l, i, <<>>) = RemoveAt(l, i) /\ Around(l, i, <<>>) \in Seq(T)
<1>1. SubSeq(l, 1, i - 1) \in Seq(T) /\ SubSeq(l, i + 1, Len(l)) \in Seq(T)
  OBVIOUS
<1>2. SubSeq(l, 1, i - 1) \o <<>> = SubSeq(l, 1, i - 1)
  BY <1>1
<1> QED
  BY <1>1, <1>2 DEF Around, RemoveAt

\* ... and with another in its place the list with that one replaced.
LEMMA AroundOne ==
  ASSUME NEW T, NEW l \in Seq(T), NEW i \in 1..Len(l), NEW x \in T
  PROVE  Around(l, i, <<x>>) = [l EXCEPT ![i] = x] /\ Around(l, i, <<x>>) \in Seq(T)
<1> DEFINE a == SubSeq(l, 1, i - 1)
           b == SubSeq(l, i + 1, Len(l))
           n == Len(l)
<1>1. n \in Nat /\ i \in 1..n /\ DOMAIN l = 1..n
  OBVIOUS
<1>2. a \in Seq(T) /\ Len(a) = i - 1 /\ \A j \in 1..(i - 1) : a[j] = l[j]
  OBVIOUS
<1>3. b \in Seq(T) /\ Len(b) = n - i /\ \A j \in 1..(n - i) : b[j] = l[i + j]
  OBVIOUS
<1>4. Around(l, i, <<x>>) = (a \o <<x>>) \o b
  BY DEF Around
<1>5. [l EXCEPT ![i] = x] \in Seq(T) /\ Len([l EXCEPT ![i] = x]) = n
  OBVIOUS
<1> HIDE DEF a, b, n
<1>6. a \o <<x>> \in Seq(T) /\ Len(a \o <<x>>) = i
      /\ \A j \in 1..i : (a \o <<x>>)[j] = IF j = i THEN x ELSE l[j]
  BY <1>1, <1>2
<1> DEFINE c == a \o <<x>>
<1> HIDE DEF c
<1>7. c \in Seq(T) /\ Len(c) = i /\ \A j \in 1..i : c[j] = IF j = i THEN x ELSE l[j]
  BY <1>6 DEF c
<1>8. c \o b \in Seq(T) /\ Len(c \o b) = n
  <2>1. c \o b \in Seq(T) /\ Len(c \o b) = Len(c) + Len(b)
    BY <1>3, <1>7, ConcatProperties
  <2>2. i + (n - i) = n
    BY <1>1
  <2> QED
    BY <1>3, <1>7, <2>1, <2>2
<1>9. ASSUME NEW j \in 1..n PROVE (c \o b)[j] = [l EXCEPT ![i] = x][j]
  <2>1. CASE j <= i
    BY <1>1, <1>3, <1>7, <2>1
  <2>2. CASE j > i
    <3>1. j - i \in 1..(n - i) /\ i + (j - i) = j
      BY <1>1, <2>2
    <3>2. (c \o b)[j] = b[j - i]
      BY <1>1, <1>3, <1>7, <2>2
    <3> QED
      BY <1>1, <1>3, <2>2, <3>1, <3>2
  <2> QED
    <3>1. j <= i \/ j > i
      BY <1>1
    <3> QED
      BY <3>1, <2>1, <2>2, Zenon
<1>10. c \o b = [l EXCEPT ![i] = x]
  BY <1>8, <1>9, <1>5, SeqEqual
<1> QED
  BY <1>4, <1>8, <1>10 DEF c

\* What the edits at an index are.
LEMMA ReplaceIs ==
  ASSUME NEW l \in Seq(Types), NEW i \in Nat, NEW t \in Types
  PROVE  /\ TypeListReplace(l, i, t) = IF i < Len(l) THEN ReplaceAt(l, i + 1, t) ELSE IllFormed
         /\ i < Len(l) => ReplaceAt(l, i + 1, t) \in Seq(Types)
<1> DEFINE found == [j \in Index(l, i) |-> Around(l, j, <<t>>)]
<1>1. DOMAIN found = Index(l, i) /\ TypeListReplace(l, i, t) = Search(l, found, IllFormed)
  BY DEF TypeListReplace
<1>2. i < Len(l) => found[i + 1] = Around(l, i + 1, <<t>>) /\ i + 1 \in 1..Len(l)
  BY IndexEnds
<1> HIDE DEF found
<1>3. i < Len(l) => found[i + 1] = ReplaceAt(l, i + 1, t) /\ ReplaceAt(l, i + 1, t) \in Seq(Types)
  BY <1>2, AroundOne DEF ReplaceAt
<1> QED
  BY <1>1, <1>3, SearchIndex

\* Removing takes the element at the index, if there is one.
LEMMA RemoveIs ==
  ASSUME NEW l \in Seq(Types), NEW i \in Nat
  PROVE  /\ TypeListRemove(l, i) = IF i < Len(l) THEN RemoveAt(l, i + 1) ELSE IllFormed
         /\ i < Len(l) => RemoveAt(l, i + 1) \in Seq(Types)
<1> DEFINE found == [j \in Index(l, i) |-> Around(l, j, <<>>)]
<1>1. DOMAIN found = Index(l, i) /\ TypeListRemove(l, i) = Search(l, found, IllFormed)
  BY DEF TypeListRemove
<1>2. i < Len(l) => found[i + 1] = Around(l, i + 1, <<>>) /\ i + 1 \in 1..Len(l)
  BY IndexEnds
<1> HIDE DEF found
<1>3. i < Len(l) => found[i + 1] = RemoveAt(l, i + 1) /\ RemoveAt(l, i + 1) \in Seq(Types)
  BY <1>2, AroundNothing
<1> QED
  BY <1>1, <1>3, SearchIndex

\* Inserting is appending at the end, and nothing elsewhere.
LEMMA InsertIs ==
  ASSUME NEW l \in Seq(Types), NEW i \in Nat, NEW t \in Types
  PROVE  TypeListInsert(l, i, t) = IF i = Len(l) THEN Append(l, t) ELSE IllFormed
<1> DEFINE found == [j \in Index(l, i) |-> IllFormed]
           end   == IF i = Len(l) THEN Append(l, t) ELSE IllFormed
<1>1. DOMAIN found = Index(l, i) /\ TypeListInsert(l, i, t) = Search(l, found, end)
  BY DEF TypeListInsert
<1>2. i < Len(l) => found[i + 1] = IllFormed
  BY IndexEnds
<1> HIDE DEF found
<1>3. Search(l, found, end) = IF i < Len(l) THEN found[i + 1] ELSE end
  <2> HIDE DEF end
  <2> QED
    BY <1>1, SearchIndex
<1>4. Len(l) \in Nat
  OBVIOUS
<1> QED
  BY <1>1, <1>2, <1>3, <1>4

\* Removing the first of a type is what RemoveFirst does, ...
LEMMA RemoveTypeFirst ==
  ASSUME NEW l \in Seq(Types), NEW t
  PROVE  /\ TypeListRemoveType(l, t, TRUE) = RemoveFirst(l, t)
         /\ TypeListRemoveType(l, t, TRUE) \in Seq(Types)
<1> DEFINE found == [i \in Places(l, t) |-> Around(l, i, <<>>)]
           place == {i \in 1..Len(l) : l[i] = t}
<1>1. DOMAIN found = Places(l, t) /\ TypeListRemoveType(l, t, TRUE) = Search(l, found, l)
  BY DEF TypeListRemoveType
<1>2. Places(l, t) = place /\ Len(l) \in Nat
  BY DEF Places
<1>3. \A k \in place : found[k] = Around(l, k, <<>>)
  BY <1>2
<1>4. RemoveFirst(l, t) = IF \E i \in 1..Len(l) : l[i] = t
                          THEN RemoveAt(l, IF place # {} THEN Min(place) ELSE 0) ELSE l
  BY DEF RemoveFirst, SelectInSeq
<1> HIDE DEF found
<1>5. \/ place = {} /\ Search(l, found, l) = l
      \/ \E k \in place : (\A j \in place : k <= j) /\ Search(l, found, l) = found[k]
  BY <1>1, <1>2, SearchIs
<1>6. CASE place = {}
  BY <1>1, <1>4, <1>5, <1>6
<1>7. CASE place # {}
  <2>1. PICK k \in place : (\A j \in place : k <= j) /\ Search(l, found, l) = found[k]
    BY <1>5, <1>7
  <2>2. Min(place) \in place /\ \A j \in place : Min(place) <= j
    BY <2>1 DEF Min
  <2>3. Min(place) = k
    BY <1>2, <2>1, <2>2
  <2>4. RemoveFirst(l, t) = RemoveAt(l, k)
    BY <1>4, <1>7, <2>3
  <2>5. Around(l, k, <<>>) = RemoveAt(l, k) /\ Around(l, k, <<>>) \in Seq(Types)
    BY <2>1, AroundNothing
  <2> QED
    BY <1>1, <1>3, <2>1, <2>4, <2>5
<1> QED
  BY <1>6, <1>7

\* ... and removing all of them keeps every other element.
LEMMA RemoveTypeAll ==
  ASSUME NEW l \in Seq(Types), NEW t
  PROVE  /\ TypeListRemoveType(l, t, FALSE) \in Seq(Types)
         /\ IsKept(TypeListRemoveType(l, t, FALSE), l, {i \in DOMAIN l : l[i] # t})
<1> DEFINE keep == {i \in DOMAIN l : l[i] # t}
           part == [i \in keep |-> l[i]]
<1>1. DOMAIN l \ Places(l, t) = keep
  BY DEF Places
<1>2. TypeListRemoveType(l, t, FALSE) = Collect(l, part)
  BY <1>1 DEF TypeListRemoveType
<1>3. DOMAIN part = keep /\ keep \in SUBSET (1..Len(l)) /\ \A i \in keep : part[i] = l[i] /\ part[i] \in Types
  OBVIOUS
<1> HIDE DEF keep, part
<1>4. Collect(l, part) \in Seq(Types) /\ IsKept(Collect(l, part), part, keep)
  BY <1>3, CollectKeeps
<1>5. IsKept(Collect(l, part), l, keep)
  BY <1>3, <1>4, KeptSame
<1> QED
  BY <1>2, <1>4, <1>5 DEF keep

\* The first places of a list with t behind it are the same, and t's if it is new;
\* what is kept at the first places has everything once, so it tells which.
LEMMA FirstPlacesGrow ==
  ASSUME NEW T, NEW l \in Seq(T), NEW t \in T, NEW part \in Seq(T),
         IsKept(part, l, FirstPlaces(l))
  PROVE  IsKept(IF Places(part, t) # {} THEN part ELSE Append(part, t),
                Append(l, t), FirstPlaces(Append(l, t)))
<1> DEFINE n    == Len(l)
           more == Append(l, t)
<1>1. n \in Nat /\ DOMAIN l = 1..n /\ FirstPlaces(l) \in SUBSET (1..n)
  BY DEF FirstPlaces
<1>2. DOMAIN more = 1..(n + 1) /\ more[n + 1] = t /\ \A i \in 1..n : more[i] = l[i]
  OBVIOUS
<1> HIDE DEF n, more
<1>3. PICK at \in [DOMAIN part -> FirstPlaces(l)] :
         /\ \A k \in FirstPlaces(l) : \E i \in DOMAIN part : at[i] = k
         /\ \A i \in DOMAIN part : part[i] = l[at[i]]
  BY DEF IsKept
<1>4. ASSUME NEW i \in 1..n PROVE (i \in FirstPlaces(more)) = (i \in FirstPlaces(l))
  <2>1. i \in 1..(n + 1) /\ \A j \in 1..(i - 1) : j \in 1..n
    BY <1>1
  <2>2. more[i] = l[i] /\ \A j \in 1..(i - 1) : more[j] = l[j]
    BY <1>2, <2>1
  <2> QED
    BY <1>1, <1>2, <2>1, <2>2 DEF FirstPlaces
<1>5. IsKept(part, more, FirstPlaces(l))
  <2>1. \A i \in FirstPlaces(l) : l[i] = more[i]
    BY <1>1, <1>2
  <2> QED
    BY <2>1, KeptSame
<1>6. CASE Places(part, t) # {}
  <2>1. PICK i \in DOMAIN part : part[i] = t
    BY <1>6 DEF Places
  <2>2. at[i] \in 1..n /\ l[at[i]] = t
    BY <1>1, <1>3, <2>1
  <2>3. n + 1 \notin FirstPlaces(more)
    <3>1. at[i] \in 1..((n + 1) - 1) /\ more[at[i]] = more[n + 1]
      BY <1>1, <1>2, <2>2
    <3> QED
      BY <3>1 DEF FirstPlaces
  <2>4. FirstPlaces(more) = FirstPlaces(l)
    <3>1. FirstPlaces(more) \in SUBSET (1..(n + 1))
      BY <1>2 DEF FirstPlaces
    <3>2. \A j \in 1..(n + 1) : j = n + 1 \/ j \in 1..n
      BY <1>1
    <3> QED
      BY <1>1, <1>4, <2>3, <3>1, <3>2
  <2> QED
    BY <1>5, <1>6, <2>4 DEF more
<1>7. CASE Places(part, t) = {}
  <2>1. \A i \in DOMAIN part : part[i] # t
    BY <1>7 DEF Places
  <2>2. ASSUME NEW j \in 1..n, l[j] = t PROVE FALSE
    <3> DEFINE P == {i \in 1..n : l[i] = t}
    <3>1. P \in SUBSET Nat /\ P # {}
      BY <1>1, <2>2
    <3>2. PICK k \in P : \A i \in P : k <= i
      BY <3>1, LeastNumber
    <3>3. \A i \in 1..(k - 1) : l[i] # l[k]
      BY <1>1, <3>2
    <3>4. k \in FirstPlaces(l)
      BY <1>1, <3>2, <3>3 DEF FirstPlaces
    <3>5. PICK i \in DOMAIN part : at[i] = k
      BY <1>3, <3>4
    <3> QED
      BY <1>3, <2>1, <3>2, <3>5
  <2>3. n + 1 \in FirstPlaces(more)
    <3>1. (n + 1) - 1 = n /\ n + 1 \in 1..(n + 1)
      BY <1>1
    <3> QED
      BY <1>2, <2>2, <3>1 DEF FirstPlaces
  <2>4. FirstPlaces(more) = FirstPlaces(l) \cup {n + 1}
    <3>1. FirstPlaces(more) \in SUBSET (1..(n + 1))
      BY <1>2 DEF FirstPlaces
    <3>2. \A j \in 1..(n + 1) : j = n + 1 \/ j \in 1..n
      BY <1>1
    <3> QED
      BY <1>1, <1>4, <2>3, <3>1, <3>2
  <2>5. IsKept(Append(part, more[n + 1]), more, FirstPlaces(l) \cup {n + 1})
    BY <1>1, <1>2, <1>5, KeptOneMore
  <2> QED
    BY <1>2, <1>7, <2>4, <2>5 DEF more
<1> QED
  BY <1>6, <1>7

\* Removing duplicates takes the list element by element.
Added(pre, t) == IF ContainType(t, pre) THEN pre ELSE Append(pre, t)

AddStep(l, n) == [p \in Seq(Types) \X (1..n) |-> Added(p[1], l[p[2]])]

\* That is a fold by single steps,
LEMMA DuplicatesFold ==
  ASSUME NEW l \in Seq(Types)
  PROVE  IsFold(TypeListRemoveDuplicate(l), Len(l), Seq(Types), <<>>, AddStep(l, Len(l)))
<1> DEFINE n    == Len(l)
           once == CHOOSE f : f = [S \in SUBSET (1..n) |->
                     IF S = {} THEN <<>>
                     ELSE IF ContainType(l[Max(S)], f[S \ {Max(S)}]) THEN f[S \ {Max(S)}]
                          ELSE Append(f[S \ {Max(S)}], l[Max(S)])]
<1>1. n \in Nat /\ DOMAIN l = 1..n /\ \A k \in 1..n : l[k] \in Types
  OBVIOUS
<1>2. <<>> \in Seq(Types)
  OBVIOUS
<1>3. \A pre \in Seq(Types), t \in Types : Added(pre, t) \in Seq(Types)
  BY DEF Added
<1>4. AddStep(l, n) \in [Seq(Types) \X (1..n) -> Seq(Types)]
  BY <1>1, <1>3 DEF AddStep
<1>5. ASSUME NEW S \in SUBSET (1..n), S # {}, NEW r \in Seq(Types)
      PROVE  AddStep(l, n)[<<r, Max(S)>>] = Added(r, l[Max(S)])
  <2>1. Max(S) \in 1..n
    BY <1>1, <1>5, MaxOfIndices
  <2> QED
    BY <2>1 DEF AddStep
<1>6. PICK f \in [SUBSET (1..n) -> Seq(Types)] : Steps(f, n, <<>>, AddStep(l, n))
  BY <1>1, <1>2, <1>4, FoldExists DEF Solvable
<1>7. f = [S \in SUBSET (1..n) |->
             IF S = {} THEN <<>>
             ELSE IF ContainType(l[Max(S)], f[S \ {Max(S)}]) THEN f[S \ {Max(S)}]
                  ELSE Append(f[S \ {Max(S)}], l[Max(S)])]
  <2>1. ASSUME NEW S \in SUBSET (1..n), S # {}
        PROVE  f[S] = Added(f[S \ {Max(S)}], l[Max(S)])
    <3>1. f[S \ {Max(S)}] \in Seq(Types)
      OBVIOUS
    <3>2. f[S] = AddStep(l, n)[<<f[S \ {Max(S)}], Max(S)>>]
      BY <1>6, <2>1 DEF Steps
    <3> QED
      BY <3>1, <3>2, <2>1, <1>5
  <2>2. f[{}] = <<>>
    BY <1>6 DEF Steps
  <2> QED
    BY <2>1, <2>2 DEF Added
<1>8. once = [S \in SUBSET (1..n) |->
               IF S = {} THEN <<>>
               ELSE IF ContainType(l[Max(S)], once[S \ {Max(S)}]) THEN once[S \ {Max(S)}]
                    ELSE Append(once[S \ {Max(S)}], l[Max(S)])]
  BY <1>7
<1>9. TypeListRemoveDuplicate(l) = once[1..n]
  BY <1>1 DEF TypeListRemoveDuplicate, FoldLeft, MapThenFoldSet
<1> HIDE DEF once
<1>10. once[{}] = <<>>
  BY <1>8
<1>11. ASSUME NEW S \in SUBSET (1..n), S # {}, once[S \ {Max(S)}] \in Seq(Types)
       PROVE  once[S] = AddStep(l, n)[<<once[S \ {Max(S)}], Max(S)>>]
  <2>1. once[S] = Added(once[S \ {Max(S)}], l[Max(S)])
    BY <1>8, <1>11 DEF Added
  <2> QED
    BY <2>1, <1>5, <1>11
<1> HIDE DEF n
<1>12. IsFold(once[1..n], n, Seq(Types), <<>>, AddStep(l, n))
  BY <1>1, <1>2, <1>4, <1>10, <1>11, FoldByStep
<1> QED
  BY <1>9, <1>12 DEF n

\* which leaves nothing of nothing
LEMMA DuplicatesOfNone == TypeListRemoveDuplicate(<<>>) = <<>>
<1>1. <<>> \in Seq(Types) /\ Len(<<>>) = 0
  OBVIOUS
<1> QED
  BY <1>1, DuplicatesFold, FoldOfNone

\* and adds one more element at most for one more,
LEMMA DuplicatesOfOneMore ==
  ASSUME NEW l \in Seq(Types), NEW t \in Types
  PROVE  /\ TypeListRemoveDuplicate(l) \in Seq(Types)
         /\ TypeListRemoveDuplicate(Append(l, t)) = Added(TypeListRemoveDuplicate(l), t)
<1> DEFINE n    == Len(l)
           more == Append(l, t)
<1>1. /\ n \in Nat /\ more \in Seq(Types) /\ Len(more) = n + 1
      /\ more[n + 1] = t /\ \A k \in 1..n : more[k] = l[k]
  OBVIOUS
<1> HIDE DEF n, more
<1>2. IsFold(TypeListRemoveDuplicate(l), n, Seq(Types), <<>>, AddStep(l, n))
  BY DuplicatesFold DEF n
<1>3. IsFold(TypeListRemoveDuplicate(more), n + 1, Seq(Types), <<>>, AddStep(more, n + 1))
  BY <1>1, DuplicatesFold
<1>4. \A p \in Seq(Types), k \in 1..n : AddStep(more, n + 1)[<<p, k>>] = AddStep(l, n)[<<p, k>>]
  BY <1>1 DEF AddStep
<1>5. /\ TypeListRemoveDuplicate(l) \in Seq(Types)
      /\ TypeListRemoveDuplicate(more) = AddStep(more, n + 1)[<<TypeListRemoveDuplicate(l), n + 1>>]
  BY <1>1, <1>2, <1>3, <1>4, FoldOfOneMore
<1> QED
  BY <1>1, <1>5 DEF AddStep, more

\* so it keeps the first places.
LEMMA DuplicatesKeep ==
  ASSUME NEW l \in Seq(Types)
  PROVE  /\ TypeListRemoveDuplicate(l) \in Seq(Types)
         /\ IsKept(TypeListRemoveDuplicate(l), l, FirstPlaces(l))
<1> DEFINE D == {s \in Seq(Types) : IsKept(TypeListRemoveDuplicate(s), s, FirstPlaces(s))}
<1>1. <<>> \in D
  <2>1. FirstPlaces(<<>>) = {}
    BY DEF FirstPlaces
  <2>2. IsKept(TypeListRemoveDuplicate(<<>>), <<>>, FirstPlaces(<<>>))
    BY <2>1, DuplicatesOfNone, KeptNone
  <2> QED
    BY <2>2
<1>2. ASSUME NEW s \in Seq(Types), NEW t \in Types, s \in D PROVE Append(s, t) \in D
  <2>1. TypeListRemoveDuplicate(s) \in Seq(Types)
        /\ TypeListRemoveDuplicate(Append(s, t)) = Added(TypeListRemoveDuplicate(s), t)
    BY DuplicatesOfOneMore
  <2>2. Added(TypeListRemoveDuplicate(s), t)
          = IF Places(TypeListRemoveDuplicate(s), t) # {} THEN TypeListRemoveDuplicate(s)
            ELSE Append(TypeListRemoveDuplicate(s), t)
    BY <2>1, ContainTypeTells DEF Added
  <2>3. IsKept(TypeListRemoveDuplicate(s), s, FirstPlaces(s))
    BY <1>2
  <2>4. IsKept(Added(TypeListRemoveDuplicate(s), t), Append(s, t), FirstPlaces(Append(s, t)))
    BY <2>1, <2>2, <2>3, FirstPlacesGrow
  <2> QED
    BY <2>1, <2>4
<1>3. Seq(Types) \subseteq D
  <2> HIDE DEF D
  <2> QED
    BY <1>1, <1>2, SeqInduction
<1>4. IsKept(TypeListRemoveDuplicate(l), l, FirstPlaces(l))
  BY <1>3
<1>5. TypeListRemoveDuplicate(l) \in Seq(Types)
  <2> DEFINE n == Len(l)
  <2>1. IsFold(TypeListRemoveDuplicate(l), n, Seq(Types), <<>>, AddStep(l, n)) /\ n \in Nat
    BY DuplicatesFold
  <2> HIDE DEF n
  <2> QED
    BY <2>1 DEF IsFold, Chain
<1> QED
  BY <1>4, <1>5

\* A list put behind itself.
LEMMA CatOfTwo ==
  ASSUME NEW l \in Seq(Types)
  PROVE  TypeListCat(<<l, l>>) \in Seq(Types)
<1> DEFINE one == <<l>>
           cat == CHOOSE f : f = [S \in SUBSET (1..1) |->
                     IF S = {} THEN l ELSE f[S \ {Max(S)}] \o one[Max(S)]]
           g   == [S \in SUBSET (1..1) |-> IF S = {} THEN l ELSE l \o l]
<1>1. Head(<<l, l>>) = l /\ Tail(<<l, l>>) = one /\ DOMAIN one = 1..1 /\ one[1] = l
  OBVIOUS
<1>2. TypeListCat(<<l, l>>) = cat[1..1]
  BY <1>1 DEF TypeListCat, FoldLeft, MapThenFoldSet
<1>3. ASSUME NEW S \in SUBSET (1..1), S # {} PROVE Max(S) = 1 /\ S \ {Max(S)} = {}
  <2>1. Max(S) \in S
    BY <1>3, MaxOfIndices
  <2>2. \A x \in S : x = 1
    OBVIOUS
  <2>3. Max(S) = 1
    BY <2>1, <2>2
  <2> QED
    BY <2>2, <2>3
<1>4. g = [S \in SUBSET (1..1) |-> IF S = {} THEN l ELSE g[S \ {Max(S)}] \o one[Max(S)]]
  <2>1. ASSUME NEW S \in SUBSET (1..1), S # {} PROVE g[S] = g[S \ {Max(S)}] \o one[Max(S)]
    BY <1>1, <1>3, <2>1
  <2>2. ASSUME NEW S \in SUBSET (1..1)
        PROVE  g[S] = IF S = {} THEN l ELSE g[S \ {Max(S)}] \o one[Max(S)]
    <3> HIDE DEF one
    <3> QED
      BY <2>1
  <2> HIDE DEF one
  <2> QED
    BY <2>2
<1>5. cat = [S \in SUBSET (1..1) |-> IF S = {} THEN l ELSE cat[S \ {Max(S)}] \o one[Max(S)]]
  BY <1>4
<1> HIDE DEF cat, one
<1>6. (1..1) \in SUBSET (1..1) /\ 1..1 # {} /\ {} \in SUBSET (1..1)
  OBVIOUS
<1>7. cat[1..1] = cat[{}] \o l
  <2>1. Max(1..1) = 1 /\ (1..1) \ {Max(1..1)} = {}
    BY <1>3, <1>6
  <2> QED
    BY <1>1, <1>5, <1>6, <2>1
<1>8. cat[{}] = l
  BY <1>5, <1>6
<1>9. l \o l \in Seq(Types)
  OBVIOUS
<1> QED
  BY <1>2, <1>7, <1>8, <1>9

-----------------------------------------------------------------------------
(* What follows for lists *)

\* All that is needed of a list is what it is made of.
EditsInv == list \in Seq(Types)

\* It is so at the start ...
LEMMA EditsStart == ASSUME ListInit PROVE EditsInv
  BY DEF ListInit, EditsInv

\* ... and after each change that compiles, ...
LEMMA EditsGoOn == ASSUME EditsInv, [ListNext]_typeVars PROVE EditsInv'
<1> USE DEF EditsInv
<1>1. Indices \in SUBSET Nat
  BY TypeListAssumption DEF Indices
<1>2. ASSUME NEW t \in Types, Becomes(TypeListAppend(list, t)) PROVE list' \in Seq(Types)
  BY <1>2 DEF Becomes, TypeListAppend
<1>3. ASSUME NEW t \in Types, NEW i \in Indices, Becomes(TypeListInsert(list, i, t))
      PROVE  list' \in Seq(Types)
  <2>1. TypeListInsert(list, i, t) = IF i = Len(list) THEN Append(list, t) ELSE IllFormed
    BY <1>1, InsertIs
  <2>2. Append(list, t) \in Seq(Types)
    OBVIOUS
  <2> QED
    BY <1>3, <2>1, <2>2 DEF Becomes
<1>4. ASSUME NEW t \in Types, NEW i \in Indices, Becomes(TypeListReplace(list, i, t))
      PROVE  list' \in Seq(Types)
  <2>1. /\ TypeListReplace(list, i, t)
             = IF i < Len(list) THEN ReplaceAt(list, i + 1, t) ELSE IllFormed
        /\ i < Len(list) => ReplaceAt(list, i + 1, t) \in Seq(Types)
    BY <1>1, ReplaceIs
  <2> QED
    BY <1>4, <2>1 DEF Becomes
<1>5. ASSUME NEW i \in Indices, Becomes(TypeListRemove(list, i)) PROVE list' \in Seq(Types)
  <2>1. /\ TypeListRemove(list, i) = IF i < Len(list) THEN RemoveAt(list, i + 1) ELSE IllFormed
        /\ i < Len(list) => RemoveAt(list, i + 1) \in Seq(Types)
    BY <1>1, RemoveIs
  <2> QED
    BY <1>5, <2>1 DEF Becomes
<1>6. ASSUME NEW t \in Types, NEW first \in BOOLEAN, Becomes(TypeListRemoveType(list, t, first))
      PROVE  list' \in Seq(Types)
  <2>1. TypeListRemoveType(list, t, TRUE) \in Seq(Types)
        /\ TypeListRemoveType(list, t, FALSE) \in Seq(Types)
    BY RemoveTypeFirst, RemoveTypeAll
  <2> QED
    BY <1>6, <2>1 DEF Becomes
<1>7. ASSUME Becomes(TypeListRemoveDuplicate(list)) PROVE list' \in Seq(Types)
  BY <1>7, DuplicatesKeep DEF Becomes
<1>8. ASSUME Becomes(TypeListCat(<<list, list>>)) PROVE list' \in Seq(Types)
  BY <1>8, CatOfTwo DEF Becomes
<1>9. CASE ChangeList
  BY <1>2, <1>3, <1>4, <1>5, <1>6, <1>7, <1>8, <1>9 DEF ChangeList
<1>10. CASE Put \/ UNCHANGED typeVars
  BY <1>10 DEF Put, typeVars
<1> QED
  BY <1>9, <1>10 DEF ListNext

\* ... and it is enough.
LEMMA EditsOfList == ASSUME EditsInv PROVE EditsKeepTheRest
<1> USE DEF EditsInv
<1>1. Indices \in SUBSET Nat
  BY TypeListAssumption DEF Indices
<1>2. EditsAtIndex
  BY <1>1, RemoveIs, ReplaceIs DEF EditsAtIndex
<1>3. InsertsOnlyAtEnd
  BY <1>1, InsertIs DEF InsertsOnlyAtEnd
<1>4. RemovalsKeepOrder
  BY RemoveTypeFirst, RemoveTypeAll, DuplicatesKeep DEF RemovalsKeepOrder
<1> QED
  BY <1>2, <1>3, <1>4 DEF EditsKeepTheRest

\* The two look-ups of a TypeList are inverse to each other in every list a program
\* comes to (Type2Pos and Pos2Type of template.hpp) ...
THEOREM LookUpsAgree == ListSpec => []PositionsAgree
<1>1. ListInit => EditsInv
  BY EditsStart
<1>2. EditsInv /\ [ListNext]_typeVars => EditsInv'
  BY EditsGoOn
<1>3. EditsInv => PositionsAgree
  BY PositionsOfList DEF EditsInv
<1> QED
  BY <1>1, <1>2, <1>3, PTL DEF ListSpec

\* ... and its edits take, replace or add what they name and keep the rest in order
\* (TypeListReplace, Insert, Remove, RemoveType and RemoveDuplicate).
THEOREM EditsNameWhatTheyChange == ListSpec => []EditsKeepTheRest
<1>1. ListInit => EditsInv
  BY EditsStart
<1>2. EditsInv /\ [ListNext]_typeVars => EditsInv'
  BY EditsGoOn
<1>3. EditsInv => EditsKeepTheRest
  BY EditsOfList
<1> QED
  BY <1>1, <1>2, <1>3, PTL DEF ListSpec

-----------------------------------------------------------------------------
(* Dictionaries *)

\* Dictionaries: a pair is put in the first place of its key, or else at the end.
Pairs == [first : Keys, second : Values]

\* What a put does.
LEMMA PutIs ==
  ASSUME NEW d \in Seq(Pairs), NEW p \in Pairs
  PROVE  /\ TypeDictInsert(d, p.first, p.second) \in Seq(Pairs)
         /\ \/ /\ KeyPlaces(d, p.first) = {}
               /\ TypeDictInsert(d, p.first, p.second) = Append(d, p)
            \/ \E i \in KeyPlaces(d, p.first) :
                  /\ \A j \in KeyPlaces(d, p.first) : i <= j
                  /\ TypeDictInsert(d, p.first, p.second) = [d EXCEPT ![i] = p]
<1> DEFINE P     == KeyPlaces(d, p.first)
           found == [i \in P |-> Around(d, i, <<p>>)]
<1>1. Pair(p.first, p.second) = p
  BY DEF Pair, Pairs
<1>2. TypeDictInsert(d, p.first, p.second) = Search(d, found, Append(d, p))
  BY <1>1 DEF TypeDictInsert
<1>3. DOMAIN found = P /\ P \in SUBSET (1..Len(d)) /\ \A i \in P : found[i] = Around(d, i, <<p>>)
  BY DEF KeyPlaces
<1> HIDE DEF found, P
<1>4. \A i \in P : Around(d, i, <<p>>) = [d EXCEPT ![i] = p] /\ Around(d, i, <<p>>) \in Seq(Pairs)
  BY <1>3, AroundOne
<1>5. Append(d, p) \in Seq(Pairs)
  OBVIOUS
<1>6. \/ P = {} /\ Search(d, found, Append(d, p)) = Append(d, p)
      \/ \E i \in P : (\A j \in P : i <= j) /\ Search(d, found, Append(d, p)) = found[i]
  BY <1>3, SearchIs
<1>7. CASE P = {} /\ Search(d, found, Append(d, p)) = Append(d, p)
  BY <1>2, <1>5, <1>7 DEF P
<1>8. ASSUME NEW i \in P, \A j \in P : i <= j, Search(d, found, Append(d, p)) = found[i]
      PROVE  /\ TypeDictInsert(d, p.first, p.second) = [d EXCEPT ![i] = p]
             /\ TypeDictInsert(d, p.first, p.second) \in Seq(Pairs)
  <2>1. TypeDictInsert(d, p.first, p.second) = Around(d, i, <<p>>)
    BY <1>2, <1>3, <1>8
  <2> QED
    BY <1>4, <2>1
<1> QED
  BY <1>6, <1>7, <1>8, Zenon DEF P

\* Pairs are put one after the other.
PutStep(pairs, n) ==
    [q \in Seq(Pairs) \X (1..n) |-> TypeDictInsert(q[1], pairs[q[2]].first, pairs[q[2]].second)]

\* Inserting pairs is a fold by single puts,
LEMMA InsertAllFold ==
  ASSUME NEW d \in Seq(Pairs), NEW pairs \in Seq(Pairs)
  PROVE  IsFold(InsertAll(d, pairs), Len(pairs), Seq(Pairs), d, PutStep(pairs, Len(pairs)))
<1> DEFINE n   == Len(pairs)
           put == CHOOSE f : f = [S \in SUBSET (1..n) |->
                     IF S = {} THEN d
                     ELSE TypeDictInsert(f[S \ {Max(S)}], pairs[Max(S)].first,
                                         pairs[Max(S)].second)]
<1>1. n \in Nat /\ DOMAIN pairs = 1..n /\ \A k \in 1..n : pairs[k] \in Pairs
  OBVIOUS
<1>2. PutStep(pairs, n) \in [Seq(Pairs) \X (1..n) -> Seq(Pairs)]
  BY <1>1, PutIs DEF PutStep
<1>3. ASSUME NEW S \in SUBSET (1..n), S # {}, NEW r \in Seq(Pairs)
      PROVE  PutStep(pairs, n)[<<r, Max(S)>>]
               = TypeDictInsert(r, pairs[Max(S)].first, pairs[Max(S)].second)
  <2>1. Max(S) \in 1..n
    BY <1>1, <1>3, MaxOfIndices
  <2> QED
    BY <2>1 DEF PutStep
<1>4. PICK f \in [SUBSET (1..n) -> Seq(Pairs)] : Steps(f, n, d, PutStep(pairs, n))
  BY <1>1, <1>2, FoldExists DEF Solvable
<1>5. f = [S \in SUBSET (1..n) |->
             IF S = {} THEN d
             ELSE TypeDictInsert(f[S \ {Max(S)}], pairs[Max(S)].first, pairs[Max(S)].second)]
  <2>1. ASSUME NEW S \in SUBSET (1..n), S # {}
        PROVE  f[S] = TypeDictInsert(f[S \ {Max(S)}], pairs[Max(S)].first, pairs[Max(S)].second)
    <3>1. f[S \ {Max(S)}] \in Seq(Pairs)
      OBVIOUS
    <3>2. f[S] = PutStep(pairs, n)[<<f[S \ {Max(S)}], Max(S)>>]
      BY <1>4, <2>1 DEF Steps
    <3> QED
      BY <3>1, <3>2, <2>1, <1>3
  <2>2. f[{}] = d
    BY <1>4 DEF Steps
  <2> QED
    BY <2>1, <2>2
<1>6. put = [S \in SUBSET (1..n) |->
               IF S = {} THEN d
               ELSE TypeDictInsert(put[S \ {Max(S)}], pairs[Max(S)].first,
                                   pairs[Max(S)].second)]
  BY <1>5
<1>7. InsertAll(d, pairs) = put[1..n]
  BY <1>1 DEF InsertAll, FoldLeft, MapThenFoldSet
<1> HIDE DEF put
<1>8. put[{}] = d
  BY <1>6
<1>9. ASSUME NEW S \in SUBSET (1..n), S # {}, put[S \ {Max(S)}] \in Seq(Pairs)
      PROVE  put[S] = PutStep(pairs, n)[<<put[S \ {Max(S)}], Max(S)>>]
  <2>1. put[S] = TypeDictInsert(put[S \ {Max(S)}], pairs[Max(S)].first, pairs[Max(S)].second)
    BY <1>6, <1>9
  <2> QED
    BY <2>1, <1>3, <1>9
<1> HIDE DEF n
<1>10. IsFold(put[1..n], n, Seq(Pairs), d, PutStep(pairs, n))
  BY <1>1, <1>2, <1>8, <1>9, FoldByStep
<1> QED
  BY <1>7, <1>10 DEF n

\* which changes nothing without a pair
LEMMA InsertNone ==
  ASSUME NEW d \in Seq(Pairs) PROVE InsertAll(d, <<>>) = d
<1>1. <<>> \in Seq(Pairs) /\ Len(<<>>) = 0
  OBVIOUS
<1>2. IsFold(InsertAll(d, <<>>), 0, Seq(Pairs), d, PutStep(<<>>, 0))
  BY <1>1, InsertAllFold
<1> QED
  BY <1>2, FoldOfNone

\* and puts one more pair last.
LEMMA InsertOneMore ==
  ASSUME NEW d \in Seq(Pairs), NEW s \in Seq(Pairs), NEW p \in Pairs
  PROVE  /\ InsertAll(d, s) \in Seq(Pairs)
         /\ InsertAll(d, Append(s, p)) = TypeDictInsert(InsertAll(d, s), p.first, p.second)
<1> DEFINE n    == Len(s)
           more == Append(s, p)
<1>1. /\ n \in Nat /\ more \in Seq(Pairs) /\ Len(more) = n + 1
      /\ more[n + 1] = p /\ \A k \in 1..n : more[k] = s[k]
  OBVIOUS
<1> HIDE DEF n, more
<1>2. IsFold(InsertAll(d, s), n, Seq(Pairs), d, PutStep(s, n))
  BY InsertAllFold DEF n
<1>3. IsFold(InsertAll(d, more), n + 1, Seq(Pairs), d, PutStep(more, n + 1))
  BY <1>1, InsertAllFold
<1>4. \A q \in Seq(Pairs), k \in 1..n : PutStep(more, n + 1)[<<q, k>>] = PutStep(s, n)[<<q, k>>]
  BY <1>1 DEF PutStep
<1>5. /\ InsertAll(d, s) \in Seq(Pairs)
      /\ InsertAll(d, more) = PutStep(more, n + 1)[<<InsertAll(d, s), n + 1>>]
  BY <1>1, <1>2, <1>3, <1>4, FoldOfOneMore
<1>6. n + 1 \in 1..(n + 1)
  BY <1>1
<1> QED
  BY <1>1, <1>5, <1>6 DEF PutStep, more

\* What it makes is a dictionary.
LEMMA InsertAllIsDict ==
  ASSUME NEW d \in Seq(Pairs), NEW s \in Seq(Pairs) PROVE InsertAll(d, s) \in Seq(Pairs)
<1> DEFINE n == Len(s)
<1>1. IsFold(InsertAll(d, s), n, Seq(Pairs), d, PutStep(s, n)) /\ n \in Nat
  BY InsertAllFold
<1> HIDE DEF n
<1> QED
  BY <1>1 DEF IsFold, Chain

\* The keys of pairs, in order.
LEMMA KeysInOrder ==
  ASSUME NEW s \in Seq(Pairs)
  PROVE  /\ KeysOf(s) \in Seq(Keys) /\ Len(KeysOf(s)) = Len(s) /\ DOMAIN KeysOf(s) = 1..Len(s)
         /\ \A i \in 1..Len(s) : KeysOf(s)[i] = s[i].first
         /\ \A k : Places(KeysOf(s), k) = KeyPlaces(s, k)
<1>1. DOMAIN s = 1..Len(s) /\ Len(s) \in Nat /\ \A i \in 1..Len(s) : s[i].first \in Keys
  <2>1. DOMAIN s = 1..Len(s) /\ Len(s) \in Nat /\ \A i \in 1..Len(s) : s[i] \in Pairs
    OBVIOUS
  <2> QED
    BY <2>1 DEF Pairs
<1>2. KeysOf(s) \in [1..Len(s) -> Keys] /\ \A i \in 1..Len(s) : KeysOf(s)[i] = s[i].first
  BY <1>1 DEF KeysOf
<1>3. KeysOf(s) \in Seq(Keys) /\ Len(KeysOf(s)) = Len(s)
  <2>1. \A n \in Nat : \A q \in [1..n -> Keys] : q \in Seq(Keys) /\ Len(q) = n
    BY SeqDef
  <2> QED
    BY <1>1, <1>2, <2>1
<1> QED
  BY <1>1, <1>2, <1>3 DEF Places, KeyPlaces

\* One pair more is one key more.
LEMMA KeysOfOneMore ==
  ASSUME NEW s \in Seq(Pairs), NEW p \in Pairs
  PROVE  KeysOf(Append(s, p)) = Append(KeysOf(s), p.first)
<1> DEFINE n    == Len(s)
           more == Append(s, p)
           a    == KeysOf(more)
           b    == Append(KeysOf(s), p.first)
<1>1. /\ n \in Nat /\ more \in Seq(Pairs) /\ Len(more) = n + 1
      /\ more[n + 1] = p /\ \A k \in 1..n : more[k] = s[k]
  OBVIOUS
<1>2. /\ KeysOf(s) \in Seq(Keys) /\ Len(KeysOf(s)) = n
      /\ \A i \in 1..n : KeysOf(s)[i] = s[i].first
  BY KeysInOrder
<1>3. p.first \in Keys
  BY DEF Pairs
<1> HIDE DEF n, more
<1>4. a \in Seq(Keys) /\ Len(a) = n + 1 /\ \A i \in 1..(n + 1) : a[i] = more[i].first
  BY <1>1, KeysInOrder
<1>5. b \in Seq(Keys) /\ Len(b) = n + 1
  BY <1>1, <1>2, <1>3
<1>6. ASSUME NEW i \in 1..(n + 1) PROVE b[i] = more[i].first
  <2>1. CASE i = n + 1
    BY <1>1, <1>2, <1>3, <2>1
  <2>2. CASE i \in 1..n
    BY <1>1, <1>2, <1>3, <2>2
  <2> QED
    <3>1. i = n + 1 \/ i \in 1..n
      BY <1>1
    <3> QED
      BY <3>1, <2>1, <2>2, Zenon
<1>7. \A i \in 1..(n + 1) : a[i] = b[i]
  BY <1>4, <1>6
<1> HIDE DEF a, b
<1>8. a = b
  BY <1>4, <1>5, <1>7, SeqEqual
<1> QED
  BY <1>8 DEF a, b, more

\* What is kept at the first places is there once.
LEMMA KeptOnce ==
  ASSUME NEW T, NEW l \in Seq(T), NEW part \in Seq(T), IsKept(part, l, FirstPlaces(l)),
         NEW i \in DOMAIN part, NEW j \in DOMAIN part, part[i] = part[j]
  PROVE  i = j
<1>1. PICK at \in [DOMAIN part -> FirstPlaces(l)] :
         /\ \A a, b \in DOMAIN part : a < b => at[a] < at[b]
         /\ \A a \in DOMAIN part : part[a] = l[at[a]]
  BY DEF IsKept
<1>2. Len(l) \in Nat /\ FirstPlaces(l) \in SUBSET (1..Len(l)) /\ DOMAIN part \in SUBSET Nat
  BY DEF FirstPlaces
<1>3. \A a, b \in FirstPlaces(l) : a < b => l[a] # l[b]
  <2> SUFFICES ASSUME NEW a \in FirstPlaces(l), NEW b \in FirstPlaces(l), a < b
               PROVE  l[a] # l[b]
    OBVIOUS
  <2>1. a \in 1..(b - 1)
    BY <1>2
  <2> QED
    BY <2>1 DEF FirstPlaces
<1>4. at[i] \in FirstPlaces(l) /\ at[j] \in FirstPlaces(l) /\ l[at[i]] = l[at[j]]
  BY <1>1
<1>5. ~(at[i] < at[j]) /\ ~(at[j] < at[i])
  BY <1>3, <1>4
<1>6. ~(i < j) /\ ~(j < i)
  BY <1>1, <1>5
<1>7. i \in Nat /\ j \in Nat
  BY <1>2
<1> QED
  BY <1>6, <1>7

\* p is what its key was last given in s.
IsLast(s, p) == \E j \in DOMAIN s : s[j] = p /\ \A m \in (j + 1)..Len(s) : s[m].first # p.first

\* d is the map that the pairs of s make.
DictOf(d, s) ==
    /\ d \in Seq(Pairs)
    /\ IsKept(KeysOf(d), KeysOf(s), FirstPlaces(KeysOf(s)))
    /\ \A i \in DOMAIN d : IsLast(s, d[i])

\* In such a map every key is once.
LEMMA KeysOnce ==
  ASSUME NEW s \in Seq(Pairs), NEW d, DictOf(d, s),
         NEW i \in DOMAIN d, NEW j \in DOMAIN d, d[i].first = d[j].first
  PROVE  i = j
<1>1. /\ KeysOf(d) \in Seq(Keys) /\ DOMAIN KeysOf(d) = DOMAIN d /\ KeysOf(s) \in Seq(Keys)
      /\ KeysOf(d)[i] = d[i].first /\ KeysOf(d)[j] = d[j].first
  <2>1. d \in Seq(Pairs) /\ DOMAIN d = 1..Len(d)
    BY DEF DictOf
  <2> QED
    BY <2>1, KeysInOrder
<1>2. IsKept(KeysOf(d), KeysOf(s), FirstPlaces(KeysOf(s)))
  BY DEF DictOf
<1> QED
  BY <1>1, <1>2, KeptOnce

\* A put is what its key was last given, and leaves the last of the other keys.
LEMMA LastStays ==
  ASSUME NEW s \in Seq(Pairs), NEW p \in Pairs
  PROVE  /\ IsLast(Append(s, p), p)
         /\ \A q : IsLast(s, q) /\ q.first # p.first => IsLast(Append(s, p), q)
<1> DEFINE n    == Len(s)
           more == Append(s, p)
<1>1. /\ n \in Nat /\ DOMAIN s = 1..n /\ Len(more) = n + 1 /\ DOMAIN more = 1..(n + 1)
      /\ more[n + 1] = p /\ \A k \in 1..n : more[k] = s[k]
  OBVIOUS
<1> HIDE DEF n, more
<1>2. IsLast(more, p)
  BY <1>1 DEF IsLast
<1>3. ASSUME NEW q, IsLast(s, q), q.first # p.first PROVE IsLast(more, q)
  <2>1. PICK j \in 1..n : s[j] = q /\ \A m \in (j + 1)..n : s[m].first # q.first
    BY <1>1, <1>3 DEF IsLast, n
  <2>2. j \in DOMAIN more /\ more[j] = q
    BY <1>1, <2>1
  <2>3. ASSUME NEW m \in (j + 1)..(n + 1) PROVE more[m].first # q.first
    <3>1. CASE m = n + 1
      BY <1>1, <1>3, <3>1
    <3>2. CASE m # n + 1
      <4>1. m \in (j + 1)..n /\ m \in 1..n
        BY <1>1, <3>2
      <4> QED
        BY <1>1, <2>1, <4>1
    <3> QED
      BY <3>1, <3>2
  <2> QED
    BY <1>1, <2>2, <2>3 DEF IsLast
<1> QED
  BY <1>2, <1>3 DEF more

\* A put makes of the map of s the map of s and it.
LEMMA PutKeeps ==
  ASSUME NEW s \in Seq(Pairs), NEW p \in Pairs, NEW d, DictOf(d, s)
  PROVE  DictOf(TypeDictInsert(d, p.first, p.second), Append(s, p))
<1> DEFINE e == TypeDictInsert(d, p.first, p.second)
           k == p.first
<1>1. d \in Seq(Pairs) /\ DOMAIN d = 1..Len(d) /\ Len(d) \in Nat /\ k \in Keys
  BY DEF DictOf, Pairs
<1>2. /\ KeysOf(d) \in Seq(Keys) /\ Len(KeysOf(d)) = Len(d) /\ DOMAIN KeysOf(d) = 1..Len(d)
      /\ \A i \in 1..Len(d) : KeysOf(d)[i] = d[i].first
      /\ Places(KeysOf(d), k) = KeyPlaces(d, k)
  BY <1>1, KeysInOrder
<1>3. IsKept(IF Places(KeysOf(d), k) # {} THEN KeysOf(d) ELSE Append(KeysOf(d), k),
             KeysOf(Append(s, p)), FirstPlaces(KeysOf(Append(s, p))))
  <2>1. KeysOf(s) \in Seq(Keys) /\ IsKept(KeysOf(d), KeysOf(s), FirstPlaces(KeysOf(s)))
    BY KeysInOrder DEF DictOf
  <2>2. KeysOf(Append(s, p)) = Append(KeysOf(s), k)
    BY KeysOfOneMore
  <2> HIDE DEF k
  <2> QED
    BY <1>1, <1>2, <2>1, <2>2, FirstPlacesGrow
<1>4. \A i \in DOMAIN d : IsLast(s, d[i])
  BY DEF DictOf
<1>5. CASE KeyPlaces(d, k) = {} /\ e = Append(d, p)
  <2>1. KeysOf(e) = Append(KeysOf(d), k)
    BY <1>1, <1>5, KeysOfOneMore
  <2>2. e \in Seq(Pairs) /\ DOMAIN e = 1..(Len(d) + 1)
        /\ e[Len(d) + 1] = p /\ \A i \in 1..Len(d) : e[i] = d[i]
    BY <1>1, <1>5
  <2>3. \A i \in DOMAIN d : d[i].first # k
    BY <1>5 DEF KeyPlaces
  <2> HIDE DEF e, k
  <2>4. ASSUME NEW i \in DOMAIN e PROVE IsLast(Append(s, p), e[i])
    <3>1. CASE i = Len(d) + 1
      BY <2>2, <3>1, LastStays
    <3>2. CASE i \in 1..Len(d)
      BY <1>1, <1>4, <2>2, <2>3, <3>2, LastStays DEF k
    <3> QED
      BY <1>1, <2>2, <3>1, <3>2
  <2>5. IsKept(KeysOf(e), KeysOf(Append(s, p)), FirstPlaces(KeysOf(Append(s, p))))
    <3>1. Places(KeysOf(d), k) = {}
      BY <1>2, <1>5
    <3> QED
      BY <1>3, <2>1, <3>1, Zenon
  <2>6. DictOf(e, Append(s, p))
    BY <2>2, <2>4, <2>5, Zenon DEF DictOf
  <2> QED
    BY <2>6 DEF e, k
<1>6. CASE \E i \in KeyPlaces(d, k) : e = [d EXCEPT ![i] = p]
  <2>1. PICK i \in KeyPlaces(d, k) : e = [d EXCEPT ![i] = p]
    BY <1>6
  <2>2. i \in 1..Len(d) /\ d[i].first = k
    BY <1>1 DEF KeyPlaces
  <2>3. e \in Seq(Pairs) /\ Len(e) = Len(d) /\ DOMAIN e = DOMAIN d
        /\ e[i] = p /\ \A j \in DOMAIN d : j # i => e[j] = d[j]
    BY <1>1, <2>1, <2>2
  <2>4. KeysOf(e) = KeysOf(d)
    <3>1. \A j \in DOMAIN d : e[j].first = d[j].first
      BY <2>2, <2>3
    <3> HIDE DEF e
    <3> QED
      BY <2>3, <3>1 DEF KeysOf
  <2>5. \A j \in DOMAIN d : j # i => d[j].first # k
    BY <1>1, <2>2, KeysOnce
  <2> HIDE DEF e, k
  <2>6. ASSUME NEW j \in DOMAIN e PROVE IsLast(Append(s, p), e[j])
    <3>1. CASE j = i
      BY <2>3, <3>1, LastStays
    <3>2. CASE j # i
      BY <1>4, <2>3, <2>5, <3>2, LastStays DEF k
    <3> QED
      BY <3>1, <3>2
  <2>7. KeyPlaces(d, k) # {}
    BY <2>1
  <2>8. IsKept(KeysOf(e), KeysOf(Append(s, p)), FirstPlaces(KeysOf(Append(s, p))))
    <3>1. Places(KeysOf(d), k) # {}
      BY <1>2, <2>7
    <3> QED
      BY <1>3, <2>4, <3>1, Zenon
  <2>9. DictOf(e, Append(s, p))
    BY <2>3, <2>6, <2>8, Zenon DEF DictOf
  <2> QED
    BY <2>9 DEF e, k
<1>7. \/ KeyPlaces(d, k) = {} /\ e = Append(d, p)
      \/ \E i \in KeyPlaces(d, k) : e = [d EXCEPT ![i] = p]
  BY <1>1, PutIs
<1> QED
  BY <1>5, <1>6, <1>7

\* So a dictionary is the map of what was put.
LEMMA InsertedIsMap ==
  ASSUME NEW s \in Seq(Pairs) PROVE DictOf(InsertAll(<<>>, s), s)
<1> DEFINE D == {q \in Seq(Pairs) : DictOf(InsertAll(<<>>, q), q)}
<1>1. <<>> \in D
  <2>1. <<>> \in Seq(Pairs) /\ KeysOf(<<>>) = <<>> /\ FirstPlaces(<<>>) = {} /\ DOMAIN <<>> = {}
    BY DEF KeysOf, FirstPlaces
  <2>2. InsertAll(<<>>, <<>>) = <<>>
    BY <2>1, InsertNone
  <2>3. DictOf(<<>>, <<>>)
    BY <2>1, KeptNone DEF DictOf
  <2> QED
    BY <2>1, <2>2, <2>3
<1>2. ASSUME NEW q \in Seq(Pairs), NEW p \in Pairs, q \in D PROVE Append(q, p) \in D
  <2>1. <<>> \in Seq(Pairs) /\ Append(q, p) \in Seq(Pairs)
    OBVIOUS
  <2>2. InsertAll(<<>>, Append(q, p)) = TypeDictInsert(InsertAll(<<>>, q), p.first, p.second)
    BY <2>1, InsertOneMore
  <2>3. DictOf(InsertAll(<<>>, q), q)
    BY <1>2
  <2>4. DictOf(InsertAll(<<>>, Append(q, p)), Append(q, p))
    BY <2>2, <2>3, PutKeeps
  <2> QED
    BY <2>1, <2>4
<1>3. Seq(Pairs) \subseteq D
  <2> HIDE DEF D
  <2> QED
    BY <1>1, <1>2, SeqInduction
<1> QED
  BY <1>3

\* LastValue is the value of the last pair of its key, ...
LEMMA LastIsLastValue ==
  ASSUME NEW s \in Seq(Pairs), NEW p, IsLast(s, p)
  PROVE  LastValue(s, p.first) = p.second
<1> DEFINE ok(i) == s[i].first = p.first /\ \A j \in (i + 1)..Len(s) : s[j].first # p.first
           c     == CHOOSE i \in DOMAIN s : ok(i)
<1>1. PICK j \in DOMAIN s : s[j] = p /\ \A m \in (j + 1)..Len(s) : s[m].first # p.first
  BY DEF IsLast
<1>2. ok(j)
  BY <1>1
<1>3. c \in DOMAIN s /\ ok(c)
  BY <1>2
<1>4. LastValue(s, p.first) = s[c].second
  BY DEF LastValue
<1> HIDE DEF c
<1>5. Len(s) \in Nat /\ c \in 1..Len(s) /\ j \in 1..Len(s)
  BY <1>1, <1>3
<1>6. ~(c < j) /\ ~(j < c)
  BY <1>1, <1>2, <1>3, <1>5
<1>7. c = j
  BY <1>5, <1>6
<1> QED
  BY <1>1, <1>4, <1>7

\* ... which is the one in the map.
LEMMA LastValueIs ==
  ASSUME NEW s \in Seq(Pairs), NEW d, DictOf(d, s), NEW i \in DOMAIN d
  PROVE  LastValue(s, d[i].first) = d[i].second
<1>1. IsLast(s, d[i])
  BY DEF DictOf
<1> QED
  BY <1>1, LastIsLastValue

\* The key and value lists are those of the pairs.
LEMMA AllKeysIs ==
  ASSUME NEW d \in Seq(Pairs)
  PROVE  TypeDictAllKeys(d) = KeysOf(d) /\ TypeDictAllValues(d) = ValuesOf(d)
<1>1. DOMAIN d = 1..Len(d) /\ \A i \in 1..Len(d) : d[i] \in Pairs
  OBVIOUS
<1>2. KeysOf(d) \in [1..Len(d) -> Keys] /\ ValuesOf(d) \in [1..Len(d) -> Values]
  BY <1>1 DEF KeysOf, ValuesOf, Pairs
<1>3. TypeDictAllKeys(d) = Collect(d, KeysOf(d))
  BY DEF TypeDictAllKeys, KeysOf
<1>4. TypeDictAllValues(d) = Collect(d, ValuesOf(d))
  BY DEF TypeDictAllValues, ValuesOf
<1> QED
  BY <1>2, <1>3, <1>4, CollectAll

\* Looking up a key.
LEMMA ValueIs ==
  ASSUME NEW s \in Seq(Pairs), NEW d, DictOf(d, s), NEW k
  PROVE  ValueForKey(k, d) = IF k \in ToSet(KeysOf(d)) THEN LastValue(s, k) ELSE IllFormed
<1> DEFINE P     == KeyPlaces(d, k)
           found == [i \in P |-> d[i].second]
<1>1. d \in Seq(Pairs) /\ DOMAIN d = 1..Len(d)
  BY DEF DictOf
<1>2. DOMAIN found = P /\ P \in SUBSET (1..Len(d)) /\ \A i \in P : found[i] = d[i].second
  BY <1>1 DEF KeyPlaces
<1>3. ValueForKey(k, d) = Search(d, found, IllFormed)
  BY DEF ValueForKey
<1>4. (k \in ToSet(KeysOf(d))) = (P # {})
  BY <1>1 DEF ToSet, KeysOf, KeyPlaces
<1>5. \A i \in P : d[i].second = LastValue(s, k)
  BY LastValueIs DEF KeyPlaces
<1> HIDE DEF P, found
<1>6. \/ P = {} /\ Search(d, found, IllFormed) = IllFormed
      \/ \E i \in P : (\A j \in P : i <= j) /\ Search(d, found, IllFormed) = found[i]
  BY <1>1, <1>2, SearchIs
<1> QED
  BY <1>2, <1>3, <1>4, <1>5, <1>6

\* Looking up a value, for all its keys and for the first.
LEMMA KeysForValue ==
  ASSUME NEW s \in Seq(Pairs), NEW d, DictOf(d, s), NEW v
  PROVE  /\ IsKept(AllKeyForValue(v, d), KeysOf(d),
                   {i \in DOMAIN KeysOf(d) : LastValue(s, KeysOf(d)[i]) = v})
         /\ FirstKeyForValue(v, d)
              = IF AllKeyForValue(v, d) = <<>> THEN NotFound ELSE Head(AllKeyForValue(v, d))
<1> DEFINE P    == ValuePlaces(d, v)
           part == [i \in P |-> d[i].first]
           all  == Collect(d, part)
<1>1. d \in Seq(Pairs) /\ DOMAIN d = 1..Len(d) /\ \A i \in DOMAIN d : d[i].first \in Keys
  <2>1. d \in Seq(Pairs)
    BY DEF DictOf
  <2>2. \A i \in DOMAIN d : d[i] \in Pairs
    BY <2>1
  <2> QED
    BY <2>1, <2>2 DEF Pairs
<1>2. /\ DOMAIN part = P /\ P \in SUBSET (1..Len(d))
      /\ \A i \in P : part[i] = d[i].first /\ part[i] \in Keys
  BY <1>1 DEF ValuePlaces
<1>3. AllKeyForValue(v, d) = all /\ FirstKeyForValue(v, d) = Search(d, part, NotFound)
  BY DEF AllKeyForValue, FirstKeyForValue
<1>4. {i \in DOMAIN KeysOf(d) : LastValue(s, KeysOf(d)[i]) = v} = P
  <2>1. DOMAIN KeysOf(d) = DOMAIN d /\ \A i \in DOMAIN d : KeysOf(d)[i] = d[i].first
    BY DEF KeysOf
  <2>2. \A i \in DOMAIN d : LastValue(s, d[i].first) = d[i].second
    BY LastValueIs
  <2> QED
    BY <2>1, <2>2 DEF ValuePlaces
<1>5. all \in Seq(Keys) /\ IsKept(all, part, P)
  <2> HIDE DEF P, part
  <2> QED
    BY <1>1, <1>2, CollectKeeps
<1>6. IsKept(all, KeysOf(d), P)
  <2>1. \A i \in P : part[i] = KeysOf(d)[i]
    BY <1>1, <1>2 DEF KeysOf
  <2> HIDE DEF P, part, all
  <2> QED
    BY <1>5, <2>1, KeptSame
<1> HIDE DEF P, part, all
<1>7. PICK at \in [DOMAIN all -> P] :
         /\ \A i, j \in DOMAIN all : i < j => at[i] < at[j]
         /\ \A k \in P : \E i \in DOMAIN all : at[i] = k
         /\ \A i \in DOMAIN all : all[i] = part[at[i]]
  BY <1>5 DEF IsKept
<1>8. Search(d, part, NotFound) = IF all = <<>> THEN NotFound ELSE Head(all)
  <2>1. \/ P = {} /\ Search(d, part, NotFound) = NotFound
        \/ \E k \in P : (\A j \in P : k <= j) /\ Search(d, part, NotFound) = part[k]
    BY <1>1, <1>2, SearchIs
  <2>2. CASE P = {}
    <3>1. DOMAIN all = {}
      BY <1>7, <2>2
    <3>2. all = <<>>
      BY <1>5, <3>1
    <3> QED
      BY <2>1, <2>2, <3>2
  <2>3. CASE P # {}
    <3>1. PICK k \in P : (\A j \in P : k <= j) /\ Search(d, part, NotFound) = part[k]
      BY <2>1, <2>3
    <3>2. PICK i \in DOMAIN all : at[i] = k
      BY <1>7, <3>1
    <3>3. all # <<>> /\ 1 \in DOMAIN all /\ Head(all) = all[1] /\ i \in Nat /\ 1 <= i
      BY <1>5, <3>2
    <3>4. at[1] \in P /\ (1 < i => at[1] < at[i])
      BY <1>7, <3>2, <3>3
    <3>5. at[1] \in Nat /\ at[i] \in Nat /\ at[i] <= at[1]
      BY <1>2, <3>1, <3>2, <3>4
    <3>6. i = 1
      BY <3>3, <3>4, <3>5
    <3>7. Head(all) = part[k]
      BY <1>7, <3>2, <3>3, <3>6
    <3> QED
      BY <3>1, <3>3, <3>7
  <2> QED
    BY <2>2, <2>3
<1> QED
  BY <1>3, <1>4, <1>6, <1>8

\* So the look-ups of the map of the puts say what was put.
LEMMA MapHasWhatWasPut ==
  ASSUME puts \in Seq(Pairs), DictOf(dict, puts) PROVE HasWhatWasPut
<1>1. dict \in Seq(Pairs)
  BY DEF DictOf
<1>2. TypeDictAllKeys(dict) = KeysOf(dict) /\ TypeDictAllValues(dict) = ValuesOf(dict)
  BY <1>1, AllKeysIs
<1>3. IsKept(KeysOf(dict), KeysOf(puts), FirstPlaces(KeysOf(puts)))
  BY DEF DictOf
<1>4. ValuesOf(dict) = [i \in DOMAIN KeysOf(dict) |-> LastValue(puts, KeysOf(dict)[i])]
  <2>1. \A i \in DOMAIN dict : LastValue(puts, dict[i].first) = dict[i].second
    BY LastValueIs
  <2> QED
    BY <2>1 DEF ValuesOf, KeysOf
<1>5. \A k \in Keys :
         ValueForKey(k, dict)
           = IF k \in ToSet(KeysOf(dict)) THEN LastValue(puts, k) ELSE IllFormed
  BY ValueIs
<1>6. \A v \in Values :
         /\ IsKept(AllKeyForValue(v, dict), KeysOf(dict),
                   {i \in DOMAIN KeysOf(dict) : LastValue(puts, KeysOf(dict)[i]) = v})
         /\ FirstKeyForValue(v, dict)
              = IF AllKeyForValue(v, dict) = <<>> THEN NotFound
                ELSE Head(AllKeyForValue(v, dict))
  BY KeysForValue
<1> QED
  BY <1>2, <1>3, <1>4, <1>5, <1>6 DEF HasWhatWasPut

\* Pairs put in two lots.
LEMMA InsertInTwo ==
  ASSUME NEW d \in Seq(Pairs), NEW s \in Seq(Pairs), NEW t \in Seq(Pairs)
  PROVE  InsertAll(d, s \o t) = InsertAll(InsertAll(d, s), t)
<1> DEFINE D == {q \in Seq(Pairs) : InsertAll(d, s \o q) = InsertAll(InsertAll(d, s), q)}
<1>1. <<>> \in D
  <2>1. <<>> \in Seq(Pairs) /\ s \o <<>> = s
    OBVIOUS
  <2>2. InsertAll(InsertAll(d, s), <<>>) = InsertAll(d, s)
    BY InsertAllIsDict, InsertNone
  <2> QED
    BY <2>1, <2>2
<1>2. ASSUME NEW q \in Seq(Pairs), NEW p \in Pairs, q \in D PROVE Append(q, p) \in D
  <2>1. s \o q \in Seq(Pairs) /\ Append(q, p) \in Seq(Pairs) /\ s \o Append(q, p) = Append(s \o q, p)
    OBVIOUS
  <2>2. InsertAll(d, s) \in Seq(Pairs)
    BY InsertAllIsDict
  <2>3. InsertAll(d, Append(s \o q, p)) = TypeDictInsert(InsertAll(d, s \o q), p.first, p.second)
    BY <2>1, InsertOneMore
  <2>4. InsertAll(InsertAll(d, s), Append(q, p))
          = TypeDictInsert(InsertAll(InsertAll(d, s), q), p.first, p.second)
    BY <2>2, InsertOneMore
  <2>5. InsertAll(d, s \o q) = InsertAll(InsertAll(d, s), q)
    BY <1>2
  <2> QED
    BY <2>1, <2>3, <2>4, <2>5
<1>3. Seq(Pairs) \subseteq D
  <2> HIDE DEF D
  <2> QED
    BY <1>1, <1>2, SeqInduction
<1> QED
  BY <1>3

\* What a put does to the places of a key.
LEMMA PutPlaces ==
  ASSUME NEW d \in Seq(Pairs), NEW p \in Pairs, NEW i \in KeyPlaces(d, p.first)
  PROVE  /\ [d EXCEPT ![i] = p] \in Seq(Pairs)
         /\ DOMAIN [d EXCEPT ![i] = p] = DOMAIN d
         /\ \A k : KeyPlaces([d EXCEPT ![i] = p], k) = KeyPlaces(d, k)
<1>1. i \in DOMAIN d /\ d[i].first = p.first
  BY DEF KeyPlaces
<1>2. [d EXCEPT ![i] = p] \in Seq(Pairs) /\ DOMAIN [d EXCEPT ![i] = p] = DOMAIN d
  BY <1>1
<1>3. \A j \in DOMAIN d : [d EXCEPT ![i] = p][j].first = d[j].first
  BY <1>1
<1> QED
  BY <1>2, <1>3 DEF KeyPlaces

\* The place a put goes to is the key's least.
LEMMA PutAtLeast ==
  ASSUME NEW d \in Seq(Pairs), NEW p \in Pairs, NEW i \in KeyPlaces(d, p.first),
         \A j \in KeyPlaces(d, p.first) : i <= j
  PROVE  TypeDictInsert(d, p.first, p.second) = [d EXCEPT ![i] = p]
<1>1. PICK j \in KeyPlaces(d, p.first) :
         /\ \A m \in KeyPlaces(d, p.first) : j <= m
         /\ TypeDictInsert(d, p.first, p.second) = [d EXCEPT ![j] = p]
  BY PutIs
<1>2. i \in Nat /\ j \in Nat
  BY DEF KeyPlaces
<1>3. i = j
  BY <1>1, <1>2
<1> QED
  BY <1>1, <1>3

\* A key that is there has a least place.
LEMMA LeastPlace ==
  ASSUME NEW d \in Seq(Pairs), NEW k, KeyPlaces(d, k) # {}
  PROVE  \E i \in KeyPlaces(d, k) : \A j \in KeyPlaces(d, k) : i <= j
<1>1. KeyPlaces(d, k) \in SUBSET Nat
  BY DEF KeyPlaces
<1> QED
  BY <1>1, LeastNumber

\* A key that is put is there, and what is there stays there.
LEMMA PutStays ==
  ASSUME NEW d \in Seq(Pairs), NEW p \in Pairs
  PROVE  /\ KeyPlaces(TypeDictInsert(d, p.first, p.second), p.first) # {}
         /\ \A k : KeyPlaces(d, k) # {} =>
                       KeyPlaces(TypeDictInsert(d, p.first, p.second), k) # {}
<1>1. CASE KeyPlaces(d, p.first) = {}
  <2>1. TypeDictInsert(d, p.first, p.second) = Append(d, p)
    BY <1>1, PutIs
  <2>2. /\ Len(d) \in Nat /\ Len(d) + 1 \in DOMAIN Append(d, p) /\ Append(d, p)[Len(d) + 1] = p
        /\ \A i \in DOMAIN d : i \in DOMAIN Append(d, p) /\ Append(d, p)[i] = d[i]
    OBVIOUS
  <2> QED
    BY <2>1, <2>2 DEF KeyPlaces
<1>2. CASE KeyPlaces(d, p.first) # {}
  <2>1. PICK i \in KeyPlaces(d, p.first) :
           TypeDictInsert(d, p.first, p.second) = [d EXCEPT ![i] = p]
    BY <1>2, PutIs
  <2>2. \A k : KeyPlaces([d EXCEPT ![i] = p], k) = KeyPlaces(d, k)
    BY PutPlaces
  <2> QED
    BY <1>2, <2>1, <2>2
<1> QED
  BY <1>1, <1>2

\* A second put to the same key undoes the first, ...
LEMMA PutTwice ==
  ASSUME NEW d \in Seq(Pairs), NEW p \in Pairs, NEW q \in Pairs, p.first = q.first
  PROVE  TypeDictInsert(TypeDictInsert(d, q.first, q.second), p.first, p.second)
           = TypeDictInsert(d, p.first, p.second)
<1>1. CASE KeyPlaces(d, p.first) = {}
  <2> DEFINE n == Len(d)
             e == Append(d, q)
  <2>1. TypeDictInsert(d, q.first, q.second) = e
        /\ TypeDictInsert(d, p.first, p.second) = Append(d, p)
    BY <1>1, PutIs
  <2>2. /\ n \in Nat /\ e \in Seq(Pairs) /\ Len(e) = n + 1 /\ e[n + 1] = q
        /\ DOMAIN d = 1..n /\ DOMAIN e = 1..(n + 1) /\ \A i \in 1..n : e[i] = d[i]
    OBVIOUS
  <2>3. /\ Append(d, p) \in Seq(Pairs) /\ Len(Append(d, p)) = n + 1 /\ Append(d, p)[n + 1] = p
        /\ \A i \in 1..n : Append(d, p)[i] = d[i]
    OBVIOUS
  <2>4. \A i \in 1..n : d[i].first # p.first
    BY <1>1, <2>2 DEF KeyPlaces
  <2> HIDE DEF n, e
  <2>5. n + 1 \in KeyPlaces(e, p.first) /\ \A j \in KeyPlaces(e, p.first) : n + 1 <= j
    <3>1. n + 1 \in KeyPlaces(e, p.first)
      BY <2>2 DEF KeyPlaces
    <3>2. \A j \in 1..n : j \notin KeyPlaces(e, p.first)
      BY <2>2, <2>4 DEF KeyPlaces
    <3>3. KeyPlaces(e, p.first) \in SUBSET (1..(n + 1))
      BY <2>2 DEF KeyPlaces
    <3> QED
      BY <2>2, <3>1, <3>2, <3>3
  <2>6. TypeDictInsert(e, p.first, p.second) = [e EXCEPT ![n + 1] = p]
    BY <2>2, <2>5, PutAtLeast
  <2>7. [e EXCEPT ![n + 1] = p] = Append(d, p)
    <3>1. [e EXCEPT ![n + 1] = p] \in Seq(Pairs) /\ Len([e EXCEPT ![n + 1] = p]) = n + 1
      BY <2>2
    <3>2. \A i \in 1..(n + 1) : i = n + 1 \/ i \in 1..n
      BY <2>2
    <3>3. [e EXCEPT ![n + 1] = p][n + 1] = p
          /\ \A i \in 1..n : [e EXCEPT ![n + 1] = p][i] = d[i]
      BY <2>2
    <3>4. \A i \in 1..(n + 1) : [e EXCEPT ![n + 1] = p][i] = Append(d, p)[i]
      BY <2>3, <3>2, <3>3
    <3> QED
      BY <2>3, <3>1, <3>4, SeqEqual
  <2> QED
    BY <2>1, <2>6, <2>7
<1>2. CASE KeyPlaces(d, p.first) # {}
  <2>1. PICK i \in KeyPlaces(d, p.first) : \A j \in KeyPlaces(d, p.first) : i <= j
    BY <1>2, LeastPlace
  <2> DEFINE e == [d EXCEPT ![i] = q]
  <2>2. TypeDictInsert(d, q.first, q.second) = e
        /\ TypeDictInsert(d, p.first, p.second) = [d EXCEPT ![i] = p]
    BY <2>1, PutAtLeast
  <2>3. e \in Seq(Pairs) /\ KeyPlaces(e, p.first) = KeyPlaces(d, p.first)
    BY PutPlaces
  <2>4. [e EXCEPT ![i] = p] = [d EXCEPT ![i] = p]
    OBVIOUS
  <2> HIDE DEF e
  <2>5. TypeDictInsert(e, p.first, p.second) = [e EXCEPT ![i] = p]
    BY <2>1, <2>3, PutAtLeast
  <2> QED
    BY <2>2, <2>4, <2>5
<1> QED
  BY <1>1, <1>2

\* ... and one to a key that is there may as well come before one to another key.
LEMMA PutsCommute ==
  ASSUME NEW d \in Seq(Pairs), NEW p \in Pairs, NEW q \in Pairs, p.first # q.first,
         KeyPlaces(d, p.first) # {}
  PROVE  TypeDictInsert(TypeDictInsert(d, q.first, q.second), p.first, p.second)
           = TypeDictInsert(TypeDictInsert(d, p.first, p.second), q.first, q.second)
<1>1. PICK i \in KeyPlaces(d, p.first) : \A j \in KeyPlaces(d, p.first) : i <= j
  BY LeastPlace
<1> DEFINE e == [d EXCEPT ![i] = p]
<1>2. TypeDictInsert(d, p.first, p.second) = e
  BY <1>1, PutAtLeast
<1>3. e \in Seq(Pairs) /\ DOMAIN e = DOMAIN d /\ KeyPlaces(e, q.first) = KeyPlaces(d, q.first)
  BY PutPlaces
<1>4. i \in DOMAIN d /\ d[i].first = p.first
  BY DEF KeyPlaces
<1>5. CASE KeyPlaces(d, q.first) = {}
  <2> DEFINE n == Len(d)
             f == Append(d, q)
  <2>1. TypeDictInsert(d, q.first, q.second) = f
    BY <1>5, PutIs
  <2>2. TypeDictInsert(e, q.first, q.second) = Append(e, q)
    <3> HIDE DEF e
    <3> QED
      BY <1>3, <1>5, PutIs
  <2>3. /\ n \in Nat /\ f \in Seq(Pairs) /\ Len(f) = n + 1 /\ f[n + 1] = q /\ Len(e) = n
        /\ DOMAIN d = 1..n /\ DOMAIN f = 1..(n + 1) /\ \A j \in 1..n : f[j] = d[j]
    BY <1>4
  <2>4. /\ Append(e, q) \in Seq(Pairs) /\ Len(Append(e, q)) = n + 1 /\ Append(e, q)[n + 1] = q
        /\ \A j \in 1..n : Append(e, q)[j] = IF j = i THEN p ELSE d[j]
    BY <1>3, <1>4
  <2> HIDE DEF n, f, e
  <2>5. KeyPlaces(f, p.first) = KeyPlaces(d, p.first)
    <3>1. \A j \in 1..(n + 1) : j = n + 1 \/ j \in 1..n
      BY <2>3
    <3>2. \A j \in 1..n : j \in 1..(n + 1)
      BY <2>3
    <3> QED
      BY <2>3, <3>1, <3>2 DEF KeyPlaces
  <2>6. TypeDictInsert(f, p.first, p.second) = [f EXCEPT ![i] = p]
    <3>1. i \in KeyPlaces(f, p.first) /\ \A j \in KeyPlaces(f, p.first) : i <= j
      BY <1>1, <2>5
    <3> QED
      BY <2>3, <3>1, PutAtLeast
  <2>7. [f EXCEPT ![i] = p] = Append(e, q)
    <3>1. i \in 1..n /\ i \in 1..(n + 1) /\ i # n + 1
      BY <1>4, <2>3
    <3>2. [f EXCEPT ![i] = p] \in Seq(Pairs) /\ Len([f EXCEPT ![i] = p]) = n + 1
      BY <2>3, <3>1
    <3>3. \A j \in 1..(n + 1) : j = n + 1 \/ j \in 1..n
      BY <2>3
    <3>4. [f EXCEPT ![i] = p][n + 1] = q
          /\ \A j \in 1..n : [f EXCEPT ![i] = p][j] = IF j = i THEN p ELSE d[j]
      BY <2>3, <3>1
    <3>5. \A j \in 1..(n + 1) : [f EXCEPT ![i] = p][j] = Append(e, q)[j]
      BY <2>4, <3>3, <3>4
    <3> QED
      BY <2>4, <3>2, <3>5, SeqEqual
  <2> QED
    BY <1>2, <2>1, <2>2, <2>6, <2>7
<1>6. CASE KeyPlaces(d, q.first) # {}
  <2>1. PICK j \in KeyPlaces(d, q.first) : \A m \in KeyPlaces(d, q.first) : j <= m
    BY <1>6, LeastPlace
  <2> DEFINE f == [d EXCEPT ![j] = q]
  <2>2. TypeDictInsert(d, q.first, q.second) = f
    BY <2>1, PutAtLeast
  <2>3. f \in Seq(Pairs) /\ KeyPlaces(f, p.first) = KeyPlaces(d, p.first)
    BY PutPlaces
  <2>4. j \in DOMAIN d /\ d[j].first = q.first
    BY DEF KeyPlaces
  <2>5. [e EXCEPT ![j] = q] = [f EXCEPT ![i] = p]
    BY <1>4, <2>4
  <2> HIDE DEF e, f
  <2>6. TypeDictInsert(f, p.first, p.second) = [f EXCEPT ![i] = p]
    BY <1>1, <2>3, PutAtLeast
  <2>7. TypeDictInsert(e, q.first, q.second) = [e EXCEPT ![j] = q]
    BY <1>3, <2>1, PutAtLeast
  <2> QED
    BY <1>2, <2>2, <2>5, <2>6, <2>7
<1> QED
  BY <1>5, <1>6

\* So a put in a dictionary that is put into another one may as well be a put there.
PutThrough(b) ==
    \A d \in Seq(Pairs), p \in Pairs :
        /\ \A i \in DOMAIN b : KeyPlaces(InsertAll(d, b), b[i].first) # {}
        /\ \A i \in DOMAIN b :
              /\ b[i].first = p.first
              /\ \A j \in (i + 1)..Len(b) : b[j].first # p.first
              => InsertAll(d, [b EXCEPT ![i] = p])
                   = TypeDictInsert(InsertAll(d, b), p.first, p.second)

\* By induction on the dictionary in between: its last pair is the one that is put
\* again, or a put to another key.
LEMMA PutsGoThrough ==
  ASSUME NEW b \in Seq(Pairs) PROVE PutThrough(b)
<1> DEFINE D == {c \in Seq(Pairs) : PutThrough(c)}
<1>1. <<>> \in D
  <2>1. <<>> \in Seq(Pairs) /\ DOMAIN <<>> = {}
    OBVIOUS
  <2> QED
    BY <2>1 DEF PutThrough
<1>2. ASSUME NEW c \in Seq(Pairs), NEW r \in Pairs, PutThrough(c) PROVE PutThrough(Append(c, r))
  <2> DEFINE n    == Len(c)
             more == Append(c, r)
  <2>1. /\ n \in Nat /\ DOMAIN c = 1..n /\ more \in Seq(Pairs) /\ Len(more) = n + 1
        /\ DOMAIN more = 1..(n + 1) /\ more[n + 1] = r /\ \A i \in 1..n : more[i] = c[i]
    OBVIOUS
  <2> SUFFICES ASSUME NEW d \in Seq(Pairs), NEW p \in Pairs
               PROVE  /\ \A i \in DOMAIN more : KeyPlaces(InsertAll(d, more), more[i].first) # {}
                      /\ \A i \in DOMAIN more :
                            /\ more[i].first = p.first
                            /\ \A j \in (i + 1)..Len(more) : more[j].first # p.first
                            => InsertAll(d, [more EXCEPT ![i] = p])
                                 = TypeDictInsert(InsertAll(d, more), p.first, p.second)
    BY Zenon DEF PutThrough
  <2> DEFINE e == InsertAll(d, c)
  <2>2. e \in Seq(Pairs)
    BY InsertAllIsDict
  <2>3. InsertAll(d, more) = TypeDictInsert(e, r.first, r.second)
    BY InsertOneMore
  <2>4. \A i \in 1..n : KeyPlaces(e, c[i].first) # {}
    BY <1>2, <2>1 DEF PutThrough
  <2>5. \A i \in 1..(n + 1) : i = n + 1 \/ i \in 1..n
    BY <2>1
  <2>6. ASSUME NEW i \in 1..n, c[i].first = p.first, \A j \in (i + 1)..n : c[j].first # p.first
        PROVE  InsertAll(d, [c EXCEPT ![i] = p]) = TypeDictInsert(e, p.first, p.second)
    BY <1>2, <2>1, <2>6 DEF PutThrough
  <2>7. [more EXCEPT ![n + 1] = p] = Append(c, p)
    <3>1. Append(c, p) \in Seq(Pairs) /\ Len(Append(c, p)) = n + 1 /\ Append(c, p)[n + 1] = p
          /\ \A i \in 1..n : Append(c, p)[i] = c[i]
      OBVIOUS
    <3> HIDE DEF n, more
    <3>2. n + 1 \in 1..(n + 1) /\ \A i \in 1..n : i \in 1..(n + 1) /\ i # n + 1
      BY <2>1
    <3>3. [more EXCEPT ![n + 1] = p] \in Seq(Pairs) /\ Len([more EXCEPT ![n + 1] = p]) = n + 1
      BY <2>1, <3>2
    <3>4. \A i \in 1..(n + 1) : [more EXCEPT ![n + 1] = p][i] = Append(c, p)[i]
      BY <2>1, <2>5, <3>1, <3>2
    <3> QED
      BY <3>1, <3>3, <3>4, SeqEqual
  <2>8. ASSUME NEW i \in 1..n PROVE [more EXCEPT ![i] = p] = Append([c EXCEPT ![i] = p], r)
    <3> DEFINE c2 == [c EXCEPT ![i] = p]
    <3>1. c2 \in Seq(Pairs) /\ Len(c2) = n /\ \A j \in 1..n : c2[j] = IF j = i THEN p ELSE c[j]
      BY <2>1
    <3> HIDE DEF c2
    <3>2. Append(c2, r) \in Seq(Pairs) /\ Len(Append(c2, r)) = n + 1 /\ Append(c2, r)[n + 1] = r
          /\ \A j \in 1..n : Append(c2, r)[j] = c2[j]
      BY <2>1, <3>1
    <3> HIDE DEF n, more
    <3>3. i \in 1..(n + 1) /\ i # n + 1 /\ n + 1 \in 1..(n + 1) /\ \A j \in 1..n : j \in 1..(n + 1)
      BY <2>1
    <3>4. [more EXCEPT ![i] = p] \in Seq(Pairs) /\ Len([more EXCEPT ![i] = p]) = n + 1
      BY <2>1, <3>3
    <3>5. \A j \in 1..(n + 1) : [more EXCEPT ![i] = p][j] = Append(c2, r)[j]
      BY <2>1, <2>5, <3>1, <3>2, <3>3
    <3>6. [more EXCEPT ![i] = p] = Append(c2, r)
      BY <3>2, <3>4, <3>5, SeqEqual
    <3> QED
      BY <3>6 DEF c2
  <2> HIDE DEF n, more, e
  <2>9. ASSUME NEW i \in 1..(n + 1) PROVE KeyPlaces(InsertAll(d, more), more[i].first) # {}
    <3>1. CASE i = n + 1
      BY <2>1, <2>2, <2>3, <3>1, PutStays
    <3>2. CASE i \in 1..n
      BY <2>1, <2>2, <2>3, <2>4, <3>2, PutStays
    <3> QED
      BY <2>5, <3>1, <3>2
  <2>10. ASSUME NEW i \in 1..(n + 1), more[i].first = p.first,
                \A j \in (i + 1)..(n + 1) : more[j].first # p.first
         PROVE  InsertAll(d, [more EXCEPT ![i] = p])
                  = TypeDictInsert(InsertAll(d, more), p.first, p.second)
    <3>1. CASE i = n + 1
      <4>1. InsertAll(d, Append(c, p)) = TypeDictInsert(e, p.first, p.second)
        BY InsertOneMore DEF e
      <4>2. r.first = p.first
        BY <2>1, <2>10, <3>1
      <4>3. TypeDictInsert(TypeDictInsert(e, r.first, r.second), p.first, p.second)
              = TypeDictInsert(e, p.first, p.second)
        BY <2>2, <4>2, PutTwice
      <4> QED
        BY <2>3, <2>7, <3>1, <4>1, <4>3
    <3>2. CASE i \in 1..n
      <4> DEFINE c2 == [c EXCEPT ![i] = p]
      <4>1. c2 \in Seq(Pairs)
        BY <2>1, <3>2
      <4> HIDE DEF c2
      <4>2. InsertAll(d, Append(c2, r)) = TypeDictInsert(InsertAll(d, c2), r.first, r.second)
        BY <4>1, InsertOneMore
      <4>3. c[i].first = p.first /\ r.first # p.first
        <5>1. n + 1 \in (i + 1)..(n + 1)
          BY <2>1, <3>2
        <5> QED
          BY <2>1, <2>10, <3>2, <5>1
      <4>4. \A j \in (i + 1)..n : c[j].first # p.first
        <5>1. \A j \in (i + 1)..n : j \in (i + 1)..(n + 1) /\ j \in 1..n
          BY <2>1, <3>2
        <5> QED
          BY <2>1, <2>10, <5>1
      <4>5. InsertAll(d, c2) = TypeDictInsert(e, p.first, p.second)
        BY <2>6, <3>2, <4>3, <4>4 DEF c2
      <4>6. KeyPlaces(e, p.first) # {}
        BY <2>4, <3>2, <4>3
      <4>7. TypeDictInsert(TypeDictInsert(e, r.first, r.second), p.first, p.second)
              = TypeDictInsert(TypeDictInsert(e, p.first, p.second), r.first, r.second)
        BY <2>2, <4>3, <4>6, PutsCommute
      <4>8. [more EXCEPT ![i] = p] = Append(c2, r)
        BY <2>8, <3>2 DEF c2
      <4> QED
        BY <2>3, <4>2, <4>5, <4>7, <4>8
    <3> QED
      BY <2>5, <3>1, <3>2
  <2> QED
    BY <2>1, <2>9, <2>10
<1>3. Seq(Pairs) \subseteq D
  <2>1. ASSUME NEW c \in Seq(Pairs), NEW r \in Pairs, c \in D PROVE Append(c, r) \in D
    <3>1. Append(c, r) \in Seq(Pairs)
      OBVIOUS
    <3> QED
      BY <1>2, <2>1, <3>1
  <2> HIDE DEF D
  <2> QED
    BY <1>1, <2>1, SeqInduction
<1> QED
  BY <1>3

\* A dictionary made of pairs adds to another what the pairs would.
LEMMA DictOfSame ==
  ASSUME NEW d \in Seq(Pairs), NEW s \in Seq(Pairs)
  PROVE  InsertAll(d, InsertAll(<<>>, s)) = InsertAll(d, s)
<1> DEFINE D == {q \in Seq(Pairs) : InsertAll(d, InsertAll(<<>>, q)) = InsertAll(d, q)}
<1>0. <<>> \in Seq(Pairs)
  OBVIOUS
<1>1. <<>> \in D
  BY <1>0, InsertNone
<1>2. ASSUME NEW q \in Seq(Pairs), NEW p \in Pairs, q \in D PROVE Append(q, p) \in D
  <2> DEFINE b == InsertAll(<<>>, q)
             e == TypeDictInsert(b, p.first, p.second)
  <2>1. DictOf(b, q) /\ b \in Seq(Pairs) /\ Append(q, p) \in Seq(Pairs)
    BY InsertedIsMap DEF DictOf
  <2>2. InsertAll(<<>>, Append(q, p)) = e
    BY <1>0, InsertOneMore
  <2>3. InsertAll(d, Append(q, p)) = TypeDictInsert(InsertAll(d, q), p.first, p.second)
    BY InsertOneMore
  <2>4. InsertAll(d, b) = InsertAll(d, q)
    BY <1>2
  <2> HIDE DEF b
  <2>5. InsertAll(d, e) = TypeDictInsert(InsertAll(d, b), p.first, p.second)
    <3>1. CASE KeyPlaces(b, p.first) = {}
      <4>1. e = Append(b, p)
        BY <2>1, <3>1, PutIs
      <4> QED
        BY <2>1, <4>1, InsertOneMore
    <3>2. CASE KeyPlaces(b, p.first) # {}
      <4>1. PICK i \in KeyPlaces(b, p.first) : e = [b EXCEPT ![i] = p]
        BY <2>1, <3>2, PutIs
      <4>2. i \in DOMAIN b /\ b[i].first = p.first /\ DOMAIN b = 1..Len(b) /\ Len(b) \in Nat
        BY <2>1 DEF KeyPlaces
      <4>3. ASSUME NEW j \in (i + 1)..Len(b) PROVE b[j].first # p.first
        <5>1. j \in DOMAIN b /\ j # i
          BY <4>2
        <5> QED
          BY <2>1, <4>2, <5>1, KeysOnce
      <4>4. InsertAll(d, [b EXCEPT ![i] = p])
              = TypeDictInsert(InsertAll(d, b), p.first, p.second)
        <5>1. PutThrough(b)
          BY <2>1, PutsGoThrough
        <5> QED
          BY <4>2, <4>3, <5>1 DEF PutThrough
      <4> QED
        BY <4>1, <4>4
    <3> QED
      BY <3>1, <3>2
  <2> HIDE DEF e
  <2> QED
    BY <2>1, <2>2, <2>3, <2>4, <2>5
<1>3. Seq(Pairs) \subseteq D
  <2> HIDE DEF D
  <2> QED
    BY <1>1, <1>2, SeqInduction
<1> QED
  BY <1>3

\* Two halves, each made a dictionary, make the dictionary of the whole.
LEMMA HalvesMakeTheWhole ==
  ASSUME NEW s \in Seq(Pairs), NEW n \in 0..Len(s)
  PROVE  DictCat(TypeDictFromPairTypes(SubSeq(s, 1, n)),
                 TypeDictFromPairTypes(SubSeq(s, n + 1, Len(s)))) = InsertAll(<<>>, s)
<1> DEFINE a == SubSeq(s, 1, n)
           b == SubSeq(s, n + 1, Len(s))
<1>1. a \in Seq(Pairs) /\ b \in Seq(Pairs) /\ <<>> \in Seq(Pairs)
  OBVIOUS
<1>2. a \o b = s
  <2>1. Len(s) \in Nat /\ Len(a) = n /\ Len(b) = Len(s) - n
    OBVIOUS
  <2>2. \A i \in 1..n : a[i] = s[i]
    OBVIOUS
  <2>3. \A i \in 1..(Len(s) - n) : b[i] = s[n + i]
    OBVIOUS
  <2> HIDE DEF a, b
  <2>4. a \o b \in Seq(Pairs) /\ Len(a \o b) = Len(s)
    <3>1. a \o b \in Seq(Pairs) /\ Len(a \o b) = Len(a) + Len(b)
      BY <1>1, ConcatProperties
    <3>2. n + (Len(s) - n) = Len(s)
      BY <2>1
    <3> QED
      BY <2>1, <3>1, <3>2
  <2>5. ASSUME NEW i \in 1..Len(s) PROVE (a \o b)[i] = s[i]
    <3>1. CASE i <= n
      <4>1. (a \o b)[i] = a[i] /\ i \in 1..n
        BY <1>1, <2>1, <3>1
      <4> QED
        BY <2>2, <4>1
    <3>2. CASE i > n
      <4>1. i - n \in 1..(Len(s) - n) /\ n + (i - n) = i
        BY <2>1, <3>2
      <4>2. (a \o b)[i] = b[i - n]
        BY <1>1, <2>1, <3>2
      <4> QED
        BY <2>3, <4>1, <4>2
    <3> QED
      BY <2>1, <3>1, <3>2
  <2> QED
    BY <2>4, <2>5, SeqEqual
<1> HIDE DEF a, b
<1>3. InsertAll(<<>>, a) \in Seq(Pairs)
  BY <1>1, InsertAllIsDict
<1>4. InsertAll(InsertAll(<<>>, a), InsertAll(<<>>, b)) = InsertAll(InsertAll(<<>>, a), b)
  BY <1>1, <1>3, DictOfSame
<1>5. InsertAll(<<>>, s) = InsertAll(InsertAll(<<>>, a), b)
  BY <1>1, <1>2, InsertInTwo
<1> QED
  BY <1>4, <1>5 DEF DictCat, TypeDictFromPairTypes, a, b

\* The dictionary of the puts is what the other templates make of them.
LEMMA MapIsMadeAtOnce ==
  ASSUME puts \in Seq(Pairs), dict = InsertAll(<<>>, puts) PROVE MadeAtOnce
<1>1. TypeDictFromPairTypes(puts) = dict
  BY DEF TypeDictFromPairTypes
<1>2. FromLists(<<>>, KeysOf(puts), ValuesOf(puts)) = dict
  <2> DEFINE pairs == [i \in DOMAIN KeysOf(puts) |-> Pair(KeysOf(puts)[i], ValuesOf(puts)[i])]
  <2>1. DOMAIN puts = 1..Len(puts) /\ Len(puts) \in Nat /\ \A i \in DOMAIN puts : puts[i] \in Pairs
    OBVIOUS
  <2>2. DOMAIN KeysOf(puts) = DOMAIN puts /\ DOMAIN ValuesOf(puts) = DOMAIN puts
        /\ Len(KeysOf(puts)) = Len(puts) /\ Len(ValuesOf(puts)) = Len(puts)
    <3>1. DOMAIN KeysOf(puts) = 1..Len(puts) /\ DOMAIN ValuesOf(puts) = 1..Len(puts)
      BY <2>1 DEF KeysOf, ValuesOf
    <3>2. KeysOf(puts) \in [1..Len(puts) -> Keys] /\ ValuesOf(puts) \in [1..Len(puts) -> Values]
      BY <2>1 DEF KeysOf, ValuesOf, Pairs
    <3>3. \A T : \A n \in Nat : \A q \in [1..n -> T] : Len(q) = n
      OBVIOUS
    <3> QED
      BY <2>1, <3>1, <3>2, <3>3
  <2>3. \A i \in DOMAIN puts : Pair(KeysOf(puts)[i], ValuesOf(puts)[i]) = puts[i]
    BY <2>1 DEF KeysOf, ValuesOf, Pair, Pairs
  <2>4. pairs = puts
    <3>1. DOMAIN pairs = DOMAIN puts /\ \A i \in DOMAIN puts : pairs[i] = puts[i]
      BY <2>2, <2>3
    <3> QED
      BY <2>1, <3>1
  <2> QED
    BY <2>2, <2>4 DEF FromLists
<1> QED
  BY <1>1, <1>2, HalvesMakeTheWhole DEF MadeAtOnce

-----------------------------------------------------------------------------
(* What follows for dictionaries *)

\* The dictionary is what the puts make.
DictInv == puts \in Seq(Pairs) /\ dict = InsertAll(<<>>, puts)

\* Nothing is the dictionary of no puts, ...
LEMMA DictStarts == ASSUME ListInit PROVE DictInv
<1>1. <<>> \in Seq(Pairs)
  OBVIOUS
<1> QED
  BY <1>1, InsertNone DEF ListInit, DictInv

\* ... each put goes to it and to the puts, ...
LEMMA DictGoesOn == ASSUME DictInv, [ListNext]_typeVars PROVE DictInv'
<1>1. CASE Put
  <2>1. PICK k \in Keys, v \in Values :
           puts' = Append(puts, Pair(k, v)) /\ dict' = TypeDictInsert(dict, k, v)
    BY <1>1 DEF Put
  <2>2. Pair(k, v) \in Pairs /\ Pair(k, v).first = k /\ Pair(k, v).second = v
    BY DEF Pair, Pairs
  <2>3. puts \in Seq(Pairs) /\ dict = InsertAll(<<>>, puts) /\ <<>> \in Seq(Pairs)
    BY DEF DictInv
  <2>4. InsertAll(<<>>, Append(puts, Pair(k, v))) = TypeDictInsert(InsertAll(<<>>, puts), k, v)
    <3>1. \A p \in Pairs : InsertAll(<<>>, Append(puts, p))
                             = TypeDictInsert(InsertAll(<<>>, puts), p.first, p.second)
      BY <2>3, InsertOneMore
    <3> QED
      BY <2>2, <3>1
  <2> QED
    BY <2>1, <2>2, <2>3, <2>4 DEF DictInv
<1>2. CASE ChangeList \/ UNCHANGED typeVars
  <2>1. UNCHANGED <<dict, puts>>
    BY <1>2 DEF ChangeList, Becomes, typeVars
  <2> QED
    BY <2>1 DEF DictInv
<1> QED
  BY <1>1, <1>2 DEF ListNext

\* ... and that is enough.
LEMMA DictOfInv == ASSUME DictInv PROVE DictIsMap
<1>1. puts \in Seq(Pairs) /\ dict = InsertAll(<<>>, puts)
  BY DEF DictInv
<1>2. DictOf(dict, puts)
  BY <1>1, InsertedIsMap
<1> QED
  BY <1>1, <1>2, MapHasWhatWasPut, MapIsMadeAtOnce DEF DictIsMap

\* A TypeDict has each key once, where it was first put, with the value it was last
\* given, whichever of its templates made it (TypeDictInsert, TypeDictFromPairTypes,
\* TypeDictFromKeyListAndValueList_ and TypeDictCat_), and its look-ups say so.
THEOREM DictionariesAreMaps == ListSpec => []DictIsMap
<1>1. ListInit => DictInv
  BY DictStarts
<1>2. DictInv /\ [ListNext]_typeVars => DictInv'
  BY DictGoesOn
<1>3. DictInv => DictIsMap
  BY DictOfInv
<1> QED
  BY <1>1, <1>2, <1>3, PTL DEF ListSpec
=============================================================================
