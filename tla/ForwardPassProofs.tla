-------------------------- MODULE ForwardPassProofs --------------------------
(***************************************************************************)
(* A step from the slices to the tokens appended, for every model, set of  *)
(* sequences, block table, packing, backend and vocabulary.                *)
(*                                                                         *)
(* In three parts: the sampler's window against the full sort; the packed  *)
(* step, whose invariant PassInv says what every row and every cell of the *)
(* cache was computed from; and the attention kernels, whose invariant     *)
(* BlockInv says which positions every running sum of a block is over.     *)
(***************************************************************************)
EXTENDS ForwardPass, FiniteSetTheorems, SequenceTheorems, NaturalsInduction, TLAPS

-----------------------------------------------------------------------------
(* Induction and loops.                                                    *)

\* A set of natural numbers has a smallest element.
LEMMA LeastNat == ASSUME NEW T \in SUBSET Nat, T # {} PROVE \E n \in T : \A m \in T : n <= m
<1>1. PICK n \in T : \A m \in T : <<m, n>> \notin OpToRel(<, Nat)
  BY WFMin, NatLessThanWellFounded, Zenon
<1>2. ASSUME NEW m \in T, m < n PROVE FALSE
  <2>1. <<m, n>> \in Nat \X Nat /\ <<m, n>>[1] < <<m, n>>[2] BY <1>2
  <2>2. <<m, n>> \in OpToRel(<, Nat) BY <2>1 DEF OpToRel
  <2> QED BY <1>1, <2>2, Zenon
<1> QED BY <1>2

\* What Min returns, of natural numbers.
LEMMA MinIs == ASSUME NEW T \in SUBSET Nat, T # {} PROVE Min(T) \in T /\ \A m \in T : Min(T) <= m
<1>1. \E n \in T : \A m \in T : n <= m BY LeastNat
<1> QED BY <1>1 DEF Min

\* A set that holds 0, and of the numbers up to n the next with every one, holds them.
LEMMA UpTo ==
    ASSUME NEW n \in Nat, NEW T, 0 \in T, \A k \in 1..n : k - 1 \in T => k \in T
    PROVE  \A k \in 0..n : k \in T
<1>1. SUFFICES ASSUME {k \in 0..n : k \notin T} # {} PROVE FALSE OBVIOUS
<1>2. PICK k \in {i \in 0..n : i \notin T} : \A m \in {i \in 0..n : i \notin T} : k <= m
  <2>1. {i \in 0..n : i \notin T} \in SUBSET Nat OBVIOUS
  <2> QED BY <1>1, <2>1, LeastNat, Zenon
<1>3. k # 0 BY <1>2
<1>4. k \in 1..n /\ k - 1 \in 0..n /\ ~(k <= k - 1) BY <1>2, <1>3
<1> QED BY <1>2, <1>4

\* f is what a loop computes turn by turn: it starts from base, turn k is G[<<k, _>>].
Runs(f, n, base, G) == f[0] = base /\ \A k \in 1..n : f[k] = G[<<k, f[k - 1]>>]

\* A loop of n turns over values in V has a value after every turn.
LEMMA LoopRuns ==
    ASSUME NEW n \in Nat, NEW V, NEW base \in V, NEW G \in [(1..n) \X V -> V]
    PROVE  \E f \in [0..n -> V] : Runs(f, n, base, G)
<1> DEFINE T == {m \in 0..n : \E f \in [0..m -> V] : Runs(f, m, base, G)}
<1>1. 0 \in T
  <2>1. [k \in 0..0 |-> base] \in [0..0 -> V] /\ Runs([k \in 0..0 |-> base], 0, base, G) BY DEF Runs
  <2>2. 0 \in 0..n OBVIOUS
  <2> QED BY <2>1, <2>2
<1>2. ASSUME NEW m \in 1..n, m - 1 \in T PROVE m \in T
  <2>0. m \in 0..n /\ \E f \in [0..m - 1 -> V] : Runs(f, m - 1, base, G) BY <1>2
  <2>1. PICK f \in [0..m - 1 -> V] : Runs(f, m - 1, base, G) BY <2>0
  <2> DEFINE v == G[<<m, f[m - 1]>>]
             g == [k \in 0..m |-> IF k = m THEN v ELSE f[k]]
  <2>2. v \in V
    <3>1. m - 1 \in 0..m - 1 OBVIOUS
    <3>2. <<m, f[m - 1]>> \in (1..n) \X V BY <2>1, <3>1
    <3> QED BY <3>2
  <2> HIDE DEF v
  <2>3. g \in [0..m -> V] BY <2>1, <2>2
  <2>4. g[0] = base BY <2>1 DEF Runs
  <2>5. ASSUME NEW k \in 1..m PROVE g[k] = G[<<k, g[k - 1]>>]
    <3>1. k - 1 \in 0..m - 1 /\ g[k - 1] = f[k - 1] OBVIOUS
    <3>2. CASE k = m
      <4>1. g[k] = v BY <3>2
      <4> QED BY <3>1, <3>2, <4>1 DEF v
    <3>3. CASE k # m
      <4>1. k \in 1..m - 1 /\ g[k] = f[k] BY <3>3
      <4> QED BY <2>1, <3>1, <4>1 DEF Runs
    <3> QED BY <3>2, <3>3
  <2>6. Runs(g, m, base, G)
    <3> HIDE DEF g
    <3> QED BY <2>4, <2>5 DEF Runs
  <2> HIDE DEF g
  <2> QED BY <2>0, <2>3, <2>6
<1>3. n \in T
  <2>1. n \in 0..n OBVIOUS
  <2> HIDE DEF T
  <2> QED BY <1>1, <1>2, <2>1, UpTo
<1> QED BY <1>3

-----------------------------------------------------------------------------
(* The full sort.                                                          *)

Row == [Ids -> Weights]

Before(w, t) == {u \in Ids : Ahead(w, u, t)}

\* The weights of a row can be compared, and there is a first token.
LEMMA RowType ==
    ASSUME NEW w \in Row
    PROVE  /\ \A i \in Ids : w[i] \in Nat
           /\ 0 \in Ids /\ Vocab \in Nat \ {0} /\ Ids \subseteq Nat
           /\ IsFiniteSet(Ids) /\ Cardinality(Ids) = Vocab
<1>1. Vocab \in Nat \ {0} /\ Weights \subseteq Nat BY SamplerAssumption
<1>2. \A i \in Ids : w[i] \in Nat BY <1>1 DEF Row
<1>3. IsFiniteSet(Ids) /\ Cardinality(Ids) = Vocab
  <2>1. 0 \in Int /\ Vocab - 1 \in Int /\ ~(0 > Vocab - 1) /\ (Vocab - 1) - 0 + 1 = Vocab BY <1>1
  <2> QED BY <2>1, FS_Interval DEF Ids
<1> QED BY <1>1, <1>2, <1>3 DEF Ids

\* The comparison is a strict total order.
LEMMA AheadOrder ==
    ASSUME NEW w \in Row, NEW a \in Ids, NEW b \in Ids, NEW c \in Ids
    PROVE  /\ ~Ahead(w, a, a)
           /\ a # b => Ahead(w, a, b) \/ Ahead(w, b, a)
           /\ Ahead(w, a, b) => ~Ahead(w, b, a)
           /\ Ahead(w, a, b) /\ Ahead(w, b, c) => Ahead(w, a, c)
           /\ by_prob(w, a, b) <=> Ahead(w, a, b)
<1>1. w[a] \in Nat /\ w[b] \in Nat /\ w[c] \in Nat /\ a \in Nat /\ b \in Nat /\ c \in Nat BY RowType
<1> QED BY <1>1 DEF Ahead, by_prob

\* Tokens with equally many before them are the same.
LEMMA RankInjective ==
    ASSUME NEW w \in Row, NEW a \in Ids, NEW b \in Ids,
           Cardinality(Before(w, a)) = Cardinality(Before(w, b))
    PROVE  a = b
<1>1. ASSUME NEW s \in Ids, NEW t \in Ids, Ahead(w, s, t)
      PROVE  Cardinality(Before(w, s)) # Cardinality(Before(w, t))
  <2>1. Before(w, s) \in SUBSET Before(w, t)
    <3>1. \A u \in Ids : Ahead(w, u, s) => Ahead(w, u, t) BY <1>1, AheadOrder
    <3> QED BY <3>1 DEF Before
  <2>2. s \in Before(w, t) /\ s \notin Before(w, s) BY <1>1, AheadOrder DEF Before
  <2>3. IsFiniteSet(Before(w, t))
    <3>1. Before(w, t) \in SUBSET Ids BY DEF Before
    <3> QED BY <3>1, RowType, FS_Subset
  <2> QED BY <2>1, <2>2, <2>3, FS_Subset
<1> QED BY <1>1, AheadOrder

\* The n-th token of the full sort.
LEMMA FullSortAt ==
    ASSUME NEW w \in Row
    PROVE  /\ \A n \in 1..Vocab : FullSort(w)[n] = CHOOSE t \in Ids : Cardinality(Before(w, t)) = n - 1
           /\ FullSort(w) = [n \in 1..Vocab |-> FullSort(w)[n]]
<1> DEFINE c(n) == CHOOSE t \in Ids : Cardinality(Before(w, t)) = n - 1
<1>1. FullSort(w) = [n \in 1..Vocab |-> c(n)] BY DEF FullSort, Before
<1> HIDE DEF c
<1>2. \A n \in 1..Vocab : FullSort(w)[n] = c(n) BY <1>1
<1>3. FullSort(w) = [n \in 1..Vocab |-> FullSort(w)[n]] BY <1>1
<1> QED BY <1>2, <1>3, Zenon DEF c

\* A permutation whose first k tokens are in order starts as the full sort does.
LEMMA SortedPrefix ==
    ASSUME NEW w \in Row, NEW q \in SetToSeqs(Ids), NEW k \in 0..Vocab, TopSorted(w, q, k)
    PROVE  /\ q \in [1..Vocab -> Ids]
           /\ \A n \in 1..k : q[n] = FullSort(w)[n]
<1>0. Vocab \in Nat \ {0} /\ IsFiniteSet(Ids) /\ Cardinality(Ids) = Vocab BY RowType
<1>1. q \in [1..Vocab -> Ids] /\ \A i, j \in 1..Vocab : i # j => q[i] # q[j]
  <2>1. q \in {f \in [1..Cardinality(Ids) -> Ids] : \A i, j \in 1..Cardinality(Ids) : i # j => f[i] # f[j]}
    BY DEF SetToSeqs
  <2> QED BY <1>0, <2>1
<1>2. ASSUME NEW n \in 1..k PROVE q[n] = FullSort(w)[n]
  <2>0. n \in 1..Vocab /\ q[n] \in Ids BY <1>0, <1>1
  <2>1. \A t \in Ids : \E i \in 1..Vocab : q[i] = t
    <3>1. q \in Injection(1..Vocab, Ids)
      <4>1. IsInjective(q) BY <1>1 DEF IsInjective
      <4> QED BY <1>1, <4>1, Zenon DEF Injection
    <3>2. IsFiniteSet(1..Vocab) /\ Cardinality(1..Vocab) = Vocab
      <4>1. 1 \in Int /\ Vocab \in Int /\ ~(1 > Vocab) /\ Vocab - 1 + 1 = Vocab BY <1>0
      <4> QED BY <4>1, FS_Interval
    <3>3. q \in Surjection(1..Vocab, Ids) BY <1>0, <3>1, <3>2, FS_Injection
    <3> QED BY <3>3 DEF Surjection
  <2>2. \A i \in 1..Vocab : i < n => Ahead(w, q[i], q[n])
    <3> SUFFICES ASSUME NEW i \in 1..Vocab, i < n PROVE Ahead(w, q[i], q[n]) OBVIOUS
    <3>1. i \in 1..k /\ n \in i + 1..Len(q) BY <1>1, <2>0, <1>0
    <3>2. ~by_prob(w, q[n], q[i]) BY <3>1 DEF TopSorted
    <3>3. q[i] \in Ids /\ q[i] # q[n] BY <1>1, <2>0
    <3> QED BY <2>0, <3>2, <3>3, AheadOrder
  <2>3. \A i \in 1..Vocab : i >= n => ~Ahead(w, q[i], q[n])
    <3> SUFFICES ASSUME NEW i \in 1..Vocab, i >= n PROVE ~Ahead(w, q[i], q[n]) OBVIOUS
    <3>1. q[i] \in Ids BY <1>1
    <3>2. CASE i = n BY <2>0, <3>2, AheadOrder
    <3>3. CASE i # n
      <4>1. i \in n + 1..Len(q) BY <1>1, <2>0, <3>3, <1>0
      <4>2. ~by_prob(w, q[i], q[n]) BY <4>1 DEF TopSorted
      <4> QED BY <2>0, <3>1, <4>2, AheadOrder
    <3> QED BY <3>2, <3>3
  <2>4. Cardinality(Before(w, q[n])) = n - 1
    <3> DEFINE f == [i \in 1..n - 1 |-> q[i]]
    <3>1. f \in Bijection(1..n - 1, Before(w, q[n]))
      <4>1. f \in [1..n - 1 -> Before(w, q[n])]
        <5>1. \A i \in 1..n - 1 : i \in 1..Vocab /\ i < n BY <2>0, <1>0
        <5> QED BY <1>1, <2>2, <5>1 DEF Before
      <4>2. \A i, j \in 1..n - 1 : f[i] = f[j] => i = j BY <1>1, <2>0, <1>0
      <4>3. \A t \in Before(w, q[n]) : \E i \in 1..n - 1 : f[i] = t
        <5> SUFFICES ASSUME NEW t \in Before(w, q[n]) PROVE \E i \in 1..n - 1 : f[i] = t OBVIOUS
        <5>1. t \in Ids /\ Ahead(w, t, q[n]) BY DEF Before
        <5>2. PICK i \in 1..Vocab : q[i] = t BY <2>1, <5>1
        <5>3. i < n BY <2>3, <5>1, <5>2, <2>0
        <5>4. i \in 1..n - 1 BY <5>3, <2>0
        <5> QED BY <5>2, <5>4
      <4> HIDE DEF f
      <4> QED BY <4>1, <4>2, <4>3 DEF Bijection, Injection, Surjection, IsInjective
    <3>2. IsFiniteSet(1..n - 1) /\ Cardinality(1..n - 1) = n - 1
      <4>1. 1 \in Int /\ n - 1 \in Int /\ (n - 1) - 1 + 1 = n - 1 /\ (1 > n - 1 => n - 1 = 0) BY <2>0
      <4> QED BY <4>1, FS_Interval
    <3> QED BY <3>1, <3>2, FS_Bijection DEF ExistsBijection
  <2>5. FullSort(w)[n] = CHOOSE t \in Ids : Cardinality(Before(w, t)) = n - 1 BY <2>0, FullSortAt
  <2>6. FullSort(w)[n] \in Ids /\ Cardinality(Before(w, FullSort(w)[n])) = n - 1
    BY <2>0, <2>4, <2>5
  <2> QED BY <2>0, <2>4, <2>6, RankInjective
<1> QED BY <1>1, <1>2

\* The full sort is one: a permutation of the vocabulary, in order.
THEOREM FullSortIsSorted ==
    \A w \in Row : FullSort(w) \in SetToSeqs(Ids) /\ TopSorted(w, FullSort(w), Vocab)
<1> SUFFICES ASSUME NEW w \in Row
             PROVE  FullSort(w) \in SetToSeqs(Ids) /\ TopSorted(w, FullSort(w), Vocab)
  OBVIOUS
<1>0. Vocab \in Nat \ {0} /\ IsFiniteSet(Ids) /\ Cardinality(Ids) = Vocab BY RowType
<1> DEFINE rank == [t \in Ids |-> Cardinality(Before(w, t))]
<1>1. \A t \in Ids : rank[t] \in Ids
  <2> SUFFICES ASSUME NEW t \in Ids PROVE Cardinality(Before(w, t)) \in Ids OBVIOUS
  <2>1. Before(w, t) \in SUBSET Ids /\ t \notin Before(w, t) BY AheadOrder DEF Before
  <2>2. IsFiniteSet(Before(w, t)) /\ Cardinality(Before(w, t)) <= Vocab BY <1>0, <2>1, FS_Subset
  <2>3. Cardinality(Before(w, t)) # Vocab BY <1>0, <2>1, FS_Subset
  <2>4. Cardinality(Before(w, t)) \in Nat BY <2>2, FS_CardinalityType
  <2> QED BY <1>0, <2>2, <2>3, <2>4 DEF Ids
<1>2. rank \in [Ids -> Ids] BY <1>1
<1>3. \A s, t \in Ids : rank[s] = rank[t] => s = t BY RankInjective
<1> HIDE DEF rank
<1>4. \A n \in Ids : \E t \in Ids : rank[t] = n
  <2>1. rank \in Injection(Ids, Ids)
    <3>1. IsInjective(rank) BY <1>2, <1>3 DEF IsInjective
    <3> QED BY <1>2, <3>1, Zenon DEF Injection
  <2>2. rank \in Surjection(Ids, Ids) BY <1>0, <2>1, FS_Injection
  <2> QED BY <2>2 DEF Surjection
<1> DEFINE full == FullSort(w)
<1>5. \A n \in 1..Vocab : full[n] \in Ids /\ rank[full[n]] = n - 1
  <2> SUFFICES ASSUME NEW n \in 1..Vocab PROVE full[n] \in Ids /\ rank[full[n]] = n - 1 OBVIOUS
  <2>1. full[n] = CHOOSE t \in Ids : Cardinality(Before(w, t)) = n - 1 BY FullSortAt
  <2>2. n - 1 \in Ids BY <1>0 DEF Ids
  <2>3. \E t \in Ids : Cardinality(Before(w, t)) = n - 1 BY <1>4, <2>2 DEF rank
  <2> QED BY <2>1, <2>3 DEF rank
<1>6. full \in [1..Vocab -> Ids]
  <2>1. full = [n \in 1..Vocab |-> full[n]] BY FullSortAt, Zenon
  <2> HIDE DEF full
  <2> QED BY <1>5, <2>1
<1> HIDE DEF full
<1>7. full \in SetToSeqs(Ids)
  <2>1. \A i, j \in 1..Vocab : i # j => full[i] # full[j] BY <1>0, <1>5
  <2>2. full \in {f \in [1..Cardinality(Ids) -> Ids] : \A i, j \in 1..Cardinality(Ids) : i # j => f[i] # f[j]}
    BY <1>0, <1>6, <2>1
  <2> QED BY <2>2 DEF SetToSeqs
<1>8. TopSorted(w, full, Vocab)
  <2>1. Len(full) = Vocab BY <1>0, <1>6
  <2> SUFFICES ASSUME NEW i \in 1..Vocab, NEW j \in i + 1..Vocab PROVE ~by_prob(w, full[j], full[i])
    BY <2>1 DEF TopSorted
  <2>2. j \in 1..Vocab BY <1>0
  <2>3. full[i] \in Ids /\ full[j] \in Ids BY <1>5, <2>2
  <2>4. Before(w, full[i]) \in SUBSET Ids /\ Before(w, full[j]) \in SUBSET Ids BY DEF Before
  <2>5. IsFiniteSet(Before(w, full[i])) BY <1>0, <2>4, FS_Subset
  <2>6. ASSUME Ahead(w, full[j], full[i]) PROVE FALSE
    <3>1. Before(w, full[j]) \in SUBSET Before(w, full[i])
      <4>1. \A u \in Ids : Ahead(w, u, full[j]) => Ahead(w, u, full[i]) BY <2>3, <2>6, AheadOrder
      <4> QED BY <4>1 DEF Before
    <3>2. Cardinality(Before(w, full[j])) <= Cardinality(Before(w, full[i])) BY <2>5, <3>1, FS_Subset
    <3>3. rank[full[j]] = Cardinality(Before(w, full[j])) /\ rank[full[i]] = Cardinality(Before(w, full[i]))
      BY <2>3 DEF rank
    <3>4. rank[full[j]] = j - 1 /\ rank[full[i]] = i - 1 BY <1>5, <2>2
    <3> QED BY <1>0, <3>2, <3>3, <3>4
  <2> QED BY <2>3, <2>6, AheadOrder
<1> QED BY <1>7, <1>8 DEF full

\* argmax is the first token of the full sort.
LEMMA ArgmaxFirst == ASSUME NEW w \in Row PROVE argmax(w) = FullSort(w)[1]
<1>0. Vocab \in Nat \ {0} /\ Vocab - 1 \in Nat /\ 0 \in Ids BY RowType
<1> DEFINE best[i \in 0..Vocab - 1] ==
               IF i = 0 THEN 0 ELSE IF w[i] > w[best[i - 1]] THEN i ELSE best[i - 1]
           G == [p \in (1..Vocab - 1) \X Ids |-> IF w[p[1]] > w[p[2]] THEN p[1] ELSE p[2]]
<1>1. G \in [(1..Vocab - 1) \X Ids -> Ids] BY <1>0 DEF Ids
<1>2. PICK f \in [0..Vocab - 1 -> Ids] : Runs(f, Vocab - 1, 0, G)
  <2> HIDE DEF G
  <2> QED BY <1>0, <1>1, LoopRuns
<1>3. \A k \in 1..Vocab - 1 : f[k] = IF w[k] > w[f[k - 1]] THEN k ELSE f[k - 1]
  <2> SUFFICES ASSUME NEW k \in 1..Vocab - 1
               PROVE  f[k] = IF w[k] > w[f[k - 1]] THEN k ELSE f[k - 1]
    OBVIOUS
  <2>1. k - 1 \in 0..Vocab - 1 BY <1>0
  <2>2. <<k, f[k - 1]>> \in (1..Vocab - 1) \X Ids BY <1>2, <2>1
  <2> QED BY <1>2, <2>2 DEF Runs
<1>4. f = [i \in 0..Vocab - 1 |-> IF i = 0 THEN 0 ELSE IF w[i] > w[f[i - 1]] THEN i ELSE f[i - 1]]
  <2>1. \A i \in 0..Vocab - 1 : i # 0 => i \in 1..Vocab - 1 BY <1>0
  <2> HIDE DEF G
  <2> QED BY <1>2, <1>3, <2>1 DEF Runs
<1>5. best = [i \in 0..Vocab - 1 |-> IF i = 0 THEN 0 ELSE IF w[i] > w[best[i - 1]] THEN i ELSE best[i - 1]]
  <2>1. \E g : g = [i \in 0..Vocab - 1 |-> IF i = 0 THEN 0 ELSE IF w[i] > w[g[i - 1]] THEN i ELSE g[i - 1]]
    BY <1>4
  <2> QED BY <2>1
<1>6. argmax(w) = best[Vocab - 1] BY DEF argmax
<1> HIDE DEF best, G
<1> DEFINE T == {n \in 0..Vocab - 1 : best[n] \in 0..n /\ \A j \in 0..n : j = best[n] \/ Ahead(w, best[n], j)}
<1>7. 0 \in T BY <1>0, <1>5
<1>8. ASSUME NEW n \in 1..Vocab - 1, n - 1 \in T PROVE n \in T
  <2>1. n \in 0..Vocab - 1 /\ n # 0 /\ n - 1 \in 0..Vocab - 1 BY <1>0
  <2>2. best[n] = IF w[n] > w[best[n - 1]] THEN n ELSE best[n - 1] BY <1>5, <2>1
  <2>3. /\ best[n - 1] \in 0..n - 1
        /\ \A j \in 0..n - 1 : j = best[n - 1] \/ Ahead(w, best[n - 1], j)
    BY <1>8
  <2>4. best[n - 1] \in Ids /\ n \in Ids /\ \A j \in 0..n : j \in Ids
    <3>1. n \in Nat /\ Vocab \in Nat /\ n <= Vocab - 1 BY <1>0
    <3>2. \A j \in 0..n : j \in 0..Vocab - 1 BY <3>1
    <3>3. n \in 0..n /\ \A j \in 0..n - 1 : j \in 0..n BY <3>1
    <3>4. best[n - 1] \in 0..n BY <2>3, <3>3
    <3> QED BY <3>2, <3>3, <3>4 DEF Ids
  <2>5. w[n] \in Nat /\ w[best[n - 1]] \in Nat BY <2>4, RowType
  <2>6. best[n] \in 0..n BY <2>2, <2>3
  <2>7. ASSUME NEW j \in 0..n PROVE j = best[n] \/ Ahead(w, best[n], j)
    <3>1. CASE w[n] > w[best[n - 1]]
      <4>1. best[n] = n /\ Ahead(w, n, best[n - 1]) BY <2>2, <3>1 DEF Ahead
      <4>2. CASE j = n BY <4>1, <4>2
      <4>3. CASE j # n
        <5>1. j = best[n - 1] \/ Ahead(w, best[n - 1], j) BY <2>3, <4>3
        <5>2. j \in Ids BY <2>4
        <5> QED BY <4>1, <5>1, <5>2, <2>4, AheadOrder
      <4> QED BY <4>2, <4>3
    <3>2. CASE ~(w[n] > w[best[n - 1]])
      <4>1. best[n] = best[n - 1] BY <2>2, <3>2
      <4>2. Ahead(w, best[n - 1], n) BY <2>3, <2>5, <3>2 DEF Ahead
      <4> QED BY <2>3, <4>1, <4>2
    <3> QED BY <3>1, <3>2
  <2> QED BY <2>1, <2>6, <2>7
<1>9. Vocab - 1 \in T
  <2>1. \A k \in 0..Vocab - 1 : k \in T
    <3> HIDE DEF T
    <3> QED BY <1>0, <1>7, <1>8, UpTo
  <2> QED BY <1>0, <2>1
<1> DEFINE a == argmax(w)
<1>10. a \in Ids /\ \A j \in Ids : j = a \/ Ahead(w, a, j) BY <1>6, <1>9 DEF Ids
<1> HIDE DEF a
<1>11. Before(w, a) = {} BY <1>10, AheadOrder DEF Before
<1>12. Cardinality(Before(w, a)) = 1 - 1 BY <1>11, FS_EmptySet
<1>13. FullSort(w)[1] = CHOOSE t \in Ids : Cardinality(Before(w, t)) = 1 - 1
  <2>1. 1 \in 1..Vocab BY <1>0
  <2> QED BY <2>1, FullSortAt, Zenon
<1>14. FullSort(w)[1] \in Ids /\ Cardinality(Before(w, FullSort(w)[1])) = 1 - 1
  BY <1>10, <1>12, <1>13
<1>15. a = FullSort(w)[1] BY <1>10, <1>12, <1>14, RankInjective
<1> QED BY <1>15 DEF a

-----------------------------------------------------------------------------
(* Sampling.                                                               *)

\* Where two orders of the tokens agree, so do the sums along them.
LEMMA CumulatedSame ==
    ASSUME NEW w, NEW q, NEW p, NEW k \in Nat, \A n \in 1..k : q[n] = p[n], NEW n \in 0..k
    PROVE  Cumulated(w, q, n) = Cumulated(w, p, n)
<1>1. [j \in 1..n |-> w[q[j]]] = [j \in 1..n |-> w[p[j]]]
  <2>1. \A j \in 1..n : w[q[j]] = w[p[j]] OBVIOUS
  <2> QED BY <2>1, Zenon
<1> QED BY <1>1, Zenon DEF Cumulated

\* A nucleus that closed inside the window is that of the full sort.
LEMMA KeptSame ==
    ASSUME NEW w, NEW q, NEW p, NEW need, NEW k \in 1..Vocab, \A n \in 1..k : q[n] = p[n],
           NucleusClosed(Kept(w, q, k, need), k)
    PROVE  Kept(w, q, k, need) \in 1..k /\ Kept(w, q, k, need) = Kept(w, p, Vocab, need)
<1> DEFINE S == {n \in 1..k : Cumulated(w, q, n) >= need}
           F == {n \in 1..Vocab : Cumulated(w, p, n) >= need}
           a == Min({k} \union S)
           b == Min({Vocab} \union F)
<1>0. Vocab \in Nat \ {0} BY SamplerAssumption
<1>1. \A n \in 1..k : n \in S <=> n \in F
  <2> SUFFICES ASSUME NEW n \in 1..k PROVE n \in S <=> n \in F OBVIOUS
  <2>1. Cumulated(w, q, n) = Cumulated(w, p, n)
    <3>1. k \in Nat /\ n \in 0..k OBVIOUS
    <3> QED BY <3>1, CumulatedSame
  <2>2. n \in 1..Vocab BY <1>0
  <2> QED BY <2>1, <2>2
<1>2. {k} \union S \subseteq 1..k /\ {Vocab} \union F \subseteq 1..Vocab BY <1>0
<1>3. k \in {k} \union S /\ Vocab \in {Vocab} \union F OBVIOUS
<1> HIDE DEF S, F
<1>4. a \in {k} \union S /\ \A n \in {k} \union S : a <= n
  <2>1. {k} \union S \in SUBSET Nat /\ {k} \union S # {} BY <1>2, <1>3
  <2> QED BY <2>1, MinIs
<1>5. b \in {Vocab} \union F /\ \A n \in {Vocab} \union F : b <= n
  <2>1. {Vocab} \union F \in SUBSET Nat /\ {Vocab} \union F # {} BY <1>2, <1>3
  <2> QED BY <2>1, MinIs
<1>6. Kept(w, q, k, need) = a /\ Kept(w, p, Vocab, need) = b BY Zenon DEF Kept, S, F
<1>7. a < k \/ k = Vocab BY <1>6 DEF NucleusClosed
<1> HIDE DEF a, b
<1>8. a \in 1..k /\ b \in 1..Vocab BY <1>2, <1>4, <1>5
<1>9. a = b
  <2>1. a \in {Vocab} \union F
    <3>1. CASE a = Vocab BY <3>1
    <3>2. CASE a # Vocab
      <4>1. a \in S BY <1>4, <1>7, <3>2, <1>8, <1>0
      <4> QED BY <1>1, <1>8, <4>1
    <3> QED BY <3>1, <3>2
  <2>2. b <= a BY <1>5, <2>1
  <2>3. b \in 1..k BY <1>8, <2>2
  <2>4. b \in {k} \union S
    <3>1. CASE b \in F BY <1>1, <2>3, <3>1
    <3>2. CASE b = Vocab BY <1>0, <2>3, <3>2
    <3> QED BY <1>5, <3>1, <3>2
  <2>5. a <= b BY <1>4, <2>4
  <2> QED BY <1>8, <2>2, <2>5
<1> QED BY <1>6, <1>8, <1>9

\* The draw finds the same token in both.
LEMMA PickedSame ==
    ASSUME NEW w, NEW q, NEW p, NEW r, NEW k \in Nat \ {0}, \A n \in 1..k : q[n] = p[n]
    PROVE  Picked(w, q, k, r) = Picked(w, p, k, r)
<1> DEFINE S == {n \in 1..k : Cumulated(w, q, n) >= r}
           F == {n \in 1..k : Cumulated(w, p, n) >= r}
<1>1. S = F
  <2> SUFFICES ASSUME NEW n \in 1..k PROVE Cumulated(w, q, n) = Cumulated(w, p, n) OBVIOUS
  <2>1. k \in Nat /\ n \in 0..k OBVIOUS
  <2> QED BY <2>1, CumulatedSame
<1>2. Min({k} \union S) \in 1..k
  <2>1. {k} \union S \in SUBSET Nat /\ {k} \union S # {} /\ {k} \union S \subseteq 1..k OBVIOUS
  <2> HIDE DEF S
  <2> QED BY <2>1, MinIs
<1>3. Picked(w, q, k, r) = q[Min({k} \union S)] /\ Picked(w, p, k, r) = p[Min({k} \union F)]
  BY Zenon DEF Picked
<1> HIDE DEF S, F
<1> QED BY <1>1, <1>2, <1>3

\* The locals of sample() exist.
SampleFields(s) ==
    s = [at |-> s.at, w |-> s.w, mode |-> s.mode, need |-> s.need, k |-> s.k, idx |-> s.idx,
         keep |-> s.keep, cum |-> s.cum, r |-> s.r, token |-> s.token]

\* The token is the one the definition gives.
TokenRight(s) ==
    /\ s.mode = "greedy" => s.token = FullSort(s.w)[1]
    /\ s.mode = "plain" => s.token = Picked(s.w, [i \in 1..Vocab |-> i - 1], Vocab, s.r)
    /\ s.mode = "nucleus" => s.token = Picked(s.w, FullSort(s.w), s.keep, s.r)

\* What holds of the locals between two steps of sample().
SampleInv(s) ==
    \/ s = NoSample
    \/ /\ SampleFields(s)
       /\ s.w \in Row /\ s.k \in Nat \ {0}
       /\ s.mode \in {"greedy", "plain", "nucleus"}
       /\ s.at \in {"window", "draw", "done"}
       /\ s.at = "window" => s.mode = "nucleus"
       /\ s.mode = "plain" => s.idx = [i \in 1..Vocab |-> i - 1] /\ s.keep = Vocab
       /\ s.at # "window" /\ s.mode = "nucleus" =>
              /\ s.keep \in 1..Vocab
              /\ s.keep = Kept(s.w, FullSort(s.w), Vocab, s.need)
              /\ \A n \in 1..s.keep : s.idx[n] = FullSort(s.w)[n]
       /\ s.at = "done" => TokenRight(s)

\* A call begins.
LEMMA BeginSampleInv ==
    ASSUME NEW w \in Row, NEW mode \in {"greedy", "plain", "nucleus"}, NEW need,
           BeginSample(w, mode, need)
    PROVE  SampleInv(smp')
<1>1. FirstWindow \in Nat \ {0} BY SamplerAssumption
<1>2. smp' = [at |-> IF mode = "nucleus" THEN "window" ELSE "draw", w |-> w, mode |-> mode,
               need |-> need, k |-> FirstWindow, idx |-> [i \in 1..Vocab |-> i - 1],
               keep |-> Vocab, cum |-> Total(w), r |-> 0, token |-> 0]
  BY DEF BeginSample
<1> QED BY <1>1, <1>2 DEF SampleInv, SampleFields

\* A window: the nucleus closed in it, or the next one is wider.
LEMMA WindowInv == ASSUME SampleInv(smp), Window PROVE SampleInv(smp')
<1> DEFINE k == IF smp.k >= Vocab THEN Vocab ELSE smp.k
<1>0. /\ smp.at = "window" /\ SampleFields(smp) /\ smp.w \in Row /\ smp.k \in Nat \ {0}
      /\ smp.mode = "nucleus"
  BY DEF SampleInv, Window, NoSample
<1>1. Vocab \in Nat \ {0} /\ Widening \in Nat \ {0} BY SamplerAssumption
<1>2. k \in 1..Vocab BY <1>0, <1>1
<1>3. PICK q \in SetToSeqs(Ids) :
         /\ TopSorted(smp.w, q, k)
         /\ smp' = [smp EXCEPT
               !.idx = q, !.keep = Kept(smp.w, q, k, smp.need),
               !.cum = Cumulated(smp.w, q, Kept(smp.w, q, k, smp.need)),
               !.k = IF NucleusClosed(Kept(smp.w, q, k, smp.need), k) THEN k ELSE k * Widening,
               !.at = IF NucleusClosed(Kept(smp.w, q, k, smp.need), k) THEN "draw" ELSE "window"]
  BY DEF Window
<1> HIDE DEF k
<1>4. PICK keep : keep = Kept(smp.w, q, k, smp.need) OBVIOUS
<1>5. PICK cum : cum = Cumulated(smp.w, q, keep) OBVIOUS
<1>6. PICK next \in Nat \ {0} : next = IF NucleusClosed(keep, k) THEN k ELSE k * Widening
  <2>1. k * Widening \in Nat \ {0} BY <1>1, <1>2
  <2> QED BY <1>2, <2>1
<1>7. PICK at : at = IF NucleusClosed(keep, k) THEN "draw" ELSE "window" OBVIOUS
<1>8. smp' = [smp EXCEPT !.idx = q, !.keep = keep, !.cum = cum, !.k = next, !.at = at]
  BY <1>3, <1>4, <1>5, <1>6, <1>7, Zenon
<1>9. smp' = [at |-> at, w |-> smp.w, mode |-> smp.mode, need |-> smp.need, k |-> next, idx |-> q,
              keep |-> keep, cum |-> cum, r |-> smp.r, token |-> smp.token]
  BY <1>0, <1>8 DEF SampleFields
<1>10. ASSUME NucleusClosed(keep, k)
       PROVE  /\ keep \in 1..Vocab /\ keep = Kept(smp.w, FullSort(smp.w), Vocab, smp.need)
              /\ \A n \in 1..keep : q[n] = FullSort(smp.w)[n]
  <2>1. \A n \in 1..k : q[n] = FullSort(smp.w)[n]
    <3>1. k \in 0..Vocab BY <1>2
    <3> QED BY <1>0, <1>3, <3>1, SortedPrefix
  <2>2. keep \in 1..k /\ keep = Kept(smp.w, FullSort(smp.w), Vocab, smp.need)
    BY <1>2, <1>4, <1>10, <2>1, KeptSame
  <2> QED BY <1>1, <1>2, <2>1, <2>2
<1> QED BY <1>0, <1>6, <1>7, <1>9, <1>10 DEF SampleInv, SampleFields

\* The draw.
LEMMA DrawInv == ASSUME SampleInv(smp), Draw PROVE SampleInv(smp')
<1>0. /\ smp.at = "draw" /\ SampleFields(smp) /\ smp.w \in Row /\ smp.k \in Nat \ {0}
      /\ smp.mode \in {"greedy", "plain", "nucleus"}
      /\ smp.mode = "plain" => smp.idx = [i \in 1..Vocab |-> i - 1] /\ smp.keep = Vocab
      /\ smp.mode = "nucleus" =>
              /\ smp.keep \in 1..Vocab
              /\ smp.keep = Kept(smp.w, FullSort(smp.w), Vocab, smp.need)
              /\ \A n \in 1..smp.keep : smp.idx[n] = FullSort(smp.w)[n]
  <2>1. smp.at = "draw" BY DEF Draw
  <2>2. smp # NoSample BY <2>1 DEF NoSample
  <2> QED BY <2>1, <2>2 DEF SampleInv
<1>1. CASE smp.mode = "greedy"
  <2>1. smp' = [smp EXCEPT !.at = "done", !.token = argmax(smp.w)] BY <1>1 DEF Draw
  <2>2. argmax(smp.w) = FullSort(smp.w)[1] BY <1>0, ArgmaxFirst
  <2>3. PICK t : t = argmax(smp.w) OBVIOUS
  <2>4. smp' = [at |-> "done", w |-> smp.w, mode |-> smp.mode, need |-> smp.need, k |-> smp.k,
                idx |-> smp.idx, keep |-> smp.keep, cum |-> smp.cum, r |-> smp.r, token |-> t]
    BY <1>0, <2>1, <2>3 DEF SampleFields
  <2> QED BY <1>0, <1>1, <2>2, <2>3, <2>4 DEF SampleInv, SampleFields, TokenRight
<1>2. CASE smp.mode # "greedy"
  <2>1. PICK r \in 0..smp.cum :
          smp' = [smp EXCEPT !.at = "done", !.r = r,
                             !.token = Picked(smp.w, smp.idx, smp.keep, r)]
    BY <1>2 DEF Draw
  <2>2. PICK t : t = Picked(smp.w, smp.idx, smp.keep, r) OBVIOUS
  <2>3. smp' = [smp EXCEPT !.at = "done", !.r = r, !.token = t] BY <2>1, <2>2, Zenon
  <2>4. smp' = [at |-> "done", w |-> smp.w, mode |-> smp.mode, need |-> smp.need, k |-> smp.k,
                idx |-> smp.idx, keep |-> smp.keep, cum |-> smp.cum, r |-> r, token |-> t]
    BY <1>0, <2>3 DEF SampleFields
  <2>5. smp.mode = "nucleus" => t = Picked(smp.w, FullSort(smp.w), smp.keep, r)
    <3> SUFFICES ASSUME smp.mode = "nucleus" PROVE t = Picked(smp.w, FullSort(smp.w), smp.keep, r)
      OBVIOUS
    <3>1. smp.keep \in Nat \ {0} BY <1>0
    <3> QED BY <1>0, <2>2, <3>1, PickedSame
  <2>6. smp.mode = "plain" => t = Picked(smp.w, [i \in 1..Vocab |-> i - 1], Vocab, r)
    BY <1>0, <2>2, Zenon
  <2> QED BY <1>0, <1>2, <2>4, <2>5, <2>6 DEF SampleInv, SampleFields, TokenRight
<1> QED BY <1>1, <1>2

\* Every step of the pass leaves the locals alone or is one of sample()'s.
LEMMA NextSample == ASSUME SampleInv(smp), [PassNext]_passVars PROVE SampleInv(smp')
<1>1. CASE BeginRow
  <2>1. PICK w \in [Ids -> Weights] :
          \/ \E m \in {"greedy", "plain"} : BeginSample(w, m, 0)
          \/ \E need \in 0..Total(w) + 1 : BeginSample(w, "nucleus", need)
    BY <1>1 DEF BeginRow
  <2>2. w \in Row BY DEF Row
  <2>3. CASE \E m \in {"greedy", "plain"} : BeginSample(w, m, 0) BY <2>2, <2>3, BeginSampleInv
  <2>4. CASE \E need \in 0..Total(w) + 1 : BeginSample(w, "nucleus", need)
    BY <2>2, <2>4, BeginSampleInv
  <2> QED BY <2>1, <2>3, <2>4
<1>2. CASE SampleRow
  <2>1. Window \/ Draw BY <1>2 DEF SampleRow
  <2> QED BY <2>1, WindowInv, DrawInv
<1>3. CASE EndRow
  <2>1. smp' = NoSample BY <1>3 DEF EndRow
  <2> QED BY <2>1 DEF SampleInv
<1>4. CASE UNCHANGED smp BY <1>4
<1>5. ASSUME BeginForward \/ Project \/ (\E i \in Rows : store_kv(i)) \/ LaunchAttention
             \/ AttentionStep \/ FinishLayer \/ RunHead \/ EndSampling \/ ApplySlice \/ EndStep
      PROVE  UNCHANGED smp
  BY <1>5, Zenon DEF BeginForward, Project, store_kv, LaunchAttention, AttentionStep, FinishLayer,
     RunHead, EndSampling, ApplySlice, EndStep
<1>6. UNCHANGED passVars => UNCHANGED smp BY Zenon DEF passVars
<1> QED BY <1>1, <1>2, <1>3, <1>4, <1>5, <1>6, Zenon DEF PassNext

\* "the partial path below is required to agree with the full sort exactly"
\* (sampler.cpp): for every vocabulary, first window and widening, every order that
\* nth_element leaves, every row of weights, top_p and draw.
THEOREM SampleIsExact == PassSpec => []SampleExact
<1> DEFINE Inv == SampleInv(smp)
<1>1. PassInit => Inv BY DEF PassInit, SampleInv
<1>2. Inv /\ [PassNext]_passVars => Inv' BY NextSample
<1>3. Inv => SampleExact
  <2> SUFFICES ASSUME SampleInv(smp), smp.at = "done" PROVE SampleExact BY DEF SampleExact
  <2>1. /\ smp.mode \in {"greedy", "plain", "nucleus"} /\ TokenRight(smp)
        /\ smp.mode = "nucleus" => smp.keep = Kept(smp.w, FullSort(smp.w), Vocab, smp.need)
    BY DEF SampleInv, NoSample
  <2> QED BY <2>1 DEF SampleExact, TokenRight
<1> HIDE DEF Inv
<1> QED BY <1>1, <1>2, <1>3, PTL DEF PassSpec

-----------------------------------------------------------------------------
(* The packed step.                                                        *)

Slice == [seq : Seqs, start : Nat, len : Nat \ {0}, needs_logits : BOOLEAN]
Entry == [seq : Seqs, pos : Nat, id : Int]

\* A step the engine may run.
StepOK == step \in Steps

\* The positions of a slice exist; a sequence has one slice.
LEMMA StepType ==
    ASSUME StepOK
    PROVE  /\ step \in Seq(Slice) /\ Len(step) \in Nat
           /\ \A k \in 1..Len(step) :
                 /\ step[k].seq \in Seqs /\ step[k].start \in Nat /\ step[k].len \in Nat \ {0}
                 /\ step[k].needs_logits \in BOOLEAN
                 /\ step[k].start + step[k].len <= Len(SeqTokens[step[k].seq])
                 /\ \A j \in 1..Len(step) : step[j].seq = step[k].seq => j = k
<1>1. step \in Seq(Slice) BY ForwardPassAssumption DEF StepOK, Slice
<1>2. \A k \in 1..Len(step) :
         /\ step[k].start + step[k].len <= Len(SeqTokens[step[k].seq])
         /\ \A j \in 1..Len(step) : step[j].seq = step[k].seq => j = k
  BY ForwardPassAssumption, Zenon DEF StepOK
<1>3. Len(step) \in Nat /\ \A k \in 1..Len(step) : step[k] \in Slice BY <1>1
<1> QED BY <1>1, <1>2, <1>3 DEF Slice

\* The tokens of a sequence.
LEMMA TokenType ==
    ASSUME NEW s \in Seqs
    PROVE  /\ SeqTokens[s] \in Seq(Int) /\ Len(SeqTokens[s]) \in Nat
           /\ \A p \in 0..Len(SeqTokens[s]) - 1 : SeqTokens[s][p + 1] \in Int
<1>1. SeqTokens[s] \in Seq(Int) BY ForwardPassAssumption DEF Seqs
<1>2. Len(SeqTokens[s]) \in Nat BY <1>1
<1>3. ASSUME NEW p \in 0..Len(SeqTokens[s]) - 1 PROVE SeqTokens[s][p + 1] \in Int
  <2>1. p + 1 \in 1..Len(SeqTokens[s]) BY <1>2
  <2> QED BY <1>1, <2>1
<1> QED BY <1>1, <1>2, <1>3

\* What a slice packs.
LEMMA EntriesType ==
    ASSUME NEW sl \in Slice, sl.start + sl.len <= Len(SeqTokens[sl.seq])
    PROVE  /\ Entries(sl) \in Seq(Entry) /\ Len(Entries(sl)) = sl.len
           /\ \A t \in 1..sl.len : Entries(sl)[t] = [seq |-> sl.seq, pos |-> sl.start + t - 1,
                                                     id |-> SeqTokens[sl.seq][sl.start + t]]
<1>1. sl.seq \in Seqs /\ sl.start \in Nat /\ sl.len \in Nat \ {0} BY DEF Slice
<1>2. ASSUME NEW t \in 1..sl.len
      PROVE  [seq |-> sl.seq, pos |-> sl.start + t - 1, id |-> SeqTokens[sl.seq][sl.start + t]] \in Entry
  <2>1. sl.start + t - 1 \in 0..Len(SeqTokens[sl.seq]) - 1 /\ (sl.start + t - 1) + 1 = sl.start + t
    <3>1. PICK a \in Nat, len \in Nat, n \in Nat :
            a = sl.start /\ len = sl.len /\ n = Len(SeqTokens[sl.seq])
      BY <1>1, TokenType
    <3>2. a + len <= n BY <3>1
    <3>3. PICK u \in 1..len : u = t BY <3>1
    <3>4. a + u - 1 \in 0..n - 1 /\ (a + u - 1) + 1 = a + u BY <3>2
    <3> QED BY <3>1, <3>3, <3>4, Zenon
  <2>2. SeqTokens[sl.seq][sl.start + t] \in Int BY <1>1, <2>1, TokenType
  <2> QED BY <1>1, <2>1, <2>2 DEF Entry
<1> QED BY <1>1, <1>2 DEF Entries

\* flatten() slice by slice.
LEMMA PackedIs ==
    ASSUME StepOK
    PROVE  /\ Packed(0) = <<>>
           /\ \A k \in 0..Len(step) : Packed(k) \in Seq(Entry)
           /\ \A k \in 1..Len(step) : Packed(k) = Packed(k - 1) \o Entries(step[k])
<1> DEFINE n == Len(step)
           V == Seq(Entry)
           upto[j \in 0..Len(step)] == IF j = 0 THEN <<>> ELSE upto[j - 1] \o Entries(step[j])
           G == [p \in (1..n) \X V |-> p[2] \o Entries(step[p[1]])]
<1>0. n \in Nat /\ \A k \in 1..n : Entries(step[k]) \in V
  <2>1. n \in Nat /\ \A k \in 1..n : step[k] \in Slice /\ step[k].start + step[k].len <= Len(SeqTokens[step[k].seq])
    BY StepType
  <2> QED BY <2>1, EntriesType
<1>1. G \in [(1..n) \X V -> V]
  <2> SUFFICES ASSUME NEW p \in (1..n) \X V PROVE p[2] \o Entries(step[p[1]]) \in V OBVIOUS
  <2>1. p[1] \in 1..n /\ p[2] \in V OBVIOUS
  <2> QED BY <1>0, <2>1, ConcatProperties
<1>2. <<>> \in V OBVIOUS
<1>3. PICK f \in [0..n -> V] : Runs(f, n, <<>>, G)
  <2> HIDE DEF G, V, n
  <2> QED BY <1>0, <1>1, <1>2, LoopRuns
<1>4. \A k \in 1..n : f[k] = f[k - 1] \o Entries(step[k])
  <2> SUFFICES ASSUME NEW k \in 1..n PROVE f[k] = f[k - 1] \o Entries(step[k]) OBVIOUS
  <2>1. k - 1 \in 0..n BY <1>0
  <2>2. <<k, f[k - 1]>> \in (1..n) \X V BY <1>3, <2>1
  <2> QED BY <1>3, <2>2 DEF Runs
<1>5. f[0] = <<>> BY <1>3 DEF Runs
<1> HIDE DEF G, V
<1>6. f = [j \in 0..Len(step) |-> IF j = 0 THEN <<>> ELSE f[j - 1] \o Entries(step[j])]
  <2>1. \A j \in 0..n : j # 0 => j \in 1..n BY <1>0
  <2> QED BY <1>3, <1>4, <1>5, <2>1
<1>7. upto = [j \in 0..Len(step) |-> IF j = 0 THEN <<>> ELSE upto[j - 1] \o Entries(step[j])]
  <2>1. \E g : g = [j \in 0..Len(step) |-> IF j = 0 THEN <<>> ELSE g[j - 1] \o Entries(step[j])] BY <1>6
  <2> QED BY <2>1
<1>8. \A k : Packed(k) = upto[k] BY DEF Packed
<1> HIDE DEF upto
<1>9. upto[0] = <<>> /\ \A k \in 1..n : upto[k] = upto[k - 1] \o Entries(step[k]) BY <1>0, <1>7
<1>10. \A k \in 0..n : upto[k] \in V
  <2> DEFINE T == {k \in 0..n : upto[k] \in V}
  <2>1. 0 \in T BY <1>0, <1>2, <1>9
  <2>2. ASSUME NEW k \in 1..n, k - 1 \in T PROVE k \in T
    <3>1. k \in 0..n /\ upto[k - 1] \in Seq(Entry) /\ Entries(step[k]) \in Seq(Entry)
      BY <1>0, <2>2 DEF V
    <3>2. upto[k] \in Seq(Entry) BY <1>9, <3>1, ConcatProperties
    <3> QED BY <3>1, <3>2 DEF V
  <2>3. \A k \in 0..n : k \in T
    <3> HIDE DEF T
    <3> QED BY <1>0, <2>1, <2>2, UpTo
  <2> QED BY <2>3
<1> QED BY <1>8, <1>9, <1>10 DEF V

\* The rows that need logits, slice by slice.
LEMMA LogitRowsAre ==
    ASSUME StepOK
    PROVE  /\ LogitRows(0) = <<>>
           /\ \A k \in 0..Len(step) : LogitRows(k) \in Seq(Int)
           /\ \A k \in 1..Len(step) :
                 LogitRows(k) = IF step[k].needs_logits THEN Append(LogitRows(k - 1), RowOf(k))
                                ELSE LogitRows(k - 1)
<1> DEFINE n == Len(step)
           V == Seq(Int)
           upto[j \in 0..Len(step)] ==
               IF j = 0 THEN <<>>
               ELSE IF step[j].needs_logits THEN Append(upto[j - 1], RowOf(j)) ELSE upto[j - 1]
           G == [p \in (1..n) \X V |->
                    IF step[p[1]].needs_logits THEN Append(p[2], RowOf(p[1])) ELSE p[2]]
<1>0. n \in Nat /\ \A k \in 1..n : RowOf(k) \in Int
  <2>1. n \in Nat BY StepType
  <2>2. ASSUME NEW k \in 1..n PROVE RowOf(k) \in Int
    <3>1. Packed(k) \in Seq(Entry) BY <2>1, PackedIs
    <3>2. Len(Packed(k)) \in Nat BY <3>1
    <3> QED BY <3>2 DEF RowOf
  <2> QED BY <2>1, <2>2
<1>1. G \in [(1..n) \X V -> V]
  <2> SUFFICES ASSUME NEW p \in (1..n) \X V
               PROVE  (IF step[p[1]].needs_logits THEN Append(p[2], RowOf(p[1])) ELSE p[2]) \in V
    OBVIOUS
  <2>1. p[1] \in 1..n /\ p[2] \in V OBVIOUS
  <2>2. RowOf(p[1]) \in Int BY <1>0, <2>1
  <2>3. Append(p[2], RowOf(p[1])) \in V BY <2>1, <2>2
  <2> QED BY <2>1, <2>3
<1>2. <<>> \in V OBVIOUS
<1>3. PICK f \in [0..n -> V] : Runs(f, n, <<>>, G)
  <2> HIDE DEF G, V, n
  <2> QED BY <1>0, <1>1, <1>2, LoopRuns
<1>4. \A k \in 1..n : f[k] = IF step[k].needs_logits THEN Append(f[k - 1], RowOf(k)) ELSE f[k - 1]
  <2> SUFFICES ASSUME NEW k \in 1..n
               PROVE  f[k] = IF step[k].needs_logits THEN Append(f[k - 1], RowOf(k)) ELSE f[k - 1]
    OBVIOUS
  <2>1. k - 1 \in 0..n BY <1>0
  <2>2. <<k, f[k - 1]>> \in (1..n) \X V BY <1>3, <2>1
  <2> QED BY <1>3, <2>2 DEF Runs
<1>5. f[0] = <<>> BY <1>3 DEF Runs
<1> HIDE DEF G, V
<1>6. f = [j \in 0..Len(step) |->
              IF j = 0 THEN <<>>
              ELSE IF step[j].needs_logits THEN Append(f[j - 1], RowOf(j)) ELSE f[j - 1]]
  <2>1. \A j \in 0..n : j # 0 => j \in 1..n BY <1>0
  <2> QED BY <1>3, <1>4, <1>5, <2>1
<1>7. upto = [j \in 0..Len(step) |->
                 IF j = 0 THEN <<>>
                 ELSE IF step[j].needs_logits THEN Append(upto[j - 1], RowOf(j)) ELSE upto[j - 1]]
  <2>1. \E g : g = [j \in 0..Len(step) |->
                        IF j = 0 THEN <<>>
                        ELSE IF step[j].needs_logits THEN Append(g[j - 1], RowOf(j)) ELSE g[j - 1]]
    BY <1>6
  <2> QED BY <2>1
<1>8. \A k : LogitRows(k) = upto[k] BY DEF LogitRows
<1> HIDE DEF upto
<1>9. /\ upto[0] = <<>>
      /\ \A k \in 1..n : upto[k] = IF step[k].needs_logits THEN Append(upto[k - 1], RowOf(k)) ELSE upto[k - 1]
  <2>1. 0 \in 0..n BY <1>0
  <2>2. upto[0] = <<>> BY <1>7, <2>1
  <2>3. ASSUME NEW k \in 1..n
        PROVE  upto[k] = IF step[k].needs_logits THEN Append(upto[k - 1], RowOf(k)) ELSE upto[k - 1]
    <3>1. k \in 0..n /\ k # 0 BY <1>0
    <3> QED BY <1>7, <3>1, Zenon
  <2> QED BY <2>2, <2>3
<1>10. \A k \in 0..n : upto[k] \in V
  <2> DEFINE T == {k \in 0..n : upto[k] \in V}
  <2>1. 0 \in T BY <1>0, <1>2, <1>9
  <2>2. ASSUME NEW k \in 1..n, k - 1 \in T PROVE k \in T
    <3>1. Append(upto[k - 1], RowOf(k)) \in V BY <1>0, <2>2 DEF V
    <3> QED BY <1>0, <1>9, <2>2, <3>1
  <2>3. \A k \in 0..n : k \in T
    <3> HIDE DEF T
    <3> QED BY <1>0, <2>1, <2>2, UpTo
  <2> QED BY <2>3
<1> QED BY <1>8, <1>9, <1>10 DEF V

\* Row q of the packing belongs to the slice sl.
OfSlice(e, sl) ==
    /\ e.seq = sl.seq
    /\ e.pos \in sl.start..sl.start + sl.len - 1
    /\ e.id = SeqTokens[e.seq][e.pos + 1]

\* What the entries of the first k slices are: each is of a slice, a slice has all its
\* positions, and its last one where it ends.
PackedRight(k) ==
    /\ \A i \in 1..Len(Packed(k)) : \E j \in 1..k : OfSlice(Packed(k)[i], step[j])
    /\ \A j \in 1..k : \A p \in step[j].start..step[j].start + step[j].len - 1 :
          \E i \in 1..Len(Packed(k)) : Packed(k)[i].seq = step[j].seq /\ Packed(k)[i].pos = p
    /\ \A j \in 1..k :
          /\ Len(Packed(j)) \in 1..Len(Packed(k))
          /\ Packed(k)[Len(Packed(j))].seq = step[j].seq
          /\ Packed(k)[Len(Packed(j))].pos = step[j].start + step[j].len - 1

\* One more slice.
LEMMA PackOne ==
    ASSUME StepOK, NEW k \in 1..Len(step), PackedRight(k - 1)
    PROVE  PackedRight(k)
<1> DEFINE q == Packed(k - 1)
           r == Packed(k)
           e == Entries(step[k])
           sl == step[k]
<1>0. /\ sl \in Slice /\ sl.start \in Nat /\ sl.len \in Nat \ {0} /\ Len(step) \in Nat
      /\ sl.start + sl.len <= Len(SeqTokens[sl.seq])
  BY StepType
<1>1. /\ e \in Seq(Entry) /\ Len(e) = sl.len
      /\ \A t \in 1..sl.len : e[t] = [seq |-> sl.seq, pos |-> sl.start + t - 1,
                                      id |-> SeqTokens[sl.seq][sl.start + t]]
  BY <1>0, EntriesType
<1>2. q \in Seq(Entry) /\ r \in Seq(Entry) /\ r = q \o e
  <2>1. k - 1 \in 0..Len(step) /\ k \in 0..Len(step) BY <1>0
  <2> QED BY <2>1, PackedIs
<1> HIDE DEF q, r, e, sl
<1>3. /\ Len(q) \in Nat /\ Len(r) = Len(q) + sl.len /\ Len(r) \in Nat
      /\ \A i \in 1..Len(q) : i \in 1..Len(r) /\ r[i] = q[i]
      /\ \A t \in 1..sl.len : Len(q) + t \in 1..Len(r) /\ r[Len(q) + t] = e[t]
  <2>0. q \in Seq(Entry) /\ e \in Seq(Entry) /\ r = q \o e BY <1>1, <1>2
  <2>1. PICK m \in Nat, n \in Nat : m = Len(q) /\ n = Len(e) BY <2>0
  <2>2. Len(r) = m + n BY <2>0, <2>1
  <2>3. \A i \in 1..m : r[i] = q[i] BY <2>0, <2>1
  <2>4. \A i \in m + 1..m + n : r[i] = e[i - m] BY <2>0, <2>1
  <2>5. \A t \in 1..n : m + t \in m + 1..m + n /\ (m + t) - m = t OBVIOUS
  <2>6. n = sl.len BY <1>1, <2>1
  <2>7. \A t \in 1..n : r[m + t] = e[t] BY <2>4, <2>5, Zenon
  <2>8. m + n \in Nat /\ \A i \in 1..m : i \in 1..m + n OBVIOUS
  <2>9. \A t \in 1..n : m + t \in 1..m + n OBVIOUS
  <2> QED BY <2>1, <2>2, <2>3, <2>6, <2>7, <2>8, <2>9, Zenon
<1>4. ASSUME NEW t \in 1..sl.len
      PROVE  /\ r[Len(q) + t].seq = sl.seq /\ r[Len(q) + t].pos = sl.start + t - 1
             /\ OfSlice(r[Len(q) + t], sl)
  <2>1. r[Len(q) + t] = [seq |-> sl.seq, pos |-> sl.start + t - 1, id |-> SeqTokens[sl.seq][sl.start + t]]
    BY <1>1, <1>3
  <2>2. sl.start + t - 1 \in sl.start..sl.start + sl.len - 1 /\ (sl.start + t - 1) + 1 = sl.start + t
    <3>1. PICK a \in Nat, len \in Nat : a = sl.start /\ len = sl.len BY <1>0
    <3>2. PICK u \in 1..len : u = t BY <3>1
    <3>3. a + u - 1 \in a..a + len - 1 /\ (a + u - 1) + 1 = a + u OBVIOUS
    <3> QED BY <3>1, <3>2, <3>3, Zenon
  <2> QED BY <2>1, <2>2 DEF OfSlice
<1>5. \A i \in 1..Len(r) : \E j \in 1..k : OfSlice(r[i], step[j])
  <2> SUFFICES ASSUME NEW i \in 1..Len(r) PROVE \E j \in 1..k : OfSlice(r[i], step[j]) OBVIOUS
  <2>1. CASE i \in 1..Len(q)
    <3>1. PICK j \in 1..k - 1 : OfSlice(q[i], step[j]) BY <2>1 DEF PackedRight, q
    <3>2. j \in 1..k OBVIOUS
    <3> QED BY <1>3, <2>1, <3>1, <3>2
  <2>2. CASE i \notin 1..Len(q)
    <3>1. i - Len(q) \in 1..sl.len /\ Len(q) + (i - Len(q)) = i BY <1>0, <1>3, <2>2
    <3>2. OfSlice(r[i], sl) BY <1>4, <3>1
    <3>3. k \in 1..k OBVIOUS
    <3> QED BY <3>2, <3>3 DEF sl
  <2> QED BY <2>1, <2>2
<1>6. ASSUME NEW j \in 1..k, NEW p \in step[j].start..step[j].start + step[j].len - 1
      PROVE  \E i \in 1..Len(r) : r[i].seq = step[j].seq /\ r[i].pos = p
  <2>1. CASE j = k
    <3>0. p \in sl.start..sl.start + sl.len - 1 BY <2>1 DEF sl
    <3>1. PICK a \in Nat, len \in Nat : a = sl.start /\ len = sl.len BY <1>0
    <3>2. PICK t \in 1..sl.len : sl.start + t - 1 = p
      <4>1. p \in a..a + len - 1 BY <3>0, <3>1, Zenon
      <4>2. p - a + 1 \in 1..len /\ a + (p - a + 1) - 1 = p BY <4>1
      <4> QED BY <3>1, <4>2
    <3>3. r[Len(q) + t].seq = sl.seq /\ r[Len(q) + t].pos = p BY <1>4, <3>2
    <3> QED BY <1>3, <2>1, <3>3 DEF sl
  <2>2. CASE j # k
    <3>1. j \in 1..k - 1 BY <2>2
    <3>2. PICK i \in 1..Len(q) : q[i].seq = step[j].seq /\ q[i].pos = p BY <3>1 DEF PackedRight, q
    <3> QED BY <1>3, <3>2
  <2> QED BY <2>1, <2>2
<1>7. ASSUME NEW j \in 1..k
      PROVE  /\ Len(Packed(j)) \in 1..Len(r)
             /\ r[Len(Packed(j))].seq = step[j].seq
             /\ r[Len(Packed(j))].pos = step[j].start + step[j].len - 1
  <2>1. CASE j = k
    <3>1. sl.len \in 1..sl.len /\ Len(Packed(j)) = Len(q) + sl.len BY <1>0, <1>3, <2>1 DEF r
    <3> QED BY <1>3, <1>4, <2>1, <3>1 DEF sl
  <2>2. CASE j # k
    <3>1. j \in 1..k - 1 BY <2>2
    <3>2. /\ Len(Packed(j)) \in 1..Len(q)
          /\ q[Len(Packed(j))].seq = step[j].seq
          /\ q[Len(Packed(j))].pos = step[j].start + step[j].len - 1
      BY <3>1 DEF PackedRight, q
    <3> QED BY <1>3, <3>2
  <2> QED BY <2>1, <2>2
<1> QED BY <1>5, <1>6, <1>7 DEF PackedRight, r

\* flatten() packs every slice, whole and in its place.
LEMMA FlattenRight == ASSUME StepOK PROVE PackedRight(Len(step)) /\ flatten \in Seq(Entry)
<1>0. Len(step) \in Nat BY StepType
<1> DEFINE T == {k \in 0..Len(step) : PackedRight(k)}
<1>1. 0 \in T
  <2>1. Packed(0) = <<>> /\ Len(<<>>) = 0 /\ 0 \in 0..Len(step) BY <1>0, PackedIs
  <2> QED BY <2>1 DEF PackedRight
<1>2. ASSUME NEW k \in 1..Len(step), k - 1 \in T PROVE k \in T
  <2>1. k \in 0..Len(step) OBVIOUS
  <2> QED BY <1>2, <2>1, PackOne
<1>3. Len(step) \in T
  <2>1. Len(step) \in 0..Len(step) BY <1>0
  <2> HIDE DEF T
  <2> QED BY <1>0, <1>1, <1>2, <2>1, UpTo
<1>4. Packed(Len(step)) \in Seq(Entry)
  <2>1. Len(step) \in 0..Len(step) BY <1>0
  <2> QED BY <2>1, PackedIs
<1> QED BY <1>3, <1>4 DEF flatten

\* Where the row of slice k is among the rows with logits.
Rank(k) == Len(LogitRows(k))

\* A slice that asks has the next row; the rows of earlier slices stay where they are.
LEMMA Ranks ==
    ASSUME StepOK
    PROVE  /\ Rank(0) = 0
           /\ \A k \in 0..Len(step) : Rank(k) \in Nat
           /\ \A k \in 1..Len(step) : Rank(k) = IF step[k].needs_logits THEN Rank(k - 1) + 1 ELSE Rank(k - 1)
           /\ \A k \in 0..Len(step) : \A j \in 1..k :
                 step[j].needs_logits => Rank(j) \in 1..Rank(k) /\ LogitRows(k)[Rank(j)] = RowOf(j)
<1>0. /\ Len(step) \in Nat
      /\ LogitRows(0) = <<>>
      /\ \A k \in 0..Len(step) : LogitRows(k) \in Seq(Int)
      /\ \A k \in 1..Len(step) :
            LogitRows(k) = IF step[k].needs_logits THEN Append(LogitRows(k - 1), RowOf(k))
                           ELSE LogitRows(k - 1)
  BY StepType, LogitRowsAre
<1>1. ASSUME NEW k \in 1..Len(step)
      PROVE  /\ Rank(k - 1) \in Nat
             /\ Rank(k) = IF step[k].needs_logits THEN Rank(k - 1) + 1 ELSE Rank(k - 1)
             /\ step[k].needs_logits => LogitRows(k)[Rank(k)] = RowOf(k)
             /\ \A i \in 1..Rank(k - 1) : LogitRows(k)[i] = LogitRows(k - 1)[i]
  <2>1. k - 1 \in 0..Len(step) BY <1>0
  <2>2. PICK q \in Seq(Int) : q = LogitRows(k - 1) BY <1>0, <2>1
  <2>3. RowOf(k) \in Int
    <3>1. k \in 0..Len(step) OBVIOUS
    <3>2. Packed(k) \in Seq(Entry) BY <3>1, PackedIs
    <3>3. Len(Packed(k)) \in Nat BY <3>2
    <3> QED BY <3>3 DEF RowOf
  <2>4. PICK r \in Int : r = RowOf(k) BY <2>3
  <2>5. CASE step[k].needs_logits
    <3>1. LogitRows(k) = Append(q, r) BY <1>0, <2>2, <2>4, <2>5
    <3>2. /\ Len(Append(q, r)) = Len(q) + 1 /\ Append(q, r)[Len(q) + 1] = r /\ Len(q) \in Nat
          /\ \A i \in 1..Len(q) : Append(q, r)[i] = q[i]
      OBVIOUS
    <3> QED BY <2>2, <2>4, <2>5, <3>1, <3>2 DEF Rank
  <2>6. CASE ~step[k].needs_logits
    <3>1. LogitRows(k) = q BY <1>0, <2>2, <2>6
    <3>2. Len(q) \in Nat OBVIOUS
    <3> QED BY <2>2, <2>6, <3>1, <3>2 DEF Rank
  <2> QED BY <2>5, <2>6
<1>2. Rank(0) = 0 BY <1>0 DEF Rank
<1>3. \A k \in 0..Len(step) : Rank(k) \in Nat BY <1>0 DEF Rank
<1> DEFINE T == {k \in 0..Len(step) : \A j \in 1..k :
                    step[j].needs_logits => Rank(j) \in 1..Rank(k) /\ LogitRows(k)[Rank(j)] = RowOf(j)}
<1>4. 0 \in T BY <1>0
<1>5. ASSUME NEW k \in 1..Len(step), k - 1 \in T PROVE k \in T
  <2>1. k \in 0..Len(step) OBVIOUS
  <2>2. ASSUME NEW j \in 1..k, step[j].needs_logits
        PROVE  Rank(j) \in 1..Rank(k) /\ LogitRows(k)[Rank(j)] = RowOf(j)
    <3>1. CASE j = k BY <1>1, <2>2, <3>1
    <3>2. CASE j # k
      <4>1. j \in 1..k - 1 BY <3>2
      <4>2. Rank(j) \in 1..Rank(k - 1) /\ LogitRows(k - 1)[Rank(j)] = RowOf(j) BY <1>5, <2>2, <4>1
      <4>3. Rank(k) \in Nat /\ Rank(k - 1) <= Rank(k) BY <1>1
      <4> QED BY <1>1, <4>2, <4>3
    <3> QED BY <3>1, <3>2
  <2> QED BY <2>1, <2>2
<1>6. \A k \in 0..Len(step) : k \in T
  <2> HIDE DEF T
  <2> QED BY <1>0, <1>4, <1>5, UpTo
<1> QED BY <1>1, <1>2, <1>3, <1>6

-----------------------------------------------------------------------------
(* The block tables on the device.                                         *)

DeviceTables == [seen : Seq(Seqs), offset : Seq(Nat), tables : Seq(Nat)]

\* d has the whole table of every sequence it has seen.
Faithful(d) ==
    /\ Len(d.offset) = Len(d.seen)
    /\ \A n \in 1..Len(d.seen) : \A b \in 1..Len(SeqTable[d.seen[n]]) :
          /\ d.offset[n] + b \in 1..Len(d.tables)
          /\ d.tables[d.offset[n] + b] = SeqTable[d.seen[n]][b]

\* A block table.
LEMMA TableType == ASSUME NEW s \in Seqs PROVE SeqTable[s] \in Seq(Nat) /\ Len(SeqTable[s]) \in Nat
<1>1. SeqTable[s] \in Seq(Nat) BY ForwardPassAssumption
<1> QED BY <1>1

\* A table that joins is there, and the others stay.
LEMMA JoiningRight ==
    ASSUME NEW d \in DeviceTables, NEW s \in Seqs
    PROVE  /\ Joining(d, s) \in DeviceTables
           /\ Faithful(d) => Faithful(Joining(d, s))
           /\ \A t : Contains(d.seen, t) => Contains(Joining(d, s).seen, t)
           /\ Contains(Joining(d, s).seen, s)
<1>1. CASE Contains(d.seen, s)
  <2>1. Joining(d, s) = d BY <1>1 DEF Joining
  <2> QED BY <1>1, <2>1
<1>2. CASE ~Contains(d.seen, s)
  <2>0. PICK seen \in Seq(Seqs), offset \in Seq(Nat), tables \in Seq(Nat) :
           d = [seen |-> seen, offset |-> offset, tables |-> tables]
    BY DEF DeviceTables
  <2>1. PICK t \in Seq(Nat) : t = SeqTable[s] BY TableType
  <2> DEFINE nseen == Append(seen, s)
             noffset == Append(offset, Len(tables))
             ntables == tables \o t
  <2>2. Joining(d, s) = [seen |-> nseen, offset |-> noffset, tables |-> ntables]
    BY <1>2, <2>0, <2>1 DEF Joining
  <2>3. /\ nseen \in Seq(Seqs) /\ Len(nseen) = Len(seen) + 1 /\ Len(seen) \in Nat
        /\ nseen[Len(seen) + 1] = s /\ \A n \in 1..Len(seen) : nseen[n] = seen[n]
    OBVIOUS
  <2>4. /\ noffset \in Seq(Nat) /\ Len(noffset) = Len(offset) + 1 /\ Len(offset) \in Nat
        /\ noffset[Len(offset) + 1] = Len(tables) /\ \A n \in 1..Len(offset) : noffset[n] = offset[n]
    <3>1. Len(tables) \in Nat OBVIOUS
    <3> QED BY <3>1
  <2>5. /\ ntables \in Seq(Nat) /\ Len(ntables) = Len(tables) + Len(t)
        /\ Len(tables) \in Nat /\ Len(t) \in Nat
        /\ \A i \in 1..Len(tables) : ntables[i] = tables[i]
        /\ \A i \in 1..Len(t) : ntables[Len(tables) + i] = t[i]
    OBVIOUS
  <2> HIDE DEF nseen, noffset, ntables
  <2>6. Joining(d, s) \in DeviceTables BY <2>2, <2>3, <2>4, <2>5 DEF DeviceTables
  <2>7. ASSUME Faithful(d) PROVE Faithful(Joining(d, s))
    <3>0. /\ Len(offset) = Len(seen)
          /\ \A n \in 1..Len(seen) : \A b \in 1..Len(SeqTable[seen[n]]) :
                offset[n] + b \in 1..Len(tables) /\ tables[offset[n] + b] = SeqTable[seen[n]][b]
      BY <2>0, <2>7 DEF Faithful
    <3>1. Len(noffset) = Len(nseen) BY <2>3, <2>4, <3>0
    <3>2. ASSUME NEW n \in 1..Len(nseen), NEW b \in 1..Len(SeqTable[nseen[n]])
          PROVE  /\ noffset[n] + b \in 1..Len(ntables)
                 /\ ntables[noffset[n] + b] = SeqTable[nseen[n]][b]
      <4>1. CASE n \in 1..Len(seen)
        <5>1. nseen[n] = seen[n] /\ noffset[n] = offset[n] BY <2>3, <2>4, <3>0, <4>1
        <5>2. offset[n] + b \in 1..Len(tables) /\ tables[offset[n] + b] = SeqTable[seen[n]][b]
          BY <3>0, <3>2, <4>1, <5>1
        <5>3. PICK i \in 1..Len(tables) : i = offset[n] + b BY <5>2
        <5>4. ntables[i] = tables[i] BY <2>5, Zenon
        <5>5. i \in 1..Len(ntables)
          <6>1. PICK x1 \in Nat, x2 \in Nat : x1 = Len(tables) /\ x2 = Len(t) /\ Len(ntables) = x1 + x2
            BY <2>5, Zenon
          <6> QED BY <6>1
        <5> QED BY <5>1, <5>2, <5>3, <5>4, <5>5
      <4>2. CASE n \notin 1..Len(seen)
        <5>1. n = Len(seen) + 1 /\ nseen[n] = s /\ noffset[n] = Len(tables) BY <2>3, <2>4, <3>0, <4>2
        <5>2. b \in 1..Len(t) BY <2>1, <3>2, <5>1
        <5>3. ntables[Len(tables) + b] = t[b] BY <2>5, <5>2, Zenon
        <5>4. Len(tables) + b \in 1..Len(ntables)
          <6>1. PICK x1 \in Nat, x2 \in Nat : x1 = Len(tables) /\ x2 = Len(t) /\ Len(ntables) = x1 + x2
            BY <2>5, Zenon
          <6> QED BY <5>2, <6>1
        <5> QED BY <2>1, <5>1, <5>3, <5>4
      <4> QED BY <4>1, <4>2
    <3> QED BY <2>2, <3>1, <3>2 DEF Faithful
  <2>8. ASSUME NEW u, Contains(d.seen, u) PROVE Contains(Joining(d, s).seen, u)
    <3>1. PICK i \in 1..Len(seen) : seen[i] = u BY <2>0, <2>8 DEF Contains
    <3>2. i \in 1..Len(nseen) /\ nseen[i] = u BY <2>3, <3>1
    <3>3. Contains(nseen, u) BY <3>2, Zenon DEF Contains
    <3>4. Joining(d, s).seen = nseen BY <2>2
    <3> QED BY <3>3, <3>4
  <2>9. Contains(Joining(d, s).seen, s)
    <3>1. Len(seen) + 1 \in 1..Len(nseen) BY <2>3
    <3>2. Contains(nseen, s) BY <2>3, <3>1, Zenon DEF Contains
    <3>3. Joining(d, s).seen = nseen BY <2>2
    <3> QED BY <3>2, <3>3
  <2> QED BY <2>6, <2>7, <2>8, <2>9
<1> QED BY <1>1, <1>2

\* upload_step_indices() row by row.
LEMMA TablesAre ==
    ASSUME NEW toks \in Seq(Entry)
    PROVE  /\ Tables(toks, 0) = [seen |-> <<>>, offset |-> <<>>, tables |-> <<>>]
           /\ \A k \in 1..Len(toks) : Tables(toks, k) = Joining(Tables(toks, k - 1), toks[k].seq)
<1> DEFINE n == Len(toks)
           V == DeviceTables
           start == [seen |-> <<>>, offset |-> <<>>, tables |-> <<>>]
           upto[i \in 0..Len(toks)] ==
               IF i = 0 THEN [seen |-> <<>>, offset |-> <<>>, tables |-> <<>>]
               ELSE Joining(upto[i - 1], toks[i].seq)
           G == [p \in (1..n) \X V |-> Joining(p[2], toks[p[1]].seq)]
<1>0. n \in Nat /\ \A k \in 1..n : toks[k].seq \in Seqs
  <2>1. \A k \in 1..Len(toks) : toks[k] \in Entry OBVIOUS
  <2> QED BY <2>1 DEF Entry
<1>1. G \in [(1..n) \X V -> V]
  <2> SUFFICES ASSUME NEW p \in (1..n) \X V PROVE Joining(p[2], toks[p[1]].seq) \in V OBVIOUS
  <2>1. p[1] \in 1..n /\ p[2] \in V OBVIOUS
  <2> QED BY <1>0, <2>1, JoiningRight
<1>2. start \in V
  <2>1. \A S : <<>> \in Seq(S) OBVIOUS
  <2> QED BY <2>1 DEF DeviceTables
<1>3. PICK f \in [0..n -> V] : Runs(f, n, start, G)
  <2> HIDE DEF G, V, n, start
  <2> QED BY <1>0, <1>1, <1>2, LoopRuns
<1>4. \A k \in 1..n : f[k] = Joining(f[k - 1], toks[k].seq)
  <2> SUFFICES ASSUME NEW k \in 1..n PROVE f[k] = Joining(f[k - 1], toks[k].seq) OBVIOUS
  <2>1. k - 1 \in 0..n BY <1>0
  <2>2. <<k, f[k - 1]>> \in (1..n) \X V BY <1>3, <2>1
  <2> HIDE DEF start
  <2> QED BY <1>3, <2>2 DEF Runs
<1>5. f[0] = start BY <1>3 DEF Runs
<1> HIDE DEF G, V
<1>6. f = [i \in 0..Len(toks) |->
              IF i = 0 THEN [seen |-> <<>>, offset |-> <<>>, tables |-> <<>>]
              ELSE Joining(f[i - 1], toks[i].seq)]
  <2>1. \A j \in 0..n : j # 0 => j \in 1..n BY <1>0
  <2> QED BY <1>3, <1>4, <1>5, <2>1
<1>7. upto = [i \in 0..Len(toks) |->
                 IF i = 0 THEN [seen |-> <<>>, offset |-> <<>>, tables |-> <<>>]
                 ELSE Joining(upto[i - 1], toks[i].seq)]
  <2>1. \E g : g = [i \in 0..Len(toks) |->
                        IF i = 0 THEN [seen |-> <<>>, offset |-> <<>>, tables |-> <<>>]
                        ELSE Joining(g[i - 1], toks[i].seq)]
    BY <1>6
  <2> QED BY <2>1
<1>8. \A k : Tables(toks, k) = upto[k] BY DEF Tables
<1> HIDE DEF upto
<1>9. upto[0] = start /\ \A k \in 1..n : upto[k] = Joining(upto[k - 1], toks[k].seq)
  <2>1. 0 \in 0..n /\ \A k \in 1..n : k \in 0..n /\ k # 0 BY <1>0
  <2> QED BY <1>7, <2>1
<1> QED BY <1>8, <1>9

\* After all rows every table is there, whole.
LEMMA TablesRight ==
    ASSUME NEW toks \in Seq(Entry)
    PROVE  LET d == Tables(toks, Len(toks))
           IN  /\ d \in DeviceTables /\ Faithful(d)
               /\ \A i \in 1..Len(toks) : Contains(d.seen, toks[i].seq)
<1>0. Len(toks) \in Nat /\ \A k \in 1..Len(toks) : toks[k].seq \in Seqs
  <2>1. \A k \in 1..Len(toks) : toks[k] \in Entry OBVIOUS
  <2> QED BY <2>1 DEF Entry
<1> DEFINE Right(k) ==
               /\ Tables(toks, k) \in DeviceTables /\ Faithful(Tables(toks, k))
               /\ \A i \in 1..k : Contains(Tables(toks, k).seen, toks[i].seq)
           T == {k \in 0..Len(toks) : Right(k)}
<1>1. 0 \in T
  <2>1. Tables(toks, 0) = [seen |-> <<>>, offset |-> <<>>, tables |-> <<>>] BY TablesAre
  <2>2. [seen |-> <<>>, offset |-> <<>>, tables |-> <<>>] \in DeviceTables
    <3>1. \A S : <<>> \in Seq(S) OBVIOUS
    <3> QED BY <3>1 DEF DeviceTables
  <2>3. Tables(toks, 0) \in DeviceTables BY <2>1, <2>2, Zenon
  <2>4. Len(<<>>) = 0 OBVIOUS
  <2>5. Faithful(Tables(toks, 0)) BY <2>1, <2>4 DEF Faithful
  <2> QED BY <1>0, <2>3, <2>5
<1>2. ASSUME NEW k \in 1..Len(toks), k - 1 \in T PROVE k \in T
  <2>1. Right(k - 1) BY <1>2
  <2>2. Tables(toks, k) = Joining(Tables(toks, k - 1), toks[k].seq) BY TablesAre
  <2>3. PICK d \in DeviceTables : d = Tables(toks, k - 1) BY <2>1
  <2>4. toks[k].seq \in Seqs BY <1>0
  <2>5. ASSUME NEW i \in 1..k PROVE Contains(Joining(d, toks[k].seq).seen, toks[i].seq)
    <3>1. CASE i = k BY <2>4, <3>1, JoiningRight
    <3>2. CASE i # k
      <4>1. i \in 1..k - 1 BY <3>2
      <4> QED BY <2>1, <2>3, <2>4, <4>1, JoiningRight
    <3> QED BY <3>1, <3>2
  <2>6. Joining(d, toks[k].seq) \in DeviceTables /\ Faithful(Joining(d, toks[k].seq))
    BY <2>1, <2>3, <2>4, JoiningRight
  <2>7. Right(k) BY <2>2, <2>3, <2>5, <2>6
  <2>8. k \in 0..Len(toks) OBVIOUS
  <2> HIDE DEF Right
  <2> QED BY <2>7, <2>8
<1>3. \A k \in 0..Len(toks) : k \in T
  <2> HIDE DEF T
  <2> QED BY <1>0, <1>1, <1>2, UpTo
<1>4. Len(toks) \in T BY <1>0, <1>3
<1> QED BY <1>4

\* Position p of a sequence is in one of its blocks.
LEMMA BlockOf ==
    ASSUME NEW s \in Seqs, NEW p \in 0..Len(SeqTokens[s]) - 1
    PROVE  /\ p \div BlockSize \in Nat /\ p \div BlockSize + 1 \in 1..Len(SeqTable[s])
           /\ p % BlockSize \in 0..BlockSize - 1
<1>1. BlockSize \in Nat \ {0} BY AttentionAssumption
<1>2. p \in Nat /\ Len(SeqTokens[s]) \in Nat /\ Len(SeqTable[s]) \in Nat BY TokenType, TableType
<1>3. Len(SeqTokens[s]) <= Len(SeqTable[s]) * BlockSize BY ForwardPassAssumption
<1>4. p < Len(SeqTable[s]) * BlockSize
  <2>1. Len(SeqTable[s]) * BlockSize \in Nat BY <1>1, <1>2
  <2> QED BY <1>2, <1>3, <2>1
<1>5. p \div BlockSize \in Nat /\ p % BlockSize \in 0..BlockSize - 1 BY <1>1, <1>2
<1>6. p = BlockSize * (p \div BlockSize) + (p % BlockSize) BY <1>1, <1>2
<1>7. p \div BlockSize < Len(SeqTable[s])
  <2> SUFFICES ASSUME p \div BlockSize >= Len(SeqTable[s]) PROVE FALSE BY <1>2, <1>5
  <2>1. BlockSize * (p \div BlockSize) >= BlockSize * Len(SeqTable[s]) BY <1>1, <1>2, <1>5
  <2> QED BY <1>1, <1>2, <1>4, <1>5, <1>6, <2>1
<1> QED BY <1>2, <1>5, <1>7

\* The slot of position p of s.
SlotOf(s, p) == SlotAt(SeqTable[s], 0, p)

\* It is one of the cache's.
LEMMA SlotIn == ASSUME NEW s \in Seqs, NEW p \in 0..Len(SeqTokens[s]) - 1 PROVE SlotOf(s, p) \in Slots
<1>1. PICK b \in 1..Len(SeqTable[s]) : b = p \div BlockSize + 1 BY BlockOf
<1>2. PICK o \in 0..BlockSize - 1 : o = p % BlockSize BY BlockOf
<1>3. p \div BlockSize \in Nat BY BlockOf
<1>4. 0 + (p \div BlockSize) + 1 = b BY <1>1, <1>3
<1>5. SlotOf(s, p) = SeqTable[s][b] * BlockSize + o BY <1>2, <1>4 DEF SlotOf, SlotAt
<1>6. SeqTable[s][b] \in ToSet(SeqTable[s])
  <2>1. b \in DOMAIN SeqTable[s] BY TableType
  <2> QED BY <2>1, Zenon DEF ToSet
<1>7. SeqTable[s][b] \in UNION {ToSet(SeqTable[t]) : t \in Seqs} BY <1>6
<1> QED BY <1>5, <1>7 DEF Slots

\* A prefix of a sequence.
LEMMA PrefixIs ==
    ASSUME NEW t \in Seq(Int), NEW n \in 1..Len(t)
    PROVE  /\ SubSeq(t, 1, n) \in Seq(Int) /\ Len(SubSeq(t, 1, n)) = n
           /\ \A k \in 1..n : SubSeq(t, 1, n)[k] = t[k]
           /\ SubSeq(t, 1, n) = [k \in 1..n |-> t[k]]
<1>1. SubSeq(t, 1, n) = [k \in 1..n |-> t[k]] OBVIOUS
<1>2. \A k \in 1..n : t[k] \in Int OBVIOUS
<1> QED BY <1>1, <1>2

\* The positions that share a slot are the same position of the same tokens.
LEMMA SameCell ==
    ASSUME NEW s \in Seqs, NEW p \in 0..Len(SeqTokens[s]) - 1,
           NEW t \in Seqs, NEW q \in 0..Len(SeqTokens[t]) - 1,
           SlotOf(s, p) = SlotOf(t, q), NEW l
    PROVE  Cell(s, p, l) = Cell(t, q, l)
<1>1. SeqTokens[s] \in Seq(Int) /\ SeqTokens[t] \in Seq(Int) BY TokenType
<1>2. PICK i \in 1..Len(SeqTokens[s]) : i = p + 1 /\ i - 1 = p BY <1>1
<1>3. PICK j \in 1..Len(SeqTokens[t]) : j = q + 1 /\ j - 1 = q BY <1>1
<1>4. SubSeq(SeqTokens[s], 1, i) = SubSeq(SeqTokens[t], 1, j)
  <2>1. SlotAt(SeqTable[s], 0, i - 1) = SlotAt(SeqTable[t], 0, j - 1) BY <1>2, <1>3 DEF SlotOf
  <2>2. \A a, b \in Seqs : \A m \in 1..Len(SeqTokens[a]), n \in 1..Len(SeqTokens[b]) :
           SlotAt(SeqTable[a], 0, m - 1) = SlotAt(SeqTable[b], 0, n - 1) =>
               SubSeq(SeqTokens[a], 1, m) = SubSeq(SeqTokens[b], 1, n)
    BY ForwardPassAssumption, Zenon
  <2> QED BY <2>1, <2>2, Zenon
<1>5. /\ Len(SubSeq(SeqTokens[s], 1, i)) = i /\ Len(SubSeq(SeqTokens[t], 1, j)) = j
      /\ SubSeq(SeqTokens[s], 1, i)[i] = SeqTokens[s][i]
      /\ SubSeq(SeqTokens[t], 1, j)[j] = SeqTokens[t][j]
  <2>1. i \in 1..i /\ j \in 1..j OBVIOUS
  <2> QED BY <1>1, <2>1, PrefixIs, Zenon
<1>6. i = j BY <1>4, <1>5
<1>7. p = q /\ SeqTokens[s][p + 1] = SeqTokens[t][q + 1] BY <1>2, <1>3, <1>4, <1>5, <1>6
<1> QED BY <1>2, <1>3, <1>4, <1>6, <1>7 DEF Cell

\* The arrays on the device lead every row to the slots of its own sequence.
LEMMA UploadRight ==
    ASSUME NEW toks \in Seq(Entry), NEW i \in 1..Len(toks)
    PROVE  LET u == upload_step_indices(toks)
           IN  /\ u.slots[i] = SlotOf(toks[i].seq, toks[i].pos)
               /\ \A p \in 0..Len(SeqTokens[toks[i].seq]) - 1 :
                     SlotAt(u.tables, table(u.offset, u.token_seq[i]), p) = SlotOf(toks[i].seq, p)
<1> DEFINE s == toks[i].seq
<1>0. s \in Seqs
  <2>1. toks[i] \in Entry OBVIOUS
  <2> QED BY <2>1 DEF Entry
<1>1. PICK d : d = Tables(toks, Len(toks)) OBVIOUS
<1>2. d \in DeviceTables /\ Faithful(d) /\ Contains(d.seen, s) BY <1>1, TablesRight
<1> HIDE DEF s
<1>3. PICK u : u = upload_step_indices(toks) OBVIOUS
<1>4. /\ u.slots = [j \in 1..Len(toks) |-> SlotAt(SeqTable[toks[j].seq], 0, toks[j].pos)]
      /\ u.token_seq = [j \in 1..Len(toks) |-> (CHOOSE n \in 1..Len(d.seen) : d.seen[n] = toks[j].seq) - 1]
      /\ u.tables = d.tables /\ u.offset = d.offset
  BY <1>1, <1>3 DEF upload_step_indices
<1>5. PICK n \in 1..Len(d.seen) : n = CHOOSE m \in 1..Len(d.seen) : d.seen[m] = s
  BY <1>2 DEF Contains
<1>6. d.seen[n] = s BY <1>2, <1>5 DEF Contains
<1>7. u.token_seq[i] = n - 1 BY <1>4, <1>5 DEF s
<1>8. table(u.offset, u.token_seq[i]) = d.offset[n]
  <2>1. (n - 1) + 1 = n OBVIOUS
  <2> QED BY <1>4, <1>7, <2>1 DEF table
<1>9. d.offset[n] \in Nat
  <2>1. d.offset \in Seq(Nat) /\ d.seen \in Seq(Seqs) BY <1>2 DEF DeviceTables
  <2>2. Len(d.offset) = Len(d.seen) BY <1>2 DEF Faithful
  <2> QED BY <2>1, <2>2
<1>10. ASSUME NEW p \in 0..Len(SeqTokens[s]) - 1
       PROVE  SlotAt(u.tables, table(u.offset, u.token_seq[i]), p) = SlotOf(s, p)
  <2>1. PICK b \in 1..Len(SeqTable[s]) : b = p \div BlockSize + 1 BY <1>0, BlockOf
  <2>2. p \div BlockSize \in Nat BY <1>0, BlockOf
  <2>3. 0 + (p \div BlockSize) + 1 = b /\ d.offset[n] + (p \div BlockSize) + 1 = d.offset[n] + b
    <3>1. PICK a \in Nat, v \in Nat : a = d.offset[n] /\ v = p \div BlockSize BY <1>9, <2>2
    <3>2. b = v + 1 BY <2>1, <3>1, Zenon
    <3>3. 0 + v + 1 = b /\ a + v + 1 = a + b BY <3>2
    <3> QED BY <3>1, <3>3, Zenon
  <2>4. d.tables[d.offset[n] + b] = SeqTable[s][b] BY <1>2, <1>6 DEF Faithful
  <2> QED BY <1>4, <1>8, <2>3, <2>4, Zenon DEF SlotAt, SlotOf
<1>11. u.slots[i] = SlotOf(s, toks[i].pos) BY <1>4 DEF SlotOf, s
<1> QED BY <1>3, <1>10, <1>11 DEF s


-----------------------------------------------------------------------------
(* The invariant of the pass.  Until the head every row holds its own      *)
(* prefix, and every cell that a row may read is computed from the prefix  *)
(* of its own position: those of earlier steps from the start, those of    *)
(* this step once they are stored.  From the head on, the rows of logits,  *)
(* the samples and the tokens follow the order of the slices.              *)

\* Position p of s was computed before the step.
Earlier(s, p) == \A k \in 1..Len(step) : step[k].seq = s => p < step[k].start

\* Row i of this layer, of position p of s, is in the cache.
Arrived(l, s, p) ==
    /\ host \in {"store", "attend"} /\ l = layer
    /\ \E i \in stored : tok[i].seq = s /\ tok[i].pos = p

\* Slice k asks for logits, and what its row is computed from.
Asks(k) == step[k].needs_logits
Result(k) == [depth |-> Layers, seen |-> SubSeq(SeqTokens[step[k].seq], 1, step[k].start + step[k].len)]

\* It is a sequence.
IsSeq(q) == \E S : q \in Seq(S)

HostInv ==
    host \in {"begin", "qkv", "store", "attend", "head", "sample", "apply", "done"}

IndexInv ==
    host # "begin" => tok = flatten /\ logit_rows = flatten_rows /\ dev = upload_step_indices(flatten)

LayerInv ==
    /\ host = "begin" => layer = 0
    /\ host \in {"qkv", "store", "attend"} => layer \in 0..Layers - 1
    /\ host = "head" => layer = Layers
    /\ host \in {"qkv", "store", "attend", "head"} =>
          x = [i \in Rows |-> [depth |-> layer, seen |-> Cell(tok[i].seq, tok[i].pos, layer).seen]]
    /\ host \in {"store", "attend"} =>
          kv = [i \in Rows |-> Cell(tok[i].seq, tok[i].pos, layer)] /\ stored \subseteq Rows
    /\ host = "attend" => stored = Rows

CacheInv ==
    /\ cache = [l \in 0..Layers - 1 |-> [sl \in Slots |-> cache[l][sl]]]
    /\ \A l \in 0..Layers - 1 : \A s \in Seqs : \A p \in 0..Len(SeqTokens[s]) - 1 :
          Earlier(s, p) \/ Arrived(l, s, p) => cache[l][SlotOf(s, p)] = Cell(s, p, l)

HeadInv ==
    host \in {"sample", "apply", "done"} =>
        \A k \in 1..Len(step) : Asks(k) => logits[Rank(k)] = Result(k)

\* The slices up to n have their samples.
Drawn(n) ==
    \A k \in 1..n : Asks(k) => Rank(k) \in 1..Len(sampled) /\ sampled[Rank(k)].from = Result(k)

DrawnInv ==
    /\ cursor \in 1..Len(step) + 1
    /\ row = Rank(cursor - 1) + 1
    /\ IsSeq(sampled)
    /\ host \in {"begin", "qkv", "store", "attend", "head"} => cursor = 1 /\ sampled = <<>>
    /\ host = "sample" => Len(sampled) = Rank(cursor - 1) /\ Drawn(cursor - 1)
    /\ host \in {"apply", "done"} => Drawn(Len(step))

\* The slices up to n have their tokens; no other sequence has one.
Given(n) ==
    \A s \in Seqs :
        /\ (\A k \in 1..n : Asks(k) => step[k].seq # s) => appended[s] = <<>>
        /\ \A k \in 1..n : Asks(k) /\ step[k].seq = s => appended[s] = <<sampled[Rank(k)]>>

AppliedInv ==
    /\ DOMAIN appended = Seqs /\ appended = [s \in Seqs |-> appended[s]]
    /\ host \notin {"apply", "done"} => \A s \in Seqs : appended[s] = <<>>
    /\ host \in {"apply", "done"} => Given(cursor - 1)
    /\ host = "done" => cursor = Len(step) + 1

PassInv ==
    /\ StepOK /\ HostInv /\ IndexInv /\ LayerInv /\ CacheInv /\ HeadInv /\ DrawnInv /\ AppliedInv

\* What is computed from the slices alone stays.
LEMMA SameStep ==
    ASSUME step' = step
    PROVE  /\ flatten' = flatten /\ flatten_rows' = flatten_rows
           /\ \A k : /\ Rank(k)' = Rank(k) /\ RowOf(k)' = RowOf(k)
                     /\ Asks(k)' = Asks(k) /\ Result(k)' = Result(k)
           /\ \A s, p : Earlier(s, p)' = Earlier(s, p)
<1>1. \A k : Packed(k)' = Packed(k) BY Zenon DEF Packed
<1>2. \A k : RowOf(k)' = RowOf(k) BY <1>1 DEF RowOf
<1>3. \A k : LogitRows(k)' = LogitRows(k) BY <1>2, Zenon DEF LogitRows
<1>4. flatten' = flatten /\ flatten_rows' = flatten_rows BY <1>1, <1>3 DEF flatten, flatten_rows
<1>5. \A k : Rank(k)' = Rank(k) BY <1>3 DEF Rank
<1>6. \A k : Asks(k)' = Asks(k) BY DEF Asks
<1>7. \A k : Result(k)' = Result(k) BY DEF Result
<1>8. \A s, p : Earlier(s, p)' = Earlier(s, p) BY DEF Earlier
<1> QED BY <1>2, <1>4, <1>5, <1>6, <1>7, <1>8

\* The packed step stays after it was uploaded.
LEMMA IndexFrame ==
    ASSUME StepOK, IndexInv, UNCHANGED <<step, tok, logit_rows, dev>>,
           host' = host \/ host # "begin"
    PROVE  StepOK' /\ IndexInv'
<1>1. StepOK' BY DEF StepOK
<1>2. CASE host # "begin"
  <2>1. flatten' = flatten /\ flatten_rows' = flatten_rows BY SameStep
  <2>2. tok = flatten /\ logit_rows = flatten_rows /\ dev = upload_step_indices(flatten)
    BY <1>2 DEF IndexInv
  <2>3. upload_step_indices(flatten') = upload_step_indices(flatten) BY <2>1, Zenon
  <2>4. upload_step_indices(flatten)' = upload_step_indices(flatten') OBVIOUS
  <2> QED BY <1>1, <2>1, <2>2, <2>3, <2>4 DEF IndexInv
<1>3. CASE host' = "begin" BY <1>1, <1>3 DEF IndexInv
<1> QED BY <1>1, <1>2, <1>3

\* Rows and layer stay.
LEMMA LayerFrame ==
    ASSUME LayerInv, UNCHANGED <<host, layer, tok, x, kv, stored>>
    PROVE  LayerInv'
BY DEF LayerInv, Rows, Cell

\* No cell is written, and none is relied on that was not.
LEMMA CacheFrame ==
    ASSUME CacheInv, UNCHANGED <<step, cache>>,
           \A l, s, p : Arrived(l, s, p)' => Arrived(l, s, p)
    PROVE  CacheInv'
<1>1. \A s, p : Earlier(s, p)' = Earlier(s, p) BY SameStep
<1>2. cache' = [l \in 0..Layers - 1 |-> [sl \in Slots |-> cache'[l][sl]]]
  <2>1. cache = [l \in 0..Layers - 1 |-> [sl \in Slots |-> cache[l][sl]]] BY DEF CacheInv
  <2> QED BY <2>1, Zenon
<1>3. ASSUME NEW l \in 0..Layers - 1, NEW s \in Seqs, NEW p \in 0..Len(SeqTokens[s]) - 1,
             Earlier(s, p)' \/ Arrived(l, s, p)'
      PROVE  cache'[l][SlotOf(s, p)] = Cell(s, p, l)
  <2>1. Earlier(s, p) \/ Arrived(l, s, p) BY <1>1, <1>3
  <2>2. cache[l][SlotOf(s, p)] = Cell(s, p, l) BY <2>1 DEF CacheInv
  <2> QED BY <2>2, Zenon
<1>4. \A l \in 0..Layers - 1 : \A s \in Seqs : \A p \in 0..Len(SeqTokens[s]) - 1 :
          (Earlier(s, p) \/ Arrived(l, s, p))' => cache'[l][SlotOf(s, p)] = Cell(s, p, l)
  BY <1>3
<1> QED BY <1>2, <1>4 DEF CacheInv

\* The rows of logits stay once they are there.
LEMMA HeadFrame ==
    ASSUME HeadInv, UNCHANGED <<step, logits>>,
           host' \in {"sample", "apply", "done"} => host \in {"sample", "apply", "done"}
    PROVE  HeadInv'
<1>1. \A k : Rank(k)' = Rank(k) /\ Asks(k)' = Asks(k) /\ Result(k)' = Result(k) BY SameStep
<1> QED BY <1>1 DEF HeadInv

\* Nothing is sampled before the head.
LEMMA DrawnFrame ==
    ASSUME StepOK, DrawnInv, UNCHANGED <<step, cursor, row, sampled>>,
           \/ host' = host
           \/ /\ host' \in {"qkv", "store", "attend", "head", "sample"}
              /\ host \in {"begin", "qkv", "store", "attend", "head"}
    PROVE  DrawnInv'
<1>1. \A k : Rank(k)' = Rank(k) /\ Asks(k)' = Asks(k) /\ Result(k)' = Result(k) BY SameStep
<1>2. \A n : Drawn(n)' = Drawn(n) BY <1>1 DEF Drawn
<1>3. IsSeq(sampled)' = IsSeq(sampled) BY DEF IsSeq
<1>4. CASE host' = host BY <1>1, <1>2, <1>3, <1>4 DEF DrawnInv
<1>5. CASE host' # host
  <2>1. cursor = 1 /\ sampled = <<>> BY <1>5 DEF DrawnInv
  <2>2. Rank(cursor - 1) = 0 /\ Len(sampled) = 0
    <3>1. cursor - 1 = 0 BY <2>1
    <3>2. Rank(0) = 0 BY Ranks
    <3> QED BY <2>1, <3>1, <3>2
  <2>3. Drawn(cursor - 1) BY <2>1 DEF Drawn
  <2> QED BY <1>1, <1>2, <1>3, <1>5, <2>1, <2>2, <2>3 DEF DrawnInv
<1> QED BY <1>4, <1>5

\* Nothing is appended before all is sampled.
LEMMA AppliedFrame ==
    ASSUME AppliedInv, UNCHANGED <<step, appended>>,
           \/ host' = host /\ UNCHANGED <<cursor, sampled>>
           \/ host' \notin {"apply", "done"} /\ host \notin {"apply", "done"}
    PROVE  AppliedInv'
<1>1. \A k : Rank(k)' = Rank(k) /\ Asks(k)' = Asks(k) BY SameStep
<1>2. CASE host' = host /\ UNCHANGED <<cursor, sampled>>
  <2>1. \A n : Given(n)' = Given(n) BY <1>1, <1>2 DEF Given
  <2> QED BY <1>2, <2>1 DEF AppliedInv
<1>3. CASE host' \notin {"apply", "done"} /\ host \notin {"apply", "done"} BY <1>3 DEF AppliedInv
<1> QED BY <1>2, <1>3

\* A row is a position of its sequence.
LEMMA RowFacts ==
    ASSUME StepOK
    PROVE  /\ Len(flatten) \in Nat
           /\ \A i \in 1..Len(flatten) :
                 /\ flatten[i].seq \in Seqs
                 /\ flatten[i].pos \in 0..Len(SeqTokens[flatten[i].seq]) - 1
                 /\ flatten[i].id = SeqTokens[flatten[i].seq][flatten[i].pos + 1]
<1>1. PackedRight(Len(step)) /\ flatten \in Seq(Entry) BY FlattenRight
<1>2. ASSUME NEW i \in 1..Len(flatten)
      PROVE  /\ flatten[i].seq \in Seqs
             /\ flatten[i].pos \in 0..Len(SeqTokens[flatten[i].seq]) - 1
             /\ flatten[i].id = SeqTokens[flatten[i].seq][flatten[i].pos + 1]
  <2>1. PICK j \in 1..Len(step) : OfSlice(flatten[i], step[j]) BY <1>1 DEF PackedRight, flatten
  <2>2. flatten[i].seq = step[j].seq /\ flatten[i].pos \in step[j].start..step[j].start + step[j].len - 1
        /\ flatten[i].id = SeqTokens[flatten[i].seq][flatten[i].pos + 1]
    BY <2>1 DEF OfSlice
  <2>3. /\ step[j].seq \in Seqs /\ step[j].start \in Nat /\ step[j].len \in Nat
        /\ step[j].start + step[j].len <= Len(SeqTokens[step[j].seq])
    BY StepType
  <2>4. Len(SeqTokens[step[j].seq]) \in Nat BY <2>3, TokenType
  <2>5. PICK n \in Nat, a \in Nat, len \in Nat :
          n = Len(SeqTokens[step[j].seq]) /\ a = step[j].start /\ len = step[j].len
    BY <2>3, <2>4
  <2>6. flatten[i].pos \in a..a + len - 1 /\ a + len <= n BY <2>2, <2>3, <2>5, Zenon
  <2>7. PICK q \in a..a + len - 1 : q = flatten[i].pos BY <2>6
  <2>8. Len(SeqTokens[flatten[i].seq]) = n BY <2>2, <2>5, Zenon
  <2>9. q \in 0..n - 1
    <3>1. a + len <= n BY <2>6
    <3> QED BY <3>1
  <2>10. flatten[i].pos \in 0..Len(SeqTokens[flatten[i].seq]) - 1 BY <2>7, <2>8, <2>9, Zenon
  <2>11. flatten[i].seq \in Seqs BY <2>2, <2>3, Zenon
  <2> QED BY <2>2, <2>10, <2>11
<1>3. Len(flatten) \in Nat BY <1>1
<1> QED BY <1>2, <1>3

\* What a row looks back on was there before the step or is a row of the step.
LEMMA HistoryCovered ==
    ASSUME StepOK, NEW i \in 1..Len(flatten), NEW p \in 0..flatten[i].pos
    PROVE  \/ Earlier(flatten[i].seq, p)
           \/ \E j \in 1..Len(flatten) : flatten[j].seq = flatten[i].seq /\ flatten[j].pos = p
<1>1. PackedRight(Len(step)) BY FlattenRight
<1>2. PICK j \in 1..Len(step) : OfSlice(flatten[i], step[j]) BY <1>1 DEF PackedRight, flatten
<1>3. flatten[i].seq = step[j].seq /\ flatten[i].pos \in step[j].start..step[j].start + step[j].len - 1
  BY <1>2 DEF OfSlice
<1>4. /\ step[j].start \in Nat /\ step[j].len \in Nat
      /\ \A k \in 1..Len(step) : step[k].seq = step[j].seq => j = k
  BY StepType
<1>5. CASE p < step[j].start BY <1>3, <1>4, <1>5 DEF Earlier
<1>6. CASE ~(p < step[j].start)
  <2>1. p \in step[j].start..step[j].start + step[j].len - 1
    <3>1. PICK a \in Nat, len \in Nat : a = step[j].start /\ len = step[j].len BY <1>4
    <3>2. PICK q \in a..a + len - 1 : q = flatten[i].pos BY <1>3, <3>1, Zenon
    <3>3. p \in 0..q /\ ~(p < a) BY <1>6, <3>1, <3>2, Zenon
    <3>4. p \in a..a + len - 1 BY <3>3
    <3> QED BY <3>1, <3>4, Zenon
  <2>2. PICK k \in 1..Len(Packed(Len(step))) :
          Packed(Len(step))[k].seq = step[j].seq /\ Packed(Len(step))[k].pos = p
    BY <1>1, <2>1 DEF PackedRight
  <2> QED BY <1>3, <2>2 DEF flatten
<1> QED BY <1>5, <1>6

\* At the start the cache holds what earlier steps computed.
LEMMA PassInitInv == ASSUME PassInit PROVE PassInv
<1>1. /\ StepOK /\ host = "begin" /\ layer = 0 /\ cache = CacheAtStart /\ cursor = 1 /\ row = 1
      /\ sampled = <<>> /\ appended = [s \in Seqs |-> <<>>]
  BY DEF PassInit, StepOK
<1>2. HostInv /\ IndexInv /\ LayerInv /\ HeadInv BY <1>1 DEF HostInv, IndexInv, LayerInv, HeadInv
<1>3. CacheInv
  <2>1. cache = [l \in 0..Layers - 1 |-> [sl \in Slots |-> cache[l][sl]]]
    <3> DEFINE at(l, sl) == LET here == UNION {{Cell(s, p, l) : p \in Held(s, sl)} : s \in Seqs}
                            IN  IF here = {} THEN Stale ELSE CHOOSE c \in here : TRUE
    <3>1. cache = [l \in 0..Layers - 1 |-> [sl \in Slots |-> at(l, sl)]] BY <1>1, Zenon DEF CacheAtStart
    <3> HIDE DEF at
    <3> QED BY <3>1
  <2>2. ASSUME NEW l \in 0..Layers - 1, NEW s \in Seqs, NEW p \in 0..Len(SeqTokens[s]) - 1,
               Earlier(s, p) \/ Arrived(l, s, p)
        PROVE  cache[l][SlotOf(s, p)] = Cell(s, p, l)
    <3> DEFINE sl == SlotOf(s, p)
               here == UNION {{Cell(t, q, l) : q \in Held(t, sl)} : t \in Seqs}
    <3>1. Earlier(s, p) BY <1>1, <2>2 DEF Arrived
    <3>2. sl \in Slots BY SlotIn
    <3>3. p \in Held(s, sl) BY <3>1 DEF Held, Earlier, SlotOf
    <3>4. Cell(s, p, l) \in here BY <3>3
    <3>5. \A c \in here : c = Cell(s, p, l)
      <4> SUFFICES ASSUME NEW t \in Seqs, NEW q \in Held(t, sl) PROVE Cell(t, q, l) = Cell(s, p, l)
        OBVIOUS
      <4>1. q \in 0..Len(SeqTokens[t]) - 1 /\ SlotOf(t, q) = sl BY DEF Held, SlotOf
      <4> QED BY <4>1, SameCell
    <3>6. cache[l][sl] = IF here = {} THEN Stale ELSE CHOOSE c \in here : TRUE
      BY <1>1, <3>2 DEF CacheAtStart
    <3> HIDE DEF here, sl
    <3>7. (CHOOSE c \in here : TRUE) \in here BY <3>4
    <3> QED BY <3>4, <3>5, <3>6, <3>7 DEF sl
  <2> QED BY <2>1, <2>2 DEF CacheInv
<1>4. DrawnInv
  <2>1. Len(step) \in Nat BY <1>1, StepType
  <2>2. Rank(cursor - 1) = 0 /\ Len(sampled) = 0
    <3>1. cursor - 1 = 0 BY <1>1
    <3>2. Rank(0) = 0 BY <1>1, Ranks
    <3> QED BY <1>1, <3>1, <3>2
  <2>3. <<>> \in Seq({}) OBVIOUS
  <2>4. IsSeq(sampled) BY <1>1, <2>3 DEF IsSeq
  <2> QED BY <1>1, <2>1, <2>2, <2>4 DEF DrawnInv
<1>5. AppliedInv
  <2>1. DOMAIN appended = Seqs /\ appended = [s \in Seqs |-> appended[s]]
        /\ \A s \in Seqs : appended[s] = <<>>
    BY <1>1
  <2> QED BY <1>1, <2>1 DEF AppliedInv
<1> QED BY <1>1, <1>2, <1>3, <1>4, <1>5 DEF PassInv

\* The embeddings: every row has seen its own token.
LEMMA BeginForwardInv == ASSUME PassInv, BeginForward PROVE PassInv'
<1>1. /\ host = "begin" /\ tok' = flatten /\ logit_rows' = flatten_rows
      /\ dev' = upload_step_indices(tok')
      /\ x' = [i \in 1..Len(tok') |-> [depth |-> 0, seen |-> <<tok'[i].id>>]]
      /\ host' = "qkv"
      /\ UNCHANGED <<step, layer, cache, logits, cursor, row, sampled, appended>>
  BY DEF BeginForward, inputVars, endVars
<1>2. StepOK /\ HostInv /\ IndexInv /\ LayerInv /\ CacheInv /\ HeadInv /\ DrawnInv /\ AppliedInv
  BY DEF PassInv
<1>3. StepOK' /\ HostInv' BY <1>1, <1>2 DEF StepOK, HostInv
<1>4. flatten' = flatten /\ flatten_rows' = flatten_rows BY <1>1, SameStep
<1>5. IndexInv'
  <2>1. dev' = upload_step_indices(flatten') BY <1>1, <1>4, Zenon
  <2> QED BY <1>1, <1>4, <2>1 DEF IndexInv
<1>6. LayerInv'
  <2>1. layer' = 0 /\ Layers \in Nat \ {0} BY <1>1, <1>2, ForwardPassAssumption DEF LayerInv
  <2>2. \A i \in 1..Len(flatten) :
          Cell(flatten[i].seq, flatten[i].pos, 0).seen = <<flatten[i].id>>
    BY <1>2, RowFacts DEF Cell
  <2>3. x' = [i \in 1..Len(flatten) |-> [depth |-> 0, seen |-> Cell(flatten[i].seq, flatten[i].pos, 0).seen]]
    BY <1>1, <2>2
  <2>4. x' = [i \in 1..Len(tok') |-> [depth |-> layer', seen |-> Cell(tok'[i].seq, tok'[i].pos, layer').seen]]
    BY <1>1, <2>1, <2>3, Zenon
  <2> QED BY <1>1, <2>1, <2>4 DEF LayerInv, Rows
<1>7. CacheInv' BY <1>1, <1>2, CacheFrame DEF Arrived
<1>8. HeadInv' BY <1>1, <1>2, HeadFrame
<1>9. DrawnInv' BY <1>1, <1>2, DrawnFrame
<1>10. AppliedInv' BY <1>1, <1>2, AppliedFrame
<1> QED BY <1>3, <1>5, <1>6, <1>7, <1>8, <1>9, <1>10 DEF PassInv

\* K and V of every row.
LEMMA ProjectInv == ASSUME PassInv, Project PROVE PassInv'
<1>1. /\ host = "qkv" /\ host' = "store" /\ stored' = {}
      /\ kv' = [i \in Rows |-> [depth |-> x[i].depth, pos |-> tok[i].pos, seen |-> x[i].seen]]
      /\ UNCHANGED <<step, layer, tok, logit_rows, dev, x, cache, logits, cursor, row, sampled, appended>>
  BY DEF Project, inputVars, endVars
<1>2. StepOK /\ HostInv /\ IndexInv /\ LayerInv /\ CacheInv /\ HeadInv /\ DrawnInv /\ AppliedInv
  BY DEF PassInv
<1>3. HostInv' BY <1>1 DEF HostInv
<1>4. StepOK' /\ IndexInv' BY <1>1, <1>2, IndexFrame
<1>5. LayerInv'
  <2>1. /\ layer \in 0..Layers - 1
        /\ x = [i \in Rows |-> [depth |-> layer, seen |-> Cell(tok[i].seq, tok[i].pos, layer).seen]]
    BY <1>1, <1>2 DEF LayerInv
  <2>2. ASSUME NEW i \in Rows
        PROVE  [depth |-> x[i].depth, pos |-> tok[i].pos, seen |-> x[i].seen]
               = Cell(tok[i].seq, tok[i].pos, layer)
    <3>1. x[i].depth = layer /\ x[i].seen = Cell(tok[i].seq, tok[i].pos, layer).seen BY <2>1
    <3> QED BY <3>1 DEF Cell
  <2>3. kv' = [i \in Rows |-> Cell(tok[i].seq, tok[i].pos, layer)] BY <1>1, <2>2
  <2>4. Rows' = Rows /\ \A s, p, l : Cell(s, p, l)' = Cell(s, p, l) BY <1>1 DEF Rows, Cell
  <2>5. x' = x /\ layer' = layer /\ tok' = tok BY <1>1
  <2> QED BY <1>1, <2>1, <2>3, <2>4, <2>5 DEF LayerInv
<1>6. CacheInv' BY <1>1, <1>2, CacheFrame DEF Arrived
<1>7. HeadInv' BY <1>1, <1>2, HeadFrame
<1>8. DrawnInv' BY <1>1, <1>2, DrawnFrame
<1>9. AppliedInv' BY <1>1, <1>2, AppliedFrame
<1> QED BY <1>3, <1>4, <1>5, <1>6, <1>7, <1>8, <1>9 DEF PassInv

\* A row reaches the cache; whoever shares its slot agrees on what is there.
LEMMA StoreInv == ASSUME PassInv, NEW r \in Rows, store_kv(r) PROVE PassInv'
<1>1. /\ host = "store" /\ r \in Rows \ stored /\ stored' = stored \union {r}
      /\ cache' = [cache EXCEPT ![layer][StoreSlot(r)] = kv[r]]
      /\ UNCHANGED <<step, host, layer, tok, logit_rows, dev, x, kv, logits, cursor, row, sampled, appended>>
  BY DEF store_kv, inputVars, endVars
<1>2. StepOK /\ HostInv /\ IndexInv /\ LayerInv /\ CacheInv /\ HeadInv /\ DrawnInv /\ AppliedInv
  BY DEF PassInv
<1>3. HostInv' BY <1>1, <1>2 DEF HostInv
<1>4. StepOK' /\ IndexInv' BY <1>1, <1>2, IndexFrame
<1>5. /\ layer \in 0..Layers - 1 /\ stored \subseteq Rows
      /\ x = [i \in Rows |-> [depth |-> layer, seen |-> Cell(tok[i].seq, tok[i].pos, layer).seen]]
      /\ kv = [i \in Rows |-> Cell(tok[i].seq, tok[i].pos, layer)]
  BY <1>1, <1>2 DEF LayerInv
<1>6. LayerInv'
  <2>1. stored' \subseteq Rows BY <1>1, <1>5
  <2>2. Rows' = Rows /\ \A s, p, l : Cell(s, p, l)' = Cell(s, p, l) BY <1>1 DEF Rows, Cell
  <2> QED BY <1>1, <1>5, <2>1, <2>2 DEF LayerInv
<1>7. tok = flatten /\ dev = upload_step_indices(tok) BY <1>1, <1>2 DEF IndexInv
<1>8. tok \in Seq(Entry) BY <1>2, <1>7, FlattenRight
<1>9. /\ tok[r].seq \in Seqs /\ tok[r].pos \in 0..Len(SeqTokens[tok[r].seq]) - 1
  BY <1>2, <1>7, RowFacts DEF Rows
<1>10. StoreSlot(r) = SlotOf(tok[r].seq, tok[r].pos)
  <2>1. dev.slots[r] = SlotOf(tok[r].seq, tok[r].pos) BY <1>7, <1>8, UploadRight DEF Rows
  <2> QED BY <2>1 DEF StoreSlot, SlotOf
<1>11. kv[r] = Cell(tok[r].seq, tok[r].pos, layer) BY <1>5
<1>12. CacheInv'
  <2> DEFINE sl == SlotOf(tok[r].seq, tok[r].pos)
             c == Cell(tok[r].seq, tok[r].pos, layer)
  <2>0. layer \in 0..Layers - 1 BY <1>5
  <2>1. cache = [l \in 0..Layers - 1 |-> [m \in Slots |-> cache[l][m]]] BY <1>2 DEF CacheInv
  <2>2. cache' = [cache EXCEPT ![layer][sl] = c] BY <1>1, <1>10, <1>11, Zenon
  <2>3. sl \in Slots BY <1>9, SlotIn
  <2>4. \A s, p : Earlier(s, p)' = Earlier(s, p) BY <1>1, SameStep
  <2>5. ASSUME NEW l \in 0..Layers - 1, NEW s \in Seqs, NEW p \in 0..Len(SeqTokens[s]) - 1,
               Earlier(s, p)' \/ Arrived(l, s, p)'
        PROVE  cache'[l][SlotOf(s, p)] = Cell(s, p, l)
    <3> DEFINE m == SlotOf(s, p)
    <3>1. m \in Slots BY SlotIn
    <3>2. CASE l = layer /\ m = sl
      <4>1. cache'[l][m] = c
        <5> HIDE DEF sl, m, c
        <5> QED BY <2>0, <2>1, <2>2, <2>3, <3>1, <3>2
      <4>2. Cell(s, p, l) = c BY <1>9, <3>2, SameCell
      <4> QED BY <4>1, <4>2
    <3>3. CASE ~(l = layer /\ m = sl)
      <4>1. cache'[l][m] = cache[l][m]
        <5> HIDE DEF sl, m, c
        <5> QED BY <2>0, <2>1, <2>2, <2>3, <3>1, <3>3
      <4>2. Earlier(s, p) \/ Arrived(l, s, p)
        <5>1. CASE Earlier(s, p)' BY <2>4, <5>1
        <5>2. CASE Arrived(l, s, p)'
          <6>1. l = layer /\ \E i \in stored \union {r} : tok[i].seq = s /\ tok[i].pos = p
            BY <1>1, <5>2 DEF Arrived
          <6>2. PICK i \in stored \union {r} : tok[i].seq = s /\ tok[i].pos = p BY <6>1
          <6>3. i # r BY <3>3, <6>1, <6>2
          <6> QED BY <1>1, <6>1, <6>2, <6>3 DEF Arrived
        <5> QED BY <2>5, <5>1, <5>2
      <4>3. cache[l][m] = Cell(s, p, l) BY <1>2, <4>2 DEF CacheInv
      <4> QED BY <4>1, <4>3
    <3> QED BY <3>2, <3>3
  <2>6. cache' = [l \in 0..Layers - 1 |-> [m \in Slots |-> cache'[l][m]]]
    <3> HIDE DEF sl, c
    <3> QED BY <2>0, <2>1, <2>2, <2>3
  <2>7. \A l \in 0..Layers - 1 : \A s \in Seqs : \A p \in 0..Len(SeqTokens[s]) - 1 :
          (Earlier(s, p) \/ Arrived(l, s, p))' => cache'[l][SlotOf(s, p)] = Cell(s, p, l)
    BY <2>5
  <2> QED BY <2>6, <2>7 DEF CacheInv
<1>13. HeadInv' BY <1>1, <1>2, HeadFrame
<1>14. DrawnInv' BY <1>1, <1>2, DrawnFrame
<1>15. AppliedInv' BY <1>1, <1>2, AppliedFrame
<1> QED BY <1>3, <1>4, <1>6, <1>12, <1>13, <1>14, <1>15 DEF PassInv

\* The kernel is launched.
LEMMA LaunchInv == ASSUME PassInv, LaunchAttention PROVE PassInv'
<1>1. /\ host = "store" /\ host' = "attend" /\ stored = Rows
      /\ UNCHANGED <<step, layer, tok, logit_rows, dev, x, kv, stored, cache>>
      /\ UNCHANGED <<logits, cursor, row, sampled, appended>>
  BY DEF LaunchAttention, inputVars, layerVars, endVars, StoreDone
<1>2. StepOK /\ HostInv /\ IndexInv /\ LayerInv /\ CacheInv /\ HeadInv /\ DrawnInv /\ AppliedInv
  BY DEF PassInv
<1>3. HostInv' BY <1>1 DEF HostInv
<1>4. StepOK' /\ IndexInv' BY <1>1, <1>2, IndexFrame
<1>5. LayerInv'
  <2>1. Rows' = Rows /\ \A s, p, l : Cell(s, p, l)' = Cell(s, p, l) BY <1>1 DEF Rows, Cell
  <2> QED BY <1>1, <1>2, <2>1 DEF LayerInv
<1>6. CacheInv' BY <1>1, <1>2, CacheFrame DEF Arrived
<1>7. HeadInv' BY <1>1, <1>2, HeadFrame
<1>8. DrawnInv' BY <1>1, <1>2, DrawnFrame
<1>9. AppliedInv' BY <1>1, <1>2, AppliedFrame
<1> QED BY <1>3, <1>4, <1>5, <1>6, <1>7, <1>8, <1>9 DEF PassInv

\* A step of a block, a window or a draw changes nothing the invariant is about.
LEMMA QuietInv ==
    ASSUME PassInv, AttentionStep \/ BeginRow \/ SampleRow \/ UNCHANGED passVars
    PROVE  PassInv'
<1>1. /\ UNCHANGED <<step, host, layer, tok, logit_rows, dev, x, kv, stored, cache>>
      /\ UNCHANGED <<logits, cursor, row, sampled, appended>>
  BY DEF AttentionStep, BeginRow, SampleRow, passVars, inputVars, layerVars, endVars
<1>2. StepOK /\ HostInv /\ IndexInv /\ LayerInv /\ CacheInv /\ HeadInv /\ DrawnInv /\ AppliedInv
  BY DEF PassInv
<1>3. HostInv' BY <1>1, <1>2 DEF HostInv
<1>4. StepOK' /\ IndexInv' BY <1>1, <1>2, IndexFrame
<1>5. LayerInv' BY <1>1, <1>2, LayerFrame
<1>6. CacheInv' BY <1>1, <1>2, CacheFrame DEF Arrived
<1>7. HeadInv' BY <1>1, <1>2, HeadFrame
<1>8. DrawnInv' BY <1>1, <1>2, DrawnFrame
<1>9. AppliedInv' BY <1>1, <1>2, AppliedFrame
<1> QED BY <1>3, <1>4, <1>5, <1>6, <1>7, <1>8, <1>9 DEF PassInv

\* The last token a cell has seen is that of its position.
LEMMA LastSeen ==
    ASSUME NEW s \in Seqs, NEW p \in 0..Len(SeqTokens[s]) - 1, NEW l
    PROVE  Last(Cell(s, p, l).seen) = SeqTokens[s][p + 1]
<1>1. SeqTokens[s] \in Seq(Int) BY TokenType
<1>2. PICK i \in 1..Len(SeqTokens[s]) : i = p + 1 BY <1>1
<1>3. CASE l = 0
  <2>1. Cell(s, p, l).seen = <<SeqTokens[s][i]>> BY <1>2, <1>3 DEF Cell
  <2> QED BY <1>2, <2>1 DEF Last
<1>4. CASE l # 0
  <2>1. Cell(s, p, l).seen = SubSeq(SeqTokens[s], 1, i) BY <1>2, <1>4 DEF Cell
  <2>2. Len(SubSeq(SeqTokens[s], 1, i)) = i /\ \A k \in 1..i : SubSeq(SeqTokens[s], 1, i)[k] = SeqTokens[s][k]
    BY <1>1, PrefixIs
  <2>3. i \in 1..i OBVIOUS
  <2>4. SubSeq(SeqTokens[s], 1, i)[Len(SubSeq(SeqTokens[s], 1, i))] = SeqTokens[s][i]
    BY <2>2, <2>3, Zenon
  <2> QED BY <1>2, <2>1, <2>4, Zenon DEF Last
<1> QED BY <1>3, <1>4

\* The cells that row i reads are those of its own sequence, whatever backend asks.
LEMMA HistoryRight ==
    ASSUME StepOK, IndexInv, CacheInv, host \in {"store", "attend"}, layer \in 0..Layers - 1,
           stored = Rows, NEW i \in Rows, NEW p \in 0..tok[i].pos
    PROVE  /\ tok[i].seq \in Seqs /\ tok[i].pos \in Nat /\ p \in 0..Len(SeqTokens[tok[i].seq]) - 1
           /\ History(i)[p] = Cell(tok[i].seq, p, layer)
<1>1. tok = flatten /\ dev = upload_step_indices(tok) BY DEF IndexInv
<1>2. tok \in Seq(Entry) BY <1>1, FlattenRight
<1>3. /\ tok[i].seq \in Seqs /\ tok[i].pos \in 0..Len(SeqTokens[tok[i].seq]) - 1
  BY <1>1, RowFacts DEF Rows
<1>4. PICK s \in Seqs : s = tok[i].seq BY <1>3
<1>5. Len(SeqTokens[s]) \in Nat BY TokenType
<1>6. tok[i].pos \in 0..Len(SeqTokens[s]) - 1 BY <1>3, <1>4, Zenon
<1>7. p \in 0..Len(SeqTokens[s]) - 1 BY <1>5, <1>6
<1>8. History(i)[p] = cache[layer][SlotOf(s, p)]
  <2>1. i \in 1..Len(tok) BY DEF Rows
  <2>2. SlotAt(dev.tables, table(dev.offset, dev.token_seq[i]), p) = SlotOf(s, p)
    BY <1>1, <1>2, <1>4, <1>7, <2>1, UploadRight
  <2>3. SlotAt(SeqTable[tok[i].seq], 0, p) = SlotOf(s, p) BY <1>4 DEF SlotOf
  <2> QED BY <2>2, <2>3 DEF History
<1>9. Earlier(s, p) \/ Arrived(layer, s, p)
  <2>1. Earlier(s, p) \/ \E j \in Rows : tok[j].seq = s /\ tok[j].pos = p
    BY <1>1, <1>4, HistoryCovered DEF Rows
  <2> QED BY <2>1 DEF Arrived
<1>10. cache[layer][SlotOf(s, p)] = Cell(s, p, layer) BY <1>7, <1>9 DEF CacheInv
<1> QED BY <1>4, <1>6, <1>7, <1>8, <1>10

\* A layer ends: every row has seen its own prefix.
LEMMA FinishInv == ASSUME PassInv, FinishLayer PROVE PassInv'
<1>1. /\ host \in {"store", "attend"} /\ host' \in {"qkv", "head"}
      /\ host = "store" => stored = Rows
      /\ x' = [i \in Rows |->
                [depth |-> layer + 1,
                 seen |-> [p \in 1..tok[i].pos + 1 |-> Last(History(i)[p - 1].seen)]]]
      /\ layer' = layer + 1
      /\ host' = IF layer + 1 < Layers THEN "qkv" ELSE "head"
      /\ UNCHANGED <<step, tok, logit_rows, dev, kv, stored, cache, logits, cursor, row, sampled, appended>>
  BY DEF FinishLayer, inputVars, endVars, StoreDone
<1>2. StepOK /\ HostInv /\ IndexInv /\ LayerInv /\ CacheInv /\ HeadInv /\ DrawnInv /\ AppliedInv
  BY DEF PassInv
<1>3. HostInv' BY <1>1 DEF HostInv
<1>4. StepOK' /\ IndexInv' BY <1>1, <1>2, IndexFrame
<1>5. layer \in 0..Layers - 1 /\ stored = Rows /\ Layers \in Nat
  BY <1>1, <1>2, ForwardPassAssumption DEF LayerInv
<1>6. ASSUME NEW i \in Rows
      PROVE  [p \in 1..tok[i].pos + 1 |-> Last(History(i)[p - 1].seen)]
             = Cell(tok[i].seq, tok[i].pos, layer + 1).seen
  <2>1. tok = flatten BY <1>1, <1>2 DEF IndexInv
  <2>2. tok[i].seq \in Seqs /\ tok[i].pos \in 0..Len(SeqTokens[tok[i].seq]) - 1
    BY <1>2, <2>1, RowFacts DEF Rows
  <2>3. PICK s \in Seqs : s = tok[i].seq BY <2>2
  <2>4. PICK q \in 0..Len(SeqTokens[s]) - 1 : q = tok[i].pos BY <2>2, <2>3
  <2>5. SeqTokens[s] \in Seq(Int) /\ Len(SeqTokens[s]) \in Nat BY TokenType
  <2>6. ASSUME NEW p \in 1..q + 1 PROVE Last(History(i)[p - 1].seen) = SeqTokens[s][p]
    <3>1. PICK m \in 0..q : m = p - 1 /\ m + 1 = p BY <2>5
    <3>2. m \in 0..Len(SeqTokens[s]) - 1 /\ History(i)[m] = Cell(s, m, layer)
      BY <1>1, <1>2, <1>5, <2>3, <2>4, HistoryRight
    <3>3. Last(Cell(s, m, layer).seen) = SeqTokens[s][m + 1] BY <3>2, LastSeen
    <3> QED BY <3>1, <3>2, <3>3, Zenon
  <2>7. SubSeq(SeqTokens[s], 1, q + 1) = [p \in 1..q + 1 |-> SeqTokens[s][p]]
    <3>1. q + 1 \in 1..Len(SeqTokens[s]) BY <2>5
    <3> QED BY <2>5, <3>1, PrefixIs
  <2>8. Cell(s, q, layer + 1).seen = SubSeq(SeqTokens[s], 1, q + 1) BY <1>5 DEF Cell
  <2>9. [p \in 1..q + 1 |-> Last(History(i)[p - 1].seen)] = [p \in 1..q + 1 |-> SeqTokens[s][p]]
    BY <2>6, Zenon
  <2> QED BY <2>3, <2>4, <2>7, <2>8, <2>9, Zenon
<1>7. LayerInv'
  <2>1. x' = [i \in Rows |-> [depth |-> layer + 1, seen |-> Cell(tok[i].seq, tok[i].pos, layer + 1).seen]]
    BY <1>1, <1>6, Zenon
  <2>2. Rows' = Rows BY <1>1 DEF Rows
  <2>3. x' = [i \in Rows' |-> [depth |-> layer', seen |-> Cell(tok'[i].seq, tok'[i].pos, layer').seen]]
    BY <1>1, <2>1, <2>2, Zenon
  <2>4. /\ host' = "qkv" => layer' \in 0..Layers - 1
        /\ host' = "head" => layer' = Layers
    BY <1>1, <1>5
  <2> QED BY <1>1, <2>3, <2>4 DEF LayerInv
<1>8. CacheInv' BY <1>1, <1>2, CacheFrame DEF Arrived
<1>9. HeadInv' BY <1>1, <1>2, HeadFrame
<1>10. DrawnInv' BY <1>1, <1>2, DrawnFrame
<1>11. AppliedInv' BY <1>1, <1>2, AppliedFrame
<1> QED BY <1>3, <1>4, <1>7, <1>8, <1>9, <1>10, <1>11 DEF PassInv

\* The head: slice k has the row of its last token.
LEMMA RunHeadInv == ASSUME PassInv, RunHead PROVE PassInv'
<1>1. /\ host = "head" /\ host' = "sample"
      /\ logits' = [r \in 1..Len(logit_rows) |-> x[logit_rows[r] + 1]]
      /\ UNCHANGED <<step, layer, tok, logit_rows, dev, x, kv, stored, cache>>
      /\ UNCHANGED <<cursor, row, sampled, appended>>
  BY DEF RunHead, inputVars, layerVars
<1>2. StepOK /\ HostInv /\ IndexInv /\ LayerInv /\ CacheInv /\ HeadInv /\ DrawnInv /\ AppliedInv
  BY DEF PassInv
<1>3. HostInv' BY <1>1 DEF HostInv
<1>4. StepOK' /\ IndexInv' BY <1>1, <1>2, IndexFrame
<1>5. LayerInv' BY <1>1 DEF LayerInv
<1>6. CacheInv' BY <1>1, <1>2, CacheFrame DEF Arrived
<1>7. HeadInv'
  <2>1. /\ tok = flatten /\ logit_rows = flatten_rows /\ Layers \in Nat \ {0}
        /\ x = [i \in Rows |-> [depth |-> Layers, seen |-> Cell(tok[i].seq, tok[i].pos, Layers).seen]]
    BY <1>1, <1>2, ForwardPassAssumption DEF IndexInv, LayerInv
  <2>2. ASSUME NEW k \in 1..Len(step), Asks(k) PROVE logits'[Rank(k)] = Result(k)
    <3>1. Len(step) \in Nat /\ step[k].start \in Nat /\ step[k].len \in Nat BY <1>2, StepType
    <3>2. Rank(k) \in 1..Rank(Len(step)) /\ LogitRows(Len(step))[Rank(k)] = RowOf(k)
      <4>1. Len(step) \in 0..Len(step) BY <3>1
      <4> QED BY <1>2, <2>2, <4>1, Ranks DEF Asks
    <3>3. logits'[Rank(k)] = x[RowOf(k) + 1]
      <4>1. Rank(k) \in 1..Len(logit_rows) BY <2>1, <3>2 DEF Rank, flatten_rows
      <4>2. logit_rows[Rank(k)] = RowOf(k) BY <2>1, <3>2 DEF flatten_rows
      <4> QED BY <1>1, <4>1, <4>2
    <3>4. PackedRight(Len(step)) BY <1>2, FlattenRight
    <3>5. PICK i \in Rows : /\ i = Len(Packed(k)) /\ tok[i].seq = step[k].seq
                            /\ tok[i].pos = step[k].start + step[k].len - 1
      BY <2>1, <3>4 DEF PackedRight, Rows, flatten
    <3>6. RowOf(k) + 1 = i
      <4>1. i \in Nat BY DEF Rows
      <4> QED BY <3>5, <4>1 DEF RowOf
    <3>7. x[i] = [depth |-> Layers, seen |-> Cell(tok[i].seq, tok[i].pos, Layers).seen] BY <2>1
    <3>8. tok[i].pos + 1 = step[k].start + step[k].len BY <3>1, <3>5
    <3>9. Cell(tok[i].seq, tok[i].pos, Layers).seen = SubSeq(SeqTokens[step[k].seq], 1, step[k].start + step[k].len)
      BY <2>1, <3>5, <3>8 DEF Cell
    <3> QED BY <3>3, <3>6, <3>7, <3>9, Zenon DEF Result
  <2>3. \A k : Rank(k)' = Rank(k) /\ Asks(k)' = Asks(k) /\ Result(k)' = Result(k) BY <1>1, SameStep
  <2> QED BY <1>1, <2>2, <2>3 DEF HeadInv
<1>8. DrawnInv' BY <1>1, <1>2, DrawnFrame
<1>9. AppliedInv' BY <1>1, <1>2, AppliedFrame
<1> QED BY <1>3, <1>4, <1>5, <1>6, <1>7, <1>8, <1>9 DEF PassInv

\* A sequence with one more element.
LEMMA OneMore ==
    ASSUME NEW q, IsSeq(q), NEW e
    PROVE  /\ Len(q) \in Nat /\ IsSeq(Append(q, e)) /\ Len(Append(q, e)) = Len(q) + 1
           /\ \A n \in 1..Len(q) : Append(q, e)[n] = q[n]
           /\ Append(q, e)[Len(q) + 1] = e
<1>1. PICK S : q \in Seq(S) BY DEF IsSeq
<1>2. q \in Seq(S \union {e})
  <2>1. Len(q) \in Nat /\ q \in [1..Len(q) -> S] BY <1>1
  <2> QED BY <2>1
<1>3. Append(q, e) \in Seq(S \union {e}) BY <1>2
<1>4. IsSeq(Append(q, e)) BY <1>3 DEF IsSeq
<1> QED BY <1>2, <1>4

\* The loops over the slices keep the row of logits in step.
LEMMA AdvanceRow ==
    ASSUME StepOK, cursor \in 1..Len(step), row = Rank(cursor - 1) + 1, Advance, step' = step
    PROVE  /\ cursor' \in 1..Len(step) + 1 /\ cursor' - 1 = cursor /\ row' = Rank(cursor) + 1
           /\ Rank(cursor) = IF Asks(cursor) THEN row ELSE Rank(cursor - 1)
<1>1. /\ Len(step) \in Nat /\ cursor' = cursor + 1
      /\ row' = IF step[cursor].needs_logits THEN row + 1 ELSE row
  BY StepType DEF Advance, NextRow
<1>2. Rank(cursor) = IF step[cursor].needs_logits THEN Rank(cursor - 1) + 1 ELSE Rank(cursor - 1)
  BY Ranks
<1>3. Rank(cursor - 1) \in Nat
  <2>1. cursor - 1 \in 0..Len(step) BY <1>1
  <2> QED BY <2>1, Ranks
<1> QED BY <1>1, <1>2, <1>3 DEF Asks

\* A row is sampled, or a slice without one is passed.
LEMMA EndRowInv == ASSUME PassInv, EndRow PROVE PassInv'
<1>1. /\ host = "sample" /\ cursor <= Len(step)
      /\ sampled' = IF step[cursor].needs_logits
                    THEN Append(sampled, [token |-> smp.token, from |-> logits[row]]) ELSE sampled
      /\ Advance
      /\ UNCHANGED <<step, host, layer, tok, logit_rows, dev, x, kv, stored, cache>>
      /\ UNCHANGED <<logits, appended>>
  BY DEF EndRow, inputVars, layerVars
<1>2. StepOK /\ HostInv /\ IndexInv /\ LayerInv /\ CacheInv /\ HeadInv /\ DrawnInv /\ AppliedInv
  BY DEF PassInv
<1>3. HostInv' BY <1>1, <1>2 DEF HostInv
<1>4. StepOK' /\ IndexInv' BY <1>1, <1>2, IndexFrame
<1>5. LayerInv' BY <1>1 DEF LayerInv
<1>6. CacheInv' BY <1>1, <1>2, CacheFrame DEF Arrived
<1>7. HeadInv' BY <1>1, <1>2, HeadFrame
<1>8. DrawnInv'
  <2>0. Len(step) \in Nat BY <1>2, StepType
  <2>1. /\ cursor \in 1..Len(step) /\ row = Rank(cursor - 1) + 1 /\ IsSeq(sampled)
        /\ Len(sampled) = Rank(cursor - 1) /\ Drawn(cursor - 1)
    BY <1>1, <1>2, <2>0 DEF DrawnInv
  <2>2. /\ cursor' \in 1..Len(step) + 1 /\ cursor' - 1 = cursor /\ row' = Rank(cursor) + 1
        /\ Rank(cursor) = IF Asks(cursor) THEN row ELSE Rank(cursor - 1)
    BY <1>1, <1>2, <2>1, AdvanceRow
  <2>3. PICK e : e = [token |-> smp.token, from |-> logits[row]] OBVIOUS
  <2>4. sampled' = IF Asks(cursor) THEN Append(sampled, e) ELSE sampled BY <1>1, <2>3 DEF Asks
  <2>5. /\ Len(sampled) \in Nat /\ IsSeq(sampled') /\ Len(sampled') = Rank(cursor)
        /\ \A n \in 1..Len(sampled) : n \in 1..Len(sampled') /\ sampled'[n] = sampled[n]
    <3>1. CASE Asks(cursor)
      <4>1. sampled' = Append(sampled, e) BY <2>4, <3>1
      <4> QED BY <2>1, <2>2, <3>1, <4>1, OneMore
    <3>2. CASE ~Asks(cursor)
      <4>1. sampled' = sampled BY <2>4, <3>2
      <4>2. Len(sampled) \in Nat BY <2>1 DEF IsSeq
      <4> QED BY <2>1, <2>2, <3>2, <4>1, <4>2
    <3> QED BY <3>1, <3>2
  <2>6. ASSUME NEW k \in 1..cursor, Asks(k)
        PROVE  Rank(k) \in 1..Len(sampled') /\ sampled'[Rank(k)].from = Result(k)
    <3>1. CASE k = cursor
      <4>1. Rank(k) = Len(sampled) + 1 /\ row = Rank(k) BY <2>1, <2>2, <2>6, <3>1
      <4>2. sampled'[Rank(k)] = e BY <2>1, <2>4, <2>6, <3>1, <4>1, OneMore
      <4>3. logits[Rank(k)] = Result(k) BY <1>1, <1>2, <2>1, <2>6, <3>1 DEF HeadInv
      <4>4. sampled'[Rank(k)].from = Result(k) BY <2>3, <4>1, <4>2, <4>3
      <4> QED BY <2>2, <2>5, <3>1, <4>1, <4>4
    <3>2. CASE k # cursor
      <4>1. k \in 1..cursor - 1 BY <2>1, <3>2
      <4>2. Rank(k) \in 1..Len(sampled) /\ sampled[Rank(k)].from = Result(k)
        BY <2>1, <2>6, <4>1 DEF Drawn
      <4> QED BY <2>5, <4>2
    <3> QED BY <3>1, <3>2
  <2>7. \A k : Rank(k)' = Rank(k) /\ Asks(k)' = Asks(k) /\ Result(k)' = Result(k) BY <1>1, SameStep
  <2>8. \A k \in 1..cursor' - 1 : Asks(k)' =>
            Rank(k)' \in 1..Len(sampled') /\ sampled'[Rank(k)'].from = Result(k)'
    BY <2>2, <2>6, <2>7
  <2>9. IsSeq(sampled)' BY <2>5 DEF IsSeq
  <2>10. Rank(cursor - 1)' = Rank(cursor) BY <2>2, <2>7
  <2> QED BY <1>1, <2>2, <2>5, <2>7, <2>8, <2>9, <2>10 DEF DrawnInv, Drawn
<1>9. AppliedInv' BY <1>1, <1>2, AppliedFrame
<1> QED BY <1>3, <1>4, <1>5, <1>6, <1>7, <1>8, <1>9 DEF PassInv

\* All rows are sampled.
LEMMA EndSamplingInv == ASSUME PassInv, EndSampling PROVE PassInv'
<1>1. /\ host = "sample" /\ cursor > Len(step) /\ host' = "apply" /\ cursor' = 1 /\ row' = 1
      /\ UNCHANGED <<step, layer, tok, logit_rows, dev, x, kv, stored, cache>>
      /\ UNCHANGED <<logits, sampled, appended>>
  BY DEF EndSampling, inputVars, layerVars
<1>2. StepOK /\ HostInv /\ IndexInv /\ LayerInv /\ CacheInv /\ HeadInv /\ DrawnInv /\ AppliedInv
  BY DEF PassInv
<1>3. HostInv' BY <1>1 DEF HostInv
<1>4. StepOK' /\ IndexInv' BY <1>1, <1>2, IndexFrame
<1>5. LayerInv' BY <1>1 DEF LayerInv
<1>6. CacheInv' BY <1>1, <1>2, CacheFrame DEF Arrived
<1>7. HeadInv' BY <1>1, <1>2, HeadFrame
<1>8. Len(step) \in Nat BY <1>2, StepType
<1>9. \A k : Rank(k)' = Rank(k) /\ Asks(k)' = Asks(k) /\ Result(k)' = Result(k) BY <1>1, SameStep
<1>10. DrawnInv'
  <2>1. cursor - 1 = Len(step) /\ Drawn(cursor - 1) /\ IsSeq(sampled)
    BY <1>1, <1>2, <1>8 DEF DrawnInv
  <2>2. Drawn(Len(step)) BY <2>1, Zenon
  <2>3. Drawn(Len(step))' BY <1>1, <1>9, <2>2 DEF Drawn
  <2>4. Rank(cursor - 1)' = 0
    <3>1. cursor' - 1 = 0 BY <1>1
    <3>2. Rank(0) = 0 BY <1>2, Ranks
    <3> QED BY <1>9, <3>1, <3>2
  <2>5. IsSeq(sampled)' BY <1>1, <2>1 DEF IsSeq
  <2>6. cursor' \in 1..Len(step') + 1 BY <1>1, <1>8
  <2> QED BY <1>1, <2>3, <2>4, <2>5, <2>6 DEF DrawnInv
<1>11. AppliedInv'
  <2>1. \A s \in Seqs : appended'[s] = <<>> BY <1>1, <1>2 DEF AppliedInv
  <2>2. 1..cursor' - 1 = {} BY <1>1
  <2>3. Given(cursor - 1)' BY <2>1, <2>2 DEF Given
  <2> QED BY <1>1, <1>2, <2>3 DEF AppliedInv
<1> QED BY <1>3, <1>4, <1>5, <1>6, <1>7, <1>10, <1>11 DEF PassInv

\* A slice takes its token; a sequence has no second slice.
LEMMA ApplySliceInv == ASSUME PassInv, ApplySlice PROVE PassInv'
<1>1. /\ host = "apply" /\ cursor <= Len(step) /\ Advance
      /\ appended' = IF step[cursor].needs_logits
                     THEN [appended EXCEPT ![step[cursor].seq] = Append(@, sampled[row])] ELSE appended
      /\ UNCHANGED <<step, host, layer, tok, logit_rows, dev, x, kv, stored, cache>>
      /\ UNCHANGED <<logits, sampled>>
  BY DEF ApplySlice, inputVars, layerVars
<1>2. StepOK /\ HostInv /\ IndexInv /\ LayerInv /\ CacheInv /\ HeadInv /\ DrawnInv /\ AppliedInv
  BY DEF PassInv
<1>3. HostInv' BY <1>1, <1>2 DEF HostInv
<1>4. StepOK' /\ IndexInv' BY <1>1, <1>2, IndexFrame
<1>5. LayerInv' BY <1>1 DEF LayerInv
<1>6. CacheInv' BY <1>1, <1>2, CacheFrame DEF Arrived
<1>7. HeadInv' BY <1>1, <1>2, HeadFrame
<1>8. \A k : Rank(k)' = Rank(k) /\ Asks(k)' = Asks(k) /\ Result(k)' = Result(k) BY <1>1, SameStep
<1>9. Len(step) \in Nat /\ cursor \in 1..Len(step) /\ row = Rank(cursor - 1) + 1
  <2>1. Len(step) \in Nat BY <1>2, StepType
  <2> QED BY <1>1, <1>2, <2>1 DEF DrawnInv
<1>10. /\ cursor' \in 1..Len(step) + 1 /\ cursor' - 1 = cursor /\ row' = Rank(cursor) + 1
       /\ Rank(cursor) = IF Asks(cursor) THEN row ELSE Rank(cursor - 1)
  BY <1>1, <1>2, <1>9, AdvanceRow
<1>11. DrawnInv'
  <2>1. Drawn(Len(step)) /\ IsSeq(sampled) BY <1>1, <1>2 DEF DrawnInv
  <2>2. Drawn(Len(step))' BY <1>1, <1>8, <2>1 DEF Drawn
  <2>3. Rank(cursor - 1)' = Rank(cursor) BY <1>8, <1>10
  <2>4. IsSeq(sampled)' BY <1>1, <2>1 DEF IsSeq
  <2> QED BY <1>1, <1>10, <2>2, <2>3, <2>4 DEF DrawnInv
<1>12. AppliedInv'
  <2> DEFINE sl == step[cursor]
             t == sampled[row]
  <2>1. /\ DOMAIN appended = Seqs /\ appended = [s \in Seqs |-> appended[s]] /\ Given(cursor - 1)
    BY <1>1, <1>2 DEF AppliedInv
  <2>2. /\ sl.seq \in Seqs
        /\ \A k \in 1..Len(step) : step[k].seq = sl.seq => k = cursor
    BY <1>2, <1>9, StepType
  <2>3. appended' = IF Asks(cursor) THEN [appended EXCEPT ![sl.seq] = Append(@, t)] ELSE appended
    BY <1>1 DEF Asks
  <2> HIDE DEF t
  <2>4. DOMAIN appended' = Seqs /\ appended' = [s \in Seqs |-> appended'[s]] BY <2>1, <2>3
  <2>5. ASSUME NEW s \in Seqs, \A k \in 1..cursor : Asks(k) => step[k].seq # s
        PROVE  appended'[s] = <<>>
    <3>1. appended[s] = <<>>
      <4>1. \A k \in 1..cursor - 1 : Asks(k) => step[k].seq # s BY <1>9, <2>5
      <4> QED BY <2>1, <4>1 DEF Given
    <3>2. ~Asks(cursor) \/ sl.seq # s
      <4>1. cursor \in 1..cursor BY <1>9
      <4> QED BY <2>5, <4>1
    <3> QED BY <2>1, <2>3, <3>1, <3>2
  <2>6. ASSUME NEW s \in Seqs, NEW k \in 1..cursor, Asks(k), step[k].seq = s
        PROVE  appended'[s] = <<sampled[Rank(k)]>>
    <3>1. CASE k = cursor
      <4>1. \A j \in 1..cursor - 1 : Asks(j) => step[j].seq # s
        <5>1. ASSUME NEW j \in 1..cursor - 1, step[j].seq = s PROVE FALSE
          <6>1. j \in 1..Len(step) /\ j # cursor BY <1>9
          <6> QED BY <2>2, <2>6, <3>1, <5>1, <6>1
        <5> QED BY <5>1
      <4>2. appended[s] = <<>> BY <2>1, <4>1 DEF Given
      <4>3. appended'[s] = Append(<<>>, t) BY <2>1, <2>2, <2>3, <2>6, <3>1, <4>2
      <4>4. t = sampled[Rank(k)] BY <1>10, <2>6, <3>1, Zenon DEF t
      <4>5. Append(<<>>, t) = <<t>> OBVIOUS
      <4> QED BY <4>3, <4>4, <4>5
    <3>2. CASE k # cursor
      <4>1. k \in 1..cursor - 1 /\ k \in 1..Len(step) BY <1>9, <3>2
      <4>2. sl.seq # s BY <2>2, <2>6, <3>2, <4>1
      <4>3. appended[s] = <<sampled[Rank(k)]>> BY <2>1, <2>6, <4>1 DEF Given
      <4> QED BY <2>1, <2>3, <4>2, <4>3
    <3> QED BY <3>1, <3>2
  <2>7. \A s \in Seqs :
          /\ (\A k \in 1..cursor' - 1 : Asks(k)' => step'[k].seq # s) => appended'[s] = <<>>
          /\ \A k \in 1..cursor' - 1 : Asks(k)' /\ step'[k].seq = s => appended'[s] = <<sampled'[Rank(k)']>>
    <3>1. 1..cursor' - 1 = 1..cursor BY <1>10, Zenon
    <3>2. \A s \in Seqs : (\A k \in 1..cursor : Asks(k)' => step'[k].seq # s) => appended'[s] = <<>>
      BY <1>1, <1>8, <2>5, Zenon
    <3>3. \A s \in Seqs : \A k \in 1..cursor :
            Asks(k)' /\ step'[k].seq = s => appended'[s] = <<sampled'[Rank(k)']>>
      <4> SUFFICES ASSUME NEW s \in Seqs, NEW k \in 1..cursor, Asks(k)', step'[k].seq = s
                   PROVE  appended'[s] = <<sampled'[Rank(k)']>>
        OBVIOUS
      <4>1. Asks(k) /\ step[k].seq = s /\ Rank(k)' = Rank(k) /\ sampled' = sampled BY <1>1, <1>8
      <4>2. appended'[s] = <<sampled[Rank(k)]>> BY <2>6, <4>1
      <4> QED BY <4>1, <4>2
    <3> QED BY <3>1, <3>2, <3>3
  <2>8. Given(cursor - 1)' BY <2>7 DEF Given
  <2> QED BY <1>1, <2>4, <2>8 DEF AppliedInv
<1> QED BY <1>3, <1>4, <1>5, <1>6, <1>7, <1>11, <1>12 DEF PassInv

\* Every slice has its token.
LEMMA EndStepInv == ASSUME PassInv, EndStep PROVE PassInv'
<1>1. /\ host = "apply" /\ cursor > Len(step) /\ host' = "done"
      /\ UNCHANGED <<step, layer, tok, logit_rows, dev, x, kv, stored, cache>>
      /\ UNCHANGED <<logits, cursor, row, sampled, appended>>
  BY DEF EndStep, inputVars, layerVars, endVars
<1>2. StepOK /\ HostInv /\ IndexInv /\ LayerInv /\ CacheInv /\ HeadInv /\ DrawnInv /\ AppliedInv
  BY DEF PassInv
<1>3. HostInv' BY <1>1 DEF HostInv
<1>4. StepOK' /\ IndexInv' BY <1>1, <1>2, IndexFrame
<1>5. LayerInv' BY <1>1 DEF LayerInv
<1>6. CacheInv' BY <1>1, <1>2, CacheFrame DEF Arrived
<1>7. HeadInv' BY <1>1, <1>2, HeadFrame
<1>8. \A k : Rank(k)' = Rank(k) /\ Asks(k)' = Asks(k) /\ Result(k)' = Result(k) BY <1>1, SameStep
<1>9. DrawnInv'
  <2>1. Drawn(Len(step))' BY <1>1, <1>2, <1>8 DEF DrawnInv, Drawn
  <2>2. IsSeq(sampled)' BY <1>1, <1>2 DEF DrawnInv, IsSeq
  <2> QED BY <1>1, <1>2, <1>8, <2>1, <2>2 DEF DrawnInv
<1>10. AppliedInv'
  <2>1. cursor = Len(step) + 1
    <3>1. Len(step) \in Nat BY <1>2, StepType
    <3> QED BY <1>1, <1>2, <3>1 DEF DrawnInv
  <2>2. Given(cursor - 1)' BY <1>1, <1>2, <1>8 DEF AppliedInv, Given
  <2> QED BY <1>1, <1>2, <2>1, <2>2 DEF AppliedInv
<1> QED BY <1>3, <1>4, <1>5, <1>6, <1>7, <1>9, <1>10 DEF PassInv

\* Every step of the pass keeps its invariant.
LEMMA PassKeeps == ASSUME PassInv, [PassNext]_passVars PROVE PassInv'
<1>1. CASE BeginForward BY <1>1, BeginForwardInv
<1>2. CASE Project BY <1>2, ProjectInv
<1>3. ASSUME NEW i \in Rows, store_kv(i) PROVE PassInv' BY <1>3, StoreInv
<1>4. CASE LaunchAttention BY <1>4, LaunchInv
<1>5. CASE AttentionStep \/ BeginRow \/ SampleRow \/ UNCHANGED passVars BY <1>5, QuietInv
<1>6. CASE FinishLayer BY <1>6, FinishInv
<1>7. CASE RunHead BY <1>7, RunHeadInv
<1>8. CASE EndRow BY <1>8, EndRowInv
<1>9. CASE EndSampling BY <1>9, EndSamplingInv
<1>10. CASE ApplySlice BY <1>10, ApplySliceInv
<1>11. CASE EndStep BY <1>11, EndStepInv
<1> QED BY <1>1, <1>2, <1>3, <1>4, <1>5, <1>6, <1>7, <1>8, <1>9, <1>10, <1>11, Zenon DEF PassNext

\* Whatever is packed beside it, in whatever order the blocks of a kernel run, whichever
\* kernel or backend computes: the token of a sequence is drawn from the row that its own
\* tokens up to the end of its slice give, and none goes to another sequence.
THEOREM LogitsAreTheSequences == PassSpec => []LogitsReachTheirSequence
<1>1. PassInit => PassInv BY PassInitInv
<1>2. PassInv /\ [PassNext]_passVars => PassInv' BY PassKeeps
<1>3. PassInv => LogitsReachTheirSequence
  <2> SUFFICES ASSUME PassInv, host = "done", NEW s \in DOMAIN appended
               PROVE  LET asked == {k \in 1..Len(step) : step[k].seq = s /\ step[k].needs_logits}
                      IN  /\ Len(appended[s]) = Cardinality(asked)
                          /\ \A k \in asked : appended[s][1].from =
                                [depth |-> Layers,
                                 seen |-> SubSeq(SeqTokens[step[k].seq], 1, step[k].start + step[k].len)]
    BY DEF LogitsReachTheirSequence
  <2> DEFINE asked == {k \in 1..Len(step) : step[k].seq = s /\ step[k].needs_logits}
  <2>1. /\ StepOK /\ s \in Seqs /\ cursor = Len(step) + 1 /\ Given(cursor - 1) /\ Drawn(Len(step))
    BY DEF PassInv, AppliedInv, DrawnInv
  <2>2. Len(step) \in Nat /\ \A k, j \in 1..Len(step) : step[j].seq = step[k].seq => j = k
    BY <2>1, StepType
  <2>3. Given(Len(step))
    <3>1. cursor - 1 = Len(step) BY <2>1, <2>2
    <3> QED BY <2>1, <3>1, Zenon
  <2>4. CASE asked = {}
    <3>1. appended[s] = <<>> BY <2>1, <2>3, <2>4 DEF Given, Asks
    <3> QED BY <2>4, <3>1, FS_EmptySet
  <2>5. CASE asked # {}
    <3>1. PICK k \in asked : TRUE BY <2>5
    <3>2. asked = {k} BY <2>2, <3>1
    <3>3. appended[s] = <<sampled[Rank(k)]>> BY <2>1, <2>3, <3>1 DEF Given, Asks
    <3>4. sampled[Rank(k)].from = Result(k) BY <2>1, <3>1 DEF Drawn, Asks
    <3>5. Cardinality({k}) = 1 BY FS_Singleton
    <3>6. Len(appended[s]) = 1 /\ appended[s][1] = sampled[Rank(k)] BY <3>3
    <3> HIDE DEF asked
    <3> QED BY <3>2, <3>4, <3>5, <3>6 DEF Result, asked
  <2> QED BY <2>4, <2>5
<1> QED BY <1>1, <1>2, <1>3, PTL DEF PassSpec

-----------------------------------------------------------------------------
(* Positions and threads: remainders and halved strides.                   *)

\* A remainder is what is left.
LEMMA RestIs ==
    ASSUME NEW S \in Nat \ {0}, NEW p \in Nat
    PROVE  /\ p % S \in 0..S - 1 /\ p \div S \in Nat
           /\ p = S * (p \div S) + (p % S)
OBVIOUS

\* And the only one.
LEMMA RestOf ==
    ASSUME NEW S \in Nat \ {0}, NEW k \in Nat, NEW r \in 0..S - 1
    PROVE  (S * k + r) % S = r
OBVIOUS

\* Modulo S the two halves of twice S fall together.
LEMMA RestHalf ==
    ASSUME NEW S \in Nat \ {0}, NEW p \in Nat, NEW t \in 0..S - 1
    PROVE  p % S = t <=> p % (2 * S) = t \/ p % (2 * S) = t + S
<1>1. PICK k \in Nat : k = p \div (2 * S) BY RestIs
<1>2. PICK r \in 0..2 * S - 1 : r = p % (2 * S)
  <2>1. 2 * S \in Nat \ {0} OBVIOUS
  <2> QED BY <2>1, RestIs
<1>3. p = (2 * S) * k + r
  <2>1. 2 * S \in Nat \ {0} OBVIOUS
  <2> QED BY <1>1, <1>2, <2>1, RestIs
<1>4. CASE r < S
  <2>1. p = S * (2 * k) + r BY <1>3
  <2>2. 2 * k \in Nat /\ r \in 0..S - 1 BY <1>4
  <2>3. (S * (2 * k) + r) % S = r BY <2>2, RestOf
  <2>4. p % S = r BY <2>1, <2>3, Zenon
  <2>5. r # t + S BY <1>4
  <2> QED BY <1>2, <2>4, <2>5, Zenon
<1>5. CASE ~(r < S)
  <2>1. p = S * (2 * k + 1) + (r - S) BY <1>3
  <2>2. 2 * k + 1 \in Nat /\ r - S \in 0..S - 1 BY <1>5
  <2>3. (S * (2 * k + 1) + (r - S)) % S = r - S BY <2>2, RestOf
  <2>4. p % S = r - S BY <2>1, <2>3, Zenon
  <2>5. r # t /\ (r - S = t <=> r = t + S) BY <1>5
  <2> QED BY <1>2, <2>4, <2>5, Zenon
<1> QED BY <1>4, <1>5

\* The next number with the same rest is S further.
LEMMA RestNext ==
    ASSUME NEW S \in Nat \ {0}, NEW n \in Nat, NEW t \in 0..S - 1, n % S = t
    PROVE  /\ (n + S) % S = t
           /\ \A p \in Nat : n < p /\ p < n + S => p % S # t
<1>1. PICK k \in Nat : k = n \div S BY RestIs
<1>2. n = S * k + t BY <1>1, RestIs
<1>3. (n + S) % S = t
  <2>1. n + S = S * (k + 1) + t BY <1>2
  <2>2. (S * (k + 1) + t) % S = t BY RestOf
  <2> QED BY <2>1, <2>2, Zenon
<1>4. ASSUME NEW p \in Nat, n < p, p < n + S PROVE p % S # t
  <2>1. PICK j \in 1..S - 1 : p = n + j
    <3>1. p - n \in 1..S - 1 /\ p = n + (p - n) BY <1>4
    <3> QED BY <3>1
  <2>2. CASE t + j < S
    <3>1. p = S * k + (t + j) BY <1>2, <2>1
    <3>2. t + j \in 0..S - 1 /\ t + j # t BY <2>2
    <3>3. (S * k + (t + j)) % S = t + j BY <3>2, RestOf
    <3> QED BY <3>1, <3>2, <3>3, Zenon
  <2>3. CASE ~(t + j < S)
    <3>1. PICK r \in 0..S - 1 : r = t + j - S
      <4>1. t + j - S \in 0..S - 1 BY <2>3
      <4> QED BY <4>1
    <3>2. p = S * (k + 1) + r BY <1>2, <2>1, <3>1
    <3>3. (S * (k + 1) + r) % S = r BY RestOf
    <3>4. r # t BY <2>1, <3>1
    <3> QED BY <3>2, <3>3, <3>4, Zenon
  <2> QED BY <2>2, <2>3
<1> QED BY <1>3, <1>4

\* Halving, turn by turn.
LEMMA HalvedIs ==
    ASSUME NEW k \in Nat \ {0}
    PROVE  /\ Halved(k, 0) = k
           /\ \A i \in 0..k : Halved(k, i) \in Nat
           /\ \A i \in 1..k : Halved(k, i) = Halved(k, i - 1) \div 2
<1> DEFINE G == [p \in (1..k) \X Nat |-> p[2] \div 2]
           f[i \in 0..k] == IF i = 0 THEN k ELSE f[i - 1] \div 2
<1>1. G \in [(1..k) \X Nat -> Nat]
  <2>1. \A p \in (1..k) \X Nat : p[2] \in Nat OBVIOUS
  <2>2. \A n \in Nat : n \div 2 \in Nat OBVIOUS
  <2> QED BY <2>1, <2>2
<1>2. PICK g \in [0..k -> Nat] : Runs(g, k, k, G)
  <2> HIDE DEF G
  <2> QED BY <1>1, LoopRuns
<1>3. \A i \in 1..k : g[i] = g[i - 1] \div 2
  <2> SUFFICES ASSUME NEW i \in 1..k PROVE g[i] = g[i - 1] \div 2 OBVIOUS
  <2>1. <<i, g[i - 1]>> \in (1..k) \X Nat BY <1>2
  <2> QED BY <1>2, <2>1 DEF Runs
<1>4. g = [i \in 0..k |-> IF i = 0 THEN k ELSE g[i - 1] \div 2]
  <2>1. \A i \in 0..k : i # 0 => i \in 1..k OBVIOUS
  <2> HIDE DEF G
  <2> QED BY <1>2, <1>3, <2>1 DEF Runs
<1>5. f = [i \in 0..k |-> IF i = 0 THEN k ELSE f[i - 1] \div 2]
  <2>1. \E h : h = [i \in 0..k |-> IF i = 0 THEN k ELSE h[i - 1] \div 2] BY <1>4
  <2> QED BY <2>1
<1>6. \A i : Halved(k, i) = f[i] BY DEF Halved
<1> HIDE DEF f, G
<1>7. \A i \in 1..k : i \in 0..k /\ i # 0 OBVIOUS
<1>8. f[0] = k /\ \A i \in 1..k : f[i] = f[i - 1] \div 2 BY <1>5, <1>7
<1>9. \A i \in 0..k : f[i] \in Nat
  <2> DEFINE T == {i \in 0..k : f[i] \in Nat}
  <2>1. 0 \in T BY <1>8
  <2>2. ASSUME NEW i \in 1..k, i - 1 \in T PROVE i \in T
    <3>1. PICK v \in Nat : v = f[i - 1] BY <2>2
    <3>2. v \div 2 \in Nat OBVIOUS
    <3>3. f[i] = v \div 2 BY <1>8, <3>1, Zenon
    <3> QED BY <3>2, <3>3
  <2>3. \A i \in 0..k : i \in T
    <3> HIDE DEF T
    <3> QED BY <2>1, <2>2, UpTo
  <2> QED BY <2>3
<1> QED BY <1>6, <1>8, <1>9, Zenon


\* A power of two is halved down to one, and a rest never falls off.
LEMMA PowerHalves ==
    ASSUME NEW k \in Nat \ {0}, PowerOfTwo(k)
    PROVE  /\ Rounds(k) \in 0..k /\ Halved(k, Rounds(k)) = 1
           /\ \A i \in 0..Rounds(k) : Halved(k, i) \in Nat \ {0}
           /\ \A i \in 1..Rounds(k) : Halved(k, i - 1) = 2 * Halved(k, i)
<1> DEFINE H(i) == Halved(k, i)
<1>1. H(0) = k /\ (\A i \in 0..k : H(i) \in Nat) /\ \A i \in 1..k : H(i) = H(i - 1) \div 2
  BY HalvedIs
<1>2. PICK n \in 0..k : H(n) = 1 /\ \A i \in 0..n - 1 : H(i) % 2 = 0 BY DEF PowerOfTwo
<1>3. Rounds(k) \in 0..k /\ H(Rounds(k)) = 1 BY <1>2 DEF Rounds
<1> HIDE DEF H
\* Zero stays zero.
<1>4. ASSUME NEW i \in 0..k, H(i) = 0, NEW j \in i..k PROVE H(j) = 0
  <2> DEFINE T == {m \in 0..k : m >= i => H(m) = 0}
  <2>1. 0 \in T
    <3>1. 0 >= i => i = 0 OBVIOUS
    <3> QED BY <1>4, <3>1
  <2>2. ASSUME NEW m \in 1..k, m - 1 \in T PROVE m \in T
    <3>1. CASE m - 1 >= i
      <4>1. H(m - 1) = 0 BY <2>2, <3>1
      <4>2. H(m) = 0 \div 2 BY <1>1, <4>1, Zenon
      <4> QED BY <4>2
    <3>2. CASE ~(m - 1 >= i)
      <4>1. m >= i => m = i BY <3>2
      <4> QED BY <1>4, <4>1
    <3> QED BY <3>1, <3>2
  <2>3. \A m \in 0..k : m \in T
    <3> HIDE DEF T
    <3> QED BY <2>1, <2>2, UpTo
  <2> QED BY <2>3
<1>5. Rounds(k) = n
  <2>1. CASE Rounds(k) < n
    <3>1. Rounds(k) \in 0..n - 1 BY <1>3, <2>1
    <3>2. 1 % 2 = 0 BY <1>2, <1>3, <3>1, Zenon
    <3> QED BY <3>2
  <2>2. CASE Rounds(k) > n
    <3>1. n + 1 \in 0..k /\ n + 1 \in 1..k /\ Rounds(k) \in n + 1..k /\ (n + 1) - 1 = n
      BY <1>3, <2>2
    <3>2. H(n + 1) = 1 \div 2 BY <1>1, <1>2, <3>1, Zenon
    <3>3. H(n + 1) = 0 BY <3>2
    <3>4. H(Rounds(k)) = 0 BY <1>4, <3>1, <3>3
    <3> QED BY <1>3, <3>4
  <2> QED BY <1>3, <2>1, <2>2
<1>6. ASSUME NEW i \in 0..n PROVE H(i) \in Nat \ {0}
  <2>1. i \in 0..k /\ n \in i..k OBVIOUS
  <2>2. CASE H(i) = 0
    <3>1. H(n) = 0 BY <1>4, <2>1, <2>2
    <3> QED BY <1>2, <3>1
  <2> QED BY <1>1, <2>1, <2>2
<1>7. ASSUME NEW i \in 1..n PROVE H(i - 1) = 2 * H(i)
  <2>1. i \in 1..k /\ i - 1 \in 0..n - 1 /\ i - 1 \in 0..k OBVIOUS
  <2>2. PICK a \in Nat : a = H(i - 1) BY <1>1, <2>1
  <2>3. a % 2 = 0 BY <1>2, <2>1, <2>2, Zenon
  <2>4. H(i) = a \div 2 BY <1>1, <2>1, <2>2, Zenon
  <2>5. a = 2 * (a \div 2) BY <2>3
  <2> QED BY <2>2, <2>4, <2>5, Zenon
<1> QED BY <1>3, <1>5, <1>6, <1>7, Zenon DEF H

\* Each of the halves divides it.
LEMMA HalvesDivide ==
    ASSUME NEW k \in Nat \ {0}, PowerOfTwo(k), NEW n \in 0..Rounds(k)
    PROVE  \E c \in Nat \ {0} : k = Halved(k, n) * c
<1> DEFINE R == Rounds(k)
           T == {i \in 0..R : \E c \in Nat \ {0} : k = Halved(k, i) * c}
<1>1. /\ R \in Nat /\ Halved(k, 0) = k /\ \A i \in 0..R : Halved(k, i) \in Nat \ {0}
      /\ \A i \in 1..R : Halved(k, i - 1) = 2 * Halved(k, i)
  BY PowerHalves, HalvedIs
<1> HIDE DEF R
<1>2. 0 \in T
  <2>1. k = k * 1 OBVIOUS
  <2> QED BY <1>1, <2>1
<1>3. ASSUME NEW i \in 1..R, i - 1 \in T PROVE i \in T
  <2>1. PICK c \in Nat \ {0} : k = Halved(k, i - 1) * c BY <1>3
  <2>2. i \in 0..R BY <1>1
  <2>3. PICK a \in Nat : a = Halved(k, i) BY <1>1, <2>2
  <2>4. k = (2 * a) * c BY <1>1, <2>1, <2>3, Zenon
  <2>5. k = a * (2 * c) /\ 2 * c \in Nat \ {0} BY <2>4
  <2> QED BY <2>2, <2>3, <2>5
<1>4. \A i \in 0..R : i \in T
  <2> HIDE DEF T
  <2> QED BY <1>1, <1>2, <1>3, UpTo
<1> QED BY <1>4 DEF R

\* Below S * c the quotient by S is below c.
LEMMA QuotientBelow ==
    ASSUME NEW S \in Nat \ {0}, NEW c \in Nat, NEW p \in Nat, p < S * c
    PROVE  p \div S \in 0..c - 1
<1>1. PICK a \in Nat : a = p \div S BY RestIs
<1>2. p = S * a + (p % S) /\ p % S \in 0..S - 1 BY <1>1, RestIs
<1>3. ASSUME a >= c PROVE FALSE
  <2>1. PICK e \in Nat : a = c + e
    <3>1. a - c \in Nat /\ a = c + (a - c) BY <1>3
    <3> QED BY <3>1
  <2>2. S * a = S * c + S * e BY <2>1
  <2>3. S * e \in Nat /\ S * c \in Nat OBVIOUS
  <2> QED BY <1>2, <2>2, <2>3
<1> QED BY <1>1, <1>3

\* The two lanes that add up, modulo twice their distance.
LEMMA PartnerIs ==
    ASSUME NEW off \in Nat \ {0}, NEW c \in Nat, NEW i \in 0..(2 * off) * c - 1
    PROVE  /\ Partner(i, off) \in 0..(2 * off) * c - 1
           /\ \/ i % (2 * off) = i % off /\ Partner(i, off) % (2 * off) = (i % off) + off
              \/ i % (2 * off) = (i % off) + off /\ Partner(i, off) % (2 * off) = i % off
<1>1. PICK D \in Nat \ {0} : D = 2 * off
  <2>1. 2 * off \in Nat \ {0} OBVIOUS
  <2> QED BY <2>1
<1>0. PICK M \in Nat : M = D * c
  <2>1. D * c \in Nat OBVIOUS
  <2> QED BY <2>1
<1>10. i \in 0..M - 1 BY <1>0, <1>1, Zenon
<1>2. PICK a \in Nat : a = i \div D
  <2>1. i \in Nat BY <1>10
  <2> QED BY <2>1, RestIs
<1>3. PICK r \in 0..D - 1 : r = i % D BY <1>10, RestIs
<1>4. i = D * a + r BY <1>10, <1>2, <1>3, RestIs
<1>5. a \in 0..c - 1
  <2>1. i \in Nat /\ i < M BY <1>10
  <2> QED BY <1>0, <1>2, <2>1, QuotientBelow
<1>6. PICK e \in Nat : c = a + 1 + e
  <2>1. c - a - 1 \in Nat /\ c = a + 1 + (c - a - 1) BY <1>5
  <2> QED BY <2>1
<1>7. M = D * a + D + D * e /\ D * e \in Nat /\ D * a \in Nat BY <1>0, <1>6
<1>8. CASE r < off
  <2>1. i = off * (2 * a) + r /\ 2 * a \in Nat /\ r \in 0..off - 1 BY <1>1, <1>4, <1>8
  <2>2. (off * (2 * a) + r) % off = r BY <2>1, RestOf
  <2>3. i % off = r BY <2>1, <2>2, Zenon
  <2>4. i \div off = 2 * a
    <3>1. PICK b \in Nat : b = i \div off BY <2>1, RestIs
    <3>2. off * b + r = off * (2 * a) + r BY <2>1, <2>3, <3>1, RestIs
    <3>3. off * b = off * (2 * a) BY <3>2
    <3>4. b = 2 * a BY <3>3
    <3> QED BY <3>1, <3>4
  <2>5. (2 * a) % 2 = 0 OBVIOUS
  <2>6. Partner(i, off) = i + off BY <2>4, <2>5 DEF Partner
  <2>7. i + off = D * a + (r + off) /\ r + off \in 0..D - 1 BY <1>1, <1>4, <1>8
  <2>8. (D * a + (r + off)) % D = r + off BY <2>7, RestOf
  <2>9. i + off \in 0..M - 1 BY <1>7, <2>7
  <2> QED BY <1>3, <2>3, <2>6, <2>7, <2>8, <2>9, <1>0, <1>1, Zenon
<1>9. CASE ~(r < off)
  <2>1. PICK z \in 0..off - 1 : r = z + off
    <3>1. r - off \in 0..off - 1 /\ r = (r - off) + off BY <1>1, <1>9
    <3> QED BY <3>1
  <2>2. i = off * (2 * a + 1) + z /\ 2 * a + 1 \in Nat BY <1>1, <1>4, <2>1
  <2>3. (off * (2 * a + 1) + z) % off = z BY <2>2, RestOf
  <2>4. i % off = z BY <2>2, <2>3, Zenon
  <2>5. i \div off = 2 * a + 1
    <3>1. PICK b \in Nat : b = i \div off BY <2>2, RestIs
    <3>2. off * b + z = off * (2 * a + 1) + z BY <2>2, <2>4, <3>1, RestIs
    <3>3. off * b = off * (2 * a + 1) BY <3>2
    <3>4. b = 2 * a + 1 BY <3>3
    <3> QED BY <3>1, <3>4
  <2>6. (2 * a + 1) % 2 = 1 OBVIOUS
  <2>7. Partner(i, off) = i - off BY <2>5, <2>6 DEF Partner
  <2>8. i - off = D * a + z /\ z \in 0..D - 1 BY <1>1, <1>4, <2>1
  <2>9. (D * a + z) % D = z BY <2>8, RestOf
  <2>10. i - off \in 0..M - 1 BY <1>7, <2>8
  <2> QED BY <1>3, <2>1, <2>4, <2>7, <2>8, <2>9, <2>10, <1>0, <1>1, Zenon
<1> QED BY <1>8, <1>9

-----------------------------------------------------------------------------
(* Sums.  A running (max, sum, accumulator) is the sum over a set of       *)
(* positions if its terms are those positions in some order, each with its *)
(* exponent relative to the largest weight.                                *)

\* q lists the elements of P, each once.
Lists(q, P) ==
    /\ q \in Seq(P)
    /\ \A p \in P : \E i \in 1..Len(q) : q[i] = p
    /\ \A i, j \in 1..Len(q) : q[i] = q[j] => i = j

\* m is the largest weight in P.
Top(m, w, P) ==
    IF P = {} THEN m = NegMax ELSE \E p \in P : m = w[p] /\ \A r \in P : w[r] <= m

\* The terms in the order of q, with their exponents relative to m.
Relative(q, w, v, m) ==
    [m |-> m, l |-> [i \in 1..Len(q) |-> <<1, w[q[i]] - m>>],
     acc |-> [i \in 1..Len(q) |-> <<v[q[i]], w[q[i]] - m>>]]

Sums(part, w, v, P) ==
    \E q \in Seq(P) : Lists(q, P) /\ Top(part.m, w, P) /\ part = Relative(q, w, v, part.m)

\* The empty list, and that of one element.
LEMMA ListsFew == /\ Lists(<<>>, {}) /\ \A p : Lists(<<p>>, {p})
<1>1. Lists(<<>>, {}) BY DEF Lists
<1>2. ASSUME NEW p PROVE Lists(<<p>>, {p})
  <2>1. <<p>> \in Seq({p}) /\ Len(<<p>>) = 1 /\ <<p>>[1] = p OBVIOUS
  <2> QED BY <2>1 DEF Lists
<1> QED BY <1>1, <1>2

\* Lists of disjoint sets are joined.
LEMMA ListsJoin ==
    ASSUME NEW P, NEW Q, P \cap Q = {}, NEW q, NEW r, Lists(q, P), Lists(r, Q)
    PROVE  Lists(q \o r, P \union Q)
<1>1. q \in Seq(P) /\ r \in Seq(Q) BY DEF Lists
<1>2. q \in Seq(P \union Q) /\ r \in Seq(P \union Q)
  <2>1. \A S, T : \A z \in Seq(S) : S \subseteq T => z \in Seq(T) OBVIOUS
  <2> QED BY <1>1, <2>1
<1>3. PICK m \in Nat, n \in Nat : m = Len(q) /\ n = Len(r) BY <1>1
<1>4. /\ q \o r \in Seq(P \union Q) /\ Len(q \o r) = m + n
      /\ \A i \in 1..m : (q \o r)[i] = q[i]
      /\ \A i \in m + 1..m + n : (q \o r)[i] = r[i - m]
  BY <1>2, <1>3
<1>5. (\A i \in 1..m : q[i] \in P) /\ \A i \in 1..n : r[i] \in Q BY <1>1, <1>3
<1>6. /\ \A p \in P : \E i \in 1..m : q[i] = p
      /\ \A p \in Q : \E i \in 1..n : r[i] = p
      /\ \A i, j \in 1..m : q[i] = q[j] => i = j
      /\ \A i, j \in 1..n : r[i] = r[j] => i = j
  BY <1>3 DEF Lists
<1> DEFINE z == q \o r
<1> HIDE DEF z
<1>7. \A i \in m + 1..m + n : i - m \in 1..n /\ i = (i - m) + m BY <1>3
<1>8. \A p \in P \union Q : \E i \in 1..m + n : z[i] = p
  <2>1. ASSUME NEW p \in P PROVE \E i \in 1..m + n : z[i] = p
    <3>1. PICK i \in 1..m : q[i] = p BY <1>6
    <3>2. i \in 1..m + n BY <1>3
    <3> QED BY <1>4, <3>1, <3>2 DEF z
  <2>2. ASSUME NEW p \in Q PROVE \E i \in 1..m + n : z[i] = p
    <3>1. PICK i \in 1..n : r[i] = p BY <1>6
    <3>2. PICK k \in m + 1..m + n : k = i + m BY <1>3
    <3>3. k - m = i BY <1>3, <3>2
    <3>4. k \in 1..m + n BY <1>3
    <3>5. z[k] = r[i] BY <1>4, <3>3, Zenon DEF z
    <3> QED BY <3>1, <3>4, <3>5
  <2> QED BY <2>1, <2>2
<1>9. ASSUME NEW i \in 1..m + n, NEW j \in 1..m + n, z[i] = z[j] PROVE i = j
  <2>1. (i \in 1..m \/ i \in m + 1..m + n) /\ (j \in 1..m \/ j \in m + 1..m + n) BY <1>3
  <2>2. CASE i \in 1..m /\ j \in 1..m
    <3>1. z[i] = q[i] /\ z[j] = q[j] BY <1>4, <2>2, SMTT(30) DEF z
    <3> QED BY <1>6, <1>9, <2>2, <3>1
  <2>3. CASE i \in m + 1..m + n /\ j \in m + 1..m + n
    <3>1. z[i] = r[i - m] /\ z[j] = r[j - m] BY <1>4, <2>3 DEF z
    <3>2. i - m \in 1..n /\ j - m \in 1..n BY <1>7, <2>3
    <3>3. i - m = j - m BY <1>6, <1>9, <3>1, <3>2
    <3> QED BY <1>3, <2>3, <3>3
  <2>4. CASE i \in 1..m /\ j \in m + 1..m + n
    <3>1. z[i] = q[i] /\ z[j] = r[j - m] BY <1>4, <2>4 DEF z
    <3>2. j - m \in 1..n BY <1>7, <2>4
    <3>3. z[i] \in P /\ z[j] \in Q BY <1>5, <2>4, <3>1, <3>2
    <3> QED BY <1>9, <3>3
  <2>5. CASE i \in m + 1..m + n /\ j \in 1..m
    <3>1. z[i] = r[i - m] /\ z[j] = q[j] BY <1>4, <2>5 DEF z
    <3>2. i - m \in 1..n BY <1>7, <2>5
    <3>3. z[i] \in Q /\ z[j] \in P BY <1>5, <2>5, <3>1, <3>2
    <3> QED BY <1>9, <3>3
  <2> QED BY <2>1, <2>2, <2>3, <2>4, <2>5
<1>10. z \in Seq(P \union Q) /\ Len(z) = m + n BY <1>4 DEF z
<1> QED BY <1>8, <1>9, <1>10 DEF Lists, z

\* F of every element of z.
Image(F, z) == [i \in 1..Len(z) |-> F[z[i]]]

\* How often g takes each value on P.
Counts(g, P) == [e \in {g[p] : p \in P} |-> Cardinality({p \in P : g[p] = e})]

\* What a list of P is as a bag does not depend on its order.
LEMMA BagOf ==
    ASSUME NEW P, NEW q, Lists(q, P), NEW g
    PROVE  ToBag(Image(g, q)) = Counts(g, P)
<1> DEFINE s == Image(g, q)
<1>1. q \in Seq(P) /\ Len(q) \in Nat /\ \A i \in 1..Len(q) : q[i] \in P BY DEF Lists
<1>2. DOMAIN s = 1..Len(q) /\ \A i \in 1..Len(q) : s[i] = g[q[i]] BY DEF Image
<1> HIDE DEF s
<1>3. Range(s) = {g[p] : p \in P}
  <2>1. Range(s) = {s[i] : i \in DOMAIN s} BY DEF Range
  <2>2. \A p \in P : \E i \in 1..Len(q) : q[i] = p BY DEF Lists
  <2>3. ASSUME NEW p \in P PROVE g[p] \in Range(s)
    <3>1. PICK i \in 1..Len(q) : q[i] = p BY <2>2
    <3>2. i \in DOMAIN s /\ s[i] = g[p] BY <1>2, <3>1
    <3> QED BY <2>1, <3>2
  <2>4. ASSUME NEW e \in Range(s) PROVE e \in {g[p] : p \in P}
    <3>1. PICK i \in DOMAIN s : s[i] = e BY <2>1
    <3>2. q[i] \in P /\ e = g[q[i]] BY <1>1, <1>2, <3>1
    <3> QED BY <3>2
  <2> QED BY <2>3, <2>4
<1>4. ASSUME NEW e PROVE Cardinality({i \in DOMAIN s : s[i] = e}) = Cardinality({p \in P : g[p] = e})
  <2> DEFINE I == {i \in DOMAIN s : s[i] = e}
             J == {p \in P : g[p] = e}
             f == [i \in I |-> q[i]]
  <2>1. I \subseteq 1..Len(q) BY <1>2
  <2>2. IsFiniteSet(I)
    <3>1. IsFiniteSet(1..Len(q)) BY <1>1, FS_Interval
    <3> QED BY <2>1, <3>1, FS_Subset
  <2>3. f \in [I -> J] BY <1>1, <1>2
  <2>4. \A i, j \in I : f[i] = f[j] => i = j BY <1>2 DEF Lists
  <2>5. \A p \in J : \E i \in I : f[i] = p
    <3> SUFFICES ASSUME NEW p \in J PROVE \E i \in I : f[i] = p OBVIOUS
    <3>1. PICK i \in 1..Len(q) : q[i] = p BY DEF Lists
    <3>2. i \in I BY <1>2, <3>1
    <3> QED BY <3>1, <3>2
  <2> HIDE DEF I, J, f
  <2>6. f \in Bijection(I, J)
    BY <2>3, <2>4, <2>5 DEF Bijection, Injection, Surjection, IsInjective
  <2>7. Cardinality(J) = Cardinality(I) BY <2>2, <2>6, FS_Bijection DEF ExistsBijection
  <2> QED BY <2>7 DEF I, J
<1>5. ToBag(s) = [e \in Range(s) |-> Cardinality({p \in P : g[p] = e})] BY <1>4 DEF ToBag
<1> QED BY <1>3, <1>5 DEF s, Counts

\* As a bag, a list of P is P.
LEMMA BagOfSet == ASSUME NEW P, NEW q, Lists(q, P) PROVE ToBag(q) = [p \in P |-> 1]
<1> DEFINE g == [p \in P |-> p]
<1>1. q \in Seq(P) /\ \A i \in 1..Len(q) : g[q[i]] = q[i] BY DEF Lists
<1>2. Image(g, q) = q BY <1>1 DEF Image
<1>3. {g[p] : p \in P} = P OBVIOUS
<1>4. \A e \in P : {p \in P : g[p] = e} = {e} OBVIOUS
<1> HIDE DEF g
<1>5. ToBag(q) = [e \in P |-> Cardinality({p \in P : g[p] = e})]
  <2>1. ToBag(Image(g, q)) = Counts(g, P) BY BagOf
  <2> QED BY <1>2, <1>3, <2>1, Zenon DEF Counts
<1>6. \A e \in P : Cardinality({p \in P : g[p] = e}) = 1 BY <1>4, FS_Singleton
<1> QED BY <1>5, <1>6

-----------------------------------------------------------------------------
(* The butterfly of a warp.                                                *)

\* What a lane lists at the start: its dpl dimensions.
LaneList(dpl, i) == [d \in 1..dpl |-> i * dpl + d - 1]
LaneSet(dpl, w, i) == {d \in 0..dpl * w - 1 : d \div dpl = i}

\* The elements of D whose f leaves t modulo S.
Rest(D, f, S, t) == {d \in D : f[d] % S = t}

\* A lane lists each of its dimensions once.
LEMMA LaneDims ==
    ASSUME NEW w \in Nat \ {0}, NEW dpl \in Nat \ {0}, NEW i \in 0..w - 1
    PROVE  Lists(LaneList(dpl, i), LaneSet(dpl, w, i))
<1> DEFINE q == LaneList(dpl, i)
           P == LaneSet(dpl, w, i)
<1>0. P = {d \in 0..dpl * w - 1 : d \div dpl = i} BY DEF LaneSet
<1>1. PICK e \in Nat : w = i + 1 + e
  <2>1. w - i - 1 \in Nat /\ w = i + 1 + (w - i - 1) OBVIOUS
  <2> QED BY <2>1
<1>2. PICK base \in Nat, M \in Nat : base = dpl * i /\ M = dpl * w
  <2>1. dpl * i \in Nat /\ dpl * w \in Nat OBVIOUS
  <2> QED BY <2>1
<1>3. base + dpl <= M
  <2>1. dpl * w = dpl * i + dpl + dpl * e /\ dpl * e \in Nat BY <1>1
  <2> QED BY <1>2, <2>1
<1>4. \A r \in 0..dpl - 1 : base + r \in Nat /\ (base + r) \div dpl = i
  <2> SUFFICES ASSUME NEW r \in 0..dpl - 1 PROVE base + r \in Nat /\ (base + r) \div dpl = i OBVIOUS
  <2>1. (dpl * i + r) % dpl = r BY RestOf
  <2>2. PICK p \in Nat : p = base + r BY <1>2
  <2>3. p % dpl = r BY <1>2, <2>1, <2>2, Zenon
  <2>4. PICK k \in Nat : k = p \div dpl BY RestIs
  <2>5. p = dpl * k + r BY <2>3, <2>4, RestIs
  <2>6. dpl * k = dpl * i BY <1>2, <2>2, <2>5
  <2>7. k = i BY <2>6
  <2> QED BY <2>2, <2>4, <2>7
<1>5. i * dpl = base BY <1>2
<1>6. q = [d \in 1..dpl |-> base + d - 1] BY <1>5 DEF LaneList
<1> HIDE DEF q, P
<1>7. Len(q) = dpl /\ DOMAIN q = 1..dpl /\ \A d \in 1..dpl : q[d] = base + d - 1 BY <1>6
<1>8. \A d \in 1..dpl : q[d] \in P
  <2> SUFFICES ASSUME NEW d \in 1..dpl PROVE q[d] \in P OBVIOUS
  <2>1. PICK r \in 0..dpl - 1 : r = d - 1
    <3>1. d - 1 \in 0..dpl - 1 OBVIOUS
    <3> QED BY <3>1
  <2>2. q[d] = base + r BY <1>7, <2>1
  <2>3. base + r \in 0..M - 1 BY <1>3
  <2> QED BY <1>0, <1>2, <1>4, <2>2, <2>3
<1>9. \A d \in P : \E j \in 1..dpl : q[j] = d
  <2> SUFFICES ASSUME NEW d \in P PROVE \E j \in 1..dpl : q[j] = d OBVIOUS
  <2>1. d \in 0..M - 1 /\ d \div dpl = i BY <1>0, <1>2, Zenon
  <2>2. d \in Nat BY <2>1
  <2>3. d = dpl * i + (d % dpl) /\ d % dpl \in 0..dpl - 1 BY <2>1, <2>2, RestIs
  <2>4. PICK r \in 0..dpl - 1 : r = d % dpl BY <2>3
  <2>5. d = base + r BY <1>2, <2>3, <2>4
  <2>6. r + 1 \in 1..dpl /\ base + (r + 1) - 1 = base + r BY <2>4
  <2> QED BY <1>7, <2>5, <2>6
<1>10. \A a, b \in 1..dpl : q[a] = q[b] => a = b BY <1>7
<1>11. q \in Seq(P)
  <2>1. q = [d \in 1..dpl |-> q[d]] BY <1>6, <1>7, Zenon
  <2>2. q \in [1..dpl -> P] BY <1>8, <2>1
  <2>3. dpl \in Nat OBVIOUS
  <2> QED BY <2>2, <2>3, SeqDef
<1>12. Lists(q, P) BY <1>7, <1>9, <1>10, <1>11 DEF Lists
<1> QED BY <1>12 DEF q, P

\* A round joins what two lanes hold.
LEMMA RoundJoins ==
    ASSUME NEW D, NEW f, NEW S \in Nat \ {0}, NEW c \in Nat, NEW i \in 0..(2 * S) * c - 1,
           \A d \in D : f[d] \in Nat,
           NEW v, \A j \in 0..(2 * S) * c - 1 : Lists(v[j], Rest(D, f, 2 * S, j % (2 * S)))
    PROVE  Lists(v[i] \o v[Partner(i, S)], Rest(D, f, S, i % S))
<1> DEFINE Cl(t) == Rest(D, f, 2 * S, t)
<1>1. PICK M \in Nat : M = (2 * S) * c
  <2>1. PICK b \in Nat : b = 2 * S OBVIOUS
  <2>2. b * c \in Nat OBVIOUS
  <2> QED BY <2>1, <2>2
<1>2. i \in 0..M - 1 BY <1>1, Zenon
<1>3. PICK t \in 0..S - 1 : t = i % S
  <2>1. i \in Nat BY <1>2
  <2> QED BY <2>1, RestIs
<1>4. PICK j \in 0..M - 1 : j = Partner(i, S) BY <1>1, PartnerIs, Zenon
<1>5. \/ i % (2 * S) = t /\ j % (2 * S) = t + S
      \/ i % (2 * S) = t + S /\ j % (2 * S) = t
  BY <1>3, <1>4, PartnerIs, Zenon
<1>6. Lists(v[i], Cl(i % (2 * S))) /\ Lists(v[j], Cl(j % (2 * S))) BY <1>1, <1>2, Zenon
<1>7. Cl(t) \cap Cl(t + S) = {}
  <2>1. t # t + S OBVIOUS
  <2> QED BY <2>1 DEF Rest
<1>8. Cl(t) \union Cl(t + S) = Rest(D, f, S, t)
  <2>1. \A d \in D : f[d] % S = t <=> f[d] % (2 * S) = t \/ f[d] % (2 * S) = t + S BY RestHalf
  <2> QED BY <2>1, Zenon DEF Rest
<1> HIDE DEF Cl
<1>9. Lists(v[i] \o v[j], Cl(t) \union Cl(t + S))
  <2>1. CASE i % (2 * S) = t /\ j % (2 * S) = t + S
    <3>1. Lists(v[i], Cl(t)) /\ Lists(v[j], Cl(t + S)) BY <1>6, <2>1, Zenon
    <3> QED BY <1>7, <3>1, ListsJoin
  <2>2. CASE i % (2 * S) = t + S /\ j % (2 * S) = t
    <3>1. Lists(v[i], Cl(t + S)) /\ Lists(v[j], Cl(t)) BY <1>6, <2>2, Zenon
    <3>2. Lists(v[i] \o v[j], Cl(t + S) \union Cl(t)) BY <1>7, <3>1, ListsJoin
    <3>3. Cl(t + S) \union Cl(t) = Cl(t) \union Cl(t + S) OBVIOUS
    <3> QED BY <3>2, <3>3
  <2> QED BY <1>5, <2>1, <2>2
<1> QED BY <1>3, <1>4, <1>8, <1>9, Zenon

\* After the butterfly a lane lists every dimension once.
LEMMA WarpListsDims == ASSUME HeadDim % KWarp = 0 PROVE Lists(WarpDims, Dims)
<1> DEFINE dpl == HeadDim \div KWarp
           v == [i \in 0..KWarp - 1 |-> LaneList(dpl, i)]
           V == [0..KWarp - 1 -> Seq(Int)]
           R == Rounds(KWarp)
           Off(n) == Halved(KWarp, n)
           G == [p \in (1..R) \X V |->
                    [i \in 0..KWarp - 1 |-> p[2][i] \o p[2][Partner(i, Off(p[1]))]]]
           round[n \in 0..R] ==
               IF n = 0 THEN v
               ELSE [i \in 0..KWarp - 1 |-> round[n - 1][i] \o round[n - 1][Partner(i, Off(n))]]
           f == [d \in Dims |-> d \div dpl]
           Cl(n, i) == Rest(Dims, f, Off(n), i % Off(n))
<1>0. WarpDims = round[R][0] BY DEF WarpDims, warp_all_sum, LaneList
<1>1. KWarp \in Nat \ {0} /\ HeadDim \in Nat \ {0} /\ PowerOfTwo(KWarp)
  BY AttentionAssumption
<1>2. /\ R \in 0..KWarp /\ Off(R) = 1 /\ Off(0) = KWarp
      /\ \A n \in 0..R : Off(n) \in Nat \ {0}
      /\ \A n \in 1..R : Off(n - 1) = 2 * Off(n)
      /\ \A n \in 0..R : \E c \in Nat \ {0} : KWarp = Off(n) * c
  BY <1>1, PowerHalves, HalvesDivide, HalvedIs, Zenon
<1>3. dpl \in Nat \ {0} /\ HeadDim = dpl * KWarp
  <2>1. HeadDim = KWarp * (HeadDim \div KWarp) + (HeadDim % KWarp) /\ HeadDim \div KWarp \in Nat
    BY <1>1, RestIs
  <2>2. PICK a \in Nat : a = HeadDim \div KWarp BY <2>1
  <2>3. HeadDim = KWarp * a + 0 BY <2>1, <2>2, Zenon
  <2>4. a # 0 /\ HeadDim = a * KWarp BY <1>1, <2>3
  <2> QED BY <2>2, <2>4
<1> HIDE DEF dpl, R, Off, G, round, Cl, V, f
<1>4. R \in Nat BY <1>2
<1>5. v \in V
  <2>1. ASSUME NEW i \in 0..KWarp - 1 PROVE LaneList(dpl, i) \in Seq(Int)
    <3>1. Lists(LaneList(dpl, i), LaneSet(dpl, KWarp, i)) BY <1>1, <1>3, LaneDims
    <3>2. \A S, T : \A q \in Seq(S) : S \subseteq T => q \in Seq(T) OBVIOUS
    <3>3. LaneSet(dpl, KWarp, i) \subseteq Int BY DEF LaneSet
    <3> QED BY <3>1, <3>2, <3>3, Zenon DEF Lists
  <2> QED BY <2>1 DEF V
<1>6. ASSUME NEW n \in 1..R, NEW i \in 0..KWarp - 1 PROVE Partner(i, Off(n)) \in 0..KWarp - 1
  <2>1. n \in 0..R /\ n - 1 \in 0..R BY <1>4
  <2>2. PICK S \in Nat \ {0} : S = Off(n) BY <1>2, <2>1
  <2>3. PICK c \in Nat \ {0} : KWarp = (2 * S) * c BY <1>2, <2>1, <2>2, ZenonT(30)
  <2>4. i \in 0..(2 * S) * c - 1 BY <2>3, Zenon
  <2>5. Partner(i, S) \in 0..(2 * S) * c - 1 BY <2>4, PartnerIs
  <2> QED BY <2>2, <2>3, <2>5, Zenon
<1>7. G \in [(1..R) \X V -> V]
  <2>1. ASSUME NEW p \in (1..R) \X V
        PROVE  [i \in 0..KWarp - 1 |-> p[2][i] \o p[2][Partner(i, Off(p[1]))]] \in V
    <3>1. p[1] \in 1..R /\ p[2] \in V OBVIOUS
    <3>2. \A i \in 0..KWarp - 1 : p[2][i] \in Seq(Int) /\ p[2][Partner(i, Off(p[1]))] \in Seq(Int)
      BY <1>6, <3>1 DEF V
    <3>3. \A a, b \in Seq(Int) : a \o b \in Seq(Int) OBVIOUS
    <3> QED BY <3>2, <3>3 DEF V
  <2> QED BY <2>1 DEF G
<1>8. PICK g \in [0..R -> V] : Runs(g, R, v, G)
  <2> HIDE DEF v
  <2> QED BY <1>4, <1>5, <1>7, LoopRuns
<1>9. \A n \in 1..R : g[n] = [i \in 0..KWarp - 1 |-> g[n - 1][i] \o g[n - 1][Partner(i, Off(n))]]
  <2> SUFFICES ASSUME NEW n \in 1..R
               PROVE  g[n] = [i \in 0..KWarp - 1 |-> g[n - 1][i] \o g[n - 1][Partner(i, Off(n))]]
    OBVIOUS
  <2>1. n - 1 \in 0..R BY <1>4
  <2>2. <<n, g[n - 1]>> \in (1..R) \X V BY <1>8, <2>1
  <2>3. g[n] = G[<<n, g[n - 1]>>] BY <1>8 DEF Runs
  <2> DEFINE J(m, a) == [i \in 0..KWarp - 1 |-> a[i] \o a[Partner(i, Off(m))]]
  <2>4. \A p \in (1..R) \X V : G[p] = J(p[1], p[2]) BY DEF G
  <2>5. <<n, g[n - 1]>>[1] = n /\ <<n, g[n - 1]>>[2] = g[n - 1] OBVIOUS
  <2> HIDE DEF J
  <2>6. g[n] = J(n, g[n - 1]) BY <2>2, <2>3, <2>4, <2>5, Zenon
  <2> QED BY <2>6 DEF J
<1>10. g = [n \in 0..R |-> IF n = 0 THEN v
              ELSE [i \in 0..KWarp - 1 |-> g[n - 1][i] \o g[n - 1][Partner(i, Off(n))]]]
  <2>1. \A n \in 0..R : n # 0 => n \in 1..R BY <1>4
  <2>2. g[0] = v BY <1>8 DEF Runs
  <2> HIDE DEF v
  <2> QED BY <1>8, <1>9, <2>1, <2>2
<1>11. round = [n \in 0..R |-> IF n = 0 THEN v
              ELSE [i \in 0..KWarp - 1 |-> round[n - 1][i] \o round[n - 1][Partner(i, Off(n))]]]
  <2>1. \E h : h = [n \in 0..R |-> IF n = 0 THEN v
              ELSE [i \in 0..KWarp - 1 |-> h[n - 1][i] \o h[n - 1][Partner(i, Off(n))]]]
    BY <1>10, Zenon
  <2> HIDE DEF v
  <2> QED BY <2>1, Zenon DEF round
<1>12. /\ round[0] = v
       /\ \A n \in 1..R : \A i \in 0..KWarp - 1 :
             round[n][i] = round[n - 1][i] \o round[n - 1][Partner(i, Off(n))]
  <2>1. 0 \in 0..R /\ \A n \in 1..R : n \in 0..R /\ n # 0 BY <1>4
  <2> HIDE DEF v
  <2>2. round[0] = v BY <1>11, <2>1
  <2>3. ASSUME NEW n \in 1..R
        PROVE  round[n] = [i \in 0..KWarp - 1 |->
                              round[n - 1][i] \o round[n - 1][Partner(i, Off(n))]]
    BY <1>11, <2>1, Zenon
  <2>4. ASSUME NEW n \in 1..R, NEW i \in 0..KWarp - 1
        PROVE  round[n][i] = round[n - 1][i] \o round[n - 1][Partner(i, Off(n))]
    <3> DEFINE w == round[n - 1]
    <3>1. round[n] = [j \in 0..KWarp - 1 |-> w[j] \o w[Partner(j, Off(n))]] BY <2>3
    <3> HIDE DEF w
    <3>2. round[n][i] = w[i] \o w[Partner(i, Off(n))] BY <3>1
    <3> QED BY <3>2 DEF w
  <2> QED BY <2>2, <2>4, Zenon
<1> DEFINE T == {n \in 0..R : \A i \in 0..KWarp - 1 : Lists(round[n][i], Cl(n, i))}
<1>13. 0 \in T
  <2> SUFFICES ASSUME NEW i \in 0..KWarp - 1 PROVE Lists(round[0][i], Cl(0, i)) BY <1>4
  <2>1. Lists(LaneList(dpl, i), LaneSet(dpl, KWarp, i)) BY <1>1, <1>3, LaneDims
  <2>2. v[i] = LaneList(dpl, i) OBVIOUS
  <2>3. Cl(0, i) = LaneSet(dpl, KWarp, i)
    <3>1. Dims = 0..dpl * KWarp - 1 BY <1>3 DEF Dims
    <3>2. ASSUME NEW d \in Dims
          PROVE  f[d] % Off(0) = i % Off(0) <=> d \div dpl = i
      <4>1. d \in Nat /\ d < HeadDim BY <1>1 DEF Dims
      <4>2. d \div dpl \in 0..KWarp - 1 BY <1>1, <1>3, <4>1, QuotientBelow
      <4>3. \A a \in 0..KWarp - 1 : a % KWarp = a BY <1>1
      <4>4. f[d] = d \div dpl BY DEF f
      <4> QED BY <1>2, <4>2, <4>3, <4>4, Zenon
    <3> QED BY <3>1, <3>2, Zenon DEF Cl, Rest, LaneSet
  <2> QED BY <1>12, <2>1, <2>2, <2>3, Zenon
<1>14. ASSUME NEW n \in 1..R, n - 1 \in T PROVE n \in T
  <2>1. n \in 0..R /\ n - 1 \in 0..R BY <1>4
  <2>2. PICK S \in Nat \ {0} : S = Off(n) BY <1>2, <2>1
  <2>3. PICK c \in Nat \ {0} : KWarp = (2 * S) * c BY <1>2, <2>1, <2>2, ZenonT(30)
  <2> DEFINE u == round[n - 1]
  <2>4. \A d \in Dims : f[d] \in Nat
    <3>1. \A d \in Dims : d \in Nat BY DEF Dims
    <3> QED BY <1>3, <3>1, RestIs DEF f
  <2>5. \A j \in 0..KWarp - 1 : Lists(u[j], Cl(n - 1, j)) BY <1>14
  <2>6. \A j : Cl(n - 1, j) = Rest(Dims, f, 2 * S, j % (2 * S)) BY <1>2, <2>2, Zenon DEF Cl
  <2>7. \A j : Cl(n, j) = Rest(Dims, f, S, j % S) BY <2>2, Zenon DEF Cl
  <2> HIDE DEF u
  <2>8. ASSUME NEW i \in 0..KWarp - 1 PROVE Lists(round[n][i], Cl(n, i))
    <3>1. i \in 0..(2 * S) * c - 1 BY <2>3, Zenon
    <3>2. \A j \in 0..(2 * S) * c - 1 : Lists(u[j], Rest(Dims, f, 2 * S, j % (2 * S)))
      <4>1. 0..(2 * S) * c - 1 = 0..KWarp - 1 BY <2>3, Zenon
      <4> QED BY <2>5, <2>6, <4>1, Zenon
    <3>3. Lists(u[i] \o u[Partner(i, S)], Rest(Dims, f, S, i % S))
      BY <2>4, <3>1, <3>2, RoundJoins, Zenon
    <3>4. round[n][i] = u[i] \o u[Partner(i, S)] BY <1>12, <2>2 DEF u
    <3> QED BY <2>7, <3>3, <3>4, Zenon
  <2> QED BY <2>1, <2>8
<1>15. \A n \in 0..R : n \in T
  <2> HIDE DEF T
  <2> QED BY <1>4, <1>13, <1>14, UpTo
<1>16. R \in 0..R /\ 0 \in 0..KWarp - 1 BY <1>1, <1>4
<1>17. Lists(round[R][0], Cl(R, 0)) BY <1>15, <1>16
<1>18. Cl(R, 0) = Dims
  <2>1. \A a \in Nat : a % 1 = 0 OBVIOUS
  <2>2. \A d \in Dims : d \div dpl \in Nat
    <3>1. \A d \in Dims : d \in Nat BY DEF Dims
    <3> QED BY <1>3, <3>1, RestIs
  <2>3. \A d \in Dims : f[d] % 1 = 0 % 1 BY <2>1, <2>2 DEF f
  <2> QED BY <1>2, <2>3, Zenon DEF Cl, Rest
<1> QED BY <1>0, <1>17, <1>18, Zenon

\* Weights that the guard on an empty sum tells from none.
Weighs(w, P) == \A p \in P : w[p] \in Int /\ w[p] > NegMax

\* Rescaling gives every term its exponent relative to the new maximum.
LEMMA RescaledIs ==
    ASSUME NEW w, NEW v, NEW P, NEW q, NEW m, NEW M \in Int,
           Lists(q, P), Top(m, w, P), Weighs(w, P)
    PROVE  /\ Rescaled(Relative(q, w, v, m), M).l = Relative(q, w, v, M).l
           /\ Rescaled(Relative(q, w, v, m), M).acc = Relative(q, w, v, M).acc
<1> DEFINE part == Relative(q, w, v, m)
           n == Len(q)
<1>1. q \in Seq(P) /\ n \in Nat /\ \A i \in 1..n : q[i] \in P BY DEF Lists
<1>2. /\ part.m = m
      /\ part.l = [i \in 1..n |-> <<1, w[q[i]] - m>>]
      /\ part.acc = [i \in 1..n |-> <<v[q[i]], w[q[i]] - m>>]
      /\ part = [m |-> m, l |-> part.l, acc |-> part.acc]
  BY DEF Relative
<1>3. /\ Relative(q, w, v, M).l = [i \in 1..n |-> <<1, w[q[i]] - M>>]
      /\ Relative(q, w, v, M).acc = [i \in 1..n |-> <<v[q[i]], w[q[i]] - M>>]
  BY DEF Relative
<1> HIDE DEF part
<1>4. CASE P = {}
  <2>1. m = NegMax BY <1>4 DEF Top
  <2>2. Rescaled(part, M) = Nothing BY <1>2, <2>1 DEF Rescaled
  <2>3. n = 0
    <3>1. n # 0 => 1 \in 1..n BY <1>1
    <3> QED BY <1>1, <1>4, <3>1
  <2>4. [i \in 1..n |-> <<1, w[q[i]] - M>>] = <<>> /\ [i \in 1..n |-> <<v[q[i]], w[q[i]] - M>>] = <<>>
    BY <2>3
  <2>5. Nothing.l = <<>> /\ Nothing.acc = <<>> BY DEF Nothing
  <2> QED BY <1>3, <2>2, <2>4, <2>5, Zenon DEF part
<1>5. CASE P # {}
  <2>1. m \in Int /\ m # NegMax BY <1>5 DEF Top, Weighs, NegMax
  <2>2. PICK e \in Int : e = m - M BY <2>1
  <2>3. Rescaled(part, M) = [part EXCEPT !.l = Times(@, e), !.acc = Times(@, e)]
    BY <1>2, <2>1, <2>2 DEF Rescaled
  <2>4. Rescaled(part, M).l = Times(part.l, e) /\ Rescaled(part, M).acc = Times(part.acc, e)
    BY <1>2, <2>3
  <2>5. ASSUME NEW i \in 1..n PROVE (w[q[i]] - m) + e = w[q[i]] - M
    <3>1. PICK a \in Int : a = w[q[i]] BY <1>1 DEF Weighs
    <3>2. (a - m) + e = a - M BY <2>1, <2>2
    <3> QED BY <3>1, <3>2, Zenon
  <2>6. Times(part.l, e) = [i \in 1..n |-> <<1, w[q[i]] - M>>]
    <3>1. DOMAIN part.l = 1..n /\ \A i \in 1..n : part.l[i] = <<1, w[q[i]] - m>> BY <1>2
    <3>2. ASSUME NEW i \in 1..n
          PROVE  <<part.l[i][1], part.l[i][2] + e>> = <<1, w[q[i]] - M>>
      <4>1. part.l[i][1] = 1 /\ part.l[i][2] = w[q[i]] - m BY <3>1
      <4> QED BY <2>5, <4>1, Zenon
    <3> QED BY <3>1, <3>2 DEF Times
  <2>7. Times(part.acc, e) = [i \in 1..n |-> <<v[q[i]], w[q[i]] - M>>]
    <3>1. DOMAIN part.acc = 1..n /\ \A i \in 1..n : part.acc[i] = <<v[q[i]], w[q[i]] - m>> BY <1>2
    <3>2. ASSUME NEW i \in 1..n
          PROVE  <<part.acc[i][1], part.acc[i][2] + e>> = <<v[q[i]], w[q[i]] - M>>
      <4>1. part.acc[i][1] = v[q[i]] /\ part.acc[i][2] = w[q[i]] - m BY <3>1
      <4> QED BY <2>5, <4>1, Zenon
    <3> QED BY <3>1, <3>2 DEF Times
  <2> QED BY <1>3, <2>4, <2>6, <2>7, Zenon DEF part
<1> QED BY <1>4, <1>5

\* The larger of two maxima is that of the union.
LEMMA TopJoin ==
    ASSUME NEW w, NEW P, NEW Q, NEW a, NEW b, Top(a, w, P), Top(b, w, Q), Weighs(w, P), Weighs(w, Q)
    PROVE  Top(Bigger(a, b), w, P \union Q) /\ Bigger(a, b) \in Int
<1>1. CASE P = {} /\ Q = {}
  <2>1. a = NegMax /\ b = NegMax BY <1>1 DEF Top
  <2>2. Bigger(a, b) = NegMax /\ NegMax \in Int BY <2>1 DEF Bigger, NegMax
  <2> QED BY <1>1, <2>2 DEF Top
<1>2. CASE P = {} /\ Q # {}
  <2>1. a = NegMax /\ b \in Int /\ b > NegMax BY <1>2 DEF Top, Weighs
  <2>2. Bigger(a, b) = b BY <2>1 DEF Bigger, NegMax
  <2>3. P \union Q = Q BY <1>2
  <2> QED BY <2>1, <2>2, <2>3
<1>3. CASE P # {} /\ Q = {}
  <2>1. b = NegMax /\ a \in Int /\ a > NegMax BY <1>3 DEF Top, Weighs
  <2>2. Bigger(a, b) = a BY <2>1 DEF Bigger, NegMax
  <2>3. P \union Q = P BY <1>3
  <2> QED BY <2>1, <2>2, <2>3
<1>4. CASE P # {} /\ Q # {}
  <2>1. PICK p \in P : a = w[p] /\ \A r \in P : w[r] <= a BY <1>4 DEF Top
  <2>2. PICK s \in Q : b = w[s] /\ \A r \in Q : w[r] <= b BY <1>4 DEF Top
  <2>3. /\ a \in Int /\ b \in Int
        /\ \A r \in P : w[r] \in Int
        /\ \A r \in Q : w[r] \in Int
    BY <2>1, <2>2 DEF Weighs
  <2>4. CASE a > b
    <3>1. \A r \in P \union Q : w[r] <= a BY <2>1, <2>2, <2>3, <2>4
    <3>2. Bigger(a, b) = a BY <2>4 DEF Bigger
    <3> QED BY <2>1, <2>3, <3>1, <3>2 DEF Top
  <2>5. CASE ~(a > b)
    <3>1. \A r \in P \union Q : w[r] <= b BY <2>1, <2>2, <2>3, <2>5
    <3>2. Bigger(a, b) = b BY <2>5 DEF Bigger
    <3> QED BY <2>2, <2>3, <3>1, <3>2 DEF Top
  <2> QED BY <2>4, <2>5
<1> QED BY <1>1, <1>2, <1>3, <1>4

\* a and b are joined to c.
IsJoin(a, b, c) == a \o b = c

\* What is done to the elements of joined lists is joined.
LEMMA MapJoin ==
    ASSUME NEW U, NEW T, NEW F \in [U -> T], NEW q \in Seq(U), NEW r \in Seq(U)
    PROVE  IsJoin(Image(F, q), Image(F, r), Image(F, q \o r))
<1>1. ASSUME NEW z \in Seq(U)
      PROVE  /\ Image(F, z) \in Seq(T) /\ Len(Image(F, z)) = Len(z)
             /\ \A i \in 1..Len(z) : Image(F, z)[i] = F[z[i]]
  <2>1. Len(z) \in Nat /\ \A i \in 1..Len(z) : F[z[i]] \in T OBVIOUS
  <2>2. Image(F, z) \in [1..Len(z) -> T] BY <2>1 DEF Image
  <2>3. Image(F, z) \in Seq(T) BY <2>1, <2>2, SeqDef
  <2> QED BY <2>1, <2>2, <2>3 DEF Image
<1>2. PICK m \in Nat, n \in Nat : m = Len(q) /\ n = Len(r) OBVIOUS
<1>3. /\ q \o r \in Seq(U) /\ Len(q \o r) = m + n
      /\ \A i \in 1..m : (q \o r)[i] = q[i]
      /\ \A i \in m + 1..m + n : (q \o r)[i] = r[i - m]
  BY <1>2
<1>4. PICK a, b, c : a = Image(F, q) /\ b = Image(F, r) /\ c = Image(F, q \o r) OBVIOUS
<1>5. /\ a \in Seq(T) /\ b \in Seq(T) /\ c \in Seq(T) /\ Len(a) = m /\ Len(b) = n /\ Len(c) = m + n
      /\ \A i \in 1..m : a[i] = F[q[i]]
      /\ \A i \in 1..n : b[i] = F[r[i]]
      /\ \A i \in 1..m + n : c[i] = F[(q \o r)[i]]
  <2>1. a \in Seq(T) /\ Len(a) = m /\ \A i \in 1..m : a[i] = F[q[i]] BY <1>1, <1>2, <1>4, Zenon
  <2>2. b \in Seq(T) /\ Len(b) = n /\ \A i \in 1..n : b[i] = F[r[i]] BY <1>1, <1>2, <1>4, Zenon
  <2>3. c \in Seq(T) /\ Len(c) = m + n /\ \A i \in 1..m + n : c[i] = F[(q \o r)[i]]
    BY <1>1, <1>3, <1>4, Zenon
  <2> QED BY <2>1, <2>2, <2>3
<1>6. /\ a \o b \in Seq(T) /\ Len(a \o b) = m + n
      /\ \A i \in 1..m : (a \o b)[i] = a[i]
      /\ \A i \in m + 1..m + n : (a \o b)[i] = b[i - m]
  BY <1>5
<1>7. ASSUME NEW i \in 1..m + n PROVE (a \o b)[i] = c[i]
  <2>1. CASE i \in 1..m
    <3>1. (q \o r)[i] = q[i] /\ (a \o b)[i] = a[i] /\ a[i] = F[q[i]] BY <1>3, <1>5, <1>6, <2>1
    <3> QED BY <1>5, <3>1, Zenon
  <2>2. CASE i \in m + 1..m + n
    <3>1. i - m \in 1..n BY <2>2
    <3>2. (q \o r)[i] = r[i - m] /\ (a \o b)[i] = b[i - m] /\ b[i - m] = F[r[i - m]]
      BY <1>3, <1>5, <1>6, <2>2, <3>1, Zenon
    <3> QED BY <1>5, <3>2, Zenon
  <2>3. i \in 1..m \/ i \in m + 1..m + n OBVIOUS
  <2> QED BY <2>1, <2>2, <2>3, Zenon
<1>8. a \o b = c
  <2>1. PICK d : d = a \o b OBVIOUS
  <2>2. d \in Seq(T) /\ Len(d) = m + n /\ \A i \in 1..m + n : d[i] = c[i] BY <1>6, <1>7, <2>1, Zenon
  <2>3. d = c BY <1>5, <2>2, SeqEqual
  <2> QED BY <2>1, <2>3
<1> QED BY <1>4, <1>8, Zenon DEF IsJoin

\* Relative terms of a joined list are joined.
LEMMA RelativeJoin ==
    ASSUME NEW w, NEW v, NEW P, NEW Q, NEW q \in Seq(P), NEW r \in Seq(Q), NEW M
    PROVE  /\ IsJoin(Relative(q, w, v, M).l, Relative(r, w, v, M).l, Relative(q \o r, w, v, M).l)
           /\ IsJoin(Relative(q, w, v, M).acc, Relative(r, w, v, M).acc,
                     Relative(q \o r, w, v, M).acc)
<1> DEFINE U == P \union Q
           G == [p \in U |-> <<1, w[p] - M>>]
           H == [p \in U |-> <<v[p], w[p] - M>>]
<1>1. q \in Seq(U) /\ r \in Seq(U) /\ q \o r \in Seq(U)
  <2>1. \A S, T : \A z \in Seq(S) : S \subseteq T => z \in Seq(T) OBVIOUS
  <2>2. q \in Seq(U) /\ r \in Seq(U) BY <2>1
  <2> HIDE DEF U
  <2> QED BY <2>2
<1>2. /\ G \in [U -> {G[p] : p \in U}] /\ \A p \in U : G[p] = <<1, w[p] - M>>
      /\ H \in [U -> {H[p] : p \in U}] /\ \A p \in U : H[p] = <<v[p], w[p] - M>>
  OBVIOUS
<1> HIDE DEF U, G, H
<1>3. ASSUME NEW z \in Seq(U)
      PROVE  Relative(z, w, v, M).l = Image(G, z) /\ Relative(z, w, v, M).acc = Image(H, z)
  <2>1. \A i \in 1..Len(z) : z[i] \in U OBVIOUS
  <2> QED BY <1>2, <2>1 DEF Relative, Image
<1>4. ASSUME NEW F, NEW T, F \in [U -> T] PROVE IsJoin(Image(F, q), Image(F, r), Image(F, q \o r))
  BY <1>1, <1>4, MapJoin
<1>5. /\ IsJoin(Image(G, q), Image(G, r), Image(G, q \o r))
      /\ IsJoin(Image(H, q), Image(H, r), Image(H, q \o r))
  BY <1>2, <1>4, Zenon
<1> QED BY <1>1, <1>3, <1>5, Zenon

\* Two sums over disjoint sets become the sum over their union.
LEMMA SumsMerged ==
    ASSUME NEW w, NEW v, NEW P, NEW Q, P \cap Q = {}, Weighs(w, P), Weighs(w, Q),
           NEW a, NEW b, Sums(a, w, v, P), Sums(b, w, v, Q)
    PROVE  Sums(Merged(a, b), w, v, P \union Q)
<1>1. PICK q \in Seq(P) : Lists(q, P) /\ Top(a.m, w, P) /\ a = Relative(q, w, v, a.m) BY DEF Sums
<1>2. PICK r \in Seq(Q) : Lists(r, Q) /\ Top(b.m, w, Q) /\ b = Relative(r, w, v, b.m) BY DEF Sums
<1>3. PICK M \in Int : M = Bigger(a.m, b.m) /\ Top(M, w, P \union Q) BY <1>1, <1>2, TopJoin
<1>4. /\ Rescaled(a, M).l = Relative(q, w, v, M).l /\ Rescaled(a, M).acc = Relative(q, w, v, M).acc
  BY <1>1, <1>3, RescaledIs
<1>5. /\ Rescaled(b, M).l = Relative(r, w, v, M).l /\ Rescaled(b, M).acc = Relative(r, w, v, M).acc
  BY <1>2, <1>3, RescaledIs
<1>6. Lists(q \o r, P \union Q) BY <1>1, <1>2, ListsJoin
<1>7. Merged(a, b) = [m |-> M, l |-> Relative(q \o r, w, v, M).l, acc |-> Relative(q \o r, w, v, M).acc]
  <2>1. Merged(a, b) = [m |-> M, l |-> Rescaled(a, M).l \o Rescaled(b, M).l,
                        acc |-> Rescaled(a, M).acc \o Rescaled(b, M).acc]
    BY <1>3, Zenon DEF Merged
  <2>2. /\ IsJoin(Relative(q, w, v, M).l, Relative(r, w, v, M).l, Relative(q \o r, w, v, M).l)
        /\ IsJoin(Relative(q, w, v, M).acc, Relative(r, w, v, M).acc,
                  Relative(q \o r, w, v, M).acc)
    BY RelativeJoin, Zenon
  <2> QED BY <1>4, <1>5, <2>1, <2>2, Zenon DEF IsJoin
<1>8. Merged(a, b) = Relative(q \o r, w, v, M) BY <1>7 DEF Relative
<1>9. Merged(a, b).m = M BY <1>7
<1>10. q \o r \in Seq(P \union Q) BY <1>6 DEF Lists
<1> QED BY <1>3, <1>6, <1>8, <1>9, <1>10 DEF Sums

\* The sum of nothing, and of one position.
LEMMA SumsFew ==
    ASSUME NEW w, NEW v
    PROVE  /\ Sums(Nothing, w, v, {})
           /\ \A p : w[p] \in Int =>
                 Sums([m |-> w[p], l |-> << <<1, 0>> >>, acc |-> << <<v[p], 0>> >>], w, v, {p})
<1>1. Sums(Nothing, w, v, {})
  <2>1. Lists(<<>>, {}) /\ <<>> \in Seq({}) BY ListsFew
  <2>2. Nothing.m = NegMax BY DEF Nothing
  <2>3. Top(Nothing.m, w, {}) BY <2>2 DEF Top
  <2>4. Nothing = Relative(<<>>, w, v, Nothing.m)
    <3>1. Len(<<>>) = 0 OBVIOUS
    <3>2. \A e : [i \in 1..0 |-> e] = <<>> OBVIOUS
    <3>3. Relative(<<>>, w, v, NegMax) = [m |-> NegMax, l |-> <<>>, acc |-> <<>>] BY <3>1 DEF Relative
    <3> QED BY <2>2, <3>3 DEF Nothing
  <2> QED BY <2>1, <2>3, <2>4 DEF Sums
<1>2. ASSUME NEW p, w[p] \in Int
      PROVE  Sums([m |-> w[p], l |-> << <<1, 0>> >>, acc |-> << <<v[p], 0>> >>], w, v, {p})
  <2> DEFINE part == [m |-> w[p], l |-> << <<1, 0>> >>, acc |-> << <<v[p], 0>> >>]
  <2>1. Lists(<<p>>, {p}) /\ <<p>> \in Seq({p}) BY ListsFew
  <2>2. part.m = w[p] OBVIOUS
  <2>3. Top(part.m, w, {p}) BY <1>2 DEF Top
  <2>4. part = Relative(<<p>>, w, v, part.m)
    <3>1. Len(<<p>>) = 1 /\ <<p>>[1] = p OBVIOUS
    <3>2. w[p] - w[p] = 0 BY <1>2
    <3>3. \A i \in 1..1 : i = 1 OBVIOUS
    <3>4. [i \in 1..Len(<<p>>) |-> <<1, w[<<p>>[i]] - w[p]>>] = << <<1, 0>> >> BY <3>1, <3>2, <3>3
    <3>5. [i \in 1..Len(<<p>>) |-> <<v[<<p>>[i]], w[<<p>>[i]] - w[p]>>] = << <<v[p], 0>> >>
      BY <3>1, <3>2, <3>3
    <3> QED BY <2>2, <3>4, <3>5, Zenon DEF Relative
  <2> QED BY <2>1, <2>3, <2>4 DEF Sums
<1> QED BY <1>1, <1>2

\* The exponents and the terms of the reference.
Exponents(w, n) == [p \in 0..n |-> w[p] - Max({w[q] : q \in 0..n})]
Ones(e, n) == [k \in 1..n + 1 |-> <<1, e[k - 1]>>]
Terms(v, e, n) == [k \in 1..n + 1 |-> <<v[k - 1], e[k - 1]>>]

\* The sum over all positions is the reference's, as bags of terms.
LEMMA SumsReference ==
    ASSUME NEW w, NEW v, NEW n \in Nat, Weighs(w, 0..n), NEW part, Sums(part, w, v, 0..n),
           NEW e, e = Exponents(w, n)
    PROVE  ToBag(part.l) = ToBag(Ones(e, n)) /\ ToBag(part.acc) = ToBag(Terms(v, e, n))
<1>1. PICK q \in Seq(0..n) : Lists(q, 0..n) /\ Top(part.m, w, 0..n) /\ part = Relative(q, w, v, part.m)
  BY DEF Sums
<1>2. PICK m : m = part.m OBVIOUS
<1>3. m = Max({w[p] : p \in 0..n})
  <2>1. 0 \in 0..n OBVIOUS
  <2>2. PICK p \in 0..n : m = w[p] /\ \A r \in 0..n : w[r] <= m BY <1>1, <1>2, <2>1 DEF Top
  <2>3. \A r \in 0..n : w[r] \in Int BY DEF Weighs
  <2> DEFINE S == {w[r] : r \in 0..n}
  <2>4. m \in S /\ S \subseteq Int /\ \A z \in S : z <= m BY <2>2, <2>3
  <2> HIDE DEF S
  <2>5. \A z \in S : (\A y \in S : z >= y) => z = m BY <2>4
  <2>6. \A y \in S : m >= y BY <2>4
  <2>7. Max(S) = m BY <2>4, <2>5, <2>6 DEF Max
  <2> QED BY <2>7 DEF S
<1>4. \A p \in 0..n : e[p] = w[p] - m BY <1>3 DEF Exponents
<1> DEFINE r == [k \in 1..n + 1 |-> k - 1]
           G == [p \in 0..n |-> <<1, w[p] - m>>]
           H == [p \in 0..n |-> <<v[p], w[p] - m>>]
<1>5. Lists(r, 0..n) /\ Len(r) = n + 1 /\ \A k \in 1..n + 1 : r[k] = k - 1
  <2>1. r \in [1..n + 1 -> 0..n] OBVIOUS
  <2>2. n + 1 \in Nat OBVIOUS
  <2>3. r \in Seq(0..n) BY <2>1, <2>2, SeqDef
  <2>4. Len(r) = n + 1 BY <2>2
  <2>5. \A p \in 0..n : p + 1 \in 1..n + 1 /\ r[p + 1] = p OBVIOUS
  <2>6. \A i, j \in 1..n + 1 : r[i] = r[j] => i = j OBVIOUS
  <2>7. \A k \in 1..n + 1 : r[k] = k - 1 OBVIOUS
  <2> HIDE DEF r
  <2> QED BY <2>3, <2>4, <2>5, <2>6, <2>7 DEF Lists
<1>6. (\A p \in 0..n : G[p] = <<1, w[p] - m>>) /\ \A p \in 0..n : H[p] = <<v[p], w[p] - m>> OBVIOUS
<1>7. (\A i \in 1..Len(q) : q[i] \in 0..n) /\ \A k \in 1..n + 1 : k - 1 \in 0..n
  <2>1. \A i \in 1..Len(q) : q[i] \in 0..n OBVIOUS
  <2>2. \A k \in 1..n + 1 : k - 1 \in 0..n OBVIOUS
  <2> QED BY <2>1, <2>2
<1> HIDE DEF r, G, H
<1>8. part.l = Image(G, q) /\ part.acc = Image(H, q)
  <2>1. part = Relative(q, w, v, m) BY <1>1, <1>2
  <2>2. /\ part.l = [i \in 1..Len(q) |-> <<1, w[q[i]] - m>>]
        /\ part.acc = [i \in 1..Len(q) |-> <<v[q[i]], w[q[i]] - m>>]
    BY <2>1 DEF Relative
  <2>3. /\ [i \in 1..Len(q) |-> <<1, w[q[i]] - m>>] = [i \in 1..Len(q) |-> G[q[i]]]
        /\ [i \in 1..Len(q) |-> <<v[q[i]], w[q[i]] - m>>] = [i \in 1..Len(q) |-> H[q[i]]]
    <3>1. \A i \in 1..Len(q) : G[q[i]] = <<1, w[q[i]] - m>> BY <1>6, <1>7, Zenon
    <3>2. \A i \in 1..Len(q) : H[q[i]] = <<v[q[i]], w[q[i]] - m>> BY <1>6, <1>7, Zenon
    <3> QED BY <3>1, <3>2, Zenon
  <2> QED BY <2>2, <2>3, Zenon DEF Image
<1>9. Ones(e, n) = Image(G, r) /\ Terms(v, e, n) = Image(H, r)
  <2>1. \A k \in 1..n + 1 : G[r[k]] = <<1, e[k - 1]>> /\ H[r[k]] = <<v[k - 1], e[k - 1]>>
    BY <1>4, <1>5, <1>6, <1>7, Zenon
  <2> QED BY <1>5, <2>1 DEF Image, Ones, Terms
<1>10. \A g : ToBag(Image(g, q)) = ToBag(Image(g, r)) BY <1>1, <1>5, BagOf
<1> QED BY <1>8, <1>9, <1>10, Zenon

-----------------------------------------------------------------------------
(* The invariant of a block.                                               *)

\* f is a function on D.
IsFcn(f, D) == f = [d \in D |-> f[d]]

\* The number of actors.
Team == IF Gqa THEN KWarps ELSE KThreads

\* What the block sums up: the positions, what they hold, their weights.
Positions == 0..arg.pos
Read == [p \in Positions |-> arg.cache[SlotAt(arg.tables, table(arg.offset, arg.seq), p)]]
Value == [p \in Positions |-> <<kv_head, Read[p]>>]
SumIs(part, h, P) == Sums(part, arg.score[h], Value, P)

\* Actor t has arrived behind stage s.
Done(t, s) == stage[t] > s \/ (stage[t] = s /\ t \in waits)

\* How many actors hold a part of the sum behind stage s.
Width(s) == IF Gqa THEN KWarps ELSE Stride(s)

\* What actor t has walked over.
WalkedOver(t) == {p \in Positions : p % Team = t /\ p < next_p[t]}

\* Actor t writes dimension d of head h.
Owns(t, h, d) == IF Gqa THEN (h % Group) % KWarps = t ELSE Strided(t, d)

\* The launch is one that launchers let pass, on scores and cells that make sense.
ArgFits ==
    /\ arg.y \in Nat /\ arg.pos \in Nat
    /\ Gqa => HeadDim % KWarp = 0
    /\ \A h \in Heads, p \in Positions : arg.score[h][p] \in Int /\ arg.score[h][p] > NegMax
    /\ \A p \in Positions : Read[p].pos = p

StageInv ==
    /\ stage \in [Actors -> 1..LastStage + 1]
    /\ waits \subseteq Actors /\ \A t \in waits : stage[t] < LastStage

\* Nobody is beyond a barrier at which somebody has not arrived.
BarrierInv ==
    \A t, u \in Actors : \A s \in 1..LastStage - 1 : stage[u] > s => Done(t, s)

LoadInv ==
    /\ IsFcn(s_q, Heads) /\ \A h \in Heads : IsFcn(s_q[h], Dims)
    /\ \A t \in Actors : Done(t, LoadStage) =>
          \A h \in Heads, d \in Dims :
              Strided(t, (h % Cardinality(Heads)) * HeadDim + d) => s_q[h][d] = QElement(h, d)

WalkInv ==
    /\ next_p \in [Actors -> Nat] /\ IsFcn(priv, Actors)
    /\ \A t \in Actors :
          /\ next_p[t] % Team = t
          /\ Done(t, WalkStage) => next_p[t] > arg.pos
          /\ \A h \in Heads : SumIs(priv[t][h], h, WalkedOver(t))
          /\ IsFcn(priv[t], Heads)

\* The positions that actor t answers for when w actors hold parts.
Class(t, w) == {p \in Positions : p % w = t}

\* The last merge that actor t took part in is that of stage s.
Holds(t, s) ==
    /\ Done(t, s) /\ t < Width(s)
    /\ \A r \in s + 1..LastStage - 1 : ~(Done(t, r) /\ t < Width(r))

PartInv ==
    /\ IsFcn(s_part, Actors) /\ \A t \in Actors : IsFcn(s_part[t], Heads)
    /\ \A t \in Actors : \A s \in WalkStage..LastStage - 1 :
          Holds(t, s) => \A h \in Heads : SumIs(s_part[t][h], h, Class(t, Width(s)))

OutInv ==
    /\ IsFcn(out, Heads) /\ \A h \in Heads : IsFcn(out[h], Dims)
    /\ \A t \in Actors : Done(t, LastStage) =>
          \A h \in Heads, d \in Dims : Owns(t, h, d) => SumIs(out[h][d], h, Positions)

BlockInv ==
    ArgFits /\ StageInv /\ BarrierInv /\ LoadInv /\ WalkInv /\ PartInv /\ OutInv

\* The probe is a block of the launch.
ProbeInv ==
    host \in {"begin", "qkv", "store", "attend"} =>
        /\ probe.token \in 1..Len(flatten)
        /\ probe.y \in 0..QHeads - 1 /\ (backend = "gqa" => probe.y < KVHeads)
        /\ score \in ScoreShapes /\ backend \in Backends

\* The block has the arguments of the launch.
ArgIs ==
    arg = [kernel |-> backend, token |-> probe.token - 1, y |-> probe.y,
           pos |-> tok[probe.token].pos, seq |-> dev.token_seq[probe.token],
           tables |-> dev.tables, offset |-> dev.offset, cache |-> cache[layer],
           score |-> [h \in 0..QHeads - 1 |-> [p \in DOMAIN score |-> score[p] * (h + 1)]]]

AttentionInv ==
    ProbeInv /\ (host = "attend" => backend # "cpu" /\ ArgIs /\ BlockInv)


-----------------------------------------------------------------------------
(* What the launch fixes.                                                  *)

\* The quotient is the only one.
LEMMA QuotientOf ==
    ASSUME NEW S \in Nat \ {0}, NEW k \in Nat, NEW r \in 0..S - 1
    PROVE  (S * k + r) \div S = k
<1>1. PICK p \in Nat : p = S * k + r
  <2>1. S * k \in Nat OBVIOUS
  <2>2. S * k + r \in Nat BY <2>1
  <2> QED BY <2>2
<1>2. (S * k + r) % S = r BY RestOf
<1>3. p % S = r BY <1>1, <1>2, Zenon
<1>4. PICK j \in Nat : j = p \div S BY RestIs
<1>5. p = S * j + r BY <1>3, <1>4, RestIs
<1>6. S * j = S * k BY <1>1, <1>5
<1>7. j = k BY <1>6
<1> QED BY <1>1, <1>4, <1>7, Zenon

\* The actors, the stages and the parts behind them.
LEMMA TeamIs ==
    /\ Team \in Nat \ {0} /\ Actors = 0..Team - 1 /\ Cardinality(Actors) = Team
    /\ LastStage \in Nat /\ LastStage >= 3 /\ (Gqa => LastStage = 3)
    /\ Width(WalkStage) = Team
    /\ \A s \in WalkStage..LastStage - 1 : Width(s) \in Nat \ {0} /\ Width(s) <= Team
    /\ ~Gqa => Width(LastStage - 1) = 1
    /\ ~Gqa => \A s \in WalkStage + 1..LastStage - 1 : Width(s - 1) = 2 * Width(s)
<1>1. /\ KThreads \in Nat \ {0} /\ KWarps \in Nat \ {0} /\ PowerOfTwo(KThreads)
  BY AttentionAssumption
<1>2. PICK R \in Nat : R = Rounds(KThreads) BY <1>1, PowerHalves
<1>3. /\ Halved(KThreads, R) = 1 /\ Halved(KThreads, 0) = KThreads
      /\ \A i \in 0..R : Halved(KThreads, i) \in Nat \ {0}
      /\ \A i \in 1..R : Halved(KThreads, i - 1) = 2 * Halved(KThreads, i)
  BY <1>1, <1>2, PowerHalves, HalvedIs, Zenon
<1>4. Team \in Nat \ {0} /\ Actors = 0..Team - 1 BY <1>1 DEF Team, Actors
<1>5. Cardinality(Actors) = Team
  <2>1. PICK n \in Nat \ {0} : n = Team BY <1>4
  <2>2. Cardinality(0..n - 1) = n
    <3>1. 0 \in Int /\ n - 1 \in Int /\ ~(0 > n - 1) /\ (n - 1) - 0 + 1 = n OBVIOUS
    <3> QED BY <3>1, FS_Interval, Zenon
  <2> QED BY <1>4, <2>1, <2>2, Zenon
<1>6. CASE Gqa
  <2>1. LastStage = 3 /\ \A s : Width(s) = KWarps BY <1>6 DEF LastStage, Width
  <2>2. Team = KWarps BY <1>6 DEF Team
  <2> QED BY <1>1, <1>4, <1>5, <1>6, <2>1, <2>2
<1>7. CASE ~Gqa
  <2>1. LastStage = 3 + R BY <1>2, <1>7 DEF LastStage, Merges
  <2>2. \A s : Width(s) = Halved(KThreads, s - 2) BY <1>7 DEF Width, Stride, WalkStage
  <2>3. Team = KThreads BY <1>7 DEF Team
  <2>4. Width(WalkStage) = Team
    <3>1. WalkStage - 2 = 0 BY DEF WalkStage
    <3> QED BY <1>3, <2>2, <2>3, <3>1, Zenon
  <2>5. Width(LastStage - 1) = 1
    <3>1. (LastStage - 1) - 2 = R BY <2>1
    <3> QED BY <1>3, <2>2, <3>1, Zenon
  <2>6. ASSUME NEW s \in WalkStage..LastStage - 1 PROVE Width(s) \in Nat \ {0} /\ Width(s) <= Team
    <3>1. s - 2 \in 0..R BY <2>1 DEF WalkStage
    <3>2. Width(s) \in Nat \ {0} BY <1>3, <2>2, <3>1, Zenon
    <3>3. PICK c \in Nat \ {0} : Team = Width(s) * c BY <1>1, <1>2, <2>2, <2>3, <3>1, HalvesDivide, Zenon
    <3>4. PICK n \in Nat : n = Width(s) BY <3>2
    <3>5. PICK e \in Nat : c = 1 + e
      <4>1. c - 1 \in Nat /\ c = 1 + (c - 1) OBVIOUS
      <4> QED BY <4>1
    <3>6. n * c = n + n * e /\ n * e \in Nat BY <3>5
    <3> QED BY <3>2, <3>3, <3>4, <3>6
  <2>7. ASSUME NEW s \in WalkStage + 1..LastStage - 1 PROVE Width(s - 1) = 2 * Width(s)
    <3>1. s - 2 \in 1..R /\ (s - 1) - 2 = (s - 2) - 1 BY <2>1 DEF WalkStage
    <3> QED BY <1>3, <2>2, <3>1, Zenon
  <2>8. LastStage \in Nat /\ LastStage >= 3 BY <2>1
  <2> QED BY <1>4, <1>5, <1>7, <2>4, <2>5, <2>6, <2>7, <2>8
<1> QED BY <1>6, <1>7

\* The query heads of the block read its kv head.
LEMMA HeadsAre ==
    ASSUME ArgFits
    PROVE  /\ Group \in Nat \ {0} /\ Cardinality(Heads) \in Nat \ {0}
           /\ \A h \in Heads : h \in Nat /\ kv_head = h \div Group
<1>1. QHeads \in Nat \ {0} /\ KVHeads \in Nat \ {0} /\ QHeads % KVHeads = 0
  BY AttentionAssumption
<1>2. PICK g \in Nat \ {0} : g = Group
  <2>1. QHeads = KVHeads * (QHeads \div KVHeads) + (QHeads % KVHeads) /\ QHeads \div KVHeads \in Nat
    BY <1>1, RestIs
  <2>2. PICK a \in Nat : a = QHeads \div KVHeads BY <2>1
  <2>3. QHeads = KVHeads * a + 0 BY <1>1, <2>1, <2>2, Zenon
  <2>4. a # 0 BY <1>1, <2>3
  <2> QED BY <2>2, <2>4 DEF Group
<1>3. PICK y \in Nat : y = arg.y BY DEF ArgFits
<1>4. CASE Gqa
  <2>1. Heads = {y * g + h : h \in 0..g - 1} /\ kv_head = y BY <1>2, <1>3, <1>4 DEF Heads, kv_head
  <2>2. PICK b \in Nat : b = y * g
    <3>1. y * g \in Nat OBVIOUS
    <3> QED BY <3>1
  <2>3. Heads = b..b + g - 1
    <3>1. \A h \in 0..g - 1 : b + h \in b..b + g - 1 OBVIOUS
    <3>2. \A z \in b..b + g - 1 : z - b \in 0..g - 1 /\ z = b + (z - b) OBVIOUS
    <3>3. Heads = {b + h : h \in 0..g - 1} BY <2>1, <2>2
    <3> QED BY <3>1, <3>2, <3>3
  <2>4. Cardinality(b..b + g - 1) = g
    <3>1. b \in Int /\ b + g - 1 \in Int /\ ~(b > b + g - 1) /\ (b + g - 1) - b + 1 = g OBVIOUS
    <3> QED BY <3>1, FS_Interval, Zenon
  <2>5. ASSUME NEW h \in Heads PROVE h \in Nat /\ y = h \div g
    <3>1. PICK r \in 0..g - 1 : h = b + r
      <4>1. h - b \in 0..g - 1 /\ h = b + (h - b) BY <2>3
      <4> QED BY <4>1
    <3>2. (g * y + r) \div g = y BY QuotientOf
    <3>3. b = g * y BY <2>2
    <3> QED BY <3>1, <3>2, <3>3
  <2> QED BY <1>2, <2>1, <2>3, <2>4, <2>5
<1>5. CASE ~Gqa
  <2>1. Heads = {y} /\ kv_head = y \div g BY <1>2, <1>3, <1>5 DEF Heads, kv_head
  <2>2. Cardinality({y}) = 1 BY FS_Singleton
  <2> QED BY <1>2, <2>1, <2>2
<1> QED BY <1>4, <1>5

\* Every element has an actor that touches it.
LEMMA StridedBySome == ASSUME NEW i \in Nat PROVE \E t \in Actors : Strided(t, i)
<1>1. KThreads \in Nat \ {0} /\ KWarps \in Nat \ {0} /\ KWarp \in Nat \ {0} BY AttentionAssumption
<1>2. CASE Gqa
  <2>1. PICK n \in Nat \ {0} : n = KWarps * KWarp
    <3>1. KWarps * KWarp \in Nat \ {0} BY <1>1
    <3> QED BY <3>1
  <2>2. PICK r \in 0..n - 1 : r = i % n BY RestIs
  <2>3. r < KWarp * KWarps /\ r \in Nat BY <1>1, <2>1, <2>2
  <2>4. r \div KWarp \in 0..KWarps - 1 BY <1>1, <2>3, QuotientBelow
  <2> QED BY <1>2, <2>1, <2>2, <2>4, Zenon DEF Strided, Actors
<1>3. CASE ~Gqa
  <2>1. i % KThreads \in 0..KThreads - 1 BY <1>1, RestIs
  <2> QED BY <1>3, <2>1 DEF Strided, Actors
<1> QED BY <1>2, <1>3

\* Every dimension of every head is some actor's to write.
LEMMA OwnedBySome ==
    ASSUME ArgFits, NEW h \in Heads, NEW d \in Dims PROVE \E t \in Actors : Owns(t, h, d)
<1>1. d \in Nat BY DEF Dims
<1>2. CASE Gqa
  <2>1. h \in Nat /\ Group \in Nat \ {0} BY HeadsAre
  <2>2. h % Group \in Nat BY <2>1, RestIs
  <2>3. KWarps \in Nat \ {0} BY AttentionAssumption
  <2>4. (h % Group) % KWarps \in 0..KWarps - 1 BY <2>2, <2>3, RestIs
  <2> QED BY <1>2, <2>4 DEF Owns, Actors
<1>3. CASE ~Gqa BY <1>1, <1>3, StridedBySome DEF Owns
<1> QED BY <1>2, <1>3

\* As long as the arguments stay, so does what they fix.
LEMMA SameArg ==
    ASSUME arg' = arg
    PROVE  /\ Gqa' = Gqa /\ Actors' = Actors /\ Heads' = Heads /\ Team' = Team
           /\ LastStage' = LastStage /\ Positions' = Positions /\ ArgFits' = ArgFits
           /\ \A s : Width(s)' = Width(s)
           /\ \A h, d : QElement(h, d)' = QElement(h, d)
           /\ \A t, i : Strided(t, i)' = Strided(t, i)
           /\ \A t, h, d : Owns(t, h, d)' = Owns(t, h, d)
           /\ \A part, h, P : SumIs(part, h, P)' = SumIs(part, h, P)
           /\ Value' = Value
<1>1. Gqa' = Gqa BY DEF Gqa
<1>2. Actors' = Actors /\ Heads' = Heads /\ Team' = Team /\ LastStage' = LastStage
  BY <1>1 DEF Actors, Heads, Team, LastStage, Merges
<1>3. Positions' = Positions BY DEF Positions
<1>4. kv_head' = kv_head BY <1>1 DEF kv_head
<1>5. Read' = Read BY <1>3 DEF Read, SlotAt, table
<1>6. Value' = Value BY <1>3, <1>4, <1>5 DEF Value
<1>7. ArgFits' = ArgFits BY <1>1, <1>2, <1>3, <1>5 DEF ArgFits
<1>8. \A s : Width(s)' = Width(s) BY <1>1 DEF Width, Stride
<1>9. \A h, d : QElement(h, d)' = QElement(h, d) BY DEF QElement
<1>10. \A t, i : Strided(t, i)' = Strided(t, i) BY <1>1 DEF Strided
<1>11. \A t, h, d : Owns(t, h, d)' = Owns(t, h, d) BY <1>1, <1>10 DEF Owns
<1>12. \A part, h, P : SumIs(part, h, P)' = SumIs(part, h, P) BY <1>6 DEF SumIs
<1> QED BY <1>1, <1>2, <1>3, <1>6, <1>7, <1>8, <1>9, <1>10, <1>11, <1>12


-----------------------------------------------------------------------------
(* The stages.                                                             *)

\* What arriving does to the stages.
LEMMA ArriveIs ==
    ASSUME StageInv, BarrierInv, arg' = arg, NEW t \in Actors, t \notin waits,
           stage[t] <= LastStage, Arrive(t)
    PROVE  /\ StageInv' /\ BarrierInv'
           /\ \A u \in Actors : \A s \in 1..LastStage :
                 Done(u, s)' <=> Done(u, s) \/ (u = t /\ s = stage[t])
<1>1. PICK L \in Nat : L = LastStage /\ L >= 3 BY TeamIs
<1>2. /\ stage \in [Actors -> 1..L + 1] /\ waits \subseteq Actors
      /\ \A u \in waits : stage[u] < L
      /\ \A u, v \in Actors : \A s \in 1..L - 1 :
            stage[v] > s => stage[u] > s \/ (stage[u] = s /\ u \in waits)
  BY <1>1 DEF StageInv, BarrierInv, Done
<1>3. Actors' = Actors /\ LastStage' = L BY <1>1, SameArg
<1>4. CASE stage[t] = L
  <2>1. stage' = [stage EXCEPT ![t] = L + 1] /\ waits' = waits BY <1>1, <1>2, <1>4 DEF Arrive
  <2>2. stage' \in [Actors -> 1..L + 1] /\ \A u \in Actors : stage'[u] = IF u = t THEN L + 1 ELSE stage[u]
    BY <1>1, <1>2, <2>1
  <2>3. \A u \in waits' : stage'[u] < L BY <1>2, <2>1, <2>2
  <2>4. \A u \in Actors : \A s \in 1..L :
          stage'[u] > s \/ (stage'[u] = s /\ u \in waits') <=>
              stage[u] > s \/ (stage[u] = s /\ u \in waits) \/ (u = t /\ s = stage[t])
    BY <1>1, <1>2, <1>4, <2>1, <2>2
  <2>5. \A u, v \in Actors : \A s \in 1..L - 1 :
          stage'[v] > s => stage'[u] > s \/ (stage'[u] = s /\ u \in waits')
    BY <1>1, <1>2, <1>4, <2>1, <2>2
  <2> QED BY <1>1, <1>2, <1>3, <2>1, <2>2, <2>3, <2>4, <2>5 DEF StageInv, BarrierInv, Done
<1>5. CASE stage[t] # L
  <2>1. stage' = stage /\ waits' = waits \union {t} BY <1>1, <1>5 DEF Arrive
  <2>2. stage[t] < L
    <3>1. stage[t] \in 1..L + 1 /\ stage[t] <= L BY <1>1, <1>2
    <3> QED BY <1>5, <3>1
  <2>3. \A u \in waits' : stage'[u] < L BY <1>2, <2>1, <2>2
  <2>4. \A u \in Actors : \A s \in 1..L :
          stage'[u] > s \/ (stage'[u] = s /\ u \in waits') <=>
              stage[u] > s \/ (stage[u] = s /\ u \in waits) \/ (u = t /\ s = stage[t])
    BY <2>1
  <2>5. \A u, v \in Actors : \A s \in 1..L - 1 :
          stage'[v] > s => stage'[u] > s \/ (stage'[u] = s /\ u \in waits')
    BY <1>2, <2>1
  <2> QED BY <1>1, <1>2, <1>3, <2>1, <2>3, <2>4, <2>5 DEF StageInv, BarrierInv, Done
<1> QED BY <1>4, <1>5

\* Passing a barrier is no news to anybody.
LEMMA SyncIs ==
    ASSUME StageInv, BarrierInv, NEW t \in Actors, Syncthreads(t)
    PROVE  /\ StageInv' /\ BarrierInv'
           /\ \A u \in Actors : \A s \in 1..LastStage : Done(u, s)' <=> Done(u, s)
<1>1. PICK L \in Nat : L = LastStage /\ L >= 3 BY TeamIs
<1>2. /\ stage \in [Actors -> 1..L + 1] /\ waits \subseteq Actors
      /\ \A u \in waits : stage[u] < L
      /\ \A u, v \in Actors : \A s \in 1..L - 1 :
            stage[v] > s => stage[u] > s \/ (stage[u] = s /\ u \in waits)
  BY <1>1 DEF StageInv, BarrierInv, Done
<1>3. /\ t \in waits /\ stage' = [stage EXCEPT ![t] = @ + 1] /\ waits' = waits \ {t} /\ arg' = arg
      /\ \A u \in Actors : stage[u] > stage[t] \/ (stage[u] = stage[t] /\ u \in waits)
  BY DEF Syncthreads, BarrierOpen
<1>4. Actors' = Actors /\ LastStage' = L BY <1>1, <1>3, SameArg
<1>5. PICK k \in 1..L - 1 : k = stage[t]
  <2>1. stage[t] \in 1..L + 1 /\ stage[t] < L BY <1>2, <1>3
  <2> QED BY <2>1
<1>6. stage' \in [Actors -> 1..L + 1] /\ \A u \in Actors : stage'[u] = IF u = t THEN k + 1 ELSE stage[u]
  BY <1>2, <1>3, <1>5
<1>7. \A u \in waits' : stage'[u] < L BY <1>2, <1>3, <1>6
<1>8. ASSUME NEW u \in Actors, NEW s \in 1..L
      PROVE  stage'[u] > s \/ (stage'[u] = s /\ u \in waits') <=>
                 stage[u] > s \/ (stage[u] = s /\ u \in waits)
  <2>1. CASE u = t BY <1>3, <1>5, <1>6, <2>1
  <2>2. CASE u # t BY <1>3, <1>6, <2>2
  <2> QED BY <2>1, <2>2
<1>9. ASSUME NEW u \in Actors, NEW v \in Actors, NEW s \in 1..L - 1, stage'[v] > s
      PROVE  stage'[u] > s \/ (stage'[u] = s /\ u \in waits')
  <2>1. s \in 1..L BY <1>1
  <2>2. stage[u] > s \/ (stage[u] = s /\ u \in waits)
    <3>1. CASE v # t BY <1>2, <1>6, <1>9, <3>1
    <3>2. CASE v = t
      <4>1. s < k \/ s = k BY <1>5, <1>6, <1>9, <3>2
      <4>2. CASE s < k BY <1>2, <1>5, <4>2
      <4>3. CASE s = k BY <1>3, <1>5, <4>3
      <4> QED BY <4>1, <4>2, <4>3
    <3> QED BY <3>1, <3>2
  <2> QED BY <1>8, <2>1, <2>2
<1>10. StageInv' BY <1>2, <1>3, <1>4, <1>6, <1>7 DEF StageInv
<1>11. BarrierInv' BY <1>4, <1>9 DEF BarrierInv, Done
<1>12. \A u \in Actors : \A s \in 1..LastStage : Done(u, s)' <=> Done(u, s) BY <1>1, <1>8 DEF Done
<1> QED BY <1>10, <1>11, <1>12

\* An actor at work in a stage has not arrived behind it, but everybody behind the one before.
LEMMA InStageIs ==
    ASSUME StageInv, BarrierInv, NEW t \in Actors, NEW s \in 1..LastStage, InStage(t, s)
    PROVE  /\ t \notin waits /\ stage[t] = s
           /\ \A u \in Actors : \A r \in 1..LastStage : r < s => Done(u, r)
           /\ \A r \in 1..LastStage : r >= s => ~Done(t, r)
           /\ \A u \in Actors : \A r \in 1..LastStage : r > s => ~Done(u, r)
<1>1. PICK L \in Nat : L = LastStage /\ L >= 3 BY TeamIs
<1>2. t \notin waits /\ stage[t] = s BY DEF InStage
<1>3. ASSUME NEW u \in Actors, NEW r \in 1..L, r < s PROVE Done(u, r)
  <2>1. r \in 1..L - 1 /\ stage[t] > r BY <1>1, <1>2, <1>3
  <2> QED BY <1>1, <2>1 DEF BarrierInv
<1>4. ASSUME NEW r \in 1..L, r >= s PROVE ~Done(t, r) BY <1>1, <1>2, <1>4 DEF Done
<1>5. ASSUME NEW u \in Actors, NEW r \in 1..L, r > s, Done(u, r) PROVE FALSE
  <2>1. stage[u] \in 1..L + 1 BY <1>1 DEF StageInv
  <2>2. stage[u] > s BY <1>1, <1>5, <2>1 DEF Done
  <2>3. s \in 1..L - 1 BY <1>1, <1>5
  <2>4. Done(t, s) BY <1>1, <2>2, <2>3 DEF BarrierInv
  <2> QED BY <1>2, <2>4 DEF Done
<1> QED BY <1>1, <1>2, <1>3, <1>4, <1>5

\* What an action leaves alone keeps its part of the invariant.
LEMMA LoadFrame ==
    ASSUME LoadInv, arg' = arg, s_q' = s_q,
           \A u \in Actors : Done(u, LoadStage)' <=> Done(u, LoadStage)
    PROVE  LoadInv'
<1>1. Actors' = Actors /\ Heads' = Heads BY SameArg
<1>2. \A h, d : QElement(h, d)' = QElement(h, d) BY SameArg
<1>3. \A t, i : Strided(t, i)' = Strided(t, i) BY SameArg
<1> QED BY <1>1, <1>2, <1>3 DEF LoadInv, IsFcn

\* The same for the private sums.
LEMMA WalkFrame ==
    ASSUME WalkInv, arg' = arg, next_p' = next_p, priv' = priv,
           \A u \in Actors : Done(u, WalkStage)' <=> Done(u, WalkStage)
    PROVE  WalkInv'
<1>1. Actors' = Actors /\ Heads' = Heads /\ Team' = Team /\ Positions' = Positions BY SameArg
<1>2. \A part, h, P : SumIs(part, h, P)' = SumIs(part, h, P) BY SameArg
<1>3. \A t : WalkedOver(t)' = WalkedOver(t) BY <1>1 DEF WalkedOver
<1> QED BY <1>1, <1>2, <1>3 DEF WalkInv, IsFcn

\* The same for the parts in shared memory.
LEMMA PartFrame ==
    ASSUME PartInv, arg' = arg, s_part' = s_part,
           \A u \in Actors : \A s \in WalkStage..LastStage - 1 : Done(u, s)' <=> Done(u, s)
    PROVE  PartInv'
<1>1. Actors' = Actors /\ Heads' = Heads /\ Positions' = Positions /\ LastStage' = LastStage
  BY SameArg
<1>2. \A s : Width(s)' = Width(s) BY SameArg
<1>3. \A part, h, P : SumIs(part, h, P)' = SumIs(part, h, P) BY SameArg
<1>4. \A t, w : Class(t, w)' = Class(t, w) BY <1>1 DEF Class
<1>5. ASSUME NEW t \in Actors, NEW s \in WalkStage..LastStage - 1, Holds(t, s)' PROVE Holds(t, s)
  <2>1. \A r \in s + 1..LastStage - 1 : r \in WalkStage..LastStage - 1 BY TeamIs DEF WalkStage
  <2>2. Done(t, s)' /\ t < Width(s) BY <1>2, <1>5 DEF Holds
  <2>3. \A r \in s + 1..LastStage - 1 : ~(Done(t, r)' /\ t < Width(r)) BY <1>1, <1>2, <1>5 DEF Holds
  <2> QED BY <2>1, <2>2, <2>3 DEF Holds
<1>6. IsFcn(s_part, Actors)' /\ (\A t \in Actors : IsFcn(s_part[t], Heads))'
  BY <1>1 DEF PartInv, IsFcn
<1>7. ASSUME NEW t \in Actors, NEW s \in WalkStage..LastStage - 1, Holds(t, s)', NEW h \in Heads
      PROVE  SumIs(s_part[t][h], h, Class(t, Width(s)))'
  <2>1. SumIs(s_part[t][h], h, Class(t, Width(s))) BY <1>5, <1>7 DEF PartInv
  <2>2. SumIs(s_part[t][h], h, Class(t, Width(s)))' <=> SumIs(s_part[t][h], h, Class(t, Width(s)))
    BY <1>2, <1>3, <1>4, Zenon DEF SumIs
  <2> QED BY <2>1, <2>2
<1> QED BY <1>1, <1>6, <1>7 DEF PartInv, WalkStage

\* The same for what is written.
LEMMA OutFrame ==
    ASSUME OutInv, arg' = arg, out' = out,
           \A u \in Actors : Done(u, LastStage)' <=> Done(u, LastStage)
    PROVE  OutInv'
<1>1. Actors' = Actors /\ Heads' = Heads /\ Positions' = Positions /\ LastStage' = LastStage
  BY SameArg
<1>2. \A part, h, P : SumIs(part, h, P)' = SumIs(part, h, P) BY SameArg
<1>3. \A t, h, d : Owns(t, h, d)' = Owns(t, h, d) BY SameArg
<1>4. IsFcn(out, Heads)' /\ (\A h \in Heads : IsFcn(out[h], Dims))' BY <1>1 DEF OutInv, IsFcn
<1>5. ASSUME NEW t \in Actors, Done(t, LastStage)', NEW h \in Heads, NEW d \in Dims, Owns(t, h, d)
      PROVE  SumIs(out[h][d], h, Positions)
  <2>1. Done(t, LastStage) BY <1>1, <1>5
  <2> QED BY <1>5, <2>1 DEF OutInv
<1> QED BY <1>1, <1>2, <1>3, <1>4, <1>5 DEF OutInv

-----------------------------------------------------------------------------
(* The actions of the block.                                               *)

\* When an actor arrives behind stage s, that is all that is new.
LEMMA ArriveBehind ==
    ASSUME StageInv, BarrierInv, arg' = arg, NEW t \in Actors, NEW s \in 1..LastStage,
           InStage(t, s), Arrive(t)
    PROVE  /\ StageInv' /\ BarrierInv'
           /\ \A u \in Actors : \A r \in 1..LastStage :
                 Done(u, r)' <=> Done(u, r) \/ (u = t /\ r = s)
<1>1. t \notin waits /\ stage[t] = s BY DEF InStage
<1>2. stage[t] <= LastStage BY <1>1, TeamIs
<1>3. StageInv' /\ BarrierInv' BY <1>1, <1>2, ArriveIs
<1>4. \A u \in Actors : \A r \in 1..LastStage :
          Done(u, r)' <=> Done(u, r) \/ (u = t /\ r = stage[t])
  BY <1>1, <1>2, ArriveIs
<1> QED BY <1>1, <1>3, <1>4

\* Load: the elements of the actor are in.
LEMMA LoadKeeps == ASSUME BlockInv, NEW t \in Actors, Load(t) PROVE BlockInv'
<1>1. /\ ArgFits /\ StageInv /\ BarrierInv /\ LoadInv /\ WalkInv /\ PartInv /\ OutInv
  BY DEF BlockInv
<1>2. /\ InStage(t, LoadStage) /\ Arrive(t)
      /\ arg' = arg /\ next_p' = next_p /\ priv' = priv /\ s_part' = s_part /\ out' = out
      /\ s_q' = [h \in Heads |-> [d \in Dims |->
             IF Strided(t, (h % Cardinality(Heads)) * HeadDim + d)
                 THEN QElement(h, d) ELSE s_q[h][d]]]
  BY DEF Load
<1>3. PICK L \in Nat : L = LastStage /\ L >= 3 BY TeamIs
<1>4. LoadStage = 1 /\ WalkStage = 2 BY DEF LoadStage, WalkStage
<1>5. /\ StageInv' /\ BarrierInv'
      /\ \A u \in Actors : \A r \in 1..LastStage : Done(u, r)' <=> Done(u, r) \/ (u = t /\ r = LoadStage)
  <2>1. LoadStage \in 1..LastStage BY <1>3, <1>4
  <2> QED BY <1>1, <1>2, <2>1, ArriveBehind
<1>6. \A u \in Actors : \A r \in 1..LastStage : r # 1 => (Done(u, r)' <=> Done(u, r)) BY <1>4, <1>5
<1>7. ArgFits' BY <1>1, <1>2, SameArg
<1>8. WalkInv'
  <2>1. \A u \in Actors : Done(u, WalkStage)' <=> Done(u, WalkStage)
    <3>1. WalkStage \in 1..LastStage /\ WalkStage # 1 BY <1>3, <1>4
    <3> QED BY <1>6, <3>1
  <2> QED BY <1>1, <1>2, <2>1, WalkFrame
<1>9. PartInv'
  <2>1. \A u \in Actors : \A s \in WalkStage..LastStage - 1 : Done(u, s)' <=> Done(u, s)
    <3>1. \A s \in WalkStage..LastStage - 1 : s \in 1..LastStage /\ s # 1 BY <1>3, <1>4
    <3> QED BY <1>6, <3>1
  <2> QED BY <1>1, <1>2, <2>1, PartFrame
<1>10. OutInv'
  <2>1. \A u \in Actors : Done(u, LastStage)' <=> Done(u, LastStage)
    <3>1. LastStage \in 1..LastStage /\ LastStage # 1 BY <1>3
    <3>2. LastStage' = LastStage BY <1>2, SameArg
    <3> QED BY <1>6, <3>1, <3>2
  <2> QED BY <1>1, <1>2, <2>1, OutFrame
<1>11. LoadInv'
  <2>1. Actors' = Actors /\ Heads' = Heads BY <1>2, SameArg
  <2>2. \A h, d : QElement(h, d)' = QElement(h, d) BY <1>2, SameArg
  <2>3. \A u, i : Strided(u, i)' = Strided(u, i) BY <1>2, SameArg
  <2>4. IsFcn(s_q', Heads) /\ \A h \in Heads : IsFcn(s_q'[h], Dims) BY <1>2 DEF IsFcn
  <2>5. ASSUME NEW u \in Actors, Done(u, LoadStage)', NEW h \in Heads, NEW d \in Dims,
               Strided(u, (h % Cardinality(Heads)) * HeadDim + d)
        PROVE  s_q'[h][d] = QElement(h, d)
    <3>1. s_q'[h][d] = IF Strided(t, (h % Cardinality(Heads)) * HeadDim + d)
                           THEN QElement(h, d) ELSE s_q[h][d]
      BY <1>2
    <3>2. CASE u = t BY <2>5, <3>1, <3>2
    <3>3. CASE u # t
      <4>1. Done(u, LoadStage)
        <5>1. LoadStage \in 1..LastStage BY <1>3, <1>4
        <5> QED BY <1>5, <2>5, <3>3, <5>1
      <4>2. s_q[h][d] = QElement(h, d) BY <1>1, <2>5, <4>1 DEF LoadInv
      <4> QED BY <3>1, <4>2
    <3> QED BY <3>2, <3>3
  <2>6. IsFcn(s_q, Heads)' /\ (\A h \in Heads : IsFcn(s_q[h], Dims))' BY <2>1, <2>4 DEF IsFcn
  <2> QED BY <2>1, <2>2, <2>3, <2>5, <2>6 DEF LoadInv, LoadStage
<1> QED BY <1>5, <1>7, <1>8, <1>9, <1>10, <1>11 DEF BlockInv

\* Passing a barrier changes nothing of the rest.
LEMMA SyncKeeps == ASSUME BlockInv, NEW t \in Actors, Syncthreads(t) PROVE BlockInv'
<1>1. ArgFits /\ StageInv /\ BarrierInv /\ LoadInv /\ WalkInv /\ PartInv /\ OutInv BY DEF BlockInv
<1>2. /\ arg' = arg /\ next_p' = next_p /\ priv' = priv /\ s_q' = s_q /\ s_part' = s_part
      /\ out' = out
  BY DEF Syncthreads
<1>3. PICK L \in Nat : L = LastStage /\ L >= 3 BY TeamIs
<1>4. /\ StageInv' /\ BarrierInv'
      /\ \A u \in Actors : \A r \in 1..LastStage : Done(u, r)' <=> Done(u, r)
  BY <1>1, SyncIs
<1>5. LastStage' = LastStage BY <1>2, SameArg
<1>6. /\ LoadStage \in 1..LastStage /\ WalkStage \in 1..LastStage /\ LastStage \in 1..LastStage
      /\ \A s \in WalkStage..LastStage - 1 : s \in 1..LastStage
  BY <1>3 DEF LoadStage, WalkStage
<1>7. ArgFits' BY <1>1, <1>2, SameArg
<1>8. LoadInv'
  <2>1. \A u \in Actors : Done(u, LoadStage)' <=> Done(u, LoadStage) BY <1>4, <1>6
  <2> QED BY <1>1, <1>2, <2>1, LoadFrame
<1>9. WalkInv'
  <2>1. \A u \in Actors : Done(u, WalkStage)' <=> Done(u, WalkStage) BY <1>4, <1>6
  <2> QED BY <1>1, <1>2, <2>1, WalkFrame
<1>10. PartInv'
  <2>1. \A u \in Actors : \A s \in WalkStage..LastStage - 1 : Done(u, s)' <=> Done(u, s) BY <1>4, <1>6
  <2> QED BY <1>1, <1>2, <2>1, PartFrame
<1>11. OutInv'
  <2>1. \A u \in Actors : Done(u, LastStage)' <=> Done(u, LastStage) BY <1>4, <1>5, <1>6
  <2> QED BY <1>1, <1>2, <2>1, OutFrame
<1> QED BY <1>4, <1>7, <1>8, <1>9, <1>10, <1>11 DEF BlockInv

\* Sums over disjoint sets of positions are merged.
LEMMA SumJoins ==
    ASSUME ArgFits, NEW h \in Heads, NEW P \in SUBSET Positions, NEW Q \in SUBSET Positions,
           P \cap Q = {}, NEW a, NEW b, SumIs(a, h, P), SumIs(b, h, Q)
    PROVE  SumIs(Merged(a, b), h, P \union Q)
<1>1. Weighs(arg.score[h], P) /\ Weighs(arg.score[h], Q) BY DEF ArgFits, Weighs
<1>2. Sums(a, arg.score[h], Value, P) /\ Sums(b, arg.score[h], Value, Q) BY DEF SumIs
<1>3. Sums(Merged(a, b), arg.score[h], Value, P \union Q) BY <1>1, <1>2, SumsMerged
<1> QED BY <1>3 DEF SumIs

\* The dot product takes every dimension once.
LEMMA DotDimsOnce == ASSUME ArgFits PROVE ToBag(DotDims) = [d \in Dims |-> 1]
<1>1. CASE Gqa
  <2>1. HeadDim % KWarp = 0 BY <1>1 DEF ArgFits
  <2>2. Lists(WarpDims, Dims) BY <2>1, WarpListsDims
  <2>3. DotDims = WarpDims BY <1>1 DEF DotDims
  <2> QED BY <2>2, <2>3, BagOfSet
<1>2. CASE ~Gqa
  <2>1. PICK n \in Nat : n = HeadDim BY AttentionAssumption
  <2>2. DotDims = [d \in 1..n |-> d - 1] BY <1>2, <2>1 DEF DotDims
  <2>3. \A d \in 1..n : d - 1 \in 0..n - 1 OBVIOUS
  <2>4. DotDims \in [1..n -> 0..n - 1] BY <2>2, <2>3
  <2>5. DotDims \in Seq(0..n - 1) BY <2>4, SeqDef
  <2>6. Len(DotDims) = n BY <2>2
  <2>7. \A p \in 0..n - 1 : p + 1 \in 1..n /\ DotDims[p + 1] = p BY <2>2
  <2>8. \A i, j \in 1..n : DotDims[i] = DotDims[j] => i = j BY <2>2
  <2>9. Dims = 0..n - 1 BY <2>1 DEF Dims
  <2>10. Lists(DotDims, Dims) BY <2>5, <2>6, <2>7, <2>8, <2>9 DEF Lists
  <2> QED BY <2>10, BagOfSet
<1> QED BY <1>1, <1>2

\* With the query in shared memory the score is the score.
LEMMA ScoreIs ==
    ASSUME ArgFits, LoadInv, \A u \in Actors : Done(u, LoadStage), NEW h \in Heads, NEW p \in Positions
    PROVE  Score(h, Read[p]) = arg.score[h][p]
<1>1. ToBag(DotDims) = [d \in Dims |-> 1] BY DotDimsOnce
<1>2. ASSUME NEW d \in Dims PROVE s_q[h][d] = QElement(h, d)
  <2>1. h \in Nat /\ Cardinality(Heads) \in Nat \ {0} BY HeadsAre
  <2>2. PICK r \in Nat : r = h % Cardinality(Heads) BY <2>1, RestIs
  <2>3. r * HeadDim + d \in Nat
    <3>1. PICK n \in Nat : n = HeadDim BY AttentionAssumption
    <3>2. r * n \in Nat /\ d \in Nat BY <3>1 DEF Dims
    <3> QED BY <3>1, <3>2
  <2>4. PICK u \in Actors : Strided(u, r * HeadDim + d) BY <2>3, StridedBySome
  <2> QED BY <2>2, <2>4 DEF LoadInv
<1>3. Read[p].pos = p BY DEF ArgFits
<1> QED BY <1>1, <1>2, <1>3, Zenon DEF Score

\* A position on its own is summed up by its term.
LEMMA TermSums ==
    ASSUME ArgFits, NEW h \in Heads, NEW p \in Positions
    PROVE  SumIs([m |-> arg.score[h][p], l |-> << <<1, 0>> >>,
                  acc |-> << << <<kv_head, Read[p]>>, 0>> >>], h, {p})
<1>1. arg.score[h][p] \in Int BY DEF ArgFits
<1>2. Value[p] = <<kv_head, Read[p]>> BY DEF Value
<1>3. Sums([m |-> arg.score[h][p], l |-> << <<1, 0>> >>, acc |-> << <<Value[p], 0>> >>],
           arg.score[h], Value, {p})
  BY <1>1, SumsFew
<1> QED BY <1>2, <1>3 DEF SumIs

\* Nobody arrives, nobody passes: the stages stay.
LEMMA SameStages ==
    ASSUME StageInv, BarrierInv, arg' = arg, stage' = stage, waits' = waits
    PROVE  /\ StageInv' /\ BarrierInv'
           /\ \A u, s : Done(u, s)' <=> Done(u, s)
<1>1. Actors' = Actors /\ LastStage' = LastStage BY SameArg
<1>2. \A u, s : Done(u, s)' <=> Done(u, s) BY DEF Done
<1>3. StageInv' BY <1>1 DEF StageInv
<1>4. BarrierInv' BY <1>1, <1>2 DEF BarrierInv
<1> QED BY <1>2, <1>3, <1>4

\* A step of the walk adds the actor's next position to its sums.
LEMMA WalkKeeps == ASSUME BlockInv, NEW t \in Actors, Walk(t) PROVE BlockInv'
<1> DEFINE p == next_p[t]
           term(h) == [m |-> Score(h, Read[p]), l |-> << <<1, 0>> >>,
                       acc |-> << << <<kv_head, Read[p]>>, 0>> >>]
<1>1. ArgFits /\ StageInv /\ BarrierInv /\ LoadInv /\ WalkInv /\ PartInv /\ OutInv BY DEF BlockInv
<1>2. /\ InStage(t, WalkStage) /\ p <= arg.pos /\ arg' = arg /\ stage' = stage /\ waits' = waits
      /\ s_q' = s_q /\ s_part' = s_part /\ out' = out
      /\ next_p' = [next_p EXCEPT ![t] = @ + Cardinality(Actors)]
  BY DEF Walk
<1>3. PICK L \in Nat : L = LastStage /\ L >= 3 BY TeamIs
<1>4. LoadStage = 1 /\ WalkStage = 2 BY DEF LoadStage, WalkStage
<1>5. StageInv' /\ BarrierInv' /\ \A u, s : Done(u, s)' <=> Done(u, s) BY <1>1, <1>2, SameStages
<1>6. WalkStage \in 1..LastStage /\ LoadStage \in 1..LastStage BY <1>3, <1>4
<1>7. (\A u \in Actors : Done(u, LoadStage)) /\ ~Done(t, WalkStage)
  <2>1. LoadStage < WalkStage /\ WalkStage >= WalkStage BY <1>4
  <2> QED BY <1>1, <1>2, <1>6, <2>1, InStageIs
<1>8. p \in Positions /\ p \in Nat
  <2>1. p \in Nat /\ arg.pos \in Nat BY <1>1 DEF WalkInv, ArgFits
  <2> QED BY <1>2, <2>1 DEF Positions
<1>9. priv' = [priv EXCEPT ![t] = [h \in Heads |-> Merged(priv[t][h], term(h))]]
  <2>1. Read[p] = arg.cache[SlotAt(arg.tables, table(arg.offset, arg.seq), p)] BY <1>8 DEF Read
  <2> QED BY <2>1 DEF Walk
<1>10. ASSUME NEW h \in Heads PROVE SumIs(term(h), h, {p})
  <2>1. Score(h, Read[p]) = arg.score[h][p] BY <1>1, <1>7, <1>8, ScoreIs
  <2>2. SumIs([m |-> arg.score[h][p], l |-> << <<1, 0>> >>,
               acc |-> << << <<kv_head, Read[p]>>, 0>> >>], h, {p})
    BY <1>1, <1>8, TermSums
  <2> QED BY <2>1, <2>2
<1>11. PICK T \in Nat \ {0} : T = Team /\ Actors = 0..T - 1 /\ Cardinality(Actors) = T BY TeamIs
<1>12. /\ next_p \in [Actors -> Nat] /\ IsFcn(priv, Actors) /\ p % T = t
       /\ \A u \in Actors : next_p[u] % T = u /\ (Done(u, WalkStage) => next_p[u] > arg.pos)
       /\ \A u \in Actors : IsFcn(priv[u], Heads)
       /\ \A u \in Actors : \A h \in Heads : SumIs(priv[u][h], h, WalkedOver(u))
  BY <1>1, <1>11 DEF WalkInv
<1>13. (p + T) % T = t /\ \A r \in Nat : p < r /\ r < p + T => r % T # t
  <2>1. t \in 0..T - 1 BY <1>11
  <2> QED BY <1>8, <1>12, <2>1, RestNext
<1> HIDE DEF term
<1>14. /\ Actors' = Actors /\ Heads' = Heads /\ Team' = Team /\ Positions' = Positions
       /\ \A part, h, P : SumIs(part, h, P)' = SumIs(part, h, P)
  BY <1>2, SameArg
<1>15. /\ next_p' \in [Actors -> Nat] /\ next_p'[t] = p + T
       /\ \A u \in Actors : u # t => next_p'[u] = next_p[u]
  <2>1. p + T \in Nat BY <1>8
  <2> QED BY <1>2, <1>11, <1>12, <2>1
<1>16. /\ IsFcn(priv', Actors) /\ priv'[t] = [h \in Heads |-> Merged(priv[t][h], term(h))]
       /\ \A u \in Actors : u # t => priv'[u] = priv[u]
  BY <1>9, <1>12 DEF IsFcn
<1>17. WalkedOver(t)' = WalkedOver(t) \union {p} /\ p \notin WalkedOver(t)
  <2>1. WalkedOver(t)' = {r \in Positions : r % T = t /\ r < p + T}
    BY <1>11, <1>14, <1>15 DEF WalkedOver
  <2>2. WalkedOver(t) = {r \in Positions : r % T = t /\ r < p} BY <1>11 DEF WalkedOver
  <2>3. ASSUME NEW r \in Positions PROVE (r % T = t /\ r < p + T) <=> (r % T = t /\ r < p) \/ r = p
    <3>1. r \in Nat BY <1>1 DEF Positions, ArgFits
    <3>2. CASE r < p BY <1>8, <3>1, <3>2
    <3>3. CASE r = p BY <1>8, <1>12, <3>3
    <3>4. CASE r > p BY <1>8, <1>13, <3>1, <3>4
    <3> QED BY <1>8, <3>1, <3>2, <3>3, <3>4
  <2>4. p \notin WalkedOver(t) BY <1>8, <2>2
  <2> QED BY <1>8, <2>1, <2>2, <2>3, <2>4
<1>18. ASSUME NEW u \in Actors, NEW h \in Heads PROVE SumIs(priv'[u][h], h, WalkedOver(u)')
  <2>1. CASE u = t
    <3>1. SumIs(priv[t][h], h, WalkedOver(t)) /\ SumIs(term(h), h, {p}) BY <1>10, <1>12
    <3>2. WalkedOver(t) \in SUBSET Positions /\ {p} \in SUBSET Positions BY <1>8 DEF WalkedOver
    <3>3. WalkedOver(t) \cap {p} = {} BY <1>17
    <3>4. SumIs(Merged(priv[t][h], term(h)), h, WalkedOver(t) \union {p})
      BY <1>1, <3>1, <3>2, <3>3, SumJoins
    <3> QED BY <1>16, <1>17, <2>1, <3>4
  <2>2. CASE u # t
    <3>1. WalkedOver(u)' = WalkedOver(u) BY <1>14, <1>15, <2>2 DEF WalkedOver
    <3> QED BY <1>12, <1>16, <2>2, <3>1
  <2> QED BY <2>1, <2>2
<1>19. ASSUME NEW u \in Actors
       PROVE  /\ next_p'[u] % Team = u /\ IsFcn(priv'[u], Heads)
              /\ Done(u, WalkStage)' => next_p'[u] > arg.pos
  <2>1. CASE u = t
    <3>1. IsFcn(priv'[u], Heads) BY <1>16, <2>1 DEF IsFcn
    <3>2. ~Done(u, WalkStage)' BY <1>5, <1>7, <2>1
    <3> QED BY <1>11, <1>13, <1>15, <2>1, <3>1, <3>2
  <2>2. CASE u # t BY <1>5, <1>11, <1>12, <1>15, <1>16, <2>2
  <2> QED BY <2>1, <2>2
<1>20. WalkInv'
  <2>1. IsFcn(priv, Actors)' /\ \A u \in Actors : IsFcn(priv[u], Heads)' BY <1>14, <1>16, <1>19 DEF IsFcn
  <2>2. \A u \in Actors : \A h \in Heads : SumIs(priv[u][h], h, WalkedOver(u))'
    <3>1. ASSUME NEW u \in Actors, NEW h \in Heads PROVE SumIs(priv[u][h], h, WalkedOver(u))'
      <4>1. SumIs(priv'[u][h], h, WalkedOver(u)') BY <1>18
      <4> QED BY <1>2, <1>14, <4>1 DEF SumIs, Value, Read, kv_head, Gqa
    <3> QED BY <3>1
  <2> QED BY <1>2, <1>14, <1>15, <1>19, <2>1, <2>2 DEF WalkInv
<1>21. ArgFits' BY <1>1, <1>2, SameArg
<1>22. LoadInv' BY <1>1, <1>2, <1>5, LoadFrame
<1>23. PartInv' BY <1>1, <1>2, <1>5, PartFrame
<1>24. OutInv'
  <2>1. LastStage' = LastStage BY <1>2, SameArg
  <2>2. \A u \in Actors : Done(u, LastStage)' <=> Done(u, LastStage) BY <1>5, <2>1
  <2> QED BY <1>1, <1>2, <2>2, OutFrame
<1> QED BY <1>5, <1>20, <1>21, <1>22, <1>23, <1>24 DEF BlockInv

\* The parts after actor t has arrived behind a merge.
LEMMA PartStep ==
    ASSUME PartInv, arg' = arg, NEW t \in Actors, NEW k \in WalkStage..LastStage - 1,
           \A u \in Actors : \A r \in 1..LastStage : Done(u, r)' <=> Done(u, r) \/ (u = t /\ r = k),
           \A r \in 1..LastStage : r >= k => ~Done(t, r),
           IsFcn(s_part', Actors), IsFcn(s_part'[t], Heads),
           \A u \in Actors : u # t => s_part'[u] = s_part[u],
           t < Width(k) => \A h \in Heads : SumIs(s_part'[t][h], h, Class(t, Width(k))),
           ~(t < Width(k)) => s_part'[t] = s_part[t]
    PROVE  PartInv'
<1>1. Actors' = Actors /\ Heads' = Heads /\ Positions' = Positions /\ LastStage' = LastStage
  BY SameArg
<1>2. \A s : Width(s)' = Width(s) BY SameArg
<1>3. \A part, h, P : SumIs(part, h, P)' = SumIs(part, h, P) BY SameArg
<1>4. \A u, w : Class(u, w)' = Class(u, w) BY <1>1 DEF Class
<1>5. PICK L \in Nat : L = LastStage BY TeamIs
<1>6. k \in WalkStage..L - 1 /\ WalkStage = 2 BY <1>5 DEF WalkStage
<1>7. IsFcn(s_part, Actors)' /\ (\A u \in Actors : IsFcn(s_part[u], Heads))'
  BY <1>1 DEF PartInv, IsFcn
<1>8. ASSUME NEW u \in Actors, NEW s \in WalkStage..L - 1, Holds(u, s)', NEW h \in Heads
      PROVE  SumIs(s_part'[u][h], h, Class(u, Width(s)))
  <2>1. s \in 1..LastStage /\ \A r \in s + 1..LastStage - 1 : r \in 1..LastStage BY <1>5, <1>6
  <2>2. Done(u, s)' /\ u < Width(s) BY <1>2, <1>8 DEF Holds
  <2>3. \A r \in s + 1..LastStage - 1 : ~(Done(u, r)' /\ u < Width(r)) BY <1>1, <1>2, <1>8 DEF Holds
  <2>4. \A r \in s + 1..LastStage - 1 : ~(Done(u, r) /\ u < Width(r)) BY <2>1, <2>3
  <2>5. CASE Done(u, s) /\ s_part'[u] = s_part[u]
    <3>1. Holds(u, s) BY <2>2, <2>4, <2>5 DEF Holds
    <3>2. SumIs(s_part[u][h], h, Class(u, Width(s))) BY <1>5, <3>1 DEF PartInv
    <3> QED BY <2>5, <3>2
  <2>6. CASE u = t /\ s = k BY <2>2, <2>6
  <2>7. CASE u # t
    <3>1. Done(u, s) BY <2>1, <2>2, <2>7
    <3> QED BY <2>5, <2>7, <3>1
  <2>8. CASE u = t /\ s # k
    <3>1. Done(t, s) BY <2>1, <2>2, <2>8
    <3>2. s < k BY <1>6, <2>1, <2>8, <3>1
    <3>3. k \in s + 1..LastStage - 1 /\ k \in 1..LastStage BY <1>5, <1>6, <3>2
    <3>4. Done(t, k)' BY <3>3
    <3>5. ~(t < Width(k)) BY <2>3, <2>8, <3>3, <3>4
    <3> QED BY <2>5, <2>8, <3>1, <3>5
  <2> QED BY <2>6, <2>7, <2>8
<1>9. Value' = Value BY SameArg
<1>10. ASSUME NEW u \in Actors, NEW s \in WalkStage..L - 1, Holds(u, s)', NEW h \in Heads
      PROVE  SumIs(s_part[u][h], h, Class(u, Width(s)))'
  <2>1. SumIs(s_part'[u][h], h, Class(u, Width(s))) BY <1>8, <1>10
  <2>2. SumIs(s_part[u][h], h, Class(u, Width(s)))' <=> SumIs(s_part'[u][h], h, Class(u, Width(s)))
    BY <1>2, <1>4, <1>9, Zenon DEF SumIs
  <2> QED BY <2>1, <2>2
<1> QED BY <1>1, <1>5, <1>7, <1>10 DEF PartInv, WalkStage

\* Behind the walk the part of an actor is what it has walked over, all of its positions.
LEMMA WalkDoneKeeps == ASSUME BlockInv, NEW t \in Actors, WalkDone(t) PROVE BlockInv'
<1>1. ArgFits /\ StageInv /\ BarrierInv /\ LoadInv /\ WalkInv /\ PartInv /\ OutInv BY DEF BlockInv
<1>2. /\ InStage(t, WalkStage) /\ next_p[t] > arg.pos /\ Arrive(t)
      /\ s_part' = [s_part EXCEPT ![t] = priv[t]]
      /\ arg' = arg /\ next_p' = next_p /\ priv' = priv /\ s_q' = s_q /\ out' = out
  BY DEF WalkDone
<1>3. PICK L \in Nat : L = LastStage /\ L >= 3 BY TeamIs
<1>4. LoadStage = 1 /\ WalkStage = 2 BY DEF LoadStage, WalkStage
<1>5. /\ WalkStage \in 1..LastStage /\ WalkStage \in WalkStage..LastStage - 1
      /\ LoadStage \in 1..LastStage /\ LoadStage # WalkStage
      /\ LastStage \in 1..LastStage /\ LastStage # WalkStage
  BY <1>3, <1>4
<1>6. /\ StageInv' /\ BarrierInv'
      /\ \A u \in Actors : \A r \in 1..LastStage : Done(u, r)' <=> Done(u, r) \/ (u = t /\ r = WalkStage)
  BY <1>1, <1>2, <1>5, ArriveBehind
<1>7. \A r \in 1..LastStage : r >= WalkStage => ~Done(t, r) BY <1>1, <1>2, <1>5, InStageIs
<1>8. /\ Actors' = Actors /\ Heads' = Heads /\ Team' = Team /\ Positions' = Positions
      /\ LastStage' = LastStage
  BY <1>2, SameArg
<1>9. PartInv'
  <2>1. /\ IsFcn(s_part, Actors) /\ IsFcn(priv[t], Heads)
        /\ \A h \in Heads : SumIs(priv[t][h], h, WalkedOver(t))
    BY <1>1 DEF PartInv, WalkInv
  <2>2. /\ IsFcn(s_part', Actors) /\ s_part'[t] = priv[t]
        /\ \A u \in Actors : u # t => s_part'[u] = s_part[u]
    BY <1>2, <2>1 DEF IsFcn
  <2>3. Width(WalkStage) = Team /\ t < Team
    <3>1. PICK T \in Nat \ {0} : T = Team /\ Actors = 0..T - 1 BY TeamIs
    <3>2. t < T BY <3>1
    <3> QED BY <3>1, <3>2, TeamIs
  <2>4. WalkedOver(t) = Class(t, Width(WalkStage))
    <3>1. \A p \in Positions : p < next_p[t]
      <4>1. arg.pos \in Nat /\ next_p[t] \in Nat BY <1>1 DEF ArgFits, WalkInv
      <4> QED BY <1>2, <4>1 DEF Positions
    <3> QED BY <2>3, <3>1 DEF WalkedOver, Class
  <2>5. \A h \in Heads : SumIs(s_part'[t][h], h, Class(t, Width(WalkStage))) BY <2>1, <2>2, <2>4
  <2>6. IsFcn(s_part'[t], Heads) BY <2>1, <2>2
  <2>7. t < Width(WalkStage) BY <2>3
  <2> QED BY <1>1, <1>2, <1>5, <1>6, <1>7, <2>2, <2>5, <2>6, <2>7, PartStep
<1>10. WalkInv'
  <2>1. \A part, h, P : SumIs(part, h, P)' = SumIs(part, h, P) BY <1>2, SameArg
  <2>2. \A u : WalkedOver(u)' = WalkedOver(u) BY <1>2, <1>8 DEF WalkedOver
  <2>3. \A u \in Actors : Done(u, WalkStage)' => next_p[u] > arg.pos
    BY <1>1, <1>2, <1>5, <1>6 DEF WalkInv
  <2> QED BY <1>1, <1>2, <1>8, <2>1, <2>2, <2>3 DEF WalkInv, IsFcn
<1>11. ArgFits' BY <1>1, <1>2, SameArg
<1>12. LoadInv'
  <2>1. \A u \in Actors : Done(u, LoadStage)' <=> Done(u, LoadStage) BY <1>5, <1>6
  <2> QED BY <1>1, <1>2, <2>1, LoadFrame
<1>13. OutInv'
  <2>1. \A u \in Actors : Done(u, LastStage)' <=> Done(u, LastStage) BY <1>5, <1>6, <1>8
  <2> QED BY <1>1, <1>2, <2>1, OutFrame
<1> QED BY <1>6, <1>9, <1>10, <1>11, <1>12, <1>13 DEF BlockInv

\* A merge: half of the actors take over from the other half.
LEMMA MergePairKeeps == ASSUME BlockInv, NEW t \in Actors, MergePair(t) PROVE BlockInv'
<1>1. ArgFits /\ StageInv /\ BarrierInv /\ LoadInv /\ WalkInv /\ PartInv /\ OutInv BY DEF BlockInv
<1>2. /\ ~Gqa /\ Arrive(t)
      /\ arg' = arg /\ next_p' = next_p /\ priv' = priv /\ s_q' = s_q /\ out' = out
  BY DEF MergePair
<1>3. PICK k \in WalkStage + 1..LastStage - 1 :
          /\ InStage(t, k)
          /\ s_part' = IF t < Stride(k)
                       THEN [s_part EXCEPT ![t] =
                                [h \in Heads |-> Merged(s_part[t][h], s_part[t + Stride(k)][h])]]
                       ELSE s_part
  BY DEF MergePair
<1>4. PICK L \in Nat : L = LastStage /\ L >= 3 BY TeamIs
<1>5. LoadStage = 1 /\ WalkStage = 2 BY DEF LoadStage, WalkStage
<1>6. k \in 3..L - 1 BY <1>4, <1>5
<1>7. /\ k \in 1..LastStage /\ k \in WalkStage..LastStage - 1
      /\ k - 1 \in 1..LastStage /\ k - 1 \in WalkStage..LastStage - 1
      /\ LoadStage \in 1..LastStage /\ LoadStage # k
      /\ WalkStage \in 1..LastStage /\ WalkStage # k
      /\ LastStage \in 1..LastStage /\ LastStage # k
  BY <1>4, <1>5, <1>6
<1>8. /\ StageInv' /\ BarrierInv'
      /\ \A u \in Actors : \A r \in 1..LastStage : Done(u, r)' <=> Done(u, r) \/ (u = t /\ r = k)
  BY <1>1, <1>2, <1>3, <1>7, ArriveBehind
<1>9. /\ \A u \in Actors : \A r \in 1..LastStage : r < k => Done(u, r)
      /\ \A r \in 1..LastStage : r >= k => ~Done(t, r)
      /\ \A u \in Actors : \A r \in 1..LastStage : r > k => ~Done(u, r)
  BY <1>1, <1>3, <1>7, InStageIs
<1>10. PICK T \in Nat \ {0} : T = Team /\ Actors = 0..T - 1 BY TeamIs
<1>11. PICK S \in Nat \ {0} : S = Width(k) BY <1>7, TeamIs
<1>12. Stride(k) = S BY <1>2, <1>11 DEF Width
<1>13. Width(k - 1) = 2 * S /\ 2 * S <= T
  <2>1. Width(k - 1) = 2 * S BY <1>2, <1>3, <1>11, TeamIs
  <2>2. Width(k - 1) <= Team BY <1>7, TeamIs
  <2> QED BY <1>10, <2>1, <2>2
<1>14. IsFcn(s_part, Actors) /\ \A u \in Actors : IsFcn(s_part[u], Heads) BY <1>1 DEF PartInv
<1>15. PartInv'
  <2>1. CASE ~(t < S)
    <3>1. s_part' = s_part BY <1>3, <1>12, <2>1
    <3>2. ~(t < Width(k)) BY <1>11, <2>1
    <3> QED BY <1>1, <1>2, <1>7, <1>8, <1>9, <1>14, <3>1, <3>2, PartStep
  <2>2. CASE t < S
    <3>1. PICK u \in Actors : u = t + S
      <4>1. t + S \in 0..T - 1 BY <1>10, <1>13, <2>2
      <4> QED BY <1>10, <4>1
    <3>2. Holds(t, k - 1)
      <4>1. Done(t, k - 1) /\ t < Width(k - 1) BY <1>6, <1>7, <1>9, <1>10, <1>13, <2>2
      <4>2. \A r \in (k - 1) + 1..LastStage - 1 : r \in 1..LastStage /\ r >= k BY <1>4, <1>6
      <4>3. \A r \in (k - 1) + 1..LastStage - 1 : ~(Done(t, r) /\ t < Width(r)) BY <1>9, <4>2
      <4> QED BY <4>1, <4>3 DEF Holds
    <3>3. Holds(u, k - 1)
      <4>1. Done(u, k - 1) /\ u < Width(k - 1) BY <1>6, <1>7, <1>9, <1>10, <1>13, <2>2, <3>1
      <4>2. \A r \in (k - 1) + 1..LastStage - 1 : r \in 1..LastStage /\ (r = k \/ r > k) BY <1>4, <1>6
      <4>3. ~(u < Width(k)) BY <1>10, <1>11, <3>1
      <4>4. \A r \in (k - 1) + 1..LastStage - 1 : ~(Done(u, r) /\ u < Width(r)) BY <1>9, <4>2, <4>3
      <4> QED BY <4>1, <4>4 DEF Holds
    <3>4. ASSUME NEW h \in Heads
          PROVE  SumIs(Merged(s_part[t][h], s_part[u][h]), h, Class(t, Width(k)))
      <4>1. SumIs(s_part[t][h], h, Class(t, 2 * S)) /\ SumIs(s_part[u][h], h, Class(u, 2 * S))
        BY <1>1, <1>7, <1>13, <3>2, <3>3 DEF PartInv
      <4>2. Class(t, 2 * S) \in SUBSET Positions /\ Class(u, 2 * S) \in SUBSET Positions BY DEF Class
      <4>3. t # u BY <1>10, <3>1
      <4>4. Class(t, 2 * S) \cap Class(u, 2 * S) = {} BY <4>3 DEF Class
      <4>5. \A p \in Positions : p % S = t <=> p % (2 * S) = t \/ p % (2 * S) = u
        <5>1. t \in 0..S - 1 BY <1>10, <2>2
        <5>2. \A p \in Positions : p \in Nat BY <1>1 DEF Positions, ArgFits
        <5> QED BY <3>1, <5>1, <5>2, RestHalf
      <4>6. Class(t, 2 * S) \union Class(u, 2 * S) = Class(t, Width(k)) BY <1>11, <4>5 DEF Class
      <4>7. SumIs(Merged(s_part[t][h], s_part[u][h]), h, Class(t, 2 * S) \union Class(u, 2 * S))
        BY <1>1, <4>1, <4>2, <4>4, SumJoins
      <4> QED BY <4>6, <4>7
    <3>5. s_part' = [s_part EXCEPT ![t] = [h \in Heads |-> Merged(s_part[t][h], s_part[u][h])]]
      BY <1>3, <1>12, <2>2, <3>1
    <3>6. /\ IsFcn(s_part', Actors)
          /\ s_part'[t] = [h \in Heads |-> Merged(s_part[t][h], s_part[u][h])]
          /\ \A v \in Actors : v # t => s_part'[v] = s_part[v]
      BY <1>14, <3>5 DEF IsFcn
    <3>7. IsFcn(s_part'[t], Heads) BY <3>6 DEF IsFcn
    <3>8. \A h \in Heads : SumIs(s_part'[t][h], h, Class(t, Width(k))) BY <3>4, <3>6
    <3>9. t < Width(k) BY <1>11, <2>2
    <3> QED BY <1>1, <1>2, <1>7, <1>8, <1>9, <3>6, <3>7, <3>8, <3>9, PartStep
  <2> QED BY <2>1, <2>2
<1>16. ArgFits' BY <1>1, <1>2, SameArg
<1>17. LoadInv'
  <2>1. \A u \in Actors : Done(u, LoadStage)' <=> Done(u, LoadStage) BY <1>7, <1>8
  <2> QED BY <1>1, <1>2, <2>1, LoadFrame
<1>18. WalkInv'
  <2>1. \A u \in Actors : Done(u, WalkStage)' <=> Done(u, WalkStage) BY <1>7, <1>8
  <2> QED BY <1>1, <1>2, <2>1, WalkFrame
<1>19. OutInv'
  <2>1. LastStage' = LastStage BY <1>2, SameArg
  <2>2. \A u \in Actors : Done(u, LastStage)' <=> Done(u, LastStage) BY <1>7, <1>8, <2>1
  <2> QED BY <1>1, <1>2, <2>2, OutFrame
<1> QED BY <1>8, <1>15, <1>16, <1>17, <1>18, <1>19 DEF BlockInv

\* What is written after actor t has ended.
LEMMA OutStep ==
    ASSUME OutInv, arg' = arg, NEW t \in Actors,
           \A u \in Actors : \A r \in 1..LastStage :
               Done(u, r)' <=> Done(u, r) \/ (u = t /\ r = LastStage),
           IsFcn(out', Heads), \A h \in Heads : IsFcn(out'[h], Dims),
           \A h \in Heads : \A d \in Dims :
               IF Owns(t, h, d) THEN SumIs(out'[h][d], h, Positions) ELSE out'[h][d] = out[h][d]
    PROVE  OutInv'
<1>1. Actors' = Actors /\ Heads' = Heads /\ Positions' = Positions /\ LastStage' = LastStage
      /\ Value' = Value
  BY SameArg
<1>2. \A part, h, P : SumIs(part, h, P)' = SumIs(part, h, P) BY SameArg
<1>3. \A u, h, d : Owns(u, h, d)' = Owns(u, h, d) BY SameArg
<1>4. IsFcn(out, Heads)' /\ (\A h \in Heads : IsFcn(out[h], Dims))' BY <1>1 DEF IsFcn
<1>5. LastStage \in 1..LastStage
  <2>1. PICK L \in Nat : L = LastStage /\ L >= 3 BY TeamIs
  <2> QED BY <2>1
<1>6. ASSUME NEW u \in Actors, Done(u, LastStage)', NEW h \in Heads, NEW d \in Dims, Owns(u, h, d)
      PROVE  SumIs(out'[h][d], h, Positions)
  <2>1. CASE Owns(t, h, d) BY <2>1
  <2>2. CASE ~Owns(t, h, d)
    <3>1. u # t BY <1>6, <2>2
    <3>2. Done(u, LastStage) BY <1>1, <1>5, <1>6, <3>1
    <3>3. SumIs(out[h][d], h, Positions) BY <1>6, <3>2 DEF OutInv
    <3> QED BY <2>2, <3>3
  <2> QED BY <2>1, <2>2
<1>7. ASSUME NEW u \in Actors, Done(u, LastStage)', NEW h \in Heads, NEW d \in Dims, Owns(u, h, d)
      PROVE  SumIs(out[h][d], h, Positions)'
  <2>1. SumIs(out'[h][d], h, Positions) BY <1>6, <1>7
  <2> QED BY <1>1, <2>1, Zenon DEF SumIs
<1> QED BY <1>1, <1>3, <1>4, <1>7 DEF OutInv

\* In attention_decode the part of thread 0 has become the whole sum.
LEMMA WriteOutKeeps == ASSUME BlockInv, NEW t \in Actors, WriteOut(t) PROVE BlockInv'
<1>1. ArgFits /\ StageInv /\ BarrierInv /\ LoadInv /\ WalkInv /\ PartInv /\ OutInv BY DEF BlockInv
<1>2. /\ ~Gqa /\ InStage(t, LastStage) /\ Arrive(t)
      /\ out' = [h \in Heads |-> [d \in Dims |->
                    IF Strided(t, d) THEN s_part[0][h] ELSE out[h][d]]]
      /\ arg' = arg /\ next_p' = next_p /\ priv' = priv /\ s_q' = s_q /\ s_part' = s_part
  BY DEF WriteOut
<1>3. PICK L \in Nat : L = LastStage /\ L >= 3 BY TeamIs
<1>4. LoadStage = 1 /\ WalkStage = 2 BY DEF LoadStage, WalkStage
<1>5. /\ LastStage \in 1..LastStage
      /\ LastStage - 1 \in 1..LastStage /\ LastStage - 1 < LastStage
      /\ LastStage - 1 \in WalkStage..LastStage - 1
      /\ LoadStage \in 1..LastStage /\ LoadStage # LastStage
      /\ WalkStage \in 1..LastStage /\ WalkStage # LastStage
      /\ \A s \in WalkStage..LastStage - 1 : s \in 1..LastStage /\ s # LastStage
  BY <1>3, <1>4
<1>6. /\ StageInv' /\ BarrierInv'
      /\ \A u \in Actors : \A r \in 1..LastStage : Done(u, r)' <=> Done(u, r) \/ (u = t /\ r = LastStage)
  BY <1>1, <1>2, <1>5, ArriveBehind
<1>7. \A u \in Actors : \A r \in 1..LastStage : r < LastStage => Done(u, r)
  BY <1>1, <1>2, <1>5, InStageIs
<1>8. ASSUME NEW h \in Heads PROVE SumIs(s_part[0][h], h, Positions)
  <2>1. 0 \in Actors
    <3>1. PICK T \in Nat \ {0} : T = Team /\ Actors = 0..T - 1 BY TeamIs
    <3> QED BY <3>1
  <2>2. Width(LastStage - 1) = 1 BY <1>2, TeamIs
  <2>3. Holds(0, LastStage - 1)
    <3>1. \A r \in (LastStage - 1) + 1..LastStage - 1 : FALSE BY <1>3
    <3> QED BY <1>5, <1>7, <2>1, <2>2, <3>1 DEF Holds
  <2>4. SumIs(s_part[0][h], h, Class(0, 1)) BY <1>1, <1>5, <2>1, <2>2, <2>3 DEF PartInv
  <2>5. Class(0, 1) = Positions
    <3>1. \A p \in Positions : p \in Nat BY <1>1 DEF Positions, ArgFits
    <3>2. \A p \in Nat : p % 1 = 0 OBVIOUS
    <3> QED BY <3>1, <3>2 DEF Class
  <2> QED BY <2>4, <2>5
<1>9. OutInv'
  <2>1. IsFcn(out', Heads) /\ \A h \in Heads : IsFcn(out'[h], Dims) BY <1>2 DEF IsFcn
  <2>2. \A h \in Heads : \A d \in Dims :
            IF Owns(t, h, d) THEN SumIs(out'[h][d], h, Positions) ELSE out'[h][d] = out[h][d]
    BY <1>2, <1>8 DEF Owns
  <2> QED BY <1>1, <1>2, <1>6, <2>1, <2>2, OutStep
<1>10. ArgFits' BY <1>1, <1>2, SameArg
<1>11. LoadInv'
  <2>1. \A u \in Actors : Done(u, LoadStage)' <=> Done(u, LoadStage) BY <1>5, <1>6
  <2> QED BY <1>1, <1>2, <2>1, LoadFrame
<1>12. WalkInv'
  <2>1. \A u \in Actors : Done(u, WalkStage)' <=> Done(u, WalkStage) BY <1>5, <1>6
  <2> QED BY <1>1, <1>2, <2>1, WalkFrame
<1>13. PartInv'
  <2>1. \A u \in Actors : \A s \in WalkStage..LastStage - 1 : Done(u, s)' <=> Done(u, s) BY <1>5, <1>6
  <2> QED BY <1>1, <1>2, <2>1, PartFrame
<1> QED BY <1>6, <1>9, <1>10, <1>11, <1>12, <1>13 DEF BlockInv

\* The sums a block can come to.
PartSums(h) ==
    {Relative(q, arg.score[h], Value, m) : q \in Seq(Positions), m \in Int}

\* Every sum over some of the positions is one.
LEMMA SumIn ==
    ASSUME ArgFits, NEW h \in Heads, NEW P \in SUBSET Positions, NEW a, SumIs(a, h, P)
    PROVE  a \in PartSums(h)
<1>1. PICK q \in Seq(P) : Top(a.m, arg.score[h], P) /\ a = Relative(q, arg.score[h], Value, a.m)
  BY DEF SumIs, Sums
<1>2. q \in Seq(Positions)
  <2>1. \A S, T : \A z \in Seq(S) : S \subseteq T => z \in Seq(T) OBVIOUS
  <2> QED BY <1>1, <2>1
<1>3. a.m \in Int
  <2>1. \A p \in P : arg.score[h][p] \in Int BY DEF ArgFits
  <2>2. NegMax \in Int BY DEF NegMax
  <2> QED BY <1>1, <2>1, <2>2 DEF Top
<1> QED BY <1>1, <1>2, <1>3 DEF PartSums

\* The positions of the first n warps.
Below(n) == {p \in Positions : p % KWarps < n}

\* attention_decode_gqa: the parts of all warps, one after the other, are the whole sum.
LEMMA WarpsMerged ==
    ASSUME ArgFits, NEW h \in Heads, NEW part,
           \A w \in 0..KWarps - 1 : SumIs(part[w][h], h, Class(w, KWarps)),
           NEW upto,
           upto = LET u[w \in 0..KWarps] ==
                          IF w = 0 THEN Nothing ELSE Merged(u[w - 1], part[w - 1][h])
                  IN  u
    PROVE  SumIs(upto[KWarps], h, Positions)
<1> DEFINE V == PartSums(h)
           M(w, a) == Merged(a, part[w - 1][h])
           G == [p \in (1..KWarps) \X V |-> IF M(p[1], p[2]) \in V THEN M(p[1], p[2]) ELSE Nothing]
           u[w \in 0..KWarps] == IF w = 0 THEN Nothing ELSE Merged(u[w - 1], part[w - 1][h])
<1>1. upto = u OBVIOUS
<1>2. KWarps \in Nat \ {0} BY AttentionAssumption
<1>3. \A p \in Positions : p \in Nat /\ p % KWarps \in 0..KWarps - 1
  <2>1. \A p \in Positions : p \in Nat BY DEF Positions, ArgFits
  <2> QED BY <1>2, <2>1, RestIs
<1>4. SumIs(Nothing, h, Below(0)) /\ Nothing \in V
  <2>1. Below(0) = {} BY <1>3 DEF Below
  <2>2. SumIs(Nothing, h, {}) BY SumsFew DEF SumIs
  <2>3. {} \in SUBSET Positions OBVIOUS
  <2> QED BY <2>1, <2>2, <2>3, SumIn
<1>5. ASSUME NEW w \in 1..KWarps, NEW a, SumIs(a, h, Below(w - 1))
      PROVE  SumIs(M(w, a), h, Below(w)) /\ M(w, a) \in V
  <2>1. w - 1 \in 0..KWarps - 1 BY <1>2
  <2>2. SumIs(part[w - 1][h], h, Class(w - 1, KWarps)) BY <2>1
  <2>3. Below(w - 1) \in SUBSET Positions /\ Class(w - 1, KWarps) \in SUBSET Positions
        /\ Below(w) \in SUBSET Positions
    BY DEF Below, Class
  <2>4. Below(w - 1) \cap Class(w - 1, KWarps) = {}
    <3>1. ~(w - 1 < w - 1) BY <1>2
    <3> QED BY <3>1 DEF Below, Class
  <2>5. Below(w - 1) \union Class(w - 1, KWarps) = Below(w)
    <3>1. \A p \in Positions : p % KWarps < w <=> p % KWarps < w - 1 \/ p % KWarps = w - 1
      BY <1>2, <1>3
    <3> QED BY <3>1 DEF Below, Class
  <2>6. SumIs(M(w, a), h, Below(w)) BY <1>5, <2>2, <2>3, <2>4, <2>5, SumJoins
  <2> QED BY <2>3, <2>6, SumIn
<1> HIDE DEF M
<1>6. G \in [(1..KWarps) \X V -> V] BY <1>4
<1>7. PICK g \in [0..KWarps -> V] : Runs(g, KWarps, Nothing, G)
  <2> HIDE DEF G, V
  <2> QED BY <1>2, <1>4, <1>6, LoopRuns
<1>8. \A w \in 1..KWarps : M(w, g[w - 1]) \in V => g[w] = M(w, g[w - 1])
  <2> SUFFICES ASSUME NEW w \in 1..KWarps, M(w, g[w - 1]) \in V PROVE g[w] = M(w, g[w - 1]) OBVIOUS
  <2>1. w - 1 \in 0..KWarps BY <1>2
  <2> HIDE DEF V
  <2>2. <<w, g[w - 1]>> \in (1..KWarps) \X V BY <2>1
  <2>3. g[w] = G[<<w, g[w - 1]>>] BY <1>7 DEF Runs
  <2> QED BY <2>2, <2>3
<1> HIDE DEF V, G
<1>9. \A w \in 0..KWarps : SumIs(g[w], h, Below(w))
  <2> DEFINE T == {w \in 0..KWarps : SumIs(g[w], h, Below(w))}
  <2>1. 0 \in T
    <3>1. 0 \in 0..KWarps /\ g[0] = Nothing BY <1>2, <1>7 DEF Runs
    <3> QED BY <1>4, <3>1
  <2>2. ASSUME NEW w \in 1..KWarps, w - 1 \in T PROVE w \in T
    <3>1. SumIs(g[w - 1], h, Below(w - 1)) BY <2>2
    <3>2. SumIs(M(w, g[w - 1]), h, Below(w)) /\ M(w, g[w - 1]) \in V BY <1>5, <3>1
    <3>3. g[w] = M(w, g[w - 1]) BY <1>8, <3>2
    <3>4. w \in 0..KWarps BY <1>2
    <3> QED BY <3>2, <3>3, <3>4
  <2>3. \A w \in 0..KWarps : w \in T
    <3> HIDE DEF T
    <3> QED BY <1>2, <2>1, <2>2, UpTo
  <2> QED BY <2>3
<1>10. \A w \in 1..KWarps : g[w] = Merged(g[w - 1], part[w - 1][h])
  <2> SUFFICES ASSUME NEW w \in 1..KWarps PROVE g[w] = M(w, g[w - 1]) BY DEF M
  <2>1. w - 1 \in 0..KWarps BY <1>2
  <2>2. M(w, g[w - 1]) \in V BY <1>5, <1>9, <2>1
  <2> QED BY <1>8, <2>2
<1>11. g = [w \in 0..KWarps |-> IF w = 0 THEN Nothing ELSE Merged(g[w - 1], part[w - 1][h])]
  <2>1. \A w \in 0..KWarps : w # 0 => w \in 1..KWarps BY <1>2
  <2>2. g[0] = Nothing BY <1>7 DEF Runs
  <2>3. \A w \in 0..KWarps : g[w] = IF w = 0 THEN Nothing ELSE Merged(g[w - 1], part[w - 1][h])
    BY <1>10, <2>1, <2>2
  <2> QED BY <2>3
<1>12. u = [w \in 0..KWarps |-> IF w = 0 THEN Nothing ELSE Merged(u[w - 1], part[w - 1][h])]
  <2>1. \E f : f = [w \in 0..KWarps |-> IF w = 0 THEN Nothing ELSE Merged(f[w - 1], part[w - 1][h])]
    BY <1>11
  <2> QED BY <2>1, Zenon
<1> HIDE DEF u
<1>13. \A w \in 1..KWarps : w \in 0..KWarps /\ w # 0 BY <1>2
<1>14. u[0] = Nothing /\ \A w \in 1..KWarps : u[w] = M(w, u[w - 1])
  <2>1. 0 \in 0..KWarps BY <1>2
  <2> QED BY <1>12, <1>13, <2>1 DEF M
<1>15. \A w \in 0..KWarps : SumIs(u[w], h, Below(w))
  <2> DEFINE T == {w \in 0..KWarps : SumIs(u[w], h, Below(w))}
  <2>1. 0 \in T
    <3>1. 0 \in 0..KWarps BY <1>2
    <3> QED BY <1>4, <1>14, <3>1
  <2>2. ASSUME NEW w \in 1..KWarps, w - 1 \in T PROVE w \in T
    <3>1. SumIs(u[w - 1], h, Below(w - 1)) BY <2>2
    <3>2. SumIs(M(w, u[w - 1]), h, Below(w)) BY <1>5, <3>1
    <3> QED BY <1>13, <1>14, <3>2
  <2>3. \A w \in 0..KWarps : w \in T
    <3> HIDE DEF T
    <3> QED BY <1>2, <2>1, <2>2, UpTo
  <2> QED BY <2>3
<1>16. KWarps \in 0..KWarps BY <1>2
<1>17. Below(KWarps) = Positions
  <2>1. \A p \in Positions : p % KWarps < KWarps BY <1>2, <1>3
  <2> QED BY <2>1 DEF Below
<1> QED BY <1>1, <1>15, <1>16, <1>17

\* In attention_decode_gqa a warp writes the whole sum of its heads.
LEMMA MergeHeadsKeeps == ASSUME BlockInv, NEW t \in Actors, MergeHeads(t) PROVE BlockInv'
<1> DEFINE upto(h) == LET u[w \in 0..KWarps] ==
                              IF w = 0 THEN Nothing ELSE Merged(u[w - 1], s_part[w - 1][h])
                      IN  u
           total(h) == upto(h)[KWarps]
<1>1. ArgFits /\ StageInv /\ BarrierInv /\ LoadInv /\ WalkInv /\ PartInv /\ OutInv BY DEF BlockInv
<1>2. /\ Gqa /\ InStage(t, LastStage) /\ Arrive(t)
      /\ out' = [h \in Heads |->
                    IF (h % Group) % KWarps = t THEN [d \in Dims |-> total(h)] ELSE out[h]]
      /\ arg' = arg /\ next_p' = next_p /\ priv' = priv /\ s_q' = s_q /\ s_part' = s_part
  BY DEF MergeHeads
<1>3. LastStage = 3 BY <1>2, TeamIs
<1>4. LoadStage = 1 /\ WalkStage = 2 BY DEF LoadStage, WalkStage
<1>5. /\ LastStage \in 1..LastStage
      /\ WalkStage \in 1..LastStage /\ WalkStage < LastStage /\ WalkStage # LastStage
      /\ WalkStage \in WalkStage..LastStage - 1
      /\ LoadStage \in 1..LastStage /\ LoadStage # LastStage
      /\ \A s \in WalkStage..LastStage - 1 : s \in 1..LastStage /\ s # LastStage
  BY <1>3, <1>4
<1>6. /\ StageInv' /\ BarrierInv'
      /\ \A u \in Actors : \A r \in 1..LastStage : Done(u, r)' <=> Done(u, r) \/ (u = t /\ r = LastStage)
  BY <1>1, <1>2, <1>5, ArriveBehind
<1>7. \A u \in Actors : Done(u, WalkStage) BY <1>1, <1>2, <1>5, InStageIs
<1>8. ASSUME NEW h \in Heads PROVE SumIs(total(h), h, Positions)
  <2>1. ASSUME NEW w \in 0..KWarps - 1 PROVE SumIs(s_part[w][h], h, Class(w, KWarps))
    <3>1. w \in Actors BY <1>2 DEF Actors
    <3>2. Width(WalkStage) = KWarps BY <1>2 DEF Width
    <3>3. w < KWarps
      <4>1. KWarps \in Nat BY AttentionAssumption
      <4> QED BY <4>1
    <3>4. \A r \in WalkStage + 1..LastStage - 1 : FALSE BY <1>3, <1>4
    <3>5. Holds(w, WalkStage) BY <1>7, <3>1, <3>2, <3>3, <3>4 DEF Holds
    <3> QED BY <1>1, <1>5, <3>1, <3>2, <3>5 DEF PartInv
  <2>2. upto(h) = LET u[w \in 0..KWarps] ==
                          IF w = 0 THEN Nothing ELSE Merged(u[w - 1], s_part[w - 1][h])
                  IN  u
    OBVIOUS
  <2> HIDE DEF upto
  <2> QED BY <1>1, <2>1, <2>2, WarpsMerged
<1> HIDE DEF total
<1>9. OutInv'
  <2>1. IsFcn(out, Heads) /\ \A h \in Heads : IsFcn(out[h], Dims) BY <1>1 DEF OutInv
  <2>2. \A h \in Heads : out'[h] = IF Owns(t, h, 0) THEN [d \in Dims |-> total(h)] ELSE out[h]
    BY <1>2 DEF Owns
  <2>3. \A h, d : Owns(t, h, d) <=> Owns(t, h, 0) BY <1>2 DEF Owns
  <2>4. IsFcn(out', Heads) BY <1>2 DEF IsFcn
  <2>5. \A h \in Heads : IsFcn(out'[h], Dims) BY <2>1, <2>2 DEF IsFcn
  <2>6. \A h \in Heads : \A d \in Dims :
            IF Owns(t, h, d) THEN SumIs(out'[h][d], h, Positions) ELSE out'[h][d] = out[h][d]
    BY <1>8, <2>2, <2>3
  <2> QED BY <1>1, <1>2, <1>6, <2>4, <2>5, <2>6, OutStep
<1>10. ArgFits' BY <1>1, <1>2, SameArg
<1>11. LoadInv'
  <2>1. \A u \in Actors : Done(u, LoadStage)' <=> Done(u, LoadStage) BY <1>5, <1>6
  <2> QED BY <1>1, <1>2, <2>1, LoadFrame
<1>12. WalkInv'
  <2>1. \A u \in Actors : Done(u, WalkStage)' <=> Done(u, WalkStage) BY <1>5, <1>6
  <2> QED BY <1>1, <1>2, <2>1, WalkFrame
<1>13. PartInv'
  <2>1. \A u \in Actors : \A s \in WalkStage..LastStage - 1 : Done(u, s)' <=> Done(u, s) BY <1>5, <1>6
  <2> QED BY <1>1, <1>2, <2>1, PartFrame
<1> QED BY <1>6, <1>9, <1>10, <1>11, <1>12, <1>13 DEF BlockInv

\* Every step of the block.
LEMMA BlockKeeps == ASSUME BlockInv, BlockStep PROVE BlockInv'
BY LoadKeeps, WalkKeeps, WalkDoneKeeps, MergePairKeeps, WriteOutKeeps, MergeHeadsKeeps, SyncKeeps,
   Zenon DEF BlockStep

-----------------------------------------------------------------------------
(* The block in the pass.                                                  *)

\* The block was launched and has not ended.
Launched == host = "attend" /\ backend # "cpu" /\ ArgIs

\* What the block reads is its own sequence's history.
LEMMA ReadIs ==
    ASSUME PassInv, ProbeInv, Launched
    PROVE  LET s == tok[probe.token].seq
           IN  /\ s \in Seqs /\ arg.pos = tok[probe.token].pos /\ arg.pos \in Nat
               /\ \A p \in Positions :
                     p \in 0..Len(SeqTokens[s]) - 1 /\ Read[p] = Cell(s, p, layer)
<1>1. StepOK /\ IndexInv /\ CacheInv /\ LayerInv /\ host = "attend" BY DEF PassInv, Launched
<1>2. PICK i \in Rows : i = probe.token
  <2>1. probe.token \in 1..Len(flatten) BY <1>1 DEF ProbeInv
  <2>2. tok = flatten BY <1>1 DEF IndexInv
  <2> QED BY <2>1, <2>2 DEF Rows
<1>3. layer \in 0..Layers - 1 /\ stored = Rows BY <1>1 DEF LayerInv
<1>4. /\ arg.pos = tok[i].pos /\ arg.tables = dev.tables /\ arg.offset = dev.offset
      /\ arg.seq = dev.token_seq[i] /\ arg.cache = cache[layer]
  BY <1>2 DEF Launched, ArgIs
<1>5. tok[i].seq \in Seqs /\ tok[i].pos \in Nat
  <2>1. tok = flatten BY <1>1 DEF IndexInv
  <2>2. flatten[i].seq \in Seqs /\ flatten[i].pos \in 0..Len(SeqTokens[flatten[i].seq]) - 1
    BY <1>1, <2>1, RowFacts DEF Rows
  <2> QED BY <2>1, <2>2
<1>6. ASSUME NEW p \in Positions
      PROVE  p \in 0..Len(SeqTokens[tok[i].seq]) - 1 /\ Read[p] = Cell(tok[i].seq, p, layer)
  <2>1. p \in 0..tok[i].pos BY <1>4 DEF Positions
  <2>2. p \in 0..Len(SeqTokens[tok[i].seq]) - 1 /\ History(i)[p] = Cell(tok[i].seq, p, layer)
    BY <1>1, <1>3, <2>1, HistoryRight
  <2>3. History(i)[p] = cache[layer][SlotAt(dev.tables, table(dev.offset, dev.token_seq[i]), p)]
    BY <2>1 DEF History, Launched
  <2>4. Read[p] = cache[layer][SlotAt(dev.tables, table(dev.offset, dev.token_seq[i]), p)]
    BY <1>4 DEF Read
  <2> QED BY <2>2, <2>3, <2>4
<1> QED BY <1>2, <1>4, <1>5, <1>6

\* The launchers let it pass, and its scores are scores.
LEMMA LaunchedFits == PassInv /\ ProbeInv /\ Launched => ArgFits
<1> SUFFICES ASSUME PassInv, ProbeInv, Launched PROVE ArgFits OBVIOUS
<1>1. PICK s : s = tok[probe.token].seq OBVIOUS
<1>2. /\ s \in Seqs /\ arg.pos \in Nat
      /\ \A p \in Positions : p \in 0..Len(SeqTokens[s]) - 1 /\ Read[p] = Cell(s, p, layer)
  BY <1>1, ReadIs
<1>3. /\ probe.y \in 0..QHeads - 1 /\ (backend = "gqa" => probe.y < KVHeads)
      /\ score \in ScoreShapes /\ backend \in Backends /\ backend # "cpu"
  BY DEF ProbeInv, Launched
<1>4. /\ arg.kernel = backend /\ arg.y = probe.y
      /\ arg.score = [h \in 0..QHeads - 1 |-> [p \in DOMAIN score |-> score[p] * (h + 1)]]
  BY DEF Launched, ArgIs
<1>5. QHeads \in Nat \ {0} /\ KVHeads \in Nat \ {0} /\ QHeads % KVHeads = 0
  BY AttentionAssumption
<1>6. Gqa => HeadDim % KWarp = 0
  <2>1. launch_attention_ok(backend) BY <1>3, ForwardPassAssumption
  <2> QED BY <1>4, <2>1 DEF Gqa, launch_attention_ok
<1>7. Heads \subseteq 0..QHeads - 1
  <2>1. CASE Gqa
    <3>1. QHeads = KVHeads * (QHeads \div KVHeads) + (QHeads % KVHeads) /\ QHeads \div KVHeads \in Nat
      BY <1>5, RestIs
    <3>2. PICK g \in Nat : g = Group BY <3>1 DEF Group
    <3>3. QHeads = KVHeads * g BY <1>5, <3>1, <3>2 DEF Group
    <3>4. PICK y \in 0..KVHeads - 1 : y = arg.y BY <1>3, <1>4, <1>5, <2>1 DEF Gqa
    <3>5. ASSUME NEW j \in 0..g - 1 PROVE y * g + j \in 0..QHeads - 1
      <4>1. PICK e \in Nat : KVHeads = y + 1 + e
        <5>1. KVHeads - (y + 1) \in Nat /\ KVHeads = y + 1 + (KVHeads - (y + 1)) BY <1>5
        <5> QED BY <5>1
      <4>2. PICK a \in Nat, b \in Nat : a = y * g /\ b = e * g
        <5>1. y * g \in Nat /\ e * g \in Nat OBVIOUS
        <5> QED BY <5>1
      <4>3. QHeads = a + g + b BY <3>3, <4>1, <4>2
      <4> QED BY <4>2, <4>3
    <3>6. Heads = {y * g + j : j \in 0..g - 1} BY <2>1, <3>2, <3>4 DEF Heads
    <3> QED BY <3>5, <3>6
  <2>2. CASE ~Gqa BY <1>3, <1>4, <2>2 DEF Heads
  <2> QED BY <2>1, <2>2
<1>8. ASSUME NEW h \in Heads, NEW p \in Positions
      PROVE  arg.score[h][p] \in Int /\ arg.score[h][p] > NegMax
  <2>1. PICK k \in 0..QHeads - 1 : k = h BY <1>7
  <2>2. p \in DOMAIN score /\ score[p] \in Int /\ \A j \in 1..QHeads : score[p] * j > NegMax
    <3>1. p \in 0..Len(SeqTokens[s]) - 1 BY <1>2
    <3> QED BY <1>2, <1>3, <3>1, ForwardPassAssumption
  <2>3. k + 1 \in 1..QHeads BY <1>5
  <2>4. arg.score[h][p] = score[p] * (k + 1) BY <1>4, <2>1, <2>2
  <2>5. PICK z \in Int : z = score[p] BY <2>2
  <2>6. z * (k + 1) \in Int OBVIOUS
  <2> QED BY <2>2, <2>3, <2>4, <2>5, <2>6
<1>9. ASSUME NEW p \in Positions PROVE Read[p].pos = p
  <2>1. Read[p] = Cell(s, p, layer) BY <1>2
  <2>2. Cell(s, p, layer).pos = p BY DEF Cell
  <2> QED BY <2>1, <2>2
<1>10. arg.y \in Nat BY <1>3, <1>4
<1> QED BY <1>2, <1>6, <1>8, <1>9, <1>10 DEF ArgFits

\* The block as Launch leaves it.
Fresh ==
    /\ stage = [t \in Actors |-> LoadStage] /\ waits = {}
    /\ next_p = [t \in Actors |-> t]
    /\ priv = [t \in Actors |-> [h \in Heads |-> Nothing]]
    /\ s_q = [h \in Heads |-> [d \in Dims |-> Unset]]
    /\ s_part = [t \in Actors |-> [h \in Heads |-> UnsetPart]]
    /\ out = [h \in Heads |-> [d \in Dims |-> UnsetPart]]

\* Nobody has done anything yet.
LEMMA FreshKeeps == ArgFits /\ Fresh => BlockInv
<1> SUFFICES ASSUME ArgFits, Fresh PROVE BlockInv OBVIOUS
<1>1. PICK L \in Nat : L = LastStage /\ L >= 3 BY TeamIs
<1>2. PICK T \in Nat \ {0} : T = Team /\ Actors = 0..T - 1 BY TeamIs
<1>3. LoadStage = 1 /\ WalkStage = 2 BY DEF LoadStage, WalkStage
<1>4. \A t \in Actors : stage[t] = 1 /\ t \notin waits BY <1>3 DEF Fresh
<1>5. \A t \in Actors : \A s \in 1..L : ~Done(t, s) BY <1>1, <1>4 DEF Done
<1>6. StageInv
  <2>1. stage \in [Actors -> 1..L + 1]
    <3>1. 1 \in 1..L + 1 BY <1>1
    <3> QED BY <1>3, <3>1 DEF Fresh
  <2>2. waits = {} BY DEF Fresh
  <2> QED BY <1>1, <2>1, <2>2 DEF StageInv
<1>7. BarrierInv BY <1>1, <1>4 DEF BarrierInv
<1>8. LoadInv
  <2>1. IsFcn(s_q, Heads) /\ \A h \in Heads : IsFcn(s_q[h], Dims) BY DEF Fresh, IsFcn
  <2>2. LoadStage \in 1..L BY <1>1, <1>3
  <2> QED BY <1>5, <2>1, <2>2 DEF LoadInv
<1>9. WalkInv
  <2>1. next_p \in [Actors -> Nat] /\ \A t \in Actors : next_p[t] = t BY <1>2 DEF Fresh
  <2>2. IsFcn(priv, Actors) /\ \A t \in Actors : IsFcn(priv[t], Heads) BY DEF Fresh, IsFcn
  <2>3. \A t \in Actors : t % T = t
    <3>1. \A t \in 0..T - 1 : t % T = t OBVIOUS
    <3> QED BY <1>2, <3>1
  <2>4. WalkStage \in 1..L BY <1>1, <1>3
  <2>5. ASSUME NEW t \in Actors, NEW h \in Heads PROVE SumIs(priv[t][h], h, WalkedOver(t))
    <3>1. \A p \in Nat : p < t => p % T # t
      <4>1. \A p \in Nat : p < t => p \in 0..T - 1 /\ p # t BY <1>2
      <4>2. \A p \in 0..T - 1 : p % T = p OBVIOUS
      <4> QED BY <4>1, <4>2
    <3>2. \A p \in Positions : p \in Nat BY DEF Positions, ArgFits
    <3>3. WalkedOver(t) = {} BY <1>2, <2>1, <3>1, <3>2 DEF WalkedOver
    <3>4. priv[t][h] = Nothing BY DEF Fresh
    <3>5. SumIs(Nothing, h, {}) BY SumsFew DEF SumIs
    <3> QED BY <3>3, <3>4, <3>5
  <2>6. \A t \in Actors : next_p[t] % Team = t BY <1>2, <2>1, <2>3
  <2> QED BY <1>5, <2>1, <2>2, <2>4, <2>5, <2>6 DEF WalkInv
<1>10. PartInv
  <2>1. IsFcn(s_part, Actors) /\ \A t \in Actors : IsFcn(s_part[t], Heads) BY DEF Fresh, IsFcn
  <2>2. \A s \in WalkStage..LastStage - 1 : s \in 1..L BY <1>1, <1>3
  <2> QED BY <1>5, <2>1, <2>2 DEF PartInv, Holds
<1>11. OutInv
  <2>1. IsFcn(out, Heads) /\ \A h \in Heads : IsFcn(out[h], Dims) BY DEF Fresh, IsFcn
  <2>2. LastStage \in 1..L BY <1>1
  <2> QED BY <1>5, <2>1, <2>2 DEF OutInv
<1> QED BY <1>6, <1>7, <1>8, <1>9, <1>10, <1>11 DEF BlockInv

\* A block nobody steps.
LEMMA BlockStays == ASSUME BlockInv, arg' = arg, UNCHANGED blockVars PROVE BlockInv'
<1>1. ArgFits /\ StageInv /\ BarrierInv /\ LoadInv /\ WalkInv /\ PartInv /\ OutInv BY DEF BlockInv
<1>2. /\ stage' = stage /\ waits' = waits /\ next_p' = next_p /\ priv' = priv
      /\ s_q' = s_q /\ s_part' = s_part /\ out' = out
  BY DEF blockVars
<1>3. StageInv' /\ BarrierInv' /\ \A u, s : Done(u, s)' <=> Done(u, s) BY <1>1, <1>2, SameStages
<1>4. ArgFits' BY <1>1, SameArg
<1>5. LoadInv' BY <1>1, <1>2, <1>3, LoadFrame
<1>6. WalkInv' BY <1>1, <1>2, <1>3, WalkFrame
<1>7. PartInv' BY <1>1, <1>2, <1>3, PartFrame
<1>8. OutInv'
  <2>1. LastStage' = LastStage BY SameArg
  <2>2. \A u \in Actors : Done(u, LastStage)' <=> Done(u, LastStage) BY <1>3, <2>1
  <2> QED BY <1>1, <1>2, <2>2, OutFrame
<1> QED BY <1>3, <1>4, <1>5, <1>6, <1>7, <1>8 DEF BlockInv

\* The launch starts such a block.
LEMMA LaunchKeeps == ASSUME PassInv, ProbeInv, ProbeInv', LaunchAttention PROVE AttentionInv'
<1>1. /\ backend # "cpu" /\ host' = "attend"
      /\ Launch([kernel |-> backend, token |-> probe.token - 1, y |-> probe.y,
                 pos |-> tok[probe.token].pos, seq |-> dev.token_seq[probe.token],
                 tables |-> dev.tables, offset |-> dev.offset, cache |-> cache[layer],
                 score |-> [h \in 0..QHeads - 1 |-> [p \in DOMAIN score |-> score[p] * (h + 1)]]])
      /\ UNCHANGED <<backend, probe, score, tok, dev, cache, layer>>
  BY DEF LaunchAttention, inputVars, layerVars
<1>2. ArgIs' BY <1>1 DEF Launch, ArgIs
<1>3. Launched' BY <1>1, <1>2 DEF Launched
<1>4. Fresh' BY <1>1 DEF Launch, Fresh, Actors, Heads, Gqa
<1>5. PassInv' BY LaunchInv
<1>6. ArgFits' BY <1>3, <1>5, LaunchedFits, PTL
<1>7. BlockInv' BY <1>4, <1>6, FreshKeeps, PTL
<1> QED BY <1>1, <1>2, <1>7 DEF AttentionInv

\* The block is one of the launch from the start to the head.
LEMMA ProbeKeeps == ASSUME PassInv, ProbeInv, [PassNext]_passVars PROVE ProbeInv'
<1>1. CASE host' \in {"begin", "qkv", "store", "attend"}
  <2>1. host \in {"begin", "qkv", "store", "attend"} /\ UNCHANGED <<step, backend, probe, score>>
    <3>1. CASE BeginForward BY <3>1 DEF BeginForward, inputVars
    <3>2. CASE Project BY <3>2 DEF Project, inputVars
    <3>3. CASE \E i \in Rows : store_kv(i) BY <3>3 DEF store_kv, inputVars
    <3>4. CASE LaunchAttention BY <3>4 DEF LaunchAttention, inputVars
    <3>5. CASE AttentionStep BY <3>5 DEF AttentionStep, inputVars
    <3>6. CASE FinishLayer BY <3>6 DEF FinishLayer, inputVars
    <3>7. CASE RunHead BY <1>1, <3>7 DEF RunHead
    <3>8. CASE BeginRow BY <1>1, <3>8 DEF BeginRow
    <3>9. CASE SampleRow BY <1>1, <3>9 DEF SampleRow
    <3>10. CASE EndRow BY <1>1, <3>10 DEF EndRow
    <3>11. CASE EndSampling BY <1>1, <3>11 DEF EndSampling
    <3>12. CASE ApplySlice BY <1>1, <3>12 DEF ApplySlice
    <3>13. CASE EndStep BY <1>1, <3>13 DEF EndStep
    <3>14. CASE UNCHANGED passVars BY <1>1, <3>14 DEF passVars, inputVars
    <3> QED BY <3>1, <3>2, <3>3, <3>4, <3>5, <3>6, <3>7, <3>8, <3>9, <3>10, <3>11, <3>12, <3>13,
               <3>14, Zenon DEF PassNext
  <2>2. flatten' = flatten BY <2>1, SameStep
  <2> QED BY <2>1, <2>2 DEF ProbeInv
<1>2. CASE host' \notin {"begin", "qkv", "store", "attend"} BY <1>2 DEF ProbeInv
<1> QED BY <1>1, <1>2

\* Nothing touches the block but its own steps.
LEMMA AttentionKeeps ==
    ASSUME PassInv, AttentionInv, [PassNext]_passVars PROVE AttentionInv'
<1>1. ProbeInv /\ (host = "attend" => backend # "cpu" /\ ArgIs /\ BlockInv) BY DEF AttentionInv
<1>2. ProbeInv' BY <1>1, ProbeKeeps
<1>3. CASE LaunchAttention BY <1>1, <1>2, <1>3, LaunchKeeps
<1>4. CASE host' # "attend" BY <1>2, <1>4 DEF AttentionInv
<1>5. CASE AttentionStep
  <2>1. /\ host = "attend" /\ BlockStep
        /\ UNCHANGED <<backend, probe, score, tok, dev, cache, layer>>
    BY <1>5 DEF AttentionStep, inputVars, layerVars
  <2>2. BlockInv' BY <1>1, <2>1, BlockKeeps
  <2>3. arg' = arg
    BY <2>1 DEF BlockStep, Load, Walk, WalkDone, MergePair, WriteOut, MergeHeads, Syncthreads
  <2>4. ArgIs' BY <1>1, <2>1, <2>3 DEF ArgIs
  <2> QED BY <1>1, <1>2, <2>1, <2>2, <2>4 DEF AttentionInv
<1>6. CASE UNCHANGED passVars
  <2>1. /\ UNCHANGED <<host, backend, probe, score, tok, dev, cache, layer>>
        /\ arg' = arg /\ UNCHANGED blockVars
    BY <1>6 DEF passVars, inputVars, layerVars
  <2>2. CASE host = "attend"
    <3>1. BlockInv' BY <1>1, <2>1, <2>2, BlockStays
    <3>2. ArgIs' BY <1>1, <2>1, <2>2 DEF ArgIs
    <3> QED BY <1>1, <1>2, <2>1, <2>2, <3>1, <3>2 DEF AttentionInv
  <2>3. CASE host # "attend" BY <1>4, <2>1, <2>3
  <2> QED BY <2>2, <2>3
<1>7. host' = "attend" => LaunchAttention \/ AttentionStep \/ UNCHANGED passVars
  <2> SUFFICES ASSUME host' = "attend", PassNext, ~LaunchAttention, ~AttentionStep PROVE FALSE
    OBVIOUS
  <2>1. CASE BeginForward BY <2>1 DEF BeginForward
  <2>2. CASE Project BY <2>2 DEF Project
  <2>3. CASE \E i \in Rows : store_kv(i) BY <2>3 DEF store_kv
  <2>4. CASE FinishLayer BY <2>4 DEF FinishLayer
  <2>5. CASE RunHead BY <2>5 DEF RunHead
  <2>6. CASE BeginRow BY <2>6 DEF BeginRow
  <2>7. CASE SampleRow BY <2>7 DEF SampleRow
  <2>8. CASE EndRow BY <2>8 DEF EndRow
  <2>9. CASE EndSampling BY <2>9 DEF EndSampling
  <2>10. CASE ApplySlice BY <2>10 DEF ApplySlice
  <2>11. CASE EndStep BY <2>11 DEF EndStep
  <2> QED BY <2>1, <2>2, <2>3, <2>4, <2>5, <2>6, <2>7, <2>8, <2>9, <2>10, <2>11, Zenon DEF PassNext
<1> QED BY <1>3, <1>4, <1>5, <1>6, <1>7

\* The sum over all positions is what the reference adds up.
LEMMA SumIsReference ==
    ASSUME PassInv, ProbeInv, Launched, NEW h \in Heads, NEW part, SumIs(part, h, Positions)
    PROVE  IsReference(part, h)
<1> DEFINE s == tok[probe.token].seq
           N == 0..tok[probe.token].pos
           E == [p \in N |-> arg.score[h][p] - Max({arg.score[h][q] : q \in N})]
           ones(f) == [k \in 1..Cardinality(N) |-> <<1, f[k - 1]>>]
           terms(f) == [k \in 1..Cardinality(N) |->
                           << <<h \div Group, Cell(s, k - 1, layer)>>, f[k - 1]>>]
<1>1. ArgFits BY LaunchedFits
<1>2. PICK n \in Nat : n = arg.pos /\ N = 0..n /\ Positions = 0..n BY ReadIs DEF Positions
<1>3. \A p \in 0..n : Value[p] = <<h \div Group, Cell(s, p, layer)>>
  <2>1. \A p \in Positions : Read[p] = Cell(s, p, layer) BY ReadIs
  <2>2. kv_head = h \div Group BY <1>1, HeadsAre
  <2> QED BY <1>2, <2>1, <2>2 DEF Value
<1>4. PICK w : w = arg.score[h] OBVIOUS
<1>5. PICK e : e = Exponents(w, n) OBVIOUS
<1>6. Weighs(w, 0..n) BY <1>1, <1>2, <1>4 DEF ArgFits, Weighs
<1>7. Sums(part, w, Value, 0..n) BY <1>2, <1>4, Zenon DEF SumIs
<1>8. E = e BY <1>2, <1>4, <1>5, Zenon DEF Exponents
<1>9. Cardinality(N) = n + 1
  <2>1. 0 \in Int /\ n \in Int /\ ~(0 > n) /\ n - 0 + 1 = n + 1 OBVIOUS
  <2> QED BY <1>2, <2>1, FS_Interval, Zenon
<1> HIDE DEF E, N, s
<1>10. PICK v : v = Value OBVIOUS
<1>11. ToBag(part.l) = ToBag(Ones(e, n)) /\ ToBag(part.acc) = ToBag(Terms(v, e, n))
  <2>1. Sums(part, w, v, 0..n) BY <1>7, <1>10
  <2> QED BY <1>5, <1>6, <2>1, SumsReference
<1>12. ones(e) = Ones(e, n) BY <1>9 DEF Ones
<1>13. terms(e) = Terms(v, e, n)
  <2>1. \A k \in 1..n + 1 : k - 1 \in 0..n OBVIOUS
  <2>2. \A k \in 1..n + 1 : v[k - 1] = <<h \div Group, Cell(s, k - 1, layer)>> BY <1>3, <1>10, <2>1
  <2> QED BY <1>9, <2>2 DEF Terms
<1> HIDE DEF ones, terms
<1>14. ToBag(part.l) = ToBag(ones(E)) /\ ToBag(part.acc) = ToBag(terms(E))
  BY <1>8, <1>11, <1>12, <1>13, Zenon
<1> QED BY <1>14, Zenon DEF IsReference, ones, terms, E, N, s

\* Whichever thread of the block runs when, whichever kernel it is and whatever it was
\* launched on: when all have ended, every element of out is the reference's.
THEOREM AttentionIsExact == PassSpec => []AttentionExact
<1>1. PassInit => PassInv /\ AttentionInv
  <2> SUFFICES ASSUME PassInit PROVE PassInv /\ AttentionInv OBVIOUS
  <2>1. PassInv BY PassInitInv
  <2>2. host = "begin" BY DEF PassInit
  <2>3. ProbeInv
    <3>1. score \in ScoreShapes /\ backend \in Backends BY DEF PassInit
    <3>2. PICK i \in 1..Len(flatten), y \in 0..QHeads - 1 :
            (backend = "gqa" => y < KVHeads) /\ probe = [token |-> i, y |-> y]
      BY DEF PassInit
    <3> QED BY <3>1, <3>2 DEF ProbeInv
  <2> QED BY <2>1, <2>2, <2>3 DEF AttentionInv
<1>2. PassInv /\ AttentionInv /\ [PassNext]_passVars => (PassInv /\ AttentionInv)'
  BY PassKeeps, AttentionKeeps
<1>3. PassInv /\ AttentionInv => AttentionExact
  <2> SUFFICES ASSUME PassInv, AttentionInv, host = "attend", Finished, NEW h \in Heads, NEW d \in Dims
               PROVE  IsReference(out[h][d], h)
    BY DEF AttentionExact
  <2>1. ProbeInv /\ Launched /\ BlockInv BY DEF AttentionInv, Launched
  <2>2. ArgFits /\ OutInv BY <2>1 DEF BlockInv
  <2>3. PICK t \in Actors : Owns(t, h, d) BY <2>2, OwnedBySome
  <2>4. Done(t, LastStage) BY DEF Finished, Done
  <2>5. SumIs(out[h][d], h, Positions) BY <2>2, <2>3, <2>4 DEF OutInv
  <2> QED BY <2>1, <2>5, SumIsReference
<1> QED BY <1>1, <1>2, <1>3, PTL DEF PassSpec

=============================================================================
