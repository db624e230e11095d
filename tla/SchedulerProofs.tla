--------------------------- MODULE SchedulerProofs ---------------------------
(***************************************************************************)
(* The scheduler, for every pool, configuration, set of requests and       *)
(* sampled token.                                                          *)
(*                                                                         *)
(* First, every step of the scheduler is a step of the cache's client or   *)
(* leaves the cache alone, so that all that is proved of the cache holds   *)
(* of the scheduled system.  Then the scheduler's own invariants.          *)
(* Last, what the scheduler owes its clients and its hardware: a step      *)
(* stays within the configured sizes, requests are served in the order the *)
(* policy promises, and what a client sees is a request's life, whatever   *)
(* is preempted, recomputed or rejected behind it.                         *)
(***************************************************************************)
EXTENDS Scheduler, KVCacheProofs, WellFoundedInduction

-----------------------------------------------------------------------------
(* Queues.                                                                 *)

\* push_back adds its argument and keeps a queue free of duplicates.
LEMMA AppendQueue ==
    ASSUME NEW S, NEW q \in Seq(S), NEW s \in S
    PROVE  /\ Append(q, s) \in Seq(S)
           /\ Len(Append(q, s)) = Len(q) + 1
           /\ \A k \in 1..Len(q) : Append(q, s)[k] = q[k]
           /\ Append(q, s)[Len(q) + 1] = s
           /\ Members(Append(q, s)) = Members(q) \union {s}
           /\ Distinct(q) /\ s \notin Members(q) => Distinct(Append(q, s))
<1>1. /\ Append(q, s) \in Seq(S) /\ Len(Append(q, s)) = Len(q) + 1
      /\ \A k \in 1..Len(q) : Append(q, s)[k] = q[k]
      /\ Append(q, s)[Len(q) + 1] = s
  OBVIOUS
<1>2. Members(Append(q, s)) = Members(q) \union {s}
  BY <1>1 DEF Members
<1>3. Distinct(q) /\ s \notin Members(q) => Distinct(Append(q, s))
  BY <1>1 DEF Members, Distinct
<1> QED BY <1>1, <1>2, <1>3

\* So does push_front.
LEMMA PushFront ==
    ASSUME NEW S, NEW q \in Seq(S), NEW s \in S
    PROVE  /\ <<s>> \o q \in Seq(S)
           /\ Len(<<s>> \o q) = Len(q) + 1
           /\ (<<s>> \o q)[1] = s
           /\ \A k \in 1..Len(q) : (<<s>> \o q)[k + 1] = q[k]
           /\ Members(<<s>> \o q) = Members(q) \union {s}
           /\ Distinct(q) /\ s \notin Members(q) => Distinct(<<s>> \o q)
<1>1. /\ <<s>> \o q \in Seq(S) /\ Len(<<s>> \o q) = Len(q) + 1
      /\ (<<s>> \o q)[1] = s
      /\ \A k \in 1..Len(q) : (<<s>> \o q)[k + 1] = q[k]
      /\ \A k \in 2..(Len(q) + 1) : (<<s>> \o q)[k] = q[k - 1]
  OBVIOUS
<1> DEFINE p == <<s>> \o q
<1> HIDE DEF p
<1>2. Members(p) = Members(q) \union {s}
  <2>1. Members(p) \subseteq Members(q) \union {s}
    <3> SUFFICES ASSUME NEW k \in 1..Len(p) PROVE p[k] \in Members(q) \union {s} BY DEF Members
    <3>1. CASE k = 1 BY <1>1, <3>1 DEF p
    <3>2. CASE k # 1
      <4>1. k - 1 \in 1..Len(q) /\ p[k] = q[k - 1] BY <1>1, <3>2 DEF p
      <4> QED BY <4>1 DEF Members
    <3> QED BY <3>1, <3>2
  <2>2. s \in Members(p) BY <1>1 DEF Members, p
  <2>3. ASSUME NEW k \in 1..Len(q) PROVE q[k] \in Members(p)
    <3>1. k + 1 \in 1..Len(p) /\ p[k + 1] = q[k] BY <1>1 DEF p
    <3> QED BY <3>1 DEF Members
  <2> QED BY <2>1, <2>2, <2>3 DEF Members
<1>3. Distinct(q) /\ s \notin Members(q) => Distinct(<<s>> \o q)
  BY <1>1 DEF Members, Distinct
<1> QED BY <1>1, <1>2, <1>3 DEF p

\* Two queues without a common element, one behind the other.
LEMMA JoinQueues ==
    ASSUME NEW S, NEW p \in Seq(S), NEW q \in Seq(S)
    PROVE  /\ p \o q \in Seq(S) /\ Len(p \o q) = Len(p) + Len(q)
           /\ \A k \in 1..Len(p) : (p \o q)[k] = p[k]
           /\ \A k \in 1..Len(q) : (p \o q)[Len(p) + k] = q[k]
           /\ Members(p \o q) = Members(p) \union Members(q)
           /\ Distinct(p) /\ Distinct(q) /\ Members(p) \intersect Members(q) = {} => Distinct(p \o q)
<1>1. /\ p \o q \in Seq(S) /\ Len(p \o q) = Len(p) + Len(q)
      /\ Len(p) \in Nat /\ Len(q) \in Nat
      /\ \A k \in 1..Len(p) + Len(q) : (p \o q)[k] = IF k <= Len(p) THEN p[k] ELSE q[k - Len(p)]
  OBVIOUS
<1>2. /\ \A k \in 1..Len(p) : (p \o q)[k] = p[k] /\ k \in 1..Len(p \o q)
      /\ \A k \in 1..Len(q) : (p \o q)[Len(p) + k] = q[k] /\ Len(p) + k \in 1..Len(p \o q)
  BY <1>1
<1>3. ASSUME NEW k \in 1..Len(p \o q)
      PROVE  \/ k \in 1..Len(p) /\ (p \o q)[k] = p[k]
             \/ k - Len(p) \in 1..Len(q) /\ (p \o q)[k] = q[k - Len(p)]
  BY <1>1
<1>4. Members(p \o q) = Members(p) \union Members(q) BY <1>2, <1>3, SMTT(30) DEF Members
<1>5. ASSUME Distinct(p), Distinct(q), Members(p) \intersect Members(q) = {} PROVE Distinct(p \o q)
  <2> SUFFICES ASSUME NEW j \in 1..Len(p \o q), NEW k \in 1..Len(p \o q),
                      (p \o q)[j] = (p \o q)[k]
               PROVE  j = k
    BY DEF Distinct
  <2>1. CASE j \in 1..Len(p) /\ k \in 1..Len(p) BY <1>2, <1>5, <2>1 DEF Distinct
  <2>2. CASE j - Len(p) \in 1..Len(q) /\ k - Len(p) \in 1..Len(q)
    <3>1. q[j - Len(p)] = q[k - Len(p)] BY <1>1, <2>2
    <3>2. j - Len(p) = k - Len(p) BY <1>5, <2>2, <3>1 DEF Distinct
    <3> QED BY <1>1, <3>2
  <2>3. ASSUME NEW a \in 1..Len(p), NEW b \in 1..Len(q), p[a] = q[b] PROVE FALSE
    BY <1>5, <2>3 DEF Members
  <2>4. CASE j \in 1..Len(p) /\ k - Len(p) \in 1..Len(q)
    <3>1. p[j] = q[k - Len(p)] BY <1>1, <2>4
    <3> QED BY <2>3, <2>4, <3>1
  <2>5. CASE j - Len(p) \in 1..Len(q) /\ k \in 1..Len(p)
    <3>1. p[k] = q[j - Len(p)] BY <1>1, <2>5
    <3> QED BY <2>3, <2>5, <3>1
  <2> QED BY <1>3, <2>1, <2>2, <2>4, <2>5
<1> QED BY <1>1, <1>2, <1>4, <1>5

\* Erasing one element of a queue without duplicates removes just that one.
LEMMA DropQueue ==
    ASSUME NEW S, NEW q \in Seq(S), NEW k \in 1..Len(q), Distinct(q)
    PROVE  /\ DropAt(q, k) \in Seq(S) /\ Len(DropAt(q, k)) = Len(q) - 1
           /\ Members(DropAt(q, k)) = Members(q) \ {q[k]}
           /\ Distinct(DropAt(q, k))
<1> DEFINE d == DropAt(q, k)
<1>1. /\ d \in Seq(S) /\ Len(d) = Len(q) - 1
      /\ \A j \in 1..(Len(q) - 1) : d[j] = IF j < k THEN q[j] ELSE q[j + 1]
  BY DropAtType
<1> HIDE DEF d
<1>2. Members(d) \subseteq Members(q) \ {q[k]}
  BY <1>1 DEF Members, Distinct
<1>3. ASSUME NEW j \in 1..Len(q), j # k PROVE q[j] \in Members(d)
  <2>1. CASE j < k BY <1>1, <2>1 DEF Members
  <2>2. CASE j > k
    <3>1. j - 1 \in 1..Len(d) /\ d[j - 1] = q[j] BY <1>1, <2>2
    <3> QED BY <3>1 DEF Members
  <2> QED BY <1>3, <2>1, <2>2
<1>4. Members(q) \ {q[k]} \subseteq Members(d) BY <1>3 DEF Members
<1>5. Distinct(d) BY <1>1 DEF Distinct
<1> QED BY <1>1, <1>2, <1>4, <1>5 DEF d

\* Popping the front of a queue without duplicates removes just that one.
LEMMA TailQueue ==
    ASSUME NEW S, NEW q \in Seq(S), q # <<>>
    PROVE  /\ Tail(q) \in Seq(S) /\ Len(Tail(q)) = Len(q) - 1
           /\ Head(q) = q[1] /\ Head(q) \in S /\ Head(q) \in Members(q)
           /\ \A j \in 1..Len(Tail(q)) : Tail(q)[j] = q[j + 1]
           /\ Members(q) = Members(Tail(q)) \union {Head(q)}
           /\ Distinct(q) => Head(q) \notin Members(Tail(q)) /\ Distinct(Tail(q))
<1> DEFINE d == Tail(q)
<1>1. /\ d \in Seq(S) /\ Len(d) = Len(q) - 1 /\ Len(q) > 0
      /\ Head(q) = q[1] /\ q[1] \in S
      /\ \A j \in 1..Len(d) : d[j] = q[j + 1]
  OBVIOUS
<1>2. Head(q) \in Members(q) BY <1>1 DEF Members
<1> HIDE DEF d
<1>3. Members(d) \subseteq Members(q) BY <1>1 DEF Members
<1>4. ASSUME NEW j \in 1..Len(q), j # 1 PROVE q[j] \in Members(d)
  <2>1. j - 1 \in 1..Len(d) /\ d[j - 1] = q[j] BY <1>1, <1>4
  <2> QED BY <2>1 DEF Members
<1>5. Members(q) = Members(d) \union {Head(q)}
  BY <1>1, <1>2, <1>3, <1>4 DEF Members
<1>6. Distinct(q) => Head(q) \notin Members(d) /\ Distinct(d)
  BY <1>1, SMTT(30) DEF Distinct, Members
<1> QED BY <1>1, <1>2, <1>5, <1>6 DEF d

\* A queue is empty exactly if it has no members, and its members are of its type.
LEMMA MembersType ==
    ASSUME NEW S, NEW q \in Seq(S)
    PROVE  /\ Members(q) \subseteq S
           /\ Members(q) = {} <=> q = <<>>
           /\ \A k \in 1..Len(q) : q[k] \in Members(q)
           /\ Members(<<>>) = {} /\ Distinct(<<>>)
<1>1. \A k \in 1..Len(q) : q[k] \in S OBVIOUS
<1>2. q # <<>> => 1 \in 1..Len(q) OBVIOUS
<1>3. Len(<<>>) = 0 /\ 1..0 = {} OBVIOUS
<1> QED BY <1>1, <1>2, <1>3, Zenon DEF Members, Distinct

\* remove() takes its argument out of a queue without duplicates, if it is there.
LEMMA WithoutQueue ==
    ASSUME NEW S, NEW q \in Seq(S), NEW s, Distinct(q)
    PROVE  /\ Without(q, s) \in Seq(S)
           /\ Members(Without(q, s)) = Members(q) \ {s}
           /\ Distinct(Without(q, s))
           /\ s \notin Members(q) => Without(q, s) = q
<1>1. CASE s \in Members(q)
  <2> DEFINE k == CHOOSE k \in 1..Len(q) : q[k] = s
  <2>1. k \in 1..Len(q) /\ q[k] = s BY <1>1 DEF Members
  <2>2. Without(q, s) = DropAt(q, k) BY <1>1 DEF Without
  <2> HIDE DEF k
  <2> QED BY <1>1, <2>1, <2>2, DropQueue
<1>2. CASE s \notin Members(q) BY <1>2 DEF Without
<1> QED BY <1>1, <1>2

\* A filtered queue has the members the filter lets through, in their order.
LEMMA OnlyQueue ==
    ASSUME NEW S, NEW q \in Seq(S), NEW T
    PROVE  /\ Only(q, T) \in Seq(S)
           /\ Members(Only(q, T)) = Members(q) \intersect T
           /\ \E f \in [1..Len(Only(q, T)) -> 1..Len(q)] :
                 /\ \A i \in 1..Len(Only(q, T)) : Only(q, T)[i] = q[f[i]]
                 /\ \A i, j \in 1..Len(Only(q, T)) : i < j => f[i] < f[j]
<1> DEFINE at == {k \in 1..Len(q) : q[k] \in T}
           upto(k) == {j \in at : j <= k}
           n == Cardinality(at)
           rank == [k \in at |-> Cardinality(upto(k))]
<1>1. IsFiniteSet(at) /\ n \in Nat
  <2>1. IsFiniteSet(1..Len(q)) BY FS_Interval
  <2> QED BY <2>1, FS_Subset, FS_CardinalityType
<1>2. ASSUME NEW k \in at PROVE IsFiniteSet(upto(k)) /\ rank[k] \in 1..n
  <2>1. upto(k) \subseteq at /\ k \in upto(k) OBVIOUS
  <2>2. /\ IsFiniteSet(upto(k)) /\ Cardinality(upto(k)) <= n
        /\ Cardinality(upto(k)) \in Nat
    BY <1>1, <2>1, FS_Subset, FS_CardinalityType
  <2>3. Cardinality(upto(k)) # 0 BY <2>1, <2>2, FS_EmptySet, Zenon
  <2> HIDE DEF upto, n
  <2> QED BY <2>2, <2>3, <1>1
<1>3. ASSUME NEW j \in at, NEW k \in at, j < k PROVE rank[j] < rank[k]
  <2>1. k \in upto(k) OBVIOUS
  <2>2. upto(j) \subseteq upto(k) \ {k} BY <1>3
  <2>3. IsFiniteSet(upto(k)) /\ rank[k] \in Nat /\ rank[j] \in Nat
    <3>1. \A i \in 1..n : i \in Nat BY <1>1
    <3> HIDE DEF upto, rank, n
    <3> QED BY <1>2, <3>1
  <2>4. IsFiniteSet(upto(k) \ {k}) /\ Cardinality(upto(k) \ {k}) = Cardinality(upto(k)) - 1
    BY <2>1, <2>3, FS_RemoveElement
  <2>5. Cardinality(upto(j)) <= Cardinality(upto(k) \ {k}) BY <2>2, <2>4, FS_Subset
  <2>6. rank[j] = Cardinality(upto(j)) /\ rank[k] = Cardinality(upto(k)) OBVIOUS
  <2> HIDE DEF upto, rank
  <2> QED BY <2>3, <2>4, <2>5, <2>6
<1>4. rank \in [at -> 1..n] BY <1>2
<1>5. \A i \in 1..n : \E k \in at : rank[k] = i
  <2> HIDE DEF rank, upto
  <2>1. \A j, k \in at : rank[j] = rank[k] => j = k
    <3> SUFFICES ASSUME NEW j \in at, NEW k \in at, rank[j] = rank[k], j # k PROVE FALSE OBVIOUS
    <3>1. j < k \/ k < j OBVIOUS
    <3>2. rank[j] \in 1..n BY <1>4
    <3> QED BY <1>3, <3>1, <3>2
  <2>2. rank \in Injection(at, 1..n) BY <1>4, <2>1 DEF Injection, IsInjective
  <2>3. IsFiniteSet(1..n) /\ Cardinality(1..n) = n BY <1>1, FS_Interval
  <2>4. rank \in Surjection(at, 1..n) BY <2>2, <2>3, FS_Injection
  <2> QED BY <2>4 DEF Surjection
<1> DEFINE f == [i \in 1..n |-> CHOOSE k \in at : rank[k] = i]
<1>6. ASSUME NEW i \in 1..n PROVE f[i] \in at /\ rank[f[i]] = i BY <1>5
<1>7. Only(q, T) = [i \in 1..n |-> q[f[i]]]
  <2>1. ASSUME NEW i \in 1..n
        PROVE  f[i] = CHOOSE k \in at : Cardinality({j \in at : j <= k}) = i
    <3>1. \A k \in at : rank[k] = Cardinality({j \in at : j <= k}) OBVIOUS
    <3>2. f[i] = CHOOSE k \in at : rank[k] = i OBVIOUS
    <3> HIDE DEF f, rank, at
    <3> QED BY <3>1, <3>2, Zenon
  <2>2. Only(q, T) = [i \in 1..n |-> q[CHOOSE k \in at : Cardinality({j \in at : j <= k}) = i]]
    BY DEF Only
  <2> HIDE DEF f, n, at
  <2> QED BY <2>1, <2>2, Zenon
<1> HIDE DEF f, rank, upto, n
<1>8. \A i \in 1..n : f[i] \in 1..Len(q) /\ q[f[i]] \in T BY <1>6
<1>9. /\ Only(q, T) \in Seq(S) /\ Len(Only(q, T)) = n
      /\ \A i \in 1..n : Only(q, T)[i] = q[f[i]]
  BY <1>1, <1>7, <1>8
<1>10. f \in [1..n -> 1..Len(q)] BY <1>8 DEF f
<1>11. ASSUME NEW i \in 1..n, NEW j \in 1..n, i < j PROVE f[i] < f[j]
  <2>1. f[i] \in at /\ f[j] \in at /\ rank[f[i]] = i /\ rank[f[j]] = j BY <1>6
  <2>2. f[j] < f[i] => rank[f[j]] < rank[f[i]] BY <1>3, <2>1
  <2>3. f[i] \in Nat /\ f[j] \in Nat BY <1>8
  <2>4. ~(f[j] < f[i]) BY <1>11, <1>1, <2>1, <2>2
  <2>5. f[i] # f[j] BY <1>11, <1>1, <2>1
  <2> QED BY <2>3, <2>4, <2>5
<1>12. Members(Only(q, T)) = Members(q) \intersect T
  <2>1. Members(Only(q, T)) \subseteq Members(q) \intersect T
    BY <1>8, <1>9 DEF Members
  <2>2. ASSUME NEW k \in at PROVE q[k] \in Members(Only(q, T))
    <3>1. rank[k] \in 1..n /\ k \in 1..Len(q) BY <1>4
    <3>2. f[rank[k]] \in at /\ rank[f[rank[k]]] = rank[k] BY <1>6, <3>1
    <3>3. f[rank[k]] = k
      <4>1. ~(f[rank[k]] < k) /\ ~(k < f[rank[k]])
        <5>1. rank[k] \in Int BY <3>1
        <5> QED BY <1>3, <3>2, <5>1
      <4> QED BY <3>1, <3>2, <4>1
    <3> QED BY <1>9, <3>1, <3>3 DEF Members
  <2> QED BY <2>1, <2>2 DEF Members
<1> QED BY <1>9, <1>10, <1>11, <1>12

\* A filtered queue has no duplicates if the queue has none.
LEMMA OnlyDistinct ==
    ASSUME NEW S, NEW q \in Seq(S), NEW T, Distinct(q)
    PROVE  Distinct(Only(q, T))
<1> DEFINE o == Only(q, T)
<1>1. o \in Seq(S) BY OnlyQueue
<1>2. PICK f \in [1..Len(o) -> 1..Len(q)] :
          /\ \A i \in 1..Len(o) : o[i] = q[f[i]]
          /\ \A i, j \in 1..Len(o) : i < j => f[i] < f[j]
  BY OnlyQueue
<1> HIDE DEF o
<1>3. ASSUME NEW i \in 1..Len(o), NEW j \in 1..Len(o), o[i] = o[j], i < j PROVE FALSE
  <2>1. f[i] \in 1..Len(q) /\ f[j] \in 1..Len(q) /\ f[i] < f[j] BY <1>2, <1>3
  <2>2. q[f[i]] = q[f[j]] BY <1>2, <1>3
  <2>3. f[i] = f[j] BY <2>1, <2>2 DEF Distinct
  <2> QED BY <2>1, <2>3
<1>4. \A i, j \in 1..Len(o) : i < j \/ j < i \/ i = j BY <1>1
<1> QED BY <1>3, <1>4 DEF Distinct, o

-----------------------------------------------------------------------------
(* Types.                                                                  *)

Places == {"idle", "place", "chunk", "expire", "admit", "build", "forward",
           "apply", "sample", "retire", "drain"}

Slices == [seq : Seqs, start : Nat, len : Nat, needs_logits : BOOLEAN]

\* Every variable of the scheduler has the type its C++ declaration gives it.
SchedTypeOK ==
    /\ waiting \in Seq(Seqs) /\ running \in Seq(Seqs) /\ done \in Seq(Seqs)
    /\ mid_prefill \in Seq(Seqs) /\ decode \in Seq(Seqs)
    /\ batch_open \in BOOLEAN
    /\ status \in [Seqs -> {"new", "waiting", "running", "finished"}]
    /\ finish \in [Seqs -> {"none", "stop", "length", "abort", "timeout"}]
    /\ num_computed \in [Seqs -> Nat] /\ limit \in [Seqs -> Nat]
    /\ wait_steps \in [Seqs -> Nat] /\ terminals \in [Seqs -> Nat]
    /\ first_scheduled \subseteq Seqs
    /\ pc \in Places
    /\ budget \in Nat /\ cursor \in Nat \ {0}
    /\ slices \in Seq(Slices)

\* A text is not empty once its request is queued, and fits into the context.
TextBounds ==
    /\ \A s \in Seqs : Len(tokens[s]) <= MaxTokens
    /\ \A s \in Members(waiting) \union Members(running) : Len(tokens[s]) > 0

\* The inductive invariant behind the scheduler's use of the cache.
SchedTypeInv == TypeInv /\ SchedTypeOK /\ TextBounds

-----------------------------------------------------------------------------
(* The invariant.                                                          *)

\* A request is in the queue its status names, once.
Queues ==
    /\ Distinct(waiting) /\ Distinct(running) /\ Distinct(done)
    /\ Members(running) \intersect Members(done) = {}
    /\ \A s \in Members(done) : Continuous /\ status[s] = "running"
    /\ \A s \in Members(running) : status[s] = "running" \/ (status[s] = "finished" /\ ~Continuous)
    /\ \A s \in Seqs : s \in Members(waiting) <=> status[s] = "waiting"
    /\ \A s \in Seqs : status[s] = "running" => s \in Members(running) \union Members(done)

\* Only residents, and a sequence being released, hold blocks.
Holders ==
    \A s \in Seqs : blocks[s] # <<>> =>
        \/ s \in Members(running) \union Members(done)
        \/ call.op = "free" /\ call.seq = s

\* Where in the loop the manager is called, and for whom.
CallPlace ==
    /\ call.op = "alloc" => pc = "admit" /\ call.seq \in Members(running)
    /\ call.op = "commit" => pc = "sample"
    /\ call.op = "free" =>
          /\ pc \in {"idle", "place", "retire", "drain"}
          /\ call.seq \notin Members(running) \union Members(done)

\* What the step loop's variables hold at each place.
StepShape ==
    /\ pc \in {"idle", "place", "retire", "drain"} => slices = <<>>
    /\ pc \in {"forward", "apply", "sample"} => slices # <<>>
    /\ pc \notin {"place", "chunk"} => mid_prefill = <<>>
    /\ pc \notin {"place", "chunk", "expire", "admit", "build"} => decode = <<>>
    /\ pc \notin {"apply", "sample", "retire"} => done = <<>>
    /\ pc = "forward" => cursor <= Len(slices)
    /\ pc = "drain" => \A s \in Members(running) : is_finished(s)

Sliced == {slices[k].seq : k \in 1..Len(slices)}

\* decode has the order of running.
DecodeOrder ==
    \A j, k \in 1..Len(decode) : \A a, b \in 1..Len(running) :
        j < k /\ decode[j] = running[a] /\ decode[k] = running[b] => a < b

\* The candidates of a step are residents without a slice.
Candidates ==
    /\ Distinct(decode) /\ Distinct(mid_prefill)
    /\ Members(decode) \intersect Members(mid_prefill) = {}
    /\ \A s \in Members(decode) \union Members(mid_prefill) :
          s \in Members(running) /\ ~is_finished(s) /\ s \notin Sliced
    /\ \A s \in Members(decode) : num_tokens(s) = num_computed[s] + 1
    /\ \A s \in Members(mid_prefill) : num_tokens(s) > num_computed[s] + 1
    /\ pc = "place" => DecodeOrder
    /\ \A k \in 1..Len(decode) : (pc = "place" => k < cursor) => EnsureSlotHolds(decode[k])

\* The slice just applied, whose token is sampled next.
Applied(s) == pc = "sample" /\ s = Head(slices).seq

Allocating(s) == call.op = "alloc" /\ call.seq = s

\* Of a resident that is not finished, less is computed than there is, K/V are there
\* up to what is computed, and slots for all that is left, unless that is one token.
Residents ==
    \A s \in Members(running) : ~is_finished(s) /\ ~Applied(s) =>
        /\ num_computed[s] < num_tokens(s)
        /\ Allocating(s) => num_computed[s] <= call.n * BlockSize
        /\ ~Allocating(s) =>
              /\ num_computed[s] <= written[s]
              /\ \/ num_tokens(s) <= Len(blocks[s]) * BlockSize
                 \/ num_tokens(s) = num_computed[s] + 1

\* A slice is of a resident, starts where its computation stands, and its slots are
\* there as soon as its prompt's blocks are.
SliceValid(sl) ==
    /\ sl.seq \in Members(running) /\ ~is_finished(sl.seq)
    /\ sl.len > 0
    /\ sl.start = num_computed[sl.seq]
    /\ sl.start + sl.len <= num_tokens(sl.seq)
    /\ sl.needs_logits <=> sl.start + sl.len = num_tokens(sl.seq)
    /\ ~Allocating(sl.seq) => sl.start + sl.len <= Len(blocks[sl.seq]) * BlockSize

StepSlices ==
    /\ \A j, k \in 1..Len(slices) : slices[j].seq = slices[k].seq => j = k
    /\ \A k \in 1..Len(slices) : ~(pc = "sample" /\ k = 1) => SliceValid(slices[k])

\* The forward pass has written the slices up to the cursor, then all of them.
Computed ==
    \A k \in 1..Len(slices) :
        (pc = "forward" /\ k < cursor) \/ pc = "apply" \/ (pc = "sample" /\ k > 1)
            => slices[k].start + slices[k].len <= written[slices[k].seq]

\* Between computing a slice and sampling its token.
SampleHead ==
    pc = "sample" =>
        LET sl == Head(slices)
            s == sl.seq
        IN  /\ s \in Members(running) /\ ~is_finished(s)
            /\ num_computed[s] <= written[s] /\ num_computed[s] <= num_tokens(s)
            /\ sl.needs_logits <=> num_computed[s] = num_tokens(s)
            /\ ~sl.needs_logits => num_tokens(s) <= Len(blocks[s]) * BlockSize

\* The inductive invariant of the scheduler.
SchedInv ==
    /\ SchedTypeInv
    /\ Queues /\ Holders /\ CallPlace /\ StepShape
    /\ Candidates /\ Residents /\ StepSlices /\ Computed /\ SampleHead

-----------------------------------------------------------------------------
(* The scheduler as a client of the cache.                                 *)

\* A table that ensure_slot finds long enough has a slot for every token, and one as
\* long as blocks_needed has too.
LEMMA SlotsCover ==
    ASSUME NEW n \in Nat, NEW m \in Nat
    PROVE  /\ blocks_needed(n) \in Nat
           /\ blocks_needed(n) <= m <=> n <= m * BlockSize
<1>1. BlockSize \in Nat \ {0} BY KVAssumption
<1>2. blocks_needed(n) \in Nat BY <1>1 DEF blocks_needed
<1>3. ASSUME blocks_needed(n) <= m PROVE n <= m * BlockSize
  <2>1. n <= blocks_needed(n) * BlockSize BY <1>1 DEF blocks_needed
  <2>2. blocks_needed(n) * BlockSize <= m * BlockSize BY <1>2, <1>3, Scaled
  <2>3. blocks_needed(n) * BlockSize \in Nat /\ m * BlockSize \in Nat BY <1>2, <1>3, Scaled
  <2> QED BY <2>1, <2>2, <2>3
<1>4. ASSUME n <= m * BlockSize PROVE blocks_needed(n) <= m
  BY <1>1, <1>4 DEF blocks_needed
<1> QED BY <1>2, <1>3, <1>4

\* The configuration's numbers.
LEMMA Configuration ==
    /\ MaxNumSeqs \in Nat \ {0} /\ MaxBatchedTokens \in Nat \ {0} /\ ChunkSize \in Nat \ {0}
    /\ Lookahead \in Nat /\ StarvationSteps \in Nat
    /\ Watermark \in Int /\ MaxTokens \in Nat /\ BlockSize \in Nat \ {0}
BY SchedulerAssumption, KVAssumption

\* admit_one looks at an entry of the queue.
LEMMA AdmittingCursor ==
    ASSUME SchedTypeOK, Admitting
    PROVE  cursor \in 1..Len(waiting) /\ waiting[cursor] \in Seqs
<1>1. waiting \in Seq(Seqs) /\ Len(waiting) \in Nat /\ cursor \in Nat \ {0} BY DEF SchedTypeOK
<1>2. cursor <= Len(waiting) BY <1>1, Configuration DEF Admitting, Smaller
<1> QED BY <1>1, <1>2

\* A slice's fields.
LEMMA SliceTypes ==
    ASSUME SchedTypeOK, NEW k \in 1..Len(slices)
    PROVE  /\ slices[k] \in Slices /\ slices[k].seq \in Seqs
           /\ slices[k].start \in Nat /\ slices[k].len \in Nat
<1>1. slices \in Seq(Slices) BY DEF SchedTypeOK
<1>2. slices[k] \in Slices BY <1>1
<1> QED BY <1>2 DEF Slices

\* A sequence's numbers.
LEMMA SeqTypes ==
    ASSUME TypeInv, SchedTypeOK, NEW s \in Seqs
    PROVE  /\ Len(blocks[s]) \in Nat /\ Len(tokens[s]) \in Nat /\ num_tokens(s) = Len(tokens[s])
           /\ Len(blocks[s]) * BlockSize \in Nat
           /\ num_computed[s] \in Nat /\ written[s] \in Nat
           /\ status[s] \in {"new", "waiting", "running", "finished"}
<1>1. Len(blocks[s]) \in Nat /\ Len(tokens[s]) \in Nat /\ written[s] \in Nat
  BY DEF TypeInv, TypeOK
<1>2. Len(blocks[s]) * BlockSize \in Nat
  <2>1. PICK m \in Nat : m = Len(blocks[s]) BY <1>1
  <2> QED BY <2>1, Scaled
<1>3. num_computed[s] \in Nat /\ status[s] \in {"new", "waiting", "running", "finished"}
  BY DEF SchedTypeOK
<1> QED BY <1>1, <1>2, <1>3 DEF num_tokens

\* The manager is idle wherever the loop goes on without asking it.
LEMMA ManagerIdle ==
    ASSUME SchedInv, pc \in {"chunk", "expire", "build", "forward", "apply"}
    PROVE  call = Idle
<1>1. call.op \in {"idle", "alloc", "commit", "free"} /\ (call.op = "idle" <=> call = Idle)
  BY CallTypes DEF SchedInv, SchedTypeInv, TypeInv
<1> QED BY <1>1 DEF SchedInv, CallPlace

\* Every step of the scheduled system is a step of the cache and its client, or
\* leaves the cache alone.
LEMMA CacheStep == ASSUME SchedInv, [Next]_vars PROVE [KVNext]_kvVars
<1>a. SchedTypeOK /\ TypeOK /\ TextBounds /\ TableBounds /\ StepShape
  BY DEF SchedInv, SchedTypeInv, TypeInv
<1>1. CASE UNCHANGED kvVars BY <1>1
<1>2. ASSUME NEW s \in Seqs, free_table(s) PROVE KVNext BY <1>2 DEF KVNext
<1>3. CASE ManagerStep BY <1>3 DEF ManagerStep, KVNext
<1>4. ASSUME NEW s \in Seqs, NEW r \in Requests[s], add(s, r) PROVE KVNext
  <2>1. r.prompt \in Prompts BY SchedulerAssumption
  <2> QED BY <1>4, <2>1 DEF add, KVNext
<1>5. ASSUME NEW s \in Aborts, AbortRunning(s) PROVE KVNext
  BY <1>2, <1>5, SchedulerAssumption DEF AbortRunning
<1>6. CASE Place
  <2>1. decode[cursor] \in Seqs BY <1>6, <1>a DEF Place, Placing, SchedTypeOK
  <2> QED BY <1>6, <2>1 DEF Place, KVNext
<1>7. ASSUME NEW i \in 1..Len(running), Evict(i) PROVE KVNext
  <2>1. running[i] \in Seqs BY <1>a DEF SchedTypeOK
  <2> QED BY <1>2, <1>7, <2>1 DEF Evict
<1>8. CASE EvictFinished BY <1>7, <1>8 DEF EvictFinished, FinishedAt
<1>9. CASE Preempt
  <2>1. Victim \in 1..Len(running) BY <1>9, <1>a DEF Preempt, Victim, SchedTypeOK
  <2> QED BY <1>7, <1>9, <2>1 DEF Preempt
<1>10. CASE Admit
  <2>1. waiting[cursor] \in Seqs BY <1>10, <1>a, AdmittingCursor DEF Admit
  <2> QED BY <1>10, <2>1 DEF Admit, KVNext
<1>11. CASE Forward
  <2> DEFINE sl == slices[cursor]
  <2>1. sl \in Slices BY <1>11, <1>a DEF Forward, StepShape, SchedTypeOK
  <2>2. sl.seq \in Seqs /\ sl.start \in Nat /\ sl.len \in Nat BY <2>1 DEF Slices
  <2>3. Write(sl.seq, sl.start, sl.start + sl.len) BY <1>11 DEF Forward
  <2> HIDE DEF sl
  <2>4. sl.start + sl.len <= Len(tokens[sl.seq]) BY <2>3 DEF Write
  <2>5. sl.start \in 0..MaxTokens /\ sl.start + sl.len \in 0..MaxTokens
    BY <2>2, <2>4, <1>a, KVAssumption, SMTT(20) DEF TextBounds, TypeOK
  <2> QED BY <2>2, <2>3, <2>5 DEF KVNext
<1>12. CASE Apply
  <2> DEFINE sl == Head(slices)
  <2>1. sl \in Slices BY <1>12, <1>a DEF Apply, StepShape, SchedTypeOK
  <2>2. sl.seq \in Seqs /\ sl.len \in Nat BY <2>1 DEF Slices
  <2> DEFINE n == num_computed'[sl.seq]
  <2>3. \/ commit_computed(sl.seq, n)
        \/ UNCHANGED kvVars
    BY <1>12 DEF Apply
  <2>4. n = num_computed[sl.seq] + sl.len /\ num_computed[sl.seq] \in Nat
    <3>1. num_computed' = [num_computed EXCEPT ![sl.seq] = @ + sl.len] BY <1>12 DEF Apply
    <3> HIDE DEF sl
    <3> QED BY <2>2, <3>1, <1>a DEF SchedTypeOK
  <2> HIDE DEF n, sl
  <2>5. CASE commit_computed(sl.seq, n)
    <3>1. n <= written[sl.seq] BY <2>5 DEF commit_computed
    <3>2. n \in 0..MaxTokens
      BY <2>2, <2>4, <3>1, <1>a, KVAssumption, SMTT(20) DEF TextBounds, TableBounds, TypeOK
    <3> QED BY <2>2, <2>5, <3>2 DEF KVNext
  <2> QED BY <2>3, <2>5
<1>13. ASSUME NEW tok \in Token, Sample(tok) PROVE KVNext
  <2>1. Head(slices) \in Slices BY <1>13, <1>a DEF Sample, StepShape, SchedTypeOK
  <2>2. Head(slices).seq \in Seqs BY <2>1 DEF Slices
  <2> QED BY <1>13, <2>2 DEF Sample, KVNext
<1>14. CASE RetireDone
  <2>1. Head(done) \in Seqs BY <1>14, <1>a DEF RetireDone, SchedTypeOK
  <2> QED BY <1>2, <1>14, <2>1 DEF RetireDone
<1>15. CASE DrainBatch
  <2>1. running # <<>> => Head(running) \in Seqs BY <1>a DEF SchedTypeOK
  <2> QED BY <1>1, <1>2, <1>15, <2>1 DEF DrainBatch
<1>16. CASE UNCHANGED vars BY <1>1, <1>16 DEF vars
<1> QED
  BY <1>1, <1>3, <1>4, <1>5, <1>6, <1>8, <1>9, <1>10, <1>11, <1>12, <1>13, <1>14, <1>15, <1>16
     DEF Next, EngineStep, WithinStep, ClientStep, BeginSchedule, AbortWaiting, PlaceDone,
         ChunkPrefill, TruncateDecode, ExpireQueue, SkipWaiting, AdmitDone, FinishSchedule,
         SkipSample, EndStep

\* The invariant holds when the engine thread starts.
LEMMA InitSched == Init => SchedInv
<1> SUFFICES ASSUME Init PROVE SchedInv OBVIOUS
<1> USE DEF Init
<1>1. TypeInv BY InitTypeInv
<1>2. SchedTypeOK BY DEF SchedTypeOK, Places
<1>3. Members(<<>>) = {} /\ Distinct(<<>>) BY MembersType, <1>2 DEF SchedTypeOK
<1>4. \A s \in Seqs : Len(tokens[s]) = 0 BY DEF KVInit
<1>5. TextBounds BY <1>3, <1>4, KVAssumption DEF TextBounds
<1>6. Queues BY <1>3 DEF Queues
<1>7. Holders BY DEF Holders, KVInit
<1>8. CallPlace BY DEF CallPlace, KVInit, Idle
<1>9. StepShape BY DEF StepShape
<1>10. Candidates BY <1>3 DEF Candidates, DecodeOrder
<1>11. Residents /\ StepSlices /\ Computed /\ SampleHead
  BY <1>3 DEF Residents, StepSlices, Computed, SampleHead
<1> QED BY <1>1, <1>2, <1>5, <1>6, <1>7, <1>8, <1>9, <1>10, <1>11 DEF SchedInv, SchedTypeInv

-----------------------------------------------------------------------------
(* The manager's iterations.                                               *)

\* An iteration of a method changes at most the table and the K/V of its own
\* sequence: allocation extends the table until it covers the prompt, publishing
\* leaves it alone, releasing empties it.
LEMMA CallStepFrame ==
    ASSUME TypeInv, CallStep
    PROVE  /\ call \in Calls /\ call.seq \in Seqs /\ call.n \in Nat
           /\ call.op \in {"alloc", "commit", "free"}
           /\ tokens' = tokens
           /\ call' = call \/ call' = Idle
           /\ \A r \in Seqs : r # call.seq => blocks'[r] = blocks[r] /\ written'[r] = written[r]
           /\ call.op = "alloc" => Len(blocks'[call.seq]) >= Len(blocks[call.seq])
           /\ call.op = "alloc" /\ call' # call =>
                 /\ blocks' = blocks
                 /\ written'[call.seq] = call.n * BlockSize
                 /\ num_tokens(call.seq) <= Len(blocks[call.seq]) * BlockSize
           /\ call.op = "commit" => blocks' = blocks /\ written' = written
           /\ call.op = "free" /\ call' # call => blocks'[call.seq] = <<>>
<1>1. /\ TypeOK
      /\ blocks \in [Seqs -> Seq(Blocks)] /\ written \in [Seqs -> Nat]
      /\ tokens \in [Seqs -> Seq(Token)]
  BY DEF TypeInv, TypeOK
<1>2. call # Idle /\ call.op # "idle"
  BY <1>1, CallTypes DEF CallStep, AllocHit, AllocTake, AllocReturn, CommitStep, CommitReturn,
     FreeStep, FreeReturn
<1>3. /\ call \in Calls /\ call.seq \in Seqs /\ call.n \in Nat
      /\ call.op \in {"alloc", "commit", "free"}
  BY <1>1, <1>2, CallTypes
<1>4. PICK s \in Seqs : s = call.seq BY <1>3
<1>5. CASE AllocHit
  <2>1. PICK b : blocks' = [blocks EXCEPT ![s] = Append(@, b)] BY <1>4, <1>5 DEF AllocHit
  <2>2. call.op = "alloc" /\ call' = call /\ written' = written /\ tokens' = tokens
    BY <1>5 DEF AllocHit
  <2>3. Len(blocks'[s]) >= Len(blocks[s]) /\ \A r \in Seqs : r # s => blocks'[r] = blocks[r]
    BY <1>1, <2>1
  <2> QED BY <1>2, <1>3, <1>4, <2>2, <2>3
<1>6. CASE AllocTake
  <2>1. PICK b \in Blocks : GrowTable(s, b) BY <1>4, <1>6 DEF AllocTake
  <2>2. /\ blocks' = [blocks EXCEPT ![s] = Append(@, b)]
        /\ call.op = "alloc" /\ call' = call /\ written' = written /\ tokens' = tokens
    BY <1>6, <2>1 DEF AllocTake, GrowTable
  <2>3. Len(blocks'[s]) >= Len(blocks[s]) /\ \A r \in Seqs : r # s => blocks'[r] = blocks[r]
    BY <1>1, <2>2
  <2> QED BY <1>2, <1>3, <1>4, <2>2, <2>3
<1>7. CASE AllocReturn
  <2>1. /\ call.op = "alloc" /\ call' = Idle /\ tokens' = tokens /\ blocks' = blocks
        /\ written' = [written EXCEPT ![s] = call.n * BlockSize]
        /\ Len(blocks[s]) >= blocks_needed(Len(tokens[s]))
    BY <1>4, <1>7 DEF AllocReturn, Returned
  <2>2. Len(blocks[s]) \in Nat /\ Len(tokens[s]) \in Nat BY <1>1
  <2>3. num_tokens(s) <= Len(blocks[s]) * BlockSize BY <2>1, <2>2, SlotsCover DEF num_tokens
  <2>4. written'[s] = call.n * BlockSize /\ \A r \in Seqs : r # s => written'[r] = written[r]
    BY <1>1, <2>1
  <2> QED BY <1>2, <1>3, <1>4, <2>1, <2>2, <2>3, <2>4
<1>8. CASE CommitStep \/ CommitReturn
  BY <1>2, <1>3, <1>8 DEF CommitStep, CommitReturn, Returned, tables
<1>9. CASE FreeStep
  <2>1. /\ call.op = "free" /\ call' = call /\ tokens' = tokens /\ written' = written
        /\ \E x : blocks' = [blocks EXCEPT ![s] = x]
    BY <1>4, <1>9 DEF FreeStep
  <2> QED BY <1>1, <1>2, <1>3, <1>4, <2>1
<1>10. CASE FreeReturn
  BY <1>2, <1>3, <1>10 DEF FreeReturn, Returned
<1> QED BY <1>5, <1>6, <1>7, <1>8, <1>9, <1>10 DEF CallStep

\* The manager's iterations keep the scheduler's invariant.
LEMMA ManagerKeeps == ASSUME SchedInv, TypeInv', ManagerStep PROVE SchedInv'
<1> USE DEF SchedInv, SchedTypeInv
<1>a. /\ UNCHANGED schedVars /\ CallStep
      /\ UNCHANGED <<waiting, running, batch_open, status, finish, num_computed, limit, wait_steps,
                     first_scheduled, terminals, pc, budget, mid_prefill, decode, cursor, slices, done>>
  BY DEF ManagerStep, schedVars, queueVars, requestVars, stepVars
<1>b. PICK s \in Seqs : s = call.seq BY CallStepFrame, <1>a
<1>c. /\ tokens' = tokens
      /\ call.op \in {"alloc", "commit", "free"}
      /\ call' = call \/ call' = Idle
      /\ \A r \in Seqs : r # s => blocks'[r] = blocks[r] /\ written'[r] = written[r]
      /\ call.op = "alloc" => Len(blocks'[s]) >= Len(blocks[s])
      /\ call.op = "alloc" /\ call' # call =>
            /\ blocks' = blocks
            /\ written'[s] = call.n * BlockSize
            /\ num_tokens(s) <= Len(blocks[s]) * BlockSize
      /\ call.op = "commit" => blocks' = blocks /\ written' = written
      /\ call.op = "free" /\ call' # call => blocks'[s] = <<>>
  BY CallStepFrame, <1>a, <1>b
<1>d. Members(running) \subseteq Seqs /\ Members(decode) \subseteq Seqs
  BY MembersType DEF SchedTypeOK
<1>e. Idle.op = "idle" BY DEF Idle
<1>f. \A r \in Seqs : /\ Len(blocks[r]) \in Nat /\ Len(blocks'[r]) \in Nat /\ Len(tokens[r]) \in Nat
                      /\ num_tokens(r)' = num_tokens(r) /\ num_tokens(r) \in Nat
                      /\ Len(blocks[r]) * BlockSize \in Nat
  <2>1. \A r \in Seqs : Len(blocks'[r]) \in Nat BY DEF TypeInv, TypeOK
  <2> QED BY <1>c, <2>1, SeqTypes DEF num_tokens
<1>g. /\ Members(waiting)' = Members(waiting) /\ Members(running)' = Members(running)
      /\ Members(done)' = Members(done) /\ Members(decode)' = Members(decode)
      /\ Members(mid_prefill)' = Members(mid_prefill) /\ Sliced' = Sliced
  BY <1>a DEF Members, Sliced
<1>1. SchedTypeOK' BY <1>a DEF SchedTypeOK
<1>2. TextBounds' BY <1>a, <1>c DEF TextBounds, Members
<1>3. Queues'
  <2>1. (Distinct(waiting) /\ Distinct(running) /\ Distinct(done))'
    BY <1>a DEF Queues, Distinct
  <2> QED BY <1>a, <1>g, <2>1 DEF Queues
<1>4. Holders'
  <2> SUFFICES ASSUME NEW r \in Seqs, blocks'[r] # <<>>
               PROVE  \/ r \in (Members(running) \union Members(done))'
                      \/ call'.op = "free" /\ call'.seq = r
    BY DEF Holders
  <2>1. CASE r # s BY <1>a, <1>b, <1>c, <2>1 DEF Holders, Members
  <2>2. CASE r = s /\ call.op = "alloc" BY <1>a, <1>b, <2>2 DEF CallPlace, Members
  <2>3. CASE r = s /\ call.op = "commit" BY <1>a, <1>c, <2>3 DEF Holders, Members
  <2>4. CASE r = s /\ call.op = "free" BY <1>b, <1>c, <2>4
  <2> QED BY <1>c, <2>1, <2>2, <2>3, <2>4
<1>5. CallPlace' BY <1>a, <1>c, <1>e DEF CallPlace, Members
<1>6. StepShape' BY <1>a DEF StepShape, Members, is_finished
<1>7. Candidates'
  <2>1. ASSUME NEW k \in 1..Len(decode), pc = "place" => k < cursor
        PROVE  EnsureSlotHolds(decode[k])'
    <3>1. EnsureSlotHolds(decode[k]) BY <2>1 DEF Candidates
    <3>2. decode[k] \in Members(running) /\ decode[k] \in Seqs
      BY <1>d DEF Candidates, Members
    <3>3. Len(blocks'[decode[k]]) >= Len(blocks[decode[k]])
      <4>1. CASE decode[k] # s BY <1>c, <1>f, <3>2, <4>1
      <4>2. CASE decode[k] = s BY <1>b, <1>c, <1>f, <3>2, <4>2 DEF CallPlace
      <4> QED BY <4>1, <4>2
    <3>4. blocks_needed(Len(tokens[decode[k]])) \in Nat BY <1>f, <3>2, SlotsCover
    <3>5. EnsureSlotHolds(decode[k])' <=> blocks_needed(Len(tokens[decode[k]])) <= Len(blocks'[decode[k]])
      BY <1>a, <1>c DEF EnsureSlotHolds, blocks_needed
    <3> QED BY <1>f, <3>1, <3>2, <3>3, <3>4, <3>5 DEF EnsureSlotHolds
  <2>2. (Distinct(decode) /\ Distinct(mid_prefill))' BY <1>a DEF Candidates, Distinct
  <2>3. (pc = "place" => DecodeOrder)' BY <1>a DEF Candidates, DecodeOrder
  <2>4. /\ \A r \in Members(decode) \union Members(mid_prefill) :
              r \in Members(running) /\ ~is_finished(r)' /\ r \notin Sliced
        /\ \A r \in Members(decode) : num_tokens(r)' = num_computed[r] + 1
        /\ \A r \in Members(mid_prefill) : num_tokens(r)' > num_computed[r] + 1
    BY <1>a, <1>c DEF Candidates, is_finished, num_tokens
  <2> QED BY <1>a, <1>g, <2>1, <2>2, <2>3, <2>4 DEF Candidates
<1>8. Residents'
  <2> SUFFICES ASSUME NEW r \in Members(running), ~is_finished(r), ~Applied(r)
               PROVE  /\ num_computed[r] < num_tokens(r)
                      /\ Allocating(r)' => num_computed[r] <= call'.n * BlockSize
                      /\ ~Allocating(r)' =>
                            /\ num_computed[r] <= written'[r]
                            /\ \/ num_tokens(r) <= Len(blocks'[r]) * BlockSize
                               \/ num_tokens(r) = num_computed[r] + 1
    BY <1>a, <1>c DEF Residents, Members, is_finished, Applied, num_tokens
  <2>0. r \in Seqs BY <1>d
  <2>1. /\ num_computed[r] < num_tokens(r)
        /\ Allocating(r) => num_computed[r] <= call.n * BlockSize
        /\ ~Allocating(r) =>
              /\ num_computed[r] <= written[r]
              /\ \/ num_tokens(r) <= Len(blocks[r]) * BlockSize
                 \/ num_tokens(r) = num_computed[r] + 1
    BY DEF Residents
  <2>2. CASE r # s
    BY <1>b, <1>c, <1>e, <2>0, <2>1, <2>2 DEF Allocating
  <2>3. CASE r = s /\ call.op = "alloc" /\ call' = call
    BY <1>b, <2>1, <2>3 DEF Allocating
  <2>4. CASE r = s /\ call.op = "alloc" /\ call' # call
    <3>1. ~Allocating(r)' BY <1>c, <1>e, <2>4 DEF Allocating
    <3> QED BY <1>b, <1>c, <2>1, <2>4, <3>1 DEF Allocating
  <2>5. CASE r = s /\ call.op = "commit"
    BY <1>b, <1>c, <1>e, <2>1, <2>5 DEF Allocating
  <2>6. CASE r = s /\ call.op = "free" BY <1>b, <2>6 DEF CallPlace
  <2> QED BY <1>c, <2>2, <2>3, <2>4, <2>5, <2>6
<1>9. StepSlices'
  <2>1. ASSUME NEW k \in 1..Len(slices), SliceValid(slices[k])
        PROVE  SliceValid(slices[k])'
    <3>0. PICK sl \in Slices : sl = slices[k] /\ sl.seq \in Seqs BY SliceTypes
    <3>1. /\ sl.seq \in Members(running) /\ sl.seq \in Seqs
          /\ sl.start + sl.len <= num_tokens(sl.seq)
          /\ ~Allocating(sl.seq) => sl.start + sl.len <= Len(blocks[sl.seq]) * BlockSize
      BY <2>1, <3>0, <1>d DEF SliceValid
    <3>2. sl.start \in Nat /\ sl.len \in Nat BY <3>0, SliceTypes
    <3>3. ~Allocating(sl.seq)' => sl.start + sl.len <= Len(blocks'[sl.seq]) * BlockSize
      <4>1. CASE sl.seq # s BY <1>b, <1>c, <1>e, <3>1, <4>1 DEF Allocating
      <4>2. CASE sl.seq = s /\ call.op = "alloc" /\ call' = call
        BY <1>b, <4>2 DEF Allocating
      <4>3. CASE sl.seq = s /\ call.op = "alloc" /\ call' # call
        BY <1>c, <1>f, <3>1, <3>2, <4>3
      <4>4. CASE sl.seq = s /\ call.op = "commit"
        BY <1>b, <1>c, <1>e, <3>1, <4>4 DEF Allocating
      <4>5. CASE sl.seq = s /\ call.op = "free" BY <1>b, <3>1, <4>5 DEF CallPlace
      <4> QED BY <1>c, <4>1, <4>2, <4>3, <4>4, <4>5
    <3> QED BY <1>a, <1>c, <1>g, <2>1, <3>0, <3>3 DEF SliceValid, is_finished, num_tokens
  <2> QED BY <1>a, <2>1 DEF StepSlices
<1>10. Computed'
  <2> SUFFICES ASSUME NEW k \in 1..Len(slices),
                      (pc = "forward" /\ k < cursor) \/ pc = "apply" \/ (pc = "sample" /\ k > 1)
               PROVE  slices[k].start + slices[k].len <= written'[slices[k].seq]
    BY <1>a DEF Computed
  <2>1. slices[k].seq \in Seqs BY SliceTypes
  <2>2. call.op = "commit" BY <1>c DEF CallPlace
  <2> QED BY <1>c, <2>1, <2>2 DEF Computed
<1>11. SampleHead'
  <2>1. pc = "sample" => call.op = "commit" BY <1>c DEF CallPlace
  <2> QED BY <1>a, <1>c, <2>1 DEF SampleHead, Members, is_finished, num_tokens
<1> QED BY <1>1, <1>2, <1>3, <1>4, <1>5, <1>6, <1>7, <1>8, <1>9, <1>10, <1>11

-----------------------------------------------------------------------------
(* What a step leaves alone.                                               *)

\* Outside a step there are neither slices nor candidates.
LEMMA NoStep ==
    ASSUME pc' \in {"idle", "retire", "drain"},
           slices' = <<>>, decode' = <<>>, mid_prefill' = <<>>
    PROVE  (Candidates /\ StepSlices /\ Computed /\ SampleHead)'
<1>1. Members(<<>>) = {} /\ Distinct(<<>>) /\ Len(<<>>) = 0 /\ 1..0 = {}
  BY DEF Members, Distinct
<1>2. Members(decode') = {} /\ Members(mid_prefill') = {} BY <1>1
<1>3. Candidates' BY <1>1, <1>2 DEF Candidates
<1>4. StepSlices' /\ Computed' BY <1>1 DEF StepSlices, Computed
<1>5. SampleHead' BY DEF SampleHead
<1> QED BY <1>3, <1>4, <1>5

\* A resident stays as Residents says while nobody computes, samples or allocates it
\* and its table only grows.
LEMMA ResidentsKept ==
    ASSUME SchedInv, TypeInv', SchedTypeOK',
           \A r \in Members(running)' : ~is_finished(r)' /\ ~Applied(r)' =>
              /\ r \in Members(running) /\ ~is_finished(r) /\ ~Applied(r)
              /\ ~Allocating(r) /\ ~Allocating(r)'
              /\ num_computed'[r] = num_computed[r] /\ tokens'[r] = tokens[r]
              /\ written'[r] >= written[r] /\ Len(blocks'[r]) >= Len(blocks[r])
    PROVE  Residents'
<1> SUFFICES ASSUME NEW r \in Members(running)', ~is_finished(r)', ~Applied(r)'
             PROVE  /\ num_computed'[r] < num_tokens(r)'
                    /\ num_computed'[r] <= written'[r]
                    /\ \/ num_tokens(r)' <= Len(blocks'[r]) * BlockSize
                       \/ num_tokens(r)' = num_computed'[r] + 1
  BY DEF Residents
<1>1. r \in Seqs BY MembersType DEF SchedTypeOK
<1>2. /\ num_computed[r] < num_tokens(r) /\ num_computed[r] <= written[r]
      /\ \/ num_tokens(r) <= Len(blocks[r]) * BlockSize
         \/ num_tokens(r) = num_computed[r] + 1
  BY DEF SchedInv, Residents
<1>3. /\ num_tokens(r)' = num_tokens(r) /\ num_computed'[r] = num_computed[r]
      /\ written'[r] >= written[r] /\ Len(blocks'[r]) >= Len(blocks[r])
  BY DEF num_tokens
<1>4. /\ num_tokens(r) \in Nat /\ num_computed[r] \in Nat /\ written[r] \in Nat
      /\ Len(blocks[r]) \in Nat
  BY <1>1, SeqTypes DEF SchedInv, SchedTypeInv
<1>5. written'[r] \in Nat /\ Len(blocks'[r]) \in Nat BY <1>1 DEF TypeInv, TypeOK
<1>6. Len(blocks[r]) * BlockSize <= Len(blocks'[r]) * BlockSize
      /\ Len(blocks[r]) * BlockSize \in Nat /\ Len(blocks'[r]) * BlockSize \in Nat
  BY <1>3, <1>4, <1>5, Scaled
<1> QED BY <1>2, <1>3, <1>4, <1>5, <1>6

\* A slice stays valid while its sequence is resident, is not computed and only gets
\* more blocks.
LEMMA SliceKept ==
    ASSUME SchedInv, TypeInv', NEW sl \in Slices, SliceValid(sl), ~Allocating(sl.seq),
           sl.seq \in Members(running)', ~is_finished(sl.seq)',
           num_computed'[sl.seq] = num_computed[sl.seq], tokens'[sl.seq] = tokens[sl.seq],
           Len(blocks'[sl.seq]) >= Len(blocks[sl.seq])
    PROVE  SliceValid(sl)'
<1>1. sl.seq \in Seqs /\ sl.start \in Nat /\ sl.len \in Nat BY DEF Slices
<1>2. /\ sl.len > 0 /\ sl.start = num_computed[sl.seq]
      /\ sl.start + sl.len <= num_tokens(sl.seq)
      /\ sl.needs_logits <=> sl.start + sl.len = num_tokens(sl.seq)
      /\ sl.start + sl.len <= Len(blocks[sl.seq]) * BlockSize
  BY DEF SliceValid
<1>3. num_tokens(sl.seq)' = num_tokens(sl.seq) BY DEF num_tokens
<1>4. Len(blocks[sl.seq]) \in Nat /\ Len(blocks'[sl.seq]) \in Nat
  BY <1>1 DEF SchedInv, SchedTypeInv, TypeInv, TypeOK
<1>5. Len(blocks[sl.seq]) * BlockSize <= Len(blocks'[sl.seq]) * BlockSize
      /\ Len(blocks[sl.seq]) * BlockSize \in Nat /\ Len(blocks'[sl.seq]) * BlockSize \in Nat
  BY <1>4, Scaled
<1>6. sl.start + sl.len <= Len(blocks'[sl.seq]) * BlockSize BY <1>1, <1>2, <1>5
<1> QED BY <1>2, <1>3, <1>6 DEF SliceValid

-----------------------------------------------------------------------------
(* Between two steps.                                                      *)

\* add() keeps the invariant: a new request is queued once.
LEMMA AddKeeps ==
    ASSUME SchedInv, TypeInv', NEW s \in Seqs, NEW r \in Requests[s], add(s, r)
    PROVE  SchedInv'
<1> USE DEF SchedInv, SchedTypeInv
<1>a. /\ pc = "idle" /\ call = Idle /\ status[s] = "new" /\ blocks[s] = <<>>
      /\ tokens' = [tokens EXCEPT ![s] = r.prompt]
      /\ status' = [status EXCEPT ![s] = "waiting"]
      /\ limit' = [limit EXCEPT ![s] = Len(r.prompt) + r.max_tokens]
      /\ waiting' = Append(waiting, s)
      /\ UNCHANGED <<running, batch_open, finish, num_computed, wait_steps, first_scheduled,
                     terminals, pc, budget, mid_prefill, decode, cursor, slices, done,
                     blocks, written, call>>
  BY DEF add, EngineIdle, SetPrompt, tables, stepVars
<1>b. /\ r.prompt \in Seq(Token) /\ Len(r.prompt) \in Nat /\ r.max_tokens \in Nat
      /\ Len(r.prompt) > 0 /\ Len(r.prompt) <= MaxTokens
  BY SchedulerAssumption, KVAssumption DEF validate
<1>c. Idle.op = "idle" BY DEF Idle
<1>d. slices = <<>> /\ mid_prefill = <<>> /\ decode = <<>> /\ done = <<>>
  BY <1>a DEF StepShape
<1>e. /\ Members(waiting)' = Members(waiting) \union {s}
      /\ s \notin Members(waiting) => Distinct(waiting)'
      /\ waiting' \in Seq(Seqs)
  BY <1>a, AppendQueue DEF SchedTypeOK, Queues
<1>f. /\ Members(running)' = Members(running) /\ Members(done)' = Members(done)
      /\ Distinct(running)' /\ Distinct(done)'
  BY <1>a, SMTT(20) DEF Members, Distinct, Queues
<1>g. s \notin Members(waiting) /\ s \notin Members(running) BY <1>a DEF Queues
<1>h. /\ Members(waiting) \subseteq Seqs /\ Members(running) \subseteq Seqs
      /\ Members(done) = {}
  BY <1>d, MembersType DEF SchedTypeOK
<1>i. \A q \in Seqs : q # s => tokens'[q] = tokens[q] /\ status'[q] = status[q]
  BY <1>a DEF TypeInv, TypeOK, SchedTypeOK
<1>j. tokens'[s] = r.prompt /\ status'[s] = "waiting"
  BY <1>a DEF TypeInv, TypeOK, SchedTypeOK
<1>1. SchedTypeOK'
  <2>1. status' \in [Seqs -> {"new", "waiting", "running", "finished"}]
    BY <1>a DEF SchedTypeOK
  <2>2. PICK n \in Nat : n = Len(r.prompt) + r.max_tokens BY <1>b
  <2>3. limit \in [Seqs -> Nat] /\ limit' = [limit EXCEPT ![s] = n]
    BY <1>a, <2>2 DEF SchedTypeOK
  <2>4. limit' \in [Seqs -> Nat] BY <2>3
  <2> QED BY <1>a, <1>e, <2>1, <2>4 DEF SchedTypeOK
<1>2. TextBounds'
  <2>1. \A q \in Seqs : Len(tokens'[q]) <= MaxTokens BY <1>b, <1>i, <1>j DEF TextBounds
  <2>2. \A q \in Members(waiting) \union Members(running) : q \in Seqs /\ q # s /\ Len(tokens[q]) > 0
    BY <1>g, <1>h DEF TextBounds
  <2>3. \A q \in Members(waiting)' \union Members(running)' : Len(tokens'[q]) > 0
    BY <1>b, <1>e, <1>f, <1>i, <1>j, <2>2
  <2> QED BY <2>1, <2>3 DEF TextBounds
<1>3. Queues' BY <1>a, <1>e, <1>f, <1>g, <1>h, <1>i, <1>j DEF Queues
<1>4. Holders' BY <1>a, <1>c, <1>f DEF Holders
<1>5. CallPlace' BY <1>a, <1>c DEF CallPlace
<1>6. StepShape' BY <1>a, <1>f DEF StepShape
<1>7. Residents'
  <2>1. \A q \in Members(running)' : q \in Seqs /\ q # s BY <1>f, <1>g, <1>h
  <2>2. ~Applied(s) /\ \A q : ~Applied(q) /\ ~Allocating(q) /\ ~Allocating(q)'
    BY <1>a, <1>c DEF Applied, Allocating
  <2>3. \A q \in Seqs : written[q] \in Nat /\ Len(blocks[q]) \in Nat BY SeqTypes
  <2> QED BY <1>a, <1>1, <1>f, <1>i, <2>1, <2>2, <2>3, ResidentsKept DEF is_finished
<1>8. (Candidates /\ StepSlices /\ Computed /\ SampleHead)' BY <1>a, <1>d, NoStep
<1> QED BY <1>1, <1>2, <1>3, <1>4, <1>5, <1>6, <1>7, <1>8

\* retire() finishes the given sequences and no other.
LEMMA RetireFrame ==
    ASSUME SchedTypeOK, NEW S \in SUBSET Seqs,
           NEW reason \in {"none", "stop", "length", "abort", "timeout"}, retire(S, reason)
    PROVE  /\ status' \in [Seqs -> {"new", "waiting", "running", "finished"}]
           /\ finish' \in [Seqs -> {"none", "stop", "length", "abort", "timeout"}]
           /\ terminals' \in [Seqs -> Nat]
           /\ \A r \in Seqs : status'[r] = IF r \in S THEN "finished" ELSE status[r]
           /\ \A r \in Seqs : finish'[r] = IF r \in S THEN reason ELSE finish[r]
<1>1. /\ status' = [s \in Seqs |-> IF s \in S THEN "finished" ELSE status[s]]
      /\ finish' = [s \in Seqs |-> IF s \in S THEN reason ELSE finish[s]]
      /\ terminals' = [s \in Seqs |-> IF s \in S THEN terminals[s] + 1 ELSE terminals[s]]
  BY DEF retire
<1>2. status' \in [Seqs -> {"new", "waiting", "running", "finished"}] BY <1>1 DEF SchedTypeOK
<1>3. finish' \in [Seqs -> {"none", "stop", "length", "abort", "timeout"}]
  BY <1>1 DEF SchedTypeOK
<1>4. terminals' \in [Seqs -> Nat] BY <1>1 DEF SchedTypeOK
<1> QED BY <1>1, <1>2, <1>3, <1>4

\* A resident that leaves the batch takes its blocks to free_table, and the others keep
\* theirs.
LEMMA Released ==
    ASSUME SchedInv, TypeInv', SchedTypeOK', NEW v \in Seqs, free_table(v),
           pc' = pc, pc \in {"idle", "place", "retire", "drain"},
           Members(running)' = Members(running) \ {v},
           Members(done)' = Members(done) \ {v},
           \A r \in Members(running)' :
              num_computed'[r] = num_computed[r] /\ status'[r] = status[r]
    PROVE  (Holders /\ CallPlace /\ Residents)' /\ tokens' = tokens /\ blocks' = blocks
<1>1. /\ call = Idle /\ call' = [op |-> "free", seq |-> v, n |-> 0]
      /\ written' = [written EXCEPT ![v] = 0]
      /\ blocks' = blocks /\ tokens' = tokens
  BY DEF free_table, tables
<1>2. call.op = "idle" /\ call'.op = "free" /\ call'.seq = v BY <1>1 DEF Idle
<1>3. Holders' BY <1>1, <1>2 DEF SchedInv, Holders
<1>4. CallPlace' BY <1>2 DEF CallPlace
<1>5. Residents'
  <2> SUFFICES ASSUME NEW r \in Members(running)', ~is_finished(r)', ~Applied(r)'
               PROVE  /\ r \in Members(running) /\ ~is_finished(r) /\ ~Applied(r)
                      /\ ~Allocating(r) /\ ~Allocating(r)'
                      /\ num_computed'[r] = num_computed[r] /\ tokens'[r] = tokens[r]
                      /\ written'[r] >= written[r] /\ Len(blocks'[r]) >= Len(blocks[r])
    BY ResidentsKept
  <2>1. r \in Seqs /\ r # v BY MembersType DEF SchedTypeOK
  <2>2. written'[r] = written[r] /\ written[r] \in Nat /\ Len(blocks[r]) \in Nat
    BY <1>1, <2>1 DEF SchedInv, SchedTypeInv, TypeInv, TypeOK
  <2>3. ~Allocating(r) /\ ~Allocating(r)' /\ ~Applied(r) BY <1>2 DEF Allocating, Applied
  <2> QED BY <1>1, <2>2, <2>3 DEF is_finished
<1> QED BY <1>1, <1>3, <1>4, <1>5

\* Aborting a queued request keeps the invariant.
LEMMA AbortWaitingKeeps ==
    ASSUME SchedInv, TypeInv', NEW s \in Seqs, EngineIdle, AbortWaiting(s), UNCHANGED stepVars
    PROVE  SchedInv'
<1> USE DEF SchedInv, SchedTypeInv
<1>a. /\ pc = "idle" /\ call = Idle /\ s \in Members(waiting)
      /\ waiting' = Without(waiting, s)
      /\ retire({s}, "abort")
      /\ UNCHANGED <<running, batch_open, num_computed, limit, wait_steps, first_scheduled,
                     pc, budget, mid_prefill, decode, cursor, slices, done,
                     blocks, written, tokens, call>>
  BY DEF AbortWaiting, EngineIdle, kvVars, tables, stepVars
<1>b. call.op = "idle" BY <1>a DEF Idle
<1>c. slices = <<>> /\ mid_prefill = <<>> /\ decode = <<>> /\ done = <<>>
  BY <1>a DEF StepShape
<1>d. /\ Members(waiting)' = Members(waiting) \ {s} /\ Distinct(waiting)' /\ waiting' \in Seq(Seqs)
  BY <1>a, WithoutQueue DEF SchedTypeOK, Queues
<1>e. /\ Members(running)' = Members(running) /\ Members(done)' = Members(done)
      /\ Distinct(running)' /\ Distinct(done)'
  BY <1>a DEF Members, Distinct, Queues
<1>f. /\ status' \in [Seqs -> {"new", "waiting", "running", "finished"}]
      /\ finish' \in [Seqs -> {"none", "stop", "length", "abort", "timeout"}]
      /\ terminals' \in [Seqs -> Nat]
      /\ \A r \in Seqs : status'[r] = IF r \in {s} THEN "finished" ELSE status[r]
  BY <1>a, RetireFrame
<1>g. status[s] = "waiting" /\ s \notin Members(running) /\ s \notin Members(done)
  BY <1>a DEF Queues
<1>h. Members(running) \subseteq Seqs /\ Members(done) \subseteq Seqs BY MembersType DEF SchedTypeOK
<1>1. SchedTypeOK' BY <1>a, <1>d, <1>f DEF SchedTypeOK
<1>2. TextBounds' BY <1>a, <1>d, <1>e DEF TextBounds
<1>3. Queues'
  <2>1. \A r \in Members(running) \union Members(done) : status'[r] = status[r]
    BY <1>f, <1>g, <1>h
  <2> QED BY <1>d, <1>e, <1>f, <1>g, <2>1 DEF Queues
<1>4. Holders' BY <1>a, <1>e DEF Holders
<1>5. CallPlace' BY <1>a, <1>b DEF CallPlace
<1>6. StepShape' BY <1>a DEF StepShape
<1>7. Residents'
  <2>1. \A q : ~Applied(q) /\ ~Allocating(q) /\ ~Allocating(q)'
    BY <1>a, <1>b DEF Applied, Allocating
  <2>2. \A q \in Seqs : written[q] \in Nat /\ Len(blocks[q]) \in Nat BY SeqTypes
  <2>3. \A q \in Members(running) : status'[q] = status[q] /\ q \in Seqs BY <1>f, <1>g, <1>h
  <2> QED BY <1>a, <1>1, <1>e, <2>1, <2>2, <2>3, ResidentsKept DEF is_finished
<1>8. (Candidates /\ StepSlices /\ Computed /\ SampleHead)' BY <1>a, <1>c, NoStep
<1> QED BY <1>1, <1>2, <1>3, <1>4, <1>5, <1>6, <1>7, <1>8

\* Aborting a resident keeps the invariant.
LEMMA AbortRunningKeeps ==
    ASSUME SchedInv, TypeInv', NEW s \in Seqs, EngineIdle, AbortRunning(s), UNCHANGED stepVars
    PROVE  SchedInv'
<1> USE DEF SchedInv, SchedTypeInv
<1>a. /\ pc = "idle" /\ s \in Members(running) /\ free_table(s)
      /\ running' = Without(running, s)
      /\ retire({s}, "abort")
      /\ UNCHANGED <<waiting, batch_open, num_computed, limit, wait_steps, first_scheduled,
                     pc, budget, mid_prefill, decode, cursor, slices, done>>
  BY DEF AbortRunning, EngineIdle, stepVars
<1>c. slices = <<>> /\ mid_prefill = <<>> /\ decode = <<>> /\ done = <<>>
  BY <1>a DEF StepShape
<1>d. /\ Members(running)' = Members(running) \ {s} /\ Distinct(running)' /\ running' \in Seq(Seqs)
  BY <1>a, WithoutQueue DEF SchedTypeOK, Queues
<1>e. /\ Members(waiting)' = Members(waiting) /\ Members(done)' = Members(done)
      /\ Distinct(waiting)' /\ Distinct(done)'
  BY <1>a DEF Members, Distinct, Queues
<1>f. /\ status' \in [Seqs -> {"new", "waiting", "running", "finished"}]
      /\ finish' \in [Seqs -> {"none", "stop", "length", "abort", "timeout"}]
      /\ terminals' \in [Seqs -> Nat]
      /\ \A r \in Seqs : status'[r] = IF r \in {s} THEN "finished" ELSE status[r]
  BY <1>a, RetireFrame
<1>g. s \notin Members(waiting) /\ s \notin Members(done) BY <1>a DEF Queues
<1>h. Members(running) \subseteq Seqs /\ Members(done) \subseteq Seqs BY MembersType DEF SchedTypeOK
<1>i. \A r \in (Members(running) \ {s}) \union Members(done) : status'[r] = status[r]
  BY <1>f, <1>g, <1>h
<1>1. SchedTypeOK' BY <1>a, <1>d, <1>f DEF SchedTypeOK
<1>2. (Holders /\ CallPlace /\ Residents)' /\ tokens' = tokens
  BY <1>a, <1>1, <1>d, <1>e, <1>g, <1>i, Released
<1>3. TextBounds' BY <1>2, <1>d, <1>e DEF TextBounds
<1>4. Queues' BY <1>d, <1>e, <1>f, <1>g, <1>i DEF Queues
<1>5. StepShape' BY <1>a DEF StepShape
<1>6. (Candidates /\ StepSlices /\ Computed /\ SampleHead)' BY <1>a, <1>c, NoStep
<1> QED BY <1>1, <1>2, <1>3, <1>4, <1>5, <1>6

-----------------------------------------------------------------------------
(* The end of a step.                                                      *)

\* Releasing a sequence that finished in this step keeps the invariant.
LEMMA RetireDoneKeeps == ASSUME SchedInv, TypeInv', RetireDone PROVE SchedInv'
<1> USE DEF SchedInv, SchedTypeInv
<1>0. done # <<>> /\ done \in Seq(Seqs) BY DEF RetireDone, SchedTypeOK
<1>b. PICK s \in Seqs : s = Head(done) BY <1>0, TailQueue
<1>a. /\ pc = "retire" /\ free_table(s)
      /\ retire({s}, finish[s])
      /\ done' = Tail(done)
      /\ UNCHANGED <<waiting, running, batch_open, num_computed, limit, wait_steps, first_scheduled,
                     pc, budget, mid_prefill, decode, cursor, slices>>
  BY <1>b DEF RetireDone, queueVars
<1>c. slices = <<>> /\ mid_prefill = <<>> /\ decode = <<>>
  BY <1>a DEF StepShape
<1>d. /\ s \in Members(done) /\ Members(done)' = Members(done) \ {s} /\ Distinct(done)'
      /\ done' \in Seq(Seqs)
  BY <1>0, <1>a, <1>b, TailQueue DEF Queues
<1>e. /\ Members(waiting)' = Members(waiting) /\ Members(running)' = Members(running)
      /\ Distinct(waiting)' /\ Distinct(running)'
  BY <1>a DEF Members, Distinct, Queues
<1>f. /\ status' \in [Seqs -> {"new", "waiting", "running", "finished"}]
      /\ finish' \in [Seqs -> {"none", "stop", "length", "abort", "timeout"}]
      /\ terminals' \in [Seqs -> Nat]
      /\ \A r \in Seqs : status'[r] = IF r \in {s} THEN "finished" ELSE status[r]
  <2>1. finish[s] \in {"none", "stop", "length", "abort", "timeout"} BY DEF SchedTypeOK
  <2> QED BY <1>a, <2>1, RetireFrame
<1>g. s \notin Members(waiting) /\ s \notin Members(running) BY <1>d DEF Queues
<1>h. Members(running) \subseteq Seqs /\ Members(done) \subseteq Seqs BY MembersType DEF SchedTypeOK
<1>i. \A r \in (Members(done) \ {s}) \union Members(running) : status'[r] = status[r]
  BY <1>f, <1>g, <1>h
<1>1. SchedTypeOK' BY <1>a, <1>d, <1>f DEF SchedTypeOK
<1>2. (Holders /\ CallPlace /\ Residents)' /\ tokens' = tokens
  BY <1>a, <1>1, <1>d, <1>e, <1>g, <1>i, Released
<1>3. TextBounds' BY <1>2, <1>e DEF TextBounds
<1>4. Queues' BY <1>d, <1>e, <1>f, <1>g, <1>i DEF Queues
<1>5. StepShape' BY <1>a DEF StepShape
<1>6. (Candidates /\ StepSlices /\ Computed /\ SampleHead)' BY <1>a, <1>c, NoStep
<1> QED BY <1>1, <1>2, <1>3, <1>4, <1>5, <1>6

\* A step of the loop that changes neither a queue nor a sequence keeps most of the
\* invariant.
LEMMA QueuesUntouched ==
    ASSUME SchedInv, UNCHANGED <<kvVars, waiting, running, requestVars, done>>
    PROVE  /\ (TextBounds /\ Queues /\ Holders)'
           /\ Members(running)' = Members(running) /\ Members(done)' = Members(done)
           /\ UNCHANGED <<tokens, blocks, written, call, status, finish, num_computed, limit,
                          wait_steps, first_scheduled, terminals>>
<1> USE DEF SchedInv, SchedTypeInv
<1>1. UNCHANGED <<tokens, blocks, written, call, status, finish, num_computed, limit, wait_steps,
                  first_scheduled, terminals>>
  BY DEF kvVars, tables, requestVars
<1>2. /\ Members(waiting)' = Members(waiting) /\ Members(running)' = Members(running)
      /\ Members(done)' = Members(done)
      /\ Distinct(waiting)' /\ Distinct(running)' /\ Distinct(done)'
  BY DEF Members, Distinct, Queues
<1>3. TextBounds' BY <1>1, <1>2 DEF TextBounds
<1>4. Queues' BY <1>1, <1>2 DEF Queues
<1>5. Holders' BY <1>1, <1>2 DEF Holders
<1> QED BY <1>1, <1>2, <1>3, <1>4, <1>5

\* The end of on_step_done keeps the invariant.
LEMMA EndStepKeeps == ASSUME SchedInv, TypeInv', EndStep PROVE SchedInv'
<1> USE DEF SchedInv, SchedTypeInv
<1>a. /\ pc = "retire" /\ call = Idle /\ done = <<>>
      /\ pc' = IF BatchFinished THEN "drain" ELSE "idle"
      /\ UNCHANGED <<kvVars, waiting, running, batch_open, requestVars, budget, mid_prefill, decode,
                     cursor, slices, done>>
  BY DEF EndStep, queueVars
<1>b. /\ (TextBounds /\ Queues /\ Holders)'
      /\ Members(running)' = Members(running) /\ Members(done)' = Members(done)
      /\ UNCHANGED <<tokens, blocks, written, call, status, finish, num_computed, limit, wait_steps,
                     first_scheduled, terminals>>
  BY <1>a, QueuesUntouched
<1>c. slices = <<>> /\ mid_prefill = <<>> /\ decode = <<>> BY <1>a DEF StepShape
<1>d. call.op = "idle" BY <1>a DEF Idle
<1>e. Members(running) \subseteq Seqs BY MembersType DEF SchedTypeOK
<1>1. SchedTypeOK' BY <1>a, <1>b DEF SchedTypeOK, Places
<1>2. CallPlace' BY <1>b, <1>d DEF CallPlace
<1>3. StepShape'
  BY <1>a, <1>b, <1>c DEF StepShape, BatchFinished, is_finished
<1>4. Residents'
  <2>1. \A q : ~Applied(q) /\ ~Allocating(q) /\ ~Allocating(q)'
    BY <1>a, <1>b, <1>d DEF Applied, Allocating
  <2>2. \A q \in Seqs : written[q] \in Nat /\ Len(blocks[q]) \in Nat BY SeqTypes
  <2> QED BY <1>1, <1>b, <1>e, <2>1, <2>2, ResidentsKept DEF is_finished
<1>5. (Candidates /\ StepSlices /\ Computed /\ SampleHead)' BY <1>a, <1>c, NoStep
<1> QED BY <1>1, <1>2, <1>3, <1>4, <1>5, <1>b

\* Draining a finished static batch keeps the invariant.
LEMMA DrainKeeps == ASSUME SchedInv, TypeInv', DrainBatch PROVE SchedInv'
<1> USE DEF SchedInv, SchedTypeInv
<1>a. /\ pc = "drain" /\ call = Idle
      /\ UNCHANGED <<waiting, status, finish, num_computed, limit, wait_steps, first_scheduled,
                     terminals, requestVars, budget, mid_prefill, decode, cursor, slices, done>>
  BY DEF DrainBatch, requestVars
<1>b. slices = <<>> /\ mid_prefill = <<>> /\ decode = <<>> /\ done = <<>> BY <1>a DEF StepShape
<1>c. call.op = "idle" BY <1>a DEF Idle
<1>d. Members(running) \subseteq Seqs /\ running \in Seq(Seqs) BY MembersType DEF SchedTypeOK
<1>1. ASSUME running # <<>>, free_table(Head(running)), running' = Tail(running),
             UNCHANGED <<pc, batch_open>>
      PROVE  SchedInv'
  <2>a. PICK s \in Seqs : s = Head(running) BY <1>1, <1>d, TailQueue
  <2>b. /\ s \in Members(running) /\ Members(running)' = Members(running) \ {s}
        /\ Distinct(running)' /\ running' \in Seq(Seqs)
    BY <1>1, <1>d, <2>a, TailQueue DEF Queues
  <2>c. /\ Members(waiting)' = Members(waiting) /\ Members(done)' = Members(done)
        /\ Distinct(waiting)' /\ Distinct(done)'
    BY <1>a DEF Members, Distinct, Queues
  <2>d. status[s] = "finished" /\ s \notin Members(done) BY <1>a, <2>b DEF StepShape, is_finished, Queues
  <2>1. SchedTypeOK' BY <1>a, <1>1, <2>b DEF SchedTypeOK
  <2>2. (Holders /\ CallPlace /\ Residents)' /\ tokens' = tokens
    BY <1>a, <1>1, <2>1, <2>a, <2>b, <2>c, <2>d, Released
  <2>3. TextBounds' BY <2>2, <2>b, <2>c DEF TextBounds
  <2>4. Queues' BY <1>a, <2>b, <2>c, <2>d DEF Queues
  <2>5. StepShape' BY <1>a, <1>1, <2>b DEF StepShape, is_finished
  <2>6. (Candidates /\ StepSlices /\ Computed /\ SampleHead)' BY <1>a, <1>b, <1>1, NoStep
  <2> QED BY <2>1, <2>2, <2>3, <2>4, <2>5, <2>6
<1>2. ASSUME running = <<>>, batch_open' = TRUE, pc' = "idle", UNCHANGED <<kvVars, running>>
      PROVE  SchedInv'
  <2>a. /\ (TextBounds /\ Queues /\ Holders)'
        /\ Members(running)' = Members(running) /\ Members(done)' = Members(done)
        /\ UNCHANGED <<tokens, blocks, written, call, status, finish, num_computed, limit, wait_steps,
                       first_scheduled, terminals>>
    BY <1>a, <1>2, QueuesUntouched
  <2>1. SchedTypeOK' BY <1>a, <1>2 DEF SchedTypeOK, Places
  <2>2. CallPlace' BY <1>c, <2>a DEF CallPlace
  <2>3. StepShape' BY <1>a, <1>b, <1>2 DEF StepShape
  <2>4. Residents'
    <3>1. Members(running)' = {} BY <1>2, <1>d, <2>a, MembersType
    <3> QED BY <3>1 DEF Residents
  <2>5. (Candidates /\ StepSlices /\ Computed /\ SampleHead)' BY <1>a, <1>b, <1>2, NoStep
  <2> QED BY <2>1, <2>2, <2>3, <2>4, <2>5, <2>a
<1> QED BY <1>1, <1>2 DEF DrainBatch

-----------------------------------------------------------------------------
(* schedule(): placing the decoding sequences.                             *)

\* Splitting the residents keeps the invariant.
LEMMA BeginKeeps == ASSUME SchedInv, TypeInv', BeginSchedule PROVE SchedInv'
<1> USE DEF SchedInv, SchedTypeInv
<1> DEFINE P == {s \in Seqs : ~is_finished(s) /\ ~prefill_done(s)}
           D == {s \in Seqs : ~is_finished(s) /\ prefill_done(s)}
<1>a. /\ pc = "idle" /\ call = Idle
      /\ batch_open' = (batch_open \/ (~Continuous /\ running = <<>>))
      /\ mid_prefill' = Only(running, P) /\ decode' = Only(running, D)
      /\ budget' = MaxBatchedTokens /\ cursor' = 1 /\ pc' = "place"
      /\ UNCHANGED <<kvVars, waiting, running, requestVars, slices, done>>
  BY DEF BeginSchedule, EngineIdle
<1>b. /\ (TextBounds /\ Queues /\ Holders)'
      /\ Members(running)' = Members(running) /\ Members(done)' = Members(done)
      /\ UNCHANGED <<tokens, blocks, written, call, status, finish, num_computed, limit, wait_steps,
                     first_scheduled, terminals>>
  BY <1>a, QueuesUntouched
<1>c. slices = <<>> /\ done = <<>> BY <1>a DEF StepShape
<1>d. call.op = "idle" BY <1>a DEF Idle
<1>e. Members(running) \subseteq Seqs /\ running \in Seq(Seqs) /\ Distinct(running)
  BY MembersType DEF SchedTypeOK, Queues
<1>f. /\ mid_prefill' \in Seq(Seqs) /\ Distinct(mid_prefill)'
      /\ Members(mid_prefill)' = Members(running) \intersect P
      /\ decode' \in Seq(Seqs) /\ Distinct(decode)'
      /\ Members(decode)' = Members(running) \intersect D
  <2> HIDE DEF P, D
  <2> QED BY <1>a, <1>e, OnlyQueue, OnlyDistinct
<1>1. SchedTypeOK'
  <2>1. batch_open' \in BOOLEAN
    <3>1. batch_open \in BOOLEAN BY DEF SchedTypeOK
    <3> QED BY <1>a, <3>1
  <2>2. budget' \in Nat /\ cursor' \in Nat \ {0} /\ pc' \in Places
    BY <1>a, Configuration DEF Places
  <2> QED BY <1>a, <1>b, <1>f, <2>1, <2>2 DEF SchedTypeOK
<1>2. CallPlace' BY <1>b, <1>d DEF CallPlace
<1>3. StepShape' BY <1>a, <1>c DEF StepShape
<1>4. Residents'
  <2>1. \A q : ~Applied(q) /\ ~Allocating(q) /\ ~Allocating(q)'
    BY <1>a, <1>b, <1>d DEF Applied, Allocating
  <2>2. \A q \in Seqs : written[q] \in Nat /\ Len(blocks[q]) \in Nat BY SeqTypes
  <2> QED BY <1>1, <1>b, <1>e, <2>1, <2>2, ResidentsKept DEF is_finished
<1>5. Candidates'
  <2>1. Sliced' = {} BY <1>a, <1>c DEF Sliced
  <2>2. /\ \A s \in Seqs : num_tokens(s)' = num_tokens(s) /\ is_finished(s)' = is_finished(s)
        /\ num_computed' = num_computed
    BY <1>b DEF num_tokens, is_finished
  <2>3. ASSUME NEW s \in Members(decode)' PROVE num_tokens(s)' = num_computed'[s] + 1
    <3>1. s \in Members(running) /\ s \in Seqs /\ ~is_finished(s) /\ prefill_done(s) BY <1>f, <2>3
    <3>2. ~Applied(s) BY <1>a DEF Applied
    <3>3. num_computed[s] < num_tokens(s) BY <3>1, <3>2 DEF Residents
    <3>4. num_computed[s] \in Nat /\ num_tokens(s) \in Nat BY <3>1, SeqTypes
    <3> QED BY <2>2, <3>1, <3>3, <3>4 DEF prefill_done
  <2>4. ASSUME NEW s \in Members(mid_prefill)' PROVE num_tokens(s)' > num_computed'[s] + 1
    <3>1. s \in Seqs /\ ~prefill_done(s) BY <1>f, <2>4
    <3>2. num_computed[s] \in Nat /\ num_tokens(s) \in Nat BY <3>1, SeqTypes
    <3> QED BY <2>2, <3>1, <3>2 DEF prefill_done
  <2>5. DecodeOrder'
    <3>1. PICK f \in [1..Len(decode') -> 1..Len(running)] :
              /\ \A i \in 1..Len(decode') : decode'[i] = running[f[i]]
              /\ \A i, j \in 1..Len(decode') : i < j => f[i] < f[j]
      <4> HIDE DEF D
      <4> QED BY <1>a, <1>e, OnlyQueue, SMTT(30)
    <3> SUFFICES ASSUME NEW j \in 1..Len(decode'), NEW k \in 1..Len(decode'),
                        NEW a \in 1..Len(running), NEW b \in 1..Len(running),
                        j < k, decode'[j] = running[a], decode'[k] = running[b]
                 PROVE  a < b
      BY <1>a, SMTT(20) DEF DecodeOrder
    <3>2. f[j] \in 1..Len(running) /\ f[k] \in 1..Len(running) BY <3>1
    <3>3. running[f[j]] = running[a] /\ running[f[k]] = running[b] BY <3>1
    <3>4. f[j] = a /\ f[k] = b BY <1>e, <3>2, <3>3 DEF Distinct
    <3> QED BY <3>1, <3>4
  <2>6. \A k \in 1..Len(decode') : ~(k < cursor') BY <1>a
  <2>7. Members(decode)' \intersect Members(mid_prefill)' = {} BY <1>f
  <2>8. \A s \in Members(decode)' \union Members(mid_prefill)' :
            s \in Members(running)' /\ ~is_finished(s)' /\ s \notin Sliced'
    BY <1>b, <1>f, <2>1, <2>2
  <2> HIDE DEF P, D
  <2> QED BY <1>a, <1>f, <2>3, <2>4, <2>5, <2>6, <2>7, <2>8 DEF Candidates
<1>6. (StepSlices /\ Computed /\ SampleHead)'
  BY <1>a, <1>c DEF StepSlices, Computed, SampleHead
<1> QED BY <1>1, <1>2, <1>3, <1>4, <1>5, <1>6, <1>b

\* Giving a decoding sequence its slot keeps the invariant, and the slots of those
\* placed before it.
LEMMA PlaceKeeps == ASSUME SchedInv, TypeInv', Place PROVE SchedInv'
<1> USE DEF SchedInv, SchedTypeInv
<1>a. /\ pc = "place" /\ call = Idle /\ cursor <= Len(decode) /\ cursor' = cursor + 1
      /\ UNCHANGED <<waiting, running, batch_open, status, finish, num_computed, limit, wait_steps,
                     first_scheduled, terminals, pc, budget, mid_prefill, decode, slices, done>>
  BY DEF Place, Placing, queueVars, requestVars
<1>b. /\ cursor \in 1..Len(decode) /\ decode \in Seq(Seqs) BY <1>a DEF SchedTypeOK
<1>c. PICK d \in Seqs : d = decode[cursor] BY <1>b
<1>d. (EnsureSlotHolds(d) /\ UNCHANGED kvVars) \/ ensure_slot(d) BY <1>c DEF Place
<1>e. /\ UNCHANGED <<tokens, written, call>>
      /\ \A r \in Seqs : r # d => blocks'[r] = blocks[r]
      /\ Len(blocks'[d]) >= Len(blocks[d])
      /\ blocks_needed(Len(tokens[d])) <= Len(blocks'[d])
  <2>0. blocks \in [Seqs -> Seq(Blocks)] /\ Len(blocks[d]) \in Nat BY DEF TypeInv, TypeOK
  <2>1. CASE EnsureSlotHolds(d) /\ UNCHANGED kvVars
    BY <2>0, <2>1 DEF kvVars, tables, EnsureSlotHolds
  <2>2. CASE ensure_slot(d)
    <3>1. PICK b \in Blocks : GrowTable(d, b) BY <2>2 DEF ensure_slot
    <3>2. /\ blocks' = [blocks EXCEPT ![d] = Append(@, b)]
          /\ UNCHANGED <<tokens, written, call>>
          /\ blocks_needed(Len(tokens[d])) = Len(blocks[d]) + 1
      BY <2>2, <3>1 DEF GrowTable, ensure_slot
    <3>3. Len(blocks'[d]) = Len(blocks[d]) + 1 /\ \A r \in Seqs : r # d => blocks'[r] = blocks[r]
      BY <2>0, <3>2
    <3> QED BY <2>0, <3>2, <3>3
  <2> QED BY <1>d, <2>1, <2>2
<1>f. /\ Members(waiting)' = Members(waiting) /\ Members(running)' = Members(running)
      /\ Members(done)' = Members(done) /\ Members(decode)' = Members(decode)
      /\ Members(mid_prefill)' = Members(mid_prefill) /\ Sliced' = Sliced
  BY <1>a DEF Members, Sliced
<1>g. d \in Members(running) /\ Members(running) \subseteq Seqs
  <2>1. d \in Members(decode) BY <1>b, <1>c, MembersType
  <2> QED BY <2>1, MembersType DEF Candidates, SchedTypeOK
<1>h. call.op = "idle" BY <1>a DEF Idle
<1>i. slices = <<>> BY <1>a DEF StepShape
<1>j. \A r \in Seqs : /\ Len(blocks[r]) \in Nat /\ Len(blocks'[r]) \in Nat /\ Len(tokens[r]) \in Nat
                      /\ written[r] \in Nat /\ Len(blocks'[r]) >= Len(blocks[r])
  <2>1. \A r \in Seqs : Len(blocks[r]) \in Nat /\ Len(blocks'[r]) \in Nat /\ Len(tokens[r]) \in Nat
                        /\ written[r] \in Nat
    BY SMTT(20) DEF TypeInv, TypeOK
  <2> QED BY <1>e, <2>1
<1>1. SchedTypeOK'
  <2>1. cursor' \in Nat \ {0} BY <1>a DEF SchedTypeOK
  <2> QED BY <1>a, <2>1 DEF SchedTypeOK
<1>2. TextBounds' BY <1>e, <1>f DEF TextBounds
<1>3. Queues'
  <2>1. (Distinct(waiting) /\ Distinct(running) /\ Distinct(done))' BY <1>a DEF Queues, Distinct
  <2> QED BY <1>a, <1>f, <2>1 DEF Queues
<1>4. Holders' BY <1>e, <1>f, <1>g DEF Holders
<1>5. CallPlace' BY <1>e, <1>h DEF CallPlace
<1>6. StepShape' BY <1>a DEF StepShape
<1>7. Residents'
  <2>1. \A q : ~Applied(q) /\ ~Allocating(q) /\ ~Allocating(q)'
    BY <1>a, <1>e, <1>h DEF Applied, Allocating
  <2> QED BY <1>1, <1>a, <1>e, <1>f, <1>g, <1>j, <2>1, ResidentsKept DEF is_finished
<1>8. Candidates'
  <2>1. ASSUME NEW k \in 1..Len(decode), k < cursor + 1 PROVE EnsureSlotHolds(decode[k])'
    <3>1. PICK r \in Seqs : r = decode[k] BY <1>b
    <3>2. blocks_needed(Len(tokens[r])) \in Nat BY <1>j, SlotsCover
    <3>3. blocks_needed(Len(tokens[r])) <= Len(blocks'[r])
      <4>1. CASE k = cursor BY <1>c, <1>e, <3>1, <4>1
      <4>2. CASE k < cursor
        <5>1. blocks_needed(Len(tokens[r])) <= Len(blocks[r])
          BY <1>a, <3>1, <4>2 DEF Candidates, EnsureSlotHolds
        <5> QED BY <1>j, <3>2, <5>1
      <4>3. k = cursor \/ k < cursor BY <1>b, <2>1
      <4> QED BY <4>1, <4>2, <4>3
    <3> QED BY <1>a, <1>e, <3>1, <3>3 DEF EnsureSlotHolds, blocks_needed
  <2>2. (Distinct(decode) /\ Distinct(mid_prefill))' BY <1>a DEF Candidates, Distinct
  <2>3. DecodeOrder' BY <1>a DEF Candidates, DecodeOrder
  <2>4. /\ \A r \in Members(decode) \union Members(mid_prefill) :
              r \in Members(running) /\ ~is_finished(r)' /\ r \notin Sliced
        /\ \A r \in Members(decode) : num_tokens(r)' = num_computed[r] + 1
        /\ \A r \in Members(mid_prefill) : num_tokens(r)' > num_computed[r] + 1
    BY <1>a, <1>e DEF Candidates, is_finished, num_tokens
  <2>5. Members(decode) \intersect Members(mid_prefill) = {} BY DEF Candidates
  <2> QED BY <1>a, <1>f, <2>1, <2>2, <2>3, <2>4, <2>5 DEF Candidates
<1>9. (StepSlices /\ Computed /\ SampleHead)'
  BY <1>a, <1>i DEF StepSlices, Computed, SampleHead
<1> QED BY <1>1, <1>2, <1>3, <1>4, <1>5, <1>6, <1>7, <1>8, <1>9

\* The order of the candidates survives the departure of a resident.
LEMMA DropKeepsDecodeOrder ==
    ASSUME SchedTypeOK, DecodeOrder, NEW i \in 1..Len(running), running' = DropAt(running, i),
           \A k \in 1..Len(decode') : k \in 1..Len(decode) /\ decode'[k] = decode[k]
    PROVE  DecodeOrder'
<1>1. running \in Seq(Seqs) BY DEF SchedTypeOK
<1>2. /\ Len(running') = Len(running) - 1 /\ Len(running) \in Nat
      /\ \A j \in 1..(Len(running) - 1) : running'[j] = IF j < i THEN running[j] ELSE running[j + 1]
  <2>1. Len(running) - 1 \in Nat BY <1>1
  <2> QED BY <1>1, <2>1 DEF DropAt
<1> SUFFICES ASSUME NEW j \in 1..Len(decode'), NEW k \in 1..Len(decode'),
                    NEW a \in 1..Len(running'), NEW b \in 1..Len(running'),
                    j < k, decode'[j] = running'[a], decode'[k] = running'[b]
             PROVE  a < b
  BY DEF DecodeOrder
<1> DEFINE old(m) == IF m < i THEN m ELSE m + 1
<1>a. \A m \in 1..Len(running') : old(m) \in 1..Len(running) /\ running'[m] = running[old(m)]
  BY <1>2, SMTT(20)
<1>3. PICK c \in 1..Len(running) : running'[a] = running[c] /\ c = old(a) BY <1>a
<1>4. PICK d \in 1..Len(running) : running'[b] = running[d] /\ d = old(b) BY <1>a
<1>5. c < d BY <1>3, <1>4, SMTT(20) DEF DecodeOrder
<1> QED BY <1>2, <1>3, <1>4, <1>5

\* A finished member of a static batch that makes room keeps the invariant.
LEMMA EvictFinishedKeeps == ASSUME SchedInv, TypeInv', EvictFinished PROVE SchedInv'
<1> USE DEF SchedInv, SchedTypeInv
<1>a. PICK i \in FinishedAt : Evict(i) BY DEF EvictFinished
<1>b. /\ i \in 1..Len(running) /\ running \in Seq(Seqs) /\ Distinct(running)
  BY <1>a DEF FinishedAt, SchedTypeOK, Queues
<1>c. PICK v \in Seqs : v = running[i] BY <1>b
<1>d. /\ pc = "place" /\ call = Idle /\ is_finished(v) /\ free_table(v)
      /\ running' = DropAt(running, i)
      /\ mid_prefill' = Without(mid_prefill, v) /\ decode' = Without(decode, v)
      /\ UNCHANGED <<waiting, batch_open, status, finish, num_computed, limit, wait_steps,
                     first_scheduled, terminals, pc, budget, cursor, slices, done>>
  BY <1>a, <1>c DEF EvictFinished, Placing, Evict, FinishedAt, requestVars
<1>e. mid_prefill' = mid_prefill /\ decode' = decode
  <2>1. v \notin Members(mid_prefill) /\ v \notin Members(decode) BY <1>d DEF Candidates
  <2> QED BY <1>d, <2>1 DEF Without
<1>f. /\ running' \in Seq(Seqs) /\ Distinct(running)' /\ Members(running)' = Members(running) \ {v}
      /\ v \in Members(running)
  BY <1>b, <1>c, <1>d, DropQueue, MembersType
<1>g. /\ Members(waiting)' = Members(waiting) /\ Members(done)' = Members(done)
      /\ Distinct(waiting)' /\ Distinct(done)'
      /\ Members(decode)' = Members(decode) /\ Members(mid_prefill)' = Members(mid_prefill)
      /\ Sliced' = Sliced
  BY <1>d, <1>e DEF Members, Distinct, Queues, Sliced
<1>h. v \notin Members(done) /\ status[v] = "finished" BY <1>d, <1>f DEF Queues, is_finished
<1>i. slices = <<>> BY <1>d DEF StepShape
<1>1. SchedTypeOK' BY <1>d, <1>e, <1>f DEF SchedTypeOK
<1>2. (Holders /\ CallPlace /\ Residents)' /\ tokens' = tokens /\ blocks' = blocks
  BY <1>1, <1>d, <1>f, <1>g, <1>h, Released
<1>3. TextBounds' BY <1>2, <1>f, <1>g DEF TextBounds
<1>4. Queues' BY <1>d, <1>f, <1>g, <1>h DEF Queues
<1>5. StepShape' BY <1>d DEF StepShape
<1>6. Candidates'
  <2>1. DecodeOrder' BY <1>b, <1>d, <1>e, DropKeepsDecodeOrder DEF Candidates
  <2>2. (Distinct(decode) /\ Distinct(mid_prefill))' BY <1>e DEF Candidates, Distinct
  <2>3. /\ \A r \in Members(decode) \union Members(mid_prefill) :
              r \in Members(running) \ {v} /\ ~is_finished(r)' /\ r \notin Sliced
        /\ \A r \in Members(decode) : num_tokens(r)' = num_computed[r] + 1
        /\ \A r \in Members(mid_prefill) : num_tokens(r)' > num_computed[r] + 1
    BY <1>2, <1>d DEF Candidates, is_finished, num_tokens
  <2>4. \A k \in 1..Len(decode) : k < cursor => EnsureSlotHolds(decode[k])'
    BY <1>2, <1>d, <1>e DEF Candidates, EnsureSlotHolds, blocks_needed
  <2>5. Members(decode) \intersect Members(mid_prefill) = {} BY DEF Candidates
  <2> QED BY <1>d, <1>e, <1>f, <1>g, <2>1, <2>2, <2>3, <2>4, <2>5 DEF Candidates
<1>7. (StepSlices /\ Computed /\ SampleHead)'
  BY <1>d, <1>i DEF StepSlices, Computed, SampleHead
<1> QED BY <1>1, <1>2, <1>3, <1>4, <1>5, <1>6, <1>7

\* The youngest resident can only be the last candidate to decode: preempting it takes
\* no slot from one that was placed.
LEMMA VictimDecodesLast ==
    ASSUME SchedInv, pc = "place", NEW v, running # <<>>, v = running[Victim],
           decode' = Without(decode, v)
    PROVE  /\ \A k \in 1..Len(decode') : k \in 1..Len(decode) /\ decode'[k] = decode[k]
           /\ decode' \in Seq(Seqs) /\ Distinct(decode)'
           /\ Members(decode)' = Members(decode) \ {v}
<1> USE DEF SchedInv, SchedTypeInv
<1>1. /\ decode \in Seq(Seqs) /\ running \in Seq(Seqs) /\ Distinct(decode) /\ DecodeOrder
  BY DEF SchedTypeOK, Candidates
<1>2. Victim = Len(running) /\ Len(running) \in 1..Len(running) BY <1>1 DEF Victim
<1>3. /\ decode' \in Seq(Seqs) /\ Distinct(decode)' /\ Members(decode)' = Members(decode) \ {v}
  BY <1>1, WithoutQueue
<1>4. CASE v \notin Members(decode) BY <1>4, <1>1 DEF Without
<1>5. CASE v \in Members(decode)
  <2> DEFINE m == CHOOSE k \in 1..Len(decode) : decode[k] = v
  <2>1. m \in 1..Len(decode) /\ decode[m] = v BY <1>5 DEF Members
  <2>2. decode' = DropAt(decode, m) BY <1>5 DEF Without
  <2> HIDE DEF m
  <2>3. m = Len(decode)
    <3> SUFFICES ASSUME m < Len(decode) PROVE FALSE BY <1>1, <2>1
    <3>1. m + 1 \in 1..Len(decode) /\ m < m + 1 BY <1>1, <2>1
    <3>2. decode[m + 1] \in Members(decode) BY <3>1 DEF Members
    <3>3. decode[m + 1] \in Members(running) BY <3>2 DEF Candidates
    <3>4. PICK b \in 1..Len(running) : decode[m + 1] = running[b] BY <3>3 DEF Members
    <3>5. Len(running) < b BY <1>1, <1>2, <2>1, <3>1, <3>4 DEF DecodeOrder
    <3> QED BY <1>1, <3>4, <3>5
  <2>4. /\ Len(decode') = Len(decode) - 1
        /\ \A k \in 1..(Len(decode) - 1) : decode'[k] = IF k < m THEN decode[k] ELSE decode[k + 1]
    BY <1>1, <2>1, <2>2, DropAtType
  <2>5. \A k \in 1..Len(decode') : k \in 1..Len(decode) /\ decode'[k] = decode[k]
    BY <1>1, <2>3, <2>4
  <2> QED BY <1>3, <2>5
<1> QED BY <1>3, <1>4, <1>5

\* Preemption keeps the invariant.
LEMMA PreemptKeeps == ASSUME SchedInv, TypeInv', Preempt PROVE SchedInv'
<1> USE DEF SchedInv, SchedTypeInv
<1>b. /\ running \in Seq(Seqs) /\ Distinct(running) /\ running # <<>>
      /\ Len(running) \in 1..Len(running) /\ Victim = Len(running)
  BY DEF Preempt, SchedTypeOK, Queues, Victim
<1>c. PICK v \in Seqs : v = running[Len(running)] BY <1>b
<1>d. /\ pc = "place" /\ call = Idle /\ free_table(v) /\ FinishedAt = {}
      /\ running' = DropAt(running, Len(running))
      /\ mid_prefill' = Without(mid_prefill, v) /\ decode' = Without(decode, v)
      /\ num_computed' = [num_computed EXCEPT ![v] = 0]
      /\ status' = [status EXCEPT ![v] = "waiting"]
      /\ waiting' = <<v>> \o waiting
      /\ UNCHANGED <<batch_open, finish, limit, wait_steps, first_scheduled, terminals,
                     pc, budget, cursor, slices, done>>
  BY <1>b, <1>c DEF Preempt, Placing, Evict, Requeued
<1>e. /\ running' \in Seq(Seqs) /\ Distinct(running)' /\ Members(running)' = Members(running) \ {v}
      /\ v \in Members(running)
  <2>1. PICK n \in 1..Len(running) : n = Len(running) BY <1>b
  <2>2. /\ DropAt(running, n) \in Seq(Seqs) /\ Distinct(DropAt(running, n))
        /\ Members(DropAt(running, n)) = Members(running) \ {running[n]}
    BY <1>b, DropQueue
  <2>3. running' = DropAt(running, n) /\ running[n] = v BY <1>c, <1>d, <2>1
  <2> QED BY <1>b, <2>2, <2>3, MembersType
<1>f. status[v] = "running" /\ v \notin Members(waiting) /\ v \notin Members(done)
  <2>1. ~is_finished(v) BY <1>b, <1>c, <1>d DEF FinishedAt
  <2> QED BY <1>e, <2>1 DEF Queues, is_finished
<1>g. /\ waiting' \in Seq(Seqs) /\ Distinct(waiting)' /\ Members(waiting)' = Members(waiting) \union {v}
  BY <1>d, <1>f, PushFront DEF SchedTypeOK, Queues
<1>h. /\ Members(done)' = Members(done) /\ Distinct(done)' /\ Sliced' = Sliced
  BY <1>d DEF Members, Distinct, Queues, Sliced
<1>i. /\ \A k \in 1..Len(decode') : k \in 1..Len(decode) /\ decode'[k] = decode[k]
      /\ decode' \in Seq(Seqs) /\ Distinct(decode)'
      /\ Members(decode)' = Members(decode) \ {v}
  BY <1>b, <1>c, <1>d, VictimDecodesLast
<1>j. /\ mid_prefill' \in Seq(Seqs) /\ Distinct(mid_prefill)'
      /\ Members(mid_prefill)' = Members(mid_prefill) \ {v}
  BY <1>d, WithoutQueue DEF Candidates, SchedTypeOK
<1>k. slices = <<>> BY <1>d DEF StepShape
<1>l. /\ status'[v] = "waiting"
      /\ \A r \in Seqs : r # v => status'[r] = status[r] /\ num_computed'[r] = num_computed[r]
  BY <1>d DEF SchedTypeOK
<1>m. /\ Members(running) \subseteq Seqs /\ Members(done) \subseteq Seqs
      /\ Members(decode) \subseteq Seqs /\ Members(mid_prefill) \subseteq Seqs
  BY MembersType DEF SchedTypeOK
<1>1. SchedTypeOK'
  <2>1. /\ status' \in [Seqs -> {"new", "waiting", "running", "finished"}]
        /\ num_computed' \in [Seqs -> Nat]
    BY <1>d DEF SchedTypeOK
  <2> QED BY <1>d, <1>e, <1>g, <1>i, <1>j, <2>1 DEF SchedTypeOK
<1>2. (Holders /\ CallPlace /\ Residents)' /\ tokens' = tokens /\ blocks' = blocks
  <2>1. \A r \in Members(running)' : num_computed'[r] = num_computed[r] /\ status'[r] = status[r]
    BY <1>e, <1>l, <1>m
  <2> QED BY <1>1, <1>d, <1>e, <1>f, <1>h, <2>1, Released
<1>3. TextBounds'
  <2>1. \A s \in Members(waiting)' \union Members(running)' : s \in Members(waiting) \union Members(running)
    BY <1>e, <1>g
  <2> QED BY <1>2, <2>1 DEF TextBounds
<1>4. Queues' BY <1>e, <1>f, <1>g, <1>h, <1>l, <1>m DEF Queues
<1>5. StepShape' BY <1>d DEF StepShape
<1>6. Candidates'
  <2>1. DecodeOrder' BY <1>b, <1>d, <1>i, DropKeepsDecodeOrder DEF Candidates
  <2>2. /\ \A r \in (Members(decode) \union Members(mid_prefill)) \ {v} :
              r \in Members(running) \ {v} /\ ~is_finished(r)' /\ r \notin Sliced
        /\ \A r \in Members(decode) \ {v} : num_tokens(r)' = num_computed'[r] + 1
        /\ \A r \in Members(mid_prefill) \ {v} : num_tokens(r)' > num_computed'[r] + 1
    BY <1>2, <1>l, <1>m DEF Candidates, is_finished, num_tokens
  <2>3. \A k \in 1..Len(decode') : k < cursor => EnsureSlotHolds(decode[k])'
    <3> SUFFICES ASSUME NEW k \in 1..Len(decode'), k < cursor PROVE EnsureSlotHolds(decode[k])'
      OBVIOUS
    <3>1. k \in 1..Len(decode) /\ decode'[k] = decode[k] BY <1>i
    <3>2. EnsureSlotHolds(decode[k]) BY <1>d, <3>1 DEF Candidates
    <3> QED BY <1>2, <3>1, <3>2 DEF EnsureSlotHolds, blocks_needed
  <2>4. \A k \in 1..Len(decode') : k < cursor' => (EnsureSlotHolds(decode[k]))'
    BY <1>d, <2>3
  <2>5. Members(decode) \intersect Members(mid_prefill) = {} BY DEF Candidates
  <2> QED BY <1>d, <1>e, <1>h, <1>i, <1>j, <2>1, <2>2, <2>4, <2>5 DEF Candidates
<1>7. (StepSlices /\ Computed /\ SampleHead)'
  BY <1>d, <1>k DEF StepSlices, Computed, SampleHead
<1> QED BY <1>1, <1>2, <1>3, <1>4, <1>5, <1>6, <1>7

\* schedule() going on, with the same queues, sequences and slices, keeps all that is
\* not about the candidates.
LEMMA LoopGoesOn ==
    ASSUME SchedInv, TypeInv', SchedTypeOK', call = Idle,
           UNCHANGED <<kvVars, waiting, running, requestVars, done, slices>>,
           pc \in {"place", "chunk", "expire", "admit", "build"},
           pc' \in {"chunk", "expire", "admit", "build"}
    PROVE  /\ (TextBounds /\ Queues /\ Holders /\ CallPlace /\ Residents)'
           /\ (StepSlices /\ Computed /\ SampleHead)'
           /\ Members(running)' = Members(running) /\ Sliced' = Sliced
           /\ UNCHANGED <<tokens, blocks, written, status, num_computed>>
<1> USE DEF SchedInv, SchedTypeInv
<1>b. /\ (TextBounds /\ Queues /\ Holders)'
      /\ Members(running)' = Members(running) /\ Members(done)' = Members(done)
      /\ UNCHANGED <<tokens, blocks, written, call, status, finish, num_computed, limit, wait_steps,
                     first_scheduled, terminals>>
  BY QueuesUntouched
<1>c. call.op = "idle" BY DEF Idle
<1>d. Members(running) \subseteq Seqs BY MembersType DEF SchedTypeOK
<1>e. \A q \in Seqs : written[q] \in Nat /\ Len(blocks[q]) \in Nat BY SeqTypes
<1>f. \A q : ~Applied(q) /\ ~Allocating(q) /\ ~Allocating(q)'
  BY <1>b, <1>c DEF Applied, Allocating
<1>1. CallPlace' BY <1>b, <1>c DEF CallPlace
<1>2. Residents' BY <1>b, <1>d, <1>e, <1>f, ResidentsKept DEF is_finished
<1>3. StepSlices'
  <2>1. ASSUME NEW k \in 1..Len(slices) PROVE SliceValid(slices[k])'
    <3>1. PICK sl \in Slices : sl = slices[k] /\ sl.seq \in Seqs BY SliceTypes
    <3>2. SliceValid(sl) BY <3>1 DEF StepSlices
    <3>3. /\ sl.seq \in Members(running)' /\ ~is_finished(sl.seq)'
      BY <1>b, <3>2 DEF SliceValid, is_finished
    <3>4. SliceValid(sl)' BY <1>b, <1>e, <1>f, <3>1, <3>2, <3>3, SliceKept
    <3> QED BY <3>1, <3>4
  <2> QED BY <2>1 DEF StepSlices
<1>4. (Computed /\ SampleHead)' BY DEF Computed, SampleHead
<1>5. Sliced' = Sliced BY DEF Sliced
<1> QED BY <1>1, <1>2, <1>3, <1>4, <1>5, <1>b

\* The same for the candidates, where they do not change either.
LEMMA CandidatesUntouched ==
    ASSUME SchedInv, UNCHANGED <<decode, mid_prefill, tokens, blocks, status, num_computed>>,
           Members(decode) \union Members(mid_prefill) \subseteq Members(running)',
           \A s \in Members(decode) \union Members(mid_prefill) : s \notin Sliced',
           pc' # "place", pc = "place" => cursor > Len(decode)
    PROVE  Candidates'
<1> USE DEF SchedInv, SchedTypeInv
<1>1. /\ Members(decode)' = Members(decode) /\ Members(mid_prefill)' = Members(mid_prefill)
      /\ Distinct(decode)' /\ Distinct(mid_prefill)'
  BY DEF Members, Distinct, Candidates
<1>2. \A k \in 1..Len(decode) : EnsureSlotHolds(decode[k])'
  <2>1. \A k \in 1..Len(decode) : pc = "place" => k < cursor BY DEF SchedTypeOK
  <2>2. \A k \in 1..Len(decode) : EnsureSlotHolds(decode[k]) BY <2>1 DEF Candidates
  <2> QED BY <2>2 DEF EnsureSlotHolds, blocks_needed
<1>3. /\ \A r \in Members(decode) \union Members(mid_prefill) : ~is_finished(r)'
      /\ \A r \in Members(decode) : num_tokens(r)' = num_computed'[r] + 1
      /\ \A r \in Members(mid_prefill) : num_tokens(r)' > num_computed'[r] + 1
  BY DEF Candidates, is_finished, num_tokens
<1>4. Members(decode) \intersect Members(mid_prefill) = {} BY DEF Candidates
<1> QED BY <1>1, <1>2, <1>3, <1>4 DEF Candidates

\* Once every candidate has its slot, the loop goes on.
LEMMA PlaceDoneKeeps == ASSUME SchedInv, TypeInv', PlaceDone PROVE SchedInv'
<1> USE DEF SchedInv, SchedTypeInv
<1>a. /\ pc = "place" /\ call = Idle /\ cursor > Len(decode) /\ pc' = "chunk"
      /\ UNCHANGED <<kvVars, waiting, running, batch_open, requestVars, status, finish, num_computed,
                     limit, wait_steps, first_scheduled, terminals,
                     budget, mid_prefill, decode, cursor, slices, done>>
  BY DEF PlaceDone, queueVars, requestVars
<1>1. SchedTypeOK' BY <1>a DEF SchedTypeOK, Places
<1>2. /\ (TextBounds /\ Queues /\ Holders /\ CallPlace /\ Residents)'
      /\ (StepSlices /\ Computed /\ SampleHead)'
      /\ Members(running)' = Members(running) /\ Sliced' = Sliced
      /\ UNCHANGED <<tokens, blocks, written, status, num_computed>>
  BY <1>1, <1>a, LoopGoesOn
<1>3. StepShape' BY <1>a DEF StepShape
<1>4. Candidates'
  <2>1. \A s \in Members(decode) \union Members(mid_prefill) : s \in Members(running) /\ s \notin Sliced
    BY DEF Candidates
  <2> QED BY <1>2, <1>a, <2>1, CandidatesUntouched
<1> QED BY <1>1, <1>2, <1>3, <1>4

-----------------------------------------------------------------------------
(* schedule(): building the step.                                          *)

\* What add_prefill_slice puts into a slice.
LEMMA SliceFields ==
    ASSUME NEW s \in Seqs, NEW start \in Nat, NEW len \in Nat
    PROVE  /\ Slice(s, start, len) \in Slices
           /\ Slice(s, start, len).seq = s
           /\ Slice(s, start, len).start = start
           /\ Slice(s, start, len).len = len
           /\ Slice(s, start, len).needs_logits <=> start + len = num_tokens(s)
<1>1. (start + len = num_tokens(s)) \in BOOLEAN OBVIOUS
<1>2. PICK b \in BOOLEAN : b = (start + len = num_tokens(s)) BY <1>1
<1>3. Slice(s, start, len) = [seq |-> s, start |-> start, len |-> len, needs_logits |-> b]
  BY <1>2 DEF Slice
<1>4. Slice(s, start, len) \in Slices BY <1>3 DEF Slices
<1>5. /\ Slice(s, start, len).seq = s /\ Slice(s, start, len).start = start
      /\ Slice(s, start, len).len = len /\ Slice(s, start, len).needs_logits = b
  BY <1>3
<1>6. Slice(s, start, len).needs_logits <=> start + len = num_tokens(s) BY <1>2, <1>5, Zenon
<1> QED BY <1>4, <1>5, <1>6, Zenon

\* A step takes one more slice, of a sequence that has none yet.
LEMMA SliceAdded ==
    ASSUME SchedTypeOK, NEW sl \in Slices, slices' = Append(slices, sl),
           \A j, k \in 1..Len(slices) : slices[j].seq = slices[k].seq => j = k,
           sl.seq \notin Sliced,
           \A x \in Slices : (\E k \in 1..Len(slices) : x = slices[k]) => SliceValid(x)',
           SliceValid(sl)'
    PROVE  StepSlices' /\ Sliced' = Sliced \union {sl.seq}
<1>1. slices \in Seq(Slices) /\ \A k \in 1..Len(slices) : slices[k] \in Slices
  BY SliceTypes DEF SchedTypeOK
<1>2. /\ Len(slices') = Len(slices) + 1 /\ slices'[Len(slices) + 1] = sl /\ Len(slices) \in Nat
      /\ \A k \in 1..Len(slices) : slices'[k] = slices[k]
  BY <1>1
<1>3. ASSUME NEW k \in 1..Len(slices') PROVE SliceValid(slices[k])'
  <2>1. PICK x \in Slices : x = slices'[k] /\ SliceValid(x)'
    <3>1. CASE k = Len(slices) + 1 BY <1>2, <3>1
    <3>2. CASE k \in 1..Len(slices) BY <1>1, <1>2, <3>2
    <3> QED BY <1>2, <3>1, <3>2
  <2> QED BY <2>1
<1>4. ASSUME NEW j \in 1..Len(slices'), NEW k \in 1..Len(slices'), slices'[j].seq = slices'[k].seq
      PROVE  j = k
  <2>1. \A i \in 1..Len(slices) : slices[i].seq # sl.seq BY DEF Sliced
  <2>2. CASE j \in 1..Len(slices) /\ k \in 1..Len(slices) BY <1>2, <1>4, <2>2
  <2>3. CASE j = Len(slices) + 1 /\ k \in 1..Len(slices) BY <1>2, <1>4, <2>1, <2>3
  <2>4. CASE k = Len(slices) + 1 /\ j \in 1..Len(slices) BY <1>2, <1>4, <2>1, <2>4
  <2> QED BY <1>2, <2>2, <2>3, <2>4
<1>5. Sliced' = Sliced \union {sl.seq}
  <2>1. ASSUME NEW k \in 1..Len(slices') PROVE slices'[k].seq \in Sliced \union {sl.seq}
    <3>1. CASE k = Len(slices) + 1 BY <1>2, <3>1
    <3>2. CASE k \in 1..Len(slices) BY <1>2, <3>2 DEF Sliced
    <3> QED BY <1>2, <3>1, <3>2
  <2>2. sl.seq \in Sliced'
    <3>1. Len(slices) + 1 \in 1..Len(slices') BY <1>2
    <3> QED BY <1>2, <3>1 DEF Sliced
  <2>3. ASSUME NEW k \in 1..Len(slices) PROVE slices[k].seq \in Sliced'
    <3>1. k \in 1..Len(slices') /\ slices'[k] = slices[k] BY <1>2
    <3> QED BY <3>1 DEF Sliced
  <2>4. Sliced' \subseteq Sliced \union {sl.seq} BY <2>1 DEF Sliced
  <2>5. Sliced \subseteq Sliced' BY <2>3 DEF Sliced
  <2> QED BY <2>2, <2>4, <2>5
<1> QED BY <1>3, <1>4, <1>5 DEF StepSlices

\* A prefill chunk keeps the invariant.
LEMMA ChunkKeeps == ASSUME SchedInv, TypeInv', ChunkPrefill PROVE SchedInv'
<1> USE DEF SchedInv, SchedTypeInv
<1>a. pc = "chunk" /\ mid_prefill # <<>> /\ mid_prefill \in Seq(Seqs) /\ slices \in Seq(Slices)
  BY DEF ChunkPrefill, SchedTypeOK
<1>b. PICK s \in Seqs : s = Head(mid_prefill) BY <1>a, TailQueue
<1>c. PICK len : len = Smaller(Smaller(num_tokens(s) - num_computed[s], budget), ChunkSize) OBVIOUS
<1>d. /\ slices' = IF len > 0 THEN Append(slices, Slice(s, num_computed[s], len)) ELSE slices
      /\ budget' = budget - len /\ mid_prefill' = Tail(mid_prefill)
      /\ UNCHANGED <<kvVars, waiting, running, batch_open, requestVars, status, finish, num_computed,
                     limit, wait_steps, first_scheduled, terminals, pc, decode, cursor, done>>
  BY <1>b, <1>c DEF ChunkPrefill, queueVars, requestVars
<1>e. call = Idle /\ call.op = "idle" BY <1>a, ManagerIdle DEF Idle
<1>f. /\ (TextBounds /\ Queues /\ Holders)'
      /\ Members(running)' = Members(running) /\ Members(done)' = Members(done)
      /\ UNCHANGED <<tokens, blocks, written, call, status, finish, num_computed, limit, wait_steps,
                     first_scheduled, terminals>>
  BY <1>d, QueuesUntouched
<1>g. /\ Members(mid_prefill)' = Members(mid_prefill) \ {s} /\ Distinct(mid_prefill)'
      /\ mid_prefill' \in Seq(Seqs) /\ s \in Members(mid_prefill)
  BY <1>a, <1>b, <1>d, TailQueue DEF Candidates
<1>h. /\ s \in Members(running) /\ ~is_finished(s) /\ s \notin Sliced /\ s \notin Members(decode)
      /\ num_tokens(s) > num_computed[s] + 1
  BY <1>g DEF Candidates
<1>i. /\ num_tokens(s) \in Nat /\ num_computed[s] \in Nat /\ budget \in Nat
      /\ Len(blocks[s]) * BlockSize \in Nat
  BY SeqTypes DEF SchedTypeOK
<1>j. len \in Nat /\ len <= budget /\ num_computed[s] + len <= num_tokens(s)
  BY <1>c, <1>h, <1>i, Configuration DEF Smaller
<1>k. num_tokens(s) <= Len(blocks[s]) * BlockSize
  <2>1. ~Applied(s) /\ ~Allocating(s) BY <1>a, <1>e DEF Applied, Allocating
  <2> QED BY <1>h, <1>i, <2>1 DEF Residents
<1>l. PICK sl \in Slices :
          /\ sl = Slice(s, num_computed[s], len)
          /\ sl.seq = s /\ sl.start = num_computed[s] /\ sl.len = len
          /\ sl.needs_logits <=> num_computed[s] + len = num_tokens(s)
  <2>1. PICK n \in Nat : n = num_computed[s] BY <1>i
  <2>2. /\ Slice(s, n, len) \in Slices
        /\ Slice(s, n, len).seq = s /\ Slice(s, n, len).start = n /\ Slice(s, n, len).len = len
        /\ Slice(s, n, len).needs_logits <=> n + len = num_tokens(s)
    BY <1>j, SliceFields, SMTT(20)
  <2> QED BY <2>1, <2>2, Zenon
<1>1. SchedTypeOK'
  <2>1. slices' \in Seq(Slices) BY <1>a, <1>d, <1>l
  <2>2. budget' \in Nat BY <1>d, <1>i, <1>j
  <2> QED BY <1>d, <1>g, <2>1, <2>2 DEF SchedTypeOK
<1>2. CallPlace' BY <1>e, <1>f DEF CallPlace
<1>3. StepShape' BY <1>a, <1>d DEF StepShape
<1>n. Members(running) \subseteq Seqs BY MembersType DEF SchedTypeOK
<1>o. \A q \in Seqs : written[q] \in Nat /\ Len(blocks[q]) \in Nat BY SeqTypes
<1>p. \A q : ~Applied(q) /\ ~Allocating(q) /\ ~Allocating(q)'
  BY <1>a, <1>e, <1>f DEF Applied, Allocating
<1>4. Residents' BY <1>1, <1>f, <1>n, <1>o, <1>p, ResidentsKept DEF is_finished
<1>q. \/ slices' = slices
      \/ len > 0 /\ slices' = Append(slices, sl)
  BY <1>d, <1>l
<1>5. StepSlices' /\ Sliced' \subseteq Sliced \union {s}
  <2>1. \A k \in 1..Len(slices) : SliceValid(slices[k]) BY <1>a DEF StepSlices
  <2>2. ASSUME NEW x \in Slices, SliceValid(x) PROVE SliceValid(x)'
    <3>1. x.seq \in Seqs BY DEF Slices
    <3>2. /\ x.seq \in Members(running)' /\ ~is_finished(x.seq)'
      BY <1>f, <2>2 DEF SliceValid, is_finished
    <3> QED BY <1>f, <1>o, <1>p, <2>2, <3>1, <3>2, SliceKept
  <2>3. ASSUME len > 0 PROVE SliceValid(sl)'
    <3>1. s \in Members(running)' /\ ~is_finished(s)' /\ num_tokens(s)' = num_tokens(s)
      BY <1>f, <1>h DEF is_finished, num_tokens
    <3>2. num_computed[s] + len <= Len(blocks[s]) * BlockSize BY <1>i, <1>j, <1>k
    <3> QED BY <1>f, <1>j, <1>l, <2>3, <3>1, <3>2 DEF SliceValid
  <2>4. \A k \in 1..Len(slices) : slices[k] \in Slices BY SliceTypes
  <2>5. \A j, k \in 1..Len(slices) : slices[j].seq = slices[k].seq => j = k BY DEF StepSlices
  <2>6. CASE slices' = slices BY <2>1, <2>2, <2>4, <2>5, <2>6 DEF StepSlices, Sliced
  <2>7. CASE len > 0 /\ slices' = Append(slices, sl)
    BY <1>h, <1>l, <2>1, <2>2, <2>3, <2>5, <2>7, SliceAdded
  <2> QED BY <1>q, <2>6, <2>7
<1>6. Candidates'
  <2>1. Members(decode)' = Members(decode) /\ Distinct(decode)' BY <1>d DEF Members, Distinct, Candidates
  <2>2. \A k \in 1..Len(decode) : EnsureSlotHolds(decode[k])'
    BY <1>a, <1>d, <1>f DEF Candidates, EnsureSlotHolds, blocks_needed
  <2>3. /\ \A r \in Members(decode) \union (Members(mid_prefill) \ {s}) :
              r \in Members(running) /\ ~is_finished(r)' /\ r \notin Sliced'
        /\ \A r \in Members(decode) : num_tokens(r)' = num_computed'[r] + 1
        /\ \A r \in Members(mid_prefill) : num_tokens(r)' > num_computed'[r] + 1
    BY <1>5, <1>f, <1>h DEF Candidates, is_finished, num_tokens
  <2>4. Members(decode) \intersect Members(mid_prefill) = {} BY DEF Candidates
  <2> QED BY <1>a, <1>d, <1>f, <1>g, <2>1, <2>2, <2>3, <2>4 DEF Candidates
<1>7. (Computed /\ SampleHead)' BY <1>a, <1>d DEF Computed, SampleHead
<1> QED BY <1>1, <1>2, <1>3, <1>4, <1>5, <1>6, <1>7, <1>f

\* A queue cut to its first n elements.
LEMMA PrefixQueue ==
    ASSUME NEW S, NEW q \in Seq(S), NEW n \in 0..Len(q)
    PROVE  /\ SubSeq(q, 1, n) \in Seq(S) /\ Len(SubSeq(q, 1, n)) = n
           /\ \A k \in 1..n : SubSeq(q, 1, n)[k] = q[k]
           /\ Members(SubSeq(q, 1, n)) \subseteq Members(q)
           /\ Distinct(q) => Distinct(SubSeq(q, 1, n))
<1>1. /\ SubSeq(q, 1, n) \in Seq(S) /\ Len(SubSeq(q, 1, n)) = n
      /\ \A k \in 1..n : SubSeq(q, 1, n)[k] = q[k]
  OBVIOUS
<1>2. \A k \in 1..n : k \in 1..Len(q) OBVIOUS
<1> DEFINE p == SubSeq(q, 1, n)
<1> HIDE DEF p
<1>3. Members(p) \subseteq Members(q) /\ (Distinct(q) => Distinct(p))
  BY <1>1, <1>2 DEF Members, Distinct, p
<1> QED BY <1>1, <1>3 DEF p

\* Cutting the decoding sequences to the budget keeps the invariant.
LEMMA TruncateKeeps == ASSUME SchedInv, TypeInv', TruncateDecode PROVE SchedInv'
<1> USE DEF SchedInv, SchedTypeInv
<1>a. /\ pc = "chunk" /\ mid_prefill = <<>> /\ pc' = "expire"
      /\ decode' = SubSeq(decode, 1, DecodeRoom) /\ budget' = budget - Len(decode')
      /\ UNCHANGED <<kvVars, waiting, running, batch_open, requestVars, status, finish, num_computed,
                     limit, wait_steps, first_scheduled, terminals, mid_prefill, cursor, slices, done>>
  BY DEF TruncateDecode, queueVars, requestVars
<1>b. call = Idle BY <1>a, ManagerIdle
<1>c. decode \in Seq(Seqs) /\ Len(decode) \in Nat /\ budget \in Nat BY DEF SchedTypeOK
<1>d. PICK n \in 0..Len(decode) : n = DecodeRoom /\ n <= budget BY <1>c DEF DecodeRoom, Smaller
<1>e. /\ decode' \in Seq(Seqs) /\ Len(decode') = n /\ \A k \in 1..n : decode'[k] = decode[k]
      /\ Members(decode)' \subseteq Members(decode) /\ Distinct(decode)'
  BY <1>a, <1>c, <1>d, PrefixQueue DEF Candidates
<1>1. SchedTypeOK'
  <2>1. budget' \in Nat BY <1>a, <1>c, <1>d, <1>e
  <2> QED BY <1>a, <1>e, <2>1 DEF SchedTypeOK, Places
<1>2. /\ (TextBounds /\ Queues /\ Holders /\ CallPlace /\ Residents)'
      /\ (StepSlices /\ Computed /\ SampleHead)'
      /\ Members(running)' = Members(running) /\ Sliced' = Sliced
      /\ UNCHANGED <<tokens, blocks, written, status, num_computed>>
  BY <1>1, <1>a, <1>b, LoopGoesOn
<1>3. StepShape' BY <1>a DEF StepShape
<1>4. Candidates'
  <2>1. Members(mid_prefill)' = {} /\ Distinct(mid_prefill)' BY <1>a DEF Members, Distinct
  <2>2. \A k \in 1..Len(decode') : EnsureSlotHolds(decode[k])'
    <3> SUFFICES ASSUME NEW k \in 1..Len(decode') PROVE EnsureSlotHolds(decode[k])' OBVIOUS
    <3>1. k \in 1..Len(decode) /\ decode'[k] = decode[k] BY <1>c, <1>d, <1>e
    <3>2. EnsureSlotHolds(decode[k]) BY <1>a, <3>1 DEF Candidates
    <3> QED BY <1>2, <3>1, <3>2 DEF EnsureSlotHolds, blocks_needed
  <2>3. /\ \A r \in Members(decode) : r \in Members(running) /\ ~is_finished(r)' /\ r \notin Sliced
        /\ \A r \in Members(decode) : num_tokens(r)' = num_computed'[r] + 1
    BY <1>2 DEF Candidates, is_finished, num_tokens
  <2> QED BY <1>2, <1>a, <1>e, <2>1, <2>2, <2>3 DEF Candidates
<1> QED BY <1>1, <1>2, <1>3, <1>4

\* Trying the next request of the queue, or none, keeps the invariant.
LEMMA SkipKeeps == ASSUME SchedInv, TypeInv', SkipWaiting \/ AdmitDone PROVE SchedInv'
<1> USE DEF SchedInv, SchedTypeInv
<1>a. /\ pc = "admit" /\ call = Idle /\ pc' \in {"admit", "build"}
      /\ cursor' \in {cursor, cursor + 1}
      /\ UNCHANGED <<kvVars, waiting, running, batch_open, requestVars, status, finish, num_computed,
                     limit, wait_steps, first_scheduled, terminals,
                     budget, mid_prefill, decode, slices, done>>
  BY DEF SkipWaiting, AdmitDone, Admitting, queueVars, requestVars
<1>1. SchedTypeOK'
  <2>1. cursor' \in Nat \ {0} BY <1>a DEF SchedTypeOK
  <2> QED BY <1>a, <2>1 DEF SchedTypeOK, Places
<1>2. /\ (TextBounds /\ Queues /\ Holders /\ CallPlace /\ Residents)'
      /\ (StepSlices /\ Computed /\ SampleHead)'
      /\ Members(running)' = Members(running) /\ Sliced' = Sliced
      /\ UNCHANGED <<tokens, blocks, written, status, num_computed>>
  BY <1>1, <1>a, LoopGoesOn
<1>3. StepShape' BY <1>a DEF StepShape
<1>4. Candidates'
  <2>1. \A s \in Members(decode) \union Members(mid_prefill) : s \in Members(running) /\ s \notin Sliced
    BY DEF Candidates
  <2> QED BY <1>2, <1>a, <2>1, CandidatesUntouched
<1> QED BY <1>1, <1>2, <1>3, <1>4

\* Requests that leave the queue as finished, with nothing else changed, leave the rest
\* of the step alone.
LEMMA LeaveQueue ==
    ASSUME SchedInv, TypeInv', NEW late \in SUBSET Members(waiting),
           NEW reason \in {"none", "stop", "length", "abort", "timeout"}, retire(late, reason),
           call = Idle, UNCHANGED <<kvVars, running, num_computed, done>>,
           waiting' \in Seq(Seqs), Distinct(waiting)', Members(waiting)' = Members(waiting) \ late
    PROVE  /\ (TextBounds /\ Queues /\ Holders)'
           /\ UNCHANGED <<tokens, blocks, written, call>>
           /\ Members(running)' = Members(running)
           /\ \A s \in Members(running) : status'[s] = status[s]
           /\ status' \in [Seqs -> {"new", "waiting", "running", "finished"}]
           /\ finish' \in [Seqs -> {"none", "stop", "length", "abort", "timeout"}]
           /\ terminals' \in [Seqs -> Nat]
<1> USE DEF SchedInv, SchedTypeInv
<1>a. UNCHANGED <<tokens, blocks, written, call>> BY DEF kvVars, tables
<1>b. /\ Members(waiting) \subseteq Seqs /\ Members(running) \subseteq Seqs /\ Members(done) \subseteq Seqs
      /\ late \subseteq Seqs
  BY MembersType DEF SchedTypeOK
<1>c. /\ status' \in [Seqs -> {"new", "waiting", "running", "finished"}]
      /\ finish' \in [Seqs -> {"none", "stop", "length", "abort", "timeout"}]
      /\ terminals' \in [Seqs -> Nat]
      /\ \A r \in Seqs : status'[r] = IF r \in late THEN "finished" ELSE status[r]
  BY <1>b, RetireFrame
<1>d. /\ Members(running)' = Members(running) /\ Members(done)' = Members(done)
      /\ Distinct(running)' /\ Distinct(done)'
  BY DEF Members, Distinct, Queues
<1>e. \A s \in late : status[s] = "waiting" BY <1>b DEF Queues
<1>f. \A s \in Members(running) \union Members(done) : s \in Seqs /\ s \notin late
  BY <1>b, <1>e DEF Queues
<1>g. \A s \in Members(running) \union Members(done) : status'[s] = status[s] BY <1>c, <1>f
<1>1. TextBounds' BY <1>a, <1>d DEF TextBounds
<1>2. Queues' BY <1>c, <1>d, <1>e, <1>f, <1>g DEF Queues
<1>3. Holders' BY <1>a, <1>d DEF Holders
<1> QED BY <1>1, <1>2, <1>3, <1>a, <1>c, <1>d, <1>g

\* Abandoning requests whose deadline has passed keeps the invariant.
LEMMA ExpireKeeps ==
    ASSUME SchedInv, TypeInv', NEW late \in SUBSET Seqs, ExpireQueue(late) PROVE SchedInv'
<1> USE DEF SchedInv, SchedTypeInv
<1>a. /\ pc = "expire" /\ late \subseteq Members(waiting)
      /\ waiting' = Only(waiting, Seqs \ late) /\ retire(late, "timeout")
      /\ wait_steps' = [s \in Seqs |-> IF may_admit /\ s \in Members(waiting')
                                          THEN Smaller(wait_steps[s] + 1, StarvationSteps)
                                          ELSE wait_steps[s]]
      /\ cursor' = 1 /\ pc' = IF may_admit THEN "admit" ELSE "build"
      /\ UNCHANGED <<kvVars, running, batch_open, num_computed, limit, first_scheduled,
                     budget, mid_prefill, decode, slices, done>>
  BY DEF ExpireQueue
<1>b. call = Idle /\ call.op = "idle" BY <1>a, ManagerIdle DEF Idle
<1>c. waiting' \in Seq(Seqs) /\ Distinct(waiting)' /\ Members(waiting)' = Members(waiting) \ late
  <2>1. waiting \in Seq(Seqs) /\ Distinct(waiting) /\ Members(waiting) \subseteq Seqs
    BY MembersType DEF SchedTypeOK, Queues
  <2> QED BY <1>a, <2>1, OnlyQueue, OnlyDistinct
<1>d. /\ (TextBounds /\ Queues /\ Holders)'
      /\ UNCHANGED <<tokens, blocks, written, call>>
      /\ Members(running)' = Members(running)
      /\ \A s \in Members(running) : status'[s] = status[s]
      /\ status' \in [Seqs -> {"new", "waiting", "running", "finished"}]
      /\ finish' \in [Seqs -> {"none", "stop", "length", "abort", "timeout"}]
      /\ terminals' \in [Seqs -> Nat]
  BY <1>a, <1>b, <1>c, LeaveQueue
<1>1. SchedTypeOK'
  <2>1. wait_steps' \in [Seqs -> Nat]
    <3>1. \A s \in Seqs : wait_steps[s] \in Nat /\ Smaller(wait_steps[s] + 1, StarvationSteps) \in Nat
      BY Configuration DEF SchedTypeOK, Smaller
    <3> QED BY <1>a, <3>1
  <2>2. pc' \in Places /\ cursor' \in Nat \ {0} BY <1>a DEF Places
  <2> QED BY <1>a, <1>c, <1>d, <2>1, <2>2 DEF SchedTypeOK
<1>2. CallPlace' BY <1>b, <1>d DEF CallPlace
<1>3. StepShape' BY <1>a DEF StepShape
<1>e. Members(running) \subseteq Seqs BY MembersType DEF SchedTypeOK
<1>f. \A q \in Seqs : written[q] \in Nat /\ Len(blocks[q]) \in Nat BY SeqTypes
<1>g. \A q : ~Applied(q) /\ ~Allocating(q) /\ ~Allocating(q)'
  BY <1>a, <1>b, <1>d DEF Applied, Allocating
<1>4. Residents' BY <1>1, <1>a, <1>d, <1>e, <1>f, <1>g, ResidentsKept DEF is_finished
<1>5. StepSlices'
  <2>1. ASSUME NEW k \in 1..Len(slices) PROVE SliceValid(slices[k])'
    <3>1. PICK sl \in Slices : sl = slices[k] /\ sl.seq \in Seqs BY SliceTypes
    <3>2. SliceValid(sl) BY <1>a, <2>1, <3>1 DEF StepSlices
    <3>3. /\ sl.seq \in Members(running)' /\ ~is_finished(sl.seq)'
      BY <1>d, <3>2 DEF SliceValid, is_finished
    <3>4. /\ num_computed'[sl.seq] = num_computed[sl.seq] /\ tokens'[sl.seq] = tokens[sl.seq]
          /\ Len(blocks'[sl.seq]) >= Len(blocks[sl.seq])
      BY <1>a, <1>d, <1>f, <3>1
    <3>5. SliceValid(sl)' BY <1>g, <3>2, <3>3, <3>4, SliceKept
    <3> QED BY <1>a, <3>1, <3>5
  <2>2. slices' = slices /\ pc' # "sample" BY <1>a
  <2> QED BY <2>1, <2>2 DEF StepSlices
<1>6. Candidates'
  <2>1. mid_prefill = <<>> BY <1>a DEF StepShape
  <2>2. Members(mid_prefill)' = {} /\ Distinct(mid_prefill)' BY <1>a, <2>1 DEF Members, Distinct
  <2>3. Members(decode)' = Members(decode) /\ Distinct(decode)' /\ Sliced' = Sliced
    BY <1>a DEF Members, Distinct, Sliced, Candidates
  <2>4. \A k \in 1..Len(decode) : EnsureSlotHolds(decode[k])'
    BY <1>a, <1>d DEF Candidates, EnsureSlotHolds, blocks_needed
  <2>5. /\ \A r \in Members(decode) : r \in Members(running) /\ ~is_finished(r)' /\ r \notin Sliced
        /\ \A r \in Members(decode) : num_tokens(r)' = num_computed'[r] + 1
    BY <1>a, <1>d DEF Candidates, is_finished, num_tokens
  <2> QED BY <1>a, <1>d, <2>2, <2>3, <2>4, <2>5 DEF Candidates
<1>7. (Computed /\ SampleHead)' BY <1>a DEF Computed, SampleHead
<1> QED BY <1>1, <1>2, <1>3, <1>4, <1>5, <1>6, <1>7, <1>d

\* Admission keeps the invariant: the request's blocks are being allocated when its
\* first slice is built, and will cover it.
LEMMA AdmitKeeps == ASSUME SchedInv, TypeInv', Admit PROVE SchedInv'
<1> USE DEF SchedInv, SchedTypeInv
<1>a. cursor \in 1..Len(waiting) /\ waiting[cursor] \in Seqs BY AdmittingCursor DEF Admit
<1>b. PICK s \in Seqs : s = waiting[cursor] BY <1>a
<1>c. PICK n \in 0..MaxTokens :
          /\ allocate_prompt(s, n)
          /\ num_computed' = [num_computed EXCEPT ![s] = CachedTokens(s, n)]
          /\ LET len == Smaller(Smaller(num_tokens(s) - CachedTokens(s, n), budget), ChunkSize)
             IN  slices' = Append(slices, Slice(s, CachedTokens(s, n), len)) /\ budget' = budget - len
  BY <1>b DEF Admit
<1>d. /\ pc = "admit" /\ call = Idle /\ budget > 0
      /\ waiting' = DropAt(waiting, cursor) /\ running' = Append(running, s)
      /\ status' = [status EXCEPT ![s] = "running"]
      /\ first_scheduled' = first_scheduled \union {s}
      /\ cursor' = 1
      /\ UNCHANGED <<batch_open, finish, limit, wait_steps, terminals, pc, mid_prefill, decode, done>>
  BY <1>b DEF Admit, Admitting
<1>e. /\ call' = [op |-> "alloc", seq |-> s, n |-> n] /\ blocks[s] = <<>>
      /\ UNCHANGED <<blocks, tokens, written>> /\ CachedPrefix(tokens[s], n)
  BY <1>c DEF allocate_prompt, tables
<1>f. call.op = "idle" /\ call'.op = "alloc" /\ call'.seq = s /\ call'.n = n BY <1>d, <1>e DEF Idle
<1>g. /\ waiting' \in Seq(Seqs) /\ Distinct(waiting)' /\ Members(waiting)' = Members(waiting) \ {s}
      /\ s \in Members(waiting)
  <2>1. waiting \in Seq(Seqs) /\ Distinct(waiting) BY DEF SchedTypeOK, Queues
  <2>2. /\ DropAt(waiting, cursor) \in Seq(Seqs) /\ Distinct(DropAt(waiting, cursor))
        /\ Members(DropAt(waiting, cursor)) = Members(waiting) \ {waiting[cursor]}
    BY <1>a, <2>1, DropQueue
  <2>3. waiting[cursor] \in Members(waiting) BY <1>a DEF Members
  <2> QED BY <1>b, <1>d, <2>2, <2>3
<1>h. status[s] = "waiting" /\ s \notin Members(running) /\ s \notin Members(done) BY <1>g DEF Queues
<1>i. /\ running' \in Seq(Seqs) /\ Distinct(running)' /\ Members(running)' = Members(running) \union {s}
  BY <1>d, <1>h, AppendQueue DEF SchedTypeOK, Queues
<1>j. Members(done)' = Members(done) /\ Distinct(done)' BY <1>d DEF Members, Distinct, Queues
<1>k. /\ status'[s] = "running"
      /\ \A r \in Seqs : r # s => status'[r] = status[r] /\ num_computed'[r] = num_computed[r]
  BY <1>c, <1>d DEF SchedTypeOK
<1>l. /\ num_tokens(s) \in Nat /\ num_tokens(s) > 0 /\ budget \in Nat /\ n \in Nat
      /\ n * BlockSize \in Nat
  <2>1. num_tokens(s) \in Nat /\ num_tokens(s) > 0
    BY <1>g, SeqTypes DEF TextBounds
  <2>2. budget \in Nat /\ n \in Nat BY Configuration DEF SchedTypeOK
  <2> QED BY <2>1, <2>2, Scaled
<1>m. PICK start \in Nat : /\ start = CachedTokens(s, n)
                           /\ start <= n * BlockSize /\ start < num_tokens(s)
  BY <1>l DEF CachedTokens, Smaller
<1>n. PICK len \in Nat : /\ len = Smaller(Smaller(num_tokens(s) - start, budget), ChunkSize)
                         /\ len > 0 /\ len <= budget /\ start + len <= num_tokens(s)
  BY <1>d, <1>l, <1>m, Configuration, SMTT(30) DEF Smaller
<1>o. PICK sl \in Slices :
          /\ slices' = Append(slices, sl) /\ budget' = budget - len
          /\ sl.seq = s /\ sl.start = start /\ sl.len = len
          /\ sl.needs_logits <=> start + len = num_tokens(s)
  <2>1. /\ Slice(s, start, len) \in Slices /\ Slice(s, start, len).seq = s
        /\ Slice(s, start, len).start = start /\ Slice(s, start, len).len = len
        /\ Slice(s, start, len).needs_logits <=> start + len = num_tokens(s)
    BY SliceFields, SMTT(20)
  <2>2. slices' = Append(slices, Slice(s, start, len)) /\ budget' = budget - len
    BY <1>c, <1>m, <1>n, Zenon
  <2> QED BY <2>1, <2>2, Zenon
<1>p. num_computed'[s] = start BY <1>c, <1>m DEF SchedTypeOK
<1>q. Members(running) \subseteq Seqs /\ Members(done) \subseteq Seqs BY MembersType DEF SchedTypeOK
<1>r. \A r \in Members(running) : r # s /\ r \in Seqs /\ status'[r] = status[r] /\ num_computed'[r] = num_computed[r]
  BY <1>h, <1>k, <1>q
<1>s. \A r : r # s => ~Allocating(r) /\ ~Allocating(r)' BY <1>f DEF Allocating
<1>t. Allocating(s)' /\ ~Allocating(s) BY <1>f DEF Allocating
<1>u. \A r \in Seqs : written[r] \in Nat /\ Len(blocks[r]) \in Nat BY SeqTypes
<1>1. SchedTypeOK'
  <2>1. slices' \in Seq(Slices) BY <1>o DEF SchedTypeOK
  <2>2. budget' \in Nat BY <1>l, <1>n, <1>o
  <2>3. status' \in [Seqs -> {"new", "waiting", "running", "finished"}]
    BY <1>d DEF SchedTypeOK
  <2>4. num_computed' \in [Seqs -> Nat]
    <3>1. num_computed' = [num_computed EXCEPT ![s] = start] BY <1>c, <1>m
    <3> QED BY <3>1 DEF SchedTypeOK
  <2>5. first_scheduled' \subseteq Seqs /\ cursor' \in Nat \ {0} BY <1>d DEF SchedTypeOK
  <2>6. UNCHANGED <<batch_open, finish, limit, wait_steps, terminals, pc, mid_prefill, decode, done>>
    BY <1>d
  <2> QED BY <1>g, <1>i, <2>1, <2>2, <2>3, <2>4, <2>5, <2>6 DEF SchedTypeOK
<1>2. TextBounds' BY <1>e, <1>g, <1>i DEF TextBounds
<1>3. Queues'
  BY <1>g, <1>h, <1>i, <1>j, <1>k, <1>q, <1>r DEF Queues
<1>4. Holders' BY <1>e, <1>f, <1>i, <1>j DEF Holders
<1>5. CallPlace' BY <1>d, <1>f, <1>i DEF CallPlace
<1>6. StepShape' BY <1>d DEF StepShape
<1>7. Residents'
  <2> SUFFICES ASSUME NEW r \in Members(running)', ~is_finished(r)', ~Applied(r)'
               PROVE  /\ num_computed'[r] < num_tokens(r)'
                      /\ Allocating(r)' => num_computed'[r] <= call'.n * BlockSize
                      /\ ~Allocating(r)' =>
                            /\ num_computed'[r] <= written'[r]
                            /\ \/ num_tokens(r)' <= Len(blocks'[r]) * BlockSize
                               \/ num_tokens(r)' = num_computed'[r] + 1
    BY DEF Residents
  <2>1. CASE r = s BY <1>e, <1>f, <1>m, <1>p, <1>t, <2>1 DEF num_tokens
  <2>2. CASE r # s
    <3>1. r \in Members(running) /\ ~is_finished(r) BY <1>i, <1>r, <2>2 DEF is_finished
    <3>2. ~Applied(r) BY <1>d DEF Applied
    <3>3. /\ num_computed[r] < num_tokens(r) /\ num_computed[r] <= written[r]
          /\ \/ num_tokens(r) <= Len(blocks[r]) * BlockSize
             \/ num_tokens(r) = num_computed[r] + 1
      BY <1>s, <2>2, <3>1, <3>2 DEF Residents
    <3> QED BY <1>e, <1>r, <1>s, <2>2, <3>1, <3>3 DEF num_tokens
  <2> QED BY <2>1, <2>2
<1>8. StepSlices' /\ Sliced' = Sliced \union {s}
  <2>1. \A k \in 1..Len(slices) : SliceValid(slices[k]) BY <1>d DEF StepSlices
  <2>2. ASSUME NEW x \in Slices, SliceValid(x) PROVE SliceValid(x)'
    <3>1. x.seq \in Members(running) /\ ~is_finished(x.seq) BY <2>2 DEF SliceValid
    <3>2. /\ x.seq \in Seqs /\ x.seq # s /\ x.seq \in Members(running)' /\ ~is_finished(x.seq)'
      BY <1>i, <1>r, <3>1 DEF is_finished
    <3>3. /\ num_computed'[x.seq] = num_computed[x.seq] /\ tokens'[x.seq] = tokens[x.seq]
          /\ Len(blocks'[x.seq]) >= Len(blocks[x.seq])
      BY <1>e, <1>r, <1>u, <3>1, <3>2
    <3> QED BY <1>s, <2>2, <3>2, <3>3, SliceKept
  <2>3. SliceValid(sl)'
    <3>1. s \in Members(running)' /\ ~is_finished(s)' /\ num_tokens(s)' = num_tokens(s)
      BY <1>e, <1>i, <1>k DEF is_finished, num_tokens
    <3> QED BY <1>n, <1>o, <1>p, <1>t, <3>1 DEF SliceValid
  <2>4. \A j, k \in 1..Len(slices) : slices[j].seq = slices[k].seq => j = k BY DEF StepSlices
  <2>5. s \notin Sliced
    <3>1. \A k \in 1..Len(slices) : slices[k].seq \in Members(running) BY <2>1 DEF SliceValid
    <3> QED BY <1>h, <3>1 DEF Sliced
  <2> QED BY <1>o, <2>1, <2>2, <2>3, <2>4, <2>5, SliceAdded
<1>9. Candidates'
  <2>1. mid_prefill = <<>> BY <1>d DEF StepShape
  <2>2. Members(mid_prefill)' = {} /\ Distinct(mid_prefill)' BY <1>d, <2>1 DEF Members, Distinct
  <2>3. Members(decode)' = Members(decode) /\ Distinct(decode)'
    BY <1>d DEF Members, Distinct, Candidates
  <2>4. \A k \in 1..Len(decode) : EnsureSlotHolds(decode[k])'
    BY <1>d, <1>e DEF Candidates, EnsureSlotHolds, blocks_needed
  <2>5. ASSUME NEW r \in Members(decode)
        PROVE  /\ r \in Members(running)' /\ ~is_finished(r)' /\ r \notin Sliced'
               /\ num_tokens(r)' = num_computed'[r] + 1
    <3>1. r \in Members(running) /\ ~is_finished(r) /\ r \notin Sliced /\ num_tokens(r) = num_computed[r] + 1
      BY <2>5 DEF Candidates
    <3> QED BY <1>8, <1>e, <1>i, <1>r, <3>1 DEF is_finished, num_tokens
  <2> QED BY <1>d, <2>2, <2>3, <2>4, <2>5 DEF Candidates
<1>10. (Computed /\ SampleHead)' BY <1>d DEF Computed, SampleHead
<1> QED BY <1>1, <1>2, <1>3, <1>4, <1>5, <1>6, <1>7, <1>8, <1>9, <1>10

\* The end of schedule() keeps the invariant: every candidate gets its slice.
LEMMA FinishKeeps == ASSUME SchedInv, TypeInv', FinishSchedule PROVE SchedInv'
<1> USE DEF SchedInv, SchedTypeInv
<1> DEFINE One(s) == [seq |-> s, start |-> num_computed[s], len |-> 1, needs_logits |-> TRUE]
           D == [k \in 1..Len(decode) |-> One(decode[k])]
<1>a. /\ pc = "build" /\ batch_open' = (batch_open /\ ~BatchCloses)
      /\ slices' = slices \o D
      /\ pc' = IF slices' = <<>> THEN "idle" ELSE "forward"
      /\ decode' = <<>> /\ cursor' = 1 /\ budget' = 0
      /\ UNCHANGED <<kvVars, running, num_computed, limit, wait_steps, first_scheduled,
                     mid_prefill, done>>
  BY DEF FinishSchedule
<1>b. call = Idle /\ call.op = "idle" BY <1>a, ManagerIdle DEF Idle
<1>c. waiting \in Seq(Seqs) /\ Distinct(waiting) /\ decode \in Seq(Seqs) /\ slices \in Seq(Slices)
  BY DEF SchedTypeOK, Queues
<1>d. /\ (TextBounds /\ Queues /\ Holders)'
      /\ UNCHANGED <<tokens, blocks, written, call>>
      /\ Members(running)' = Members(running)
      /\ \A s \in Members(running) : status'[s] = status[s]
      /\ status' \in [Seqs -> {"new", "waiting", "running", "finished"}]
      /\ finish' \in [Seqs -> {"none", "stop", "length", "abort", "timeout"}]
      /\ terminals' \in [Seqs -> Nat]
      /\ waiting' \in Seq(Seqs)
  <2>1. CASE UNCHANGED <<status, finish, terminals, waiting>>
    <3>1. UNCHANGED <<kvVars, waiting, running, requestVars, done>>
      BY <1>a, <2>1 DEF requestVars
    <3> QED BY <1>c, <2>1, <3>1, QueuesUntouched DEF SchedTypeOK
  <2>2. CASE HeadRejected /\ retire({Head(waiting)}, "abort") /\ waiting' = Tail(waiting)
    <3>1. waiting # <<>> BY <2>2 DEF HeadRejected
    <3>2. PICK h \in Seqs : h = Head(waiting) BY <1>c, <3>1, TailQueue
    <3>3. /\ waiting' \in Seq(Seqs) /\ Distinct(waiting)' /\ Members(waiting)' = Members(waiting) \ {h}
          /\ {h} \subseteq Members(waiting)
      BY <1>c, <2>2, <3>1, <3>2, TailQueue
    <3>4. retire({h}, "abort") BY <2>2, <3>2
    <3> QED BY <1>a, <1>b, <3>3, <3>4, LeaveQueue
  <2> QED BY <2>1, <2>2 DEF FinishSchedule
<1>e. \A s \in Seqs : num_computed[s] \in Nat /\ num_tokens(s) \in Nat /\ Len(blocks[s]) \in Nat
                      /\ Len(blocks[s]) * BlockSize \in Nat /\ Len(tokens[s]) \in Nat
                      /\ num_tokens(s) = Len(tokens[s]) /\ written[s] \in Nat
  BY SeqTypes
<1>f. /\ Len(slices) \in Nat /\ Len(decode) \in Nat /\ Len(D) = Len(decode) /\ D \in Seq(Slices)
      /\ \A k \in 1..Len(decode) : D[k] = One(decode[k]) /\ decode[k] \in Seqs
  <2>1. \A k \in 1..Len(decode) : decode[k] \in Seqs BY <1>c
  <2>2. \A k \in 1..Len(decode) : One(decode[k]) \in Slices BY <1>e, <2>1 DEF Slices
  <2> QED BY <1>c, <2>1, <2>2
<1> HIDE DEF D
<1>g. /\ Len(slices') = Len(slices) + Len(decode) /\ slices' \in Seq(Slices)
      /\ \A k \in 1..Len(slices) : slices'[k] = slices[k]
      /\ \A k \in 1..Len(decode) : slices'[Len(slices) + k] = One(decode[k])
  <2>1. /\ slices \o D \in Seq(Slices) /\ Len(slices \o D) = Len(slices) + Len(D)
        /\ \A k \in 1..Len(slices) : (slices \o D)[k] = slices[k]
        /\ \A k \in 1..Len(D) : (slices \o D)[Len(slices) + k] = D[k]
    <3>1. slices \in Seq(Slices) /\ D \in Seq(Slices) BY <1>c, <1>f
    <3> QED BY <3>1, SMT
  <2>2. slices' = slices \o D BY <1>a
  <2> QED BY <1>f, <2>1, <2>2, Zenon
<1>h. \A s : One(s).seq = s /\ One(s).start = num_computed[s] /\ One(s).len = 1 /\ One(s).needs_logits = TRUE
  OBVIOUS
<1> HIDE DEF One
<1>i. Members(running) \subseteq Seqs BY MembersType DEF SchedTypeOK
<1>j. \A q : ~Applied(q) /\ ~Applied(q)' /\ ~Allocating(q) /\ ~Allocating(q)'
  BY <1>a, <1>b, <1>d DEF Applied, Allocating
<1>1. SchedTypeOK'
  <2>1. batch_open' \in BOOLEAN BY <1>a
  <2>2. pc' \in Places /\ cursor' \in Nat \ {0} /\ budget' \in Nat /\ decode' \in Seq(Seqs)
    BY <1>a DEF Places
  <2> QED BY <1>a, <1>d, <1>g, <2>1, <2>2 DEF SchedTypeOK
<1>2. CallPlace' BY <1>b, <1>d DEF CallPlace
<1>3. StepShape'
  <2>1. mid_prefill = <<>> /\ done = <<>> BY <1>a DEF StepShape
  <2>2. slices' # <<>> => 1 <= Len(slices') BY <1>g
  <2> QED BY <1>a, <2>1, <2>2 DEF StepShape
<1>4. Residents' BY <1>1, <1>a, <1>d, <1>e, <1>i, <1>j, ResidentsKept DEF is_finished
<1>5. Candidates'
  <2>1. mid_prefill' = <<>> BY <1>a DEF StepShape
  <2>2. /\ Members(mid_prefill)' = {} /\ Distinct(mid_prefill)'
        /\ Members(decode)' = {} /\ Distinct(decode)' /\ Len(decode') = 0
    BY <1>a, <2>1 DEF Members, Distinct
  <2> QED BY <1>a, <2>2 DEF Candidates
<1>6. StepSlices'
  <2>1. ASSUME NEW x \in Slices, SliceValid(x) PROVE SliceValid(x)'
    <3>1. x.seq \in Members(running) /\ ~is_finished(x.seq) BY <2>1 DEF SliceValid
    <3>2. /\ x.seq \in Seqs /\ x.seq \in Members(running)' /\ ~is_finished(x.seq)'
      BY <1>d, <1>i, <3>1 DEF is_finished
    <3>3. /\ num_computed'[x.seq] = num_computed[x.seq] /\ tokens'[x.seq] = tokens[x.seq]
          /\ Len(blocks'[x.seq]) >= Len(blocks[x.seq])
      BY <1>a, <1>d, <1>e, <3>2
    <3> QED BY <1>j, <2>1, <3>2, <3>3, SliceKept
  <2>2. ASSUME NEW k \in 1..Len(decode) PROVE SliceValid(One(decode[k]))
    <3>1. PICK s \in Seqs : s = decode[k] BY <1>f
    <3>2. /\ s \in Members(running) /\ ~is_finished(s) /\ num_tokens(s) = num_computed[s] + 1
          /\ EnsureSlotHolds(s)
      <4>1. s \in Members(decode) BY <3>1 DEF Members
      <4> QED BY <1>a, <3>1, <4>1 DEF Candidates
    <3>3. num_tokens(s) <= Len(blocks[s]) * BlockSize
      BY <1>e, <3>2, SlotsCover DEF EnsureSlotHolds
    <3>4. SliceValid(One(s)) BY <1>e, <1>h, <3>2, <3>3 DEF SliceValid
    <3> QED BY <3>1, <3>4
  <2>3. ASSUME NEW k \in 1..Len(slices') PROVE SliceValid(slices[k])'
    <3>1. PICK x \in Slices : x = slices'[k] BY <1>g
    <3>2. CASE k \in 1..Len(slices)
      <4>1. SliceValid(x) BY <1>a, <1>g, <3>1, <3>2 DEF StepSlices
      <4> QED BY <2>1, <3>1, <4>1
    <3>3. CASE k \notin 1..Len(slices)
      <4>1. PICK j \in 1..Len(decode) : k = Len(slices) + j
        <5>1. k - Len(slices) \in 1..Len(decode) /\ k = Len(slices) + (k - Len(slices))
          BY <1>f, <1>g, <3>3
        <5> QED BY <5>1
      <4>2. SliceValid(x) BY <1>g, <2>2, <3>1, <4>1
      <4> QED BY <2>1, <3>1, <4>2
    <3> QED BY <3>2, <3>3
  <2>4. ASSUME NEW j \in 1..Len(slices'), NEW k \in 1..Len(slices'), slices'[j].seq = slices'[k].seq,
               j < k
        PROVE  FALSE
    <3>1. CASE k \in 1..Len(slices)
      <4>1. j \in 1..Len(slices) BY <1>f, <2>4, <3>1
      <4> QED BY <1>g, <2>4, <3>1, <4>1 DEF StepSlices
    <3>2. CASE k \notin 1..Len(slices)
      <4>1. PICK b \in 1..Len(decode) : k = Len(slices) + b
        <5>1. k - Len(slices) \in 1..Len(decode) /\ k = Len(slices) + (k - Len(slices))
          BY <1>f, <1>g, <3>2
        <5> QED BY <5>1
      <4>2. slices'[k].seq = decode[b] /\ decode[b] \in Members(decode)
        BY <1>g, <1>h, <4>1 DEF Members
      <4>3. CASE j \in 1..Len(slices)
        <5>1. slices'[j].seq \in Sliced BY <1>g, <4>3 DEF Sliced
        <5> QED BY <2>4, <4>2, <5>1 DEF Candidates
      <4>4. CASE j \notin 1..Len(slices)
        <5>1. PICK a \in 1..Len(decode) : j = Len(slices) + a
          <6>1. j - Len(slices) \in 1..Len(decode) /\ j = Len(slices) + (j - Len(slices))
            BY <1>f, <1>g, <4>4
          <6> QED BY <6>1
        <5>2. slices'[j].seq = decode[a] BY <1>g, <1>h, <5>1
        <5>3. a = b BY <2>4, <4>2, <5>2 DEF Candidates, Distinct
        <5> QED BY <1>f, <2>4, <4>1, <5>1, <5>3
      <4> QED BY <4>3, <4>4
    <3> QED BY <3>1, <3>2
  <2>5. \A j, k \in 1..Len(slices') : j < k \/ k < j \/ j = k BY <1>g
  <2> QED BY <2>3, <2>4, <2>5 DEF StepSlices
<1>7. Computed' BY <1>a, <1>g DEF Computed
<1>8. SampleHead' BY <1>a DEF SampleHead
<1> QED BY <1>1, <1>2, <1>3, <1>4, <1>5, <1>6, <1>7, <1>8, <1>d

-----------------------------------------------------------------------------
(* forward() and on_step_done().                                           *)

\* The forward pass of a slice keeps the invariant.
LEMMA ForwardKeeps == ASSUME SchedInv, TypeInv', Forward PROVE SchedInv'
<1> USE DEF SchedInv, SchedTypeInv
<1>a. pc = "forward" /\ cursor \in 1..Len(slices)
  BY DEF Forward, StepShape, SchedTypeOK
<1>b. PICK sl \in Slices : sl = slices[cursor] /\ sl.seq \in Seqs /\ sl.start \in Nat /\ sl.len \in Nat
  BY <1>a, SliceTypes
<1>c. PICK s \in Seqs : s = sl.seq BY <1>b
<1>d. PICK hi \in Nat : hi = sl.start + sl.len BY <1>b
<1>e. Write(s, sl.start, hi) BY <1>b, <1>c, <1>d DEF Forward
<1>f. /\ call = Idle /\ written' = [written EXCEPT ![s] = IF hi > @ THEN hi ELSE @]
      /\ UNCHANGED <<blocks, tokens, call>>
  BY <1>e DEF Write, tables
<1>g. /\ cursor' = IF cursor = Len(slices) THEN 1 ELSE cursor + 1
      /\ pc' = IF cursor = Len(slices) THEN "apply" ELSE "forward"
      /\ UNCHANGED <<waiting, running, batch_open, status, finish, num_computed, limit, wait_steps,
                     first_scheduled, terminals, budget, mid_prefill, decode, slices, done>>
  BY DEF Forward, queueVars, requestVars
<1>h. /\ written'[s] \in Nat /\ written'[s] >= hi
      /\ \A r \in Seqs : written'[r] >= written[r] /\ written[r] \in Nat /\ written'[r] \in Nat
      /\ \A r \in Seqs : Len(blocks[r]) \in Nat
  <2>1. written \in [Seqs -> Nat] /\ written' \in [Seqs -> Nat] BY DEF TypeInv, TypeOK
  <2>2. \A r \in Seqs : Len(blocks[r]) \in Nat BY SeqTypes
  <2> QED BY <1>f, <2>1, <2>2
<1>i. /\ Members(waiting)' = Members(waiting) /\ Members(running)' = Members(running)
      /\ Members(done)' = Members(done)
      /\ Distinct(waiting)' /\ Distinct(running)' /\ Distinct(done)'
  BY <1>g DEF Members, Distinct, Queues
<1>j. call.op = "idle" BY <1>f DEF Idle
<1>k. Members(running) \subseteq Seqs BY MembersType DEF SchedTypeOK
<1>l. \A q : ~Applied(q) /\ ~Applied(q)' /\ ~Allocating(q) /\ ~Allocating(q)'
  BY <1>a, <1>f, <1>g, <1>j DEF Applied, Allocating
<1>m. Len(slices) \in Nat BY DEF SchedTypeOK
<1>1. SchedTypeOK'
  <2>1. cursor' \in Nat \ {0} /\ pc' \in Places BY <1>a, <1>g, <1>m DEF Places
  <2> QED BY <1>g, <2>1 DEF SchedTypeOK
<1>2. TextBounds' BY <1>f, <1>i DEF TextBounds
<1>3. Queues' BY <1>g, <1>i DEF Queues
<1>4. Holders' BY <1>f, <1>i DEF Holders
<1>5. CallPlace' BY <1>f, <1>j DEF CallPlace
<1>6. StepShape' BY <1>a, <1>g, <1>m DEF StepShape
<1>7. Residents' BY <1>1, <1>f, <1>g, <1>h, <1>i, <1>k, <1>l, ResidentsKept DEF is_finished
<1>8. Candidates'
  <2>1. mid_prefill = <<>> /\ decode = <<>> BY <1>a DEF StepShape
  <2>2. /\ Members(mid_prefill)' = {} /\ Distinct(mid_prefill)'
        /\ Members(decode)' = {} /\ Distinct(decode)' /\ Len(decode') = 0
    BY <1>g, <2>1 DEF Members, Distinct
  <2> QED BY <1>g, <2>2 DEF Candidates
<1>9. StepSlices'
  <2>1. ASSUME NEW k \in 1..Len(slices) PROVE SliceValid(slices[k])'
    <3>1. PICK x \in Slices : x = slices[k] /\ x.seq \in Seqs BY SliceTypes
    <3>2. SliceValid(x) BY <1>a, <3>1 DEF StepSlices
    <3>3. /\ x.seq \in Members(running)' /\ ~is_finished(x.seq)'
      BY <1>g, <1>i, <3>2 DEF SliceValid, is_finished
    <3>4. SliceValid(x)' BY <1>f, <1>g, <1>h, <1>l, <3>1, <3>2, <3>3, SliceKept
    <3> QED BY <1>g, <3>1, <3>4
  <2>2. slices' = slices /\ pc' # "sample" BY <1>g
  <2> QED BY <2>1, <2>2 DEF StepSlices
<1>10. Computed'
  <2>1. ASSUME NEW k \in 1..Len(slices), k <= cursor
        PROVE  slices[k].start + slices[k].len <= written'[slices[k].seq]
    <3>1. PICK x \in Slices : x = slices[k] /\ x.seq \in Seqs /\ x.start \in Nat /\ x.len \in Nat
      BY SliceTypes
    <3>2. CASE k = cursor BY <1>b, <1>c, <1>d, <1>h, <3>1, <3>2
    <3>3. CASE k < cursor
      <4>1. x.start + x.len <= written[x.seq] BY <1>a, <3>1, <3>3 DEF Computed
      <4>2. x.start + x.len <= written'[x.seq] BY <1>h, <3>1, <4>1, SMTT(30)
      <4> QED BY <3>1, <4>2
    <3> QED BY <1>a, <1>m, <2>1, <3>2, <3>3
  <2> SUFFICES ASSUME NEW k \in 1..Len(slices), (pc' = "forward" /\ k < cursor') \/ pc' = "apply"
               PROVE  slices[k].start + slices[k].len <= written'[slices[k].seq]
    BY <1>g DEF Computed
  <2>2. k <= cursor BY <1>a, <1>g, <1>m
  <2> QED BY <2>1, <2>2
<1>11. SampleHead' BY <1>g DEF SampleHead
<1> QED BY <1>1, <1>2, <1>3, <1>4, <1>5, <1>6, <1>7, <1>8, <1>9, <1>10, <1>11

\* The first slice that is left.
LEMMA HeadSlice ==
    ASSUME SchedTypeOK, slices # <<>>
    PROVE  /\ 1 \in 1..Len(slices) /\ Head(slices) = slices[1] /\ slices[1] \in Slices
           /\ Head(slices).seq \in Seqs /\ Head(slices).start \in Nat /\ Head(slices).len \in Nat
<1>1. slices \in Seq(Slices) BY DEF SchedTypeOK
<1>2. 1 \in 1..Len(slices) /\ Head(slices) = slices[1] BY <1>1
<1> QED BY <1>2, SliceTypes

\* Recording what was computed keeps the invariant.
LEMMA ApplyKeeps == ASSUME SchedInv, TypeInv', Apply PROVE SchedInv'
<1> USE DEF SchedInv, SchedTypeInv
<1>a. pc = "apply" /\ slices # <<>> /\ pc' = "sample"
  BY DEF Apply, StepShape
<1>b. PICK sl \in Slices : /\ sl = slices[1] /\ sl = Head(slices) /\ 1 \in 1..Len(slices)
                           /\ sl.seq \in Seqs /\ sl.start \in Nat /\ sl.len \in Nat
  BY <1>a, HeadSlice
<1>c. PICK s \in Seqs : s = sl.seq BY <1>b
<1>d. /\ num_computed' = [num_computed EXCEPT ![s] = @ + sl.len]
      /\ UNCHANGED <<waiting, running, batch_open, status, finish, limit, wait_steps, first_scheduled,
                     terminals, budget, mid_prefill, decode, cursor, slices, done>>
  BY <1>b, <1>c DEF Apply, queueVars
<1>e. call = Idle /\ call.op = "idle" BY <1>a, ManagerIdle DEF Idle
<1>f. UNCHANGED <<blocks, tokens, written>> /\ call'.op \in {"idle", "commit"}
  <2>1. CASE UNCHANGED kvVars BY <1>e, <2>1 DEF kvVars, tables
  <2>2. ASSUME NEW n, commit_computed(sl.seq, n) PROVE UNCHANGED <<blocks, tokens, written>> /\ call'.op = "commit"
    BY <2>2 DEF commit_computed, tables
  <2> QED BY <1>b, <2>1, <2>2 DEF Apply
<1>g. /\ num_computed'[s] = num_computed[s] + sl.len /\ num_computed[s] \in Nat
      /\ \A r \in Seqs : r # s => num_computed'[r] = num_computed[r]
  BY <1>d DEF SchedTypeOK
<1>h. /\ s \in Members(running) /\ ~is_finished(s) /\ sl.start = num_computed[s]
      /\ sl.start + sl.len <= num_tokens(s) /\ sl.len > 0
      /\ sl.needs_logits <=> sl.start + sl.len = num_tokens(s)
      /\ sl.start + sl.len <= written[s]
  BY <1>a, <1>b, <1>c DEF StepSlices, SliceValid, Computed
<1>i. /\ Members(waiting)' = Members(waiting) /\ Members(running)' = Members(running)
      /\ Members(done)' = Members(done)
      /\ Distinct(waiting)' /\ Distinct(running)' /\ Distinct(done)'
  BY <1>d DEF Members, Distinct, Queues
<1>j. Members(running) \subseteq Seqs BY MembersType DEF SchedTypeOK
<1>k. \A q : ~Allocating(q) /\ ~Allocating(q)' BY <1>e, <1>f DEF Allocating
<1>l. \A q \in Seqs : /\ written[q] \in Nat /\ Len(blocks[q]) \in Nat /\ num_tokens(q) \in Nat
                      /\ Len(blocks[q]) * BlockSize \in Nat
  BY SeqTypes
<1>m. Applied(s)' /\ \A q : ~Applied(q) BY <1>a, <1>b, <1>c, <1>d DEF Applied
<1>1. SchedTypeOK'
  <2>1. PICK n \in Nat : n = num_computed[s] + sl.len BY <1>b, <1>g
  <2>2. num_computed' = [num_computed EXCEPT ![s] = n] BY <1>d, <2>1
  <2>3. num_computed' \in [Seqs -> Nat] BY <2>2 DEF SchedTypeOK
  <2> QED BY <1>a, <1>d, <2>3 DEF SchedTypeOK, Places
<1>2. TextBounds' BY <1>f, <1>i DEF TextBounds
<1>3. Queues' BY <1>d, <1>i DEF Queues
<1>4. Holders' BY <1>e, <1>f, <1>i DEF Holders
<1>5. CallPlace' BY <1>a, <1>f DEF CallPlace
<1>6. StepShape' BY <1>a, <1>d DEF StepShape
<1>7. Residents'
  <2>1. \A r \in Members(running)' : ~Applied(r)' => r \in Seqs /\ r # s BY <1>i, <1>j, <1>m
  <2> QED BY <1>1, <1>d, <1>f, <1>g, <1>i, <1>k, <1>l, <1>m, <2>1, ResidentsKept DEF is_finished
<1>8. Candidates'
  <2>1. mid_prefill = <<>> /\ decode = <<>> BY <1>a DEF StepShape
  <2>2. /\ Members(mid_prefill)' = {} /\ Distinct(mid_prefill)'
        /\ Members(decode)' = {} /\ Distinct(decode)' /\ Len(decode') = 0
    BY <1>d, <2>1 DEF Members, Distinct
  <2> QED BY <1>a, <2>2 DEF Candidates
<1>9. StepSlices'
  <2>1. ASSUME NEW k \in 1..Len(slices), k # 1 PROVE SliceValid(slices[k])'
    <3>1. PICK x \in Slices : x = slices[k] /\ x.seq \in Seqs BY SliceTypes
    <3>2. SliceValid(x) BY <1>a, <3>1 DEF StepSlices
    <3>3. x.seq # s BY <1>b, <1>c, <2>1, <3>1 DEF StepSlices
    <3>4. /\ x.seq \in Members(running)' /\ ~is_finished(x.seq)'
      BY <1>d, <1>i, <3>2 DEF SliceValid, is_finished
    <3>5. SliceValid(x)' BY <1>f, <1>g, <1>k, <1>l, <3>1, <3>2, <3>3, <3>4, SliceKept
    <3> QED BY <1>d, <3>1, <3>5
  <2> QED BY <1>a, <1>d, <2>1 DEF StepSlices
<1>10. Computed' BY <1>a, <1>d, <1>f DEF Computed
<1>11. SampleHead'
  <2>1. num_tokens(s)' = num_tokens(s) /\ is_finished(s)' = is_finished(s)
    BY <1>d, <1>f DEF num_tokens, is_finished
  <2>2. ~sl.needs_logits => num_tokens(s) <= Len(blocks[s]) * BlockSize
    <3>1. num_tokens(s) <= Len(blocks[s]) * BlockSize \/ num_tokens(s) = num_computed[s] + 1
      BY <1>h, <1>k, <1>m DEF Residents
    <3> QED BY <1>b, <1>g, <1>h, <1>l, <3>1
  <2>3. /\ num_computed'[s] <= written'[s] /\ num_computed'[s] <= num_tokens(s)'
        /\ sl.needs_logits <=> num_computed'[s] = num_tokens(s)'
    BY <1>f, <1>g, <1>h, <2>1
  <2>4. Head(slices)' = sl /\ s \in Members(running)' /\ ~is_finished(s)' /\ blocks' = blocks
    BY <1>b, <1>d, <1>f, <1>h, <1>i, <2>1
  <2> QED BY <1>c, <2>1, <2>2, <2>3, <2>4 DEF SampleHead
<1> QED BY <1>1, <1>2, <1>3, <1>4, <1>5, <1>6, <1>7, <1>8, <1>9, <1>10, <1>11

\* Going on to the next slice keeps what the invariant says of the slices.
LEMMA NextSliceKeeps ==
    ASSUME SchedInv, TypeInv', pc = "sample", NextSlice,
           NEW s \in Seqs, s = Head(slices).seq,
           UNCHANGED <<blocks, written, call, num_computed, mid_prefill, decode>>, call = Idle,
           \A r \in Seqs : r # s => tokens'[r] = tokens[r] /\ status'[r] = status[r],
           Members(running) \ {s} \subseteq Members(running)'
    PROVE  /\ slices' \in Seq(Slices) /\ pc' \in {"apply", "retire"}
           /\ pc' = "retire" <=> slices' = <<>>
           /\ (StepSlices /\ Computed /\ SampleHead /\ Candidates)'
<1> USE DEF SchedInv, SchedTypeInv
<1>a. slices # <<>> /\ slices \in Seq(Slices) BY DEF StepShape, SchedTypeOK
<1>b. /\ slices' = Tail(slices) /\ Len(slices') = Len(slices) - 1 /\ slices' \in Seq(Slices)
      /\ \A k \in 1..Len(slices') : slices'[k] = slices[k + 1]
      /\ Len(slices) \in Nat \ {0} /\ Len(slices') \in Nat /\ Head(slices) = slices[1]
  BY <1>a DEF NextSlice
<1>c. pc' \in {"apply", "retire"} /\ (pc' = "retire" <=> slices' = <<>>)
  <2>1. pc' = IF Len(slices) = 1 THEN "retire" ELSE "apply" BY DEF NextSlice
  <2>2. \A q \in Seq(Slices) : q = <<>> <=> Len(q) = 0 OBVIOUS
  <2> QED BY <1>b, <2>1, <2>2
<1>d. \A q : ~Allocating(q) /\ ~Allocating(q)' BY DEF Allocating, Idle
<1>e. ASSUME NEW k \in 1..Len(slices')
      PROVE  /\ k + 1 \in 1..Len(slices) /\ slices'[k] = slices[k + 1]
             /\ SliceValid(slices[k])'
             /\ slices'[k].start + slices'[k].len <= written'[slices'[k].seq]
  <2>1. PICK m \in 1..Len(slices) : m = k + 1 /\ m # 1 /\ slices'[k] = slices[m] BY <1>b
  <2>2. PICK x \in Slices : x = slices[m] /\ x.seq \in Seqs BY SliceTypes
  <2>3. SliceValid(x) /\ x.start + x.len <= written[x.seq]
    BY <2>1, <2>2 DEF StepSlices, Computed
  <2>4. x.seq # s
    <3>1. 1 \in 1..Len(slices) /\ s = slices[1].seq BY <1>b
    <3> QED BY <2>1, <2>2, <3>1 DEF StepSlices
  <2>5. x.seq \in Members(running)' /\ ~is_finished(x.seq)'
    BY <2>2, <2>3, <2>4 DEF SliceValid, is_finished
  <2>6. Len(blocks'[x.seq]) >= Len(blocks[x.seq]) BY <2>2, SeqTypes
  <2>7. SliceValid(x)' BY <1>d, <2>2, <2>3, <2>4, <2>5, <2>6, SliceKept
  <2> QED BY <2>1, <2>2, <2>3, <2>7
<1>1. StepSlices'
  <2>1. ASSUME NEW j \in 1..Len(slices'), NEW k \in 1..Len(slices'), slices'[j].seq = slices'[k].seq
        PROVE  j = k
    <3>1. slices[j + 1].seq = slices[k + 1].seq /\ j + 1 \in 1..Len(slices) /\ k + 1 \in 1..Len(slices)
      BY <1>e, <2>1
    <3>2. j + 1 = k + 1 BY <3>1 DEF StepSlices
    <3> QED BY <3>2
  <2> QED BY <1>e, <2>1 DEF StepSlices
<1>2. Computed' BY <1>e DEF Computed
<1>3. SampleHead' BY <1>c DEF SampleHead
<1>4. Candidates'
  <2>1. mid_prefill = <<>> /\ decode = <<>> BY DEF StepShape
  <2>2. /\ Members(mid_prefill)' = {} /\ Distinct(mid_prefill)'
        /\ Members(decode)' = {} /\ Distinct(decode)' /\ Len(decode') = 0
    BY <2>1 DEF Members, Distinct
  <2> QED BY <1>c, <2>2 DEF Candidates
<1> QED BY <1>b, <1>c, <1>1, <1>2, <1>3, <1>4

\* A slice without logits has nothing to sample: the invariant is kept.
LEMMA SkipSampleKeeps == ASSUME SchedInv, TypeInv', SkipSample PROVE SchedInv'
<1> USE DEF SchedInv, SchedTypeInv
<1>a. /\ pc = "sample" /\ call = Idle /\ ~Head(slices).needs_logits /\ NextSlice
      /\ UNCHANGED <<kvVars, waiting, running, batch_open, requestVars, budget, mid_prefill, decode,
                     cursor, done>>
  BY DEF SkipSample, queueVars
<1>b. PICK s \in Seqs : s = Head(slices).seq
  <2>1. slices # <<>> BY <1>a DEF StepShape
  <2> QED BY <2>1, HeadSlice
<1>c. /\ (TextBounds /\ Queues /\ Holders)'
      /\ Members(running)' = Members(running) /\ Members(done)' = Members(done)
      /\ UNCHANGED <<tokens, blocks, written, call, status, finish, num_computed, limit, wait_steps,
                     first_scheduled, terminals>>
  BY <1>a, QueuesUntouched
<1>d. /\ slices' \in Seq(Slices) /\ pc' \in {"apply", "retire"}
      /\ pc' = "retire" <=> slices' = <<>>
      /\ (StepSlices /\ Computed /\ SampleHead /\ Candidates)'
  <2>1. Members(running) \ {s} \subseteq Members(running)' BY <1>c
  <2>2. UNCHANGED <<blocks, written, call, num_computed, mid_prefill, decode>> BY <1>a, <1>c
  <2> QED BY <1>a, <1>b, <1>c, <2>1, <2>2, NextSliceKeeps
<1>e. call.op = "idle" /\ call'.op = "idle" BY <1>a, <1>c DEF Idle
<1>1. SchedTypeOK' BY <1>a, <1>c, <1>d DEF SchedTypeOK, Places
<1>2. CallPlace' BY <1>e DEF CallPlace
<1>3. StepShape' BY <1>a, <1>d DEF StepShape
<1>4. Residents'
  <2>1. ASSUME NEW r \in Members(running), ~is_finished(r)
        PROVE  /\ num_computed[r] < num_tokens(r) /\ num_computed[r] <= written[r]
               /\ \/ num_tokens(r) <= Len(blocks[r]) * BlockSize
                  \/ num_tokens(r) = num_computed[r] + 1
    <3>1. CASE r # s BY <1>b, <1>e, <2>1, <3>1 DEF Residents, Applied, Allocating
    <3>2. CASE r = s
      <4>1. /\ num_computed[s] <= written[s] /\ num_computed[s] <= num_tokens(s)
            /\ num_computed[s] # num_tokens(s)
            /\ num_tokens(s) <= Len(blocks[s]) * BlockSize
        BY <1>a, <1>b DEF SampleHead
      <4>2. num_computed[s] \in Nat /\ num_tokens(s) \in Nat BY SeqTypes
      <4> QED BY <3>2, <4>1, <4>2
    <3> QED BY <3>1, <3>2
  <2> QED BY <1>c, <1>e, <2>1 DEF Residents, Allocating, is_finished, num_tokens
<1> QED BY <1>c, <1>d, <1>1, <1>2, <1>3, <1>4


\* Sampling a token keeps the invariant, whether it ends the sequence or not.
LEMMA SampleKeeps ==
    ASSUME SchedInv, TypeInv', NEW tok \in Token, Sample(tok) PROVE SchedInv'
<1> USE DEF SchedInv, SchedTypeInv
<1>a. pc = "sample" /\ call = Idle /\ Head(slices).needs_logits /\ NextSlice BY DEF Sample
<1>b. PICK s \in Seqs : s = Head(slices).seq
  <2>1. slices # <<>> BY <1>a DEF StepShape
  <2> QED BY <2>1, HeadSlice
<1>c. PICK r : /\ r = FinishReason(s, tok, num_tokens(s) + 1) /\ r \in {"none", "stop", "length"}
  BY DEF FinishReason
<1>d. /\ AppendToken(s, tok)
      /\ \/ /\ r = "none"
            /\ UNCHANGED <<running, status, finish, terminals, done>>
         \/ /\ r # "none" /\ Continuous
            /\ finish' = [finish EXCEPT ![s] = r]
            /\ done' = Append(done, s)
            /\ running' = Without(running, s)
            /\ UNCHANGED <<status, terminals>>
         \/ /\ r # "none" /\ ~Continuous
            /\ retire({s}, r)
            /\ UNCHANGED <<running, done>>
      /\ UNCHANGED <<waiting, batch_open, num_computed, limit, wait_steps, first_scheduled,
                     budget, mid_prefill, decode, cursor>>
  BY <1>b, <1>c DEF Sample
<1>e. /\ tokens' = [tokens EXCEPT ![s] = Append(@, tok)] /\ Len(tokens[s]) < MaxTokens
      /\ UNCHANGED <<blocks, written, call>>
  BY <1>d DEF AppendToken, tables
<1>f. /\ Len(tokens'[s]) = Len(tokens[s]) + 1
      /\ \A q \in Seqs : q # s => tokens'[q] = tokens[q]
      /\ \A q \in Seqs : Len(tokens[q]) \in Nat
  BY <1>e DEF TypeInv, TypeOK
<1>g. /\ s \in Members(running) /\ ~is_finished(s)
      /\ num_computed[s] <= written[s] /\ num_computed[s] = num_tokens(s)
  BY <1>a, <1>b DEF SampleHead
<1>h. s \notin Members(waiting) /\ s \notin Members(done) /\ status[s] = "running"
  BY <1>g DEF Queues, is_finished
<1>i. Members(waiting)' = Members(waiting) /\ Distinct(waiting)'
  BY <1>d DEF Members, Distinct, Queues
<1>j. /\ Members(running) \subseteq Seqs /\ Members(done) \subseteq Seqs /\ Members(waiting) \subseteq Seqs
  BY MembersType DEF SchedTypeOK
\* Where the sequence is afterwards.
<1>k. /\ status' \in [Seqs -> {"new", "waiting", "running", "finished"}]
      /\ finish' \in [Seqs -> {"none", "stop", "length", "abort", "timeout"}]
      /\ terminals' \in [Seqs -> Nat]
      /\ running' \in Seq(Seqs) /\ done' \in Seq(Seqs)
      /\ Distinct(running)' /\ Distinct(done)'
      /\ \A q \in Seqs : q # s => status'[q] = status[q]
      /\ \/ /\ Members(running)' = Members(running) /\ Members(done)' = Members(done)
            /\ status'[s] = "running"
         \/ /\ Members(running)' = Members(running) \ {s} /\ Members(done)' = Members(done) \union {s}
            /\ status'[s] = "running" /\ Continuous
         \/ /\ Members(running)' = Members(running) /\ Members(done)' = Members(done)
            /\ status'[s] = "finished" /\ ~Continuous
  <2>1. CASE r = "none"
    <3>1. UNCHANGED <<running, status, finish, terminals, done>> BY <1>d, <2>1
    <3>2. /\ Members(running)' = Members(running) /\ Members(done)' = Members(done)
          /\ Distinct(running)' /\ Distinct(done)'
      BY <3>1 DEF Members, Distinct, Queues
    <3> QED BY <1>h, <3>1, <3>2 DEF SchedTypeOK
  <2>2. CASE r # "none" /\ Continuous
    <3>1. /\ finish' = [finish EXCEPT ![s] = r] /\ done' = Append(done, s)
          /\ running' = Without(running, s) /\ UNCHANGED <<status, terminals>>
      BY <1>d, <2>2
    <3>2. done \in Seq(Seqs) /\ running \in Seq(Seqs) /\ Distinct(done) /\ Distinct(running)
      BY DEF SchedTypeOK, Queues
    <3>3. /\ Append(done, s) \in Seq(Seqs) /\ Members(Append(done, s)) = Members(done) \union {s}
          /\ Distinct(Append(done, s))
      BY <1>h, <3>2, AppendQueue
    <3>4. /\ Without(running, s) \in Seq(Seqs) /\ Members(Without(running, s)) = Members(running) \ {s}
          /\ Distinct(Without(running, s))
      BY <3>2, WithoutQueue
    <3>5. /\ Members(running)' = Members(running) \ {s} /\ Members(done)' = Members(done) \union {s}
          /\ Distinct(running)' /\ Distinct(done)'
      BY <3>1, <3>3, <3>4, ZenonT(30) DEF Members, Distinct
    <3>6. finish' \in [Seqs -> {"none", "stop", "length", "abort", "timeout"}]
      BY <1>c, <3>1 DEF SchedTypeOK
    <3> QED BY <1>h, <2>2, <3>1, <3>3, <3>4, <3>5, <3>6 DEF SchedTypeOK
  <2>3. CASE r # "none" /\ ~Continuous
    <3>1. retire({s}, r) /\ UNCHANGED <<running, done>> BY <1>d, <2>3
    <3>2. /\ Members(running)' = Members(running) /\ Members(done)' = Members(done)
          /\ Distinct(running)' /\ Distinct(done)'
      BY <3>1 DEF Members, Distinct, Queues
    <3>3. /\ status' \in [Seqs -> {"new", "waiting", "running", "finished"}]
          /\ finish' \in [Seqs -> {"none", "stop", "length", "abort", "timeout"}]
          /\ terminals' \in [Seqs -> Nat]
          /\ \A q \in Seqs : status'[q] = IF q \in {s} THEN "finished" ELSE status[q]
      BY <1>c, <3>1, RetireFrame
    <3> QED BY <2>3, <3>1, <3>2, <3>3 DEF SchedTypeOK
  <2> QED BY <2>1, <2>2, <2>3
<1>l. /\ slices' \in Seq(Slices) /\ pc' \in {"apply", "retire"}
      /\ pc' = "retire" <=> slices' = <<>>
      /\ (StepSlices /\ Computed /\ SampleHead /\ Candidates)'
  <2>1. Members(running) \ {s} \subseteq Members(running)' BY <1>k
  <2>2. UNCHANGED <<blocks, written, call, num_computed, mid_prefill, decode>> BY <1>d, <1>e
  <2>3. \A q \in Seqs : q # s => tokens'[q] = tokens[q] /\ status'[q] = status[q] BY <1>f, <1>k
  <2> QED BY <1>a, <1>b, <2>1, <2>2, <2>3, NextSliceKeeps
<1>m. call.op = "idle" /\ call'.op = "idle" BY <1>a, <1>e DEF Idle
<1>1. SchedTypeOK' BY <1>d, <1>k, <1>l DEF SchedTypeOK, Places
<1>2. TextBounds'
  <2>1. \A q \in Seqs : Len(tokens[q]) <= MaxTokens BY DEF TextBounds
  <2>2. \A q \in Seqs : Len(tokens'[q]) <= MaxTokens BY <1>e, <1>f, <2>1, KVAssumption
  <2>3. ASSUME NEW q \in Members(waiting)' \union Members(running)' PROVE Len(tokens'[q]) > 0
    <3>1. q \in Members(waiting) \union Members(running) /\ q \in Seqs BY <1>g, <1>i, <1>j, <1>k
    <3>2. Len(tokens[q]) > 0 BY <3>1 DEF TextBounds
    <3> QED BY <1>f, <3>1, <3>2
  <2> QED BY <2>2, <2>3 DEF TextBounds
<1>3. Queues'
  <2>1. ASSUME NEW q \in Members(done)' PROVE Continuous /\ status'[q] = "running"
    <3>1. CASE q = s BY <1>h, <1>k, <3>1
    <3>2. CASE q # s
      <4>1. q \in Members(done) /\ q \in Seqs BY <1>j, <1>k, <3>2
      <4>2. Continuous /\ status[q] = "running" BY <4>1 DEF Queues
      <4> QED BY <1>k, <3>2, <4>1, <4>2
    <3> QED BY <3>1, <3>2
  <2>2. ASSUME NEW q \in Members(running)'
        PROVE  status'[q] = "running" \/ (status'[q] = "finished" /\ ~Continuous)
    <3>1. CASE q = s BY <1>k, <3>1
    <3>2. CASE q # s
      <4>1. q \in Members(running) /\ q \in Seqs BY <1>g, <1>j, <1>k
      <4>2. status[q] = "running" \/ (status[q] = "finished" /\ ~Continuous) BY <4>1 DEF Queues
      <4> QED BY <1>k, <3>2, <4>1, <4>2
    <3> QED BY <3>1, <3>2
  <2>3. \A q \in Seqs : q \in Members(waiting)' <=> status'[q] = "waiting"
    BY <1>h, <1>i, <1>k DEF Queues
  <2>4. \A q \in Seqs : status'[q] = "running" => q \in Members(running)' \union Members(done)'
    BY <1>g, <1>k DEF Queues
  <2>5. Members(running)' \intersect Members(done)' = {} BY <1>k DEF Queues
  <2> QED BY <1>i, <1>k, <2>1, <2>2, <2>3, <2>4, <2>5 DEF Queues
<1>4. Holders'
  <2>1. \A q \in Seqs : blocks[q] # <<>> => q \in Members(running) \union Members(done)
    BY <1>m DEF Holders
  <2>2. Members(running) \union Members(done) = Members(running)' \union Members(done)'
    BY <1>g, <1>k
  <2> QED BY <1>e, <2>1, <2>2 DEF Holders
<1>5. CallPlace' BY <1>m DEF CallPlace
<1>6. StepShape' BY <1>a, <1>d, <1>l DEF StepShape
<1>7. Residents'
  <2>1. ASSUME NEW q \in Members(running)', ~is_finished(q)'
        PROVE  /\ num_computed'[q] < Len(tokens'[q]) /\ num_computed'[q] <= written'[q]
               /\ \/ Len(tokens'[q]) <= Len(blocks'[q]) * BlockSize
                  \/ Len(tokens'[q]) = num_computed'[q] + 1
    <3>1. q \in Members(running) /\ q \in Seqs BY <1>g, <1>j, <1>k
    <3>2. CASE q # s
      <4>1. ~is_finished(q) BY <1>k, <2>1, <3>1, <3>2 DEF is_finished
      <4>2. /\ num_computed[q] < num_tokens(q) /\ num_computed[q] <= written[q]
            /\ \/ num_tokens(q) <= Len(blocks[q]) * BlockSize
               \/ num_tokens(q) = num_computed[q] + 1
        BY <1>b, <1>m, <3>1, <3>2, <4>1 DEF Residents, Applied, Allocating
      <4> QED BY <1>d, <1>e, <1>f, <3>1, <3>2, <4>2 DEF num_tokens
    <3>3. CASE q = s
      <4>1. num_computed[s] \in Nat BY SeqTypes
      <4> QED BY <1>d, <1>e, <1>f, <1>g, <3>3, <4>1 DEF num_tokens
    <3> QED BY <3>2, <3>3
  <2>2. \A q : ~Allocating(q)' BY <1>m DEF Allocating
  <2> QED BY <2>1, <2>2 DEF Residents, num_tokens
<1> QED BY <1>1, <1>2, <1>3, <1>4, <1>5, <1>6, <1>7, <1>l


-----------------------------------------------------------------------------
(* The invariant holds.                                                    *)

\* Every step of the scheduler keeps its invariant.
LEMMA NextSched == ASSUME SchedInv, [Next]_vars PROVE SchedInv'
<1>1. TypeInv'
  <2>1. TypeInv BY DEF SchedInv, SchedTypeInv
  <2> QED BY <2>1, CacheStep, NextTypeInv
<1>2. CASE UNCHANGED vars
  <2>1. UNCHANGED <<waiting, running, batch_open, status, finish, num_computed, limit, wait_steps,
                    first_scheduled, terminals, pc, budget, mid_prefill, decode, cursor, slices, done>>
    BY <1>2 DEF vars, schedVars, queueVars, requestVars, stepVars
  <2>2. UNCHANGED <<blocks, tokens, written, call>> BY <1>2 DEF vars, kvVars, tables
  <2>3. /\ Members(waiting)' = Members(waiting) /\ Members(running)' = Members(running)
        /\ Members(done)' = Members(done) /\ Members(decode)' = Members(decode)
        /\ Members(mid_prefill)' = Members(mid_prefill) /\ Sliced' = Sliced
    BY <2>1 DEF Members, Sliced
  <2>4. \A s : /\ is_finished(s)' = is_finished(s) /\ num_tokens(s)' = num_tokens(s)
              /\ Allocating(s)' = Allocating(s) /\ Applied(s)' = Applied(s)
              /\ EnsureSlotHolds(s)' = EnsureSlotHolds(s)
    BY <2>1, <2>2 DEF is_finished, num_tokens, Allocating, Applied, EnsureSlotHolds
  <2>5. (SchedTypeOK /\ TextBounds /\ Holders /\ CallPlace /\ StepShape)'
    BY <2>1, <2>2, <2>3, <2>4
       DEF SchedInv, SchedTypeInv, SchedTypeOK, TextBounds, Holders, CallPlace, StepShape
  <2>6. Queues' BY <2>1, <2>3 DEF SchedInv, Queues, Distinct
  <2>7. Candidates' BY <2>1, <2>3, <2>4 DEF SchedInv, Candidates, Distinct, DecodeOrder
  <2>8. Residents' BY <2>1, <2>2, <2>3, <2>4 DEF SchedInv, Residents
  <2>9. StepSlices' BY <2>1, <2>2, <2>3, <2>4 DEF SchedInv, StepSlices, SliceValid
  <2>10. (Computed /\ SampleHead)' BY <2>1, <2>2, <2>3, <2>4 DEF SchedInv, Computed, SampleHead
  <2> QED BY <1>1, <2>5, <2>6, <2>7, <2>8, <2>9, <2>10 DEF SchedInv, SchedTypeInv
<1>3. CASE ManagerStep \/ BeginSchedule BY <1>1, <1>3, ManagerKeeps, BeginKeeps
<1>4. CASE WithinStep
  <2>1. CASE Place \/ EvictFinished \/ Preempt \/ PlaceDone \/ ChunkPrefill \/ TruncateDecode
    BY <1>1, <2>1, PlaceKeeps, EvictFinishedKeeps, PreemptKeeps, PlaceDoneKeeps, ChunkKeeps,
       TruncateKeeps
  <2>2. CASE \E late \in SUBSET Seqs : ExpireQueue(late) BY <1>1, <2>2, ExpireKeeps
  <2>3. CASE Admit \/ SkipWaiting \/ AdmitDone \/ FinishSchedule
    BY <1>1, <2>3, AdmitKeeps, SkipKeeps, FinishKeeps
  <2>4. CASE Forward \/ Apply \/ SkipSample BY <1>1, <2>4, ForwardKeeps, ApplyKeeps, SkipSampleKeeps
  <2>5. CASE \E tok \in Token : Sample(tok) BY <1>1, <2>5, SampleKeeps
  <2>6. CASE RetireDone \/ EndStep \/ DrainBatch
    BY <1>1, <2>6, RetireDoneKeeps, EndStepKeeps, DrainKeeps
  <2> QED BY <1>4, <2>1, <2>2, <2>3, <2>4, <2>5, <2>6 DEF WithinStep
<1>5. CASE ClientStep
  <2>1. Aborts \subseteq Seqs BY SchedulerAssumption
  <2> QED BY <1>1, <1>5, <2>1, AddKeeps, AbortWaitingKeeps, AbortRunningKeeps DEF ClientStep
<1> QED BY <1>2, <1>3, <1>4, <1>5 DEF Next, EngineStep

\* It holds from the start.
LEMMA SchedSafe == Spec => []SchedInv
<1>1. SchedInv /\ [Next]_vars => SchedInv' BY NextSched
<1> QED BY <1>1, InitSched, PTL DEF Spec

\* The scheduler is a client of the cache that keeps the manager's contract: every step of
\* the composed program is a step the cache's specification allows, or none of it.  What
\* is proved of the cache by itself thus holds of the cache under the scheduler.
THEOREM SchedulerDrivesCache == Spec => KVSpec
<1>1. Init => KVInit BY DEF Init
<1>2. SchedInv /\ [Next]_vars => [KVNext]_kvVars BY CacheStep
<1> QED BY <1>1, <1>2, SchedSafe, PTL DEF Spec, KVSpec

\* Every variable of the scheduler keeps its type, through every interleaving of its loops
\* with the manager's.
THEOREM SchedulerTypeCorrect == Spec => []SchedTypeOK
<1>1. SchedInv => SchedTypeOK BY DEF SchedInv, SchedTypeInv
<1> QED BY <1>1, SchedSafe, PTL

\* add, abort, preemption, admission, expiry and the end of a batch move a request between
\* waiting_, running_ and the list of finished ones without losing or repeating it.
THEOREM RequestsNeverLost == Spec => []NoLostRequest
<1>1. SchedInv => NoLostRequest
  <2> SUFFICES ASSUME SchedInv PROVE NoLostRequest OBVIOUS
  <2> USE DEF SchedInv, SchedTypeInv
  <2>1. waiting \in Seq(Seqs) /\ running \in Seq(Seqs) /\ done \in Seq(Seqs) BY DEF SchedTypeOK
  <2>2. /\ Distinct(waiting) /\ Distinct(running) /\ Distinct(done)
        /\ Members(running) \intersect Members(done) = {}
        /\ Members(waiting) \intersect (Members(running) \union Members(done)) = {}
    <3>1. Members(waiting) \subseteq Seqs BY <2>1, MembersType
    <3> QED BY <3>1 DEF Queues
  <2>3. Distinct(waiting \o running \o done)
    <3>1. waiting \o running \in Seq(Seqs) /\ Distinct(waiting \o running)
          /\ Members(waiting \o running) = Members(waiting) \union Members(running)
      BY <2>1, <2>2, JoinQueues
    <3> QED BY <2>1, <2>2, <3>1, JoinQueues
  <2>4. ASSUME NEW s \in Seqs
        PROVE  /\ s \in Members(waiting) <=> status[s] = "waiting"
               /\ s \in Members(running) \union Members(done) =>
                     status[s] = "running" \/ (status[s] = "finished" /\ ~Continuous)
               /\ status[s] = "running" => s \in Members(running) \union Members(done)
    BY DEF Queues
  <2>5. ASSUME NEW s \in Seqs, blocks[s] # <<>>
        PROVE  \/ s \in Members(running) \union Members(done)
               \/ call # Idle /\ call.seq = s
    BY <2>5 DEF Holders, Idle
  <2> QED BY <2>3, <2>4, <2>5 DEF NoLostRequest
<1> QED BY <1>1, SchedSafe, PTL

\* No slice of a step is stale: preemption, eviction and admission between building a slice
\* and computing it never touch its sequence.
THEOREM SlicesStayFresh == Spec => []SlicesFresh
<1>1. SchedInv => SlicesFresh
  <2> SUFFICES ASSUME SchedInv, call = Idle PROVE SlicesFresh!2 BY DEF SlicesFresh
  <2> USE DEF SchedInv, SchedTypeInv
  <2>1. \A q : ~Allocating(q) BY DEF Allocating, Idle
  <2>2. ASSUME NEW k \in 1..Len(slices), ~(pc = "sample" /\ k = 1)
        PROVE  LET sl == slices[k]
               IN  /\ sl.seq \in Members(running) /\ ~is_finished(sl.seq)
                   /\ sl.len > 0 /\ Computable(sl.seq, sl.start, sl.len)
                   /\ sl.needs_logits <=> sl.start + sl.len = num_tokens(sl.seq)
    <3>1. PICK sl \in Slices : sl = slices[k] /\ sl.seq \in Seqs BY SliceTypes
    <3>2. SliceValid(sl) BY <2>2, <3>1 DEF StepSlices
    <3>3. ~Applied(sl.seq)
      <4>1. ASSUME pc = "sample" PROVE sl.seq # Head(slices).seq
        <5>1. slices # <<>> BY <4>1 DEF StepShape
        <5>2. 1 \in 1..Len(slices) /\ Head(slices) = slices[1] BY <5>1, HeadSlice
        <5> QED BY <2>2, <3>1, <4>1, <5>2 DEF StepSlices
      <4> QED BY <4>1 DEF Applied
    <3>4. sl.start <= written[sl.seq] BY <2>1, <3>2, <3>3 DEF SliceValid, Residents
    <3>5. Computable(sl.seq, sl.start, sl.len) BY <2>1, <3>2, <3>4 DEF SliceValid, Computable
    <3> QED BY <3>1, <3>2, <3>5 DEF SliceValid
  <2> QED BY <2>2 DEF StepSlices
<1> QED BY <1>1, SchedSafe, PTL

\* evict_for_memory never takes back the slot of a sequence placed earlier in the same step:
\* victims come from the end of running_, in whose order the sequences are placed.
THEOREM PlacedAreNotEvicted == Spec => []PlacedKeepSlots
<1>1. SchedInv => PlacedKeepSlots
  <2> SUFFICES ASSUME SchedInv PROVE PlacedKeepSlots OBVIOUS
  <2>1. \A k \in 1..Len(decode) : decode[k] \in Members(decode) BY DEF Members
  <2> QED BY <2>1 DEF SchedInv, Candidates, PlacedKeepSlots
<1> QED BY <1>1, SchedSafe, PTL

-----------------------------------------------------------------------------
(* The size of a step.                                                     *)

\* What is left of the budget is what the slices and the decode candidates leave.
BudgetInv ==
    /\ Len(running) <= MaxNumSeqs
    /\ pc \in {"place", "chunk", "expire", "admit", "build", "forward"} =>
          IsFiniteSet(BatchTokens(slices))
    /\ pc \in {"place", "chunk"} => Cardinality(BatchTokens(slices)) + budget = MaxBatchedTokens
    /\ pc \in {"expire", "admit", "build"} =>
          Cardinality(BatchTokens(slices)) + budget + Len(decode) = MaxBatchedTokens
    /\ pc = "forward" => Cardinality(BatchTokens(slices)) <= MaxBatchedTokens

\* A step without slices has no tokens.
LEMMA EmptyBatch == BatchTokens(<<>>) = {}
BY DEF BatchTokens

\* An interval has as many elements as it is long.
LEMMA IntervalSize == \A n \in Nat : IsFiniteSet(1..n) /\ Cardinality(1..n) = n
<1> TAKE n \in Nat
<1>1. 1 \in Int /\ n \in Int OBVIOUS
<1>2. IsFiniteSet(1..n) /\ Cardinality(1..n) = IF 1 > n THEN 0 ELSE n - 1 + 1
  BY <1>1, FS_Interval, Zenon
<1> QED BY <1>2

\* A slice adds its length.
LEMMA AddSlice ==
    ASSUME NEW q \in Seq(Slices), NEW sl \in Slices, IsFiniteSet(BatchTokens(q))
    PROVE  /\ IsFiniteSet(BatchTokens(Append(q, sl)))
           /\ Cardinality(BatchTokens(Append(q, sl))) = Cardinality(BatchTokens(q)) + sl.len
<1> DEFINE n == Len(q) + 1
           new == {n} \X (1..sl.len)
<1>1. /\ Len(Append(q, sl)) = n /\ Append(q, sl)[n] = sl /\ Len(q) \in Nat /\ sl.len \in Nat
      /\ \A k \in 1..Len(q) : Append(q, sl)[k] = q[k]
  BY DEF Slices
<1>2. 1..n = 1..Len(q) \union {n} BY <1>1
<1>3. BatchTokens(Append(q, sl)) = BatchTokens(q) \union new
  <2>1. ASSUME NEW x \in BatchTokens(Append(q, sl)) PROVE x \in BatchTokens(q) \union new
    <3>1. PICK k \in 1..n : x \in {k} \X (1..Append(q, sl)[k].len) BY <1>1 DEF BatchTokens
    <3>2. CASE k \in 1..Len(q)
      <4>1. x \in {k} \X (1..q[k].len) BY <1>1, <3>1, <3>2
      <4> QED BY <3>2, <4>1 DEF BatchTokens
    <3>3. CASE k = n BY <1>1, <3>1, <3>3
    <3> QED BY <1>2, <3>2, <3>3
  <2>2. ASSUME NEW x \in BatchTokens(q) PROVE x \in BatchTokens(Append(q, sl))
    <3>1. PICK k \in 1..Len(q) : x \in {k} \X (1..q[k].len) BY DEF BatchTokens
    <3>2. x \in {k} \X (1..Append(q, sl)[k].len) /\ k \in 1..n BY <1>1, <1>2, <3>1
    <3> QED BY <1>1, <3>2 DEF BatchTokens
  <2>3. new \subseteq BatchTokens(Append(q, sl))
    <3>1. n \in 1..Len(Append(q, sl)) BY <1>1
    <3>2. new = {n} \X (1..Append(q, sl)[n].len) BY <1>1
    <3> HIDE DEF new, n
    <3> QED BY <3>1, <3>2 DEF BatchTokens
  <2> QED BY <2>1, <2>2, <2>3
<1>4. IsFiniteSet(new) /\ Cardinality(new) = sl.len
  <2>1. IsFiniteSet({n}) /\ Cardinality({n}) = 1 BY FS_Singleton
  <2>2. IsFiniteSet(1..sl.len) /\ Cardinality(1..sl.len) = sl.len BY <1>1, IntervalSize
  <2>3. IsFiniteSet(new) /\ Cardinality(new) = Cardinality({n}) * Cardinality(1..sl.len)
    BY <2>1, <2>2, FS_Product, Zenon
  <2> QED BY <1>1, <2>1, <2>2, <2>3
<1>5. BatchTokens(q) \intersect new = {}
  <2> SUFFICES ASSUME NEW x \in BatchTokens(q), x \in new PROVE FALSE OBVIOUS
  <2>1. PICK k \in 1..Len(q) : x \in {k} \X (1..q[k].len) BY DEF BatchTokens
  <2>2. x[1] = k /\ x[1] = n BY <2>1
  <2> QED BY <1>1, <2>2
<1> HIDE DEF new
<1>6. Cardinality(BatchTokens(q)) \in Nat BY FS_CardinalityType
<1>7. /\ IsFiniteSet(BatchTokens(q) \union new)
      /\ Cardinality(BatchTokens(q) \union new)
            = Cardinality(BatchTokens(q)) + Cardinality(new) - Cardinality(BatchTokens(q) \intersect new)
  BY <1>4, FS_Union, Zenon
<1>8. Cardinality(BatchTokens(q) \intersect new) = 0 BY <1>5, FS_EmptySet, Zenon
<1> QED BY <1>1, <1>3, <1>4, <1>6, <1>7, <1>8

\* Slices of one token each add their number.
LEMMA AddDecodes ==
    ASSUME NEW q \in Seq(Slices), NEW d \in Seq(Slices), IsFiniteSet(BatchTokens(q)),
           \A k \in 1..Len(d) : d[k].len = 1
    PROVE  /\ IsFiniteSet(BatchTokens(q \o d))
           /\ Cardinality(BatchTokens(q \o d)) = Cardinality(BatchTokens(q)) + Len(d)
<1> DEFINE n == Len(q)
           m == Len(d)
           new == {<<n + k, 1>> : k \in 1..m}
<1>1. /\ Len(q \o d) = n + m /\ n \in Nat /\ m \in Nat
      /\ \A k \in 1..n : (q \o d)[k] = q[k]
      /\ \A k \in 1..m : (q \o d)[n + k] = d[k]
  BY JoinQueues
<1>2. BatchTokens(q \o d) = BatchTokens(q) \union new
  <2>1. ASSUME NEW x \in BatchTokens(q \o d) PROVE x \in BatchTokens(q) \union new
    <3>1. PICK k \in 1..(n + m) : x \in {k} \X (1..(q \o d)[k].len) BY <1>1 DEF BatchTokens
    <3>2. CASE k \in 1..n
      <4>1. x \in {k} \X (1..q[k].len) BY <1>1, <3>1, <3>2
      <4> QED BY <3>2, <4>1 DEF BatchTokens
    <3>3. CASE k \notin 1..n
      <4>1. PICK j \in 1..m : k = n + j
        <5>1. k - n \in 1..m /\ k = n + (k - n) BY <1>1, <3>3
        <5> QED BY <5>1
      <4>2. (q \o d)[k].len = 1 BY <1>1, <4>1
      <4>3. x \in {k} \X {1} BY <3>1, <4>2
      <4>4. x = <<n + j, 1>> BY <4>1, <4>3
      <4> QED BY <4>4
    <3> QED BY <3>2, <3>3
  <2>2. ASSUME NEW x \in BatchTokens(q) PROVE x \in BatchTokens(q \o d)
    <3>1. PICK k \in 1..n : x \in {k} \X (1..q[k].len) BY DEF BatchTokens
    <3>2. x \in {k} \X (1..(q \o d)[k].len) /\ k \in 1..Len(q \o d) BY <1>1, <3>1
    <3> QED BY <3>2 DEF BatchTokens
  <2>3. ASSUME NEW k \in 1..m PROVE <<n + k, 1>> \in BatchTokens(q \o d)
    <3>1. PICK i : i = n + k OBVIOUS
    <3>2. i \in 1..Len(q \o d) /\ (q \o d)[i].len = 1 BY <1>1, <3>1
    <3>3. <<i, 1>> \in {i} \X (1..(q \o d)[i].len) BY <3>2
    <3> QED BY <3>1, <3>2, <3>3 DEF BatchTokens
  <2> QED BY <2>1, <2>2, <2>3
<1>3. IsFiniteSet(new) /\ Cardinality(new) = m
  <2> DEFINE f == [k \in 1..m |-> <<n + k, 1>>]
  <2>1. f \in [1..m -> new] OBVIOUS
  <2>2. ASSUME NEW j \in 1..m, NEW k \in 1..m, f[j] = f[k] PROVE j = k
    <3>1. f[j][1] = n + j /\ f[k][1] = n + k OBVIOUS
    <3>2. n + j = n + k BY <2>2, <3>1
    <3> QED BY <1>1, <3>2
  <2>3. \A x \in new : \E k \in 1..m : f[k] = x OBVIOUS
  <2> HIDE DEF f, new
  <2>4. f \in Bijection(1..m, new) BY <2>1, <2>2, <2>3 DEF Bijection, Injection, Surjection, IsInjective
  <2>5. ExistsBijection(1..m, new) BY <2>4 DEF ExistsBijection
  <2>6. IsFiniteSet(1..m) /\ Cardinality(1..m) = m BY <1>1, IntervalSize
  <2> QED BY <2>5, <2>6, FS_Bijection
<1>4. BatchTokens(q) \intersect new = {}
  <2> SUFFICES ASSUME NEW x \in BatchTokens(q), x \in new PROVE FALSE OBVIOUS
  <2>1. PICK k \in 1..n : x \in {k} \X (1..q[k].len) BY DEF BatchTokens
  <2>2. PICK j \in 1..m : x = <<n + j, 1>> OBVIOUS
  <2>3. x[1] = k /\ x[1] = n + j BY <2>1, <2>2
  <2> QED BY <1>1, <2>3
<1> HIDE DEF new
<1>5. Cardinality(BatchTokens(q)) \in Nat BY FS_CardinalityType
<1>6. /\ IsFiniteSet(BatchTokens(q) \union new)
      /\ Cardinality(BatchTokens(q) \union new)
          = Cardinality(BatchTokens(q)) + Cardinality(new) - Cardinality(BatchTokens(q) \intersect new)
  BY <1>3, FS_Union, Zenon
<1>7. Cardinality(BatchTokens(q) \intersect new) = 0 BY <1>4, FS_EmptySet, Zenon
<1> QED BY <1>1, <1>2, <1>3, <1>5, <1>6, <1>7

\* Removing an element makes a queue no longer.
LEMMA WithoutShrinks ==
    ASSUME NEW S, NEW q \in Seq(S), NEW s
    PROVE  Len(Without(q, s)) <= Len(q)
<1>1. CASE s \in Members(q)
  <2>1. PICK k \in 1..Len(q) : k = CHOOSE j \in 1..Len(q) : q[j] = s BY <1>1 DEF Members
  <2>2. Without(q, s) = DropAt(q, k) BY <1>1, <2>1 DEF Without
  <2>3. Len(DropAt(q, k)) = Len(q) - 1 BY DropAtType
  <2> QED BY <2>2, <2>3
<1>2. CASE s \notin Members(q) BY <1>2 DEF Without
<1> QED BY <1>1, <1>2

\* Only admission brings a sequence into running_.
LEMMA ResidentsAreAdmitted ==
    ASSUME SchedInv, [Next]_vars, ~Admit
    PROVE  Members(running)' \subseteq Members(running) /\ Len(running') <= Len(running)
<1>a. /\ running \in Seq(Seqs) /\ Len(running) \in Nat /\ Distinct(running)
      /\ done \in Seq(Seqs)
  BY DEF SchedInv, SchedTypeInv, SchedTypeOK, Queues
<1>1. CASE UNCHANGED running BY <1>a, <1>1 DEF Members
<1>2. ASSUME NEW s, running' = Without(running, s)
      PROVE  Members(running)' \subseteq Members(running) /\ Len(running') <= Len(running)
  <2>1. Members(Without(running, s)) = Members(running) \ {s} BY <1>a, WithoutQueue
  <2>2. Members(running)' = Members(Without(running, s)) BY <1>2 DEF Members
  <2> QED BY <1>a, <1>2, <2>1, <2>2, WithoutShrinks
<1>3. ASSUME NEW i \in 1..Len(running), running' = DropAt(running, i)
      PROVE  Members(running)' \subseteq Members(running) /\ Len(running') <= Len(running)
  <2>1. /\ Members(DropAt(running, i)) = Members(running) \ {running[i]}
        /\ Len(DropAt(running, i)) = Len(running) - 1
    BY <1>a, DropQueue
  <2>2. Members(running)' = Members(DropAt(running, i)) BY <1>3 DEF Members
  <2> QED BY <1>a, <1>3, <2>1, <2>2
<1>4. CASE running # <<>> /\ running' = Tail(running)
  <2>1. Members(running) = Members(Tail(running)) \union {Head(running)} /\ Len(Tail(running)) = Len(running) - 1
    BY <1>a, <1>4, TailQueue
  <2>2. Members(running)' = Members(Tail(running)) BY <1>4 DEF Members
  <2> QED BY <1>a, <1>4, <2>1, <2>2
<1>5. CASE ManagerStep \/ BeginSchedule \/ UNCHANGED vars
  BY <1>1, <1>5 DEF ManagerStep, BeginSchedule, vars, schedVars, queueVars
<1>6. CASE Place \/ PlaceDone \/ ChunkPrefill \/ TruncateDecode \/ (\E late \in SUBSET Seqs : ExpireQueue(late))
  BY <1>1, <1>6 DEF Place, PlaceDone, ChunkPrefill, TruncateDecode, ExpireQueue, queueVars
<1>7. CASE SkipWaiting \/ AdmitDone \/ FinishSchedule \/ Forward \/ Apply \/ SkipSample
  BY <1>1, <1>7 DEF SkipWaiting, AdmitDone, FinishSchedule, Forward, Apply, SkipSample, queueVars
<1>8. CASE RetireDone \/ EndStep BY <1>1, <1>8 DEF RetireDone, EndStep, queueVars
<1>9. CASE EvictFinished BY <1>3, <1>9 DEF EvictFinished, Evict, FinishedAt
<1>10. CASE Preempt
  <2>1. Len(running) \in 1..Len(running) BY <1>a, <1>10 DEF Preempt
  <2> QED BY <1>3, <1>10, <2>1 DEF Preempt, Evict, Victim
<1>11. CASE \E tok \in Token : Sample(tok) BY <1>1, <1>2, <1>11 DEF Sample
<1>12. CASE DrainBatch BY <1>1, <1>4, <1>12 DEF DrainBatch
<1>13. CASE ClientStep
  BY <1>1, <1>2, <1>13 DEF ClientStep, add, AbortWaiting, AbortRunning
<1> QED BY <1>5, <1>6, <1>7, <1>8, <1>9, <1>10, <1>11, <1>12, <1>13 DEF Next, EngineStep, WithinStep


\* A step of the engine keeps within its budget.
LEMMA NextBudget == ASSUME SchedInv, BudgetInv, SchedInv', [Next]_vars PROVE BudgetInv'
<1>a. SchedTypeOK /\ StepShape /\ SchedTypeOK' /\ StepShape' BY DEF SchedInv, SchedTypeInv
<1>b. /\ Len(running) \in Nat /\ Len(decode) \in Nat /\ budget \in Nat /\ budget' \in Nat
      /\ Len(decode') \in Nat /\ Len(running') \in Nat /\ slices \in Seq(Slices) /\ slices' \in Seq(Slices)
  BY <1>a DEF SchedTypeOK
<1>c. /\ pc \in {"place", "chunk", "expire", "admit", "build", "forward"} =>
             IsFiniteSet(BatchTokens(slices)) /\ Cardinality(BatchTokens(slices)) \in Nat
      /\ IsFiniteSet(BatchTokens(<<>>)) /\ Cardinality(BatchTokens(<<>>)) = 0
  BY EmptyBatch, FS_EmptySet, FS_CardinalityType DEF BudgetInv
<1>d. BatchTokens(slices)' = BatchTokens(slices') BY DEF BatchTokens
<1>e. Len(running') <= MaxNumSeqs
  <2>1. CASE ~Admit BY <1>b, <2>1, ResidentsAreAdmitted, Configuration DEF BudgetInv
  <2>2. CASE Admit
    <3>1. PICK s \in Seqs : s = waiting[cursor] BY <1>a, <2>2, AdmittingCursor DEF Admit
    <3>2. running' = Append(running, s) /\ ~BatchFull BY <2>2, <3>1 DEF Admit, Admitting
    <3>3. Len(running') = Len(running) + 1 BY <1>a, <3>2 DEF SchedTypeOK
    <3> QED BY <1>b, <3>2, <3>3, Configuration DEF BatchFull
  <2> QED BY <2>1, <2>2
<1>1. CASE UNCHANGED <<pc, slices, budget>> /\ (pc \in {"place", "chunk"} \/ UNCHANGED decode)
  BY <1>d, <1>e, <1>1 DEF BudgetInv
<1>2. CASE pc' \notin {"place", "chunk", "expire", "admit", "build", "forward"}
  BY <1>d, <1>e, <1>2 DEF BudgetInv
<1>3. CASE ManagerStep \/ UNCHANGED vars \/ ClientStep
  BY <1>1, <1>2, <1>3 DEF ManagerStep, vars, schedVars, stepVars, ClientStep, add, EngineIdle
<1>4. CASE BeginSchedule
  <2>1. pc' = "place" /\ budget' = MaxBatchedTokens /\ slices' = <<>>
    BY <1>a, <1>4 DEF BeginSchedule, EngineIdle, StepShape
  <2> QED BY <1>c, <1>d, <1>e, <2>1, Configuration DEF BudgetInv
<1>5. CASE Place \/ EvictFinished \/ Preempt
  BY <1>1, <1>5 DEF Place, EvictFinished, Preempt, Placing
<1>6. CASE PlaceDone BY <1>d, <1>e, <1>6 DEF PlaceDone, BudgetInv
<1>7. CASE ChunkPrefill
  <2>1. pc = "chunk" /\ pc' = "chunk" /\ mid_prefill # <<>> BY <1>7 DEF ChunkPrefill
  <2>2. PICK s \in Seqs : s = Head(mid_prefill) BY <1>a, <2>1, TailQueue DEF SchedTypeOK
  <2>3. PICK len : len = Smaller(Smaller(num_tokens(s) - num_computed[s], budget), ChunkSize) OBVIOUS
  <2>4. /\ slices' = IF len > 0 THEN Append(slices, Slice(s, num_computed[s], len)) ELSE slices
        /\ budget' = budget - len
    BY <1>7, <2>2, <2>3 DEF ChunkPrefill
  <2>5. len \in Int
    <3>1. num_tokens(s) \in Nat /\ num_computed[s] \in Nat BY <1>a, SeqTypes DEF SchedInv, SchedTypeInv
    <3> QED BY <1>b, <2>3, <3>1, Configuration DEF Smaller
  <2>6. CASE len > 0
    <3>1. num_computed[s] \in Nat /\ len \in Nat BY <1>a, <2>5, <2>6 DEF SchedTypeOK
    <3>2. PICK sl \in Slices : sl = Slice(s, num_computed[s], len) /\ sl.len = len
      BY <3>1, SliceFields
    <3>3. slices' = Append(slices, sl) BY <2>4, <2>6, <3>2
    <3>4. /\ IsFiniteSet(BatchTokens(slices'))
          /\ Cardinality(BatchTokens(slices')) = Cardinality(BatchTokens(slices)) + len
      BY <1>b, <1>c, <2>1, <3>2, <3>3, AddSlice
    <3>5. Cardinality(BatchTokens(slices)) + budget = MaxBatchedTokens BY <2>1 DEF BudgetInv
    <3>6. Cardinality(BatchTokens(slices')) + budget' = MaxBatchedTokens
      BY <1>b, <1>c, <2>1, <2>4, <2>5, <3>4, <3>5
    <3> QED BY <1>d, <1>e, <2>1, <3>4, <3>6 DEF BudgetInv
  <2>7. CASE len = 0
    <3>1. UNCHANGED <<pc, slices, budget>> BY <1>b, <2>1, <2>4, <2>7
    <3> QED BY <1>1, <2>1, <3>1
  <2>8. len >= 0
    <3>1. s \in Members(mid_prefill) BY <1>a, <2>1, <2>2, TailQueue DEF SchedTypeOK
    <3>2. num_tokens(s) > num_computed[s] + 1 BY <3>1 DEF SchedInv, Candidates
    <3>3. num_tokens(s) \in Nat /\ num_computed[s] \in Nat BY <1>a, SeqTypes DEF SchedInv, SchedTypeInv
    <3> QED BY <1>b, <2>3, <3>2, <3>3, Configuration, SMTT(30) DEF Smaller
  <2> QED BY <2>5, <2>6, <2>7, <2>8
<1>8. CASE TruncateDecode
  <2>1. /\ pc = "chunk" /\ pc' = "expire" /\ slices' = slices /\ budget' = budget - Len(decode')
    BY <1>8 DEF TruncateDecode
  <2> QED BY <1>b, <1>c, <1>d, <1>e, <2>1 DEF BudgetInv
<1>9. CASE (\E late \in SUBSET Seqs : ExpireQueue(late)) \/ SkipWaiting \/ AdmitDone
  <2>1. /\ pc \in {"expire", "admit"} /\ pc' \in {"admit", "build"}
        /\ UNCHANGED <<slices, budget, decode>>
    BY <1>9 DEF ExpireQueue, SkipWaiting, AdmitDone, Admitting
  <2> QED BY <1>d, <1>e, <2>1 DEF BudgetInv
<1>10. CASE Admit
  <2>1. pc = "admit" /\ pc' = "admit" /\ decode' = decode BY <1>10 DEF Admit, Admitting
  <2>2. PICK s \in Seqs : s = waiting[cursor] BY <1>a, <1>10, AdmittingCursor DEF Admit
  <2>3. PICK n \in 0..MaxTokens : \E len :
           /\ len = Smaller(Smaller(num_tokens(s) - CachedTokens(s, n), budget), ChunkSize)
           /\ slices' = Append(slices, Slice(s, CachedTokens(s, n), len))
           /\ budget' = budget - len
    BY <1>10, <2>2 DEF Admit
  <2>4. PICK len : /\ len = Smaller(Smaller(num_tokens(s) - CachedTokens(s, n), budget), ChunkSize)
                   /\ slices' = Append(slices, Slice(s, CachedTokens(s, n), len))
                   /\ budget' = budget - len
    BY <2>3
  <2>5. num_tokens(s) \in Nat /\ num_tokens(s) > 0
    <3>1. s \in Members(waiting) BY <1>a, <1>10, <2>2, AdmittingCursor DEF Admit, Members
    <3> QED BY <1>a, <3>1, SeqTypes DEF SchedInv, SchedTypeInv, TextBounds
  <2>6. CachedTokens(s, n) \in Nat /\ CachedTokens(s, n) < num_tokens(s)
    <3>1. n \in Nat /\ n * BlockSize \in Nat BY Configuration, Scaled
    <3> QED BY <2>5, <3>1 DEF CachedTokens, Smaller
  <2>7. len \in Nat BY <1>b, <2>4, <2>5, <2>6, Configuration, SMTT(20) DEF Smaller
  <2>8. PICK sl \in Slices : sl = Slice(s, CachedTokens(s, n), len) /\ sl.len = len
    <3>1. PICK start \in Nat : start = CachedTokens(s, n) BY <2>6
    <3>2. Slice(s, start, len) \in Slices /\ Slice(s, start, len).len = len BY <2>7, SliceFields, SMTT(20)
    <3> QED BY <3>1, <3>2
  <2>9. /\ IsFiniteSet(BatchTokens(slices'))
        /\ Cardinality(BatchTokens(slices')) = Cardinality(BatchTokens(slices)) + len
    <3>1. slices' = Append(slices, sl) BY <2>4, <2>8
    <3>2. IsFiniteSet(BatchTokens(slices)) BY <1>c, <2>1
    <3> QED BY <1>b, <2>8, <3>1, <3>2, AddSlice
  <2>10. Cardinality(BatchTokens(slices)) + budget + Len(decode) = MaxBatchedTokens
    BY <2>1 DEF BudgetInv
  <2>11. Cardinality(BatchTokens(slices')) + budget' + Len(decode') = MaxBatchedTokens
    BY <1>b, <1>c, <2>1, <2>4, <2>7, <2>9, <2>10
  <2> QED BY <1>d, <1>e, <2>1, <2>9, <2>11 DEF BudgetInv
<1>11. CASE FinishSchedule
  <2>1. CASE pc' = "idle" BY <1>2, <2>1
  <2>2. CASE pc' = "forward"
    <3>1. PICK d : d = [k \in 1..Len(decode) |->
                          [seq |-> decode[k], start |-> num_computed[decode[k]], len |-> 1,
                           needs_logits |-> TRUE]]
      OBVIOUS
    <3>2. pc = "build" /\ slices' = slices \o d BY <1>11, <3>1 DEF FinishSchedule
    <3>3. \A k \in 1..Len(decode) : d[k] \in Slices /\ d[k].len = 1
      <4> SUFFICES ASSUME NEW k \in 1..Len(decode) PROVE d[k] \in Slices /\ d[k].len = 1 OBVIOUS
      <4>0. decode \in Seq(Seqs) BY <1>a DEF SchedTypeOK
      <4>1. PICK s \in Seqs : s = decode[k] BY <4>0
      <4>2. PICK n \in Nat : n = num_computed[s] BY <1>a DEF SchedTypeOK
      <4>3. d[k] = [seq |-> s, start |-> n, len |-> 1, needs_logits |-> TRUE] BY <3>1, <4>1, <4>2
      <4> QED BY <4>3 DEF Slices
    <3>4. d \in Seq(Slices) /\ Len(d) = Len(decode)
      <4>1. d = [k \in 1..Len(decode) |-> d[k]] BY <3>1
      <4> QED BY <1>b, <3>3, <4>1
    <3>5. /\ Cardinality(BatchTokens(slices')) = Cardinality(BatchTokens(slices)) + Len(decode)
          /\ IsFiniteSet(BatchTokens(slices'))
      BY <1>b, <1>c, <3>2, <3>3, <3>4, AddDecodes
    <3>6. Cardinality(BatchTokens(slices)) + budget + Len(decode) = MaxBatchedTokens
      BY <3>2 DEF BudgetInv
    <3>7. Cardinality(BatchTokens(slices')) <= MaxBatchedTokens
      BY <1>b, <1>c, <3>2, <3>5, <3>6
    <3> QED BY <1>d, <1>e, <2>2, <3>5, <3>7 DEF BudgetInv
  <2> QED BY <1>11, <2>1, <2>2 DEF FinishSchedule
<1>12. CASE Forward BY <1>1, <1>2, <1>12 DEF Forward
<1>13. CASE Apply \/ SkipSample \/ (\E tok \in Token : Sample(tok)) \/ RetireDone \/ EndStep \/ DrainBatch
  BY <1>2, <1>13 DEF Apply, SkipSample, Sample, NextSlice, RetireDone, EndStep, DrainBatch
<1> QED BY <1>3, <1>4, <1>5, <1>6, <1>7, <1>8, <1>9, <1>10, <1>11, <1>12, <1>13
       DEF Next, EngineStep, WithinStep

\* No step is larger than configured, however chunks, decodes and admissions share it.
THEOREM StepsFit == Spec => []StepWithinBudget
<1>1. Init => BudgetInv
  BY EmptyBatch, FS_EmptySet, Configuration DEF Init, BudgetInv
<1>2. SchedInv /\ BudgetInv /\ SchedInv' /\ [Next]_vars => BudgetInv' BY NextBudget
<1>3. BudgetInv => StepWithinBudget BY DEF BudgetInv, StepWithinBudget
<1> QED BY <1>1, <1>2, <1>3, SchedSafe, PTL DEF Spec

-----------------------------------------------------------------------------
(* The order of service.                                                   *)

\* admit_one has passed over no request that has waited too long.
Passed == pc = "admit" => \A j \in 1..Len(waiting) : j < cursor => ~starving(waiting[j])

\* The lookahead stops at the first starving request.
LEMMA NextPassed == ASSUME SchedInv, Passed, [Next]_vars PROVE Passed'
<1>a. cursor \in Nat BY DEF SchedInv, SchedTypeInv, SchedTypeOK
<1>b. waiting \in Seq(Seqs) BY DEF SchedInv, SchedTypeInv, SchedTypeOK
<1>1. CASE pc' # "admit" BY <1>1 DEF Passed
<1>2. CASE cursor' = 1 BY <1>2 DEF Passed
<1>3. CASE UNCHANGED <<pc, waiting, cursor, wait_steps>> BY <1>3 DEF Passed, starving
<1>4. CASE SkipWaiting
  <2>1. /\ pc = "admit" /\ cursor' = cursor + 1 /\ UNCHANGED <<waiting, wait_steps>>
        /\ pc' = IF starving(waiting[cursor]) THEN "build" ELSE "admit"
    BY <1>4 DEF SkipWaiting, Admitting, queueVars, requestVars
  <2> SUFFICES ASSUME pc' = "admit", NEW j \in 1..Len(waiting), j < cursor + 1
               PROVE  ~starving(waiting[j])
    BY <2>1 DEF Passed, starving
  <2>2. j = cursor \/ j < cursor BY <1>a, <1>b
  <2> QED BY <2>1, <2>2 DEF Passed
<1>5. CASE ManagerStep \/ UNCHANGED vars \/ ClientStep
  BY <1>1, <1>3, <1>5
     DEF ManagerStep, vars, schedVars, stepVars, queueVars, requestVars, ClientStep, add, EngineIdle
<1>6. CASE BeginSchedule \/ Place \/ EvictFinished \/ Preempt \/ PlaceDone \/ ChunkPrefill \/ TruncateDecode
  BY <1>1, <1>6 DEF BeginSchedule, Place, EvictFinished, Preempt, Placing, PlaceDone, ChunkPrefill,
     TruncateDecode
<1>7. CASE Admit \/ (\E late \in SUBSET Seqs : ExpireQueue(late)) BY <1>2, <1>7 DEF Admit, ExpireQueue
<1>8. CASE AdmitDone \/ FinishSchedule \/ Forward BY <1>1, <1>8 DEF AdmitDone, FinishSchedule, Forward
<1>9. CASE Apply \/ SkipSample \/ (\E tok \in Token : Sample(tok)) \/ RetireDone \/ EndStep \/ DrainBatch
  BY <1>1, <1>9 DEF Apply, SkipSample, Sample, NextSlice, RetireDone, EndStep, DrainBatch
<1> QED BY <1>4, <1>5, <1>6, <1>7, <1>8, <1>9 DEF Next, EngineStep, WithinStep

\* A request that has waited starvation_wait_steps rounds is overtaken by no admission,
\* whatever the lookahead.
THEOREM StarvingNotOvertaken == Spec => StarvingHoldsQueue
<1>1. Init => Passed BY DEF Init, Passed
<1>2. SchedInv /\ Passed /\ [Next]_vars => Passed' BY NextPassed
<1>3. ASSUME SchedInv, Passed, [Next]_vars,
             NEW j \in 1..Len(waiting), NEW k \in 1..Len(waiting), j < k,
             waiting[k] \in Members(running')
      PROVE  wait_steps[waiting[j]] < StarvationSteps
  <2>0. SchedTypeOK /\ Queues BY <1>3 DEF SchedInv, SchedTypeInv
  <2>1. /\ waiting \in Seq(Seqs) /\ waiting[k] \in Seqs /\ waiting[k] \in Members(waiting)
        /\ waiting[j] \in Seqs /\ wait_steps[waiting[j]] \in Nat
    <3>1. waiting \in Seq(Seqs) /\ wait_steps \in [Seqs -> Nat] BY <2>0 DEF SchedTypeOK
    <3>2. waiting[k] \in Seqs /\ waiting[j] \in Seqs BY <3>1
    <3>3. waiting[k] \in Members(waiting) BY DEF Members
    <3> QED BY <3>1, <3>2, <3>3
  <2>2. waiting[k] \notin Members(running) BY <2>0, <2>1 DEF Queues
  <2>3. Members(running)' = Members(running') BY DEF Members
  <2>4. Admit BY <1>3, <2>2, <2>3, ResidentsAreAdmitted
  <2>5. PICK s \in Seqs : s = waiting[cursor] /\ cursor \in 1..Len(waiting)
    BY <2>0, <2>4, AdmittingCursor DEF Admit
  <2>6. running' = Append(running, s) /\ pc = "admit" BY <2>4, <2>5 DEF Admit, Admitting
  <2>7. Members(Append(running, s)) = Members(running) \union {s}
    BY <2>0, AppendQueue DEF SchedTypeOK
  <2>8. waiting[k] = waiting[cursor]
    <3>1. Members(running') = Members(running) \union {s} BY <2>6, <2>7
    <3>2. waiting[k] \in Members(running') BY <1>3
    <3> QED BY <2>2, <2>5, <3>1, <3>2
  <2>9. k = cursor BY <2>0, <2>5, <2>8 DEF Queues, Distinct
  <2>10. ~starving(waiting[j]) BY <1>3, <2>6, <2>9 DEF Passed
  <2> QED BY <2>1, <2>10, Configuration DEF starving
<1>4. SchedInv /\ Passed /\ [Next]_vars
        => [\A j, k \in 1..Len(waiting) :
              j < k /\ waiting[k] \in Members(running') => wait_steps[waiting[j]] < StarvationSteps]_vars
  BY <1>3
<1> QED BY <1>1, <1>2, <1>4, SchedSafe, PTL DEF Spec, StarvingHoldsQueue


\* r stands before s in q.
Before(q, r, s) == \E j, k \in 1..Len(q) : j < k /\ q[j] = r /\ q[k] = s

\* p has elements of q only, in their order.
Keeps(q, p) ==
    /\ Members(p) \subseteq Members(q)
    /\ \A r, s \in Members(p) : Before(q, r, s) => Before(p, r, s)

\* Who is before whom in two queues, one behind the other.
LEMMA BeforeInLine ==
    ASSUME NEW S, NEW p \in Seq(S), NEW q \in Seq(S), NEW r, NEW s
    PROVE  Before(p \o q, r, s) <=> \/ Before(p, r, s) \/ Before(q, r, s)
                                    \/ r \in Members(p) /\ s \in Members(q)
<1> DEFINE n == Len(p)
           m == Len(q)
<1>1. /\ Len(p \o q) = n + m /\ n \in Nat /\ m \in Nat
      /\ \A k \in 1..n : (p \o q)[k] = p[k]
      /\ \A k \in 1..m : (p \o q)[n + k] = q[k]
  BY JoinQueues
<1>2. ASSUME Before(p, r, s) PROVE Before(p \o q, r, s)
  <2>1. PICK j \in 1..n, k \in 1..n : j < k /\ p[j] = r /\ p[k] = s BY <1>2 DEF Before
  <2>2. j \in 1..Len(p \o q) /\ k \in 1..Len(p \o q) BY <1>1
  <2> QED BY <1>1, <2>1, <2>2 DEF Before
<1>3. ASSUME Before(q, r, s) PROVE Before(p \o q, r, s)
  <2>1. PICK j \in 1..m, k \in 1..m : j < k /\ q[j] = r /\ q[k] = s BY <1>3 DEF Before
  <2>2. n + j \in 1..Len(p \o q) /\ n + k \in 1..Len(p \o q) /\ n + j < n + k BY <1>1, <2>1
  <2>3. (p \o q)[n + j] = r /\ (p \o q)[n + k] = s BY <1>1, <2>1
  <2> QED BY <2>2, <2>3 DEF Before
<1>4. ASSUME r \in Members(p), s \in Members(q) PROVE Before(p \o q, r, s)
  <2>1. PICK j \in 1..n, k \in 1..m : p[j] = r /\ q[k] = s BY <1>4 DEF Members
  <2>2. j \in 1..Len(p \o q) /\ n + k \in 1..Len(p \o q) /\ j < n + k BY <1>1
  <2>3. (p \o q)[j] = r /\ (p \o q)[n + k] = s BY <1>1, <2>1
  <2> QED BY <2>2, <2>3 DEF Before
<1>5. ASSUME Before(p \o q, r, s)
      PROVE  \/ Before(p, r, s) \/ Before(q, r, s)
             \/ r \in Members(p) /\ s \in Members(q)
  <2>1. PICK j \in 1..(n + m), k \in 1..(n + m) : j < k /\ (p \o q)[j] = r /\ (p \o q)[k] = s
    BY <1>1, <1>5 DEF Before
  <2>2. ASSUME NEW i \in 1..(n + m), i \notin 1..n
        PROVE  i - n \in 1..m /\ (p \o q)[i] = q[i - n]
    <3>1. i - n \in 1..m /\ n + (i - n) = i BY <1>1, <2>2
    <3> QED BY <1>1, <3>1
  <2>3. CASE k \in 1..n
    <3>1. j \in 1..n BY <1>1, <2>1, <2>3
    <3>2. p[j] = r /\ p[k] = s BY <1>1, <2>1, <2>3, <3>1
    <3> QED BY <2>1, <2>3, <3>1, <3>2 DEF Before
  <2>4. CASE k \notin 1..n /\ j \in 1..n
    <3>1. p[j] = r BY <1>1, <2>1, <2>4
    <3>2. k - n \in 1..m /\ q[k - n] = s BY <2>1, <2>2, <2>4
    <3> QED BY <2>4, <3>1, <3>2 DEF Members
  <2>5. CASE k \notin 1..n /\ j \notin 1..n
    <3>1. /\ k - n \in 1..m /\ q[k - n] = s /\ j - n \in 1..m /\ q[j - n] = r
      BY <2>1, <2>2, <2>5
    <3>2. j - n < k - n BY <1>1, <2>1
    <3> QED BY <3>1, <3>2 DEF Before
  <2> QED BY <2>3, <2>4, <2>5
<1> QED BY <1>2, <1>3, <1>4, <1>5

\* The line of service.
LEMMA AheadCases ==
    ASSUME SchedTypeOK, NEW r, NEW s
    PROVE  Ahead(r, s) <=> \/ Before(running, r, s) \/ Before(waiting, r, s)
                           \/ r \in Members(running) /\ s \in Members(waiting)
<1>1. running \in Seq(Seqs) /\ waiting \in Seq(Seqs) BY DEF SchedTypeOK
<1>2. Ahead(r, s) <=> Before(running \o waiting, r, s) BY DEF Ahead, Before
<1> QED BY <1>1, <1>2, BeforeInLine

\* Those of whom one is before the other are elements.
LEMMA BeforeMembers ==
    ASSUME NEW q, NEW r, NEW s, Before(q, r, s) PROVE r \in Members(q) /\ s \in Members(q)
BY DEF Before, Members

\* An increasing choice of positions keeps the order.
LEMMA IncreasingKeeps ==
    ASSUME NEW S, NEW q \in Seq(S), NEW p \in Seq(S), Distinct(q),
           NEW f \in [1..Len(p) -> 1..Len(q)],
           \A i \in 1..Len(p) : p[i] = q[f[i]],
           \A i, j \in 1..Len(p) : i < j => f[i] < f[j]
    PROVE  Keeps(q, p)
<1>1. Members(p) \subseteq Members(q) BY DEF Members
<1>2. ASSUME NEW r \in Members(p), NEW s \in Members(p), Before(q, r, s) PROVE Before(p, r, s)
  <2>1. PICK a \in 1..Len(p), b \in 1..Len(p) : p[a] = r /\ p[b] = s BY DEF Members
  <2>2. PICK j \in 1..Len(q), k \in 1..Len(q) : j < k /\ q[j] = r /\ q[k] = s BY <1>2 DEF Before
  <2>3. f[a] \in 1..Len(q) /\ f[b] \in 1..Len(q) /\ q[f[a]] = q[j] /\ q[f[b]] = q[k] BY <2>1, <2>2
  <2>4. f[a] = j /\ f[b] = k BY <2>3 DEF Distinct
  <2>5. f[a] < f[b] BY <2>2, <2>4
  <2>6. a # b BY <2>3, <2>5
  <2>7. ~(b < a)
    <3>1. b < a => f[b] < f[a] OBVIOUS
    <3> QED BY <2>3, <2>5, <3>1
  <2>8. a < b BY <2>6, <2>7
  <2> QED BY <2>1, <2>8 DEF Before
<1> QED BY <1>1, <1>2 DEF Keeps

\* Dropping an element keeps the order of the others.
LEMMA DropKeeps ==
    ASSUME NEW S, NEW q \in Seq(S), NEW i \in 1..Len(q), Distinct(q) PROVE Keeps(q, DropAt(q, i))
<1>1. DropAt(q, i) \in Seq(S) /\ Len(DropAt(q, i)) = Len(q) - 1 BY DropQueue
<1> DEFINE f == [j \in 1..(Len(q) - 1) |-> IF j < i THEN j ELSE j + 1]
<1>2. f \in [1..Len(DropAt(q, i)) -> 1..Len(q)] BY <1>1
<1>3. \A j \in 1..Len(DropAt(q, i)) : DropAt(q, i)[j] = q[f[j]] BY <1>1 DEF DropAt
<1>4. \A j, k \in 1..Len(DropAt(q, i)) : j < k => f[j] < f[k] BY <1>1
<1> HIDE DEF f
<1> QED BY <1>1, <1>2, <1>3, <1>4, IncreasingKeeps

\* A queue keeps its own order.
LEMMA SameKeeps == ASSUME NEW q PROVE Keeps(q, q)
BY DEF Keeps

\* So does dropping a given element.
LEMMA WithoutKeeps ==
    ASSUME NEW S, NEW q \in Seq(S), NEW s, Distinct(q) PROVE Keeps(q, Without(q, s))
<1>1. CASE s \in Members(q)
  <2>1. PICK k \in 1..Len(q) : k = CHOOSE j \in 1..Len(q) : q[j] = s BY <1>1 DEF Members
  <2>2. Without(q, s) = DropAt(q, k) BY <1>1, <2>1 DEF Without
  <2> QED BY <2>2, DropKeeps
<1>2. CASE s \notin Members(q) BY <1>2, SameKeeps DEF Without
<1> QED BY <1>1, <1>2

\* So does dropping the first one.
LEMMA TailKeeps ==
    ASSUME NEW S, NEW q \in Seq(S), q # <<>>, Distinct(q) PROVE Keeps(q, Tail(q))
<1>1. /\ Tail(q) \in Seq(S) /\ Len(Tail(q)) = Len(q) - 1 /\ Len(q) \in Nat
      /\ \A j \in 1..Len(Tail(q)) : Tail(q)[j] = q[j + 1]
  BY TailQueue
<1> DEFINE f == [j \in 1..Len(Tail(q)) |-> j + 1]
<1>2. f \in [1..Len(Tail(q)) -> 1..Len(q)] BY <1>1
<1>3. \A j \in 1..Len(Tail(q)) : Tail(q)[j] = q[f[j]] BY <1>1
<1>4. \A j, k \in 1..Len(Tail(q)) : j < k => f[j] < f[k] BY <1>1
<1> HIDE DEF f
<1> QED BY <1>1, <1>2, <1>3, <1>4, IncreasingKeeps

\* So does a filter.
LEMMA OnlyKeeps ==
    ASSUME NEW S, NEW q \in Seq(S), NEW T, Distinct(q) PROVE Keeps(q, Only(q, T))
<1>1. Only(q, T) \in Seq(S) BY OnlyQueue
<1>2. PICK f \in [1..Len(Only(q, T)) -> 1..Len(q)] :
          /\ \A i \in 1..Len(Only(q, T)) : Only(q, T)[i] = q[f[i]]
          /\ \A i, j \in 1..Len(Only(q, T)) : i < j => f[i] < f[j]
  BY OnlyQueue
<1> QED BY <1>1, <1>2, IncreasingKeeps


\* Removals keep the order of the requests that stay.
LEMMA RemovalsKeepOrder ==
    ASSUME SchedInv, SchedTypeOK', Keeps(running, running'), Keeps(waiting, waiting'),
           NEW r \in Seqs, NEW s \in Seqs, Ahead(r, s), Live(r)', Live(s)'
    PROVE  Ahead(r, s)'
<1>0. SchedTypeOK /\ Queues BY DEF SchedInv, SchedTypeInv
<1>a. Members(running)' = Members(running') /\ Members(waiting)' = Members(waiting') BY DEF Members
<1>b. /\ Members(running') \subseteq Members(running) /\ Members(waiting') \subseteq Members(waiting)
      /\ \A a, b \in Members(running') : Before(running, a, b) => Before(running', a, b)
      /\ \A a, b \in Members(waiting') : Before(waiting, a, b) => Before(waiting', a, b)
  BY DEF Keeps
<1>c. \A q \in Seqs : ~(q \in Members(running) /\ q \in Members(waiting))
  BY <1>0 DEF Queues
<1>d. Ahead(r, s)' <=> \/ Before(running', r, s) \/ Before(waiting', r, s)
                       \/ r \in Members(running') /\ s \in Members(waiting')
  <2>1. running' \in Seq(Seqs) /\ waiting' \in Seq(Seqs) BY DEF SchedTypeOK
  <2>2. Ahead(r, s)' <=> Before(running' \o waiting', r, s) BY DEF Ahead, Before
  <2> QED BY <2>1, <2>2, BeforeInLine
<1>e. /\ r \in Members(running') \/ r \in Members(waiting')
      /\ s \in Members(running') \/ s \in Members(waiting')
  BY <1>a DEF Live
<1>1. CASE Before(running, r, s)
  <2>1. r \in Members(running) /\ s \in Members(running) BY <1>1, BeforeMembers
  <2> QED BY <1>1, <1>b, <1>c, <1>d, <1>e, <2>1
<1>2. CASE Before(waiting, r, s)
  <2>1. r \in Members(waiting) /\ s \in Members(waiting) BY <1>2, BeforeMembers
  <2> QED BY <1>2, <1>b, <1>c, <1>d, <1>e, <2>1
<1>3. CASE r \in Members(running) /\ s \in Members(waiting) BY <1>3, <1>b, <1>c, <1>d, <1>e
<1> QED BY <1>0, <1>1, <1>2, <1>3, AheadCases

\* A longer queue keeps its order.
LEMMA AppendBefore ==
    ASSUME NEW S, NEW q \in Seq(S), NEW t \in S, NEW r, NEW s
    PROVE  /\ Before(q, r, s) => Before(Append(q, t), r, s)
           /\ r \in Members(q) => Before(Append(q, t), r, t)
<1>1. /\ Len(Append(q, t)) = Len(q) + 1 /\ Len(q) \in Nat
      /\ \A k \in 1..Len(q) : Append(q, t)[k] = q[k]
      /\ Append(q, t)[Len(q) + 1] = t
  BY AppendQueue
<1>2. \A k \in 1..Len(q) : k \in 1..Len(Append(q, t)) /\ k < Len(q) + 1 BY <1>1
<1>3. Before(q, r, s) => Before(Append(q, t), r, s) BY <1>1, <1>2 DEF Before
<1>4. ASSUME r \in Members(q) PROVE Before(Append(q, t), r, t)
  <2>1. PICK j \in 1..Len(q) : q[j] = r BY <1>4 DEF Members
  <2>2. Len(q) + 1 \in 1..Len(Append(q, t)) BY <1>1
  <2> QED BY <1>1, <1>2, <2>1, <2>2 DEF Before
<1> QED BY <1>3, <1>4

\* A queue with a new head keeps its order.
LEMMA PushBefore ==
    ASSUME NEW S, NEW q \in Seq(S), NEW t \in S, NEW r, NEW s
    PROVE  /\ Before(q, r, s) => Before(<<t>> \o q, r, s)
           /\ s \in Members(q) => Before(<<t>> \o q, t, s)
<1>1. /\ Len(<<t>> \o q) = Len(q) + 1 /\ Len(q) \in Nat /\ (<<t>> \o q)[1] = t
      /\ \A k \in 1..Len(q) : (<<t>> \o q)[k + 1] = q[k]
  BY PushFront
<1>2. \A k \in 1..Len(q) : k + 1 \in 1..Len(<<t>> \o q) /\ 1 < k + 1 BY <1>1
<1>3. ASSUME Before(q, r, s) PROVE Before(<<t>> \o q, r, s)
  <2>1. PICK j \in 1..Len(q), k \in 1..Len(q) : j < k /\ q[j] = r /\ q[k] = s BY <1>3 DEF Before
  <2>2. j + 1 < k + 1 BY <2>1
  <2> QED BY <1>1, <1>2, <2>1, <2>2 DEF Before
<1>4. ASSUME s \in Members(q) PROVE Before(<<t>> \o q, t, s)
  <2>1. PICK k \in 1..Len(q) : q[k] = s BY <1>4 DEF Members
  <2>2. 1 \in 1..Len(<<t>> \o q) BY <1>1
  <2> QED BY <1>1, <1>2, <2>1, <2>2 DEF Before
<1> QED BY <1>3, <1>4

\* The head of the queue becomes the last resident: nobody changes places.
LEMMA HeadJoinsKeepsOrder ==
    ASSUME SchedInv, SchedTypeOK', waiting # <<>>,
           running' = Append(running, waiting[1]), waiting' = DropAt(waiting, 1),
           NEW r \in Seqs, NEW s \in Seqs, Ahead(r, s)
    PROVE  Ahead(r, s)'
<1>0. SchedTypeOK /\ Queues BY DEF SchedInv, SchedTypeInv
<1>a. /\ running \in Seq(Seqs) /\ waiting \in Seq(Seqs) /\ Distinct(waiting) /\ 1 \in 1..Len(waiting)
  BY <1>0 DEF SchedTypeOK, Queues
<1>b. PICK w \in Seqs : w = waiting[1] BY <1>a
<1>c. Members(running') = Members(running) \union {w} BY <1>a, <1>b, AppendQueue
<1>d. /\ Members(waiting') = Members(waiting) \ {w} /\ Keeps(waiting, waiting')
  BY <1>a, <1>b, DropQueue, DropKeeps
<1>e. Ahead(r, s)' <=> \/ Before(running', r, s) \/ Before(waiting', r, s)
                       \/ r \in Members(running') /\ s \in Members(waiting')
  <2>1. running' \in Seq(Seqs) /\ waiting' \in Seq(Seqs) BY DEF SchedTypeOK
  <2>2. Ahead(r, s)' <=> Before(running' \o waiting', r, s) BY DEF Ahead, Before
  <2> QED BY <2>1, <2>2, BeforeInLine
<1>f. /\ Before(running, r, s) => Before(running', r, s)
      /\ r \in Members(running) => Before(running', r, w)
  BY <1>a, <1>b, AppendBefore
<1>1. CASE Before(running, r, s) BY <1>1, <1>e, <1>f
<1>2. CASE Before(waiting, r, s)
  <2>1. r \in Members(waiting) /\ s \in Members(waiting) BY <1>2, BeforeMembers
  <2>2. s # w
    <3>1. PICK j \in 1..Len(waiting), k \in 1..Len(waiting) : j < k /\ waiting[k] = s BY <1>2 DEF Before
    <3>2. k # 1 BY <1>a, <3>1
    <3> QED BY <1>a, <1>b, <3>1, <3>2 DEF Distinct
  <2>3. CASE r = w BY <1>c, <1>d, <1>e, <2>1, <2>2, <2>3
  <2>4. CASE r # w
    <3>1. r \in Members(waiting') /\ s \in Members(waiting') BY <1>d, <2>1, <2>2, <2>4
    <3>2. Before(waiting', r, s) BY <1>2, <1>d, <3>1 DEF Keeps
    <3> QED BY <1>e, <3>2
  <2> QED BY <2>3, <2>4
<1>3. CASE r \in Members(running) /\ s \in Members(waiting) BY <1>3, <1>c, <1>d, <1>e, <1>f
<1> QED BY <1>0, <1>1, <1>2, <1>3, AheadCases

\* The last resident becomes the head of the queue: nobody changes places.
LEMMA LastLeavesKeepsOrder ==
    ASSUME SchedInv, SchedTypeOK', running # <<>>,
           running' = DropAt(running, Len(running)),
           waiting' = <<running[Len(running)]>> \o waiting,
           NEW r \in Seqs, NEW s \in Seqs, Ahead(r, s)
    PROVE  Ahead(r, s)'
<1>0. SchedTypeOK /\ Queues BY DEF SchedInv, SchedTypeInv
<1>a. /\ running \in Seq(Seqs) /\ waiting \in Seq(Seqs) /\ Distinct(running)
      /\ Len(running) \in 1..Len(running)
  BY <1>0 DEF SchedTypeOK, Queues
<1>b. PICK v \in Seqs : v = running[Len(running)] BY <1>a
<1>c. /\ Members(running') = Members(running) \ {v} /\ Keeps(running, running')
  <2>1. PICK n \in 1..Len(running) : n = Len(running) BY <1>a
  <2>2. running' = DropAt(running, n) /\ v = running[n] BY <1>b, <2>1
  <2> QED BY <1>a, <2>2, DropQueue, DropKeeps
<1>d. Members(waiting') = Members(waiting) \union {v} BY <1>a, <1>b, PushFront
<1>e. Ahead(r, s)' <=> \/ Before(running', r, s) \/ Before(waiting', r, s)
                       \/ r \in Members(running') /\ s \in Members(waiting')
  <2>1. running' \in Seq(Seqs) /\ waiting' \in Seq(Seqs) BY DEF SchedTypeOK
  <2>2. Ahead(r, s)' <=> Before(running' \o waiting', r, s) BY DEF Ahead, Before
  <2> QED BY <2>1, <2>2, BeforeInLine
<1>f. /\ Before(waiting, r, s) => Before(waiting', r, s)
      /\ s \in Members(waiting) => Before(waiting', v, s)
  BY <1>a, <1>b, PushBefore
<1>1. CASE Before(waiting, r, s) BY <1>1, <1>e, <1>f
<1>2. CASE Before(running, r, s)
  <2>1. r \in Members(running) /\ s \in Members(running) BY <1>2, BeforeMembers
  <2>2. r # v
    <3>1. PICK j \in 1..Len(running), k \in 1..Len(running) : j < k /\ running[j] = r BY <1>2 DEF Before
    <3>2. j # Len(running) BY <1>a, <3>1
    <3> QED BY <1>a, <1>b, <3>1, <3>2 DEF Distinct
  <2>3. CASE s = v BY <1>c, <1>d, <1>e, <2>1, <2>2, <2>3
  <2>4. CASE s # v
    <3>1. r \in Members(running') /\ s \in Members(running') BY <1>c, <2>1, <2>2, <2>4
    <3>2. Before(running', r, s) BY <1>2, <1>c, <3>1 DEF Keeps
    <3> QED BY <1>e, <3>2
  <2> QED BY <2>3, <2>4
<1>3. CASE r \in Members(running) /\ s \in Members(waiting) BY <1>3, <1>c, <1>d, <1>e, <1>f
<1> QED BY <1>0, <1>1, <1>2, <1>3, AheadCases


\* Every step keeps the order of service if only the head of the queue may be admitted.
LEMMA NextOrder ==
    ASSUME Lookahead <= 1, SchedInv, SchedInv', [Next]_vars,
           NEW r \in Seqs, NEW s \in Seqs, Ahead(r, s), Live(r)', Live(s)'
    PROVE  Ahead(r, s)'
<1>0. SchedTypeOK /\ Queues /\ SchedTypeOK' BY DEF SchedInv, SchedTypeInv
<1>a. /\ running \in Seq(Seqs) /\ waiting \in Seq(Seqs) /\ Distinct(running) /\ Distinct(waiting)
  BY <1>0 DEF SchedTypeOK, Queues
<1>1. CASE UNCHANGED <<running, waiting>> BY <1>1 DEF Ahead
<1>2. ASSUME NEW t, waiting' = Without(waiting, t), running' = running PROVE Ahead(r, s)'
  BY <1>0, <1>2, <1>a, WithoutKeeps, SameKeeps, RemovalsKeepOrder
<1>3. ASSUME NEW t, running' = Without(running, t), waiting' = waiting PROVE Ahead(r, s)'
  BY <1>0, <1>3, <1>a, WithoutKeeps, SameKeeps, RemovalsKeepOrder
<1>4. ASSUME NEW i \in 1..Len(running), running' = DropAt(running, i), waiting' = waiting
      PROVE  Ahead(r, s)'
  BY <1>0, <1>4, <1>a, DropKeeps, SameKeeps, RemovalsKeepOrder
<1>5. CASE ManagerStep \/ BeginSchedule \/ UNCHANGED vars
  BY <1>1, <1>5 DEF ManagerStep, BeginSchedule, vars, schedVars, queueVars
<1>6. CASE Place \/ PlaceDone \/ ChunkPrefill \/ TruncateDecode
  BY <1>1, <1>6 DEF Place, PlaceDone, ChunkPrefill, TruncateDecode, queueVars
<1>7. CASE SkipWaiting \/ AdmitDone \/ Forward \/ Apply \/ SkipSample \/ RetireDone \/ EndStep
  BY <1>1, <1>7 DEF SkipWaiting, AdmitDone, Forward, Apply, SkipSample, RetireDone, EndStep, queueVars
<1>8. CASE \E late \in SUBSET Seqs : ExpireQueue(late)
  <2>1. PICK late \in SUBSET Seqs : ExpireQueue(late) BY <1>8
  <2>2. waiting' = Only(waiting, Seqs \ late) /\ running' = running BY <2>1 DEF ExpireQueue
  <2>3. Keeps(waiting, Only(waiting, Seqs \ late)) BY <1>a, OnlyKeeps
  <2> QED BY <1>0, <2>2, <2>3, SameKeeps, RemovalsKeepOrder
<1>9. CASE EvictFinished BY <1>4, <1>9 DEF EvictFinished, Evict, FinishedAt
<1>10. CASE Preempt
  <2>1. /\ running # <<>> /\ running' = DropAt(running, Len(running))
        /\ waiting' = <<running[Len(running)]>> \o waiting
    BY <1>10 DEF Preempt, Evict, Victim, Requeued
  <2> QED BY <1>0, <2>1, LastLeavesKeepsOrder
<1>11. CASE Admit
  <2>1. cursor \in 1..Len(waiting) BY <1>0, <1>11, AdmittingCursor DEF Admit
  <2>2. cursor <= Smaller(1, Len(waiting)) BY <1>11 DEF Admit, Admitting
  <2>3. cursor = 1 BY <1>a, <2>1, <2>2 DEF Smaller
  <2>4. running' = Append(running, waiting[1]) /\ waiting' = DropAt(waiting, 1) BY <1>11, <2>3 DEF Admit
  <2>5. waiting # <<>> BY <2>1
  <2> QED BY <1>0, <2>4, <2>5, HeadJoinsKeepsOrder
<1>12. CASE FinishSchedule
  <2>1. CASE waiting' = waiting BY <1>1, <1>12, <2>1 DEF FinishSchedule
  <2>2. CASE waiting # <<>> /\ waiting' = Tail(waiting)
    <3>1. running' = running BY <1>12 DEF FinishSchedule
    <3>2. Keeps(waiting, Tail(waiting)) BY <1>a, <2>2, TailKeeps
    <3> QED BY <1>0, <2>2, <3>1, <3>2, SameKeeps, RemovalsKeepOrder
  <2> QED BY <1>12, <2>1, <2>2 DEF FinishSchedule, HeadRejected
<1>13. CASE \E tok \in Token : Sample(tok)
  <2>1. waiting' = waiting BY <1>13 DEF Sample
  <2>2. running' = running \/ running' = Without(running, Head(slices).seq) BY <1>13 DEF Sample
  <2> QED BY <1>1, <1>3, <2>1, <2>2
<1>14. CASE DrainBatch
  <2>1. CASE running' = running BY <1>1, <1>14, <2>1 DEF DrainBatch
  <2>2. CASE running # <<>> /\ running' = Tail(running)
    <3>1. waiting' = waiting BY <1>14 DEF DrainBatch
    <3>2. Keeps(running, Tail(running)) BY <1>a, <2>2, TailKeeps
    <3> QED BY <1>0, <2>2, <3>1, <3>2, SameKeeps, RemovalsKeepOrder
  <2> QED BY <1>14, <2>1, <2>2 DEF DrainBatch
<1>15. ASSUME NEW t \in Seqs, NEW q, add(t, q) PROVE Ahead(r, s)'
  <2>1. waiting' = Append(waiting, t) /\ running' = running BY <1>15 DEF add
  <2>2. Members(waiting) \subseteq Members(waiting') BY <1>a, <2>1, AppendQueue
  <2>3. Before(waiting, r, s) => Before(waiting', r, s) BY <1>a, <2>1, AppendBefore
  <2>4. Ahead(r, s)' <=> \/ Before(running', r, s) \/ Before(waiting', r, s)
                         \/ r \in Members(running') /\ s \in Members(waiting')
    <3>1. running' \in Seq(Seqs) /\ waiting' \in Seq(Seqs) BY <1>0 DEF SchedTypeOK
    <3>2. Ahead(r, s)' <=> Before(running' \o waiting', r, s) BY DEF Ahead, Before
    <3> QED BY <3>1, <3>2, BeforeInLine
  <2> QED BY <1>0, <2>1, <2>2, <2>3, <2>4, AheadCases
<1>16. CASE ClientStep
  BY <1>2, <1>3, <1>15, <1>16 DEF ClientStep, AbortWaiting, AbortRunning
<1> QED BY <1>5, <1>6, <1>7, <1>8, <1>9, <1>10, <1>11, <1>12, <1>13, <1>14, <1>16
       DEF Next, EngineStep, WithinStep

\* Without lookahead, service is first come first served through every preemption and
\* readmission: a victim keeps its place before all that wait.
THEOREM NobodyOvertaken == ASSUME Lookahead <= 1 PROVE Spec => SeniorityKept
<1>1. SchedInv /\ SchedInv' /\ [Next]_vars
        => [\A r, s \in Seqs : Ahead(r, s) /\ Live(r)' /\ Live(s)' => Ahead(r, s)']_vars
  BY NextOrder
<1> QED BY <1>1, SchedSafe, PTL DEF Spec, SeniorityKept


-----------------------------------------------------------------------------
(* The head of the queue and the pool.                                     *)

\* Why and when a request may end.
Reasons ==
    \A s \in Seqs :
        /\ finish[s] = "none" <=>
              status[s] \in {"new", "waiting"} \/ (status[s] = "running" /\ s \notin Members(done))
        /\ limit[s] <= MaxTokens /\ limit[s] <= Cardinality(Blocks) * BlockSize
        /\ finish[s] = "none" /\ status[s] # "new" => Len(tokens[s]) < limit[s]

\* Without a watermark of its own, a request at the head of the queue is admitted when
\* nothing runs.
HeadAdmitted ==
    Watermark <= 0 /\ running = <<>> =>
        /\ pc = "admit" => cursor = 1
        /\ pc = "build" /\ may_admit => waiting = <<>>

\* A set of natural numbers has a smallest element.
LEMMA SmallestNat == ASSUME NEW T \in SUBSET Nat, T # {} PROVE \E x \in T : \A y \in T : x <= y
<1>1. PICK x \in T : \A y \in T : <<y, x>> \notin OpToRel(<, Nat)
  BY WFMin, NatLessThanWellFounded, Zenon
<1>2. ASSUME NEW y \in T, y < x PROVE FALSE
  <2>1. <<y, x>> \in Nat \X Nat /\ <<y, x>>[1] < <<y, x>>[2] BY <1>2
  <2>2. <<y, x>> \in OpToRel(<, Nat) BY <2>1 DEF OpToRel
  <2> QED BY <1>1, <2>2, Zenon
<1> QED BY <1>2

\* The walk over a prompt's cached blocks comes to an end within the prompt.
LEMMA WalkEnds ==
    ASSUME NEW t \in Seq(Token), Len(t) <= MaxTokens
    PROVE  \E n \in 0..MaxTokens : CachedPrefix(t, n)
<1>a. BlockSize \in Nat \ {0} /\ MaxTokens \in Nat /\ Len(t) \in Nat BY Configuration
<1>1. CASE ~PrefixCaching
  <2>1. CachedPrefix(t, 0) BY <1>1, <1>a DEF CachedPrefix
  <2> QED BY <1>a, <2>1
<1>2. CASE PrefixCaching
  <2> DEFINE Hit(i) == i * BlockSize <= Len(t) /\ HashOf(t, i) \in DOMAIN hash_to_block
             T == {m \in Nat : ~Hit(m + 1)}
  <2>1. Len(t) \in T
    <3>1. (Len(t) + 1) * BlockSize > Len(t) BY <1>a
    <3>2. (Len(t) + 1) * BlockSize \in Nat BY <1>a, Scaled
    <3> QED BY <1>a, <3>1, <3>2
  <2>2. PICK n \in T : \A m \in T : n <= m BY <2>1, SmallestNat
  <2>3. n \in Nat /\ n <= Len(t) /\ ~Hit(n + 1) BY <2>1, <2>2
  <2>4. ASSUME NEW i \in 1..n PROVE Hit(i)
    <3>1. PICK m \in Nat : i = m + 1 /\ m < n
      <4>1. i - 1 \in Nat /\ i = (i - 1) + 1 /\ i - 1 < n BY <2>3
      <4> QED BY <4>1
    <3>2. m \notin T BY <2>2, <2>3, <3>1
    <3> QED BY <3>1, <3>2
  <2>5. n * BlockSize <= Len(t)
    <3>1. CASE n = 0 BY <1>a, <3>1
    <3>2. CASE n # 0
      <4>1. n \in 1..n BY <2>3, <3>2
      <4> QED BY <2>4, <4>1
    <3> QED BY <3>1, <3>2
  <2>6. CachedPrefix(t, n) BY <1>2, <2>3, <2>4, <2>5 DEF CachedPrefix
  <2>7. n \in 0..MaxTokens BY <1>a, <2>3
  <2> QED BY <2>6, <2>7
<1> QED BY <1>1, <1>2

\* With all tables empty, all blocks are available.
LEMMA WholePool ==
    ASSUME SharingInv, \A s \in Seqs : blocks[s] = <<>>
    PROVE  num_available_blocks = Cardinality(Blocks) /\ Cardinality(Blocks) \in Nat
<1>a. TypeOK /\ PoolPartition /\ RefCounts BY DEF SharingInv, TypeInv
<1>1. \A b \in Blocks : ref_count[b] = 0
  <2> SUFFICES ASSUME NEW b \in Blocks PROVE ref_count[b] = 0 OBVIOUS
  <2>1. Owners(b) = {} BY DEF Owners
  <2> QED BY <1>a, <2>1, FS_EmptySet DEF RefCounts
<1>2. Blocks = free \union Cached /\ free \intersect Cached = {} BY <1>a, <1>1 DEF PoolPartition
<1>3. IsFiniteSet(free) /\ IsFiniteSet(Cached) /\ Cardinality(Blocks) \in Nat
      /\ Cardinality(free) \in Nat
  BY <1>2, KVAssumption, FS_Subset, FS_CardinalityType
<1>4. Cardinality(Cached) = Len(lru)
  <2>1. lru \in Seq(Blocks) /\ Len(lru) \in Nat BY <1>a DEF TypeOK
  <2>2. lru \in [1..Len(lru) -> Cached] BY <2>1 DEF Cached
  <2>3. lru \in Bijection(1..Len(lru), Cached)
    <3>1. \A b \in Cached : \E k \in 1..Len(lru) : lru[k] = b BY DEF Cached
    <3>2. \A j, k \in 1..Len(lru) : lru[j] = lru[k] => j = k BY <1>a DEF PoolPartition
    <3> QED BY <2>2, <3>1, <3>2 DEF Bijection, Injection, Surjection, IsInjective
  <2>4. ExistsBijection(1..Len(lru), Cached) BY <2>3 DEF ExistsBijection
  <2>5. IsFiniteSet(1..Len(lru)) /\ Cardinality(1..Len(lru)) = Len(lru) BY <2>1, IntervalSize
  <2> QED BY <2>4, <2>5, FS_Bijection
<1>5. Cardinality(free \union Cached)
        = Cardinality(free) + Cardinality(Cached) - Cardinality(free \intersect Cached)
  BY <1>3, FS_Union, Zenon
<1>6. Cardinality(free \intersect Cached) = 0 BY <1>2, FS_EmptySet, Zenon
<1>7. Len(lru) \in Nat BY <1>a DEF TypeOK
<1> QED BY <1>2, <1>3, <1>4, <1>5, <1>6, <1>7 DEF num_available_blocks

\* The hits of a prompt are no more blocks than it shares.
LEMMA HitsBound ==
    ASSUME TypeOK, NEW t, NEW n \in Nat, CachedPrefix(t, n)
    PROVE  Cardinality(LruHits(t, 1, n)) \in Nat /\ Cardinality(LruHits(t, 1, n)) <= n
<1> DEFINE I == {hash_to_block[HashOf(t, i)] : i \in 1..n}
           f == [i \in 1..n |-> hash_to_block[HashOf(t, i)]]
<1>1. f \in Surjection(1..n, I) BY DEF Surjection
<1>2. IsFiniteSet(1..n) /\ Cardinality(1..n) = n BY IntervalSize
<1>3. IsFiniteSet(I) /\ Cardinality(I) <= n BY <1>1, <1>2, FS_Surjection
<1>4. LruHits(t, 1, n) \in SUBSET I BY DEF LruHits
<1> HIDE DEF I, f
<1>5. /\ IsFiniteSet(LruHits(t, 1, n)) /\ Cardinality(LruHits(t, 1, n)) <= Cardinality(I)
  BY <1>3, <1>4, FS_Subset
<1>6. Cardinality(LruHits(t, 1, n)) \in Nat /\ Cardinality(I) \in Nat BY <1>3, <1>5, FS_CardinalityType
<1> QED BY <1>3, <1>5, <1>6

\* A request that Engine::validate let through fits into an empty pool, whatever of it
\* is still cached there.
LEMMA HeadFits ==
    ASSUME SchedInv, SharingInv, Reasons, Watermark <= 0, running = <<>>, pc = "admit", call = Idle,
           waiting # <<>>
    PROVE  Admissible(waiting[1])
<1>0. /\ SchedTypeOK /\ TextBounds /\ Queues /\ StepShape /\ Holders /\ TypeOK /\ TypeInv
  BY DEF SchedInv, SchedTypeInv, TypeInv
<1>a. waiting \in Seq(Seqs) /\ 1 \in 1..Len(waiting) BY <1>0 DEF SchedTypeOK
<1>b. PICK s \in Seqs : s = waiting[1] BY <1>a
<1>c. s \in Members(waiting) BY <1>a, <1>b DEF Members
<1>d. Len(tokens[s]) < limit[s] /\ limit[s] <= Cardinality(Blocks) * BlockSize
  <2>1. status[s] = "waiting" BY <1>0, <1>c DEF Queues
  <2> QED BY <2>1 DEF Reasons
<1>e. \A r \in Seqs : blocks[r] = <<>>
  <2>1. done = <<>> BY <1>0 DEF StepShape
  <2>2. Members(running) = {} /\ Members(done) = {} BY <2>1 DEF Members
  <2> QED BY <1>0, <2>2 DEF Holders, Idle
<1>f. num_available_blocks = Cardinality(Blocks) /\ Cardinality(Blocks) \in Nat BY <1>e, WholePool
<1>g. tokens[s] \in Seq(Token) /\ Len(tokens[s]) \in Nat /\ Len(tokens[s]) <= MaxTokens
      /\ limit[s] \in Nat
  BY <1>0 DEF TypeOK, TextBounds, SchedTypeOK
<1>h. blocks_needed(Len(tokens[s])) \in Nat /\ blocks_needed(Len(tokens[s])) <= Cardinality(Blocks)
  <2>1. Cardinality(Blocks) * BlockSize \in Nat BY <1>f, Scaled
  <2>2. Len(tokens[s]) <= Cardinality(Blocks) * BlockSize BY <1>d, <1>g, <2>1
  <2> QED BY <1>f, <1>g, <2>2, SlotsCover
<1>1. admission_fits(s)
  <2>1. watermark = 0 BY Configuration DEF watermark
  <2> QED BY <2>1 DEF admission_fits
<1>2. PICK n \in 0..MaxTokens : CachedPrefix(tokens[s], n) BY <1>g, WalkEnds
<1>3. PromptFits(tokens[s], n)
  <2>1. n \in Nat BY Configuration
  <2>2. Cardinality(LruHits(tokens[s], 1, n)) \in Nat /\ Cardinality(LruHits(tokens[s], 1, n)) <= n
    BY <1>0, <1>2, <2>1, HitsBound
  <2> QED BY <1>f, <1>h, <2>1, <2>2 DEF PromptFits
<1> QED BY <1>1, <1>2, <1>3, <1>b DEF Admissible


-----------------------------------------------------------------------------
(* What a client sees.                                                     *)

\* A step that no client sees: requests only move between the queue and the batch.
Unseen ==
    /\ UNCHANGED <<tokens, limit, finish, terminals, done>>
    /\ \A s \in Seqs :
          \/ status'[s] = status[s]
          \/ /\ s \notin Members(done)
             /\ status[s] \in {"waiting", "running"} /\ status'[s] \in {"waiting", "running"}

\* The steps a client sees.
Seen ==
    \/ \E s \in Seqs : \E r \in Requests[s] : add(s, r)
    \/ \E late \in SUBSET Seqs : ExpireQueue(late)
    \/ FinishSchedule /\ HeadRejected
    \/ \E tok \in Token : Sample(tok)
    \/ RetireDone
    \/ \E s \in Aborts : (AbortWaiting(s) \/ AbortRunning(s)) /\ UNCHANGED stepVars

\* Every step is of one or the other kind.
LEMMA Views == ASSUME SchedInv, [Next]_vars PROVE Unseen \/ Seen
<1>0. SchedTypeOK /\ Queues /\ StepShape /\ TypeInv BY DEF SchedInv, SchedTypeInv
<1>1. CASE UNCHANGED <<tokens, limit, finish, terminals, done, status>> BY <1>1 DEF Unseen
<1>2. CASE ManagerStep
  <2>1. tokens' = tokens BY <1>0, <1>2, CallStepFrame DEF ManagerStep
  <2> QED BY <1>1, <1>2, <2>1 DEF ManagerStep, schedVars, requestVars, stepVars
<1>3. CASE UNCHANGED vars \/ BeginSchedule
  BY <1>1, <1>3 DEF BeginSchedule, vars, kvVars, schedVars, requestVars, stepVars
<1>4. CASE Place
  BY <1>1, <1>4 DEF Place, kvVars, requestVars, ensure_slot, GrowTable
<1>5. CASE EvictFinished BY <1>1, <1>5 DEF EvictFinished, Evict, free_table, requestVars
<1>6. CASE Preempt
  <2>1. PICK v \in Seqs : v = running[Len(running)] /\ v \in Members(running)
    <3>1. running \in Seq(Seqs) /\ running # <<>> BY <1>0, <1>6 DEF SchedTypeOK, Preempt
    <3>2. Len(running) \in 1..Len(running) BY <3>1
    <3> QED BY <3>1, <3>2 DEF Members
  <2>2. /\ status' = [status EXCEPT ![v] = "waiting"]
        /\ UNCHANGED <<tokens, finish, limit, terminals, done>>
        /\ FinishedAt = {}
    BY <1>6, <2>1 DEF Preempt, Evict, Victim, free_table
  <2>3. v \notin Members(done) /\ status[v] \in {"running", "finished"} BY <1>0, <2>1 DEF Queues
  <2>4. status[v] # "finished"
    <3>1. PICK i \in 1..Len(running) : v = running[i] BY <2>1 DEF Members
    <3> QED BY <2>2, <3>1 DEF FinishedAt, is_finished
  <2>5. \A s \in Seqs : s # v => status'[s] = status[s] BY <1>0, <2>2 DEF SchedTypeOK
  <2>6. status'[v] = "waiting" BY <1>0, <2>2 DEF SchedTypeOK
  <2> QED BY <2>2, <2>3, <2>4, <2>5, <2>6 DEF Unseen
<1>7. CASE PlaceDone \/ ChunkPrefill \/ TruncateDecode \/ SkipWaiting \/ AdmitDone
  BY <1>1, <1>7 DEF PlaceDone, ChunkPrefill, TruncateDecode, SkipWaiting, AdmitDone, kvVars, requestVars
<1>8. CASE Admit
  <2>1. PICK s \in Seqs : s = waiting[cursor] /\ s \in Members(waiting)
    BY <1>0, <1>8, AdmittingCursor DEF Admit, Members
  <2>2. /\ status' = [status EXCEPT ![s] = "running"]
        /\ UNCHANGED <<tokens, finish, limit, terminals, done>> /\ pc = "admit"
    BY <1>8, <2>1 DEF Admit, Admitting, allocate_prompt
  <2>3. status[s] = "waiting" BY <1>0, <2>1 DEF Queues
  <2>4. s \notin Members(done) BY <1>0, <2>3 DEF Queues
  <2>5. \A q \in Seqs : q # s => status'[q] = status[q] BY <1>0, <2>2 DEF SchedTypeOK
  <2>6. status'[s] = "running" BY <1>0, <2>2 DEF SchedTypeOK
  <2> QED BY <2>2, <2>3, <2>4, <2>5, <2>6 DEF Unseen
<1>9. CASE FinishSchedule BY <1>1, <1>9 DEF FinishSchedule, Seen, kvVars
<1>10. CASE Forward \/ Apply \/ SkipSample \/ EndStep
  BY <1>1, <1>10 DEF Forward, Write, Apply, commit_computed, SkipSample, EndStep, kvVars, requestVars
<1>11. CASE DrainBatch BY <1>1, <1>11 DEF DrainBatch, free_table, kvVars, requestVars
<1>12. CASE ClientStep BY <1>12 DEF ClientStep, Seen
<1>13. CASE \/ \E late \in SUBSET Seqs : ExpireQueue(late)
            \/ \E tok \in Token : Sample(tok)
            \/ RetireDone
  BY <1>13 DEF Seen
<1> QED BY <1>2, <1>3, <1>4, <1>5, <1>6, <1>7, <1>8, <1>9, <1>10, <1>11, <1>12, <1>13
       DEF Next, EngineStep, WithinStep


\* Ending some requests for a reason keeps the account of reasons.
LEMMA RetireReasons ==
    ASSUME SchedTypeOK, Reasons, NEW S \in SUBSET Seqs,
           NEW reason \in {"stop", "length", "abort", "timeout"}, retire(S, reason),
           UNCHANGED <<limit, tokens, done>>
    PROVE  Reasons'
<1>1. reason \in {"none", "stop", "length", "abort", "timeout"} /\ reason # "none" OBVIOUS
<1>2. /\ \A r \in Seqs : status'[r] = IF r \in S THEN "finished" ELSE status[r]
      /\ \A r \in Seqs : finish'[r] = IF r \in S THEN reason ELSE finish[r]
  BY <1>1, RetireFrame
<1>3. Members(done)' = Members(done) BY DEF Members
<1> SUFFICES ASSUME NEW s \in Seqs PROVE Reasons!(s)'
  BY DEF Reasons
<1>4. CASE s \in S BY <1>1, <1>2, <1>3, <1>4 DEF Reasons
<1>5. CASE s \notin S BY <1>2, <1>3, <1>5 DEF Reasons
<1> QED BY <1>4, <1>5

\* Every step keeps the account of reasons.
LEMMA NextReasons == ASSUME SchedInv, SchedInv', Reasons, [Next]_vars PROVE Reasons'
<1>0. SchedTypeOK /\ Queues /\ StepShape /\ SampleHead /\ TypeOK /\ TypeOK'
  BY DEF SchedInv, SchedTypeInv, TypeInv
<1>1. CASE Unseen
  <2>1. Members(done)' = Members(done) BY <1>1 DEF Unseen, Members
  <2> QED BY <1>1, <2>1 DEF Unseen, Reasons
<1>2. ASSUME NEW s \in Seqs, NEW r \in Requests[s], add(s, r) PROVE Reasons'
  <2>1. /\ tokens' = [tokens EXCEPT ![s] = r.prompt]
        /\ status' = [status EXCEPT ![s] = "waiting"] /\ status[s] = "new"
        /\ limit' = [limit EXCEPT ![s] = Len(r.prompt) + r.max_tokens]
        /\ UNCHANGED <<finish, done>>
    BY <1>2 DEF add, SetPrompt, stepVars
  <2>2. /\ Len(r.prompt) \in Nat /\ r.max_tokens \in Nat /\ r.max_tokens > 0
        /\ Len(r.prompt) + r.max_tokens <= MaxTokens
        /\ Len(r.prompt) + r.max_tokens <= Cardinality(Blocks) * BlockSize
    <3>1. r.prompt \in Prompts /\ r.max_tokens \in Nat /\ validate(r) BY SchedulerAssumption
    <3>2. r.prompt \in Seq(Token) BY <3>1, KVAssumption
    <3> QED BY <3>1, <3>2 DEF validate
  <2>3. Members(done)' = Members(done) BY <2>1 DEF Members
  <2>4. /\ tokens'[s] = r.prompt /\ status'[s] = "waiting" /\ limit'[s] = Len(r.prompt) + r.max_tokens
        /\ \A q \in Seqs : q # s => tokens'[q] = tokens[q] /\ status'[q] = status[q] /\ limit'[q] = limit[q]
    BY <1>0, <2>1 DEF SchedTypeOK, TypeOK
  <2>5. finish[s] = "none" BY <2>1 DEF Reasons
  <2>6. Len(r.prompt) < Len(r.prompt) + r.max_tokens BY <2>2
  <2> SUFFICES ASSUME NEW q \in Seqs PROVE Reasons!(q)' BY DEF Reasons
  <2>7. CASE q = s BY <2>1, <2>2, <2>4, <2>5, <2>6, <2>7
  <2>8. CASE q # s BY <2>1, <2>3, <2>4, <2>8 DEF Reasons
  <2> QED BY <2>7, <2>8
<1>3. ASSUME NEW late \in SUBSET Seqs, ExpireQueue(late) PROVE Reasons'
  <2>1. retire(late, "timeout") /\ UNCHANGED <<limit, tokens, done>> BY <1>3 DEF ExpireQueue, kvVars
  <2> QED BY <1>0, <2>1, RetireReasons
<1>4. CASE FinishSchedule /\ HeadRejected
  <2>1. PICK s \in Seqs : s = Head(waiting)
    BY <1>0, <1>4, TailQueue DEF HeadRejected, SchedTypeOK
  <2>2. retire({s}, "abort") /\ UNCHANGED <<limit, tokens, done>>
    BY <1>4, <2>1 DEF FinishSchedule, kvVars
  <2> QED BY <1>0, <2>2, RetireReasons
<1>5. ASSUME NEW s \in Seqs, AbortWaiting(s) \/ AbortRunning(s), UNCHANGED stepVars PROVE Reasons'
  <2>1. retire({s}, "abort") /\ UNCHANGED <<limit, tokens, done>>
    BY <1>5 DEF AbortWaiting, AbortRunning, free_table, kvVars, stepVars
  <2> QED BY <1>0, <2>1, RetireReasons
<1>6. CASE RetireDone
  <2>1. done \in Seq(Seqs) /\ done # <<>> BY <1>0, <1>6 DEF RetireDone, SchedTypeOK
  <2>2. PICK s \in Seqs : s = Head(done) BY <2>1, TailQueue
  <2>3. /\ retire({s}, finish[s]) /\ done' = Tail(done) /\ UNCHANGED <<limit, tokens>>
    BY <1>6, <2>2 DEF RetireDone, free_table
  <2>4. finish[s] \in {"none", "stop", "length", "abort", "timeout"} BY <1>0 DEF SchedTypeOK
  <2>5. /\ \A r \in Seqs : status'[r] = IF r \in {s} THEN "finished" ELSE status[r]
        /\ \A r \in Seqs : finish'[r] = IF r \in {s} THEN finish[s] ELSE finish[r]
    BY <1>0, <2>3, <2>4, RetireFrame
  <2>6. s \in Members(done) /\ Members(done) = Members(Tail(done)) \union {s} BY <2>1, <2>2, TailQueue
  <2>7. Members(done)' = Members(Tail(done)) BY <2>3 DEF Members
  <2>8. finish[s] # "none" BY <1>0, <2>6 DEF Reasons, Queues
  <2> SUFFICES ASSUME NEW q \in Seqs PROVE Reasons!(q)' BY DEF Reasons
  <2>9. CASE q = s BY <2>3, <2>5, <2>8, <2>9 DEF Reasons
  <2>10. CASE q # s
    <3>1. q \in Members(done)' <=> q \in Members(done) BY <2>6, <2>7, <2>10
    <3> QED BY <2>3, <2>5, <2>10, <3>1 DEF Reasons
  <2> QED BY <2>9, <2>10
<1>7. ASSUME NEW tok \in Token, Sample(tok) PROVE Reasons'
  <2>a. pc = "sample" /\ slices # <<>> BY <1>0, <1>7 DEF Sample, StepShape
  <2>b. PICK s \in Seqs : s = Head(slices).seq BY <1>0, <2>a, HeadSlice
  <2>c. PICK r : r = FinishReason(s, tok, num_tokens(s) + 1) OBVIOUS
  <2>1. /\ AppendToken(s, tok) /\ UNCHANGED limit
        /\ \/ /\ r = "none"
              /\ UNCHANGED <<running, status, finish, terminals, done>>
           \/ /\ r # "none" /\ Continuous
              /\ finish' = [finish EXCEPT ![s] = r]
              /\ done' = Append(done, s)
              /\ UNCHANGED status
           \/ /\ r # "none" /\ ~Continuous
              /\ retire({s}, r)
              /\ UNCHANGED done
    BY <1>7, <2>b, <2>c DEF Sample
  <2>2. /\ Len(tokens'[s]) = Len(tokens[s]) + 1 /\ Len(tokens[s]) \in Nat
        /\ \A q \in Seqs : q # s => tokens'[q] = tokens[q]
    BY <1>0, <2>1 DEF AppendToken, TypeOK
  <2>3. s \in Members(running) /\ status[s] = "running" /\ s \notin Members(done)
    BY <1>0, <2>a, <2>b DEF SampleHead, Queues, is_finished
  <2>4. r \in {"none", "stop", "length"} /\ (r = "none" => ~(Len(tokens[s]) + 1 >= limit[s]))
    BY <2>c DEF FinishReason, num_tokens
  <2>5. limit[s] \in Nat BY <1>0 DEF SchedTypeOK
  <2> SUFFICES ASSUME NEW q \in Seqs PROVE Reasons!(q)' BY DEF Reasons
  <2>6. CASE r = "none"
    <3>1. UNCHANGED <<status, finish, done>> BY <2>1, <2>6
    <3>2. Members(done)' = Members(done) BY <3>1 DEF Members
    <3>3. CASE q = s BY <2>1, <2>2, <2>3, <2>4, <2>5, <2>6, <3>1, <3>2, <3>3 DEF Reasons
    <3>4. CASE q # s BY <2>1, <2>2, <3>1, <3>2, <3>4 DEF Reasons
    <3> QED BY <3>3, <3>4
  <2>7. CASE r # "none" /\ Continuous
    <3>1. finish' = [finish EXCEPT ![s] = r] /\ done' = Append(done, s) /\ UNCHANGED status BY <2>1, <2>7
    <3>2. Members(Append(done, s)) = Members(done) \union {s} BY <1>0, AppendQueue DEF SchedTypeOK
    <3>3. Members(done)' = Members(done) \union {s} BY <3>1, <3>2 DEF Members
    <3>4. finish'[s] = r /\ \A p \in Seqs : p # s => finish'[p] = finish[p] BY <1>0, <3>1 DEF SchedTypeOK
    <3>5. CASE q = s BY <2>1, <2>3, <2>7, <3>1, <3>3, <3>4, <3>5 DEF Reasons
    <3>6. CASE q # s
      <4>1. q \in Members(done)' <=> q \in Members(done) BY <3>3, <3>6
      <4> QED BY <2>1, <2>2, <3>1, <3>4, <3>6, <4>1 DEF Reasons
    <3> QED BY <3>5, <3>6
  <2>8. CASE r # "none" /\ ~Continuous
    <3>1. retire({s}, r) /\ done' = done BY <2>1, <2>8
    <3>2. /\ \A p \in Seqs : status'[p] = IF p \in {s} THEN "finished" ELSE status[p]
          /\ \A p \in Seqs : finish'[p] = IF p \in {s} THEN r ELSE finish[p]
      BY <1>0, <2>4, <3>1, RetireFrame
    <3>3. Members(done)' = Members(done) BY <3>1 DEF Members
    <3>4. CASE q = s BY <2>1, <2>8, <3>2, <3>4 DEF Reasons
    <3>5. CASE q # s BY <2>1, <2>2, <3>2, <3>3, <3>5 DEF Reasons
    <3> QED BY <3>4, <3>5
  <2> QED BY <2>6, <2>7, <2>8
<1>8. Aborts \subseteq Seqs BY SchedulerAssumption
<1> QED BY <1>1, <1>2, <1>3, <1>4, <1>5, <1>6, <1>7, <1>8, Views DEF Seen


\* With an empty batch nothing of the budget is spent before the first admission.
LEMMA WholeBudget ==
    ASSUME SchedInv, BudgetInv, running = <<>>, pc = "admit" PROVE budget > 0
<1>0. SchedTypeOK /\ Candidates /\ StepSlices BY DEF SchedInv, SchedTypeInv
<1>1. Members(running) = {} BY DEF Members
<1>2. slices = <<>>
  <2>1. slices \in Seq(Slices) BY <1>0 DEF SchedTypeOK
  <2>2. ASSUME slices # <<>> PROVE FALSE
    <3>1. 1 \in 1..Len(slices) BY <1>0, <2>2, HeadSlice
    <3> QED BY <1>0, <1>1, <3>1 DEF StepSlices, SliceValid
  <2> QED BY <2>2
<1>3. Len(decode) = 0
  <2>1. decode \in Seq(Seqs) /\ Len(decode) \in Nat BY <1>0 DEF SchedTypeOK
  <2>2. ASSUME NEW k \in 1..Len(decode) PROVE FALSE
    <3>1. decode[k] \in Members(decode) BY DEF Members
    <3> QED BY <1>0, <1>1, <3>1 DEF Candidates
  <2>3. Len(decode) > 0 => 1 \in 1..Len(decode) BY <2>1
  <2> QED BY <2>1, <2>2, <2>3
<1>4. Cardinality(BatchTokens(slices)) = 0 BY <1>2, EmptyBatch, FS_EmptySet
<1>5. Cardinality(BatchTokens(slices)) + budget + Len(decode) = MaxBatchedTokens BY DEF BudgetInv
<1>6. budget \in Nat BY <1>0 DEF SchedTypeOK
<1> QED BY <1>3, <1>4, <1>5, <1>6, Configuration

\* The head of the queue is never rejected unless a watermark keeps it out.
LEMMA NextHead ==
    ASSUME SchedInv, SharingInv, BudgetInv, Reasons, HeadAdmitted, [Next]_vars PROVE HeadAdmitted'
<1>0. SchedTypeOK BY DEF SchedInv, SchedTypeInv
<1>a. waiting \in Seq(Seqs) /\ Len(waiting) \in Nat /\ cursor \in Nat BY <1>0 DEF SchedTypeOK
<1>1. CASE pc' \notin {"admit", "build"} BY <1>1 DEF HeadAdmitted
<1>2. CASE UNCHANGED <<running, pc, cursor, batch_open, waiting>>
  BY <1>2 DEF HeadAdmitted, may_admit
<1>3. CASE ManagerStep \/ UNCHANGED vars \/ ClientStep
  BY <1>1, <1>2, <1>3
     DEF ManagerStep, vars, schedVars, stepVars, queueVars, ClientStep, add, EngineIdle
<1>4. CASE BeginSchedule \/ Place \/ EvictFinished \/ Preempt \/ PlaceDone \/ ChunkPrefill \/ TruncateDecode
  BY <1>1, <1>4 DEF BeginSchedule, Place, EvictFinished, Preempt, Placing, PlaceDone, ChunkPrefill,
     TruncateDecode
<1>5. CASE \E late \in SUBSET Seqs : ExpireQueue(late)
  <2>1. /\ pc' = IF may_admit THEN "admit" ELSE "build"
        /\ cursor' = 1 /\ UNCHANGED batch_open
    BY <1>5 DEF ExpireQueue
  <2>2. may_admit' <=> may_admit BY <2>1 DEF may_admit
  <2> QED BY <2>1, <2>2 DEF HeadAdmitted
<1>6. CASE Admit
  <2>1. PICK s \in Seqs : s = waiting[cursor] BY <1>0, <1>6, AdmittingCursor DEF Admit
  <2>2. running' = Append(running, s) /\ running \in Seq(Seqs)
    BY <1>0, <1>6, <2>1 DEF Admit, SchedTypeOK
  <2>3. running' # <<>> BY <2>2
  <2> QED BY <2>3 DEF HeadAdmitted
<1>7. CASE SkipWaiting
  <2>1. Admitting /\ ~Admissible(waiting[cursor]) /\ running' = running
    BY <1>7 DEF SkipWaiting, queueVars
  <2>2. ASSUME Watermark <= 0, running = <<>> PROVE FALSE
    <3>1. cursor = 1 /\ pc = "admit" /\ call = Idle BY <2>1, <2>2 DEF HeadAdmitted, Admitting
    <3>2. waiting # <<>> BY <1>0, <2>1, AdmittingCursor
    <3> QED BY <2>1, <2>2, <3>1, <3>2, HeadFits
  <2> QED BY <2>1, <2>2 DEF HeadAdmitted
<1>8. CASE AdmitDone
  <2>1. /\ pc = "admit" /\ call = Idle /\ ~Admitting /\ pc' = "build"
        /\ UNCHANGED <<running, waiting, batch_open>>
    BY <1>8 DEF AdmitDone, queueVars
  <2>2. ASSUME Watermark <= 0, running = <<>> PROVE waiting = <<>>
    <3>1. cursor = 1 BY <2>1, <2>2 DEF HeadAdmitted
    <3>2. budget > 0 BY <2>1, <2>2, WholeBudget
    <3>3. ~BatchFull BY <2>2, Configuration DEF BatchFull
    <3>4. ~(cursor <= IF Lookahead <= 1 THEN Smaller(1, Len(waiting))
                                        ELSE Smaller(Len(waiting), Lookahead))
      BY <2>1, <3>2, <3>3 DEF Admitting
    <3>5. Len(waiting) = 0 BY <1>a, <3>1, <3>4, Configuration DEF Smaller
    <3> QED BY <1>a, <3>5
  <2> QED BY <2>1, <2>2 DEF HeadAdmitted
<1>9. CASE FinishSchedule \/ Forward BY <1>1, <1>9 DEF FinishSchedule, Forward
<1>10. CASE Apply \/ SkipSample \/ (\E tok \in Token : Sample(tok)) \/ RetireDone \/ EndStep \/ DrainBatch
  BY <1>1, <1>10 DEF Apply, SkipSample, Sample, NextSlice, RetireDone, EndStep, DrainBatch
<1> QED BY <1>3, <1>4, <1>5, <1>6, <1>7, <1>8, <1>9, <1>10 DEF Next, EngineStep, WithinStep

\* What holds of every reachable state.
ServiceInv == SchedInv /\ SharingInv /\ BudgetInv /\ Reasons /\ HeadAdmitted

\* The invariant behind the promises of service holds throughout.
LEMMA ServiceSafe == Spec => []ServiceInv
<1>1. Init => BudgetInv /\ HeadAdmitted
  BY EmptyBatch, FS_EmptySet, Configuration DEF Init, BudgetInv, HeadAdmitted
<1>2. Init => Reasons
  <2> SUFFICES ASSUME Init PROVE Reasons OBVIOUS
  <2>1. Cardinality(Blocks) \in Nat BY KVAssumption, FS_CardinalityType
  <2>2. 0 <= Cardinality(Blocks) * BlockSize /\ 0 <= MaxTokens BY <2>1, Scaled, Configuration
  <2> QED BY <2>2 DEF Init, Reasons
<1>3. SchedInv /\ BudgetInv /\ SchedInv' /\ [Next]_vars => BudgetInv' BY NextBudget
<1>4. SchedInv /\ SchedInv' /\ Reasons /\ [Next]_vars => Reasons' BY NextReasons
<1>5. SchedInv /\ SharingInv /\ BudgetInv /\ Reasons /\ HeadAdmitted /\ [Next]_vars => HeadAdmitted'
  BY NextHead
<1> QED BY <1>1, <1>2, <1>3, <1>4, <1>5, SchedSafe, SchedulerDrivesCache, SharingSafe, PTL
        DEF Spec, ServiceInv


\* A step of the scheduler is a step of a request's life, or the client sees none.
LEMMA LifeStep ==
    ASSUME Continuous \/ Aborts = {}, ServiceInv, SchedInv', [Next]_vars
    PROVE  [Life!LifeNext]_(Life!lifeVars)
<1>0. SchedTypeOK /\ Queues /\ StepShape /\ SampleHead /\ TypeOK /\ Reasons /\ SchedTypeOK'
  BY DEF ServiceInv, SchedInv, SchedTypeInv, TypeInv
<1> DEFINE state == [s \in Seqs |-> CASE status[s] = "new" -> "new"
                                      [] is_finished(s) -> "closed"
                                      [] OTHER -> "open"]
           abortable == IF Watermark > 0 THEN Seqs ELSE Aborts
<1>a. \A s \in Seqs : /\ status[s] = "new" => state[s] = "new"
                      /\ status[s] = "finished" => state[s] = "closed"
                      /\ status[s] \in {"waiting", "running"} => state[s] = "open"
  BY DEF is_finished
<1>b. \A s \in Seqs : /\ status'[s] = "new" => state'[s] = "new"
                      /\ status'[s] = "finished" => state'[s] = "closed"
                      /\ status'[s] \in {"waiting", "running"} => state'[s] = "open"
  BY DEF is_finished
<1>c. \A s \in Seqs : /\ status[s] \in {"new", "waiting", "running", "finished"}
                      /\ status'[s] \in {"new", "waiting", "running", "finished"}
  BY <1>0 DEF SchedTypeOK
<1>d. state = [s \in Seqs |-> state[s]] /\ state' = [s \in Seqs |-> state'[s]] OBVIOUS
<1>e. /\ Life!lifeVars = <<state, tokens, limit, finish, terminals>>
      /\ (Life!lifeVars)' = <<state', tokens', limit', finish', terminals'>>
  BY DEF Life!lifeVars
\* The steps of a request's life, in the scheduler's variables.
<1>f. ASSUME NEW S \in SUBSET Seqs,
             state' = [s \in Seqs |-> IF s \in S THEN "closed" ELSE state[s]],
             terminals' = [s \in Seqs |-> IF s \in S THEN terminals[s] + 1 ELSE terminals[s]]
      PROVE  Life!Close(S)
  BY <1>f DEF Life!Close
<1>g. ASSUME NEW S \in SUBSET Seqs, NEW r \in {"abort", "timeout"}, Life!Close(S),
             \A s \in S : state[s] = "open" /\ finish[s] = "none",
             IF r = "abort" THEN S \subseteq abortable ELSE Deadline,
             finish' = [s \in Seqs |-> IF s \in S THEN r ELSE finish[s]],
             UNCHANGED <<tokens, limit>>
      PROVE  Life!LifeNext
  <2>1. Life!GiveUp(S, r) BY <1>g DEF Life!GiveUp
  <2> QED BY <2>1 DEF Life!LifeNext
<1> HIDE DEF state
<1>h. ASSUME NEW S \in SUBSET Seqs, NEW r \in {"none", "stop", "length", "abort", "timeout"}, retire(S, r)
      PROVE  Life!Close(S)
  <2>1. \A s \in Seqs : state'[s] = IF s \in S THEN "closed" ELSE state[s]
    <3>1. \A s \in Seqs : status'[s] = IF s \in S THEN "finished" ELSE status[s]
      BY <1>0, <1>h, RetireFrame
    <3> QED BY <1>a, <1>b, <1>c, <3>1
  <2>2. state' = [s \in Seqs |-> IF s \in S THEN "closed" ELSE state[s]] BY <1>d, <2>1, Zenon
  <2>3. terminals' = [s \in Seqs |-> IF s \in S THEN terminals[s] + 1 ELSE terminals[s]]
    BY <1>h DEF retire
  <2> QED BY <1>f, <2>2, <2>3
<1>1. CASE Unseen
  <2>1. \A s \in Seqs : state'[s] = state[s] BY <1>1, <1>a, <1>b, <1>c DEF Unseen
  <2>2. state' = state BY <1>d, <2>1, Zenon
  <2> QED BY <1>1, <1>e, <2>2 DEF Unseen
\* A request is given up: nobody's but one that is open, and for a reason the client knows.
<1>2. ASSUME NEW S \in SUBSET Seqs, NEW r \in {"abort", "timeout"}, retire(S, r),
             UNCHANGED <<tokens, limit>>,
             \A s \in S : status[s] \in {"waiting", "running"} /\ s \notin Members(done),
             IF r = "abort" THEN S \subseteq abortable ELSE Deadline
      PROVE  Life!LifeNext
  <2>1. Life!Close(S) BY <1>2, <1>h
  <2>2. \A s \in S : state[s] = "open" /\ finish[s] = "none" BY <1>0, <1>2, <1>a DEF Reasons
  <2>3. finish' = [s \in Seqs |-> IF s \in S THEN r ELSE finish[s]] BY <1>2 DEF retire
  <2> QED BY <1>2, <1>g, <2>1, <2>2, <2>3
<1>3. ASSUME NEW late \in SUBSET Seqs, ExpireQueue(late) PROVE Life!LifeNext \/ Unseen
  <2>1. /\ retire(late, "timeout") /\ UNCHANGED <<limit, tokens, done>>
        /\ late \subseteq Members(waiting) /\ (late # {} => Deadline)
    BY <1>3 DEF ExpireQueue, kvVars
  <2>2. CASE late # {}
    <3>1. \A s \in late : status[s] = "waiting" /\ s \notin Members(done) BY <1>0, <2>1 DEF Queues
    <3> QED BY <1>2, <2>1, <2>2, <3>1
  <2>3. CASE late = {}
    <3>1. /\ \A r \in Seqs : status'[r] = status[r]
          /\ finish' = [s \in Seqs |-> finish[s]] /\ terminals' = [s \in Seqs |-> terminals[s]]
      BY <2>1, <2>3 DEF retire
    <3>2. finish' = finish /\ terminals' = terminals BY <1>0, <3>1 DEF SchedTypeOK
    <3> QED BY <2>1, <3>1, <3>2 DEF Unseen
  <2> QED BY <2>2, <2>3
<1>4. CASE FinishSchedule /\ HeadRejected
  <2>1. waiting \in Seq(Seqs) /\ waiting # <<>> /\ pc = "build" /\ running = <<>> /\ may_admit
    BY <1>0, <1>4 DEF FinishSchedule, HeadRejected, SchedTypeOK
  <2>2. PICK s \in Seqs : s = Head(waiting) /\ s \in Members(waiting) BY <2>1, TailQueue
  <2>3. retire({s}, "abort") /\ UNCHANGED <<limit, tokens>> BY <1>4, <2>2 DEF FinishSchedule, kvVars
  <2>4. status[s] = "waiting" /\ s \notin Members(done) BY <1>0, <2>2 DEF Queues
  <2>5. Watermark > 0
    <3>1. HeadAdmitted BY DEF ServiceInv
    <3> QED BY <2>1, <3>1, Configuration DEF HeadAdmitted
  <2> QED BY <1>2, <2>3, <2>4, <2>5
<1>5. ASSUME NEW s \in Aborts, AbortWaiting(s) \/ AbortRunning(s) PROVE Life!LifeNext
  <2>0. s \in Seqs /\ Aborts \subseteq Seqs /\ Continuous BY SchedulerAssumption
  <2>1. /\ retire({s}, "abort") /\ UNCHANGED <<limit, tokens>>
        /\ s \in Members(waiting) \/ s \in Members(running)
    BY <1>5 DEF AbortWaiting, AbortRunning, free_table, kvVars
  <2>2. status[s] \in {"waiting", "running"} /\ s \notin Members(done)
    BY <1>0, <2>0, <2>1 DEF Queues
  <2>3. {s} \subseteq abortable BY <2>0
  <2> QED BY <1>2, <2>0, <2>1, <2>2, <2>3
<1>6. CASE RetireDone
  <2>1. done \in Seq(Seqs) /\ done # <<>> BY <1>0, <1>6 DEF RetireDone, SchedTypeOK
  <2>2. PICK s \in Seqs : s = Head(done) /\ s \in Members(done) BY <2>1, TailQueue
  <2>3. retire({s}, finish[s]) /\ UNCHANGED <<limit, tokens>>
    BY <1>6, <2>2 DEF RetireDone, free_table
  <2>4. finish[s] \in {"none", "stop", "length", "abort", "timeout"} BY <1>0 DEF SchedTypeOK
  <2>5. Life!Close({s}) BY <1>h, <2>3, <2>4
  <2>6. status[s] = "running" /\ finish[s] # "none" BY <1>0, <2>2 DEF Queues, Reasons
  <2>7. finish' = finish
    <3>1. finish' = [r \in Seqs |-> IF r \in {s} THEN finish[s] ELSE finish[r]] BY <2>3 DEF retire
    <3>2. finish = [r \in Seqs |-> finish[r]] BY <1>0 DEF SchedTypeOK
    <3> QED BY <3>1, <3>2, Zenon
  <2>8. state[s] = "open" BY <1>a, <2>6
  <2>9. Life!End(s) BY <2>3, <2>5, <2>6, <2>7, <2>8 DEF Life!End, state
  <2> QED BY <2>9 DEF Life!LifeNext
<1>7. ASSUME NEW s \in Seqs, NEW r \in Requests[s], add(s, r) PROVE Life!LifeNext
  <2>1. /\ tokens' = [tokens EXCEPT ![s] = r.prompt]
        /\ status' = [status EXCEPT ![s] = "waiting"] /\ status[s] = "new"
        /\ limit' = [limit EXCEPT ![s] = Len(r.prompt) + r.max_tokens]
        /\ UNCHANGED <<finish, terminals>>
    BY <1>7 DEF add, SetPrompt
  <2>2. PICK p \in Prompts, n \in Int :
           /\ p = r.prompt /\ n = Len(r.prompt) + r.max_tokens /\ n \in Len(p) + 1..MaxTokens
    <3>1. r.prompt \in Prompts /\ r.max_tokens \in Nat /\ validate(r) BY SchedulerAssumption
    <3>2. Len(r.prompt) \in Nat BY <3>1, KVAssumption
    <3> QED BY <3>1, <3>2, Configuration DEF validate
  <2>3. state' = [state EXCEPT ![s] = "open"]
    <3>1. \A q \in Seqs : status'[q] = IF q = s THEN "waiting" ELSE status[q]
      BY <1>0, <2>1 DEF SchedTypeOK
    <3>2. \A q \in Seqs : state'[q] = IF q = s THEN "open" ELSE state[q]
      BY <1>a, <1>b, <1>c, <3>1
    <3>3. [state EXCEPT ![s] = "open"] = [q \in Seqs |-> IF q = s THEN "open" ELSE state[q]]
      BY <1>d
    <3> QED BY <1>d, <3>2, <3>3, Zenon
  <2>4. state[s] = "new" BY <1>a, <2>1
  <2>5. Life!Submit(s) BY <2>1, <2>2, <2>3, <2>4 DEF Life!Submit, state
  <2> QED BY <2>5 DEF Life!LifeNext
<1>8. ASSUME NEW tok \in Token, Sample(tok) PROVE Life!LifeNext
  <2>0. pc = "sample" /\ slices # <<>> /\ UNCHANGED limit BY <1>0, <1>8 DEF Sample, StepShape
  <2>1. PICK s \in Seqs : s = Head(slices).seq /\ s \in Members(running) /\ ~is_finished(s)
    BY <1>0, <2>0, HeadSlice DEF SampleHead
  <2>2. PICK r : r = FinishReason(s, tok, num_tokens(s) + 1) OBVIOUS
  <2>3. /\ tokens' = [tokens EXCEPT ![s] = Append(@, tok)]
        /\ \/ r = "none" /\ UNCHANGED <<status, finish, terminals>>
           \/ r # "none" /\ finish' = [finish EXCEPT ![s] = r] /\ UNCHANGED <<status, terminals>>
           \/ r # "none" /\ retire({s}, r)
    BY <1>8, <2>1, <2>2 DEF Sample, AppendToken
  <2>4. status[s] = "running" /\ s \notin Members(done) /\ finish[s] = "none" /\ state[s] = "open"
    <3>1. status[s] = "running" /\ s \notin Members(done) BY <1>0, <2>1 DEF Queues, is_finished
    <3> QED BY <1>0, <1>a, <3>1 DEF Reasons
  <2>5. tokens[s] \in Seq(Token) /\ tokens'[s] = Append(tokens[s], tok) /\ limit[s] \in Int
    BY <1>0, <2>3 DEF TypeOK, SchedTypeOK
  <2>6. Len(tokens'[s]) = num_tokens(s) + 1 BY <2>5 DEF num_tokens
  <2>7. r \in {"none", "stop", "length", "abort", "timeout"} /\ r = Life!Verdict(tok, Len(tokens'[s]), limit[s])
    BY <2>2, <2>6 DEF FinishReason, Life!Verdict
  <2>8. finish' = [finish EXCEPT ![s] = r] /\ finish'[s] = r
    <3>1. finish \in [Seqs -> {"none", "stop", "length", "abort", "timeout"}] BY <1>0 DEF SchedTypeOK
    <3>2. finish = [q \in Seqs |-> finish[q]] BY <3>1
    <3>3. CASE r = "none" /\ UNCHANGED finish BY <2>4, <3>1, <3>3
    <3>4. CASE retire({s}, r) BY <3>1, <3>4 DEF retire
    <3> QED BY <2>3, <3>1, <3>3, <3>4
  <2>9. \/ state' = state /\ terminals' = terminals
        \/ r # "none" /\ Life!Close({s})
    <3>1. CASE UNCHANGED <<status, terminals>>
      <4>1. \A q \in Seqs : state'[q] = state[q] BY <3>1, <1>a, <1>b, <1>c
      <4> QED BY <1>d, <3>1, <4>1, Zenon
    <3>2. CASE r # "none" /\ retire({s}, r) BY <1>h, <2>7, <3>2
    <3> QED BY <2>3, <3>1, <3>2
  <2>10. Life!Emit(s, tok) BY <2>0, <2>3, <2>4, <2>7, <2>8, <2>9 DEF Life!Emit, state
  <2> QED BY <2>10 DEF Life!LifeNext
<1>9. SchedInv BY DEF ServiceInv
<1> QED BY <1>1, <1>3, <1>4, <1>5, <1>6, <1>7, <1>8, <1>9, Views DEF Seen

\* A client sees nothing of the scheduler but the life of its request: preemption and
\* recomputation neither lose, repeat nor change a token, a request ends once, for a
\* reason its text or its client knows of, and nobody is aborted unasked.  A static batch
\* whose clients abort is left out: abort() of a member that has finished and waits for its
\* batch fires the terminal callback again.
THEOREM ClientSeesALife == ASSUME Continuous \/ Aborts = {} PROVE Spec => Life!LifeSafety
<1>1. Init => Life!LifeInit BY DEF Init, KVInit, Life!LifeInit, is_finished
<1>2. ServiceInv /\ SchedInv' /\ [Next]_vars => [Life!LifeNext]_(Life!lifeVars) BY LifeStep
<1> QED BY <1>1, <1>2, ServiceSafe, SchedSafe, PTL DEF Spec, Life!LifeSafety

===============================================================================
