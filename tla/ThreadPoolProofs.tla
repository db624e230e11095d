-------------------------- MODULE ThreadPoolProofs --------------------------
(***************************************************************************)
(* Proofs about the worker pool, for every number of threads, every loop   *)
(* length and every width of the generation counter: parallel_for runs its *)
(* body once on every index, no worker outlives the call that woke it, and *)
(* no notification is lost.                                                *)
(*                                                                         *)
(* The inductive invariant, PoolInv, counts: `remaining' is the number of  *)
(* workers that have not reported yet (Pending), and an index has been hit *)
(* exactly if the thread whose part it is in has run (Ran).                *)
(***************************************************************************)
EXTENDS ThreadPool, FiniteSetTheorems, TLAPS

Busy == {"part", "body", "finish"}
Resting == {"wait", "asleep"}
Stopping == {"notify_stop", "join_workers", "gone"}

\* The workers that have not reported to the call.
Pending == {w \in Workers : at[w] \in Busy \/ seen[w] # generation}

\* The body has run over thread t's part, if that is not empty.
Ran(t) == IF t = 0 THEN at[0] \in {"join", "asleep"} ELSE t \notin Pending \/ at[t] = "finish"

PlacesOK ==
    /\ at[0] \in {"ready", "notify", "part", "body", "join", "asleep"} \union Stopping
    /\ \A w \in Workers : at[w] \in Busy \union Resting \union {"gone"}

\* During a call.
ForkedOK ==
    Forked =>
        /\ N > 1 /\ count \in Nat /\ DOMAIN hits = 0..count - 1
        /\ body = "loop" /\ ~stop
        /\ remaining = Cardinality(Pending)
        /\ \A w \in Workers : at[w] # "gone"
        /\ \A i \in 0..count - 1 :
               \/ hits[i] = 1 /\ \E t \in Threads : Ran(t) /\ In(i, PartOf(t, count))
               \/ hits[i] = 0 /\ \A t \in Threads : Ran(t) => ~In(i, PartOf(t, count))

\* Between two calls.
ReadyOK ==
    at[0] = "ready" =>
        /\ ~stop
        /\ \A w \in Workers : at[w] \in Resting /\ seen[w] = generation

\* During and after the destructor.
StoppingOK ==
    at[0] \in Stopping =>
        /\ N > 1 => stop
        /\ \A w \in Workers : at[w] = "gone" \/ (at[w] \in Resting /\ seen[w] # generation)
        /\ \A i \in DOMAIN hits : hits[i] = 1

BusyOK == \A w \in Workers : at[w] \in Busy => Forked /\ seen[w] = generation

PartsOK == \A t \in Threads : at[t] = "body" => part[t] = PartOf(t, count)

PoolInv ==
    /\ PoolTypeOK /\ PlacesOK /\ ForkedOK /\ ReadyOK /\ StoppingOK /\ BusyOK /\ PartsOK
    /\ NoLostWakeup /\ EachIndexOnce

-----------------------------------------------------------------------------
(* The parts of [0, n).                                                    *)

\* Integer division, by what it is bounded.
LEMMA Quotient ==
    ASSUME NEW a \in Nat, NEW b \in Nat \ {0}
    PROVE  /\ a \div b \in Nat
           /\ b * (a \div b) <= a /\ a < b * (a \div b) + b
BY SMTT(20)

\* Multiplication by a natural number is monotone.
LEMMA Scaling ==
    ASSUME NEW p \in Nat, NEW a \in Nat, NEW b \in Nat, a < b
    PROVE  p * a \in Nat /\ p * b \in Nat /\ p * a + p <= p * b
<1>1. PICK c \in Nat : b = a + 1 + c
  <2>1. b - a - 1 \in Nat /\ b = a + 1 + (b - a - 1) OBVIOUS
  <2> QED BY <2>1
<1>2. p * b = p * a + p + p * c BY <1>1
<1>3. p * a \in Nat /\ p * c \in Nat OBVIOUS
<1> QED BY <1>1, <1>2, <1>3

\* The generation changes with every call.
LEMMA NextGeneration ==
    ASSUME NEW g \in 0..GenMod - 1
    PROVE  (g + 1) % GenMod \in 0..GenMod - 1 /\ (g + 1) % GenMod # g
<1> USE PoolAssumption
<1>1. CASE g + 1 < GenMod BY <1>1
<1>2. CASE g + 1 = GenMod BY <1>2
<1> QED BY <1>1, <1>2

\* What run_part computes.
LEMMA PartFacts ==
    ASSUME NEW n \in Nat
    PROVE  \E per \in Nat :
               /\ n <= per * N
               /\ \A t \in Threads :
                      /\ per * t \in Nat
                      /\ PartOf(t, n)[1] = per * t
                      /\ PartOf(t, n)[2] = (IF n < per * t + per THEN n ELSE per * t + per)
                      /\ PartOf(t, n) \in Int \X Int
<1>1. PICK per \in Nat : per = (n + N - 1) \div N
  <2>1. n + N - 1 \in Nat BY PoolAssumption
  <2> QED BY <2>1, Quotient, PoolAssumption
<1>2. n <= per * N
  <2>1. n + N - 1 \in Nat BY PoolAssumption
  <2>2. n + N - 1 < N * per + N BY <1>1, <2>1, Quotient, PoolAssumption
  <2>3. N * per = per * N /\ N * per \in Nat BY PoolAssumption
  <2> QED BY <2>2, <2>3, PoolAssumption
<1>3. ASSUME NEW t \in Threads
      PROVE  /\ per * t \in Nat
             /\ PartOf(t, n)[1] = per * t
             /\ PartOf(t, n)[2] = (IF n < per * t + per THEN n ELSE per * t + per)
             /\ PartOf(t, n) \in Int \X Int
  <2>1. per * t \in Nat BY PoolAssumption DEF Threads
  <2> QED BY <1>1, <2>1 DEF PartOf, MinOf
<1> QED BY <1>2, <1>3

\* The parts do not overlap.
LEMMA PartsDisjoint ==
    ASSUME NEW n \in Nat, NEW i \in Int, NEW t \in Threads, NEW u \in Threads,
           In(i, PartOf(t, n)), In(i, PartOf(u, n))
    PROVE  t = u
<1>1. PICK per \in Nat :
          \A r \in Threads : /\ per * r \in Nat
                             /\ PartOf(r, n)[1] = per * r
                             /\ PartOf(r, n)[2] = (IF n < per * r + per THEN n ELSE per * r + per)
  BY PartFacts
<1>2. per * t <= i /\ i < per * t + per /\ per * u <= i /\ i < per * u + per
  BY <1>1 DEF In
<1>3. t \in Nat /\ u \in Nat BY PoolAssumption DEF Threads
<1>4. ~(t < u) BY <1>1, <1>2, <1>3, Scaling
<1>5. ~(u < t) BY <1>1, <1>2, <1>3, Scaling
<1> QED BY <1>3, <1>4, <1>5

\* The parts cover the loop.
LEMMA PartsCover ==
    ASSUME NEW n \in Nat, NEW i \in 0..n - 1
    PROVE  \E t \in Threads : In(i, PartOf(t, n))
<1>1. PICK per \in Nat :
          /\ n <= per * N
          /\ \A r \in Threads : /\ per * r \in Nat
                                /\ PartOf(r, n)[1] = per * r
                                /\ PartOf(r, n)[2] = (IF n < per * r + per THEN n ELSE per * r + per)
  BY PartFacts
<1>2. i \in Nat /\ i < n /\ N \in Nat BY PoolAssumption
<1>3. per # 0 BY <1>1, <1>2
<1>4. PICK t \in Nat : per * t <= i /\ i < per * t + per
  BY <1>2, <1>3, Quotient
<1>5. t < N
  <2> SUFFICES ASSUME ~(t < N) PROVE FALSE OBVIOUS
  <2>1. CASE t = N BY <1>1, <1>2, <1>4, <2>1
  <2>2. CASE N < t
    <3>1. per * N \in Nat /\ per * t \in Nat /\ per * N + per <= per * t BY <1>2, <2>2, Scaling
    <3> QED BY <1>1, <1>2, <1>4, <3>1
  <2> QED BY <1>2, <2>1, <2>2
<1>6. t \in Threads BY <1>5, PoolAssumption DEF Threads
<1>7. In(i, PartOf(t, n)) BY <1>1, <1>2, <1>4, <1>6 DEF In
<1> QED BY <1>6, <1>7

-----------------------------------------------------------------------------
(* One lemma per step: it keeps the invariant.                             *)

\* The threads are the caller and finitely many workers.
LEMMA ThreadFacts ==
    /\ 0 \in Threads /\ Workers \subseteq Threads /\ 0 \notin Workers
    /\ Threads = Workers \union {0}
    /\ IsFiniteSet(Workers) /\ Cardinality(Workers) = N - 1
    /\ IsFiniteSet(Pending)
<1>1. /\ 0 \in Threads /\ Workers \subseteq Threads /\ 0 \notin Workers
      /\ Threads = Workers \union {0}
  BY PoolAssumption DEF Threads, Workers
<1>2. IsFiniteSet(Workers) /\ Cardinality(Workers) = N - 1
  <2>1. 1 \in Int /\ N - 1 \in Int BY PoolAssumption
  <2>2. IsFiniteSet(1..N - 1)
        /\ Cardinality(1..N - 1) = (IF 1 > N - 1 THEN 0 ELSE (N - 1) - 1 + 1)
    BY <2>1, FS_Interval
  <2> QED BY <2>2, PoolAssumption DEF Workers
<1>3. IsFiniteSet(Pending) BY <1>2, FS_Subset DEF Pending
<1> QED BY <1>1, <1>2, <1>3

\* No worker is pending once all have reported.
LEMMA NonePending ==
    ASSUME remaining = Cardinality(Pending), remaining = 0
    PROVE  \A w \in Workers : at[w] \notin Busy /\ seen[w] = generation
<1>1. Pending = {} BY ThreadFacts, FS_EmptySet
<1> QED BY <1>1 DEF Pending

\* A loop that is not shared leaves the pool alone.
LEMMA RunInlineStep == ASSUME PoolInv, NEW n \in Counts, RunInline(n) PROVE PoolInv'
<1> USE DEF PoolInv
<1>1. at[0] = "ready" /\ hits' = [i \in 0..n - 1 |-> 1] /\ UNCHANGED <<memberVars, seen, at, part>>
  BY DEF RunInline
<1>2. PoolTypeOK' BY <1>1 DEF PoolTypeOK, memberVars
<1>3. PlacesOK' BY <1>1 DEF PlacesOK
<1>4. ForkedOK' BY <1>1 DEF ForkedOK, Forked
<1>5. ReadyOK' /\ StoppingOK' BY <1>1 DEF ReadyOK, StoppingOK, Stopping, memberVars
<1>6. BusyOK' BY <1>1 DEF BusyOK, Forked, memberVars
<1>7. PartsOK' BY <1>1 DEF PartsOK, PartOf, memberVars
<1>8. NoLostWakeup' BY <1>1 DEF NoLostWakeup, memberVars
<1>9. EachIndexOnce' BY <1>1 DEF EachIndexOnce
<1> QED BY <1>2, <1>3, <1>4, <1>5, <1>6, <1>7, <1>8, <1>9

\* A call begins: every worker is pending, and nothing has run.
LEMMA ForkStep == ASSUME PoolInv, NEW n \in Counts, Fork(n) PROVE PoolInv'
<1> USE DEF PoolInv
<1>1. /\ at[0] = "ready" /\ n \in Nat /\ N > 1
      /\ count' = n /\ body' = "loop" /\ remaining' = N - 1
      /\ generation' = (generation + 1) % GenMod
      /\ hits' = [i \in 0..n - 1 |-> 0]
      /\ at' = [at EXCEPT ![0] = "notify"]
      /\ UNCHANGED <<stop, seen, part>>
  BY PoolAssumption DEF Fork, Forks
<1>2. generation' \in 0..GenMod - 1 /\ generation' # generation
  BY <1>1, NextGeneration DEF PoolTypeOK
<1>3. at'[0] = "notify" /\ \A w \in Workers : at'[w] = at[w]
  BY <1>1, ThreadFacts DEF PoolTypeOK
<1>4. \A w \in Workers : at'[w] \in Resting /\ seen'[w] # generation'
  BY <1>1, <1>2, <1>3 DEF ReadyOK
<1>5. PoolTypeOK'
  <2>1. hits' \in [DOMAIN hits' -> Nat] BY <1>1
  <2>2. remaining' \in Nat /\ count' \in Int BY <1>1, PoolAssumption
  <2>3. UNCHANGED <<stop, seen, part>> /\ at' = [at EXCEPT ![0] = "notify"] /\ body' = "loop" BY <1>1
  <2> QED BY <1>2, <2>1, <2>2, <2>3 DEF PoolTypeOK
<1>6. PlacesOK' BY <1>3 DEF PlacesOK
<1>7. Pending' = Workers BY <1>4 DEF Pending
<1>8. ForkedOK'
  <2>1. remaining' = Cardinality(Pending') BY <1>1, <1>7, ThreadFacts
  <2>2. \A t \in Threads : ~Ran(t)'
    <3>1. ~Ran(0)' BY <1>3 DEF Ran
    <3>2. \A w \in Workers : ~Ran(w)' BY <1>4, <1>7, ThreadFacts DEF Ran, Resting
    <3> QED BY <3>1, <3>2, ThreadFacts
  <2>3. \A i \in 0..n - 1 : hits'[i] = 0 BY <1>1
  <2>4. ~stop' BY <1>1 DEF ReadyOK
  <2>5. \A w \in Workers : at'[w] # "gone" BY <1>4 DEF Resting
  <2> QED BY <1>1, <2>1, <2>2, <2>3, <2>4, <2>5 DEF ForkedOK
<1>9. ReadyOK' /\ StoppingOK' BY <1>3 DEF ReadyOK, StoppingOK, Stopping
<1>10. BusyOK' BY <1>4 DEF BusyOK, Busy, Resting
<1>11. PartsOK' BY <1>3, <1>4, ThreadFacts DEF PartsOK, Resting
<1>12. NoLostWakeup' BY <1>3 DEF NoLostWakeup
<1>13. EachIndexOnce' BY <1>3 DEF EachIndexOnce
<1> QED BY <1>5, <1>6, <1>8, <1>9, <1>10, <1>11, <1>12, <1>13

\* A worker that has seen the generation sleeps; one that has not takes the call, or
\* leaves if the pool is being destroyed.
LEMMA WaitStep == ASSUME PoolInv, NEW w \in Workers, Wait(w) PROVE PoolInv'
<1> USE DEF PoolInv
<1>1. at[w] = "wait" /\ UNCHANGED <<memberVars, part, hits>> BY DEF Wait
<1>a. w \in Threads /\ w # 0 BY ThreadFacts
<1>2. CASE generation = seen[w] /\ at' = [at EXCEPT ![w] = "asleep"] /\ UNCHANGED seen
  <2>1. at'[w] = "asleep" /\ \A t \in Threads \ {w} : at'[t] = at[t]
    BY <1>a, <1>2 DEF PoolTypeOK
  <2>2. at'[0] = at[0] /\ Forked' = Forked BY <1>a, <2>1, ThreadFacts DEF Forked
  <2>3. Pending' = Pending
    BY <1>1, <1>2, <2>1, ThreadFacts DEF Pending, Busy, memberVars
  <2>4. \A t \in Threads : Ran(t)' = Ran(t) BY <1>1, <2>1, <2>2, <2>3 DEF Ran
  <2>5. PoolTypeOK' BY <1>1, <1>2 DEF PoolTypeOK, memberVars
  <2>6. PlacesOK' BY <2>1, <2>2, ThreadFacts DEF PlacesOK, Resting
  <2>7. ForkedOK' BY <1>1, <2>1, <2>2, <2>3, <2>4, ThreadFacts DEF ForkedOK, memberVars, PartOf
  <2>8. ReadyOK' /\ StoppingOK'
    BY <1>1, <1>2, <2>1, <2>2, ThreadFacts DEF ReadyOK, StoppingOK, memberVars, Resting
  <2>9. BusyOK' BY <1>1, <1>2, <2>1, <2>2, ThreadFacts DEF BusyOK, memberVars, Busy
  <2>10. PartsOK' BY <1>1, <2>1 DEF PartsOK, memberVars, PartOf
  <2>11. NoLostWakeup' BY <1>1, <1>2, <2>1, <2>2, ThreadFacts DEF NoLostWakeup, memberVars
  <2>12. EachIndexOnce' BY <1>1, <2>2 DEF EachIndexOnce
  <2> QED BY <2>5, <2>6, <2>7, <2>8, <2>9, <2>10, <2>11, <2>12
<1>3. CASE /\ generation # seen[w]
           /\ seen' = [seen EXCEPT ![w] = generation]
           /\ at' = [at EXCEPT ![w] = IF stop THEN "gone" ELSE "part"]
  <2>1. /\ at'[w] = (IF stop THEN "gone" ELSE "part") /\ \A t \in Threads \ {w} : at'[t] = at[t]
        /\ seen'[w] = generation /\ \A v \in Workers \ {w} : seen'[v] = seen[v]
    BY <1>a, <1>3 DEF PoolTypeOK
  <2>2. at'[0] = at[0] /\ Forked' = Forked BY <1>a, <2>1, ThreadFacts DEF Forked
  <2>a. N > 1 BY PoolAssumption DEF Workers
  <2>3. (stop <=> at[0] \in Stopping) /\ (~stop <=> Forked)
    BY <1>3, <2>a DEF PlacesOK, ForkedOK, ReadyOK, StoppingOK, Forked, Stopping
  <2>4. ~stop => Pending' = Pending
    BY <1>1, <1>3, <2>1, ThreadFacts DEF Pending, Busy, memberVars
  <2>5. ~stop => \A t \in Threads : Ran(t)' = Ran(t)
    BY <1>1, <1>3, <2>1, <2>2, <2>4, ThreadFacts DEF Ran, Pending
  <2>6. PoolTypeOK' BY <1>1, <1>3 DEF PoolTypeOK, memberVars
  <2>7. PlacesOK' BY <2>1, <2>2, ThreadFacts DEF PlacesOK, Busy
  <2>8. ForkedOK'
    BY <1>1, <2>1, <2>2, <2>3, <2>4, <2>5, ThreadFacts DEF ForkedOK, memberVars, PartOf
  <2>9. ReadyOK' BY <2>2, <2>3 DEF ReadyOK, Forked, Stopping
  <2>10. StoppingOK'
    BY <1>1, <2>1, <2>2, <2>3, ThreadFacts DEF StoppingOK, memberVars
  <2>11. BusyOK' BY <1>1, <2>1, <2>2, <2>3, ThreadFacts DEF BusyOK, memberVars, Busy
  <2>12. PartsOK' BY <1>1, <2>1 DEF PartsOK, memberVars, PartOf
  <2>13. NoLostWakeup' BY <1>1, <2>1, <2>2, ThreadFacts DEF NoLostWakeup, memberVars
  <2>14. EachIndexOnce' BY <1>1, <2>2 DEF EachIndexOnce
  <2> QED BY <2>6, <2>7, <2>8, <2>9, <2>10, <2>11, <2>12, <2>13, <2>14
<1> QED BY <1>2, <1>3 DEF Wait

\* count_ is read after the generation, and no part is computed outside a call.
LEMMA ReadPartStep ==
    ASSUME PoolInv, NEW t \in Threads, NEW after, ReadPart(t, after),
           after = IF t = 0 THEN "join" ELSE "finish"
    PROVE  PoolInv'
<1> USE DEF PoolInv
<1> DEFINE p == PartOf(t, count)
<1>1. /\ at[t] = "part" /\ UNCHANGED <<memberVars, seen, hits>>
      /\ part' = [part EXCEPT ![t] = p]
  BY DEF ReadPart
<1>2. Forked /\ count \in Nat
  <2>1. Forked BY <1>1, ThreadFacts DEF BusyOK, Busy, Forked
  <2> QED BY <2>1 DEF ForkedOK
<1>3. part'[t] = p /\ \A u \in Threads \ {t} : part'[u] = part[u] BY <1>1 DEF PoolTypeOK
<1>4. /\ at'[t] = (IF p[1] < p[2] THEN "body" ELSE after)
      /\ \A u \in Threads \ {t} : at'[u] = at[u]
      /\ at' = [at EXCEPT ![t] = IF p[1] < p[2] THEN "body" ELSE after]
  BY <1>3 DEF ReadPart, PoolTypeOK
<1>5. p \in Int \X Int BY <1>2, PartFacts
<1>6. at'[t] = "body" \/ (at'[t] = after /\ \A i \in Int : ~In(i, p))
  <2>1. CASE p[1] < p[2] BY <1>4, <2>1
  <2>2. CASE ~(p[1] < p[2])
    <3>1. p[1] \in Int /\ p[2] \in Int BY <1>5
    <3>2. \A i \in Int : ~In(i, p) BY <2>2, <3>1 DEF In
    <3> QED BY <1>4, <2>2, <3>2
  <2> QED BY <2>1, <2>2
<1> HIDE DEF p
<1>7. Forked' /\ (at'[0] = "asleep" => at[0] = "asleep")
  BY <1>1, <1>2, <1>4, ThreadFacts DEF Forked
<1>8. Pending' = Pending
  BY <1>1, <1>4, ThreadFacts DEF Pending, Busy, memberVars
<1>9. \A u \in Threads : (Ran(u)' <=> Ran(u)) \/ (u = t /\ ~Ran(u) /\ \A i \in Int : ~In(i, p))
  <2>1. \A u \in Threads \ {t} : Ran(u)' = Ran(u) BY <1>4, <1>8, ThreadFacts DEF Ran
  <2>2. ~Ran(t) BY <1>1, ThreadFacts DEF Ran, Pending, Busy
  <2>3. at'[t] = "body" => ~Ran(t)' BY <1>1, <1>8, ThreadFacts DEF Ran, Pending, Busy
  <2> QED BY <1>6, <2>1, <2>2, <2>3
<1>10. PoolTypeOK' BY <1>1, <1>4, <1>5 DEF PoolTypeOK, memberVars
<1>11. PlacesOK' BY <1>4, ThreadFacts DEF PlacesOK, Busy
<1>12. ForkedOK'
  <2>1. \A u \in Threads, i \in 0..count - 1 :
            (Ran(u)' /\ In(i, PartOf(u, count))) <=> (Ran(u) /\ In(i, PartOf(u, count)))
    BY <1>9 DEF p
  <2>2. \A w \in Workers : at'[w] # "gone" BY <1>2, <1>4, ThreadFacts DEF ForkedOK
  <2>3. count' = count /\ hits' = hits /\ body' = body /\ stop' = stop /\ remaining' = remaining
    BY <1>1 DEF memberVars
  <2> QED BY <1>2, <1>8, <2>1, <2>2, <2>3 DEF ForkedOK, PartOf
<1>13. ReadyOK' /\ StoppingOK' BY <1>7 DEF ReadyOK, StoppingOK, Forked, Stopping
<1>14. BusyOK' BY <1>1, <1>4, <1>7, ThreadFacts DEF BusyOK, memberVars, Busy
<1>15. PartsOK' BY <1>1, <1>3, <1>4 DEF PartsOK, PartOf, memberVars, p
<1>16. NoLostWakeup' BY <1>1, <1>4, <1>7, ThreadFacts DEF NoLostWakeup, memberVars
<1>17. EachIndexOnce' BY <1>7 DEF EachIndexOnce, Forked
<1> QED BY <1>10, <1>11, <1>12, <1>13, <1>14, <1>15, <1>16, <1>17

\* An index is in one part only, so that the body had not run on it before.
LEMMA RunBodyStep ==
    ASSUME PoolInv, NEW t \in Threads, NEW after, RunBody(t, after),
           after = IF t = 0 THEN "join" ELSE "finish"
    PROVE  PoolInv'
<1> USE DEF PoolInv
<1>1. /\ at[t] = "body" /\ UNCHANGED <<memberVars, seen, part>>
      /\ hits' = [i \in DOMAIN hits |-> hits[i] + (IF In(i, part[t]) THEN 1 ELSE 0)]
      /\ at' = [at EXCEPT ![t] = after]
  BY DEF RunBody
<1>2. Forked /\ count \in Nat /\ DOMAIN hits = 0..count - 1
  <2>1. Forked BY <1>1, ThreadFacts DEF BusyOK, Busy, Forked
  <2> QED BY <2>1 DEF ForkedOK
<1>3. part[t] = PartOf(t, count) BY <1>1 DEF PartsOK
<1>4. at'[t] = after /\ \A u \in Threads \ {t} : at'[u] = at[u] BY <1>1 DEF PoolTypeOK
<1>7. Forked' /\ (at'[0] = "asleep" => at[0] = "asleep")
  BY <1>1, <1>2, <1>4, ThreadFacts DEF Forked
<1>8. Pending' = Pending
  BY <1>1, <1>4, ThreadFacts DEF Pending, Busy, memberVars
<1>9. ~Ran(t) /\ Ran(t)' /\ \A u \in Threads \ {t} : Ran(u)' = Ran(u)
  <2>1. \A u \in Threads \ {t} : Ran(u)' = Ran(u) BY <1>4, <1>8, ThreadFacts DEF Ran
  <2>2. ~Ran(t) BY <1>1, ThreadFacts DEF Ran, Pending, Busy
  <2>3. Ran(t)' BY <1>4, ThreadFacts DEF Ran
  <2> QED BY <2>1, <2>2, <2>3
<1>10. PoolTypeOK'
  <2>1. hits' \in [DOMAIN hits' -> Nat] BY <1>1 DEF PoolTypeOK
  <2>2. at' \in [Threads -> {"ready", "notify", "part", "body", "join", "asleep", "notify_stop",
                             "join_workers", "wait", "finish", "gone"}]
    BY <1>1 DEF PoolTypeOK
  <2> QED BY <1>1, <2>1, <2>2 DEF PoolTypeOK, memberVars
<1>11. PlacesOK' BY <1>4, ThreadFacts DEF PlacesOK, Busy
<1>12. ForkedOK'
  <2>1. ASSUME NEW i \in 0..count - 1
        PROVE  \/ hits'[i] = 1 /\ \E u \in Threads : Ran(u)' /\ In(i, PartOf(u, count))
               \/ hits'[i] = 0 /\ \A u \in Threads : Ran(u)' => ~In(i, PartOf(u, count))
    <3>1. CASE In(i, PartOf(t, count))
      <4>1. \A u \in Threads : Ran(u) => ~In(i, PartOf(u, count))
        BY <1>2, <1>9, <3>1, PartsDisjoint
      <4>2. hits[i] = 0 BY <1>2, <4>1 DEF ForkedOK
      <4>3. hits'[i] = 1 BY <1>1, <1>2, <1>3, <3>1, <4>2
      <4> QED BY <1>9, <3>1, <4>3
    <3>2. CASE ~In(i, PartOf(t, count))
      <4>1. hits[i] \in Nat BY <1>2 DEF PoolTypeOK
      <4>2. hits'[i] = hits[i] BY <1>1, <1>2, <1>3, <3>2, <4>1
      <4>3. \A u \in Threads : (Ran(u)' /\ In(i, PartOf(u, count))) <=> (Ran(u) /\ In(i, PartOf(u, count)))
        BY <1>9, <3>2
      <4> QED BY <1>2, <4>2, <4>3 DEF ForkedOK
    <3> QED BY <3>1, <3>2
  <2>2. \A w \in Workers : at'[w] # "gone" BY <1>2, <1>4, ThreadFacts DEF ForkedOK
  <2>3. count' = count /\ DOMAIN hits' = DOMAIN hits /\ body' = body /\ stop' = stop
        /\ remaining' = remaining
    BY <1>1 DEF memberVars
  <2> QED BY <1>2, <1>8, <2>1, <2>2, <2>3 DEF ForkedOK, PartOf
<1>13. ReadyOK' /\ StoppingOK' BY <1>7 DEF ReadyOK, StoppingOK, Forked, Stopping
<1>14. BusyOK' BY <1>1, <1>4, <1>7, ThreadFacts DEF BusyOK, memberVars, Busy
<1>15. PartsOK' BY <1>1, <1>4 DEF PartsOK, PartOf, memberVars
<1>16. NoLostWakeup' BY <1>1, <1>4, <1>7, ThreadFacts DEF NoLostWakeup, memberVars
<1>17. EachIndexOnce' BY <1>7 DEF EachIndexOnce, Forked
<1> QED BY <1>10, <1>11, <1>12, <1>13, <1>14, <1>15, <1>16, <1>17

\* A part is reported: one pending worker less.
LEMMA FinishStep == ASSUME PoolInv, NEW w \in Workers, Finish(w) PROVE PoolInv'
<1> USE DEF PoolInv
<1>1. /\ at[w] = "finish" /\ remaining' = remaining - 1
      /\ at' = [at EXCEPT ![w] = "wait",
                          ![0] = IF remaining' = 0 /\ @ = "asleep" THEN "join" ELSE @]
      /\ part' = [part EXCEPT ![w] = NoPart]
      /\ UNCHANGED <<generation, stop, count, body, seen, hits>>
  BY DEF Finish
<1>a. w \in Threads /\ w # 0 BY ThreadFacts
<1>2. Forked /\ seen[w] = generation BY <1>1 DEF BusyOK, Busy
<1>3. /\ at'[w] = "wait" /\ \A v \in Workers \ {w} : at'[v] = at[v]
      /\ at'[0] = (IF remaining' = 0 /\ at[0] = "asleep" THEN "join" ELSE at[0])
  BY <1>1, <1>a, ThreadFacts DEF PoolTypeOK
<1>4. part'[w] = NoPart /\ \A u \in Threads \ {w} : part'[u] = part[u] BY <1>1, <1>a DEF PoolTypeOK
<1>5. w \in Pending /\ Pending' = Pending \ {w}
  BY <1>1, <1>2, <1>3 DEF Pending, Busy
<1>6. remaining' = Cardinality(Pending') /\ remaining' \in Nat
  <2>1. IsFiniteSet(Pending') /\ Cardinality(Pending') = Cardinality(Pending) - 1
        /\ Cardinality(Pending') \in Nat
    BY <1>5, ThreadFacts, FS_RemoveElement, FS_CardinalityType, FS_Subset
  <2>2. remaining = Cardinality(Pending) BY <1>2 DEF ForkedOK
  <2> QED BY <1>1, <2>1, <2>2
<1>7. Forked' BY <1>2, <1>3 DEF Forked
<1>9. \A u \in Threads : Ran(u)' <=> Ran(u)
  <2>1. Ran(0)' <=> Ran(0) BY <1>3 DEF Ran
  <2>2. Ran(w)' /\ Ran(w) BY <1>1, <1>a, <1>5 DEF Ran
  <2>3. \A v \in Workers \ {w} : Ran(v)' <=> Ran(v) BY <1>3, <1>5, ThreadFacts DEF Ran
  <2> QED BY <2>1, <2>2, <2>3, ThreadFacts
<1>10. PoolTypeOK'
  <2>1. at' \in [Threads -> {"ready", "notify", "part", "body", "join", "asleep", "notify_stop",
                             "join_workers", "wait", "finish", "gone"}]
    BY <1>1 DEF PoolTypeOK
  <2>3. NoPart \in Int \X Int BY DEF NoPart
  <2>2. part' \in [Threads -> Int \X Int] BY <1>1, <2>3 DEF PoolTypeOK
  <2> QED BY <1>1, <1>6, <2>1, <2>2 DEF PoolTypeOK
<1>11. PlacesOK' BY <1>3 DEF PlacesOK, Resting
<1>12. ForkedOK'
  <2>1. \A v \in Workers : at'[v] # "gone" BY <1>2, <1>3 DEF ForkedOK
  <2> QED BY <1>1, <1>2, <1>6, <1>9, <2>1 DEF ForkedOK, PartOf
<1>13. ReadyOK' /\ StoppingOK' BY <1>7 DEF ReadyOK, StoppingOK, Forked, Stopping
<1>14. BusyOK' BY <1>1, <1>3, <1>7 DEF BusyOK, Busy
<1>15. PartsOK'
  <2>1. at'[0] = "body" => at[0] = "body" BY <1>3
  <2>2. part'[0] = part[0] BY <1>a, <1>4, ThreadFacts
  <2> QED BY <1>1, <1>3, <1>4, <2>1, <2>2, ThreadFacts DEF PartsOK, PartOf
<1>16. NoLostWakeup'
  <2>1. at'[0] = "asleep" => remaining' > 0 BY <1>3, <1>6
  <2>2. at[0] = "notify" => at'[0] = "notify" BY <1>3
  <2> QED BY <1>1, <1>2, <1>3, <2>1, <2>2 DEF NoLostWakeup, Forked
<1>17. EachIndexOnce' BY <1>7 DEF EachIndexOnce, Forked
<1> QED BY <1>10, <1>11, <1>12, <1>13, <1>14, <1>15, <1>16, <1>17

\* A thread that only changes its own place, among places that mean the same.
LEMMA SpuriousWakeStep == ASSUME PoolInv, NEW t \in Threads, SpuriousWake(t) PROVE PoolInv'
<1> USE DEF PoolInv
<1>1. /\ at[t] = "asleep" /\ UNCHANGED <<memberVars, seen, part, hits>>
      /\ at' = [at EXCEPT ![t] = IF t = 0 THEN "join" ELSE "wait"]
  BY DEF SpuriousWake
<1>2. /\ at'[t] = (IF t = 0 THEN "join" ELSE "wait") /\ \A u \in Threads \ {t} : at'[u] = at[u]
  BY <1>1 DEF PoolTypeOK
<1>3. /\ Forked' = Forked /\ at'[0] = (IF t = 0 THEN "join" ELSE at[0])
      /\ t = 0 => Forked
  BY <1>1, <1>2, ThreadFacts DEF Forked
<1>8. Pending' = Pending
  BY <1>1, <1>2, ThreadFacts DEF Pending, Busy, memberVars
<1>9. \A u \in Threads : Ran(u)' <=> Ran(u)
  BY <1>1, <1>2, <1>3, <1>8, ThreadFacts DEF Ran
<1>10. PoolTypeOK'
  <2>1. at' \in [Threads -> {"ready", "notify", "part", "body", "join", "asleep", "notify_stop",
                             "join_workers", "wait", "finish", "gone"}]
    BY <1>1 DEF PoolTypeOK
  <2> QED BY <1>1, <2>1 DEF PoolTypeOK, memberVars
<1>11. PlacesOK' BY <1>2, ThreadFacts DEF PlacesOK, Resting
<1>12. ForkedOK'
  <2>1. Forked => \A v \in Workers : at'[v] # "gone" BY <1>2, ThreadFacts DEF ForkedOK
  <2> QED BY <1>1, <1>3, <1>8, <1>9, <2>1 DEF ForkedOK, PartOf, memberVars
<1>13. ReadyOK' /\ StoppingOK'
  BY <1>1, <1>2, <1>3, ThreadFacts DEF ReadyOK, StoppingOK, Stopping, Resting, memberVars
<1>14. BusyOK' BY <1>1, <1>2, <1>3, ThreadFacts DEF BusyOK, Busy, memberVars
<1>15. PartsOK' BY <1>1, <1>2 DEF PartsOK, PartOf, memberVars
<1>16. NoLostWakeup' BY <1>1, <1>2, <1>3, ThreadFacts DEF NoLostWakeup, memberVars
<1>17. EachIndexOnce' BY <1>1, <1>3 DEF EachIndexOnce, Forked
<1> QED BY <1>10, <1>11, <1>12, <1>13, <1>14, <1>15, <1>16, <1>17

\* notify_all: the sleepers test their predicates again.
LEMMA NotifyForkStep == ASSUME PoolInv, NotifyFork PROVE PoolInv'
<1> USE DEF PoolInv
<1>1. /\ at[0] = "notify" /\ UNCHANGED <<memberVars, seen, part, hits>> /\ Notified("part")
  BY DEF NotifyFork
<1>2. /\ at'[0] = "part"
      /\ \A w \in Workers : at'[w] = IF at[w] = "asleep" THEN "wait" ELSE at[w]
  BY <1>1, ThreadFacts DEF Notified
<1>3. Forked' /\ Forked BY <1>1, <1>2 DEF Forked
<1>8. Pending' = Pending
  BY <1>1, <1>2 DEF Pending, Busy, memberVars
<1>9. \A u \in Threads : Ran(u)' <=> Ran(u)
  BY <1>1, <1>2, <1>8, ThreadFacts DEF Ran
<1>10. PoolTypeOK'
  <2>1. at' \in [Threads -> {"ready", "notify", "part", "body", "join", "asleep", "notify_stop",
                             "join_workers", "wait", "finish", "gone"}]
    BY <1>1 DEF PoolTypeOK, Notified
  <2> QED BY <1>1, <2>1 DEF PoolTypeOK, memberVars
<1>11. PlacesOK' BY <1>2 DEF PlacesOK, Resting
<1>12. ForkedOK'
  <2>1. \A v \in Workers : at'[v] # "gone" BY <1>2, <1>3 DEF ForkedOK
  <2> QED BY <1>1, <1>3, <1>8, <1>9, <2>1 DEF ForkedOK, PartOf, memberVars
<1>13. ReadyOK' /\ StoppingOK' BY <1>2 DEF ReadyOK, StoppingOK, Stopping
<1>14. BusyOK' BY <1>1, <1>2, <1>3 DEF BusyOK, Busy, memberVars
<1>15. PartsOK' BY <1>1, <1>2, ThreadFacts DEF PartsOK, PartOf, memberVars
<1>16. NoLostWakeup' BY <1>2 DEF NoLostWakeup
<1>17. EachIndexOnce' BY <1>2 DEF EachIndexOnce
<1> QED BY <1>10, <1>11, <1>12, <1>13, <1>14, <1>15, <1>16, <1>17

\* The return: nobody is pending, so that every thread has run, and their parts
\* cover the loop.
LEMMA JoinStep == ASSUME PoolInv, Join PROVE PoolInv'
<1> USE DEF PoolInv
<1>1. at[0] = "join" /\ UNCHANGED <<generation, remaining, stop, count, seen, part, hits>>
  BY DEF Join
<1>a. Forked BY <1>1 DEF Forked
<1>2. CASE remaining # 0 /\ UNCHANGED body /\ at' = [at EXCEPT ![0] = "asleep"]
  <2>1. at'[0] = "asleep" /\ \A w \in Workers : at'[w] = at[w] BY <1>2, ThreadFacts DEF PoolTypeOK
  <2>2. Forked' BY <2>1 DEF Forked
  <2>8. Pending' = Pending BY <1>1, <2>1 DEF Pending
  <2>9. \A u \in Threads : Ran(u)' <=> Ran(u) BY <1>1, <2>1, <2>8, ThreadFacts DEF Ran
  <2>10. PoolTypeOK'
    <3>1. at' \in [Threads -> {"ready", "notify", "part", "body", "join", "asleep", "notify_stop",
                               "join_workers", "wait", "finish", "gone"}]
      BY <1>2 DEF PoolTypeOK
    <3> QED BY <1>1, <1>2, <3>1 DEF PoolTypeOK
  <2>11. PlacesOK' BY <2>1 DEF PlacesOK
  <2>12. ForkedOK'
    <3>1. \A v \in Workers : at'[v] # "gone" BY <1>a, <2>1 DEF ForkedOK
    <3> QED BY <1>1, <1>2, <1>a, <2>8, <2>9, <3>1 DEF ForkedOK, PartOf
  <2>13. ReadyOK' /\ StoppingOK' BY <2>1 DEF ReadyOK, StoppingOK, Stopping
  <2>14. BusyOK' BY <1>1, <2>1, <2>2 DEF BusyOK
  <2>15. PartsOK' BY <1>1, <2>1, ThreadFacts DEF PartsOK, PartOf
  <2>16. NoLostWakeup' BY <1>1, <1>2, <2>1 DEF NoLostWakeup, PoolTypeOK
  <2>17. EachIndexOnce' BY <2>1 DEF EachIndexOnce
  <2> QED BY <2>10, <2>11, <2>12, <2>13, <2>14, <2>15, <2>16, <2>17
<1>3. CASE remaining = 0 /\ body' = "null" /\ at' = [at EXCEPT ![0] = "ready"]
  <2>1. at'[0] = "ready" /\ \A w \in Workers : at'[w] = at[w] BY <1>3, ThreadFacts DEF PoolTypeOK
  <2>2. \A w \in Workers : at[w] \in Resting /\ seen[w] = generation
    <3>1. \A w \in Workers : at[w] \notin Busy /\ seen[w] = generation
      BY <1>3, <1>a, NonePending DEF ForkedOK
    <3>2. \A w \in Workers : at[w] # "gone" BY <1>a DEF ForkedOK
    <3> QED BY <3>1, <3>2 DEF PlacesOK
  <2>3. \A t \in Threads : Ran(t)
    <3>1. \A w \in Workers : w \notin Pending BY <2>2 DEF Pending, Busy, Resting
    <3> QED BY <1>1, <3>1, ThreadFacts DEF Ran
  <2>4. \A i \in DOMAIN hits : hits[i] = 1
    <3>1. count \in Nat /\ DOMAIN hits = 0..count - 1 BY <1>a DEF ForkedOK
    <3>2. \A i \in 0..count - 1 : \E t \in Threads : In(i, PartOf(t, count)) BY <3>1, PartsCover
    <3> QED BY <1>a, <2>3, <3>1, <3>2 DEF ForkedOK
  <2>10. PoolTypeOK'
    <3>1. at' \in [Threads -> {"ready", "notify", "part", "body", "join", "asleep", "notify_stop",
                               "join_workers", "wait", "finish", "gone"}]
      BY <1>3 DEF PoolTypeOK
    <3> QED BY <1>1, <1>3, <3>1 DEF PoolTypeOK
  <2>11. PlacesOK' BY <2>1 DEF PlacesOK
  <2>12. ForkedOK' BY <2>1 DEF ForkedOK, Forked
  <2>13. ReadyOK' BY <1>1, <1>a, <2>1, <2>2 DEF ReadyOK, ForkedOK
  <2>14. StoppingOK' BY <2>1 DEF StoppingOK, Stopping
  <2>15. BusyOK' BY <2>1, <2>2 DEF BusyOK, Busy, Resting
  <2>16. PartsOK' BY <2>1, <2>2, ThreadFacts DEF PartsOK, Resting
  <2>17. NoLostWakeup' BY <1>1, <2>1, <2>2 DEF NoLostWakeup
  <2>18. EachIndexOnce' BY <1>1, <2>4 DEF EachIndexOnce
  <2> QED BY <2>10, <2>11, <2>12, <2>13, <2>14, <2>15, <2>16, <2>17, <2>18
<1> QED BY <1>2, <1>3 DEF Join, JoinReady

\* The destructor: the workers are told by a new generation too.
LEMMA DestroyStep == ASSUME PoolInv, Destroy PROVE PoolInv'
<1> USE DEF PoolInv
<1>1. at[0] = "ready" /\ UNCHANGED <<remaining, count, body, seen, part, hits>> BY DEF Destroy
<1>2. generation' \in 0..GenMod - 1 /\ (N > 1 => generation' # generation /\ stop') /\ stop' \in BOOLEAN
  <2>1. CASE N = 1 BY <2>1 DEF Destroy, PoolTypeOK
  <2>2. CASE N # 1
    <3>1. stop' = TRUE /\ generation' = (generation + 1) % GenMod BY <2>2 DEF Destroy
    <3> QED BY <3>1, NextGeneration DEF PoolTypeOK
  <2> QED BY <2>1, <2>2
<1>3. PICK c \in {"gone", "notify_stop"} : /\ at' = [at EXCEPT ![0] = c]
                                           /\ N > 1 => c = "notify_stop"
  BY PoolAssumption DEF Destroy
<1>4. at'[0] = c /\ \A w \in Workers : at'[w] = at[w] BY <1>3, ThreadFacts DEF PoolTypeOK
<1>5. \A w \in Workers : N > 1 /\ at'[w] \in Resting /\ seen'[w] # generation'
  <2>1. \A w \in Workers : N > 1 BY PoolAssumption DEF Workers
  <2> QED BY <1>1, <1>2, <1>4, <2>1 DEF ReadyOK
<1>10. PoolTypeOK'
  <2>1. at' \in [Threads -> {"ready", "notify", "part", "body", "join", "asleep", "notify_stop",
                             "join_workers", "wait", "finish", "gone"}]
    BY <1>3 DEF PoolTypeOK
  <2> QED BY <1>1, <1>2, <2>1 DEF PoolTypeOK
<1>11. PlacesOK' BY <1>4 DEF PlacesOK, Stopping
<1>12. ForkedOK' BY <1>4 DEF ForkedOK, Forked
<1>13. ReadyOK' BY <1>4 DEF ReadyOK
<1>14. StoppingOK' BY <1>1, <1>2, <1>5 DEF StoppingOK, EachIndexOnce
<1>15. BusyOK' BY <1>5 DEF BusyOK, Busy, Resting
<1>16. PartsOK' BY <1>4, <1>5, ThreadFacts DEF PartsOK, Resting
<1>17. NoLostWakeup' BY <1>3, <1>4, <1>5 DEF NoLostWakeup
<1>18. EachIndexOnce' BY <1>1 DEF EachIndexOnce
<1> QED BY <1>10, <1>11, <1>12, <1>13, <1>14, <1>15, <1>16, <1>17, <1>18

\* The rest of the destructor.
LEMMA StopStep == ASSUME PoolInv, NotifyStop \/ JoinWorkers PROVE PoolInv'
<1> USE DEF PoolInv
<1>1. /\ at[0] \in {"notify_stop", "join_workers"} /\ UNCHANGED <<memberVars, seen, part, hits>>
      /\ at'[0] \in {"join_workers", "gone"}
      /\ \A w \in Workers : at'[w] = at[w] \/ (at[w] = "asleep" /\ at'[w] = "wait")
      /\ at'[0] = "gone" => \A w \in Workers : at[w] = "gone"
      /\ \A w \in Workers : at'[w] # "asleep"
  BY ThreadFacts DEF NotifyStop, JoinWorkers, Notified, PoolTypeOK, NoLostWakeup, StoppingOK, Stopping, Resting
<1>10. PoolTypeOK'
  <2>1. at' \in [Threads -> {"ready", "notify", "part", "body", "join", "asleep", "notify_stop",
                             "join_workers", "wait", "finish", "gone"}]
    BY DEF PoolTypeOK, NotifyStop, JoinWorkers, Notified
  <2> QED BY <1>1, <2>1 DEF PoolTypeOK, memberVars
<1>11. PlacesOK' BY <1>1 DEF PlacesOK, Stopping, Resting
<1>12. ForkedOK' BY <1>1 DEF ForkedOK, Forked
<1>13. ReadyOK' BY <1>1 DEF ReadyOK
<1>14. StoppingOK' BY <1>1 DEF StoppingOK, Stopping, Resting, memberVars
<1>15. BusyOK' BY <1>1 DEF BusyOK, Busy, StoppingOK, Stopping, Resting
<1>16. PartsOK'
  <2>1. \A t \in Threads : at'[t] # "body" BY <1>1, ThreadFacts DEF StoppingOK, Stopping, Resting
  <2> QED BY <2>1 DEF PartsOK
<1>17. NoLostWakeup' BY <1>1 DEF NoLostWakeup
<1>18. EachIndexOnce'
  <2>1. \A i \in DOMAIN hits : hits[i] = 1 BY <1>1 DEF StoppingOK, Stopping
  <2> QED BY <1>1, <2>1 DEF EachIndexOnce
<1> QED BY <1>10, <1>11, <1>12, <1>13, <1>14, <1>15, <1>16, <1>17, <1>18

-----------------------------------------------------------------------------
\* The invariant holds of a pool that has just been constructed.
LEMMA PoolInvInit == PoolInit => PoolInv
<1> SUFFICES ASSUME PoolInit PROVE PoolInv OBVIOUS
<1> USE DEF PoolInit
<1>1. /\ at[0] = "ready" /\ \A w \in Workers : at[w] = "wait" /\ seen[w] = 0
      /\ DOMAIN hits = {}
  <2>1. 0..-1 = {} OBVIOUS
  <2> QED BY <2>1, ThreadFacts
<1>2. PoolTypeOK
  <2>1. hits \in [DOMAIN hits -> Nat] BY <1>1
  <2>2. NoPart \in Int \X Int BY DEF NoPart
  <2>3. 0 \in 0..GenMod - 1 BY PoolAssumption
  <2>4. part \in [Threads -> Int \X Int] BY <2>2
  <2>5. at \in [Threads -> {"ready", "notify", "part", "body", "join", "asleep", "notify_stop",
                            "join_workers", "wait", "finish", "gone"}]
    OBVIOUS
  <2>6. seen \in [Workers -> 0..GenMod - 1] BY <2>3
  <2>7. generation \in 0..GenMod - 1 /\ remaining \in Nat /\ count \in Int BY <2>3
  <2>8. stop \in BOOLEAN /\ body \in {"null", "loop"} BY Zenon
  <2> QED BY <2>1, <2>4, <2>5, <2>6, <2>7, <2>8, Zenon DEF PoolTypeOK
<1>3. PlacesOK BY <1>1 DEF PlacesOK, Resting
<1>4. ForkedOK BY <1>1 DEF ForkedOK, Forked
<1>5. ReadyOK /\ StoppingOK BY <1>1 DEF ReadyOK, StoppingOK, Stopping, Resting
<1>6. BusyOK BY <1>1 DEF BusyOK, Busy
<1>7. PartsOK BY <1>1, ThreadFacts DEF PartsOK
<1>8. NoLostWakeup /\ EachIndexOnce BY <1>1 DEF NoLostWakeup, EachIndexOnce
<1> QED BY <1>2, <1>3, <1>4, <1>5, <1>6, <1>7, <1>8 DEF PoolInv

\* The invariant is about the pool's variables only.
LEMMA PoolInvStutter == ASSUME PoolInv, UNCHANGED poolVars PROVE PoolInv'
<1>1. UNCHANGED <<generation, remaining, stop, count, body, seen, at, part, hits>>
  BY DEF poolVars, memberVars
<1>2. PoolTypeOK' /\ PlacesOK' BY <1>1 DEF PoolInv, PoolTypeOK, PlacesOK
<1>3. Pending' = Pending /\ (Forked' <=> Forked) BY <1>1 DEF Pending, Forked
<1>4. \A t \in Threads : Ran(t)' <=> Ran(t) BY <1>1, <1>3 DEF Ran
<1>5. ForkedOK' BY <1>1, <1>3, <1>4 DEF PoolInv, ForkedOK, PartOf
<1>6. ReadyOK' /\ StoppingOK' BY <1>1 DEF PoolInv, ReadyOK, StoppingOK
<1>7. BusyOK' /\ PartsOK' BY <1>1, <1>3 DEF PoolInv, BusyOK, PartsOK, PartOf
<1>8. NoLostWakeup' /\ EachIndexOnce' BY <1>1 DEF PoolInv, NoLostWakeup, EachIndexOnce
<1> QED BY <1>2, <1>5, <1>6, <1>7, <1>8 DEF PoolInv

\* Every step keeps the invariant.
LEMMA PoolInvNext == PoolInv /\ [PoolNext]_poolVars => PoolInv'
<1> SUFFICES ASSUME PoolInv, [PoolNext]_poolVars PROVE PoolInv' OBVIOUS
<1>1. ASSUME NEW n \in Counts, RunInline(n) \/ Fork(n) PROVE PoolInv'
  BY <1>1, RunInlineStep, ForkStep
<1>2. CASE Destroy BY <1>2, DestroyStep
<1>3. CASE CallerStep
  <2>1. ASSUME ReadPart(0, "join") PROVE PoolInv' BY <2>1, ReadPartStep, ThreadFacts
  <2>2. ASSUME RunBody(0, "join") PROVE PoolInv' BY <2>2, RunBodyStep, ThreadFacts
  <2> QED BY <1>3, <2>1, <2>2, NotifyForkStep, JoinStep, StopStep DEF CallerStep
<1>4. ASSUME NEW w \in Workers, WorkerStep(w) PROVE PoolInv'
  <2>1. w \in Threads /\ w # 0 BY ThreadFacts
  <2>2. ASSUME ReadPart(w, "finish") PROVE PoolInv' BY <2>1, <2>2, ReadPartStep
  <2>3. ASSUME RunBody(w, "finish") PROVE PoolInv' BY <2>1, <2>3, RunBodyStep
  <2> QED BY <1>4, <2>2, <2>3, WaitStep, FinishStep DEF WorkerStep
<1>5. ASSUME NEW t \in Threads, SpuriousWake(t) PROVE PoolInv' BY <1>5, SpuriousWakeStep
<1>6. CASE UNCHANGED poolVars BY <1>6, PoolInvStutter
<1> QED BY <1>1, <1>2, <1>3, <1>4, <1>5, <1>6 DEF PoolNext

\* The inductive invariant holds throughout.
THEOREM PoolInvariant == PoolSpec => []PoolInv
BY PoolInvInit, PoolInvNext, PTL DEF PoolSpec

\* parallel_for runs the body exactly once on every index of the loop, whatever the
\* threads, the length and the interleaving.
THEOREM ParallelForOnce == PoolSpec => []EachIndexOnce
<1>1. PoolInv => EachIndexOnce BY DEF PoolInv
<1> QED BY <1>1, PoolInvariant, PTL

\* No worker is inside a part once the call has returned: the body and the count it
\* reads without the lock are those of the call that woke it.
THEOREM WorkersStayInside == PoolSpec => []WorkersInsideCall
<1>1. PoolInv => WorkersInsideCall
  <2> SUFFICES ASSUME PoolInv, NEW w \in Workers, at[w] \in Busy
               PROVE  /\ Forked /\ body = "loop" /\ remaining > 0 /\ seen[w] = generation
                      /\ at[w] = "body" => part[w] = PartOf(w, count)
    BY DEF WorkersInsideCall, Busy
  <2>1. Forked /\ seen[w] = generation BY DEF PoolInv, BusyOK
  <2>2. body = "loop" /\ remaining = Cardinality(Pending) BY <2>1 DEF PoolInv, ForkedOK
  <2>3. remaining # 0
    <3> SUFFICES ASSUME remaining = 0 PROVE FALSE OBVIOUS
    <3> QED BY <2>2, NonePending
  <2>4. remaining \in Nat BY DEF PoolInv, PoolTypeOK
  <2>5. at[w] = "body" => part[w] = PartOf(w, count) BY ThreadFacts DEF PoolInv, PartsOK
  <2> QED BY <2>1, <2>2, <2>3, <2>4, <2>5
<1> QED BY <1>1, PoolInvariant, PTL

\* No thread sleeps through what it waits for.
THEOREM WakeupsArrive == PoolSpec => []NoLostWakeup
<1>1. PoolInv => NoLostWakeup BY DEF PoolInv
<1> QED BY <1>1, PoolInvariant, PTL

=============================================================================
