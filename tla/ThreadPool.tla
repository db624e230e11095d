----------------------------- MODULE ThreadPool -----------------------------
(***************************************************************************)
(* The worker pool of the CPU backend (include/engine/parallel.h).  One    *)
(* caller forks a loop over [0, count) with parallel_for and joins it;     *)
(* N - 1 workers and the caller each run one contiguous part.              *)
(*                                                                         *)
(* A critical section of m_ is one step.  A wait on a condition variable   *)
(* tests its predicate and falls asleep in one step, since it holds m_;    *)
(* it tests again when it is notified, or spuriously.  notify_all on cv_   *)
(* comes after the unlock and is a step of its own.  run_part reads count_ *)
(* and body_ without m_.                                                   *)
(*                                                                         *)
(* generation_ is a uint64_t: it counts modulo GenMod, and any GenMod > 1  *)
(* will do.                                                                *)
(***************************************************************************)
EXTENDS Integers, FiniteSets

CONSTANTS
    N,           \* n_, the threads, the caller included
    GenMod,      \* the modulus of generation_
    Counts       \* the lengths of the loops the caller asks for

ASSUME PoolAssumption ==
    /\ N \in Nat \ {0}
    /\ GenMod \in Nat \ {0, 1}
    /\ Counts \subseteq Int

Workers == 1..N - 1
Threads == 0..N - 1

VARIABLES
    generation, remaining, stop, count,   \* members of the pool
    body,        \* body_: it points at the caller's loop body, or is null
    seen,        \* each worker's `seen'
    at,          \* the place of each thread; 0 is the caller
    part,        \* the range each thread has computed in run_part
    hits         \* how often the body of the last loop ran on each of its indices

memberVars == <<generation, remaining, stop, count, body>>
poolVars == <<memberVars, seen, at, part, hits>>

NoPart == <<0, 0>>

\* Indices of a range [begin, end).
In(i, range) == range[1] <= i /\ i < range[2]

MinOf(a, b) == IF a < b THEN a ELSE b

\* The caller is between the entry and the return of a forked parallel_for.
Forked == at[0] \in {"notify", "part", "body", "join", "asleep"}

-----------------------------------------------------------------------------
(* run_part(idx): empty parts do not call the body.                        *)

\* Mutant: the part's length is rounded down.
PartOf_rounds_down(idx, n) ==
    LET per == n \div N
    IN  <<per * idx, MinOf(n, per * idx + per)>>

PartOf(idx, n) ==
    LET per == (n + N - 1) \div N
    IN  <<per * idx, MinOf(n, per * idx + per)>>

\* count_ and body_ are read; `after' is where the thread goes if there is nothing
\* to run.
ReadPart(t, after) ==
    /\ at[t] = "part"
    /\ part' = [part EXCEPT ![t] = PartOf(t, count)]
    /\ at' = [at EXCEPT ![t] = IF part'[t][1] < part'[t][2] THEN "body" ELSE after]
    /\ UNCHANGED <<memberVars, seen, hits>>

\* The body ran over the part.
RunBody(t, after) ==
    /\ at[t] = "body"
    /\ hits' = [i \in DOMAIN hits |-> hits[i] + (IF In(i, part[t]) THEN 1 ELSE 0)]
    /\ at' = [at EXCEPT ![t] = after]
    /\ UNCHANGED <<memberVars, seen, part>>

-----------------------------------------------------------------------------
(* parallel_for(count, body) and the destructor, on the caller's thread.   *)

\* Nothing to do, or nothing to share: the body runs on the caller's thread alone.
RunInline(n) ==
    /\ at[0] = "ready"
    /\ n <= 1 \/ N = 1
    /\ hits' = [i \in 0..n - 1 |-> 1]
    /\ UNCHANGED <<memberVars, seen, at, part>>

\* Mutant: the caller is counted too.
Forks_caller == N

Forks == N - 1

Fork(n) ==
    /\ at[0] = "ready"
    /\ n > 1 /\ N > 1
    /\ count' = n
    /\ body' = "loop"
    /\ remaining' = Forks
    /\ generation' = (generation + 1) % GenMod
    /\ hits' = [i \in 0..n - 1 |-> 0]
    /\ at' = [at EXCEPT ![0] = "notify"]
    /\ UNCHANGED <<stop, seen, part>>

\* Mutant: one worker is woken.
Notified_one(after) ==
    \/ \E w \in Workers : at[w] = "asleep" /\ at' = [at EXCEPT ![0] = after, ![w] = "wait"]
    \/ (\A w \in Workers : at[w] # "asleep") /\ at' = [at EXCEPT ![0] = after]

\* cv_.notify_all(): every sleeping worker tests its predicate again.
Notified(after) ==
    at' = [t \in Threads |-> IF t = 0 THEN after
                             ELSE IF at[t] = "asleep" THEN "wait" ELSE at[t]]

NotifyFork ==
    /\ at[0] = "notify"
    /\ Notified("part")
    /\ UNCHANGED <<memberVars, seen, part, hits>>

\* Mutant: the caller does not wait for the workers that have not started.
JoinReady_started == \A w \in Workers : at[w] \in {"wait", "asleep"}

JoinReady == remaining = 0

\* done_cv_.wait(remaining_ == 0), then the return.
Join ==
    /\ at[0] = "join"
    /\ \/ JoinReady /\ body' = "null" /\ at' = [at EXCEPT ![0] = "ready"]
       \/ ~JoinReady /\ UNCHANGED body /\ at' = [at EXCEPT ![0] = "asleep"]
    /\ UNCHANGED <<generation, remaining, stop, count, seen, part, hits>>

Destroy ==
    /\ at[0] = "ready"
    /\ IF N = 1 THEN /\ at' = [at EXCEPT ![0] = "gone"]
                     /\ UNCHANGED <<stop, generation>>
                ELSE /\ stop' = TRUE
                     /\ generation' = (generation + 1) % GenMod
                     /\ at' = [at EXCEPT ![0] = "notify_stop"]
    /\ UNCHANGED <<remaining, count, body, seen, part, hits>>

NotifyStop ==
    /\ at[0] = "notify_stop"
    /\ Notified("join_workers")
    /\ UNCHANGED <<memberVars, seen, part, hits>>

JoinWorkers ==
    /\ at[0] = "join_workers"
    /\ \A w \in Workers : at[w] = "gone"
    /\ at' = [at EXCEPT ![0] = "gone"]
    /\ UNCHANGED <<memberVars, seen, part, hits>>

-----------------------------------------------------------------------------
(* worker(idx).                                                            *)

\* cv_.wait(generation_ != seen), and what it does before it unlocks m_.
Wait(w) ==
    /\ at[w] = "wait"
    /\ IF generation = seen[w]
         THEN at' = [at EXCEPT ![w] = "asleep"] /\ UNCHANGED seen
         ELSE /\ seen' = [seen EXCEPT ![w] = generation]
              /\ at' = [at EXCEPT ![w] = IF stop THEN "gone" ELSE "part"]
    /\ UNCHANGED <<memberVars, part, hits>>

\* The part is done: the last one to say so wakes the caller, holding m_.
Finish(w) ==
    /\ at[w] = "finish"
    /\ remaining' = remaining - 1
    /\ at' = [at EXCEPT ![w] = "wait",
                        ![0] = IF remaining' = 0 /\ @ = "asleep" THEN "join" ELSE @]
    /\ part' = [part EXCEPT ![w] = NoPart]
    /\ UNCHANGED <<generation, stop, count, body, seen, hits>>

\* A condition variable may wake up its waiters for no reason.
SpuriousWake(t) ==
    /\ at[t] = "asleep"
    /\ at' = [at EXCEPT ![t] = IF t = 0 THEN "join" ELSE "wait"]
    /\ UNCHANGED <<memberVars, seen, part, hits>>

-----------------------------------------------------------------------------
\* The workers have been started; none of them need have run yet.
PoolInit ==
    /\ generation = 0 /\ remaining = 0 /\ stop = FALSE /\ count = 0 /\ body = "null"
    /\ seen = [w \in Workers |-> 0]
    /\ at = [t \in Threads |-> IF t = 0 THEN "ready" ELSE "wait"]
    /\ part = [t \in Threads |-> NoPart]
    /\ hits = [i \in 0..-1 |-> 0]

CallerStep ==
    \/ NotifyFork \/ ReadPart(0, "join") \/ RunBody(0, "join") \/ Join
    \/ NotifyStop \/ JoinWorkers

WorkerStep(w) == Wait(w) \/ ReadPart(w, "finish") \/ RunBody(w, "finish") \/ Finish(w)

PoolNext ==
    \/ \E n \in Counts : RunInline(n) \/ Fork(n)
    \/ Destroy
    \/ CallerStep
    \/ \E w \in Workers : WorkerStep(w)
    \/ \E t \in Threads : SpuriousWake(t)

PoolSpec == PoolInit /\ [][PoolNext]_poolVars

\* Every thread is scheduled; nobody has to call the pool, and spurious wake-ups need
\* not happen.
FairPoolSpec ==
    /\ PoolSpec
    /\ WF_poolVars(CallerStep)
    /\ \A w \in Workers : WF_poolVars(WorkerStep(w))

-----------------------------------------------------------------------------
(* Properties.                                                             *)

\* The pool's variables have the types of their declarations.
PoolTypeOK ==
    /\ generation \in 0..GenMod - 1 /\ remaining \in Nat /\ stop \in BOOLEAN
    /\ count \in Int /\ body \in {"null", "loop"}
    /\ seen \in [Workers -> 0..GenMod - 1]
    /\ at \in [Threads -> {"ready", "notify", "part", "body", "join", "asleep", "notify_stop",
                           "join_workers", "wait", "finish", "gone"}]
    /\ part \in [Threads -> Int \X Int]
    /\ hits \in [DOMAIN hits -> Nat]

\* "Runs body(begin, end) over a partition of [0, count) and returns once every part
\* is done" (parallel_for): when the caller is back, the body has run exactly once
\* on every index.
EachIndexOnce ==
    at[0] \in {"ready", "gone"} => \A i \in DOMAIN hits : hits[i] = 1

\* A worker is inside run_part, or about to report, only while the parallel_for that
\* woke it has not returned: the body and the count it reads without the lock are
\* those of that call, and its part overlaps with no other.
WorkersInsideCall ==
    \A w \in Workers : at[w] \in {"part", "body", "finish"} =>
        /\ Forked /\ body = "loop" /\ remaining > 0 /\ seen[w] = generation
        /\ at[w] = "body" => part[w] = PartOf(w, count)

\* Nobody sleeps through what it waits for: a worker that has not seen the
\* generation is asleep only until the notification that is under way, the caller
\* only while a part is missing.
NoLostWakeup ==
    /\ at[0] = "asleep" => remaining > 0
    /\ \A w \in Workers : at[w] = "asleep" /\ seen[w] # generation
                              => at[0] \in {"notify", "notify_stop"}

\* parallel_for and the destructor return.
PoolReturns == at[0] # "ready" ~> at[0] \in {"ready", "gone"}

=============================================================================
