------------------------------- MODULE Sampler -------------------------------
(***************************************************************************)
(* Sampling one token from a row of logits (model/sampler.cpp).            *)
(*                                                                         *)
(* A probability is a weight over the sum of all weights; top_p is the     *)
(* weight `need' that the nucleus has to reach, one more than the sum if   *)
(* rounding keeps the cumulated probability below it.  The uniform draw is *)
(* a choice.  std::nth_element may leave any order its specification       *)
(* allows.                                                                 *)
(***************************************************************************)
EXTENDS Integers, FiniteSetsExt, SequencesExt

CONSTANTS
    Vocab,          \* vocab
    FirstWindow,    \* 64
    Widening,       \* 4
    Weights         \* the weights a token may have

ASSUME SamplerAssumption ==
    /\ {Vocab, FirstWindow} \subseteq Nat \ {0} /\ Widening \in Nat \ {0, 1}
    /\ Weights \subseteq Nat

VARIABLE smp        \* the locals of sample(): the parameters, k, idx_, keep, the draw

Ids == 0..Vocab - 1
NoSample == [at |-> "none"]

Total(w) == SumFunction(w)
Cumulated(w, q, n) == SumFunction([j \in 1..n |-> w[q[j]]])

argmax(w) ==
    LET best[i \in 0..Vocab - 1] ==
            IF i = 0 THEN 0 ELSE IF w[i] > w[best[i - 1]] THEN i ELSE best[i - 1]
    IN  best[Vocab - 1]

\* Mutant: no tie-break.
by_prob_ties(w, a, b) == w[a] > w[b]

by_prob(w, a, b) == w[a] > w[b] \/ (w[a] = w[b] /\ a < b)

\* nth_element and sort have put the first k in order and nothing larger behind them.
TopSorted(w, q, k) == \A i \in 1..k : \A j \in i + 1..Len(q) : ~by_prob(w, q[j], q[i])

\* The first n, of at most k, that reach `need'; k if none does.
Kept(w, q, k, need) == Min({k} \union {n \in 1..k : Cumulated(w, q, n) >= need})

\* The token the draw r falls on, among the first `keep' of q.
Picked(w, q, keep, r) == q[Min({keep} \union {n \in 1..keep : Cumulated(w, q, n) >= r})]

\* sample() is entered with the weights w and the parameters.
BeginSample(w, mode, need) ==
    /\ smp = NoSample
    /\ smp' = [at |-> IF mode = "nucleus" THEN "window" ELSE "draw", w |-> w, mode |-> mode,
               need |-> need, k |-> FirstWindow, idx |-> [i \in 1..Vocab |-> i - 1],
               keep |-> Vocab, cum |-> Total(w), r |-> 0, token |-> 0]

\* keep < k means that the nucleus closed inside the window.
NucleusClosed(keep, k) == keep < k \/ k = Vocab

\* One turn of the loop over windows.
Window ==
    /\ smp.at = "window"
    /\ LET k == IF smp.k >= Vocab THEN Vocab ELSE smp.k
       IN  \E q \in SetToSeqs(Ids) :
              /\ TopSorted(smp.w, q, k)
              /\ LET keep == Kept(smp.w, q, k, smp.need)
                 IN  smp' = [smp EXCEPT
                        !.idx = q, !.keep = keep, !.cum = Cumulated(smp.w, q, keep),
                        !.k = IF NucleusClosed(keep, k) THEN k ELSE k * Widening,
                        !.at = IF NucleusClosed(keep, k) THEN "draw" ELSE "window"]

\* The draw, unless temperature is 0.
Draw ==
    /\ smp.at = "draw"
    /\ IF smp.mode = "greedy"
       THEN smp' = [smp EXCEPT !.at = "done", !.token = argmax(smp.w)]
       ELSE \E r \in 0..smp.cum :
              smp' = [smp EXCEPT !.at = "done", !.r = r,
                                 !.token = Picked(smp.w, smp.idx, smp.keep, r)]

-----------------------------------------------------------------------------
(* Properties.                                                             *)

\* Token a stands before b in the full sort.
Ahead(w, a, b) == w[a] > w[b] \/ (w[a] = w[b] /\ a < b)

\* The full sort: n - 1 tokens stand before the n-th.
FullSort(w) ==
    [n \in 1..Vocab |-> CHOOSE t \in Ids : Cardinality({u \in Ids : Ahead(w, u, t)}) = n - 1]

\* Sampling agrees with the definition over the whole vocabulary, whatever the window
\* was and whatever order nth_element left: "the partial path below is required to
\* agree with the full sort exactly" (sampler.cpp).  The same draw gives the same
\* token, the nucleus is the shortest that reaches top_p, a greedy token is the first
\* of the largest.
SampleExact ==
    smp.at = "done" =>
        LET w == smp.w
            full == FullSort(w)
            nucleus == Kept(w, full, Vocab, smp.need)
        IN  CASE smp.mode = "greedy" -> smp.token = full[1]
              [] smp.mode = "plain" ->
                    smp.token = Picked(w, [i \in 1..Vocab |-> i - 1], Vocab, smp.r)
              [] smp.mode = "nucleus" ->
                    smp.keep = nucleus /\ smp.token = Picked(w, full, nucleus, smp.r)

=============================================================================
