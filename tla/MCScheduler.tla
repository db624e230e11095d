---------------------------- MODULE MCScheduler ----------------------------
(* Model checking the scheduler on a pool that is too small for its batch.   *)
EXTENDS Scheduler, TLC

CONSTANTS x, y, s1, s2, s3

MCToken == {x, y}

OnePerResident == -1

\* Every prompt starts with the same tokens, so that full blocks are shared; the
\* token y ends a sequence.  A pool of three blocks holds any of the requests to
\* its end, and no two of them.
MCPrompts == {<<x>>, <<x, x, x>>, <<x, x, x, x>>, <<x, x, x, x, x>>}
ShortRequest == [prompt |-> <<x>>, max_tokens |-> 3]
TinyRequest == [prompt |-> <<x>>, max_tokens |-> 1]
LongRequest == [prompt |-> <<x>>, max_tokens |-> 5]
GrowingRequest == [prompt |-> <<x, x, x>>, max_tokens |-> 3]
FullBlocksRequest == [prompt |-> <<x, x, x, x>>, max_tokens |-> 2]
WholePoolRequest == [prompt |-> <<x, x, x, x, x>>, max_tokens |-> 1]

MCRequests == (s1 :> {GrowingRequest, ShortRequest})
           @@ (s2 :> {FullBlocksRequest}) @@ (s3 :> {GrowingRequest})

\* The whole-pool request does not fit beside a watermark, and a short one may be
\* admitted before it.
StaticRequests == (s1 :> {LongRequest})
               @@ (s2 :> {ShortRequest, WholePoolRequest}) @@ (s3 :> {TinyRequest})

\* Short requests only: two fit into one batch, a third has to wait for it.
ShortRequests == [s \in Seqs |-> {ShortRequest}]

MCStopIds == {y}

=============================================================================
