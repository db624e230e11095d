------------------------------ MODULE MCEngine ------------------------------
(* Model checking the engine's threads: two clients, tiny requests.          *)
EXTENDS Engine

CONSTANTS x

OnePerResident == -1

MCToken == {x}
MCPrompts == {<<x, x, x>>}

\* Three blocks of two tokens hold one request to its end, and not two at a time: the
\* second one waits in the queue while the first one runs.
MCRequests == [s \in Seqs |-> {[prompt |-> <<x, x, x>>, max_tokens |-> 2]}]

=============================================================================
