--------------------------- MODULE MCForwardPass ---------------------------
(* Model checking a step: four sequences in five blocks of two tokens, two   *)
(* layers, four query heads on two kv heads.                                 *)
EXTENDS ForwardPass

\* The sequences 2 and 4 share the first block of 1.
MCTokens == << <<1, 2, 1, 1, 2>>, <<1, 2, 2>>, <<2>>, <<1, 2>> >>
MCTable == << <<3, 0, 1>>, <<3, 2>>, <<4>>, <<3>> >>

Slice(s, start, len, needs) == [seq |-> s, start |-> start, len |-> len, needs_logits |-> needs]

\* A mixed step; a chunk without logits before one with; a prefill from nothing; a
\* fully cached prompt whose last token is computed again, beside a decode.
MCSteps == { << Slice(1, 2, 3, TRUE), Slice(2, 2, 1, TRUE) >>,
             << Slice(1, 2, 2, FALSE), Slice(3, 0, 1, TRUE), Slice(2, 2, 1, TRUE) >>,
             << Slice(4, 1, 1, TRUE), Slice(1, 4, 1, TRUE) >> }

\* Scores of five positions: the largest first, last, in the middle, all the same.
MCScores == { <<2, 1, 0, 0, 1>>, <<0, 1, 1, 2, 3>>, <<0, 0, 2, 1, 0>>, <<1, 1, 1, 1, 1>> }
MCScoreShapes == {[p \in 0..4 |-> f[p + 1]] : f \in MCScores}

=============================================================================
