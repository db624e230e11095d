------------------------------ MODULE MCServer ------------------------------
(* Model checking the HTTP server: three connections on two handlers, so      *)
(* that one can find both taken.                                              *)
EXTENDS Server

CONSTANTS c1, c2, c3

\* A completion or the stream of one; the stream of a chat or a request that is not
\* valid; and a probe, which may find two completions before it.
MCAsked ==
    [c \in Conns |->
        CASE c = c1 -> {"plain", "sse"} [] c = c2 -> {"chat_sse", "bad"} [] c = c3 -> {"probe"}]

\* A letter and a character of three bytes, in two tokens that split the character.
MCPieces == {<<1, 3, 0>>, <<0>>}

=============================================================================
