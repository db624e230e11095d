----------------------------- MODULE MCKVCache -----------------------------
(* Model checking KVCache: blocks and sequences are interchangeable.         *)
EXTENDS KVCache, TLC

CONSTANTS x, y

\* Two prompts that share their first block and diverge in the second, one of
\* them ending inside a block.
MCToken == {x, y}
MCPrompts == {<<x, x, y, y>>, <<x, x, x>>, <<y, x>>}

Symmetry == Permutations(Blocks) \union Permutations(Seqs)

=============================================================================
