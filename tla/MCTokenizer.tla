---------------------------- MODULE MCTokenizer ----------------------------
(* Model checking the tokenizer on short texts over the characters that its  *)
(* rules tell apart.                                                         *)
EXTENDS Tokenizer

MCLetters == << <<65, 90>>, <<97, 122>>, <<233, 233>>, <<256, 300>> >>
MCNumbers == << <<48, 57>> >>
MCSpaces == << <<9, 13>>, <<32, 32>> >>

\* ' S l 1 space tab newline ! e-acute and a character of four bytes
Alphabet == {39, 83, 108, 49, 32, 9, 10, 33, 233, 128512}

\* Every short text, and longer ones over a space, a newline, a letter and a mark.
MCTexts == BoundedSeq(Alphabet, 4) \union BoundedSeq({32, 10, 108, 33}, 6)

\* l l, then ll l and ll ll; a space and l; the two bytes of an e-acute, apart in the
\* metaspace family, where it is not in the vocabulary.  One merge names a string that
\* is not in the vocabulary and is skipped.
MCMergeList ==
    [ByteLevel |-> << << <<108>>, <<108>> >>, << <<83>>, <<49>> >>, << <<195>>, <<169>> >>,
                      << <<288>>, <<108>> >>, << <<108, 108>>, <<108>> >>,
                      << <<288, 108>>, <<108>> >>, << <<108, 108>>, <<108, 108>> >> >>,
     Metaspace |-> << << <<108>>, <<108>> >>, << kMeta, <<108>> >>, << <<108, 108>>, <<108>> >>,
                      << kMeta \o <<108>>, <<108, 108>> >>, << kMeta, kMeta >> >>]

MCVocabulary ==
    [ByteLevel |-> {<<byte_to_unicode(b)>> : b \in 0..255}
                   \union {<<195, 169>>, <<108, 108>>, <<288, 108>>, <<108, 108, 108>>,
                           <<288, 108, 108>>, <<108, 108, 108, 108>>},
     Metaspace |-> {<<b>> : b \in {39, 83, 108, 49, 10, 33}} \union
                   {kMeta, <<108, 108>>, kMeta \o <<108>>, <<108, 108, 108>>, kMeta \o kMeta,
                    kMeta \o <<108, 108, 108>>}]

\* Of an e-acute both bytes have tokens, of the character of four bytes all but the
\* first, and a tab is unknown.
MCByteTokens == (0..239) \ {9}
MCUnknown == <<60, 117, 110, 107, 62>>

\* One is the beginning of another.
MCAddedTokens == {<<33, 108>>, <<33, 108, 10>>, <<10, 33>>}

=============================================================================
