------------------------------ MODULE Tokenizer ------------------------------
(***************************************************************************)
(* The BPE tokenizer (tokenizer/tokenizer.cpp): encode() of a text, one    *)
(* action per turn of its loops, and decode() of the result.               *)
(*                                                                         *)
(* A text is the sequence of its bytes, UTF-8 as the API receives it.  A   *)
(* token is <<kind, string>>: "tok" for an entry of the vocabulary, whose  *)
(* string is over placeholder codepoints (byte-level family) or bytes      *)
(* (metaspace family), "byte" for <0xNN>, "added" for an added token.      *)
(***************************************************************************)
EXTENDS Integers, FiniteSetsExt, SequencesExt

CONSTANTS
    Families,         \* "ByteLevel", "Metaspace"
    Texts,            \* the texts to encode, in codepoints
    LetterRanges, NumberRanges, SpaceRanges,   \* unicode_tables.inc
    Vocabulary,       \* strings of each family's vocabulary
    MergeList,        \* merges of tokenizer.json, pairs of strings, by family
    AddedTokens,      \* contents of the added tokens
    ByteTokens,       \* bytes whose <0xNN> is in the vocabulary, byte_fallback_
    Unknown           \* the token of unk_id_, <<>> if there is none

ASSUME TokenizerAssumption ==
    /\ Families \subseteq {"ByteLevel", "Metaspace"}
    /\ \A t \in Texts : t \in Seq(Nat)
    /\ \A r \in {LetterRanges, NumberRanges, SpaceRanges} :
          /\ r \in Seq(Nat \X Nat)
          /\ \A k \in 1..Len(r) : r[k][1] <= r[k][2] /\ (k > 1 => r[k - 1][2] < r[k][1])
    /\ \A l \in 1..Len(LetterRanges) : \A r \in {NumberRanges, SpaceRanges} :
          \A k \in 1..Len(r) : LetterRanges[l][2] < r[k][1] \/ r[k][2] < LetterRanges[l][1]
    /\ \A c \in {10, 13, 32} : \E k \in 1..Len(SpaceRanges) :
          c \in SpaceRanges[k][1]..SpaceRanges[k][2]
    /\ \A a \in AddedTokens : a \in Seq(0..255) /\ a # <<>>
    /\ ByteTokens \subseteq 0..255 /\ Unknown \in Seq(0..255)

VARIABLES
    family,           \* family_
    text,             \* the argument of encode()
    pos,              \* pos: bytes already encoded
    special,          \* best: the added token behind the chunk, <<>> if none
    at,               \* the loop encode() is in
    cps, i,           \* locals of pre_tokenize
    pieces,           \* words to encode
    ids,              \* the argument of bpe_merge
    out               \* the result

tokVars == <<family, text, pos, special, at, cps, i, pieces, ids, out>>

-----------------------------------------------------------------------------
(* Characters.                                                             *)

\* Binary search in sorted ranges.
in_ranges(cp, r) ==
    LET search[w \in (0..Len(r)) \X (0..Len(r))] ==
            LET lo == w[1]
                hi == w[2]
                mid == ((lo + hi) \div 2) + 1
            IN  IF lo >= hi THEN FALSE
                ELSE IF cp < r[mid][1] THEN search[<<lo, mid - 1>>]
                ELSE IF cp > r[mid][2] THEN search[<<mid, hi>>]
                ELSE TRUE
    IN  search[<<0, Len(r)>>]

is_letter(cp) == in_ranges(cp, LetterRanges)
is_number(cp) == in_ranges(cp, NumberRanges)
is_space(cp) == in_ranges(cp, SpaceRanges)
is_newline(cp) == cp \in {10, 13}
is_other(cp) == ~is_space(cp) /\ ~is_letter(cp) /\ ~is_number(cp)
lower(cp) == IF cp \in 65..90 THEN cp + 32 ELSE cp

utf8_encode(cp) ==
    IF cp < 128 THEN <<cp>>
    ELSE IF cp < 2048 THEN <<192 + (cp \div 64), 128 + (cp % 64)>>
    ELSE IF cp < 65536 THEN <<224 + (cp \div 4096), 128 + ((cp \div 64) % 64), 128 + (cp % 64)>>
    ELSE <<240 + (cp \div 262144), 128 + ((cp \div 4096) % 64), 128 + ((cp \div 64) % 64),
           128 + (cp % 64)>>

\* The length of the character at s[k]; a byte that leads none, or more than there
\* is, stands for itself.
utf8_len(s, k) ==
    LET len == IF s[k] >= 240 THEN 4 ELSE IF s[k] >= 224 THEN 3 ELSE IF s[k] >= 192 THEN 2 ELSE 1
    IN  IF k + len - 1 > Len(s) THEN 1 ELSE len

utf8_decode(s, k) ==
    LET len == utf8_len(s, k)
        more(cp, m) == cp * 64 + (s[k + m] % 64)
    IN  IF s[k] < 128 THEN s[k]
        ELSE IF len = 1 THEN 65533
        ELSE IF len = 2 THEN more(s[k] % 32, 1)
        ELSE IF len = 3 THEN more(more(s[k] % 16, 1), 2)
        ELSE more(more(more(s[k] % 8, 1), 2), 3)

\* The characters of s, as strings.
Characters(s) ==
    LET from[k \in 1..Len(s) + 1] ==
            IF k > Len(s) THEN <<>>
            ELSE <<SubSeq(s, k, k + utf8_len(s, k) - 1)>> \o from[k + utf8_len(s, k)]
    IN  from[1]

to_codepoints(s) == LET chs == Characters(s) IN [k \in 1..Len(chs) |-> utf8_decode(chs[k], 1)]

Encoded(codepoints) == FlattenSeq([k \in 1..Len(codepoints) |-> utf8_encode(codepoints[k])])

\* Bytes that stand for themselves in the byte-level alphabet.
Printable == (33..126) \union (161..172) \union (174..255)

byte_to_unicode(b) ==
    IF b \in Printable THEN b ELSE 256 + Cardinality((0..b - 1) \ Printable)

\* unicode_to_byte_, '?' for what is no placeholder.
unicode_to_byte(cp) ==
    IF \E b \in 0..255 : byte_to_unicode(b) = cp
    THEN CHOOSE b \in 0..255 : byte_to_unicode(b) = cp ELSE 63

-----------------------------------------------------------------------------
(* pre_tokenize().                                                         *)

\* The first position from j on that is not in the set.
EndOf(j, positions) == Min((j..Len(cps) + 1) \ positions)

\* The positions that hold a character of each class.
LettersAt == {k \in DOMAIN cps : is_letter(cps[k])}
OthersAt == {k \in DOMAIN cps : is_other(cps[k])}
SpacesAt == {k \in DOMAIN cps : is_space(cps[k])}
NewlinesAt == {k \in DOMAIN cps : is_newline(cps[k])}

\* 1. contractions; like the following ones, the end of the piece, or 0
Contraction ==
    LET c1 == lower(cps[i + 1])
        c2 == IF i + 2 <= Len(cps) THEN lower(cps[i + 2]) ELSE 0
    IN  IF cps[i] # 39 \/ i + 1 > Len(cps) THEN 0
        ELSE IF c1 \in {115, 116, 109, 100} THEN i + 2
        ELSE IF <<c1, c2>> \in {<<114, 101>>, <<118, 101>>, <<108, 108>>} THEN i + 3
        ELSE 0

\* 2. an optional prefix and letters
Letters ==
    LET j == IF is_letter(cps[i]) THEN i ELSE i + 1
    IN  IF is_newline(cps[i]) \/ is_number(cps[i]) \/ j > Len(cps) THEN 0
        ELSE IF is_letter(cps[j]) THEN EndOf(j, LettersAt) ELSE 0

\* 3. a single number
Number == IF is_number(cps[i]) THEN i + 1 ELSE 0

\* 4. an optional space, a run of others, trailing newlines
Others ==
    LET j == IF cps[i] = 32 THEN i + 1 ELSE i
    IN  IF j > Len(cps) THEN 0
        ELSE IF is_other(cps[j]) THEN EndOf(EndOf(j, OthersAt), NewlinesAt) ELSE 0

\* Mutant: the space before a word stays with the run.
Spaces_all ==
    LET j == EndOf(i, SpacesAt)
        nl == (i..j - 1) \intersect NewlinesAt
    IN  IF ~is_space(cps[i]) THEN 0 ELSE IF nl # {} THEN Max(nl) + 1 ELSE j

\* 5. to 7. white space: up to its last newline, or without its last space if
\* something follows
Spaces ==
    LET j == EndOf(i, SpacesAt)
        nl == (i..j - 1) \intersect NewlinesAt
    IN  IF ~is_space(cps[i]) THEN 0
        ELSE IF nl # {} THEN Max(nl) + 1
        ELSE IF j <= Len(cps) /\ j - i > 1 THEN j - 1
        ELSE j

\* One turn of pre_tokenize's loop: the first rule that matches.
NextPiece ==
    /\ at = "split"
    /\ i <= Len(cps)
    /\ LET rules == <<Contraction, Letters, Number, Others, Spaces, i + 1>>
           j == rules[Min({k \in 1..6 : rules[k] # 0})]
       IN  /\ pieces' = Append(pieces, Encoded(SubSeq(cps, i, j - 1)))
           /\ i' = j
    /\ UNCHANGED <<family, text, pos, special, at, cps, ids, out>>

SplitDone ==
    /\ at = "split"
    /\ i > Len(cps)
    /\ at' = "words"
    /\ UNCHANGED <<family, text, pos, special, cps, i, pieces, ids, out>>

-----------------------------------------------------------------------------
(* Byte pair encoding.                                                     *)

\* merges_: the merges whose parts and whole are in the vocabulary, by rank.
MergesOf ==
    [f \in Families |-> SelectSeq(MergeList[f], LAMBDA m :
                            {m[1], m[2], m[1] \o m[2]} \subseteq Vocabulary[f])]
Merges == MergesOf[family]

\* The ranks of the adjacent pairs of q at k.
RanksAt(q, k) == {r \in 1..Len(Merges) : q[k] = <<"tok", Merges[r][1]>>
                                      /\ q[k + 1] = <<"tok", Merges[r][2]>>}
RanksIn(q) == UNION {RanksAt(q, k) : k \in 1..Len(q) - 1}
Whole(r) == <<"tok", Merges[r][1] \o Merges[r][2]>>

\* Mutant: the leftmost pair wins.
BestRank_first(q) == Min(RanksAt(q, Min({k \in 1..Len(q) - 1 : RanksAt(q, k) # {}})))

BestRank(q) == Min(RanksIn(q))

\* q with every occurrence of the pair of rank r merged, left to right.
MergeAll(q, r) ==
    LET from[k \in 1..Len(q) + 1] ==
            IF k > Len(q) THEN <<>>
            ELSE IF k < Len(q) /\ r \in RanksAt(q, k) THEN <<Whole(r)>> \o from[k + 2]
            ELSE <<q[k]>> \o from[k + 1]
    IN  from[1]

\* bpe(): the next word, one placeholder token per byte.
BeginWord ==
    /\ at = "words"
    /\ pieces # <<>>
    /\ ids' = [k \in 1..Len(Head(pieces)) |-> <<"tok", <<byte_to_unicode(Head(pieces)[k])>> >>]
    /\ pieces' = Tail(pieces)
    /\ at' = "merge"
    /\ UNCHANGED <<family, text, pos, special, cps, i, out>>

\* One turn of bpe_merge's loop.
bpe_merge ==
    /\ at = "merge"
    /\ RanksIn(ids) # {}
    /\ ids' = MergeAll(ids, BestRank(ids))
    /\ UNCHANGED <<family, text, pos, special, at, cps, i, pieces, out>>

MergeDone ==
    /\ at = "merge"
    /\ RanksIn(ids) = {}
    /\ out' = out \o ids
    /\ ids' = <<>>
    /\ at' = "words"
    /\ UNCHANGED <<family, text, pos, special, cps, i, pieces>>

-----------------------------------------------------------------------------
(* encode().                                                               *)

kMeta == <<226, 150, 129>>

\* A character that is not in the vocabulary falls back to those of its bytes that have
\* a token, or to the unknown token if none has.
Fallback(ch) ==
    LET bytes == FlattenSeq([b \in 1..Len(ch) |->
                     IF ch[b] \in ByteTokens THEN << <<"byte", <<ch[b]>> >> >> ELSE <<>>])
    IN  IF bytes = <<>> /\ Unknown # <<>> THEN << <<"tok", Unknown>> >> ELSE bytes

\* encode_metaspace, up to bpe_merge.
MetaspaceIds(chunk) ==
    LET norm == kMeta \o FlattenSeq([k \in 1..Len(chunk) |->
                            IF chunk[k] = 32 THEN kMeta ELSE <<chunk[k]>>])
        chs == Characters(norm)
    IN  FlattenSeq([k \in 1..Len(chs) |->
            IF chs[k] \in Vocabulary["Metaspace"] THEN << <<"tok", chs[k]>> >>
            ELSE Fallback(chs[k])])

\* Where the added token a is found in the text from pos on, counted from 0.
FoundAt(a) == {k \in pos..Len(text) - Len(a) : SubSeq(text, k + 1, k + Len(a)) = a}

\* Mutant: of two added tokens at the same place the shorter one wins.
Better_short(a, b) ==
    \/ Min(FoundAt(a)) < Min(FoundAt(b))
    \/ Min(FoundAt(a)) = Min(FoundAt(b)) /\ Len(a) < Len(b)

\* The earlier one, of two at the same place the longer one.
Better(a, b) ==
    \/ Min(FoundAt(a)) < Min(FoundAt(b))
    \/ Min(FoundAt(a)) = Min(FoundAt(b)) /\ Len(a) > Len(b)

\* The next added token, and the chunk before it.
FindSpecial ==
    /\ at = "scan"
    /\ pos < Len(text)
    /\ LET found == {a \in AddedTokens : FoundAt(a) # {}}
           best == IF found = {} THEN <<>> ELSE CHOOSE a \in found : \A b \in found \ {a} : Better(a, b)
           end == IF found = {} THEN Len(text) ELSE Min(FoundAt(best))
           chunk == SubSeq(text, pos + 1, end)
       IN  /\ special' = best
           /\ pos' = end
           /\ cps' = IF family = "ByteLevel" THEN to_codepoints(chunk) ELSE <<>>
           /\ ids' = IF family = "Metaspace" /\ chunk # <<>> THEN MetaspaceIds(chunk) ELSE <<>>
           /\ at' = IF chunk = <<>> THEN "words"
                    ELSE IF family = "ByteLevel" THEN "split" ELSE "merge"
    /\ i' = 1 /\ pieces' = <<>>
    /\ UNCHANGED <<family, text, out>>

\* The chunk is encoded; the added token behind it is taken as it is.
EndChunk ==
    /\ at = "words"
    /\ pieces = <<>>
    /\ out' = IF special = <<>> THEN out ELSE Append(out, <<"added", special>>)
    /\ pos' = pos + Len(special)
    /\ at' = "scan"
    /\ special' = <<>> /\ cps' = <<>> /\ i' = 1
    /\ UNCHANGED <<family, text, pieces, ids>>

EncodeDone == at = "scan" /\ pos = Len(text)

\* encode() has returned; it is the only way to stop.
Return == EncodeDone /\ UNCHANGED tokVars

-----------------------------------------------------------------------------
(* decode().                                                               *)

\* U+2581 is a space.
Spaced(s) ==
    LET from[k \in 1..Len(s) + 3] ==
            IF k > Len(s) THEN <<>>
            ELSE IF IsPrefix(kMeta, SubSeq(s, k, Len(s))) THEN <<32>> \o from[k + 3]
            ELSE <<s[k]>> \o from[k + 1]
    IN  from[1]

decode_token(tok) ==
    IF tok[1] \in {"added", "byte"} THEN tok[2]
    ELSE IF family = "Metaspace" THEN Spaced(tok[2])
    ELSE [k \in 1..Len(tok[2]) |-> unicode_to_byte(tok[2][k])]

\* Mutant: the leading space of a byte-level text is taken off too.
decode_strips(toks) ==
    LET s == FlattenSeq([k \in 1..Len(toks) |-> decode_token(toks[k])])
    IN  IF s # <<>> /\ Head(s) = 32 THEN Tail(s) ELSE s

\* The metaspace normaliser's leading space is taken off again.
decode(toks) ==
    LET s == FlattenSeq([k \in 1..Len(toks) |-> decode_token(toks[k])])
    IN  IF family = "Metaspace" /\ s # <<>> /\ Head(s) = 32 THEN Tail(s) ELSE s

-----------------------------------------------------------------------------
TokInit ==
    /\ family \in Families
    /\ text \in {Encoded(t) : t \in Texts}
    /\ pos = 0 /\ special = <<>> /\ at = "scan"
    /\ cps = <<>> /\ i = 1 /\ pieces = <<>> /\ ids = <<>> /\ out = <<>>

TokNext ==
    \/ NextPiece \/ SplitDone \/ BeginWord \/ bpe_merge \/ MergeDone \/ FindSpecial \/ EndChunk
    \/ Return

TokSpec == TokInit /\ [][TokNext]_tokVars

-----------------------------------------------------------------------------
(* Properties.                                                             *)

InClass(c, r) == \E k \in 1..Len(r) : c \in r[k][1]..r[k][2]

\* Where the alternatives of the split pattern, as the comment above pre_tokenize has
\* it, may end a match that starts at a.
MatchEnds(q, a) ==
    LET n == Len(q) + 1
        letter(c) == InClass(c, LetterRanges)
        number(c) == InClass(c, NumberRanges)
        space(c) == InClass(c, SpaceRanges)
        newline(c) == c \in {10, 13}
        other(c) == ~letter(c) /\ ~number(c) /\ ~space(c)
        all(j, k, Class(_)) == \A m \in j..k - 1 : Class(q[m])
        literal(w) == a + Len(w) <= n /\ \A m \in 1..Len(w) : lower(q[a + m - 1]) = w[m]
        apostrophe == { <<39, 115>>, <<39, 116>>, <<39, 114, 101>>, <<39, 118, 101>>, <<39, 109>>,
                        <<39, 108, 108>>, <<39, 100>> }
    IN  << {a + Len(w) : w \in {w \in apostrophe : literal(w)}},
           {j \in a + 1..n : \E p \in {0, 1} :
               /\ a + p < j /\ all(a + p, j, letter)
               /\ p = 1 => ~(newline(q[a]) \/ letter(q[a]) \/ number(q[a]))},
           {j \in {a + 1} : number(q[a])},
           {j \in a + 1..n : \E p \in {0, 1} : \E m \in a + p + 1..j :
               /\ p = 1 => q[a] = 32
               /\ all(a + p, m, other) /\ all(m, j, newline)},
           {j \in a + 1..n : all(a, j, space) /\ newline(q[j - 1])},
           {j \in a + 1..n : all(a, j, space) /\ (j < n => space(q[j]))},
           {j \in a + 1..n : all(a, j, space)} >>

\* Where the match at a ends: the first alternative that matches, and its longest match.
MatchEnd(q, a) ==
    LET ends == MatchEnds(q, a)
    IN  Max(ends[Min({k \in 1..7 : ends[k] # {}})])

\* The pieces of q from b on, and of all of it.
SplitBehind(q, b) ==
    LET from[a \in 1..Len(q) + 1] ==
            IF a > Len(q) THEN <<>>
            ELSE <<Encoded(SubSeq(q, a, MatchEnd(q, a) - 1))>> \o from[MatchEnd(q, a)]
    IN  from[b]

Split(q) == SplitBehind(q, 1)

\* Splitting by hand, rule by rule, gives the pieces of the regular expression.
SplitExact == at = "split" /\ i > Len(cps) => pieces = Split(cps)

\* The symbols a word starts from, before any merge.
Symbols(q) ==
    FlattenSeq([k \in 1..Len(q) |->
        IF q[k] = <<"tok", Unknown>> \/ q[k][1] = "byte" THEN <<q[k]>>
        ELSE LET parts == IF family = "Metaspace" THEN Characters(q[k][2])
                          ELSE [m \in 1..Len(q[k][2]) |-> <<q[k][2][m]>>]
             IN  [m \in 1..Len(parts) |-> <<"tok", parts[m]>>]])

\* Byte pair encoding by its definition: the leftmost pair of the lowest rank, one at a
\* time.
MergeOne(q) ==
    LET r == Min(RanksIn(q))
        k == Min({m \in 1..Len(q) - 1 : r \in RanksAt(q, m)})
    IN  SubSeq(q, 1, k - 1) \o <<Whole(r)>> \o SubSeq(q, k + 2, Len(q))

OneByOne(q) ==
    LET after[n \in 0..Len(q)] ==
            IF n = 0 THEN q
            ELSE IF RanksIn(after[n - 1]) = {} THEN after[n - 1]
            ELSE MergeOne(after[n - 1])
    IN  after[Len(q)]

\* Merging every occurrence of the best pair at once ends where merging one pair at a
\* time does, overlapping occurrences included.
MergeExact == at = "merge" /\ RanksIn(ids) = {} => ids = OneByOne(Symbols(ids))

\* The longest of the added tokens that start at s[k], <<>> if none does.
LongestAt(s, k) ==
    LET here == {a \in AddedTokens : IsPrefix(a, SubSeq(s, k, Len(s)))}
    IN  IF here = {} THEN <<>> ELSE CHOOSE a \in here : \A b \in here : Len(b) <= Len(a)

\* The added tokens in s from b on, scanned byte by byte, and all of them.
SpecialsBehind(s, b) ==
    LET from[k \in 1..Len(s) + 1] ==
            IF k > Len(s) THEN <<>>
            ELSE IF LongestAt(s, k) = <<>> THEN from[k + 1]
            ELSE << <<"added", LongestAt(s, k)>> >> \o from[k + Len(LongestAt(s, k))]
    IN  from[b]

Specials(s) == SpecialsBehind(s, 1)

\* The added tokens among the tokens of q.
AddedIn(q) ==
    LET upto[n \in 0..Len(q)] ==
            IF n = 0 THEN <<>>
            ELSE IF q[n][1] = "added" THEN Append(upto[n - 1], q[n]) ELSE upto[n - 1]
    IN  upto[Len(q)]

\* encode() finds every added token, wherever it stands and whatever else starts at the
\* same place: "matched literally, longest first" (encode).
SpecialsExact == EncodeDone => AddedIn(out) = Specials(text)

\* Every character, kMeta standing for a space, is in the vocabulary or has all of its
\* bytes there.
Covered(s) ==
    \A ch \in Range(Characters(<<32>> \o s)) :
        LET c == IF ch = <<32>> THEN kMeta ELSE ch
        IN  c \in Vocabulary["Metaspace"] \/ \A b \in 1..Len(c) : c[b] \in ByteTokens

\* decode(encode(x)) = x (test_tokenizer.cpp), byte for byte; in the metaspace family
\* only without added tokens, behind which a space appears, and unknown characters.
RoundTrip ==
    EncodeDone =>
        \/ decode(out) = text
        \/ family = "Metaspace" /\ (Specials(text) # <<>> \/ ~Covered(text))

=============================================================================
