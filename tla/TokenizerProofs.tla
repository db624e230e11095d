--------------------------- MODULE TokenizerProofs ---------------------------
(***************************************************************************)
(* The tokenizer, for every text, vocabulary, list of merges, set of added *)
(* tokens and table of character classes: the hand-written split is that   *)
(* of the regular expression, and every added token is found.              *)
(***************************************************************************)
EXTENDS Tokenizer, SequenceTheorems, NaturalsInduction, WellFoundedInduction, TLAPS

-----------------------------------------------------------------------------
(* Numbers and recursive functions.                                        *)

\* A set of natural numbers has a least one.
LEMMA LeastNat == ASSUME NEW T \in SUBSET Nat, T # {} PROVE \E n \in T : \A m \in T : n <= m
<1>1. PICK n \in T : \A m \in T : <<m, n>> \notin OpToRel(<, Nat)
  BY WFMin, NatLessThanWellFounded, Zenon
<1>2. ASSUME NEW m \in T, m < n PROVE FALSE
  <2>1. <<m, n>> \in Nat \X Nat /\ <<m, n>>[1] < <<m, n>>[2] BY <1>2
  <2>2. <<m, n>> \in OpToRel(<, Nat) BY <2>1 DEF OpToRel
  <2> QED BY <1>1, <2>2, Zenon
<1> QED BY <1>2

\* What Min returns, of natural numbers.
LEMMA MinIs == ASSUME NEW T \in SUBSET Nat, T # {} PROVE Min(T) \in T /\ \A m \in T : Min(T) <= m
<1>1. \E n \in T : \A m \in T : n <= m BY LeastNat
<1> QED BY <1>1 DEF Min

\* What Max returns, of numbers that have a greatest.
LEMMA MaxIs == ASSUME NEW T \in SUBSET Int, NEW x \in T, \A m \in T : m <= x PROVE Max(T) = x
<1>1. \A y \in T : (\A m \in T : y >= m) <=> y = x OBVIOUS
<1> QED BY <1>1 DEF Max

\* The least of a set is what Min returns.
LEMMA MinIsThe == ASSUME NEW T \in SUBSET Nat, NEW x \in T, \A m \in T : x <= m PROVE Min(T) = x
<1>1. \A y \in T : (\A m \in T : y <= m) <=> y = x OBVIOUS
<1> QED BY <1>1 DEF Min

\* A bounded set of natural numbers has a greatest one.
LEMMA GreatestUpTo ==
    ASSUME NEW n \in Nat, NEW T \in SUBSET (0..n), T # {}
    PROVE  \E x \in T : \A m \in T : m <= x
<1> DEFINE U == {d \in 0..n : n - d \in T}
<1>1. PICK y \in T : TRUE OBVIOUS
<1>2. y \in 0..n /\ n - y \in 0..n /\ n - (n - y) = y OBVIOUS
<1>3. n - y \in U BY <1>2
<1>4. U \in SUBSET Nat /\ U # {}
  <2>1. \A d \in U : d \in 0..n OBVIOUS
  <2> HIDE DEF U
  <2> QED BY <1>3, <2>1
<1>5. PICK d \in U : \A f \in U : d <= f
  <2> HIDE DEF U
  <2> QED BY <1>4, LeastNat
<1>6. ASSUME NEW m \in T PROVE m <= n - d
  <2>1. m \in 0..n /\ n - m \in 0..n /\ n - (n - m) = m OBVIOUS
  <2>2. n - m \in U BY <2>1
  <2>3. d <= n - m /\ d \in 0..n BY <1>5, <2>2
  <2> QED BY <2>1, <2>3
<1>7. n - d \in T BY <1>5
<1> QED BY <1>6, <1>7

\* A set that holds 0, and of the numbers up to n the next with every one, holds them.
LEMMA UpTo ==
    ASSUME NEW n \in Nat, NEW T, 0 \in T, \A k \in 1..n : k - 1 \in T => k \in T
    PROVE  \A k \in 0..n : k \in T
<1>1. SUFFICES ASSUME {k \in 0..n : k \notin T} # {} PROVE FALSE OBVIOUS
<1>2. PICK k \in {i0 \in 0..n : i0 \notin T} : \A m \in {i0 \in 0..n : i0 \notin T} : k <= m
  <2>1. {i0 \in 0..n : i0 \notin T} \in SUBSET Nat OBVIOUS
  <2> QED BY <1>1, <2>1, LeastNat, Zenon
<1>3. k # 0 BY <1>2
<1>4. k \in 1..n /\ k - 1 \in 0..n /\ ~(k <= k - 1) BY <1>2, <1>3
<1> QED BY <1>2, <1>4

\* A set that holds, of the numbers up to n, each one whose greater ones it holds, holds
\* them all.
LEMMA DownFrom ==
    ASSUME NEW n \in Nat, NEW T, \A k \in 1..n : (\A m \in k + 1..n : m \in T) => k \in T
    PROVE  \A k \in 1..n : k \in T
<1> DEFINE U == {d \in 0..n : \A m \in n - d + 1..n : m \in T}
<1>1. 0 \in U OBVIOUS
<1>2. ASSUME NEW d \in 1..n, d - 1 \in U PROVE d \in U
  <2>1. n - d + 1 \in 1..n OBVIOUS
  <2>2. \A m \in n - (d - 1) + 1..n : m \in T BY <1>2
  <2>3. n - d + 1 \in T
    <3>1. \A m \in (n - d + 1) + 1..n : m \in T BY <2>2
    <3> QED BY <2>1, <3>1
  <2>4. ASSUME NEW m \in n - d + 1..n PROVE m \in T
    <3>1. m = n - d + 1 \/ m \in n - (d - 1) + 1..n OBVIOUS
    <3> QED BY <2>2, <2>3, <3>1
  <2>5. d \in 0..n OBVIOUS
  <2> QED BY <2>4, <2>5
<1>3. \A d \in 0..n : d \in U
  <2> HIDE DEF U
  <2> QED BY <1>1, <1>2, UpTo
<1>4. n \in U BY <1>3
<1>5. \A m \in n - n + 1..n : m \in T BY <1>4
<1> QED BY <1>5

\* f is what a scan of n places makes: behind the end nothing, at a place its part and
\* what the scan makes from the next place on.
Scans(f, n, part, next) ==
    f = [a \in 1..n + 1 |-> IF a > n THEN <<>> ELSE part[a] \o f[next[a]]]

\* A scan that always goes on has a result.
LEMMA ScanEnds ==
    ASSUME NEW n \in Nat, NEW part, NEW next, \A a \in 1..n : next[a] \in a + 1..n + 1
    PROVE  \E f : Scans(f, n, part, next)
<1> DEFINE Part(f, b) == \A a \in b..n + 1 : f[a] = IF a > n THEN <<>> ELSE part[a] \o f[next[a]]
           T == {d \in 0..n : \E f : Part(f, n + 1 - d)}
<1>1. 0 \in T
  <2>1. Part([a \in 1..n + 1 |-> <<>>], n + 1 - 0) OBVIOUS
  <2> QED BY <2>1
<1>2. ASSUME NEW d \in 1..n, d - 1 \in T PROVE d \in T
  <2>1. PICK f : Part(f, n + 1 - (d - 1)) BY <1>2
  <2> DEFINE b == n + 1 - d
             g == [a \in b..n + 1 |-> IF a = b THEN part[b] \o f[next[b]] ELSE f[a]]
  <2>2. b \in 1..n /\ next[b] \in b + 1..n + 1 OBVIOUS
  <2>3. ASSUME NEW a \in b..n + 1 PROVE g[a] = IF a > n THEN <<>> ELSE part[a] \o g[next[a]]
    <3>1. CASE a = b
      <4>1. next[b] \in b..n + 1 /\ next[b] # b BY <2>2
      <4>2. g[next[b]] = f[next[b]] BY <4>1
      <4>3. b \in b..n + 1 /\ ~(b > n) BY <2>2
      <4>4. g[b] = part[b] \o f[next[b]] BY <4>3
      <4> QED BY <3>1, <4>2, <4>3, <4>4
    <3>2. CASE a # b
      <4>1. a \in n + 1 - (d - 1)..n + 1 /\ g[a] = f[a] BY <3>2
      <4>2. f[a] = IF a > n THEN <<>> ELSE part[a] \o f[next[a]] BY <2>1, <4>1
      <4>3. CASE a > n BY <4>1, <4>2, <4>3
      <4>4. CASE a \in 1..n
        <5>1. next[a] \in a + 1..n + 1 BY <4>4
        <5>2. next[a] \in b..n + 1 /\ next[a] # b BY <2>2, <5>1
        <5>3. g[next[a]] = f[next[a]] BY <5>2
        <5> QED BY <4>1, <4>2, <4>4, <5>3
      <4> QED BY <2>2, <4>3, <4>4
    <3> QED BY <3>1, <3>2
  <2>4. Part(g, b) BY <2>3
  <2>5. d \in 0..n OBVIOUS
  <2> HIDE DEF Part, g
  <2> QED BY <2>4, <2>5
<1>3. n \in T
  <2> HIDE DEF T
  <2>1. \A d \in 0..n : d \in T BY <1>1, <1>2, UpTo
  <2> QED BY <2>1
<1>4. PICK f : Part(f, 1)
  <2>1. \E f : Part(f, n + 1 - n) BY <1>3
  <2>2. n + 1 - n = 1 OBVIOUS
  <2> HIDE DEF Part
  <2> QED BY <2>1, <2>2
<1> DEFINE g == [a \in 1..n + 1 |-> f[a]]
<1>5. ASSUME NEW a \in 1..n + 1 PROVE g[a] = IF a > n THEN <<>> ELSE part[a] \o g[next[a]]
  <2>1. f[a] = IF a > n THEN <<>> ELSE part[a] \o f[next[a]] BY <1>4
  <2>2. CASE a > n BY <2>1, <2>2
  <2>3. CASE a \in 1..n
    <3>1. next[a] \in 1..n + 1 BY <2>3
    <3> QED BY <2>1, <2>3, <3>1
  <2> QED BY <2>2, <2>3
<1>6. Scans(g, n, part, next)
  <2> HIDE DEF g
  <2>1. g = [a \in 1..n + 1 |-> g[a]] BY DEF g
  <2> QED BY <1>5, <2>1 DEF Scans
<1> QED BY <1>6

\* What a scan of parts over S makes is a sequence over S.
LEMMA ScanType ==
    ASSUME NEW n \in Nat, NEW part, NEW next, NEW f, Scans(f, n, part, next), NEW S,
           \A a \in 1..n : next[a] \in a + 1..n + 1 /\ part[a] \in Seq(S)
    PROVE  \A a \in 1..n + 1 : f[a] \in Seq(S)
<1>1. \A a \in 1..n + 1 : f[a] = IF a > n THEN <<>> ELSE part[a] \o f[next[a]] BY DEF Scans
<1>2. f[n + 1] = <<>> BY <1>1
<1>3. \A a \in 1..n : f[a] = part[a] \o f[next[a]]
  <2>1. \A a \in 1..n : a \in 1..n + 1 /\ ~(a > n) OBVIOUS
  <2> QED BY <1>1, <2>1
<1>4. f[n + 1] \in Seq(S) BY <1>2
<1> DEFINE T == {a \in 1..n : f[a] \in Seq(S)}
<1>5. ASSUME NEW a \in 1..n, \A m \in a + 1..n : m \in T PROVE a \in T
  <2>1. next[a] \in a + 1..n + 1 /\ part[a] \in Seq(S) OBVIOUS
  <2>2. f[next[a]] \in Seq(S)
    <3>1. CASE next[a] = n + 1 BY <1>4, <3>1
    <3>2. CASE next[a] \in a + 1..n
      <4>1. next[a] \in T BY <1>5, <3>2
      <4> QED BY <4>1
    <3> QED BY <2>1, <3>1, <3>2
  <2>3. part[a] \o f[next[a]] \in Seq(S) BY <2>1, <2>2
  <2> QED BY <1>3, <2>3
<1>6. \A a \in 1..n : a \in T
  <2> HIDE DEF T
  <2> QED BY <1>5, DownFrom
<1>7. ASSUME NEW a \in 1..n + 1 PROVE f[a] \in Seq(S)
  <2>1. a = n + 1 \/ a \in 1..n OBVIOUS
  <2> QED BY <1>4, <1>6, <2>1
<1> QED BY <1>7

\* f is what a loop computes turn by turn: it starts from base, turn k is G[<<k, _>>].
Runs(f, n, base, G) == f[0] = base /\ \A k \in 1..n : f[k] = G[<<k, f[k - 1]>>]

\* A loop of n turns over values in V has a value after every turn.
LEMMA LoopRuns ==
    ASSUME NEW n \in Nat, NEW V, NEW base \in V, NEW G \in [(1..n) \X V -> V]
    PROVE  \E f \in [0..n -> V] : Runs(f, n, base, G)
<1> DEFINE T == {m \in 0..n : \E f \in [0..m -> V] : Runs(f, m, base, G)}
<1>1. 0 \in T
  <2>1. [k \in 0..0 |-> base] \in [0..0 -> V] /\ Runs([k \in 0..0 |-> base], 0, base, G) BY DEF Runs
  <2>2. 0 \in 0..n OBVIOUS
  <2> QED BY <2>1, <2>2
<1>2. ASSUME NEW m \in 1..n, m - 1 \in T PROVE m \in T
  <2>0. m \in 0..n /\ \E f \in [0..m - 1 -> V] : Runs(f, m - 1, base, G) BY <1>2
  <2>1. PICK f \in [0..m - 1 -> V] : Runs(f, m - 1, base, G) BY <2>0
  <2> DEFINE v == G[<<m, f[m - 1]>>]
             g == [k \in 0..m |-> IF k = m THEN v ELSE f[k]]
  <2>2. v \in V
    <3>1. m - 1 \in 0..m - 1 OBVIOUS
    <3>2. <<m, f[m - 1]>> \in (1..n) \X V BY <2>1, <3>1
    <3> QED BY <3>2
  <2> HIDE DEF v
  <2>3. g \in [0..m -> V] BY <2>1, <2>2
  <2>4. g[0] = base BY <2>1 DEF Runs
  <2>5. ASSUME NEW k \in 1..m PROVE g[k] = G[<<k, g[k - 1]>>]
    <3>1. k - 1 \in 0..m - 1 /\ g[k - 1] = f[k - 1] OBVIOUS
    <3>2. CASE k = m
      <4>1. g[k] = v BY <3>2
      <4> QED BY <3>1, <3>2, <4>1 DEF v
    <3>3. CASE k # m
      <4>1. k \in 1..m - 1 /\ g[k] = f[k] BY <3>3
      <4> QED BY <2>1, <3>1, <4>1 DEF Runs
    <3> QED BY <3>2, <3>3
  <2>6. Runs(g, m, base, G)
    <3> HIDE DEF g
    <3> QED BY <2>4, <2>5 DEF Runs
  <2> HIDE DEF g
  <2> QED BY <2>0, <2>3, <2>6
<1>3. n \in T
  <2>1. n \in 0..n OBVIOUS
  <2> HIDE DEF T
  <2> QED BY <1>1, <1>2, <2>1, UpTo
<1> QED BY <1>3

-----------------------------------------------------------------------------
(* Strings and characters.                                                 *)

\* Sequences over S put one after the other are a sequence over S.
LEMMA FlattenType == ASSUME NEW S, NEW q \in Seq(Seq(S)) PROVE FlattenSeq(q) \in Seq(S)
<1> DEFINE n == Len(q)
           V == Seq(S)
           G == [p \in (1..n) \X V |-> p[2] \o q[p[1]]]
           flatten[k \in 1..Len(q)] == IF k = 1 THEN q[k] ELSE flatten[k - 1] \o q[k]
<1>1. CASE Len(q) = 0
  <2>1. q = <<>> BY <1>1
  <2>2. FlattenSeq(q) = q BY <1>1 DEF FlattenSeq
  <2>3. <<>> \in Seq(S) OBVIOUS
  <2> QED BY <2>1, <2>2, <2>3, Zenon
<1>2. CASE Len(q) # 0
  <2>0. n \in Nat \ {0} /\ \A k \in 1..n : q[k] \in V BY <1>2
  <2>1. G \in [(1..n) \X V -> V]
    <3> SUFFICES ASSUME NEW p \in (1..n) \X V PROVE p[2] \o q[p[1]] \in V OBVIOUS
    <3>1. p[2] \in Seq(S) /\ q[p[1]] \in Seq(S) BY <2>0
    <3> QED BY <3>1
  <2>2. <<>> \in V OBVIOUS
  <2>3. PICK f \in [0..n -> V] : Runs(f, n, <<>>, G)
    <3> HIDE DEF G, V, n
    <3> QED BY <2>0, <2>1, <2>2, LoopRuns
  <2>4. \A k \in 1..n : f[k] = f[k - 1] \o q[k]
    <3> SUFFICES ASSUME NEW k \in 1..n PROVE f[k] = f[k - 1] \o q[k] OBVIOUS
    <3>1. k - 1 \in 0..n BY <2>0
    <3>2. <<k, f[k - 1]>> \in (1..n) \X V BY <2>3, <3>1
    <3> QED BY <2>3, <3>2 DEF Runs
  <2>5. f[0] = <<>> BY <2>3 DEF Runs
  <2>6. f[1] = q[1]
    <3>1. 1 \in 1..n /\ 1 - 1 = 0 BY <2>0
    <3>2. f[1] = f[0] \o q[1]
      <4> HIDE DEF n, G
      <4> QED BY <2>4, <3>1, Zenon
    <3>3. PICK x \in Seq(S) : x = q[1] BY <2>0, <3>1
    <3>4. <<>> \o x = x OBVIOUS
    <3> QED BY <2>5, <3>2, <3>3, <3>4, Zenon
  <2> DEFINE g == [k \in 1..Len(q) |-> f[k]]
  <2>7. ASSUME NEW k \in 1..Len(q) PROVE g[k] = IF k = 1 THEN q[k] ELSE g[k - 1] \o q[k]
    <3>1. CASE k = 1 BY <2>6, <3>1
    <3>2. CASE k # 1
      <4>1. k - 1 \in 1..Len(q) BY <3>2
      <4> QED BY <2>4, <3>2, <4>1
    <3> QED BY <3>1, <3>2
  <2>8. g = [k \in 1..Len(q) |-> IF k = 1 THEN q[k] ELSE g[k - 1] \o q[k]]
    <3>1. g = [k \in 1..Len(q) |-> g[k]] OBVIOUS
    <3> HIDE DEF g
    <3> QED BY <2>7, <3>1
  <2>9. flatten = [k \in 1..Len(q) |-> IF k = 1 THEN q[k] ELSE flatten[k - 1] \o q[k]]
    <3>1. \E h : h = [k \in 1..Len(q) |-> IF k = 1 THEN q[k] ELSE h[k - 1] \o q[k]]
      <4> HIDE DEF g
      <4> QED BY <2>8
    <3> QED BY <3>1
  <2>10. FlattenSeq(q) = flatten[Len(q)] BY <1>2 DEF FlattenSeq
  <2> HIDE DEF flatten, g, G
  <2>11. flatten[1] = q[1] /\ \A k \in 2..n : flatten[k] = flatten[k - 1] \o q[k]
    <3>1. 1 \in 1..Len(q) BY <2>0
    <3>2. \A k \in 2..n : k \in 1..Len(q) /\ k # 1 OBVIOUS
    <3> QED BY <2>9, <3>1, <3>2
  <2> DEFINE T == {0} \union {k \in 1..n : flatten[k] \in V}
  <2>12. ASSUME NEW k \in 1..n, k - 1 \in T PROVE k \in T
    <3>1. CASE k = 1 BY <2>0, <2>11, <3>1
    <3>2. CASE k # 1
      <4>1. k \in 2..n BY <3>2
      <4>2. flatten[k - 1] \in Seq(S) BY <2>12, <3>2
      <4>3. q[k] \in Seq(S) BY <2>0
      <4>4. flatten[k - 1] \o q[k] \in Seq(S) BY <4>2, <4>3
      <4> QED BY <2>11, <4>1, <4>4
    <3> QED BY <3>1, <3>2
  <2>13. n \in T
    <3>1. 0 \in T OBVIOUS
    <3>2. n \in 0..n BY <2>0
    <3> HIDE DEF T, n
    <3> QED BY <2>0, <2>12, <3>1, <3>2, UpTo
  <2> QED BY <2>0, <2>10, <2>13
<1> QED BY <1>1, <1>2

\* The bytes of a character.
LEMMA utf8Bytes == ASSUME NEW c \in Nat PROVE utf8_encode(c) \in Seq(Nat)
<1>1. /\ c \div 64 \in Nat /\ c \div 4096 \in Nat /\ c \div 262144 \in Nat
      /\ c % 64 \in Nat /\ (c \div 64) % 64 \in Nat /\ (c \div 4096) % 64 \in Nat
  BY SMT
<1>2. \A x, y \in Nat : x + y \in Nat OBVIOUS
<1>3. \A x \in Nat : <<x>> \in Seq(Nat) OBVIOUS
<1>4. \A x, y \in Nat : <<x, y>> \in Seq(Nat) OBVIOUS
<1>5. \A x, y, z \in Nat : <<x, y, z>> \in Seq(Nat) OBVIOUS
<1>6. \A x, y, z, w \in Nat : <<x, y, z, w>> \in Seq(Nat) OBVIOUS
<1>7. 192 \in Nat /\ 128 \in Nat /\ 224 \in Nat /\ 240 \in Nat OBVIOUS
<1> QED BY <1>1, <1>2, <1>3, <1>4, <1>5, <1>6, <1>7, SMT DEF utf8_encode

\* A text in UTF-8 is a sequence of numbers.
LEMMA EncodedType == ASSUME NEW q \in Seq(Nat) PROVE Encoded(q) \in Seq(Nat)
<1> DEFINE parts == [k \in 1..Len(q) |-> utf8_encode(q[k])]
<1>1. \A k \in 1..Len(q) : utf8_encode(q[k]) \in Seq(Nat)
  <2>1. \A k \in 1..Len(q) : q[k] \in Nat OBVIOUS
  <2> QED BY <2>1, utf8Bytes, Zenon
<1>2. parts \in Seq(Seq(Nat))
  <2>1. Len(q) \in Nat OBVIOUS
  <2> QED BY <1>1, <2>1
<1>3. Encoded(q) = FlattenSeq(parts) BY DEF Encoded
<1> HIDE DEF parts
<1> QED BY <1>2, <1>3, FlattenType

\* A character has one to four bytes, and ends where its string does at the latest.
LEMMA utf8Len ==
    ASSUME NEW s \in Seq(Nat), NEW k \in 1..Len(s)
    PROVE  utf8_len(s, k) \in 1..4 /\ k + utf8_len(s, k) \in k + 1..Len(s) + 1
<1>1. s[k] \in Nat /\ Len(s) \in Nat OBVIOUS
<1> QED BY <1>1, SMT DEF utf8_len

\* The bytes behind the first one of a character.
LEMMA BytesBehind ==
    ASSUME NEW n \in 1..4
    PROVE  /\ n >= 2 => 1 \in 1..n - 1
           /\ n >= 3 => 2 \in 1..n - 1
           /\ n >= 4 => 3 \in 1..n - 1
           /\ n = 2 \/ n = 3 => n >= 2
           /\ n = 3 => n >= 3
           /\ n = 4 => n >= 2 /\ n >= 3 /\ n >= 4
           /\ n = 1 \/ n = 2 \/ n = 3 \/ n = 4
OBVIOUS

\* A character decodes to a number.
LEMMA utf8Decodes ==
    ASSUME NEW s \in Seq(Nat), NEW k \in 1..Len(s)
    PROVE  utf8_decode(s, k) \in Nat
<1> DEFINE n == utf8_len(s, k)
           more(cp, m) == cp * 64 + (s[k + m] % 64)
<1>1. s[k] \in Nat /\ Len(s) \in Nat /\ n \in 1..4 /\ k + n \in k + 1..Len(s) + 1 BY utf8Len
<1>2. ASSUME NEW m \in 1..n - 1, NEW cp \in Nat PROVE more(cp, m) \in Nat
  <2>1. k + m \in 1..Len(s)
    <3> HIDE DEF n, more
    <3>1. k \in Nat \ {0} OBVIOUS
    <3> QED BY <1>1, <3>1
  <2>2. PICK x \in Nat : x = s[k + m] BY <2>1
  <2>3. cp * 64 + (x % 64) \in Nat OBVIOUS
  <2> QED BY <2>2, <2>3, Zenon
<1>3. s[k] % 32 \in Nat /\ s[k] % 16 \in Nat /\ s[k] % 8 \in Nat
  <2>1. \A x \in Nat : x % 32 \in Nat /\ x % 16 \in Nat /\ x % 8 \in Nat OBVIOUS
  <2> QED BY <1>1, <2>1, Zenon
<1>4. utf8_decode(s, k) =
        IF s[k] < 128 THEN s[k]
        ELSE IF n = 1 THEN 65533
        ELSE IF n = 2 THEN more(s[k] % 32, 1)
        ELSE IF n = 3 THEN more(more(s[k] % 16, 1), 2)
        ELSE more(more(more(s[k] % 8, 1), 2), 3)
  BY SMT DEF utf8_decode
<1>5. /\ n >= 2 => 1 \in 1..n - 1
      /\ n >= 3 => 2 \in 1..n - 1
      /\ n >= 4 => 3 \in 1..n - 1
      /\ n = 2 \/ n = 3 => n >= 2
      /\ n = 3 => n >= 3
      /\ n = 4 => n >= 2 /\ n >= 3 /\ n >= 4
      /\ n = 1 \/ n = 2 \/ n = 3 \/ n = 4
  <2>1. n \in 1..4 BY <1>1, Zenon
  <2> HIDE DEF n, more
  <2> QED BY <2>1, BytesBehind, Zenon
<1>6. 65533 \in Nat BY SMT
<1> HIDE DEF more, n
<1>7. CASE n = 1 BY <1>1, <1>4, <1>6, <1>7, SMT
<1>8. CASE n = 2
  <2>1. more(s[k] % 32, 1) \in Nat BY <1>2, <1>3, <1>5, <1>8
  <2> QED BY <1>1, <1>4, <1>8, <2>1, SMT
<1>9. CASE n = 3
  <2>1. more(s[k] % 16, 1) \in Nat BY <1>2, <1>3, <1>5, <1>9
  <2>2. more(more(s[k] % 16, 1), 2) \in Nat BY <1>2, <1>5, <1>9, <2>1
  <2> QED BY <1>1, <1>4, <1>9, <2>2, SMT
<1>10. CASE n = 4
  <2>1. more(s[k] % 8, 1) \in Nat BY <1>2, <1>3, <1>5, <1>10
  <2>2. more(more(s[k] % 8, 1), 2) \in Nat BY <1>2, <1>5, <1>10, <2>1
  <2>3. more(more(more(s[k] % 8, 1), 2), 3) \in Nat BY <1>2, <1>5, <1>10, <2>2
  <2> QED BY <1>1, <1>4, <1>10, <2>3, SMT
<1> QED BY <1>5, <1>7, <1>8, <1>9, <1>10

\* A string is cut into characters, none of them empty.
LEMMA CharactersType == ASSUME NEW s \in Seq(Nat) PROVE Characters(s) \in Seq(Seq(Nat) \ {<<>>})
<1> DEFINE n == Len(s)
           S == Seq(Nat) \ {<<>>}
           part == [k \in 1..n |-> <<SubSeq(s, k, k + utf8_len(s, k) - 1)>>]
           next == [k \in 1..n |-> k + utf8_len(s, k)]
           from[k \in 1..Len(s) + 1] ==
               IF k > Len(s) THEN <<>>
               ELSE <<SubSeq(s, k, k + utf8_len(s, k) - 1)>> \o from[k + utf8_len(s, k)]
<1>1. n \in Nat OBVIOUS
<1>2. ASSUME NEW k \in 1..n PROVE next[k] \in k + 1..n + 1 /\ part[k] \in Seq(S)
  <2>1. k + utf8_len(s, k) \in k + 1..n + 1 BY utf8Len
  <2>2. ASSUME NEW m \in k + 1..n + 1 PROVE SubSeq(s, k, m - 1) \in S
    <3>1. SubSeq(s, k, m - 1) \in Seq(Nat) /\ Len(SubSeq(s, k, m - 1)) = m - k OBVIOUS
    <3>2. Len(SubSeq(s, k, m - 1)) # 0 BY <3>1
    <3>3. \A x : Len(x) # 0 => x # <<>> OBVIOUS
    <3> QED BY <3>1, <3>2, <3>3, Zenon
  <2>3. SubSeq(s, k, k + utf8_len(s, k) - 1) \in S
    <3> HIDE DEF n, S
    <3>1. \A m \in k + 1..n + 1 : SubSeq(s, k, m - 1) \in S BY <2>2
    <3>2. \A m : m \in k + 1..n + 1 => SubSeq(s, k, m - 1) \in S BY <3>1
    <3> DEFINE e == k + utf8_len(s, k)
    <3>3. e \in k + 1..n + 1 BY <2>1
    <3> HIDE DEF e
    <3>4. SubSeq(s, k, e - 1) \in S BY <3>2, <3>3
    <3>5. k \in Nat /\ utf8_len(s, k) \in Nat BY <1>1, utf8Len DEF n
    <3>6. k + utf8_len(s, k) - 1 = e - 1 BY <3>5 DEF e
    <3> QED BY <3>4, <3>6, Zenon
  <2>4. \A x \in S : <<x>> \in Seq(S)
    <3> HIDE DEF S
    <3> QED OBVIOUS
  <2>5. <<SubSeq(s, k, k + utf8_len(s, k) - 1)>> \in Seq(S) BY <2>3, <2>4, Zenon
  <2>6. next[k] = k + utf8_len(s, k) /\ part[k] = <<SubSeq(s, k, k + utf8_len(s, k) - 1)>>
    OBVIOUS
  <2> HIDE DEF part, next, S
  <2> QED BY <2>1, <2>5, <2>6, Zenon
<1>3. PICK f : Scans(f, n, part, next)
  <2> HIDE DEF n, S, part, next
  <2> QED BY <1>1, <1>2, ScanEnds
<1>4. f = [k \in 1..Len(s) + 1 |->
             IF k > Len(s) THEN <<>>
             ELSE <<SubSeq(s, k, k + utf8_len(s, k) - 1)>> \o f[k + utf8_len(s, k)]]
  <2>1. \A k \in 1..n + 1 : k > n \/ k \in 1..n OBVIOUS
  <2> QED BY <1>3, <2>1 DEF Scans
<1>5. from = [k \in 1..Len(s) + 1 |->
                IF k > Len(s) THEN <<>>
                ELSE <<SubSeq(s, k, k + utf8_len(s, k) - 1)>> \o from[k + utf8_len(s, k)]]
  <2>1. \E h : h = [k \in 1..Len(s) + 1 |->
                      IF k > Len(s) THEN <<>>
                      ELSE <<SubSeq(s, k, k + utf8_len(s, k) - 1)>> \o h[k + utf8_len(s, k)]]
    <3> HIDE DEF from
    <3> QED BY <1>4
  <2> QED BY <2>1
<1>6. Characters(s) = from[1] BY DEF Characters
<1> HIDE DEF from
<1>7. Scans(from, n, part, next)
  <2>1. \A k \in 1..n + 1 : k > n \/ k \in 1..n OBVIOUS
  <2> QED BY <1>5, <2>1 DEF Scans
<1>8. 1 \in 1..n + 1 BY <1>1
<1>9. \A k \in 1..n + 1 : from[k] \in Seq(S)
  <2> HIDE DEF n, S, part, next
  <2> QED BY <1>1, <1>2, <1>7, ScanType
<1> QED BY <1>6, <1>8, <1>9

\* The codepoints of a string are numbers.
LEMMA CodepointsType == ASSUME NEW s \in Seq(Nat) PROVE to_codepoints(s) \in Seq(Nat)
<1> DEFINE chs == Characters(s)
<1>1. chs \in Seq(Seq(Nat) \ {<<>>}) BY CharactersType
<1> HIDE DEF chs
<1>2. ASSUME NEW k \in 1..Len(chs) PROVE utf8_decode(chs[k], 1) \in Nat
  <2>1. chs[k] \in Seq(Nat) /\ chs[k] # <<>> BY <1>1
  <2>2. 1 \in 1..Len(chs[k]) BY <2>1
  <2> QED BY <2>1, <2>2, utf8Decodes
<1>3. Len(chs) \in Nat BY <1>1
<1>4. [k \in 1..Len(chs) |-> utf8_decode(chs[k], 1)] \in Seq(Nat) BY <1>2, <1>3
<1>5. to_codepoints(s) = [k \in 1..Len(chs) |-> utf8_decode(chs[k], 1)] BY DEF to_codepoints, chs
<1> QED BY <1>4, <1>5

-----------------------------------------------------------------------------
(* Character classes.                                                      *)

\* A table of ranges as in_ranges needs it.
ValidRanges(r) ==
    /\ r \in Seq(Nat \X Nat)
    /\ \A k \in 1..Len(r) : r[k][1] <= r[k][2] /\ (k > 1 => r[k - 1][2] < r[k][1])

\* The ranges of a table are apart, in order.
LEMMA RangesApart ==
    ASSUME NEW r, ValidRanges(r)
    PROVE  /\ Len(r) \in Nat
           /\ \A k \in 1..Len(r) : r[k][1] \in Nat /\ r[k][2] \in Nat /\ r[k][1] <= r[k][2]
           /\ \A j, k \in 1..Len(r) : j < k => r[j][2] < r[k][1]
<1> DEFINE n == Len(r)
           T == {k \in 0..n : \A j \in 1..n : j < k => r[j][2] < r[k][1]}
<1>1. n \in Nat BY DEF ValidRanges
<1>2. ASSUME NEW k \in 1..n PROVE r[k][1] \in Nat /\ r[k][2] \in Nat /\ r[k][1] <= r[k][2]
  <2>1. r[k] \in Nat \X Nat BY DEF ValidRanges
  <2> QED BY <2>1 DEF ValidRanges
<1>3. 0 \in T OBVIOUS
<1>4. ASSUME NEW k \in 1..n, k - 1 \in T PROVE k \in T
  <2> SUFFICES ASSUME NEW j \in 1..n, j < k PROVE r[j][2] < r[k][1] BY <1>1
  <2>1. k > 1 /\ k - 1 \in 1..n BY <1>1
  <2>2. r[k - 1][2] < r[k][1] BY <2>1 DEF ValidRanges
  <2>3. CASE j = k - 1 BY <2>2, <2>3
  <2>4. CASE j < k - 1
    <3>1. r[j][2] < r[k - 1][1] BY <1>4, <2>4
    <3>2. PICK x1, x2, x3, x4 \in Nat :
            x1 = r[j][2] /\ x2 = r[k - 1][1] /\ x3 = r[k - 1][2] /\ x4 = r[k][1]
      BY <1>2, <2>1
    <3>3. x2 <= x3 BY <1>2, <2>1, <3>2
    <3>4. x1 < x2 /\ x3 < x4 BY <2>2, <3>1, <3>2
    <3>5. x1 < x4 BY <3>3, <3>4
    <3> QED BY <3>2, <3>5
  <2> QED BY <1>1, <2>3, <2>4
<1>5. \A k \in 0..n : k \in T
  <2> HIDE DEF T, n
  <2> QED BY <1>1, <1>3, <1>4, UpTo
<1>6. ASSUME NEW j \in 1..n, NEW k \in 1..n, j < k PROVE r[j][2] < r[k][1]
  <2>1. k \in T BY <1>1, <1>5
  <2> QED BY <1>6, <2>1
<1> QED BY <1>1, <1>2, <1>6

\* The binary search finds a codepoint exactly if some range holds it.
LEMMA SearchFinds ==
    ASSUME NEW r, ValidRanges(r), NEW cp \in Nat
    PROVE  in_ranges(cp, r) = InClass(cp, r)
<1> DEFINE n == Len(r)
           D == (0..n) \X (0..n)
           hit(lo, hi) == \E k \in lo + 1..hi : cp \in r[k][1]..r[k][2]
           mid(lo, hi) == ((lo + hi) \div 2) + 1
           search[w \in (0..Len(r)) \X (0..Len(r))] ==
               IF w[1] >= w[2] THEN FALSE
               ELSE IF cp < r[((w[1] + w[2]) \div 2) + 1][1]
               THEN search[<<w[1], (((w[1] + w[2]) \div 2) + 1) - 1>>]
               ELSE IF cp > r[((w[1] + w[2]) \div 2) + 1][2]
               THEN search[<<((w[1] + w[2]) \div 2) + 1, w[2]>>]
               ELSE TRUE
           g == [w \in D |-> hit(w[1], w[2])]
<1>1. /\ n \in Nat
      /\ \A k \in 1..n : r[k][1] \in Nat /\ r[k][2] \in Nat /\ r[k][1] <= r[k][2]
      /\ \A j, k \in 1..n : j < k => r[j][2] < r[k][1]
  BY RangesApart
<1>2. ASSUME NEW lo \in 0..n, NEW hi \in 0..n, lo < hi
      PROVE  mid(lo, hi) \in lo + 1..hi /\ mid(lo, hi) - 1 \in lo..hi - 1
  BY <1>1, <1>2
<1>3. ASSUME NEW lo \in 0..n, NEW hi \in 0..n, NEW m \in lo + 1..hi
      PROVE  hit(lo, hi) = IF cp < r[m][1] THEN hit(lo, m - 1)
                           ELSE IF cp > r[m][2] THEN hit(m, hi) ELSE TRUE
  <2>1. m \in 1..n /\ r[m][1] \in Nat /\ r[m][2] \in Nat BY <1>1
  <2>2. CASE cp < r[m][1]
    <3>1. ASSUME NEW k \in m..hi, cp \in r[k][1]..r[k][2] PROVE FALSE
      <4>1. k \in 1..n /\ r[k][1] \in Nat BY <1>1
      <4>2. r[m][1] <= r[k][1]
        <5>1. CASE k = m BY <2>1, <5>1
        <5>2. CASE m < k
          <6>1. r[m][2] < r[k][1] /\ r[m][1] <= r[m][2] BY <1>1, <2>1, <4>1, <5>2
          <6> QED BY <2>1, <4>1, <6>1
        <5> QED BY <5>1, <5>2
      <4>3. r[k][1] <= cp BY <3>1
      <4> QED BY <2>1, <2>2, <4>1, <4>2, <4>3
    <3>2. \A k \in lo + 1..hi : k \in m..hi \/ k \in lo + 1..m - 1 OBVIOUS
    <3>3. \A k \in lo + 1..m - 1 : k \in lo + 1..hi OBVIOUS
    <3>4. hit(lo, hi) = hit(lo, m - 1) BY <3>1, <3>2, <3>3
    <3> HIDE DEF hit
    <3> QED BY <2>2, <3>4
  <2>3. CASE ~(cp < r[m][1]) /\ cp > r[m][2]
    <3>1. ASSUME NEW k \in lo + 1..m, cp \in r[k][1]..r[k][2] PROVE FALSE
      <4>1. k \in 1..n /\ r[k][2] \in Nat BY <1>1
      <4>2. r[k][2] <= r[m][2]
        <5>1. CASE k = m BY <2>1, <5>1
        <5>2. CASE k < m
          <6>1. r[k][2] < r[m][1] /\ r[m][1] <= r[m][2] BY <1>1, <2>1, <4>1, <5>2
          <6> QED BY <2>1, <4>1, <6>1
        <5> QED BY <5>1, <5>2
      <4>3. cp <= r[k][2] BY <3>1
      <4> QED BY <2>1, <2>3, <4>1, <4>2, <4>3
    <3>2. \A k \in lo + 1..hi : k \in lo + 1..m \/ k \in m + 1..hi OBVIOUS
    <3>3. \A k \in m + 1..hi : k \in lo + 1..hi OBVIOUS
    <3>4. hit(lo, hi) = hit(m, hi) BY <3>1, <3>2, <3>3
    <3> HIDE DEF hit
    <3> QED BY <2>3, <3>4
  <2>4. CASE ~(cp < r[m][1]) /\ ~(cp > r[m][2])
    <3>1. cp \in r[m][1]..r[m][2] BY <2>1, <2>4
    <3>2. hit(lo, hi) = TRUE BY <3>1
    <3> HIDE DEF hit
    <3> QED BY <2>4, <3>2
  <2> QED BY <2>2, <2>3, <2>4
<1>4. ASSUME NEW lo \in 0..n, NEW hi \in 0..n, lo >= hi PROVE hit(lo, hi) = FALSE
  <2>1. lo + 1..hi = {} BY <1>1, <1>4
  <2> QED BY <2>1
<1>5. ASSUME NEW w \in D
      PROVE  g[w] = IF w[1] >= w[2] THEN FALSE
                    ELSE IF cp < r[mid(w[1], w[2])][1] THEN g[<<w[1], mid(w[1], w[2]) - 1>>]
                    ELSE IF cp > r[mid(w[1], w[2])][2] THEN g[<<mid(w[1], w[2]), w[2]>>]
                    ELSE TRUE
  <2>0. PICK lo, hi \in 0..n : w = <<lo, hi>> OBVIOUS
  <2>1. \A l, h \in 0..n : g[<<l, h>>] = hit(l, h)
    <3> HIDE DEF hit
    <3> QED OBVIOUS
  <2>2. w[1] = lo /\ w[2] = hi BY <2>0
  <2> HIDE DEF g, D
  <2>3. CASE lo >= hi
    <3>1. hit(lo, hi) = FALSE BY <1>4, <2>3
    <3> HIDE DEF hit
    <3> QED BY <2>0, <2>1, <2>2, <2>3, <3>1
  <2>4. CASE lo < hi
    <3>1. mid(lo, hi) \in lo + 1..hi /\ mid(lo, hi) - 1 \in lo..hi - 1 BY <1>2, <2>4
    <3>2. mid(lo, hi) \in 0..n /\ mid(lo, hi) - 1 \in 0..n BY <1>1, <3>1
    <3> HIDE DEF hit, mid
    <3>3. hit(lo, hi) = IF cp < r[mid(lo, hi)][1] THEN hit(lo, mid(lo, hi) - 1)
                        ELSE IF cp > r[mid(lo, hi)][2] THEN hit(mid(lo, hi), hi) ELSE TRUE
      BY <1>3, <3>1
    <3>4. ~(lo >= hi) BY <2>4
    <3> DEFINE m == mid(lo, hi)
    <3>5. g[<<lo, hi>>] = hit(lo, hi) BY <2>1
    <3>6. g[<<lo, m - 1>>] = hit(lo, m - 1) /\ g[<<m, hi>>] = hit(m, hi) BY <2>1, <3>2
    <3>7. g[<<lo, hi>>] = IF cp < r[m][1] THEN g[<<lo, m - 1>>]
                          ELSE IF cp > r[m][2] THEN g[<<m, hi>>] ELSE TRUE
      <4> HIDE DEF m
      <4>1. hit(lo, hi) = IF cp < r[m][1] THEN hit(lo, m - 1)
                          ELSE IF cp > r[m][2] THEN hit(m, hi) ELSE TRUE
        BY <3>3 DEF m
      <4> QED BY <3>5, <3>6, <4>1
    <3>8. g[<<lo, hi>>] = IF lo >= hi THEN FALSE
                          ELSE IF cp < r[m][1] THEN g[<<lo, m - 1>>]
                          ELSE IF cp > r[m][2] THEN g[<<m, hi>>] ELSE TRUE
      <4> HIDE DEF m
      <4> QED BY <3>4, <3>7
    <3> QED BY <2>0, <2>2, <3>8, Zenon
  <2>5. lo < hi \/ lo >= hi BY <1>1
  <2> QED BY <2>3, <2>4, <2>5
<1>6. search = [w \in (0..Len(r)) \X (0..Len(r)) |->
               IF w[1] >= w[2] THEN FALSE
               ELSE IF cp < r[((w[1] + w[2]) \div 2) + 1][1]
               THEN search[<<w[1], (((w[1] + w[2]) \div 2) + 1) - 1>>]
               ELSE IF cp > r[((w[1] + w[2]) \div 2) + 1][2]
               THEN search[<<((w[1] + w[2]) \div 2) + 1, w[2]>>]
               ELSE TRUE]
  <2>1. g = [w \in D |->
               IF w[1] >= w[2] THEN FALSE
               ELSE IF cp < r[((w[1] + w[2]) \div 2) + 1][1]
               THEN g[<<w[1], (((w[1] + w[2]) \div 2) + 1) - 1>>]
               ELSE IF cp > r[((w[1] + w[2]) \div 2) + 1][2]
               THEN g[<<((w[1] + w[2]) \div 2) + 1, w[2]>>]
               ELSE TRUE]
    <3>1. g = [w \in D |-> g[w]] OBVIOUS
    <3> HIDE DEF g, D
    <3> QED BY <1>5, <3>1
  <2> HIDE DEF g
  <2>2. \E h : h = [w \in (0..Len(r)) \X (0..Len(r)) |->
               IF w[1] >= w[2] THEN FALSE
               ELSE IF cp < r[((w[1] + w[2]) \div 2) + 1][1]
               THEN h[<<w[1], (((w[1] + w[2]) \div 2) + 1) - 1>>]
               ELSE IF cp > r[((w[1] + w[2]) \div 2) + 1][2]
               THEN h[<<((w[1] + w[2]) \div 2) + 1, w[2]>>]
               ELSE TRUE]
    BY <2>1, Zenon
  <2> QED BY <2>2, Zenon
<1>7. in_ranges(cp, r) = search[<<0, Len(r)>>] BY DEF in_ranges
<1> HIDE DEF search, g
<1>8. ASSUME NEW lo \in 0..n, NEW hi \in 0..n
      PROVE  search[<<lo, hi>>] = IF lo >= hi THEN FALSE
                                  ELSE IF cp < r[mid(lo, hi)][1] THEN search[<<lo, mid(lo, hi) - 1>>]
                                  ELSE IF cp > r[mid(lo, hi)][2] THEN search[<<mid(lo, hi), hi>>]
                                  ELSE TRUE
  BY <1>6
<1> DEFINE T == {d \in 0..n : \A lo, hi \in 0..n : hi - lo <= d => search[<<lo, hi>>] = hit(lo, hi)}
<1>9. ASSUME NEW lo \in 0..n, NEW hi \in 0..n, lo >= hi PROVE search[<<lo, hi>>] = hit(lo, hi)
  <2>1. hit(lo, hi) = FALSE BY <1>4, <1>9
  <2> HIDE DEF hit, mid
  <2> QED BY <1>8, <1>9, <2>1
<1>10. 0 \in T
  <2>1. \A lo, hi \in 0..n : hi - lo <= 0 => lo >= hi BY <1>1
  <2>2. 0 \in 0..n BY <1>1
  <2> HIDE DEF hit
  <2> QED BY <1>9, <2>1, <2>2
<1>11. ASSUME NEW d \in 1..n, d - 1 \in T PROVE d \in T
  <2>0. \A l, h \in 0..n : h - l <= d - 1 => search[<<l, h>>] = hit(l, h) BY <1>11
  <2>1. ASSUME NEW lo \in 0..n, NEW hi \in 0..n, hi - lo <= d, lo < hi
        PROVE search[<<lo, hi>>] = hit(lo, hi)
    <3>1. mid(lo, hi) \in lo + 1..hi /\ mid(lo, hi) - 1 \in lo..hi - 1 BY <1>2, <2>1
    <3>2. mid(lo, hi) \in 0..n /\ mid(lo, hi) - 1 \in 0..n BY <1>1, <3>1
    <3> HIDE DEF hit, mid
    <3>3. (mid(lo, hi) - 1) - lo <= d - 1 /\ hi - mid(lo, hi) <= d - 1 BY <1>1, <2>1, <3>1
    <3>5. search[<<lo, mid(lo, hi) - 1>>] = hit(lo, mid(lo, hi) - 1) BY <2>0, <3>2, <3>3
    <3>6. search[<<mid(lo, hi), hi>>] = hit(mid(lo, hi), hi) BY <2>0, <3>2, <3>3
    <3>7. hit(lo, hi) = IF cp < r[mid(lo, hi)][1] THEN hit(lo, mid(lo, hi) - 1)
                        ELSE IF cp > r[mid(lo, hi)][2] THEN hit(mid(lo, hi), hi) ELSE TRUE
      BY <1>3, <3>1
    <3>8. ~(lo >= hi) BY <2>1
    <3> QED BY <1>8, <3>5, <3>6, <3>7, <3>8
  <2>2. \A lo, hi \in 0..n : lo < hi \/ lo >= hi OBVIOUS
  <2>3. d \in 0..n BY <1>1
  <2> HIDE DEF hit
  <2> QED BY <1>9, <2>1, <2>2, <2>3
<1>12. n \in T
  <2>1. \A d \in 0..n : d \in T
    <3> HIDE DEF T, n
    <3> QED BY <1>1, <1>10, <1>11, UpTo
  <2>2. n \in 0..n BY <1>1
  <2> HIDE DEF T
  <2> QED BY <2>1, <2>2
<1>13. search[<<0, n>>] = hit(0, n)
  <2>1. 0 \in 0..n /\ n \in 0..n /\ n - 0 <= n BY <1>1
  <2> HIDE DEF hit
  <2> QED BY <1>12, <2>1
<1>14. hit(0, n) = InClass(cp, r) BY DEF InClass
<1> HIDE DEF hit
<1> QED BY <1>7, <1>13, <1>14

\* The tables of the three classes are fit for the search.
LEMMA TablesValid == ValidRanges(LetterRanges) /\ ValidRanges(NumberRanges) /\ ValidRanges(SpaceRanges)
<1>1. \A r \in {LetterRanges, NumberRanges, SpaceRanges} : ValidRanges(r)
  <2> SUFFICES ASSUME NEW r \in {LetterRanges, NumberRanges, SpaceRanges} PROVE ValidRanges(r)
    OBVIOUS
  <2>1. /\ r \in Seq(Nat \X Nat)
        /\ \A k \in 1..Len(r) : r[k][1] <= r[k][2] /\ (k > 1 => r[k - 1][2] < r[k][1])
    BY TokenizerAssumption, Zenon
  <2> QED BY <2>1, Zenon DEF ValidRanges
<1> QED BY <1>1

\* The tests of a character's class are those of the pattern.  A letter is neither a
\* number nor white space, and newlines and the space are white space.
LEMMA Classes ==
    ASSUME NEW c \in Nat
    PROVE  /\ is_letter(c) = InClass(c, LetterRanges)
           /\ is_number(c) = InClass(c, NumberRanges)
           /\ is_space(c) = InClass(c, SpaceRanges)
           /\ is_letter(c) => ~is_number(c) /\ ~is_space(c)
           /\ c \in {10, 13, 32} => is_space(c)
<1>1. /\ is_letter(c) = InClass(c, LetterRanges)
      /\ is_number(c) = InClass(c, NumberRanges)
      /\ is_space(c) = InClass(c, SpaceRanges)
  BY TablesValid, SearchFinds DEF is_letter, is_number, is_space
<1>2. ASSUME NEW r \in {NumberRanges, SpaceRanges}, InClass(c, LetterRanges), InClass(c, r)
      PROVE  FALSE
  <2>1. PICK l \in 1..Len(LetterRanges) : c \in LetterRanges[l][1]..LetterRanges[l][2]
    BY <1>2 DEF InClass
  <2>2. PICK k \in 1..Len(r) : c \in r[k][1]..r[k][2] BY <1>2 DEF InClass
  <2>3. LetterRanges[l][2] < r[k][1] \/ r[k][2] < LetterRanges[l][1]
    <3>1. \A m \in 1..Len(LetterRanges) : \A t \in {NumberRanges, SpaceRanges} : \A h \in 1..Len(t) :
             LetterRanges[m][2] < t[h][1] \/ t[h][2] < LetterRanges[m][1]
      BY TokenizerAssumption, Zenon
    <3> QED BY <3>1, Zenon
  <2>4. ValidRanges(r) BY TablesValid
  <2>5. /\ LetterRanges[l][1] \in Nat /\ LetterRanges[l][2] \in Nat
        /\ r[k][1] \in Nat /\ r[k][2] \in Nat
    BY <2>4, TablesValid, RangesApart
  <2>6. PICK x1, x2, x3, x4 \in Nat : /\ x1 = LetterRanges[l][1] /\ x2 = LetterRanges[l][2]
                                     /\ x3 = r[k][1] /\ x4 = r[k][2]
    BY <2>5, Zenon
  <2>7. c \in x1..x2 /\ c \in x3..x4 /\ (x2 < x3 \/ x4 < x1) BY <2>1, <2>2, <2>3, <2>6, Zenon
  <2> QED BY <2>7
<1>3. c \in {10, 13, 32} => InClass(c, SpaceRanges)
  <2>1. \A x \in {10, 13, 32} : \E k \in 1..Len(SpaceRanges) : x \in SpaceRanges[k][1]..SpaceRanges[k][2]
    BY TokenizerAssumption, Zenon
  <2> QED BY <2>1, Zenon DEF InClass
<1> QED BY <1>1, <1>2, <1>3

\* The classes of the positions of a text.
LEMMA PositionClasses ==
    ASSUME cps \in Seq(Nat)
    PROVE  /\ Len(cps) \in Nat /\ DOMAIN cps = 1..Len(cps)
           /\ LettersAt \subseteq 1..Len(cps) /\ OthersAt \subseteq 1..Len(cps)
           /\ SpacesAt \subseteq 1..Len(cps) /\ NewlinesAt \subseteq SpacesAt
           /\ \A m \in 1..Len(cps) :
                 /\ cps[m] \in Nat
                 /\ m \in LettersAt <=> is_letter(cps[m])
                 /\ m \in LettersAt <=> InClass(cps[m], LetterRanges)
                 /\ m \in SpacesAt <=> is_space(cps[m])
                 /\ m \in SpacesAt <=> InClass(cps[m], SpaceRanges)
                 /\ m \in NewlinesAt <=> cps[m] \in {10, 13}
                 /\ is_number(cps[m]) <=> InClass(cps[m], NumberRanges)
                 /\ m \in OthersAt <=> m \notin LettersAt /\ m \notin SpacesAt /\ ~is_number(cps[m])
                 /\ m \in LettersAt => m \notin SpacesAt /\ ~is_number(cps[m])
                 /\ cps[m] = 32 => m \in SpacesAt
<1>1. Len(cps) \in Nat /\ DOMAIN cps = 1..Len(cps) /\ \A m \in 1..Len(cps) : cps[m] \in Nat OBVIOUS
<1>2. \A m \in 1..Len(cps) :
        /\ is_letter(cps[m]) <=> InClass(cps[m], LetterRanges)
        /\ is_number(cps[m]) <=> InClass(cps[m], NumberRanges)
        /\ is_space(cps[m]) <=> InClass(cps[m], SpaceRanges)
        /\ is_letter(cps[m]) => ~is_number(cps[m]) /\ ~is_space(cps[m])
        /\ cps[m] \in {10, 13, 32} => is_space(cps[m])
  BY <1>1, Classes
<1> QED BY <1>1, <1>2 DEF LettersAt, OthersAt, SpacesAt, NewlinesAt, is_other, is_newline

\* All positions from j to before k are in the set P.
AllIn(j, k, P) == \A m \in j..k - 1 : m \in P

\* A loop over the positions of a class ends at the first that is not of it.
LEMMA EndOfIs ==
    ASSUME cps \in Seq(Nat), NEW P \in SUBSET (1..Len(cps)), NEW j \in 1..Len(cps) + 1
    PROVE  /\ EndOf(j, P) \in j..Len(cps) + 1
           /\ EndOf(j, P) \notin P
           /\ AllIn(j, EndOf(j, P), P)
           /\ \A k \in j..Len(cps) + 1 : AllIn(j, k, P) => k <= EndOf(j, P)
<1> DEFINE U == (j..Len(cps) + 1) \ P
<1>1. Len(cps) \in Nat OBVIOUS
<1>2. U \in SUBSET Nat /\ Len(cps) + 1 \in U BY <1>1
<1>3. EndOf(j, P) \in U /\ \A m \in U : EndOf(j, P) <= m
  <2> HIDE DEF U
  <2>1. Min(U) \in U /\ \A m \in U : Min(U) <= m BY <1>2, MinIs
  <2> QED BY <2>1 DEF EndOf, U
<1>4. PICK e \in j..Len(cps) + 1 : e = EndOf(j, P) BY <1>3
<1>5. e \notin P /\ \A m \in U : e <= m BY <1>3, <1>4
<1>6. \A m \in j..e - 1 : m \in P
  <2> SUFFICES ASSUME NEW m \in j..e - 1, m \notin P PROVE FALSE OBVIOUS
  <2>1. m \in U /\ ~(e <= m) BY <1>1
  <2> QED BY <1>5, <2>1
<1>7. ASSUME NEW k \in j..Len(cps) + 1, AllIn(j, k, P), k > e PROVE FALSE
  <2>1. e \in j..k - 1 BY <1>1, <1>7
  <2> QED BY <1>5, <1>7, <2>1 DEF AllIn
<1>8. \A k \in j..Len(cps) + 1 : AllIn(j, k, P) => k <= e BY <1>1, <1>7
<1> QED BY <1>4, <1>5, <1>6, <1>8 DEF AllIn

\* What may match at i, in terms of the positions of the classes.
LEMMA Alternatives ==
    ASSUME cps \in Seq(Nat), i \in 1..Len(cps)
    PROVE  LET n == Len(cps) + 1
               E == MatchEnds(cps, i)
           IN  /\ E[2] = {j \in i + 1..n : \E p \in {0, 1} :
                            /\ i + p < j /\ AllIn(i + p, j, LettersAt)
                            /\ p = 1 => /\ i \notin NewlinesAt /\ i \notin LettersAt
                                        /\ ~is_number(cps[i])}
               /\ E[3] = {j \in {i + 1} : is_number(cps[i])}
               /\ E[4] = {j \in i + 1..n : \E p \in {0, 1} : \E m \in i + p + 1..j :
                            /\ p = 1 => cps[i] = 32
                            /\ AllIn(i + p, m, OthersAt) /\ AllIn(m, j, NewlinesAt)}
               /\ E[5] = {j \in i + 1..n : AllIn(i, j, SpacesAt) /\ j - 1 \in NewlinesAt}
               /\ E[6] = {j \in i + 1..n : AllIn(i, j, SpacesAt) /\ (j < n => j \in SpacesAt)}
               /\ E[7] = {j \in i + 1..n : AllIn(i, j, SpacesAt)}
<1> DEFINE n == Len(cps) + 1
           E == MatchEnds(cps, i)
           all(j, k, r) == \A m \in j..k - 1 : InClass(cps[m], r)
           others(j, k) == \A m \in j..k - 1 : /\ ~InClass(cps[m], LetterRanges)
                                               /\ ~InClass(cps[m], NumberRanges)
                                               /\ ~InClass(cps[m], SpaceRanges)
           newlines(j, k) == \A m \in j..k - 1 : cps[m] \in {10, 13}
<1>1. /\ E[2] = {j \in i + 1..n : \E p \in {0, 1} :
                   /\ i + p < j /\ all(i + p, j, LetterRanges)
                   /\ p = 1 => ~(\/ cps[i] \in {10, 13}
                                 \/ InClass(cps[i], LetterRanges)
                                 \/ InClass(cps[i], NumberRanges))}
      /\ E[3] = {j \in {i + 1} : InClass(cps[i], NumberRanges)}
      /\ E[4] = {j \in i + 1..n : \E p \in {0, 1} : \E m \in i + p + 1..j :
                   /\ p = 1 => cps[i] = 32
                   /\ others(i + p, m) /\ newlines(m, j)}
      /\ E[5] = {j \in i + 1..n : all(i, j, SpaceRanges) /\ cps[j - 1] \in {10, 13}}
      /\ E[6] = {j \in i + 1..n : all(i, j, SpaceRanges) /\ (j < n => InClass(cps[j], SpaceRanges))}
      /\ E[7] = {j \in i + 1..n : all(i, j, SpaceRanges)}
  BY DEF MatchEnds
<1>2. /\ Len(cps) \in Nat
      /\ \A m \in 1..Len(cps) :
            /\ m \in LettersAt <=> InClass(cps[m], LetterRanges)
            /\ m \in SpacesAt <=> InClass(cps[m], SpaceRanges)
            /\ m \in NewlinesAt <=> cps[m] \in {10, 13}
            /\ is_number(cps[m]) <=> InClass(cps[m], NumberRanges)
            /\ m \in OthersAt <=> /\ ~InClass(cps[m], LetterRanges)
                                  /\ ~InClass(cps[m], NumberRanges)
                                  /\ ~InClass(cps[m], SpaceRanges)
  BY PositionClasses
<1>3. ASSUME NEW j \in i..n, NEW k \in i..n
      PROVE  /\ all(j, k, LetterRanges) <=> AllIn(j, k, LettersAt)
             /\ all(j, k, SpaceRanges) <=> AllIn(j, k, SpacesAt)
             /\ others(j, k) <=> AllIn(j, k, OthersAt)
             /\ newlines(j, k) <=> AllIn(j, k, NewlinesAt)
  <2>1. \A m \in j..k - 1 : m \in 1..Len(cps) BY <1>2
  <2> QED BY <1>2, <2>1 DEF AllIn
<1> HIDE DEF E, all, others, newlines
<1>4. i \in 1..Len(cps) /\ i \in i..n /\ i + 0 = i /\ i + 1 \in i..n BY <1>2
<1>5. E[2] = {j \in i + 1..n : \E p \in {0, 1} :
                /\ i + p < j /\ AllIn(i + p, j, LettersAt)
                /\ p = 1 => /\ i \notin NewlinesAt /\ i \notin LettersAt
                            /\ ~is_number(cps[i])}
  <2>1. \A p \in {0, 1} : i + p \in i..n BY <1>4
  <2>2. \A j \in i + 1..n : j \in i..n BY <1>2
  <2> QED BY <1>1, <1>2, <1>3, <1>4, <2>1, <2>2
<1>6. E[3] = {j \in {i + 1} : is_number(cps[i])} BY <1>1, <1>2
<1>7. E[4] = {j \in i + 1..n : \E p \in {0, 1} : \E m \in i + p + 1..j :
                /\ p = 1 => cps[i] = 32
                /\ AllIn(i + p, m, OthersAt) /\ AllIn(m, j, NewlinesAt)}
  <2>1. \A p \in {0, 1} : i + p \in i..n BY <1>4
  <2>2. \A j \in i + 1..n : \A p \in {0, 1} : \A m \in i + p + 1..j : j \in i..n /\ m \in i..n
    BY <1>2
  <2> QED BY <1>1, <1>3, <2>1, <2>2
<1>8. E[5] = {j \in i + 1..n : AllIn(i, j, SpacesAt) /\ j - 1 \in NewlinesAt}
  <2>1. \A j \in i + 1..n : j \in i..n /\ j - 1 \in 1..Len(cps) BY <1>2
  <2> QED BY <1>1, <1>2, <1>3, <1>4, <2>1
<1>9. E[6] = {j \in i + 1..n : AllIn(i, j, SpacesAt) /\ (j < n => j \in SpacesAt)}
  <2>1. \A j \in i + 1..n : j \in i..n /\ (j < n => j \in 1..Len(cps)) BY <1>2
  <2> QED BY <1>1, <1>2, <1>3, <1>4, <2>1
<1>10. E[7] = {j \in i + 1..n : AllIn(i, j, SpacesAt)}
  <2>1. \A j \in i + 1..n : j \in i..n BY <1>2
  <2> QED BY <1>1, <1>3, <1>4, <2>1
<1> QED BY <1>5, <1>6, <1>7, <1>8, <1>9, <1>10 DEF E

-----------------------------------------------------------------------------
(* The rules.                                                              *)

\* h is what a rule makes of the matches e of its alternative: 0 if there is none, the
\* longest one otherwise.
Rule(h, e) ==
    /\ h = 0 <=> e = {}
    /\ h # 0 => h \in i + 1..Len(cps) + 1 /\ Max(e) = h

\* How a rule is seen to be right.
LEMMA RuleRight ==
    ASSUME cps \in Seq(Nat), i \in 1..Len(cps), NEW e \in SUBSET (i + 1..Len(cps) + 1), NEW h,
           \/ h = 0 /\ e = {}
           \/ h \in e /\ \A m \in e : m <= h
    PROVE  Rule(h, e)
<1>1. e \in SUBSET Int OBVIOUS
<1>2. CASE h = 0 /\ e = {} BY <1>2 DEF Rule
<1>3. CASE h \in e /\ \A m \in e : m <= h
  <2>1. h # 0 /\ e # {} /\ h \in i + 1..Len(cps) + 1 BY <1>3
  <2>2. Max(e) = h BY <1>1, <1>3, MaxIs
  <2> QED BY <2>1, <2>2 DEF Rule
<1> QED BY <1>2, <1>3

\* Only an apostrophe is one in lower case.
LEMMA LowerApostrophe == ASSUME NEW c \in Nat PROVE lower(c) = 39 <=> c = 39
BY DEF lower

\* 1. contractions
LEMMA ContractionRight ==
    ASSUME cps \in Seq(Nat), i \in 1..Len(cps)
    PROVE  Rule(Contraction, MatchEnds(cps, i)[1])
<1> DEFINE n == Len(cps) + 1
           E == MatchEnds(cps, i)
           A == { <<39, 115>>, <<39, 116>>, <<39, 114, 101>>, <<39, 118, 101>>, <<39, 109>>,
                  <<39, 108, 108>>, <<39, 100>> }
           literal(w) == i + Len(w) <= n /\ \A m \in 1..Len(w) : lower(cps[i + m - 1]) = w[m]
           c1 == lower(cps[i + 1])
           c2 == lower(cps[i + 2])
           two == i + 1 <= Len(cps) /\ cps[i] = 39 /\ c1 \in {115, 116, 109, 100}
           three == /\ i + 2 <= Len(cps) /\ cps[i] = 39
                    /\ <<c1, c2>> \in {<<114, 101>>, <<118, 101>>, <<108, 108>>}
<1>1. E[1] = {i + Len(w) : w \in {w \in A : literal(w)}} BY DEF MatchEnds
<1>2. Len(cps) \in Nat /\ i \in Nat \ {0} /\ cps[i] \in Nat OBVIOUS
<1>3. lower(cps[i]) = 39 <=> cps[i] = 39 BY <1>2, LowerApostrophe
<1>4. ASSUME NEW y
      PROVE  literal(<<39, y>>) <=> i + 1 <= Len(cps) /\ cps[i] = 39 /\ c1 = y
  <2> DEFINE w == <<39, y>>
  <2>1. Len(w) = 2 /\ w[1] = 39 /\ w[2] = y OBVIOUS
  <2>2. i + 1 - 1 = i /\ i + 2 - 1 = i + 1 /\ (i + 2 <= n <=> i + 1 <= Len(cps)) BY <1>2
  <2>3. \A m : m \in 1..2 <=> m = 1 \/ m = 2 OBVIOUS
  <2>4. literal(w) <=> i + 2 <= n /\ lower(cps[i + 1 - 1]) = 39 /\ lower(cps[i + 2 - 1]) = y
    <3> HIDE DEF w, n
    <3> QED BY <2>1, <2>3
  <2> HIDE DEF w
  <2> QED BY <1>3, <2>2, <2>4 DEF w
<1>5. ASSUME NEW y, NEW z
      PROVE  literal(<<39, y, z>>) <=> i + 2 <= Len(cps) /\ cps[i] = 39 /\ c1 = y /\ c2 = z
  <2> DEFINE w == <<39, y, z>>
  <2>1. Len(w) = 3 /\ w[1] = 39 /\ w[2] = y /\ w[3] = z OBVIOUS
  <2>2. /\ i + 1 - 1 = i /\ i + 2 - 1 = i + 1 /\ i + 3 - 1 = i + 2
        /\ i + 3 <= n <=> i + 2 <= Len(cps)
    BY <1>2
  <2>3. \A m : m \in 1..3 <=> m = 1 \/ m = 2 \/ m = 3 OBVIOUS
  <2>4. literal(w) <=> /\ i + 3 <= n /\ lower(cps[i + 1 - 1]) = 39
                       /\ lower(cps[i + 2 - 1]) = y /\ lower(cps[i + 3 - 1]) = z
    <3> HIDE DEF w, n
    <3> QED BY <2>1, <2>3
  <2> HIDE DEF w
  <2> QED BY <1>3, <2>2, <2>4 DEF w
<1>6. ASSUME NEW w \in A, literal(w) PROVE (two /\ Len(w) = 2) \/ (three /\ Len(w) = 3)
  <2> HIDE DEF literal, c1, c2
  <2>1. CASE \E y \in {115, 116, 109, 100} : w = <<39, y>>
    <3>1. PICK y \in {115, 116, 109, 100} : w = <<39, y>> BY <2>1
    <3>2. Len(w) = 2 BY <3>1
    <3>3. literal(<<39, y>>) BY <1>6, <3>1, Zenon
    <3> HIDE DEF A
    <3>4. i + 1 <= Len(cps) /\ cps[i] = 39 /\ c1 = y BY <1>4, <3>3, Zenon
    <3> QED BY <3>2, <3>4, Zenon
  <2>2. CASE \E y \in {114, 118, 108}, z \in {101, 108} :
               w = <<39, y, z>> /\ <<y, z>> \in {<<114, 101>>, <<118, 101>>, <<108, 108>>}
    <3>1. PICK y \in {114, 118, 108}, z \in {101, 108} :
            w = <<39, y, z>> /\ <<y, z>> \in {<<114, 101>>, <<118, 101>>, <<108, 108>>}
      BY <2>2
    <3>2. Len(w) = 3 BY <3>1
    <3>3. literal(<<39, y, z>>) BY <1>6, <3>1
    <3>4. i + 2 <= Len(cps) /\ cps[i] = 39 /\ c1 = y /\ c2 = z BY <1>5, <3>3
    <3> QED BY <3>1, <3>2, <3>4
  <2> QED BY <2>1, <2>2
<1>7. two => \E w \in A : literal(w) /\ Len(w) = 2
  <2> SUFFICES ASSUME two PROVE \E w \in A : literal(w) /\ Len(w) = 2 OBVIOUS
  <2> HIDE DEF literal
  <2>1. literal(<<39, c1>>) BY <1>4
  <2>2. <<39, c1>> \in A BY DEF A
  <2>3. Len(<<39, c1>>) = 2 OBVIOUS
  <2> HIDE DEF A
  <2> QED BY <2>1, <2>2, <2>3, Zenon
<1>8. three => \E w \in A : literal(w) /\ Len(w) = 3
  <2> SUFFICES ASSUME three PROVE \E w \in A : literal(w) /\ Len(w) = 3 OBVIOUS
  <2> HIDE DEF literal
  <2>1. literal(<<39, c1, c2>>) BY <1>5
  <2>2. <<39, c1, c2>> \in A BY DEF A
  <2>3. Len(<<39, c1, c2>>) = 3 OBVIOUS
  <2> HIDE DEF A
  <2> QED BY <2>1, <2>2, <2>3, Zenon
<1>9. ~(two /\ three)
  <2> HIDE DEF c1, c2
  <2>1. three => c1 \in {114, 118, 108} OBVIOUS
  <2>2. two => c1 \in {115, 116, 109, 100} OBVIOUS
  <2> HIDE DEF two, three
  <2> QED BY <2>1, <2>2
<1>10. E[1] = IF two THEN {i + 2} ELSE IF three THEN {i + 3} ELSE {}
  <2> HIDE DEF literal, A, two, three, E
  <2>1. \A j : j \in E[1] <=> \E w \in A : literal(w) /\ j = i + Len(w) BY <1>1
  <2>2. \A j : j \in E[1] <=> (two /\ j = i + 2) \/ (three /\ j = i + 3)
    BY <1>6, <1>7, <1>8, <2>1
  <2> QED BY <1>9, <2>2
<1>11. Contraction = IF two THEN i + 2 ELSE IF three THEN i + 3 ELSE 0
  <2>1. i + 2 <= Len(cps) => i + 1 <= Len(cps) BY <1>2
  <2>2. \A x : <<x, 0>> \notin {<<114, 101>>, <<118, 101>>, <<108, 108>>} OBVIOUS
  <2>3. ~(i + 1 > Len(cps)) <=> i + 1 <= Len(cps) BY <1>2
  <2> DEFINE third == IF i + 2 <= Len(cps) THEN c2 ELSE 0
  <2>4. <<c1, third>> \in {<<114, 101>>, <<118, 101>>, <<108, 108>>}
        <=> i + 2 <= Len(cps) /\ <<c1, c2>> \in {<<114, 101>>, <<118, 101>>, <<108, 108>>}
    <3> HIDE DEF c1, c2
    <3>1. CASE i + 2 <= Len(cps) BY <3>1
    <3>2. CASE ~(i + 2 <= Len(cps)) BY <2>2, <3>2
    <3> QED BY <3>1, <3>2, Zenon
  <2> QED BY <2>1, <2>3, <2>4 DEF Contraction
<1>12. two => i + 2 \in i + 1..n BY <1>2
<1>13. three => i + 3 \in i + 1..n BY <1>2
<1> HIDE DEF two, three, E
<1>14. E[1] \in SUBSET (i + 1..Len(cps) + 1) BY <1>10, <1>12, <1>13
<1>15. \/ Contraction = 0 /\ E[1] = {}
       \/ Contraction \in E[1] /\ \A m \in E[1] : m <= Contraction
  BY <1>2, <1>10, <1>11
<1> QED BY <1>14, <1>15, RuleRight DEF E

\* 2. an optional prefix and letters
LEMMA LettersRight ==
    ASSUME cps \in Seq(Nat), i \in 1..Len(cps)
    PROVE  Rule(Letters, MatchEnds(cps, i)[2])
<1> DEFINE n == Len(cps) + 1
           e == MatchEnds(cps, i)[2]
           prefix == i \notin NewlinesAt /\ i \notin LettersAt /\ ~is_number(cps[i])
           j == IF i \in LettersAt THEN i ELSE i + 1
           matches == \/ i \in LettersAt
                      \/ prefix /\ i + 1 \in LettersAt
<1>1. e = {k \in i + 1..n : \E p \in {0, 1} :
             /\ i + p < k /\ AllIn(i + p, k, LettersAt)
             /\ p = 1 => prefix}
  BY Alternatives
<1>2. /\ Len(cps) \in Nat /\ LettersAt \subseteq 1..Len(cps) /\ NewlinesAt \subseteq SpacesAt
      /\ i \in LettersAt <=> is_letter(cps[i])
      /\ i \in NewlinesAt <=> is_newline(cps[i])
      /\ i \in LettersAt => i \notin SpacesAt /\ ~is_number(cps[i])
      /\ \A m \in 1..Len(cps) : m \in LettersAt <=> is_letter(cps[m])
  BY PositionClasses DEF is_newline
<1>3. Letters = IF matches THEN EndOf(j, LettersAt) ELSE 0
  <2>1. i + 1 <= Len(cps) <=> i + 1 \in 1..Len(cps) BY <1>2
  <2>2. i <= Len(cps) /\ ~(i > Len(cps)) /\ (i + 1 > Len(cps) <=> ~(i + 1 <= Len(cps))) BY <1>2
  <2> QED BY <1>2, <2>1, <2>2 DEF Letters
<1> HIDE DEF e
<1>4. CASE ~matches
  <2>1. ASSUME NEW k \in i + 1..n, NEW p \in {0, 1}, i + p < k, AllIn(i + p, k, LettersAt), p = 1 => prefix
        PROVE  FALSE
    <3>1. i + p \in i + p..k - 1 BY <1>2, <2>1
    <3>2. i + p \in LettersAt BY <2>1, <3>1 DEF AllIn
    <3>3. i + 0 = i BY <1>2
    <3> QED BY <1>4, <2>1, <3>2, <3>3
  <2>2. e = {} BY <1>1, <2>1
  <2> QED BY <1>3, <1>4, <2>2, RuleRight DEF e
<1>5. CASE matches
  <2>1. j \in LettersAt /\ j \in 1..Len(cps) + 1 /\ j \in i..i + 1 BY <1>2, <1>5
  <2> DEFINE h == EndOf(j, LettersAt)
  <2>2. /\ h \in j..n /\ h \notin LettersAt /\ AllIn(j, h, LettersAt)
        /\ \A k \in j..n : AllIn(j, k, LettersAt) => k <= h
    BY <1>2, <2>1, EndOfIs
  <2> HIDE DEF h
  <2>3. h > j /\ h \in i + 1..n BY <1>2, <2>1, <2>2
  <2>4. h \in e
    <3>1. CASE i \in LettersAt
      <4>1. j = i + 0 /\ i + 0 = i BY <1>2, <3>1
      <4>2. i + 0 < h /\ AllIn(i + 0, h, LettersAt) BY <2>2, <2>3, <4>1
      <4> QED BY <1>1, <2>3, <4>2
    <3>2. CASE i \notin LettersAt
      <4>1. j = i + 1 BY <3>2
      <4>2. i + 1 < h /\ AllIn(i + 1, h, LettersAt) /\ prefix BY <1>5, <2>2, <2>3, <3>2, <4>1
      <4> QED BY <1>1, <2>3, <4>2
    <3> QED BY <3>1, <3>2
  <2>5. ASSUME NEW k \in e PROVE k <= h
    <3>1. PICK p \in {0, 1} : i + p < k /\ AllIn(i + p, k, LettersAt) /\ (p = 1 => prefix) BY <1>1
    <3>2. k \in i + 1..n BY <1>1
    <3>3. i + p \in i + p..k - 1 BY <1>2, <3>1, <3>2
    <3>4. i + p \in LettersAt BY <3>1, <3>3 DEF AllIn
    <3>5. i + p = j BY <1>2, <3>1, <3>4
    <3>6. k \in j..n BY <1>2, <2>1, <3>1, <3>2, <3>5
    <3> QED BY <2>2, <3>1, <3>5, <3>6
  <2>6. Letters = h BY <1>3, <1>5 DEF h
  <2>7. e \in SUBSET (i + 1..Len(cps) + 1) BY <1>1
  <2> QED BY <2>4, <2>5, <2>6, <2>7, RuleRight DEF e
<1> QED BY <1>4, <1>5

\* 3. a single number
LEMMA NumberRight ==
    ASSUME cps \in Seq(Nat), i \in 1..Len(cps)
    PROVE  Rule(Number, MatchEnds(cps, i)[3])
<1> DEFINE e == MatchEnds(cps, i)[3]
<1>1. e = {j \in {i + 1} : is_number(cps[i])} BY Alternatives
<1>2. Number = IF is_number(cps[i]) THEN i + 1 ELSE 0 BY DEF Number
<1> HIDE DEF e
<1>3. e \in SUBSET (i + 1..Len(cps) + 1) BY <1>1
<1>4. \/ Number = 0 /\ e = {}
      \/ Number \in e /\ \A m \in e : m <= Number
  BY <1>1, <1>2
<1> QED BY <1>3, <1>4, RuleRight DEF e

\* 4. an optional space, a run of others, trailing newlines
LEMMA OthersRight ==
    ASSUME cps \in Seq(Nat), i \in 1..Len(cps)
    PROVE  Rule(Others, MatchEnds(cps, i)[4])
<1> DEFINE n == Len(cps) + 1
           e == MatchEnds(cps, i)[4]
           j == IF cps[i] = 32 THEN i + 1 ELSE i
           h1 == EndOf(j, OthersAt)
           h == EndOf(h1, NewlinesAt)
<1>1. e = {k \in i + 1..n : \E p \in {0, 1} : \E m \in i + p + 1..k :
             /\ p = 1 => cps[i] = 32
             /\ AllIn(i + p, m, OthersAt) /\ AllIn(m, k, NewlinesAt)}
  BY Alternatives
<1>2. /\ Len(cps) \in Nat /\ OthersAt \subseteq 1..Len(cps) /\ NewlinesAt \subseteq 1..Len(cps)
      /\ \A m \in 1..Len(cps) : m \in OthersAt <=> is_other(cps[m])
      /\ \A m \in NewlinesAt : m \notin OthersAt
      /\ cps[i] = 32 => i \notin OthersAt
  BY PositionClasses DEF OthersAt
<1>3. Others = IF j \in OthersAt THEN h ELSE 0
  <2>1. j \in OthersAt <=> ~(j > Len(cps)) /\ is_other(cps[j])
    <3>1. j \in Nat /\ (j \in 1..Len(cps) <=> ~(j > Len(cps))) BY <1>2
    <3> HIDE DEF j
    <3> QED BY <1>2, <3>1
  <2>2. Others = IF j > Len(cps) THEN 0 ELSE IF is_other(cps[j]) THEN h ELSE 0 BY DEF Others
  <2> HIDE DEF j, h
  <2> QED BY <2>1, <2>2
<1> HIDE DEF e
\* A match starts with an other at j.
<1>4. ASSUME NEW k \in i + 1..n, NEW p \in {0, 1}, NEW m \in i + p + 1..k, p = 1 => cps[i] = 32,
             AllIn(i + p, m, OthersAt)
      PROVE  i + p = j /\ j \in OthersAt
  <2>1. i + p \in i + p..m - 1 BY <1>2
  <2>2. i + p \in OthersAt BY <1>4, <2>1 DEF AllIn
  <2>3. i + 0 = i BY <1>2
  <2> QED BY <1>2, <1>4, <2>2, <2>3
<1>5. CASE j \notin OthersAt
  <2>1. e = {}
    <3> HIDE DEF j
    <3> QED BY <1>1, <1>4, <1>5
  <2> QED BY <1>3, <1>5, <2>1, RuleRight DEF e
<1>6. CASE j \in OthersAt
  <2>1. j \in 1..Len(cps) + 1 /\ j \in i..i + 1 BY <1>2, <1>6
  <2>2. /\ h1 \in j..n /\ h1 \notin OthersAt /\ AllIn(j, h1, OthersAt)
        /\ \A k \in j..n : AllIn(j, k, OthersAt) => k <= h1
    <3> HIDE DEF j
    <3> QED BY <1>2, <2>1, EndOfIs
  <2> HIDE DEF h1, j
  <2>3. h1 > j /\ h1 \in i + 1..n BY <1>2, <1>6, <2>1, <2>2
  <2>4. /\ h \in h1..n /\ AllIn(h1, h, NewlinesAt)
        /\ \A k \in h1..n : AllIn(h1, k, NewlinesAt) => k <= h
    BY <1>2, <2>1, <2>3, EndOfIs
  <2> HIDE DEF h
  <2>5. h \in i + 1..n BY <1>2, <2>3, <2>4
  <2>6. h \in e
    <3>1. CASE cps[i] = 32
      <4>1. j = i + 1 BY <3>1 DEF j
      <4>2. h1 \in i + 1 + 1..h BY <1>2, <2>3, <2>4, <4>1
      <4>3. AllIn(i + 1, h1, OthersAt) BY <2>2, <4>1
      <4>4. 1 \in {0, 1} OBVIOUS
      <4> QED BY <1>1, <2>4, <2>5, <3>1, <4>2, <4>3, <4>4
    <3>2. CASE cps[i] # 32
      <4>1. j = i + 0 BY <1>2, <3>2 DEF j
      <4>2. h1 \in i + 0 + 1..h BY <1>2, <2>3, <2>4, <4>1
      <4>3. AllIn(i + 0, h1, OthersAt) BY <2>2, <4>1
      <4>4. 0 \in {0, 1} /\ 0 # 1 OBVIOUS
      <4> QED BY <1>1, <2>4, <2>5, <4>2, <4>3, <4>4
    <3> QED BY <3>1, <3>2
  <2>7. ASSUME NEW k \in e PROVE k <= h
    <3>0. PICK p \in {0, 1} : \E m \in i + p + 1..k :
             /\ p = 1 => cps[i] = 32
             /\ AllIn(i + p, m, OthersAt) /\ AllIn(m, k, NewlinesAt)
      BY <1>1
    <3>1. PICK m \in i + p + 1..k : /\ p = 1 => cps[i] = 32
                                    /\ AllIn(i + p, m, OthersAt) /\ AllIn(m, k, NewlinesAt)
      BY <3>0
    <3>2. k \in i + 1..n BY <1>1
    <3>3. i + p = j BY <1>4, <3>1, <3>2
    <3>4. m \in j + 1..k /\ m \in j..n BY <1>2, <2>1, <3>1, <3>2, <3>3
    <3>5. m <= h1 BY <2>2, <3>1, <3>3, <3>4
    <3>6. CASE m = h1
      <4>1. k \in h1..n BY <1>2, <2>1, <3>2, <3>4, <3>6
      <4> QED BY <2>4, <3>1, <3>6, <4>1
    <3>7. CASE m < h1
      <4>1. m \in j..h1 - 1 BY <1>2, <2>1, <2>2, <3>4, <3>7
      <4>2. m \in OthersAt BY <2>2, <4>1 DEF AllIn
      <4>3. m \notin NewlinesAt BY <1>2, <4>2
      <4>4. m \notin m..k - 1 BY <3>1, <4>3 DEF AllIn
      <4>5. m >= k BY <1>2, <2>1, <3>2, <3>4, <4>4
      <4> QED BY <1>2, <2>1, <2>2, <2>4, <3>2, <3>4, <3>7, <4>5
    <3> QED BY <1>2, <2>1, <2>2, <3>4, <3>5, <3>6, <3>7
  <2>8. Others = h BY <1>3, <1>6
  <2>9. e \in SUBSET (i + 1..Len(cps) + 1) BY <1>1
  <2> QED BY <2>6, <2>7, <2>8, <2>9, RuleRight DEF e
<1> QED BY <1>5, <1>6

\* 5. to 7. white space: the first of the three alternatives that matches.
LEMMA SpacesRight ==
    ASSUME cps \in Seq(Nat), i \in 1..Len(cps)
    PROVE  LET E == MatchEnds(cps, i)
           IN  /\ E[5] # {} => Rule(Spaces, E[5])
               /\ E[5] = {} /\ E[6] # {} => Rule(Spaces, E[6])
               /\ E[5] = {} /\ E[6] = {} => Rule(Spaces, E[7])
               /\ E[5] \subseteq E[7] /\ E[6] \subseteq E[7]
<1> DEFINE n == Len(cps) + 1
           e5 == MatchEnds(cps, i)[5]
           e6 == MatchEnds(cps, i)[6]
           e7 == MatchEnds(cps, i)[7]
           j == EndOf(i, SpacesAt)
           nl == (i..j - 1) \intersect NewlinesAt
<1>1. /\ e5 = {k \in i + 1..n : AllIn(i, k, SpacesAt) /\ k - 1 \in NewlinesAt}
      /\ e6 = {k \in i + 1..n : AllIn(i, k, SpacesAt) /\ (k < n => k \in SpacesAt)}
      /\ e7 = {k \in i + 1..n : AllIn(i, k, SpacesAt)}
  BY Alternatives
<1>2. /\ Len(cps) \in Nat /\ SpacesAt \subseteq 1..Len(cps) /\ NewlinesAt \subseteq SpacesAt
      /\ i \in SpacesAt <=> is_space(cps[i])
  BY PositionClasses
<1>3. /\ j \in i..n /\ j \notin SpacesAt /\ AllIn(i, j, SpacesAt)
      /\ \A k \in i..n : AllIn(i, k, SpacesAt) => k <= j
  <2>1. i \in 1..Len(cps) + 1 BY <1>2
  <2> QED BY <1>2, <2>1, EndOfIs
<1>4. Spaces = IF i \notin SpacesAt THEN 0
               ELSE IF nl # {} THEN Max(nl) + 1
               ELSE IF j <= Len(cps) /\ j - i > 1 THEN j - 1
               ELSE j
  BY <1>2 DEF Spaces
<1> HIDE DEF e5, e6, e7, j
<1>5. e5 \in SUBSET (i + 1..n) /\ e6 \in SUBSET (i + 1..n) /\ e7 \in SUBSET (i + 1..n)
      /\ e5 \subseteq e7 /\ e6 \subseteq e7
  BY <1>1
<1>6. \A k \in e7 : k \in i + 1..j
  <2> SUFFICES ASSUME NEW k \in e7 PROVE k \in i + 1..j OBVIOUS
  <2>1. k \in i + 1..n /\ AllIn(i, k, SpacesAt) BY <1>1
  <2>2. k \in i..n BY <1>2, <2>1
  <2>3. k <= j BY <1>3, <2>1, <2>2
  <2> QED BY <1>2, <1>3, <2>1, <2>3
<1>7. \A k \in i + 1..j : k \in e7
  <2> SUFFICES ASSUME NEW k \in i + 1..j PROVE k \in e7 OBVIOUS
  <2>1. k \in i + 1..n BY <1>2, <1>3
  <2>2. \A m \in i..k - 1 : m \in i..j - 1 BY <1>2, <1>3
  <2>3. AllIn(i, k, SpacesAt) BY <1>3, <2>2 DEF AllIn
  <2> QED BY <1>1, <2>1, <2>3
<1>8. i \in SpacesAt <=> j > i
  <2>1. j > i => i \in i..j - 1 BY <1>2, <1>3
  <2> QED BY <1>2, <1>3, <2>1 DEF AllIn
<1>9. CASE i \notin SpacesAt
  <2>1. e7 = {} /\ e5 = {} /\ e6 = {}
    <3>1. j = i BY <1>2, <1>3, <1>8, <1>9
    <3>2. e7 = {} BY <1>2, <1>6, <3>1
    <3> QED BY <1>5, <3>2
  <2>2. Spaces = 0 BY <1>4, <1>9
  <2>3. Rule(Spaces, e7) BY <2>1, <2>2, RuleRight
  <2> QED BY <1>5, <2>1, <2>3 DEF e5, e6, e7
<1>10. CASE i \in SpacesAt /\ nl # {}
  <2>1. nl \in SUBSET Nat /\ \A m \in nl : m \in i..j - 1 /\ m \in NewlinesAt BY <1>2, <1>3
  <2>2. \E x \in nl : \A m \in nl : m <= x
    <3>1. j \in Nat /\ nl \in SUBSET (0..j) BY <1>2, <1>3, <2>1
    <3> HIDE DEF nl
    <3> QED BY <1>10, <3>1, GreatestUpTo
  <2>3. PICK x \in nl : \A m \in nl : m <= x BY <2>2
  <2>4. Max(nl) = x
    <3>1. nl \in SUBSET Int BY <2>1
    <3> HIDE DEF nl
    <3> QED BY <2>3, <3>1, MaxIs
  <2>5. Spaces = x + 1
    <3> HIDE DEF nl
    <3> QED BY <1>4, <1>10, <2>4
  <2>6. x \in i..j - 1 /\ x \in NewlinesAt BY <2>1, <2>3
  <2>7. x + 1 \in i + 1..j /\ x + 1 - 1 = x BY <1>2, <1>3, <2>6
  <2>8. x + 1 \in e5
    <3>1. x + 1 \in i + 1..n /\ AllIn(i, x + 1, SpacesAt) BY <1>1, <1>7, <2>7
    <3> QED BY <1>1, <2>6, <2>7, <3>1
  <2>9. \A k \in e5 : k <= x + 1
    <3> SUFFICES ASSUME NEW k \in e5 PROVE k <= x + 1 OBVIOUS
    <3>1. k \in i + 1..j /\ k - 1 \in NewlinesAt BY <1>1, <1>5, <1>6
    <3>2. k - 1 \in nl BY <1>2, <1>3, <3>1
    <3>3. k - 1 <= x BY <2>3, <3>2
    <3> QED BY <1>2, <1>3, <2>6, <3>1, <3>3
  <2>10. Rule(Spaces, e5) BY <1>5, <2>5, <2>8, <2>9, RuleRight
  <2> QED BY <1>5, <2>8, <2>10 DEF e5, e6, e7
<1>11. CASE i \in SpacesAt /\ nl = {}
  <2>1. e5 = {}
    <3> SUFFICES ASSUME NEW k \in e5 PROVE FALSE OBVIOUS
    <3>1. k \in i + 1..j /\ k - 1 \in NewlinesAt BY <1>1, <1>5, <1>6
    <3>2. k - 1 \in nl BY <1>2, <1>3, <3>1
    <3> QED BY <1>11, <3>2
  <2>2. j > i BY <1>8, <1>11
  <2>3. CASE j <= Len(cps) /\ j - i > 1
    <3>1. Spaces = j - 1
      <4> HIDE DEF nl
      <4> QED BY <1>4, <1>11, <2>3
    <3>2. j - 1 \in e6
      <4>1. j - 1 \in i + 1..j /\ j - 1 \in i..j - 1 BY <1>2, <1>3, <2>3
      <4>2. j - 1 \in i + 1..n /\ AllIn(i, j - 1, SpacesAt) BY <1>1, <1>7, <4>1
      <4>3. j - 1 \in SpacesAt BY <1>3, <4>1 DEF AllIn
      <4> QED BY <1>1, <4>2, <4>3
    <3>3. \A k \in e6 : k <= j - 1
      <4> SUFFICES ASSUME NEW k \in e6 PROVE k <= j - 1 OBVIOUS
      <4>1. k \in i + 1..j /\ (k < n => k \in SpacesAt) BY <1>1, <1>5, <1>6
      <4>2. k # j BY <1>2, <1>3, <2>3, <4>1
      <4> QED BY <1>2, <1>3, <4>1, <4>2
    <3>4. Rule(Spaces, e6) BY <1>5, <3>1, <3>2, <3>3, RuleRight
    <3> QED BY <1>5, <2>1, <3>2, <3>4 DEF e5, e6, e7
  <2>4. CASE ~(j <= Len(cps) /\ j - i > 1)
    <3>1. Spaces = j
      <4> HIDE DEF nl
      <4> QED BY <1>4, <1>11, <2>4
    <3>2. j \in e7 /\ \A k \in e7 : k <= j
      <4>1. j \in i + 1..j BY <1>2, <1>3, <2>2
      <4> QED BY <1>2, <1>3, <1>6, <1>7, <4>1
    <3>3. Rule(Spaces, e7) BY <1>5, <3>1, <3>2, RuleRight
    <3>4. e6 # {} => j \in e6
      <4> SUFFICES ASSUME NEW k \in e6 PROVE j \in e6 OBVIOUS
      <4>1. k \in i + 1..j /\ (k < n => k \in SpacesAt) BY <1>1, <1>5, <1>6
      <4>2. j \in i + 1..n /\ AllIn(i, j, SpacesAt) BY <1>1, <3>2
      <4>3. CASE j <= Len(cps)
        <5>1. k = j BY <1>2, <1>3, <2>4, <4>1, <4>3
        <5> QED BY <5>1
      <4>4. CASE ~(j <= Len(cps))
        <5>1. ~(j < n) BY <1>2, <1>3, <4>4
        <5> QED BY <1>1, <4>2, <5>1
      <4> QED BY <4>3, <4>4
    <3>5. e6 # {} => Rule(Spaces, e6)
      <4> SUFFICES ASSUME e6 # {} PROVE Rule(Spaces, e6) OBVIOUS
      <4>1. j \in e6 /\ \A k \in e6 : k <= j BY <1>5, <3>2, <3>4
      <4> QED BY <1>5, <3>1, <4>1, RuleRight
    <3> QED BY <1>5, <2>1, <3>3, <3>5 DEF e5, e6, e7
  <2> QED BY <2>3, <2>4
<1> QED BY <1>9, <1>10, <1>11

\* At every place of a text some alternative matches, one of letters, numbers, others or
\* white space.
LEMMA SomethingMatches ==
    ASSUME NEW q \in Seq(Nat), NEW a \in 1..Len(q)
    PROVE  /\ \E k \in {2, 3, 4, 7} : MatchEnds(q, a)[k] # {}
           /\ \A k \in 1..7 : MatchEnds(q, a)[k] \in SUBSET (a + 1..Len(q) + 1)
<1> DEFINE n == Len(q) + 1
           E == MatchEnds(q, a)
           A == { <<39, 115>>, <<39, 116>>, <<39, 114, 101>>, <<39, 118, 101>>, <<39, 109>>,
                  <<39, 108, 108>>, <<39, 100>> }
           literal(w) == a + Len(w) <= n /\ \A m \in 1..Len(w) : lower(q[a + m - 1]) = w[m]
           all(j, k, r) == \A m \in j..k - 1 : InClass(q[m], r)
           others(j, k) == \A m \in j..k - 1 : /\ ~InClass(q[m], LetterRanges)
                                               /\ ~InClass(q[m], NumberRanges)
                                               /\ ~InClass(q[m], SpaceRanges)
           newlines(j, k) == \A m \in j..k - 1 : q[m] \in {10, 13}
<1>1. /\ E[1] = {a + Len(w) : w \in {w \in A : literal(w)}}
      /\ E[2] = {j \in a + 1..n : \E p \in {0, 1} :
                   /\ a + p < j /\ all(a + p, j, LetterRanges)
                   /\ p = 1 => ~(\/ q[a] \in {10, 13}
                                 \/ InClass(q[a], LetterRanges)
                                 \/ InClass(q[a], NumberRanges))}
      /\ E[3] = {j \in {a + 1} : InClass(q[a], NumberRanges)}
      /\ E[4] = {j \in a + 1..n : \E p \in {0, 1} : \E m \in a + p + 1..j :
                   /\ p = 1 => q[a] = 32
                   /\ others(a + p, m) /\ newlines(m, j)}
      /\ E[5] = {j \in a + 1..n : all(a, j, SpaceRanges) /\ q[j - 1] \in {10, 13}}
      /\ E[6] = {j \in a + 1..n : all(a, j, SpaceRanges) /\ (j < n => InClass(q[j], SpaceRanges))}
      /\ E[7] = {j \in a + 1..n : all(a, j, SpaceRanges)}
  BY DEF MatchEnds
<1> HIDE DEF E
<1>2. Len(q) \in Nat /\ a + 1 \in a + 1..n /\ a + 0 = a /\ a + 1 - 1 = a OBVIOUS
<1>3. \A m : m \in a..a + 1 - 1 <=> m = a BY <1>2
<1>4. ASSUME InClass(q[a], LetterRanges) PROVE E[2] # {}
  <2>1. a + 0 < a + 1 /\ all(a + 0, a + 1, LetterRanges) BY <1>2, <1>3, <1>4
  <2>2. 0 \in {0, 1} /\ 0 # 1 OBVIOUS
  <2> HIDE DEF all
  <2>3. a + 1 \in E[2] BY <1>1, <1>2, <2>1, <2>2
  <2> QED BY <2>3
<1>5. ASSUME InClass(q[a], NumberRanges) PROVE E[3] # {}
  <2>1. a + 1 \in E[3] BY <1>1, <1>5
  <2> QED BY <2>1
<1>6. ASSUME InClass(q[a], SpaceRanges) PROVE E[7] # {}
  <2>1. all(a, a + 1, SpaceRanges) BY <1>2, <1>3, <1>6
  <2> HIDE DEF all
  <2>2. a + 1 \in E[7] BY <1>1, <1>2, <2>1
  <2> QED BY <2>2
<1>7. ASSUME ~InClass(q[a], LetterRanges), ~InClass(q[a], NumberRanges),
             ~InClass(q[a], SpaceRanges)
      PROVE  E[4] # {}
  <2>1. others(a + 0, a + 1) BY <1>2, <1>3, <1>7
  <2>2. newlines(a + 1, a + 1)
    <3>1. a + 1..a + 1 - 1 = {} BY <1>2
    <3> QED BY <3>1
  <2>3. 0 \in {0, 1} /\ 0 # 1 /\ a + 1 \in a + 0 + 1..a + 1 BY <1>2
  <2> HIDE DEF others, newlines
  <2>4. a + 1 \in E[4] BY <1>1, <1>2, <2>1, <2>2, <2>3
  <2> QED BY <2>4
<1>8. \E k \in {2, 3, 4, 7} : E[k] # {} BY <1>4, <1>5, <1>6, <1>7
<1>9. ASSUME NEW k \in 1..7 PROVE E[k] \in SUBSET (a + 1..Len(q) + 1)
  <2>1. CASE k = 1
    <3>1. \A w \in A : Len(w) \in {2, 3} OBVIOUS
    <3>2. \A w \in A : literal(w) => a + Len(w) <= n OBVIOUS
    <3> HIDE DEF A, literal
    <3>3. \A w \in A : literal(w) => a + Len(w) \in a + 1..Len(q) + 1
      <4> SUFFICES ASSUME NEW w \in A, literal(w) PROVE a + Len(w) \in a + 1..Len(q) + 1 OBVIOUS
      <4>1. PICK l \in {2, 3} : l = Len(w) BY <3>1
      <4>2. a + l <= Len(q) + 1 BY <3>2, <4>1
      <4>3. a + l \in a + 1..Len(q) + 1 BY <1>2, <4>2
      <4> QED BY <4>1, <4>3
    <3>4. E[1] \in SUBSET (a + 1..Len(q) + 1) BY <1>1, <3>3
    <3> QED BY <2>1, <3>4
  <2>2. CASE k = 2 BY <1>1, <2>2
  <2>3. CASE k = 3
    <3>1. a + 1 \in a + 1..Len(q) + 1 BY <1>2
    <3>2. E[3] \in SUBSET {a + 1} BY <1>1
    <3> HIDE DEF E
    <3> QED BY <2>3, <3>1, <3>2
  <2>4. CASE k = 4 BY <1>1, <2>4
  <2>5. CASE k = 5 BY <1>1, <2>5
  <2>6. CASE k = 6 BY <1>1, <2>6
  <2>7. CASE k = 7 BY <1>1, <2>7
  <2> QED BY <2>1, <2>2, <2>3, <2>4, <2>5, <2>6, <2>7
<1> QED BY <1>8, <1>9 DEF E

\* A match is not empty and ends in the text.
LEMMA MatchEndRange ==
    ASSUME NEW q \in Seq(Nat), NEW a \in 1..Len(q)
    PROVE  MatchEnd(q, a) \in a + 1..Len(q) + 1
<1> DEFINE E == MatchEnds(q, a)
           K == {k \in 1..7 : E[k] # {}}
           e == E[Min(K)]
<1>1. \E k \in {2, 3, 4, 7} : E[k] # {} BY SomethingMatches
<1>2. \A k \in 1..7 : E[k] \in SUBSET (a + 1..Len(q) + 1) BY SomethingMatches
<1>3. MatchEnd(q, a) = Max(e) BY DEF MatchEnd
<1> HIDE DEF E
<1>4. K \in SUBSET Nat /\ K # {} BY <1>1
<1>5. Min(K) \in K
  <2> HIDE DEF K
  <2> QED BY <1>4, MinIs
<1>6. e # {} /\ e \in SUBSET (a + 1..Len(q) + 1) BY <1>2, <1>5
<1> HIDE DEF e
<1>7. Len(q) + 1 \in Nat /\ a \in Nat OBVIOUS
<1>8. e \in SUBSET (0..Len(q) + 1) /\ e \in SUBSET Int BY <1>6, <1>7
<1>9. PICK x \in e : \A m \in e : m <= x BY <1>6, <1>7, <1>8, GreatestUpTo
<1>10. Max(e) = x BY <1>8, <1>9, MaxIs
<1> QED BY <1>3, <1>6, <1>9, <1>10

\* A turn of pre_tokenize's loop ends its piece where the pattern ends its match.
LEMMA PieceEnd ==
    ASSUME cps \in Seq(Nat), i \in 1..Len(cps)
    PROVE  LET rules == <<Contraction, Letters, Number, Others, Spaces, i + 1>>
           IN  rules[Min({k \in 1..6 : rules[k] # 0})] = MatchEnd(cps, i)
<1> DEFINE E == MatchEnds(cps, i)
           rules == <<Contraction, Letters, Number, Others, Spaces, i + 1>>
           R == {k \in 1..6 : rules[k] # 0}
           K == {k \in 1..7 : E[k] # {}}
<1>1. /\ rules[1] = Contraction /\ rules[2] = Letters /\ rules[3] = Number
      /\ rules[4] = Others /\ rules[5] = Spaces
  OBVIOUS
<1>2. MatchEnd(cps, i) = Max(E[Min(K)]) BY DEF MatchEnd
<1>3. \E k \in {2, 3, 4, 7} : E[k] # {} BY SomethingMatches
<1>4. Rule(Contraction, E[1]) /\ Rule(Letters, E[2]) /\ Rule(Number, E[3]) /\ Rule(Others, E[4])
  BY ContractionRight, LettersRight, NumberRight, OthersRight
<1>5. /\ E[5] # {} => Rule(Spaces, E[5])
      /\ E[5] = {} /\ E[6] # {} => Rule(Spaces, E[6])
      /\ E[5] = {} /\ E[6] = {} => Rule(Spaces, E[7])
      /\ E[5] \subseteq E[7] /\ E[6] \subseteq E[7]
  BY SpacesRight
<1> HIDE DEF E, rules
<1>6. R \in SUBSET Nat /\ K \in SUBSET Nat OBVIOUS
<1>7. ASSUME NEW k \in 1..4, E[k] # {}, \A m \in 1..k - 1 : E[m] = {}
      PROVE  rules[Min(R)] = Max(E[Min(K)])
  <2>1. \A m \in 1..4 : Rule(rules[m], E[m])
    <3>1. \A m \in 1..4 : m = 1 \/ m = 2 \/ m = 3 \/ m = 4 OBVIOUS
    <3> QED BY <1>1, <1>4, <3>1
  <2>2. rules[k] # 0 /\ Max(E[k]) = rules[k] BY <1>7, <2>1 DEF Rule
  <2>3. \A m \in 1..k - 1 : rules[m] = 0
    <3>1. \A m \in 1..k - 1 : m \in 1..4 OBVIOUS
    <3> QED BY <1>7, <2>1, <3>1 DEF Rule
  <2>4. k \in R /\ \A m \in R : k <= m
    <3>1. k \in 1..6 OBVIOUS
    <3>2. \A m \in 1..6 : m \in 1..k - 1 \/ k <= m OBVIOUS
    <3> QED BY <2>2, <2>3, <3>1, <3>2
  <2>5. k \in K /\ \A m \in K : k <= m
    <3>1. k \in 1..7 OBVIOUS
    <3>2. \A m \in 1..7 : m \in 1..k - 1 \/ k <= m OBVIOUS
    <3> QED BY <1>7, <3>1, <3>2
  <2> HIDE DEF R, K
  <2>6. Min(R) = k /\ Min(K) = k BY <1>6, <2>4, <2>5, MinIsThe
  <2> QED BY <2>2, <2>6
<1>8. ASSUME E[1] = {}, E[2] = {}, E[3] = {}, E[4] = {} PROVE rules[Min(R)] = Max(E[Min(K)])
  <2>1. E[7] # {} BY <1>3, <1>8
  <2>2. rules[1] = 0 /\ rules[2] = 0 /\ rules[3] = 0 /\ rules[4] = 0 BY <1>1, <1>4, <1>8 DEF Rule
  <2>3. PICK k \in 5..7 : E[k] # {} /\ (\A m \in 5..k - 1 : E[m] = {}) /\ Rule(Spaces, E[k])
    <3>1. CASE E[5] # {}
      <4>1. 5 \in 5..7 /\ 5..5 - 1 = {} OBVIOUS
      <4> QED BY <1>5, <3>1, <4>1
    <3>2. CASE E[5] = {} /\ E[6] # {}
      <4>1. 6 \in 5..7 /\ \A m \in 5..6 - 1 : m = 5 OBVIOUS
      <4> QED BY <1>5, <3>2, <4>1
    <3>3. CASE E[5] = {} /\ E[6] = {}
      <4>1. 7 \in 5..7 /\ \A m \in 5..7 - 1 : m = 5 \/ m = 6 OBVIOUS
      <4> QED BY <1>5, <2>1, <3>3, <4>1
    <3> QED BY <3>1, <3>2, <3>3
  <2>4. rules[5] # 0 /\ Max(E[k]) = rules[5] BY <1>1, <2>3 DEF Rule
  <2>5. 5 \in R /\ \A m \in R : 5 <= m
    <3>1. \A m \in 1..6 : m = 1 \/ m = 2 \/ m = 3 \/ m = 4 \/ 5 <= m OBVIOUS
    <3>2. 5 \in 1..6 OBVIOUS
    <3>3. 5 \in R BY <2>4, <3>2, Zenon DEF R
    <3>4. \A m \in R : m \in 1..6 /\ rules[m] # 0 BY Zenon DEF R
    <3> HIDE DEF R, K
    <3> QED BY <2>2, <3>1, <3>3, <3>4, Zenon
  <2>6. k \in K /\ \A m \in K : k <= m
    <3>1. \A m \in 1..7 : m = 1 \/ m = 2 \/ m = 3 \/ m = 4 \/ m \in 5..k - 1 \/ k <= m OBVIOUS
    <3> QED BY <1>8, <2>3, <3>1
  <2> HIDE DEF R, K
  <2>7. Min(R) = 5 /\ Min(K) = k BY <1>6, <2>5, <2>6, MinIsThe
  <2> QED BY <2>4, <2>7
<1>9. rules[Min(R)] = Max(E[Min(K)])
  <2>1. 1..1 - 1 = {} /\ (\A m \in 1..2 - 1 : m = 1) /\ (\A m \in 1..3 - 1 : m = 1 \/ m = 2)
        /\ (\A m \in 1..4 - 1 : m = 1 \/ m = 2 \/ m = 3)
        /\ 1 \in 1..4 /\ 2 \in 1..4 /\ 3 \in 1..4 /\ 4 \in 1..4
    OBVIOUS
  <2> HIDE DEF R, K
  <2>2. CASE E[1] # {} BY <1>7, <2>1, <2>2
  <2>3. CASE E[1] = {} /\ E[2] # {} BY <1>7, <2>1, <2>3
  <2>4. CASE E[1] = {} /\ E[2] = {} /\ E[3] # {} BY <1>7, <2>1, <2>4
  <2>5. CASE E[1] = {} /\ E[2] = {} /\ E[3] = {} /\ E[4] # {} BY <1>7, <2>1, <2>5
  <2> QED BY <1>8, <2>2, <2>3, <2>4, <2>5
<1> QED BY <1>2, <1>9 DEF rules, E

\* Splitting goes on behind every piece until the end of the text.
LEMMA SplitGoesOn ==
    ASSUME NEW q \in Seq(Nat)
    PROVE  /\ SplitBehind(q, Len(q) + 1) = <<>>
           /\ \A a \in 1..Len(q) + 1 : SplitBehind(q, a) \in Seq(Seq(Nat))
           /\ \A a \in 1..Len(q) :
                 /\ Encoded(SubSeq(q, a, MatchEnd(q, a) - 1)) \in Seq(Nat)
                 /\ SplitBehind(q, a) = <<Encoded(SubSeq(q, a, MatchEnd(q, a) - 1))>>
                                            \o SplitBehind(q, MatchEnd(q, a))
<1> DEFINE n == Len(q)
           S == Seq(Nat)
           part == [a \in 1..n |-> <<Encoded(SubSeq(q, a, MatchEnd(q, a) - 1))>>]
           next == [a \in 1..n |-> MatchEnd(q, a)]
           from[a \in 1..Len(q) + 1] ==
               IF a > Len(q) THEN <<>>
               ELSE <<Encoded(SubSeq(q, a, MatchEnd(q, a) - 1))>> \o from[MatchEnd(q, a)]
<1>1. n \in Nat OBVIOUS
<1>2. ASSUME NEW a \in 1..n
      PROVE  /\ Encoded(SubSeq(q, a, MatchEnd(q, a) - 1)) \in S
             /\ next[a] \in a + 1..n + 1 /\ part[a] \in Seq(S)
  <2> DEFINE e == MatchEnd(q, a)
  <2>1. e \in a + 1..n + 1 BY MatchEndRange
  <2>2. \A m \in a + 1..n + 1 : SubSeq(q, a, m - 1) \in Seq(Nat) OBVIOUS
  <2>3. SubSeq(q, a, e - 1) \in Seq(Nat)
    <3> HIDE DEF e
    <3> QED BY <2>1, <2>2
  <2>4. Encoded(SubSeq(q, a, e - 1)) \in S BY <2>3, EncodedType
  <2>5. \A x \in S : <<x>> \in Seq(S)
    <3> HIDE DEF S
    <3> QED OBVIOUS
  <2>6. next[a] = e /\ part[a] = <<Encoded(SubSeq(q, a, e - 1))>> OBVIOUS
  <2> HIDE DEF part, next, S
  <2>7. Encoded(SubSeq(q, a, MatchEnd(q, a) - 1)) \in S BY <2>4
  <2> HIDE DEF e
  <2> QED BY <2>1, <2>4, <2>5, <2>6, <2>7, Zenon
<1>3. PICK f : Scans(f, n, part, next)
  <2> HIDE DEF n, S, part, next
  <2> QED BY <1>1, <1>2, ScanEnds
<1>4. f = [a \in 1..Len(q) + 1 |->
             IF a > Len(q) THEN <<>>
             ELSE <<Encoded(SubSeq(q, a, MatchEnd(q, a) - 1))>> \o f[MatchEnd(q, a)]]
  <2>1. ASSUME NEW a \in 1..n + 1
        PROVE  (IF a > n THEN <<>> ELSE part[a] \o f[next[a]]) =
               IF a > Len(q) THEN <<>>
               ELSE <<Encoded(SubSeq(q, a, MatchEnd(q, a) - 1))>> \o f[MatchEnd(q, a)]
    <3>1. a > n \/ a \in 1..n OBVIOUS
    <3> QED BY <3>1
  <2>2. f = [a \in 1..n + 1 |-> IF a > n THEN <<>> ELSE part[a] \o f[next[a]]] BY <1>3 DEF Scans
  <2> HIDE DEF part, next
  <2> QED BY <2>1, <2>2
<1>5. from = [a \in 1..Len(q) + 1 |->
                IF a > Len(q) THEN <<>>
                ELSE <<Encoded(SubSeq(q, a, MatchEnd(q, a) - 1))>> \o from[MatchEnd(q, a)]]
  <2>1. \E h : h = [a \in 1..Len(q) + 1 |->
                      IF a > Len(q) THEN <<>>
                      ELSE <<Encoded(SubSeq(q, a, MatchEnd(q, a) - 1))>> \o h[MatchEnd(q, a)]]
    <3> HIDE DEF from
    <3> QED BY <1>4
  <2> QED BY <2>1, Zenon
<1>6. \A b : SplitBehind(q, b) = from[b] BY DEF SplitBehind
<1> HIDE DEF from
<1>7. Scans(from, n, part, next)
  <2>1. ASSUME NEW a \in 1..n + 1
        PROVE  (IF a > n THEN <<>> ELSE part[a] \o from[next[a]]) =
               IF a > Len(q) THEN <<>>
               ELSE <<Encoded(SubSeq(q, a, MatchEnd(q, a) - 1))>> \o from[MatchEnd(q, a)]
    <3>1. a > n \/ a \in 1..n OBVIOUS
    <3> QED BY <3>1
  <2> HIDE DEF part, next
  <2> QED BY <1>5, <2>1 DEF Scans
<1>8. \A a \in 1..n + 1 : from[a] \in Seq(S)
  <2>1. \A a \in 1..n : next[a] \in a + 1..n + 1 /\ part[a] \in Seq(S) BY <1>2
  <2> HIDE DEF n, S, part, next
  <2> QED BY <1>1, <1>7, <2>1, ScanType
<1>9. from[n + 1] = <<>>
  <2>1. n + 1 \in 1..n + 1 /\ n + 1 > n BY <1>1
  <2> QED BY <1>5, <2>1
<1>10. ASSUME NEW a \in 1..n
       PROVE  from[a] = <<Encoded(SubSeq(q, a, MatchEnd(q, a) - 1))>> \o from[MatchEnd(q, a)]
  <2>1. a \in 1..n + 1 /\ ~(a > n) BY <1>1
  <2> QED BY <1>5, <2>1
<1> QED BY <1>2, <1>6, <1>8, <1>9, <1>10

-----------------------------------------------------------------------------
(* The tokens of a chunk and the added tokens.                             *)

\* A sequence of tokens of which none is an added one.
Plain(q) == \E S : q \in Seq(S) /\ \A x \in S : x[1] # "added"

\* What bpe_merge makes has no added token.
LEMMA MergeAllPlain == ASSUME NEW q, Plain(q), NEW r PROVE Plain(MergeAll(q, r))
<1> DEFINE n == Len(q)
           merges(k) == k < Len(q) /\ r \in RanksAt(q, k)
           w == Whole(r)
           part == [k \in 1..n |-> IF merges(k) THEN <<w>> ELSE <<q[k]>>]
           next == [k \in 1..n |-> IF merges(k) THEN k + 2 ELSE k + 1]
           from[k \in 1..Len(q) + 1] ==
               IF k > Len(q) THEN <<>>
               ELSE IF k < Len(q) /\ r \in RanksAt(q, k) THEN <<Whole(r)>> \o from[k + 2]
               ELSE <<q[k]>> \o from[k + 1]
<1>1. PICK S : q \in Seq(S) /\ \A x \in S : x[1] # "added" BY DEF Plain
<1> DEFINE T == S \union {w}
<1>2. \A x \in T : x[1] # "added"
  <2>1. w[1] = "tok" BY DEF Whole
  <2> QED BY <1>1, <2>1
<1>3. n \in Nat /\ \A k \in 1..n : q[k] \in T BY <1>1
<1> HIDE DEF T, w
<1>4. w \in T BY DEF T
<1>5. \A x \in T : <<x>> \in Seq(T) OBVIOUS
<1>6. ASSUME NEW k \in 1..n PROVE next[k] \in k + 1..n + 1 /\ part[k] \in Seq(T)
  <2>1. part[k] = <<w>> \/ part[k] = <<q[k]>> OBVIOUS
  <2>2. part[k] \in Seq(T)
    <3> HIDE DEF part, n
    <3> QED BY <1>3, <1>4, <1>5, <2>1
  <2>3. CASE merges(k)
    <3>1. next[k] = k + 2 BY <2>3
    <3>2. k + 2 \in k + 1..n + 1 BY <1>3, <2>3
    <3> QED BY <2>2, <3>1, <3>2
  <2>4. CASE ~merges(k)
    <3>1. next[k] = k + 1 BY <2>4
    <3>2. k + 1 \in k + 1..n + 1 BY <1>3
    <3> QED BY <2>2, <3>1, <3>2
  <2> QED BY <2>3, <2>4
<1>7. PICK f : Scans(f, n, part, next)
  <2>1. \A k \in 1..n : next[k] \in k + 1..n + 1 BY <1>6
  <2> HIDE DEF n, part, next
  <2> QED BY <1>3, <2>1, ScanEnds
<1>8. ASSUME NEW g, NEW k \in 1..n + 1
      PROVE  (IF k > n THEN <<>> ELSE part[k] \o g[next[k]]) =
             IF k > Len(q) THEN <<>>
             ELSE IF k < Len(q) /\ r \in RanksAt(q, k) THEN <<Whole(r)>> \o g[k + 2]
             ELSE <<q[k]>> \o g[k + 1]
  <2>1. CASE k > n BY <2>1
  <2>2. CASE k \in 1..n /\ merges(k)
    <3>1. part[k] = <<w>> /\ next[k] = k + 2 /\ ~(k > n) BY <1>3, <2>2
    <3> HIDE DEF part, next
    <3> QED BY <2>2, <3>1 DEF w
  <2>3. CASE k \in 1..n /\ ~merges(k)
    <3>1. part[k] = <<q[k]>> /\ next[k] = k + 1 /\ ~(k > n) BY <1>3, <2>3
    <3> HIDE DEF part, next
    <3> QED BY <2>3, <3>1
  <2> QED BY <1>3, <2>1, <2>2, <2>3
<1>9. \E h : h = [k \in 1..Len(q) + 1 |->
                    IF k > Len(q) THEN <<>>
                    ELSE IF k < Len(q) /\ r \in RanksAt(q, k) THEN <<Whole(r)>> \o h[k + 2]
                    ELSE <<q[k]>> \o h[k + 1]]
  <2>1. f = [k \in 1..n + 1 |-> IF k > n THEN <<>> ELSE part[k] \o f[next[k]]] BY <1>7 DEF Scans
  <2> HIDE DEF part, next, from
  <2>2. f = [k \in 1..Len(q) + 1 |->
               IF k > Len(q) THEN <<>>
               ELSE IF k < Len(q) /\ r \in RanksAt(q, k) THEN <<Whole(r)>> \o f[k + 2]
               ELSE <<q[k]>> \o f[k + 1]]
    BY <1>8, <2>1
  <2> QED BY <2>2
<1>10. from = [k \in 1..Len(q) + 1 |->
                 IF k > Len(q) THEN <<>>
                 ELSE IF k < Len(q) /\ r \in RanksAt(q, k) THEN <<Whole(r)>> \o from[k + 2]
                 ELSE <<q[k]>> \o from[k + 1]]
  BY <1>9, Zenon
<1>11. MergeAll(q, r) = from[1] BY DEF MergeAll
<1> HIDE DEF from
<1>12. Scans(from, n, part, next)
  <2> HIDE DEF part, next
  <2> QED BY <1>8, <1>10 DEF Scans
<1>13. \A k \in 1..n + 1 : from[k] \in Seq(T)
  <2> HIDE DEF n, part, next
  <2> QED BY <1>3, <1>6, <1>12, ScanType
<1>14. 1 \in 1..n + 1 BY <1>3
<1>15. MergeAll(q, r) \in Seq(T) BY <1>11, <1>13, <1>14
<1> QED BY <1>2, <1>15 DEF Plain

\* What the metaspace family makes of a chunk has no added token.
LEMMA MetaspacePlain == ASSUME NEW chunk \in Seq(Nat) PROVE Plain(MetaspaceIds(chunk))
<1> DEFINE parts == [k \in 1..Len(chunk) |-> IF chunk[k] = 32 THEN kMeta ELSE <<chunk[k]>>]
           norm == kMeta \o FlattenSeq(parts)
           chs == Characters(norm)
           S == {"tok", "byte"} \X Seq(Nat)
           tokens(ch) == IF ch \in Vocabulary["Metaspace"] THEN << <<"tok", ch>> >>
                         ELSE Fallback(ch)
           all == [k \in 1..Len(chs) |-> tokens(chs[k])]
<1>1. kMeta \in Seq(Nat) BY DEF kMeta
<1>2. parts \in Seq(Seq(Nat))
  <2>1. \A x \in Nat : <<x>> \in Seq(Nat) OBVIOUS
  <2>2. Len(chunk) \in Nat /\ \A k \in 1..Len(chunk) : chunk[k] \in Nat OBVIOUS
  <2> QED BY <1>1, <2>1, <2>2
<1> HIDE DEF parts
<1>3. norm \in Seq(Nat)
  <2>1. FlattenSeq(parts) \in Seq(Nat) BY <1>2, FlattenType
  <2> QED BY <1>1, <2>1
<1> HIDE DEF norm
<1>4. chs \in Seq(Seq(Nat) \ {<<>>}) BY <1>3, CharactersType
<1> HIDE DEF chs
<1>5. ASSUME NEW ch \in Seq(Nat) PROVE tokens(ch) \in Seq(S)
  <2>1. << <<"tok", ch>> >> \in Seq(S)
    <3>1. <<"tok", ch>> \in S OBVIOUS
    <3> HIDE DEF S
    <3> QED BY <3>1
  <2>2. Fallback(ch) \in Seq(S)
    <3> DEFINE piece(b) == IF ch[b] \in ByteTokens THEN << <<"byte", <<ch[b]>> >> >> ELSE <<>>
               bytes == [b \in 1..Len(ch) |-> piece(b)]
    <3>1. \A x \in Nat : <<x>> \in Seq(Nat) OBVIOUS
    <3>2. Len(ch) \in Nat /\ \A b \in 1..Len(ch) : ch[b] \in Nat OBVIOUS
    <3>3. \A b \in 1..Len(ch) : <<"byte", <<ch[b]>> >> \in S BY <3>1, <3>2
    <3>4. <<"tok", Unknown>> \in S
      <4>1. Unknown \in Seq(0..255) BY TokenizerAssumption, Zenon
      <4>2. Unknown \in Seq(Nat)
        <5>1. 0..255 \subseteq Nat OBVIOUS
        <5> QED BY <4>1, <5>1, SeqMonotonic
      <4> QED BY <4>2
    <3> HIDE DEF S
    <3>5. \A x \in S : <<x>> \in Seq(S) OBVIOUS
    <3>6. <<>> \in Seq(S) OBVIOUS
    <3>7. \A b \in 1..Len(ch) : piece(b) \in Seq(S) BY <3>3, <3>5, <3>6
    <3>8. bytes \in Seq(Seq(S))
      <4>1. \A b \in 1..Len(ch) : piece(b) \in Seq(S) BY <3>7
      <4> HIDE DEF piece
      <4> QED BY <3>2, <4>1
    <3> HIDE DEF bytes
    <3>9. FlattenSeq(bytes) \in Seq(S) BY <3>8, FlattenType
    <3>10. Fallback(ch) = IF FlattenSeq(bytes) = <<>> /\ Unknown # <<>> THEN << <<"tok", Unknown>> >>
                          ELSE FlattenSeq(bytes)
      BY DEF Fallback, bytes
    <3> QED BY <3>4, <3>5, <3>9, <3>10, Zenon
  <2> HIDE DEF S
  <2> QED BY <2>1, <2>2
<1>6. all \in Seq(Seq(S))
  <2>1. Len(chs) \in Nat /\ \A k \in 1..Len(chs) : chs[k] \in Seq(Nat) BY <1>4
  <2>2. \A k \in 1..Len(chs) : tokens(chs[k]) \in Seq(S) BY <1>5, <2>1
  <2> HIDE DEF S, tokens
  <2> QED BY <2>1, <2>2
<1>7. FlattenSeq(all) \in Seq(S)
  <2> HIDE DEF S, all
  <2> QED BY <1>6, FlattenType
<1>8. MetaspaceIds(chunk) = FlattenSeq(all) BY DEF MetaspaceIds, parts, norm, chs
<1>9. \A x \in S : x[1] # "added" OBVIOUS
<1> HIDE DEF S, all
<1> QED BY <1>7, <1>8, <1>9 DEF Plain

\* AddedIn, token by token.
LEMMA AddedIs ==
    ASSUME NEW S, NEW q \in Seq(S)
    PROVE  \E u \in [0..Len(q) -> Seq(S)] :
              /\ u[0] = <<>>
              /\ \A k \in 1..Len(q) :
                    u[k] = IF q[k][1] = "added" THEN Append(u[k - 1], q[k]) ELSE u[k - 1]
              /\ AddedIn(q) = u[Len(q)]
<1> DEFINE n == Len(q)
           V == Seq(S)
           G == [p \in (1..n) \X V |-> IF q[p[1]][1] = "added" THEN Append(p[2], q[p[1]]) ELSE p[2]]
           upto[k \in 0..Len(q)] ==
               IF k = 0 THEN <<>>
               ELSE IF q[k][1] = "added" THEN Append(upto[k - 1], q[k]) ELSE upto[k - 1]
<1>1. n \in Nat /\ <<>> \in V /\ \A k \in 1..n : q[k] \in S OBVIOUS
<1>2. G \in [(1..n) \X V -> V]
  <2> SUFFICES ASSUME NEW p \in (1..n) \X V
               PROVE (IF q[p[1]][1] = "added" THEN Append(p[2], q[p[1]]) ELSE p[2]) \in V
    OBVIOUS
  <2>1. p[2] \in Seq(S) /\ q[p[1]] \in S BY <1>1
  <2>2. Append(p[2], q[p[1]]) \in Seq(S) BY <2>1
  <2> QED BY <2>1, <2>2
<1>3. PICK f \in [0..n -> V] : Runs(f, n, <<>>, G)
  <2> HIDE DEF G, V, n
  <2> QED BY <1>1, <1>2, LoopRuns
<1>4. ASSUME NEW k \in 0..n
      PROVE  f[k] = IF k = 0 THEN <<>>
                    ELSE IF q[k][1] = "added" THEN Append(f[k - 1], q[k]) ELSE f[k - 1]
  <2>1. CASE k = 0 BY <1>3, <2>1 DEF Runs
  <2>2. CASE k # 0
    <3>1. k \in 1..n /\ k - 1 \in 0..n BY <1>1, <2>2
    <3>2. f[k] = G[<<k, f[k - 1]>>] BY <1>3, <3>1 DEF Runs
    <3>3. <<k, f[k - 1]>> \in (1..n) \X V BY <1>3, <3>1
    <3> QED BY <2>2, <3>2, <3>3
  <2> QED BY <2>1, <2>2
<1>5. \E h : h = [k \in 0..Len(q) |->
                    IF k = 0 THEN <<>>
                    ELSE IF q[k][1] = "added" THEN Append(h[k - 1], q[k]) ELSE h[k - 1]]
  <2> HIDE DEF V, G
  <2>1. f = [k \in 0..n |-> f[k]] BY <1>3
  <2>2. f = [k \in 0..n |->
                IF k = 0 THEN <<>>
                ELSE IF q[k][1] = "added" THEN Append(f[k - 1], q[k]) ELSE f[k - 1]]
    <3>1. [k \in 0..n |-> f[k]]
            = [k \in 0..n |->
                  IF k = 0 THEN <<>>
                  ELSE IF q[k][1] = "added" THEN Append(f[k - 1], q[k]) ELSE f[k - 1]]
      BY <1>4, Zenon
    <3> QED BY <2>1, <3>1, Zenon
  <2> QED BY <2>2, Zenon
<1>6. upto = [k \in 0..Len(q) |->
                IF k = 0 THEN <<>>
                ELSE IF q[k][1] = "added" THEN Append(upto[k - 1], q[k]) ELSE upto[k - 1]]
  BY <1>5, Zenon
<1>7. AddedIn(q) = upto[Len(q)] BY DEF AddedIn
<1> HIDE DEF upto, G
<1> DEFINE T == {k \in 0..n : upto[k] \in V}
<1>8. upto[0] = <<>>
  <2>1. 0 \in 0..n BY <1>1
  <2> QED BY <1>6, <2>1
<1>9. ASSUME NEW k \in 1..n
      PROVE  upto[k] = IF q[k][1] = "added" THEN Append(upto[k - 1], q[k]) ELSE upto[k - 1]
  <2>1. k \in 0..n /\ k # 0 BY <1>1
  <2> QED BY <1>6, <2>1
<1>10. \A k \in 0..n : k \in T
  <2>1. 0 \in T
    <3>1. 0 \in 0..n BY <1>1
    <3>2. upto[0] \in V BY <1>1, <1>8, Zenon
    <3> HIDE DEF V, n
    <3> QED BY <3>1, <3>2
  <2>2. ASSUME NEW k \in 1..n, k - 1 \in T PROVE k \in T
    <3>1. upto[k - 1] \in Seq(S) /\ q[k] \in S BY <1>1, <2>2
    <3>2. Append(upto[k - 1], q[k]) \in Seq(S) BY <3>1
    <3>3. k \in 0..n BY <1>1
    <3> QED BY <1>9, <3>1, <3>2, <3>3
  <2> HIDE DEF T, n
  <2> QED BY <1>1, <2>1, <2>2, UpTo
<1>11. upto \in [0..n -> V]
  <2>1. upto = [k \in 0..n |-> upto[k]] BY <1>6
  <2> QED BY <1>10, <2>1
<1> QED BY <1>7, <1>8, <1>9, <1>11

\* u takes AddedIn of q, turn by turn, to that of q and p.
GoesOn(u, S, q, p) ==
    /\ u \in [0..Len(q) + Len(p) -> Seq(S)]
    /\ u[Len(q)] = AddedIn(q)
    /\ \A k \in 1..Len(p) :
          u[Len(q) + k] = IF p[k][1] = "added" THEN Append(u[Len(q) + k - 1], p[k])
                          ELSE u[Len(q) + k - 1]
    /\ AddedIn(q \o p) = u[Len(q) + Len(p)]

\* AddedIn of a sequence and of one that starts with it, after the common part.
LEMMA AddedBehind ==
    ASSUME NEW S, NEW q \in Seq(S), NEW p \in Seq(S)
    PROVE  \E u : GoesOn(u, S, q, p)
<1> DEFINE n == Len(q)
           l == Len(p)
           w == q \o p
<1>1. /\ w \in Seq(S) /\ Len(w) = n + l /\ n \in Nat /\ l \in Nat
      /\ \A k \in 1..n : w[k] = q[k]
      /\ \A k \in 1..l : w[n + k] = p[k]
  OBVIOUS
<1> HIDE DEF w
<1>2. PICK u \in [0..Len(w) -> Seq(S)] :
         /\ u[0] = <<>>
         /\ \A k \in 1..Len(w) :
               u[k] = IF w[k][1] = "added" THEN Append(u[k - 1], w[k]) ELSE u[k - 1]
         /\ AddedIn(w) = u[Len(w)]
  BY <1>1, AddedIs
<1>3. PICK v \in [0..Len(q) -> Seq(S)] :
         /\ v[0] = <<>>
         /\ \A k \in 1..Len(q) :
               v[k] = IF q[k][1] = "added" THEN Append(v[k - 1], q[k]) ELSE v[k - 1]
         /\ AddedIn(q) = v[Len(q)]
  BY AddedIs
<1> DEFINE T == {k \in 0..n : u[k] = v[k]}
<1>4. n \in T
  <2>1. 0 \in T BY <1>1, <1>2, <1>3
  <2>2. ASSUME NEW k \in 1..n, k - 1 \in T PROVE k \in T
    <3>1. k \in 1..Len(w) /\ k \in 0..n /\ k \in 1..Len(q) /\ u[k - 1] = v[k - 1] BY <1>1, <2>2
    <3>2. u[k] = IF w[k][1] = "added" THEN Append(u[k - 1], w[k]) ELSE u[k - 1] BY <1>2, <3>1
    <3>3. v[k] = IF q[k][1] = "added" THEN Append(v[k - 1], q[k]) ELSE v[k - 1] BY <1>3, <3>1
    <3>4. w[k] = q[k] BY <1>1
    <3>5. u[k] = v[k] BY <3>1, <3>2, <3>3, <3>4, Zenon
    <3> QED BY <3>1, <3>5
  <2>3. n \in 0..n BY <1>1
  <2> HIDE DEF T, n
  <2> QED BY <1>1, <2>1, <2>2, <2>3, UpTo
<1>5. ASSUME NEW k \in 1..l
      PROVE  u[n + k] = IF p[k][1] = "added" THEN Append(u[n + k - 1], p[k]) ELSE u[n + k - 1]
  <2>1. n + k \in 1..Len(w) /\ w[n + k] = p[k] BY <1>1
  <2> HIDE DEF n, T
  <2>2. ASSUME NEW m \in 1..Len(w)
        PROVE  u[m] = IF w[m][1] = "added" THEN Append(u[m - 1], w[m]) ELSE u[m - 1]
    BY <1>2, Zenon
  <2>3. (n + k) - 1 = n + k - 1
    <3>1. n \in Nat /\ k \in Nat BY <1>1
    <3> QED BY <3>1
  <2> QED BY <2>1, <2>2, <2>3, Zenon
<1>6. u \in [0..n + l -> Seq(S)] /\ AddedIn(q \o p) = u[n + l]
  <2>1. Len(w) = n + l BY <1>1, Zenon
  <2>2. u \in [0..n + l -> Seq(S)] /\ AddedIn(w) = u[n + l] BY <1>2, <2>1, Zenon
  <2> QED BY <2>2 DEF w
<1>7. u[n] = AddedIn(q) BY <1>3, <1>4
<1> QED BY <1>5, <1>6, <1>7 DEF GoesOn

\* Tokens of which none is an added one leave AddedIn as it is.
LEMMA AddedPlain ==
    ASSUME NEW S, NEW q \in Seq(S), NEW p, Plain(p)
    PROVE  AddedIn(q \o p) = AddedIn(q) /\ \E T : q \o p \in Seq(T)
<1>1. PICK R : p \in Seq(R) /\ \A x \in R : x[1] # "added" BY DEF Plain
<1> DEFINE S1 == S \union R
           n == Len(q)
           l == Len(p)
<1>2. q \in Seq(S1) /\ p \in Seq(S1)
  <2>1. S \subseteq S1 /\ R \subseteq S1 OBVIOUS
  <2> HIDE DEF S1
  <2> QED BY <1>1, <2>1, SeqMonotonic
<1> HIDE DEF S1
<1>3. PICK u \in [0..n + l -> Seq(S1)] :
         /\ u[n] = AddedIn(q)
         /\ \A k \in 1..l :
               u[n + k] = IF p[k][1] = "added" THEN Append(u[n + k - 1], p[k]) ELSE u[n + k - 1]
         /\ AddedIn(q \o p) = u[n + l]
  <2>1. PICK u : GoesOn(u, S1, q, p) BY <1>2, AddedBehind
  <2> QED BY <2>1 DEF GoesOn
<1>4. n \in Nat /\ l \in Nat BY <1>1
<1>5. \A k \in 1..l : p[k][1] # "added" BY <1>1
<1> DEFINE T == {k \in 0..l : u[n + k] = u[n]}
<1> HIDE DEF n, l
<1>6. l \in T
  <2>1. 0 \in T
    <3>1. n + 0 = n /\ 0 \in 0..l BY <1>4
    <3> QED BY <3>1
  <2>2. ASSUME NEW k \in 1..l, k - 1 \in T PROVE k \in T
    <3>1. n + (k - 1) = n + k - 1 /\ k \in 0..l BY <1>4
    <3>2. u[n + k] = u[n + k - 1] BY <1>3, <1>5
    <3>3. u[n + (k - 1)] = u[n] BY <2>2
    <3> QED BY <3>1, <3>2, <3>3
  <2>3. l \in 0..l BY <1>4
  <2> HIDE DEF T
  <2> QED BY <1>4, <2>1, <2>2, <2>3, UpTo
<1>7. q \o p \in Seq(S1) BY <1>2
<1> QED BY <1>3, <1>6, <1>7

\* An added token is added to AddedIn.
LEMMA AddedNext ==
    ASSUME NEW S, NEW q \in Seq(S), NEW x, x[1] = "added"
    PROVE  /\ AddedIn(Append(q, x)) = Append(AddedIn(q), x)
           /\ \E T : Append(q, x) \in Seq(T) /\ AddedIn(q) \in Seq(T) /\ x \in T
<1> DEFINE S1 == S \union {x}
           n == Len(q)
<1>1. q \in Seq(S1) /\ x \in S1 BY SeqMonotonic
<1> HIDE DEF S1
<1> DEFINE y == <<x>>
<1>2. y \in Seq(S1) /\ Append(q, x) = q \o y /\ Append(q, x) \in Seq(S1) BY <1>1
<1>3. Len(y) = 1 /\ y[1] = x /\ n \in Nat OBVIOUS
<1> HIDE DEF y
<1>4. PICK u \in [0..n + Len(y) -> Seq(S1)] :
         /\ u[n] = AddedIn(q)
         /\ \A k \in 1..Len(y) :
               u[n + k] = IF y[k][1] = "added" THEN Append(u[n + k - 1], y[k]) ELSE u[n + k - 1]
         /\ AddedIn(q \o y) = u[n + Len(y)]
  <2>1. q \in Seq(S1) /\ y \in Seq(S1) BY <1>1, <1>2
  <2>2. PICK u : GoesOn(u, S1, q, y) BY <2>1, AddedBehind
  <2> QED BY <2>2 DEF GoesOn
<1> HIDE DEF n
<1>5. 1 \in 1..Len(y) /\ n + 1 - 1 = n /\ n \in 0..n + Len(y) BY <1>3
<1>6. u[n + 1] = Append(u[n], x)
  <2>1. u[n + 1] = IF y[1][1] = "added" THEN Append(u[n + 1 - 1], y[1]) ELSE u[n + 1 - 1]
    BY <1>4, <1>5
  <2> QED BY <1>3, <1>5, <2>1
<1>7. AddedIn(q) \in Seq(S1) BY <1>4, <1>5
<1> QED BY <1>1, <1>2, <1>3, <1>4, <1>6, <1>7

\* The token a stands in s from k on.
StartsAt(a, s, k) == k + Len(a) - 1 <= Len(s) /\ \A m \in 1..Len(a) : s[k + m - 1] = a[m]

\* Two sequences are the same if their lengths and their elements are.
LEMMA SameElements ==
    ASSUME NEW R, NEW a \in Seq(R), NEW b \in Seq(R), Len(a) = Len(b)
    PROVE  a = b <=> \A m \in 1..Len(b) : a[m] = b[m]
<1>1. ASSUME \A m \in 1..Len(b) : a[m] = b[m] PROVE a = b BY <1>1
<1> QED BY <1>1

\* Two sequences of the same length that stand at the same place are the same.
LEMMA SameStart ==
    ASSUME NEW R, NEW s, NEW k, NEW a \in Seq(R), NEW b \in Seq(R), Len(a) = Len(b),
           StartsAt(a, s, k), StartsAt(b, s, k)
    PROVE  a = b
<1>1. \A m \in 1..Len(a) : a[m] = b[m] BY DEF StartsAt
<1> QED BY <1>1

\* The first l elements of a sequence.
LEMMA SubSeqFromOne ==
    ASSUME NEW S, NEW t \in Seq(S), NEW l \in 0..Len(t)
    PROVE  /\ SubSeq(t, 1, l) \in Seq(S) /\ Len(SubSeq(t, 1, l)) = l
           /\ \A m \in 1..l : SubSeq(t, 1, l)[m] = t[m]
OBVIOUS

\* IsPrefix, place by place.
LEMMA PrefixStarts ==
    ASSUME NEW s \in Seq(Nat), NEW k \in 1..Len(s), NEW a \in Seq(Nat)
    PROVE  IsPrefix(a, SubSeq(s, k, Len(s))) <=> StartsAt(a, s, k)
<1> DEFINE t == SubSeq(s, k, Len(s))
           l == Len(a)
<1>1. /\ t \in Seq(Nat) /\ Len(t) = Len(s) - k + 1 /\ l \in Nat /\ Len(s) \in Nat
      /\ \A m \in 1..Len(s) - k + 1 : t[m] = s[k + m - 1]
  BY SubSeqProperties
<1> HIDE DEF t
<1>2. SubSeq(a, 1, l) = a /\ \A m \in 1..l : a[m] \in Nat OBVIOUS
<1>3. IsPrefix(a, t) <=> l <= Len(t) /\ SubSeq(t, 1, l) = a
  BY <1>2 DEF IsPrefix
<1>4. CASE l <= Len(t)
  <2>1. k + l - 1 <= Len(s) BY <1>1, <1>4
  <2>2. ASSUME NEW m \in 1..l PROVE m \in 1..Len(t) /\ t[m] = s[k + m - 1]
    <3>1. m \in 1..Len(s) - k + 1 BY <1>1, <1>4
    <3> QED BY <1>1, <3>1
  <2>3. /\ SubSeq(t, 1, l) \in Seq(Nat) /\ Len(SubSeq(t, 1, l)) = l
        /\ \A m \in 1..l : SubSeq(t, 1, l)[m] = t[m]
    <3>1. t \in Seq(Nat) /\ l \in 0..Len(t) BY <1>1, <1>4
    <3> HIDE DEF l
    <3> QED BY <3>1, SubSeqFromOne
  <2>4. SubSeq(t, 1, l) = a <=> \A m \in 1..l : t[m] = a[m]
    <3> DEFINE w == SubSeq(t, 1, l)
    <3> HIDE DEF w
    <3>1. w \in Seq(Nat) /\ Len(w) = l /\ \A m \in 1..l : w[m] = t[m] BY <2>3 DEF w
    <3>2. w = a <=> \A m \in 1..l : w[m] = a[m] BY <3>1, SameElements
    <3> QED BY <3>1, <3>2 DEF w
  <2>5. StartsAt(a, s, k) <=> \A m \in 1..l : s[k + m - 1] = a[m] BY <2>1 DEF StartsAt
  <2> QED BY <1>3, <1>4, <2>2, <2>4, <2>5 DEF t
<1>5. CASE ~(l <= Len(t))
  <2>1. ~(k + l - 1 <= Len(s)) BY <1>1, <1>5
  <2> QED BY <1>3, <1>5, <2>1 DEF StartsAt, t
<1> QED BY <1>4, <1>5

\* The added tokens are sequences of bytes, none empty.
LEMMA AddedType ==
    \A a \in AddedTokens : a \in Seq(Nat) /\ a # <<>> /\ Len(a) \in Nat \ {0}
<1> SUFFICES ASSUME NEW a \in AddedTokens PROVE a \in Seq(Nat) /\ a # <<>> /\ Len(a) \in Nat \ {0}
  OBVIOUS
<1>1. a \in Seq(0..255) /\ a # <<>> BY TokenizerAssumption
<1>2. a \in Seq(Nat)
  <2>1. 0..255 \subseteq Nat OBVIOUS
  <2> QED BY <1>1, <2>1, SeqMonotonic
<1> QED BY <1>1, <1>2

\* LongestAt is the longest of the added tokens that stand at a place, if any does.
LEMMA LongestIs ==
    ASSUME NEW s \in Seq(Nat), NEW k \in 1..Len(s)
    PROVE  \/ LongestAt(s, k) = <<>> /\ \A a \in AddedTokens : ~StartsAt(a, s, k)
           \/ /\ LongestAt(s, k) \in AddedTokens /\ StartsAt(LongestAt(s, k), s, k)
              /\ \A b \in AddedTokens : StartsAt(b, s, k) => Len(b) <= Len(LongestAt(s, k))
<1> DEFINE here == {a \in AddedTokens : IsPrefix(a, SubSeq(s, k, Len(s)))}
           lens == {Len(a) : a \in here}
<1>1. \A a \in AddedTokens : a \in here <=> StartsAt(a, s, k) BY AddedType, PrefixStarts
<1>2. LongestAt(s, k) = IF here = {} THEN <<>>
                        ELSE CHOOSE a \in here : \A b \in here : Len(b) <= Len(a)
  BY DEF LongestAt
<1>3. here \subseteq AddedTokens OBVIOUS
<1> HIDE DEF here
<1>4. CASE here = {} BY <1>1, <1>2, <1>4
<1>5. CASE here # {}
  <2>1. Len(s) \in Nat /\ lens \in SUBSET (0..Len(s)) /\ lens # {}
    <3>1. ASSUME NEW a \in here PROVE Len(a) \in 0..Len(s)
      <4>1. Len(a) \in Nat /\ k + Len(a) - 1 <= Len(s) BY <1>1, <1>3, AddedType DEF StartsAt
      <4>2. Len(s) \in Nat OBVIOUS
      <4> QED BY <4>1, <4>2
    <3>2. Len(s) \in Nat OBVIOUS
    <3> QED BY <1>5, <3>1, <3>2
  <2>2. PICK x \in lens : \A m \in lens : m <= x
    <3> HIDE DEF lens
    <3> QED BY <2>1, GreatestUpTo
  <2>3. \E a \in here : \A b \in here : Len(b) <= Len(a) BY <2>2
  <2>4. LongestAt(s, k) \in here /\ \A b \in here : Len(b) <= Len(LongestAt(s, k))
    BY <1>2, <1>5, <2>3
  <2> QED BY <1>1, <1>3, <2>4
<1> QED BY <1>4, <1>5

\* FoundAt, place by place.
LEMMA FoundIs ==
    ASSUME text \in Seq(Nat), pos \in 0..Len(text), NEW a \in AddedTokens
    PROVE  /\ FoundAt(a) \in SUBSET (pos..Len(text) - 1)
           /\ \A k \in pos..Len(text) - 1 : k \in FoundAt(a) <=> StartsAt(a, text, k + 1)
<1>1. a \in Seq(Nat) /\ Len(a) \in Nat \ {0} /\ Len(text) \in Nat BY AddedType
<1>2. FoundAt(a) \in SUBSET (pos..Len(text) - 1)
  <2>1. \A k \in pos..Len(text) - Len(a) : k \in pos..Len(text) - 1 BY <1>1
  <2> QED BY <2>1 DEF FoundAt
<1>3. ASSUME NEW k \in pos..Len(text) - 1 PROVE k \in FoundAt(a) <=> StartsAt(a, text, k + 1)
  <2>1. k \in pos..Len(text) - Len(a) <=> k + 1 + Len(a) - 1 <= Len(text) BY <1>1
  <2>2. CASE ~(k \in pos..Len(text) - Len(a)) BY <2>1, <2>2 DEF FoundAt, StartsAt
  <2>3. CASE k \in pos..Len(text) - Len(a)
    <3> DEFINE w == SubSeq(text, k + 1, k + Len(a))
    <3>1. /\ w \in Seq(Nat) /\ Len(w) = Len(a)
          /\ \A m \in 1..Len(a) : w[m] = text[k + 1 + m - 1]
      <4>1. \A m \in k + 1..k + Len(a) : m \in 1..Len(text) BY <1>1, <2>3
      <4>2. \A m \in k + 1..k + Len(a) : text[m] \in Nat BY <4>1
      <4>3. k + 1 \in Int /\ k + Len(a) \in Int BY <1>1, <2>3
      <4>4. /\ w \in Seq(Nat)
            /\ Len(w) = IF k + 1 <= k + Len(a) THEN k + Len(a) - (k + 1) + 1 ELSE 0
            /\ \A m \in 1..k + Len(a) - (k + 1) + 1 : w[m] = text[k + 1 + m - 1]
        BY <4>2, <4>3, SubSeqProperties
      <4> HIDE DEF w
      <4>5. k + Len(a) - (k + 1) + 1 = Len(a) /\ k + 1 <= k + Len(a) BY <1>1
      <4> QED BY <4>4, <4>5
    <3>2. k \in FoundAt(a) <=> w = a BY <2>3 DEF FoundAt
    <3> HIDE DEF w
    <3>3. w = a <=> \A m \in 1..Len(a) : w[m] = a[m]
      <4>1. w \in Seq(Nat) /\ Len(w) = Len(a) BY <3>1, Zenon
      <4>2. a \in Seq(Nat) BY <1>1, Zenon
      <4> QED BY <4>1, <4>2, SameElements, Zenon
    <3>4. k + 1 + Len(a) - 1 <= Len(text) BY <2>1, <2>3
    <3> QED BY <3>1, <3>2, <3>3, <3>4 DEF StartsAt
  <2> QED BY <2>2, <2>3
<1> QED BY <1>2, <1>3

\* The added tokens of a text behind a place: the longest one that stands there and those
\* behind it, or those behind the next place.
LEMMA SpecialsGoOn ==
    ASSUME NEW s \in Seq(Nat)
    PROVE  /\ SpecialsBehind(s, Len(s) + 1) = <<>>
           /\ \A k \in 1..Len(s) + 1 : SpecialsBehind(s, k) \in Seq({"added"} \X AddedTokens)
           /\ \A k \in 1..Len(s) :
                 SpecialsBehind(s, k) =
                     IF LongestAt(s, k) = <<>> THEN SpecialsBehind(s, k + 1)
                     ELSE << <<"added", LongestAt(s, k)>> >>
                              \o SpecialsBehind(s, k + Len(LongestAt(s, k)))
           /\ \A k \in 1..Len(s) : k + Len(LongestAt(s, k)) \in k..Len(s) + 1
<1> DEFINE n == Len(s)
           S == {"added"} \X AddedTokens
           L(k) == LongestAt(s, k)
           part == [k \in 1..n |-> IF L(k) = <<>> THEN <<>> ELSE << <<"added", L(k)>> >>]
           next == [k \in 1..n |-> IF L(k) = <<>> THEN k + 1 ELSE k + Len(L(k))]
           from[k \in 1..Len(s) + 1] ==
               IF k > Len(s) THEN <<>>
               ELSE IF LongestAt(s, k) = <<>> THEN from[k + 1]
               ELSE << <<"added", LongestAt(s, k)>> >> \o from[k + Len(LongestAt(s, k))]
<1>1. n \in Nat OBVIOUS
<1>2. ASSUME NEW k \in 1..n, L(k) # <<>>
      PROVE  k + Len(L(k)) \in k + 1..n + 1 /\ << <<"added", L(k)>> >> \in Seq(S)
  <2>1. L(k) \in AddedTokens /\ StartsAt(L(k), s, k) BY <1>2, LongestIs
  <2>2. Len(L(k)) \in Nat \ {0} /\ k + Len(L(k)) - 1 <= n BY <2>1, AddedType DEF StartsAt
  <2>3. <<"added", L(k)>> \in S
    <3> HIDE DEF L
    <3> QED BY <2>1
  <2>4. \A x \in S : <<x>> \in Seq(S)
    <3> HIDE DEF S
    <3> QED OBVIOUS
  <2> HIDE DEF L, S
  <2> QED BY <1>1, <2>2, <2>3, <2>4
<1>3. ASSUME NEW k \in 1..n
      PROVE  next[k] \in k + 1..n + 1 /\ part[k] \in Seq(S) /\ k + Len(L(k)) \in k..n + 1
  <2>1. CASE L(k) = <<>>
    <3>1. part[k] = <<>> /\ next[k] = k + 1 BY <2>1
    <3>2. <<>> \in Seq(S) /\ k + 1 \in k + 1..n + 1 OBVIOUS
    <3>3. k + Len(L(k)) = k + 0
      <4>1. Len(<<>>) = 0 OBVIOUS
      <4> HIDE DEF L
      <4> QED BY <2>1, <4>1, Zenon
    <3>4. k + 0 \in k..n + 1 BY <1>1
    <3> HIDE DEF part, next, L, S
    <3> QED BY <3>1, <3>2, <3>3, <3>4, Zenon
  <2>2. CASE L(k) # <<>>
    <3>1. part[k] = << <<"added", L(k)>> >> /\ next[k] = k + Len(L(k)) BY <2>2
    <3>2. \A x : x \in k + 1..n + 1 => x \in k..n + 1 BY <1>1
    <3>3. k + Len(L(k)) \in k + 1..n + 1 /\ << <<"added", L(k)>> >> \in Seq(S) BY <1>2, <2>2
    <3> HIDE DEF part, next, L, S
    <3> QED BY <3>1, <3>2, <3>3, Zenon
  <2> QED BY <2>1, <2>2
<1>4. PICK f : Scans(f, n, part, next)
  <2>1. \A k \in 1..n : next[k] \in k + 1..n + 1 BY <1>3
  <2> HIDE DEF n, part, next
  <2> QED BY <1>1, <2>1, ScanEnds
<1>5. \A k \in 1..n + 1 : f[k] \in Seq(S)
  <2>1. \A k \in 1..n : next[k] \in k + 1..n + 1 /\ part[k] \in Seq(S) BY <1>3
  <2> HIDE DEF n, S, part, next
  <2> QED BY <1>1, <1>4, <2>1, ScanType
<1>6. \E h : h = [k \in 1..Len(s) + 1 |->
                    IF k > Len(s) THEN <<>>
                    ELSE IF LongestAt(s, k) = <<>> THEN h[k + 1]
                    ELSE << <<"added", LongestAt(s, k)>> >> \o h[k + Len(LongestAt(s, k))]]
  <2>1. f = [k \in 1..n + 1 |-> IF k > n THEN <<>> ELSE part[k] \o f[next[k]]] BY <1>4 DEF Scans
  <2>2. ASSUME NEW k \in 1..n + 1
        PROVE  (IF k > n THEN <<>> ELSE part[k] \o f[next[k]]) =
               IF k > Len(s) THEN <<>>
               ELSE IF LongestAt(s, k) = <<>> THEN f[k + 1]
               ELSE << <<"added", LongestAt(s, k)>> >> \o f[k + Len(LongestAt(s, k))]
    <3>1. CASE k > n BY <3>1
    <3>2. CASE k \in 1..n /\ L(k) = <<>>
      <4>1. part[k] = <<>> /\ next[k] = k + 1 BY <3>2
      <4>2. f[k + 1] \in Seq(S)
        <5>1. k + 1 \in 1..n + 1 BY <1>1, <3>2
        <5> QED BY <1>5, <5>1
      <4>3. <<>> \o f[k + 1] = f[k + 1] BY <4>2, ConcatEmptySeq
      <4>4. ~(k > n) BY <1>1, <3>2
      <4> HIDE DEF part, next
      <4> QED BY <3>2, <4>1, <4>3, <4>4, Zenon
    <3>3. CASE k \in 1..n /\ L(k) # <<>>
      <4>1. part[k] = << <<"added", L(k)>> >> /\ next[k] = k + Len(L(k)) BY <3>3
      <4>2. ~(k > n) BY <1>1, <3>3
      <4> HIDE DEF part, next
      <4> QED BY <3>3, <4>1, <4>2, Zenon
    <3> QED BY <1>1, <3>1, <3>2, <3>3
  <2> HIDE DEF part, next, from
  <2>3. f = [k \in 1..Len(s) + 1 |->
               IF k > Len(s) THEN <<>>
               ELSE IF LongestAt(s, k) = <<>> THEN f[k + 1]
               ELSE << <<"added", LongestAt(s, k)>> >> \o f[k + Len(LongestAt(s, k))]]
    BY <2>1, <2>2
  <2> QED BY <2>3, Zenon
<1>7. from = [k \in 1..Len(s) + 1 |->
                IF k > Len(s) THEN <<>>
                ELSE IF LongestAt(s, k) = <<>> THEN from[k + 1]
                ELSE << <<"added", LongestAt(s, k)>> >> \o from[k + Len(LongestAt(s, k))]]
  BY <1>6, Zenon
<1>8. \A b : SpecialsBehind(s, b) = from[b] BY DEF SpecialsBehind
<1> HIDE DEF from
<1>9. from[n + 1] = <<>>
  <2>1. n + 1 \in 1..n + 1 /\ n + 1 > n BY <1>1
  <2> QED BY <1>7, <2>1
<1>10. ASSUME NEW k \in 1..n
       PROVE  from[k] = IF L(k) = <<>> THEN from[k + 1]
                        ELSE << <<"added", L(k)>> >> \o from[k + Len(L(k))]
  <2>1. k \in 1..n + 1 /\ ~(k > n) BY <1>1
  <2> QED BY <1>7, <2>1
<1> DEFINE T == {k \in 1..n : from[k] \in Seq(S)}
<1>11. ASSUME NEW k \in 1..n, \A m \in k + 1..n : m \in T PROVE k \in T
  <2>1. \A m \in k + 1..n + 1 : from[m] \in Seq(S)
    <3>1. \A m \in k + 1..n + 1 : m = n + 1 \/ m \in k + 1..n BY <1>1
    <3>2. <<>> \in Seq(S) OBVIOUS
    <3>3. \A m \in k + 1..n : from[m] \in Seq(S) BY <1>11
    <3> HIDE DEF S
    <3> QED BY <1>9, <3>1, <3>2, <3>3
  <2>2. CASE L(k) = <<>>
    <3>1. k + 1 \in k + 1..n + 1 BY <1>1
    <3>2. from[k] = from[k + 1] BY <1>10, <2>2
    <3> HIDE DEF S, L
    <3> QED BY <2>1, <3>1, <3>2
  <2>3. CASE L(k) # <<>>
    <3> DEFINE e == k + Len(L(k))
               y == << <<"added", L(k)>> >>
    <3>1. e \in k + 1..n + 1 /\ y \in Seq(S) BY <1>2, <2>3
    <3>2. from[k] = y \o from[e] BY <1>10, <2>3
    <3> HIDE DEF e, y, S
    <3>3. from[e] \in Seq(S) BY <2>1, <3>1
    <3>4. y \o from[e] \in Seq(S) BY <3>1, <3>3
    <3> QED BY <3>2, <3>4
  <2> QED BY <2>2, <2>3
<1>12. \A k \in 1..n : k \in T
  <2> HIDE DEF T, n
  <2> QED BY <1>1, <1>11, DownFrom
<1>13. \A k \in 1..n + 1 : from[k] \in Seq(S)
  <2>1. \A k \in 1..n + 1 : k = n + 1 \/ k \in 1..n BY <1>1
  <2>2. <<>> \in Seq(S) OBVIOUS
  <2>3. \A k \in 1..n : from[k] \in Seq(S) BY <1>12
  <2> HIDE DEF S
  <2> QED BY <1>9, <2>1, <2>2, <2>3
<1>14. \A k \in 1..n : k + Len(L(k)) \in k..n + 1 BY <1>3
<1>15. \A k \in 1..n : from[k] = IF L(k) = <<>> THEN from[k + 1]
                                 ELSE << <<"added", L(k)>> >> \o from[k + Len(L(k))]
  BY <1>10
<1>16. SpecialsBehind(s, n + 1) = <<>> BY <1>8, <1>9
<1>17. \A k \in 1..n + 1 : SpecialsBehind(s, k) \in Seq(S)
  <2> HIDE DEF n, S
  <2> QED BY <1>8, <1>13, Zenon
<1>18. ASSUME NEW k \in 1..n
       PROVE  SpecialsBehind(s, k) = IF L(k) = <<>> THEN SpecialsBehind(s, k + 1)
                                     ELSE << <<"added", L(k)>> >> \o SpecialsBehind(s, k + Len(L(k)))
  <2> DEFINE B(m) == SpecialsBehind(s, m)
  <2>1. B(k) = from[k] /\ B(k + 1) = from[k + 1] /\ B(k + Len(L(k))) = from[k + Len(L(k))]
    BY <1>8
  <2> HIDE DEF B, L, n
  <2>2. B(k) = IF L(k) = <<>> THEN B(k + 1) ELSE << <<"added", L(k)>> >> \o B(k + Len(L(k)))
    BY <1>15, <2>1, Zenon
  <2> QED BY <2>2 DEF B
<1> QED BY <1>14, <1>16, <1>17, <1>18

\* Places where no added token stands are skipped.
LEMMA SpecialsSkip ==
    ASSUME NEW s \in Seq(Nat), NEW a \in 1..Len(s) + 1, NEW b \in a..Len(s) + 1,
           \A k \in a..b - 1 : LongestAt(s, k) = <<>>
    PROVE  SpecialsBehind(s, a) = SpecialsBehind(s, b)
<1> DEFINE T == {d \in 0..b - a : SpecialsBehind(s, a) = SpecialsBehind(s, a + d)}
<1>1. b - a \in Nat /\ a + 0 = a /\ a + (b - a) = b /\ Len(s) \in Nat OBVIOUS
<1>2. 0 \in T BY <1>1
<1>3. ASSUME NEW d \in 1..b - a, d - 1 \in T PROVE d \in T
  <2>1. a + (d - 1) \in a..b - 1 /\ a + (d - 1) \in 1..Len(s) /\ a + (d - 1) + 1 = a + d
    BY <1>1
  <2>2. LongestAt(s, a + (d - 1)) = <<>> BY <2>1
  <2>3. SpecialsBehind(s, a + (d - 1)) = SpecialsBehind(s, a + (d - 1) + 1)
    BY <2>1, <2>2, SpecialsGoOn
  <2>4. d \in 0..b - a OBVIOUS
  <2> QED BY <1>3, <2>1, <2>3, <2>4
<1>4. b - a \in T
  <2>1. b - a \in 0..b - a BY <1>1
  <2> HIDE DEF T
  <2> QED BY <1>1, <1>2, <1>3, <2>1, UpTo
<1> QED BY <1>1, <1>4

\* What FindSpecial finds: the first place where an added token stands, and the longest of
\* the tokens that stand there.
LEMMA BestIs ==
    ASSUME text \in Seq(Nat), pos \in 0..Len(text)
    PROVE  LET found == {a \in AddedTokens : FoundAt(a) # {}}
               best == CHOOSE a \in found : \A b \in found \ {a} : Better(a, b)
               end == Min(FoundAt(best))
           IN  IF found = {} THEN \A k \in pos + 1..Len(text) : LongestAt(text, k) = <<>>
               ELSE /\ best \in AddedTokens /\ end \in pos..Len(text) - 1
                    /\ end \in FoundAt(best)
                    /\ LongestAt(text, end + 1) = best
                    /\ \A k \in pos + 1..end : LongestAt(text, k) = <<>>
<1> DEFINE found == {a \in AddedTokens : FoundAt(a) # {}}
           best == CHOOSE a \in found : \A b \in found \ {a} : Better(a, b)
           firsts == {Min(FoundAt(a)) : a \in found}
           n == Len(text)
<1>1. ASSUME NEW k \in pos + 1..n
      PROVE  \/ LongestAt(text, k) = <<>> /\ \A a \in AddedTokens : k - 1 \notin FoundAt(a)
             \/ LongestAt(text, k) \in AddedTokens /\ k - 1 \in FoundAt(LongestAt(text, k))
                /\ \A b \in AddedTokens : k - 1 \in FoundAt(b) => Len(b) <= Len(LongestAt(text, k))
  <2>1. k \in 1..Len(text) /\ k - 1 \in pos..Len(text) - 1 /\ k - 1 + 1 = k OBVIOUS
  <2>2. \A a \in AddedTokens : k - 1 \in FoundAt(a) <=> StartsAt(a, text, k) BY <2>1, FoundIs
  <2> QED BY <2>1, <2>2, LongestIs
<1>2. \A a \in AddedTokens : FoundAt(a) \in SUBSET (pos..n - 1) BY FoundIs
<1>3. ASSUME NEW a \in found
      PROVE  /\ a \in AddedTokens /\ Min(FoundAt(a)) \in FoundAt(a) /\ Min(FoundAt(a)) \in pos..n - 1
             /\ \A k \in FoundAt(a) : Min(FoundAt(a)) <= k
  <2>1. FoundAt(a) # {} /\ FoundAt(a) \in SUBSET (pos..n - 1) BY <1>2
  <2>2. FoundAt(a) \in SUBSET Nat BY <2>1
  <2> QED BY <2>1, <2>2, MinIs
<1>4. CASE found = {}
  <2>1. \A k \in pos + 1..n : LongestAt(text, k) = <<>> BY <1>1, <1>4
  <2> QED BY <1>4, <2>1
<1>5. CASE found # {}
  <2>1. firsts \in SUBSET Nat /\ firsts # {}
    <3>1. \A a \in found : Min(FoundAt(a)) \in Nat BY <1>3
    <3> HIDE DEF found
    <3> QED BY <1>5, <3>1
  <2>2. PICK e \in firsts : \A m \in firsts : e <= m
    <3> HIDE DEF firsts
    <3> QED BY <2>1, LeastNat
  <2>3. PICK c \in found : e = Min(FoundAt(c)) BY <2>2
  <2>4. e \in pos..n - 1 /\ e \in Nat /\ \A a \in found : e <= Min(FoundAt(a)) BY <1>3, <2>2, <2>3
  <2> DEFINE L == LongestAt(text, e + 1)
  <2>5. e + 1 \in pos + 1..n /\ e + 1 - 1 = e BY <2>4
  <2>6. /\ L \in AddedTokens /\ e \in FoundAt(L)
        /\ \A b \in AddedTokens : e \in FoundAt(b) => Len(b) <= Len(L)
    <3>1. PICK k \in pos + 1..n : k = e + 1 /\ k - 1 = e BY <2>4, <2>5
    <3>2. c \in AddedTokens /\ k - 1 \in FoundAt(c) BY <1>3, <2>3, <3>1
    <3>3. ~(\A a \in AddedTokens : k - 1 \notin FoundAt(a)) BY <3>2
    <3>4. /\ LongestAt(text, k) \in AddedTokens /\ k - 1 \in FoundAt(LongestAt(text, k))
          /\ \A b \in AddedTokens : k - 1 \in FoundAt(b) => Len(b) <= Len(LongestAt(text, k))
      BY <1>1, <3>3, Zenon
    <3> QED BY <3>1, <3>4, Zenon
  <2> HIDE DEF L
  <2>7. L \in found /\ Min(FoundAt(L)) = e
    <3>1. L \in found BY <2>6
    <3>2. Min(FoundAt(L)) <= e /\ Min(FoundAt(L)) \in pos..n - 1 /\ e <= Min(FoundAt(L))
      BY <1>3, <2>4, <2>6, <3>1
    <3> QED BY <2>4, <3>1, <3>2
  <2>8. ASSUME NEW b \in found \ {L} PROVE Better(L, b) /\ ~Better(b, L)
    <3>1. e <= Min(FoundAt(b)) /\ Min(FoundAt(b)) \in pos..n - 1 /\ b \in AddedTokens
          /\ Min(FoundAt(b)) \in FoundAt(b)
      BY <1>3, <2>4
    <3>2. Len(b) \in Nat /\ Len(L) \in Nat BY <2>6, <3>1, AddedType
    <3>3. CASE Min(FoundAt(b)) = e
      <4>1. Len(b) <= Len(L) BY <2>6, <3>1, <3>3
      <4>2. Len(b) # Len(L)
        <5>1. SUFFICES ASSUME Len(b) = Len(L) PROVE b = L OBVIOUS
        <5>2. StartsAt(b, text, e + 1) /\ StartsAt(L, text, e + 1)
          BY <2>4, <2>6, <3>1, <3>3, FoundIs
        <5>3. b \in Seq(Nat) /\ L \in Seq(Nat) BY <2>6, <3>1, AddedType
        <5> QED BY <5>1, <5>2, <5>3, SameStart
      <4> QED BY <2>4, <2>7, <3>2, <3>3, <4>1, <4>2 DEF Better
    <3>4. CASE Min(FoundAt(b)) # e
      <4>1. e < Min(FoundAt(b)) BY <2>4, <3>1, <3>4
      <4> QED BY <2>4, <2>7, <3>1, <4>1 DEF Better
    <3> QED BY <3>3, <3>4
  <2> HIDE DEF found
  <2>9. best \in found /\ \A b \in found \ {best} : Better(best, b) BY <2>7, <2>8
  <2>10. best = L BY <2>7, <2>8, <2>9
  <2>11. ASSUME NEW k \in pos + 1..e PROVE LongestAt(text, k) = <<>>
    <3>1. k \in pos + 1..n /\ k - 1 < e BY <2>4
    <3>2. ASSUME NEW a \in AddedTokens, k - 1 \in FoundAt(a) PROVE FALSE
      <4>1. a \in found BY <3>2 DEF found
      <4>2. Min(FoundAt(a)) <= k - 1 /\ Min(FoundAt(a)) \in pos..n - 1 BY <1>3, <3>2, <4>1
      <4>3. e <= Min(FoundAt(a)) BY <2>4, <4>1
      <4> QED BY <2>4, <3>1, <4>2, <4>3
    <3> QED BY <1>1, <3>1, <3>2
  <2> HIDE DEF best
  <2>12. /\ best \in AddedTokens /\ Min(FoundAt(best)) = e /\ e \in FoundAt(best)
         /\ LongestAt(text, e + 1) = best
    BY <2>6, <2>7, <2>10 DEF L
  <2> QED BY <1>5, <2>4, <2>11, <2>12 DEF best, found
<1> QED BY <1>4, <1>5

-----------------------------------------------------------------------------
(* The inductive invariant.                                                *)

\* What is left of the added tokens: the one behind the chunk and those behind it.
Pending ==
    IF special = <<>> THEN SpecialsBehind(text, pos + 1)
    ELSE << <<"added", special>> >> \o SpecialsBehind(text, pos + Len(special) + 1)

\* The scan for added tokens: what has been passed is accounted for.
ScanInv ==
    /\ text \in Seq(Nat) /\ pos \in 0..Len(text)
    /\ special = <<>> \/ (special \in AddedTokens /\ pos \in FoundAt(special))
    /\ at = "scan" => special = <<>>
    /\ at # "scan" /\ special = <<>> => pos = Len(text)
    /\ AddedIn(out) \o Pending = Specials(text)

\* The split: the pieces so far and those of the rest are the pieces of the chunk.
SplitInv ==
    /\ pieces \in Seq(Seq(Nat))
    /\ at = "split" => /\ cps \in Seq(Nat) /\ i \in 1..Len(cps) + 1
                       /\ pieces \o SplitBehind(cps, i) = Split(cps)

\* The tokens: a word has no added token among its own.
TokensInv == (\E S : out \in Seq(S)) /\ Plain(ids)

TokInv == ScanInv /\ SplitInv /\ TokensInv

\* The empty sequence has no added token.
LEMMA EmptyPlain == Plain(<<>>) /\ AddedIn(<<>>) = <<>> /\ \E S : <<>> \in Seq(S)
<1>1. <<>> \in Seq({}) /\ Len(<<>>) = 0 OBVIOUS
<1>2. PICK u \in [0..Len(<<>>) -> Seq({})] : u[0] = <<>> /\ AddedIn(<<>>) = u[Len(<<>>)]
  BY <1>1, AddedIs
<1> QED BY <1>1, <1>2 DEF Plain

\* encode() starts in the invariant.
LEMMA TokInitInv == ASSUME TokInit PROVE TokInv
<1>1. PICK t \in Texts : text = Encoded(t) BY DEF TokInit
<1>2. text \in Seq(Nat)
  <2>1. t \in Seq(Nat) BY TokenizerAssumption, Zenon
  <2> QED BY <1>1, <2>1, EncodedType
<1>3. /\ pos = 0 /\ special = <<>> /\ at = "scan" /\ pieces = <<>> /\ ids = <<>> /\ out = <<>>
  BY DEF TokInit
<1>4. SpecialsBehind(text, 1) \in Seq({"added"} \X AddedTokens)
  <2>1. 1 \in 1..Len(text) + 1 BY <1>2
  <2> QED BY <1>2, <2>1, SpecialsGoOn
<1>5. AddedIn(out) \o Pending = Specials(text)
  <2>1. Pending = SpecialsBehind(text, pos + 1) /\ pos + 1 = 1 BY <1>3 DEF Pending
  <2>2. Pending = SpecialsBehind(text, 1) BY <2>1, Zenon
  <2>3. AddedIn(out) = <<>> BY <1>3, EmptyPlain
  <2>4. <<>> \o SpecialsBehind(text, 1) = SpecialsBehind(text, 1) BY <1>4
  <2> QED BY <2>2, <2>3, <2>4, Zenon DEF Specials
<1>6. 0 \in 0..Len(text) BY <1>2
<1>7. ScanInv BY <1>2, <1>3, <1>5, <1>6 DEF ScanInv
<1>8. SplitInv BY <1>3 DEF SplitInv
<1>9. TokensInv BY <1>3, EmptyPlain DEF TokensInv
<1> QED BY <1>7, <1>8, <1>9 DEF TokInv

\* The invariant of the scan depends on the text, pos, special, out and where the chunk is.
LEMMA ScanKept ==
    ASSUME ScanInv, UNCHANGED <<text, pos, special, out>>, at # "scan", at' # "scan"
    PROVE  ScanInv'
<1>1. Pending' = Pending BY DEF Pending
<1>2. \A a : FoundAt(a)' = FoundAt(a) BY DEF FoundAt
<1> QED BY <1>1, <1>2 DEF ScanInv

\* A turn of pre_tokenize's loop keeps the invariant.
LEMMA NextPieceInv == ASSUME TokInv, NextPiece PROVE TokInv'
<1> DEFINE rules == <<Contraction, Letters, Number, Others, Spaces, i + 1>>
           j == rules[Min({k \in 1..6 : rules[k] # 0})]
           x == Encoded(SubSeq(cps, i, j - 1))
<1>1. /\ at = "split" /\ i <= Len(cps)
      /\ pieces' = Append(pieces, x) /\ i' = j
      /\ UNCHANGED <<family, text, pos, special, at, cps, ids, out>>
  BY DEF NextPiece
<1>2. /\ cps \in Seq(Nat) /\ i \in 1..Len(cps) /\ pieces \in Seq(Seq(Nat))
      /\ pieces \o SplitBehind(cps, i) = Split(cps)
  <2>1. /\ cps \in Seq(Nat) /\ i \in 1..Len(cps) + 1 /\ pieces \in Seq(Seq(Nat))
        /\ pieces \o SplitBehind(cps, i) = Split(cps)
    BY <1>1 DEF TokInv, SplitInv
  <2>2. i \in 1..Len(cps)
    <3>1. i <= Len(cps) /\ Len(cps) \in Nat BY <1>1, <2>1
    <3> QED BY <2>1, <3>1
  <2> QED BY <2>1, <2>2
<1>3. j = MatchEnd(cps, i) BY <1>2, PieceEnd
<1> HIDE DEF j
<1>4. j \in i + 1..Len(cps) + 1 BY <1>2, <1>3, MatchEndRange
<1>5. /\ x \in Seq(Nat) /\ SplitBehind(cps, i) = <<x>> \o SplitBehind(cps, j)
      /\ SplitBehind(cps, j) \in Seq(Seq(Nat))
  <2>1. j \in 1..Len(cps) + 1 BY <1>2, <1>4
  <2> QED BY <1>2, <1>3, <2>1, SplitGoesOn
<1> HIDE DEF x
<1>6. Append(pieces, x) \in Seq(Seq(Nat)) BY <1>2, <1>5
<1>7. Append(pieces, x) \o SplitBehind(cps, j) = pieces \o (<<x>> \o SplitBehind(cps, j))
  <2> DEFINE S == Seq(Nat)
             rest == SplitBehind(cps, j)
  <2>1. pieces \in Seq(S) /\ x \in S /\ rest \in Seq(S) BY <1>2, <1>5
  <2> HIDE DEF S, rest
  <2>2. <<x>> \in Seq(S) /\ Append(pieces, x) = pieces \o <<x>> BY <2>1
  <2>3. (pieces \o <<x>>) \o rest = pieces \o (<<x>> \o rest) BY <2>1, <2>2, ConcatAssociative
  <2>4. Append(pieces, x) \o rest = pieces \o (<<x>> \o rest) BY <2>2, <2>3, Zenon
  <2> QED BY <2>4 DEF rest
<1>8. pieces' \o SplitBehind(cps', i') = Split(cps')
  <2>1. Append(pieces, x) \o SplitBehind(cps, j) = Split(cps) BY <1>2, <1>5, <1>7, Zenon
  <2>2. pieces' \o SplitBehind(cps, i') = Split(cps) BY <1>1, <2>1, Zenon
  <2>3. cps' = cps BY <1>1
  <2> QED BY <2>2, <2>3, Zenon
<1>9. SplitInv'
  <2>1. pieces' \in Seq(Seq(Nat)) BY <1>1, <1>6
  <2>2. cps' \in Seq(Nat) /\ i' \in 1..Len(cps') + 1 BY <1>1, <1>2, <1>4
  <2> QED BY <1>8, <2>1, <2>2, Zenon DEF SplitInv
<1>10. ScanInv' BY <1>1, ScanKept DEF TokInv
<1>11. TokensInv' BY <1>1 DEF TokInv, TokensInv, Plain
<1> QED BY <1>9, <1>10, <1>11 DEF TokInv

\* The end of a split keeps the invariant.
LEMMA SplitDoneInv == ASSUME TokInv, SplitDone PROVE TokInv'
<1>1. /\ at = "split" /\ at' = "words"
      /\ UNCHANGED <<family, text, pos, special, cps, i, pieces, ids, out>>
  BY DEF SplitDone
<1>2. ScanInv' BY <1>1, ScanKept DEF TokInv
<1>3. SplitInv' BY <1>1 DEF TokInv, SplitInv
<1>4. TokensInv' BY <1>1 DEF TokInv, TokensInv, Plain
<1> QED BY <1>2, <1>3, <1>4 DEF TokInv

\* A new word keeps the invariant.
LEMMA BeginWordInv == ASSUME TokInv, BeginWord PROVE TokInv'
<1> DEFINE w == Head(pieces)
           S == {<<"tok", <<byte_to_unicode(w[k])>> >> : k \in 1..Len(w)}
<1>1. /\ at = "words" /\ at' = "merge" /\ pieces # <<>>
      /\ ids' = [k \in 1..Len(w) |-> <<"tok", <<byte_to_unicode(w[k])>> >>]
      /\ pieces' = Tail(pieces)
      /\ UNCHANGED <<family, text, pos, special, cps, i, out>>
  BY DEF BeginWord
<1>2. pieces \in Seq(Seq(Nat)) BY DEF TokInv, SplitInv
<1>3. w \in Seq(Nat) /\ Tail(pieces) \in Seq(Seq(Nat)) BY <1>1, <1>2
<1>4. ids' \in Seq(S)
  <2>1. Len(w) \in Nat BY <1>3
  <2>2. \A k \in 1..Len(w) : <<"tok", <<byte_to_unicode(w[k])>> >> \in S OBVIOUS
  <2> HIDE DEF S, w
  <2> QED BY <1>1, <2>1, <2>2
<1>5. \A y \in S : y[1] # "added" OBVIOUS
<1>6. ScanInv' BY <1>1, ScanKept DEF TokInv
<1>7. SplitInv' BY <1>1, <1>3 DEF SplitInv
<1>8. TokensInv'
  <2> HIDE DEF S
  <2>1. Plain(ids') BY <1>4, <1>5 DEF Plain
  <2>2. \E R : out' \in Seq(R) BY <1>1 DEF TokInv, TokensInv
  <2>3. Plain(ids)' BY <2>1 DEF Plain
  <2> QED BY <2>2, <2>3 DEF TokensInv
<1> QED BY <1>6, <1>7, <1>8 DEF TokInv

\* A turn of bpe_merge's loop keeps the invariant.
LEMMA MergeInv == ASSUME TokInv, bpe_merge PROVE TokInv'
<1>1. /\ at = "merge" /\ ids' = MergeAll(ids, BestRank(ids))
      /\ UNCHANGED <<family, text, pos, special, at, cps, i, pieces, out>>
  BY DEF bpe_merge
<1>2. ScanInv' BY <1>1, ScanKept DEF TokInv
<1>3. SplitInv' BY <1>1 DEF TokInv, SplitInv
<1>4. Plain(ids') BY <1>1, MergeAllPlain DEF TokInv, TokensInv
<1>5. TokensInv' BY <1>1, <1>4 DEF TokInv, TokensInv, Plain
<1> QED BY <1>2, <1>3, <1>5 DEF TokInv

\* A finished word keeps the invariant.
LEMMA MergeDoneInv == ASSUME TokInv, MergeDone PROVE TokInv'
<1>1. /\ at = "merge" /\ at' = "words" /\ out' = out \o ids /\ ids' = <<>>
      /\ UNCHANGED <<family, text, pos, special, cps, i, pieces>>
  BY DEF MergeDone
<1>2. PICK S : out \in Seq(S) BY DEF TokInv, TokensInv
<1>3. Plain(ids) BY DEF TokInv, TokensInv
<1>4. AddedIn(out \o ids) = AddedIn(out) /\ \E T : out \o ids \in Seq(T) BY <1>2, <1>3, AddedPlain
<1>5. ScanInv'
  <2>1. Pending' = Pending BY <1>1 DEF Pending
  <2>2. \A a : FoundAt(a)' = FoundAt(a) BY <1>1 DEF FoundAt
  <2>3. AddedIn(out') = AddedIn(out) BY <1>1, <1>4
  <2>4. AddedIn(out)' = AddedIn(out') BY DEF AddedIn
  <2>5. (AddedIn(out) \o Pending = Specials(text))'
    <3>1. AddedIn(out) \o Pending = Specials(text) BY DEF TokInv, ScanInv
    <3>2. text' = text BY <1>1
    <3> QED BY <2>1, <2>3, <2>4, <3>1, <3>2, Zenon
  <2> QED BY <1>1, <2>2, <2>5 DEF TokInv, ScanInv
<1>6. SplitInv' BY <1>1 DEF TokInv, SplitInv
<1>7. TokensInv'
  <2>1. Plain(ids') BY <1>1, EmptyPlain
  <2>2. \E R : out' \in Seq(R) BY <1>1, <1>4
  <2> QED BY <2>1, <2>2 DEF TokensInv, Plain
<1> QED BY <1>5, <1>6, <1>7 DEF TokInv

\* The next added token and the chunk before it: the invariant is kept.
LEMMA FindSpecialInv == ASSUME TokInv, FindSpecial PROVE TokInv'
<1> DEFINE found == {a \in AddedTokens : FoundAt(a) # {}}
           least == CHOOSE a \in found : \A b \in found \ {a} : Better(a, b)
           best == IF found = {} THEN <<>> ELSE least
           end == IF found = {} THEN Len(text) ELSE Min(FoundAt(best))
           chunk == SubSeq(text, pos + 1, end)
<1>1. /\ at = "scan" /\ pos < Len(text)
      /\ special' = best /\ pos' = end
      /\ cps' = IF family = "ByteLevel" THEN to_codepoints(chunk) ELSE <<>>
      /\ ids' = IF family = "Metaspace" /\ chunk # <<>> THEN MetaspaceIds(chunk) ELSE <<>>
      /\ at' = IF chunk = <<>> THEN "words" ELSE IF family = "ByteLevel" THEN "split" ELSE "merge"
      /\ i' = 1 /\ pieces' = <<>>
      /\ UNCHANGED <<family, text, out>>
  BY DEF FindSpecial
<1>2. /\ text \in Seq(Nat) /\ pos \in 0..Len(text) /\ special = <<>> /\ Len(text) \in Nat
      /\ AddedIn(out) \o SpecialsBehind(text, pos + 1) = Specials(text)
  BY <1>1 DEF TokInv, ScanInv, Pending
<1>3. IF found = {} THEN \A k \in pos + 1..Len(text) : LongestAt(text, k) = <<>>
      ELSE /\ least \in AddedTokens /\ Min(FoundAt(least)) \in pos..Len(text) - 1
           /\ Min(FoundAt(least)) \in FoundAt(least)
           /\ LongestAt(text, Min(FoundAt(least)) + 1) = least
           /\ \A k \in pos + 1..Min(FoundAt(least)) : LongestAt(text, k) = <<>>
  BY <1>2, BestIs
<1> HIDE DEF found, least
<1>4. /\ end \in pos..Len(text)
      /\ \A k \in pos + 1..end : LongestAt(text, k) = <<>>
      /\ best = <<>> => end = Len(text)
      /\ best # <<>> => /\ best \in AddedTokens /\ end \in pos..Len(text) - 1
                        /\ end \in FoundAt(best) /\ LongestAt(text, end + 1) = best
  <2>1. CASE found = {}
    <3>1. best = <<>> /\ end = Len(text) BY <2>1
    <3>2. Len(text) \in pos..Len(text) BY <1>2
    <3> HIDE DEF best, end
    <3> QED BY <1>3, <2>1, <3>1, <3>2
  <2>2. CASE found # {}
    <3>1. best = least /\ end = Min(FoundAt(least)) BY <2>2
    <3> HIDE DEF best, end
    <3>2. best \in AddedTokens /\ end \in pos..Len(text) - 1 BY <1>3, <2>2, <3>1
    <3>3. best # <<>> BY <3>2, AddedType
    <3>4. end \in pos..Len(text) BY <1>2, <3>2
    <3> QED BY <1>3, <2>2, <3>1, <3>2, <3>3, <3>4
  <2> QED BY <2>1, <2>2
<1> HIDE DEF best, end
<1>5. SpecialsBehind(text, pos + 1) = SpecialsBehind(text, end + 1)
  <2>1. pos + 1 \in 1..Len(text) + 1 /\ end + 1 \in pos + 1..Len(text) + 1 BY <1>2, <1>4
  <2> DEFINE a == pos + 1
             b == end + 1
  <2>3. a \in 1..Len(text) + 1 /\ b \in a..Len(text) + 1 BY <2>1
  <2>4. \A k \in a..b - 1 : LongestAt(text, k) = <<>>
    <3>1. b - 1 = end BY <1>2, <1>4
    <3> QED BY <1>4, <3>1
  <2> HIDE DEF a, b
  <2>5. SpecialsBehind(text, a) = SpecialsBehind(text, b) BY <1>2, <2>3, <2>4, SpecialsSkip
  <2> QED BY <2>5 DEF a, b
<1>6. Pending' = SpecialsBehind(text, end + 1)
  <2>1. Pending' = IF best = <<>> THEN SpecialsBehind(text, end + 1)
                   ELSE << <<"added", best>> >> \o SpecialsBehind(text, end + Len(best) + 1)
    BY <1>1 DEF Pending
  <2>2. CASE best = <<>> BY <2>1, <2>2
  <2>3. CASE best # <<>>
    <3>1. end + 1 \in 1..Len(text) BY <1>2, <1>4, <2>3
    <3>2. SpecialsBehind(text, end + 1) = << <<"added", best>> >> \o SpecialsBehind(text, end + 1 + Len(best))
      BY <1>2, <1>4, <2>3, <3>1, SpecialsGoOn
    <3>3. end + 1 + Len(best) = end + Len(best) + 1 BY <1>2, <1>4, <2>3, AddedType
    <3> QED BY <2>1, <2>3, <3>2, <3>3
  <2> QED BY <2>2, <2>3
<1>7. ScanInv'
  <2>1. (AddedIn(out) \o Pending = Specials(text))'
    <3>1. AddedIn(out)' = AddedIn(out) /\ Specials(text)' = Specials(text)
      BY <1>1 DEF AddedIn, Specials, SpecialsBehind
    <3> QED BY <1>2, <1>5, <1>6, <3>1, Zenon
  <2>2. at' # "scan" BY <1>1
  <2>3. text' \in Seq(Nat) /\ pos' \in 0..Len(text') BY <1>1, <1>2, <1>4
  <2>4. ASSUME special' # <<>> PROVE special' \in AddedTokens /\ (pos \in FoundAt(special))'
    <3>1. /\ best # <<>> /\ best \in AddedTokens /\ end \in FoundAt(best)
          /\ end \in pos..Len(text) - 1
      BY <1>1, <1>4, <2>4
    <3>2. SubSeq(text, end + 1, end + Len(best)) = best /\ end \in pos..Len(text) - Len(best)
      BY <3>1 DEF FoundAt
    <3>3. end \in end..Len(text) - Len(best)
      <4>1. Len(best) \in Nat BY <3>1, AddedType
      <4> QED BY <1>2, <3>1, <3>2, <4>1
    <3>4. FoundAt(special)' = {k \in pos'..Len(text') - Len(special') :
                                 SubSeq(text', k + 1, k + Len(special')) = special'}
      BY DEF FoundAt
    <3>5. FoundAt(special)' = {k \in end..Len(text) - Len(best) :
                                 SubSeq(text, k + 1, k + Len(best)) = best}
      BY <1>1, <3>4
    <3> QED BY <1>1, <3>1, <3>2, <3>3, <3>5
  <2>5. special' = <<>> => pos' = Len(text') BY <1>1, <1>4
  <2> QED BY <2>1, <2>2, <2>3, <2>4, <2>5 DEF ScanInv
<1>8. chunk \in Seq(Nat)
  <2>1. \A e \in pos..Len(text) : SubSeq(text, pos + 1, e) \in Seq(Nat) BY <1>2
  <2> QED BY <1>4, <2>1
<1> HIDE DEF chunk
<1>9. SplitInv'
  <2>1. pieces' \in Seq(Seq(Nat)) BY <1>1
  <2>2. ASSUME at' = "split"
        PROVE  cps' \in Seq(Nat) /\ i' \in 1..Len(cps') + 1
               /\ pieces' \o SplitBehind(cps', i') = Split(cps')
    <3>1. cps' = to_codepoints(chunk) BY <1>1, <2>2
    <3>2. cps' \in Seq(Nat) BY <1>8, <3>1, CodepointsType
    <3>3. 1 \in 1..Len(cps') + 1 BY <3>2
    <3>4. SplitBehind(cps', 1) \in Seq(Seq(Nat)) BY <3>2, <3>3, SplitGoesOn
    <3>5. <<>> \o SplitBehind(cps', 1) = SplitBehind(cps', 1) BY <3>4, ConcatEmptySeq
    <3> QED BY <1>1, <3>2, <3>3, <3>5 DEF Split
  <2> QED BY <2>1, <2>2 DEF SplitInv
<1>10. TokensInv'
  <2>1. Plain(ids')
    <3>1. ids' = <<>> \/ ids' = MetaspaceIds(chunk) BY <1>1
    <3> QED BY <1>8, <3>1, EmptyPlain, MetaspacePlain, Zenon
  <2>2. \E R : out' \in Seq(R) BY <1>1 DEF TokInv, TokensInv
  <2> QED BY <2>1, <2>2 DEF TokensInv, Plain
<1> QED BY <1>7, <1>9, <1>10 DEF TokInv

\* The end of a chunk keeps the invariant.
LEMMA EndChunkInv == ASSUME TokInv, EndChunk PROVE TokInv'
<1>1. /\ at = "words" /\ pieces = <<>>
      /\ out' = IF special = <<>> THEN out ELSE Append(out, <<"added", special>>)
      /\ pos' = pos + Len(special) /\ at' = "scan" /\ special' = <<>>
      /\ UNCHANGED <<family, text, pieces, ids>>
  BY DEF EndChunk
<1>2. /\ text \in Seq(Nat) /\ pos \in 0..Len(text) /\ Len(text) \in Nat
      /\ special = <<>> => pos = Len(text)
      /\ special # <<>> => special \in AddedTokens /\ pos \in FoundAt(special)
      /\ AddedIn(out) \o Pending = Specials(text)
  BY <1>1 DEF TokInv, ScanInv
<1>3. PICK S : out \in Seq(S) BY DEF TokInv, TokensInv
<1>4. /\ AddedIn(out)' = AddedIn(out') /\ Specials(text)' = Specials(text)
      /\ Pending' = SpecialsBehind(text, pos' + 1)
  BY <1>1 DEF AddedIn, Specials, SpecialsBehind, Pending
<1>5. /\ pos' \in 0..Len(text) /\ AddedIn(out') \o SpecialsBehind(text, pos' + 1) = Specials(text)
      /\ \E T : out' \in Seq(T)
  <2>1. CASE special = <<>>
    <3>1. pos' = pos
      <4>1. pos' = pos + Len(<<>>) /\ Len(<<>>) = 0 BY <1>1, <2>1
      <4> QED BY <1>2, <4>1
    <3>2. out' = out BY <1>1, <2>1
    <3>3. Pending = SpecialsBehind(text, pos + 1) BY <2>1 DEF Pending
    <3>4. AddedIn(out') \o SpecialsBehind(text, pos' + 1) = Specials(text)
      BY <1>2, <3>1, <3>2, <3>3, Zenon
    <3> QED BY <1>2, <1>3, <3>1, <3>2, <3>4
  <2>2. CASE special # <<>>
    <3> DEFINE x == <<"added", special>>
               rest == SpecialsBehind(text, pos' + 1)
    <3>1. special \in AddedTokens /\ Len(special) \in Nat \ {0} BY <1>2, <2>2, AddedType
    <3>2. pos' \in 0..Len(text)
      <4>1. pos \in pos..Len(text) - Len(special) BY <1>2, <2>2 DEF FoundAt
      <4> QED BY <1>1, <1>2, <3>1, <4>1
    <3>3. pos + Len(special) + 1 = pos' + 1 BY <1>1, <1>2, <3>1
    <3>4. Pending = <<x>> \o rest BY <2>2, <3>3 DEF Pending
    <3>5. rest \in Seq({"added"} \X AddedTokens)
      <4>0. \A m \in 0..Len(text) : m + 1 \in 1..Len(text) + 1 BY <1>2
      <4>1. pos' + 1 \in 1..Len(text) + 1
        <5> HIDE DEF rest
        <5> QED BY <3>2, <4>0
      <4> QED BY <1>2, <4>1, SpecialsGoOn
    <3>6. out' = Append(out, x) /\ x[1] = "added" /\ x \in {"added"} \X AddedTokens
      BY <1>1, <2>2, <3>1
    <3> HIDE DEF x, rest
    <3>7. PICK T : Append(out, x) \in Seq(T) /\ AddedIn(out) \in Seq(T) /\ x \in T
      BY <1>3, <3>6, AddedNext
    <3>8. AddedIn(Append(out, x)) = Append(AddedIn(out), x) BY <1>3, <3>6, AddedNext
    <3> DEFINE R == T \union ({"added"} \X AddedTokens)
               A == AddedIn(out)
    <3>9. A \in Seq(R) /\ rest \in Seq(R) /\ x \in R
      <4>1. T \subseteq R /\ {"added"} \X AddedTokens \subseteq R OBVIOUS
      <4> HIDE DEF R
      <4> QED BY <3>5, <3>7, <4>1, SeqMonotonic
    <3> HIDE DEF R, A
    <3>10. <<x>> \in Seq(R) /\ Append(A, x) = A \o <<x>> BY <3>9
    <3>11. (A \o <<x>>) \o rest = A \o (<<x>> \o rest) BY <3>9, <3>10, ConcatAssociative
    <3>12. AddedIn(out') = A \o <<x>> BY <3>6, <3>8, <3>10, Zenon DEF A
    <3>13. AddedIn(out') \o rest = Specials(text) BY <1>2, <3>4, <3>11, <3>12, Zenon DEF A
    <3> QED BY <3>2, <3>6, <3>7, <3>13 DEF rest
  <2> QED BY <2>1, <2>2
<1>6. ScanInv'
  <2>1. (AddedIn(out) \o Pending = Specials(text))' BY <1>4, <1>5, Zenon
  <2>2. special' = <<>> /\ at' = "scan" /\ text' = text BY <1>1
  <2> QED BY <1>2, <1>5, <2>1, <2>2 DEF ScanInv
<1>7. SplitInv' BY <1>1 DEF TokInv, SplitInv
<1>8. TokensInv' BY <1>1, <1>5 DEF TokInv, TokensInv, Plain
<1> QED BY <1>6, <1>7, <1>8 DEF TokInv

\* The invariant is inductive: no step of encode() breaks it.
THEOREM TokInvHolds == TokSpec => []TokInv
<1>1. TokInit => TokInv BY TokInitInv
<1>2. TokInv /\ [TokNext]_tokVars => TokInv'
  <2> SUFFICES ASSUME TokInv, [TokNext]_tokVars PROVE TokInv' OBVIOUS
  <2>1. CASE NextPiece BY <2>1, NextPieceInv
  <2>2. CASE SplitDone BY <2>2, SplitDoneInv
  <2>3. CASE BeginWord BY <2>3, BeginWordInv
  <2>4. CASE bpe_merge BY <2>4, MergeInv
  <2>5. CASE MergeDone BY <2>5, MergeDoneInv
  <2>6. CASE FindSpecial BY <2>6, FindSpecialInv
  <2>7. CASE EndChunk BY <2>7, EndChunkInv
  <2>8. CASE UNCHANGED tokVars
    <3>1. UNCHANGED <<family, text, pos, special, at, cps, i, pieces, ids, out>>
      BY <2>8 DEF tokVars
    <3>2. Pending' = Pending /\ \A a : FoundAt(a)' = FoundAt(a) BY <3>1 DEF Pending, FoundAt
    <3>3. ScanInv' BY <3>1, <3>2 DEF TokInv, ScanInv
    <3>4. SplitInv' BY <3>1 DEF TokInv, SplitInv
    <3>5. TokensInv' BY <3>1 DEF TokInv, TokensInv, Plain
    <3> QED BY <3>3, <3>4, <3>5 DEF TokInv
  <2>9. CASE Return BY <2>8, <2>9 DEF Return
  <2> QED BY <2>1, <2>2, <2>3, <2>4, <2>5, <2>6, <2>7, <2>8, <2>9 DEF TokNext
<1> QED BY <1>1, <1>2, PTL DEF TokSpec

\* pre_tokenize, rule by rule and character by character, makes the pieces of the regular
\* expression that its comment quotes, of every text.
THEOREM SplitIsExact == TokSpec => []SplitExact
<1>1. TokInv => SplitExact
  <2> SUFFICES ASSUME TokInv, at = "split", i > Len(cps) PROVE pieces = Split(cps)
    BY DEF SplitExact
  <2>1. /\ cps \in Seq(Nat) /\ i \in 1..Len(cps) + 1 /\ pieces \in Seq(Seq(Nat))
        /\ pieces \o SplitBehind(cps, i) = Split(cps)
    BY DEF TokInv, SplitInv
  <2>2. i = Len(cps) + 1
    <3>1. Len(cps) \in Nat BY <2>1
    <3> QED BY <2>1, <3>1
  <2>3. SplitBehind(cps, i) = <<>> BY <2>1, <2>2, SplitGoesOn
  <2>4. pieces \o <<>> = pieces BY <2>1
  <2> QED BY <2>1, <2>3, <2>4, Zenon
<1> QED BY <1>1, TokInvHolds, PTL

\* encode() takes every added token of the text, the longest where several start, in
\* order and nowhere twice, whatever the chunks between them are encoded to.
THEOREM SpecialsAreExact == TokSpec => []SpecialsExact
<1>1. TokInv => SpecialsExact
  <2> SUFFICES ASSUME TokInv, EncodeDone PROVE AddedIn(out) = Specials(text) BY DEF SpecialsExact
  <2>1. at = "scan" /\ pos = Len(text) BY DEF EncodeDone
  <2>2. /\ text \in Seq(Nat) /\ special = <<>> /\ AddedIn(out) \o Pending = Specials(text)
    BY <2>1 DEF TokInv, ScanInv
  <2>3. Pending = <<>>
    <3>1. Pending = SpecialsBehind(text, Len(text) + 1) BY <2>1, <2>2 DEF Pending
    <3> QED BY <2>2, <3>1, SpecialsGoOn
  <2>4. PICK S : out \in Seq(S) BY DEF TokInv, TokensInv
  <2>5. AddedIn(out) \in Seq(S)
    <3>1. PICK u \in [0..Len(out) -> Seq(S)] : AddedIn(out) = u[Len(out)] BY <2>4, AddedIs
    <3>2. Len(out) \in 0..Len(out) BY <2>4
    <3> QED BY <3>1, <3>2
  <2>6. AddedIn(out) \o <<>> = AddedIn(out) BY <2>5, ConcatEmptySeq
  <2> QED BY <2>2, <2>3, <2>6, Zenon
<1> QED BY <1>1, TokInvHolds, PTL

=============================================================================
