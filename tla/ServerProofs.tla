---------------------------- MODULE ServerProofs ----------------------------
(***************************************************************************)
(* The HTTP server, for every number of connections and handlers, every    *)
(* depth limit and whatever bytes the tokens stand for.                    *)
(*                                                                         *)
(* Utf8Buffer is right on texts: Complete is a recursive function, and the *)
(* place it comes to is a boundary between characters because the least    *)
(* place from which it did not would be followed by a smaller one.  For    *)
(* this, induction is stated over sets of numbers (LeastNat, AllNat).      *)
(*                                                                         *)
(* Of a connection the invariant ConnInv says that nothing exists before   *)
(* the hand-over (Fresh), that the end is the last message and is sent     *)
(* when the engine has let go (LastMessage), and that what is produced is  *)
(* with the client, in the buffer or in the channel, in this order         *)
(* (Relayed).  NoOrphanWork needs all of it: a handler that leaves without *)
(* an abort has seen the end, or was refused before the hand-over, or the  *)
(* engine has ended (EngineEnded).                                         *)
(***************************************************************************)
EXTENDS Server, SequenceTheorems, WellFoundedInduction, NaturalsInduction, TLAPS

-----------------------------------------------------------------------------
(* Induction.                                                              *)

\* A set of natural numbers has a smallest element.
LEMMA LeastNat == ASSUME NEW T \in SUBSET Nat, T # {} PROVE \E n \in T : \A m \in T : n <= m
<1>1. PICK n \in T : \A m \in T : <<m, n>> \notin OpToRel(<, Nat)
  BY WFMin, NatLessThanWellFounded, Zenon
<1>2. ASSUME NEW m \in T, m < n PROVE FALSE
  <2>1. <<m, n>> \in Nat \X Nat /\ <<m, n>>[1] < <<m, n>>[2] BY <1>2
  <2>2. <<m, n>> \in OpToRel(<, Nat) BY <2>1 DEF OpToRel
  <2> QED BY <1>1, <2>2, Zenon
<1> QED BY <1>2

\* A set that holds 0 and with every number the next holds all of them.
LEMMA AllNat == ASSUME NEW T, 0 \in T, \A n \in Nat : n \in T => n + 1 \in T PROVE Nat \subseteq T
<1>1. SUFFICES ASSUME Nat \ T # {} PROVE FALSE OBVIOUS
<1>2. PICK n \in Nat \ T : \A m \in Nat \ T : n <= m BY <1>1, LeastNat
<1>3. n # 0 BY <1>2
<1>4. n - 1 \in Nat /\ (n - 1) + 1 = n BY <1>2, <1>3
<1>5. n - 1 \in T BY <1>2, <1>4
<1> QED BY <1>2, <1>4, <1>5

-----------------------------------------------------------------------------
(* The bytes of a channel.                                                 *)

Messages == Pieces \union {End}

\* What one more message adds to the text.
Plus(text, m) == IF m = End THEN text ELSE text \o m

Joins(f, q) == f = [k \in 0..Len(q) |-> IF k = 0 THEN <<>> ELSE Plus(f[k - 1], q[k])]

\* The recursion of Joined defines a function.
LEMMA JoinExists == ASSUME NEW M, NEW q \in Seq(M) PROVE \E f : Joins(f, q)
<1> DEFINE G(k, f) == IF k = 0 THEN <<>> ELSE Plus(f[k - 1], q[k])
           P == {n \in Nat : n <= Len(q) => \E f : f = [k \in 0..n |-> G(k, f)]}
<1>1. 0 \in P
  <2>1. [k \in 0..0 |-> <<>>] = [k \in 0..0 |-> G(k, [j \in 0..0 |-> <<>>])] OBVIOUS
  <2> QED BY <2>1
<1>2. ASSUME NEW n \in Nat, n \in P PROVE n + 1 \in P
  <2> SUFFICES ASSUME n + 1 <= Len(q) PROVE \E f : f = [k \in 0..n + 1 |-> G(k, f)] OBVIOUS
  <2>1. n <= Len(q) OBVIOUS
  <2>2. PICK f : f = [k \in 0..n |-> G(k, f)] BY <1>2, <2>1
  <2> DEFINE g == [k \in 0..n + 1 |-> IF k <= n THEN f[k] ELSE G(k, f)]
  <2>3. ASSUME NEW k \in 0..n + 1 PROVE g[k] = G(k, g)
    <3>1. CASE k <= n
      <4>1. g[k] = G(k, f) BY <2>2, <3>1
      <4>2. k # 0 => g[k - 1] = f[k - 1] BY <3>1
      <4> QED BY <4>1, <4>2
    <3>2. CASE k = n + 1
      <4>1. g[k] = G(k, f) BY <3>2
      <4>2. k - 1 = n /\ g[n] = f[n] BY <3>2
      <4> QED BY <4>1, <4>2
    <3> QED BY <3>1, <3>2
  <2>4. g = [k \in 0..n + 1 |-> G(k, g)]
    <3> HIDE DEF G
    <3> QED BY <2>3
  <2> QED BY <2>4
<1>3. Len(q) \in P
  <2>1. Len(q) \in Nat OBVIOUS
  <2> HIDE DEF P
  <2> QED BY <1>1, <1>2, <2>1, AllNat
<1> QED BY <1>3 DEF Joins

\* Joined(q) is its last value.
LEMMA JoinedIs == ASSUME NEW M, NEW q \in Seq(M) PROVE \E f : Joins(f, q) /\ Joined(q) = f[Len(q)]
<1> DEFINE upto[k \in 0..Len(q)] == IF k = 0 THEN <<>> ELSE IF q[k] = End THEN upto[k - 1] ELSE upto[k - 1] \o q[k]
<1>1. \E f : f = [k \in 0..Len(q) |-> IF k = 0 THEN <<>> ELSE IF q[k] = End THEN f[k - 1] ELSE f[k - 1] \o q[k]]
  BY JoinExists DEF Joins, Plus
<1>2. upto = [k \in 0..Len(q) |-> IF k = 0 THEN <<>> ELSE IF q[k] = End THEN upto[k - 1] ELSE upto[k - 1] \o q[k]]
  BY <1>1
<1>3. Joined(q) = upto[Len(q)] BY DEF Joined
<1> HIDE DEF upto
<1> QED BY <1>2, <1>3 DEF Joins, Plus

\* The text of a channel is a text.
LEMMA JoinType ==
    ASSUME NEW M \in SUBSET Seq(Int), NEW q \in Seq(M), NEW f, Joins(f, q)
    PROVE  \A k \in 0..Len(q) : f[k] \in Seq(Int)
<1> DEFINE P == {n \in Nat : n <= Len(q) => f[n] \in Seq(Int)}
<1>1. 0 \in P BY DEF Joins
<1>2. ASSUME NEW n \in Nat, n \in P PROVE n + 1 \in P
  <2> SUFFICES ASSUME n + 1 <= Len(q) PROVE f[n + 1] \in Seq(Int) OBVIOUS
  <2>1. n + 1 \in 0..Len(q) /\ n + 1 # 0 /\ (n + 1) - 1 = n /\ n + 1 \in 1..Len(q) OBVIOUS
  <2>2. f[n + 1] = Plus(f[n], q[n + 1]) BY <2>1 DEF Joins
  <2>3. f[n] \in Seq(Int) /\ q[n + 1] \in Seq(Int) BY <1>2, <2>1
  <2> QED BY <2>2, <2>3 DEF Plus
<1>3. Nat \subseteq P
  <2> HIDE DEF P
  <2> QED BY <1>1, <1>2, AllNat
<1> QED BY <1>3

\* An empty channel has no text.
LEMMA JoinNone == Joined(<<>>) = <<>>
<1>1. <<>> \in Seq({}) /\ Len(<<>>) = 0 OBVIOUS
<1>2. PICK f : Joins(f, <<>>) /\ Joined(<<>>) = f[Len(<<>>)] BY <1>1, JoinedIs
<1> QED BY <1>1, <1>2 DEF Joins

\* A message that is pushed adds its bytes at the end, the terminal one none.
LEMMA JoinAppend ==
    ASSUME NEW M \in SUBSET Seq(Int), NEW q \in Seq(M), NEW m \in M
    PROVE  Joined(Append(q, m)) = Plus(Joined(q), m)
<1> DEFINE r == Append(q, m)
<1>0. r \in Seq(M) /\ Len(r) = Len(q) + 1 /\ r[Len(q) + 1] = m /\ \A k \in 1..Len(q) : r[k] = q[k]
  OBVIOUS
<1>1. PICK f : Joins(f, q) /\ Joined(q) = f[Len(q)] BY JoinedIs
<1>2. PICK g : Joins(g, r) /\ Joined(r) = g[Len(r)] BY <1>0, JoinedIs
<1> HIDE DEF r
<1> DEFINE P == {n \in Nat : n <= Len(q) => g[n] = f[n]}
<1>3. 0 \in P BY <1>0, <1>1, <1>2 DEF Joins
<1>4. ASSUME NEW n \in Nat, n \in P PROVE n + 1 \in P
  <2> SUFFICES ASSUME n + 1 <= Len(q) PROVE g[n + 1] = f[n + 1] OBVIOUS
  <2>1. n + 1 \in 0..Len(q) /\ n + 1 \in 0..Len(r) /\ n + 1 # 0 /\ (n + 1) - 1 = n /\ n + 1 \in 1..Len(q)
    BY <1>0
  <2>2. f[n + 1] = Plus(f[n], q[n + 1]) BY <1>1, <2>1 DEF Joins
  <2>3. g[n + 1] = Plus(g[n], r[n + 1]) BY <1>2, <2>1 DEF Joins
  <2> QED BY <1>0, <1>4, <2>1, <2>2, <2>3
<1>5. Nat \subseteq P
  <2> HIDE DEF P
  <2> QED BY <1>3, <1>4, AllNat
<1>6. Len(q) \in Nat /\ g[Len(q)] = f[Len(q)] BY <1>5
<1>7. g[Len(q) + 1] = Plus(g[Len(q)], m)
  <2>1. Len(q) + 1 \in 0..Len(r) /\ Len(q) + 1 # 0 /\ (Len(q) + 1) - 1 = Len(q) BY <1>0, <1>6
  <2> QED BY <1>0, <1>2, <2>1 DEF Joins
<1>8. Joined(r) = Plus(Joined(q), m) BY <1>0, <1>1, <1>2, <1>6, <1>7
<1> QED BY <1>8 DEF r

\* Concatenation is associative.
LEMMA Associative == \A a, b, c \in Seq(Int) : (a \o b) \o c = a \o (b \o c)
<1> SUFFICES ASSUME NEW a \in Seq(Int), NEW b \in Seq(Int), NEW c \in Seq(Int)
             PROVE  (a \o b) \o c = a \o (b \o c)
  OBVIOUS
<1> DEFINE l == (a \o b) \o c
           r == a \o (b \o c)
<1>1. /\ Len(a) \in Nat /\ Len(b) \in Nat /\ Len(c) \in Nat
      /\ a \o b \in Seq(Int) /\ Len(a \o b) = Len(a) + Len(b)
      /\ b \o c \in Seq(Int) /\ Len(b \o c) = Len(b) + Len(c)
  OBVIOUS
<1>2. l \in Seq(Int) /\ Len(l) = (Len(a) + Len(b)) + Len(c) BY <1>1
<1>3. r \in Seq(Int) /\ Len(r) = Len(a) + (Len(b) + Len(c)) BY <1>1
<1>4. ASSUME NEW i \in 1..Len(l) PROVE l[i] = r[i]
  <2>1. CASE i <= Len(a) BY <1>1, <1>2, <1>3, <2>1
  <2>2. CASE Len(a) < i /\ i <= Len(a) + Len(b) BY <1>1, <1>2, <1>3, <2>2
  <2>3. CASE Len(a) + Len(b) < i BY <1>1, <1>2, <1>3, <2>3
  <2> QED BY <1>1, <1>2, <2>1, <2>2, <2>3
<1> HIDE DEF l, r
<1>5. l = r
  <2>1. Len(l) = Len(r) BY <1>1, <1>2, <1>3
  <2>2. l = [i \in 1..Len(l) |-> l[i]] /\ r = [i \in 1..Len(l) |-> r[i]] BY <1>2, <1>3, <2>1
  <2> QED BY <1>4, <2>2
<1> QED BY <1>5 DEF l, r

\* A message that is popped takes its bytes from the front.
LEMMA JoinTail ==
    ASSUME NEW M \in SUBSET Seq(Int), NEW q \in Seq(M), q # <<>>
    PROVE  /\ Joined(q) = Plus(<<>>, Head(q)) \o Joined(Tail(q))
           /\ Plus(<<>>, Head(q)) \in Seq(Int) /\ Joined(Tail(q)) \in Seq(Int)
<1> DEFINE r == Tail(q)
           h == Plus(<<>>, Head(q))
<1>0. /\ r \in Seq(M) /\ Len(r) = Len(q) - 1 /\ Len(q) \in Nat \ {0} /\ Len(r) \in Nat
      /\ \A k \in 1..Len(r) : r[k] = q[k + 1]
      /\ Head(q) = q[1] /\ q[1] \in Seq(Int)
  OBVIOUS
<1>1. PICK f : Joins(f, q) /\ Joined(q) = f[Len(q)] BY JoinedIs
<1>2. PICK g : Joins(g, r) /\ Joined(r) = g[Len(r)] BY <1>0, JoinedIs
<1>3. h \in Seq(Int) BY <1>0 DEF Plus
<1> HIDE DEF r, h
<1>4. \A k \in 0..Len(r) : g[k] \in Seq(Int) BY <1>0, <1>2, JoinType
<1> DEFINE P == {n \in Nat : n <= Len(r) => f[n + 1] = h \o g[n]}
<1>5. 0 \in P
  <2>1. g[0] = <<>> BY <1>0, <1>2 DEF Joins
  <2>2. f[0] = <<>> BY <1>0, <1>1 DEF Joins
  <2>3. f[1] = Plus(f[0], q[1]) BY <1>0, <1>1 DEF Joins
  <2>4. f[1] = h BY <1>0, <2>2, <2>3 DEF h
  <2>5. h \o <<>> = h BY <1>3
  <2>6. f[0 + 1] = h \o g[0]
    <3>1. 0 + 1 = 1 OBVIOUS
    <3> QED BY <2>1, <2>4, <2>5, <3>1, Zenon
  <2> QED BY <2>6
<1>6. ASSUME NEW n \in Nat, n \in P PROVE n + 1 \in P
  <2> SUFFICES ASSUME n + 1 <= Len(r) PROVE f[(n + 1) + 1] = h \o g[n + 1] OBVIOUS
  <2>1. /\ n + 1 \in 0..Len(r) /\ n + 1 # 0 /\ (n + 1) - 1 = n /\ n + 1 \in 1..Len(r)
        /\ n + 2 \in 0..Len(q) /\ n + 2 # 0 /\ (n + 2) - 1 = n + 1 /\ (n + 1) + 1 = n + 2
        /\ n \in 0..Len(r) /\ n + 2 \in 1..Len(q)
    BY <1>0
  <2>2. f[n + 2] = Plus(f[n + 1], q[n + 2]) BY <1>1, <2>1 DEF Joins
  <2>3. g[n + 1] = Plus(g[n], r[n + 1]) BY <1>2, <2>1 DEF Joins
  <2>4. r[n + 1] = q[n + 2] BY <1>0, <2>1
  <2>5. f[n + 1] = h \o g[n] BY <1>6, <2>1
  <2>6. g[n] \in Seq(Int) /\ q[n + 2] \in Seq(Int) BY <1>4, <2>1
  <2>7. (h \o g[n]) \o q[n + 2] = h \o (g[n] \o q[n + 2]) BY <1>3, <2>6, Associative, Zenon
  <2>8. f[n + 2] = h \o g[n + 1] BY <2>2, <2>3, <2>4, <2>5, <2>7 DEF Plus
  <2> QED BY <2>1, <2>8
<1>7. Nat \subseteq P
  <2> HIDE DEF P
  <2> QED BY <1>5, <1>6, AllNat
<1>8. f[Len(r) + 1] = h \o g[Len(r)]
  <2>1. Len(r) \in P BY <1>0, <1>7
  <2>2. Len(r) <= Len(r) BY <1>0
  <2> QED BY <2>1, <2>2
<1>9. Joined(q) = h \o Joined(r) BY <1>0, <1>1, <1>2, <1>8
<1>10. Joined(r) \in Seq(Int) BY <1>0, <1>2, <1>4
<1> QED BY <1>3, <1>9, <1>10 DEF h, r

-----------------------------------------------------------------------------
(* Utf8Buffer.                                                             *)

Byte == 0..4

\* No character of t that starts up to p ends behind p.
Boundary(t, p) == \A j \in 1..p : (j + t[j]) - 1 <= p

Stops(f, b) ==
    f = [v \in 0..Len(b) |->
            IF v = Len(b) \/ v + Width(b[v + 1]) > Len(b) THEN v ELSE f[v + Width(b[v + 1])]]

\* The width read off a byte is between one and four.
LEMMA WidthType == ASSUME NEW b \in Seq(Byte), NEW v \in 0..Len(b), v # Len(b) PROVE Width(b[v + 1]) \in 1..4
<1>1. v + 1 \in 1..Len(b) OBVIOUS
<1>2. b[v + 1] \in 0..4 BY <1>1 DEF Byte
<1> QED BY <1>2 DEF Width

\* The loop of push() defines a function of the place it has come to.
LEMMA StopExists == ASSUME NEW b \in Seq(Byte) PROVE \E f : Stops(f, b)
<1> DEFINE w(v) == Width(b[v + 1])
           G(v, f) == IF v = Len(b) \/ v + w(v) > Len(b) THEN v ELSE f[v + w(v)]
           P == {n \in Nat : n <= Len(b) => \E f : f = [v \in Len(b) - n..Len(b) |-> G(v, f)]}
<1>0. Len(b) \in Nat /\ \A v \in 0..Len(b) : v # Len(b) => w(v) \in 1..4 BY WidthType
<1> HIDE DEF w
<1>1. 0 \in P
  <2>1. \A f : G(Len(b), f) = Len(b) OBVIOUS
  <2>2. Len(b) - 0..Len(b) = {Len(b)} BY <1>0
  <2> DEFINE g == [v \in Len(b) - 0..Len(b) |-> v]
  <2> HIDE DEF G
  <2>3. g = [v \in Len(b) - 0..Len(b) |-> G(v, g)] BY <2>1, <2>2
  <2> QED BY <2>3
<1>2. ASSUME NEW n \in Nat, n \in P PROVE n + 1 \in P
  <2> SUFFICES ASSUME n + 1 <= Len(b) PROVE \E f : f = [v \in Len(b) - (n + 1)..Len(b) |-> G(v, f)] OBVIOUS
  <2>1. n <= Len(b) BY <1>0
  <2>2. PICK f : f = [v \in Len(b) - n..Len(b) |-> G(v, f)] BY <1>2, <2>1
  <2> DEFINE g == [v \in Len(b) - (n + 1)..Len(b) |-> IF Len(b) - n <= v THEN f[v] ELSE G(v, f)]
  <2>3. ASSUME NEW v \in Len(b) - (n + 1)..Len(b) PROVE g[v] = G(v, g)
    <3>1. v \in 0..Len(b) BY <1>0
    <3>2. g[v] = G(v, f)
      <4>1. CASE Len(b) - n <= v
        <5>1. v \in Len(b) - n..Len(b) BY <1>0, <4>1
        <5> QED BY <2>2, <4>1, <5>1
      <4>2. CASE ~(Len(b) - n <= v) BY <4>2
      <4> QED BY <4>1, <4>2
    <3>3. CASE v = Len(b) \/ v + w(v) > Len(b) BY <3>2, <3>3
    <3>4. CASE ~(v = Len(b) \/ v + w(v) > Len(b))
      <4>1. w(v) \in 1..4 BY <1>0, <3>1, <3>4
      <4>2. v + w(v) \in Len(b) - n..Len(b) /\ v + w(v) \in Len(b) - (n + 1)..Len(b) BY <1>0, <3>1, <3>4, <4>1
      <4>3. g[v + w(v)] = f[v + w(v)] BY <1>0, <4>1, <4>2
      <4> QED BY <3>2, <3>4, <4>3
    <3> QED BY <3>3, <3>4
  <2>4. g = [v \in Len(b) - (n + 1)..Len(b) |-> G(v, g)]
    <3> HIDE DEF G
    <3> QED BY <2>3
  <2> QED BY <2>4
<1>3. Len(b) \in P
  <2> HIDE DEF P
  <2> QED BY <1>0, <1>1, <1>2, AllNat
<1>4. Len(b) - Len(b) = 0 /\ Len(b) <= Len(b) BY <1>0
<1>5. \E f : f = [v \in 0..Len(b) |-> G(v, f)] BY <1>3, <1>4
<1> QED BY <1>5 DEF Stops, w

\* Complete(b) is where it comes to from the start.
LEMMA CompleteIs == ASSUME NEW b \in Seq(Byte) PROVE \E f : Stops(f, b) /\ Complete(b) = f[0]
<1> DEFINE from[v \in 0..Len(b)] ==
              IF v = Len(b) \/ v + Width(b[v + 1]) > Len(b) THEN v ELSE from[v + Width(b[v + 1])]
<1>1. \E f : f = [v \in 0..Len(b) |->
               IF v = Len(b) \/ v + Width(b[v + 1]) > Len(b) THEN v ELSE f[v + Width(b[v + 1])]]
  BY StopExists DEF Stops
<1>2. from = [v \in 0..Len(b) |->
               IF v = Len(b) \/ v + Width(b[v + 1]) > Len(b) THEN v ELSE from[v + Width(b[v + 1])]]
  BY <1>1
<1>3. Complete(b) = from[0] BY DEF Complete
<1> HIDE DEF from
<1> QED BY <1>2, <1>3 DEF Stops

\* In a text, a character starts at a boundary, and ends at one if it is all there.
LEMMA NextCharacter ==
    ASSUME NEW t \in Seq(Byte), Text(t), NEW p \in 0..Len(t), p # Len(t), Boundary(t, p)
    PROVE  /\ t[p + 1] \in 1..4 /\ Width(t[p + 1]) = t[p + 1]
           /\ p + t[p + 1] <= Len(t) => Boundary(t, p + t[p + 1])
<1>0. Len(t) \in Nat /\ p + 1 \in 1..Len(t) /\ \A j \in 1..Len(t) : t[j] \in 0..4 BY DEF Byte
<1>1. t[p + 1] # 0
  <2> SUFFICES ASSUME t[p + 1] = 0 PROVE FALSE OBVIOUS
  <2>1. PICK j \in 1..(p + 1) - 1 : t[j] > (p + 1) - j BY <1>0 DEF Text
  <2>2. j \in 1..p /\ j \in 1..Len(t) BY <1>0
  <2>3. (j + t[j]) - 1 <= p BY <2>2 DEF Boundary
  <2>4. t[j] \in 0..4 BY <1>0, <2>2
  <2> QED BY <1>0, <2>1, <2>2, <2>3, <2>4
<1>2. t[p + 1] \in 1..4 BY <1>0, <1>1
<1>3. Width(t[p + 1]) = t[p + 1] BY <1>1 DEF Width
<1>4. ASSUME p + t[p + 1] <= Len(t) PROVE Boundary(t, p + t[p + 1])
  <2> SUFFICES ASSUME NEW j \in 1..p + t[p + 1] PROVE (j + t[j]) - 1 <= p + t[p + 1] BY DEF Boundary
  <2>0. j \in 1..Len(t) /\ t[j] \in 0..4 BY <1>0, <1>2, <1>4
  <2>1. CASE j <= p
    <3>1. (j + t[j]) - 1 <= p BY <2>0, <2>1 DEF Boundary
    <3> QED BY <1>2, <2>0, <3>1
  <2>2. CASE j = p + 1 BY <1>2, <2>2
  <2>3. CASE p + 1 < j
    <3>1. t[j] = 0
      <4> SUFFICES ASSUME t[j] # 0 PROVE FALSE OBVIOUS
      <4>1. \A i \in 1..j - 1 : t[i] <= j - i BY <2>0 DEF Text
      <4>2. p + 1 \in 1..j - 1 BY <2>0, <2>3
      <4>3. t[p + 1] <= j - (p + 1) BY <4>1, <4>2
      <4> QED BY <1>2, <2>0, <4>3
    <3> QED BY <1>2, <2>0, <3>1
  <2> QED BY <2>0, <2>1, <2>2, <2>3
<1> QED BY <1>2, <1>3, <1>4

\* push() gives out whole characters and keeps less than one.
LEMMA CompleteSplits ==
    ASSUME NEW u \in Seq(Byte), NEW b \in Seq(Byte), Text(u \o b), Boundary(u \o b, Len(u))
    PROVE  /\ Complete(b) \in 0..Len(b) /\ Len(b) - Complete(b) <= 3
           /\ Boundary(u \o b, Len(u) + Complete(b))
<1> DEFINE t == u \o b
           Good(x) == x \in 0..Len(b) /\ Len(b) - x <= 3 /\ Boundary(t, Len(u) + x)
<1>0. /\ t \in Seq(Byte) /\ Len(t) = Len(u) + Len(b) /\ Len(u) \in Nat /\ Len(b) \in Nat
      /\ \A v \in 0..Len(b) : v # Len(b) => t[(Len(u) + v) + 1] = b[v + 1]
  OBVIOUS
<1>1. PICK f : Stops(f, b) /\ Complete(b) = f[0] BY CompleteIs
<1> HIDE DEF t
<1> DEFINE Bad == {n \in Nat : n <= Len(b) /\ Boundary(t, Len(u) + (Len(b) - n)) /\ ~Good(f[Len(b) - n])}
<1>2. Bad = {}
  <2> SUFFICES ASSUME Bad # {} PROVE FALSE OBVIOUS
  <2>1. PICK n \in Bad : \A m \in Bad : n <= m
    <3>1. Bad \in SUBSET Nat OBVIOUS
    <3> HIDE DEF Bad
    <3> QED BY <3>1, LeastNat
  <2> DEFINE v == Len(b) - n
             p == Len(u) + v
  <2>2. n \in Nat /\ n <= Len(b) /\ Boundary(t, p) /\ ~Good(f[v]) BY <2>1
  <2>3. v \in 0..Len(b) /\ p \in 0..Len(t) /\ n = Len(b) - v BY <1>0, <2>2
  <2>4. f[v] = IF v = Len(b) \/ v + Width(b[v + 1]) > Len(b) THEN v ELSE f[v + Width(b[v + 1])]
    BY <1>1, <2>3 DEF Stops
  <2> HIDE DEF v, p, Good
  <2>5. p = Len(u) + v BY DEF p
  <2>6. CASE v = Len(b)
    <3>1. f[v] = v BY <2>4, <2>6
    <3>2. Len(b) - v <= 3 BY <1>0, <2>6
    <3> QED BY <2>2, <2>3, <2>5, <3>1, <3>2 DEF Good
  <2>7. CASE v # Len(b)
    <3>1. p # Len(t) BY <1>0, <2>3, <2>5, <2>7
    <3>2. Text(t) BY DEF t
    <3>3. /\ t[p + 1] \in 1..4 /\ Width(t[p + 1]) = t[p + 1]
          /\ p + t[p + 1] <= Len(t) => Boundary(t, p + t[p + 1])
      BY <1>0, <2>2, <2>3, <3>1, <3>2, NextCharacter
    <3>4. t[p + 1] = b[v + 1] BY <1>0, <2>3, <2>5, <2>7
    <3>5. PICK x \in 1..4 : x = b[v + 1] /\ Width(b[v + 1]) = x BY <3>3, <3>4
    <3>6. CASE v + x > Len(b)
      <4>1. f[v] = v BY <2>4, <3>5, <3>6
      <4>2. Len(b) - v <= 3 BY <1>0, <2>3, <3>6
      <4> QED BY <2>2, <2>3, <2>5, <4>1, <4>2 DEF Good
    <3>7. CASE ~(v + x > Len(b))
      <4>1. f[v] = f[v + x] BY <2>4, <2>7, <3>5, <3>7
      <4>2. Boundary(t, p + x)
        <5>1. p + x <= Len(t) BY <1>0, <2>3, <2>5, <3>5, <3>7, SMTT(20)
        <5>2. t[p + 1] = x BY <3>4, <3>5
        <5> QED BY <3>3, <5>1, <5>2
      <4> DEFINE m == Len(b) - (v + x)
      <4>a. x \in 1..4 /\ v + x <= Len(b) BY <1>0, <2>3, <3>5, <3>7, SMTT(30)
      <4>3. m \in Nat /\ m <= Len(b) /\ m < n /\ Len(b) - m = v + x
        <5> HIDE DEF Bad
        <5>1. Len(b) \in Nat /\ v \in Nat /\ x \in Nat /\ 1 <= x /\ n = Len(b) - v BY <1>0, <2>3, <4>a
        <5>2. m = Len(b) - (v + x) OBVIOUS
        <5> HIDE DEF m
        <5>3. m \in Nat BY <4>a, <5>1, <5>2
        <5>4. m <= Len(b) BY <5>1, <5>2
        <5>5. m < n BY <5>1, <5>2
        <5>6. Len(b) - m = v + x BY <5>1, <5>2
        <5> QED BY <5>3, <5>4, <5>5, <5>6
      <4>4. Len(u) + (v + x) = p + x BY <1>0, <2>3, <2>5, <3>5
      <4> HIDE DEF m
      <4>5. Boundary(t, Len(u) + (Len(b) - m)) BY <4>2, <4>3, <4>4
      <4>6. ~Good(f[Len(b) - m]) BY <2>2, <4>1, <4>3
      <4>7. m \in Bad BY <4>3, <4>5, <4>6
      <4> QED BY <2>1, <2>2, <4>3, <4>7
    <3> QED BY <3>6, <3>7
  <2> QED BY <2>6, <2>7
<1>3. Good(f[0])
  <2>1. Len(b) - Len(b) = 0 /\ Len(u) + 0 = Len(u) /\ Len(b) <= Len(b) BY <1>0
  <2>2. Len(b) \notin Bad BY <1>2
  <2>3. Boundary(t, Len(u)) BY DEF t
  <2> HIDE DEF Good
  <2> QED BY <1>0, <2>1, <2>2, <2>3
<1> QED BY <1>1, <1>3 DEF t

-----------------------------------------------------------------------------
(* The invariant.                                                          *)

Early == {"away", "line", "enter", "submit", "depth", "overloaded", "push"}

ServerTypeOK ==
    /\ line \in Seq(Conns)
    /\ kind \in [Conns -> Kinds \union {"none"}]
    /\ conn \in [Conns -> Early \union {"check", "relay", "done"}]
    /\ answer \in [Conns -> {"none", "200", "400", "429", "500", "503", "broken", "cut"}]
    /\ client \in [Conns -> {"here", "gone"}]
    /\ engine \in {"up", "draining", "ended"}
    /\ owner \in {"serving", "drain", "join", "stopped"}
    /\ held \subseteq Conns
    /\ channel \in [Conns -> Seq(Messages)]
    /\ produced \in [Conns -> Seq(Byte)] /\ sent \in [Conns -> Seq(Byte)]
    /\ pending \in [Conns -> Seq(Byte)]

\* An engine that died, or whose owner is past drain(), has ended.
EngineEnded == fatal \/ owner = "stopped" => engine = "ended"

\* A connection waits in line once, and is nowhere else.
InLine ==
    /\ \A j, k \in 1..Len(line) : line[j] = line[k] => j = k
    /\ \A k \in 1..Len(line) : conn[line[k]] = "line"

\* The terminal callback is the last one.
LastMessage(c) ==
    \A k \in 1..Len(channel[c]) : channel[c][k] = End => k = Len(channel[c]) /\ c \notin held

\* Before the hand-over there is nothing.
Fresh(c) ==
    conn[c] \in Early =>
        /\ c \notin held /\ answer[c] = "none" /\ channel[c] = <<>>
        /\ produced[c] = <<>> /\ sent[c] = <<>> /\ pending[c] = <<>>

\* From the hand-over to the answer, what is produced is with the client, in the buffer or
\* in the channel.
Relayed(c) ==
    conn[c] \in {"check", "relay"} =>
        /\ (sent[c] \o pending[c]) \o Joined(channel[c]) = produced[c]
        /\ Streams(c) => Whole(sent[c]) /\ Len(pending[c]) <= 3
        /\ ~Streams(c) => pending[c] = <<>>
        /\ answer[c] = "none"

\* A complete answer is complete.
Finished(c) ==
    answer[c] = "200" /\ kind[c] \in {"plain", "sse"} => c \notin held /\ sent[c] = produced[c]

ConnInv(c) == Text(produced[c]) /\ LastMessage(c) /\ Fresh(c) /\ Relayed(c) /\ Finished(c)

\* The inductive invariant of the server.
ServerInv ==
    /\ ServerTypeOK /\ EngineEnded /\ InLine /\ NoOrphanWork
    /\ \A c \in Conns : ConnInv(c)

Same(c) ==
    /\ conn'[c] = conn[c] /\ kind'[c] = kind[c] /\ answer'[c] = answer[c]
    /\ channel'[c] = channel[c] /\ produced'[c] = produced[c]
    /\ sent'[c] = sent[c] /\ pending'[c] = pending[c]
    /\ c \in held' => c \in held

\* A connection that nothing happens to keeps its invariant.
LEMMA SameKeeps == ASSUME NEW c \in Conns, ConnInv(c), Same(c) PROVE ConnInv(c)'
<1>1. Text(produced[c])' BY DEF ConnInv, Same, Text
<1>2. LastMessage(c)' BY DEF ConnInv, Same, LastMessage
<1>3. Fresh(c)' BY DEF ConnInv, Same, Fresh
<1>4. Relayed(c)'
  <2>1. Relayed(c) BY DEF ConnInv
  <2>2. Streams(c)' <=> Streams(c) BY DEF Same, Streams
  <2>3. Whole(sent[c])' <=> Whole(sent[c]) BY DEF Same, Whole, Text
  <2>4. Joined(channel[c])' = Joined(channel[c]) BY DEF Same, Joined
  <2> QED BY <2>1, <2>2, <2>3, <2>4 DEF Same, Relayed
<1>5. Finished(c)' BY DEF ConnInv, Same, Finished
<1> QED BY <1>1, <1>2, <1>3, <1>4, <1>5 DEF ConnInv

\* Messages and texts are sequences of numbers, and the end is no token.
LEMMA MessageTypes ==
    /\ Pieces \subseteq Seq(Byte) /\ End \notin Pieces
    /\ Messages \in SUBSET Seq(Int) /\ Seq(Byte) \subseteq Seq(Int)
<1>1. Pieces \subseteq Seq(0..4) BY ServerAssumption
<1>2. Seq(Byte) \subseteq Seq(Int) BY DEF Byte
<1>3. ASSUME End \in Pieces PROVE FALSE
  <2>1. End \in Seq(0..4) BY <1>1, <1>3
  <2>2. Len(End) = 1 /\ End[1] = -1 BY DEF End
  <2>3. End[1] \in 0..4 BY <2>1, <2>2
  <2> QED BY <2>2, <2>3
<1>4. End \in Seq(Int) BY DEF End
<1> QED BY <1>1, <1>2, <1>3, <1>4 DEF Byte, Messages

\* push() stops inside its buffer, whatever the bytes.
LEMMA CompleteRange == ASSUME NEW b \in Seq(Byte) PROVE Complete(b) \in 0..Len(b)
<1>0. Len(b) \in Nat OBVIOUS
<1>1. PICK f : Stops(f, b) /\ Complete(b) = f[0] BY CompleteIs
<1> DEFINE Bad == {n \in Nat : n <= Len(b) /\ f[Len(b) - n] \notin 0..Len(b)}
<1>2. Bad = {}
  <2> SUFFICES ASSUME Bad # {} PROVE FALSE OBVIOUS
  <2>1. PICK n \in Bad : \A m \in Bad : n <= m
    <3>1. Bad \in SUBSET Nat OBVIOUS
    <3> HIDE DEF Bad
    <3> QED BY <3>1, LeastNat
  <2>2. PICK v \in 0..Len(b) : v = Len(b) - n BY <1>0, <2>1
  <2>3. f[v] \notin 0..Len(b) /\ n = Len(b) - v /\ n \in Nat BY <1>0, <2>1, <2>2
  <2>4. f[v] = IF v = Len(b) \/ v + Width(b[v + 1]) > Len(b) THEN v ELSE f[v + Width(b[v + 1])]
    BY <1>1 DEF Stops
  <2>5. ~(v = Len(b) \/ v + Width(b[v + 1]) > Len(b)) BY <2>3, <2>4
  <2>6. PICK x \in 1..4 : x = Width(b[v + 1]) BY <2>5, WidthType
  <2>7. PICK m \in Nat : m = Len(b) - (v + x)
    <3>1. v + x <= Len(b) /\ v + x \in Nat BY <1>0, <2>5, <2>6
    <3>2. Len(b) - (v + x) \in Nat BY <1>0, <3>1
    <3> QED BY <3>2
  <2>8. m <= Len(b) /\ m < n /\ Len(b) - m = v + x BY <1>0, <2>3, <2>7
  <2>9. f[v] = f[Len(b) - m] BY <2>4, <2>5, <2>6, <2>8
  <2>10. m \in Bad BY <2>3, <2>8, <2>9
  <2> HIDE DEF Bad
  <2>11. n <= m BY <2>1, <2>10
  <2> QED BY <2>3, <2>7, <2>8, <2>11
<1>3. Len(b) \notin Bad /\ Len(b) - Len(b) = 0 /\ Len(b) <= Len(b)
  <2>1. Len(b) - Len(b) = 0 /\ Len(b) <= Len(b) BY <1>0
  <2> HIDE DEF Bad
  <2> QED BY <1>2, <2>1
<1>4. f[0] \in 0..Len(b) BY <1>0, <1>3
<1> QED BY <1>1, <1>4

\* Every step keeps the types.
LEMMA NextServerTypes == ASSUME ServerTypeOK, [ServerNext]_serverVars PROVE ServerTypeOK'
<1>0. /\ line \in Seq(Conns)
      /\ kind \in [Conns -> Kinds \union {"none"}]
      /\ conn \in [Conns -> Early \union {"check", "relay", "done"}]
      /\ answer \in [Conns -> {"none", "200", "400", "429", "500", "503", "broken", "cut"}]
      /\ client \in [Conns -> {"here", "gone"}]
      /\ held \subseteq Conns
      /\ channel \in [Conns -> Seq(Messages)]
      /\ produced \in [Conns -> Seq(Byte)] /\ sent \in [Conns -> Seq(Byte)]
      /\ pending \in [Conns -> Seq(Byte)]
  BY DEF ServerTypeOK
<1>u. CASE UNCHANGED serverVars
  BY <1>u DEF ServerTypeOK, serverVars, serveVars, ownerVars, engineVars, textVars
<1>1. ASSUME NEW c \in Conns, Connect(c) PROVE ServerTypeOK'
  <2>1. line' \in Seq(Conns) BY <1>0, <1>1 DEF Connect
  <2>2. conn' \in [Conns -> Early \union {"check", "relay", "done"}] BY <1>0, <1>1 DEF Connect, At, Early
  <2>3. kind' \in [Conns -> Kinds \union {"none"}]
    <3>1. Asked[c] \subseteq Kinds
      <4>1. Asked \in [Conns -> SUBSET Kinds] BY ServerAssumption, Zenon
      <4> QED BY <4>1
    <3>2. PICK k \in Asked[c] : kind' = [kind EXCEPT ![c] = k] BY <1>1, Zenon DEF Connect
    <3> QED BY <1>0, <3>1, <3>2
  <2> QED BY <1>1, <2>1, <2>2, <2>3 DEF Connect, ServerTypeOK, ownerVars, engineVars, textVars
<1>2. ASSUME NEW c \in Conns, Disconnect(c) PROVE ServerTypeOK'
  <2>1. client' \in [Conns -> {"here", "gone"}] BY <1>0, <1>2 DEF Disconnect
  <2> QED BY <1>2, <2>1 DEF Disconnect, ServerTypeOK, ownerVars, engineVars, textVars
<1>3. CASE Dispatch
  <2>1. Head(line) \in Conns /\ line' \in Seq(Conns) BY <1>0, <1>3 DEF Dispatch
  <2>2. conn' \in [Conns -> Early \union {"check", "relay", "done"}] BY <1>0, <1>3 DEF Dispatch, At, Early
  <2> QED BY <1>3, <2>1, <2>2 DEF Dispatch, ServerTypeOK, ownerVars, engineVars, textVars
<1>4. ASSUME NEW c \in Conns,
             \/ Probe(c) \/ Enter(c) \/ SubmitFlag(c) \/ SubmitDepth(c) \/ Overloaded(c)
             \/ CheckFatal(c) \/ Cut(c)
      PROVE  ServerTypeOK'
  <2>1. /\ \E w \in Early \union {"check", "relay", "done"} : conn' = [conn EXCEPT ![c] = w]
        /\ \/ answer' = answer
           \/ \E w \in {"200", "400", "429", "503", "cut"} : answer' = [answer EXCEPT ![c] = w]
        /\ UNCHANGED <<line, kind, client, ownerVars, engineVars, textVars>>
    BY <1>4 DEF Probe, Enter, SubmitFlag, SubmitDepth, Overloaded, CheckFatal, Cut, Answered, At, Early
  <2>2. conn' \in [Conns -> Early \union {"check", "relay", "done"}] BY <1>0, <2>1
  <2>3. answer' \in [Conns -> {"none", "200", "400", "429", "500", "503", "broken", "cut"}] BY <1>0, <2>1
  <2> QED BY <2>1, <2>2, <2>3 DEF ServerTypeOK, ownerVars, engineVars, textVars
<1>5. ASSUME NEW c \in Conns, SubmitPush(c) PROVE ServerTypeOK'
  <2>1. conn' \in [Conns -> Early \union {"check", "relay", "done"}] BY <1>0, <1>5 DEF SubmitPush, At
  <2>2. held' \subseteq Conns BY <1>0, <1>5 DEF SubmitPush
  <2> QED BY <1>5, <2>1, <2>2 DEF SubmitPush, ServerTypeOK, ownerVars, textVars
<1>6. ASSUME NEW c \in Conns, RelayPlain(c) \/ RelayToken(c) \/ RelayBroken(c) \/ RelayEnd(c)
      PROVE  ServerTypeOK'
  <2>0. /\ channel[c] \in Seq(Messages) /\ channel[c] # <<>>
        /\ channel' = [channel EXCEPT ![c] = Tail(channel[c])]
    BY <1>0, <1>6 DEF RelayPlain, RelayToken, RelayBroken, RelayEnd, Popped
  <2>1. channel' \in [Conns -> Seq(Messages)] BY <1>0, <2>0
  <2>2. Head(channel[c]) \in Messages BY <2>0
  <2>3. Head(channel[c]) # End => Head(channel[c]) \in Seq(Byte) BY <2>2, MessageTypes DEF Messages
  <2>4. /\ conn' = conn \/ conn' = [conn EXCEPT ![c] = "done"]
        /\ \/ answer' = answer
           \/ \E w \in {"200", "500", "broken"} : answer' = [answer EXCEPT ![c] = w]
        /\ UNCHANGED <<line, kind, client, ownerVars, held, produced>>
    BY <1>6 DEF RelayPlain, RelayToken, RelayBroken, RelayEnd, Answered, At, serveVars
  <2>5. conn' \in [Conns -> Early \union {"check", "relay", "done"}] BY <1>0, <2>4
  <2>6. answer' \in [Conns -> {"none", "200", "400", "429", "500", "503", "broken", "cut"}] BY <1>0, <2>4
  <2>7. sent' \in [Conns -> Seq(Byte)] /\ pending' \in [Conns -> Seq(Byte)]
    <3>1. CASE RelayPlain(c)
      <4>1. pending' = pending /\ (sent' = sent \/ (Head(channel[c]) # End /\ sent' = [sent EXCEPT ![c] = sent[c] \o Head(channel[c])]))
        BY <3>1 DEF RelayPlain
      <4>2. sent[c] \in Seq(Byte) BY <1>0
      <4>3. Head(channel[c]) # End => sent[c] \o Head(channel[c]) \in Seq(Byte) BY <2>3, <4>2
      <4> QED BY <1>0, <4>1, <4>3
    <3>2. CASE RelayToken(c)
      <4>1. PICK b : b = pending[c] \o Head(channel[c]) OBVIOUS
      <4>2. PICK v : v = Complete(b) OBVIOUS
      <4>3. /\ sent' = [sent EXCEPT ![c] = sent[c] \o SubSeq(b, 1, v)]
            /\ pending' = [pending EXCEPT ![c] = SubSeq(b, v + 1, Len(b))]
            /\ Head(channel[c]) # End
        BY <3>2, <4>1, <4>2 DEF RelayToken
      <4>4. b \in Seq(Byte) BY <1>0, <2>3, <4>1, <4>3
      <4>5. v \in 0..Len(b) BY <4>2, <4>4, CompleteRange
      <4>6. SubSeq(b, 1, v) \in Seq(Byte) /\ SubSeq(b, v + 1, Len(b)) \in Seq(Byte) BY <4>4, <4>5
      <4>7. sent[c] \o SubSeq(b, 1, v) \in Seq(Byte) BY <1>0, <4>6
      <4> QED BY <1>0, <4>3, <4>6, <4>7
    <3>3. CASE RelayBroken(c) BY <1>0, <3>3 DEF RelayBroken, textVars
    <3>4. CASE RelayEnd(c) BY <1>0, <3>4 DEF RelayEnd
    <3> QED BY <1>6, <3>1, <3>2, <3>3, <3>4
  <2> QED BY <2>1, <2>4, <2>5, <2>6, <2>7 DEF ServerTypeOK, ownerVars
<1>7. ASSUME NEW c \in Conns, EmitToken(c) PROVE ServerTypeOK'
  <2>1. PICK p \in Pieces : /\ produced' = [produced EXCEPT ![c] = produced[c] \o p]
                            /\ channel' = [channel EXCEPT ![c] = Append(channel[c], p)]
    BY <1>7 DEF EmitToken, Delivered
  <2>2. p \in Seq(Byte) /\ p \in Messages BY <2>1, MessageTypes DEF Messages
  <2>3. produced' \in [Conns -> Seq(Byte)]
    <3>1. produced[c] \o p \in Seq(Byte) BY <1>0, <2>2
    <3> QED BY <1>0, <2>1, <3>1
  <2>4. channel' \in [Conns -> Seq(Messages)]
    <3>1. Append(channel[c], p) \in Seq(Messages) BY <1>0, <2>2
    <3> QED BY <1>0, <2>1, <3>1
  <2> QED BY <1>7, <2>3, <2>4 DEF EmitToken, ServerTypeOK, serveVars, ownerVars, textVars
<1>8. ASSUME NEW c \in Conns, EndRequest(c) PROVE ServerTypeOK'
  <2>1. channel' = [channel EXCEPT ![c] = Append(channel[c], End)] BY <1>8 DEF EndRequest, Delivered
  <2>2. Append(channel[c], End) \in Seq(Messages) BY <1>0 DEF Messages
  <2>3. channel' \in [Conns -> Seq(Messages)] BY <1>0, <2>1, <2>2
  <2>4. held' \subseteq Conns BY <1>0, <1>8 DEF EndRequest
  <2> QED BY <1>8, <2>3, <2>4 DEF EndRequest, ServerTypeOK, serveVars, ownerVars, textVars
<1>9. CASE BackendThrows
  <2>1. PICK released \in SUBSET held :
           /\ held' = held \ released
           /\ channel' = [c \in Conns |-> IF c \in released THEN Append(channel[c], End) ELSE channel[c]]
    BY <1>9 DEF BackendThrows
  <2>2. \A c \in Conns : Append(channel[c], End) \in Seq(Messages) /\ channel[c] \in Seq(Messages)
    BY <1>0 DEF Messages
  <2>3. channel' \in [Conns -> Seq(Messages)] BY <2>1, <2>2
  <2>4. held' \subseteq Conns BY <1>0, <2>1
  <2> QED BY <1>9, <2>3, <2>4 DEF BackendThrows, ServerTypeOK, serveVars, textVars
<1>10. CASE DrainedEngine \/ StopAccepting \/ Drainer
  BY <1>10 DEF DrainedEngine, StopAccepting, Drainer, BeginDrain, StopServer, ServerTypeOK, serveVars,
     engineVars, textVars
<1> QED BY <1>u, <1>1, <1>2, <1>3, <1>4, <1>5, <1>6, <1>7, <1>8, <1>9, <1>10 DEF ServerNext, Handle

\* A step of one connection leaves the others alone.
LEMMA Elsewhere ==
    ASSUME ServerTypeOK, NEW c \in Conns, NEW d \in Conns, d # c,
           Connect(c) \/ Disconnect(c) \/ Handle(c) \/ Cut(c) \/ EmitToken(c) \/ EndRequest(c)
    PROVE  Same(d)
<1>0. /\ kind \in [Conns -> Kinds \union {"none"}]
      /\ conn \in [Conns -> Early \union {"check", "relay", "done"}]
      /\ answer \in [Conns -> {"none", "200", "400", "429", "500", "503", "broken", "cut"}]
      /\ channel \in [Conns -> Seq(Messages)]
      /\ produced \in [Conns -> Seq(Byte)] /\ sent \in [Conns -> Seq(Byte)]
      /\ pending \in [Conns -> Seq(Byte)]
  BY DEF ServerTypeOK
<1>1. CASE Connect(c) BY <1>0, <1>1 DEF Connect, At, Same, engineVars, textVars
<1>2. CASE Disconnect(c) BY <1>2 DEF Disconnect, Same, engineVars, textVars
<1>3. CASE Probe(c) \/ Enter(c) \/ SubmitFlag(c) \/ SubmitDepth(c) \/ Overloaded(c) \/ CheckFatal(c) \/ Cut(c)
  <2>1. /\ \E w : conn' = [conn EXCEPT ![c] = w]
        /\ answer' = answer \/ \E w : answer' = [answer EXCEPT ![c] = w]
        /\ UNCHANGED <<kind, engineVars, textVars>>
    BY <1>3 DEF Probe, Enter, SubmitFlag, SubmitDepth, Overloaded, CheckFatal, Cut, Answered, At
  <2> QED BY <1>0, <2>1 DEF Same, engineVars, textVars
<1>4. CASE SubmitPush(c) BY <1>0, <1>4 DEF SubmitPush, At, Same, textVars
<1>5. CASE RelayPlain(c) \/ RelayToken(c) \/ RelayBroken(c) \/ RelayEnd(c)
  <2>1. /\ conn' = conn \/ \E w : conn' = [conn EXCEPT ![c] = w]
        /\ answer' = answer \/ \E w : answer' = [answer EXCEPT ![c] = w]
        /\ \E w : channel' = [channel EXCEPT ![c] = w]
        /\ UNCHANGED <<kind, held, produced>>
    BY <1>5 DEF RelayPlain, RelayToken, RelayBroken, RelayEnd, Popped, Answered, At, serveVars
  <2>2. /\ sent' = sent \/ \E w : sent' = [sent EXCEPT ![c] = w]
        /\ pending' = pending \/ \E w : pending' = [pending EXCEPT ![c] = w]
    BY <1>5 DEF RelayPlain, RelayToken, RelayBroken, RelayEnd, textVars
  <2> QED BY <1>0, <2>1, <2>2 DEF Same
<1>6. CASE EmitToken(c)
  <2>1. /\ \E w : produced' = [produced EXCEPT ![c] = w]
        /\ \E w : channel' = [channel EXCEPT ![c] = w]
        /\ UNCHANGED <<serveVars, held, textVars>>
    BY <1>6 DEF EmitToken, Delivered
  <2> QED BY <1>0, <2>1 DEF Same, serveVars, textVars
<1>7. CASE EndRequest(c)
  <2>1. /\ \E w : channel' = [channel EXCEPT ![c] = w]
        /\ held' = held \ {c}
        /\ UNCHANGED <<serveVars, produced, textVars>>
    BY <1>7 DEF EndRequest, Delivered
  <2> QED BY <1>0, <2>1 DEF Same, serveVars, textVars
<1> QED BY <1>1, <1>2, <1>3, <1>4, <1>5, <1>6, <1>7 DEF Handle

\* Up to the hand-over there is nothing to relay, and a refusal is no complete answer.
LEMMA EarlyKeeps ==
    ASSUME NEW c \in Conns, ConnInv(c), conn[c] \in Early,
           \/ conn'[c] \in Early /\ answer'[c] = answer[c]
           \/ conn'[c] = "done" /\ (answer'[c] # "200" \/ kind'[c] = "probe"),
           channel'[c] = channel[c], produced'[c] = produced[c],
           sent'[c] = sent[c], pending'[c] = pending[c], held' = held
    PROVE  ConnInv(c)'
<1>1. Text(produced[c])' BY DEF ConnInv, Text
<1>2. LastMessage(c)' BY DEF ConnInv, LastMessage
<1>3. Fresh(c)' BY DEF ConnInv, Fresh, Early
<1>4. Relayed(c)' BY DEF Relayed, Early
<1>5. Finished(c)' BY DEF ConnInv, Fresh, Finished
<1> QED BY <1>1, <1>2, <1>3, <1>4, <1>5 DEF ConnInv

\* Such a step keeps the connection's invariant.
LEMMA EarlySteps ==
    ASSUME ServerTypeOK, InLine, NEW c \in Conns, ConnInv(c),
           \/ Connect(c) \/ Probe(c) \/ Enter(c) \/ SubmitFlag(c) \/ SubmitDepth(c) \/ Overloaded(c)
           \/ Dispatch /\ c = Head(line)
    PROVE  ConnInv(c)'
<1>0. /\ conn \in [Conns -> Early \union {"check", "relay", "done"}]
      /\ answer \in [Conns -> {"none", "200", "400", "429", "500", "503", "broken", "cut"}]
      /\ kind \in [Conns -> Kinds \union {"none"}]
      /\ line \in Seq(Conns)
  BY DEF ServerTypeOK
<1>1. conn[c] \in Early
  <2>1. CASE Dispatch /\ c = Head(line)
    <3>1. line # <<>> BY <2>1 DEF Dispatch
    <3>2. 1 \in 1..Len(line) /\ line[1] = c BY <1>0, <2>1, <3>1
    <3>3. conn[line[1]] = "line" BY <3>2 DEF InLine
    <3> QED BY <3>2, <3>3 DEF Early
  <2> QED BY <2>1 DEF Connect, Probe, Enter, SubmitFlag, SubmitDepth, Overloaded, Early
<1>2. \/ conn'[c] \in Early /\ answer'[c] = answer[c]
      \/ conn'[c] = "done" /\ (answer'[c] # "200" \/ kind'[c] = "probe")
  <2>1. CASE Connect(c) BY <1>0, <2>1 DEF Connect, At, Early
  <2>2. CASE Probe(c) BY <1>0, <2>2 DEF Probe, Answered, At
  <2>3. CASE Enter(c) BY <1>0, <2>3 DEF Enter, Answered, At, Early
  <2>4. CASE SubmitFlag(c) BY <1>0, <2>4 DEF SubmitFlag, Answered, At, Early
  <2>5. CASE SubmitDepth(c) BY <1>0, <2>5 DEF SubmitDepth, Answered, At, Early
  <2>6. CASE Overloaded(c) BY <1>0, <2>6 DEF Overloaded, Answered, At
  <2>7. CASE Dispatch /\ c = Head(line) BY <1>0, <2>7 DEF Dispatch, At, Early
  <2> QED BY <2>1, <2>2, <2>3, <2>4, <2>5, <2>6, <2>7
<1>3. UNCHANGED <<engineVars, textVars>>
  BY DEF Connect, Probe, Enter, SubmitFlag, SubmitDepth, Overloaded, Dispatch
<1> QED BY <1>1, <1>2, <1>3, EarlyKeeps DEF engineVars, textVars

\* The hand-over: nothing is produced yet.
LEMMA PushKeeps == ASSUME ServerTypeOK, NEW c \in Conns, ConnInv(c), SubmitPush(c) PROVE ConnInv(c)'
<1>0. conn \in [Conns -> Early \union {"check", "relay", "done"}] BY DEF ServerTypeOK
<1>1. /\ conn[c] = "push" /\ conn'[c] = "check"
      /\ UNCHANGED <<kind, answer, channel, produced, pending, sent>>
  BY <1>0 DEF SubmitPush, At, textVars
<1>2. /\ answer[c] = "none" /\ channel[c] = <<>>
      /\ produced[c] = <<>> /\ sent[c] = <<>> /\ pending[c] = <<>>
  BY <1>1 DEF ConnInv, Fresh, Early
<1>3. Text(produced[c])' BY <1>1, <1>2 DEF ConnInv, Text
<1>4. LastMessage(c)' BY <1>1, <1>2 DEF LastMessage
<1>5. Fresh(c)' BY <1>1 DEF Fresh, Early
<1>6. Relayed(c)'
  <2>1. (<<>> \o <<>>) \o <<>> = <<>> OBVIOUS
  <2>2. Whole(<<>>) /\ Len(<<>>) <= 3 BY DEF Whole, Text
  <2>3. sent'[c] = <<>> /\ pending'[c] = <<>> /\ channel'[c] = <<>> /\ produced'[c] = <<>> /\ answer'[c] = "none"
    BY <1>1, <1>2
  <2>4. (sent'[c] \o pending'[c]) \o Joined(channel'[c]) = produced'[c] BY <2>1, <2>3, JoinNone
  <2> QED BY <2>2, <2>3, <2>4 DEF Relayed
<1>7. Finished(c)' BY <1>1, <1>2 DEF Finished
<1> QED BY <1>3, <1>4, <1>5, <1>6, <1>7 DEF ConnInv

\* A submission found dead, or a stream that is cut, is no complete answer.
LEMMA GiveUpKeeps ==
    ASSUME ServerTypeOK, NEW c \in Conns, ConnInv(c), CheckFatal(c) \/ Cut(c)
    PROVE  ConnInv(c)'
<1>0. /\ conn \in [Conns -> Early \union {"check", "relay", "done"}]
      /\ answer \in [Conns -> {"none", "200", "400", "429", "500", "503", "broken", "cut"}]
  BY DEF ServerTypeOK
<1>1. /\ conn[c] \in {"check", "relay"}
      /\ \/ conn'[c] = "relay" /\ answer'[c] = answer[c]
         \/ conn'[c] = "done" /\ answer'[c] # "200"
      /\ UNCHANGED <<kind, held, channel, produced, pending, sent>>
  BY <1>0 DEF CheckFatal, Cut, Answered, At, engineVars, textVars
<1>2. Text(produced[c])' BY <1>1 DEF ConnInv, Text
<1>3. LastMessage(c)' BY <1>1 DEF ConnInv, LastMessage
<1>4. Fresh(c)' BY <1>1 DEF Fresh, Early
<1>5. Relayed(c)'
  <2>1. Relayed(c) BY DEF ConnInv
  <2>2. Streams(c)' <=> Streams(c) BY <1>1 DEF Streams
  <2>3. Whole(sent[c])' <=> Whole(sent[c]) BY <1>1 DEF Whole, Text
  <2>4. Joined(channel[c])' = Joined(channel[c]) BY <1>1
  <2> QED BY <1>1, <2>1, <2>2, <2>3, <2>4 DEF Relayed
<1>6. Finished(c)' BY <1>1 DEF ConnInv, Relayed, Finished
<1> QED BY <1>2, <1>3, <1>4, <1>5, <1>6 DEF ConnInv

\* A text that is cut off anywhere is a text.
LEMMA TextPrefix == ASSUME NEW a \in Seq(Byte), NEW b \in Seq(Byte), Text(a \o b) PROVE Text(a)
<1>0. /\ Len(a) \in Nat /\ Len(b) \in Nat /\ Len(a \o b) = Len(a) + Len(b)
      /\ \A i \in 1..Len(a) : (a \o b)[i] = a[i]
  OBVIOUS
<1> DEFINE t == a \o b
<1>1. /\ Text(t) /\ Len(t) = Len(a) + Len(b) /\ \A i \in 1..Len(a) : t[i] = a[i]
  BY <1>0
<1> HIDE DEF t
<1> SUFFICES ASSUME NEW i \in 1..Len(a)
             PROVE  /\ a[i] = 0 => \E j \in 1..i - 1 : a[j] > i - j
                    /\ a[i] # 0 => \A j \in 1..i - 1 : a[j] <= i - j
  BY DEF Text
<1>2. i \in 1..Len(t) /\ \A j \in 1..i - 1 : j \in 1..Len(a) BY <1>0, <1>1
<1>3. /\ t[i] = 0 => \E j \in 1..i - 1 : t[j] > i - j
      /\ t[i] # 0 => \A j \in 1..i - 1 : t[j] <= i - j
  BY <1>1, <1>2 DEF Text
<1>4. t[i] = a[i] /\ \A j \in 1..i - 1 : t[j] = a[j] BY <1>1, <1>2
<1> QED BY <1>3, <1>4

\* Whole characters end at a boundary.
LEMMA WholeEnds == ASSUME NEW a \in Seq(Byte), NEW b \in Seq(Byte), Whole(a) PROVE Boundary(a \o b, Len(a))
<1>0. Len(a) \in Nat /\ \A i \in 1..Len(a) : (a \o b)[i] = a[i] /\ a[i] \in 0..4 BY DEF Byte
<1>1. \A i \in 1..Len(a) : i + a[i] - 1 <= Len(a) BY DEF Whole
<1> SUFFICES ASSUME NEW i \in 1..Len(a) PROVE (i + (a \o b)[i]) - 1 <= Len(a) BY DEF Boundary
<1>2. PICK x \in 0..4 : x = a[i] /\ (a \o b)[i] = x BY <1>0
<1>3. i + x - 1 <= Len(a) BY <1>1, <1>2
<1> QED BY <1>0, <1>2, <1>3

\* A text up to a boundary is whole characters.
LEMMA BoundaryWhole ==
    ASSUME NEW a \in Seq(Byte), NEW b \in Seq(Byte), Text(a \o b), Boundary(a \o b, Len(a))
    PROVE  Whole(a)
<1>0. Len(a) \in Nat /\ \A i \in 1..Len(a) : (a \o b)[i] = a[i] /\ a[i] \in 0..4 BY DEF Byte
<1>1. Text(a) BY TextPrefix
<1>2. ASSUME NEW i \in 1..Len(a) PROVE i + a[i] - 1 <= Len(a)
  <2>1. (i + (a \o b)[i]) - 1 <= Len(a) BY DEF Boundary
  <2>2. PICK x \in 0..4 : x = a[i] /\ (a \o b)[i] = x BY <1>0
  <2>3. (i + x) - 1 <= Len(a) BY <2>1, <2>2
  <2>4. i + x - 1 <= Len(a) BY <1>0, <2>2, <2>3
  <2> QED BY <2>2, <2>4
<1> QED BY <1>1, <1>2 DEF Whole

\* What push() gives out and what it keeps make up what it had.
LEMMA PushSplits ==
    ASSUME NEW u \in Seq(Byte), NEW b \in Seq(Byte), Text(u \o b), Whole(u), NEW v, v = Complete(b)
    PROVE  /\ u \o SubSeq(b, 1, v) \in Seq(Byte) /\ SubSeq(b, v + 1, Len(b)) \in Seq(Byte)
           /\ (u \o SubSeq(b, 1, v)) \o SubSeq(b, v + 1, Len(b)) = u \o b
           /\ Whole(u \o SubSeq(b, 1, v)) /\ Len(SubSeq(b, v + 1, Len(b))) <= 3
<1>0. Len(b) \in Nat /\ Len(u) \in Nat /\ Seq(Byte) \subseteq Seq(Int) BY MessageTypes
<1>1. Boundary(u \o b, Len(u)) BY WholeEnds
<1>2. v \in 0..Len(b) /\ Len(b) - v <= 3 /\ Boundary(u \o b, Len(u) + v) BY <1>1, CompleteSplits
<1> DEFINE x == SubSeq(b, 1, v)
           y == SubSeq(b, v + 1, Len(b))
<1>3. x \in Seq(Byte) /\ y \in Seq(Byte) /\ Len(x) = v /\ Len(y) = Len(b) - v
  <2>1. PICK k \in 0..Len(b) : k = v BY <1>2
  <2>2. /\ SubSeq(b, 1, k) \in Seq(Byte) /\ SubSeq(b, k + 1, Len(b)) \in Seq(Byte)
        /\ Len(SubSeq(b, 1, k)) = k /\ Len(SubSeq(b, k + 1, Len(b))) = Len(b) - k
    BY <1>0
  <2> QED BY <2>1, <2>2
<1>4. x \o y = b
  <2>1. 1 \in 1..Len(b) + 1 /\ v \in 1 - 1..Len(b) /\ Len(b) \in v..Len(b) BY <1>0, <1>2
  <2>2. x \o y = SubSeq(b, 1, Len(b)) BY <2>1, ConcatAdjacentSubSeq
  <2>3. SubSeq(b, 1, Len(b)) = b
    <3>1. PICK z : z = SubSeq(b, 1, Len(b)) OBVIOUS
    <3>2. z \in Seq(Byte) /\ Len(z) = Len(b) /\ \A i \in 1..Len(z) : z[i] = b[i] BY <1>0, <3>1
    <3>3. z = b BY <3>2, SeqEqual
    <3> QED BY <3>1, <3>3
  <2> QED BY <2>2, <2>3
<1> HIDE DEF x, y
<1>5. (u \o x) \o y = u \o b BY <1>0, <1>3, <1>4, Associative
<1>6. u \o x \in Seq(Byte) /\ Len(u \o x) = Len(u) + v BY <1>0, <1>3, ConcatProperties
<1>7. Whole(u \o x)
  <2>1. PICK a : a = u \o x OBVIOUS
  <2>2. Text(a \o y) /\ Boundary(a \o y, Len(a)) BY <1>2, <1>5, <1>6, <2>1
  <2>3. Whole(a) BY <1>3, <1>6, <2>1, <2>2, BoundaryWhole
  <2> QED BY <2>1, <2>3
<1>8. Len(y) <= 3 BY <1>2, <1>3
<1> QED BY <1>3, <1>5, <1>6, <1>7, <1>8 DEF x, y

\* What is left behind a popped message.
LEMMA PoppedIs ==
    ASSUME ServerTypeOK, NEW c \in Conns, LastMessage(c), channel[c] # <<>>, held' = held,
           channel' = [channel EXCEPT ![c] = Tail(channel[c])]
    PROVE  /\ LastMessage(c)' /\ channel'[c] = Tail(channel[c])
           /\ Head(channel[c]) # End =>
                /\ Head(channel[c]) \in Seq(Byte) /\ Joined(channel'[c]) \in Seq(Int)
                /\ Joined(channel[c]) = Head(channel[c]) \o Joined(channel'[c])
           /\ Head(channel[c]) = End => Joined(channel[c]) = <<>> /\ c \notin held
<1> DEFINE q == channel[c]
<1>0. channel \in [Conns -> Seq(Messages)] BY DEF ServerTypeOK
<1>1. q \in Seq(Messages) /\ channel'[c] = Tail(q) BY <1>0
<1>2. \A k \in 1..Len(q) : q[k] = End => k = Len(q) /\ c \notin held BY DEF LastMessage
<1>3. q # <<>> OBVIOUS
<1> HIDE DEF q
<1>4. /\ Head(q) \in Messages /\ Head(q) = q[1] /\ Len(q) \in Nat \ {0} /\ Len(Tail(q)) = Len(q) - 1
      /\ \A k \in 1..Len(Tail(q)) : Tail(q)[k] = q[k + 1]
  BY <1>1, <1>3
<1>5. LastMessage(c)'
  <2> SUFFICES ASSUME NEW k \in 1..Len(Tail(q)), Tail(q)[k] = End
               PROVE  k = Len(Tail(q)) /\ c \notin held
    BY <1>1 DEF LastMessage
  <2>1. k + 1 \in 1..Len(q) /\ q[k + 1] = End BY <1>4
  <2>2. k + 1 = Len(q) /\ c \notin held BY <1>2, <2>1
  <2>3. k = Len(Tail(q))
    <3>1. PICK n \in Nat : n = Len(q) /\ Len(Tail(q)) = n - 1 BY <1>4
    <3>2. k \in Int /\ k + 1 = n BY <2>2, <3>1
    <3>3. k = n - 1 BY <3>2
    <3> QED BY <3>1, <3>3, Zenon
  <2> QED BY <2>2, <2>3, Zenon
<1>6. /\ Joined(q) = Plus(<<>>, Head(q)) \o Joined(Tail(q))
      /\ Plus(<<>>, Head(q)) \in Seq(Int) /\ Joined(Tail(q)) \in Seq(Int)
  BY <1>1, <1>3, MessageTypes, JoinTail
<1>7. ASSUME Head(q) # End
      PROVE  Head(q) \in Seq(Byte) /\ Joined(q) = Head(q) \o Joined(Tail(q))
  <2>1. Head(q) \in Seq(Byte) BY <1>4, <1>7, MessageTypes DEF Messages
  <2>2. Plus(<<>>, Head(q)) = Head(q)
    <3>1. <<>> \o Head(q) = Head(q) BY <2>1
    <3> QED BY <1>7, <3>1 DEF Plus
  <2> QED BY <1>6, <2>1, <2>2
<1>8. ASSUME Head(q) = End PROVE Joined(q) = <<>> /\ c \notin held
  <2>0. 1 \in 1..Len(q) /\ q[1] = End BY <1>4, <1>8
  <2>1. 1 = Len(q) /\ c \notin held BY <1>2, <2>0, Zenon
  <2>2. Tail(q) = <<>>
    <3>1. Tail(q) \in Seq(Messages) /\ Len(Tail(q)) = 0 BY <1>1, <1>3, <1>4, <2>1
    <3> QED BY <3>1, EmptySeq
  <2>3. Plus(<<>>, Head(q)) = <<>> BY <1>8 DEF Plus
  <2>4. <<>> \o <<>> = <<>> OBVIOUS
  <2> QED BY <1>6, <2>1, <2>2, <2>3, <2>4, JoinNone
<1> QED BY <1>1, <1>5, <1>6, <1>7, <1>8 DEF q

\* The sequences a popped message goes through.
LEMMA RelayTypes ==
    ASSUME ServerTypeOK, NEW c \in Conns
    PROVE  /\ sent[c] \in Seq(Byte) /\ pending[c] \in Seq(Byte) /\ produced[c] \in Seq(Byte)
           /\ channel[c] \in Seq(Messages) /\ sent[c] \o pending[c] \in Seq(Byte)
<1>1. sent[c] \in Seq(Byte) /\ pending[c] \in Seq(Byte) /\ produced[c] \in Seq(Byte) /\ channel[c] \in Seq(Messages)
  BY DEF ServerTypeOK
<1> QED BY <1>1, ConcatProperties

\* An answer that is not streamed.
LEMMA PlainKeeps == ASSUME ServerTypeOK, NEW c \in Conns, ConnInv(c), RelayPlain(c) PROVE ConnInv(c)'
<1>0. /\ conn \in [Conns -> Early \union {"check", "relay", "done"}]
      /\ answer \in [Conns -> {"none", "200", "400", "429", "500", "503", "broken", "cut"}]
      /\ sent \in [Conns -> Seq(Byte)]
  BY DEF ServerTypeOK
<1>1. /\ conn[c] = "relay" /\ channel[c] # <<>> /\ ~Streams(c)
      /\ channel' = [channel EXCEPT ![c] = Tail(channel[c])]
      /\ UNCHANGED <<kind, held, produced, pending>>
      /\ Head(channel[c]) = End => UNCHANGED sent /\ conn'[c] = "done"
      /\ Head(channel[c]) # End =>
            conn' = conn /\ answer' = answer /\ sent'[c] = sent[c] \o Head(channel[c])
  BY <1>0 DEF RelayPlain, Popped, Answered, At
<1>2. LastMessage(c) /\ Relayed(c) /\ Text(produced[c]) BY DEF ConnInv
<1>3. /\ LastMessage(c)' /\ channel'[c] = Tail(channel[c])
      /\ Head(channel[c]) # End =>
           /\ Head(channel[c]) \in Seq(Byte) /\ Joined(channel'[c]) \in Seq(Int)
           /\ Joined(channel[c]) = Head(channel[c]) \o Joined(channel'[c])
      /\ Head(channel[c]) = End => Joined(channel[c]) = <<>> /\ c \notin held
  BY <1>1, <1>2, PoppedIs
<1>4. /\ (sent[c] \o pending[c]) \o Joined(channel[c]) = produced[c]
      /\ pending[c] = <<>> /\ answer[c] = "none"
  BY <1>1, <1>2 DEF Relayed
<1>5. sent[c] \in Seq(Byte) /\ sent[c] \o <<>> = sent[c] /\ Seq(Byte) \subseteq Seq(Int)
  BY RelayTypes, ConcatEmptySeq, MessageTypes
<1>6. sent[c] \o Joined(channel[c]) = produced[c] BY <1>4, <1>5
<1>7. Text(produced[c])' BY <1>1, <1>2 DEF Text
<1>8. CASE Head(channel[c]) = End
  <2>1. sent[c] = produced[c] /\ c \notin held BY <1>3, <1>5, <1>6, <1>8
  <2>2. Fresh(c)' BY <1>1, <1>8 DEF Fresh, Early
  <2>3. Relayed(c)' BY <1>1, <1>8 DEF Relayed
  <2>4. Finished(c)' BY <1>1, <1>8, <2>1 DEF Finished
  <2> QED BY <1>3, <1>7, <2>2, <2>3, <2>4 DEF ConnInv
<1>9. CASE Head(channel[c]) # End
  <2>1. Fresh(c)' BY <1>1, <1>9 DEF Fresh, Early
  <2>2. Finished(c)' BY <1>1, <1>4, <1>9 DEF Finished
  <2>3. Relayed(c)'
    <3>1. PICK m \in Seq(Byte) : m = Head(channel[c]) BY <1>3, <1>9
    <3>2. PICK r \in Seq(Int) : r = Joined(channel'[c]) BY <1>3, <1>9
    <3>3. sent[c] \o (m \o r) = produced[c] BY <1>3, <1>6, <1>9, <3>1, <3>2
    <3>4. (sent[c] \o m) \o r = produced[c] BY <1>5, <3>3, Associative
    <3>5. sent'[c] = sent[c] \o m /\ sent'[c] \in Seq(Byte) BY <1>1, <1>5, <1>9, <3>1, ConcatProperties
    <3>6. sent'[c] \o <<>> = sent'[c] BY <3>5, ConcatEmptySeq
    <3>7. (sent'[c] \o pending'[c]) \o Joined(channel'[c]) = produced'[c] BY <1>1, <1>4, <3>2, <3>4, <3>5, <3>6
    <3>8. ~Streams(c)' BY <1>1 DEF Streams
    <3>9. pending'[c] = <<>> /\ answer'[c] = "none" BY <1>1, <1>4, <1>9
    <3> QED BY <3>7, <3>8, <3>9 DEF Relayed
  <2> QED BY <1>3, <1>7, <2>1, <2>2, <2>3 DEF ConnInv
<1> QED BY <1>8, <1>9

\* A token of a stream: no byte is lost, and only whole characters go out.
LEMMA TokenKeeps == ASSUME ServerTypeOK, NEW c \in Conns, ConnInv(c), RelayToken(c) PROVE ConnInv(c)'
<1>0. sent \in [Conns -> Seq(Byte)] /\ pending \in [Conns -> Seq(Byte)] BY DEF ServerTypeOK
<1>1. PICK m : m = Head(channel[c]) OBVIOUS
<1>2. PICK b : b = pending[c] \o m OBVIOUS
<1>3. PICK v : v = Complete(b) OBVIOUS
<1>4. /\ conn[c] = "relay" /\ channel[c] # <<>> /\ Streams(c) /\ m # End
      /\ channel' = [channel EXCEPT ![c] = Tail(channel[c])]
      /\ sent'[c] = sent[c] \o SubSeq(b, 1, v)
      /\ pending'[c] = SubSeq(b, v + 1, Len(b))
      /\ UNCHANGED <<kind, conn, answer, held, produced>>
  BY <1>0, <1>1, <1>2, <1>3 DEF RelayToken, Popped, serveVars
<1>5. LastMessage(c) /\ Relayed(c) /\ Text(produced[c]) BY DEF ConnInv
<1>6. /\ LastMessage(c)' /\ m \in Seq(Byte) /\ Joined(channel'[c]) \in Seq(Int)
      /\ Joined(channel[c]) = m \o Joined(channel'[c])
  BY <1>1, <1>4, <1>5, PoppedIs
<1>7. /\ (sent[c] \o pending[c]) \o Joined(channel[c]) = produced[c]
      /\ Whole(sent[c]) /\ answer[c] = "none"
  BY <1>4, <1>5 DEF Relayed
<1>8. PICK s \in Seq(Byte) : s = sent[c] BY RelayTypes
<1>9. PICK p \in Seq(Byte) : p = pending[c] BY RelayTypes
<1>10. PICK r \in Seq(Int) : r = Joined(channel'[c]) BY <1>6
<1>11. Seq(Byte) \subseteq Seq(Int) BY MessageTypes
<1>12. b \in Seq(Byte) /\ s \o b \in Seq(Byte) /\ s \o p \in Seq(Byte) BY <1>2, <1>6, <1>9, ConcatProperties
<1>13. (s \o p) \o (m \o r) = produced[c] BY <1>6, <1>7, <1>8, <1>9, <1>10
<1>14. (s \o b) \o r = produced[c]
  <2>1. (s \o p) \o (m \o r) = ((s \o p) \o m) \o r
    <3>1. PICK a \in Seq(Int) : a = s \o p BY <1>11, <1>12
    <3>2. m \in Seq(Int) BY <1>6, <1>11
    <3>3. (a \o m) \o r = a \o (m \o r) BY <3>2, Associative, Zenon
    <3> QED BY <3>1, <3>3, Zenon
  <2>2. (s \o p) \o m = s \o b BY <1>2, <1>6, <1>9, <1>11, Associative, ZenonT(40)
  <2> QED BY <1>13, <2>1, <2>2
<1>15. Text(s \o b)
  <2>1. r \in Seq(Byte)
    <3>1. PICK t \in Seq(Byte) : t = produced[c] BY RelayTypes
    <3>2. PICK a \in Seq(Byte) : a = s \o b BY <1>12
    <3>3. a \o r = t BY <1>14, <3>1, <3>2
    <3>4. \A i \in 1..Len(r) : r[i] \in Byte
      <4> SUFFICES ASSUME NEW i \in 1..Len(r) PROVE r[i] \in Byte OBVIOUS
      <4>1. a \in Seq(Int) /\ Len(a) \in Nat /\ Len(r) \in Nat BY <1>11, <3>2
      <4>2. Len(t) = Len(a) + Len(r) /\ Len(a) + i \in 1..Len(t) BY <3>3, <4>1
      <4>3. t[Len(a) + i] = r[i]
        <5>1. (a \o r)[Len(a) + i] = r[i]
          <6>1. PICK k \in Int : k = Len(a) + i BY <4>1
          <6>2. k \in 1..Len(a) + Len(r) /\ ~(k <= Len(a)) /\ k - Len(a) = i BY <4>1, <6>1
          <6>3. (a \o r)[k] = r[k - Len(a)] BY <4>1, <6>2, ConcatProperties
          <6> QED BY <6>1, <6>2, <6>3
        <5> QED BY <3>3, <5>1
      <4>4. t[Len(a) + i] \in Byte BY <3>1, <4>2
      <4> QED BY <4>3, <4>4
    <3>5. r = [i \in 1..Len(r) |-> r[i]] /\ Len(r) \in Nat OBVIOUS
    <3> QED BY <3>4, <3>5
  <2>2. Text((s \o b) \o r) BY <1>5, <1>14
  <2> QED BY <1>12, <2>1, <2>2, TextPrefix
<1>16. /\ s \o SubSeq(b, 1, v) \in Seq(Byte) /\ SubSeq(b, v + 1, Len(b)) \in Seq(Byte)
       /\ (s \o SubSeq(b, 1, v)) \o SubSeq(b, v + 1, Len(b)) = s \o b
       /\ Whole(s \o SubSeq(b, 1, v)) /\ Len(SubSeq(b, v + 1, Len(b))) <= 3
  BY <1>3, <1>7, <1>8, <1>12, <1>15, PushSplits, ZenonT(40)
<1>17. Relayed(c)'
  <2>1. sent'[c] \o pending'[c] = s \o b BY <1>4, <1>8, <1>16
  <2>2. (sent'[c] \o pending'[c]) \o Joined(channel'[c]) = produced'[c] BY <1>4, <1>10, <1>14, <2>1
  <2>3. Whole(sent'[c]) /\ Len(pending'[c]) <= 3 BY <1>4, <1>8, <1>16
  <2>4. Streams(c)' /\ answer'[c] = "none" BY <1>4, <1>7 DEF Streams
  <2>5. Whole(sent[c])' BY <2>3 DEF Whole, Text
  <2> QED BY <2>2, <2>3, <2>4, <2>5 DEF Relayed
<1>18. Text(produced[c])' BY <1>4, <1>5 DEF Text
<1>19. Fresh(c)' BY <1>4 DEF Fresh, Early
<1>20. Finished(c)' BY <1>4, <1>7 DEF Finished
<1> QED BY <1>6, <1>17, <1>18, <1>19, <1>20 DEF ConnInv

\* A chunk that cannot be written ends an answer that is not complete.
LEMMA BrokenKeeps == ASSUME ServerTypeOK, NEW c \in Conns, ConnInv(c), RelayBroken(c) PROVE ConnInv(c)'
<1>0. /\ conn \in [Conns -> Early \union {"check", "relay", "done"}]
      /\ answer \in [Conns -> {"none", "200", "400", "429", "500", "503", "broken", "cut"}]
  BY DEF ServerTypeOK
<1>1. /\ channel[c] # <<>> /\ channel' = [channel EXCEPT ![c] = Tail(channel[c])]
      /\ conn'[c] = "done" /\ answer'[c] = "broken"
      /\ UNCHANGED <<kind, held, produced>>
  BY <1>0 DEF RelayBroken, Popped, Answered, At
<1>2. LastMessage(c)' BY <1>1, PoppedIs DEF ConnInv
<1>3. Text(produced[c])' BY <1>1 DEF ConnInv, Text
<1>4. Fresh(c)' /\ Relayed(c)' /\ Finished(c)' BY <1>1 DEF Fresh, Relayed, Finished, Early
<1> QED BY <1>2, <1>3, <1>4 DEF ConnInv

\* The end of a stream: that of a completion counts as complete if nothing is pending.
LEMMA StreamEndKeeps == ASSUME ServerTypeOK, NEW c \in Conns, ConnInv(c), RelayEnd(c) PROVE ConnInv(c)'
<1>0. /\ conn \in [Conns -> Early \union {"check", "relay", "done"}]
      /\ answer \in [Conns -> {"none", "200", "400", "429", "500", "503", "broken", "cut"}]
  BY DEF ServerTypeOK
<1>1. /\ conn[c] = "relay" /\ channel[c] # <<>> /\ Head(channel[c]) = End
      /\ channel' = [channel EXCEPT ![c] = Tail(channel[c])]
      /\ conn'[c] = "done" /\ (answer'[c] = "200" => kind[c] = "chat_sse" \/ pending[c] = <<>>)
      /\ UNCHANGED <<kind, held, produced, sent>>
  BY <1>0 DEF RelayEnd, Popped, Answered, At
<1>2. LastMessage(c)' /\ Joined(channel[c]) = <<>> /\ c \notin held BY <1>1, PoppedIs DEF ConnInv
<1>3. Text(produced[c])' BY <1>1 DEF ConnInv, Text
<1>4. Fresh(c)' /\ Relayed(c)' BY <1>1 DEF Fresh, Relayed, Early
<1>5. Finished(c)'
  <2>1. (sent[c] \o pending[c]) \o Joined(channel[c]) = produced[c] BY <1>1 DEF ConnInv, Relayed
  <2>2. sent[c] \o <<>> = sent[c] BY RelayTypes, ConcatEmptySeq
  <2>3. pending[c] = <<>> => sent[c] = produced[c] BY <1>2, <2>1, <2>2
  <2>4. answer'[c] = "200" /\ kind'[c] \in {"plain", "sse"} => pending[c] = <<>> BY <1>1
  <2> QED BY <1>1, <1>2, <2>3, <2>4 DEF Finished
<1> QED BY <1>2, <1>3, <1>4, <1>5 DEF ConnInv

\* The text of a channel is a text.
LEMMA JoinedType == ASSUME NEW q \in Seq(Messages) PROVE Joined(q) \in Seq(Int)
<1>1. PICK f : Joins(f, q) /\ Joined(q) = f[Len(q)] BY JoinedIs
<1>2. \A k \in 0..Len(q) : f[k] \in Seq(Int) BY <1>1, MessageTypes, JoinType
<1>3. Len(q) \in 0..Len(q) OBVIOUS
<1> QED BY <1>1, <1>2, <1>3

\* What the engine says of a request it holds goes to a handler that has not answered in full.
LEMMA HeldIs ==
    ASSUME ServerTypeOK, NEW c \in Conns, ConnInv(c), c \in held
    PROVE  /\ \A k \in 1..Len(channel[c]) : channel[c][k] # End
           /\ conn[c] \notin Early /\ ~(answer[c] = "200" /\ kind[c] \in {"plain", "sse"})
<1>1. LastMessage(c) /\ Fresh(c) /\ Finished(c) BY DEF ConnInv
<1>2. \A k \in 1..Len(channel[c]) : channel[c][k] # End BY <1>1, Zenon DEF LastMessage
<1>3. conn[c] \notin Early BY <1>1, Zenon DEF Fresh
<1>4. ~(answer[c] = "200" /\ kind[c] \in {"plain", "sse"}) BY <1>1, Zenon DEF Finished
<1> QED BY <1>2, <1>3, <1>4

\* A token is appended to what is produced and to what is in the channel.
LEMMA EmitKeeps == ASSUME ServerTypeOK, NEW c \in Conns, ConnInv(c), EmitToken(c) PROVE ConnInv(c)'
<1>0. channel \in [Conns -> Seq(Messages)] /\ produced \in [Conns -> Seq(Byte)] BY DEF ServerTypeOK
<1>1. PICK p \in Pieces : /\ produced' = [produced EXCEPT ![c] = produced[c] \o p]
                          /\ channel' = [channel EXCEPT ![c] = Append(channel[c], p)]
                          /\ Text(produced[c] \o p)
  BY DEF EmitToken, Delivered
<1>2. c \in held /\ UNCHANGED <<kind, conn, answer, held, sent, pending>> BY DEF EmitToken, serveVars, textVars
<1>3. p \in Messages /\ p \in Seq(Byte) /\ p # End /\ p \in Seq(Int) BY MessageTypes DEF Messages
<1>4. produced'[c] = produced[c] \o p /\ channel'[c] = Append(channel[c], p) BY <1>0, <1>1
<1>5. /\ \A k \in 1..Len(channel[c]) : channel[c][k] # End
      /\ conn[c] \notin Early /\ ~(answer[c] = "200" /\ kind[c] \in {"plain", "sse"})
  BY <1>2, HeldIs
<1>6. Text(produced[c])'
  <2>1. Text(produced'[c]) BY <1>1, <1>4
  <2> QED BY <2>1 DEF Text
<1>7. LastMessage(c)'
  <2>1. PICK q \in Seq(Messages) : q = channel[c] BY RelayTypes
  <2>2. /\ Len(Append(q, p)) = Len(q) + 1 /\ Append(q, p)[Len(q) + 1] = p
        /\ \A k \in 1..Len(q) : Append(q, p)[k] = q[k]
    BY <1>3
  <2>3. \A k \in 1..Len(Append(q, p)) : Append(q, p)[k] # End
    <3> SUFFICES ASSUME NEW k \in 1..Len(Append(q, p)) PROVE Append(q, p)[k] # End OBVIOUS
    <3>1. k \in 1..Len(q) \/ k = Len(q) + 1 BY <2>2
    <3> QED BY <1>3, <1>5, <2>1, <2>2, <3>1
  <2>4. \A k \in 1..Len(channel'[c]) : channel'[c][k] # End BY <1>4, <2>1, <2>3
  <2> QED BY <2>4 DEF LastMessage
<1>8. Fresh(c)' BY <1>2, <1>5 DEF Fresh
<1>9. Finished(c)' BY <1>2, <1>5 DEF Finished
<1>10. ASSUME conn[c] \in {"check", "relay"}
       PROVE  (sent'[c] \o pending'[c]) \o Joined(channel'[c]) = produced'[c]
  <2>1. (sent[c] \o pending[c]) \o Joined(channel[c]) = produced[c] BY <1>10 DEF ConnInv, Relayed
  <2>2. PICK a \in Seq(Int) : a = sent[c] \o pending[c] BY RelayTypes, MessageTypes
  <2>3. PICK j \in Seq(Int) : j = Joined(channel[c]) BY RelayTypes, JoinedType
  <2>4. Joined(channel'[c]) = j \o p
    <3>1. Joined(Append(channel[c], p)) = Plus(Joined(channel[c]), p) BY <1>3, RelayTypes, MessageTypes, JoinAppend
    <3> QED BY <1>3, <1>4, <2>3, <3>1 DEF Plus
  <2>5. (a \o j) \o p = a \o (j \o p) BY <1>3, Associative, Zenon
  <2>6. a \o j = produced[c] BY <2>1, <2>2, <2>3
  <2> QED BY <1>2, <1>4, <2>2, <2>4, <2>5, <2>6
<1>11. Relayed(c)'
  <2>1. Streams(c)' <=> Streams(c) BY <1>2 DEF Streams
  <2>2. Whole(sent[c])' <=> Whole(sent[c]) BY <1>2 DEF Whole, Text
  <2>3. conn'[c] = conn[c] /\ answer'[c] = answer[c] /\ pending'[c] = pending[c] BY <1>2
  <2>4. conn[c] \in {"check", "relay"} =>
           /\ Streams(c) => Whole(sent[c]) /\ Len(pending[c]) <= 3
           /\ ~Streams(c) => pending[c] = <<>>
           /\ answer[c] = "none"
    BY DEF ConnInv, Relayed
  <2> QED BY <1>10, <2>1, <2>2, <2>3, <2>4 DEF Relayed
<1> QED BY <1>6, <1>7, <1>8, <1>9, <1>11 DEF ConnInv

\* The terminal callback adds no byte, and is the last message.
LEMMA EndKeeps ==
    ASSUME ServerTypeOK, NEW c \in Conns, ConnInv(c), c \in held, c \notin held',
           channel'[c] = Append(channel[c], End),
           UNCHANGED <<kind, conn, answer, produced, sent, pending>>
    PROVE  ConnInv(c)'
<1>1. End \in Messages BY DEF Messages
<1>2. /\ \A k \in 1..Len(channel[c]) : channel[c][k] # End
      /\ conn[c] \notin Early /\ ~(answer[c] = "200" /\ kind[c] \in {"plain", "sse"})
  BY HeldIs
<1>3. Text(produced[c])' BY DEF ConnInv, Text
<1>4. LastMessage(c)'
  <2>1. PICK q \in Seq(Messages) : q = channel[c] BY RelayTypes
  <2>2. /\ Len(Append(q, End)) = Len(q) + 1 /\ Append(q, End)[Len(q) + 1] = End
        /\ \A k \in 1..Len(q) : Append(q, End)[k] = q[k]
    BY <1>1
  <2>3. ASSUME NEW k \in 1..Len(Append(q, End)), Append(q, End)[k] = End PROVE k = Len(Append(q, End))
    <3>1. k \in 1..Len(q) \/ k = Len(q) + 1 BY <2>2
    <3> QED BY <1>2, <2>1, <2>2, <2>3, <3>1
  <2>4. channel'[c] = Append(q, End) BY <2>1
  <2> QED BY <2>3, <2>4 DEF LastMessage
<1>5. Fresh(c)' BY <1>2 DEF Fresh
<1>6. Finished(c)' BY <1>2 DEF Finished
<1>7. Joined(channel'[c]) = Joined(channel[c])
  <2>1. Joined(Append(channel[c], End)) = Plus(Joined(channel[c]), End) BY <1>1, RelayTypes, MessageTypes, JoinAppend
  <2> QED BY <2>1 DEF Plus
<1>8. Relayed(c)'
  <2>1. Relayed(c) BY DEF ConnInv
  <2>2. Streams(c)' <=> Streams(c) BY DEF Streams
  <2>3. Whole(sent[c])' <=> Whole(sent[c]) BY DEF Whole, Text
  <2> QED BY <1>7, <2>1, <2>2, <2>3 DEF Relayed
<1> QED BY <1>3, <1>4, <1>5, <1>6, <1>8 DEF ConnInv

\* A step of no connection in particular leaves all of them alone, but for the requests
\* that a dying engine releases.
LEMMA EngineStepKeeps ==
    ASSUME ServerTypeOK, NEW d \in Conns, ConnInv(d),
           \/ UNCHANGED serverVars \/ DrainedEngine \/ StopAccepting \/ Drainer \/ BackendThrows
    PROVE  ConnInv(d)'
<1>1. CASE UNCHANGED serverVars \/ DrainedEngine \/ StopAccepting \/ Drainer
  <2>1. UNCHANGED <<serveVars, engineVars, textVars>>
    BY <1>1 DEF serverVars, DrainedEngine, StopAccepting, Drainer, BeginDrain, StopServer
  <2>2. Same(d) BY <2>1 DEF Same, serveVars, engineVars, textVars
  <2> QED BY <2>2, SameKeeps
<1>2. CASE BackendThrows
  <2>1. PICK released \in SUBSET held :
           /\ held' = held \ released
           /\ channel' = [c \in Conns |-> IF c \in released THEN Append(channel[c], End) ELSE channel[c]]
    BY <1>2 DEF BackendThrows
  <2>2. UNCHANGED <<kind, conn, answer, produced, sent, pending>> BY <1>2 DEF BackendThrows, serveVars, textVars
  <2>3. CASE d \in released
    <3>1. d \in held /\ d \notin held' /\ channel'[d] = Append(channel[d], End) BY <2>1, <2>3
    <3> QED BY <2>2, <3>1, EndKeeps
  <2>4. CASE d \notin released
    <3>1. Same(d) BY <2>1, <2>2, <2>4 DEF Same
    <3> QED BY <3>1, SameKeeps
  <2> QED BY <2>3, <2>4
<1> QED BY <1>1, <1>2

\* Every step keeps the invariant of every connection.
LEMMA NextConn ==
    ASSUME ServerTypeOK, InLine, NEW d \in Conns, ConnInv(d), [ServerNext]_serverVars
    PROVE  ConnInv(d)'
<1>1. CASE UNCHANGED serverVars \/ DrainedEngine \/ StopAccepting \/ Drainer \/ BackendThrows
  BY <1>1, EngineStepKeeps
<1>2. CASE Dispatch
  <2>1. CASE d = Head(line) BY <1>2, <2>1, EarlySteps
  <2>2. CASE d # Head(line)
    <3>1. conn \in [Conns -> Early \union {"check", "relay", "done"}] BY DEF ServerTypeOK
    <3>2. Same(d) BY <1>2, <2>2, <3>1 DEF Dispatch, At, Same, engineVars, textVars
    <3> QED BY <3>2, SameKeeps
  <2> QED BY <2>1, <2>2
<1>3. ASSUME NEW c \in Conns, Connect(c) \/ Disconnect(c) \/ Handle(c) \/ Cut(c) \/ EmitToken(c) \/ EndRequest(c)
      PROVE  ConnInv(d)'
  <2>1. CASE d # c
    <3>1. Same(d) BY <1>3, <2>1, Elsewhere
    <3> QED BY <3>1, SameKeeps
  <2>2. CASE d = c
    <3>1. CASE Connect(d) \/ Probe(d) \/ Enter(d) \/ SubmitFlag(d) \/ SubmitDepth(d) \/ Overloaded(d) BY <3>1, EarlySteps
    <3>2. CASE Disconnect(d)
      <4>1. Same(d) BY <3>2 DEF Disconnect, Same, engineVars, textVars
      <4> QED BY <4>1, SameKeeps
    <3>3. CASE SubmitPush(d) BY <3>3, PushKeeps
    <3>4. CASE CheckFatal(d) \/ Cut(d) BY <3>4, GiveUpKeeps
    <3>5. CASE RelayPlain(d) BY <3>5, PlainKeeps
    <3>6. CASE RelayToken(d) BY <3>6, TokenKeeps
    <3>7. CASE RelayBroken(d) BY <3>7, BrokenKeeps
    <3>8. CASE RelayEnd(d) BY <3>8, StreamEndKeeps
    <3>9. CASE EmitToken(d) BY <3>9, EmitKeeps
    <3>10. CASE EndRequest(d)
      <4>0. channel \in [Conns -> Seq(Messages)] BY DEF ServerTypeOK
      <4>1. d \in held /\ d \notin held' /\ channel'[d] = Append(channel[d], End)
        BY <3>10, <4>0 DEF EndRequest, Delivered
      <4>2. UNCHANGED <<kind, conn, answer, produced, sent, pending>> BY <3>10 DEF EndRequest, serveVars, textVars
      <4> QED BY <4>1, <4>2, EndKeeps
    <3> QED BY <1>3, <2>2, <3>1, <3>2, <3>3, <3>4, <3>5, <3>6, <3>7, <3>8, <3>9, <3>10 DEF Handle
  <2> QED BY <2>1, <2>2
<1> QED BY <1>1, <1>2, <1>3 DEF ServerNext

\* Every step keeps the line in front of the handlers.
LEMMA NextLine == ASSUME ServerTypeOK, InLine, [ServerNext]_serverVars PROVE InLine'
<1>0. /\ line \in Seq(Conns)
      /\ conn \in [Conns -> Early \union {"check", "relay", "done"}]
  BY DEF ServerTypeOK
<1>1. ASSUME line' = line, \A d \in Conns : conn[d] = "line" => conn'[d] = "line" PROVE InLine'
  <2>1. \A k \in 1..Len(line) : line[k] \in Conns BY <1>0
  <2> QED BY <1>1, <2>1 DEF InLine
<1>2. CASE UNCHANGED serverVars \/ DrainedEngine \/ StopAccepting \/ Drainer \/ BackendThrows
  <2>1. line' = line /\ conn' = conn
    BY <1>2 DEF serverVars, DrainedEngine, StopAccepting, Drainer, BeginDrain, StopServer, BackendThrows, serveVars
  <2> QED BY <1>1, <2>1
<1>3. CASE Dispatch
  <2>1. PICK q \in Seq(Conns) : q = line /\ q # <<>> /\ line' = Tail(q) /\ conn' = [conn EXCEPT ![q[1]] = "enter"]
    <3>1. line # <<>> /\ line' = Tail(line) /\ conn' = [conn EXCEPT ![Head(line)] = "enter"] BY <1>3 DEF Dispatch, At
    <3>2. Head(line) = line[1] BY <1>0, <3>1
    <3> QED BY <1>0, <3>1, <3>2
  <2>2. /\ Tail(q) \in Seq(Conns) /\ Len(Tail(q)) = Len(q) - 1 /\ Len(q) \in Nat \ {0}
        /\ \A k \in 1..Len(Tail(q)) : Tail(q)[k] = q[k + 1] /\ k + 1 \in 1..Len(q) /\ k + 1 # 1
        /\ 1 \in 1..Len(q) /\ \A k \in 1..Len(q) : q[k] \in Conns
    BY <2>1
  <2>3. /\ \A j, k \in 1..Len(q) : q[j] = q[k] => j = k
        /\ \A k \in 1..Len(q) : conn[q[k]] = "line"
    BY <2>1 DEF InLine
  <2>4. ASSUME NEW j \in 1..Len(Tail(q)), NEW k \in 1..Len(Tail(q)), Tail(q)[j] = Tail(q)[k] PROVE j = k
    <3>1. j + 1 = k + 1 BY <2>2, <2>3, <2>4
    <3>2. j \in Int /\ k \in Int BY <2>2
    <3> QED BY <3>1, <3>2
  <2>5. ASSUME NEW k \in 1..Len(Tail(q)) PROVE conn'[Tail(q)[k]] = "line"
    <3>1. Tail(q)[k] = q[k + 1] /\ q[k + 1] # q[1] /\ q[k + 1] \in Conns BY <2>2, <2>3
    <3>2. conn[q[k + 1]] = "line" BY <2>2, <2>3
    <3> QED BY <1>0, <2>1, <3>1, <3>2
  <2> QED BY <2>1, <2>4, <2>5, SMTT(20) DEF InLine
<1>4. ASSUME NEW c \in Conns, Connect(c) PROVE InLine'
  <2>1. PICK q \in Seq(Conns) : q = line /\ line' = Append(q, c) BY <1>0, <1>4 DEF Connect
  <2>2. conn[c] = "away" /\ conn' = [conn EXCEPT ![c] = "line"] BY <1>4 DEF Connect, At
  <2>3. /\ Len(Append(q, c)) = Len(q) + 1 /\ Append(q, c)[Len(q) + 1] = c /\ Len(q) \in Nat
        /\ \A k \in 1..Len(q) : Append(q, c)[k] = q[k] /\ q[k] \in Conns
        /\ \A k \in 1..Len(Append(q, c)) : k \in 1..Len(q) \/ k = Len(q) + 1
    OBVIOUS
  <2>4. /\ \A j, k \in 1..Len(q) : q[j] = q[k] => j = k
        /\ \A k \in 1..Len(q) : conn[q[k]] = "line"
    BY <2>1 DEF InLine
  <2>5. \A k \in 1..Len(q) : q[k] # c BY <2>2, <2>4
  <2>6. ASSUME NEW j \in 1..Len(Append(q, c)), NEW k \in 1..Len(Append(q, c)), Append(q, c)[j] = Append(q, c)[k]
        PROVE  j = k
    <3>1. CASE j \in 1..Len(q) /\ k \in 1..Len(q) BY <2>3, <2>4, <2>6, <3>1
    <3>2. CASE j \in 1..Len(q) /\ k = Len(q) + 1 BY <2>3, <2>5, <2>6, <3>2
    <3>3. CASE j = Len(q) + 1 /\ k \in 1..Len(q) BY <2>3, <2>5, <2>6, <3>3
    <3> QED BY <2>3, <3>1, <3>2, <3>3
  <2>7. ASSUME NEW k \in 1..Len(Append(q, c)) PROVE conn'[Append(q, c)[k]] = "line"
    <3>1. CASE k \in 1..Len(q) BY <1>0, <2>2, <2>3, <2>4, <3>1
    <3>2. CASE k = Len(q) + 1 BY <1>0, <2>2, <2>3, <3>2
    <3> QED BY <2>3, <3>1, <3>2
  <2> QED BY <2>1, <2>6, <2>7 DEF InLine
<1>5. ASSUME NEW c \in Conns, Disconnect(c) \/ EmitToken(c) \/ EndRequest(c) PROVE InLine'
  <2>1. line' = line /\ conn' = conn BY <1>5 DEF Disconnect, EmitToken, EndRequest, serveVars
  <2> QED BY <1>1, <2>1
<1>6. ASSUME NEW c \in Conns, Handle(c) \/ Cut(c) PROVE InLine'
  <2>1. conn[c] # "line" /\ line' = line
    BY <1>6 DEF Handle, Probe, Enter, SubmitFlag, SubmitDepth, Overloaded, SubmitPush, CheckFatal, RelayPlain, RelayToken,
       RelayBroken, RelayEnd, Cut, Popped, serveVars
  <2>2. ASSUME NEW d \in Conns, conn[d] = "line" PROVE conn'[d] = "line"
    <3>1. Same(d) BY <1>6, <2>1, <2>2, Elsewhere
    <3> QED BY <2>2, <3>1 DEF Same
  <2> QED BY <1>1, <2>1, <2>2
<1> QED BY <1>2, <1>3, <1>4, <1>5, <1>6 DEF ServerNext

\* Every step keeps what a fatal error and a stopped server say of the engine.
LEMMA NextEnded == ASSUME EngineEnded, [ServerNext]_serverVars PROVE EngineEnded' /\ (engine' # "ended" => engine # "ended")
<1>1. CASE DrainedEngine \/ StopAccepting \/ Drainer \/ BackendThrows
  BY <1>1 DEF EngineEnded, DrainedEngine, StopAccepting, Drainer, BeginDrain, StopServer, BackendThrows
<1>2. CASE UNCHANGED ownerVars BY <1>2 DEF EngineEnded, ownerVars
<1>3. CASE UNCHANGED serverVars BY <1>2, <1>3 DEF serverVars
<1>4. CASE Dispatch BY <1>2, <1>4 DEF Dispatch
<1>5. ASSUME NEW c \in Conns, Connect(c) \/ Disconnect(c) \/ Handle(c) \/ Cut(c) \/ EmitToken(c) \/ EndRequest(c)
      PROVE  UNCHANGED ownerVars
  BY <1>5 DEF Connect, Disconnect, Handle, Cut, EmitToken, EndRequest, Probe, Enter, SubmitFlag, SubmitDepth, Overloaded, SubmitPush,
     CheckFatal, RelayPlain, RelayToken, RelayBroken, RelayEnd
<1> QED BY <1>1, <1>2, <1>3, <1>4, <1>5 DEF ServerNext

\* Every step keeps a request whose connection is answered aborted, or out of the engine.
LEMMA NextOrphans ==
    ASSUME ServerTypeOK, EngineEnded, InLine, NoOrphanWork, \A c \in Conns : ConnInv(c), [ServerNext]_serverVars
    PROVE  NoOrphanWork'
<1>0. /\ conn \in [Conns -> Early \union {"check", "relay", "done"}]
      /\ held \subseteq Conns /\ channel \in [Conns -> Seq(Messages)]
  BY DEF ServerTypeOK
<1> SUFFICES ASSUME engine' # "ended", NEW d \in held', conn'[d] = "done" PROVE d \in aborts'
  BY DEF NoOrphanWork
<1>1. engine # "ended" /\ ~fatal /\ owner # "stopped" BY NextEnded DEF EngineEnded
<1>2. \A c \in held : conn[c] = "done" => c \in aborts BY <1>1 DEF NoOrphanWork
<1>3. CASE UNCHANGED serverVars \/ DrainedEngine \/ StopAccepting \/ Drainer
  <2>1. UNCHANGED <<conn, held, aborts>>
    BY <1>3 DEF serverVars, DrainedEngine, StopAccepting, Drainer, BeginDrain, StopServer, serveVars, engineVars
  <2> QED BY <1>2, <2>1
<1>4. CASE BackendThrows BY <1>4 DEF BackendThrows
<1>5. CASE Dispatch
  <2>1. conn' = [conn EXCEPT ![Head(line)] = "enter"] /\ held' = held /\ aborts' = aborts
    BY <1>5 DEF Dispatch, At, engineVars
  <2>2. d \in Conns /\ conn[d] = "done" BY <1>0, <2>1
  <2> QED BY <1>2, <2>1, <2>2
<1>6. ASSUME NEW c \in Conns, Connect(c) \/ Disconnect(c) \/ EmitToken(c) \/ EndRequest(c) PROVE d \in aborts'
  <2>1. held' \subseteq held /\ aborts' = aborts
    BY <1>6 DEF Connect, Disconnect, EmitToken, EndRequest, engineVars
  <2>2. conn[d] = "done"
    <3>1. CASE Connect(c) BY <1>0, <2>1, <3>1 DEF Connect, At
    <3>2. CASE ~Connect(c)
      <4>1. conn' = conn BY <1>6, <3>2 DEF Disconnect, EmitToken, EndRequest, serveVars
      <4> QED BY <4>1
    <3> QED BY <3>1, <3>2
  <2> QED BY <1>2, <2>1, <2>2
<1>7. ASSUME NEW c \in Conns, Handle(c) \/ Cut(c) PROVE d \in aborts'
  <2>1. aborts \subseteq aborts'
    BY <1>7 DEF Handle, Probe, Enter, SubmitFlag, SubmitDepth, Overloaded, SubmitPush, CheckFatal, RelayPlain, RelayToken,
       RelayBroken, RelayEnd, Cut, Released, engineVars
  <2>2. d \in Conns
    <3>1. held' \subseteq Conns
      BY <1>0, <1>7 DEF Handle, Probe, Enter, SubmitFlag, SubmitDepth, Overloaded, SubmitPush, CheckFatal, RelayPlain, RelayToken,
         RelayBroken, RelayEnd, Cut, engineVars
    <3> QED BY <3>1
  <2>3. CASE d # c
    <3>1. Same(d) BY <1>7, <2>2, <2>3, Elsewhere
    <3>2. d \in held /\ conn[d] = "done" BY <3>1 DEF Same
    <3> QED BY <1>2, <2>1, <3>2
  <2>4. CASE d = c
    <3>1. CASE Probe(d) \/ Enter(d) \/ SubmitFlag(d) \/ SubmitDepth(d) \/ Overloaded(d)
      <4>1. conn[d] \in Early /\ held' = held
        BY <3>1 DEF Probe, Enter, SubmitFlag, SubmitDepth, Overloaded, Early, engineVars
      <4>2. d \notin held BY <2>2, <4>1, Zenon DEF ConnInv, Fresh
      <4> QED BY <4>1, <4>2
    <3>2. CASE SubmitPush(d) BY <1>0, <2>2, <3>2 DEF SubmitPush, At
    <3>3. CASE CheckFatal(d) BY <1>0, <1>1, <2>2, <3>3 DEF CheckFatal, At
    <3>4. CASE RelayToken(d)
      <4>1. conn' = conn /\ conn[d] = "relay" BY <3>4 DEF RelayToken, Popped, serveVars
      <4> QED BY <4>1
    <3>5. CASE RelayPlain(d) \/ RelayEnd(d)
      <4>1. /\ conn[d] = "relay" /\ channel[d] # <<>> /\ held' = held
            /\ channel' = [channel EXCEPT ![d] = Tail(channel[d])]
            /\ Head(channel[d]) # End => conn' = conn
        BY <3>5 DEF RelayPlain, RelayEnd, Popped
      <4>2. Head(channel[d]) = End BY <4>1
      <4>3. d \notin held BY <2>2, <4>1, <4>2, PoppedIs DEF ConnInv
      <4> QED BY <4>1, <4>3
    <3>6. CASE RelayBroken(d) BY <3>6 DEF RelayBroken, Released
    <3>7. CASE Cut(d) BY <1>1, <3>7 DEF Cut
    <3> QED BY <1>7, <2>4, <3>1, <3>2, <3>3, <3>4, <3>5, <3>6, <3>7 DEF Handle
  <2> QED BY <2>3, <2>4
<1> QED BY <1>3, <1>4, <1>5, <1>6, <1>7 DEF ServerNext

\* The invariant holds at the start.
LEMMA InitServer == ASSUME ServerInit PROVE ServerInv
<1>1. ServerTypeOK
  <2>1. <<>> \in Seq(Conns) /\ <<>> \in Seq(Messages) /\ <<>> \in Seq(Byte) OBVIOUS
  <2> QED BY <2>1 DEF ServerInit, ServerTypeOK, Early
<1>2. EngineEnded /\ InLine /\ NoOrphanWork
  <2>1. Len(<<>>) = 0 OBVIOUS
  <2> QED BY <2>1 DEF ServerInit, EngineEnded, InLine, NoOrphanWork
<1>3. ASSUME NEW c \in Conns PROVE ConnInv(c)
  <2>1. /\ conn[c] = "away" /\ answer[c] = "none" /\ held = {} /\ channel[c] = <<>> /\ produced[c] = <<>>
        /\ sent[c] = <<>> /\ pending[c] = <<>>
    BY <1>3 DEF ServerInit
  <2>2. Text(produced[c]) BY <2>1 DEF Text
  <2>3. LastMessage(c) BY <2>1 DEF LastMessage
  <2>4. Fresh(c) /\ Relayed(c) /\ Finished(c) BY <2>1 DEF Fresh, Relayed, Finished
  <2> QED BY <2>2, <2>3, <2>4 DEF ConnInv
<1> QED BY <1>1, <1>2, <1>3 DEF ServerInv

\* Every step keeps it.
LEMMA NextServer == ASSUME ServerInv, [ServerNext]_serverVars PROVE ServerInv'
<1>1. ServerTypeOK /\ EngineEnded /\ InLine /\ NoOrphanWork /\ \A c \in Conns : ConnInv(c) BY DEF ServerInv
<1>2. ServerTypeOK' BY <1>1, NextServerTypes
<1>3. EngineEnded' BY <1>1, NextEnded
<1>4. InLine' BY <1>1, NextLine
<1>5. NoOrphanWork' BY <1>1, NextOrphans
<1>6. \A c \in Conns : ConnInv(c)' BY <1>1, NextConn
<1> QED BY <1>2, <1>3, <1>4, <1>5, <1>6 DEF ServerInv

\* It holds in every reachable state.
LEMMA ServerSafe == ServerSpec => []ServerInv
BY InitServer, NextServer, PTL DEF ServerSpec

\* It says what a client is promised of its stream.
LEMMA InvIntegrity == ASSUME ServerInv PROVE StreamIntegrity
<1> SUFFICES ASSUME NEW c \in Conns
             PROVE  /\ conn[c] = "relay" /\ Streams(c) =>
                          /\ Whole(sent[c]) /\ Len(pending[c]) <= 3
                          /\ sent[c] \o pending[c] \o Queued(c) = produced[c]
                    /\ answer[c] = "200" /\ kind[c] \in {"plain", "sse"} => sent[c] = produced[c]
  BY DEF StreamIntegrity
<1>1. Relayed(c) /\ Finished(c) BY DEF ServerInv, ConnInv
<1>2. ASSUME conn[c] = "relay", Streams(c)
      PROVE  /\ Whole(sent[c]) /\ Len(pending[c]) <= 3
             /\ sent[c] \o pending[c] \o Queued(c) = produced[c]
  BY <1>1, <1>2 DEF Relayed, Queued
<1>3. answer[c] = "200" /\ kind[c] \in {"plain", "sse"} => sent[c] = produced[c] BY <1>1 DEF Finished
<1> QED BY <1>2, <1>3

\* For any number of connections and handlers, and whatever the tokens stand for as long
\* as the text so far is the beginning of valid UTF-8 (the guard of EmitToken): between Utf8Buffer::pending, Stream::q and the client no byte of an answer is lost,
\* repeated or reordered, a chunk never splits a character, less than one character is
\* held back, and a 200 of a completion carries all of the text (api/server.cpp).
THEOREM StreamsWhole == ServerSpec => []StreamIntegrity
BY ServerSafe, InvIntegrity, PTL

\* For any number of connections and handlers: as long as the engine runs, a request that
\* it still holds after its connection is done has been passed to abort(), whichever of
\* disconnect, refusal, end, fatal error and shutdown came first.
THEOREM NoWorkOrphaned == ServerSpec => []NoOrphanWork
<1>1. ServerInv => NoOrphanWork BY DEF ServerInv
<1> QED BY <1>1, ServerSafe, PTL

=============================================================================
