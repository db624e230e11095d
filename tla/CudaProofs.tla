----------------------------- MODULE CudaProofs -----------------------------
(***************************************************************************)
(* The memory of the CUDA model, for every number of layers, all sizes of  *)
(* the model and of its steps, and whatever fails.                         *)
(*                                                                         *)
(* HeapInv relates members and heap.  A buffer that grows releases memory  *)
(* that is nobody else's, since only a tied head and the embedding share   *)
(* (Apart).  The destructor is right because its list has every member     *)
(* once and the head before the embedding, for every number of layers      *)
(* (DestroyList).  ProfInv relates the events to the regions that have     *)
(* ended: event e is the one recorded at time e + 1.                       *)
(***************************************************************************)
EXTENDS CudaResources, SequenceTheorems, TLAPS

-----------------------------------------------------------------------------
(* The invariant.                                                          *)

Embed == <<"embed", 0>>
LmHead == <<"lm_head", 0>>

Steady == {"new", "construct", "idle", "get", "kernels", "region", "sync"}
Running == {"kernels", "region", "sync"}
Phases == Steady \union {"failed", "threw", "destroy", "gone"}
InStep == Running \union {"get"}

\* The buffers that every step asks for.
Needed == ToSet(IndexBuffers \o RowBuffers)

\* No member is in the list twice.
Distinct(s) == \A i, j \in 1..Len(s) : s[i] = s[j] => i = j

\* What a method may have to do, and the members of StepProfile.
Items == Members \union {"embed", "layer", "head"}
Profile == [pool : Nat, next : Nat, start : Nat, spans : Seq([a : Nat, b : Nat]), failures : Nat]

ResTypeOK ==
    /\ phase \in Phases /\ prof \in Profile
    /\ todo \in Seq(Items)
    /\ ptr \in [Members -> Nat] /\ size \in Seq(Nat) /\ live \subseteq 1..Len(size)
    /\ \A m \in Members : ptr[m] <= Len(size)
    /\ cap \in [Buffers -> Nat]
    /\ broken \subseteq Buffers

\* Two members have the same pointer only if the head is tied.
Apart ==
    \A m, n \in Members : ptr[m] # Null /\ ptr[m] = ptr[n] => m = n \/ {m, n} = {LmHead, Embed}

\* Until the destructor runs, members and heap agree.
Owned ==
    phase \in Steady \union {"threw"} =>
        /\ \A a \in live : \E m \in Members : ptr[m] = a
        /\ \A m \in Members \ broken : ptr[m] # Null => ptr[m] \in live

\* A buffer has the room its capacity says, until a call of forward() throws.
Room ==
    phase \in Steady =>
        /\ broken = {}
        /\ \A b \in Buffers : cap[b] > 0 => ptr[b] \in live /\ size[ptr[b]] = cap[b]

\* The constructor allocates what is not there yet.
Constructing ==
    /\ phase = "new" => \A m \in Members : ptr[m] = Null
    /\ phase \in {"new", "construct"} => \A b \in Buffers : cap[b] = 0
    /\ phase = "construct" =>
          /\ Distinct(todo) /\ ToSet(todo) \subseteq Members
          /\ \A m \in ToSet(todo) : ptr[m] = Null

\* What a step holds is what it asked for.
Given ==
    phase \in InStep =>
        /\ step \in Demands
        /\ \A b \in DOMAIN held : b \in Buffers /\ held[b] = ptr[b] /\ cap[b] >= Need(b)
        /\ Logits \in DOMAIN held => step.rows > 0

\* The buffers of the step are got first, that of the logits behind the layers.
Getting ==
    /\ phase = "get" =>
          \/ /\ ToSet(todo) \subseteq Needed /\ Needed \subseteq DOMAIN held \union ToSet(todo)
             /\ Logits \notin DOMAIN held
          \/ /\ step.rows > 0 /\ Needed \subseteq DOMAIN held
             /\ IF Logits \in DOMAIN held THEN todo = <<>> ELSE todo = <<Logits>>
    /\ phase \in Running => Needed \subseteq DOMAIN held
    /\ phase = "region" => todo # <<>>

\* The destructor releases each member that is there once, the tied head before the embedding.
Destroying ==
    phase = "destroy" =>
        /\ Distinct(todo) /\ ToSet(todo) \subseteq Members
        /\ \A a \in live : \E m \in ToSet(todo) : ptr[m] = a
        /\ \A m \in ToSet(todo) \ broken : ptr[m] # Null => ptr[m] \in live
        /\ LmHead \in ToSet(todo) => Embed \in ToSet(todo)
        /\ \A i, j \in 1..Len(todo) : todo[i] = Embed /\ todo[j] = LmHead => j < i

HeapInv ==
    /\ ResTypeOK /\ Apart /\ Owned /\ Room /\ Constructing /\ Given /\ Getting /\ Destroying
    /\ twice \subseteq broken /\ ReleasedOnce

-----------------------------------------------------------------------------
Regions == 1 + LayerScopes * Layers

\* An event index is that of an event of this step, or of the one to be made next.
Marked(p, e) == e \in Nat /\ (e < p.next \/ (e = p.next /\ p.next = p.pool))

ProfTypeOK ==
    /\ prof.next <= prof.pool
    /\ stamp = [e \in 0..MaxEvents |-> IF e < prof.next THEN e + 1 ELSE 0]
    /\ prof.next <= 2 * Len(prof.spans) + (IF phase = "region" THEN 1 ELSE 0)
    /\ phase = "region" => Marked(prof, prof.start)

SpansMarked ==
    \A k \in 1..Len(prof.spans) :
        LET sp == prof.spans[k] IN Marked(prof, sp.a) /\ Marked(prof, sp.b) /\ sp.a <= sp.b

\* One span for each region that has ended.
Counted ==
    /\ phase \in {"new", "construct", "idle"} => prof.spans = <<>>
    /\ phase = "get" => Len(prof.spans) = IF ToSet(todo) \subseteq Needed /\ Logits \notin DOMAIN held THEN 0 ELSE Regions
    /\ phase \in Running =>
          Len(prof.spans) + Len(todo) = Regions + (IF Logits \in DOMAIN held THEN 1 ELSE 0)
    /\ phase = "sync" => todo = <<>> /\ (step.rows > 0 => Logits \in DOMAIN held)

ProfInv == on /\ phase \in Steady => ProfTypeOK /\ SpansMarked /\ Counted

-----------------------------------------------------------------------------
(* The lists of members.                                                   *)

\* A member of a layer has one place in the list of a loop over the layers.
LEMMA Places ==
    ASSUME NEW n \in {1, 2, 12}
    PROVE  /\ \A i \in 1..Layers * n : ((i - 1) % n) + 1 \in 1..n /\ ((i - 1) \div n) + 1 \in 1..Layers
           /\ \A i, j \in 1..Layers * n : (i - 1) % n = (j - 1) % n /\ (i - 1) \div n = (j - 1) \div n => i = j
           /\ \A k \in 1..n, l \in 1..Layers :
                 \E i \in 1..Layers * n : ((i - 1) % n) + 1 = k /\ ((i - 1) \div n) + 1 = l
<1>0. Layers \in Nat BY ResourcesAssumption
<1>1. CASE n = 1 BY <1>0, <1>1
<1>2. CASE n = 2
  <2>1. \A i \in 1..Layers * 2 : ((i - 1) % 2) + 1 \in 1..2 /\ ((i - 1) \div 2) + 1 \in 1..Layers BY <1>0
  <2>2. \A i, j \in 1..Layers * 2 : (i - 1) % 2 = (j - 1) % 2 /\ (i - 1) \div 2 = (j - 1) \div 2 => i = j BY <1>0
  <2>3. ASSUME NEW k \in 1..2, NEW l \in 1..Layers
        PROVE  \E i \in 1..Layers * 2 : ((i - 1) % 2) + 1 = k /\ ((i - 1) \div 2) + 1 = l
    <3>1. PICK i \in Int : i = 2 * (l - 1) + k BY <1>0
    <3>2. i \in 1..Layers * 2 /\ ((i - 1) % 2) + 1 = k /\ ((i - 1) \div 2) + 1 = l BY <1>0, <3>1
    <3> QED BY <3>2
  <2> QED BY <1>2, <2>1, <2>2, <2>3
<1>3. CASE n = 12
  <2>1. \A i \in 1..Layers * 12 : ((i - 1) % 12) + 1 \in 1..12 /\ ((i - 1) \div 12) + 1 \in 1..Layers BY <1>0
  <2>2. \A i, j \in 1..Layers * 12 : (i - 1) % 12 = (j - 1) % 12 /\ (i - 1) \div 12 = (j - 1) \div 12 => i = j BY <1>0
  <2>3. ASSUME NEW k \in 1..12, NEW l \in 1..Layers
        PROVE  \E i \in 1..Layers * 12 : ((i - 1) % 12) + 1 = k /\ ((i - 1) \div 12) + 1 = l
    <3>1. PICK i \in Int : i = 12 * (l - 1) + k BY <1>0
    <3>2. i \in 1..Layers * 12 /\ ((i - 1) % 12) + 1 = k /\ ((i - 1) \div 12) + 1 = l BY <1>0, <3>1
    <3> QED BY <3>2
  <2> QED BY <1>3, <2>1, <2>2, <2>3
<1> QED BY <1>1, <1>2, <1>3

\* The members of the layers: each name once in each layer.
LEMMA LayerSeqIs ==
    ASSUME NEW S, NEW names \in Seq(S), Len(names) \in {1, 2, 12}, Distinct(names)
    PROVE  /\ LayerSeq(names) \in Seq(S \X Nat) /\ Distinct(LayerSeq(names))
           /\ ToSet(LayerSeq(names)) = ToSet(names) \X (1..Layers)
<1>0. Layers \in Nat BY ResourcesAssumption
<1>1. PICK n \in {1, 2, 12} : n = Len(names) OBVIOUS
<1>2. Layers * n \in Nat BY <1>0
<1> DEFINE K(i) == ((i - 1) % n) + 1
           L(i) == ((i - 1) \div n) + 1
           s == [i \in 1..Layers * n |-> <<names[K(i)], L(i)>>]
<1>3. LayerSeq(names) = s BY <1>1 DEF LayerSeq
<1>4. /\ \A i \in 1..Layers * n : K(i) \in 1..n /\ L(i) \in 1..Layers
      /\ \A k \in 1..n, l \in 1..Layers : \E i \in 1..Layers * n : K(i) = k /\ L(i) = l
  BY Places
<1>5. ASSUME NEW i \in 1..Layers * n, NEW j \in 1..Layers * n, K(i) = K(j), L(i) = L(j) PROVE i = j
  <2>1. (i - 1) % n \in Int /\ (j - 1) % n \in Int /\ (i - 1) \div n \in Int /\ (j - 1) \div n \in Int BY <1>0
  <2>2. (i - 1) % n = (j - 1) % n /\ (i - 1) \div n = (j - 1) \div n BY <1>5, <2>1
  <2> QED BY <2>2, Places
<1> HIDE DEF K, L
<1>6. s \in Seq(S \X Nat) /\ Len(s) = Layers * n /\ DOMAIN s = 1..Layers * n
  <2>1. \A i \in 1..Layers * n : <<names[K(i)], L(i)>> \in S \X Nat BY <1>0, <1>1, <1>4
  <2> QED BY <1>2, <2>1
<1>7. Distinct(s)
  <2> SUFFICES ASSUME NEW i \in 1..Layers * n, NEW j \in 1..Layers * n, s[i] = s[j] PROVE i = j
    BY <1>6 DEF Distinct
  <2>1. names[K(i)] = names[K(j)] /\ L(i) = L(j) OBVIOUS
  <2>2. K(i) = K(j) BY <1>1, <1>4, <2>1 DEF Distinct
  <2> QED BY <1>5, <2>1, <2>2
<1>8. ToSet(s) = ToSet(names) \X (1..Layers)
  <2> DEFINE T == ToSet(names) \X (1..Layers)
  <2>0. ToSet(names) = {names[k] : k \in 1..n} BY <1>1 DEF ToSet
  <2>1. \A i \in 1..Layers * n : s[i] \in T BY <1>4, <2>0
  <2>2. ASSUME NEW k \in 1..n, NEW l \in 1..Layers PROVE \E i \in 1..Layers * n : s[i] = <<names[k], l>>
    BY <1>4
  <2>3. \A x \in T : \E k \in 1..n, l \in 1..Layers : x = <<names[k], l>> BY <2>0
  <2>4. ToSet(s) = {s[i] : i \in 1..Layers * n} BY <1>6 DEF ToSet
  <2> HIDE DEF s, T
  <2>5. ASSUME NEW x \in T PROVE \E i \in 1..Layers * n : x = s[i]
    <3>1. PICK k \in 1..n, l \in 1..Layers : x = <<names[k], l>> BY <2>3
    <3>2. PICK i \in 1..Layers * n : s[i] = <<names[k], l>> BY <2>2, Zenon
    <3>3. x = s[i] BY <3>1, <3>2, Zenon
    <3> QED BY <3>3, Zenon
  <2>6. ToSet(s) = T BY <2>1, <2>4, <2>5
  <2> QED BY <2>6 DEF T
<1> QED BY <1>1, <1>3, <1>6, <1>7, <1>8

\* Two lists without repetition, one behind the other.
LEMMA DistinctConcat ==
    ASSUME NEW S, NEW s \in Seq(S), NEW t \in Seq(S), Distinct(s), Distinct(t), ToSet(s) \cap ToSet(t) = {}
    PROVE  s \o t \in Seq(S) /\ Distinct(s \o t) /\ ToSet(s \o t) = ToSet(s) \union ToSet(t)
<1> DEFINE r == s \o t
<1>0. /\ r \in Seq(S) /\ Len(r) = Len(s) + Len(t) /\ Len(s) \in Nat /\ Len(t) \in Nat
      /\ DOMAIN s = 1..Len(s) /\ DOMAIN t = 1..Len(t) /\ DOMAIN r = 1..Len(r)
      /\ \A i \in 1..Len(s) : r[i] = s[i]
      /\ \A i \in 1..Len(t) : r[Len(s) + i] = t[i]
  OBVIOUS
<1> HIDE DEF r
<1>1. ASSUME NEW i \in 1..Len(r)
      PROVE  \/ i \in 1..Len(s) /\ r[i] = s[i] /\ r[i] \in ToSet(s)
             \/ \E k \in 1..Len(t) : i = Len(s) + k /\ r[i] = t[k] /\ r[i] \in ToSet(t)
  <2>1. CASE i <= Len(s) BY <1>0, <2>1 DEF ToSet
  <2>2. CASE Len(s) < i
    <3>1. PICK k \in 1..Len(t) : i = Len(s) + k
      <4>1. i - Len(s) \in 1..Len(t) /\ i = Len(s) + (i - Len(s)) BY <1>0, <2>2
      <4> QED BY <4>1
    <3> QED BY <1>0, <3>1 DEF ToSet
  <2> QED BY <1>0, <2>1, <2>2
<1>2. Distinct(r)
  <2> SUFFICES ASSUME NEW i \in 1..Len(r), NEW j \in 1..Len(r), r[i] = r[j] PROVE i = j BY DEF Distinct
  <2>1. CASE i \in 1..Len(s) /\ r[i] = s[i] /\ r[i] \in ToSet(s)
    <3>1. j \in 1..Len(s) /\ r[j] = s[j] BY <1>1, <2>1
    <3> QED BY <2>1, <3>1 DEF Distinct
  <2>2. CASE \E k \in 1..Len(t) : i = Len(s) + k /\ r[i] = t[k] /\ r[i] \in ToSet(t)
    <3>1. PICK k \in 1..Len(t) : i = Len(s) + k /\ r[i] = t[k] /\ r[i] \in ToSet(t) BY <2>2
    <3>2. PICK l \in 1..Len(t) : j = Len(s) + l /\ r[j] = t[l] BY <1>1, <3>1
    <3>3. k = l BY <3>1, <3>2 DEF Distinct
    <3> QED BY <3>1, <3>2, <3>3
  <2> QED BY <1>1, <2>1, <2>2
<1>3. ToSet(r) = ToSet(s) \union ToSet(t)
  <2>1. ASSUME NEW i \in 1..Len(s) PROVE s[i] \in ToSet(r)
    <3>1. i \in 1..Len(r) BY <1>0
    <3> QED BY <1>0, <3>1 DEF ToSet
  <2>2. ASSUME NEW i \in 1..Len(t) PROVE t[i] \in ToSet(r)
    <3>1. Len(s) + i \in 1..Len(r) BY <1>0
    <3> QED BY <1>0, <3>1 DEF ToSet
  <2>3. ToSet(s) = {s[i] : i \in 1..Len(s)} /\ ToSet(t) = {t[i] : i \in 1..Len(t)} /\ ToSet(r) = {r[i] : i \in 1..Len(r)}
    BY <1>0 DEF ToSet
  <2>4. \A i \in 1..Len(r) : r[i] \in ToSet(s) \union ToSet(t) BY <1>1, Zenon
  <2>5. ToSet(r) \subseteq ToSet(s) \union ToSet(t) BY <2>3, <2>4, Zenon
  <2>6. ToSet(s) \subseteq ToSet(r) BY <2>1, <2>3, Zenon
  <2>7. ToSet(t) \subseteq ToSet(r) BY <2>2, <2>3, Zenon
  <2> QED BY <2>5, <2>6, <2>7, Zenon
<1> QED BY <1>0, <1>2, <1>3 DEF r

\* So is a list from its end.
LEMMA DistinctReverse ==
    ASSUME NEW S, NEW s \in Seq(S), Distinct(s)
    PROVE  Reverse(s) \in Seq(S) /\ Distinct(Reverse(s)) /\ ToSet(Reverse(s)) = ToSet(s)
<1> DEFINE r == Reverse(s)
<1>0. Len(s) \in Nat /\ DOMAIN s = 1..Len(s) /\ \A i \in 1..Len(s) : (Len(s) - i) + 1 \in 1..Len(s) OBVIOUS
<1>1. r \in Seq(S) /\ Len(r) = Len(s) /\ DOMAIN r = 1..Len(s) /\ \A i \in 1..Len(s) : r[i] = s[(Len(s) - i) + 1]
  BY <1>0 DEF Reverse
<1> HIDE DEF r
<1>2. Distinct(r)
  <2> SUFFICES ASSUME NEW i \in 1..Len(s), NEW j \in 1..Len(s), r[i] = r[j] PROVE i = j BY <1>1 DEF Distinct
  <2>1. (Len(s) - i) + 1 = (Len(s) - j) + 1 BY <1>0, <1>1 DEF Distinct
  <2> QED BY <1>0, <2>1
<1>3. ToSet(r) = ToSet(s)
  <2>1. ASSUME NEW i \in 1..Len(s) PROVE \E j \in 1..Len(s) : s[i] = r[j]
    <3>1. PICK j \in 1..Len(s) : j = (Len(s) - i) + 1 BY <1>0
    <3>2. (Len(s) - j) + 1 = i BY <1>0, <3>1
    <3> QED BY <1>1, <3>2
  <2>2. \A i \in 1..Len(s) : \E j \in 1..Len(s) : r[i] = s[j] BY <1>0, <1>1
  <2>3. ToSet(s) = {s[i] : i \in 1..Len(s)} /\ ToSet(r) = {r[i] : i \in 1..Len(s)} BY <1>0, <1>1 DEF ToSet
  <2> QED BY <2>1, <2>2, <2>3, Zenon
<1> QED BY <1>1, <1>2, <1>3 DEF r

MemberNames ==
    {"k_cache", "v_cache", "in_norm", "post_norm", "wq", "wk", "wv", "wo", "bq", "bk", "bv", "wgate", "wup", "wdown",
     "cos", "sin", "final_norm", "lm_head", "embed", "blas", "slots", "token_seq", "tables", "table_offset",
     "positions", "token_ids", "x", "h", "q", "k", "v", "attn", "o", "gate", "up", "logits"}

\* The members of the layers.
LEMMA LayerLists ==
    LET Good(s, T) == s \in Seq(MemberNames \X Nat) /\ Distinct(s) /\ ToSet(s) = T \X (1..Layers)
    IN  /\ Good(LayerSeq(<<"k_cache">>), {"k_cache"}) /\ Good(LayerSeq(<<"v_cache">>), {"v_cache"})
        /\ Good(LayerSeq(<<"k_cache", "v_cache">>), {"k_cache", "v_cache"})
        /\ Good(LayerSeq(LayerNames), {"in_norm", "post_norm", "wq", "wk", "wv", "wo", "bq", "bk", "bv", "wgate", "wup", "wdown"})
<1>1. PICK a : a = <<"k_cache">> OBVIOUS
<1>2. a \in Seq(MemberNames) /\ Len(a) = 1 /\ Distinct(a) /\ ToSet(a) = {"k_cache"}
  BY <1>1 DEF Distinct, MemberNames, ToSet
<1>3. PICK b : b = <<"v_cache">> OBVIOUS
<1>4. b \in Seq(MemberNames) /\ Len(b) = 1 /\ Distinct(b) /\ ToSet(b) = {"v_cache"}
  BY <1>3 DEF Distinct, MemberNames, ToSet
<1>5. PICK c : c = <<"k_cache", "v_cache">> OBVIOUS
<1>6. c \in Seq(MemberNames) /\ Len(c) = 2 /\ Distinct(c) /\ ToSet(c) = {"k_cache", "v_cache"}
  BY <1>5 DEF Distinct, MemberNames, ToSet
<1>7. LayerNames \in Seq(MemberNames) /\ Len(LayerNames) = 12 BY DEF LayerNames, MemberNames
<1>8. Distinct(LayerNames) BY <1>7 DEF LayerNames, Distinct
<1>9. ToSet(LayerNames) =
        {"in_norm", "post_norm", "wq", "wk", "wv", "wo", "bq", "bk", "bv", "wgate", "wup", "wdown"}
  BY <1>7 DEF LayerNames, ToSet
<1>10. ASSUME NEW d \in Seq(MemberNames), Len(d) \in {1, 2, 12}, Distinct(d)
       PROVE  /\ LayerSeq(d) \in Seq(MemberNames \X Nat) /\ Distinct(LayerSeq(d))
              /\ ToSet(LayerSeq(d)) = ToSet(d) \X (1..Layers)
  BY <1>10, LayerSeqIs
<1>11. /\ LayerSeq(a) \in Seq(MemberNames \X Nat) /\ Distinct(LayerSeq(a))
       /\ ToSet(LayerSeq(a)) = {"k_cache"} \X (1..Layers)
  BY <1>2, <1>10
<1>12. /\ LayerSeq(b) \in Seq(MemberNames \X Nat) /\ Distinct(LayerSeq(b))
       /\ ToSet(LayerSeq(b)) = {"v_cache"} \X (1..Layers)
  BY <1>4, <1>10
<1>13. /\ LayerSeq(c) \in Seq(MemberNames \X Nat) /\ Distinct(LayerSeq(c))
       /\ ToSet(LayerSeq(c)) = {"k_cache", "v_cache"} \X (1..Layers)
  BY <1>6, <1>10
<1>14. /\ LayerSeq(LayerNames) \in Seq(MemberNames \X Nat) /\ Distinct(LayerSeq(LayerNames))
       /\ ToSet(LayerSeq(LayerNames)) =
            {"in_norm", "post_norm", "wq", "wk", "wv", "wo", "bq", "bk", "bv", "wgate", "wup", "wdown"} \X (1..Layers)
  BY <1>7, <1>8, <1>9, <1>10
<1> QED BY <1>1, <1>3, <1>5, <1>11, <1>12, <1>13, <1>14

Rest == << <<"cos", 0>>, <<"sin", 0>>, <<"final_norm", 0>>, <<"lm_head", 0>>, <<"embed", 0>>, <<"blas", 0>> >>

\* The other members.
LEMMA ShortLists ==
    /\ Rest \in Seq(MemberNames \X Nat) /\ Distinct(Rest) /\ Len(Rest) = 6
    /\ ToSet(Rest) = {"cos", "sin", "final_norm", "lm_head", "embed", "blas"} \X {0}
    /\ IndexBuffers \in Seq(MemberNames \X Nat) /\ Distinct(IndexBuffers)
    /\ ToSet(IndexBuffers) = {"slots", "token_seq", "tables", "table_offset", "positions", "token_ids"} \X {0}
    /\ RowBuffers \in Seq(MemberNames \X Nat) /\ Distinct(RowBuffers)
    /\ ToSet(RowBuffers) = {"x", "h", "q", "k", "v", "attn", "o", "gate", "up"} \X {0}
    /\ <<Logits>> \in Seq(MemberNames \X Nat) /\ Distinct(<<Logits>>) /\ ToSet(<<Logits>>) = {"logits"} \X {0}
<1>1. Rest \in Seq(MemberNames \X Nat) /\ Len(Rest) = 6 BY DEF Rest, MemberNames
<1>2. Distinct(Rest) BY DEF Distinct, Rest
<1>3. ToSet(Rest) = {"cos", "sin", "final_norm", "lm_head", "embed", "blas"} \X {0} BY DEF ToSet, Rest
<1>4. IndexBuffers \in Seq(MemberNames \X Nat) BY DEF IndexBuffers, MemberNames
<1>5. Distinct(IndexBuffers) BY DEF Distinct, IndexBuffers
<1>6. ToSet(IndexBuffers) = {"slots", "token_seq", "tables", "table_offset", "positions", "token_ids"} \X {0}
  BY DEF ToSet, IndexBuffers
<1>7. RowBuffers \in Seq(MemberNames \X Nat) BY DEF RowBuffers, MemberNames
<1>8. Distinct(RowBuffers) BY DEF Distinct, RowBuffers
<1>9. ToSet(RowBuffers) = {"x", "h", "q", "k", "v", "attn", "o", "gate", "up"} \X {0} BY DEF ToSet, RowBuffers
<1>10. <<Logits>> \in Seq(MemberNames \X Nat) /\ Distinct(<<Logits>>) BY DEF Logits, MemberNames, Distinct
<1>11. ToSet(<<Logits>>) = {"logits"} \X {0} BY DEF Logits, ToSet
<1> QED BY <1>1, <1>2, <1>3, <1>4, <1>5, <1>6, <1>7, <1>8, <1>9, <1>10, <1>11

\* What the scratch buffers are.
LEMMA BufferSets ==
    /\ Needed = {"slots", "token_seq", "tables", "table_offset", "positions", "token_ids",
                 "x", "h", "q", "k", "v", "attn", "o", "gate", "up"} \X {0}
    /\ Buffers = Needed \union {Logits} /\ Logits = <<"logits", 0>> /\ Logits \notin Needed
    /\ IndexBuffers \o RowBuffers \in Seq(MemberNames \X Nat)
<1>1. PICK s, t : s = IndexBuffers /\ t = RowBuffers OBVIOUS
<1>a. /\ s \in Seq(MemberNames \X Nat) /\ Distinct(s)
      /\ t \in Seq(MemberNames \X Nat) /\ Distinct(t) /\ ToSet(s) \cap ToSet(t) = {}
  BY <1>1, ShortLists
<1>b. s \o t \in Seq(MemberNames \X Nat) /\ ToSet(s \o t) = ToSet(s) \union ToSet(t)
  BY <1>a, DistinctConcat
<1>2. /\ ToSet(IndexBuffers \o RowBuffers) = ToSet(IndexBuffers) \union ToSet(RowBuffers)
      /\ IndexBuffers \o RowBuffers \in Seq(MemberNames \X Nat)
  BY <1>1, <1>b
<1>3. Needed = {"slots", "token_seq", "tables", "table_offset", "positions", "token_ids",
                "x", "h", "q", "k", "v", "attn", "o", "gate", "up"} \X {0}
  BY <1>2, ShortLists DEF Needed
<1>4. Buffers = Needed \union {Logits} BY <1>2 DEF Buffers, Needed
<1>5. Logits = <<"logits", 0>> /\ Logits \notin Needed BY <1>3 DEF Logits
<1> QED BY <1>2, <1>3, <1>4, <1>5

\* The destructor goes through the members, each once, the head before the embedding.
LEMMA DestroyList ==
    /\ DestroyOrder \in Seq(Members) /\ Distinct(DestroyOrder)
    /\ Members = ({"k_cache", "v_cache", "in_norm", "post_norm", "wq", "wk", "wv", "wo", "bq", "bk", "bv",
                   "wgate", "wup", "wdown"} \X (1..Layers))
                 \union ({"cos", "sin", "final_norm", "lm_head", "embed", "blas"} \X {0})
                 \union Buffers
    /\ \A i, j \in 1..Len(DestroyOrder) : DestroyOrder[i] = Embed /\ DestroyOrder[j] = LmHead => j < i
<1> DEFINE M == MemberNames \X Nat
           W == {"in_norm", "post_norm", "wq", "wk", "wv", "wo", "bq", "bk", "bv", "wgate", "wup", "wdown"}
<1>0. PICK a, b, c : a = LayerSeq(<<"k_cache">>) /\ b = LayerSeq(<<"v_cache">>) /\ c = LayerSeq(LayerNames)
  OBVIOUS
<1>1. /\ a \in Seq(M) /\ Distinct(a) /\ ToSet(a) = {"k_cache"} \X (1..Layers)
      /\ b \in Seq(M) /\ Distinct(b) /\ ToSet(b) = {"v_cache"} \X (1..Layers)
      /\ c \in Seq(M) /\ Distinct(c) /\ ToSet(c) = W \X (1..Layers)
  BY <1>0, LayerLists
<1>2. PICK ab : ab = a \o b OBVIOUS
<1>3. ab \in Seq(M) /\ Distinct(ab) /\ ToSet(ab) = {"k_cache", "v_cache"} \X (1..Layers)
  <2>1. ToSet(a) \cap ToSet(b) = {} BY <1>1
  <2>2. ab \in Seq(M) /\ Distinct(ab) /\ ToSet(ab) = ToSet(a) \union ToSet(b) BY <1>1, <1>2, <2>1, DistinctConcat
  <2> QED BY <1>1, <2>2
<1>4. PICK abc : abc = ab \o c OBVIOUS
<1>5. abc \in Seq(M) /\ Distinct(abc) /\ ToSet(abc) = ({"k_cache", "v_cache"} \union W) \X (1..Layers)
  <2>1. ToSet(ab) \cap ToSet(c) = {} BY <1>1, <1>3
  <2>2. abc \in Seq(M) /\ Distinct(abc) /\ ToSet(abc) = ToSet(ab) \union ToSet(c)
    BY <1>1, <1>3, <1>4, <2>1, DistinctConcat
  <2> QED BY <1>1, <1>3, <2>2
<1>6. PICK d : d = abc \o Rest OBVIOUS
<1>7. d \in Seq(M) /\ Distinct(d) /\ ToSet(d) = ToSet(abc) \union ToSet(Rest)
  <2>1. ToSet(abc) \cap ToSet(Rest) = {} BY <1>5, ShortLists
  <2> QED BY <1>5, <1>6, <2>1, ShortLists, DistinctConcat
<1>8. PICK r : r = Reverse(RowBuffers \o <<Logits>> \o IndexBuffers) OBVIOUS
<1>9. r \in Seq(M) /\ Distinct(r) /\ ToSet(r) = Buffers
  <2>1. PICK x : x = RowBuffers \o <<Logits>> OBVIOUS
  <2>2. x \in Seq(M) /\ Distinct(x) /\ ToSet(x) = ToSet(RowBuffers) \union {Logits}
    <3>1. ToSet(RowBuffers) \cap ToSet(<<Logits>>) = {} /\ ToSet(<<Logits>>) = {Logits} BY ShortLists DEF Logits
    <3>2. PICK s, t : s = RowBuffers /\ t = <<Logits>> OBVIOUS
    <3>3. /\ s \in Seq(M) /\ Distinct(s) /\ t \in Seq(M) /\ Distinct(t)
          /\ ToSet(s) \cap ToSet(t) = {} /\ ToSet(t) = {Logits}
      BY <3>1, <3>2, ShortLists
    <3>4. s \o t \in Seq(M) /\ Distinct(s \o t) /\ ToSet(s \o t) = ToSet(s) \union ToSet(t)
      BY <3>3, DistinctConcat
    <3> QED BY <2>1, <3>2, <3>3, <3>4
  <2>3. PICK y : y = x \o IndexBuffers OBVIOUS
  <2>4. y \in Seq(M) /\ Distinct(y) /\ ToSet(y) = ToSet(x) \union ToSet(IndexBuffers)
    <3>1. ToSet(x) \cap ToSet(IndexBuffers) = {} BY <2>2, ShortLists DEF Logits
    <3> QED BY <2>2, <2>3, <3>1, ShortLists, DistinctConcat
  <2>5. r = Reverse(y) BY <1>8, <2>1, <2>3
  <2>6. r \in Seq(M) /\ Distinct(r) /\ ToSet(r) = ToSet(y) BY <2>4, <2>5, DistinctReverse
  <2> QED BY <2>2, <2>4, <2>6 DEF Buffers
<1>10. PICK z : z = d \o r OBVIOUS
<1>11. z \in Seq(M) /\ Distinct(z) /\ ToSet(z) = ToSet(d) \union Buffers
  <2>1. ToSet(d) \cap Buffers = {} BY <1>5, <1>7, ShortLists, BufferSets
  <2> QED BY <1>7, <1>9, <1>10, <2>1, DistinctConcat
<1>12. z = DestroyOrder BY <1>0, <1>2, <1>4, <1>6, <1>8, <1>10 DEF DestroyOrder, Rest
<1>13. Members = ToSet(z) BY <1>12 DEF Members
<1>14. z \in Seq(Members)
  <2>1. Len(z) \in Nat /\ \A i \in 1..Len(z) : z[i] \in ToSet(z) BY <1>11 DEF ToSet
  <2>2. z = [i \in 1..Len(z) |-> z[i]] BY <1>11
  <2> QED BY <1>13, <2>1, <2>2
<1>15. \E p \in Nat : p + 1 \in 1..Len(z) /\ p \in 1..Len(z) /\ z[p] = LmHead /\ z[p + 1] = Embed
  <2>1. PICK n \in Nat : n = Len(abc) BY <1>5
  <2>2. PICK q : q = Rest OBVIOUS
  <2>a. q \in Seq(M) /\ Len(q) = 6 /\ q[4] = LmHead /\ q[5] = Embed BY <2>2, ShortLists DEF Rest, LmHead, Embed
  <2>b. d = abc \o q BY <1>6, <2>2
  <2>c. PICK f, g : f = abc /\ g = q OBVIOUS
  <2>d. f \in Seq(M) /\ g \in Seq(M) BY <1>5, <2>a, <2>c
  <2>e. /\ Len(f \o g) = Len(f) + Len(g)
        /\ \A i \in 1..Len(f) + Len(g) : (f \o g)[i] = IF i <= Len(f) THEN f[i] ELSE g[i - Len(f)]
    BY <2>d, ConcatProperties
  <2>f. Len(d) = n + 6 /\ \A i \in 1..n + 6 : d[i] = IF i <= n THEN f[i] ELSE g[i - n]
    BY <2>1, <2>a, <2>b, <2>c, <2>e
  <2>g. (n + 4) - n = 4 /\ (n + 5) - n = 5 /\ ~(n + 4 <= n) /\ ~(n + 5 <= n) /\ n + 4 \in 1..n + 6 /\ n + 5 \in 1..n + 6
    BY <2>1
  <2>3. Len(d) = n + 6 /\ d[n + 4] = LmHead /\ d[n + 5] = Embed BY <2>a, <2>c, <2>f, <2>g
  <2>4. Len(r) \in Nat BY <1>9
  <2>5. /\ Len(z) = (n + 6) + Len(r)
        /\ \A i \in 1..n + 6 : z[i] = d[i]
    <3>1. /\ Len(d \o r) = Len(d) + Len(r)
          /\ \A i \in 1..Len(d) + Len(r) : (d \o r)[i] = IF i <= Len(d) THEN d[i] ELSE r[i - Len(d)]
      BY <1>7, <1>9, ConcatProperties
    <3> QED BY <1>10, <2>3, <2>4, <3>1
  <2>6. n + 4 \in 1..n + 6 /\ n + 5 \in 1..n + 6 /\ (n + 4) + 1 = n + 5 OBVIOUS
  <2>7. z[n + 4] = LmHead /\ z[n + 5] = Embed BY <2>3, <2>5, <2>6
  <2>8. n + 4 \in Nat /\ n + 4 \in 1..Len(z) /\ n + 5 \in 1..Len(z) BY <2>4, <2>5
  <2> QED BY <2>6, <2>7, <2>8
<1>16. ASSUME NEW i \in 1..Len(z), NEW j \in 1..Len(z), z[i] = Embed, z[j] = LmHead PROVE j < i
  <2>1. PICK p \in Nat : p + 1 \in 1..Len(z) /\ p \in 1..Len(z) /\ z[p] = LmHead /\ z[p + 1] = Embed BY <1>15
  <2>2. i = p + 1 /\ j = p BY <1>11, <1>16, <2>1 DEF Distinct
  <2> QED BY <2>1, <2>2
<1>17. ToSet(z) = (({"k_cache", "v_cache"} \union W) \X (1..Layers))
                  \union ({"cos", "sin", "final_norm", "lm_head", "embed", "blas"} \X {0}) \union Buffers
  BY <1>5, <1>7, <1>11, ShortLists
<1>18. {"k_cache", "v_cache"} \union W =
          {"k_cache", "v_cache", "in_norm", "post_norm", "wq", "wk", "wv", "wo", "bq", "bk", "bv", "wgate", "wup", "wdown"}
  OBVIOUS
<1> QED BY <1>11, <1>12, <1>13, <1>14, <1>16, <1>17, <1>18

\* The constructor allocates members, each once.
LEMMA ConstructList == Constructed \in Seq(Members) /\ Distinct(Constructed)
<1> DEFINE M == MemberNames \X Nat
           W == {"in_norm", "post_norm", "wq", "wk", "wv", "wo", "bq", "bk", "bv", "wgate", "wup", "wdown"}
<1>0. PICK c, k : c = LayerSeq(LayerNames) /\ k = LayerSeq(<<"k_cache", "v_cache">>) OBVIOUS
<1>1. /\ c \in Seq(M) /\ Distinct(c) /\ ToSet(c) = W \X (1..Layers)
      /\ k \in Seq(M) /\ Distinct(k) /\ ToSet(k) = {"k_cache", "v_cache"} \X (1..Layers)
  BY <1>0, LayerLists
<1>2. PICK s : s = << <<"embed", 0>>, <<"final_norm", 0>>, <<"lm_head", 0>> >> OBVIOUS
<1>3. s \in Seq(M) /\ Distinct(s) /\ ToSet(s) = {"embed", "final_norm", "lm_head"} \X {0}
  BY <1>2 DEF MemberNames, Distinct, ToSet
<1>4. PICK w : w = s \o c OBVIOUS
<1>5. w \in Seq(M) /\ Distinct(w) /\ ToSet(w) = ToSet(s) \union ToSet(c)
  <2>1. ToSet(s) \cap ToSet(c) = {} BY <1>1, <1>3
  <2> QED BY <1>1, <1>3, <1>4, <2>1, DistinctConcat
<1>6. PICK b : b = << <<"blas", 0>> >> OBVIOUS
<1>7. b \in Seq(M) /\ Distinct(b) /\ ToSet(b) = {"blas"} \X {0} BY <1>6 DEF MemberNames, Distinct, ToSet
<1>8. PICK bw : bw = b \o w OBVIOUS
<1>9. bw \in Seq(M) /\ Distinct(bw) /\ ToSet(bw) = ToSet(b) \union ToSet(w)
  <2>1. ToSet(b) \cap ToSet(w) = {} BY <1>1, <1>3, <1>5, <1>7
  <2> QED BY <1>5, <1>7, <1>8, <2>1, DistinctConcat
<1>10. PICK t : t = << <<"cos", 0>>, <<"sin", 0>> >> OBVIOUS
<1>11. t \in Seq(M) /\ Distinct(t) /\ ToSet(t) = {"cos", "sin"} \X {0} BY <1>10 DEF MemberNames, Distinct, ToSet
<1>12. PICK bwt : bwt = bw \o t OBVIOUS
<1>13. bwt \in Seq(M) /\ Distinct(bwt) /\ ToSet(bwt) = ToSet(bw) \union ToSet(t)
  <2>1. ToSet(bw) \cap ToSet(t) = {} BY <1>1, <1>3, <1>5, <1>7, <1>9, <1>11
  <2> QED BY <1>9, <1>11, <1>12, <2>1, DistinctConcat
<1>14. PICK z : z = bwt \o k OBVIOUS
<1>15. z \in Seq(M) /\ Distinct(z) /\ ToSet(z) = ToSet(bwt) \union ToSet(k)
  <2>1. ToSet(bwt) \cap ToSet(k) = {} BY <1>1, <1>3, <1>5, <1>7, <1>9, <1>11, <1>13
  <2> QED BY <1>1, <1>13, <1>14, <2>1, DistinctConcat
<1>16. z = Constructed BY <1>0, <1>2, <1>4, <1>6, <1>8, <1>10, <1>12, <1>14 DEF Constructed, load_weights
<1>17. ToSet(z) \subseteq Members
  <2>1. /\ W \X (1..Layers) \subseteq Members
        /\ {"k_cache", "v_cache"} \X (1..Layers) \subseteq Members
        /\ {"cos", "sin", "final_norm", "lm_head", "embed", "blas"} \X {0} \subseteq Members
    BY DestroyList
  <2> QED BY <1>1, <1>3, <1>5, <1>7, <1>9, <1>11, <1>13, <1>15, <2>1
<1>18. z \in Seq(Members)
  <2>1. Len(z) \in Nat /\ \A i \in 1..Len(z) : z[i] \in ToSet(z) BY <1>15 DEF ToSet
  <2>2. z = [i \in 1..Len(z) |-> z[i]] BY <1>15
  <2> QED BY <1>17, <2>1, <2>2
<1> QED BY <1>15, <1>16, <1>18

\* The two members that may be one are no buffers.
LEMMA MemberFacts ==
    /\ Buffers \subseteq Members /\ LmHead \in Members \ Buffers /\ Embed \in Members \ Buffers
    /\ LmHead # Embed /\ Needed \subseteq Buffers
<1>1. LmHead \in Members /\ Embed \in Members /\ Buffers \subseteq Members BY DestroyList DEF LmHead, Embed
<1>2. LmHead \notin Buffers /\ Embed \notin Buffers /\ LmHead # Embed /\ Needed \subseteq Buffers
  BY BufferSets DEF LmHead, Embed
<1> QED BY <1>1, <1>2


-----------------------------------------------------------------------------
(* What the actions do to a list, and what a step needs.                   *)

\* One thing less to do.
LEMMA OneLess ==
    ASSUME NEW S, NEW q \in Seq(S), q # <<>>
    PROVE  /\ Head(q) \in S /\ Tail(q) \in Seq(S) /\ Head(q) = q[1] /\ Len(q) \in Nat \ {0}
           /\ Len(Tail(q)) = Len(q) - 1 /\ \A i \in 1..Len(q) - 1 : Tail(q)[i] = q[i + 1]
           /\ ToSet(q) = {Head(q)} \union ToSet(Tail(q))
           /\ Distinct(q) => Distinct(Tail(q)) /\ Head(q) \notin ToSet(Tail(q))
<1>1. /\ Head(q) \in S /\ Tail(q) \in Seq(S) /\ Head(q) = q[1] /\ Len(q) \in Nat \ {0}
      /\ Len(Tail(q)) = Len(q) - 1 /\ \A i \in 1..Len(q) - 1 : Tail(q)[i] = q[i + 1]
  OBVIOUS
<1>2. PICK n \in Nat \ {0}, t \in Seq(S) : n = Len(q) /\ t = Tail(q) BY <1>1
<1>a. DOMAIN q = 1..n /\ Len(t) = n - 1 BY <1>1, <1>2
<1>b. DOMAIN t = 1..n - 1 BY <1>a
<1>3. ToSet(q) = {q[i] : i \in 1..n} /\ ToSet(t) = {t[i] : i \in 1..n - 1} BY <1>a, <1>b DEF ToSet
<1>4. \A i \in 1..n - 1 : i + 1 \in 1..n /\ t[i] = q[i + 1] BY <1>1, <1>2
<1>5. \A i \in 1..n : i = 1 \/ \E j \in 1..n - 1 : i = j + 1
  <2>1. \A i \in 1..n : i = 1 \/ (i - 1 \in 1..n - 1 /\ i = (i - 1) + 1) OBVIOUS
  <2> QED BY <2>1
<1>6. 1 \in 1..n OBVIOUS
<1>7. ToSet(q) = {Head(q)} \union ToSet(t)
  <2>1. ASSUME NEW i \in 1..n PROVE q[i] \in {q[1]} \union ToSet(t)
    <3>1. CASE i = 1 BY <3>1
    <3>2. CASE \E j \in 1..n - 1 : i = j + 1
      <4>1. PICK j \in 1..n - 1 : i = j + 1 BY <3>2
      <4>2. q[i] = t[j] BY <1>4, <4>1
      <4> QED BY <1>3, <4>2
    <3> QED BY <1>5, <3>1, <3>2
  <2>2. \A i \in 1..n - 1 : t[i] \in ToSet(q) BY <1>3, <1>4
  <2>3. q[1] \in ToSet(q) BY <1>3, <1>6
  <2>4. ToSet(q) \subseteq {q[1]} \union ToSet(t) BY <1>3, <2>1, Zenon
  <2>5. ToSet(t) \subseteq ToSet(q) BY <1>3, <2>2, Zenon
  <2>6. ToSet(q) = {q[1]} \union ToSet(t) BY <2>3, <2>4, <2>5, Zenon
  <2> QED BY <1>1, <2>6, Zenon
<1>8. ASSUME Distinct(q) PROVE Distinct(t) /\ Head(q) \notin ToSet(t)
  <2>1. \A i, j \in 1..n : q[i] = q[j] => i = j BY <1>2, <1>8 DEF Distinct
  <2>2. \A i, j \in 1..n - 1 : t[i] = t[j] => i = j
    <3> SUFFICES ASSUME NEW i \in 1..n - 1, NEW j \in 1..n - 1, t[i] = t[j] PROVE i = j OBVIOUS
    <3>1. i + 1 = j + 1 BY <1>4, <2>1
    <3> QED BY <3>1
  <2>3. Len(t) = n - 1 BY <1>1, <1>2
  <2>4. Distinct(t) BY <2>2, <2>3 DEF Distinct
  <2>5. ASSUME NEW i \in 1..n - 1, t[i] = q[1] PROVE FALSE
    <3>1. i + 1 = 1 BY <1>4, <1>6, <2>1, <2>5
    <3> QED BY <3>1
  <2> QED BY <1>1, <1>3, <2>4, <2>5
<1> QED BY <1>1, <1>2, <1>7, <1>8

\* A product of positive numbers is positive.
LEMMA Positive == ASSUME NEW x \in Nat, NEW y \in Nat \ {0} PROVE x * y \in Nat /\ (x > 0 => x * y > 0)
<1>1. x * y \in Nat OBVIOUS
<1>2. ASSUME x > 0 PROVE x * y > 0
  <2>1. (x - 1) \in Nat /\ (y - 1) \in Nat BY <1>2
  <2>2. (x - 1) * (y - 1) \in Nat BY <2>1
  <2>3. (x - 1) * (y - 1) = x * y - x - y + 1 OBVIOUS
  <2> QED BY <1>2, <2>2, <2>3
<1> QED BY <1>1, <1>2

\* Every buffer a step asks for has a size, and that of the logits has one if a row wants them.
LEMMA Sizes ==
    ASSUME step \in Demands, NEW b \in Buffers
    PROVE  Need(b) \in Nat /\ (b # Logits \/ step.rows > 0 => Need(b) > 0)
<1>1. PICK n \in Nat \ {0}, s \in Nat \ {0}, t \in Nat \ {0}, w \in Nat :
          n = step.n /\ s = step.seqs /\ t = step.tables /\ w = step.rows
  <2>1. step.rows \in Nat BY ResourcesAssumption
  <2> QED BY <2>1, ResourcesAssumption
<1>2. {Hidden, KvDim, Inter, Vocab} \subseteq Nat \ {0} BY ResourcesAssumption
<1>3. /\ n * Hidden \in Nat /\ n * Hidden > 0 /\ n * KvDim \in Nat /\ n * KvDim > 0
      /\ n * Inter \in Nat /\ n * Inter > 0
  BY <1>2, Positive
<1>4. w * Vocab \in Nat /\ (w > 0 => w * Vocab > 0) BY <1>2, Positive
<1>5. b[1] = "logits" => b = Logits BY BufferSets
<1> QED BY <1>1, <1>3, <1>4, <1>5 DEF Need

\* The sizes are those of the step.
LEMMA SameNeed == ASSUME NEW b, step' = step PROVE Need(b)' = Need(b)
  BY DEF Need

-----------------------------------------------------------------------------
(* The actions that leave the heap alone.                                  *)

\* What an action keeps that does not touch the heap.
LEMMA HeapKept ==
    ASSUME HeapInv, UNCHANGED <<ptr, live, size, cap, broken, twice>>,
           phase' \in Phases \ {"new", "gone"}, prof' \in Profile, todo' \in Seq(Items),
           phase' \in Steady \union {"threw"} => phase \in Steady
    PROVE  /\ ResTypeOK' /\ Apart' /\ Owned' /\ Room' /\ twice' \subseteq broken' /\ ReleasedOnce'
           /\ phase' = "construct" /\ phase \in {"new", "construct"} => \A b \in Buffers : cap'[b] = 0
<1>1. ResTypeOK' BY DEF HeapInv, ResTypeOK
<1>2. Apart' BY DEF HeapInv, Apart
<1>3. phase \in Steady => /\ \A a \in live : \E m \in Members : ptr[m] = a
                          /\ \A m \in Members \ broken : ptr[m] # Null => ptr[m] \in live
  BY DEF HeapInv, Owned
<1>4. Owned' BY <1>3 DEF Owned
<1>5. phase \in Steady => broken = {} /\ \A b \in Buffers : cap[b] > 0 => ptr[b] \in live /\ size[ptr[b]] = cap[b]
  BY DEF HeapInv, Room
<1>6. Room'
  <2>1. phase' \in Steady => phase \in Steady OBVIOUS
  <2> QED BY <1>5, <2>1 DEF Room
<1>7. twice' \subseteq broken' BY DEF HeapInv
<1>8. ReleasedOnce' BY DEF ReleasedOnce
<1>9. phase' = "construct" /\ phase \in {"new", "construct"} => \A b \in Buffers : cap'[b] = 0
  BY DEF HeapInv, Constructing
<1> QED BY <1>1, <1>2, <1>4, <1>6, <1>7, <1>8, <1>9

\* The empty list.
LEMMA Nothing == <<>> \in Seq(Items) /\ ToSet(<<>>) = {} /\ Distinct(<<>>) /\ Len(<<>>) = 0
<1>1. <<>> \in Seq(Items) /\ Len(<<>>) = 0 OBVIOUS
<1>2. ToSet(<<>>) = {} BY DEF ToSet
<1>3. Distinct(<<>>) BY DEF Distinct
<1> QED BY <1>1, <1>2, <1>3

\* The constructor has its list.
LEMMA BeginConstructKeeps == ASSUME HeapInv, BeginConstruct PROVE HeapInv'
<1>1. /\ phase = "new" /\ UNCHANGED <<ptr, live, size, cap, broken, twice, prof, cfg>>
      /\ \/ phase' = "construct" /\ todo' = Constructed
         \/ phase' = "failed" /\ todo' = <<>>
  BY DEF BeginConstruct, heapVars, profVars
<1>2. PICK z \in Seq(Members) : z = Constructed /\ Distinct(z) BY ConstructList
<1>3. z \in Seq(Items) /\ ToSet(z) \subseteq Members BY DEF Items, ToSet
<1>4. todo' \in Seq(Items) BY <1>1, <1>2, <1>3, Nothing
<1>5. prof' \in Profile BY <1>1 DEF HeapInv, ResTypeOK
<1>6. phase' \in Phases \ {"new", "gone"} /\ (phase' \in Steady \union {"threw"} => phase \in Steady)
  BY <1>1 DEF Phases, Steady
<1>7. /\ ResTypeOK' /\ Apart' /\ Owned' /\ Room' /\ twice' \subseteq broken' /\ ReleasedOnce'
      /\ phase' = "construct" /\ phase \in {"new", "construct"} => \A b \in Buffers : cap'[b] = 0
  BY <1>1, <1>4, <1>5, <1>6, HeapKept
<1>8. Given' /\ Getting' /\ Destroying' BY <1>1 DEF Given, Getting, Destroying, InStep, Running
<1>9. \A m \in Members : ptr[m] = Null BY <1>1 DEF HeapInv, Constructing
<1>10. phase' = "construct" => Distinct(todo') /\ ToSet(todo') \subseteq Members BY <1>1, <1>2, <1>3
<1>11. Constructing' BY <1>1, <1>7, <1>9, <1>10 DEF Constructing
<1> QED BY <1>7, <1>8, <1>11 DEF HeapInv

\* A step begins with no buffer, and asks for all it needs.
LEMMA BeginForwardKeeps == ASSUME HeapInv, BeginForward PROVE HeapInv'
<1>1. /\ phase = "idle" /\ phase' = "get" /\ todo' = IndexBuffers \o RowBuffers
      /\ step' \in Demands /\ DOMAIN held' = {}
      /\ UNCHANGED <<ptr, live, size, cap, broken, twice, prof, cfg>>
  BY DEF BeginForward, heapVars, profVars
<1>2. PICK z \in Seq(MemberNames \X Nat) : z = IndexBuffers \o RowBuffers BY BufferSets
<1>3. Needed \subseteq Members BY MemberFacts
<1>4. z \in Seq(Items) /\ ToSet(z) = Needed
  <2>1. ToSet(z) = Needed BY <1>2 DEF Needed
  <2>2. Len(z) \in Nat /\ DOMAIN z = 1..Len(z) /\ \A i \in 1..Len(z) : z[i] \in ToSet(z) BY DEF ToSet
  <2>3. z = [i \in 1..Len(z) |-> z[i]] OBVIOUS
  <2>4. \A i \in 1..Len(z) : z[i] \in Items BY <1>3, <2>1, <2>2 DEF Items
  <2> QED BY <2>1, <2>2, <2>3, <2>4
<1>5. todo' \in Seq(Items) /\ ToSet(todo') = Needed BY <1>1, <1>2, <1>4
<1>6. phase' \in Phases \ {"new", "gone"} /\ (phase' \in Steady \union {"threw"} => phase \in Steady)
  BY <1>1 DEF Phases, Steady
<1>7. prof' \in Profile BY <1>1 DEF HeapInv, ResTypeOK
<1>8. ResTypeOK' /\ Apart' /\ Owned' /\ Room' /\ twice' \subseteq broken' /\ ReleasedOnce'
  BY <1>1, <1>5, <1>6, <1>7, HeapKept
<1>9. Constructing' /\ Destroying' BY <1>1 DEF Constructing, Destroying
<1>10. Given' BY <1>1 DEF Given
<1>11. Getting' BY <1>1, <1>5 DEF Getting, Running
<1> QED BY <1>8, <1>9, <1>10, <1>11 DEF HeapInv

\* A step goes on, ends or throws.
LEMMA StepGoesOn ==
    ASSUME HeapInv, UNCHANGED <<ptr, live, size, cap, broken, twice, step, held>>,
           phase \in InStep, phase' \in Running \union {"threw", "idle"}, prof' \in Profile, todo' \in Seq(Items),
           phase = "get" /\ phase' \in Running => todo = <<>>, phase' = "region" => todo' # <<>>
    PROVE  HeapInv'
<1>1. phase' \in Phases \ {"new", "gone"} /\ (phase' \in Steady \union {"threw"} => phase \in Steady)
  BY DEF Phases, Steady, InStep, Running
<1>2. ResTypeOK' /\ Apart' /\ Owned' /\ Room' /\ twice' \subseteq broken' /\ ReleasedOnce'
  BY <1>1, HeapKept
<1>3. phase' \notin {"new", "construct", "destroy", "get"} BY DEF Running
<1>4. Constructing' /\ Destroying' BY <1>3 DEF Constructing, Destroying
<1>5. /\ step \in Demands
      /\ \A b \in DOMAIN held : b \in Buffers /\ held[b] = ptr[b] /\ cap[b] >= Need(b)
      /\ Logits \in DOMAIN held => step.rows > 0
  BY DEF HeapInv, Given
<1>6. \A b : Need(b)' = Need(b) BY SameNeed
<1>7. Given' BY <1>5, <1>6 DEF Given
<1>8. phase' \in Running => Needed \subseteq DOMAIN held
  <2>1. CASE phase = "get"
    <3> SUFFICES ASSUME phase' \in Running PROVE Needed \subseteq DOMAIN held OBVIOUS
    <3>1. todo = <<>> BY <2>1
    <3>2. ToSet(todo) = {} BY <3>1, Nothing
    <3> QED BY <2>1, <3>2 DEF HeapInv, Getting
  <2>2. CASE phase \in Running BY <2>2 DEF HeapInv, Getting
  <2> QED BY <2>1, <2>2 DEF InStep
<1>9. Getting' BY <1>3, <1>8 DEF Getting
<1> QED BY <1>2, <1>4, <1>7, <1>9 DEF HeapInv

\* One more buffer of the step.
LEMMA OneMore ==
    ASSUME HeapInv, phase = "get", phase' = "get", todo # <<>>, todo' = Tail(todo), step' = step,
           Got(Head(todo), ptr'[Head(todo)]), cap'[Head(todo)] >= Need(Head(todo)),
           \A b \in Buffers \ {Head(todo)} : ptr'[b] = ptr[b] /\ cap'[b] = cap[b]
    PROVE  Head(todo) \in Buffers /\ todo' \in Seq(Items) /\ Given' /\ Getting'
<1>1. todo \in Seq(Items) BY DEF HeapInv, ResTypeOK
<1>2. PICK b : b = Head(todo) OBVIOUS
<1>3. todo' \in Seq(Items) /\ ToSet(todo) = {b} \union ToSet(todo') BY <1>1, <1>2, OneLess
<1>4. /\ step \in Demands
      /\ \A c \in DOMAIN held : c \in Buffers /\ held[c] = ptr[c] /\ cap[c] >= Need(c)
      /\ Logits \in DOMAIN held => step.rows > 0
  BY DEF HeapInv, Given, InStep
<1>5. /\ DOMAIN held' = DOMAIN held \union {b}
      /\ held'[b] = ptr'[b] /\ \A c \in DOMAIN held \ {b} : held'[c] = held[c]
  BY <1>2 DEF Got
<1>6. \A c : Need(c)' = Need(c) BY SameNeed
<1>7. \/ /\ ToSet(todo) \subseteq Needed /\ Needed \subseteq DOMAIN held \union ToSet(todo) /\ Logits \notin DOMAIN held
      \/ /\ step.rows > 0 /\ Needed \subseteq DOMAIN held /\ todo = <<Logits>>
  BY DEF HeapInv, Getting
<1>8. b \in Buffers /\ (b = Logits => step.rows > 0) /\ Getting'
  <2>1. CASE /\ ToSet(todo) \subseteq Needed /\ Needed \subseteq DOMAIN held \union ToSet(todo)
             /\ Logits \notin DOMAIN held
    <3>1. b \in Needed /\ Logits \notin Needed /\ Needed \subseteq Buffers BY <1>3, <2>1, BufferSets, MemberFacts
    <3>2. /\ ToSet(todo') \subseteq Needed /\ Needed \subseteq DOMAIN held' \union ToSet(todo')
          /\ Logits \notin DOMAIN held'
      BY <1>3, <1>5, <2>1, <3>1
    <3> QED BY <3>1, <3>2 DEF Getting, Running
  <2>2. CASE step.rows > 0 /\ Needed \subseteq DOMAIN held /\ todo = <<Logits>>
    <3>1. b = Logits /\ todo' = <<>> BY <1>2, <2>2
    <3>2. b \in Buffers BY <3>1, BufferSets
    <3> QED BY <1>5, <2>2, <3>1, <3>2 DEF Getting, Running
  <2> QED BY <1>7, <2>1, <2>2
<1>9. ASSUME NEW c \in DOMAIN held' PROVE c \in Buffers /\ held'[c] = ptr'[c] /\ cap'[c] >= Need(c)
  <2>1. CASE c = b BY <1>2, <1>5, <1>8, <2>1
  <2>2. CASE c # b BY <1>2, <1>4, <1>5, <2>2
  <2> QED BY <2>1, <2>2
<1>10. Logits \in DOMAIN held' => step.rows > 0 BY <1>4, <1>5, <1>8
<1>11. Given' BY <1>4, <1>6, <1>9, <1>10 DEF Given
<1> QED BY <1>2, <1>3, <1>8, <1>11

\* The next buffer of a step is one of its buffers.
LEMMA NextBuffer == ASSUME HeapInv, phase = "get", todo # <<>> PROVE Head(todo) \in Buffers
<1>1. todo \in Seq(Items) BY DEF HeapInv, ResTypeOK
<1>2. Head(todo) \in ToSet(todo) BY <1>1, OneLess
<1>3. ToSet(todo) \subseteq Needed \/ todo = <<Logits>> BY DEF HeapInv, Getting
<1>4. CASE ToSet(todo) \subseteq Needed BY <1>2, <1>4, MemberFacts
<1>5. CASE todo = <<Logits>> BY <1>5, BufferSets
<1> QED BY <1>3, <1>4, <1>5

\* A buffer that is large enough is given as it is.
LEMMA GetReusesKeeps == ASSUME HeapInv, GetReuses PROVE HeapInv'
<1>1. /\ phase = "get" /\ phase' = "get" /\ todo # <<>> /\ todo' = Tail(todo) /\ step' = step
      /\ Got(Head(todo), ptr[Head(todo)]) /\ Holds(Head(todo))
      /\ UNCHANGED <<ptr, live, size, cap, broken, twice, prof, cfg>>
  BY DEF GetReuses, heapVars, profVars
<1>2. Head(todo) \in Buffers /\ todo' \in Seq(Items) /\ Given' /\ Getting' BY <1>1, OneMore DEF Holds
<1>3. phase' \in Phases \ {"new", "gone"} /\ (phase' \in Steady \union {"threw"} => phase \in Steady)
  BY <1>1 DEF Phases, Steady
<1>4. prof' \in Profile BY <1>1 DEF HeapInv, ResTypeOK
<1>5. ResTypeOK' /\ Apart' /\ Owned' /\ Room' /\ twice' \subseteq broken' /\ ReleasedOnce'
  BY <1>1, <1>2, <1>3, <1>4, HeapKept
<1>6. Constructing' /\ Destroying' BY <1>1 DEF Constructing, Destroying
<1> QED BY <1>2, <1>5, <1>6 DEF HeapInv

\* The steps of forward() between the buffers.
LEMMA ForwardKeeps ==
    ASSUME HeapInv, CopyThrows \/ GetDone \/ RegionThrows \/ Synchronize \/ flush
    PROVE  HeapInv'
<1>0. prof \in Profile /\ todo \in Seq(Items) BY DEF HeapInv, ResTypeOK
<1>1. CASE CopyThrows
  <2>1. phase = "get" /\ phase' = "threw" /\ todo' = <<>>
        /\ UNCHANGED <<ptr, live, size, cap, broken, twice, step, held, prof>>
    BY <1>1 DEF CopyThrows, heapVars, profVars
  <2>2. phase \in InStep /\ phase' \in Running \union {"threw", "idle"} /\ ~(phase' \in Running)
    BY <2>1 DEF InStep, Running
  <2> QED BY <1>0, <2>1, <2>2, StepGoesOn, Nothing
<1>2. CASE GetDone
  <2>1. phase = "get" /\ phase' = "kernels" /\ todo = <<>>
        /\ UNCHANGED <<ptr, live, size, cap, broken, twice, step, held, prof>>
    BY <1>2 DEF GetDone, heapVars, profVars
  <2>2. phase \in InStep /\ phase' \in Running \union {"threw", "idle"} BY <2>1 DEF InStep, Running
  <2>3. todo' \in Seq(Items)
    <3>1. PICK n \in Nat : n = LayerScopes * Layers BY ResourcesAssumption
    <3>2. PICK l : l = [k \in 1..n |-> "layer"] OBVIOUS
    <3>3. l \in Seq(Items) BY <3>2 DEF Items
    <3>4. <<"embed">> \in Seq(Items) /\ <<"head">> \in Seq(Items) BY DEF Items
    <3>5. <<"embed">> \o l \in Seq(Items) BY <3>3, <3>4
    <3>6. todo' = <<"head">> \/ todo' = <<"embed">> \o l BY <1>2, <3>1, <3>2 DEF GetDone
    <3> QED BY <3>4, <3>5, <3>6
  <2> QED BY <1>0, <2>1, <2>2, <2>3, StepGoesOn
<1>3. CASE RegionThrows
  <2>1. phase = "region" /\ phase' = "threw" /\ todo' = <<>>
        /\ UNCHANGED <<ptr, live, size, cap, broken, twice, step, held, prof>>
    BY <1>3 DEF RegionThrows, heapVars, profVars
  <2>2. phase \in InStep /\ phase' \in Running \union {"threw", "idle"} /\ phase # "get"
    BY <2>1 DEF InStep, Running
  <2> QED BY <1>0, <2>1, <2>2, StepGoesOn, Nothing
<1>4. CASE Synchronize
  <2>1. phase = "kernels" /\ phase' \in {"sync", "threw"} /\ todo' = todo
        /\ UNCHANGED <<ptr, live, size, cap, broken, twice, step, held, prof>>
    BY <1>4 DEF Synchronize, heapVars, profVars
  <2>2. phase \in InStep /\ phase' \in Running \union {"threw", "idle"} /\ phase # "get"
    BY <2>1 DEF InStep, Running
  <2> QED BY <1>0, <2>1, <2>2, StepGoesOn
<1>5. CASE flush
  <2>1. phase = "sync" /\ phase' \in {"idle", "threw"} /\ todo' = todo
        /\ prof' = [prof EXCEPT !.spans = <<>>, !.next = 0, !.start = 0]
        /\ UNCHANGED <<ptr, live, size, cap, broken, twice, step, held>>
    BY <1>5 DEF flush, heapVars, flushed_spans
  <2>2. phase \in InStep /\ phase' \in Running \union {"threw", "idle"} /\ phase # "get"
    BY <2>1 DEF InStep, Running
  <2>3. prof' \in Profile
    <3>1. <<>> \in Seq([a : Nat, b : Nat]) /\ prof.pool \in Nat /\ prof.failures \in Nat BY <1>0 DEF Profile
    <3>2. prof' = [pool |-> prof.pool, next |-> 0, start |-> 0, spans |-> <<>>, failures |-> prof.failures]
      BY <1>0, <2>1 DEF Profile
    <3> QED BY <3>1, <3>2 DEF Profile
  <2> QED BY <1>0, <2>1, <2>2, <2>3, StepGoesOn
<1> QED BY <1>1, <1>2, <1>3, <1>4, <1>5

\* mark() takes the next event, or fails to make one.
LEMMA MarkIs ==
    ASSUME prof \in Profile, NEW r \in mark(prof)
    PROVE  /\ r.prof \in Profile /\ r.prof.spans = prof.spans
           /\ \/ /\ r.prof.next = prof.next + 1
                 /\ r.prof.pool = IF prof.next < prof.pool THEN prof.pool ELSE prof.pool + 1
                 /\ r.stamp = [stamp EXCEPT ![prof.next] = Max(Range(stamp)) + 1]
              \/ /\ ~(prof.next < prof.pool)
                 /\ r.prof.next = prof.next /\ r.prof.pool = prof.pool /\ r.stamp = stamp
<1>1. PICK u : u = [stamp EXCEPT ![prof.next] = Max(Range(stamp)) + 1] OBVIOUS
<1>2. PICK p1 : p1 = [prof EXCEPT !.next = @ + 1] OBVIOUS
<1>3. PICK p0, p2 : p0 = [prof EXCEPT !.pool = @ + 1] /\ p2 = [p0 EXCEPT !.next = @ + 1] OBVIOUS
<1>4. PICK p3 : p3 = [prof EXCEPT !.failures = @ + 1] OBVIOUS
<1>5. p1 \in Profile /\ p1.spans = prof.spans /\ p1.next = prof.next + 1 /\ p1.pool = prof.pool
  BY <1>2 DEF Profile
<1>a. p0 \in Profile /\ p0.spans = prof.spans /\ p0.next = prof.next /\ p0.pool = prof.pool + 1
  BY <1>3 DEF Profile
<1>6. p2 \in Profile /\ p2.spans = prof.spans /\ p2.next = prof.next + 1 /\ p2.pool = prof.pool + 1
  <2>1. p0 \in Profile /\ p2 = [p0 EXCEPT !.next = @ + 1] BY <1>3, <1>a
  <2>2. p2 \in Profile /\ p2.spans = p0.spans /\ p2.next = p0.next + 1 /\ p2.pool = p0.pool BY <2>1, SMTT(20) DEF Profile
  <2> QED BY <1>a, <2>2
<1>7. p3 \in Profile /\ p3.spans = prof.spans /\ p3.next = prof.next /\ p3.pool = prof.pool
  BY <1>4 DEF Profile
<1>9. \/ prof.next < prof.pool /\ r = [prof |-> p1, stamp |-> u]
      \/ ~(prof.next < prof.pool) /\ r = [prof |-> p2, stamp |-> u]
      \/ ~(prof.next < prof.pool) /\ r = [prof |-> p3, stamp |-> stamp]
  BY <1>1, <1>2, <1>3, <1>4, <1>a DEF mark
<1>10. CASE prof.next < prof.pool /\ r = [prof |-> p1, stamp |-> u]
  <2>1. r.prof = p1 /\ r.stamp = u BY <1>10
  <2> QED BY <1>1, <1>5, <1>10, <2>1
<1>11. CASE ~(prof.next < prof.pool) /\ r = [prof |-> p2, stamp |-> u]
  <2>1. r.prof = p2 /\ r.stamp = u BY <1>11
  <2> QED BY <1>1, <1>6, <1>11, <2>1
<1>12. CASE ~(prof.next < prof.pool) /\ r = [prof |-> p3, stamp |-> stamp]
  <2>1. r.prof = p3 /\ r.stamp = stamp BY <1>12
  <2> QED BY <1>7, <1>12, <2>1
<1> QED BY <1>9, <1>10, <1>11, <1>12

\* The scope of a region changes the profile only.
LEMMA ScopeKeeps == ASSUME HeapInv, ScopeBegin \/ ScopeEnd PROVE HeapInv'
<1>0. prof \in Profile /\ todo \in Seq(Items) BY DEF HeapInv, ResTypeOK
<1>1. CASE ScopeBegin
  <2>1. phase = "kernels" /\ phase' = "region" /\ todo' = todo /\ todo # <<>>
        /\ UNCHANGED <<ptr, live, size, cap, broken, twice, step, held>>
    BY <1>1 DEF ScopeBegin, heapVars
  <2>2. phase \in InStep /\ phase' \in Running \union {"threw", "idle"} /\ phase # "get"
    BY <2>1 DEF InStep, Running
  <2>3. prof' \in Profile
    <3>1. CASE on
      <4>1. PICK r \in mark(prof) : prof' = [r.prof EXCEPT !.start = prof.next] BY <1>1, <3>1 DEF ScopeBegin
      <4>2. r.prof \in Profile BY <1>0, MarkIs
      <4> QED BY <1>0, <4>1, <4>2 DEF Profile
    <3>2. CASE ~on BY <1>0, <1>1, <3>2 DEF ScopeBegin
    <3> QED BY <3>1, <3>2
  <2> QED BY <1>0, <2>1, <2>2, <2>3, StepGoesOn
<1>2. CASE ScopeEnd
  <2>1. phase = "region" /\ phase' = "kernels" /\ todo' = Tail(todo)
        /\ UNCHANGED <<ptr, live, size, cap, broken, twice, step, held>>
    BY <1>2 DEF ScopeEnd, heapVars
  <2>2. phase \in InStep /\ phase' \in Running \union {"threw", "idle"} /\ phase # "get"
    BY <2>1 DEF InStep, Running
  <2>3. prof' \in Profile
    <3>1. CASE on
      <4>1. PICK r \in mark(prof) :
                prof' = [r.prof EXCEPT !.spans = Append(@, [a |-> prof.start, b |-> prof.next])]
        BY <1>2, <3>1 DEF ScopeEnd
      <4>2. r.prof \in Profile BY <1>0, MarkIs
      <4>3. [a |-> prof.start, b |-> prof.next] \in [a : Nat, b : Nat] BY <1>0 DEF Profile
      <4>4. r.prof.spans \in Seq([a : Nat, b : Nat]) BY <4>2 DEF Profile
      <4>5. Append(r.prof.spans, [a |-> prof.start, b |-> prof.next]) \in Seq([a : Nat, b : Nat]) BY <4>3, <4>4
      <4> QED BY <4>1, <4>2, <4>5 DEF Profile
    <3>2. CASE ~on BY <1>0, <1>2, <3>2 DEF ScopeEnd
    <3> QED BY <3>1, <3>2
  <2>4. todo' \in Seq(Items)
    <3>1. todo # <<>> BY <2>1 DEF HeapInv, Getting
    <3> QED BY <1>0, <2>1, <3>1, OneLess
  <2> QED BY <2>1, <2>2, <2>3, <2>4, StepGoesOn
<1> QED BY <1>1, <1>2

\* The logits get their buffer behind the layers.
LEMMA GetLogitsKeeps == ASSUME HeapInv, GetLogits PROVE HeapInv'
<1>1. /\ phase = "kernels" /\ phase' = "get" /\ todo' = <<Logits>> /\ step.rows > 0 /\ Logits \notin DOMAIN held
      /\ UNCHANGED <<ptr, live, size, cap, broken, twice, prof, step, held>>
  BY DEF GetLogits, heapVars, profVars
<1>2. Logits \in Items BY MemberFacts, BufferSets DEF Items
<1>3. todo' \in Seq(Items) BY <1>1, <1>2
<1>4. phase' \in Phases \ {"new", "gone"} /\ (phase' \in Steady \union {"threw"} => phase \in Steady)
  BY <1>1 DEF Phases, Steady
<1>5. prof' \in Profile BY <1>1 DEF HeapInv, ResTypeOK
<1>6. ResTypeOK' /\ Apart' /\ Owned' /\ Room' /\ twice' \subseteq broken' /\ ReleasedOnce'
  BY <1>1, <1>3, <1>4, <1>5, HeapKept
<1>7. Constructing' /\ Destroying' BY <1>1 DEF Constructing, Destroying
<1>8. /\ step \in Demands
      /\ \A b \in DOMAIN held : b \in Buffers /\ held[b] = ptr[b] /\ cap[b] >= Need(b)
  BY <1>1 DEF HeapInv, Given, InStep, Running
<1>9. \A b : Need(b)' = Need(b) BY <1>1, SameNeed
<1>10. Given' BY <1>1, <1>8, <1>9 DEF Given
<1>11. Needed \subseteq DOMAIN held BY <1>1 DEF HeapInv, Getting, Running
<1>12. Getting' BY <1>1, <1>11 DEF Getting, Running
<1> QED BY <1>6, <1>7, <1>10, <1>12 DEF HeapInv

\* The destructor has all members to release.
LEMMA DestroyKeeps == ASSUME HeapInv, Destroy PROVE HeapInv'
<1>1. /\ phase \in {"idle", "threw"} /\ phase' = "destroy" /\ todo' = DestroyOrder
      /\ UNCHANGED <<ptr, live, size, cap, broken, twice, prof>>
  BY DEF Destroy, heapVars, profVars
<1>2. PICK z \in Seq(Members) : z = DestroyOrder BY DestroyList
<1>3. /\ Distinct(z) /\ ToSet(z) = Members
      /\ \A i, j \in 1..Len(z) : z[i] = Embed /\ z[j] = LmHead => j < i
  BY <1>2, DestroyList DEF Members
<1>4. z \in Seq(Items) BY DEF Items
<1>5. phase' \in Phases \ {"new", "gone"} /\ (phase' \in Steady \union {"threw"} => phase \in Steady)
  BY <1>1 DEF Phases, Steady
<1>6. prof' \in Profile BY <1>1 DEF HeapInv, ResTypeOK
<1>7. ResTypeOK' /\ Apart' /\ Owned' /\ Room' /\ twice' \subseteq broken' /\ ReleasedOnce'
  BY <1>1, <1>2, <1>4, <1>5, <1>6, HeapKept
<1>8. Constructing' /\ Given' /\ Getting' BY <1>1 DEF Constructing, Given, Getting, InStep, Running
<1>9. /\ \A a \in live : \E m \in Members : ptr[m] = a
      /\ \A m \in Members \ broken : ptr[m] # Null => ptr[m] \in live
  BY <1>1 DEF HeapInv, Owned, Steady
<1>10. Embed \in Members BY MemberFacts
<1>11. todo' = z BY <1>1, <1>2
<1>12. Destroying' BY <1>1, <1>3, <1>9, <1>10, <1>11 DEF Destroying
<1> QED BY <1>7, <1>8, <1>12 DEF HeapInv

\* With the last member nothing is left.
LEMMA ReleaseDoneKeeps == ASSUME HeapInv, ReleaseDone PROVE HeapInv'
<1>1. /\ phase = "destroy" /\ phase' = "gone" /\ todo = <<>> /\ todo' = todo /\ prof' = [prof EXCEPT !.pool = 0]
      /\ UNCHANGED <<ptr, live, size, cap, broken, twice>>
  BY DEF ReleaseDone, heapVars
<1>2. prof \in Profile BY DEF HeapInv, ResTypeOK
<1>3. prof' \in Profile /\ prof'.pool = 0 BY <1>1, <1>2 DEF Profile
<1>4. ToSet(todo) = {} BY <1>1, Nothing
<1>5. live = {} BY <1>1, <1>4 DEF HeapInv, Destroying
<1>6. ResTypeOK' BY <1>1, <1>3 DEF HeapInv, ResTypeOK, Phases
<1>7. Apart' BY <1>1 DEF HeapInv, Apart
<1>8. Owned' /\ Room' /\ Constructing' /\ Given' /\ Getting' /\ Destroying'
  BY <1>1 DEF Owned, Room, Constructing, Given, Getting, Destroying, Steady, InStep, Running
<1>9. twice' \subseteq broken' BY <1>1 DEF HeapInv
<1>10. ReleasedOnce' BY <1>1, <1>3, <1>5, <1>9 DEF ReleasedOnce
<1> QED BY <1>6, <1>7, <1>8, <1>9, <1>10 DEF HeapInv

-----------------------------------------------------------------------------
(* The actions that change the heap.                                       *)

\* A new allocation is nobody's.
LEMMA Fresh ==
    ASSUME HeapInv, NEW m \in Members, NEW n \in Nat, device_alloc(m, n)
    PROVE  /\ size' \in Seq(Nat) /\ Len(size') = NewAlloc /\ NewAlloc \in Nat \ {0} /\ size'[NewAlloc] = n
           /\ \A a \in 1..Len(size) : size'[a] = size[a] /\ a # NewAlloc /\ a \in 1..NewAlloc
           /\ ptr' \in [Members -> Nat] /\ ptr'[m] = NewAlloc /\ \A k \in Members \ {m} : ptr'[k] = ptr[k]
           /\ \A k \in Members : ptr'[k] <= NewAlloc /\ ptr[k] # NewAlloc
           /\ live \subseteq 1..NewAlloc /\ NewAlloc \notin live
<1>1. /\ ptr \in [Members -> Nat] /\ size \in Seq(Nat) /\ live \subseteq 1..Len(size)
      /\ \A k \in Members : ptr[k] <= Len(size)
  BY DEF HeapInv, ResTypeOK
<1>2. ptr' = [ptr EXCEPT ![m] = NewAlloc] /\ size' = Append(size, n) BY DEF device_alloc
<1>3. NewAlloc = Len(size) + 1 /\ Len(size) \in Nat BY <1>1 DEF NewAlloc
<1>4. /\ size' \in Seq(Nat) /\ Len(size') = Len(size) + 1 /\ size'[Len(size) + 1] = n
      /\ \A a \in 1..Len(size) : size'[a] = size[a]
  BY <1>1, <1>2
<1>5. ptr' \in [Members -> Nat] /\ ptr'[m] = NewAlloc /\ \A k \in Members \ {m} : ptr'[k] = ptr[k]
  BY <1>1, <1>2, <1>3
<1>6. \A k \in Members : ptr'[k] <= NewAlloc /\ ptr[k] # NewAlloc BY <1>1, <1>3, <1>5
<1>7. live \subseteq 1..NewAlloc /\ NewAlloc \notin live BY <1>1, <1>3
<1>8. \A a \in 1..Len(size) : a # NewAlloc /\ a \in 1..NewAlloc BY <1>3
<1> QED BY <1>3, <1>4, <1>5, <1>6, <1>7, <1>8

\* It leaves the members apart.
LEMMA FreshApart ==
    ASSUME HeapInv, NEW m \in Members, NEW n \in Nat, device_alloc(m, n)
    PROVE  Apart'
<1>1. /\ ptr'[m] = NewAlloc /\ \A k \in Members \ {m} : ptr'[k] = ptr[k]
      /\ \A k \in Members : ptr[k] # NewAlloc
  BY Fresh
<1>2. \A k, l \in Members : ptr[k] # Null /\ ptr[k] = ptr[l] => k = l \/ {k, l} = {LmHead, Embed}
  BY DEF HeapInv, Apart
<1>3. ASSUME NEW k \in Members, NEW l \in Members, ptr'[k] # Null, ptr'[k] = ptr'[l]
      PROVE  k = l \/ {k, l} = {LmHead, Embed}
  <2>1. CASE k = m \/ l = m BY <1>1, <1>3, <2>1
  <2>2. CASE k # m /\ l # m BY <1>1, <1>2, <1>3, <2>2
  <2> QED BY <2>1, <2>2
<1> QED BY <1>3 DEF Apart

\* A buffer is nobody else's.
LEMMA BufferApart ==
    ASSUME HeapInv, NEW b \in Buffers, NEW m \in Members \ {b}, ptr[b] # Null
    PROVE  ptr[m] # ptr[b]
<1>1. b \in Members /\ b # LmHead /\ b # Embed BY MemberFacts
<1>2. SUFFICES ASSUME ptr[m] = ptr[b] PROVE FALSE OBVIOUS
<1>3. m = b \/ {b, m} = {LmHead, Embed} BY <1>1, <1>2 DEF HeapInv, Apart
<1> QED BY <1>1, <1>3

\* A member of the constructor's list is allocated.
LEMMA ConstructKeeps == ASSUME HeapInv, Construct PROVE HeapInv'
<1>1. /\ phase = "construct" /\ phase' = "construct" /\ todo # <<>> /\ todo' = Tail(todo)
      /\ ~Absent(Head(todo)) /\ device_alloc(Head(todo), 1) /\ live' = live \union {NewAlloc}
      /\ UNCHANGED <<cap, broken, twice, prof, cfg>>
  BY DEF Construct, profVars
<1>2. todo \in Seq(Items) BY DEF HeapInv, ResTypeOK
<1>3. PICK m : m = Head(todo) OBVIOUS
<1>4. /\ Distinct(todo) /\ ToSet(todo) \subseteq Members
      /\ \A k \in ToSet(todo) : ptr[k] = Null
  BY <1>1 DEF HeapInv, Constructing
<1>5. /\ todo' \in Seq(Items) /\ ToSet(todo) = {m} \union ToSet(todo') /\ Distinct(todo') /\ m \notin ToSet(todo')
  BY <1>1, <1>2, <1>3, <1>4, OneLess
<1>6. m \in Members /\ ptr[m] = Null BY <1>4, <1>5
<1>7. /\ size' \in Seq(Nat) /\ Len(size') = NewAlloc /\ NewAlloc \in Nat \ {0}
      /\ ptr' \in [Members -> Nat] /\ ptr'[m] = NewAlloc /\ \A k \in Members \ {m} : ptr'[k] = ptr[k]
      /\ \A k \in Members : ptr'[k] <= NewAlloc
      /\ live \subseteq 1..NewAlloc
  BY <1>1, <1>3, <1>6, Fresh
<1>8. Apart' BY <1>1, <1>3, <1>6, FreshApart
<1>9. ResTypeOK'
  <2>1. live' \subseteq 1..Len(size') BY <1>1, <1>7
  <2>2. prof' \in Profile /\ cap' \in [Buffers -> Nat] /\ broken' \subseteq Buffers
    BY <1>1 DEF HeapInv, ResTypeOK
  <2> QED BY <1>1, <1>5, <1>7, <2>1, <2>2 DEF ResTypeOK, Phases, Steady
<1>10. /\ \A a \in live : \E k \in Members : ptr[k] = a
       /\ \A k \in Members \ broken : ptr[k] # Null => ptr[k] \in live
       /\ 0 \notin live
  BY <1>1 DEF HeapInv, Owned, Steady, ResTypeOK
<1>11. Owned'
  <2>1. ASSUME NEW a \in live' PROVE \E k \in Members : ptr'[k] = a
    <3>1. CASE a = NewAlloc BY <1>6, <1>7, <3>1
    <3>2. CASE a \in live
      <4>1. PICK k \in Members : ptr[k] = a BY <1>10, <3>2
      <4>2. k # m BY <1>6, <1>10, <3>2, <4>1 DEF Null
      <4> QED BY <1>7, <4>1, <4>2
    <3> QED BY <1>1, <3>1, <3>2
  <2>2. ASSUME NEW k \in Members \ broken', ptr'[k] # Null PROVE ptr'[k] \in live'
    BY <1>1, <1>7, <1>10, <2>2
  <2> QED BY <2>1, <2>2 DEF Owned
<1>12. \A b \in Buffers : cap[b] = 0 BY <1>1 DEF HeapInv, Constructing
<1>13. Room' BY <1>1, <1>12 DEF HeapInv, Room, Steady
<1>14. Constructing'
  <2>1. ToSet(todo') \subseteq Members /\ \A k \in ToSet(todo') : ptr'[k] = Null BY <1>4, <1>5, <1>7
  <2> QED BY <1>1, <1>5, <1>12, <2>1 DEF Constructing
<1>15. Given' /\ Getting' /\ Destroying' /\ ReleasedOnce' /\ twice' \subseteq broken'
  BY <1>1 DEF HeapInv, Given, Getting, Destroying, ReleasedOnce, InStep, Running
<1> QED BY <1>8, <1>9, <1>11, <1>13, <1>14, <1>15 DEF HeapInv

\* An exception in the constructor.
LEMMA ConstructThrowsKeeps == ASSUME HeapInv, ConstructThrows PROVE HeapInv'
<1>1. /\ phase' = "failed" /\ todo' = <<>> /\ UNCHANGED <<ptr, cap, broken, twice, prof>>
      /\ \/ UNCHANGED <<live, size>>
         \/ live' = live \union {NewAlloc} /\ size' = Append(size, 1)
  BY DEF ConstructThrows, profVars
<1>2. /\ ptr \in [Members -> Nat] /\ size \in Seq(Nat) /\ live \subseteq 1..Len(size)
      /\ \A k \in Members : ptr[k] <= Len(size)
      /\ prof' \in Profile /\ cap' \in [Buffers -> Nat] /\ broken' \subseteq Buffers
  BY <1>1 DEF HeapInv, ResTypeOK
<1>3. /\ size' \in Seq(Nat) /\ live' \subseteq 1..Len(size') /\ \A k \in Members : ptr'[k] <= Len(size')
  <2>1. CASE UNCHANGED <<live, size>> BY <1>1, <1>2, <2>1
  <2>2. CASE live' = live \union {NewAlloc} /\ size' = Append(size, 1)
    <3>1. size' \in Seq(Nat) /\ Len(size') = Len(size) + 1 /\ Len(size) \in Nat BY <1>2, <2>2
    <3>2. PICK n \in Nat : n = Len(size) BY <1>2
    <3>a. NewAlloc = n + 1 /\ live \subseteq 1..n BY <1>2, <3>2 DEF NewAlloc
    <3>b. 1..n \subseteq 1..n + 1 /\ n + 1 \in 1..n + 1 OBVIOUS
    <3>3. live' \subseteq 1..n + 1 BY <2>2, <3>a, <3>b
    <3>4. \A k \in Members : ptr[k] \in Nat /\ ptr[k] <= n BY <1>2, <3>2
    <3>5. \A k \in Members : ptr'[k] <= n + 1 BY <1>1, <3>4
    <3> QED BY <3>1, <3>2, <3>3, <3>5
  <2> QED BY <1>1, <2>1, <2>2
<1>4. ResTypeOK' BY <1>1, <1>2, <1>3, Nothing DEF ResTypeOK, Phases
<1>5. Apart' BY <1>1 DEF HeapInv, Apart
<1>6. /\ Owned' /\ Room' /\ Constructing' /\ Given' /\ Getting' /\ Destroying' /\ ReleasedOnce'
      /\ twice' \subseteq broken'
  BY <1>1 DEF HeapInv, Owned, Room, Constructing, Given, Getting, Destroying, ReleasedOnce, Steady, InStep, Running
<1> QED BY <1>4, <1>5, <1>6 DEF HeapInv

\* An absent member is passed over; a tied head gets the embedding's pointer.
LEMMA ConstructSkipsKeeps == ASSUME HeapInv, ConstructSkips PROVE HeapInv'
<1>1. /\ phase = "construct" /\ phase' = "construct" /\ todo # <<>> /\ todo' = Tail(todo)
      /\ ptr' = IF Head(todo) = LmHead THEN [ptr EXCEPT ![LmHead] = ptr[Embed]] ELSE ptr
      /\ UNCHANGED <<live, size, cap, broken, twice, prof>>
  BY DEF ConstructSkips, profVars, LmHead, Embed
<1>2. /\ Distinct(todo) /\ ToSet(todo) \subseteq Members /\ \A k \in ToSet(todo) : ptr[k] = Null
      /\ \A b \in Buffers : cap[b] = 0
  BY <1>1 DEF HeapInv, Constructing
<1>3. todo \in Seq(Items) /\ prof \in Profile BY DEF HeapInv, ResTypeOK
<1>4. /\ todo' \in Seq(Items) /\ ToSet(todo) = {Head(todo)} \union ToSet(todo')
      /\ Distinct(todo') /\ Head(todo) \notin ToSet(todo')
  BY <1>1, <1>2, <1>3, OneLess
<1>5. Given' /\ Getting' /\ Destroying' BY <1>1 DEF Given, Getting, Destroying, InStep, Running
<1>6. CASE Head(todo) # LmHead
  <2>1. ptr' = ptr BY <1>1, <1>6
  <2>2. phase' \in Phases \ {"new", "gone"} /\ (phase' \in Steady \union {"threw"} => phase \in Steady)
    BY <1>1 DEF Phases, Steady
  <2>3. ResTypeOK' /\ Apart' /\ Owned' /\ Room' /\ twice' \subseteq broken' /\ ReleasedOnce'
    BY <1>1, <1>3, <1>4, <2>1, <2>2, HeapKept
  <2>4. Constructing' BY <1>1, <1>2, <1>4, <2>1 DEF Constructing
  <2> QED BY <1>5, <2>3, <2>4 DEF HeapInv
<1>7. CASE Head(todo) = LmHead
  <2>1. /\ ptr \in [Members -> Nat] /\ \A k \in Members : ptr[k] <= Len(size)
        /\ 0 \notin live
    BY DEF HeapInv, ResTypeOK
  <2>2. LmHead \in Members /\ Embed \in Members /\ LmHead # Embed /\ LmHead \notin Buffers BY MemberFacts
  <2>3. ptr'[LmHead] = ptr[Embed] /\ \A k \in Members \ {LmHead} : ptr'[k] = ptr[k] BY <1>1, <1>7, <2>1, <2>2
  <2>4. ptr[LmHead] = Null BY <1>2, <1>4, <1>7
  <2>5. ptr' \in [Members -> Nat] /\ \A k \in Members : ptr'[k] <= Len(size)
    BY <1>1, <1>7, <2>1, <2>2, <2>3
  <2>6. ResTypeOK' BY <1>1, <1>3, <1>4, <2>5 DEF HeapInv, ResTypeOK
  <2>7. \A k, l \in Members : ptr[k] # Null /\ ptr[k] = ptr[l] => k = l \/ {k, l} = {LmHead, Embed}
    BY DEF HeapInv, Apart
  <2>8. ASSUME NEW k \in Members \ {LmHead}, ptr[k] = ptr[Embed], ptr[k] # Null PROVE k = Embed
    BY <2>2, <2>7, <2>8
  <2>9. ASSUME NEW k \in Members, NEW l \in Members, ptr'[k] # Null, ptr'[k] = ptr'[l]
        PROVE  k = l \/ {k, l} = {LmHead, Embed}
    <3>1. CASE k = LmHead /\ l # LmHead BY <2>3, <2>8, <2>9, <3>1
    <3>2. CASE l = LmHead /\ k # LmHead BY <2>3, <2>8, <2>9, <3>2
    <3>3. CASE k # LmHead /\ l # LmHead BY <2>3, <2>7, <2>9, <3>3
    <3> QED BY <3>1, <3>2, <3>3
  <2>10. Apart' BY <2>9 DEF Apart
  <2>11. /\ \A a \in live : \E k \in Members : ptr[k] = a
         /\ \A k \in Members \ broken : ptr[k] # Null => ptr[k] \in live
    BY <1>1 DEF HeapInv, Owned, Steady
  <2>12. broken = {} BY <1>1 DEF HeapInv, Room, Steady
  <2>13. ASSUME NEW a \in live PROVE \E k \in Members : ptr'[k] = a
    <3>1. PICK k \in Members : ptr[k] = a BY <2>11
    <3>2. k # LmHead BY <2>1, <2>4, <3>1 DEF Null
    <3> QED BY <2>3, <3>1, <3>2
  <2>14. ASSUME NEW k \in Members, ptr'[k] # Null PROVE ptr'[k] \in live
    BY <2>2, <2>3, <2>11, <2>12, <2>14
  <2>15. Owned' BY <1>1, <2>13, <2>14 DEF Owned
  <2>16. Room' BY <1>1, <1>2, <2>12 DEF Room
  <2>17. \A k \in ToSet(todo') : ptr'[k] = Null BY <1>2, <1>4, <1>7, <2>3
  <2>18. Constructing' BY <1>1, <1>2, <1>4, <2>17 DEF Constructing
  <2>19. ReleasedOnce' /\ twice' \subseteq broken' BY <1>1 DEF HeapInv, ReleasedOnce
  <2> QED BY <1>5, <2>6, <2>10, <2>15, <2>16, <2>18, <2>19 DEF HeapInv
<1> QED BY <1>6, <1>7

\* The model is there.
LEMMA ConstructDoneKeeps == ASSUME HeapInv, ConstructDone PROVE HeapInv'
<1>1. phase = "construct" /\ phase' = "idle" /\ UNCHANGED <<todo, ptr, live, size, cap, broken, twice, prof>>
  BY DEF ConstructDone, heapVars, profVars
<1>2. prof' \in Profile /\ todo' \in Seq(Items) BY <1>1 DEF HeapInv, ResTypeOK
<1>3. phase' \in Phases \ {"new", "gone"} /\ (phase' \in Steady \union {"threw"} => phase \in Steady)
  BY <1>1 DEF Phases, Steady
<1>4. ResTypeOK' /\ Apart' /\ Owned' /\ Room' /\ twice' \subseteq broken' /\ ReleasedOnce'
  BY <1>1, <1>2, <1>3, HeapKept
<1>5. Constructing' /\ Given' /\ Getting' /\ Destroying'
  BY <1>1 DEF Constructing, Given, Getting, Destroying, InStep, Running
<1> QED BY <1>4, <1>5 DEF HeapInv

\* A buffer that is too small is replaced.
LEMMA GetGrowsKeeps == ASSUME HeapInv, GetGrows PROVE HeapInv'
<1>1. PICK b : b = Head(todo) OBVIOUS
<1>2. /\ phase = "get" /\ phase' = "get" /\ todo # <<>> /\ todo' = Tail(todo) /\ step' = step
      /\ device_alloc(b, Need(b)) /\ live' = (live \ {ptr[b]}) \union {NewAlloc}
      /\ cap' = [cap EXCEPT ![b] = Need(b)] /\ Got(b, NewAlloc)
      /\ UNCHANGED <<broken, twice, prof>>
  BY <1>1 DEF GetGrows, profVars
<1>3. b \in Buffers /\ b \in Members BY <1>1, <1>2, NextBuffer, MemberFacts
<1>4. step \in Demands BY <1>2 DEF HeapInv, Given, InStep
<1>5. Need(b) \in Nat BY <1>3, <1>4, Sizes
<1>6. /\ size' \in Seq(Nat) /\ Len(size') = NewAlloc /\ NewAlloc \in Nat \ {0} /\ size'[NewAlloc] = Need(b)
      /\ \A a \in 1..Len(size) : size'[a] = size[a]
      /\ ptr' \in [Members -> Nat] /\ ptr'[b] = NewAlloc /\ \A k \in Members \ {b} : ptr'[k] = ptr[k]
      /\ \A k \in Members : ptr'[k] <= NewAlloc
      /\ live \subseteq 1..NewAlloc
  BY <1>2, <1>3, <1>5, Fresh
<1>7. Apart' BY <1>2, <1>3, <1>5, FreshApart
<1>8. /\ cap \in [Buffers -> Nat] /\ prof \in Profile /\ live \subseteq 1..Len(size) /\ 0 \notin live
      /\ broken \subseteq Buffers
  BY DEF HeapInv, ResTypeOK
<1>9. cap' \in [Buffers -> Nat] /\ cap'[b] = Need(b) /\ \A c \in Buffers \ {b} : cap'[c] = cap[c]
  BY <1>2, <1>3, <1>5, <1>8
<1>10. \A c \in Buffers \ {b} : ptr'[c] = ptr[c] BY <1>6, MemberFacts
<1>11. todo' \in Seq(Items) /\ Given' /\ Getting' BY <1>1, <1>2, <1>5, <1>6, <1>9, <1>10, OneMore
<1>12. ResTypeOK'
  <2>a. NewAlloc \in 1..NewAlloc BY <1>6
  <2>1. live' \subseteq 1..Len(size') BY <1>2, <1>6, <2>a, Zenon
  <2> QED BY <1>2, <1>6, <1>8, <1>9, <1>11, <2>1 DEF ResTypeOK, Phases, Steady
<1>13. /\ \A a \in live : \E k \in Members : ptr[k] = a
       /\ \A k \in Members \ broken : ptr[k] # Null => ptr[k] \in live
  BY <1>2 DEF HeapInv, Owned, Steady
<1>14. broken = {} /\ \A c \in Buffers : cap[c] > 0 => ptr[c] \in live /\ size[ptr[c]] = cap[c]
  BY <1>2 DEF HeapInv, Room, Steady
<1>15. ASSUME NEW k \in Members \ {b}, ptr[k] \in live PROVE ptr'[k] \in live'
  <2>1. ptr[k] # ptr[b]
    <3>1. CASE ptr[b] = Null BY <1>8, <1>15, <3>1 DEF Null
    <3>2. CASE ptr[b] # Null BY <1>3, <3>2, BufferApart
    <3> QED BY <3>1, <3>2
  <2> QED BY <1>2, <1>6, <1>15, <2>1
<1>16. ASSUME NEW a \in live' PROVE \E k \in Members : ptr'[k] = a
  <2>1. CASE a = NewAlloc BY <1>3, <1>6, <2>1
  <2>2. CASE a \in live /\ a # ptr[b]
    <3>1. PICK k \in Members : ptr[k] = a BY <1>13, <2>2
    <3> QED BY <1>6, <2>2, <3>1
  <2> QED BY <1>2, <2>1, <2>2
<1>17. ASSUME NEW k \in Members, ptr'[k] # Null PROVE ptr'[k] \in live'
  <2>1. CASE k = b BY <1>2, <1>6, <2>1
  <2>2. CASE k # b
    <3>1. ptr[k] \in live BY <1>6, <1>13, <1>14, <1>17, <2>2
    <3> QED BY <1>15, <2>2, <3>1
  <2> QED BY <2>1, <2>2
<1>18. Owned' BY <1>16, <1>17 DEF Owned
<1>19. ASSUME NEW c \in Buffers, cap'[c] > 0 PROVE ptr'[c] \in live' /\ size'[ptr'[c]] = cap'[c]
  <2>1. CASE c = b BY <1>2, <1>6, <1>9, <2>1
  <2>2. CASE c # b
    <3>1. ptr[c] \in live /\ size[ptr[c]] = cap[c] BY <1>9, <1>14, <1>19, <2>2
    <3>2. c \in Members /\ ptr'[c] = ptr[c] BY <1>10, <2>2, MemberFacts
    <3>3. ptr'[c] \in live' BY <1>15, <2>2, <3>1, <3>2
    <3>4. size'[ptr[c]] = size[ptr[c]] BY <1>6, <1>8, <3>1
    <3> QED BY <1>9, <2>2, <3>1, <3>2, <3>3, <3>4
  <2> QED BY <2>1, <2>2
<1>20. Room' BY <1>2, <1>14, <1>19 DEF Room
<1>21. Constructing' /\ Destroying' /\ ReleasedOnce' /\ twice' \subseteq broken'
  BY <1>2 DEF HeapInv, Constructing, Destroying, ReleasedOnce
<1> QED BY <1>7, <1>11, <1>12, <1>18, <1>20, <1>21 DEF HeapInv

\* A buffer that cannot grow may lose its memory, and keeps its pointer.
LEMMA GetThrowsKeeps == ASSUME HeapInv, GetThrows PROVE HeapInv'
<1>1. PICK b : b = Head(todo) OBVIOUS
<1>2. /\ phase = "get" /\ phase' = "threw" /\ todo # <<>> /\ todo' = <<>>
      /\ \/ UNCHANGED <<live, broken>>
         \/ live' = live \ {ptr[b]} /\ broken' = IF ptr[b] = Null THEN broken ELSE broken \union {b}
      /\ UNCHANGED <<ptr, size, cap, twice, prof>>
  BY <1>1 DEF GetThrows, profVars
<1>3. b \in Buffers /\ b \in Members BY <1>1, <1>2, NextBuffer, MemberFacts
<1>4. /\ live \subseteq 1..Len(size) /\ 0 \notin live /\ broken \subseteq Buffers
  BY DEF HeapInv, ResTypeOK
<1>5. live' \subseteq live /\ broken \subseteq broken' /\ broken' \subseteq Buffers BY <1>2, <1>3, <1>4
<1>6. ResTypeOK' BY <1>2, <1>4, <1>5, Nothing DEF HeapInv, ResTypeOK, Phases
<1>7. Apart' BY <1>2 DEF HeapInv, Apart
<1>8. /\ \A a \in live : \E k \in Members : ptr[k] = a
      /\ \A k \in Members \ broken : ptr[k] # Null => ptr[k] \in live
  BY <1>2 DEF HeapInv, Owned, Steady
<1>9. ASSUME NEW k \in Members \ broken', ptr[k] # Null PROVE ptr[k] \in live'
  <2>1. ptr[k] \in live BY <1>5, <1>8, <1>9
  <2>2. CASE UNCHANGED <<live, broken>> BY <2>1, <2>2
  <2>3. CASE live' = live \ {ptr[b]} /\ broken' = IF ptr[b] = Null THEN broken ELSE broken \union {b}
    <3>1. CASE ptr[b] = Null BY <1>9, <2>1, <2>3, <3>1
    <3>2. CASE ptr[b] # Null
      <4>1. k # b BY <1>9, <2>3, <3>2
      <4>2. ptr[k] # ptr[b] BY <1>3, <3>2, <4>1, BufferApart
      <4> QED BY <2>1, <2>3, <4>2
    <3> QED BY <3>1, <3>2
  <2> QED BY <1>2, <2>2, <2>3
<1>10. Owned' BY <1>2, <1>5, <1>8, <1>9 DEF Owned
<1>11. twice' \subseteq broken' BY <1>2, <1>5 DEF HeapInv
<1>12. Room' /\ Constructing' /\ Given' /\ Getting' /\ Destroying' /\ ReleasedOnce'
  BY <1>2 DEF Room, Constructing, Given, Getting, Destroying, ReleasedOnce, Steady, InStep, Running
<1> QED BY <1>6, <1>7, <1>10, <1>11, <1>12 DEF HeapInv

\* A member is released, unless it is null or the embedding under another name.
LEMMA ReleaseKeeps == ASSUME HeapInv, Release PROVE HeapInv'
<1>1. PICK m : m = Head(todo) OBVIOUS
<1>2. /\ phase = "destroy" /\ phase' = "destroy" /\ todo # <<>> /\ todo' = Tail(todo)
      /\ live' = IF Skipped(m) THEN live ELSE live \ {ptr[m]}
      /\ twice' = IF Skipped(m) \/ ptr[m] \in live THEN twice ELSE twice \union {m}
      /\ UNCHANGED <<ptr, size, cap, broken, prof>>
  BY <1>1 DEF Release, profVars
<1>3. todo \in Seq(Items) /\ live \subseteq 1..Len(size) /\ 0 \notin live BY DEF HeapInv, ResTypeOK
<1>4. /\ Distinct(todo) /\ ToSet(todo) \subseteq Members
      /\ \A a \in live : \E k \in ToSet(todo) : ptr[k] = a
      /\ \A k \in ToSet(todo) \ broken : ptr[k] # Null => ptr[k] \in live
      /\ LmHead \in ToSet(todo) => Embed \in ToSet(todo)
      /\ \A i, j \in 1..Len(todo) : todo[i] = Embed /\ todo[j] = LmHead => j < i
  BY <1>2 DEF HeapInv, Destroying
<1>5. /\ todo' \in Seq(Items) /\ m = todo[1] /\ Len(todo) \in Nat \ {0}
      /\ Len(todo') = Len(todo) - 1 /\ \A i \in 1..Len(todo) - 1 : todo'[i] = todo[i + 1]
      /\ ToSet(todo) = {m} \union ToSet(todo')
      /\ Distinct(todo') /\ m \notin ToSet(todo')
  BY <1>1, <1>2, <1>3, <1>4, OneLess
<1>6. m \in Members /\ ToSet(todo') \subseteq Members BY <1>4, <1>5
<1>7. m = Embed => LmHead \notin ToSet(todo)
  <2> SUFFICES ASSUME m = Embed, LmHead \in ToSet(todo) PROVE FALSE OBVIOUS
  <2>1. PICK j \in 1..Len(todo) : todo[j] = LmHead BY <1>3 DEF ToSet
  <2>2. 1 \in 1..Len(todo) BY <1>5
  <2>3. j < 1 BY <1>4, <1>5, <2>1, <2>2
  <2> QED BY <1>5, <2>1, <2>3
<1>8. LmHead # Embed BY MemberFacts
<1>9. Skipped(m) <=> ptr[m] = Null \/ (m = LmHead /\ ptr[m] = ptr[Embed]) BY DEF Skipped, LmHead, Embed
<1>10. ASSUME NEW a \in live' PROVE \E k \in ToSet(todo') : ptr[k] = a
  <2>1. a \in live BY <1>2, <1>10
  <2>2. PICK k \in ToSet(todo) : ptr[k] = a BY <1>4, <2>1
  <2>3. CASE k # m BY <1>5, <2>2, <2>3
  <2>4. CASE k = m
    <3>1. Skipped(m) /\ ptr[m] # Null BY <1>2, <1>3, <1>10, <2>1, <2>2, <2>4 DEF Null
    <3>2. m = LmHead /\ ptr[m] = ptr[Embed] BY <1>9, <3>1
    <3>3. Embed \in ToSet(todo') BY <1>4, <1>5, <1>8, <3>2
    <3> QED BY <2>2, <2>4, <3>2, <3>3
  <2> QED BY <2>3, <2>4
<1>11. ASSUME NEW k \in ToSet(todo') \ broken, ptr[k] # Null PROVE ptr[k] \in live'
  <2>1. ptr[k] \in live /\ k \in Members /\ k # m BY <1>4, <1>5, <1>6, <1>11
  <2>2. CASE Skipped(m) BY <1>2, <2>1, <2>2
  <2>3. CASE ~Skipped(m)
    <3>1. ptr[k] # ptr[m]
      <4> SUFFICES ASSUME ptr[k] = ptr[m] PROVE FALSE OBVIOUS
      <4>1. {k, m} = {LmHead, Embed} BY <1>6, <1>11, <2>1 DEF HeapInv, Apart
      <4>2. CASE m = LmHead
        <5>1. k = Embed BY <1>8, <2>1, <4>1, <4>2
        <5> QED BY <1>9, <2>3, <4>2, <5>1
      <4>3. CASE m = Embed
        <5>1. k = LmHead BY <1>8, <2>1, <4>1, <4>3
        <5> QED BY <1>5, <1>7, <4>3, <5>1
      <4> QED BY <4>1, <4>2, <4>3
    <3> QED BY <1>2, <2>1, <2>3, <3>1
  <2> QED BY <2>2, <2>3
<1>12. LmHead \in ToSet(todo') => Embed \in ToSet(todo') BY <1>4, <1>5, <1>7
<1>13. ASSUME NEW i \in 1..Len(todo'), NEW j \in 1..Len(todo'), todo'[i] = Embed, todo'[j] = LmHead PROVE j < i
  <2>1. i + 1 \in 1..Len(todo) /\ j + 1 \in 1..Len(todo) /\ todo[i + 1] = Embed /\ todo[j + 1] = LmHead
    BY <1>5, <1>13
  <2>2. j + 1 < i + 1 BY <1>4, <2>1
  <2> QED BY <1>5, <2>2
<1>14. Destroying' BY <1>2, <1>5, <1>6, <1>10, <1>11, <1>12, <1>13 DEF Destroying
<1>15. twice' \subseteq broken'
  <2>1. ~Skipped(m) /\ ptr[m] \notin live => m \in broken BY <1>4, <1>5, <1>9
  <2>2. twice \subseteq broken BY DEF HeapInv
  <2> QED BY <1>2, <2>1, <2>2
<1>16. ResTypeOK'
  <2>1. live' \subseteq 1..Len(size) BY <1>2, <1>3
  <2> QED BY <1>2, <1>5, <2>1 DEF HeapInv, ResTypeOK
<1>17. Apart' BY <1>2 DEF HeapInv, Apart
<1>18. Owned' /\ Room' /\ Constructing' /\ Given' /\ Getting' /\ ReleasedOnce'
  BY <1>2 DEF Owned, Room, Constructing, Given, Getting, ReleasedOnce, Steady, InStep, Running
<1> QED BY <1>14, <1>15, <1>16, <1>17, <1>18 DEF HeapInv

\* The invariant of the heap holds at first.
LEMMA HeapInit == ResInit => HeapInv
<1> SUFFICES ASSUME ResInit PROVE HeapInv OBVIOUS
<1>1. /\ phase = "new" /\ todo = <<>> /\ ptr = [m \in Members |-> Null] /\ live = {} /\ size = <<>>
      /\ cap = [b \in Buffers |-> 0] /\ broken = {} /\ twice = {}
      /\ prof = [pool |-> 0, next |-> 0, start |-> 0, spans |-> <<>>, failures |-> 0]
  BY DEF ResInit
<1>2. <<>> \in Seq([a : Nat, b : Nat]) OBVIOUS
<1>3. prof \in Profile BY <1>1, <1>2 DEF Profile
<1>4. ResTypeOK BY <1>1, <1>3, Nothing DEF ResTypeOK, Phases, Steady, Null
<1>5. Apart /\ Owned BY <1>1 DEF Apart, Owned
<1>6. Room /\ Constructing BY <1>1 DEF Room, Constructing
<1>7. Given /\ Getting /\ Destroying /\ ReleasedOnce
  BY <1>1 DEF Given, Getting, Destroying, ReleasedOnce, InStep, Running
<1> QED BY <1>1, <1>4, <1>5, <1>6, <1>7 DEF HeapInv

\* Every step keeps it.
LEMMA HeapStep == HeapInv /\ [ResNext]_resVars => HeapInv'
<1> SUFFICES ASSUME HeapInv, [ResNext]_resVars PROVE HeapInv' OBVIOUS
<1>1. CASE BeginConstruct \/ Construct \/ ConstructSkips \/ ConstructThrows \/ ConstructDone
  BY <1>1, BeginConstructKeeps, ConstructKeeps, ConstructSkipsKeeps, ConstructThrowsKeeps, ConstructDoneKeeps
<1>2. CASE BeginForward \/ GetReuses \/ GetGrows \/ GetThrows \/ GetLogits
  BY <1>2, BeginForwardKeeps, GetReusesKeeps, GetGrowsKeeps, GetThrowsKeeps, GetLogitsKeeps
<1>3. CASE CopyThrows \/ GetDone \/ RegionThrows \/ Synchronize \/ flush BY <1>3, ForwardKeeps
<1>4. CASE ScopeBegin \/ ScopeEnd BY <1>4, ScopeKeeps
<1>5. CASE Destroy \/ Release \/ ReleaseDone BY <1>5, DestroyKeeps, ReleaseKeeps, ReleaseDoneKeeps
<1>6. CASE UNCHANGED resVars
  <2>1. /\ UNCHANGED <<cfg, phase, todo, ptr, live, size, cap, step, held, broken, twice, prof>>
    BY <1>6 DEF resVars, heapVars, profVars
  <2>2. ResTypeOK' /\ Apart' /\ Owned' BY <2>1 DEF HeapInv, ResTypeOK, Apart, Owned
  <2>3. Room' /\ Constructing' BY <2>1 DEF HeapInv, Room, Constructing
  <2>4. \A b : Need(b)' = Need(b) BY <2>1, SameNeed
  <2>5. Given' BY <2>1, <2>4 DEF HeapInv, Given
  <2>6. Getting' /\ Destroying' BY <2>1 DEF HeapInv, Getting, Destroying
  <2>7. ReleasedOnce' /\ twice' \subseteq broken' BY <2>1 DEF HeapInv, ReleasedOnce
  <2> QED BY <2>2, <2>3, <2>5, <2>6, <2>7 DEF HeapInv
<1> QED BY <1>1, <1>2, <1>3, <1>4, <1>5, <1>6 DEF ResNext

\* What the invariant says of the buffers of a running step.
LEMMA HeapGivesBuffers == HeapInv => StepBuffersLive
<1> SUFFICES ASSUME HeapInv, phase \in Running
             PROVE  /\ \A b \in DOMAIN held : held[b] \in live /\ size[held[b]] >= Need(b)
                    /\ \A b \in DOMAIN held : \A m \in Members \ {b} : ptr[m] # held[b]
                    /\ ToSet(IndexBuffers \o RowBuffers) \subseteq DOMAIN held
  BY DEF StepBuffersLive, Running
<1>1. /\ step \in Demands
      /\ \A b \in DOMAIN held : b \in Buffers /\ held[b] = ptr[b] /\ cap[b] >= Need(b)
      /\ Logits \in DOMAIN held => step.rows > 0
  BY DEF HeapInv, Given, InStep
<1>2. \A b \in Buffers : cap[b] > 0 => ptr[b] \in live /\ size[ptr[b]] = cap[b]
  BY DEF HeapInv, Room, Running, Steady
<1>3. cap \in [Buffers -> Nat] /\ 0 \notin live BY DEF HeapInv, ResTypeOK
<1>4. ASSUME NEW b \in DOMAIN held PROVE held[b] \in live /\ size[held[b]] >= Need(b)
  <2>1. b \in Buffers /\ held[b] = ptr[b] /\ cap[b] >= Need(b) BY <1>1
  <2>2. Need(b) \in Nat /\ Need(b) > 0 BY <1>1, <2>1, Sizes
  <2>3. cap[b] \in Nat /\ cap[b] > 0 BY <1>3, <2>1, <2>2
  <2> QED BY <1>2, <2>1, <2>3
<1>5. ASSUME NEW b \in DOMAIN held, NEW m \in Members \ {b} PROVE ptr[m] # held[b]
  <2>1. b \in Buffers /\ held[b] = ptr[b] /\ ptr[b] # Null BY <1>1, <1>3, <1>4 DEF Null
  <2> QED BY <2>1, BufferApart
<1>6. Needed \subseteq DOMAIN held BY DEF HeapInv, Getting
<1> QED BY <1>4, <1>5, <1>6 DEF Needed

-----------------------------------------------------------------------------
(* The profile.                                                            *)

\* The events of a step are recorded in the order of their indices.
LEMMA LastStamp ==
    ASSUME NEW N \in Nat, NEW n \in 0..N, NEW s, s = [e \in 0..N |-> IF e < n THEN e + 1 ELSE 0]
    PROVE  Max(Range(s)) = n
<1>1. Range(s) = {s[e] : e \in 0..N} BY DEF Range
<1>2. \A e \in 0..N : s[e] \in Nat /\ s[e] <= n OBVIOUS
<1>3. \E e \in 0..N : s[e] = n
  <2>1. CASE n = 0 BY <2>1
  <2>2. CASE n > 0
    <3>1. n - 1 \in 0..N /\ n - 1 < n /\ (n - 1) + 1 = n BY <2>2
    <3>2. s[n - 1] = n BY <3>1
    <3> QED BY <3>1, <3>2
  <2> QED BY <2>1, <2>2
<1>4. n \in Range(s) BY <1>1, <1>3
<1>5. \A y \in Range(s) : y \in Nat /\ n >= y BY <1>1, <1>2
<1>6. \A x \in Range(s) : (\A y \in Range(s) : x >= y) => x = n BY <1>4, <1>5
<1>7. \E x \in Range(s) : \A y \in Range(s) : x >= y BY <1>4, <1>5
<1>8. PICK R : R = Range(s) OBVIOUS
<1>9. PICK x : x = CHOOSE z \in R : \A y \in R : z >= y OBVIOUS
<1>10. x \in R /\ \A y \in R : x >= y BY <1>7, <1>8, <1>9, Zenon
<1>11. x = n BY <1>6, <1>8, <1>10
<1> QED BY <1>8, <1>9, <1>11 DEF Max

\* Numbers of regions and events.
LEMMA RegionNumbers == Regions \in Nat \ {0} /\ MaxEvents = 2 * (Regions + 1) /\ MaxEvents \in Nat
<1>1. PICK k \in Nat : k = LayerScopes * Layers BY ResourcesAssumption
<1> QED BY <1>1 DEF Regions, MaxEvents

\* What an action keeps that records nothing.
LEMMA ProfKept ==
    ASSUME ProfInv, UNCHANGED <<on, prof, stamp>>, phase' # "region", phase # "region",
           phase' \in Steady => phase \in Steady, on /\ phase \in Steady /\ phase' \in Steady /\ Counted => Counted'
    PROVE  ProfInv'
<1> SUFFICES ASSUME on, phase' \in Steady PROVE ProfTypeOK' /\ SpansMarked' /\ Counted' BY DEF ProfInv
<1>1. ProfTypeOK /\ SpansMarked /\ Counted BY DEF ProfInv
<1>2. ProfTypeOK' BY <1>1 DEF ProfTypeOK
<1>3. SpansMarked' BY <1>1 DEF SpansMarked, Marked
<1> QED BY <1>1, <1>2, <1>3

\* The actions outside of the regions.
LEMMA QuietProf ==
    ASSUME HeapInv, HeapInv', ProfInv,
           \/ BeginConstruct \/ Construct \/ ConstructSkips \/ ConstructThrows \/ ConstructDone
           \/ BeginForward \/ GetReuses \/ GetGrows \/ GetThrows \/ CopyThrows \/ GetDone
           \/ GetLogits \/ Synchronize
    PROVE  ProfInv'
<1>0. UNCHANGED <<on, prof, stamp>>
  BY DEF BeginConstruct, Construct, ConstructSkips, ConstructThrows, ConstructDone, BeginForward, GetReuses,
         GetGrows, GetThrows, CopyThrows, GetDone, GetLogits, Synchronize, profVars
<1>1. CASE BeginConstruct \/ Construct \/ ConstructSkips \/ ConstructThrows \/ ConstructDone
  <2>1. phase \in {"new", "construct"} /\ phase' \in {"construct", "failed", "idle"}
    BY <1>1 DEF BeginConstruct, Construct, ConstructSkips, ConstructThrows, ConstructDone
  <2>2. Counted => Counted' BY <1>0, <2>1 DEF Counted, Running
  <2> QED BY <1>0, <2>1, <2>2, ProfKept DEF Steady
<1>2. CASE BeginForward
  <2>1. phase = "idle" /\ phase' = "get" /\ todo' = IndexBuffers \o RowBuffers /\ DOMAIN held' = {}
    BY <1>2 DEF BeginForward
  <2>2. ToSet(todo') \subseteq Needed /\ Logits \notin DOMAIN held' BY <2>1 DEF Needed
  <2>3. Counted => Counted' BY <1>0, <2>1, <2>2 DEF Counted, Running
  <2> QED BY <1>0, <2>1, <2>3, ProfKept DEF Steady
<1>3. CASE GetReuses \/ GetGrows
  <2>1. phase = "get" /\ phase' = "get" /\ todo # <<>> /\ todo' = Tail(todo)
        /\ DOMAIN held' = DOMAIN held \union {Head(todo)}
    BY <1>3 DEF GetReuses, GetGrows, Got
  <2>2. (ToSet(todo) \subseteq Needed /\ Logits \notin DOMAIN held) <=>
        (ToSet(todo') \subseteq Needed /\ Logits \notin DOMAIN held')
    <3>1. todo \in Seq(Items) BY DEF HeapInv, ResTypeOK
    <3>2. ToSet(todo) = {Head(todo)} \union ToSet(todo') BY <2>1, <3>1, OneLess
    <3>3. ToSet(todo) \subseteq Needed \/ todo = <<Logits>> BY <2>1 DEF HeapInv, Getting
    <3>4. Logits \notin Needed BY BufferSets
    <3>5. CASE ToSet(todo) \subseteq Needed BY <2>1, <3>2, <3>4, <3>5
    <3>6. CASE todo = <<Logits>>
      <4>1. Head(todo) = Logits BY <3>6
      <4> QED BY <2>1, <3>2, <3>4, <4>1
    <3> QED BY <3>3, <3>5, <3>6
  <2>3. Counted => Counted' BY <1>0, <2>1, <2>2 DEF Counted, Running
  <2> QED BY <1>0, <2>1, <2>3, ProfKept DEF Steady
<1>4. CASE GetThrows \/ CopyThrows
  <2>1. phase = "get" /\ phase' = "threw" BY <1>4 DEF GetThrows, CopyThrows
  <2> QED BY <1>0, <2>1, ProfKept DEF Steady
<1>5. CASE GetDone
  <2>1. phase = "get" /\ phase' = "kernels" /\ todo = <<>> /\ held' = held /\ step' = step BY <1>5 DEF GetDone
  <2>2. ToSet(todo) \subseteq Needed BY <2>1, Nothing
  <2>3. PICK n \in Nat : n = LayerScopes * Layers BY ResourcesAssumption
  <2>4. Regions = 1 + n BY <2>3 DEF Regions
  <2>5. Len(todo') = IF Logits \in DOMAIN held THEN 1 ELSE 1 + n
    <3>1. CASE Logits \in DOMAIN held
      <4>1. todo' = <<"head">> BY <1>5, <3>1 DEF GetDone
      <4> QED BY <3>1, <4>1
    <3>2. CASE Logits \notin DOMAIN held
      <4>1. PICK l : l = [k \in 1..n |-> "layer"] OBVIOUS
      <4>2. l \in Seq(Items) /\ Len(l) = n BY <4>1 DEF Items
      <4>3. <<"embed">> \in Seq(Items) /\ Len(<<"embed">>) = 1 BY DEF Items
      <4>4. todo' = <<"embed">> \o l BY <1>5, <2>3, <3>2, <4>1 DEF GetDone
      <4> QED BY <3>2, <4>2, <4>3, <4>4
    <3> QED BY <3>1, <3>2
  <2>6. Counted => Counted'
    <3> SUFFICES ASSUME Counted PROVE Counted' OBVIOUS
    <3>1. Len(prof.spans) = IF Logits \notin DOMAIN held THEN 0 ELSE Regions BY <2>1, <2>2 DEF Counted
    <3>2. Len(prof'.spans) + Len(todo') = Regions + (IF Logits \in DOMAIN held' THEN 1 ELSE 0)
      BY <1>0, <2>1, <2>4, <2>5, <3>1
    <3> QED BY <2>1, <3>2 DEF Counted, Running
  <2> QED BY <1>0, <2>1, <2>6, ProfKept DEF Steady
<1>6. CASE GetLogits
  <2>1. phase = "kernels" /\ phase' = "get" /\ todo = <<>> /\ todo' = <<Logits>> /\ Logits \notin DOMAIN held /\ held' = held
    BY <1>6 DEF GetLogits
  <2>2. ~(ToSet(todo') \subseteq Needed)
    <3>1. Logits \in ToSet(<<Logits>>) BY DEF ToSet
    <3> QED BY <2>1, <3>1, BufferSets
  <2>3. Counted => Counted'
    <3> SUFFICES ASSUME Counted PROVE Counted' OBVIOUS
    <3>1. Len(prof.spans) + Len(todo) = Regions BY <2>1, RegionNumbers DEF Counted, Running
    <3>2. prof.spans \in Seq([a : Nat, b : Nat]) BY DEF HeapInv, ResTypeOK, Profile
    <3>3. Len(prof.spans) = Regions BY <2>1, <3>1, <3>2
    <3> QED BY <1>0, <2>1, <2>2, <3>3 DEF Counted, Running
  <2> QED BY <1>0, <2>1, <2>3, ProfKept DEF Steady
<1>7. CASE Synchronize
  <2>1. phase = "kernels" /\ phase' \in {"sync", "threw"} /\ todo = <<>> /\ todo' = todo /\ held' = held /\ step' = step
        /\ (Logits \in DOMAIN held \/ step.rows = 0)
    BY <1>7 DEF Synchronize
  <2>2. Counted => Counted' BY <1>0, <2>1 DEF Counted, Running
  <2> QED BY <1>0, <2>1, <2>2, ProfKept DEF Steady
<1> QED BY <1>1, <1>2, <1>3, <1>4, <1>5, <1>6, <1>7

\* What mark() does to the events of the step.
LEMMA Recorded ==
    ASSUME HeapInv, ProfTypeOK, prof.next < MaxEvents, NEW r \in mark(prof),
           prof'.next = r.prof.next, prof'.pool = r.prof.pool, stamp' = r.stamp
    PROVE  /\ prof'.next <= prof'.pool /\ prof'.next <= prof.next + 1 /\ prof.next <= prof'.next
           /\ stamp' = [e \in 0..MaxEvents |-> IF e < prof'.next THEN e + 1 ELSE 0]
           /\ Marked(prof', prof.next) /\ \A e : Marked(prof, e) => Marked(prof', e)
<1>1. prof \in Profile BY DEF HeapInv, ResTypeOK
<1>2. PICK n \in Nat, p \in Nat, N \in Nat : n = prof.next /\ p = prof.pool /\ N = MaxEvents
  BY <1>1, RegionNumbers DEF Profile
<1>3. n <= p /\ n < N /\ stamp = [e \in 0..N |-> IF e < n THEN e + 1 ELSE 0] BY <1>2 DEF ProfTypeOK
<1>4. Max(Range(stamp)) = n
  <2>1. PICK s : s = stamp OBVIOUS
  <2>2. n \in 0..N BY <1>3
  <2>3. s = [e \in 0..N |-> IF e < n THEN e + 1 ELSE 0] BY <1>3, <2>1, Zenon
  <2>4. Max(Range(s)) = n BY <2>2, <2>3, LastStamp, Zenon
  <2> QED BY <2>1, <2>4, Zenon
<1>5. \/ /\ prof'.next = n + 1 /\ prof'.pool = IF n < p THEN p ELSE p + 1
         /\ stamp' = [stamp EXCEPT ![n] = n + 1]
      \/ ~(n < p) /\ prof'.next = n /\ prof'.pool = p /\ stamp' = stamp
  BY <1>1, <1>2, <1>4, MarkIs
<1>6. CASE /\ prof'.next = n + 1 /\ prof'.pool = IF n < p THEN p ELSE p + 1
           /\ stamp' = [stamp EXCEPT ![n] = n + 1]
  <2>1. stamp' = [e \in 0..N |-> IF e < n + 1 THEN e + 1 ELSE 0]
    <3>1. PICK s : s = stamp OBVIOUS
    <3>2. s = [e \in 0..N |-> IF e < n THEN e + 1 ELSE 0] /\ stamp' = [s EXCEPT ![n] = n + 1]
      BY <1>3, <1>6, <3>1, Zenon
    <3>3. stamp' = [e \in 0..N |-> IF e = n THEN n + 1 ELSE s[e]] BY <3>2
    <3>4. ASSUME NEW e \in 0..N
          PROVE  (IF e = n THEN n + 1 ELSE s[e]) = (IF e < n + 1 THEN e + 1 ELSE 0)
      <4>1. s[e] = IF e < n THEN e + 1 ELSE 0 BY <3>2
      <4> QED BY <4>1
    <3> QED BY <3>3, <3>4
  <2>2. prof'.next <= prof'.pool BY <1>3, <1>6
  <2>3. Marked(prof', n) /\ \A e : Marked(prof, e) => Marked(prof', e) BY <1>2, <1>6 DEF Marked
  <2>4. stamp' = [e \in 0..MaxEvents |-> IF e < prof'.next THEN e + 1 ELSE 0]
    <3>1. prof'.next = n + 1 /\ MaxEvents = N BY <1>2, <1>6
    <3> QED BY <2>1, <3>1, Zenon
  <2>5. prof'.next <= prof.next + 1 /\ prof.next <= prof'.next BY <1>2, <1>6
  <2>6. Marked(prof', prof.next) BY <1>2, <2>3
  <2> QED BY <2>2, <2>3, <2>4, <2>5, <2>6
<1>7. CASE ~(n < p) /\ prof'.next = n /\ prof'.pool = p /\ stamp' = stamp
  <2>1. n = p BY <1>3, <1>7
  <2>2. Marked(prof', n) /\ \A e : Marked(prof, e) => Marked(prof', e) BY <1>2, <1>7, <2>1 DEF Marked
  <2> QED BY <1>2, <1>3, <1>7, <2>2
<1> QED BY <1>5, <1>6, <1>7

\* A region begins.
LEMMA ScopeBeginProf == ASSUME HeapInv, HeapInv', ProfInv, ScopeBegin PROVE ProfInv'
<1>1. /\ phase = "kernels" /\ phase' = "region" /\ todo # <<>> /\ todo' = todo /\ held' = held /\ on' = on
  BY DEF ScopeBegin
<1> SUFFICES ASSUME on PROVE ProfTypeOK' /\ SpansMarked' /\ Counted' BY <1>1 DEF ProfInv
<1>2. ProfTypeOK /\ SpansMarked /\ Counted BY <1>1 DEF ProfInv, Steady
<1>3. PICK r \in mark(prof) : prof' = [r.prof EXCEPT !.start = prof.next] /\ stamp' = r.stamp BY DEF ScopeBegin
<1>4. prof \in Profile /\ prof' \in Profile /\ todo \in Seq(Items) BY DEF HeapInv, ResTypeOK
<1>5. r.prof \in Profile /\ r.prof.spans = prof.spans BY <1>4, MarkIs
<1>6. prof'.next = r.prof.next /\ prof'.pool = r.prof.pool /\ prof'.start = prof.next /\ prof'.spans = prof.spans
  BY <1>3, <1>5 DEF Profile
<1>7. Len(prof.spans) \in Nat /\ Len(todo) \in Nat \ {0} BY <1>1, <1>4 DEF Profile
<1>8. Len(prof.spans) + Len(todo) = Regions + (IF Logits \in DOMAIN held THEN 1 ELSE 0)
  BY <1>1, <1>2 DEF Counted, Running
<1>9. prof.next \in Nat /\ prof.next <= 2 * Len(prof.spans) BY <1>1, <1>2, <1>4, <1>7 DEF ProfTypeOK, Profile
<1>10. prof.next < MaxEvents
  <2>1. Len(prof.spans) <= Regions BY <1>7, <1>8, RegionNumbers
  <2> QED BY <1>7, <1>9, <2>1, RegionNumbers
<1>11. /\ prof'.next <= prof'.pool /\ prof'.next <= prof.next + 1
       /\ stamp' = [e \in 0..MaxEvents |-> IF e < prof'.next THEN e + 1 ELSE 0]
       /\ Marked(prof', prof.next) /\ \A e : Marked(prof, e) => Marked(prof', e)
  BY <1>2, <1>3, <1>6, <1>10, Recorded
<1>12. prof'.next \in Nat BY <1>4 DEF Profile
<1>13. prof'.next <= 2 * Len(prof'.spans) + 1 BY <1>6, <1>7, <1>9, <1>11, <1>12
<1>a. Marked(prof', prof'.start)
  <2>1. PICK e : e = prof.next OBVIOUS
  <2>2. Marked(prof', e) BY <1>11, <2>1
  <2>3. e = prof'.start BY <1>6, <2>1
  <2> QED BY <2>2, <2>3 DEF Marked
<1>14. ProfTypeOK' BY <1>1, <1>11, <1>13, <1>a DEF ProfTypeOK
<1>15. SpansMarked' BY <1>2, <1>6, <1>11 DEF SpansMarked
<1>16. Counted' BY <1>1, <1>6, <1>8 DEF Counted, Running
<1> QED BY <1>14, <1>15, <1>16

\* A region ends, and there is one more span.
LEMMA ScopeEndProf == ASSUME HeapInv, HeapInv', ProfInv, ScopeEnd PROVE ProfInv'
<1>1. /\ phase = "region" /\ phase' = "kernels" /\ todo' = Tail(todo) /\ held' = held /\ on' = on
  BY DEF ScopeEnd
<1> SUFFICES ASSUME on PROVE ProfTypeOK' /\ SpansMarked' /\ Counted' BY <1>1 DEF ProfInv
<1>2. ProfTypeOK /\ SpansMarked /\ Counted BY <1>1 DEF ProfInv, Steady
<1>3. PICK r \in mark(prof) :
        /\ prof' = [r.prof EXCEPT !.spans = Append(@, [a |-> prof.start, b |-> prof.next])]
        /\ stamp' = r.stamp
  BY DEF ScopeEnd
<1>4. prof \in Profile /\ prof' \in Profile /\ todo \in Seq(Items) /\ todo # <<>>
  BY <1>1 DEF HeapInv, ResTypeOK, Getting
<1>5. r.prof \in Profile /\ r.prof.spans = prof.spans BY <1>4, MarkIs
<1>6. /\ prof'.next = r.prof.next /\ prof'.pool = r.prof.pool
      /\ prof'.spans = Append(prof.spans, [a |-> prof.start, b |-> prof.next])
  BY <1>3, <1>5 DEF Profile
<1>7. PICK k \in Nat, n \in Nat, st \in Nat, q \in Seq([a : Nat, b : Nat]) :
          k = Len(prof.spans) /\ n = prof.next /\ st = prof.start /\ q = prof.spans
  BY <1>4 DEF Profile
<1>8. PICK sp \in [a : Nat, b : Nat] : sp = [a |-> st, b |-> n] OBVIOUS
<1>9. prof'.spans = Append(q, sp) /\ Len(q) = k BY <1>6, <1>7, <1>8
<1>10. /\ Len(prof'.spans) = k + 1 /\ prof'.spans[k + 1] = sp
       /\ \A i \in 1..k : prof'.spans[i] = prof.spans[i]
  BY <1>7, <1>9
<1>11. k + Len(todo) = Regions + (IF Logits \in DOMAIN held THEN 1 ELSE 0)
  BY <1>1, <1>2, <1>7 DEF Counted, Running
<1>12. Len(todo) \in Nat \ {0} /\ Len(todo') = Len(todo) - 1 BY <1>1, <1>4, OneLess
<1>13. n <= 2 * k + 1 /\ Marked(prof, st) BY <1>1, <1>2, <1>7 DEF ProfTypeOK
<1>14. prof.next < MaxEvents
  <2>1. k <= Regions BY <1>11, <1>12, RegionNumbers
  <2> QED BY <1>7, <1>13, <2>1, RegionNumbers
<1>15. /\ prof'.next <= prof'.pool /\ prof'.next <= n + 1
       /\ stamp' = [e \in 0..MaxEvents |-> IF e < prof'.next THEN e + 1 ELSE 0]
       /\ Marked(prof', n) /\ \A e : Marked(prof, e) => Marked(prof', e)
  <2>1. /\ prof'.next <= prof'.pool /\ prof'.next <= prof.next + 1
        /\ stamp' = [e \in 0..MaxEvents |-> IF e < prof'.next THEN e + 1 ELSE 0]
        /\ Marked(prof', prof.next) /\ \A e : Marked(prof, e) => Marked(prof', e)
    BY <1>2, <1>3, <1>6, <1>14, Recorded
  <2> QED BY <1>7, <2>1
<1>16. prof'.next \in Nat BY <1>4 DEF Profile
<1>17. prof'.next <= 2 * Len(prof'.spans) BY <1>10, <1>13, <1>15, <1>16
<1>18. ProfTypeOK' BY <1>1, <1>10, <1>15, <1>16, <1>17 DEF ProfTypeOK
<1>19. st <= n BY <1>7, <1>13 DEF Marked
<1>20. ASSUME NEW i \in 1..k + 1
       PROVE  Marked(prof', prof'.spans[i].a) /\ Marked(prof', prof'.spans[i].b) /\ prof'.spans[i].a <= prof'.spans[i].b
  <2>1. CASE i = k + 1
    <3>1. prof'.spans[i].a = st /\ prof'.spans[i].b = n BY <1>8, <1>10, <2>1
    <3>2. Marked(prof', st) /\ Marked(prof', n) BY <1>13, <1>15
    <3> QED BY <1>19, <3>1, <3>2 DEF Marked
  <2>2. CASE i \in 1..k
    <3>1. prof'.spans[i] = prof.spans[i] BY <1>10, <2>2
    <3>2. Marked(prof, prof.spans[i].a) /\ Marked(prof, prof.spans[i].b) /\ prof.spans[i].a <= prof.spans[i].b
      BY <1>2, <1>7, <2>2 DEF SpansMarked
    <3>3. PICK x, y : x = prof.spans[i].a /\ y = prof.spans[i].b OBVIOUS
    <3>4. Marked(prof', x) /\ Marked(prof', y) /\ x <= y BY <1>15, <3>2, <3>3
    <3> QED BY <3>1, <3>3, <3>4 DEF Marked
  <2> QED BY <2>1, <2>2
<1>21. SpansMarked' BY <1>10, <1>20 DEF SpansMarked
<1>22. Len(prof'.spans) + Len(todo') = Regions + (IF Logits \in DOMAIN held' THEN 1 ELSE 0)
  BY <1>1, <1>10, <1>11, <1>12, RegionNumbers
<1>23. Counted' BY <1>1, <1>22 DEF Counted, Running
<1> QED BY <1>18, <1>21, <1>23

\* flush() empties the spans, and the events start again.
LEMMA FlushProf == ASSUME HeapInv, ProfInv, flush PROVE ProfInv'
<1>1. /\ phase = "sync" /\ phase' \in {"idle", "threw"} /\ on' = on
      /\ prof' = [prof EXCEPT !.spans = <<>>, !.next = 0, !.start = 0]
      /\ stamp' = [e \in DOMAIN stamp |-> 0]
  BY DEF flush, flushed_spans
<1> SUFFICES ASSUME on PROVE ProfTypeOK' /\ SpansMarked' /\ Counted' BY <1>1 DEF ProfInv
<1>2. prof \in Profile BY DEF HeapInv, ResTypeOK
<1>3. prof'.pool = prof.pool /\ prof'.next = 0 /\ prof'.spans = <<>> /\ prof.pool \in Nat BY <1>1, <1>2 DEF Profile
<1>4. DOMAIN stamp = 0..MaxEvents BY <1>1 DEF ProfInv, ProfTypeOK, Steady
<1>5. stamp' = [e \in 0..MaxEvents |-> IF e < prof'.next THEN e + 1 ELSE 0]
  <2>1. \A e \in 0..MaxEvents : ~(e < 0) OBVIOUS
  <2> QED BY <1>1, <1>3, <1>4, <2>1
<1>6. ProfTypeOK' BY <1>1, <1>3, <1>5 DEF ProfTypeOK
<1>7. SpansMarked' /\ Counted' BY <1>1, <1>3 DEF SpansMarked, Counted, Running
<1> QED BY <1>6, <1>7

\* The invariant of the profile holds at first, and every step keeps it.
LEMMA ProfInit == ResInit => ProfInv
<1> SUFFICES ASSUME ResInit PROVE ProfTypeOK /\ SpansMarked /\ Counted BY DEF ProfInv
<1>1. /\ phase = "new" /\ stamp = [e \in 0..MaxEvents |-> 0]
      /\ prof = [pool |-> 0, next |-> 0, start |-> 0, spans |-> <<>>, failures |-> 0]
  BY DEF ResInit
<1>2. prof.pool = 0 /\ prof.next = 0 /\ prof.spans = <<>> BY <1>1
<1>3. \A e \in 0..MaxEvents : ~(e < 0) OBVIOUS
<1>4. ProfTypeOK BY <1>1, <1>2, <1>3 DEF ProfTypeOK
<1>5. SpansMarked /\ Counted BY <1>1, <1>2 DEF SpansMarked, Counted, Running
<1> QED BY <1>4, <1>5

\* Every step keeps it.
LEMMA ProfStep == HeapInv /\ HeapInv' /\ ProfInv /\ [ResNext]_resVars => ProfInv'
<1> SUFFICES ASSUME HeapInv, HeapInv', ProfInv, [ResNext]_resVars PROVE ProfInv' OBVIOUS
<1>1. CASE \/ BeginConstruct \/ Construct \/ ConstructSkips \/ ConstructThrows \/ ConstructDone
           \/ BeginForward \/ GetReuses \/ GetGrows \/ GetThrows \/ CopyThrows \/ GetDone
           \/ GetLogits \/ Synchronize
  BY <1>1, QuietProf
<1>2. CASE ScopeBegin BY <1>2, ScopeBeginProf
<1>3. CASE ScopeEnd BY <1>3, ScopeEndProf
<1>4. CASE flush BY <1>4, FlushProf
<1>5. CASE RegionThrows \/ Destroy \/ Release \/ ReleaseDone
  <2>1. phase' \in {"threw", "destroy", "gone"} BY <1>5 DEF RegionThrows, Destroy, Release, ReleaseDone
  <2> QED BY <2>1 DEF ProfInv, Steady
<1>6. CASE UNCHANGED resVars
  <2>1. UNCHANGED <<on, prof, stamp, phase, todo, held, step>> BY <1>6 DEF resVars, heapVars, profVars
  <2>2. ProfTypeOK => ProfTypeOK' BY <2>1 DEF ProfTypeOK, Marked
  <2>3. SpansMarked => SpansMarked' BY <2>1 DEF SpansMarked, Marked
  <2>4. Counted => Counted' BY <2>1 DEF Counted
  <2> QED BY <2>1, <2>2, <2>3, <2>4 DEF ProfInv
<1> QED BY <1>1, <1>2, <1>3, <1>4, <1>5, <1>6 DEF ResNext

\* What the invariant says of the spans that flush() reads.
LEMMA ProfGivesSpans == HeapInv /\ ProfInv => SpansOfThisStep
<1> SUFFICES ASSUME HeapInv, ProfInv, phase = "sync", on
             PROVE  /\ Len(prof.spans) = 1 + LayerScopes * Layers + (IF step.rows > 0 THEN 1 ELSE 0)
                    /\ \A k \in DOMAIN prof.spans :
                          prof.spans[k].a < prof.pool /\ prof.spans[k].b < prof.pool =>
                              stamp[prof.spans[k].a] \in 1..stamp[prof.spans[k].b]
  BY DEF SpansOfThisStep
<1>1. ProfTypeOK /\ SpansMarked /\ Counted BY DEF ProfInv, Steady
<1>2. prof \in Profile BY DEF HeapInv, ResTypeOK
<1>3. PICK m \in Nat : m = Len(prof.spans) /\ DOMAIN prof.spans = 1..m BY <1>2 DEF Profile
<1>4. step.rows > 0 <=> Logits \in DOMAIN held BY <1>1 DEF HeapInv, Given, Counted, InStep, Running
<1>5. m = Regions + (IF step.rows > 0 THEN 1 ELSE 0)
  <2>1. todo = <<>> /\ m + Len(todo) = Regions + (IF Logits \in DOMAIN held THEN 1 ELSE 0)
    BY <1>1, <1>3 DEF Counted, Running
  <2>2. Len(todo) = 0 BY <2>1
  <2> QED BY <1>4, <2>1, <2>2
<1>6. Len(prof.spans) = 1 + LayerScopes * Layers + (IF step.rows > 0 THEN 1 ELSE 0) BY <1>3, <1>5 DEF Regions
<1>7. PICK n \in Nat, p \in Nat, N \in Nat : n = prof.next /\ p = prof.pool /\ N = MaxEvents
  BY <1>2, RegionNumbers DEF Profile
<1>8. n <= 2 * m BY <1>1, <1>3, <1>7 DEF ProfTypeOK
<1>9. n <= N
  <2>1. m <= Regions + 1 BY <1>5, RegionNumbers
  <2> QED BY <1>7, <1>8, <2>1, RegionNumbers
<1>10. stamp = [e \in 0..N |-> IF e < n THEN e + 1 ELSE 0] BY <1>1, <1>7 DEF ProfTypeOK
<1>11. ASSUME NEW k \in 1..m, prof.spans[k].a < p, prof.spans[k].b < p
       PROVE  stamp[prof.spans[k].a] \in 1..stamp[prof.spans[k].b]
  <2>1. PICK x, y : x = prof.spans[k].a /\ y = prof.spans[k].b OBVIOUS
  <2>2. Marked(prof, x) /\ Marked(prof, y) /\ x <= y BY <1>1, <1>3, <2>1 DEF SpansMarked
  <2>3. x \in Nat /\ y \in Nat /\ x < n /\ y < n BY <1>7, <1>11, <2>1, <2>2 DEF Marked
  <2>4. stamp[x] = x + 1 /\ stamp[y] = y + 1 BY <1>9, <1>10, <2>3
  <2>5. x + 1 \in 1..y + 1 BY <2>2, <2>3
  <2> QED BY <2>1, <2>4, <2>5
<1> QED BY <1>3, <1>6, <1>7, <1>11

-----------------------------------------------------------------------------
(* Theorems.                                                               *)

\* Scratch::get: whatever the sizes of the steps before, the buffers of a running step are
\* live, large enough, and no other member's.
THEOREM BuffersStayLive == ResSpec => []StepBuffersLive
<1>1. ResInit => HeapInv BY HeapInit
<1>2. HeapInv /\ [ResNext]_resVars => HeapInv' BY HeapStep
<1>3. HeapInv => StepBuffersLive BY HeapGivesBuffers
<1> QED BY <1>1, <1>2, <1>3, PTL DEF ResSpec

\* ~CudaModel: nothing is left on the device, and only a buffer that lost its memory on
\* the way to an exception is released twice, a tied head never.
THEOREM AllReleasedOnce == ResSpec => []ReleasedOnce
<1>1. ResInit => HeapInv BY HeapInit
<1>2. HeapInv /\ [ResNext]_resVars => HeapInv' BY HeapStep
<1>3. HeapInv => ReleasedOnce BY DEF HeapInv
<1> QED BY <1>1, <1>2, <1>3, PTL DEF ResSpec

\* StepProfile: what flush() reads is of this step, one span for each region, whatever
\* events could not be made.
THEOREM FlushReadsThisStep == ResSpec => []SpansOfThisStep
<1>1. ResInit => HeapInv /\ ProfInv BY HeapInit, ProfInit
<1>2. HeapInv /\ ProfInv /\ [ResNext]_resVars => HeapInv' /\ ProfInv' BY HeapStep, ProfStep
<1>3. HeapInv /\ ProfInv => SpansOfThisStep BY ProfGivesSpans
<1> QED BY <1>1, <1>2, <1>3, PTL DEF ResSpec
=============================================================================
