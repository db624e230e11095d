------------------------------ MODULE Attention ------------------------------
(***************************************************************************)
(* One thread block of the paged attention kernels                         *)
(* (kernels/attention_decode.cu, attention_decode_gqa.cu).  The blocks of  *)
(* a launch share nothing they write, so one block, any one, is run.       *)
(*                                                                         *)
(* Its actors are the threads of attention_decode, one query head per      *)
(* block, or the warps of attention_decode_gqa, the query heads of one kv  *)
(* head per block (the lanes of a warp move together).  They interleave    *)
(* freely between two __syncthreads.                                       *)
(*                                                                         *)
(* A float that is summed up is the sequence of its terms <<v, e>>, each   *)
(* v * exp(e) with the exponent relative to the running maximum; rounding  *)
(* is left out.  arg holds what the launch passes and the block's indices. *)
(***************************************************************************)
EXTENDS Integers, FiniteSets, SequencesExt

CONSTANTS
    KThreads,       \* kThreads, a power of two
    KWarps, KWarp,  \* kWarps, kWarp: warps of a block, lanes of a warp
    MaxGroup,       \* kMaxGroup
    MaxHeadDim,     \* kMaxHeadDim
    QHeads, KVHeads, HeadDim,
    BlockSize

\* for (stride = k / 2; stride > 0; stride >>= 1): the n-th stride.
Halved(k, n) ==
    LET f[i \in 0..k] == IF i = 0 THEN k ELSE f[i - 1] \div 2
    IN  f[n]

\* The rounds of that loop.
Rounds(k) == CHOOSE n \in 0..k : Halved(k, n) = 1

PowerOfTwo(k) ==
    \E n \in 0..k : Halved(k, n) = 1 /\ \A i \in 0..n - 1 : Halved(k, i) % 2 = 0

ASSUME AttentionAssumption ==
    /\ {KThreads, KWarps, KWarp, QHeads, KVHeads, HeadDim, BlockSize} \subseteq Nat \ {0}
    /\ {MaxGroup, MaxHeadDim} \subseteq Nat
    /\ PowerOfTwo(KThreads) /\ PowerOfTwo(KWarp)
    \* ModelConfig::load
    /\ QHeads % KVHeads = 0

VARIABLES
    arg,        \* arguments of the launch, blockIdx
    stage,      \* the part of the kernel each actor is in, by number
    waits,      \* actors that have arrived at the barrier after their stage
    next_p,     \* p: the position each actor looks at next
    priv,       \* m, l, acc: the private sums of each actor, per head
    s_q,        \* the query vectors in shared memory: element read from q
    s_part,     \* s_max, s_sum, s_acc / s_part: the sums in shared memory
    out         \* what was written to each head and dimension of out

blockVars == <<stage, waits, next_p, priv, s_q, s_part, out>>

-----------------------------------------------------------------------------
Gqa == arg.kernel = "gqa"
Actors == 0..(IF Gqa THEN KWarps ELSE KThreads) - 1
Dims == 0..HeadDim - 1
Group == QHeads \div KVHeads

\* The kv head the block reads.
kv_head == IF Gqa THEN arg.y ELSE arg.y \div Group

\* The query heads the block computes.
Heads == IF Gqa THEN {arg.y * Group + h : h \in 0..Group - 1} ELSE {arg.y}

\* The slot of position p under the block table that starts behind `from' in tables.
SlotAt(tables, from, p) ==
    tables[from + (p \div BlockSize) + 1] * BlockSize + (p % BlockSize)

\* block_tables + table_offset[seq]
table(offset, seq) == offset[seq + 1]

\* Uninitialised shared memory.
Unset == -1
NegMax == -1000000

QElement(head, d) == (arg.token * QHeads + head) * HeadDim + d

Bigger(a, b) == IF a > b THEN a ELSE b

Times(terms, e) == [i \in DOMAIN terms |-> <<terms[i][1], terms[i][2] + e>>]

\* A running (max, sum, accumulator), at its start and in memory nobody has written.
Nothing == [m |-> NegMax, l |-> <<>>, acc |-> <<>>]
UnsetPart == [m |-> 0, l |-> <<>>, acc |-> << << <<Unset, [pos |-> Unset]>>, 0>> >>]

\* part, relative to the maximum m_new; the guard on an empty part.
Rescaled(part, m_new) ==
    IF part.m = NegMax THEN Nothing
    ELSE [part EXCEPT !.l = Times(@, part.m - m_new), !.acc = Times(@, part.m - m_new)]

\* Two partial results become one.
Merged(a, b) ==
    LET m_new == Bigger(a.m, b.m)
        ra == Rescaled(a, m_new)
        rb == Rescaled(b, m_new)
    IN  [m |-> m_new, l |-> ra.l \o rb.l, acc |-> ra.acc \o rb.acc]

\* The lane whose value lane i adds with __shfl_xor_sync(v, off), a power of two.
Partner(i, off) == IF (i \div off) % 2 = 0 THEN i + off ELSE i - off

\* warp_all_sum: after the butterfly every lane holds the terms of all lanes.
warp_all_sum(v) ==
    LET round[n \in 0..Rounds(KWarp)] ==
            IF n = 0 THEN v
            ELSE [i \in 0..KWarp - 1 |->
                     round[n - 1][i] \o round[n - 1][Partner(i, Halved(KWarp, n))]]
    IN  round[Rounds(KWarp)]

\* The dimensions of q . k that the lanes of a warp sum up together.
WarpDims ==
    LET dpl == HeadDim \div KWarp
    IN  warp_all_sum([i \in 0..KWarp - 1 |-> [d \in 1..dpl |-> i * dpl + d - 1]])[0]

\* Those that an actor sums up.
DotDims == IF Gqa THEN WarpDims ELSE [d \in 1..HeadDim |-> d - 1]

\* The score of a head against the key of the cell: arg.score gives it, if the dot
\* product has every dimension once and the query was in shared memory.
Score(head, cell) ==
    IF /\ ToBag(DotDims) = [d \in Dims |-> 1]
       /\ \A d \in Dims : s_q[head][d] = QElement(head, d)
    THEN arg.score[head][cell.pos]
    ELSE NegMax + 1

-----------------------------------------------------------------------------
(* The stages: load, walk, the merges, out.                                *)

LoadStage == 1
WalkStage == 2

\* The number of barriers between the merges of attention_decode.
Merges == Rounds(KThreads)

LastStage == IF Gqa THEN 3 ELSE 3 + Merges

\* The stride of the merge of a stage.
Stride(st) == Halved(KThreads, st - WalkStage)

Finished == \A t \in Actors : stage[t] > LastStage

\* Actor t ends its stage; there is a barrier behind all but the last one.
Arrive(t) ==
    /\ stage' = IF stage[t] = LastStage THEN [stage EXCEPT ![t] = @ + 1] ELSE stage
    /\ waits' = IF stage[t] = LastStage THEN waits ELSE waits \union {t}

\* Mutant: there is no barrier.
BarrierOpen_always(t) == TRUE

\* Mutant: whoever comes late finds the others gone.
BarrierOpen_strict(t) == \A u \in Actors : stage[u] = stage[t] /\ u \in waits

\* Every actor has arrived at the barrier t waits at, or has passed it.
BarrierOpen(t) ==
    \A u \in Actors : stage[u] > stage[t] \/ (stage[u] = stage[t] /\ u \in waits)

Syncthreads(t) ==
    /\ t \in waits
    /\ BarrierOpen(t)
    /\ stage' = [stage EXCEPT ![t] = @ + 1]
    /\ waits' = waits \ {t}
    /\ UNCHANGED <<arg, next_p, priv, s_q, s_part, out>>

InStage(t, st) == t \in Actors \ waits /\ stage[t] = st

\* The elements i of [heads][head_dim] that actor t touches, from its threadIdx on in
\* steps of the block's size.
Strided(t, i) ==
    IF Gqa THEN (i % (KWarps * KWarp)) \div KWarp = t ELSE i % KThreads = t

Load(t) ==
    /\ InStage(t, LoadStage)
    /\ s_q' = [h \in Heads |-> [d \in Dims |->
           IF Strided(t, (h % Cardinality(Heads)) * HeadDim + d)
               THEN QElement(h, d) ELSE s_q[h][d]]]
    /\ Arrive(t)
    /\ UNCHANGED <<arg, next_p, priv, s_part, out>>

\* The position p of actor t: one read of its K and V, an online softmax step for
\* every head.
Walk(t) ==
    /\ InStage(t, WalkStage)
    /\ next_p[t] <= arg.pos
    /\ LET cell == arg.cache[SlotAt(arg.tables, table(arg.offset, arg.seq), next_p[t])]
           term(h) == [m |-> Score(h, cell), l |-> << <<1, 0>> >>,
                       acc |-> << << <<kv_head, cell>>, 0>> >>]
       IN  priv' = [priv EXCEPT ![t] = [h \in Heads |-> Merged(@[h], term(h))]]
    /\ next_p' = [next_p EXCEPT ![t] = @ + Cardinality(Actors)]
    /\ UNCHANGED <<arg, stage, waits, s_q, s_part, out>>

WalkDone(t) ==
    /\ InStage(t, WalkStage)
    /\ next_p[t] > arg.pos
    /\ s_part' = [s_part EXCEPT ![t] = priv[t]]
    /\ Arrive(t)
    /\ UNCHANGED <<arg, next_p, priv, s_q, out>>

\* attention_decode: one round of the pairwise merge.
MergePair(t) ==
    /\ ~Gqa
    /\ \E st \in WalkStage + 1..LastStage - 1 :
          /\ InStage(t, st)
          /\ s_part' = IF t < Stride(st)
                       THEN [s_part EXCEPT ![t] =
                                [h \in Heads |-> Merged(@[h], s_part[t + Stride(st)][h])]]
                       ELSE s_part
    /\ Arrive(t)
    /\ UNCHANGED <<arg, next_p, priv, s_q, out>>

\* attention_decode: thread 0's row is the result; each thread writes its dimensions.
WriteOut(t) ==
    /\ ~Gqa
    /\ InStage(t, LastStage)
    /\ out' = [h \in Heads |-> [d \in Dims |->
                  IF Strided(t, d) THEN s_part[0][h] ELSE out[h][d]]]
    /\ Arrive(t)
    /\ UNCHANGED <<arg, next_p, priv, s_q, s_part>>

\* attention_decode_gqa: a warp merges every warp's part of the heads it is for, and
\* its lanes write all the dimensions.
MergeHeads(t) ==
    /\ Gqa
    /\ InStage(t, LastStage)
    /\ LET total(h) ==
               LET upto[w \in 0..KWarps] ==
                       IF w = 0 THEN Nothing ELSE Merged(upto[w - 1], s_part[w - 1][h])
               IN  upto[KWarps]
       IN  out' = [h \in Heads |->
                      IF (h % Group) % KWarps = t THEN [d \in Dims |-> total(h)] ELSE out[h]]
    /\ Arrive(t)
    /\ UNCHANGED <<arg, next_p, priv, s_q, s_part>>

BlockStep ==
    \E t \in Actors :
        \/ Load(t) \/ Walk(t) \/ WalkDone(t) \/ MergePair(t) \/ WriteOut(t) \/ MergeHeads(t)
        \/ Syncthreads(t)

\* What the launchers refuse.
launch_attention_ok(kernel) ==
    /\ HeadDim <= MaxHeadDim
    /\ kernel = "gqa" => Group <= MaxGroup /\ HeadDim % KWarp = 0

\* The block starts on the arguments a.
Launch(a) ==
    LET actors == 0..(IF a.kernel = "gqa" THEN KWarps ELSE KThreads) - 1
        heads == IF a.kernel = "gqa" THEN {a.y * Group + h : h \in 0..Group - 1} ELSE {a.y}
    IN  /\ arg' = a
        /\ stage' = [t \in actors |-> LoadStage]
        /\ waits' = {}
        /\ next_p' = [t \in actors |-> t]
        /\ priv' = [t \in actors |-> [h \in heads |-> Nothing]]
        /\ s_q' = [h \in heads |-> [d \in Dims |-> Unset]]
        /\ s_part' = [t \in actors |-> [h \in heads |-> UnsetPart]]
        /\ out' = [h \in heads |-> [d \in Dims |-> UnsetPart]]

NoBlock == [kernel |-> "none"]

BlockIdle ==
    /\ arg = NoBlock
    /\ stage = <<>> /\ waits = {} /\ next_p = <<>>
    /\ priv = <<>> /\ s_q = <<>> /\ s_part = <<>> /\ out = <<>>

\* The block's memory is gone.
EndBlock ==
    /\ arg' = NoBlock
    /\ stage' = <<>> /\ waits' = {} /\ next_p' = <<>>
    /\ priv' = <<>> /\ s_q' = <<>> /\ s_part' = <<>> /\ out' = <<>>

=============================================================================
