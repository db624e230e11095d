----------------------------- MODULE ForwardPass -----------------------------
(***************************************************************************)
(* One step of the engine from the scheduler's slices to the tokens        *)
(* appended: forward() of the CUDA backend (model/cuda/cuda_model.cu) or   *)
(* of the CPU backend (model/cpu/cpu_model.cpp), sample_step() and the     *)
(* consumption of its result in on_step_done().                            *)
(*                                                                         *)
(* A row of activations is recorded as what it was computed from: its      *)
(* depth in layers and the tokens it has seen; a cell of the KV cache adds *)
(* the position it was rotated to.  Kernels run one after the other on one *)
(* stream, the blocks of a kernel in any order.  Of the blocks of an       *)
(* attention launch one, `probe', is run thread by thread.                 *)
(***************************************************************************)
EXTENDS Attention, Sampler

CONSTANTS
    SeqTokens,      \* tokens of each sequence
    SeqTable,       \* its block table
    Steps,          \* the slices of the steps to run
    Layers,         \* num_hidden_layers
    Backends,       \* "cpu", or "decode", "gqa": the kernel ENGINE_ATTN selects
    ScoreShapes     \* scores of the positions

Seqs == DOMAIN SeqTokens

\* The slots of the blocks in the tables.
Slots == {b * BlockSize + o : b \in UNION {ToSet(SeqTable[s]) : s \in Seqs}, o \in 0..BlockSize - 1}

\* What scheduler and cache manager guarantee (SlicesFresh, OwnContent): a slice is not
\* empty and within its sequence, a sequence has one at most and a block for each of its
\* tokens; a slot two sequences share is the same position of the same prefix.  What the
\* launchers refuse with an exception; and no score is as low as -FLT_MAX.
ASSUME ForwardPassAssumption ==
    /\ Layers \in Nat \ {0}
    /\ SeqTokens \in Seq(Seq(Int)) /\ SeqTable \in [Seqs -> Seq(Nat)]
    /\ \A s \in Seqs : Len(SeqTokens[s]) <= Len(SeqTable[s]) * BlockSize
    /\ \A s, t \in Seqs : \A p \in 1..Len(SeqTokens[s]), q \in 1..Len(SeqTokens[t]) :
          SlotAt(SeqTable[s], 0, p - 1) = SlotAt(SeqTable[t], 0, q - 1) =>
              SubSeq(SeqTokens[s], 1, p) = SubSeq(SeqTokens[t], 1, q)
    /\ Steps \subseteq Seq([seq : Seqs, start : Nat, len : Nat \ {0}, needs_logits : BOOLEAN])
    /\ \A step \in Steps : \A k \in 1..Len(step) :
          /\ step[k].start + step[k].len <= Len(SeqTokens[step[k].seq])
          /\ \A j \in 1..Len(step) : step[j].seq = step[k].seq => j = k
    /\ Backends \subseteq {"cpu", "decode", "gqa"}
    /\ \A b \in Backends \ {"cpu"} : launch_attention_ok(b)
    /\ \A sc \in ScoreShapes : \A s \in Seqs : \A p \in 0..Len(SeqTokens[s]) - 1 :
          p \in DOMAIN sc /\ sc[p] \in Int /\ \A h \in 1..QHeads : sc[p] * h > NegMax

VARIABLES
    step,           \* StepInput::slices
    backend,
    probe,          \* the block whose threads are followed: token, y
    score,          \* the scores of its query
    host,           \* the place in the step
    layer,          \* l
    tok,            \* tok_seq_, tok_pos_, tok_id_
    logit_rows,     \* logit_rows_
    dev,            \* the index arrays on the device
    x,              \* the activations, by row
    kv,             \* k, v: this layer's rows
    stored,         \* rows that store_kv has scattered
    cache,          \* k_cache_, v_cache_: layer -> slot -> cell
    logits,         \* rows of logits
    cursor, row,    \* loop indices of sample_step and on_step_done
    sampled,        \* the result of sample_step
    appended        \* what was appended to each sequence

inputVars == <<step, backend>>
layerVars == <<layer, tok, logit_rows, dev, x, kv, stored, cache>>
endVars == <<logits, cursor, row, sampled, appended>>
passVars == <<inputVars, probe, score, host, layerVars, endVars, smp, arg, blockVars>>

Rows == 1..Len(tok)

-----------------------------------------------------------------------------
(* The packed step.                                                        *)

\* flatten(): a slice packs one entry per token.
Entries(sl) ==
    [t \in 1..sl.len |-> [seq |-> sl.seq, pos |-> sl.start + t - 1,
                          id |-> SeqTokens[sl.seq][sl.start + t]]]

\* The entries of the first k slices.
Packed(k) ==
    LET upto[j \in 0..Len(step)] == IF j = 0 THEN <<>> ELSE upto[j - 1] \o Entries(step[j])
    IN  upto[k]

flatten == Packed(Len(step))

\* Mutant: the row of a slice is its first token.
RowOf_first(k) == Len(Packed(k - 1))

\* The last token of a slice produces its row.
RowOf(k) == Len(Packed(k)) - 1

\* flatten(): the rows that need logits, of the first k slices.
LogitRows(k) ==
    LET upto[j \in 0..Len(step)] ==
            IF j = 0 THEN <<>>
            ELSE IF step[j].needs_logits THEN Append(upto[j - 1], RowOf(j)) ELSE upto[j - 1]
    IN  upto[k]

flatten_rows == LogitRows(Len(step))

\* The block table of s joins those on the device when s is first seen.
Joining(d, s) ==
    IF Contains(d.seen, s) THEN d
    ELSE [seen |-> Append(d.seen, s), offset |-> Append(d.offset, Len(d.tables)),
          tables |-> d.tables \o SeqTable[s]]

\* The tables that the first k rows need.
Tables(toks, k) ==
    LET upto[i \in 0..Len(toks)] ==
            IF i = 0 THEN [seen |-> <<>>, offset |-> <<>>, tables |-> <<>>]
            ELSE Joining(upto[i - 1], toks[i].seq)
    IN  upto[k]

\* upload_step_indices(): the slot of every row, its sequence among those seen, and
\* their block tables.
upload_step_indices(toks) ==
    LET d == Tables(toks, Len(toks))
    IN  [slots |-> [i \in 1..Len(toks) |-> SlotAt(SeqTable[toks[i].seq], 0, toks[i].pos)],
         token_seq |-> [i \in 1..Len(toks) |->
                           (CHOOSE n \in 1..Len(d.seen) : d.seen[n] = toks[i].seq) - 1],
         tables |-> d.tables, offset |-> d.offset]

\* flatten, upload_step_indices and the embedding of every token.
BeginForward ==
    /\ host = "begin"
    /\ tok' = flatten
    /\ logit_rows' = flatten_rows
    /\ dev' = upload_step_indices(tok')
    /\ x' = [i \in 1..Len(tok') |-> [depth |-> 0, seen |-> <<tok'[i].id>>]]
    /\ host' = "qkv"
    /\ UNCHANGED <<inputVars, probe, score, layer, kv, stored, cache, endVars, smp, arg, blockVars>>

-----------------------------------------------------------------------------
(* A layer.                                                                *)

\* Norm, projections and rotation: the K and V of every row.
Project ==
    /\ host = "qkv"
    /\ kv' = [i \in Rows |-> [depth |-> x[i].depth, pos |-> tok[i].pos, seen |-> x[i].seen]]
    /\ stored' = {}
    /\ host' = "store"
    /\ UNCHANGED <<inputVars, probe, score, layer, tok, logit_rows, dev, x, cache, endVars,
                   smp, arg, blockVars>>

\* Where row i is stored; the CPU backend asks the block table.
StoreSlot(i) ==
    IF backend = "cpu" THEN SlotAt(SeqTable[tok[i].seq], 0, tok[i].pos) ELSE dev.slots[i]

\* store_kv: the block of row i.
store_kv(i) ==
    /\ host = "store"
    /\ i \in Rows \ stored
    /\ cache' = [cache EXCEPT ![layer][StoreSlot(i)] = kv[i]]
    /\ stored' = stored \union {i}
    /\ UNCHANGED <<inputVars, probe, score, host, layer, tok, logit_rows, dev, x, kv, endVars,
                   smp, arg, blockVars>>

\* The next kernel of the stream starts when store_kv has ended.
StoreDone == stored = Rows

\* The attention kernel is launched; the probe is one of its blocks.
LaunchAttention ==
    /\ host = "store"
    /\ backend # "cpu"
    /\ StoreDone
    /\ Launch([kernel |-> backend, token |-> probe.token - 1, y |-> probe.y,
               pos |-> tok[probe.token].pos, seq |-> dev.token_seq[probe.token],
               tables |-> dev.tables, offset |-> dev.offset, cache |-> cache[layer],
               score |-> [h \in 0..QHeads - 1 |-> [p \in DOMAIN score |-> score[p] * (h + 1)]]])
    /\ host' = "attend"
    /\ UNCHANGED <<inputVars, probe, score, layerVars, endVars, smp>>

AttentionStep ==
    /\ host = "attend"
    /\ BlockStep
    /\ UNCHANGED <<inputVars, probe, score, host, layerVars, endVars, smp>>

\* The cells that the attention of row i reads, through the arrays on the device or,
\* on the CPU (paged_attention_head), through the sequence's own block table.
History(i) ==
    [p \in 0..tok[i].pos |->
        cache[layer][IF backend = "cpu"
                     THEN SlotAt(SeqTable[tok[i].seq], 0, p)
                     ELSE SlotAt(dev.tables, table(dev.offset, dev.token_seq[i]), p)]]

\* Output projection, MLP and residuals: a row has now seen its history.
FinishLayer ==
    /\ \/ host = "attend" /\ Finished /\ EndBlock
       \/ host = "store" /\ backend = "cpu" /\ StoreDone /\ UNCHANGED <<arg, blockVars>>
    /\ x' = [i \in Rows |->
                [depth |-> layer + 1,
                 seen |-> [p \in 1..tok[i].pos + 1 |-> Last(History(i)[p - 1].seen)]]]
    /\ layer' = layer + 1
    /\ host' = IF layer + 1 < Layers THEN "qkv" ELSE "head"
    /\ UNCHANGED <<inputVars, probe, score, tok, logit_rows, dev, kv, stored, cache, endVars, smp>>

\* The rows that need logits are gathered and go through the head; without one the
\* step ends here.
RunHead ==
    /\ host = "head"
    /\ logits' = [r \in 1..Len(logit_rows) |-> x[logit_rows[r] + 1]]
    /\ host' = "sample"
    /\ probe' = <<>> /\ score' = <<>>
    /\ UNCHANGED <<inputVars, layerVars, cursor, row, sampled, appended, smp, arg, blockVars>>

-----------------------------------------------------------------------------
(* sample_step() and on_step_done().                                       *)

\* The row after the slice sl.
NextRow(sl) == IF sl.needs_logits THEN row + 1 ELSE row

Advance == cursor' = cursor + 1 /\ row' = NextRow(step[cursor])

BeginRow ==
    /\ host = "sample" /\ cursor <= Len(step)
    /\ step[cursor].needs_logits
    /\ \E w \in [Ids -> Weights] :
          /\ Total(w) > 0
          /\ \/ \E m \in {"greedy", "plain"} : BeginSample(w, m, 0)
             \/ \E need \in 0..Total(w) + 1 : BeginSample(w, "nucleus", need)
    /\ UNCHANGED <<inputVars, probe, score, host, layerVars, endVars, arg, blockVars>>

SampleRow ==
    /\ host = "sample"
    /\ Window \/ Draw
    /\ UNCHANGED <<inputVars, probe, score, host, layerVars, endVars, arg, blockVars>>

EndRow ==
    /\ host = "sample" /\ cursor <= Len(step)
    /\ smp.at = "done" \/ ~step[cursor].needs_logits
    /\ sampled' = IF step[cursor].needs_logits
                  THEN Append(sampled, [token |-> smp.token, from |-> logits[row]]) ELSE sampled
    /\ smp' = NoSample
    /\ Advance
    /\ UNCHANGED <<inputVars, probe, score, host, layerVars, logits, appended, arg, blockVars>>

EndSampling ==
    /\ host = "sample" /\ cursor > Len(step)
    /\ host' = "apply" /\ cursor' = 1 /\ row' = 1
    /\ UNCHANGED <<inputVars, probe, score, layerVars, logits, sampled, appended, smp, arg, blockVars>>

\* on_step_done: the slices take their tokens in order.
ApplySlice ==
    /\ host = "apply" /\ cursor <= Len(step)
    /\ LET sl == step[cursor]
       IN  appended' = IF sl.needs_logits
                       THEN [appended EXCEPT ![sl.seq] = Append(@, sampled[row])] ELSE appended
    /\ Advance
    /\ UNCHANGED <<inputVars, probe, score, host, layerVars, logits, sampled, smp, arg, blockVars>>

EndStep ==
    /\ host = "apply" /\ cursor > Len(step)
    /\ host' = "done"
    /\ UNCHANGED <<inputVars, probe, score, layerVars, endVars, smp, arg, blockVars>>

-----------------------------------------------------------------------------
\* Position p of s, at the depth l, as a computation without batches or paging has it.
Cell(s, p, l) ==
    [depth |-> l, pos |-> p,
     seen |-> IF l = 0 THEN <<SeqTokens[s][p + 1]>> ELSE SubSeq(SeqTokens[s], 1, p + 1)]

\* Of an earlier owner of the block.
Stale == [depth |-> 0, pos |-> 0, seen |-> <<0>>]

\* The position of s that was computed before the step and is in the slot.
Held(s, sl) ==
    {p \in 0..Len(SeqTokens[s]) - 1 :
        /\ SlotAt(SeqTable[s], 0, p) = sl
        /\ \A k \in 1..Len(step) : step[k].seq = s => p < step[k].start}

CacheAtStart ==
    [l \in 0..Layers - 1 |-> [sl \in Slots |->
        LET here == UNION {{Cell(s, p, l) : p \in Held(s, sl)} : s \in Seqs}
        IN  IF here = {} THEN Stale ELSE CHOOSE c \in here : TRUE]]

PassInit ==
    /\ step \in Steps
    /\ backend \in Backends
    /\ tok = <<>> /\ logit_rows = <<>> /\ x = <<>> /\ kv = <<>> /\ stored = {} /\ layer = 0
    /\ dev = upload_step_indices(<<>>)
    /\ cache = CacheAtStart
    /\ score \in ScoreShapes
    /\ \E i \in 1..Len(flatten), y \in 0..QHeads - 1 :
          /\ backend = "gqa" => y < KVHeads
          /\ backend = "cpu" => i = 1 /\ y = 0
          /\ probe = [token |-> i, y |-> y]
    /\ host = "begin"
    /\ logits = <<>> /\ cursor = 1 /\ row = 1 /\ sampled = <<>>
    /\ appended = [s \in Seqs |-> <<>>]
    /\ smp = NoSample
    /\ BlockIdle

PassNext ==
    \/ BeginForward \/ Project \/ (\E i \in Rows : store_kv(i)) \/ LaunchAttention
    \/ AttentionStep \/ FinishLayer \/ RunHead
    \/ BeginRow \/ SampleRow \/ EndRow \/ EndSampling \/ ApplySlice \/ EndStep

\* The engine thread and the device go on.
PassSpec == PassInit /\ [][PassNext]_passVars /\ WF_passVars(PassNext)

-----------------------------------------------------------------------------
(* Properties.                                                             *)

\* The reference, ref::paged_attention_head: every position up to the query's once,
\* of the kv head of the query head, weighted by its score relative to the largest.
IsReference(part, head) ==
    LET s == tok[probe.token].seq
        positions == 0..tok[probe.token].pos
        e == [p \in positions |-> arg.score[head][p] - Max({arg.score[head][q] : q \in positions})]
    IN  /\ ToBag(part.l) = ToBag([n \in 1..Cardinality(positions) |-> <<1, e[n - 1]>>])
        /\ ToBag(part.acc) = ToBag([n \in 1..Cardinality(positions) |->
                                        << <<head \div Group, Cell(s, n - 1, layer)>>, e[n - 1]>>])

\* When the threads of a block have ended, in whatever order they ran, every element
\* of out is the reference's: no position is missed, read twice, read from another
\* sequence's block or before it was stored, or weighted by a stale maximum.
AttentionExact ==
    host = "attend" /\ Finished =>
        \A h \in Heads : \A d \in Dims : IsReference(out[h][d], h)

\* Whatever was packed beside it, every sequence that asked for logits gets one token,
\* drawn from the row computed from exactly its own tokens up to the end of its slice;
\* no other sequence gets one.
LogitsReachTheirSequence ==
    host = "done" =>
        \A s \in DOMAIN appended :
            LET asked == {k \in 1..Len(step) : step[k].seq = s /\ step[k].needs_logits}
            IN  /\ Len(appended[s]) = Cardinality(asked)
                /\ \A k \in asked : appended[s][1].from =
                      [depth |-> Layers,
                       seen |-> SubSeq(SeqTokens[s], 1, step[k].start + step[k].len)]

\* A step ends: no thread is left behind at a barrier.
StepEnds == <>(host = "done")

=============================================================================
