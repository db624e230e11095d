---------------------------- MODULE CudaResources ----------------------------
(***************************************************************************)
(* What CudaModel (model/cuda/cuda_model.cu) owns on the device: weights,  *)
(* rotation tables and KV cache, allocated by the constructor; the Scratch *)
(* buffers, which grow with the steps; the events of StepProfile.          *)
(*                                                                         *)
(* An allocation is a number that is never given out again, so that a      *)
(* pointer to released memory can be told from a live one; it is big       *)
(* enough for size[a] elements.  cudaMalloc, cudaFree, a copy, a kernel or *)
(* cudaEventCreate may fail.  An exception out of forward() ends the       *)
(* engine's loop, and the model is destroyed.                              *)
(***************************************************************************)
EXTENDS Integers, FiniteSets, SequencesExt

CONSTANTS
    Layers,                   \* num_hidden_layers
    Hidden, KvDim, Inter, Vocab,
    Demands,                  \* sizes of a step: tokens, sequences, table entries, logit rows
    MaxSteps,                 \* bound: calls of forward()
    LayerScopes,              \* profiled regions of a layer
    MaxEventFailures          \* bound: failures of cudaEventCreate

ASSUME ResourcesAssumption ==
    /\ {Layers, Hidden, KvDim, Inter, Vocab} \subseteq Nat \ {0}
    /\ {MaxSteps, LayerScopes, MaxEventFailures} \subseteq Nat
    /\ \A d \in Demands : {d.n, d.seqs, d.tables} \subseteq Nat \ {0} /\ d.rows \in 0..d.n

VARIABLES
    cfg,            \* tie_word_embeddings, the biases there are, heads * head_dim = hidden_size
    phase,          \* where the model's life is
    todo,           \* members, buffers or regions that the present method has still to do
    ptr,            \* the pointer members
    live, size,     \* the device's heap
    cap,            \* Scratch::cap
    step,           \* the sizes of the present step
    held,           \* d_slots_, ..., x, h, ...: the pointers the step has got
    steps,          \* calls of forward()
    broken,         \* the buffer that lost its memory when it could not grow
    twice,          \* members whose release hit memory that was gone already
    on,             \* StepProfile::on_
    prof,           \* pool_, next_, start_, spans_; failures so far
    stamp           \* when an event was recorded in this step, 0 if it was not

heapVars == <<ptr, live, size>>
profVars == <<on, prof, stamp>>
resVars == <<cfg, phase, todo, heapVars, cap, step, held, steps, broken, twice, profVars>>

Null == 0

-----------------------------------------------------------------------------
(* The members.                                                            *)

\* Those of every layer, layer by layer.
LayerSeq(names) ==
    [i \in 1..Layers * Len(names) |->
        <<names[((i - 1) % Len(names)) + 1], ((i - 1) \div Len(names)) + 1>>]

LayerNames ==
    <<"in_norm", "post_norm", "wq", "wk", "wv", "wo", "bq", "bk", "bv", "wgate", "wup", "wdown">>

\* load_weights(), and the rest of the constructor: what is allocated, in this order.
load_weights ==
    << <<"embed", 0>>, <<"final_norm", 0>>, <<"lm_head", 0>> >> \o LayerSeq(LayerNames)
Constructed ==
    << <<"blas", 0>> >> \o load_weights \o << <<"cos", 0>>, <<"sin", 0>> >>
    \o LayerSeq(<<"k_cache", "v_cache">>)

\* A tied head, and the biases a layer does not have.
Absent(m) ==
    \/ m = <<"lm_head", 0>> /\ cfg.tied
    \/ m[1] \in {"bq", "bk", "bv"} /\ m[2] \notin cfg.bias

\* The Scratch buffers, in the order forward() asks for them, and logits_.
IndexBuffers ==
    << <<"slots", 0>>, <<"token_seq", 0>>, <<"tables", 0>>, <<"table_offset", 0>>,
       <<"positions", 0>>, <<"token_ids", 0>> >>
RowBuffers ==
    << <<"x", 0>>, <<"h", 0>>, <<"q", 0>>, <<"k", 0>>, <<"v", 0>>, <<"attn", 0>>, <<"o", 0>>,
       <<"gate", 0>>, <<"up", 0>> >>
Logits == <<"logits", 0>>
Buffers == ToSet(IndexBuffers) \union ToSet(RowBuffers) \union {Logits}

\* ~CudaModel, and behind it the members' own destructors, last member first.
DestroyOrder ==
    LayerSeq(<<"k_cache">>) \o LayerSeq(<<"v_cache">>)
    \o LayerSeq(LayerNames)
    \o << <<"cos", 0>>, <<"sin", 0>>, <<"final_norm", 0>>, <<"lm_head", 0>>, <<"embed", 0>>,
          <<"blas", 0>> >>
    \o Reverse(RowBuffers \o <<Logits>> \o IndexBuffers)

Members == ToSet(DestroyOrder)

\* The elements a step needs of a buffer.
Need(b) ==
    CASE b[1] \in {"x", "h", "q", "attn", "o"} -> step.n * Hidden
      [] b[1] \in {"k", "v"} -> step.n * KvDim
      [] b[1] \in {"gate", "up"} -> step.n * Inter
      [] b[1] = "logits" -> step.rows * Vocab
      [] b[1] = "tables" -> step.tables
      [] b[1] = "table_offset" -> step.seqs
      [] OTHER -> step.n

-----------------------------------------------------------------------------
(* Constructor.                                                            *)

NewAlloc == Len(size) + 1

\* device_alloc, into member m.
device_alloc(m, elements) ==
    /\ ptr' = [ptr EXCEPT ![m] = NewAlloc]
    /\ size' = Append(size, elements)

BeginConstruct ==
    /\ phase = "new"
    /\ phase' = IF cfg.square THEN "construct" ELSE "failed"
    /\ todo' = IF cfg.square THEN Constructed ELSE <<>>
    /\ UNCHANGED <<cfg, heapVars, cap, step, held, steps, broken, twice, profVars>>

\* upload_f16, upload_f32, or the allocation of a table.
Construct ==
    /\ phase = "construct" /\ todo # <<>> /\ ~Absent(Head(todo))
    /\ device_alloc(Head(todo), 1)
    /\ live' = live \union {NewAlloc}
    /\ todo' = Tail(todo)
    /\ UNCHANGED <<cfg, phase, cap, step, held, steps, broken, twice, profVars>>

\* The weights do not have it.  A tied head is the embedding.
ConstructSkips ==
    /\ phase = "construct" /\ todo # <<>> /\ Absent(Head(todo))
    /\ ptr' = IF Head(todo) = <<"lm_head", 0>>
              THEN [ptr EXCEPT ![<<"lm_head", 0>>] = ptr[<<"embed", 0>>]] ELSE ptr
    /\ todo' = Tail(todo)
    /\ UNCHANGED <<cfg, phase, live, size, cap, step, held, steps, broken, twice, profVars>>

\* The allocation throws, or the copy behind it: the destructor does not run, and only
\* the members that release themselves are released.
ConstructThrows ==
    /\ phase = "construct" /\ todo # <<>> /\ ~Absent(Head(todo))
    /\ \/ UNCHANGED <<live, size>>
       \/ live' = live \union {NewAlloc} /\ size' = Append(size, 1)
    /\ phase' = "failed" /\ todo' = <<>>
    /\ UNCHANGED <<cfg, ptr, cap, step, held, steps, broken, twice, profVars>>

ConstructDone ==
    /\ phase = "construct" /\ todo = <<>>
    /\ phase' = "idle"
    /\ UNCHANGED <<cfg, todo, heapVars, cap, step, held, steps, broken, twice, profVars>>

-----------------------------------------------------------------------------
(* forward().                                                              *)

BeginForward ==
    /\ phase = "idle" /\ steps < MaxSteps
    /\ step' \in Demands
    /\ phase' = "get" /\ todo' = IndexBuffers \o RowBuffers
    /\ steps' = steps + 1
    /\ held' = [b \in {} |-> Null]
    /\ UNCHANGED <<cfg, heapVars, cap, broken, twice, profVars>>

\* Mutant: a buffer is allocated once.
Holds_any(b) == cap[b] > 0

Holds(b) == cap[b] >= Need(b)

Got(b, a) == held' = [c \in DOMAIN held \union {b} |-> IF c = b THEN a ELSE held[c]]

\* Scratch::get: the buffer is large enough.
GetReuses ==
    /\ phase = "get" /\ todo # <<>>
    /\ Holds(Head(todo))
    /\ Got(Head(todo), ptr[Head(todo)])
    /\ todo' = Tail(todo)
    /\ UNCHANGED <<cfg, phase, heapVars, cap, step, steps, broken, twice, profVars>>

\* Scratch::get: it is released, and allocated again with the size the step needs.
GetGrows ==
    /\ phase = "get" /\ todo # <<>>
    /\ ~Holds(Head(todo))
    /\ device_alloc(Head(todo), Need(Head(todo)))
    /\ live' = (live \ {ptr[Head(todo)]}) \union {NewAlloc}
    /\ cap' = [cap EXCEPT ![Head(todo)] = Need(Head(todo))]
    /\ Got(Head(todo), NewAlloc)
    /\ todo' = Tail(todo)
    /\ UNCHANGED <<cfg, phase, step, steps, broken, twice, profVars>>

\* Scratch::get: the release throws, or the allocation behind it, which leaves a
\* pointer to memory that is gone.
GetThrows ==
    /\ phase = "get" /\ todo # <<>>
    /\ ~Holds(Head(todo))
    /\ \/ ptr[Head(todo)] # Null /\ UNCHANGED <<live, broken>>
       \/ /\ live' = live \ {ptr[Head(todo)]}
          /\ broken' = IF ptr[Head(todo)] = Null THEN broken ELSE broken \union {Head(todo)}
    /\ phase' = "threw" /\ todo' = <<>>
    /\ UNCHANGED <<cfg, ptr, size, cap, step, held, steps, twice, profVars>>

\* A copy to the device, behind a buffer that was got, throws.
CopyThrows ==
    /\ phase = "get" /\ DOMAIN held # {}
    /\ phase' = "threw" /\ todo' = <<>>
    /\ UNCHANGED <<cfg, heapVars, cap, step, held, steps, broken, twice, profVars>>

\* The regions that are still to run: those of the layers, then the head.
GetDone ==
    /\ phase = "get" /\ todo = <<>>
    /\ phase' = "kernels"
    /\ todo' = IF Logits \in DOMAIN held THEN <<"head">>
               ELSE <<"embed">> \o [k \in 1..LayerScopes * Layers |-> "layer"]
    /\ UNCHANGED <<cfg, heapVars, cap, step, held, steps, broken, twice, profVars>>

-----------------------------------------------------------------------------
(* StepProfile.                                                            *)

\* mark(): the next event of the pool, a new one at its end; if that cannot be made,
\* an index behind the pool.
mark(p) ==
    LET recorded(q) == [prof |-> [q EXCEPT !.next = @ + 1],
                        stamp |-> [stamp EXCEPT ![q.next] = Max(Range(stamp)) + 1]]
    IN  IF p.next < p.pool THEN {recorded(p)}
        ELSE {recorded([p EXCEPT !.pool = @ + 1])} \union
             {[prof |-> [p EXCEPT !.failures = @ + 1], stamp |-> stamp] :
                 f \in {f \in {p.failures} : f < MaxEventFailures}}

\* begin() and end() of the scope around a region.
ScopeBegin ==
    /\ phase = "kernels" /\ todo # <<>>
    /\ IF on
       THEN \E r \in mark(prof) : prof' = [r.prof EXCEPT !.start = prof.next] /\ stamp' = r.stamp
       ELSE UNCHANGED <<prof, stamp>>
    /\ phase' = "region"
    /\ UNCHANGED <<cfg, todo, heapVars, cap, step, held, steps, broken, twice, on>>

ScopeEnd ==
    /\ phase = "region"
    /\ IF on
       THEN \E r \in mark(prof) :
               /\ prof' = [r.prof EXCEPT !.spans = Append(@, [a |-> prof.start, b |-> prof.next])]
               /\ stamp' = r.stamp
       ELSE UNCHANGED <<prof, stamp>>
    /\ phase' = "kernels" /\ todo' = Tail(todo)
    /\ UNCHANGED <<cfg, heapVars, cap, step, held, steps, broken, twice, on>>

\* A product or a launch is refused; the scope ends on the way out.
RegionThrows ==
    /\ phase = "region"
    /\ phase' = "threw" /\ todo' = <<>>
    /\ UNCHANGED <<cfg, heapVars, cap, step, held, steps, broken, twice, profVars>>

\* The rows that need logits get their buffer; without one the step ends.
GetLogits ==
    /\ phase = "kernels" /\ todo = <<>>
    /\ Logits \notin DOMAIN held /\ step.rows > 0
    /\ phase' = "get" /\ todo' = <<Logits>>
    /\ UNCHANGED <<cfg, heapVars, cap, step, held, steps, broken, twice, profVars>>

\* The synchronisation: an error of any kernel appears here.
Synchronize ==
    /\ phase = "kernels" /\ todo = <<>>
    /\ Logits \in DOMAIN held \/ step.rows = 0
    /\ phase' \in {"sync", "threw"}
    /\ UNCHANGED <<cfg, todo, heapVars, cap, step, held, steps, broken, twice, profVars>>

\* Mutant: the spans of a step are read again after the next one.
flushed_spans_kept == prof.spans

flushed_spans == <<>>

\* flush(): the spans are read, and the events are free for the next step.  The logits
\* are copied to the host behind it.
flush ==
    /\ phase = "sync"
    /\ prof' = [prof EXCEPT !.spans = flushed_spans, !.next = 0, !.start = 0]
    /\ stamp' = [e \in DOMAIN stamp |-> 0]
    /\ phase' \in IF step.rows > 0 THEN {"idle", "threw"} ELSE {"idle"}
    /\ UNCHANGED <<cfg, todo, heapVars, cap, step, held, steps, broken, twice, on>>

-----------------------------------------------------------------------------
(* Destructor.                                                             *)

Destroy ==
    /\ phase \in {"idle", "threw"}
    /\ phase' = "destroy" /\ todo' = DestroyOrder
    /\ UNCHANGED <<cfg, heapVars, cap, step, held, steps, broken, twice, profVars>>

\* Mutant: a tied head is released as if it were a copy.
Skipped_null(m) == ptr[m] = Null

\* Pointers that are null, and a tied head, are left alone.
Skipped(m) == ptr[m] = Null \/ (m = <<"lm_head", 0>> /\ ptr[m] = ptr[<<"embed", 0>>])

Release ==
    /\ phase = "destroy" /\ todo # <<>>
    /\ LET m == Head(todo)
       IN  /\ live' = IF Skipped(m) THEN live ELSE live \ {ptr[m]}
           /\ twice' = IF Skipped(m) \/ ptr[m] \in live THEN twice ELSE twice \union {m}
    /\ todo' = Tail(todo)
    /\ UNCHANGED <<cfg, phase, ptr, size, cap, step, held, steps, broken, profVars>>

\* ~StepProfile: the events.
ReleaseDone ==
    /\ phase = "destroy" /\ todo = <<>>
    /\ prof' = [prof EXCEPT !.pool = 0]
    /\ phase' = "gone"
    /\ UNCHANGED <<cfg, todo, heapVars, cap, step, held, steps, broken, twice, on, stamp>>

-----------------------------------------------------------------------------
\* Two events for each region of a step.
MaxEvents == 2 * (2 + LayerScopes * Layers)

ResInit ==
    /\ cfg \in [tied : BOOLEAN, bias : SUBSET (1..Layers), square : BOOLEAN]
    /\ phase = "new" /\ todo = <<>>
    /\ ptr = [m \in Members |-> Null] /\ live = {} /\ size = <<>>
    /\ cap = [b \in Buffers |-> 0]
    /\ step = <<>> /\ held = [b \in {} |-> Null] /\ steps = 0
    /\ broken = {} /\ twice = {}
    /\ on \in BOOLEAN
    /\ prof = [pool |-> 0, next |-> 0, start |-> 0, spans |-> <<>>, failures |-> 0]
    /\ stamp = [e \in 0..MaxEvents |-> 0]

ResNext ==
    \/ BeginConstruct \/ Construct \/ ConstructSkips \/ ConstructThrows \/ ConstructDone
    \/ BeginForward \/ GetReuses \/ GetGrows \/ GetThrows \/ CopyThrows \/ GetDone
    \/ ScopeBegin \/ ScopeEnd \/ RegionThrows \/ GetLogits \/ Synchronize \/ flush
    \/ Destroy \/ Release \/ ReleaseDone

ResSpec == ResInit /\ [][ResNext]_resVars

-----------------------------------------------------------------------------
(* Properties.                                                             *)

\* While the kernels of a step run, every buffer they were given is live, as large as
\* they take it to be, and nobody else's, whatever the steps before needed.
StepBuffersLive ==
    phase \in {"kernels", "region", "sync"} =>
        /\ \A b \in DOMAIN held : held[b] \in live /\ size[held[b]] >= Need(b)
        /\ \A b \in DOMAIN held : \A m \in Members \ {b} : ptr[m] # held[b]
        /\ ToSet(IndexBuffers \o RowBuffers) \subseteq DOMAIN held

\* A model that was constructed leaves nothing on the device, also after an exception
\* out of forward(), and releases nothing twice (a tied head is the embedding): "Releases
\* every device allocation".  The exception is a buffer that could not grow, whose old
\* memory get() had released.
ReleasedOnce ==
    phase = "gone" => live = {} /\ prof.pool = 0 /\ twice \subseteq broken

\* The spans flush() reads are those of the step's regions, one each, and between events
\* of this step, the first not recorded after the second; events that could not be made
\* are not read ("Dropping it loses one sample; indexing it would be a buffer overrun").
SpansOfThisStep ==
    phase = "sync" /\ on =>
        /\ Len(prof.spans) = 1 + LayerScopes * Layers + (IF step.rows > 0 THEN 1 ELSE 0)
        /\ \A k \in DOMAIN prof.spans :
              LET sp == prof.spans[k]
              IN  sp.a < prof.pool /\ sp.b < prof.pool =>
                      stamp[sp.a] \in 1..stamp[sp.b]

=============================================================================
