# TLA+ verification of llm-engine

llm-engine serves Llama-style language models: HTTP handlers submit token prompts to
an engine thread, which batches them step by step, keeps their attention keys and
values in a paged cache that sequences may share, and streams sampled tokens back.
This directory models the parts that decide *which* K/V a sequence reads, *which*
sequence runs next and *whether* a request is ever answered: cache, scheduler and engine;
the step itself, from the packed batch over the attention kernels to the sampled token;
and what is around them: the HTTP handlers, the worker pool of the CPU backend, the
tokenizer and the memory of the CUDA backend.
TLC checks them on small instances; TLAPS proves the central facts about the cache, the
scheduler, the engine's threads, the step from packing to sampled token, the HTTP handlers,
the worker pool and the device's memory for every instance.

## 1. Inventory

| Part | State | Operations | Talks to |
|---|---|---|---|
| **KV cache manager** `kv_cache/block_allocator.cpp` | free list, LRU list, reference counts, hash of each block, hash index; a block table per sequence | `allocate_prompt`, `ensure_slot`, `commit_computed`, `free` | called by the scheduler; block tables are read by the model |
| **Scheduler** `scheduler/scheduler.cpp` | waiting queue, running batch, the open/closed flag of a static batch; per sequence: status, computed tokens, wait rounds | `add`, `abort`, `schedule`, `on_step_done` | calls the manager; called by the engine loop; fires callbacks |
| **Engine** `api/engine.cpp` | flags `running_`, `accepting_`, `draining_`; inboxes under a mutex; `queued_` | `submit`, `abort`, `drain`, `stop`, `run_loop`, `health` | client threads, owner thread, engine thread |
| **Model** `model/cpu`, `model/cuda` | weights, K/V buffers; on the device: scratch buffers that grow, profiling events | construction, `forward`, destruction | reads tables, writes slots |
| **Attention kernels** `kernels/attention_decode.cu`, `attention_decode_gqa.cu`, `store_kv.cu` | shared memory and registers of a thread block | one launch per layer | launched by the CUDA model |
| **Sampler** `model/sampler.cpp` | RNG, index and probability buffers | `sample_step` | engine loop |
| **Tokenizer** `tokenizer/tokenizer.cpp` | vocabulary, merges, added tokens | `encode`, `decode` | handlers |
| **Thread pool** `parallel.h` | generation, remaining count, body | `parallel_for` | CPU model |
| **Server** `api/server.cpp`, `serve` of `main.cpp` | `accepting_`; per request: a channel of tokens, a UTF-8 buffer | handlers, content provider, releaser, `stop_accepting`, `stop` | `submit`, `abort`, `drain`, `health`; callbacks from the engine thread |
| **config/safetensors**, **metrics**, **CLI** | tables, counters | start-up code, reporting | |

What makes the system hard:

* **Sharing.** A block of K/V may be in several block tables and in the prefix cache;
  it must be neither reused while someone reads it nor found under a hash that does
  not describe its contents. Reference counts, two mutually inverse maps, an LRU list
  and the tables have to agree after every operation.
* **Memory pressure.** Making room in the middle of building a step evicts or preempts
  sequences that the step has dealt with already.
* **Progress.** Preemption, admission control, lookahead, deadlines and static batches
  interact; each alone is harmless.
* **Threads.** Flags and inbox are read and written by clients, the owner and the
  engine thread; shutdown and failure race with submissions. Handler threads live as
  long as their requests, and clients leave in the middle. Workers of the pool read the
  loop they run without the lock. The threads of an attention block meet at barriers and
  merge partial sums in memory they share.
* **Packing.** Sequences of different kinds are flattened into one step; rows, slots,
  tables, logits and tokens find their sequence again by counting.
* **Exactness.** Several fast paths promise the result of a plain definition: online
  softmax, the widening window of the sampler, the hand-written split of the tokenizer.

## 2. Modules

| Module | Models | Lines of the program |
|---|---|---|
| `KVCache` | manager, block tables, K/V slots | `block_allocator.cpp`, `kv_cache.h`, the write loop of `cpu_model.cpp` |
| `Scheduler` (extends `KVCache`) | scheduler and the engine's step | `scheduler.cpp`, `scheduler.h`, `sequence.h`, `engine.cpp` (step) |
| `Engine` (extends `Scheduler`) | threads, inbox, shutdown, failure | `engine.cpp` |
| `ThreadPool` | fork and join of a loop over worker threads | `parallel.h` |
| `Server` | handlers, channel, UTF-8 buffer, shutdown of `serve`, against a reduced engine | `server.cpp`, `main.cpp` (`cmd_serve`), what `engine.cpp` shows of itself |
| `RequestLife` | abstract: a request as its client sees it | what `sequence.h` and `api.h` promise |
| `Attention` | one thread block of either attention kernel | `attention_decode.cu`, `attention_decode_gqa.cu` |
| `Sampler` | `argmax`, `sample` | `sampler.cpp` |
| `ForwardPass` (extends `Attention`, `Sampler`) | one step on either backend, to the tokens appended | `cuda_model.cu`, `cpu_model.cpp`, `store_kv.cu`, `sampler.cpp`, `scheduler.cpp` |
| `CudaResources` | what a CUDA model owns on the device | `cuda_model.cu` |
| `Tokenizer` | `encode` and `decode` of both families | `tokenizer.cpp` |
| `MC...` | instances for TLC | |
| `KVCacheProofs` | theorems about `KVCache` | |
| `SchedulerProofs` | theorems about `Scheduler` | |
| `EngineProofs` | theorems about `Engine` | |
| `ForwardPassProofs` | theorems about `ForwardPass` and `Sampler` | |
| `ServerProofs` | theorems about `Server` | |
| `CudaProofs` | theorems about `CudaResources` | |
| `ThreadPoolProofs` | theorems about `ThreadPool` | |
| `TokenizerProofs` | theorems about `Tokenizer` | |

### KVCache

Each variable is a member of `KVCacheManager`, `BlockTable` or `Sequence`, named after
it without the trailing underscore. Two are not in the program: `data` (what is in the
K/V slots) and `written` (how many leading positions of a sequence are filled), which
let us say what attention reads.

* A *hash* is the token prefix it stands for; `hash_block(prev, chunk) == prev \o chunk`.
  The 64-bit hash of the program is thereby taken to be free of collisions.
* The *K/V at a position* is the token prefix up to it, which is all that K/V depend on.
* `lru_` and `lru_pos_` are one sequence; `free_` is a set, because which unhashed block
  is handed out cannot be observed.
* A block that goes back to the free list or is evicted loses its `data`: nothing may
  rely on it any more, and the properties would notice.
* Methods with loops are one action per iteration (`AllocHit`, `AllocTake`,
  `CommitStep`, `FreeStep`, ...), `call` being the method in progress; every caller's
  action requires `call = Idle`, so a method is not interleaved with anything.
  `free_table` and its iterations shrink the table as they go, where the code clears it
  at the end; nobody sees the difference inside one method.
* The client's part is the contract of the manager: a prompt is set on an empty table,
  `Write` fills positions that follow written ones and have slots, `commit_computed` is
  called for written positions only. `Scheduler` uses these very actions.

### Scheduler

`pc` is the place in the engine's step and each action is one iteration of a loop of
`schedule()` or `on_step_done()`: `BeginSchedule` splits the batch into prefilling and
decoding sequences; `Place`, `EvictFinished`, `Preempt` are the `while (!ensure_slot)`
loop and `evict_for_memory`; `ChunkPrefill`, `TruncateDecode` spend the budget;
`ExpireQueue` applies the deadline; `Admit`, `SkipWaiting`, `AdmitDone` are `admit_one`
with lookahead and starvation bound; `FinishSchedule` closes a static batch, rejects a
hopeless head and adds the decode slices; `Forward` writes K/V; `Apply`, `Sample`,
`RetireDone`, `DrainBatch` are `on_step_done`. Sampling is a choice of any token, the
clock a choice of the set of requests whose deadline has passed. `Only` is the loop that
copies what passes a test, `Without` the erasure of one element; the size of a step is the
cardinality of `BatchTokens`, the set of its (slice, offset) pairs. `wait_steps` is capped
at `StarvationSteps`: the code compares it with `>=` only. Statistics and timestamps are
left out.

### Engine

Four kinds of threads. A client is at one of the steps of `submit()`: flag test, depth
test, append, increment. The owner is inside `drain()` or `stop()`: flag, flag, join. The
engine thread is at a place `loop` of `run_loop()`, with the scheduler's actions inside
`StepRuns` and `FlushRuns`. `inbox_mu_` is held across the intake, so clients cannot
append while `loop = "intake"`; every other critical section is a single action. The
condition variable needs no state: the wait is bounded by 500 ms, hence it may end at any
time. The stall watchdog is one bit, `stale`: the stamp is older than the timeout.
`TimePasses` sets it, `mark_progress` clears it, `health` judges by it. `balanced` is the
self-check of the pool, which is true by its definition. `Throw` is an exception out of
`forward()`, caught by `run()`; the release code of `run()` and of the regular exit are
the same statements and share actions.

### RequestLife

What a client may rely on: a request is open from its submission, its text grows token by
token, it ends once for a reason that fits the text or that the client knows of, and it
does end. `Life` in `Scheduler` maps the scheduler's state to it: waiting, running and
preempted are "open", the token list is the text, `terminals` counts the callbacks.
Admission, preemption, recomputation and batches are then stutters, or the property fails.
`LifeSafety` is all of it but that requests do end.

### Attention, Sampler, ForwardPass

The arithmetic is replaced by where numbers come from. A row of activations is its depth
and the tokens it has seen; a cell of the K/V cache adds its position; an accumulator is
the list of its terms with their exponents, relative to the running maximum. So the online
softmax, its rescaling and the guard on `-FLT_MAX` are modelled, rounding is not.

`Attention` is one block: actors are the threads of `attention_decode` or the warps of
`attention_decode_gqa` (lanes of a warp move together; the butterfly of `warp_all_sum` is
an operator). They run freely from barrier to barrier; `stage` is the part of the kernel
an actor is in. Shared memory starts unset. `ForwardPass` runs the step: `BeginForward` is
`flatten` and `upload_step_indices`; per layer `Project`, `store_kv` row by row in any
order, the attention launch, `FinishLayer`; then `RunHead`, the loop of `sample_step` and
that of `on_step_done`. Blocks of a launch share nothing they write, so one block, any one
(`probe`), is followed thread by thread and the others are computed by `History`. The CPU
backend differs where the code does: slots come from the block table itself.

In `Sampler` probabilities are integer weights, `top_p` is a weight to be reached, and
`nth_element` may leave any order its specification allows.

### CudaResources

Pointers are numbers that are never given out twice, so that a released pointer is known
as such. The constructor allocates member by member and passes over what the weights do
not have (`ConstructSkips`); `forward()` asks for its buffers (`GetReuses`, `GetGrows`),
runs profiled regions (`ScopeBegin`, `ScopeEnd`), synchronises, reads the profile and
copies the logits to the host (`flush`); the destructor releases member by member. Any allocation, release, copy,
kernel or event may fail (`...Throws`); an exception ends the engine's loop and the model
is destroyed.

### Tokenizer

Bytes and codepoints are numbers, a text is its UTF-8. `FindSpecial` and `EndChunk` are the
loop of `encode()` over added tokens, `NextPiece` that of `pre_tokenize` with its seven
rules, `bpe_merge` one turn of the merge loop; `decode` is an operator. A character that is
not in a metaspace vocabulary becomes those of its bytes that have a token, or the unknown
token if none has and there is one (`Fallback`). Character classes
are binary searches in constant tables, as in the code.

### ThreadPool

The members of the pool are variables; `at` is the place of each thread, 0 being the
caller. A critical section of `m_` is one step, and so is the test of a wait's predicate
with falling asleep, because `m_` is held from one to the other. `notify_all` on `cv_`
comes after the unlock and is a step of its own (`NotifyFork`, `NotifyStop`); the
notification of `done_cv_` is sent under the lock and is part of `Finish`. `run_part` is
two steps, the unlocked read of `count_` (`ReadPart`) and the loop (`RunBody`). Any wait
may also end spuriously. `hits` counts, for the properties, how often the body ran on
each index. A nested or concurrent `parallel_for` is forbidden by the header and not
modelled.

### Server

`conn` is the place of each connection in `handle()`: in line for a handler thread, at
the flags, at the three steps of `submit()`, at the check of `fatal_error()`, or relaying.
`channel` is `Stream::q`; `pending` is that of `Utf8Buffer`. `RelayToken`, `RelayBroken`
and `RelayEnd` are the calls of the content provider with a token that can be written, a
token that cannot, and the end; the releaser is part of the step that makes it run.
A byte is its width if it leads a character and 0 if it continues one, so that
`Complete` is the loop of `Utf8Buffer::push`. What `submit()` answered is judged after
`fatal_error()`, as in the code: `SubmitDepth` leads to `Overloaded`, which is a 503 if the
engine has died and a 429 otherwise. The engine is reduced to what handlers see
of it: it holds requests, delivers tokens, ends each request once, drains, or dies and
releases some of what it holds (`Engine` says which). The drainer thread of `cmd_serve`
is `StopAccepting`, `BeginDrain`, `StopServer`. Two libraries are modelled from their
use: of cpp-httplib the pool of `Handlers` threads, the line in front of it and that a
stopped server may cut a stream (`Cut`); of nlohmann::json that it refuses to write
text that ends inside a character. Answers are taken to be prefixes of valid UTF-8.

## 3. Runs

| Run | Instance | Shows |
|---|---|---|
| `kv_cache` | 3 blocks of 2 tokens, 2 sequences, 3 prompts, up to 4 tokens; symmetry over blocks and sequences | all cache properties under every client that keeps the contract |
| `continuous` | 3 blocks, 3 requests that share prefixes, batch 2, budget 2, chunks of 2, aborts | queues, slices, budget, order; a request's life, its end included, with preemption |
| `static_batching` | no prefix cache, fixed watermark 1, lookahead 2, starvation bound 2, deadlines | static batches, eviction of finished members, rejection; the same request's life |
| `engine` | 2 clients, depth limit 1, abort, drain, stop, throw, deadlines | threads, shutdown, watchdog |
| `thread_pool` | 4 threads; loops of 0, 1, 2, 4, 5 indices; a generation counter that wraps at 2 | every index once, workers inside their call, no lost wake-up, termination |
| `server` | 3 connections (a completion or its stream, the stream of a chat or an invalid request, a probe) on 2 handlers, depth limit 1, text of a letter and a 3-byte character in 2 tokens | streams, disconnects, shutdown, failure |
| `forward_pass` | 4 sequences in 5 blocks, 3 mixed steps, 2 layers, 4 query heads on 2, blocks of 4 threads or 2 warps of 2, vocabulary of 3 | attention, packing, sampling on both backends and kernels |
| `tokenizer` | all texts of up to 4 of 10 characters and up to 6 of 4; 3 added tokens; characters with a token, with byte tokens for all, some or none of their bytes | split, merges, added tokens, round trip |
| `cuda_resources` | 2 layers, tied or not, biases or not, 3 steps of 3 sizes, failures everywhere | buffers, release, profiler |
| `queue_timeout`, `static_abort_livelock`, `submit_races_drain` | see section 6 | a statement of the repository that the code does not keep |

**Properties of the cache.** `PoolPartition`: no block leaks or is in two places.
`RefCounts`: counts are numbers of tables. `IndexCoherent`: the two hash maps are inverse.
`NoOrphans`: reverse-order release and LRU eviction keep every cached block reachable by
the walk that stops at the first miss. (`HashChain` and `UnpublishedPrivate`, that a
table's hashes are the blocks' own and only published blocks are shared, are proved.)
`PublishedContent`, `OwnContent`: contents match hashes, and each sequence reads K/V of
its own tokens. `PublishedImmutable`: a published block is not changed, although a fully
cached prompt does write into it. `PromisedBlocksRemain`: the assertion in
`allocate_prompt` cannot fire.

**Properties of the scheduler.** `NoLostRequest`: a request is in the queue its status
names. `SlicesFresh`, `PlacedKeepSlots`: a step refers to nothing that was evicted while
it was built. `StepWithinBudget`. `SeniorityKept`, `StarvingHoldsQueue`: fairness of
service. `ImplementsRequestLife`: the refinement of `RequestLife`; it contains that tokens
are neither lost, repeated nor changed by preemption, that a request ends once and never
runs again, that nobody is aborted unasked, and that every request ends.

**Properties of the engine.** `QueuedExact`: the counter behind load shedding and the
watchdog. `EndReleasesScheduler`: the exit path leaves no request and no block behind.
`InboxServed`: drain finishes what was handed over. `IdleIsHealthy`: the watchdog never
reports an engine without work, and reports one that has ended. `ShutdownReturns`.

**Properties of a step.** `AttentionExact`: in every order of the threads each element of
the output is the reference's, every position once, from the right block, weighted by its
score. `LogitsReachTheirSequence`: each sequence that asked gets one token, drawn from the
row computed from its own tokens. `SampleExact`: the partial sort gives the token of the
full sort for the same draw. `StepEnds`: no thread is left behind at a barrier.

**Properties of the device's memory.** `StepBuffersLive`: kernels run on live buffers that
are large enough and not shared. `ReleasedOnce`: everything is released, once, also after
an exception (but see section 6). `SpansOfThisStep`: the profiler reads events of this
step.

**Properties of the tokenizer.** `SplitExact`: the split by hand is that of the regular
expression in the comment, which `MatchEnds` defines. `MergeExact`: merging all
occurrences of the best pair at once is byte pair encoding. `SpecialsExact`: added tokens
are taken from the left, the longest first. `RoundTrip`: decoding gives the text back, in
the metaspace family if the text holds no added token and every character has a token or
all of its bytes have (`Covered`).

**Properties of the pool.** `EachIndexOnce`: the parts cover the loop without overlap.
`WorkersInsideCall`: no worker runs, or is about to report, outside the call that woke
it, so its unlocked reads are of that call. `NoLostWakeup`: nobody sleeps through what
it waits for. `PoolReturns`.

**Properties of the server.** `StreamIntegrity`: chunks are whole characters, and between
client, buffer and channel no byte is lost or repeated. `NoOrphanWork`: a request whose
handler has left is finished or asked to abort. `AnsweredWhileUp`: no connection waits
for ever unless the engine has ended, neither for a token nor in line for a handler that
two completions hold.

**Bounds.** Three blocks are the fewest with which one sequence can grow over a block
boundary while another holds a shared block and a third is cached and evictable. Block
size 2 separates the first and the last slot. The requests of `continuous` fit into the
pool one by one and never in pairs, so that preemption, recomputation and readmission all
happen; a batch of 2 with 3 requests keeps somebody waiting. In `engine` two requests,
which do not fit together, suffice for one to be running and one queued, in the inbox, or
on its way there. `MaxTokens` bounds the length of a sequence, as the model's context
window does. `terminals` is not bounded: a second callback would be seen. Four threads
give a loop of 5 indices two full parts, a partial and an empty one; loops of 2 leave two
parts empty. A counter that wraps at 2 is the hardest case: a worker that missed two calls
would find the counter unchanged; that none misses any is part of what is checked. In
`server` three connections on two handlers make one wait until a handler is given back:
a completion that never ended, or a broken stream that kept its thread, would leave it in
line. Handlers meet otherwise only in the depth of the queue and the engine's flags, for
which two are enough, and the kinds of request are spread over the connections. In `forward_pass` a history of 5 positions in 3 blocks gives 4
threads one or two positions each, shorter ones leave threads without any; the steps mix
decodes, chunks with and without logits, a prefill from nothing and a fully cached prompt,
over shared blocks. A first window of 1 in a vocabulary of 3 widens twice. In `tokenizer`
the characters are one or two of every class the rules tell apart, of one, two and four
bytes; four of them suffice for each rule with what precedes and follows it. In
`cuda_resources` three steps let a buffer grow, be reused and grow again; two failing
events let a span lose either end.

**Fairness.** `WF` of the engine thread as a whole (it is one thread and the operating
system schedules it; which of its actions is next is decided by its program counter) and,
in `Engine`, of the rest of a call a client or the owner has begun. In `ThreadPool`, of
each thread inside a call; in `Server`, of handler threads, of the drainer once it has
been signalled, and of the end of each request the engine holds, which is what
`ImplementsRequestLife` and `ShutdownReturns` show of the engine. In `ForwardPass`, of the
engine thread and the device together. Nothing is assumed about clients, sampling or the
clock: a model that always samples a stop token late, or a client that never aborts, is
covered. Runs do not check deadlock where the system may come to rest: all requests
answered, or the engine ended.

## 4. Proofs

**The cache** (`KVSpec`), for every finite pool, block size, set of
sequences, vocabulary and set of prompts (`KVAssumption`), with or without prefix caching:

* `KVCacheProofs`: `TypeCorrect`. The invariant `TypeInv` adds that no K/V is claimed
  beyond tokens or table (`TableBounds`) and what the loops rely on between iterations
  (`CallContract`): hits found by the walk are still indexed when they are referenced.
* On sharing: `BlocksAccountedFor`, `CountsAreOwners`, `IndexNamesItsBlocks`,
  `TablesKnowTheirHashes`, `UnpublishedNotShared`. One invariant, `SharingInv`, proves
  all five, because each needs others: a block is published only while nobody else has
  it, since hits are on published blocks only, since a block loses its hash only with
  its last reference, when no table names it. Two auxiliary conjuncts are needed:
  blocks beyond `num_committed` are unhashed (`CommittedOnly`), and a prompt's hits
  precede its fresh blocks (`HitsFirst`), so that no table gets a block twice.
* `CacheHoldsWhatItSays`, `SequencesReadTheirOwn`,
  `PublishedNotOverwritten`. `ContentInv` adds both content properties: publication
  turns own content into published content, a hit turns published content into own
  content, and a write into a shared block stores what is there already, since owners of
  a shared block have the same tokens up to its end (`SharedSameTokens`).
* On eviction: `NothingOrphaned`, `PromiseKept`,
  `AllocationNeverStuck`. For the first, `ReachInv` adds the order of the LRU list (`EvictionOrder`): of two cached blocks
  the continuation is evicted first, because tables are released from the end; and a block
  that a table holds has its predecessors in the same table. For the other two,
  `CapacityInv`: a hit that leaves the LRU list lowers the supply and the hits still to
  come alike, so the difference promised by the capacity check only falls with the blocks
  still to be taken.

**The scheduler** (`Spec`; for every batch size, budget, chunk, lookahead, starvation bound,
watermark, deadline or none, batching policy, set of requests and aborts:
`SchedulerAssumption`, `KVAssumption`).

* `SchedulerProofs`: `SchedulerDrivesCache`, by which every theorem about the cache holds
  of the cache under the scheduler, `SchedulerTypeCorrect`, `RequestsNeverLost`,
  `SlicesStayFresh`, `PlacedAreNotEvicted`. All rest on `SchedInv`, and each of its parts
  is there because an action of another part of the loop needs it. `Queues` says which
  list holds a request of which status; `Holders`, that only residents and the sequence
  being released own blocks; `CallPlace` and `StepShape`, what the manager may be doing
  and what the lists hold at each place of the step. `Candidates` has the order argument
  behind `PlacedKeepSlots`: victims come from the end of `running_`, candidates are placed
  in its order, so a victim was not placed before (`DecodeOrder`). `Residents` (less is
  computed than there are tokens, what is computed is written, slots are there for all but
  one token) makes the writes and commits of a step legal calls of the manager;
  `StepSlices`, `Computed` and `SampleHead` carry this from the slice being built to the
  token being sampled.
* `SchedulerProofs`, on the service: `StepsFit`, from the account of the budget at each place
  (`BudgetInv`); `StarvingNotOvertaken`; `NobodyOvertaken`, for `Lookahead <= 1`, since a
  larger lookahead is there to overtake; `ClientSeesALife`, that the scheduler implements
  `LifeSafety`, with continuous batching or without aborts (section 6 says what an abort
  does to a finished member of a static batch). `Reasons` ties finish reasons to statuses
  and lengths. `HeadAdmitted` is needed to show that nobody is rejected without a
  watermark: with nothing running the pool is whole (`WholePool`), every request fits into
  a whole pool, so the head of the queue was admitted.

**The engine** (`EngineSpec`; additionally for every depth limit, whatever the owner calls
and whether or not the backend throws).

* `EngineProofs`: `EngineDrivesCache`, so that the theorems about the cache also hold of
  the whole program; `EndReleases`; `QueueCountExact`; `IdleHealthy`. `EngineInv` is the
  scheduler's invariant, where the thread is in its loop (`LoopPlace`), and that a request
  in the inbox is new to the scheduler (`Handover`). The one place at which `SchedInv` does
  not hold is the flush on the way out, which aborts the members of a step it has just
  scheduled, so that slices go stale one by one; `FlushInv` is what is left of it there.
  `Ends(T)` says of every step which requests it ends, `queued_` falls by their number.
  Two hypotheses come from the code: `EndReleases` is for `Watermark <= 0` and the other
  two are for continuous batching; section 6 has what happens otherwise.

**The step** (`PassSpec`), for every set of sequences with their block tables, every packing
of slices, number of layers, backend, vocabulary, weights and window (`ForwardPassAssumption`,
`SamplerAssumption`, `AttentionAssumption`). What the first of these assumes of slices and
tables is what `SlicesStayFresh` and `SequencesReadTheirOwn` prove of the scheduler and the
cache, except that tokens have blocks, which is `Residents`; the rest is what the launchers
refuse, and that no score is as low as `-FLT_MAX`.

* `ForwardPassProofs`, on sampling: `FullSortIsSorted`, `SampleIsExact`. A window that is
  sorted and has nothing larger behind it starts as the full sort does (`SortedPrefix`: the
  order of tokens is strict and total, so a token's place is the number of those ahead of
  it), so sums over a prefix of the window are sums over the full sort (`CumulatedSame`), and
  a nucleus that closes inside the window is the nucleus (`KeptSame`).
* On packing: `LogitsAreTheSequences`, from `PassInv`. The entries of slice `k` follow those of
  the slices before it and `RowOf(k)` is the last of them (`PackedRight`); the joined tables
  hold each sequence's table behind its offset (`TablesRight`); so a row is stored into, and
  attention reads, the slots of the row's own sequence, and the two backends agree
  (`IndexInv`). `CacheInv` is the heart: whatever order `store_kv` takes, a slot holds the
  K/V of a position once a row of the step or an earlier step has put it there, at every
  depth; rows that share a slot are the same position of the same prefix and store the same.
  With it `HistoryRight` says that every row attends to exactly the positions up to its own, so
  a finished layer is again a function of the tokens (`LayerInv`). `DrawnInv` and
  `AppliedInv` count rows of logits and slices that asked along both loops.
* On the attention kernels: `AttentionIsExact`, for every power of two of threads and of
  lanes, every number of warps and heads, and every position. `Sums(part, w, v, P)` says that a
  running sum lists the positions of the set `P` once each, relative to their largest weight;
  sums over disjoint sets are merged into the sum over both (`SumsMerged`), an empty part and
  its guard included. `BlockInv` says over which set each part sums: a thread's private sum is
  over the positions it has walked over, its part in shared memory over its residue class
  modulo the number of threads that hold a part (`PartInv`), which the next merge halves
  (`RestHalf`), down to one. What a thread reads was written by another: `BarrierInv`, nobody is
  beyond a barrier at which somebody has not arrived, gives it that the query is loaded
  (`LoadInv`) and that the partner has finished its merge and not begun the next. The lanes'
  butterfly takes every dimension once by the same halving (`WarpListsDims`). That what is
  read is the sequence's own history is `HistoryRight`.

**The HTTP server** (`ServerSpec`), for every set of connections, number of handlers and
depth limit, whatever each client may ask for (`ServerAssumption`), and whatever the tokens
stand for as long as the text so far is the beginning of valid UTF-8 (the guard of
`EmitToken`). Tokens of invalid UTF-8 are not covered.

* `ServerProofs`: `StreamsWhole`, `NoWorkOrphaned`. `ConnInv` describes a connection from
  both ends of its channel: before the hand-over there is nothing (`Fresh`); from then on
  what the engine produced is with the client, in the handler's buffer or in the channel,
  in this order (`Relayed`); the end is the last message, and the engine has let go when it
  is sent (`LastMessage`); a complete answer is complete (`Finished`). `NoOrphanWork` needs
  all of it: a handler that leaves without an abort has seen the end, was refused before
  the hand-over, or the engine has ended (`EngineEnded`). `Complete` and `Joined` are
  recursive functions. What they compute is proved by least counterexample over a *set* of
  numbers (`LeastNat`, `AllNat`), which the provers can instantiate; an induction theorem
  about an operator they cannot.

**The worker pool**, for every number of threads, loop length and counter modulus above 1
(`PoolAssumption`).

* `ThreadPoolProofs`: `ParallelForOnce`, `WorkersStayInside`, `WakeupsArrive`. In
  `PoolInv` a worker is *pending* while it has not seen the generation or is inside its
  part, and `remaining` is the number of pending workers: when it is 0 nobody is left
  behind, and the next generation is new to everybody even if the counter wraps at 2.
  A thread has *run* if it is past its part, and `hits[i]` is 1 exactly if the thread
  whose part holds `i` has run; `PartsDisjoint` and `PartsCover` say there is exactly one.

**The device's memory** (`ResSpec`), for every number of layers, all sizes of the model and
its steps, and whatever fails (`ResourcesAssumption`).

* `CudaProofs`: `BuffersStayLive`, `AllReleasedOnce`, `FlushReadsThisStep`. In `HeapInv`
  members and heap agree until the destructor runs (`Owned`): every live allocation is some
  member's, and every pointer is live except that of a buffer that lost its memory; two
  members share memory only if they are a tied head and the embedding (`Apart`); the
  capacity of a buffer is the room it has (`Room`). So the old memory of a buffer that
  grows is nobody else's. While the destructor runs, what is live belongs to a member
  still to be released, each is in the list once, and the head precedes the embedding it may
  be (`Destroying`); the lists are what they are for every number of layers by
  `LayerSeqIs`, `ConstructList` and `DestroyList`. In `ProfInv` event `e` has the time
  stamp `e + 1`, a span lies between events of this step or ends at one that could not be
  made (`Marked`), and spans and regions still to run are together the regions of the step
  (`Counted`).

**The tokenizer** (`TokSpec`), for every text, either family, every vocabulary, list of
merges, set of byte tokens and unknown token. `TokenizerAssumption` is about the tables: the ranges of each are sorted and
disjoint, no letter is a number or a space, line feed, carriage return and blank are
spaces (all so in `unicode_tables.inc`), and an added token is a nonempty string of bytes.

* `TokenizerProofs`: `SplitExact`, `SpecialsExact`. In `TokInv` the added tokens in `out`,
  followed by those still to come (`Pending`), are those of the text (`ScanInv`), and what
  a word is encoded to holds none (`Plain`, `TokensInv`). While a chunk is split, the
  pieces so far, followed by the expression's pieces of the rest of the chunk, are the
  expression's pieces of the chunk (`SplitInv`). One lemma per rule shows that the rule
  takes what its alternative of the expression takes: the binary search finds a character
  in a sorted table, the greedy loops and the last blank given back end where the longest
  match ends. The first rule that takes anything is then the first alternative that
  matches, and `FindSpecial` keeps the longest of the first added tokens. The recursive
  functions are handled as in the server's proofs, by the least argument at which they
  would differ.

The invariants were checked with TLC on the instances of section 3 before they were proved.

Only model-checked: liveness (that of `ImplementsRequestLife`, `InboxServed`,
`ShutdownReturns`, `PoolReturns`, `AnsweredWhileUp`, `StepEnds`), which TLAPS does not
handle with fairness; `MergeExact` and `RoundTrip` of `Tokenizer`. Both
depend on how a vocabulary was trained (every merge joins strings that earlier merges or
single bytes made, which characters and bytes have a token, an added token is valid UTF-8), and need
induction over the merges of a word and over the bytes of a text for whole sequences of
strings.

## 5. Not modelled

* The values of matrix products, norms, rotation and activations, and rounding everywhere:
  floating point. The kernels for them have no control beyond an index check.
* The random generator: every draw is possible.
* The syntax of HTTP and JSON, option parsing, the `generate` command.
* In the tokenizer: reading the JSON files, the chat template, BOS and end-of-sequence ids.
* Weights and configuration: parsing of files at start-up, without state. Of their checks
  the divisibility of the heads is an assumption of `Attention`.
* Metrics, the profilers' reports, golden dump, benchmarks, deployment: written and
  printed, read by no decision. `kv_waste_fraction` and the statistics are of this kind.
* Hash collisions of the prefix cache are excluded by assumption.

## 6. Disagreements between the code and what the repository says of it

* `queue_timeout`: the queue deadline abandons a preempted request, although
  "a request that has waited this long without being admitted is abandoned".
* `static_abort_livelock`: aborting the last unfinished member of a closed static batch
  leaves a batch that is never drained, and the queue waits for ever.
* `submit_races_drain`: a submission that passed the flag test before a drain is
  accepted and never answered.

Seen on the way, without a run of their own:

* With static batching, aborting a member that has finished and waits for its batch fires
  its terminal callback again, with the reason abort (`scheduler.cpp:20`), and `queued_`
  is decremented again with it; so does the release of the batch on exit. This is why
  `QueueCountExact` assumes continuous batching.
* A request that is in the inbox when the backend throws is never answered: the catch
  block releases what the scheduler holds (`engine.cpp:236`). `AcceptedReleased` fails
  there as well.
* On exit with a fixed watermark, a request that is rejected leaves an empty step, at which
  the release of the queue stops (`engine.cpp:323`): with a watermark of 2 and three
  requests, one is left in the queue unanswered when the thread ends, against "Abort
  whatever is left so waiting clients are released" (`engine.cpp:321`). This is why
  `EndReleases` assumes none.
* A completion holds a handler thread until it ends; there are 64 of them to a default
  `max_queue_depth` of 256, so connections line up in the HTTP library before the server
  answers 429 (`server.cpp:82`).
* A streamed completion that stops inside a character puts the partial character into its
  last chunk, which the JSON library refuses to write, and the last chunk of a chat drops
  it (`server.cpp:211`).
* `Scratch::get` releases the old memory before it allocates; if that throws, the pointer
  stays and the destructor releases it again (`cuda_model.cu:228`). `ReleasedOnce` leaves
  out just this buffer. A constructor that throws leaks what it has allocated, since its
  destructor does not run.
* The self-check of the pool compares a difference with itself (`kv_cache.h:53`,
  `engine.cpp:203`) and cannot fail; `PoolPartition` is what it means to say.

## 7. Plan

Done: cache, scheduler and its refinement of `RequestLife`, engine threads and watchdog,
worker pool, HTTP handlers, the step with its attention kernels and sampler, the device's
memory, the tokenizer; the theorems of the cache, the scheduler, the engine, the step, the
worker pool, the HTTP handlers, the device's memory and the tokenizer's split and added
tokens.

Next, in this order:

1. The release of the queue on exit with a fixed watermark, as an instance of `Engine`.
2. The conditions on a trained vocabulary under which `MergeExact` and `RoundTrip` hold, as
   an assumption of `Tokenizer`, and their proofs.
