------------------------------ MODULE Scheduler ------------------------------
(***************************************************************************)
(* The batching scheduler (scheduler/scheduler.cpp) on top of the KV cache *)
(* manager, driven by the engine's step loop: schedule() builds a step,    *)
(* the model's forward pass writes the K/V of its slices, on_step_done()   *)
(* applies the sampled tokens.  Requests are added and aborted between two *)
(* steps, when the loop empties its inbox.                                 *)
(*                                                                         *)
(* All of it runs on the engine thread.  pc is the place in the loop; an   *)
(* action is one iteration of a loop of the code and makes at most one     *)
(* call into the manager, whose own iterations (CallStep) then run to the  *)
(* end before the next action of the scheduler.                            *)
(*                                                                         *)
(* Sampling is a choice of any token; the clock is a choice of the waiting *)
(* requests whose deadline has passed.                                     *)
(***************************************************************************)
EXTENDS KVCache

CONSTANTS
    Continuous,         \* cfg_.continuous; FALSE is static batching
    MaxNumSeqs,         \* cfg_.max_num_seqs
    MaxBatchedTokens,   \* cfg_.max_num_batched_tokens
    ChunkSize,          \* cfg_.prefill_chunk_size
    Lookahead,          \* cfg_.admission_lookahead
    StarvationSteps,    \* cfg_.starvation_wait_steps
    Deadline,           \* cfg_.max_queue_wait_seconds > 0
    Watermark,          \* cfg_.watermark_blocks; -1 is one block per resident
    Requests,           \* the [prompt, max_tokens] records each sequence may be for
    StopIds,            \* params.stop_ids, {} with ignore_eos
    Aborts              \* sequences whose client may abort

\* Engine::validate, before a request reaches the scheduler: its prompt and all it may
\* generate fit into the pool and into the model's context.
validate(r) ==
    /\ Len(r.prompt) > 0 /\ r.max_tokens > 0
    /\ Len(r.prompt) + r.max_tokens <= Cardinality(Blocks) * BlockSize
    /\ Len(r.prompt) + r.max_tokens <= MaxTokens

ASSUME SchedulerAssumption ==
    /\ Continuous \in BOOLEAN /\ Deadline \in BOOLEAN
    /\ {MaxNumSeqs, MaxBatchedTokens, ChunkSize} \subseteq Nat \ {0}
    /\ {Lookahead, StarvationSteps} \subseteq Nat
    /\ Watermark \in Nat \union {-1}
    /\ StopIds \subseteq Token /\ Aborts \subseteq Seqs
    /\ \A s \in Seqs : \A r \in Requests[s] :
          r.prompt \in Prompts /\ r.max_tokens \in Nat /\ validate(r)

VARIABLES
    waiting,          \* waiting_
    running,          \* running_
    batch_open,       \* static_batch_open_
    status,           \* Sequence::status; "new" before add()
    finish,           \* Sequence::finish
    num_computed,     \* Sequence::num_computed
    limit,            \* prompt_len + params.max_tokens
    wait_steps,       \* Sequence::wait_steps, up to StarvationSteps
    first_scheduled,  \* sequences whose t_first_scheduled is set
    terminals,        \* calls of on_token with a finish reason
    pc,               \* place in the step loop
    budget,           \* local of schedule(): tokens left for this step
    mid_prefill,      \* local of schedule()
    decode,           \* local of schedule()
    cursor,           \* loop index
    slices,           \* StepInput::slices not yet applied
    done              \* local of on_step_done()

requestVars == <<status, finish, num_computed, limit, wait_steps, first_scheduled, terminals>>
queueVars == <<waiting, running, batch_open>>
stepVars == <<pc, budget, mid_prefill, decode, cursor, slices, done>>
schedVars == <<queueVars, requestVars, stepVars>>
vars == <<kvVars, schedVars>>

-----------------------------------------------------------------------------
Smaller(a, b) == IF a < b THEN a ELSE b

Members(q) == {q[k] : k \in 1..Len(q)}

\* q without the sequence s, which it holds once at most.
Without(q, s) == IF s \in Members(q) THEN DropAt(q, CHOOSE k \in 1..Len(q) : q[k] = s) ELSE q

\* The elements of q that are in S, in their order: the i-th is the one with i of
\* them up to it.
Only(q, S) ==
    LET at == {k \in 1..Len(q) : q[k] \in S}
    IN  [i \in 1..Cardinality(at) |->
            q[CHOOSE k \in at : Cardinality({j \in at : j <= k}) = i]]

num_tokens(s) == Len(tokens[s])
is_finished(s) == status[s] = "finished"
prefill_done(s) == num_tokens(s) - num_computed[s] <= 1
has_work == waiting # <<>> \/ running # <<>>

\* The bookkeeping of retire() for the sequences of S; their blocks are released
\* by a call of free_table where they hold any.
retire(S, reason) ==
    /\ status' = [s \in Seqs |-> IF s \in S THEN "finished" ELSE status[s]]
    /\ finish' = [s \in Seqs |-> IF s \in S THEN reason ELSE finish[s]]
    /\ terminals' = [s \in Seqs |-> IF s \in S THEN terminals[s] + 1 ELSE terminals[s]]

-----------------------------------------------------------------------------
(* Between two steps.                                                      *)

EngineIdle == pc = "idle" /\ call = Idle

add(s, r) ==
    /\ EngineIdle
    /\ status[s] = "new"
    /\ SetPrompt(s, r.prompt)
    /\ status' = [status EXCEPT ![s] = "waiting"]
    /\ limit' = [limit EXCEPT ![s] = Len(r.prompt) + r.max_tokens]
    /\ waiting' = Append(waiting, s)
    /\ UNCHANGED <<running, batch_open, finish, num_computed, wait_steps,
                   first_scheduled, terminals, stepVars>>

\* abort(id) of a queued sequence, whose block table is empty.
AbortWaiting(s) ==
    /\ s \in Members(waiting)
    /\ waiting' = Without(waiting, s)
    /\ retire({s}, "abort")
    /\ UNCHANGED <<kvVars, running, batch_open, num_computed, limit, wait_steps, first_scheduled>>

\* abort(id) of a resident sequence.
AbortRunning(s) ==
    /\ s \in Members(running)
    /\ running' = Without(running, s)
    /\ retire({s}, "abort")
    /\ free_table(s)
    /\ UNCHANGED <<waiting, batch_open, num_computed, limit, wait_steps, first_scheduled>>

-----------------------------------------------------------------------------
(* schedule().                                                             *)

\* Open the batch if it is empty, and split the resident sequences.
BeginSchedule ==
    /\ EngineIdle
    /\ has_work
    /\ batch_open' = (batch_open \/ (~Continuous /\ running = <<>>))
    /\ mid_prefill' = Only(running, {s \in Seqs : ~is_finished(s) /\ ~prefill_done(s)})
    /\ decode' = Only(running, {s \in Seqs : ~is_finished(s) /\ prefill_done(s)})
    /\ budget' = MaxBatchedTokens
    /\ cursor' = 1
    /\ pc' = "place"
    /\ UNCHANGED <<kvVars, waiting, running, requestVars, slices, done>>

Placing == pc = "place" /\ call = Idle /\ cursor <= Len(decode)

\* The next decoding sequence has, or gets, a slot for its last token.
Place ==
    /\ Placing
    /\ \/ EnsureSlotHolds(decode[cursor]) /\ UNCHANGED kvVars
       \/ ensure_slot(decode[cursor])
    /\ cursor' = cursor + 1
    /\ UNCHANGED <<queueVars, requestVars, pc, budget, mid_prefill, decode, slices, done>>

\* Mutant: a victim in the middle of its prefill stays a candidate.
Evict_keeps_prefill(i) ==
    /\ running' = DropAt(running, i)
    /\ free_table(running[i])
    /\ decode' = Without(decode, running[i])
    /\ UNCHANGED mid_prefill

\* The i-th resident sequence leaves the batch and both candidate lists.
Evict(i) ==
    /\ running' = DropAt(running, i)
    /\ free_table(running[i])
    /\ mid_prefill' = Without(mid_prefill, running[i])
    /\ decode' = Without(decode, running[i])

FinishedAt == {i \in 1..Len(running) : is_finished(running[i])}

\* Mutant: the member is retired a second time.
EvictFinished_retires ==
    /\ Placing
    /\ EnsureSlotFails(decode[cursor])
    /\ \E i \in FinishedAt : Evict(i) /\ retire({running[i]}, finish[running[i]])
    /\ UNCHANGED <<waiting, batch_open, num_computed, limit, wait_steps, first_scheduled,
                   pc, budget, cursor, slices, done>>

\* evict_for_memory, first loop: the youngest finished member of a static batch
\* gives up its blocks.
EvictFinished ==
    /\ Placing
    /\ EnsureSlotFails(decode[cursor])
    /\ \E i \in FinishedAt : (\A j \in FinishedAt : j <= i) /\ Evict(i)
    /\ UNCHANGED <<waiting, batch_open, requestVars, pc, budget, cursor, slices, done>>

\* Mutant: the oldest resident sequence is the victim.
Victim_oldest == 1

Victim == Len(running)

\* Mutant: the victim is forgotten.
Requeued_lost(s) == waiting

\* Mutant: the victim loses its turn.
Requeued_back(s) == Append(waiting, s)

\* waiting_.push_front(s)
Requeued(s) == <<s>> \o waiting

\* evict_for_memory, second loop: the youngest resident sequence is preempted,
\* to be recomputed when it is admitted again.
Preempt ==
    /\ Placing
    /\ EnsureSlotFails(decode[cursor])
    /\ FinishedAt = {}
    /\ running # <<>>
    /\ Evict(Victim)
    /\ num_computed' = [num_computed EXCEPT ![running[Victim]] = 0]
    /\ status' = [status EXCEPT ![running[Victim]] = "waiting"]
    /\ waiting' = Requeued(running[Victim])
    /\ UNCHANGED <<batch_open, finish, limit, wait_steps, first_scheduled, terminals,
                   pc, budget, cursor, slices, done>>

PlaceDone ==
    /\ pc = "place" /\ call = Idle
    /\ cursor > Len(decode)
    /\ pc' = "chunk"
    /\ UNCHANGED <<kvVars, queueVars, requestVars, budget, mid_prefill, decode, cursor, slices, done>>

\* A slice of s that starts at position `start', as add_prefill_slice makes it.
Slice(s, start, len) ==
    [seq |-> s, start |-> start, len |-> len, needs_logits |-> start + len = num_tokens(s)]

\* Build the slice of the next sequence in the middle of its prefill.
ChunkPrefill ==
    /\ pc = "chunk"
    /\ mid_prefill # <<>>
    /\ LET s == Head(mid_prefill)
           len == Smaller(Smaller(num_tokens(s) - num_computed[s], budget), ChunkSize)
       IN  /\ slices' = IF len > 0 THEN Append(slices, Slice(s, num_computed[s], len)) ELSE slices
           /\ budget' = budget - len
    /\ mid_prefill' = Tail(mid_prefill)
    /\ UNCHANGED <<kvVars, queueVars, requestVars, pc, decode, cursor, done>>

\* Mutant: one sequence more decodes than the budget has tokens for.
DecodeRoom_off_by_one == Smaller(Len(decode), budget + 1)

DecodeRoom == Smaller(Len(decode), budget)

\* Decode takes what budget the prefill chunks left.
TruncateDecode ==
    /\ pc = "chunk"
    /\ mid_prefill = <<>>
    /\ decode' = SubSeq(decode, 1, DecodeRoom)
    /\ budget' = budget - Len(decode')
    /\ pc' = "expire"
    /\ UNCHANGED <<kvVars, queueVars, requestVars, mid_prefill, cursor, slices, done>>

may_admit == Continuous \/ batch_open

\* Abandon the queued requests `late', whose deadline has passed; what is left
\* has waited one more round if the batch is open.
ExpireQueue(late) ==
    /\ pc = "expire"
    /\ late \subseteq {s \in Members(waiting) : blocks[s] = <<>>}
    /\ late # {} => Deadline
    /\ waiting' = Only(waiting, Seqs \ late)
    /\ retire(late, "timeout")
    /\ wait_steps' = [s \in Seqs |->
           IF may_admit /\ s \in Members(waiting')
               THEN Smaller(wait_steps[s] + 1, StarvationSteps)
               ELSE wait_steps[s]]
    /\ cursor' = 1
    /\ pc' = IF may_admit THEN "admit" ELSE "build"
    /\ UNCHANGED <<kvVars, running, batch_open, num_computed, limit, first_scheduled,
                   budget, mid_prefill, decode, slices, done>>

watermark == IF Watermark >= 0 THEN Watermark ELSE Len(running)

\* The check counts every reused block as free of charge, including the ones that
\* num_available_blocks counts too because nobody references them.
admission_fits(s) ==
    \/ watermark = 0
    \/ \E n \in 0..MaxTokens :
          /\ CachedPrefix(tokens[s], n)
          /\ num_available_blocks - (blocks_needed(num_tokens(s)) - n) >= watermark

Admissible(s) ==
    /\ admission_fits(s)
    /\ \E n \in 0..MaxTokens : CachedPrefix(tokens[s], n) /\ PromptFits(tokens[s], n)

\* Mutant: the bound is never reached.
starving_late(s) == wait_steps[s] > StarvationSteps

starving(s) == wait_steps[s] >= StarvationSteps

BatchFull == Len(running) >= MaxNumSeqs

\* admit_one has something to try.
Admitting ==
    /\ pc = "admit" /\ call = Idle
    /\ budget > 0
    /\ ~BatchFull
    /\ cursor <= IF Lookahead <= 1 THEN Smaller(1, Len(waiting))
                                   ELSE Smaller(Len(waiting), Lookahead)

\* At least one token is left to compute, whose logits give the next token.
CachedTokens(s, n) == Smaller(n * BlockSize, num_tokens(s) - 1)

\* admit_one admits the sequence at the cursor, sharing n cached blocks.
Admit ==
    /\ Admitting
    /\ LET s == waiting[cursor]
       IN  /\ admission_fits(s)
           /\ \E n \in 0..MaxTokens :
                /\ allocate_prompt(s, n)
                /\ LET start == CachedTokens(s, n)
                       len == Smaller(Smaller(num_tokens(s) - start, budget), ChunkSize)
                   IN  /\ num_computed' = [num_computed EXCEPT ![s] = start]
                       /\ slices' = Append(slices, Slice(s, start, len))
                       /\ budget' = budget - len
           /\ waiting' = DropAt(waiting, cursor)
           /\ running' = Append(running, s)
           /\ status' = [status EXCEPT ![s] = "running"]
           /\ first_scheduled' = first_scheduled \union {s}
    /\ cursor' = 1
    /\ UNCHANGED <<batch_open, finish, limit, wait_steps, terminals, pc, mid_prefill, decode, done>>

\* The sequence at the cursor does not fit.  The next one may be tried, unless
\* this one has waited so long that it must not be overtaken.
SkipWaiting ==
    /\ Admitting
    /\ ~Admissible(waiting[cursor])
    /\ cursor' = cursor + 1
    /\ pc' = IF starving(waiting[cursor]) THEN "build" ELSE "admit"
    /\ UNCHANGED <<kvVars, queueVars, requestVars, budget, mid_prefill, decode, slices, done>>

AdmitDone ==
    /\ pc = "admit" /\ call = Idle
    /\ ~Admitting
    /\ pc' = "build"
    /\ UNCHANGED <<kvVars, queueVars, requestVars, budget, mid_prefill, decode, cursor, slices, done>>

\* A static batch that could not take the next request is closed if it is full or
\* short of memory.
BatchCloses ==
    /\ may_admit /\ ~Continuous
    /\ waiting # <<>>
    /\ BatchFull \/ (budget > 0 /\ running # <<>>)

\* Nothing is running and the head of the queue still was not admitted.
HeadRejected == may_admit /\ waiting # <<>> /\ running = <<>> /\ decode = <<>>

\* The end of schedule(): close the batch, reject a hopeless head, add the decode
\* slices.  An empty step sends the loop back to its inbox.
FinishSchedule ==
    /\ pc = "build"
    /\ batch_open' = (batch_open /\ ~BatchCloses)
    /\ \/ /\ HeadRejected
          /\ retire({Head(waiting)}, "abort")
          /\ waiting' = Tail(waiting)
       \/ /\ ~HeadRejected
          /\ UNCHANGED <<status, finish, terminals, waiting>>
    /\ slices' = slices \o [k \in 1..Len(decode) |->
                    [seq |-> decode[k], start |-> num_computed[decode[k]], len |-> 1,
                     needs_logits |-> TRUE]]
    /\ pc' = IF slices' = <<>> THEN "idle" ELSE "forward"
    /\ decode' = <<>> /\ cursor' = 1 /\ budget' = 0
    /\ UNCHANGED <<kvVars, running, num_computed, limit, wait_steps, first_scheduled,
                   mid_prefill, done>>

-----------------------------------------------------------------------------
(* forward() and on_step_done().                                           *)

\* The model writes the K/V of the next slice's tokens.
Forward ==
    /\ pc = "forward"
    /\ LET sl == slices[cursor]
       IN  Write(sl.seq, sl.start, sl.start + sl.len)
    /\ cursor' = IF cursor = Len(slices) THEN 1 ELSE cursor + 1
    /\ pc' = IF cursor = Len(slices) THEN "apply" ELSE "forward"
    /\ UNCHANGED <<queueVars, requestVars, budget, mid_prefill, decode, slices, done>>

\* on_step_done's loop: the first slice left is computed, and its complete blocks
\* are published.
Apply ==
    /\ pc = "apply"
    /\ LET sl == Head(slices)
       IN  /\ num_computed' = [num_computed EXCEPT ![sl.seq] = @ + sl.len]
           /\ IF PrefixCaching THEN commit_computed(sl.seq, num_computed'[sl.seq])
                               ELSE UNCHANGED kvVars
    /\ pc' = "sample"
    /\ UNCHANGED <<queueVars, status, finish, limit, wait_steps, first_scheduled, terminals,
                   budget, mid_prefill, decode, cursor, slices, done>>

NextSlice ==
    /\ slices' = Tail(slices)
    /\ pc' = IF Len(slices) = 1 THEN "retire" ELSE "apply"

SkipSample ==
    /\ pc = "sample" /\ call = Idle
    /\ ~Head(slices).needs_logits
    /\ NextSlice
    /\ UNCHANGED <<kvVars, queueVars, requestVars, budget, mid_prefill, decode, cursor, done>>

\* Mutant: one token more than asked for.
FinishReason_late(s, tok, n) ==
    IF tok \in StopIds THEN "stop" ELSE IF n > limit[s] THEN "length" ELSE "none"

\* The reason to stop after the token tok, the n-th of the sequence.
FinishReason(s, tok, n) ==
    IF tok \in StopIds THEN "stop" ELSE IF n >= limit[s] THEN "length" ELSE "none"

\* The sampled token is appended.  A sequence that finishes leaves the batch, or,
\* with static batching, keeps its place and its blocks until the batch drains.
Sample(tok) ==
    /\ pc = "sample" /\ call = Idle
    /\ Head(slices).needs_logits
    /\ LET s == Head(slices).seq
           r == FinishReason(s, tok, num_tokens(s) + 1)
       IN  /\ AppendToken(s, tok)
           /\ \/ /\ r = "none"
                 /\ UNCHANGED <<running, status, finish, terminals, done>>
              \/ /\ r # "none" /\ Continuous
                 /\ finish' = [finish EXCEPT ![s] = r]
                 /\ done' = Append(done, s)
                 /\ running' = Without(running, s)
                 /\ UNCHANGED <<status, terminals>>
              \/ /\ r # "none" /\ ~Continuous
                 /\ retire({s}, r)
                 /\ UNCHANGED <<running, done>>
    /\ NextSlice
    /\ UNCHANGED <<waiting, batch_open, num_computed, limit, wait_steps, first_scheduled,
                   budget, mid_prefill, decode, cursor>>

RetireDone ==
    /\ pc = "retire" /\ call = Idle
    /\ done # <<>>
    /\ free_table(Head(done))
    /\ retire({Head(done)}, finish[Head(done)])
    /\ done' = Tail(done)
    /\ UNCHANGED <<queueVars, num_computed, limit, wait_steps, first_scheduled,
                   pc, budget, mid_prefill, decode, cursor, slices>>

BatchFinished ==
    ~Continuous /\ running # <<>> /\ \A s \in Members(running) : is_finished(s)

EndStep ==
    /\ pc = "retire" /\ call = Idle
    /\ done = <<>>
    /\ pc' = IF BatchFinished THEN "drain" ELSE "idle"
    /\ UNCHANGED <<kvVars, queueVars, requestVars, budget, mid_prefill, decode, cursor, slices, done>>

\* A finished static batch releases its members' blocks, then reopens.
DrainBatch ==
    /\ pc = "drain" /\ call = Idle
    /\ \/ /\ running # <<>>
          /\ free_table(Head(running))
          /\ running' = Tail(running)
          /\ UNCHANGED <<pc, batch_open>>
       \/ /\ running = <<>>
          /\ batch_open' = TRUE
          /\ pc' = "idle"
          /\ UNCHANGED <<kvVars, running>>
    /\ UNCHANGED <<waiting, requestVars, budget, mid_prefill, decode, cursor, slices, done>>

-----------------------------------------------------------------------------
Init ==
    /\ KVInit
    /\ waiting = <<>> /\ running = <<>> /\ batch_open = TRUE
    /\ status = [s \in Seqs |-> "new"]
    /\ finish = [s \in Seqs |-> "none"]
    /\ num_computed = [s \in Seqs |-> 0]
    /\ limit = [s \in Seqs |-> 0]
    /\ wait_steps = [s \in Seqs |-> 0]
    /\ first_scheduled = {}
    /\ terminals = [s \in Seqs |-> 0]
    /\ pc = "idle" /\ budget = 0 /\ cursor = 1
    /\ mid_prefill = <<>> /\ decode = <<>> /\ slices = <<>> /\ done = <<>>

ManagerStep == CallStep /\ UNCHANGED schedVars

\* What schedule(), forward() and on_step_done() do after the first statements.
WithinStep ==
    \/ Place \/ EvictFinished \/ Preempt \/ PlaceDone
    \/ ChunkPrefill \/ TruncateDecode
    \/ \E late \in SUBSET Seqs : ExpireQueue(late)
    \/ Admit \/ SkipWaiting \/ AdmitDone \/ FinishSchedule
    \/ Forward \/ Apply \/ SkipSample \/ (\E tok \in Token : Sample(tok))
    \/ RetireDone \/ EndStep \/ DrainBatch

\* A step of the engine thread while it has something to do.
EngineStep == ManagerStep \/ BeginSchedule \/ WithinStep

ClientStep ==
    \/ \E s \in Seqs : \E r \in Requests[s] : add(s, r)
    \/ /\ EngineIdle
       /\ \E s \in Aborts : AbortWaiting(s) \/ AbortRunning(s)
       /\ UNCHANGED stepVars

Next == EngineStep \/ ClientStep

Spec == Init /\ [][Next]_vars

\* The engine thread does not stop while it has work.
FairSpec == Spec /\ WF_vars(EngineStep)

-----------------------------------------------------------------------------
(* Properties.                                                             *)

Distinct(q) == \A j, k \in 1..Len(q) : q[j] = q[k] => j = k

\* No request is lost or duplicated by the moves between the queues: it is in
\* exactly the queue its status names, and nobody but a resident sequence (or the
\* one being released) holds blocks.
NoLostRequest ==
    /\ Distinct(waiting \o running \o done)
    /\ \A s \in Seqs :
          /\ s \in Members(waiting) <=> status[s] = "waiting"
          /\ s \in Members(running) \union Members(done) =>
                status[s] = "running" \/ (status[s] = "finished" /\ ~Continuous)
          /\ status[s] = "running" => s \in Members(running) \union Members(done)
          /\ blocks[s] # <<>> =>
                \/ s \in Members(running) \union Members(done)
                \/ call # Idle /\ call.seq = s

\* s can be computed from position `start' for len tokens: its K/V are there up to
\* start, and its table has the slots (the contract of the cache's Write).
Computable(s, start, len) ==
    /\ start = num_computed[s] /\ start <= written[s]
    /\ start + len <= num_tokens(s)
    /\ start + len <= Len(blocks[s]) * BlockSize

\* A slice never refers to a sequence that was evicted, finished or advanced since
\* the slice was built, no sequence has two, none is empty, and logits are asked for
\* exactly where the sequence's last token is computed.
SlicesFresh ==
    call = Idle =>
        /\ \A j, k \in 1..Len(slices) : slices[j].seq = slices[k].seq => j = k
        /\ \A k \in 1..Len(slices) :
              LET sl == slices[k]
              IN  ~(pc = "sample" /\ k = 1) =>
                  /\ sl.seq \in Members(running) /\ ~is_finished(sl.seq)
                  /\ sl.len > 0 /\ Computable(sl.seq, sl.start, sl.len)
                  /\ sl.needs_logits <=> sl.start + sl.len = num_tokens(sl.seq)

\* Making room for one sequence never takes the slot of one that was placed earlier
\* in the same step, and what is to be decoded is resident and unfinished.
PlacedKeepSlots ==
    \A k \in 1..Len(decode) :
        /\ decode[k] \in Members(running) /\ ~is_finished(decode[k])
        /\ (pc = "place" => k < cursor) => EnsureSlotHolds(decode[k])

\* The tokens of a step: offset j of the slice k, over all its slices.
BatchTokens(q) == UNION {{k} \X (1..q[k].len) : k \in 1..Len(q)}

\* A step never computes more tokens, nor batches more sequences, than configured.
StepWithinBudget ==
    /\ pc = "forward" => Cardinality(BatchTokens(slices)) <= MaxBatchedTokens
    /\ Len(running) <= MaxNumSeqs

\* A request that timed out was never admitted: "a request that has waited this
\* long without being admitted is abandoned" (scheduler.h).
TimedOutNeverAdmitted ==
    \A s \in Seqs : finish[s] = "timeout" => s \notin first_scheduled

\* r stands before s in the order of service, residents first.
Ahead(r, s) ==
    LET line == running \o waiting
    IN  \E j, k \in 1..Len(line) : j < k /\ line[j] = r /\ line[k] = s

Live(s) == s \in Members(running) \union Members(waiting)

\* With strict first-come-first-served admission, neither preemption nor
\* readmission ever lets a request overtake another one.
SeniorityKept ==
    [][\A r, s \in Seqs : Ahead(r, s) /\ Live(r)' /\ Live(s)' => Ahead(r, s)']_vars

\* A request that has waited starvation_wait_steps rounds is not overtaken.
StarvingHoldsQueue ==
    [][\A j, k \in 1..Len(waiting) :
          j < k /\ waiting[k] \in Members(running') =>
              wait_steps[waiting[j]] < StarvationSteps]_vars

\* Every request the scheduler accepted reaches its terminal state.
RequestsFinish == \A s \in Seqs : status[s] = "waiting" ~> is_finished(s)

\* What the client sees of the scheduler.  A fixed watermark may keep a request out for
\* ever, which is then rejected.
Life ==
    INSTANCE RequestLife WITH
        state <- [s \in Seqs |-> CASE status[s] = "new" -> "new"
                                   [] is_finished(s) -> "closed"
                                   [] OTHER -> "open"],
        text <- tokens, longest <- limit, reason <- finish, callbacks <- terminals,
        Abortable <- IF Watermark > 0 THEN Seqs ELSE Aborts, MayTimeOut <- Deadline

\* The scheduler implements a request's life: preemption and recomputation neither lose,
\* repeat nor change a token, a request ends once, with the reason its text has, and it
\* does end; nobody is aborted unasked, and a finished member of a static batch stays
\* finished.
ImplementsRequestLife == Life!LifeSpec

=============================================================================
