---------------------------- MODULE EngineProofs ----------------------------
(***************************************************************************)
(* The engine's threads keep the scheduler's invariant and the manager's   *)
(* contract, whatever clients, owner and backend do in between; queued_ is *)
(* exact; and a loop that ends leaves no request behind.                   *)
(***************************************************************************)
EXTENDS Engine, SchedulerProofs

-----------------------------------------------------------------------------
(* The invariant.                                                          *)

\* Every variable of the engine has the type its C++ declaration gives it; queued_ may
\* be negative while a submit() that was overtaken has not counted its request.
EngineTypeOK ==
    /\ accepting \in BOOLEAN /\ loop_running \in BOOLEAN /\ draining \in BOOLEAN
    /\ fatal \in BOOLEAN /\ stale \in BOOLEAN
    /\ inbox \in Seq(Seqs) /\ abort_inbox \in Seq(Aborts)
    /\ queued \in Int
    /\ loop \in {"top", "pull", "wait", "intake", "step", "run", "busy", "exit", "flush", "ended"}
    /\ client \in [Seqs -> {"new", "depth", "push", "count", "accepted", "gone", "draining", "overloaded"}]
    /\ owner \in {"serving", "drain", "stop", "join_drain", "join", "done"}

\* The loop on the way out releases the members of the step it has just scheduled.
Flushing == loop = "flush" /\ pc = "forward"

\* What is left of the scheduler's invariant then: the slices go stale one by one, and
\* the manager is called where no other loop calls it.
FlushInv ==
    /\ SchedTypeInv /\ Queues /\ Holders /\ Residents
    /\ mid_prefill = <<>> /\ decode = <<>> /\ done = <<>> /\ slices # <<>>
    /\ call.op \in {"idle", "free"}
    /\ call.op = "free" => call.seq \notin Members(running)

Scheduled == IF Flushing THEN FlushInv ELSE SchedInv

\* Where the engine thread is, the scheduler is between two steps or inside one.
LoopPlace ==
    /\ loop \in {"top", "pull", "wait", "intake", "step", "exit", "ended"} => pc = "idle"
    /\ loop \in {"top", "pull", "wait", "step", "ended"} => call = Idle

\* A request is handed over once: it is new to the scheduler as long as it has not left
\* the inbox.
Handover ==
    /\ Distinct(inbox)
    /\ \A s \in Members(inbox) : client[s] \in {"count", "accepted", "gone"} /\ status[s] = "new"
    /\ \A s \in Seqs : client[s] \in {"new", "depth", "push"} => status[s] = "new"

\* The inductive invariant of the threads.
EngineInv == EngineTypeOK /\ Scheduled /\ LoopPlace /\ Handover

\* A flush starts with an empty batch, so what is running has a slice; an empty step
\* leaves an empty queue, unless a watermark keeps requests out.
FlushShape ==
    /\ loop = "flush" =>
          /\ pc \in {"place", "chunk", "expire", "admit", "build", "forward", "idle"}
          /\ mid_prefill = <<>> /\ decode = <<>>
          /\ pc # "forward" => (slices = <<>> => running = <<>>)
          /\ pc \notin {"idle", "forward"} => may_admit
    /\ loop = "ended" => running = <<>>
    /\ Watermark <= 0 /\ (loop = "ended" \/ (loop = "flush" /\ pc = "idle")) => waiting = <<>>

\* The loop is left for a reason.
ExitReason == loop \in {"exit", "flush", "ended"} => fatal \/ ~loop_running \/ draining

-----------------------------------------------------------------------------
(* The scheduler under the engine's threads.                               *)

\* The steps that are none of the scheduler's own: the way out, and an exception.
Foreign == ExitAbort \/ Throw \/ FlushAbort

\* All other steps of the threads are steps of the scheduler, or leave it alone; in the
\* middle of a flush only the manager moves.
LEMMA EngineSteps ==
    ASSUME EngineInv, [EngineNext]_allVars
    PROVE  \/ Foreign
           \/ /\ [Next]_vars
              /\ Flushing => (ManagerStep \/ UNCHANGED vars) /\ loop' = loop
<1>0. EngineTypeOK /\ LoopPlace BY DEF EngineInv
<1>1. CASE UNCHANGED allVars BY <1>1 DEF allVars, engineVars
<1>2. CASE ManagerStep /\ UNCHANGED engineVars BY <1>2 DEF Next, EngineStep, engineVars
<1>3. CASE LoopTop \/ Pull \/ Wake \/ IntakeDone BY <1>3 DEF LoopTop, Pull, Wake, IntakeDone, Flushing
<1>4. CASE StepEnd \/ FlushEmpty BY <1>4 DEF StepEnd, FlushEmpty, Flushing, EngineIdle
<1>5. CASE TakeRequest
  <2>1. inbox \in Seq(Seqs) /\ inbox # <<>> BY <1>0, <1>5 DEF EngineTypeOK, TakeRequest
  <2>2. Head(inbox) \in Seqs BY <2>1
  <2> QED BY <1>5, <2>2 DEF TakeRequest, Next, ClientStep, Flushing
<1>6. CASE TakeAbort
  <2>1. abort_inbox \in Seq(Aborts) /\ abort_inbox # <<>> BY <1>0, <1>6 DEF EngineTypeOK, TakeAbort
  <2>2. Head(abort_inbox) \in Aborts BY <2>1
  <2>3. EngineIdle BY <1>0, <1>6 DEF TakeAbort, LoopPlace, EngineIdle
  <2> QED BY <1>6, <2>2, <2>3 DEF TakeAbort, Next, ClientStep, Flushing
<1>7. CASE StepBegin \/ ExitFlush BY <1>7 DEF StepBegin, ExitFlush, Next, EngineStep, Flushing
<1>8. CASE StepRuns \/ FlushRuns BY <1>8 DEF StepRuns, FlushRuns, Next, EngineStep, Flushing
<1>9. CASE Foreign BY <1>9
<1>10. CASE OwnerThread \/ TimePasses
  BY <1>10 DEF OwnerThread, BeginShutdown, DrainFlag, StopFlag, Join, TimePasses
<1>11. CASE \E s \in Seqs : ClientThread(s)
  BY <1>11 DEF ClientThread, Submit, SubmitEnter, SubmitDepth, SubmitPush, SubmitCount, RequestAbort
<1> QED BY <1>1, <1>2, <1>3, <1>4, <1>5, <1>6, <1>7, <1>8, <1>9, <1>10, <1>11
        DEF EngineNext, EngineThread, Foreign

\* The types of the scheduler hold throughout.
LEMMA ScheduledTypes == ASSUME Scheduled PROVE SchedTypeInv
BY DEF Scheduled, FlushInv, SchedInv

\* A sequence that is released on the way out is resident.
LEMMA ForeignReleases ==
    ASSUME EngineInv, ExitAbort \/ FlushAbort
    PROVE  \E s \in Seqs : AbortRunning(s)
<1>1. SchedTypeOK BY ScheduledTypes DEF EngineInv, SchedTypeInv
<1>2. CASE ExitAbort
  <2>1. running \in Seq(Seqs) /\ running # <<>> BY <1>1, <1>2 DEF ExitAbort, SchedTypeOK
  <2>2. Head(running) \in Seqs BY <2>1
  <2> QED BY <1>2, <2>2 DEF ExitAbort
<1>3. CASE FlushAbort
  <2>1. Flushing BY <1>3 DEF FlushAbort, Flushing
  <2>2. slices # <<>> BY <2>1 DEF EngineInv, Scheduled, FlushInv
  <2>3. Head(slices).seq \in Seqs BY <1>1, <2>2, HeadSlice
  <2> QED BY <1>3, <2>3 DEF FlushAbort
<1> QED BY <1>2, <1>3

\* The engine's threads keep the manager's contract.
LEMMA EngineCacheStep == ASSUME EngineInv, [EngineNext]_allVars PROVE [KVNext]_kvVars
<1>1. CASE ExitAbort \/ FlushAbort
  <2>1. PICK s \in Seqs : AbortRunning(s) BY <1>1, ForeignReleases
  <2> QED BY <2>1 DEF AbortRunning, KVNext
<1>2. CASE Throw BY <1>2 DEF Throw
<1>3. CASE [Next]_vars /\ (Flushing => (ManagerStep \/ UNCHANGED vars) /\ loop' = loop)
  <2>1. CASE ~Flushing
    <3>1. SchedInv BY <2>1 DEF EngineInv, Scheduled
    <3> QED BY <1>3, <3>1, CacheStep
  <2>2. CASE ManagerStep BY <2>2 DEF ManagerStep, KVNext
  <2>3. CASE UNCHANGED vars BY <2>3 DEF vars
  <2> QED BY <1>3, <2>1, <2>2, <2>3
<1> QED BY <1>1, <1>2, <1>3, EngineSteps DEF Foreign


\* A step that ends with an exception leaves the batch as it was before the step.
LEMMA ThrowKeeps == ASSUME SchedInv, TypeInv', Throw PROVE SchedInv'
<1>0. SchedTypeOK /\ TextBounds /\ Queues /\ Holders /\ CallPlace /\ StepShape /\ Residents
  BY DEF SchedInv, SchedTypeInv
<1>a. /\ pc = "forward" /\ pc' = "idle" /\ slices' = <<>> /\ cursor' = 1
      /\ UNCHANGED <<waiting, running, batch_open, status, finish, num_computed, limit, wait_steps,
                     first_scheduled, terminals, budget, mid_prefill, decode, done>>
      /\ UNCHANGED <<blocks, written, tokens, call>>
  BY DEF Throw, queueVars, requestVars, kvVars, tables
<1>b. call = Idle /\ call.op = "idle" BY <1>a, ManagerIdle DEF Idle
<1>c. mid_prefill = <<>> /\ decode = <<>> /\ done = <<>> BY <1>0, <1>a DEF StepShape
<1>d. /\ Members(waiting)' = Members(waiting) /\ Members(running)' = Members(running)
      /\ Members(done)' = Members(done)
  BY <1>a DEF Members
<1>1. SchedTypeOK'
  <2>1. <<>> \in Seq(Slices) /\ "idle" \in Places BY DEF Places
  <2> QED BY <1>0, <1>a, <2>1 DEF SchedTypeOK
<1>2. TextBounds' BY <1>0, <1>a, <1>d DEF TextBounds
<1>3. Queues' BY <1>0, <1>a, <1>d DEF Queues, Distinct
<1>4. Holders' /\ CallPlace' BY <1>0, <1>a, <1>b, <1>d DEF Holders, CallPlace
<1>5. StepShape' BY <1>a, <1>c DEF StepShape
<1>6. Residents'
  <2>1. \A q : ~Applied(q) /\ ~Applied(q)' /\ ~Allocating(q) /\ ~Allocating(q)'
               /\ is_finished(q)' = is_finished(q) /\ num_tokens(q)' = num_tokens(q)
    BY <1>a, <1>b DEF Applied, Allocating, is_finished, num_tokens
  <2> QED BY <1>0, <1>a, <1>d, <2>1 DEF Residents
<1>7. (Candidates /\ StepSlices /\ Computed /\ SampleHead)' BY <1>a, <1>c, NoStep
<1> QED BY <1>1, <1>2, <1>3, <1>4, <1>5, <1>6, <1>7 DEF SchedInv, SchedTypeInv

\* A flush begins with the scheduler's invariant.
LEMMA FlushBegins == SchedInv /\ pc = "forward" => FlushInv
<1> SUFFICES ASSUME SchedInv, pc = "forward" PROVE FlushInv OBVIOUS
<1>1. call = Idle BY ManagerIdle
<1>2. StepShape BY DEF SchedInv
<1> QED BY <1>1, <1>2 DEF FlushInv, SchedInv, StepShape, Idle

\* While a flush waits for the manager, nothing but the released table changes.
LEMMA FlushManagerKeeps ==
    ASSUME FlushInv, TypeInv', pc = "forward", ManagerStep \/ UNCHANGED vars
    PROVE  FlushInv'
<1>0. SchedTypeOK /\ TextBounds /\ Queues /\ Holders /\ Residents /\ TypeInv
  BY DEF FlushInv, SchedTypeInv
<1>a. UNCHANGED <<waiting, running, batch_open, status, finish, num_computed, limit, wait_steps,
                  first_scheduled, terminals, pc, budget, mid_prefill, decode, cursor, slices, done>>
  BY DEF ManagerStep, vars, schedVars, queueVars, requestVars, stepVars
<1>b. /\ tokens' = tokens /\ (call' = call \/ call' = Idle)
      /\ \A r \in Seqs : (call.op = "free" => r # call.seq) => blocks'[r] = blocks[r] /\ written'[r] = written[r]
      /\ \A r \in Seqs : blocks'[r] # <<>> /\ call.op = "free" /\ call.seq = r => call' = call
  <2>1. CASE ManagerStep
    <3>1. CallStep BY <2>1 DEF ManagerStep
    <3>2. call.op = "free" BY <1>0, <3>1, CallStepFrame DEF FlushInv
    <3> QED BY <1>0, <3>1, <3>2, CallStepFrame
  <2>2. CASE UNCHANGED vars BY <2>2 DEF vars, kvVars, tables
  <2> QED BY <2>1, <2>2
<1>d. /\ Members(waiting)' = Members(waiting) /\ Members(running)' = Members(running)
      /\ Members(done)' = Members(done)
  BY <1>a DEF Members
<1>1. SchedTypeOK' BY <1>0, <1>a DEF SchedTypeOK
<1>2. TextBounds' BY <1>0, <1>a, <1>b, <1>d DEF TextBounds
<1>3. Queues' BY <1>0, <1>a, <1>d DEF Queues, Distinct
<1>e. Idle.op = "idle" BY DEF Idle
<1>4. Holders'
  <2> SUFFICES ASSUME NEW r \in Seqs, blocks'[r] # <<>>
               PROVE  \/ r \in (Members(running) \union Members(done))'
                      \/ call'.op = "free" /\ call'.seq = r
    BY DEF Holders
  <2>1. CASE call.op = "free" /\ call.seq = r BY <1>b, <2>1
  <2>2. CASE ~(call.op = "free" /\ call.seq = r) BY <1>0, <1>b, <1>d, <2>2 DEF Holders
  <2> QED BY <2>1, <2>2
<1>5. Residents'
  <2>1. \A q : /\ ~Applied(q) /\ ~Applied(q)' /\ ~Allocating(q) /\ ~Allocating(q)'
               /\ is_finished(q)' = is_finished(q) /\ num_tokens(q)' = num_tokens(q)
    BY <1>a, <1>b, <1>e DEF Applied, Allocating, is_finished, num_tokens, FlushInv
  <2>2. \A r \in Members(running) : r \in Seqs /\ blocks'[r] = blocks[r] /\ written'[r] = written[r]
    BY <1>0, <1>b, MembersType DEF FlushInv, SchedTypeOK
  <2> QED BY <1>0, <1>a, <1>d, <2>1, <2>2 DEF Residents
<1>6. /\ mid_prefill' = <<>> /\ decode' = <<>> /\ done' = <<>> /\ slices' # <<>>
      /\ call'.op \in {"idle", "free"}
      /\ call'.op = "free" => call'.seq \notin Members(running)'
  BY <1>a, <1>b, <1>d, <1>e DEF FlushInv
<1> QED BY <1>1, <1>2, <1>3, <1>4, <1>5, <1>6 DEF FlushInv, SchedTypeInv

\* A flush releases one member of the step after the other; with the last one the
\* scheduler is between two steps again.
LEMMA FlushAbortKeeps ==
    ASSUME FlushInv, TypeInv', FlushAbort
    PROVE  IF Flushing' THEN FlushInv' ELSE SchedInv'
<1>0. SchedTypeOK /\ TextBounds /\ Queues /\ Holders /\ Residents /\ TypeInv /\ slices # <<>>
  BY DEF FlushInv, SchedTypeInv
<1>s. PICK s \in Seqs : s = Head(slices).seq BY <1>0, HeadSlice
<1>a. /\ pc = "forward" /\ call = Idle /\ s \in Members(running) /\ free_table(s)
      /\ running' = Without(running, s)
      /\ retire({s}, "abort")
      /\ slices' = Tail(slices)
      /\ pc' = IF Len(slices) = 1 THEN "idle" ELSE "forward"
      /\ loop' = IF Len(slices) = 1 THEN "exit" ELSE "flush"
      /\ UNCHANGED <<waiting, batch_open, num_computed, limit, wait_steps, first_scheduled,
                     budget, mid_prefill, decode, cursor, done>>
  BY <1>s DEF FlushAbort, AbortRunning
<1>b. /\ call' = [op |-> "free", seq |-> s, n |-> 0]
      /\ written' = [written EXCEPT ![s] = 0] /\ blocks' = blocks /\ tokens' = tokens
  BY <1>a DEF free_table, tables
<1>c. call.op = "idle" /\ call'.op = "free" /\ call'.seq = s BY <1>a, <1>b DEF Idle
<1>d. /\ Members(running)' = Members(running) \ {s} /\ Distinct(running)' /\ running' \in Seq(Seqs)
  BY <1>0, <1>a, WithoutQueue DEF SchedTypeOK, Queues
<1>e. /\ Members(waiting)' = Members(waiting) /\ Members(done)' = Members(done)
      /\ Distinct(waiting)' /\ Distinct(done)'
  BY <1>0, <1>a DEF Members, Distinct, Queues
<1>f. /\ status' \in [Seqs -> {"new", "waiting", "running", "finished"}]
      /\ finish' \in [Seqs -> {"none", "stop", "length", "abort", "timeout"}]
      /\ terminals' \in [Seqs -> Nat]
      /\ \A r \in Seqs : status'[r] = IF r \in {s} THEN "finished" ELSE status[r]
  BY <1>0, <1>a, RetireFrame
<1>g. s \notin Members(waiting) /\ s \notin Members(done) BY <1>0, <1>a DEF Queues
<1>h. Members(running) \subseteq Seqs /\ Members(done) \subseteq Seqs BY <1>0, MembersType DEF SchedTypeOK
<1>i. \A r \in (Members(running) \ {s}) \union Members(done) : status'[r] = status[r]
  BY <1>f, <1>g, <1>h
<1>j. slices \in Seq(Slices) /\ slices' \in Seq(Slices) /\ Len(slices') = Len(slices) - 1
      /\ Len(slices) \in Nat \ {0}
  BY <1>0, <1>a DEF SchedTypeOK
<1>1. SchedTypeOK'
  <2>1. pc' \in Places BY <1>a DEF Places
  <2> QED BY <1>0, <1>a, <1>d, <1>f, <1>j, <2>1 DEF SchedTypeOK
<1>2. TextBounds' BY <1>0, <1>b, <1>d, <1>e DEF TextBounds
<1>3. Queues' BY <1>0, <1>d, <1>e, <1>f, <1>g, <1>i DEF Queues
<1>4. Holders' BY <1>0, <1>b, <1>c, <1>d, <1>e DEF Holders
<1>5. Residents'
  <2>1. \A q : ~Applied(q) /\ ~Applied(q)' /\ ~Allocating(q) /\ ~Allocating(q)'
    BY <1>a, <1>c DEF Applied, Allocating
  <2>2. \A r \in Members(running)' :
           /\ r \in Members(running) /\ blocks'[r] = blocks[r] /\ written'[r] = written[r]
           /\ is_finished(r)' = is_finished(r) /\ num_tokens(r)' = num_tokens(r)
    <3>1. \A r \in Seqs : r # s => written'[r] = written[r] BY <1>0, <1>b DEF TypeInv, TypeOK
    <3> QED BY <1>b, <1>d, <1>h, <1>i, <3>1 DEF is_finished, num_tokens
  <2> QED BY <1>0, <1>a, <2>1, <2>2 DEF Residents
<1>6. mid_prefill' = <<>> /\ decode' = <<>> /\ done' = <<>> BY <1>a DEF FlushInv
<1>7. CASE Len(slices) = 1
  <2>1. pc' = "idle" /\ slices' = <<>> /\ ~Flushing' BY <1>7, <1>a, <1>j DEF Flushing
  <2>2. StepShape' BY <2>1, <1>6 DEF StepShape
  <2>3. CallPlace' BY <1>c, <1>d, <1>e, <1>g, <2>1 DEF CallPlace
  <2>4. (Candidates /\ StepSlices /\ Computed /\ SampleHead)' BY <1>6, <2>1, NoStep
  <2> QED BY <1>1, <1>2, <1>3, <1>4, <1>5, <2>1, <2>2, <2>3, <2>4 DEF SchedInv, SchedTypeInv
<1>8. CASE Len(slices) # 1
  <2>1. Flushing' BY <1>8, <1>a DEF Flushing
  <2>2. Len(slices') # 0 BY <1>8, <1>j
  <2>3. slices' # <<>> BY <2>2
  <2> QED BY <1>1, <1>2, <1>3, <1>4, <1>5, <1>6, <1>c, <1>d, <2>1, <2>3 DEF FlushInv, SchedTypeInv
<1> QED BY <1>7, <1>8


-----------------------------------------------------------------------------
(* Which requests a step ends.                                             *)

\* The requests of T, which were in the scheduler's hands, and with continuous batching
\* not answered, get their terminal callback; nobody else changes hands.
Ends(T) ==
    /\ T = {s \in Seqs : terminals'[s] # terminals[s]}
    /\ \A s \in T : status[s] # "new" /\ status'[s] = "finished"
    /\ Continuous => \A s \in T : status[s] # "finished"
    /\ \A s \in Seqs \ T :
          \/ status'[s] = status[s]
          \/ status[s] \in {"waiting", "running"} /\ status'[s] \in {"waiting", "running"}

\* retire() ends the sequences it is given.
LEMMA RetireEnds ==
    ASSUME SchedTypeOK, NEW T \in SUBSET Seqs,
           NEW reason \in {"none", "stop", "length", "abort", "timeout"}, retire(T, reason),
           \A s \in T : status[s] # "new" /\ (Continuous => status[s] # "finished")
    PROVE  Ends(T)
<1>1. /\ \A s \in Seqs : status'[s] = IF s \in T THEN "finished" ELSE status[s]
      /\ terminals' = [s \in Seqs |-> IF s \in T THEN terminals[s] + 1 ELSE terminals[s]]
  BY RetireFrame DEF retire
<1>2. \A s \in Seqs : terminals[s] \in Nat BY DEF SchedTypeOK
<1>3. \A s \in Seqs : terminals'[s] # terminals[s] <=> s \in T BY <1>1, <1>2
<1>4. T = {s \in Seqs : terminals'[s] # terminals[s]} BY <1>3
<1> QED BY <1>1, <1>4 DEF Ends

\* No request ends where no terminal callback is fired.
LEMMA NobodyEnds ==
    ASSUME terminals' = terminals,
           \A s \in Seqs :
              \/ status'[s] = status[s]
              \/ status[s] \in {"waiting", "running"} /\ status'[s] \in {"waiting", "running"}
    PROVE  Ends({})
BY DEF Ends

\* Releasing a resident ends its request.
LEMMA AbortEnds ==
    ASSUME SchedTypeOK, Queues, NEW s \in Seqs, AbortWaiting(s) \/ AbortRunning(s)
    PROVE  Ends({s})
<1>1. retire({s}, "abort") BY DEF AbortWaiting, AbortRunning
<1>2. status[s] # "new" /\ (Continuous => status[s] # "finished")
  BY DEF Queues, AbortWaiting, AbortRunning
<1> QED BY <1>1, <1>2, RetireEnds

\* schedule(), forward() and on_step_done() run outside the intake.
LEMMA InsideStep == ASSUME WithinStep PROVE pc # "idle"
BY DEF WithinStep, Place, Placing, EvictFinished, Preempt, PlaceDone, ChunkPrefill, TruncateDecode,
   ExpireQueue, Admit, Admitting, SkipWaiting, AdmitDone, FinishSchedule, Forward, Apply, SkipSample,
   Sample, RetireDone, EndStep, DrainBatch

\* They end some requests, or none.
LEMMA InnerStepEnds == ASSUME SchedInv, WithinStep PROVE \E T \in SUBSET Seqs : Ends(T)
<1>0. SchedTypeOK /\ Queues /\ StepShape /\ SampleHead BY DEF SchedInv, SchedTypeInv
<1>1. CASE Unseen BY <1>1, NobodyEnds DEF Unseen
<1>2. ASSUME NEW late \in SUBSET Seqs, ExpireQueue(late) PROVE Ends(late)
  <2>1. retire(late, "timeout") /\ late \subseteq Members(waiting) BY <1>2 DEF ExpireQueue
  <2>2. \A s \in late : status[s] = "waiting" BY <1>0, <2>1 DEF Queues
  <2> QED BY <1>0, <2>1, <2>2, RetireEnds
<1>3. CASE FinishSchedule /\ HeadRejected
  <2>1. waiting \in Seq(Seqs) /\ waiting # <<>> BY <1>0, <1>3 DEF HeadRejected, SchedTypeOK
  <2>2. PICK s \in Seqs : s = Head(waiting) /\ s \in Members(waiting) BY <2>1, TailQueue
  <2>3. retire({s}, "abort") /\ status[s] = "waiting" BY <1>0, <1>3, <2>2 DEF FinishSchedule, Queues
  <2>4. Ends({s}) BY <1>0, <2>3, RetireEnds
  <2> QED BY <2>4
<1>4. ASSUME NEW tok \in Token, Sample(tok) PROVE \E T \in SUBSET Seqs : Ends(T)
  <2>1. pc = "sample" /\ slices # <<>> BY <1>0, <1>4 DEF Sample, StepShape
  <2>2. PICK s \in Seqs : s = Head(slices).seq BY <1>0, <2>1, HeadSlice
  <2>3. PICK r : r = FinishReason(s, tok, num_tokens(s) + 1) OBVIOUS
  <2>4. UNCHANGED <<status, terminals>> \/ retire({s}, r) BY <1>4, <2>2, <2>3 DEF Sample
  <2>5. r \in {"none", "stop", "length", "abort", "timeout"} BY <2>3 DEF FinishReason
  <2>6. status[s] = "running" BY <1>0, <2>1, <2>2 DEF SampleHead, Queues, is_finished
  <2>7. CASE UNCHANGED <<status, terminals>> BY <2>7, NobodyEnds
  <2>8. CASE retire({s}, r)
    <3>1. Ends({s}) BY <1>0, <2>5, <2>6, <2>8, RetireEnds
    <3> QED BY <3>1
  <2> QED BY <2>4, <2>7, <2>8
<1>5. CASE RetireDone
  <2>1. done \in Seq(Seqs) /\ done # <<>> BY <1>0, <1>5 DEF RetireDone, SchedTypeOK
  <2>2. PICK s \in Seqs : s = Head(done) /\ s \in Members(done) BY <2>1, TailQueue
  <2>3. retire({s}, finish[s]) /\ status[s] = "running" BY <1>0, <1>5, <2>2 DEF RetireDone, Queues
  <2>4. finish[s] \in {"none", "stop", "length", "abort", "timeout"} BY <1>0 DEF SchedTypeOK
  <2>5. Ends({s}) BY <1>0, <2>3, <2>4, RetireEnds
  <2> QED BY <2>5
<1>6. ASSUME NEW s \in Aborts, AbortWaiting(s) \/ AbortRunning(s) PROVE \E T \in SUBSET Seqs : Ends(T)
  <2>1. s \in Seqs BY SchedulerAssumption
  <2>2. Ends({s}) BY <1>0, <1>6, <2>1, AbortEnds
  <2> QED BY <2>1, <2>2
<1>7. ~\E s \in Seqs : \E r \in Requests[s] : add(s, r) BY InsideStep DEF add, EngineIdle
<1>8. Next BY DEF Next, EngineStep
<1> QED BY <1>1, <1>2, <1>3, <1>4, <1>5, <1>6, <1>7, <1>8, Views DEF Seen

\* So does a step of the threads that takes no request from the inbox.
LEMMA EngineStepEnds ==
    ASSUME EngineInv, [EngineNext]_allVars, ~TakeRequest
    PROVE  \E T \in SUBSET Seqs : Ends(T)
<1>1. SchedTypeOK /\ Queues
  BY ScheduledTypes DEF EngineInv, SchedTypeInv, Scheduled, FlushInv, SchedInv
<1>2. CASE ExitAbort \/ FlushAbort
  <2>1. PICK s \in Seqs : AbortRunning(s) BY <1>2, ForeignReleases
  <2>2. Ends({s}) BY <1>1, <2>1, AbortEnds
  <2> QED BY <2>2
<1>3. CASE Throw
  <2>1. terminals' = terminals /\ status' = status BY <1>3 DEF Throw, requestVars
  <2> QED BY <2>1, NobodyEnds
<1>4. CASE UNCHANGED vars \/ ManagerStep \/ BeginSchedule
  <2>1. terminals' = terminals /\ status' = status
    BY <1>4 DEF vars, ManagerStep, BeginSchedule, schedVars, requestVars
  <2> QED BY <2>1, NobodyEnds
<1>5. CASE StepRuns \/ FlushRuns
  <2>1. WithinStep /\ ~Flushing
    BY <1>5, InsideStep DEF StepRuns, FlushRuns, Flushing
  <2>2. SchedInv BY <2>1 DEF EngineInv, Scheduled
  <2> QED BY <2>1, <2>2, InnerStepEnds
<1>6. CASE TakeAbort
  <2>1. abort_inbox \in Seq(Aborts) /\ abort_inbox # <<>> BY <1>6 DEF EngineInv, EngineTypeOK, TakeAbort
  <2>2. PICK s \in Seqs : s = Head(abort_inbox) BY <2>1, SchedulerAssumption
  <2>3. UNCHANGED vars \/ AbortWaiting(s) \/ AbortRunning(s) BY <1>6, <2>2 DEF TakeAbort
  <2>4. CASE AbortWaiting(s) \/ AbortRunning(s)
    <3>1. Ends({s}) BY <1>1, <2>4, AbortEnds
    <3> QED BY <3>1
  <2> QED BY <1>4, <2>3, <2>4
<1>7. CASE LoopTop \/ Pull \/ Wake \/ IntakeDone \/ StepBegin \/ StepEnd \/ ExitFlush \/ FlushEmpty
  BY <1>4, <1>7 DEF LoopTop, Pull, Wake, IntakeDone, StepBegin, StepEnd, ExitFlush, FlushEmpty
<1>8. CASE OwnerThread \/ TimePasses \/ UNCHANGED allVars
  BY <1>4, <1>8 DEF OwnerThread, BeginShutdown, DrainFlag, StopFlag, Join, TimePasses, allVars
<1>9. CASE \E s \in Seqs : ClientThread(s)
  BY <1>4, <1>9 DEF ClientThread, Submit, SubmitEnter, SubmitDepth, SubmitPush, SubmitCount, RequestAbort
<1> QED BY <1>2, <1>3, <1>4, <1>5, <1>6, <1>7, <1>8, <1>9 DEF EngineNext, EngineThread


-----------------------------------------------------------------------------
(* The invariant of the threads.                                           *)

\* The scheduler's invariant survives the threads.
LEMMA NextScheduled == ASSUME EngineInv, [EngineNext]_allVars PROVE Scheduled'
<1>0. Scheduled /\ LoopPlace /\ EngineTypeOK BY DEF EngineInv
<1>1. TypeInv'
  <2>1. TypeInv BY <1>0, ScheduledTypes DEF SchedTypeInv
  <2> QED BY <2>1, EngineCacheStep, NextTypeInv
<1>2. CASE ExitAbort
  <2>1. /\ pc = "idle" /\ EngineIdle /\ UNCHANGED stepVars /\ pc' = pc
        /\ ~Flushing /\ ~Flushing'
    BY <1>0, <1>2 DEF ExitAbort, LoopPlace, EngineIdle, Flushing, stepVars
  <2>2. SchedInv BY <1>0, <2>1 DEF Scheduled
  <2>3. running \in Seq(Seqs) /\ running # <<>> BY <1>2, <2>2 DEF ExitAbort, SchedInv, SchedTypeInv, SchedTypeOK
  <2>4. PICK s \in Seqs : s = Head(running) BY <2>3
  <2>5. AbortRunning(s) BY <1>2, <2>4 DEF ExitAbort
  <2>6. SchedInv' BY <1>1, <2>1, <2>2, <2>5, AbortRunningKeeps
  <2> QED BY <2>1, <2>6 DEF Scheduled
<1>3. CASE Throw
  <2>1. ~Flushing /\ ~Flushing' BY <1>3 DEF Throw, Flushing
  <2> QED BY <1>0, <1>1, <1>3, <2>1, ThrowKeeps DEF Scheduled
<1>4. CASE FlushAbort
  <2>1. Flushing BY <1>4 DEF FlushAbort, Flushing
  <2>2. FlushInv BY <1>0, <2>1 DEF Scheduled
  <2> QED BY <1>1, <1>4, <2>2, FlushAbortKeeps DEF Scheduled
<1>5. CASE [Next]_vars /\ ~Flushing
  <2>1. SchedInv BY <1>0, <1>5 DEF Scheduled
  <2>2. SchedInv' BY <1>5, <2>1, NextSched
  <2>3. (SchedInv /\ pc = "forward" => FlushInv)' BY FlushBegins, PTL
  <2> QED BY <2>2, <2>3 DEF Scheduled, Flushing
<1>6. CASE Flushing /\ (ManagerStep \/ UNCHANGED vars) /\ loop' = loop
  <2>1. FlushInv /\ pc = "forward" BY <1>0, <1>6 DEF Scheduled, Flushing
  <2>2. FlushInv' BY <1>1, <1>6, <2>1, FlushManagerKeeps
  <2>3. pc' = pc BY <1>6 DEF ManagerStep, vars, schedVars, stepVars
  <2>4. Flushing' BY <1>6, <2>3 DEF Flushing
  <2> QED BY <2>2, <2>4 DEF Scheduled
<1> QED BY <1>2, <1>3, <1>4, <1>5, <1>6, EngineSteps DEF Foreign

\* The engine thread looks at its inbox and its flags between two steps.
LEMMA NextPlace == ASSUME EngineInv, [EngineNext]_allVars PROVE LoopPlace'
<1>0. EngineTypeOK /\ LoopPlace BY DEF EngineInv
<1>1. CASE UNCHANGED <<loop, pc, call>> BY <1>0, <1>1 DEF LoopPlace
<1>2. CASE UNCHANGED vars /\ loop' = loop
  <2>1. UNCHANGED <<pc, call>> BY <1>2 DEF vars, kvVars, schedVars, stepVars
  <2> QED BY <1>1, <1>2, <2>1
<1>3. CASE ManagerStep /\ UNCHANGED engineVars
  <2>1. call # Idle
    <3>1. TypeInv BY ScheduledTypes DEF EngineInv, SchedTypeInv
    <3> QED BY <1>3, <3>1, CallStepFrame DEF ManagerStep, Idle
  <2>2. UNCHANGED <<pc, loop>> BY <1>3 DEF ManagerStep, schedVars, stepVars, engineVars
  <2> QED BY <1>0, <2>1, <2>2 DEF LoopPlace
<1>4. CASE LoopTop \/ Pull \/ Wake \/ IntakeDone \/ StepEnd \/ FlushEmpty
  <2>1. UNCHANGED <<pc, call>>
    BY <1>4 DEF LoopTop, Pull, Wake, IntakeDone, StepEnd, FlushEmpty, vars, kvVars, schedVars, stepVars
  <2>2. pc = "idle" /\ call = Idle
    BY <1>0, <1>4 DEF LoopTop, Pull, Wake, IntakeDone, StepEnd, FlushEmpty, LoopPlace, EngineIdle
  <2> QED BY <2>1, <2>2 DEF LoopPlace
<1>5. CASE TakeRequest
  BY <1>0, <1>5 DEF TakeRequest, add, stepVars, LoopPlace
<1>6. CASE TakeAbort
  <2>1. UNCHANGED <<pc, loop>> BY <1>6 DEF TakeAbort, stepVars, vars, schedVars
  <2> QED BY <1>0, <1>6, <2>1 DEF TakeAbort, LoopPlace
<1>7. CASE StepBegin BY <1>7 DEF StepBegin, LoopPlace
<1>8. CASE StepRuns \/ FlushRuns BY <1>8 DEF StepRuns, FlushRuns, LoopPlace
<1>9. CASE Throw BY <1>9 DEF Throw, LoopPlace
<1>10. CASE ExitAbort
  <2>1. loop = "exit" /\ loop' = loop /\ pc' = pc BY <1>10 DEF ExitAbort, stepVars
  <2> QED BY <1>0, <2>1 DEF LoopPlace
<1>11. CASE ExitFlush
  <2>1. CASE UNCHANGED vars
    <3>1. UNCHANGED <<pc, call>> BY <2>1 DEF vars, kvVars, schedVars, stepVars
    <3> QED BY <1>11, <3>1 DEF ExitFlush, LoopPlace, EngineIdle
  <2>2. CASE loop' = "flush" BY <2>2 DEF LoopPlace
  <2> QED BY <1>11, <2>1, <2>2 DEF ExitFlush
<1>12. CASE FlushAbort BY <1>12 DEF FlushAbort, LoopPlace
<1>13. CASE OwnerThread \/ TimePasses \/ UNCHANGED allVars
  BY <1>2, <1>13 DEF OwnerThread, BeginShutdown, DrainFlag, StopFlag, Join, TimePasses, allVars, engineVars
<1>14. CASE \E s \in Seqs : ClientThread(s)
  BY <1>2, <1>14 DEF ClientThread, Submit, SubmitEnter, SubmitDepth, SubmitPush, SubmitCount, RequestAbort
<1> QED BY <1>3, <1>4, <1>5, <1>6, <1>7, <1>8, <1>9, <1>10, <1>11, <1>12, <1>13, <1>14
        DEF EngineNext, EngineThread


\* The engine's variables keep their types.
LEMMA NextEngineTypes == ASSUME EngineInv, [EngineNext]_allVars PROVE EngineTypeOK'
<1>0. EngineTypeOK BY DEF EngineInv
<1>a. \A q \in SUBSET Seqs : Cardinality(q) \in Nat
  BY KVAssumption, FS_Subset, FS_CardinalityType
<1>b. Uncount => queued' \in Int
  <2>1. {s \in Seqs : terminals'[s] # terminals[s]} \in SUBSET Seqs OBVIOUS
  <2>2. Cardinality({s \in Seqs : terminals'[s] # terminals[s]}) \in Nat BY <1>a, <2>1
  <2> QED BY <1>0, <2>2 DEF Uncount, EngineTypeOK
<1>c. inbox # <<>> => Tail(inbox) \in Seq(Seqs) BY <1>0 DEF EngineTypeOK
<1>d. abort_inbox # <<>> => Tail(abort_inbox) \in Seq(Aborts) BY <1>0 DEF EngineTypeOK
<1>1. CASE UNCHANGED engineVars
  BY <1>0, <1>1 DEF engineVars, flagVars, boxVars, EngineTypeOK
<1>2. CASE LoopTop \/ Pull \/ Wake \/ IntakeDone \/ StepBegin \/ StepEnd
  BY <1>0, <1>2, ZenonT(40) DEF LoopTop, Pull, Wake, IntakeDone, StepBegin, StepEnd, mark_progress, flagVars, boxVars,
     EngineTypeOK
<1>3. CASE TakeRequest BY <1>0, <1>3, <1>c DEF TakeRequest, Taken, flagVars, EngineTypeOK
<1>4. CASE TakeAbort BY <1>0, <1>4, <1>b, <1>d DEF TakeAbort, Taken, flagVars, EngineTypeOK
<1>5. CASE StepRuns \/ FlushRuns \/ ExitAbort
  BY <1>0, <1>5, <1>b DEF StepRuns, FlushRuns, ExitAbort, flagVars, boxVars, EngineTypeOK
<1>6. CASE Throw BY <1>0, <1>6 DEF Throw, boxVars, EngineTypeOK
<1>7. CASE ExitFlush \/ FlushEmpty
  BY <1>0, <1>7 DEF ExitFlush, FlushEmpty, flagVars, boxVars, EngineTypeOK
<1>8. CASE FlushAbort BY <1>0, <1>8, <1>b DEF FlushAbort, flagVars, boxVars, EngineTypeOK
<1>9. CASE OwnerThread \/ TimePasses
  <2>1. /\ UNCHANGED <<inbox, abort_inbox, queued, loop, client>>
        /\ owner' = owner \/ owner' \in Shutdowns \/ owner' \in {"join_drain", "join", "done"}
        /\ accepting' = accepting \/ accepting' = FALSE
        /\ draining' = draining \/ draining' = TRUE
        /\ loop_running' = loop_running \/ loop_running' = FALSE
        /\ stale' = stale \/ stale' = TRUE
        /\ fatal' = fatal
    BY <1>9 DEF OwnerThread, BeginShutdown, DrainFlag, StopFlag, Join, TimePasses, boxVars
  <2>2. owner' \in {"serving", "drain", "stop", "join_drain", "join", "done"}
    BY <1>0, <2>1, EngineAssumption DEF EngineTypeOK
  <2>3. /\ accepting' \in BOOLEAN /\ loop_running' \in BOOLEAN /\ draining' \in BOOLEAN
        /\ fatal' \in BOOLEAN /\ stale' \in BOOLEAN
    BY <1>0, <2>1 DEF EngineTypeOK
  <2> QED BY <1>0, <2>1, <2>2, <2>3 DEF EngineTypeOK
<1>10. ASSUME NEW s \in Seqs, SubmitEnter(s) \/ SubmitDepth(s) PROVE EngineTypeOK'
  BY <1>0, <1>10 DEF SubmitEnter, SubmitDepth, flagVars, boxVars, EngineTypeOK
<1>11. ASSUME NEW s \in Seqs, SubmitPush(s) \/ SubmitCount(s) PROVE EngineTypeOK'
  <2>1. UNCHANGED <<accepting, loop_running, draining, fatal, stale, abort_inbox, loop, owner>>
    BY <1>11 DEF SubmitPush, SubmitCount, flagVars, boxVars
  <2>2. inbox' \in Seq(Seqs) /\ queued' \in Int
    <3>1. inbox \in Seq(Seqs) /\ queued \in Int BY <1>0 DEF EngineTypeOK
    <3>2. (inbox' = inbox \/ inbox' = Append(inbox, s)) /\ (queued' = queued \/ queued' = queued + 1)
      BY <1>11 DEF SubmitPush, SubmitCount, boxVars
    <3> QED BY <3>1, <3>2
  <2>3. client' \in [Seqs -> {"new", "depth", "push", "count", "accepted", "gone", "draining", "overloaded"}]
    BY <1>0, <1>11 DEF SubmitPush, SubmitCount, EngineTypeOK
  <2> QED BY <1>0, <2>1, <2>2, <2>3 DEF EngineTypeOK
<1>12. ASSUME NEW s \in Seqs, s \in Aborts, RequestAbort(s) PROVE EngineTypeOK'
  BY <1>0, <1>12 DEF RequestAbort, flagVars, EngineTypeOK
<1> QED BY <1>1, <1>2, <1>3, <1>4, <1>5, <1>6, <1>7, <1>8, <1>9, <1>10, <1>11, <1>12
        DEF EngineNext, EngineThread, ClientThread, Submit, allVars

\* A request is handed over once.
LEMMA NextHandover == ASSUME EngineInv, [EngineNext]_allVars PROVE Handover'
<1>0. EngineTypeOK /\ Handover BY DEF EngineInv
<1>a. inbox \in Seq(Seqs) /\ client \in [Seqs -> {"new", "depth", "push", "count", "accepted", "gone",
                                               "draining", "overloaded"}]
  BY <1>0 DEF EngineTypeOK
<1>b. Members(inbox) \subseteq Seqs BY <1>a, MembersType
<1>1. CASE TakeRequest
  <2>1. inbox # <<>> /\ inbox' = Tail(inbox) /\ client' = client BY <1>1 DEF TakeRequest, Taken
  <2>2. PICK s \in Seqs : s = Head(inbox) BY <1>a, <2>1
  <2>3. /\ Members(inbox) = Members(Tail(inbox)) \union {s} /\ s \in Members(inbox)
        /\ s \notin Members(Tail(inbox)) /\ Distinct(Tail(inbox))
    BY <1>0, <1>a, <2>1, <2>2, TailQueue DEF Handover
  <2>4. Members(inbox)' = Members(Tail(inbox)) /\ Distinct(inbox)' BY <2>1, <2>3 DEF Members, Distinct
  <2>5. \A q \in Seqs : q # s => status'[q] = status[q]
    <3>1. status' = [status EXCEPT ![s] = "waiting"] BY <1>1, <2>2 DEF TakeRequest, add
    <3>2. SchedTypeOK BY ScheduledTypes DEF EngineInv, SchedTypeInv
    <3> QED BY <3>1, <3>2 DEF SchedTypeOK
  <2>6. client[s] \in {"count", "accepted", "gone"} BY <1>0, <2>3 DEF Handover
  <2>7. \A q \in Members(inbox)' : q # s /\ q \in Members(inbox) /\ q \in Seqs BY <1>b, <2>3, <2>4
  <2> QED BY <1>0, <2>1, <2>4, <2>5, <2>6, <2>7 DEF Handover
<1>2. CASE ~TakeRequest
  <2>1. PICK T \in SUBSET Seqs : Ends(T) BY <1>2, EngineStepEnds
  <2>2. \A s \in Seqs : status[s] = "new" => status'[s] = "new" BY <2>1 DEF Ends
  <2>3. CASE UNCHANGED <<inbox, client>>
    <3>1. Members(inbox)' = Members(inbox) /\ Distinct(inbox)' BY <1>0, <2>3 DEF Members, Distinct, Handover
    <3> QED BY <1>0, <1>b, <2>2, <2>3, <3>1 DEF Handover
  <2>4. ASSUME NEW s \in Seqs, SubmitEnter(s) \/ SubmitDepth(s) PROVE Handover'
    <3>1. /\ client[s] \in {"new", "depth"} /\ inbox' = inbox
          /\ \A q \in Seqs : q # s => client'[q] = client[q]
      BY <1>a, <2>4 DEF SubmitEnter, SubmitDepth, boxVars
    <3>2. Members(inbox)' = Members(inbox) /\ Distinct(inbox)' BY <1>0, <3>1 DEF Members, Distinct, Handover
    <3>3. s \notin Members(inbox) /\ status[s] = "new" BY <1>0, <3>1 DEF Handover
    <3>4. \A q \in Members(inbox) : q \in Seqs /\ q # s BY <1>b, <3>3
    <3>5. \A q \in Members(inbox) : client'[q] \in {"count", "accepted", "gone"} /\ status'[q] = "new"
      BY <1>0, <2>2, <3>1, <3>4 DEF Handover
    <3>6. \A q \in Seqs : client'[q] \in {"new", "depth", "push"} => status'[q] = "new"
      BY <1>0, <2>2, <3>1, <3>3 DEF Handover
    <3> QED BY <3>2, <3>5, <3>6 DEF Handover
  <2>5. ASSUME NEW s \in Seqs, SubmitPush(s) PROVE Handover'
    <3>1. /\ client[s] = "push" /\ inbox' = Append(inbox, s) /\ client'[s] = "count"
          /\ \A q \in Seqs : q # s => client'[q] = client[q]
      BY <1>a, <2>5 DEF SubmitPush
    <3>2. s \notin Members(inbox) /\ status[s] = "new" BY <1>0, <3>1 DEF Handover
    <3>3. Members(Append(inbox, s)) = Members(inbox) \union {s} /\ Distinct(Append(inbox, s))
      BY <1>0, <1>a, <3>2, AppendQueue DEF Handover
    <3>4. Members(inbox)' = Members(inbox) \union {s} /\ Distinct(inbox)' BY <3>1, <3>3 DEF Members, Distinct
    <3> QED BY <1>0, <1>b, <2>2, <3>1, <3>2, <3>4 DEF Handover
  <2>6. ASSUME NEW s \in Seqs, SubmitCount(s) \/ RequestAbort(s) PROVE Handover'
    <3>1. /\ client'[s] \in {"accepted", "gone"} /\ inbox' = inbox
          /\ \A q \in Seqs : q # s => client'[q] = client[q]
      BY <1>a, <2>6 DEF SubmitCount, RequestAbort, boxVars
    <3>2. Members(inbox)' = Members(inbox) /\ Distinct(inbox)' BY <1>0, <3>1 DEF Members, Distinct, Handover
    <3> QED BY <1>0, <1>b, <2>2, <3>1, <3>2 DEF Handover
  <2>7. CASE OwnerThread \/ TimePasses \/ UNCHANGED allVars
    BY <2>3, <2>7 DEF OwnerThread, BeginShutdown, DrainFlag, StopFlag, Join, TimePasses, allVars, engineVars,
       boxVars
  <2>8. CASE EngineThread
    BY <1>2, <2>3, <2>8
       DEF EngineThread, engineVars, LoopTop, Pull, Wake, TakeAbort, IntakeDone, StepBegin, StepRuns, StepEnd,
           Throw, ExitAbort, ExitFlush, FlushRuns, FlushAbort, FlushEmpty, boxVars
  <2> QED BY <2>4, <2>5, <2>6, <2>7, <2>8 DEF EngineNext, ClientThread, Submit
<1> QED BY <1>1, <1>2

\* Every step of every thread keeps the invariant.
LEMMA NextEngine == ASSUME EngineInv, [EngineNext]_allVars PROVE EngineInv'
BY NextScheduled, NextPlace, NextEngineTypes, NextHandover DEF EngineInv

\* So it holds in every reachable state.
LEMMA EngineSafe == EngineSpec => []EngineInv
<1>1. EngineInit => EngineInv
  <2> SUFFICES ASSUME EngineInit PROVE EngineInv OBVIOUS
  <2>1. Init BY DEF EngineInit
  <2>2. SchedInv BY <2>1, InitSched
  <2>3. /\ inbox = <<>> /\ loop = "top" /\ client = [s \in Seqs |-> "new"] /\ pc = "idle" /\ call = Idle
        /\ status = [s \in Seqs |-> "new"]
    BY <2>1 DEF EngineInit, Init, KVInit
  <2>4. EngineTypeOK
    <3>1. /\ accepting = TRUE /\ loop_running = TRUE /\ draining = FALSE /\ fatal = FALSE /\ stale = FALSE
          /\ abort_inbox = <<>> /\ queued = 0 /\ owner = "serving"
      BY DEF EngineInit
    <3>2. /\ accepting \in BOOLEAN /\ loop_running \in BOOLEAN /\ draining \in BOOLEAN
          /\ fatal \in BOOLEAN /\ stale \in BOOLEAN
      BY <3>1
    <3>3. /\ inbox \in Seq(Seqs) /\ abort_inbox \in Seq(Aborts) /\ queued \in Int
      BY <2>3, <3>1
    <3>4. /\ client \in [Seqs -> {"new", "depth", "push", "count", "accepted", "gone", "draining", "overloaded"}]
          /\ loop \in {"top", "pull", "wait", "intake", "step", "run", "busy", "exit", "flush", "ended"}
          /\ owner \in {"serving", "drain", "stop", "join_drain", "join", "done"}
      BY <2>3, <3>1
    <3> QED BY <3>2, <3>3, <3>4 DEF EngineTypeOK
  <2>5. Scheduled /\ LoopPlace BY <2>2, <2>3 DEF Scheduled, Flushing, LoopPlace
  <2>6. Members(<<>>) = {} /\ Distinct(<<>>) BY DEF Members, Distinct
  <2>7. Handover BY <2>3, <2>6 DEF Handover
  <2> QED BY <2>4, <2>5, <2>7 DEF EngineInv
<1>2. EngineInv /\ [EngineNext]_allVars => EngineInv' BY NextEngine
<1> QED BY <1>1, <1>2, PTL DEF EngineSpec

\* The whole program, with its client, owner and engine threads, an exception out of
\* forward() and the release on the way out included, is a client of the cache that keeps
\* the manager's contract: what is proved of the cache holds inside the running engine.
THEOREM EngineDrivesCache == EngineSpec => KVSpec
<1>1. EngineInit => KVInit BY DEF EngineInit, Init
<1>2. EngineInv /\ [EngineNext]_allVars => [KVNext]_kvVars BY EngineCacheStep
<1> QED BY <1>1, <1>2, EngineSafe, PTL DEF EngineSpec, KVSpec


-----------------------------------------------------------------------------
(* What the scheduler promises its clients also holds inside the engine.   *)

Served ==
    /\ Reasons /\ HeadAdmitted
    /\ Len(running) <= MaxNumSeqs
    /\ ~Flushing => BudgetInv

\* Releasing a resident between two steps, or in a flush, keeps it.
LEMMA ReleaseServed ==
    ASSUME SchedTypeOK, Served, NEW s \in Seqs, AbortRunning(s), done' = done, pc' \in {"idle", "forward"},
           pc' = "forward" => loop' = "flush", running' \in Seq(Seqs)
    PROVE  Served'
<1>1. /\ running' = Without(running, s) /\ retire({s}, "abort")
      /\ UNCHANGED <<limit, tokens, done>>
  BY DEF AbortRunning, free_table
<1>2. Reasons' BY <1>1, RetireReasons DEF Served
<1>3. HeadAdmitted' BY DEF HeadAdmitted
<1>4. Len(running') <= MaxNumSeqs
  <2>1. running \in Seq(Seqs) /\ Len(running) <= MaxNumSeqs BY DEF SchedTypeOK, Served
  <2>2. Len(Without(running, s)) <= Len(running) BY <2>1, WithoutShrinks
  <2>3. Len(running) \in Nat /\ Len(running') \in Nat BY <2>1
  <2> QED BY <1>1, <2>1, <2>2, <2>3, Configuration
<1>5. ~Flushing' => BudgetInv'
  <2> SUFFICES ASSUME ~Flushing' PROVE BudgetInv' OBVIOUS
  <2>1. pc' = "idle" BY DEF Flushing
  <2> QED BY <1>4, <2>1 DEF BudgetInv
<1> QED BY <1>2, <1>3, <1>4, <1>5 DEF Served

\* Every step of every thread keeps it.
LEMMA NextServed ==
    ASSUME EngineInv, EngineInv', SharingInv, Served, [EngineNext]_allVars PROVE Served'
<1>0. SchedTypeOK /\ SchedTypeOK' /\ TypeInv
  <2>1. SchedTypeInv BY ScheduledTypes DEF EngineInv
  <2>2. SchedTypeInv' BY DEF EngineInv, Scheduled, FlushInv, SchedInv
  <2> QED BY <2>1, <2>2 DEF SchedTypeInv
<1>1. CASE ExitAbort
  <2>1. pc' = "idle" /\ done' = done BY <1>1 DEF ExitAbort, EngineInv, LoopPlace, stepVars
  <2>2. PICK s \in Seqs : AbortRunning(s) BY <1>1, ForeignReleases
  <2> QED BY <1>0, <2>1, <2>2, ReleaseServed DEF SchedTypeOK
<1>2. CASE FlushAbort
  <2>1. /\ pc' \in {"idle", "forward"} /\ done' = done
        /\ pc' = "forward" => loop' = "flush"
    BY <1>2 DEF FlushAbort
  <2>2. PICK s \in Seqs : AbortRunning(s) BY <1>2, ForeignReleases
  <2> QED BY <1>0, <2>1, <2>2, ReleaseServed DEF SchedTypeOK
<1>3. CASE Throw
  <2>1. /\ pc' = "idle" /\ UNCHANGED <<running, status, finish, limit, tokens, done>>
    BY <1>3 DEF Throw, queueVars, requestVars, kvVars
  <2>2. Members(done)' = Members(done) BY <2>1 DEF Members
  <2>3. Reasons' BY <2>1, <2>2 DEF Served, Reasons
  <2>4. HeadAdmitted' BY <2>1 DEF HeadAdmitted
  <2>5. BudgetInv' BY <2>1 DEF Served, BudgetInv
  <2> QED BY <2>1, <2>3, <2>4, <2>5 DEF Served
<1>4. CASE [Next]_vars /\ ~Flushing
  <2>1. SchedInv BY <1>4 DEF EngineInv, Scheduled
  <2>2. SchedInv' BY <1>4, <2>1, NextSched
  <2>3. BudgetInv' BY <1>4, <2>1, <2>2, NextBudget DEF Served
  <2>4. Reasons' BY <1>4, <2>1, <2>2, NextReasons DEF Served
  <2>5. HeadAdmitted' BY <1>4, <2>1, NextHead DEF Served
  <2> QED BY <2>3, <2>4, <2>5 DEF Served, BudgetInv
<1>5. CASE Flushing /\ (ManagerStep \/ UNCHANGED vars) /\ loop' = loop
  <2>1. UNCHANGED <<running, status, finish, limit, done, pc, tokens>>
    <3>1. CASE ManagerStep
      BY <1>0, <3>1, CallStepFrame DEF ManagerStep, schedVars, queueVars, requestVars, stepVars
    <3>2. CASE UNCHANGED vars
      BY <3>2 DEF vars, kvVars, schedVars, queueVars, requestVars, stepVars
    <3> QED BY <1>5, <3>1, <3>2
  <2>2. Members(done)' = Members(done) BY <2>1 DEF Members
  <2>3. Reasons' BY <2>1, <2>2 DEF Served, Reasons
  <2>4. pc' = "forward" /\ Flushing' BY <1>5, <2>1 DEF Flushing
  <2>5. HeadAdmitted' BY <2>4 DEF HeadAdmitted
  <2> QED BY <2>1, <2>3, <2>4, <2>5 DEF Served
<1> QED BY <1>1, <1>2, <1>3, <1>4, <1>5, EngineSteps DEF Foreign

\* A filter of an empty queue is empty.
LEMMA OnlyOfNone == ASSUME NEW T PROVE Only(<<>>, T) = <<>>
<1>1. <<>> \in Seq({}) OBVIOUS
<1>2. Only(<<>>, T) \in Seq({}) BY <1>1, OnlyQueue
<1> QED BY <1>2

\* The flush goes through schedule() with an empty batch and leaves nothing queued.
LEMMA NextFlush ==
    ASSUME EngineInv, Served, FlushShape, [EngineNext]_allVars PROVE FlushShape'
<1>0. EngineTypeOK /\ SchedTypeOK /\ HeadAdmitted
  BY ScheduledTypes DEF EngineInv, Served, SchedTypeInv
<1>1. CASE loop' \notin {"flush", "ended"} BY <1>1 DEF FlushShape
<1>2. CASE UNCHANGED <<loop, pc, mid_prefill, decode, slices, running, waiting, batch_open>>
  BY <1>2 DEF FlushShape, may_admit
<1>3. CASE UNCHANGED vars /\ loop' = loop
  BY <1>2, <1>3 DEF vars, schedVars, queueVars, stepVars
<1>4. CASE ManagerStep /\ UNCHANGED engineVars
  BY <1>2, <1>4 DEF ManagerStep, schedVars, queueVars, stepVars, engineVars
<1>5. CASE ExitFlush
  <2>1. running = <<>> BY <1>5 DEF ExitFlush
  <2>2. CASE FlushMore /\ BeginSchedule /\ loop' = "flush"
    <3>1. /\ pc' = "place" /\ mid_prefill' = <<>> /\ decode' = <<>>
          /\ running' = <<>> /\ batch_open' = (batch_open \/ (~Continuous /\ running = <<>>))
      BY <2>1, <2>2, OnlyOfNone DEF BeginSchedule
    <3>2. may_admit' BY <2>1, <3>1 DEF may_admit
    <3> QED BY <2>2, <3>1, <3>2 DEF FlushShape
  <2>3. CASE ~FlushMore /\ UNCHANGED vars /\ loop' = "ended"
    <3>1. waiting' = <<>> /\ running' = <<>>
      BY <2>1, <2>3 DEF FlushMore, vars, schedVars, queueVars
    <3> QED BY <2>3, <3>1 DEF FlushShape
  <2> QED BY <1>5, <2>2, <2>3 DEF ExitFlush
<1>6. CASE FlushEmpty
  <2>1. loop = "flush" /\ pc = "idle" /\ loop' = "ended" /\ UNCHANGED <<waiting, running>>
    BY <1>6 DEF FlushEmpty, EngineIdle, vars, schedVars, queueVars
  <2>2. slices = <<>> BY <2>1 DEF EngineInv, Scheduled, Flushing, SchedInv, StepShape
  <2> QED BY <2>1, <2>2 DEF FlushShape
<1>7. CASE FlushAbort
  <2>1. CASE Len(slices) = 1 BY <1>1, <1>7, <2>1 DEF FlushAbort
  <2>2. CASE Len(slices) # 1
    <3>1. loop = "flush" /\ loop' = "flush" /\ pc' = "forward" /\ UNCHANGED <<mid_prefill, decode>>
      BY <1>7, <2>2 DEF FlushAbort
    <3> QED BY <3>1 DEF FlushShape
  <2> QED BY <2>1, <2>2
<1>8. CASE FlushRuns
  <2>0. /\ loop = "flush" /\ loop' = loop /\ WithinStep
        /\ pc \in {"place", "chunk", "expire", "admit", "build"}
        /\ mid_prefill = <<>> /\ decode = <<>> /\ may_admit
        /\ slices = <<>> => running = <<>>
    BY <1>8 DEF FlushRuns, FlushShape
  <2>1. CASE Placing
    <3>1. cursor \in Nat \ {0} /\ cursor <= Len(decode) BY <1>0, <2>1 DEF Placing, SchedTypeOK
    <3>2. Len(decode) = 0 BY <2>0
    <3> QED BY <3>1, <3>2
  <2>2. CASE PlaceDone
    <3>1. pc' = "chunk" /\ UNCHANGED <<mid_prefill, decode, slices, running, waiting, batch_open>>
      BY <2>2 DEF PlaceDone, queueVars
    <3> QED BY <2>0, <3>1 DEF FlushShape, may_admit
  <2>3. CASE ChunkPrefill BY <2>0, <2>3 DEF ChunkPrefill
  <2>4. CASE TruncateDecode
    <3>1. /\ pc' = "expire" /\ decode' = SubSeq(decode, 1, DecodeRoom)
          /\ UNCHANGED <<mid_prefill, slices, running, waiting, batch_open>>
      BY <2>4 DEF TruncateDecode, queueVars
    <3>2. decode' = <<>>
      <4>1. budget \in Nat /\ Len(decode) = 0 BY <1>0, <2>0 DEF SchedTypeOK
      <4>2. DecodeRoom = 0 BY <4>1 DEF DecodeRoom, Smaller
      <4>3. SubSeq(<<>>, 1, 0) = <<>> OBVIOUS
      <4> QED BY <2>0, <3>1, <4>2, <4>3
    <3> QED BY <2>0, <3>1, <3>2 DEF FlushShape, may_admit
  <2>5. ASSUME NEW late \in SUBSET Seqs, ExpireQueue(late) PROVE FlushShape'
    <3>1. /\ pc' = "admit" /\ UNCHANGED <<mid_prefill, decode, slices, running, batch_open>>
      BY <2>0, <2>5 DEF ExpireQueue
    <3> QED BY <2>0, <3>1 DEF FlushShape, may_admit
  <2>6. CASE Admit
    <3>1. /\ pc = "admit" /\ UNCHANGED <<pc, mid_prefill, decode, batch_open>>
          /\ \E sl : slices' = Append(slices, sl)
      BY <2>6 DEF Admit, Admitting
    <3>2. slices' # <<>>
      <4>1. slices \in Seq(Slices) BY <1>0 DEF SchedTypeOK
      <4> QED BY <3>1, <4>1
    <3> QED BY <2>0, <3>1, <3>2 DEF FlushShape, may_admit
  <2>7. CASE SkipWaiting \/ AdmitDone
    <3>1. /\ pc' \in {"admit", "build"}
          /\ UNCHANGED <<mid_prefill, decode, slices, running, waiting, batch_open>>
      BY <2>7 DEF SkipWaiting, AdmitDone, queueVars
    <3> QED BY <2>0, <3>1 DEF FlushShape, may_admit
  <2>8. CASE FinishSchedule
    <3>1. /\ pc = "build" /\ decode' = <<>> /\ UNCHANGED <<mid_prefill, running>>
          /\ pc' = IF slices' = <<>> THEN "idle" ELSE "forward"
          /\ HeadRejected \/ waiting' = waiting
      BY <2>8 DEF FinishSchedule
    <3>2. slices' = slices
      <4>1. Len(decode) = 0 /\ slices \in Seq(Slices) BY <1>0, <2>0 DEF SchedTypeOK
      <4>2. [k \in 1..Len(decode) |->
               [seq |-> decode[k], start |-> num_computed[decode[k]], len |-> 1, needs_logits |-> TRUE]] = <<>>
        BY <4>1
      <4>3. slices' = slices \o <<>> BY <2>8, <4>2 DEF FinishSchedule
      <4> QED BY <4>1, <4>3
    <3>3. CASE slices' # <<>> BY <2>0, <3>1, <3>3 DEF FlushShape
    <3>4. CASE slices' = <<>>
      <4>1. running = <<>> BY <2>0, <3>2, <3>4
      <4>2. Watermark <= 0 => waiting = <<>> BY <1>0, <2>0, <3>1, <4>1 DEF HeadAdmitted
      <4>3. Watermark <= 0 => waiting' = <<>> BY <3>1, <4>2 DEF HeadRejected
      <4> QED BY <2>0, <3>1, <3>4, <4>1, <4>3 DEF FlushShape
    <3> QED BY <3>3, <3>4
  <2>9. pc \notin {"forward", "apply", "sample", "retire", "drain"} BY <2>0
  <2> QED BY <2>0, <2>1, <2>2, <2>3, <2>4, <2>5, <2>6, <2>7, <2>8, <2>9
          DEF WithinStep, Place, EvictFinished, Preempt, Forward, Apply, SkipSample, Sample, RetireDone,
              EndStep, DrainBatch
<1>9. CASE LoopTop \/ Pull \/ Wake \/ TakeRequest \/ TakeAbort \/ IntakeDone \/ StepBegin \/ StepRuns
           \/ StepEnd \/ Throw \/ ExitAbort
  BY <1>1, <1>9 DEF LoopTop, Pull, Wake, TakeRequest, TakeAbort, IntakeDone, StepBegin, StepRuns, StepEnd,
     Throw, ExitAbort
<1>10. CASE OwnerThread \/ TimePasses \/ UNCHANGED allVars
  BY <1>3, <1>10 DEF OwnerThread, BeginShutdown, DrainFlag, StopFlag, Join, TimePasses, allVars, engineVars
<1>11. CASE \E s \in Seqs : ClientThread(s)
  BY <1>3, <1>11 DEF ClientThread, Submit, SubmitEnter, SubmitDepth, SubmitPush, SubmitCount, RequestAbort
<1> QED BY <1>4, <1>5, <1>6, <1>7, <1>8, <1>9, <1>10, <1>11 DEF EngineNext, EngineThread


\* The flags that end the loop are not taken back.
LEMMA NextExit == ASSUME EngineInv, ExitReason, [EngineNext]_allVars PROVE ExitReason'
<1>0. EngineTypeOK BY DEF EngineInv
<1>1. CASE UNCHANGED <<loop, fatal, loop_running, draining>> BY <1>1 DEF ExitReason
<1>2. CASE UNCHANGED allVars \/ (ManagerStep /\ UNCHANGED engineVars) \/ TimePasses
  BY <1>1, <1>2 DEF allVars, engineVars, flagVars, TimePasses
<1>3. CASE LoopTop BY <1>0, <1>3 DEF LoopTop, ExitReason, flagVars, EngineTypeOK
<1>4. CASE Pull BY <1>0, <1>4 DEF Pull, DrainExit, mark_progress, ExitReason, EngineTypeOK
<1>5. CASE Wake BY <1>0, <1>5 DEF Wake, mark_progress, ExitReason, EngineTypeOK
<1>6. CASE TakeRequest \/ TakeAbort \/ ExitAbort \/ FlushRuns
  BY <1>1, <1>6 DEF TakeRequest, TakeAbort, ExitAbort, FlushRuns, flagVars
<1>7. CASE IntakeDone \/ StepBegin \/ StepEnd
  BY <1>7 DEF IntakeDone, StepBegin, StepEnd, ExitReason
<1>8. CASE StepRuns BY <1>8 DEF StepRuns, ExitReason
<1>9. CASE Throw BY <1>9 DEF Throw, ExitReason
<1>10. CASE ExitFlush \/ FlushAbort \/ FlushEmpty
  BY <1>10 DEF ExitFlush, FlushAbort, FlushEmpty, ExitReason, flagVars
<1>11. CASE OwnerThread
  BY <1>11 DEF OwnerThread, BeginShutdown, DrainFlag, StopFlag, Join, ExitReason
<1>12. CASE \E s \in Seqs : ClientThread(s)
  BY <1>1, <1>12 DEF ClientThread, Submit, SubmitEnter, SubmitDepth, SubmitPush, SubmitCount, RequestAbort,
     flagVars
<1> QED BY <1>2, <1>3, <1>4, <1>5, <1>6, <1>7, <1>8, <1>9, <1>10, <1>11, <1>12 DEF EngineNext, EngineThread

\* What the engine keeps to, and the cache under it.
LEMMA ServedSafe == EngineSpec => [](EngineInv /\ SharingInv /\ Served /\ FlushShape /\ ExitReason)
<1>1. EngineInit => Served /\ FlushShape /\ ExitReason
  <2> SUFFICES ASSUME EngineInit PROVE Served /\ FlushShape /\ ExitReason OBVIOUS
  <2>1. Init /\ loop = "top" BY DEF EngineInit
  <2>2. BudgetInv /\ HeadAdmitted /\ Len(running) <= MaxNumSeqs
    BY <2>1, EmptyBatch, FS_EmptySet, Configuration DEF Init, BudgetInv, HeadAdmitted
  <2>3. Reasons
    <3>1. Cardinality(Blocks) \in Nat BY KVAssumption, FS_CardinalityType
    <3>2. 0 <= Cardinality(Blocks) * BlockSize /\ 0 <= MaxTokens BY <3>1, Scaled, Configuration
    <3> QED BY <2>1, <3>2 DEF Init, Reasons
  <2> QED BY <2>1, <2>2, <2>3 DEF Served, FlushShape, ExitReason
<1>2. EngineInv /\ EngineInv' /\ SharingInv /\ Served /\ [EngineNext]_allVars => Served' BY NextServed
<1>3. EngineInv /\ Served /\ FlushShape /\ [EngineNext]_allVars => FlushShape' BY NextFlush
<1>4. EngineInv /\ ExitReason /\ [EngineNext]_allVars => ExitReason' BY NextExit
<1> QED BY <1>1, <1>2, <1>3, <1>4, EngineSafe, EngineDrivesCache, SharingSafe, PTL DEF EngineSpec

-----------------------------------------------------------------------------
(* What the loop leaves behind.                                            *)

\* The engine thread ends with every request of the scheduler answered and every block
\* back in the pool, unless a fixed watermark keeps the head of the queue out of the
\* last schedule(): "Abort whatever is left so waiting clients are released" (run_loop).
THEOREM EndReleases == ASSUME Watermark <= 0 PROVE EngineSpec => []EndReleasesScheduler
<1>1. ASSUME EngineInv, SharingInv, FlushShape PROVE EndReleasesScheduler
  <2> SUFFICES ASSUME loop = "ended"
               PROVE  /\ \A s \in Seqs : status[s] \in {"new", "finished"} /\ blocks[s] = <<>>
                      /\ num_available_blocks = Cardinality(Blocks)
    BY DEF EndReleasesScheduler
  <2>1. pc = "idle" /\ call = Idle BY <1>1 DEF EngineInv, LoopPlace
  <2>2. running = <<>> /\ waiting = <<>> BY <1>1 DEF FlushShape
  <2>3. SchedTypeOK /\ Queues /\ Holders /\ StepShape
    BY <1>1 DEF EngineInv, Scheduled, Flushing, SchedInv, SchedTypeInv
  <2>4. done = <<>> BY <2>1, <2>3 DEF StepShape
  <2>5. Members(running) = {} /\ Members(waiting) = {} /\ Members(done) = {}
    BY <2>2, <2>4 DEF Members
  <2>6. \A s \in Seqs : status[s] \in {"new", "finished"} BY <2>3, <2>5 DEF Queues, SchedTypeOK
  <2>7. call.op # "free" BY <2>1 DEF Idle
  <2>8. \A s \in Seqs : blocks[s] = <<>> BY <2>3, <2>5, <2>7 DEF Holders
  <2>9. num_available_blocks = Cardinality(Blocks) BY <1>1, <2>8, WholePool
  <2> QED BY <2>6, <2>8, <2>9
<1>2. EngineInv /\ SharingInv /\ FlushShape => EndReleasesScheduler BY <1>1
<1> QED BY <1>2, ServedSafe, PTL

-----------------------------------------------------------------------------
(* The request counter.                                                    *)

Unanswered == {s \in Seqs : status[s] \in {"waiting", "running"}}
Uncounted == {s \in Seqs : client[s] = "count"}

\* Both are finite, so they can be counted.
LEMMA CountedFinite ==
    /\ IsFiniteSet(Unanswered) /\ Cardinality(Unanswered) \in Nat
    /\ IsFiniteSet(Uncounted) /\ Cardinality(Uncounted) \in Nat
<1>1. IsFiniteSet(Seqs) BY KVAssumption
<1>2. Unanswered \in SUBSET Seqs /\ Uncounted \in SUBSET Seqs BY DEF Unanswered, Uncounted
<1>3. IsFiniteSet(Unanswered) /\ IsFiniteSet(Uncounted) BY <1>1, <1>2, FS_Subset
<1> QED BY <1>3, FS_CardinalityType

\* What a step ends is one less each to answer.
LEMMA EndsCount ==
    ASSUME Continuous, SchedTypeOK, NEW T \in SUBSET Seqs, Ends(T)
    PROVE  Cardinality(Unanswered') = Cardinality(Unanswered) - Cardinality(T)
<1>1. T \subseteq Unanswered BY DEF Ends, SchedTypeOK, Unanswered
<1>2. Unanswered' = Unanswered \ T BY DEF Ends, SchedTypeOK, Unanswered
<1>3. Unanswered \cap T = T BY <1>1
<1>4. Cardinality(Unanswered \ T) = Cardinality(Unanswered) - Cardinality(Unanswered \cap T)
  BY CountedFinite, FS_Difference, Zenon
<1> QED BY <1>2, <1>3, <1>4

\* A thread that fires no callback and touches no counter, inbox or request.
LEMMA UncountedKept ==
    ASSUME QueuedExact, UNCHANGED <<queued, inbox, status>>, Uncounted' = Uncounted
    PROVE  QueuedExact'
<1>1. Unanswered' = Unanswered BY DEF Unanswered
<1> QED BY <1>1 DEF QueuedExact, Unanswered, Uncounted

\* Steps that end requests count them out.
LEMMA UncountKeeps ==
    ASSUME Continuous, EngineInv, [EngineNext]_allVars, ~TakeRequest, QueuedExact, Uncount,
           UNCHANGED <<inbox, client>>
    PROVE  QueuedExact'
<1>1. PICK T \in SUBSET Seqs : Ends(T) BY EngineStepEnds
<1>2. queued' = queued - Cardinality(T) BY <1>1 DEF Uncount, Ends
<1>3. SchedTypeOK BY ScheduledTypes DEF EngineInv, SchedTypeInv
<1>4. Cardinality(Unanswered') = Cardinality(Unanswered) - Cardinality(T) BY <1>1, <1>3, EndsCount
<1>5. Uncounted' = Uncounted BY DEF Uncounted
<1>6. queued + Cardinality(Uncounted) = Len(inbox) + Cardinality(Unanswered)
  BY DEF QueuedExact, Unanswered, Uncounted
<1>7. queued \in Int /\ Len(inbox) \in Nat /\ Cardinality(T) \in Nat
  <2>1. IsFiniteSet(T) BY KVAssumption, FS_Subset
  <2> QED BY <2>1, FS_CardinalityType DEF EngineInv, EngineTypeOK
<1>8. queued' + Cardinality(Uncounted') = Len(inbox') + Cardinality(Unanswered')
  BY <1>2, <1>4, <1>5, <1>6, <1>7, CountedFinite, SMTT(20)
<1> QED BY <1>8 DEF QueuedExact, Unanswered, Uncounted


\* A client that hands its request over, and counts it later.
LEMMA SubmitKeeps ==
    ASSUME EngineInv, QueuedExact, NEW s \in Seqs, SubmitPush(s) \/ SubmitCount(s)
    PROVE  QueuedExact'
<1>0. /\ queued \in Int /\ inbox \in Seq(Seqs)
      /\ client \in [Seqs -> {"new", "depth", "push", "count", "accepted", "gone", "draining", "overloaded"}]
  BY DEF EngineInv, EngineTypeOK
<1>1. status' = status BY DEF SubmitPush, SubmitCount, vars, schedVars, requestVars
<1>2. Unanswered' = Unanswered BY <1>1 DEF Unanswered
<1>3. queued + Cardinality(Uncounted) = Len(inbox) + Cardinality(Unanswered)
  BY DEF QueuedExact, Unanswered, Uncounted
<1>4. queued' + Cardinality(Uncounted') = Len(inbox') + Cardinality(Unanswered')
  <2>1. CASE SubmitPush(s)
    <3>1. /\ inbox' = Append(inbox, s) /\ queued' = queued /\ client[s] = "push"
          /\ client' = [client EXCEPT ![s] = "count"]
      BY <2>1 DEF SubmitPush
    <3>2. s \notin Uncounted /\ Uncounted' = Uncounted \cup {s} BY <1>0, <3>1 DEF Uncounted
    <3>3. Cardinality(Uncounted \cup {s}) = Cardinality(Uncounted) + 1
      BY <3>2, CountedFinite, FS_AddElement, Zenon
    <3>4. Len(inbox') = Len(inbox) + 1 /\ Len(inbox) \in Nat BY <1>0, <3>1
    <3> QED BY <1>0, <1>2, <1>3, <3>1, <3>2, <3>3, <3>4, CountedFinite
  <2>2. CASE SubmitCount(s)
    <3>1. /\ inbox' = inbox /\ queued' = queued + 1 /\ client[s] = "count"
          /\ client' = [client EXCEPT ![s] = "accepted"]
      BY <2>2 DEF SubmitCount, boxVars
    <3>2. s \in Uncounted /\ Uncounted' = Uncounted \ {s} BY <1>0, <3>1 DEF Uncounted
    <3>3. Cardinality(Uncounted \ {s}) = Cardinality(Uncounted) - 1
      BY <3>2, CountedFinite, FS_RemoveElement, Zenon
    <3>4. Len(inbox) \in Nat BY <1>0
    <3> QED BY <1>0, <1>2, <1>3, <3>1, <3>2, <3>3, <3>4, CountedFinite
  <2> QED BY <2>1, <2>2
<1> QED BY <1>4 DEF QueuedExact, Unanswered, Uncounted

\* A request that leaves the inbox is in the scheduler's hands.
LEMMA TakeKeeps == ASSUME EngineInv, QueuedExact, TakeRequest PROVE QueuedExact'
<1>0. /\ queued \in Int /\ inbox \in Seq(Seqs) /\ inbox # <<>> /\ Handover /\ SchedTypeOK
  BY ScheduledTypes DEF EngineInv, EngineTypeOK, TakeRequest, SchedTypeInv
<1>1. PICK s \in Seqs : s = Head(inbox) /\ s \in Members(inbox) BY <1>0, TailQueue
<1>2. status[s] = "new" BY <1>0, <1>1 DEF Handover
<1>3. /\ status' = [status EXCEPT ![s] = "waiting"]
      /\ inbox' = Tail(inbox) /\ queued' = queued /\ client' = client
  BY <1>1 DEF TakeRequest, add, Taken
<1>4. s \notin Unanswered /\ Unanswered' = Unanswered \cup {s} BY <1>0, <1>2, <1>3 DEF Unanswered, SchedTypeOK
<1>5. Cardinality(Unanswered \cup {s}) = Cardinality(Unanswered) + 1
  BY <1>4, CountedFinite, FS_AddElement, Zenon
<1>6. Uncounted' = Uncounted BY <1>3 DEF Uncounted
<1>7. Len(inbox) \in Nat /\ Len(inbox') \in Nat /\ Len(inbox) = Len(inbox') + 1 BY <1>0, <1>3
<1>8. queued + Cardinality(Uncounted) = Len(inbox) + Cardinality(Unanswered)
  BY DEF QueuedExact, Unanswered, Uncounted
<1>9. queued' + Cardinality(Uncounted') = Len(inbox') + Cardinality(Unanswered')
  BY <1>0, <1>3, <1>4, <1>5, <1>6, <1>7, <1>8, CountedFinite
<1> QED BY <1>9 DEF QueuedExact, Unanswered, Uncounted

\* Every step of every thread keeps queued_ exact.
LEMMA NextCount ==
    ASSUME Continuous, EngineInv, QueuedExact, [EngineNext]_allVars
    PROVE  QueuedExact'
<1>0. client \in [Seqs -> {"new", "depth", "push", "count", "accepted", "gone", "draining", "overloaded"}]
  BY DEF EngineInv, EngineTypeOK
<1>1. CASE UNCHANGED <<queued, inbox, client, status>>
  <2>1. Uncounted' = Uncounted BY <1>1 DEF Uncounted
  <2> QED BY <1>1, <2>1, UncountedKept
<1>2. CASE UNCHANGED <<vars, queued, inbox, client>> BY <1>1, <1>2 DEF vars, schedVars, requestVars
<1>3. CASE LoopTop \/ Pull \/ Wake \/ IntakeDone \/ StepEnd \/ FlushEmpty
  BY <1>2, <1>3 DEF LoopTop, Pull, Wake, IntakeDone, StepEnd, FlushEmpty, boxVars
<1>4. CASE OwnerThread \/ TimePasses \/ UNCHANGED allVars
  BY <1>2, <1>4 DEF OwnerThread, BeginShutdown, DrainFlag, StopFlag, Join, TimePasses, allVars, engineVars,
     boxVars
<1>5. CASE ManagerStep /\ UNCHANGED engineVars
  BY <1>1, <1>5 DEF ManagerStep, schedVars, requestVars, engineVars, boxVars
<1>6. CASE StepBegin
  BY <1>1, <1>6 DEF StepBegin, BeginSchedule, requestVars, boxVars
<1>7. CASE Throw BY <1>1, <1>7 DEF Throw, requestVars, boxVars
<1>8. CASE ExitFlush
  BY <1>1, <1>2, <1>8 DEF ExitFlush, BeginSchedule, requestVars, boxVars
<1>9. CASE TakeRequest BY <1>9, TakeKeeps
<1>10. CASE (TakeAbort \/ StepRuns \/ ExitAbort \/ FlushRuns \/ FlushAbort) /\ ~TakeRequest
  <2>1. Uncount /\ UNCHANGED <<inbox, client>>
    BY <1>10 DEF TakeAbort, StepRuns, ExitAbort, FlushRuns, FlushAbort, boxVars
  <2> QED BY <1>10, <2>1, UncountKeeps
<1>11. ASSUME NEW s \in Seqs, ClientThread(s) PROVE QueuedExact'
  <2>1. CASE SubmitPush(s) \/ SubmitCount(s) BY <2>1, SubmitKeeps
  <2>2. CASE SubmitEnter(s) \/ SubmitDepth(s) \/ RequestAbort(s)
    <3>1. /\ UNCHANGED <<vars, queued, inbox>>
          /\ \E w : client' = [client EXCEPT ![s] = w] /\ w # "count"
          /\ client[s] # "count"
      BY <2>2 DEF SubmitEnter, SubmitDepth, RequestAbort, boxVars
    <3>2. Uncounted' = Uncounted BY <1>0, <3>1 DEF Uncounted
    <3>3. status' = status BY <3>1 DEF vars, schedVars, requestVars
    <3> QED BY <3>1, <3>2, <3>3, UncountedKept
  <2> QED BY <1>11, <2>1, <2>2 DEF ClientThread, Submit
<1> QED BY <1>3, <1>4, <1>5, <1>6, <1>7, <1>8, <1>9, <1>10, <1>11 DEF EngineNext, EngineThread

\* queued_ starts at zero, with nothing handed over.
LEMMA InitCount == ASSUME EngineInit PROVE QueuedExact
<1>1. Init /\ inbox = <<>> /\ queued = 0 /\ client = [s \in Seqs |-> "new"] BY DEF EngineInit
<1>2. status = [s \in Seqs |-> "new"] BY <1>1 DEF Init
<1>3. Unanswered = {} /\ Uncounted = {} BY <1>1, <1>2 DEF Unanswered, Uncounted
<1>4. Cardinality(Unanswered) = 0 /\ Cardinality(Uncounted) = 0 BY <1>3, FS_EmptySet
<1>5. queued + Cardinality(Uncounted) = Len(inbox) + Cardinality(Unanswered) BY <1>1, <1>4
<1> QED BY <1>5 DEF QueuedExact, Unanswered, Uncounted

\* With continuous batching queued_ is the number of requests handed over and not
\* answered, but for those whose submit() has still to increment it: the load shedding
\* and the stall watchdog count what is there, for any number of clients, whatever they
\* abort, however the owner shuts down and wherever the backend throws.
THEOREM QueueCountExact == ASSUME Continuous PROVE EngineSpec => []QueuedExact
<1>1. EngineInit => QueuedExact BY InitCount
<1>2. EngineInv /\ QueuedExact /\ [EngineNext]_allVars => QueuedExact' BY NextCount
<1> QED BY <1>1, <1>2, EngineSafe, PTL DEF EngineSpec

-----------------------------------------------------------------------------
(* Health.                                                                 *)

\* The self-check of the gauges adds up.
LEMMA AlwaysBalanced == ASSUME TypeOK PROVE balanced
<1>1. Cardinality(Blocks) \in Nat /\ Cardinality(free) \in Nat
  <2>1. IsFiniteSet(Blocks) /\ free \in SUBSET Blocks BY KVAssumption DEF TypeOK
  <2>2. IsFiniteSet(free) BY <2>1, FS_Subset
  <2> QED BY <2>1, <2>2, FS_CardinalityType
<1>2. Len(lru) \in Nat BY DEF TypeOK
<1> QED BY <1>1, <1>2 DEF balanced, num_used_blocks

\* An engine without work reports itself alive however long it has been quiet, and one
\* that was stopped or has died does not: no idle pod is restarted and no dead one kept.
THEOREM IdleHealthy == ASSUME Continuous PROVE EngineSpec => []IdleIsHealthy
<1>1. ASSUME EngineInv, QueuedExact, ExitReason PROVE IdleIsHealthy
  <2>0. EngineTypeOK /\ SchedTypeOK /\ TypeOK /\ Queues
    BY <1>1, ScheduledTypes DEF EngineInv, SchedTypeInv, TypeInv, Scheduled, FlushInv, SchedInv
  <2>1. ASSUME ~fatal, loop_running, inbox = <<>>, waiting = <<>>, running = <<>>, done = <<>>
        PROVE  health.alive
    <3>1. Members(waiting) = {} /\ Members(running) = {} /\ Members(done) = {} BY <2>1 DEF Members
    <3>2. Unanswered = {} BY <2>0, <3>1 DEF Unanswered, Queues
    <3>3. Cardinality(Unanswered) = 0 BY <3>2, FS_EmptySet
    <3>4. queued + Cardinality(Uncounted) = 0
      <4>1. queued + Cardinality(Uncounted) = Len(inbox) + Cardinality(Unanswered)
        BY <1>1 DEF QueuedExact, Unanswered, Uncounted
      <4> QED BY <2>1, <3>3, <4>1
    <3>5. queued \in Int BY <2>0 DEF EngineTypeOK
    <3>6. ~(queued > 0) BY <3>4, <3>5, CountedFinite
    <3>7. balanced BY <2>0, AlwaysBalanced
    <3> QED BY <2>1, <3>6, <3>7 DEF health
  <2>2. ASSUME loop = "ended", ~draining PROVE ~health.alive
    BY <1>1, <2>2 DEF ExitReason, health
  <2> QED BY <2>1, <2>2 DEF IdleIsHealthy
<1>2. EngineInv /\ QueuedExact /\ ExitReason => IdleIsHealthy BY <1>1
<1> QED BY <1>2, ServedSafe, QueueCountExact, PTL


=============================================================================
