------------------------------- MODULE Engine -------------------------------
(***************************************************************************)
(* The threads around the scheduler (api/engine.cpp).  Client threads call *)
(* submit() and abort(), the owner calls drain() or stop(), the engine     *)
(* thread runs run_loop(): empty the inbox, take a step, look at the flags *)
(* again, and on the way out release what is left.                         *)
(*                                                                         *)
(* Flags and the request counter are atomics, read and written one at a    *)
(* time.  inbox_mu_ is held over one append by a client and from the       *)
(* emptiness test to the end of the intake by the engine thread, so it is  *)
(* taken exactly while loop = "intake".  The wait on inbox_cv_ is bounded  *)
(* by 500 ms: it may end at any time, whether notified or not.             *)
(*                                                                         *)
(* Of the clock the watchdog only sees whether the last stamp is older     *)
(* than stall_timeout_seconds; that may come to be at any time.            *)
(***************************************************************************)
EXTENDS Scheduler

CONSTANTS
    MaxQueueDepth,   \* cfg_.max_queue_depth, 0 for no limit
    Shutdowns,       \* what the owner may call: "drain", "stop"
    MayThrow         \* the model's forward() may throw

ASSUME EngineAssumption ==
    /\ MaxQueueDepth \in Nat
    /\ Shutdowns \subseteq {"drain", "stop"}
    /\ MayThrow \in BOOLEAN

VARIABLES
    accepting,       \* accepting_
    loop_running,    \* running_
    draining,        \* draining_
    fatal,           \* fatal_error_ is set, ready_ is not
    stale,           \* last_progress_us_ is older than stall_timeout_seconds
    inbox,           \* inbox_
    abort_inbox,     \* abort_inbox_
    queued,          \* queued_
    loop,            \* place of the engine thread in run() and run_loop()
    client,          \* place in submit() of the thread serving each request
    owner            \* place of the owner in drain() or stop()

flagVars == <<accepting, loop_running, draining, fatal, stale>>
boxVars == <<inbox, abort_inbox>>
engineVars == <<flagVars, boxVars, queued, loop, client, owner>>
allVars == <<vars, engineVars>>

-----------------------------------------------------------------------------
(* submit() and abort(), on a client's thread.                             *)

SubmitEnter(s) ==
    /\ client[s] = "new"
    /\ client' = [client EXCEPT ![s] = IF accepting THEN "depth" ELSE "draining"]
    /\ UNCHANGED <<vars, flagVars, boxVars, queued, loop, owner>>

\* Load shedding.
SubmitDepth(s) ==
    /\ client[s] = "depth"
    /\ client' = [client EXCEPT ![s] =
           IF MaxQueueDepth > 0 /\ queued >= MaxQueueDepth THEN "overloaded" ELSE "push"]
    /\ UNCHANGED <<vars, flagVars, boxVars, queued, loop, owner>>

SubmitPush(s) ==
    /\ client[s] = "push"
    /\ loop # "intake"
    /\ inbox' = Append(inbox, s)
    /\ client' = [client EXCEPT ![s] = "count"]
    /\ UNCHANGED <<vars, flagVars, abort_inbox, queued, loop, owner>>

\* queued_ is incremented when the request is in the inbox, and may be served,
\* already.
SubmitCount(s) ==
    /\ client[s] = "count"
    /\ queued' = queued + 1
    /\ client' = [client EXCEPT ![s] = "accepted"]
    /\ UNCHANGED <<vars, flagVars, boxVars, loop, owner>>

\* The client of an accepted request went away.
RequestAbort(s) ==
    /\ client[s] = "accepted"
    /\ loop # "intake"
    /\ abort_inbox' = Append(abort_inbox, s)
    /\ client' = [client EXCEPT ![s] = "gone"]
    /\ UNCHANGED <<vars, flagVars, inbox, queued, loop, owner>>

-----------------------------------------------------------------------------
(* drain() and stop(), on the owner's thread.                              *)

\* Both start by refusing requests; the owner is then at its second store.
BeginShutdown ==
    /\ owner = "serving"
    /\ accepting' = FALSE
    /\ owner' \in Shutdowns
    /\ UNCHANGED <<vars, loop_running, draining, fatal, stale, boxVars, queued, loop, client>>

DrainFlag ==
    /\ owner = "drain"
    /\ draining' = TRUE
    /\ owner' = "join_drain"
    /\ UNCHANGED <<vars, accepting, loop_running, fatal, stale, boxVars, queued, loop, client>>

StopFlag ==
    /\ owner = "stop"
    /\ loop_running' = FALSE
    /\ owner' = "join"
    /\ UNCHANGED <<vars, accepting, draining, fatal, stale, boxVars, queued, loop, client>>

\* The engine thread has ended; drain() then clears running_.
Join ==
    /\ loop = "ended"
    /\ \/ owner = "join" /\ UNCHANGED loop_running
       \/ owner = "join_drain" /\ loop_running' = FALSE
    /\ owner' = "done"
    /\ UNCHANGED <<vars, accepting, draining, fatal, stale, boxVars, queued, loop, client>>

-----------------------------------------------------------------------------
(* The watchdog.                                                           *)

mark_progress(yes) ==
    /\ stale' = IF yes THEN FALSE ELSE stale
    /\ UNCHANGED <<accepting, loop_running, draining, fatal>>

\* stall_timeout_seconds have passed since the last stamp.
TimePasses ==
    /\ loop # "ended"
    /\ ~stale
    /\ stale' = TRUE
    /\ UNCHANGED <<vars, accepting, loop_running, draining, fatal, boxVars, queued, loop,
                   client, owner>>

num_used_blocks == Cardinality(Blocks) - Cardinality(free) - Len(lru)

\* The self-check of refresh_gauges(); used blocks being what the others leave, it
\* cannot fail, and invariants_ok_ is never cleared.
balanced ==
    Cardinality(free) + Len(lru) + num_used_blocks = Cardinality(Blocks)

\* Mutant: a loop that has not been seen for long has stalled, whether it has work or not.
health_quiet ==
    LET alive == ~fatal /\ loop_running /\ ~stale /\ balanced
    IN  [alive |-> alive, ready |-> alive /\ accepting]

health ==
    LET stalled == queued > 0 /\ stale
        alive == ~fatal /\ loop_running /\ ~stalled /\ balanced
    IN  [alive |-> alive, ready |-> alive /\ accepting]

-----------------------------------------------------------------------------
(* run_loop(), on the engine thread.                                       *)

\* Mutant: only a sequence that was running is counted out.
Uncount_running ==
    queued' = queued - Cardinality({s \in Members(running) : terminals'[s] # terminals[s]})

\* The wrapped callback decrements queued_ with every terminal callback.
Uncount == queued' = queued - Cardinality({s \in Seqs : terminals'[s] # terminals[s]})

\* while (running_)
LoopTop ==
    /\ loop = "top"
    /\ loop' = IF loop_running THEN "pull" ELSE "exit"
    /\ UNCHANGED <<vars, flagVars, boxVars, queued, client, owner>>

NothingToDo == ~has_work /\ inbox = <<>> /\ abort_inbox = <<>>

\* Mutant: a draining loop leaves although the inbox holds a request.
DrainExit_inbox == draining /\ ~has_work

\* Mutant: the loop does not look at draining_.
DrainExit_never == FALSE

DrainExit == draining /\ NothingToDo

\* inbox_mu_ is taken; it is kept if there is something to do.
Pull ==
    /\ loop = "pull"
    /\ \/ DrainExit /\ loop' = "exit"
       \/ NothingToDo /\ ~DrainExit /\ loop' = "wait"
       \/ ~NothingToDo /\ ~DrainExit /\ loop' = "intake"
    /\ mark_progress(loop' = "wait")
    /\ UNCHANGED <<vars, boxVars, queued, client, owner>>

\* The bounded wait ends, by a notification or by its timeout.
Wake ==
    /\ loop = "wait"
    /\ loop' = IF ~loop_running THEN "exit" ELSE IF NothingToDo THEN "top" ELSE "intake"
    /\ mark_progress(loop' = "top")
    /\ UNCHANGED <<vars, boxVars, queued, client, owner>>

\* The box when its first entry has been dealt with; the code clears it at the end,
\* under the same lock.
Taken(q) == Tail(q)

TakeRequest ==
    /\ loop = "intake"
    /\ inbox # <<>>
    /\ \E r \in Requests[Head(inbox)] : add(Head(inbox), r)
    /\ inbox' = Taken(inbox)
    /\ UNCHANGED <<flagVars, abort_inbox, queued, loop, client, owner>>

\* abort(id) of the scheduler; a request that has finished meanwhile is not found.
TakeAbort ==
    /\ loop = "intake" /\ call = Idle
    /\ inbox = <<>> /\ abort_inbox # <<>>
    /\ LET s == Head(abort_inbox)
       IN  \/ AbortWaiting(s) /\ UNCHANGED stepVars
           \/ AbortRunning(s) /\ UNCHANGED stepVars
           \/ s \notin Members(waiting) \union Members(running) /\ UNCHANGED vars
    /\ abort_inbox' = Taken(abort_inbox)
    /\ Uncount
    /\ UNCHANGED <<flagVars, inbox, loop, client, owner>>

IntakeDone ==
    /\ loop = "intake" /\ call = Idle
    /\ inbox = <<>> /\ abort_inbox = <<>>
    /\ loop' = IF has_work THEN "step" ELSE "top"
    /\ mark_progress(~has_work)
    /\ UNCHANGED <<vars, boxVars, queued, client, owner>>

StepBegin ==
    /\ loop = "step"
    /\ BeginSchedule
    /\ loop' = "run"
    /\ UNCHANGED <<flagVars, boxVars, queued, client, owner>>

\* The step is "busy" from the forward pass on, if it is not empty.
StepRuns ==
    /\ loop \in {"run", "busy"}
    /\ WithinStep
    /\ Uncount
    /\ loop' = IF pc' = "forward" THEN "busy" ELSE loop
    /\ UNCHANGED <<flagVars, boxVars, client, owner>>

\* A step is over; an empty one that leaves work behind is no progress.
StepEnd ==
    /\ loop \in {"run", "busy"}
    /\ EngineIdle
    /\ loop' = "top"
    /\ mark_progress(loop = "busy" \/ ~has_work)
    /\ UNCHANGED <<vars, boxVars, queued, client, owner>>

\* The backend throws: run() catches, and releases like the regular exit does.
Throw ==
    /\ MayThrow
    /\ loop = "busy" /\ pc = "forward"
    /\ fatal' = TRUE /\ accepting' = FALSE /\ loop_running' = FALSE
    /\ loop' = "exit"
    /\ pc' = "idle" /\ slices' = <<>> /\ cursor' = 1
    /\ UNCHANGED <<kvVars, queueVars, requestVars, budget, mid_prefill, decode, done,
                   draining, stale, boxVars, queued, client, owner>>

-----------------------------------------------------------------------------
(* The way out: release what the scheduler holds.                          *)

ExitAbort ==
    /\ loop = "exit" /\ call = Idle
    /\ running # <<>>
    /\ AbortRunning(Head(running))
    /\ Uncount
    /\ UNCHANGED <<stepVars, flagVars, boxVars, loop, client, owner>>

\* Mutant: what is queued is not released.
FlushMore_none == FALSE

FlushMore == waiting # <<>>

\* while (num_waiting() > 0) schedule ...
ExitFlush ==
    /\ loop = "exit" /\ EngineIdle
    /\ running = <<>>
    /\ \/ FlushMore /\ BeginSchedule /\ loop' = "flush"
       \/ ~FlushMore /\ UNCHANGED vars /\ loop' = "ended"
    /\ UNCHANGED <<flagVars, boxVars, queued, client, owner>>

FlushRuns ==
    /\ loop = "flush"
    /\ pc \notin {"idle", "forward"}
    /\ WithinStep
    /\ Uncount
    /\ UNCHANGED <<flagVars, boxVars, loop, client, owner>>

\* ... and abort what it has scheduled.
FlushAbort ==
    /\ loop = "flush" /\ pc = "forward" /\ call = Idle
    /\ AbortRunning(Head(slices).seq)
    /\ slices' = Tail(slices)
    /\ pc' = IF Len(slices) = 1 THEN "idle" ELSE "forward"
    /\ loop' = IF Len(slices) = 1 THEN "exit" ELSE "flush"
    /\ Uncount
    /\ UNCHANGED <<budget, mid_prefill, decode, cursor, done, flagVars, boxVars, client, owner>>

\* An empty step ends the flush.
FlushEmpty ==
    /\ loop = "flush" /\ EngineIdle
    /\ loop' = "ended"
    /\ UNCHANGED <<vars, flagVars, boxVars, queued, client, owner>>

-----------------------------------------------------------------------------
\* start() has returned.
EngineInit ==
    /\ Init
    /\ accepting = TRUE /\ loop_running = TRUE /\ draining = FALSE /\ fatal = FALSE
    /\ stale = FALSE
    /\ inbox = <<>> /\ abort_inbox = <<>> /\ queued = 0
    /\ loop = "top"
    /\ client = [s \in Seqs |-> "new"]
    /\ owner = "serving"

EngineThread ==
    \/ ManagerStep /\ UNCHANGED engineVars
    \/ LoopTop \/ Pull \/ Wake \/ TakeRequest \/ TakeAbort \/ IntakeDone
    \/ StepBegin \/ StepRuns \/ StepEnd \/ Throw
    \/ ExitAbort \/ ExitFlush \/ FlushRuns \/ FlushAbort \/ FlushEmpty

Submit(s) == SubmitEnter(s) \/ SubmitDepth(s) \/ SubmitPush(s) \/ SubmitCount(s)

ClientThread(s) == Submit(s) \/ (s \in Aborts /\ RequestAbort(s))

OwnerThread == BeginShutdown \/ DrainFlag \/ StopFlag \/ Join

EngineNext == EngineThread \/ OwnerThread \/ TimePasses \/ \E s \in Seqs : ClientThread(s)

EngineSpec == EngineInit /\ [][EngineNext]_allVars

\* The engine thread is scheduled, and a call the owner or a client has begun is
\* executed to its end.
FairEngineSpec ==
    /\ EngineSpec
    /\ WF_allVars(EngineThread)
    /\ WF_allVars(DrainFlag \/ StopFlag \/ Join)
    /\ \A s \in Seqs : WF_allVars(client[s] # "new" /\ Submit(s))

-----------------------------------------------------------------------------
(* Properties.                                                             *)

\* queued_, which load shedding and the stall watchdog rely on, is the number of
\* requests that were handed over and not answered, but for those whose submit()
\* has not come to the increment yet.
QueuedExact ==
    queued + Cardinality({s \in Seqs : client[s] = "count"})
      = Len(inbox) + Cardinality({s \in Seqs : status[s] \in {"waiting", "running"}})

\* When the engine thread has ended, the scheduler holds no request and the pool is
\* whole again: "Abort whatever is left so waiting clients are released" (run_loop).
EndReleasesScheduler ==
    loop = "ended" =>
        /\ \A s \in Seqs : status[s] \in {"new", "finished"} /\ blocks[s] = <<>>
        /\ num_available_blocks = Cardinality(Blocks)

StopCalled == ~draining /\ owner \in {"stop", "join", "done"}

\* What is in the inbox while the loop turns is answered, draining or not, unless the
\* loop dies or is stopped: and not by an abort, if its client has not asked for one.
InboxServed ==
    \A s \in Seqs :
        s \in Members(inbox) /\ loop \notin {"exit", "flush", "ended"}
            ~> \/ is_finished(s) /\ (finish[s] = "abort" => client[s] = "gone")
               \/ fatal \/ StopCalled

\* An engine that has nothing to do is alive, however long it has been quiet, and one
\* that has ended is not: "an engine with an empty queue is healthy however long it has
\* been quiet ... reporting that as dead would crash-loop an idle pod" (health).
IdleIsHealthy ==
    /\ ~fatal /\ loop_running /\ inbox = <<>> /\ waiting = <<>> /\ running = <<>> /\ done = <<>>
          => health.alive
    /\ loop = "ended" /\ ~draining => ~health.alive

\* drain() and stop() return.
ShutdownReturns == owner # "serving" ~> owner = "done"

\* Every accepted request is answered before the engine thread ends: "Submissions
\* during the drain must be refused rather than silently dropped"
\* (test_engine_concurrency.cpp), "release every waiting client" (run).
AcceptedReleased ==
    loop = "ended" => \A s \in Seqs : client[s] \in {"accepted", "gone"} => is_finished(s)

=============================================================================
