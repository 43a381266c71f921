---------------------------- MODULE BatchProcessor ----------------------------
(***************************************************************************)
(* inference/batch_processor.py: callers of submit put items on an         *)
(* unbounded asyncio.PriorityQueue; the loops that start() spawned take    *)
(* them off in batches, let the engine work on a batch concurrently and    *)
(* resolve the futures the callers await; stop() lowers a flag and joins   *)
(* the queue.  All of it runs on one event loop, so an action is what one  *)
(* task does between two awaits.                                           *)
(*                                                                         *)
(* Any number of loops can be alive: start() spawns one every time, and a  *)
(* loop that saw stop() late keeps running after the next start().         *)
(***************************************************************************)
EXTENDS Integers, FiniteSets, SequencesExt

CONSTANTS
    Requests,     \* calls of submit, each made once
    Loops,        \* bound: calls of start, each spawns one _process_loop task
    BatchSize,    \* batch_size
    High,         \* the requests submitted with Priority.HIGH
    Cancellable   \* the requests whose caller may be cancelled while waiting

ASSUME BatchSizeAssumption == BatchSize \in Nat \ {0}

ASSUME RequestsAssumption ==
    /\ IsFiniteSet(Requests)
    /\ High \subseteq Requests
    /\ Cancellable \subseteq Requests

\* start() is called finitely often.
ASSUME LoopsAssumption == IsFiniteSet(Loops)

VARIABLES
    running,         \* self._running
    queue,           \* the items on self._queue
    unfinished,      \* self._queue._unfinished_tasks
    future,          \* item.future
    given,           \* the outcomes that item.future was given, and whose
    caller,          \* how each call of submit stands
    infer,           \* the engine.infer task of each item
    loop,            \* where each _process_loop task is
    batch,           \* its local variable `batch`: items taken, not yet flushed
    stopper,         \* where the call of stop is
    totalProcessed   \* self._total_processed

vars == <<running, queue, unfinished, future, given, caller, infer, loop, batch,
          stopper, totalProcessed>>

-----------------------------------------------------------------------------
Init ==
    /\ running = FALSE
    /\ queue = {}
    /\ unfinished = 0
    /\ future = [r \in Requests |-> "none"]
    /\ given  = [r \in Requests |-> {}]
    /\ caller = [r \in Requests |-> "idle"]
    /\ infer  = [r \in Requests |-> "none"]
    /\ loop   = [l \in Loops |-> "unborn"]
    /\ batch  = [l \in Loops |-> <<>>]
    /\ stopper = "idle"
    /\ totalProcessed = 0

\* put() on an unbounded queue does not suspend: the item is on the queue by
\* the time the caller awaits its future.
Submit(r) ==
    /\ caller[r] = "idle"
    /\ caller' = [caller EXCEPT ![r] = "waiting"]
    /\ future' = [future EXCEPT ![r] = "pending"]
    /\ queue' = queue \cup {r}
    /\ unfinished' = unfinished + 1
    /\ UNCHANGED <<running, given, infer, loop, batch, stopper, totalProcessed>>

\* The future is resolved and submit ends with its result or its exception.
Resume(r) ==
    /\ caller[r] = "waiting"
    /\ \/ future[r] = "result" /\ caller' = [caller EXCEPT ![r] = "returned"]
       \/ future[r] = "error"  /\ caller' = [caller EXCEPT ![r] = "raised"]
    /\ UNCHANGED <<running, queue, unfinished, future, given, infer, loop,
                   batch, stopper, totalProcessed>>

\* Cancelling a task cancels the future it awaits; the item stays where it is.
CancelCaller(r) ==
    /\ r \in Cancellable
    /\ caller[r] = "waiting"
    /\ caller' = [caller EXCEPT ![r] = "cancelled"]
    /\ future' = [future EXCEPT ![r] = IF @ = "pending" THEN "cancelled" ELSE @]
    /\ UNCHANGED <<running, queue, unfinished, given, infer, loop, batch,
                   stopper, totalProcessed>>

-----------------------------------------------------------------------------
Start(l) ==
    /\ loop[l] = "unborn"
    /\ running' = TRUE
    /\ loop' = [loop EXCEPT ![l] = "created"]
    /\ UNCHANGED <<queue, unfinished, future, given, caller, infer, batch,
                   stopper, totalProcessed>>

\* join() does not suspend when every item put was already marked done.
StopCall ==
    /\ stopper = "idle"
    /\ running' = FALSE
    /\ stopper' = IF unfinished = 0 THEN "released" ELSE "joining"
    /\ UNCHANGED <<queue, unfinished, future, given, caller, infer, loop, batch,
                   totalProcessed>>

\* stop() returns, and may be called again later.
StopReturn ==
    /\ stopper = "released"
    /\ stopper' = "idle"
    /\ UNCHANGED <<running, queue, unfinished, future, given, caller, infer,
                   loop, batch, totalProcessed>>

-----------------------------------------------------------------------------
(* The processing loop.                                                    *)

WhileRunning_Forever(l) == loop' = [loop EXCEPT ![l] = "getting"]

\* The test of `while self._running`.
WhileRunning(l) ==
    loop' = [loop EXCEPT ![l] = IF running THEN "getting" ELSE "exited"]

LoopBegin(l) ==
    /\ loop[l] = "created"
    /\ WhileRunning(l)
    /\ UNCHANGED <<running, queue, unfinished, future, given, caller, infer,
                   batch, stopper, totalProcessed>>

\* The items get() may return next: the heap compares priorities only, so
\* those of one priority come in no particular order.
Poppable(q) == IF q \cap High # {} THEN q \cap High ELSE q

GetFirst_Peek(l) ==
    /\ loop[l] = "getting"
    /\ \E r \in Poppable(queue) : batch' = [batch EXCEPT ![l] = <<r>>]
    /\ loop' = [loop EXCEPT ![l] = "collecting"]
    /\ UNCHANGED <<running, queue, unfinished, future, given, caller, infer,
                   stopper, totalProcessed>>

GetFirst(l) ==
    /\ loop[l] = "getting"
    /\ \E r \in Poppable(queue) :
          /\ queue' = queue \ {r}
          /\ batch' = [batch EXCEPT ![l] = <<r>>]
    /\ loop' = [loop EXCEPT ![l] = "collecting"]
    /\ UNCHANGED <<running, unfinished, future, given, caller, infer, stopper,
                   totalProcessed>>

\* wait_for times out.  While running the loop only tries again; the timer may
\* win the race against an item that has just been put.
TimeoutExit(l) ==
    /\ loop[l] = "getting"
    /\ ~running
    /\ WhileRunning(l)
    /\ UNCHANGED <<running, queue, unfinished, future, given, caller, infer,
                   batch, stopper, totalProcessed>>

\* What up to n calls of get_nowait may take off the queue, in order.
Pops(q, n) ==
    {s \in UNION {[1..m -> q] : m \in 0..n} :
        /\ IsInjective(s)
        /\ Len(s) < n => ToSet(s) = q
        /\ \A i \in 1..Len(s) : s[i] \in Poppable(q \ {s[j] : j \in 1..(i - 1)})}

Collect_WaitUntilFull(l) ==
    /\ loop[l] = "collecting"
    /\ \E more \in Pops(queue, BatchSize - 1) :
          LET taken == batch[l] \o more IN
          /\ Len(taken) = BatchSize
          /\ batch' = [batch EXCEPT ![l] = taken]
          /\ queue' = queue \ ToSet(more)
          /\ infer' = [r \in Requests |->
                         IF r \in ToSet(taken) THEN "running" ELSE infer[r]]
    /\ loop' = [loop EXCEPT ![l] = "flushing"]
    /\ UNCHANGED <<running, unfinished, future, given, caller, stopper,
                   totalProcessed>>

\* The rest of the batch is collected without waiting, and _flush_batch starts
\* one inference task per item.
Collect(l) ==
    /\ loop[l] = "collecting"
    /\ \E more \in Pops(queue, BatchSize - 1) :
          LET taken == batch[l] \o more IN
          /\ batch' = [batch EXCEPT ![l] = taken]
          /\ queue' = queue \ ToSet(more)
          /\ infer' = [r \in Requests |->
                         IF r \in ToSet(taken) THEN "running" ELSE infer[r]]
    /\ loop' = [loop EXCEPT ![l] = "flushing"]
    /\ UNCHANGED <<running, unfinished, future, given, caller, stopper,
                   totalProcessed>>

InferEnd(r) ==
    /\ infer[r] = "running"
    /\ \E outcome \in {"ok", "failed"} : infer' = [infer EXCEPT ![r] = outcome]
    /\ UNCHANGED <<running, queue, unfinished, future, given, caller, loop,
                   batch, stopper, totalProcessed>>

\* gather has a result or an exception for every item of the batch.
Gathered(l) ==
    /\ loop[l] = "flushing"
    /\ \A r \in ToSet(batch[l]) : infer[r] \in {"ok", "failed"}

First(s, n) == {s[i] : i \in 1..n}

Gather_LastFirst(items) ==
    [i \in DOMAIN items |-> LET r == Reverse(items)[i]
                            IN  [of |-> r, ok |-> infer[r] = "ok"]]

\* results: what the tasks came to, in the order in which gather was given them, each
\* with the request whose prompt it is the engine's answer to.
Gather(items) == [i \in DOMAIN items |-> [of |-> items[i], ok |-> infer[items[i]] = "ok"]]

\* zip(batch, results): the future of each of the first n items gets, as its result or
\* its exception, what stands at its place among the results.
Resolve(items, n) ==
    LET handed(r) == {Gather(items)[i] : i \in {j \in 1..n : items[j] = r}} IN
    /\ given'  = [r \in Requests |-> given[r] \cup handed(r)]
    /\ future' = [r \in Requests |->
                    IF handed(r) = {} THEN future[r]
                    ELSE IF \E outcome \in handed(r) : outcome.ok THEN "result"
                    ELSE "error"]

TaskDone_AlsoPerBatch(n) ==
    /\ unfinished' = unfinished - n - 1
    /\ stopper' = IF unfinished' = 0 /\ stopper = "joining"
                  THEN "released" ELSE stopper

\* n calls of task_done; the one that brings the count to zero wakes up join,
\* which does not look at the count again.
TaskDone(n) ==
    /\ unfinished' = unfinished - n
    /\ stopper' = IF unfinished' = 0 /\ stopper = "joining"
                  THEN "released" ELSE stopper

CountProcessed_All(items, n) == totalProcessed' = totalProcessed + n

\* self._total_processed += 1 for each success among the first n results.
CountProcessed(items, n) ==
    totalProcessed' = totalProcessed + Cardinality({i \in 1..n : Gather(items)[i].ok})

\* No caller gave up: every future of the batch is resolved.
Flush(l) ==
    /\ Gathered(l)
    /\ \A r \in ToSet(batch[l]) : future[r] # "cancelled"
    /\ Resolve(batch[l], Len(batch[l]))
    /\ TaskDone(Len(batch[l]))
    /\ CountProcessed(batch[l], Len(batch[l]))
    /\ batch' = [batch EXCEPT ![l] = <<>>]
    /\ WhileRunning(l)
    /\ UNCHANGED <<running, queue, caller, infer>>

FlushCrash_FinallyTaskDone(l) ==
    /\ Gathered(l)
    /\ \E n \in 1..Len(batch[l]) :
          /\ future[batch[l][n]] = "cancelled"
          /\ \A r \in First(batch[l], n - 1) : future[r] # "cancelled"
          /\ Resolve(batch[l], n - 1)
          /\ TaskDone(Len(batch[l]))
          /\ CountProcessed(batch[l], n)
          /\ batch' = [batch EXCEPT ![l] = SubSeq(@, n + 1, Len(@))]
    /\ loop' = [loop EXCEPT ![l] = "crashed"]
    /\ UNCHANGED <<running, queue, caller, infer>>

FlushCrash_ErrorEscapes(l) ==
    /\ Gathered(l)
    /\ \E n \in 1..Len(batch[l]) :
          /\ future[batch[l][n]] = "cancelled" \/ infer[batch[l][n]] = "failed"
          /\ \A r \in First(batch[l], n - 1) : future[r] # "cancelled"
          /\ Resolve(batch[l], n - 1)
          /\ TaskDone(n)
          /\ CountProcessed(batch[l], n)
          /\ batch' = [batch EXCEPT ![l] = SubSeq(@, n + 1, Len(@))]
    /\ loop' = [loop EXCEPT ![l] = "crashed"]
    /\ UNCHANGED <<running, queue, caller, infer>>

\* The n-th item is the first whose future was cancelled: set_result raises
\* InvalidStateError out of _flush_batch and out of the loop's task.  The items
\* before it are resolved, those behind it are not.
FlushCrash(l) ==
    /\ Gathered(l)
    /\ \E n \in 1..Len(batch[l]) :
          /\ future[batch[l][n]] = "cancelled"
          /\ \A r \in First(batch[l], n - 1) : future[r] # "cancelled"
          /\ Resolve(batch[l], n - 1)
          /\ TaskDone(n)
          /\ CountProcessed(batch[l], n)
          /\ batch' = [batch EXCEPT ![l] = SubSeq(@, n + 1, Len(@))]
    /\ loop' = [loop EXCEPT ![l] = "crashed"]
    /\ UNCHANGED <<running, queue, caller, infer>>

LoopStep(l) ==
    \/ LoopBegin(l) \/ GetFirst(l) \/ TimeoutExit(l) \/ Collect(l)
    \/ Flush(l) \/ FlushCrash(l)

Next ==
    \/ \E r \in Requests : Submit(r) \/ Resume(r) \/ CancelCaller(r) \/ InferEnd(r)
    \/ \E l \in Loops : Start(l) \/ LoopStep(l)
    \/ StopCall \/ StopReturn

Spec == Init /\ [][Next]_vars

\* The event loop runs every task that can go on, and every inference ends
\* (each attempt has a timeout and attempts are bounded).  Nobody has to
\* submit, to start, to stop or to give up.
FairSpec ==
    /\ Spec
    /\ \A l \in Loops : WF_vars(LoopStep(l))
    /\ \A r \in Requests : WF_vars(InferEnd(r)) /\ WF_vars(Resume(r))
    /\ WF_vars(StopReturn)
-----------------------------------------------------------------------------
(* Properties.                                                             *)

TypeOK ==
    /\ running \in BOOLEAN
    /\ queue \subseteq Requests
    /\ unfinished \in Nat
    /\ future \in [Requests -> {"none", "pending", "result", "error", "cancelled"}]
    /\ given  \in [Requests -> SUBSET [of : Requests, ok : BOOLEAN]]
    /\ caller \in [Requests -> {"idle", "waiting", "returned", "raised", "cancelled"}]
    /\ infer  \in [Requests -> {"none", "running", "ok", "failed"}]
    /\ loop   \in [Loops -> {"unborn", "created", "getting", "collecting",
                             "flushing", "exited", "crashed"}]
    /\ batch  \in [Loops -> Seq(Requests)]
    /\ stopper \in {"idle", "joining", "released"}
    /\ totalProcessed \in Nat

InBatches == UNION {ToSet(batch[l]) : l \in Loops}
Held == queue \cup InBatches

\* However many loops share the queue, an item is on the queue or in the hands
\* of one loop, once: no prompt is sent to the engine twice and no future is
\* resolved twice.
HeldOnce ==
    /\ queue \cap InBatches = {}
    /\ \A l \in Loops : IsInjective(batch[l])
    /\ \A l, m \in Loops : l # m => ToSet(batch[l]) \cap ToSet(batch[m]) = {}

\* join() counts exactly the items somebody still holds, and every caller whose
\* future is pending is among them: nothing put on the queue drops out of sight.
UnfinishedIsHeld ==
    /\ unfinished = Cardinality(Held)
    /\ \A r \in Requests : future[r] = "pending" => r \in Held

\* total_processed is the number of flushed items whose inference succeeded,
\* those included whose caller was gone by then.
ProcessedIsFlushed ==
    totalProcessed = Cardinality({r \in Requests \ Held : infer[r] = "ok"})

\* Only a caller that gave up kills a loop, and each one kills at most one: a
\* failing inference never does.
CrashesAreCancellations ==
    Cardinality({l \in Loops : loop[l] = "crashed"})
       <= Cardinality({r \in Requests \ Held : future[r] = "cancelled"})

\* When stop() gets through the join, no caller is left without an answer.
StopMeansDrained ==
    [][stopper # "released" /\ stopper' = "released"
       => \A r \in Requests : future'[r] # "pending"]_vars

\* Callers, inferences and loops by how far they still have to go.
IdleCallers  == {r \in Requests : caller[r] = "idle"}
OpenCallers  == {r \in Requests : caller[r] \in {"idle", "waiting"}}
NewPrompts   == {r \in Requests : infer[r] = "none"}
OpenPrompts  == {r \in Requests : infer[r] \in {"none", "running"}}
ForwardLoops == {l \in Loops : loop[l] \in {"unborn", "collecting"}}
EngagedLoops == {l \in Loops : loop[l] \in {"unborn", "created", "collecting",
                                           "flushing"}}
ActiveLoops  == {l \in Loops : loop[l] \in {"unborn", "created", "getting",
                                           "collecting", "flushing"}}

\* How much is left to do.
WorkLeft ==
    4 * Cardinality(IdleCallers) + Cardinality(OpenCallers) + 3 * Cardinality(queue)
    + Cardinality(NewPrompts) + Cardinality(OpenPrompts)
    + Cardinality(ForwardLoops) + Cardinality(EngagedLoops) + Cardinality(ActiveLoops)

\* Nothing is done in vain: whatever loops, callers and the engine do next, in
\* whatever order, brings them nearer to having nothing left to do, and stop()
\* makes no work.  So no two of them can keep each other busy for ever (an idle
\* loop's timeouts apart, which are no steps while it is running).
WorkRunsOut ==
    [][/\ WorkLeft' <= WorkLeft
       /\ WorkLeft' = WorkLeft => StopCall \/ StopReturn]_vars

Alive(l) == loop[l] \notin {"unborn", "exited", "crashed"}

\* The item of a crashed loop's batch that nobody will resolve, or an item on
\* the queue that no loop is there to take.
Stranded(r) ==
    \/ r \in queue /\ \A l \in Loops : ~Alive(l)
    \/ \E l \in Loops : loop[l] = "crashed" /\ r \in ToSet(batch[l])

\* A caller waits forever only if its item is stranded.
AnsweredUnlessStranded ==
    \A r \in Requests :
       future[r] = "pending" ~> future[r] # "pending" \/ Stranded(r)

\* After the last stop() every loop comes to its end.
LoopsEnd ==
    <>[]~running => <>[](\A l \in Loops : ~Alive(l))

\* stop(): "Signal the processing loop to stop after draining the queue."  Called
\* while a loop is alive, and if nothing is submitted after the call, it gets
\* through the join.
StopDrains ==
    [](stopper # "idle" => \A r \in Requests : caller[r] # "idle")
    => (stopper = "joining" /\ (\E l \in Loops : Alive(l)) ~> stopper = "released")

Service == INSTANCE BatchService WITH
    work <- [r \in Requests |->
               IF infer[r] # "none" THEN infer[r]
               ELSE IF caller[r] = "idle" THEN "new" ELSE "queued"],
    told <- [r \in Requests |->
               IF caller[r] \in {"returned", "raised"} THEN given[r] ELSE {}]

\* The queue, the loops and their crashes keep what BatchService promises: however
\* batches are put together and cut short, no prompt is worked on twice, and no
\* caller is told of another's outcome, nor of any before its own inference has ended.
ImplementsBatchService == Service!Spec

=============================================================================
