---- MODULE Dispatcher ----
(***************************************************************************)
(* The GPU work-queue dispatcher: callers that submit a task and wait for  *)
(* its future, worker threads that each own one pipeline entry, the        *)
(* watchdog that asks a slow worker for a recycle and ends the process     *)
(* when the request stays unhonoured, and the destructor.                  *)
(*                                                                         *)
(* Clocks are abstracted to what the code compares them with.  A deadline  *)
(* is "ahead" or "past"; a task-start time is "idle" (the 0 of the code),  *)
(* "fresh", or "overrun" (older than the request timeout plus the grace);  *)
(* the time of a recycle request is "none" (0), "recent", or "overdue"     *)
(* (older than the hard-kill margin).  Time passing is an action of each   *)
(* clock, so every order of expiries is explored.                          *)
(***************************************************************************)
EXTENDS Naturals, Sequences

CONSTANTS
  Tasks,           \* the submitted callables, one per call of submit*()
  NumWorkers,      \* entries that initialised, one worker thread each
  NoTask,          \* "holds no task"
  MaxQueue,        \* max_queue_depth_
  RequestTimeout,  \* TRUE iff a positive request timeout is configured
  RecycleEnabled,  \* recycle_enabled_: the build spec is not empty
  Wedged           \* the tasks that hang inside a CUDA call

ASSUME DispatcherAssumption ==
  /\ NumWorkers \in Nat \ {0}
  /\ MaxQueue \in Nat \ {0}
  /\ NoTask \notin Tasks
  /\ RequestTimeout \in BOOLEAN
  /\ RecycleEnabled \in BOOLEAN
  /\ Wedged \subseteq Tasks

Workers == 1 .. NumWorkers

VARIABLES
  call,        \* the caller's position in submit*() and get_with_timeout()
  deadline,    \* QueuedWork::deadline_ms of the task
  answer,      \* what the caller got
  future,      \* shared state of the task's promise
  queue,       \* queue_, the FIFO of the pool
  pc,          \* the worker's position in its loop
  held,        \* the QueuedWork the worker moved out of the queue
  flag,        \* recycle_flags_
  started,     \* task_start_ms_
  requested,   \* recycle_requested_at_ms_
  entry,       \* the worker's GpuPipelineEntry
  fault,       \* OcrPipeline::recycle_requested_
  wd,          \* the watchdog thread: position, worker index, last read
  stop,        \* stop_
  process,     \* "up" until the process ends, or the dispatcher is destroyed
  overran,     \* history: the tasks that ran past the timeout and the grace
  accused      \* history: the task each standing recycle request was made for

caller  == <<call, deadline, answer>>
work    == <<queue, pc, held>>
clocks  == <<started, requested>>
slot    == <<entry, fault>>
life    == <<stop, process>>
history == <<overran, accused>>
vars == <<caller, future, work, flag, clocks, slot, wd, life, history>>

WatchdogStates ==
  [at : {"asleep", "scan", "judge", "flag", "stamp", "exited"},
   i : Workers, seen : {"idle", "fresh", "overrun"}, task : Tasks \cup {NoTask}]
Asleep == [at |-> "asleep", i |-> 1, seen |-> "idle", task |-> NoTask]

Outcomes == {"value", "exception", "broken"}

Up == process = "up"

InQueue(t) == \E i \in 1 .. Len(queue) : queue[i] = t

Init ==
  /\ call = [t \in Tasks |-> "idle"]
  /\ deadline = [t \in Tasks |-> "none"]
  /\ answer = [t \in Tasks |-> "none"]
  /\ future = [t \in Tasks |-> "empty"]
  /\ queue = <<>>
  /\ pc = [w \in Workers |-> "wait"]
  /\ held = [w \in Workers |-> NoTask]
  /\ flag = [w \in Workers |-> FALSE]
  /\ started = [w \in Workers |-> "idle"]
  /\ requested = [w \in Workers |-> "none"]
  /\ entry = [w \in Workers |-> "ok"]
  /\ fault = [w \in Workers |-> FALSE]
  /\ wd = Asleep
  /\ stop = FALSE
  /\ process = "up"
  /\ overran = {}
  /\ accused = [w \in Workers |-> NoTask]

----------------------------------------------------------------------------
(* Callers.                                                                *)

\* The caller of t moves on.
Calls(t, from, to) == call[t] = from /\ call' = [call EXCEPT ![t] = to]

\* The call of t ends with an answer.
Returns(t, a) ==
  /\ call' = [call EXCEPT ![t] = "returned"]
  /\ answer' = [answer EXCEPT ![t] = a]

\* submit_for(): the deadline is stamped before the task is queued.
Stamp(t) ==
  /\ Up /\ ~stop /\ RequestTimeout
  /\ Calls(t, "idle", "stamped")
  /\ deadline' = [deadline EXCEPT ![t] = "ahead"]
  /\ UNCHANGED <<answer, future, work, flag, clocks, slot, wd, life, history>>

\* submit_with_deadline_(): a stamped call, or submit() with deadline 0.
Enqueue(t) ==
  /\ Up /\ ~stop
  /\ call[t] \in {"idle", "stamped"}
  /\ \/ /\ Len(queue) >= MaxQueue
        /\ Returns(t, "exhausted")
        /\ UNCHANGED queue
     \/ /\ Len(queue) < MaxQueue
        /\ call' = [call EXCEPT ![t] = "queued"]
        /\ queue' = Append(queue, t)
        /\ UNCHANGED answer
  /\ UNCHANGED <<deadline, future, pc, held, flag, clocks, slot, wd, life, history>>

\* get_with_timeout(): wait_for starts its clock here, after the enqueue.
BeginWait(t) ==
  /\ Up
  /\ Calls(t, "queued", "waiting")
  /\ UNCHANGED <<deadline, answer, future, work, flag, clocks, slot, wd, life, history>>

\* wait_for timed out: TimeoutError, and the future is abandoned.  The wait
\* began after the stamp but has a finer clock, so the task's own deadline
\* may be on either side of it.
GiveUp(t) ==
  /\ Up
  /\ call[t] = "waiting" /\ deadline[t] # "none" /\ future[t] = "empty"
  /\ Returns(t, "timeout")
  /\ UNCHANGED <<deadline, future, work, flag, clocks, slot, wd, life, history>>

\* future.get(): the value, the task's exception, or a broken promise.
TakeAnswer(t) ==
  /\ Up
  /\ call[t] = "waiting" /\ future[t] # "empty"
  /\ Returns(t, future[t])
  /\ UNCHANGED <<deadline, future, work, flag, clocks, slot, wd, life, history>>

Caller(t) == Stamp(t) \/ Enqueue(t) \/ BeginWait(t) \/ GiveUp(t) \/ TakeAnswer(t)

----------------------------------------------------------------------------
(* Worker threads.                                                         *)

\* Worker w goes from one position of its loop to another.
Goes(w, from, to) == pc[w] = from /\ pc' = [pc EXCEPT ![w] = to]

\* Mutant: queue_.pop() is missing after the move.
PopForgotten == queue
AfterPop == Tail(queue)

Pop(w) ==
  /\ Up /\ queue # <<>>
  /\ Goes(w, "wait", "popped")
  /\ held' = [held EXCEPT ![w] = Head(queue)]
  /\ queue' = AfterPop
  /\ UNCHANGED <<caller, future, flag, clocks, slot, wd, life, history>>

MayLeave == queue = <<>> /\ stop

Exit(w) ==
  /\ Up /\ MayLeave
  /\ Goes(w, "wait", "exited")
  /\ UNCHANGED <<caller, future, queue, held, flag, clocks, slot, wd, life, history>>

\* flag->exchange(false), then maybe_recycle_(): the old pipeline is torn
\* down first, so a rebuild that throws leaves the entry without one.
Recycle(w) ==
  /\ Up
  /\ Goes(w, "popped", "ready")
  /\ flag' = [flag EXCEPT ![w] = FALSE]
  /\ \/ /\ flag[w]
        /\ \E built \in {"ok", "dead"} : entry' = [entry EXCEPT ![w] = built]
        /\ fault' = [fault EXCEPT ![w] = FALSE]
     \/ /\ ~flag[w]
        /\ UNCHANGED slot
  /\ UNCHANGED <<caller, future, queue, held, clocks, wd, life, history>>

\* req_at->store(0), on either side of the task.
ClearRequest(w) ==
  /\ Up
  /\ Goes(w, "ready", "cleared") \/ Goes(w, "idled", "settling")
  /\ requested' = [requested EXCEPT ![w] = "none"]
  /\ accused' = [accused EXCEPT ![w] = NoTask]
  /\ UNCHANGED <<caller, future, queue, held, flag, started, slot, wd, life, overran>>

MarkStarted(w) ==
  /\ Up
  /\ Goes(w, "cleared", "started")
  /\ started' = [started EXCEPT ![w] = "fresh"]
  /\ UNCHANGED <<caller, future, queue, held, flag, requested, slot, wd, life, history>>

Expired(t) == deadline[t] = "past"

\* The deadline passed in the queue: the task is not run.
Drop(w) ==
  /\ Up
  /\ Goes(w, "started", "finished")
  /\ Expired(held[w])
  /\ UNCHANGED <<caller, future, queue, held, flag, clocks, slot, wd, life, history>>

\* work.fn(*entry).  Every task of the program dereferences entry.pipeline;
\* without one that is undefined, and the build faults on the null object.
Run(w) ==
  /\ Up
  /\ pc[w] = "started" /\ ~Expired(held[w])
  /\ \/ /\ entry[w] = "dead"
        /\ process' = "crashed"
        /\ UNCHANGED pc
     \/ /\ entry[w] # "dead"
        /\ pc' = [pc EXCEPT ![w] = "running"]
        /\ UNCHANGED process
  /\ UNCHANGED <<caller, future, queue, held, flag, clocks, slot, wd, stop, history>>

\* Mutant: an exception escapes the loop and ends the thread.
ThrowEndsThread(out) == IF out = "exception" THEN "exited" ELSE "finished"
AfterTask(out) == "finished"

\* The packaged task stores its value or its exception; a recoverable CUDA
\* fault of the table/formula stage also asks for a rebuild of the pipeline,
\* though the task itself may have caught it and return a value.
Finish(w) ==
  /\ Up
  /\ held[w] \notin Wedged
  /\ \E out \in {"value", "exception"} :
       /\ Goes(w, "running", AfterTask(out))
       /\ future' = [future EXCEPT ![held[w]] = out]
       /\ \/ UNCHANGED slot
          \/ /\ entry' = [entry EXCEPT ![w] = "suspect"]
             /\ fault' = [fault EXCEPT ![w] = TRUE]
  /\ UNCHANGED <<caller, queue, held, flag, clocks, wd, life, history>>

MarkIdle(w) ==
  /\ Up
  /\ Goes(w, "finished", "idled")
  /\ started' = [started EXCEPT ![w] = "idle"]
  /\ UNCHANGED <<caller, future, queue, held, flag, requested, slot, wd, life, history>>

\* Mutant: a completion clears the flag even when the pipeline asked for it.
NeverConsumed(w) == FALSE
Consumed(w) == RecycleEnabled /\ entry[w] # "dead" /\ fault[w]

\* Mutant: a skipped task's promise is neither kept nor broken.
PromiseLeaks(t) == future[t]
\* Mutant: the promise is reset whatever it holds.
PromiseReset(t) == "broken"
\* A promise destroyed before it was kept breaks.
AfterDestroyed(t) == IF future[t] = "empty" THEN "broken" ELSE future[t]

\* The end of the iteration: the flag takes the pipeline's own request, which
\* also cancels a request the watchdog made; then `work` is destroyed.
Settle(w) ==
  /\ Up
  /\ Goes(w, "settling", "wait")
  /\ flag' = [flag EXCEPT ![w] = Consumed(w)]
  /\ fault' = [fault EXCEPT ![w] = @ /\ ~Consumed(w)]
  /\ future' = [future EXCEPT ![held[w]] = AfterDestroyed(held[w])]
  /\ held' = [held EXCEPT ![w] = NoTask]
  /\ UNCHANGED <<caller, queue, clocks, entry, wd, life, history>>

Worker(w) ==
  \/ Pop(w) \/ Exit(w) \/ Recycle(w) \/ ClearRequest(w) \/ MarkStarted(w)
  \/ Drop(w) \/ Run(w) \/ Finish(w) \/ MarkIdle(w) \/ Settle(w)

----------------------------------------------------------------------------
(* The watchdog thread, one relaxed atomic access per step.                *)

LastWorker == wd.i = NumWorkers

\* The loop body for worker wd.i is over; the last one ends the scan.
NextWorker ==
  IF LastWorker THEN Asleep ELSE [Asleep EXCEPT !.at = "scan", !.i = wd.i + 1]

SeesStop == stop

Wake ==
  /\ Up /\ wd.at = "asleep"
  /\ \/ SeesStop /\ wd' = [wd EXCEPT !.at = "exited"]
     \/ ~SeesStop /\ RequestTimeout /\ wd' = [wd EXCEPT !.at = "scan"]
  /\ UNCHANGED <<caller, future, work, flag, clocks, slot, life, history>>

ReadStarted ==
  /\ Up /\ wd.at = "scan"
  /\ \/ /\ started[wd.i] = "idle"
        /\ wd' = NextWorker
     \/ /\ started[wd.i] # "idle"
        /\ wd' = [wd EXCEPT !.at = "judge", !.seen = started[wd.i], !.task = held[wd.i]]
  /\ UNCHANGED <<caller, future, work, flag, clocks, slot, life, history>>

TooSlow == wd.seen = "overrun"

\* Reads the request time: an overdue request ends the process, a first
\* overrun asks for a recycle, anything else goes on to the next worker.
Judge ==
  /\ Up /\ wd.at = "judge"
  /\ \/ /\ requested[wd.i] = "overdue"
        /\ process' = "killed"
        /\ UNCHANGED wd
     \/ /\ requested[wd.i] = "none" /\ TooSlow
        /\ wd' = [wd EXCEPT !.at = "flag"]
        /\ UNCHANGED process
     \/ /\ requested[wd.i] = "recent" \/ (requested[wd.i] = "none" /\ ~TooSlow)
        /\ wd' = NextWorker
        /\ UNCHANGED process
  /\ UNCHANGED <<caller, future, work, flag, clocks, slot, stop, history>>

\* request_recycle(): without a build spec it does nothing.
RequestRecycle ==
  /\ Up /\ wd.at = "flag"
  /\ flag' = [flag EXCEPT ![wd.i] = @ \/ RecycleEnabled]
  /\ wd' = [wd EXCEPT !.at = "stamp"]
  /\ UNCHANGED <<caller, future, work, clocks, slot, life, history>>

\* Mutant: the time of the request is not recorded.
NoRequestTime == "none"
RequestTime == "recent"

StampRequest ==
  /\ Up /\ wd.at = "stamp"
  /\ requested' = [requested EXCEPT ![wd.i] = RequestTime]
  /\ accused' = [accused EXCEPT ![wd.i] = wd.task]
  /\ wd' = NextWorker
  /\ UNCHANGED <<caller, future, work, flag, started, slot, life, overran>>

Watchdog == Wake \/ ReadStarted \/ Judge \/ RequestRecycle \/ StampRequest

----------------------------------------------------------------------------
(* Time and the destructor.                                                *)

DeadlineElapses(t) ==
  /\ Up /\ deadline[t] = "ahead"
  /\ deadline' = [deadline EXCEPT ![t] = "past"]
  /\ UNCHANGED <<call, answer, future, work, flag, clocks, slot, wd, life, history>>

TaskOverruns(w) ==
  /\ Up /\ RequestTimeout
  /\ started[w] = "fresh"
  /\ started' = [started EXCEPT ![w] = "overrun"]
  /\ overran' = overran \cup {held[w]}
  /\ UNCHANGED <<caller, future, work, flag, requested, slot, wd, life, accused>>

RequestAges(w) ==
  /\ Up /\ requested[w] = "recent"
  /\ requested' = [requested EXCEPT ![w] = "overdue"]
  /\ UNCHANGED <<caller, future, work, flag, started, slot, wd, life, history>>

Time == \/ \E t \in Tasks : DeadlineElapses(t)
        \/ \E w \in Workers : TaskOverruns(w) \/ RequestAges(w)

\* ~PipelineDispatcher() raises stop_ once no caller is inside any more.
Shutdown ==
  /\ Up /\ ~stop
  /\ \A t \in Tasks : call[t] \in {"idle", "returned"}
  /\ stop' = TRUE
  /\ UNCHANGED <<caller, future, work, flag, clocks, slot, wd, process, history>>

\* It joins the watchdog, then every worker.
JoinAll ==
  /\ Up /\ stop /\ wd.at = "exited"
  /\ \A w \in Workers : pc[w] = "exited"
  /\ process' = "destroyed"
  /\ UNCHANGED <<caller, future, work, flag, clocks, slot, wd, stop, history>>

\* The process, or the dispatcher, is gone and nothing runs any more.
Ended == ~Up /\ UNCHANGED vars

----------------------------------------------------------------------------
Next ==
  \/ \E t \in Tasks : Caller(t)
  \/ \E w \in Workers : Worker(w)
  \/ Watchdog
  \/ Time
  \/ Shutdown
  \/ JoinAll
  \/ Ended

Spec == Init /\ [][Next]_vars

\* Threads run, clocks advance, and a wait ends when its future is ready or
\* its time is up; nobody is obliged to submit work or to shut down.
FairSpec ==
  /\ Spec
  /\ \A w \in Workers : WF_vars(Worker(w))
  /\ WF_vars(Watchdog) /\ WF_vars(JoinAll)
  /\ \A t \in Tasks : /\ WF_vars(BeginWait(t))
                      /\ WF_vars(GiveUp(t) \/ TakeAnswer(t))
                      /\ WF_vars(DeadlineElapses(t))
  /\ \A w \in Workers : WF_vars(TaskOverruns(w) \/ RequestAges(w))

----------------------------------------------------------------------------
(* Properties.                                                             *)

\* The shape of the state: positions of callers, workers and the watchdog,
\* and what each atomic of the dispatcher may hold.
TypeOK ==
  /\ call \in [Tasks -> {"idle", "stamped", "queued", "waiting", "returned"}]
  /\ deadline \in [Tasks -> {"none", "ahead", "past"}]
  /\ future \in [Tasks -> Outcomes \cup {"empty"}]
  /\ answer \in [Tasks -> Outcomes \cup {"none", "timeout", "exhausted"}]
  /\ queue \in Seq(Tasks)
  /\ pc \in [Workers -> {"wait", "popped", "ready", "cleared", "started",
                         "running", "finished", "idled", "settling", "exited"}]
  /\ held \in [Workers -> Tasks \cup {NoTask}]
  /\ flag \in [Workers -> BOOLEAN]
  /\ started \in [Workers -> {"idle", "fresh", "overrun"}]
  /\ requested \in [Workers -> {"none", "recent", "overdue"}]
  /\ entry \in [Workers -> {"ok", "suspect", "dead"}]
  /\ fault \in [Workers -> BOOLEAN]
  /\ wd \in WatchdogStates
  /\ stop \in BOOLEAN
  /\ process \in {"up", "killed", "crashed", "destroyed"}
  /\ overran \in SUBSET (Tasks \cup {NoTask})
  /\ accused \in [Workers -> Tasks \cup {NoTask}]

\* The caller holds a future for the task: it was pushed onto the queue.
Accepted(t) == \/ call[t] \in {"queued", "waiting"}
               \/ call[t] = "returned" /\ answer[t] # "exhausted"

Holders(t) == {w \in Workers : held[w] = t}

\* A task never has two owners: it is queued at most once, no two workers
\* hold it, and a queued task is held by nobody.  A pop that forgot to remove
\* the front, or a task pushed twice, would run a request twice.
OneOwner ==
  /\ \A i, j \in 1 .. Len(queue) : queue[i] = queue[j] => i = j
  /\ \A t \in Tasks : \A v, w \in Holders(t) : v = w
  /\ \A t \in Tasks : InQueue(t) => Holders(t) = {}

\* No promise is lost: while the future of an accepted task is unset, the
\* task is in the queue or in the hands of a worker, whatever its caller,
\* the watchdog or the destructor do meanwhile.
NoLostTask ==
  \A t \in Tasks :
    Accepted(t) /\ future[t] = "empty" => InQueue(t) \/ Holders(t) # {}

\* Once the destructor has returned, every future that was handed out is
\* set: the workers drained the queue before they exited.
DrainedWhenDestroyed ==
  process = "destroyed" => \A t \in Tasks : Accepted(t) => future[t] # "empty"

\* A broken promise comes from the deadline drop and from nothing else, so a
\* caller without a deadline never sees one.
BrokenOnlyPastDeadline ==
  \A t \in Tasks : future[t] = "broken" => deadline[t] = "past"

\* A pipeline that reported a recoverable CUDA fault runs no further task
\* before it is rebuilt, although the flag that says so is also cleared by
\* completions and set by the watchdog.
FaultedEntryNotReused ==
  RecycleEnabled => \A w \in Workers : pc[w] = "running" => entry[w] # "suspect"

\* The watchdog ends the process only when some task really ran past the
\* request timeout and the grace.
KillOnlyAfterOverrun == process = "killed" => overran # {}

\* A future that is set keeps its outcome: no later run, drop or settle of
\* the same task overwrites what the caller may already have read.
FutureSetOnce ==
  [][\A t \in Tasks : future[t] # "empty" => future'[t] = future[t]]_vars

\* Every call returns, with or without a deadline, as long as no task hangs,
\* the process is up and no rebuild failed.
EveryCallReturns ==
  \A t \in Tasks :
    call[t] \in {"queued", "waiting"} ~> call[t] = "returned" \/ ~Up

\* A worker stuck in a CUDA call is not left stuck: the process is ended for
\* the orchestrator to restart, unless the dispatcher is being destroyed.
WedgedEndsProcess ==
  \A w \in Workers :
    pc[w] = "running" /\ held[w] \in Wedged ~> ~Up \/ stop

\* Once begun, destruction ends: watchdog and workers all leave their loops,
\* unless a worker is stuck in a CUDA call, which the destructor waits for.
DestructorReturns == stop ~> ~Up \/ \E w \in Workers : held[w] \in Wedged

\* What holds of the tasks, the pipelines and the process in every state:
\* no task is lost, no promise broken early or left open by the destructor,
\* no faulted pipeline reused, no process killed without an overrun.
Safety ==
  /\ TypeOK
  /\ NoLostTask
  /\ DrainedWhenDestroyed
  /\ BrokenOnlyPastDeadline
  /\ FaultedEntryNotReused
  /\ KillOnlyAfterOverrun

\* The process of a wedged worker ends, and so does a destruction.
Ends == WedgedEndsProcess /\ DestructorReturns

(* The dispatcher implements the one-outcome service of its callers.       *)
AbstractFutures ==
  INSTANCE Resolver WITH
    Requests <- Tasks,
    Outcomes <- Outcomes,
    Pending <- "empty",
    accepted <- {t \in Tasks : Accepted(t)},
    outcome <- future

\* Every step of callers, workers, watchdog and destructor is a step of the
\* one-outcome service or leaves it alone.
ImplementsResolver == AbstractFutures!Spec

----------------------------------------------------------------------------
(* What comments of the code say and its interleavings do not keep.        *)

\* pipeline_dispatcher.cpp: a dropped task's future "gets a harmless
\* broken_promise that nobody is waiting on".
BrokenPromiseUnobserved == \A t \in Tasks : answer[t] # "broken"

\* pipeline_dispatcher.cpp: a fresh task is never hard-killed on a previous
\* task's timestamp; the kill is for the task the recycle was requested for.
KillsTheAccused == process = "killed" => held[wd.i] = accused[wd.i]

\* pipeline_dispatcher.cpp: after a failed rebuild "a subsequent task throws
\* rather than touching a half-built pipeline".
DeadEntryThrows == process # "crashed"

\* pipeline_dispatcher.cpp: a flagged slot with no queued work still recycles.
FlaggedSlotRecycles == \A w \in Workers : flag[w] ~> ~flag[w] \/ ~Up

====
