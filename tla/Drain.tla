---- MODULE Drain ----
(***************************************************************************)
(* The work pool that runs the HTTP handlers, and the way the server goes  *)
(* down: the signal handler, the drain thread with its gRPC half, the main *)
(* thread after the event loop has quit, and the pool's destructor.        *)
(*                                                                         *)
(* A section under the pool's mutex_ is one action; a wait on one of its   *)
(* condition variables is a position that only a notification leaves.      *)
(***************************************************************************)
EXTENDS Naturals, Sequences, FiniteSets

CONSTANTS
  Requests,    \* HTTP requests whose handler submits to the pool
  Rpcs,        \* gRPC calls, which gRPC runs on threads of its own
  NumThreads,  \* threads of the pool
  MaxDepth,    \* max_depth_
  NoRequest,   \* "runs no task"
  Hangs        \* the requests whose handler never returns

ASSUME DrainAssumption ==
  /\ IsFiniteSet(Requests)
  /\ NumThreads \in Nat \ {0}
  /\ MaxDepth \in Nat \ {0}
  /\ NoRequest \notin Requests
  /\ Hangs \subseteq Requests

Threads == 1 .. NumThreads

VARIABLES
  http,       \* what became of each HTTP request
  unsignaled, \* submitters between the unlock and cv_.notify_one()
  queue,      \* queue_
  pc,         \* a pool thread's position
  job,        \* the task the thread moved out of the queue
  inflight,   \* inflight_
  stop,       \* stop_ of the pool
  rpc,        \* what became of each gRPC call
  signal,     \* g_shutdown_requested
  drainer,    \* the drain thread: its position, and at the end its verdict
  grpc,       \* the gRPC server: "up", shutting down, "down"
  graceOver,  \* the SHUTDOWN_GRACE_SECONDS window has passed
  loop,       \* Drogon's event loop
  refresher,  \* the readiness refresher thread
  main,       \* the main thread from run() to the end of main()
  early       \* history: the requests in the pool when the signal came

pool   == <<queue, pc, job, inflight>>
drain  == <<signal, drainer, grpc, graceOver, early>>
server == <<loop, refresher, main>>
vars == <<http, unsignaled, pool, stop, rpc, drain, server>>

Init ==
  /\ http = [r \in Requests |-> "idle"]
  /\ unsignaled = {}
  /\ queue = <<>>
  /\ pc = [w \in Threads |-> "test"]
  /\ job = [w \in Threads |-> NoRequest]
  /\ inflight = 0
  /\ stop = FALSE
  /\ rpc = [c \in Rpcs |-> "idle"]
  /\ signal = FALSE
  /\ drainer = "none"
  /\ grpc = "up"
  /\ graceOver = FALSE
  /\ loop = "up"
  /\ refresher = "awake"
  /\ main = "serving"
  /\ early = {}

----------------------------------------------------------------------------
(* Event loop threads: submit_work().  Nothing here looks at the signal.   *)

Submit(r) ==
  /\ loop = "up" /\ http[r] = "idle"
  /\ \/ /\ Len(queue) >= MaxDepth
        /\ http' = [http EXCEPT ![r] = "refused"]
        /\ UNCHANGED <<queue, unsignaled>>
     \/ /\ Len(queue) < MaxDepth
        /\ http' = [http EXCEPT ![r] = "pooled"]
        /\ queue' = Append(queue, r)
        /\ unsignaled' = unsignaled \cup {r}
  /\ UNCHANGED <<pc, job, inflight, stop, rpc, drain, server>>

Waiting == {w \in Threads : pc[w] = "waiting"}

\* cv_.notify_one(): one of the waiting threads, if there is one.
Notify(r) ==
  /\ r \in unsignaled
  /\ unsignaled' = unsignaled \ {r}
  /\ \/ Waiting = {} /\ UNCHANGED pc
     \/ \E w \in Waiting : pc' = [pc EXCEPT ![w] = "test"]
  /\ UNCHANGED <<http, queue, job, inflight, stop, rpc, drain, server>>

----------------------------------------------------------------------------
(* Threads of the pool.                                                    *)

LeavesWhenEmpty == stop /\ queue = <<>>

\* The head of the loop, under mutex_: leave, take a task, or wait.
Test(w) ==
  /\ pc[w] = "test"
  /\ \/ /\ LeavesWhenEmpty
        /\ pc' = [pc EXCEPT ![w] = "exited"]
        /\ UNCHANGED <<queue, job, inflight>>
     \/ /\ ~LeavesWhenEmpty /\ queue # <<>>
        /\ pc' = [pc EXCEPT ![w] = "running"]
        /\ job' = [job EXCEPT ![w] = Head(queue)]
        /\ queue' = Tail(queue)
        /\ inflight' = inflight + 1
     \/ /\ ~LeavesWhenEmpty /\ queue = <<>>
        /\ pc' = [pc EXCEPT ![w] = "waiting"]
        /\ UNCHANGED <<queue, job, inflight>>
  /\ UNCHANGED <<http, unsignaled, stop, rpc, drain, server>>

\* The handler answers, if the event loop is there to send the answer.
Respond(w) ==
  /\ pc[w] = "running" /\ job[w] \notin Hangs
  /\ pc' = [pc EXCEPT ![w] = "ending"]
  /\ http' = [http EXCEPT ![job[w]] = IF loop = "up" THEN "answered" ELSE "cut"]
  /\ UNCHANGED <<unsignaled, queue, job, inflight, stop, rpc, drain, server>>

\* Mutant: idle means that nothing is queued.
NothingQueued == queue = <<>>
Idle == queue = <<>> /\ inflight = 0

CountedDown == inflight - 1

\* Mutant: the guard does not notify drain_cv_.
NotNotified(w) == drainer
\* The guard notifies drain_cv_ when w was the last one and nothing is queued.
DrainNotified(w) ==
  IF drainer = "waiting" /\ queue = <<>> /\ inflight = 1 THEN "test" ELSE drainer

\* ~InflightGuard(), under mutex_.
Release(w) ==
  /\ pc[w] = "ending"
  /\ pc' = [pc EXCEPT ![w] = "test"]
  /\ job' = [job EXCEPT ![w] = NoRequest]
  /\ inflight' = CountedDown
  /\ drainer' = DrainNotified(w)
  /\ UNCHANGED <<http, unsignaled, queue, stop, rpc, signal, grpc, graceOver, early, server>>

Thread(w) == Test(w) \/ Respond(w) \/ Release(w)

----------------------------------------------------------------------------
(* begin_graceful_shutdown() and the drain thread.                         *)

\* A second signal finds g_shutdown_requested set and does nothing.
Signal ==
  /\ loop = "up" /\ ~signal
  /\ signal' = TRUE
  /\ drainer' = "started"
  /\ early' = {r \in Requests : http[r] = "pooled"}
  /\ UNCHANGED <<http, unsignaled, pool, stop, rpc, grpc, graceOver, server>>

\* The gRPC half starts on a thread of its own; then wait_drain() begins.
StartDrains ==
  /\ drainer = "started"
  /\ drainer' = "test"
  /\ grpc' = "draining"
  /\ UNCHANGED <<http, unsignaled, pool, stop, rpc, signal, graceOver, early, server>>

\* wait_drain() tests its predicate under mutex_, at first and when notified.
TestDrained ==
  /\ drainer = "test"
  /\ drainer' = IF Idle THEN "drained" ELSE "waiting"
  /\ UNCHANGED <<http, unsignaled, pool, stop, rpc, signal, grpc, graceOver, early, server>>

\* wait_for() timed out: it returns what the predicate says then.
DrainTimesOut ==
  /\ drainer = "waiting" /\ graceOver
  /\ drainer' = IF Idle THEN "drained" ELSE "timed_out"
  /\ UNCHANGED <<http, unsignaled, pool, stop, rpc, signal, grpc, graceOver, early, server>>

\* The drain thread joins the gRPC half and quits the event loop.
Quit ==
  /\ drainer \in {"drained", "timed_out"} /\ grpc = "down" /\ loop = "up"
  /\ loop' = "quit"
  /\ UNCHANGED <<http, unsignaled, pool, stop, rpc, drain, refresher, main>>

GraceEnds ==
  /\ signal /\ ~graceOver
  /\ graceOver' = TRUE
  /\ UNCHANGED <<http, unsignaled, pool, stop, rpc, signal, drainer, grpc, early, server>>

----------------------------------------------------------------------------
(* gRPC, external: Shutdown(deadline) refuses new calls, waits for those   *)
(* in flight, and cancels the ones that are left at the deadline.          *)

RpcStarts(c) ==
  /\ grpc = "up" /\ rpc[c] = "idle"
  /\ rpc' = [rpc EXCEPT ![c] = "running"]
  /\ UNCHANGED <<http, unsignaled, pool, stop, drain, server>>

RpcEnds(c) ==
  /\ rpc[c] = "running"
  /\ rpc' = [rpc EXCEPT ![c] = "done"]
  /\ UNCHANGED <<http, unsignaled, pool, stop, drain, server>>

GrpcDown ==
  /\ grpc = "draining"
  /\ graceOver \/ \A c \in Rpcs : rpc[c] # "running"
  /\ grpc' = "down"
  /\ rpc' = [c \in Rpcs |-> IF rpc[c] = "running" THEN "cancelled" ELSE rpc[c]]
  /\ UNCHANGED <<http, unsignaled, pool, stop, signal, drainer, graceOver, early, server>>

----------------------------------------------------------------------------
(* The readiness refresher, and main() once run() has returned.            *)

\* readiness() runs a probe on the GPU, unless its cache is fresh or the
\* server is draining.
Probe ==
  /\ refresher = "awake" /\ main = "serving" /\ ~signal
  /\ refresher' = "probing"
  /\ UNCHANGED <<http, unsignaled, pool, stop, rpc, drain, loop, main>>

ProbeEnds ==
  /\ refresher = "probing"
  /\ refresher' = "awake"
  /\ UNCHANGED <<http, unsignaled, pool, stop, rpc, drain, loop, main>>

\* refresher_stop is seen at the next turn of the refresher's loop.
RefresherExits ==
  /\ refresher = "awake" /\ main # "serving"
  /\ refresher' = "exited"
  /\ UNCHANGED <<http, unsignaled, pool, stop, rpc, drain, loop, main>>

\* run() returns once the loop threads are joined; refresher_stop is set.
RunReturns ==
  /\ main = "serving" /\ loop = "quit" /\ unsignaled = {}
  /\ main' = "joining_refresher"
  /\ UNCHANGED <<http, unsignaled, pool, stop, rpc, drain, loop, refresher>>

\* The refresher is joined; Shutdown() and the join of the gRPC thread find a
\* server that is down already; then ~WorkPool() raises stop_ under mutex_.
RaiseStop ==
  /\ main = "joining_refresher" /\ refresher = "exited" /\ grpc = "down"
  /\ stop' = TRUE
  /\ main' = "stopped"
  /\ UNCHANGED <<http, unsignaled, pool, rpc, drain, loop, refresher>>

\* cv_.notify_all(), after the unlock.
NotifyAll ==
  /\ main = "stopped"
  /\ pc' = [w \in Threads |-> IF pc[w] = "waiting" THEN "test" ELSE pc[w]]
  /\ main' = "joining_pool"
  /\ UNCHANGED <<http, unsignaled, queue, job, inflight, stop, rpc, drain, loop, refresher>>

\* Every thread is joined; what main() destroys next is idle by then.
Return ==
  /\ main = "joining_pool" /\ \A w \in Threads : pc[w] = "exited"
  /\ main' = "ended"
  /\ UNCHANGED <<http, unsignaled, pool, stop, rpc, drain, loop, refresher>>

Main == RunReturns \/ RaiseStop \/ NotifyAll \/ Return

Over == main = "ended" /\ UNCHANGED vars

Next ==
  \/ \E r \in Requests : Submit(r) \/ Notify(r)
  \/ \E w \in Threads : Thread(w)
  \/ Signal \/ StartDrains \/ TestDrained \/ DrainTimesOut \/ Quit \/ GraceEnds
  \/ \E c \in Rpcs : RpcStarts(c) \/ RpcEnds(c)
  \/ GrpcDown
  \/ Probe \/ ProbeEnds \/ RefresherExits
  \/ Main
  \/ Over

Spec == Init /\ [][Next]_vars

\* Threads run, calls and probes end.  Nothing makes the grace window end, a
\* client send a request, or an operator send the signal.
FairSpec ==
  /\ Spec
  /\ \A r \in Requests : WF_vars(Notify(r))
  /\ \A w \in Threads : WF_vars(Thread(w))
  /\ WF_vars(StartDrains) /\ WF_vars(TestDrained) /\ WF_vars(Quit)
  /\ \A c \in Rpcs : WF_vars(RpcEnds(c))
  /\ WF_vars(GrpcDown) /\ WF_vars(ProbeEnds) /\ WF_vars(RefresherExits)
  /\ WF_vars(Main)

----------------------------------------------------------------------------
(* Properties.                                                             *)

\* The shape of the state; a queue never passes its limit.
TypeOK ==
  /\ http \in [Requests -> {"idle", "pooled", "refused", "answered", "cut"}]
  /\ unsignaled \in SUBSET Requests
  /\ queue \in Seq(Requests) /\ Len(queue) <= MaxDepth
  /\ pc \in [Threads -> {"test", "waiting", "running", "ending", "exited"}]
  /\ job \in [Threads -> Requests \cup {NoRequest}]
  /\ inflight \in Nat
  /\ stop \in BOOLEAN
  /\ rpc \in [Rpcs -> {"idle", "running", "done", "cancelled"}]
  /\ signal \in BOOLEAN
  /\ drainer \in {"none", "started", "test", "waiting", "drained", "timed_out"}
  /\ grpc \in {"up", "draining", "down"}
  /\ graceOver \in BOOLEAN
  /\ loop \in {"up", "quit"}
  /\ refresher \in {"awake", "probing", "exited"}
  /\ main \in {"serving", "joining_refresher", "stopped", "joining_pool", "ended"}
  /\ early \in SUBSET Requests

\* When wait_drain() reports a full drain, every request that was in the pool
\* when the signal came has been answered while the loop was still there.
DrainedMeansAnswered ==
  drainer = "drained" => \A r \in early : http[r] = "answered"

\* The pool's destructor drops nothing: when main() ends, no task is left in
\* the queue, counted as in flight, or held by a thread.
NothingDropped ==
  main = "ended" =>
    /\ Idle
    /\ \A r \in Requests : http[r] # "pooled"
    /\ \A w \in Threads : job[w] = NoRequest

\* What holds of the requests and the pool as the server goes down.
Safety == TypeOK /\ DrainedMeansAnswered /\ NothingDropped

\* After a signal the process ends, before the grace window does if all tasks
\* return: no notification of the pool, the drain or the destructor is lost.
ShutdownEnds == signal ~> main = "ended"

----------------------------------------------------------------------------
(* What a comment of the code says and the drain does not keep.            *)

\* work_pool.h: the caller of wait_drain() "stops admitting new work first",
\* so that within the grace window no request loses its answer.
NoneCutInTime == ~graceOver => \A r \in Requests : http[r] # "cut"

====
