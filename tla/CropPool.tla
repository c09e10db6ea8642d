---- MODULE CropPool ----
(***************************************************************************)
(* The VLM crop pool: callers that submit a crop and get a future, the one *)
(* worker thread that drives every transfer through curl_multi and parks   *)
(* transient failures for a retry, and shutdown().                         *)
(*                                                                         *)
(* A section under queue_mu_ is one action.  The retry list, the handles   *)
(* and in_flight_ belong to the worker until shutdown() has joined it, so  *)
(* a handler of the worker is one action too.  The steady clock is         *)
(* abstracted to what is compared with it: the deadline of a crop is       *)
(* "ahead" or "past", the backoff of a parked crop "later" or "now".       *)
(***************************************************************************)
EXTENDS Integers, Sequences, FiniteSets, SequencesExt

CONSTANTS
  Crops,           \* the requests, one per call of submit*()
  MaxConcurrency,  \* VLM_GLOBAL_CONCURRENCY
  MaxRetries,      \* VLM_MAX_RETRIES
  HasWorker        \* curl_multi_init() succeeded in the constructor

ASSUME CropPoolAssumption ==
  /\ IsFiniteSet(Crops)
  /\ MaxConcurrency \in Nat \ {0}
  /\ MaxRetries \in Nat
  /\ HasWorker \in BOOLEAN

VARIABLES
  call,      \* the caller's position in submit*()
  seen,      \* history: stop_ as it was when the call began
  budget,    \* deadline_ms of the crop
  attempts,  \* attempts
  ready,     \* ready_ms of the crop
  future,    \* shared state of the crop's promise
  queue,     \* queue_
  parked,    \* retry_queue_
  transfer,  \* the crop's easy handle in multi_, and how it ended
  inFlight,  \* in_flight_
  pc,        \* the worker's position in worker_loop()
  stop,      \* stop_
  shut,      \* the position of shutdown()
  fd         \* wake_wr_

request == <<budget, attempts, ready>>
handles == <<transfer, inFlight>>
life    == <<stop, shut, fd>>
vars == <<call, seen, request, future, queue, parked, handles, pc, life>>

Outcomes == {"ok", "failed"}
Ended    == {"ok", "transient", "fatal"}   \* 2xx; worth a retry; anything else

Init ==
  /\ call = [c \in Crops |-> "idle"]
  /\ seen = [c \in Crops |-> FALSE]
  /\ budget = [c \in Crops |-> "none"]
  /\ attempts = [c \in Crops |-> 0]
  /\ ready = [c \in Crops |-> "now"]
  /\ future = [c \in Crops |-> "empty"]
  /\ queue = <<>>
  /\ parked = <<>>
  /\ transfer = [c \in Crops |-> "none"]
  /\ inFlight = 0
  /\ pc = IF HasWorker THEN "loop" ELSE "absent"
  /\ stop = FALSE
  /\ shut = "no"
  /\ fd = "open"

\* resolve_request() on the crops of S: a promise that is set stays as it is.
Resolved(S, out) ==
  [c \in Crops |-> IF c \in S /\ future[c] = "empty" THEN out ELSE future[c]]

----------------------------------------------------------------------------
(* submit() and submit_with_status().                                      *)

\* The request is built and its retry deadline anchored before the lock.
Build(c) ==
  /\ call[c] = "idle"
  /\ call' = [call EXCEPT ![c] = "built"]
  /\ budget' = [budget EXCEPT ![c] = "ahead"]
  /\ seen' = [seen EXCEPT ![c] = stop]
  /\ UNCHANGED <<attempts, ready, future, queue, parked, handles, pc, life>>

\* Mutant: stop_ is tested before the lock is taken.
SeenBeforeLock(c) == seen[c]
SeesStop(c) == stop

\* Under queue_mu_: resolved in place once stop_ is up, queued otherwise.
Submit(c) ==
  /\ call[c] = "built"
  /\ \/ /\ SeesStop(c)
        /\ call' = [call EXCEPT ![c] = "refused"]
        /\ future' = Resolved({c}, "failed")
        /\ UNCHANGED queue
     \/ /\ ~SeesStop(c)
        /\ call' = [call EXCEPT ![c] = "queued"]
        /\ queue' = Append(queue, c)
        /\ UNCHANGED future
  /\ UNCHANGED <<seen, request, parked, handles, pc, life>>

----------------------------------------------------------------------------
(* The worker thread.                                                      *)

WorkerOnly == UNCHANGED <<call, seen, budget, life>>

Due == {c \in Crops : ready[c] = "now"}

\* The walk over retry_queue_: the crops of S in the list s, in its order.
Picked(s, S) ==
  LET upTo[k \in 0 .. Len(s)] ==
        IF k = 0 THEN <<>>
        ELSE IF s[k] \in S THEN Append(upTo[k - 1], s[k]) ELSE upTo[k - 1]
  IN upTo[Len(s)]

\* Mutant: a promoted retry stays in retry_queue_.
KeptParked == parked
LeftParked == Picked(parked, Crops \ Due)

LeavesLoop == stop

\* The head of the loop, with promote_ready_retries().
LoopHead ==
  /\ pc = "loop"
  /\ \/ /\ LeavesLoop
        /\ pc' = "drain"
        /\ UNCHANGED <<queue, parked>>
     \/ /\ ~LeavesLoop
        /\ pc' = "fill"
        /\ queue' = queue \o Picked(parked, Due)
        /\ parked' = LeftParked
  /\ UNCHANGED <<attempts, ready, future, handles>> /\ WorkerOnly

HasRoom == inFlight < MaxConcurrency

\* One turn of try_dispatch(): the front of the queue through dispatch_one(),
\* which can fail at the body, the easy handle or the multi handle.
Dispatch ==
  /\ pc \in {"fill", "refill"} /\ HasRoom /\ queue # <<>>
  /\ LET c == Head(queue) IN
       /\ attempts' = [attempts EXCEPT ![c] = @ + 1]
       /\ \/ /\ future' = Resolved({c}, "failed")
             /\ UNCHANGED handles
          \/ /\ transfer' = [transfer EXCEPT ![c] = "active"]
             /\ inFlight' = inFlight + 1
             /\ UNCHANGED future
  /\ queue' = Tail(queue)
  /\ UNCHANGED <<ready, parked, pc>> /\ WorkerOnly

DispatchEnds ==
  /\ pc \in {"fill", "refill"} /\ (~HasRoom \/ queue = <<>>)
  /\ pc' = IF pc = "fill" THEN "perform" ELSE "harvest"
  /\ UNCHANGED <<attempts, ready, future, queue, parked, handles>> /\ WorkerOnly

\* curl_multi_perform(): any of the active transfers end, in any way.
Perform ==
  /\ pc \in {"perform", "drain"}
  /\ \E S \in SUBSET {c \in Crops : transfer[c] = "active"} :
       \E how \in [S -> Ended] :
         transfer' = [c \in Crops |-> IF c \in S THEN how[c] ELSE transfer[c]]
  /\ pc' = IF pc = "perform" THEN "harvest" ELSE "reap"
  /\ UNCHANGED <<attempts, ready, future, queue, parked, inFlight>> /\ WorkerOnly

TriesLeft(c) == attempts[c] <= MaxRetries

\* Mutants: the slot of a finished handle is not given back, or given back twice.
SlotLeaks == inFlight
SlotFreed == inFlight - 1

\* complete_handle(): the handle is torn down, then the crop is resolved or
\* parked.  A crop in time is parked only if its backoff ends in time too,
\* which an abstract clock leaves open.
Complete(c) ==
  /\ pc \in {"harvest", "reap"} /\ transfer[c] \in Ended
  /\ transfer' = [transfer EXCEPT ![c] = "none"]
  /\ inFlight' = SlotFreed
  /\ pc' = IF pc = "harvest" THEN "refill" ELSE pc
  /\ \/ /\ transfer[c] = "ok"
        /\ future' = Resolved({c}, "ok")
        /\ UNCHANGED <<ready, parked>>
     \/ /\ transfer[c] = "transient" /\ ~stop /\ TriesLeft(c) /\ budget[c] = "ahead"
        /\ ready' = [ready EXCEPT ![c] = "later"]
        /\ parked' = Append(parked, c)
        /\ UNCHANGED future
     \/ /\ transfer[c] # "ok"
        /\ future' = Resolved({c}, "failed")
        /\ UNCHANGED <<ready, parked>>
  /\ UNCHANGED <<attempts, queue>> /\ WorkerOnly

\* Nothing left to harvest: poll, at most 200 ms, and go round; while
\* draining, leave once no transfer is running.
HarvestEnds ==
  /\ pc \in {"harvest", "reap"} /\ \A c \in Crops : transfer[c] \notin Ended
  /\ pc' = IF pc = "harvest" THEN "loop"
           ELSE IF \E c \in Crops : transfer[c] = "active" THEN "drain" ELSE "exited"
  /\ UNCHANGED <<attempts, ready, future, queue, parked, handles>> /\ WorkerOnly

Worker ==
  \/ LoopHead \/ Dispatch \/ DispatchEnds \/ Perform \/ HarvestEnds
  \/ \E c \in Crops : Complete(c)

----------------------------------------------------------------------------
(* shutdown() and time.                                                    *)

Shutdown ==
  /\ ~stop
  /\ stop' = TRUE
  /\ shut' = "joining"
  /\ UNCHANGED <<call, seen, request, future, queue, parked, handles, pc, fd>>

ParkedCrops == ToSet(parked)

\* The worker, if there is one, is joined; its retry list is answered.
DrainRetries ==
  /\ shut = "joining" /\ pc \in {"exited", "absent"}
  /\ future' = Resolved(ParkedCrops, "failed")
  /\ parked' = <<>>
  /\ shut' = "draining"
  /\ UNCHANGED <<call, seen, request, queue, handles, pc, stop, fd>>

\* Under queue_mu_: the wake descriptor is closed and the queue answered.
DrainQueue ==
  /\ shut = "draining"
  /\ fd' = "closed"
  /\ future' = Resolved(ToSet(queue), "failed")
  /\ queue' = <<>>
  /\ shut' = "done"
  /\ UNCHANGED <<call, seen, request, parked, handles, pc, stop>>

\* ready_ms is short of the deadline, so a backoff ends before the budget.
BackoffEnds(c) ==
  /\ ready[c] = "later"
  /\ ready' = [ready EXCEPT ![c] = "now"]
  /\ UNCHANGED <<call, seen, budget, attempts, future, queue, parked, handles, pc, life>>

BudgetEnds(c) ==
  /\ budget[c] = "ahead" /\ ready[c] = "now"
  /\ budget' = [budget EXCEPT ![c] = "past"]
  /\ UNCHANGED <<call, seen, attempts, ready, future, queue, parked, handles, pc, life>>

\* The pool is shut down and nothing of it runs any more.
Over == shut = "done" /\ UNCHANGED vars

Next ==
  \/ \E c \in Crops : Build(c) \/ Submit(c)
  \/ Worker
  \/ Shutdown \/ DrainRetries \/ DrainQueue
  \/ \E c \in Crops : BackoffEnds(c) \/ BudgetEnds(c)
  \/ Over

Spec == Init /\ [][Next]_vars

\* The threads run, backoffs end, and a transfer that is performed again and
\* again ends, by CURLOPT_TIMEOUT at the latest.
FairSpec ==
  /\ Spec
  /\ WF_vars(Worker)
  /\ WF_vars(DrainRetries) /\ WF_vars(DrainQueue)
  /\ \A c \in Crops : /\ WF_vars(Submit(c))
                      /\ WF_vars(BackoffEnds(c))
                      /\ SF_vars(Perform /\ transfer[c] = "active" /\ transfer'[c] # "active")

----------------------------------------------------------------------------
(* Properties.                                                             *)

\* The shape of the state.
TypeOK ==
  /\ call \in [Crops -> {"idle", "built", "queued", "refused"}]
  /\ seen \in [Crops -> BOOLEAN]
  /\ budget \in [Crops -> {"none", "ahead", "past"}]
  /\ attempts \in [Crops -> Nat]
  /\ ready \in [Crops -> {"now", "later"}]
  /\ future \in [Crops -> Outcomes \cup {"empty"}]
  /\ queue \in Seq(Crops)
  /\ parked \in Seq(Crops)
  /\ transfer \in [Crops -> Ended \cup {"none", "active"}]
  /\ inFlight \in Nat
  /\ pc \in {"loop", "fill", "perform", "harvest", "refill", "drain", "reap",
             "exited", "absent"}
  /\ stop \in BOOLEAN
  /\ shut \in {"no", "joining", "draining", "done"}
  /\ fd \in {"open", "closed"}

Places(c) ==
    Cardinality({i \in 1 .. Len(queue) : queue[i] = c})
  + Cardinality({i \in 1 .. Len(parked) : parked[i] = c})
  + (IF transfer[c] # "none" THEN 1 ELSE 0)

\* A crop whose future is open is in exactly one place, the queue, the retry
\* list or a handle, and a crop that is answered or never queued is in none:
\* no crop is sent to the model twice at once, resolved twice, or lost.
OnePlace ==
  \A c \in Crops :
    Places(c) = IF call[c] = "queued" /\ future[c] = "empty" THEN 1 ELSE 0

\* in_flight_ counts the handles in curl_multi, and never passes the limit
\* that all pipelines share, across failures, retries and refills.
SlotsCounted ==
  /\ inFlight = Cardinality({c \in Crops : transfer[c] # "none"})
  /\ inFlight <= MaxConcurrency

\* A crop is sent at most once and VLM_MAX_RETRIES times again.
AttemptsBounded == \A c \in Crops : attempts[c] <= MaxRetries + 1

\* shutdown() leaves no caller waiting, whether its crop was queued, parked,
\* in a handle, or submitted while the pool was going down.
AnsweredAtShutdown ==
  shut = "done" => \A c \in Crops : call[c] \in {"queued", "refused"} => future[c] # "empty"

\* shutdown() returns: the worker leaves its loop and its running transfers end.
ShutdownReturns == stop ~> shut = "done"

\* A submit writes to the wake descriptor only while it is open.
WakeWriteSafe ==
  [][\A c \in Crops : call[c] = "built" /\ call'[c] = "queued" => fd = "open"]_vars

\* What holds of crops, slots and retries in every state, shutdown included.
Safety ==
  /\ TypeOK
  /\ OnePlace
  /\ SlotsCounted
  /\ AttemptsBounded
  /\ AnsweredAtShutdown

\* A shutdown returns, and closes nothing that a submit still writes to.
ShutsDown == ShutdownReturns /\ WakeWriteSafe

(* The pool implements the one-outcome service of its callers.             *)
AbstractCrops ==
  INSTANCE Resolver WITH
    Requests <- Crops,
    Outcomes <- Outcomes,
    Pending <- "empty",
    accepted <- {c \in Crops : call[c] \in {"queued", "refused"}},
    outcome <- future

\* Every step of callers, worker and shutdown is a step of that service or
\* leaves it alone, and every crop that is taken in is answered, while the
\* pool runs or as it goes down.
ImplementsResolver == AbstractCrops!LiveSpec

====
