---- MODULE DrainProofs ----
(***************************************************************************)
(* Theorems of the work pool and the shutdown, for any number of requests, *)
(* gRPC calls, pool threads and queue places, and whichever tasks hang.    *)
(***************************************************************************)
EXTENDS Drain, SequenceTheorems, FiniteSetTheorems, TLAPS

----------------------------------------------------------------------------
(* Types, with the meaning of inflight_.                                   *)

Busy == {w \in Threads : pc[w] \in {"running", "ending"}}

\* inflight_ is the number of threads between the pop and the guard's end.
Counted == inflight = Cardinality(Busy)

Typed == TypeOK /\ Counted

LEMMA BusyFinite == IsFiniteSet(Busy) /\ Cardinality(Busy) \in Nat
<1>1. IsFiniteSet(Threads)
  BY FS_Interval, DrainAssumption DEF Threads
<1>2. Busy \in SUBSET Threads
  BY DEF Busy
<1>3. IsFiniteSet(Busy)
  BY <1>1, <1>2, FS_Subset
<1>4. QED  BY <1>3, FS_CardinalityType

\* A step that leaves the threads' side and the count alone keeps the count.
LEMMA CountKept ==
  ASSUME Counted, inflight' = inflight, Busy' = Busy
  PROVE  Counted'
BY DEF Counted

LEMMA TypedNext == Typed /\ [Next]_vars => Typed'
<1> SUFFICES ASSUME TypeOK, Counted, [Next]_vars PROVE TypeOK' /\ Counted'
  BY DEF Typed
<1> USE DrainAssumption DEF pool, drain, server
<1>1. ASSUME NEW r \in Requests, Submit(r) PROVE TypeOK' /\ Counted'
  <2>1. queue' \in Seq(Requests) /\ Len(queue') <= MaxDepth
    <3>1. Append(queue, r) \in Seq(Requests) /\ Len(Append(queue, r)) = Len(queue) + 1
      BY DEF TypeOK
    <3>2. CASE Len(queue) < MaxDepth
      <4>1. queue' = Append(queue, r)  BY <1>1, <3>2 DEF Submit, TypeOK
      <4>2. Len(queue) \in Nat  BY DEF TypeOK
      <4>3. QED  BY <3>1, <3>2, <4>1, <4>2
    <3>3. CASE ~(Len(queue) < MaxDepth)
      <4>1. queue' = queue  BY <1>1, <3>3 DEF Submit
      <4>2. QED  BY <4>1 DEF TypeOK
    <3>4. QED  BY <3>2, <3>3
  <2>2. TypeOK'
    BY <1>1, <2>1 DEF Submit, TypeOK
  <2>3. QED  BY <1>1, <2>2, CountKept DEF Submit, Busy
<1>2. ASSUME NEW r \in Requests, Notify(r) PROVE TypeOK' /\ Counted'
  <2>0. pc' \in [Threads -> {"test", "waiting", "running", "ending", "exited"}]
    BY <1>2 DEF Notify, TypeOK
  <2>1. TypeOK'
    BY <1>2, <2>0 DEF Notify, TypeOK
  <2>2. Busy' = Busy
    BY <1>2 DEF Notify, Waiting, Busy, TypeOK
  <2>3. QED  BY <1>2, <2>1, <2>2, CountKept DEF Notify
<1>3. ASSUME NEW w \in Threads, Thread(w) PROVE TypeOK' /\ Counted'
  <2>1. CASE Test(w) /\ ~LeavesWhenEmpty /\ queue # <<>>
    <3>1. /\ pc[w] = "test" /\ pc' = [pc EXCEPT ![w] = "running"]
          /\ job' = [job EXCEPT ![w] = Head(queue)]
          /\ queue' = Tail(queue) /\ inflight' = inflight + 1
      BY <2>1 DEF Test
    <3>2. Busy' = Busy \cup {w} /\ w \notin Busy
      BY <3>1 DEF Busy, TypeOK
    <3>3. Cardinality(Busy') = Cardinality(Busy) + 1
      BY <3>2, BusyFinite, FS_AddElement
    <3>4. Head(queue) \in Requests /\ Tail(queue) \in Seq(Requests)
          /\ Len(Tail(queue)) = Len(queue) - 1 /\ Len(queue) \in Nat
      BY <2>1, EmptySeq, HeadTailProperties DEF TypeOK
    <3>5. TypeOK'
      <4>1. queue' \in Seq(Requests) /\ Len(queue') <= MaxDepth
        BY <3>1, <3>4 DEF TypeOK
      <4>2. job' \in [Threads -> Requests \cup {NoRequest}]
        BY <3>1, <3>4 DEF TypeOK
      <4>3. pc' \in [Threads -> {"test", "waiting", "running", "ending", "exited"}]
            /\ inflight' \in Nat
        BY <3>1 DEF TypeOK
      <4>4. UNCHANGED <<http, unsignaled, stop, rpc, drain, server>>
        BY <2>1 DEF Test
      <4>5. QED  BY <4>1, <4>2, <4>3, <4>4 DEF TypeOK
    <3>6. QED  BY <3>1, <3>3, <3>5 DEF Counted
  <2>2. CASE Test(w) /\ ~(~LeavesWhenEmpty /\ queue # <<>>)
    <3>1. /\ UNCHANGED <<queue, job, inflight>>
          /\ pc[w] = "test"
          /\ pc' = [pc EXCEPT ![w] = "exited"] \/ pc' = [pc EXCEPT ![w] = "waiting"]
      BY <2>2 DEF Test
    <3>2. Busy' = Busy
      BY <3>1 DEF Busy, TypeOK
    <3>3. TypeOK'
      <4>1. pc' \in [Threads -> {"test", "waiting", "running", "ending", "exited"}]
        BY <3>1 DEF TypeOK
      <4>2. UNCHANGED <<http, unsignaled, stop, rpc, drain, server>>
        BY <2>2 DEF Test
      <4>3. QED  BY <3>1, <4>1, <4>2 DEF TypeOK, drain, server
    <3>4. QED  BY <3>1, <3>2, <3>3, CountKept
  <2>3. CASE Respond(w)
    <3>1. Busy' = Busy
      BY <2>3 DEF Respond, Busy, TypeOK
    <3>2. TypeOK'
      <4>1. pc' = [pc EXCEPT ![w] = "ending"]
        BY <2>3 DEF Respond
      <4>2. PICK a \in {"answered", "cut"} : http' = [http EXCEPT ![job[w]] = a]
        BY <2>3 DEF Respond
      <4>3. UNCHANGED <<unsignaled, queue, job, inflight, stop, rpc, drain, server>>
        BY <2>3 DEF Respond
      <4>4. pc' \in [Threads -> {"test", "waiting", "running", "ending", "exited"}]
        BY <4>1 DEF TypeOK
      <4>5. http' \in [Requests -> {"idle", "pooled", "refused", "answered", "cut"}]
        BY <4>2 DEF TypeOK
      <4>6. QED  BY <4>3, <4>4, <4>5 DEF TypeOK
    <3>3. QED  BY <2>3, <3>1, <3>2, CountKept DEF Respond
  <2>4. CASE Release(w)
    <3>1. /\ pc[w] = "ending" /\ pc' = [pc EXCEPT ![w] = "test"]
          /\ inflight' = inflight - 1
      BY <2>4 DEF Release, CountedDown
    <3>2. Busy' = Busy \ {w} /\ w \in Busy
      BY <3>1 DEF Busy, TypeOK
    <3>3. Cardinality(Busy') = Cardinality(Busy) - 1
      BY <3>2, BusyFinite, FS_RemoveElement
    <3>4. Cardinality(Busy') \in Nat
      BY <3>2, BusyFinite, FS_RemoveElement, FS_CardinalityType
    <3>5. inflight' = Cardinality(Busy')
      BY <3>1, <3>3 DEF Counted
    <3>6. TypeOK'
      BY <2>4, <3>4, <3>5 DEF Release, DrainNotified, TypeOK
    <3>7. QED  BY <3>5, <3>6 DEF Counted
  <2>5. QED  BY <1>3, <2>1, <2>2, <2>3, <2>4 DEF Thread
<1>4. ASSUME Signal \/ StartDrains \/ TestDrained \/ DrainTimesOut \/ Quit \/ GraceEnds
      PROVE  TypeOK' /\ Counted'
  <2>1. TypeOK'
    <3>1. CASE Signal
      <4>1. early' \in SUBSET Requests
        BY <3>1 DEF Signal
      <4>2. QED  BY <3>1, <4>1 DEF Signal, TypeOK
    <3>2. CASE StartDrains  BY <3>2 DEF StartDrains, TypeOK
    <3>3. CASE TestDrained  BY <3>3 DEF TestDrained, TypeOK
    <3>4. CASE DrainTimesOut  BY <3>4 DEF DrainTimesOut, TypeOK
    <3>5. CASE Quit  BY <3>5 DEF Quit, TypeOK
    <3>6. CASE GraceEnds  BY <3>6 DEF GraceEnds, TypeOK
    <3>7. QED  BY <1>4, <3>1, <3>2, <3>3, <3>4, <3>5, <3>6
  <2>2. UNCHANGED <<pc, inflight>>
    BY <1>4 DEF Signal, StartDrains, TestDrained, DrainTimesOut, Quit, GraceEnds
  <2>3. QED  BY <2>1, <2>2, CountKept DEF Busy
<1>5. ASSUME (\E c \in Rpcs : RpcStarts(c) \/ RpcEnds(c)) \/ GrpcDown
      PROVE  TypeOK' /\ Counted'
  <2>1. TypeOK'
    BY <1>5 DEF RpcStarts, RpcEnds, GrpcDown, TypeOK
  <2>2. UNCHANGED <<pc, inflight>>
    BY <1>5 DEF RpcStarts, RpcEnds, GrpcDown
  <2>3. QED  BY <2>1, <2>2, CountKept DEF Busy
<1>6. ASSUME Probe \/ ProbeEnds \/ RefresherExits \/ RunReturns \/ RaiseStop \/ Return
             \/ Over \/ UNCHANGED vars
      PROVE  TypeOK' /\ Counted'
  <2>1. TypeOK'
    <3>1. CASE Probe \/ ProbeEnds \/ RefresherExits
      BY <3>1 DEF Probe, ProbeEnds, RefresherExits, TypeOK
    <3>2. CASE RunReturns  BY <3>2 DEF RunReturns, TypeOK
    <3>3. CASE RaiseStop  BY <3>3 DEF RaiseStop, TypeOK
    <3>4. CASE Return  BY <3>4 DEF Return, TypeOK
    <3>5. CASE Over \/ UNCHANGED vars  BY <3>5 DEF Over, vars, TypeOK
    <3>6. QED  BY <1>6, <3>1, <3>2, <3>3, <3>4, <3>5
  <2>2. UNCHANGED <<pc, inflight>>
    BY <1>6 DEF Probe, ProbeEnds, RefresherExits, RunReturns, RaiseStop, Return, Over, vars
  <2>3. QED  BY <2>1, <2>2, CountKept DEF Busy
<1>7. CASE NotifyAll
  <2>1. TypeOK'
    BY <1>7 DEF NotifyAll, TypeOK
  <2>2. Busy' = Busy
    BY <1>7 DEF NotifyAll, Busy, TypeOK
  <2>3. QED  BY <1>7, <2>1, <2>2, CountKept DEF NotifyAll
<1>8. QED
  BY <1>1, <1>2, <1>3, <1>4, <1>5, <1>6, <1>7 DEF Next, Main

LEMMA TypedAlways == Spec => []Typed
<1>1. Init => Typed
  <2> SUFFICES ASSUME Init PROVE TypeOK /\ Counted
    BY DEF Typed
  <2>1. Busy = {}
    BY DEF Init, Busy
  <2>2. queue \in Seq(Requests) /\ Len(queue) <= MaxDepth
    BY DrainAssumption DEF Init
  <2>3. TypeOK
    BY <2>2, DrainAssumption DEF Init, TypeOK
  <2>4. QED  BY <2>1, <2>3, FS_EmptySet DEF Init, Counted
<1>2. QED  BY <1>1, TypedNext, PTL DEF Spec

\* The type invariant; that inflight_ never goes below zero rests on its
\* being the number of busy threads.
THEOREM DrainTypes == Spec => []TypeOK
<1>1. Typed => TypeOK  BY DEF Typed
<1>2. QED  BY <1>1, TypedAlways, PTL

----------------------------------------------------------------------------
(* Where a request is while its handler has not answered.                  *)

QueuedOnce == \A i, j \in 1 .. Len(queue) : queue[i] = queue[j] => i = j

RunOnce ==
  \A v, w \in Threads :
    pc[v] = "running" /\ pc[w] = "running" /\ job[v] = job[w] => v = w

NotBoth ==
  \A w \in Threads : pc[w] = "running" => \A i \in 1 .. Len(queue) : queue[i] # job[w]

QueuedIsPooled == \A i \in 1 .. Len(queue) : http[queue[i]] = "pooled"
RunIsPooled    == \A w \in Threads : pc[w] = "running" => http[job[w]] = "pooled"

PooledIsPlaced ==
  \A r \in Requests : http[r] = "pooled" =>
    \/ \E i \in 1 .. Len(queue) : queue[i] = r
    \/ \E w \in Threads : pc[w] = "running" /\ job[w] = r

JobWhileBusy ==
  \A w \in Threads : job[w] # NoRequest <=> pc[w] \in {"running", "ending"}

Placed ==
  /\ QueuedOnce /\ RunOnce /\ NotBoth
  /\ QueuedIsPooled /\ RunIsPooled /\ PooledIsPlaced
  /\ JobWhileBusy

\* Waking, waiting and leaving threads move no request.
LEMMA PlacedQuiet ==
  ASSUME Placed, UNCHANGED <<http, queue, job>>,
         \A w \in Threads :
           \/ pc'[w] = pc[w]
           \/ pc[w] \notin {"running", "ending"} /\ pc'[w] \notin {"running", "ending"}
  PROVE  Placed'
<1> USE DEF Placed
<1>1. QueuedOnce' /\ QueuedIsPooled'
  BY DEF QueuedOnce, QueuedIsPooled
<1>2. RunOnce' /\ NotBoth' /\ RunIsPooled'
  BY DEF RunOnce, NotBoth, RunIsPooled
<1>3. PooledIsPlaced'
  BY DEF PooledIsPlaced
<1>4. JobWhileBusy'
  BY DEF JobWhileBusy
<1>5. QED  BY <1>1, <1>2, <1>3, <1>4

LEMMA PlacedSubmit ==
  ASSUME TypeOK, Placed, NEW r \in Requests, Submit(r)
  PROVE  Placed'
<1>1. CASE Len(queue) < MaxDepth
  <2>0. /\ http[r] = "idle" /\ http' = [http EXCEPT ![r] = "pooled"]
        /\ queue' = Append(queue, r) /\ UNCHANGED <<pc, job>>
    <3>1. ~(Len(queue) >= MaxDepth)
      BY <1>1, DrainAssumption DEF TypeOK
    <3>2. QED  BY <3>1 DEF Submit
  <2>1. /\ Len(queue) \in Nat /\ Len(queue') = Len(queue) + 1
        /\ \A i \in 1 .. Len(queue) : queue'[i] = queue[i] /\ queue[i] \in Requests
        /\ queue'[Len(queue) + 1] = r
    BY <2>0 DEF TypeOK
  <2>2. \A i \in 1 .. Len(queue') : i \in 1 .. Len(queue) \/ i = Len(queue) + 1
    BY <2>1
  <2>3. \A i \in 1 .. Len(queue) : queue[i] # r
    BY <2>0 DEF Placed, QueuedIsPooled
  <2>4. \A w \in Threads : pc[w] = "running" => job[w] # r
    BY <2>0 DEF Placed, RunIsPooled
  <2>5. QueuedOnce'
    BY <2>1, <2>2, <2>3 DEF Placed, QueuedOnce
  <2>6. NotBoth' /\ RunOnce' /\ JobWhileBusy'
    BY <2>0, <2>1, <2>2, <2>4 DEF Placed, NotBoth, RunOnce, JobWhileBusy
  <2>7. QueuedIsPooled' /\ RunIsPooled'
    <3>1. \A u \in Requests : http[u] = "pooled" => http'[u] = "pooled"
      BY <2>0 DEF TypeOK
    <3>2. http'[r] = "pooled"
      BY <2>0 DEF TypeOK
    <3>3. QueuedIsPooled'
      BY <2>1, <2>2, <3>1, <3>2 DEF Placed, QueuedIsPooled
    <3>4. ASSUME NEW w \in Threads, pc[w] = "running" PROVE http'[job[w]] = "pooled"
      <4>1. job[w] \in Requests
        BY <3>4 DEF Placed, JobWhileBusy, TypeOK
      <4>2. QED  BY <3>1, <3>4, <4>1 DEF Placed, RunIsPooled
    <3>5. QED  BY <2>0, <3>3, <3>4 DEF RunIsPooled
  <2>8. PooledIsPlaced'
    <3> SUFFICES ASSUME NEW u \in Requests, http'[u] = "pooled"
                 PROVE  \/ \E i \in 1 .. Len(queue') : queue'[i] = u
                        \/ \E w \in Threads : pc'[w] = "running" /\ job'[w] = u
      BY DEF PooledIsPlaced
    <3>1. CASE u = r
      <4>1. Len(queue) + 1 \in 1 .. Len(queue')
        BY <2>1
      <4>2. QED  BY <2>1, <3>1, <4>1
    <3>2. CASE u # r
      <4>1. http[u] = "pooled"
        BY <2>0, <3>2 DEF TypeOK
      <4>2. 1 .. Len(queue) \subseteq 1 .. Len(queue')
        BY <2>1
      <4>3. QED  BY <2>0, <2>1, <4>1, <4>2 DEF Placed, PooledIsPlaced
    <3>3. QED  BY <3>1, <3>2
  <2>9. QED  BY <2>5, <2>6, <2>7, <2>8 DEF Placed
<1>2. CASE ~(Len(queue) < MaxDepth)
  <2>0. /\ http[r] = "idle" /\ http' = [http EXCEPT ![r] = "refused"]
        /\ UNCHANGED <<queue, pc, job>>
    BY <1>2 DEF Submit
  <2>1. \A u \in Requests : http'[u] = "pooled" <=> http[u] = "pooled"
    BY <2>0 DEF TypeOK
  <2>2. /\ \A i \in 1 .. Len(queue) : queue[i] \in Requests
        /\ \A w \in Threads : pc[w] = "running" => job[w] \in Requests
    BY DEF Placed, JobWhileBusy, TypeOK
  <2>3. QueuedIsPooled' /\ RunIsPooled' /\ PooledIsPlaced'
    BY <2>0, <2>1, <2>2 DEF Placed, QueuedIsPooled, RunIsPooled, PooledIsPlaced
  <2>4. QueuedOnce' /\ RunOnce' /\ NotBoth' /\ JobWhileBusy'
    BY <2>0 DEF Placed, QueuedOnce, RunOnce, NotBoth, JobWhileBusy
  <2>5. QED  BY <2>3, <2>4 DEF Placed
<1>3. QED  BY <1>1, <1>2

LEMMA PlacedTake ==
  ASSUME TypeOK, Placed, NEW w \in Threads, Test(w), ~LeavesWhenEmpty, queue # <<>>
  PROVE  Placed'
<1>0. /\ pc[w] = "test" /\ pc' = [pc EXCEPT ![w] = "running"]
      /\ job' = [job EXCEPT ![w] = Head(queue)]
      /\ queue' = Tail(queue) /\ http' = http
  BY DEF Test
<1>1. Len(queue) \in Nat \ {0}
  BY EmptySeq DEF TypeOK
<1>2. Head(queue) = queue[1] /\ queue[1] \in Requests /\ 1 \in 1 .. Len(queue)
  BY <1>1 DEF TypeOK
<1>3. Tail(queue) \in Seq(Requests) /\ Len(Tail(queue)) = Len(queue) - 1
  BY <1>1, HeadTailProperties DEF TypeOK
<1>4. \A i \in 1 .. Len(queue') : i + 1 \in 1 .. Len(queue) /\ queue'[i] = queue[i + 1]
  BY <1>0, <1>1, <1>3, HeadTailProperties DEF TypeOK
<1>5. /\ \A v \in Threads : job'[v] = IF v = w THEN queue[1] ELSE job[v]
      /\ \A v \in Threads : pc'[v] = IF v = w THEN "running" ELSE pc[v]
  BY <1>0, <1>2 DEF TypeOK
<1>6. QueuedOnce'
  <2> SUFFICES ASSUME NEW i \in 1 .. Len(queue'), NEW j \in 1 .. Len(queue'),
                      queue'[i] = queue'[j]
               PROVE  i = j
    BY DEF QueuedOnce
  <2>1. i + 1 = j + 1
    BY <1>4 DEF Placed, QueuedOnce
  <2>2. QED  BY <2>1
<1>7. RunOnce'
  BY <1>2, <1>5 DEF Placed, RunOnce, NotBoth
<1>8. NotBoth'
  <2> SUFFICES ASSUME NEW v \in Threads, pc'[v] = "running", NEW i \in 1 .. Len(queue')
               PROVE  queue'[i] # job'[v]
    BY DEF NotBoth
  <2>1. i + 1 # 1 /\ i + 1 \in 1 .. Len(queue) /\ queue'[i] = queue[i + 1]
    BY <1>4
  <2>2. CASE v = w
    BY <1>2, <1>5, <2>1, <2>2 DEF Placed, QueuedOnce
  <2>3. CASE v # w
    BY <1>5, <2>1, <2>3 DEF Placed, NotBoth
  <2>4. QED  BY <2>2, <2>3
<1>9. QueuedIsPooled' /\ RunIsPooled'
  BY <1>0, <1>2, <1>4, <1>5 DEF Placed, QueuedIsPooled, RunIsPooled
<1>10. PooledIsPlaced'
  <2> SUFFICES ASSUME NEW u \in Requests, http[u] = "pooled"
               PROVE  \/ \E i \in 1 .. Len(queue') : queue'[i] = u
                      \/ \E v \in Threads : pc'[v] = "running" /\ job'[v] = u
    BY <1>0 DEF PooledIsPlaced
  <2>1. CASE u = queue[1]
    BY <1>5, <2>1
  <2>2. ASSUME NEW i \in 1 .. Len(queue), queue[i] = u, u # queue[1]
        PROVE  \E j \in 1 .. Len(queue') : queue'[j] = u
    <3>1. i # 1  BY <2>2
    <3>2. i - 1 \in 1 .. Len(queue')  BY <1>0, <1>1, <1>3, <3>1
    <3>3. queue'[i - 1] = queue[(i - 1) + 1] /\ (i - 1) + 1 = i  BY <1>4, <3>2
    <3>4. QED  BY <2>2, <3>2, <3>3
  <2>3. ASSUME NEW v \in Threads, pc[v] = "running", job[v] = u
        PROVE  pc'[v] = "running" /\ job'[v] = u
    BY <1>0, <1>5, <2>3
  <2>4. QED  BY <2>1, <2>2, <2>3 DEF Placed, PooledIsPlaced
<1>11. JobWhileBusy'
  BY <1>2, <1>5, DrainAssumption DEF Placed, JobWhileBusy
<1>12. QED
  BY <1>6, <1>7, <1>8, <1>9, <1>10, <1>11 DEF Placed

LEMMA PlacedRespond ==
  ASSUME TypeOK, Placed, NEW w \in Threads, Respond(w)
  PROVE  Placed'
<1>0. /\ pc[w] = "running" /\ pc' = [pc EXCEPT ![w] = "ending"]
      /\ UNCHANGED <<queue, job>> /\ job[w] \in Requests
      /\ \E a \in {"answered", "cut"} : http' = [http EXCEPT ![job[w]] = a]
  BY DEF Respond, Placed, JobWhileBusy, TypeOK
<1>1. /\ http'[job[w]] # "pooled"
      /\ \A u \in Requests \ {job[w]} : http'[u] = http[u]
  BY <1>0 DEF TypeOK
<1>2. \A v \in Threads : pc'[v] = IF v = w THEN "ending" ELSE pc[v]
  BY <1>0 DEF TypeOK
<1>3. \A i \in 1 .. Len(queue) : queue[i] \in Requests \ {job[w]}
  BY <1>0 DEF Placed, NotBoth, TypeOK
<1>4. \A v \in Threads : pc'[v] = "running" => job[v] \in Requests \ {job[w]}
  BY <1>0, <1>2 DEF Placed, RunOnce, JobWhileBusy, TypeOK
<1>5. QueuedOnce' /\ RunOnce' /\ NotBoth'
  BY <1>0, <1>2 DEF Placed, QueuedOnce, RunOnce, NotBoth
<1>6. QueuedIsPooled' /\ RunIsPooled'
  BY <1>0, <1>1, <1>2, <1>3, <1>4 DEF Placed, QueuedIsPooled, RunIsPooled
<1>7. PooledIsPlaced'
  BY <1>0, <1>1, <1>2 DEF Placed, PooledIsPlaced
<1>8. JobWhileBusy'
  BY <1>0, <1>2 DEF Placed, JobWhileBusy
<1>9. QED  BY <1>5, <1>6, <1>7, <1>8 DEF Placed

LEMMA PlacedRelease ==
  ASSUME TypeOK, Placed, NEW w \in Threads, Release(w)
  PROVE  Placed'
<1>0. /\ pc[w] = "ending" /\ UNCHANGED <<queue, http>>
      /\ \A v \in Threads : pc'[v] = IF v = w THEN "test" ELSE pc[v]
      /\ \A v \in Threads : job'[v] = IF v = w THEN NoRequest ELSE job[v]
  BY DEF Release, TypeOK
<1>1. QueuedOnce' /\ RunOnce' /\ NotBoth'
  BY <1>0 DEF Placed, QueuedOnce, RunOnce, NotBoth
<1>2. QueuedIsPooled' /\ RunIsPooled'
  BY <1>0 DEF Placed, QueuedIsPooled, RunIsPooled
<1>3. PooledIsPlaced' /\ JobWhileBusy'
  BY <1>0 DEF Placed, PooledIsPlaced, JobWhileBusy
<1>4. QED  BY <1>1, <1>2, <1>3 DEF Placed

LEMMA PlacedNext == TypeOK /\ Placed /\ [Next]_vars => Placed'
<1> SUFFICES ASSUME TypeOK, Placed, [Next]_vars PROVE Placed'
  OBVIOUS
<1> USE DEF pool, drain, server
<1>1. ASSUME UNCHANGED <<http, pool>> PROVE Placed'
  BY <1>1, PlacedQuiet
<1>2. ASSUME NEW r \in Requests, Submit(r) \/ Notify(r) PROVE Placed'
  <2>1. CASE Notify(r)
    <3>1. UNCHANGED <<http, queue, job>>
          /\ (pc' = pc \/ \E w \in Threads : pc[w] = "waiting" /\ pc' = [pc EXCEPT ![w] = "test"])
      BY <2>1 DEF Notify, Waiting
    <3>2. QED  BY <3>1, PlacedQuiet DEF TypeOK
  <2>2. QED  BY <1>2, <2>1, PlacedSubmit
<1>3. ASSUME NEW w \in Threads, Thread(w) PROVE Placed'
  <2>1. CASE Test(w) /\ ~(~LeavesWhenEmpty /\ queue # <<>>)
    <3>1. /\ UNCHANGED <<http, queue, job>> /\ pc[w] = "test"
          /\ pc' = [pc EXCEPT ![w] = "exited"] \/ pc' = [pc EXCEPT ![w] = "waiting"]
      BY <2>1 DEF Test
    <3>2. QED  BY <3>1, PlacedQuiet DEF TypeOK
  <2>2. QED
    BY <1>3, <2>1, PlacedTake, PlacedRespond, PlacedRelease DEF Thread
<1>4. CASE Signal \/ StartDrains \/ TestDrained \/ DrainTimesOut \/ Quit \/ GraceEnds
  BY <1>1, <1>4 DEF Signal, StartDrains, TestDrained, DrainTimesOut, Quit, GraceEnds
<1>5. CASE (\E c \in Rpcs : RpcStarts(c) \/ RpcEnds(c)) \/ GrpcDown
  BY <1>1, <1>5 DEF RpcStarts, RpcEnds, GrpcDown
<1>6. CASE Probe \/ ProbeEnds \/ RefresherExits \/ RunReturns \/ RaiseStop \/ Return
           \/ Over \/ UNCHANGED vars
  BY <1>1, <1>6 DEF Probe, ProbeEnds, RefresherExits, RunReturns, RaiseStop, Return, Over, vars
<1>7. CASE NotifyAll
  BY <1>7, PlacedQuiet DEF NotifyAll, TypeOK
<1>8. QED
  BY <1>2, <1>3, <1>4, <1>5, <1>6, <1>7 DEF Next, Main

LEMMA PlacedInit == Init => Placed
<1> SUFFICES ASSUME Init PROVE Placed
  OBVIOUS
<1>1. queue = <<>> /\ Len(queue) = 0
      /\ (\A w \in Threads : pc[w] = "test" /\ job[w] = NoRequest)
      /\ (\A r \in Requests : http[r] = "idle")
  BY DEF Init
<1>2. QED
  BY <1>1 DEF Placed, QueuedOnce, RunOnce, NotBoth, QueuedIsPooled, RunIsPooled,
    PooledIsPlaced, JobWhileBusy

----------------------------------------------------------------------------
(* The order in which the server goes down.                                *)

CutAfterQuit == loop = "up" => \A r \in Requests : http[r] # "cut"

QuitAfterVerdict == loop = "quit" => drainer \in {"drained", "timed_out"}

MainAfterQuit == main # "serving" => loop = "quit"

StopRaised == stop => main \in {"stopped", "joining_pool", "ended"}

ExitedWhenEmpty == \A w \in Threads : pc[w] = "exited" => stop /\ queue = <<>>

EndedWhenExited == main = "ended" => \A w \in Threads : pc[w] = "exited"

\* No request arrives at the pool twice, nor leaves it without an answer.
EarlyIsIn == \A r \in early : http[r] \in {"pooled", "answered", "cut"}

\* A drained verdict was reached while the loop was up, over an empty pool.
Phases ==
  /\ CutAfterQuit /\ QuitAfterVerdict /\ MainAfterQuit
  /\ StopRaised /\ ExitedWhenEmpty /\ EndedWhenExited
  /\ EarlyIsIn /\ DrainedMeansAnswered

\* While the loop is up, an idle pool has answered what it was given.
LEMMA IdleMeansAnswered ==
  ASSUME TypeOK, Counted, Placed, Phases, Idle, loop = "up"
  PROVE  \A r \in early : http[r] = "answered"
<1>1. Busy = {}
  <2>1. Cardinality(Busy) = 0
    BY DEF Counted, Idle
  <2>2. QED  BY <2>1, BusyFinite, FS_EmptySet
<1>2. \A w \in Threads : pc[w] # "running"
  BY <1>1 DEF Busy
<1>3. \A r \in Requests : http[r] # "pooled"
  <2>1. 1 .. Len(queue) = {}
    BY DEF Idle
  <2>2. QED  BY <1>2, <2>1 DEF Placed, PooledIsPlaced
<1>4. QED
  BY <1>3 DEF Phases, CutAfterQuit, EarlyIsIn, TypeOK

LEMMA PhasesNext ==
  TypeOK /\ Counted /\ Placed /\ Phases /\ [Next]_vars => Phases'
<1> SUFFICES ASSUME TypeOK, Counted, Placed, Phases, [Next]_vars PROVE Phases'
  OBVIOUS
<1> USE DEF Phases, CutAfterQuit, QuitAfterVerdict, MainAfterQuit, StopRaised,
      ExitedWhenEmpty, EndedWhenExited, EarlyIsIn, DrainedMeansAnswered,
      pool, drain, server
<1>1. ASSUME NEW r \in Requests, Submit(r) PROVE Phases'
  <2>1. /\ loop = "up" /\ http[r] = "idle" /\ r \notin early
        /\ \E a \in {"refused", "pooled"} : http' = [http EXCEPT ![r] = a]
    BY <1>1 DEF Submit
  <2>2. UNCHANGED <<pc, stop, drain, server>>
    BY <1>1 DEF Submit
  <2>3. /\ http'[r] # "cut"
        /\ \A u \in Requests : u # r => http'[u] = http[u]
    BY <2>1 DEF TypeOK
  <2>4. CutAfterQuit' /\ EarlyIsIn' /\ DrainedMeansAnswered'
    BY <2>1, <2>2, <2>3 DEF TypeOK
  <2>5. \A w \in Threads : pc[w] # "exited"
    BY <2>1
  <2>6. ExitedWhenEmpty' /\ EndedWhenExited'
    BY <2>2, <2>5
  <2>7. QED  BY <2>2, <2>4, <2>6
<1>2. ASSUME NEW r \in Requests, Notify(r) PROVE Phases'
  <2>1. UNCHANGED <<http, queue, stop, drain, server>>
    BY <1>2 DEF Notify
  <2>2. \A w \in Threads : pc'[w] = "exited" <=> pc[w] = "exited"
    BY <1>2 DEF Notify, Waiting, TypeOK
  <2>3. QED  BY <2>1, <2>2
<1>3. ASSUME NEW w \in Threads, Test(w) PROVE Phases'
  <2>1. UNCHANGED <<http, stop, drain, server>> /\ pc[w] = "test"
    BY <1>3 DEF Test
  <2>2. main # "ended"
    BY <2>1
  <2>3. ExitedWhenEmpty'
    <3>1. CASE LeavesWhenEmpty
      BY <1>3, <2>1, <3>1 DEF Test, LeavesWhenEmpty, TypeOK
    <3>2. CASE ~LeavesWhenEmpty /\ queue # <<>>
      <4>1. \A v \in Threads : pc'[v] # "exited"
        BY <1>3, <3>2 DEF Test, TypeOK
      <4>2. QED  BY <4>1
    <3>3. CASE ~LeavesWhenEmpty /\ queue = <<>>
      BY <1>3, <2>1, <3>3 DEF Test, TypeOK
    <3>4. QED  BY <3>1, <3>2, <3>3
  <2>4. QED  BY <2>1, <2>2, <2>3
<1>4. ASSUME NEW w \in Threads, Respond(w) PROVE Phases'
  <2>1. /\ UNCHANGED <<queue, stop, drain, server>>
        /\ pc[w] = "running" /\ pc' = [pc EXCEPT ![w] = "ending"]
        /\ http' = [http EXCEPT ![job[w]] = IF loop = "up" THEN "answered" ELSE "cut"]
    BY <1>4 DEF Respond
  <2>2. job[w] \in Requests /\ http[job[w]] = "pooled"
    BY <2>1 DEF Placed, RunIsPooled, JobWhileBusy, TypeOK
  <2>3. /\ http'[job[w]] = IF loop = "up" THEN "answered" ELSE "cut"
        /\ \A u \in Requests : u # job[w] => http'[u] = http[u]
    BY <2>1, <2>2 DEF TypeOK
  <2>4. CutAfterQuit' /\ EarlyIsIn'
    BY <2>1, <2>2, <2>3 DEF TypeOK
  <2>5. DrainedMeansAnswered'
    BY <2>1, <2>2, <2>3 DEF TypeOK
  <2>6. \A v \in Threads : pc'[v] = "exited" <=> pc[v] = "exited"
    BY <2>1 DEF TypeOK
  <2>7. QED  BY <2>1, <2>4, <2>5, <2>6
<1>5. ASSUME NEW w \in Threads, Release(w) PROVE Phases'
  <2>1. /\ UNCHANGED <<http, queue, stop, early, server>>
        /\ pc[w] = "ending" /\ pc' = [pc EXCEPT ![w] = "test"]
    BY <1>5 DEF Release
  <2>2. \/ drainer' = drainer
        \/ drainer = "waiting" /\ drainer' = "test"
    BY <1>5 DEF Release, DrainNotified
  <2>3. \A v \in Threads : pc'[v] = "exited" <=> pc[v] = "exited"
    BY <2>1 DEF TypeOK
  <2>4. QED  BY <2>1, <2>2, <2>3
<1>6. CASE Signal
  <2>1. /\ UNCHANGED <<http, queue, pc, stop, server>> /\ loop = "up"
        /\ drainer' = "started" /\ early' = {r \in Requests : http[r] = "pooled"}
    BY <1>6 DEF Signal
  <2>2. QED  BY <2>1
<1>7. CASE TestDrained \/ DrainTimesOut
  <2>1. /\ UNCHANGED <<http, queue, pc, stop, early, server>>
        /\ drainer \in {"test", "waiting"}
        /\ drainer' = "drained" => Idle
    BY <1>7 DEF TestDrained, DrainTimesOut
  <2>2. loop = "up"
    BY <2>1 DEF TypeOK
  <2>3. DrainedMeansAnswered'
    BY <2>1, <2>2, IdleMeansAnswered
  <2>4. QED  BY <2>1, <2>2, <2>3
<1>8. CASE StartDrains \/ Quit \/ GraceEnds
  BY <1>8 DEF StartDrains, Quit, GraceEnds, TypeOK
<1>9. CASE (\E c \in Rpcs : RpcStarts(c) \/ RpcEnds(c)) \/ GrpcDown
  BY <1>9 DEF RpcStarts, RpcEnds, GrpcDown
<1>10. CASE Probe \/ ProbeEnds \/ RefresherExits \/ Over \/ UNCHANGED vars
  BY <1>10 DEF Probe, ProbeEnds, RefresherExits, Over, vars
<1>11. CASE RunReturns \/ RaiseStop \/ Return
  BY <1>11 DEF RunReturns, RaiseStop, Return
<1>12. CASE NotifyAll
  <2>1. /\ UNCHANGED <<http, queue, stop, drain, loop>>
        /\ main = "stopped" /\ main' = "joining_pool"
    BY <1>12 DEF NotifyAll
  <2>2. \A w \in Threads : pc'[w] = "exited" <=> pc[w] = "exited"
    BY <1>12 DEF NotifyAll, TypeOK
  <2>3. QED  BY <2>1, <2>2
<1>13. QED
  BY <1>1, <1>2, <1>3, <1>4, <1>5, <1>6, <1>7, <1>8, <1>9, <1>10, <1>11, <1>12
  DEF Next, Thread, Main

LEMMA PhasesAlways == Spec => [](Typed /\ Placed /\ Phases)
<1>1. Init => Phases
  BY DEF Init, Phases, CutAfterQuit, QuitAfterVerdict, MainAfterQuit, StopRaised,
    ExitedWhenEmpty, EndedWhenExited, EarlyIsIn, DrainedMeansAnswered
<1>2. Typed /\ Placed /\ [Next]_vars => Placed'
  BY PlacedNext DEF Typed
<1>3. Typed /\ Placed /\ Phases /\ [Next]_vars => Phases'
  BY PhasesNext DEF Typed
<1>4. QED
  BY <1>1, <1>2, <1>3, PlacedInit, TypedAlways, PTL DEF Spec

\* A full drain: every request that was in the pool at the signal has been
\* answered while there was a loop to send the answer.
THEOREM FullDrainAnswersAll == Spec => []DrainedMeansAnswered
<1>1. Phases => DrainedMeansAnswered
  BY DEF Phases
<1>2. QED  BY <1>1, PhasesAlways, PTL

\* The destructor joins its threads only after they have emptied the queue.
THEOREM PoolDropsNothing == Spec => []NothingDropped
<1>1. Typed /\ Placed /\ Phases => NothingDropped
  <2> SUFFICES ASSUME TypeOK, Counted, Placed, Phases, main = "ended"
               PROVE  /\ Idle
                      /\ \A r \in Requests : http[r] # "pooled"
                      /\ \A w \in Threads : job[w] = NoRequest
    BY DEF Typed, NothingDropped
  <2>1. \A w \in Threads : pc[w] = "exited" /\ queue = <<>>
    BY DEF Phases, EndedWhenExited, ExitedWhenEmpty
  <2>2. 1 \in Threads
    BY DrainAssumption DEF Threads
  <2>3. queue = <<>> /\ 1 .. Len(queue) = {}
    BY <2>1, <2>2
  <2>4. Busy = {}
    BY <2>1 DEF Busy
  <2>5. inflight = 0
    BY <2>4, FS_EmptySet DEF Counted
  <2>6. \A w \in Threads : job[w] = NoRequest
    BY <2>1 DEF Placed, JobWhileBusy
  <2>7. \A r \in Requests : http[r] # "pooled"
    BY <2>1, <2>3 DEF Placed, PooledIsPlaced
  <2>8. QED  BY <2>3, <2>5, <2>6, <2>7 DEF Idle
<1>2. QED  BY <1>1, PhasesAlways, PTL

\* The safety of the work pool and the drain as their run checks it, for any
\* number of requests, calls and pool threads.
THEOREM DrainSafe == Spec => []Safety
  BY DrainTypes, FullDrainAnswersAll, PoolDropsNothing, PTL DEF Safety

====
