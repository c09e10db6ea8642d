---- MODULE DispatcherProofs ----
(***************************************************************************)
(* Theorems of the dispatcher for any number of workers, tasks and queue   *)
(* slots, with or without a request timeout, recycling and hanging tasks.  *)
(***************************************************************************)
EXTENDS Dispatcher, SequenceTheorems, TLAPS

\* The type invariant: every variable keeps its shape under every action of
\* callers, workers, watchdog, clocks and destructor.
THEOREM TypeCorrect == Spec => []TypeOK
<1>1. Init => TypeOK
  <2> SUFFICES ASSUME Init PROVE TypeOK
    OBVIOUS
  <2>1. Asleep \in WatchdogStates
    BY DispatcherAssumption DEF Asleep, WatchdogStates, Workers
  <2>2. queue \in Seq(Tasks)
    BY DEF Init
  <2>3. QED  BY <2>1, <2>2 DEF Init, TypeOK, Outcomes
<1>2. TypeOK /\ [Next]_vars => TypeOK'
  <2> SUFFICES ASSUME TypeOK, [Next]_vars PROVE TypeOK'
    OBVIOUS
  <2> USE DispatcherAssumption DEF TypeOK, Outcomes, Calls, Returns, Goes,
        caller, work, clocks, slot, life, history
  <2>1. ASSUME NEW t \in Tasks, Caller(t) PROVE TypeOK'
    <3>1. CASE Stamp(t)  BY <3>1 DEF Stamp
    <3>2. CASE Enqueue(t)
      <4>1. Append(queue, t) \in Seq(Tasks)
        OBVIOUS
      <4>2. queue' = queue \/ queue' = Append(queue, t)  BY <3>2 DEF Enqueue
      <4>3. queue' \in Seq(Tasks)  BY <4>1, <4>2
      <4>4. PICK c \in {"queued", "returned"} : call' = [call EXCEPT ![t] = c]
        BY <3>2 DEF Enqueue
      <4>5. answer' = answer \/ answer' = [answer EXCEPT ![t] = "exhausted"]
        BY <3>2 DEF Enqueue
      <4>6. call' \in [Tasks -> {"idle", "stamped", "queued", "waiting", "returned"}]
        BY <4>4
      <4>7. UNCHANGED <<deadline, future, pc, held, flag, clocks, slot, wd, life, history>>
        BY <3>2 DEF Enqueue
      <4>8. QED  BY <4>3, <4>5, <4>6, <4>7
    <3>3. CASE BeginWait(t)  BY <3>3 DEF BeginWait
    <3>4. CASE GiveUp(t)  BY <3>4 DEF GiveUp
    <3>5. CASE TakeAnswer(t)  BY <3>5 DEF TakeAnswer
    <3>6. QED  BY <2>1, <3>1, <3>2, <3>3, <3>4, <3>5 DEF Caller
  <2>2. ASSUME NEW w \in Workers, Worker(w) PROVE TypeOK'
    <3>1. CASE Pop(w)  BY <3>1 DEF Pop, AfterPop
    <3>2. CASE Exit(w)  BY <3>2 DEF Exit
    <3>3. CASE Recycle(w)
      <4>1. entry' \in [Workers -> {"ok", "suspect", "dead"}]  BY <3>3 DEF Recycle
      <4>2. fault' \in [Workers -> BOOLEAN]
        <5>1. fault' = fault \/ fault' = [fault EXCEPT ![w] = FALSE]
          BY <3>3 DEF Recycle
        <5> QED  BY <5>1, Zenon
      <4>3. QED  BY <3>3, <4>1, <4>2 DEF Recycle
    <3>4. CASE ClearRequest(w)  BY <3>4 DEF ClearRequest
    <3>5. CASE MarkStarted(w)  BY <3>5 DEF MarkStarted
    <3>6. CASE Drop(w)  BY <3>6 DEF Drop
    <3>7. CASE Run(w)  BY <3>7 DEF Run
    <3>8. CASE Finish(w)
      <4>1. entry' \in [Workers -> {"ok", "suspect", "dead"}]  BY <3>8 DEF Finish
      <4>2. fault' \in [Workers -> BOOLEAN]
        <5>1. fault' = fault \/ fault' = [fault EXCEPT ![w] = TRUE]
          BY <3>8 DEF Finish
        <5> QED  BY <5>1, Zenon
      <4>3. future' \in [Tasks -> Outcomes \cup {"empty"}]
        <5>1. PICK out \in {"value", "exception"} : future' = [future EXCEPT ![held[w]] = out]
          BY <3>8 DEF Finish
        <5> QED  BY <5>1
      <4>4. pc' = [pc EXCEPT ![w] = "finished"]  BY <3>8 DEF Finish, AfterTask
      <4>5. QED  BY <3>8, <4>1, <4>2, <4>3, <4>4 DEF Finish
    <3>9. CASE MarkIdle(w)  BY <3>9 DEF MarkIdle
    <3>10. CASE Settle(w)  BY <3>10 DEF Settle, Consumed, AfterDestroyed
    <3>11. QED
      BY <2>2, <3>1, <3>2, <3>3, <3>4, <3>5, <3>6, <3>7, <3>8, <3>9, <3>10 DEF Worker
  <2>3. CASE Watchdog
    <3>0. NextWorker \in WatchdogStates
      <4>1. wd.i \in Workers  BY DEF WatchdogStates
      <4>2. Asleep \in WatchdogStates
        BY DEF Asleep, WatchdogStates, Workers
      <4>3. ~LastWorker => wd.i + 1 \in Workers
        BY <4>1 DEF LastWorker, Workers
      <4>4. ~LastWorker => [Asleep EXCEPT !.at = "scan", !.i = wd.i + 1] \in WatchdogStates
        BY <4>3 DEF Asleep, WatchdogStates
      <4>5. QED  BY <4>2, <4>4 DEF NextWorker
    <3>1. CASE Wake  BY <3>1 DEF Wake, WatchdogStates
    <3>2. CASE ReadStarted
      <4>1. [wd EXCEPT !.at = "judge", !.seen = started[wd.i], !.task = held[wd.i]]
              \in WatchdogStates
        BY DEF WatchdogStates
      <4>2. wd' \in WatchdogStates  BY <3>0, <3>2, <4>1 DEF ReadStarted
      <4>3. QED  BY <3>2, <4>2 DEF ReadStarted
    <3>3. CASE Judge
      <4>0. [wd EXCEPT !.at = "flag"] \in WatchdogStates  BY DEF WatchdogStates
      <4>1. wd' \in WatchdogStates  BY <3>0, <3>3, <4>0 DEF Judge
      <4>2. process' \in {"up", "killed", "crashed", "destroyed"}
        BY <3>3 DEF Judge
      <4>3. QED  BY <3>3, <4>1, <4>2 DEF Judge
    <3>4. CASE RequestRecycle  BY <3>4 DEF RequestRecycle, WatchdogStates
    <3>5. CASE StampRequest
      <4>1. wd' \in WatchdogStates  BY <3>0, <3>5 DEF StampRequest
      <4>2. requested' \in [Workers -> {"none", "recent", "overdue"}]
        BY <3>5 DEF StampRequest, RequestTime
      <4>3. wd.i \in Workers /\ wd.task \in Tasks \cup {NoTask}
        BY DEF WatchdogStates
      <4>4. accused' \in [Workers -> Tasks \cup {NoTask}]
        BY <3>5, <4>3 DEF StampRequest
      <4>5. QED  BY <3>5, <4>1, <4>2, <4>4 DEF StampRequest
    <3>6. QED  BY <2>3, <3>1, <3>2, <3>3, <3>4, <3>5 DEF Watchdog
  <2>4. CASE Time
    <3>1. ASSUME NEW t \in Tasks, DeadlineElapses(t) PROVE TypeOK'
      BY <3>1 DEF DeadlineElapses
    <3>2. ASSUME NEW w \in Workers, TaskOverruns(w) PROVE TypeOK'
      BY <3>2 DEF TaskOverruns
    <3>3. ASSUME NEW w \in Workers, RequestAges(w) PROVE TypeOK'
      BY <3>3 DEF RequestAges
    <3>4. QED  BY <2>4, <3>1, <3>2, <3>3 DEF Time
  <2>5. CASE Shutdown  BY <2>5 DEF Shutdown
  <2>6. CASE JoinAll  BY <2>6 DEF JoinAll
  <2>7. CASE Ended \/ UNCHANGED vars  BY <2>7 DEF Ended, vars
  <2>8. QED
    BY <2>1, <2>2, <2>3, <2>4, <2>5, <2>6, <2>7 DEF Next
<1>3. QED  BY <1>1, <1>2, PTL DEF Spec

----------------------------------------------------------------------------
(* Ownership of tasks: the inductive strengthening of OneOwner, NoLostTask  *)
(* and DrainedWhenDestroyed.                                               *)

Unrun == {"popped", "ready", "cleared", "started", "running"}

HoldsWhileBusy == \A w \in Workers : held[w] = NoTask <=> pc[w] \in {"wait", "exited"}

\* Only a task whose caller holds a future is queued or held ...
QueuedIsAccepted == \A i \in 1 .. Len(queue) : Accepted(queue[i])
HeldIsAccepted   == \A w \in Workers : held[w] # NoTask => Accepted(held[w])

SetIsAccepted    == \A t \in Tasks : future[t] # "empty" => Accepted(t)

\* ... and its future is open until a worker has run or settled it.
QueuedIsUnset == \A i \in 1 .. Len(queue) : future[queue[i]] = "empty"
HeldIsUnset   == \A w \in Workers : pc[w] \in Unrun => future[held[w]] = "empty"

\* A worker leaves an empty queue for good: nothing is pushed after stop_.
ExitIsFinal == \A w \in Workers : pc[w] = "exited" => stop /\ queue = <<>>
JoinedAll   == process = "destroyed" => \A w \in Workers : pc[w] = "exited"

Ownership ==
  /\ OneOwner /\ NoLostTask
  /\ HoldsWhileBusy
  /\ QueuedIsAccepted /\ HeldIsAccepted /\ SetIsAccepted
  /\ QueuedIsUnset /\ HeldIsUnset
  /\ ExitIsFinal /\ JoinedAll

\* A step that moves busy workers along their loop, and leaves the queue, the
\* futures and the callers alone, keeps the ownership of every task.
LEMMA QuietStep ==
  ASSUME TypeOK, Ownership,
         UNCHANGED <<call, answer, future, queue, held, stop>>,
         \A w \in Workers :
           \/ pc'[w] = pc[w]
           \/ /\ pc[w] \notin {"wait", "exited"} /\ pc'[w] \notin {"wait", "exited"}
              /\ pc'[w] \in Unrun => pc[w] \in Unrun,
         process' = "destroyed" =>
           process = "destroyed" \/ \A w \in Workers : pc[w] = "exited"
  PROVE  Ownership'
<1> USE DEF Ownership
<1>1. OneOwner'  BY DEF OneOwner, Holders, InQueue
<1>2. NoLostTask'  BY DEF NoLostTask, Accepted, Holders, InQueue
<1>3. HoldsWhileBusy'  BY DEF HoldsWhileBusy
<1>4. QueuedIsAccepted'  BY DEF QueuedIsAccepted, Accepted
<1>5. HeldIsAccepted'  BY DEF HeldIsAccepted, Accepted
<1>6. QueuedIsUnset'  BY DEF QueuedIsUnset
<1>7. HeldIsUnset'  BY DEF HeldIsUnset
<1>8. ExitIsFinal'  BY DEF ExitIsFinal
<1>9. JoinedAll'
  <2> SUFFICES ASSUME process' = "destroyed", NEW w \in Workers PROVE pc'[w] = "exited"
    BY DEF JoinedAll
  <2>1. pc[w] = "exited"  BY DEF JoinedAll
  <2>2. QED  BY <2>1
<1>10. SetIsAccepted'  BY DEF SetIsAccepted, Accepted
<1>11. QED
  BY <1>1, <1>2, <1>3, <1>4, <1>5, <1>6, <1>7, <1>8, <1>9, <1>10

\* What Append and Tail do to the queued tasks.
LEMMA PushedQueue ==
  ASSUME NEW q \in Seq(Tasks), NEW t \in Tasks
  PROVE  /\ Len(Append(q, t)) = Len(q) + 1
         /\ \A i \in 1 .. Len(q) : Append(q, t)[i] = q[i]
         /\ Append(q, t)[Len(q) + 1] = t
  OBVIOUS

LEMMA PoppedQueue ==
  ASSUME NEW q \in Seq(Tasks), q # <<>>
  PROVE  /\ Len(q) \in Nat \ {0}
         /\ Head(q) = q[1] /\ Head(q) \in Tasks
         /\ Len(Tail(q)) = Len(q) - 1
         /\ \A i \in 1 .. Len(Tail(q)) : i + 1 \in 1 .. Len(q) /\ Tail(q)[i] = q[i + 1]
<1>1. Len(q) \in Nat \ {0}
  BY EmptySeq
<1>2. Head(q) = q[1] /\ q[1] \in Tasks
  BY <1>1
<1>3. Tail(q) \in Seq(Tasks) /\ Len(Tail(q)) = Len(q) - 1
  BY <1>1, HeadTailProperties
<1>4. \A i \in 1 .. Len(Tail(q)) : i + 1 \in 1 .. Len(q) /\ Tail(q)[i] = q[i + 1]
  BY <1>1, <1>3, HeadTailProperties
<1>5. QED  BY <1>1, <1>2, <1>3, <1>4

\* A caller that neither gains nor loses a place in the pool keeps it too.
LEMMA AcceptanceKept ==
  ASSUME TypeOK, Ownership,
         UNCHANGED <<future, queue, pc, held, stop, process>>,
         \A t \in Tasks : Accepted(t)' <=> Accepted(t)
  PROVE  Ownership'
<1> USE DEF Ownership
<1>1. OneOwner'  BY DEF OneOwner, Holders, InQueue
<1>2. NoLostTask'  BY DEF NoLostTask, Holders, InQueue
<1>3. HoldsWhileBusy' /\ HeldIsUnset' /\ QueuedIsUnset' /\ ExitIsFinal' /\ JoinedAll'
  BY DEF HoldsWhileBusy, HeldIsUnset, QueuedIsUnset, ExitIsFinal, JoinedAll
<1>4. QueuedIsAccepted'
  <2> SUFFICES ASSUME NEW i \in 1 .. Len(queue) PROVE Accepted(queue[i])'
    BY DEF QueuedIsAccepted
  <2>1. queue[i] \in Tasks /\ Accepted(queue[i])
    BY DEF QueuedIsAccepted, TypeOK
  <2>2. Accepted(queue[i])' <=> (\E t \in Tasks : t = queue[i] /\ Accepted(t)')
    BY <2>1 DEF Accepted
  <2>3. QED  BY <2>1, <2>2
<1>5. HeldIsAccepted'
  <2> SUFFICES ASSUME NEW w \in Workers, held[w] # NoTask PROVE Accepted(held[w])'
    BY DEF HeldIsAccepted
  <2>1. held[w] \in Tasks /\ Accepted(held[w])
    BY DEF HeldIsAccepted, TypeOK
  <2>2. Accepted(held[w])' <=> (\E t \in Tasks : t = held[w] /\ Accepted(t)')
    BY <2>1 DEF Accepted
  <2>3. QED  BY <2>1, <2>2
<1>6. SetIsAccepted'  BY DEF SetIsAccepted
<1>7. QED  BY <1>1, <1>2, <1>3, <1>4, <1>5, <1>6

\* A caller's step keeps the ownership: only a call that was not in the pool
\* pushes its task, and a call that returns leaves its task where it is.
LEMMA CallerOwnership ==
  ASSUME TypeOK, Ownership, NEW t \in Tasks, Caller(t)
  PROVE  Ownership'
<1> USE DispatcherAssumption DEF Calls, Returns, caller, work, clocks, slot, life, history
<1>1. CASE Stamp(t)
  <2>1. \A u \in Tasks : Accepted(u)' <=> Accepted(u)
    BY <1>1 DEF Stamp, Accepted, TypeOK
  <2>2. UNCHANGED <<future, queue, pc, held, stop, process>>
    BY <1>1 DEF Stamp
  <2>3. QED  BY <2>1, <2>2, AcceptanceKept
<1>2. CASE Enqueue(t) /\ Len(queue) >= MaxQueue
  <2>1. \A u \in Tasks : Accepted(u)' <=> Accepted(u)
    BY <1>2 DEF Enqueue, Accepted, TypeOK
  <2>2. UNCHANGED <<future, queue, pc, held, stop, process>>
    BY <1>2 DEF Enqueue, TypeOK
  <2>3. QED  BY <2>1, <2>2, AcceptanceKept
<1>3. CASE Enqueue(t) /\ Len(queue) < MaxQueue
  <2>0. /\ UNCHANGED <<answer, future, pc, held, stop, process>>
        /\ call' = [call EXCEPT ![t] = "queued"]
        /\ queue' = Append(queue, t)
        /\ call[t] \in {"idle", "stamped"} /\ ~stop /\ process = "up"
    BY <1>3 DEF Enqueue, TypeOK, Up
  <2>1. ~Accepted(t) /\ Accepted(t)'
    BY <2>0 DEF Accepted, TypeOK
  <2>2. \A u \in Tasks : Accepted(u) => Accepted(u)'
    BY <2>0, <2>1 DEF Accepted, TypeOK
  <2>3. \A u \in Tasks : Accepted(u)' => Accepted(u) \/ u = t
    BY <2>0 DEF Accepted, TypeOK
  <2>4. future[t] = "empty"
    BY <2>1 DEF Ownership, SetIsAccepted
  <2>5. \A i \in 1 .. Len(queue) : queue[i] # t /\ queue[i] \in Tasks
    BY <2>1 DEF Ownership, QueuedIsAccepted, TypeOK
  <2>6. \A w \in Workers : held[w] # t
    BY <2>1 DEF Ownership, HeldIsAccepted
  <2>7. /\ Len(queue) \in Nat
        /\ Len(queue') = Len(queue) + 1
        /\ \A i \in 1 .. Len(queue) : queue'[i] = queue[i]
        /\ queue'[Len(queue) + 1] = t
    BY <2>0, PushedQueue DEF TypeOK
  <2>8. \A i \in 1 .. Len(queue') : i \in 1 .. Len(queue) \/ i = Len(queue) + 1
    BY <2>7
  <2>9. OneOwner'
    <3>1. \A i, j \in 1 .. Len(queue') : queue'[i] = queue'[j] => i = j
      BY <2>5, <2>7, <2>8 DEF Ownership, OneOwner
    <3>2. \A u \in Tasks : Holders(u)' = Holders(u)
      BY <2>0 DEF Holders
    <3>3. \A u \in Tasks : InQueue(u)' => InQueue(u) \/ u = t
      BY <2>7, <2>8 DEF InQueue
    <3>4. Holders(t) = {}
      BY <2>6 DEF Holders
    <3>5. \A u \in Tasks : \A v, w \in Holders(u)' : v = w
      BY <3>2 DEF Ownership, OneOwner
    <3>6. \A u \in Tasks : InQueue(u)' => Holders(u)' = {}
      BY <3>2, <3>3, <3>4 DEF Ownership, OneOwner
    <3>7. QED  BY <3>1, <3>5, <3>6 DEF OneOwner
  <2>10. NoLostTask'
    <3> SUFFICES ASSUME NEW u \in Tasks, Accepted(u)', future'[u] = "empty"
                 PROVE  InQueue(u)' \/ Holders(u)' # {}
      BY DEF NoLostTask
    <3>1. CASE u = t
      <4>1. Len(queue) + 1 \in 1 .. Len(queue')  BY <2>7
      <4>2. QED  BY <3>1, <4>1, <2>7 DEF InQueue
    <3>2. CASE u # t
      <4>1. InQueue(u) \/ Holders(u) # {}
        BY <3>2, <2>0, <2>3 DEF Ownership, NoLostTask
      <4>2. InQueue(u) => InQueue(u)'
        <5> SUFFICES ASSUME NEW i \in 1 .. Len(queue), queue[i] = u PROVE InQueue(u)'
          BY DEF InQueue
        <5>1. i \in 1 .. Len(queue') /\ queue'[i] = u  BY <2>7
        <5>2. QED  BY <5>1 DEF InQueue
      <4>3. Holders(u)' = Holders(u)  BY <2>0 DEF Holders
      <4>4. QED  BY <4>1, <4>2, <4>3
    <3>3. QED  BY <3>1, <3>2
  <2>11. HoldsWhileBusy' /\ JoinedAll'
    BY <2>0 DEF Ownership, HoldsWhileBusy, JoinedAll
  <2>12. QueuedIsAccepted'
    <3> SUFFICES ASSUME NEW i \in 1 .. Len(queue') PROVE Accepted(queue[i])'
      BY DEF QueuedIsAccepted
    <3>1. CASE i \in 1 .. Len(queue)
      <4>1. queue[i] \in Tasks /\ Accepted(queue[i]) /\ queue'[i] = queue[i]
        BY <3>1, <2>5, <2>7 DEF Ownership, QueuedIsAccepted
      <4>2. QED  BY <4>1, <2>2, <2>0 DEF Accepted
    <3>2. CASE i = Len(queue) + 1
      BY <3>2, <2>7, <2>0 DEF Accepted, TypeOK
    <3>3. QED  BY <3>1, <3>2, <2>8
  <2>13. HeldIsAccepted'
    <3> SUFFICES ASSUME NEW w \in Workers, held[w] # NoTask PROVE Accepted(held[w])'
      BY <2>0 DEF HeldIsAccepted
    <3>1. held[w] \in Tasks /\ Accepted(held[w]) /\ held'[w] = held[w]
      BY <2>0 DEF Ownership, HeldIsAccepted, TypeOK
    <3>2. QED  BY <3>1, <2>2, <2>0 DEF Accepted
  <2>14. QueuedIsUnset'
    BY <2>0, <2>4, <2>7, <2>8 DEF Ownership, QueuedIsUnset
  <2>15. HeldIsUnset' /\ ExitIsFinal'
    BY <2>0 DEF Ownership, HeldIsUnset, ExitIsFinal
  <2>16. SetIsAccepted'
    BY <2>0, <2>2 DEF Ownership, SetIsAccepted
  <2>17. QED
    BY <2>9, <2>10, <2>11, <2>12, <2>13, <2>14, <2>15, <2>16 DEF Ownership
<1>4. CASE BeginWait(t) \/ GiveUp(t) \/ TakeAnswer(t)
  <2>1. \A u \in Tasks : Accepted(u)' <=> Accepted(u)
    BY <1>4 DEF BeginWait, GiveUp, TakeAnswer, Accepted, TypeOK, Outcomes
  <2>2. UNCHANGED <<future, queue, pc, held, stop, process>>
    BY <1>4 DEF BeginWait, GiveUp, TakeAnswer
  <2>3. QED  BY <2>1, <2>2, AcceptanceKept
<1>5. QED  BY <1>1, <1>2, <1>3, <1>4 DEF Caller, Enqueue, TypeOK

\* Popping hands the front task from the queue to one idle worker.
LEMMA PopOwnership ==
  ASSUME TypeOK, Ownership, NEW w \in Workers, Pop(w)
  PROVE  Ownership'
<1>0. /\ UNCHANGED <<call, answer, future, stop, process>>
      /\ pc[w] = "wait" /\ pc' = [pc EXCEPT ![w] = "popped"]
      /\ queue # <<>> /\ queue' = Tail(queue)
      /\ held' = [held EXCEPT ![w] = Head(queue)]
      /\ process = "up"
  BY DEF Pop, AfterPop, Goes, Up, caller, life
<1>1. /\ Len(queue) \in Nat \ {0}
      /\ Head(queue) = queue[1] /\ Head(queue) \in Tasks
      /\ Len(queue') = Len(queue) - 1
      /\ \A i \in 1 .. Len(queue') : i + 1 \in 1 .. Len(queue) /\ queue'[i] = queue[i + 1]
  BY <1>0, PoppedQueue DEF TypeOK
<1>2. 1 \in 1 .. Len(queue)
  BY <1>1
<1>3. \A v \in Workers : held'[v] = IF v = w THEN queue[1] ELSE held[v]
  BY <1>0, <1>1 DEF TypeOK
<1>4. held[w] = NoTask
  BY <1>0 DEF Ownership, HoldsWhileBusy
<1>5. queue[1] # NoTask
  BY <1>1, DispatcherAssumption
<1>6. \A u : Accepted(u)' <=> Accepted(u)
  BY <1>0 DEF Accepted
<1>7. \A v \in Workers : held[v] # queue[1]
  <2>1. InQueue(queue[1])  BY <1>2 DEF InQueue
  <2>2. Holders(queue[1]) = {}
    BY <1>1, <2>1 DEF Ownership, OneOwner
  <2>3. QED  BY <2>2 DEF Holders
<1>8. \A i \in 1 .. Len(queue') : queue'[i] # queue[1]
  <2> SUFFICES ASSUME NEW i \in 1 .. Len(queue'), queue'[i] = queue[1] PROVE FALSE
    OBVIOUS
  <2>1. i + 1 \in 1 .. Len(queue) /\ queue[i + 1] = queue[1]
    BY <1>1
  <2>2. i + 1 = 1
    BY <1>2, <2>1 DEF Ownership, OneOwner
  <2>3. QED  BY <2>2, <1>1
<1>9. OneOwner'
  <2>1. \A i, j \in 1 .. Len(queue') : queue'[i] = queue'[j] => i = j
    <3> SUFFICES ASSUME NEW i \in 1 .. Len(queue'), NEW j \in 1 .. Len(queue'),
                        queue'[i] = queue'[j]
                 PROVE  i = j
      OBVIOUS
    <3>1. i + 1 = j + 1
      BY <1>1 DEF Ownership, OneOwner
    <3>2. QED  BY <3>1, <1>1
  <2>2. \A u \in Tasks : \A v, x \in Holders(u)' : v = x
    BY <1>3, <1>7 DEF Ownership, OneOwner, Holders
  <2>3. \A u \in Tasks : InQueue(u)' => Holders(u)' = {}
    <3> SUFFICES ASSUME NEW u \in Tasks, InQueue(u)' PROVE Holders(u)' = {}
      OBVIOUS
    <3>1. u # queue[1]  BY <1>8 DEF InQueue
    <3>2. InQueue(u)  BY <1>1 DEF InQueue
    <3>3. Holders(u) = {}  BY <3>2 DEF Ownership, OneOwner
    <3>4. QED  BY <1>3, <3>1, <3>3 DEF Holders
  <2>4. QED  BY <2>1, <2>2, <2>3 DEF OneOwner
<1>10. NoLostTask'
  <2> SUFFICES ASSUME NEW u \in Tasks, Accepted(u), future[u] = "empty"
               PROVE  InQueue(u)' \/ Holders(u)' # {}
    BY <1>0, <1>6 DEF NoLostTask
  <2>1. CASE u = queue[1]
    BY <2>1, <1>3 DEF Holders
  <2>2. CASE u # queue[1] /\ InQueue(u)
    <3>1. PICK i \in 1 .. Len(queue) : queue[i] = u  BY <2>2 DEF InQueue
    <3>2. i # 1  BY <2>2, <3>1
    <3>3. i - 1 \in 1 .. Len(queue') /\ queue'[i - 1] = queue[(i - 1) + 1]
      BY <1>1, <3>1, <3>2
    <3>4. (i - 1) + 1 = i  BY <3>1
    <3>5. QED  BY <3>1, <3>3, <3>4 DEF InQueue
  <2>3. CASE Holders(u) # {}
    <3>1. PICK v \in Workers : held[v] = u  BY <2>3 DEF Holders
    <3>2. v # w  BY <3>1, <1>4, DispatcherAssumption
    <3>3. QED  BY <3>1, <3>2, <1>3 DEF Holders
  <2>4. QED  BY <2>1, <2>2, <2>3 DEF Ownership, NoLostTask
<1>11. HoldsWhileBusy'
  BY <1>0, <1>3, <1>5 DEF Ownership, HoldsWhileBusy, TypeOK
<1>12. QueuedIsAccepted' /\ QueuedIsUnset'
  BY <1>0, <1>1, <1>6 DEF Ownership, QueuedIsAccepted, QueuedIsUnset
<1>13. HeldIsAccepted'
  BY <1>2, <1>3, <1>6 DEF Ownership, QueuedIsAccepted, HeldIsAccepted
<1>14. HeldIsUnset'
  BY <1>0, <1>2, <1>3 DEF Ownership, QueuedIsUnset, HeldIsUnset, TypeOK
<1>15. ExitIsFinal' /\ JoinedAll' /\ SetIsAccepted'
  <2>1. \A v \in Workers : pc[v] # "exited"
    BY <1>0 DEF Ownership, ExitIsFinal
  <2>2. \A v \in Workers : pc'[v] # "exited"
    BY <1>0, <2>1 DEF TypeOK
  <2>3. SetIsAccepted'
    BY <1>0, <1>6 DEF Ownership, SetIsAccepted
  <2>4. QED  BY <1>0, <2>2, <2>3 DEF ExitIsFinal, JoinedAll
<1>16. QED
  BY <1>9, <1>10, <1>11, <1>12, <1>13, <1>14, <1>15 DEF Ownership

\* Settling breaks the promise of a task that was not run before its worker
\* lets go of it, so no open promise is left behind.
LEMMA SettleOwnership ==
  ASSUME TypeOK, Ownership, NEW w \in Workers, Settle(w)
  PROVE  Ownership'
<1>0. /\ UNCHANGED <<call, answer, queue, stop, process>>
      /\ pc[w] = "settling" /\ pc' = [pc EXCEPT ![w] = "wait"]
      /\ future' = [future EXCEPT ![held[w]] = AfterDestroyed(held[w])]
      /\ held' = [held EXCEPT ![w] = NoTask]
      /\ process = "up"
  BY DEF Settle, Goes, Up, caller, life
<1>1. held[w] \in Tasks
  BY <1>0 DEF Ownership, HoldsWhileBusy, TypeOK
<1>2. AfterDestroyed(held[w]) # "empty"
  BY DEF AfterDestroyed
<1>3. \A t \in Tasks : future'[t] = IF t = held[w] THEN AfterDestroyed(t) ELSE future[t]
  BY <1>0, <1>1 DEF TypeOK
<1>4. \A v \in Workers : held'[v] = IF v = w THEN NoTask ELSE held[v]
  BY <1>0 DEF TypeOK
<1>5. \A t : Accepted(t)' <=> Accepted(t)
  BY <1>0 DEF Accepted
<1>6. \A i \in 1 .. Len(queue) : queue[i] \in Tasks /\ queue[i] # held[w]
  <2> SUFFICES ASSUME NEW i \in 1 .. Len(queue), queue[i] = held[w] PROVE FALSE
    BY DEF TypeOK
  <2>1. InQueue(held[w]) /\ Holders(held[w]) # {}  BY DEF InQueue, Holders
  <2>2. QED  BY <1>1, <2>1 DEF Ownership, OneOwner
<1>7. \A v \in Workers : v # w => held[v] # held[w]
  BY <1>1 DEF Ownership, OneOwner, Holders
<1>8. OneOwner'
  BY <1>0, <1>4, DispatcherAssumption DEF Ownership, OneOwner, Holders, InQueue
<1>9. NoLostTask'
  <2> SUFFICES ASSUME NEW t \in Tasks, Accepted(t), future'[t] = "empty"
               PROVE  InQueue(t)' \/ Holders(t)' # {}
    BY <1>5 DEF NoLostTask
  <2>1. t # held[w] /\ future[t] = "empty"
    BY <1>2, <1>3
  <2>2. InQueue(t) \/ Holders(t) # {}
    BY <2>1 DEF Ownership, NoLostTask
  <2>3. InQueue(t) => InQueue(t)'
    BY <1>0 DEF InQueue
  <2>4. Holders(t) # {} => Holders(t)' # {}
    BY <1>4, <2>1 DEF Holders
  <2>5. QED  BY <2>2, <2>3, <2>4
<1>10. HoldsWhileBusy'
  BY <1>0, <1>4 DEF Ownership, HoldsWhileBusy, TypeOK
<1>11. QueuedIsAccepted' /\ HeldIsAccepted'
  BY <1>0, <1>4, <1>5 DEF Ownership, QueuedIsAccepted, HeldIsAccepted
<1>12. QueuedIsUnset'
  BY <1>0, <1>3, <1>6 DEF Ownership, QueuedIsUnset
<1>13. HeldIsUnset'
  <2> SUFFICES ASSUME NEW v \in Workers, pc'[v] \in Unrun PROVE future'[held'[v]] = "empty"
    BY DEF HeldIsUnset
  <2>1. v # w /\ pc[v] \in Unrun  BY <1>0 DEF Unrun, TypeOK
  <2>2. held[v] \in Tasks /\ future[held[v]] = "empty"
    BY <2>1 DEF Ownership, HeldIsUnset, HoldsWhileBusy, TypeOK, Unrun
  <2>3. QED  BY <1>3, <1>4, <1>7, <2>1, <2>2
<1>14. ExitIsFinal' /\ JoinedAll'
  BY <1>0 DEF Ownership, ExitIsFinal, JoinedAll, TypeOK
<1>15. SetIsAccepted'
  BY <1>1, <1>3, <1>4, <1>5, DispatcherAssumption
  DEF Ownership, SetIsAccepted, HeldIsAccepted
<1>16. QED
  BY <1>8, <1>9, <1>10, <1>11, <1>12, <1>13, <1>14, <1>15 DEF Ownership

\* Finishing sets the future of the one task its worker holds.
LEMMA FinishOwnership ==
  ASSUME TypeOK, Ownership, NEW w \in Workers, Finish(w)
  PROVE  Ownership'
<1>0. PICK out \in {"value", "exception"} :
        /\ UNCHANGED <<call, answer, queue, held, stop, process>>
        /\ pc[w] = "running" /\ pc' = [pc EXCEPT ![w] = "finished"]
        /\ future' = [future EXCEPT ![held[w]] = out]
        /\ process = "up"
  BY DEF Finish, AfterTask, Goes, Up, caller, life
<1>1. held[w] \in Tasks
  BY <1>0 DEF Ownership, HoldsWhileBusy, TypeOK
<1>2. \A t \in Tasks : future'[t] = IF t = held[w] THEN out ELSE future[t]
  BY <1>0, <1>1 DEF TypeOK
<1>3. \A t : Accepted(t)' <=> Accepted(t)
  BY <1>0 DEF Accepted
<1>4. \A i \in 1 .. Len(queue) : queue[i] \in Tasks /\ queue[i] # held[w]
  <2> SUFFICES ASSUME NEW i \in 1 .. Len(queue), queue[i] = held[w] PROVE FALSE
    BY DEF TypeOK
  <2>1. InQueue(held[w]) /\ Holders(held[w]) # {}  BY DEF InQueue, Holders
  <2>2. QED  BY <1>1, <2>1 DEF Ownership, OneOwner
<1>5. \A v \in Workers : v # w => held[v] # held[w]
  BY <1>1 DEF Ownership, OneOwner, Holders
<1>6. OneOwner'
  BY <1>0 DEF Ownership, OneOwner, Holders, InQueue
<1>7. NoLostTask'
  <2>1. \A t \in Tasks : future'[t] = "empty" => future[t] = "empty"
    BY <1>2
  <2>2. \A t \in Tasks : (InQueue(t)' <=> InQueue(t)) /\ Holders(t)' = Holders(t)
    BY <1>0 DEF InQueue, Holders
  <2>3. QED  BY <1>3, <2>1, <2>2 DEF Ownership, NoLostTask
<1>8. HoldsWhileBusy'
  BY <1>0 DEF Ownership, HoldsWhileBusy, TypeOK
<1>9. QueuedIsAccepted' /\ HeldIsAccepted'
  BY <1>0, <1>3 DEF Ownership, QueuedIsAccepted, HeldIsAccepted
<1>10. QueuedIsUnset'
  BY <1>0, <1>2, <1>4 DEF Ownership, QueuedIsUnset
<1>11. HeldIsUnset'
  <2> SUFFICES ASSUME NEW v \in Workers, pc'[v] \in Unrun PROVE future'[held[v]] = "empty"
    BY <1>0 DEF HeldIsUnset
  <2>1. v # w /\ pc[v] \in Unrun  BY <1>0 DEF Unrun, TypeOK
  <2>2. held[v] \in Tasks /\ future[held[v]] = "empty"
    BY <2>1 DEF Ownership, HeldIsUnset, HoldsWhileBusy, TypeOK, Unrun
  <2>3. QED  BY <1>2, <1>5, <2>1, <2>2
<1>12. ExitIsFinal' /\ JoinedAll'
  BY <1>0 DEF Ownership, ExitIsFinal, JoinedAll, TypeOK
<1>13. SetIsAccepted'
  BY <1>1, <1>2, <1>3, DispatcherAssumption
  DEF Ownership, SetIsAccepted, HeldIsAccepted
<1>14. QED
  BY <1>6, <1>7, <1>8, <1>9, <1>10, <1>11, <1>12, <1>13 DEF Ownership

\* A worker leaves only when the queue is empty and stop_ is up.
LEMMA ExitOwnership ==
  ASSUME TypeOK, Ownership, NEW w \in Workers, Exit(w)
  PROVE  Ownership'
<1>0. /\ UNCHANGED <<call, answer, future, queue, held, stop, process>>
      /\ pc[w] = "wait" /\ pc' = [pc EXCEPT ![w] = "exited"]
      /\ stop /\ queue = <<>> /\ process = "up"
  BY DEF Exit, MayLeave, Goes, Up, caller, life
<1> USE DEF Ownership
<1>1. OneOwner' /\ NoLostTask'
  BY <1>0 DEF OneOwner, NoLostTask, Accepted, Holders, InQueue
<1>2. HoldsWhileBusy' /\ HeldIsUnset'
  BY <1>0 DEF HoldsWhileBusy, HeldIsUnset, Unrun, TypeOK
<1>3. QueuedIsAccepted' /\ HeldIsAccepted' /\ SetIsAccepted' /\ QueuedIsUnset'
  BY <1>0 DEF QueuedIsAccepted, HeldIsAccepted, SetIsAccepted, QueuedIsUnset, Accepted
<1>4. ExitIsFinal' /\ JoinedAll'
  BY <1>0 DEF ExitIsFinal, JoinedAll, TypeOK
<1>5. QED  BY <1>1, <1>2, <1>3, <1>4

LEMMA OwnershipInit == Init => Ownership
<1> SUFFICES ASSUME Init PROVE Ownership
  OBVIOUS
<1>1. /\ queue = <<>> /\ Len(queue) = 0 /\ ~stop /\ process = "up"
      /\ \A w \in Workers : held[w] = NoTask /\ pc[w] = "wait"
      /\ \A t \in Tasks : future[t] = "empty" /\ ~Accepted(t) /\ Holders(t) = {}
  BY DispatcherAssumption DEF Init, Accepted, Holders
<1>2. OneOwner /\ NoLostTask
  BY <1>1 DEF OneOwner, NoLostTask, InQueue
<1>3. QED
  BY <1>1, <1>2 DEF Ownership, HoldsWhileBusy, QueuedIsAccepted, HeldIsAccepted,
    SetIsAccepted, QueuedIsUnset, HeldIsUnset, ExitIsFinal, JoinedAll, Unrun

\* Every action keeps the ownership: the ones that move a task by a lemma of
\* their own, the rest by QuietStep.
LEMMA OwnershipNext == TypeOK /\ Ownership /\ [Next]_vars => Ownership'
<1> SUFFICES ASSUME TypeOK, Ownership, [Next]_vars PROVE Ownership'
  OBVIOUS
<1> USE DEF caller, work, clocks, slot, life, history, Goes
<1>1. ASSUME NEW t \in Tasks, Caller(t) PROVE Ownership'
  BY <1>1, CallerOwnership
<1>2. ASSUME NEW w \in Workers, Worker(w) PROVE Ownership'
  <2>1. CASE Pop(w)  BY <2>1, PopOwnership
  <2>2. CASE Exit(w)  BY <2>2, ExitOwnership
  <2>3. CASE Finish(w)  BY <2>3, FinishOwnership
  <2>4. CASE Settle(w)  BY <2>4, SettleOwnership
  <2>5. CASE Recycle(w)
    BY <2>5, QuietStep DEF Recycle, Unrun, TypeOK
  <2>6. CASE ClearRequest(w)
    <3>1. \/ pc[w] = "ready" /\ pc' = [pc EXCEPT ![w] = "cleared"]
          \/ pc[w] = "idled" /\ pc' = [pc EXCEPT ![w] = "settling"]
      BY <2>6 DEF ClearRequest
    <3>2. QED  BY <2>6, <3>1, QuietStep DEF ClearRequest, Unrun, TypeOK
  <2>7. CASE MarkStarted(w)
    BY <2>7, QuietStep DEF MarkStarted, Unrun, TypeOK
  <2>8. CASE Drop(w)
    BY <2>8, QuietStep DEF Drop, Unrun, TypeOK
  <2>9. CASE Run(w)
    <3>1. /\ UNCHANGED <<call, answer, future, queue, held, stop>>
          /\ pc[w] = "started"
          /\ pc' = pc \/ pc' = [pc EXCEPT ![w] = "running"]
          /\ process' \in {"crashed", process}
      BY <2>9 DEF Run
    <3>2. QED  BY <3>1, QuietStep DEF Unrun, TypeOK
  <2>10. CASE MarkIdle(w)
    BY <2>10, QuietStep DEF MarkIdle, Unrun, TypeOK
  <2>11. QED
    BY <1>2, <2>1, <2>2, <2>3, <2>4, <2>5, <2>6, <2>7, <2>8, <2>9, <2>10 DEF Worker
<1>3. CASE Watchdog
  <2>1. /\ UNCHANGED <<call, answer, future, queue, held, stop, pc>>
        /\ process' \in {"killed", process}
    BY <1>3 DEF Watchdog, Wake, ReadStarted, Judge, RequestRecycle, StampRequest
  <2>2. QED  BY <2>1, QuietStep
<1>4. CASE Time
  <2>1. UNCHANGED <<call, answer, future, queue, held, stop, pc, process>>
    BY <1>4 DEF Time, DeadlineElapses, TaskOverruns, RequestAges
  <2>2. QED  BY <2>1, QuietStep
<1>5. CASE Shutdown
  <2>0. UNCHANGED <<call, answer, future, queue, held, pc, process>> /\ stop'
    BY <1>5 DEF Shutdown
  <2> USE DEF Ownership
  <2>1. OneOwner' /\ NoLostTask'
    BY <2>0 DEF OneOwner, NoLostTask, Accepted, Holders, InQueue
  <2>2. HoldsWhileBusy' /\ HeldIsUnset' /\ ExitIsFinal' /\ JoinedAll'
    BY <2>0 DEF HoldsWhileBusy, HeldIsUnset, ExitIsFinal, JoinedAll
  <2>3. QueuedIsAccepted' /\ HeldIsAccepted' /\ SetIsAccepted' /\ QueuedIsUnset'
    BY <2>0 DEF QueuedIsAccepted, HeldIsAccepted, SetIsAccepted, QueuedIsUnset, Accepted
  <2>4. QED  BY <2>1, <2>2, <2>3
<1>6. CASE JoinAll
  BY <1>6, QuietStep DEF JoinAll
<1>7. CASE Ended \/ UNCHANGED vars
  BY <1>7, QuietStep DEF Ended, vars
<1>8. QED
  BY <1>1, <1>2, <1>3, <1>4, <1>5, <1>6, <1>7 DEF Next

LEMMA OwnershipCorrect == Spec => []Ownership
<1>1. TypeOK /\ Ownership /\ [Next]_vars => Ownership'
  BY OwnershipNext
<1>2. Init => Ownership
  BY OwnershipInit
<1>3. QED  BY <1>1, <1>2, TypeCorrect, PTL DEF Spec

\* No task is ever queued twice, held twice, or queued while it is held.
THEOREM SingleOwner == Spec => []OneOwner
<1>1. Ownership => OneOwner  BY DEF Ownership
<1>2. QED  BY <1>1, OwnershipCorrect, PTL

\* The promise of an accepted task is kept somewhere until it is set.
THEOREM NothingLost == Spec => []NoLostTask
<1>1. Ownership => NoLostTask  BY DEF Ownership
<1>2. QED  BY <1>1, OwnershipCorrect, PTL

\* After the destructor every accepted task has its outcome: the joined
\* workers hold nothing and left an empty queue.
THEOREM DestructorDrains == Spec => []DrainedWhenDestroyed
<1>1. TypeOK /\ Ownership => DrainedWhenDestroyed
  <2> SUFFICES ASSUME TypeOK, Ownership, process = "destroyed",
                      NEW t \in Tasks, Accepted(t), future[t] = "empty"
               PROVE  FALSE
    BY DEF DrainedWhenDestroyed
  <2>1. \A w \in Workers : pc[w] = "exited" /\ held[w] = NoTask /\ queue = <<>>
    BY DEF Ownership, JoinedAll, HoldsWhileBusy, ExitIsFinal
  <2>2. 1 \in Workers
    BY DispatcherAssumption DEF Workers
  <2>3. ~InQueue(t) /\ Holders(t) = {}
    BY <2>1, <2>2, DispatcherAssumption DEF InQueue, Holders
  <2>4. QED  BY <2>3 DEF Ownership, NoLostTask
<1>2. QED  BY <1>1, TypeCorrect, OwnershipCorrect, PTL

----------------------------------------------------------------------------
(***************************************************************************)
(* What the owners of a task may do with its future, its pipeline entry    *)
(* and the process, from the ownership invariant.                          *)
(***************************************************************************)

(* Futures are set once, and the dispatcher refines Resolver.              *)

\* Everything but an enqueue, a task's end and the destruction of a task
\* leaves the futures and the set of accepted tasks alone.
LEMMA FuturesQuiet ==
  ASSUME TypeOK, Ownership, [Next]_vars,
         \A t \in Tasks : ~Enqueue(t),
         \A w \in Workers : ~Finish(w) /\ ~Settle(w)
  PROVE  future' = future /\ \A t \in Tasks : Accepted(t)' = Accepted(t)
<1> USE DEF caller, work, clocks, slot, life, history
<1>1. ASSUME NEW t \in Tasks, Caller(t)
      PROVE  future' = future /\ \A u \in Tasks : Accepted(u)' = Accepted(u)
  <2>1. CASE Stamp(t)
    BY <2>1 DEF Stamp, Calls, Accepted, TypeOK
  <2>2. CASE BeginWait(t)
    BY <2>2 DEF BeginWait, Calls, Accepted, TypeOK
  <2>3. CASE GiveUp(t)
    BY <2>3 DEF GiveUp, Returns, Accepted, TypeOK
  <2>4. CASE TakeAnswer(t)
    BY <2>4 DEF TakeAnswer, Returns, Accepted, TypeOK, Outcomes
  <2>5. QED  BY <1>1, <2>1, <2>2, <2>3, <2>4 DEF Caller
<1>2. ASSUME NEW w \in Workers, Worker(w) PROVE UNCHANGED <<future, call, answer>>
  BY <1>2 DEF Worker, Pop, Exit, Recycle, ClearRequest, MarkStarted, Drop, Run, MarkIdle
<1>3. ASSUME Watchdog PROVE UNCHANGED <<future, call, answer>>
  BY <1>3 DEF Watchdog, Wake, ReadStarted, Judge, RequestRecycle, StampRequest
<1>4. ASSUME Time PROVE UNCHANGED <<future, call, answer>>
  BY <1>4 DEF Time, DeadlineElapses, TaskOverruns, RequestAges
<1>5. ASSUME Shutdown \/ JoinAll \/ Ended \/ UNCHANGED vars
      PROVE  UNCHANGED <<future, call, answer>>
  BY <1>5 DEF Shutdown, JoinAll, Ended, vars
<1>6. ASSUME UNCHANGED <<future, call, answer>>
      PROVE  future' = future /\ \A t \in Tasks : Accepted(t)' = Accepted(t)
  BY <1>6 DEF Accepted
<1>7. QED  BY <1>1, <1>2, <1>3, <1>4, <1>5, <1>6 DEF Next

\* A task that ends, and a task that is destroyed, is held by an accepted
\* call; the first one's future is open.
LEMMA SetStep ==
  ASSUME TypeOK, Ownership, NEW w \in Workers, Finish(w) \/ Settle(w)
  PROVE  /\ held[w] \in Tasks /\ Accepted(held[w])
         /\ UNCHANGED <<call, answer>>
         /\ \E o \in Outcomes : future' = [future EXCEPT ![held[w]] = o]
         /\ \/ future[held[w]] = "empty"
            \/ future' = future
<1>1. CASE Finish(w)
  <2>1. pc[w] = "running" /\ UNCHANGED <<call, answer>>
    BY <1>1 DEF Finish, Goes, caller
  <2>2. held[w] # NoTask /\ held[w] \in Tasks /\ future[held[w]] = "empty"
    BY <2>1 DEF Ownership, HoldsWhileBusy, HeldIsUnset, Unrun, TypeOK
  <2>3. \E o \in Outcomes : future' = [future EXCEPT ![held[w]] = o]
    BY <1>1 DEF Finish, Outcomes
  <2>4. QED  BY <2>1, <2>2, <2>3 DEF Ownership, HeldIsAccepted
<1>2. CASE Settle(w)
  <2>1. /\ pc[w] = "settling" /\ UNCHANGED <<call, answer>>
        /\ future' = [future EXCEPT ![held[w]] = AfterDestroyed(held[w])]
    BY <1>2 DEF Settle, Goes, caller
  <2>2. held[w] # NoTask /\ held[w] \in Tasks
    BY <2>1 DEF Ownership, HoldsWhileBusy, TypeOK
  <2>3. AfterDestroyed(held[w]) \in Outcomes
    BY <2>2 DEF AfterDestroyed, Outcomes, TypeOK
  <2>4. future[held[w]] # "empty" => future' = future
    BY <2>1, <2>2 DEF AfterDestroyed, TypeOK
  <2>5. QED  BY <2>1, <2>2, <2>3, <2>4 DEF Ownership, HeldIsAccepted
<1>3. QED  BY <1>1, <1>2

\* A caller that read its future has read the only outcome it will ever have:
\* a task runs once, and destroying it breaks an open promise only.
THEOREM OutcomeIsFinal == Spec => FutureSetOnce
<1> DEFINE Once == \A t \in Tasks : future[t] # "empty" => future'[t] = future[t]
<1>1. TypeOK /\ Ownership /\ [Next]_vars => [Once]_vars
  <2> SUFFICES ASSUME TypeOK, Ownership, [Next]_vars PROVE Once
    OBVIOUS
  <2>1. CASE \E w \in Workers : Finish(w) \/ Settle(w)
    BY <2>1, SetStep DEF TypeOK
  <2>2. CASE \E t \in Tasks : Enqueue(t)
    BY <2>2 DEF Enqueue
  <2>3. CASE (\A t \in Tasks : ~Enqueue(t)) /\ \A w \in Workers : ~Finish(w) /\ ~Settle(w)
    BY <2>3, FuturesQuiet
  <2>4. QED  BY <2>1, <2>2, <2>3
<1>2. QED  BY <1>1, TypeCorrect, OwnershipCorrect, PTL DEF Spec, FutureSetOnce

\* Callers, workers, watchdog and destructor together are the one-outcome
\* service: a push accepts, a task's end or its destruction resolves.
THEOREM DispatcherImplementsResolver == Spec => ImplementsResolver
<1>1. Init => AbstractFutures!Init
  BY DEF Init, AbstractFutures!Init, Accepted
<1>2. TypeOK /\ Ownership /\ [Next]_vars =>
        [AbstractFutures!Next]_AbstractFutures!resolverVars
  <2> SUFFICES ASSUME TypeOK, Ownership, [Next]_vars
               PROVE  [AbstractFutures!Next]_AbstractFutures!resolverVars
    OBVIOUS
  <2>1. ASSUME future' = future, \A t \in Tasks : Accepted(t)' = Accepted(t)
        PROVE  UNCHANGED AbstractFutures!resolverVars
    BY <2>1 DEF AbstractFutures!resolverVars
  <2>2. ASSUME NEW t \in Tasks, Enqueue(t)
        PROVE  [AbstractFutures!Next]_AbstractFutures!resolverVars
    <3>0. /\ future' = future /\ call[t] \in {"idle", "stamped"} /\ ~Accepted(t)
          /\ \/ /\ call' = [call EXCEPT ![t] = "returned"]
                /\ answer' = [answer EXCEPT ![t] = "exhausted"]
             \/ /\ call' = [call EXCEPT ![t] = "queued"]
                /\ answer' = answer
      BY <2>2 DEF Enqueue, Returns, Accepted
    <3>1. CASE call' = [call EXCEPT ![t] = "queued"]
      <4>1. answer' = answer
        BY <3>0, <3>1 DEF TypeOK
      <4>2. Accepted(t)' /\ \A u \in Tasks \ {t} : Accepted(u)' = Accepted(u)
        BY <3>0, <3>1, <4>1 DEF Accepted, TypeOK
      <4>3. {u \in Tasks : Accepted(u)}' = {u \in Tasks : Accepted(u)} \cup {t}
        BY <4>2
      <4>4. AbstractFutures!Accept(t)
        BY <3>0, <4>3 DEF AbstractFutures!Accept
      <4>5. QED  BY <4>4 DEF AbstractFutures!Next
    <3>2. CASE /\ call' = [call EXCEPT ![t] = "returned"]
               /\ answer' = [answer EXCEPT ![t] = "exhausted"]
      <4>1. \A u \in Tasks : Accepted(u)' = Accepted(u)
        BY <3>0, <3>2 DEF Accepted, TypeOK
      <4>2. QED  BY <3>0, <4>1, <2>1
    <3>3. QED  BY <3>0, <3>1, <3>2
  <2>3. ASSUME NEW w \in Workers, Finish(w) \/ Settle(w)
        PROVE  [AbstractFutures!Next]_AbstractFutures!resolverVars
    <3>0. /\ held[w] \in Tasks /\ Accepted(held[w])
          /\ UNCHANGED <<call, answer>>
          /\ future[held[w]] = "empty" \/ future' = future
      BY <2>3, SetStep
    <3>1. \A t \in Tasks : Accepted(t)' = Accepted(t)
      BY <3>0 DEF Accepted
    <3>2. CASE future' = future
      BY <3>1, <3>2, <2>1
    <3>3. CASE future[held[w]] = "empty"
      <4>1. PICK o \in Outcomes : future' = [future EXCEPT ![held[w]] = o]
        BY <2>3, SetStep
      <4> DEFINE S == {held[w]}
                 f == [r \in S |-> o]
      <4>2. f \in [S -> Outcomes] /\ S \in SUBSET Tasks /\ S # {}
        BY <3>0
      <4>3. future' = [r \in Tasks |-> IF r \in S THEN f[r] ELSE future[r]]
        BY <4>1, <3>0 DEF TypeOK
      <4>4. S \subseteq {t \in Tasks : Accepted(t)}
        BY <3>0
      <4>5. {t \in Tasks : Accepted(t)}' = {t \in Tasks : Accepted(t)}
        BY <3>1
      <4> HIDE DEF f
      <4>6. AbstractFutures!Resolve(S)
        BY <3>3, <4>2, <4>3, <4>4, <4>5 DEF AbstractFutures!Resolve
      <4>7. QED  BY <4>2, <4>6 DEF AbstractFutures!Next
    <3>4. QED  BY <3>0, <3>2, <3>3
  <2>4. CASE (\A t \in Tasks : ~Enqueue(t)) /\ \A w \in Workers : ~Finish(w) /\ ~Settle(w)
    BY <2>4, <2>1, FuturesQuiet
  <2>5. QED  BY <2>2, <2>3, <2>4
<1>3. QED
  BY <1>1, <1>2, TypeCorrect, OwnershipCorrect, PTL
  DEF Spec, ImplementsResolver, AbstractFutures!Spec

----------------------------------------------------------------------------
(* Broken promises.                                                        *)

\* A task that was not run is settled only after its deadline passed.
SkippedIsLate ==
  \A w \in Workers :
    pc[w] \in {"finished", "idled", "settling"} /\ future[held[w]] = "empty"
      => deadline[held[w]] = "past"

Lateness == BrokenOnlyPastDeadline /\ SkippedIsLate

\* A deadline that passed stays so for every task a worker holds or has set:
\* only a call that has not pushed its task stamps a deadline.
LEMMA PastStays ==
  ASSUME TypeOK, [Next]_vars, NEW t \in Tasks, Accepted(t), deadline[t] = "past"
  PROVE  deadline'[t] = "past"
<1> USE DEF caller, work, clocks, slot, life, history
<1>1. ASSUME NEW u \in Tasks, Caller(u) PROVE deadline'[t] = "past"
  BY <1>1 DEF Caller, Stamp, Enqueue, BeginWait, GiveUp, TakeAnswer, Calls, Accepted, TypeOK
<1>2. ASSUME NEW w \in Workers, Worker(w) PROVE deadline'[t] = "past"
  BY <1>2 DEF Worker, Pop, Exit, Recycle, ClearRequest, MarkStarted, Drop, Run,
    Finish, MarkIdle, Settle
<1>3. CASE Watchdog
  BY <1>3 DEF Watchdog, Wake, ReadStarted, Judge, RequestRecycle, StampRequest
<1>4. CASE Time
  BY <1>4 DEF Time, DeadlineElapses, TaskOverruns, RequestAges, TypeOK
<1>5. CASE Shutdown \/ JoinAll \/ Ended \/ UNCHANGED vars
  BY <1>5 DEF Shutdown, JoinAll, Ended, vars
<1>6. QED  BY <1>1, <1>2, <1>3, <1>4, <1>5 DEF Next

\* A step that sets no future and lets no worker past its task keeps Lateness.
LEMMA LateStep ==
  ASSUME TypeOK, Ownership, Lateness, [Next]_vars, future' = future,
         \A w \in Workers :
           pc'[w] \in {"finished", "idled", "settling"} =>
             /\ held'[w] = held[w]
             /\ \/ pc[w] \in {"finished", "idled", "settling"}
                \/ /\ pc[w] \notin {"wait", "exited"}
                   /\ deadline[held[w]] = "past"
  PROVE  Lateness'
<1>1. BrokenOnlyPastDeadline'
  BY PastStays DEF Lateness, BrokenOnlyPastDeadline, Ownership, SetIsAccepted
<1>2. ASSUME NEW w \in Workers, pc'[w] \in {"finished", "idled", "settling"},
             future[held[w]] = "empty"
      PROVE  deadline'[held[w]] = "past"
  <2>0. pc[w] \notin {"wait", "exited"}
    BY <1>2
  <2>1. held[w] \in Tasks /\ Accepted(held[w])
    BY <2>0 DEF Ownership, HoldsWhileBusy, HeldIsAccepted, TypeOK
  <2>2. deadline[held[w]] = "past"
    BY <1>2 DEF Lateness, SkippedIsLate
  <2>3. QED  BY <2>1, <2>2, PastStays
<1>3. QED  BY <1>1, <1>2 DEF Lateness, SkippedIsLate

LEMMA LatenessNext == TypeOK /\ Ownership /\ Lateness /\ [Next]_vars => Lateness'
<1> SUFFICES ASSUME TypeOK, Ownership, Lateness, [Next]_vars PROVE Lateness'
  OBVIOUS
<1> USE DEF caller, work, clocks, slot, life, history
<1>1. ASSUME UNCHANGED <<future, pc, held>> PROVE Lateness'
  BY <1>1, LateStep DEF Ownership, HoldsWhileBusy
<1>2. ASSUME NEW t \in Tasks, Caller(t) PROVE Lateness'
  BY <1>1, <1>2 DEF Caller, Stamp, Enqueue, BeginWait, GiveUp, TakeAnswer
<1>3. ASSUME Watchdog \/ Time \/ Shutdown \/ JoinAll \/ Ended \/ UNCHANGED vars
      PROVE  Lateness'
  BY <1>1, <1>3 DEF Watchdog, Wake, ReadStarted, Judge, RequestRecycle, StampRequest,
    Time, DeadlineElapses, TaskOverruns, RequestAges, Shutdown, JoinAll, Ended, vars
<1>4. ASSUME NEW w \in Workers, Worker(w) PROVE Lateness'
  <2>1. CASE Pop(w)
    <3>1. /\ future' = future /\ pc' = [pc EXCEPT ![w] = "popped"]
          /\ held' = [held EXCEPT ![w] = Head(queue)]
      BY <2>1 DEF Pop, Goes
    <3>2. QED  BY <3>1, LateStep DEF TypeOK
  <2>2. CASE Drop(w)
    <3>1. /\ UNCHANGED <<future, held>> /\ pc[w] = "started"
          /\ pc' = [pc EXCEPT ![w] = "finished"] /\ deadline[held[w]] = "past"
      BY <2>2 DEF Drop, Goes, Expired
    <3>2. QED  BY <3>1, LateStep DEF TypeOK
  <2>3. CASE Exit(w) \/ Recycle(w) \/ MarkStarted(w) \/ Run(w)
    <3>1. /\ UNCHANGED <<future, held>>
          /\ \/ pc' = pc
             \/ \E p \in {"exited", "ready", "started", "running"} :
                  pc' = [pc EXCEPT ![w] = p]
      BY <2>3 DEF Exit, Recycle, MarkStarted, Run, Goes
    <3>2. QED  BY <3>1, LateStep DEF TypeOK
  <2>4. CASE ClearRequest(w) \/ MarkIdle(w)
    <3>1. /\ UNCHANGED <<future, held>>
          /\ \/ pc' = [pc EXCEPT ![w] = "cleared"]
             \/ /\ pc[w] \in {"idled", "finished"}
                /\ \E p \in {"settling", "idled"} : pc' = [pc EXCEPT ![w] = p]
      BY <2>4 DEF ClearRequest, MarkIdle, Goes
    <3>2. QED  BY <3>1, LateStep DEF TypeOK
  <2>5. CASE Finish(w)
    <3>1. /\ pc[w] = "running" /\ UNCHANGED <<held, deadline>>
          /\ pc' = [pc EXCEPT ![w] = "finished"]
          /\ \E out \in {"value", "exception"} : future' = [future EXCEPT ![held[w]] = out]
      BY <2>5 DEF Finish, Goes, AfterTask
    <3>2. held[w] \in Tasks /\ future[held[w]] = "empty"
      BY <3>1 DEF Ownership, HoldsWhileBusy, HeldIsUnset, Unrun, TypeOK
    <3>3. future'[held[w]] # "empty" /\ future'[held[w]] # "broken"
      BY <3>1, <3>2 DEF TypeOK
    <3>4. \A t \in Tasks \ {held[w]} : future'[t] = future[t]
      BY <3>1 DEF TypeOK
    <3>5. BrokenOnlyPastDeadline'
      BY <3>1, <3>3, <3>4 DEF Lateness, BrokenOnlyPastDeadline
    <3>6. ASSUME NEW v \in Workers, pc'[v] \in {"finished", "idled", "settling"},
                 future'[held[v]] = "empty"
          PROVE  deadline[held[v]] = "past"
      <4>1. v # w
        BY <3>3, <3>6
      <4>2. pc'[v] = pc[v]
        BY <3>1, <4>1 DEF TypeOK
      <4>3. held[v] \in Tasks /\ held[v] # held[w]
        BY <3>3, <3>6, <4>2 DEF Ownership, HoldsWhileBusy, TypeOK
      <4>4. QED  BY <3>4, <3>6, <4>2, <4>3 DEF Lateness, SkippedIsLate
    <3>7. QED  BY <3>1, <3>5, <3>6 DEF Lateness, SkippedIsLate
  <2>6. CASE Settle(w)
    <3>1. /\ pc[w] = "settling" /\ UNCHANGED deadline
          /\ pc' = [pc EXCEPT ![w] = "wait"]
          /\ held' = [held EXCEPT ![w] = NoTask]
          /\ future' = [future EXCEPT ![held[w]] = AfterDestroyed(held[w])]
      BY <2>6 DEF Settle, Goes
    <3>2. held[w] \in Tasks
      BY <3>1 DEF Ownership, HoldsWhileBusy, TypeOK
    <3>3. /\ \A t \in Tasks \ {held[w]} : future'[t] = future[t]
          /\ future'[held[w]] = "broken" \/ future'[held[w]] = future[held[w]]
          /\ future'[held[w]] # future[held[w]] => future[held[w]] = "empty"
      BY <3>1, <3>2 DEF AfterDestroyed, TypeOK
    <3>4. BrokenOnlyPastDeadline'
      BY <3>1, <3>2, <3>3 DEF Lateness, BrokenOnlyPastDeadline, SkippedIsLate
    <3>5. ASSUME NEW v \in Workers, pc'[v] \in {"finished", "idled", "settling"},
                 future'[held'[v]] = "empty"
          PROVE  deadline[held'[v]] = "past"
      <4>1. v # w /\ pc'[v] = pc[v] /\ held'[v] = held[v]
        BY <3>1, <3>5 DEF TypeOK
      <4>2. held[v] \in Tasks /\ future[held[v]] = "empty"
        <5>1. held[v] \in Tasks
          BY <3>5, <4>1 DEF Ownership, HoldsWhileBusy, TypeOK
        <5>2. CASE held[v] = held[w]
          BY <3>3, <3>5, <4>1, <5>1, <5>2
        <5>3. CASE held[v] # held[w]
          BY <3>3, <3>5, <4>1, <5>1, <5>3
        <5>4. QED  BY <5>1, <5>2, <5>3
      <4>3. QED  BY <3>5, <4>1, <4>2 DEF Lateness, SkippedIsLate
    <3>6. QED  BY <3>1, <3>4, <3>5 DEF Lateness, SkippedIsLate
  <2>7. QED  BY <1>4, <2>1, <2>2, <2>3, <2>4, <2>5, <2>6 DEF Worker
<1>5. QED  BY <1>2, <1>3, <1>4 DEF Next

\* Without a deadline no promise is ever broken, whatever becomes of the
\* task's pipeline, and with one only after it passed.
THEOREM BrokenOnlyWhenLate == Spec => []BrokenOnlyPastDeadline
<1>1. Init => Lateness
  BY DEF Init, Lateness, BrokenOnlyPastDeadline, SkippedIsLate
<1>2. TypeOK /\ Ownership /\ Lateness /\ [Next]_vars => Lateness'
  BY LatenessNext
<1>3. Lateness => BrokenOnlyPastDeadline
  BY DEF Lateness
<1>4. QED  BY <1>1, <1>2, <1>3, TypeCorrect, OwnershipCorrect, PTL DEF Spec

----------------------------------------------------------------------------
(* Rebuild of a faulted pipeline.                                          *)

\* A suspect entry stays marked: by the pipeline itself until the task that
\* faulted is settled, by the flag from then until the next task's rebuild.
SuspectIsMarked ==
  RecycleEnabled =>
    \A w \in Workers : entry[w] = "suspect" =>
      \/ pc[w] \in {"finished", "idled", "settling"} /\ fault[w]
      \/ pc[w] \in {"wait", "popped", "exited"} /\ flag[w]

\* Steps that change neither entry nor mark, and leave the worker on its side.
LEMMA MarkStep ==
  ASSUME TypeOK, SuspectIsMarked, UNCHANGED slot,
         \A w \in Workers :
           /\ flag[w] => flag'[w]
           /\ \/ pc'[w] = pc[w]
              \/ pc[w] \in {"wait", "popped", "exited"} /\ pc'[w] \in {"wait", "popped", "exited"}
              \/ pc[w] \in {"finished", "idled", "settling"}
                   /\ pc'[w] \in {"finished", "idled", "settling"}
              \/ pc[w] \notin {"finished", "idled", "settling", "wait", "popped", "exited"}
  PROVE  SuspectIsMarked'
BY DEF SuspectIsMarked, slot

LEMMA MarkNext == TypeOK /\ SuspectIsMarked /\ [Next]_vars => SuspectIsMarked'
<1> SUFFICES ASSUME TypeOK, SuspectIsMarked, [Next]_vars PROVE SuspectIsMarked'
  OBVIOUS
<1> USE DEF caller, work, clocks, life, history
<1>1. ASSUME UNCHANGED <<pc, slot>>, \A w \in Workers : flag[w] => flag'[w]
      PROVE  SuspectIsMarked'
  BY <1>1, MarkStep
<1>2. ASSUME NEW t \in Tasks, Caller(t) PROVE SuspectIsMarked'
  BY <1>1, <1>2 DEF Caller, Stamp, Enqueue, BeginWait, GiveUp, TakeAnswer
<1>3. ASSUME Watchdog PROVE SuspectIsMarked'
  BY <1>1, <1>3 DEF Watchdog, Wake, ReadStarted, Judge, RequestRecycle, StampRequest, TypeOK
<1>4. ASSUME Time \/ Shutdown \/ JoinAll \/ Ended \/ UNCHANGED vars PROVE SuspectIsMarked'
  BY <1>1, <1>4 DEF Time, DeadlineElapses, TaskOverruns, RequestAges, Shutdown, JoinAll,
    Ended, vars
<1>5. ASSUME NEW w \in Workers, Worker(w) PROVE SuspectIsMarked'
  <2>1. CASE Pop(w) \/ Exit(w)
    <3>1. /\ UNCHANGED <<slot, flag>> /\ pc[w] = "wait"
          /\ \E p \in {"popped", "exited"} : pc' = [pc EXCEPT ![w] = p]
      BY <2>1 DEF Pop, Exit, Goes
    <3>2. QED  BY <3>1, MarkStep DEF TypeOK
  <2>2. CASE MarkStarted(w) \/ Drop(w) \/ Run(w)
    <3>1. /\ UNCHANGED <<slot, flag>> /\ pc[w] \in {"cleared", "started"}
          /\ \/ pc' = pc
             \/ \E p \in {"started", "finished", "running"} : pc' = [pc EXCEPT ![w] = p]
      BY <2>2 DEF MarkStarted, Drop, Run, Goes
    <3>2. QED  BY <3>1, MarkStep DEF TypeOK
  <2>3. CASE ClearRequest(w) \/ MarkIdle(w)
    <3>1. /\ UNCHANGED <<slot, flag>>
          /\ \/ pc[w] = "ready" /\ pc' = [pc EXCEPT ![w] = "cleared"]
             \/ /\ pc[w] \in {"idled", "finished"}
                /\ \E p \in {"settling", "idled"} : pc' = [pc EXCEPT ![w] = p]
      BY <2>3 DEF ClearRequest, MarkIdle, Goes
    <3>2. QED  BY <3>1, MarkStep DEF TypeOK
  <2>4. CASE Recycle(w)
    <3>1. /\ pc[w] = "popped" /\ pc' = [pc EXCEPT ![w] = "ready"]
          /\ flag' = [flag EXCEPT ![w] = FALSE]
          /\ \/ /\ flag[w]
                /\ \E built \in {"ok", "dead"} : entry' = [entry EXCEPT ![w] = built]
                /\ fault' = [fault EXCEPT ![w] = FALSE]
             \/ ~flag[w] /\ UNCHANGED <<entry, fault>>
      BY <2>4 DEF Recycle, Goes, slot
    <3>2. RecycleEnabled => entry'[w] # "suspect"
      BY <3>1 DEF SuspectIsMarked, TypeOK
    <3>3. \A v \in Workers \ {w} :
            UNCHANGED <<pc[v], flag[v], entry[v], fault[v]>>
      BY <3>1 DEF TypeOK
    <3>4. QED  BY <3>2, <3>3 DEF SuspectIsMarked
  <2>5. CASE Finish(w)
    <3>1. /\ pc[w] = "running" /\ pc' = [pc EXCEPT ![w] = "finished"] /\ flag' = flag
          /\ \/ UNCHANGED <<entry, fault>>
             \/ /\ entry' = [entry EXCEPT ![w] = "suspect"]
                /\ fault' = [fault EXCEPT ![w] = TRUE]
      BY <2>5 DEF Finish, Goes, AfterTask, slot
    <3>2. RecycleEnabled /\ entry'[w] = "suspect" => fault'[w] /\ pc'[w] = "finished"
      <4>1. CASE UNCHANGED <<entry, fault>>
        BY <3>1, <4>1 DEF SuspectIsMarked, TypeOK
      <4>2. CASE fault' = [fault EXCEPT ![w] = TRUE]
        <5>1. pc'[w] = "finished"
          BY <3>1 DEF TypeOK
        <5>2. fault'[w]
          <6>1. w \in DOMAIN fault
            BY DEF TypeOK
          <6> QED  BY ONLY <4>2, <6>1, Zenon
        <5> QED  BY <5>1, <5>2
      <4> QED  BY <3>1, <4>1, <4>2
    <3>3. \A v \in Workers \ {w} :
            UNCHANGED <<pc[v], flag[v], entry[v], fault[v]>>
      BY <3>1 DEF TypeOK
    <3>4. QED  BY <3>2, <3>3 DEF SuspectIsMarked
  <2>6. CASE Settle(w)
    <3>1. /\ pc[w] = "settling" /\ pc' = [pc EXCEPT ![w] = "wait"] /\ entry' = entry
          /\ flag' = [flag EXCEPT ![w] = Consumed(w)]
          /\ fault' = [fault EXCEPT ![w] = @ /\ ~Consumed(w)]
      BY <2>6 DEF Settle, Goes
    <3>2. RecycleEnabled /\ entry'[w] = "suspect" => flag'[w] /\ pc'[w] = "wait"
      BY <3>1 DEF SuspectIsMarked, Consumed, TypeOK
    <3>3. \A v \in Workers \ {w} :
            UNCHANGED <<pc[v], flag[v], entry[v], fault[v]>>
      BY <3>1 DEF TypeOK
    <3>4. QED  BY <3>2, <3>3 DEF SuspectIsMarked
  <2>7. QED  BY <1>5, <2>1, <2>2, <2>3, <2>4, <2>5, <2>6 DEF Worker
<1>6. QED  BY <1>2, <1>3, <1>4, <1>5 DEF Next

\* A pipeline that reported a recoverable fault is rebuilt before its next
\* task, although its flag is also set by the watchdog and cleared by settling.
THEOREM FaultsAreRebuilt == Spec => []FaultedEntryNotReused
<1>1. Init => SuspectIsMarked
  BY DEF Init, SuspectIsMarked
<1>2. SuspectIsMarked => FaultedEntryNotReused
  BY DEF SuspectIsMarked, FaultedEntryNotReused
<1>3. QED  BY <1>1, <1>2, MarkNext, TypeCorrect, PTL DEF Spec

----------------------------------------------------------------------------
(* The watchdog's kill.                                                    *)

\* Every trace of an overrun, in the clocks or in what the watchdog has read,
\* comes from a task that did overrun.
OverrunIsReal ==
  overran = {} =>
    /\ process # "killed"
    /\ \A w \in Workers : started[w] # "overrun" /\ requested[w] = "none"
    /\ wd.at \notin {"flag", "stamp"} /\ wd.seen # "overrun"

LEMMA OverrunNext == TypeOK /\ OverrunIsReal /\ [Next]_vars => OverrunIsReal'
<1> SUFFICES ASSUME TypeOK, OverrunIsReal, [Next]_vars PROVE OverrunIsReal'
  OBVIOUS
<1> USE DEF caller, work, clocks, slot, life, history
<1>1. ASSUME NEW t \in Tasks, Caller(t) PROVE OverrunIsReal'
  BY <1>1 DEF OverrunIsReal, Caller, Stamp, Enqueue, BeginWait, GiveUp, TakeAnswer
<1>2. ASSUME NEW w \in Workers, Worker(w) PROVE OverrunIsReal'
  <2>1. /\ UNCHANGED <<overran, wd>> /\ process' \in {"crashed", process}
        /\ \/ started' = started
           \/ \E s \in {"idle", "fresh"} : started' = [started EXCEPT ![w] = s]
        /\ requested' = requested \/ requested' = [requested EXCEPT ![w] = "none"]
    BY <1>2 DEF Worker, Pop, Exit, Recycle, ClearRequest, MarkStarted, Drop, Run,
      Finish, MarkIdle, Settle
  <2>2. QED  BY <2>1 DEF OverrunIsReal, TypeOK
<1>3. CASE Watchdog
  <2>0. wd.i \in Workers /\ NextWorker.at \in {"asleep", "scan"} /\ NextWorker.seen = "idle"
    BY DEF TypeOK, WatchdogStates, NextWorker, Asleep
  <2>1. CASE Wake
    <3>1. /\ UNCHANGED <<overran, process, clocks>>
          /\ wd' = [wd EXCEPT !.at = "exited"] \/ wd' = [wd EXCEPT !.at = "scan"]
      BY <2>1 DEF Wake
    <3>2. wd'.at \in {"exited", "scan"} /\ wd'.seen = wd.seen
      BY <3>1 DEF TypeOK, WatchdogStates
    <3>3. QED  BY <3>1, <3>2 DEF OverrunIsReal
  <2>2. CASE ReadStarted
    <3>0. \/ wd' = NextWorker
          \/ wd' = [wd EXCEPT !.at = "judge", !.seen = started[wd.i], !.task = held[wd.i]]
      BY <2>2 DEF ReadStarted
    <3>1. wd'.at # "flag" /\ wd'.at # "stamp" /\ wd'.seen \in {"idle", started[wd.i]}
      <4>1. CASE wd' = NextWorker
        BY <4>1, <2>0
      <4>2. CASE wd' = [wd EXCEPT !.at = "judge", !.seen = started[wd.i], !.task = held[wd.i]]
        <5>1. wd'.at = "judge" /\ wd'.seen = started[wd.i]
          BY <4>2 DEF TypeOK, WatchdogStates
        <5> QED  BY <5>1
      <4> QED  BY <3>0, <4>1, <4>2
    <3>2. UNCHANGED <<overran, process, clocks>>
      BY <2>2 DEF ReadStarted
    <3>3. QED  BY <2>0, <3>1, <3>2 DEF OverrunIsReal
  <2>3. CASE Judge
    <3>1. ASSUME overran = {}
          PROVE  wd' = NextWorker /\ process' = process
      BY <2>0, <2>3, <3>1 DEF Judge, OverrunIsReal, TooSlow
    <3>2. UNCHANGED <<overran, clocks>>
      BY <2>3 DEF Judge
    <3>3. QED  BY <2>0, <3>1, <3>2 DEF OverrunIsReal
  <2>4. CASE RequestRecycle \/ StampRequest
    BY <2>4 DEF OverrunIsReal, RequestRecycle, StampRequest
  <2>5. QED  BY <1>3, <2>1, <2>2, <2>3, <2>4 DEF Watchdog
<1>4. CASE Time
  <2>1. ASSUME NEW w \in Workers, TaskOverruns(w) PROVE OverrunIsReal'
    BY <2>1 DEF OverrunIsReal, TaskOverruns
  <2>2. ASSUME NEW w \in Workers, RequestAges(w) PROVE OverrunIsReal'
    BY <2>2 DEF OverrunIsReal, RequestAges
  <2>3. ASSUME NEW t \in Tasks, DeadlineElapses(t) PROVE OverrunIsReal'
    BY <2>3 DEF OverrunIsReal, DeadlineElapses
  <2>4. QED  BY <1>4, <2>1, <2>2, <2>3 DEF Time
<1>5. CASE Shutdown \/ JoinAll \/ Ended \/ UNCHANGED vars
  BY <1>5 DEF OverrunIsReal, Shutdown, JoinAll, Ended, vars
<1>6. QED  BY <1>1, <1>2, <1>3, <1>4, <1>5 DEF Next

\* The process is ended only after a task outran the timeout and the grace.
THEOREM KillsAreEarned == Spec => []KillOnlyAfterOverrun
<1>1. Init => OverrunIsReal
  BY DEF Init, OverrunIsReal, Asleep
<1>2. OverrunIsReal => KillOnlyAfterOverrun
  BY DEF OverrunIsReal, KillOnlyAfterOverrun
<1>3. QED  BY <1>1, <1>2, OverrunNext, TypeCorrect, PTL DEF Spec

\* The safety of the dispatcher as the run of its timeouts checks it, for any
\* number of tasks and workers.
THEOREM DispatcherSafe == Spec => []Safety
  BY TypeCorrect, NothingLost, DestructorDrains, BrokenOnlyWhenLate,
     FaultsAreRebuilt, KillsAreEarned, PTL DEF Safety

====
