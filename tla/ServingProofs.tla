---------------------------- MODULE ServingProofs ----------------------------
(***************************************************************************)
(* Theorems of what stands around the inference: the pool of renderer      *)
(* daemons, the readiness probe, the CPU server's pipelines, the endpoints *)
(* and the pages of a PDF job, for any number of daemons, renders, callers,*)
(* pipelines, requests and pages.                                          *)
(***************************************************************************)
EXTENDS RenderPool, Readiness, PipelinePool, Requests, FiniteSetTheorems, SequenceTheorems,
        WellFoundedInduction, TLAPS

----------------------------------------------------------------------------
(***************************************************************************)
(* The pool of renderer daemons keeps its processes and its slots, for any *)
(* number of daemons, renders, deaths and failed forks.                    *)
(***************************************************************************)

RpSpec == RpInit /\ [][RpNext]_rpvars

Process == [st : {"up", "dead", "reaped"}, in : Seq(Renders), out : Seq(Renders)]
Call == [pc : {"idle", "write", "read", "respawn", "rendered", "failed", "done", "threw"},
         hint : Nat, seen : Nat, slot : Slots, attempt : {0, 1, 2},
         got : Renders \cup {Nobody}, hurt : BOOLEAN]
SlotState == [pid : Nat, pipes : Nat]

RpTypeOK ==
  /\ procs \in Seq(Process)
  /\ slots \in [Slots -> SlotState]
  /\ holder \in [Slots -> Renders \cup {Nobody}]
  /\ calls \in [Renders -> Call]
  /\ open \in BOOLEAN
  /\ faults \in Nat

\* The pipes of a slot are those of its child; two slots have no common child.
OwnChild ==
  /\ \A d \in Slots : slots[d].pid \in 0 .. Len(procs) /\ slots[d].pipes \in {0, slots[d].pid}
  /\ \A d, e \in Slots : slots[d].pid = slots[e].pid /\ slots[d].pid # 0 => d = e

Known ==
  /\ \A p \in 1 .. Len(procs) : procs[p].st # "reaped" => open /\ \E d \in Slots : slots[d].pid = p
  /\ \A d \in Slots : slots[d].pid # 0 /\ open => procs[slots[d].pid].st # "reaped"

\* The renderer is destroyed after its last render.
LastOut == ~open => \A r \in Renders : calls[r].pc \in {"done", "threw"}

Blamed ==
  \A r \in Renders : /\ calls[r].pc = "write" => calls[r].attempt \in {1, 2}
                     /\ calls[r].pc = "failed" => calls[r].hurt

\* The guard's mutex, from acquire_daemon to the end of send_cmd: nobody else
\* puts new pipes into the slot of a render that reads the old ones.
Inside == {"write", "read", "respawn", "rendered", "failed"}
Holding ==
  \A r \in Renders : calls[r].pc \in Inside =>
    /\ holder[calls[r].slot] = r
    /\ calls[r].pc = "read" => slots[calls[r].slot].pipes # 0

RpInv == RpTypeOK /\ OwnChild /\ Known /\ LastOut /\ Blamed /\ Holding

-----------------------------------------------------------------------------
(* What a step does to the processes and the slots *)

\* Nobody is forked or waited for.
Stays ==
  /\ Len(procs') = Len(procs)
  /\ \A p \in 1 .. Len(procs) : procs'[p].st = "reaped" <=> procs[p].st = "reaped"
  /\ UNCHANGED <<slots, open>>

\* The child of slot d is waited for, and the slot is left to s.
Replaced(d, s, forked) ==
  /\ open /\ d \in Slots /\ s \in SlotState /\ s.pipes \in {0, s.pid}
  /\ \A p \in 1 .. Len(procs) :
       procs'[p].st = IF p = slots[d].pid THEN "reaped" ELSE procs[p].st
  /\ slots' = [slots EXCEPT ![d] = s]
  /\ open' = open
  /\ IF forked THEN /\ Len(procs') = Len(procs) + 1 /\ s.pid = Len(procs) + 1
                    /\ procs'[s.pid].st = "up"
               ELSE Len(procs') = Len(procs) /\ s.pid = 0

LEMMA StaysKnown ==
  ASSUME RpTypeOK, OwnChild, Known, Stays
  PROVE  OwnChild' /\ Known'
<1>1. OwnChild'
  BY DEF Stays, OwnChild
<1>2. \A p \in 1 .. Len(procs) :
        procs'[p].st # "reaped" => open /\ \E d \in Slots : slots[d].pid = p
  BY DEF Stays, Known
<1>3. \A d \in Slots : slots[d].pid # 0 /\ open => procs'[slots[d].pid].st # "reaped"
  <2> SUFFICES ASSUME NEW d \in Slots, slots[d].pid # 0, open
               PROVE  procs'[slots[d].pid].st # "reaped"
    OBVIOUS
  <2>1. slots[d].pid \in 1 .. Len(procs)
    BY DEF OwnChild, RpTypeOK
  <2> QED  BY <2>1 DEF Stays, Known
<1> QED
  BY <1>1, <1>2, <1>3 DEF Stays, Known

LEMMA ReplacedKnown ==
  ASSUME RpTypeOK, OwnChild, Known,
         NEW d, NEW s, NEW forked \in BOOLEAN, Replaced(d, s, forked)
  PROVE  OwnChild' /\ Known'
<1>0. /\ d \in Slots /\ Len(procs) \in Nat /\ slots'[d] = s /\ s.pid \in Nat
      /\ \A e \in Slots : slots[e].pid \in Nat /\ slots[e].pid <= Len(procs)
      /\ \A e \in Slots : e # d => slots'[e] = slots[e]
  BY DEF Replaced, RpTypeOK, OwnChild, SlotState
<1>1. CASE forked
  <2>1. Len(procs') = Len(procs) + 1 /\ s.pid = Len(procs) + 1 /\ procs'[s.pid].st = "up"
    BY <1>1 DEF Replaced
  <2>2. OwnChild'
    BY <1>0, <2>1 DEF OwnChild, Replaced
  <2>3. \A p \in 1 .. Len(procs') :
          procs'[p].st # "reaped" => open /\ \E e \in Slots : slots'[e].pid = p
    <3> SUFFICES ASSUME NEW p \in 1 .. Len(procs'), procs'[p].st # "reaped"
                 PROVE  open /\ \E e \in Slots : slots'[e].pid = p
      OBVIOUS
    <3>1. CASE p = s.pid
      BY <1>0, <3>1 DEF Replaced
    <3>2. CASE p # s.pid
      <4>1. p \in 1 .. Len(procs) /\ procs[p].st # "reaped" /\ p # slots[d].pid
        BY <1>0, <2>1, <3>2 DEF Replaced
      <4> QED  BY <1>0, <4>1 DEF Known
    <3> QED  BY <3>1, <3>2
  <2>4. \A e \in Slots : slots'[e].pid # 0 => procs'[slots'[e].pid].st # "reaped"
    <3> SUFFICES ASSUME NEW e \in Slots, slots'[e].pid # 0
                 PROVE  procs'[slots'[e].pid].st # "reaped"
      OBVIOUS
    <3>1. CASE e = d
      BY <1>0, <2>1, <3>1
    <3>2. CASE e # d
      <4>1. slots[e].pid \in 1 .. Len(procs) /\ slots[e].pid # slots[d].pid
        BY <1>0, <3>2 DEF OwnChild
      <4> QED  BY <1>0, <3>2, <4>1 DEF Known, Replaced
    <3> QED  BY <3>1, <3>2
  <2> QED  BY <2>2, <2>3, <2>4 DEF Known, Replaced
<1>2. CASE ~forked
  <2>1. Len(procs') = Len(procs) /\ s.pid = 0
    BY <1>2 DEF Replaced
  <2>2. OwnChild'
    BY <1>0, <2>1 DEF OwnChild, Replaced
  <2>3. \A p \in 1 .. Len(procs) :
          procs'[p].st # "reaped" => open /\ \E e \in Slots : slots'[e].pid = p
    BY <1>0 DEF Known, Replaced
  <2>4. \A e \in Slots : slots'[e].pid # 0 => procs'[slots'[e].pid].st # "reaped"
    <3> SUFFICES ASSUME NEW e \in Slots, slots'[e].pid # 0
                 PROVE  procs'[slots'[e].pid].st # "reaped"
      OBVIOUS
    <3>1. e # d
      BY <1>0, <2>1
    <3>2. slots[e].pid \in 1 .. Len(procs) /\ slots[e].pid # slots[d].pid
      BY <1>0, <3>1 DEF OwnChild
    <3> QED  BY <1>0, <3>1, <3>2 DEF Known, Replaced
  <2> QED  BY <2>1, <2>2, <2>3, <2>4 DEF Known, Replaced
<1> QED
  BY <1>1, <1>2

-----------------------------------------------------------------------------
LEMMA CallsKeep ==
  ASSUME RpTypeOK, NEW r \in Renders, NEW k \in Call, calls' = [calls EXCEPT ![r] = k]
  PROVE  calls' \in [Renders -> Call] /\ calls'[r] = k
         /\ \A q \in Renders : q # r => calls'[q] = calls[q]
BY DEF RpTypeOK

LEMMA NewCallType == \A h \in Nat : NewCall(h) \in Call
<1>1. 0 \in Slots
  BY RenderPoolAssumption DEF Slots
<1> QED
  BY <1>1 DEF NewCall, Call, Nobody

\* A render that has not ended goes on to k.
LEMMA RenderGoesOn ==
  ASSUME RpInv, NEW r \in Renders, NEW k \in Call,
         calls' = [calls EXCEPT ![r] = k], open' = open,
         calls[r].pc \notin {"done", "threw"},
         k.pc = "write" => k.attempt \in {1, 2}, k.pc = "failed" => k.hurt
  PROVE  calls' \in [Renders -> Call] /\ open /\ LastOut' /\ Blamed'
BY CallsKeep DEF RpInv, LastOut, Blamed

LEMMA PipesUsed ==
  ASSUME RpTypeOK, NEW p \in 1 .. Len(procs), NEW q \in Process,
         q.st = "reaped" <=> procs[p].st = "reaped",
         procs' = [procs EXCEPT ![p] = q], UNCHANGED <<slots, open>>
  PROVE  procs' \in Seq(Process) /\ Stays
<1>1. procs \in [1 .. Len(procs) -> Process] /\ Len(procs) \in Nat
  BY DEF RpTypeOK
<1>2. procs' \in [1 .. Len(procs) -> Process]
  BY <1>1
<1>3. procs' \in Seq(Process) /\ Len(procs') = Len(procs)
  BY <1>1, <1>2
<1>4. \A i \in 1 .. Len(procs) : procs'[i] = IF i = p THEN q ELSE procs[i]
  BY <1>1
<1> QED
  BY <1>3, <1>4 DEF Stays

LEMMA PipesInPool ==
  ASSUME RpTypeOK, OwnChild, NEW r \in Renders
  PROVE  Slot(r).pipes # 0 => Slot(r).pipes \in 1 .. Len(procs)
<1>1. calls[r].slot \in Slots
  BY DEF RpTypeOK, Call
<1> QED
  BY <1>1 DEF RpTypeOK, OwnChild, Slot, SlotState

\* A step of a render inside, which only it can see.
LEMMA HoldingKept ==
  ASSUME RpInv, NEW r \in Renders, NEW k \in Call, calls' = [calls EXCEPT ![r] = k],
         calls[r].pc \in Inside, k.slot = calls[r].slot, holder' = holder,
         \A d \in Slots : d # k.slot => slots'[d] = slots[d],
         k.pc = "read" => slots'[k.slot].pipes # 0
  PROVE  Holding'
<1> SUFFICES ASSUME NEW q \in Renders, calls'[q].pc \in Inside
             PROVE  /\ holder[calls'[q].slot] = q
                    /\ calls'[q].pc = "read" => slots'[calls'[q].slot].pipes # 0
  BY DEF Holding
<1>0. RpTypeOK /\ Holding /\ calls'[r] = k
  BY DEF RpInv, RpTypeOK
<1>1. CASE q = r
  BY <1>0, <1>1 DEF Holding
<1>2. CASE q # r
  <2>1. calls'[q] = calls[q] /\ calls[q] \in Call
    BY <1>0, <1>2 DEF RpTypeOK
  <2>2. holder[calls[q].slot] = q /\ holder[k.slot] = r
    BY <1>0, <2>1 DEF Holding
  <2>3. calls[q].slot \in Slots /\ calls[q].slot # k.slot
    BY <1>2, <2>1, <2>2 DEF Call
  <2> QED  BY <1>0, <2>1, <2>2, <2>3 DEF Holding
<1> QED
  BY <1>1, <1>2

\* One render's step that forks and reaps nobody.
LEMMA QuietStep ==
  ASSUME RpInv, NEW r \in Renders, NEW k \in Call, calls' = [calls EXCEPT ![r] = k],
         calls[r].pc \notin {"done", "threw"},
         k.pc = "write" => k.attempt \in {1, 2}, k.pc = "failed" => k.hurt,
         procs' \in Seq(Process), Stays, faults' \in Nat,
         holder' \in [Slots -> Renders \cup {Nobody}], Holding'
  PROVE  RpInv'
<1>1. OwnChild' /\ Known' /\ open' = open /\ slots' = slots
  BY StaysKnown DEF RpInv, Stays
<1>2. calls' \in [Renders -> Call] /\ LastOut' /\ Blamed'
  BY <1>1, RenderGoesOn
<1> QED
  BY <1>1, <1>2 DEF RpInv, RpTypeOK

LEMMA StaysSame == UNCHANGED <<procs, slots, open>> => Stays
BY DEF Stays

LEMMA LocksKept ==
  ASSUME RpInv, NEW r \in Renders,
         TryLock(r) \/ Lock(r) \/ WriteFails(r) \/ EndOfFile(r) \/ TimesOut(r) \/ Leave(r)
  PROVE  RpInv'
<1> DEFINE c == calls[r]
<1>0. RpTypeOK /\ c \in Call /\ Blamed /\ UNCHANGED <<procs, slots, open, faults>>
  BY DEF RpInv, RpTypeOK, TryLock, Lock, WriteFails, EndOfFile, TimesOut, Leave, Taken
<1>1. Stays /\ procs' \in Seq(Process) /\ faults' \in Nat
  BY <1>0, StaysSame DEF RpTypeOK
<1>2. ASSUME NEW d \in Slots, Taken(r, d), c.pc = "idle", holder[d] = Nobody PROVE RpInv'
  <2> DEFINE k == [c EXCEPT !.pc = "write", !.slot = d, !.attempt = 1, !.seen = 0,
                            !.hint = After(d)]
  <2>1. After(d) \in Nat
    BY RenderPoolAssumption DEF After, Slots
  <2>2. k \in Call /\ k.pc = "write" /\ k.attempt = 1
    BY <1>0, <2>1 DEF Call
  <2>3. calls' = [calls EXCEPT ![r] = k]
    BY <1>2 DEF Taken
  <2>4. holder' \in [Slots -> Renders \cup {Nobody}]
    BY <1>0, <1>2 DEF Taken, RpTypeOK
  <2>5. k.slot = d
    BY <1>0 DEF Call
  <2> HIDE DEF k
  <2>6. Holding'
    <3> SUFFICES ASSUME NEW q \in Renders, calls'[q].pc \in Inside
                 PROVE  /\ holder'[calls'[q].slot] = q
                        /\ calls'[q].pc = "read" => slots[calls'[q].slot].pipes # 0
      BY <1>0 DEF Holding
    <3>1. holder' = [holder EXCEPT ![d] = r] /\ calls'[r] = k
      BY <1>0, <1>2, <2>3 DEF Taken, RpTypeOK
    <3>2. CASE q = r
      BY <1>0, <2>2, <2>5, <3>1, <3>2 DEF RpTypeOK
    <3>3. CASE q # r
      <4>1. calls'[q] = calls[q] /\ calls[q].slot \in Slots
        BY <1>0, <2>3, <3>3 DEF RpTypeOK, Call
      <4>2. holder[calls[q].slot] = q /\ (calls[q].pc = "read" => slots[calls[q].slot].pipes # 0)
        BY <4>1 DEF RpInv, Holding
      <4>3. calls[q].slot # d
        BY <1>2, <4>2, RenderPoolAssumption DEF Nobody
      <4> QED  BY <1>0, <3>1, <4>1, <4>2, <4>3 DEF RpTypeOK
    <3> QED  BY <3>2, <3>3
  <2> QED  BY <1>1, <1>2, <2>2, <2>3, <2>4, <2>6, QuietStep
<1>3. CASE TryLock(r)
  <2>1. Candidate(r) \in Slots
    BY <1>0, RenderPoolAssumption DEF Candidate, Slots, Call
  <2>2. CASE holder[Candidate(r)] = Nobody
    BY <1>2, <1>3, <2>1, <2>2 DEF TryLock, Slots
  <2>3. CASE holder[Candidate(r)] # Nobody
    <3> DEFINE k == [c EXCEPT !.seen = @ + 1]
    <3>1. k \in Call /\ k.pc = "idle"
      BY <1>0, <1>3 DEF Call, TryLock
    <3>2. calls' = [calls EXCEPT ![r] = k] /\ c.pc = "idle" /\ holder' = holder
      BY <1>3, <2>3 DEF TryLock
    <3>3. holder' \in [Slots -> Renders \cup {Nobody}]
      BY <1>0, <3>2 DEF RpTypeOK
    <3> HIDE DEF k
    <3>4. Holding'
      <4>1. \A q \in Renders : calls'[q].pc = calls[q].pc /\ (q # r => calls'[q] = calls[q])
        BY <1>0, <3>1, <3>2 DEF RpTypeOK
      <4> QED  BY <1>0, <3>2, <4>1 DEF RpInv, Holding, Inside
    <3> QED  BY <1>1, <3>1, <3>2, <3>3, <3>4, QuietStep
  <2> QED  BY <2>2, <2>3
<1>4. CASE Lock(r)
  <2>1. c.hint % Daemons \in Slots
    BY <1>0, RenderPoolAssumption DEF Slots, Call
  <2> QED  BY <1>2, <1>4, <2>1 DEF Lock
<1>5. ASSUME NEW own \in BOOLEAN, Fails(r, own), holder' = holder,
             c.pc \in {"write", "read"}, c.attempt # 1 => own
      PROVE  RpInv'
  <2> DEFINE k == [c EXCEPT !.pc = IF c.attempt = 1 THEN "respawn" ELSE "failed",
                            !.hurt = @ \/ own]
  <2>1. (c.hurt \/ own) \in BOOLEAN
    BY <1>0 DEF Call
  <2>2. k \in Call /\ k.pc # "write" /\ (k.pc = "failed" => k.hurt)
    <3>1. k.pc = IF c.attempt = 1 THEN "respawn" ELSE "failed"
      BY <1>0 DEF Call
    <3>2. k.hurt = (c.hurt \/ own)
      BY <1>0 DEF Call
    <3>3. k \in Call
      BY <1>0, <2>1 DEF Call
    <3> QED  BY <1>5, <3>1, <3>2, <3>3
  <2>3. calls' = [calls EXCEPT ![r] = k]
    BY <1>5 DEF Fails
  <2>4. holder' \in [Slots -> Renders \cup {Nobody}]
    BY <1>0, <1>5 DEF RpTypeOK
  <2>5. k.slot = c.slot /\ k.pc # "read"
    BY <1>0 DEF Call
  <2> HIDE DEF k
  <2>6. Holding'
    BY <1>0, <1>5, <2>2, <2>3, <2>5, HoldingKept DEF Inside
  <2> QED  BY <1>1, <1>5, <2>2, <2>3, <2>4, <2>6, QuietStep
<1>6. CASE WriteFails(r)
  <2>1. (c.attempt = 2) \in BOOLEAN /\ (c.attempt # 1 => c.attempt = 2)
    BY <1>0, <1>6 DEF WriteFails, Blamed
  <2> QED  BY <1>5, <1>6, <2>1 DEF WriteFails
<1>7. CASE EndOfFile(r) \/ TimesOut(r)
  BY <1>5, <1>7 DEF EndOfFile, TimesOut
<1>8. CASE Leave(r)
  <2> DEFINE k == [NewCall(0) EXCEPT !.pc = IF c.pc = "rendered" THEN "done" ELSE "threw"]
  <2>1. k \in Call /\ k.pc \in {"done", "threw"}
    BY NewCallType DEF Call
  <2>2. calls' = [calls EXCEPT ![r] = k] /\ c.pc \in {"rendered", "failed"}
    BY <1>8 DEF Leave
  <2>3. holder' \in [Slots -> Renders \cup {Nobody}]
    BY <1>0, <1>8 DEF Leave, Released, RpTypeOK
  <2> HIDE DEF k
  <2>4. Holding'
    <3> SUFFICES ASSUME NEW q \in Renders, calls'[q].pc \in Inside
                 PROVE  /\ holder'[calls'[q].slot] = q
                        /\ calls'[q].pc = "read" => slots[calls'[q].slot].pipes # 0
      BY <1>0 DEF Holding
    <3>1. calls'[r] = k
      BY <1>0, <2>2 DEF RpTypeOK
    <3>2. q # r
      BY <2>1, <3>1 DEF Inside
    <3>3. calls'[q] = calls[q] /\ calls[q].slot \in Slots /\ c.slot \in Slots
      BY <1>0, <2>2, <3>2 DEF RpTypeOK, Call
    <3>4. holder[calls[q].slot] = q /\ (calls[q].pc = "read" => slots[calls[q].slot].pipes # 0)
      BY <3>3 DEF RpInv, Holding
    <3>5. holder[c.slot] = r
      BY <2>2 DEF RpInv, Holding, Inside
    <3>6. holder' = [holder EXCEPT ![c.slot] = Nobody]
      BY <1>8 DEF Leave, Released
    <3> QED  BY <1>0, <3>2, <3>3, <3>4, <3>5, <3>6 DEF RpTypeOK
  <2> QED  BY <1>1, <2>1, <2>2, <2>3, <2>4, QuietStep
<1> QED
  BY <1>3, <1>4, <1>6, <1>7, <1>8

LEMMA TalksKept ==
  ASSUME RpInv, NEW r \in Renders, Write(r) \/ Reply(r)
  PROVE  RpInv'
<1> DEFINE c == calls[r]
           p == Slot(r).pipes
<1>0. /\ RpTypeOK /\ c \in Call /\ OwnChild /\ UNCHANGED <<slots, open, faults, holder>>
      /\ faults' \in Nat /\ holder' \in [Slots -> Renders \cup {Nobody}]
  BY DEF RpInv, RpTypeOK, Write, Reply
<1>1. p # 0
  <2>1. CASE Write(r)
    BY <2>1 DEF Write, Readable, NoProcess
  <2>2. CASE Reply(r)
    BY <2>2 DEF Reply, RpInv, Holding, Inside, Slot
  <2> QED  BY <2>1, <2>2
<1>2. p \in 1 .. Len(procs) /\ procs[p] \in Process
  <2>1. p \in 1 .. Len(procs)
    BY <1>0, <1>1, PipesInPool
  <2> QED  BY <1>0, <2>1 DEF RpTypeOK
<1>3. PICK q \in Process : procs' = [procs EXCEPT ![p] = q] /\ q.st = procs[p].st
  <2>1. procs[p].in \in Seq(Renders) /\ procs[p].out \in Seq(Renders)
    BY <1>2 DEF Process
  <2>2. CASE Write(r)
    <3>1. Append(procs[p].in, r) \in Seq(Renders)
      BY <2>1
    <3>2. [procs[p] EXCEPT !.in = Append(@, r)] \in Process
      BY <1>2, <3>1 DEF Process
    <3> QED  BY <1>2, <2>2, <3>2 DEF Write, Process
  <2>3. CASE Reply(r)
    <3>1. Tail(procs[p].out) \in Seq(Renders)
      BY <2>1, <2>3 DEF Reply
    <3>2. [procs[p] EXCEPT !.out = Tail(@)] \in Process
      BY <1>2, <3>1 DEF Process
    <3> QED  BY <1>2, <2>3, <3>2 DEF Reply, Process
  <2> QED  BY <2>2, <2>3
<1>4. procs' \in Seq(Process) /\ Stays
  <2> HIDE DEF p
  <2> QED  BY <1>0, <1>2, <1>3, PipesUsed
<1>5. PICK k \in Call : /\ calls' = [calls EXCEPT ![r] = k]
                        /\ k.pc \in {"read", "rendered"} /\ k.slot = c.slot
  <2>1. CASE Write(r)
    <3>1. [c EXCEPT !.pc = "read"] \in Call
      BY <1>0 DEF Call
    <3> QED  BY <1>0, <2>1, <3>1 DEF Write, Call
  <2>2. CASE Reply(r)
    <3>1. Head(procs[p].out) \in Renders
      <4>1. procs[p].out \in Seq(Renders) /\ procs[p].out # <<>>
        BY <1>2, <2>2 DEF Process, Reply
      <4> QED  BY <4>1
    <3>2. [c EXCEPT !.pc = "rendered", !.got = Head(procs[p].out)] \in Call
      BY <1>0, <3>1 DEF Call
    <3>3. calls' = [calls EXCEPT ![r] =
                      [c EXCEPT !.pc = "rendered", !.got = Head(procs[p].out)]]
      BY <2>2 DEF Reply
    <3>4. LET k == [c EXCEPT !.pc = "rendered", !.got = Head(procs[p].out)]
          IN  k.pc = "rendered" /\ k.slot = c.slot
      BY <1>0 DEF Call
    <3> QED  BY <3>2, <3>3, <3>4
  <2> QED  BY <2>1, <2>2
<1>6. c.pc \in Inside /\ c.pc \notin {"done", "threw"}
  BY DEF Write, Reply, Inside
<1>7. Holding'
  BY <1>0, <1>1, <1>5, <1>6, HoldingKept DEF Slot
<1> QED
  BY <1>0, <1>4, <1>5, <1>6, <1>7, QuietStep

\* The old child is waited for, under the mutex of its slot.
LEMMA ReapedProcs ==
  ASSUME RpTypeOK, OwnChild, NEW d \in Slots
  PROVE  /\ Reaped(slots[d].pid) \in Seq(Process)
         /\ Len(Reaped(slots[d].pid)) = Len(procs)
         /\ \A p \in 1 .. Len(procs) :
              Reaped(slots[d].pid)[p].st = IF p = slots[d].pid THEN "reaped" ELSE procs[p].st
<1> DEFINE pid == slots[d].pid
<1>0. /\ procs \in [1 .. Len(procs) -> Process] /\ Len(procs) \in Nat
      /\ pid \in 0 .. Len(procs)
  BY DEF RpTypeOK, OwnChild
<1>1. Gone \in Process /\ Gone.st = "reaped"
  BY DEF Gone, Process
<1>2. CASE pid = 0
  BY <1>0, <1>2 DEF Reaped, NoProcess, RpTypeOK
<1>3. CASE pid # 0
  <2>1. Reaped(pid) = [procs EXCEPT ![pid] = Gone]
    BY <1>3 DEF Reaped, NoProcess
  <2>2. Reaped(pid) \in [1 .. Len(procs) -> Process]
    BY <1>0, <1>1, <2>1
  <2>3. Reaped(pid) \in Seq(Process) /\ Len(Reaped(pid)) = Len(procs)
    BY <1>0, <2>2
  <2>4. \A p \in 1 .. Len(procs) : Reaped(pid)[p] = IF p = pid THEN Gone ELSE procs[p]
    BY <1>0, <2>1
  <2> QED  BY <1>1, <2>3, <2>4
<1> QED
  BY <1>2, <1>3

LEMMA ReplacingStep ==
  ASSUME RpInv, NEW r \in Renders, calls[r].pc = "respawn",
         NEW k \in Call, calls' = [calls EXCEPT ![r] = k], k.slot = calls[r].slot,
         k.pc \in {"write", "failed"},
         k.pc = "write" => k.attempt \in {1, 2}, k.pc = "failed" => k.hurt,
         NEW s, NEW forked \in BOOLEAN, Replaced(calls[r].slot, s, forked),
         procs' \in Seq(Process), faults' \in Nat, holder' = holder
  PROVE  RpInv'
<1>1. RpTypeOK /\ s \in SlotState /\ open' = open
  BY DEF RpInv, Replaced
<1>2. slots' \in [Slots -> SlotState] /\ \A d \in Slots : d # k.slot => slots'[d] = slots[d]
  BY <1>1 DEF Replaced, RpTypeOK
<1>3. OwnChild' /\ Known'
  BY ReplacedKnown DEF RpInv
<1>4. Holding'
  BY <1>2, HoldingKept DEF Inside
<1>5. calls' \in [Renders -> Call] /\ LastOut' /\ Blamed'
  BY <1>1, RenderGoesOn
<1> QED
  BY <1>1, <1>2, <1>3, <1>4, <1>5 DEF RpInv, RpTypeOK

LEMMA RespawnKept ==
  ASSUME RpInv, NEW r \in Renders, Respawn(r) \/ RespawnFails(r) \/ HandlesFail(r)
  PROVE  RpInv'
<1> DEFINE c == calls[r]
           d == c.slot
           old == Reaped(slots[d].pid)
           n == Len(procs) + 1
<1>0. RpTypeOK /\ OwnChild /\ c \in Call /\ d \in Slots /\ c.pc = "respawn" /\ holder' = holder
      /\ open' = open /\ faults' \in Nat /\ Len(procs) \in Nat
  <2>1. RpTypeOK /\ OwnChild
    BY DEF RpInv
  <2>2. calls[r].pc = "respawn" /\ holder' = holder /\ open' = open
    BY DEF Respawn, RespawnFails, HandlesFail
  <2>3. faults' = faults \/ faults' = faults + 1
    BY DEF Respawn, RespawnFails, HandlesFail
  <2>4. c \in Call /\ d \in Slots
    BY <2>1, <2>2 DEF RpTypeOK, Call
  <2> QED  BY <2>1, <2>2, <2>3, <2>4 DEF RpTypeOK
<1>1. open
  BY <1>0 DEF RpInv, LastOut, RpTypeOK
<1>2. /\ old \in Seq(Process) /\ Len(old) = Len(procs)
      /\ \A p \in 1 .. Len(procs) :
           old[p].st = IF p = slots[d].pid THEN "reaped" ELSE procs[p].st
  <2> HIDE DEF d
  <2> QED  BY <1>0, ReapedProcs
<1>3. Forked \in Process /\ Forked.st = "up"
  BY DEF Forked, Process
<1>4. /\ Append(old, Forked) \in Seq(Process) /\ Len(Append(old, Forked)) = n
      /\ Append(old, Forked)[n] = Forked
      /\ \A p \in 1 .. Len(procs) : Append(old, Forked)[p] = old[p]
  <2> HIDE DEF old
  <2> QED  BY <1>0, <1>2, <1>3
<1>5. /\ [c EXCEPT !.pc = "write", !.attempt = 2] \in Call
      /\ [c EXCEPT !.pc = "failed", !.hurt = TRUE] \in Call
  BY <1>0 DEF Call
<1>6. CASE Respawn(r)
  <2> DEFINE k == [c EXCEPT !.pc = "write", !.attempt = 2]
             s == [pid |-> n, pipes |-> n]
  <2>1. k \in Call /\ k.slot = d /\ k.pc = "write" /\ k.attempt = 2
    BY <1>0, <1>5 DEF Call
  <2>2. calls' = [calls EXCEPT ![r] = k]
    BY <1>6 DEF Respawn
  <2>3. procs' = Append(old, Forked) /\ slots' = [slots EXCEPT ![d] = s]
    BY <1>6 DEF Respawn
  <2>4. s \in SlotState /\ s.pid = n /\ s.pipes = n
    BY <1>0 DEF SlotState
  <2> HIDE DEF s, k, old
  <2>5. Replaced(d, s, TRUE)
    <3> HIDE DEF d, n
    <3> QED  BY <1>0, <1>1, <1>2, <1>3, <1>4, <2>3, <2>4 DEF Replaced, n
  <2> QED  BY <1>0, <1>4, <2>1, <2>2, <2>3, <2>5, ReplacingStep
<1> DEFINE k == [c EXCEPT !.pc = "failed", !.hurt = TRUE]
<1>7. k \in Call /\ k.slot = d /\ k.pc = "failed" /\ k.hurt
  BY <1>0, <1>5 DEF Call
<1>8. CASE RespawnFails(r)
  <2> DEFINE s == [pid |-> 0, pipes |-> 0]
  <2>1. calls' = [calls EXCEPT ![r] = k]
    BY <1>8 DEF RespawnFails
  <2>2. procs' = old /\ slots' = [slots EXCEPT ![d] = s]
    BY <1>8 DEF RespawnFails, Emptied, NoProcess
  <2>3. s \in SlotState /\ s.pid = 0 /\ s.pipes = 0
    BY DEF SlotState
  <2> HIDE DEF s, k, old
  <2>4. Replaced(d, s, FALSE)
    <3> HIDE DEF d
    <3> QED  BY <1>0, <1>1, <1>2, <2>2, <2>3 DEF Replaced
  <2> QED  BY <1>0, <1>2, <1>7, <2>1, <2>2, <2>4, ReplacingStep
<1>9. CASE HandlesFail(r)
  <2> DEFINE s == [pid |-> n, pipes |-> 0]
  <2>1. calls' = [calls EXCEPT ![r] = k]
    BY <1>9 DEF HandlesFail
  <2>2. procs' = Append(old, Forked) /\ slots' = [slots EXCEPT ![d] = s]
    BY <1>9 DEF HandlesFail, NoProcess
  <2>3. s \in SlotState /\ s.pid = n /\ s.pipes = 0
    BY <1>0 DEF SlotState
  <2> HIDE DEF s, k, old
  <2>4. Replaced(d, s, TRUE)
    <3> HIDE DEF d, n
    <3> QED  BY <1>0, <1>1, <1>2, <1>3, <1>4, <2>2, <2>3 DEF Replaced, n
  <2> QED  BY <1>0, <1>4, <1>7, <2>1, <2>2, <2>4, ReplacingStep
<1> QED
  BY <1>6, <1>8, <1>9

LEMMA DaemonsKept ==
  ASSUME RpInv, NEW p \in Pids, Answer(p) \/ Die(p)
  PROVE  RpInv'
<1>0. RpTypeOK /\ p \in 1 .. Len(procs) /\ UNCHANGED <<slots, holder, calls, open>>
      /\ faults' \in Nat
  BY DEF RpInv, RpTypeOK, Pids, Answer, Die
<1>1. procs[p] \in Process /\ procs[p].st = "up"
  BY <1>0 DEF RpTypeOK, Answer, Die
<1>2. PICK q \in Process : procs' = [procs EXCEPT ![p] = q] /\ q.st # "reaped"
  <2>1. procs[p].in \in Seq(Renders) /\ procs[p].out \in Seq(Renders)
    BY <1>1 DEF Process
  <2>2. CASE Answer(p)
    <3>1. /\ Tail(procs[p].in) \in Seq(Renders) /\ Head(procs[p].in) \in Renders
          /\ Append(procs[p].out, Head(procs[p].in)) \in Seq(Renders)
      <4>1. procs[p].in # <<>>
        BY <2>2 DEF Answer
      <4> QED  BY <2>1, <4>1
    <3>2. [procs[p] EXCEPT !.in = Tail(@), !.out = Append(@, Head(procs[p].in))] \in Process
      BY <1>1, <3>1 DEF Process
    <3> QED  BY <1>1, <2>2, <3>2 DEF Answer, Process
  <2>3. CASE Die(p)
    <3>1. <<>> \in Seq(Renders)
      OBVIOUS
    <3>2. [procs[p] EXCEPT !.st = "dead", !.in = <<>>] \in Process
      BY <1>1, <3>1 DEF Process
    <3>3. procs' = [procs EXCEPT ![p] = [procs[p] EXCEPT !.st = "dead", !.in = <<>>]]
      BY <2>3 DEF Die
    <3>4. [procs[p] EXCEPT !.st = "dead", !.in = <<>>].st = "dead"
      BY <1>1 DEF Process
    <3> QED  BY <3>2, <3>3, <3>4
  <2> QED  BY <2>2, <2>3
<1>3. procs' \in Seq(Process) /\ Stays
  BY <1>0, <1>1, <1>2, PipesUsed
<1>4. OwnChild' /\ Known'
  BY <1>3, StaysKnown DEF RpInv
<1> QED
  BY <1>0, <1>3, <1>4 DEF RpInv, RpTypeOK, LastOut, Blamed, Holding

LEMMA DestroyKept ==
  ASSUME RpInv, Destroy
  PROVE  RpInv'
<1>0. /\ RpTypeOK /\ OwnChild /\ Known /\ UNCHANGED <<slots, holder, calls, faults>>
      /\ open' = FALSE /\ \A r \in Renders : calls[r].pc \in {"done", "threw"}
  BY DEF RpInv, Destroy, Ended
<1>1. /\ procs \in [1 .. Len(procs) -> Process] /\ Len(procs) \in Nat
      /\ Gone \in Process /\ Gone.st = "reaped"
  <2>1. Gone \in Process /\ Gone.st = "reaped"
    BY DEF Gone, Process
  <2> QED  BY <1>0, <2>1 DEF RpTypeOK
<1>2. procs' = [p \in 1 .. Len(procs) |->
                  IF \E d \in Slots : slots[d].pid = p THEN Gone ELSE procs[p]]
  BY <1>1 DEF Destroy, Pids
<1>3. procs' \in [1 .. Len(procs) -> Process]
  BY <1>1, <1>2
<1>4. procs' \in Seq(Process) /\ Len(procs') = Len(procs)
  BY <1>1, <1>3
<1>5. \A p \in 1 .. Len(procs) : procs'[p].st = "reaped"
  <2> SUFFICES ASSUME NEW p \in 1 .. Len(procs) PROVE procs'[p].st = "reaped"
    OBVIOUS
  <2>1. CASE \E d \in Slots : slots[d].pid = p
    BY <1>1, <1>2, <2>1
  <2>2. CASE ~\E d \in Slots : slots[d].pid = p
    BY <1>0, <1>2, <2>2 DEF Known
  <2> QED  BY <2>1, <2>2
<1> QED
  BY <1>0, <1>4, <1>5
     DEF RpInv, RpTypeOK, OwnChild, Known, LastOut, Blamed, Holding, Inside

-----------------------------------------------------------------------------
LEMMA RpInitInv == RpInit => RpInv
<1> SUFFICES ASSUME RpInit PROVE RpInv
  OBVIOUS
<1> USE RenderPoolAssumption
<1>1. Forked \in Process /\ Forked.st = "up"
  BY DEF Forked, Process
<1>2. procs \in Seq(Process) /\ Len(procs) = Daemons
  BY <1>1 DEF RpInit
<1>3. \A r \in Renders : calls[r] \in Call /\ calls[r].pc = "idle"
  BY NewCallType DEF RpInit, NewCall
<1>4. \A d \in Slots : /\ slots[d] = [pid |-> d + 1, pipes |-> d + 1] /\ d \in Nat
                        /\ slots[d].pid = d + 1 /\ slots[d].pipes = d + 1 /\ d + 1 \in 1 .. Daemons
  BY DEF RpInit, Slots
<1>5. RpTypeOK
  <2>1. slots \in [Slots -> SlotState]
    BY <1>4 DEF RpInit, SlotState
  <2>2. calls \in [Renders -> Call]
    BY <1>3 DEF RpInit
  <2> QED  BY <1>2, <2>1, <2>2 DEF RpInit, RpTypeOK
<1>6. OwnChild
  <2>1. \A d \in Slots : slots[d].pid \in 0 .. Len(procs) /\ slots[d].pipes = slots[d].pid
    <3> SUFFICES ASSUME NEW d \in Slots
                 PROVE  slots[d].pid \in 0 .. Len(procs) /\ slots[d].pipes = slots[d].pid
      OBVIOUS
    <3>1. slots[d].pid = d + 1 /\ slots[d].pipes = d + 1 /\ d \in Nat /\ d + 1 \in 1 .. Daemons
      BY <1>4
    <3> QED  BY <1>2, <3>1
  <2>2. \A d, e \in Slots : slots[d].pid = slots[e].pid => d = e
    <3> SUFFICES ASSUME NEW d \in Slots, NEW e \in Slots, slots[d].pid = slots[e].pid
                 PROVE  d = e
      OBVIOUS
    <3>1. d + 1 = e + 1 /\ d \in Nat /\ e \in Nat
      BY <1>4
    <3> QED  BY <3>1
  <2> QED  BY <2>1, <2>2 DEF OwnChild
<1>7. Known
  <2>1. \A p \in 1 .. Len(procs) : procs[p].st = "up" /\ \E d \in Slots : slots[d].pid = p
    <3> SUFFICES ASSUME NEW p \in 1 .. Daemons
                 PROVE  procs[p].st = "up" /\ \E d \in Slots : slots[d].pid = p
      BY <1>2
    <3>1. p - 1 \in Slots
      BY DEF Slots
    <3>2. slots[p - 1].pid = p
      <4>1. slots[p - 1].pid = (p - 1) + 1
        BY <1>4, <3>1
      <4> QED  BY <4>1
    <3> QED  BY <1>1, <3>1, <3>2 DEF RpInit
  <2> QED  BY <1>2, <1>4, <2>1 DEF Known, RpInit
<1>8. LastOut /\ Blamed /\ Holding
  BY <1>3 DEF RpInit, LastOut, Blamed, Holding, Inside
<1> QED
  BY <1>5, <1>6, <1>7, <1>8 DEF RpInv

LEMMA RpInvNext == RpInv /\ [RpNext]_rpvars => RpInv'
<1> SUFFICES ASSUME RpInv, [RpNext]_rpvars PROVE RpInv'
  OBVIOUS
<1>1. CASE UNCHANGED rpvars
  BY <1>1 DEF rpvars, RpInv, RpTypeOK, OwnChild, Known, LastOut, Blamed, Holding
<1>2. ASSUME NEW r \in Renders, RenderStep(r) \/ RespawnFails(r) \/ HandlesFail(r)
      PROVE  RpInv'
  BY <1>2, LocksKept, TalksKept, RespawnKept DEF RenderStep
<1>3. ASSUME NEW p \in Pids, Answer(p) \/ Die(p) PROVE RpInv'
  BY <1>3, DaemonsKept
<1>4. CASE Destroy
  BY <1>4, DestroyKept
<1> QED
  BY <1>1, <1>2, <1>3, <1>4 DEF RpNext

LEMMA PoolKeptByInv == RpInv => PoolKept
<1> SUFFICES ASSUME RpInv PROVE PoolKept
  OBVIOUS
<1>0. RpTypeOK /\ OwnChild /\ Known /\ Blamed
  BY DEF RpInv
<1>1. Pids = 1 .. Len(procs)
  BY <1>0 DEF Pids, RpTypeOK
<1>2. ASSUME NEW p \in Pids, procs[p].st # "reaped"
      PROVE  open /\ Cardinality({d \in Slots : slots[d].pid = p}) = 1
  <2>1. open /\ p # 0
    BY <1>0, <1>1, <1>2 DEF Known
  <2>2. PICK d \in Slots : slots[d].pid = p
    BY <1>0, <1>1, <1>2 DEF Known
  <2>3. {e \in Slots : slots[e].pid = p} = {d}
    BY <1>0, <2>1, <2>2 DEF OwnChild
  <2> QED  BY <2>1, <2>3, FS_Singleton
<1>3. NoOrphans
  BY <1>0, <1>2 DEF NoOrphans, Known, NoProcess
<1>4. SlotsRecover
  BY <1>0 DEF SlotsRecover, Blamed
<1> QED
  BY <1>3, <1>4 DEF PoolKept

\* For any number of daemons, of renders and of deaths and failed forks: every
\* process that pdf_daemon.cpp forks and has not waited for is the child of
\* just one slot until the renderer is destroyed, and of none after, and a
\* render fails only by what happened while it held its daemon.
THEOREM RenderPoolKept == RpSpec => []PoolKept
BY RpInitInv, RpInvNext, PoolKeptByInv, PTL DEF RpSpec

----------------------------------------------------------------------------
(***************************************************************************)
(* Where the verdicts of the readiness probe come from, for any number of  *)
(* callers, any time to live and passes that last as long as they like.    *)
(*                                                                         *)
(* The verdict and the stamp are two atomics, written one after the other  *)
(* by the pass and read one after the other by calls that hold no mutex:   *)
(* a call may take the verdict of a later pass than the stamp it judged    *)
(* by.  It is right because passes are stored in the order they began, and *)
(* the last one stored began no earlier than `stamp`.  A pass the queue    *)
(* refused stores the verdict it found, so the flag stays the GPU's last   *)
(* word.                                                                   *)
(***************************************************************************)

RdSpec == RdInit /\ [][RdNext]_rdvars

Steps == {"idle", "stamp", "cached", "lock", "probe", "store", "stored", "answered",
          "refused", "busy"}
Pass == [began : Nat, refused : BOOLEAN, says : BOOLEAN]
ReadyCheck == [pc : Steps, now : Nat, says : BOOLEAN, began : Nat, refused : BOOLEAN, seen : Nat]
RdTypeOK ==
  /\ clock \in Nat /\ stamp \in Nat /\ passes \in Seq(Pass)
  /\ ready \in BOOLEAN /\ draining \in BOOLEAN
  /\ prober \in Checkers \cup {NoProber}
  /\ checks \in [Checkers -> ReadyCheck]

\* The one that holds the mutex is the only one that probes and stores.
OneProber ==
  \A c \in Checkers : checks[c].pc \in {"probe", "store", "stored"} => prober = c

LastBegan == passes[Len(passes)].began
Times ==
  /\ Len(passes) >= 1 /\ stamp <= LastBegan /\ LastBegan <= clock
  /\ \A c \in Checkers :
       /\ checks[c].now <= clock
       /\ checks[c].pc \in {"probe", "store"} =>
            checks[c].now <= checks[c].began /\ LastBegan <= checks[c].began /\ checks[c].began <= clock
       /\ checks[c].pc = "stored" => checks[c].began = LastBegan /\ checks[c].now <= LastBegan
       /\ checks[c].pc = "cached" => LastBegan > checks[c].now - Ttl
       /\ checks[c].pc = "answered" =>
            checks[c].seen \in 1 .. Len(passes) /\ passes[checks[c].seen].began > checks[c].now - Ttl

\* Whose word the flag is, and what a call took from it.
Words ==
  /\ LastWord(ready, Len(passes))
  /\ \A c \in Checkers :
       /\ checks[c].pc = "store" /\ checks[c].refused => checks[c].says = ready
       /\ checks[c].pc = "stored" => checks[c].says = ready
       /\ checks[c].pc = "answered" => LastWord(checks[c].says, checks[c].seen)

RdInv == RdTypeOK /\ OneProber /\ Times /\ Words

-----------------------------------------------------------------------------
LEMMA RdInitInv == RdInit => RdInv
<1> SUFFICES ASSUME RdInit PROVE RdInv
  OBVIOUS
<1>1. \A c \in Checkers : checks[c].pc = "idle" /\ checks[c].now = 0
  BY DEF RdInit, Check0
<1> DEFINE first == [began |-> 0, refused |-> FALSE, says |-> ready]
<1>2. first \in Pass /\ passes = <<first>> /\ passes \in Seq(Pass) /\ Len(passes) = 1
      /\ passes[1] = first
  BY DEF RdInit, Pass
<1>3. RdTypeOK
  BY <1>2 DEF RdInit, RdTypeOK, Check0, ReadyCheck, Steps
<1>4. LastWord(ready, Len(passes))
  BY <1>2 DEF LastWord
<1> QED
  BY <1>1, <1>2, <1>3, <1>4 DEF RdInit, RdInv, OneProber, Times, LastBegan, Words

LEMMA BeginsAgain ==
  ASSUME RdTypeOK, NEW c \in Checkers, Refuses(c) \/ SaysBusy(c) \/ ReadsClock(c)
  PROVE  /\ checks'[c].pc \in {"refused", "busy", "stamp"} /\ checks'[c].now \in {0, clock}
         /\ \A d \in Checkers : d # c => checks'[d] = checks[d]
         /\ checks' \in [Checkers -> ReadyCheck]
         /\ UNCHANGED <<clock, ready, stamp, prober, draining, passes>>
<1>1. /\ [Check0 EXCEPT !.pc = "refused"] \in ReadyCheck
      /\ [Check0 EXCEPT !.pc = "busy", !.says = TRUE] \in ReadyCheck
      /\ [Check0 EXCEPT !.pc = "stamp", !.now = clock] \in ReadyCheck
  BY DEF RdTypeOK, Check0, ReadyCheck, Steps
<1>2. PICK k \in ReadyCheck :
        /\ checks' = [checks EXCEPT ![c] = k]
        /\ k.pc \in {"refused", "busy", "stamp"} /\ k.now \in {0, clock}
  <2>1. CASE Refuses(c)
    BY <1>1, <2>1 DEF Refuses, Check0
  <2>2. CASE SaysBusy(c)
    BY <1>1, <2>2 DEF SaysBusy, Check0
  <2>3. CASE ReadsClock(c)
    BY <1>1, <2>3 DEF ReadsClock, Check0
  <2> QED  BY <2>1, <2>2, <2>3
<1>3. UNCHANGED <<clock, ready, stamp, prober, draining, passes>>
  BY DEF Refuses, SaysBusy, ReadsClock
<1>4. checks \in [Checkers -> ReadyCheck] => checks' \in [Checkers -> ReadyCheck] /\ checks'[c] = k
  BY <1>2
<1> QED
  BY <1>2, <1>3, <1>4 DEF RdTypeOK

\* What every other step does to the calls and the passes, field by field.
LEMMA ChecksKeep ==
  ASSUME RdTypeOK, NEW c \in Checkers, NEW k \in ReadyCheck, checks' = [checks EXCEPT ![c] = k]
  PROVE  /\ checks' \in [Checkers -> ReadyCheck] /\ checks'[c] = k
         /\ \A d \in Checkers : d # c => checks'[d] = checks[d]
BY DEF RdTypeOK

LEMMA ReadsStampIs ==
  ASSUME RdTypeOK, NEW c \in Checkers, ReadsStamp(c)
  PROVE  \E k \in ReadyCheck :
           /\ checks' = [checks EXCEPT ![c] = k] /\ k.now = checks[c].now
           /\ k.pc = "lock" \/ (k.pc = "cached" /\ checks[c].now - stamp < Ttl)
           /\ UNCHANGED <<clock, ready, stamp, prober, draining, passes>>
<1> DEFINE k == [checks[c] EXCEPT !.pc = IF Fresh(c) THEN "cached" ELSE "lock"]
<1>1. checks[c] \in ReadyCheck
  BY DEF RdTypeOK
<1>2. checks' = [checks EXCEPT ![c] = k]
  BY DEF ReadsStamp
<1>3. k \in ReadyCheck /\ k.now = checks[c].now /\ k.pc = IF Fresh(c) THEN "cached" ELSE "lock"
  BY <1>1 DEF ReadyCheck, Steps
<1> QED
  BY <1>2, <1>3 DEF ReadsStamp, Fresh

LEMMA FromCacheIs ==
  ASSUME RdTypeOK, NEW c \in Checkers, AnswersFromCache(c)
  PROVE  \E k \in ReadyCheck :
           /\ checks' = [checks EXCEPT ![c] = k] /\ k.now = checks[c].now /\ k.pc = "answered"
           /\ k.says = ready /\ k.seen = Len(passes)
<1> DEFINE k == [checks[c] EXCEPT !.pc = "answered", !.says = ready, !.seen = Len(passes)]
<1>1. checks[c] \in ReadyCheck /\ Len(passes) \in Nat
  BY DEF RdTypeOK
<1>2. checks' = [checks EXCEPT ![c] = k]
  BY DEF AnswersFromCache
<1>3. k \in ReadyCheck /\ k.now = checks[c].now /\ k.pc = "answered" /\ k.says = ready
      /\ k.seen = Len(passes)
  BY <1>1 DEF RdTypeOK, ReadyCheck, Steps
<1> QED
  BY <1>2, <1>3

LEMMA ProbesIs ==
  ASSUME RdTypeOK, NEW c \in Checkers,
         checks' = [checks EXCEPT ![c].pc = "probe", ![c].began = clock]
  PROVE  \E k \in ReadyCheck :
           /\ checks' = [checks EXCEPT ![c] = k] /\ k.now = checks[c].now /\ k.pc = "probe"
           /\ k.began = clock
<1> DEFINE k == [checks[c] EXCEPT !.pc = "probe", !.began = clock]
<1>1. checks[c] \in ReadyCheck
  BY DEF RdTypeOK
<1>2. checks' = [checks EXCEPT ![c] = k]
  OBVIOUS
<1>3. k \in ReadyCheck /\ k.now = checks[c].now /\ k.pc = "probe" /\ k.began = clock
  BY <1>1 DEF RdTypeOK, ReadyCheck, Steps
<1> QED
  BY <1>2, <1>3

LEMMA PassGivesIs ==
  ASSUME RdTypeOK, NEW c \in Checkers, NEW verdict \in BOOLEAN, NEW full \in BOOLEAN,
         PassGives(c, verdict, full)
  PROVE  \E k \in ReadyCheck :
           /\ checks' = [checks EXCEPT ![c] = k] /\ k.now = checks[c].now /\ k.pc = "store"
           /\ k.began = checks[c].began /\ k.says = verdict /\ k.refused = full
<1> DEFINE k == [checks[c] EXCEPT !.pc = "store", !.says = verdict, !.refused = full]
<1>1. checks[c] \in ReadyCheck
  BY DEF RdTypeOK
<1>2. checks' = [checks EXCEPT ![c] = k]
  BY DEF PassGives
<1>3. k \in ReadyCheck /\ k.now = checks[c].now /\ k.pc = "store" /\ k.began = checks[c].began
      /\ k.says = verdict /\ k.refused = full
  BY <1>1 DEF ReadyCheck, Steps
<1> QED
  BY <1>2, <1>3

LEMMA StoresIs ==
  ASSUME RdTypeOK, NEW c \in Checkers, Stores(c)
  PROVE  \E k \in ReadyCheck :
           /\ checks' = [checks EXCEPT ![c] = k] /\ k.now = checks[c].now /\ k.pc = "stored"
           /\ k.began = checks[c].began /\ k.says = checks[c].says
           /\ ready' = checks[c].says /\ passes' = Append(passes, ThisPass(c))
           /\ UNCHANGED <<clock, stamp, prober, draining>>
<1> DEFINE k == [checks[c] EXCEPT !.pc = "stored"]
<1>1. checks[c] \in ReadyCheck
  BY DEF RdTypeOK
<1>2. checks' = [checks EXCEPT ![c] = k]
  BY DEF Stores
<1>3. k \in ReadyCheck /\ k.now = checks[c].now /\ k.pc = "stored" /\ k.began = checks[c].began
      /\ k.says = checks[c].says
  BY <1>1 DEF ReadyCheck, Steps
<1>4. /\ ready' = checks[c].says /\ passes' = Append(passes, ThisPass(c))
      /\ UNCHANGED <<clock, stamp, prober, draining>>
  BY DEF Stores, StoresVerdict, StoresFirst
<1> QED
  BY <1>2, <1>3, <1>4

LEMMA UnlocksIs ==
  ASSUME RdTypeOK, NEW c \in Checkers, Unlocks(c)
  PROVE  \E k \in ReadyCheck :
           /\ checks' = [checks EXCEPT ![c] = k] /\ k.now = checks[c].now /\ k.pc = "answered"
           /\ k.says = checks[c].says /\ k.seen = Len(passes)
           /\ stamp' = checks[c].now /\ prober' = NoProber
           /\ UNCHANGED <<clock, ready, passes, draining>>
<1> DEFINE k == [checks[c] EXCEPT !.pc = "answered", !.seen = Len(passes)]
<1>1. checks[c] \in ReadyCheck /\ Len(passes) \in Nat
  BY DEF RdTypeOK
<1>2. /\ stamp' = checks[c].now /\ prober' = NoProber
      /\ UNCHANGED <<clock, ready, passes, draining>>
  BY DEF Unlocks, StoresStamp, StoresFirst, StampOf
<1>3. checks' = [checks EXCEPT ![c] = k]
  BY <1>2 DEF Unlocks
<1>4. k \in ReadyCheck /\ k.now = checks[c].now /\ k.pc = "answered" /\ k.says = checks[c].says
      /\ k.seen = Len(passes)
  BY <1>1 DEF ReadyCheck, Steps
<1> QED
  BY <1>2, <1>3, <1>4

\* A pass that is stored leaves the words of the earlier ones as they were, and
\* its own is the last, or it was refused and repeats the last.
LEMMA WordsKept ==
  ASSUME RdTypeOK, Words, Len(passes) >= 1,
         NEW p \in Pass, passes' = Append(passes, p), p.refused => p.says = ready
  PROVE  /\ \A v \in BOOLEAN : \A n \in 1 .. Len(passes) : LastWord(v, n) => LastWord(v, n)'
         /\ passes' \in Seq(Pass) /\ Len(passes') = Len(passes) + 1
         /\ \A n \in 1 .. Len(passes) : passes'[n] = passes[n]
         /\ passes'[Len(passes')] = p
         /\ \E j \in 1 .. Len(passes') :
              /\ ~passes'[j].refused /\ passes'[j].says = p.says
              /\ \A i \in j + 1 .. Len(passes') : passes'[i].refused
<1>1. /\ passes' \in Seq(Pass) /\ Len(passes') = Len(passes) + 1
      /\ \A n \in 1 .. Len(passes) : passes'[n] = passes[n]
      /\ passes'[Len(passes')] = p
      /\ Len(passes) \in Nat
  BY DEF RdTypeOK
<1>2. ASSUME NEW v \in BOOLEAN, NEW n \in 1 .. Len(passes), LastWord(v, n)
      PROVE  LastWord(v, n)'
  BY <1>1, <1>2 DEF LastWord
<1>3. \E j \in 1 .. Len(passes') :
        /\ ~passes'[j].refused /\ passes'[j].says = p.says
        /\ \A i \in j + 1 .. Len(passes') : passes'[i].refused
  <2>1. CASE ~p.refused
    BY <1>1, <2>1
  <2>2. CASE p.refused
    <3>1. PICK j \in 1 .. Len(passes) :
            /\ ~passes[j].refused /\ passes[j].says = ready
            /\ \A i \in j + 1 .. Len(passes) : passes[i].refused
      BY DEF Words, LastWord
    <3>2. \A i \in j + 1 .. Len(passes') : passes'[i].refused
      BY <1>1, <2>2, <3>1
    <3> QED  BY <1>1, <2>2, <3>1, <3>2
  <2> QED  BY <2>1, <2>2 DEF Pass
<1> QED
  BY <1>1, <1>2, <1>3

\* A step that stores no pass and lets one call on keeps the invariant, if the
\* call then stands where the invariant has it.
LEMMA OneCallMoves ==
  ASSUME RdInv, NEW c \in Checkers, NEW k \in ReadyCheck, checks' = [checks EXCEPT ![c] = k],
         UNCHANGED <<clock, ready, draining, passes>>,
         stamp' \in Nat, stamp' <= LastBegan, prober' \in Checkers \cup {NoProber},
         \A d \in Checkers : d # c /\ prober = d => prober' = d,
         k.pc \in {"probe", "store", "stored"} => prober' = c,
         k.now <= clock, k.pc # "stored",
         k.pc \in {"probe", "store"} => k.now <= k.began /\ LastBegan <= k.began /\ k.began <= clock,
         k.pc = "cached" => LastBegan > k.now - Ttl,
         k.pc = "answered" => k.seen = Len(passes) /\ LastBegan > k.now - Ttl /\ k.says = ready,
         k.pc = "store" /\ k.refused => k.says = ready
  PROVE  RdInv'
<1>0. RdTypeOK /\ OneProber /\ Times /\ Words
  BY DEF RdInv
<1>1. /\ checks' \in [Checkers -> ReadyCheck] /\ checks'[c] = k
      /\ \A d \in Checkers : d # c => checks'[d] = checks[d]
  BY <1>0, ChecksKeep
<1>2. RdTypeOK'
  BY <1>0, <1>1 DEF RdTypeOK
<1>3. OneProber'
  BY <1>0, <1>1 DEF OneProber
<1>4. /\ Len(passes) >= 1 /\ stamp' <= LastBegan /\ LastBegan <= clock /\ Len(passes) \in Nat
      /\ passes' = passes /\ clock' = clock /\ ready' = ready
  BY <1>0 DEF Times, RdTypeOK
<1>5. Times'
  <2>1. ASSUME NEW d \in Checkers
        PROVE  /\ checks'[d].now <= clock
               /\ checks'[d].pc \in {"probe", "store"} =>
                    /\ checks'[d].now <= checks'[d].began
                    /\ LastBegan <= checks'[d].began /\ checks'[d].began <= clock
               /\ checks'[d].pc = "stored" =>
                    checks'[d].began = LastBegan /\ checks'[d].now <= LastBegan
               /\ checks'[d].pc = "cached" => LastBegan > checks'[d].now - Ttl
               /\ checks'[d].pc = "answered" =>
                    /\ checks'[d].seen \in 1 .. Len(passes)
                    /\ passes[checks'[d].seen].began > checks'[d].now - Ttl
    <3>1. CASE d = c
      BY <1>1, <1>4, <3>1 DEF LastBegan
    <3>2. CASE d # c
      BY <1>0, <1>1, <3>2 DEF Times
    <3> QED  BY <3>1, <3>2
  <2> QED  BY <1>4, <2>1 DEF Times, LastBegan
<1>6. Words'
  <2>1. LastWord(ready, Len(passes))
    BY <1>0 DEF Words
  <2>2. ASSUME NEW d \in Checkers
        PROVE  /\ checks'[d].pc = "store" /\ checks'[d].refused => checks'[d].says = ready
               /\ checks'[d].pc = "stored" => checks'[d].says = ready
               /\ checks'[d].pc = "answered" => LastWord(checks'[d].says, checks'[d].seen)
    BY <1>0, <1>1, <2>1 DEF Words
  <2> QED  BY <1>4, <2>1, <2>2 DEF Words, LastWord
<1> QED
  BY <1>2, <1>3, <1>5, <1>6 DEF RdInv

LEMMA LastPass ==
  ASSUME RdTypeOK, Times
  PROVE  /\ Len(passes) \in Nat /\ Len(passes) >= 1 /\ passes[Len(passes)] \in Pass
         /\ LastBegan \in Nat /\ stamp \in Nat /\ clock \in Nat
         /\ stamp <= LastBegan /\ LastBegan <= clock
<1>1. /\ passes \in Seq(Pass) /\ stamp \in Nat /\ clock \in Nat
  BY DEF RdTypeOK
<1>2. Len(passes) >= 1 /\ stamp <= LastBegan /\ LastBegan <= clock
  BY DEF Times
<1>3. PICK n \in Nat : n = Len(passes) /\ n >= 1
  BY <1>1, <1>2
<1>4. passes[n] \in Pass
  BY <1>1, <1>3
<1>5. passes[n].began \in Nat
  BY <1>4 DEF Pass
<1> QED BY <1>1, <1>2, <1>3, <1>4, <1>5 DEF LastBegan

LEMMA StoresKeep ==
  ASSUME RdInv, NEW c \in Checkers, Stores(c)
  PROVE  RdInv'
<1>0. RdTypeOK /\ OneProber /\ Times /\ Words /\ checks[c].pc = "store" /\ prober = c
  BY DEF RdInv, Stores, CheckAt, OneProber
<1>1. PICK k \in ReadyCheck :
        /\ checks' = [checks EXCEPT ![c] = k] /\ k.now = checks[c].now /\ k.pc = "stored"
        /\ k.began = checks[c].began /\ k.says = checks[c].says
        /\ ready' = checks[c].says /\ passes' = Append(passes, ThisPass(c))
        /\ UNCHANGED <<clock, stamp, prober, draining>>
  BY <1>0, StoresIs
<1>2. /\ checks' \in [Checkers -> ReadyCheck] /\ checks'[c] = k
      /\ \A d \in Checkers : d # c => checks'[d] = checks[d]
  BY <1>0, <1>1, ChecksKeep
<1> DEFINE p == ThisPass(c)
<1>3. /\ p \in Pass /\ p.began = checks[c].began /\ p.says = checks[c].says
      /\ p.refused => p.says = ready
  BY <1>0 DEF RdTypeOK, ReadyCheck, Pass, ThisPass, Words
<1> HIDE DEF p
<1>4. /\ \A v \in BOOLEAN : \A n \in 1 .. Len(passes) : LastWord(v, n) => LastWord(v, n)'
      /\ passes' \in Seq(Pass) /\ Len(passes') = Len(passes) + 1
      /\ \A n \in 1 .. Len(passes) : passes'[n] = passes[n]
      /\ passes'[Len(passes')] = p
      /\ \E j \in 1 .. Len(passes') :
           /\ ~passes'[j].refused /\ passes'[j].says = p.says
           /\ \A i \in j + 1 .. Len(passes') : passes'[i].refused
  <2>1. Len(passes) >= 1 /\ passes' = Append(passes, p)
    BY <1>0, <1>1 DEF Times, p
  <2> QED  BY <1>0, <1>3, <2>1, WordsKept
<1>5. RdTypeOK'
  BY <1>0, <1>1, <1>2, <1>4 DEF RdTypeOK, ReadyCheck
<1>6. OneProber'
  BY <1>0, <1>1, <1>2 DEF OneProber
<1>7. /\ Len(passes) \in Nat /\ Len(passes) >= 1 /\ stamp <= LastBegan /\ LastBegan <= p.began
      /\ p.began <= clock /\ checks[c].now <= p.began /\ LastBegan' = p.began
      /\ stamp \in Nat /\ LastBegan \in Nat /\ p.began \in Nat
  <2>1. Len(passes) \in Nat /\ Len(passes) >= 1 /\ LastBegan \in Nat
    BY <1>0, LastPass
  <2> QED  BY <1>0, <1>3, <1>4, <2>1 DEF Times, LastBegan, RdTypeOK, Pass
<1>8. Times'
  <2>1. ASSUME NEW d \in Checkers
        PROVE  /\ checks'[d].now <= clock
               /\ checks'[d].pc \in {"probe", "store"} =>
                    /\ checks'[d].now <= checks'[d].began
                    /\ p.began <= checks'[d].began /\ checks'[d].began <= clock
               /\ checks'[d].pc = "stored" =>
                    checks'[d].began = p.began /\ checks'[d].now <= p.began
               /\ checks'[d].pc = "cached" => p.began > checks'[d].now - Ttl
               /\ checks'[d].pc = "answered" =>
                    /\ checks'[d].seen \in 1 .. Len(passes')
                    /\ passes'[checks'[d].seen].began > checks'[d].now - Ttl
    <3>1. CASE d = c
      BY <1>0, <1>1, <1>2, <1>3, <1>7, <3>1 DEF Times
    <3>2. CASE d # c
      <4>1. checks'[d] = checks[d] /\ checks[d].pc \notin {"probe", "store", "stored"}
        BY <1>0, <1>2, <3>2 DEF OneProber
      <4>2. checks[d].now \in Nat /\ Ttl \in Nat
        BY <1>0, ReadinessAssumption DEF RdTypeOK, ReadyCheck
      <4> QED  BY <1>0, <1>4, <1>7, <4>1, <4>2 DEF Times
    <3> QED  BY <3>1, <3>2
  <2>2. clock' = clock /\ stamp' = stamp
    BY <1>1
  <2> QED  BY <1>4, <1>7, <2>1, <2>2 DEF Times
<1>9. Words'
  <2>1. LastWord(ready, Len(passes))'
    BY <1>1, <1>3, <1>4 DEF LastWord
  <2>2. ASSUME NEW d \in Checkers
        PROVE  /\ checks'[d].pc = "store" /\ checks'[d].refused => checks'[d].says = ready'
               /\ checks'[d].pc = "stored" => checks'[d].says = ready'
               /\ checks'[d].pc = "answered" => LastWord(checks[d].says, checks[d].seen)'
    <3>1. CASE d = c
      BY <1>1, <1>2, <3>1
    <3>2. CASE d # c
      <4>1. checks'[d] = checks[d] /\ checks[d].pc \notin {"probe", "store", "stored"}
        BY <1>0, <1>2, <3>2 DEF OneProber
      <4>2. ASSUME checks[d].pc = "answered" PROVE LastWord(checks[d].says, checks[d].seen)'
        <5>1. /\ checks[d].says \in BOOLEAN /\ checks[d].seen \in 1 .. Len(passes)
              /\ LastWord(checks[d].says, checks[d].seen)
          BY <1>0, <4>2 DEF RdTypeOK, ReadyCheck, Times, Words
        <5>2. PICK v \in BOOLEAN : v = checks[d].says
          BY <5>1
        <5>3. PICK n \in 1 .. Len(passes) : n = checks[d].seen
          BY <5>1
        <5>4. LastWord(v, n)'
          BY <1>4, <5>1, <5>2, <5>3
        <5> QED  BY <4>1, <5>2, <5>3, <5>4 DEF LastWord
      <4> QED  BY <4>1, <4>2
    <3> QED  BY <3>1, <3>2
  <2> QED  BY <2>1, <2>2 DEF Words
<1> QED
  BY <1>5, <1>6, <1>8, <1>9 DEF RdInv

LEMMA RdInvNext == RdInv /\ [RdNext]_rdvars => RdInv'
<1> SUFFICES ASSUME RdInv, [RdNext]_rdvars PROVE RdInv'
  OBVIOUS
<1>0. RdTypeOK /\ OneProber /\ Times /\ Words
  BY DEF RdInv
<1>t. /\ Ttl \in Nat /\ Ttl > 0 /\ Len(passes) \in Nat /\ Len(passes) >= 1
      /\ LastBegan \in Nat /\ stamp \in Nat /\ clock \in Nat
      /\ stamp <= LastBegan /\ LastBegan <= clock
  BY <1>0, LastPass, ReadinessAssumption
<1>c. ASSUME NEW c \in Checkers PROVE checks[c] \in ReadyCheck /\ checks[c].now \in Nat
  BY <1>0 DEF RdTypeOK, ReadyCheck
<1>1. CASE UNCHANGED rdvars
  BY <1>0, <1>1 DEF RdInv, RdTypeOK, OneProber, Times, LastBegan, Words, LastWord, rdvars
<1>2. CASE Tick \/ Shutdown
  <2>1. /\ clock' \in Nat /\ clock' >= clock /\ draining' \in BOOLEAN
        /\ UNCHANGED <<ready, stamp, passes, prober, checks>>
    <3>1. clock \in Nat /\ draining \in BOOLEAN
      BY <1>0 DEF RdTypeOK
    <3>2. CASE Tick
      BY <3>1, <3>2 DEF Tick
    <3>3. CASE Shutdown
      BY <3>1, <3>3 DEF Shutdown
    <3> QED BY <1>2, <3>2, <3>3
  <2>2. RdTypeOK' /\ OneProber'
    BY <1>0, <2>1 DEF RdTypeOK, OneProber
  <2>3. Times'
    BY <1>0, <1>t, <1>c, <2>1 DEF Times, LastBegan, RdTypeOK, ReadyCheck
  <2>4. Words'
    BY <1>0, <2>1 DEF Words, LastWord
  <2> QED  BY <2>2, <2>3, <2>4 DEF RdInv
<1>3. ASSUME NEW c \in Checkers, Refuses(c) \/ SaysBusy(c) \/ ReadsClock(c)
      PROVE  RdInv'
  <2>1. /\ checks'[c].pc \in {"refused", "busy", "stamp"} /\ checks'[c].now \in {0, clock}
        /\ \A d \in Checkers : d # c => checks'[d] = checks[d]
        /\ checks' \in [Checkers -> ReadyCheck]
        /\ UNCHANGED <<clock, ready, stamp, prober, draining, passes>>
    BY <1>0, <1>3, BeginsAgain
  <2>2. PICK k \in ReadyCheck : k = checks'[c]
    BY <2>1
  <2>3. checks' = [checks EXCEPT ![c] = k]
    BY <1>0, <2>1, <2>2 DEF RdTypeOK
  <2>4. /\ k.pc \in {"refused", "busy", "stamp"} /\ k.now <= clock
        /\ stamp' \in Nat /\ stamp' <= LastBegan /\ prober' \in Checkers \cup {NoProber}
        /\ \A d \in Checkers : d # c /\ prober = d => prober' = d
    BY <1>0, <1>t, <2>1, <2>2 DEF RdTypeOK
  <2>5. UNCHANGED <<clock, ready, draining, passes>>
    BY <2>1
  <2> QED  BY <2>3, <2>4, <2>5, OneCallMoves
<1>4. ASSUME NEW c \in Checkers, ReadsStamp(c) PROVE RdInv'
  <2>1. PICK k \in ReadyCheck :
          /\ checks' = [checks EXCEPT ![c] = k] /\ k.now = checks[c].now
          /\ k.pc = "lock" \/ (k.pc = "cached" /\ checks[c].now - stamp < Ttl)
          /\ UNCHANGED <<clock, ready, stamp, prober, draining, passes>>
    BY <1>0, <1>4, ReadsStampIs
  <2>2. k.now <= clock /\ (k.pc = "cached" => LastBegan > k.now - Ttl)
    BY <1>0, <1>t, <1>c, <2>1 DEF Times
  <2> QED  BY <1>0, <1>t, <2>1, <2>2, OneCallMoves DEF RdTypeOK
<1>5. ASSUME NEW c \in Checkers, AnswersFromCache(c), LastBegan > checks[c].now - Ttl,
             UNCHANGED <<clock, ready, stamp, prober, draining, passes>>
      PROVE  RdInv'
  <2>1. PICK k \in ReadyCheck :
          /\ checks' = [checks EXCEPT ![c] = k] /\ k.now = checks[c].now /\ k.pc = "answered"
          /\ k.says = ready /\ k.seen = Len(passes)
    BY <1>0, <1>5, FromCacheIs
  <2>2. k.now <= clock
    BY <1>0, <2>1 DEF Times
  <2> QED  BY <1>0, <1>t, <1>5, <2>1, <2>2, OneCallMoves DEF RdTypeOK
<1>6. ASSUME NEW c \in Checkers, ReadsVerdict(c) PROVE RdInv'
  <2>1. LastBegan > checks[c].now - Ttl
    BY <1>0, <1>6 DEF Times, ReadsVerdict, CheckAt
  <2> QED  BY <1>5, <1>6, <2>1 DEF ReadsVerdict
<1>7. ASSUME NEW c \in Checkers, LocksAndRechecks(c) PROVE RdInv'
  <2>1. CASE Fresh(c)
    <3>1. LastBegan > checks[c].now - Ttl
      BY <1>t, <1>c, <2>1 DEF Fresh
    <3> QED  BY <1>5, <1>7, <2>1, <3>1 DEF LocksAndRechecks
  <2>2. CASE ~Fresh(c)
    <3>1. /\ prober = NoProber /\ prober' = c /\ UNCHANGED <<clock, ready, stamp, draining, passes>>
          /\ checks' = [checks EXCEPT ![c].pc = "probe", ![c].began = clock]
      BY <1>7, <2>2 DEF LocksAndRechecks
    <3>2. PICK k \in ReadyCheck :
            /\ checks' = [checks EXCEPT ![c] = k] /\ k.now = checks[c].now /\ k.pc = "probe"
            /\ k.began = clock
      BY <1>0, <3>1, ProbesIs
    <3>3. k.now <= clock /\ \A d \in Checkers : prober # d
      BY <1>0, <3>1, <3>2, ReadinessAssumption DEF Times, NoProber
    <3>4. /\ stamp' \in Nat /\ stamp' <= LastBegan /\ prober' \in Checkers \cup {NoProber}
          /\ \A d \in Checkers : d # c /\ prober = d => prober' = d
      BY <1>t, <3>1, <3>3
    <3>5. k.now <= k.began /\ LastBegan <= k.began /\ k.began <= clock /\ prober' = c
      BY <1>t, <3>1, <3>2, <3>3
    <3>6. UNCHANGED <<clock, ready, draining, passes>>
      BY <3>1
    <3> QED  BY <3>2, <3>3, <3>4, <3>5, <3>6, OneCallMoves
  <2> QED  BY <2>1, <2>2
<1>8. ASSUME NEW c \in Checkers, ProbeEnds(c) PROVE RdInv'
  <2>1. PICK verdict \in BOOLEAN, full \in BOOLEAN :
          PassGives(c, verdict, full) /\ (full => verdict = ready)
    BY <1>0, <1>8 DEF ProbeEnds, RdTypeOK
  <2>2. PICK k \in ReadyCheck :
          /\ checks' = [checks EXCEPT ![c] = k] /\ k.now = checks[c].now /\ k.pc = "store"
          /\ k.began = checks[c].began /\ k.says = verdict /\ k.refused = full
    BY <1>0, <2>1, PassGivesIs
  <2>3. /\ UNCHANGED <<clock, ready, stamp, prober, draining, passes>> /\ prober = c
        /\ k.now <= k.began /\ LastBegan <= k.began /\ k.began <= clock /\ k.now <= clock
    BY <1>0, <1>8, <2>2 DEF ProbeEnds, CheckAt, OneProber, Times
  <2> QED  BY <1>0, <1>t, <2>1, <2>2, <2>3, OneCallMoves DEF RdTypeOK
<1>9. ASSUME NEW c \in Checkers, Stores(c) PROVE RdInv'
  BY <1>9, StoresKeep
<1>10. ASSUME NEW c \in Checkers, Unlocks(c) PROVE RdInv'
  <2>1. PICK k \in ReadyCheck :
          /\ checks' = [checks EXCEPT ![c] = k] /\ k.now = checks[c].now /\ k.pc = "answered"
          /\ k.says = checks[c].says /\ k.seen = Len(passes)
          /\ stamp' = checks[c].now /\ prober' = NoProber
          /\ UNCHANGED <<clock, ready, passes, draining>>
    BY <1>0, <1>10, UnlocksIs
  <2>2. /\ k.now \in Nat /\ k.now <= LastBegan /\ k.now <= clock /\ k.says = ready /\ prober = c
    BY <1>0, <1>c, <1>10, <2>1 DEF Unlocks, CheckAt, Times, Words, OneProber
  <2>3. /\ stamp' \in Nat /\ stamp' <= LastBegan /\ prober' \in Checkers \cup {NoProber}
        /\ \A d \in Checkers : d # c /\ prober = d => prober' = d
    BY <1>c, <2>1, <2>2
  <2>4. LastBegan > k.now - Ttl
    BY <1>t, <2>2
  <2>5. UNCHANGED <<clock, ready, draining, passes>>
    BY <2>1
  <2> QED  BY <2>1, <2>2, <2>3, <2>4, <2>5, OneCallMoves
<1> QED
  BY <1>1, <1>2, <1>3, <1>4, <1>6, <1>7, <1>8, <1>9, <1>10 DEF RdNext

\* What readiness() answers is the GPU's last word among the passes stored by
\* then, of which the last began less than a time to live before the call read the
\* clock; and so is the flag that gRPC Health reads, whichever of the flag and the
\* stamp a call without the mutex reads between the two stores of
\* readiness_gpu.cpp.  A pass refused by a full queue is no word of the GPU: the
\* age of the word is bounded only while the queue takes passes.
THEOREM VerdictsFresh == RdSpec => []FreshVerdict
<1>1. RdInv => FreshVerdict
  BY DEF RdInv, RdTypeOK, Times, Words, FreshVerdict, CheckAt
<1> QED
  BY RdInitInv, RdInvNext, <1>1, PTL DEF RdSpec

----------------------------------------------------------------------------
(***************************************************************************)
(* The pipelines of the CPU server.  Start-up loads a model into the       *)
(* pipeline at the head of the queue and puts it back at the end, a round  *)
(* for each place of the pool; as the pool may have fewer pipelines than   *)
(* places, what is loaded after k rounds are the last k of the queue.      *)
(***************************************************************************)

PpSpec == PpInit /\ [][PpNext]_ppvars

Pipes == 1 .. Len(models)
ModelNames == {"layout", "formula", "table", "doc_ori"}
InQueue == {idle[i] : i \in 1 .. Len(idle)}
Places == {"away", "asleep", "woken", "running", "done", "threw"}

IsUser(u) == DOMAIN u = {"pc", "lease", "want", "page", "out"} /\ u.pc \in Places
PpTypeOK ==
  /\ Len(models) \in 1 .. PoolSize /\ models \in Seq(SUBSET ModelNames)
  /\ idle \in Seq(Pipes)
  /\ boot = [stage |-> boot.stage, round |-> boot.round, want |-> boot.want]
  /\ boot.stage \in 1 .. 5 /\ boot.round \in 0 .. PoolSize - 1
  /\ users = [t \in Threads |-> users[t]] /\ \A t \in Threads : IsUser(users[t])

\* A pipeline is in the queue once, or lent to one thread.
LentOnce ==
  /\ \A i, j \in 1 .. Len(idle) : idle[i] = idle[j] => i = j
  /\ \A t \in Threads : At(t, "running") => users[t].lease \in Pipes \ InQueue
  /\ \A t, v \in Threads :
       At(t, "running") /\ At(v, "running") /\ users[t].lease = users[v].lease => t = v

\* Until the server serves, nothing is lent, and the last of the queue have the
\* models of the stage that is being loaded.
Loading ==
  /\ boot.stage # Serving => \A t \in Threads : At(t, "away")
  /\ boot.stage < Serving =>
       /\ InQueue = Pipes /\ Len(idle) = Len(models)
       /\ \A i \in 1 .. Len(idle) :
            i > Len(idle) - boot.round => Wanted \subseteq models[idle[i]]

\* What a stage of the server offers, every pipeline has.
StagesLoaded == \A p \in Pipes : stages \subseteq models[p]

Served(u) ==
  LET page == Pages[u.page]
  IN  /\ "layout" \in u.want => u.out.layout = page.regions
      /\ {"layout", "table"} \subseteq u.want => u.out.tables = Of(page, "table")
      /\ {"layout", "formula"} \subseteq u.want => u.out.formulas = Of(page, "formula")
Clientele ==
  /\ \A t \in Threads :
       users[t].pc \in {"asleep", "woken", "running"} => users[t].want \subseteq stages
  /\ \A t \in Clients : At(t, "done") => Served(users[t])

PpInv == PpTypeOK /\ LentOnce /\ Loading /\ StagesLoaded /\ Clientele

\* The answer of a pipeline that has what is wanted.
LEMMA CpuServes ==
  ASSUME NEW page, NEW want, NEW has, want \subseteq has
  PROVE  /\ "layout" \in want => CpuRun(page, want, has).layout = page.regions
         /\ {"layout", "table"} \subseteq want
              => CpuRun(page, want, has).tables = Of(page, "table")
         /\ {"layout", "formula"} \subseteq want
              => CpuRun(page, want, has).formulas = Of(page, "formula")
<1> DEFINE regions == IF "layout" \in want \cap has THEN page.regions ELSE <<>>
           read(class) == IF class \in want \cap has /\ regions # <<>> THEN Of(page, class) ELSE {}
<1>1. /\ CpuRun(page, want, has).layout = regions
      /\ CpuRun(page, want, has).tables = read("table")
      /\ CpuRun(page, want, has).formulas = read("formula")
  BY DEF CpuRun
<1>2. "layout" \in want => regions = page.regions
  OBVIOUS
<1>3. ASSUME page.regions = <<>>, NEW class PROVE Of(page, class) = {}
  <2>1. DOMAIN page.regions = {}
    BY <1>3
  <2> QED BY <2>1 DEF Of
<1>4. ASSUME "layout" \in want, NEW class \in want PROVE read(class) = Of(page, class)
  <2> HIDE DEF regions
  <2>1. CASE regions = <<>>
    BY <1>2, <1>3, <1>4, <2>1
  <2>2. CASE regions # <<>>
    BY <1>4, <2>2
  <2> QED BY <2>1, <2>2
<1> HIDE DEF regions, read
<1> QED BY <1>1, <1>2, <1>4

\* The queue without its head, and with a pipeline at its end.
LEMMA HeadTaken ==
  ASSUME PpTypeOK, LentOnce, idle # <<>>
  PROVE  /\ Head(idle) \in Pipes /\ Tail(idle) \in Seq(Pipes) /\ Len(idle) \in Nat \ {0}
         /\ Len(Tail(idle)) = Len(idle) - 1 /\ Head(idle) = idle[1]
         /\ \A i \in 1 .. Len(idle) - 1 : Tail(idle)[i] = idle[i + 1]
         /\ Head(idle) \in InQueue
         /\ \A i \in 1 .. Len(idle) - 1 : Tail(idle)[i] \in InQueue \ {Head(idle)}
<1>1. /\ idle \in Seq(Pipes) /\ Len(idle) \in Nat /\ Len(idle) # 0
  BY LenProperties, EmptySeq DEF PpTypeOK
<1>2. /\ Head(idle) \in Pipes /\ Tail(idle) \in Seq(Pipes)
      /\ Len(Tail(idle)) = Len(idle) - 1 /\ Head(idle) = idle[1]
      /\ \A i \in 1 .. Len(idle) - 1 : Tail(idle)[i] = idle[i + 1]
  BY <1>1, HeadTailProperties
<1>3. Head(idle) \in InQueue
  BY <1>1, <1>2 DEF InQueue
<1>4. ASSUME NEW i \in 1 .. Len(idle) - 1 PROVE Tail(idle)[i] \in InQueue \ {Head(idle)}
  <2>1. i + 1 \in 1 .. Len(idle) /\ 1 \in 1 .. Len(idle) /\ i + 1 # 1
    BY <1>1
  <2>2. idle[i + 1] \in InQueue /\ idle[i + 1] # idle[1]
    BY <2>1 DEF InQueue, LentOnce
  <2> QED BY <1>2, <2>2
<1> QED BY <1>1, <1>2, <1>3, <1>4

LEMMA PpInvInit == PpInit => PpInv
<1> SUFFICES ASSUME PpInit PROVE PpInv
  OBVIOUS
<1>1. PICK n \in 1 .. PoolSize :
        idle = [i \in 1 .. n |-> i] /\ models = [i \in 1 .. n |-> {}]
  BY DEF PpInit
<1>2. /\ n \in Nat /\ models \in Seq(SUBSET ModelNames) /\ Len(models) = n
  BY <1>1, PipelinePoolAssumption
<1>3. Pipes = 1 .. n /\ idle \in Seq(Pipes) /\ Len(idle) = n
  BY <1>1, <1>2 DEF Pipes
<1>4. /\ boot = [stage |-> 1, round |-> 0, want |-> boot.want]
      /\ stages = {} /\ users = [t \in Threads |-> Away]
  BY DEF PpInit
<1>5. InQueue = Pipes
  BY <1>1, <1>3 DEF InQueue
<1>6. PpTypeOK
  <2>1. \A t \in Threads : IsUser(users[t])
    BY <1>4 DEF IsUser, Away, Places
  <2>2. boot.stage \in 1 .. 5 /\ boot.round \in 0 .. PoolSize - 1 /\ Len(models) \in 1 .. PoolSize
    BY <1>2, <1>4, PipelinePoolAssumption
  <2>3. /\ users = [t \in Threads |-> users[t]]
        /\ boot = [stage |-> boot.stage, round |-> boot.round, want |-> boot.want]
    BY <1>4
  <2> QED BY <1>2, <1>3, <2>1, <2>2, <2>3 DEF PpTypeOK
<1>7. LentOnce
  BY <1>1, <1>3, <1>4 DEF LentOnce, At, Away
<1>8. Loading
  BY <1>2, <1>3, <1>4, <1>5 DEF Loading, At, Away
<1>9. StagesLoaded /\ Clientele
  BY <1>4 DEF StagesLoaded, Clientele, At, Away, Threads
<1> QED BY <1>6, <1>7, <1>8, <1>9 DEF PpInv

LEMMA SkipsStageKeeps ==
  ASSUME PpInv, SkipsStage
  PROVE  PpInv'
<1>1. /\ boot.stage \in 1 .. 3 /\ UNCHANGED <<idle, models, stages, users>>
      /\ boot' = [boot EXCEPT !.stage = boot.stage + 1, !.round = 0]
  BY DEF SkipsStage, NextStage, PpInv, PpTypeOK, Serving
<1>2. Pipes' = Pipes /\ InQueue' = InQueue /\ \A t : At(t, "away")' = At(t, "away")
  BY <1>1 DEF Pipes, InQueue, At
<1>3. /\ boot'.stage = boot.stage + 1 /\ boot'.round = 0
      /\ boot' = [stage |-> boot'.stage, round |-> boot'.round, want |-> boot'.want]
  BY <1>1 DEF PpInv, PpTypeOK
<1>4. PpTypeOK'
  BY <1>1, <1>2, <1>3, PipelinePoolAssumption DEF PpInv, PpTypeOK
<1>5. LentOnce' /\ StagesLoaded' /\ Clientele'
  BY <1>1, <1>2 DEF PpInv, LentOnce, StagesLoaded, Clientele, At
<1>6. Loading'
  <2>1. Len(idle) \in Nat
    BY LenProperties DEF PpInv, PpTypeOK
  <2> QED BY <1>1, <1>2, <1>3, <2>1 DEF PpInv, Loading, Serving
<1> QED BY <1>4, <1>5, <1>6 DEF PpInv

\* While the models are loaded the queue goes round and lends nothing.
LEMMA Rotated ==
  ASSUME PpInv, boot.stage < Serving, idle' = GivenBack(Tail(idle), Head(idle)),
         UNCHANGED users, Len(models') = Len(models)
  PROVE  /\ idle # <<>> /\ Head(idle) \in Pipes /\ Len(idle) \in Nat \ {0}
         /\ idle' \in Seq(Pipes) /\ Len(idle') = Len(idle) /\ Pipes' = Pipes
         /\ InQueue' = InQueue /\ LentOnce'
         /\ idle'[Len(idle)] = Head(idle)
         /\ \A i \in 1 .. Len(idle) - 1 : idle'[i] = idle[i + 1] /\ idle'[i] # Head(idle)
<1>1. Len(idle) = Len(models) /\ Len(models) \in Nat \ {0} /\ idle \in Seq(Pipes)
  BY PipelinePoolAssumption DEF PpInv, PpTypeOK, Loading
<1>2. idle # <<>>
  BY <1>1, EmptySeq
<1>3. /\ Head(idle) \in Pipes /\ Tail(idle) \in Seq(Pipes) /\ Len(idle) \in Nat \ {0}
      /\ Len(Tail(idle)) = Len(idle) - 1 /\ Head(idle) = idle[1]
      /\ \A i \in 1 .. Len(idle) - 1 : Tail(idle)[i] = idle[i + 1]
      /\ \A i \in 1 .. Len(idle) - 1 : Tail(idle)[i] \in InQueue \ {Head(idle)}
  BY <1>2, HeadTaken DEF PpInv
<1>4. idle' = Append(Tail(idle), Head(idle))
  BY DEF GivenBack
<1>5. /\ idle' \in Seq(Pipes) /\ Len(idle') = Len(idle)
      /\ idle'[Len(idle)] = Head(idle)
      /\ \A i \in 1 .. Len(idle) - 1 : idle'[i] = Tail(idle)[i]
  <2> DEFINE q == Tail(idle)
             h == Head(idle)
  <2>1. q \in Seq(Pipes) /\ h \in Pipes /\ Len(q) = Len(idle) - 1
    BY <1>3
  <2> HIDE DEF q, h
  <2>2. /\ Append(q, h) \in Seq(Pipes) /\ Len(Append(q, h)) = Len(q) + 1
        /\ Append(q, h)[Len(q) + 1] = h
        /\ \A i \in 1 .. Len(q) : Append(q, h)[i] = q[i]
    BY <2>1, AppendProperties
  <2>3. Len(q) + 1 = Len(idle)
    BY <1>3, <2>1
  <2> QED BY <1>4, <2>1, <2>2, <2>3 DEF q, h
<1>6. \A i \in 1 .. Len(idle) - 1 : idle'[i] = idle[i + 1] /\ idle'[i] # Head(idle)
  BY <1>3, <1>5
<1>7. \A i \in 1 .. Len(idle) : i = Len(idle) \/ i \in 1 .. Len(idle) - 1
  BY ONLY Len(idle) \in Nat
<1>8. InQueue' = InQueue
  <2>1. ASSUME NEW i \in 1 .. Len(idle) PROVE idle'[i] \in InQueue
    <3>1. CASE i = Len(idle)
      BY <1>3, <1>5, <3>1 DEF InQueue
    <3>2. CASE i \in 1 .. Len(idle) - 1
      BY <1>3, <1>5, <3>2
    <3> QED BY <1>7, <3>1, <3>2
  <2>2. ASSUME NEW i \in 1 .. Len(idle) PROVE idle[i] \in InQueue'
    <3>1. CASE i = 1
      BY <1>3, <1>5, <3>1 DEF InQueue
    <3>2. CASE i # 1
      <4>1. i - 1 \in 1 .. Len(idle) - 1 /\ idle'[i - 1] = idle[i] /\ i - 1 \in 1 .. Len(idle')
        BY <1>3, <1>5, <1>6, <3>2
      <4> QED BY <4>1 DEF InQueue
    <3> QED BY <3>1, <3>2
  <2> QED BY <1>5, <2>1, <2>2 DEF InQueue
<1>9. LentOnce'
  <2>1. ASSUME NEW i \in 1 .. Len(idle), NEW j \in 1 .. Len(idle), idle'[i] = idle'[j]
        PROVE  i = j
    <3>1. CASE i \in 1 .. Len(idle) - 1 /\ j \in 1 .. Len(idle) - 1
      <4>1. i + 1 \in 1 .. Len(idle) /\ j + 1 \in 1 .. Len(idle) /\ idle[i + 1] = idle[j + 1]
        BY <1>3, <1>6, <2>1, <3>1
      <4>2. i + 1 = j + 1
        BY <4>1 DEF PpInv, LentOnce
      <4> QED BY <3>1, <4>2
    <3>2. CASE i = Len(idle) /\ j = Len(idle)
      BY <3>2
    <3> QED BY <1>5, <1>6, <1>7, <2>1, <3>1, <3>2
  <2>2. \A t \in Threads : ~ At(t, "running")'
    BY DEF PpInv, PpTypeOK, Loading, At, Serving
  <2> QED BY <1>5, <2>1, <2>2 DEF LentOnce
<1> QED BY <1>2, <1>3, <1>5, <1>6, <1>8, <1>9 DEF Pipes

LEMMA LoadsIntoOneKeeps ==
  ASSUME PpInv, LoadsIntoOne
  PROVE  PpInv'
<1> DEFINE p == Head(idle)
           n == Len(idle)
           W == Wanted
<1>1. /\ boot.stage < Serving /\ UNCHANGED users
      /\ models' = [models EXCEPT ![p] = models[p] \cup W]
      /\ idle' = GivenBack(Tail(idle), Head(idle))
  BY DEF LoadsIntoOne
<1>2. /\ boot.stage \in 1 .. 3 /\ boot.round \in 0 .. PoolSize - 1 /\ W \subseteq ModelNames
      /\ models \in Seq(SUBSET ModelNames) /\ Len(models) \in 1 .. PoolSize
      /\ n = Len(models) /\ InQueue = Pipes /\ PoolSize \in Nat \ {0}
  <2>1. boot.stage \in 1 .. 3
    BY <1>1 DEF PpInv, PpTypeOK, Serving
  <2>2. W \subseteq ModelNames
    BY <2>1 DEF Wanted, Loads, ModelNames
  <2> QED BY <1>1, <2>1, <2>2, PipelinePoolAssumption DEF PpInv, PpTypeOK, Loading
<1> HIDE DEF W
<1>3. Len(models') = Len(models)
  BY <1>1, <1>2
<1>4. /\ p \in Pipes /\ n \in Nat \ {0} /\ idle' \in Seq(Pipes) /\ Len(idle') = n
      /\ Pipes' = Pipes /\ InQueue' = InQueue /\ LentOnce' /\ idle'[n] = p
      /\ \A i \in 1 .. n - 1 : idle'[i] = idle[i + 1] /\ idle'[i] # p
  BY <1>1, <1>3, Rotated
<1> HIDE DEF p, n
<1>5. models' \in Seq(SUBSET ModelNames)
  <2>1. p \in 1 .. Len(models) /\ models[p] \in SUBSET ModelNames
    BY <1>2, <1>4, ElementOfSeq DEF Pipes
  <2> QED BY <1>1, <1>2, <2>1
<1>6. \A k \in Pipes : models'[k] = IF k = p THEN models[p] \cup W ELSE models[k]
  BY <1>1, <1>2 DEF Pipes
<1>7. ASSUME NEW i \in 1 .. n, i > n - (boot.round + 1)
      PROVE  W \subseteq models'[idle'[i]]
  <2>1. CASE i = n
    BY <1>4, <1>6, <2>1
  <2>2. CASE i # n
    <3>1. i \in 1 .. n - 1 /\ i + 1 \in 1 .. n /\ i + 1 > n - boot.round
      BY <1>2, <1>4, <1>7, <2>2
    <3>2. W \subseteq models[idle[i + 1]]
      BY <1>1, <3>1 DEF PpInv, Loading, W, n
    <3>3. idle[i + 1] \in Pipes
      BY <1>2, <3>1 DEF InQueue, n
    <3> QED BY <1>4, <1>6, <3>1, <3>2, <3>3
  <2> QED BY <2>1, <2>2
<1>8. \A t \in Threads : At(t, "away")'
  BY <1>1, <1>2 DEF PpInv, Loading, At, Serving
<1>9. /\ \A t \in Threads : IsUser(users'[t])
      /\ users' = [t \in Threads |-> users'[t]]
  BY <1>1 DEF PpInv, PpTypeOK
<1>10. \A k \in Pipes : stages \subseteq models'[k]
  BY <1>6 DEF PpInv, StagesLoaded
<1>11. /\ boot = [stage |-> boot.stage, round |-> boot.round, want |-> boot.want]
       /\ Clients \subseteq Threads
  BY DEF PpInv, PpTypeOK, Threads
<1>12. Clientele'
  BY <1>8, <1>11 DEF Clientele, At
<1>13. CASE boot.round + 1 = PoolSize /\ NextStage /\ stages' = stages \cup W
  <2>1. /\ boot'.stage = boot.stage + 1 /\ boot'.round = 0
        /\ boot' = [stage |-> boot'.stage, round |-> boot'.round, want |-> boot'.want]
    BY <1>11, <1>13 DEF NextStage
  <2>2. PpTypeOK'
    BY <1>2, <1>3, <1>4, <1>5, <1>9, <2>1 DEF PpTypeOK
  <2>3. ASSUME NEW k \in Pipes PROVE stages' \subseteq models'[k]
    <3>1. PICK i \in 1 .. n : idle'[i] = k
      BY <1>2, <1>4 DEF InQueue
    <3>2. i > n - (boot.round + 1)
      BY <1>2, <1>4, <1>13
    <3>3. W \subseteq models'[k]
      BY <1>7, <3>1, <3>2
    <3> QED BY <1>10, <1>13, <3>3
  <2>4. Loading'
    BY <1>2, <1>3, <1>4, <1>8, <2>1 DEF Loading
  <2> QED BY <1>4, <1>12, <2>2, <2>3, <2>4 DEF PpInv, StagesLoaded
<1>14. CASE /\ boot.round + 1 # PoolSize /\ UNCHANGED stages
            /\ boot' = [boot EXCEPT !.round = boot.round + 1]
  <2>1. /\ boot'.stage = boot.stage /\ boot'.round = boot.round + 1 /\ boot'.want = boot.want
        /\ boot' = [stage |-> boot'.stage, round |-> boot'.round, want |-> boot'.want]
    BY <1>11, <1>14
  <2>2. PpTypeOK'
    BY <1>2, <1>3, <1>4, <1>5, <1>9, <1>14, <2>1 DEF PpTypeOK
  <2>3. Wanted' = W
    BY <2>1 DEF Wanted, W
  <2>4. Loading'
    BY <1>2, <1>3, <1>4, <1>7, <1>8, <2>1, <2>3 DEF Loading
  <2>5. StagesLoaded'
    BY <1>4, <1>10, <1>14 DEF StagesLoaded
  <2> QED BY <1>4, <1>12, <2>2, <2>4, <2>5 DEF PpInv
<1> QED BY <1>13, <1>14 DEF LoadsIntoOne, W

LEMMA LoadFailsKeeps ==
  ASSUME PpInv, LoadFails
  PROVE  PpInv'
<1>1. boot.stage < Serving /\ UNCHANGED <<models, stages, users>>
  BY DEF LoadFails
<1>2. /\ boot.stage \in 1 .. 3 /\ PoolSize \in Nat \ {0} /\ Clients \subseteq Threads
      /\ boot = [stage |-> boot.stage, round |-> boot.round, want |-> boot.want]
      /\ \A t \in Threads : At(t, "away")'
      /\ InQueue = Pipes /\ Len(idle) = Len(models)
  <2>1. boot.stage \in 1 .. 3 /\ boot.stage # Serving
    BY <1>1 DEF PpInv, PpTypeOK, Serving
  <2>2. \A t \in Threads : At(t, "away")'
    BY <1>1, <2>1 DEF PpInv, Loading, At
  <2> QED BY <1>1, <2>1, <2>2, PipelinePoolAssumption DEF PpInv, PpTypeOK, Loading, Threads
<1>3. StagesLoaded' /\ Clientele'
  BY <1>1, <1>2 DEF PpInv, StagesLoaded, Clientele, At, Pipes
<1>4. CASE boot' = [boot EXCEPT !.stage = Serving + 1] /\ UNCHANGED idle
  <2>1. /\ boot'.stage = 5 /\ boot'.round = boot.round
        /\ boot' = [stage |-> boot'.stage, round |-> boot'.round, want |-> boot'.want]
    BY <1>2, <1>4 DEF Serving
  <2>2. PpTypeOK'
    <3>1. boot'.stage \in 1 .. 5 /\ boot'.round \in 0 .. PoolSize - 1 /\ Pipes' = Pipes
      BY <1>1, <2>1 DEF PpInv, PpTypeOK, Pipes
    <3> QED BY <1>1, <1>4, <2>1, <3>1 DEF PpInv, PpTypeOK
  <2>3. Pipes' = Pipes /\ InQueue' = InQueue
    BY <1>1, <1>4 DEF Pipes, InQueue
  <2>4. LentOnce'
    BY <1>1, <1>4, <2>3 DEF PpInv, LentOnce, At
  <2>5. Loading'
    BY <1>2, <2>1 DEF Loading, Serving
  <2> QED BY <1>3, <2>2, <2>4, <2>5 DEF PpInv
<1>5. CASE NextStage /\ idle' = GivenBack(Tail(idle), Head(idle))
  <2>1. /\ boot'.stage = boot.stage + 1 /\ boot'.round = 0
        /\ boot' = [stage |-> boot'.stage, round |-> boot'.round, want |-> boot'.want]
    BY <1>2, <1>5 DEF NextStage
  <2>2. /\ idle' \in Seq(Pipes) /\ Len(idle') = Len(idle) /\ Pipes' = Pipes
        /\ InQueue' = InQueue /\ LentOnce' /\ Len(idle) \in Nat
    BY <1>1, <1>5, Rotated
  <2>3. PpTypeOK'
    BY <1>1, <1>2, <2>1, <2>2 DEF PpInv, PpTypeOK
  <2>4. Loading'
    BY <1>1, <1>2, <2>1, <2>2 DEF Loading
  <2> QED BY <1>3, <2>2, <2>3, <2>4 DEF PpInv
<1> QED BY <1>4, <1>5 DEF LoadFails

\* What a step of the threads has to keep once the server serves.
LEMMA ThreadStep ==
  ASSUME PpInv, boot.stage = Serving, UNCHANGED <<models, boot, stages>>,
         idle' \in Seq(Pipes), LentOnce',
         users' = [t \in Threads |-> users'[t]],
         \A t \in Threads :
           /\ IsUser(users'[t])
           /\ users'[t].pc \in {"asleep", "woken", "running"} => users'[t].want \subseteq stages
           /\ t \in Clients /\ users'[t].pc = "done" => Served(users'[t])
  PROVE  PpInv'
<1>1. Pipes' = Pipes
  BY DEF Pipes
<1>2. PpTypeOK'
  BY <1>1 DEF PpInv, PpTypeOK
<1>3. Loading' /\ StagesLoaded'
  BY <1>1 DEF PpInv, Loading, StagesLoaded, Serving
<1>4. Clientele'
  BY DEF Clientele, At, Threads
<1> QED BY <1>2, <1>3, <1>4 DEF PpInv

\* A thread takes the pipeline at the head of the queue.
LEMMA TakesOne ==
  ASSUME PpInv, NEW t \in Threads, ~ At(t, "running"), boot.stage = Serving,
         UNCHANGED <<models, boot, stages>>, idle # <<>>, idle' = Tail(idle),
         NEW u, IsUser(u), u.pc = "running", u.lease = Head(idle), u.want \subseteq stages,
         users' = [users EXCEPT ![t] = u]
  PROVE  PpInv'
<1>1. /\ Head(idle) \in Pipes /\ Tail(idle) \in Seq(Pipes) /\ Len(idle) \in Nat \ {0}
      /\ Len(Tail(idle)) = Len(idle) - 1
      /\ \A i \in 1 .. Len(idle) - 1 : Tail(idle)[i] = idle[i + 1]
      /\ Head(idle) \in InQueue
      /\ \A i \in 1 .. Len(idle) - 1 : Tail(idle)[i] \in InQueue \ {Head(idle)}
  BY HeadTaken DEF PpInv
<1>2. users = [x \in Threads |-> users[x]] /\ \A x \in Threads : IsUser(users[x])
  BY DEF PpInv, PpTypeOK
<1>3. /\ users' = [x \in Threads |-> users'[x]]
      /\ \A x \in Threads : users'[x] = IF x = t THEN u ELSE users[x]
  BY <1>2
<1>4. InQueue' \subseteq InQueue \ {Head(idle)} /\ Pipes' = Pipes
  BY <1>1 DEF InQueue, Pipes
<1>5. LentOnce'
  <2>1. \A i, j \in 1 .. Len(idle') : idle'[i] = idle'[j] => i = j
    <3> SUFFICES ASSUME NEW i \in 1 .. Len(idle'), NEW j \in 1 .. Len(idle'), idle'[i] = idle'[j]
                 PROVE  i = j
      OBVIOUS
    <3>1. /\ i + 1 \in 1 .. Len(idle) /\ j + 1 \in 1 .. Len(idle)
          /\ idle[i + 1] = idle[j + 1]
      BY <1>1
    <3>2. i + 1 = j + 1
      BY <3>1 DEF PpInv, LentOnce
    <3> QED BY <1>1, <3>2
  <2>2. ASSUME NEW x \in Threads, At(x, "running")'
        PROVE  /\ users'[x].lease \in Pipes' \ InQueue'
               /\ x # t => At(x, "running") /\ users[x].lease # Head(idle)
    <3>1. CASE x = t
      BY <1>1, <1>3, <1>4, <3>1
    <3>2. CASE x # t
      <4>1. At(x, "running") /\ users'[x] = users[x]
        BY <1>3, <2>2, <3>2 DEF At
      <4>2. users[x].lease \in Pipes \ InQueue
        BY <4>1 DEF PpInv, LentOnce
      <4> QED BY <1>1, <1>4, <4>1, <4>2
    <3> QED BY <3>1, <3>2
  <2>3. ASSUME NEW x \in Threads, NEW v \in Threads, At(x, "running")', At(v, "running")',
               users'[x].lease = users'[v].lease
        PROVE  x = v
    <3>1. CASE x # t /\ v # t
      <4>1. At(x, "running") /\ At(v, "running") /\ users[x].lease = users[v].lease
        BY <1>3, <2>2, <2>3, <3>1
      <4> QED BY <4>1 DEF PpInv, LentOnce
    <3>2. CASE x = t \/ v = t
      BY <1>3, <2>2, <2>3, <3>2
    <3> QED BY <3>1, <3>2
  <2> QED BY <2>1, <2>2, <2>3 DEF LentOnce
<1>6. \A x \in Threads :
        /\ IsUser(users'[x])
        /\ users'[x].pc \in {"asleep", "woken", "running"} => users'[x].want \subseteq stages
        /\ x \in Clients /\ users'[x].pc = "done" => Served(users'[x])
  BY <1>2, <1>3 DEF PpInv, Clientele, At
<1> QED BY <1>1, <1>3, <1>5, <1>6, ThreadStep

\* A thread that has no pipeline moves on without one.
LEMMA MovesWithout ==
  ASSUME PpInv, NEW t \in Threads, ~ At(t, "running"), boot.stage = Serving,
         UNCHANGED <<idle, models, boot, stages>>,
         NEW u, IsUser(u), u.pc # "running",
         u.pc \in {"asleep", "woken"} => u.want \subseteq stages,
         t \in Clients => u.pc # "done",
         users' = [users EXCEPT ![t] = u]
  PROVE  PpInv'
<1>1. users = [x \in Threads |-> users[x]] /\ \A x \in Threads : IsUser(users[x])
  BY DEF PpInv, PpTypeOK
<1>2. /\ users' = [x \in Threads |-> users'[x]]
      /\ \A x \in Threads : users'[x] = IF x = t THEN u ELSE users[x]
  BY <1>1
<1>3. InQueue' = InQueue /\ Pipes' = Pipes /\ idle' \in Seq(Pipes)
  BY DEF InQueue, Pipes, PpInv, PpTypeOK
<1>4. \A x \in Threads : At(x, "running")' => At(x, "running") /\ users'[x] = users[x]
  BY <1>2 DEF At
<1>5. LentOnce'
  BY <1>3, <1>4 DEF PpInv, LentOnce
<1>6. \A x \in Threads :
        /\ IsUser(users'[x])
        /\ users'[x].pc \in {"asleep", "woken", "running"} => users'[x].want \subseteq stages
        /\ x \in Clients /\ users'[x].pc = "done" => Served(users'[x])
  BY <1>1, <1>2 DEF PpInv, Clientele, At
<1> QED BY <1>2, <1>3, <1>5, <1>6, ThreadStep

LEMMA AcquiresKeep ==
  ASSUME PpInv, NEW t \in Threads, Acquires(t) \/ ProbeAcquires(t)
  PROVE  PpInv'
<1>1. /\ boot.stage = Serving /\ ~ At(t, "running") /\ UNCHANGED <<models, boot, stages>>
      /\ \E asking : IsUser(asking) /\ asking.want \subseteq stages /\ TakesOrSleeps(t, asking)
  <2>1. CASE Acquires(t)
    <3>1. PICK want, page :
            want \subseteq stages /\ TakesOrSleeps(t, [Away EXCEPT !.want = want, !.page = page])
      BY <2>1 DEF Acquires
    <3> DEFINE asking == [Away EXCEPT !.want = want, !.page = page]
    <3>2. IsUser(asking) /\ asking.want = want
      BY DEF IsUser, Away, Places
    <3> HIDE DEF asking
    <3> QED BY <2>1, <3>1, <3>2 DEF Acquires, At, asking
  <2>2. CASE ProbeAcquires(t)
    <3>1. IsUser(Away) /\ Away.want = {}
      BY DEF IsUser, Away, Places
    <3> QED BY <2>2, <3>1 DEF ProbeAcquires, At
  <2> QED BY <2>1, <2>2
<1>2. PICK asking : IsUser(asking) /\ asking.want \subseteq stages /\ TakesOrSleeps(t, asking)
  BY <1>1
<1>3. CASE idle # <<>>
  <2> DEFINE u == [asking EXCEPT !.pc = "running", !.lease = Head(idle)]
  <2>1. IsUser(u) /\ u.pc = "running" /\ u.lease = Head(idle) /\ u.want = asking.want
    BY <1>2 DEF IsUser, Places
  <2>2. users' = [users EXCEPT ![t] = u] /\ idle' = Tail(idle)
    BY <1>2, <1>3 DEF TakesOrSleeps
  <2> HIDE DEF u
  <2> QED BY <1>1, <1>2, <1>3, <2>1, <2>2, TakesOne
<1>4. CASE idle = <<>>
  <2> DEFINE u == [asking EXCEPT !.pc = "asleep"]
  <2>1. IsUser(u) /\ u.pc = "asleep" /\ u.want = asking.want
    BY <1>2 DEF IsUser, Places
  <2>2. users' = [users EXCEPT ![t] = u] /\ idle' = idle
    BY <1>2, <1>4 DEF TakesOrSleeps
  <2> HIDE DEF u
  <2> QED BY <1>1, <1>2, <2>1, <2>2, MovesWithout
<1> QED BY <1>3, <1>4

\* A thread that was asleep takes a pipeline, sleeps on, or is woken.
LEMMA SleepersKeep ==
  ASSUME PpInv, NEW t \in Threads, users[t].pc \in {"asleep", "woken"},
         UNCHANGED <<models, boot, stages>>,
         \/ idle # <<>> /\ Takes(t)
         \/ \E pc \in {"asleep", "woken"} : users' = [users EXCEPT ![t].pc = pc] /\ UNCHANGED idle
  PROVE  PpInv'
<1>1. /\ boot.stage = Serving /\ ~ At(t, "running") /\ IsUser(users[t])
      /\ users[t].want \subseteq stages /\ users = [x \in Threads |-> users[x]]
  BY DEF PpInv, PpTypeOK, Loading, Clientele, At
<1>2. CASE idle # <<>> /\ Takes(t)
  <2> DEFINE u == [users[t] EXCEPT !.pc = "running", !.lease = Head(idle)]
  <2>1. IsUser(u) /\ u.pc = "running" /\ u.lease = Head(idle) /\ u.want = users[t].want
    BY <1>1 DEF IsUser, Places
  <2>2. users' = [users EXCEPT ![t] = u] /\ idle' = Tail(idle)
    BY <1>1, <1>2 DEF Takes
  <2> HIDE DEF u
  <2> QED BY <1>1, <1>2, <2>1, <2>2, TakesOne
<1>3. ASSUME NEW pc \in {"asleep", "woken"}, users' = [users EXCEPT ![t].pc = pc], UNCHANGED idle
      PROVE  PpInv'
  <2> DEFINE u == [users[t] EXCEPT !.pc = pc]
  <2>1. IsUser(u) /\ u.pc = pc /\ u.want = users[t].want
    BY <1>1 DEF IsUser, Places
  <2>2. users' = [users EXCEPT ![t] = u]
    BY <1>1, <1>3
  <2> HIDE DEF u
  <2> QED BY <1>1, <1>3, <2>1, <2>2, MovesWithout
<1> QED BY <1>2, <1>3

LEMMA WakesKeep ==
  ASSUME PpInv, NEW t \in Threads, Wakes(t) \/ WakesForNoReason(t)
  PROVE  PpInv'
BY SleepersKeep DEF Wakes, WakesForNoReason, Sleeps, At

LEMMA TimesOutOrTakesKeeps ==
  ASSUME PpInv, NEW t \in Threads, TimesOutOrTakes(t)
  PROVE  PpInv'
<1>1. /\ users[t].pc \in {"asleep", "woken"} /\ t \in Probes
      /\ UNCHANGED <<models, boot, stages>>
  BY DEF TimesOutOrTakes
<1>2. CASE idle # <<>> /\ Takes(t)
  BY <1>1, <1>2, SleepersKeep
<1>3. CASE users' = [users EXCEPT ![t] = [Away EXCEPT !.pc = "done"]] /\ UNCHANGED idle
  <2> DEFINE u == [Away EXCEPT !.pc = "done"]
  <2>1. IsUser(u) /\ u.pc = "done"
    BY DEF IsUser, Away, Places
  <2>2. boot.stage = Serving /\ ~ At(t, "running") /\ t \notin Clients
    BY <1>1, PipelinePoolAssumption DEF PpInv, Loading, At
  <2> HIDE DEF u
  <2>3. users' = [users EXCEPT ![t] = u]
    BY <1>3 DEF u
  <2> QED BY <1>1, <1>3, <2>1, <2>2, <2>3, MovesWithout
<1> QED BY <1>2, <1>3 DEF TimesOutOrTakes, LooksOnceMore

\* A pipeline comes back; the one that had it is through, and one that sleeps
\* may be woken.
LEMMA ReleasesKeep ==
  ASSUME PpInv, NEW t \in Threads, NEW end \in {"done", "threw"}, NEW out, Releases(t, end, out),
         t \in Clients /\ end = "done" => Served([users[t] EXCEPT !.out = out])
  PROVE  PpInv'
<1> DEFINE u == [users[t] EXCEPT !.pc = end, !.lease = NoPipeline, !.out = out]
           p == users[t].lease
<1>1. /\ At(t, "running") /\ UNCHANGED <<models, boot, stages>>
      /\ idle' = Append(idle, p) /\ boot.stage = Serving
      /\ users = [x \in Threads |-> users[x]] /\ \A x \in Threads : IsUser(users[x])
      /\ p \in Pipes \ InQueue /\ idle \in Seq(Pipes) /\ Pipes' = Pipes
  BY DEF Releases, GivenBack, PpInv, PpTypeOK, Loading, LentOnce, At, Pipes
<1>2. /\ users' = [x \in Threads |-> users'[x]] /\ users'[t] = u
      /\ \A x \in Threads \ {t} :
           \/ users'[x] = users[x]
           \/ At(x, "asleep") /\ users'[x] = [users[x] EXCEPT !.pc = "woken"]
  <2>1. CASE users' = [users EXCEPT ![t] = u]
    BY <1>1, <2>1
  <2>2. ASSUME NEW w \in Threads, At(w, "asleep"),
               users' = [[users EXCEPT ![w].pc = "woken"] EXCEPT ![t] =
                  [[users EXCEPT ![w].pc = "woken"][t]
                     EXCEPT !.pc = end, !.lease = NoPipeline, !.out = out]]
        PROVE  <1>2
    <3>1. w # t
      BY <1>1, <2>2 DEF At
    <3>2. [users EXCEPT ![w].pc = "woken"][t] = users[t]
      BY <1>1, <3>1
    <3> QED BY <1>1, <2>2, <3>1, <3>2
  <2> QED BY <2>1, <2>2 DEF Releases, Notified
<1>3. IsUser(u) /\ u.pc = end
  BY <1>1 DEF IsUser, Places
<1>4. t \in Clients /\ end = "done" => Served(u)
  <2>1. /\ u.page = [users[t] EXCEPT !.out = out].page
        /\ u.want = [users[t] EXCEPT !.out = out].want
        /\ u.out = [users[t] EXCEPT !.out = out].out
    BY <1>1 DEF IsUser
  <2> HIDE DEF u
  <2> QED BY <2>1 DEF Served
<1> HIDE DEF u, p
<1>5. ASSUME NEW x \in Threads \ {t}
      PROVE  /\ IsUser(users'[x])
             /\ users'[x].pc \in {"asleep", "woken", "running"} => users'[x].want \subseteq stages
             /\ x \in Clients /\ users'[x].pc = "done" => Served(users'[x])
             /\ users'[x].pc = "running" => At(x, "running") /\ users'[x] = users[x]
  <2>1. CASE users'[x] = users[x]
    BY <1>1, <2>1 DEF PpInv, Clientele, At
  <2>2. CASE At(x, "asleep") /\ users'[x] = [users[x] EXCEPT !.pc = "woken"]
    <3>1. users'[x].pc = "woken" /\ users'[x].want = users[x].want /\ IsUser(users'[x])
      BY <1>1, <2>2 DEF IsUser, Places
    <3>2. users[x].want \subseteq stages
      BY <2>2 DEF PpInv, Clientele, At
    <3> QED BY <3>1, <3>2
  <2> QED BY <1>2, <2>1, <2>2
<1>6. /\ idle' \in Seq(Pipes) /\ Len(idle') = Len(idle) + 1 /\ Len(idle) \in Nat
      /\ idle'[Len(idle) + 1] = p
      /\ \A i \in 1 .. Len(idle) : idle'[i] = idle[i] /\ idle'[i] \in InQueue
      /\ \A i \in 1 .. Len(idle') : i = Len(idle) + 1 \/ i \in 1 .. Len(idle)
  BY <1>1, AppendProperties, LenProperties DEF InQueue
<1>7. InQueue' \subseteq InQueue \cup {p}
  BY <1>6 DEF InQueue
<1>8. LentOnce'
  <2>1. \A i, j \in 1 .. Len(idle') : idle'[i] = idle'[j] => i = j
    BY <1>1, <1>6 DEF PpInv, LentOnce
  <2>2. ASSUME NEW x \in Threads, At(x, "running")'
        PROVE  x # t /\ At(x, "running") /\ users'[x] = users[x]
    BY <1>2, <1>3, <1>5, <2>2 DEF At
  <2>3. ASSUME NEW x \in Threads, At(x, "running"), x # t
        PROVE  users[x].lease \in Pipes \ InQueue /\ users[x].lease # p
    BY <1>1, <2>3 DEF PpInv, LentOnce, p
  <2>4. \A x \in Threads : At(x, "running")' => users'[x].lease \in Pipes' \ InQueue'
    BY <1>1, <1>7, <2>2, <2>3
  <2>5. \A x, v \in Threads :
          At(x, "running")' /\ At(v, "running")' /\ users'[x].lease = users'[v].lease => x = v
    BY <2>2 DEF PpInv, LentOnce
  <2> QED BY <2>1, <2>4, <2>5 DEF LentOnce
<1>9. \A x \in Threads :
        /\ IsUser(users'[x])
        /\ users'[x].pc \in {"asleep", "woken", "running"} => users'[x].want \subseteq stages
        /\ x \in Clients /\ users'[x].pc = "done" => Served(users'[x])
  BY <1>2, <1>3, <1>4, <1>5
<1> QED BY <1>1, <1>2, <1>6, <1>8, <1>9, ThreadStep

LEMMA EndsKeepThem ==
  ASSUME PpInv, NEW t \in Threads, Runs(t) \/ Throws(t) \/ LetsGo(t)
  PROVE  PpInv'
<1>1. CASE Runs(t)
  <2> DEFINE u == users[t]
             out == CpuRun(Pages[u.page], u.want, models[u.lease])
  <2>1. Releases(t, "done", out) /\ At(t, "running") /\ IsUser(u)
    BY <1>1 DEF Runs, Releases, PpInv, PpTypeOK
  <2>2. u.want \subseteq stages /\ stages \subseteq models[u.lease]
    BY <2>1 DEF PpInv, Clientele, StagesLoaded, LentOnce, At
  <2>3. /\ "layout" \in u.want => out.layout = Pages[u.page].regions
        /\ {"layout", "table"} \subseteq u.want => out.tables = Of(Pages[u.page], "table")
        /\ {"layout", "formula"} \subseteq u.want => out.formulas = Of(Pages[u.page], "formula")
    BY <2>2, CpuServes
  <2> HIDE DEF out
  <2>4. Served([u EXCEPT !.out = out])
    <3>1. /\ [u EXCEPT !.out = out].out = out /\ [u EXCEPT !.out = out].page = u.page
          /\ [u EXCEPT !.out = out].want = u.want
      BY <2>1 DEF IsUser
    <3> QED BY <2>3, <3>1 DEF Served
  <2> QED BY <2>1, <2>4, ReleasesKeep
<1>2. CASE Throws(t)
  BY <1>2, ReleasesKeep DEF Throws
<1>3. CASE LetsGo(t)
  <2>1. t \notin Clients
    BY <1>3, PipelinePoolAssumption DEF LetsGo
  <2> QED BY <1>3, <2>1, ReleasesKeep DEF LetsGo
<1> QED BY <1>1, <1>2, <1>3

LEMMA PpInvNext == PpInv /\ [PpNext]_ppvars => PpInv'
<1> SUFFICES ASSUME PpInv, [PpNext]_ppvars PROVE PpInv'
  OBVIOUS
<1>1. CASE UNCHANGED ppvars
  BY <1>1 DEF ppvars, PpInv, PpTypeOK, LentOnce, Loading, StagesLoaded, Clientele, At, Pipes, InQueue,
              Wanted
<1>2. CASE PpNext
  BY <1>2, SkipsStageKeeps, LoadsIntoOneKeeps, LoadFailsKeeps, AcquiresKeep, WakesKeep,
     TimesOutOrTakesKeeps, EndsKeepThem DEF PpNext
<1> QED BY <1>1, <1>2

\* PpInv: pipelines are lent to one thread at a time, and every one of them has
\* what the server offers.
THEOREM PipelinesKept == PpSpec => []PpInv
BY PpInvInit, PpInvNext, PTL DEF PpSpec

\* ServesWhatItOffers: a feature that the routes offer is on every pipeline of
\* the pool, and a page comes back with what was asked of it, although the
\* start-up loads through the pool's own queue.
THEOREM OffersAreServed == PpSpec => []ServesWhatItOffers
<1>1. PpInv => ServesWhatItOffers
  <2> SUFFICES ASSUME PpInv, NEW t \in Clients
               PROVE  /\ At(t, "running") => users[t].want \subseteq models[users[t].lease]
                      /\ At(t, "done") => Served(users[t])
    BY DEF ServesWhatItOffers, Served
  <2>1. t \in Threads
    BY DEF Threads
  <2>2. At(t, "running") => users[t].want \subseteq models[users[t].lease]
    BY <2>1 DEF PpInv, LentOnce, StagesLoaded, Clientele, At
  <2>3. At(t, "done") => Served(users[t])
    BY DEF PpInv, Clientele
  <2> QED BY <2>2, <2>3
<1> QED BY <1>1, PipelinesKept, PTL

-----------------------------------------------------------------------------
(***************************************************************************)
(* The pages of a PDF job.  A page's slot is a record that one step after  *)
(* another overwrites in places; a step is known by the fields it sets     *)
(* (Kept), and one that sets a field to what it holds changes nothing      *)
(* (SetToItself), which is all that tells the two builds apart.            *)
(***************************************************************************)

Fields == {"mode", "quality", "text", "frame", "dpi", "layout", "order", "tables", "formulas",
           "turned", "image", "markdown"}
ARecord(x) == x = [f \in Fields |-> x[f]]

LEMMA SetIsRecord ==
  ASSUME NEW x, ARecord(x), NEW f \in Fields, NEW v
  PROVE  /\ ARecord([x EXCEPT ![f] = v]) /\ [x EXCEPT ![f] = v][f] = v
         /\ \A g \in Fields : g # f => [x EXCEPT ![f] = v][g] = x[g]
<1>1. PICK y : y = [x EXCEPT ![f] = v]
  OBVIOUS
<1>2. DOMAIN x = Fields
  BY DEF ARecord
<1>3. y = [g \in Fields |-> IF g = f THEN v ELSE x[g]]
  BY <1>1, <1>2
<1>4. y[f] = v /\ \A g \in Fields : g # f => y[g] = x[g]
  BY <1>3
<1>5. y = [g \in Fields |-> y[g]]
  BY <1>3
<1> QED BY <1>1, <1>4, <1>5 DEF ARecord

LEMMA SetToItself ==
  ASSUME NEW x, ARecord(x), NEW f \in Fields, NEW v, x[f] = v
  PROVE  [x EXCEPT ![f] = v] = x
<1>1. DOMAIN x = Fields
  BY DEF ARecord
<1>2. [x EXCEPT ![f] = v] = [g \in Fields |-> x[g]]
  BY <1>1
<1> QED BY <1>2 DEF ARecord

\* What a page's slot holds before a render: nothing, or what the text layer gave.
Before(slot, m) ==
  /\ ARecord(slot)
  /\ slot.mode \in {"ocr", "geometric", "auto_verified"}
  /\ slot.text \in {"none", "layer"}
  /\ slot.frame = slot.dpi /\ slot.layout = <<>> /\ slot.tables = {} /\ slot.formulas = {}
  /\ slot.turned = 0 /\ slot.image = "none"
  /\ slot.text # "none" => slot.mode = "geometric"
  /\ slot.mode = "auto_verified" => m = "auto_verified"

LEMMA SlotBefore ==
  ASSUME NEW page \in PageType, NEW m \in {"ocr", "geometric", "auto", "auto_verified"}
  PROVE  Before(Job!Slot(page, m), m)
<1>1. PICK q : q = Job!Quality(page)
  OBVIOUS
<1>3. PICK r : r = Job!Resolved(page, m)
  OBVIOUS
<1>4. r \in {"ocr", "geometric", "auto_verified"} /\ (r = "auto_verified" => m = "auto_verified")
  BY <1>3 DEF Job!Resolved
<1>5. PICK e : e = Job!EmptySlot
  OBVIOUS
<1>6. Before(e, m) /\ e.mode = "ocr" /\ e.text = "none"
  <2>1. e.mode = "ocr" /\ e.text = "none" /\ e.frame = 0 /\ e.dpi = 0 /\ e.layout = <<>>
        /\ e.tables = {} /\ e.formulas = {} /\ e.turned = 0 /\ e.image = "none"
    BY <1>5 DEF Job!EmptySlot
  <2>2. ARecord(e)
    BY <1>5 DEF Job!EmptySlot, ARecord, Fields
  <2> QED BY <2>1, <2>2 DEF Before
<1>7. PICK s0 : s0 = [e EXCEPT !.mode = r]
  OBVIOUS
<1>8. PICK s : s = [s0 EXCEPT !.quality = q]
  OBVIOUS
<1>9. Before(s, m) /\ s.mode = r /\ s.quality = q /\ s.text = "none"
  <2>1. ARecord(s0) /\ s0.mode = r /\ \A g \in Fields : g # "mode" => s0[g] = e[g]
    <3>1. ARecord(e) /\ "mode" \in Fields
      BY <1>6 DEF Before, Fields
    <3> QED BY <1>7, <3>1, SetIsRecord
  <2>2. ARecord(s) /\ s.quality = q /\ \A g \in Fields : g # "quality" => s[g] = s0[g]
    <3>1. "quality" \in Fields
      BY DEF Fields
    <3> QED BY <1>8, <2>1, <3>1, SetIsRecord
  <2> QED BY <1>4, <1>6, <2>1, <2>2 DEF Before, Fields
<1>10. PICK p0 : p0 = [s EXCEPT !.frame = Job!Points]
  OBVIOUS
<1>11. PICK p : p = [p0 EXCEPT !.dpi = Job!Points]
  OBVIOUS
<1>12. Before(p, m) /\ p.mode = r
  <2>1. ARecord(p0) /\ p0.frame = Job!Points /\ \A g \in Fields : g # "frame" => p0[g] = s[g]
    <3>1. ARecord(s) /\ "frame" \in Fields
      BY <1>9 DEF Before, Fields
    <3> QED BY <1>10, <3>1, SetIsRecord
  <2>2. ARecord(p) /\ p.dpi = Job!Points /\ \A g \in Fields : g # "dpi" => p[g] = p0[g]
    <3>1. "dpi" \in Fields
      BY DEF Fields
    <3> QED BY <1>11, <2>1, <3>1, SetIsRecord
  <2> QED BY <1>9, <2>1, <2>2 DEF Before, Fields
<1>13. PICK t : t = [p EXCEPT !.text = "layer"]
  OBVIOUS
<1>14. r = "geometric" => Before(t, m)
  <2>1. ARecord(t) /\ t.text = "layer" /\ \A g \in Fields : g # "text" => t[g] = p[g]
    <3>1. ARecord(p) /\ "text" \in Fields
      BY <1>12 DEF Before, Fields
    <3> QED BY <1>13, <3>1, SetIsRecord
  <2> QED BY <1>12, <2>1 DEF Before, Fields
<1>15. Job!InPoints(s) = p
  BY <1>10, <1>11, Zenon DEF Job!InPoints
<1>16. Job!Prefilled(page, m) = IF s.mode # "geometric" THEN s ELSE IF s.quality = "trusted" THEN t ELSE p
  BY <1>1, <1>3, <1>5, <1>7, <1>8, <1>13, <1>15, Zenon DEF Job!Prefilled
<1>17. Job!Slot(page, m) = IF m = "ocr" THEN e ELSE Job!Prefilled(page, m)
  BY <1>5 DEF Job!Slot
<1> QED BY <1>6, <1>9, <1>12, <1>14, <1>16, <1>17

\* y is x but for the fields S.
Kept(x, y, S) == ARecord(y) /\ \A g \in Fields \ S : y[g] = x[g]

LEMMA RescaledIs ==
  ASSUME NEW x, ARecord(x), NEW o
  PROVE  Kept(x, Job!Rescaled(x, o), {"frame"}) /\ Job!Rescaled(x, o).frame = o.dpi
<1>1. "frame" \in Fields
  BY DEF Fields
<1> QED BY <1>1, SetIsRecord DEF Job!Rescaled, Kept

LEMMA InPixelsIs ==
  ASSUME NEW x, ARecord(x), NEW o
  PROVE  Kept(x, Job!InPixels(x, o), {"dpi"}) /\ Job!InPixels(x, o).dpi = o.dpi
<1>1. "dpi" \in Fields
  BY DEF Fields
<1> QED BY <1>1, SetIsRecord DEF Job!InPixels, Kept

LEMMA WrittenIs ==
  ASSUME NEW x, ARecord(x), NEW o
  PROVE  Kept(x, Job!Written(x, o), {"markdown"})
<1>1. "markdown" \in Fields
  BY DEF Fields
<1> QED BY <1>1, SetIsRecord DEF Job!Written, Kept

LEMMA OrderedIs ==
  ASSUME NEW x, ARecord(x), NEW o
  PROVE  Kept(x, Job!Ordered(x, o), {"order"})
<1>1. "order" \in Fields
  BY DEF Fields
<1>2. PICK v : Job!Ordered(x, o) = [x EXCEPT !.order = v]
  BY DEF Job!Ordered
<1> QED BY <1>1, <1>2, SetIsRecord DEF Kept

LEMMA DrawnIs ==
  ASSUME NEW x, ARecord(x), NEW o, NEW turned
  PROVE  /\ Kept(x, Job!Drawn(x, o, turned), {"image"})
         /\ o.image => Job!Drawn(x, o, turned).image = (IF turned = 0 THEN "as is" ELSE "turned")
<1>1. "image" \in Fields
  BY DEF Fields
<1>2. PICK v : v = (IF turned = 0 THEN "as is" ELSE "turned")
  OBVIOUS
<1>3. PICK y : y = [x EXCEPT !.image = v]
  OBVIOUS
<1>4. Kept(x, y, {"image"}) /\ y.image = v
  BY <1>1, <1>3, SetIsRecord DEF Kept
<1>5. Kept(x, x, {"image"})
  BY DEF Kept
<1>6. CASE o.image
  <2>1. Job!Drawn(x, o, turned) = y
    BY <1>2, <1>3, <1>6 DEF Job!Drawn
  <2> QED BY <1>2, <1>4, <2>1
<1>7. CASE ~o.image
  <2>1. Job!Drawn(x, o, turned) = x
    BY <1>7 DEF Job!Drawn
  <2> QED BY <1>5, <1>7, <2>1
<1> QED BY <1>6, <1>7

LEMMA StructuredIs ==
  ASSUME NEW x, ARecord(x), NEW page, NEW o
  PROVE  Kept(x, Job!Structured(x, page, o), {"layout", "tables", "formulas"})
<1>1. PICK a, b, c : /\ a = Job!Seen(page, o)
                     /\ b = (IF o.tables /\ o.layout THEN Job!Of(page, "table") ELSE {})
                     /\ c = (IF o.formulas /\ o.layout THEN Job!Of(page, "formula") ELSE {})
  OBVIOUS
<1>2. PICK y : y = [x EXCEPT !.layout = a]
  OBVIOUS
<1>3. PICK z : z = [y EXCEPT !.tables = b]
  OBVIOUS
<1>4. PICK w : w = [z EXCEPT !.formulas = c]
  OBVIOUS
<1>5. Job!Structured(x, page, o) = w
  BY <1>1, <1>2, <1>3, <1>4, Zenon DEF Job!Structured
<1>6. "layout" \in Fields /\ "tables" \in Fields /\ "formulas" \in Fields
  BY DEF Fields
<1>7. ARecord(y) /\ \A g \in Fields : g # "layout" => y[g] = x[g]
  BY <1>2, <1>6, SetIsRecord
<1>8. ARecord(z) /\ \A g \in Fields : g # "tables" => z[g] = y[g]
  BY <1>3, <1>6, <1>7, SetIsRecord
<1>9. ARecord(w) /\ \A g \in Fields : g # "formulas" => w[g] = z[g]
  BY <1>4, <1>6, <1>8, SetIsRecord
<1> QED BY <1>5, <1>7, <1>8, <1>9 DEF Kept

-----------------------------------------------------------------------------
\* What a task of the GPU build stores in a slot.
Stored(y, slot, o, turned) ==
  /\ ARecord(y) /\ y.mode = slot.mode /\ y.frame = o.dpi /\ y.dpi = o.dpi /\ y.turned = turned
  /\ y.text # "none" => o.text
  /\ slot.mode = "geometric" => y.text = slot.text

LEMMA GeometricStores ==
  ASSUME NEW m, NEW slot, Before(slot, m), slot.mode = "geometric", NEW page, NEW o, slot.text # "none" => o.text
  PROVE  Stored(Job!StoresGeometric(slot, page, o), slot, o, 0)
<1>1. PICK x : x = Job!Rescaled(slot, o)
  OBVIOUS
<1>2. Kept(slot, x, {"frame"}) /\ x.frame = o.dpi
  BY <1>1, RescaledIs DEF Before
<1>3. PICK v : v = Job!Seen(page, o)
  OBVIOUS
<1>4. PICK y : y = [x EXCEPT !.layout = v]
  OBVIOUS
<1>5. Kept(x, y, {"layout"})
  <2>1. "layout" \in Fields
    BY DEF Fields
  <2> QED BY <1>2, <1>4, <2>1, SetIsRecord DEF Kept
<1>6. PICK z : z = Job!Ordered(y, o)
  OBVIOUS
<1>7. Kept(y, z, {"order"})
  BY <1>5, <1>6, OrderedIs DEF Kept
<1>8. PICK w : w = Job!InPixels(z, o)
  OBVIOUS
<1>9. Kept(z, w, {"dpi"}) /\ w.dpi = o.dpi
  BY <1>7, <1>8, InPixelsIs DEF Kept
<1>10. Job!StoresGeometric(slot, page, o) = w
  BY <1>1, <1>3, <1>4, <1>6, <1>8, Zenon DEF Job!StoresGeometric
<1>11. ARecord(w) /\ w.mode = slot.mode /\ w.frame = o.dpi /\ w.dpi = o.dpi /\ w.turned = 0 /\ w.text = slot.text
  BY <1>2, <1>5, <1>7, <1>9 DEF Kept, Before, Fields
<1> QED BY <1>10, <1>11 DEF Stored

LEMMA StructureStores ==
  ASSUME NEW m, NEW slot, Before(slot, m), slot.mode = "geometric", NEW page, NEW o, slot.text # "none" => o.text
  PROVE  Stored(Job!StoresStructure(slot, page, o), slot, o, 0)
<1>1. PICK x : x = Job!Rescaled(slot, o)
  OBVIOUS
<1>2. Kept(slot, x, {"frame"}) /\ x.frame = o.dpi
  BY <1>1, RescaledIs DEF Before
<1>4. PICK y : y = Job!Structured(x, page, o)
  OBVIOUS
<1>5. Kept(x, y, {"layout", "tables", "formulas"})
  BY <1>2, <1>4, StructuredIs DEF Kept
<1>6. PICK z : z = Job!Ordered(y, o)
  OBVIOUS
<1>7. Kept(y, z, {"order"})
  BY <1>5, <1>6, OrderedIs DEF Kept
<1>8. PICK w : w = Job!InPixels(z, o)
  OBVIOUS
<1>9. Kept(z, w, {"dpi"}) /\ w.dpi = o.dpi
  BY <1>7, <1>8, InPixelsIs DEF Kept
<1>10. Job!StoresStructure(slot, page, o) = w
  BY <1>1, <1>4, <1>6, <1>8, Zenon DEF Job!StoresStructure
<1>11. ARecord(w) /\ w.mode = slot.mode /\ w.frame = o.dpi /\ w.dpi = o.dpi /\ w.turned = 0 /\ w.text = slot.text
  BY <1>2, <1>5, <1>7, <1>9 DEF Kept, Before, Fields
<1> QED BY <1>10, <1>11 DEF Stored

LEMMA OcrStores ==
  ASSUME NEW m, NEW slot, Before(slot, m), slot.mode # "geometric", NEW page, NEW o, NEW d
  PROVE  Stored(Job!StoresOcr(slot, page, o, d), slot, o, Job!Upright(page, o))
<1>1. PICK turned, text : /\ turned = Job!Upright(page, o)
                          /\ text = (IF slot.mode = "auto_verified" /\ d.opens THEN "verified" ELSE "ocr")
  OBVIOUS
<1>2. PICK x : x = Job!Structured(slot, page, o)
  OBVIOUS
<1>3. Kept(slot, x, {"layout", "tables", "formulas"})
  BY <1>2, StructuredIs DEF Before
<1>4. PICK x1 : x1 = [x EXCEPT !.text = text]
  OBVIOUS
<1>5. PICK read : read = [x1 EXCEPT !.frame = o.dpi]
  OBVIOUS
<1>6. ARecord(read) /\ read.frame = o.dpi /\ read.mode = slot.mode
  <2>1. "text" \in Fields /\ "frame" \in Fields /\ "mode" \in Fields
    BY DEF Fields
  <2>2. ARecord(x1) /\ \A g \in Fields : g # "text" => x1[g] = x[g]
    BY <1>3, <1>4, <2>1, SetIsRecord DEF Kept
  <2>3. ARecord(read) /\ read.frame = o.dpi /\ \A g \in Fields : g # "frame" => read[g] = x1[g]
    BY <1>5, <2>1, <2>2, SetIsRecord
  <2> QED BY <1>3, <2>1, <2>2, <2>3 DEF Kept
<1>7. PICK v : v = Job!Seen(page, o)
  OBVIOUS
<1>8. PICK x2 : x2 = [slot EXCEPT !.layout = v]
  OBVIOUS
<1>9. PICK seen : seen = [x2 EXCEPT !.frame = o.dpi]
  OBVIOUS
<1>10. ARecord(seen) /\ seen.frame = o.dpi /\ seen.mode = slot.mode /\ seen.text = "none"
  <2>1. "layout" \in Fields /\ "text" \in Fields /\ "frame" \in Fields /\ "mode" \in Fields
    BY DEF Fields
  <2>2. ARecord(x2) /\ \A g \in Fields : g # "layout" => x2[g] = slot[g]
    <3>1. ARecord(slot)
      BY DEF Before
    <3> QED BY <1>8, <2>1, <3>1, SetIsRecord
  <2>3. ARecord(seen) /\ seen.frame = o.dpi /\ \A g \in Fields : g # "frame" => seen[g] = x2[g]
    BY <1>9, <2>1, <2>2, SetIsRecord
  <2>4. slot.text = "none"
    BY DEF Before
  <2> QED BY <2>1, <2>2, <2>3, <2>4
<1>11. PICK ordered : ordered = Job!Ordered(read, o)
  OBVIOUS
<1>12. Kept(read, ordered, {"order"})
  BY <1>6, <1>11, OrderedIs
<1>13. PICK y : y = (IF o.text THEN ordered ELSE seen)
  OBVIOUS
<1>14. ARecord(y) /\ y.frame = o.dpi /\ y.mode = slot.mode /\ (y.text # "none" => o.text)
  <2>1. ARecord(ordered) /\ ordered.frame = o.dpi /\ ordered.mode = slot.mode
    BY <1>6, <1>12 DEF Kept, Fields
  <2> QED BY <1>10, <1>13, <2>1
<1>15. PICK z : z = Job!InPixels(y, o)
  OBVIOUS
<1>16. Kept(y, z, {"dpi"}) /\ z.dpi = o.dpi
  BY <1>14, <1>15, InPixelsIs
<1>17. PICK w : w = [z EXCEPT !.turned = turned]
  OBVIOUS
<1>18. Job!StoresOcr(slot, page, o, d) = w
  BY <1>1, <1>2, <1>4, <1>5, <1>7, <1>8, <1>9, <1>11, <1>13, <1>15, <1>17, Zenon DEF Job!StoresOcr
<1>19. ARecord(w) /\ w.turned = turned /\ \A g \in Fields : g # "turned" => w[g] = z[g]
  <2>1. "turned" \in Fields
    BY DEF Fields
  <2> QED BY <1>16, <1>17, <2>1, SetIsRecord DEF Kept
<1>20. w.mode = slot.mode /\ w.frame = o.dpi /\ w.dpi = o.dpi /\ (w.text # "none" => o.text)
  BY <1>14, <1>16, <1>19 DEF Kept, Fields
<1> QED BY <1>1, <1>18, <1>19, <1>20 DEF Stored

\* What BuildsAgree asks of a page of the answer.
InFrame(g, page, o) ==
  /\ g.text # "none" => o.text /\ g.frame = g.dpi
  /\ g.layout # <<>> => g.dpi = o.dpi
  /\ page.fault = "none" /\ o.image => g.image = (IF g.turned = 0 THEN "as is" ELSE "turned")
  /\ g.mode = "geometric" => g.turned = 0 /\ g.text \in {"none", "layer"}

LEMMA TaskInFrame ==
  ASSUME NEW m, NEW slot, Before(slot, m), NEW page, NEW o, NEW d, slot.text # "none" => o.text
  PROVE  InFrame(Job!GpuTask(slot, page, o, d), page, o)
<1>1. PICK turned : turned = (IF slot.mode = "geometric" THEN 0 ELSE Job!Upright(page, o))
  OBVIOUS
<1>2. PICK x : x = (IF slot.mode # "geometric" THEN Job!StoresOcr(slot, page, o, d)
                    ELSE IF (o.tables \/ o.formulas) /\ o.layout THEN Job!StoresStructure(slot, page, o)
                    ELSE Job!StoresGeometric(slot, page, o))
  OBVIOUS
<1>3. Stored(x, slot, o, turned)
  <2>1. CASE slot.mode # "geometric"
    BY <1>1, <1>2, <2>1, OcrStores
  <2>2. CASE slot.mode = "geometric" /\ (o.tables \/ o.formulas) /\ o.layout
    BY <1>1, <1>2, <2>2, StructureStores
  <2>3. CASE slot.mode = "geometric" /\ ~((o.tables \/ o.formulas) /\ o.layout)
    BY <1>1, <1>2, <2>3, GeometricStores
  <2> QED BY <2>1, <2>2, <2>3
<1>4. PICK y : y = Job!Drawn(x, o, turned)
  OBVIOUS
<1>5. Kept(x, y, {"image"}) /\ (o.image => y.image = (IF turned = 0 THEN "as is" ELSE "turned"))
  BY <1>3, <1>4, DrawnIs DEF Stored
<1>6. PICK z : z = Job!Written(y, o)
  OBVIOUS
<1>7. Kept(y, z, {"markdown"})
  BY <1>5, <1>6, WrittenIs DEF Kept
<1>8. Job!GpuTask(slot, page, o, d) = z
  BY <1>1, <1>2, <1>4, <1>6, Zenon DEF Job!GpuTask
<1>9. /\ z.mode = slot.mode /\ z.frame = o.dpi /\ z.dpi = o.dpi /\ z.turned = turned
      /\ z.text = x.text /\ z.image = y.image
  BY <1>3, <1>5, <1>7 DEF Kept, Stored, Fields
<1>10. z.text # "none" => o.text
  BY <1>3, <1>9 DEF Stored
<1>11. slot.mode = "geometric" => z.turned = 0 /\ z.text \in {"none", "layer"}
  BY <1>1, <1>3, <1>9 DEF Stored, Before
<1>12. o.image => z.image = (IF z.turned = 0 THEN "as is" ELSE "turned")
  BY <1>5, <1>9
<1> QED BY <1>8, <1>9, <1>10, <1>11, <1>12 DEF InFrame

LEMMA PageInFrame ==
  ASSUME NEW page \in PageType, NEW m \in Modes, NEW o, NEW d
  PROVE  InFrame(Job!GpuPage(page, m, o, d), page, o)
<1>1. PICK slot0 : slot0 = Job!Slot(page, m)
  OBVIOUS
<1>2. Before(slot0, m)
  BY <1>1, SlotBefore DEF Modes
<1>3. PICK slot : slot = Job!WithoutText(slot0, o)
  OBVIOUS
<1>4. Before(slot, m) /\ (slot.text # "none" => o.text)
  <2>1. CASE o.text
    BY <1>2, <1>3, <2>1 DEF Job!WithoutText
  <2>2. CASE ~o.text
    <3>1. slot = [slot0 EXCEPT !.text = "none"]
      BY <1>3, <2>2 DEF Job!WithoutText
    <3>2. "text" \in Fields /\ ARecord(slot0)
      BY <1>2 DEF Fields, Before
    <3>3. ARecord(slot) /\ slot.text = "none" /\ \A g \in Fields : g # "text" => slot[g] = slot0[g]
      BY <3>1, <3>2, SetIsRecord
    <3> QED BY <1>2, <3>3 DEF Before, Fields
  <2> QED BY <2>1, <2>2
<1>5. PICK rendered : rendered = (IF page.fault = "none" /\ (m = "ocr" \/ Job!IsRendered(page, m, o)) THEN 1 ELSE 0)
  OBVIOUS
<1>6. Job!GpuPage(page, m, o, d) = IF rendered = 1 THEN Job!GpuTask(slot, page, o, d) ELSE slot
  BY <1>1, <1>3, <1>5 DEF Job!GpuPage
<1>7. CASE rendered = 1
  BY <1>4, <1>6, <1>7, TaskInFrame
<1>8. CASE rendered # 1
  <2>1. ~(page.fault = "none" /\ o.image)
    BY <1>5, <1>8 DEF Job!IsRendered
  <2>2. Job!GpuPage(page, m, o, d) = slot
    BY <1>6, <1>8
  <2>3. InFrame(slot, page, o)
    BY <1>4, <2>1 DEF InFrame, Before
  <2> QED BY <2>2, <2>3
<1> QED BY <1>7, <1>8

-----------------------------------------------------------------------------
LEMMA TasksAgree ==
  ASSUME NEW m, m # "auto_verified", NEW slot, Before(slot, m), NEW page, NEW o, o.text, NEW d
  PROVE  Job!GpuTask(slot, page, o, d) = Job!CpuTask(slot, page, o)
<1>0. PICK turned : turned = (IF slot.mode = "geometric" THEN 0 ELSE Job!Upright(page, o))
  OBVIOUS
<1>1. PICK x : x = (IF slot.mode # "geometric" THEN Job!StoresOcr(slot, page, o, d)
                    ELSE IF (o.tables \/ o.formulas) /\ o.layout THEN Job!StoresStructure(slot, page, o)
                    ELSE Job!StoresGeometric(slot, page, o))
  OBVIOUS
<1>2. PICK scaled : scaled = Job!Rescaled(slot, o)
  OBVIOUS
<1>3. PICK modelled : modelled = (IF o.layout THEN Job!Structured(scaled, page, o) ELSE scaled)
  OBVIOUS
<1>4. PICK read : read = [Job!Structured(slot, page, o) EXCEPT !.text = "ocr", !.frame = o.dpi]
  OBVIOUS
<1>5. PICK stored : stored = (IF slot.mode = "geometric" THEN modelled ELSE read)
  OBVIOUS
<1>6. PICK y : y = [Job!InPixels(Job!Ordered(stored, o), o) EXCEPT !.turned = turned]
  OBVIOUS
<1>7. Job!GpuTask(slot, page, o, d) = Job!Written(Job!Drawn(x, o, turned), o)
  BY <1>0, <1>1, Zenon DEF Job!GpuTask
<1>8. Job!CpuTask(slot, page, o) = Job!Written(Job!Drawn(y, o, turned), o)
  BY <1>0, <1>2, <1>3, <1>4, <1>5, <1>6, Zenon DEF Job!CpuTask
<1>9. CASE slot.mode # "geometric"
  <2>1. slot.mode # "auto_verified"
    BY DEF Before
  <2>2. PICK text : text = (IF slot.mode = "auto_verified" /\ d.opens THEN "verified" ELSE "ocr")
    OBVIOUS
  <2>3. text = "ocr"
    BY <2>1, <2>2
  <2>4. PICK gread, seen : /\ gread = [Job!Structured(slot, page, o) EXCEPT !.text = text, !.frame = o.dpi]
                           /\ seen = [slot EXCEPT !.layout = Job!Seen(page, o), !.frame = o.dpi]
    OBVIOUS
  <2>5. gread = read
    BY <1>4, <2>3, <2>4
  <2>6. PICK z : z = (IF o.text THEN Job!Ordered(gread, o) ELSE seen)
    OBVIOUS
  <2>7. z = Job!Ordered(stored, o)
    BY <1>5, <1>9, <2>5, <2>6
  <2>8. PICK up : up = Job!Upright(page, o)
    OBVIOUS
  <2>9. Job!StoresOcr(slot, page, o, d) = [Job!InPixels(z, o) EXCEPT !.turned = up]
    BY <2>2, <2>4, <2>6, <2>8, Zenon DEF Job!StoresOcr
  <2>10. x = y
    BY <1>0, <1>1, <1>6, <1>9, <2>7, <2>8, <2>9
  <2> QED BY <1>7, <1>8, <2>10
<1>10. CASE slot.mode = "geometric"
  <2>1. Kept(slot, scaled, {"frame"})
    BY <1>2, RescaledIs DEF Before
  <2>2. ARecord(scaled) /\ scaled.layout = <<>> /\ scaled.tables = {} /\ scaled.formulas = {} /\ scaled.turned = 0
    BY <2>1 DEF Kept, Before, Fields
  <2>3. PICK g : g = (IF (o.tables \/ o.formulas) /\ o.layout THEN modelled ELSE [scaled EXCEPT !.layout = Job!Seen(page, o)])
    OBVIOUS
  <2>4. x = Job!InPixels(Job!Ordered(g, o), o)
    <3>1. CASE (o.tables \/ o.formulas) /\ o.layout
      <4>1. x = Job!StoresStructure(slot, page, o)
        BY <1>1, <1>10, <3>1
      <4>2. g = Job!Structured(scaled, page, o)
        BY <1>3, <2>3, <3>1
      <4> QED BY <1>2, <4>1, <4>2, Zenon DEF Job!StoresStructure
    <3>2. CASE ~((o.tables \/ o.formulas) /\ o.layout)
      <4>1. x = Job!StoresGeometric(slot, page, o)
        BY <1>1, <1>10, <3>2
      <4>2. g = [scaled EXCEPT !.layout = Job!Seen(page, o)]
        BY <2>3, <3>2
      <4> QED BY <1>2, <4>1, <4>2, Zenon DEF Job!StoresGeometric
    <3> QED BY <3>1, <3>2
  <2>5. g = modelled
    <3>1. CASE ~o.layout
      <4>1. Job!Seen(page, o) = <<>>
        BY <3>1 DEF Job!Seen
      <4>2. "layout" \in Fields
        BY DEF Fields
      <4>3. [scaled EXCEPT !.layout = <<>>] = scaled
        BY <2>2, <4>2, SetToItself
      <4> QED BY <1>3, <2>3, <3>1, <4>1, <4>3
    <3>2. CASE o.layout /\ ~(o.tables \/ o.formulas)
      <4>1. PICK w : w = [scaled EXCEPT !.layout = Job!Seen(page, o)]
        OBVIOUS
      <4>2. "layout" \in Fields /\ "tables" \in Fields /\ "formulas" \in Fields
        BY DEF Fields
      <4>3. ARecord(w) /\ w.tables = {} /\ w.formulas = {}
        <5>1. ARecord(w) /\ \A f \in Fields : f # "layout" => w[f] = scaled[f]
          <6>1. PICK seen : seen = Job!Seen(page, o)
            OBVIOUS
          <6>2. w = [scaled EXCEPT !.layout = seen]
            BY <4>1, <6>1
          <6>3. ARecord(scaled)
            BY <2>2
          <6> QED BY <4>2, <6>2, <6>3, SetIsRecord
        <5>2. w["tables"] = scaled["tables"] /\ w["formulas"] = scaled["formulas"]
          BY <4>2, <5>1
        <5> QED BY <2>2, <5>1, <5>2
      <4>4. [w EXCEPT !.tables = {}] = w /\ [w EXCEPT !.formulas = {}] = w
        BY <4>2, <4>3, SetToItself
      <4>5. PICK a, b : /\ a = (IF o.tables /\ o.layout THEN Job!Of(page, "table") ELSE {})
                        /\ b = (IF o.formulas /\ o.layout THEN Job!Of(page, "formula") ELSE {})
        OBVIOUS
      <4>6. a = {} /\ b = {}
        BY <3>2, <4>5
      <4>7. Job!Structured(scaled, page, o) = [[w EXCEPT !.tables = a] EXCEPT !.formulas = b]
        BY <4>1, <4>5, Zenon DEF Job!Structured
      <4>8. Job!Structured(scaled, page, o) = w
        BY <4>4, <4>6, <4>7
      <4> QED BY <1>3, <2>3, <3>2, <4>1, <4>8
    <3>3. CASE o.layout /\ (o.tables \/ o.formulas)
      BY <2>3, <3>3
    <3> QED BY <3>1, <3>2, <3>3
  <2>6. x = Job!InPixels(Job!Ordered(stored, o), o)
    BY <1>5, <1>10, <2>4, <2>5
  <2>7. ARecord(x) /\ x.turned = 0
    <3>1. ARecord(stored) /\ stored.turned = 0
      <4>1. stored = modelled
        BY <1>5, <1>10
      <4>2. CASE o.layout
        <5>1. Kept(scaled, modelled, {"layout", "tables", "formulas"})
          BY <1>3, <2>2, <4>2, StructuredIs
        <5> QED BY <2>2, <4>1, <5>1 DEF Kept, Fields
      <4>3. CASE ~o.layout
        BY <1>3, <2>2, <4>1, <4>3
      <4> QED BY <4>2, <4>3
    <3>2. PICK z : z = Job!Ordered(stored, o)
      OBVIOUS
    <3>3. Kept(stored, z, {"order"})
      BY <3>1, <3>2, OrderedIs
    <3>4. Kept(z, x, {"dpi"})
      BY <2>6, <3>2, <3>3, InPixelsIs DEF Kept
    <3> QED BY <3>1, <3>3, <3>4 DEF Kept, Fields
  <2>8. [x EXCEPT !.turned = 0] = x
    <3>1. "turned" \in Fields
      BY DEF Fields
    <3> QED BY <2>7, <3>1, SetToItself
  <2>9. y = x
    BY <1>0, <1>6, <1>10, <2>6, <2>8
  <2> QED BY <1>7, <1>8, <2>9
<1> QED BY <1>9, <1>10

LEMMA PagesAgree ==
  ASSUME NEW page \in PageType, NEW m \in Modes, m # "auto_verified", NEW o, o.text, NEW d
  PROVE  Job!GpuPage(page, m, o, d) = Job!CpuPage(page, m, o)
<1>1. PICK slot : slot = Job!Slot(page, m)
  OBVIOUS
<1>2. Before(slot, m)
  BY <1>1, SlotBefore DEF Modes
<1>3. Job!WithoutText(slot, o) = slot
  BY DEF Job!WithoutText
<1>4. Job!GpuTask(slot, page, o, d) = Job!CpuTask(slot, page, o)
  BY <1>2, TasksAgree
<1> QED BY <1>1, <1>3, <1>4, Zenon DEF Job!GpuPage, Job!CpuPage

LEMMA JobsAgree ==
  ASSUME NEW d, d.pages \in Seq(PageType), NEW m \in Modes, m # "auto_verified", NEW o, o.text
  PROVE  Job!GpuJob(d, m, o) = Job!CpuJob(d, m, o)
<1>1. PICK k : k = Job!Opened(d, m)
  OBVIOUS
<1>2. k \in Modes /\ k # "auto_verified"
  BY <1>1 DEF Job!Opened, Modes
<1>3. \A i \in DOMAIN d.pages : d.pages[i] \in PageType
  OBVIOUS
<1>4. \A i \in DOMAIN d.pages : Job!GpuPage(d.pages[i], k, o, d) = Job!CpuPage(d.pages[i], k, o)
  BY <1>2, <1>3, PagesAgree
<1>5. PICK a, b : /\ a = [i \in DOMAIN d.pages |-> Job!GpuPage(d.pages[i], k, o, d)]
                  /\ b = [i \in DOMAIN d.pages |-> Job!CpuPage(d.pages[i], k, o)]
  OBVIOUS
<1>6. a = b
  BY <1>4, <1>5
<1>7. Job!GpuJob(d, m, o) = Job!Job(d, k, o, a)
  BY <1>1, <1>5, Zenon DEF Job!GpuJob
<1>8. Job!CpuJob(d, m, o) = Job!Job(d, k, o, b)
  BY <1>1, <1>5, Zenon DEF Job!CpuJob
<1> QED BY <1>6, <1>7, <1>8

LEMMA JobInFrame ==
  ASSUME NEW d, d.pages \in Seq(PageType), NEW m \in Modes, NEW o,
         NEW i \in DOMAIN Job!GpuJob(d, m, o).pages
  PROVE  InFrame(Job!GpuJob(d, m, o).pages[i], d.pages[i], o)
<1>1. PICK k : k = Job!Opened(d, m)
  OBVIOUS
<1>2. k \in Modes
  BY <1>1 DEF Job!Opened, Modes
<1>3. PICK a : a = [j \in DOMAIN d.pages |-> Job!GpuPage(d.pages[j], k, o, d)]
  OBVIOUS
<1>4. Job!GpuJob(d, m, o) = Job!Job(d, k, o, a)
  BY <1>1, <1>3, Zenon DEF Job!GpuJob
<1>5. Job!Job(d, k, o, a).pages = a \/ Job!Job(d, k, o, a).pages = <<>>
  BY DEF Job!Job
<1>6. Job!GpuJob(d, m, o).pages = a
  BY <1>4, <1>5
<1>7. i \in DOMAIN d.pages /\ a[i] = Job!GpuPage(d.pages[i], k, o, d)
  BY <1>3, <1>6
<1>8. d.pages[i] \in PageType
  BY <1>7
<1>9. InFrame(a[i], d.pages[i], o)
  BY <1>2, <1>7, <1>8, PageInFrame
<1> QED BY <1>6, <1>9

\* For every document, whatever its text layer, its layout and its faults, in every mode and
\* with every combination of options, also those the routes refuse: the GPU and the CPU build
\* give the same pages where both serve them, and a page's text, layout and image are in the
\* frame that the page states.
THEOREM BuildsAgreeOnEveryPdf == PagesTypeOK => BuildsAgree
<1> SUFFICES ASSUME PagesTypeOK PROVE BuildsAgree
  OBVIOUS
<1>1. PICK d, m, o : d = doc /\ m = mode /\ o = opts
  OBVIOUS
<1>2. d.pages \in Seq(PageType) /\ m \in Modes
  BY <1>1 DEF PagesTypeOK, Modes
<1>3. PICK plain : plain = Job!Aliased(m)
  OBVIOUS
<1>4. plain \in Modes /\ plain # "auto_verified"
  BY <1>2, <1>3 DEF Job!Aliased, Modes
<1>5. o.text => Job!GpuJob(d, plain, o) = Job!CpuJob(d, plain, o)
  BY <1>2, <1>4, JobsAgree
<1>6. \A n \in Modes : \A i \in DOMAIN Job!GpuJob(d, n, o).pages :
        InFrame(Job!GpuJob(d, n, o).pages[i], d.pages[i], o)
  BY <1>2, JobInFrame
<1>7. ASSUME NEW job \in Answers, NEW i \in DOMAIN job.pages
      PROVE  InFrame(job.pages[i], doc.pages[i], opts)
  <2>1. job = Job!GpuJob(d, m, o) \/ (o.text /\ job = Job!CpuJob(d, plain, o))
    BY <1>1, <1>3 DEF Answers
  <2>2. job = Job!GpuJob(d, m, o) \/ job = Job!GpuJob(d, plain, o)
    BY <1>5, <2>1
  <2> QED BY <1>1, <1>2, <1>4, <1>6, <2>2
<1>8. opts.text => Job!GpuJob(doc, Job!Aliased(mode), opts) = Job!CpuJob(doc, Job!Aliased(mode), opts)
  BY <1>1, <1>3, <1>5
<1> QED BY <1>7, <1>8, Zenon DEF BuildsAgree, InFrame

----------------------------------------------------------------------------
(***************************************************************************)
(* The endpoints.  Every handler is a list of checks that answers with the *)
(* first code; the lemmas say, for each list, exactly which codes it holds *)
(* and for what, so that two handlers are compared by what they refuse and *)
(* an answer with 200 by what it has ruled out.                            *)
(***************************************************************************)

\* A set of naturals that is not empty has a least member.
LEMMA LeastOfNaturals ==
  ASSUME NEW T \in SUBSET Nat, T # {}
  PROVE  \E x \in T : \A y \in T : x <= y
<1> DEFINE R == {ss \in Nat \X Nat : ss[1] < ss[2]}
<1>1. IsWellFoundedOn(R, Nat)
  BY NatLessThanWellFounded, Zenon DEF OpToRel
<1>2. \E x \in T : \A y \in T : ~ (<<y, x>> \in R)
  <2> HIDE DEF R
  <2> QED BY <1>1, WFMin
<1>3. PICK x \in T : \A y \in T : ~ (<<y, x>> \in R)
  BY <1>2
<1>4. ASSUME NEW y \in T PROVE x <= y
  <2>1. x \in Nat /\ y \in Nat
    OBVIOUS
  <2>2. ~ (<<y, x>> \in R)
    BY <1>3
  <2>3. ~ (y < x)
    BY <2>1, <2>2
  <2> QED BY <2>1, <2>3
<1> QED BY <1>4

LEMMA LeastOf ==
  ASSUME NEW S \in SUBSET Nat, S # {}
  PROVE  Min(S) \in S /\ \A x \in S : Min(S) <= x
<1>1. \E x \in S : \A y \in S : x <= y
  BY LeastOfNaturals
<1> QED BY <1>1 DEF Min

\* A list of checks.
IsList(l) == \E S : l \in Seq(S)

\* A handler answers with a code of a check that fails, if there is one.
LEMMA FirstOfCodes ==
  ASSUME NEW l, IsList(l)
  PROVE  IF Codes(l) = {} THEN FirstFault(l) = Accepted ELSE FirstFault(l) \in Codes(l)
<1>1. PICK refusals : refusals = {i \in DOMAIN l : l[i] # Accepted}
  OBVIOUS
<1>2. FirstFault(l) = IF refusals = {} THEN Accepted ELSE l[Min(refusals)]
  BY <1>1 DEF FirstFault
<1>5. refusals \in SUBSET Nat
  BY <1>1 DEF IsList
<1>3. CASE refusals = {}
  BY <1>1, <1>2, <1>3 DEF Codes
<1>4. CASE refusals # {}
  <2>2. Min(refusals) \in refusals
    BY <1>4, <1>5, LeastOf
  <2> QED BY <1>1, <1>2, <1>4, <2>2 DEF Codes
<1> QED BY <1>3, <1>4

\* The checks before the first that fails change nothing.
LEMMA FirstAt ==
  ASSUME NEW l, IsList(l), NEW i \in DOMAIN l, l[i] # Accepted,
         \A j \in 1 .. i - 1 : l[j] = Accepted
  PROVE  FirstFault(l) = l[i]
<1>1. PICK refusals : refusals = {k \in DOMAIN l : l[k] # Accepted}
  OBVIOUS
<1>2. FirstFault(l) = IF refusals = {} THEN Accepted ELSE l[Min(refusals)]
  BY <1>1 DEF FirstFault
<1>3. i \in refusals /\ refusals \in SUBSET Nat
  BY <1>1 DEF IsList
<1>4. PICK m : m = Min(refusals)
  OBVIOUS
<1>5. m \in refusals /\ m <= i
  BY <1>3, <1>4, LeastOf
<1>6. i \in Nat /\ m \in Nat /\ m >= 1
  BY <1>1, <1>5 DEF IsList
<1>7. m = i
  BY <1>1, <1>5, <1>6
<1> QED BY <1>2, <1>3, <1>4, <1>7

\* The codes of two lists, one after the other.
LEMMA CodesOfBoth ==
  ASSUME NEW a, IsList(a), NEW b, IsList(b)
  PROVE  IsList(a \o b) /\ \A c : c \in Codes(a \o b) <=> c \in Codes(a) \/ c \in Codes(b)
<1>1. PICK S, T : a \in Seq(S) /\ b \in Seq(T)
  BY DEF IsList
<1>10. PICK U : U = S \cup T
  OBVIOUS
<1>11. a \in Seq(U) /\ b \in Seq(U)
  BY <1>1, <1>10
<1>12. PICK l : l = a \o b
  OBVIOUS
<1>2. l \in Seq(U)
  BY <1>11, <1>12
<1>3. PICK m, n \in Nat : m = Len(a) /\ n = Len(b)
  BY <1>11
<1>4. /\ DOMAIN l = 1 .. m + n /\ DOMAIN a = 1 .. m /\ DOMAIN b = 1 .. n
      /\ \A i \in 1 .. m : l[i] = a[i]
      /\ \A i \in 1 .. n : l[m + i] = b[i]
  BY <1>3, <1>11, <1>12
<1>5. ASSUME NEW i \in DOMAIN l PROVE l[i] \in {a[k] : k \in DOMAIN a} \cup {b[k] : k \in DOMAIN b}
  <2>1. CASE i <= m
    BY <1>4, <1>5, <2>1
  <2>2. CASE i > m
    <3>1. i \in 1 .. m + n
      BY <1>4, <1>5
    <3>2. i - m \in 1 .. n /\ i = m + (i - m)
      BY <1>3, <2>2, <3>1
    <3>3. l[i] = b[i - m]
      BY <1>4, <3>2
    <3> QED BY <1>4, <3>2, <3>3
  <2> QED BY <1>4, <1>5, <2>1, <2>2
<1>6. ASSUME NEW k \in DOMAIN a PROVE a[k] \in {l[i] : i \in DOMAIN l}
  BY <1>4, <1>6
<1>7. ASSUME NEW k \in DOMAIN b PROVE b[k] \in {l[i] : i \in DOMAIN l}
  <2>1. m + k \in DOMAIN l /\ l[m + k] = b[k]
    BY <1>4, <1>7
  <2> QED BY <2>1
<1>8. {l[i] : i \in DOMAIN l} = {a[k] : k \in DOMAIN a} \cup {b[k] : k \in DOMAIN b}
  BY <1>5, <1>6, <1>7
<1>9. Codes(l) = Codes(a) \cup Codes(b)
  BY <1>8 DEF Codes
<1> QED BY <1>2, <1>9, <1>12 DEF IsList

\* Lists of at most three checks.
LEMMA FewInSeq ==
  ASSUME NEW S, NEW u \in S, NEW v \in S, NEW w \in S
  PROVE  <<>> \in Seq(S) /\ <<u>> \in Seq(S) /\ <<u, v>> \in Seq(S) /\ <<u, v, w>> \in Seq(S)
OBVIOUS

\* The codes of a list of at most three checks.
LEMMA CodesOfFew ==
  ASSUME NEW u, NEW v, NEW w
  PROVE  /\ IsList(<<>>) /\ Codes(<<>>) = {}
         /\ IsList(<<u>>) /\ \A c : c \in Codes(<<u>>) <=> c # Accepted /\ c = u
         /\ IsList(<<u, v>>) /\ \A c : c \in Codes(<<u, v>>) <=> c # Accepted /\ c \in {u, v}
         /\ IsList(<<u, v, w>>) /\ \A c : c \in Codes(<<u, v, w>>) <=> c # Accepted /\ c \in {u, v, w}
<1>1. PICK S : S = {u, v, w}
  OBVIOUS
<1>2. u \in S /\ v \in S /\ w \in S
  BY <1>1
<1>3. IsList(<<>>) /\ IsList(<<u>>) /\ IsList(<<u, v>>) /\ IsList(<<u, v, w>>)
  <2>1. <<>> \in Seq(S) /\ <<u>> \in Seq(S) /\ <<u, v>> \in Seq(S) /\ <<u, v, w>> \in Seq(S)
    BY <1>2, FewInSeq
  <2> QED BY <2>1 DEF IsList
<1>4. Codes(<<>>) = {}
  BY DEF Codes
<1>5. \A c : c \in Codes(<<u>>) <=> c # Accepted /\ c \in {u}
  <2>1. PICK z : z = <<u>>
    OBVIOUS
  <2>2. DOMAIN z = 1 .. 1
    BY <2>1
  <2>3. z[1] = u
    BY <2>1
  <2>4. 1 .. 1 = {1}
    OBVIOUS
  <2> QED BY <2>1, <2>2, <2>3, <2>4 DEF Codes
<1>6. \A c : c \in Codes(<<u, v>>) <=> c # Accepted /\ c \in {u, v}
  <2>1. PICK z : z = <<u, v>>
    OBVIOUS
  <2>2. DOMAIN z = 1 .. 2
    BY <2>1
  <2>3. z[1] = u /\ z[2] = v
    BY <2>1
  <2>4. 1 .. 2 = {1, 2}
    OBVIOUS
  <2> QED BY <2>1, <2>2, <2>3, <2>4 DEF Codes
<1>7. \A c : c \in Codes(<<u, v, w>>) <=> c # Accepted /\ c \in {u, v, w}
  <2>1. PICK z : z = <<u, v, w>>
    OBVIOUS
  <2>2. DOMAIN z = 1 .. 3
    BY <2>1
  <2>3. z[1] = u /\ z[2] = v /\ z[3] = w
    BY <2>1
  <2>4. 1 .. 3 = {1, 2, 3}
    OBVIOUS
  <2> QED BY <2>1, <2>2, <2>3, <2>4 DEF Codes
<1> QED BY <1>3, <1>4, <1>5, <1>6, <1>7

\* Two lists of checks refuse the same requests for the same conditions.
LEMMA AlikeWhen ==
  ASSUME NEW h, IsList(h), NEW r, IsList(r), NEW run, NEW keys, NEW ignored,
         \A c \in Codes(h) : \E d \in Codes(r) : Condition(c) = Condition(d),
         \A d \in Codes(r) : \E c \in Codes(h) : Condition(c) = Condition(d)
  PROVE  Alike(Replied(h, run, keys, ignored), h, Replied(r, run, keys, {}))
<1>1. PICK f, g : f = FirstFault(h) /\ g = FirstFault(r)
  OBVIOUS
<1>2. IF Codes(h) = {} THEN f = Accepted ELSE f \in Codes(h)
  BY <1>1, FirstOfCodes
<1>3. IF Codes(r) = {} THEN g = Accepted ELSE g \in Codes(r)
  BY <1>1, FirstOfCodes
<1>4. Accepted \notin Codes(h) /\ Accepted \notin Codes(r)
  BY DEF Codes
<1>5. Codes(h) = {} <=> Codes(r) = {}
  OBVIOUS
<1>6. PICK x, y : x = Replied(h, run, keys, ignored) /\ y = Replied(r, run, keys, {})
  OBVIOUS
<1>7. x.code = f /\ y.code = g
  BY <1>1, <1>6 DEF Replied, Refused
<1>8. f = Accepted => x.run = run /\ x.keys = keys
  BY <1>1, <1>6 DEF Replied
<1>9. g = Accepted => y.run = run /\ y.keys = keys
  BY <1>1, <1>6 DEF Replied
<1>10. f = Accepted <=> g = Accepted
  BY <1>2, <1>3, <1>4, <1>5
<1>11. (\A c \in Codes(h) : Condition(c) = Condition(f)) => Condition(g) = Condition(f)
  BY <1>2, <1>3, <1>5
<1> QED BY <1>6, <1>7, <1>8, <1>9, <1>10, <1>11 DEF Alike

\* The codes of a list of six checks.
LEMMA CodesOfSix ==
  ASSUME NEW u, NEW v, NEW w, NEW x, NEW y, NEW z
  PROVE  /\ IsList(<<u, v, w, x, y, z>>)
         /\ \A c : c \in Codes(<<u, v, w, x, y, z>>) <=> c # Accepted /\ c \in {u, v, w, x, y, z}
<1>1. ASSUME NEW S, u \in S, v \in S, w \in S, x \in S, y \in S, z \in S
      PROVE  <<u, v, w, x, y, z>> \in Seq(S)
  BY <1>1
<1>2. PICK s : s = <<u, v, w, x, y, z>>
  OBVIOUS
<1>3. IsList(s)
  <2>1. PICK S : S = {u, v, w, x, y, z}
    OBVIOUS
  <2>2. u \in S /\ v \in S /\ w \in S /\ x \in S /\ y \in S /\ z \in S
    BY <2>1
  <2> QED BY <1>1, <1>2, <2>2 DEF IsList
<1>4. DOMAIN s = 1 .. 6
  BY <1>2
<1>5. s[1] = u /\ s[2] = v /\ s[3] = w /\ s[4] = x /\ s[5] = y /\ s[6] = z
  BY <1>2
<1>6. 1 .. 6 = {1, 2, 3, 4, 5, 6}
  OBVIOUS
<1>7. {s[i] : i \in 1 .. 6} = {u, v, w, x, y, z}
  BY <1>5, <1>6
<1>8. \A c : c \in Codes(s) <=> c # Accepted /\ c \in {u, v, w, x, y, z}
  BY <1>4, <1>7 DEF Codes
<1> QED BY <1>2, <1>3, <1>8

\* What LayoutChecks refuses.
LEMMA LayoutCodes ==
  ASSUME NEW q, NEW name, NEW srv
  PROVE  /\ IsList(LayoutChecks(q, name, srv))
         /\ \A c : c \in Codes(LayoutChecks(q, name, srv)) <=>
                     \/ c = Invalid /\ ~WellFormed(q, name)
                     \/ c = "LAYOUT_DISABLED" /\ On(q, name) /\ ~srv.layout
<1>1. PICK u, v : /\ u = IF WellFormed(q, name) THEN Accepted ELSE Invalid
                  /\ v = IF On(q, name) => srv.layout THEN Accepted ELSE "LAYOUT_DISABLED"
  OBVIOUS
<1>3. LayoutChecks(q, name, srv) = <<u, v>>
  BY <1>1 DEF LayoutChecks, Check, Loaded
<1>4. \A c : c # Accepted /\ c \in {u, v} <=> \/ c = Invalid /\ ~WellFormed(q, name)
                                              \/ c = "LAYOUT_DISABLED" /\ On(q, name) /\ ~srv.layout
  BY <1>1 DEF Accepted, Invalid
<1>5. IsList(<<u, v>>) /\ \A c : c \in Codes(<<u, v>>) <=> c # Accepted /\ c \in {u, v}
  BY CodesOfFew
<1> QED BY <1>3, <1>4, <1>5

\* What text=0 rules out.
TextAlone(q, srv) ==
  /\ srv.gpu /\ Closure(Asked(q)) \cap Structure = {} /\ "as_blocks" \notin Closure(Asked(q))
  /\ "reading_order" \notin Closure(Asked(q))

\* What TextChecks refuses.
LEMMA TextCodes ==
  ASSUME NEW q, NEW srv, NEW imageOnly \in BOOLEAN
  PROVE  /\ IsList(TextChecks(q, srv, imageOnly))
         /\ \A c : c \in Codes(TextChecks(q, srv, imageOnly)) <=>
                     c = Invalid /\ (~WellFormed(q, "text") \/
                       (~WantsText(q) /\ (~TextAlone(q, srv) \/
                       ("layout" \notin Closure(Asked(q)) /\ ~imageOnly))))
<1>1. PICK u, v, w, x, y, z :
        /\ u = IF WellFormed(q, "text") THEN Accepted ELSE Invalid
        /\ v = IF WantsText(q) \/ srv.gpu THEN Accepted ELSE Invalid
        /\ w = IF WantsText(q) \/ Closure(Asked(q)) \cap Structure = {} THEN Accepted ELSE Invalid
        /\ x = IF WantsText(q) \/ "as_blocks" \notin Closure(Asked(q)) THEN Accepted ELSE Invalid
        /\ y = IF WantsText(q) \/ "reading_order" \notin Closure(Asked(q)) THEN Accepted ELSE Invalid
        /\ z = IF WantsText(q) \/ ("layout" \in Closure(Asked(q)) \/ imageOnly)
               THEN Accepted ELSE Invalid
  OBVIOUS
<1>3. TextChecks(q, srv, imageOnly) = <<u, v, w, x, y, z>>
  BY <1>1 DEF TextChecks, Check
<1>2. Accepted # Invalid
  BY DEF Accepted, Invalid
<1>4. /\ u \in {Accepted, Invalid} /\ v \in {Accepted, Invalid} /\ w \in {Accepted, Invalid}
      /\ x \in {Accepted, Invalid} /\ y \in {Accepted, Invalid} /\ z \in {Accepted, Invalid}
  BY <1>1
<1>6. u = Invalid <=> ~WellFormed(q, "text")
  BY <1>1, <1>2
<1>7. v = Invalid <=> ~WantsText(q) /\ ~srv.gpu
  BY <1>1, <1>2
<1>8. w = Invalid <=> ~WantsText(q) /\ Closure(Asked(q)) \cap Structure # {}
  BY <1>1, <1>2
<1>9. x = Invalid <=> ~WantsText(q) /\ "as_blocks" \in Closure(Asked(q))
  BY <1>1, <1>2
<1>10. y = Invalid <=> ~WantsText(q) /\ "reading_order" \in Closure(Asked(q))
  BY <1>1, <1>2
<1>11. z = Invalid <=> ~WantsText(q) /\ "layout" \notin Closure(Asked(q)) /\ ~imageOnly
  BY <1>1, <1>2
<1>12. v = Invalid \/ w = Invalid \/ x = Invalid \/ y = Invalid <=> ~WantsText(q) /\ ~TextAlone(q, srv)
  BY <1>7, <1>8, <1>9, <1>10 DEF TextAlone
<1>13. ASSUME NEW c
       PROVE  c # Accepted /\ c \in {u, v, w, x, y, z} <=>
                c = Invalid /\ (u = Invalid \/ (v = Invalid \/ w = Invalid \/ x = Invalid \/ y = Invalid)
                                  \/ z = Invalid)
  BY <1>2, <1>4
<1>5. /\ IsList(<<u, v, w, x, y, z>>)
      /\ \A c : c \in Codes(<<u, v, w, x, y, z>>) <=> c # Accepted /\ c \in {u, v, w, x, y, z}
  BY CodesOfSix
<1>14. /\ IsList(<<u, v, w, x, y, z>>)
       /\ \A c : c \in Codes(<<u, v, w, x, y, z>>) <=>
                    c = Invalid /\ (~WellFormed(q, "text") \/
                      (~WantsText(q) /\ (~TextAlone(q, srv) \/
                       ("layout" \notin Closure(Asked(q)) /\ ~imageOnly))))
  <2>1. ASSUME NEW c
        PROVE  c \in Codes(<<u, v, w, x, y, z>>) <=>
                 c = Invalid /\ (~WellFormed(q, "text") \/
                   (~WantsText(q) /\ (~TextAlone(q, srv) \/
                       ("layout" \notin Closure(Asked(q)) /\ ~imageOnly))))
    <3>1. c \in Codes(<<u, v, w, x, y, z>>) <=> c # Accepted /\ c \in {u, v, w, x, y, z}
      BY <1>5
    <3>2. c \in Codes(<<u, v, w, x, y, z>>) <=>
            c = Invalid /\ (u = Invalid \/ (v = Invalid \/ w = Invalid \/ x = Invalid \/ y = Invalid)
                                  \/ z = Invalid)
      BY <1>13, <3>1
    <3> QED BY <1>6, <1>11, <1>12, <3>2
  <2> QED BY <1>5, <2>1
<1> QED BY <1>3, <1>14, Zenon


\* What is wrong with the options of a request.
OptionFault(c, q, srv) ==
  \/ c = Invalid /\ \E f \in OcrOptionParams : ~WellFormed(q, f)
  \/ c = "LAYOUT_DISABLED" /\ Asked(q) # {} /\ ~srv.layout
  \/ c = Invalid /\ ~WantsText(q) /\ ~TextAlone(q, srv)

\* What OptionChecks refuses.
LEMMA OptionCodes ==
  ASSUME NEW q, NEW srv, NEW imageOnly \in BOOLEAN
  PROVE  /\ IsList(OptionChecks(q, srv, imageOnly))
         /\ \A c : c \in Codes(OptionChecks(q, srv, imageOnly)) <=>
                     \/ OptionFault(c, q, srv)
                     \/ /\ c = Invalid /\ ~WantsText(q)
                        /\ "layout" \notin Closure(Asked(q)) /\ ~imageOnly
<1>1. PICK k, l, m, t : /\ k = LayoutChecks(q, "layout", srv)
                        /\ l = LayoutChecks(q, "reading_order", srv)
                        /\ m = LayoutChecks(q, "as_blocks", srv)
                        /\ t = TextChecks(q, srv, imageOnly)
  OBVIOUS
<1>2. PICK u, v, w :
        /\ u = IF WellFormed(q, "tables") THEN Accepted ELSE Invalid
        /\ v = IF WellFormed(q, "formulas") THEN Accepted ELSE Invalid
        /\ w = IF (On(q, "tables") => srv.layout) /\ (On(q, "formulas") => srv.layout)
               THEN Accepted ELSE "LAYOUT_DISABLED"
  OBVIOUS
<1>3. OptionChecks(q, srv, imageOnly) = (((k \o l) \o m) \o <<u, v, w>>) \o t
  BY <1>1, <1>2, Zenon DEF OptionChecks, Check, Loaded
<1>4. /\ IsList(k) /\ IsList(l) /\ IsList(m)
      /\ \A c : c \in Codes(k) <=> \/ c = Invalid /\ ~WellFormed(q, "layout")
                                   \/ c = "LAYOUT_DISABLED" /\ On(q, "layout") /\ ~srv.layout
      /\ \A c : c \in Codes(l) <=> \/ c = Invalid /\ ~WellFormed(q, "reading_order")
                                   \/ c = "LAYOUT_DISABLED" /\ On(q, "reading_order") /\ ~srv.layout
      /\ \A c : c \in Codes(m) <=> \/ c = Invalid /\ ~WellFormed(q, "as_blocks")
                                   \/ c = "LAYOUT_DISABLED" /\ On(q, "as_blocks") /\ ~srv.layout
  BY <1>1, LayoutCodes
<1>5. /\ IsList(t)
      /\ \A c : c \in Codes(t) <=>
            c = Invalid /\ (~WellFormed(q, "text") \/
                     (~WantsText(q) /\ (~TextAlone(q, srv) \/
                       ("layout" \notin Closure(Asked(q)) /\ ~imageOnly))))
  BY <1>1, TextCodes, Zenon
<1>6. /\ IsList(<<u, v, w>>)
      /\ \A c : c \in Codes(<<u, v, w>>) <=> c # Accepted /\ c \in {u, v, w}
  BY CodesOfFew
<1>7. ASSUME NEW c
      PROVE  c # Accepted /\ c \in {u, v, w} <=>
               \/ c = Invalid /\ (~WellFormed(q, "tables") \/ ~WellFormed(q, "formulas"))
               \/ c = "LAYOUT_DISABLED" /\ (On(q, "tables") \/ On(q, "formulas")) /\ ~srv.layout
  BY <1>2 DEF Accepted, Invalid
<1>8. PICK a : a = k \o l
  OBVIOUS
<1>9. IsList(a) /\ \A c : c \in Codes(a) <=> c \in Codes(k) \/ c \in Codes(l)
  BY <1>4, <1>8, CodesOfBoth
<1>10. PICK b : b = a \o m
  OBVIOUS
<1>11. IsList(b) /\ \A c : c \in Codes(b) <=> c \in Codes(a) \/ c \in Codes(m)
  BY <1>4, <1>9, <1>10, CodesOfBoth
<1>12. PICK d : d = b \o <<u, v, w>>
  OBVIOUS
<1>13. IsList(d) /\ \A c : c \in Codes(d) <=> c \in Codes(b) \/ c \in Codes(<<u, v, w>>)
  BY <1>6, <1>11, <1>12, CodesOfBoth
<1>14. IsList(d \o t) /\ \A c : c \in Codes(d \o t) <=> c \in Codes(d) \/ c \in Codes(t)
  BY <1>5, <1>13, CodesOfBoth
<1>15. (\E f \in OcrOptionParams : ~WellFormed(q, f)) <=>
         \/ ~WellFormed(q, "layout") \/ ~WellFormed(q, "reading_order") \/ ~WellFormed(q, "as_blocks")
         \/ ~WellFormed(q, "tables") \/ ~WellFormed(q, "formulas") \/ ~WellFormed(q, "text")
  BY DEF OcrOptionParams, Features, Structure
<1>16. Asked(q) # {} <=>
         \/ On(q, "layout") \/ On(q, "reading_order") \/ On(q, "as_blocks")
         \/ On(q, "tables") \/ On(q, "formulas")
  BY DEF Asked, Features, Structure
<1>17. ASSUME NEW c
       PROVE  c \in Codes(d \o t) <=>
                     \/ OptionFault(c, q, srv)
                     \/ /\ c = Invalid /\ ~WantsText(q)
                        /\ "layout" \notin Closure(Asked(q)) /\ ~imageOnly
  <2>1. c \in Codes(d \o t) <=>
          \/ c \in Codes(k) \/ c \in Codes(l) \/ c \in Codes(m)
          \/ c \in Codes(<<u, v, w>>) \/ c \in Codes(t)
    BY <1>9, <1>11, <1>13, <1>14
  <2> QED BY <1>4, <1>5, <1>6, <1>7, <1>15, <1>16, <2>1 DEF OptionFault
<1>18. OptionChecks(q, srv, imageOnly) = d \o t
  BY <1>3, <1>8, <1>10, <1>12, Zenon
<1> QED BY <1>14, <1>17, <1>18, Zenon

\* What BackendChecks refuses.
LEMMA BackendCodes ==
  ASSUME NEW wants, NEW srv
  PROVE  /\ IsList(BackendChecks(wants, srv))
         /\ \A c : c \in Codes(BackendChecks(wants, srv)) <=>
                     \/ c = "TABLE_BACKEND_DISABLED" /\ "tables" \in wants /\ ~srv.table
                     \/ c = "FORMULA_BACKEND_DISABLED" /\ "formulas" \in wants /\ ~srv.formula
<1>1. PICK u, v :
        /\ u = IF "tables" \in wants => srv.table THEN Accepted ELSE "TABLE_BACKEND_DISABLED"
        /\ v = IF "formulas" \in wants => srv.formula THEN Accepted ELSE "FORMULA_BACKEND_DISABLED"
  OBVIOUS
<1>2. BackendChecks(wants, srv) = <<u, v>>
  BY <1>1, Zenon DEF BackendChecks, Check
<1>3. ASSUME NEW c
      PROVE  c # Accepted /\ c \in {u, v} <=>
               \/ c = "TABLE_BACKEND_DISABLED" /\ "tables" \in wants /\ ~srv.table
               \/ c = "FORMULA_BACKEND_DISABLED" /\ "formulas" \in wants /\ ~srv.formula
  BY <1>1 DEF Accepted
<1>4. IsList(<<u, v>>) /\ \A c : c \in Codes(<<u, v>>) <=> c # Accepted /\ c \in {u, v}
  BY CodesOfFew
<1> QED BY <1>2, <1>3, <1>4

\* What is wrong with an override: RoutingChecks looks only at the specification's routing.
RoutingFault(c, over, routed, srv) ==
  \/ c = Invalid /\ over # NoRouting /\ ~routed
  \/ c = "ROUTING_UNKNOWN_OVERRIDE" /\ over.table \notin srv.tableNames \cup {NoName}
  \/ c = "ROUTING_UNKNOWN_OVERRIDE" /\ over.formula \notin srv.formulaNames \cup {NoName}

\* What RoutingChecks refuses.
LEMMA RoutingCodes ==
  ASSUME NEW over, NEW spec, NEW srv
  PROVE  /\ IsList(RoutingChecks(over, spec, srv))
         /\ \A c : c \in Codes(RoutingChecks(over, spec, srv)) <=> RoutingFault(c, over, spec.routing, srv)
<1>1. PICK u, v, w :
        /\ u = IF over = NoRouting \/ spec.routing THEN Accepted ELSE Invalid
        /\ v = IF over.table \in srv.tableNames \cup {NoName} THEN Accepted
               ELSE "ROUTING_UNKNOWN_OVERRIDE"
        /\ w = IF over.formula \in srv.formulaNames \cup {NoName} THEN Accepted
               ELSE "ROUTING_UNKNOWN_OVERRIDE"
  OBVIOUS
<1>2. RoutingChecks(over, spec, srv) = <<u, v, w>>
  BY <1>1, Zenon DEF RoutingChecks, Check
<1>3. ASSUME NEW c
      PROVE  c # Accepted /\ c \in {u, v, w} <=>
               \/ c = Invalid /\ over # NoRouting /\ ~spec.routing
               \/ c = "ROUTING_UNKNOWN_OVERRIDE" /\ over.table \notin srv.tableNames \cup {NoName}
               \/ c = "ROUTING_UNKNOWN_OVERRIDE" /\ over.formula \notin srv.formulaNames \cup {NoName}
  BY <1>1 DEF Accepted, Invalid
<1>4. /\ IsList(<<u, v, w>>)
      /\ \A c : c \in Codes(<<u, v, w>>) <=> c # Accepted /\ c \in {u, v, w}
  BY CodesOfFew
<1> QED BY <1>2, <1>3, <1>4 DEF RoutingFault

SpecType == [ocr : BOOLEAN, layoutOnly : BOOLEAN, routing : BOOLEAN, pixels : BOOLEAN,
             pdf : BOOLEAN, embed : BOOLEAN]

\* What is wrong with the parameters of a request, whatever its body.
ParamFault(c, q, spec, srv) ==
  \/ c = Invalid /\ srv.strict /\ Unsupported(q, spec) # {}
  \/ RoutingFault(c, Override(q), spec.routing, srv)
BackendFault(c, wants, srv) ==
  \/ c = "TABLE_BACKEND_DISABLED" /\ "tables" \in wants /\ ~srv.table
  \/ c = "FORMULA_BACKEND_DISABLED" /\ "formulas" \in wants /\ ~srv.formula

\* What ParamChecks refuses.
LEMMA ParamCodes ==
  ASSUME NEW q, NEW spec \in SpecType, NEW srv
  PROVE  /\ IsList(ParamChecks(q, spec, srv))
         /\ \A c : c \in Codes(ParamChecks(q, spec, srv)) <=> ParamFault(c, q, spec, srv)
<1>1. PICK u : u = IF srv.strict => Unsupported(q, spec) = {} THEN Accepted ELSE Invalid
  OBVIOUS
<1>2. PICK r : r = RoutingChecks(Override(q), spec, srv)
  OBVIOUS
<1>3. ParamChecks(q, spec, srv) = <<u>> \o r
  BY <1>1, <1>2, Zenon DEF ParamChecks, Check
<1>4. IsList(r) /\ \A c : c \in Codes(r) <=> RoutingFault(c, Override(q), spec.routing, srv)
  BY <1>2, RoutingCodes
<1>5. IsList(<<u>>) /\ \A c : c \in Codes(<<u>>) <=> c # Accepted /\ c = u
  BY CodesOfFew
<1>6. IsList(<<u>> \o r) /\ \A c : c \in Codes(<<u>> \o r) <=> c \in Codes(<<u>>) \/ c \in Codes(r)
  BY <1>4, <1>5, CodesOfBoth
<1>7. ASSUME NEW c
      PROVE  c # Accepted /\ c = u <=> c = Invalid /\ srv.strict /\ Unsupported(q, spec) # {}
  BY <1>1 DEF Accepted, Invalid
<1>8. ASSUME NEW c PROVE c \in Codes(<<u>> \o r) <=> ParamFault(c, q, spec, srv)
  BY <1>4, <1>5, <1>6, <1>7 DEF ParamFault
<1> QED BY <1>3, <1>6, <1>8

\* The gate of a specification with the options of a page, and of one without them.
LEMMA GateCodes ==
  ASSUME NEW q, NEW spec \in SpecType, spec.layoutOnly, spec.ocr, NEW srv, NEW imageOnly \in BOOLEAN
  PROVE  /\ IsList(GateChecks(q, spec, srv, imageOnly))
         /\ \A c : c \in Codes(GateChecks(q, spec, srv, imageOnly)) <=>
                     \/ OptionFault(c, q, srv)
                     \/ /\ c = Invalid /\ ~WantsText(q)
                        /\ "layout" \notin Closure(Asked(q)) /\ ~imageOnly
                     \/ ParamFault(c, q, spec, srv)
                     \/ BackendFault(c, Closure(Asked(q)), srv)
<1>1. PICK o, p, b : /\ o = OptionChecks(q, srv, imageOnly) /\ p = ParamChecks(q, spec, srv)
                     /\ b = BackendChecks(Closure(Asked(q)), srv)
  OBVIOUS
<1>2. GateOptions(q, spec).wants = Closure(Asked(q))
  BY DEF GateOptions, ParsedOptions, Options
<1>3. GateChecks(q, spec, srv, imageOnly) = ((o \o p) \o <<Accepted>>) \o b
  BY <1>1, <1>2, Zenon DEF GateChecks, Check
<1>4. /\ IsList(o)
      /\ \A c : c \in Codes(o) <=>
                     \/ OptionFault(c, q, srv)
                     \/ /\ c = Invalid /\ ~WantsText(q)
                        /\ "layout" \notin Closure(Asked(q)) /\ ~imageOnly
  <2>1. imageOnly \in BOOLEAN
    OBVIOUS
  <2>2. /\ IsList(OptionChecks(q, srv, imageOnly))
        /\ \A c : c \in Codes(OptionChecks(q, srv, imageOnly)) <=>
                     \/ OptionFault(c, q, srv)
                     \/ /\ c = Invalid /\ ~WantsText(q)
                        /\ "layout" \notin Closure(Asked(q)) /\ ~imageOnly
    BY <2>1, OptionCodes
  <2> QED BY <1>1, <2>2, Zenon
<1>5. IsList(p) /\ \A c : c \in Codes(p) <=> ParamFault(c, q, spec, srv)
  BY <1>1, ParamCodes
<1>6. IsList(b) /\ \A c : c \in Codes(b) <=> BackendFault(c, Closure(Asked(q)), srv)
  BY <1>1, BackendCodes DEF BackendFault
<1>7. IsList(<<Accepted>>) /\ \A c : c \notin Codes(<<Accepted>>)
  BY CodesOfFew
<1>8. PICK k : k = o \o p
  OBVIOUS
<1>9. IsList(k) /\ \A c : c \in Codes(k) <=> c \in Codes(o) \/ c \in Codes(p)
  BY <1>4, <1>5, <1>8, CodesOfBoth
<1>10. PICK l : l = k \o <<Accepted>>
  OBVIOUS
<1>11. IsList(l) /\ \A c : c \in Codes(l) <=> c \in Codes(k) \/ c \in Codes(<<Accepted>>)
  BY <1>7, <1>9, <1>10, CodesOfBoth
<1>12. IsList(l \o b) /\ \A c : c \in Codes(l \o b) <=> c \in Codes(l) \/ c \in Codes(b)
  BY <1>6, <1>11, CodesOfBoth
<1>13. GateChecks(q, spec, srv, imageOnly) = l \o b
  BY <1>3, <1>8, <1>10, Zenon
<1>14. \A c : c \in Codes(l \o b) <=> c \in Codes(o) \/ c \in Codes(p) \/ c \in Codes(b)
  BY <1>7, <1>9, <1>11, <1>12
<1>15. \A c : c \in Codes(l \o b) <=>
                     \/ OptionFault(c, q, srv)
                     \/ /\ c = Invalid /\ ~WantsText(q)
                        /\ "layout" \notin Closure(Asked(q)) /\ ~imageOnly
                     \/ ParamFault(c, q, spec, srv)
                     \/ BackendFault(c, Closure(Asked(q)), srv)
  BY <1>4, <1>5, <1>6, <1>14, Zenon
<1> QED BY <1>12, <1>13, <1>15, Zenon

\* What the gate refuses of a request without options.
LEMMA PlainGateCodes ==
  ASSUME NEW q, NEW spec \in SpecType, spec.layoutOnly, ~spec.ocr, NEW srv
  PROVE  /\ IsList(GateChecks(q, spec, srv, FALSE))
         /\ \A c : c \in Codes(GateChecks(q, spec, srv, FALSE)) <=> ParamFault(c, q, spec, srv)
<1>1. PICK p : p = ParamChecks(q, spec, srv)
  OBVIOUS
<1>2. GateChecks(q, spec, srv, FALSE) = ((<<>> \o p) \o <<Accepted>>) \o <<>>
  BY <1>1, Zenon DEF GateChecks, Check
<1>3. IsList(p) /\ \A c : c \in Codes(p) <=> ParamFault(c, q, spec, srv)
  BY <1>1, ParamCodes
<1>4. IsList(<<>>) /\ Codes(<<>>) = {} /\ IsList(<<Accepted>>) /\ \A c : c \notin Codes(<<Accepted>>)
  BY CodesOfFew
<1>5. PICK k : k = <<>> \o p
  OBVIOUS
<1>6. IsList(k) /\ \A c : c \in Codes(k) <=> c \in Codes(<<>>) \/ c \in Codes(p)
  BY <1>3, <1>4, <1>5, CodesOfBoth
<1>7. PICK l : l = k \o <<Accepted>>
  OBVIOUS
<1>8. IsList(l) /\ \A c : c \in Codes(l) <=> c \in Codes(k) \/ c \in Codes(<<Accepted>>)
  BY <1>4, <1>6, <1>7, CodesOfBoth
<1>9. IsList(l \o <<>>) /\ \A c : c \in Codes(l \o <<>>) <=> c \in Codes(l) \/ c \in Codes(<<>>)
  BY <1>4, <1>8, CodesOfBoth
<1>10. GateChecks(q, spec, srv, FALSE) = l \o <<>>
  BY <1>2, <1>5, <1>7, Zenon
<1>11. \A c : c \in Codes(l \o <<>>) <=> ParamFault(c, q, spec, srv)
  BY <1>3, <1>4, <1>6, <1>8, <1>9
<1> QED BY <1>9, <1>10, <1>11, Zenon

\* The codes of three lists.
LEMMA CodesOfThree ==
  ASSUME NEW a, IsList(a), NEW b, IsList(b), NEW x, IsList(x)
  PROVE  /\ IsList((a \o b) \o x)
         /\ \A c : c \in Codes((a \o b) \o x) <=> c \in Codes(a) \/ c \in Codes(b) \/ c \in Codes(x)
<1>1. PICK k : k = a \o b
  OBVIOUS
<1>2. IsList(k) /\ \A c : c \in Codes(k) <=> c \in Codes(a) \/ c \in Codes(b)
  BY <1>1, CodesOfBoth
<1>3. IsList(k \o x) /\ \A c : c \in Codes(k \o x) <=> c \in Codes(k) \/ c \in Codes(x)
  BY <1>2, CodesOfBoth
<1> QED BY <1>1, <1>2, <1>3

\* The codes of five lists.
LEMMA CodesOfFive ==
  ASSUME NEW a, IsList(a), NEW b, IsList(b), NEW x, IsList(x), NEW y, IsList(y), NEW z, IsList(z)
  PROVE  /\ IsList((((a \o b) \o x) \o y) \o z)
         /\ \A c : c \in Codes((((a \o b) \o x) \o y) \o z) <=>
                     c \in Codes(a) \/ c \in Codes(b) \/ c \in Codes(x) \/ c \in Codes(y) \/ c \in Codes(z)
<1>1. PICK k : k = (a \o b) \o x
  OBVIOUS
<1>2. IsList(k) /\ \A c : c \in Codes(k) <=> c \in Codes(a) \/ c \in Codes(b) \/ c \in Codes(x)
  BY <1>1, CodesOfThree
<1>3. /\ IsList((k \o y) \o z)
      /\ \A c : c \in Codes((k \o y) \o z) <=> c \in Codes(k) \/ c \in Codes(y) \/ c \in Codes(z)
  BY <1>2, CodesOfThree
<1> QED BY <1>1, <1>2, <1>3

\* The code of one check.
LEMMA OneCode ==
  ASSUME NEW u
  PROVE  IsList(<<u>>) /\ \A c : c \in Codes(<<u>>) <=> c # Accepted /\ c = u
BY CodesOfFew

-----------------------------------------------------------------------------
TooLarge == {"DIMENSIONS_TOO_LARGE", "PIXELS_TOO_LARGE"}

\* An image is too large in one of two ways, or not.
LEMMA SizeCodeIs == ASSUME NEW w, NEW h, NEW srv PROVE SizeCode(w, h, srv) \in {Accepted} \cup TooLarge
<1>1. PICK u, v : /\ u = IF w <= srv.maxDim /\ h <= srv.maxDim THEN Accepted ELSE "DIMENSIONS_TOO_LARGE"
                  /\ v = IF w * h <= srv.maxPixels THEN Accepted ELSE "PIXELS_TOO_LARGE"
  OBVIOUS
<1>2. SizeCode(w, h, srv) = FirstFault(<<u, v>>)
  BY <1>1, Zenon DEF SizeCode, Check
<1>3. IsList(<<u, v>>) /\ \A c : c \in Codes(<<u, v>>) <=> c # Accepted /\ c \in {u, v}
  BY CodesOfFew
<1>4. PICK f : f = FirstFault(<<u, v>>)
  OBVIOUS
<1>5. IF Codes(<<u, v>>) = {} THEN f = Accepted ELSE f \in Codes(<<u, v>>)
  BY <1>3, <1>4, FirstOfCodes
<1>6. f = Accepted \/ f \in {u, v}
  BY <1>3, <1>5
<1> QED BY <1>1, <1>2, <1>4, <1>6 DEF TooLarge

\* What is wrong with an image: its size before the decode, or after it.
SizeFault(c, img, srv) == c = Sized(img, srv) /\ c \in TooLarge

\* What is refused of an image before it is decoded.
LEMMA PreCodes ==
  ASSUME NEW img, NEW srv
  PROVE  /\ IsList(PreCheck(img, srv))
         /\ \A c : c \in Codes(PreCheck(img, srv)) <=> img.sniffed /\ SizeFault(c, img, srv)
<1>1. PICK s : s = Sized(img, srv)
  OBVIOUS
<1>2. s \in {Accepted} \cup TooLarge /\ Accepted \notin TooLarge
  BY <1>1, SizeCodeIs DEF Sized, Accepted, TooLarge
<1>3. PICK u : u = IF img.sniffed THEN s ELSE Accepted
  OBVIOUS
<1>4. PreCheck(img, srv) = <<u>>
  BY <1>1, <1>3, Zenon DEF PreCheck
<1>5. IsList(<<u>>) /\ \A c : c \in Codes(<<u>>) <=> c # Accepted /\ c = u
  BY OneCode
<1>6. \A c : c # Accepted /\ c = u <=> img.sniffed /\ SizeFault(c, img, srv)
  BY <1>1, <1>2, <1>3 DEF SizeFault
<1> QED BY <1>4, <1>5, <1>6

\* What is refused of an image that the host decodes.
LEMMA HostCodes ==
  ASSUME NEW img, NEW srv
  PROVE  /\ IsList(HostChecks(img, srv))
         /\ \A c : c \in Codes(HostChecks(img, srv)) <=>
                     \/ c = "IMAGE_DECODE_FAILED" /\ ~img.decodes
                     \/ img.decodes /\ SizeFault(c, img, srv)
<1>1. PICK s : s = Sized(img, srv)
  OBVIOUS
<1>2. s \in {Accepted} \cup TooLarge /\ Accepted \notin TooLarge
  BY <1>1, SizeCodeIs DEF Sized, Accepted, TooLarge
<1>3. PICK u, v : /\ u = IF img.decodes THEN Accepted ELSE "IMAGE_DECODE_FAILED"
                  /\ v = IF img.decodes THEN s ELSE Accepted
  OBVIOUS
<1>4. HostChecks(img, srv) = <<u, v>>
  BY <1>1, <1>3, Zenon DEF HostChecks, Check
<1>5. IsList(<<u, v>>) /\ \A c : c \in Codes(<<u, v>>) <=> c # Accepted /\ c \in {u, v}
  BY CodesOfFew
<1>6. \A c : c # Accepted /\ c \in {u, v} <=> \/ c = "IMAGE_DECODE_FAILED" /\ ~img.decodes
                                              \/ img.decodes /\ SizeFault(c, img, srv)
  BY <1>1, <1>2, <1>3 DEF SizeFault, Accepted
<1> QED BY <1>4, <1>5, <1>6

\* What is refused of an image that the device decodes.
LEMMA DeviceCodes ==
  ASSUME NEW img, NEW srv
  PROVE  /\ IsList(DeviceChecks(img, srv))
         /\ \A c : c \in Codes(DeviceChecks(img, srv)) <=>
                     \/ c = "IMAGE_DECODE_FAILED" /\ ~img.decodes
                     \/ img.decodes /\ Sized(img, srv) \in TooLarge /\ c = "DIMENSIONS_TOO_LARGE"
<1>1. PICK s : s = Sized(img, srv)
  OBVIOUS
<1>2. s \in {Accepted} \cup TooLarge /\ Accepted \notin TooLarge
  BY <1>1, SizeCodeIs DEF Sized, Accepted, TooLarge
<1>3. PICK u, v : /\ u = IF img.decodes THEN Accepted ELSE "IMAGE_DECODE_FAILED"
                  /\ v = IF img.decodes => s = Accepted THEN Accepted ELSE "DIMENSIONS_TOO_LARGE"
  OBVIOUS
<1>4. DeviceChecks(img, srv) = <<u, v>>
  BY <1>1, <1>3, Zenon DEF DeviceChecks, Check
<1>5. IsList(<<u, v>>) /\ \A c : c \in Codes(<<u, v>>) <=> c # Accepted /\ c \in {u, v}
  BY CodesOfFew
<1>6. \A c : c # Accepted /\ c \in {u, v} <=>
                     \/ c = "IMAGE_DECODE_FAILED" /\ ~img.decodes
                     \/ img.decodes /\ Sized(img, srv) \in TooLarge /\ c = "DIMENSIONS_TOO_LARGE"
  BY <1>1, <1>2, <1>3 DEF Accepted
<1> QED BY <1>4, <1>5, <1>6

Outcomes == {"ok", "timeout", "busy", "throws"}

\* Both transports answer a failed inference with one code.
LEMMA InferenceCodes ==
  ASSUME NEW outcome \in Outcomes
  PROVE  /\ IsList(HttpInference(outcome)) /\ RpcInference(outcome) = HttpInference(outcome)
         /\ \A c : c \in Codes(HttpInference(outcome)) <=> c = HttpOutcome(outcome) /\ outcome # "ok"
<1>1. PICK u : u = HttpOutcome(outcome)
  OBVIOUS
<1>2. RpcOutcome(outcome) = u /\ (u = Accepted <=> outcome = "ok")
  BY <1>1 DEF HttpOutcome, RpcOutcome, Outcomes, Accepted
<1>3. IsList(<<u>>) /\ \A c : c \in Codes(<<u>>) <=> c # Accepted /\ c = u
  BY OneCode
<1> QED BY <1>1, <1>2, <1>3 DEF HttpInference, RpcInference

-----------------------------------------------------------------------------
\* What both transports find wrong with the parameters of a request that both can say.
CommonFault(c, q, srv) ==
  \/ c = "LAYOUT_DISABLED" /\ Asked(q) # {} /\ ~srv.layout
  \/ c = Invalid /\ ~WantsText(q) /\ ~TextAlone(q, srv)
  \/ RoutingFault(c, Override(q), srv.gpu, srv)
  \/ BackendFault(c, Asked(q), srv)

\* The closure adds the layout and the reading order, and nothing else.
LEMMA ClosureIs ==
  ASSUME NEW q
  PROVE  /\ Closure(Asked(q)) \cap Structure = Asked(q) \cap Structure
         /\ "as_blocks" \in Closure(Asked(q)) <=> "as_blocks" \in Asked(q)
         /\ "reading_order" \in Closure(Asked(q)) <=> Asked(q) \cap {"reading_order", "as_blocks"} # {}
         /\ "layout" \in Closure(Asked(q)) <=> Asked(q) # {}
         /\ Asked(q) \subseteq Closure(Asked(q)) /\ Closure(Asked(q)) \subseteq Features
BY DEF Closure, Asked, Structure, Features

\* A message says what the query says.
LEMMA PlainFacts ==
  ASSUME NEW q, Plain(q)
  PROVE  /\ \A f \in OcrOptionParams : WellFormed(q, f)
         /\ DOMAIN q \subseteq OcrOptionParams \cup RoutingParams
         /\ ~WantsText(q) => "layout" \in Asked(q)
         /\ Flags(q) = {} <=> Asked(q) = {}
         /\ Flags(q) \cap Features = Asked(q)
         /\ RpcWants(Flags(q)) = Closure(Asked(q))
         /\ "layout_only" \in Flags(q) <=> ~WantsText(q)
<1>1. /\ \A f \in OcrOptionParams : WellFormed(q, f)
      /\ DOMAIN q \subseteq OcrOptionParams \cup RoutingParams
  BY DEF Plain
<1>2. ~WantsText(q) => "layout" \in Asked(q)
  BY DEF Plain, Asked, Features
<1>3. Asked(q) \subseteq Features /\ "layout_only" \notin Features
  BY DEF Asked, Features, Structure
<1>4. Flags(q) = Asked(q) \cup (IF WantsText(q) THEN {} ELSE {"layout_only"})
  BY DEF Flags
<1>5. "layout_only" \in Flags(q) <=> ~WantsText(q)
  BY <1>3, <1>4
<1>6. Flags(q) \cap Features = Asked(q) /\ (Flags(q) = {} <=> Asked(q) = {})
  BY <1>2, <1>3, <1>4
<1>7. RpcWants(Flags(q)) = Closure(Asked(q))
  BY <1>6 DEF RpcWants, Closure
<1> QED BY <1>1, <1>2, <1>5, <1>6, <1>7

\* What the gate refuses of a request that both transports can say.
LEMMA PlainGate ==
  ASSUME NEW q, Plain(q), NEW srv \in ServerType, NEW spec \in {ImageSpec(srv), PixelsSpec(srv)}
  PROVE  /\ IsList(GateChecks(q, spec, srv, FALSE))
         /\ \A c : c \in Codes(GateChecks(q, spec, srv, FALSE)) <=> CommonFault(c, q, srv)
<1>1. srv.gpu \in BOOLEAN
  BY DEF ServerType
<1>2. /\ spec \in SpecType /\ spec.layoutOnly /\ spec.ocr /\ spec.routing = srv.gpu
      /\ OcrOptionParams \subseteq SpecAllows(spec)
  BY <1>1 DEF ImageSpec, PixelsSpec, EndpointSpec, SpecType, SpecAllows
<1>3. Unsupported(q, spec) = {}
  BY <1>2, PlainFacts DEF Unsupported
<1>4. /\ IsList(GateChecks(q, spec, srv, FALSE))
      /\ \A c : c \in Codes(GateChecks(q, spec, srv, FALSE)) <=>
                     \/ OptionFault(c, q, srv)
                     \/ /\ c = Invalid /\ ~WantsText(q)
                        /\ "layout" \notin Closure(Asked(q)) /\ ~FALSE
                     \/ ParamFault(c, q, spec, srv)
                     \/ BackendFault(c, Closure(Asked(q)), srv)
  <2>1. FALSE \in BOOLEAN
    OBVIOUS
  <2> QED BY <1>2, <2>1, GateCodes
<1>5. ASSUME NEW c PROVE OptionFault(c, q, srv) <=>
                           \/ c = "LAYOUT_DISABLED" /\ Asked(q) # {} /\ ~srv.layout
                           \/ c = Invalid /\ ~WantsText(q) /\ ~TextAlone(q, srv)
  BY PlainFacts DEF OptionFault
<1>6. ~WantsText(q) => "layout" \in Closure(Asked(q))
  BY PlainFacts, ClosureIs
<1>7. ASSUME NEW c PROVE ParamFault(c, q, spec, srv) <=> RoutingFault(c, Override(q), srv.gpu, srv)
  BY <1>2, <1>3 DEF ParamFault, RoutingFault
<1>8. ASSUME NEW c PROVE BackendFault(c, Closure(Asked(q)), srv) <=> BackendFault(c, Asked(q), srv)
  BY ClosureIs DEF BackendFault, Structure
<1>9. ASSUME NEW c
      PROVE  c \in Codes(GateChecks(q, spec, srv, FALSE)) <=> CommonFault(c, q, srv)
  BY <1>4, <1>5, <1>6, <1>7, <1>8 DEF CommonFault
<1> QED BY <1>4, <1>9

\* The checks of a message that says what the query says.
LEMMA RpcGate ==
  ASSUME NEW q, Plain(q), NEW srv \in ServerType, srv.json
  PROVE  LET gate == RoutingChecks(Override(q), ImageSpec(srv), srv)
                       \o RpcOptionChecks(Flags(q), srv) \o RpcBackendChecks(Flags(q), srv)
         IN  IsList(gate) /\ \A c : c \in Codes(gate) <=> CommonFault(c, q, srv)
<1>1. PICK a, b, d : /\ a = RoutingChecks(Override(q), ImageSpec(srv), srv)
                     /\ b = RpcOptionChecks(Flags(q), srv) /\ d = RpcBackendChecks(Flags(q), srv)
  OBVIOUS
<1>2. IsList(a) /\ \A c : c \in Codes(a) <=> RoutingFault(c, Override(q), srv.gpu, srv)
  <2>1. ImageSpec(srv).routing = srv.gpu
    BY DEF ImageSpec, EndpointSpec
  <2>2. /\ IsList(a)
        /\ \A c : c \in Codes(a) <=> RoutingFault(c, Override(q), ImageSpec(srv).routing, srv)
    BY <1>1, RoutingCodes
  <2> QED BY <2>1, <2>2 DEF RoutingFault
<1>3. IsList(b) /\ \A c : c \in Codes(b) <=> \/ c = "LAYOUT_DISABLED" /\ Asked(q) # {} /\ ~srv.layout
                                             \/ c = Invalid /\ ~WantsText(q) /\ ~TextAlone(q, srv)
  <2>1. PICK flags, textual : /\ flags = Flags(q)
                              /\ textual = flags \cap {"reading_order", "as_blocks", "tables", "formulas"}
    OBVIOUS
  <2>2. PICK u, v, w :
          /\ u = IF "layout_only" \in flags => srv.gpu THEN Accepted ELSE Invalid
          /\ v = IF "layout_only" \in flags => textual = {} THEN Accepted ELSE Invalid
          /\ w = IF flags # {} => srv.layout THEN Accepted ELSE "LAYOUT_DISABLED"
    OBVIOUS
  <2>3. b = <<u, v, w>>
    BY <1>1, <2>1, <2>2, Zenon DEF RpcOptionChecks, Check
  <2>4. /\ IsList(<<u, v, w>>)
        /\ \A c : c \in Codes(<<u, v, w>>) <=> c # Accepted /\ c \in {u, v, w}
    BY CodesOfFew
  <2>5. textual = Asked(q) \cap {"reading_order", "as_blocks", "tables", "formulas"}
    BY <2>1, PlainFacts DEF Features, Structure
  <2>6. TextAlone(q, srv) <=> srv.gpu /\ textual = {}
    BY <2>5, ClosureIs DEF TextAlone, Structure
  <2>7. ("layout_only" \in flags <=> ~WantsText(q)) /\ (flags = {} <=> Asked(q) = {})
    BY <2>1, PlainFacts
  <2>8. ASSUME NEW c
        PROVE  c # Accepted /\ c \in {u, v, w} <=>
                 \/ c = "LAYOUT_DISABLED" /\ Asked(q) # {} /\ ~srv.layout
                 \/ c = Invalid /\ ~WantsText(q) /\ ~TextAlone(q, srv)
    BY <2>2, <2>6, <2>7 DEF Accepted, Invalid
  <2> QED BY <2>3, <2>4, <2>8
<1>4. IsList(d) /\ \A c : c \in Codes(d) <=> BackendFault(c, Asked(q), srv)
  <2>1. PICK flags : flags = Flags(q)
    OBVIOUS
  <2>2. PICK u, v, w :
          /\ u = IF srv.json \/ flags \subseteq {"reading_order"} THEN Accepted
                 ELSE "STRUCTURED_MODE_NO_STRUCTURE"
          /\ v = IF "tables" \in flags => srv.table THEN Accepted ELSE "TABLE_BACKEND_DISABLED"
          /\ w = IF "formulas" \in flags => srv.formula THEN Accepted ELSE "FORMULA_BACKEND_DISABLED"
    OBVIOUS
  <2>3. d = <<u, v, w>>
    BY <1>1, <2>1, <2>2, Zenon DEF RpcBackendChecks, Check
  <2>4. /\ IsList(<<u, v, w>>)
        /\ \A c : c \in Codes(<<u, v, w>>) <=> c # Accepted /\ c \in {u, v, w}
    BY CodesOfFew
  <2>5. ("tables" \in flags <=> "tables" \in Asked(q)) /\ ("formulas" \in flags <=> "formulas" \in Asked(q))
    BY <2>1, PlainFacts DEF Features, Structure
  <2>6. ASSUME NEW c PROVE c # Accepted /\ c \in {u, v, w} <=> BackendFault(c, Asked(q), srv)
    BY <2>2, <2>5 DEF Accepted, BackendFault
  <2> QED BY <2>3, <2>4, <2>6
<1>5. /\ IsList((a \o b) \o d)
      /\ \A c : c \in Codes((a \o b) \o d) <=> c \in Codes(a) \/ c \in Codes(b) \/ c \in Codes(d)
  BY <1>2, <1>3, <1>4, CodesOfThree
<1>6. ASSUME NEW c PROVE c \in Codes((a \o b) \o d) <=> CommonFault(c, q, srv)
  BY <1>2, <1>3, <1>4, <1>5 DEF CommonFault
<1> QED BY <1>1, <1>5, <1>6

\* The codes that are said of one condition.
LEMMA SameCondition ==
  /\ Condition("EMPTY_BODY") = Condition("MISSING_IMAGE") /\ Condition("EMPTY_BODY") = Condition("MISSING_PDF")
  /\ \A c, d \in TooLarge : Condition(c) = Condition(d)
  /\ Condition("INVALID_DIMENSIONS") = Condition("MISSING_DIMENSIONS")
BY DEF Condition, TooLarge

\* Device and host decoders refuse the same images for the same conditions.
LEMMA DecodersAgree ==
  ASSUME NEW img, NEW srv, NEW x \in {HostChecks(img, srv), DeviceChecks(img, srv)},
         NEW y \in {HostChecks(img, srv), DeviceChecks(img, srv)}
  PROVE  IsList(x) /\ \A c \in Codes(x) : \E d \in Codes(y) : Condition(c) = Condition(d)
<1>1. /\ IsList(HostChecks(img, srv)) /\ IsList(DeviceChecks(img, srv))
      /\ \A c : c \in Codes(HostChecks(img, srv)) <=>
                     \/ c = "IMAGE_DECODE_FAILED" /\ ~img.decodes
                     \/ img.decodes /\ SizeFault(c, img, srv)
      /\ \A c : c \in Codes(DeviceChecks(img, srv)) <=>
                     \/ c = "IMAGE_DECODE_FAILED" /\ ~img.decodes
                     \/ img.decodes /\ Sized(img, srv) \in TooLarge /\ c = "DIMENSIONS_TOO_LARGE"
  BY HostCodes, DeviceCodes
<1>2. "DIMENSIONS_TOO_LARGE" \in TooLarge
  BY DEF TooLarge
<1>3. ASSUME NEW c \in Codes(HostChecks(img, srv))
      PROVE  \E d \in Codes(DeviceChecks(img, srv)) : Condition(c) = Condition(d)
  BY <1>1, <1>2, <1>3, SameCondition DEF SizeFault
<1>4. ASSUME NEW c \in Codes(DeviceChecks(img, srv))
      PROVE  \E d \in Codes(HostChecks(img, srv)) : Condition(c) = Condition(d)
  BY <1>1, <1>2, <1>4, SameCondition DEF SizeFault
<1> QED BY <1>1, <1>3, <1>4

\* What a call refuses of a message with an image.
LEMMA RecognizeCodes ==
  ASSUME NEW q, Plain(q), NEW srv \in ServerType, srv.json, NEW img \in ImageType
  PROVE  \E decode \in {HostChecks(img, srv), DeviceChecks(img, srv)} :
           /\ IsList(RecognizeChecks(Message(q), img, srv))
           /\ \A c : c \in Codes(RecognizeChecks(Message(q), img, srv)) <=>
                       \/ CommonFault(c, q, srv)
                       \/ c = "MISSING_IMAGE" /\ ~img.present
                       \/ img.sniffed /\ SizeFault(c, img, srv)
                       \/ c \in Codes(decode)
                       \/ c = HttpOutcome(img.outcome) /\ img.outcome # "ok"
<1>1. PICK gate, pre, decode, inference, u :
        /\ gate = RoutingChecks(Override(q), ImageSpec(srv), srv)
                       \o RpcOptionChecks(Flags(q), srv) \o RpcBackendChecks(Flags(q), srv)
        /\ pre = PreCheck(img, srv) /\ inference = RpcInference(img.outcome)
        /\ decode = IF srv.gpu /\ img.jpeg THEN DeviceChecks(img, srv) ELSE HostChecks(img, srv)
        /\ u = IF img.present THEN Accepted ELSE "MISSING_IMAGE"
  OBVIOUS
<1>2. Message(q).routing = Override(q) /\ Message(q).flags = Flags(q)
      /\ Message(q).image = TRUE /\ Message(q).body = 0
  BY DEF Message
<1>3. RecognizeChecks(Message(q), img, srv) = (gate \o ((<<u>> \o pre) \o decode)) \o inference
  <2>1. ~(Message(q).body > 0)
    BY <1>2
  <2>2. Check(Message(q).image /\ img.present, "MISSING_IMAGE") = u
    BY <1>1, <1>2 DEF Check
  <2> QED BY <1>1, <1>2, <2>1, <2>2, Zenon DEF RecognizeChecks, RpcImageChecks
<1>4. IsList(gate) /\ \A c : c \in Codes(gate) <=> CommonFault(c, q, srv)
  BY <1>1, RpcGate
<1>5. IsList(<<u>>) /\ \A c : c \in Codes(<<u>>) <=> c = "MISSING_IMAGE" /\ ~img.present
  <2>1. \A c : c # Accepted /\ c = u <=> c = "MISSING_IMAGE" /\ ~img.present
    BY <1>1 DEF Accepted
  <2> QED BY <2>1, OneCode
<1>6. IsList(pre) /\ \A c : c \in Codes(pre) <=> img.sniffed /\ SizeFault(c, img, srv)
  BY <1>1, PreCodes
<1>7. decode \in {HostChecks(img, srv), DeviceChecks(img, srv)} /\ IsList(decode)
  BY <1>1, HostCodes, DeviceCodes
<1>8. IsList(inference) /\ \A c : c \in Codes(inference) <=> c = HttpOutcome(img.outcome) /\ img.outcome # "ok"
  <2>1. img.outcome \in Outcomes
    BY DEF ImageType, Outcomes
  <2> QED BY <1>1, <2>1, InferenceCodes
<1>9. PICK image : image = (<<u>> \o pre) \o decode
  OBVIOUS
<1>10. IsList(image) /\ \A c : c \in Codes(image) <=> c \in Codes(<<u>>) \/ c \in Codes(pre) \/ c \in Codes(decode)
  BY <1>5, <1>6, <1>7, <1>9, CodesOfThree
<1>11. /\ IsList((gate \o image) \o inference)
       /\ \A c : c \in Codes((gate \o image) \o inference) <=>
                   c \in Codes(gate) \/ c \in Codes(image) \/ c \in Codes(inference)
  BY <1>4, <1>8, <1>10, CodesOfThree
<1>12. RecognizeChecks(Message(q), img, srv) = (gate \o image) \o inference
  BY <1>3, <1>9, Zenon
<1>13. ASSUME NEW c
       PROVE  c \in Codes((gate \o image) \o inference) <=>
                       \/ CommonFault(c, q, srv)
                       \/ c = "MISSING_IMAGE" /\ ~img.present
                       \/ img.sniffed /\ SizeFault(c, img, srv)
                       \/ c \in Codes(decode)
                       \/ c = HttpOutcome(img.outcome) /\ img.outcome # "ok"
  BY <1>4, <1>5, <1>6, <1>8, <1>10, <1>11
<1> QED BY <1>7, <1>11, <1>12, <1>13, Zenon

\* What /ocr/raw refuses of such a request.
LEMMA RawCodes ==
  ASSUME NEW q, Plain(q), NEW srv \in ServerType, NEW img \in ImageType
  PROVE  \E decode \in {HostChecks(img, srv), DeviceChecks(img, srv)} :
           /\ IsList(RawChecks(q, img, srv))
           /\ \A c : c \in Codes(RawChecks(q, img, srv)) <=>
                       \/ CommonFault(c, q, srv)
                       \/ c = "EMPTY_BODY" /\ ~img.present
                       \/ img.sniffed /\ SizeFault(c, img, srv)
                       \/ c \in Codes(decode)
                       \/ c = HttpOutcome(img.outcome) /\ img.outcome # "ok"
<1>1. PICK gate, pre, decode, inference, u :
        /\ gate = GateChecks(q, ImageSpec(srv), srv, FALSE)
        /\ pre = PreCheck(img, srv) /\ inference = HttpInference(img.outcome)
        /\ decode = IF srv.gpu /\ srv.nvjpeg /\ img.jpeg /\ WantsText(q)
                    THEN DeviceChecks(img, srv) ELSE HostChecks(img, srv)
        /\ u = IF img.present THEN Accepted ELSE "EMPTY_BODY"
  OBVIOUS
<1>2. RawChecks(q, img, srv) = (((<<u>> \o gate) \o pre) \o decode) \o inference
  BY <1>1, Zenon DEF RawChecks, RawDecode, Check
<1>3. IsList(gate) /\ \A c : c \in Codes(gate) <=> CommonFault(c, q, srv)
  BY <1>1, PlainGate
<1>4. IsList(<<u>>) /\ \A c : c \in Codes(<<u>>) <=> c = "EMPTY_BODY" /\ ~img.present
  <2>1. \A c : c # Accepted /\ c = u <=> c = "EMPTY_BODY" /\ ~img.present
    BY <1>1 DEF Accepted
  <2> QED BY <2>1, OneCode
<1>5. IsList(pre) /\ \A c : c \in Codes(pre) <=> img.sniffed /\ SizeFault(c, img, srv)
  BY <1>1, PreCodes
<1>6. decode \in {HostChecks(img, srv), DeviceChecks(img, srv)} /\ IsList(decode)
  BY <1>1, HostCodes, DeviceCodes
<1>7. IsList(inference) /\ \A c : c \in Codes(inference) <=> c = HttpOutcome(img.outcome) /\ img.outcome # "ok"
  <2>1. img.outcome \in Outcomes
    BY DEF ImageType, Outcomes
  <2> QED BY <1>1, <2>1, InferenceCodes
<1>8. PICK t : t = <<u>>
  OBVIOUS
<1>9. IsList((((t \o gate) \o pre) \o decode) \o inference)
  BY <1>3, <1>4, <1>5, <1>6, <1>7, <1>8, CodesOfFive
<1>10. ASSUME NEW c
       PROVE  c \in Codes((((t \o gate) \o pre) \o decode) \o inference) <=>
                       \/ CommonFault(c, q, srv)
                       \/ c = "EMPTY_BODY" /\ ~img.present
                       \/ img.sniffed /\ SizeFault(c, img, srv)
                       \/ c \in Codes(decode)
                       \/ c = HttpOutcome(img.outcome) /\ img.outcome # "ok"
  <2>1. c \in Codes((((t \o gate) \o pre) \o decode) \o inference) <=>
          \/ c \in Codes(t) \/ c \in Codes(gate) \/ c \in Codes(pre) \/ c \in Codes(decode)
          \/ c \in Codes(inference)
    BY <1>3, <1>4, <1>5, <1>6, <1>7, <1>8, CodesOfFive
  <2> QED BY <1>3, <1>4, <1>5, <1>7, <1>8, <2>1
<1> QED BY <1>2, <1>6, <1>8, <1>9, <1>10, Zenon

\* What /ocr refuses of such a request.
LEMMA Base64Codes ==
  ASSUME NEW q, Plain(q), NEW srv \in ServerType, NEW img \in ImageType
  PROVE  /\ IsList(Base64Checks(q, PlainBody, img, srv))
         /\ \A c : c \in Codes(Base64Checks(q, PlainBody, img, srv)) <=>
                       \/ CommonFault(c, q, srv)
                       \/ c = "MISSING_IMAGE" /\ ~img.present
                       \/ img.sniffed /\ SizeFault(c, img, srv)
                       \/ c \in Codes(HostChecks(img, srv))
                       \/ c = HttpOutcome(img.outcome) /\ img.outcome # "ok"
<1>1. PICK gate, routing, pre, decode, inference, u, body, named :
        /\ gate = GateChecks(q, ImageSpec(srv), srv, FALSE)
        /\ routing = RoutingChecks(NoRouting, ImageSpec(srv), srv)
        /\ pre = PreCheck(img, srv) /\ inference = HttpInference(img.outcome)
        /\ decode = HostChecks(img, srv)
        /\ u = IF img.present THEN Accepted ELSE "MISSING_IMAGE"
        /\ body = <<Accepted, u>> /\ named = <<Accepted>>
  OBVIOUS
<1>2. /\ PlainBody.json /\ PlainBody.base64 /\ PlainBody.routing = NoRouting
  BY DEF PlainBody
<1>3. Base64Checks(q, PlainBody, img, srv) =
        (((((gate \o body) \o routing) \o named) \o pre) \o decode) \o inference
  BY <1>1, <1>2, Zenon DEF Base64Checks, Check
<1>4. IsList(gate) /\ \A c : c \in Codes(gate) <=> CommonFault(c, q, srv)
  BY <1>1, PlainGate
<1>5. IsList(body) /\ \A c : c \in Codes(body) <=> c = "MISSING_IMAGE" /\ ~img.present
  <2>1. \A c : c # Accepted /\ c \in {Accepted, u} <=> c = "MISSING_IMAGE" /\ ~img.present
    BY <1>1 DEF Accepted
  <2>2. /\ IsList(<<Accepted, u>>)
        /\ \A c : c \in Codes(<<Accepted, u>>) <=> c # Accepted /\ c \in {Accepted, u}
    BY CodesOfFew
  <2> QED BY <1>1, <2>1, <2>2
<1>6. IsList(routing) /\ \A c : c \notin Codes(routing)
  <2>1. IsList(routing) /\ \A c : c \in Codes(routing) <=> RoutingFault(c, NoRouting, ImageSpec(srv).routing, srv)
    BY <1>1, RoutingCodes
  <2>2. NoRouting.table = NoName /\ NoRouting.formula = NoName
    BY DEF NoRouting
  <2> QED BY <2>1, <2>2 DEF RoutingFault
<1>7. IsList(named) /\ \A c : c \notin Codes(named)
  BY <1>1, OneCode
<1>8. IsList(pre) /\ \A c : c \in Codes(pre) <=> img.sniffed /\ SizeFault(c, img, srv)
  BY <1>1, PreCodes
<1>9. IsList(decode)
  BY <1>1, HostCodes
<1>10. IsList(inference) /\ \A c : c \in Codes(inference) <=> c = HttpOutcome(img.outcome) /\ img.outcome # "ok"
  <2>1. img.outcome \in Outcomes
    BY DEF ImageType, Outcomes
  <2> QED BY <1>1, <2>1, InferenceCodes
<1>11. PICK all : all = (((((gate \o body) \o routing) \o named) \o pre) \o decode) \o inference
  OBVIOUS
<1>12. IsList(all) /\ \A c : c \in Codes(all) <=>
            \/ c \in Codes(gate) \/ c \in Codes(body) \/ c \in Codes(routing) \/ c \in Codes(named)
            \/ c \in Codes(pre) \/ c \in Codes(decode) \/ c \in Codes(inference)
  <2>1. PICK k : k = (((gate \o body) \o routing) \o named) \o pre
    OBVIOUS
  <2>2. IsList(k)
    BY <1>4, <1>5, <1>6, <1>7, <1>8, <2>1, CodesOfFive
  <2>3. \A c : c \in Codes(k) <=>
            \/ c \in Codes(gate) \/ c \in Codes(body) \/ c \in Codes(routing) \/ c \in Codes(named)
            \/ c \in Codes(pre)
    BY <1>4, <1>5, <1>6, <1>7, <1>8, <2>1, CodesOfFive
  <2>4. all = (k \o decode) \o inference
    BY <1>11, <2>1
  <2>5. /\ IsList(all)
        /\ \A c : c \in Codes(all) <=> c \in Codes(k) \/ c \in Codes(decode) \/ c \in Codes(inference)
    BY <1>9, <1>10, <2>2, <2>4, CodesOfThree
  <2> QED BY <2>3, <2>5
<1>13. ASSUME NEW c
       PROVE  c \in Codes(all) <=>
                       \/ CommonFault(c, q, srv)
                       \/ c = "MISSING_IMAGE" /\ ~img.present
                       \/ img.sniffed /\ SizeFault(c, img, srv)
                       \/ c \in Codes(decode)
                       \/ c = HttpOutcome(img.outcome) /\ img.outcome # "ok"
  BY <1>4, <1>5, <1>6, <1>7, <1>8, <1>10, <1>12
<1> QED BY <1>1, <1>3, <1>11, <1>12, <1>13

\* What is run, and what the answer says of it.
LEMMA SameRun ==
  ASSUME NEW q, Plain(q), NEW routing
  PROVE  StageRun(Options(RpcWants(Flags(q)), "layout_only" \notin Flags(q)), routing)
           = StageRun(ParsedOptions(q), routing)
<1>1. RpcWants(Flags(q)) = Closure(Asked(q)) /\ ("layout_only" \in Flags(q) <=> ~WantsText(q))
  BY PlainFacts
<1>2. CASE WantsText(q)
  BY <1>1, <1>2 DEF StageRun, Options, ParsedOptions
<1>3. CASE ~WantsText(q)
  BY <1>1, <1>3 DEF StageRun, Options, ParsedOptions
<1> QED BY <1>2, <1>3

\* A body without a route changes no route.
LEMMA AppliedIs == ASSUME NEW over PROVE Applied(NoRouting, over) = [table |-> over.table, formula |-> over.formula]
BY DEF Applied, NoRouting

\* The output has only what there is to show.
LEMMA OutShown ==
  ASSUME NEW run, NEW found \in SUBSET Shown
  PROVE  Output(run, found) \in SUBSET Shown /\ Output(run, found) \subseteq found
BY DEF Output

\* Both transports answer with the same keys.
LEMMA SameKeys ==
  ASSUME NEW q, Plain(q), NEW srv, srv.json, NEW out \in SUBSET Shown
  PROVE  /\ InferKeys(out, On(q, "as_blocks")) = PipelineKeys(out, On(q, "as_blocks"))
         /\ ResponseKeys(out, "as_blocks" \in Flags(q), srv) = PipelineKeys(out, On(q, "as_blocks"))
<1>1. "as_blocks" \in Flags(q) <=> On(q, "as_blocks")
  <2>1. Flags(q) \cap Features = Asked(q)
    BY PlainFacts
  <2> QED BY <2>1 DEF Asked, Features
<1>2. PICK blocks : blocks = IF On(q, "as_blocks") /\ {"layout", "reading_order"} \subseteq out
                             THEN {"blocks"} ELSE {}
  OBVIOUS
<1>3. PipelineKeys(out, On(q, "as_blocks")) = ({"results"} \cup out) \cup blocks
  BY <1>2 DEF PipelineKeys, Blocks
<1>4. ResponseKeys(out, "as_blocks" \in Flags(q), srv) = ({"results"} \cup out) \cup blocks
  BY <1>1, <1>2 DEF ResponseKeys, PipelineKeys, Blocks
<1>5. CASE Rich(out)
  BY <1>3, <1>4, <1>5 DEF InferKeys
<1>6. CASE ~Rich(out)
  <2>1. out \subseteq {"layout", "reading_order"}
    BY <1>6 DEF Rich, Shown
  <2>2. InferKeys(out, On(q, "as_blocks")) =
          (({"results"} \cup (out \cap {"layout"})) \cup (out \cap {"reading_order"})) \cup blocks
    BY <1>2, <1>6 DEF InferKeys, ResultsKeys, TextKeys, Blocks
  <2> QED BY <1>3, <1>4, <2>1, <2>2
<1> QED BY <1>5, <1>6

\* The answer of the call to a message with an image, and of both endpoints that take one.
LEMMA RecognizeIs ==
  ASSUME NEW q, Plain(q), NEW srv \in ServerType, srv.json, NEW img \in ImageType
  PROVE  LET run == StageRun(ParsedOptions(q), Applied(Override(q), NoRouting))
         IN  Recognize(Message(q), img, srv) =
               Replied(RecognizeChecks(Message(q), img, srv), run,
                       PipelineKeys(Output(run, img.found), On(q, "as_blocks")), {})
<1>1. Message(q).routing = Override(q) /\ Message(q).flags = Flags(q)
  BY DEF Message
<1>2. PICK run : run = StageRun(ParsedOptions(q), Applied(Override(q), NoRouting))
  OBVIOUS
<1>3. StageRun(Options(RpcWants(Flags(q)), "layout_only" \notin Flags(q)),
               Applied(Override(q), NoRouting)) = run
  BY <1>2, SameRun
<1>4. PICK out : out = Output(run, img.found)
  OBVIOUS
<1>5. ResponseKeys(out, "as_blocks" \in Flags(q), srv) = PipelineKeys(out, On(q, "as_blocks"))
  <2>1. img.found \in SUBSET Shown
    BY DEF ImageType
  <2>2. out \in SUBSET Shown
    BY <1>4, <2>1, OutShown
  <2> QED BY <2>2, SameKeys
<1> QED BY <1>1, <1>2, <1>3, <1>4, <1>5, Zenon DEF Recognize

\* One image, by both transports.
LEMMA ImageAlike ==
  ASSUME NEW q, Plain(q), NEW srv \in ServerType, srv.json, NEW img \in ImageType
  PROVE  /\ Alike(Raw(q, img, srv), RawChecks(q, img, srv), Recognize(Message(q), img, srv))
         /\ Alike(Base64(q, PlainBody, img, srv), Base64Checks(q, PlainBody, img, srv),
                  Recognize(Message(q), img, srv))
<1>1. PICK run : run = StageRun(ParsedOptions(q), Applied(Override(q), NoRouting))
  OBVIOUS
<1>2. PICK out, keys : out = Output(run, img.found) /\ keys = PipelineKeys(out, On(q, "as_blocks"))
  OBVIOUS
<1>3. PICK r, h, b : /\ r = RecognizeChecks(Message(q), img, srv) /\ h = RawChecks(q, img, srv)
                     /\ b = Base64Checks(q, PlainBody, img, srv)
  OBVIOUS
<1>4. Recognize(Message(q), img, srv) = Replied(r, run, keys, {})
  BY <1>1, <1>2, <1>3, RecognizeIs
<1>5. out \in SUBSET Shown
  <2>1. img.found \in SUBSET Shown
    BY DEF ImageType
  <2> QED BY <1>2, <2>1, OutShown
<1>6. InferKeys(out, On(q, "as_blocks")) = keys
  BY <1>2, <1>5, SameKeys
<1>7. Raw(q, img, srv) = Replied(h, run, keys, Ignored(q, ImageSpec(srv)))
  <2>1. (IF srv.gpu THEN PipelineKeys(out, On(q, "as_blocks"))
                    ELSE InferKeys(out, On(q, "as_blocks"))) = keys
    BY <1>2, <1>6, Zenon
  <2> QED BY <1>1, <1>2, <1>3, <2>1, Zenon DEF Raw
<1>8. Base64(q, PlainBody, img, srv) = Replied(b, run, keys, Ignored(q, ImageSpec(srv)))
  <2>1. PICK over : over = Applied(Override(q), NoRouting)
    OBVIOUS
  <2>2. over = [table |-> over.table, formula |-> over.formula]
    BY <2>1 DEF Applied, NoRouting
  <2>3. PlainBody.routing = NoRouting
    BY DEF PlainBody
  <2>4. Applied(NoRouting, over) = over
    BY <2>2, AppliedIs
  <2>5. StageRun(ParsedOptions(q), Applied(PlainBody.routing, Applied(Override(q), NoRouting))) = run
    BY <1>1, <2>1, <2>3, <2>4, Zenon
  <2> QED BY <1>2, <1>3, <1>6, <2>5, Zenon DEF Base64
<1>9. PICK x \in {HostChecks(img, srv), DeviceChecks(img, srv)} :
           /\ IsList(r)
           /\ \A c : c \in Codes(r) <=>
                       \/ CommonFault(c, q, srv)
                       \/ c = "MISSING_IMAGE" /\ ~img.present
                       \/ img.sniffed /\ SizeFault(c, img, srv)
                       \/ c \in Codes(x)
                       \/ c = HttpOutcome(img.outcome) /\ img.outcome # "ok"
  BY <1>3, RecognizeCodes
<1>10. PICK y \in {HostChecks(img, srv), DeviceChecks(img, srv)} :
           /\ IsList(h)
           /\ \A c : c \in Codes(h) <=>
                       \/ CommonFault(c, q, srv)
                       \/ c = "EMPTY_BODY" /\ ~img.present
                       \/ img.sniffed /\ SizeFault(c, img, srv)
                       \/ c \in Codes(y)
                       \/ c = HttpOutcome(img.outcome) /\ img.outcome # "ok"
  BY <1>3, RawCodes
<1>11. PICK z \in {HostChecks(img, srv), DeviceChecks(img, srv)} :
           /\ IsList(b)
           /\ \A c : c \in Codes(b) <=>
                       \/ CommonFault(c, q, srv)
                       \/ c = "MISSING_IMAGE" /\ ~img.present
                       \/ img.sniffed /\ SizeFault(c, img, srv)
                       \/ c \in Codes(z)
                       \/ c = HttpOutcome(img.outcome) /\ img.outcome # "ok"
  BY <1>3, Base64Codes
<1>12. \A s, t \in {x, y, z} : \A c \in Codes(s) : \E d \in Codes(t) : Condition(c) = Condition(d)
  BY DecodersAgree
<1>13. Condition("EMPTY_BODY") = Condition("MISSING_IMAGE")
  BY SameCondition
<1>14. \A c \in Codes(h) : \E d \in Codes(r) : Condition(c) = Condition(d)
  BY <1>9, <1>10, <1>12, <1>13
<1>15. \A d \in Codes(r) : \E c \in Codes(h) : Condition(c) = Condition(d)
  BY <1>9, <1>10, <1>12, <1>13
<1>16. \A c \in Codes(b) : \E d \in Codes(r) : Condition(c) = Condition(d)
  BY <1>9, <1>11, <1>12
<1>17. \A d \in Codes(r) : \E c \in Codes(b) : Condition(c) = Condition(d)
  BY <1>9, <1>11, <1>12
<1>18. Alike(Replied(h, run, keys, Ignored(q, ImageSpec(srv))), h, Replied(r, run, keys, {}))
  BY <1>9, <1>10, <1>14, <1>15, AlikeWhen
<1>19. Alike(Replied(b, run, keys, Ignored(q, ImageSpec(srv))), b, Replied(r, run, keys, {}))
  BY <1>9, <1>11, <1>16, <1>17, AlikeWhen
<1> QED BY <1>3, <1>4, <1>7, <1>8, <1>18, <1>19

\* The checks after a list that finds nothing.
LEMMA FirstAfter ==
  ASSUME NEW a, IsList(a), Codes(a) = {}, NEW b, IsList(b)
  PROVE  FirstFault(a \o b) = FirstFault(b)
<1>1. PICK S, T : a \in Seq(S) /\ b \in Seq(T)
  BY DEF IsList
<1>2. PICK U : U = S \cup T
  OBVIOUS
<1>3. a \in Seq(U) /\ b \in Seq(U)
  BY <1>1, <1>2
<1>4. PICK l : l = a \o b
  OBVIOUS
<1>5. l \in Seq(U)
  BY <1>3, <1>4
<1>6. PICK m, n \in Nat : m = Len(a) /\ n = Len(b)
  BY <1>3
<1>7. /\ DOMAIN l = 1 .. m + n /\ DOMAIN a = 1 .. m /\ DOMAIN b = 1 .. n
      /\ \A i \in 1 .. m : l[i] = a[i]
      /\ \A i \in 1 .. n : l[m + i] = b[i]
  BY <1>3, <1>4, <1>6
<1>8. IsList(l) /\ \A c : c \in Codes(l) <=> c \in Codes(a) \/ c \in Codes(b)
  BY <1>4, CodesOfBoth
<1>9. CASE Codes(b) = {}
  <2>1. Codes(l) = {}
    BY <1>8, <1>9
  <2>2. FirstFault(l) = Accepted /\ FirstFault(b) = Accepted
    BY <1>8, <1>9, <2>1, FirstOfCodes
  <2> QED BY <1>4, <2>2
<1>10. CASE Codes(b) # {}
  <2>1. PICK refusals : refusals = {i \in DOMAIN b : b[i] # Accepted}
    OBVIOUS
  <2>2. refusals # {} /\ refusals \in SUBSET Nat
    BY <1>7, <1>10, <2>1 DEF Codes
  <2>3. PICK x : x = Min(refusals)
    OBVIOUS
  <2>4. x \in refusals /\ \A y \in refusals : x <= y
    BY <2>2, <2>3, LeastOf
  <2>5. FirstFault(b) = b[x]
    BY <2>1, <2>2, <2>3 DEF FirstFault
  <2>6. x \in 1 .. n /\ b[x] # Accepted
    BY <1>7, <2>1, <2>4
  <2>7. m + x \in DOMAIN l /\ l[m + x] = b[x]
    BY <1>7, <2>6
  <2>8. ASSUME NEW j \in 1 .. (m + x) - 1 PROVE l[j] = Accepted
    <3>1. CASE j <= m
      <4>1. j \in DOMAIN a /\ l[j] = a[j]
        BY <1>7, <3>1
      <4> QED BY <4>1 DEF Codes
    <3>2. CASE j > m
      <4>1. j - m \in 1 .. n /\ j = m + (j - m) /\ j - m < x
        BY <2>6, <3>2
      <4>2. l[j] = b[j - m]
        BY <1>7, <4>1
      <4>3. j - m \notin refusals
        BY <2>4, <2>6, <4>1
      <4> QED BY <1>7, <2>1, <4>1, <4>2, <4>3
    <3> QED BY <3>1, <3>2
  <2>9. FirstFault(l) = l[m + x]
    BY <1>8, <2>6, <2>7, <2>8, FirstAt
  <2> QED BY <1>4, <2>5, <2>7, <2>9
<1> QED BY <1>9, <1>10

\* The first of the checks fails.
LEMMA FirstIs ==
  ASSUME NEW u, u # Accepted, NEW b, IsList(b)
  PROVE  FirstFault(<<u>> \o b) = u
<1>1. IsList(<<u>>)
  BY OneCode
<1>2. PICK S, T : <<u>> \in Seq(S) /\ b \in Seq(T)
  BY <1>1 DEF IsList
<1>3. PICK U : U = S \cup T
  OBVIOUS
<1>4. <<u>> \in Seq(U) /\ b \in Seq(U)
  BY <1>2, <1>3
<1>5. PICK l : l = <<u>> \o b
  OBVIOUS
<1>6. Len(l) = 1 + Len(b) /\ l[1] = u /\ Len(b) \in Nat /\ DOMAIN l = 1 .. Len(l)
  BY <1>4, <1>5
<1>7. 1 \in DOMAIN l
  BY <1>6
<1>8. IsList(l)
  BY <1>1, <1>5, CodesOfBoth
<1>9. \A j \in 1 .. 1 - 1 : l[j] = Accepted
  OBVIOUS
<1>10. FirstFault(l) = l[1]
  BY <1>6, <1>7, <1>8, <1>9, FirstAt
<1> QED BY <1>5, <1>6, <1>10

\* The checks of raw pixels: what the query says with its headers, and what a message says.
LEMMA PayloadIsList ==
  ASSUME NEW w, NEW h, NEW channels, NEW body, NEW srv
  PROVE  IsList(PayloadChecks(w, h, channels, body, srv))
<1>1. PICK u, v, x : PayloadChecks(w, h, channels, body, srv) = <<u, v, x>>
  BY DEF PayloadChecks
<1>2. IsList(<<u, v, x>>)
  BY CodesOfFew
<1> QED BY <1>1, <1>2

LEMMA PixelCodes ==
  ASSUME NEW dims \in [query : Lengths, header : Lengths, body : Nat], Sayable(dims),
         NEW srv \in ServerType, NEW q
  PROVE  LET d == PixelDims(dims.query, dims.header, dims.body, srv).code
             m == PixelMessage(q, dims)
             p == RpcPixelCode(m.width, m.height, m.channels, m.body, srv)
         IN  \/ d = "DIMENSION_CONFLICT"
             \/ ((d = Accepted <=> p = Accepted) /\ Condition(d) = Condition(p))
<1>1. PICK value : value = [n \in PixelDimParams |-> Resolved(dims.query[n], dims.header[n])]
  OBVIOUS
<1>2. PICK w, h, ch, t : /\ w = value["width"] /\ h = value["height"]
                         /\ ch = (IF Absent(value["channels"]) THEN 3 ELSE value["channels"])
                         /\ t = dims.body
  OBVIOUS
<1>3. PICK pl : pl = PayloadChecks(w, h, ch, t, srv)
  OBVIOUS
<1>4. \A n \in PixelDimParams : value[n] = Resolved(dims.query[n], dims.header[n])
  BY <1>1
<1>5. PICK c, a : /\ c = IF \A n \in PixelDimParams : ~Conflict(dims.query[n], dims.header[n])
                         THEN Accepted ELSE "DIMENSION_CONFLICT"
                  /\ a = IF ~Absent(w) /\ ~Absent(h) THEN Accepted ELSE "MISSING_DIMENSIONS"
  OBVIOUS
<1>6. \A n \in PixelDimParams : Garbage \notin {dims.query[n], dims.header[n]}
  BY DEF Sayable
<1>7. "width" \in PixelDimParams /\ "height" \in PixelDimParams /\ "channels" \in PixelDimParams
  BY DEF PixelDimParams
<1>8. /\ Resolved(dims.query["width"], dims.header["width"]) = w
      /\ Resolved(dims.query["height"], dims.header["height"]) = h
      /\ Resolved(dims.query["channels"], dims.header["channels"]) = value["channels"]
  BY <1>2, <1>4, <1>7
<1>9. PICK d : d = FirstFault(<<Accepted, c, a>> \o pl)
  OBVIOUS
<1>10. PixelDims(dims.query, dims.header, dims.body, srv).code = d
  <2>1. Check(\A n \in PixelDimParams : Garbage \notin {dims.query[n], dims.header[n]},
                  "INVALID_DIMENSIONS") = Accepted
    BY <1>6 DEF Check
  <2>2. Check(\A n \in PixelDimParams : ~Conflict(dims.query[n], dims.header[n]),
              "DIMENSION_CONFLICT") = c
    BY <1>5, Zenon DEF Check
  <2>3. Check(~Absent(w) /\ ~Absent(h), "MISSING_DIMENSIONS") = a
    BY <1>5, Zenon DEF Check
  <2>4. (IF Absent(value["channels"]) THEN 3 ELSE value["channels"]) = ch
    BY <1>2, Zenon
  <2>5. PixelDims(dims.query, dims.header, dims.body, srv).code =
          FirstFault(<<Check(\A n \in PixelDimParams : Garbage \notin {dims.query[n], dims.header[n]},
                             "INVALID_DIMENSIONS"),
                       Check(\A n \in PixelDimParams : ~Conflict(dims.query[n], dims.header[n]),
                             "DIMENSION_CONFLICT"),
                       Check(~Absent(Resolved(dims.query["width"], dims.header["width"]))
                               /\ ~Absent(Resolved(dims.query["height"], dims.header["height"])),
                             "MISSING_DIMENSIONS")>>
            \o PayloadChecks(Resolved(dims.query["width"], dims.header["width"]),
                             Resolved(dims.query["height"], dims.header["height"]),
                             IF Absent(Resolved(dims.query["channels"], dims.header["channels"]))
                             THEN 3 ELSE Resolved(dims.query["channels"], dims.header["channels"]),
                             dims.body, srv))
    BY DEF PixelDims
  <2> QED BY <1>2, <1>3, <1>8, <1>9, <2>1, <2>2, <2>3, <2>4, <2>5, Zenon
<1>11. PICK field : field = [n \in PixelDimParams |-> IF Absent(value[n]) THEN 0 ELSE value[n]]
  OBVIOUS
<1>12. PICK m : m = PixelMessage(q, dims)
  OBVIOUS
<1>13. /\ m.width = field["width"] /\ m.height = field["height"] /\ m.channels = field["channels"]
       /\ m.body = t
  BY <1>2, <1>4, <1>7, <1>11, <1>12 DEF PixelMessage, Message
<1>14. PICK ph : ph = IF field["channels"] = 0 THEN 3 ELSE field["channels"]
  OBVIOUS
<1>15. PICK p : p = FirstFault(PayloadChecks(field["width"], field["height"], ph, t, srv))
  OBVIOUS
<1>16. RpcPixelCode(m.width, m.height, m.channels, m.body, srv) = p
  BY <1>13, <1>14, <1>15, Zenon DEF RpcPixelCode
<1>17. ph = ch
  <2>1. value["channels"] # 0
    BY <1>8 DEF Sayable
  <2>2. field["channels"] = IF Absent(value["channels"]) THEN 0 ELSE value["channels"]
    BY <1>7, <1>11
  <2> QED BY <1>2, <1>14, <2>1, <2>2
<1>18. d = "DIMENSION_CONFLICT" \/ ((d = Accepted <=> p = Accepted) /\ Condition(d) = Condition(p))
  <2>1. IsList(pl)
    BY <1>3, PayloadIsList
  <2>5. PICK l : l = <<Accepted, c, a>> \o pl
    OBVIOUS
  <2>6. IsList(<<Accepted, c, a>>)
    BY CodesOfFew
  <2>7. IsList(l)
    BY <2>1, <2>5, <2>6, CodesOfBoth
  <2>8. {1, 2, 3} \subseteq DOMAIN l /\ l[1] = Accepted /\ l[2] = c /\ l[3] = a
    <3>1. PICK S : pl \in Seq(S)
      BY <2>1 DEF IsList
    <3>2. PICK U : U = S \cup {Accepted, c, a}
      OBVIOUS
    <3>3. pl \in Seq(U) /\ Accepted \in U /\ c \in U /\ a \in U
      BY <3>1, <3>2
    <3>4. Len(l) = 3 + Len(pl) /\ l[1] = Accepted /\ l[2] = c /\ l[3] = a
      BY <2>5, <3>3
    <3>5. DOMAIN l = 1 .. Len(l) /\ Len(pl) \in Nat
      BY <2>5, <3>3
    <3> QED BY <3>4, <3>5
  <2>2. CASE c # Accepted
    <3>1. \A j \in 1 .. 2 - 1 : l[j] = Accepted
      BY <2>8
    <3>2. FirstFault(l) = l[2]
      BY <2>2, <2>7, <2>8, <3>1, FirstAt
    <3> QED BY <1>5, <1>9, <2>2, <2>5, <2>8, <3>2
  <2>3. CASE c = Accepted /\ a # Accepted
    <3>1. \A j \in 1 .. 3 - 1 : l[j] = Accepted
      BY <2>3, <2>8
    <3>4. FirstFault(l) = l[3]
      BY <2>3, <2>7, <2>8, <3>1, FirstAt
    <3>6. d = "MISSING_DIMENSIONS"
      BY <1>5, <1>9, <2>3, <2>5, <2>8, <3>4
    <3>7. field["width"] = 0 \/ field["height"] = 0
      BY <1>2, <1>5, <1>7, <1>11, <2>3
    <3>8. PICK v, x : PayloadChecks(field["width"], field["height"], ph, t, srv) =
                        <<"INVALID_DIMENSIONS", v, x>>
      <4>1. ~(field["width"] > 0 /\ field["height"] > 0 /\ ph \in {1, 3})
        BY <3>7
      <4> QED BY <4>1 DEF PayloadChecks, Check
    <3>9. <<"INVALID_DIMENSIONS", v, x>> = <<"INVALID_DIMENSIONS">> \o <<v, x>>
      OBVIOUS
    <3>10. IsList(<<v, x>>) /\ "INVALID_DIMENSIONS" # Accepted
      BY CodesOfFew DEF Accepted
    <3>11. p = "INVALID_DIMENSIONS"
      BY <1>15, <3>8, <3>9, <3>10, FirstIs
    <3> QED BY <3>6, <3>11, SameCondition DEF Accepted
  <2>4. CASE c = Accepted /\ a = Accepted
    <3>1. IsList(<<Accepted, c, a>>) /\ Codes(<<Accepted, c, a>>) = {}
      <4>1. \A z : z \in Codes(<<Accepted, c, a>>) <=> z # Accepted /\ z \in {Accepted, c, a}
        BY CodesOfFew
      <4>2. IsList(<<Accepted, c, a>>)
        BY CodesOfFew
      <4> QED BY <2>4, <4>1, <4>2
    <3>2. d = FirstFault(pl)
      BY <1>9, <2>1, <3>1, FirstAfter
    <3>3. ~Absent(w) /\ ~Absent(h)
      BY <1>5, <2>4 DEF Accepted
    <3>4. field["width"] = w /\ field["height"] = h
      BY <1>2, <1>7, <1>11, <3>3
    <3>5. p = FirstFault(pl)
      BY <1>3, <1>15, <1>17, <3>4
    <3> QED BY <3>2, <3>5
  <2> QED BY <2>2, <2>3, <2>4
<1> QED BY <1>10, <1>12, <1>16, <1>18

\* An answer with 200 says that no check has failed.
LEMMA AcceptedMeans ==
  ASSUME NEW list, IsList(list), NEW run, NEW keys, NEW ignored
  PROVE  LET reply == Replied(list, run, keys, ignored)
         IN  /\ reply.code = Accepted <=> Codes(list) = {}
             /\ reply.code = Accepted =>
                  reply.run = run /\ reply.keys = keys /\ reply.ignored = ignored
<1>1. PICK f : f = FirstFault(list)
  OBVIOUS
<1>2. IF Codes(list) = {} THEN f = Accepted ELSE f \in Codes(list)
  BY <1>1, FirstOfCodes
<1>3. f = Accepted <=> Codes(list) = {}
  BY <1>2 DEF Codes
<1>4. PICK reply : reply = Replied(list, run, keys, ignored)
  OBVIOUS
<1>5. CASE f = Accepted
  <2>1. reply = [code |-> Accepted, run |-> run, keys |-> keys, ignored |-> ignored]
    BY <1>1, <1>4, <1>5 DEF Replied
  <2> QED BY <1>3, <1>4, <1>5, <2>1
<1>6. CASE f # Accepted
  <2>1. reply.code = f
    BY <1>1, <1>4, <1>6 DEF Replied, Refused
  <2> QED BY <1>3, <1>4, <1>6, <2>1
<1> QED BY <1>5, <1>6

\* Pixels that are not there have no size that is right.
LEMMA NoPayload ==
  ASSUME NEW w \in Nat, NEW h \in Nat, NEW channels, NEW srv
  PROVE  FirstFault(PayloadChecks(w, h, channels, 0, srv)) # Accepted
<1>1. PICK u, v, x : /\ u = Check(w > 0 /\ h > 0 /\ channels \in {1, 3}, "INVALID_DIMENSIONS")
                     /\ v = SizeCode(w, h, srv)
                     /\ x = Check(0 = w * h * channels, "BODY_SIZE_MISMATCH")
  OBVIOUS
<1>2. PICK l : l = <<u, v, x>>
  OBVIOUS
<1>3. PayloadChecks(w, h, channels, 0, srv) = l
  BY <1>1, <1>2 DEF PayloadChecks
<1>4. IsList(l) /\ \A c : c \in Codes(l) <=> c # Accepted /\ c \in {u, v, x}
  BY <1>2, CodesOfFew
<1>5. u # Accepted \/ x # Accepted
  <2>1. CASE w > 0 /\ h > 0 /\ channels \in {1, 3}
    <3>1. PICK a \in Nat : a = w * h
      OBVIOUS
    <3>2. a > 0
      BY <2>1, <3>1
    <3>3. w * h * channels # 0
      BY <2>1, <3>1, <3>2
    <3> QED BY <1>1, <3>3 DEF Check, Accepted
  <2>2. CASE ~(w > 0 /\ h > 0 /\ channels \in {1, 3})
    BY <1>1, <2>2 DEF Check, Accepted
  <2> QED BY <2>1, <2>2
<1>6. Codes(l) # {}
  BY <1>4, <1>5
<1>7. FirstFault(l) \in Codes(l)
  BY <1>4, <1>6, FirstOfCodes
<1> QED BY <1>3, <1>4, <1>7

\* A request with no pixels is refused over HTTP and over gRPC.
LEMMA EmptyPixels ==
  ASSUME NEW q, Plain(q), NEW srv \in ServerType, srv.json, NEW img \in ImageType,
         NEW dims \in [query : Lengths, header : Lengths, body : Nat], Sayable(dims), dims.body = 0
  PROVE  /\ Pixels(q, dims, img, srv).code # Accepted
         /\ Recognize(PixelMessage(q, dims), img, srv).code # Accepted
<1>1. PICK m : m = PixelMessage(q, dims)
  OBVIOUS
<1>2. PICK field : field = [n \in PixelDimParams |->
                              IF Absent(Resolved(dims.query[n], dims.header[n])) THEN 0
                              ELSE Resolved(dims.query[n], dims.header[n])]
  OBVIOUS
<1>3. "width" \in PixelDimParams /\ "height" \in PixelDimParams /\ "channels" \in PixelDimParams
  BY DEF PixelDimParams
<1>4. /\ m.width = field["width"] /\ m.height = field["height"] /\ m.channels = field["channels"]
      /\ m.body = 0 /\ m.image = FALSE /\ m.routing = Override(q) /\ m.flags = Flags(q)
  BY <1>1, <1>2, <1>3 DEF PixelMessage, Message
<1>5. ASSUME NEW n \in PixelDimParams PROVE field[n] \in Nat
  <2>1. dims.query[n] \in Nat \cup {None} /\ dims.header[n] \in Nat \cup {None}
    BY <1>5 DEF Lengths, Sayable
  <2> QED BY <1>2, <1>5, <2>1 DEF Resolved, Absent
<1>6. PICK d, p : /\ d = PixelDims(dims.query, dims.header, dims.body, srv).code
                  /\ p = RpcPixelCode(m.width, m.height, m.channels, m.body, srv)
  OBVIOUS
<1>7. d = "DIMENSION_CONFLICT" \/ (d = Accepted <=> p = Accepted)
  BY <1>1, <1>6, PixelCodes
<1>8. p # Accepted
  <2>1. m.width \in Nat /\ m.height \in Nat
    BY <1>3, <1>4, <1>5
  <2>2. PICK c : c = IF m.channels = 0 THEN 3 ELSE m.channels
    OBVIOUS
  <2>3. FirstFault(PayloadChecks(m.width, m.height, c, 0, srv)) # Accepted
    BY <2>1, NoPayload
  <2> QED BY <1>4, <1>6, <2>2, <2>3 DEF RpcPixelCode
<1>9. d # Accepted
  BY <1>7, <1>8 DEF Accepted
<1>10. PICK gate, inf : gate = GateChecks(q, PixelsSpec(srv), srv, FALSE) /\ inf = HttpInference(img.outcome)
  OBVIOUS
<1>11. IsList(gate) /\ IsList(inf)
  <2>1. img.outcome \in Outcomes
    BY DEF ImageType, Outcomes
  <2> QED BY <1>10, <2>1, PlainGate, InferenceCodes
<1>12. PICK list : list = PixelsChecks(q, dims, img, srv)
  OBVIOUS
<1>13. IsList(list) /\ d \in Codes(list)
  <2>1. PICK one : one = <<d>>
    OBVIOUS
  <2>2. IsList(one) /\ d \in Codes(one)
    BY <1>9, <2>1, OneCode
  <2>3. list = (gate \o one) \o inf
    BY <1>6, <1>10, <1>12, <2>1, Zenon DEF PixelsChecks
  <2> QED BY <1>11, <2>2, <2>3, CodesOfThree
<1>14. Pixels(q, dims, img, srv).code # Accepted
  <2>1. PICK run, keys, ign : Pixels(q, dims, img, srv) = Replied(list, run, keys, ign)
    BY <1>12, Zenon DEF Pixels
  <2>2. Codes(list) # {}
    BY <1>13
  <2> QED BY <1>13, <2>1, <2>2, AcceptedMeans
<1>15. PICK rpc, pre, decode, out :
         /\ rpc = RoutingChecks(Override(q), ImageSpec(srv), srv)
                    \o RpcOptionChecks(Flags(q), srv) \o RpcBackendChecks(Flags(q), srv)
         /\ pre = PreCheck(img, srv) /\ out = RpcInference(img.outcome)
         /\ decode = IF srv.gpu /\ img.jpeg THEN DeviceChecks(img, srv) ELSE HostChecks(img, srv)
  OBVIOUS
<1>16. /\ IsList(rpc) /\ IsList(pre) /\ IsList(decode) /\ IsList(out)
  <2>1. img.outcome \in Outcomes
    BY DEF ImageType, Outcomes
  <2>2. IsList(rpc)
    BY <1>15, RpcGate
  <2>3. IsList(pre) /\ IsList(decode)
    BY <1>15, PreCodes, HostCodes, DeviceCodes
  <2> QED BY <1>15, <2>1, <2>2, <2>3, InferenceCodes
<1>17. PICK one, mid : one = <<"MISSING_IMAGE">> /\ mid = (one \o pre) \o decode
  OBVIOUS
<1>18. PICK r : r = RecognizeChecks(m, img, srv)
  OBVIOUS
<1>19. r = (rpc \o mid) \o out
  <2>1. ~(m.body > 0)
    BY <1>4
  <2>2. Check(m.image /\ img.present, "MISSING_IMAGE") = "MISSING_IMAGE"
    BY <1>4 DEF Check
  <2> QED BY <1>4, <1>15, <1>17, <1>18, <2>1, <2>2, Zenon DEF RecognizeChecks, RpcImageChecks
<1>20. IsList(one) /\ "MISSING_IMAGE" \in Codes(one)
  BY <1>17, OneCode DEF Accepted
<1>21. IsList(mid) /\ "MISSING_IMAGE" \in Codes(mid)
  BY <1>16, <1>17, <1>20, CodesOfThree
<1>22. IsList(r) /\ Codes(r) # {}
  BY <1>16, <1>19, <1>21, CodesOfThree
<1>23. Recognize(m, img, srv).code # Accepted
  <2>1. PICK run, keys : Recognize(m, img, srv) = Replied(r, run, keys, {})
    BY <1>18, Zenon DEF Recognize
  <2> QED BY <1>22, <2>1, AcceptedMeans
<1> QED BY <1>1, <1>14, <1>23

\* Two codes with a condition of their own.
LEMMA OwnConditions ==
  /\ \A c : Condition(c) = Condition("DIMENSION_CONFLICT") => c = "DIMENSION_CONFLICT"
  /\ \A c : Condition(c) = Condition(Accepted) => c = Accepted
BY DEF Condition, Accepted

\* Raw pixels, by both transports.
LEMMA PixelsAlike ==
  ASSUME NEW q, Plain(q), NEW srv \in ServerType, srv.json, NEW img \in ImageType,
         NEW dims \in [query : Lengths, header : Lengths, body : Nat], Sayable(dims),
         dims.body # 0, Pixels(q, dims, img, srv).code # "DIMENSION_CONFLICT"
  PROVE  Alike(Pixels(q, dims, img, srv), PixelsChecks(q, dims, img, srv),
               Recognize(PixelMessage(q, dims), img, srv))
<1>1. PICK run : run = StageRun(ParsedOptions(q), Applied(Override(q), NoRouting))
  OBVIOUS
<1>2. PICK out, keys, ign : /\ out = Output(run, img.found)
                            /\ keys = PipelineKeys(out, On(q, "as_blocks"))
                            /\ ign = Ignored(q, PixelsSpec(srv))
  OBVIOUS
<1>3. PICK m : m = PixelMessage(q, dims)
  OBVIOUS
<1>4. m.routing = Override(q) /\ m.flags = Flags(q) /\ m.body > 0
  BY <1>3 DEF PixelMessage, Message
<1>5. PICK d, p : /\ d = PixelDims(dims.query, dims.header, dims.body, srv).code
                  /\ p = RpcPixelCode(m.width, m.height, m.channels, m.body, srv)
  OBVIOUS
<1>6. d = "DIMENSION_CONFLICT" \/ ((d = Accepted <=> p = Accepted) /\ Condition(d) = Condition(p))
  BY <1>3, <1>5, PixelCodes
<1>7. PICK gate, rpc, inf : /\ gate = GateChecks(q, PixelsSpec(srv), srv, FALSE)
                            /\ rpc = RoutingChecks(Override(q), ImageSpec(srv), srv)
                                       \o RpcOptionChecks(Flags(q), srv) \o RpcBackendChecks(Flags(q), srv)
                            /\ inf = HttpInference(img.outcome)
  OBVIOUS
<1>8. /\ IsList(gate) /\ IsList(rpc)
      /\ \A c : c \in Codes(gate) <=> CommonFault(c, q, srv)
      /\ \A c : c \in Codes(rpc) <=> CommonFault(c, q, srv)
  BY <1>7, PlainGate, RpcGate
<1>9. /\ IsList(inf) /\ RpcInference(img.outcome) = inf
      /\ \A c : c \in Codes(inf) <=> c = HttpOutcome(img.outcome) /\ img.outcome # "ok"
  <2>1. img.outcome \in Outcomes
    BY DEF ImageType, Outcomes
  <2> QED BY <1>7, <2>1, InferenceCodes
<1>10. PICK h, r : h = (gate \o <<d>>) \o inf /\ r = (rpc \o <<p>>) \o inf
  OBVIOUS
<1>11. PixelsChecks(q, dims, img, srv) = h
  BY <1>5, <1>7, <1>10, Zenon DEF PixelsChecks
<1>12. RecognizeChecks(m, img, srv) = r
  BY <1>4, <1>5, <1>7, <1>9, <1>10, Zenon DEF RecognizeChecks, RpcImageChecks
<1>13. /\ IsList(<<d>>) /\ IsList(<<p>>)
       /\ \A c : c \in Codes(<<d>>) <=> c # Accepted /\ c = d
       /\ \A c : c \in Codes(<<p>>) <=> c # Accepted /\ c = p
  <2>1. IsList(<<d>>) /\ \A c : c \in Codes(<<d>>) <=> c # Accepted /\ c = d
    BY OneCode
  <2>2. IsList(<<p>>) /\ \A c : c \in Codes(<<p>>) <=> c # Accepted /\ c = p
    BY OneCode
  <2> QED BY <2>1, <2>2
<1>14. IsList(h) /\ \A c : c \in Codes(h) <=> c \in Codes(gate) \/ c \in Codes(<<d>>) \/ c \in Codes(inf)
  <2>1. PICK one : one = <<d>>
    OBVIOUS
  <2>2. IsList(gate) /\ IsList(one) /\ IsList(inf)
    BY <1>8, <1>9, <1>13, <2>1
  <2>3. /\ IsList((gate \o one) \o inf)
        /\ \A c : c \in Codes((gate \o one) \o inf) <=>
                    c \in Codes(gate) \/ c \in Codes(one) \/ c \in Codes(inf)
    BY <2>2, CodesOfThree
  <2> QED BY <1>10, <2>1, <2>3
<1>15. IsList(r) /\ \A c : c \in Codes(r) <=> c \in Codes(rpc) \/ c \in Codes(<<p>>) \/ c \in Codes(inf)
  <2>1. PICK one : one = <<p>>
    OBVIOUS
  <2>2. IsList(rpc) /\ IsList(one) /\ IsList(inf)
    BY <1>8, <1>9, <1>13, <2>1
  <2>3. /\ IsList((rpc \o one) \o inf)
        /\ \A c : c \in Codes((rpc \o one) \o inf) <=>
                    c \in Codes(rpc) \/ c \in Codes(one) \/ c \in Codes(inf)
    BY <2>2, CodesOfThree
  <2> QED BY <1>10, <2>1, <2>3
<1>16. Recognize(m, img, srv) = Replied(r, run, keys, {})
  <2>1. StageRun(Options(RpcWants(Flags(q)), "layout_only" \notin Flags(q)),
                 Applied(Override(q), NoRouting)) = run
    BY <1>1, SameRun
  <2>2. out \in SUBSET Shown
    <3>1. img.found \in SUBSET Shown
      BY DEF ImageType
    <3> QED BY <1>2, <3>1, OutShown
  <2>3. ResponseKeys(out, "as_blocks" \in Flags(q), srv) = keys
    BY <1>2, <2>2, SameKeys
  <2> QED BY <1>2, <1>4, <1>12, <2>1, <2>3, Zenon DEF Recognize
<1>17. Pixels(q, dims, img, srv) = Replied(h, run, keys, ign)
  <2>1. out \in SUBSET Shown
    <3>1. img.found \in SUBSET Shown
      BY DEF ImageType
    <3> QED BY <1>2, <3>1, OutShown
  <2>2. InferKeys(out, On(q, "as_blocks")) = keys
    BY <1>2, <2>1, SameKeys
  <2>3. (IF srv.gpu THEN PipelineKeys(out, On(q, "as_blocks"))
                    ELSE InferKeys(out, On(q, "as_blocks"))) = keys
    BY <1>2, <2>2, Zenon
  <2> QED BY <1>1, <1>2, <1>11, <2>3, Zenon DEF Pixels
<1>18. CASE d # "DIMENSION_CONFLICT"
  <2>1. (d = Accepted <=> p = Accepted) /\ Condition(d) = Condition(p)
    BY <1>6, <1>18
  <2>2. \A c \in Codes(h) : \E e \in Codes(r) : Condition(c) = Condition(e)
    BY <1>8, <1>13, <1>14, <1>15, <2>1
  <2>3. \A e \in Codes(r) : \E c \in Codes(h) : Condition(c) = Condition(e)
    BY <1>8, <1>13, <1>14, <1>15, <2>1
  <2>4. Alike(Replied(h, run, keys, ign), h, Replied(r, run, keys, {}))
    BY <1>14, <1>15, <2>2, <2>3, AlikeWhen
  <2> QED BY <1>3, <1>11, <1>16, <1>17, <2>4
<1>19. CASE d = "DIMENSION_CONFLICT"
  <2>1. d # Accepted /\ d \in Codes(h)
    BY <1>13, <1>14, <1>19 DEF Accepted
  <2>2. PICK f, g : f = FirstFault(h) /\ g = FirstFault(r)
    OBVIOUS
  <2>3. f \in Codes(h)
    BY <1>14, <2>1, <2>2, FirstOfCodes
  <2>4. f # Accepted
    BY <2>3 DEF Codes
  <2>5. Pixels(q, dims, img, srv).code = f
    BY <1>17, <2>2, <2>4 DEF Replied, Refused
  <2>6. f # d
    BY <1>19, <2>5
  <2>7. Codes(gate) # {}
    <3>1. ASSUME Codes(gate) = {} PROVE FALSE
      <4>1. PICK k : k = gate \o <<d>>
        OBVIOUS
      <4>2. FirstFault(<<d>> \o inf) = d
        BY <1>9, <2>1, FirstIs
      <4>3. h = gate \o (<<d>> \o inf)
        <5>1. PICK S, T : gate \in Seq(S) /\ inf \in Seq(T)
          BY <1>8, <1>9 DEF IsList
        <5>2. PICK U : U = S \cup T \cup {d}
          OBVIOUS
        <5>3. gate \in Seq(U) /\ inf \in Seq(U) /\ <<d>> \in Seq(U)
          BY <5>1, <5>2
        <5> QED BY <1>10, <5>3, ConcatAssociative
      <4>4. IsList(<<d>> \o inf)
        BY <1>9, <1>13, CodesOfBoth
      <4>5. FirstFault(gate \o (<<d>> \o inf)) = FirstFault(<<d>> \o inf)
        BY <1>8, <3>1, <4>4, FirstAfter
      <4> QED BY <2>2, <2>6, <4>2, <4>3, <4>5
    <3> QED BY <3>1
  <2>8. g \in Codes(r)
    BY <1>8, <1>15, <2>2, <2>7, FirstOfCodes
  <2>9. g # Accepted
    BY <2>8 DEF Codes
  <2>10. PICK x, y : x = Replied(h, run, keys, ign) /\ y = Replied(r, run, keys, {})
    OBVIOUS
  <2>11. x.code = f /\ y.code = g
    BY <2>2, <2>4, <2>9, <2>10 DEF Replied, Refused
  <2>12. Condition(d) # Condition(f)
    BY <1>19, <2>6, OwnConditions
  <2>13. Alike(x, h, y)
    BY <2>1, <2>4, <2>9, <2>11, <2>12 DEF Alike
  <2> QED BY <1>3, <1>11, <1>16, <1>17, <2>10, <2>13
<1> QED BY <1>18, <1>19

\* The codes of a list of five checks.
LEMMA CodesOfQuint ==
  ASSUME NEW u, NEW v, NEW w, NEW x, NEW y
  PROVE  /\ IsList(<<u, v, w, x, y>>)
         /\ \A c : c \in Codes(<<u, v, w, x, y>>) <=> c # Accepted /\ c \in {u, v, w, x, y}
<1>1. ASSUME NEW S, u \in S, v \in S, w \in S, x \in S, y \in S
      PROVE  <<u, v, w, x, y>> \in Seq(S)
  BY <1>1
<1>2. PICK s : s = <<u, v, w, x, y>>
  OBVIOUS
<1>3. IsList(s)
  <2>1. PICK S : S = {u, v, w, x, y}
    OBVIOUS
  <2>2. u \in S /\ v \in S /\ w \in S /\ x \in S /\ y \in S
    BY <2>1
  <2> QED BY <1>1, <1>2, <2>2 DEF IsList
<1>4. DOMAIN s = 1 .. 5
  BY <1>2
<1>5. s[1] = u /\ s[2] = v /\ s[3] = w /\ s[4] = x /\ s[5] = y
  BY <1>2
<1>6. 1 .. 5 = {1, 2, 3, 4, 5}
  OBVIOUS
<1>7. {s[i] : i \in 1 .. 5} = {u, v, w, x, y}
  BY <1>5, <1>6
<1>8. \A c : c \in Codes(s) <=> c # Accepted /\ c \in {u, v, w, x, y}
  BY <1>4, <1>7 DEF Codes
<1> QED BY <1>2, <1>3, <1>8

\* What is wrong with the parameters of a document: the switches of the answer, the
\* lengths, the images and the rotation.
MarkdownFault(c, q, srv) ==
  \/ /\ c = Invalid
     /\ \/ ~WellFormed(q, "markdown") \/ ~WellFormed(q, "as_pages")
        \/ On(q, "as_pages") /\ ~On(q, "markdown")
        \/ On(q, "markdown") /\ ~WantsText(q)
  \/ c = "LAYOUT_DISABLED" /\ On(q, "markdown") /\ ~srv.layout
DpiFault(c, q) == c = "INVALID_DPI" /\ Given(q, "dpi") /\ q["dpi"] = "bad"
ModeFault(c, q) == c = Invalid /\ Given(q, "mode") /\ q["mode"] \notin Modes
RotateFault(c, q, srv) ==
  \/ c = Invalid /\ ~WellFormed(q, "autorotate")
  \/ c = "AUTOROTATE_DISABLED" /\ On(q, "autorotate") /\ ~srv.ori
ShowFault(c, q, srv) ==
  c = Invalid /\ (~ImageParamsValid(q) \/ (On(q, "markdown") /\ Inline(q))
                    \/ (srv.gpu /\ ~SomethingToShow(q)))

\* What MarkdownChecks refuses.
LEMMA MarkdownCodes ==
  ASSUME NEW q, NEW srv
  PROVE  /\ IsList(MarkdownChecks(q, srv))
         /\ \A c : c \in Codes(MarkdownChecks(q, srv)) <=> MarkdownFault(c, q, srv)
<1>1. PICK u, v, w, x, y :
        /\ u = IF WellFormed(q, "markdown") THEN Accepted ELSE Invalid
        /\ v = IF WellFormed(q, "as_pages") THEN Accepted ELSE Invalid
        /\ w = IF On(q, "as_pages") => On(q, "markdown") THEN Accepted ELSE Invalid
        /\ x = IF On(q, "markdown") => srv.layout THEN Accepted ELSE "LAYOUT_DISABLED"
        /\ y = IF On(q, "markdown") => WantsText(q) THEN Accepted ELSE Invalid
  OBVIOUS
<1>2. MarkdownChecks(q, srv) = <<u, v, w, x, y>>
  BY <1>1, Zenon DEF MarkdownChecks, Check
<1>3. /\ IsList(<<u, v, w, x, y>>)
      /\ \A c : c \in Codes(<<u, v, w, x, y>>) <=> c # Accepted /\ c \in {u, v, w, x, y}
  BY CodesOfQuint
<1>4. ASSUME NEW c PROVE c # Accepted /\ c \in {u, v, w, x, y} <=> MarkdownFault(c, q, srv)
  BY <1>1 DEF Accepted, Invalid, MarkdownFault
<1> QED BY <1>2, <1>3, <1>4

\* What DpiCheck and ModeCheck refuse.
LEMMA LengthCodes ==
  ASSUME NEW q
  PROVE  /\ IsList(DpiCheck(q)) /\ \A c : c \in Codes(DpiCheck(q)) <=> DpiFault(c, q)
         /\ IsList(ModeCheck(q)) /\ \A c : c \in Codes(ModeCheck(q)) <=> ModeFault(c, q)
<1>1. PICK u, v : /\ u = IF Given(q, "dpi") => q["dpi"] # "bad" THEN Accepted ELSE "INVALID_DPI"
                  /\ v = IF Given(q, "mode") => q["mode"] \in Modes THEN Accepted ELSE Invalid
  OBVIOUS
<1>2. DpiCheck(q) = <<u>> /\ ModeCheck(q) = <<v>>
  BY <1>1, Zenon DEF DpiCheck, ModeCheck, Check
<1>3. /\ IsList(<<u>>) /\ IsList(<<v>>)
      /\ \A c : c \in Codes(<<u>>) <=> c # Accepted /\ c = u
      /\ \A c : c \in Codes(<<v>>) <=> c # Accepted /\ c = v
  BY OneCode
<1>4. ASSUME NEW c
      PROVE  (c # Accepted /\ c = u <=> DpiFault(c, q)) /\ (c # Accepted /\ c = v <=> ModeFault(c, q))
  BY <1>1 DEF Accepted, Invalid, DpiFault, ModeFault
<1> QED BY <1>2, <1>3, <1>4

\* What RotateChecks refuses.
LEMMA RotateCodes ==
  ASSUME NEW q, NEW srv
  PROVE  /\ IsList(RotateChecks(q, srv))
         /\ \A c : c \in Codes(RotateChecks(q, srv)) <=> RotateFault(c, q, srv)
<1>1. PICK u, v : /\ u = IF WellFormed(q, "autorotate") THEN Accepted ELSE Invalid
                  /\ v = IF On(q, "autorotate") => srv.ori THEN Accepted ELSE "AUTOROTATE_DISABLED"
  OBVIOUS
<1>2. RotateChecks(q, srv) = <<u, v>>
  BY <1>1, Zenon DEF RotateChecks, Check
<1>3. IsList(<<u, v>>) /\ \A c : c \in Codes(<<u, v>>) <=> c # Accepted /\ c \in {u, v}
  BY CodesOfFew
<1>4. ASSUME NEW c PROVE c # Accepted /\ c \in {u, v} <=> RotateFault(c, q, srv)
  BY <1>1 DEF Accepted, Invalid, RotateFault
<1> QED BY <1>2, <1>3, <1>4

\* Everything that is wrong with the parameters of a request for a document.
PdfFault(c, q, srv) ==
  \/ OptionFault(c, q, srv)
  \/ c = Invalid /\ ~WantsText(q) /\ "layout" \notin Closure(Asked(q)) /\ ~srv.gpu
  \/ MarkdownFault(c, q, srv)
  \/ ParamFault(c, q, PdfSpec, srv)
  \/ BackendFault(c, PdfOptions(q, srv).wants, srv)
  \/ DpiFault(c, q) \/ ModeFault(c, q) \/ ShowFault(c, q, srv) \/ RotateFault(c, q, srv)

\* What PdfChecks refuses.
LEMMA PdfCodes ==
  ASSUME NEW q, NEW srv \in ServerType
  PROVE  /\ IsList(PdfChecks(q, srv))
         /\ \A c : c \in Codes(PdfChecks(q, srv)) <=> PdfFault(c, q, srv)
<1>1. PICK o, k, p, b, d, m, r :
        /\ o = OptionChecks(q, srv, srv.gpu) /\ k = MarkdownChecks(q, srv)
        /\ p = ParamChecks(q, PdfSpec, srv) /\ b = BackendChecks(PdfOptions(q, srv).wants, srv)
        /\ d = DpiCheck(q) /\ m = ModeCheck(q) /\ r = RotateChecks(q, srv)
  OBVIOUS
<1>2. PICK u, v, w :
        /\ u = IF ImageParamsValid(q) THEN Accepted ELSE Invalid
        /\ v = IF ~(On(q, "markdown") /\ Inline(q)) THEN Accepted ELSE Invalid
        /\ w = IF srv.gpu => SomethingToShow(q) THEN Accepted ELSE Invalid
  OBVIOUS
<1>3. PdfChecks(q, srv) = ((((((o \o k) \o p) \o b) \o d) \o m) \o <<u, v, w>>) \o r
  BY <1>1, <1>2, Zenon DEF PdfChecks, Check
<1>4. /\ IsList(o)
      /\ \A c : c \in Codes(o) <=>
            \/ OptionFault(c, q, srv)
            \/ c = Invalid /\ ~WantsText(q) /\ "layout" \notin Closure(Asked(q)) /\ ~srv.gpu
  <2>1. srv.gpu \in BOOLEAN
    BY DEF ServerType
  <2> QED BY <1>1, <2>1, OptionCodes
<1>5. IsList(k) /\ \A c : c \in Codes(k) <=> MarkdownFault(c, q, srv)
  BY <1>1, MarkdownCodes
<1>6. IsList(p) /\ \A c : c \in Codes(p) <=> ParamFault(c, q, PdfSpec, srv)
  <2>1. PdfSpec \in SpecType
    BY DEF PdfSpec, EndpointSpec, SpecType
  <2> QED BY <1>1, <2>1, ParamCodes
<1>7. IsList(b) /\ \A c : c \in Codes(b) <=> BackendFault(c, PdfOptions(q, srv).wants, srv)
  <2>1. PICK wants : wants = PdfOptions(q, srv).wants
    OBVIOUS
  <2> QED BY <1>1, <2>1, BackendCodes DEF BackendFault
<1>8. /\ IsList(d) /\ IsList(m) /\ \A c : c \in Codes(d) <=> DpiFault(c, q)
      /\ \A c : c \in Codes(m) <=> ModeFault(c, q)
  BY <1>1, LengthCodes
<1>9. IsList(r) /\ \A c : c \in Codes(r) <=> RotateFault(c, q, srv)
  BY <1>1, RotateCodes
<1>10. PICK s : s = <<u, v, w>>
  OBVIOUS
<1>11. IsList(s) /\ \A c : c \in Codes(s) <=> ShowFault(c, q, srv)
  <2>1. /\ IsList(<<u, v, w>>)
        /\ \A c : c \in Codes(<<u, v, w>>) <=> c # Accepted /\ c \in {u, v, w}
    BY CodesOfFew
  <2>2. ASSUME NEW c PROVE c # Accepted /\ c \in {u, v, w} <=> ShowFault(c, q, srv)
    BY <1>2 DEF Accepted, Invalid, ShowFault
  <2> QED BY <1>10, <2>1, <2>2
<1>12. PICK g : g = (((o \o k) \o p) \o b) \o d
  OBVIOUS
<1>13. IsList(g)
  BY <1>4, <1>5, <1>6, <1>7, <1>8, <1>12, CodesOfFive
<1>14. \A c : c \in Codes(g) <=> \/ c \in Codes(o) \/ c \in Codes(k) \/ c \in Codes(p)
                                 \/ c \in Codes(b) \/ c \in Codes(d)
  BY <1>4, <1>5, <1>6, <1>7, <1>8, <1>12, CodesOfFive
<1>15. PICK e : e = (g \o m) \o s
  OBVIOUS
<1>16. IsList(e) /\ \A c : c \in Codes(e) <=> c \in Codes(g) \/ c \in Codes(m) \/ c \in Codes(s)
  BY <1>8, <1>11, <1>13, <1>15, CodesOfThree
<1>17. IsList(e \o r) /\ \A c : c \in Codes(e \o r) <=> c \in Codes(e) \/ c \in Codes(r)
  BY <1>9, <1>16, CodesOfBoth
<1>18. PdfChecks(q, srv) = e \o r
  BY <1>3, <1>10, <1>12, <1>15, Zenon
<1>19. ASSUME NEW c PROVE c \in Codes(e \o r) <=> PdfFault(c, q, srv)
  <2>1. c \in Codes(e \o r) <=>
          \/ c \in Codes(o) \/ c \in Codes(k) \/ c \in Codes(p) \/ c \in Codes(b) \/ c \in Codes(d)
          \/ c \in Codes(m) \/ c \in Codes(s) \/ c \in Codes(r)
    BY <1>14, <1>16, <1>17
  <2> QED BY <1>4, <1>5, <1>6, <1>7, <1>8, <1>9, <1>11, <2>1, Zenon DEF PdfFault
<1> QED BY <1>17, <1>18, <1>19

Statuses == {"Ok", "RenderFailed", "EmptyPdf", "Dropped", "DecodeFailed", "PageFailed", "TimedOut"}

\* What is refused of the body of a document.
LEMMA ExtractCodes ==
  ASSUME NEW d \in DocumentType
  PROVE  /\ IsList(ExtractChecks(d))
         /\ d.form = "raw" => \A c : c \in Codes(ExtractChecks(d)) <=> c = "EMPTY_BODY" /\ ~d.bytes
<1>1. d.form \in {"raw", "json", "multipart"}
  BY DEF DocumentType
<1>2. PICK u, v, w, x, y :
        /\ u = IF d.readable THEN Accepted ELSE "INVALID_MULTIPART"
        /\ v = IF d.bytes THEN Accepted ELSE "MISSING_FILE"
        /\ w = IF d.readable THEN Accepted ELSE "MISSING_PDF"
        /\ x = IF d.bytes THEN Accepted ELSE "BASE64_DECODE_FAILED"
        /\ y = IF d.bytes THEN Accepted ELSE "EMPTY_BODY"
  OBVIOUS
<1>3. ExtractChecks(d) = CASE d.form = "multipart" -> <<u, v>> [] d.form = "json" -> <<w, x>>
                           [] d.form = "raw" -> <<y>>
  BY <1>2, Zenon DEF ExtractChecks, Check
<1>4. /\ IsList(<<u, v>>) /\ IsList(<<w, x>>) /\ IsList(<<y>>)
      /\ \A c : c \in Codes(<<y>>) <=> c # Accepted /\ c = y
  <2>1. IsList(<<u, v>>) /\ IsList(<<w, x>>)
    BY CodesOfFew
  <2> QED BY <2>1, OneCode
<1>5. CASE d.form = "raw"
  <2>1. ExtractChecks(d) = <<y>>
    BY <1>3, <1>5
  <2>2. \A c : c # Accepted /\ c = y <=> c = "EMPTY_BODY" /\ ~d.bytes
    BY <1>2 DEF Accepted
  <2> QED BY <1>4, <2>1, <2>2
<1>6. CASE d.form = "json"
  <2>1. ExtractChecks(d) = <<w, x>>
    BY <1>3, <1>6
  <2> QED BY <1>4, <1>6, <2>1
<1>7. CASE d.form = "multipart"
  <2>1. ExtractChecks(d) = <<u, v>>
    BY <1>3, <1>7
  <2> QED BY <1>4, <1>7, <2>1
<1> QED BY <1>1, <1>5, <1>6, <1>7

\* What is wrong with a document, once its bytes are there.
JobFault(c, d, srv) ==
  \/ c = "PDF_TOO_LARGE" /\ TooManyPages(d, srv)
  \/ c = JobCode(d.status) /\ d.status # "Ok"

\* Both transports answer a failed job with one code.
LEMMA JobCodeIs ==
  ASSUME NEW s \in Statuses
  PROVE  RpcJobCode(s) = JobCode(s) /\ (JobCode(s) = Accepted <=> s = "Ok")
BY DEF Statuses, RpcJobCode, JobCode, Accepted

\* What is refused of a document that has its bytes.
LEMMA JobCodes ==
  ASSUME NEW d \in DocumentType, NEW srv
  PROVE  LET list == <<Check(~TooManyPages(d, srv), "PDF_TOO_LARGE"), JobCode(d.status)>>
         IN  IsList(list) /\ \A c : c \in Codes(list) <=> JobFault(c, d, srv)
<1>1. PICK u, v : /\ u = IF ~TooManyPages(d, srv) THEN Accepted ELSE "PDF_TOO_LARGE"
                  /\ v = JobCode(d.status)
  OBVIOUS
<1>2. <<Check(~TooManyPages(d, srv), "PDF_TOO_LARGE"), JobCode(d.status)>> = <<u, v>>
  BY <1>1, Zenon DEF Check
<1>3. v = Accepted <=> d.status = "Ok"
  <2>1. d.status \in Statuses
    BY DEF DocumentType, Statuses
  <2> QED BY <1>1, <2>1, JobCodeIs
<1>4. IsList(<<u, v>>) /\ \A c : c \in Codes(<<u, v>>) <=> c # Accepted /\ c \in {u, v}
  BY CodesOfFew
<1>5. ASSUME NEW c PROVE c # Accepted /\ c \in {u, v} <=> JobFault(c, d, srv)
  BY <1>1, <1>3 DEF JobFault, Accepted
<1> QED BY <1>2, <1>4, <1>5

\* What /ocr/pdf refuses.
LEMMA PdfRouteCodes ==
  ASSUME NEW q, NEW srv \in ServerType, NEW d \in DocumentType
  PROVE  /\ IsList(PdfRouteChecks(q, d, srv))
         /\ \A c : c \in Codes(PdfRouteChecks(q, d, srv)) <=>
              \/ c \in Codes(ExtractChecks(d)) \/ PdfFault(c, q, srv) \/ JobFault(c, d, srv)
<1>1. PICK e, p, j : /\ e = ExtractChecks(d) /\ p = PdfChecks(q, srv)
                     /\ j = <<Check(~TooManyPages(d, srv), "PDF_TOO_LARGE"), JobCode(d.status)>>
  OBVIOUS
<1>2. PdfRouteChecks(q, d, srv) = (e \o p) \o j
  BY <1>1, Zenon DEF PdfRouteChecks
<1>3. IsList(e)
  BY <1>1, ExtractCodes
<1>4. IsList(p) /\ \A c : c \in Codes(p) <=> PdfFault(c, q, srv)
  BY <1>1, PdfCodes
<1>5. IsList(j) /\ \A c : c \in Codes(j) <=> JobFault(c, d, srv)
  BY <1>1, JobCodes
<1>6. /\ IsList((e \o p) \o j)
      /\ \A c : c \in Codes((e \o p) \o j) <=> c \in Codes(e) \/ c \in Codes(p) \/ c \in Codes(j)
  BY <1>3, <1>4, <1>5, CodesOfThree
<1> QED BY <1>1, <1>2, <1>4, <1>5, <1>6

\* What both transports find wrong with a document's request that both can say.
CommonPdfFault(c, q, d, srv) ==
  \/ c = "LAYOUT_DISABLED" /\ Asked(q) # {} /\ ~srv.layout
  \/ BackendFault(c, Asked(q), srv)
  \/ DpiFault(c, q)
  \/ JobFault(c, d, srv)

\* What a request for a document that both transports can say leaves out.
LEMMA PlainPdfFacts ==
  ASSUME NEW srv \in ServerType, NEW q, DOMAIN q \subseteq Features \cup {"dpi", "mode"},
         \A f \in Features : WellFormed(q, f), ModeOf(q, srv) \in Modes
  PROVE  /\ \A f \in OcrOptionParams : WellFormed(q, f)
         /\ WantsText(q) /\ Unsupported(q, PdfSpec) = {} /\ Override(q) = NoRouting
         /\ ~Given(q, "markdown") /\ ~Given(q, "as_pages") /\ ~Given(q, "autorotate")
         /\ ~Given(q, "images") /\ ImageParamsValid(q)
         /\ Given(q, "mode") => q["mode"] \in Modes
<1>1. \A n \in {"text", "markdown", "as_pages", "autorotate", "images", "route_table",
                "route_formula"} \cup EncodeParams : ~Given(q, n)
  BY DEF Given, Features, Structure, EncodeParams
<1>2. \A f \in OcrOptionParams : WellFormed(q, f)
  BY <1>1 DEF OcrOptionParams, WellFormed
<1>3. WantsText(q) /\ Override(q) = NoRouting
  BY <1>1 DEF WantsText, Override, NoRouting
<1>4. Unsupported(q, PdfSpec) = {}
  BY DEF Unsupported, PdfSpec, EndpointSpec, SpecAllows, OcrOptionParams, PdfParams
<1>5. ImageParamsValid(q)
  BY <1>1 DEF ImageParamsValid
<1>6. Given(q, "mode") => q["mode"] \in Modes
  BY DEF ModeOf
<1> QED BY <1>1, <1>2, <1>3, <1>4, <1>5, <1>6

\* What /ocr/pdf refuses of such a request.
LEMMA HttpPdf ==
  ASSUME NEW srv \in ServerType, NEW q, DOMAIN q \subseteq Features \cup {"dpi", "mode"},
         \A f \in Features : WellFormed(q, f), ModeOf(q, srv) \in Modes,
         NEW d \in DocumentType, d.form = "raw"
  PROVE  /\ IsList(PdfRouteChecks(q, d, srv))
         /\ \A c : c \in Codes(PdfRouteChecks(q, d, srv)) <=>
                     (c = "EMPTY_BODY" /\ ~d.bytes) \/ CommonPdfFault(c, q, d, srv)
<1>1. /\ \A f \in OcrOptionParams : WellFormed(q, f)
      /\ WantsText(q) /\ Unsupported(q, PdfSpec) = {} /\ Override(q) = NoRouting
      /\ ~Given(q, "markdown") /\ ~Given(q, "as_pages") /\ ~Given(q, "autorotate")
      /\ ~Given(q, "images") /\ ImageParamsValid(q)
      /\ Given(q, "mode") => q["mode"] \in Modes
  BY PlainPdfFacts
<1>2. ASSUME NEW c
      PROVE  OptionFault(c, q, srv) <=> c = "LAYOUT_DISABLED" /\ Asked(q) # {} /\ ~srv.layout
  BY <1>1 DEF OptionFault
<1>3. ASSUME NEW c PROVE ~MarkdownFault(c, q, srv) /\ ~RotateFault(c, q, srv)
  BY <1>1 DEF MarkdownFault, RotateFault, WellFormed, On
<1>4. ASSUME NEW c PROVE ~ModeFault(c, q)
  BY <1>1 DEF ModeFault
<1>5. ASSUME NEW c PROVE ~ShowFault(c, q, srv)
  BY <1>1 DEF ShowFault, On, SomethingToShow
<1>6. ASSUME NEW c PROVE ~ParamFault(c, q, PdfSpec, srv)
  BY <1>1 DEF ParamFault, RoutingFault, NoRouting
<1>7. PdfOptions(q, srv).wants = Closure(Asked(q))
  BY <1>1 DEF PdfOptions, On, ParsedOptions, Options
<1>8. ASSUME NEW c
      PROVE  BackendFault(c, PdfOptions(q, srv).wants, srv) <=> BackendFault(c, Asked(q), srv)
  BY <1>7, ClosureIs DEF BackendFault, Structure
<1>9. ASSUME NEW c
      PROVE  PdfFault(c, q, srv) \/ JobFault(c, d, srv) <=> CommonPdfFault(c, q, d, srv)
  BY <1>1, <1>2, <1>3, <1>4, <1>5, <1>6, <1>8 DEF PdfFault, CommonPdfFault
<1>10. \A c : c \in Codes(ExtractChecks(d)) <=> c = "EMPTY_BODY" /\ ~d.bytes
  BY ExtractCodes
<1> QED BY <1>9, <1>10, PdfRouteCodes

\* What RecognizePDF refuses of the same request.
LEMMA RpcPdf ==
  ASSUME NEW srv \in ServerType, srv.json, srv.renderer, NEW q,
         DOMAIN q \subseteq Features \cup {"dpi", "mode"}, NEW d \in DocumentType
  PROVE  /\ IsList(RecognizePdfChecks(PdfMessage(q), d, srv))
         /\ \A c : c \in Codes(RecognizePdfChecks(PdfMessage(q), d, srv)) <=>
                     (c = "MISSING_PDF" /\ ~d.bytes) \/ CommonPdfFault(c, q, d, srv)
<1>1. PICK m, flags : m = PdfMessage(q) /\ flags = Asked(q)
  OBVIOUS
<1>2. m.flags = flags /\ (m.dpi = "bad" <=> Given(q, "dpi") /\ q["dpi"] = "bad")
  BY <1>1 DEF PdfMessage
<1>3. PICK u, v, w, a, b, t, x, y, z :
        /\ u = IF srv.renderer THEN Accepted ELSE "PDF_NOT_AVAILABLE"
        /\ v = IF d.bytes THEN Accepted ELSE "MISSING_PDF"
        /\ w = IF flags # {} => srv.layout THEN Accepted ELSE "LAYOUT_DISABLED"
        /\ a = IF srv.json \/ flags \subseteq {"reading_order"} THEN Accepted
               ELSE "STRUCTURED_MODE_NO_STRUCTURE"
        /\ b = IF "tables" \in flags => srv.table THEN Accepted ELSE "TABLE_BACKEND_DISABLED"
        /\ t = IF "formulas" \in flags => srv.formula THEN Accepted ELSE "FORMULA_BACKEND_DISABLED"
        /\ x = IF m.dpi # "bad" THEN Accepted ELSE "INVALID_DPI"
        /\ y = IF ~TooManyPages(d, srv) THEN Accepted ELSE "PDF_TOO_LARGE"
        /\ z = JobCode(d.status)
  OBVIOUS
<1>4. d.status \in Statuses
  BY DEF DocumentType, Statuses
<1>5. RpcJobCode(d.status) = z /\ (z = Accepted <=> d.status = "Ok")
  BY <1>3, <1>4, JobCodeIs
<1>6. PICK k, l, n : k = <<u, v, w>> /\ l = <<a, b, t>> /\ n = <<x, y, z>>
  OBVIOUS
<1>7. RecognizePdfChecks(m, d, srv) = (k \o l) \o n
  BY <1>2, <1>3, <1>5, <1>6, Zenon DEF RecognizePdfChecks, RpcBackendChecks, Check
<1>8. IsList(k) /\ \A c : c \in Codes(k) <=> c # Accepted /\ c \in {u, v, w}
  BY <1>6, CodesOfFew
<1>9. IsList(l) /\ \A c : c \in Codes(l) <=> c # Accepted /\ c \in {a, b, t}
  BY <1>6, CodesOfFew
<1>10. IsList(n) /\ \A c : c \in Codes(n) <=> c # Accepted /\ c \in {x, y, z}
  BY <1>6, CodesOfFew
<1>11. /\ IsList((k \o l) \o n)
       /\ \A c : c \in Codes((k \o l) \o n) <=> c \in Codes(k) \/ c \in Codes(l) \/ c \in Codes(n)
  BY <1>8, <1>9, <1>10, CodesOfThree
<1>12. ASSUME NEW c
       PROVE  c # Accepted /\ c \in {u, v, w} <=>
                 (c = "MISSING_PDF" /\ ~d.bytes) \/ (c = "LAYOUT_DISABLED" /\ flags # {} /\ ~srv.layout)
  BY <1>3 DEF Accepted
<1>13. ASSUME NEW c PROVE c # Accepted /\ c \in {a, b, t} <=> BackendFault(c, flags, srv)
  BY <1>3 DEF Accepted, BackendFault
<1>14. ASSUME NEW c PROVE c # Accepted /\ c \in {x, y, z} <=> DpiFault(c, q) \/ JobFault(c, d, srv)
  BY <1>2, <1>3, <1>5 DEF Accepted, DpiFault, JobFault
<1>15. ASSUME NEW c
       PROVE  c \in Codes((k \o l) \o n) <=>
                     (c = "MISSING_PDF" /\ ~d.bytes) \/ CommonPdfFault(c, q, d, srv)
  BY <1>1, <1>8, <1>9, <1>10, <1>11, <1>12, <1>13, <1>14 DEF CommonPdfFault
<1> QED BY <1>1, <1>7, <1>11, <1>15

\* A page has the keys of its output, whichever emitter writes them.
LEMMA PageKeysAre ==
  ASSUME NEW out \in SUBSET Shown, NEW a, NEW b, a <=> b
  PROVE  PageKeys(out, a) = PipelineKeys(out, b)
<1>1. PICK blocks : blocks = IF b /\ {"layout", "reading_order"} \subseteq out
                             THEN {"blocks"} ELSE {}
  OBVIOUS
<1>2. Blocks(out, a) = blocks /\ Blocks(out, b) = blocks
  BY <1>1 DEF Blocks
<1>3. CASE Rich(out)
  BY <1>2, <1>3 DEF PageKeys, PipelineKeys
<1>4. CASE ~Rich(out) /\ "reading_order" \in out
  <2>1. out \subseteq {"layout", "reading_order"}
    BY <1>4 DEF Rich, Shown
  <2> QED BY <1>2, <1>4, <2>1 DEF PageKeys, PipelineKeys, ResultsKeys, TextKeys
<1>5. CASE ~Rich(out) /\ "reading_order" \notin out
  <2>1. out \subseteq {"layout"}
    BY <1>5 DEF Rich, Shown
  <2>2. blocks = {}
    BY <1>1, <1>5
  <2> QED BY <1>2, <1>5, <2>1, <2>2 DEF PageKeys, PipelineKeys, TextKeys
<1> QED BY <1>3, <1>4, <1>5

\* A document, by both transports.
LEMMA PdfAlike ==
  ASSUME NEW srv \in ServerType, srv.json, srv.renderer, NEW q,
         DOMAIN q \subseteq Features \cup {"dpi", "mode"},
         \A f \in Features : WellFormed(q, f), ModeOf(q, srv) \in Modes,
         NEW d \in DocumentType, d.form = "raw"
  PROVE  Alike(PdfRoute(q, d, srv), PdfRouteChecks(q, d, srv), RecognizePdf(PdfMessage(q), d, srv))
<1>1. PICK m, h, r, ign : /\ m = PdfMessage(q) /\ h = PdfRouteChecks(q, d, srv)
                          /\ r = RecognizePdfChecks(m, d, srv) /\ ign = Ignored(q, PdfSpec)
  OBVIOUS
<1>2. PICK how : how = PdfRun(Options(Closure(Asked(q)), TRUE), ModeOf(q, srv), FALSE, FALSE, FALSE, srv)
  OBVIOUS
<1>3. /\ WantsText(q) /\ ~Given(q, "markdown") /\ ~Given(q, "autorotate") /\ ~Given(q, "images")
      /\ Given(q, "mode") => q["mode"] \in Modes
  BY PlainPdfFacts
<1>4. On(q, "autorotate") = FALSE /\ Inline(q) = FALSE /\ On(q, "markdown") = FALSE
      /\ WantsText(q) = TRUE
  BY <1>3 DEF On, Inline, WantsText
<1>5. PdfOptions(q, srv) = Options(Closure(Asked(q)), TRUE)
  BY <1>4 DEF PdfOptions, ParsedOptions
<1>6. PdfRun(PdfOptions(q, srv), ModeOf(q, srv), On(q, "autorotate"), Inline(q), On(q, "markdown"),
             srv) = how
  BY <1>2, <1>4, <1>5, Zenon
<1>7. how.rotate = FALSE /\ how.image = FALSE /\ how.markdown = FALSE
  BY <1>2 DEF PdfRun
<1>8. PICK out, keys : out = Output(how, d.found) /\ keys = PipelineKeys(out, On(q, "as_blocks"))
  OBVIOUS
<1>9. out \in SUBSET Shown
  <2>1. d.found \in SUBSET Shown
    BY DEF DocumentType
  <2> QED BY <1>8, <2>1, OutShown
<1>10. PageKeys(out, On(q, "as_blocks")) = keys
  BY <1>8, <1>9, PageKeysAre
<1>11. PdfKeys(how, out, On(q, "as_blocks")) = keys
  BY <1>7, <1>10 DEF PdfKeys
<1>12. PdfRoute(q, d, srv) = Replied(h, how, keys, ign)
  <2>1. (IF how.markdown THEN {"markdown"} \cup (out \cap Degradation)
         ELSE PdfKeys(how, out, On(q, "as_blocks"))) = keys
    BY <1>7, <1>11
  <2> QED BY <1>1, <1>6, <1>8, <2>1, Zenon DEF PdfRoute
<1>13. m.flags = Asked(q) /\ m.mode = (IF Given(q, "mode") THEN q["mode"] ELSE "")
  BY <1>1 DEF PdfMessage
<1>14. RpcMode(m, srv) = ModeOf(q, srv)
  <2>1. "" \notin Modes
    BY DEF Modes
  <2> QED BY <1>3, <1>13, <2>1 DEF RpcMode, ModeOf
<1>15. RpcWants(Asked(q)) = Closure(Asked(q))
  BY DEF RpcWants, Closure, Asked
<1>16. "as_blocks" \in m.flags <=> On(q, "as_blocks")
  BY <1>13 DEF Asked, Features
<1>17. PageKeys(out, "as_blocks" \in m.flags) = keys
  BY <1>8, <1>9, <1>16, PageKeysAre
<1>18. RecognizePdf(m, d, srv) = Replied(r, how, keys, {})
  <2>1. PdfRun(Options(RpcWants(m.flags), TRUE), RpcMode(m, srv), FALSE, FALSE, FALSE, srv) = how
    BY <1>2, <1>13, <1>14, <1>15, Zenon
  <2>2. (IF srv.json THEN PageKeys(out, "as_blocks" \in m.flags) ELSE {"results"}) = keys
    BY <1>17, Zenon
  <2> QED BY <1>1, <1>8, <2>1, <2>2, Zenon DEF RecognizePdf
<1>19. IsList(h) /\ \A c : c \in Codes(h) <=> (c = "EMPTY_BODY" /\ ~d.bytes) \/ CommonPdfFault(c, q, d, srv)
  BY <1>1, HttpPdf
<1>20. IsList(r) /\ \A c : c \in Codes(r) <=> (c = "MISSING_PDF" /\ ~d.bytes) \/ CommonPdfFault(c, q, d, srv)
  BY <1>1, RpcPdf
<1>21. Condition("EMPTY_BODY") = Condition("MISSING_PDF")
  BY SameCondition
<1>22. \A c \in Codes(h) : \E e \in Codes(r) : Condition(c) = Condition(e)
  BY <1>19, <1>20, <1>21
<1>23. \A e \in Codes(r) : \E c \in Codes(h) : Condition(c) = Condition(e)
  BY <1>19, <1>20, <1>21
<1>24. Alike(Replied(h, how, keys, ign), h, Replied(r, how, keys, {}))
  BY <1>19, <1>20, <1>22, <1>23, AlikeWhen
<1> QED BY <1>1, <1>12, <1>18, <1>24

\* TransportsAgree, for every server, query, image, size and document: a handler of
\* src/http/image or pdf_route.cpp and recognize_rpc.cpp or recognize_pdf_rpc.cpp refuse the same
\* requests, with codes of one condition, or run the same stages and answer with the same keys.
THEOREM TransportsGiveOneAnswer == RequestTypeOK => TransportsAgree
<1> SUFFICES ASSUME RequestTypeOK, server.json, server.renderer PROVE TransportsAgree
  BY DEF TransportsAgree
<1>1. server \in ServerType
  BY DEF RequestTypeOK
<1>2. /\ \A img \in Images : img \in ImageType
      /\ \A d \in Documents : d \in DocumentType
      /\ \A dims \in Dims : dims \in [query : Lengths, header : Lengths, body : Nat]
  BY RequestsAssumption
<1>3. ASSUME Plain(query), NEW img \in Images
      PROVE  /\ Alike(Raw(query, img, server), RawChecks(query, img, server),
                      Recognize(Message(query), img, server))
             /\ Alike(Base64(query, PlainBody, img, server),
                      Base64Checks(query, PlainBody, img, server),
                      Recognize(Message(query), img, server))
  BY <1>1, <1>2, <1>3, ImageAlike
<1>4. ASSUME Plain(query), NEW dims \in Dims, NEW img \in Images, Sayable(dims), dims.body # 0,
             Pixels(query, dims, img, server).code # "DIMENSION_CONFLICT"
      PROVE  Alike(Pixels(query, dims, img, server), PixelsChecks(query, dims, img, server),
                   Recognize(PixelMessage(query, dims), img, server))
  BY <1>1, <1>2, <1>4, PixelsAlike
<1>5. ASSUME PlainPdf(query), NEW d \in Documents, d.form = "raw"
      PROVE  Alike(PdfRoute(query, d, server), PdfRouteChecks(query, d, server),
                   RecognizePdf(PdfMessage(query), d, server))
  <2>1. /\ DOMAIN query \subseteq Features \cup {"dpi", "mode"}
        /\ \A f \in Features : WellFormed(query, f) /\ ModeOf(query, server) \in Modes
    BY <1>5 DEF PlainPdf
  <2>2. ModeOf(query, server) \in Modes
    BY <1>5 DEF PlainPdf
  <2> QED BY <1>1, <1>2, <1>5, <2>1, <2>2, PdfAlike
<1>6. ASSUME Plain(query), NEW dims \in Dims, NEW img \in Images, Sayable(dims), dims.body = 0
      PROVE  Accepted \notin {Pixels(query, dims, img, server).code,
                              Recognize(PixelMessage(query, dims), img, server).code}
  BY <1>1, <1>2, <1>6, EmptyPixels
<1> QED BY <1>3, <1>4, <1>5, <1>6, Zenon DEF TransportsAgree

\* A run of the stages that were asked for has every key that it owes.
LEMMA OwedIsSaid ==
  ASSUME NEW q, NEW run, NEW found \in SUBSET Shown,
         Asked(q) \ {"as_blocks"} \subseteq run.stages,
         "as_blocks" \in Asked(q) => {"layout", "reading_order"} \subseteq run.stages
  PROVE  Owed(Asked(q), run, found) \subseteq PipelineKeys(Output(run, found), On(q, "as_blocks"))
<1>1. PICK out : out = Output(run, found)
  OBVIOUS
<1>2. "as_blocks" \in Asked(q) <=> On(q, "as_blocks")
  BY DEF Asked, Features
<1>3. ASSUME NEW k \in found, k \in {"layout", "reading_order", "tables", "formulas"}, k \in run.stages
      PROVE  k \in out
  <2>1. StageOf(k) = k /\ k # "text_degraded"
    BY <1>3 DEF StageOf
  <2> QED BY <1>1, <1>3, <2>1 DEF Output
<1>4. Asked(q) \cap found \subseteq out
  <2>1. ASSUME NEW k \in Asked(q) \cap found PROVE k \in out
    <3>1. k \in {"layout", "reading_order", "tables", "formulas"} /\ k # "as_blocks"
      BY <2>1 DEF Asked, Features, Structure, Shown, Degradation
    <3> QED BY <1>3, <2>1, <3>1
  <2> QED BY <2>1
<1>5. On(q, "as_blocks") /\ {"layout", "reading_order"} \subseteq found =>
        {"layout", "reading_order"} \subseteq out
  BY <1>2, <1>3
<1>6. PipelineKeys(out, On(q, "as_blocks")) =
        ({"results"} \cup out) \cup Blocks(out, On(q, "as_blocks"))
  BY DEF PipelineKeys
<1>7. On(q, "as_blocks") /\ {"layout", "reading_order"} \subseteq found =>
        "blocks" \in Blocks(out, On(q, "as_blocks"))
  BY <1>5 DEF Blocks
<1>8. Owed(Asked(q), run, found) \subseteq ({"results"} \cup out) \cup Blocks(out, On(q, "as_blocks"))
  BY <1>1, <1>2, <1>4, <1>7 DEF Owed
<1> QED BY <1>1, <1>6, <1>8

\* An answer is complete when its run has the stages that were asked for.
LEMMA CompleteWhen ==
  ASSUME NEW list, IsList(list), NEW run, NEW keys, NEW spec, NEW reads, NEW lost,
         NEW found \in SUBSET Shown,
         Codes(list) = {} =>
           /\ Asked(query) \ {"as_blocks"} \subseteq run.stages
           /\ "as_blocks" \in Asked(query) => {"layout", "reading_order"} \subseteq run.stages
           /\ run.text \/ "layout" \in run.stages \/ "image" \in keys
           /\ PipelineKeys(Output(run, found), On(query, "as_blocks")) \subseteq keys
           /\ (Named(query) \cap (SpecAllows(spec) \cup RoutingParams)) \ reads = Named(query) \cap lost
  PROVE  Complete(Replied(list, run, keys, Ignored(query, spec)), Asked(query), found, reads, lost)
<1>1. PICK reply, ign : ign = Ignored(query, spec) /\ reply = Replied(list, run, keys, ign)
  OBVIOUS
<1>2. /\ reply.code = Accepted <=> Codes(list) = {}
      /\ reply.code = Accepted => reply.run = run /\ reply.keys = keys /\ reply.ignored = ign
  BY <1>1, AcceptedMeans
<1>3. ASSUME reply.code = Accepted
      PROVE  /\ Owed(Asked(query), reply.run, found) \subseteq reply.keys
             /\ reply.keys # {"results"} \/ reply.run.text \/ "layout" \notin found
             /\ Unsaid(reply, reads) = Named(query) \cap lost
  <2>1. /\ Asked(query) \ {"as_blocks"} \subseteq run.stages
        /\ "as_blocks" \in Asked(query) => {"layout", "reading_order"} \subseteq run.stages
        /\ run.text \/ "layout" \in run.stages \/ "image" \in keys
        /\ PipelineKeys(Output(run, found), On(query, "as_blocks")) \subseteq keys
        /\ (Named(query) \cap (SpecAllows(spec) \cup RoutingParams)) \ reads = Named(query) \cap lost
    BY <1>2, <1>3
  <2>2. reply.run = run /\ reply.keys = keys /\ reply.ignored = ign
    BY <1>2, <1>3
  <2>3. Owed(Asked(query), run, found) \subseteq keys
    BY <2>1, OwedIsSaid
  <2>4. "layout" \in run.stages /\ "layout" \in found => "layout" \in keys
    <3>1. StageOf("layout") = "layout"
      BY DEF StageOf
    <3>2. "layout" \in run.stages /\ "layout" \in found => "layout" \in Output(run, found)
      BY <3>1 DEF Output
    <3> QED BY <2>1, <3>2 DEF PipelineKeys
  <2>5. Named(query) \ (reads \cup ign) = Named(query) \cap lost
    <3>1. Named(query) \ ign = Named(query) \cap (SpecAllows(spec) \cup RoutingParams)
      BY <1>1 DEF Named, Ignored, Unsupported
    <3> QED BY <2>1, <3>1
  <2> QED BY <2>1, <2>2, <2>3, <2>4, <2>5 DEF Unsaid
<1> QED BY <1>1, <1>3 DEF Complete

\* The same of an answer in Markdown.
LEMMA MarkdownSaysWhen ==
  ASSUME NEW list, IsList(list), NEW run, NEW asked, NEW spec, NEW reads, NEW found,
         Codes(list) = {} =>
           /\ asked \subseteq run.stages \cup {"as_blocks"}
           /\ Named(query) \cap (SpecAllows(spec) \cup RoutingParams) \subseteq reads
  PROVE  MarkdownSays(Replied(list, run, {"markdown"} \cup (Output(run, found) \cap Degradation),
                              Ignored(query, spec)), asked, found, reads)
<1>1. PICK reply, ign, keys : /\ ign = Ignored(query, spec)
                              /\ keys = {"markdown"} \cup (Output(run, found) \cap Degradation)
                              /\ reply = Replied(list, run, keys, ign)
  OBVIOUS
<1>2. /\ reply.code = Accepted <=> Codes(list) = {}
      /\ reply.code = Accepted => reply.run = run /\ reply.keys = keys /\ reply.ignored = ign
  BY <1>1, AcceptedMeans
<1>3. ASSUME reply.code = Accepted
      PROVE  /\ {"markdown"} \cup (found \cap Degradation \cap Output(reply.run, found))
                  \subseteq reply.keys
             /\ asked \subseteq reply.run.stages \cup {"as_blocks"}
             /\ Unsaid(reply, reads) = {}
  <2>1. Named(query) \ (reads \cup ign) = {}
    BY <1>1, <1>2, <1>3 DEF Named, Ignored, Unsupported
  <2> QED BY <1>1, <1>2, <1>3, <2>1 DEF Unsaid
<1> QED BY <1>1, <1>3 DEF MarkdownSays

\* A route that no specification takes is one without a name.
LEMMA NoNameNoRoute ==
  ASSUME NEW q, Override(q) = NoRouting
  PROVE  Named(q) \cap RoutingParams = {}
<1>1. ASSUME NEW n \in RoutingParams, Given(q, n) PROVE q[n] = NoName
  <2>1. Override(q).table = NoName /\ Override(q).formula = NoName
    BY DEF NoRouting
  <2> QED BY <1>1, <2>1 DEF RoutingParams, Override
<1> QED BY <1>1 DEF Named, Given

\* The two emitters of an image write the same keys.
LEMMA InferKeysAre ==
  ASSUME NEW out \in SUBSET Shown, NEW b
  PROVE  InferKeys(out, b) = PipelineKeys(out, b)
<1>1. CASE Rich(out)
  BY <1>1 DEF InferKeys
<1>2. CASE ~Rich(out)
  <2>1. out \subseteq {"layout", "reading_order"}
    BY <1>2 DEF Rich, Shown
  <2> QED BY <1>2, <2>1 DEF InferKeys, PipelineKeys, ResultsKeys, TextKeys
<1> QED BY <1>1, <1>2

\* What the gate of an image settles.
LEMMA GateSettles ==
  ASSUME NEW q, NEW spec \in SpecType, spec.layoutOnly, spec.ocr, NEW srv, NEW imageOnly \in BOOLEAN,
         Codes(GateChecks(q, spec, srv, imageOnly)) = {}
  PROVE  /\ WantsText(q) \/ TextAlone(q, srv)
         /\ WantsText(q) \/ imageOnly \/ Asked(q) # {}
         /\ spec.routing \/ Override(q) = NoRouting
<1>1. \A c : c \in Codes(GateChecks(q, spec, srv, imageOnly)) <=>
                     \/ OptionFault(c, q, srv)
                     \/ /\ c = Invalid /\ ~WantsText(q)
                        /\ "layout" \notin Closure(Asked(q)) /\ ~imageOnly
                     \/ ParamFault(c, q, spec, srv)
                     \/ BackendFault(c, Closure(Asked(q)), srv)
  <2>1. imageOnly \in BOOLEAN
    OBVIOUS
  <2> QED BY <2>1, GateCodes
<1>2. /\ ~OptionFault(Invalid, q, srv)
      /\ ~(~WantsText(q) /\ "layout" \notin Closure(Asked(q)) /\ ~imageOnly)
      /\ ~ParamFault(Invalid, q, spec, srv)
  BY <1>1
<1>3. WantsText(q) \/ TextAlone(q, srv)
  BY <1>2 DEF OptionFault
<1>4. spec.routing \/ Override(q) = NoRouting
  BY <1>2 DEF ParamFault, RoutingFault
<1>5. WantsText(q) \/ imageOnly \/ Asked(q) # {}
  BY <1>2, ClosureIs
<1> QED BY <1>3, <1>4, <1>5

\* An image with accepted options is read by every stage that was asked for.
LEMMA StagesOfImage ==
  ASSUME NEW q, NEW srv, NEW routing, WantsText(q) \/ TextAlone(q, srv)
  PROVE  LET run == StageRun(ParsedOptions(q), routing)
         IN  /\ Asked(q) \ {"as_blocks"} \subseteq run.stages
             /\ "as_blocks" \in Asked(q) => {"layout", "reading_order"} \subseteq run.stages
             /\ run.text \/ "layout" \in run.stages
<1>1. PICK run : run = StageRun(ParsedOptions(q), routing)
  OBVIOUS
<1>2. CASE WantsText(q)
  <2>1. run.text /\ run.stages = Closure(Asked(q)) \ {"as_blocks"}
    BY <1>1, <1>2 DEF StageRun, ParsedOptions, Options
  <2> QED BY <1>1, <2>1 DEF Closure
<1>3. CASE ~WantsText(q)
  <2>1. run.stages = {"layout"}
    BY <1>1, <1>3 DEF StageRun, ParsedOptions, Options, NoRun
  <2>2. TextAlone(q, srv)
    BY <1>3
  <2>3. Asked(q) \subseteq {"layout"}
    BY <2>2 DEF TextAlone, Closure, Asked, Features, Structure
  <2> QED BY <1>1, <2>1, <2>3
<1> QED BY <1>2, <1>3

\* One image: what every endpoint that takes one says.
LEMMA ImageIsComplete ==
  ASSUME NEW srv \in ServerType, NEW img \in ImageType, NEW routing, NEW list, IsList(list),
         NEW spec \in SpecType, spec.layoutOnly, spec.ocr, NEW imageOnly \in BOOLEAN, NEW keys, NEW reads, NEW lost,
         LET run == StageRun(ParsedOptions(query), routing)
         IN  keys = PipelineKeys(Output(run, img.found), On(query, "as_blocks")),
         Codes(list) = {} => Codes(GateChecks(query, spec, srv, imageOnly)) = {},
         SpecAllows(spec) \ reads = lost,
         spec.routing \/ Override(query) = NoRouting => Named(query) \cap RoutingParams \subseteq reads
  PROVE  Complete(Replied(list, StageRun(ParsedOptions(query), routing), keys, Ignored(query, spec)),
                  Asked(query), img.found, reads, lost)
<1>1. PICK run : run = StageRun(ParsedOptions(query), routing)
  OBVIOUS
<1>2. img.found \in SUBSET Shown
  BY DEF ImageType
<1>3. ASSUME Codes(list) = {}
      PROVE  /\ Asked(query) \ {"as_blocks"} \subseteq run.stages
             /\ "as_blocks" \in Asked(query) => {"layout", "reading_order"} \subseteq run.stages
             /\ run.text \/ "layout" \in run.stages \/ "image" \in keys
             /\ PipelineKeys(Output(run, img.found), On(query, "as_blocks")) \subseteq keys
             /\ (Named(query) \cap (SpecAllows(spec) \cup RoutingParams)) \ reads = Named(query) \cap lost
  <2>0. imageOnly \in BOOLEAN
    OBVIOUS
  <2>1. (WantsText(query) \/ TextAlone(query, srv)) /\ (spec.routing \/ Override(query) = NoRouting)
    BY <1>3, <2>0, GateSettles
  <2>2. /\ Asked(query) \ {"as_blocks"} \subseteq run.stages
        /\ "as_blocks" \in Asked(query) => {"layout", "reading_order"} \subseteq run.stages
        /\ run.text \/ "layout" \in run.stages
    BY <1>1, <2>1, StagesOfImage
  <2>3. Named(query) \cap RoutingParams \subseteq reads
    BY <2>1
  <2>4. (Named(query) \cap (SpecAllows(spec) \cup RoutingParams)) \ reads = Named(query) \cap lost
    BY <2>3
  <2> QED BY <1>1, <2>1, <2>2, <2>4
<1>4. Complete(Replied(list, run, keys, Ignored(query, spec)), Asked(query), img.found, reads, lost)
  BY <1>2, <1>3, CompleteWhen
<1> QED BY <1>1, <1>4

\* The specifications of the endpoints that take options.
LEMMA SpecsAre ==
  ASSUME NEW srv \in ServerType
  PROVE  /\ \A spec \in {ImageSpec(srv), PixelsSpec(srv), PdfSpec} :
              spec \in SpecType /\ spec.layoutOnly /\ spec.ocr
         /\ SpecAllows(ImageSpec(srv)) = OcrOptionParams
         /\ SpecAllows(PixelsSpec(srv)) = OcrOptionParams \cup PixelDimParams
         /\ SpecAllows(PdfSpec) = OcrOptionParams \cup PdfParams /\ PdfSpec.routing = FALSE
<1>1. srv.gpu \in BOOLEAN
  BY DEF ServerType
<1>2. ImageSpec(srv) \in SpecType /\ ImageSpec(srv).layoutOnly /\ ImageSpec(srv).ocr
  BY <1>1 DEF ImageSpec, EndpointSpec, SpecType
<1>3. PixelsSpec(srv) \in SpecType /\ PixelsSpec(srv).layoutOnly /\ PixelsSpec(srv).ocr
  BY <1>1 DEF PixelsSpec, ImageSpec, EndpointSpec, SpecType
<1>4. PdfSpec \in SpecType /\ PdfSpec.layoutOnly /\ PdfSpec.ocr /\ PdfSpec.routing = FALSE
  BY DEF PdfSpec, EndpointSpec, SpecType
<1>5. SpecAllows(ImageSpec(srv)) = OcrOptionParams
  <2>1. /\ ImageSpec(srv).ocr /\ ~ImageSpec(srv).pixels /\ ~ImageSpec(srv).pdf
        /\ ~ImageSpec(srv).embed
    BY DEF ImageSpec, EndpointSpec
  <2> QED BY <2>1 DEF SpecAllows
<1>6. SpecAllows(PixelsSpec(srv)) = OcrOptionParams \cup PixelDimParams
  <2>1. /\ PixelsSpec(srv).ocr /\ PixelsSpec(srv).pixels /\ ~PixelsSpec(srv).pdf
        /\ ~PixelsSpec(srv).embed
    BY DEF PixelsSpec, ImageSpec, EndpointSpec
  <2> QED BY <2>1 DEF SpecAllows
<1>7. SpecAllows(PdfSpec) = OcrOptionParams \cup PdfParams
  <2>1. PdfSpec.ocr /\ ~PdfSpec.pixels /\ PdfSpec.pdf /\ ~PdfSpec.embed
    BY DEF PdfSpec, EndpointSpec
  <2> QED BY <2>1 DEF SpecAllows
<1> QED BY <1>2, <1>3, <1>4, <1>5, <1>6, <1>7

\* The checks of the gate.
LEMMA GateIsList ==
  ASSUME NEW q, NEW spec \in SpecType, spec.layoutOnly, spec.ocr, NEW srv, NEW imageOnly \in BOOLEAN
  PROVE  IsList(GateChecks(q, spec, srv, imageOnly))
<1>1. imageOnly \in BOOLEAN
  OBVIOUS
<1> QED BY <1>1, GateCodes

\* Two lists refuse nothing when neither does.
LEMMA NothingLeft ==
  ASSUME NEW a, IsList(a), NEW b, IsList(b)
  PROVE  IsList(a \o b) /\ (Codes(a \o b) = {} <=> Codes(a) = {} /\ Codes(b) = {})
BY CodesOfBoth

\* The check of an inference.
LEMMA InferenceIsList == ASSUME NEW outcome PROVE IsList(HttpInference(outcome))
BY OneCode DEF HttpInference

\* /ocr/raw answers with everything that was asked for.
LEMMA RawIsComplete ==
  ASSUME NEW srv \in ServerType, NEW img \in ImageType
  PROVE  Complete(Raw(query, img, srv), Asked(query), img.found, ImageReads, {})
<1>1. PICK gate, pre, decode, inf, u :
        /\ gate = GateChecks(query, ImageSpec(srv), srv, FALSE)
        /\ pre = PreCheck(img, srv) /\ inf = HttpInference(img.outcome)
        /\ decode = IF srv.gpu /\ srv.nvjpeg /\ img.jpeg /\ WantsText(query)
                    THEN DeviceChecks(img, srv) ELSE HostChecks(img, srv)
        /\ u = <<IF img.present THEN Accepted ELSE "EMPTY_BODY">>
  OBVIOUS
<1>2. RawChecks(query, img, srv) = (((u \o gate) \o pre) \o decode) \o inf
  BY <1>1, Zenon DEF RawChecks, RawDecode, Check
<1>3. /\ IsList(u) /\ IsList(gate) /\ IsList(pre) /\ IsList(decode) /\ IsList(inf)
  <2>1. FALSE \in BOOLEAN
    OBVIOUS
  <2>2. IsList(u)
    BY <1>1, OneCode
  <2>3. IsList(gate)
    BY <1>1, <2>1, SpecsAre, GateIsList
  <2>4. IsList(pre) /\ IsList(decode)
    BY <1>1, PreCodes, HostCodes, DeviceCodes
  <2> QED BY <1>1, <2>2, <2>3, <2>4, InferenceIsList
<1>4. PICK list : list = (((u \o gate) \o pre) \o decode) \o inf
  OBVIOUS
<1>5. IsList(list)
  BY <1>3, <1>4, CodesOfFive
<1>6. Codes(list) = {} => Codes(gate) = {}
  BY <1>3, <1>4, CodesOfFive
<1>7. PICK run, out, keys : /\ run = StageRun(ParsedOptions(query), Applied(Override(query), NoRouting))
                            /\ out = Output(run, img.found)
                            /\ keys = PipelineKeys(out, On(query, "as_blocks"))
  OBVIOUS
<1>8. out \in SUBSET Shown
  <2>1. img.found \in SUBSET Shown
    BY DEF ImageType
  <2> QED BY <1>7, <2>1, OutShown
<1>9. (IF srv.gpu THEN PipelineKeys(out, On(query, "as_blocks"))
       ELSE InferKeys(out, On(query, "as_blocks"))) = keys
  BY <1>7, <1>8, InferKeysAre
<1>10. Raw(query, img, srv) = Replied(list, run, keys, Ignored(query, ImageSpec(srv)))
  BY <1>2, <1>4, <1>7, <1>9, Zenon DEF Raw
<1>11. PICK routing : routing = Applied(Override(query), NoRouting)
  OBVIOUS
<1>12. Complete(Replied(list, StageRun(ParsedOptions(query), routing), keys,
                        Ignored(query, ImageSpec(srv))),
                Asked(query), img.found, ImageReads, {})
  <2>1. FALSE \in BOOLEAN
    OBVIOUS
  <2>2. SpecAllows(ImageSpec(srv)) \ ImageReads = {}
    BY SpecsAre DEF ImageReads
  <2>3. ImageSpec(srv) \in SpecType /\ ImageSpec(srv).layoutOnly /\ ImageSpec(srv).ocr
    BY SpecsAre
  <2>4. Named(query) \cap RoutingParams \subseteq ImageReads
    BY DEF ImageReads
  <2>5. keys = PipelineKeys(Output(StageRun(ParsedOptions(query), routing), img.found),
                            On(query, "as_blocks"))
    BY <1>7, <1>11, Zenon
  <2> QED BY <1>1, <1>5, <1>6, <2>1, <2>2, <2>3, <2>4, <2>5, ImageIsComplete
<1> QED BY <1>7, <1>10, <1>11, <1>12

\* So does /ocr,
LEMMA Base64IsComplete ==
  ASSUME NEW srv \in ServerType, NEW img \in ImageType
  PROVE  Complete(Base64(query, PlainBody, img, srv), Asked(query), img.found,
                  ImageReads, {})
<1>1. PICK gate, routed, pre, decode, inf, body, named :
        /\ gate = GateChecks(query, ImageSpec(srv), srv, FALSE)
        /\ routed = RoutingChecks(PlainBody.routing, ImageSpec(srv), srv)
        /\ pre = PreCheck(img, srv) /\ inf = HttpInference(img.outcome)
        /\ decode = HostChecks(img, srv)
        /\ body = <<Check(PlainBody.json, "INVALID_JSON"), Check(img.present, "MISSING_IMAGE")>>
        /\ named = <<Check(PlainBody.base64, "BASE64_DECODE_FAILED")>>
  OBVIOUS
<1>2. PICK k, list : /\ k = (((gate \o body) \o routed) \o named) \o pre
                     /\ list = (k \o decode) \o inf
  OBVIOUS
<1>3. Base64Checks(query, PlainBody, img, srv) = list
  BY <1>1, <1>2, Zenon DEF Base64Checks
<1>4. /\ IsList(gate) /\ IsList(body) /\ IsList(routed) /\ IsList(named) /\ IsList(pre)
      /\ IsList(decode) /\ IsList(inf)
  <2>1. FALSE \in BOOLEAN
    OBVIOUS
  <2>2. IsList(body) /\ IsList(named)
    <3>1. PICK x, y, z : body = <<x, y>> /\ named = <<z>>
      BY <1>1
    <3> QED BY <3>1, CodesOfFew
  <2>3. IsList(gate)
    BY <1>1, <2>1, SpecsAre, GateIsList
  <2>4. IsList(pre) /\ IsList(decode)
    BY <1>1, PreCodes, HostCodes
  <2>5. IsList(routed)
    BY <1>1, RoutingCodes
  <2> QED BY <1>1, <2>2, <2>3, <2>4, <2>5, InferenceIsList
<1>5. IsList(k)
  BY <1>2, <1>4, CodesOfFive
<1>6. Codes(k) = {} => Codes(gate) = {}
  BY <1>2, <1>4, CodesOfFive
<1>7. IsList(list) /\ (Codes(list) = {} => Codes(k) = {})
  BY <1>2, <1>4, <1>5, CodesOfThree
<1>8. PICK routing : routing = Applied(PlainBody.routing, Applied(Override(query), NoRouting))
  OBVIOUS
<1>9. PICK run, out, keys : /\ run = StageRun(ParsedOptions(query), routing)
                            /\ out = Output(run, img.found)
                            /\ keys = PipelineKeys(out, On(query, "as_blocks"))
  OBVIOUS
<1>10. out \in SUBSET Shown
  <2>1. img.found \in SUBSET Shown
    BY DEF ImageType
  <2> QED BY <1>9, <2>1, OutShown
<1>11. InferKeys(out, On(query, "as_blocks")) = keys
  BY <1>9, <1>10, InferKeysAre
<1>12. Base64(query, PlainBody, img, srv) = Replied(list, run, keys, Ignored(query, ImageSpec(srv)))
  BY <1>3, <1>8, <1>9, <1>11, Zenon DEF Base64
<1>13. Complete(Replied(list, StageRun(ParsedOptions(query), routing), keys,
                        Ignored(query, ImageSpec(srv))),
                Asked(query), img.found, ImageReads, {})
  <2>1. FALSE \in BOOLEAN
    OBVIOUS
  <2>2. SpecAllows(ImageSpec(srv)) \ ImageReads = {}
    BY SpecsAre DEF ImageReads
  <2>3. ImageSpec(srv) \in SpecType /\ ImageSpec(srv).layoutOnly /\ ImageSpec(srv).ocr
    BY SpecsAre
  <2>4. Named(query) \cap RoutingParams \subseteq ImageReads
    BY DEF ImageReads
  <2>5. keys = PipelineKeys(Output(StageRun(ParsedOptions(query), routing), img.found),
                            On(query, "as_blocks"))
    BY <1>9, Zenon
  <2> QED BY <1>1, <1>6, <1>7, <2>1, <2>2, <2>3, <2>4, <2>5, ImageIsComplete
<1> QED BY <1>9, <1>12, <1>13

\* and /ocr/pixels,
LEMMA PixelsIsComplete ==
  ASSUME NEW srv \in ServerType, NEW img \in ImageType, NEW dims
  PROVE  Complete(Pixels(query, dims, img, srv), Asked(query), img.found, PixelsReads, {})
<1>1. PICK gate, size, inf :
        /\ gate = GateChecks(query, PixelsSpec(srv), srv, FALSE)
        /\ size = <<PixelDims(dims.query, dims.header, dims.body, srv).code>>
        /\ inf = HttpInference(img.outcome)
  OBVIOUS
<1>2. PICK list : list = (gate \o size) \o inf
  OBVIOUS
<1>3. PixelsChecks(query, dims, img, srv) = list
  BY <1>1, <1>2, Zenon DEF PixelsChecks
<1>4. IsList(gate) /\ IsList(size) /\ IsList(inf)
  <2>1. FALSE \in BOOLEAN
    OBVIOUS
  <2>2. IsList(gate)
    BY <1>1, <2>1, SpecsAre, GateIsList
  <2>3. IsList(size)
    BY <1>1, OneCode
  <2> QED BY <1>1, <2>2, <2>3, InferenceIsList
<1>5. IsList(list) /\ (Codes(list) = {} => Codes(gate) = {})
  BY <1>2, <1>4, CodesOfThree
<1>8. PICK routing : routing = Applied(Override(query), NoRouting)
  OBVIOUS
<1>9. PICK run, out, keys : /\ run = StageRun(ParsedOptions(query), routing)
                            /\ out = Output(run, img.found)
                            /\ keys = PipelineKeys(out, On(query, "as_blocks"))
  OBVIOUS
<1>10. out \in SUBSET Shown
  <2>1. img.found \in SUBSET Shown
    BY DEF ImageType
  <2> QED BY <1>9, <2>1, OutShown
<1>11. (IF srv.gpu THEN PipelineKeys(out, On(query, "as_blocks"))
        ELSE InferKeys(out, On(query, "as_blocks"))) = keys
  BY <1>9, <1>10, InferKeysAre
<1>12. Pixels(query, dims, img, srv) = Replied(list, run, keys, Ignored(query, PixelsSpec(srv)))
  BY <1>3, <1>8, <1>9, <1>11, Zenon DEF Pixels
<1>13. Complete(Replied(list, StageRun(ParsedOptions(query), routing), keys,
                        Ignored(query, PixelsSpec(srv))),
                Asked(query), img.found, PixelsReads, {})
  <2>1. FALSE \in BOOLEAN
    OBVIOUS
  <2>2. SpecAllows(PixelsSpec(srv)) \ PixelsReads = {}
    BY SpecsAre DEF PixelsReads, ImageReads
  <2>3. PixelsSpec(srv) \in SpecType /\ PixelsSpec(srv).layoutOnly /\ PixelsSpec(srv).ocr
    BY SpecsAre
  <2>4. Named(query) \cap RoutingParams \subseteq PixelsReads
    BY DEF PixelsReads, ImageReads
  <2>5. keys = PipelineKeys(Output(StageRun(ParsedOptions(query), routing), img.found),
                            On(query, "as_blocks"))
    BY <1>9, Zenon
  <2> QED BY <1>1, <1>5, <2>1, <2>2, <2>3, <2>4, <2>5, ImageIsComplete
<1> QED BY <1>9, <1>12, <1>13

\* The checks of a stream, before its first page.
LEMMA StreamCodes ==
  ASSUME NEW q, NEW present, NEW close, NEW srv \in ServerType
  PROVE  /\ IsList(StreamChecks(q, present, close, srv))
         /\ Codes(StreamChecks(q, present, close, srv)) = {} =>
              Codes(GateChecks(q, PdfSpec, srv, TRUE)) = {}
<1>1. PICK u, gate, d, m, i, r :
        /\ u = <<Check(present, "EMPTY_BODY"), Check(~close, Invalid)>>
        /\ gate = GateChecks(q, PdfSpec, srv, TRUE)
        /\ d = DpiCheck(q) /\ m = ModeCheck(q) /\ i = <<Check(ImageParamsValid(q), Invalid)>>
        /\ r = RotateChecks(q, srv)
  OBVIOUS
<1>2. PICK k : k = (((u \o gate) \o d) \o m) \o i
  OBVIOUS
<1>3. StreamChecks(q, present, close, srv) = k \o r
  BY <1>1, <1>2, Zenon DEF StreamChecks
<1>4. IsList(u) /\ IsList(gate) /\ IsList(d) /\ IsList(m) /\ IsList(i) /\ IsList(r)
  <2>1. TRUE \in BOOLEAN
    OBVIOUS
  <2>2. IsList(gate)
    BY <1>1, <2>1, SpecsAre, GateIsList
  <2>3. IsList(d) /\ IsList(m) /\ IsList(r)
    BY <1>1, LengthCodes, RotateCodes
  <2>4. IsList(u) /\ IsList(i)
    <3>1. PICK x, y, z : u = <<x, y>> /\ i = <<z>>
      BY <1>1
    <3> QED BY <3>1, CodesOfFew
  <2> QED BY <2>2, <2>3, <2>4
<1>5. IsList(k)
  BY <1>2, <1>4, CodesOfFive
<1>6. Codes(k) = {} => Codes(gate) = {}
  BY <1>2, <1>4, CodesOfFive
<1>7. IsList(k \o r) /\ (Codes(k \o r) = {} <=> Codes(k) = {} /\ Codes(r) = {})
  BY <1>4, <1>5, NothingLeft
<1> QED BY <1>1, <1>3, <1>6, <1>7

\* An image that is streamed is answered with everything that was asked for.
LEMMA StreamImageIsComplete ==
  ASSUME NEW srv \in ServerType, NEW img \in ImageType
  PROVE  Complete(StreamImage(query, img, FALSE, srv), Asked(query), img.found, StreamImageReads, PdfParams)
<1>1. PICK stream, u, decode, inf :
        /\ stream = StreamChecks(query, img.present, FALSE, srv)
        /\ u = <<Check(WantsText(query) \/ On(query, "layout"), Invalid)>>
        /\ decode = HostChecks(img, srv) /\ inf = HttpInference(img.outcome)
  OBVIOUS
<1>2. PICK k, list : k = (stream \o u) \o decode /\ list = k \o inf
  OBVIOUS
<1>3. PICK run, keys : /\ run = StageRun(ParsedOptions(query), NoRouting)
                       /\ keys = PipelineKeys(Output(run, img.found), On(query, "as_blocks"))
  OBVIOUS
<1>4. StreamImage(query, img, FALSE, srv) = Replied(list, run, keys, Ignored(query, PdfSpec))
  BY <1>1, <1>2, <1>3, Zenon DEF StreamImage
<1>5. IsList(stream) /\ IsList(u) /\ IsList(decode) /\ IsList(inf)
  <2>1. IsList(stream)
    BY <1>1, StreamCodes
  <2>2. IsList(u)
    BY <1>1, OneCode
  <2>3. IsList(decode)
    BY <1>1, HostCodes
  <2> QED BY <1>1, <2>1, <2>2, <2>3, InferenceIsList
<1>6. IsList(k) /\ (Codes(k) = {} => Codes(stream) = {})
  BY <1>2, <1>5, CodesOfThree
<1>7. IsList(list) /\ (Codes(list) = {} => Codes(k) = {})
  BY <1>2, <1>5, <1>6, NothingLeft
<1>8. Codes(stream) = {} => Codes(GateChecks(query, PdfSpec, srv, TRUE)) = {}
  BY <1>1, StreamCodes
<1>9. Complete(Replied(list, StageRun(ParsedOptions(query), NoRouting), keys, Ignored(query, PdfSpec)),
               Asked(query), img.found, StreamImageReads, PdfParams)
  <2>1. TRUE \in BOOLEAN
    OBVIOUS
  <2>2. SpecAllows(PdfSpec) \ StreamImageReads = PdfParams
    <3>1. \A n \in PdfParams : n \notin OcrOptionParams
      BY DEF PdfParams, OcrOptionParams, Features, Structure
    <3> QED BY <3>1, SpecsAre DEF StreamImageReads
  <2>3. PdfSpec \in SpecType /\ PdfSpec.layoutOnly /\ PdfSpec.ocr
    BY SpecsAre
  <2>4. PdfSpec.routing \/ Override(query) = NoRouting =>
          Named(query) \cap RoutingParams \subseteq StreamImageReads
    BY SpecsAre, NoNameNoRoute
  <2>5. keys = PipelineKeys(Output(StageRun(ParsedOptions(query), NoRouting), img.found),
                            On(query, "as_blocks"))
    BY <1>3, Zenon
  <2> QED BY <1>6, <1>7, <1>8, <2>1, <2>2, <2>3, <2>4, <2>5, ImageIsComplete
<1> QED BY <1>3, <1>4, <1>9

\* /ocr/markdown says what was degraded.
LEMMA MarkdownIsSaid ==
  ASSUME NEW srv \in ServerType, NEW img \in ImageType
  PROVE  MarkdownSays(MarkdownPage(query, img, srv), {}, img.found, MarkdownReads)
<1>1. PICK u, gate, x, decode, inf :
        /\ u = <<Check(img.present, "EMPTY_BODY")>>
        /\ gate = GateChecks(query, MarkdownSpec, srv, FALSE)
        /\ x = << Check(srv.layout, "LAYOUT_DISABLED"),
                  Check(Given(query, "embed") => query["embed"] # "0", Invalid) >>
        /\ decode = HostChecks(img, srv) /\ inf = HttpInference(img.outcome)
  OBVIOUS
<1>2. PICK list : list = (((u \o gate) \o x) \o decode) \o inf
  OBVIOUS
<1>3. PICK run : run = StageRun(Options(LoadedStages(srv), TRUE), NoRouting)
  OBVIOUS
<1>4. MarkdownPage(query, img, srv) =
        Replied(list, run, {"markdown"} \cup (Output(run, img.found) \cap Degradation),
                Ignored(query, MarkdownSpec))
  BY <1>1, <1>2, <1>3, Zenon DEF MarkdownPage
<1>5. /\ MarkdownSpec \in SpecType /\ MarkdownSpec.layoutOnly /\ ~MarkdownSpec.ocr
      /\ MarkdownSpec.routing = FALSE
  BY DEF MarkdownSpec, EndpointSpec, SpecType
<1>6. SpecAllows(MarkdownSpec) = MarkdownParams
  <2>1. /\ ~MarkdownSpec.ocr /\ ~MarkdownSpec.pixels /\ ~MarkdownSpec.pdf /\ MarkdownSpec.embed
    BY DEF MarkdownSpec, EndpointSpec
  <2> QED BY <2>1 DEF SpecAllows
<1>7. IsList(gate) /\ \A c : c \in Codes(gate) <=> ParamFault(c, query, MarkdownSpec, srv)
  BY <1>1, <1>5, PlainGateCodes
<1>8. IsList(u) /\ IsList(x) /\ IsList(decode) /\ IsList(inf)
  <2>1. PICK a, b, c : u = <<a>> /\ x = <<b, c>>
    BY <1>1
  <2>2. IsList(u) /\ IsList(x)
    BY <2>1, CodesOfFew
  <2>3. IsList(decode)
    BY <1>1, HostCodes
  <2> QED BY <1>1, <2>2, <2>3, InferenceIsList
<1>9. IsList(list)
  BY <1>2, <1>7, <1>8, CodesOfFive
<1>10. Codes(list) = {} => Codes(gate) = {}
  BY <1>2, <1>7, <1>8, CodesOfFive
<1>11. ASSUME Codes(list) = {}
       PROVE  /\ {} \subseteq run.stages \cup {"as_blocks"}
              /\ Named(query) \cap (SpecAllows(MarkdownSpec) \cup RoutingParams) \subseteq MarkdownReads
  <2>1. ~ParamFault(Invalid, query, MarkdownSpec, srv)
    BY <1>7, <1>10, <1>11
  <2>2. Override(query) = NoRouting
    BY <1>5, <2>1 DEF ParamFault, RoutingFault
  <2> QED BY <1>6, <2>2, NoNameNoRoute DEF MarkdownReads, MarkdownParams
<1>12. MarkdownSays(Replied(list, run, {"markdown"} \cup (Output(run, img.found) \cap Degradation),
                            Ignored(query, MarkdownSpec)), {}, img.found, MarkdownReads)
  BY <1>9, <1>11, MarkdownSaysWhen
<1> QED BY <1>4, <1>12

\* A region is read by an endpoint that is configured, or that may be named.
LEMMA BackendIsKnown ==
  ASSUME NEW body, NEW srv
  PROVE  /\ IsList(BackendNamed(body, srv))
         /\ Codes(BackendNamed(body, srv)) = {} =>
              body.name \in srv.tableNames \cup srv.formulaNames \/ srv.adhoc
<1>1. PICK l : l = BackendNamed(body, srv)
  OBVIOUS
<1>2. CASE body.backend = "name"
  <2>1. PICK u : u = IF body.name \in InferNames(body, srv) THEN Accepted ELSE "ROUTING_UNKNOWN_OVERRIDE"
    OBVIOUS
  <2>2. l = <<u>>
    <3>1. <<Check(body.name \in InferNames(body, srv), "ROUTING_UNKNOWN_OVERRIDE")>> = <<u>>
      BY <2>1, Zenon DEF Check
    <3> QED BY <1>1, <1>2, <3>1 DEF BackendNamed
  <2>3. IsList(<<u>>) /\ \A c : c \in Codes(<<u>>) <=> c # Accepted /\ c = u
    BY OneCode
  <2>4. Codes(<<u>>) = {} => u = Accepted
    BY <2>3
  <2>5. u = Accepted => body.name \in InferNames(body, srv)
    BY <2>1 DEF Accepted
  <2>6. InferNames(body, srv) \subseteq srv.tableNames \cup srv.formulaNames
    BY DEF InferNames
  <2> QED BY <1>1, <2>2, <2>3, <2>4, <2>5, <2>6
<1>3. CASE body.backend = "object"
  <2>1. PICK u, v, w :
          /\ u = IF body.kind = "openai" => srv.adhoc THEN Accepted ELSE "ADHOC_BACKENDS_DISABLED"
          /\ v = IF body.kind \in {"openai", "local"} THEN Accepted ELSE "ROUTING_BAD_KIND"
          /\ w = IF body.kind # "local" THEN Accepted ELSE "ADHOC_LOCAL_DISABLED"
    OBVIOUS
  <2>2. InlineChecks(body, srv) = <<u, v, w>>
    BY <2>1, Zenon DEF InlineChecks, Check
  <2>3. l = <<u, v, w>>
    BY <1>1, <1>3, <2>2 DEF BackendNamed
  <2>4. /\ IsList(<<u, v, w>>)
        /\ \A c : c \in Codes(<<u, v, w>>) <=> c # Accepted /\ c \in {u, v, w}
    BY CodesOfFew
  <2>5. Codes(<<u, v, w>>) = {} => u = Accepted /\ v = Accepted /\ w = Accepted
    BY <2>4
  <2>6. u = Accepted /\ v = Accepted /\ w = Accepted => srv.adhoc
    BY <2>1 DEF Accepted
  <2> QED BY <1>1, <2>3, <2>4, <2>5, <2>6
<1>4. CASE body.backend \notin {"name", "object"}
  <2>1. PICK u : u = Check(FALSE, Invalid)
    OBVIOUS
  <2>2. l = <<u>>
    BY <1>1, <1>4, <2>1 DEF BackendNamed
  <2>3. u = Invalid
    BY <2>1 DEF Check
  <2>4. IsList(<<u>>) /\ \A c : c \in Codes(<<u>>) <=> c # Accepted /\ c = u
    BY OneCode
  <2>5. Codes(<<u>>) # {}
    BY <2>3, <2>4 DEF Accepted, Invalid
  <2> QED BY <1>1, <2>2, <2>4, <2>5
<1> QED BY <1>2, <1>3, <1>4

\* /infer answers in the form of the modality.
LEMMA RegionIsAnswered ==
  ASSUME NEW srv \in ServerType, NEW img, NEW body
  PROVE  RegionAnswered(Infer(query, body, img, srv), body, srv)
<1>1. PICK gate, three, named, base, pre, decode, un, inf :
        /\ gate = GateChecks(query, InferSpec, srv, FALSE)
        /\ three = << Check(body.json, "INVALID_JSON"), Check(img.present, "MISSING_IMAGE"),
                      Check(body.modality \in {"table", "formula"}, Invalid) >>
        /\ named = BackendNamed(body, srv)
        /\ base = <<Check(body.base64, "BASE64_DECODE_FAILED")>>
        /\ pre = PreCheck(img, srv) /\ decode = HostChecks(img, srv)
        /\ un = <<Check(img.outcome # "unavailable", "BACKEND_UNAVAILABLE")>>
        /\ inf = HttpInference(IF img.outcome = "unavailable" THEN "ok" ELSE img.outcome)
  OBVIOUS
<1>2. PICK k, l, list : /\ k = (((gate \o three) \o named) \o base) \o pre
                        /\ l = (k \o decode) \o un /\ list = l \o inf
  OBVIOUS
<1>3. PICK keys, ign : /\ keys = {IF body.modality = "table" THEN "html" ELSE "latex"}
                       /\ ign = Ignored(query, InferSpec)
  OBVIOUS
<1>4. Infer(query, body, img, srv) = Replied(list, NoRun, keys, ign)
  BY <1>1, <1>2, <1>3, Zenon DEF Infer
<1>5. /\ InferSpec \in SpecType /\ InferSpec.layoutOnly /\ ~InferSpec.ocr
      /\ InferSpec.routing = FALSE
  BY DEF InferSpec, EndpointSpec, SpecType
<1>6. SpecAllows(InferSpec) = {}
  <2>1. /\ ~InferSpec.ocr /\ ~InferSpec.pixels /\ ~InferSpec.pdf /\ ~InferSpec.embed
    BY DEF InferSpec, EndpointSpec
  <2> QED BY <2>1 DEF SpecAllows
<1>7. IsList(gate) /\ \A c : c \in Codes(gate) <=> ParamFault(c, query, InferSpec, srv)
  BY <1>1, <1>5, PlainGateCodes
<1>8. /\ IsList(named)
      /\ Codes(named) = {} => body.name \in srv.tableNames \cup srv.formulaNames \/ srv.adhoc
  BY <1>1, BackendIsKnown
<1>9. IsList(three) /\ IsList(base) /\ IsList(un)
  <2>1. PICK a, b, c, d, e : three = <<a, b, c>> /\ base = <<d>> /\ un = <<e>>
    BY <1>1
  <2>2. IsList(three)
    BY <2>1, CodesOfFew
  <2> QED BY <2>1, <2>2, OneCode
<1>10. IsList(pre) /\ IsList(decode) /\ IsList(inf)
  BY <1>1, PreCodes, HostCodes, InferenceIsList
<1>11. IsList(k)
  BY <1>2, <1>7, <1>8, <1>9, <1>10, CodesOfFive
<1>12. Codes(k) = {} => Codes(gate) = {} /\ Codes(named) = {}
  BY <1>2, <1>7, <1>8, <1>9, <1>10, CodesOfFive
<1>13. IsList(l) /\ (Codes(l) = {} => Codes(k) = {})
  BY <1>2, <1>9, <1>10, <1>11, CodesOfThree
<1>14. IsList(list) /\ (Codes(list) = {} => Codes(l) = {})
  BY <1>2, <1>10, <1>13, NothingLeft
<1>15. PICK reply : reply = Replied(list, NoRun, keys, ign)
  OBVIOUS
<1>16. /\ reply.code = Accepted <=> Codes(list) = {}
       /\ reply.code = Accepted => reply.run = NoRun /\ reply.keys = keys /\ reply.ignored = ign
  BY <1>14, <1>15, AcceptedMeans
<1>17. ASSUME reply.code = Accepted
       PROVE  /\ reply.keys = (IF body.modality = "table" THEN {"html"} ELSE {"latex"})
              /\ body.name \in srv.tableNames \cup srv.formulaNames \/ srv.adhoc
              /\ Unsaid(reply, InferReads) = {}
  <2>1. Codes(gate) = {} /\ Codes(named) = {}
    BY <1>12, <1>13, <1>14, <1>16, <1>17
  <2>2. ~ParamFault(Invalid, query, InferSpec, srv)
    BY <1>7, <2>1
  <2>3. Override(query) = NoRouting
    BY <1>5, <2>2 DEF ParamFault, RoutingFault
  <2>4. Named(query) \cap RoutingParams = {}
    BY <2>3, NoNameNoRoute
  <2>5. Named(query) \subseteq ign
    BY <1>3, <1>6, <2>4 DEF Named, Ignored, Unsupported
  <2> QED BY <1>3, <1>8, <1>16, <1>17, <2>1, <2>5 DEF Unsaid
<1> QED BY <1>4, <1>15, <1>17 DEF RegionAnswered

\* One document, page by page.
LEMMA PagesAreComplete ==
  ASSUME NEW srv \in ServerType, NEW found \in SUBSET Shown, NEW list, IsList(list), NEW how,
         NEW reads, NEW lost, (OcrOptionParams \cup PdfParams) \ reads = lost,
         Codes(list) = {} => SomethingToShow(query) /\ Override(query) = NoRouting
  PROVE  LET run == PdfRun(ParsedOptions(query), how, On(query, "autorotate"), Inline(query), FALSE, srv)
         IN  Complete(Replied(list, run, PdfKeys(run, Output(run, found), On(query, "as_blocks")),
                              Ignored(query, PdfSpec)),
                      Asked(query), found, reads, lost)
<1>1. PICK run : run = PdfRun(ParsedOptions(query), how, On(query, "autorotate"), Inline(query), FALSE, srv)
  OBVIOUS
<1>2. /\ run.text = WantsText(query) /\ run.stages = Closure(Asked(query)) \ {"as_blocks"}
      /\ run.image = Inline(query)
  <2>1. ParsedOptions(query).text = WantsText(query) /\ ParsedOptions(query).wants = Closure(Asked(query))
    BY DEF ParsedOptions, Options
  <2>2. PICK o, b, i : o = ParsedOptions(query) /\ b = On(query, "autorotate") /\ i = Inline(query)
    OBVIOUS
  <2>3. run = PdfRun(o, how, b, i, FALSE, srv)
    BY <1>1, <2>2, Zenon
  <2>4. run.text = o.text /\ run.stages = o.wants \ {"as_blocks"} /\ run.image = i
    BY <2>3 DEF PdfRun
  <2> QED BY <2>1, <2>2, <2>4, Zenon
<1>3. PICK out, keys : /\ out = Output(run, found)
                       /\ keys = PdfKeys(run, out, On(query, "as_blocks"))
  OBVIOUS
<1>4. out \in SUBSET Shown
  BY <1>3, OutShown
<1>5. PageKeys(out, On(query, "as_blocks")) = PipelineKeys(out, On(query, "as_blocks"))
  BY <1>4, PageKeysAre
<1>6. PipelineKeys(out, On(query, "as_blocks")) \subseteq keys /\ (Inline(query) => "image" \in keys)
  BY <1>2, <1>3, <1>5 DEF PdfKeys
<1>7. ASSUME Codes(list) = {}
      PROVE  /\ Asked(query) \ {"as_blocks"} \subseteq run.stages
             /\ "as_blocks" \in Asked(query) => {"layout", "reading_order"} \subseteq run.stages
             /\ run.text \/ "layout" \in run.stages \/ "image" \in keys
             /\ PipelineKeys(Output(run, found), On(query, "as_blocks")) \subseteq keys
             /\ (Named(query) \cap (SpecAllows(PdfSpec) \cup RoutingParams)) \ reads =
                  Named(query) \cap lost
  <2>1. Asked(query) \ {"as_blocks"} \subseteq run.stages
    BY <1>2 DEF Closure
  <2>2. "as_blocks" \in Asked(query) => {"layout", "reading_order"} \subseteq run.stages
    BY <1>2 DEF Closure
  <2>3. run.text \/ "layout" \in run.stages \/ "image" \in keys
    <3>1. On(query, "layout") => "layout" \in Asked(query)
      BY DEF Asked, Features
    <3> QED BY <1>2, <1>6, <1>7, <2>1, <3>1 DEF SomethingToShow
  <2>4. (Named(query) \cap (SpecAllows(PdfSpec) \cup RoutingParams)) \ reads = Named(query) \cap lost
    <3>1. Named(query) \cap RoutingParams = {}
      BY <1>7, NoNameNoRoute
    <3> QED BY <3>1, SpecsAre
  <2> QED BY <1>3, <1>6, <2>1, <2>2, <2>3, <2>4
<1>8. Complete(Replied(list, run, keys, Ignored(query, PdfSpec)), Asked(query), found, reads, lost)
  BY <1>7, CompleteWhen
<1> QED BY <1>1, <1>3, <1>8

\* A document that is streamed is answered with everything that was asked for.
LEMMA StreamPdfIsComplete ==
  ASSUME NEW srv \in ServerType, NEW d \in DocumentType
  PROVE  Complete(StreamPdf(query, d, FALSE, srv), Asked(query), d.found,
                  StreamPdfReads, {"markdown", "as_pages"})
<1>1. PICK stream, u, v, w, x, y :
        /\ stream = StreamChecks(query, d.bytes, FALSE, srv)
        /\ u = IF SomethingToShow(query) THEN Accepted ELSE Invalid
        /\ v = Check(d.opens, "INVALID_PDF")
        /\ w = Check(~TooManyPages(d, srv), "PDF_TOO_LARGE")
        /\ x = Check(d.pages > 0, "EMPTY_PDF") /\ y = JobCode(d.status)
  OBVIOUS
<1>2. PICK rest, list : rest = <<u, v, w, x, y>> /\ list = stream \o rest
  OBVIOUS
<1>3. PICK run, how : /\ how = ModeOf(query, srv)
                      /\ run = PdfRun(ParsedOptions(query), how, On(query, "autorotate"),
                                      Inline(query), FALSE, srv)
  OBVIOUS
<1>4. PICK keys : keys = PdfKeys(run, Output(run, d.found), On(query, "as_blocks"))
  OBVIOUS
<1>5. StreamPdf(query, d, FALSE, srv) = Replied(list, run, keys, Ignored(query, PdfSpec))
  <2>1. Check(SomethingToShow(query), Invalid) = u
    BY <1>1, Zenon DEF Check
  <2> QED BY <1>1, <1>2, <1>3, <1>4, <2>1, Zenon DEF StreamPdf
<1>6. /\ IsList(stream)
      /\ Codes(stream) = {} => Codes(GateChecks(query, PdfSpec, srv, TRUE)) = {}
  BY <1>1, StreamCodes
<1>7. IsList(rest) /\ \A c : c \in Codes(rest) <=> c # Accepted /\ c \in {u, v, w, x, y}
  BY <1>2, CodesOfQuint
<1>8. IsList(list) /\ (Codes(list) = {} => Codes(stream) = {} /\ Codes(rest) = {})
  BY <1>2, <1>6, <1>7, NothingLeft
<1>9. ASSUME Codes(list) = {} PROVE SomethingToShow(query) /\ Override(query) = NoRouting
  <2>1. u = Accepted
    BY <1>7, <1>8, <1>9
  <2>2. SomethingToShow(query)
    BY <1>1, <2>1 DEF Accepted, Invalid
  <2>3. TRUE \in BOOLEAN /\ PdfSpec \in SpecType /\ PdfSpec.layoutOnly /\ PdfSpec.ocr
        /\ PdfSpec.routing = FALSE
    BY SpecsAre
  <2>4. Codes(GateChecks(query, PdfSpec, srv, TRUE)) = {}
    BY <1>6, <1>8, <1>9
  <2>5. PdfSpec.routing \/ Override(query) = NoRouting
    BY <2>3, <2>4, GateSettles
  <2> QED BY <2>2, <2>3, <2>5
<1>10. d.found \in SUBSET Shown
  BY DEF DocumentType
<1>11. (OcrOptionParams \cup PdfParams) \ StreamPdfReads = {"markdown", "as_pages"}
  BY DEF StreamPdfReads, EncodeParams, OcrOptionParams, PdfParams, Features, Structure
<1>12. Complete(Replied(list, run, keys, Ignored(query, PdfSpec)), Asked(query), d.found,
                StreamPdfReads, {"markdown", "as_pages"})
  BY <1>3, <1>4, <1>8, <1>9, <1>10, <1>11, PagesAreComplete
<1> QED BY <1>5, <1>12

\* What a document's request that is accepted has settled.
LEMMA RouteSettles ==
  ASSUME NEW q, NEW srv \in ServerType, NEW d \in DocumentType, Codes(PdfRouteChecks(q, d, srv)) = {}
  PROVE  /\ SomethingToShow(q) /\ Override(q) = NoRouting
         /\ Asked(q) # {} \/ On(q, "markdown") => srv.layout
         /\ "tables" \in PdfOptions(q, srv).wants => srv.table
         /\ "formulas" \in PdfOptions(q, srv).wants => srv.formula
         /\ Given(q, "mode") => q["mode"] \in Modes
         /\ On(q, "autorotate") => srv.ori
<1>1. ASSUME NEW c PROVE ~PdfFault(c, q, srv)
  BY PdfRouteCodes
<1>2. ~OptionFault(Invalid, q, srv) /\ ~OptionFault("LAYOUT_DISABLED", q, srv)
  BY <1>1 DEF PdfFault
<1>3. WantsText(q) \/ srv.gpu
  BY <1>2 DEF OptionFault, TextAlone
<1>4. ~ShowFault(Invalid, q, srv)
  BY <1>1 DEF PdfFault
<1>5. SomethingToShow(q)
  BY <1>3, <1>4 DEF ShowFault, SomethingToShow
<1>6. ~ParamFault(Invalid, q, PdfSpec, srv)
  BY <1>1 DEF PdfFault
<1>7. Override(q) = NoRouting
  BY <1>6, SpecsAre DEF ParamFault, RoutingFault
<1>8. ~MarkdownFault("LAYOUT_DISABLED", q, srv)
  BY <1>1 DEF PdfFault
<1>9. Asked(q) # {} \/ On(q, "markdown") => srv.layout
  BY <1>2, <1>8 DEF OptionFault, MarkdownFault
<1>10. /\ ~BackendFault("TABLE_BACKEND_DISABLED", PdfOptions(q, srv).wants, srv)
       /\ ~BackendFault("FORMULA_BACKEND_DISABLED", PdfOptions(q, srv).wants, srv)
  BY <1>1 DEF PdfFault
<1>11. /\ "tables" \in PdfOptions(q, srv).wants => srv.table
       /\ "formulas" \in PdfOptions(q, srv).wants => srv.formula
  BY <1>10 DEF BackendFault
<1>12. ~ModeFault(Invalid, q) /\ ~RotateFault("AUTOROTATE_DISABLED", q, srv)
  BY <1>1 DEF PdfFault
<1>13. (Given(q, "mode") => q["mode"] \in Modes) /\ (On(q, "autorotate") => srv.ori)
  BY <1>12 DEF ModeFault, RotateFault
<1> QED BY <1>5, <1>7, <1>9, <1>11, <1>13

\* The answer of /ocr/pdf.
LEMMA PdfRouteIs ==
  ASSUME NEW q, NEW srv \in ServerType, NEW d \in DocumentType
  PROVE  LET run == PdfRun(PdfOptions(q, srv), ModeOf(q, srv), On(q, "autorotate"), Inline(q),
                           On(q, "markdown"), srv)
             out == Output(run, d.found)
         IN  PdfRoute(q, d, srv) =
               Replied(PdfRouteChecks(q, d, srv), run,
                       IF On(q, "markdown") THEN {"markdown"} \cup (out \cap Degradation)
                       ELSE PdfKeys(run, out, On(q, "as_blocks")),
                       Ignored(q, PdfSpec))
<1>1. PICK run : run = PdfRun(PdfOptions(q, srv), ModeOf(q, srv), On(q, "autorotate"), Inline(q),
                              On(q, "markdown"), srv)
  OBVIOUS
<1>2. PICK m : m = On(q, "markdown")
  OBVIOUS
<1>3. run.markdown = m
  BY <1>1, <1>2 DEF PdfRun
<1> QED BY <1>1, <1>2, <1>3, Zenon DEF PdfRoute

\* /ocr/pdf answers with everything that was asked for.
LEMMA PdfRouteIsComplete ==
  ASSUME NEW srv \in ServerType, NEW d \in DocumentType
  PROVE  IF On(query, "markdown")
         THEN MarkdownSays(PdfRoute(query, d, srv), Asked(query), d.found, PdfReads)
         ELSE Complete(PdfRoute(query, d, srv), Asked(query), d.found, PdfReads, {})
<1>1. PICK list, how : list = PdfRouteChecks(query, d, srv) /\ how = ModeOf(query, srv)
  OBVIOUS
<1>2. IsList(list)
  BY <1>1, PdfRouteCodes
<1>3. Codes(list) = {} => SomethingToShow(query) /\ Override(query) = NoRouting
  BY <1>1, RouteSettles
<1>4. d.found \in SUBSET Shown
  BY DEF DocumentType
<1>5. PICK run : run = PdfRun(PdfOptions(query, srv), how, On(query, "autorotate"), Inline(query),
                              On(query, "markdown"), srv)
  OBVIOUS
<1>6. PICK out : out = Output(run, d.found)
  OBVIOUS
<1>7. PdfRoute(query, d, srv) =
        Replied(list, run, IF On(query, "markdown") THEN {"markdown"} \cup (out \cap Degradation)
                           ELSE PdfKeys(run, out, On(query, "as_blocks")), Ignored(query, PdfSpec))
  BY <1>1, <1>5, <1>6, PdfRouteIs
<1>8. OcrOptionParams \cup PdfParams \subseteq PdfReads /\ (OcrOptionParams \cup PdfParams) \ PdfReads = {}
  BY DEF PdfReads, PdfParams, EncodeParams
<1>9. CASE On(query, "markdown")
  <2>1. PdfRoute(query, d, srv) =
          Replied(list, run, {"markdown"} \cup (Output(run, d.found) \cap Degradation), Ignored(query, PdfSpec))
    BY <1>6, <1>7, <1>9
  <2>2. Asked(query) \subseteq run.stages \cup {"as_blocks"}
    <3>1. Asked(query) \subseteq PdfOptions(query, srv).wants
      BY <1>9 DEF PdfOptions, Options, ParsedOptions, Closure
    <3>2. run.stages = PdfOptions(query, srv).wants \ {"as_blocks"}
      BY <1>5 DEF PdfRun
    <3> QED BY <3>1, <3>2
  <2>3. Codes(list) = {} =>
           /\ Asked(query) \subseteq run.stages \cup {"as_blocks"}
           /\ Named(query) \cap (SpecAllows(PdfSpec) \cup RoutingParams) \subseteq PdfReads
    BY <1>3, <1>8, <2>2, SpecsAre, NoNameNoRoute
  <2>4. MarkdownSays(Replied(list, run, {"markdown"} \cup (Output(run, d.found) \cap Degradation),
                             Ignored(query, PdfSpec)),
                     Asked(query), d.found, PdfReads)
    BY <1>2, <2>3, MarkdownSaysWhen
  <2> QED BY <1>9, <2>1, <2>4
<1>10. CASE ~On(query, "markdown")
  <2>1. PdfOptions(query, srv) = ParsedOptions(query)
    BY <1>10 DEF PdfOptions
  <2>2. On(query, "markdown") = FALSE
    BY <1>10 DEF On
  <2>3. run = PdfRun(ParsedOptions(query), how, On(query, "autorotate"), Inline(query), FALSE, srv)
    BY <1>5, <2>1, <2>2, Zenon
  <2>4. PdfRoute(query, d, srv) =
          Replied(list, run, PdfKeys(run, Output(run, d.found), On(query, "as_blocks")), Ignored(query, PdfSpec))
    BY <1>6, <1>7, <1>10, Zenon
  <2>5. Complete(Replied(list, run, PdfKeys(run, Output(run, d.found), On(query, "as_blocks")),
                         Ignored(query, PdfSpec)),
                 Asked(query), d.found, PdfReads, {})
    BY <1>2, <1>3, <1>4, <1>8, <2>3, PagesAreComplete
  <2> QED BY <1>10, <2>4, <2>5
<1> QED BY <1>9, <1>10

\* What /capabilities offers.
LEMMA OffersAre ==
  ASSUME NEW srv
  PROVE  /\ "layout" \in Offered(srv) <=> srv.layout
         /\ "tables" \in Offered(srv) <=> srv.table
         /\ "formulas" \in Offered(srv) <=> srv.formula
         /\ "autorotate" \in Offered(srv) <=> srv.ori
         /\ Offered(srv) \subseteq {"layout", "tables", "formulas", "autorotate"}
BY DEF Offered

\* What is offered is what is run, and what is offered can be asked for.
LEMMA OfferIsKept ==
  ASSUME NEW q, NEW srv \in ServerType, NEW d \in DocumentType
  PROVE  OfferKept(q, d, srv)
<1>1. PICK list, how, ign, keys : /\ list = PdfRouteChecks(q, d, srv) /\ how = ModeOf(q, srv)
                                  /\ ign = Ignored(q, PdfSpec) /\ keys = PdfRoute(q, d, srv).keys
  OBVIOUS
<1>2. PICK run, reply : /\ run = PdfRun(PdfOptions(q, srv), how, On(q, "autorotate"), Inline(q),
                                        On(q, "markdown"), srv)
                        /\ reply = PdfRoute(q, d, srv)
  OBVIOUS
<1>3. IsList(list)
  BY <1>1, PdfRouteCodes
<1>4. /\ reply.code = Accepted <=> Codes(list) = {}
      /\ reply.code = Accepted => reply.run = run
  <2>1. PICK ks : reply = Replied(list, run, ks, ign)
    BY <1>1, <1>2, PdfRouteIs
  <2> QED BY <1>3, <2>1, AcceptedMeans
<1>5. ASSUME reply.code = Accepted
      PROVE  /\ run.stages \cap (Structure \cup {"layout"}) \subseteq Offered(srv)
             /\ run.rotate => "autorotate" \in Offered(srv)
             /\ run.mode \in OfferedModes(srv)
  <2>1. Codes(PdfRouteChecks(q, d, srv)) = {}
    BY <1>1, <1>4, <1>5
  <2>2. /\ Asked(q) # {} \/ On(q, "markdown") => srv.layout
        /\ "tables" \in PdfOptions(q, srv).wants => srv.table
        /\ "formulas" \in PdfOptions(q, srv).wants => srv.formula
        /\ Given(q, "mode") => q["mode"] \in Modes
        /\ On(q, "autorotate") => srv.ori
    BY <2>1, RouteSettles
  <2>3. /\ run.stages = PdfOptions(q, srv).wants \ {"as_blocks"} /\ run.rotate = On(q, "autorotate")
        /\ run.mode = (IF how = "auto_verified" /\ ~srv.gpu THEN "auto" ELSE how)
    BY <1>2 DEF PdfRun
  <2>4. "layout" \in PdfOptions(q, srv).wants => srv.layout
    <3>1. CASE On(q, "markdown")
      BY <2>2, <3>1
    <3>2. CASE ~On(q, "markdown")
      <4>1. PdfOptions(q, srv).wants = Closure(Asked(q))
        BY <3>2 DEF PdfOptions, ParsedOptions, Options
      <4> QED BY <2>2, <4>1, ClosureIs
    <3> QED BY <3>1, <3>2
  <2>5. run.stages \cap (Structure \cup {"layout"}) \subseteq Offered(srv)
    BY <2>2, <2>3, <2>4, OffersAre DEF Structure
  <2>6. how \in Modes
    <3>1. srv.mode \in Modes
      BY DEF ServerType
    <3> QED BY <1>1, <2>2, <3>1 DEF ModeOf
  <2>7. run.mode \in OfferedModes(srv)
    BY <2>3, <2>6 DEF OfferedModes, Modes
  <2> QED BY <2>2, <2>3, <2>5, <2>7, OffersAre
<1>6. ASSUME OnlyOffered(q, srv), Sound(d, srv)
      PROVE  reply.code = Accepted
  <2>1. \A n \in DOMAIN q : IF n = "mode" THEN q[n] \in OfferedModes(srv)
                            ELSE n \in Offers(srv) /\ q[n] = "1"
    BY <1>6 DEF OnlyOffered
  <2>2. d.form = "raw" /\ d.bytes /\ d.status = "Ok" /\ ~TooManyPages(d, srv)
    BY <1>6 DEF Sound
  <2>3. Offers(srv) \subseteq {"layout", "tables", "formulas", "autorotate"}
    BY OffersAre DEF Offers
  <2>4. DOMAIN q \subseteq {"layout", "tables", "formulas", "autorotate", "mode"}
    BY <2>1, <2>3
  <2>5. \A n \in DOMAIN q : n = "mode" \/ (n \in Offers(srv) /\ q[n] = "1")
    BY <2>1
  <2>6. /\ "mode" \in DOMAIN q => q["mode"] \in Modes
    BY <2>1 DEF OfferedModes
  <2>7. \A n : n # "mode" => WellFormed(q, n)
    BY <2>5 DEF WellFormed, Given
  <2>8. /\ ~Given(q, "text") /\ ~Given(q, "markdown") /\ ~Given(q, "as_pages") /\ ~Given(q, "images")
        /\ ~Given(q, "dpi") /\ ~Given(q, "route_table") /\ ~Given(q, "route_formula")
        /\ ~Given(q, "reading_order") /\ ~Given(q, "as_blocks")
        /\ \A n \in EncodeParams : ~Given(q, n)
    BY <2>4 DEF Given, EncodeParams
  <2>9. WantsText(q) /\ Override(q) = NoRouting /\ ImageParamsValid(q)
    BY <2>8 DEF WantsText, Override, NoRouting, ImageParamsValid
  <2>10. Asked(q) \subseteq Offers(srv)
    BY <2>5 DEF Asked, On, Given, Features, Structure
  <2>11. Asked(q) # {} => srv.layout
    <3>1. Asked(q) \subseteq {"layout", "tables", "formulas"}
      BY <2>8 DEF Asked, On, Features, Structure
    <3>2. "layout" \in Offers(srv) => srv.layout
      BY OffersAre DEF Offers
    <3>3. "tables" \in Offers(srv) \/ "formulas" \in Offers(srv) => srv.layout
      BY DEF Offers, Structure
    <3> QED BY <2>10, <3>1, <3>2, <3>3
  <2>12. ("tables" \in Asked(q) => srv.table) /\ ("formulas" \in Asked(q) => srv.formula)
    BY <2>10, OffersAre DEF Offers
  <2>13. On(q, "autorotate") => srv.ori
    BY <2>5, OffersAre DEF On, Given, Offers
  <2>14. Unsupported(q, PdfSpec) = {}
    BY <2>4, SpecsAre DEF Unsupported, OcrOptionParams, Features, Structure, PdfParams
  <2>15. PdfOptions(q, srv).wants = Closure(Asked(q))
    BY <2>8 DEF PdfOptions, On, ParsedOptions, Options
  <2>16. ASSUME NEW c PROVE ~OptionFault(c, q, srv)
    BY <2>7, <2>9, <2>11 DEF OptionFault, OcrOptionParams, Features, Structure
  <2>17. ASSUME NEW c PROVE ~MarkdownFault(c, q, srv) /\ ~RotateFault(c, q, srv)
    BY <2>7, <2>8, <2>13 DEF MarkdownFault, RotateFault, On
  <2>18. ASSUME NEW c PROVE ~ParamFault(c, q, PdfSpec, srv)
    BY <2>9, <2>14 DEF ParamFault, RoutingFault, NoRouting
  <2>19. ASSUME NEW c PROVE ~BackendFault(c, PdfOptions(q, srv).wants, srv)
    BY <2>12, <2>15, ClosureIs DEF BackendFault, Structure
  <2>20. ASSUME NEW c PROVE ~DpiFault(c, q) /\ ~ModeFault(c, q) /\ ~ShowFault(c, q, srv)
    BY <2>6, <2>8, <2>9 DEF DpiFault, ModeFault, ShowFault, On, SomethingToShow, Given
  <2>21. ASSUME NEW c PROVE ~PdfFault(c, q, srv)
    BY <2>9, <2>16, <2>17, <2>18, <2>19, <2>20 DEF PdfFault
  <2>22. ASSUME NEW c PROVE ~JobFault(c, d, srv) /\ c \notin Codes(ExtractChecks(d))
    BY <2>2, ExtractCodes DEF JobFault
  <2>23. \A c : c \in Codes(list) <=> \/ c \in Codes(ExtractChecks(d)) \/ PdfFault(c, q, srv)
                                      \/ JobFault(c, d, srv)
    BY <1>1, PdfRouteCodes
  <2>24. Codes(list) = {}
    BY <2>21, <2>22, <2>23
  <2> QED BY <1>4, <2>24
<1> QED BY <1>2, <1>4, <1>5, <1>6 DEF OfferKept

\* NothingAskedIsLost, for every server, query, image, size, region and document: an answer
\* with 200 has what was asked for and what was degraded; the parameters its handler does not
\* read are named, but for those of a document that /ocr/stream lets pass and does not read
\* (pdf_stream_route_gpu.cpp); and what /capabilities offers is neither refused nor left out.
THEOREM NothingIsLost == RequestTypeOK => NothingAskedIsLost
<1> SUFFICES ASSUME RequestTypeOK PROVE NothingAskedIsLost
  OBVIOUS
<1>1. server \in ServerType
  BY DEF RequestTypeOK
<1>2. (\A img \in Images : img \in ImageType) /\ (\A d \in Documents : d \in DocumentType)
  BY RequestsAssumption
<1>3. ASSUME NEW img \in Images
      PROVE  /\ Complete(Raw(query, img, server), Asked(query), img.found, ImageReads, {})
             /\ Complete(Base64(query, PlainBody, img, server), Asked(query), img.found, ImageReads, {})
             /\ \A dims \in Dims :
                  Complete(Pixels(query, dims, img, server), Asked(query), img.found, PixelsReads, {})
             /\ MarkdownSays(MarkdownPage(query, img, server), {}, img.found, MarkdownReads)
             /\ \A body \in Regions : \A sent \in {img, Unavailable(img)} :
                  RegionAnswered(Infer(query, body, sent, server), body, server)
             /\ Complete(StreamImage(query, img, FALSE, server), Asked(query), img.found,
                         StreamImageReads, PdfParams)
  <2>1. img \in ImageType
    BY <1>2
  <2> QED BY <1>1, <2>1, RawIsComplete, Base64IsComplete, PixelsIsComplete, MarkdownIsSaid,
             RegionIsAnswered, StreamImageIsComplete
<1>4. ASSUME NEW d \in Documents
      PROVE  /\ OfferKept(query, d, server)
             /\ IF On(query, "markdown")
                THEN MarkdownSays(PdfRoute(query, d, server), Asked(query), d.found, PdfReads)
                ELSE Complete(PdfRoute(query, d, server), Asked(query), d.found, PdfReads, {})
             /\ Complete(StreamPdf(query, d, FALSE, server), Asked(query), d.found,
                         StreamPdfReads, {"markdown", "as_pages"})
  <2>1. d \in DocumentType
    BY <1>2
  <2> QED BY <1>1, <2>1, OfferIsKept, PdfRouteIsComplete, StreamPdfIsComplete
<1> QED BY <1>3, <1>4, Zenon DEF NothingAskedIsLost

==============================================================================
