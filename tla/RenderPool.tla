------------------------------ MODULE RenderPool ------------------------------
(* The pool of renderer daemons: one process and one pair of pipes for each
   slot, one mutex around them, the commands of the renders that share them, and
   the recovery of a slot whose daemon is dead or does not answer.  The daemon
   program is external: it answers its commands in order, late or never, and may
   die.  What a render does with its pages is in module PdfJob. *)
EXTENDS Naturals, Sequences, FiniteSets, SequencesExt

CONSTANTS Daemons, Renders,
          Hints,                       \* where the threads left off before
          MaxFaults                    \* bound on the deaths and failed forks injected

ASSUME RenderPoolAssumption ==
  Daemons \in Nat \ {0} /\ Hints \subseteq Nat /\ "nobody" \notin Renders

Slots == 0 .. Daemons - 1
Nobody == "nobody"
NoProcess == 0

VARIABLES procs,    \* the processes forked so far: their state and their pipes
          slots,    \* daemons_: pid, and the process behind the pipe handles
          holder,   \* the mutex of each slot
          calls,    \* what each render is doing
          open,     \* the renderer has not been destroyed
          faults    \* deaths and failed forks so far
rpvars == <<procs, slots, holder, calls, open, faults>>

Pids == DOMAIN procs
Forked == [st |-> "up", in |-> <<>>, out |-> <<>>]
Gone == [st |-> "reaped", in |-> <<>>, out |-> <<>>]
Dead(pid) == procs[pid].st = "dead"
Readable(pipes) == pipes # NoProcess /\ ~Dead(pipes)

NewCall(h) == [pc |-> "idle", hint |-> h, seen |-> 0, slot |-> 0, attempt |-> 0,
               got |-> Nobody, hurt |-> FALSE]

(* The constructor forks every daemon and sees that they stay up. *)
RpInit ==
  /\ procs = [p \in 1 .. Daemons |-> Forked]
  /\ slots = [d \in Slots |-> [pid |-> d + 1, pipes |-> d + 1]]
  /\ holder = [d \in Slots |-> Nobody]
  /\ calls \in [Renders -> {NewCall(h) : h \in Hints}]
  /\ open = TRUE
  /\ faults = 0

----------------------------------------------------------------------------
(* acquire_daemon: from the thread's hint, the first mutex that is free; when
   none was, the one of the hint, however long that takes. *)

Candidate(r) == (calls[r].hint + calls[r].seen) % Daemons
After(d) == (d + 1) % Daemons

Taken(r, d) ==
  /\ holder' = [holder EXCEPT ![d] = r]
  /\ calls' = [calls EXCEPT ![r].pc = "write", ![r].slot = d, ![r].attempt = 1, ![r].seen = 0,
                            ![r].hint = After(d)]

TryLock(r) ==
  /\ open /\ calls[r].pc = "idle" /\ calls[r].seen < Daemons
  /\ IF holder[Candidate(r)] = Nobody THEN Taken(r, Candidate(r))
     ELSE calls' = [calls EXCEPT ![r].seen = @ + 1] /\ UNCHANGED holder
  /\ UNCHANGED <<procs, slots, open, faults>>

Lock(r) ==
  /\ open /\ calls[r].pc = "idle" /\ calls[r].seen = Daemons
  /\ holder[calls[r].hint % Daemons] = Nobody
  /\ Taken(r, calls[r].hint % Daemons)
  /\ UNCHANGED <<procs, slots, open, faults>>

----------------------------------------------------------------------------
(* send_cmd_once: a command line into the pipe and a reply line out of it. *)

Slot(r) == slots[calls[r].slot]

(* The first failure is taken for a crash; the second one is final. *)
Fails(r, own) ==
  calls' = [calls EXCEPT ![r].pc = IF calls[r].attempt = 1 THEN "respawn" ELSE "failed",
                         ![r].hurt = @ \/ own]

(* No handles since a failed respawn, or nobody reads the pipe any more. *)
WriteFails(r) ==
  /\ calls[r].pc = "write"
  /\ ~Readable(Slot(r).pipes)
  /\ Fails(r, calls[r].attempt = 2)
  /\ UNCHANGED <<procs, slots, holder, open, faults>>

Write(r) ==
  /\ calls[r].pc = "write"
  /\ Readable(Slot(r).pipes)
  /\ procs' = [procs EXCEPT ![Slot(r).pipes].in = Append(@, r)]
  /\ calls' = [calls EXCEPT ![r].pc = "read"]
  /\ UNCHANGED <<slots, holder, open, faults>>

Reply(r) ==
  /\ calls[r].pc = "read" /\ procs[Slot(r).pipes].out # <<>>
  /\ procs' = [procs EXCEPT ![Slot(r).pipes].out = Tail(@)]
  /\ calls' = [calls EXCEPT ![r].pc = "rendered", ![r].got = Head(procs[Slot(r).pipes].out)]
  /\ UNCHANGED <<slots, holder, open, faults>>

EndOfFile(r) ==
  /\ calls[r].pc = "read" /\ procs[Slot(r).pipes].out = <<>> /\ Dead(Slot(r).pipes)
  /\ Fails(r, TRUE)
  /\ UNCHANGED <<procs, slots, holder, open, faults>>

(* PDF_RENDER_REPLY_TIMEOUT_MS runs out on a daemon that may be about to answer. *)
GivesUp(r) == procs[Slot(r).pipes].out = <<>>
TimesOut(r) ==
  /\ calls[r].pc = "read" /\ ~Dead(Slot(r).pipes) /\ GivesUp(r)
  /\ Fails(r, TRUE)
  /\ UNCHANGED <<procs, slots, holder, open, faults>>

----------------------------------------------------------------------------
(* respawn_daemon and spawn_daemon, under the mutex *)

\* Mutant of Reaped: the child is waited for, but not killed.
ReapedIfDead(pid) ==
  IF pid # NoProcess /\ Dead(pid) THEN [procs EXCEPT ![pid] = Gone] ELSE procs
(* The old child is killed if it still runs, and waited for. *)
Reaped(pid) == IF pid # NoProcess THEN [procs EXCEPT ![pid] = Gone] ELSE procs

Emptied(d) == [pid |-> NoProcess, pipes |-> NoProcess]

Respawn(r) ==
  /\ calls[r].pc = "respawn"
  /\ LET d == calls[r].slot
         pid == Len(procs) + 1
     IN  /\ procs' = Append(Reaped(slots[d].pid), Forked)
         /\ slots' = [slots EXCEPT ![d] = [pid |-> pid, pipes |-> pid]]
  /\ calls' = [calls EXCEPT ![r].pc = "write", ![r].attempt = 2]
  /\ UNCHANGED <<holder, open, faults>>

(* No pipe or no fork: the slot is left dead, for a later request to try. *)
RespawnFails(r) ==
  /\ calls[r].pc = "respawn" /\ faults < MaxFaults
  /\ faults' = faults + 1
  /\ LET d == calls[r].slot
     IN  /\ procs' = Reaped(slots[d].pid)
         /\ slots' = [slots EXCEPT ![d] = Emptied(d)]
  /\ calls' = [calls EXCEPT ![r].pc = "failed", ![r].hurt = TRUE]
  /\ UNCHANGED <<holder, open>>

(* fdopen fails on a child that is there already. *)
HandlesFail(r) ==
  /\ calls[r].pc = "respawn" /\ faults < MaxFaults
  /\ faults' = faults + 1
  /\ LET d == calls[r].slot
     IN  /\ procs' = Append(Reaped(slots[d].pid), Forked)
         /\ slots' = [slots EXCEPT ![d] = [pid |-> Len(procs) + 1, pipes |-> NoProcess]]
  /\ calls' = [calls EXCEPT ![r].pc = "failed", ![r].hurt = TRUE]
  /\ UNCHANGED <<holder, open>>

(* The guard lets go of the mutex, and the result or the error goes on. *)
Released(r) == [holder EXCEPT ![calls[r].slot] = Nobody]
Leave(r) ==
  /\ calls[r].pc \in {"rendered", "failed"}
  /\ holder' = Released(r)
  /\ calls' = [calls EXCEPT ![r] =
       [NewCall(0) EXCEPT !.pc = IF calls[r].pc = "rendered" THEN "done" ELSE "threw"]]
  /\ UNCHANGED <<procs, slots, open, faults>>

----------------------------------------------------------------------------
(* The daemons, and the end of the renderer *)

Answer(p) ==
  /\ procs[p].st = "up" /\ procs[p].in # <<>>
  /\ procs' = [procs EXCEPT ![p].in = Tail(@), ![p].out = Append(@, Head(procs[p].in))]
  /\ UNCHANGED <<slots, holder, calls, open, faults>>

Die(p) ==
  /\ procs[p].st = "up" /\ faults < MaxFaults
  /\ faults' = faults + 1
  /\ procs' = [procs EXCEPT ![p].st = "dead", ![p].in = <<>>]
  /\ UNCHANGED <<slots, holder, calls, open>>

Ended(r) == calls[r].pc \in {"done", "threw"}

(* ~PdfRenderer: QUIT, close, and wait or kill, one slot after the other. *)
Destroy ==
  /\ open /\ \A r \in Renders : Ended(r)
  /\ open' = FALSE
  /\ procs' = [p \in Pids |->
       IF \E d \in Slots : slots[d].pid = p THEN Gone ELSE procs[p]]
  /\ UNCHANGED <<slots, holder, calls, faults>>

RenderStep(r) ==
  \/ TryLock(r) \/ Lock(r) \/ WriteFails(r) \/ Write(r) \/ Reply(r) \/ EndOfFile(r)
  \/ TimesOut(r) \/ Respawn(r) \/ Leave(r)
RpNext ==
  \/ \E r \in Renders : RenderStep(r) \/ RespawnFails(r) \/ HandlesFail(r)
  \/ \E p \in Pids : Answer(p) \/ Die(p)
  \/ Destroy

(* The threads of the renders go on and the clock too; no daemon has to answer. *)
RpFairness == (\A r \in Renders : WF_rpvars(RenderStep(r))) /\ WF_rpvars(Destroy)

----------------------------------------------------------------------------
(* No process outlives the pool's knowledge of it: one that was forked and not
   waited for is the child of just one slot, whatever failed half-way, and none
   is left when the renderer is gone. *)
NoOrphans ==
  /\ \A p \in Pids : procs[p].st # "reaped" =>
       open /\ Cardinality({d \in Slots : slots[d].pid = p}) = 1
  /\ \A d \in Slots : slots[d].pid # NoProcess /\ open => procs[slots[d].pid].st # "reaped"

(* A render fails by what happened while it held its daemon: a slot that an
   earlier one left dead or without handles costs the next a fork, not its
   pages. *)
SlotsRecover == \A r \in Renders : calls[r].pc = "failed" => calls[r].hurt

\* The pool of daemons is whole after whatever became of one of them.
PoolKept == NoOrphans /\ SlotsRecover

(* Every render returns or throws, also one that waits for a mutex, and the
   renderer can be destroyed. *)
RendersEnd == <>(~open)

(* "Single write+read round-trip to the daemon": what a render reads is the
   answer to its own command. *)
ReplyIsOwn == \A r \in Renders : calls[r].got \in {Nobody, r}
=============================================================================
