------------------------------ MODULE Readiness ------------------------------
(* The readiness probe of the GPU server: a bounded pass over the GPU whose
   verdict is kept for five seconds, one pass at a time.  The HTTP route and the
   background refresher run it; gRPC Health reads what it left. *)
EXTENDS Integers, Sequences

CONSTANTS Checkers,   \* the threads that call readiness()
          Ttl,        \* 5000 ms
          MaxClock    \* bound: how long TLC follows the clock

ASSUME ReadinessAssumption == Ttl \in Nat \ {0} /\ "nobody" \notin Checkers

NoProber == "nobody"

VARIABLES clock,      \* steady_clock
          ready,      \* probe->ok
          stamp,      \* probe->last_check_ms
          prober,     \* probe->mu
          checks,     \* what each call has read so far
          draining,   \* g_shutdown_requested
          passes      \* the passes whose verdict was stored, in order (history)
rdvars == <<clock, ready, stamp, prober, checks, draining, passes>>

\* `began` and `refused` tell of the pass a call makes, `seen` of the passes that
\* were stored when it took its verdict.
Check0 == [pc |-> "idle", now |-> 0, says |-> FALSE, began |-> 0, refused |-> FALSE, seen |-> 0]

(* main() has seeded the cache with one call before anything can probe. *)
RdInit ==
  /\ clock = 0 /\ stamp = 0
  /\ ready \in BOOLEAN
  /\ passes = <<[began |-> 0, refused |-> FALSE, says |-> ready]>>
  /\ prober = NoProber
  /\ checks = [c \in Checkers |-> Check0]
  /\ draining = FALSE

CheckAt(c, pc) == checks[c].pc = pc
Fresh(c) == checks[c].now - stamp < Ttl
AnswersFromCache(c) ==
  checks' = [checks EXCEPT ![c].pc = "answered", ![c].says = ready, ![c].seen = Len(passes)]

----------------------------------------------------------------------------
Begins(c) == checks[c].pc \in {"idle", "answered", "refused", "busy"}

Refuses(c) ==
  /\ Begins(c) /\ draining
  /\ checks' = [checks EXCEPT ![c] = [Check0 EXCEPT !.pc = "refused"]]
  /\ UNCHANGED <<clock, ready, stamp, prober, draining, passes>>

(* The work pool is full: busy, not broken, and nothing is read, the flag neither. *)
SaysBusy(c) ==
  /\ Begins(c)
  /\ checks' = [checks EXCEPT ![c] = [Check0 EXCEPT !.pc = "busy", !.says = TRUE]]
  /\ UNCHANGED <<clock, ready, stamp, prober, draining, passes>>

ReadsClock(c) ==
  /\ Begins(c) /\ ~draining
  /\ checks' = [checks EXCEPT ![c] = [Check0 EXCEPT !.pc = "stamp", !.now = clock]]
  /\ UNCHANGED <<clock, ready, stamp, prober, draining, passes>>

ReadsStamp(c) ==
  /\ CheckAt(c, "stamp")
  /\ checks' = [checks EXCEPT ![c].pc = IF Fresh(c) THEN "cached" ELSE "lock"]
  /\ UNCHANGED <<clock, ready, stamp, prober, draining, passes>>

ReadsVerdict(c) ==
  /\ CheckAt(c, "cached")
  /\ AnswersFromCache(c)
  /\ UNCHANGED <<clock, ready, stamp, prober, draining, passes>>

(* Another thread may have refreshed the cache while this one waited. *)
LocksAndRechecks(c) ==
  /\ CheckAt(c, "lock") /\ prober = NoProber
  /\ IF Fresh(c) THEN AnswersFromCache(c) /\ UNCHANGED prober
     ELSE /\ prober' = c
          /\ checks' = [checks EXCEPT ![c].pc = "probe", ![c].began = clock]
  /\ UNCHANGED <<clock, ready, stamp, draining, passes>>

(* One pass through the dispatcher: the GPU's verdict, or a full queue, which
   keeps the last one. *)
PassGives(c, verdict, full) ==
  checks' = [checks EXCEPT ![c].pc = "store", ![c].says = verdict, ![c].refused = full]
ProbeEnds(c) ==
  /\ CheckAt(c, "probe")
  /\ \/ \E verdict \in BOOLEAN : PassGives(c, verdict, FALSE)
     \/ PassGives(c, ready, TRUE)
  /\ UNCHANGED <<clock, ready, stamp, prober, draining, passes>>

\* Mutant of StampOf: the end of the pass is what is remembered.
StampAtTheEnd(c) == clock
StampOf(c) == checks[c].now

StoresFirst == "verdict"

ThisPass(c) ==
  [began |-> checks[c].began, refused |-> checks[c].refused, says |-> checks[c].says]
StoresVerdict(c) == ready' = checks[c].says /\ passes' = Append(passes, ThisPass(c))
StoresStamp(c) == stamp' = StampOf(c)
Stores(c) ==
  /\ CheckAt(c, "store")
  /\ IF StoresFirst = "verdict" THEN StoresVerdict(c) /\ UNCHANGED stamp
     ELSE StoresStamp(c) /\ UNCHANGED <<ready, passes>>
  /\ checks' = [checks EXCEPT ![c].pc = "stored"]
  /\ UNCHANGED <<clock, prober, draining>>
Unlocks(c) ==
  /\ CheckAt(c, "stored")
  /\ IF StoresFirst = "verdict" THEN StoresStamp(c) /\ UNCHANGED <<ready, passes>>
     ELSE StoresVerdict(c) /\ UNCHANGED stamp
  /\ checks' = [checks EXCEPT ![c].pc = "answered", ![c].seen = Len(passes')]
  /\ prober' = NoProber
  /\ UNCHANGED <<clock, draining>>

----------------------------------------------------------------------------
Tick == clock < MaxClock /\ clock' = clock + 1
        /\ UNCHANGED <<ready, stamp, prober, checks, draining, passes>>
Shutdown == ~draining /\ draining' = TRUE
            /\ UNCHANGED <<clock, ready, stamp, prober, checks, passes>>

RdNext ==
  \/ \E c \in Checkers :
       \/ Refuses(c) \/ SaysBusy(c) \/ ReadsClock(c) \/ ReadsStamp(c) \/ ReadsVerdict(c)
       \/ LocksAndRechecks(c) \/ ProbeEnds(c) \/ Stores(c) \/ Unlocks(c)
  \/ Tick \/ Shutdown

----------------------------------------------------------------------------
\* `verdict` is what the GPU gave on the last of the first n passes that the
\* queue did not refuse.
LastWord(verdict, n) ==
  \E j \in 1 .. n :
    /\ ~passes[j].refused /\ passes[j].says = verdict
    /\ \A k \in j + 1 .. n : passes[k].refused

(* What a call answers is the GPU's last word among the passes it could know of,
   and the last of these began less than five seconds before the call read the
   clock, however long passes last and however long the call waited.  So what it
   says is older only if every pass since was refused by a full queue, and while
   the queue stays full there is no limit to its age.  And the flag gRPC Health
   reads is the GPU's last word at any time, of whatever age. *)
FreshVerdict ==
  /\ \A c \in Checkers :
       CheckAt(c, "answered") =>
         /\ LastWord(checks[c].says, checks[c].seen)
         /\ passes[checks[c].seen].began > checks[c].now - Ttl
  /\ LastWord(ready, Len(passes))
=============================================================================
