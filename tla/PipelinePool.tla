----------------------------- MODULE PipelinePool -----------------------------
(* The CPU server's pipelines: how start-up loads the optional models into each of
   them through the pool's own queue, how requests and readiness probes take one
   and give it back, and what one call makes of a page.  A page is what its models
   find: `boxes` detected, of which `legible` decode to usable text, and the
   classes of its regions, of which `blank` yield neither LaTeX nor HTML. *)
EXTENDS Integers, Sequences, FiniteSets

CONSTANTS PoolSize,          \* PIPELINE_POOL_SIZE
          Configured,        \* sets of optional models a deployment asks for
          Clients, Probes,   \* threads of requests, and of /health/ready
          Asks, Pages        \* what the requests want, and of which pages

ASSUME PipelinePoolAssumption == PoolSize \in Nat \ {0} /\ Clients \cap Probes = {}

Threads == Clients \cup Probes
NoPipeline == 0
Serving == 4

VARIABLES idle,     \* pool_: a queue
          models,   \* what load_* has put into each pipeline
          boot,     \* the stage that start-up is loading, and its round
          stages,   \* CpuStageAvailability
          users     \* the threads that take pipelines
ppvars == <<idle, models, boot, stages, users>>

NoAnswer == [results |-> 0, layout |-> <<>>, tables |-> {}, formulas |-> {}, degraded |-> {}]
Away == [pc |-> "away", lease |-> NoPipeline, want |-> {}, page |-> "none", out |-> NoAnswer]

(* A pipeline whose detector, recogniser or classifier does not load is left out. *)
PpInit ==
  /\ \E n \in 1 .. PoolSize :
       /\ idle = [i \in 1 .. n |-> i]
       /\ models = [i \in 1 .. n |-> {}]
  /\ boot \in [stage : {1}, round : {0}, want : Configured]
  /\ stages = {}
  /\ users = [t \in Threads |-> Away]

----------------------------------------------------------------------------
(* load_cpu_stages: for each stage, one lease after the other, PoolSize times. *)

Loads == << {"layout"}, {"formula", "table"}, {"doc_ori"} >>
Wanted == boot.want \cap Loads[boot.stage]
\* Mutant of GivenBack: the pipelines are a stack.
GivenBackFirst(rest, p) == <<p>> \o rest
GivenBack(rest, p) == Append(rest, p)
NextStage == boot' = [boot EXCEPT !.stage = @ + 1, !.round = 0]

SkipsStage ==
  /\ boot.stage < Serving /\ Wanted = {}
  /\ NextStage
  /\ UNCHANGED <<idle, models, stages, users>>

LoadsIntoOne ==
  /\ boot.stage < Serving /\ Wanted # {}
  /\ LET p == Head(idle)
     IN  /\ models' = [models EXCEPT ![p] = @ \cup Wanted]
         /\ idle' = GivenBack(Tail(idle), p)
  /\ IF boot.round + 1 = PoolSize THEN NextStage /\ stages' = stages \cup Wanted
     ELSE boot' = [boot EXCEPT !.round = @ + 1] /\ UNCHANGED stages
  /\ UNCHANGED users

(* A layout or an orientation model that does not load switches its stage off;
   with a table or formula backend the server refuses to start. *)
LoadFails ==
  /\ boot.stage < Serving /\ Wanted # {}
  /\ IF boot.stage = 2 THEN boot' = [boot EXCEPT !.stage = Serving + 1] /\ UNCHANGED idle
     ELSE NextStage /\ idle' = GivenBack(Tail(idle), Head(idle))
  /\ UNCHANGED <<models, stages, users>>

----------------------------------------------------------------------------
(* run_with_layout *)

Of(page, class) == {i \in DOMAIN page.regions : page.regions[i] = class}

CpuRun(page, want, has) ==
  LET regions == IF "layout" \in want \cap has THEN page.regions ELSE <<>>
      read(class) == IF class \in want \cap has /\ regions # <<>> THEN Of(page, class) ELSE {}
      degraded(class) == IF read(class) \cap page.blank # {} THEN {class} ELSE {}
  IN  [results |-> page.legible, layout |-> regions,
       tables |-> read("table"), formulas |-> read("formula"),
       degraded |-> degraded("table") \cup degraded("formula")
                      \cup (IF page.boxes > 0 /\ page.legible = 0 THEN {"text"} ELSE {})]

----------------------------------------------------------------------------
(* acquire, try_acquire_for, release *)

At(t, pc) == users[t].pc = pc
Takes(t) ==
  /\ users' = [users EXCEPT ![t].pc = "running", ![t].lease = Head(idle)]
  /\ idle' = Tail(idle)
Sleeps(t) == users' = [users EXCEPT ![t].pc = "asleep"] /\ UNCHANGED idle
TakesOrSleeps(t, asking) ==
  IF idle # <<>>
  THEN /\ users' = [users EXCEPT ![t] = [asking EXCEPT !.pc = "running", !.lease = Head(idle)]]
       /\ idle' = Tail(idle)
  ELSE users' = [users EXCEPT ![t] = [asking EXCEPT !.pc = "asleep"]] /\ UNCHANGED idle

(* The routes let no request in that wants what start-up did not load. *)
Acquires(t) ==
  /\ boot.stage = Serving /\ t \in Clients /\ At(t, "away")
  /\ \E want \in {a \in Asks : a \subseteq stages}, page \in DOMAIN Pages :
       TakesOrSleeps(t, [Away EXCEPT !.want = want, !.page = page])
  /\ UNCHANGED <<models, boot, stages>>

ProbeAcquires(t) ==
  /\ boot.stage = Serving /\ t \in Probes /\ At(t, "away")
  /\ TakesOrSleeps(t, Away)
  /\ UNCHANGED <<models, boot, stages>>

(* Notified or for no reason, the thread looks at the queue again. *)
Wakes(t) ==
  /\ At(t, "woken")
  /\ IF idle # <<>> THEN Takes(t) ELSE Sleeps(t)
  /\ UNCHANGED <<models, boot, stages>>
WakesForNoReason(t) ==
  /\ At(t, "asleep")
  /\ users' = [users EXCEPT ![t].pc = "woken"]
  /\ UNCHANGED <<idle, models, boot, stages>>

\* Mutant of LooksOnceMore: a probe that is out of time leaves without a look.
LeavesAtOnce == FALSE
LooksOnceMore == idle # <<>>

(* The probe's 250 ms are over, perhaps just as it was notified. *)
TimesOutOrTakes(t) ==
  /\ t \in Probes /\ users[t].pc \in {"asleep", "woken"}
  /\ IF LooksOnceMore THEN Takes(t)
     ELSE users' = [users EXCEPT ![t] = [Away EXCEPT !.pc = "done"]] /\ UNCHANGED idle
  /\ UNCHANGED <<models, boot, stages>>

Notified(w) == [users EXCEPT ![w].pc = "woken"]
Releases(t, end, out) ==
  /\ At(t, "running")
  /\ idle' = GivenBack(idle, users[t].lease)
  /\ LET after(threads) ==
           [threads EXCEPT ![t] = [@ EXCEPT !.pc = end, !.lease = NoPipeline, !.out = out]]
         asleep == {w \in Threads : At(w, "asleep")}
     IN  IF asleep = {} THEN users' = after(users)
         ELSE \E w \in asleep : users' = after(Notified(w))
  /\ UNCHANGED <<models, boot, stages>>

Runs(t) ==
  /\ t \in Clients
  /\ Releases(t, "done", CpuRun(Pages[users[t].page], users[t].want, models[users[t].lease]))
Throws(t) == t \in Clients /\ Releases(t, "threw", NoAnswer)
LetsGo(t) == t \in Probes /\ Releases(t, "done", NoAnswer)

PpNext ==
  \/ SkipsStage \/ LoadsIntoOne \/ LoadFails
  \/ \E t \in Threads :
       \/ Acquires(t) \/ ProbeAcquires(t) \/ Wakes(t) \/ WakesForNoReason(t)
       \/ TimesOutOrTakes(t) \/ Runs(t) \/ Throws(t) \/ LetsGo(t)

(* A call ends, a woken thread gets the mutex, and a probe's time runs out. *)
PpFairness ==
  \A t \in Threads : /\ WF_ppvars(Runs(t) \/ Throws(t) \/ LetsGo(t))
                     /\ WF_ppvars(Wakes(t))
                     /\ WF_ppvars(TimesOutOrTakes(t))

----------------------------------------------------------------------------
(* Every request that waits for a pipeline gets one, though acquire() has no time
   limit and a probe that is about to give up may be the one that is notified. *)
EveryAcquireReturns == \A t \in Clients : At(t, "asleep") ~> At(t, "done") \/ At(t, "threw")

(* A feature that the routes offer is on every pipeline a request may be given:
   its page comes back with the layout, and with an entry or a degraded flag for
   each region that it asked about. *)
ServesWhatItOffers ==
  \A t \in Clients : At(t, "running") \/ At(t, "done") =>
    LET page == Pages[users[t].page]  want == users[t].want  out == users[t].out
    IN  /\ At(t, "running") => want \subseteq models[users[t].lease]
        /\ At(t, "done") =>
             /\ "layout" \in want => out.layout = page.regions
             /\ {"layout", "table"} \subseteq want => out.tables = Of(page, "table")
             /\ {"layout", "formula"} \subseteq want => out.formulas = Of(page, "formula")
=============================================================================
