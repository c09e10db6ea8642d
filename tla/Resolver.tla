---- MODULE Resolver ----
(***************************************************************************)
(* What every asynchronous stage of the server promises its callers: work  *)
(* that is taken in gets exactly one outcome, which never changes.  The    *)
(* dispatcher's futures and the VLM pool's promises both implement it.     *)
(***************************************************************************)
CONSTANTS
  Requests,   \* everything a caller may submit
  Outcomes,   \* what a future may hold
  Pending     \* the state of a future nobody has set: no outcome

VARIABLES
  accepted,   \* the requests whose caller holds a future
  outcome     \* the state of each request's future

resolverVars == <<accepted, outcome>>

Init ==
  /\ accepted = {}
  /\ outcome = [r \in Requests |-> Pending]

\* A request is taken in with an open future.
Accept(r) ==
  /\ r \in Requests \ accepted
  /\ accepted' = accepted \cup {r}
  /\ UNCHANGED outcome

\* A request is answered on the spot.
Refuse(r, o) ==
  /\ r \in Requests \ accepted
  /\ accepted' = accepted \cup {r}
  /\ outcome' = [outcome EXCEPT ![r] = o]

\* Several open futures may be set by one step (a shutdown resolves a batch).
Resolve(S) ==
  /\ S # {} /\ S \subseteq accepted
  /\ \A r \in S : outcome[r] = Pending
  /\ \E o \in [S -> Outcomes] :
       outcome' = [r \in Requests |-> IF r \in S THEN o[r] ELSE outcome[r]]
  /\ UNCHANGED accepted

Next ==
  \/ \E r \in Requests : Accept(r)
  \/ \E r \in Requests, o \in Outcomes : Refuse(r, o)
  \/ \E S \in SUBSET Requests : Resolve(S)

Spec == Init /\ [][Next]_resolverVars

\* The service of a stage that cannot be wedged: every request is answered.
LiveSpec == Spec /\ \A r \in Requests : r \in accepted ~> outcome[r] # Pending

====
