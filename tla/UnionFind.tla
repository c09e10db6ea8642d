----------------------------- MODULE UnionFind -----------------------------
(***************************************************************************)
(* The lock-free union-find of the GPU's component labelling: one thread   *)
(* per block of pixels unites its block with those it touches, by hooking  *)
(* the root with the larger number to the other one.  A link always points *)
(* to a smaller number, and a block is the number of its top left pixel.   *)
(*                                                                         *)
(* Parents are read and halved with plain loads and stores, which the      *)
(* multiprocessors' caches do not keep coherent: a load may return any     *)
(* value the word has held since the kernel began.  Only the hook is an    *)
(* atomic operation on the word itself.                                    *)
(***************************************************************************)
EXTENDS Integers, Sequences

CONSTANT NumBlocks

ASSUME NumBlocksAssumption == NumBlocks \in Nat \ {0}

Blocks == 0 .. NumBlocks - 1

VARIABLES touching,    \* per block, the smaller blocks it has to be united with
          labels,      \* per block its parent, itself when a root (or background)
          held,        \* per block, the values its label has held
          pc,          \* per thread, the next step
          edge,        \* per thread, which of its blocks it is uniting
          one, other,  \* per thread, the two ends, or their roots once found
          finding,     \* per thread, which end it is looking up
          at, up       \* per thread, the block it has reached and its parent

ufVars == <<touching, labels, held, pc, edge, one, other, finding, at, up>>

Touches == {t \in [Blocks -> Seq(Blocks)] :
              \A n \in Blocks : \A i \in DOMAIN t[n] : t[n][i] < n}

\* ccl_buf_init_kernel and the start of every thread of ccl_buf_merge_kernel.
UfInit(t) ==
  /\ touching = t
  /\ labels = [n \in Blocks |-> n]
  /\ held = [n \in Blocks |-> {n}]
  /\ pc = [n \in Blocks |-> "start"]
  /\ edge = [n \in Blocks |-> 1]
  /\ one = [n \in Blocks |-> n] /\ other = [n \in Blocks |-> n]
  /\ finding = [n \in Blocks |-> "one"]
  /\ at = [n \in Blocks |-> n] /\ up = [n \in Blocks |-> n]

\* The next block this thread's block touches.
Start(t) ==
  /\ pc[t] = "start" /\ edge[t] <= Len(touching[t])
  /\ one' = [one EXCEPT ![t] = t]
  /\ other' = [other EXCEPT ![t] = touching[t][edge[t]]]
  /\ finding' = [finding EXCEPT ![t] = "one"]
  /\ at' = [at EXCEPT ![t] = t]
  /\ pc' = [pc EXCEPT ![t] = "parent"]
  /\ UNCHANGED <<touching, labels, held, edge, up>>

\* ccl_find_root_halve returns r: look up the other end, or try to hook.
Found(t, r) ==
  /\ IF finding[t] = "one"
     THEN /\ one' = [one EXCEPT ![t] = r]
          /\ finding' = [finding EXCEPT ![t] = "other"]
          /\ at' = [at EXCEPT ![t] = other[t]]
          /\ pc' = [pc EXCEPT ![t] = "parent"]
          /\ UNCHANGED other
     ELSE /\ other' = [other EXCEPT ![t] = r]
          /\ pc' = [pc EXCEPT ![t] = "hook"]
          /\ UNCHANGED <<one, finding, at>>
  /\ UNCHANGED <<touching, labels, held, edge, up>>

\* p = labels[idx]; a block that is its own parent is the root.
ReadParent(t) ==
  /\ pc[t] = "parent"
  /\ \E v \in held[at[t]] :
       \/ v = at[t] /\ Found(t, v)
       \/ /\ v # at[t]
          /\ up' = [up EXCEPT ![t] = v]
          /\ pc' = [pc EXCEPT ![t] = "grand"]
          /\ UNCHANGED <<touching, labels, held, edge, one, other, finding, at>>

\* gp = labels[p]; labels[idx] = gp, whatever labels[idx] has become.  The
\* load and the store are two accesses: a store that comes later is a load
\* that returned what is by then an old value, which held allows.
Halve(t) ==
  /\ pc[t] = "grand"
  /\ \E v \in held[up[t]] :
       \/ v = up[t] /\ Found(t, v)
       \/ /\ v # up[t]
          /\ labels' = [labels EXCEPT ![at[t]] = v]
          /\ held' = [held EXCEPT ![at[t]] = @ \cup {v}]
          /\ at' = [at EXCEPT ![t] = v]
          /\ pc' = [pc EXCEPT ![t] = "parent"]
          /\ UNCHANGED <<touching, edge, one, other, finding, up>>

\* ccl_union's loop once both ends are known: done when they are the same
\* root, or when the compare-and-swap finds the larger still a root; else
\* both are looked up again, the larger from where it has been hooked.
LesserOf(a, b) == IF a < b THEN a ELSE b
GreaterOf(a, b)  == IF a < b THEN b ELSE a

United(t) ==
  /\ edge' = [edge EXCEPT ![t] = @ + 1]
  /\ pc' = [pc EXCEPT ![t] = "start"]
  /\ UNCHANGED <<one, other, finding, at>>

LookUpAgain(t, lo, old) ==
  /\ one' = [one EXCEPT ![t] = lo]
  /\ other' = [other EXCEPT ![t] = old]
  /\ finding' = [finding EXCEPT ![t] = "one"]
  /\ at' = [at EXCEPT ![t] = lo]
  /\ pc' = [pc EXCEPT ![t] = "parent"]
  /\ UNCHANGED edge

Hook(t) ==
  LET lo == LesserOf(one[t], other[t])
      hi == GreaterOf(one[t], other[t])
  IN  /\ pc[t] = "hook"
      /\ \/ lo = hi /\ United(t) /\ UNCHANGED <<labels, held>>
         \/ /\ lo # hi /\ labels[hi] = hi
            /\ labels' = [labels EXCEPT ![hi] = lo]
            /\ held' = [held EXCEPT ![hi] = @ \cup {lo}]
            /\ United(t)
         \/ /\ lo # hi /\ labels[hi] # hi
            /\ LookUpAgain(t, lo, labels[hi])
            /\ UNCHANGED <<labels, held>>
      /\ UNCHANGED <<touching, up>>

Merge(t) == Start(t) \/ ReadParent(t) \/ Halve(t) \/ Hook(t)
UfNext == \E t \in Blocks : Merge(t)

\* The kernel has ended.
Merged == \A t \in Blocks : pc[t] = "start" /\ edge[t] > Len(touching[t])

-----------------------------------------------------------------------------
\* Connectedness, stated without paths, by the sets of blocks that components
\* do not cut: those that have a block exactly if they have its parent, and
\* those that have a block exactly if they have every block it touches.
ClosedByLinks(S) == \A n \in Blocks : n \in S <=> labels[n] \in S
ClosedByTouch(S) == \A t \in Blocks : \A i \in DOMAIN touching[t] : t \in S <=> touching[t][i] \in S

\* When the kernel has ended, the links join exactly the blocks that touch:
\* no interleaving of the threads and no stale load loses a hook, and none
\* joins two components.
PartitionIsExact ==
  Merged => \A S \in SUBSET Blocks : ClosedByLinks(S) <=> ClosedByTouch(S)
=============================================================================
