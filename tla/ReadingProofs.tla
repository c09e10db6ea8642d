---------------------------- MODULE ReadingProofs ----------------------------
(***************************************************************************)
(* For every number of blocks, every set of touching blocks, every         *)
(* interleaving of the threads and every stale load, the union-find's      *)
(* links end up joining exactly the blocks that touch.                     *)
(*                                                                         *)
(* The hard half is that nothing is lost.  A halving store overwrites a    *)
(* link with a value that may be old, so it may remove the very link a     *)
(* hook has just written.  What saves it is HeldConnected: all the values  *)
(* a block's label has held are connected with each other by the links of  *)
(* smaller blocks alone, which that store does not touch.                  *)
(*                                                                         *)
(* And for every batch size and number of slots, whatever calls are made   *)
(* and however far the device lags behind the host, the recogniser gives   *)
(* every crop the rows of its own pixels.  The device's buffers are single *)
(* and are overwritten batch by batch, so the invariant says what they     *)
(* hold only for the operation that is next (HeadReady); InOrder makes the *)
(* operation before it the one that put it there.                          *)
(*                                                                         *)
(* Last, what the kernels make of a bitmap.  Blocks touch exactly where    *)
(* pixels do (the four backward neighbours are enough), so the components  *)
(* of blocks are those of pixels; a component by its definition is the     *)
(* least set that is closed under touching (ComponentLeast).  CclInv says  *)
(* at each stage what is final by then: the links, the roots, the numbers, *)
(* and that a box holds its pixels of the thread blocks done (Gathered).   *)
(* The nearest growing pixel of a background pixel is on the boundary      *)
(* of its component, for a step from it towards the background pixel would *)
(* be nearer (NearestIsSeed), so growing from boundaries misses nothing.   *)
(*                                                                         *)
(* Around these two, facts of the operators alone: resized pages fit the   *)
(* detector's buffers, crops keep their width in the recognisers' inputs,  *)
(* and the decoder's vector registers change no class; and the regions of  *)
(* a page are routed, its boxes filtered, the titles of a document ranked  *)
(* and its tables joined well, however many there are.  Larger titles are  *)
(* higher because the centre nearest to a height rises with it             *)
(* (NearestRises), wherever the rounds of k-means have left the centres.   *)
(* A join keeps the rows because between the two tables no block has any,  *)
(* so that the rows of both are next to each other already (JoinReduces).  *)
(***************************************************************************)
EXTENDS Components, RecQueue, Detection, Recognition, PageStructure, Functions, TLAPS, FiniteSetTheorems,
        SequenceTheorems, WellFoundedInduction

UfSpec == (\E t \in Touches : UfInit(t)) /\ [][UfNext]_ufVars

UfTypeOK ==
  /\ touching \in Touches
  /\ labels \in [Blocks -> Blocks]
  /\ held \in [Blocks -> SUBSET Blocks]
  /\ pc \in [Blocks -> {"start", "parent", "grand", "hook"}]
  /\ edge \in [Blocks -> Nat \ {0}]
  /\ one \in [Blocks -> Blocks] /\ other \in [Blocks -> Blocks]
  /\ finding \in [Blocks -> {"one", "other"}]
  /\ at \in [Blocks -> Blocks] /\ up \in [Blocks -> Blocks]

\* S has a block below x exactly if it has the block's parent.
ClosedBelow(x, S) == \A n \in Blocks : n < x => (n \in S <=> labels[n] \in S)

\* A label's history: it starts as the block itself, only gets smaller
\* values, and once hooked is never a root again.
LinksDown ==
  \A x \in Blocks :
    /\ x \in held[x] /\ labels[x] \in held[x]
    /\ \A v \in held[x] : v <= x
    /\ labels[x] = x => held[x] = {x}

HeldConnected ==
  \A x \in Blocks : \A S \in SUBSET Blocks :
    ClosedBelow(x, S) => \A v, w \in held[x] \ {x} : v \in S <=> w \in S

AtWork ==
  \A t \in Blocks :
    /\ pc[t] # "start" => edge[t] \in DOMAIN touching[t]
    /\ pc[t] = "grand" => up[t] \in held[at[t]] /\ up[t] # at[t]

\* No link and no thread leaves the blocks that touch.
OnlyTouching ==
  \A S \in SUBSET Blocks : ClosedByTouch(S) =>
    /\ \A x \in Blocks : \A v \in held[x] : x \in S <=> v \in S
    /\ \A t \in Blocks : pc[t] # "start" =>
         /\ t \in S <=> one[t] \in S
         /\ t \in S <=> other[t] \in S
         /\ t \in S <=> at[t] \in S

\* The ends of an edge done with are linked; those of the edge at hand will
\* be as soon as what the thread has found for them is.
EdgesKept ==
  \A S \in SUBSET Blocks : ClosedByLinks(S) => \A t \in Blocks :
    /\ \A i \in DOMAIN touching[t] : i < edge[t] => (t \in S <=> touching[t][i] \in S)
    /\ pc[t] # "start" =>
         ((one[t] \in S <=> other[t] \in S) => (t \in S <=> touching[t][edge[t]] \in S))
    /\ pc[t] \in {"parent", "grand"} =>
         IF finding[t] = "one" THEN at[t] \in S <=> one[t] \in S
                               ELSE at[t] \in S <=> other[t] \in S

UfInv == UfTypeOK /\ LinksDown /\ HeldConnected /\ AtWork /\ OnlyTouching /\ EdgesKept

-----------------------------------------------------------------------------
\* A block is connected with everything its label has held.
LEMMA HeldLinked ==
  ASSUME UfTypeOK, LinksDown, HeldConnected,
         NEW S \in SUBSET Blocks, NEW x \in Blocks, ClosedBelow(x, S),
         x \in S <=> labels[x] \in S, NEW v \in held[x]
  PROVE  x \in S <=> v \in S
<1>1. CASE v = x
  BY <1>1
<1>2. CASE v # x
  <2>1. labels[x] \in held[x] \ {x} /\ v \in held[x] \ {x}
    BY <1>2 DEF LinksDown
  <2>2. labels[x] \in S <=> v \in S
    BY <2>1 DEF HeldConnected
  <2> QED
    BY <2>2
<1> QED
  BY <1>1, <1>2

LEMMA LinksCloseBelow ==
  ASSUME NEW S, NEW x, ClosedByLinks(S)
  PROVE  ClosedBelow(x, S)
BY DEF ClosedByLinks, ClosedBelow

\* The grandparent a thread has read, whenever it was the grandparent, is
\* connected with every value the block's label has held, by smaller blocks.
LEMMA HalvedConnected ==
  ASSUME UfInv, NEW t \in Blocks, pc[t] = "grand",
         NEW v \in held[up[t]], v # up[t],
         NEW S \in SUBSET Blocks, ClosedBelow(at[t], S)
  PROVE  /\ v < at[t] /\ labels[at[t]] # at[t]
         /\ \A w \in held[at[t]] \ {at[t]} : v \in S <=> w \in S
<1> DEFINE a == at[t]
           p == up[t]
<1>1. a \in Blocks /\ p \in Blocks /\ p \in held[a] /\ p # a /\ v \in Blocks
  BY DEF UfInv, UfTypeOK, AtWork
<1>2. p < a /\ v < p
  BY <1>1 DEF UfInv, LinksDown, Blocks
<1>3. labels[a] # a
  BY <1>1 DEF UfInv, LinksDown
<1>4. ClosedBelow(p, S) /\ (p \in S <=> labels[p] \in S)
  BY <1>1, <1>2 DEF ClosedBelow, Blocks
<1>5. p \in S <=> v \in S
  BY <1>1, <1>4, HeldLinked DEF UfInv
<1>6. \A w \in held[a] \ {a} : p \in S <=> w \in S
  BY <1>1 DEF UfInv, HeldConnected
<1> QED
  BY <1>1, <1>2, <1>3, <1>5, <1>6 DEF Blocks

-----------------------------------------------------------------------------
LEMMA FoundType ==
  ASSUME UfTypeOK, NEW t \in Blocks, NEW r \in Blocks, Found(t, r)
  PROVE  UfTypeOK'
<1>1. CASE finding[t] = "one"
  <2>1. pc' \in [Blocks -> {"start", "parent", "grand", "hook"}]
    BY <1>1 DEF Found, UfTypeOK
  <2>1a. /\ one' = [one EXCEPT ![t] = r]
         /\ at' = [at EXCEPT ![t] = other[t]]
         /\ other' = other
    BY <1>1 DEF Found
  <2>2. one' \in [Blocks -> Blocks] /\ at' \in [Blocks -> Blocks] /\ other' = other
    BY <2>1a DEF UfTypeOK
  <2>3. finding' \in [Blocks -> {"one", "other"}]
    BY <1>1 DEF Found, UfTypeOK
  <2> QED  BY <2>1, <2>2, <2>3 DEF Found, UfTypeOK
<1>2. CASE finding[t] # "one"
  BY <1>2 DEF Found, UfTypeOK
<1> QED
  BY <1>1, <1>2

LEMMA UfTypeNext == UfTypeOK /\ AtWork /\ [UfNext]_ufVars => UfTypeOK'
<1> SUFFICES ASSUME UfTypeOK, AtWork, UfNext PROVE UfTypeOK'
  BY DEF ufVars, UfTypeOK
<1>1. PICK t \in Blocks : Merge(t)
  BY DEF UfNext
<1>2. CASE Start(t)
  <2>1. touching[t][edge[t]] \in Blocks
    <3>1. touching[t] \in Seq(Blocks) /\ edge[t] \in 1 .. Len(touching[t])
      BY <1>2 DEF Start, UfTypeOK, Touches
    <3> QED  BY <3>1
  <2> QED  BY <1>2, <2>1 DEF Start, UfTypeOK
<1>3. CASE ReadParent(t)
  <2>1. PICK v \in held[at[t]] :
          \/ v = at[t] /\ Found(t, v)
          \/ /\ up' = [up EXCEPT ![t] = v]
             /\ pc' = [pc EXCEPT ![t] = "grand"]
             /\ UNCHANGED <<touching, labels, held, edge, one, other, finding, at>>
    BY <1>3 DEF ReadParent
  <2>2. v \in Blocks
    BY DEF UfTypeOK
  <2>3. CASE Found(t, v)
    BY <2>2, <2>3, FoundType
  <2>4. CASE ~Found(t, v)
    <3>1. pc' \in [Blocks -> {"start", "parent", "grand", "hook"}] 
      BY <2>1, <2>4 DEF UfTypeOK
    <3>2. up' \in [Blocks -> Blocks]
      BY <2>1, <2>2, <2>4 DEF UfTypeOK
    <3> QED  BY <2>1, <2>4, <3>1, <3>2 DEF UfTypeOK
  <2> QED  BY <2>3, <2>4
<1>4. CASE Halve(t)
  <2>1. PICK v \in held[up[t]] :
          \/ Found(t, v)
          \/ /\ labels' = [labels EXCEPT ![at[t]] = v]
             /\ held' = [held EXCEPT ![at[t]] = @ \cup {v}]
             /\ at' = [at EXCEPT ![t] = v]
             /\ pc' = [pc EXCEPT ![t] = "parent"]
             /\ UNCHANGED <<touching, edge, one, other, finding, up>>
    BY <1>4 DEF Halve
  <2>2. v \in Blocks
    BY DEF UfTypeOK
  <2>3. CASE Found(t, v)
    BY <2>2, <2>3, FoundType
  <2>4. CASE ~Found(t, v)
    <3>1. /\ labels' = [labels EXCEPT ![at[t]] = v]
          /\ held' = [held EXCEPT ![at[t]] = @ \cup {v}]
          /\ at' = [at EXCEPT ![t] = v]
          /\ pc' = [pc EXCEPT ![t] = "parent"]
          /\ UNCHANGED <<touching, edge, one, other, finding, up>>
      BY <2>1, <2>4, Zenon
    <3>2. labels' \in [Blocks -> Blocks] /\ held' \in [Blocks -> SUBSET Blocks]
      BY <2>2, <3>1 DEF UfTypeOK
    <3>3. pc' \in [Blocks -> {"start", "parent", "grand", "hook"}]
      BY <3>1 DEF UfTypeOK
    <3>4. at' \in [Blocks -> Blocks]
      BY <2>2, <3>1 DEF UfTypeOK
    <3> QED  BY <3>1, <3>2, <3>3, <3>4 DEF UfTypeOK
  <2> QED  BY <2>3, <2>4
<1>5. CASE Hook(t)
  <2> DEFINE lo == LesserOf(one[t], other[t])
             hi == GreaterOf(one[t], other[t])
  <2>1. lo \in Blocks /\ hi \in Blocks
    BY DEF LesserOf, GreaterOf, UfTypeOK
  <2>2. labels' \in [Blocks -> Blocks] /\ held' \in [Blocks -> SUBSET Blocks]
    BY <1>5, <2>1 DEF Hook, UfTypeOK
  <2>3. edge' \in [Blocks -> Nat \ {0}]
    BY <1>5 DEF Hook, United, LookUpAgain, UfTypeOK
  <2>4. CASE United(t)
    BY <1>5, <2>2, <2>3, <2>4 DEF Hook, United, UfTypeOK
  <2>5. CASE ~United(t)
    <3>1. LookUpAgain(t, lo, labels[hi])
      BY <1>5, <2>5 DEF Hook
    <3>2. labels[hi] \in Blocks
      BY <2>1 DEF UfTypeOK
    <3>3. UNCHANGED <<touching, up>>
      BY <1>5 DEF Hook
    <3> HIDE DEF lo, hi
    <3> QED  BY <2>1, <2>2, <2>3, <3>1, <3>2, <3>3 DEF LookUpAgain, UfTypeOK
  <2> QED  BY <2>4, <2>5
<1> QED
  BY <1>1, <1>2, <1>3, <1>4, <1>5 DEF Merge

\* The three kinds of step, by what they do to the labels.
HalvesTo(t, v) ==
  /\ pc[t] = "grand" /\ v \in held[up[t]] /\ v # up[t]
  /\ labels' = [labels EXCEPT ![at[t]] = v]
  /\ held' = [held EXCEPT ![at[t]] = @ \cup {v}]

HooksTo(hi, lo) ==
  /\ hi \in Blocks /\ lo \in Blocks /\ lo < hi /\ labels[hi] = hi
  /\ labels' = [labels EXCEPT ![hi] = lo]
  /\ held' = [held EXCEPT ![hi] = @ \cup {lo}]

LEMMA KindsOfStep ==
  ASSUME UfTypeOK, [UfNext]_ufVars
  PROVE  \/ UNCHANGED <<labels, held>>
         \/ \E t \in Blocks : \E v \in Blocks : HalvesTo(t, v)
         \/ \E hi, lo \in Blocks : HooksTo(hi, lo)
<1>1. CASE UNCHANGED ufVars
  BY <1>1 DEF ufVars
<1>2. ASSUME NEW t \in Blocks, Start(t) PROVE UNCHANGED <<labels, held>>
  BY <1>2 DEF Start
<1>3. ASSUME NEW t \in Blocks, ReadParent(t) PROVE UNCHANGED <<labels, held>>
  BY <1>3 DEF ReadParent, Found
<1>4. ASSUME NEW t \in Blocks, Halve(t)
      PROVE  UNCHANGED <<labels, held>> \/ \E v \in Blocks : HalvesTo(t, v)
  BY <1>4 DEF Halve, Found, HalvesTo, UfTypeOK
<1>5. ASSUME NEW t \in Blocks, Hook(t)
      PROVE  UNCHANGED <<labels, held>> \/ \E hi, lo \in Blocks : HooksTo(hi, lo)
  <2>1. one[t] \in Blocks /\ other[t] \in Blocks
    BY DEF UfTypeOK
  <2>2. \/ UNCHANGED <<labels, held>>
        \/ HooksTo(GreaterOf(one[t], other[t]), LesserOf(one[t], other[t]))
    BY <1>5, <2>1 DEF Hook, HooksTo, LesserOf, GreaterOf, Blocks
  <2> QED
    BY <2>1, <2>2 DEF LesserOf, GreaterOf
<1> QED
  BY <1>1, <1>2, <1>3, <1>4, <1>5 DEF UfNext, Merge

\* A set the new links do not cut, the old ones did not either.
LEMMA LinksOnlyAdded ==
  ASSUME UfInv, [UfNext]_ufVars, NEW S \in SUBSET Blocks, NEW x \in Blocks \cup {NumBlocks},
         ClosedBelow(x, S)'
  PROVE  ClosedBelow(x, S)
<1>0. UfTypeOK
  BY DEF UfInv
<1>1. CASE UNCHANGED <<labels, held>>
  BY <1>1 DEF ClosedBelow
<1>2. ASSUME NEW t \in Blocks, NEW v \in Blocks, HalvesTo(t, v) PROVE ClosedBelow(x, S)
  <2> DEFINE a == at[t]
  <2>1. a \in Blocks /\ labels' = [labels EXCEPT ![a] = v]
    BY <1>0, <1>2 DEF HalvesTo, UfTypeOK
  <2>2. \A n \in Blocks : n # a => labels'[n] = labels[n]
    BY <1>0, <2>1 DEF UfTypeOK
  <2>3. CASE a < x
    <3>1. ClosedBelow(a, S)
      BY <2>1, <2>2, <2>3, NumBlocksAssumption DEF ClosedBelow, Blocks
    <3>2. labels[a] \in held[a] \ {a} /\ (v \in S <=> labels[a] \in S)
      <4>1. labels[a] # a /\ \A w \in held[a] \ {a} : v \in S <=> w \in S
        BY <1>2, <3>1, HalvedConnected DEF HalvesTo
      <4>2. labels[a] \in held[a]
        BY <2>1 DEF UfInv, LinksDown
      <4> QED  BY <4>1, <4>2
    <3>3. labels'[a] = v /\ (a \in S <=> v \in S)
      BY <1>0, <2>1, <2>3 DEF ClosedBelow, UfTypeOK
    <3> QED  BY <2>2, <3>2, <3>3 DEF ClosedBelow
  <2>4. CASE ~(a < x)
    BY <2>2, <2>4 DEF ClosedBelow
  <2> QED  BY <2>3, <2>4
<1>3. ASSUME NEW hi \in Blocks, NEW lo \in Blocks, HooksTo(hi, lo) PROVE ClosedBelow(x, S)
  BY <1>0, <1>3 DEF HooksTo, ClosedBelow, UfTypeOK
<1> QED
  BY <1>0, <1>1, <1>2, <1>3, KindsOfStep

LEMMA LinksDownNext == UfInv /\ [UfNext]_ufVars => LinksDown'
<1> SUFFICES ASSUME UfInv, [UfNext]_ufVars PROVE LinksDown'
  OBVIOUS
<1>0. UfTypeOK /\ LinksDown
  BY DEF UfInv
<1>1. CASE UNCHANGED <<labels, held>>
  BY <1>0, <1>1 DEF LinksDown
<1>2. ASSUME NEW t \in Blocks, NEW v \in Blocks, HalvesTo(t, v) PROVE LinksDown'
  <2> DEFINE a == at[t]
  <2>1. a \in Blocks /\ v < a
    <3>1. ClosedBelow(a, {})
      BY DEF ClosedBelow
    <3> QED  BY <1>0, <1>2, <3>1, HalvedConnected DEF HalvesTo, UfTypeOK
  <2>2. /\ labels' = [labels EXCEPT ![a] = v] /\ held' = [held EXCEPT ![a] = @ \cup {v}]
    BY <1>2 DEF HalvesTo
  <2> QED  BY <1>0, <2>1, <2>2 DEF LinksDown, UfTypeOK, Blocks
<1>3. ASSUME NEW hi \in Blocks, NEW lo \in Blocks, HooksTo(hi, lo) PROVE LinksDown'
  BY <1>0, <1>3 DEF HooksTo, LinksDown, UfTypeOK, Blocks
<1> QED
  BY <1>0, <1>1, <1>2, <1>3, KindsOfStep

LEMMA HeldConnectedNext == UfInv /\ [UfNext]_ufVars => HeldConnected'
<1> SUFFICES ASSUME UfInv, [UfNext]_ufVars, NEW x \in Blocks, NEW S \in SUBSET Blocks,
                    ClosedBelow(x, S)', NEW v \in held'[x] \ {x}, NEW w \in held'[x] \ {x}
             PROVE  v \in S <=> w \in S
  BY DEF HeldConnected
<1>0. UfTypeOK /\ ClosedBelow(x, S) /\ LinksDown
  BY LinksOnlyAdded DEF UfInv
<1>1. \A y, z \in held[x] \ {x} : y \in S <=> z \in S
  BY <1>0 DEF UfInv, HeldConnected
<1>2. CASE UNCHANGED <<labels, held>>
  BY <1>1, <1>2
<1>3. ASSUME NEW t \in Blocks, NEW n \in Blocks, HalvesTo(t, n) PROVE v \in S <=> w \in S
  <2>1. CASE x = at[t]
    <3>1. \A z \in held[x] \ {x} : n \in S <=> z \in S
      BY <1>0, <1>3, <2>1, HalvedConnected DEF HalvesTo
    <3>2. held'[x] = held[x] \cup {n}
      BY <1>0, <1>3, <2>1 DEF HalvesTo, UfTypeOK
    <3> QED  BY <1>1, <3>1, <3>2
  <2>2. CASE x # at[t]
    BY <1>0, <1>1, <1>3, <2>2 DEF HalvesTo, UfTypeOK
  <2> QED  BY <2>1, <2>2
<1>4. ASSUME NEW hi \in Blocks, NEW lo \in Blocks, HooksTo(hi, lo) PROVE v \in S <=> w \in S
  <2>1. CASE x = hi
    <3>1. held[x] = {x} /\ held'[x] = {x, lo}
      BY <1>0, <1>4, <2>1 DEF HooksTo, LinksDown, UfTypeOK
    <3> QED  BY <3>1
  <2>2. CASE x # hi
    BY <1>0, <1>1, <1>4, <2>2 DEF HooksTo, UfTypeOK
  <2> QED  BY <2>1, <2>2
<1> QED
  BY <1>0, <1>2, <1>3, <1>4, KindsOfStep

-----------------------------------------------------------------------------
\* What a thread's lookup does, without the labels.
LEMMA HistoriesGrow ==
  ASSUME UfTypeOK, [UfNext]_ufVars, NEW x \in Blocks
  PROVE  held[x] \subseteq held'[x]
BY KindsOfStep DEF HalvesTo, HooksTo, UfTypeOK

LEMMA OtherThreads ==
  ASSUME UfTypeOK, NEW t \in Blocks, Merge(t), NEW u \in Blocks, u # t
  PROVE  /\ pc'[u] = pc[u] /\ edge'[u] = edge[u] /\ finding'[u] = finding[u]
         /\ one'[u] = one[u] /\ other'[u] = other[u] /\ at'[u] = at[u] /\ up'[u] = up[u]
<1>1. CASE Start(t)
  BY <1>1 DEF Start, UfTypeOK
<1>2. CASE ReadParent(t)
  BY <1>2 DEF ReadParent, Found, UfTypeOK
<1>3. CASE Halve(t)
  BY <1>3 DEF Halve, Found, UfTypeOK
<1>4. CASE Hook(t)
  BY <1>4 DEF Hook, United, LookUpAgain, UfTypeOK
<1> QED
  BY <1>1, <1>2, <1>3, <1>4 DEF Merge

LEMMA AtWorkNext == UfInv /\ [UfNext]_ufVars => AtWork'
<1> SUFFICES ASSUME UfInv, UfNext PROVE AtWork'
  BY DEF UfInv, AtWork, ufVars
<1>0. UfTypeOK /\ AtWork /\ \A x \in Blocks : held[x] \subseteq held'[x]
  BY HistoriesGrow DEF UfInv
<1>1. PICK t \in Blocks : Merge(t)
  BY DEF UfNext
<1>2. touching' = touching
  BY <1>1 DEF Merge, Start, ReadParent, Halve, Hook, Found
<1>3. ASSUME NEW u \in Blocks, u # t
      PROVE  pc'[u] = pc[u] /\ edge'[u] = edge[u] /\ up'[u] = up[u] /\ at'[u] = at[u]
  BY <1>0, <1>1, <1>3, OtherThreads
<1>4. pc'[t] # "start" => edge'[t] \in DOMAIN touching[t]
  <2>1. CASE Start(t)
    <3>1. touching[t] \in Seq(Blocks) /\ edge[t] \in Nat \ {0} /\ edge[t] <= Len(touching[t])
      BY <1>0, <2>1 DEF Start, UfTypeOK, Touches
    <3>2. edge[t] \in DOMAIN touching[t]
      BY <3>1
    <3> QED  BY <2>1, <3>2 DEF Start
  <2>2. CASE ReadParent(t) \/ Halve(t)
    <3>1. edge' = edge /\ pc[t] # "start"
      BY <2>2 DEF ReadParent, Halve, Found
    <3> QED  BY <1>0, <3>1 DEF AtWork
  <2>3. CASE Hook(t)
    <3>1. pc[t] = "hook"
      BY <2>3 DEF Hook
    <3>2. (edge' = edge) \/ pc'[t] = "start"
      BY <1>0, <2>3 DEF Hook, United, LookUpAgain, UfTypeOK
    <3> QED  BY <1>0, <3>1, <3>2 DEF AtWork
  <2> QED  BY <1>1, <2>1, <2>2, <2>3 DEF Merge
<1>5. pc'[t] = "grand" => up'[t] \in held[at'[t]] /\ up'[t] # at'[t]
  <2>1. CASE ReadParent(t)
    BY <1>0, <2>1 DEF ReadParent, Found, UfTypeOK
  <2>2. CASE ~ReadParent(t)
    BY <1>0, <1>1, <2>2
       DEF Merge, Start, Halve, Hook, Found, United, LookUpAgain, UfTypeOK
  <2> QED  BY <2>1, <2>2
<1>6. at' \in [Blocks -> Blocks]
  BY <1>0, UfTypeNext DEF UfTypeOK
<1>7. ASSUME NEW u \in Blocks
      PROVE  /\ pc'[u] # "start" => edge'[u] \in DOMAIN touching'[u]
             /\ pc'[u] = "grand" => up'[u] \in held'[at'[u]] /\ up'[u] # at'[u]
  <2>1. CASE u = t
    BY <1>0, <1>2, <1>4, <1>5, <1>6, <2>1
  <2>2. CASE u # t
    <3>1. at[u] \in Blocks
      BY <1>0 DEF UfTypeOK
    <3> QED  BY <1>0, <1>2, <1>3, <2>2, <3>1 DEF AtWork
  <2> QED  BY <2>1, <2>2
<1> QED
  BY <1>7 DEF AtWork

LEMMA OnlyTouchingNext == UfInv /\ [UfNext]_ufVars => OnlyTouching'
<1> SUFFICES ASSUME UfInv, UfNext PROVE OnlyTouching'
  BY DEF UfInv, OnlyTouching, ClosedByTouch, ufVars
<1>0. UfTypeOK /\ AtWork /\ OnlyTouching /\ UfTypeOK'
  BY UfTypeNext DEF UfInv
<1>1. PICK t \in Blocks : Merge(t)
  BY DEF UfNext
<1>2. touching' = touching
  BY <1>1 DEF Merge, Start, ReadParent, Halve, Hook, Found
<1> SUFFICES ASSUME NEW S \in SUBSET Blocks, ClosedByTouch(S)
             PROVE  /\ \A x \in Blocks : \A v \in held'[x] : x \in S <=> v \in S
                    /\ \A u \in Blocks : pc'[u] # "start" =>
                         /\ u \in S <=> one'[u] \in S
                         /\ u \in S <=> other'[u] \in S
                         /\ u \in S <=> at'[u] \in S
  BY <1>2 DEF OnlyTouching, ClosedByTouch
<1>3. \A x \in Blocks : \A v \in held[x] : x \in S <=> v \in S
  BY <1>0 DEF OnlyTouching
<1>4. \A u \in Blocks : pc[u] # "start" =>
         /\ u \in S <=> one[u] \in S
         /\ u \in S <=> other[u] \in S
         /\ u \in S <=> at[u] \in S
  BY <1>0 DEF OnlyTouching
<1>5. \A x \in Blocks : \A v \in held'[x] : x \in S <=> v \in S
  <2>1. CASE UNCHANGED <<labels, held>>
    BY <1>3, <2>1
  <2>2. CASE Halve(t) /\ ~UNCHANGED <<labels, held>>
    <3>1. PICK v \in held[up[t]] : held' = [held EXCEPT ![at[t]] = @ \cup {v}] /\ pc[t] = "grand"
      BY <2>2 DEF Halve, Found
    <3>2. up[t] \in held[at[t]] /\ up[t] \in Blocks /\ at[t] \in Blocks
      BY <1>0, <3>1 DEF AtWork, UfTypeOK
    <3>3. at[t] \in S <=> v \in S
      BY <1>3, <3>1, <3>2
    <3> QED  BY <1>0, <1>3, <3>1, <3>2, <3>3 DEF UfTypeOK
  <2>3. CASE Hook(t) /\ ~UNCHANGED <<labels, held>>
    <3> DEFINE lo == LesserOf(one[t], other[t])
               hi == GreaterOf(one[t], other[t])
    <3>1. held' = [held EXCEPT ![hi] = @ \cup {lo}] /\ pc[t] = "hook"
      BY <2>3 DEF Hook
    <3>2. hi \in Blocks /\ (hi \in S <=> lo \in S)
      BY <1>0, <1>4, <3>1 DEF LesserOf, GreaterOf, UfTypeOK
    <3> HIDE DEF lo, hi
    <3> QED  BY <1>0, <1>3, <3>1, <3>2 DEF UfTypeOK
  <2> QED
    BY <1>1, <2>1, <2>2, <2>3 DEF Merge, Start, ReadParent, Found
<1>6. ASSUME NEW u \in Blocks, u # t
      PROVE  pc'[u] = pc[u] /\ one'[u] = one[u] /\ other'[u] = other[u] /\ at'[u] = at[u]
  BY <1>0, <1>1, <1>6, OtherThreads
<1>7. ASSUME pc'[t] # "start"
      PROVE  (t \in S <=> one'[t] \in S) /\ (t \in S <=> other'[t] \in S) /\ (t \in S <=> at'[t] \in S)
  <2>1. ASSUME NEW r \in Blocks, r \in S <=> at[t] \in S, pc[t] # "start", Found(t, r)
        PROVE  (t \in S <=> one'[t] \in S) /\ (t \in S <=> other'[t] \in S) /\ (t \in S <=> at'[t] \in S)
    BY <1>0, <1>4, <2>1 DEF Found, UfTypeOK
  <2>2. CASE Start(t)
    <3>1. touching[t] \in Seq(Blocks) /\ edge[t] \in Nat \ {0} /\ edge[t] <= Len(touching[t])
      BY <1>0, <2>2 DEF Start, UfTypeOK, Touches
    <3>2. edge[t] \in DOMAIN touching[t]
      BY <3>1
    <3>3. t \in S <=> touching[t][edge[t]] \in S
      BY <3>2 DEF ClosedByTouch
    <3> QED  BY <1>0, <2>2, <3>3 DEF Start, UfTypeOK
  <2>3. CASE ReadParent(t)
    <3>1. PICK v \in held[at[t]] : Found(t, v) \/ UNCHANGED <<one, other, at>>
      BY <2>3 DEF ReadParent
    <3>2. pc[t] # "start" /\ at[t] \in Blocks /\ v \in Blocks
      BY <1>0, <2>3 DEF ReadParent, UfTypeOK
    <3>3. v \in S <=> at[t] \in S
      BY <1>3, <3>2
    <3> QED  BY <1>4, <2>1, <3>1, <3>2, <3>3
  <2>4. CASE Halve(t)
    <3>1. PICK v \in held[up[t]] :
            Found(t, v) \/ (at' = [at EXCEPT ![t] = v] /\ UNCHANGED <<one, other>>)
      BY <2>4 DEF Halve
    <3>2. pc[t] = "grand" /\ at[t] \in Blocks /\ up[t] \in Blocks /\ v \in Blocks
      BY <1>0, <2>4 DEF Halve, UfTypeOK
    <3>3. v \in S <=> at[t] \in S
      BY <1>0, <1>3, <3>2 DEF AtWork
    <3>4. at' = [at EXCEPT ![t] = v] => at'[t] = v
      BY <1>0 DEF UfTypeOK
    <3>5. CASE Found(t, v)
      BY <2>1, <3>2, <3>3, <3>5
    <3>6. CASE at' = [at EXCEPT ![t] = v] /\ UNCHANGED <<one, other>>
      BY <1>4, <3>2, <3>3, <3>4, <3>6
    <3> QED  BY <3>1, <3>5, <3>6
  <2>5. CASE Hook(t)
    <3> DEFINE lo == LesserOf(one[t], other[t])
               hi == GreaterOf(one[t], other[t])
    <3>1. pc[t] = "hook" /\ LookUpAgain(t, lo, labels[hi])
      BY <1>0, <1>7, <2>5 DEF Hook, United, UfTypeOK
    <3>2. hi \in Blocks /\ (hi \in S <=> t \in S) /\ (lo \in S <=> t \in S)
      BY <1>0, <1>4, <3>1 DEF LesserOf, GreaterOf, UfTypeOK
    <3>3. labels[hi] \in S <=> hi \in S
      BY <1>3, <3>2 DEF UfInv, LinksDown
    <3> HIDE DEF lo, hi
    <3> QED  BY <1>0, <3>1, <3>2, <3>3 DEF LookUpAgain, UfTypeOK
  <2> QED  BY <1>1, <2>2, <2>3, <2>4, <2>5 DEF Merge
<1> QED
  BY <1>4, <1>5, <1>6, <1>7

LEMMA EdgesKeptNext == UfInv /\ [UfNext]_ufVars => EdgesKept'
<1> SUFFICES ASSUME UfInv, UfNext PROVE EdgesKept'
  BY DEF UfInv, EdgesKept, ClosedByLinks, ufVars
<1>0. UfTypeOK /\ AtWork /\ EdgesKept /\ LinksDown /\ HeldConnected
  BY DEF UfInv
<1>1. PICK t \in Blocks : Merge(t)
  BY DEF UfNext
<1>2. touching' = touching
  BY <1>1 DEF Merge, Start, ReadParent, Halve, Hook, Found
<1> SUFFICES ASSUME NEW S \in SUBSET Blocks, ClosedByLinks(S)', NEW u \in Blocks
             PROVE  /\ \A i \in DOMAIN touching[u] : i < edge'[u] => (u \in S <=> touching[u][i] \in S)
                    /\ pc'[u] # "start" =>
                         ((one'[u] \in S <=> other'[u] \in S) => (u \in S <=> touching[u][edge'[u]] \in S))
                    /\ pc'[u] \in {"parent", "grand"} =>
                         IF finding'[u] = "one" THEN at'[u] \in S <=> one'[u] \in S
                                                ELSE at'[u] \in S <=> other'[u] \in S
  BY <1>2 DEF EdgesKept
<1>3. ClosedByLinks(S)
  <2>1. ClosedBelow(NumBlocks, S)'
    BY DEF ClosedByLinks, ClosedBelow
  <2>2. ClosedBelow(NumBlocks, S)
    BY <2>1, LinksOnlyAdded
  <2> QED  BY <2>2, NumBlocksAssumption DEF ClosedByLinks, ClosedBelow, Blocks
<1>4. \A x \in Blocks : \A v \in held[x] : x \in S <=> v \in S
  BY <1>0, <1>3, LinksCloseBelow, HeldLinked DEF ClosedByLinks
<1>5. /\ \A i \in DOMAIN touching[u] : i < edge[u] => (u \in S <=> touching[u][i] \in S)
      /\ pc[u] # "start" =>
           ((one[u] \in S <=> other[u] \in S) => (u \in S <=> touching[u][edge[u]] \in S))
      /\ pc[u] \in {"parent", "grand"} =>
           IF finding[u] = "one" THEN at[u] \in S <=> one[u] \in S
                                 ELSE at[u] \in S <=> other[u] \in S
  BY <1>0, <1>3 DEF EdgesKept
<1>6. CASE u # t
  BY <1>0, <1>1, <1>5, <1>6, OtherThreads
<1>7. CASE u = t
  <2> DEFINE Goal ==
        /\ \A i \in DOMAIN touching[t] : i < edge'[t] => (t \in S <=> touching[t][i] \in S)
        /\ pc'[t] # "start" =>
             ((one'[t] \in S <=> other'[t] \in S) => (t \in S <=> touching[t][edge'[t]] \in S))
        /\ pc'[t] \in {"parent", "grand"} =>
             IF finding'[t] = "one" THEN at'[t] \in S <=> one'[t] \in S
                                    ELSE at'[t] \in S <=> other'[t] \in S
  <2>1. ASSUME NEW r \in Blocks, r \in S <=> at[t] \in S, pc[t] \in {"parent", "grand"}, Found(t, r)
        PROVE  Goal
    <3>1. edge' = edge
      BY <2>1 DEF Found
    <3>2. CASE finding[t] = "one"
      BY <1>0, <1>5, <1>7, <2>1, <3>1, <3>2 DEF Found, UfTypeOK
    <3>3. CASE finding[t] # "one"
      <4>1. /\ other'[t] = r /\ one'[t] = one[t] /\ pc'[t] = "hook"
        BY <1>0, <2>1, <3>3 DEF Found, UfTypeOK
      <4> QED  BY <1>5, <1>7, <2>1, <3>1, <3>3, <4>1
    <3> QED  BY <3>2, <3>3
  <2> SUFFICES Goal
    BY <1>7
  <2> HIDE DEF Goal
  <2>2. CASE Start(t)
    <3>1. one'[t] = t /\ other'[t] = touching[t][edge[t]] /\ at'[t] = t /\ finding'[t] = "one"
      BY <1>0, <2>2 DEF Start, UfTypeOK
    <3>2. edge' = edge
      BY <2>2 DEF Start
    <3> QED  BY <1>5, <1>7, <3>1, <3>2 DEF Goal
  <2>3. CASE ReadParent(t)
    <3>1. PICK v \in held[at[t]] :
            Found(t, v) \/ (pc' = [pc EXCEPT ![t] = "grand"] /\ UNCHANGED <<edge, one, other, finding, at>>)
      BY <2>3 DEF ReadParent
    <3>2. pc[t] = "parent" /\ at[t] \in Blocks /\ v \in Blocks
      BY <1>0, <2>3 DEF ReadParent, UfTypeOK
    <3>3. v \in S <=> at[t] \in S
      BY <1>4, <3>2
    <3>4. CASE Found(t, v)
      BY <2>1, <3>2, <3>3, <3>4
    <3>5. CASE UNCHANGED <<edge, one, other, finding, at>>
      BY <1>5, <1>7, <3>2, <3>5 DEF Goal
    <3> QED  BY <3>1, <3>4, <3>5
  <2>4. CASE Halve(t)
    <3>1. PICK v \in held[up[t]] :
            Found(t, v) \/ (at' = [at EXCEPT ![t] = v] /\ UNCHANGED <<edge, one, other, finding>>)
      BY <2>4 DEF Halve
    <3>2. pc[t] = "grand" /\ at[t] \in Blocks /\ up[t] \in Blocks /\ v \in Blocks
      BY <1>0, <2>4 DEF Halve, UfTypeOK
    <3>3. v \in S <=> at[t] \in S
      BY <1>0, <1>4, <3>2 DEF AtWork
    <3>4. at' = [at EXCEPT ![t] = v] => at'[t] = v
      BY <1>0 DEF UfTypeOK
    <3>5. CASE Found(t, v)
      BY <2>1, <3>2, <3>3, <3>5
    <3>6. CASE at' = [at EXCEPT ![t] = v] /\ UNCHANGED <<edge, one, other, finding>>
      BY <1>5, <1>7, <3>2, <3>3, <3>4, <3>6 DEF Goal
    <3> QED  BY <3>1, <3>5, <3>6
  <2>5. CASE Hook(t)
    <3> DEFINE lo == LesserOf(one[t], other[t])
               hi == GreaterOf(one[t], other[t])
    <3>1. pc[t] = "hook" /\ lo \in Blocks /\ hi \in Blocks /\ lo <= hi
      BY <1>0, <2>5 DEF Hook, LesserOf, GreaterOf, UfTypeOK, Blocks
    <3>2. (lo \in S <=> hi \in S) => (t \in S <=> touching[t][edge[t]] \in S)
      BY <1>5, <1>7, <3>1 DEF LesserOf, GreaterOf
    <3>3. CASE United(t)
      <4>1. lo \in S <=> hi \in S
        <5>1. \/ lo = hi
              \/ labels' = [labels EXCEPT ![hi] = lo]
              \/ LookUpAgain(t, lo, labels[hi])
          BY <2>5 DEF Hook
        <5>2. ~LookUpAgain(t, lo, labels[hi])
          BY <1>0, <3>3 DEF United, LookUpAgain, UfTypeOK
        <5>3. CASE labels' = [labels EXCEPT ![hi] = lo]
          <6>1. labels'[hi] = lo
            BY <1>0, <3>1, <5>3 DEF UfTypeOK
          <6> QED  BY <3>1, <6>1 DEF ClosedByLinks
        <5> QED  BY <5>1, <5>2, <5>3
      <4>2. edge'[t] = edge[t] + 1 /\ pc'[t] = "start" /\ edge[t] \in Nat
        BY <1>0, <3>3 DEF United, UfTypeOK
      <4>3. touching[t] \in Seq(Blocks)
        BY <1>0 DEF UfTypeOK, Touches
      <4>4. \A i \in DOMAIN touching[t] : i < edge'[t] => i < edge[t] \/ i = edge[t]
        BY <4>2, <4>3
      <4> HIDE DEF lo, hi
      <4> QED  BY <1>5, <1>7, <3>2, <4>1, <4>2, <4>4 DEF Goal
    <3>4. CASE LookUpAgain(t, lo, labels[hi])
      <4>1. labels[hi] \in S <=> hi \in S
        BY <1>3, <3>1 DEF ClosedByLinks
      <4> HIDE DEF lo, hi
      <4>2. /\ one'[t] = lo /\ other'[t] = labels[hi] /\ at'[t] = lo /\ finding'[t] = "one"
            /\ edge' = edge
        BY <1>0, <3>4 DEF LookUpAgain, UfTypeOK
      <4> QED  BY <1>5, <1>7, <3>1, <3>2, <4>1, <4>2 DEF Goal
    <3> QED  BY <2>5, <3>3, <3>4 DEF Hook
  <2> QED
    BY <1>1, <2>2, <2>3, <2>4, <2>5 DEF Merge
<1> QED
  BY <1>6, <1>7

-----------------------------------------------------------------------------
LEMMA UfInitInv == (\E t \in Touches : UfInit(t)) => UfInv
<1> SUFFICES ASSUME NEW tt \in Touches, UfInit(tt) PROVE UfInv
  OBVIOUS
<1>1. UfTypeOK
  BY DEF UfInit, UfTypeOK
<1>2. LinksDown /\ HeldConnected /\ AtWork /\ OnlyTouching
  BY DEF UfInit, LinksDown, HeldConnected, AtWork, OnlyTouching, Blocks
<1>3. EdgesKept
  <2>1. \A t \in Blocks : \A i \in DOMAIN touching[t] : ~(i < edge[t])
    <3>1. ASSUME NEW t \in Blocks PROVE touching[t] \in Seq(Blocks) /\ edge[t] = 1
      BY DEF UfInit, Touches
    <3> QED  BY <3>1
  <2> QED  BY <2>1 DEF UfInit, EdgesKept
<1> QED
  BY <1>1, <1>2, <1>3 DEF UfInv

LEMMA UfInvNext == UfInv /\ [UfNext]_ufVars => UfInv'
BY UfTypeNext, LinksDownNext, HeldConnectedNext, AtWorkNext, OnlyTouchingNext, EdgesKeptNext
   DEF UfInv

LEMMA ExactWhenMerged == UfInv => PartitionIsExact
<1> SUFFICES ASSUME UfInv, Merged, NEW S \in SUBSET Blocks
             PROVE  ClosedByLinks(S) <=> ClosedByTouch(S)
  BY DEF PartitionIsExact
<1>1. ASSUME ClosedByTouch(S) PROVE ClosedByLinks(S)
  BY <1>1 DEF UfInv, LinksDown, OnlyTouching, ClosedByLinks
<1>2. ASSUME ClosedByLinks(S) PROVE ClosedByTouch(S)
  <2>1. \A t \in Blocks : \A i \in DOMAIN touching[t] : i < edge[t]
    <3>1. ASSUME NEW t \in Blocks
          PROVE  touching[t] \in Seq(Blocks) /\ edge[t] \in Nat /\ edge[t] > Len(touching[t])
      BY DEF UfInv, UfTypeOK, Touches, Merged
    <3> QED  BY <3>1
  <2> QED  BY <1>2, <2>1 DEF UfInv, EdgesKept, ClosedByTouch
<1> QED
  BY <1>1, <1>2

\* The labelling the text detection's boxes come from: when the merge kernel
\* of ccl_kernels.cu has ended, two blocks have the same root exactly if they
\* touch or are joined by blocks that touch, for every number of blocks and
\* whatever its threads' plain loads of the labels returned.
THEOREM UnionFindExact == UfSpec => []PartitionIsExact
<1>1. UfInv => PartitionIsExact
  BY ExactWhenMerged
<1> QED
  BY UfInitInv, UfInvNext, <1>1, PTL DEF UfSpec

-----------------------------------------------------------------------------
RecSpec == RecInit /\ [][RecNext]_recVars

Contents  == [img : Nat, box : Nat, call : Nat]
Crop      == [img : Nat, box : Nat, width : Nat]
Batch     == [beg : Nat, end : Nat, slot : Nat]
Operation == [op : {"copy", "warp", "infer", "answer"}, call : Nat, beg : Nat,
              slot : Slots, lo : Nat, hi : Nat, img : Nat]

RecTypeOK ==
  /\ phase \in {"idle", "queue", "warp", "decode", "thrown"}
  /\ calls \in Nat /\ beg \in Nat /\ row \in Nat /\ slot \in Nat
  /\ crops \in Seq(Crop) /\ records \in Seq(Batch) /\ stream \in Seq(Operation)
  /\ pinned \in [Slots -> [Rows -> Contents]]
  /\ answers \in [Slots -> [Rows -> Contents]]
  /\ transforms \in [Rows -> Contents]
  /\ pixels \in [Rows -> Contents]
  /\ output \in [Rows -> Contents]
  /\ results \in [DOMAIN crops -> Seq(Contents)]
  /\ dropped \in Seq(Nat)

\* The batches that will be decoded: those on record and the one in hand.
InHand == [beg |-> beg, end |-> End, slot |-> slot]
Live == {records[i] : i \in DOMAIN records} \cup (IF phase = "warp" THEN {InHand} ELSE {})
Size(b) == b.end - b.beg
Of(o, b) == o.call = calls /\ o.beg = b.beg
\* The first n rows of f are those of batch b.
Right(f, b, n) == \A r \in 1 .. n : f[r] = Content(b.beg + r - 1)
Active == phase \in {"queue", "warp", "decode"}

\* The batches on record and the one in hand have crops and slots of their own.
Batches ==
  /\ beg >= 1 /\ beg <= Len(crops) + 1 /\ slot <= MaxSlots
  /\ phase = "warp" => beg <= Len(crops) /\ slot < MaxSlots /\ row <= Count
  /\ \A i \in DOMAIN records :
       /\ 1 <= records[i].beg /\ records[i].beg < records[i].end /\ records[i].end <= beg
       /\ Size(records[i]) <= MaxBatch /\ records[i].slot < slot
  /\ \A i, j \in DOMAIN records : i < j =>
       records[i].end <= records[j].beg /\ records[i].slot < records[j].slot

\* A live batch's operations are on its rows and its slot.
OpFits(o, b) ==
  /\ o.op = "copy"   => o.slot = b.slot /\ o.hi = Size(b)
  /\ o.op = "warp"   => /\ 1 <= o.lo /\ o.lo <= o.hi /\ o.hi <= Size(b)
                        /\ \A r \in o.lo .. o.hi : crops[b.beg + r - 1].img = o.img
  /\ o.op = "infer"  => o.hi >= Size(b)
  /\ o.op = "answer" => o.slot = b.slot /\ o.hi = Size(b)
OpsFit == \A k \in DOMAIN stream : \A b \in Live : Of(stream[k], b) => OpFits(stream[k], b)

\* But for its copy, each of them directly follows the one before it.
Follows(p, o, b) ==
  /\ Of(p, b)
  /\ o.op = "warp"   => (p.op = "copy" /\ o.lo = 1) \/ (p.op = "warp" /\ o.lo = p.hi + 1)
  /\ o.op = "infer"  => p.op = "warp" /\ p.hi = Size(b)
  /\ o.op = "answer" => p.op = "infer"
InOrder ==
  \A k \in DOMAIN stream : \A b \in Live :
    k > 1 /\ Of(stream[k], b) /\ stream[k].op # "copy" => Follows(stream[k - 1], stream[k], b)

\* The operation that is next finds its batch in the device's buffers.
Ready(o, b) ==
  /\ o.op = "warp"   => Right(transforms, b, Size(b)) /\ Right(pixels, b, o.lo - 1)
  /\ o.op = "infer"  => Right(pixels, b, Size(b))
  /\ o.op = "answer" => Right(output, b, Size(b))
HeadReady == stream # <<>> => \A b \in Live : Of(stream[1], b) => Ready(stream[1], b)

\* What is queued last, or was when the device caught up, is of the batch in
\* hand.
LastQueued ==
  phase = "warp" =>
    IF stream = <<>> THEN Right(transforms, InHand, Count) /\ Right(pixels, InHand, row)
    ELSE /\ Of(stream[Len(stream)], InHand)
         /\ \/ stream[Len(stream)].op = "copy" /\ row = 0
            \/ stream[Len(stream)].op = "warp" /\ row = stream[Len(stream)].hi

\* A slot's transforms stay until they are copied.
Staged ==
  \A k \in DOMAIN stream : \A b \in Live :
    Of(stream[k], b) /\ stream[k].op = "copy" => Right(pinned[b.slot], b, Size(b))

\* The answer of a batch on record is in its slot, or is still to come and
\* then the last to come there.
AnswersTo(o, b) == o.op = "answer" /\ o.slot = b.slot
AnswerIn(b) ==
  Right(answers[b.slot], b, Size(b)) /\ \A k \in DOMAIN stream : ~ AnswersTo(stream[k], b)
AnswerToCome(b) ==
  \E k \in DOMAIN stream : /\ Of(stream[k], b) /\ stream[k].op = "answer"
                           /\ \A m \in DOMAIN stream : m > k => ~ AnswersTo(stream[m], b)
Answered == \A i \in DOMAIN records : AnswerIn(records[i]) \/ AnswerToCome(records[i])

\* No operation is of a batch that is yet to be staged.
Behind ==
  \A k \in DOMAIN stream :
    /\ stream[k].call <= calls
    /\ Active /\ stream[k].call = calls =>
         stream[k].beg < beg \/ (phase = "warp" /\ stream[k].beg = beg)

Queued == OpsFit /\ InOrder /\ HeadReady /\ LastQueued /\ Staged /\ Answered

\* What has been emitted, and what has been lost.
OnRecord(k) == \E i \in DOMAIN records : records[i].beg <= k /\ k < records[i].end
Lost(i) == {k \in 1 .. beg - 1 : crops[k].img = i /\ results[k] = <<>> /\ ~ OnRecord(k)}
Emitted ==
  /\ \A k \in DOMAIN crops : results[k] \in {<<>>, <<Content(k)>>}
  /\ \A k \in DOMAIN crops : k >= beg \/ OnRecord(k) => results[k] = <<>>
  /\ \A i \in DOMAIN dropped : dropped[i] = Cardinality(Lost(i))

RecInv ==
  /\ RecTypeOK /\ Behind
  /\ Active => Batches /\ Queued /\ Emitted
  /\ phase = "decode" => stream = <<>>
  /\ EveryCropItsOwn

-----------------------------------------------------------------------------
\* A set of naturals that is not empty has a least member.
LEMMA LeastOf ==
  ASSUME NEW T \in SUBSET Nat, T # {}
  PROVE  \E x \in T : \A y \in T : x <= y
<1> DEFINE R == {ss \in Nat \X Nat : ss[1] < ss[2]}
<1>1. IsWellFoundedOn(R, Nat)
  BY NatLessThanWellFounded, Zenon DEF OpToRel
<1>2. \E x \in T : \A y \in T : ~ (<<y, x>> \in R)
  <2> HIDE DEF R
  <2> QED BY <1>1, WFMin
<1>3. PICK x \in T : \A y \in T : ~ (<<y, x>> \in R)
  BY <1>2
<1>4. ASSUME NEW y \in T PROVE x <= y
  <2>1. x \in Nat /\ y \in Nat
    OBVIOUS
  <2>2. ~ (<<y, x>> \in R)
    BY <1>3
  <2>3. ~ (y < x)
    BY <2>1, <2>2
  <2> QED BY <2>1, <2>3
<1> QED BY <1>4

\* A call's crops are finitely many.
LEMMA CropsFinite ==
  ASSUME NEW images \in Seq(Seq(Nat))
  PROVE  IsFiniteSet(CropsOf(images)) /\ CropsOf(images) \in SUBSET Crop
<1> DEFINE Item(i, b) == [img |-> i, box |-> b, width |-> images[i][b]]
           Items(i) == {Item(i, b) : b \in DOMAIN images[i]}
           All == {Items(i) : i \in DOMAIN images}
<1>1. CropsOf(images) = UNION All
  BY DEF CropsOf
<1>2. ASSUME NEW i \in DOMAIN images PROVE IsFiniteSet(Items(i)) /\ Items(i) \in SUBSET Crop
  <2>1. images[i] \in Seq(Nat) /\ i \in Nat
    OBVIOUS
  <2>2. DOMAIN images[i] = 1 .. Len(images[i]) /\ Len(images[i]) \in Nat
    BY <2>1
  <2>3. IsFiniteSet(DOMAIN images[i])
    BY <2>2, FS_Interval
  <2> DEFINE f == [b \in DOMAIN images[i] |-> Item(i, b)]
  <2>4. f \in Surjection(DOMAIN images[i], Items(i))
    BY DEF Surjection
  <2>5. IsFiniteSet(Items(i))
    <3> HIDE DEF f, Items
    <3> QED BY <2>3, <2>4, FS_Surjection
  <2>6. ASSUME NEW b \in DOMAIN images[i] PROVE Item(i, b) \in Crop
    BY <2>1, <2>2 DEF Crop
  <2> QED BY <2>5, <2>6
<1>3. IsFiniteSet(All)
  <2>1. DOMAIN images = 1 .. Len(images) /\ Len(images) \in Nat
    OBVIOUS
  <2>2. IsFiniteSet(DOMAIN images)
    BY <2>1, FS_Interval
  <2> DEFINE f == [i \in DOMAIN images |-> Items(i)]
  <2>3. f \in Surjection(DOMAIN images, All)
    <3> HIDE DEF Items
    <3> QED BY DEF Surjection
  <2> HIDE DEF f, All
  <2> QED BY <2>2, <2>3, FS_Surjection
<1>4. IsFiniteSet(UNION All)
  <2>1. \A T \in All : IsFiniteSet(T)
    <3> HIDE DEF Items
    <3> QED BY <1>2
  <2> HIDE DEF All
  <2> QED BY <1>3, <2>1, FS_UNION
<1>5. UNION All \in SUBSET Crop
  <2> HIDE DEF Items
  <2> QED BY <1>2
<1> QED BY <1>1, <1>4, <1>5

LEMMA SortedCropsType ==
  ASSUME NEW images \in Seq(Seq(Nat)), NEW cs \in SortedCrops(images)
  PROVE  cs \in Seq(Crop)
<1> DEFINE S == CropsOf(images)
<1>1. IsFiniteSet(S) /\ S \in SUBSET Crop
  BY CropsFinite
<1>2. cs \in [1 .. Cardinality(S) -> S]
  BY DEF SortedCrops, SetToSeqs
<1>3. Cardinality(S) \in Nat
  <2> HIDE DEF S
  <2> QED BY <1>1, FS_CardinalityType
<1>4. cs \in [1 .. Cardinality(S) -> Crop]
  <2> HIDE DEF S
  <2> QED BY <1>1, <1>2
<1> DEFINE n == Cardinality(S)
<1>5. n \in Nat /\ cs \in [1 .. n -> Crop]
  BY <1>3, <1>4
<1> HIDE DEF n
<1> QED BY <1>5

\* A batch has at least one crop and at most MaxBatch.
LEMMA BatchEndType ==
  ASSUME NEW cs \in Seq(Crop), NEW b \in Nat, 1 <= b, b <= Len(cs)
  PROVE  /\ BatchEnd(cs, b) \in Nat
         /\ b < BatchEnd(cs, b) /\ BatchEnd(cs, b) <= Len(cs) + 1
         /\ BatchEnd(cs, b) - b <= MaxBatch
<1> DEFINE Stops(e) == e > Len(cs) \/ e - b = MaxBatch \/ cs[e].width # cs[b].width
           T == {e \in Nat : e > b /\ Stops(e)}
<1>0. MaxBatch \in Nat /\ MaxBatch > 0 /\ Len(cs) \in Nat
  BY RecQueueAssumption
<1>1. Len(cs) + 1 \in T /\ b + MaxBatch \in T
  BY <1>0
<1>2. PICK e \in T : \A y \in T : e <= y
  <2>1. T \in SUBSET Nat /\ T # {}
    BY <1>1
  <2> HIDE DEF T
  <2> QED BY <2>1, LeastOf
<1>3. e \in b + 1 .. Len(cs) + 1 /\ e - b <= MaxBatch
  <2>1. e <= Len(cs) + 1 /\ e <= b + MaxBatch
    <3> HIDE DEF T
    <3> QED BY <1>1, <1>2
  <2>2. e \in Nat /\ b < e
    OBVIOUS
  <2> QED BY ONLY <1>0, <2>1, <2>2, b \in Nat
<1>4. ASSUME NEW i \in b .. e - 1 PROVE cs[i].width = cs[b].width
  <2>1. CASE i = b
    BY <2>1
  <2>2. CASE i # b
    <3>1. i \in Nat /\ i > b /\ i < e
      BY <2>2, <1>3
    <3>2. i \notin T
      <4> HIDE DEF T
      <4> QED BY <1>2, <1>3, <3>1
    <3> QED BY <3>1, <3>2
  <2> QED BY <2>1, <2>2
<1>5. \E x \in b + 1 .. Len(cs) + 1 :
        /\ x - b <= MaxBatch
        /\ \A i \in b .. x - 1 : cs[i].width = cs[b].width
        /\ Stops(x)
  BY <1>2, <1>3, <1>4
<1>6. BatchEnd(cs, b) \in b + 1 .. Len(cs) + 1 /\ BatchEnd(cs, b) - b <= MaxBatch
  <2> HIDE DEF T
  <2> QED BY <1>5 DEF BatchEnd
<1> QED BY <1>6, <1>0

\* A run of crops of one image ends, and ends with the batch.
LEMMA RunEndType ==
  ASSUME NEW cs \in Seq(Crop), NEW b \in Nat, NEW e \in Nat, b < e
  PROVE  /\ RunEnd(cs, b, e) \in b .. e - 1
         /\ \A k \in b .. RunEnd(cs, b, e) : cs[k].img = cs[b].img
<1> DEFINE Stops(i) == i = e - 1 \/ cs[i + 1].img # cs[b].img
           T == {i \in b .. e - 1 : Stops(i)}
<1>1. e - 1 \in T
  OBVIOUS
<1>2. PICK i \in T : \A y \in T : i <= y
  <2>1. b .. e - 1 \in SUBSET Nat
    OBVIOUS
  <2>2. T \in SUBSET Nat /\ T # {}
    BY <1>1, <2>1
  <2> HIDE DEF T
  <2> QED BY <2>2, LeastOf
<1>3. i \in b .. e - 1
  OBVIOUS
<1>4. ASSUME NEW k \in b .. i PROVE cs[k].img = cs[b].img
  <2>1. CASE k = b
    BY <2>1
  <2>2. CASE k # b
    <3>1. k - 1 \in b .. e - 1 /\ k - 1 < i /\ k - 1 + 1 = k
      BY <2>2, <1>3
    <3>2. k - 1 \notin T
      <4>1. i \in Int /\ k - 1 \in Int /\ ~ (i <= k - 1)
        BY <3>1, <1>3
      <4> HIDE DEF T
      <4> QED BY <1>2, <4>1
    <3> QED BY <3>1, <3>2
  <2> QED BY <2>1, <2>2
<1>5. \E x \in b .. e - 1 : (\A k \in b .. x : cs[k].img = cs[b].img) /\ Stops(x)
  BY <1>2, <1>3, <1>4
<1> QED BY <1>5 DEF RunEnd

\* A recorded graph has a row for every crop of the batch.
LEMMA ExecutedRowsType ==
  ASSUME NEW count \in Nat, NEW width \in Nat
  PROVE  ExecutedRows(count, width) \in Nat /\ ExecutedRows(count, width) >= count
<1> DEFINE fits == Fitting(count, width)
           best == CHOOSE n \in fits : \A m \in fits : n <= m
<1>1. fits \in SUBSET Nat /\ \A n \in fits : n >= count
  BY RecQueueAssumption DEF Fitting
<1>2. fits # {} => best \in fits
  <2> HIDE DEF fits
  <2> QED BY <1>1, LeastOf
<1>3. (ExecutedRows(count, width) = best /\ fits # {}) \/ ExecutedRows(count, width) = count
  <2> HIDE DEF fits
  <2> QED BY DEF ExecutedRows, fits
<1> HIDE DEF fits, best
<1>4. CASE best \in fits /\ ExecutedRows(count, width) = best
  BY <1>1, <1>4
<1> QED BY <1>2, <1>3, <1>4

LEMMA Appended ==
  ASSUME NEW S, NEW s \in Seq(S), NEW x \in S
  PROVE  /\ Append(s, x) \in Seq(S) /\ Append(s, x) # <<>>
         /\ Len(Append(s, x)) = Len(s) + 1 /\ Len(s) \in Nat
         /\ DOMAIN s = 1 .. Len(s)
         /\ DOMAIN Append(s, x) = 1 .. Len(s) + 1
         /\ \A k \in 1 .. Len(s) : Append(s, x)[k] = s[k]
         /\ Append(s, x)[Len(s) + 1] = x
OBVIOUS

LEMMA AppendedTwo ==
  ASSUME NEW S, NEW s \in Seq(S), NEW x \in S, NEW y \in S, NEW t, t = s \o <<x, y>>
  PROVE  /\ t \in Seq(S) /\ t # <<>>
         /\ Len(t) = Len(s) + 2 /\ Len(s) \in Nat
         /\ DOMAIN s = 1 .. Len(s) /\ DOMAIN t = 1 .. Len(s) + 2
         /\ \A k \in 1 .. Len(s) : t[k] = s[k]
         /\ t[Len(s) + 1] = x /\ t[Len(s) + 2] = y
OBVIOUS

LEMMA Without1st ==
  ASSUME NEW S, NEW s \in Seq(S), s # <<>>
  PROVE  /\ Tail(s) \in Seq(S) /\ Head(s) = s[1] /\ s[1] \in S
         /\ Len(s) \in Nat /\ Len(s) >= 1 /\ Len(Tail(s)) = Len(s) - 1
         /\ DOMAIN s = 1 .. Len(s) /\ DOMAIN Tail(s) = 1 .. Len(s) - 1
         /\ \A k \in 1 .. Len(s) - 1 : Tail(s)[k] = s[k + 1]
OBVIOUS

LEMMA ElementTypes ==
  ASSUME RecTypeOK
  PROVE  /\ \A k \in DOMAIN stream :
              /\ stream[k] \in Operation /\ stream[k].call \in Nat /\ stream[k].beg \in Nat
              /\ stream[k].lo \in Nat /\ stream[k].hi \in Nat /\ stream[k].slot \in Slots
              /\ stream[k].op \in {"copy", "warp", "infer", "answer"}
         /\ \A i \in DOMAIN records :
              /\ records[i] \in Batch /\ records[i].beg \in Nat
              /\ records[i].end \in Nat /\ records[i].slot \in Nat
<1>1. ASSUME NEW k \in DOMAIN stream PROVE stream[k] \in Operation
  BY DEF RecTypeOK
<1>2. ASSUME NEW i \in DOMAIN records PROVE records[i] \in Batch
  BY DEF RecTypeOK
<1> QED BY <1>1, <1>2 DEF Operation, Batch

LEMMA Overwritten ==
  ASSUME NEW old \in [Rows -> Contents], NEW new \in [Rows -> Contents], NEW n
  PROVE  Overwrite(old, new, n) \in [Rows -> Contents]
BY DEF Overwrite

LEMMA InHandType ==
  ASSUME RecTypeOK, beg >= 1, beg <= Len(crops)
  PROVE  /\ End \in Nat /\ beg < End /\ End <= Len(crops) + 1
         /\ Count \in Nat /\ Count >= 1 /\ Count <= MaxBatch /\ End = beg + Count
         /\ InHand \in Batch /\ Size(InHand) = Count
<1>1. /\ End \in Nat /\ beg < End /\ End <= Len(crops) + 1 /\ End - beg <= MaxBatch
  BY BatchEndType DEF RecTypeOK, End
<1>2. beg \in Nat /\ slot \in Nat
  BY DEF RecTypeOK
<1>3. MaxBatch \in Nat
  BY RecQueueAssumption
<1> QED BY <1>1, <1>2, <1>3 DEF Count, InHand, Batch, Size

LEMMA LiveSound ==
  ASSUME RecTypeOK, Batches, NEW b \in Live
  PROVE  /\ b \in Batch /\ 1 <= b.beg /\ b.beg < b.end /\ b.end <= Len(crops) + 1
         /\ Size(b) \in Nat /\ 1 <= Size(b) /\ Size(b) <= MaxBatch /\ b.slot \in Slots
         /\ b.end = b.beg + Size(b)
         /\ (b.beg < beg /\ b.slot < slot /\ b.end <= beg) \/ (phase = "warp" /\ b = InHand)
<1>1. MaxBatch \in Nat /\ MaxSlots \in Nat /\ beg \in Nat /\ slot \in Nat /\ Len(crops) \in Nat
  BY RecQueueAssumption DEF RecTypeOK
<1>2. CASE phase = "warp" /\ b = InHand
  <2>1. beg >= 1 /\ beg <= Len(crops) /\ slot < MaxSlots
    BY <1>2 DEF Batches
  <2>2. b.beg = beg /\ b.end = End /\ b.slot = slot
    BY <1>2 DEF InHand
  <2>3. InHand \in Batch /\ Size(InHand) = Count
    BY <2>1, InHandType
  <2>4. /\ End \in Nat /\ beg < End /\ End <= Len(crops) + 1
        /\ Count \in Nat /\ Count >= 1 /\ Count <= MaxBatch /\ End = beg + Count
    BY <2>1, InHandType
  <2> QED BY <1>1, <1>2, <2>1, <2>2, <2>3, <2>4 DEF Slots
<1>3. CASE \E i \in DOMAIN records : b = records[i]
  <2>1. PICK i \in DOMAIN records : b = records[i]
    BY <1>3
  <2>2. b \in Batch
    BY <2>1 DEF RecTypeOK
  <2>3. /\ 1 <= b.beg /\ b.beg < b.end /\ b.end <= beg
        /\ Size(b) <= MaxBatch /\ b.slot < slot /\ slot <= MaxSlots /\ beg <= Len(crops) + 1
    BY <2>1 DEF Batches
  <2>4. b.beg \in Nat /\ b.end \in Nat /\ b.slot \in Nat
    BY <2>2 DEF Batch
  <2> QED BY <1>1, <2>2, <2>3, <2>4 DEF Slots, Size
<1> QED BY <1>2, <1>3 DEF Live

\* Live batches share neither crops nor slots.
LEMMA LiveDistinct ==
  ASSUME RecTypeOK, Batches, NEW b \in Live, NEW c \in Live, b.beg = c.beg \/ b.slot = c.slot
  PROVE  b = c
<1>1. \A i, j \in DOMAIN records : records[i].beg = records[j].beg \/ records[i].slot = records[j].slot => i = j
  <2> SUFFICES ASSUME NEW i \in DOMAIN records, NEW j \in DOMAIN records, i < j
               PROVE  records[i].beg # records[j].beg /\ records[i].slot # records[j].slot
    <3>1. DOMAIN records \in SUBSET Nat
      BY DEF RecTypeOK
    <3>2. \A i, j \in DOMAIN records : i = j \/ i < j \/ j < i
      BY <3>1
    <3> QED BY <3>2
  <2>1. /\ records[i].beg < records[i].end /\ records[i].end <= records[j].beg
        /\ records[i].slot < records[j].slot
    BY DEF Batches
  <2>2. records[i] \in Batch /\ records[j] \in Batch
    BY DEF RecTypeOK
  <2> QED BY <2>1, <2>2 DEF Batch
<1>2. \A i \in DOMAIN records : records[i].beg # InHand.beg /\ records[i].slot # InHand.slot
  <2> SUFFICES ASSUME NEW i \in DOMAIN records
               PROVE  records[i].beg # beg /\ records[i].slot # slot
    BY DEF InHand
  <2>1. records[i].beg < records[i].end /\ records[i].end <= beg /\ records[i].slot < slot
    BY DEF Batches
  <2>2. records[i] \in Batch /\ beg \in Nat /\ slot \in Nat
    BY DEF RecTypeOK
  <2> QED BY <2>1, <2>2 DEF Batch
<1> QED BY <1>1, <1>2 DEF Live

-----------------------------------------------------------------------------
\* A step keeps the types.
LEMMA OpType ==
  ASSUME RecTypeOK, slot < MaxSlots, NEW lo \in Nat, NEW hi \in Nat, NEW img \in Nat,
         NEW kind \in {"copy", "warp", "infer", "answer"}
  PROVE  Op(kind, lo, hi, img) \in Operation
BY RecQueueAssumption DEF Op, Operation, RecTypeOK, Slots

LEMMA InferType ==
  ASSUME RecTypeOK, Batches, phase = "warp"
  PROVE  /\ Op("infer", 1, ExecutedRows(Count, crops[beg].width), 0) \in Operation
         /\ ExecutedRows(Count, crops[beg].width) >= Count
<1>1. Count \in Nat /\ slot < MaxSlots /\ beg >= 1 /\ beg <= Len(crops)
  BY InHandType DEF Batches
<1>2. beg \in Nat /\ crops \in Seq(Crop)
  BY DEF RecTypeOK
<1>3. crops[beg] \in Crop
  BY <1>1, <1>2
<1>4. crops[beg].width \in Nat
  BY <1>3 DEF Crop
<1>5. ExecutedRows(Count, crops[beg].width) \in Nat /\ ExecutedRows(Count, crops[beg].width) >= Count
  BY <1>1, <1>4, ExecutedRowsType
<1> QED BY <1>1, <1>5, OpType

LEMMA TypeInit == RecInit => RecTypeOK
<1> SUFFICES ASSUME RecInit PROVE RecTypeOK
  OBVIOUS
<1>1. Nothing \in Contents
  BY DEF Nothing, Contents
<1>2. [r \in Rows |-> Nothing] \in [Rows -> Contents]
  BY <1>1
<1>3. [s \in Slots |-> [r \in Rows |-> Nothing]] \in [Slots -> [Rows -> Contents]]
  BY <1>2
<1>4. results \in [DOMAIN crops -> Seq(Contents)]
  BY DEF RecInit
<1> QED BY <1>2, <1>3, <1>4 DEF RecInit, RecTypeOK

LEMMA TypeBegin ==
  ASSUME RecTypeOK, NEW images \in Calls, Begin(images) \/ NothingToRead(images)
  PROVE  RecTypeOK'
<1>1. images \in Seq(Seq(Nat))
  BY RecQueueAssumption
<1>2. calls' \in Nat /\ beg' \in Nat /\ row' \in Nat /\ slot' \in Nat
  BY DEF RecTypeOK, Begin, NothingToRead
<1>3. crops' \in Seq(Crop) /\ records' \in Seq(Batch)
  <2>1. CASE Begin(images)
    <3>1. crops' \in SortedCrops(images) /\ records' = <<>>
      BY <2>1 DEF Begin
    <3> QED BY <1>1, <3>1, SortedCropsType
  <2>2. CASE NothingToRead(images)
    BY <2>2 DEF NothingToRead
  <2> QED BY <2>1, <2>2
<1>4. results' \in [DOMAIN crops' -> Seq(Contents)]
  <2>1. CASE Begin(images)
    BY <2>1 DEF Begin
  <2>2. CASE NothingToRead(images)
    BY <2>2 DEF NothingToRead
  <2> QED BY <2>1, <2>2
<1>5. dropped' \in Seq(Nat)
  <2>1. CASE Begin(images)
    <3>1. dropped' = [i \in 1 .. Len(images) |-> 0] /\ Len(images) \in Nat
      BY <1>1, <2>1 DEF Begin
    <3> QED BY <3>1
  <2>2. CASE NothingToRead(images)
    BY <2>2 DEF NothingToRead, RecTypeOK
  <2> QED BY <2>1, <2>2
<1>6. UNCHANGED <<pinned, answers, transforms, pixels, output, stream>>
  BY DEF Begin, NothingToRead, deviceVars
<1> QED BY <1>2, <1>3, <1>4, <1>5, <1>6 DEF RecTypeOK, Begin, NothingToRead

LEMMA ContentType ==
  ASSUME RecTypeOK, NEW k \in DOMAIN crops
  PROVE  Content(k) \in Contents
<1>1. crops[k] \in Crop /\ calls \in Nat
  BY DEF RecTypeOK
<1> QED BY <1>1 DEF Crop, Contents, Content

LEMMA TypeStage == RecTypeOK /\ (Active => Batches) /\ Stage => RecTypeOK'
<1> SUFFICES ASSUME RecTypeOK, Batches, Stage PROVE RecTypeOK'
  BY DEF Stage, Active
<1>1. beg \in Nat /\ beg >= 1 /\ beg <= Len(crops) /\ slot < MaxSlots /\ slot \in Slots
  BY RecQueueAssumption DEF Stage, Batches, RecTypeOK, Slots
<1>2. /\ Count \in Nat /\ End = beg + Count /\ End <= Len(crops) + 1
  BY <1>1, InHandType
<1>3. ASSUME NEW r \in Rows, r <= Count PROVE Content(beg + r - 1) \in Contents
  <2>1. DOMAIN crops = 1 .. Len(crops) /\ Len(crops) \in Nat
    BY DEF RecTypeOK
  <2>2. r \in Nat /\ r >= 1
    BY RecQueueAssumption DEF Rows
  <2>3. beg + r - 1 \in DOMAIN crops
    BY <1>1, <1>2, <1>3, <2>1, <2>2
  <2> QED BY <2>3, ContentType
<1> DEFINE new == [r \in Rows |-> IF r <= Count THEN Content(beg + r - 1) ELSE pinned[slot][r]]
<1>4. new \in [Rows -> Contents]
  <2>1. pinned[slot] \in [Rows -> Contents]
    BY <1>1 DEF RecTypeOK
  <2> QED BY <1>3, <2>1
<1>5. pinned' \in [Slots -> [Rows -> Contents]]
  <2>1. pinned' = [pinned EXCEPT ![slot] = new]
    BY DEF Stage
  <2>2. pinned \in [Slots -> [Rows -> Contents]]
    BY DEF RecTypeOK
  <2> HIDE DEF new
  <2> QED BY <1>4, <2>1, <2>2
<1>6. stream' \in Seq(Operation)
  <2> DEFINE o == Op("copy", 1, Count, 0)
  <2>1. o \in Operation
    BY <1>1, <1>2, OpType
  <2>2. stream' = Append(stream, o) \/ stream' = stream
    BY DEF Stage
  <2>3. stream \in Seq(Operation)
    BY DEF RecTypeOK
  <2> HIDE DEF o
  <2>4. Append(stream, o) \in Seq(Operation)
    BY <2>1, <2>3
  <2> QED BY <2>2, <2>3, <2>4
<1>7. phase' \in {"warp", "thrown"} /\ row' \in Nat
  BY DEF Stage, RecTypeOK
<1> QED BY <1>5, <1>6, <1>7 DEF Stage, RecTypeOK, deviceVars

\* The run of crops that a warp takes.
LEMMA WarpRows ==
  ASSUME RecTypeOK, Batches, Warp
  PROVE  /\ row' \in Nat /\ row < row' /\ row' <= Count
         /\ \A r \in row + 1 .. row' : crops[beg + r - 1].img = crops[beg + row].img
         /\ crops[beg + row].img \in Nat
<1>1. beg \in Nat /\ row \in Nat /\ row < Count /\ beg <= Len(crops)
  BY DEF Warp, RecTypeOK, Batches
<1>2. Count \in Nat /\ End = beg + Count /\ End \in Nat /\ End <= Len(crops) + 1
  BY <1>1, InHandType DEF Batches
<1> DEFINE e == RunEnd(crops, beg + row, End)
<1>3. /\ e \in beg + row .. End - 1
      /\ \A k \in beg + row .. e : crops[k].img = crops[beg + row].img
  <2>1. crops \in Seq(Crop) /\ beg + row \in Nat /\ beg + row < End
    BY <1>1, <1>2 DEF RecTypeOK
  <2> QED BY <1>2, <2>1, RunEndType
<1>4. row' = e - beg + 1
  BY DEF Warp
<1>5. crops[beg + row] \in Crop
  <2>1. beg + row \in 1 .. Len(crops)
    BY <1>1, <1>2 DEF RecTypeOK, Batches
  <2> QED BY <2>1 DEF RecTypeOK
<1> HIDE DEF e
<1>6. row' \in Nat /\ row < row' /\ row' <= Count
  BY <1>1, <1>2, <1>3, <1>4
<1>7. ASSUME NEW r \in row + 1 .. row' PROVE crops[beg + r - 1].img = crops[beg + row].img
  <2>1. beg + r - 1 \in beg + row .. e
    BY <1>1, <1>3, <1>4, <1>6
  <2> QED BY <1>3, <2>1
<1> QED BY <1>5, <1>6, <1>7 DEF Crop

LEMMA WarpType ==
  ASSUME RecTypeOK, Batches, Warp
  PROVE  Op("warp", row + 1, row', crops[beg + row].img) \in Operation
<1>1. row + 1 \in Nat /\ slot < MaxSlots
  BY DEF RecTypeOK, Batches, Warp
<1> QED BY <1>1, WarpRows, OpType

LEMMA TypeWarp == RecTypeOK /\ (Active => Batches) /\ Warp => RecTypeOK'
<1> SUFFICES ASSUME RecTypeOK, Batches, Warp PROVE RecTypeOK'
  BY DEF Warp, Active
<1> DEFINE o == Op("warp", row + 1, row', crops[beg + row].img)
<1>1. o \in Operation /\ row' \in Nat
  BY WarpRows, WarpType
<1>2. stream' = Append(stream, o)
  BY DEF Warp
<1> HIDE DEF o
<1>3. stream' \in Seq(Operation)
  BY <1>1, <1>2 DEF RecTypeOK
<1> QED BY <1>1, <1>3 DEF Warp, RecTypeOK, deviceVars

LEMMA AnswerType ==
  ASSUME RecTypeOK, Batches, phase = "warp"
  PROVE  Op("answer", 1, Count, 0) \in Operation /\ InHand \in Batch
<1>1. Count \in Nat /\ InHand \in Batch /\ slot < MaxSlots
  BY InHandType DEF Batches
<1> QED BY <1>1, OpType

LEMMA TypeInfer == RecTypeOK /\ (Active => Batches) /\ Infer => RecTypeOK'
<1> SUFFICES ASSUME RecTypeOK, Batches, Infer PROVE RecTypeOK'
  BY DEF Infer, Active
<1> DEFINE o == Op("infer", 1, ExecutedRows(Count, crops[beg].width), 0)
           a == Op("answer", 1, Count, 0)
<1>1. o \in Operation /\ a \in Operation /\ InHand \in Batch
  BY InferType, AnswerType DEF Infer
<1>2. stream' = stream \o <<o, a>> /\ records' = Append(records, InHand)
  BY DEF Infer, InHand
<1>3. End \in Nat
  BY InHandType DEF Infer, Batches
<1> HIDE DEF o, a
<1>4. stream' \in Seq(Operation)
  <2>1. stream \in Seq(Operation) /\ <<o, a>> \in Seq(Operation)
    BY <1>1 DEF RecTypeOK
  <2> HIDE DEF InHand
  <2> QED BY <1>2, <2>1
<1>5. records' \in Seq(Batch)
  BY <1>1, <1>2 DEF RecTypeOK
<1> QED BY <1>3, <1>4, <1>5 DEF Infer, RecTypeOK, deviceVars

LEMMA TypeOverDims == RecTypeOK /\ (Active => Batches) /\ InferOverDims => RecTypeOK'
<1> SUFFICES ASSUME RecTypeOK, Batches, InferOverDims PROVE RecTypeOK'
  BY DEF InferOverDims, Active
<1> DEFINE o == Op("infer", 1, ExecutedRows(Count, crops[beg].width), 0)
<1>1. o \in Operation
  BY InferType DEF InferOverDims
<1>2. stream' = Append(stream, o)
  BY DEF InferOverDims
<1>3. End \in Nat /\ beg \in Nat
  BY InHandType DEF InferOverDims, Batches, RecTypeOK
<1> HIDE DEF o
<1>4. stream' \in Seq(Operation)
  BY <1>1, <1>2 DEF RecTypeOK
<1>5. ASSUME NEW i \in DOMAIN dropped
      PROVE  dropped[i] + Cardinality({k \in beg .. End - 1 : crops[k].img = i}) \in Nat
  <2> DEFINE S == {k \in beg .. End - 1 : crops[k].img = i}
  <2>1. IsFiniteSet(beg .. End - 1) /\ S \in SUBSET (beg .. End - 1)
    BY <1>3, FS_Interval
  <2> HIDE DEF S
  <2>2. IsFiniteSet(S)
    BY <2>1, FS_Subset
  <2>3. Cardinality(S) \in Nat
    BY <2>2, FS_CardinalityType
  <2>4. dropped[i] \in Nat
    BY DEF RecTypeOK
  <2> QED BY <2>3, <2>4 DEF S
<1>6. dropped' \in Seq(Nat)
  <2> DEFINE f(i) == dropped[i] + Cardinality({k \in beg .. End - 1 : crops[k].img = i})
             n == Len(dropped)
  <2>1. DOMAIN dropped = 1 .. n /\ n \in Nat
    BY DEF RecTypeOK
  <2>2. dropped' = [i \in 1 .. n |-> f(i)] /\ \A i \in 1 .. n : f(i) \in Nat
    BY <1>5, <2>1 DEF InferOverDims
  <2> HIDE DEF f, n
  <2> QED BY <2>1, <2>2
<1> QED BY <1>3, <1>4, <1>6 DEF InferOverDims, RecTypeOK, deviceVars

LEMMA TypeThrow == RecTypeOK /\ (Active => Batches) /\ Throw => RecTypeOK'
<1> SUFFICES ASSUME RecTypeOK, Batches, Throw PROVE RecTypeOK'
  BY DEF Throw, Active
<1> DEFINE o == Op("infer", 1, ExecutedRows(Count, crops[beg].width), 0)
<1>1. phase = "warp" => o \in Operation
  BY InferType
<1>2. stream' = stream \/ (phase = "warp" /\ stream' = Append(stream, o))
  BY DEF Throw
<1> HIDE DEF o
<1>3. stream' \in Seq(Operation)
  <2>1. stream \in Seq(Operation)
    BY DEF RecTypeOK
  <2>2. phase = "warp" => Append(stream, o) \in Seq(Operation)
    BY <1>1, <2>1
  <2> QED BY <1>2, <2>1, <2>2
<1> QED BY <1>3 DEF Throw, RecTypeOK, deviceVars

\* The crops of the oldest record and their rows.
LEMMA HeadRecord ==
  ASSUME RecTypeOK, Batches, records # <<>>
  PROVE  /\ Head(records) = records[1] /\ 1 \in DOMAIN records /\ records[1] \in Live
         /\ records[1].slot \in Slots
         /\ \A k \in records[1].beg .. records[1].end - 1 :
              k - records[1].beg + 1 \in 1 .. Size(records[1]) /\ k - records[1].beg + 1 \in Rows
<1>1. Head(records) = records[1] /\ 1 \in DOMAIN records /\ records[1] \in Live
  BY DEF RecTypeOK, Live
<1> DEFINE b == records[1]
<1>2. b \in Live
  BY <1>1
<1> HIDE DEF b
<1>3. /\ b \in Batch /\ b.slot \in Slots /\ Size(b) \in Nat /\ Size(b) <= MaxBatch
      /\ b.end = b.beg + Size(b)
  BY <1>2, LiveSound
<1>4. b.beg \in Nat /\ MaxBatch \in Nat
  BY <1>3, RecQueueAssumption DEF Batch
<1>5. \A k \in b.beg .. b.end - 1 : k - b.beg + 1 \in 1 .. Size(b) /\ k - b.beg + 1 \in Rows
  BY <1>3, <1>4 DEF Rows
<1> QED BY <1>1, <1>3, <1>5 DEF b

LEMMA TypeDecode == RecTypeOK /\ (Active => Batches) /\ DecodeRecord => RecTypeOK'
<1> SUFFICES ASSUME RecTypeOK, Batches, DecodeRecord PROVE RecTypeOK'
  BY DEF DecodeRecord, Active
<1> DEFINE rec == records[1]
<1>1. Head(records) = rec /\ rec.slot \in Slots
  BY HeadRecord DEF DecodeRecord
<1>2. ASSUME NEW k \in DOMAIN results, k \in rec.beg .. rec.end - 1
      PROVE  Append(results[k], answers[rec.slot][k - rec.beg + 1]) \in Seq(Contents)
  <2>1. k - rec.beg + 1 \in Rows
    BY <1>2, HeadRecord DEF DecodeRecord
  <2>2. answers[rec.slot] \in [Rows -> Contents]
    BY <1>1 DEF RecTypeOK
  <2>3. answers[rec.slot][k - rec.beg + 1] \in Contents
    BY <2>1, <2>2
  <2>4. results[k] \in Seq(Contents)
    BY DEF RecTypeOK
  <2> QED BY <2>3, <2>4
<1>3. results' = [k \in DOMAIN results |->
                    IF k \in rec.beg .. rec.end - 1
                    THEN Append(results[k], answers[rec.slot][k - rec.beg + 1])
                    ELSE results[k]]
  BY <1>1 DEF DecodeRecord
<1>4. results \in [DOMAIN crops -> Seq(Contents)]
  BY DEF RecTypeOK
<1>5. results' \in [DOMAIN crops -> Seq(Contents)]
  <2> HIDE DEF rec
  <2> QED BY <1>2, <1>3, <1>4
<1>6. records' \in Seq(Batch)
  BY DEF DecodeRecord, RecTypeOK
<1> QED BY <1>5, <1>6 DEF DecodeRecord, RecTypeOK, deviceVars

LEMMA WarpedType ==
  ASSUME RecTypeOK, NEW r \in Rows, NEW o
  PROVE  Warped(o, r) \in Contents
<1>1. Nothing \in Contents /\ transforms[r] \in Contents
  BY DEF Nothing, Contents, RecTypeOK
<1> QED BY <1>1 DEF Warped

LEMMA TypeExecute == RecTypeOK /\ Execute => RecTypeOK'
<1> SUFFICES ASSUME RecTypeOK, Execute PROVE RecTypeOK'
  OBVIOUS
<1> DEFINE o == stream[1]
<1>1. Head(stream) = o /\ o \in Operation /\ stream' \in Seq(Operation)
  BY Without1st DEF Execute, RecTypeOK
<1>2. o.slot \in Slots
  BY <1>1 DEF Operation
<1>3. pinned[o.slot] \in [Rows -> Contents] /\ answers[o.slot] \in [Rows -> Contents]
  BY <1>2 DEF RecTypeOK
<1>4. /\ transforms \in [Rows -> Contents] /\ pixels \in [Rows -> Contents]
      /\ output \in [Rows -> Contents] /\ answers \in [Slots -> [Rows -> Contents]]
  BY DEF RecTypeOK
<1>5. ExecuteCopy(o) \/ ExecuteWarp(o) \/ ExecuteInfer(o) \/ ExecuteAnswer(o)
  BY <1>1 DEF Execute
<1> HIDE DEF o
<1>6. /\ transforms' \in [Rows -> Contents] /\ pixels' \in [Rows -> Contents]
      /\ output' \in [Rows -> Contents] /\ answers' \in [Slots -> [Rows -> Contents]]
  <2>1. CASE ExecuteCopy(o)
    BY <2>1, <1>3, <1>4, Overwritten DEF ExecuteCopy
  <2>2. CASE ExecuteWarp(o)
    BY <2>2, <1>4, WarpedType DEF ExecuteWarp
  <2>3. CASE ExecuteInfer(o)
    BY <2>3, <1>4, Overwritten DEF ExecuteInfer
  <2>4. CASE ExecuteAnswer(o)
    <3>1. Overwrite(answers[o.slot], output, o.hi) \in [Rows -> Contents]
      BY <1>3, <1>4, Overwritten
    <3> QED BY <2>4, <1>4, <3>1 DEF ExecuteAnswer
  <2> QED BY <1>5, <2>1, <2>2, <2>3, <2>4
<1> QED BY <1>1, <1>6 DEF Execute, RecTypeOK

LEMMA RecTypeNext == RecTypeOK /\ (Active => Batches) /\ [RecNext]_recVars => RecTypeOK'
<1> SUFFICES ASSUME RecTypeOK, Active => Batches, [RecNext]_recVars PROVE RecTypeOK'
  OBVIOUS
<1>1. CASE UNCHANGED recVars
  BY <1>1 DEF recVars, RecTypeOK
<1>2. ASSUME NEW images \in Calls, Begin(images) \/ NothingToRead(images) PROVE RecTypeOK'
  BY <1>2, TypeBegin
<1>3. CASE Synchronise
  BY <1>3 DEF Synchronise, RecTypeOK, deviceVars
<1>4. CASE Decoded
  BY <1>4 DEF Decoded, RecTypeOK, deviceVars
<1> QED BY <1>1, <1>2, <1>3, <1>4, TypeStage, TypeWarp, TypeInfer, TypeOverDims, TypeThrow,
           TypeDecode, TypeExecute DEF RecNext

-----------------------------------------------------------------------------
\* What depends on the call's crops and the batches alone.
LEMMA SameBatches ==
  ASSUME UNCHANGED <<phase, crops, beg, slot, records>>
  PROVE  Live' = Live /\ InHand' = InHand /\ Count' = Count /\ End' = End
BY DEF Live, InHand, Count, End

LEMMA SameContents ==
  ASSUME UNCHANGED <<calls, crops>>, NEW b, NEW n
  PROVE  /\ \A k : Content(k)' = Content(k)
         /\ \A o : Of(o, b)' <=> Of(o, b)
         /\ \A o : OpFits(o, b)' <=> OpFits(o, b)
         /\ \A f : (\A r \in 1 .. n : f[r] = Content(b.beg + r - 1)') <=> Right(f, b, n)
         /\ \A p, o : Follows(p, o, b)' <=> Follows(p, o, b)
BY DEF Content, Of, OpFits, Right, Follows

\* Batches, step by step.
LEMMA BatchesInfer == RecTypeOK /\ Batches /\ Infer => Batches'
<1> SUFFICES ASSUME RecTypeOK, Batches, Infer PROVE Batches'
  OBVIOUS
<1>1. beg >= 1 /\ beg <= Len(crops) /\ slot < MaxSlots
  BY DEF Batches, Infer
<1>2. /\ End \in Nat /\ beg < End /\ End <= Len(crops) + 1
      /\ InHand \in Batch /\ Size(InHand) = Count /\ Count <= MaxBatch
  BY <1>1, InHandType
<1>3. /\ phase' = "queue" /\ beg' = End /\ slot' = slot + 1 /\ crops' = crops
      /\ records' = Append(records, InHand)
  BY DEF Infer, InHand
<1>4. InHand.beg = beg /\ InHand.end = End /\ InHand.slot = slot
  BY DEF InHand
<1>5. /\ DOMAIN records = 1 .. Len(records) /\ Len(records) \in Nat
      /\ DOMAIN records' = 1 .. Len(records) + 1
      /\ \A i \in 1 .. Len(records) : records'[i] = records[i]
      /\ records'[Len(records) + 1] = InHand
  BY <1>2, <1>3, Appended DEF RecTypeOK
<1>6. beg \in Nat /\ slot \in Nat /\ MaxSlots \in Nat /\ MaxBatch \in Nat /\ Len(crops) \in Nat
  BY RecQueueAssumption DEF RecTypeOK
<1>7. ASSUME NEW i \in 1 .. Len(records)
      PROVE  /\ records[i].beg \in Nat /\ records[i].end \in Nat /\ records[i].slot \in Nat
             /\ 1 <= records[i].beg /\ records[i].beg < records[i].end /\ records[i].end <= beg
             /\ Size(records[i]) <= MaxBatch /\ records[i].slot < slot
  <2>1. records[i] \in Batch /\ i \in DOMAIN records
    BY <1>5 DEF RecTypeOK
  <2> QED BY <2>1 DEF Batches, Batch
<1>8. beg' >= 1 /\ beg' <= Len(crops') + 1 /\ slot' <= MaxSlots /\ phase' # "warp"
  BY <1>1, <1>2, <1>3, <1>6
<1>9. ASSUME NEW i \in DOMAIN records'
      PROVE  /\ 1 <= records'[i].beg /\ records'[i].beg < records'[i].end /\ records'[i].end <= beg'
             /\ Size(records'[i]) <= MaxBatch /\ records'[i].slot < slot'
  <2>1. CASE i \in 1 .. Len(records)
    BY <2>1, <1>2, <1>3, <1>5, <1>6, <1>7
  <2>2. CASE i = Len(records) + 1
    BY <2>2, <1>1, <1>2, <1>3, <1>4, <1>5, <1>6
  <2> QED BY <2>1, <2>2, <1>5
<1>10. ASSUME NEW i \in DOMAIN records', NEW j \in DOMAIN records', i < j
       PROVE  records'[i].end <= records'[j].beg /\ records'[i].slot < records'[j].slot
  <2>1. i \in 1 .. Len(records)
    BY <1>5, <1>10
  <2>2. CASE j \in 1 .. Len(records)
    <3>1. records[i].end <= records[j].beg /\ records[i].slot < records[j].slot
      BY <2>1, <2>2, <1>5, <1>10 DEF Batches
    <3> QED BY <3>1, <2>1, <2>2, <1>5
  <2>3. CASE j = Len(records) + 1
    BY <2>1, <2>3, <1>4, <1>5, <1>7
  <2> QED BY <2>2, <2>3, <1>5
<1> QED BY <1>8, <1>9, <1>10 DEF Batches, Size

LEMMA BatchesOverDims == RecTypeOK /\ Batches /\ InferOverDims => Batches'
<1> SUFFICES ASSUME RecTypeOK, Batches, InferOverDims PROVE Batches'
  OBVIOUS
<1>1. beg >= 1 /\ beg <= Len(crops) /\ slot < MaxSlots
  BY DEF Batches, InferOverDims
<1>2. End \in Nat /\ beg < End /\ End <= Len(crops) + 1
  BY <1>1, InHandType
<1>3. phase' = "queue" /\ beg' = End /\ UNCHANGED <<slot, crops, records>>
  BY DEF InferOverDims
<1>4. beg \in Nat /\ \A i \in DOMAIN records : records[i].end \in Nat
  BY ElementTypes DEF RecTypeOK
<1> QED BY <1>1, <1>2, <1>3, <1>4 DEF Batches, Size

LEMMA BatchesDecode == RecTypeOK /\ Batches /\ DecodeRecord => Batches'
<1> SUFFICES ASSUME RecTypeOK, Batches, DecodeRecord PROVE Batches'
  OBVIOUS
<1>1. /\ phase' = "decode" /\ UNCHANGED <<beg, slot, crops>> /\ records # <<>>
      /\ records' = Tail(records)
  BY DEF DecodeRecord
<1> DEFINE n == Len(records)
<1>2. /\ n \in Nat /\ n >= 1 /\ DOMAIN records = 1 .. n /\ DOMAIN records' = 1 .. n - 1
      /\ \A i \in 1 .. n - 1 : records'[i] = records[i + 1]
  BY <1>1, Without1st DEF RecTypeOK
<1> HIDE DEF n
<1>3. ASSUME NEW i \in DOMAIN records'
      PROVE  i + 1 \in DOMAIN records /\ records'[i] = records[i + 1]
  BY <1>2
<1>4. ASSUME NEW i \in DOMAIN records', NEW j \in DOMAIN records', i < j
      PROVE  records'[i].end <= records'[j].beg /\ records'[i].slot < records'[j].slot
  <2>1. i + 1 < j + 1
    BY <1>2, <1>4
  <2> QED BY <2>1, <1>3 DEF Batches
<1>5. ASSUME NEW i \in DOMAIN records'
      PROVE  /\ 1 <= records'[i].beg /\ records'[i].beg < records'[i].end /\ records'[i].end <= beg'
             /\ Size(records'[i]) <= MaxBatch /\ records'[i].slot < slot'
  BY <1>1, <1>3 DEF Batches
<1> QED BY <1>1, <1>4, <1>5 DEF Batches, Size

LEMMA BatchesNext == RecTypeOK /\ (Active => Batches) /\ [RecNext]_recVars /\ Active' => Batches'
<1> SUFFICES ASSUME RecTypeOK, Active => Batches, [RecNext]_recVars, Active' PROVE Batches'
  OBVIOUS
<1>1. CASE UNCHANGED recVars
  BY <1>1 DEF recVars, Batches, Active, Count, End
<1>2. ASSUME NEW images \in Calls, Begin(images) PROVE Batches'
  <2>1. crops' \in Seq(Crop)
    <3>1. images \in Seq(Seq(Nat)) /\ crops' \in SortedCrops(images)
      BY <1>2, RecQueueAssumption DEF Begin
    <3> QED BY <3>1, SortedCropsType
  <2>2. Len(crops') \in Nat /\ MaxSlots \in Nat
    BY <2>1, RecQueueAssumption
  <2> QED BY <1>2, <2>2 DEF Begin, Batches
<1>3. ASSUME NEW images \in Calls, NothingToRead(images) PROVE FALSE
  BY <1>3 DEF NothingToRead, Active
<1>4. CASE Stage
  <2>1. phase' = "warp" /\ row' = 0 /\ UNCHANGED <<beg, slot, crops, records>>
    BY <1>4 DEF Stage, Active
  <2>2. Batches /\ beg <= Len(crops) /\ slot < MaxSlots /\ beg >= 1
    BY <1>4 DEF Stage, Active, Batches
  <2>3. Count \in Nat /\ Count' = Count
    BY <2>1, <2>2, InHandType DEF Count, End
  <2> QED BY <2>1, <2>2, <2>3 DEF Batches, Size
<1>5. CASE Warp
  <2>1. Batches
    BY <1>5 DEF Warp, Active
  <2>2. row' <= Count
    BY <1>5, <2>1, WarpRows
  <2>3. UNCHANGED <<phase, beg, slot, crops, records>>
    BY <1>5 DEF Warp
  <2>4. Count' = Count
    BY <2>3, SameBatches
  <2> QED BY <2>1, <2>2, <2>3, <2>4 DEF Batches, Size
<1>6. CASE Infer
  BY <1>6, BatchesInfer DEF Infer, Active
<1>7. CASE InferOverDims
  BY <1>7, BatchesOverDims DEF InferOverDims, Active
<1>8. CASE Throw
  BY <1>8 DEF Throw, Active
<1>9. CASE Synchronise
  BY <1>9 DEF Synchronise, Active, Batches, Size
<1>10. CASE DecodeRecord
  BY <1>10, BatchesDecode DEF DecodeRecord, Active
<1>11. CASE Decoded
  <2>1. records' = <<>> /\ slot' = 0 /\ phase' # "warp" /\ UNCHANGED <<beg, crops>> /\ Batches
    BY <1>11 DEF Decoded, Active
  <2>2. MaxSlots \in Nat
    BY RecQueueAssumption
  <2> QED BY <2>1, <2>2 DEF Batches
<1>12. CASE Execute
  <2>1. UNCHANGED <<phase, beg, slot, crops, records, row>>
    BY <1>12 DEF Execute
  <2>2. Count' = Count
    BY <2>1, SameBatches
  <2> QED BY <2>1, <2>2 DEF Active, Batches, Size
<1> QED BY <1>1, <1>2, <1>3, <1>4, <1>5, <1>6, <1>7, <1>8, <1>9, <1>10, <1>11, <1>12 DEF RecNext

-----------------------------------------------------------------------------
\* No operation of a batch to come, step by step.
LEMMA BehindAppend ==
  ASSUME RecTypeOK, Behind, NEW o \in Operation, o.call = calls, o.beg = beg,
         Active, phase \in {"queue", "warp"}, stream' = Append(stream, o),
         calls' = calls, beg' \in Nat,
         beg < beg' \/ (beg' = beg /\ phase' = "warp") \/ phase' = "thrown"
  PROVE  Behind'
<1>1. /\ DOMAIN stream = 1 .. Len(stream) /\ Len(stream) \in Nat
      /\ DOMAIN stream' = 1 .. Len(stream) + 1
      /\ \A k \in 1 .. Len(stream) : stream'[k] = stream[k]
      /\ stream'[Len(stream) + 1] = o
  BY Appended DEF RecTypeOK
<1>2. beg \in Nat /\ calls \in Nat
  BY DEF RecTypeOK
<1> SUFFICES ASSUME NEW k \in DOMAIN stream'
             PROVE  /\ stream'[k].call <= calls
                    /\ Active' /\ stream'[k].call = calls =>
                         stream'[k].beg < beg' \/ (phase' = "warp" /\ stream'[k].beg = beg')
  BY DEF Behind
<1>3. phase' = "thrown" => ~ Active'
  BY DEF Active
<1>4. CASE k = Len(stream) + 1
  BY <1>1, <1>2, <1>3, <1>4
<1>5. CASE k \in 1 .. Len(stream)
  <2>1. /\ stream[k].call <= calls
        /\ stream[k].call = calls => stream[k].beg < beg \/ stream[k].beg = beg
    BY <1>1, <1>5 DEF Behind
  <2>2. stream[k].beg \in Nat
    BY <1>1, <1>5, ElementTypes
  <2> QED BY <1>1, <1>2, <1>3, <1>5, <2>1, <2>2 DEF Behind
<1> QED BY <1>1, <1>4, <1>5

LEMMA OpOfBatch ==
  ASSUME NEW kind, NEW lo, NEW hi, NEW img
  PROVE  /\ Op(kind, lo, hi, img).op = kind /\ Op(kind, lo, hi, img).call = calls
         /\ Op(kind, lo, hi, img).beg = beg /\ Op(kind, lo, hi, img).slot = slot
         /\ Op(kind, lo, hi, img).lo = lo /\ Op(kind, lo, hi, img).hi = hi
         /\ Op(kind, lo, hi, img).img = img
BY DEF Op

LEMMA BehindInfer == RecTypeOK /\ Batches /\ Behind /\ Infer => Behind'
<1> SUFFICES ASSUME RecTypeOK, Batches, Behind, Infer PROVE Behind'
  OBVIOUS
<1> DEFINE o == Op("infer", 1, ExecutedRows(Count, crops[beg].width), 0)
           a == Op("answer", 1, Count, 0)
<1>1. o \in Operation /\ a \in Operation /\ o.call = calls /\ a.call = calls /\ o.beg = beg /\ a.beg = beg
  BY InferType, AnswerType, OpOfBatch DEF Infer
<1>2. stream' = stream \o <<o, a>> /\ phase = "warp" /\ phase' = "queue" /\ beg' = End /\ calls' = calls
  BY DEF Infer
<1>3. beg \in Nat /\ calls \in Nat /\ End \in Nat /\ beg < End
  BY InHandType DEF RecTypeOK, Infer, Batches
<1> HIDE DEF o, a
<1>4. stream \in Seq(Operation)
  BY DEF RecTypeOK
<1>5. /\ DOMAIN stream = 1 .. Len(stream) /\ Len(stream) \in Nat
      /\ DOMAIN stream' = 1 .. Len(stream) + 2
      /\ \A k \in 1 .. Len(stream) : stream'[k] = stream[k]
      /\ stream'[Len(stream) + 1] = o /\ stream'[Len(stream) + 2] = a
  BY <1>1, <1>2, <1>4, AppendedTwo
<1> SUFFICES ASSUME NEW k \in DOMAIN stream'
             PROVE  stream'[k].call <= calls /\ (stream'[k].call = calls => stream'[k].beg < beg')
  BY <1>2 DEF Behind
<1>6. CASE k \in 1 .. Len(stream)
  <2>1. /\ stream[k].call <= calls
        /\ stream[k].call = calls => stream[k].beg < beg \/ stream[k].beg = beg
    BY <1>2, <1>5, <1>6 DEF Behind, Active
  <2>2. stream[k].beg \in Nat
    BY <1>5, <1>6, ElementTypes
  <2> QED BY <1>2, <1>3, <1>5, <1>6, <2>1, <2>2
<1>7. CASE k = Len(stream) + 1 \/ k = Len(stream) + 2
  BY <1>1, <1>2, <1>3, <1>5, <1>7
<1> QED BY <1>5, <1>6, <1>7

LEMMA BehindNext == RecTypeOK /\ (Active => Batches) /\ Behind /\ [RecNext]_recVars => Behind'
<1> SUFFICES ASSUME RecTypeOK, Active => Batches, Behind, [RecNext]_recVars PROVE Behind'
  OBVIOUS
<1>0. /\ calls \in Nat /\ beg \in Nat
      /\ \A k \in DOMAIN stream : stream[k].call \in Nat /\ stream[k].beg \in Nat
  BY ElementTypes DEF RecTypeOK
<1>1. CASE UNCHANGED recVars
  BY <1>1 DEF recVars, Behind, Active
<1>2. ASSUME NEW images \in Calls, Begin(images) \/ NothingToRead(images) PROVE Behind'
  <2>1. calls' = calls + 1 /\ stream' = stream
    BY <1>2 DEF Begin, NothingToRead
  <2>2. \A k \in DOMAIN stream : stream[k].call <= calls
    BY DEF Behind
  <2>3. \A k \in DOMAIN stream' : stream'[k].call <= calls' /\ stream'[k].call # calls'
    BY <1>0, <2>1, <2>2
  <2> QED BY <2>3 DEF Behind
<1>3. CASE Stage
  <2> DEFINE o == Op("copy", 1, Count, 0)
  <2>1. CASE phase' = "thrown"
    BY <1>3, <2>1 DEF Stage, Behind, Active
  <2>2. CASE phase' = "warp"
    <3>1. stream' = Append(stream, o) /\ calls' = calls /\ beg' = beg /\ phase = "queue"
      BY <1>3, <2>2 DEF Stage
    <3>2. Active /\ beg >= 1 /\ beg <= Len(crops) /\ slot < MaxSlots
      BY <1>3 DEF Active, Stage, Batches
    <3>3. o \in Operation /\ o.call = calls /\ o.beg = beg
      BY <3>2, InHandType, OpType, OpOfBatch
    <3> HIDE DEF o
    <3> QED BY <1>0, <2>2, <3>1, <3>2, <3>3, BehindAppend
  <2> QED BY <1>3, <2>1, <2>2 DEF Stage
<1>4. CASE Warp
  <2> DEFINE o == Op("warp", row + 1, row', crops[beg + row].img)
  <2>1. stream' = Append(stream, o) /\ calls' = calls /\ beg' = beg /\ phase = "warp" /\ phase' = "warp"
    BY <1>4 DEF Warp
  <2>2. Active /\ Batches
    BY <2>1 DEF Active
  <2>3. o \in Operation /\ o.call = calls /\ o.beg = beg
    BY <1>4, <2>2, WarpType, OpOfBatch
  <2> HIDE DEF o
  <2> QED BY <1>0, <2>1, <2>2, <2>3, BehindAppend
<1>5. CASE Infer
  BY <1>5, BehindInfer DEF Infer, Active
<1>6. ASSUME InferOverDims \/ Throw PROVE Behind'
  <2> DEFINE o == Op("infer", 1, ExecutedRows(Count, crops[beg].width), 0)
  <2>1. CASE stream' = stream /\ Throw
    BY <1>0, <2>1 DEF Throw, Behind, Active
  <2>2. CASE stream' = Append(stream, o) /\ phase = "warp"
    <3>1. Active /\ Batches /\ calls' = calls
      BY <1>6, <2>2 DEF Active, InferOverDims, Throw
    <3>2. End \in Nat /\ beg < End
      BY <2>2, <3>1, InHandType DEF Batches
    <3>3. o \in Operation /\ o.call = calls /\ o.beg = beg
      BY <2>2, <3>1, InferType, OpOfBatch
    <3>4. beg' \in Nat /\ (beg < beg' \/ phase' = "thrown")
      BY <1>0, <1>6, <3>2 DEF InferOverDims, Throw
    <3> HIDE DEF o
    <3> QED BY <2>2, <3>1, <3>3, <3>4, BehindAppend
  <2> QED BY <1>6, <2>1, <2>2 DEF InferOverDims, Throw
<1>7. CASE Synchronise \/ DecodeRecord \/ Decoded
  <2>1. Active /\ phase # "warp" /\ UNCHANGED <<calls, beg, stream>>
    BY <1>7 DEF Synchronise, DecodeRecord, Decoded, Active
  <2> QED BY <2>1 DEF Behind
<1>8. CASE Execute
  <2>1. stream # <<>> /\ stream' = Tail(stream) /\ UNCHANGED <<phase, calls, beg>>
    BY <1>8 DEF Execute
  <2>2. \A k \in DOMAIN stream' : k + 1 \in DOMAIN stream /\ stream'[k] = stream[k + 1]
    BY <2>1, Without1st DEF RecTypeOK
  <2> QED BY <2>1, <2>2 DEF Behind, Active
<1> QED BY <1>1, <1>2, <1>3, <1>4, <1>5, <1>6, <1>7, <1>8 DEF RecNext

-----------------------------------------------------------------------------
\* The stream and the buffers: an operation is queued.
LEMMA AnsweredAppend ==
  ASSUME RecTypeOK, Answered, NEW o \in Operation, o.op # "answer",
         stream' = Append(stream, o), UNCHANGED <<calls, crops, records, answers>>
  PROVE  Answered'
<1>1. /\ DOMAIN stream = 1 .. Len(stream) /\ Len(stream) \in Nat
      /\ DOMAIN stream' = 1 .. Len(stream) + 1
      /\ \A k \in 1 .. Len(stream) : stream'[k] = stream[k]
      /\ stream'[Len(stream) + 1] = o
  BY Appended DEF RecTypeOK
<1> SUFFICES ASSUME NEW i \in DOMAIN records
             PROVE  AnswerIn(records[i])' \/ AnswerToCome(records[i])'
  BY DEF Answered
<1>2. PICK b : b = records[i] /\ b = records'[i]
  OBVIOUS
<1>3. AnswerIn(b) \/ AnswerToCome(b)
  BY <1>2 DEF Answered
<1>4. \A c : ~ AnswersTo(o, c)
  BY DEF AnswersTo
<1>5. CASE AnswerIn(b)
  <2>1. \A k \in DOMAIN stream' : ~ AnswersTo(stream'[k], b)
    BY <1>1, <1>4, <1>5 DEF AnswerIn
  <2>2. Right(answers[b.slot], b, Size(b))'
    BY <1>5 DEF AnswerIn, Right, Content, Size
  <2>3. AnswerIn(b)'
    BY <2>1, <2>2 DEF AnswerIn, AnswersTo
  <2> QED BY <1>2, <2>3
<1>6. CASE AnswerToCome(b)
  <2>1. PICK k \in DOMAIN stream : /\ Of(stream[k], b) /\ stream[k].op = "answer"
                                   /\ \A m \in DOMAIN stream : m > k => ~ AnswersTo(stream[m], b)
    BY <1>6 DEF AnswerToCome
  <2>2. \A m \in DOMAIN stream' : m > k => ~ AnswersTo(stream'[m], b)
    BY <1>1, <1>4, <2>1
  <2>3. stream'[k] = stream[k] /\ k \in DOMAIN stream'
    BY <1>1
  <2>4. Of(stream[k], b)'
    BY <2>1, <2>3 DEF Of
  <2>5. AnswerToCome(b)'
    BY <2>1, <2>2, <2>3, <2>4 DEF AnswerToCome, AnswersTo
  <2> QED BY <1>2, <2>5
<1> QED BY <1>3, <1>5, <1>6

\* Of a batch that was live already it comes in order; of a new one it is the
\* copy, after what the host wrote.
Joins(o, b) ==
  /\ OpFits(o, b)
  /\ o.op = "copy" => Right(pinned'[b.slot], b, Size(b))
  /\ o.op # "copy" => IF stream = <<>> THEN Ready(o, b) ELSE Follows(stream[Len(stream)], o, b)

LEMMA QueuedAppend ==
  ASSUME RecTypeOK, Queued, NEW o \in Operation,
         stream' = Append(stream, o), UNCHANGED <<calls, crops, deviceVars>>,
         \A b \in Live' : \A k \in DOMAIN stream :
           Of(stream[k], b) => b \in Live /\ pinned'[b.slot] = pinned[b.slot],
         \A b \in Live' : Of(o, b) => Joins(o, b)
  PROVE  OpsFit' /\ InOrder' /\ HeadReady' /\ Staged'
<1>1. /\ DOMAIN stream = 1 .. Len(stream) /\ Len(stream) \in Nat
      /\ DOMAIN stream' = 1 .. Len(stream) + 1
      /\ \A k \in 1 .. Len(stream) : stream'[k] = stream[k]
      /\ stream'[Len(stream) + 1] = o
      /\ stream = <<>> <=> Len(stream) = 0
  BY Appended DEF RecTypeOK
<1> DEFINE n == Len(stream)
<1>2. ASSUME NEW k \in DOMAIN stream', NEW b \in Live', Of(stream'[k], b)
      PROVE  \/ /\ k \in 1 .. n /\ stream'[k] = stream[k] /\ k \in DOMAIN stream /\ b \in Live
                /\ Of(stream[k], b) /\ pinned'[b.slot] = pinned[b.slot]
             \/ k = n + 1 /\ stream'[k] = o /\ Joins(o, b)
  <2>1. CASE k \in 1 .. n
    BY <2>1, <1>1, <1>2
  <2>2. CASE k = n + 1
    BY <2>2, <1>1, <1>2
  <2> QED BY <2>1, <2>2, <1>1
<1>3. \A p, q, b : /\ Of(q, b)' <=> Of(q, b)
                   /\ OpFits(q, b)' <=> OpFits(q, b)
                   /\ Follows(p, q, b)' <=> Follows(p, q, b)
                   /\ Ready(q, b)' <=> Ready(q, b)
  BY DEF Content, Of, OpFits, Right, Follows, Ready, deviceVars
<1>4. OpsFit'
  <2> SUFFICES ASSUME NEW k \in DOMAIN stream', NEW b \in Live', Of(stream'[k], b)
               PROVE  OpFits(stream'[k], b)
    BY <1>3 DEF OpsFit
  <2> QED BY <1>2 DEF Queued, OpsFit, Joins
<1>5. InOrder'
  <2> SUFFICES ASSUME NEW k \in DOMAIN stream', NEW b \in Live', Of(stream'[k], b), k > 1,
                      stream'[k].op # "copy"
               PROVE  Follows(stream'[k - 1], stream'[k], b)
    BY <1>3 DEF InOrder
  <2>1. CASE /\ k \in 1 .. n /\ stream'[k] = stream[k] /\ k \in DOMAIN stream /\ b \in Live
             /\ Of(stream[k], b)
    <3>1. k - 1 \in 1 .. n
      BY <2>1, <1>1
    <3> QED BY <2>1, <3>1, <1>1 DEF Queued, InOrder
  <2>2. CASE k = n + 1 /\ stream'[k] = o /\ Joins(o, b)
    <3>1. n \in 1 .. n /\ stream # <<>> /\ k - 1 = n
      BY <2>2, <1>1
    <3> QED BY <2>2, <3>1, <1>1 DEF Joins
  <2> QED BY <1>2, <2>1, <2>2
<1>6. HeadReady'
  <2> SUFFICES ASSUME NEW b \in Live', Of(stream'[1], b)
               PROVE  Ready(stream'[1], b)
    BY <1>3 DEF HeadReady
  <2>1. 1 \in DOMAIN stream'
    BY <1>1
  <2>2. CASE /\ 1 \in 1 .. n /\ stream'[1] = stream[1] /\ b \in Live /\ Of(stream[1], b)
    BY <2>2, <1>1 DEF Queued, HeadReady
  <2>3. CASE 1 = n + 1 /\ stream'[1] = o /\ Joins(o, b)
    <3>1. stream = <<>>
      BY <2>3, <1>1
    <3> QED BY <2>3, <3>1 DEF Joins, Ready
  <2> QED BY <1>2, <2>1, <2>2, <2>3
<1>7. Staged'
  <2> SUFFICES ASSUME NEW k \in DOMAIN stream', NEW b \in Live', Of(stream'[k], b),
                      stream'[k].op = "copy"
               PROVE  Right(pinned'[b.slot], b, Size(b))
    BY <1>3 DEF Staged, Right, Content, Size
  <2> QED BY <1>2 DEF Queued, Staged, Joins
<1> QED BY <1>4, <1>5, <1>6, <1>7

LEMMA QueuedStage == RecTypeOK /\ Batches /\ Behind /\ Queued /\ Stage /\ Active' => Queued'
<1> SUFFICES ASSUME RecTypeOK, Batches, Behind, Queued, Stage, Active' PROVE Queued'
  OBVIOUS
<1> DEFINE o == Op("copy", 1, Count, 0)
<1>1. /\ phase = "queue" /\ phase' = "warp" /\ row' = 0 /\ stream' = Append(stream, o)
      /\ UNCHANGED <<calls, crops, beg, slot, records, deviceVars>>
  BY DEF Stage, Active
<1>2. beg >= 1 /\ beg <= Len(crops) /\ slot < MaxSlots /\ slot \in Slots /\ beg \in Nat
  BY RecQueueAssumption DEF Stage, Batches, RecTypeOK, Slots
<1>3. /\ Count \in Nat /\ Count <= MaxBatch /\ InHand \in Batch /\ Size(InHand) = Count
  BY <1>2, InHandType
<1>4. InHand' = InHand /\ Live' = Live \cup {InHand}
  BY <1>1 DEF Live, InHand, End
<1>5. InHand.beg = beg /\ InHand.slot = slot
  BY DEF InHand
<1>6. /\ o \in Operation /\ o.op = "copy" /\ o.call = calls /\ o.beg = beg /\ o.hi = Count
      /\ o.slot = slot
  BY <1>2, <1>3, OpType, OpOfBatch
<1>7. \A b \in Live : b.beg < beg /\ b.slot < slot /\ b.beg \in Nat /\ b.slot \in Nat
  <2> SUFFICES ASSUME NEW b \in Live PROVE b.beg < beg /\ b.slot < slot /\ b \in Batch
    BY DEF Batch
  <2> QED BY <1>1, LiveSound
<1> HIDE DEF o
<1>8. pinned' = [pinned EXCEPT ![slot] = [r \in Rows |-> IF r <= Count THEN Content(beg + r - 1) ELSE pinned[slot][r]]]
  BY DEF Stage
<1>9. ASSUME NEW b \in Live', NEW k \in DOMAIN stream, Of(stream[k], b)
      PROVE  b \in Live /\ pinned'[b.slot] = pinned[b.slot]
  <2>1. b # InHand
    <3>1. stream[k].beg \in Nat /\ ~ (stream[k].call = calls /\ ~ (stream[k].beg < beg))
      BY <1>1, ElementTypes DEF Behind, Active
    <3> QED BY <1>2, <1>5, <1>9, <3>1 DEF Of
  <2>2. b \in Live
    BY <1>4, <2>1
  <2>3. b.slot # slot
    BY <1>7, <2>2 DEF RecTypeOK
  <2> QED BY <1>8, <2>2, <2>3 DEF RecTypeOK
<1>10. ASSUME NEW b \in Live', Of(o, b) PROVE Joins(o, b)
  <2>1. b = InHand
    BY <1>2, <1>4, <1>6, <1>7, <1>10 DEF Of
  <2>2. pinned'[slot] = [r \in Rows |-> IF r <= Count THEN Content(beg + r - 1) ELSE pinned[slot][r]]
    BY <1>2, <1>8 DEF RecTypeOK
  <2>3. 1 .. Count \in SUBSET Rows
    BY <1>3, RecQueueAssumption DEF Rows
  <2>4. Right(pinned'[slot], InHand, Count)
    BY <1>3, <1>5, <2>2, <2>3 DEF Right
  <2>5. OpFits(o, InHand)
    BY <1>3, <1>5, <1>6 DEF OpFits
  <2> QED BY <1>3, <1>5, <1>6, <2>1, <2>4, <2>5 DEF Joins
<1>11. OpsFit' /\ InOrder' /\ HeadReady' /\ Staged'
  BY <1>1, <1>6, <1>9, <1>10, QueuedAppend
<1>12. Answered'
  BY <1>1, <1>6, AnsweredAppend DEF Queued, deviceVars
<1>13. LastQueued'
  <2>1. stream' # <<>> /\ stream'[Len(stream')] = o
    <3>1. stream \in Seq(Operation)
      BY DEF RecTypeOK
    <3>2. /\ stream' # <<>> /\ Len(stream') = Len(stream) + 1
          /\ stream'[Len(stream) + 1] = o
      BY <1>1, <1>6, <3>1, Appended
    <3> QED BY <3>2
  <2>2. stream'[Len(stream')].call = calls' /\ stream'[Len(stream')].beg = beg'
    BY <1>1, <1>6, <2>1
  <2>3. Of(stream[Len(stream)], InHand)'
    BY <2>2 DEF Of, InHand
  <2> QED BY <1>1, <1>6, <2>1, <2>3 DEF LastQueued
<1> QED BY <1>11, <1>12, <1>13 DEF Queued

LEMMA QueuedWarp == RecTypeOK /\ Batches /\ Queued /\ Warp => Queued'
<1> SUFFICES ASSUME RecTypeOK, Batches, Queued, Warp PROVE Queued'
  OBVIOUS
<1> DEFINE o == Op("warp", row + 1, row', crops[beg + row].img)
<1>1. /\ phase = "warp" /\ phase' = "warp" /\ stream' = Append(stream, o) /\ row < Count
      /\ UNCHANGED <<calls, crops, beg, slot, records, pinned, deviceVars>>
  BY DEF Warp
<1>2. beg >= 1 /\ beg <= Len(crops) /\ beg \in Nat /\ row \in Nat
  BY <1>1 DEF Batches, RecTypeOK
<1>3. Count \in Nat /\ Size(InHand) = Count /\ InHand \in Live
  BY <1>1, <1>2, InHandType DEF Live
<1>4. InHand' = InHand /\ Live' = Live
  BY <1>1, SameBatches
<1>5. InHand.beg = beg /\ InHand.slot = slot
  BY DEF InHand
<1>6. /\ o \in Operation /\ o.op = "warp" /\ o.call = calls /\ o.beg = beg /\ o.hi = row'
      /\ o.lo = row + 1 /\ o.img = crops[beg + row].img
  BY WarpType, OpOfBatch
<1>7. /\ row' \in Nat /\ row < row' /\ row' <= Count
      /\ \A r \in row + 1 .. row' : crops[beg + r - 1].img = crops[beg + row].img
  BY WarpRows
<1> HIDE DEF o
<1>8. ASSUME NEW b \in Live', Of(o, b) PROVE Joins(o, b)
  <2>1. b = InHand
    BY <1>3, <1>4, <1>5, <1>6, <1>8, LiveDistinct DEF Of
  <2>2. OpFits(o, InHand)
    BY <1>2, <1>3, <1>5, <1>6, <1>7 DEF OpFits
  <2>3. CASE stream = <<>>
    <3>1. Right(transforms, InHand, Count) /\ Right(pixels, InHand, row)
      BY <1>1, <2>3 DEF Queued, LastQueued
    <3>2. o.lo - 1 = row
      BY <1>2, <1>6
    <3>3. Ready(o, InHand)
      BY <1>3, <1>6, <3>1, <3>2 DEF Ready
    <3> QED BY <1>6, <2>1, <2>2, <2>3, <3>3 DEF Joins
  <2>4. CASE stream # <<>>
    <3>1. /\ Of(stream[Len(stream)], InHand)
          /\ \/ stream[Len(stream)].op = "copy" /\ row = 0
             \/ stream[Len(stream)].op = "warp" /\ row = stream[Len(stream)].hi
      BY <1>1, <2>4 DEF Queued, LastQueued
    <3>2. Follows(stream[Len(stream)], o, InHand)
      BY <1>2, <1>6, <3>1 DEF Follows
    <3> QED BY <1>6, <2>1, <2>2, <2>4, <3>2 DEF Joins
  <2> QED BY <2>3, <2>4
<1>9. OpsFit' /\ InOrder' /\ HeadReady' /\ Staged'
  BY <1>1, <1>4, <1>6, <1>8, QueuedAppend
<1>10. Answered'
  BY <1>1, <1>6, AnsweredAppend DEF Queued, deviceVars
<1>11. LastQueued'
  <2>1. stream' # <<>> /\ stream'[Len(stream')] = o
    <3>1. stream \in Seq(Operation)
      BY DEF RecTypeOK
    <3>2. /\ stream' # <<>> /\ Len(stream') = Len(stream) + 1
          /\ stream'[Len(stream) + 1] = o
      BY <1>1, <1>6, <3>1, Appended
    <3> QED BY <3>2
  <2>2. stream'[Len(stream')].call = calls' /\ stream'[Len(stream')].beg = beg'
    BY <1>1, <1>6, <2>1
  <2>3. Of(stream[Len(stream)], InHand)'
    BY <2>2 DEF Of, InHand
  <2> QED BY <1>1, <1>6, <2>1, <2>3 DEF LastQueued
<1> QED BY <1>9, <1>10, <1>11 DEF Queued

LEMMA QueuedOverDims == RecTypeOK /\ Batches /\ Queued /\ InferOverDims => Queued'
<1> SUFFICES ASSUME RecTypeOK, Batches, Queued, InferOverDims PROVE Queued'
  OBVIOUS
<1> DEFINE o == Op("infer", 1, ExecutedRows(Count, crops[beg].width), 0)
<1>1. /\ phase = "warp" /\ phase' = "queue" /\ stream' = Append(stream, o)
      /\ UNCHANGED <<calls, crops, slot, records, pinned, deviceVars>>
  BY DEF InferOverDims
<1>2. Live' \in SUBSET Live /\ \A b \in Live' : b.beg < beg /\ b.beg \in Nat /\ beg \in Nat
  <2>1. ASSUME NEW b \in Live' PROVE b \in Live /\ b.beg < beg /\ b.beg \in Nat /\ beg \in Nat
    <3>1. PICK i \in DOMAIN records : b = records[i]
      BY <1>1, <2>1 DEF Live
    <3>2. b.beg < b.end /\ b.end <= beg
      BY <3>1 DEF Batches
    <3>3. b.beg \in Nat /\ b.end \in Nat /\ beg \in Nat
      BY <3>1, ElementTypes DEF RecTypeOK
    <3> QED BY <3>1, <3>2, <3>3 DEF Live
  <2> QED BY <2>1
<1>3. o \in Operation /\ o.op = "infer" /\ o.beg = beg
  BY <1>1, InferType, OpOfBatch
<1> HIDE DEF o
<1>4. \A b \in Live' : ~ Of(o, b)
  BY <1>2, <1>3 DEF Of
<1>5. OpsFit' /\ InOrder' /\ HeadReady' /\ Staged'
  BY <1>1, <1>2, <1>3, <1>4, QueuedAppend
<1>6. Answered'
  BY <1>1, <1>3, AnsweredAppend DEF Queued, deviceVars
<1>7. LastQueued'
  BY <1>1 DEF LastQueued
<1> QED BY <1>5, <1>6, <1>7 DEF Queued

LEMMA QueuedInfer == RecTypeOK /\ Batches /\ Queued /\ Infer => Queued'
<1> SUFFICES ASSUME RecTypeOK, Batches, Queued, Infer PROVE Queued'
  OBVIOUS
<1> DEFINE o == Op("infer", 1, ExecutedRows(Count, crops[beg].width), 0)
           a == Op("answer", 1, Count, 0)
           n == Len(stream)
<1>1. /\ phase = "warp" /\ phase' = "queue" /\ stream' = stream \o <<o, a>> /\ row = Count
      /\ records' = Append(records, InHand)
      /\ UNCHANGED <<calls, crops, pinned, deviceVars>>
  BY DEF Infer, InHand
<1>2. beg >= 1 /\ beg <= Len(crops) /\ beg \in Nat /\ slot \in Nat
  BY <1>1 DEF Batches, RecTypeOK
<1>3. Count \in Nat /\ Count >= 1 /\ Size(InHand) = Count /\ InHand \in Batch /\ InHand \in Live
  BY <1>1, <1>2, InHandType DEF Live
<1>4. /\ DOMAIN records = 1 .. Len(records) /\ Len(records) \in Nat
      /\ DOMAIN records' = 1 .. Len(records) + 1
      /\ \A i \in 1 .. Len(records) : records'[i] = records[i]
      /\ records'[Len(records) + 1] = InHand
  BY <1>1, <1>3, Appended DEF RecTypeOK
<1>5. Live' = Live
  <2>1. Live = {records[i] : i \in DOMAIN records} \cup {InHand}
    BY <1>1 DEF Live
  <2>2. Live' = {records'[i] : i \in DOMAIN records'}
    BY <1>1 DEF Live
  <2>3. ASSUME NEW b PROVE b \in Live' <=> b \in Live
    <3>1. b \in Live' => b \in Live
      <4>1. ASSUME NEW i \in DOMAIN records' PROVE records'[i] \in Live
        <5>1. CASE i = Len(records) + 1
          BY <5>1, <1>3, <1>4
        <5>2. CASE i \in 1 .. Len(records)
          BY <5>2, <1>4, <2>1
        <5> QED BY <1>4, <5>1, <5>2
      <4> QED BY <2>2, <4>1
    <3>2. b \in Live => b \in Live'
      <4>1. InHand \in Live'
        BY <1>4, <2>2
      <4>2. ASSUME NEW i \in DOMAIN records PROVE records[i] \in Live'
        <5>1. i \in DOMAIN records' /\ records'[i] = records[i]
          BY <1>4
        <5> QED BY <2>2, <5>1
      <4> QED BY <2>1, <4>1, <4>2
    <3> QED BY <3>1, <3>2
  <2> QED BY <2>3
<1>6. InHand.beg = beg /\ InHand.slot = slot
  BY DEF InHand
<1>7. /\ o \in Operation /\ o.op = "infer" /\ o.call = calls /\ o.beg = beg /\ o.hi >= Count
      /\ a \in Operation /\ a.op = "answer" /\ a.call = calls /\ a.beg = beg /\ a.hi = Count
      /\ a.slot = slot
  BY <1>1, InferType, AnswerType, OpOfBatch
<1> HIDE DEF o, a
<1>8. stream \in Seq(Operation)
  BY DEF RecTypeOK
<1>9. /\ DOMAIN stream = 1 .. n /\ n \in Nat
      /\ DOMAIN stream' = 1 .. n + 2 /\ stream' # <<>>
      /\ \A k \in 1 .. n : stream'[k] = stream[k]
      /\ stream'[n + 1] = o /\ stream'[n + 2] = a
  BY <1>1, <1>7, <1>8, AppendedTwo
<1>10. stream = <<>> <=> n = 0
  BY <1>8
<1> HIDE DEF n
<1>11. \A p, q, b : /\ Of(q, b)' <=> Of(q, b)
                    /\ OpFits(q, b)' <=> OpFits(q, b)
                    /\ Follows(p, q, b)' <=> Follows(p, q, b)
                    /\ Ready(q, b)' <=> Ready(q, b)
  BY <1>1 DEF Content, Of, OpFits, Right, Follows, Ready, deviceVars
<1>12. \A b \in Live : Of(o, b) \/ Of(a, b) => b = InHand
  BY <1>3, <1>6, <1>7, LiveDistinct DEF Of
<1>13. ASSUME NEW k \in DOMAIN stream'
       PROVE  \/ k \in 1 .. n /\ stream'[k] = stream[k] /\ k \in DOMAIN stream
              \/ k = n + 1 /\ stream'[k] = o
              \/ k = n + 2 /\ stream'[k] = a
  BY <1>9
<1>14. OpFits(o, InHand) /\ OpFits(a, InHand)
  BY <1>3, <1>6, <1>7 DEF OpFits
<1>15. IF stream = <<>> THEN Right(pixels, InHand, Count)
       ELSE /\ Of(stream[n], InHand) /\ stream[n].op = "warp" /\ stream[n].hi = Count
  BY <1>1, <1>3 DEF Queued, LastQueued, n
<1>16. OpsFit'
  <2> SUFFICES ASSUME NEW k \in DOMAIN stream', NEW b \in Live, Of(stream'[k], b)
               PROVE  OpFits(stream'[k], b)
    BY <1>5, <1>11 DEF OpsFit
  <2>1. CASE k \in 1 .. n /\ stream'[k] = stream[k] /\ k \in DOMAIN stream
    BY <2>1 DEF Queued, OpsFit
  <2>2. CASE stream'[k] = o \/ stream'[k] = a
    BY <2>2, <1>12, <1>14
  <2> QED BY <1>13, <2>1, <2>2
<1>17. InOrder'
  <2> SUFFICES ASSUME NEW k \in DOMAIN stream', NEW b \in Live, Of(stream'[k], b), k > 1,
                      stream'[k].op # "copy"
               PROVE  Follows(stream'[k - 1], stream'[k], b)
    BY <1>5, <1>11 DEF InOrder
  <2>1. CASE k \in 1 .. n /\ stream'[k] = stream[k] /\ k \in DOMAIN stream
    <3>1. stream'[k - 1] = stream[k - 1]
      BY <2>1, <1>9
    <3> QED BY <2>1, <3>1 DEF Queued, InOrder
  <2>2. CASE k = n + 1 /\ stream'[k] = o
    <3>1. stream # <<>> /\ n \in 1 .. n /\ k - 1 = n /\ stream'[n] = stream[n] /\ b = InHand
      BY <2>2, <1>9, <1>10, <1>12
    <3> QED BY <1>3, <1>7, <1>15, <2>2, <3>1 DEF Follows
  <2>3. CASE k = n + 2 /\ stream'[k] = a
    <3>1. k - 1 = n + 1 /\ b = InHand
      BY <2>3, <1>9, <1>12
    <3>2. Of(o, InHand)
      BY <1>6, <1>7 DEF Of
    <3> QED BY <1>7, <1>9, <2>3, <3>1, <3>2 DEF Follows
  <2> QED BY <1>13, <2>1, <2>2, <2>3
<1>18. HeadReady'
  <2> SUFFICES ASSUME NEW b \in Live, Of(stream'[1], b)
               PROVE  Ready(stream'[1], b)
    BY <1>5, <1>11 DEF HeadReady
  <2>1. CASE n = 0
    <3>1. stream'[1] = o /\ b = InHand /\ stream = <<>>
      BY <2>1, <1>9, <1>10, <1>12
    <3> QED BY <1>3, <1>7, <1>15, <3>1 DEF Ready
  <2>2. CASE n # 0
    <3>1. stream'[1] = stream[1] /\ stream # <<>>
      BY <2>2, <1>9, <1>10
    <3> QED BY <3>1 DEF Queued, HeadReady
  <2> QED BY <2>1, <2>2
<1>19. Staged'
  <2> SUFFICES ASSUME NEW k \in DOMAIN stream', NEW b \in Live, Of(stream'[k], b),
                      stream'[k].op = "copy"
               PROVE  Right(pinned'[b.slot], b, Size(b))
    BY <1>1, <1>5, <1>11 DEF Staged, Right, Content, Size
  <2>1. k \in DOMAIN stream /\ stream'[k] = stream[k]
    BY <1>7, <1>13
  <2> QED BY <1>1, <2>1 DEF Queued, Staged
<1>20. Answered'
  <2> SUFFICES ASSUME NEW i \in DOMAIN records'
               PROVE  AnswerIn(records[i])' \/ AnswerToCome(records[i])'
    BY DEF Answered
  <2>1. CASE i = Len(records) + 1
    <3>1. records'[i] = InHand
      BY <2>1, <1>4
    <3>2. n + 2 \in DOMAIN stream' /\ stream'[n + 2].op = "answer"
          /\ \A m \in DOMAIN stream' : ~ (m > n + 2)
      BY <1>7, <1>9
    <3>3. stream'[n + 2].call = calls' /\ stream'[n + 2].beg = records'[i].beg
      BY <1>1, <1>6, <1>7, <1>9, <3>1
    <3>4. AnswerToCome(records[i])'
      BY <3>2, <3>3 DEF AnswerToCome, Of
    <3> QED BY <3>4
  <2>2. CASE i \in 1 .. Len(records)
    <3>1. PICK b : b = records[i] /\ b = records'[i]
      BY <2>2, <1>4
    <3>2. i \in DOMAIN records /\ b.slot # slot
      <4>1. i \in DOMAIN records
        BY <2>2, <1>4
      <4>2. b.slot < slot /\ b.slot \in Nat
        BY <3>1, <4>1, ElementTypes DEF Batches
      <4> QED BY <1>2, <4>1, <4>2
    <3>3. ~ AnswersTo(o, b) /\ ~ AnswersTo(a, b)
      BY <1>7, <3>2 DEF AnswersTo
    <3>4. CASE AnswerIn(b)
      <4>1. \A k \in DOMAIN stream' : ~ AnswersTo(stream'[k], b)
        BY <1>13, <3>3, <3>4 DEF AnswerIn
      <4>2. Right(answers[b.slot], b, Size(b))'
        BY <1>1, <3>4 DEF AnswerIn, Right, Content, Size, deviceVars
      <4>3. AnswerIn(b)'
        BY <4>1, <4>2 DEF AnswerIn, AnswersTo
      <4> QED BY <3>1, <4>3
    <3>5. CASE AnswerToCome(b)
      <4>1. PICK k \in DOMAIN stream : /\ Of(stream[k], b) /\ stream[k].op = "answer"
                                       /\ \A m \in DOMAIN stream : m > k => ~ AnswersTo(stream[m], b)
        BY <3>5 DEF AnswerToCome
      <4>2. \A m \in DOMAIN stream' : m > k => ~ AnswersTo(stream'[m], b)
        BY <1>13, <3>3, <4>1
      <4>3. stream'[k] = stream[k] /\ k \in DOMAIN stream'
        BY <1>9
      <4>4. Of(stream[k], b)'
        BY <1>1, <4>1, <4>3 DEF Of
      <4>5. AnswerToCome(b)'
        BY <4>1, <4>2, <4>3, <4>4 DEF AnswerToCome, AnswersTo
      <4> QED BY <3>1, <4>5
    <3>6. AnswerIn(b) \/ AnswerToCome(b)
      BY <3>1, <3>2 DEF Queued, Answered
    <3> QED BY <3>4, <3>5, <3>6
  <2> QED BY <1>4, <2>1, <2>2
<1>21. LastQueued'
  BY <1>1 DEF LastQueued
<1> QED BY <1>16, <1>17, <1>18, <1>19, <1>20, <1>21 DEF Queued

\* The device executes the operation at the head: what its batch finds then.
LEMMA Executed ==
  ASSUME RecTypeOK, Batches, Queued, Execute, NEW b \in Live, Of(stream[1], b)
  PROVE  /\ stream[1].op = "copy" => Right(transforms, b, Size(b))'
         /\ stream[1].op = "warp" => /\ Right(transforms, b, Size(b))'
                                    /\ \A m : m = stream[1].hi => Right(pixels, b, m)'
         /\ stream[1].op = "infer" => Right(output, b, Size(b))'
         /\ stream[1].op = "answer" => Right(answers[b.slot], b, Size(b))'
<1> DEFINE n == Size(b)
<1>1. /\ stream # <<>> /\ 1 \in DOMAIN stream /\ Head(stream) = stream[1]
      /\ UNCHANGED <<calls, crops, pinned>>
  BY Without1st DEF Execute, RecTypeOK
<1>2. n \in Nat /\ n <= MaxBatch /\ 1 .. n \in SUBSET Rows /\ b.slot \in Slots
  BY LiveSound, RecQueueAssumption DEF Rows
<1>3. PICK o : o = stream[1]
  OBVIOUS
<1>4. /\ o \in Operation /\ o.lo \in Nat /\ o.hi \in Nat /\ o.call = calls
      /\ OpFits(o, b) /\ Ready(o, b) /\ (o.op = "copy" => Right(pinned[b.slot], b, n))
  BY <1>1, <1>3, ElementTypes DEF Queued, OpsFit, HeadReady, Staged, Of
<1>5. ExecuteCopy(o) \/ ExecuteWarp(o) \/ ExecuteInfer(o) \/ ExecuteAnswer(o)
  BY <1>1, <1>3 DEF Execute
<1>6. \A k : Content(k)' = Content(k)
  BY <1>1 DEF Content
<1>7. CASE o.op = "copy"
  <2>1. transforms' = Overwrite(transforms, pinned[b.slot], n) /\ o.hi = n
    BY <1>4, <1>5, <1>7 DEF ExecuteCopy, ExecuteWarp, ExecuteInfer, ExecuteAnswer, OpFits
  <2>2. \A r \in 1 .. n : transforms'[r] = pinned[b.slot][r]
    BY <1>2, <2>1 DEF Overwrite
  <2>3. Right(transforms, b, Size(b))'
    BY <1>4, <1>6, <1>7, <2>2 DEF Right, Size
  <2> QED BY <1>3, <1>7, <2>3
<1>8. CASE o.op = "warp"
  <2>1. /\ pixels' = [r \in Rows |-> IF r \in o.lo .. o.hi THEN Warped(o, r) ELSE pixels[r]]
        /\ transforms' = transforms
    BY <1>4, <1>5, <1>8 DEF ExecuteCopy, ExecuteWarp, ExecuteInfer, ExecuteAnswer
  <2>2. /\ Right(transforms, b, n) /\ Right(pixels, b, o.lo - 1) /\ 1 <= o.lo /\ o.hi <= n
        /\ \A r \in o.lo .. o.hi : crops[b.beg + r - 1].img = o.img
    BY <1>4, <1>8 DEF Ready, OpFits
  <2>3. ASSUME NEW r \in 1 .. o.hi PROVE pixels'[r] = Content(b.beg + r - 1)
    <3>1. r \in Rows /\ r \in 1 .. n /\ (r \in o.lo .. o.hi \/ r \in 1 .. o.lo - 1)
      BY <1>2, <1>4, <2>2
    <3>2. transforms[r] = Content(b.beg + r - 1)
      BY <2>2, <3>1 DEF Right
    <3>3. CASE r \in o.lo .. o.hi
      <4>1. pixels'[r] = Warped(o, r)
        BY <2>1, <3>1, <3>3
      <4>2. transforms[r].img = o.img /\ transforms[r].call = o.call
        BY <1>4, <2>2, <3>2, <3>3 DEF Content
      <4> QED BY <3>2, <4>1, <4>2 DEF Warped
    <3>4. CASE r \notin o.lo .. o.hi
      <4>1. pixels'[r] = pixels[r] /\ r \in 1 .. o.lo - 1
        BY <2>1, <3>1, <3>4
      <4> QED BY <2>2, <4>1 DEF Right
    <3> QED BY <3>3, <3>4
  <2>4. Right(transforms, b, Size(b))'
    BY <1>6, <2>1, <2>2 DEF Right, Size
  <2>5. ASSUME NEW m, m = stream[1].hi PROVE Right(pixels, b, m)'
    <3>1. \A r \in 1 .. m : pixels'[r] = Content(b.beg + r - 1)'
      BY <1>3, <1>6, <2>3, <2>5
    <3> QED BY <3>1 DEF Right
  <2> QED BY <1>3, <1>8, <2>4, <2>5
<1>9. CASE o.op = "infer"
  <2>1. output' = Overwrite(output, pixels, o.hi) /\ n <= o.hi /\ Right(pixels, b, n)
    BY <1>4, <1>5, <1>9 DEF ExecuteCopy, ExecuteWarp, ExecuteInfer, ExecuteAnswer, OpFits, Ready
  <2>2. \A r \in 1 .. n : output'[r] = pixels[r]
    BY <1>2, <1>4, <2>1 DEF Overwrite
  <2>3. Right(output, b, Size(b))'
    BY <1>6, <2>1, <2>2 DEF Right, Size
  <2> QED BY <1>3, <1>9, <2>3
<1>10. CASE o.op = "answer"
  <2>1. /\ answers' = [answers EXCEPT ![b.slot] = Overwrite(answers[b.slot], output, n)]
        /\ Right(output, b, n)
    BY <1>4, <1>5, <1>10 DEF ExecuteCopy, ExecuteWarp, ExecuteInfer, ExecuteAnswer, OpFits, Ready
  <2>2. answers'[b.slot] = Overwrite(answers[b.slot], output, n)
    BY <1>2, <2>1 DEF RecTypeOK
  <2>3. \A r \in 1 .. n : answers'[b.slot][r] = output[r]
    BY <1>2, <2>2 DEF Overwrite
  <2>4. Right(answers[b.slot], b, Size(b))'
    BY <1>6, <2>1, <2>3 DEF Right, Size
  <2> QED BY <1>3, <1>10, <2>4
<1>11. o.op \in {"copy", "warp", "infer", "answer"}
  BY <1>4 DEF Operation
<1> QED BY <1>7, <1>8, <1>9, <1>10, <1>11

LEMMA QueuedExecute == RecTypeOK /\ Batches /\ Queued /\ Execute => Queued'
<1> SUFFICES ASSUME RecTypeOK, Batches, Queued, Execute PROVE Queued'
  OBVIOUS
<1> DEFINE n == Len(stream)
<1>1. /\ stream # <<>> /\ stream' = Tail(stream)
      /\ UNCHANGED <<phase, calls, crops, beg, row, slot, records, pinned, results, dropped>>
  BY DEF Execute
<1>2. /\ n \in Nat /\ n >= 1 /\ DOMAIN stream = 1 .. n /\ DOMAIN stream' = 1 .. n - 1
      /\ Head(stream) = stream[1] /\ stream[1] \in Operation
      /\ \A k \in 1 .. n - 1 : stream'[k] = stream[k + 1]
      /\ Len(stream') = n - 1 /\ (stream' = <<>> <=> n = 1)
  <2>1. stream \in Seq(Operation)
    BY DEF RecTypeOK
  <2>2. /\ n \in Nat /\ n >= 1 /\ DOMAIN stream = 1 .. n /\ DOMAIN stream' = 1 .. n - 1
        /\ Head(stream) = stream[1] /\ stream[1] \in Operation
        /\ \A k \in 1 .. n - 1 : stream'[k] = stream[k + 1]
        /\ Len(stream') = n - 1 /\ stream' \in Seq(Operation)
    BY <1>1, <2>1, Without1st
  <2>3. stream' = <<>> <=> Len(stream') = 0
    BY <2>2
  <2> HIDE DEF n
  <2> QED BY <2>2, <2>3
<1> HIDE DEF n
<1>3. Live' = Live /\ InHand' = InHand /\ Count' = Count
  BY <1>1, SameBatches
<1>4. \A p, q, b : /\ Of(q, b)' <=> Of(q, b)
                   /\ OpFits(q, b)' <=> OpFits(q, b)
                   /\ Follows(p, q, b)' <=> Follows(p, q, b)
  BY <1>1 DEF Of, OpFits, Follows
<1>5. ASSUME NEW k \in DOMAIN stream'
      PROVE  k + 1 \in DOMAIN stream /\ stream'[k] = stream[k + 1]
  BY <1>2
<1>6. OpsFit'
  <2> SUFFICES ASSUME NEW k \in DOMAIN stream', NEW b \in Live, Of(stream'[k], b)
               PROVE  OpFits(stream'[k], b)
    BY <1>3, <1>4 DEF OpsFit
  <2> QED BY <1>5 DEF Queued, OpsFit
<1>7. InOrder'
  <2> SUFFICES ASSUME NEW k \in DOMAIN stream', NEW b \in Live, Of(stream'[k], b), k > 1,
                      stream'[k].op # "copy"
               PROVE  Follows(stream'[k - 1], stream'[k], b)
    BY <1>3, <1>4 DEF InOrder
  <2>1. stream'[k - 1] = stream[k] /\ k + 1 > 1 /\ (k + 1) - 1 = k
    BY <1>2
  <2>2. Follows(stream[(k + 1) - 1], stream[k + 1], b)
    BY <1>5, <2>1 DEF Queued, InOrder
  <2> QED BY <1>5, <2>1, <2>2
<1>8. ASSUME NEW b \in Live, Of(stream[1], b)
      PROVE  /\ OpFits(stream[1], b)
             /\ stream[1].op = "copy" => Right(transforms, b, Size(b))'
             /\ stream[1].op = "warp" => /\ Right(transforms, b, Size(b))'
                                        /\ \A m : m = stream[1].hi => Right(pixels, b, m)'
             /\ stream[1].op = "infer" => Right(output, b, Size(b))'
             /\ stream[1].op = "answer" => Right(answers[b.slot], b, Size(b))'
  <2>1. OpFits(stream[1], b)
    BY <1>1, <1>2, <1>8 DEF Queued, OpsFit
  <2> QED BY <1>8, <2>1, Executed
<1>9. HeadReady'
  <2> SUFFICES ASSUME stream' # <<>>, NEW b \in Live, Of(stream'[1], b)
               PROVE  Ready(stream[1], b)'
    BY <1>3, <1>4 DEF HeadReady
  <2>1. 2 \in DOMAIN stream /\ stream'[1] = stream[2] /\ 2 - 1 = 1 /\ 2 > 1
    BY <1>2
  <2>2. CASE stream[2].op = "copy"
    BY <2>1, <2>2 DEF Ready
  <2>3. CASE stream[2].op # "copy"
    <3>1. Follows(stream[1], stream[2], b)
      BY <2>1, <2>3 DEF Queued, InOrder
    <3>2. Of(stream[1], b)
      BY <3>1 DEF Follows
    <3>3. CASE stream[2].op = "warp" /\ stream[1].op = "copy" /\ stream[2].lo = 1
      <4>1. Right(pixels, b, stream[1].lo - 1)'
        <5>1. stream'[1].lo - 1 = 0
          BY <2>1, <3>3
        <5> QED BY <5>1 DEF Right
      <4> QED BY <1>8, <2>1, <3>2, <3>3, <4>1 DEF Ready
    <3>4. CASE stream[2].op = "warp" /\ stream[1].op = "warp" /\ stream[2].lo = stream[1].hi + 1
      <4>1. stream'[1].lo - 1 = stream[1].hi
        <5>1. stream[1].hi \in Nat
          BY <1>2 DEF Operation
        <5> QED BY <2>1, <3>4, <5>1
      <4>2. PICK m : m = stream[1].hi /\ m = stream'[1].lo - 1
        BY <4>1
      <4>3. Right(pixels, b, m)'
        BY <1>8, <3>2, <3>4, <4>2
      <4>4. Right(pixels, b, stream[1].lo - 1)'
        BY <4>2, <4>3 DEF Right
      <4> QED BY <1>8, <2>1, <3>2, <3>4, <4>4 DEF Ready
    <3>5. CASE stream[2].op = "infer"
      <4>1. PICK m : m = Size(b) /\ m = Size(b)'
        BY DEF Size
      <4>2. stream[1].op = "warp" /\ stream[1].hi = m
        BY <3>1, <3>5, <4>1 DEF Follows
      <4>3. Right(pixels, b, m)'
        BY <1>8, <3>2, <4>2
      <4>4. Right(pixels, b, Size(b))'
        BY <4>1, <4>3 DEF Right
      <4> QED BY <2>1, <3>5, <4>4 DEF Ready
    <3>6. CASE stream[2].op = "answer"
      <4>1. stream[1].op = "infer"
        BY <3>1, <3>6 DEF Follows
      <4> QED BY <1>8, <2>1, <3>2, <3>6, <4>1 DEF Ready
    <3>7. stream[2].op \in {"copy", "warp", "infer", "answer"}
      BY <2>1, ElementTypes
    <3> QED BY <2>3, <3>1, <3>3, <3>4, <3>5, <3>6, <3>7 DEF Follows
  <2> QED BY <2>2, <2>3
<1>10. LastQueued'
  <2> SUFFICES ASSUME phase = "warp"
               PROVE  IF stream' = <<>> THEN Right(transforms, InHand, Count)' /\ Right(pixels, InHand, row)'
                      ELSE /\ Of(stream'[Len(stream')], InHand)
                           /\ \/ stream'[Len(stream')].op = "copy" /\ row = 0
                              \/ stream'[Len(stream')].op = "warp" /\ row = stream'[Len(stream')].hi
    BY <1>1, <1>3, <1>4 DEF LastQueued
  <2>1. /\ Of(stream[n], InHand)
        /\ \/ stream[n].op = "copy" /\ row = 0
           \/ stream[n].op = "warp" /\ row = stream[n].hi
    BY <1>1 DEF Queued, LastQueued, n
  <2>2. CASE n = 1
    <3>1. InHand \in Live /\ Size(InHand) = Count
      BY InHandType DEF Live, Batches
    <3>2. stream[1].op = "copy" \/ stream[1].op = "warp" => Right(transforms, InHand, Size(InHand))'
      BY <1>8, <1>3, <2>1, <2>2, <3>1
    <3>3. Size(InHand)' = Count'
      BY <1>3, <3>1 DEF Size
    <3>4. ASSUME stream[1].op = "warp" PROVE Right(pixels, InHand, row)'
      <4>1. PICK m : m = row /\ m = row'
        BY <1>1
      <4>2. PICK b : b = InHand /\ b = InHand'
        BY <1>3
      <4>3. b \in Live /\ Of(stream[1], b) /\ m = stream[1].hi
        BY <2>1, <2>2, <3>1, <3>4, <4>1, <4>2
      <4>4. Right(pixels, b, m)'
        BY <1>8, <3>4, <4>3
      <4> QED BY <4>1, <4>2, <4>4 DEF Right
    <3>5. stream[1].op = "copy" => Right(pixels, InHand, row)'
      BY <1>1, <2>1, <2>2 DEF Right
    <3> QED BY <1>2, <1>3, <2>1, <2>2, <3>1, <3>2, <3>3, <3>4, <3>5 DEF Right
  <2>3. CASE n # 1
    <3>1. stream'[Len(stream')] = stream[n] /\ stream' # <<>>
      BY <1>2, <2>3
    <3> QED BY <2>1, <3>1
  <2> QED BY <2>2, <2>3
<1>11. Staged'
  <2> SUFFICES ASSUME NEW k \in DOMAIN stream', NEW b \in Live, Of(stream'[k], b),
                      stream'[k].op = "copy"
               PROVE  Right(pinned[b.slot], b, Size(b))
    BY <1>1, <1>3, <1>4 DEF Staged, Right, Content, Size
  <2> QED BY <1>5 DEF Queued, Staged
<1>12. Answered'
  <2> SUFFICES ASSUME NEW i \in DOMAIN records
               PROVE  AnswerIn(records[i])' \/ AnswerToCome(records[i])'
    BY <1>1 DEF Answered
  <2>1. PICK b : b = records[i] /\ b = records'[i]
    BY <1>1
  <2>2. b \in Live
    BY <2>1 DEF Live
  <2>3. CASE AnswerIn(b)
    <3>1. ~ AnswersTo(stream[1], b)
      BY <1>2, <2>3 DEF AnswerIn
    <3>2. answers'[b.slot] = answers[b.slot]
      <4>1. PICK o : o = stream[1]
        OBVIOUS
      <4>2. ExecuteCopy(o) \/ ExecuteWarp(o) \/ ExecuteInfer(o) \/ ExecuteAnswer(o)
        BY <1>2, <4>1 DEF Execute
      <4>3. CASE ExecuteAnswer(o)
        <5>1. o.slot # b.slot
          BY <3>1, <4>1, <4>3 DEF AnswersTo, ExecuteAnswer
        <5>2. b.slot \in Slots
          BY <2>2, LiveSound
        <5> QED BY <4>3, <5>1, <5>2 DEF ExecuteAnswer, RecTypeOK
      <4> QED BY <4>2, <4>3 DEF ExecuteCopy, ExecuteWarp, ExecuteInfer
    <3>3. \A k \in DOMAIN stream' : ~ AnswersTo(stream'[k], b)
      BY <1>5, <2>3 DEF AnswerIn
    <3>4. Right(answers[b.slot], b, Size(b))'
      BY <1>1, <2>3, <3>2 DEF AnswerIn, Right, Content, Size
    <3>5. AnswerIn(b)'
      BY <3>3, <3>4 DEF AnswerIn, AnswersTo
    <3> QED BY <2>1, <3>5
  <2>4. CASE AnswerToCome(b)
    <3>1. PICK k \in DOMAIN stream : /\ Of(stream[k], b) /\ stream[k].op = "answer"
                                     /\ \A m \in DOMAIN stream : m > k => ~ AnswersTo(stream[m], b)
      BY <2>4 DEF AnswerToCome
    <3>2. CASE k = 1
      <4>1. \A m \in DOMAIN stream' : ~ AnswersTo(stream'[m], b)
        BY <1>2, <1>5, <3>1, <3>2
      <4>2. Right(answers[b.slot], b, Size(b))'
        BY <1>8, <2>2, <3>1, <3>2
      <4>3. AnswerIn(b)'
        BY <4>1, <4>2 DEF AnswerIn, AnswersTo
      <4> QED BY <2>1, <4>3
    <3>3. CASE k # 1
      <4>1. k - 1 \in DOMAIN stream' /\ stream'[k - 1] = stream[k]
        BY <1>2, <3>3
      <4>2. \A m \in DOMAIN stream' : m > k - 1 => ~ AnswersTo(stream'[m], b)
        BY <1>2, <1>5, <3>1
      <4>3. PICK j : j = k - 1
        OBVIOUS
      <4>4. Of(stream[j], b)'
        BY <1>1, <3>1, <4>1, <4>3 DEF Of
      <4>5. AnswerToCome(b)'
        BY <3>1, <4>1, <4>2, <4>3, <4>4 DEF AnswerToCome, AnswersTo
      <4> QED BY <2>1, <4>5
    <3> QED BY <3>2, <3>3
  <2> QED BY <2>1, <2>3, <2>4 DEF Queued, Answered
<1> QED BY <1>6, <1>7, <1>9, <1>10, <1>11, <1>12 DEF Queued

LEMMA QueuedNext ==
  RecInv /\ [RecNext]_recVars /\ Active' => Queued'
<1> SUFFICES ASSUME RecInv, [RecNext]_recVars, Active' PROVE Queued'
  OBVIOUS
<1>0. RecTypeOK /\ Behind /\ (Active => Batches /\ Queued) /\ (phase = "decode" => stream = <<>>)
  BY DEF RecInv
<1>1. CASE UNCHANGED recVars
  <2>1. UNCHANGED <<phase, crops, beg, slot, records>>
    BY <1>1 DEF recVars
  <2>2. Live' = Live /\ InHand' = InHand /\ Count' = Count
    BY <2>1, SameBatches
  <2>3. UNCHANGED <<phase, calls, row, pinned, transforms, pixels, output, answers, stream, records, crops>>
    BY <1>1 DEF recVars
  <2>4. \A p, q, b : /\ Of(q, b)' <=> Of(q, b)
                     /\ OpFits(q, b)' <=> OpFits(q, b)
                     /\ Follows(p, q, b)' <=> Follows(p, q, b)
                     /\ Ready(q, b)' <=> Ready(q, b)
    BY <2>3 DEF Content, Of, OpFits, Right, Follows, Ready
  <2>5. Queued
    BY <1>0, <2>1 DEF Active
  <2>6. OpsFit' /\ InOrder' /\ HeadReady'
    BY <2>2, <2>3, <2>4, <2>5 DEF Queued, OpsFit, InOrder, HeadReady
  <2>7. LastQueued'
    BY <2>2, <2>3, <2>5 DEF Queued, LastQueued, Right, Content, Of
  <2>8. Staged'
    BY <2>2, <2>3, <2>5 DEF Queued, Staged, Right, Content, Of, Size
  <2>9. Answered'
    BY <2>3, <2>5 DEF Queued, Answered, AnswerIn, AnswerToCome, AnswersTo, Right, Content, Of, Size
  <2> QED BY <2>6, <2>7, <2>8, <2>9 DEF Queued
<1>2. ASSUME NEW images \in Calls, Begin(images) PROVE Queued'
  <2>1. phase' = "queue" /\ records' = <<>>
    BY <1>2 DEF Begin
  <2>2. Live' = {}
    BY <2>1 DEF Live
  <2> QED BY <2>1, <2>2 DEF Queued, OpsFit, InOrder, HeadReady, LastQueued, Staged, Answered
<1>3. ASSUME NEW images \in Calls, NothingToRead(images) PROVE FALSE
  BY <1>3 DEF NothingToRead, Active
<1>4. CASE Stage
  BY <1>0, <1>4, QueuedStage DEF Stage, Active
<1>5. CASE Warp
  BY <1>0, <1>5, QueuedWarp DEF Warp, Active
<1>6. CASE Infer
  BY <1>0, <1>6, QueuedInfer DEF Infer, Active
<1>7. CASE InferOverDims
  BY <1>0, <1>7, QueuedOverDims DEF InferOverDims, Active
<1>8. CASE Throw
  BY <1>8 DEF Throw, Active
<1>9. CASE Synchronise \/ DecodeRecord \/ Decoded
  <2>1. /\ stream = <<>> /\ stream' = <<>> /\ phase' # "warp" /\ Active
        /\ UNCHANGED <<calls, crops, answers>>
    BY <1>0, <1>9 DEF Synchronise, Synchronised, DecodeRecord, Decoded, Active, deviceVars
  <2>2. \A i \in DOMAIN records' : \E j \in DOMAIN records : records'[i] = records[j]
    <3>1. CASE DecodeRecord
      <4>1. records # <<>> /\ records' = Tail(records)
        BY <3>1 DEF DecodeRecord
      <4>2. records \in Seq(Batch)
        BY <1>0 DEF RecTypeOK
      <4>3. ASSUME NEW i \in DOMAIN records'
            PROVE  i + 1 \in DOMAIN records /\ records'[i] = records[i + 1]
        BY <4>1, <4>2, Without1st
      <4> QED BY <4>3
    <3>2. CASE Synchronise \/ Decoded
      BY <3>2 DEF Synchronise, Decoded
    <3> QED BY <1>9, <3>1, <3>2
  <2>3. Answered'
    <3> SUFFICES ASSUME NEW i \in DOMAIN records' PROVE AnswerIn(records[i])'
      BY DEF Answered
    <3>1. PICK b : b = records'[i] /\ \E j \in DOMAIN records : b = records[j]
      BY <2>2
    <3>2. AnswerIn(b) \/ AnswerToCome(b)
      BY <1>0, <2>1, <3>1 DEF Queued, Answered
    <3>3. Right(answers[b.slot], b, Size(b))
      BY <2>1, <3>2 DEF AnswerIn, AnswerToCome
    <3>4. Right(answers[b.slot], b, Size(b))'
      BY <2>1, <3>3 DEF Right, Content, Size
    <3>5. AnswerIn(b)'
      BY <2>1, <3>4 DEF AnswerIn
    <3> QED BY <3>1, <3>5
  <2>4. DOMAIN stream' = {}
    BY <2>1
  <2> QED BY <2>1, <2>3, <2>4 DEF Queued, OpsFit, InOrder, HeadReady, LastQueued, Staged
<1>10. CASE Execute
  BY <1>0, <1>10, QueuedExecute DEF Execute, Active
<1> QED BY <1>1, <1>2, <1>3, <1>4, <1>5, <1>6, <1>7, <1>8, <1>9, <1>10 DEF RecNext

-----------------------------------------------------------------------------
\* What has been emitted, step by step.
LEMMA LostFinite ==
  ASSUME RecTypeOK, NEW i
  PROVE  IsFiniteSet(Lost(i)) /\ Cardinality(Lost(i)) \in Nat
<1>1. IsFiniteSet(1 .. beg - 1)
  BY FS_Interval DEF RecTypeOK
<1>2. Lost(i) \in SUBSET (1 .. beg - 1)
  BY DEF Lost
<1>3. IsFiniteSet(Lost(i))
  BY <1>1, <1>2, FS_Subset
<1> QED BY <1>3, FS_CardinalityType

LEMMA EmittedInfer == RecTypeOK /\ Batches /\ Emitted /\ Infer => Emitted'
<1> SUFFICES ASSUME RecTypeOK, Batches, Emitted, Infer PROVE Emitted'
  OBVIOUS
<1>1. /\ records' = Append(records, InHand) /\ beg' = End
      /\ UNCHANGED <<calls, crops, results, dropped>>
  BY DEF Infer, InHand
<1>2. /\ End \in Nat /\ beg < End /\ beg >= 1 /\ InHand \in Batch /\ beg \in Nat
      /\ End <= Len(crops) + 1
  BY InHandType DEF Infer, Batches, RecTypeOK
<1>3. /\ DOMAIN records = 1 .. Len(records) /\ Len(records) \in Nat
      /\ DOMAIN records' = 1 .. Len(records) + 1
      /\ \A i \in 1 .. Len(records) : records'[i] = records[i]
      /\ records'[Len(records) + 1] = InHand
  BY <1>1, <1>2, Appended DEF RecTypeOK
<1>4. InHand.beg = beg /\ InHand.end = End
  BY DEF InHand
<1>5. ASSUME NEW k PROVE OnRecord(k)' <=> OnRecord(k) \/ (beg <= k /\ k < End)
  <2>1. OnRecord(k) => OnRecord(k)'
    BY <1>3 DEF OnRecord
  <2>2. beg <= k /\ k < End => OnRecord(k)'
    BY <1>3, <1>4 DEF OnRecord
  <2>3. OnRecord(k)' => OnRecord(k) \/ (beg <= k /\ k < End)
    BY <1>3, <1>4 DEF OnRecord
  <2> QED BY <2>1, <2>2, <2>3
<1>6. DOMAIN crops = 1 .. Len(crops) /\ Len(crops) \in Nat
  BY DEF RecTypeOK
<1>7. ASSUME NEW k \in DOMAIN crops PROVE k >= beg' \/ OnRecord(k)' => results[k] = <<>>
  <2>1. k >= beg' => k >= beg
    BY <1>1, <1>2, <1>6
  <2> QED BY <1>5, <2>1 DEF Emitted
<1>8. ASSUME NEW i PROVE Lost(i)' = Lost(i)
  <2>1. ASSUME NEW k \in 1 .. End - 1, ~ (OnRecord(k) \/ (beg <= k /\ k < End))
        PROVE  k \in 1 .. beg - 1
    BY <1>2, <2>1
  <2>2. ASSUME NEW k \in 1 .. beg - 1 PROVE k \in 1 .. End - 1 /\ ~ (beg <= k /\ k < End)
    BY <1>2
  <2>3. Lost(i)' = {k \in 1 .. End - 1 : /\ crops[k].img = i /\ results[k] = <<>>
                                         /\ ~ (OnRecord(k) \/ (beg <= k /\ k < End))}
    BY <1>1, <1>5 DEF Lost
  <2> QED BY <2>1, <2>2, <2>3 DEF Lost
<1> QED BY <1>1, <1>7, <1>8 DEF Emitted, Content

LEMMA EmittedOverDims == RecTypeOK /\ Batches /\ Emitted /\ InferOverDims => Emitted'
<1> SUFFICES ASSUME RecTypeOK, Batches, Emitted, InferOverDims PROVE Emitted'
  OBVIOUS
<1> DEFINE New(i) == {k \in beg .. End - 1 : crops[k].img = i}
<1>1. /\ dropped' = [i \in DOMAIN dropped |-> dropped[i] + Cardinality(New(i))] /\ beg' = End
      /\ UNCHANGED <<calls, crops, results, records>>
  BY DEF InferOverDims
<1>2. End \in Nat /\ beg < End /\ beg >= 1 /\ beg \in Nat /\ End <= Len(crops) + 1
  BY InHandType DEF InferOverDims, Batches, RecTypeOK
<1>3. DOMAIN crops = 1 .. Len(crops) /\ Len(crops) \in Nat
  BY DEF RecTypeOK
<1>4. \A k : OnRecord(k)' <=> OnRecord(k)
  BY <1>1 DEF OnRecord
<1>5. ASSUME NEW k \in beg .. End - 1 PROVE ~ OnRecord(k) /\ results[k] = <<>>
  <2>1. ASSUME NEW i \in DOMAIN records PROVE ~ (k < records[i].end)
    <3>1. records[i].end <= beg /\ records[i].end \in Nat
      BY ElementTypes DEF Batches
    <3> QED BY <1>2, <1>5, <3>1
  <2>2. k \in DOMAIN crops /\ k >= beg
    BY <1>2, <1>3
  <2> QED BY <2>1, <2>2 DEF OnRecord, Emitted
<1>6. ASSUME NEW i PROVE Cardinality(Lost(i)') = Cardinality(Lost(i)) + Cardinality(New(i))
  <2>1. Lost(i)' = {k \in 1 .. End - 1 : crops[k].img = i /\ results[k] = <<>> /\ ~ OnRecord(k)}
    BY <1>1, <1>4 DEF Lost
  <2>2. \A k : k \in 1 .. End - 1 <=> k \in 1 .. beg - 1 \/ k \in beg .. End - 1
    BY <1>2
  <2>3. Lost(i)' = Lost(i) \cup New(i)
    BY <1>5, <2>1, <2>2 DEF Lost
  <2>4. Lost(i) \cap New(i) = {}
    BY <1>2 DEF Lost
  <2>5. IsFiniteSet(Lost(i)) /\ Cardinality(Lost(i)) \in Nat
    BY LostFinite
  <2>6. IsFiniteSet(New(i)) /\ Cardinality(New(i)) \in Nat
    <3>1. IsFiniteSet(beg .. End - 1) /\ New(i) \in SUBSET (beg .. End - 1)
      BY <1>2, FS_Interval
    <3> HIDE DEF New
    <3>2. IsFiniteSet(New(i))
      BY <3>1, FS_Subset
    <3> QED BY <3>2, FS_CardinalityType
  <2> HIDE DEF New
  <2>7. Cardinality(Lost(i) \cup New(i)) = Cardinality(Lost(i)) + Cardinality(New(i)) - Cardinality({})
    BY <2>4, <2>5, <2>6, FS_Union
  <2>8. Cardinality({}) = 0
    BY FS_EmptySet
  <2> QED BY <2>3, <2>5, <2>6, <2>7, <2>8
<1>7. ASSUME NEW i \in DOMAIN dropped' PROVE dropped'[i] = Cardinality(Lost(i)')
  <2>1. i \in DOMAIN dropped /\ dropped'[i] = dropped[i] + Cardinality(New(i))
    BY <1>1
  <2> HIDE DEF New
  <2> QED BY <1>6, <2>1 DEF Emitted
<1>8. ASSUME NEW k \in DOMAIN crops PROVE k >= beg' \/ OnRecord(k)' => results[k] = <<>>
  <2>1. k >= beg' => k >= beg
    BY <1>1, <1>2, <1>3
  <2> QED BY <1>4, <2>1 DEF Emitted
<1> HIDE DEF New
<1> QED BY <1>1, <1>7, <1>8 DEF Emitted, Content

LEMMA EmittedDecode == RecInv /\ DecodeRecord => Emitted'
<1> SUFFICES ASSUME RecInv, DecodeRecord PROVE Emitted'
  OBVIOUS
<1>0. RecTypeOK /\ Batches /\ Queued /\ Emitted /\ stream = <<>> /\ records # <<>>
  BY DEF RecInv, DecodeRecord, Active
<1>1. PICK b : b = records[1]
  OBVIOUS
<1>2. /\ Head(records) = b /\ 1 \in DOMAIN records /\ b \in Live /\ b.slot \in Slots
      /\ \A k \in b.beg .. b.end - 1 : k - b.beg + 1 \in 1 .. Size(b)
  BY <1>0, <1>1, HeadRecord
<1>3. /\ results' = [k \in DOMAIN results |->
                       IF k \in b.beg .. b.end - 1
                       THEN Append(results[k], answers[b.slot][k - b.beg + 1]) ELSE results[k]]
      /\ records' = Tail(records) /\ UNCHANGED <<calls, crops, beg, dropped>>
  BY <1>2 DEF DecodeRecord
<1>4. /\ DOMAIN records = 1 .. Len(records) /\ Len(records) \in Nat /\ Len(records) >= 1
      /\ DOMAIN records' = 1 .. Len(records) - 1
      /\ \A i \in 1 .. Len(records) - 1 : records'[i] = records[i + 1]
  BY <1>0, <1>3, Without1st DEF RecTypeOK
<1>5. Right(answers[b.slot], b, Size(b))
  BY <1>0, <1>1, <1>2 DEF Queued, Answered, AnswerIn, AnswerToCome
<1>6. /\ b.beg \in Nat /\ b.end \in Nat /\ DOMAIN results = DOMAIN crops
      /\ DOMAIN crops = 1 .. Len(crops) /\ Len(crops) \in Nat /\ beg \in Nat
      /\ 1 <= b.beg /\ b.end <= beg /\ beg <= Len(crops) + 1
  BY <1>0, <1>1, <1>2, ElementTypes DEF Batches, RecTypeOK
<1>7. ASSUME NEW k, k \in b.beg .. b.end - 1
      PROVE  k \in DOMAIN crops /\ results[k] = <<>> /\ results'[k] = <<Content(k)>> /\ k < beg /\ OnRecord(k)
  <2>1. k \in DOMAIN crops /\ k < beg /\ OnRecord(k)
    BY <1>1, <1>2, <1>6, <1>7 DEF OnRecord
  <2>2. results[k] = <<>>
    BY <1>0, <2>1 DEF Emitted
  <2>3. answers[b.slot][k - b.beg + 1] = Content(b.beg + (k - b.beg + 1) - 1)
    BY <1>2, <1>5, <1>7 DEF Right
  <2>4. b.beg + (k - b.beg + 1) - 1 = k
    BY <1>6, <1>7
  <2>5. results'[k] = Append(<<>>, Content(k))
    BY <1>3, <1>6, <1>7, <2>1, <2>2, <2>3, <2>4
  <2> QED BY <2>1, <2>2, <2>5
<1>8. ASSUME NEW k \in DOMAIN crops, k \notin b.beg .. b.end - 1 PROVE results'[k] = results[k]
  BY <1>3, <1>6, <1>8
<1>9. ASSUME NEW k \in Int PROVE OnRecord(k)' <=> OnRecord(k) /\ k \notin b.beg .. b.end - 1
  <2>1. ASSUME NEW i \in DOMAIN records', records'[i].beg <= k, k < records'[i].end
        PROVE  OnRecord(k) /\ k \notin b.beg .. b.end - 1
    <3>1. /\ i + 1 \in DOMAIN records /\ records'[i] = records[i + 1] /\ 1 < i + 1
      BY <1>4
    <3>2. b.end <= records[i + 1].beg /\ records[i + 1].beg \in Nat
      BY <1>0, <1>1, <1>2, <3>1, ElementTypes DEF Batches
    <3> QED BY <1>6, <2>1, <3>1, <3>2 DEF OnRecord
  <2>2. ASSUME NEW i \in DOMAIN records, records[i].beg <= k, k < records[i].end,
               k \notin b.beg .. b.end - 1
        PROVE  OnRecord(k)'
    <3>1. i # 1
      BY <1>1, <1>6, <2>2
    <3>2. i - 1 \in DOMAIN records' /\ records'[i - 1] = records[i]
      BY <1>4, <3>1
    <3> QED BY <2>2, <3>2 DEF OnRecord
  <2> QED BY <2>1, <2>2 DEF OnRecord
<1>10. ASSUME NEW k \in DOMAIN crops
       PROVE  /\ results'[k] \in {<<>>, <<Content(k)>>}
              /\ k >= beg \/ OnRecord(k)' => results'[k] = <<>>
  <2>1. k \in Int
    BY <1>6
  <2>2. CASE k \in b.beg .. b.end - 1
    <3>1. ~ (k >= beg)
      BY <1>6, <1>7, <2>2
    <3> QED BY <1>7, <1>9, <2>1, <2>2, <3>1
  <2>3. CASE k \notin b.beg .. b.end - 1
    BY <1>0, <1>8, <1>9, <2>1, <2>3 DEF Emitted
  <2> QED BY <2>2, <2>3
<1>11. ASSUME NEW i PROVE Lost(i)' = Lost(i)
  <2>1. ASSUME NEW k \in 1 .. beg - 1
        PROVE  results'[k] = <<>> /\ ~ OnRecord(k)' <=> results[k] = <<>> /\ ~ OnRecord(k)
    <3>1. k \in DOMAIN crops /\ k \in Int
      BY <1>6
    <3>2. CASE k \in b.beg .. b.end - 1
      BY <1>7, <3>2
    <3>3. CASE k \notin b.beg .. b.end - 1
      BY <1>8, <1>9, <3>1, <3>3
    <3> QED BY <3>2, <3>3
  <2> QED BY <1>3, <2>1 DEF Lost
<1> QED BY <1>0, <1>3, <1>10, <1>11 DEF Emitted, Content

LEMMA EmittedNext == RecInv /\ [RecNext]_recVars /\ Active' => Emitted'
<1> SUFFICES ASSUME RecInv, [RecNext]_recVars, Active' PROVE Emitted'
  OBVIOUS
<1>0. RecTypeOK /\ (Active => Batches /\ Queued /\ Emitted)
  BY DEF RecInv
<1>1. ASSUME Active, UNCHANGED <<calls, crops, beg, records, results, dropped>> PROVE Emitted'
  <2>1. \A k : OnRecord(k)' <=> OnRecord(k)
    BY <1>1 DEF OnRecord
  <2>2. \A i : Lost(i)' = Lost(i)
    BY <1>1, <2>1 DEF Lost
  <2> QED BY <1>0, <1>1, <2>1, <2>2 DEF Emitted, Content
<1>2. CASE UNCHANGED recVars
  <2>1. Active /\ UNCHANGED <<calls, crops, beg, records, results, dropped>>
    BY <1>2 DEF recVars, Active
  <2> QED BY <1>1, <2>1
<1>3. ASSUME NEW images \in Calls, Begin(images) PROVE Emitted'
  <2>1. /\ results' = [k \in DOMAIN crops' |-> <<>>] /\ dropped' = [i \in DOMAIN images |-> 0]
        /\ beg' = 1
    BY <1>3 DEF Begin
  <2>2. \A i : Lost(i)' = {}
    <3>1. 1 .. beg' - 1 = {}
      BY <2>1
    <3> QED BY <3>1 DEF Lost
  <2>3. Cardinality({}) = 0
    BY FS_EmptySet
  <2> QED BY <2>1, <2>2, <2>3 DEF Emitted
<1>4. ASSUME NEW images \in Calls, NothingToRead(images) PROVE FALSE
  BY <1>4 DEF NothingToRead, Active
<1>5. CASE Stage \/ Warp \/ Synchronise \/ Execute
  <2>1. Active /\ UNCHANGED <<calls, crops, beg, records, results, dropped>>
    BY <1>5 DEF Stage, Warp, Synchronise, Execute, Active
  <2> QED BY <1>1, <2>1
<1>6. CASE Decoded
  <2>1. Active /\ UNCHANGED <<calls, crops, beg, records, results, dropped>>
    BY <1>6 DEF Decoded, Active
  <2> QED BY <1>1, <2>1
<1>7. CASE Infer
  BY <1>0, <1>7, EmittedInfer DEF Infer, Active
<1>8. CASE InferOverDims
  BY <1>0, <1>8, EmittedOverDims DEF InferOverDims, Active
<1>9. CASE Throw
  BY <1>9 DEF Throw, Active
<1>10. CASE DecodeRecord
  BY <1>10, EmittedDecode
<1> QED BY <1>2, <1>3, <1>4, <1>5, <1>6, <1>7, <1>8, <1>9, <1>10 DEF RecNext

LEMMA WaitedNext == RecInv /\ [RecNext]_recVars => (phase = "decode" => stream = <<>>)'
<1> SUFFICES ASSUME RecInv, [RecNext]_recVars, phase' = "decode" PROVE stream' = <<>>
  OBVIOUS
<1>1. phase = "decode" => stream = <<>>
  BY DEF RecInv
<1>2. CASE UNCHANGED recVars
  BY <1>1, <1>2 DEF recVars
<1>3. CASE Synchronise \/ DecodeRecord
  BY <1>1, <1>3 DEF Synchronise, Synchronised, DecodeRecord
<1>4. CASE Execute
  BY <1>1, <1>4 DEF Execute
<1> QED BY <1>2, <1>3, <1>4 DEF RecNext, Begin, NothingToRead, Stage, Warp, Infer, InferOverDims,
                                Throw, Decoded

\* At the end of a call nothing is left on record.
LEMMA OwnAtTheEnd == RecInv /\ Decoded => EveryCropItsOwn'
<1> SUFFICES ASSUME RecInv, Decoded, phase' = "idle" PROVE EveryCropItsOwn'
  BY DEF EveryCropItsOwn
<1>1. RecTypeOK /\ Batches /\ Emitted /\ records = <<>> /\ UNCHANGED <<calls, crops, results, dropped>>
  BY DEF RecInv, Active, Decoded
<1>2. beg = Len(crops) + 1 /\ DOMAIN crops = 1 .. beg - 1
  BY <1>1 DEF Decoded, Batches, RecTypeOK
<1>3. \A k : ~ OnRecord(k)
  BY <1>1 DEF OnRecord
<1>4. \A i : Lost(i) = {k \in DOMAIN crops : crops[k].img = i /\ results[k] = <<>>}
  BY <1>2, <1>3 DEF Lost
<1> QED BY <1>1, <1>4 DEF Emitted, EveryCropItsOwn, Content

LEMMA OwnNext == RecInv /\ [RecNext]_recVars => EveryCropItsOwn'
<1> SUFFICES ASSUME RecInv, [RecNext]_recVars, phase' = "idle" PROVE EveryCropItsOwn'
  BY DEF EveryCropItsOwn
<1>1. CASE UNCHANGED recVars \/ Execute
  <2>1. UNCHANGED <<phase, calls, crops, results, dropped>>
    BY <1>1 DEF recVars, Execute
  <2> QED BY <2>1 DEF RecInv, EveryCropItsOwn, Content
<1>2. CASE Decoded
  BY <1>2, OwnAtTheEnd
<1>3. ASSUME NEW images \in Calls, NothingToRead(images) PROVE EveryCropItsOwn'
  BY <1>3 DEF NothingToRead, EveryCropItsOwn
<1>4. CASE DecodeRecord \/ Warp
  BY <1>4 DEF DecodeRecord, Warp
<1> QED BY <1>1, <1>2, <1>3, <1>4 DEF RecNext, Begin, Stage, Infer, InferOverDims, Throw, Synchronise

LEMMA RecInvInit == RecInit => RecInv
<1> SUFFICES ASSUME RecInit PROVE RecInv
  OBVIOUS
<1>1. RecTypeOK
  BY TypeInit
<1>2. Behind
  BY DEF RecInit, Behind
<1> QED BY <1>1, <1>2 DEF RecInit, RecInv, Active, EveryCropItsOwn

LEMMA RecInvNext == RecInv /\ [RecNext]_recVars => RecInv'
<1> SUFFICES ASSUME RecInv, [RecNext]_recVars PROVE RecInv'
  OBVIOUS
<1>1. RecTypeOK /\ Behind /\ (Active => Batches)
  BY DEF RecInv
<1>2. RecTypeOK' /\ Behind' /\ (Active' => Batches')
  BY <1>1, RecTypeNext, BehindNext, BatchesNext
<1>3. Active' => Queued' /\ Emitted'
  BY QueuedNext, EmittedNext
<1>4. (phase = "decode" => stream = <<>>)' /\ EveryCropItsOwn'
  BY WaitedNext, OwnNext
<1> QED BY <1>2, <1>3, <1>4 DEF RecInv

\* The recogniser's rows stay what their types say.
THEOREM RecTypeCorrect == RecSpec => []RecTypeOK
<1>1. RecInv => RecTypeOK
  BY DEF RecInv
<1> QED BY <1>1, RecInvInit, RecInvNext, PTL DEF RecSpec

\* Whatever number of slots and whatever batch size, whatever calls are made,
\* however far the device lags behind the host, wherever a launch throws and
\* whatever a call that threw has left in the stream: a call that returns has
\* given every crop the rows of its own pixels once, or counted it as dropped.
THEOREM CropsKept == RecSpec => []EveryCropItsOwn
<1>1. RecInv => EveryCropItsOwn
  BY DEF RecInv
<1> QED BY <1>1, RecInvInit, RecInvNext, PTL DEF RecSpec

-----------------------------------------------------------------------------
\* Division, and the sum of a set of pixels' scores, however FoldSet takes them.

LEMMA DivMod ==
  ASSUME NEW a \in Nat, NEW b \in Nat \ {0}
  PROVE  /\ a \div b \in Nat /\ a % b \in 0 .. b - 1
         /\ a = b * (a \div b) + (a % b)
OBVIOUS

LEMMA DivModIs ==
  ASSUME NEW b \in Nat \ {0}, NEW q \in Nat, NEW r \in 0 .. b - 1
  PROVE  (b * q + r) \div b = q /\ (b * q + r) % b = r
<1> DEFINE a == b * q + r
<1>1. a \in Nat
  OBVIOUS
<1>2. PICK d, m : d = a \div b /\ m = a % b
  OBVIOUS
<1>3. d \in Nat /\ m \in 0 .. b - 1 /\ b * q + r = b * d + m
  BY <1>1, <1>2, DivMod
<1>4. ~ (q > d)
  <2> SUFFICES ASSUME q >= d + 1 PROVE FALSE
    BY <1>3
  <2>1. b * q >= b * (d + 1)
    BY <1>3
  <2>2. b * (d + 1) = b * d + b
    BY <1>3
  <2> QED BY <2>1, <2>2, <1>3
<1>5. ~ (d > q)
  <2> SUFFICES ASSUME d >= q + 1 PROVE FALSE
    BY <1>3
  <2>1. b * d >= b * (q + 1)
    BY <1>3
  <2>2. b * (q + 1) = b * q + b
    OBVIOUS
  <2> QED BY <2>1, <2>2, <1>3
<1> QED BY <1>2, <1>3, <1>4, <1>5

LEMMA DivMonotonic ==
  ASSUME NEW a \in Nat, NEW c \in Nat, a <= c, NEW b \in Nat \ {0}
  PROVE  a \div b <= c \div b
<1>1. PICK d, m : d = a \div b /\ m = a % b
  OBVIOUS
<1>2. PICK e, n : e = c \div b /\ n = c % b
  OBVIOUS
<1>3. d \in Nat /\ m \in 0 .. b - 1 /\ a = b * d + m
  BY <1>1, DivMod
<1>4. e \in Nat /\ n \in 0 .. b - 1 /\ c = b * e + n
  BY <1>2, DivMod
<1>5. ASSUME d >= e + 1 PROVE FALSE
  <2>1. b * d >= b * (e + 1)
    BY <1>3, <1>4, <1>5
  <2>2. b * (e + 1) = b * e + b
    BY <1>4
  <2> QED BY <2>1, <2>2, <1>3, <1>4
<1> QED BY <1>1, <1>2, <1>3, <1>4, <1>5

ScoreFun(f, S) ==
  f = [s \in SUBSET S |-> IF s = {} THEN 0
         ELSE f[s \ {CHOOSE x \in s : TRUE}] + scores[CHOOSE x \in s : TRUE]]
LEMMA ScoreIs == ASSUME NEW S PROVE ScoreOf(S) = (CHOOSE f : ScoreFun(f, S))[S]
BY DEF ScoreOf, FoldSet, MapThenFoldSet, ScoreFun

\* What holds of nought, and of a number's successor if of the number, holds.
LEMMA Induct ==
  ASSUME NEW T \in SUBSET Nat, 0 \in T, \A n \in T : n + 1 \in T
  PROVE  \A n \in Nat : n \in T
<1> SUFFICES ASSUME Nat \ T # {} PROVE FALSE
  OBVIOUS
<1>1. PICK x \in Nat \ T : \A y \in Nat \ T : x <= y
  BY LeastOf
<1>2. x # 0 /\ x - 1 \in Nat /\ x - 1 \in T
  BY <1>1
<1> QED BY <1>1, <1>2

Scored == IsFiniteSet(bitmap) /\ scores \in [bitmap -> Nat]
AnyOf(s) == CHOOSE x \in s : TRUE

\* The sums over the sets of at most n pixels.
Sums(f, S, n) ==
  LET few == {s \in SUBSET S : Cardinality(s) <= n}
  IN  /\ f \in [few -> Nat]
      /\ \A s \in few : f[s] = IF s = {} THEN 0 ELSE f[s \ {AnyOf(s)}] + scores[AnyOf(s)]

LEMMA Without ==
  ASSUME Scored, NEW s \in SUBSET bitmap, s # {}
  PROVE  /\ AnyOf(s) \in s /\ scores[AnyOf(s)] \in Nat
         /\ IsFiniteSet(s) /\ Cardinality(s) \in Nat \ {0}
         /\ \A x \in s : Cardinality(s \ {x}) = Cardinality(s) - 1
<1>1. AnyOf(s) \in s
  BY DEF AnyOf
<1>2. IsFiniteSet(s)
  BY FS_Subset DEF Scored
<1>3. Cardinality(s) \in Nat /\ Cardinality(s) # 0
  BY <1>2, FS_CardinalityType, FS_EmptySet
<1>4. \A x \in s : Cardinality(s \ {x}) = Cardinality(s) - 1
  BY <1>2, FS_RemoveElement
<1> QED BY <1>1, <1>2, <1>3, <1>4 DEF Scored

LEMMA SumsExist ==
  ASSUME Scored, NEW S \in SUBSET bitmap
  PROVE  \A n \in Nat : \E f : Sums(f, S, n)
<1> DEFINE T == {n \in Nat : \E f : Sums(f, S, n)}
           few(n) == {s \in SUBSET S : Cardinality(s) <= n}
<1>1. 0 \in T
  <2> DEFINE f == [s \in few(0) |-> 0]
  <2>1. \A s \in few(0) : s = {}
    BY Without
  <2>2. Sums(f, S, 0)
    BY <2>1 DEF Sums
  <2> QED BY <2>2
<1>2. ASSUME NEW n \in T PROVE n + 1 \in T
  <2>1. PICK g : Sums(g, S, n)
    OBVIOUS
  <2> DEFINE f == [s \in few(n + 1) |-> IF s = {} THEN 0 ELSE g[s \ {AnyOf(s)}] + scores[AnyOf(s)]]
  <2>2. \A s \in few(n + 1) : s # {} => /\ s \ {AnyOf(s)} \in few(n)
                                       /\ s \ {AnyOf(s)} \in few(n + 1)
                                       /\ scores[AnyOf(s)] \in Nat
    <3> SUFFICES ASSUME NEW s \in few(n + 1), s # {}
                 PROVE  s \ {AnyOf(s)} \in few(n) /\ s \ {AnyOf(s)} \in few(n + 1) /\ scores[AnyOf(s)] \in Nat
      OBVIOUS
    <3> QED BY Without
  <2>3. \A s \in few(n) : g[s] \in Nat /\ g[s] = IF s = {} THEN 0 ELSE g[s \ {AnyOf(s)}] + scores[AnyOf(s)]
    BY <2>1 DEF Sums
  <2>4. f \in [few(n + 1) -> Nat]
    <3>1. ASSUME NEW s \in few(n + 1), s # {} PROVE g[s \ {AnyOf(s)}] + scores[AnyOf(s)] \in Nat
      <4>1. g[s \ {AnyOf(s)}] \in Nat /\ scores[AnyOf(s)] \in Nat
        BY <2>2, <2>3, <3>1
      <4> QED BY <4>1
    <3> HIDE DEF few
    <3> QED BY <3>1
  <2>5. \A s \in few(n) : s \in few(n + 1) /\ f[s] = g[s]
    <3> SUFFICES ASSUME NEW s \in few(n) PROVE s \in few(n + 1) /\ f[s] = g[s]
      OBVIOUS
    <3>1. Cardinality(s) \in Nat
      BY FS_Subset, FS_CardinalityType DEF Scored
    <3> QED BY <3>1, <2>3
  <2>6. \A s \in few(n + 1) : f[s] = IF s = {} THEN 0 ELSE f[s \ {AnyOf(s)}] + scores[AnyOf(s)]
    BY <2>2, <2>5
  <2>7. Sums(f, S, n + 1)
    BY <2>4, <2>6 DEF Sums
  <2> QED BY <2>7
<1> HIDE DEF T
<1>3. \A n \in Nat : n \in T
  <2>1. T \in SUBSET Nat
    BY DEF T
  <2> QED BY <1>1, <1>2, <2>1, Induct
<1> QED BY <1>3 DEF T

\* ScoreOf is the sum by one choice of pixels after another.
LEMMA ScoreFunIs ==
  ASSUME Scored, NEW S \in SUBSET bitmap
  PROVE  \E f \in [SUBSET S -> Nat] : ScoreFun(f, S) /\ ScoreOf(S) = f[S]
<1>1. IsFiniteSet(S) /\ Cardinality(S) \in Nat
  BY FS_Subset, FS_CardinalityType DEF Scored
<1>2. {s \in SUBSET S : Cardinality(s) <= Cardinality(S)} = SUBSET S
  BY <1>1, FS_Subset
<1>3. PICK g : Sums(g, S, Cardinality(S))
  BY <1>1, SumsExist
<1>4. g \in [SUBSET S -> Nat] /\ ScoreFun(g, S)
  BY <1>2, <1>3 DEF Sums, ScoreFun, AnyOf
<1>5. PICK h : h = CHOOSE f : ScoreFun(f, S)
  OBVIOUS
<1>6. ScoreFun(h, S)
  BY <1>4, <1>5
<1>7. ScoreOf(S) = h[S]
  BY <1>5, ScoreIs
<1>8. h \in [SUBSET S -> Nat]
  <2>1. \A n \in Nat : n \in {m \in Nat : \A s \in SUBSET S : Cardinality(s) = m => h[s] \in Nat}
    <3> DEFINE T == {m \in Nat : \A s \in SUBSET S : Cardinality(s) = m => h[s] \in Nat}
    <3>0. \A s \in SUBSET S : h[s] = IF s = {} THEN 0 ELSE h[s \ {AnyOf(s)}] + scores[AnyOf(s)]
      BY <1>6 DEF ScoreFun, AnyOf
    <3>1. 0 \in T
      <4> SUFFICES ASSUME NEW s \in SUBSET S, Cardinality(s) = 0 PROVE h[s] \in Nat
        OBVIOUS
      <4>1. s = {}
        BY Without
      <4> QED BY <4>1, <3>0
    <3>2. ASSUME NEW m \in T PROVE m + 1 \in T
      <4> SUFFICES ASSUME NEW s \in SUBSET S, Cardinality(s) = m + 1 PROVE h[s] \in Nat
        OBVIOUS
      <4>1. s # {}
        BY FS_EmptySet
      <4>2. Cardinality(s \ {AnyOf(s)}) = m /\ scores[AnyOf(s)] \in Nat
        BY <4>1, Without
      <4>3. h[s \ {AnyOf(s)}] \in Nat
        BY <4>2
      <4>4. h[s] = h[s \ {AnyOf(s)}] + scores[AnyOf(s)]
        BY <4>1, <3>0
      <4> QED BY <4>2, <4>3, <4>4
    <3> HIDE DEF T
    <3>3. \A n \in Nat : n \in T
      <4>1. T \in SUBSET Nat
        BY DEF T
      <4> QED BY <3>1, <3>2, <4>1, Induct
    <3> QED BY <3>3 DEF T
  <2>2. \A s \in SUBSET S : Cardinality(s) \in Nat
    BY FS_Subset, FS_CardinalityType DEF Scored
  <2>3. \A s \in SUBSET S : h[s] \in Nat
    BY <2>1, <2>2
  <2>4. PICK b : h = [s \in SUBSET S |-> b[s]]
    <3>1. h = [s \in SUBSET S |-> [t \in SUBSET S |-> IF t = {} THEN 0
         ELSE h[t \ {CHOOSE x \in t : TRUE}] + scores[CHOOSE x \in t : TRUE]][s]]
      BY <1>6 DEF ScoreFun
    <3> QED BY <3>1
  <2> QED BY <2>3, <2>4
<1> QED BY <1>6, <1>7, <1>8

LEMMA SumsAgree ==
  ASSUME Scored, NEW S \in SUBSET bitmap, NEW T \in SUBSET bitmap,
         NEW f, NEW g, ScoreFun(f, S), ScoreFun(g, T)
  PROVE  \A s \in SUBSET S : s \in SUBSET T => f[s] = g[s]
<1> DEFINE N == {m \in Nat : \A s \in SUBSET S : s \in SUBSET T /\ Cardinality(s) = m => f[s] = g[s]}
<1>0. \A s \in SUBSET S : f[s] = IF s = {} THEN 0 ELSE f[s \ {AnyOf(s)}] + scores[AnyOf(s)]
  BY DEF ScoreFun, AnyOf
<1>1. \A s \in SUBSET T : g[s] = IF s = {} THEN 0 ELSE g[s \ {AnyOf(s)}] + scores[AnyOf(s)]
  BY DEF ScoreFun, AnyOf
<1>2. 0 \in N
  <2> SUFFICES ASSUME NEW s \in SUBSET S, s \in SUBSET T, Cardinality(s) = 0 PROVE f[s] = g[s]
    OBVIOUS
  <2>1. s = {}
    BY Without
  <2> QED BY <2>1, <1>0, <1>1
<1>3. ASSUME NEW m \in N PROVE m + 1 \in N
  <2> SUFFICES ASSUME NEW s \in SUBSET S, s \in SUBSET T, Cardinality(s) = m + 1 PROVE f[s] = g[s]
    OBVIOUS
  <2>1. s # {}
    BY FS_EmptySet
  <2>2. Cardinality(s \ {AnyOf(s)}) = m
    BY <2>1, Without
  <2>3. f[s \ {AnyOf(s)}] = g[s \ {AnyOf(s)}]
    BY <2>2
  <2> QED BY <2>1, <2>3, <1>0, <1>1
<1> HIDE DEF N
<1>4. \A n \in Nat : n \in N
  <2>1. N \in SUBSET Nat
    BY DEF N
  <2> QED BY <1>2, <1>3, <2>1, Induct
<1>5. \A s \in SUBSET S : Cardinality(s) \in Nat
  BY FS_Subset, FS_CardinalityType DEF Scored
<1> QED BY <1>4, <1>5 DEF N

LEMMA ScoreType == ASSUME Scored, NEW S \in SUBSET bitmap PROVE ScoreOf(S) \in Nat
<1>1. PICK f \in [SUBSET S -> Nat] : ScoreOf(S) = f[S]
  BY ScoreFunIs
<1> QED BY <1>1

LEMMA ScoreOfNone == ASSUME Scored PROVE ScoreOf({}) = 0
<1>1. PICK f : ScoreFun(f, {}) /\ ScoreOf({}) = f[{}]
  BY ScoreFunIs
<1>2. f[{}] = 0
  BY <1>1 DEF ScoreFun
<1> QED BY <1>1, <1>2

LEMMA ScoreStep ==
  ASSUME Scored, NEW S \in SUBSET bitmap, S # {}
  PROVE  ScoreOf(S) = ScoreOf(S \ {AnyOf(S)}) + scores[AnyOf(S)]
<1>1. PICK f : ScoreFun(f, S) /\ ScoreOf(S) = f[S]
  BY ScoreFunIs
<1>2. PICK R : R = S \ {AnyOf(S)}
  OBVIOUS
<1>3. PICK g : ScoreFun(g, R) /\ ScoreOf(R) = g[R]
  BY <1>2, ScoreFunIs
<1>4. f[R] = g[R]
  BY <1>1, <1>2, <1>3, SumsAgree
<1>5. f[S] = f[R] + scores[AnyOf(S)]
  BY <1>1, <1>2 DEF ScoreFun, AnyOf
<1> QED BY <1>1, <1>2, <1>3, <1>4, <1>5

\* Which pixel is taken first does not matter.
LEMMA ScoreWithout ==
  ASSUME Scored
  PROVE  \A S \in SUBSET bitmap : \A x \in S : ScoreOf(S) = ScoreOf(S \ {x}) + scores[x]
<1> DEFINE Right1(S) == \A x \in S : ScoreOf(S) = ScoreOf(S \ {x}) + scores[x]
           N == {m \in Nat : \A S \in SUBSET bitmap : Cardinality(S) = m => Right1(S)}
<1>1. 0 \in N
  BY Without
<1>2. ASSUME NEW m \in N PROVE m + 1 \in N
  <2> SUFFICES ASSUME NEW S \in SUBSET bitmap, Cardinality(S) = m + 1, NEW x \in S
               PROVE  ScoreOf(S) = ScoreOf(S \ {x}) + scores[x]
    OBVIOUS
  <2>1. PICK c : c = AnyOf(S)
    OBVIOUS
  <2>2. c \in S /\ scores[c] \in Nat /\ scores[x] \in Nat
    BY <2>1, Without DEF Scored
  <2>3. ScoreOf(S) = ScoreOf(S \ {c}) + scores[c]
    BY <2>1, ScoreStep
  <2>4. CASE x = c
    BY <2>3, <2>4
  <2>5. CASE x # c
    <3>1. Cardinality(S \ {c}) = m /\ Cardinality(S \ {x}) = m
      BY <2>2, Without
    <3>2. ScoreOf(S \ {c}) = ScoreOf((S \ {c}) \ {x}) + scores[x]
      BY <2>5, <3>1
    <3>3. ScoreOf(S \ {x}) = ScoreOf((S \ {x}) \ {c}) + scores[c]
      BY <2>2, <2>5, <3>1
    <3>4. (S \ {x}) \ {c} = (S \ {c}) \ {x}
      OBVIOUS
    <3>5. ScoreOf((S \ {c}) \ {x}) \in Nat
      BY ScoreType
    <3>6. PICK a, b, d : a = ScoreOf((S \ {c}) \ {x}) /\ b = scores[c] /\ d = scores[x]
      OBVIOUS
    <3>7. ScoreOf(S) = (a + d) + b /\ ScoreOf(S \ {x}) = a + b
      BY <2>3, <3>2, <3>3, <3>4, <3>6
    <3>8. a \in Nat /\ b \in Nat /\ d \in Nat
      BY <2>2, <3>5, <3>6
    <3> QED BY <3>6, <3>7, <3>8
  <2> QED BY <2>4, <2>5
<1> HIDE DEF N
<1>3. \A n \in Nat : n \in N
  <2>1. N \in SUBSET Nat
    BY DEF N
  <2> QED BY <1>1, <1>2, <2>1, Induct
<1>4. \A S \in SUBSET bitmap : Cardinality(S) \in Nat
  BY FS_Subset, FS_CardinalityType DEF Scored
<1> QED BY <1>3, <1>4 DEF N

LEMMA ScoreOfBoth ==
  ASSUME Scored, NEW A \in SUBSET bitmap
  PROVE  \A B \in SUBSET bitmap : A \cap B = {} => ScoreOf(A \cup B) = ScoreOf(A) + ScoreOf(B)
<1> DEFINE Right1(B) == A \cap B = {} => ScoreOf(A \cup B) = ScoreOf(A) + ScoreOf(B)
           N == {m \in Nat : \A B \in SUBSET bitmap : Cardinality(B) = m => Right1(B)}
<1>1. 0 \in N
  <2> SUFFICES ASSUME NEW B \in SUBSET bitmap, Cardinality(B) = 0
               PROVE  ScoreOf(A \cup B) = ScoreOf(A) + ScoreOf(B)
    OBVIOUS
  <2>1. B = {} /\ A \cup B = A
    BY Without
  <2> QED BY <2>1, ScoreOfNone, ScoreType
<1>2. ASSUME NEW m \in N PROVE m + 1 \in N
  <2> SUFFICES ASSUME NEW B \in SUBSET bitmap, Cardinality(B) = m + 1, A \cap B = {}
               PROVE  ScoreOf(A \cup B) = ScoreOf(A) + ScoreOf(B)
    OBVIOUS
  <2>1. B # {}
    BY FS_EmptySet
  <2>2. PICK c \in B : TRUE
    BY <2>1
  <2>3. Cardinality(B \ {c}) = m
    BY <2>1, Without
  <2>4. ScoreOf(A \cup (B \ {c})) = ScoreOf(A) + ScoreOf(B \ {c})
    BY <2>3
  <2>5. ScoreOf(B) = ScoreOf(B \ {c}) + scores[c]
    BY ScoreWithout
  <2>6. ScoreOf(A \cup B) = ScoreOf((A \cup B) \ {c}) + scores[c]
    BY ScoreWithout
  <2>7. (A \cup B) \ {c} = A \cup (B \ {c})
    OBVIOUS
  <2>8. ScoreOf(A) \in Nat /\ ScoreOf(B \ {c}) \in Nat /\ scores[c] \in Nat
    BY ScoreType DEF Scored
  <2> QED BY <2>4, <2>5, <2>6, <2>7, <2>8
<1> HIDE DEF N
<1>3. \A n \in Nat : n \in N
  <2>1. N \in SUBSET Nat
    BY DEF N
  <2> QED BY <1>1, <1>2, <2>1, Induct
<1>4. \A S \in SUBSET bitmap : Cardinality(S) \in Nat
  BY FS_Subset, FS_CardinalityType DEF Scored
<1> QED BY <1>3, <1>4 DEF N

-----------------------------------------------------------------------------
\* The box of a set of pixels, put together from the boxes of its parts.

LEMMA LeastIs ==
  ASSUME NEW S \in SUBSET Nat, S # {}
  PROVE  Min(S) \in S /\ \A y \in S : Min(S) <= y
BY LeastOf DEF Min

LEMMA GreatestIs ==
  ASSUME NEW S \in SUBSET Nat, S # {}, NEW b \in Nat, \A y \in S : y <= b
  PROVE  Max(S) \in S /\ \A y \in S : y <= Max(S)
<1> DEFINE T == {b - y : y \in S}
<1>1. T \in SUBSET Nat /\ T # {}
  <2>1. \A y \in S : b - y \in Nat
    OBVIOUS
  <2> QED BY <2>1
<1>2. PICK t \in T : \A u \in T : t <= u
  BY <1>1, LeastOf
<1>3. PICK z \in S : t = b - z
  BY <1>2
<1>4. \A y \in S : y <= z
  <2> SUFFICES ASSUME NEW y \in S PROVE y <= z
    OBVIOUS
  <2>1. b - y \in T
    OBVIOUS
  <2>2. b - z <= b - y
    BY <2>1, <1>2, <1>3
  <2> QED BY <2>2
<1>5. \E x \in S : \A y \in S : x >= y
  BY <1>4
<1> QED BY <1>5 DEF Max

\* The bounds of two sets are those of their union, whichever way they are put together.
Lo(d, S) == Min({d} \cup S)
Hi(d, S) == Max({d} \cup S)
Lower(a, b) == Min({a, b})
Higher(a, b) == Max({a, b})

LEMMA LoIs ==
  ASSUME NEW d \in Nat, NEW S \in SUBSET Nat
  PROVE  Lo(d, S) \in Nat /\ Lo(d, S) \in {d} \cup S /\ Lo(d, S) <= d /\ \A y \in S : Lo(d, S) <= y
<1>1. PICK T : T = {d} \cup S
  OBVIOUS
<1>2. T \in SUBSET Nat /\ T # {}
  BY <1>1
<1>3. PICK t : t = Min(T)
  OBVIOUS
<1>4. t \in T /\ \A y \in T : t <= y
  BY <1>2, <1>3, LeastIs
<1>5. Lo(d, S) = t
  BY <1>1, <1>3 DEF Lo
<1> QED BY <1>1, <1>2, <1>4, <1>5

LEMMA HiIs ==
  ASSUME NEW m \in Nat, NEW d \in 0 .. m, NEW S \in SUBSET (0 .. m)
  PROVE  Hi(d, S) \in 0 .. m /\ Hi(d, S) \in {d} \cup S /\ d <= Hi(d, S) /\ \A y \in S : y <= Hi(d, S)
<1>1. PICK T : T = {d} \cup S
  OBVIOUS
<1>2. T \in SUBSET Nat /\ T # {} /\ \A y \in T : y <= m
  BY <1>1
<1>3. PICK t : t = Max(T)
  OBVIOUS
<1>4. t \in T /\ \A y \in T : y <= t
  BY <1>2, <1>3, GreatestIs
<1>5. Hi(d, S) = t
  BY <1>1, <1>3 DEF Hi
<1> QED BY <1>1, <1>2, <1>4, <1>5

LEMMA LowerIs ==
  ASSUME NEW a \in Nat, NEW b \in Nat
  PROVE  (Lower(a, b) = a \/ Lower(a, b) = b) /\ Lower(a, b) <= a /\ Lower(a, b) <= b
<1>1. PICK T : T = {a, b}
  OBVIOUS
<1>2. T \in SUBSET Nat /\ T # {}
  BY <1>1
<1>3. PICK t : t = Min(T)
  OBVIOUS
<1>4. t \in T /\ \A y \in T : t <= y
  BY <1>2, <1>3, LeastIs
<1>5. Lower(a, b) = t
  BY <1>1, <1>3 DEF Lower
<1> QED BY <1>1, <1>4, <1>5

LEMMA HigherIs ==
  ASSUME NEW m \in Nat, NEW a \in 0 .. m, NEW b \in 0 .. m
  PROVE  (Higher(a, b) = a \/ Higher(a, b) = b) /\ a <= Higher(a, b) /\ b <= Higher(a, b)
<1>1. PICK T : T = {a, b}
  OBVIOUS
<1>2. T \in SUBSET Nat /\ T # {} /\ \A y \in T : y <= m
  BY <1>1
<1>3. PICK t : t = Max(T)
  OBVIOUS
<1>4. t \in T /\ \A y \in T : y <= t
  BY <1>2, <1>3, GreatestIs
<1>5. Higher(a, b) = t
  BY <1>1, <1>3 DEF Higher
<1> QED BY <1>1, <1>4, <1>5

LEMMA LoOfBoth ==
  ASSUME NEW d \in Nat, NEW A \in SUBSET Nat, NEW B \in SUBSET Nat
  PROVE  Lo(Lo(d, A), B) = Lo(d, A \cup B) /\ Lower(Lo(d, A), Lo(d, B)) = Lo(d, A \cup B)
<1>1. PICK C : C = A \cup B
  OBVIOUS
<1>2. C \in SUBSET Nat /\ \A y : y \in C <=> y \in A \/ y \in B
  BY <1>1
<1>3. PICK a, b, c : a = Lo(d, A) /\ b = Lo(d, B) /\ c = Lo(d, C)
  OBVIOUS
<1>4. a \in Nat /\ a \in {d} \cup A /\ a <= d /\ \A y \in A : a <= y
  BY <1>3, LoIs
<1>5. b \in Nat /\ b \in {d} \cup B /\ b <= d /\ \A y \in B : b <= y
  BY <1>3, LoIs
<1>6. c \in Nat /\ c \in {d} \cup C /\ c <= d /\ \A y \in C : c <= y
  BY <1>2, <1>3, LoIs
<1>7. PICK e, g : e = Lo(a, B) /\ g = Lower(a, b)
  OBVIOUS
<1>8. e \in Nat /\ e \in {a} \cup B /\ e <= a /\ \A y \in B : e <= y
  BY <1>4, <1>7, LoIs
<1>9. (g = a \/ g = b) /\ g <= a /\ g <= b
  BY <1>4, <1>5, <1>7, LowerIs
<1>10. e = c
  <2>1. c <= e
    BY <1>2, <1>4, <1>6, <1>8
  <2>2. e <= c
    BY <1>2, <1>4, <1>6, <1>8
  <2> QED BY <2>1, <2>2, <1>6, <1>8
<1>11. g = c
  <2>1. c <= g
    BY <1>2, <1>4, <1>5, <1>6, <1>9
  <2>2. g <= c
    BY <1>2, <1>4, <1>5, <1>6, <1>9
  <2>3. g \in Nat
    BY <1>4, <1>5, <1>9
  <2> QED BY <2>1, <2>2, <2>3, <1>6
<1> QED BY <1>1, <1>3, <1>7, <1>10, <1>11

LEMMA HiOfBoth ==
  ASSUME NEW m \in Nat, NEW A \in SUBSET (0 .. m), NEW B \in SUBSET (0 .. m)
  PROVE  Hi(Hi(0, A), B) = Hi(0, A \cup B) /\ Higher(Hi(0, A), Hi(0, B)) = Hi(0, A \cup B)
<1>1. PICK C : C = A \cup B
  OBVIOUS
<1>2. C \in SUBSET (0 .. m) /\ \A y : y \in C <=> y \in A \/ y \in B
  BY <1>1
<1>3. PICK a, b, c : a = Hi(0, A) /\ b = Hi(0, B) /\ c = Hi(0, C)
  OBVIOUS
<1> USE 0 \in 0 .. m
<1>4. a \in 0 .. m /\ a \in {0} \cup A /\ \A y \in A : y <= a
  BY <1>3, HiIs
<1>5. b \in 0 .. m /\ b \in {0} \cup B /\ \A y \in B : y <= b
  BY <1>3, HiIs
<1>6. c \in 0 .. m /\ c \in {0} \cup C /\ \A y \in C : y <= c
  BY <1>2, <1>3, HiIs
<1>7. PICK e, g : e = Hi(a, B) /\ g = Higher(a, b)
  OBVIOUS
<1>8. e \in 0 .. m /\ e \in {a} \cup B /\ a <= e /\ \A y \in B : y <= e
  BY <1>4, <1>7, HiIs
<1>9. (g = a \/ g = b) /\ a <= g /\ b <= g
  BY <1>4, <1>5, <1>7, HigherIs
<1>10. e = c
  <2>1. e <= c
    BY <1>2, <1>4, <1>6, <1>8
  <2>2. c <= e
    BY <1>2, <1>4, <1>6, <1>8
  <2> QED BY <2>1, <2>2, <1>6, <1>8
<1>11. g = c
  <2>1. g <= c
    BY <1>2, <1>4, <1>5, <1>6, <1>9
  <2>2. c <= g
    BY <1>2, <1>4, <1>5, <1>6, <1>9
  <2>3. g \in 0 .. m
    BY <1>4, <1>5, <1>9
  <2> QED BY <2>1, <2>2, <2>3, <1>6
<1> QED BY <1>1, <1>3, <1>7, <1>10, <1>11

\* A box, and that of a set of pixels.
BoxType == [xmin : Nat, ymin : Nat, xmax : Nat, ymax : Nat, count : Nat, score : Nat]
BoxOf(ps) ==
  [xmin |-> Lo(W + H, {p[1] : p \in ps}), ymin |-> Lo(W + H, {p[2] : p \in ps}),
   xmax |-> Hi(0, {p[1] : p \in ps}), ymax |-> Hi(0, {p[2] : p \in ps}),
   count |-> Cardinality(ps), score |-> ScoreOf(ps)]
OnImage == bitmap \in SUBSET Image /\ scores \in [bitmap -> Nat]

LEMMA ImageFinite == IsFiniteSet(Image) /\ IsFiniteSet(0 .. W + H)
<1>1. IsFiniteSet(0 .. W - 1) /\ IsFiniteSet(0 .. H - 1) /\ IsFiniteSet(0 .. W + H)
  BY GridAssumption, FS_Interval
<1> QED BY <1>1, FS_Product DEF Image

LEMMA CoordinatesFit ==
  ASSUME OnImage, NEW ps \in SUBSET bitmap
  PROVE  /\ {p[1] : p \in ps} \in SUBSET (0 .. W + H) /\ {p[2] : p \in ps} \in SUBSET (0 .. W + H)
         /\ {p[1] : p \in ps} \in SUBSET Nat /\ {p[2] : p \in ps} \in SUBSET Nat
         /\ Scored /\ Cardinality(ps) \in Nat /\ ScoreOf(ps) \in Nat /\ IsFiniteSet(ps)
<1>1. \A p \in ps : p[1] \in 0 .. W + H /\ p[2] \in 0 .. W + H
  BY GridAssumption DEF OnImage, Image
<1>2. Scored
  BY ImageFinite, FS_Subset DEF OnImage, Scored
<1>3. IsFiniteSet(ps)
  BY <1>2, FS_Subset DEF Scored
<1> QED BY <1>1, <1>2, <1>3, ScoreType, FS_CardinalityType, GridAssumption

LEMMA BoxOfType == ASSUME OnImage, NEW ps \in SUBSET bitmap PROVE BoxOf(ps) \in BoxType
<1>1. PICK d, xs, ys : d = W + H /\ xs = {p[1] : p \in ps} /\ ys = {p[2] : p \in ps}
  OBVIOUS
<1>2. d \in Nat /\ 0 \in 0 .. d
  BY <1>1, GridAssumption
<1>3. /\ xs \in SUBSET Nat /\ ys \in SUBSET Nat
      /\ xs \in SUBSET (0 .. d) /\ ys \in SUBSET (0 .. d)
  BY <1>1, CoordinatesFit
<1>4. Lo(d, xs) \in Nat /\ Lo(d, ys) \in Nat
  BY <1>2, <1>3, LoIs
<1>5. Hi(0, xs) \in 0 .. d /\ Hi(0, ys) \in 0 .. d
  BY <1>2, <1>3, HiIs
<1>6. Hi(0, xs) \in Nat /\ Hi(0, ys) \in Nat
  BY <1>2, <1>5
<1>7. Cardinality(ps) \in Nat /\ ScoreOf(ps) \in Nat
  BY CoordinatesFit
<1> QED BY <1>1, <1>4, <1>6, <1>7 DEF BoxOf, BoxType

\* A thread block adds its pixels to a box, or to the empty one and then that to the box:
\* it comes to the same.
LEMMA BoxOfBoth ==
  ASSUME OnImage, NEW A \in SUBSET bitmap, NEW B \in SUBSET bitmap, A \cap B = {}, B # {}
  PROVE  /\ Accumulate(BoxOf(A), B) = BoxOf(A \cup B)
         /\ Flush(BoxOf(A), BoxOf(B)) = BoxOf(A \cup B)
<1>1. PICK d : d = W + H
  OBVIOUS
<1>2. PICK ax, bx, ay, by :
        /\ ax = {p[1] : p \in A} /\ bx = {p[1] : p \in B}
        /\ ay = {p[2] : p \in A} /\ by = {p[2] : p \in B}
  OBVIOUS
<1>3. Cardinality(A \cup B) = Cardinality(A) + Cardinality(B)
  <2>1. IsFiniteSet(A) /\ IsFiniteSet(B) /\ Cardinality(A) \in Nat /\ Cardinality(B) \in Nat
    BY CoordinatesFit
  <2>2. Cardinality(A \cup B) = Cardinality(A) + Cardinality(B) - Cardinality(A \cap B)
    BY <2>1, FS_Union
  <2>3. Cardinality(A \cap B) = 0
    BY FS_EmptySet
  <2> QED BY <2>1, <2>2, <2>3
<1>4. ScoreOf(A \cup B) = ScoreOf(A) + ScoreOf(B)
  BY CoordinatesFit, ScoreOfBoth
<1>5. Cardinality(B) # 0
  BY CoordinatesFit, FS_EmptySet
<1>6. /\ ax \in SUBSET (0 .. d) /\ bx \in SUBSET (0 .. d) /\ ay \in SUBSET (0 .. d) /\ by \in SUBSET (0 .. d)
      /\ d \in Nat
  <2>1. d \in Nat
    BY <1>1, GridAssumption
  <2>2. /\ {p[1] : p \in A} \in SUBSET (0 .. W + H) /\ {p[2] : p \in A} \in SUBSET (0 .. W + H)
        /\ {p[1] : p \in B} \in SUBSET (0 .. W + H) /\ {p[2] : p \in B} \in SUBSET (0 .. W + H)
    BY CoordinatesFit
  <2> QED BY <1>1, <1>2, <2>1, <2>2
<1>7. /\ ax \in SUBSET Nat /\ bx \in SUBSET Nat /\ ay \in SUBSET Nat /\ by \in SUBSET Nat
  BY <1>6
<1>8. /\ {p[1] : p \in A \cup B} = ax \cup bx
      /\ {p[2] : p \in A \cup B} = ay \cup by
  BY <1>2
<1>9. PICK la, lb, lc : /\ la = Lo(d, ax) /\ lb = Lo(d, bx) /\ lc = Lo(d, ax \cup bx)
                        /\ Lo(la, bx) = lc /\ Lower(la, lb) = lc
  <2>1. Lo(Lo(d, ax), bx) = Lo(d, ax \cup bx)
    BY <1>6, <1>7, LoOfBoth
  <2>2. Lower(Lo(d, ax), Lo(d, bx)) = Lo(d, ax \cup bx)
    BY <1>6, <1>7, LoOfBoth
  <2> QED BY <2>1, <2>2, Zenon
<1>10. PICK ka, kb, kc : /\ ka = Lo(d, ay) /\ kb = Lo(d, by) /\ kc = Lo(d, ay \cup by)
                        /\ Lo(ka, by) = kc /\ Lower(ka, kb) = kc
  <2>1. Lo(Lo(d, ay), by) = Lo(d, ay \cup by)
    BY <1>6, <1>7, LoOfBoth
  <2>2. Lower(Lo(d, ay), Lo(d, by)) = Lo(d, ay \cup by)
    BY <1>6, <1>7, LoOfBoth
  <2> QED BY <2>1, <2>2, Zenon
<1>11. PICK ha, hb, hc : /\ ha = Hi(0, ax) /\ hb = Hi(0, bx) /\ hc = Hi(0, ax \cup bx)
                        /\ Hi(ha, bx) = hc /\ Higher(ha, hb) = hc
  <2>1. Hi(Hi(0, ax), bx) = Hi(0, ax \cup bx)
    BY <1>6, HiOfBoth
  <2>2. Higher(Hi(0, ax), Hi(0, bx)) = Hi(0, ax \cup bx)
    BY <1>6, HiOfBoth
  <2> QED BY <2>1, <2>2, Zenon
<1>12. PICK ga, gb, gc : /\ ga = Hi(0, ay) /\ gb = Hi(0, by) /\ gc = Hi(0, ay \cup by)
                        /\ Hi(ga, by) = gc /\ Higher(ga, gb) = gc
  <2>1. Hi(Hi(0, ay), by) = Hi(0, ay \cup by)
    BY <1>6, HiOfBoth
  <2>2. Higher(Hi(0, ay), Hi(0, by)) = Hi(0, ay \cup by)
    BY <1>6, HiOfBoth
  <2> QED BY <2>1, <2>2, Zenon
<1>15. PICK na, nb, sa, sb : /\ na = Cardinality(A) /\ nb = Cardinality(B)
                            /\ sa = ScoreOf(A) /\ sb = ScoreOf(B)
  OBVIOUS
<1>16. BoxOf(A) = [xmin |-> la, ymin |-> ka, xmax |-> ha, ymax |-> ga, count |-> na, score |-> sa]
  BY <1>1, <1>2, <1>9, <1>10, <1>11, <1>12, <1>15, Zenon DEF BoxOf
<1>17. BoxOf(B) = [xmin |-> lb, ymin |-> kb, xmax |-> hb, ymax |-> gb, count |-> nb, score |-> sb]
  BY <1>1, <1>2, <1>9, <1>10, <1>11, <1>12, <1>15, Zenon DEF BoxOf
<1>18. BoxOf(A \cup B) = [xmin |-> lc, ymin |-> kc, xmax |-> hc, ymax |-> gc, count |-> na + nb, score |-> sa + sb]
  BY <1>1, <1>3, <1>4, <1>8, <1>9, <1>10, <1>11, <1>12, <1>15, Zenon DEF BoxOf
<1>19. PICK a : a = BoxOf(A)
  OBVIOUS
<1>20. a.xmin = la /\ a.ymin = ka /\ a.xmax = ha /\ a.ymax = ga /\ a.count = na /\ a.score = sa
  BY <1>16, <1>19
<1>21. Accumulate(a, B) =
         [xmin |-> Lo(a.xmin, bx), ymin |-> Lo(a.ymin, by),
          xmax |-> Hi(a.xmax, bx), ymax |-> Hi(a.ymax, by),
          count |-> a.count + nb, score |-> a.score + sb]
  BY <1>2, <1>15, Zenon DEF Accumulate, Lo, Hi
<1>22. Accumulate(a, B) = BoxOf(A \cup B)
  BY <1>9, <1>10, <1>11, <1>12, <1>18, <1>20, <1>21, Zenon
<1>23. PICK b : b = BoxOf(B)
  OBVIOUS
<1>24. b.xmin = lb /\ b.ymin = kb /\ b.xmax = hb /\ b.ymax = gb /\ b.count = nb /\ b.score = sb
  BY <1>17, <1>23
<1>25. Flush(a, b) =
         [xmin |-> Lower(a.xmin, b.xmin), ymin |-> Lower(a.ymin, b.ymin),
          xmax |-> Higher(a.xmax, b.xmax), ymax |-> Higher(a.ymax, b.ymax),
          count |-> a.count + b.count, score |-> a.score + b.score]
  BY <1>5, <1>15, <1>24, Zenon DEF Flush, Lower, Higher
<1>26. Flush(a, b) = BoxOf(A \cup B)
  BY <1>9, <1>10, <1>11, <1>12, <1>18, <1>20, <1>24, <1>25, Zenon
<1> QED BY <1>19, <1>22, <1>23, <1>26

LEMMA BoxOfNone == ASSUME OnImage PROVE BoxOf({}) = NoBox
<1>1. Min({W + H}) = W + H /\ Max({0}) = 0
  BY DEF Min, Max
<1>2. Lo(W + H, {}) = W + H /\ Hi(0, {}) = 0
  BY <1>1 DEF Lo, Hi
<1>3. ScoreOf({}) = 0 /\ Cardinality({}) = 0
  BY CoordinatesFit, ScoreOfNone, FS_EmptySet
<1> QED BY <1>2, <1>3 DEF BoxOf, NoBox

LEMMA AccumulatedIs ==
  ASSUME OnImage, NEW ps \in SUBSET bitmap
  PROVE  Accumulate(NoBox, ps) = BoxOf(ps)
<1>1. CASE ps = {}
  BY <1>1, BoxOfNone DEF Accumulate
<1>2. CASE ps # {}
  <2>1. Accumulate(BoxOf({}), ps) = BoxOf({} \cup ps)
    BY <1>2, BoxOfBoth
  <2> QED BY <2>1, BoxOfNone
<1> QED BY <1>1, <1>2

\* What one thread block does to the box of a component.
LEMMA BoxGrows ==
  ASSUME OnImage, NEW A \in SUBSET bitmap, NEW B \in SUBSET bitmap, A \cap B = {}
  PROVE  /\ Accumulate(BoxOf(A), B) = BoxOf(A \cup B)
         /\ Flush(BoxOf(A), Accumulate(NoBox, B)) = BoxOf(A \cup B)
<1>1. CASE B = {}
  <2>1. A \cup B = A
    BY <1>1
  <2> QED BY <1>1, <2>1, BoxOfNone, AccumulatedIs DEF Accumulate, Flush, NoBox
<1>2. CASE B # {}
  BY <1>2, BoxOfBoth, AccumulatedIs
<1> QED BY <1>1, <1>2

-----------------------------------------------------------------------------
\* The blocks of pixels: where each lies.

LEMMA Sizes ==
  /\ W \in Nat \ {0} /\ H \in Nat \ {0} /\ BlocksWide \in Nat \ {0} /\ BlocksHigh \in Nat \ {0}
  /\ NumBlocks = BlocksHigh * BlocksWide /\ NumBlocks \in Nat \ {0}
  /\ W <= 2 * BlocksWide /\ 2 * BlocksWide <= W + 1
  /\ H <= 2 * BlocksHigh /\ 2 * BlocksHigh <= H + 1
<1>1. W \in Nat \ {0} /\ H \in Nat \ {0} /\ NumBlocks = BlocksWide * BlocksHigh
  BY GridAssumption
<1>2. /\ (W + 1) \div 2 \in Nat \ {0} /\ W <= 2 * ((W + 1) \div 2) /\ 2 * ((W + 1) \div 2) <= W + 1
      /\ (H + 1) \div 2 \in Nat \ {0} /\ H <= 2 * ((H + 1) \div 2) /\ 2 * ((H + 1) \div 2) <= H + 1
  BY <1>1
<1>3. PICK b, h : b = BlocksWide /\ h = BlocksHigh
  OBVIOUS
<1>4. b \in Nat \ {0} /\ h \in Nat \ {0}
  BY <1>2, <1>3 DEF BlocksWide, BlocksHigh
<1>5. b * h = h * b
  BY <1>4
<1> QED BY <1>1, <1>2, <1>3, <1>4, <1>5, NumBlocksAssumption DEF BlocksWide, BlocksHigh

\* Where a block lies.
LEMMA BlockAt ==
  ASSUME NEW c \in 0 .. BlocksWide - 1, NEW r \in 0 .. BlocksHigh - 1
  PROVE  /\ r * BlocksWide + c \in Blocks
         /\ Column(r * BlocksWide + c) = c /\ Row(r * BlocksWide + c) = r
<1>1. PICK b, h : b = BlocksWide /\ h = BlocksHigh
  OBVIOUS
<1>2. b \in Nat \ {0} /\ h \in Nat \ {0} /\ c \in 0 .. b - 1 /\ r \in 0 .. h - 1
      /\ NumBlocks = h * b
  BY <1>1, Sizes
<1>3. r * b + c = b * r + c
  BY <1>2
<1>4. (b * r + c) \div b = r /\ (b * r + c) % b = c
  <2>1. r \in Nat
    BY <1>2
  <2> QED BY <1>2, <2>1, DivModIs
<1>5. r * b + c \in 0 .. h * b - 1
  <2>1. r * b <= (h - 1) * b /\ 0 <= r * b /\ r * b \in Nat /\ h * b \in Nat
    BY <1>2
  <2>2. (h - 1) * b = h * b - b
    BY <1>2
  <2> QED BY <1>2, <2>1, <2>2
<1> QED BY <1>1, <1>2, <1>3, <1>4, <1>5 DEF Blocks, Column, Row

LEMMA BlockPlace ==
  ASSUME NEW n \in Blocks
  PROVE  /\ Column(n) \in 0 .. BlocksWide - 1 /\ Row(n) \in 0 .. BlocksHigh - 1
         /\ n = Row(n) * BlocksWide + Column(n)
<1>1. PICK b, h, d, m : b = BlocksWide /\ h = BlocksHigh /\ d = n \div b /\ m = n % b
  OBVIOUS
<1>2. b \in Nat \ {0} /\ h \in Nat \ {0} /\ NumBlocks = h * b /\ n \in Nat /\ n < h * b
  BY <1>1, Sizes DEF Blocks
<1>3. d \in Nat /\ m \in 0 .. b - 1 /\ n = b * d + m
  BY <1>1, <1>2, DivMod
<1>4. d < h
  <2> SUFFICES ASSUME d >= h PROVE FALSE
    BY <1>2, <1>3
  <2>1. b * d >= b * h /\ b * h = h * b /\ b * d \in Nat /\ b * h \in Nat
    BY <1>2, <1>3
  <2> QED BY <1>2, <1>3, <2>1
<1>5. n = d * b + m
  BY <1>2, <1>3
<1> QED BY <1>1, <1>2, <1>3, <1>4, <1>5 DEF Column, Row

\* The block of a pixel, and the pixels of a block.
LEMMA PixelIn ==
  ASSUME NEW c \in 0 .. BlocksWide - 1, NEW r \in 0 .. BlocksHigh - 1,
         NEW i \in {2 * c, 2 * c + 1}, NEW j \in {2 * r, 2 * r + 1}
  PROVE  BlockOf(<<i, j>>) = r * BlocksWide + c
<1>1. c \in Nat /\ r \in Nat
  BY Sizes
<1>2. i \div 2 = c /\ j \div 2 = r
  BY <1>1
<1> QED BY <1>2 DEF BlockOf

LEMMA PlaceOf ==
  ASSUME NEW p \in Image
  PROVE  \E c \in 0 .. BlocksWide - 1, r \in 0 .. BlocksHigh - 1 :
           /\ BlockOf(p) = r * BlocksWide + c
           /\ p[1] \in {2 * c, 2 * c + 1} /\ p[2] \in {2 * r, 2 * r + 1}
<1>1. PICK c, r : c = p[1] \div 2 /\ r = p[2] \div 2
  OBVIOUS
<1>2. p[1] \in Nat /\ p[2] \in Nat /\ p[1] <= W - 1 /\ p[2] <= H - 1
  BY Sizes DEF Image
<1>3. c \in Nat /\ r \in Nat /\ p[1] \in {2 * c, 2 * c + 1} /\ p[2] \in {2 * r, 2 * r + 1}
  BY <1>1, <1>2
<1>4. c <= BlocksWide - 1 /\ r <= BlocksHigh - 1
  BY <1>2, <1>3, Sizes
<1>5. BlockOf(p) = r * BlocksWide + c
  BY <1>1 DEF BlockOf
<1> QED BY <1>3, <1>4, <1>5, Sizes

LEMMA BlockOfType == \A p \in Image : BlockOf(p) \in Blocks
BY PlaceOf, BlockAt, Zenon

-----------------------------------------------------------------------------
\* What TouchingOf finds.

Values(s) == {s[i] : i \in DOMAIN s}
LEMMA ThenWhen ==
  ASSUME NEW T, NEW s \in Seq(T), NEW condition, NEW n \in T
  PROVE  /\ s \o When(condition, n) \in Seq(T)
         /\ Values(s \o When(condition, n)) = IF condition THEN Values(s) \cup {n} ELSE Values(s)
<1>1. CASE condition
  <2>1. PICK u : u = s \o <<n>>
    OBVIOUS
  <2>2. u \in Seq(T) /\ Len(u) = Len(s) + 1 /\ u[Len(s) + 1] = n /\ \A i \in 1 .. Len(s) : u[i] = s[i]
    BY <2>1
  <2>3. Len(s) \in Nat /\ DOMAIN s = 1 .. Len(s) /\ DOMAIN u = 1 .. Len(s) + 1
    BY <2>2
  <2>4. \A m : m \in Values(u) <=> m \in Values(s) \/ m = n
    <3>1. ASSUME NEW m \in Values(u) PROVE m \in Values(s) \/ m = n
      <4>1. PICK i \in DOMAIN u : u[i] = m
        BY DEF Values
      <4>2. i \in 1 .. Len(s) \/ i = Len(s) + 1
        BY <2>3
      <4> QED BY <2>2, <2>3, <4>1, <4>2 DEF Values
    <3>2. ASSUME NEW m \in Values(s) PROVE m \in Values(u)
      <4>1. PICK i \in DOMAIN s : s[i] = m
        BY DEF Values
      <4> QED BY <2>2, <2>3, <4>1 DEF Values
    <3>3. n \in Values(u)
      <4>1. Len(s) + 1 \in DOMAIN u
        BY <2>3
      <4> QED BY <2>2, <4>1 DEF Values
    <3> QED BY <3>1, <3>2, <3>3
  <2> QED BY <1>1, <2>1, <2>2, <2>4 DEF When
<1>2. CASE ~ condition
  <2>1. s \o <<>> = s
    OBVIOUS
  <2> QED BY <1>2, <2>1 DEF When
<1> QED BY <1>1, <1>2

\* What of a block may touch the block before it, above or beside.
North(map, c, r) ==
  /\ r > 0 /\ (<<2 * c, 2 * r>> \in map \/ <<2 * c + 1, 2 * r>> \in map)
  /\ <<2 * c, 2 * r - 1>> \in map \/ <<2 * c + 1, 2 * r - 1>> \in map
NorthWest(map, c, r) == r > 0 /\ c > 0 /\ <<2 * c, 2 * r>> \in map /\ <<2 * c - 1, 2 * r - 1>> \in map
NorthEast(map, c, r) ==
  r > 0 /\ c + 1 < BlocksWide /\ <<2 * c + 1, 2 * r>> \in map /\ <<2 * c + 2, 2 * r - 1>> \in map
West(map, c, r) ==
  /\ c > 0 /\ (<<2 * c, 2 * r>> \in map \/ <<2 * c, 2 * r + 1>> \in map)
  /\ <<2 * c - 1, 2 * r>> \in map \/ <<2 * c - 1, 2 * r + 1>> \in map

LEMMA TouchingIs ==
  ASSUME NEW map, NEW n \in Blocks, NEW c, NEW r, c = Column(n), r = Row(n)
  PROVE  /\ TouchingOf(map)[n] \in Seq(Int)
         /\ \A m : m \in Values(TouchingOf(map)[n]) <=>
              \/ North(map, c, r) /\ m = n - BlocksWide
              \/ NorthWest(map, c, r) /\ m = n - BlocksWide - 1
              \/ NorthEast(map, c, r) /\ m = n - BlocksWide + 1
              \/ West(map, c, r) /\ m = n - 1
<1>1. n \in Int /\ BlocksWide \in Int
  BY Sizes DEF Blocks
<1>2. PICK m1, m2, m3, m4 :
        m1 = n - BlocksWide /\ m2 = n - BlocksWide - 1 /\ m3 = n - BlocksWide + 1 /\ m4 = n - 1
  OBVIOUS
<1>3. m1 \in Int /\ m2 \in Int /\ m3 \in Int /\ m4 \in Int
  BY <1>1, <1>2
<1>4. PICK s1 : s1 = When(North(map, c, r), m1)
  OBVIOUS
<1>5. PICK s2 : s2 = s1 \o When(NorthWest(map, c, r), m2)
  OBVIOUS
<1>6. PICK s3 : s3 = s2 \o When(NorthEast(map, c, r), m3)
  OBVIOUS
<1>7. PICK s4 : s4 = s3 \o When(West(map, c, r), m4)
  OBVIOUS
<1>8. TouchingOf(map)[n] = s4
  BY <1>2, <1>4, <1>5, <1>6, <1>7, Zenon DEF TouchingOf, North, NorthWest, NorthEast, West
<1>9. s1 \in Seq(Int) /\ Values(s1) = IF North(map, c, r) THEN {m1} ELSE {}
  BY <1>3, <1>4 DEF When, Values
<1>10. /\ s2 \in Seq(Int)
       /\ Values(s2) = IF NorthWest(map, c, r) THEN Values(s1) \cup {m2} ELSE Values(s1)
  <2>1. s1 \o When(NorthWest(map, c, r), m2) \in Seq(Int)
    BY <1>3, <1>5, <1>9, ThenWhen
  <2>2. Values(s1 \o When(NorthWest(map, c, r), m2)) = IF NorthWest(map, c, r) THEN Values(s1) \cup {m2} ELSE Values(s1)
    BY <1>3, <1>5, <1>9, ThenWhen
  <2> QED BY <2>1, <2>2, <1>3, <1>5, <1>9, Zenon
<1>11. /\ s3 \in Seq(Int)
       /\ Values(s3) = IF NorthEast(map, c, r) THEN Values(s2) \cup {m3} ELSE Values(s2)
  <2>1. s2 \o When(NorthEast(map, c, r), m3) \in Seq(Int)
    BY <1>3, <1>6, <1>10, ThenWhen
  <2>2. Values(s2 \o When(NorthEast(map, c, r), m3)) = IF NorthEast(map, c, r) THEN Values(s2) \cup {m3} ELSE Values(s2)
    BY <1>3, <1>6, <1>10, ThenWhen
  <2> QED BY <2>1, <2>2, <1>3, <1>6, <1>10, Zenon
<1>12. /\ s4 \in Seq(Int)
       /\ Values(s4) = IF West(map, c, r) THEN Values(s3) \cup {m4} ELSE Values(s3)
  <2>1. s3 \o When(West(map, c, r), m4) \in Seq(Int)
    BY <1>3, <1>7, <1>11, ThenWhen
  <2>2. Values(s3 \o When(West(map, c, r), m4)) = IF West(map, c, r) THEN Values(s3) \cup {m4} ELSE Values(s3)
    BY <1>3, <1>7, <1>11, ThenWhen
  <2> QED BY <2>1, <2>2, <1>3, <1>7, <1>11, Zenon
<1> QED BY <1>2, <1>8, <1>9, <1>10, <1>11, <1>12, Zenon

LEMMA RowAbove ==
  ASSUME NEW r \in Nat \ {0}, NEW c
  PROVE  (r - 1) * BlocksWide = r * BlocksWide - BlocksWide /\ r * BlocksWide \in Nat /\ BlocksWide \in Nat \ {0}
<1>1. PICK b : b = BlocksWide
  OBVIOUS
<1>2. b \in Nat \ {0}
  BY <1>1, Sizes
<1>3. (r - 1) * b = r * b - b /\ r * b \in Nat
  BY <1>2
<1> QED BY <1>1, <1>2, <1>3

\* Two touching pixels, the second in a block before the first's.
LEMMA TouchBack ==
  ASSUME NEW map \in SUBSET Image, NEW p \in map, NEW q \in map, Touch8(p, q),
         NEW c \in 0 .. BlocksWide - 1, NEW r \in 0 .. BlocksHigh - 1,
         NEW c2 \in 0 .. BlocksWide - 1, NEW r2 \in 0 .. BlocksHigh - 1,
         BlockOf(p) = r * BlocksWide + c, BlockOf(q) = r2 * BlocksWide + c2,
         p[1] \in {2 * c, 2 * c + 1}, p[2] \in {2 * r, 2 * r + 1},
         q[1] \in {2 * c2, 2 * c2 + 1}, q[2] \in {2 * r2, 2 * r2 + 1},
         r2 = r - 1 \/ (r2 = r /\ c2 = c - 1)
  PROVE  BlockOf(q) \in Values(TouchingOf(map)[BlockOf(p)])
<1>1. p = <<p[1], p[2]>> /\ q = <<q[1], q[2]>>
  BY DEF Image
<1>2. PICK i, j, k, l : i = p[1] /\ j = p[2] /\ k = q[1] /\ l = q[2]
  OBVIOUS
<1>3. <<i, j>> \in map /\ <<k, l>> \in map
  BY <1>1, <1>2
<1>4. c \in Nat /\ r \in Nat /\ c2 \in Nat /\ r2 \in Nat /\ BlocksWide \in Nat \ {0}
  BY Sizes
<1>5. /\ i \in {2 * c, 2 * c + 1} /\ j \in {2 * r, 2 * r + 1}
      /\ k \in {2 * c2, 2 * c2 + 1} /\ l \in {2 * r2, 2 * r2 + 1}
      /\ i - k \in -1 .. 1 /\ j - l \in -1 .. 1
  BY <1>2 DEF Touch8
<1>6. i \in Int /\ j \in Int /\ k \in Int /\ l \in Int
  BY <1>4, <1>5
<1>7. c2 \in {c - 1, c, c + 1}
  BY <1>4, <1>5, <1>6
<1>8. PICK n : n = BlockOf(p)
  OBVIOUS
<1>9. n \in Blocks /\ Column(n) = c /\ Row(n) = r
  BY <1>8, BlockAt
<1>10. ASSUME NEW m, \/ North(map, c, r) /\ m = n - BlocksWide
                     \/ NorthWest(map, c, r) /\ m = n - BlocksWide - 1
                     \/ NorthEast(map, c, r) /\ m = n - BlocksWide + 1
                     \/ West(map, c, r) /\ m = n - 1
       PROVE  m \in Values(TouchingOf(map)[n])
  BY <1>9, <1>10, TouchingIs
<1>11. CASE r2 = r - 1
  <2>1. r \in Nat \ {0} /\ r > 0
    BY <1>4, <1>11
  <2>2. BlockOf(q) = r * BlocksWide - BlocksWide + c2 /\ r * BlocksWide \in Nat
    BY <1>11, <2>1, RowAbove
  <2>3. j = 2 * r /\ l = 2 * r - 1
    BY <1>4, <1>5, <1>6, <1>11
  <2>4. CASE c2 = c
    <3>1. North(map, c, r)
      BY <1>3, <1>5, <2>1, <2>3, <2>4 DEF North
    <3>2. BlockOf(q) = n - BlocksWide
      BY <1>4, <1>8, <2>2, <2>4
    <3> QED BY <1>8, <1>10, <3>1, <3>2
  <2>5. CASE c2 = c - 1
    <3>1. i = 2 * c /\ k = 2 * c - 1 /\ c > 0
      BY <1>4, <1>5, <1>6, <2>5
    <3>2. NorthWest(map, c, r)
      BY <1>3, <2>1, <2>3, <3>1 DEF NorthWest
    <3>3. BlockOf(q) = n - BlocksWide - 1
      BY <1>4, <1>8, <2>2, <2>5
    <3> QED BY <1>8, <1>10, <3>2, <3>3
  <2>6. CASE c2 = c + 1
    <3>1. i = 2 * c + 1 /\ k = 2 * c + 2 /\ c + 1 < BlocksWide
      BY <1>4, <1>5, <1>6, <2>6
    <3>2. NorthEast(map, c, r)
      BY <1>3, <2>1, <2>3, <3>1 DEF NorthEast
    <3>3. BlockOf(q) = n - BlocksWide + 1
      BY <1>4, <1>8, <2>2, <2>6
    <3> QED BY <1>8, <1>10, <3>2, <3>3
  <2> QED BY <1>7, <2>4, <2>5, <2>6
<1>12. CASE r2 = r /\ c2 = c - 1
  <2>1. i = 2 * c /\ k = 2 * c - 1 /\ c > 0
    BY <1>4, <1>5, <1>6, <1>12
  <2>2. West(map, c, r)
    BY <1>3, <1>5, <1>12, <2>1 DEF West
  <2>3. PICK d : d = r * BlocksWide
    OBVIOUS
  <2>4. d \in Nat
    BY <1>4, <2>3
  <2>5. BlockOf(q) = n - 1
    BY <1>4, <1>8, <1>12, <2>3, <2>4
  <2> QED BY <1>8, <1>10, <2>2, <2>5
<1> QED BY <1>11, <1>12

\* Every block to unite with comes before, and holds a pixel that touches one of this block's.
LEMMA TouchingMeans ==
  ASSUME NEW map \in SUBSET Image, NEW n \in Blocks, NEW m \in Values(TouchingOf(map)[n])
  PROVE  /\ m \in Blocks /\ m < n
         /\ \E p, q \in map : Touch8(p, q) /\ BlockOf(p) = n /\ BlockOf(q) = m
<1>1. PICK c, r : c = Column(n) /\ r = Row(n)
  OBVIOUS
<1>2. /\ c \in 0 .. BlocksWide - 1 /\ r \in 0 .. BlocksHigh - 1 /\ n = r * BlocksWide + c
      /\ c \in Nat /\ r \in Nat /\ BlocksWide \in Nat \ {0} /\ BlocksHigh \in Nat \ {0}
  BY <1>1, BlockPlace, Sizes
<1>3. /\ BlockOf(<<2 * c, 2 * r>>) = n /\ BlockOf(<<2 * c + 1, 2 * r>>) = n
      /\ BlockOf(<<2 * c, 2 * r + 1>>) = n
  BY <1>2, PixelIn
<1>4. \/ North(map, c, r) /\ m = n - BlocksWide
      \/ NorthWest(map, c, r) /\ m = n - BlocksWide - 1
      \/ NorthEast(map, c, r) /\ m = n - BlocksWide + 1
      \/ West(map, c, r) /\ m = n - 1
  BY <1>1, TouchingIs
<1>5. ASSUME r > 0
      PROVE  /\ r - 1 \in 0 .. BlocksHigh - 1 /\ 2 * r - 1 = 2 * (r - 1) + 1
             /\ n - BlocksWide = (r - 1) * BlocksWide + c /\ n - BlocksWide < n /\ (r - 1) * BlocksWide \in Int
             /\ n - BlocksWide + 1 <= n /\ n \in Int
  <2>1. r \in Nat \ {0}
    BY <1>2, <1>5
  <2>2. (r - 1) * BlocksWide = r * BlocksWide - BlocksWide /\ r * BlocksWide \in Nat
    BY <2>1, RowAbove
  <2> QED BY <1>2, <1>5, <2>1, <2>2
<1>6. CASE North(map, c, r) /\ m = n - BlocksWide
  <2>1. m = (r - 1) * BlocksWide + c /\ m < n /\ r - 1 \in 0 .. BlocksHigh - 1 /\ 2 * r - 1 = 2 * (r - 1) + 1
    BY <1>5, <1>6 DEF North
  <2>2. m \in Blocks
    BY <1>2, <2>1, BlockAt
  <2>3. BlockOf(<<2 * c, 2 * r - 1>>) = m /\ BlockOf(<<2 * c + 1, 2 * r - 1>>) = m
    BY <1>2, <2>1, PixelIn
  <2>4. PICK i \in {2 * c, 2 * c + 1} : <<i, 2 * r>> \in map
    BY <1>6 DEF North
  <2>5. PICK k \in {2 * c, 2 * c + 1} : <<k, 2 * r - 1>> \in map
    BY <1>6 DEF North
  <2>6. Touch8(<<i, 2 * r>>, <<k, 2 * r - 1>>)
    BY <1>2 DEF Touch8
  <2> QED BY <1>3, <2>1, <2>2, <2>3, <2>4, <2>5, <2>6
<1>7. CASE NorthWest(map, c, r) /\ m = n - BlocksWide - 1
  <2>1. c - 1 \in 0 .. BlocksWide - 1 /\ 2 * c - 1 = 2 * (c - 1) + 1
    BY <1>2, <1>7 DEF NorthWest
  <2>2. m = (r - 1) * BlocksWide + (c - 1) /\ m < n /\ r - 1 \in 0 .. BlocksHigh - 1 /\ 2 * r - 1 = 2 * (r - 1) + 1
    BY <1>2, <1>5, <1>7 DEF NorthWest
  <2>3. m \in Blocks
    BY <2>1, <2>2, BlockAt
  <2>4. BlockOf(<<2 * c - 1, 2 * r - 1>>) = m
    BY <2>1, <2>2, PixelIn
  <2>5. Touch8(<<2 * c, 2 * r>>, <<2 * c - 1, 2 * r - 1>>)
    BY <1>2 DEF Touch8
  <2> QED BY <1>3, <1>7, <2>2, <2>3, <2>4, <2>5 DEF NorthWest
<1>8. CASE NorthEast(map, c, r) /\ m = n - BlocksWide + 1
  <2>1. c + 1 \in 0 .. BlocksWide - 1 /\ 2 * c + 2 = 2 * (c + 1)
    BY <1>2, <1>8 DEF NorthEast
  <2>2. m = (r - 1) * BlocksWide + (c + 1) /\ r - 1 \in 0 .. BlocksHigh - 1 /\ 2 * r - 1 = 2 * (r - 1) + 1
    BY <1>2, <1>5, <1>8 DEF NorthEast
  <2>3. m \in Blocks /\ m < n
    <3>1. m \in Blocks
      BY <2>1, <2>2, BlockAt
    <3>2. BlocksWide > 1
      BY <1>2, <2>1
    <3>3. n \in Int
      BY <1>5, <1>8 DEF NorthEast
    <3> QED BY <1>2, <1>8, <3>1, <3>2, <3>3
  <2>4. BlockOf(<<2 * c + 2, 2 * r - 1>>) = m
    BY <2>1, <2>2, PixelIn
  <2>5. Touch8(<<2 * c + 1, 2 * r>>, <<2 * c + 2, 2 * r - 1>>)
    BY <1>2 DEF Touch8
  <2> QED BY <1>3, <1>8, <2>2, <2>3, <2>4, <2>5 DEF NorthEast
<1>9. CASE West(map, c, r) /\ m = n - 1
  <2>1. c - 1 \in 0 .. BlocksWide - 1 /\ 2 * c - 1 = 2 * (c - 1) + 1
    BY <1>2, <1>9 DEF West
  <2>2. m = r * BlocksWide + (c - 1) /\ m < n
    <3>1. PICK d : d = r * BlocksWide
      OBVIOUS
    <3>2. d \in Nat
      BY <1>2, <3>1
    <3> QED BY <1>2, <1>9, <3>1, <3>2
  <2>3. m \in Blocks
    BY <1>2, <2>1, <2>2, BlockAt
  <2>4. BlockOf(<<2 * c - 1, 2 * r>>) = m /\ BlockOf(<<2 * c - 1, 2 * r + 1>>) = m
    BY <1>2, <2>1, <2>2, PixelIn
  <2>5. PICK j \in {2 * r, 2 * r + 1} : <<2 * c, j>> \in map
    BY <1>9 DEF West
  <2>6. PICK l \in {2 * r, 2 * r + 1} : <<2 * c - 1, l>> \in map
    BY <1>9 DEF West
  <2>7. Touch8(<<2 * c, j>>, <<2 * c - 1, l>>)
    BY <1>2 DEF Touch8
  <2> QED BY <1>3, <2>2, <2>3, <2>4, <2>5, <2>6, <2>7
<1> QED BY <1>4, <1>6, <1>7, <1>8, <1>9

LEMMA TouchingType == ASSUME NEW map \in SUBSET Image PROVE TouchingOf(map) \in Touches
<1>1. ASSUME NEW n \in Blocks
      PROVE  /\ TouchingOf(map)[n] \in Seq(Blocks)
             /\ \A i \in DOMAIN TouchingOf(map)[n] : TouchingOf(map)[n][i] < n
  <2>1. PICK s : s = TouchingOf(map)[n]
    OBVIOUS
  <2>2. s \in Seq(Int)
    BY <2>1, TouchingIs
  <2>3. ASSUME NEW i \in DOMAIN s PROVE s[i] \in Blocks /\ s[i] < n
    <3>1. s[i] \in Values(s)
      BY DEF Values
    <3> QED BY <2>1, <3>1, TouchingMeans
  <2>4. s \in Seq(Blocks)
    BY <2>2, <2>3
  <2> QED BY <2>1, <2>3, <2>4
<1>2. PICK b : TouchingOf(map) = [n \in Blocks |-> b[n]]
  <2>1. \E b : TouchingOf(map) = [n \in Blocks |-> b[n]]
    <3> DEFINE b == TouchingOf(map)
    <3>1. b = [n \in Blocks |-> b[n]]
      BY DEF TouchingOf
    <3> QED BY <3>1
  <2> QED BY <2>1
<1>3. TouchingOf(map) \in [Blocks -> Seq(Blocks)]
  BY <1>1, <1>2
<1> QED BY <1>1, <1>3 DEF Touches

-----------------------------------------------------------------------------
\* The invariant of the labelling.

\* A set of blocks that no two touching pixels leave.
ClosedByPixels(S) == \A p, q \in bitmap : Touch8(p, q) => (BlockOf(p) \in S <=> BlockOf(q) \in S)

\* After the merge kernel: flat links, that join exactly the blocks that touch.
Linked ==
  /\ labels \in [Blocks -> Blocks]
  /\ \A n \in Blocks : labels[labels[n]] = labels[n]
  /\ \A S \in SUBSET Blocks : ClosedByLinks(S) <=> ClosedByTouch(S)

\* After the assign kernel: a number per root, and none is missing unless all are used.
Numbered ==
  /\ ids \in [Blocks -> -1 .. MaxComponents - 1]
  /\ \A m, n \in Blocks :
       /\ labels[m] = labels[n] => ids[m] = ids[n]
       /\ ids[m] = ids[n] /\ ids[n] # -1 => labels[m] = labels[n]
  /\ \A p \in bitmap : ids[BlockOf(p)] = -1 => \A c \in 0 .. MaxComponents - 1 : \E n \in Blocks : ids[n] = c

\* A box holds what the thread blocks done have added to it.
SeenOf(c) == {p \in bitmap : IdOf(p) = c /\ Raster(p) \div ThreadBlock \in extracted}
Gathered == boxes = [c \in 0 .. MaxComponents - 1 |-> BoxOf(SeenOf(c))]

CclInv ==
  /\ OnImage /\ stage \in {"merge", "assign", "extract", "done"}
  /\ touching = TouchingOf(bitmap)
  /\ stage = "merge" => UfInv
  /\ stage # "merge" => Linked
  /\ stage \in {"merge", "assign"} => boxes = [c \in 0 .. MaxComponents - 1 |-> NoBox] /\ extracted = {}
  /\ stage \in {"extract", "done"} => Numbered /\ Gathered
  /\ stage = "done" => extracted = ThreadBlocks

\* The labelling by itself, for any bitmap and any natural scores.
CclSpec ==
  /\ \E map \in SUBSET Image : \E probability \in [map -> Nat] : Detect(map, probability)
  /\ [][CclNext]_cclVars

LEMMA OfOneBlock ==
  ASSUME NEW p \in Image, NEW q \in Image, BlockOf(p) = BlockOf(q), p # q
  PROVE  Touch8(p, q)
<1>1. PICK c \in 0 .. BlocksWide - 1, r \in 0 .. BlocksHigh - 1 :
        /\ BlockOf(p) = r * BlocksWide + c
        /\ p[1] \in {2 * c, 2 * c + 1} /\ p[2] \in {2 * r, 2 * r + 1}
  BY PlaceOf
<1>2. PICK c2 \in 0 .. BlocksWide - 1, r2 \in 0 .. BlocksHigh - 1 :
        /\ BlockOf(q) = r2 * BlocksWide + c2
        /\ q[1] \in {2 * c2, 2 * c2 + 1} /\ q[2] \in {2 * r2, 2 * r2 + 1}
  BY PlaceOf
<1>3. c = c2 /\ r = r2
  <2>1. Column(BlockOf(p)) = c /\ Row(BlockOf(p)) = r
    BY <1>1, BlockAt
  <2>2. Column(BlockOf(q)) = c2 /\ Row(BlockOf(q)) = r2
    BY <1>2, BlockAt
  <2> QED BY <2>1, <2>2
<1>4. c \in Int /\ r \in Int
  BY Sizes
<1> QED BY <1>1, <1>2, <1>3, <1>4 DEF Touch8

\* The blocks to unite are those of touching pixels, and the others' are not.
LEMMA TouchBothWays ==
  ASSUME bitmap \in SUBSET Image, touching = TouchingOf(bitmap), NEW S \in SUBSET Blocks
  PROVE  ClosedByTouch(S) <=> ClosedByPixels(S)
<1>1. ASSUME ClosedByTouch(S) PROVE ClosedByPixels(S)
  <2>1. ASSUME NEW n \in Blocks, NEW m \in Values(touching[n]) PROVE n \in S <=> m \in S
    BY <1>1, <2>1 DEF ClosedByTouch, Values
  <2>2. ASSUME NEW p \in bitmap, NEW q \in bitmap, Touch8(p, q) PROVE BlockOf(p) \in S <=> BlockOf(q) \in S
    <3>1. p \in Image /\ q \in Image /\ BlockOf(p) \in Blocks /\ BlockOf(q) \in Blocks
      BY BlockOfType
    <3>2. PICK c \in 0 .. BlocksWide - 1, r \in 0 .. BlocksHigh - 1 :
            /\ BlockOf(p) = r * BlocksWide + c
            /\ p[1] \in {2 * c, 2 * c + 1} /\ p[2] \in {2 * r, 2 * r + 1}
      BY <3>1, PlaceOf
    <3>3. PICK c2 \in 0 .. BlocksWide - 1, r2 \in 0 .. BlocksHigh - 1 :
            /\ BlockOf(q) = r2 * BlocksWide + c2
            /\ q[1] \in {2 * c2, 2 * c2 + 1} /\ q[2] \in {2 * r2, 2 * r2 + 1}
      BY <3>1, PlaceOf
    <3>4. c \in Int /\ r \in Int /\ c2 \in Int /\ r2 \in Int
      BY Sizes
    <3>5. Touch8(q, p) /\ p[1] - q[1] \in -1 .. 1 /\ p[2] - q[2] \in -1 .. 1
      BY <2>2, <3>2, <3>3, <3>4 DEF Touch8
    <3>6. /\ c2 \in {c - 1, c, c + 1} /\ r2 \in {r - 1, r, r + 1}
      BY <3>2, <3>3, <3>4, <3>5
    <3>7. CASE c2 = c /\ r2 = r
      BY <3>2, <3>3, <3>7
    <3>8. CASE r2 = r - 1 \/ (r2 = r /\ c2 = c - 1)
      <4>1. BlockOf(q) \in Values(TouchingOf(bitmap)[BlockOf(p)])
        BY <2>2, <3>2, <3>3, <3>8, TouchBack
      <4> QED BY <2>1, <3>1, <4>1
    <3>9. CASE r = r2 - 1 \/ (r2 = r /\ c = c2 - 1)
      <4>1. BlockOf(p) \in Values(TouchingOf(bitmap)[BlockOf(q)])
        BY <3>2, <3>3, <3>5, <3>9, TouchBack
      <4> QED BY <2>1, <3>1, <4>1
    <3> QED BY <3>4, <3>6, <3>7, <3>8, <3>9
  <2> QED BY <2>2 DEF ClosedByPixels
<1>2. ASSUME ClosedByPixels(S) PROVE ClosedByTouch(S)
  <2>1. ASSUME NEW n \in Blocks, NEW i \in DOMAIN touching[n] PROVE n \in S <=> touching[n][i] \in S
    <3>1. touching[n][i] \in Values(TouchingOf(bitmap)[n])
      BY DEF Values
    <3>2. PICK p \in bitmap, q \in bitmap : Touch8(p, q) /\ BlockOf(p) = n /\ BlockOf(q) = touching[n][i]
      BY <3>1, TouchingMeans
    <3> QED BY <1>2, <3>2 DEF ClosedByPixels
  <2> QED BY <2>1 DEF ClosedByTouch
<1> QED BY <1>1, <1>2

-----------------------------------------------------------------------------
\* The kernels after the merge: every link to its root, the numbers of the
\* roots, and what the thread blocks gather.

RootFun(f) == f = [n \in Blocks |-> IF labels[n] = n THEN n ELSE f[labels[n]]]
LEMMA RootIs == Root = CHOOSE f : RootFun(f)
BY DEF Root, RootFun

Downward == labels \in [Blocks -> Blocks] /\ \A n \in Blocks : labels[n] <= n

LEMMA RootExists == ASSUME Downward PROVE \E f : RootFun(f)
<1> DEFINE Few(k) == {n \in Blocks : n <= k}
           Part(f, k) == \A n \in Few(k) : f[n] = IF labels[n] = n THEN n ELSE f[labels[n]]
           T == {k \in Nat : \E f : Part(f, k)}
<1>0. \A n \in Blocks : n \in Nat /\ labels[n] \in Blocks /\ labels[n] <= n
  BY Sizes DEF Downward, Blocks
<1>1. 0 \in T
  <2> DEFINE f == [n \in Blocks |-> n]
  <2>1. Part(f, 0)
    <3> SUFFICES ASSUME NEW n \in Few(0) PROVE labels[n] = n /\ f[n] = n
      OBVIOUS
    <3>1. labels[n] \in Nat /\ labels[n] <= n /\ n \in Nat /\ n <= 0
      BY <1>0
    <3> QED BY <3>1
  <2> QED BY <2>1
<1>2. ASSUME NEW k \in T PROVE k + 1 \in T
  <2>1. PICK g : Part(g, k)
    OBVIOUS
  <2> DEFINE f == [n \in Blocks |-> IF n <= k THEN g[n] ELSE IF labels[n] = n THEN n ELSE g[labels[n]]]
  <2>2. ASSUME NEW n \in Few(k + 1) PROVE f[n] = IF labels[n] = n THEN n ELSE f[labels[n]]
    <3>1. n \in Nat /\ labels[n] \in Blocks /\ labels[n] \in Nat /\ labels[n] <= n /\ n <= k + 1 /\ k \in Nat
      BY <1>0
    <3>2. CASE n <= k
      <4>1. n \in Few(k) /\ labels[n] <= k
        BY <3>1, <3>2
      <4>2. g[n] = IF labels[n] = n THEN n ELSE g[labels[n]]
        BY <2>1, <4>1
      <4>3. f[n] = g[n] /\ f[labels[n]] = g[labels[n]]
        BY <3>1, <3>2, <4>1
      <4> QED BY <4>2, <4>3
    <3>3. CASE ~ (n <= k)
      <4>1. labels[n] # n => labels[n] <= k
        BY <3>1, <3>3
      <4> QED BY <3>1, <3>3, <4>1
    <3> QED BY <3>2, <3>3
  <2> HIDE DEF f
  <2>3. Part(f, k + 1)
    BY <2>2
  <2>4. k + 1 \in Nat
    OBVIOUS
  <2> QED BY <2>3, <2>4
<1> HIDE DEF T
<1>3. \A k \in Nat : k \in T
  <2>1. T \in SUBSET Nat
    BY DEF T
  <2> QED BY <1>1, <1>2, <2>1, Induct
<1>4. NumBlocks \in Nat /\ NumBlocks \in T
  BY <1>3, Sizes
<1>5. PICK g : Part(g, NumBlocks)
  BY <1>4 DEF T
<1>6. \A n \in Blocks : n \in Few(NumBlocks)
  BY <1>4 DEF Blocks
<1> DEFINE f == [n \in Blocks |-> g[n]]
<1>7. RootFun(f)
  BY <1>0, <1>5, <1>6 DEF RootFun
<1> QED BY <1>7

\* The root of a block, and that the sets of blocks no link leaves keep both or neither.
LEMMA RootOf ==
  ASSUME Downward
  PROVE  /\ Root \in [Blocks -> Blocks]
         /\ \A n \in Blocks : /\ Root[n] = IF labels[n] = n THEN n ELSE Root[labels[n]]
                              /\ labels[Root[n]] = Root[n]
                              /\ \A S \in SUBSET Blocks : ClosedByLinks(S) => (n \in S <=> Root[n] \in S)
<1>1. PICK h : h = Root
  OBVIOUS
<1>2. RootFun(h)
  BY <1>1, RootIs, RootExists
<1>3. \A n \in Blocks : h[n] = IF labels[n] = n THEN n ELSE h[labels[n]]
  BY <1>2 DEF RootFun
<1>4. \A n \in Blocks : n \in Nat /\ labels[n] \in Blocks /\ labels[n] <= n
  BY Sizes DEF Downward, Blocks
<1> DEFINE P(n) == /\ h[n] \in Blocks /\ labels[h[n]] = h[n]
                   /\ \A S \in SUBSET Blocks : ClosedByLinks(S) => (n \in S <=> h[n] \in S)
           T == {n \in Blocks : ~ P(n)}
<1>5. T = {}
  <2> SUFFICES ASSUME T # {} PROVE FALSE
    OBVIOUS
  <2>1. T \in SUBSET Nat
    BY <1>4
  <2>2. PICK x \in T : \A y \in T : x <= y
    <3> HIDE DEF T
    <3> QED BY <2>1, LeastOf
  <2>3. x \in Blocks /\ x \in Nat /\ labels[x] \in Blocks /\ labels[x] \in Nat /\ labels[x] <= x
    BY <1>4
  <2>4. CASE labels[x] = x
    <3>1. h[x] = x
      BY <1>3, <2>3, <2>4
    <3> QED BY <2>3, <2>4, <3>1
  <2>5. CASE labels[x] # x
    <3>1. labels[x] \notin T
      BY <2>2, <2>3, <2>5
    <3>2. P(labels[x])
      BY <2>3, <3>1
    <3>3. h[x] = h[labels[x]]
      BY <1>3, <2>3, <2>5
    <3>4. \A S \in SUBSET Blocks : ClosedByLinks(S) => (x \in S <=> labels[x] \in S)
      BY <2>3 DEF ClosedByLinks
    <3>5. P(x)
      BY <3>2, <3>3, <3>4
    <3> QED BY <3>5
  <2> QED BY <2>4, <2>5
<1>6. \A n \in Blocks : P(n)
  BY <1>5
<1>7. PICK b : h = [n \in Blocks |-> b[n]]
  <2>1. \E b : h = [n \in Blocks |-> b[n]]
    <3>1. h = [n \in Blocks |-> [m \in Blocks |-> IF labels[m] = m THEN m ELSE h[labels[m]]][n]]
      BY <1>2 DEF RootFun
    <3> QED BY <3>1
  <2> QED BY <2>1
<1>8. h \in [Blocks -> Blocks]
  BY <1>6, <1>7
<1> HIDE DEF P
<1> QED BY <1>1, <1>3, <1>6, <1>8 DEF P

LEMMA CompressLinks ==
  ASSUME Downward, NEW h, h = Root, labels' = h, UNCHANGED touching,
         \A S \in SUBSET Blocks : ClosedByLinks(S) <=> ClosedByTouch(S)
  PROVE  Linked'
<1>1. /\ h \in [Blocks -> Blocks]
      /\ \A n \in Blocks : /\ h[n] = IF labels[n] = n THEN n ELSE h[labels[n]]
                           /\ labels[h[n]] = h[n]
                           /\ \A S \in SUBSET Blocks : ClosedByLinks(S) => (n \in S <=> h[n] \in S)
  BY RootOf
<1>2. \A n \in Blocks : h[h[n]] = h[n]
  BY <1>1
<1>3. \A n \in Blocks : labels[n] \in Blocks /\ h[labels[n]] = h[n]
  BY <1>1 DEF Downward
<1>4. ASSUME NEW S \in SUBSET Blocks PROVE ClosedByLinks(S)' <=> ClosedByLinks(S)
  <2>1. ASSUME ClosedByLinks(S)' PROVE ClosedByLinks(S)
    <3>1. \A n \in Blocks : n \in S <=> h[n] \in S
      BY <2>1 DEF ClosedByLinks
    <3> QED BY <1>3, <3>1 DEF ClosedByLinks
  <2>2. ASSUME ClosedByLinks(S) PROVE ClosedByLinks(S)'
    BY <1>1, <2>2 DEF ClosedByLinks
  <2> QED BY <2>1, <2>2
<1>5. ASSUME NEW S \in SUBSET Blocks PROVE ClosedByTouch(S)' <=> ClosedByTouch(S)
  BY DEF ClosedByTouch
<1> QED BY <1>1, <1>2, <1>4, <1>5 DEF Linked

\* The root of a block with foreground has foreground.
LEMMA ForegroundRoots ==
  ASSUME OnImage, touching = TouchingOf(bitmap), Linked, NEW p \in bitmap
  PROVE  labels[BlockOf(p)] \in Roots /\ BlockOf(p) \in Blocks
<1> DEFINE F == {BlockOf(q) : q \in bitmap}
<1>1. bitmap \in SUBSET Image /\ F \in SUBSET Blocks /\ BlockOf(p) \in F
  BY BlockOfType DEF OnImage
<1>2. ClosedByPixels(F)
  BY DEF ClosedByPixels
<1>3. ClosedByTouch(F)
  BY <1>1, <1>2, TouchBothWays
<1>4. ClosedByLinks(F)
  BY <1>1, <1>3 DEF Linked
<1>5. labels[BlockOf(p)] \in F
  BY <1>1, <1>4 DEF ClosedByLinks
<1>6. labels[BlockOf(p)] \in Blocks /\ labels[labels[BlockOf(p)]] = labels[BlockOf(p)]
  BY <1>1 DEF Linked
<1> QED BY <1>1, <1>5, <1>6 DEF Roots

\* The order the counter numbers the roots in takes each of them once.
LEMMA OrderOf ==
  ASSUME NEW order \in SetToSeqs(Roots)
  PROVE  /\ Cardinality(Roots) \in Nat /\ order \in [1 .. Cardinality(Roots) -> Roots]
         /\ \A i, j \in 1 .. Cardinality(Roots) : order[i] = order[j] => i = j
         /\ \A n \in Roots : \E i \in 1 .. Cardinality(Roots) : order[i] = n
<1>1. IsFiniteSet(Blocks)
  BY FS_Interval, Sizes DEF Blocks
<1>2. IsFiniteSet(Roots) /\ Cardinality(Roots) \in Nat
  BY <1>1, FS_Subset, FS_CardinalityType DEF Roots
<1>3. PICK N : N = Cardinality(Roots)
  OBVIOUS
<1>4. order \in [1 .. N -> Roots] /\ \A i, j \in 1 .. N : i # j => order[i] # order[j]
  BY <1>3 DEF SetToSeqs
<1>5. order \in Injection(1 .. N, Roots)
  BY <1>4 DEF Injection, IsInjective
<1>6. Cardinality(1 .. N) = N
  BY <1>2, <1>3, FS_Interval
<1>7. order \in Surjection(1 .. N, Roots)
  BY <1>2, <1>3, <1>5, <1>6, FS_Injection
<1>8. \A n \in Roots : \E i \in 1 .. N : order[i] = n
  BY <1>7 DEF Surjection
<1> QED BY <1>2, <1>3, <1>4, <1>8

LEMMA AssignNumbers ==
  ASSUME OnImage, touching = TouchingOf(bitmap), Linked, Assign
  PROVE  Numbered'
<1>1. PICK order \in SetToSeqs(Roots) :
        ids' = [n \in Blocks |->
                  IF \/ labels[n] \notin Roots
                     \/ (CHOOSE i \in DOMAIN order : order[i] = labels[n]) > MaxComponents
                  THEN -1 ELSE (CHOOSE i \in DOMAIN order : order[i] = labels[n]) - 1]
  BY DEF Assign
<1>2. UNCHANGED <<labels, bitmap>>
  BY DEF Assign, ufVars
<1>3. PICK N : N = Cardinality(Roots)
  OBVIOUS
<1>4. /\ N \in Nat /\ order \in [1 .. N -> Roots] /\ DOMAIN order = 1 .. N
      /\ \A i, j \in 1 .. N : order[i] = order[j] => i = j
      /\ \A n \in Roots : \E i \in 1 .. N : order[i] = n
  BY <1>3, OrderOf
<1> DEFINE Number(n) == CHOOSE i \in DOMAIN order : order[i] = n
<1>5. \A n \in Roots : Number(n) \in 1 .. N /\ order[Number(n)] = n
  BY <1>4
<1>6. \A i \in 1 .. N : Number(order[i]) = i
  BY <1>4, <1>5
<1>7. \A n \in Blocks : ids'[n] = IF labels[n] \notin Roots \/ Number(labels[n]) > MaxComponents THEN -1
                                  ELSE Number(labels[n]) - 1
  BY <1>1
<1> HIDE DEF Number
<1>8. MaxComponents \in Nat \ {0}
  BY GridAssumption
<1>9. ASSUME NEW n \in Blocks PROVE ids'[n] \in -1 .. MaxComponents - 1
  <2>1. CASE labels[n] \notin Roots \/ Number(labels[n]) > MaxComponents
    BY <1>7, <1>8, <2>1
  <2>2. CASE labels[n] \in Roots /\ ~ (Number(labels[n]) > MaxComponents)
    <3>1. Number(labels[n]) \in 1 .. N
      BY <1>5, <2>2
    <3> QED BY <1>4, <1>7, <1>8, <2>2, <3>1
  <2> QED BY <2>1, <2>2
<1>10. ids' \in [Blocks -> -1 .. MaxComponents - 1]
  <2>1. PICK b : ids' = [n \in Blocks |-> b[n]]
    <3>1. \E b : ids' = [n \in Blocks |-> b[n]]
      <4>1. ids' = [n \in Blocks |-> ids'[n]]
        BY <1>1
      <4> QED BY <4>1
    <3> QED BY <3>1
  <2> QED BY <1>9, <2>1
<1>11. ASSUME NEW m \in Blocks, NEW n \in Blocks
       PROVE  /\ labels'[m] = labels'[n] => ids'[m] = ids'[n]
              /\ ids'[m] = ids'[n] /\ ids'[n] # -1 => labels'[m] = labels'[n]
  <2>1. labels[m] = labels[n] => ids'[m] = ids'[n]
    BY <1>7
  <2>2. ASSUME ids'[m] = ids'[n], ids'[n] # -1 PROVE labels[m] = labels[n]
    <3>1. labels[m] \in Roots /\ labels[n] \in Roots
      BY <1>7, <2>2
    <3>2. Number(labels[m]) - 1 = Number(labels[n]) - 1
      BY <1>7, <2>2
    <3>3. Number(labels[m]) = Number(labels[n])
      BY <1>4, <1>5, <3>1, <3>2
    <3> QED BY <1>5, <3>1, <3>3
  <2> QED BY <1>2, <2>1, <2>2
<1>12. ASSUME NEW p \in bitmap, ids'[BlockOf(p)] = -1, NEW c \in 0 .. MaxComponents - 1
       PROVE  \E n \in Blocks : ids'[n] = c
  <2>1. labels[BlockOf(p)] \in Roots /\ BlockOf(p) \in Blocks
    BY ForegroundRoots
  <2>2. Number(labels[BlockOf(p)]) \in 1 .. N
    BY <1>5, <2>1
  <2>3. Number(labels[BlockOf(p)]) > MaxComponents
    BY <1>4, <1>7, <1>12, <2>1, <2>2
  <2>4. c + 1 \in 1 .. N /\ c + 1 <= MaxComponents
    BY <1>4, <1>8, <2>2, <2>3
  <2>5. order[c + 1] \in Roots
    BY <1>4, <2>4
  <2>6. order[c + 1] \in Blocks /\ labels[order[c + 1]] = order[c + 1]
    BY <2>5 DEF Roots
  <2>7. Number(order[c + 1]) = c + 1
    BY <1>6, <2>4
  <2>8. ids'[order[c + 1]] = (c + 1) - 1
    BY <1>7, <1>8, <2>4, <2>5, <2>6, <2>7
  <2> QED BY <1>8, <2>6, <2>8
<1> QED BY <1>2, <1>10, <1>11, <1>12 DEF Numbered, BlockOf

LEMMA RasterFits ==
  ASSUME OnImage, NEW p \in bitmap
  PROVE  Raster(p) \div ThreadBlock \in ThreadBlocks
<1>1. PICK x, y : x = p[1] /\ y = p[2]
  OBVIOUS
<1>2. x \in Nat /\ y \in Nat /\ x <= W - 1 /\ y <= H - 1 /\ W \in Nat \ {0} /\ H \in Nat \ {0}
      /\ ThreadBlock \in Nat \ {0}
  BY <1>1, Sizes, GridAssumption DEF OnImage, Image
<1>3. y * W <= (H - 1) * W /\ (H - 1) * W = H * W - W /\ H * W = W * H /\ y * W \in Nat /\ W * H \in Nat
  BY <1>2
<1>4. y * W + x \in Nat /\ W * H - 1 \in Nat /\ y * W + x <= W * H - 1
  BY <1>2, <1>3
<1>5. (y * W + x) \div ThreadBlock <= (W * H - 1) \div ThreadBlock
  BY <1>2, <1>4, DivMonotonic
<1>6. (y * W + x) \div ThreadBlock \in Nat /\ (W * H - 1) \div ThreadBlock \in Nat
  BY <1>2, <1>4, DivMod
<1> QED BY <1>1, <1>5, <1>6 DEF Raster, ThreadBlocks

LEMMA ExtractGathers ==
  ASSUME OnImage, Gathered, NEW k, Extract(k)
  PROVE  Gathered'
<1> DEFINE PartOf(c) == {p \in ThreadBlockOf(k) : IdOf(p) = c}
<1>1. PICK slots :
        boxes' = [c \in DOMAIN boxes |->
                    IF c \in slots THEN Flush(boxes[c], Accumulate(NoBox, PartOf(c)))
                    ELSE Accumulate(boxes[c], PartOf(c))]
  BY Zenon DEF Extract
<1>2. UNCHANGED <<bitmap, scores, ids>> /\ extracted' = extracted \cup {k} /\ k \notin extracted
  BY DEF Extract
<1>3. DOMAIN boxes = 0 .. MaxComponents - 1 /\ \A c \in 0 .. MaxComponents - 1 : boxes[c] = BoxOf(SeenOf(c))
  BY DEF Gathered
<1>4. ASSUME NEW c \in 0 .. MaxComponents - 1
      PROVE  /\ SeenOf(c) \in SUBSET bitmap /\ PartOf(c) \in SUBSET bitmap /\ SeenOf(c) \cap PartOf(c) = {}
             /\ SeenOf(c)' = SeenOf(c) \cup PartOf(c)
  <2>1. c >= 0
    OBVIOUS
  <2>2. \A p : IdOf(p)' = IdOf(p)
    BY <1>2 DEF IdOf
  <2>3. \A p : Raster(p)' = Raster(p)
    BY DEF Raster
  <2>4. PartOf(c) = {p \in bitmap : IdOf(p) = c /\ Raster(p) \div ThreadBlock = k}
    BY <2>1 DEF ThreadBlockOf
  <2>5. SeenOf(c)' = {p \in bitmap : IdOf(p) = c /\ Raster(p) \div ThreadBlock \in extracted \cup {k}}
    BY <1>2, <2>2, <2>3 DEF SeenOf
  <2> HIDE DEF PartOf
  <2> QED BY <1>2, <2>4, <2>5 DEF SeenOf
<1>5. \A ps : BoxOf(ps)' = BoxOf(ps)
  BY <1>2 DEF BoxOf, ScoreOf, FoldSet, MapThenFoldSet
<1> HIDE DEF PartOf
<1>6. ASSUME NEW c \in 0 .. MaxComponents - 1 PROVE boxes'[c] = BoxOf(SeenOf(c))'
  <2>1. PICK A, B : A = SeenOf(c) /\ B = PartOf(c)
    OBVIOUS
  <2>2. Accumulate(BoxOf(A), B) = BoxOf(A \cup B) /\ Flush(BoxOf(A), Accumulate(NoBox, B)) = BoxOf(A \cup B)
    BY <1>4, <2>1, BoxGrows
  <2>3. boxes'[c] = BoxOf(A \cup B)
    BY <1>1, <1>3, <2>1, <2>2
  <2>4. PICK C : C = SeenOf(c)'
    OBVIOUS
  <2>5. C = A \cup B
    BY <1>4, <2>1, <2>4
  <2>6. BoxOf(SeenOf(c))' = BoxOf(C)
    BY <1>5, <2>4
  <2> QED BY <2>3, <2>5, <2>6
<1>7. boxes' = [c \in 0 .. MaxComponents - 1 |-> boxes'[c]]
  BY <1>1, <1>3
<1> QED BY <1>6, <1>7 DEF Gathered

-----------------------------------------------------------------------------
\* Every step of the labelling keeps the invariant.

LEMMA TouchingKept == UfNext => UNCHANGED touching
BY DEF UfNext, Merge, Start, ReadParent, Halve, Hook, Found

LEMMA LinkedKept == Linked /\ UNCHANGED <<labels, touching>> => Linked'
<1> SUFFICES ASSUME Linked, UNCHANGED <<labels, touching>> PROVE Linked'
  OBVIOUS
<1>1. \A S : ClosedByLinks(S)' <=> ClosedByLinks(S)
  BY DEF ClosedByLinks
<1>2. \A S : ClosedByTouch(S)' <=> ClosedByTouch(S)
  BY DEF ClosedByTouch
<1> QED BY <1>1, <1>2 DEF Linked

LEMMA OnImageKept == OnImage /\ UNCHANGED <<bitmap, scores>> => OnImage'
BY DEF OnImage

LEMMA NumberedKept == Numbered /\ UNCHANGED <<labels, ids, bitmap>> => Numbered'
BY DEF Numbered

LEMMA GatheredKept == Gathered /\ UNCHANGED <<boxes, bitmap, ids, scores, extracted>> => Gathered'
<1> SUFFICES ASSUME Gathered, UNCHANGED <<boxes, bitmap, ids, scores, extracted>> PROVE Gathered'
  OBVIOUS
<1>1. \A p : IdOf(p)' = IdOf(p)
  BY DEF IdOf
<1>2. \A c : SeenOf(c)' = SeenOf(c)
  BY <1>1 DEF SeenOf
<1>3. \A ps : BoxOf(ps)' = BoxOf(ps)
  BY DEF BoxOf, ScoreOf, FoldSet, MapThenFoldSet
<1>4. \A c : BoxOf(SeenOf(c))' = BoxOf(SeenOf(c))
  <2> SUFFICES ASSUME NEW c PROVE BoxOf(SeenOf(c))' = BoxOf(SeenOf(c))
    OBVIOUS
  <2>1. PICK s : s = SeenOf(c)'
    OBVIOUS
  <2>2. BoxOf(SeenOf(c))' = BoxOf(s)
    BY <1>3, <2>1
  <2> QED BY <1>2, <2>1, <2>2
<1> QED BY <1>4 DEF Gathered

LEMMA CclInit ==
  ASSUME NEW map \in SUBSET Image, NEW probability \in [map -> Nat], Detect(map, probability)
  PROVE  CclInv
<1>1. touching = TouchingOf(map) /\ UfInit(TouchingOf(map)) /\ TouchingOf(map) \in Touches
  BY TouchingType DEF Detect, UfInit
<1>2. UfInv
  BY <1>1, UfInitInv
<1> QED BY <1>1, <1>2 DEF Detect, CclInv, OnImage

LEMMA CclMerge == CclInv /\ MergeStep => CclInv'
<1> SUFFICES ASSUME CclInv, MergeStep PROVE CclInv'
  OBVIOUS
<1>1. stage = "merge" /\ UfNext /\ UNCHANGED <<bitmap, scores, stage, ids, boxes, extracted>>
  BY DEF MergeStep
<1>2. UfInv' /\ UNCHANGED touching
  BY <1>1, UfInvNext, TouchingKept DEF CclInv
<1>3. OnImage'
  BY <1>1, OnImageKept DEF CclInv
<1> QED BY <1>1, <1>2, <1>3 DEF CclInv

LEMMA CclCompress == CclInv /\ Compress => CclInv'
<1> SUFFICES ASSUME CclInv, Compress PROVE CclInv'
  OBVIOUS
<1>1. /\ stage = "merge" /\ Merged /\ labels' = Root /\ stage' = "assign"
      /\ UNCHANGED <<touching, bitmap, scores, ids, boxes, extracted>>
  BY DEF Compress
<1>2. UfInv
  BY <1>1 DEF CclInv
<1>3. \A S \in SUBSET Blocks : ClosedByLinks(S) <=> ClosedByTouch(S)
  BY <1>1, <1>2, ExactWhenMerged DEF PartitionIsExact
<1>4. Downward
  BY <1>2 DEF Downward, UfInv, UfTypeOK, LinksDown
<1>5. Linked'
  BY <1>1, <1>3, <1>4, CompressLinks
<1>6. OnImage'
  BY <1>1, OnImageKept DEF CclInv
<1> QED BY <1>1, <1>5, <1>6 DEF CclInv

LEMMA CclAssign == CclInv /\ Assign => CclInv'
<1> SUFFICES ASSUME CclInv, Assign PROVE CclInv'
  OBVIOUS
<1>1. /\ stage = "assign" /\ stage' = "extract"
      /\ UNCHANGED <<labels, touching, bitmap, scores, boxes, extracted>>
  BY DEF Assign, ufVars
<1>2. /\ OnImage /\ touching = TouchingOf(bitmap) /\ Linked
      /\ boxes = [c \in 0 .. MaxComponents - 1 |-> NoBox] /\ extracted = {}
  BY <1>1 DEF CclInv
<1>3. Numbered' /\ Linked' /\ OnImage'
  BY <1>1, <1>2, AssignNumbers, LinkedKept, OnImageKept
<1>4. \A c : SeenOf(c)' = {}
  BY <1>1, <1>2 DEF SeenOf
<1>5. BoxOf({})' = NoBox
  <2>1. BoxOf({})' = BoxOf({})
    BY <1>1 DEF BoxOf, ScoreOf, FoldSet, MapThenFoldSet
  <2> QED BY <1>2, <2>1, BoxOfNone
<1>6. Gathered'
  <2>1. ASSUME NEW c PROVE BoxOf(SeenOf(c))' = NoBox
    BY <1>4, <1>5
  <2> QED BY <1>1, <1>2, <2>1 DEF Gathered
<1> QED BY <1>1, <1>2, <1>3, <1>6 DEF CclInv

LEMMA CclExtract == ASSUME CclInv, NEW k, Extract(k) PROVE CclInv'
<1>1. stage = "extract" /\ UNCHANGED <<labels, touching, bitmap, scores, stage, ids>>
  BY DEF Extract, ufVars
<1>2. OnImage /\ touching = TouchingOf(bitmap) /\ Linked /\ Numbered /\ Gathered
  BY <1>1 DEF CclInv
<1>3. OnImage' /\ Linked' /\ Numbered' /\ Gathered'
  BY <1>1, <1>2, OnImageKept, LinkedKept, NumberedKept, ExtractGathers
<1> QED BY <1>1, <1>2, <1>3 DEF CclInv

LEMMA CclLabelled == CclInv /\ Labelled => CclInv'
<1> SUFFICES ASSUME CclInv, Labelled PROVE CclInv'
  OBVIOUS
<1>1. /\ stage = "extract" /\ extracted = ThreadBlocks /\ stage' = "done"
      /\ UNCHANGED <<labels, touching, bitmap, scores, ids, boxes, extracted>>
  BY DEF Labelled, ufVars
<1>2. OnImage /\ touching = TouchingOf(bitmap) /\ Linked /\ Numbered /\ Gathered
  BY <1>1 DEF CclInv
<1>3. OnImage' /\ Linked' /\ Numbered' /\ Gathered'
  BY <1>1, <1>2, OnImageKept, LinkedKept, NumberedKept, GatheredKept
<1> QED BY <1>1, <1>2, <1>3 DEF CclInv, ThreadBlocks

LEMMA CclStutter == CclInv /\ UNCHANGED cclVars => CclInv'
<1> SUFFICES ASSUME CclInv, UNCHANGED cclVars PROVE CclInv'
  OBVIOUS
<1>1. UNCHANGED ufVars /\ UNCHANGED <<labels, touching, bitmap, scores, stage, ids, boxes, extracted>>
  BY DEF cclVars, ufVars
<1>2. UfInv => UfInv'
  BY <1>1, UfInvNext
<1>3. (Linked => Linked') /\ OnImage'
  BY <1>1, LinkedKept, OnImageKept DEF CclInv
<1>4. Numbered /\ Gathered => Numbered' /\ Gathered'
  BY <1>1, NumberedKept, GatheredKept
<1> QED BY <1>1, <1>2, <1>3, <1>4 DEF CclInv, ThreadBlocks

LEMMA CclInvNext == CclInv /\ [CclNext]_cclVars => CclInv'
BY CclMerge, CclCompress, CclAssign, CclExtract, CclLabelled, CclStutter DEF CclNext

-----------------------------------------------------------------------------
\* A component by its definition, and by the labels.

\* ComponentOf is the least set of foreground pixels with p that touching pixels do not leave.
ClosedPixels(C) == \A q \in bitmap : \A r \in C : Touch8(q, r) => q \in C
Wider(C) == C \cup {q \in bitmap : \E r \in C : Touch8(q, r)}
GrowFun(g, p, n) == g = [k \in 0 .. n |-> IF k = 0 THEN {p} ELSE LET near == g[k - 1]
                                            IN near \cup {q \in bitmap : \E r \in near : Touch8(q, r)}]
LEMMA ComponentIs ==
  ASSUME NEW p
  PROVE  ComponentOf(p) = (CHOOSE g : GrowFun(g, p, Cardinality(bitmap)))[Cardinality(bitmap)]
BY DEF ComponentOf, GrowFun

LEMMA GrowExists == ASSUME NEW p PROVE \A n \in Nat : \E g : GrowFun(g, p, n)
<1> DEFINE T == {n \in Nat : \E g : GrowFun(g, p, n)}
<1>1. 0 \in T
  <2> DEFINE g == [k \in 0 .. 0 |-> {p}]
  <2>1. GrowFun(g, p, 0)
    BY DEF GrowFun
  <2> QED BY <2>1
<1>2. ASSUME NEW n \in T PROVE n + 1 \in T
  <2>1. PICK g : GrowFun(g, p, n)
    OBVIOUS
  <2>2. \A k \in 0 .. n : g[k] = IF k = 0 THEN {p} ELSE Wider(g[k - 1])
    BY <2>1 DEF GrowFun, Wider
  <2> DEFINE h == [k \in 0 .. n + 1 |-> IF k <= n THEN g[k] ELSE Wider(g[n])]
  <2>3. n \in Nat
    OBVIOUS
  <2>4. ASSUME NEW k \in 0 .. n + 1 PROVE h[k] = IF k = 0 THEN {p} ELSE Wider(h[k - 1])
    <3>1. CASE k <= n
      <4>1. h[k] = g[k] /\ (k # 0 => h[k - 1] = g[k - 1]) /\ k \in 0 .. n
        BY <2>3, <3>1
      <4>2. g[k] = IF k = 0 THEN {p} ELSE Wider(g[k - 1])
        BY <2>2, <4>1
      <4> HIDE DEF h
      <4>3. CASE k = 0
        BY <4>1, <4>2, <4>3
      <4>4. CASE k # 0
        BY <4>1, <4>2, <4>4
      <4> QED BY <4>3, <4>4
    <3>2. CASE ~ (k <= n)
      <4>1. k = n + 1 /\ k # 0 /\ k - 1 = n /\ n \in 0 .. n + 1 /\ n <= n
        BY <2>3, <3>2
      <4>2. h[k] = Wider(g[n]) /\ h[k - 1] = g[n]
        BY <3>2, <4>1
      <4> QED BY <4>1, <4>2
    <3> QED BY <3>1, <3>2
  <2>5. h = [k \in 0 .. n + 1 |-> h[k]]
    OBVIOUS
  <2> HIDE DEF h
  <2>6. GrowFun(h, p, n + 1)
    BY <2>4, <2>5 DEF GrowFun, Wider
  <2> QED BY <2>3, <2>6
<1> HIDE DEF T
<1>3. \A n \in Nat : n \in T
  <2>1. T \in SUBSET Nat
    BY DEF T
  <2> QED BY <1>1, <1>2, <2>1, Induct
<1> QED BY <1>3 DEF T

LEMMA GrowsTo ==
  ASSUME IsFiniteSet(bitmap), NEW p \in bitmap
  PROVE  \E g : /\ g[0] = {p} /\ \A k \in 1 .. Cardinality(bitmap) : g[k] = Wider(g[k - 1])
                /\ ComponentOf(p) = g[Cardinality(bitmap)] /\ Cardinality(bitmap) \in Nat
<1>1. PICK n : n = Cardinality(bitmap)
  OBVIOUS
<1>2. n \in Nat
  BY <1>1, FS_CardinalityType
<1>3. PICK g : g = CHOOSE f : GrowFun(f, p, n)
  OBVIOUS
<1>4. GrowFun(g, p, n)
  BY <1>2, <1>3, GrowExists
<1>5. ComponentOf(p) = g[n]
  BY <1>1, <1>3, ComponentIs
<1>6. \A k \in 0 .. n : g[k] = IF k = 0 THEN {p} ELSE Wider(g[k - 1])
  BY <1>4 DEF GrowFun, Wider
<1> QED BY <1>1, <1>2, <1>5, <1>6

LEMMA ComponentLeast ==
  ASSUME IsFiniteSet(bitmap), NEW p \in bitmap
  PROVE  /\ p \in ComponentOf(p) /\ ComponentOf(p) \in SUBSET bitmap
         /\ ClosedPixels(ComponentOf(p))
         /\ \A C : p \in C /\ ClosedPixels(C) => ComponentOf(p) \subseteq C
<1>1. PICK n : n = Cardinality(bitmap)
  OBVIOUS
<1>2. PICK g : /\ g[0] = {p} /\ \A k \in 1 .. n : g[k] = Wider(g[k - 1])
               /\ ComponentOf(p) = g[n] /\ n \in Nat
  BY <1>1, GrowsTo
<1>3. \A k \in Nat : k + 1 \in 1 .. n => g[k + 1] = Wider(g[k])
  <2> SUFFICES ASSUME NEW k \in Nat, k + 1 \in 1 .. n PROVE g[k + 1] = Wider(g[k])
    OBVIOUS
  <2>1. (k + 1) - 1 = k
    OBVIOUS
  <2> QED BY <1>2, <2>1
<1> DEFINE T == {k \in Nat : k <= n => /\ p \in g[k] /\ g[k] \in SUBSET bitmap
                                       /\ ClosedPixels(g[k]) \/ Cardinality(g[k]) >= k + 1
                                       /\ \A C : p \in C /\ ClosedPixels(C) => g[k] \subseteq C}
<1>4. 0 \in T
  <2>1. Cardinality({p}) = 1
    BY FS_Singleton
  <2> QED BY <1>2, <2>1
<1>5. ASSUME NEW k \in T PROVE k + 1 \in T
  <2> SUFFICES ASSUME k + 1 <= n
               PROVE  /\ p \in g[k + 1] /\ g[k + 1] \in SUBSET bitmap
                      /\ ClosedPixels(g[k + 1]) \/ Cardinality(g[k + 1]) >= (k + 1) + 1
                      /\ \A C : p \in C /\ ClosedPixels(C) => g[k + 1] \subseteq C
    OBVIOUS
  <2>1. k \in Nat /\ k <= n /\ k + 1 \in 1 .. n
    BY <1>2
  <2>2. PICK a, b : a = g[k] /\ b = g[k + 1]
    OBVIOUS
  <2>3. b = Wider(a)
    BY <1>3, <2>1, <2>2
  <2>4. /\ p \in a /\ a \in SUBSET bitmap /\ (ClosedPixels(a) \/ Cardinality(a) >= k + 1)
        /\ \A C : p \in C /\ ClosedPixels(C) => a \subseteq C
    BY <2>1, <2>2
  <2>5. p \in b /\ b \in SUBSET bitmap /\ a \subseteq b
    BY <2>3, <2>4 DEF Wider
  <2>6. \A C : p \in C /\ ClosedPixels(C) => b \subseteq C
    BY <2>3, <2>4 DEF Wider, ClosedPixels
  <2>7. ClosedPixels(b) \/ Cardinality(b) >= (k + 1) + 1
    <3>1. CASE a = b
      <4>1. ClosedPixels(b)
        BY <2>3, <3>1 DEF Wider, ClosedPixels
      <4> QED BY <4>1
    <3>2. CASE a # b
      <4>1. ~ ClosedPixels(a)
        BY <2>3, <2>5, <3>2 DEF Wider, ClosedPixels
      <4>2. Cardinality(a) >= k + 1
        BY <2>4, <4>1
      <4>3. IsFiniteSet(b) /\ a \in SUBSET b
        BY <2>5, FS_Subset
      <4>4. IsFiniteSet(a) /\ Cardinality(a) <= Cardinality(b) /\ Cardinality(b) # Cardinality(a)
        BY <3>2, <4>3, FS_Subset
      <4>5. Cardinality(a) \in Nat /\ Cardinality(b) \in Nat
        BY <4>3, <4>4, FS_CardinalityType
      <4> QED BY <2>1, <4>2, <4>4, <4>5
    <3> QED BY <3>1, <3>2
  <2> QED BY <2>2, <2>5, <2>6, <2>7
<1> HIDE DEF T
<1>6. \A k \in Nat : k \in T
  <2>1. T \in SUBSET Nat
    BY DEF T
  <2> QED BY <1>4, <1>5, <2>1, Induct
<1>7. n \in T /\ n <= n
  BY <1>2, <1>6
<1>8. /\ p \in g[n] /\ g[n] \in SUBSET bitmap
      /\ ClosedPixels(g[n]) \/ Cardinality(g[n]) >= n + 1
      /\ \A C : p \in C /\ ClosedPixels(C) => g[n] \subseteq C
  BY <1>7 DEF T
<1>9. Cardinality(g[n]) <= n /\ Cardinality(g[n]) \in Nat
  BY <1>1, <1>8, FS_Subset, FS_CardinalityType
<1> QED BY <1>2, <1>8, <1>9

\* A label's pixels are a component.
LEMMA LabelIsComponent ==
  ASSUME OnImage, touching = TouchingOf(bitmap), Linked, NEW p \in bitmap
  PROVE  ComponentOf(p) = {q \in bitmap : labels[BlockOf(q)] = labels[BlockOf(p)]}
<1>1. bitmap \in SUBSET Image /\ IsFiniteSet(bitmap)
  BY ImageFinite, FS_Subset DEF OnImage
<1>2. \A q \in bitmap : BlockOf(q) \in Blocks
  BY <1>1, BlockOfType
<1>3. PICK C : C = ComponentOf(p)
  OBVIOUS
<1>4. /\ p \in C /\ C \in SUBSET bitmap /\ ClosedPixels(C)
      /\ \A D : p \in D /\ ClosedPixels(D) => C \subseteq D
  BY <1>1, <1>3, ComponentLeast
<1>5. PICK l : l = labels[BlockOf(p)]
  OBVIOUS
<1>6. ASSUME NEW q \in bitmap, NEW r \in bitmap, Touch8(q, r)
      PROVE  labels[BlockOf(q)] = labels[BlockOf(r)]
  <2> DEFINE S == {n \in Blocks : labels[n] = labels[BlockOf(r)]}
  <2>1. ClosedByLinks(S)
    BY DEF ClosedByLinks, Linked
  <2>2. ClosedByTouch(S)
    BY <2>1 DEF Linked
  <2>3. ClosedByPixels(S)
    BY <1>1, <2>2, TouchBothWays
  <2> HIDE DEF S
  <2>4. BlockOf(q) \in S <=> BlockOf(r) \in S
    BY <1>6, <2>3 DEF ClosedByPixels
  <2> QED BY <1>2, <2>4 DEF S
<1>7. C \subseteq {q \in bitmap : labels[BlockOf(q)] = l}
  <2> DEFINE D == {q \in bitmap : labels[BlockOf(q)] = l}
  <2>1. p \in D
    BY <1>5
  <2>2. ClosedPixels(D)
    BY <1>6 DEF ClosedPixels
  <2> HIDE DEF D
  <2>3. C \subseteq D
    BY <1>4, <2>1, <2>2
  <2> QED BY <2>3 DEF D
<1>8. ASSUME NEW q \in bitmap, labels[BlockOf(q)] = l PROVE q \in C
  <2> DEFINE S == {BlockOf(r) : r \in C}
  <2>1. S \in SUBSET Blocks
    BY <1>2, <1>4
  <2>2. ASSUME NEW a \in bitmap, NEW b \in C, BlockOf(a) = BlockOf(b) PROVE a \in C
    <3>1. CASE a = b
      BY <3>1
    <3>2. CASE a # b
      <4>1. a \in Image /\ b \in Image
        BY <1>1, <1>4
      <4>2. Touch8(a, b)
        BY <2>2, <3>2, <4>1, OfOneBlock
      <4> QED BY <1>4, <4>2 DEF ClosedPixels
    <3> QED BY <3>1, <3>2
  <2>3. \A a \in bitmap : BlockOf(a) \in S <=> a \in C
    BY <2>2
  <2>4. \A a, b \in bitmap : Touch8(a, b) => Touch8(b, a)
    <3>1. \A a \in Image : a[1] \in Int /\ a[2] \in Int
      BY Sizes DEF Image
    <3> QED BY <1>1, <3>1 DEF Touch8
  <2>5. ClosedByPixels(S)
    <3> SUFFICES ASSUME NEW a \in bitmap, NEW b \in bitmap, Touch8(a, b)
                 PROVE  BlockOf(a) \in S <=> BlockOf(b) \in S
      BY DEF ClosedByPixels
    <3>1. a \in C <=> b \in C
      BY <1>4, <2>4 DEF ClosedPixels
    <3> QED BY <2>3, <3>1
  <2> HIDE DEF S
  <2>6. ClosedByTouch(S)
    BY <1>1, <2>1, <2>5, TouchBothWays
  <2>7. ClosedByLinks(S)
    BY <2>1, <2>6 DEF Linked
  <2>8. BlockOf(p) \in S
    BY <1>4, <2>3
  <2>9. l \in S
    BY <1>2, <1>5, <2>7, <2>8 DEF ClosedByLinks
  <2>10. BlockOf(q) \in S
    BY <1>2, <1>8, <2>7, <2>9 DEF ClosedByLinks
  <2> QED BY <2>3, <2>10
<1> QED BY <1>3, <1>4, <1>5, <1>7, <1>8

LEMMA AllSeen == ASSUME CclInv, stage = "done", NEW c PROVE SeenOf(c) = PixelsOf(c)
<1>1. OnImage /\ extracted = ThreadBlocks
  BY DEF CclInv
<1> QED BY <1>1, RasterFits DEF SeenOf, PixelsOf

LEMMA NumbersOf ==
  ASSUME CclInv, stage = "done", NEW p \in bitmap
  PROVE  /\ BlockOf(p) \in Blocks /\ IdOf(p) = ids[BlockOf(p)] /\ IdOf(p) \in -1 .. MaxComponents - 1
         /\ IdOf(p) # -1 => PixelsOf(IdOf(p)) = ComponentOf(p)
<1>1. OnImage /\ touching = TouchingOf(bitmap) /\ Linked /\ Numbered
  BY DEF CclInv
<1>2. BlockOf(p) \in Blocks
  BY <1>1, ForegroundRoots
<1>3. IdOf(p) = ids[BlockOf(p)] /\ IdOf(p) \in -1 .. MaxComponents - 1
  BY <1>1, <1>2 DEF IdOf, Numbered
<1>4. ASSUME IdOf(p) # -1 PROVE PixelsOf(IdOf(p)) = ComponentOf(p)
  <2>1. ASSUME NEW q \in bitmap PROVE IdOf(q) = IdOf(p) <=> labels[BlockOf(q)] = labels[BlockOf(p)]
    <3>1. BlockOf(q) \in Blocks /\ IdOf(q) = ids[BlockOf(q)]
      BY <1>1, ForegroundRoots DEF IdOf
    <3> QED BY <1>1, <1>2, <1>3, <1>4, <3>1 DEF Numbered
  <2>2. PixelsOf(IdOf(p)) = {q \in bitmap : labels[BlockOf(q)] = labels[BlockOf(p)]}
    BY <2>1 DEF PixelsOf
  <2> QED BY <1>1, <2>2, LabelIsComponent
<1> QED BY <1>2, <1>3, <1>4

LEMMA FoundComponents == CclInv => ComponentsFound
<1> SUFFICES ASSUME CclInv, stage = "done"
             PROVE  /\ \A p \in bitmap :
                         \/ IdOf(p) = -1 /\ Cardinality({ids[n] : n \in Blocks} \ {-1}) = MaxComponents
                         \/ PixelsOf(IdOf(p)) = ComponentOf(p)
                    /\ \A c \in DOMAIN boxes : boxes[c] = Accumulate(NoBox, PixelsOf(c))
  BY DEF ComponentsFound
<1>1. OnImage /\ Numbered /\ Gathered /\ MaxComponents \in Nat \ {0}
  BY GridAssumption DEF CclInv
<1>2. ASSUME NEW p \in bitmap, IdOf(p) = -1
      PROVE  Cardinality({ids[n] : n \in Blocks} \ {-1}) = MaxComponents
  <2>1. ids[BlockOf(p)] = -1
    BY <1>2, NumbersOf
  <2>2. \A c \in 0 .. MaxComponents - 1 : \E n \in Blocks : ids[n] = c
    BY <1>1, <2>1 DEF Numbered
  <2>3. \A n \in Blocks : ids[n] \in -1 .. MaxComponents - 1
    BY <1>1 DEF Numbered
  <2>4. {ids[n] : n \in Blocks} \ {-1} = 0 .. MaxComponents - 1
    BY <1>1, <2>2, <2>3
  <2>5. Cardinality(0 .. MaxComponents - 1) = MaxComponents
    BY <1>1, FS_Interval
  <2> QED BY <2>4, <2>5
<1>3. ASSUME NEW c \in DOMAIN boxes PROVE boxes[c] = Accumulate(NoBox, PixelsOf(c))
  <2>1. boxes[c] = BoxOf(SeenOf(c))
    BY <1>1 DEF Gathered
  <2>2. PixelsOf(c) \in SUBSET bitmap
    BY DEF PixelsOf
  <2> QED BY <1>1, <2>1, <2>2, AllSeen, AccumulatedIs
<1> QED BY <1>2, <1>3, NumbersOf

-----------------------------------------------------------------------------
\* Growing: every kept component reaches as far as its perimeter says.

LEMMA TouchSameNumber ==
  ASSUME CclInv, stage = "done", NEW p \in bitmap, NEW q \in bitmap, Touch8(q, p)
  PROVE  IdOf(q) = IdOf(p)
<1>1. OnImage /\ touching = TouchingOf(bitmap) /\ Linked /\ Numbered
  BY DEF CclInv
<1>2. IsFiniteSet(bitmap)
  BY <1>1, ImageFinite, FS_Subset DEF OnImage
<1>3. q \in ComponentOf(p)
  BY <1>2, ComponentLeast DEF ClosedPixels
<1>4. labels[BlockOf(q)] = labels[BlockOf(p)]
  BY <1>1, <1>3, LabelIsComponent
<1> QED BY <1>1, <1>4, NumbersOf DEF Numbered

\* A component has an edge: beside its leftmost pixel.
LEMMA PerimeterType ==
  ASSUME CclInv, stage = "done", NEW p \in bitmap, IdOf(p) >= 0
  PROVE  Perimeter(IdOf(p)) \in Nat \ {0}
<1>1. PICK c : c = IdOf(p)
  OBVIOUS
<1>2. OnImage /\ bitmap \in SUBSET Image
  BY DEF CclInv, OnImage
<1>3. \A q \in Image : q[1] \in Nat /\ q[2] \in Nat /\ q = <<q[1], q[2]>>
  BY Sizes DEF Image
<1>4. p \in PixelsOf(c) /\ PixelsOf(c) \in SUBSET bitmap
  BY <1>1 DEF PixelsOf
<1> DEFINE xs == {q[1] : q \in PixelsOf(c)}
           dirs == {<<-1, 0>>, <<1, 0>>, <<0, -1>>, <<0, 1>>}
           edges == {s \in PixelsOf(c) \X dirs : <<s[1][1] + s[2][1], s[1][2] + s[2][2]>> \notin bitmap}
<1>5. xs \in SUBSET Nat /\ xs # {}
  BY <1>2, <1>3, <1>4
<1>6. PICK x \in xs : \A y \in xs : x <= y
  BY <1>5, LeastOf
<1>7. PICK q \in PixelsOf(c) : q[1] = x
  BY <1>6
<1>8. q \in bitmap /\ IdOf(q) = c /\ q \in Image /\ q[1] \in Nat /\ q[2] \in Nat
  BY <1>2, <1>3, <1>4, <1>7 DEF PixelsOf
<1>9. <<q[1] - 1, q[2]>> \notin bitmap
  <2> SUFFICES ASSUME <<q[1] - 1, q[2]>> \in bitmap PROVE FALSE
    OBVIOUS
  <2>1. PICK r : r = <<q[1] - 1, q[2]>>
    OBVIOUS
  <2>2. Touch8(r, q)
    BY <1>8, <2>1 DEF Touch8
  <2>3. IdOf(r) = c
    BY <1>8, <2>1, <2>2, TouchSameNumber
  <2>4. r \in PixelsOf(c)
    BY <2>1, <2>3 DEF PixelsOf
  <2>5. x <= r[1]
    BY <1>6, <2>4
  <2> QED BY <1>7, <1>8, <2>1, <2>5
<1>10. <<q, <<-1, 0>>>> \in edges
  <2>1. q[1] + -1 = q[1] - 1 /\ q[2] + 0 = q[2]
    BY <1>8
  <2> QED BY <1>7, <1>9, <2>1
<1>11. IsFiniteSet(PixelsOf(c))
  BY <1>2, <1>4, ImageFinite, FS_Subset
<1>12. IsFiniteSet(dirs)
  <2>1. IsFiniteSet({<<-1, 0>>})
    BY FS_Singleton
  <2>2. IsFiniteSet({<<-1, 0>>} \cup {<<1, 0>>})
    BY <2>1, FS_AddElement
  <2>3. IsFiniteSet(({<<-1, 0>>} \cup {<<1, 0>>}) \cup {<<0, -1>>})
    BY <2>2, FS_AddElement
  <2>4. IsFiniteSet((({<<-1, 0>>} \cup {<<1, 0>>}) \cup {<<0, -1>>}) \cup {<<0, 1>>})
    BY <2>3, FS_AddElement
  <2>5. dirs = (({<<-1, 0>>} \cup {<<1, 0>>}) \cup {<<0, -1>>}) \cup {<<0, 1>>}
    OBVIOUS
  <2> QED BY <2>4, <2>5
<1>13. IsFiniteSet(edges)
  <2>1. PICK P, D : P = PixelsOf(c) /\ D = dirs
    OBVIOUS
  <2>2. IsFiniteSet(P \X D)
    BY <1>11, <1>12, <2>1, FS_Product
  <2>3. edges \in SUBSET (P \X D)
    BY <2>1
  <2> HIDE DEF edges
  <2> QED BY <2>2, <2>3, FS_Subset
<1>14. Perimeter(c) = Cardinality(edges)
  BY DEF Perimeter
<1> HIDE DEF edges
<1>15. Cardinality(edges) \in Nat /\ Cardinality(edges) # 0
  BY <1>10, <1>13, FS_CardinalityType, FS_EmptySet
<1> QED BY <1>1, <1>14, <1>15

LEMMA ExpandType ==
  ASSUME CclInv, stage = "done", NEW p \in bitmap, IdOf(p) >= 0
  PROVE  ExpandOf(IdOf(p)) \in Nat
<1>1. PICK c, d : c = IdOf(p) /\ d = Perimeter(c)
  OBVIOUS
<1>2. d \in Nat \ {0}
  BY <1>1, PerimeterType
<1>3. OnImage /\ Gathered /\ c \in 0 .. MaxComponents - 1
  BY <1>1, NumbersOf, GridAssumption DEF CclInv
<1>4. boxes[c] \in BoxType
  <2>1. boxes[c] = BoxOf(SeenOf(c)) /\ SeenOf(c) \in SUBSET bitmap
    BY <1>3 DEF Gathered, SeenOf
  <2> QED BY <1>3, <2>1, BoxOfType
<1>5. PICK n : n = boxes[c].count
  OBVIOUS
<1>6. n \in Nat
  BY <1>4, <1>5 DEF BoxType
<1>7. n * UnclipRatio \in Nat
  BY <1>6, GridAssumption
<1>8. (n * UnclipRatio) \div d \in Nat
  BY <1>2, <1>7, DivMod
<1>9. PICK a : a = (n * UnclipRatio) \div d
  OBVIOUS
<1>10. PICK m : m = Min({MaxExpand, a})
  OBVIOUS
<1>11. m \in Nat
  <2>1. {MaxExpand, a} \in SUBSET Nat /\ {MaxExpand, a} # {}
    BY <1>8, <1>9, GridAssumption
  <2> QED BY <1>10, <2>1, LeastIs
<1>12. Max({MinExpand, m}) \in Nat
  <2>1. {MinExpand, m} \in SUBSET Nat /\ {MinExpand, m} # {} /\ MinExpand + m \in Nat
    BY <1>11, GridAssumption
  <2>2. \A y \in {MinExpand, m} : y <= MinExpand + m
    BY <1>11, GridAssumption
  <2> QED BY <2>1, <2>2, GreatestIs
<1> QED BY <1>1, <1>5, <1>9, <1>10, <1>12 DEF ExpandOf

Sign(d) == IF d > 0 THEN 1 ELSE IF d < 0 THEN -1 ELSE 0
LEMMA SquareLess ==
  ASSUME NEW d \in Int
  PROVE  /\ (d - Sign(d)) * (d - Sign(d)) <= d * d /\ d * d \in Nat
         /\ d # 0 => (d - Sign(d)) * (d - Sign(d)) < d * d
<1>1. CASE d > 0
  <2>1. (d - 1) * (d - 1) = d * d - 2 * d + 1
    OBVIOUS
  <2> QED BY <1>1, <2>1 DEF Sign
<1>2. CASE d < 0
  <2>1. (d + 1) * (d + 1) = d * d + 2 * d + 1
    OBVIOUS
  <2>2. d - -1 = d + 1 /\ Sign(d) = -1
    BY <1>2 DEF Sign
  <2>3. d * d > 0
    BY <1>2
  <2> QED BY <1>2, <2>1, <2>2, <2>3
<1>3. CASE d = 0
  BY <1>3 DEF Sign
<1> QED BY <1>1, <1>2, <1>3

LEMMA DistanceType == \A p, q \in Image : Distance2(p, q) \in Nat
<1> SUFFICES ASSUME NEW p \in Image, NEW q \in Image PROVE Distance2(p, q) \in Nat
  OBVIOUS
<1>1. PICK d, e : d = p[1] - q[1] /\ e = p[2] - q[2]
  OBVIOUS
<1>2. d \in Int /\ e \in Int
  BY <1>1, Sizes DEF Image
<1>3. d * d \in Nat /\ e * e \in Nat
  BY <1>2, SquareLess
<1> QED BY <1>1, <1>3 DEF Distance2

\* From any pixel one step leads towards another, nearer to it.
LEMMA StepTowards ==
  ASSUME NEW p \in Image, NEW q \in Image, p # q
  PROVE  \E r \in Image : Touch8(p, r) /\ Touch8(r, p) /\ Distance2(r, q) < Distance2(p, q)
<1>1. PICK x, y, u, v : x = p[1] /\ y = p[2] /\ u = q[1] /\ v = q[2]
  OBVIOUS
<1>2. /\ x \in 0 .. W - 1 /\ u \in 0 .. W - 1 /\ y \in 0 .. H - 1 /\ v \in 0 .. H - 1
      /\ p = <<x, y>> /\ q = <<u, v>> /\ W \in Nat /\ H \in Nat
  BY <1>1, Sizes DEF Image
<1>3. x # u \/ y # v
  BY <1>2
<1>4. PICK d, e, s, t : d = x - u /\ e = y - v /\ s = Sign(d) /\ t = Sign(e)
  OBVIOUS
<1>5. d \in Int /\ e \in Int /\ s \in -1 .. 1 /\ t \in -1 .. 1
  BY <1>2, <1>4 DEF Sign
<1>6. PICK r : r = <<x - s, y - t>>
  OBVIOUS
<1>7. x - s \in 0 .. W - 1 /\ y - t \in 0 .. H - 1
  BY <1>2, <1>4 DEF Sign
<1>8. r \in Image /\ r[1] = x - s /\ r[2] = y - t
  BY <1>6, <1>7 DEF Image
<1>9. r # p
  BY <1>2, <1>3, <1>4, <1>6 DEF Sign
<1>10. Touch8(p, r) /\ Touch8(r, p)
  <2>1. p[1] - r[1] = s /\ p[2] - r[2] = t
    BY <1>1, <1>2, <1>5, <1>8
  <2>2. r[1] - p[1] = 0 - s /\ r[2] - p[2] = 0 - t
    BY <1>1, <1>2, <1>5, <1>8
  <2>3. 0 - s \in -1 .. 1 /\ 0 - t \in -1 .. 1
    BY <1>5
  <2> QED BY <1>5, <1>9, <2>1, <2>2, <2>3 DEF Touch8
<1>11. PICK a, b, f, g : a = d * d /\ b = e * e /\ f = (d - s) * (d - s) /\ g = (e - t) * (e - t)
  OBVIOUS
<1>12. f <= a /\ g <= b /\ (d # 0 => f < a) /\ (e # 0 => g < b)
  BY <1>4, <1>5, <1>11, SquareLess
<1>13. a \in Int /\ b \in Int /\ f \in Int /\ g \in Int
  BY <1>5, <1>11
<1>14. Distance2(p, q) = a + b
  BY <1>1, <1>4, <1>11 DEF Distance2
<1>15. Distance2(r, q) = f + g
  <2>1. r[1] - q[1] = d - s /\ r[2] - q[2] = e - t
    BY <1>1, <1>2, <1>4, <1>5, <1>8
  <2> QED BY <1>11, <2>1 DEF Distance2
<1>16. d # 0 \/ e # 0
  BY <1>2, <1>3, <1>4
<1> QED BY <1>8, <1>10, <1>12, <1>13, <1>14, <1>15, <1>16

\* The growing pixel nearest to one of the background is on the boundary.
LEMMA NearestIsSeed ==
  ASSUME CclInv, stage = "done", NEW q \in Background, Reaching(q, Growing) # {}
  PROVE  \E p \in Reaching(q, Seeds) : \A o \in Reaching(q, Growing) : Distance2(p, q) <= Distance2(o, q)
<1>1. bitmap \in SUBSET Image /\ q \in Image /\ q \notin bitmap
  BY DEF CclInv, OnImage, Background
<1>2. \A p \in Growing : p \in bitmap /\ p \in Image /\ IdOf(p) >= 0
  BY <1>1 DEF Growing
<1>3. PICK near : near = Reaching(q, Growing)
  OBVIOUS
<1>4. near # {} /\ near \in SUBSET Growing
  BY <1>3 DEF Reaching
<1> DEFINE ds == {Distance2(p, q) : p \in near}
<1>5. ds \in SUBSET Nat /\ ds # {}
  BY <1>1, <1>2, <1>4, DistanceType
<1>6. PICK d \in ds : \A e \in ds : d <= e
  BY <1>5, LeastOf
<1>7. PICK p \in near : d = Distance2(p, q)
  BY <1>6
<1>8. \A o \in near : Distance2(p, q) <= Distance2(o, q)
  BY <1>6, <1>7
<1>9. p \in Growing /\ p \in bitmap /\ p \in Image /\ IdOf(p) >= 0 /\ ExpandOf(IdOf(p)) > 0
  BY <1>2, <1>4, <1>7 DEF Growing
<1>10. PICK r \in Image : Touch8(p, r) /\ Touch8(r, p) /\ Distance2(r, q) < Distance2(p, q)
  BY <1>1, <1>9, StepTowards
<1>11. r \notin bitmap
  <2> SUFFICES ASSUME r \in bitmap PROVE FALSE
    OBVIOUS
  <2>1. IdOf(r) = IdOf(p)
    BY <1>9, <1>10, TouchSameNumber
  <2>2. r \in Growing
    BY <1>9, <2>1 DEF Growing
  <2>3. PICK e : e = ExpandOf(IdOf(p))
    OBVIOUS
  <2>4. e \in Nat
    BY <1>9, <2>3, ExpandType
  <2>5. Distance2(p, q) * 10000 <= e * e
    BY <1>3, <1>7, <2>3 DEF Reaching
  <2>6. Distance2(r, q) \in Nat /\ Distance2(p, q) \in Nat
    BY <1>1, <1>9, DistanceType
  <2>7. Distance2(r, q) * 10000 <= e * e
    <3>1. e * e \in Nat
      BY <2>4
    <3> QED BY <1>10, <2>5, <2>6, <3>1
  <2>8. r \in near
    BY <1>3, <2>1, <2>2, <2>3, <2>7 DEF Reaching
  <2>9. Distance2(p, q) <= Distance2(r, q)
    BY <1>8, <2>8
  <2> QED BY <1>10, <2>6, <2>9
<1>12. p \in Seeds
  BY <1>9, <1>10, <1>11 DEF Seeds, Background
<1>13. p \in Reaching(q, Seeds)
  BY <1>3, <1>7, <1>12 DEF Reaching
<1> QED BY <1>3, <1>8, <1>13

LEMMA GrownToTheNearest == CclInv => NearestGrows
<1> SUFFICES ASSUME CclInv, stage = "done", NEW q \in Background
             PROVE  LET near == Reaching(q, Growing)
                        owners == {c \in DOMAIN boxes : q \in Grown(c)}
                        Nearest(p) == \A o \in near : Distance2(p, q) <= Distance2(o, q)
                    IN  IF near = {} THEN owners = {}
                        ELSE \E p \in near : owners = {IdOf(p)} /\ Nearest(p)
  BY Zenon DEF NearestGrows
<1>1. /\ bitmap \in SUBSET Image /\ q \in Image /\ q \notin bitmap
      /\ DOMAIN boxes = 0 .. MaxComponents - 1 /\ MaxComponents \in Nat \ {0}
  BY GridAssumption DEF CclInv, OnImage, Background, Gathered
<1>2. PICK near, some : near = Reaching(q, Growing) /\ some = Reaching(q, Seeds)
  OBVIOUS
<1>3. some \in SUBSET near /\ near \in SUBSET Growing
  BY <1>2 DEF Reaching, Seeds
<1>4. \A p \in near : /\ p \in bitmap /\ p \in Image /\ IdOf(p) \in 0 .. MaxComponents - 1
                      /\ Distance2(p, q) \in Nat
  BY <1>1, <1>3, NumbersOf, DistanceType DEF Growing
<1>5. \A c \in DOMAIN boxes : q \in Grown(c) <=> OwnerOf(q) = c
  BY <1>1 DEF Grown, PixelsOf
<1>6. CASE near = {}
  <2>1. OwnerOf(q) = -1
    BY <1>2, <1>3, <1>6 DEF OwnerOf
  <2>2. {c \in DOMAIN boxes : q \in Grown(c)} = {}
    BY <1>1, <1>5, <2>1
  <2> QED BY <1>2, <1>6, <2>2
<1>7. CASE near # {}
  <2>1. PICK p \in some : \A o \in near : Distance2(p, q) <= Distance2(o, q)
    BY <1>2, <1>7, NearestIsSeed
  <2> DEFINE keys == {Key(o, q) : o \in some}
  <2>2. \A o \in near : Key(o, q) \in Nat
    <3> SUFFICES ASSUME NEW o \in near PROVE Key(o, q) \in Nat
      OBVIOUS
    <3>1. PICK a, i : a = Distance2(o, q) /\ i = IdOf(o)
      OBVIOUS
    <3>2. a \in Nat /\ i \in Nat
      BY <1>1, <1>4, <3>1
    <3>3. a * (MaxComponents + 1) + i \in Nat
      BY <1>1, <3>2
    <3> QED BY <3>1, <3>3 DEF Key
  <2>3. keys \in SUBSET Nat /\ keys # {}
    BY <1>3, <2>1, <2>2
  <2>4. PICK k : k = Min(keys)
    OBVIOUS
  <2>5. k \in keys /\ \A j \in keys : k <= j
    <3> HIDE DEF keys
    <3> QED BY <2>3, <2>4, LeastIs
  <2>6. PICK n \in some : k = Key(n, q)
    BY <2>5
  <2>7. PICK a, i, b, j, m : /\ a = Distance2(n, q) /\ i = IdOf(n) /\ b = Distance2(p, q) /\ j = IdOf(p)
                             /\ m = MaxComponents + 1
    OBVIOUS
  <2>8. /\ a \in Nat /\ b \in Nat /\ i \in 0 .. m - 1 /\ j \in 0 .. m - 1 /\ m \in Nat \ {0}
        /\ i \in DOMAIN boxes
    <3>1. n \in near /\ p \in near
      BY <1>3, <2>1
    <3> QED BY <1>1, <1>4, <2>7, <3>1
  <2>9. k = a * m + i /\ Key(p, q) = b * m + j
    BY <2>6, <2>7 DEF Key
  <2>10. a * m + i <= b * m + j
    BY <2>1, <2>5, <2>9
  <2>11. a <= b
    <3> SUFFICES ASSUME a >= b + 1 PROVE FALSE
      BY <2>8
    <3>1. a * m >= (b + 1) * m /\ (b + 1) * m = b * m + m /\ a * m \in Nat /\ b * m \in Nat
      BY <2>8
    <3> QED BY <2>8, <2>10, <3>1
  <2>12. k % m = i
    <3>1. a * m + i = m * a + i
      BY <2>8
    <3>2. (m * a + i) % m = i
      BY <2>8, DivModIs
    <3> QED BY <2>9, <3>1, <3>2
  <2>13. OwnerOf(q) = i
    <3>1. OwnerOf(q) = Min(keys) % (MaxComponents + 1)
      BY <1>2, <2>1 DEF OwnerOf
    <3> HIDE DEF keys
    <3> QED BY <2>4, <2>7, <2>12, <3>1
  <2>14. {c \in DOMAIN boxes : q \in Grown(c)} = {i}
    BY <1>5, <2>8, <2>13
  <2>15. n \in near /\ \A o \in near : Distance2(n, q) <= Distance2(o, q)
    <3>1. \A o \in near : b <= Distance2(o, q) /\ Distance2(o, q) \in Nat
      BY <1>4, <2>1, <2>7
    <3> QED BY <1>3, <2>7, <2>8, <2>11, <3>1
  <2> QED BY <1>2, <1>7, <2>7, <2>14, <2>15
<1> QED BY <1>6, <1>7

\* Whatever the size of the bitmap, its foreground and the network's scores,
\* whatever the order of the threads and however stale their loads, and
\* wherever components meet in a thread block: the labelling numbers exactly
\* the bitmap's components, with their own boxes and scores, and grows each
\* to the background nearest to it.
THEOREM BoxesOfEveryBitmap == CclSpec => []BoxesFound
<1>1. (\E map \in SUBSET Image : \E probability \in [map -> Nat] : Detect(map, probability)) => CclInv
  BY CclInit
<1>2. CclInv => BoxesFound
  BY FoundComponents, GrownToTheNearest DEF BoxesFound
<1> QED BY <1>1, <1>2, CclInvNext, PTL DEF CclSpec

-----------------------------------------------------------------------------
\* The sizes of the detector's pages and the widths of the recogniser's crops: minima and
\* maxima of two numbers, quotients rounded, and steps.

LEMMA LesserIs ==
  ASSUME NEW a \in Int, NEW b \in Int
  PROVE  Min({a, b}) = IF a <= b THEN a ELSE b
<1>1. PICK c \in {a, b} : \A y \in {a, b} : c <= y
  <2>1. CASE a <= b
    BY <2>1
  <2>2. CASE ~(a <= b)
    BY <2>2
  <2> QED BY <2>1, <2>2
<1>2. PICK m : m = Min({a, b})
  OBVIOUS
<1>3. m \in {a, b} /\ \A y \in {a, b} : m <= y
  BY <1>1, <1>2 DEF Min
<1> QED BY <1>2, <1>3

LEMMA GreaterIs ==
  ASSUME NEW a \in Int, NEW b \in Int
  PROVE  Max({a, b}) = IF a <= b THEN b ELSE a
<1>1. PICK c \in {a, b} : \A y \in {a, b} : c >= y
  <2>1. CASE a <= b
    BY <2>1
  <2>2. CASE ~(a <= b)
    BY <2>2
  <2> QED BY <2>1, <2>2
<1>2. PICK m : m = Max({a, b})
  OBVIOUS
<1>3. m \in {a, b} /\ \A y \in {a, b} : m >= y
  BY <1>1, <1>2 DEF Max
<1> QED BY <1>2, <1>3

LEMMA ClampedIs ==
  ASSUME NEW v \in Int, NEW lo \in Int, NEW hi \in Int, lo <= hi
  PROVE  /\ Clamped(v, lo, hi) \in Int
         /\ lo <= Clamped(v, lo, hi) /\ Clamped(v, lo, hi) <= hi
         /\ lo <= v /\ v <= hi => Clamped(v, lo, hi) = v
<1>1. PICK m : m = Min({v, hi})
  OBVIOUS
<1>2. m = IF v <= hi THEN v ELSE hi
  BY <1>1, LesserIs
<1>3. PICK c : c = Max({lo, m})
  OBVIOUS
<1>4. c = IF lo <= m THEN m ELSE lo
  BY <1>2, <1>3, GreaterIs
<1>5. Clamped(v, lo, hi) = c
  BY <1>1, <1>3, Zenon DEF Clamped
<1> QED BY <1>2, <1>4, <1>5

\* A quotient of at most c, rounded to a multiple of 32, is at most any multiple that c is at most.
LEMMA Round32Is ==
  ASSUME NEW num \in Nat, NEW den \in Nat \ {0}, NEW c \in Nat, num <= c * den,
         NEW e \in Nat \ {0}, c <= 32 * e
  PROVE  Round32(num, den) \in Nat /\ 32 <= Round32(num, den) /\ Round32(num, den) <= 32 * e
<1>1. PICK q : q = Rounded(num, 32 * den)
  OBVIOUS
<1>2. q = (2 * num + 32 * den) \div (64 * den)
  BY <1>1 DEF Rounded
<1>3. PICK n, k : n = 2 * num + 32 * den /\ k = 64 * den
  OBVIOUS
<1>4. n \in Nat /\ k \in Nat \ {0}
  BY <1>3
<1>5. q = n \div k
  BY <1>2, <1>3
<1>6. q \in Nat /\ q * k <= n
  BY <1>4, <1>5
<1>7. 32 * q <= 32 * e
  <2> SUFFICES ASSUME q >= e + 1 PROVE FALSE
    BY <1>6
  <2>1. q * k >= (e + 1) * k
    BY <1>4, <1>6
  <2>2. (e + 1) * k = 64 * (e * den) + 64 * den
    BY <1>3
  <2>3. c * den <= 32 * (e * den)
    <3>1. c * den <= (32 * e) * den
      OBVIOUS
    <3>2. (32 * e) * den = 32 * (e * den)
      OBVIOUS
    <3> QED BY <3>1, <3>2
  <2>4. PICK x, y : x = e * den /\ y = c * den
    OBVIOUS
  <2>5. x \in Nat /\ y \in Nat
    BY <2>4
  <2>6. PICK z : z = q * k
    OBVIOUS
  <2> QED BY <1>3, <1>6, <2>1, <2>2, <2>3, <2>4, <2>5, <2>6
<1>8. Round32(num, den) = Max({32 * q, 32})
  BY <1>1, Zenon DEF Round32
<1>9. Max({32 * q, 32}) = IF 32 * q <= 32 THEN 32 ELSE 32 * q
  BY <1>6, GreaterIs
<1> QED BY <1>6, <1>7, <1>8, <1>9

LEMMA Round32Type ==
  ASSUME NEW num \in Nat, NEW den \in Nat \ {0}
  PROVE  Round32(num, den) \in Nat /\ 32 <= Round32(num, den)
<1>1. num <= num * den /\ num <= 32 * (num + 1) /\ num + 1 \in Nat \ {0}
  OBVIOUS
<1> QED BY <1>1, Round32Is

PageSize(page) == page.h \in Nat \ {0} /\ page.w \in Nat \ {0}
Settings(p) == p.limit \in Nat /\ p.cap \in Nat \ {0}

LEMMA ResizeFits ==
  ASSUME NEW page, PageSize(page), NEW p, Settings(p), NEW e \in Nat \ {0}, p.cap <= 32 * e
  PROVE  /\ DetResize(page, p).h \in Nat /\ DetResize(page, p).w \in Nat
         /\ DetResize(page, p).h <= 32 * e /\ DetResize(page, p).w <= 32 * e
<1>1. PICK ph, pw, cap, limit : ph = page.h /\ pw = page.w /\ cap = p.cap /\ limit = p.limit
  OBVIOUS
<1>2. ph \in Nat \ {0} /\ pw \in Nat \ {0} /\ cap \in Nat \ {0} /\ limit \in Nat /\ cap <= 32 * e
  BY <1>1 DEF PageSize, Settings
<1>3. PICK longest, shortest : longest = Max({ph, pw}) /\ shortest = Min({ph, pw})
  OBVIOUS
<1>4. longest \in Nat \ {0} /\ shortest \in Nat \ {0}
  <2>1. longest = IF ph <= pw THEN pw ELSE ph
    BY <1>2, <1>3, GreaterIs
  <2>2. shortest = IF ph <= pw THEN ph ELSE pw
    BY <1>2, <1>3, LesserIs
  <2> QED BY <1>2, <2>1, <2>2
<1>5. PICK ratio : ratio = IF p.policy = "max"
                           THEN IF longest > limit THEN <<limit, longest>> ELSE <<1, 1>>
                           ELSE IF shortest < limit THEN <<limit, shortest>> ELSE <<1, 1>>
  OBVIOUS
<1>6. PICK a, b : a = ratio[1] /\ b = ratio[2]
  OBVIOUS
<1>7. a \in Nat /\ b \in Nat \ {0}
  BY <1>2, <1>4, <1>5, <1>6
<1>8. PICK h, w : h = Round32(ph * a, b) /\ w = Round32(pw * a, b)
  OBVIOUS
<1>9. h \in Nat /\ w \in Nat /\ 32 <= h /\ 32 <= w
  <2>1. ph * a \in Nat /\ pw * a \in Nat
    BY <1>2, <1>7
  <2> QED BY <1>7, <1>8, <2>1, Round32Type
<1>10. PICK out : out = Max({h, w})
  OBVIOUS
<1>11. out \in Nat \ {0} /\ h <= out /\ w <= out
  <2>1. out = IF h <= w THEN w ELSE h
    BY <1>9, <1>10, GreaterIs
  <2> QED BY <1>9, <2>1
<1>12. DetResize(page, p) = IF out <= cap THEN [h |-> h, w |-> w]
                            ELSE [h |-> Round32(h * cap, out), w |-> Round32(w * cap, out)]
  BY <1>1, <1>3, <1>5, <1>6, <1>8, <1>10, Zenon DEF DetResize
<1>13. CASE out <= cap
  BY <1>2, <1>9, <1>11, <1>12, <1>13
<1>14. CASE ~(out <= cap)
  <2>1. /\ h * cap \in Nat /\ w * cap \in Nat
        /\ h * cap <= cap * out /\ w * cap <= cap * out
    BY <1>2, <1>9, <1>11
  <2>2. /\ Round32(h * cap, out) \in Nat /\ Round32(h * cap, out) <= 32 * e
        /\ Round32(w * cap, out) \in Nat /\ Round32(w * cap, out) <= 32 * e
    BY <1>2, <1>11, <2>1, Round32Is
  <2> QED BY <1>12, <1>14, <2>2
<1> QED BY <1>13, <1>14

\* What the environment may hold, atoi having made an integer of any text; and a model's
\* own settings.
Environment(env) == env.limit \in Int /\ env.cap \in Int /\ env.side \in Int
ModelBase(base) == base.limit \in Nat /\ base.cap \in DetMaxSideMin .. DetMaxSideMax

LEMMA SettingsFit ==
  ASSUME NEW base, ModelBase(base), NEW env, Environment(env)
  PROVE  /\ Settings(ReadDetResize(base, env))
         /\ \E e \in Nat \ {0} : /\ EffectiveMaxSide(ReadDetResize(base, env), env) = 32 * e
                                 /\ ReadDetResize(base, env).cap <= 32 * e
<1>1. PICK lo, hi : lo = DetMaxSideMin /\ hi = DetMaxSideMax
  OBVIOUS
<1>2. lo \in Nat \ {0} /\ hi \in Nat /\ lo <= hi
  BY <1>1, SidesAssumption
<1>3. \A v \in Int : /\ Clamped(v, lo, hi) \in Int /\ lo <= Clamped(v, lo, hi) /\ Clamped(v, lo, hi) <= hi
                     /\ lo <= v /\ v <= hi => Clamped(v, lo, hi) = v
  BY <1>2, ClampedIs
<1>4. PICK bl, bc, el, ec, es : /\ bl = base.limit /\ bc = base.cap
                                /\ el = env.limit /\ ec = env.cap /\ es = env.side
  OBVIOUS
<1>5. bl \in Nat /\ bc \in Int /\ lo <= bc /\ bc <= hi /\ el \in Int /\ ec \in Int /\ es \in Int
  BY <1>1, <1>4, SidesAssumption DEF ModelBase, Environment
<1>6. PICK policy : policy = IF env.policy = "" THEN base.policy ELSE env.policy
  OBVIOUS
<1>7. PICK cap0 : cap0 = IF ec = 0 THEN bc ELSE Clamped(ec, lo, hi)
  OBVIOUS
<1>8. cap0 \in Int /\ lo <= cap0 /\ cap0 <= hi
  <2>1. CASE ec = 0
    BY <1>5, <1>7, <2>1
  <2>2. CASE ec # 0
    BY <1>3, <1>5, <1>7, <2>2
  <2> QED BY <2>1, <2>2
<1>9. PICK side : side = Clamped(es, lo, hi)
  OBVIOUS
<1>10. side \in Int /\ lo <= side /\ side <= hi
  BY <1>3, <1>5, <1>9
<1>11. PICK cap : cap = IF es = 0 THEN cap0 ELSE Min({cap0, side})
  OBVIOUS
<1>12. cap \in Int /\ lo <= cap /\ cap <= hi /\ (es # 0 => cap <= side)
  <2>1. Min({cap0, side}) = IF cap0 <= side THEN cap0 ELSE side
    BY <1>8, <1>10, LesserIs
  <2> QED BY <1>8, <1>10, <1>11, <2>1
<1>13. PICK limit : limit = IF el # 0 THEN Clamped(el, lo, hi)
                            ELSE IF base.policy = "min" /\ policy = "max" THEN cap ELSE bl
  OBVIOUS
<1>14. limit \in Nat
  <2>1. Clamped(el, lo, hi) \in Int /\ lo <= Clamped(el, lo, hi)
    BY <1>3, <1>5
  <2>2. PICK c : c = Clamped(el, lo, hi)
    OBVIOUS
  <2> QED BY <1>2, <1>5, <1>12, <1>13, <2>1, <2>2
<1>15. ReadDetResize(base, env) = [policy |-> policy, limit |-> limit, cap |-> cap]
  BY <1>1, <1>4, <1>6, <1>7, <1>9, <1>11, <1>13, Zenon DEF ReadDetResize
<1>16. PICK p : p = ReadDetResize(base, env)
  OBVIOUS
<1>17. p.limit = limit /\ p.cap = cap
  BY <1>15, <1>16
<1>18. PICK u : u = IF es = 0 THEN cap ELSE es
  OBVIOUS
<1>19. PICK v : v = Clamped(u, lo, hi)
  OBVIOUS
<1>20. v \in Int /\ lo <= v /\ v <= hi /\ cap <= v
  <2>1. CASE es = 0
    BY <1>3, <1>12, <1>18, <1>19, <2>1
  <2>2. CASE es # 0
    BY <1>5, <1>9, <1>10, <1>12, <1>18, <1>19, <2>2
  <2> QED BY <2>1, <2>2
<1>21. PICK e : e = (v + 31) \div 32
  OBVIOUS
<1>22. e \in Nat \ {0} /\ v <= 32 * e
  BY <1>2, <1>20, <1>21
<1>23. EffectiveMaxSide(p, env) = 32 * e
  BY <1>1, <1>4, <1>17, <1>18, <1>19, <1>21, Zenon DEF EffectiveMaxSide
<1>24. Settings(p)
  BY <1>2, <1>12, <1>14, <1>17 DEF Settings
<1>25. p.cap <= 32 * e
  BY <1>12, <1>17, <1>20, <1>22
<1> QED BY <1>16, <1>22, <1>23, <1>24, <1>25

\* Whatever integers the environment holds (atoi makes one of any text), set or not, and
\* whichever pages come in whatever batches: neither a page's resized size nor the canvas of
\* its batch is larger than the side by which effective_det_max_side sizes the engine's
\* profile and the buffers, though the cap is rounded to steps of 32 on the way.
THEOREM BuffersFit ==
  ASSUME NEW base, ModelBase(base), NEW env, Environment(env),
         NEW Pages, \A page \in Pages : PageSize(page), NEW pages \in Seq(Pages), pages # <<>>
  PROVE  /\ FitsBuffers(pages, base, env)
         /\ \A i \in DOMAIN pages : LET p == ReadDetResize(base, env)
                                      size == DetResize(pages[i], p)
                                  IN  size.h <= EffectiveMaxSide(p, env) /\ size.w <= EffectiveMaxSide(p, env)
<1>0. PICK n \in Nat \ {0} : DOMAIN pages = 1 .. n /\ Len(pages) = n /\ \A i \in 1 .. n : PageSize(pages[i])
  OBVIOUS
<1>1. PICK p : p = ReadDetResize(base, env)
  OBVIOUS
<1>2. PICK e \in Nat \ {0} : EffectiveMaxSide(p, env) = 32 * e /\ p.cap <= 32 * e
  BY <1>1, SettingsFit
<1>3. Settings(p)
  BY <1>1, SettingsFit
<1>4. \A i \in 1 .. n : /\ DetResize(pages[i], p).h \in Nat /\ DetResize(pages[i], p).w \in Nat
                        /\ DetResize(pages[i], p).h <= 32 * e /\ DetResize(pages[i], p).w <= 32 * e
  BY <1>0, <1>2, <1>3, ResizeFits
<1>5. PICK m : m = Min({Len(pages), DetBatch})
  OBVIOUS
<1>6. m \in Nat \ {0} /\ m <= n
  <2>1. m = IF n <= DetBatch THEN n ELSE DetBatch
    BY <1>0, <1>5, SidesAssumption, LesserIs
  <2> QED BY <2>1, SidesAssumption
<1>7. PICK sizes : sizes = {DetResize(pages[i], p) : i \in 1 .. m}
  OBVIOUS
<1>8. PICK hs, ws : hs = {s.h : s \in sizes} /\ ws = {s.w : s \in sizes}
  OBVIOUS
<1>9. /\ hs \in SUBSET Nat /\ hs # {} /\ \A y \in hs : y <= 32 * e
      /\ ws \in SUBSET Nat /\ ws # {} /\ \A y \in ws : y <= 32 * e
  <2>1. \A s \in sizes : s.h \in Nat /\ s.w \in Nat /\ s.h <= 32 * e /\ s.w <= 32 * e
    BY <1>4, <1>6, <1>7
  <2>2. DetResize(pages[1], p) \in sizes
    BY <1>6, <1>7
  <2> QED BY <1>8, <2>1, <2>2
<1>10. PICK ch, cw : ch = Max(hs) /\ cw = Max(ws)
  OBVIOUS
<1>11. ch <= 32 * e /\ cw <= 32 * e
  <2>1. 32 * e \in Nat
    OBVIOUS
  <2>2. Max(hs) \in hs
    BY <1>9, <2>1, GreatestIs
  <2>3. Max(ws) \in ws
    BY <1>9, <2>1, GreatestIs
  <2> QED BY <1>9, <1>10, <2>2, <2>3
<1>12. Canvas(pages, p) = [h |-> ch, w |-> cw]
  BY <1>5, <1>7, <1>8, <1>10, Zenon DEF Canvas
<1>13. FitsBuffers(pages, base, env)
  <2>1. PICK c : c = Canvas(pages, p)
    OBVIOUS
  <2>2. c.h <= EffectiveMaxSide(p, env) /\ c.w <= EffectiveMaxSide(p, env)
    BY <1>2, <1>11, <1>12, <2>1
  <2> QED BY <1>1, <2>1, <2>2, Zenon DEF FitsBuffers
<1> QED BY <1>0, <1>1, <1>2, <1>4, <1>13, Zenon

\* The width a crop asks for, before any bound.
WideOf(box) ==
  LET b == Upright(box) IN IF b.h > 0 THEN (RecHeight * b.w + b.h - 1) \div b.h ELSE 0

LEMMA CropWidthIs ==
  ASSUME NEW box \in [w : Nat, h : Nat], NEW max \in Nat
  PROVE  /\ WideOf(box) \in Nat
         /\ CropWidth(box, RecHeight, max) =
              IF WideOf(box) <= max THEN IF WideOf(box) <= 1 THEN 1 ELSE WideOf(box)
              ELSE IF max <= 1 THEN 1 ELSE max
<1>1. PICK b : b = Upright(box)
  OBVIOUS
<1>2. b.w \in Nat /\ b.h \in Nat
  BY <1>1 DEF Upright
<1>3. PICK bw, bh, wide : bw = b.w /\ bh = b.h
                          /\ wide = IF bh > 0 THEN (RecHeight * bw + bh - 1) \div bh ELSE 0
  OBVIOUS
<1>4. wide \in Nat
  <2>1. CASE bh > 0
    <3>1. PICK n : n = RecHeight * bw + bh - 1
      OBVIOUS
    <3>2. RecHeight * bw \in Nat
      BY <1>2, <1>3, WidthsAssumption
    <3>3. n \in Nat /\ bh \in Nat \ {0}
      BY <1>2, <1>3, <2>1, <3>1, <3>2
    <3> QED BY <1>3, <2>1, <3>1, <3>3
  <2>2. CASE ~(bh > 0)
    BY <1>3, <2>2
  <2> QED BY <2>1, <2>2
<1>5. WideOf(box) = wide
  BY <1>1, <1>3, Zenon DEF WideOf
<1>6. CropWidth(box, RecHeight, max) = Max({Min({wide, max}), 1})
  BY <1>1, <1>3, Zenon DEF CropWidth
<1>7. PICK m : m = Min({wide, max})
  OBVIOUS
<1>8. m = IF wide <= max THEN wide ELSE max
  BY <1>4, <1>7, LesserIs
<1>9. Max({m, 1}) = IF m <= 1 THEN 1 ELSE m
  BY <1>4, <1>8, GreaterIs
<1>10. CropWidth(box, RecHeight, max) = IF m <= 1 THEN 1 ELSE m
  BY <1>6, <1>7, <1>9, Zenon
<1> QED BY <1>4, <1>5, <1>8, <1>10

LEMMA SnapBucketIs ==
  ASSUME NEW w \in Nat, w <= MaxRecWidth
  PROVE  SnapBucket(w) \in Nat /\ w <= SnapBucket(w) /\ SnapBucket(w) <= MaxRecWidth
<1>1. Min({w, MaxRecWidth}) = w
  BY WidthsAssumption, LesserIs
<1>2. PICK S : S = {b \in WidthBuckets : b >= w}
  OBVIOUS
<1>3. S \in SUBSET Nat /\ MaxRecWidth \in S /\ \A b \in S : w <= b
  BY <1>2, WidthsAssumption
<1>4. Min(S) \in S /\ Min(S) <= MaxRecWidth
  BY <1>3, LeastIs
<1>5. SnapBucket(w) = Min(S)
  BY <1>1, <1>2, Zenon DEF SnapBucket
<1> QED BY <1>3, <1>4, <1>5

LEMMA SnapStepIs ==
  ASSUME NEW w \in Nat, w <= MaxRecWidth, NEW step \in Nat \ {0}
  PROVE  SnapStep(w, step) - w \in 0 .. step - 1 /\ SnapStep(w, step) <= MaxRecWidth
<1>1. PICK q, n : n = w + step - 1 /\ q = n \div step
  OBVIOUS
<1>2. n \in Nat /\ q \in Nat /\ q * step <= n /\ n < q * step + step
  <2>1. n \in Nat
    BY <1>1
  <2>2. q \in Nat /\ q * step <= n /\ n < (q + 1) * step
    BY <1>1, <2>1
  <2>3. (q + 1) * step = q * step + step
    BY <2>2
  <2> QED BY <2>1, <2>2, <2>3
<1>3. PICK s : s = q * step
  OBVIOUS
<1>4. s \in Nat /\ w <= s /\ s - w <= step - 1
  BY <1>1, <1>2, <1>3
<1>5. PICK m : m = Min({s, MaxRecWidth})
  OBVIOUS
<1>6. m = IF s <= MaxRecWidth THEN s ELSE MaxRecWidth
  BY <1>4, <1>5, WidthsAssumption, LesserIs
<1>7. m \in Nat
  BY <1>4, <1>6, WidthsAssumption
<1>8. Max({m, w}) = IF m <= w THEN w ELSE m
  BY <1>7, GreaterIs
<1>9. SnapStep(w, step) = Max({m, w})
  BY <1>1, <1>3, <1>5, Zenon DEF SnapStep
<1>10. PICK r : r = SnapStep(w, step)
  OBVIOUS
<1>11. r = IF m <= w THEN w ELSE m
  BY <1>8, <1>9, <1>10
<1> QED BY <1>4, <1>6, <1>7, <1>10, <1>11, WidthsAssumption

\* A crop is as wide in the recognisers' inputs, which are narrower than the widest, as it would
\* be in the widest: neither the width of its own input (CPU) nor the bucket it is rounded up to
\* (GPU) squeezes it, and the CPU's step adds less than a step and stays within the widest.
THEOREM CropsKeepTheirWidth ==
  ASSUME NEW box \in [w : Nat, h : Nat], NEW step \in Nat \ {0}
  PROVE  LET natural == CropWidth(box, RecHeight, MaxRecWidth)
         IN  /\ CropWidth(box, RecHeight, InputWidth(box)) = natural
             /\ CropWidth(box, RecHeight, SnapBucket(InputWidth(box))) = natural
             /\ natural <= InputWidth(box) /\ InputWidth(box) <= SnapBucket(InputWidth(box))
             /\ SnapStep(InputWidth(box), step) - InputWidth(box) \in 0 .. step - 1
             /\ SnapStep(InputWidth(box), step) <= MaxRecWidth
<1>1. PICK wide, natural, input : /\ wide = WideOf(box) /\ natural = CropWidth(box, RecHeight, MaxRecWidth)
                                  /\ input = InputWidth(box)
  OBVIOUS
<1>2. /\ wide \in Nat
      /\ natural = IF wide <= MaxRecWidth THEN IF wide <= 1 THEN 1 ELSE wide ELSE MaxRecWidth
  BY <1>1, CropWidthIs, WidthsAssumption
<1>3. natural \in Nat /\ natural <= MaxRecWidth
  BY <1>2, WidthsAssumption
<1>4. input = IF natural <= MinRecWidth THEN MinRecWidth ELSE natural
  <2>1. input = Max({natural, MinRecWidth})
    BY <1>1, Zenon DEF InputWidth
  <2> QED BY <1>3, <2>1, WidthsAssumption, GreaterIs
<1>5. input \in Nat /\ natural <= input /\ input <= MaxRecWidth
  BY <1>3, <1>4, WidthsAssumption
<1>6. \A max \in Nat : input <= max /\ max <= MaxRecWidth => CropWidth(box, RecHeight, max) = natural
  <2> SUFFICES ASSUME NEW max \in Nat, input <= max, max <= MaxRecWidth
               PROVE  CropWidth(box, RecHeight, max) = natural
    OBVIOUS
  <2>1. CropWidth(box, RecHeight, max) =
          IF wide <= max THEN IF wide <= 1 THEN 1 ELSE wide ELSE IF max <= 1 THEN 1 ELSE max
    BY <1>1, CropWidthIs, Zenon
  <2> QED BY <1>2, <1>5, <2>1, WidthsAssumption
<1>7. PICK snap, padded : snap = SnapBucket(input) /\ padded = SnapStep(input, step)
  OBVIOUS
<1>8. snap \in Nat /\ input <= snap /\ snap <= MaxRecWidth
  BY <1>5, <1>7, SnapBucketIs
<1>9. padded - input \in 0 .. step - 1 /\ padded <= MaxRecWidth
  BY <1>5, <1>7, SnapStepIs
<1>10. CropWidth(box, RecHeight, input) = natural /\ CropWidth(box, RecHeight, snap) = natural
  BY <1>5, <1>6, <1>8
<1> QED BY <1>1, <1>5, <1>7, <1>8, <1>9, <1>10, Zenon

-----------------------------------------------------------------------------
\* The first of the highest scores among the columns S.
FirstIn(prob, S, j) == j \in S /\ \A k \in S : prob[k] < prob[j] \/ (prob[k] = prob[j] /\ j <= k)

\* What both folds do with the best so far and the next column; ties go to the smaller column or,
\* where the columns come in order, are left to the one that came first.
Take(prob, tie, a, b) == IF prob[b] > prob[a] \/ (tie = 1 /\ prob[b] = prob[a] /\ b < a) THEN b ELSE a

LEMMA FirstOfBoth ==
  ASSUME NEW n \in Nat, NEW prob \in [1 .. n -> Int],
         NEW S \in SUBSET (1 .. n), NEW T \in SUBSET (1 .. n), NEW a, FirstIn(prob, S, a), NEW b, FirstIn(prob, T, b)
  PROVE  FirstIn(prob, S \cup T, Take(prob, 1, a, b))
<1>1. PICK x, y : x = prob[a] /\ y = prob[b]
  OBVIOUS
<1>2. a \in 1 .. n /\ b \in 1 .. n /\ x \in Int /\ y \in Int
  BY <1>1 DEF FirstIn
<1>3. \A k \in S : prob[k] \in Int /\ (prob[k] < x \/ (prob[k] = x /\ a <= k)) /\ k \in Nat
  BY <1>1 DEF FirstIn
<1>4. \A k \in T : prob[k] \in Int /\ (prob[k] < y \/ (prob[k] = y /\ b <= k)) /\ k \in Nat
  BY <1>1 DEF FirstIn
<1>5. PICK c : c = Take(prob, 1, a, b)
  OBVIOUS
<1>6. CASE y > x \/ (y = x /\ b < a)
  <2>1. c = b
    BY <1>1, <1>5, <1>6 DEF Take
  <2>2. \A k \in S : prob[k] < y \/ (prob[k] = y /\ b <= k)
    BY <1>2, <1>3, <1>6
  <2> QED BY <1>1, <1>4, <1>5, <2>1, <2>2 DEF FirstIn
<1>7. CASE ~(y > x \/ (y = x /\ b < a))
  <2>1. c = a
    BY <1>1, <1>5, <1>7 DEF Take
  <2>2. \A k \in T : prob[k] < x \/ (prob[k] = x /\ a <= k)
    BY <1>2, <1>4, <1>7
  <2> QED BY <1>1, <1>3, <1>5, <2>1, <2>2 DEF FirstIn
<1> QED BY <1>6, <1>7

LEMMA FirstOfNext ==
  ASSUME NEW n \in Nat, NEW prob \in [1 .. n -> Int],
         NEW S \in SUBSET (1 .. n), NEW a, FirstIn(prob, S, a), NEW b \in 1 .. n, \A k \in S : k <= b
  PROVE  FirstIn(prob, S \cup {b}, Take(prob, 0, a, b))
<1>1. PICK x, y : x = prob[a] /\ y = prob[b]
  OBVIOUS
<1>2. a \in 1 .. n /\ a <= b /\ x \in Int /\ y \in Int
  BY <1>1 DEF FirstIn
<1>3. \A k \in S : prob[k] \in Int /\ (prob[k] < x \/ (prob[k] = x /\ a <= k)) /\ k \in Nat
  BY <1>1 DEF FirstIn
<1>5. PICK c : c = Take(prob, 0, a, b)
  OBVIOUS
<1>6. CASE y > x
  <2>1. c = b
    BY <1>1, <1>5, <1>6 DEF Take
  <2>2. \A k \in S : prob[k] < y
    BY <1>2, <1>3, <1>6
  <2>3. \A k \in S \cup {b} : prob[k] < prob[b] \/ (prob[k] = prob[b] /\ b <= k)
    BY <1>1, <1>2, <2>2
  <2> QED BY <1>5, <2>1, <2>3 DEF FirstIn
<1>7. CASE ~(y > x)
  <2>1. c = a
    BY <1>1, <1>5, <1>7 DEF Take
  <2>2. y < x \/ (y = x /\ a <= b)
    BY <1>2, <1>7
  <2> QED BY <1>1, <1>3, <1>5, <2>1, <2>2 DEF FirstIn
<1> QED BY <1>6, <1>7

LEMMA FirstExists ==
  ASSUME NEW n \in Nat, NEW prob \in [1 .. n -> Int], NEW S \in SUBSET (1 .. n), S # {}
  PROVE  \E j : FirstIn(prob, S, j)
<1> DEFINE T == {m \in Nat : \A R \in SUBSET (1 .. n) :
                   R # {} /\ (\A k \in R : k <= m) => \E j : FirstIn(prob, R, j)}
<1>1. 0 \in T
  <2>1. \A R \in SUBSET (1 .. n) : (\A k \in R : k <= 0) => R = {}
    OBVIOUS
  <2> QED BY <2>1
<1>2. ASSUME NEW m \in T PROVE m + 1 \in T
  <2> SUFFICES ASSUME NEW R \in SUBSET (1 .. n), R # {}, \A k \in R : k <= m + 1
               PROVE  \E j : FirstIn(prob, R, j)
    OBVIOUS
  <2>1. m \in Nat /\ \A Q \in SUBSET (1 .. n) : Q # {} /\ (\A k \in Q : k <= m) => \E j : FirstIn(prob, Q, j)
    OBVIOUS
  <2> HIDE DEF T
  <2>2. CASE m + 1 \notin R
    <3>1. \A k \in R : k <= m
      BY <2>1, <2>2
    <3> QED BY <2>1, <3>1
  <2>3. CASE R = {m + 1}
    <3>1. prob[m + 1] \in Int
      BY <2>3
    <3>2. FirstIn(prob, R, m + 1)
      BY <2>1, <2>3, <3>1 DEF FirstIn
    <3> QED BY <3>2
  <2>4. CASE m + 1 \in R /\ R # {m + 1}
    <3>1. PICK Q : Q = R \ {m + 1}
      OBVIOUS
    <3>2. Q \in SUBSET (1 .. n) /\ Q # {} /\ R = Q \cup {m + 1} /\ m + 1 \in 1 .. n
      BY <2>4, <3>1
    <3>3. \A k \in Q : k <= m /\ k <= m + 1
      BY <2>1, <3>1
    <3>4. PICK a : FirstIn(prob, Q, a)
      BY <2>1, <3>2, <3>3
    <3>5. FirstIn(prob, Q \cup {m + 1}, Take(prob, 0, a, m + 1))
      BY <3>2, <3>3, <3>4, FirstOfNext
    <3> QED BY <3>2, <3>5
  <2> QED BY <2>2, <2>3, <2>4
<1> HIDE DEF T
<1>3. n \in T
  <2>1. T \in SUBSET Nat
    BY DEF T
  <2> QED BY <1>1, <1>2, <2>1, Induct
<1> QED BY <1>3 DEF T

LEMMA FirstIsBest ==
  ASSUME NEW n \in Nat, NEW prob \in [1 .. n -> Int], NEW a, FirstIn(prob, 1 .. n, a)
  PROVE  BestClass(prob) = a - 1
<1> DEFINE Best(j) == /\ \A k \in 1 .. n : prob[k] <= prob[j]
                      /\ \A k \in 1 .. j - 1 : prob[k] < prob[j]
<1>1. a \in 1 .. n /\ \A k \in 1 .. n : prob[k] < prob[a] \/ (prob[k] = prob[a] /\ a <= k)
  BY DEF FirstIn
<1>2. \A k \in 1 .. n : prob[k] \in Int
  OBVIOUS
<1>3. Best(a)
  <2>1. \A k \in 1 .. n : prob[k] <= prob[a]
    BY <1>1, <1>2
  <2>2. \A k \in 1 .. a - 1 : prob[k] < prob[a]
    BY <1>1, <1>2
  <2> QED BY <2>1, <2>2
<1>4. ASSUME NEW j \in 1 .. n, Best(j) PROVE j = a
  <2>1. prob[j] = prob[a]
    BY <1>1, <1>2, <1>4
  <2>2. a <= j
    BY <1>1, <1>2, <2>1
  <2>3. ~(a \in 1 .. j - 1)
    BY <1>1, <1>2, <1>4, <2>1
  <2> QED BY <1>1, <2>2, <2>3
<1>5. (CHOOSE j \in 1 .. n : Best(j)) = a
  <2> HIDE DEF Best
  <2> QED BY <1>1, <1>3, <1>4
<1>6. BestClass(prob) = (CHOOSE j \in 1 .. n : Best(j)) - 1
  BY DEF BestClass
<1> QED BY <1>5, <1>6

-----------------------------------------------------------------------------
\* A fold from the left, as the library has it: over the sets of positions.
Walk(f, prob, tie, base, seq, D) ==
  f = [s \in SUBSET D |-> IF s = {} THEN base ELSE Take(prob, tie, f[s \ {Max(s)}], seq[Max(s)])]
LanesWalk(f, prob, base, seq, D) ==
  f = [s \in SUBSET D |-> IF s = {} THEN base
                          ELSE IF Beats(prob, f[s \ {Max(s)}], seq[Max(s)]) THEN seq[Max(s)] ELSE f[s \ {Max(s)}]]
TailWalk(f, prob, base, seq, D) ==
  f = [s \in SUBSET D |-> IF s = {} THEN base
                          ELSE IF prob[seq[Max(s)]] > prob[f[s \ {Max(s)}]] THEN seq[Max(s)] ELSE f[s \ {Max(s)}]]

LanesReduced(prob, base, seq) == FoldLeft(LAMBDA a, b : IF Beats(prob, a, b) THEN b ELSE a, base, seq)
TailReduced(prob, base, seq) == FoldLeft(LAMBDA a, b : IF prob[b] > prob[a] THEN b ELSE a, base, seq)

LEMMA LanesFold ==
  ASSUME NEW prob, NEW base, NEW seq
  PROVE  LanesReduced(prob, base, seq) = (CHOOSE f : LanesWalk(f, prob, base, seq, DOMAIN seq))[DOMAIN seq]
BY DEF LanesReduced, FoldLeft, MapThenFoldSet, LanesWalk

LEMMA TailFold ==
  ASSUME NEW prob, NEW base, NEW seq
  PROVE  TailReduced(prob, base, seq) = (CHOOSE f : TailWalk(f, prob, base, seq, DOMAIN seq))[DOMAIN seq]
BY DEF TailReduced, FoldLeft, MapThenFoldSet, TailWalk

LEMMA WalksAgree ==
  ASSUME NEW prob, NEW base, NEW seq, NEW D, NEW f
  PROVE  /\ LanesWalk(f, prob, base, seq, D) <=> Walk(f, prob, 1, base, seq, D)
         /\ TailWalk(f, prob, base, seq, D) <=> Walk(f, prob, 0, base, seq, D)
<1>1. \A a, b : (IF Beats(prob, a, b) THEN b ELSE a) = Take(prob, 1, a, b)
  BY DEF Beats, Take
<1>2. \A a, b : (IF prob[b] > prob[a] THEN b ELSE a) = Take(prob, 0, a, b)
  BY DEF Take
<1>3. [s \in SUBSET D |-> IF s = {} THEN base
         ELSE IF Beats(prob, f[s \ {Max(s)}], seq[Max(s)]) THEN seq[Max(s)] ELSE f[s \ {Max(s)}]]
      = [s \in SUBSET D |-> IF s = {} THEN base ELSE Take(prob, 1, f[s \ {Max(s)}], seq[Max(s)])]
  BY <1>1
<1>4. [s \in SUBSET D |-> IF s = {} THEN base
         ELSE IF prob[seq[Max(s)]] > prob[f[s \ {Max(s)}]] THEN seq[Max(s)] ELSE f[s \ {Max(s)}]]
      = [s \in SUBSET D |-> IF s = {} THEN base ELSE Take(prob, 0, f[s \ {Max(s)}], seq[Max(s)])]
  BY <1>2
<1> QED BY <1>3, <1>4, Zenon DEF LanesWalk, TailWalk, Walk

LEMMA LastOfSome ==
  ASSUME NEW m \in Nat, NEW s \in SUBSET (1 .. m), s # {}
  PROVE  Max(s) \in s /\ \A y \in s : y <= Max(s)
<1>1. s \in SUBSET Nat /\ \A y \in s : y <= m
  OBVIOUS
<1> QED BY <1>1, GreatestIs

LEMMA WalkExists ==
  ASSUME NEW prob, NEW tie, NEW base, NEW seq
  PROVE  \A m \in Nat : \E f : Walk(f, prob, tie, base, seq, 1 .. m)
<1> DEFINE T == {m \in Nat : \E f : Walk(f, prob, tie, base, seq, 1 .. m)}
<1>1. 0 \in T
  <2> DEFINE f == [s \in SUBSET (1 .. 0) |-> base]
  <2>1. \A s \in SUBSET (1 .. 0) : s = {}
    OBVIOUS
  <2>2. f = [s \in SUBSET (1 .. 0) |-> IF s = {} THEN base ELSE Take(prob, tie, f[s \ {Max(s)}], seq[Max(s)])]
    BY <2>1
  <2>3. Walk(f, prob, tie, base, seq, 1 .. 0)
    BY <2>2 DEF Walk
  <2> QED BY <2>3
<1>2. ASSUME NEW m \in T PROVE m + 1 \in T
  <2>1. m \in Nat /\ \E g : Walk(g, prob, tie, base, seq, 1 .. m)
    OBVIOUS
  <2>2. PICK g : Walk(g, prob, tie, base, seq, 1 .. m)
    BY <2>1
  <2> HIDE DEF T
  <2>3. \A s \in SUBSET (1 .. m) : g[s] = IF s = {} THEN base ELSE Take(prob, tie, g[s \ {Max(s)}], seq[Max(s)])
    BY <2>2 DEF Walk
  <2>4. PICK f : f = [s \in SUBSET (1 .. m + 1) |->
                        IF m + 1 \in s THEN Take(prob, tie, g[s \ {m + 1}], seq[m + 1]) ELSE g[s]]
    OBVIOUS
  <2>5. \A s \in SUBSET (1 .. m) : s \in SUBSET (1 .. m + 1) /\ f[s] = g[s]
    BY <2>1, <2>4
  <2>6. ASSUME NEW s \in SUBSET (1 .. m + 1)
        PROVE  f[s] = IF s = {} THEN base ELSE Take(prob, tie, f[s \ {Max(s)}], seq[Max(s)])
    <3>1. CASE m + 1 \in s
      <4>1. Max(s) = m + 1
        <5>1. PICK x : x = Max(s)
          OBVIOUS
        <5>2. x \in s /\ \A y \in s : y <= x
          <6>1. m + 1 \in Nat /\ s # {}
            BY <2>1, <3>1
          <6> QED BY <5>1, <6>1, LastOfSome
        <5> QED BY <2>1, <3>1, <5>1, <5>2
      <4>2. s \ {m + 1} \in SUBSET (1 .. m)
        BY <2>1
      <4>3. f[s] = Take(prob, tie, g[s \ {m + 1}], seq[m + 1])
        BY <2>4, <3>1
      <4>4. f[s \ {m + 1}] = g[s \ {m + 1}]
        BY <2>5, <4>2
      <4> QED BY <3>1, <4>1, <4>3, <4>4
    <3>2. CASE m + 1 \notin s
      <4>1. s \in SUBSET (1 .. m)
        BY <2>1, <3>2
      <4>2. CASE s = {}
        BY <2>3, <2>5, <4>1, <4>2
      <4>3. CASE s # {}
        <5>1. PICK x : x = Max(s)
          OBVIOUS
        <5>2. s \ {x} \in SUBSET (1 .. m)
          BY <4>1
        <5>3. g[s] = Take(prob, tie, g[s \ {x}], seq[x])
          BY <2>3, <4>1, <4>3, <5>1
        <5>4. f[s] = g[s] /\ f[s \ {x}] = g[s \ {x}]
          BY <2>5, <4>1, <5>2
        <5> QED BY <4>3, <5>1, <5>3, <5>4
      <4> QED BY <4>2, <4>3
    <3> QED BY <3>1, <3>2
  <2>7. f = [s \in SUBSET (1 .. m + 1) |-> IF s = {} THEN base ELSE Take(prob, tie, f[s \ {Max(s)}], seq[Max(s)])]
    <3>1. f = [s \in SUBSET (1 .. m + 1) |-> f[s]]
      BY <2>4
    <3> QED BY <2>6, <3>1
  <2>8. Walk(f, prob, tie, base, seq, 1 .. m + 1)
    BY <2>7 DEF Walk
  <2> QED BY <2>1, <2>8 DEF T
<1> HIDE DEF T
<1>3. \A m \in Nat : m \in T
  <2>1. T \in SUBSET Nat
    BY DEF T
  <2> QED BY <1>1, <1>2, <2>1, Induct
<1> QED BY <1>3 DEF T

LEMMA WalkStart ==
  ASSUME NEW prob, NEW tie, NEW base, NEW seq, NEW m \in Nat, NEW f, Walk(f, prob, tie, base, seq, 1 .. m)
  PROVE  f[1 .. 0] = base
<1>1. PICK s : s = {}
  OBVIOUS
<1>2. s \in SUBSET (1 .. m) /\ s = 1 .. 0
  BY <1>1
<1>3. f[s] = base
  BY <1>1, <1>2, Zenon DEF Walk
<1> QED BY <1>2, <1>3

LEMMA WalkSteps ==
  ASSUME NEW prob, NEW tie, NEW base, NEW seq, NEW m \in Nat, NEW f, Walk(f, prob, tie, base, seq, 1 .. m)
  PROVE  \A k \in 0 .. m - 1 : f[1 .. k + 1] = Take(prob, tie, f[1 .. k], seq[k + 1])
<1>1. \A s \in SUBSET (1 .. m) : f[s] = IF s = {} THEN base ELSE Take(prob, tie, f[s \ {Max(s)}], seq[Max(s)])
  BY DEF Walk
<1>3. ASSUME NEW k \in 0 .. m - 1 PROVE f[1 .. k + 1] = Take(prob, tie, f[1 .. k], seq[k + 1])
  <2>1. PICK s : s = 1 .. k + 1
    OBVIOUS
  <2>2. s \in SUBSET (1 .. m) /\ s # {} /\ k + 1 \in s /\ \A y \in s : y \in Nat /\ y <= k + 1
    BY <2>1
  <2>3. Max(s) = k + 1
    <3>1. PICK x : x = Max(s)
      OBVIOUS
    <3>2. x \in s /\ \A y \in s : y <= x
      BY <2>2, <3>1, LastOfSome
    <3> QED BY <2>2, <3>1, <3>2
  <2>4. s \ {k + 1} = 1 .. k
    BY <2>1
  <2>5. f[s] = Take(prob, tie, f[s \ {Max(s)}], seq[Max(s)])
    BY <1>1, <2>2
  <2> QED BY <2>1, <2>3, <2>4, <2>5
<1> QED BY <1>3

\* The bests after each column of a sequence, the k-th after k of them.
Run(w, prob, tie, base, seq, m) ==
  w[0] = base /\ \A k \in 0 .. m - 1 : w[k + 1] = Take(prob, tie, w[k], seq[k + 1])

LEMMA LanesSteps ==
  ASSUME NEW prob, NEW base, NEW seq, NEW m \in Nat, DOMAIN seq = 1 .. m
  PROVE  \E w : Run(w, prob, 1, base, seq, m) /\ LanesReduced(prob, base, seq) = w[m]
<1>1. PICK g : Walk(g, prob, 1, base, seq, 1 .. m)
  BY WalkExists
<1>2. LanesWalk(g, prob, base, seq, 1 .. m)
  BY <1>1, WalksAgree
<1>3. PICK f : f = CHOOSE h : LanesWalk(h, prob, base, seq, 1 .. m)
  OBVIOUS
<1>4. LanesWalk(f, prob, base, seq, 1 .. m)
  BY <1>2, <1>3
<1>5. Walk(f, prob, 1, base, seq, 1 .. m)
  BY <1>4, WalksAgree
<1>6. PICK w : w = [k \in 0 .. m |-> f[1 .. k]]
  OBVIOUS
<1>7. w[0] = base
  <2>1. f[1 .. 0] = base
    BY <1>5, WalkStart
  <2> QED BY <1>6, <2>1
<1>8. ASSUME NEW k \in 0 .. m - 1 PROVE w[k + 1] = Take(prob, 1, w[k], seq[k + 1])
  <2>1. f[1 .. k + 1] = Take(prob, 1, f[1 .. k], seq[k + 1])
    BY <1>5, WalkSteps
  <2>2. w[k + 1] = f[1 .. k + 1] /\ w[k] = f[1 .. k]
    BY <1>6
  <2> QED BY <2>1, <2>2
<1>9. LanesReduced(prob, base, seq) = w[m]
  <2>1. LanesReduced(prob, base, seq) = f[1 .. m]
    BY <1>3, LanesFold
  <2> QED BY <1>6, <2>1
<1> QED BY <1>7, <1>8, <1>9 DEF Run

LEMMA TailSteps ==
  ASSUME NEW prob, NEW base, NEW seq, NEW m \in Nat, DOMAIN seq = 1 .. m
  PROVE  \E w : Run(w, prob, 0, base, seq, m) /\ TailReduced(prob, base, seq) = w[m]
<1>1. PICK g : Walk(g, prob, 0, base, seq, 1 .. m)
  BY WalkExists
<1>2. TailWalk(g, prob, base, seq, 1 .. m)
  BY <1>1, WalksAgree
<1>3. PICK f : f = CHOOSE h : TailWalk(h, prob, base, seq, 1 .. m)
  OBVIOUS
<1>4. TailWalk(f, prob, base, seq, 1 .. m)
  BY <1>2, <1>3
<1>5. Walk(f, prob, 0, base, seq, 1 .. m)
  BY <1>4, WalksAgree
<1>6. PICK w : w = [k \in 0 .. m |-> f[1 .. k]]
  OBVIOUS
<1>7. w[0] = base
  <2>1. f[1 .. 0] = base
    BY <1>5, WalkStart
  <2> QED BY <1>6, <2>1
<1>8. ASSUME NEW k \in 0 .. m - 1 PROVE w[k + 1] = Take(prob, 0, w[k], seq[k + 1])
  <2>1. f[1 .. k + 1] = Take(prob, 0, f[1 .. k], seq[k + 1])
    BY <1>5, WalkSteps
  <2>2. w[k + 1] = f[1 .. k + 1] /\ w[k] = f[1 .. k]
    BY <1>6
  <2> QED BY <2>1, <2>2
<1>9. TailReduced(prob, base, seq) = w[m]
  <2>1. TailReduced(prob, base, seq) = f[1 .. m]
    BY <1>3, TailFold
  <2> QED BY <1>6, <2>1
<1> QED BY <1>7, <1>8, <1>9 DEF Run

\* The columns that whole registers take, and those of one lane.
WholeOf(n) == n - (n % Lanes)
Columns(n, lane) == {j \in 1 .. WholeOf(n) : (j - 1) % Lanes = lane}

LEMMA WholeIs ==
  ASSUME NEW n \in Nat
  PROVE  /\ WholeOf(n) \in 0 .. n /\ (WholeOf(n) = 0 \/ Lanes <= WholeOf(n))
         /\ \A j \in Nat : j % Lanes \in 0 .. Lanes - 1 /\ (j < Lanes => j % Lanes = j)
<1>1. PICK l : l = Lanes
  OBVIOUS
<1>2. l \in Nat \ {0}
  BY <1>1, LanesAssumption
<1>3. \A j \in Nat : j % l \in 0 .. l - 1 /\ (j < l => j % l = j)
  BY <1>2
<1>4. PICK q, r : q = n \div l /\ r = n % l
  OBVIOUS
<1>5. q \in Nat /\ r \in 0 .. l - 1 /\ n = l * q + r
  BY <1>2, <1>4
<1>6. WholeOf(n) = l * q
  <2>1. l * q \in Nat
    BY <1>2, <1>5
  <2> QED BY <1>1, <1>4, <1>5, <2>1 DEF WholeOf
<1>7. l * q \in Nat /\ (q = 0 => l * q = 0) /\ (q # 0 => l <= l * q)
  <2>1. CASE q = 0
    BY <1>2, <2>1
  <2>2. CASE q # 0
    <3>1. PICK p \in Nat : q = p + 1
      <4>1. q - 1 \in Nat /\ q = (q - 1) + 1
        BY <1>5, <2>2
      <4> QED BY <4>1
    <3>2. l * q = l * p + l /\ l * p \in Nat
      BY <1>2, <3>1
    <3> QED BY <1>2, <2>2, <3>2
  <2> QED BY <2>1, <2>2
<1>8. l * q \in 0 .. n
  BY <1>5, <1>7
<1> QED BY <1>1, <1>3, <1>6, <1>7, <1>8

LEMMA LaneIsFirst ==
  ASSUME NEW n \in Nat, NEW prob \in [1 .. n -> Int], Len(prob) = n, WholeOf(n) # 0, NEW lane \in 0 .. Lanes - 1
  PROVE  FirstIn(prob, Columns(n, lane), LaneBest(prob, lane))
<1>1. PICK cols : cols = Columns(n, lane)
  OBVIOUS
<1>2. cols \in SUBSET (1 .. n)
  BY <1>1, WholeIs DEF Columns
<1>3. lane + 1 \in cols
  <2>1. lane \in Nat /\ lane + 1 <= WholeOf(n) /\ lane < Lanes
    BY WholeIs, LanesAssumption
  <2>2. (lane + 1) - 1 = lane /\ lane % Lanes = lane
    BY <2>1, WholeIs
  <2> QED BY <1>1, <2>1, <2>2 DEF Columns
<1>4. \E j : FirstIn(prob, cols, j)
  BY <1>2, <1>3, FirstExists
<1>5. cols = {j \in DOMAIN prob : (j - 1) % Lanes = lane /\ j <= Len(prob) - (Len(prob) % Lanes)}
  <2>1. PICK whole : whole = WholeOf(n)
    OBVIOUS
  <2>2. whole \in 0 .. n
    BY <2>1, WholeIs
  <2>3. Len(prob) - (Len(prob) % Lanes) = whole
    BY <2>1 DEF WholeOf
  <2>4. DOMAIN prob = 1 .. n
    OBVIOUS
  <2>5. cols = {j \in 1 .. whole : (j - 1) % Lanes = lane}
    BY <1>1, <2>1 DEF Columns
  <2>6. \A j : j \in 1 .. whole <=> j \in 1 .. n /\ j <= whole
    BY <2>2
  <2> QED BY <2>3, <2>4, <2>5, <2>6
<1>6. LaneBest(prob, lane) = CHOOSE j \in cols : \A k \in cols : prob[k] < prob[j] \/ (prob[k] = prob[j] /\ j <= k)
  BY <1>5, Zenon DEF LaneBest
<1>7. PICK best : best = LaneBest(prob, lane)
  OBVIOUS
<1>8. best \in cols /\ \A k \in cols : prob[k] < prob[best] \/ (prob[k] = prob[best] /\ best <= k)
  <2>1. \E j \in cols : \A k \in cols : prob[k] < prob[j] \/ (prob[k] = prob[j] /\ j <= k)
    BY <1>4 DEF FirstIn
  <2> QED BY <1>6, <1>7, <2>1, Zenon
<1> QED BY <1>1, <1>7, <1>8 DEF FirstIn

LEMMA HeadAndTail ==
  ASSUME NEW S, NEW m \in Nat, NEW s \in [1 .. m + 1 -> S]
  PROVE  Head(s) = s[1] /\ Tail(s) = [i \in 1 .. m |-> s[i + 1]]
<1>1. PICK c : c = m + 1
  OBVIOUS
<1>2. c \in Nat /\ s \in [1 .. c -> S]
  BY <1>1
<1>3. s \in Seq(S) /\ Len(s) = c
  BY <1>2
<1>4. s # <<>>
  BY <1>1, <1>3
<1>5. Head(s) = s[1]
  BY <1>3, <1>4
<1>6. PICK t : t = Tail(s)
  OBVIOUS
<1>7. t \in Seq(S) /\ Len(t) = c - 1 /\ \A i \in 1 .. Len(t) : t[i] = s[i + 1]
  BY <1>3, <1>4, <1>6, HeadTailProperties
<1>8. Len(t) = m
  BY <1>1, <1>7
<1>9. t = [i \in 1 .. m |-> t[i]]
  BY <1>7, <1>8
<1>10. t = [i \in 1 .. m |-> s[i + 1]]
  BY <1>7, <1>8, <1>9
<1> QED BY <1>5, <1>6, <1>10

\* What the lanes have found together.
LEMMA LanesFind ==
  ASSUME NEW n \in Nat, NEW prob \in [1 .. n -> Int], Len(prob) = n, WholeOf(n) # 0,
         NEW lanes, lanes = [l \in 1 .. Lanes |-> LaneBest(prob, l - 1)]
  PROVE  FirstIn(prob, 1 .. WholeOf(n),
                 LanesReduced(prob, Head(lanes), Tail(lanes)))
<1>1. PICK m : m = Lanes - 1
  OBVIOUS
<1>2. m \in Nat /\ Lanes = m + 1
  BY <1>1, LanesAssumption
<1>3. PICK base, seq : base = Head(lanes) /\ seq = Tail(lanes)
  OBVIOUS
<1>4. base = lanes[1] /\ DOMAIN seq = 1 .. m /\ \A k \in 0 .. m - 1 : seq[k + 1] = lanes[k + 2]
  <2>0. PICK S : S = {LaneBest(prob, l - 1) : l \in 1 .. Lanes}
    OBVIOUS
  <2>1. lanes \in [1 .. m + 1 -> S]
    BY <1>2, <2>0
  <2>2. Head(lanes) = lanes[1] /\ Tail(lanes) = [i \in 1 .. m |-> lanes[i + 1]]
    BY <1>2, <2>1, HeadAndTail
  <2>3. base = lanes[1] /\ seq = [i \in 1 .. m |-> lanes[i + 1]]
    BY <1>3, <2>2
  <2>4. \A k \in 0 .. m - 1 : k + 1 \in 1 .. m /\ (k + 1) + 1 = k + 2
    BY <1>2
  <2> QED BY <2>2, <2>3, <2>4
<1>5. base = LaneBest(prob, 0) /\ \A k \in 0 .. m - 1 : seq[k + 1] = LaneBest(prob, k + 1)
  <2>1. 1 \in 1 .. Lanes /\ 1 - 1 = 0 /\ \A k \in 0 .. m - 1 : k + 2 \in 1 .. Lanes /\ (k + 2) - 1 = k + 1
    BY <1>2
  <2> QED BY <1>4, <2>1
<1>13. PICK f : Run(f, prob, 1, base, seq, m) /\ LanesReduced(prob, base, seq) = f[m]
  <2>1. m \in Nat
    BY <1>2
  <2>2. DOMAIN seq = 1 .. m
    BY <1>4
  <2> QED BY <2>1, <2>2, LanesSteps
<1>6. /\ f[0] = base
      /\ \A k \in 0 .. m - 1 : f[k + 1] = Take(prob, 1, f[k], seq[k + 1])
      /\ LanesReduced(prob, base, seq) = f[m]
  BY <1>13 DEF Run
<1> DEFINE C(k) == {j \in 1 .. WholeOf(n) : (j - 1) % Lanes <= k}
           T == {k \in Nat : k <= m => FirstIn(prob, C(k), f[k])}
<1>7. \A j \in 1 .. WholeOf(n) : (j - 1) % Lanes \in 0 .. m
  <2>1. \A j \in 1 .. WholeOf(n) : j - 1 \in Nat
    BY WholeIs
  <2> QED BY <1>1, <2>1, WholeIs
<1>8. 0 \in T
  <2>1. C(0) = Columns(n, 0)
    BY <1>7 DEF Columns
  <2>2. FirstIn(prob, Columns(n, 0), LaneBest(prob, 0))
    BY LanesAssumption, LaneIsFirst
  <2> QED BY <1>5, <1>6, <2>1, <2>2
<1>9. ASSUME NEW k \in T PROVE k + 1 \in T
  <2>0. k \in Nat /\ (k <= m => FirstIn(prob, C(k), f[k]))
    OBVIOUS
  <2> HIDE DEF C
  <2> SUFFICES ASSUME k + 1 <= m PROVE FirstIn(prob, C(k + 1), f[k + 1])
    BY <2>0
  <2> HIDE DEF T
  <2>1. k \in Nat /\ k <= m /\ k \in 0 .. m - 1 /\ FirstIn(prob, C(k), f[k])
    BY <1>2, <2>0
  <2> USE DEF C
  <2>2. FirstIn(prob, Columns(n, k + 1), LaneBest(prob, k + 1))
    <3>1. k + 1 \in 0 .. Lanes - 1
      BY <1>2, <2>1
    <3> HIDE DEF C
    <3> QED BY <3>1, LaneIsFirst
  <2>3. C(k) \in SUBSET (1 .. n) /\ Columns(n, k + 1) \in SUBSET (1 .. n)
    <3>1. \A j \in 1 .. WholeOf(n) : j \in 1 .. n
      BY WholeIs
    <3> QED BY <3>1 DEF Columns
  <2>4. C(k + 1) = C(k) \cup Columns(n, k + 1)
    BY <1>7, <2>1 DEF Columns
  <2> HIDE DEF C
  <2>5. f[k + 1] = Take(prob, 1, f[k], LaneBest(prob, k + 1))
    BY <1>2, <1>5, <1>6, <2>1
  <2> QED BY <2>1, <2>2, <2>3, <2>4, <2>5, FirstOfBoth
<1>10. m \in T
  <2>1. T \in SUBSET Nat
    OBVIOUS
  <2> HIDE DEF T
  <2> QED BY <1>2, <1>8, <1>9, <2>1, Induct
<1>11. FirstIn(prob, C(m), f[m])
  BY <1>2, <1>10
<1>12. C(m) = 1 .. WholeOf(n)
  BY <1>7
<1> HIDE DEF C, T
<1> QED BY <1>3, <1>6, <1>11, <1>12

\* The columns that fill no register follow one by one.
LEMMA TailFinds ==
  ASSUME NEW n \in Nat \ {0}, NEW prob \in [1 .. n -> Int], NEW whole \in 0 .. n,
         NEW base, whole # 0 => FirstIn(prob, 1 .. whole, base), whole = 0 => base = 1,
         NEW tail, tail = [i \in 1 .. n - whole |-> whole + i]
  PROVE  FirstIn(prob, 1 .. n, TailReduced(prob, base, tail))
<1>1. PICK m : m = n - whole
  OBVIOUS
<1>2. m \in Nat /\ n = whole + m /\ DOMAIN tail = 1 .. m /\ \A k \in 0 .. m - 1 : tail[k + 1] = whole + (k + 1)
  BY <1>1
<1>10. PICK seq : seq = tail
  OBVIOUS
<1>9. PICK f : Run(f, prob, 0, base, seq, m) /\ TailReduced(prob, base, seq) = f[m]
  <2>1. m \in Nat
    BY <1>2
  <2>2. DOMAIN seq = 1 .. m
    BY <1>2, <1>10
  <2> QED BY <2>1, <2>2, TailSteps
<1>3. /\ f[0] = base
      /\ \A k \in 0 .. m - 1 : f[k + 1] = Take(prob, 0, f[k], tail[k + 1])
      /\ TailReduced(prob, base, tail) = f[m]
  BY <1>9, <1>10 DEF Run
<1> DEFINE C(k) == IF whole + k = 0 THEN {1} ELSE 1 .. whole + k
           T == {k \in Nat : k <= m => FirstIn(prob, C(k), f[k])}
<1>4. 0 \in T
  <2>1. CASE whole = 0
    <3>1. prob[1] \in Int
      OBVIOUS
    <3>2. FirstIn(prob, {1}, 1)
      BY <3>1 DEF FirstIn
    <3> QED BY <1>3, <2>1, <3>2
  <2>2. CASE whole # 0
    <3>1. C(0) = 1 .. whole
      BY <2>2
    <3> QED BY <1>3, <2>2, <3>1
  <2> QED BY <2>1, <2>2
<1>5. ASSUME NEW k \in T PROVE k + 1 \in T
  <2>0. k \in Nat /\ (k <= m => FirstIn(prob, C(k), f[k]))
    OBVIOUS
  <2> HIDE DEF C
  <2> SUFFICES ASSUME k + 1 <= m PROVE FirstIn(prob, C(k + 1), f[k + 1])
    BY <2>0
  <2> HIDE DEF T
  <2>1. k \in Nat /\ k <= m /\ k \in 0 .. m - 1 /\ FirstIn(prob, C(k), f[k])
    BY <1>2, <2>0
  <2> USE DEF C
  <2>2. PICK b : b = whole + (k + 1)
    OBVIOUS
  <2>3. b \in 1 .. n /\ C(k) \in SUBSET (1 .. n) /\ (\A j \in C(k) : j <= b) /\ C(k + 1) = C(k) \cup {b}
    BY <1>2, <2>1, <2>2
  <2>4. f[k + 1] = Take(prob, 0, f[k], b)
    BY <1>2, <1>3, <2>1, <2>2
  <2> HIDE DEF C
  <2>5. PICK before, best : before = C(k) /\ best = f[k]
    OBVIOUS
  <2>6. /\ n \in Nat /\ b \in 1 .. n /\ before \in SUBSET (1 .. n)
        /\ FirstIn(prob, before, best) /\ \A j \in before : j <= b
    BY <2>1, <2>3, <2>5
  <2>7. FirstIn(prob, before \cup {b}, Take(prob, 0, best, b))
    <3> HIDE DEF T
    <3> QED BY <2>6, FirstOfNext
  <2> QED BY <2>3, <2>4, <2>5, <2>7
<1>6. m \in T
  <2>1. T \in SUBSET Nat
    OBVIOUS
  <2> HIDE DEF T
  <2> QED BY <1>2, <1>4, <1>5, <2>1, Induct
<1>7. FirstIn(prob, C(m), f[m])
  BY <1>2, <1>6
<1>8. C(m) = 1 .. n
  BY <1>2
<1> HIDE DEF C, T
<1> QED BY <1>3, <1>7, <1>8

LEMMA ArgmaxesAgree ==
  ASSUME NEW prob \in Seq(Int), prob # <<>>
  PROVE  BestClassInLanes(prob) = BestClass(prob) /\ BestClass(prob) \in 0 .. Len(prob) - 1
<1>1. PICK n \in Nat \ {0} : Len(prob) = n /\ prob \in [1 .. n -> Int]
  OBVIOUS
<1>2. PICK whole : whole = WholeOf(n)
  OBVIOUS
<1>3. whole \in 0 .. n /\ whole = Len(prob) - (Len(prob) % Lanes)
  BY <1>1, <1>2, WholeIs DEF WholeOf
<1>4. PICK tail : tail = [i \in 1 .. Len(prob) - whole |-> whole + i]
  OBVIOUS
<1>5. PICK lanes : lanes = IF whole = 0 THEN <<1>> ELSE [l \in 1 .. Lanes |-> LaneBest(prob, l - 1)]
  OBVIOUS
<1>6. PICK base : base = LanesReduced(prob, Head(lanes), Tail(lanes))
  OBVIOUS
<1>7. PICK best : best = TailReduced(prob, base, tail)
  OBVIOUS
<1>8. BestClassInLanes(prob) = best - 1
  BY <1>3, <1>4, <1>5, <1>6, <1>7, Zenon DEF BestClassInLanes, LanesReduced, TailReduced
<1>9. whole # 0 => FirstIn(prob, 1 .. whole, base)
  <2> SUFFICES ASSUME whole # 0 PROVE FirstIn(prob, 1 .. whole, base)
    OBVIOUS
  <2>1. lanes = [l \in 1 .. Lanes |-> LaneBest(prob, l - 1)]
    BY <1>5
  <2> QED BY <1>1, <1>2, <1>6, <2>1, LanesFind
<1>10. whole = 0 => base = 1
  <2> SUFFICES ASSUME whole = 0 PROVE base = 1
    OBVIOUS
  <2>1. Head(lanes) = 1 /\ Tail(lanes) = <<>>
    BY <1>5
  <2>2. PICK seq : seq = Tail(lanes)
    OBVIOUS
  <2>3. DOMAIN seq = 1 .. 0
    <3>1. seq = <<>>
      BY <2>1, <2>2
    <3> QED BY <3>1
  <2>4. PICK f : Run(f, prob, 1, 1, seq, 0) /\ LanesReduced(prob, 1, seq) = f[0]
    <3>1. 0 \in Nat
      OBVIOUS
    <3> QED BY <2>3, <3>1, LanesSteps
  <2>5. f[0] = 1
    BY <2>4 DEF Run
  <2> QED BY <1>6, <2>1, <2>2, <2>4, <2>5
<1>11. FirstIn(prob, 1 .. n, best)
  BY <1>1, <1>3, <1>4, <1>7, <1>9, <1>10, TailFinds
<1>12. best \in 1 .. n
  BY <1>11 DEF FirstIn
<1> QED BY <1>1, <1>8, <1>11, <1>12, FirstIsBest

\* A line is decoded the same with vector registers as without, for any number of classes (also
\* fewer than a register holds) and of lanes and wherever equal scores lie: argmax_avx2 finds
\* the class that the scalar loop finds, as its comment claims.
THEOREM RegistersChangeNothing ==
  ASSUME NEW probs \in Seq(Seq(Int) \ {<<>>}), NEW dictionary
  PROVE  DecodeRaw(probs, TRUE, dictionary) = DecodeRaw(probs, FALSE, dictionary)
<1>1. \A i \in DOMAIN probs : BestClassInLanes(probs[i]) = BestClass(probs[i])
  BY ArgmaxesAgree
<1>2. [i \in DOMAIN probs |-> BestClassInLanes(probs[i])] = [i \in DOMAIN probs |-> BestClass(probs[i])]
  BY <1>1
<1>3. PICK index : index = [i \in DOMAIN probs |-> BestClass(probs[i])]
  OBVIOUS
<1>4. /\ [i \in DOMAIN probs |-> IF TRUE THEN BestClassInLanes(probs[i]) ELSE BestClass(probs[i])] = index
      /\ [i \in DOMAIN probs |-> IF FALSE THEN BestClassInLanes(probs[i]) ELSE BestClass(probs[i])] = index
  BY <1>2, <1>3
<1> QED BY <1>4, Zenon DEF DecodeRaw

-----------------------------------------------------------------------------
\* The regions of a page (RegionRouter).

\* A function that is defined by recursion over 0 .. N exists.
LEMMA Recursion ==
  ASSUME NEW D, NEW z \in D, NEW N \in Nat, NEW step \in [1 .. N -> [D -> D]]
  PROVE  \E f \in [0 .. N -> D] : f[0] = z /\ \A k \in 1 .. N : f[k] = step[k][f[k - 1]]
<1> DEFINE Is(f, m) == f[0] = z /\ \A k \in 1 .. m : f[k] = step[k][f[k - 1]]
           P == {m \in 0 .. N : \E f \in [0 .. m -> D] : Is(f, m)}
<1>1. 0 \in P
  <2> DEFINE g == [k \in 0 .. 0 |-> z]
  <2>1. g \in [0 .. 0 -> D] /\ Is(g, 0)
    OBVIOUS
  <2> HIDE DEF g, Is
  <2> QED BY <2>1
<1>2. ASSUME NEW m \in 1 .. N, m - 1 \in P PROVE m \in P
  <2>1. PICK f \in [0 .. m - 1 -> D] : Is(f, m - 1)
    BY <1>2
  <2> DEFINE g == [k \in 0 .. m |-> IF k = m THEN step[m][f[m - 1]] ELSE f[k]]
  <2>2. f[m - 1] \in D /\ step[m][f[m - 1]] \in D
    OBVIOUS
  <2>3. g \in [0 .. m -> D]
    <3> SUFFICES ASSUME NEW k \in 0 .. m PROVE g[k] \in D
      OBVIOUS
    <3>1. CASE k = m
      BY <2>2, <3>1
    <3>2. CASE k # m
      BY <3>2
    <3> QED BY <3>1, <3>2
  <2>4. g[0] = z
    BY <2>1
  <2>5. ASSUME NEW k \in 1 .. m PROVE g[k] = step[k][g[k - 1]]
    <3>1. CASE k = m
      BY <3>1
    <3>2. CASE k # m
      <4>1. k \in 1 .. m - 1 /\ g[k] = f[k] /\ g[k - 1] = f[k - 1]
        BY <3>2
      <4> QED BY <2>1, <4>1
    <3> QED BY <3>1, <3>2
  <2>6. Is(g, m)
    BY <2>4, <2>5
  <2> HIDE DEF g, Is
  <2> QED BY <2>3, <2>6
<1>3. N \in P
  <2> DEFINE T == {m \in Nat : m <= N => m \in P}
  <2>1. 0 \in T
    BY <1>1
  <2>2. ASSUME NEW m \in T PROVE m + 1 \in T
    <3>1. m \in Nat /\ (m <= N => m \in P)
      OBVIOUS
    <3>2. ASSUME m + 1 <= N PROVE m + 1 \in P
      <4>1. m + 1 \in 1 .. N /\ (m + 1) - 1 \in P
        BY <3>1, <3>2
      <4> HIDE DEF P
      <4> QED BY <1>2, <4>1
    <3> HIDE DEF P
    <3> QED BY <3>1, <3>2
  <2> HIDE DEF P
  <2>3. T \in SUBSET Nat
    OBVIOUS
  <2> HIDE DEF T
  <2>4. N \in T
    BY <2>1, <2>2, <2>3, Induct
  <2> QED BY <2>4 DEF T
<1> QED BY <1>3

\* The same, its premises as one: so that nothing else in a context matches them.
Steps(D, z, N, step) == z \in D /\ N \in Nat /\ step \in [1 .. N -> [D -> D]]
LEMMA RecursionOf ==
  ASSUME NEW D, NEW z, NEW N, NEW step, Steps(D, z, N, step)
  PROVE  \E f \in [0 .. N -> D] : f[0] = z /\ \A k \in 1 .. N : f[k] = step[k][f[k - 1]]
<1>1. z \in D /\ N \in Nat /\ step \in [1 .. N -> [D -> D]]
  BY DEF Steps
<1> QED BY <1>1, Recursion

\* A line's cell has its centre.
LEMMA OwnerHasCentre ==
  ASSUME NEW quads, NEW det, DOMAIN quads \subseteq Nat \ {0}, OwningCell(det, quads) # 0
  PROVE  /\ OwningCell(det, quads) \in DOMAIN quads
         /\ CentreInside(det, quads[OwningCell(det, quads)].box)
<1> DEFINE S == {i \in DOMAIN quads : CentreInside(det, quads[i].box)}
<1>1. S # {} /\ OwningCell(det, quads) = Min(S)
  BY DEF OwningCell
<1>2. S \in SUBSET Nat
  OBVIOUS
<1>3. Min(S) \in S
  <2> HIDE DEF S
  <2>1. \E x \in S : \A y \in S : x <= y
    BY <1>1, <1>2, LeastOf
  <2> QED BY <2>1 DEF Min
<1> QED BY <1>1, <1>3

\* Measures of bs are natural numbers and the same both ways.
LEMMA LengthBothWays ==
  ASSUME NEW p \in Int, NEW q \in Int, NEW r \in Int, NEW s \in Int
  PROVE  Shared(p, q, r, s) = Shared(r, s, p, q) /\ Shared(p, q, r, s) \in Int
BY DEF Shared, Larger, Smaller

LEMMA SharedBothWays ==
  ASSUME NEW a \in RectType, NEW b \in RectType
  PROVE  SharedArea(a, b) = SharedArea(b, a) /\ SharedArea(a, b) \in Int
<1>1. PICK p, q, r, s : p = a.x0 /\ q = a.x1 /\ r = b.x0 /\ s = b.x1
  OBVIOUS
<1>2. PICK t, u, v, w : t = a.y0 /\ u = a.y1 /\ v = b.y0 /\ w = b.y1
  OBVIOUS
<1>3. p \in Int /\ q \in Int /\ r \in Int /\ s \in Int
  BY <1>1 DEF RectType
<1>4. t \in Int /\ u \in Int /\ v \in Int /\ w \in Int
  BY <1>2 DEF RectType
<1>5. Shared(p, q, r, s) = Shared(r, s, p, q) /\ Shared(p, q, r, s) \in Int
  BY <1>3, LengthBothWays
<1>6. Shared(t, u, v, w) = Shared(v, w, t, u) /\ Shared(t, u, v, w) \in Int
  BY <1>4, LengthBothWays
<1>7. /\ SharedArea(a, b) = Shared(p, q, r, s) * Shared(t, u, v, w)
      /\ SharedArea(b, a) = Shared(r, s, p, q) * Shared(v, w, t, u)
  BY <1>1, <1>2 DEF SharedArea
<1> QED BY <1>5, <1>6, <1>7

LEMMA AreaType == ASSUME NEW a \in RectType PROVE Area(a) \in Int
<1>1. a.x0 \in Int /\ a.x1 \in Int /\ a.y0 \in Int /\ a.y1 \in Int
  BY DEF RectType
<1>2. PICK x, y : x = Width(a) /\ y = Height(a)
  OBVIOUS
<1>3. x \in Int /\ y \in Int
  BY <1>1, <1>2 DEF Width, Height, Larger
<1> QED BY <1>2, <1>3 DEF Area

\* A region is planned by its class or as a missed formula.
LEMMA RouteOf ==
  ASSUME NEW i \in DOMAIN cells
  PROVE  Route(i, lines, cells).dest = IF Salvaged(i) THEN "formula"
           ELSE IF Trusted(i) THEN DestinationFor(cells[i].cls) ELSE "text"
<1>1. Salvaged(i) => DestinationFor(cells[i].cls) = "text"
  BY DEF Salvaged, IsFormulaSalvageCandidate, DestinationFor
<1> QED BY <1>1 DEF Route, Salvaged, Trusted

LEMMA CellFields ==
  ASSUME NEW c \in CellType
  PROVE  c.score \in Nat /\ c.box \in RectType
BY DEF CellType

\* Who loses a comparison loses it to one that may outrank it, or to what it encloses.
LEMMA LoserRanks ==
  ASSUME cells \in Seq(CellType), NEW i \in DOMAIN cells, NEW j \in DOMAIN cells, i # j,
         LosesTo(i, j, cells)
  PROVE  Outranks(j, i) \/ (cells[i].cls # "table" /\ Encloses(cells[i].box, cells[j].box))
<1>1. CASE Encloses(cells[i].box, cells[j].box) /\ MayLoseByContainment(cells[i])
  BY <1>1 DEF MayLoseByContainment
<1>2. CASE Rivals(cells[i].box, cells[j].box) /\ LoserOf(Smaller(i, j), Larger(i, j), cells) = i
  <2>1. PICK pi, pj : pi = ClassPriority(cells[i].cls) /\ pj = ClassPriority(cells[j].cls)
    OBVIOUS
  <2>2. pi \in Nat /\ pj \in Nat
    BY <2>1 DEF ClassPriority
  <2>3. PICK si, sj : si = cells[i].score /\ sj = cells[j].score
    OBVIOUS
  <2>4. si \in Nat /\ sj \in Nat
    <3>1. cells[i] \in CellType /\ cells[j] \in CellType
      OBVIOUS
    <3> QED BY <2>3, <3>1, CellFields
  <2>5. i \in Nat /\ j \in Nat
    OBVIOUS
  <2>6. CASE i < j
    <3>1. LoserOf(i, j, cells) = i
      BY <1>2, <2>6 DEF Smaller, Larger
    <3>2. pj > pi \/ (pj = pi /\ sj + 1 >= si)
      BY <2>1, <2>2, <2>3, <2>4, <2>5, <2>6, <3>1 DEF LoserOf, Distance
    <3> QED BY <1>2, <2>1, <2>3, <3>2 DEF Outranks
  <2>7. CASE i > j
    <3>1. LoserOf(j, i, cells) = i
      BY <1>2, <2>7 DEF Smaller, Larger
    <3>2. pj > pi \/ (pj = pi /\ sj + 1 >= si)
      BY <2>1, <2>2, <2>3, <2>4, <2>5, <2>7, <3>1 DEF LoserOf, Distance
    <3> QED BY <1>2, <2>1, <2>3, <3>2 DEF Outranks
  <2> QED BY <2>5, <2>6, <2>7
<1> QED BY <1>1, <1>2 DEF LosesTo

\* Of two that contest a place one loses.
LEMMA ContestedBothWays ==
  ASSUME cells \in Seq(CellType), NEW i \in DOMAIN cells, NEW j \in DOMAIN cells, Contested(i, j)
  PROVE  Contested(j, i)
<1>1. PICK a, b : a = cells[i].box /\ b = cells[j].box /\ a \in RectType /\ b \in RectType
  <2>1. cells[i] \in CellType /\ cells[j] \in CellType
    OBVIOUS
  <2> QED BY <2>1, CellFields
<1>2. PICK x, y, s : x = Area(a) /\ y = Area(b) /\ s = SharedArea(a, b) /\ s = SharedArea(b, a)
  BY <1>1, SharedBothWays
<1>3. x \in Int /\ y \in Int /\ s \in Int /\ x + y - s = y + x - s
  BY <1>1, <1>2, SharedBothWays, AreaType
<1>4. Rivals(b, a) <=> Rivals(a, b)
  BY <1>2, <1>3 DEF Rivals
<1> QED BY <1>1, <1>2, <1>4 DEF Contested

LEMMA OneLoses ==
  ASSUME cells \in Seq(CellType), NEW i \in DOMAIN cells, NEW j \in DOMAIN cells, i < j,
         Contested(i, j)
  PROVE  LosesTo(i, j, cells) \/ LosesTo(j, i, cells)
<1>1. Contested(j, i)
  BY ContestedBothWays
<1>2. i \in Nat /\ j \in Nat /\ Smaller(i, j) = i /\ Larger(i, j) = j /\ Smaller(j, i) = i /\ Larger(j, i) = j
  BY DEF Smaller, Larger
<1>3. LoserOf(i, j, cells) \in {i, j}
  BY DEF LoserOf
<1> QED BY <1>1, <1>2, <1>3 DEF Contested, LosesTo

\* Regions and lines of any number, any class, score and box are routed well.
THEOREM RegionsRoutedForAll == StructureTypeOK => RegionsRouted
<1> SUFFICES ASSUME subject = "route", cells \in Seq(CellType)
             PROVE  RoutedWell(Classify(lines, cells))
  BY DEF StructureTypeOK, RegionsRouted
<1> DEFINE routed == [i \in DOMAIN cells |-> Route(i, lines, cells)]
<1>1. PICK ds : ds = ResolveTieBreakers(routed, cells)
  OBVIOUS
<1>2. PICK plan : plan = Classify(lines, cells)
  OBVIOUS
<1>3. /\ plan.tables = {i \in DOMAIN cells : ds[i].dest = "table"}
      /\ plan.formulas = {i \in DOMAIN cells : ds[i].dest = "formula"}
      /\ plan.skip = {i \in DOMAIN cells : ds[i].dest = "skip"}
  BY <1>1, <1>2 DEF Classify
<1>4. ASSUME NEW d \in plan.suppressed
      PROVE  /\ OwningCell(lines[d], cells) # 0
             /\ ds[OwningCell(lines[d], cells)].dest \in {"table", "formula"}
  <2>1. plan.suppressed = {e \in DOMAIN lines :
           /\ OwningCell(lines[e], cells) # 0
           /\ ds[OwningCell(lines[e], cells)].dest \in {"table", "formula"}
           /\ ~ds[OwningCell(lines[e], cells)].alsoText}
    BY <1>1, <1>2 DEF Classify
  <2> QED BY <1>4, <2>1
<1>5. DOMAIN cells \subseteq Nat \ {0}
  OBVIOUS
<1>6. ASSUME NEW d \in plan.suppressed, NEW o, o = OwningCell(lines[d], cells)
      PROVE  CentreInside(lines[d], cells[o].box) /\ o \in plan.tables \cup plan.formulas
  <2>1. o \in DOMAIN cells /\ CentreInside(lines[d], cells[o].box)
    BY <1>4, <1>5, <1>6, OwnerHasCentre
  <2> QED BY <1>3, <1>4, <1>6, <2>1
<1>7. ASSUME NEW i \in DOMAIN cells
      PROVE  /\ (\E j \in DOMAIN cells \ {i} : LosesTo(i, j, cells)) => ds[i].dest = "text"
             /\ (\A j \in DOMAIN cells \ {i} : ~LosesTo(i, j, cells)) => ds[i].dest = Route(i, lines, cells).dest
  <2>1. routed[i].dest = Route(i, lines, cells).dest
    OBVIOUS
  <2>2. [routed[i] EXCEPT !.dest = "text"].dest = "text"
    BY DEF Route
  <2> HIDE DEF routed
  <2> QED BY <1>1, <2>1, <2>2 DEF ResolveTieBreakers
<1> DEFINE placed == plan.tables \cup plan.formulas \cup plan.skip
           Own(i) == LET dest == DestinationFor(cells[i].cls) IN
             IF dest = "table" THEN plan.tables ELSE IF dest = "formula" THEN plan.formulas ELSE plan.skip
<1> HIDE DEF routed
<1>8. ASSUME NEW i \in placed
      PROVE  /\ i \in DOMAIN cells /\ \A j \in DOMAIN cells \ {i} : ~LosesTo(i, j, cells)
             /\ (Trusted(i) /\ i \in Own(i)) \/ (Salvaged(i) /\ i \in plan.formulas)
  <2>1. i \in DOMAIN cells /\ ds[i].dest # "text"
    BY <1>3, <1>8
  <2>2. (\A j \in DOMAIN cells \ {i} : ~LosesTo(i, j, cells)) /\ ds[i].dest = Route(i, lines, cells).dest
    BY <1>7, <2>1
  <2>3. (Trusted(i) /\ ~Salvaged(i) /\ ds[i].dest = DestinationFor(cells[i].cls)) \/ (Salvaged(i) /\ ds[i].dest = "formula")
    BY <2>1, <2>2, RouteOf
  <2>4. DestinationFor(cells[i].cls) \in {"table", "formula", "skip", "text"}
    BY DEF DestinationFor
  <2> QED BY <1>3, <2>1, <2>2, <2>3, <2>4
<1>9. ASSUME NEW i \in DOMAIN cells, Trusted(i), i \notin Own(i)
      PROVE  \E j \in DOMAIN cells \ {i} :
               \/ Outranks(j, i)
               \/ cells[i].cls # "table" /\ Encloses(cells[i].box, cells[j].box)
  <2>1. DestinationFor(cells[i].cls) \in {"table", "formula", "skip"} /\ ~Salvaged(i)
    BY <1>9 DEF DestinationFor, Trusted, Salvaged, IsFormulaSalvageCandidate
  <2>2. ds[i].dest # DestinationFor(cells[i].cls)
    BY <1>3, <1>9, <2>1
  <2>3. Route(i, lines, cells).dest = DestinationFor(cells[i].cls)
    BY <1>9, <2>1, RouteOf
  <2>4. PICK j \in DOMAIN cells \ {i} : LosesTo(i, j, cells)
    BY <1>7, <2>2, <2>3
  <2> QED BY <2>4, LoserRanks
<1>10. ASSUME NEW i \in placed, NEW j \in placed, i # j, Contested(i, j)
       PROVE  FALSE
  <2>1. i \in DOMAIN cells /\ j \in DOMAIN cells /\ ~LosesTo(i, j, cells) /\ ~LosesTo(j, i, cells)
    BY <1>8, <1>10
  <2>2. Contested(j, i)
    BY <1>10, <2>1, ContestedBothWays
  <2> QED BY <1>5, <1>10, <2>1, <2>2, OneLoses
<1> QED
  <2>1. RoutedWell(plan)
    BY <1>6, <1>8, <1>9, <1>10 DEF RoutedWell
  <2> QED BY <1>2, <2>1

-----------------------------------------------------------------------------
\* Who overlaps whom is the same both ways.
LEMMA IouBothWays ==
  ASSUME NEW a \in RectType, NEW b \in RectType, NEW num \in Nat, NEW den \in Nat
  PROVE  IouAtLeast(a, b, num, den) <=> IouAtLeast(b, a, num, den)
<1>1. PICK g, h : g = Box(a.x0, a.y0, a.x1 + 1, a.y1 + 1) /\ h = Box(b.x0, b.y0, b.x1 + 1, b.y1 + 1)
  OBVIOUS
<1>2. g \in RectType /\ h \in RectType
  BY <1>1 DEF RectType, Box
<1>3. PICK inter : inter = SharedArea(g, h) /\ inter = SharedArea(h, g) /\ inter \in Int
  BY <1>2, SharedBothWays
<1>4. PICK x, y : x = Area(g) /\ y = Area(h) /\ x \in Int /\ y \in Int
  BY <1>2, AreaType
<1>5. x + y - inter = y + x - inter
  BY <1>3, <1>4
<1>6. IouAtLeast(a, b, num, den) <=> (x + y - inter > 0 /\ den * inter >= num * (x + y - inter))
  BY <1>1, <1>3, <1>4 DEF IouAtLeast
<1>7. IouAtLeast(b, a, num, den) <=> (y + x - inter > 0 /\ den * inter >= num * (y + x - inter))
  BY <1>1, <1>3, <1>4 DEF IouAtLeast
<1> QED BY <1>5, <1>6, <1>7

LEMMA AlikeBothWays ==
  ASSUME NEW a, NEW b, a.box \in RectType, b.box \in RectType
  PROVE  Alike(a, b) <=> Alike(b, a)
<1>1. IouAtLeast(a.box, b.box, 3, 5) <=> IouAtLeast(b.box, a.box, 3, 5)
  BY IouBothWays
<1>2. IouAtLeast(a.box, b.box, 49, 50) <=> IouAtLeast(b.box, a.box, 49, 50)
  BY IouBothWays
<1> QED BY <1>1, <1>2 DEF Alike

KeptFun(f, bs) ==
  f = [k \in 0 .. Len(bs) |->
         IF k = 0 THEN {}
         ELSE IF \E i \in f[k - 1] : Alike(bs[i], bs[k]) THEN f[k - 1]
         ELSE f[k - 1] \cup {k}]
LEMMA UnsuppressedIs ==
  ASSUME NEW bs PROVE Unsuppressed(bs) = (CHOOSE f : KeptFun(f, bs))[Len(bs)]
BY DEF Unsuppressed, KeptFun

LEMMA KeptExists ==
  ASSUME NEW n \in Nat, NEW bs, Len(bs) = n
  PROVE  \E f : KeptFun(f, bs)
<1> DEFINE D == SUBSET (1 .. n)
           Step == [k \in 1 .. n |-> [K \in D |->
                      IF \E i \in K : Alike(bs[i], bs[k]) THEN K ELSE K \cup {k}]]
<1>1. Step \in [1 .. n -> [D -> D]]
  OBVIOUS
<1>2. {} \in D
  OBVIOUS
<1> HIDE DEF D
<1>3. PICK f \in [0 .. n -> D] : f[0] = {} /\ \A k \in 1 .. n : f[k] = Step[k][f[k - 1]]
  <2> HIDE DEF Step
  <2> QED BY <1>1, <1>2, Recursion
<1>4. ASSUME NEW k \in 0 .. n
      PROVE  f[k] = IF k = 0 THEN {}
                    ELSE IF \E i \in f[k - 1] : Alike(bs[i], bs[k]) THEN f[k - 1]
                    ELSE f[k - 1] \cup {k}
  <2>1. CASE k = 0
    BY <1>3, <2>1
  <2>2. CASE k # 0
    <3>1. k \in 1 .. n /\ k - 1 \in 0 .. n
      BY <2>2
    <3>2. f[k - 1] \in D
      BY <3>1
    <3>3. Step[k][f[k - 1]] = IF \E i \in f[k - 1] : Alike(bs[i], bs[k]) THEN f[k - 1]
                              ELSE f[k - 1] \cup {k}
      BY <3>1, <3>2
    <3> QED BY <1>3, <2>2, <3>1, <3>3
  <2> QED BY <2>1, <2>2
<1>5. KeptFun(f, bs)
  BY <1>4 DEF KeptFun
<1> QED BY <1>5

\* A box stays exactly if no better one that stays is the same detection.
LEMMA UnsuppressedMeans ==
  ASSUME NEW n \in Nat, NEW bs, Len(bs) = n
  PROVE  /\ Unsuppressed(bs) \subseteq 1 .. n
         /\ \A k \in 1 .. n : k \in Unsuppressed(bs)
              <=> ~ \E i \in Unsuppressed(bs) : i < k /\ Alike(bs[i], bs[k])
<1>1. PICK f : KeptFun(f, bs) /\ Unsuppressed(bs) = f[n]
  <2>1. KeptFun(CHOOSE g : KeptFun(g, bs), bs)
    BY KeptExists
  <2> QED BY <2>1, UnsuppressedIs
<1>2. \A k \in 0 .. n : f[k] = IF k = 0 THEN {}
                               ELSE IF \E i \in f[k - 1] : Alike(bs[i], bs[k]) THEN f[k - 1]
                               ELSE f[k - 1] \cup {k}
  BY <1>1 DEF KeptFun
<1> DEFINE Same(i, k) == Alike(bs[i], bs[k])
           Good(m) == /\ f[m] \subseteq 1 .. m
                      /\ \A k \in 1 .. m : k \in f[m] <=> ~ \E i \in f[m] : i < k /\ Same(i, k)
           T == {m \in Nat : m <= n => Good(m)}
<1>6. f[0] = {}
  <2>1. 0 \in 0 .. n
    OBVIOUS
  <2> QED BY <1>2, <2>1, Zenon
<1>7. ASSUME NEW m \in Nat, m + 1 <= n
      PROVE  f[m + 1] = IF \E i \in f[m] : Same(i, m + 1) THEN f[m] ELSE f[m] \cup {m + 1}
  <2>1. m + 1 \in 0 .. n /\ m + 1 # 0 /\ (m + 1) - 1 = m
    BY <1>7
  <2> QED BY <1>2, <2>1
<1> HIDE DEF Same
<1>3. 0 \in T
  <2>1. Good(0)
    BY <1>6
  <2> QED BY <2>1
<1>4. ASSUME NEW m \in T PROVE m + 1 \in T
  <2> SUFFICES ASSUME m + 1 <= n PROVE Good(m + 1)
    OBVIOUS
  <2>1. m \in Nat /\ Good(m)
    OBVIOUS
  <2>2. f[m + 1] = IF \E i \in f[m] : Same(i, m + 1) THEN f[m] ELSE f[m] \cup {m + 1}
    BY <1>7, <2>1
  <2>3. f[m + 1] \subseteq 1 .. m + 1 /\ \A i : i < m + 1 => (i \in f[m + 1] <=> i \in f[m])
    BY <2>1, <2>2
  <2>4. ASSUME NEW k \in 1 .. m + 1
        PROVE  k \in f[m + 1] <=> ~ \E i \in f[m + 1] : i < k /\ Same(i, k)
    <3>1. CASE k = m + 1
      <4>1. k \in f[m + 1] <=> ~ \E i \in f[m] : Same(i, k)
        BY <2>1, <2>2, <3>1
      <4>2. \A i \in f[m] : i < k
        BY <2>1, <3>1
      <4>3. \A i : (i \in f[m + 1] /\ i < k) <=> i \in f[m]
        BY <2>3, <3>1, <4>2
      <4> QED BY <4>1, <4>2, <4>3
    <3>2. CASE k # m + 1
      <4>1. k \in 1 .. m /\ k < m + 1
        BY <2>1, <3>2
      <4>2. k \in f[m + 1] <=> k \in f[m]
        BY <2>3, <4>1
      <4>3. ASSUME NEW i, i \in f[m + 1] \/ i \in f[m], i < k PROVE i \in f[m + 1] /\ i \in f[m]
        <5>1. i \in Nat
          BY <2>1, <2>3, <4>3
        <5>2. i < m + 1
          BY <2>1, <4>1, <4>3, <5>1
        <5> QED BY <2>3, <4>3, <5>2
      <4>4. k \in f[m] <=> ~ \E i \in f[m] : i < k /\ Same(i, k)
        BY <2>1, <4>1
      <4> QED BY <4>2, <4>3, <4>4
    <3> QED BY <3>1, <3>2
  <2> QED BY <2>3, <2>4
<1>5. Good(n)
  <2>1. n \in T
    <3> HIDE DEF T
    <3>1. T \in SUBSET Nat
      BY DEF T
    <3> QED BY <1>3, <1>4, <3>1, Induct
  <2> QED BY <2>1
<1> QED BY <1>1, <1>5 DEF Same

\* Suppression, whatever the bs.
LEMMA Suppressed ==
  ASSUME NEW n \in Nat, NEW bs, Len(bs) = n, \A i \in 1 .. n : bs[i].box \in RectType
  PROVE  /\ \A i \in (1 .. n) \ Unsuppressed(bs) : \E j \in Unsuppressed(bs) :
              j < i /\ Alike(bs[j], bs[i])
         /\ \A i, j \in Unsuppressed(bs) : i # j => ~Alike(bs[i], bs[j])
<1>1. PICK found : found = Unsuppressed(bs)
  OBVIOUS
<1>2. /\ found \subseteq 1 .. n
      /\ \A k \in 1 .. n : k \in found <=> ~ \E i \in found : i < k /\ Alike(bs[i], bs[k])
  BY <1>1, UnsuppressedMeans
<1>3. ASSUME NEW i \in found, NEW j \in found, i # j PROVE ~Alike(bs[i], bs[j])
  <2>1. i \in 1 .. n /\ j \in 1 .. n
    BY <1>2
  <2>2. CASE i < j
    BY <1>2, <2>1, <2>2
  <2>3. CASE j < i
    <3>1. ~Alike(bs[j], bs[i])
      BY <1>2, <2>1, <2>3
    <3> QED BY <2>1, <3>1, AlikeBothWays
  <2>4. i < j \/ j < i
    BY <1>3, <2>1
  <2> QED BY <2>2, <2>3, <2>4
<1> QED BY <1>1, <1>2, <1>3

\* What the inner mode drops contains a box that it keeps.
LEMMA InnerKept ==
  ASSUME NEW bs, NEW seen, NEW i \in seen \ Reconciled(bs, seen, "inner")
  PROVE  \E j \in Reconciled(bs, seen, "inner") : Inside(bs[j], bs[i])
<1> DEFINE Nested(k)   == \E j \in seen \ {k} : Inside(bs[k], bs[j])
           Holds(k) == \E j \in seen \ {k} : Inside(bs[j], bs[k])
<1>1. \A k : k \in Reconciled(bs, seen, "inner") <=> (k \in seen /\ (~Holds(k) \/ Nested(k)))
  BY DEF Reconciled, Keeps
<1>2. PICK j \in seen \ {i} : Inside(bs[j], bs[i])
  BY <1>1
<1>3. Nested(j)
  BY <1>2
<1> QED BY <1>1, <1>2, <1>3

LEMMA ClippedIs ==
  ASSUME NEW n \in Int, NEW most \in Nat
  PROVE  Clipped(n, most) \in Int /\ 0 <= Clipped(n, most) /\ Clipped(n, most) <= most
BY DEF Clipped, Larger, Smaller

LEMMA OnPageIs ==
  ASSUME NEW b \in RectType, NEW w \in Nat \ {0}, NEW h \in Nat \ {0}
  PROVE  /\ OnPage(b, w, h) \in RectType
         /\ 0 <= OnPage(b, w, h).x0 /\ OnPage(b, w, h).x1 < w
         /\ 0 <= OnPage(b, w, h).y0 /\ OnPage(b, w, h).y1 < h
<1>1. b.x0 \in Int /\ b.x1 \in Int /\ b.y0 \in Int /\ b.y1 \in Int /\ w - 1 \in Nat /\ h - 1 \in Nat
  BY DEF RectType
<1>2. PICK p, q, r, s : /\ p = Clipped(b.x0, w - 1) /\ q = Clipped(b.y0, h - 1)
                        /\ r = Clipped(b.x1, w - 1) /\ s = Clipped(b.y1, h - 1)
  OBVIOUS
<1>3. p \in Int /\ q \in Int /\ r \in Int /\ s \in Int /\ 0 <= p /\ 0 <= q /\ r <= w - 1 /\ s <= h - 1
  BY <1>1, <1>2, ClippedIs
<1>4. OnPage(b, w, h) = [x0 |-> p, y0 |-> q, x1 |-> r, y1 |-> s]
  BY <1>2 DEF OnPage, Box
<1> QED BY <1>3, <1>4 DEF RectType

\* Detections of any number, score and class are filtered well on any page, in whatever
\* order the sort leaves equal ranks.
THEOREM DroppedForAllBoxes == StructureTypeOK => DroppedForAnInnerBox
<1> SUFFICES ASSUME subject = "raw", cells \in Seq(CellType), NEW page \in PageSizes,
                    NEW sorted \in Orders(DecodedRows(cells, LabelClasses, ScoreThreshold, page.w, page.h), cells)
             PROVE  FilteredWell(SortedBoxes(cells, sorted, page.w, page.h), page.w, page.h)
  BY DEF StructureTypeOK, DroppedForAnInnerBox
<1>1. PICK w, h : w = page.w /\ h = page.h /\ w \in Nat \ {0} /\ h \in Nat \ {0}
  BY StructureAssumption
<1>2. PICK some : some = DecodedRows(cells, LabelClasses, ScoreThreshold, w, h)
  OBVIOUS
<1>3. \A r \in some : /\ r \in DOMAIN cells /\ r \in 1 .. Len(cells)
                      /\ OnPage(cells[r].box, w, h).x0 < OnPage(cells[r].box, w, h).x1
                      /\ OnPage(cells[r].box, w, h).y0 < OnPage(cells[r].box, w, h).y1
  BY <1>2 DEF DecodedRows
<1>4. PICK n : n = Cardinality(some) /\ n \in Nat
  <2>1. IsFiniteSet(1 .. Len(cells)) /\ some \subseteq 1 .. Len(cells)
    BY <1>3, FS_Interval
  <2> QED BY <2>1, FS_Subset, FS_CardinalityType
<1>5. sorted \in [1 .. n -> some] /\ \A i, j \in 1 .. n : i < j => cells[sorted[i]].score >= cells[sorted[j]].score
  BY <1>1, <1>2, <1>4 DEF Orders
<1>6. PICK bs : bs = SortedBoxes(cells, sorted, w, h)
  OBVIOUS
<1>7. \A k \in 1 .. n : bs[k] = [cells[sorted[k]] EXCEPT !.box = OnPage(@, w, h)]
  BY <1>5, <1>6 DEF SortedBoxes
<1>8. \A k \in 1 .. n : cells[sorted[k]] \in CellType
  BY <1>3, <1>5
<1>9. \A k \in 1 .. n : /\ bs[k].box = OnPage(cells[sorted[k]].box, w, h)
                        /\ bs[k].score = cells[sorted[k]].score
  BY <1>7, <1>8 DEF CellType
<1>10. \A k \in 1 .. n : cells[sorted[k]].box \in RectType
  BY <1>8 DEF CellType
<1>11. \A k \in 1 .. n : bs[k].box \in RectType
  <2> SUFFICES ASSUME NEW k \in 1 .. n PROVE bs[k].box \in RectType
    OBVIOUS
  <2>1. PICK b : b = cells[sorted[k]].box /\ b \in RectType
    BY <1>10
  <2>2. OnPage(b, w, h) \in RectType
    BY <1>1, <2>1, OnPageIs
  <2> QED BY <1>9, <2>1, <2>2
<1>12. DOMAIN bs = 1 .. n
  BY <1>5, <1>6 DEF SortedBoxes
<1>13. Len(bs) = n
  <2>1. bs = [k \in 1 .. n |-> bs[k]]
    BY <1>5, <1>6 DEF SortedBoxes
  <2>2. bs \in [1 .. n -> {bs[k] : k \in 1 .. n}]
    BY <2>1
  <2>3. bs \in Seq({bs[k] : k \in 1 .. n})
    BY <1>4, <2>2, SeqDef
  <2> QED BY <1>4, <1>12, <2>3
<1>14. ASSUME NEW i \in DOMAIN bs \ Unsuppressed(bs)
       PROVE  \E j \in Unsuppressed(bs) :
                j < i /\ Alike(bs[j], bs[i]) /\ bs[j].score >= bs[i].score
  <2>1. PICK j \in Unsuppressed(bs) : j < i /\ Alike(bs[j], bs[i])
    BY <1>4, <1>11, <1>12, <1>13, Suppressed
  <2>2. j \in 1 .. n /\ i \in 1 .. n
    BY <1>4, <1>12, <1>13, UnsuppressedMeans
  <2> QED BY <1>5, <1>9, <2>1, <2>2
<1>15. \A i, j \in Unsuppressed(bs) : i # j => ~Alike(bs[i], bs[j])
  BY <1>4, <1>11, <1>13, Suppressed
<1>16. \A i \in PagesOwn(bs, w, h) \ PostfilterLayoutBoxes(bs, "inner", w, h) :
         \E j \in PostfilterLayoutBoxes(bs, "inner", w, h) : Inside(bs[j], bs[i])
  BY InnerKept DEF PostfilterLayoutBoxes
<1>17. ASSUME NEW i \in DOMAIN bs, NEW b, b = bs[i].box
       PROVE  0 <= b.x0 /\ b.x0 < b.x1 /\ b.x1 < w /\ 0 <= b.y0 /\ b.y0 < b.y1 /\ b.y1 < h
  <2>1. i \in 1 .. n /\ sorted[i] \in some /\ b = OnPage(cells[sorted[i]].box, w, h)
    BY <1>5, <1>9, <1>12, <1>17
  <2>2. b.x0 < b.x1 /\ b.y0 < b.y1
    BY <1>3, <2>1
  <2>3. 0 <= b.x0 /\ b.x1 < w /\ 0 <= b.y0 /\ b.y1 < h
    BY <1>1, <1>10, <2>1, OnPageIs
  <2> QED BY <2>2, <2>3
<1> QED BY <1>1, <1>6, <1>14, <1>15, <1>16, <1>17 DEF FilteredWell

\* There is an order for the sort to leave: the theorem is about some list.
LEMMA OrderExists ==
  ASSUME NEW rows, NEW S, IsFiniteSet(S), \A r \in S : rows[r].score \in Nat
  PROVE  Orders(S, rows) # {}
<1> DEFINE T == {m \in Nat : \A R \in SUBSET S : Cardinality(R) = m => Orders(R, rows) # {}}
<1>1. 0 \in T
  <2> SUFFICES ASSUME NEW R \in SUBSET S, Cardinality(R) = 0 PROVE Orders(R, rows) # {}
    OBVIOUS
  <2>1. R = {} /\ Cardinality(R) = 0
    BY FS_Subset, FS_EmptySet
  <2>2. [k \in 1 .. 0 |-> 0] \in [1 .. 0 -> R]
    OBVIOUS
  <2>3. [k \in 1 .. 0 |-> 0] \in Orders(R, rows)
    BY <2>1, <2>2 DEF Orders
  <2> QED BY <2>3
<1>2. ASSUME NEW m \in T PROVE m + 1 \in T
  <2> SUFFICES ASSUME NEW R \in SUBSET S, Cardinality(R) = m + 1 PROVE Orders(R, rows) # {}
    OBVIOUS
  <2>1. m \in Nat /\ \A Q \in SUBSET S : Cardinality(Q) = m => Orders(Q, rows) # {}
    OBVIOUS
  <2> HIDE DEF T
  <2>2. IsFiniteSet(R) /\ R # {}
    BY <2>1, FS_Subset, FS_EmptySet
  <2>3. PICK x \in R : \A y \in R : rows[x].score <= rows[y].score
    <3> DEFINE ranks == {rows[y].score : y \in R}
    <3>1. ranks \in SUBSET Nat /\ ranks # {}
      BY <2>2
    <3>2. PICK s \in ranks : \A t \in ranks : s <= t
      BY <3>1, LeastOf
    <3> QED BY <3>2
  <2>4. R \ {x} \in SUBSET S /\ Cardinality(R \ {x}) = m
    <3>1. x \in R
      BY <2>3
    <3>2. Cardinality(R \ {x}) = Cardinality(R) - 1
      BY <2>2, <3>1, FS_RemoveElement
    <3>3. R \ {x} \in SUBSET S
      OBVIOUS
    <3> QED BY <2>1, <3>2, <3>3
  <2>5. PICK sorted : sorted \in Orders(R \ {x}, rows)
    BY <2>1, <2>4
  <2>6. /\ sorted \in [1 .. m -> R \ {x}]
        /\ \A i, j \in 1 .. m : i < j => sorted[i] # sorted[j] /\ rows[sorted[i]].score >= rows[sorted[j]].score
    BY <2>4, <2>5 DEF Orders
  <2> DEFINE all == [k \in 1 .. m + 1 |-> IF k = m + 1 THEN x ELSE sorted[k]]
  <2>7. \A k \in 1 .. m : all[k] = sorted[k] /\ sorted[k] \in R /\ sorted[k] # x /\ k \in 1 .. m + 1
    BY <2>1, <2>6
  <2>8. all[m + 1] = x /\ \A k \in 1 .. m + 1 : k = m + 1 \/ k \in 1 .. m
    BY <2>1
  <2>9. all \in [1 .. m + 1 -> R] /\ DOMAIN all = 1 .. m + 1
    BY <2>3, <2>7, <2>8
  <2> HIDE DEF all
  <2>10. ASSUME NEW i \in 1 .. m + 1, NEW j \in 1 .. m + 1, i < j
         PROVE  all[i] # all[j] /\ rows[all[i]].score >= rows[all[j]].score
    <3>1. i \in 1 .. m
      BY <2>1, <2>10
    <3>2. CASE j = m + 1
      <4>1. all[j] = x /\ all[i] = sorted[i] /\ sorted[i] \in R /\ sorted[i] # x
        BY <2>7, <2>8, <3>1, <3>2
      <4>2. rows[x].score \in Nat /\ rows[sorted[i]].score \in Nat
        BY <4>1
      <4> QED BY <2>3, <4>1, <4>2
    <3>3. CASE j # m + 1
      <4>1. j \in 1 .. m
        BY <2>8, <3>3
      <4> QED BY <2>6, <2>7, <2>10, <3>1, <4>1
    <3> QED BY <3>2, <3>3
  <2>11. all \in Orders(R, rows)
    BY <2>9, <2>10 DEF Orders
  <2> QED BY <2>11
<1>3. Cardinality(S) \in T
  <2> HIDE DEF T
  <2>1. T \in SUBSET Nat
    BY DEF T
  <2>2. Cardinality(S) \in Nat
    BY FS_CardinalityType
  <2> QED BY <1>1, <1>2, <2>1, <2>2, Induct
<1> QED BY <1>3

-----------------------------------------------------------------------------
\* Fractions are compared by multiplying across: p / m below q / n, q / n not above r / k.
LEMMA Cancel ==
  ASSUME NEW n \in Nat \ {0}, NEW x \in Int, NEW y \in Int, x * n < y * n
  PROVE  x < y
<1> SUFFICES ASSUME x >= y PROVE FALSE
  OBVIOUS
<1>1. PICK d \in Nat : x = y + d
  OBVIOUS
<1>2. x * n = y * n + d * n /\ d * n >= 0
  BY <1>1
<1> QED BY <1>2

LEMMA Scaled ==
  ASSUME NEW n \in Nat \ {0}, NEW x \in Int, NEW y \in Int, x < y
  PROVE  x * n < y * n
<1>1. PICK d \in Nat \ {0} : y = x + d
  OBVIOUS
<1>2. y * n = x * n + d * n /\ d * n > 0
  BY <1>1
<1> QED BY <1>2

LEMMA LessThenAtMost ==
  ASSUME NEW p \in Int, NEW m \in Nat \ {0}, NEW q \in Int, NEW n \in Nat \ {0}, NEW r \in Int, NEW k \in Nat \ {0},
         p * n < q * m, q * k <= r * n
  PROVE  p * k < r * m
<1>1. (p * n) * k < (q * m) * k
  BY Scaled
<1>2. (q * k) * m <= (r * n) * m
  OBVIOUS
<1>3. (p * k) * n < (r * m) * n
  <2>1. (p * n) * k = (p * k) * n /\ (q * m) * k = (q * k) * m /\ (r * n) * m = (r * m) * n
    OBVIOUS
  <2> QED BY <1>1, <1>2, <2>1
<1>4. p * k \in Int /\ r * m \in Int
  OBVIOUS
<1> QED BY <1>3, <1>4, Cancel

LEMMA AtMostThenLess ==
  ASSUME NEW p \in Int, NEW m \in Nat \ {0}, NEW q \in Int, NEW n \in Nat \ {0}, NEW r \in Int, NEW k \in Nat \ {0},
         p * n <= q * m, q * k < r * n
  PROVE  p * k < r * m
<1>1. (p * n) * k <= (q * m) * k
  OBVIOUS
<1>2. (q * k) * m < (r * n) * m
  BY Scaled
<1>3. (p * k) * n < (r * m) * n
  <2>1. (p * n) * k = (p * k) * n /\ (q * m) * k = (q * k) * m /\ (r * n) * m = (r * m) * n
    OBVIOUS
  <2> QED BY <1>1, <1>2, <2>1
<1>4. p * k \in Int /\ r * m \in Int
  OBVIOUS
<1> QED BY <1>3, <1>4, Cancel

\* The first of the least fractions p[j] / m[j] with j <= n.
Nearest(p, m, n, j) == /\ j \in 1 .. n
                       /\ \A i \in 1 .. j - 1 : p[j] * m[i] < p[i] * m[j]
                       /\ \A i \in j + 1 .. n : ~(p[i] * m[j] < p[j] * m[i])
LEMMA NearestExists ==
  ASSUME NEW n \in Nat \ {0}, NEW p \in [1 .. n -> Int], NEW m \in [1 .. n -> Nat \ {0}]
  PROVE  \E j : Nearest(p, m, n, j)
<1> DEFINE T == {k \in Nat : k + 1 <= n => \E j : Nearest(p, m, k + 1, j)}
<1>1. 0 \in T
  <2>1. Nearest(p, m, 1, 1)
    BY DEF Nearest
  <2> QED BY <2>1
<1>2. ASSUME NEW k \in T PROVE k + 1 \in T
  <2> SUFFICES ASSUME k + 2 <= n PROVE \E j : Nearest(p, m, k + 2, j)
    OBVIOUS
  <2>1. k \in Nat /\ \E j : Nearest(p, m, k + 1, j)
    OBVIOUS
  <2> HIDE DEF T
  <2>2. PICK j : Nearest(p, m, k + 1, j)
    BY <2>1
  <2>3. j \in 1 .. k + 1 /\ j \in 1 .. n /\ k + 2 \in 1 .. n
    BY <2>1, <2>2 DEF Nearest
  <2>4. \A i \in 1 .. n : p[i] \in Int /\ m[i] \in Nat \ {0}
    OBVIOUS
  <2>5. CASE p[k + 2] * m[j] < p[j] * m[k + 2]
    <3>1. ASSUME NEW i \in 1 .. k + 1 PROVE p[k + 2] * m[i] < p[i] * m[k + 2]
      <4>1. i \in 1 .. n
        BY <2>1, <2>3
      <4>2. CASE i = j
        BY <2>5, <4>2
      <4>3. CASE i # j
        <5>1. p[j] * m[i] <= p[i] * m[j]
          <6>1. i \in 1 .. j - 1 \/ i \in j + 1 .. k + 1
            BY <2>1, <2>3, <4>3
          <6>2. p[j] * m[i] \in Int /\ p[i] * m[j] \in Int
            BY <2>3, <2>4, <4>1
          <6> QED BY <2>2, <6>1, <6>2 DEF Nearest
        <5> QED BY <2>3, <2>4, <2>5, <4>1, <5>1, LessThenAtMost
      <4> QED BY <4>2, <4>3
    <3>2. Nearest(p, m, k + 2, k + 2)
      BY <2>1, <3>1 DEF Nearest
    <3> QED BY <3>2
  <2>6. CASE ~(p[k + 2] * m[j] < p[j] * m[k + 2])
    <3>1. Nearest(p, m, k + 2, j)
      <4>1. \A i \in j + 1 .. k + 2 : i = k + 2 \/ i \in j + 1 .. k + 1
        BY <2>1, <2>3
      <4>2. j \in 1 .. k + 2
        BY <2>1, <2>3
      <4>3. \A i \in 1 .. j - 1 : p[j] * m[i] < p[i] * m[j]
        BY <2>2 DEF Nearest
      <4>4. \A i \in j + 1 .. k + 1 : ~(p[i] * m[j] < p[j] * m[i])
        BY <2>2 DEF Nearest
      <4>5. \A i \in j + 1 .. k + 2 : ~(p[i] * m[j] < p[j] * m[i])
        BY <2>6, <4>1, <4>4
      <4> QED BY <4>2, <4>3, <4>5 DEF Nearest
    <3> QED BY <3>1
  <2> QED BY <2>5, <2>6
<1>3. n - 1 \in T
  <2> HIDE DEF T
  <2>1. T \in SUBSET Nat
    BY DEF T
  <2>2. n - 1 \in Nat
    OBVIOUS
  <2> QED BY <1>1, <1>2, <2>1, <2>2, Induct
<1>4. \E j : Nearest(p, m, (n - 1) + 1, j)
  BY <1>3
<1> QED BY <1>4

\* Centres of clusters, and how far a height is from one, times its n.
Centre == [sum : Nat, n : Nat \ {0}]
Gap(h, c) == IF h * c.n > c.sum THEN h * c.n - c.sum ELSE c.sum - h * c.n

LEMMA CentreTypes ==
  ASSUME NEW cs \in Seq(Centre), NEW j \in DOMAIN cs
  PROVE  j \in 1 .. Len(cs) /\ cs[j].sum \in Nat /\ cs[j].n \in Nat \ {0}
<1>1. cs[j] \in Centre /\ j \in 1 .. Len(cs)
  OBVIOUS
<1> QED BY <1>1 DEF Centre

LEMMA NearestCentreIs ==
  ASSUME NEW h \in Nat, NEW cs \in Seq(Centre), cs # <<>>
  PROVE  /\ NearestCentre(h, cs) \in DOMAIN cs
         /\ \A i \in DOMAIN cs : Gap(h, cs[NearestCentre(h, cs)]) * cs[i].n
                                   <= Gap(h, cs[i]) * cs[NearestCentre(h, cs)].n
<1> DEFINE k == Len(cs)
           p == [i \in 1 .. k |-> Gap(h, cs[i])]
           m == [i \in 1 .. k |-> cs[i].n]
<1>1. k \in Nat \ {0} /\ DOMAIN cs = 1 .. k
  OBVIOUS
<1>2. \A i \in 1 .. k : cs[i].sum \in Nat /\ cs[i].n \in Nat \ {0}
  BY <1>1, CentreTypes
<1>3. \A i \in 1 .. k : Gap(h, cs[i]) \in Int
  BY <1>2 DEF Gap
<1>4. p \in [1 .. k -> Int] /\ m \in [1 .. k -> Nat \ {0}]
  BY <1>2, <1>3
<1>5. \E j : Nearest(p, m, k, j)
  <2> HIDE DEF p, m, k
  <2> QED BY <1>1, <1>4, NearestExists
<1> DEFINE Is(j) == /\ \A i \in 1 .. j - 1 : Gap(h, cs[j]) * cs[i].n < Gap(h, cs[i]) * cs[j].n
                    /\ \A i \in j + 1 .. k : ~(Gap(h, cs[i]) * cs[j].n < Gap(h, cs[j]) * cs[i].n)
<1>6. \E j \in 1 .. k : Is(j)
  <2>1. PICK j : Nearest(p, m, k, j)
    BY <1>5
  <2>2. j \in 1 .. k
    BY <2>1 DEF Nearest
  <2>3. ASSUME NEW i \in 1 .. j - 1 PROVE Gap(h, cs[j]) * cs[i].n < Gap(h, cs[i]) * cs[j].n
    <3>1. i \in 1 .. k
      BY <1>1, <2>2
    <3>2. p[j] * m[i] < p[i] * m[j]
      <4> HIDE DEF p, m, k
      <4> QED BY <2>1 DEF Nearest
    <3> QED BY <2>2, <3>1, <3>2
  <2>4. ASSUME NEW i \in j + 1 .. k PROVE ~(Gap(h, cs[i]) * cs[j].n < Gap(h, cs[j]) * cs[i].n)
    <3>1. i \in 1 .. k
      BY <1>1, <2>2
    <3>2. ~(p[i] * m[j] < p[j] * m[i])
      <4> HIDE DEF p, m, k
      <4> QED BY <2>1 DEF Nearest
    <3> QED BY <2>2, <3>1, <3>2
  <2> QED BY <2>2, <2>3, <2>4
<1>7. NearestCentre(h, cs) = CHOOSE j \in DOMAIN cs : Is(j)
  BY DEF NearestCentre, Gap
<1>8. PICK c : c = NearestCentre(h, cs)
  OBVIOUS
<1>9. c \in 1 .. k /\ Is(c)
  <2> HIDE DEF Is
  <2> QED BY <1>1, <1>6, <1>7, <1>8
<1>10. ASSUME NEW i \in 1 .. k PROVE Gap(h, cs[c]) * cs[i].n <= Gap(h, cs[i]) * cs[c].n
  <2>1. PICK x, y : x = Gap(h, cs[c]) * cs[i].n /\ y = Gap(h, cs[i]) * cs[c].n
    OBVIOUS
  <2>2. x \in Int /\ y \in Int
    BY <1>2, <1>3, <1>9, <2>1
  <2>3. CASE i = c
    BY <2>1, <2>2, <2>3
  <2>4. CASE i # c
    <3>1. i \in 1 .. c - 1 \/ i \in c + 1 .. k
      BY <1>1, <1>9, <2>4
    <3>2. x < y \/ ~(y < x)
      BY <1>9, <2>1, <3>1
    <3> QED BY <2>1, <2>2, <3>2
  <2> QED BY <2>3, <2>4
<1> QED BY <1>1, <1>8, <1>9, <1>10

\* The centre nearest to a larger height is not below the one nearest to a smaller.
LEMMA NearestRises ==
  ASSUME NEW cs \in Seq(Centre), cs # <<>>, NEW g \in Nat, NEW h \in Nat, g < h,
         NEW a, a = NearestCentre(h, cs), NEW b, b = NearestCentre(g, cs)
  PROVE  cs[b].sum * cs[a].n <= cs[a].sum * cs[b].n
<1>1. a \in DOMAIN cs /\ b \in DOMAIN cs
  BY NearestCentreIs
<1>2. PICK s, n, t, m : s = cs[a].sum /\ n = cs[a].n /\ t = cs[b].sum /\ m = cs[b].n
  OBVIOUS
<1>3. s \in Nat /\ n \in Nat \ {0} /\ t \in Nat /\ m \in Nat \ {0}
  BY <1>1, <1>2, CentreTypes
<1>4. Gap(h, cs[a]) * m <= Gap(h, cs[b]) * n /\ Gap(g, cs[b]) * n <= Gap(g, cs[a]) * m
  BY <1>1, <1>2, NearestCentreIs
<1>5. PICK ss, tt, hh, gg : ss = s * m /\ tt = t * n /\ hh = (h * n) * m /\ gg = (g * n) * m
  OBVIOUS
<1>6. ss \in Nat /\ tt \in Nat /\ hh \in Nat /\ gg \in Nat
  BY <1>3, <1>5
<1>7. gg < hh
  <2>1. g * n < h * n
    BY <1>3, Scaled
  <2>2. g * n \in Nat /\ h * n \in Nat
    BY <1>3
  <2> QED BY <1>3, <1>5, <2>1, <2>2, Scaled
<1>8. /\ hh = (h * m) * n /\ gg = (g * m) * n
      /\ \A x \in Nat, y \in Nat : (x - y) * m = x * m - y * m /\ (x - y) * n = x * n - y * n
  BY <1>3, <1>5
<1>9. ASSUME NEW x \in Nat, NEW xx, xx = (x * n) * m
      PROVE  /\ Gap(x, cs[a]) * m = IF xx > ss THEN xx - ss ELSE ss - xx
             /\ Gap(x, cs[b]) * n = IF xx > tt THEN xx - tt ELSE tt - xx
  <2>1. PICK xn, xm : xn = x * n /\ xm = x * m
    OBVIOUS
  <2>2. xn \in Nat /\ xm \in Nat /\ xx = xn * m /\ xx = xm * n /\ xx \in Nat
    BY <1>3, <1>9, <2>1
  <2>3. Gap(x, cs[a]) = IF xn > s THEN xn - s ELSE s - xn
    BY <1>2, <2>1 DEF Gap
  <2>4. Gap(x, cs[b]) = IF xm > t THEN xm - t ELSE t - xm
    BY <1>2, <2>1 DEF Gap
  <2>5. (xn > s <=> xx > ss) /\ (xm > t <=> xx > tt)
    BY <1>3, <1>5, <2>2, Scaled, Cancel
  <2>6. /\ (xn - s) * m = xx - ss /\ (s - xn) * m = ss - xx
        /\ (xm - t) * n = xx - tt /\ (t - xm) * n = tt - xx
    BY <1>3, <1>5, <1>8, <2>2
  <2>7. Gap(x, cs[a]) * m = IF xx > ss THEN xx - ss ELSE ss - xx
    BY <2>3, <2>5, <2>6
  <2>8. Gap(x, cs[b]) * n = IF xx > tt THEN xx - tt ELSE tt - xx
    BY <2>4, <2>5, <2>6
  <2> QED BY <2>7, <2>8
<1>10. /\ Gap(h, cs[a]) * m = IF hh > ss THEN hh - ss ELSE ss - hh
       /\ Gap(h, cs[b]) * n = IF hh > tt THEN hh - tt ELSE tt - hh
       /\ Gap(g, cs[a]) * m = IF gg > ss THEN gg - ss ELSE ss - gg
       /\ Gap(g, cs[b]) * n = IF gg > tt THEN gg - tt ELSE tt - gg
  BY <1>5, <1>9
<1>11. tt <= ss
  <2>1. PICK ha, hb, ga, gb : /\ ha = Gap(h, cs[a]) * m /\ hb = Gap(h, cs[b]) * n
                              /\ ga = Gap(g, cs[a]) * m /\ gb = Gap(g, cs[b]) * n
    OBVIOUS
  <2> QED BY <1>4, <1>6, <1>7, <1>10, <2>1
<1> QED BY <1>2, <1>5, <1>11

\* So its level is not deeper, nor is it outside the number of centres.
LEMMA LevelFalls ==
  ASSUME NEW heights, Centres(heights) \in Seq(Centre), Centres(heights) # <<>>,
         NEW g \in Nat, NEW h \in Nat
  PROVE  /\ ClusterLevel(h, heights) \in Nat
         /\ g < h => ClusterLevel(h, heights) <= ClusterLevel(g, heights)
<1>1. PICK cs : cs = Centres(heights)
  OBVIOUS
<1>2. cs \in Seq(Centre) /\ cs # <<>>
  BY <1>1
<1> DEFINE Above(own) == {j \in DOMAIN cs : cs[j].sum * own.n > own.sum * cs[j].n}
<1>3. PICK a, b : a = NearestCentre(h, cs) /\ b = NearestCentre(g, cs)
  OBVIOUS
<1>4. a \in DOMAIN cs /\ b \in DOMAIN cs
  BY <1>2, <1>3, NearestCentreIs
<1>5. ClusterLevel(h, heights) = 1 + Cardinality(Above(cs[a])) /\ ClusterLevel(g, heights) = 1 + Cardinality(Above(cs[b]))
  BY <1>1, <1>3 DEF ClusterLevel
<1>6. IsFiniteSet(DOMAIN cs)
  <2>1. DOMAIN cs = 1 .. Len(cs)
    BY <1>2
  <2> QED BY <1>2, <2>1, FS_Interval
<1>7. /\ IsFiniteSet(Above(cs[a])) /\ Cardinality(Above(cs[a])) \in Nat
      /\ IsFiniteSet(Above(cs[b])) /\ Cardinality(Above(cs[b])) \in Nat
  <2>1. Above(cs[a]) \in SUBSET DOMAIN cs /\ Above(cs[b]) \in SUBSET DOMAIN cs
    OBVIOUS
  <2> HIDE DEF Above
  <2> QED BY <1>6, <2>1, FS_Subset, FS_CardinalityType
<1>8. ASSUME g < h PROVE Above(cs[a]) \subseteq Above(cs[b])
  <2> SUFFICES ASSUME NEW j \in DOMAIN cs, cs[j].sum * cs[a].n > cs[a].sum * cs[j].n
               PROVE  cs[j].sum * cs[b].n > cs[b].sum * cs[j].n
    OBVIOUS
  <2>1. cs[b].sum * cs[a].n <= cs[a].sum * cs[b].n
    BY <1>2, <1>3, <1>8, NearestRises
  <2>2. PICK s, n, t, m, r, k : /\ s = cs[a].sum /\ n = cs[a].n /\ t = cs[b].sum /\ m = cs[b].n
                                /\ r = cs[j].sum /\ k = cs[j].n
    OBVIOUS
  <2>3. /\ s \in Nat /\ n \in Nat \ {0} /\ t \in Nat /\ m \in Nat \ {0}
        /\ r \in Nat /\ k \in Nat \ {0}
    BY <1>2, <1>4, <2>2, CentreTypes
  <2>4. t * n <= s * m
    BY <2>1, <2>2
  <2>5. s * k < r * n
    BY <2>2, <2>3
  <2>6. t * k < r * m
    BY <2>3, <2>4, <2>5, AtMostThenLess
  <2> QED BY <2>2, <2>3, <2>6
<1>9. ASSUME g < h PROVE Cardinality(Above(cs[a])) <= Cardinality(Above(cs[b]))
  <2>1. Above(cs[a]) \in SUBSET Above(cs[b])
    BY <1>8, <1>9
  <2> HIDE DEF Above
  <2> QED BY <1>7, <2>1, FS_Subset
<1> HIDE DEF Above
<1> QED BY <1>5, <1>7, <1>9

-----------------------------------------------------------------------------
\* The centres stay fractions of naturals through every round.
Tally == [sum : Nat, n : Nat]
TotalFun(f, heights, centres, j) ==
  f = [i \in 0 .. Len(heights) |->
        IF i = 0 THEN [sum |-> 0, n |-> 0]
        ELSE IF NearestCentre(heights[i], centres) = j
             THEN [sum |-> f[i - 1].sum + heights[i], n |-> f[i - 1].n + 1]
        ELSE f[i - 1]]
LEMMA ClusterTotalIs ==
  ASSUME NEW heights, NEW centres, NEW j
  PROVE  ClusterTotal(heights, centres, j) = (CHOOSE f : TotalFun(f, heights, centres, j))[Len(heights)]
BY DEF ClusterTotal, TotalFun

LEMMA ClusterTotalType ==
  ASSUME NEW heights \in Seq(Nat), NEW centres, NEW j
  PROVE  ClusterTotal(heights, centres, j) \in Tally
<1> DEFINE N == Len(heights)
           Step == [i \in 1 .. N |-> [s \in Tally |->
                      IF NearestCentre(heights[i], centres) = j
                      THEN [sum |-> s.sum + heights[i], n |-> s.n + 1] ELSE s]]
           z == [sum |-> 0, n |-> 0]
<1>1. N \in Nat /\ \A i \in 1 .. N : heights[i] \in Nat
  OBVIOUS
<1>2. z \in Tally
  BY DEF Tally
<1>3. Step \in [1 .. N -> [Tally -> Tally]]
  <2> SUFFICES ASSUME NEW i \in 1 .. N, NEW s \in Tally
               PROVE  (IF NearestCentre(heights[i], centres) = j
                       THEN [sum |-> s.sum + heights[i], n |-> s.n + 1] ELSE s) \in Tally
    OBVIOUS
  <2>1. s.sum \in Nat /\ s.n \in Nat /\ heights[i] \in Nat
    BY <1>1 DEF Tally
  <2>2. s.sum + heights[i] \in Nat /\ s.n + 1 \in Nat
    BY <2>1
  <2>3. [sum |-> s.sum + heights[i], n |-> s.n + 1] \in Tally
    BY <2>2 DEF Tally
  <2> QED BY <2>3
<1>4. PICK f \in [0 .. N -> Tally] : f[0] = z /\ \A i \in 1 .. N : f[i] = Step[i][f[i - 1]]
  <2> HIDE DEF N, z, Step
  <2>1. PICK m, first, step : m = N /\ first = z /\ step = Step
    OBVIOUS
  <2>2. Steps(Tally, first, m, step)
    BY <1>1, <1>2, <1>3, <2>1 DEF Steps
  <2>3. \E f \in [0 .. m -> Tally] : f[0] = first /\ \A i \in 1 .. m : f[i] = step[i][f[i - 1]]
    BY <2>2, RecursionOf
  <2> QED BY <2>1, <2>3
<1>5. ASSUME NEW i \in 0 .. N
      PROVE  f[i] = IF i = 0 THEN [sum |-> 0, n |-> 0]
                    ELSE IF NearestCentre(heights[i], centres) = j
                         THEN [sum |-> f[i - 1].sum + heights[i], n |-> f[i - 1].n + 1]
                    ELSE f[i - 1]
  <2>1. CASE i = 0
    BY <1>4, <2>1
  <2>2. CASE i # 0
    <3>1. i \in 1 .. N /\ i - 1 \in 0 .. N
      BY <1>1, <2>2
    <3>2. f[i - 1] \in Tally
      BY <3>1
    <3>3. Step[i][f[i - 1]] = IF NearestCentre(heights[i], centres) = j
                              THEN [sum |-> f[i - 1].sum + heights[i], n |-> f[i - 1].n + 1] ELSE f[i - 1]
      BY <3>1, <3>2
    <3> QED BY <1>4, <2>2, <3>1, <3>3
  <2> QED BY <2>1, <2>2
<1>6. TotalFun(f, heights, centres, j)
  BY <1>5 DEF TotalFun
<1>7. PICK g : TotalFun(g, heights, centres, j) /\ ClusterTotal(heights, centres, j) = g[N]
  <2>1. TotalFun(CHOOSE g : TotalFun(g, heights, centres, j), heights, centres, j)
    BY <1>6
  <2> QED BY <2>1, ClusterTotalIs
<1>8. \A i \in 0 .. N : g[i] = IF i = 0 THEN [sum |-> 0, n |-> 0]
                    ELSE IF NearestCentre(heights[i], centres) = j
                         THEN [sum |-> g[i - 1].sum + heights[i], n |-> g[i - 1].n + 1]
                    ELSE g[i - 1]
  BY <1>7 DEF TotalFun
<1> DEFINE T == {m \in Nat : m <= N => g[m] \in Tally}
<1>9. 0 \in T
  <2>1. 0 \in 0 .. N
    BY <1>1
  <2>2. g[0] = z
    BY <1>8, <2>1, Zenon
  <2> QED BY <1>2, <2>2
<1>10. ASSUME NEW m \in T PROVE m + 1 \in T
  <2> SUFFICES ASSUME m + 1 <= N PROVE g[m + 1] \in Tally
    OBVIOUS
  <2>1. m \in Nat /\ m + 1 \in 0 .. N /\ m + 1 # 0 /\ (m + 1) - 1 = m /\ g[m] \in Tally /\ m + 1 \in 1 .. N
    BY <1>1
  <2>2. g[m + 1] = IF NearestCentre(heights[m + 1], centres) = j
                   THEN [sum |-> g[m].sum + heights[m + 1], n |-> g[m].n + 1] ELSE g[m]
    BY <1>8, <2>1
  <2>3. g[m].sum \in Nat /\ g[m].n \in Nat /\ heights[m + 1] \in Nat
    BY <1>1, <2>1 DEF Tally
  <2>4. g[m].sum + heights[m + 1] \in Nat /\ g[m].n + 1 \in Nat
    BY <2>3
  <2>5. [sum |-> g[m].sum + heights[m + 1], n |-> g[m].n + 1] \in Tally
    BY <2>4 DEF Tally
  <2> QED BY <2>1, <2>2, <2>5
<1>11. N \in T
  <2> HIDE DEF T
  <2>1. T \in SUBSET Nat
    BY DEF T
  <2> QED BY <1>1, <1>9, <1>10, <2>1, Induct
<1> QED BY <1>1, <1>7, <1>11

LEMMA MovedType ==
  ASSUME NEW heights \in Seq(Nat), NEW k \in Nat, NEW cs \in [1 .. k -> Centre]
  PROVE  MovedCentres(heights, cs) \in [1 .. k -> Centre]
<1> SUFFICES ASSUME NEW j \in 1 .. k
             PROVE  (IF ClusterTotal(heights, cs, j).n = 0 THEN cs[j] ELSE ClusterTotal(heights, cs, j)) \in Centre
  BY DEF MovedCentres
<1>1. ClusterTotal(heights, cs, j) \in Tally
  BY ClusterTotalType
<1> QED BY <1>1 DEF Tally, Centre

\* A finite set of heights has a largest.
LEMMA MostOf ==
  ASSUME NEW S \in SUBSET Nat, IsFiniteSet(S), S # {}
  PROVE  \E x \in S : \A y \in S : y <= x
<1> DEFINE T == {m \in Nat : \A R \in SUBSET Nat :
                   IsFiniteSet(R) /\ Cardinality(R) = m + 1 => \E x \in R : \A y \in R : y <= x}
<1>1. 0 \in T
  <2> SUFFICES ASSUME NEW R \in SUBSET Nat, IsFiniteSet(R), Cardinality(R) = 1
               PROVE  \E x \in R : \A y \in R : y <= x
    OBVIOUS
  <2>1. PICK x : R = {x}
    BY FS_Singleton
  <2> QED BY <2>1
<1>2. ASSUME NEW m \in T PROVE m + 1 \in T
  <2> SUFFICES ASSUME NEW R \in SUBSET Nat, IsFiniteSet(R), Cardinality(R) = m + 2
               PROVE  \E x \in R : \A y \in R : y <= x
    OBVIOUS
  <2>1. R # {}
    BY FS_EmptySet
  <2>2. PICK z \in R : TRUE
    BY <2>1
  <2>3. IsFiniteSet(R \ {z}) /\ Cardinality(R \ {z}) = m + 1 /\ R \ {z} \in SUBSET Nat
    BY <2>2, FS_RemoveElement
  <2>4. PICK x \in R \ {z} : \A y \in R \ {z} : y <= x
    BY <2>3
  <2>5. x \in Nat /\ z \in Nat
    BY <2>2
  <2>6. CASE x >= z
    BY <2>4, <2>5, <2>6
  <2>7. CASE z >= x
    <3>1. \A y \in R : y <= z
      BY <2>4, <2>5, <2>7
    <3> QED BY <2>2, <3>1
  <2> QED BY <2>5, <2>6, <2>7
<1>3. Cardinality(S) - 1 \in T
  <2> HIDE DEF T
  <2>1. Cardinality(S) - 1 \in Nat
    BY FS_CardinalityType, FS_EmptySet
  <2>2. T \in SUBSET Nat
    BY DEF T
  <2> QED BY <1>1, <1>2, <2>1, <2>2, Induct
<1>4. Cardinality(S) = (Cardinality(S) - 1) + 1
  BY FS_CardinalityType
<1> QED BY <1>3, <1>4

LEMMA NthHeightType ==
  ASSUME NEW S \in SUBSET Nat, IsFiniteSet(S), S # {}, NEW k \in Int, k <= Cardinality(S)
  PROVE  NthHeight(S, k) \in Nat
<1> DEFINE Far == {h \in S : Cardinality({m \in S : m <= h}) >= k}
<1>1. PICK x \in S : \A y \in S : y <= x
  BY MostOf
<1>2. {m \in S : m <= x} = S
  BY <1>1
<1>3. x \in Far
  BY <1>1, <1>2, FS_CardinalityType
<1>4. Far \in SUBSET Nat /\ Far # {}
  BY <1>3
<1>5. NthHeight(S, k) = Min(Far)
  BY DEF NthHeight
<1> HIDE DEF Far
<1>6. Min(Far) \in Far
  BY <1>4, LeastOf DEF Min
<1> QED BY <1>4, <1>5, <1>6

LEMMA ImagesFinite ==
  ASSUME NEW n \in Nat, NEW f, DOMAIN f = 1 .. n
  PROVE  IsFiniteSet({f[i] : i \in 1 .. n})
<1> DEFINE S == {f[i] : i \in 1 .. n}
           g == [i \in 1 .. n |-> f[i]]
<1>1. g \in Surjection(1 .. n, S)
  BY DEF Surjection
<1>2. IsFiniteSet(1 .. n)
  BY FS_Interval
<1> QED BY <1>1, <1>2, FS_Surjection

LEMMA StartType ==
  ASSUME NEW heights \in Seq(Nat), heights # <<>>
  PROVE  \E k \in Nat \ {0} : StartCentres(heights) \in [1 .. k -> Centre]
<1>1. PICK uniq, size : uniq = ToSet(heights) /\ size = Cardinality(uniq)
  OBVIOUS
<1>2. uniq \in SUBSET Nat /\ uniq # {} /\ IsFiniteSet(uniq)
  <2>1. uniq = {heights[i] : i \in 1 .. Len(heights)} /\ Len(heights) \in Nat \ {0} /\ DOMAIN heights = 1 .. Len(heights)
    BY <1>1 DEF ToSet
  <2>2. IsFiniteSet(uniq)
    BY <2>1, ImagesFinite
  <2>3. heights[1] \in uniq
    BY <2>1
  <2>4. uniq \in SUBSET Nat
    BY <2>1
  <2> QED BY <2>2, <2>3, <2>4
<1>3. size \in Nat \ {0}
  BY <1>1, <1>2, FS_CardinalityType, FS_EmptySet
<1>4. PICK k : k = IF size < 4 THEN size ELSE 4
  OBVIOUS
<1>5. k \in {1, 2, 3, 4} /\ k <= size
  BY <1>3, <1>4
<1> DEFINE Index(j) == IF k = 1 THEN 1
                       ELSE 1 + (2 * (j - 1) * (size - 1) + k - 1) \div (2 * (k - 1))
<1>6. StartCentres(heights) = [j \in 1 .. k |-> [sum |-> NthHeight(uniq, Index(j)), n |-> 1]]
  BY <1>1, <1>4 DEF StartCentres
<1>7. ASSUME NEW j \in 1 .. k PROVE Index(j) \in Int /\ Index(j) <= size
  <2>1. CASE k = 1
    BY <1>3, <2>1
  <2>2. CASE k = 2
    <3>1. j \in {1, 2}
      BY <2>2
    <3>2. Index(j) = 1 + (2 * (j - 1) * (size - 1) + 1) \div 2
      BY <2>2
    <3>3. CASE j = 1
      BY <1>3, <3>2, <3>3
    <3>4. CASE j = 2
      BY <1>3, <3>2, <3>4
    <3> QED BY <3>1, <3>3, <3>4
  <2>3. CASE k = 3
    <3>1. j \in {1, 2, 3}
      BY <2>3
    <3>2. Index(j) = 1 + (2 * (j - 1) * (size - 1) + 2) \div 4
      BY <2>3
    <3>3. CASE j = 1
      BY <1>3, <3>2, <3>3
    <3>4. CASE j = 2
      BY <1>3, <1>5, <2>3, <3>2, <3>4
    <3>5. CASE j = 3
      BY <1>3, <3>2, <3>5
    <3> QED BY <3>1, <3>3, <3>4, <3>5
  <2>4. CASE k = 4
    <3>1. j \in {1, 2, 3, 4}
      BY <2>4
    <3>2. Index(j) = 1 + (2 * (j - 1) * (size - 1) + 3) \div 6
      BY <2>4
    <3>3. CASE j = 1
      BY <1>3, <3>2, <3>3
    <3>4. CASE j = 2
      BY <1>3, <1>5, <2>4, <3>2, <3>4
    <3>5. CASE j = 3
      BY <1>3, <1>5, <2>4, <3>2, <3>5
    <3>6. CASE j = 4
      BY <1>3, <3>2, <3>6
    <3> QED BY <3>1, <3>3, <3>4, <3>5, <3>6
  <2> QED BY <1>5, <2>1, <2>2, <2>3, <2>4
<1> HIDE DEF Index
<1>8. ASSUME NEW j \in 1 .. k PROVE [sum |-> NthHeight(uniq, Index(j)), n |-> 1] \in Centre
  <2>1. NthHeight(uniq, Index(j)) \in Nat
    BY <1>1, <1>2, <1>7, NthHeightType
  <2> QED BY <2>1 DEF Centre
<1>9. StartCentres(heights) \in [1 .. k -> Centre]
  BY <1>6, <1>8
<1> QED BY <1>5, <1>9

CentresFun(f, heights) ==
  f = [r \in 0 .. Rounds |-> IF r = 0 THEN StartCentres(heights) ELSE MovedCentres(heights, f[r - 1])]
LEMMA CentresIs == ASSUME NEW heights PROVE Centres(heights) = (CHOOSE f : CentresFun(f, heights))[Rounds]
BY DEF Centres, CentresFun

LEMMA CentresExist ==
  ASSUME NEW heights, NEW D
  PROVE  StartCentres(heights) \in D /\ (\A c \in D : MovedCentres(heights, c) \in D)
           => \E f : CentresFun(f, heights)
<1> DEFINE Step == [r \in 1 .. Rounds |-> [c \in D |-> MovedCentres(heights, c)]]
<1>1. PICK z, N, step : z = StartCentres(heights) /\ N = Rounds /\ step = Step
  OBVIOUS
<1>2. N \in Nat
  BY <1>1, StructureAssumption
<1>3. ASSUME StartCentres(heights) \in D, \A c \in D : MovedCentres(heights, c) \in D
      PROVE  \E f : CentresFun(f, heights)
  <2>1. z \in D /\ N \in Nat /\ step \in [1 .. N -> [D -> D]]
    BY <1>1, <1>2, <1>3
  <2> HIDE DEF Step
  <2>2. PICK f \in [0 .. N -> D] : f[0] = z /\ \A r \in 1 .. N : f[r] = step[r][f[r - 1]]
    BY <2>1, Recursion
  <2>3. ASSUME NEW r \in 0 .. N
        PROVE  f[r] = IF r = 0 THEN StartCentres(heights) ELSE MovedCentres(heights, f[r - 1])
    <3>1. CASE r = 0
      BY <1>1, <2>2, <3>1
    <3>2. CASE r # 0
      <4>1. r \in 1 .. N /\ r - 1 \in 0 .. N
        BY <1>2, <3>2
      <4>2. f[r - 1] \in D
        BY <4>1
      <4>3. step[r][f[r - 1]] = MovedCentres(heights, f[r - 1])
        BY <1>1, <4>1, <4>2 DEF Step
      <4> QED BY <2>2, <3>2, <4>1, <4>3
    <3> QED BY <3>1, <3>2
  <2>4. f = [r \in 0 .. N |-> f[r]]
    OBVIOUS
  <2>5. f = [r \in 0 .. N |-> IF r = 0 THEN StartCentres(heights) ELSE MovedCentres(heights, f[r - 1])]
    BY <2>3, <2>4
  <2>6. CentresFun(f, heights)
    BY <1>1, <2>5 DEF CentresFun
  <2> QED BY <2>6
<1> QED BY <1>3

LEMMA CentresType ==
  ASSUME NEW heights \in Seq(Nat), heights # <<>>
  PROVE  Centres(heights) \in Seq(Centre) /\ Centres(heights) # <<>>
<1>1. PICK k \in Nat \ {0} : StartCentres(heights) \in [1 .. k -> Centre]
  BY StartType
<1>2. Rounds \in Nat
  BY StructureAssumption
<1>3. PICK D : D = [1 .. k -> Centre]
  OBVIOUS
<1>4. StartCentres(heights) \in D /\ \A c \in D : MovedCentres(heights, c) \in D
  BY <1>1, <1>3, MovedType
<1>5. \E f : CentresFun(f, heights)
  BY <1>4, CentresExist
<1>7. PICK g : CentresFun(g, heights) /\ Centres(heights) = g[Rounds]
  <2>1. CentresFun(CHOOSE g : CentresFun(g, heights), heights)
    BY <1>5
  <2> QED BY <2>1, CentresIs
<1>8. \A r \in 0 .. Rounds : g[r] = IF r = 0 THEN StartCentres(heights) ELSE MovedCentres(heights, g[r - 1])
  BY <1>7 DEF CentresFun
<1> DEFINE T == {m \in Nat : m <= Rounds => g[m] \in D}
<1>9. 0 \in T
  <2>1. 0 \in 0 .. Rounds
    BY <1>2
  <2>2. g[0] = StartCentres(heights)
    BY <1>8, <2>1, Zenon
  <2> QED BY <1>4, <2>2
<1>10. ASSUME NEW m \in T PROVE m + 1 \in T
  <2> SUFFICES ASSUME m + 1 <= Rounds PROVE g[m + 1] \in D
    OBVIOUS
  <2>1. m \in Nat /\ m + 1 \in 0 .. Rounds /\ m + 1 # 0 /\ (m + 1) - 1 = m /\ g[m] \in D
    BY <1>2
  <2>2. g[m + 1] = MovedCentres(heights, g[m])
    BY <1>8, <2>1
  <2> QED BY <1>4, <2>1, <2>2
<1>11. Rounds \in T
  <2> HIDE DEF T
  <2>1. T \in SUBSET Nat
    BY DEF T
  <2> QED BY <1>2, <1>9, <1>10, <2>1, Induct
<1>12. PICK cs : cs = Centres(heights) /\ cs \in [1 .. k -> Centre]
  BY <1>2, <1>3, <1>7, <1>11
<1>13. cs \in Seq(Centre)
  BY <1>12, SeqDef
<1>14. cs # <<>>
  BY <1>12
<1> QED BY <1>12, <1>13, <1>14

-----------------------------------------------------------------------------
\* The numbering of a title and its place among the styles of numbering.
NumberingOf(ts, i) == SymbolAndLevel(ts[i].words)
NumberedIn(ts) == {i \in DOMAIN ts : NumberingOf(ts, i)[2] > 0}
FirstWith(ts, s) == CHOOSE i \in DOMAIN ts : /\ NumberingOf(ts, i)[1] = s
                                             /\ \A j \in 1 .. i - 1 : NumberingOf(ts, j)[1] # s
StyleIn(ts, s) == 1 + Cardinality({t \in {NumberingOf(ts, i)[1] : i \in NumberedIn(ts)} :
                                      FirstWith(ts, t) < FirstWith(ts, s)})
RelativeIn(ts, i) == IF NumberingOf(ts, i)[1] = "NUM_LIST"
                     THEN StyleIn(ts, "NUM_LIST") + NumberingOf(ts, i)[2] - NumberingOf(ts, FirstWith(ts, "NUM_LIST"))[2]
                     ELSE StyleIn(ts, NumberingOf(ts, i)[1])
HeightsOf(ts) == [i \in DOMAIN ts |-> ts[i].height]

LEMMA LevelIs ==
  ASSUME NEW ts, NEW i \in DOMAIN ts
  PROVE  TitleLevels(ts)[i] =
           HeadingRange(IF NumberingOf(ts, i)[2] > 0
                        THEN Vote(NumberingOf(ts, i)[2], RelativeIn(ts, i), ClusterLevel(HeightsOf(ts)[i], HeightsOf(ts)))
                        ELSE IF ts[i].words = <<"keyword">> THEN 1
                        ELSE ClusterLevel(HeightsOf(ts)[i], HeightsOf(ts)))
BY DEF TitleLevels, NumberingOf, NumberedIn, FirstWith, StyleIn, RelativeIn, HeightsOf

LEMMA NumberEndType ==
  ASSUME NEW w \in Seq(STRING), NEW k \in Nat
  PROVE  NumberEnd(w, k) \in Nat
<1> DEFINE Ends == {e \in k .. Len(w) : /\ w[e] = "digit" /\ TokenAt(w, k) = "digit"
                                        /\ \A i \in k .. e : \/ w[i] = "digit"
                                                             \/ w[i] = "." /\ w[i + 1] = "digit"}
<1>1. NumberEnd(w, k) = IF Ends = {} THEN k ELSE (CHOOSE e \in Ends : \A f \in Ends : f <= e) + 1
  BY DEF NumberEnd
<1>2. Ends \in SUBSET Nat /\ IsFiniteSet(Ends)
  <2>1. Len(w) \in Nat /\ IsFiniteSet(k .. Len(w))
    BY FS_Interval
  <2>2. Ends \in SUBSET (k .. Len(w))
    OBVIOUS
  <2>3. k .. Len(w) \in SUBSET Nat
    BY <2>1
  <2> HIDE DEF Ends
  <2> QED BY <2>1, <2>2, <2>3, FS_Subset
<1> HIDE DEF Ends
<1>3. CASE Ends # {}
  <2>1. \E e \in Ends : \A f \in Ends : f <= e
    BY <1>2, <1>3, MostOf
  <2>2. PICK e : e = CHOOSE x \in Ends : \A f \in Ends : f <= x
    OBVIOUS
  <2>3. e \in Ends
    BY <2>1, <2>2
  <2>4. NumberEnd(w, k) = e + 1
    BY <1>1, <1>3, <2>2
  <2> QED BY <1>2, <2>3, <2>4
<1> QED BY <1>1, <1>3

LEMMA SomeOfFinite ==
  ASSUME NEW S, IsFiniteSet(S), NEW R \in SUBSET S
  PROVE  IsFiniteSet(R) /\ Cardinality(R) \in Nat
BY FS_Subset, FS_CardinalityType

LEMMA NumberingType ==
  ASSUME NEW w \in Seq(STRING)
  PROVE  SymbolAndLevel(w)[2] \in Int
<1>1. PICK number : number = NumberEnd(w, 1) /\ number \in Nat
  BY NumberEndType
<1>2. PICK depth : depth = Cardinality({i \in 1 .. number - 1 : w[i] = "."}) /\ depth \in Nat
  <2>1. IsFiniteSet(1 .. number - 1)
    BY <1>1, FS_Interval
  <2>2. {i \in 1 .. number - 1 : w[i] = "."} \in SUBSET (1 .. number - 1)
    OBVIOUS
  <2> QED BY <2>1, <2>2, SomeOfFinite
<1>3. SymbolAndLevel(w) \in {<<"NUM_LIST_BRACKET", 4>>, <<"ROMAN", 1>>, <<"CHINESE_NUM", 1>>,
                             <<"LETTER", 2>>, <<"NUM_LIST", depth + 1>>, <<"", -1>>}
  BY <1>1, <1>2, Zenon DEF SymbolAndLevel
<1>4. PICK v : v = SymbolAndLevel(w)
  OBVIOUS
<1>5. PICK s, n : v = <<s, n>> /\ n \in {4, 1, 2, depth + 1, -1}
  BY <1>3, <1>4, Zenon
<1>6. v[2] = n
  BY <1>5
<1> QED BY <1>2, <1>4, <1>5, <1>6

LEMMA StyleType ==
  ASSUME NEW ts \in Seq(TitleType), NEW s
  PROVE  StyleIn(ts, s) \in Int
<1> DEFINE names == [i \in 1 .. Len(ts) |-> NumberingOf(ts, i)[1]]
           All == {names[i] : i \in 1 .. Len(ts)}
           Styles == {t \in {NumberingOf(ts, i)[1] : i \in NumberedIn(ts)} : FirstWith(ts, t) < FirstWith(ts, s)}
<1>1. IsFiniteSet(All)
  <2>1. DOMAIN names = 1 .. Len(ts) /\ Len(ts) \in Nat
    OBVIOUS
  <2> HIDE DEF names
  <2> QED BY <2>1, ImagesFinite
<1>2. Styles \in SUBSET All
  BY DEF NumberedIn
<1>3. Cardinality(Styles) \in Nat
  <2> HIDE DEF Styles, All
  <2> QED BY <1>1, <1>2, SomeOfFinite
<1> QED BY <1>3 DEF StyleIn

LEMMA RelativeType ==
  ASSUME NEW ts \in Seq(TitleType), NEW i \in DOMAIN ts
  PROVE  RelativeIn(ts, i) \in Int
<1>1. \A j \in DOMAIN ts : NumberingOf(ts, j)[2] \in Int
  <2>1. \A j \in DOMAIN ts : ts[j].words \in Seq(STRING)
    <3>1. \A j \in DOMAIN ts : ts[j] \in TitleType
      OBVIOUS
    <3> QED BY <3>1 DEF TitleType
  <2> QED BY <2>1, NumberingType DEF NumberingOf
<1>2. CASE NumberingOf(ts, i)[1] = "NUM_LIST"
  <2> DEFINE S == {j \in DOMAIN ts : NumberingOf(ts, j)[1] = "NUM_LIST"}
  <2>1. S \in SUBSET Nat /\ S # {} /\ DOMAIN ts = 1 .. Len(ts)
    BY <1>2
  <2>2. PICK x \in S : \A y \in S : x <= y
    BY <2>1, LeastOf
  <2>3. x \in DOMAIN ts /\ NumberingOf(ts, x)[1] = "NUM_LIST" /\ \A j \in 1 .. x - 1 : NumberingOf(ts, j)[1] # "NUM_LIST"
    <3>1. \A j \in 1 .. x - 1 : j \in DOMAIN ts /\ ~(x <= j)
      BY <2>1
    <3> QED BY <2>2, <3>1
  <2>4. FirstWith(ts, "NUM_LIST") \in DOMAIN ts
    BY <2>3, Zenon DEF FirstWith
  <2>5. PICK a, b, c : /\ a = StyleIn(ts, "NUM_LIST") /\ b = NumberingOf(ts, i)[2]
                       /\ c = NumberingOf(ts, FirstWith(ts, "NUM_LIST"))[2]
    OBVIOUS
  <2>6. a \in Int /\ b \in Int /\ c \in Int
    BY <1>1, <2>4, <2>5, StyleType
  <2>7. RelativeIn(ts, i) = a + b - c
    BY <1>2, <2>5 DEF RelativeIn
  <2> QED BY <2>6, <2>7
<1>3. CASE NumberingOf(ts, i)[1] # "NUM_LIST"
  BY <1>3, StyleType DEF RelativeIn
<1> QED BY <1>2, <1>3

LEMMA HeadingType ==
  ASSUME NEW n \in Int PROVE HeadingRange(n) \in 1 .. 6
BY DEF HeadingRange

LEMMA HeadingFalls ==
  ASSUME NEW m \in Int, NEW n \in Int, m <= n PROVE HeadingRange(m) <= HeadingRange(n)
BY DEF HeadingRange

\* Titles of any number, numbering and height get levels that fall with their size.
THEOREM LargerIsHigherForAll == StructureTypeOK => LargerIsHigher
<1> SUFFICES ASSUME subject = "titles", lines \in Seq(TitleType)
             PROVE  LevelsFall(TitleLevels(lines))
  BY DEF StructureTypeOK, LargerIsHigher
<1> DEFINE hs == HeightsOf(lines)
<1>1. \A i \in DOMAIN lines : lines[i].words \in Seq(STRING) /\ lines[i].height \in Nat /\ lines # <<>>
  <2>1. \A i \in DOMAIN lines : lines[i] \in TitleType
    OBVIOUS
  <2> QED BY <2>1 DEF TitleType
<1>2. hs \in Seq(Nat) /\ (DOMAIN lines # {} => hs # <<>>) /\ DOMAIN lines = DOMAIN hs
  <2>1. hs \in [1 .. Len(lines) -> Nat] /\ Len(lines) \in Nat /\ DOMAIN lines = 1 .. Len(lines)
    BY <1>1 DEF HeightsOf
  <2>2. hs \in Seq(Nat)
    BY <2>1, SeqDef
  <2>3. DOMAIN hs = DOMAIN lines
    BY <2>1
  <2> QED BY <2>2, <2>3
<1>3. \A i \in DOMAIN lines : hs[i] = lines[i].height /\ hs[i] \in Nat
  BY <1>1 DEF HeightsOf
<1>4. ASSUME NEW i \in DOMAIN lines, NEW j \in DOMAIN lines
      PROVE  /\ ClusterLevel(hs[i], hs) \in Int
             /\ hs[j] < hs[i] => ClusterLevel(hs[i], hs) <= ClusterLevel(hs[j], hs)
  <2>1. hs \in Seq(Nat) /\ hs # <<>> /\ hs[i] \in Nat /\ hs[j] \in Nat
    BY <1>2, <1>3
  <2> HIDE DEF hs
  <2>2. Centres(hs) \in Seq(Centre) /\ Centres(hs) # <<>>
    BY <2>1, CentresType
  <2>3. PICK all, g, h : all = hs /\ g = hs[j] /\ h = hs[i]
    OBVIOUS
  <2>4. Centres(all) \in Seq(Centre) /\ Centres(all) # <<>> /\ g \in Nat /\ h \in Nat
    BY <2>1, <2>2, <2>3
  <2>5. ClusterLevel(h, all) \in Nat /\ (g < h => ClusterLevel(h, all) <= ClusterLevel(g, all))
    BY <2>4, LevelFalls
  <2> QED BY <2>3, <2>5
<1>5. ASSUME NEW i \in DOMAIN lines
      PROVE  NumberingOf(lines, i)[2] \in Int
  BY <1>1, NumberingType DEF NumberingOf
<1>6. PICK levels : levels = TitleLevels(lines)
  OBVIOUS
<1>7. ASSUME NEW i \in DOMAIN lines
      PROVE  levels[i] = HeadingRange(IF NumberingOf(lines, i)[2] > 0
                                      THEN Vote(NumberingOf(lines, i)[2], RelativeIn(lines, i), ClusterLevel(hs[i], hs))
                                      ELSE IF lines[i].words = <<"keyword">> THEN 1 ELSE ClusterLevel(hs[i], hs))
  BY <1>6, LevelIs
<1> HIDE DEF hs
<1>8. ASSUME NEW i \in DOMAIN lines PROVE levels[i] \in 1 .. 6
  <2>1. PICK a, b, c : a = NumberingOf(lines, i)[2] /\ b = RelativeIn(lines, i) /\ c = ClusterLevel(hs[i], hs)
    OBVIOUS
  <2>2. a \in Int /\ b \in Int /\ c \in Int
    BY <1>4, <1>5, <2>1, RelativeType
  <2>3. Vote(a, b, c) \in Int
    BY <2>2 DEF Vote
  <2>4. levels[i] = HeadingRange(IF a > 0 THEN Vote(a, b, c) ELSE IF lines[i].words = <<"keyword">> THEN 1 ELSE c)
    BY <1>7, <2>1
  <2>5. (IF a > 0 THEN Vote(a, b, c) ELSE IF lines[i].words = <<"keyword">> THEN 1 ELSE c) \in Int
    BY <2>2, <2>3
  <2> QED BY <2>4, <2>5, HeadingType
<1>9. ASSUME NEW i \in DOMAIN lines, SymbolAndLevel(lines[i].words)[2] < 0, lines[i].words # <<"keyword">>
      PROVE  levels[i] = HeadingRange(ClusterLevel(hs[i], hs))
  <2>1. ~(NumberingOf(lines, i)[2] > 0)
    BY <1>5, <1>9 DEF NumberingOf
  <2> QED BY <1>7, <1>9, <2>1
<1>10. ASSUME NEW i \in DOMAIN lines, NEW j \in DOMAIN lines,
              SymbolAndLevel(lines[i].words)[2] < 0, lines[i].words # <<"keyword">>,
              SymbolAndLevel(lines[j].words)[2] < 0, lines[j].words # <<"keyword">>,
              lines[i].height > lines[j].height
       PROVE  levels[i] <= levels[j]
  <2>1. PICK a, b : a = ClusterLevel(hs[i], hs) /\ b = ClusterLevel(hs[j], hs)
    OBVIOUS
  <2>2. a \in Int /\ b \in Int
    BY <1>4, <2>1
  <2>3. hs[j] < hs[i]
    BY <1>3, <1>10
  <2>4. a <= b
    BY <1>4, <2>1, <2>3
  <2> QED BY <1>9, <1>10, <2>1, <2>2, <2>4, HeadingFalls
<1> QED BY <1>6, <1>8, <1>10, Zenon DEF LevelsFall

------------------------------------------------------------------------------
\* The tables of a document (DocAssembly).

\* Rows of the same texts and widths.
LEMMA SameItself == ASSUME NEW S, NEW r \in Seq(S) PROVE SameHeader(r, r)
BY DEF SameHeader

LEMMA SameFurther ==
  ASSUME NEW S, NEW r \in Seq(S), NEW q \in Seq(S), NEW p \in Seq(S),
         SameHeader(r, q), SameHeader(q, p)
  PROVE  SameHeader(r, p)
<1>1. DOMAIN r = 1 .. Len(r) /\ DOMAIN q = 1 .. Len(q) /\ Len(r) = Len(q)
  BY LenProperties DEF SameHeader
<1> QED BY <1>1 DEF SameHeader

\* f finds the rows s among the rows t, in order.
Finds(f, s, t) ==
  /\ f \in [1 .. Len(s) -> 1 .. Len(t)]
  /\ \A a, b \in 1 .. Len(s) : a < b => f[a] < f[b]
  /\ \A a \in 1 .. Len(s) : s[a] = t[f[a]]

\* s is t without rows of which s has another of the same texts and widths.
Reduced(s, t) ==
  /\ \E f : Finds(f, s, t)
  /\ \A a \in 1 .. Len(t) : \E b \in 1 .. Len(s) : SameHeader(s[b], t[a])

LEMMA ReducedItself == ASSUME NEW S, NEW s \in Seq(Seq(S)) PROVE Reduced(s, s)
<1> DEFINE f == [a \in 1 .. Len(s) |-> a]
<1>1. Len(s) \in Nat /\ \A a \in 1 .. Len(s) : s[a] \in Seq(S)
  BY LenProperties
<1>2. Finds(f, s, s)
  BY <1>1 DEF Finds
<1>3. \A a \in 1 .. Len(s) : SameHeader(s[a], s[a])
  BY <1>1, SameItself
<1> HIDE DEF f
<1> QED BY <1>2, <1>3 DEF Reduced

LEMMA ReducedFurther ==
  ASSUME NEW S, NEW s \in Seq(Seq(S)), NEW t \in Seq(Seq(S)), NEW u \in Seq(Seq(S)),
         Reduced(s, t), Reduced(t, u)
  PROVE  Reduced(s, u)
<1>1. /\ Len(s) \in Nat /\ Len(t) \in Nat /\ Len(u) \in Nat
      /\ \A a \in 1 .. Len(s) : s[a] \in Seq(S)
      /\ \A a \in 1 .. Len(t) : t[a] \in Seq(S)
      /\ \A a \in 1 .. Len(u) : u[a] \in Seq(S)
  BY LenProperties
<1>2. PICK f : Finds(f, s, t)
  BY DEF Reduced
<1>3. PICK g : Finds(g, t, u)
  BY DEF Reduced
<1> DEFINE e == [a \in 1 .. Len(s) |-> g[f[a]]]
<1>4. \A a \in 1 .. Len(s) : f[a] \in 1 .. Len(t)
  BY <1>2 DEF Finds
<1>5. Finds(e, s, u)
  BY <1>1, <1>2, <1>3, <1>4 DEF Finds
<1>6. ASSUME NEW a \in 1 .. Len(u) PROVE \E b \in 1 .. Len(s) : SameHeader(s[b], u[a])
  <2>1. PICK c \in 1 .. Len(t) : SameHeader(t[c], u[a])
    BY DEF Reduced
  <2>2. PICK b \in 1 .. Len(s) : SameHeader(s[b], t[c])
    BY DEF Reduced
  <2> QED BY <1>1, <2>1, <2>2, SameFurther
<1> HIDE DEF e
<1> QED BY <1>5, <1>6 DEF Reduced

\* What comes behind both changes nothing.
LEMMA ReducedBehind ==
  ASSUME NEW S, NEW s \in Seq(Seq(S)), NEW t \in Seq(Seq(S)), NEW x \in Seq(Seq(S)),
         Reduced(s, t)
  PROVE  Reduced(s \o x, t \o x)
<1>1. PICK k, m, n : k = Len(s) /\ m = Len(t) /\ n = Len(x)
  OBVIOUS
<1>2. k \in Nat /\ m \in Nat /\ n \in Nat /\ (\A a \in 1 .. n : x[a] \in Seq(S))
  BY <1>1, LenProperties
<1>3. PICK sx, tx : sx = s \o x /\ tx = t \o x
  OBVIOUS
<1>4. /\ Len(sx) = k + n /\ Len(tx) = m + n
      /\ \A a \in 1 .. k + n : sx[a] = IF a <= k THEN s[a] ELSE x[a - k]
      /\ \A a \in 1 .. m + n : tx[a] = IF a <= m THEN t[a] ELSE x[a - m]
  BY <1>1, <1>3, ConcatProperties
<1>5. PICK f : Finds(f, s, t)
  BY DEF Reduced
<1>6. /\ \A a \in 1 .. k : f[a] \in 1 .. m /\ s[a] = t[f[a]]
      /\ \A a, b \in 1 .. k : a < b => f[a] < f[b]
  BY <1>1, <1>5 DEF Finds
<1> DEFINE e == [a \in 1 .. k + n |-> IF a <= k THEN f[a] ELSE m + (a - k)]
<1>7. ASSUME NEW a \in 1 .. k + n
      PROVE  e[a] \in 1 .. m + n /\ sx[a] = tx[e[a]] /\ (a > k => e[a] > m) /\ (a <= k => e[a] <= m)
  <2>1. CASE a <= k
    <3>1. a \in 1 .. k /\ e[a] = f[a] /\ f[a] \in 1 .. m /\ f[a] \in 1 .. m + n
      BY <1>2, <1>6, <2>1
    <3> HIDE DEF e
    <3>2. PICK d : d = e[a] /\ d \in 1 .. m /\ d \in 1 .. m + n /\ d <= m /\ ~(d > m)
      BY <1>2, <3>1
    <3>3. sx[a] = s[a] /\ tx[d] = t[d] /\ s[a] = t[d]
      BY <1>4, <1>6, <2>1, <3>1, <3>2
    <3> QED BY <1>2, <2>1, <3>2, <3>3
  <2>2. CASE a > k
    <3>1. e[a] = m + (a - k) /\ e[a] \in 1 .. m + n /\ e[a] > m /\ e[a] - m = a - k
      BY <1>2, <2>2
    <3> HIDE DEF e
    <3>2. sx[a] = x[a - k]
      <4>1. sx[a] = IF a <= k THEN s[a] ELSE x[a - k]
        BY <1>4
      <4> QED BY <1>2, <2>2, <4>1
    <3>3. tx[e[a]] = x[e[a] - m]
      BY <1>2, <1>4, <3>1
    <3> QED BY <1>2, <2>2, <3>1, <3>2, <3>3
  <2> QED BY <1>2, <2>1, <2>2
<1>8. ASSUME NEW a \in 1 .. k + n, NEW b \in 1 .. k + n, a < b PROVE e[a] < e[b]
  <2>1. CASE b <= k
    BY <1>2, <1>6, <1>8, <2>1
  <2>2. CASE a <= k /\ b > k
    <3> HIDE DEF e
    <3>1. e[a] <= m /\ e[b] > m /\ e[a] \in Nat /\ e[b] \in Nat
      BY <1>2, <1>7, <2>2
    <3> QED BY <1>2, <3>1
  <2>3. CASE a > k
    BY <1>2, <1>8, <2>3
  <2> QED BY <1>2, <1>8, <2>1, <2>2, <2>3
<1>9. e \in [1 .. k + n -> 1 .. m + n]
  <2>1. e = [a \in 1 .. k + n |-> e[a]]
    OBVIOUS
  <2> HIDE DEF e
  <2> QED BY <1>7, <2>1
<1>10. Finds(e, sx, tx)
  <2> HIDE DEF e
  <2> QED BY <1>4, <1>7, <1>8, <1>9 DEF Finds
<1>11. ASSUME NEW a \in 1 .. m + n PROVE \E b \in 1 .. k + n : SameHeader(sx[b], tx[a])
  <2>1. CASE a <= m
    <3>1. PICK b \in 1 .. k : SameHeader(s[b], t[a])
      BY <1>1, <1>2, <2>1 DEF Reduced
    <3>2. b \in 1 .. k + n /\ sx[b] = s[b] /\ tx[a] = t[a]
      BY <1>2, <1>4, <2>1
    <3> QED BY <3>1, <3>2
  <2>2. CASE a > m
    <3>1. a - m \in 1 .. n /\ (a - m) + k \in 1 .. k + n /\ ~((a - m) + k <= k) /\ ((a - m) + k) - k = a - m
      BY <1>2, <2>2
    <3>2. sx[(a - m) + k] = x[a - m] /\ tx[a] = x[a - m]
      BY <1>2, <1>4, <2>2, <3>1
    <3>3. SameHeader(x[a - m], x[a - m])
      BY <1>2, <3>1, SameItself
    <3> QED BY <3>1, <3>2, <3>3
  <2> QED BY <1>2, <2>1, <2>2
<1> HIDE DEF e
<1> QED BY <1>3, <1>4, <1>10, <1>11 DEF Reduced
\* Of two lists the second loses rows at its head that the first has as well.
LEMMA ReducedHead ==
  ASSUME NEW S, NEW s \in Seq(Seq(S)), NEW t \in Seq(Seq(S)), NEW h \in 0 .. Len(t),
         \A a \in 1 .. h : \E b \in 1 .. Len(s) : SameHeader(s[b], t[a])
  PROVE  /\ SubSeq(t, h + 1, Len(t)) \in Seq(Seq(S))
         /\ Reduced(s \o SubSeq(t, h + 1, Len(t)), s \o t)
<1>1. PICK k, m, u : k = Len(s) /\ m = Len(t) /\ u = SubSeq(t, h + 1, Len(t))
  OBVIOUS
<1>2. k \in Nat /\ m \in Nat /\ h \in Nat /\ h <= m /\ (\A a \in 1 .. m : t[a] \in Seq(S))
      /\ (\A a \in 1 .. k : s[a] \in Seq(S))
  BY <1>1, LenProperties
<1>3. /\ u \in Seq(Seq(S)) /\ Len(u) = m - h
      /\ \A a \in 1 .. m - h : u[a] = t[h + a]
  <2>1. h + 1 \in Int /\ m \in Int /\ \A a \in h + 1 .. m : t[a] \in Seq(S)
    BY <1>2
  <2>2. /\ u \in Seq(Seq(S))
        /\ Len(u) = IF h + 1 <= m THEN m - (h + 1) + 1 ELSE 0
        /\ \A a \in 1 .. m - (h + 1) + 1 : u[a] = t[(h + 1) + a - 1]
    BY <1>1, <2>1, SubSeqProperties
  <2>3. Len(u) = m - h
    BY <1>2, <2>2
  <2>4. ASSUME NEW a \in 1 .. m - h PROVE u[a] = t[h + a]
    <3>1. a \in 1 .. m - (h + 1) + 1 /\ (h + 1) + a - 1 = h + a
      BY <1>2
    <3> QED BY <2>2, <3>1
  <2> QED BY <2>2, <2>3, <2>4
<1>4. PICK su, st : su = s \o u /\ st = s \o t
  OBVIOUS
<1>5. /\ Len(su) = k + (m - h) /\ Len(st) = k + m
      /\ \A a \in 1 .. k + (m - h) : su[a] = IF a <= k THEN s[a] ELSE u[a - k]
      /\ \A a \in 1 .. k + m : st[a] = IF a <= k THEN s[a] ELSE t[a - k]
  <2>1. /\ Len(s \o u) = k + (m - h)
        /\ \A a \in 1 .. k + (m - h) : (s \o u)[a] = IF a <= k THEN s[a] ELSE u[a - k]
    <3>1. u \in Seq(Seq(S))
      BY <1>3
    <3>2. /\ Len(s \o u) = Len(s) + Len(u)
          /\ \A a \in 1 .. Len(s) + Len(u) : (s \o u)[a] = IF a <= Len(s) THEN s[a] ELSE u[a - Len(s)]
      BY <3>1, ConcatProperties
    <3> QED BY <1>1, <1>3, <3>2
  <2>2. /\ Len(s \o t) = k + m
        /\ \A a \in 1 .. k + m : (s \o t)[a] = IF a <= k THEN s[a] ELSE t[a - k]
    BY <1>1, ConcatProperties
  <2> QED BY <1>4, <2>1, <2>2
<1> DEFINE e == [a \in 1 .. k + (m - h) |-> IF a <= k THEN a ELSE a + h]
<1>6. e \in [1 .. k + (m - h) -> 1 .. k + m] /\ \A a, b \in 1 .. k + (m - h) : a < b => e[a] < e[b]
  BY <1>2
<1>7. ASSUME NEW a \in 1 .. k + (m - h) PROVE su[a] = st[e[a]]
  <2>1. CASE a <= k
    <3>1. e[a] = a /\ a \in 1 .. k + m
      BY <1>2, <2>1
    <3> QED BY <1>5, <2>1, <3>1
  <2>2. CASE a > k
    <3>1. /\ e[a] = a + h /\ a + h \in 1 .. k + m /\ ~(a + h <= k) /\ a - k \in 1 .. m - h
          /\ (a + h) - k = h + (a - k) /\ ~(a <= k)
      BY <1>2, <2>2
    <3>2. su[a] = u[a - k] /\ st[a + h] = t[h + (a - k)]
      BY <1>5, <3>1
    <3> QED BY <1>3, <3>1, <3>2
  <2> QED BY <1>2, <2>1, <2>2
<1>8. Finds(e, su, st)
  <2> HIDE DEF e
  <2> QED BY <1>5, <1>6, <1>7 DEF Finds
<1>9. ASSUME NEW a \in 1 .. k + m PROVE \E b \in 1 .. k + (m - h) : SameHeader(su[b], st[a])
  <2>1. CASE a <= k
    <3>1. a \in 1 .. k + (m - h) /\ a \in 1 .. k /\ su[a] = s[a] /\ st[a] = s[a]
      BY <1>2, <1>5, <2>1
    <3>2. SameHeader(s[a], s[a])
      BY <1>2, <3>1, SameItself
    <3> QED BY <3>1, <3>2
  <2>2. CASE a > k /\ a - k <= h
    <3>1. a - k \in 1 .. h /\ ~(a <= k)
      BY <1>2, <2>2
    <3>2. PICK b \in 1 .. k : SameHeader(s[b], t[a - k])
      BY <1>1, <3>1
    <3>3. b \in 1 .. k + (m - h) /\ su[b] = s[b] /\ st[a] = t[a - k]
      BY <1>2, <1>5, <3>1
    <3> QED BY <3>2, <3>3
  <2>3. CASE a > k /\ a - k > h
    <3>1. /\ a - h \in 1 .. k + (m - h) /\ ~(a - h <= k) /\ ~(a <= k) /\ (a - h) - k \in 1 .. m - h
          /\ h + ((a - h) - k) = a - k /\ a - k \in 1 .. m
      BY <1>2, <2>3
    <3>2. su[a - h] = u[(a - h) - k] /\ st[a] = t[a - k] /\ u[(a - h) - k] = t[a - k]
      BY <1>3, <1>5, <3>1
    <3>3. SameHeader(t[a - k], t[a - k])
      BY <1>2, <3>1, SameItself
    <3> QED BY <3>1, <3>2, <3>3
  <2> QED BY <1>2, <2>1, <2>2, <2>3
<1> HIDE DEF e
<1>10. Reduced(su, st)
  BY <1>5, <1>8, <1>9 DEF Reduced
<1> QED BY <1>1, <1>3, <1>4, <1>10

\* Rows that can be found in order are found by taking the first that fits.
FoundFun(f, s, t) ==
  f = [n \in 0 .. Len(t) |->
         IF n = 0 THEN 0
         ELSE LET m == f[n - 1] IN IF m < Len(s) /\ s[m + 1] = t[n] THEN m + 1 ELSE m]
LEMMA IsLeftOfIs ==
  ASSUME NEW s, NEW t
  PROVE  IsLeftOf(s, t) <=> (CHOOSE f : FoundFun(f, s, t))[Len(t)] = Len(s)
BY DEF IsLeftOf, FoundFun

LEMMA FoundExists ==
  ASSUME NEW s, NEW t PROVE Len(t) \in Nat => \E f : FoundFun(f, s, t)
<1> SUFFICES ASSUME Len(t) \in Nat PROVE \E f : FoundFun(f, s, t)
  OBVIOUS
<1>0. PICK N : N = Len(t) /\ N \in Nat
  OBVIOUS
<1> DEFINE Step == [n \in 1 .. N |-> [m \in Nat |-> IF m < Len(s) /\ s[m + 1] = t[n] THEN m + 1 ELSE m]]
<1>1. Step \in [1 .. N -> [Nat -> Nat]]
  OBVIOUS
<1>2. PICK f \in [0 .. N -> Nat] : f[0] = 0 /\ \A n \in 1 .. N : f[n] = Step[n][f[n - 1]]
  <2> HIDE DEF Step
  <2>1. PICK D, z, step : D = Nat /\ z = 0 /\ step = Step
    OBVIOUS
  <2>2. Steps(D, z, N, step)
    BY <1>0, <1>1, <2>1 DEF Steps
  <2>3. \E f \in [0 .. N -> D] : f[0] = z /\ \A n \in 1 .. N : f[n] = step[n][f[n - 1]]
    BY <2>2, RecursionOf
  <2> QED BY <2>1, <2>3
<1>3. ASSUME NEW n \in 0 .. N
      PROVE  f[n] = IF n = 0 THEN 0
                    ELSE LET m == f[n - 1] IN IF m < Len(s) /\ s[m + 1] = t[n] THEN m + 1 ELSE m
  <2>1. CASE n = 0
    BY <1>2, <2>1
  <2>2. CASE n # 0
    <3>1. n \in 1 .. N /\ n - 1 \in 0 .. N /\ f[n - 1] \in Nat
      BY <1>0, <2>2
    <3> QED BY <1>2, <2>2, <3>1
  <2> QED BY <2>1, <2>2
<1>4. f = [n \in 0 .. N |-> f[n]]
  OBVIOUS
<1>5. FoundFun(f, s, t)
  BY <1>0, <1>3, <1>4 DEF FoundFun
<1> QED BY <1>5

LEMMA FoundIsLeft ==
  ASSUME NEW S, NEW s \in Seq(S), NEW t \in Seq(S), NEW e, Finds(e, s, t)
  PROVE  IsLeftOf(s, t)
<1>1. PICK k, n : k = Len(s) /\ n = Len(t)
  OBVIOUS
<1>2. k \in Nat /\ n \in Nat
  BY <1>1, LenProperties
<1>3. PICK f : FoundFun(f, s, t) /\ (IsLeftOf(s, t) <=> f[n] = k)
  <2>1. FoundFun(CHOOSE g : FoundFun(g, s, t), s, t)
    BY <1>1, <1>2, FoundExists
  <2> QED BY <1>1, <2>1, IsLeftOfIs
<1>4. \A m \in 0 .. n : f[m] = IF m = 0 THEN 0
                               ELSE IF f[m - 1] < k /\ s[f[m - 1] + 1] = t[m] THEN f[m - 1] + 1
                               ELSE f[m - 1]
  BY <1>1, <1>3 DEF FoundFun
<1>5. /\ \A a \in 1 .. k : e[a] \in 1 .. n /\ s[a] = t[e[a]]
      /\ \A a, b \in 1 .. k : a < b => e[a] < e[b]
  BY <1>1 DEF Finds
<1> DEFINE Good(m) == f[m] \in 0 .. k /\ \A a \in 1 .. k : e[a] <= m => a <= f[m]
           T == {m \in Nat : m <= n => Good(m)}
<1>6. 0 \in T
  BY <1>2, <1>4, <1>5
<1>7. ASSUME NEW m \in T PROVE m + 1 \in T
  <2>1. m \in Nat
    OBVIOUS
  <2> SUFFICES ASSUME m + 1 <= n PROVE Good(m + 1)
    BY <2>1
  <2>2. /\ m <= n /\ f[m] \in 0 .. k /\ \A a \in 1 .. k : e[a] <= m => a <= f[m]
    BY <1>2, <2>1
  <2>3. f[m + 1] = IF f[m] < k /\ s[f[m] + 1] = t[m + 1] THEN f[m] + 1 ELSE f[m]
    BY <1>2, <1>4, <2>1
  <2>4. f[m + 1] \in 0 .. k /\ f[m] <= f[m + 1]
    BY <1>2, <2>2, <2>3
  <2>5. ASSUME NEW a \in 1 .. k, e[a] <= m + 1 PROVE a <= f[m + 1]
    <3>1. CASE e[a] <= m
      BY <1>2, <2>2, <2>4, <3>1
    <3>2. CASE e[a] = m + 1 /\ a <= f[m]
      BY <1>2, <2>2, <2>4, <3>2
    <3>3. CASE e[a] = m + 1 /\ a > f[m]
      <4>1. a - 1 <= f[m]
        <5>1. CASE a = 1
          BY <2>2, <5>1
        <5>2. CASE a > 1
          <6>1. a - 1 \in 1 .. k /\ e[a - 1] < e[a] /\ e[a - 1] \in Nat
            BY <1>2, <1>5, <5>2
          <6>2. e[a - 1] <= m
            BY <2>1, <3>3, <6>1
          <6> QED BY <2>2, <6>1, <6>2
        <5> QED BY <5>1, <5>2
      <4>2. f[m] + 1 = a /\ f[m] < k
        BY <1>2, <2>2, <3>3, <4>1
      <4>3. s[f[m] + 1] = t[m + 1]
        BY <1>5, <3>3, <4>2
      <4> QED BY <2>3, <4>2, <4>3
    <3>4. e[a] \in Nat /\ f[m] \in Nat
      BY <1>5, <2>2
    <3> QED BY <2>1, <2>5, <3>1, <3>2, <3>3, <3>4
  <2> QED BY <2>4, <2>5
<1>8. n \in T
  <2>1. T \in SUBSET Nat
    OBVIOUS
  <2> HIDE DEF T
  <2> QED BY <1>2, <1>6, <1>7, <2>1, Induct
<1>9. f[n] = k
  <2>1. Good(n)
    BY <1>2, <1>8
  <2>2. CASE k = 0
    BY <2>1, <2>2
  <2>3. CASE k # 0
    BY <1>2, <1>5, <2>1, <2>3
  <2> QED BY <2>2, <2>3
<1> QED BY <1>3, <1>9

\* A list of blocks as the joins leave it: pages in order, rows in tables alone,
\* and who has joined another is empty and behind it.
ListedBlock == [label : STRING, width : Int, words : Seq(STRING), page : Nat,
                group : Nat, rows : Seq(RowType)]
Doc(blocks) ==
  /\ blocks \in Seq(ListedBlock)
  /\ \A a, b \in 1 .. Len(blocks) : a <= b => blocks[a].page <= blocks[b].page
  /\ \A a \in 1 .. Len(blocks) :
       /\ blocks[a].label = "table" \/ blocks[a].rows = <<>>
       /\ blocks[a].group \in 1 .. a
       /\ blocks[a].group # a =>
            /\ blocks[a].rows = <<>>
            /\ blocks[blocks[a].group].group # blocks[a].group \/ blocks[blocks[a].group].rows # <<>>

LEMMA BlockWithIs ==
  ASSUME NEW b \in ListedBlock, NEW p \in Nat, NEW g \in Nat, NEW r \in Seq(RowType)
  PROVE  /\ BlockWith(b, p, g, r) \in ListedBlock
         /\ BlockWith(b, p, g, r).label = b.label /\ BlockWith(b, p, g, r).page = p
         /\ BlockWith(b, p, g, r).group = g /\ BlockWith(b, p, g, r).rows = r
BY DEF BlockWith, ListedBlock

LEMMA ListedIs ==
  ASSUME NEW blocks \in Seq(ListedBlock)
  PROVE  /\ Len(blocks) \in Nat /\ DOMAIN blocks = 1 .. Len(blocks)
         /\ \A a \in 1 .. Len(blocks) : /\ blocks[a] \in ListedBlock
                                        /\ blocks[a].page \in Nat /\ blocks[a].group \in Nat
                                        /\ blocks[a].rows \in Seq(RowType)
<1>1. Len(blocks) \in Nat /\ DOMAIN blocks = 1 .. Len(blocks)
      /\ \A a \in 1 .. Len(blocks) : blocks[a] \in ListedBlock
  BY LenProperties
<1>2. \A b \in ListedBlock : b.page \in Nat /\ b.group \in Nat /\ b.rows \in Seq(RowType)
  BY DEF ListedBlock
<1> QED BY <1>1, <1>2

\* The rows at the head of both tables.
LEMMA HeaderRowsAre ==
  ASSUME NEW t1 \in Seq(RowType), NEW t2 \in Seq(RowType)
  PROVE  /\ HeaderRows(t1, t2) \in 0 .. Len(t2) /\ HeaderRows(t1, t2) <= Len(t1)
         /\ \A a \in 1 .. HeaderRows(t1, t2) : SameHeader(t1[a], t2[a])
<1>1. Len(t1) \in Nat /\ Len(t2) \in Nat /\ MaxHeaderRows \in Nat
  BY LenProperties, StructureAssumption
<1>2. PICK all : all = {Len(t1), Len(t2), MaxHeaderRows}
  OBVIOUS
<1>3. PICK most : most = CHOOSE n \in all : \A m \in all : n <= m
  OBVIOUS
<1>4. most \in all /\ \A m \in all : most <= m
  <2>1. \E n \in all : \A m \in all : n <= m
    BY <1>1, <1>2
  <2> QED BY <1>3, <2>1
<1>5. most \in Nat /\ most <= Len(t1) /\ most <= Len(t2)
  BY <1>1, <1>2, <1>4
<1> DEFINE Ends(n) == n = most \/ ~SameHeader(t1[n + 1], t2[n + 1])
           Is(n) == (\A i \in 1 .. n : SameHeader(t1[i], t2[i])) /\ Ends(n)
<1>6. \E n \in 0 .. most : Is(n)
  <2> DEFINE T == {n \in 0 .. most : Ends(n)}
  <2>1. T \in SUBSET Nat /\ most \in T
    BY <1>5
  <2>2. PICK x \in T : \A y \in T : x <= y
    <3> HIDE DEF T
    <3> QED BY <2>1, LeastOf
  <2>3. x \in 0 .. most /\ Ends(x)
    OBVIOUS
  <2>4. ASSUME NEW i \in 1 .. x PROVE SameHeader(t1[i], t2[i])
    <3>1. i - 1 \in 0 .. most /\ i - 1 < x /\ (i - 1) + 1 = i
      BY <1>5, <2>3
    <3>2. i - 1 \notin T
      <4> HIDE DEF T
      <4> QED BY <2>2, <2>3, <3>1
    <3>3. ~Ends(i - 1)
      BY <3>1, <3>2
    <3> QED BY <3>1, <3>3
  <2> QED BY <2>3, <2>4
<1>7. HeaderRows(t1, t2) = CHOOSE n \in 0 .. most : Is(n)
  BY <1>2, <1>3 DEF HeaderRows
<1>8. HeaderRows(t1, t2) \in 0 .. most /\ Is(HeaderRows(t1, t2))
  <2> HIDE DEF Is
  <2> QED BY <1>6, <1>7
<1> QED BY <1>1, <1>5, <1>8

\* Block j has joined block i.
Joined(old, new, i, j) ==
  /\ i \in 1 .. Len(old) /\ j \in 1 .. Len(old) /\ i < j
  /\ \A k \in i + 1 .. j - 1 : old[k].rows = <<>>
  /\ old[i].rows # <<>> /\ old[j].rows # <<>>
  /\ new \in Seq(ListedBlock) /\ Len(new) = Len(old)
  /\ \A k \in 1 .. Len(old) : new[k].label = old[k].label /\ new[k].page = old[k].page
  /\ new[i].rows = old[i].rows \o OwnRows(old[i].rows, old[j].rows)
  /\ new[i].group = old[i].group
  /\ old[i].label = "table" /\ old[j].label = "table"
  /\ new[j].rows = <<>> /\ new[j].group = i
  /\ \A k \in 1 .. Len(old) \ {i, j} : new[k] = old[k]

LEMMA OwnRowsIs ==
  ASSUME NEW t1 \in Seq(RowType), NEW t2 \in Seq(RowType)
  PROVE  /\ OwnRows(t1, t2) \in Seq(RowType)
         /\ \A s \in Seq(RowType) :
              (\A a \in 1 .. Len(t1) : \E b \in 1 .. Len(s) : s[b] = t1[a])
                => Reduced(s \o OwnRows(t1, t2), s \o t2)
<1>1. PICK S : RowType = Seq(S)
  BY DEF RowType
<1>2. PICK h : h = HeaderRows(t1, t2)
  OBVIOUS
<1>3. /\ h \in 0 .. Len(t2) /\ h <= Len(t1)
      /\ \A a \in 1 .. h : SameHeader(t1[a], t2[a])
      /\ Len(t1) \in Nat
  BY <1>2, HeaderRowsAre, LenProperties
<1>4. OwnRows(t1, t2) = SubSeq(t2, h + 1, Len(t2))
  BY <1>2 DEF OwnRows
<1>5. ASSUME NEW s \in Seq(RowType), \A a \in 1 .. Len(t1) : \E b \in 1 .. Len(s) : s[b] = t1[a]
      PROVE  /\ OwnRows(t1, t2) \in Seq(RowType)
             /\ Reduced(s \o OwnRows(t1, t2), s \o t2)
  <2>1. \A a \in 1 .. h : \E b \in 1 .. Len(s) : SameHeader(s[b], t2[a])
    <3> SUFFICES ASSUME NEW a \in 1 .. h PROVE \E b \in 1 .. Len(s) : SameHeader(s[b], t2[a])
      OBVIOUS
    <3>1. a \in 1 .. Len(t1) /\ SameHeader(t1[a], t2[a])
      BY <1>3
    <3>2. PICK b \in 1 .. Len(s) : s[b] = t1[a]
      BY <1>5, <3>1
    <3> QED BY <3>1, <3>2
  <2>2. s \in Seq(Seq(S)) /\ t2 \in Seq(Seq(S)) /\ h \in 0 .. Len(t2)
    BY <1>1, <1>3
  <2>3. /\ SubSeq(t2, h + 1, Len(t2)) \in Seq(Seq(S))
        /\ Reduced(s \o SubSeq(t2, h + 1, Len(t2)), s \o t2)
    BY <2>1, <2>2, ReducedHead
  <2> QED BY <1>1, <1>4, <2>3
<1>6. OwnRows(t1, t2) \in Seq(RowType)
  <2>1. \A a \in 1 .. Len(t1) : \E b \in 1 .. Len(t1) : t1[b] = t1[a]
    OBVIOUS
  <2> QED BY <1>5, <2>1
<1> QED BY <1>5, <1>6

LEMMA TablesFinite ==
  ASSUME NEW blocks \in Seq(ListedBlock), NEW p
  PROVE  /\ TablesOf(blocks, p) \in SUBSET (1 .. Len(blocks)) /\ IsFiniteSet(TablesOf(blocks, p))
         /\ \A k \in 1 .. Len(blocks) :
              k \in TablesOf(blocks, p) <=> blocks[k].page = p /\ blocks[k].label = "table"
<1>1. Len(blocks) \in Nat /\ DOMAIN blocks = 1 .. Len(blocks)
  BY ListedIs
<1>2. IsFiniteSet(1 .. Len(blocks))
  BY <1>1, FS_Interval
<1>3. TablesOf(blocks, p) \in SUBSET (1 .. Len(blocks))
  BY <1>1 DEF TablesOf
<1>4. IsFiniteSet(TablesOf(blocks, p))
  BY <1>2, <1>3, FS_Subset
<1> QED BY <1>1, <1>3, <1>4 DEF TablesOf

\* At a page break nothing changes, or the first table joins the last above.
LEMMA JoinAcrossIs ==
  ASSUME NEW old, Doc(old), NEW p \in Nat \ {0}
  PROVE  JoinAcross(old, p) = old \/ \E i, j : Joined(old, JoinAcross(old, p), i, j)
<1>1. PICK n : n = Len(old)
  OBVIOUS
<1>2. /\ old \in Seq(ListedBlock) /\ n \in Nat /\ DOMAIN old = 1 .. n
      /\ \A a \in 1 .. n : /\ old[a] \in ListedBlock
                           /\ old[a].page \in Nat /\ old[a].group \in Nat
                           /\ old[a].rows \in Seq(RowType)
  BY <1>1, ListedIs DEF Doc
<1>3. PICK A, B : A = TablesOf(old, p - 1) /\ B = TablesOf(old, p)
  OBVIOUS
<1>4. PICK i, j : i = Max(A) /\ j = Min(B)
  OBVIOUS
<1>5. PICK new : new = JoinAcross(old, p)
  OBVIOUS
<1> SUFFICES ASSUME new # old PROVE Joined(old, new, i, j)
  BY <1>5
<1>6. /\ A # {} /\ B # {} /\ CanMergeTables(old, i, j)
      /\ new = [k \in DOMAIN old |->
                 IF k = i THEN BlockWith(old[i], p - 1, old[i].group,
                                         old[i].rows \o OwnRows(old[i].rows, old[j].rows))
                 ELSE IF k = j THEN BlockWith(old[j], p, i, <<>>)
                 ELSE old[k]]
  BY <1>3, <1>4, <1>5 DEF JoinAcross
<1>7. /\ A \in SUBSET (1 .. n) /\ IsFiniteSet(A) /\ B \in SUBSET (1 .. n) /\ IsFiniteSet(B)
      /\ \A k \in 1 .. n : k \in A <=> old[k].page = p - 1 /\ old[k].label = "table"
      /\ \A k \in 1 .. n : k \in B <=> old[k].page = p /\ old[k].label = "table"
  BY <1>1, <1>2, <1>3, TablesFinite
<1>8. i \in A /\ \A k \in A : k <= i
  <2>1. A \in SUBSET Nat
    BY <1>2, <1>7
  <2>2. \E x \in A : \A y \in A : y <= x
    BY <1>6, <1>7, <2>1, MostOf
  <2> QED BY <1>4, <2>2 DEF Max
<1>9. j \in B /\ \A k \in B : j <= k
  <2>1. B \in SUBSET Nat
    BY <1>2, <1>7
  <2>2. \E x \in B : \A y \in B : x <= y
    BY <1>6, <2>1, LeastOf
  <2> QED BY <1>4, <2>2 DEF Min
<1>10. i \in 1 .. n /\ j \in 1 .. n /\ old[i].page = p - 1 /\ old[j].page = p
       /\ old[i].label = "table" /\ old[j].label = "table"
  BY <1>7, <1>8, <1>9
<1>11. i < j /\ i # j
  <2>1. \A a, b \in 1 .. n : a <= b => old[a].page <= old[b].page
    BY <1>1 DEF Doc
  <2>2. ~(j <= i)
    BY <1>10, <2>1
  <2> QED BY <1>10, <2>2
<1>12. ASSUME NEW k \in i + 1 .. j - 1 PROVE old[k].rows = <<>>
  <2>1. k \in 1 .. n /\ i <= k /\ k <= j /\ ~(k <= i) /\ ~(j <= k)
    BY <1>2, <1>10
  <2>2. old[i].page <= old[k].page /\ old[k].page <= old[j].page
    BY <1>1, <1>10, <2>1 DEF Doc
  <2>3. old[k].page = p - 1 \/ old[k].page = p
    BY <1>2, <1>10, <2>1, <2>2
  <2>4. old[k].label # "table"
    BY <1>7, <1>8, <1>9, <2>1, <2>3
  <2> QED BY <1>1, <2>1, <2>4 DEF Doc
<1>13. old[i].rows # <<>> /\ old[j].rows # <<>>
  BY <1>6 DEF CanMergeTables
<1>14. PICK own : own = OwnRows(old[i].rows, old[j].rows)
  OBVIOUS
<1>15. own \in Seq(RowType) /\ old[i].rows \o own \in Seq(RowType) /\ <<>> \in Seq(RowType)
  <2>1. old[i].rows \in Seq(RowType) /\ old[j].rows \in Seq(RowType)
    BY <1>2, <1>10
  <2>2. own \in Seq(RowType)
    BY <1>14, <2>1, OwnRowsIs
  <2>3. old[i].rows \o own \in Seq(RowType)
    BY <2>1, <2>2, ConcatProperties
  <2> QED BY <2>2, <2>3, EmptySeq
<1>16. PICK bi, bj : /\ bi = BlockWith(old[i], p - 1, old[i].group, old[i].rows \o own)
                     /\ bj = BlockWith(old[j], p, i, <<>>)
  OBVIOUS
<1>17. /\ bi \in ListedBlock /\ bi.label = old[i].label /\ bi.page = p - 1
       /\ bi.group = old[i].group /\ bi.rows = old[i].rows \o own
  <2>1. PICK b, q, g, r : b = old[i] /\ q = p - 1 /\ g = old[i].group /\ r = old[i].rows \o own
    OBVIOUS
  <2>2. b \in ListedBlock /\ q \in Nat /\ g \in Nat /\ r \in Seq(RowType)
    BY <1>2, <1>10, <1>15, <2>1
  <2>3. /\ BlockWith(b, q, g, r) \in ListedBlock
        /\ BlockWith(b, q, g, r).label = b.label /\ BlockWith(b, q, g, r).page = q
        /\ BlockWith(b, q, g, r).group = g /\ BlockWith(b, q, g, r).rows = r
    BY <2>2, BlockWithIs
  <2> QED BY <1>16, <2>1, <2>3
<1>18. /\ bj \in ListedBlock /\ bj.label = old[j].label /\ bj.page = p
       /\ bj.group = i /\ bj.rows = <<>>
  <2>1. PICK b, q, g, r : b = old[j] /\ q = p /\ g = i /\ r = <<>>
    OBVIOUS
  <2>2. b \in ListedBlock /\ q \in Nat /\ g \in Nat /\ r \in Seq(RowType)
    BY <1>2, <1>10, <1>15, <2>1
  <2>3. /\ BlockWith(b, q, g, r) \in ListedBlock
        /\ BlockWith(b, q, g, r).label = b.label /\ BlockWith(b, q, g, r).page = q
        /\ BlockWith(b, q, g, r).group = g /\ BlockWith(b, q, g, r).rows = r
    BY <2>2, BlockWithIs
  <2> QED BY <1>16, <2>1, <2>3
<1>19. new = [k \in 1 .. n |-> IF k = i THEN bi ELSE IF k = j THEN bj ELSE old[k]]
  BY <1>2, <1>6, <1>14, <1>16
<1>20. /\ \A k \in 1 .. n : new[k] = IF k = i THEN bi ELSE IF k = j THEN bj ELSE old[k]
       /\ new \in [1 .. n -> ListedBlock]
  BY <1>2, <1>17, <1>18, <1>19
<1>21. new \in Seq(ListedBlock) /\ Len(new) = n
  <2>1. new \in Seq(ListedBlock)
    BY <1>2, <1>20
  <2>2. DOMAIN new = 1 .. n
    BY <1>20
  <2> QED BY <1>2, <2>1, <2>2, LenProperties
<1>22. \A k \in 1 .. n : new[k].label = old[k].label /\ new[k].page = old[k].page
  BY <1>10, <1>17, <1>18, <1>20
<1>23. new[i] = bi /\ new[j] = bj /\ \A k \in 1 .. n \ {i, j} : new[k] = old[k]
  BY <1>10, <1>11, <1>20
<1> QED BY <1>1, <1>10, <1>11, <1>12, <1>13, <1>14, <1>17, <1>18, <1>21, <1>22, <1>23 DEF Joined

LEMMA JoinedIsDoc ==
  ASSUME NEW old, NEW new, NEW i, NEW j, Doc(old), Joined(old, new, i, j)
  PROVE  Doc(new)
<1>1. PICK n : n = Len(old)
  OBVIOUS
<1>2. /\ n \in Nat /\ \A a \in 1 .. n : old[a].page \in Nat /\ old[a].rows \in Seq(RowType)
                                        /\ old[a].group \in 1 .. a
  BY <1>1, ListedIs DEF Doc
<1>3. /\ i \in 1 .. n /\ j \in 1 .. n /\ i < j
      /\ old[i].rows # <<>> /\ old[j].rows # <<>>
      /\ new \in Seq(ListedBlock) /\ Len(new) = n
      /\ \A k \in 1 .. n : new[k].label = old[k].label /\ new[k].page = old[k].page
      /\ new[i].group = old[i].group
      /\ old[i].label = "table" /\ old[j].label = "table"
      /\ new[j].rows = <<>> /\ new[j].group = i
      /\ \A k \in 1 .. n \ {i, j} : new[k] = old[k]
  BY <1>1 DEF Joined
<1>4. new[i].rows # <<>>
  <2>1. old[i].rows \in Seq(RowType) /\ old[j].rows \in Seq(RowType)
    BY <1>2, <1>3
  <2>2. OwnRows(old[i].rows, old[j].rows) \in Seq(RowType)
    BY <2>1, OwnRowsIs
  <2>3. new[i].rows = old[i].rows \o OwnRows(old[i].rows, old[j].rows)
    BY DEF Joined
  <2> QED BY <1>3, <2>1, <2>2, <2>3, ConcatEqualIffEmpty
<1>5. old[i].group = i /\ old[j].group = j
  BY <1>1, <1>3 DEF Doc
<1>6. \A a, b \in 1 .. n : a <= b => new[a].page <= new[b].page
  BY <1>1, <1>3 DEF Doc
<1>7. ASSUME NEW a \in 1 .. n
      PROVE  /\ new[a].label = "table" \/ new[a].rows = <<>>
             /\ new[a].group \in 1 .. a
             /\ new[a].group # a =>
                  /\ new[a].rows = <<>>
                  /\ new[new[a].group].group # new[a].group \/ new[new[a].group].rows # <<>>
  <2>1. CASE a = i
    BY <1>3, <1>5, <2>1
  <2>2. CASE a = j
    BY <1>2, <1>3, <1>4, <1>5, <2>2
  <2>3. CASE a \notin {i, j}
    <3>1. new[a] = old[a]
      BY <1>3, <2>3
    <3>2. /\ old[a].label = "table" \/ old[a].rows = <<>>
          /\ old[a].group \in 1 .. a
          /\ old[a].group # a =>
               /\ old[a].rows = <<>>
               /\ old[old[a].group].group # old[a].group \/ old[old[a].group].rows # <<>>
      BY <1>1 DEF Doc
    <3>3. ASSUME old[a].group # a
          PROVE  new[old[a].group].group # old[a].group \/ new[old[a].group].rows # <<>>
      <4>1. PICK g : g = old[a].group
        OBVIOUS
      <4>2. g \in 1 .. n
        BY <1>2, <3>2, <4>1
      <4>3. CASE g = i
        BY <1>4, <4>1, <4>3
      <4>4. CASE g = j
        BY <1>2, <1>3, <4>1, <4>4
      <4>5. CASE g \notin {i, j}
        <5>1. new[g] = old[g]
          BY <1>3, <4>2, <4>5
        <5> QED BY <3>2, <3>3, <4>1, <5>1
      <4> QED BY <4>3, <4>4, <4>5
    <3> QED BY <3>1, <3>2, <3>3
  <2> QED BY <2>1, <2>2, <2>3
<1> QED BY <1>3, <1>6, <1>7 DEF Doc

RowsFun(f, blocks) ==
  f = [k \in 0 .. Len(blocks) |-> IF k = 0 THEN <<>> ELSE f[k - 1] \o blocks[k].rows]
LEMMA RowsOfIs ==
  ASSUME NEW blocks PROVE RowsOf(blocks) = (CHOOSE f : RowsFun(f, blocks))[Len(blocks)]
BY DEF RowsOf, RowsFun

\* The rows up to each block.
LEMMA RowsAre ==
  ASSUME NEW blocks
  PROVE  blocks \in Seq(ListedBlock) =>
           \E f \in [0 .. Len(blocks) -> Seq(RowType)] :
             /\ RowsOf(blocks) = f[Len(blocks)] /\ f[0] = <<>>
             /\ \A k \in 1 .. Len(blocks) : f[k] = f[k - 1] \o blocks[k].rows
<1>1. ASSUME blocks \in Seq(ListedBlock)
      PROVE  \E f \in [0 .. Len(blocks) -> Seq(RowType)] :
               /\ RowsOf(blocks) = f[Len(blocks)] /\ f[0] = <<>>
               /\ \A k \in 1 .. Len(blocks) : f[k] = f[k - 1] \o blocks[k].rows
  <2>1. PICK N, D, z : N = Len(blocks) /\ D = Seq(RowType) /\ z = <<>>
    OBVIOUS
  <2>2. N \in Nat /\ z \in D /\ \A k \in 1 .. N : blocks[k].rows \in D
    BY <1>1, <2>1, ListedIs, EmptySeq
  <2>3. \A k \in 1 .. N : \A s \in D : s \o blocks[k].rows \in D
    <3>1. \A s, t \in D : s \o t \in D
      BY <2>1, ConcatProperties
    <3> QED BY <2>2, <3>1
  <2>4. PICK step : step = [k \in 1 .. N |-> [s \in D |-> s \o blocks[k].rows]]
    OBVIOUS
  <2>5. PICK f \in [0 .. N -> D] : f[0] = z /\ \A k \in 1 .. N : f[k] = step[k][f[k - 1]]
    <3>1. step \in [1 .. N -> [D -> D]]
      BY <2>3, <2>4
    <3>2. N \in Nat /\ z \in D
      BY <2>2
    <3> QED BY <3>1, <3>2, Recursion
  <2>6. ASSUME NEW k \in 1 .. N PROVE f[k] = f[k - 1] \o blocks[k].rows
    <3>1. k - 1 \in 0 .. N
      BY <2>2
    <3>2. f[k - 1] \in D
      BY <3>1
    <3> QED BY <2>4, <2>5, <3>2
  <2>7. RowsFun(f, blocks)
    <3>1. f = [k \in 0 .. N |-> f[k]]
      OBVIOUS
    <3>2. ASSUME NEW k \in 0 .. N
          PROVE  f[k] = IF k = 0 THEN <<>> ELSE f[k - 1] \o blocks[k].rows
      <4>1. k = 0 \/ k \in 1 .. N
        BY <2>2
      <4> QED BY <2>1, <2>5, <2>6, <4>1
    <3> QED BY <2>1, <3>1, <3>2 DEF RowsFun
  <2>8. PICK g : g = CHOOSE e : RowsFun(e, blocks)
    OBVIOUS
  <2>9. RowsFun(g, blocks)
    BY <2>7, <2>8
  <2>10. \A k \in 0 .. N : g[k] = IF k = 0 THEN <<>> ELSE g[k - 1] \o blocks[k].rows
    BY <2>1, <2>9 DEF RowsFun
  <2> DEFINE T == {k \in Nat : k <= N => g[k] = f[k]}
  <2>11. 0 \in T
    BY <2>1, <2>2, <2>5, <2>10
  <2>12. ASSUME NEW k \in T PROVE k + 1 \in T
    <3> SUFFICES ASSUME k + 1 <= N PROVE g[k + 1] = f[k + 1]
      OBVIOUS
    <3>1. k \in Nat /\ k + 1 \in 1 .. N /\ k + 1 \in 0 .. N /\ k + 1 # 0 /\ (k + 1) - 1 = k /\ g[k] = f[k]
      BY <2>2
    <3> QED BY <2>6, <2>10, <3>1
  <2>13. g[N] = f[N]
    <3>1. T \in SUBSET Nat
      OBVIOUS
    <3> HIDE DEF T
    <3>2. N \in T
      BY <2>2, <2>11, <2>12, <3>1, Induct
    <3> QED BY <2>2, <3>2 DEF T
  <2>14. RowsOf(blocks) = g[N]
    BY <2>1, <2>8, RowsOfIs
  <2> QED BY <2>1, <2>5, <2>6, <2>13, <2>14
<1> QED BY <1>1

\* A join leaves out nothing but the rows at the head of the lower table that
\* the upper one has as well.
LEMMA JoinReduces ==
  ASSUME NEW old, NEW new, NEW i, NEW j, Doc(old), Joined(old, new, i, j)
  PROVE  Reduced(RowsOf(new), RowsOf(old))
<1>1. PICK n, D : n = Len(old) /\ D = Seq(RowType)
  OBVIOUS
<1>2. /\ n \in Nat /\ old \in Seq(ListedBlock) /\ \A a \in 1 .. n : old[a].rows \in D
  BY <1>1, ListedIs DEF Doc
<1>3. /\ i \in 1 .. n /\ j \in 1 .. n /\ i < j
      /\ \A k \in i + 1 .. j - 1 : old[k].rows = <<>>
      /\ new \in Seq(ListedBlock) /\ Len(new) = n
      /\ new[i].rows = old[i].rows \o OwnRows(old[i].rows, old[j].rows)
      /\ new[j].rows = <<>>
      /\ \A k \in 1 .. n \ {i, j} : new[k] = old[k]
  BY <1>1 DEF Joined
<1>4. PICK f \in [0 .. n -> D] :
         RowsOf(old) = f[n] /\ f[0] = <<>> /\ \A k \in 1 .. n : f[k] = f[k - 1] \o old[k].rows
  BY <1>1, <1>2, RowsAre
<1>5. PICK g \in [0 .. n -> D] :
         RowsOf(new) = g[n] /\ g[0] = <<>> /\ \A k \in 1 .. n : g[k] = g[k - 1] \o new[k].rows
  <2>1. \E e \in [0 .. Len(new) -> Seq(RowType)] :
           /\ RowsOf(new) = e[Len(new)] /\ e[0] = <<>>
           /\ \A k \in 1 .. Len(new) : e[k] = e[k - 1] \o new[k].rows
    BY <1>3, RowsAre
  <2> QED BY <1>1, <1>3, <2>1
<1>6. PICK S : RowType = Seq(S)
  BY DEF RowType
<1>7. PICK own : own = OwnRows(old[i].rows, old[j].rows)
  OBVIOUS
<1>8. /\ own \in D
      /\ \A s \in D :
           (\A a \in 1 .. Len(old[i].rows) : \E b \in 1 .. Len(s) : s[b] = old[i].rows[a])
             => Reduced(s \o own, s \o old[j].rows)
  <2>1. old[i].rows \in Seq(RowType) /\ old[j].rows \in Seq(RowType)
    BY <1>1, <1>2, <1>3
  <2> QED BY <1>1, <1>7, <2>1, OwnRowsIs
\* Up to the upper table, from it to the lower one, and behind that.
<1> DEFINE Good(k) == /\ k < i => g[k] = f[k]
                      /\ i <= k /\ k < j => f[k] = f[i] /\ g[k] = f[i] \o own
                      /\ j <= k => Reduced(g[k], f[k])
           T == {k \in Nat : k <= n => Good(k)}
<1>9. 0 \in T
  BY <1>3, <1>4, <1>5
<1>10. ASSUME NEW m \in T PROVE m + 1 \in T
  <2> SUFFICES ASSUME m + 1 <= n PROVE Good(m + 1)
    OBVIOUS
  <2>1. m \in Nat /\ Good(m) /\ m \in 0 .. n
    BY <1>2
  <2>2. PICK k : k = m + 1
    OBVIOUS
  <2> HIDE DEF Good, T
  <2>3. k \in 1 .. n /\ k - 1 = m /\ f[k - 1] \in D /\ g[k - 1] \in D
    BY <1>2, <2>1, <2>2
  <2>4. /\ f[k] = f[m] \o old[k].rows /\ g[k] = g[m] \o new[k].rows
        /\ f[m] \in D /\ g[m] \in D /\ f[k] \in D /\ g[k] \in D
    <3>1. f[k] = f[k - 1] \o old[k].rows /\ g[k] = g[k - 1] \o new[k].rows
      BY <1>4, <1>5, <2>3
    <3>2. k \in 0 .. n
      BY <2>3
    <3>3. f[k] \in D /\ g[k] \in D
      BY <3>2
    <3> QED BY <2>3, <3>1, <3>3
  <2>5. CASE k < i
    <3>1. new[k] = old[k] /\ m < i
      BY <1>3, <2>1, <2>2, <2>3, <2>5
    <3>2. g[k] = f[k]
      BY <2>1, <2>4, <3>1 DEF Good
    <3> QED BY <1>3, <2>2, <2>5, <3>2 DEF Good
  <2>6. CASE k = i
    <3>1. m < i /\ g[m] = f[m]
      BY <1>3, <2>1, <2>2, <2>6 DEF Good
    <3>2. g[k] = f[m] \o (old[i].rows \o own) /\ f[k] = f[m] \o old[i].rows
      BY <1>3, <1>7, <2>4, <2>6, <3>1
    <3>3. g[k] = f[i] \o own
      <4>1. PICK s, t, u : s = f[m] /\ t = old[i].rows /\ u = own
        OBVIOUS
      <4>2. s \in Seq(RowType) /\ t \in Seq(RowType) /\ u \in Seq(RowType)
        BY <1>1, <1>2, <1>3, <1>8, <2>4, <4>1
      <4>3. (s \o t) \o u = s \o (t \o u)
        BY <4>2, ConcatAssociative
      <4> QED BY <2>6, <3>2, <4>1, <4>3
    <3> QED BY <1>3, <2>2, <2>6, <3>3 DEF Good
  <2>7. CASE i < k /\ k < j
    <3>1. k \in i + 1 .. j - 1 /\ k \notin {i, j} /\ i <= m /\ m < j
      BY <1>3, <2>1, <2>2, <2>3, <2>7
    <3>2. old[k].rows = <<>> /\ new[k].rows = <<>>
      BY <1>3, <2>3, <3>1
    <3>3. f[k] = f[m] /\ g[k] = g[m]
      BY <1>1, <2>4, <3>2, ConcatEmptySeq
    <3> QED BY <1>3, <2>1, <2>2, <2>7, <3>1, <3>3 DEF Good
  <2>8. CASE k = j
    <3>1. i <= m /\ m < j /\ f[m] = f[i] /\ g[m] = f[i] \o own
      BY <1>3, <2>1, <2>2, <2>8 DEF Good
    <3>2. g[k] = f[m] \o own /\ f[k] = f[m] \o old[j].rows
      BY <1>1, <1>3, <2>4, <2>8, <3>1, ConcatEmptySeq
    <3>3. \A a \in 1 .. Len(old[i].rows) : \E b \in 1 .. Len(f[m]) : f[m][b] = old[i].rows[a]
      <4>1. i - 1 \in 0 .. n /\ f[i - 1] \in D /\ f[i] = f[i - 1] \o old[i].rows /\ old[i].rows \in D
        <5>1. i - 1 \in 0 .. n /\ i \in 1 .. n
          BY <1>2, <1>3
        <5>2. f[i - 1] \in D
          BY <5>1
        <5> QED BY <1>2, <1>4, <5>1, <5>2
      <4>2. PICK s, t : s = f[i - 1] /\ t = old[i].rows
        OBVIOUS
      <4>3. s \in Seq(RowType) /\ t \in Seq(RowType) /\ f[m] = s \o t
        BY <1>1, <3>1, <4>1, <4>2
      <4>4. /\ Len(s) \in Nat /\ Len(t) \in Nat /\ Len(s \o t) = Len(s) + Len(t)
            /\ \A a \in 1 .. Len(s) + Len(t) :
                 (s \o t)[a] = IF a <= Len(s) THEN s[a] ELSE t[a - Len(s)]
        BY <4>3, ConcatProperties, LenProperties
      <4>5. ASSUME NEW a \in 1 .. Len(t) PROVE \E b \in 1 .. Len(s \o t) : (s \o t)[b] = t[a]
        <5>1. /\ a + Len(s) \in 1 .. Len(s) + Len(t) /\ ~(a + Len(s) <= Len(s))
              /\ (a + Len(s)) - Len(s) = a
          BY <4>4
        <5>2. (s \o t)[a + Len(s)] = t[a]
          BY <4>4, <5>1
        <5> QED BY <4>4, <5>1, <5>2
      <4>6. f[m] = s \o t /\ t = old[i].rows
        BY <4>2, <4>3
      <4> QED BY <4>5, <4>6
    <3>4. Reduced(g[k], f[k])
      BY <1>8, <2>4, <3>2, <3>3
    <3> QED BY <1>3, <2>2, <2>8, <3>4 DEF Good
  <2>9. CASE j < k
    <3>1. j <= m /\ Reduced(g[m], f[m]) /\ new[k] = old[k] /\ old[k].rows \in D
      BY <1>2, <1>3, <2>1, <2>2, <2>3, <2>9 DEF Good
    <3>2. PICK s, t, x : s = g[m] /\ t = f[m] /\ x = old[k].rows
      OBVIOUS
    <3>3. s \in Seq(Seq(S)) /\ t \in Seq(Seq(S)) /\ x \in Seq(Seq(S)) /\ Reduced(s, t)
      BY <1>1, <1>6, <2>4, <3>1, <3>2
    <3>4. Reduced(s \o x, t \o x)
      BY <3>3, ReducedBehind
    <3>5. Reduced(g[k], f[k])
      BY <2>4, <3>1, <3>2, <3>4
    <3> QED BY <1>3, <2>2, <2>9, <3>5 DEF Good
  <2> QED BY <1>3, <2>2, <2>3, <2>5, <2>6, <2>7, <2>8, <2>9
<1>11. n \in T
  <2>1. T \in SUBSET Nat
    OBVIOUS
  <2> HIDE DEF T
  <2> QED BY <1>2, <1>9, <1>10, <2>1, Induct
<1>12. j <= n
  BY <1>2, <1>3
<1> QED BY <1>2, <1>4, <1>5, <1>11, <1>12

\* Lists of the same rows, block by block, have the same rows.
LEMMA SameRows ==
  ASSUME NEW old, NEW new
  PROVE  (/\ old \in Seq(ListedBlock) /\ new \in Seq(ListedBlock) /\ Len(new) = Len(old)
          /\ \A k \in 1 .. Len(old) : new[k].rows = old[k].rows)
         => RowsOf(new) = RowsOf(old)
<1>1. ASSUME old \in Seq(ListedBlock), new \in Seq(ListedBlock), Len(new) = Len(old),
             \A k \in 1 .. Len(old) : new[k].rows = old[k].rows
      PROVE  RowsOf(new) = RowsOf(old)
  <2>1. PICK n : n = Len(old) /\ n = Len(new)
    BY <1>1
  <2>2. n \in Nat
    BY <1>1, <2>1, ListedIs
  <2>3. \E f \in [0 .. Len(old) -> Seq(RowType)] :
          /\ RowsOf(old) = f[Len(old)] /\ f[0] = <<>>
          /\ \A k \in 1 .. Len(old) : f[k] = f[k - 1] \o old[k].rows
    <3>1. old \in Seq(ListedBlock)
      BY <1>1
    <3> QED BY <3>1, RowsAre
  <2>4. \E f \in [0 .. Len(new) -> Seq(RowType)] :
          /\ RowsOf(new) = f[Len(new)] /\ f[0] = <<>>
          /\ \A k \in 1 .. Len(new) : f[k] = f[k - 1] \o new[k].rows
    <3>1. new \in Seq(ListedBlock)
      BY <1>1
    <3> QED BY <3>1, RowsAre
  <2>5. PICK f \in [0 .. n -> Seq(RowType)] :
           RowsOf(old) = f[n] /\ f[0] = <<>> /\ \A k \in 1 .. n : f[k] = f[k - 1] \o old[k].rows
    BY <2>1, <2>3
  <2>6. PICK g \in [0 .. n -> Seq(RowType)] :
           RowsOf(new) = g[n] /\ g[0] = <<>> /\ \A k \in 1 .. n : g[k] = g[k - 1] \o new[k].rows
    BY <2>1, <2>4
  <2> DEFINE T == {k \in Nat : k <= n => g[k] = f[k]}
  <2>7. 0 \in T
    BY <2>5, <2>6
  <2>8. ASSUME NEW k \in T PROVE k + 1 \in T
    <3> SUFFICES ASSUME k + 1 <= n PROVE g[k + 1] = f[k + 1]
      OBVIOUS
    <3>1. k \in Nat /\ k + 1 \in 1 .. n /\ (k + 1) - 1 = k /\ g[k] = f[k]
      BY <2>2
    <3>2. new[k + 1].rows = old[k + 1].rows
      BY <1>1, <2>1, <3>1
    <3> QED BY <2>5, <2>6, <3>1, <3>2
  <2>9. n \in T
    <3>1. T \in SUBSET Nat
      OBVIOUS
    <3> HIDE DEF T
    <3> QED BY <2>2, <2>7, <2>8, <3>1, Induct
  <2> QED BY <2>2, <2>5, <2>6, <2>9
<1> QED BY <1>1

\* What is listed at first: every block the only one of its group.
Alone(blocks, p) ==
  /\ blocks \in Seq(ListedBlock)
  /\ \A a, b \in 1 .. Len(blocks) : a <= b => blocks[a].page <= blocks[b].page
  /\ \A a \in 1 .. Len(blocks) : /\ blocks[a].label = "table" \/ blocks[a].rows = <<>>
                                 /\ blocks[a].group = a /\ blocks[a].page <= p
OfPage(page, p, n) == [k \in DOMAIN page |-> BlockWith(page[k], p, n + k, page[k].rows)]

LEMMA OfPageIs ==
  ASSUME NEW page \in Seq(BlockType), NEW p \in Nat, NEW n \in Nat
  PROVE  /\ OfPage(page, p, n) \in Seq(ListedBlock) /\ Len(OfPage(page, p, n)) = Len(page)
         /\ \A k \in 1 .. Len(page) :
              /\ OfPage(page, p, n)[k].page = p /\ OfPage(page, p, n)[k].group = n + k
              /\ OfPage(page, p, n)[k].label = "table" \/ OfPage(page, p, n)[k].rows = <<>>
<1>1. /\ Len(page) \in Nat /\ DOMAIN page = 1 .. Len(page)
      /\ \A k \in 1 .. Len(page) : page[k] \in BlockType
  BY LenProperties
<1>2. ASSUME NEW b \in BlockType, NEW g \in Nat
      PROVE  /\ BlockWith(b, p, g, b.rows) \in ListedBlock
             /\ BlockWith(b, p, g, b.rows).page = p /\ BlockWith(b, p, g, b.rows).group = g
             /\ BlockWith(b, p, g, b.rows).label = "table" \/ BlockWith(b, p, g, b.rows).rows = <<>>
  <2>1. b.label = "table" \/ b.rows = <<>>
    BY DEF BlockType
  <2>2. b.label \in STRING /\ b.width \in Int /\ b.words \in Seq(STRING) /\ b.rows \in Seq(RowType)
    BY DEF BlockType
  <2> QED BY <2>1, <2>2 DEF BlockWith, ListedBlock
<1>3. PICK all : all = OfPage(page, p, n)
  OBVIOUS
<1>4. \A k \in 1 .. Len(page) : all[k] = BlockWith(page[k], p, n + k, page[k].rows)
  BY <1>1, <1>3 DEF OfPage
<1>5. ASSUME NEW k \in 1 .. Len(page)
      PROVE  /\ all[k] \in ListedBlock /\ all[k].page = p /\ all[k].group = n + k
             /\ all[k].label = "table" \/ all[k].rows = <<>>
  <2>1. page[k] \in BlockType /\ n + k \in Nat
    BY <1>1
  <2> QED BY <1>2, <1>4, <2>1
<1>6. DOMAIN all = 1 .. Len(page) /\ all \in [1 .. Len(page) -> ListedBlock]
  <2>1. all = [k \in 1 .. Len(page) |-> BlockWith(page[k], p, n + k, page[k].rows)]
    BY <1>1, <1>3 DEF OfPage
  <2> QED BY <1>5, <2>1
<1>7. all \in Seq(ListedBlock)
  BY <1>1, <1>6
<1>8. Len(all) = Len(page)
  BY <1>1, <1>6, <1>7, LenProperties
<1> QED BY <1>3, <1>5, <1>7, <1>8

LEMMA PageAppended ==
  ASSUME NEW above, NEW page \in Seq(BlockType), NEW p \in Nat \ {0}, Alone(above, p - 1)
  PROVE  Alone(above \o OfPage(page, p, Len(above)), p)
<1>1. PICK n, m, below : n = Len(above) /\ m = Len(page) /\ below = OfPage(page, p, n)
  OBVIOUS
<1>2. above \in Seq(ListedBlock) /\ n \in Nat
      /\ \A a \in 1 .. n : above[a] \in ListedBlock /\ above[a].page \in Nat
  BY <1>1, ListedIs DEF Alone
<1>3. /\ below \in Seq(ListedBlock) /\ Len(below) = m
      /\ \A k \in 1 .. m : /\ below[k].page = p /\ below[k].group = n + k
                           /\ below[k].label = "table" \/ below[k].rows = <<>>
  BY <1>1, <1>2, OfPageIs
<1>4. PICK all : all = above \o below
  OBVIOUS
<1>5. /\ m \in Nat /\ all \in Seq(ListedBlock) /\ Len(all) = n + m
      /\ \A a \in 1 .. n + m : all[a] = IF a <= n THEN above[a] ELSE below[a - n]
  <2>1. above \in Seq(ListedBlock) /\ below \in Seq(ListedBlock)
    BY <1>2, <1>3
  <2>2. /\ above \o below \in Seq(ListedBlock) /\ Len(above \o below) = Len(above) + Len(below)
        /\ \A a \in 1 .. Len(above) + Len(below) :
             (above \o below)[a] = IF a <= Len(above) THEN above[a] ELSE below[a - Len(above)]
    BY <2>1, ConcatProperties
  <2>3. Len(below) \in Nat
    BY <2>1, LenProperties
  <2> QED BY <1>1, <1>3, <1>4, <2>2, <2>3
<1>6. ASSUME NEW a \in 1 .. n + m
      PROVE  /\ all[a].label = "table" \/ all[a].rows = <<>>
             /\ all[a].group = a /\ all[a].page <= p
             /\ a <= n => all[a] = above[a] /\ all[a].page <= p - 1
             /\ n < a => all[a].page = p
  <2>1. CASE a <= n
    <3>1. all[a] = above[a] /\ a \in 1 .. n
      BY <1>2, <1>5, <2>1
    <3>2. /\ above[a].label = "table" \/ above[a].rows = <<>>
          /\ above[a].group = a /\ above[a].page <= p - 1
      BY <1>1, <3>1 DEF Alone
    <3> QED BY <1>2, <2>1, <3>1, <3>2
  <2>2. CASE n < a
    <3>1. all[a] = below[a - n] /\ a - n \in 1 .. m /\ n + (a - n) = a /\ ~(a <= n)
      BY <1>2, <1>5, <2>2
    <3> QED BY <1>3, <3>1
  <2> QED BY <1>2, <1>5, <2>1, <2>2
<1>7. ASSUME NEW a \in 1 .. n + m, NEW b \in 1 .. n + m, a <= b
      PROVE  all[a].page <= all[b].page
  <2>1. CASE b <= n
    <3>1. a \in 1 .. n /\ b \in 1 .. n /\ a <= n
      BY <1>2, <1>7, <2>1
    <3>2. above[a].page <= above[b].page
      BY <1>1, <1>7, <3>1 DEF Alone
    <3> QED BY <1>6, <2>1, <3>1, <3>2
  <2>2. CASE n < b
    BY <1>6, <2>2
  <2> QED BY <1>2, <1>5, <2>1, <2>2
<1>8. Alone(all, p)
  BY <1>5, <1>6, <1>7 DEF Alone
<1> QED BY <1>1, <1>4, <1>8

AllFun(f, pages) ==
  f = [p \in 0 .. Len(pages) |->
        IF p = 0 THEN <<>>
        ELSE LET above == f[p - 1]
             IN  above \o [k \in DOMAIN pages[p] |->
                   BlockWith(pages[p][k], p, Len(above) + k, pages[p][k].rows)]]
LEMMA AllBlocksIs ==
  ASSUME NEW pages PROVE AllBlocks(pages) = (CHOOSE f : AllFun(f, pages))[Len(pages)]
BY DEF AllBlocks, AllFun

LEMMA AloneIsDoc == ASSUME NEW blocks, NEW p, Alone(blocks, p) PROVE Doc(blocks)
<1>1. Len(blocks) \in Nat
  BY ListedIs DEF Alone
<1> QED BY <1>1 DEF Alone, Doc

LEMMA AllBlocksAre ==
  ASSUME NEW pages
  PROVE  pages \in Seq(Seq(BlockType)) => Doc(AllBlocks(pages))
<1>1. ASSUME pages \in Seq(Seq(BlockType)) PROVE Doc(AllBlocks(pages))
  <2>1. PICK N : N = Len(pages)
    OBVIOUS
  <2>2. N \in Nat /\ \A p \in 1 .. N : pages[p] \in Seq(BlockType)
    BY <1>1, <2>1, LenProperties
  <2>3. PICK D : D = Seq(ListedBlock)
    OBVIOUS
  <2>4. PICK z : z = <<>> /\ z \in D
    BY <2>3, EmptySeq
  <2>5. ASSUME NEW p \in 1 .. N, NEW s \in D
        PROVE  s \o OfPage(pages[p], p, Len(s)) \in D
    <3>1. PICK page, n : page = pages[p] /\ n = Len(s)
      OBVIOUS
    <3>2. page \in Seq(BlockType) /\ p \in Nat /\ n \in Nat
      BY <2>2, <2>3, <3>1, LenProperties
    <3>3. OfPage(page, p, n) \in D
      BY <2>3, <3>2, OfPageIs
    <3> QED BY <2>3, <3>1, <3>3, ConcatProperties
  <2>6. PICK step : step = [p \in 1 .. N |-> [s \in D |-> s \o OfPage(pages[p], p, Len(s))]]
    OBVIOUS
  <2>7. PICK f \in [0 .. N -> D] : f[0] = z /\ \A p \in 1 .. N : f[p] = step[p][f[p - 1]]
    <3>1. step \in [1 .. N -> [D -> D]]
      BY <2>5, <2>6
    <3>2. N \in Nat /\ z \in D
      BY <2>2, <2>4
    <3> QED BY <3>1, <3>2, Recursion
  <2>8. ASSUME NEW p \in 1 .. N PROVE f[p] = f[p - 1] \o OfPage(pages[p], p, Len(f[p - 1]))
    <3>1. p - 1 \in 0 .. N
      BY <2>2
    <3>2. f[p - 1] \in D
      BY <3>1
    <3> QED BY <2>6, <2>7, <3>2
  <2>9. AllFun(f, pages)
    <3>1. f = [p \in 0 .. N |-> f[p]]
      OBVIOUS
    <3>2. ASSUME NEW p \in 0 .. N
          PROVE  f[p] = IF p = 0 THEN <<>>
                        ELSE f[p - 1] \o [k \in DOMAIN pages[p] |->
                               BlockWith(pages[p][k], p, Len(f[p - 1]) + k, pages[p][k].rows)]
      <4>1. p = 0 \/ p \in 1 .. N
        BY <2>2
      <4>2. CASE p = 0
        BY <2>4, <2>7, <4>2
      <4>3. CASE p # 0
        <5>1. f[p] = f[p - 1] \o OfPage(pages[p], p, Len(f[p - 1]))
          BY <2>8, <4>1, <4>3
        <5> QED BY <4>3, <5>1 DEF OfPage
      <4> QED BY <4>2, <4>3
    <3> QED BY <2>1, <3>1, <3>2 DEF AllFun
  <2>10. PICK g : g = CHOOSE e : AllFun(e, pages)
    OBVIOUS
  <2>11. AllFun(g, pages)
    BY <2>9, <2>10
  <2>12. g[0] = <<>> /\ \A p \in 1 .. N : g[p] = g[p - 1] \o OfPage(pages[p], p, Len(g[p - 1]))
    <3>1. \A p \in 0 .. N :
            g[p] = IF p = 0 THEN <<>>
                   ELSE g[p - 1] \o [k \in DOMAIN pages[p] |->
                          BlockWith(pages[p][k], p, Len(g[p - 1]) + k, pages[p][k].rows)]
      BY <2>1, <2>11 DEF AllFun
    <3>2. 0 \in 0 .. N /\ \A p \in 1 .. N : p \in 0 .. N /\ p # 0
      BY <2>2
    <3>3. g[0] = <<>>
      BY <3>1, <3>2
    <3>4. ASSUME NEW p \in 1 .. N
          PROVE  g[p] = g[p - 1] \o OfPage(pages[p], p, Len(g[p - 1]))
      BY <3>1, <3>2 DEF OfPage
    <3> QED BY <3>3, <3>4
  <2> DEFINE T == {p \in Nat : p <= N => Alone(g[p], p)}
  <2>13. 0 \in T
    <3>1. Alone(<<>>, 0)
      BY EmptySeq DEF Alone
    <3> QED BY <2>12, <3>1
  <2>14. ASSUME NEW p \in T PROVE p + 1 \in T
    <3> SUFFICES ASSUME p + 1 <= N PROVE Alone(g[p + 1], p + 1)
      OBVIOUS
    <3>1. p \in Nat /\ p + 1 \in 1 .. N /\ p + 1 \in Nat \ {0} /\ (p + 1) - 1 = p /\ Alone(g[p], p)
      BY <2>2
    <3>2. PICK above, page, q : above = g[p] /\ page = pages[p + 1] /\ q = p + 1
      OBVIOUS
    <3> HIDE DEF T
    <3>3. page \in Seq(BlockType) /\ q \in Nat \ {0} /\ q - 1 = p /\ Alone(above, q - 1)
      BY <2>2, <3>1, <3>2
    <3>4. Alone(above \o OfPage(page, q, Len(above)), q)
      BY <3>3, PageAppended
    <3>5. g[p + 1] = above \o OfPage(page, q, Len(above))
      BY <2>12, <3>1, <3>2
    <3> QED BY <3>2, <3>4, <3>5
  <2>15. N \in T
    <3>1. T \in SUBSET Nat
      OBVIOUS
    <3> HIDE DEF T
    <3> QED BY <2>2, <2>13, <2>14, <3>1, Induct
  <2>16. Alone(g[N], N)
    BY <2>2, <2>15
  <2>17. AllBlocks(pages) = g[N]
    BY <2>1, <2>10, AllBlocksIs
  <2> QED BY <2>16, <2>17, AloneIsDoc
<1> QED BY <1>1

FollowFun(f, blocks) ==
  f = [k \in 0 .. Len(blocks) |->
        IF k = 0 THEN [b \in DOMAIN blocks |-> blocks[b].group]
        ELSE LET found == f[k - 1] IN [found EXCEPT ![k] = found[found[k]]]]
FollowedTo(blocks) == (CHOOSE f : FollowFun(f, blocks))[Len(blocks)]
LEMMA FollowedGroupsIs ==
  ASSUME NEW blocks
  PROVE  FollowedGroups(blocks) =
           [k \in DOMAIN blocks |->
             BlockWith(blocks[k], blocks[k].page, FollowedTo(blocks)[k], blocks[k].rows)]
BY DEF FollowedGroups, FollowFun, FollowedTo

\* Only the groups change.
LEMMA FollowedListed ==
  ASSUME NEW blocks \in Seq(ListedBlock), NEW groups, groups = FollowedTo(blocks),
         \A k \in 1 .. Len(blocks) : groups[k] \in Nat
  PROVE  /\ FollowedGroups(blocks) \in Seq(ListedBlock)
         /\ Len(FollowedGroups(blocks)) = Len(blocks)
         /\ \A k \in 1 .. Len(blocks) : /\ FollowedGroups(blocks)[k].rows = blocks[k].rows
                                        /\ FollowedGroups(blocks)[k].group = groups[k]
<1>1. PICK n, after : n = Len(blocks) /\ after = FollowedGroups(blocks)
  OBVIOUS
<1>2. /\ n \in Nat /\ DOMAIN blocks = 1 .. n
      /\ \A k \in 1 .. n : blocks[k] \in ListedBlock /\ groups[k] \in Nat
  BY <1>1, ListedIs
<1>3. after = [k \in DOMAIN blocks |->
                BlockWith(blocks[k], blocks[k].page, FollowedTo(blocks)[k], blocks[k].rows)]
  BY <1>1, FollowedGroupsIs
<1>4. /\ DOMAIN after = 1 .. n /\ after = [k \in 1 .. n |-> after[k]]
      /\ \A k \in 1 .. n :
           after[k] = BlockWith(blocks[k], blocks[k].page, groups[k], blocks[k].rows)
  BY <1>2, <1>3
<1>5. ASSUME NEW b \in ListedBlock, NEW g \in Nat
      PROVE  /\ BlockWith(b, b.page, g, b.rows) \in ListedBlock
             /\ BlockWith(b, b.page, g, b.rows).group = g
             /\ BlockWith(b, b.page, g, b.rows).rows = b.rows
  BY DEF BlockWith, ListedBlock
<1>6. \A k \in 1 .. n : /\ after[k] \in ListedBlock /\ after[k].rows = blocks[k].rows
                        /\ after[k].group = groups[k]
  BY <1>2, <1>4, <1>5
<1>7. after \in [1 .. n -> ListedBlock]
  BY <1>4, <1>6
<1>8. after \in Seq(ListedBlock)
  BY <1>2, <1>7
<1>9. Len(after) = n
  BY <1>2, <1>4, <1>8, LenProperties
<1> QED BY <1>1, <1>6, <1>8, <1>9

\* Where the block of place b has gone when it has been followed.
Followed(blocks, b, g) ==
  /\ g \in 1 .. b /\ blocks[g].group = g
  /\ blocks[b].group = b => g = b
  /\ blocks[b].group # b => blocks[g].rows # <<>>

\* Following block by block from the first finds the host of every group.
LEMMA FollowedAll ==
  ASSUME NEW blocks, Doc(blocks), NEW n, n = Len(blocks), n \in Nat, NEW f,
         f \in [0 .. n -> [1 .. n -> 1 .. n]],
         \A b \in 1 .. n : f[0][b] = blocks[b].group,
         \A k \in 1 .. n : f[k] = [f[k - 1] EXCEPT ![k] = f[k - 1][f[k - 1][k]]]
  PROVE  \A b \in 1 .. n : Followed(blocks, b, f[n][b])
<1>1. \A b \in 1 .. n : /\ blocks[b].group \in 1 .. b
                        /\ blocks[b].group # b =>
                             \/ blocks[blocks[b].group].group # blocks[b].group
                             \/ blocks[blocks[b].group].rows # <<>>
  BY DEF Doc
<1> DEFINE Good(k) == \A b \in 1 .. n : /\ b <= k => Followed(blocks, b, f[k][b])
                                        /\ k < b => f[k][b] = blocks[b].group
           T == {k \in Nat : k <= n => Good(k)}
<1>2. 0 \in T
  OBVIOUS
<1>3. ASSUME NEW m \in T PROVE m + 1 \in T
  <2> SUFFICES ASSUME m + 1 <= n PROVE Good(m + 1)
    OBVIOUS
  <2>1. PICK k, g, h : k = m + 1 /\ g = f[m] /\ h = f[m + 1]
    OBVIOUS
  <2>2. m \in Nat /\ k \in 1 .. n /\ k - 1 = m /\ m \in 0 .. n /\ Good(m)
    BY <2>1
  <2>3. g \in [1 .. n -> 1 .. n] /\ h = [g EXCEPT ![k] = g[g[k]]]
    BY <2>1, <2>2
  <2>4. \A b \in 1 .. n : /\ b <= m => Followed(blocks, b, g[b])
                          /\ m < b => g[b] = blocks[b].group
    BY <2>1, <2>2
  <2>5. h[k] = g[g[k]] /\ \A b \in 1 .. n : b # k => h[b] = g[b]
    BY <2>2, <2>3
  <2>6. PICK e : e = g[k] /\ e = blocks[k].group /\ e \in 1 .. k
    BY <1>1, <2>1, <2>2, <2>4
  <2>7. Followed(blocks, k, h[k])
    <3>1. CASE e = k
      <4>1. h[k] = k
        BY <2>5, <2>6, <3>1
      <4>2. k \in 1 .. k /\ blocks[k].group = k
        BY <2>6, <3>1
      <4> HIDE DEF T, Good
      <4> QED BY <4>1, <4>2 DEF Followed
    <3>2. CASE e # k
      <4>1. e \in 1 .. n /\ e <= m /\ h[k] = g[e]
        BY <2>1, <2>2, <2>5, <2>6, <3>2
      <4>2. Followed(blocks, e, g[e])
        BY <2>4, <4>1
      <4>3. blocks[e].group # e \/ blocks[e].rows # <<>>
        BY <1>1, <2>2, <2>6, <3>2
      <4>4. blocks[g[e]].rows # <<>>
        BY <4>2, <4>3 DEF Followed
      <4>5. g[e] \in 1 .. k /\ blocks[g[e]].group = g[e]
        <5>1. PICK d : d = g[e]
          OBVIOUS
        <5>2. d \in 1 .. e /\ blocks[d].group = d
          BY <4>2, <5>1 DEF Followed
        <5>3. d \in 1 .. k
          BY <2>2, <2>6, <5>2
        <5> QED BY <5>1, <5>2, <5>3
      <4> QED BY <2>6, <3>2, <4>1, <4>4, <4>5 DEF Followed
    <3> QED BY <3>1, <3>2
  <2>8. ASSUME NEW b \in 1 .. n
        PROVE  /\ b <= k => Followed(blocks, b, h[b])
               /\ k < b => h[b] = blocks[b].group
    <3>1. CASE b = k
      BY <2>2, <2>7, <3>1
    <3>2. CASE b < k
      <4>1. b <= m /\ h[b] = g[b] /\ ~(k < b)
        BY <2>1, <2>2, <2>5, <3>2
      <4> QED BY <2>4, <4>1
    <3>3. CASE k < b
      <4>1. m < b /\ h[b] = g[b] /\ ~(b <= k)
        BY <2>1, <2>2, <2>5, <3>3
      <4> QED BY <2>4, <4>1
    <3> QED BY <2>2, <3>1, <3>2, <3>3
  <2> QED BY <2>1, <2>8
<1>4. n \in T
  <2>1. T \in SUBSET Nat
    OBVIOUS
  <2> HIDE DEF T
  <2> QED BY <1>2, <1>3, <2>1, Induct
<1>5. Good(n)
  BY <1>4
<1> QED BY <1>5

LEMMA FollowedAre ==
  ASSUME NEW blocks
  PROVE  Doc(blocks) =>
           /\ FollowedGroups(blocks) \in Seq(ListedBlock)
           /\ Len(FollowedGroups(blocks)) = Len(blocks)
           /\ \A k \in 1 .. Len(blocks) :
                /\ FollowedGroups(blocks)[k].rows = blocks[k].rows
                /\ Followed(blocks, k, FollowedGroups(blocks)[k].group)
<1>0. PICK after : after = FollowedGroups(blocks)
  OBVIOUS
<1>1. ASSUME Doc(blocks)
      PROVE  /\ after \in Seq(ListedBlock) /\ Len(after) = Len(blocks)
             /\ \A k \in 1 .. Len(blocks) : /\ after[k].rows = blocks[k].rows
                                            /\ Followed(blocks, k, after[k].group)
  <2>1. PICK n, D : n = Len(blocks) /\ D = [1 .. n -> 1 .. n]
    OBVIOUS
  <2>2. /\ n \in Nat /\ DOMAIN blocks = 1 .. n
        /\ \A b \in 1 .. n : /\ blocks[b] \in ListedBlock /\ blocks[b].group \in 1 .. b
                             /\ blocks[b].page \in Nat /\ blocks[b].rows \in Seq(RowType)
    BY <1>1, <2>1, ListedIs DEF Doc
  <2>3. PICK z : z = [b \in 1 .. n |-> blocks[b].group]
    OBVIOUS
  <2>4. z \in D
    <3>1. \A b \in 1 .. n : blocks[b].group \in 1 .. n
      BY <2>2
    <3> QED BY <2>1, <2>3, <3>1
  <2>5. PICK step : step = [k \in 1 .. n |-> [g \in D |-> [g EXCEPT ![k] = g[g[k]]]]]
    OBVIOUS
  <2>6. step \in [1 .. n -> [D -> D]]
    <3>1. ASSUME NEW k \in 1 .. n, NEW g \in D PROVE [g EXCEPT ![k] = g[g[k]]] \in D
      BY <2>1
    <3> QED BY <2>5, <3>1
  <2>7. PICK f \in [0 .. n -> D] : f[0] = z /\ \A k \in 1 .. n : f[k] = step[k][f[k - 1]]
    <3>1. n \in Nat
      BY <2>2
    <3> QED BY <2>4, <2>6, <3>1, Recursion
  <2>8. ASSUME NEW k \in 1 .. n
        PROVE  f[k] = [f[k - 1] EXCEPT ![k] = f[k - 1][f[k - 1][k]]]
    <3>1. k - 1 \in 0 .. n
      BY <2>2
    <3>2. f[k - 1] \in D
      BY <3>1
    <3> QED BY <2>5, <2>7, <3>2
  <2>9. FollowFun(f, blocks)
    <3>1. f = [k \in 0 .. n |-> f[k]]
      OBVIOUS
    <3>2. ASSUME NEW k \in 0 .. n
          PROVE  f[k] = IF k = 0 THEN [b \in DOMAIN blocks |-> blocks[b].group]
                        ELSE [f[k - 1] EXCEPT ![k] = f[k - 1][f[k - 1][k]]]
      <4>1. k = 0 \/ k \in 1 .. n
        BY <2>2
      <4>2. CASE k = 0
        BY <2>2, <2>3, <2>7, <4>2
      <4>3. CASE k # 0
        BY <2>8, <4>1, <4>3
      <4> QED BY <4>2, <4>3
    <3> QED BY <2>1, <3>1, <3>2 DEF FollowFun
  <2>10. PICK g : g = CHOOSE e : FollowFun(e, blocks)
    OBVIOUS
  <2>11. FollowFun(g, blocks)
    BY <2>9, <2>10
  <2>12. /\ g[0] = [b \in DOMAIN blocks |-> blocks[b].group]
         /\ \A k \in 1 .. n : g[k] = [g[k - 1] EXCEPT ![k] = g[k - 1][g[k - 1][k]]]
    <3>1. \A k \in 0 .. n : g[k] = IF k = 0 THEN [b \in DOMAIN blocks |-> blocks[b].group]
                                   ELSE [g[k - 1] EXCEPT ![k] = g[k - 1][g[k - 1][k]]]
      BY <2>1, <2>11 DEF FollowFun
    <3>2. 0 \in 0 .. n /\ \A k \in 1 .. n : k \in 0 .. n /\ k # 0
      BY <2>2
    <3>3. g[0] = [b \in DOMAIN blocks |-> blocks[b].group]
      BY <3>1, <3>2
    <3>4. ASSUME NEW k \in 1 .. n
          PROVE  g[k] = [g[k - 1] EXCEPT ![k] = g[k - 1][g[k - 1][k]]]
      BY <3>1, <3>2
    <3> QED BY <3>3, <3>4
  <2> DEFINE T == {k \in Nat : k <= n => g[k] = f[k]}
  <2>13. 0 \in T
    BY <2>2, <2>3, <2>7, <2>12
  <2>14. ASSUME NEW k \in T PROVE k + 1 \in T
    <3> SUFFICES ASSUME k + 1 <= n PROVE g[k + 1] = f[k + 1]
      OBVIOUS
    <3>1. k \in Nat /\ k + 1 \in 1 .. n /\ (k + 1) - 1 = k /\ g[k] = f[k]
      BY <2>2
    <3>2. PICK m : m = k + 1
      OBVIOUS
    <3>3. m \in 1 .. n /\ g[m - 1] = f[m - 1]
      BY <3>1, <3>2
    <3>4. PICK a : a = f[m - 1]
      OBVIOUS
    <3>5. f[m] = [a EXCEPT ![m] = a[a[m]]]
      BY <2>8, <3>3, <3>4
    <3>6. g[m] = [a EXCEPT ![m] = a[a[m]]]
      <4>1. g[m] = [g[m - 1] EXCEPT ![m] = g[m - 1][g[m - 1][m]]]
        BY <2>12, <3>3
      <4>2. g[m - 1] = a
        BY <3>3, <3>4
      <4> QED BY <4>1, <4>2
    <3> QED BY <3>2, <3>5, <3>6
  <2>15. g[n] = f[n]
    <3>1. T \in SUBSET Nat
      OBVIOUS
    <3> HIDE DEF T
    <3>2. n \in T
      BY <2>2, <2>13, <2>14, <3>1, Induct
    <3> QED BY <2>2, <3>2 DEF T
  <2>16. \A b \in 1 .. n : Followed(blocks, b, f[n][b])
    <3>1. \A b \in 1 .. n : f[0][b] = blocks[b].group
      BY <2>3, <2>7
    <3>2. f \in [0 .. n -> [1 .. n -> 1 .. n]]
      BY <2>1
    <3> QED BY <1>1, <2>1, <2>2, <2>8, <3>1, <3>2, FollowedAll
  <2>17. PICK groups : groups = FollowedTo(blocks) /\ groups = f[n]
    BY <2>1, <2>10, <2>15 DEF FollowedTo
  <2>18. \A k \in 1 .. n : groups[k] \in Nat /\ Followed(blocks, k, groups[k])
    <3> SUFFICES ASSUME NEW k \in 1 .. n
                 PROVE  groups[k] \in Nat /\ Followed(blocks, k, groups[k])
      OBVIOUS
    <3>1. Followed(blocks, k, groups[k])
      BY <2>16, <2>17
    <3>2. groups[k] \in 1 .. k
      BY <3>1 DEF Followed
    <3> QED BY <2>2, <3>1, <3>2
  <2>19. blocks \in Seq(ListedBlock)
    BY <1>1 DEF Doc
  <2> HIDE DEF T
  <2>20. /\ after \in Seq(ListedBlock) /\ Len(after) = Len(blocks)
         /\ \A k \in 1 .. Len(blocks) : after[k].rows = blocks[k].rows /\ after[k].group = groups[k]
    BY <1>0, <2>1, <2>17, <2>18, <2>19, FollowedListed
  <2> QED BY <2>1, <2>18, <2>20
<1> QED BY <1>0, <1>1

LEMMA RowsTyped ==
  ASSUME NEW blocks
  PROVE  blocks \in Seq(ListedBlock) => RowsOf(blocks) \in Seq(RowType)
<1>1. ASSUME blocks \in Seq(ListedBlock) PROVE RowsOf(blocks) \in Seq(RowType)
  <2>1. PICK n : n = Len(blocks)
    OBVIOUS
  <2>2. n \in Nat
    BY <1>1, <2>1, ListedIs
  <2>3. PICK f \in [0 .. n -> Seq(RowType)] : RowsOf(blocks) = f[n]
    BY <1>1, <2>1, RowsAre
  <2> QED BY <2>2, <2>3
<1> QED BY <1>1

LEMMA JoinStep ==
  ASSUME NEW old, Doc(old), NEW p \in Nat \ {0}
  PROVE  Doc(JoinAcross(old, p)) /\ Reduced(RowsOf(JoinAcross(old, p)), RowsOf(old))
<1>1. PICK new : new = JoinAcross(old, p)
  OBVIOUS
<1>2. CASE new = old
  <2>1. PICK S : RowType = Seq(S)
    BY DEF RowType
  <2>2. PICK s : s = RowsOf(old)
    OBVIOUS
  <2>3. s \in Seq(Seq(S))
    BY <2>1, <2>2, RowsTyped DEF Doc
  <2>4. Reduced(s, s)
    BY <2>3, ReducedItself
  <2> QED BY <1>1, <1>2, <2>2, <2>4
<1>3. CASE new # old
  <2>1. PICK i, j : Joined(old, new, i, j)
    BY <1>1, <1>3, JoinAcrossIs
  <2>2. Doc(new) /\ Reduced(RowsOf(new), RowsOf(old))
    BY <2>1, JoinedIsDoc, JoinReduces
  <2> QED BY <1>1, <2>2
<1> QED BY <1>2, <1>3

MergeFun(f, pages) ==
  f = [k \in 0 .. Len(pages) |->
        IF k = 0 THEN AllBlocks(pages) ELSE JoinAcross(f[k - 1], Len(pages) + 1 - k)]
LEMMA MergeIs ==
  ASSUME NEW pages
  PROVE  MergeTablesAcrossPages(pages) = FollowedGroups((CHOOSE f : MergeFun(f, pages))[Len(pages)])
BY DEF MergeTablesAcrossPages, MergeFun

\* What the joins, before the groups are followed, make of the rows.
LEMMA MergeReduces ==
  ASSUME NEW pages
  PROVE  pages \in Seq(Seq(BlockType)) =>
           \E joined : /\ Doc(joined) /\ Reduced(RowsOf(joined), RowsOf(AllBlocks(pages)))
                       /\ MergeTablesAcrossPages(pages) = FollowedGroups(joined)
<1>1. ASSUME pages \in Seq(Seq(BlockType))
      PROVE  \E joined : /\ Doc(joined) /\ Reduced(RowsOf(joined), RowsOf(AllBlocks(pages)))
                         /\ MergeTablesAcrossPages(pages) = FollowedGroups(joined)
  <2>1. PICK N, D : N = Len(pages) /\ D = {bs \in Seq(ListedBlock) : Doc(bs)}
    OBVIOUS
  <2>2. N \in Nat
    BY <1>1, <2>1, LenProperties
  <2>3. PICK z : z = AllBlocks(pages)
    OBVIOUS
  <2>4. Doc(z)
    BY <1>1, <2>3, AllBlocksAre
  <2>5. \A bs : bs \in D <=> Doc(bs)
    BY <2>1 DEF Doc
  <2>6. ASSUME NEW k \in 1 .. N PROVE N + 1 - k \in Nat \ {0}
    BY <2>2
  <2>7. PICK step : step = [k \in 1 .. N |-> [bs \in D |-> JoinAcross(bs, N + 1 - k)]]
    OBVIOUS
  <2>8. step \in [1 .. N -> [D -> D]]
    <3>1. ASSUME NEW k \in 1 .. N, NEW bs \in D PROVE JoinAcross(bs, N + 1 - k) \in D
      <4>1. PICK p : p = N + 1 - k
        OBVIOUS
      <4>2. p \in Nat \ {0}
        BY <2>6, <4>1
      <4>3. Doc(JoinAcross(bs, p))
        BY <2>5, <4>2, JoinStep
      <4> QED BY <2>5, <4>1, <4>3
    <3> QED BY <2>7, <3>1
  <2>9. PICK f \in [0 .. N -> D] : f[0] = z /\ \A k \in 1 .. N : f[k] = step[k][f[k - 1]]
    <3>1. z \in D
      BY <2>4, <2>5
    <3> QED BY <2>2, <2>8, <3>1, Recursion
  <2>10. ASSUME NEW k \in 1 .. N PROVE f[k] = JoinAcross(f[k - 1], N + 1 - k)
    <3>1. k - 1 \in 0 .. N
      BY <2>2
    <3>2. f[k - 1] \in D
      BY <3>1
    <3> QED BY <2>7, <2>9, <3>2
  <2>11. MergeFun(f, pages)
    <3>1. f = [k \in 0 .. N |-> f[k]]
      OBVIOUS
    <3>2. ASSUME NEW k \in 0 .. N
          PROVE  f[k] = IF k = 0 THEN AllBlocks(pages) ELSE JoinAcross(f[k - 1], N + 1 - k)
      <4>1. k = 0 \/ k \in 1 .. N
        BY <2>2
      <4> QED BY <2>3, <2>9, <2>10, <4>1
    <3> QED BY <2>1, <3>1, <3>2 DEF MergeFun
  <2>12. PICK g : g = CHOOSE e : MergeFun(e, pages)
    OBVIOUS
  <2>13. MergeFun(g, pages)
    BY <2>11, <2>12
  <2>14. g[0] = z /\ \A k \in 1 .. N : g[k] = JoinAcross(g[k - 1], N + 1 - k)
    <3>1. \A k \in 0 .. N :
            g[k] = IF k = 0 THEN AllBlocks(pages) ELSE JoinAcross(g[k - 1], N + 1 - k)
      BY <2>1, <2>13 DEF MergeFun
    <3>2. 0 \in 0 .. N /\ \A k \in 1 .. N : k \in 0 .. N /\ k # 0
      BY <2>2
    <3>3. g[0] = z
      BY <2>3, <3>1, <3>2
    <3>4. ASSUME NEW k \in 1 .. N PROVE g[k] = JoinAcross(g[k - 1], N + 1 - k)
      BY <3>1, <3>2
    <3> QED BY <3>3, <3>4
  <2>15. PICK S : RowType = Seq(S)
    BY DEF RowType
  <2>16. \A bs : Doc(bs) => RowsOf(bs) \in Seq(Seq(S))
    BY <2>15, RowsTyped DEF Doc
  <2> DEFINE T == {k \in Nat : k <= N => Doc(g[k]) /\ Reduced(RowsOf(g[k]), RowsOf(z))}
  <2>17. 0 \in T
    <3>1. PICK s : s = RowsOf(z)
      OBVIOUS
    <3>2. s \in Seq(Seq(S))
      BY <2>4, <2>16, <3>1
    <3>3. Reduced(s, s)
      BY <3>2, ReducedItself
    <3> QED BY <2>4, <2>14, <3>1, <3>3
  <2>18. ASSUME NEW k \in T PROVE k + 1 \in T
    <3> SUFFICES ASSUME k + 1 <= N
                 PROVE  Doc(g[k + 1]) /\ Reduced(RowsOf(g[k + 1]), RowsOf(z))
      OBVIOUS
    <3>1. /\ k \in Nat /\ k + 1 \in 1 .. N /\ (k + 1) - 1 = k
          /\ Doc(g[k]) /\ Reduced(RowsOf(g[k]), RowsOf(z))
      BY <2>2
    <3>2. PICK old, p, new : old = g[k] /\ p = N + 1 - (k + 1) /\ new = g[k + 1]
      OBVIOUS
    <3> HIDE DEF T
    <3>3. Doc(old) /\ p \in Nat \ {0} /\ new = JoinAcross(old, p)
      BY <2>6, <2>14, <3>1, <3>2
    <3>4. Doc(new) /\ Reduced(RowsOf(new), RowsOf(old))
      BY <3>3, JoinStep
    <3>5. PICK s, t, u : s = RowsOf(new) /\ t = RowsOf(old) /\ u = RowsOf(z)
      OBVIOUS
    <3>6. s \in Seq(Seq(S)) /\ t \in Seq(Seq(S)) /\ u \in Seq(Seq(S))
      BY <2>4, <2>16, <3>3, <3>4, <3>5
    <3>7. Reduced(s, t) /\ Reduced(t, u)
      BY <3>1, <3>2, <3>4, <3>5
    <3>8. Reduced(s, u)
      BY <3>6, <3>7, ReducedFurther
    <3> QED BY <3>2, <3>4, <3>5, <3>8
  <2>19. N \in T
    <3>1. T \in SUBSET Nat
      OBVIOUS
    <3> HIDE DEF T
    <3> QED BY <2>2, <2>17, <2>18, <3>1, Induct
  <2>20. Doc(g[N]) /\ Reduced(RowsOf(g[N]), RowsOf(z))
    BY <2>2, <2>19
  <2>21. MergeTablesAcrossPages(pages) = FollowedGroups(g[N])
    BY <2>1, <2>12, MergeIs
  <2> QED BY <2>3, <2>20, <2>21
<1> QED BY <1>1

\* Joining the tables of a document moves rows and loses none but repeated
\* header rows: for every document, however many pages a table runs over, the rows
\* of all pages stay in order, of a row left out one of the same texts and widths
\* is there, and a joined table is empty and belongs to a block that is in its own
\* group and has rows (merge_tables_across_pages).
THEOREM RowsKeptForAll == StructureTypeOK => TableRowsKept
<1>1. ASSUME cells \in Seq(Seq(BlockType))
      PROVE  RowsKept(AllBlocks(cells), MergeTablesAcrossPages(cells))
  <2>1. PICK before, after : before = AllBlocks(cells) /\ after = MergeTablesAcrossPages(cells)
    OBVIOUS
  <2>2. PICK joined : /\ Doc(joined) /\ Reduced(RowsOf(joined), RowsOf(before))
                      /\ after = FollowedGroups(joined)
    BY <1>1, <2>1, MergeReduces
  <2>3. PICK n : n = Len(joined)
    OBVIOUS
  <2>4. /\ joined \in Seq(ListedBlock) /\ n \in Nat
        /\ \A k \in 1 .. n : /\ joined[k].group \in 1 .. k
                             /\ joined[k].group # k => joined[k].rows = <<>>
    BY <2>2, <2>3, ListedIs DEF Doc
  <2>5. /\ after \in Seq(ListedBlock) /\ Len(after) = n /\ DOMAIN after = 1 .. n
        /\ \A k \in 1 .. n : /\ after[k].rows = joined[k].rows
                             /\ Followed(joined, k, after[k].group)
    <3>1. /\ after \in Seq(ListedBlock) /\ Len(after) = n
          /\ \A k \in 1 .. n : /\ after[k].rows = joined[k].rows
                               /\ Followed(joined, k, after[k].group)
      BY <2>2, <2>3, FollowedAre
    <3> QED BY <3>1, ListedIs
  <2>6. PICK s, t : s = RowsOf(after) /\ t = RowsOf(before)
    OBVIOUS
  <2>7. s = RowsOf(joined)
    BY <2>3, <2>4, <2>5, <2>6, SameRows
  <2>8. s \in Seq(RowType) /\ t \in Seq(RowType) /\ Reduced(s, t)
    <3>1. before \in Seq(ListedBlock)
      BY <1>1, <2>1, AllBlocksAre DEF Doc
    <3> QED BY <2>2, <2>5, <2>6, <2>7, <3>1, RowsTyped
  <2>9. IsLeftOf(s, t)
    <3>1. PICK f : Finds(f, s, t)
      BY <2>8 DEF Reduced
    <3> QED BY <2>8, <3>1, FoundIsLeft
  <2>10. \A r \in ToSet(t) : \E q \in ToSet(s) : SameHeader(q, r)
    <3> SUFFICES ASSUME NEW r \in ToSet(t) PROVE \E q \in ToSet(s) : SameHeader(q, r)
      OBVIOUS
    <3>1. DOMAIN s = 1 .. Len(s) /\ DOMAIN t = 1 .. Len(t)
      BY <2>8, LenProperties
    <3>2. PICK a \in 1 .. Len(t) : r = t[a]
      BY <3>1 DEF ToSet
    <3>3. PICK b \in 1 .. Len(s) : SameHeader(s[b], t[a])
      BY <2>8 DEF Reduced
    <3>4. s[b] \in ToSet(s)
      BY <3>1 DEF ToSet
    <3> QED BY <3>2, <3>3, <3>4
  <2>11. ASSUME NEW k \in DOMAIN after, after[k].group # k
         PROVE  /\ after[k].rows = <<>>
                /\ after[after[k].group].group = after[k].group
                /\ after[after[k].group].rows # <<>>
    <3>1. PICK g : g = after[k].group
      OBVIOUS
    <3>2. k \in 1 .. n /\ Followed(joined, k, g) /\ after[k].rows = joined[k].rows
      BY <2>5, <3>1
    <3>3. joined[k].group # k
      BY <2>11, <3>1, <3>2 DEF Followed
    <3>4. g \in 1 .. k /\ joined[g].group = g /\ joined[g].rows # <<>>
      BY <3>2, <3>3 DEF Followed
    <3>5. g \in 1 .. n
      BY <2>4, <3>2, <3>4
    <3>6. after[g].rows = joined[g].rows /\ Followed(joined, g, after[g].group)
      BY <2>5, <3>5
    <3>7. after[g].group = g
      BY <3>4, <3>6 DEF Followed
    <3> QED BY <2>4, <3>1, <3>2, <3>3, <3>4, <3>6, <3>7
  <2>12. RowsKept(before, after)
    BY <2>6, <2>9, <2>10, <2>11 DEF RowsKept
  <2> QED BY <2>1, <2>12
<1> QED BY <1>1 DEF StructureTypeOK, TableRowsKept
=============================================================================
