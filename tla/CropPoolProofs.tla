---- MODULE CropPoolProofs ----
(***************************************************************************)
(* Theorems of the VLM crop pool, for any number of crops, any concurrency *)
(* and retry limit, with and without a worker.                             *)
(***************************************************************************)
EXTENDS CropPool, SequenceTheorems, FiniteSetTheorems, WellFoundedInduction, TLAPS

----------------------------------------------------------------------------
(* Lists of crops.                                                         *)

Members(q) == {q[i] : i \in 1 .. Len(q)}

\* No crop stands twice in the list.
NoRepeats(q) == \A i, j \in 1 .. Len(q) : q[i] = q[j] => i = j

\* A set of naturals has a least member: what induction is reduced to.
LEMMA LeastNatural ==
  ASSUME NEW T \in SUBSET Nat, T # {}
  PROVE  \E x \in T : \A y \in T : x <= y
<1> DEFINE R == {ss \in Nat \X Nat : ss[1] < ss[2]}
<1>1. IsWellFoundedOn(R, Nat)
  BY NatLessThanWellFounded, Zenon DEF OpToRel
<1>2. \E x \in T : \A y \in T : ~ (<<y, x>> \in R)
  <2> HIDE DEF R
  <2> QED BY <1>1, WFMin
<1>3. PICK x \in T : \A y \in T : ~ (<<y, x>> \in R)
  BY <1>2
<1>4. ASSUME NEW y \in T PROVE x <= y
  <2>1. x \in Nat /\ y \in Nat
    OBVIOUS
  <2>2. ~ (<<y, x>> \in R)
    BY <1>3
  <2>3. ~ (y < x)
    BY <2>1, <2>2
  <2> QED BY <2>1, <2>3
<1> QED BY <1>4

LEMMA EmptyList == Members(<<>>) = {} /\ NoRepeats(<<>>)
<1>1. Len(<<>>) = 0
  OBVIOUS
<1> QED BY <1>1 DEF Members, NoRepeats

LEMMA AppendedList ==
  ASSUME NEW q \in Seq(Crops), NEW c \in Crops
  PROVE  /\ Append(q, c) \in Seq(Crops)
         /\ Members(Append(q, c)) = Members(q) \cup {c}
         /\ NoRepeats(q) /\ c \notin Members(q) => NoRepeats(Append(q, c))
<1> DEFINE a == Append(q, c)
<1>1. /\ a \in Seq(Crops) /\ Len(a) = Len(q) + 1 /\ Len(q) \in Nat
      /\ \A i \in 1 .. Len(q) : a[i] = q[i]
      /\ a[Len(q) + 1] = c
  BY AppendProperties, LenProperties
<1> HIDE DEF a
<1>2. Members(a) \subseteq Members(q) \cup {c}
  BY <1>1 DEF Members
<1>3. Members(q) \subseteq Members(a)
  BY <1>1 DEF Members
<1>4. c \in Members(a)
  BY <1>1 DEF Members
<1>5. ASSUME NoRepeats(q), c \notin Members(q) PROVE NoRepeats(a)
  <2> SUFFICES ASSUME NEW i \in 1 .. Len(a), NEW j \in 1 .. Len(a), a[i] = a[j]
               PROVE  i = j
    BY DEF NoRepeats
  <2>1. CASE i \in 1 .. Len(q) /\ j \in 1 .. Len(q)
    BY <1>1, <1>5, <2>1 DEF NoRepeats
  <2>2. CASE i = Len(q) + 1 /\ j \in 1 .. Len(q)
    BY <1>1, <1>5, <2>2 DEF Members
  <2>3. CASE i \in 1 .. Len(q) /\ j = Len(q) + 1
    BY <1>1, <1>5, <2>3 DEF Members
  <2>4. CASE i = Len(q) + 1 /\ j = Len(q) + 1
    BY <2>4
  <2> QED BY <1>1, <2>1, <2>2, <2>3, <2>4
<1> QED BY <1>1, <1>2, <1>3, <1>4, <1>5 DEF a

LEMMA TailOfList ==
  ASSUME NEW q \in Seq(Crops), q # <<>>
  PROVE  /\ Tail(q) \in Seq(Crops) /\ Head(q) \in Crops
         /\ Members(q) = Members(Tail(q)) \cup {Head(q)}
         /\ NoRepeats(q) => NoRepeats(Tail(q)) /\ Head(q) \notin Members(Tail(q))
<1> DEFINE t == Tail(q)
           h == Head(q)
<1>1. /\ t \in Seq(Crops) /\ Len(q) \in Nat \ {0} /\ Len(t) = Len(q) - 1 /\ h \in Crops
      /\ \A i \in 1 .. Len(t) : t[i] = q[i + 1]
      /\ h = q[1]
  BY HeadTailProperties, EmptySeq, LenProperties
<1> HIDE DEF t, h
<1>2. Members(t) \subseteq Members(q)
  BY <1>1 DEF Members
<1>3. h \in Members(q)
  BY <1>1 DEF Members
<1>4. ASSUME NEW i \in 1 .. Len(q) PROVE q[i] \in Members(t) \cup {h}
  <2>1. CASE i = 1
    BY <1>1, <2>1
  <2>2. CASE i # 1
    <3>1. i - 1 \in 1 .. Len(t) /\ t[i - 1] = q[i]
      BY <1>1, <2>2
    <3> QED BY <3>1 DEF Members
  <2> QED BY <2>1, <2>2
<1>5. ASSUME NoRepeats(q) PROVE NoRepeats(t) /\ h \notin Members(t)
  BY <1>1, <1>5 DEF NoRepeats, Members
<1>6. Members(q) = Members(t) \cup {h}
  BY <1>2, <1>3, <1>4 DEF Members
<1> QED BY <1>1, <1>5, <1>6 DEF t, h

LEMMA JoinedLists ==
  ASSUME NEW q \in Seq(Crops), NEW p \in Seq(Crops)
  PROVE  /\ q \o p \in Seq(Crops)
         /\ Members(q \o p) = Members(q) \cup Members(p)
         /\ NoRepeats(q) /\ NoRepeats(p) /\ Members(q) \cap Members(p) = {}
              => NoRepeats(q \o p)
<1> DEFINE a == q \o p
<1>1. /\ a \in Seq(Crops) /\ Len(a) = Len(q) + Len(p) /\ Len(q) \in Nat /\ Len(p) \in Nat
      /\ \A i \in 1 .. Len(q) + Len(p) : a[i] = IF i <= Len(q) THEN q[i] ELSE p[i - Len(q)]
  BY ConcatProperties, LenProperties
<1> HIDE DEF a
<1>2. ASSUME NEW i \in 1 .. Len(q) PROVE a[i] = q[i] /\ i \in 1 .. Len(a)
  BY <1>1
<1>3. ASSUME NEW i \in 1 .. Len(p) PROVE a[Len(q) + i] = p[i] /\ Len(q) + i \in 1 .. Len(a)
  BY <1>1
<1>4. ASSUME NEW i \in 1 .. Len(a), i > Len(q)
      PROVE  i - Len(q) \in 1 .. Len(p) /\ a[i] = p[i - Len(q)]
  BY <1>1, <1>4
<1>5. ASSUME NEW i \in 1 .. Len(a) PROVE a[i] \in Members(q) \cup Members(p)
  <2>1. CASE i <= Len(q)
    <3>1. i \in 1 .. Len(q)
      BY <1>1, <2>1
    <3> QED BY <1>2, <3>1 DEF Members
  <2>2. CASE i > Len(q)
    BY <1>4, <2>2 DEF Members
  <2> QED BY <1>1, <2>1, <2>2
<1>6. Members(q) \subseteq Members(a) /\ Members(p) \subseteq Members(a)
  BY <1>2, <1>3 DEF Members
<1>7. ASSUME NoRepeats(q), NoRepeats(p), Members(q) \cap Members(p) = {}
      PROVE  NoRepeats(a)
  <2> SUFFICES ASSUME NEW i \in 1 .. Len(a), NEW j \in 1 .. Len(a), a[i] = a[j]
               PROVE  i = j
    BY DEF NoRepeats
  <2>1. CASE i <= Len(q) /\ j <= Len(q)
    BY <1>1, <1>7, <2>1 DEF NoRepeats
  <2>2. CASE i > Len(q) /\ j > Len(q)
    <3>1. p[i - Len(q)] = p[j - Len(q)]
      BY <1>4, <2>2
    <3>2. i - Len(q) \in 1 .. Len(p) /\ j - Len(q) \in 1 .. Len(p)
      BY <1>4, <2>2
    <3>3. i - Len(q) = j - Len(q)
      BY <1>7, <3>1, <3>2 DEF NoRepeats
    <3> QED BY <1>1, <3>3
  <2>3. ASSUME NEW k \in 1 .. Len(a), NEW l \in 1 .. Len(a), k <= Len(q), l > Len(q)
        PROVE  a[k] # a[l]
    <3>1. k \in 1 .. Len(q)
      BY <1>1, <2>3
    <3>2. a[k] \in Members(q)
      BY <1>2, <3>1 DEF Members
    <3>3. a[l] \in Members(p)
      BY <1>4, <2>3 DEF Members
    <3> QED BY <1>7, <3>2, <3>3
  <2> QED BY <1>1, <2>1, <2>2, <2>3
<1>8. Members(a) = Members(q) \cup Members(p)
  BY <1>5, <1>6 DEF Members
<1> QED BY <1>1, <1>7, <1>8 DEF a

\* The walk over the retry list, as the function it is: upTo[k] holds the
\* crops of S among the first k.
Walk(s, S, n, g) ==
  g = [k \in 0 .. n |->
        IF k = 0 THEN <<>>
        ELSE IF s[k] \in S THEN Append(g[k - 1], s[k]) ELSE g[k - 1]]

LEMMA WalkExists ==
  ASSUME NEW s \in Seq(Crops), NEW S, NEW n \in Nat
  PROVE  \E g : Walk(s, S, n, g)
<1> DEFINE Bad == {m \in Nat : ~ \E g : Walk(s, S, m, g)}
<1> SUFFICES ASSUME Bad # {} PROVE FALSE
  OBVIOUS
<1>1. PICK m \in Bad : \A y \in Bad : m <= y
  <2>1. Bad \in SUBSET Nat
    OBVIOUS
  <2> HIDE DEF Bad
  <2> QED BY <2>1, LeastNatural
<1>2. m \in Nat /\ ~ \E g : Walk(s, S, m, g)
  OBVIOUS
<1>3. CASE m = 0
  <2> DEFINE g == [k \in 0 .. 0 |-> <<>>]
  <2>1. Walk(s, S, 0, g)
    BY DEF Walk
  <2> QED BY <1>2, <1>3, <2>1
<1>4. CASE m # 0
  <2>1. m - 1 \in Nat /\ ~ (m <= m - 1)
    BY <1>2, <1>4
  <2>2. PICK g : Walk(s, S, m - 1, g)
    BY <1>1, <2>1
  <2> DEFINE last == IF s[m] \in S THEN Append(g[m - 1], s[m]) ELSE g[m - 1]
             h == [k \in 0 .. m |-> IF k = m THEN last ELSE g[k]]
  <2>3. ASSUME NEW k \in 0 .. m
        PROVE  h[k] = IF k = 0 THEN <<>>
                      ELSE IF s[k] \in S THEN Append(h[k - 1], s[k]) ELSE h[k - 1]
    <3>1. CASE k = m
      <4>1. h[k] = last /\ h[k - 1] = g[k - 1]
        BY <2>1, <3>1
      <4> QED BY <1>4, <3>1, <4>1
    <3>2. CASE k # m /\ k = 0
      <4>1. h[k] = g[k] /\ k \in 0 .. m - 1
        BY <1>2, <3>2
      <4> QED BY <2>2, <3>2, <4>1 DEF Walk
    <3>3. CASE k # m /\ k # 0
      <4>1. h[k] = g[k] /\ h[k - 1] = g[k - 1] /\ k \in 0 .. m - 1
        BY <1>2, <3>3
      <4>2. g[k] = IF s[k] \in S THEN Append(g[k - 1], s[k]) ELSE g[k - 1]
        BY <2>2, <3>3, <4>1 DEF Walk
      <4> QED BY <3>3, <4>1, <4>2
    <3> QED BY <3>1, <3>2, <3>3
  <2>4. Walk(s, S, m, h)
    BY <2>3 DEF Walk
  <2> QED BY <1>2, <2>4
<1> QED BY <1>3, <1>4

LEMMA PickedIsWalk ==
  ASSUME NEW s \in Seq(Crops), NEW S
  PROVE  \E g : Walk(s, S, Len(s), g) /\ Picked(s, S) = g[Len(s)]
<1> DEFINE up == CHOOSE g : Walk(s, S, Len(s), g)
<1>1. Len(s) \in Nat
  BY LenProperties
<1>2. Walk(s, S, Len(s), up)
  BY <1>1, WalkExists
<1>3. Picked(s, S) = up[Len(s)]
  BY DEF Picked, Walk
<1> QED BY <1>2, <1>3

\* The crops that the walk picks are those of S in the list; none is picked
\* twice from a list where none stands twice.
LEMMA PickedFromList ==
  ASSUME NEW s \in Seq(Crops), NEW S
  PROVE  /\ Picked(s, S) \in Seq(Crops)
         /\ Members(Picked(s, S)) = Members(s) \cap S
         /\ NoRepeats(s) => NoRepeats(Picked(s, S))
<1>1. PICK g : Walk(s, S, Len(s), g) /\ Picked(s, S) = g[Len(s)]
  BY PickedIsWalk
<1> DEFINE First(k) == {s[i] : i \in 1 .. k}
           Good(k) == /\ g[k] \in Seq(Crops)
                      /\ Members(g[k]) = First(k) \cap S
                      /\ NoRepeats(s) => NoRepeats(g[k])
           Bad == {k \in 0 .. Len(s) : ~ Good(k)}
<1>2. Len(s) \in Nat /\ \A i \in 1 .. Len(s) : s[i] \in Crops
  BY LenProperties, ElementOfSeq
<1>3. Bad = {}
  <2> SUFFICES ASSUME Bad # {} PROVE FALSE
    OBVIOUS
  <2>1. PICK m \in Bad : \A y \in Bad : m <= y
    <3>1. Bad \in SUBSET Nat
      BY <1>2
    <3> HIDE DEF Bad
    <3> QED BY <3>1, LeastNatural
  <2>2. m \in 0 .. Len(s) /\ ~ Good(m)
    OBVIOUS
  <2>3. CASE m = 0
    <3>1. g[0] = <<>>
      BY <1>1, <1>2 DEF Walk
    <3>2. First(0) = {}
      OBVIOUS
    <3>3. Good(0)
      BY <3>1, <3>2, EmptyList
    <3> QED BY <2>2, <2>3, <3>3
  <2>4. CASE m # 0
    <3>1. m - 1 \in 0 .. Len(s) /\ ~ (m <= m - 1) /\ m \in 1 .. Len(s)
      BY <1>2, <2>2, <2>4
    <3>2. Good(m - 1)
      BY <2>1, <3>1
    <3>3. s[m] \in Crops
      BY <1>2, <3>1
    <3>4. First(m) = First(m - 1) \cup {s[m]}
      BY <1>2, <3>1
    <3>5. g[m] = IF s[m] \in S THEN Append(g[m - 1], s[m]) ELSE g[m - 1]
      BY <1>1, <2>2, <2>4 DEF Walk
    <3> HIDE DEF First
    <3>6. CASE s[m] \in S
      <4>1. g[m] = Append(g[m - 1], s[m])
        BY <3>5, <3>6
      <4>2. /\ g[m] \in Seq(Crops)
            /\ Members(g[m]) = Members(g[m - 1]) \cup {s[m]}
            /\ NoRepeats(g[m - 1]) /\ s[m] \notin Members(g[m - 1]) => NoRepeats(g[m])
        BY <3>2, <3>3, <4>1, AppendedList
      <4>3. NoRepeats(s) => s[m] \notin First(m - 1)
        BY <1>2, <3>1 DEF NoRepeats, First
      <4>4. Good(m)
        BY <3>2, <3>4, <3>6, <4>2, <4>3
      <4> QED BY <2>2, <4>4
    <3>7. CASE s[m] \notin S
      <4>1. g[m] = g[m - 1]
        BY <3>5, <3>7
      <4>2. Good(m)
        BY <3>2, <3>4, <3>7, <4>1
      <4> QED BY <2>2, <4>2
    <3> QED BY <3>6, <3>7
  <2> QED BY <2>3, <2>4
<1>4. Good(Len(s))
  <2>1. Len(s) \in 0 .. Len(s)
    BY <1>2
  <2> HIDE DEF Good
  <2> QED BY <1>3, <2>1
<1>5. First(Len(s)) = Members(s)
  BY DEF Members
<1> QED BY <1>1, <1>4, <1>5

----------------------------------------------------------------------------
(* The inductive invariant.                                                *)

Queued == Members(queue)
Parked == Members(parked)
Held == {c \in Crops : transfer[c] # "none"}

\* The crops whose caller still waits for an answer.
Awaited == {c \in Crops : call[c] = "queued" /\ future[c] = "empty"}

\* The queue, the retry list and the handles share no crop, and hold between
\* them the crops that are still awaited.
Apart ==
  /\ NoRepeats(queue) /\ NoRepeats(parked)
  /\ Queued \cap Parked = {} /\ Held \cap (Queued \cup Parked) = {}
  /\ Queued \cup Parked \cup Held = Awaited

\* A crop that was never queued has not been sent or answered, and one that
\* was refused was answered on the spot.
Callers ==
  \A c \in Crops :
    /\ call[c] \in {"idle", "built"} => attempts[c] = 0 /\ future[c] = "empty"
    /\ call[c] = "refused" => future[c] # "empty"

\* A crop that is to be sent has a try left.
Tries ==
  /\ \A c \in Crops : attempts[c] <= MaxRetries + 1
  /\ \A c \in Queued \cup Parked : attempts[c] <= MaxRetries

\* What is already gone at each stage of the shutdown.
Stages ==
  /\ stop <=> shut # "no"
  /\ pc \in {"drain", "reap", "exited"} => stop
  /\ pc \in {"exited", "absent"} => Held = {}
  /\ shut \in {"draining", "done"} => pc \in {"exited", "absent"} /\ parked = <<>>
  /\ shut = "done" => queue = <<>>
  /\ fd = "closed" => shut = "done"

\* What every step of callers, worker and shutdown keeps.
PoolInv == TypeOK /\ SlotsCounted /\ Apart /\ Callers /\ Tries /\ Stages

USE CropPoolAssumption

LEMMA ListMembers ==
  ASSUME NEW q \in Seq(Crops)
  PROVE  /\ Members(q) \subseteq Crops
         /\ ToSet(q) = Members(q)
<1>1. DOMAIN q = 1 .. Len(q) /\ \A i \in 1 .. Len(q) : q[i] \in Crops
  BY LenProperties, ElementOfSeq
<1> QED BY <1>1 DEF Members, ToSet

\* Setting the futures of S answers the callers that still wait among them.
LEMMA ResolvedAnswers ==
  ASSUME TypeOK, call' = call, NEW S, NEW out \in Outcomes, future' = Resolved(S, out)
  PROVE  /\ future' \in [Crops -> Outcomes \cup {"empty"}]
         /\ Awaited' = Awaited \ S
         /\ \A c \in Crops : future[c] # "empty" => future'[c] # "empty"
         /\ \A c \in Crops : c \notin Awaited /\ c \notin S => future'[c] = future[c]
<1>1. \A c \in Crops :
        future'[c] = IF c \in S /\ future[c] = "empty" THEN out ELSE future[c]
  BY DEF Resolved
<1>2. out # "empty"
  BY DEF Outcomes
<1>3. future' \in [Crops -> Outcomes \cup {"empty"}]
  BY DEF Resolved, TypeOK
<1> QED BY <1>1, <1>2, <1>3 DEF Awaited

\* The handles are as many as in_flight_ says, and finitely many.
LEMMA HeldFinite == IsFiniteSet(Held) /\ Cardinality(Held) \in Nat
<1>1. IsFiniteSet(Held)
  <2>1. Held \in SUBSET Crops
    BY DEF Held
  <2> QED BY <2>1, FS_Subset
<1> QED BY <1>1, FS_CardinalityType

LEMMA HeldMore ==
  ASSUME SlotsCounted, TypeOK, inFlight < MaxConcurrency, inFlight' = inFlight + 1,
         NEW c, c \notin Held, Held' = Held \cup {c}
  PROVE  SlotsCounted'
<1>1. Cardinality(Held') = Cardinality(Held) + 1
  BY HeldFinite, FS_AddElement
<1> QED BY <1>1, HeldFinite DEF SlotsCounted, Held, TypeOK

LEMMA HeldLess ==
  ASSUME SlotsCounted, TypeOK, inFlight' = inFlight - 1,
         NEW c, c \in Held, Held' = Held \ {c}
  PROVE  SlotsCounted' /\ inFlight' \in Nat
<1>1. Cardinality(Held') = Cardinality(Held) - 1
  BY HeldFinite, FS_RemoveElement
<1>2. Cardinality(Held') \in Nat
  <2>1. IsFiniteSet(Held')
    BY HeldFinite, FS_RemoveElement
  <2> QED BY <2>1, FS_CardinalityType
<1> QED BY <1>1, <1>2, HeldFinite DEF SlotsCounted, Held, TypeOK

LEMMA HeldSame ==
  ASSUME SlotsCounted, inFlight' = inFlight, Held' = Held
  PROVE  SlotsCounted'
BY DEF SlotsCounted, Held

----------------------------------------------------------------------------
(* The callers.                                                            *)

LEMMA PoolInvInit == Init => PoolInv
<1> SUFFICES ASSUME Init PROVE PoolInv
  OBVIOUS
<1>1. TypeOK
  <2>1. <<>> \in Seq(Crops)
    OBVIOUS
  <2> QED BY <2>1 DEF Init, TypeOK, Outcomes, Ended
<1>2. Held = {} /\ Awaited = {}
  BY DEF Init, Held, Awaited
<1>3. SlotsCounted
  <2>1. Cardinality(Held) = 0
    BY <1>2, FS_EmptySet
  <2> QED BY <2>1 DEF Init, SlotsCounted, Held
<1>4. Apart
  BY <1>2, EmptyList DEF Init, Apart, Queued, Parked
<1>5. Callers /\ Stages
  BY <1>2 DEF Init, Callers, Stages
<1>6. Tries
  BY EmptyList DEF Init, Tries, Queued, Parked
<1> QED BY <1>1, <1>3, <1>4, <1>5, <1>6 DEF PoolInv

LEMMA BuildKeeps ==
  ASSUME PoolInv, NEW c \in Crops, Build(c)
  PROVE  PoolInv'
<1> USE DEF PoolInv, Build, request, handles, life
<1>1. TypeOK'
  <2>1. call' \in [Crops -> {"idle", "built", "queued", "refused"}]
    BY DEF TypeOK
  <2>2. budget' \in [Crops -> {"none", "ahead", "past"}]
    BY DEF TypeOK
  <2>3. seen' \in [Crops -> BOOLEAN]
    BY DEF TypeOK
  <2> QED BY <2>1, <2>2, <2>3 DEF TypeOK
<1>2. \A d \in Crops : call'[d] = IF d = c THEN "built" ELSE call[d]
  BY DEF TypeOK
<1>3. Queued' = Queued /\ Parked' = Parked /\ Held' = Held
  BY DEF Queued, Parked, Held
<1>4. Awaited' = Awaited
  BY <1>2 DEF Awaited
<1>5. Apart' /\ Tries' /\ Stages'
  BY <1>3, <1>4 DEF Apart, Tries, Stages
<1>6. Callers'
  BY <1>2 DEF Callers
<1>7. SlotsCounted'
  BY <1>3, HeldSame
<1> QED BY <1>1, <1>5, <1>6, <1>7

LEMMA SubmitKeeps ==
  ASSUME PoolInv, NEW c \in Crops, Submit(c)
  PROVE  PoolInv'
<1> USE DEF PoolInv, Submit, request, handles, life
<1>0. UNCHANGED <<seen, request, parked, handles, pc, life>>
  OBVIOUS
<1>1. Parked' = Parked /\ Held' = Held
  BY DEF Parked, Held
<1>2. future[c] = "empty" /\ attempts[c] = 0 /\ c \notin Awaited
  BY DEF Callers, Awaited
<1>3. CASE stop
  <2>1. /\ call' = [call EXCEPT ![c] = "refused"]
        /\ future' = Resolved({c}, "failed")
        /\ queue' = queue
    BY <1>3 DEF SeesStop
  <2>2. \A d \in Crops : /\ call'[d] = IF d = c THEN "refused" ELSE call[d]
                         /\ future'[d] = IF d = c THEN "failed" ELSE future[d]
    BY <1>2, <2>1 DEF TypeOK, Resolved
  <2>3. TypeOK'
    <3>1. call' \in [Crops -> {"idle", "built", "queued", "refused"}]
      BY <2>1 DEF TypeOK
    <3>2. future' \in [Crops -> Outcomes \cup {"empty"}]
      BY <2>1 DEF TypeOK, Resolved, Outcomes
    <3>3. UNCHANGED <<seen, budget, attempts, ready, queue, parked, transfer, inFlight, pc,
                      stop, shut, fd>>
      BY <1>0, <2>1
    <3>4. TypeOK
      OBVIOUS
    <3> HIDE DEF Submit, PoolInv
    <3> QED BY <3>1, <3>2, <3>3, <3>4 DEF TypeOK
  <2>4. Queued' = Queued /\ Awaited' = Awaited
    <3>1. call[c] = "built"
      OBVIOUS
    <3> HIDE DEF Submit, PoolInv
    <3>2. Awaited' = Awaited
      BY <2>2, <3>1 DEF Awaited
    <3> QED BY <2>1, <3>2 DEF Queued
  <2>5. Apart' /\ Tries' /\ Stages'
    BY <1>1, <2>1, <2>4 DEF Apart, Tries, Stages
  <2>6. Callers'
    BY <2>2 DEF Callers
  <2> QED BY <1>1, <2>3, <2>5, <2>6, HeldSame
<1>4. CASE ~stop
  <2>1. /\ call' = [call EXCEPT ![c] = "queued"]
        /\ queue' = Append(queue, c)
        /\ future' = future
    BY <1>4 DEF SeesStop
  <2>2. \A d \in Crops : call'[d] = IF d = c THEN "queued" ELSE call[d]
    BY <2>1 DEF TypeOK
  <2>3. c \notin Queued /\ c \notin Parked /\ c \notin Held
    BY <1>2 DEF Apart
  <2>4. queue' \in Seq(Crops) /\ Queued' = Queued \cup {c} /\ NoRepeats(queue')
    BY <2>1, <2>3, AppendedList DEF TypeOK, Queued, Apart
  <2>5. Awaited' = Awaited \cup {c}
    BY <1>2, <2>1, <2>2 DEF Awaited
  <2>6. TypeOK'
    <3>1. call' \in [Crops -> {"idle", "built", "queued", "refused"}]
      BY <2>1 DEF TypeOK
    <3> QED BY <2>1, <2>4, <3>1 DEF TypeOK
  <2>7. Apart'
    BY <1>1, <2>3, <2>4, <2>5 DEF Apart
  <2>8. Tries'
    BY <1>1, <1>2, <2>4 DEF Tries
  <2>9. Callers'
    BY <2>1, <2>2 DEF Callers
  <2>10. Stages'
    BY <1>1, <1>4 DEF Stages
  <2> QED BY <1>1, <2>6, <2>7, <2>8, <2>9, <2>10, HeldSame
<1> QED BY <1>3, <1>4

----------------------------------------------------------------------------
(* The worker.                                                             *)

LEMMA LoopHeadKeeps ==
  ASSUME PoolInv, LoopHead
  PROVE  PoolInv'
<1> USE DEF PoolInv, LoopHead, WorkerOnly, handles, life
<1>1. Held' = Held /\ Awaited' = Awaited
  BY DEF Held, Awaited
<1>2. CASE LeavesLoop
  <2>1. pc' = "drain" /\ queue' = queue /\ parked' = parked /\ stop
    BY <1>2 DEF LeavesLoop
  <2>2. Queued' = Queued /\ Parked' = Parked
    BY <2>1 DEF Queued, Parked
  <2>3. TypeOK'
    BY <2>1 DEF TypeOK
  <2>4. Apart' /\ Tries' /\ Callers'
    BY <1>1, <2>1, <2>2 DEF Apart, Tries, Callers
  <2>5. Stages'
    BY <1>1, <2>1 DEF Stages
  <2> QED BY <1>1, <2>3, <2>4, <2>5, HeldSame
<1>3. CASE ~LeavesLoop
  <2>1. /\ pc = "loop" /\ pc' = "fill"
        /\ queue' = queue \o Picked(parked, Due)
        /\ parked' = Picked(parked, Crops \ Due)
    BY <1>3 DEF LeftParked
  <2>2. /\ parked' \in Seq(Crops)
        /\ Parked' = Parked \cap (Crops \ Due)
        /\ NoRepeats(parked')
    BY <2>1, PickedFromList DEF TypeOK, Apart, Parked
  <2>3. /\ Picked(parked, Due) \in Seq(Crops)
        /\ Members(Picked(parked, Due)) = Parked \cap Due
        /\ NoRepeats(Picked(parked, Due))
    BY PickedFromList DEF TypeOK, Apart, Parked
  <2>4. /\ queue' \in Seq(Crops)
        /\ Queued' = Queued \cup (Parked \cap Due)
        /\ NoRepeats(queue')
    BY <2>1, <2>3, JoinedLists DEF TypeOK, Apart, Queued
  <2>5. Parked \subseteq Crops
    BY ListMembers DEF Parked, TypeOK
  <2>6. TypeOK'
    BY <2>1, <2>2, <2>4 DEF TypeOK
  <2>7. Apart'
    BY <1>1, <2>2, <2>4, <2>5 DEF Apart
  <2>8. Tries'
    BY <2>2, <2>4 DEF Tries
  <2>9. Callers'
    BY DEF Callers
  <2>10. Stages'
    BY <1>1, <2>1 DEF Stages
  <2> QED BY <1>1, <2>6, <2>7, <2>8, <2>9, <2>10, HeldSame
<1> QED BY <1>2, <1>3

LEMMA DispatchKeeps ==
  ASSUME PoolInv, Dispatch
  PROVE  PoolInv'
<1> USE DEF PoolInv, Dispatch, WorkerOnly, handles, life
<1> DEFINE c == Head(queue)
<1>1. /\ queue' = Tail(queue) /\ queue # <<>> /\ inFlight < MaxConcurrency
      /\ pc \in {"fill", "refill"}
      /\ attempts' = [attempts EXCEPT ![c] = @ + 1]
      /\ call' = call /\ parked' = parked /\ ready' = ready /\ pc' = pc
      /\ seen' = seen /\ budget' = budget /\ stop' = stop /\ shut' = shut /\ fd' = fd
  BY DEF HasRoom
<1>2. /\ queue' \in Seq(Crops) /\ c \in Crops
      /\ Queued = Queued' \cup {c} /\ c \notin Queued' /\ NoRepeats(queue')
  BY <1>1, TailOfList DEF TypeOK, Apart, Queued
<1> HIDE DEF c
<1>3. c \in Awaited /\ c \notin Parked /\ c \notin Held /\ Parked' = Parked
  BY <1>1, <1>2 DEF Apart, Parked
<1>4. attempts[c] \in Nat /\ attempts[c] <= MaxRetries
  BY <1>2 DEF TypeOK, Tries
<1>5. \A d \in Crops : attempts'[d] = IF d = c THEN attempts[d] + 1 ELSE attempts[d]
  BY <1>1, <1>2 DEF TypeOK
<1>6. attempts' \in [Crops -> Nat]
  BY <1>1, <1>4 DEF TypeOK
<1>7. Tries'
  <2>1. \A d \in Crops : attempts'[d] <= MaxRetries + 1
    BY <1>4, <1>5 DEF Tries
  <2>2. (Queued \cup Parked) \subseteq Crops
    BY ListMembers DEF Queued, Parked, TypeOK
  <2>3. \A d \in Queued' \cup Parked' : d \in Queued \cup Parked /\ d # c
    BY <1>2, <1>3
  <2>4. \A d \in Queued' \cup Parked' : attempts'[d] <= MaxRetries
    BY <1>5, <2>2, <2>3 DEF Tries
  <2> QED BY <2>1, <2>4 DEF Tries
<1>8. CASE future' = Resolved({c}, "failed") /\ UNCHANGED handles
  <2>1. /\ future' \in [Crops -> Outcomes \cup {"empty"}] /\ Awaited' = Awaited \ {c}
        /\ \A d \in Crops : future[d] # "empty" => future'[d] # "empty"
        /\ \A d \in Crops : d \notin Awaited /\ d \notin {c} => future'[d] = future[d]
    <3>1. "failed" \in Outcomes
      BY DEF Outcomes
    <3> QED BY <1>1, <1>8, <3>1, ResolvedAnswers
  <2>2. Held' = Held
    BY <1>8 DEF Held
  <2>3. TypeOK'
    <3> HIDE DEF Dispatch
    <3> QED BY <1>1, <1>2, <1>6, <1>8, <2>1 DEF TypeOK
  <2>4. Apart'
    BY <1>1, <1>2, <1>3, <2>1, <2>2 DEF Apart
  <2>5. Callers'
    BY <1>1, <1>3, <1>5, <2>1 DEF Callers, Awaited
  <2>6. Stages'
    BY <1>1, <2>2 DEF Stages
  <2> QED BY <1>7, <1>8, <2>2, <2>3, <2>4, <2>5, <2>6, HeldSame
<1>9. CASE /\ transfer' = [transfer EXCEPT ![c] = "active"]
           /\ inFlight' = inFlight + 1 /\ UNCHANGED future
  <2>1. \A d \in Crops : transfer'[d] = IF d = c THEN "active" ELSE transfer[d]
    BY <1>2, <1>9 DEF TypeOK
  <2>2. Held' = Held \cup {c} /\ Awaited' = Awaited
    BY <1>1, <1>2, <1>9, <2>1 DEF Held, Awaited
  <2>3. transfer' \in [Crops -> Ended \cup {"none", "active"}]
    BY <1>2, <1>9 DEF TypeOK
  <2>4. inFlight' \in Nat
    BY <1>9 DEF TypeOK
  <2>5. TypeOK'
    <3> HIDE DEF Dispatch
    <3> QED BY <1>1, <1>2, <1>6, <1>9, <2>3, <2>4 DEF TypeOK
  <2>6. Apart'
    BY <1>1, <1>2, <1>3, <2>2 DEF Apart
  <2>7. Callers'
    BY <1>1, <1>3, <1>5, <1>9 DEF Callers, Awaited
  <2>8. Stages'
    BY <1>1, <1>2 DEF Stages
  <2>9. SlotsCounted'
    BY <1>1, <1>3, <1>9, <2>2, HeldMore
  <2> QED BY <1>7, <2>5, <2>6, <2>7, <2>8, <2>9
<1> QED BY <1>8, <1>9 DEF c

LEMMA PerformKeeps ==
  ASSUME PoolInv, Perform
  PROVE  PoolInv'
<1> USE DEF PoolInv, Perform, WorkerOnly, handles, life
<1>1. PICK S \in SUBSET {c \in Crops : transfer[c] = "active"} :
        \E how \in [S -> Ended] :
          transfer' = [c \in Crops |-> IF c \in S THEN how[c] ELSE transfer[c]]
  OBVIOUS
<1>2. PICK how \in [S -> Ended] :
        transfer' = [c \in Crops |-> IF c \in S THEN how[c] ELSE transfer[c]]
  BY <1>1
<1>3. /\ transfer' \in [Crops -> Ended \cup {"none", "active"}]
      /\ \A c \in Crops : transfer'[c] = "none" <=> transfer[c] = "none"
  BY <1>2 DEF TypeOK, Ended
<1>4. Held' = Held /\ Awaited' = Awaited /\ Queued' = Queued /\ Parked' = Parked
  BY <1>3 DEF Held, Awaited, Queued, Parked
<1>5. TypeOK'
  BY <1>3 DEF TypeOK
<1>6. Apart' /\ Tries' /\ Callers'
  BY <1>4 DEF Apart, Tries, Callers
<1>7. Stages'
  BY <1>4 DEF Stages
<1> QED BY <1>4, <1>5, <1>6, <1>7, HeldSame

LEMMA CompleteKeeps ==
  ASSUME PoolInv, NEW c \in Crops, Complete(c)
  PROVE  PoolInv'
<1> USE DEF PoolInv, Complete, WorkerOnly, handles, life, SlotFreed, TriesLeft
<1>1. /\ transfer' = [transfer EXCEPT ![c] = "none"] /\ inFlight' = inFlight - 1
      /\ call' = call /\ queue' = queue /\ attempts' = attempts
      /\ seen' = seen /\ budget' = budget /\ stop' = stop /\ shut' = shut /\ fd' = fd
  OBVIOUS
<1>2. \A d \in Crops : transfer'[d] = IF d = c THEN "none" ELSE transfer[d]
  BY DEF TypeOK
<1>3. c \in Held /\ Held' = Held \ {c} /\ Queued' = Queued
  BY <1>2 DEF Held, Ended, Queued
<1>4. c \in Awaited /\ c \notin Queued /\ c \notin Parked
  BY <1>3 DEF Apart
<1>5. SlotsCounted' /\ inFlight' \in Nat
  BY <1>1, <1>3, HeldLess
<1>6. transfer' \in [Crops -> Ended \cup {"none", "active"}]
  BY <1>1 DEF TypeOK
<1>7. pc' \in {"refill", "reap"} /\ (pc' = "reap" => stop)
  BY DEF Stages
<1>8. Stages'
  BY <1>1, <1>3, <1>7 DEF Stages
<1>9. ASSUME NEW out \in Outcomes, future' = Resolved({c}, out), UNCHANGED <<ready, parked>>
      PROVE  PoolInv'
  <2>1. /\ future' \in [Crops -> Outcomes \cup {"empty"}] /\ Awaited' = Awaited \ {c}
        /\ \A d \in Crops : future[d] # "empty" => future'[d] # "empty"
        /\ \A d \in Crops : d \notin Awaited /\ d \notin {c} => future'[d] = future[d]
    BY <1>1, <1>9, ResolvedAnswers
  <2>2. Parked' = Parked
    BY <1>9 DEF Parked
  <2>3. TypeOK'
    <3> HIDE DEF Complete
    <3> QED BY <1>1, <1>5, <1>6, <1>7, <1>9, <2>1 DEF TypeOK
  <2>4. Apart'
    BY <1>1, <1>3, <1>4, <1>9, <2>1, <2>2 DEF Apart
  <2>5. Callers'
    BY <1>1, <1>4, <2>1 DEF Callers, Awaited
  <2>6. Tries'
    BY <1>1, <1>3, <2>2 DEF Tries
  <2> QED BY <1>5, <1>8, <2>3, <2>4, <2>5, <2>6
<1>10. CASE transfer[c] = "ok" /\ future' = Resolved({c}, "ok") /\ UNCHANGED <<ready, parked>>
  BY <1>9, <1>10 DEF Outcomes
<1>11. CASE transfer[c] # "ok" /\ future' = Resolved({c}, "failed") /\ UNCHANGED <<ready, parked>>
  BY <1>9, <1>11 DEF Outcomes
<1>12. CASE /\ transfer[c] = "transient" /\ ~stop /\ attempts[c] <= MaxRetries
            /\ ready' = [ready EXCEPT ![c] = "later"]
            /\ parked' = Append(parked, c) /\ UNCHANGED future
  <2>1. parked' \in Seq(Crops) /\ Parked' = Parked \cup {c} /\ NoRepeats(parked')
    BY <1>4, <1>12, AppendedList DEF TypeOK, Parked, Apart
  <2>2. Awaited' = Awaited
    BY <1>1, <1>12 DEF Awaited
  <2>3. ready' \in [Crops -> {"now", "later"}]
    BY <1>12 DEF TypeOK
  <2>4. TypeOK'
    <3> HIDE DEF Complete
    <3> QED BY <1>1, <1>5, <1>6, <1>7, <1>12, <2>1, <2>3 DEF TypeOK
  <2>5. Apart'
    BY <1>1, <1>3, <1>4, <2>1, <2>2 DEF Apart
  <2>6. Callers'
    BY <1>1, <1>12 DEF Callers
  <2>7. Tries'
    BY <1>1, <1>3, <1>12, <2>1 DEF Tries
  <2> QED BY <1>5, <1>8, <2>4, <2>5, <2>6, <2>7
<1> QED BY <1>10, <1>11, <1>12

LEMMA EndsKeep ==
  ASSUME PoolInv, DispatchEnds \/ HarvestEnds
  PROVE  PoolInv'
<1> USE DEF PoolInv, DispatchEnds, HarvestEnds, WorkerOnly, handles, life
<1>1. Held' = Held /\ Awaited' = Awaited /\ Queued' = Queued /\ Parked' = Parked
  BY DEF Held, Awaited, Queued, Parked
<1>2. TypeOK'
  BY DEF TypeOK
<1>3. Apart' /\ Tries' /\ Callers'
  BY <1>1 DEF Apart, Tries, Callers
<1>4. pc' \in {"drain", "exited"} => stop
  BY DEF Stages
<1>5. pc' = "exited" => Held = {}
  BY DEF HarvestEnds, Held, TypeOK
<1>6. pc \notin {"exited", "absent"} /\ pc' \in {"perform", "harvest", "loop", "drain", "exited"}
  OBVIOUS
<1>7. Stages'
  BY <1>1, <1>4, <1>5, <1>6 DEF Stages
<1> QED BY <1>1, <1>2, <1>3, <1>7, HeldSame

----------------------------------------------------------------------------
(* The shutdown and time.                                                  *)

LEMMA ShutdownKeeps ==
  ASSUME PoolInv, Shutdown
  PROVE  PoolInv'
<1> USE DEF PoolInv, Shutdown, request, handles
<1>1. Held' = Held /\ Awaited' = Awaited /\ Queued' = Queued /\ Parked' = Parked
  BY DEF Held, Awaited, Queued, Parked
<1>2. TypeOK'
  BY DEF TypeOK
<1>3. Apart' /\ Tries' /\ Callers'
  BY <1>1 DEF Apart, Tries, Callers
<1>4. Stages'
  BY <1>1 DEF Stages
<1> QED BY <1>1, <1>2, <1>3, <1>4, HeldSame

LEMMA DrainRetriesKeeps ==
  ASSUME PoolInv, DrainRetries
  PROVE  PoolInv'
<1> USE DEF PoolInv, DrainRetries, request, handles
<1>1. Held' = Held /\ Held = {} /\ Queued' = Queued
  BY DEF Held, Queued, Stages
<1>2. ParkedCrops = Parked
  BY ListMembers DEF ParkedCrops, Parked, TypeOK
<1>3. /\ future' \in [Crops -> Outcomes \cup {"empty"}] /\ Awaited' = Awaited \ Parked
      /\ \A d \in Crops : future[d] # "empty" => future'[d] # "empty"
      /\ \A d \in Crops : d \notin Awaited /\ d \notin Parked => future'[d] = future[d]
  <2>1. "failed" \in Outcomes
    BY DEF Outcomes
  <2> QED BY <1>2, <2>1, ResolvedAnswers
<1>4. parked' = <<>> /\ parked' \in Seq(Crops) /\ Parked' = {} /\ NoRepeats(parked')
  BY EmptyList DEF Parked
<1>5. TypeOK'
  BY <1>3, <1>4 DEF TypeOK
<1>6. Apart'
  BY <1>1, <1>3, <1>4 DEF Apart
<1>7. Parked \subseteq Awaited
  BY DEF Apart
<1>8. Callers'
  BY <1>3, <1>7 DEF Callers, Awaited
<1>9. Tries'
  BY <1>1, <1>4 DEF Tries
<1>10. Stages'
  BY <1>1, <1>4 DEF Stages
<1> QED BY <1>1, <1>5, <1>6, <1>8, <1>9, <1>10, HeldSame

LEMMA DrainQueueKeeps ==
  ASSUME PoolInv, DrainQueue
  PROVE  PoolInv'
<1> USE DEF PoolInv, DrainQueue, request, handles
<1>1. Held' = Held /\ Parked' = Parked
  BY DEF Held, Parked
<1>2. ToSet(queue) = Queued
  BY ListMembers DEF Queued, TypeOK
<1>3. /\ future' \in [Crops -> Outcomes \cup {"empty"}] /\ Awaited' = Awaited \ Queued
      /\ \A d \in Crops : future[d] # "empty" => future'[d] # "empty"
      /\ \A d \in Crops : d \notin Awaited /\ d \notin Queued => future'[d] = future[d]
  <2>1. "failed" \in Outcomes
    BY DEF Outcomes
  <2> QED BY <1>2, <2>1, ResolvedAnswers
<1>4. queue' = <<>> /\ queue' \in Seq(Crops) /\ Queued' = {} /\ NoRepeats(queue')
  BY EmptyList DEF Queued
<1>5. TypeOK'
  BY <1>3, <1>4 DEF TypeOK
<1>6. Apart'
  BY <1>1, <1>3, <1>4 DEF Apart
<1>7. Queued \subseteq Awaited
  BY DEF Apart
<1>8. Callers'
  BY <1>3, <1>7 DEF Callers, Awaited
<1>9. Tries'
  BY <1>1, <1>4 DEF Tries
<1>10. Stages'
  BY <1>1, <1>4 DEF Stages
<1> QED BY <1>1, <1>5, <1>6, <1>8, <1>9, <1>10, HeldSame

LEMMA TimeKeeps ==
  ASSUME PoolInv, NEW c \in Crops, BackoffEnds(c) \/ BudgetEnds(c)
  PROVE  PoolInv'
<1> USE DEF PoolInv, BackoffEnds, BudgetEnds, handles, life
<1>1. Held' = Held /\ Awaited' = Awaited /\ Queued' = Queued /\ Parked' = Parked
  BY DEF Held, Awaited, Queued, Parked
<1>2. ready' \in [Crops -> {"now", "later"}]
  <2>1. CASE BackoffEnds(c)
    BY <2>1 DEF TypeOK
  <2>2. CASE BudgetEnds(c)
    BY <2>2 DEF TypeOK
  <2> QED BY <2>1, <2>2
<1>3. budget' \in [Crops -> {"none", "ahead", "past"}]
  <2>1. CASE BackoffEnds(c)
    BY <2>1 DEF TypeOK
  <2>2. CASE BudgetEnds(c)
    BY <2>2 DEF TypeOK
  <2> QED BY <2>1, <2>2
<1>4. TypeOK'
  BY <1>2, <1>3 DEF TypeOK
<1>5. Apart' /\ Tries' /\ Callers'
  BY <1>1 DEF Apart, Tries, Callers
<1>6. Stages'
  BY <1>1 DEF Stages
<1> QED BY <1>1, <1>4, <1>5, <1>6, HeldSame

----------------------------------------------------------------------------
(* Theorems.                                                               *)

LEMMA PoolInvNext == PoolInv /\ [Next]_vars => PoolInv'
<1> SUFFICES ASSUME PoolInv, [Next]_vars PROVE PoolInv'
  OBVIOUS
<1>1. CASE UNCHANGED vars
  BY <1>1 DEF vars, request, handles, life, PoolInv, TypeOK, SlotsCounted, Apart, Callers,
              Tries, Stages, Queued, Parked, Held, Awaited
<1>2. ASSUME NEW c \in Crops, Build(c) \/ Submit(c) PROVE PoolInv'
  BY <1>2, BuildKeeps, SubmitKeeps
<1>3. CASE Worker
  BY <1>3, LoopHeadKeeps, DispatchKeeps, PerformKeeps, CompleteKeeps, EndsKeep DEF Worker
<1>4. CASE Shutdown \/ DrainRetries \/ DrainQueue
  BY <1>4, ShutdownKeeps, DrainRetriesKeeps, DrainQueueKeeps
<1>5. ASSUME NEW c \in Crops, BackoffEnds(c) \/ BudgetEnds(c) PROVE PoolInv'
  BY <1>5, TimeKeeps
<1> QED BY <1>1, <1>2, <1>3, <1>4, <1>5 DEF Next, Over

\* PoolInv holds in every reachable state: the inductive invariant that the
\* safety of VlmCropPool and its refinement rest on.
THEOREM PoolInvariant == Spec => []PoolInv
BY PoolInvInit, PoolInvNext, PTL DEF Spec

\* A list without repeats holds a crop once or not at all.
LEMMA StandsOnce ==
  ASSUME NEW q \in Seq(Crops), NoRepeats(q), NEW c \in Crops
  PROVE  Cardinality({i \in 1 .. Len(q) : q[i] = c}) = IF c \in Members(q) THEN 1 ELSE 0
<1> DEFINE at == {i \in 1 .. Len(q) : q[i] = c}
<1>1. CASE c \in Members(q)
  <2>1. PICK i \in 1 .. Len(q) : q[i] = c
    BY <1>1 DEF Members
  <2>2. at = {i}
    BY <2>1 DEF NoRepeats
  <2>3. Cardinality(at) = 1
    BY <2>2, FS_Singleton
  <2> QED BY <1>1, <2>3
<1>2. CASE c \notin Members(q)
  <2>1. at = {}
    BY <1>2 DEF Members
  <2>2. Cardinality(at) = 0
    BY <2>1, FS_EmptySet
  <2> QED BY <1>2, <2>2
<1> QED BY <1>1, <1>2

LEMMA InvGivesOnePlace == PoolInv => OnePlace
<1> SUFFICES ASSUME PoolInv, NEW c \in Crops
             PROVE  Places(c) = IF call[c] = "queued" /\ future[c] = "empty" THEN 1 ELSE 0
  BY DEF OnePlace
<1>1. Cardinality({i \in 1 .. Len(queue) : queue[i] = c}) = IF c \in Queued THEN 1 ELSE 0
  BY StandsOnce DEF PoolInv, TypeOK, Apart, Queued
<1>2. Cardinality({i \in 1 .. Len(parked) : parked[i] = c}) = IF c \in Parked THEN 1 ELSE 0
  BY StandsOnce DEF PoolInv, TypeOK, Apart, Parked
<1>3. Places(c) = (IF c \in Queued THEN 1 ELSE 0) + (IF c \in Parked THEN 1 ELSE 0)
                  + (IF c \in Held THEN 1 ELSE 0)
  BY <1>1, <1>2 DEF Places, Held
<1>4. Places(c) = IF c \in Awaited THEN 1 ELSE 0
  BY <1>3 DEF PoolInv, Apart
<1> QED BY <1>4 DEF Awaited

\* Safety: every crop that is awaited stands in exactly one of the queue, the
\* retry list and the handles; in_flight_ counts the handles and stays under
\* VLM_GLOBAL_CONCURRENCY; no crop is sent more often than VLM_MAX_RETRIES
\* allows; and shutdown() leaves no caller waiting.
THEOREM PoolSafe == Spec => []Safety
<1>1. PoolInv => Safety
  <2> SUFFICES ASSUME PoolInv PROVE Safety
    OBVIOUS
  <2>1. AttemptsBounded
    BY DEF PoolInv, Tries, AttemptsBounded
  <2>2. AnsweredAtShutdown
    <3> SUFFICES ASSUME shut = "done", NEW c \in Crops, call[c] \in {"queued", "refused"}
                 PROVE  future[c] # "empty"
      BY DEF AnsweredAtShutdown
    <3>1. Held = {} /\ Queued = {} /\ Parked = {}
      BY EmptyList DEF PoolInv, Stages, Queued, Parked
    <3>2. Awaited = {}
      BY <3>1 DEF PoolInv, Apart
    <3> QED BY <3>2 DEF Awaited, PoolInv, Callers
  <2> QED BY <2>1, <2>2, InvGivesOnePlace DEF PoolInv, Safety
<1> QED BY <1>1, PoolInvariant, PTL

\* WakeWriteSafe: submit() writes to the wake descriptor only while it is open,
\* since it tests stop_ under the mutex that shutdown() closes it under.
THEOREM WakeWritesAreSafe == Spec => WakeWriteSafe
<1>1. PoolInv /\ [Next]_vars =>
        [\A c \in Crops : call[c] = "built" /\ call'[c] = "queued" => fd = "open"]_vars
  <2> SUFFICES ASSUME PoolInv, [Next]_vars, NEW c \in Crops, call[c] = "built", call'[c] = "queued"
               PROVE  fd = "open"
    OBVIOUS
  <2>1. PICK d \in Crops : Submit(d)
    <3>1. call' # call
      OBVIOUS
    <3>2. \A d \in Crops : ~ Build(d)
      BY DEF Build, PoolInv, TypeOK
    <3> QED BY <3>1, <3>2 DEF Next, Worker, LoopHead, Dispatch, DispatchEnds, Perform, Complete,
                HarvestEnds, WorkerOnly, Shutdown, DrainRetries, DrainQueue, BackoffEnds,
                BudgetEnds, Over, vars
  <2>2. d = c
    BY <2>1 DEF Submit, PoolInv, TypeOK
  <2>3. ~stop
    BY <2>1, <2>2 DEF Submit, SeesStop, PoolInv, TypeOK
  <2> QED BY <2>3 DEF PoolInv, Stages, TypeOK
<1> QED BY <1>1, PoolInvariant, PTL DEF Spec, WakeWriteSafe

----------------------------------------------------------------------------
(* The pool implements the one-outcome service of its callers.             *)

Service == [AbstractCrops!Next]_AbstractCrops!resolverVars

LEMMA ServiceStutters ==
  ASSUME future' = future,
         \A c \in Crops : call'[c] \in {"queued", "refused"} <=> call[c] \in {"queued", "refused"}
  PROVE  Service
BY DEF Service, AbstractCrops!resolverVars

LEMMA ServiceResolves ==
  ASSUME PoolInv, call' = call, NEW S, S \subseteq Awaited,
         NEW out \in Outcomes, future' = Resolved(S, out)
  PROVE  Service
<1>1. S \subseteq Crops /\ \A c \in S : future[c] = "empty" /\ call[c] = "queued"
  BY DEF Awaited
<1>2. CASE S = {}
  <2>1. future' = future
    BY <1>2 DEF Resolved, PoolInv, TypeOK
  <2> QED BY <2>1, ServiceStutters
<1>3. CASE S # {}
  <2> DEFINE o == [c \in S |-> out]
  <2>1. o \in [S -> Outcomes]
    OBVIOUS
  <2>2. future' = [r \in Crops |-> IF r \in S THEN o[r] ELSE future[r]]
    BY <1>1 DEF Resolved
  <2> HIDE DEF o
  <2>3. AbstractCrops!Resolve(S)
    BY <1>1, <1>3, <2>1, <2>2 DEF AbstractCrops!Resolve
  <2> QED BY <1>1, <2>3 DEF Service, AbstractCrops!Next
<1> QED BY <1>2, <1>3

LEMMA SubmitServes ==
  ASSUME PoolInv, NEW c \in Crops, Submit(c)
  PROVE  Service
<1> DEFINE Taken == {d \in Crops : call[d] \in {"queued", "refused"}}
<1>1. c \in Crops \ Taken /\ future[c] = "empty"
  BY DEF Submit, PoolInv, Callers
<1>2. CASE call' = [call EXCEPT ![c] = "refused"] /\ future' = Resolved({c}, "failed")
  <2>1. Taken' = Taken \cup {c}
    BY <1>2 DEF PoolInv, TypeOK
  <2>2. future' = [future EXCEPT ![c] = "failed"]
    BY <1>1, <1>2 DEF Resolved, PoolInv, TypeOK
  <2>3. AbstractCrops!Refuse(c, "failed")
    BY <1>1, <2>1, <2>2 DEF AbstractCrops!Refuse
  <2> QED BY <2>3 DEF Service, AbstractCrops!Next, Outcomes
<1>3. CASE call' = [call EXCEPT ![c] = "queued"] /\ UNCHANGED future
  <2>1. Taken' = Taken \cup {c}
    BY <1>3 DEF PoolInv, TypeOK
  <2>2. AbstractCrops!Accept(c)
    BY <1>1, <1>3, <2>1 DEF AbstractCrops!Accept
  <2> QED BY <2>2 DEF Service, AbstractCrops!Next
<1> QED BY <1>2, <1>3 DEF Submit

LEMMA WorkerServes ==
  ASSUME PoolInv, Worker
  PROVE  Service
<1>1. "ok" \in Outcomes /\ "failed" \in Outcomes
  BY DEF Outcomes
<1>2. CASE Dispatch
  <2>1. Head(queue) \in Awaited /\ call' = call
    <3>1. queue # <<>> /\ call' = call
      BY <1>2 DEF Dispatch, WorkerOnly
    <3> QED BY <3>1, TailOfList DEF PoolInv, TypeOK, Apart, Queued
  <2>2. CASE future' = Resolved({Head(queue)}, "failed")
    BY <1>1, <2>1, <2>2, ServiceResolves
  <2>3. CASE future' = future
    BY <2>1, <2>3, ServiceStutters
  <2> QED BY <1>2, <2>2, <2>3 DEF Dispatch
<1>3. ASSUME NEW c \in Crops, Complete(c) PROVE Service
  <2>1. c \in Awaited /\ call' = call
    BY <1>3 DEF Complete, WorkerOnly, PoolInv, Apart, Held, Ended
  <2>2. CASE future' = Resolved({c}, "ok") \/ future' = Resolved({c}, "failed")
    BY <1>1, <2>1, <2>2, ServiceResolves
  <2>3. CASE future' = future
    BY <2>1, <2>3, ServiceStutters
  <2> QED BY <1>3, <2>2, <2>3 DEF Complete
<1>4. CASE LoopHead \/ DispatchEnds \/ Perform \/ HarvestEnds
  <2>1. future' = future /\ call' = call
    BY <1>4 DEF LoopHead, DispatchEnds, Perform, HarvestEnds, WorkerOnly
  <2> QED BY <2>1, ServiceStutters
<1> QED BY <1>2, <1>3, <1>4 DEF Worker

LEMMA ShutdownServes ==
  ASSUME PoolInv, Shutdown \/ DrainRetries \/ DrainQueue
  PROVE  Service
<1>1. CASE Shutdown
  <2>1. future' = future /\ call' = call
    BY <1>1 DEF Shutdown
  <2> QED BY <2>1, ServiceStutters
<1>2. "failed" \in Outcomes
  BY DEF Outcomes
<1>3. CASE DrainRetries
  <2>1. ParkedCrops \subseteq Awaited
    BY ListMembers DEF ParkedCrops, Parked, PoolInv, TypeOK, Apart
  <2> QED BY <1>2, <1>3, <2>1, ServiceResolves DEF DrainRetries
<1>4. CASE DrainQueue
  <2>1. ToSet(queue) \subseteq Awaited
    BY ListMembers DEF Queued, PoolInv, TypeOK, Apart
  <2> QED BY <1>2, <1>4, <2>1, ServiceResolves DEF DrainQueue
<1> QED BY <1>1, <1>3, <1>4

\* Every step of callers, worker, clock and shutdown() is a step of the
\* one-outcome service or leaves it alone: a submit accepts or refuses, the end
\* of a transfer, a failed dispatch and the two drains resolve.
THEOREM PoolImplementsResolver == Spec => AbstractCrops!Spec
<1>1. Init => AbstractCrops!Init
  BY DEF Init, AbstractCrops!Init
<1>2. PoolInv /\ [Next]_vars => Service
  <2> SUFFICES ASSUME PoolInv, [Next]_vars PROVE Service
    OBVIOUS
  <2>1. CASE UNCHANGED vars
    BY <2>1, ServiceStutters DEF vars
  <2>2. ASSUME NEW c \in Crops, Build(c) PROVE Service
    <3>1. /\ future' = future
          /\ call[c] = "idle" /\ \A d \in Crops : call'[d] = IF d = c THEN "built" ELSE call[d]
      BY <2>2 DEF Build, PoolInv, TypeOK
    <3> QED BY <3>1, ServiceStutters
  <2>3. ASSUME NEW c \in Crops, BackoffEnds(c) \/ BudgetEnds(c) PROVE Service
    <3>1. future' = future /\ call' = call
      BY <2>3 DEF BackoffEnds, BudgetEnds
    <3> QED BY <3>1, ServiceStutters
  <2> QED BY <2>1, <2>2, <2>3, SubmitServes, WorkerServes, ShutdownServes DEF Next, Over
<1> QED BY <1>1, <1>2, PoolInvariant, PTL DEF Spec, AbstractCrops!Spec, Service

====
