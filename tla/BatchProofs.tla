---- MODULE BatchProofs ----
(***************************************************************************)
(* Theorems of the batch routes, for any number of requests, images and    *)
(* workers, any chunk, and any limits of the environment.                  *)
(***************************************************************************)
EXTENDS Batch, SequenceTheorems, FunctionTheorems, FiniteSetTheorems, WellFoundedInduction, TLAPS

----------------------------------------------------------------------------
(* Lists of slots.                                                         *)

Members(q) == {q[i] : i \in 1 .. Len(q)}

\* No slot stands twice in the list.
NoRepeats(q) == \A i, j \in 1 .. Len(q) : q[i] = q[j] => i = j

\* A set of naturals has a least member: what induction is reduced to.
LEMMA LeastNatural ==
  ASSUME NEW T \in SUBSET Nat, T # {}
  PROVE  \E x \in T : \A y \in T : x <= y
<1> DEFINE R == {ss \in Nat \X Nat : ss[1] < ss[2]}
<1>1. IsWellFoundedOn(R, Nat)
  BY NatLessThanWellFounded, Zenon DEF OpToRel
<1>2. \E x \in T : \A y \in T : ~ (<<y, x>> \in R)
  <2> HIDE DEF R
  <2> QED BY <1>1, WFMin
<1>3. PICK x \in T : \A y \in T : ~ (<<y, x>> \in R)
  BY <1>2
<1>4. ASSUME NEW y \in T PROVE x <= y
  <2>1. x \in Nat /\ y \in Nat
    OBVIOUS
  <2>2. ~ (<<y, x>> \in R)
    BY <1>3
  <2>3. ~ (y < x)
    BY <2>1, <2>2
  <2> QED BY <2>1, <2>3
<1> QED BY <1>4

\* What holds of 0 and passes from each number to the next holds up to n.
LEMMA UpTo ==
  ASSUME NEW n \in Nat, NEW P, 0 \in P, \A k \in 1 .. n : k - 1 \in P => k \in P
  PROVE  \A k \in 0 .. n : k \in P
<1> DEFINE Bad == (0 .. n) \ P
<1> SUFFICES ASSUME Bad # {} PROVE FALSE
  OBVIOUS
<1>1. PICK m \in Bad : \A y \in Bad : m <= y
  <2>1. Bad \in SUBSET Nat
    OBVIOUS
  <2> HIDE DEF Bad
  <2> QED BY <2>1, LeastNatural
<1>2. m \in 1 .. n /\ m \notin P
  OBVIOUS
<1>3. m - 1 \in 0 .. n /\ ~ (m <= m - 1)
  BY <1>2
<1>4. m - 1 \in P
  BY <1>1, <1>3
<1> QED BY <1>2, <1>4

\* A function that is defined by recursion over 0 .. N exists.
LEMMA Recursion ==
  ASSUME NEW D, NEW z \in D, NEW N \in Nat, NEW step \in [1 .. N -> [D -> D]]
  PROVE  \E f \in [0 .. N -> D] : f[0] = z /\ \A k \in 1 .. N : f[k] = step[k][f[k - 1]]
<1> DEFINE Is(f, m) == f[0] = z /\ \A k \in 1 .. m : f[k] = step[k][f[k - 1]]
           P == {m \in 0 .. N : \E f \in [0 .. m -> D] : Is(f, m)}
<1>1. 0 \in P
  <2> DEFINE g == [k \in 0 .. 0 |-> z]
  <2>1. g \in [0 .. 0 -> D] /\ Is(g, 0)
    OBVIOUS
  <2> HIDE DEF g, Is
  <2> QED BY <2>1
<1>2. ASSUME NEW m \in 1 .. N, m - 1 \in P PROVE m \in P
  <2>1. PICK f \in [0 .. m - 1 -> D] : Is(f, m - 1)
    BY <1>2
  <2> DEFINE g == [k \in 0 .. m |-> IF k = m THEN step[m][f[m - 1]] ELSE f[k]]
  <2>2. f[m - 1] \in D /\ step[m][f[m - 1]] \in D
    OBVIOUS
  <2>3. g \in [0 .. m -> D]
    <3> SUFFICES ASSUME NEW k \in 0 .. m PROVE g[k] \in D
      OBVIOUS
    <3>1. CASE k = m
      BY <2>2, <3>1
    <3>2. CASE k # m
      BY <3>2
    <3> QED BY <3>1, <3>2
  <2>4. g[0] = z
    BY <2>1
  <2>5. ASSUME NEW k \in 1 .. m PROVE g[k] = step[k][g[k - 1]]
    <3>1. CASE k = m
      BY <3>1
    <3>2. CASE k # m
      <4>1. k \in 1 .. m - 1 /\ g[k] = f[k] /\ g[k - 1] = f[k - 1]
        BY <3>2
      <4> QED BY <2>1, <4>1
    <3> QED BY <3>1, <3>2
  <2>6. Is(g, m)
    BY <2>4, <2>5
  <2> HIDE DEF g, Is
  <2> QED BY <2>3, <2>6
<1>3. N \in P
  <2> HIDE DEF P
  <2>1. N \in 0 .. N
    OBVIOUS
  <2> QED BY <1>1, <1>2, <2>1, UpTo
<1> QED BY <1>3

LEMMA AppendedSlot ==
  ASSUME NEW S, NEW q \in Seq(S), NEW c \in S
  PROVE  /\ Append(q, c) \in Seq(S)
         /\ Members(Append(q, c)) = Members(q) \cup {c}
         /\ NoRepeats(q) /\ c \notin Members(q) => NoRepeats(Append(q, c))
<1> DEFINE a == Append(q, c)
<1>1. /\ a \in Seq(S) /\ Len(a) = Len(q) + 1 /\ Len(q) \in Nat
      /\ \A i \in 1 .. Len(q) : a[i] = q[i]
      /\ a[Len(q) + 1] = c
  BY AppendProperties, LenProperties
<1> HIDE DEF a
<1>2. Members(a) \subseteq Members(q) \cup {c}
  BY <1>1 DEF Members
<1>3. Members(q) \subseteq Members(a)
  BY <1>1 DEF Members
<1>4. c \in Members(a)
  BY <1>1 DEF Members
<1>5. ASSUME NoRepeats(q), c \notin Members(q) PROVE NoRepeats(a)
  <2> SUFFICES ASSUME NEW i \in 1 .. Len(a), NEW j \in 1 .. Len(a), a[i] = a[j]
               PROVE  i = j
    BY DEF NoRepeats
  <2>1. CASE i \in 1 .. Len(q) /\ j \in 1 .. Len(q)
    BY <1>1, <1>5, <2>1 DEF NoRepeats
  <2>2. CASE i = Len(q) + 1 /\ j \in 1 .. Len(q)
    BY <1>1, <1>5, <2>2 DEF Members
  <2>3. CASE i \in 1 .. Len(q) /\ j = Len(q) + 1
    BY <1>1, <1>5, <2>3 DEF Members
  <2>4. CASE i = Len(q) + 1 /\ j = Len(q) + 1
    BY <2>4
  <2> QED BY <1>1, <2>1, <2>2, <2>3, <2>4
<1> QED BY <1>1, <1>2, <1>3, <1>4, <1>5 DEF a

----------------------------------------------------------------------------
(* What the request thread has settled before inference.                   *)

Tags ==
  {"ok", "empty", "base64_decode_failed", "dimensions_too_large", "pixels_too_large",
   "batch_pixels_exceeded", "decode_failed", "inference_failed", "inference_timeout",
   "image_too_large"}
Positive == Nat \ {0}
FutureStates == {"none", "pending", "too_large", "error", "value"}
Request ==
  [surface : Surfaces, images : Seq(Image), tags : Seq(Tags), outs : Seq(Nat),
   todo : Seq(Nat), next : Positive, late : BOOLEAN,
   pc : {"new", "submit", "wait", "permits", "fan", "join", "replied"},
   reply : {"none", "200", "400", "503", "504"}]
Task ==
  [st : {"none", "running", "done", "busy"}, offset : Nat, outs : Seq(Nat), errs : Seq(Tags)]
WorkerState ==
  [at : {"none", "acquire", "claim", "run", "gone"}, k : Nat, holds : BOOLEAN,
   permit : BOOLEAN]


\* The walk over the tags that lists the slots without one, as the function it is.
Listing(tags, n, f) ==
  f = [k \in 0 .. n |->
        IF k = 0 THEN <<>>
        ELSE IF tags[k] = NoTag THEN Append(f[k - 1], k) ELSE f[k - 1]]

\* The list of the slots without a tag holds each of them once and no other.
LEMMA UntouchedList ==
  ASSUME NEW tags, NEW n \in Nat, Len(tags) = n
  PROVE  /\ Untouched(tags) \in Seq(1 .. n)
         /\ Members(Untouched(tags)) = {i \in 1 .. n : tags[i] = NoTag}
         /\ NoRepeats(Untouched(tags))
<1> DEFINE S == 1 .. n
           step == [k \in 1 .. n |-> [q \in Seq(S) |->
                      IF tags[k] = NoTag THEN Append(q, k) ELSE q]]
           up == CHOOSE f : Listing(tags, n, f)
<1>1. \E f \in [0 .. n -> Seq(S)] : Listing(tags, n, f)
  <2>1. step \in [1 .. n -> [Seq(S) -> Seq(S)]]
    BY AppendProperties
  <2>2. <<>> \in Seq(S)
    OBVIOUS
  <2>3. PICK f \in [0 .. n -> Seq(S)] :
           f[0] = <<>> /\ \A k \in 1 .. n : f[k] = step[k][f[k - 1]]
    <3> DEFINE D == Seq(S)
               z == <<>>
    <3>1. step \in [1 .. n -> [D -> D]] /\ z \in D
      BY <2>1, <2>2
    <3> HIDE DEF step, D, z
    <3>2. \E f \in [0 .. n -> D] : f[0] = z /\ \A k \in 1 .. n : f[k] = step[k][f[k - 1]]
      BY <3>1, Recursion
    <3> QED BY <3>2 DEF D, z
  <2>4. ASSUME NEW k \in 0 .. n
        PROVE  f[k] = IF k = 0 THEN <<>>
                      ELSE IF tags[k] = NoTag THEN Append(f[k - 1], k) ELSE f[k - 1]
    <3>1. CASE k = 0
      BY <2>3, <3>1
    <3>2. CASE k # 0
      <4>1. k \in 1 .. n /\ f[k - 1] \in Seq(S)
        BY <3>2
      <4> QED BY <2>3, <3>2, <4>1
    <3> QED BY <3>1, <3>2
  <2>5. Listing(tags, n, f)
    BY <2>4 DEF Listing
  <2> QED BY <2>5
<1>2. Listing(tags, n, up)
  BY <1>1
<1>3. Untouched(tags) = up[n]
  BY DEF Untouched, Listing
<1> HIDE DEF up
<1>4. /\ up[0] = <<>>
      /\ \A k \in 1 .. n :
           up[k] = IF tags[k] = NoTag THEN Append(up[k - 1], k) ELSE up[k - 1]
  <2>1. up[0] = <<>>
    BY <1>2 DEF Listing
  <2>2. ASSUME NEW k \in 1 .. n
        PROVE  up[k] = IF tags[k] = NoTag THEN Append(up[k - 1], k) ELSE up[k - 1]
    <3>1. k \in 0 .. n /\ k # 0
      OBVIOUS
    <3> QED BY <1>2, <3>1 DEF Listing
  <2> QED BY <2>1, <2>2
<1> DEFINE First(k) == {i \in 1 .. k : tags[i] = NoTag}
           Good(k) == /\ up[k] \in Seq(S) /\ Members(up[k]) = First(k)
                      /\ NoRepeats(up[k])
           P == {k \in 0 .. n : Good(k)}
<1>5. 0 \in P
  <2>1. Members(<<>>) = {} /\ NoRepeats(<<>>)
    BY DEF Members, NoRepeats
  <2>2. First(0) = {}
    OBVIOUS
  <2> HIDE DEF First
  <2>3. up[0] = <<>> /\ <<>> \in Seq(S)
    BY <1>4
  <2>4. Good(0)
    BY <2>1, <2>2, <2>3
  <2> QED BY <2>4
<1>6. ASSUME NEW m \in 1 .. n, m - 1 \in P PROVE m \in P
  <2>1. Good(m - 1) /\ m \in 0 .. n /\ m \in S
    BY <1>6
  <2>2. CASE tags[m] = NoTag
    <3>1. up[m] = Append(up[m - 1], m)
      BY <1>4, <2>2
    <3>2. First(m) = First(m - 1) \cup {m} /\ m \notin First(m - 1)
      BY <2>2
    <3> HIDE DEF First
    <3>3. Good(m)
      BY <2>1, <3>1, <3>2, AppendedSlot
    <3> QED BY <2>1, <3>3
  <2>3. CASE tags[m] # NoTag
    <3>1. up[m] = up[m - 1]
      BY <1>4, <2>3
    <3>2. First(m) = First(m - 1)
      BY <2>3
    <3> HIDE DEF First
    <3>3. Good(m)
      BY <2>1, <3>1, <3>2
    <3> QED BY <2>1, <3>3
  <2> QED BY <2>2, <2>3
<1>7. n \in P
  <2> HIDE DEF P
  <2>1. n \in 0 .. n
    OBVIOUS
  <2> QED BY <1>5, <1>6, <2>1, UpTo
<1> QED BY <1>3, <1>7

LEMMA ImagesListed ==
  ASSUME NEW images \in Seq(Image)
  PROVE  /\ Len(images) \in Nat /\ DOMAIN images = 1 .. Len(images)
         /\ \A i \in 1 .. Len(images) : images[i] \in Image
BY LenProperties, ElementOfSeq

LEMMA VerdictTags ==
  ASSUME NEW im \in Image
  PROVE  Verdict(im) \in {"ok", "dimensions_too_large", "pixels_too_large"}
BY DEF Verdict, NoTag, Image

\* A tag of the sniff is a tag, and only the budget can tag a blameless image.
LEMMA SniffedTag ==
  ASSUME NEW s \in Surfaces, NEW im \in Image, NEW tag \in Tags, NEW sum
  PROVE  /\ Sniffed(s, im, tag, sum) \in Tags
         /\ Sniffed(s, im, tag, sum) = NoTag => tag = NoTag
         /\ tag = NoTag /\ Verdict(im) = NoTag =>
              \/ Sniffed(s, im, tag, sum) = NoTag
              \/ Sniffed(s, im, tag, sum) = "batch_pixels_exceeded" /\ ~ DeviceJpeg(s, im)
BY VerdictTags DEF Sniffed, Tags, NoTag, HostDecoded

\* The running sum of the sniff, as the function it is.
Spending(s, images, tags, spent) ==
  spent = [i \in 0 .. Len(images) |->
            IF i = 0 THEN 0
            ELSE spent[i - 1]
                   + IF Counts(s, images[i], tags[i], spent[i - 1])
                     THEN images[i].pixels ELSE 0]

LEMMA SpendingExists ==
  ASSUME NEW s, NEW images \in Seq(Image), NEW tags
  PROVE  \E spent \in [0 .. Len(images) -> Nat] : Spending(s, images, tags, spent)
<1> DEFINE n == Len(images)
           step == [i \in 1 .. n |-> [x \in Nat |->
                      x + IF Counts(s, images[i], tags[i], x) THEN images[i].pixels ELSE 0]]
<1>1. n \in Nat /\ \A i \in 1 .. n : images[i].pixels \in Nat
  BY ImagesListed DEF Image
<1>2. step \in [1 .. n -> [Nat -> Nat]]
  BY <1>1
<1>3. PICK f \in [0 .. n -> Nat] : f[0] = 0 /\ \A i \in 1 .. n : f[i] = step[i][f[i - 1]]
  <2> DEFINE D == Nat
             z == 0
  <2>1. z \in D /\ n \in Nat /\ step \in [1 .. n -> [D -> D]]
    BY <1>1, <1>2
  <2> HIDE DEF step, n, D, z
  <2>2. \E f \in [0 .. n -> D] : f[0] = z /\ \A i \in 1 .. n : f[i] = step[i][f[i - 1]]
    BY <2>1, Recursion
  <2> QED BY <2>2 DEF D, z
<1>4. ASSUME NEW i \in 0 .. n
      PROVE  f[i] = IF i = 0 THEN 0
                    ELSE f[i - 1] + IF Counts(s, images[i], tags[i], f[i - 1])
                                    THEN images[i].pixels ELSE 0
  <2>1. CASE i = 0
    BY <1>3, <2>1
  <2>2. CASE i # 0
    <3>1. i \in 1 .. n /\ f[i - 1] \in Nat
      BY <1>1, <2>2
    <3> QED BY <1>3, <2>2, <3>1
  <2> QED BY <2>1, <2>2
<1> QED BY <1>4 DEF Spending

SniffedBy(s, images, tags, spent) ==
  [i \in DOMAIN images |-> Sniffed(s, images[i], tags[i], spent[i - 1])]

LEMMA SniffedList ==
  ASSUME NEW s, NEW images \in Seq(Image), NEW tags
  PROVE  \E spent :
           /\ Spending(s, images, tags, spent)
           /\ CheckDimsPre(s, images, tags) = SniffedBy(s, images, tags, spent)
<1> DEFINE up == CHOOSE f : Spending(s, images, tags, f)
<1>1. Spending(s, images, tags, up)
  BY SpendingExists
<1>2. CheckDimsPre(s, images, tags) = SniffedBy(s, images, tags, up)
  BY DEF CheckDimsPre, SniffedBy, Spending
<1> QED BY <1>1, <1>2

\* The tags a request thread settles on, and whom they can blame.
LEMMA SniffedTags ==
  ASSUME NEW s \in Surfaces, NEW images \in Seq(Image), NEW tags,
         \A i \in 1 .. Len(images) :
           tags[i] \in Tags /\ (Blameless(images[i]) => tags[i] = NoTag)
  PROVE  LET pre == CheckDimsPre(s, images, tags)
         IN  /\ DOMAIN pre = 1 .. Len(images)
             /\ \A i \in 1 .. Len(images) :
                  /\ pre[i] \in Tags
                  /\ Blameless(images[i]) =>
                       \/ pre[i] = NoTag
                       \/ pre[i] = "batch_pixels_exceeded" /\ ~ DeviceJpeg(s, images[i])
<1> DEFINE pre == CheckDimsPre(s, images, tags)
<1>1. PICK spent : pre = SniffedBy(s, images, tags, spent)
  BY SniffedList
<1>2. DOMAIN images = 1 .. Len(images)
  BY ImagesListed
<1> HIDE DEF pre
<1>3. ASSUME NEW i \in 1 .. Len(images)
      PROVE  /\ pre[i] \in Tags
             /\ Blameless(images[i]) =>
                  \/ pre[i] = NoTag
                  \/ pre[i] = "batch_pixels_exceeded" /\ ~ DeviceJpeg(s, images[i])
  <2>1. images[i] \in Image /\ tags[i] \in Tags
    BY ImagesListed
  <2>2. pre[i] = Sniffed(s, images[i], tags[i], spent[i - 1])
    BY <1>1, <1>2 DEF SniffedBy
  <2>3. Blameless(images[i]) => tags[i] = NoTag /\ Verdict(images[i]) = NoTag
    BY DEF Blameless
  <2> QED BY <2>1, <2>2, <2>3, SniffedTag
<1>4. DOMAIN pre = 1 .. Len(images)
  BY <1>1, <1>2 DEF SniffedBy
<1> QED BY <1>3, <1>4 DEF pre

LEMMA DecodedTag ==
  ASSUME NEW images \in Seq(Image), NEW tags, NEW i \in 1 .. Len(images), tags[i] \in Tags
  PROVE  LET t == DecodeImages(images, tags)[i]
         IN  /\ t \in Tags
             /\ tags[i] # NoTag => t = tags[i]
             /\ Blameless(images[i]) => t = tags[i]
<1>1. images[i] \in Image /\ i \in DOMAIN images
  BY ImagesListed
<1>2. Verdict(images[i]) \in Tags
  BY <1>1, VerdictTags DEF Tags
<1> QED BY <1>1, <1>2 DEF DecodeImages, Blameless, Tags, NoTag

LEMMA PreparedTags ==
  ASSUME NEW s \in Surfaces, NEW images \in Seq(Image)
  PROVE  LET t == Prepared(s, images)
         IN  /\ t \in Seq(Tags) /\ Len(t) = Len(images) /\ DOMAIN t = 1 .. Len(images)
             /\ \A i \in 1 .. Len(images) :
                  Blameless(images[i]) =>
                    \/ t[i] = NoTag
                    \/ t[i] = "batch_pixels_exceeded" /\ ~ DeviceJpeg(s, images[i])
<1> DEFINE n == Len(images)
           t == Prepared(s, images)
           sent == IF OverRpc(s) THEN Untagged(images) ELSE DecodeBase64(images)
           pre == CheckDimsPre(s, images, sent)
<1>1. n \in Nat /\ DOMAIN images = 1 .. n
  BY ImagesListed
<1>2. \A i \in 1 .. n : sent[i] \in Tags /\ (Blameless(images[i]) => sent[i] = NoTag)
  BY <1>1 DEF Untagged, DecodeBase64, Blameless, Tags, NoTag
<1> HIDE DEF sent
<1>3. /\ DOMAIN pre = 1 .. n
      /\ \A i \in 1 .. n :
           /\ pre[i] \in Tags
           /\ Blameless(images[i]) =>
                \/ pre[i] = NoTag
                \/ pre[i] = "batch_pixels_exceeded" /\ ~ DeviceJpeg(s, images[i])
  BY <1>2, SniffedTags
<1> HIDE DEF pre
<1>4. \A i \in 1 .. n : t[i] \in {pre[i], DecodeImages(images, pre)[i]}
  BY <1>1 DEF Prepared, pre, sent
<1>5. DOMAIN t = 1 .. n
  BY <1>1, <1>3 DEF Prepared, DecodeImages, pre, sent
<1>6. t \in [1 .. n -> Tags]
  <2>1. t = [i \in 1 .. n |-> t[i]]
    BY <1>1, <1>3 DEF Prepared, DecodeImages, pre, sent
  <2>2. \A i \in 1 .. n : t[i] \in Tags
    BY <1>3, <1>4, DecodedTag
  <2> HIDE DEF t
  <2> QED BY <2>1, <2>2
<1>7. ASSUME NEW i \in 1 .. n, Blameless(images[i])
      PROVE  \/ t[i] = NoTag
             \/ t[i] = "batch_pixels_exceeded" /\ ~ DeviceJpeg(s, images[i])
  <2>1. t[i] = pre[i]
    BY <1>3, <1>4, <1>7, DecodedTag
  <2> QED BY <1>3, <1>7, <2>1
<1> HIDE DEF t
<1>8. t \in Seq(Tags) /\ Len(t) = n
  BY <1>1, <1>6, IsASeq, LenProperties
<1> QED BY <1>5, <1>7, <1>8 DEF t

LEMMA SpendingBounded ==
  ASSUME NEW s, NEW images \in Seq(Image), NEW tags, NEW spent,
         Spending(s, images, tags, spent), s \in Surfaces, \A i \in 1 .. Len(images) : tags[i] \in Tags
  PROVE  \A i \in 0 .. Len(images) : spent[i] \in Nat /\ spent[i] <= PixelBudget
<1> DEFINE n == Len(images)
           P == {i \in 0 .. n : spent[i] \in Nat /\ spent[i] <= PixelBudget}
<1>1. n \in Nat /\ PixelBudget \in Nat
  BY ImagesListed, BatchAssumption
<1>2. 0 \in P
  <2>1. spent[0] = 0
    BY <1>1 DEF Spending
  <2> QED BY <1>1, <2>1
<1>3. ASSUME NEW i \in 1 .. n, i - 1 \in P PROVE i \in P
  <2>1. i \in 0 .. n /\ i # 0
    OBVIOUS
  <2>2. spent[i] = spent[i - 1] + IF Counts(s, images[i], tags[i], spent[i - 1])
                                  THEN images[i].pixels ELSE 0
    BY <2>1 DEF Spending
  <2>3. images[i].pixels \in Nat
    BY ImagesListed DEF Image
  <2>4. Counts(s, images[i], tags[i], spent[i - 1])
          => spent[i - 1] + images[i].pixels <= PixelBudget
    <3>1. HAVE Counts(s, images[i], tags[i], spent[i - 1])
    <3>2. /\ HostDecoded(s, images[i]) /\ images[i].sniffed
          /\ Sniffed(s, images[i], tags[i], spent[i - 1]) = NoTag
      BY <3>1 DEF Counts
    <3>3. ~ (spent[i - 1] + images[i].pixels > PixelBudget)
      BY <3>2 DEF Sniffed, NoTag
    <3> QED BY <1>1, <1>3, <2>3, <3>3
  <2> QED BY <1>1, <1>3, <2>1, <2>2, <2>3, <2>4
<1> HIDE DEF P
<1>4. \A i \in 0 .. n : i \in P
  BY <1>1, <1>2, <1>3, UpTo
<1> QED BY <1>4 DEF P

\* The decoded images of a batch, added up one by one, as the function it is.
IsHeld(s, images, todo, i) ==
  (\E j \in DOMAIN todo : todo[j] = i) /\ images[i].sniffed /\ HostDecoded(s, images[i])
Adding(s, images, todo, sum) ==
  sum = [i \in 0 .. Len(images) |->
          IF i = 0 THEN 0
          ELSE sum[i - 1] + IF IsHeld(s, images, todo, i) THEN images[i].pixels ELSE 0]

LEMMA AddingExists ==
  ASSUME NEW s, NEW images \in Seq(Image), NEW todo
  PROVE  \E sum : Adding(s, images, todo, sum)
<1> DEFINE n == Len(images)
           D == Nat
           z == 0
           step == [i \in 1 .. n |-> [x \in Nat |->
                      x + IF IsHeld(s, images, todo, i) THEN images[i].pixels ELSE 0]]
<1>1. n \in Nat /\ \A i \in 1 .. n : images[i].pixels \in Nat
  BY ImagesListed DEF Image
<1>2. z \in D /\ step \in [1 .. n -> [D -> D]]
  BY <1>1
<1>3. PICK f \in [0 .. n -> D] : f[0] = z /\ \A i \in 1 .. n : f[i] = step[i][f[i - 1]]
  <2>1. n \in Nat /\ z \in D /\ step \in [1 .. n -> [D -> D]]
    BY <1>1, <1>2
  <2> HIDE DEF step, n, D, z
  <2>2. \E f \in [0 .. n -> D] : f[0] = z /\ \A i \in 1 .. n : f[i] = step[i][f[i - 1]]
    BY <2>1, Recursion
  <2> QED BY <2>2
<1>4. ASSUME NEW i \in 0 .. n
      PROVE  f[i] = IF i = 0 THEN 0
                    ELSE f[i - 1] + IF IsHeld(s, images, todo, i) THEN images[i].pixels ELSE 0
  <2>1. CASE i = 0
    BY <1>3, <2>1
  <2>2. CASE i # 0
    <3>1. i \in 1 .. n /\ f[i - 1] \in Nat
      BY <1>1, <2>2
    <3> QED BY <1>3, <2>2, <3>1
  <2> QED BY <2>1, <2>2
<1> QED BY <1>4 DEF Adding

\* BudgetHeld of the slots that are left to a batch once it is prepared.
LEMMA WithinBudget ==
  ASSUME NEW s \in Surfaces, NEW images \in Seq(Image)
  PROVE  HeldPixels(s, images, Untouched(Prepared(s, images))) <= PixelBudget
<1> DEFINE n == Len(images)
           t == Prepared(s, images)
           todo == Untouched(t)
           sent == IF OverRpc(s) THEN Untagged(images) ELSE DecodeBase64(images)
           pre == CheckDimsPre(s, images, sent)
           sum == CHOOSE f : Adding(s, images, todo, f)
<1>1. n \in Nat /\ DOMAIN images = 1 .. n /\ PixelBudget \in Nat
  BY ImagesListed, BatchAssumption
<1>2. /\ \A i \in 1 .. n : sent[i] \in Tags
      /\ \A i \in 1 .. n : Blameless(images[i]) => sent[i] = NoTag
  BY <1>1 DEF Untagged, DecodeBase64, Blameless, Tags, NoTag
<1> HIDE DEF sent
<1>3. PICK spent : /\ Spending(s, images, sent, spent)
                   /\ pre = SniffedBy(s, images, sent, spent)
  BY SniffedList
<1>4. \A i \in 0 .. n : spent[i] \in Nat /\ spent[i] <= PixelBudget
  BY <1>2, <1>3, SpendingBounded
<1>5. \A i \in 1 .. n : pre[i] = Sniffed(s, images[i], sent[i], spent[i - 1])
  BY <1>1, <1>3 DEF SniffedBy
<1>6. \A i \in 1 .. n : pre[i] \in Tags
  BY <1>2, SniffedTags
<1>7. \A i \in 1 .. n : t[i] \in {pre[i], DecodeImages(images, pre)[i]}
  BY <1>1 DEF Prepared, pre, sent
<1> HIDE DEF pre
<1>8. \A i \in 1 .. n : t[i] = NoTag => pre[i] = NoTag
  BY <1>6, <1>7, DecodedTag
<1>9. Members(todo) = {i \in 1 .. n : t[i] = NoTag} /\ todo \in Seq(1 .. n)
  BY <1>1, PreparedTags, UntouchedList
<1> HIDE DEF t, todo
<1>10. ASSUME NEW i \in 1 .. n, IsHeld(s, images, todo, i)
       PROVE  Counts(s, images[i], sent[i], spent[i - 1])
  <2>1. i \in Members(todo)
    <3>1. DOMAIN todo = 1 .. Len(todo)
      BY <1>9, LenProperties
    <3> QED BY <1>10, <3>1 DEF IsHeld, Members
  <2>2. pre[i] = NoTag
    BY <1>8, <1>9, <2>1
  <2> QED BY <1>5, <1>10, <2>2 DEF Counts, IsHeld
<1>11. Adding(s, images, todo, sum)
  BY AddingExists
<1>12. HeldPixels(s, images, todo) = sum[n]
  BY DEF HeldPixels, Adding, IsHeld
<1> HIDE DEF sum
<1> DEFINE P == {i \in 0 .. n : sum[i] \in Nat /\ sum[i] <= spent[i]}
<1>13. 0 \in P
  <2>1. sum[0] = 0 /\ spent[0] = 0
    BY <1>1, <1>3, <1>11 DEF Spending, Adding
  <2> QED BY <1>1, <2>1
<1>14. ASSUME NEW i \in 1 .. n, i - 1 \in P PROVE i \in P
  <2>1. i \in 0 .. n /\ i # 0
    OBVIOUS
  <2>2. spent[i] = spent[i - 1] + IF Counts(s, images[i], sent[i], spent[i - 1])
                                  THEN images[i].pixels ELSE 0
    BY <1>3, <2>1 DEF Spending
  <2>3. sum[i] = sum[i - 1] + IF IsHeld(s, images, todo, i) THEN images[i].pixels ELSE 0
    BY <1>11, <2>1 DEF Adding
  <2>4. images[i].pixels \in Nat
    BY ImagesListed DEF Image
  <2>5. spent[i - 1] \in Nat /\ sum[i - 1] \in Nat /\ sum[i - 1] <= spent[i - 1]
    BY <1>4, <1>14
  <2> QED BY <1>10, <2>1, <2>2, <2>3, <2>4, <2>5
<1>15. n \in P
  <2> HIDE DEF P
  <2>1. n \in 0 .. n
    BY <1>1
  <2> QED BY <1>1, <1>13, <1>14, <2>1, UpTo
<1>16. sum[n] <= PixelBudget
  <2>1. spent[n] \in Nat /\ spent[n] <= PixelBudget /\ sum[n] \in Nat /\ sum[n] <= spent[n]
    BY <1>1, <1>4, <1>15
  <2> QED BY <1>1, <2>1
<1> QED BY <1>12, <1>16 DEF t, todo

----------------------------------------------------------------------------
(* The inductive invariant.                                                *)

TypeOK ==
  /\ req \in [Requests -> Request]
  /\ task \in [Requests -> Task]
  /\ futs \in [Requests -> Seq(FutureStates)]
  /\ workers \in [Requests -> Seq(WorkerState)]
  /\ permits \in [Surfaces -> Nat]
  /\ free \in Nat /\ faults \in Nat

Size(r) == Len(Images(r))
Begun(r) == req[r].pc # "new" /\ req[r].reply # "400"
Crew == 1 .. MaxWorkers

\* A request has a slot, a future and a crew once its images are prepared, and
\* works on the slots that were then without a tag.
Shape(r) ==
  /\ [surface |-> Surface(r), images |-> Images(r)] \in Batches
  /\ IF Begun(r)
     THEN /\ Size(r) > 0 /\ Len(req[r].tags) = Size(r) /\ Len(req[r].outs) = Size(r)
          /\ Len(futs[r]) = Size(r) /\ Len(workers[r]) = MaxWorkers
          /\ Todo(r) = Untouched(Prepared(Surface(r), Images(r)))
     ELSE /\ Todo(r) = <<>> /\ futs[r] = <<>> /\ workers[r] = <<>> /\ task[r].st = "none"

\* Which position of its handler a surface can be in, and when its task exists.
Stage(r) ==
  /\ req[r].pc = "replied" <=> req[r].reply # "none"
  /\ req[r].pc \in {"submit", "wait"} => OnGpu(Surface(r))
  /\ req[r].pc \in {"permits", "fan", "join"} => ~ OnGpu(Surface(r))
  /\ task[r].st # "none" => Surface(r) = "http_gpu"
  /\ req[r].pc = "new" => req[r].next = 1
  /\ req[r].pc = "submit" => task[r].st = "none"
  /\ req[r].pc = "wait" /\ Surface(r) = "http_gpu" => task[r].st # "none"

Open(r, i) == req[r].tags[i] = NoTag /\ req[r].outs[i] = 0
Settled(r, i) ==
  \/ req[r].outs[i] = i /\ req[r].tags[i] = NoTag
  \/ req[r].outs[i] = 0 /\ req[r].tags[i] # NoTag

\* A slot is open or settled; one without work was tagged before; those with
\* work are open until inference may begin, and none is in a reply.
Slotted(r) ==
  Begun(r) =>
    /\ \A i \in 1 .. Size(r) :
         /\ Open(r, i) \/ Settled(r, i)
         /\ i \notin Members(Todo(r)) => req[r].tags[i] # NoTag
    /\ req[r].reply = "200" => \A i \in 1 .. Size(r) : ~ Open(r, i)
    /\ req[r].pc \in {"submit", "permits"} \/ (req[r].pc = "wait" /\ Surface(r) = "http_gpu")
         => \A i \in Members(Todo(r)) : Open(r, i)

Excused(r, i) ==
  \/ req[r].tags[i] = NoTag
  \/ req[r].tags[i] = "batch_pixels_exceeded" /\ ~ DeviceJpeg(Surface(r), Images(r)[i])
  \/ req[r].tags[i] = "inference_timeout" /\ req[r].late
  \/ /\ req[r].tags[i] = "inference_failed"
     /\ \/ Surface(r) = "http_gpu" /\ Downstream(Images(r), Todo(r), i)
        \/ Surface(r) = "rpc_gpu" /\ \E m \in met : m.r = r /\ m.slot = i
\* A blameless image is tagged for the budget, the deadline or an error it met.
Blame(r) ==
  Begun(r) => \A i \in 1 .. Size(r) : Blameless(Images(r)[i]) => Excused(r, i)

\* What can cost an image of the task its result: itself or the run before it.
Costly(images, todo, j) ==
  images[todo[j]].runs = "faulty" \/ AfterAFailure(images, todo, j)

\* The task has an outcome for each image up to its offset and for none beyond.
Chunks(r) ==
  task[r].st # "none" =>
    /\ Len(task[r].outs) = Len(Todo(r)) /\ Len(task[r].errs) = Len(Todo(r))
    /\ task[r].st = "done" => task[r].offset >= Len(Todo(r))
    /\ task[r].st = "running" =>
         \E c \in Nat : task[r].offset = c * ChunkImages /\ c <= Len(Todo(r))
    /\ \A j \in 1 .. Len(Todo(r)) :
         \/ j > task[r].offset /\ task[r].errs[j] = NoTag /\ task[r].outs[j] = 0
         \/ j <= task[r].offset /\ task[r].errs[j] = NoTag /\ task[r].outs[j] = Todo(r)[j]
         \/ /\ j <= task[r].offset /\ task[r].errs[j] = "inference_failed"
            /\ task[r].outs[j] = 0 /\ Costly(Images(r), Todo(r), j)

Asked(r, i) == futs[r][i] = "none" <=> req[r].tags[i] # NoTag
\* A future fails for its image's sake or for an error it met; the slots before next are asked for, then
\* settled, in order.
Futures(r) ==
  Begun(r) =>
    /\ \A i \in 1 .. Size(r) :
         /\ futs[r][i] = "too_large" => Verdict(Images(r)[i]) # NoTag
         /\ futs[r][i] = "error" =>
              \/ Images(r)[i].runs = "faulty" \/ ~ Images(r)[i].decodes
              \/ \E m \in met : m.r = r /\ m.slot = i
    /\ req[r].pc = "submit" => \A i \in 1 .. Size(r) : i < req[r].next => Asked(r, i)
    /\ req[r].pc = "wait" /\ Surface(r) = "rpc_gpu" =>
         \A i \in 1 .. Size(r) :
           /\ i < req[r].next => ~ Open(r, i)
           /\ i >= req[r].next => Asked(r, i) /\ (i \in Members(Todo(r)) => Open(r, i))

\* The workers that have begun are the first ones; a pipeline is held exactly
\* while one is needed, a permit by every extra worker until it is gone.
Crewed(r) ==
  /\ \E u \in Nat : \A w \in DOMAIN workers[r] : workers[r][w].at # "none" <=> w <= u
  /\ req[r].pc \in {"new", "submit", "wait", "permits"} =>
       \A w \in DOMAIN workers[r] : workers[r][w].at = "none"
  /\ req[r].pc \in {"submit", "wait", "replied"} =>
       \A w \in DOMAIN workers[r] : ~ workers[r][w].permit
  /\ req[r].pc = "replied" =>
       \A w \in DOMAIN workers[r] : workers[r][w].at \in {"none", "gone"}
  /\ req[r].pc = "permits" =>
       \A w \in DOMAIN workers[r] : w > req[r].next => ~ workers[r][w].permit
  /\ \A w \in DOMAIN workers[r] :
       /\ workers[r][w].at \in {"none", "acquire", "gone"} => ~ workers[r][w].holds
       /\ workers[r][w].at = "run" => workers[r][w].holds
       /\ workers[r][w].at = "claim" => (workers[r][w].holds <=> Surface(r) = "http_cpu")
       /\ w > 1 /\ workers[r][w].at \notin {"none", "gone"} => workers[r][w].permit
       /\ workers[r][w].at = "none" /\ Surface(r) = "http_cpu" => ~ workers[r][w].permit

InHand(r, w) ==
  \/ workers[r][w].at = "run"
  \/ workers[r][w].at = "acquire" /\ Surface(r) = "rpc_cpu"
\* A slot before the shared counter is settled or in the hands of one worker; one
\* beyond it is untouched.
Claims(r) ==
  req[r].pc \in {"fan", "join"} =>
    /\ req[r].next > 0
    /\ \A w \in Crew : InHand(r, w) =>
         /\ workers[r][w].k \in 1 .. Len(Slots(r)) /\ workers[r][w].k < req[r].next
         /\ Open(r, Slots(r)[workers[r][w].k])
    /\ \A w, v \in Crew : InHand(r, w) /\ InHand(r, v) /\ workers[r][w].k = workers[r][v].k
         => w = v
    /\ \A k \in 1 .. Len(Slots(r)) :
         \/ k >= req[r].next /\ (Slots(r)[k] \in Members(Todo(r)) => Open(r, Slots(r)[k]))
         \/ k < req[r].next /\ ~ Open(r, Slots(r)[k])
         \/ k < req[r].next /\ \E w \in Crew : InHand(r, w) /\ workers[r][w].k = k
    /\ \A w \in Crew : workers[r][w].at = "gone" => req[r].next > Len(Slots(r))
    /\ req[r].pc = "fan" => NumWorkers(r) >= 1
    /\ req[r].pc = "join" /\ NumWorkers(r) >= 1 => workers[r][1].at # "none"


\* The permits and the pipelines are where the workers say they are.
Permitted(s) ==
  {x \in Requests \X Crew :
     Surface(x[1]) = s /\ x[2] \in DOMAIN workers[x[1]] /\ workers[x[1]][x[2]].permit}
Holding ==
  {x \in Requests \X Crew : x[2] \in DOMAIN workers[x[1]] /\ workers[x[1]][x[2]].holds}
Counted ==
  /\ \A s \in Surfaces : permits[s] + Cardinality(Permitted(s)) = Permits
  /\ free + Cardinality(Holding) = Pipelines

RequestInv(r) ==
  /\ Shape(r) /\ Stage(r) /\ Slotted(r) /\ Blame(r)
  /\ Chunks(r) /\ Futures(r) /\ Crewed(r) /\ Claims(r)

BatchInv == TypeOK /\ (\A r \in Requests : RequestInv(r)) /\ Counted

----------------------------------------------------------------------------
(* What a step does not touch.                                             *)

LEMMA OtherRequest ==
  ASSUME NEW d \in Requests, RequestInv(d),
         req'[d] = req[d], task'[d] = task[d], futs'[d] = futs[d], workers'[d] = workers[d],
         met \subseteq met'
  PROVE  RequestInv(d)'
<1>1. Shape(d)'
  BY DEF RequestInv, Shape, Begun, Size, Surface, Images, Todo
<1>2. Stage(d)'
  BY DEF RequestInv, Stage, Surface
<1>3. Slotted(d)'
  BY DEF RequestInv, Slotted, Begun, Size, Open, Settled, Surface, Images, Todo
<1>4. Blame(d)'
  BY DEF RequestInv, Blame, Begun, Size, Excused, Surface, Images, Todo
<1>5. Chunks(d)'
  BY DEF RequestInv, Chunks, ImageOf, Images, Todo
<1>6. Futures(d)'
  BY DEF RequestInv, Futures, Begun, Size, Asked, Open, Surface, Images, Todo
<1>7. Crewed(d)'
  BY DEF RequestInv, Crewed, Surface
<1>8. Claims(d)'
  <2>1. Surface(d)' = Surface(d) /\ Slots(d)' = Slots(d) /\ NumWorkers(d)' = NumWorkers(d)
    BY DEF Slots, NumWorkers, Surface, Images, Todo
  <2>2. \A w : InHand(d, w)' <=> InHand(d, w)
    BY <2>1 DEF InHand
  <2>3. \A i : Open(d, i)' <=> Open(d, i)
    BY DEF Open
  <2>4. Todo(d)' = Todo(d) /\ Claims(d)
    BY DEF Todo, RequestInv
  <2> QED BY <2>1, <2>2, <2>3, <2>4 DEF Claims
<1> QED BY <1>1, <1>2, <1>3, <1>4, <1>5, <1>6, <1>7, <1>8 DEF RequestInv

LEMMA OneRequest ==
  ASSUME BatchInv, NEW r \in Requests,
         \A d \in Requests \ {r} : /\ req'[d] = req[d] /\ task'[d] = task[d]
                                  /\ futs'[d] = futs[d] /\ workers'[d] = workers[d],
         TypeOK', RequestInv(r)', Counted', met \subseteq met'
  PROVE  BatchInv'
<1>1. ASSUME NEW d \in Requests, d # r PROVE RequestInv(d)'
  BY <1>1, OtherRequest DEF BatchInv
<1> QED BY <1>1 DEF BatchInv

LEMMA CountsKept ==
  ASSUME TypeOK, Counted, UNCHANGED <<workers, permits, free>>,
         \A d \in Requests : Surface(d)' = Surface(d)
  PROVE  Counted'
<1>1. \A s \in Surfaces : Permitted(s)' = Permitted(s)
  BY DEF Permitted
<1>2. Holding' = Holding
  BY DEF Holding
<1> QED BY <1>1, <1>2 DEF Counted

LEMMA ReplyStep ==
  ASSUME TypeOK, NEW r \in Requests, NEW status \in {"200", "400", "503", "504"},
         Reply(r, status)
  PROVE  /\ req' \in [Requests -> Request]
         /\ \A d \in Requests \ {r} : req'[d] = req[d]
         /\ Surface(r)' = Surface(r) /\ Images(r)' = Images(r) /\ Todo(r)' = Todo(r)
         /\ req'[r].tags = req[r].tags /\ req'[r].outs = req[r].outs
         /\ req'[r].next = req[r].next /\ req'[r].late = req[r].late
         /\ req'[r].pc = "replied" /\ req'[r].reply = status
<1> DEFINE q == [req[r] EXCEPT !.reply = status, !.pc = "replied"]
<1>1. req[r] \in Request
  BY DEF TypeOK
<1>2. /\ q \in Request
      /\ q.surface = req[r].surface /\ q.images = req[r].images /\ q.todo = req[r].todo
      /\ q.tags = req[r].tags /\ q.outs = req[r].outs
      /\ q.next = req[r].next /\ q.late = req[r].late
      /\ q.pc = "replied" /\ q.reply = status
  BY <1>1 DEF Request
<1>3. req' = [req EXCEPT ![r] = q]
  BY DEF TypeOK, Reply
<1> HIDE DEF q
<1>4. /\ req' \in [Requests -> Request] /\ req'[r] = q
      /\ \A d \in Requests \ {r} : req'[d] = req[d]
  BY <1>2, <1>3 DEF TypeOK
<1> QED BY <1>2, <1>4 DEF Surface, Images, Todo

\* A reply of the GPU surfaces: only status 200 promises anything of the slots.
LEMMA GpuReply ==
  ASSUME BatchInv, NEW r \in Requests, NEW status \in {"200", "503", "504"},
         req[r].pc \in {"submit", "wait"}, Reply(r, status),
         UNCHANGED <<task, futs, workers, permits, free, met>>, faults' \in Nat,
         status = "200" => \A i \in 1 .. Size(r) : ~ Open(r, i)
  PROVE  BatchInv'
<1>1. TypeOK /\ RequestInv(r) /\ Counted
  BY DEF BatchInv
<1>2. /\ req' \in [Requests -> Request]
      /\ \A d \in Requests \ {r} : req'[d] = req[d]
      /\ Surface(r)' = Surface(r) /\ Images(r)' = Images(r) /\ Todo(r)' = Todo(r)
      /\ req'[r].tags = req[r].tags /\ req'[r].outs = req[r].outs
      /\ req'[r].next = req[r].next /\ req'[r].late = req[r].late
      /\ req'[r].pc = "replied" /\ req'[r].reply = status
  BY <1>1, ReplyStep
<1>3. TypeOK'
  BY <1>1, <1>2 DEF TypeOK
<1>4. Counted'
  <2>1. \A d \in Requests : Surface(d)' = Surface(d)
    BY <1>2 DEF Surface
  <2> QED BY <1>1, <2>1, CountsKept
<1>5. Begun(r) /\ Begun(r)' /\ req[r].reply = "none" /\ OnGpu(Surface(r))
  BY <1>1, <1>2 DEF Begun, RequestInv, Stage
<1>6. Shape(r)' /\ Stage(r)'
  BY <1>1, <1>2, <1>5 DEF RequestInv, Shape, Stage, Size, OnGpu
<1>7. Slotted(r)' /\ Blame(r)'
  BY <1>1, <1>2, <1>5 DEF RequestInv, Slotted, Blame, Size, Open, Settled, Excused
<1>8. Chunks(r)' /\ Futures(r)'
  BY <1>1, <1>2, <1>5 DEF RequestInv, Chunks, ImageOf, Futures, Size, Asked
<1>9. Crewed(r)' /\ Claims(r)'
  BY <1>1, <1>2 DEF RequestInv, Crewed, Claims
<1> QED BY <1>1, <1>2, <1>3, <1>4, <1>6, <1>7, <1>8, <1>9, OneRequest DEF RequestInv

LEMMA ExpireKeeps ==
  ASSUME BatchInv, NEW r \in Requests, Expire(r)
  PROVE  BatchInv'
BY GpuReply DEF Expire, BatchInv, TypeOK, errors

\* The slots of a batch that has begun.
LEMMA BatchShape ==
  ASSUME TypeOK, NEW r \in Requests, Shape(r), Begun(r)
  PROVE  /\ Surface(r) \in Surfaces /\ Images(r) \in Seq(Image)
         /\ Size(r) \in Nat /\ DOMAIN Images(r) = 1 .. Size(r)
         /\ \A i \in 1 .. Size(r) : Images(r)[i] \in Image
         /\ DOMAIN req[r].tags = 1 .. Size(r) /\ DOMAIN req[r].outs = 1 .. Size(r)
         /\ \A i \in 1 .. Size(r) : req[r].tags[i] \in Tags /\ req[r].outs[i] \in Nat
         /\ Todo(r) \in Seq(1 .. Size(r)) /\ NoRepeats(Todo(r))
         /\ Len(Todo(r)) \in Nat /\ DOMAIN Todo(r) = 1 .. Len(Todo(r))
         /\ \A j \in 1 .. Len(Todo(r)) : Todo(r)[j] \in 1 .. Size(r)
         /\ DOMAIN futs[r] = 1 .. Size(r)
         /\ \A i \in 1 .. Size(r) : futs[r][i] \in FutureStates
         /\ DOMAIN workers[r] = Crew
         /\ \A w \in Crew : workers[r][w] \in WorkerState
<1>1. Surface(r) \in Surfaces /\ Images(r) \in Seq(Image) /\ req[r] \in Request
  BY DEF TypeOK, Request, Surface, Images
<1>2. /\ Size(r) \in Nat /\ DOMAIN Images(r) = 1 .. Size(r)
      /\ \A i \in 1 .. Size(r) : Images(r)[i] \in Image
  BY <1>1, ImagesListed DEF Size
<1>3. /\ req[r].tags \in Seq(Tags) /\ Len(req[r].tags) = Size(r)
      /\ req[r].outs \in Seq(Nat) /\ Len(req[r].outs) = Size(r)
  BY <1>1 DEF Request, Shape
<1>4. /\ DOMAIN req[r].tags = 1 .. Size(r) /\ DOMAIN req[r].outs = 1 .. Size(r)
      /\ \A i \in 1 .. Size(r) : req[r].tags[i] \in Tags /\ req[r].outs[i] \in Nat
  BY <1>3, LenProperties, ElementOfSeq
<1>5. Todo(r) \in Seq(1 .. Size(r)) /\ NoRepeats(Todo(r))
  <2>1. Todo(r) = Untouched(Prepared(Surface(r), Images(r)))
    BY DEF Shape
  <2>2. Len(Prepared(Surface(r), Images(r))) = Size(r)
    BY <1>1, PreparedTags DEF Size
  <2> QED BY <1>2, <2>1, <2>2, UntouchedList
<1>6. /\ Len(Todo(r)) \in Nat /\ DOMAIN Todo(r) = 1 .. Len(Todo(r))
      /\ \A j \in 1 .. Len(Todo(r)) : Todo(r)[j] \in 1 .. Size(r)
  BY <1>5, LenProperties, ElementOfSeq
<1>7. /\ futs[r] \in Seq(FutureStates) /\ Len(futs[r]) = Size(r)
      /\ workers[r] \in Seq(WorkerState) /\ Len(workers[r]) = MaxWorkers
  BY DEF TypeOK, Shape
<1>8. /\ DOMAIN futs[r] = 1 .. Size(r)
      /\ \A i \in 1 .. Size(r) : futs[r][i] \in FutureStates
      /\ DOMAIN workers[r] = Crew
      /\ \A w \in Crew : workers[r][w] \in WorkerState
  BY <1>7, LenProperties, ElementOfSeq DEF Crew
<1> QED BY <1>1, <1>2, <1>4, <1>5, <1>6, <1>8

LEMMA ListOf ==
  ASSUME NEW n \in Nat, NEW S, NEW f \in [1 .. n -> S]
  PROVE  f \in Seq(S) /\ Len(f) = n /\ DOMAIN f = 1 .. n
BY LenProperties

LEMMA MinOfTwo ==
  ASSUME NEW a \in Int, NEW b \in Int
  PROVE  Min({a, b}) = IF a <= b THEN a ELSE b
BY DEF Min

----------------------------------------------------------------------------
(* The task of POST /ocr/batch.                                            *)

LEMMA TaskStep ==
  ASSUME BatchInv, NEW r \in Requests, NEW t \in Task, task[r].st # "none", t.st # "none",
         task' = [task EXCEPT ![r] = t],
         UNCHANGED <<req, futs, workers, permits, free, met>>, faults' \in Nat, Chunks(r)'
  PROVE  BatchInv'
<1>1. TypeOK /\ RequestInv(r) /\ Counted
  BY DEF BatchInv
<1>2. task' \in [Requests -> Task] /\ task'[r] = t /\ \A d \in Requests \ {r} : task'[d] = task[d]
  BY <1>1 DEF TypeOK
<1>3. TypeOK'
  BY <1>1, <1>2 DEF TypeOK
<1>4. Counted'
  BY <1>1, CountsKept DEF Surface
<1>5. Begun(r) /\ Begun(r)'
  BY <1>1 DEF RequestInv, Shape, Begun
<1>6. Shape(r)'
  BY <1>1, <1>5 DEF RequestInv, Shape, Size, Surface, Images, Todo
<1>7. Stage(r)'
  BY <1>1, <1>2 DEF RequestInv, Stage, Surface
<1>8. Slotted(r)' /\ Blame(r)' /\ Futures(r)' /\ Crewed(r)'
  BY <1>1 DEF RequestInv, Slotted, Blame, Futures, Crewed, Begun, Size, Open, Settled, Excused,
              Asked, Surface, Images, Todo
<1>9. Claims(r)'
  <2>1. req[r].pc \notin {"fan", "join"}
    BY <1>1 DEF RequestInv, Stage, OnGpu
  <2> QED BY <2>1 DEF Claims
<1> QED BY <1>1, <1>2, <1>3, <1>4, <1>6, <1>7, <1>8, <1>9, OneRequest DEF RequestInv

LEMMA ChunkBounds ==
  ASSUME BatchInv, NEW r \in Requests, task[r].st = "running"
  PROVE  /\ Begun(r) /\ task[r] \in Task
         /\ Len(Todo(r)) \in Nat /\ DOMAIN Todo(r) = 1 .. Len(Todo(r))
         /\ \A j \in 1 .. Len(Todo(r)) :
              /\ Todo(r)[j] \in Nat
              /\ j \in Chunk(r) <=> task[r].offset < j /\ j <= task[r].offset + ChunkImages
         /\ \A j \in 1 .. Len(Todo(r)) :
              task[r].errs[j] \in Tags /\ task[r].outs[j] \in Nat
<1>1. TypeOK /\ RequestInv(r) /\ task[r] \in Task
  BY DEF BatchInv, TypeOK
<1>2. Begun(r)
  BY <1>1 DEF RequestInv, Shape
<1>3. /\ Len(Todo(r)) \in Nat /\ DOMAIN Todo(r) = 1 .. Len(Todo(r))
      /\ \A j \in 1 .. Len(Todo(r)) : Todo(r)[j] \in Nat
  <2>1. TypeOK /\ Shape(r) /\ Begun(r)
    BY <1>1, <1>2 DEF RequestInv
  <2> QED BY <2>1, BatchShape
<1>4. task[r].offset \in Nat /\ ChunkImages \in Nat
  BY <1>1, BatchAssumption DEF Task
<1>5. Min({task[r].offset + ChunkImages, Len(Todo(r))})
        = IF task[r].offset + ChunkImages <= Len(Todo(r)) THEN task[r].offset + ChunkImages
          ELSE Len(Todo(r))
  <2> DEFINE a == task[r].offset + ChunkImages
             b == Len(Todo(r))
  <2>1. a \in Int /\ b \in Int
    BY <1>3, <1>4
  <2> HIDE DEF a, b
  <2>2. Min({a, b}) = IF a <= b THEN a ELSE b
    BY <2>1, MinOfTwo
  <2> QED BY <2>2 DEF a, b
<1>6. \A j \in 1 .. Len(Todo(r)) :
        j \in Chunk(r) <=> task[r].offset < j /\ j <= task[r].offset + ChunkImages
  BY <1>3, <1>4, <1>5 DEF Chunk
<1>7. \A j \in 1 .. Len(Todo(r)) : task[r].errs[j] \in Tags /\ task[r].outs[j] \in Nat
  <2>1. /\ Len(task[r].outs) = Len(Todo(r)) /\ Len(task[r].errs) = Len(Todo(r))
        /\ task[r].outs \in Seq(Nat) /\ task[r].errs \in Seq(Tags)
    BY <1>1 DEF RequestInv, Chunks, Task
  <2> QED BY <2>1, ElementOfSeq
<1> QED BY <1>1, <1>2, <1>3, <1>6, <1>7

LEMMA OneOrMore ==
  ASSUME NEW a \in Nat, NEW k \in Nat \ {0}
  PROVE  a <= a * k
<1>1. k - 1 \in Nat /\ a * (k - 1) \in Nat
  OBVIOUS
<1>2. a * k = a * (k - 1) + a
  OBVIOUS
<1> QED BY <1>1, <1>2

\* A chunk begins where no other one is within its length.
LEMMA OwnChunk ==
  ASSUME NEW a \in Nat, NEW b \in Nat, NEW k \in Nat \ {0},
         a * k < b * k, b * k < a * k + k
  PROVE  FALSE
<1>1. CASE b <= a
  <2>1. (a - b) * k \in Nat /\ a * k = b * k + (a - b) * k
    BY <1>1
  <2> QED BY <2>1
<1>2. CASE b >= a + 1
  <2> DEFINE d == b - (a + 1)
  <2>1. d \in Nat /\ d * k \in Nat
    BY <1>2
  <2>2. b * k = a * k + k + d * k
    OBVIOUS
  <2> QED BY <2>1, <2>2
<1> QED BY <1>1, <1>2

LEMMA NextOfChunk ==
  ASSUME NEW o \in Int, NEW n \in Int, NEW j \in Int, NEW k \in Int,
         j = o + 1, o < k, k <= o + n, k # j
  PROVE  j + 1 <= k /\ k <= j + n - 1
OBVIOUS

\* An image that may meet an error on its retry runs just after a failed run.
LEMMA ExposedAfter ==
  ASSUME BatchInv, NEW r \in Requests, task[r].st = "running", Poisoned(r),
         NEW j \in Exposed(r), j \in 1 .. Len(Todo(r))
  PROVE  AfterAFailure(Images(r), Todo(r), j)
<1>1. /\ task[r] \in Task /\ Len(Todo(r)) \in Nat /\ Chunks(r)
      /\ \A k \in 1 .. Len(Todo(r)) :
           k \in Chunk(r) <=> task[r].offset < k /\ k <= task[r].offset + ChunkImages
  BY ChunkBounds DEF BatchInv, RequestInv
<1>2. ChunkImages \in Nat \ {0} /\ task[r].offset \in Nat
  BY <1>1, BatchAssumption DEF Task
<1>3. PICK c \in Nat : task[r].offset = c * ChunkImages /\ c <= Len(Todo(r))
  BY <1>1 DEF Chunks
<1>4. /\ j \in Chunk(r) /\ Images(r)[Todo(r)[j]].runs = "fine"
      /\ j = task[r].offset + 1 \/ Images(r)[Todo(r)[j - 1]].runs = "faulty"
  BY DEF Exposed, ImageOf
<1> DEFINE m == Len(Todo(r))
           first == {e * ChunkImages + 1 : e \in 0 .. m}
           others == (j + 1) .. Min({j + ChunkImages - 1, m})
<1>5. CASE j = task[r].offset + 1
  <2>1. j \in first
    BY <1>1, <1>3, <1>5
  <2>2. PICK k \in Chunk(r) : ImageOf(r, k).runs \in {"faulty", "poison"}
    BY DEF Poisoned
  <2>3. k \in Int /\ task[r].offset < k /\ k <= m /\ k <= task[r].offset + ChunkImages
    <3>1. Min({task[r].offset + ChunkImages, m})
            = IF task[r].offset + ChunkImages <= m THEN task[r].offset + ChunkImages ELSE m
      <4> DEFINE a == task[r].offset + ChunkImages
      <4>1. a \in Int /\ m \in Int
        BY <1>1, <1>2
      <4> HIDE DEF a, m
      <4>2. Min({a, m}) = IF a <= m THEN a ELSE m
        BY <4>1, MinOfTwo
      <4> QED BY <4>2 DEF a
    <3> QED BY <1>1, <1>2, <3>1 DEF Chunk
  <2>4. k # j
    BY <1>4, <2>2 DEF ImageOf
  <2>5. k \in others
    <3>1. Min({j + ChunkImages - 1, m})
            = IF j + ChunkImages - 1 <= m THEN j + ChunkImages - 1 ELSE m
      <4> DEFINE a == j + ChunkImages - 1
      <4>1. a \in Int /\ m \in Int
        BY <1>1, <1>2
      <4> HIDE DEF a, m
      <4>2. Min({a, m}) = IF a <= m THEN a ELSE m
        BY <4>1, MinOfTwo
      <4> QED BY <4>2 DEF a
    <3>2. PICK u : u = Min({j + ChunkImages - 1, m})
      OBVIOUS
    <3>3. j \in Int /\ m \in Int /\ ChunkImages \in Int
      BY <1>1, <1>2
    <3>4. j + 1 <= k /\ k <= j + ChunkImages - 1
      <4>1. PICK o \in Int : o = task[r].offset
        BY <1>2
      <4>2. k \in Int /\ j = o + 1 /\ o < k /\ k <= o + ChunkImages /\ k # j
        BY <1>5, <2>3, <2>4, <4>1
      <4> QED BY <3>3, <4>2, NextOfChunk
    <3>5. u \in Int /\ k <= u
      BY <2>3, <3>1, <3>2, <3>3, <3>4
    <3>6. k \in (j + 1) .. u
      BY <2>3, <3>3, <3>4, <3>5
    <3> QED BY <3>2, <3>6
  <2>6. Images(r)[Todo(r)[k]].runs # "fine"
    BY <2>2 DEF ImageOf
  <2> HIDE DEF first, others
  <2>7. \E l \in others : Images(r)[Todo(r)[l]].runs # "fine"
    BY <2>5, <2>6
  <2> QED BY <2>1, <2>7 DEF AfterAFailure, first, others
<1>6. CASE j # task[r].offset + 1
  <2>1. j \notin first
    <3> SUFFICES ASSUME NEW e \in 0 .. m, j = e * ChunkImages + 1 PROVE FALSE
      OBVIOUS
    <3>1. /\ e \in Nat /\ e * ChunkImages \in Nat /\ c * ChunkImages \in Nat
      BY <1>1, <1>2
    <3>2. c * ChunkImages < e * ChunkImages /\ e * ChunkImages < c * ChunkImages + ChunkImages
      BY <1>1, <1>2, <1>3, <1>4, <1>6, <3>1
    <3> QED BY <1>2, <3>1, <3>2, OwnChunk
  <2>2. Images(r)[Todo(r)[j - 1]].runs = "faulty"
    BY <1>4, <1>6
  <2> HIDE DEF first
  <2> QED BY <2>1, <2>2 DEF AfterAFailure, first
<1> QED BY <1>5, <1>6

\* A chunk that is done, whole or image by image, moves the offset past it.
LEMMA AdvanceKeeps ==
  ASSUME BatchInv, NEW r \in Requests, task[r].st = "running",
         NEW outs \in [1 .. Len(Todo(r)) -> Nat], NEW errs \in [1 .. Len(Todo(r)) -> Tags],
         Advance(r, outs, errs),
         UNCHANGED <<req, futs, workers, permits, free, met>>, faults' \in Nat,
         \A j \in 1 .. Len(Todo(r)) :
           IF j \in Chunk(r)
           THEN \/ errs[j] = NoTag /\ outs[j] = Todo(r)[j]
                \/ errs[j] = "inference_failed" /\ outs[j] = 0 /\ Costly(Images(r), Todo(r), j)
           ELSE errs[j] = task[r].errs[j] /\ outs[j] = task[r].outs[j]
  PROVE  BatchInv'
<1>1. /\ task[r] \in Task /\ Len(Todo(r)) \in Nat /\ Chunks(r)
      /\ \A j \in 1 .. Len(Todo(r)) :
           j \in Chunk(r) <=> task[r].offset < j /\ j <= task[r].offset + ChunkImages
  BY ChunkBounds DEF BatchInv, RequestInv
<1>2. ChunkImages \in Nat \ {0} /\ task[r].offset \in Nat
  BY <1>1, BatchAssumption DEF Task
<1> DEFINE last == task[r].offset + ChunkImages >= Len(Todo(r))
           t == [st |-> IF last THEN "done" ELSE "running",
                 offset |-> task[r].offset + ChunkImages, outs |-> outs, errs |-> errs]
<1>3. /\ outs \in Seq(Nat) /\ Len(outs) = Len(Todo(r))
      /\ errs \in Seq(Tags) /\ Len(errs) = Len(Todo(r))
  BY <1>1, ListOf
<1>4. t \in Task /\ t.st # "none"
  BY <1>2, <1>3 DEF Task
<1>5. task' = [task EXCEPT ![r] = t]
  BY DEF Advance
<1>6. task'[r] = t
  BY <1>5 DEF BatchInv, TypeOK
<1>7. Chunks(r)'
  <2>1. /\ task'[r].outs = outs /\ task'[r].errs = errs
        /\ task'[r].offset = task[r].offset + ChunkImages
        /\ task'[r].st = "done" => last
        /\ task'[r].st = "running" => ~ last
    BY <1>6
  <2>2. Todo(r)' = Todo(r) /\ Images(r)' = Images(r)
    BY DEF Todo, Images
  <2>3. ASSUME NEW j \in 1 .. Len(Todo(r))
        PROVE  \/ j > task'[r].offset /\ errs[j] = NoTag /\ outs[j] = 0
               \/ j <= task'[r].offset /\ errs[j] = NoTag /\ outs[j] = Todo(r)[j]
               \/ /\ j <= task'[r].offset /\ errs[j] = "inference_failed" /\ outs[j] = 0
                  /\ Costly(Images(r), Todo(r), j)
    <3>1. CASE j \in Chunk(r)
      BY <1>1, <1>2, <2>1, <3>1
    <3>2. CASE j \notin Chunk(r)
      BY <1>1, <1>2, <2>1, <3>2 DEF Chunks
    <3> QED BY <3>1, <3>2
  <2>4. ASSUME task'[r].st = "running"
        PROVE  \E c \in Nat : task'[r].offset = c * ChunkImages /\ c <= Len(Todo(r))
    <3>1. PICK c \in Nat : task[r].offset = c * ChunkImages /\ c <= Len(Todo(r))
      BY <1>1 DEF Chunks
    <3>2. (c + 1) * ChunkImages = c * ChunkImages + ChunkImages
      BY <1>2
    <3>3. task'[r].offset = (c + 1) * ChunkImages /\ task'[r].offset < Len(Todo(r))
      BY <1>1, <1>2, <2>1, <2>4, <3>1, <3>2
    <3>4. c + 1 <= (c + 1) * ChunkImages
      BY <1>2, OneOrMore
    <3>5. c + 1 \in Nat /\ c + 1 <= Len(Todo(r))
      BY <1>1, <1>2, <3>3, <3>4
    <3> QED BY <3>3, <3>5
  <2> HIDE DEF t
  <2> QED BY <1>3, <2>1, <2>2, <2>3, <2>4 DEF Chunks
<1> HIDE DEF t
<1> QED BY <1>4, <1>5, <1>7, TaskStep

LEMMA RunChunkKeeps ==
  ASSUME BatchInv, NEW r \in Requests, RunChunk(r)
  PROVE  BatchInv'
<1>1. /\ task[r].st = "running" /\ UNCHANGED <<req, futs, workers, permits, free, met>>
      /\ \A j \in Chunk(r) : ImageOf(r, j).runs # "wedged"
  BY DEF RunChunk
<1>2. /\ Begun(r) /\ task[r] \in Task
      /\ Len(Todo(r)) \in Nat /\ DOMAIN Todo(r) = 1 .. Len(Todo(r))
      /\ \A j \in 1 .. Len(Todo(r)) :
           /\ Todo(r)[j] \in Nat
           /\ j \in Chunk(r) <=> task[r].offset < j /\ j <= task[r].offset + ChunkImages
      /\ \A j \in 1 .. Len(Todo(r)) : task[r].errs[j] \in Tags /\ task[r].outs[j] \in Nat
  BY <1>1, ChunkBounds
<1>3. /\ Chunks(r) /\ faults \in Nat
      /\ \A j \in 1 .. Len(Todo(r)) :
           j \in Chunk(r) => task[r].errs[j] = NoTag /\ task[r].outs[j] = 0
  <2>1. Chunks(r) /\ faults \in Nat
    BY DEF BatchInv, RequestInv, TypeOK
  <2> QED BY <1>1, <1>2, <2>1 DEF Chunks, Task
<1>4. task[r].errs \in Seq(Tags) /\ Len(task[r].errs) = Len(Todo(r))
  BY <1>1, <1>2, <1>3 DEF Chunks, Task
<1>5. CASE /\ Advance(r, [j \in DOMAIN Todo(r) |->
                         IF j \in Chunk(r) THEN Todo(r)[j] ELSE task[r].outs[j]], task[r].errs)
           /\ UNCHANGED faults
  <2> DEFINE outs == [j \in DOMAIN Todo(r) |->
                        IF j \in Chunk(r) THEN Todo(r)[j] ELSE task[r].outs[j]]
             errs == task[r].errs
  <2>1. outs \in [1 .. Len(Todo(r)) -> Nat]
    BY <1>2
  <2>2. errs \in [1 .. Len(Todo(r)) -> Tags]
    BY <1>4, LenProperties
  <2>3. \A j \in 1 .. Len(Todo(r)) :
           IF j \in Chunk(r) THEN errs[j] = NoTag /\ outs[j] = Todo(r)[j]
           ELSE errs[j] = task[r].errs[j] /\ outs[j] = task[r].outs[j]
    BY <1>2, <1>3
  <2>4. Advance(r, outs, errs) /\ faults' \in Nat
    BY <1>3, <1>5
  <2> HIDE DEF outs, errs
  <2> QED BY <1>1, <2>1, <2>2, <2>3, <2>4, AdvanceKeeps
<1>6. ASSUME Poisoned(r), NEW hit \in SUBSET Exposed(r), UNCHANGED faults,
             Advance(r, RetriedOuts(r, hit), RetriedErrs(r, hit))
      PROVE  BatchInv'
  <2> DEFINE outs == RetriedOuts(r, hit)
             errs == RetriedErrs(r, hit)
  <2>1. outs \in [1 .. Len(Todo(r)) -> Nat]
    BY <1>2 DEF RetriedOuts
  <2>2. errs \in [1 .. Len(Todo(r)) -> Tags]
    BY <1>2 DEF RetriedErrs, Tags
  <2>3. ASSUME NEW j \in 1 .. Len(Todo(r)), RetryFails(r, j, hit)
        PROVE  Costly(Images(r), Todo(r), j)
    <3>1. CASE ImageOf(r, j).runs = "faulty"
      BY <3>1 DEF Costly, ImageOf
    <3>2. CASE j \in hit
      <4>1. AfterAFailure(Images(r), Todo(r), j)
        BY <1>1, <1>6, <3>2, ExposedAfter
      <4> QED BY <4>1 DEF Costly
    <3> QED BY <2>3, <3>1, <3>2 DEF RetryFails
  <2>4. \A j \in 1 .. Len(Todo(r)) :
           IF j \in Chunk(r)
           THEN \/ errs[j] = NoTag /\ outs[j] = Todo(r)[j]
                \/ errs[j] = "inference_failed" /\ outs[j] = 0 /\ Costly(Images(r), Todo(r), j)
           ELSE errs[j] = task[r].errs[j] /\ outs[j] = task[r].outs[j]
    BY <1>2, <1>3, <2>3 DEF RetriedErrs, RetriedOuts
  <2>5. Advance(r, outs, errs) /\ faults' \in Nat
    BY <1>3, <1>6
  <2> HIDE DEF outs, errs
  <2> QED BY <1>1, <2>1, <2>2, <2>4, <2>5, AdvanceKeeps
<1>7. CASE Faulty /\ task' = [task EXCEPT ![r].st = "busy"]
  <2> DEFINE t == [task[r] EXCEPT !.st = "busy"]
  <2>1. task' = [task EXCEPT ![r] = t]
    BY <1>7
  <2>2. /\ t \in Task /\ t.st = "busy" /\ t.outs = task[r].outs /\ t.errs = task[r].errs
        /\ t.offset = task[r].offset
    BY <1>2 DEF Task
  <2>3. task'[r] = t
    BY <2>1 DEF BatchInv, TypeOK
  <2> HIDE DEF t
  <2>4. Todo(r)' = Todo(r) /\ Images(r)' = Images(r)
    BY <1>1 DEF Todo, Images
  <2>5. Chunks(r)'
    BY <1>1, <1>3, <2>2, <2>3, <2>4 DEF Chunks
  <2>6. faults' \in Nat
    BY <1>3, <1>7 DEF Faulty
  <2> QED BY <1>1, <2>1, <2>2, <2>5, <2>6, TaskStep
<1> QED BY <1>5, <1>6, <1>7 DEF RunChunk

LEMMA SubmitKeeps ==
  ASSUME BatchInv, NEW r \in Requests, Submit(r)
  PROVE  BatchInv'
<1>1. /\ TypeOK /\ RequestInv(r) /\ Counted /\ faults \in Nat
      /\ req[r].pc = "submit" /\ Surface(r) = "http_gpu"
      /\ UNCHANGED <<futs, workers, permits, free, met>>
  BY DEF BatchInv, Submit, TypeOK, errors
<1>2. Begun(r) /\ req[r].reply = "none" /\ Shape(r)
  BY <1>1 DEF RequestInv, Stage, Begun
<1>3. CASE Todo(r) = <<>> /\ Reply(r, "200") /\ UNCHANGED <<task, faults>>
  <2>1. Members(Todo(r)) = {}
    BY <1>3 DEF Members
  <2>2. \A i \in 1 .. Size(r) : ~ Open(r, i)
    BY <1>1, <1>2, <2>1 DEF RequestInv, Slotted, Open
  <2> QED BY <1>1, <1>3, <2>2, GpuReply
<1>4. CASE Faulty /\ Reply(r, "503") /\ UNCHANGED task
  <2>1. faults' \in Nat
    BY <1>1, <1>4 DEF Faulty
  <2> QED BY <1>1, <1>4, <2>1, GpuReply
<1>5. CASE /\ task' = [task EXCEPT ![r] =
                [st |-> "running", offset |-> 0, outs |-> [j \in DOMAIN Todo(r) |-> 0],
                 errs |-> [j \in DOMAIN Todo(r) |-> NoTag]]]
           /\ req' = [req EXCEPT ![r].pc = "wait"]
           /\ UNCHANGED faults
  <2> DEFINE n == Len(Todo(r))
             t == [st |-> "running", offset |-> 0, outs |-> [j \in DOMAIN Todo(r) |-> 0],
                   errs |-> [j \in DOMAIN Todo(r) |-> NoTag]]
  <2>1. n \in Nat /\ DOMAIN Todo(r) = 1 .. n
    BY <1>1, <1>2, BatchShape
  <2>2. /\ t.outs \in [1 .. n -> Nat] /\ t.errs \in [1 .. n -> Tags]
        /\ \A j \in 1 .. n : t.outs[j] = 0 /\ t.errs[j] = NoTag
    BY <2>1 DEF Tags, NoTag
  <2>3. /\ t.outs \in Seq(Nat) /\ Len(t.outs) = n /\ t.errs \in Seq(Tags) /\ Len(t.errs) = n
    BY <2>1, <2>2, ListOf
  <2>4. t \in Task /\ t.st = "running" /\ t.offset = 0
    BY <2>3 DEF Task
  <2> HIDE DEF t
  <2>5. task' = [task EXCEPT ![r] = t]
    BY <1>5 DEF t
  <2>6. /\ task' \in [Requests -> Task] /\ task'[r] = t
        /\ \A d \in Requests \ {r} : task'[d] = task[d]
    BY <1>1, <2>4, <2>5 DEF TypeOK
  <2>7. /\ req' \in [Requests -> Request]
        /\ \A d \in Requests \ {r} : req'[d] = req[d]
        /\ Surface(r)' = Surface(r) /\ Images(r)' = Images(r) /\ Todo(r)' = Todo(r)
        /\ req'[r].tags = req[r].tags /\ req'[r].outs = req[r].outs
        /\ req'[r].next = req[r].next /\ req'[r].late = req[r].late
        /\ req'[r].pc = "wait" /\ req'[r].reply = "none"
    BY <1>1, <1>2, <1>5 DEF TypeOK, Request, Surface, Images, Todo
  <2>8. TypeOK'
    BY <1>1, <1>5, <2>6, <2>7 DEF TypeOK
  <2>9. Counted'
    <3>1. \A d \in Requests : Surface(d)' = Surface(d)
      BY <2>7 DEF Surface
    <3> QED BY <1>1, <3>1, CountsKept
  <2>10. Begun(r)'
    BY <2>7 DEF Begun
  <2>11. Shape(r)' /\ Stage(r)'
    BY <1>1, <1>2, <2>4, <2>6, <2>7, <2>10 DEF RequestInv, Shape, Stage, Size, OnGpu
  <2>12. Slotted(r)' /\ Blame(r)'
    BY <1>1, <1>2, <2>7, <2>10 DEF RequestInv, Slotted, Blame, Size, Open, Settled, Excused
  <2>13. Futures(r)'
    BY <1>1, <1>2, <2>7, <2>10 DEF RequestInv, Futures, Size
  <2>14. Chunks(r)'
    <3>1. 0 \in Nat /\ 0 = 0 * ChunkImages /\ 0 <= n
      BY <2>1, BatchAssumption
    <3> QED BY <2>1, <2>2, <2>3, <2>4, <2>6, <2>7, <3>1 DEF Chunks
  <2>15. Crewed(r)' /\ Claims(r)'
    BY <1>1, <2>7 DEF RequestInv, Crewed, Claims
  <2> QED BY <1>1, <2>6, <2>7, <2>8, <2>9, <2>11, <2>12, <2>13, <2>14, <2>15, OneRequest
          DEF RequestInv
<1> QED BY <1>1, <1>3, <1>4, <1>5 DEF Submit

\* Scattered results settle the slots of the task and leave the others alone.
LEMMA ScatteredSlots ==
  ASSUME BatchInv, NEW r \in Requests, req[r].pc = "wait", Surface(r) = "http_gpu",
         task[r].st = "done", req' = Scattered(r)
  PROVE  /\ req' \in [Requests -> Request]
         /\ \A d \in Requests \ {r} : req'[d] = req[d]
         /\ Surface(r)' = Surface(r) /\ Images(r)' = Images(r) /\ Todo(r)' = Todo(r)
         /\ req'[r].next = req[r].next /\ req'[r].late = req[r].late
         /\ req'[r].pc = "replied" /\ req'[r].reply = "200"
         /\ Len(req'[r].tags) = Size(r) /\ Len(req'[r].outs) = Size(r)
         /\ \A i \in 1 .. Size(r) :
              \/ /\ i \notin Members(Todo(r))
                 /\ req'[r].tags[i] = req[r].tags[i] /\ req'[r].outs[i] = req[r].outs[i]
              \/ /\ i \in Members(Todo(r))
                 /\ req'[r].tags[i] = NoTag /\ req'[r].outs[i] = i
              \/ /\ i \in Members(Todo(r))
                 /\ req'[r].tags[i] = "inference_failed" /\ req'[r].outs[i] = 0
                 /\ Images(r)[i].runs = "faulty" \/ Downstream(Images(r), Todo(r), i)
<1>1. TypeOK /\ RequestInv(r)
  BY DEF BatchInv
<1>2. Begun(r) /\ Shape(r) /\ Chunks(r) /\ Slotted(r)
  BY <1>1 DEF RequestInv, Stage, Begun
<1> DEFINE n == Size(r)
           m == Len(Todo(r))
           From(i) == {j \in DOMAIN Todo(r) : SlotOf(r, j) = i}
           tags == [i \in DOMAIN Images(r) |->
                     IF req[r].tags[i] = NoTag /\ \E j \in From(i) : task[r].errs[j] # NoTag
                     THEN "inference_failed" ELSE req[r].tags[i]]
           outs == [i \in DOMAIN Images(r) |->
                     IF \E j \in From(i) : task[r].errs[j] = NoTag
                     THEN task[r].outs[CHOOSE j \in From(i) : TRUE] ELSE req[r].outs[i]]
<1>3. /\ n \in Nat /\ DOMAIN Images(r) = 1 .. n /\ m \in Nat /\ DOMAIN Todo(r) = 1 .. m
      /\ NoRepeats(Todo(r)) /\ \A j \in 1 .. m : Todo(r)[j] \in 1 .. n
      /\ \A i \in 1 .. n : req[r].tags[i] \in Tags /\ req[r].outs[i] \in Nat
  BY <1>1, <1>2, BatchShape
<1>4. req' = [req EXCEPT ![r].tags = tags, ![r].outs = outs,
                         ![r].reply = "200", ![r].pc = "replied"]
  BY DEF Scattered
<1>5. \A j \in 1 .. m :
        \/ task[r].errs[j] = NoTag /\ task[r].outs[j] = Todo(r)[j]
        \/ task[r].errs[j] = "inference_failed" /\ Costly(Images(r), Todo(r), j)
  <2>1. task[r].offset \in Nat
    BY <1>1 DEF TypeOK, Task
  <2> QED BY <1>2, <1>3, <2>1 DEF Chunks
<1>6. ASSUME NEW i \in 1 .. n
      PROVE  /\ tags[i] \in Tags /\ outs[i] \in Nat
             /\ \/ /\ i \notin Members(Todo(r))
                   /\ tags[i] = req[r].tags[i] /\ outs[i] = req[r].outs[i]
                \/ i \in Members(Todo(r)) /\ tags[i] = NoTag /\ outs[i] = i
                \/ /\ i \in Members(Todo(r))
                   /\ tags[i] = "inference_failed" /\ outs[i] = 0
                   /\ Images(r)[i].runs = "faulty" \/ Downstream(Images(r), Todo(r), i)
  <2>1. CASE i \notin Members(Todo(r))
    <3>1. From(i) = {}
      BY <1>3, <2>1 DEF Members, SlotOf
    <3>2. tags[i] = req[r].tags[i] /\ outs[i] = req[r].outs[i]
      BY <1>3, <3>1
    <3> QED BY <1>3, <2>1, <3>2
  <2>2. CASE i \in Members(Todo(r))
    <3>1. PICK j \in 1 .. m : Todo(r)[j] = i
      BY <2>2 DEF Members
    <3>2. From(i) = {j}
      BY <1>3, <3>1 DEF NoRepeats, SlotOf
    <3>3. (CHOOSE l \in From(i) : TRUE) = j
      BY <3>2
    <3>4. req[r].tags[i] = NoTag /\ req[r].outs[i] = 0
      BY <1>2, <2>2 DEF Slotted, Open
    <3>5. CASE task[r].errs[j] = NoTag /\ task[r].outs[j] = Todo(r)[j]
      <4>1. tags[i] = NoTag /\ outs[i] = i
        BY <1>3, <3>1, <3>2, <3>3, <3>4, <3>5
      <4> QED BY <1>3, <2>2, <4>1 DEF Tags, NoTag
    <3>6. CASE task[r].errs[j] = "inference_failed" /\ Costly(Images(r), Todo(r), j)
      <4>1. tags[i] = "inference_failed" /\ outs[i] = 0
        BY <1>3, <3>1, <3>2, <3>3, <3>4, <3>6 DEF NoTag
      <4>2. Images(r)[i].runs = "faulty" \/ Downstream(Images(r), Todo(r), i)
        BY <1>3, <3>1, <3>6 DEF Costly, Downstream
      <4> QED BY <2>2, <4>1, <4>2 DEF Tags
    <3> QED BY <1>5, <3>5, <3>6
  <2> QED BY <2>1, <2>2
<1>7. /\ tags \in [1 .. n -> Tags] /\ outs \in [1 .. n -> Nat]
  BY <1>3, <1>6
<1> HIDE DEF tags, outs
<1>8. /\ tags \in Seq(Tags) /\ Len(tags) = n /\ outs \in Seq(Nat) /\ Len(outs) = n
  BY <1>3, <1>7, ListOf
<1>9. /\ req' \in [Requests -> Request]
      /\ \A d \in Requests \ {r} : req'[d] = req[d]
      /\ Surface(r)' = Surface(r) /\ Images(r)' = Images(r) /\ Todo(r)' = Todo(r)
      /\ req'[r].next = req[r].next /\ req'[r].late = req[r].late
      /\ req'[r].pc = "replied" /\ req'[r].reply = "200"
      /\ req'[r].tags = tags /\ req'[r].outs = outs
  <2> DEFINE q == [req[r] EXCEPT !.tags = tags, !.outs = outs, !.reply = "200",
                                 !.pc = "replied"]
  <2>1. req[r] \in Request /\ req \in [Requests -> Request]
    BY <1>1 DEF TypeOK
  <2>2. /\ q \in Request /\ q.surface = req[r].surface /\ q.images = req[r].images
        /\ q.todo = req[r].todo /\ q.next = req[r].next /\ q.late = req[r].late
        /\ q.pc = "replied" /\ q.reply = "200" /\ q.tags = tags /\ q.outs = outs
    BY <1>8, <2>1 DEF Request
  <2>3. req' = [req EXCEPT ![r] = q]
    BY <1>4, <2>1
  <2> HIDE DEF q
  <2>4. req'[r] = q /\ req' \in [Requests -> Request] /\ \A d \in Requests \ {r} : req'[d] = req[d]
    BY <2>1, <2>2, <2>3
  <2> QED BY <2>2, <2>4 DEF Surface, Images, Todo
<1> QED BY <1>6, <1>8, <1>9

LEMMA CollectKeeps ==
  ASSUME BatchInv, NEW r \in Requests, Collect(r)
  PROVE  BatchInv'
<1>1. /\ TypeOK /\ RequestInv(r) /\ Counted /\ faults \in Nat
      /\ req[r].pc = "wait" /\ Surface(r) = "http_gpu"
      /\ UNCHANGED <<task, futs, workers, permits, free, faults, met>>
  BY DEF BatchInv, Collect, TypeOK, errors
<1>2. Begun(r) /\ req[r].reply = "none"
  BY <1>1 DEF RequestInv, Stage, Begun
<1>3. CASE Reply(r, "503")
  BY <1>1, <1>3, GpuReply
<1>4. CASE task[r].st = "done" /\ req' = Scattered(r)
  <2>1. /\ req' \in [Requests -> Request]
        /\ \A d \in Requests \ {r} : req'[d] = req[d]
        /\ Surface(r)' = Surface(r) /\ Images(r)' = Images(r) /\ Todo(r)' = Todo(r)
        /\ req'[r].next = req[r].next /\ req'[r].late = req[r].late
        /\ req'[r].pc = "replied" /\ req'[r].reply = "200"
        /\ Len(req'[r].tags) = Size(r) /\ Len(req'[r].outs) = Size(r)
        /\ \A i \in 1 .. Size(r) :
             \/ /\ i \notin Members(Todo(r))
                /\ req'[r].tags[i] = req[r].tags[i] /\ req'[r].outs[i] = req[r].outs[i]
             \/ /\ i \in Members(Todo(r))
                /\ req'[r].tags[i] = NoTag /\ req'[r].outs[i] = i
             \/ /\ i \in Members(Todo(r))
                /\ req'[r].tags[i] = "inference_failed" /\ req'[r].outs[i] = 0
                /\ Images(r)[i].runs = "faulty" \/ Downstream(Images(r), Todo(r), i)
    BY <1>1, <1>4, ScatteredSlots
  <2>2. TypeOK'
    BY <1>1, <2>1 DEF TypeOK
  <2>3. Counted'
    <3>1. \A d \in Requests : Surface(d)' = Surface(d)
      BY <2>1 DEF Surface
    <3> QED BY <1>1, <3>1, CountsKept
  <2>4. Begun(r)' /\ Size(r)' = Size(r)
    BY <2>1 DEF Begun, Size
  <2>5. Shape(r)' /\ Stage(r)'
    BY <1>1, <1>2, <2>1, <2>4 DEF RequestInv, Shape, Stage, OnGpu
  <2>6. Slotted(r)'
    <3>1. ASSUME NEW i \in 1 .. Size(r)
          PROVE  Settled(r, i)' /\ (i \notin Members(Todo(r)) => req'[r].tags[i] # NoTag)
                 /\ ~ Open(r, i)'
      <4>1. Open(r, i) \/ Settled(r, i)
        BY <1>1, <1>2 DEF RequestInv, Slotted
      <4>2. i \notin Members(Todo(r)) => req[r].tags[i] # NoTag
        BY <1>1, <1>2 DEF RequestInv, Slotted
      <4>3. i # 0 /\ "inference_failed" # NoTag
        BY DEF NoTag
      <4> QED BY <2>1, <4>1, <4>2, <4>3 DEF Settled, Open
    <3> QED BY <2>1, <2>4, <3>1 DEF Slotted
  <2>7. Blame(r)'
    <3>1. ASSUME NEW i \in 1 .. Size(r), Blameless(Images(r)[i]) PROVE Excused(r, i)'
      <4>1. Images(r)[i].runs # "faulty" /\ Excused(r, i)
        BY <1>1, <1>2, <3>1 DEF Blameless, RequestInv, Blame
      <4> QED BY <1>1, <2>1, <4>1 DEF Excused
    <3> QED BY <2>1, <2>4, <3>1 DEF Blame
  <2>8. Chunks(r)' /\ Futures(r)'
    BY <1>1, <1>2, <2>1, <2>4 DEF RequestInv, Chunks, ImageOf, Futures
  <2>9. Crewed(r)' /\ Claims(r)'
    BY <1>1, <2>1 DEF RequestInv, Crewed, Claims
  <2> QED BY <1>1, <2>1, <2>2, <2>3, <2>5, <2>6, <2>7, <2>8, <2>9, OneRequest DEF RequestInv
<1> QED BY <1>3, <1>4 DEF Collect

----------------------------------------------------------------------------
(* The futures of RecognizeBatch on the GPU.                               *)

LEMMA DeadlineKeeps ==
  ASSUME BatchInv, NEW r \in Requests, Deadline(r)
  PROVE  BatchInv'
<1>1. /\ TypeOK /\ RequestInv(r) /\ Counted
      /\ req[r].pc = "wait" /\ Surface(r) = "rpc_gpu"
      /\ req' = [req EXCEPT ![r].late = TRUE]
      /\ UNCHANGED <<task, futs, workers, permits, free, faults, met>>
  BY DEF BatchInv, Deadline, errors
<1>2. /\ req' \in [Requests -> Request]
      /\ \A d \in Requests \ {r} : req'[d] = req[d]
      /\ Surface(r)' = Surface(r) /\ Images(r)' = Images(r) /\ Todo(r)' = Todo(r)
      /\ req'[r].tags = req[r].tags /\ req'[r].outs = req[r].outs
      /\ req'[r].next = req[r].next /\ req'[r].late = TRUE
      /\ req'[r].pc = req[r].pc /\ req'[r].reply = req[r].reply
  BY <1>1 DEF TypeOK, Request, Surface, Images, Todo
<1>3. TypeOK'
  BY <1>1, <1>2 DEF TypeOK
<1>4. Counted'
  <2>1. \A d \in Requests : Surface(d)' = Surface(d)
    BY <1>2 DEF Surface
  <2> QED BY <1>1, <2>1, CountsKept
<1>5. Begun(r)' = Begun(r) /\ Size(r)' = Size(r)
  BY <1>2 DEF Begun, Size
<1>6. Shape(r)' /\ Stage(r)'
  BY <1>1, <1>2, <1>5 DEF RequestInv, Shape, Stage
<1>7. Slotted(r)' /\ Blame(r)'
  BY <1>1, <1>2, <1>5 DEF RequestInv, Slotted, Blame, Open, Settled, Excused
<1>8. Chunks(r)' /\ Futures(r)'
  BY <1>1, <1>2, <1>5 DEF RequestInv, Chunks, ImageOf, Futures, Asked, Open
<1>9. Crewed(r)' /\ Claims(r)'
  BY <1>1, <1>2 DEF RequestInv, Crewed, Claims
<1> QED BY <1>1, <1>2, <1>3, <1>4, <1>6, <1>7, <1>8, <1>9, OneRequest DEF RequestInv

LEMMA FutureSet ==
  ASSUME TypeOK, NEW r \in Requests, NEW i \in 1 .. Len(futs[r]), NEW v \in FutureStates,
         futs' = [futs EXCEPT ![r][i] = v]
  PROVE  /\ futs' \in [Requests -> Seq(FutureStates)]
         /\ \A d \in Requests \ {r} : futs'[d] = futs[d]
         /\ Len(futs'[r]) = Len(futs[r])
         /\ \A j \in 1 .. Len(futs[r]) : futs'[r][j] = IF j = i THEN v ELSE futs[r][j]
<1> DEFINE f == [futs[r] EXCEPT ![i] = v]
<1>1. futs \in [Requests -> Seq(FutureStates)] /\ futs[r] \in Seq(FutureStates)
  BY DEF TypeOK
<1>2. /\ f \in Seq(FutureStates) /\ Len(f) = Len(futs[r])
      /\ \A j \in 1 .. Len(futs[r]) : f[j] = IF j = i THEN v ELSE futs[r][j]
  BY <1>1, ExceptSeq
<1>3. futs' = [futs EXCEPT ![r] = f]
  BY <1>1
<1> HIDE DEF f
<1> QED BY <1>1, <1>2, <1>3

LEMMA SubmitSlotsKeeps ==
  ASSUME BatchInv, NEW r \in Requests, SubmitSlots(r)
  PROVE  BatchInv'
<1> DEFINE i == req[r].next
           v == IF req[r].tags[i] = NoTag THEN "pending" ELSE "none"
<1>1. /\ TypeOK /\ RequestInv(r) /\ Counted /\ faults \in Nat /\ req[r] \in Request
      /\ req[r].pc = "submit" /\ Surface(r) = "rpc_gpu"
      /\ UNCHANGED <<task, workers, permits, free, met>>
  BY DEF BatchInv, SubmitSlots, TypeOK, errors
<1>2. Begun(r) /\ req[r].reply = "none" /\ Shape(r)
  BY <1>1 DEF RequestInv, Stage, Begun
<1>3. /\ Size(r) \in Nat /\ DOMAIN futs[r] = 1 .. Size(r) /\ Len(futs[r]) = Size(r)
      /\ i \in Nat \ {0}
      /\ \A k \in 1 .. Size(r) : req[r].tags[k] \in Tags
  <2>1. /\ Size(r) \in Nat /\ DOMAIN futs[r] = 1 .. Size(r)
        /\ \A k \in 1 .. Size(r) : req[r].tags[k] \in Tags
    BY <1>1, <1>2, BatchShape
  <2>2. Len(futs[r]) = Size(r)
    BY <1>2 DEF Shape
  <2>3. i \in Nat \ {0}
    BY <1>1 DEF Request, Positive
  <2> QED BY <2>1, <2>2, <2>3
<1>4. CASE /\ i > Len(Images(r))
           /\ req' = [req EXCEPT ![r].pc = "wait", ![r].next = 1]
           /\ UNCHANGED <<futs, faults>>
  <2>1. /\ req' \in [Requests -> Request]
        /\ \A d \in Requests \ {r} : req'[d] = req[d]
        /\ Surface(r)' = Surface(r) /\ Images(r)' = Images(r) /\ Todo(r)' = Todo(r)
        /\ req'[r].tags = req[r].tags /\ req'[r].outs = req[r].outs
        /\ req'[r].next = 1 /\ req'[r].late = req[r].late
        /\ req'[r].pc = "wait" /\ req'[r].reply = req[r].reply
    <3>1. 1 \in Positive
      BY DEF Positive
    <3> QED BY <1>1, <1>4, <3>1 DEF TypeOK, Request, Surface, Images, Todo
  <2>2. TypeOK'
    BY <1>1, <1>4, <2>1 DEF TypeOK
  <2>3. Counted'
    <3>1. \A d \in Requests : Surface(d)' = Surface(d)
      BY <2>1 DEF Surface
    <3> QED BY <1>1, <3>1, CountsKept
  <2>4. Begun(r)' /\ Size(r)' = Size(r)
    BY <1>2, <2>1 DEF Begun, Size
  <2>5. Shape(r)' /\ Stage(r)'
    BY <1>1, <1>2, <1>4, <2>1, <2>4 DEF RequestInv, Shape, Stage, OnGpu
  <2>6. Slotted(r)' /\ Blame(r)' /\ Chunks(r)'
    BY <1>1, <1>2, <2>1, <2>4 DEF RequestInv, Slotted, Blame, Chunks, ImageOf, Open, Settled, Excused
  <2>7. Futures(r)'
    <3>1. \A k \in 1 .. Size(r) : Asked(r, k) /\ (k \in Members(Todo(r)) => Open(r, k))
      BY <1>1, <1>2, <1>3, <1>4 DEF RequestInv, Futures, Slotted, Size
    <3>2. \A k \in 1 .. Size(r) : (Asked(r, k)' <=> Asked(r, k)) /\ (Open(r, k)' <=> Open(r, k))
      BY <1>4, <2>1 DEF Asked, Open
    <3>3. \A k \in 1 .. Size(r) : ~ (k < 1)
      OBVIOUS
    <3> QED BY <1>1, <1>2, <1>4, <2>1, <2>4, <3>1, <3>2, <3>3 DEF RequestInv, Futures
  <2>8. Crewed(r)' /\ Claims(r)'
    BY <1>1, <2>1 DEF RequestInv, Crewed, Claims
  <2> QED BY <1>1, <1>4, <2>1, <2>2, <2>3, <2>5, <2>6, <2>7, <2>8, OneRequest DEF RequestInv
<1>5. CASE /\ i <= Len(Images(r))
           /\ futs' = [futs EXCEPT ![r][i] = v]
           /\ req' = [req EXCEPT ![r].next = i + 1]
           /\ UNCHANGED faults
  <2>0. i \in 1 .. Size(r) /\ v \in FutureStates
    BY <1>3, <1>5 DEF Size, FutureStates
  <2>1. /\ req' \in [Requests -> Request]
        /\ \A d \in Requests \ {r} : req'[d] = req[d]
        /\ Surface(r)' = Surface(r) /\ Images(r)' = Images(r) /\ Todo(r)' = Todo(r)
        /\ req'[r].tags = req[r].tags /\ req'[r].outs = req[r].outs
        /\ req'[r].next = i + 1 /\ req'[r].late = req[r].late
        /\ req'[r].pc = "submit" /\ req'[r].reply = req[r].reply
    <3> DEFINE k == i + 1
    <3>1. k \in Positive /\ req' = [req EXCEPT ![r].next = k]
      BY <1>3, <1>5 DEF Positive
    <3> HIDE DEF k
    <3>2. /\ req' \in [Requests -> Request]
          /\ \A d \in Requests \ {r} : req'[d] = req[d]
          /\ Surface(r)' = Surface(r) /\ Images(r)' = Images(r) /\ Todo(r)' = Todo(r)
          /\ req'[r].tags = req[r].tags /\ req'[r].outs = req[r].outs
          /\ req'[r].next = k /\ req'[r].late = req[r].late
          /\ req'[r].pc = "submit" /\ req'[r].reply = req[r].reply
      BY <1>1, <3>1 DEF TypeOK, Request, Surface, Images, Todo
    <3> QED BY <3>2 DEF k
  <2>2. /\ futs' \in [Requests -> Seq(FutureStates)]
        /\ \A d \in Requests \ {r} : futs'[d] = futs[d]
        /\ Len(futs'[r]) = Size(r)
        /\ \A j \in 1 .. Size(r) : futs'[r][j] = IF j = i THEN v ELSE futs[r][j]
    BY <1>1, <1>3, <1>5, <2>0, FutureSet
  <2> HIDE DEF i
  <2>3. TypeOK'
    BY <1>1, <1>5, <2>1, <2>2 DEF TypeOK
  <2>4. Counted'
    <3>1. \A d \in Requests : Surface(d)' = Surface(d)
      BY <2>1 DEF Surface
    <3> QED BY <1>1, <3>1, CountsKept
  <2>5. Begun(r)' /\ Size(r)' = Size(r)
    BY <1>2, <2>1 DEF Begun, Size
  <2>6. Shape(r)' /\ Stage(r)'
    BY <1>1, <1>2, <2>1, <2>2, <2>5 DEF RequestInv, Shape, Stage, OnGpu
  <2>7. Slotted(r)' /\ Blame(r)' /\ Chunks(r)'
    BY <1>1, <1>2, <2>1, <2>5 DEF RequestInv, Slotted, Blame, Chunks, ImageOf, Open, Settled, Excused
  <2>8. Futures(r)'
    <3>1. \A k \in 1 .. Size(r) : futs'[r][k] \in {"none", "pending"} \/ futs'[r][k] = futs[r][k]
      BY <2>2
    <3>2. ASSUME NEW k \in 1 .. Size(r), k < i + 1 PROVE Asked(r, k)'
      <4>1. CASE k = i
        BY <2>1, <2>2, <4>1 DEF Asked, i
      <4>2. CASE k # i
        <5>1. k < req[r].next
          BY <1>3, <3>2, <4>2 DEF i
        <5>2. Asked(r, k)
          BY <1>1, <1>2, <5>1 DEF RequestInv, Futures
        <5> QED BY <2>1, <2>2, <4>2, <5>2 DEF Asked
      <4> QED BY <4>1, <4>2
    <3> QED BY <1>1, <1>2, <2>1, <2>5, <3>1, <3>2 DEF RequestInv, Futures
  <2>9. Crewed(r)' /\ Claims(r)'
    BY <1>1, <2>1 DEF RequestInv, Crewed, Claims
  <2> QED BY <1>1, <2>1, <2>2, <2>3, <2>4, <2>6, <2>7, <2>8, <2>9, OneRequest DEF RequestInv
<1>6. CASE Faulty /\ Reply(r, "503") /\ UNCHANGED futs
  <2>1. faults' \in Nat
    BY <1>1, <1>6 DEF Faulty
  <2> QED BY <1>1, <1>6, <2>1, GpuReply
<1>7. ~ (i > Len(Images(r))) => i <= Len(Images(r))
  BY <1>3 DEF Size
<1> QED BY <1>4, <1>5, <1>6, <1>7 DEF SubmitSlots

LEMMA ResolveKeeps ==
  ASSUME BatchInv, NEW r \in Requests, NEW i \in DOMAIN futs[r], Resolve(r, i)
  PROVE  BatchInv'
<1> DEFINE im == Images(r)[i]
           Excuse(v) == /\ v = "too_large" => Verdict(Images(r)[i]) # NoTag
                        /\ v = "error" =>
                             \/ Images(r)[i].runs = "faulty" \/ ~ Images(r)[i].decodes
                             \/ \E m \in met' : m.r = r /\ m.slot = i
<1>0. \E v \in {"too_large", "error", "value"} :
        futs' = [futs EXCEPT ![r][i] = v] /\ met \subseteq met' /\ Excuse(v)
  <2> DEFINE w == IF im.jpeg /\ Verdict(im) # NoTag THEN "too_large"
                  ELSE IF im.runs = "faulty" \/ ~ im.decodes THEN "error" ELSE "value"
  <2>1. CASE futs' = [futs EXCEPT ![r][i] = w] /\ UNCHANGED met
    <3>1. w \in {"too_large", "error", "value"} /\ Excuse(w)
      OBVIOUS
    <3>2. met \subseteq met'
      BY <2>1
    <3> HIDE DEF w, Excuse
    <3> QED BY <2>1, <3>1, <3>2
  <2>2. CASE /\ \E n \in Left : met' = met \union {[r |-> r, slot |-> i, of |-> n]}
             /\ futs' = [futs EXCEPT ![r][i] = "error"]
    <3>1. PICK n \in Left : met' = met \union {[r |-> r, slot |-> i, of |-> n]}
      BY <2>2
    <3>2. \E m \in met' : m.r = r /\ m.slot = i
      <4> DEFINE hit == [r |-> r, slot |-> i, of |-> n]
      <4>1. hit \in met' /\ hit.r = r /\ hit.slot = i
        BY <3>1
      <4> HIDE DEF hit
      <4> QED BY <4>1
    <3> QED BY <2>2, <3>1, <3>2
  <2>3. \/ futs' = [futs EXCEPT ![r][i] = w] /\ UNCHANGED met
        \/ /\ \E n \in Left : met' = met \union {[r |-> r, slot |-> i, of |-> n]}
           /\ futs' = [futs EXCEPT ![r][i] = "error"]
    BY DEF Resolve
  <2> QED BY <2>1, <2>2, <2>3
<1>00. PICK v \in {"too_large", "error", "value"} :
         futs' = [futs EXCEPT ![r][i] = v] /\ met \subseteq met' /\ Excuse(v)
  BY <1>0
<1>1. /\ TypeOK /\ RequestInv(r) /\ Counted /\ futs[r][i] = "pending"
      /\ futs' = [futs EXCEPT ![r][i] = v] /\ met \subseteq met'
      /\ UNCHANGED <<req, task, workers, permits, free, faults>>
  BY <1>00 DEF BatchInv, Resolve
<1>2. Begun(r) /\ Shape(r)
  <2>1. futs[r] # <<>>
    OBVIOUS
  <2> QED BY <1>1, <2>1 DEF RequestInv, Shape
<1>3. Size(r) \in Nat /\ DOMAIN futs[r] = 1 .. Size(r) /\ Len(futs[r]) = Size(r)
  BY <1>1, <1>2, BatchShape DEF Shape
<1>4. v \in FutureStates \ {"none", "pending"}
  BY DEF FutureStates
<1>5. /\ v = "too_large" => Verdict(Images(r)[i]) # NoTag
      /\ v = "error" => \/ Images(r)[i].runs = "faulty" \/ ~ Images(r)[i].decodes
                       \/ \E m \in met' : m.r = r /\ m.slot = i
  BY <1>00
<1>6. /\ futs' \in [Requests -> Seq(FutureStates)]
      /\ \A d \in Requests \ {r} : futs'[d] = futs[d]
      /\ Len(futs'[r]) = Size(r)
      /\ \A j \in 1 .. Size(r) : futs'[r][j] = IF j = i THEN v ELSE futs[r][j]
  BY <1>1, <1>3, <1>4, FutureSet
<1>7. TypeOK'
  BY <1>1, <1>6 DEF TypeOK
<1>8. Counted'
  BY <1>1, CountsKept DEF Surface
<1>9. /\ Surface(r)' = Surface(r) /\ Images(r)' = Images(r) /\ Todo(r)' = Todo(r)
      /\ Size(r)' = Size(r) /\ Begun(r)'
  BY <1>1, <1>2 DEF Surface, Images, Todo, Size, Begun
<1>10. Shape(r)' /\ Stage(r)'
  BY <1>1, <1>2, <1>6, <1>9 DEF RequestInv, Shape, Stage
<1>11. Slotted(r)' /\ Blame(r)' /\ Chunks(r)' /\ Crewed(r)'
  BY <1>1, <1>2, <1>9 DEF RequestInv, Slotted, Blame, Chunks, ImageOf, Open, Settled, Excused, Crewed
<1>12. Futures(r)'
  <2>1. \A k \in 1 .. Size(r) : Asked(r, k)' <=> Asked(r, k)
    BY <1>1, <1>3, <1>4, <1>6 DEF Asked
  <2>2. \A k \in 1 .. Size(r) : Open(r, k)' <=> Open(r, k)
    BY <1>1 DEF Open
  <2>3. \A k \in 1 .. Size(r) :
           /\ futs'[r][k] = "too_large" => Verdict(Images(r)[k]) # NoTag
           /\ futs'[r][k] = "error" => \/ Images(r)[k].runs = "faulty" \/ ~ Images(r)[k].decodes
                                       \/ \E m \in met' : m.r = r /\ m.slot = k
    BY <1>1, <1>2, <1>5, <1>6 DEF RequestInv, Futures
  <2> QED BY <1>1, <1>2, <1>9, <2>1, <2>2, <2>3 DEF RequestInv, Futures
<1>13. Claims(r)'
  <2>1. Slots(r)' = Slots(r) /\ NumWorkers(r)' = NumWorkers(r)
    BY <1>9 DEF Slots, NumWorkers
  <2>2. \A w : InHand(r, w)' <=> InHand(r, w)
    BY <1>1, <1>9 DEF InHand
  <2>3. \A k : Open(r, k)' <=> Open(r, k)
    BY <1>1 DEF Open
  <2> QED BY <1>1, <1>9, <2>1, <2>2, <2>3 DEF RequestInv, Claims
<1> QED BY <1>1, <1>6, <1>7, <1>8, <1>10, <1>11, <1>12, <1>13, OneRequest DEF RequestInv

\* The request of one step: its tags, its results and its place in the slots.
LEMMA RequestSet ==
  ASSUME TypeOK, NEW r \in Requests, NEW tags \in Seq(Tags), NEW outs \in Seq(Nat),
         NEW next \in Positive,
         req' = [req EXCEPT ![r] = [req[r] EXCEPT !.tags = tags, !.outs = outs, !.next = next]]
  PROVE  /\ req' \in [Requests -> Request]
         /\ \A d \in Requests \ {r} : req'[d] = req[d]
         /\ Surface(r)' = Surface(r) /\ Images(r)' = Images(r) /\ Todo(r)' = Todo(r)
         /\ req'[r].tags = tags /\ req'[r].outs = outs /\ req'[r].next = next
         /\ req'[r].late = req[r].late /\ req'[r].pc = req[r].pc
         /\ req'[r].reply = req[r].reply
<1> DEFINE q == [req[r] EXCEPT !.tags = tags, !.outs = outs, !.next = next]
<1>1. req[r] \in Request
  BY DEF TypeOK
<1>2. /\ q \in Request
      /\ q.surface = req[r].surface /\ q.images = req[r].images /\ q.todo = req[r].todo
      /\ q.tags = tags /\ q.outs = outs /\ q.next = next
      /\ q.late = req[r].late /\ q.pc = req[r].pc /\ q.reply = req[r].reply
  BY <1>1 DEF Request
<1>3. req' = [req EXCEPT ![r] = q]
  OBVIOUS
<1> HIDE DEF q
<1>4. /\ req' \in [Requests -> Request] /\ req'[r] = q
      /\ \A d \in Requests \ {r} : req'[d] = req[d]
  BY <1>2, <1>3 DEF TypeOK
<1> QED BY <1>2, <1>4 DEF Surface, Images, Todo

LEMMA AwaitSlotKeeps ==
  ASSUME BatchInv, NEW r \in Requests, AwaitSlot(r)
  PROVE  BatchInv'
<1> DEFINE i == req[r].next
           t == IF futs[r][i] = "none" THEN req[r].tags[i]
                ELSE IF GivesUpOn(r, i) THEN "inference_timeout"
                ELSE IF futs[r][i] = "too_large" THEN "image_too_large"
                ELSE IF futs[r][i] = "error" THEN "inference_failed"
                ELSE NoTag
           o == IF futs[r][i] = "value" /\ ~ GivesUpOn(r, i) THEN i ELSE 0
<1>1. /\ TypeOK /\ RequestInv(r) /\ Counted /\ faults \in Nat /\ req[r] \in Request
      /\ req[r].pc = "wait" /\ Surface(r) = "rpc_gpu"
      /\ UNCHANGED <<task, futs, workers, permits, free, faults, met>>
  BY DEF BatchInv, AwaitSlot, TypeOK, errors
<1>2. Begun(r) /\ req[r].reply = "none" /\ Shape(r)
  BY <1>1 DEF RequestInv, Stage, Begun
<1>3. /\ Size(r) \in Nat /\ i \in Nat \ {0}
      /\ \A k \in 1 .. Size(r) : /\ req[r].tags[k] \in Tags /\ req[r].outs[k] \in Nat
                                 /\ futs[r][k] \in FutureStates
  <2>1. /\ Size(r) \in Nat
        /\ \A k \in 1 .. Size(r) : /\ req[r].tags[k] \in Tags /\ req[r].outs[k] \in Nat
                                   /\ futs[r][k] \in FutureStates
    BY <1>1, <1>2, BatchShape
  <2>2. i \in Nat \ {0}
    BY <1>1 DEF Request, Positive
  <2> QED BY <2>1, <2>2
<1>4. CASE i > Len(Images(r)) /\ Reply(r, "200")
  <2>1. \A k \in 1 .. Size(r) : ~ Open(r, k)
    BY <1>1, <1>2, <1>3, <1>4 DEF RequestInv, Futures, Size
  <2> QED BY <1>1, <1>4, <2>1, GpuReply
<1>5. CASE /\ i <= Len(Images(r))
           /\ futs[r][i] # "pending" \/ GivesUpOn(r, i)
           /\ req' = [req EXCEPT ![r].next = i + 1, ![r].tags[i] = t, ![r].outs[i] = o]
  <2>1. i \in 1 .. Size(r) /\ t \in Tags /\ o \in Nat
    BY <1>3, <1>5 DEF Size, Tags, NoTag
  <2>2. /\ Asked(r, i)
        /\ i \in Members(Todo(r)) => Open(r, i)
        /\ i \notin Members(Todo(r)) => req[r].tags[i] # NoTag
        /\ Blameless(Images(r)[i]) => Excused(r, i)
        /\ futs[r][i] = "too_large" => Verdict(Images(r)[i]) # NoTag
        /\ futs[r][i] = "error" => \/ Images(r)[i].runs = "faulty" \/ ~ Images(r)[i].decodes
                                   \/ \E m \in met : m.r = r /\ m.slot = i
    <3>1. i >= req[r].next
      BY <1>3
    <3> HIDE DEF i
    <3> QED BY <1>1, <1>2, <2>1, <3>1 DEF RequestInv, Futures, Slotted, Blame
  <2>3. \/ o = i /\ t = NoTag
        \/ o = 0 /\ t # NoTag
    <3>1. futs[r][i] \in FutureStates
      BY <1>3, <2>1
    <3> QED BY <1>5, <2>2, <3>1 DEF Asked, FutureStates, NoTag
  <2>4. i \notin Members(Todo(r)) => t # NoTag
    BY <2>2 DEF Asked
  <2>5. Blameless(Images(r)[i]) =>
          \/ t = NoTag
          \/ t = "batch_pixels_exceeded" /\ ~ DeviceJpeg(Surface(r), Images(r)[i])
          \/ t = "inference_timeout" /\ req[r].late
          \/ t = "inference_failed" /\ \E m \in met : m.r = r /\ m.slot = i
    BY <1>1, <2>2 DEF Excused, GivesUpOn, Blameless
  <2> HIDE DEF t, o
  <2> DEFINE tags == [req[r].tags EXCEPT ![i] = t]
             outs == [req[r].outs EXCEPT ![i] = o]
             next == i + 1
  <2>6. /\ req[r].tags \in Seq(Tags) /\ Len(req[r].tags) = Size(r)
        /\ req[r].outs \in Seq(Nat) /\ Len(req[r].outs) = Size(r)
    BY <1>1, <1>2 DEF Request, Shape
  <2>7. /\ tags \in Seq(Tags) /\ Len(tags) = Size(r)
        /\ \A k \in 1 .. Size(r) : tags[k] = IF k = i THEN t ELSE req[r].tags[k]
    BY <2>1, <2>6, ExceptSeq
  <2>8. /\ outs \in Seq(Nat) /\ Len(outs) = Size(r)
        /\ \A k \in 1 .. Size(r) : outs[k] = IF k = i THEN o ELSE req[r].outs[k]
    BY <2>1, <2>6, ExceptSeq
  <2>9. next \in Positive
    BY <1>3 DEF Positive
  <2>10. req' = [req EXCEPT ![r] =
                   [req[r] EXCEPT !.tags = tags, !.outs = outs, !.next = next]]
    <3>1. req \in [Requests -> Request]
      BY <1>1 DEF TypeOK
    <3> HIDE DEF i
    <3>2. req' = [req EXCEPT ![r].next = next, ![r].tags[i] = t, ![r].outs[i] = o]
      BY <1>5 DEF i
    <3> HIDE DEF next
    <3> QED BY <1>1, <3>1, <3>2 DEF Request
  <2> HIDE DEF tags, outs
  <2>11. /\ req' \in [Requests -> Request]
         /\ \A d \in Requests \ {r} : req'[d] = req[d]
         /\ Surface(r)' = Surface(r) /\ Images(r)' = Images(r) /\ Todo(r)' = Todo(r)
         /\ req'[r].tags = tags /\ req'[r].outs = outs /\ req'[r].next = next
         /\ req'[r].late = req[r].late /\ req'[r].pc = req[r].pc
         /\ req'[r].reply = req[r].reply
    <3> HIDE DEF next
    <3> QED BY <1>1, <2>7, <2>8, <2>9, <2>10, RequestSet
  <2> HIDE DEF i
  <2>12. TypeOK'
    BY <1>1, <2>11 DEF TypeOK
  <2>13. Counted'
    <3>1. \A d \in Requests : Surface(d)' = Surface(d)
      BY <2>11 DEF Surface
    <3> QED BY <1>1, <3>1, CountsKept
  <2>14. Begun(r)' /\ Size(r)' = Size(r)
    BY <1>2, <2>11 DEF Begun, Size
  <2>15. Shape(r)' /\ Stage(r)'
    BY <1>1, <1>2, <2>7, <2>8, <2>11, <2>14 DEF RequestInv, Shape, Stage
  <2>16. Slotted(r)'
    <3>1. ASSUME NEW k \in 1 .. Size(r)
          PROVE  /\ (Open(r, k) \/ Settled(r, k))'
                 /\ k \notin Members(Todo(r)) => req'[r].tags[k] # NoTag
      <4>1. CASE k = i
        BY <2>3, <2>4, <2>7, <2>8, <2>11, <4>1 DEF Settled
      <4>2. CASE k # i
        <5>1. Open(r, k) \/ Settled(r, k)
          BY <1>1, <1>2 DEF RequestInv, Slotted
        <5>2. k \notin Members(Todo(r)) => req[r].tags[k] # NoTag
          BY <1>1, <1>2 DEF RequestInv, Slotted
        <5> QED BY <2>7, <2>8, <2>11, <4>2, <5>1, <5>2 DEF Settled, Open
      <4> QED BY <4>1, <4>2
    <3> QED BY <1>1, <1>2, <2>11, <2>14, <3>1 DEF Slotted
  <2>17. Blame(r)'
    <3>1. ASSUME NEW k \in 1 .. Size(r), Blameless(Images(r)[k]) PROVE Excused(r, k)'
      <4>1. CASE k = i
        BY <1>1, <2>5, <2>7, <2>11, <3>1, <4>1 DEF Excused
      <4>2. CASE k # i
        <5>1. Excused(r, k)
          BY <1>1, <1>2, <3>1 DEF RequestInv, Blame
        <5> QED BY <1>1, <2>7, <2>11, <4>2, <5>1 DEF Excused
      <4> QED BY <4>1, <4>2
    <3> QED BY <2>11, <2>14, <3>1 DEF Blame
  <2>18. Chunks(r)'
    BY <1>1, <2>11 DEF RequestInv, Chunks, ImageOf
  <2>19. Futures(r)'
    <3>1. ASSUME NEW k \in 1 .. Size(r)
          PROVE  /\ k < i + 1 => ~ Open(r, k)'
                 /\ k >= i + 1 => Asked(r, k)' /\ (k \in Members(Todo(r)) => Open(r, k)')
      <4>1. CASE k = i
        BY <1>3, <2>3, <2>7, <2>8, <2>11, <4>1 DEF Open, NoTag
      <4>2. CASE k # i
        <5>1. /\ k < req[r].next => ~ Open(r, k)
              /\ k >= req[r].next => Asked(r, k) /\ (k \in Members(Todo(r)) => Open(r, k))
          BY <1>1, <1>2 DEF RequestInv, Futures
        <5>2. (k < i + 1 => k < req[r].next) /\ (k >= i + 1 => k >= req[r].next)
          BY <1>3, <4>2 DEF i
        <5>3. (Open(r, k)' <=> Open(r, k)) /\ (Asked(r, k)' <=> Asked(r, k))
          BY <1>1, <2>7, <2>8, <2>11, <4>2 DEF Open, Asked
        <5> QED BY <5>1, <5>2, <5>3
      <4> QED BY <4>1, <4>2
    <3>2. \A k \in 1 .. Size(r) :
            /\ futs[r][k] = "too_large" => Verdict(Images(r)[k]) # NoTag
            /\ futs[r][k] = "error" => \/ Images(r)[k].runs = "faulty" \/ ~ Images(r)[k].decodes
                                       \/ \E m \in met : m.r = r /\ m.slot = k
      BY <1>1, <1>2 DEF RequestInv, Futures
    <3> QED BY <1>1, <2>11, <2>14, <3>1, <3>2 DEF Futures
  <2>20. Crewed(r)' /\ Claims(r)'
    BY <1>1, <2>11 DEF RequestInv, Crewed, Claims
  <2> QED BY <1>1, <2>11, <2>12, <2>13, <2>15, <2>16, <2>17, <2>18, <2>19, <2>20, OneRequest
          DEF RequestInv
<1>6. ~ (i > Len(Images(r))) => i <= Len(Images(r))
  BY <1>3 DEF Size
<1> QED BY <1>4, <1>5, <1>6 DEF AwaitSlot

----------------------------------------------------------------------------
(* The workers of the CPU surfaces.                                        *)

LEMMA CrewSize ==
  /\ MaxWorkers \in Nat /\ Pipelines <= MaxWorkers /\ RpcWorkers <= MaxWorkers
  /\ 1 <= MaxWorkers /\ Crew = 1 .. MaxWorkers /\ IsFiniteSet(Crew)
<1>1. Pipelines \in Nat \ {0} /\ RpcWorkers \in Nat \ {0}
  BY BatchAssumption
<1>2. MaxWorkers \in {Pipelines, RpcWorkers} /\ Pipelines <= MaxWorkers /\ RpcWorkers <= MaxWorkers
  BY <1>1 DEF MaxWorkers, Max
<1>3. MaxWorkers \in Nat /\ 1 <= MaxWorkers
  BY <1>1, <1>2
<1> QED BY <1>2, <1>3, FS_Interval DEF Crew

LEMMA HowMany ==
  ASSUME TypeOK, NEW r \in Requests, Shape(r), Begun(r)
  PROVE  /\ NumWorkers(r) \in Nat /\ NumWorkers(r) <= MaxWorkers
         /\ NumWorkers(r) = 0 => Surface(r) = "http_cpu" /\ Len(Todo(r)) = 0
<1>1. Len(Todo(r)) \in Nat /\ Size(r) \in Nat /\ Size(r) > 0
  <2>1. Len(Todo(r)) \in Nat /\ Size(r) \in Nat
    BY BatchShape
  <2> QED BY <2>1 DEF Shape
<1>2. /\ Pipelines \in Nat \ {0} /\ RpcWorkers \in Nat \ {0} /\ MaxWorkers \in Nat
      /\ Pipelines <= MaxWorkers /\ RpcWorkers <= MaxWorkers
  BY BatchAssumption, CrewSize
<1>3. Min({Len(Todo(r)), Pipelines})
        = IF Len(Todo(r)) <= Pipelines THEN Len(Todo(r)) ELSE Pipelines
  BY <1>1, <1>2, MinOfTwo
<1>4. Min({Size(r), RpcWorkers}) = IF Size(r) <= RpcWorkers THEN Size(r) ELSE RpcWorkers
  BY <1>1, <1>2, MinOfTwo
<1> HIDE DEF Size
<1>5. NumWorkers(r) = IF Surface(r) = "http_cpu" THEN Min({Len(Todo(r)), Pipelines})
                      ELSE Min({Size(r), RpcWorkers})
  BY DEF NumWorkers, Size
<1> QED BY <1>1, <1>2, <1>3, <1>4, <1>5

\* The slots the workers share: each once, and all that have no tag among them.
LEMMA SharedSlots ==
  ASSUME TypeOK, NEW r \in Requests, Shape(r), Begun(r)
  PROVE  /\ Len(Slots(r)) \in Nat
         /\ \A k \in 1 .. Len(Slots(r)) : Slots(r)[k] \in 1 .. Size(r)
         /\ NoRepeats(Slots(r))
         /\ \A i \in Members(Todo(r)) : \E k \in 1 .. Len(Slots(r)) : Slots(r)[k] = i
<1>1. /\ Size(r) \in Nat /\ DOMAIN Images(r) = 1 .. Size(r)
      /\ NoRepeats(Todo(r))
      /\ Len(Todo(r)) \in Nat /\ DOMAIN Todo(r) = 1 .. Len(Todo(r))
      /\ \A j \in 1 .. Len(Todo(r)) : Todo(r)[j] \in 1 .. Size(r)
  BY BatchShape
<1>2. CASE Surface(r) = "http_cpu"
  BY <1>1, <1>2 DEF Slots, Members
<1>3. CASE Surface(r) # "http_cpu"
  <2> DEFINE n == Size(r)
             id == [i \in 1 .. n |-> i]
  <2>1. id \in [1 .. n -> 1 .. n] /\ n \in Nat
    BY <1>1
  <2>2. Len(id) = n /\ \A k \in 1 .. n : id[k] = k
    BY <2>1, ListOf
  <2> HIDE DEF id, n
  <2>3. Slots(r) = id
    BY <1>1, <1>3 DEF Slots, id, n
  <2>4. NoRepeats(id)
    BY <2>2 DEF NoRepeats
  <2>5. \A i \in Members(Todo(r)) : i \in 1 .. n
    BY <1>1 DEF Members, n
  <2> QED BY <2>1, <2>2, <2>3, <2>4, <2>5 DEF n
<1> QED BY <1>2, <1>3

LEMMA FewPermits ==
  ASSUME TypeOK, NEW s
  PROVE  /\ IsFiniteSet(Permitted(s)) /\ Cardinality(Permitted(s)) \in Nat
         /\ IsFiniteSet(Holding) /\ Cardinality(Holding) \in Nat
<1>1. IsFiniteSet(Requests \X Crew)
  BY CrewSize, BatchAssumption, FS_Product
<1>2. Permitted(s) \subseteq Requests \X Crew /\ Holding \subseteq Requests \X Crew
  BY DEF Permitted, Holding
<1> QED BY <1>1, <1>2, FS_Subset, FS_CardinalityType

\* One worker takes a step: what it may take and give back is counted.
LEMMA WorkerSet ==
  ASSUME TypeOK, NEW r \in Requests, NEW w \in 1 .. Len(workers[r]), NEW v \in WorkerState,
         workers' = [workers EXCEPT ![r] = [workers[r] EXCEPT ![w] = v]]
  PROVE  /\ workers' \in [Requests -> Seq(WorkerState)]
         /\ \A d \in Requests \ {r} : workers'[d] = workers[d]
         /\ Len(workers'[r]) = Len(workers[r])
         /\ DOMAIN workers'[r] = DOMAIN workers[r]
         /\ \A u \in 1 .. Len(workers[r]) : workers'[r][u] = IF u = w THEN v ELSE workers[r][u]
<1> DEFINE f == [workers[r] EXCEPT ![w] = v]
<1>1. workers \in [Requests -> Seq(WorkerState)] /\ workers[r] \in Seq(WorkerState)
  BY DEF TypeOK
<1>2. /\ f \in Seq(WorkerState) /\ Len(f) = Len(workers[r]) /\ DOMAIN f = DOMAIN workers[r]
      /\ \A u \in 1 .. Len(workers[r]) : f[u] = IF u = w THEN v ELSE workers[r][u]
  BY <1>1, ExceptSeq
<1> HIDE DEF f
<1>3. workers' = [workers EXCEPT ![r] = f]
  BY DEF f
<1> QED BY <1>1, <1>2, <1>3

Due(taken) == IF taken THEN 1 ELSE 0

LEMMA CountOne ==
  ASSUME NEW S, IsFiniteSet(S), NEW T, NEW x, NEW before \in BOOLEAN, NEW after \in BOOLEAN,
         before <=> x \in S,
         T = IF after THEN S \cup {x} ELSE S \ {x}
  PROVE  Cardinality(T) = Cardinality(S) + Due(after) - Due(before)
<1>1. Cardinality(S) \in Nat
  BY FS_CardinalityType
<1>2. CASE after
  BY <1>1, <1>2, FS_AddElement DEF Due
<1>3. CASE ~ after
  BY <1>1, <1>3, FS_RemoveElement DEF Due
<1> QED BY <1>2, <1>3

LEMMA CountedStep ==
  ASSUME TypeOK, Counted, NEW r \in Requests, NEW w \in Crew, NEW v \in WorkerState,
         Len(workers[r]) = MaxWorkers,
         workers' = [workers EXCEPT ![r] = [workers[r] EXCEPT ![w] = v]],
         \A d \in Requests : Surface(d)' = Surface(d),
         permits' = [permits EXCEPT ![Surface(r)] =
                       permits[Surface(r)] - (Due(v.permit) - Due(workers[r][w].permit))],
         free' = free - (Due(v.holds) - Due(workers[r][w].holds))
  PROVE  Counted'
<1> DEFINE old == workers[r][w]
           x == <<r, w>>
<1>1. DOMAIN workers[r] = Crew /\ old \in WorkerState
  <2>1. workers[r] \in Seq(WorkerState)
    BY DEF TypeOK
  <2> QED BY <2>1, LenProperties, ElementOfSeq DEF Crew
<1>2. /\ \A d \in Requests \ {r} : workers'[d] = workers[d]
      /\ DOMAIN workers'[r] = Crew
      /\ \A u \in Crew : workers'[r][u] = IF u = w THEN v ELSE workers[r][u]
  BY <1>1, WorkerSet DEF Crew
<1>3. /\ old.permit \in BOOLEAN /\ v.permit \in BOOLEAN
      /\ old.holds \in BOOLEAN /\ v.holds \in BOOLEAN
  BY <1>1 DEF WorkerState
<1>4. \A s \in Surfaces : IsFiniteSet(Permitted(s)) /\ Cardinality(Permitted(s)) \in Nat
  BY FewPermits
<1>5. IsFiniteSet(Holding) /\ Cardinality(Holding) \in Nat
  BY FewPermits
<1>6. ASSUME NEW s \in Surfaces, s # Surface(r)
      PROVE  Permitted(s)' = Permitted(s)
  BY <1>2, <1>6 DEF Permitted
<1>7. Permitted(Surface(r))' = IF v.permit THEN Permitted(Surface(r)) \cup {x}
                               ELSE Permitted(Surface(r)) \ {x}
  BY <1>1, <1>2 DEF Permitted
<1>8. old.permit <=> x \in Permitted(Surface(r))
  BY <1>1 DEF Permitted
<1>9. Holding' = IF v.holds THEN Holding \cup {x} ELSE Holding \ {x}
  BY <1>1, <1>2 DEF Holding
<1>10. old.holds <=> x \in Holding
  BY <1>1 DEF Holding
<1>11. Surface(r) \in Surfaces
  BY DEF TypeOK, Request, Surface
<1>12. /\ permits \in [Surfaces -> Nat] /\ free \in Nat
       /\ Permits \in Nat /\ Pipelines \in Nat
  BY BatchAssumption DEF TypeOK
<1>13. Due(v.permit) \in Nat /\ Due(old.permit) \in Nat /\ Due(v.holds) \in Nat /\ Due(old.holds) \in Nat
  BY DEF Due
<1> HIDE DEF old, x
<1>14. Cardinality(Permitted(Surface(r))')
         = Cardinality(Permitted(Surface(r))) + Due(v.permit) - Due(old.permit)
  BY <1>3, <1>4, <1>7, <1>8, <1>11, CountOne
<1>15. Cardinality(Holding') = Cardinality(Holding) + Due(v.holds) - Due(old.holds)
  BY <1>3, <1>5, <1>9, <1>10, CountOne
<1>16. ASSUME NEW s \in Surfaces
       PROVE  permits'[s] + Cardinality(Permitted(s)') = Permits
  <2>1. permits[s] + Cardinality(Permitted(s)) = Permits
    BY DEF Counted
  <2>2. CASE s = Surface(r)
    <3>1. permits'[s] = permits[s] - (Due(v.permit) - Due(old.permit))
      BY <1>12, <2>2 DEF old
    <3>2. Cardinality(Permitted(s)') = Cardinality(Permitted(s)) + Due(v.permit) - Due(old.permit)
      BY <1>14, <2>2
    <3>3. Cardinality(Permitted(s)) \in Nat /\ permits[s] \in Nat
      BY <1>4, <1>12
    <3> QED BY <1>12, <1>13, <2>1, <3>1, <3>2, <3>3
  <2>3. CASE s # Surface(r)
    BY <1>6, <1>12, <2>1, <2>3
  <2> QED BY <2>2, <2>3
<1>17. free' + Cardinality(Holding') = Pipelines
  BY <1>5, <1>12, <1>13, <1>15 DEF Counted, old
<1> QED BY <1>16, <1>17 DEF Counted

OnCpu(r) == req[r].pc \in {"permits", "fan", "join"}

LEMMA CpuFacts ==
  ASSUME BatchInv, NEW r \in Requests, OnCpu(r)
  PROVE  /\ TypeOK /\ RequestInv(r) /\ Counted /\ req[r] \in Request
         /\ Begun(r) /\ Shape(r) /\ req[r].reply = "none" /\ task[r].st = "none"
         /\ Surface(r) \in {"http_cpu", "rpc_cpu"}
         /\ Size(r) \in Nat /\ Len(workers[r]) = MaxWorkers /\ DOMAIN workers[r] = Crew
         /\ \A w \in Crew : workers[r][w] \in WorkerState
         /\ permits \in [Surfaces -> Nat] /\ free \in Nat
<1>1. TypeOK /\ RequestInv(r) /\ Counted /\ req[r] \in Request
  BY DEF BatchInv, TypeOK
<1>2. Begun(r) /\ req[r].reply = "none" /\ ~ OnGpu(Surface(r)) /\ Shape(r)
  BY <1>1 DEF RequestInv, Stage, Begun, OnCpu
<1>3. Surface(r) \in {"http_cpu", "rpc_cpu"}
  BY <1>1, <1>2 DEF Request, Surface, Surfaces, OnGpu
<1>4. task[r].st = "none"
  BY <1>1, <1>3 DEF RequestInv, Stage
<1>5. /\ Size(r) \in Nat /\ DOMAIN workers[r] = Crew
      /\ \A w \in Crew : workers[r][w] \in WorkerState
  BY <1>1, <1>2, BatchShape
<1>6. Len(workers[r]) = MaxWorkers
  BY <1>2 DEF Shape
<1>7. permits \in [Surfaces -> Nat] /\ free \in Nat
  BY <1>1 DEF TypeOK
<1> QED BY <1>1, <1>2, <1>3, <1>4, <1>5, <1>6, <1>7

\* What is left to show of a step of a handler or a worker of a CPU surface.
LEMMA CpuStep ==
  ASSUME BatchInv, NEW r \in Requests, OnCpu(r),
         req' \in [Requests -> Request], \A d \in Requests \ {r} : req'[d] = req[d],
         Surface(r)' = Surface(r), Images(r)' = Images(r), Todo(r)' = Todo(r),
         Len(req'[r].tags) = Size(r), Len(req'[r].outs) = Size(r),
         \/ req'[r].pc = "replied" /\ req'[r].reply = "200"
         \/ OnCpu(r)' /\ req'[r].reply = "none",
         workers' \in [Requests -> Seq(WorkerState)],
         \A d \in Requests \ {r} : workers'[d] = workers[d],
         Len(workers'[r]) = MaxWorkers,
         permits' \in [Surfaces -> Nat], free' \in Nat, UNCHANGED <<task, futs, faults, met>>,
         Counted', Slotted(r)', Blame(r)', Crewed(r)', Claims(r)'
  PROVE  BatchInv'
<1>1. /\ TypeOK /\ RequestInv(r) /\ Begun(r) /\ task[r].st = "none"
      /\ Surface(r) \in {"http_cpu", "rpc_cpu"}
  BY CpuFacts
<1>2. TypeOK'
  BY <1>1 DEF TypeOK
<1>3. Begun(r)' /\ Size(r)' = Size(r)
  BY DEF Begun, Size, OnCpu
<1>4. Shape(r)'
  BY <1>1, <1>3 DEF RequestInv, Shape
<1>5. Stage(r)'
  BY <1>1 DEF Stage, OnGpu, OnCpu
<1>6. Chunks(r)'
  BY <1>1 DEF Chunks
<1>7. Futures(r)'
  BY <1>1, <1>3 DEF RequestInv, Futures, OnCpu
<1> QED BY <1>1, <1>2, <1>4, <1>5, <1>6, <1>7, OneRequest DEF RequestInv

\* A step that leaves the slots alone.
LEMMA SlotsKept ==
  ASSUME BatchInv, NEW r \in Requests, OnCpu(r), OnCpu(r)',
         Surface(r)' = Surface(r), Images(r)' = Images(r), Todo(r)' = Todo(r),
         req'[r].tags = req[r].tags, req'[r].outs = req[r].outs, req'[r].late = req[r].late,
         req'[r].reply = "none", req'[r].pc = "permits" => req[r].pc = "permits", met' = met
  PROVE  Slotted(r)' /\ Blame(r)'
<1>1. Begun(r) /\ Begun(r)' /\ RequestInv(r)
  BY CpuFacts DEF Begun, OnCpu
<1>2. \A i : (Open(r, i)' <=> Open(r, i)) /\ (Settled(r, i)' <=> Settled(r, i))
             /\ (Excused(r, i)' <=> Excused(r, i))
  BY DEF Open, Settled, Excused
<1>3. Size(r)' = Size(r)
  BY DEF Size
<1>4. Slotted(r)'
  BY <1>1, <1>2, <1>3 DEF RequestInv, Slotted, OnCpu
<1>5. Blame(r)'
  BY <1>1, <1>2, <1>3 DEF RequestInv, Blame
<1> QED BY <1>4, <1>5

LEMMA PermitKeeps ==
  ASSUME BatchInv, NEW r \in Requests, Permit(r)
  PROVE  BatchInv'
<1> DEFINE w == req[r].next
           s == Surface(r)
           granted == permits[s] > 0
<1>1. /\ req[r].pc = "permits" /\ OnCpu(r)
      /\ UNCHANGED <<task, futs, free, faults, met>>
  BY DEF Permit, OnCpu, errors
<1>2. /\ TypeOK /\ RequestInv(r) /\ Counted /\ req[r] \in Request
      /\ Begun(r) /\ Shape(r) /\ req[r].reply = "none" /\ task[r].st = "none"
      /\ Surface(r) \in {"http_cpu", "rpc_cpu"}
      /\ Size(r) \in Nat /\ Len(workers[r]) = MaxWorkers /\ DOMAIN workers[r] = Crew
      /\ \A u \in Crew : workers[r][u] \in WorkerState
      /\ permits \in [Surfaces -> Nat] /\ free \in Nat
  BY <1>1, CpuFacts
<1>3. w \in Nat \ {0} /\ s \in Surfaces /\ permits[s] \in Nat
  BY <1>2 DEF Request, Positive, Surface
<1>4. /\ NumWorkers(r) \in Nat /\ NumWorkers(r) <= MaxWorkers /\ MaxWorkers \in Nat
      /\ Crew = 1 .. MaxWorkers
  BY <1>2, HowMany, CrewSize
<1>5. /\ Len(req[r].tags) = Size(r) /\ Len(req[r].outs) = Size(r)
      /\ \A u \in Crew : workers[r][u].at = "none" /\ ~ workers[r][u].holds
      /\ \A u \in Crew : u > w => ~ workers[r][u].permit
      /\ s = "http_cpu" => \A u \in Crew : ~ workers[r][u].permit
  BY <1>1, <1>2 DEF RequestInv, Crewed, Shape
<1>6. CASE /\ s = "rpc_cpu" /\ w < NumWorkers(r)
           /\ req' = [req EXCEPT ![r].next = w + 1]
           /\ workers' = [workers EXCEPT ![r][w + 1].permit = granted]
           /\ permits' = [permits EXCEPT ![s] = @ - IF granted THEN 1 ELSE 0]
  <2> DEFINE u == w + 1
             v == [workers[r][u] EXCEPT !.permit = granted]
  <2>1. u \in Crew /\ u \in Positive /\ u > w
    BY <1>3, <1>4, <1>6 DEF Positive
  <2>2. req' = [req EXCEPT ![r].next = u] /\ workers' = [workers EXCEPT ![r][u].permit = granted]
    BY <1>6
  <2> HIDE DEF u
  <2>3. /\ req' \in [Requests -> Request]
        /\ \A d \in Requests \ {r} : req'[d] = req[d]
        /\ Surface(r)' = Surface(r) /\ Images(r)' = Images(r) /\ Todo(r)' = Todo(r)
        /\ req'[r].tags = req[r].tags /\ req'[r].outs = req[r].outs
        /\ req'[r].next = u /\ req'[r].late = req[r].late
        /\ req'[r].pc = req[r].pc /\ req'[r].reply = req[r].reply
    BY <1>2, <2>1, <2>2 DEF TypeOK, Request, Surface, Images, Todo
  <2>4. /\ workers[r][u] \in WorkerState /\ ~ workers[r][u].permit
        /\ granted \in BOOLEAN
    BY <1>2, <1>3, <1>5, <2>1
  <2>5. /\ v \in WorkerState /\ v.permit = granted /\ v.at = workers[r][u].at
        /\ v.holds = workers[r][u].holds
    <3> HIDE DEF granted
    <3> QED BY <2>4 DEF WorkerState
  <2>6. workers' = [workers EXCEPT ![r] = [workers[r] EXCEPT ![u] = v]]
    BY <2>2
  <2> HIDE DEF v
  <2>7. /\ workers' \in [Requests -> Seq(WorkerState)]
        /\ \A d \in Requests \ {r} : workers'[d] = workers[d]
        /\ Len(workers'[r]) = MaxWorkers /\ DOMAIN workers'[r] = Crew
        /\ \A x \in Crew : workers'[r][x] = IF x = u THEN v ELSE workers[r][x]
    BY <1>2, <1>4, <2>1, <2>5, <2>6, WorkerSet
  <2>8. \A d \in Requests : Surface(d)' = Surface(d)
    BY <2>3 DEF Surface
  <2>9. permits' = [permits EXCEPT ![s] =
                      permits[s] - (Due(v.permit) - Due(workers[r][u].permit))]
    <3>1. (IF granted THEN 1 ELSE 0) = Due(v.permit) - Due(workers[r][u].permit)
      <4> HIDE DEF granted
      <4>1. Due(workers[r][u].permit) = 0
        BY <2>4 DEF Due
      <4>2. v.permit <=> granted
        BY <2>5
      <4>3. Due(v.permit) = IF granted THEN 1 ELSE 0
        BY <4>2 DEF Due
      <4> QED BY <4>1, <4>3
    <3>2. permits' = [permits EXCEPT ![s] = permits[s] - IF granted THEN 1 ELSE 0]
      BY <1>2, <1>3, <1>6
    <3> HIDE DEF granted, s
    <3> QED BY <3>1, <3>2
  <2>10. free' = free - (Due(v.holds) - Due(workers[r][u].holds))
    <3>1. Due(v.holds) = Due(workers[r][u].holds) /\ Due(v.holds) \in Nat
      BY <2>5 DEF Due
    <3> QED BY <1>1, <1>2, <3>1
  <2>11. Counted'
    <3> HIDE DEF s
    <3> QED BY <1>2, <2>1, <2>5, <2>6, <2>8, <2>9, <2>10, CountedStep DEF s
  <2>12. permits' \in [Surfaces -> Nat] /\ free' \in Nat
    BY <1>1, <1>2, <1>3, <1>6
  <2>13. OnCpu(r)'
    BY <1>1, <2>3 DEF OnCpu
  <2>14. Slotted(r)' /\ Blame(r)'
    BY <1>1, <1>2, <2>3, <2>13, SlotsKept
  <2>15. \A x \in Crew : /\ workers'[r][x].at = "none" /\ ~ workers'[r][x].holds
                         /\ x > u => ~ workers'[r][x].permit
    BY <1>3, <1>4, <1>5, <2>1, <2>5, <2>7 DEF u
  <2>16. Crewed(r)'
    <3>1. \A x \in Crew : ~ (x <= 0)
      BY <1>4
    <3>2. 0 \in Nat /\ \A x \in DOMAIN workers'[r] : workers'[r][x].at # "none" <=> x <= 0
      BY <2>7, <2>15, <3>1
    <3> QED BY <1>1, <1>6, <2>3, <2>7, <2>15, <3>2 DEF Crewed
  <2>17. Claims(r)'
    BY <1>1, <2>3 DEF Claims
  <2> QED BY <1>1, <1>2, <1>5, <2>3, <2>7, <2>11, <2>12, <2>13, <2>14, <2>16, <2>17, CpuStep
<1>7. CASE /\ s = "http_cpu" \/ w >= NumWorkers(r)
           /\ req' = [req EXCEPT ![r].next = 1,
                                 ![r].pc = IF NumWorkers(r) = 0 THEN "join" ELSE "fan"]
           /\ UNCHANGED <<workers, permits>>
  <2> DEFINE pc == IF NumWorkers(r) = 0 THEN "join" ELSE "fan"
  <2>1. pc \in {"join", "fan"} /\ 1 \in Positive /\ req' = [req EXCEPT ![r].next = 1, ![r].pc = pc]
        /\ (pc = "fan" => NumWorkers(r) # 0) /\ (pc = "join" => NumWorkers(r) = 0)
    BY <1>7 DEF Positive
  <2> HIDE DEF pc
  <2>2. /\ req' \in [Requests -> Request]
        /\ \A d \in Requests \ {r} : req'[d] = req[d]
        /\ Surface(r)' = Surface(r) /\ Images(r)' = Images(r) /\ Todo(r)' = Todo(r)
        /\ req'[r].tags = req[r].tags /\ req'[r].outs = req[r].outs
        /\ req'[r].next = 1 /\ req'[r].late = req[r].late
        /\ req'[r].pc = pc /\ req'[r].reply = req[r].reply
    BY <1>2, <2>1 DEF TypeOK, Request, Surface, Images, Todo
  <2>3. OnCpu(r)' /\ req'[r].pc # "permits"
    BY <2>1, <2>2 DEF OnCpu
  <2>4. Counted'
    <3>1. \A d \in Requests : Surface(d)' = Surface(d)
      BY <2>2 DEF Surface
    <3> QED BY <1>1, <1>2, <1>7, <3>1, CountsKept
  <2>5. Slotted(r)' /\ Blame(r)'
    BY <1>1, <1>2, <2>2, <2>3, SlotsKept
  <2>6. Crewed(r)'
    BY <1>1, <1>2, <1>7, <2>1, <2>2 DEF RequestInv, Crewed
  <2>7. Claims(r)'
    <3>1. Slots(r)' = Slots(r) /\ NumWorkers(r)' = NumWorkers(r)
      BY <2>2 DEF Slots, NumWorkers
    <3>2. \A u \in Crew : ~ InHand(r, u)' /\ workers'[r][u].at # "gone"
      BY <1>5, <1>7 DEF InHand
    <3>3. \A i : Open(r, i)' <=> Open(r, i)
      BY <2>2 DEF Open
    <3>4. \A i \in Members(Todo(r)) : Open(r, i)
      BY <1>1, <1>2 DEF RequestInv, Slotted
    <3>5. NumWorkers(r) # 0 => NumWorkers(r) >= 1
      BY <1>4
    <3>6. ~ (NumWorkers(r) = 0 /\ NumWorkers(r) >= 1)
      BY <1>4
    <3>7. \A k \in 1 .. Len(Slots(r)) : k >= 1
      OBVIOUS
    <3> QED BY <2>1, <2>2, <3>1, <3>2, <3>3, <3>4, <3>5, <3>6, <3>7 DEF Claims
  <2>8. permits' \in [Surfaces -> Nat] /\ free' \in Nat
    BY <1>1, <1>2, <1>7
  <2>9. workers' \in [Requests -> Seq(WorkerState)] /\ \A d \in Requests : workers'[d] = workers[d]
    BY <1>2, <1>7 DEF TypeOK
  <2> QED BY <1>1, <1>2, <1>5, <2>2, <2>3, <2>4, <2>5, <2>6, <2>7, <2>8, <2>9, CpuStep
<1> QED BY <1>6, <1>7 DEF Permit

\* The workers that have begun are the first Used(r) of them.
LEMMA UsedFirst ==
  ASSUME BatchInv, NEW r \in Requests, OnCpu(r)
  PROVE  /\ Used(r) \in Nat /\ Used(r) <= MaxWorkers
         /\ \A x \in Crew : workers[r][x].at # "none" <=> x <= Used(r)
<1>1. RequestInv(r) /\ DOMAIN workers[r] = Crew /\ Crew = 1 .. MaxWorkers /\ MaxWorkers \in Nat
  BY CpuFacts, CrewSize
<1>2. PICK u \in Nat : \A x \in Crew : workers[r][x].at # "none" <=> x <= u
  BY <1>1 DEF RequestInv, Crewed
<1> DEFINE m == IF u <= MaxWorkers THEN u ELSE MaxWorkers
<1>3. m \in Nat /\ m <= MaxWorkers /\ \A x \in Crew : x <= u <=> x <= m
  BY <1>1
<1> HIDE DEF m
<1>4. {x \in Crew : workers[r][x].at # "none"} = 1 .. m
  BY <1>1, <1>2, <1>3
<1>5. Cardinality(1 .. m) = m
  <2>1. 1 \in Int /\ m \in Int /\ m - 1 + 1 = m
    BY <1>3
  <2>2. Cardinality(1 .. m) = IF 1 > m THEN 0 ELSE m - 1 + 1
    BY <2>1, FS_Interval
  <2> QED BY <1>3, <2>1, <2>2
<1>6. Used(r) = m
  BY <1>1, <1>4, <1>5 DEF Used
<1> QED BY <1>2, <1>3, <1>6

LEMMA ClaimsKept ==
  ASSUME BatchInv, NEW r \in Requests, req[r].pc \in {"fan", "join"},
         Surface(r)' = Surface(r), Images(r)' = Images(r), Todo(r)' = Todo(r),
         req'[r].tags = req[r].tags, req'[r].outs = req[r].outs, req'[r].next = req[r].next,
         req'[r].pc = "fan" => req[r].pc = "fan",
         req'[r].pc = "join" => req[r].pc = "join" \/ workers'[r][1].at # "none",
         \A x \in Crew : /\ InHand(r, x)' <=> InHand(r, x)
                         /\ workers'[r][x].k = workers[r][x].k
                         /\ workers'[r][x].at = "gone" => workers[r][x].at = "gone"
                         /\ workers[r][x].at # "none" => workers'[r][x].at # "none"
  PROVE  Claims(r)'
<1>1. Claims(r) /\ 1 \in Crew
  BY CpuFacts, CrewSize DEF RequestInv, OnCpu
<1>2. Slots(r)' = Slots(r) /\ NumWorkers(r)' = NumWorkers(r)
  BY DEF Slots, NumWorkers
<1>3. \A i : Open(r, i)' <=> Open(r, i)
  BY DEF Open
<1> QED BY <1>1, <1>2, <1>3 DEF Claims

\* A worker at work takes a step: its request has fanned out.
LEMMA AtWork ==
  ASSUME BatchInv, NEW r \in Requests, NEW w \in DOMAIN workers[r],
         workers[r][w].at \notin {"none", "gone"}
  PROVE  req[r].pc \in {"fan", "join"} /\ OnCpu(r) /\ w \in Crew
<1>1. RequestInv(r) /\ TypeOK /\ req[r] \in Request
  BY DEF BatchInv, TypeOK
<1>2. req[r].pc \in {"fan", "join"}
  BY <1>1 DEF RequestInv, Crewed, Request
<1>3. OnCpu(r)
  BY <1>2 DEF OnCpu
<1> QED BY <1>2, <1>3, CpuFacts

\* A worker begins, which is the next one.
LEMMA BeginKeeps ==
  ASSUME BatchInv, NEW r \in Requests, req[r].pc = "fan",
         NEW w \in Crew, w = Used(r) + 1, NEW v \in WorkerState,
         workers' = [workers EXCEPT ![r] = [workers[r] EXCEPT ![w] = v]],
         v.at = IF Surface(r) = "http_cpu" THEN "acquire" ELSE "claim",
         ~ v.holds, w > 1 => v.permit, v.k = workers[r][w].k,
         permits' = [permits EXCEPT ![Surface(r)] =
                       permits[Surface(r)] - (Due(v.permit) - Due(workers[r][w].permit))],
         permits' \in [Surfaces -> Nat], UNCHANGED <<req, task, futs, free, faults, met>>
  PROVE  BatchInv'
<1>1. OnCpu(r)
  BY DEF OnCpu
<1>2. /\ TypeOK /\ RequestInv(r) /\ Counted /\ Shape(r)
      /\ req[r].reply = "none" /\ Surface(r) \in {"http_cpu", "rpc_cpu"}
      /\ Len(workers[r]) = MaxWorkers /\ DOMAIN workers[r] = Crew
      /\ workers[r][w] \in WorkerState /\ free \in Nat
  BY <1>1, CpuFacts
<1>3. /\ Used(r) \in Nat /\ Used(r) <= MaxWorkers
      /\ \A x \in Crew : workers[r][x].at # "none" <=> x <= Used(r)
      /\ Crew = 1 .. MaxWorkers /\ MaxWorkers \in Nat
  BY <1>1, UsedFirst, CrewSize
<1>4. workers[r][w].at = "none" /\ ~ workers[r][w].holds
  BY <1>2, <1>3 DEF RequestInv, Crewed
<1>5. /\ workers' \in [Requests -> Seq(WorkerState)]
      /\ \A d \in Requests \ {r} : workers'[d] = workers[d]
      /\ Len(workers'[r]) = MaxWorkers /\ DOMAIN workers'[r] = Crew
      /\ \A x \in Crew : workers'[r][x] = IF x = w THEN v ELSE workers[r][x]
  BY <1>2, <1>3, WorkerSet
<1>6. Surface(r)' = Surface(r) /\ Images(r)' = Images(r) /\ Todo(r)' = Todo(r) /\ OnCpu(r)'
  BY <1>1 DEF Surface, Images, Todo, OnCpu
<1>7. Counted'
  <2>1. free' = free - (Due(v.holds) - Due(workers[r][w].holds))
    <3>1. Due(v.holds) = 0 /\ Due(workers[r][w].holds) = 0
      BY <1>4 DEF Due
    <3> QED BY <1>2, <3>1
  <2>2. \A d \in Requests : Surface(d)' = Surface(d)
    BY DEF Surface
  <2> QED BY <1>2, <2>1, <2>2, CountedStep
<1>8. Slotted(r)' /\ Blame(r)'
  BY <1>1, <1>2, <1>6, SlotsKept
<1>9. Crewed(r)'
  <2>1. w \in Nat /\ \A x \in DOMAIN workers'[r] : workers'[r][x].at # "none" <=> x <= w
    BY <1>3, <1>5
  <2>2. \A x \in DOMAIN workers'[r] :
          /\ workers'[r][x].at \in {"none", "acquire", "gone"} => ~ workers'[r][x].holds
          /\ workers'[r][x].at = "run" => workers'[r][x].holds
          /\ workers'[r][x].at = "claim" => (workers'[r][x].holds <=> Surface(r) = "http_cpu")
          /\ x > 1 /\ workers'[r][x].at \notin {"none", "gone"} => workers'[r][x].permit
          /\ workers'[r][x].at = "none" /\ Surface(r) = "http_cpu" => ~ workers'[r][x].permit
    BY <1>2, <1>5 DEF RequestInv, Crewed
  <2> QED BY <1>6, <2>1, <2>2 DEF Crewed
<1>10. Claims(r)'
  <2>1. \A x \in Crew : /\ InHand(r, x)' <=> InHand(r, x)
                        /\ workers'[r][x].k = workers[r][x].k
                        /\ workers'[r][x].at = "gone" => workers[r][x].at = "gone"
                        /\ workers[r][x].at # "none" => workers'[r][x].at # "none"
    BY <1>2, <1>4, <1>5, <1>6 DEF InHand
  <2> QED BY <1>6, <2>1, ClaimsKept
<1>11. Len(req[r].tags) = Size(r) /\ Len(req[r].outs) = Size(r) /\ req \in [Requests -> Request]
  BY <1>1, <1>2, CpuFacts DEF Shape, TypeOK
<1> QED BY <1>1, <1>2, <1>5, <1>6, <1>7, <1>8, <1>9, <1>10, <1>11, CpuStep

LEMMA FanOutKeeps ==
  ASSUME BatchInv, NEW r \in Requests, FanOut(r)
  PROVE  BatchInv'
<1> DEFINE w == Used(r) + 1
           s == Surface(r)
           granted == /\ w <= NumWorkers(r)
                      /\ IF s = "rpc_cpu" THEN workers[r][w].permit ELSE permits[s] > 0
<1>1. /\ req[r].pc = "fan" /\ OnCpu(r)
      /\ UNCHANGED <<task, futs, free, faults, met>>
  BY DEF FanOut, OnCpu, errors
<1>2. /\ TypeOK /\ RequestInv(r) /\ Counted /\ req[r] \in Request
      /\ Begun(r) /\ Shape(r) /\ req[r].reply = "none"
      /\ Surface(r) \in {"http_cpu", "rpc_cpu"}
      /\ Len(workers[r]) = MaxWorkers /\ DOMAIN workers[r] = Crew
      /\ \A x \in Crew : workers[r][x] \in WorkerState
      /\ permits \in [Surfaces -> Nat] /\ free \in Nat
  BY <1>1, CpuFacts
<1>3. /\ Used(r) \in Nat /\ Used(r) <= MaxWorkers
      /\ \A x \in Crew : workers[r][x].at # "none" <=> x <= Used(r)
      /\ Crew = 1 .. MaxWorkers /\ MaxWorkers \in Nat /\ 1 <= MaxWorkers
  BY <1>1, UsedFirst, CrewSize
<1>4. NumWorkers(r) \in Nat /\ NumWorkers(r) <= MaxWorkers
  BY <1>2, HowMany
<1>5. s \in Surfaces /\ permits[s] \in Nat /\ w \in Nat \ {0}
  BY <1>2, <1>3 DEF Surfaces
<1>6. w \in Crew => /\ workers[r][w].at = "none" /\ ~ workers[r][w].holds
                    /\ s = "http_cpu" => ~ workers[r][w].permit
  <2>1. ~ (w <= Used(r))
    BY <1>3
  <2> HIDE DEF w
  <2> QED BY <1>2, <1>3, <2>1 DEF RequestInv, Crewed
<1>7. CASE (w = 1 \/ (s = "rpc_cpu" /\ granted)) /\ Begin(r, w) /\ UNCHANGED <<req, permits>>
  <2> DEFINE v == [workers[r][w] EXCEPT !.at = IF s = "http_cpu" THEN "acquire" ELSE "claim"]
  <2>1. w \in Crew
    BY <1>3, <1>4, <1>5, <1>7
  <2>2. w > 1 => workers[r][w].permit
    BY <1>5, <1>7
  <2>3. Begin(r, w)
    BY <1>7
  <2> HIDE DEF w
  <2>4. workers[r][w] \in WorkerState
    BY <1>2, <2>1
  <2>5. /\ v \in WorkerState /\ v.at = (IF s = "http_cpu" THEN "acquire" ELSE "claim")
        /\ v.holds = workers[r][w].holds /\ v.permit = workers[r][w].permit
        /\ v.k = workers[r][w].k
    BY <2>4 DEF WorkerState
  <2>6. workers' = [workers EXCEPT ![r] = [workers[r] EXCEPT ![w] = v]]
    BY <2>3 DEF Begin
  <2> HIDE DEF v
  <2>7. permits' = [permits EXCEPT ![s] =
                      permits[s] - (Due(v.permit) - Due(workers[r][w].permit))]
    <3>1. Due(v.permit) = Due(workers[r][w].permit) /\ Due(v.permit) \in Nat
      BY <2>5 DEF Due
    <3> HIDE DEF s
    <3>2. permits[s] - (Due(v.permit) - Due(workers[r][w].permit)) = permits[s]
      BY <1>5, <3>1
    <3> QED BY <1>2, <1>5, <1>7, <3>2
  <2>8. permits' \in [Surfaces -> Nat]
    BY <1>2, <1>7
  <2> QED BY <1>1, <1>6, <1>7, <2>1, <2>2, <2>5, <2>6, <2>7, <2>8, BeginKeeps DEF w
<1>8. CASE /\ w > 1 /\ s = "http_cpu" /\ granted
           /\ workers' = [workers EXCEPT ![r][w].at = "acquire", ![r][w].permit = TRUE]
           /\ permits' = [permits EXCEPT ![s] = @ - 1]
           /\ UNCHANGED req
  <2> DEFINE v == [workers[r][w] EXCEPT !.at = "acquire", !.permit = TRUE]
  <2>1. w \in Crew /\ permits[s] > 0
    BY <1>3, <1>4, <1>5, <1>8
  <2>2. workers' = [workers EXCEPT ![r][w].at = "acquire", ![r][w].permit = TRUE]
    BY <1>8
  <2> HIDE DEF w
  <2>3. workers[r][w] \in WorkerState /\ workers \in [Requests -> Seq(WorkerState)]
    BY <1>2, <2>1 DEF TypeOK
  <2>4. /\ v \in WorkerState /\ v.at = "acquire" /\ v.permit = TRUE
        /\ v.holds = workers[r][w].holds /\ v.k = workers[r][w].k
    BY <2>3 DEF WorkerState
  <2>5. workers' = [workers EXCEPT ![r] = [workers[r] EXCEPT ![w] = v]]
    BY <1>2, <2>1, <2>2, <2>3
  <2> HIDE DEF v
  <2>6. permits' = [permits EXCEPT ![s] =
                      permits[s] - (Due(v.permit) - Due(workers[r][w].permit))]
    <3>1. Due(v.permit) = 1 /\ Due(workers[r][w].permit) = 0
      BY <1>6, <1>8, <2>1, <2>4 DEF Due
    <3> QED BY <1>2, <1>5, <1>8, <3>1
  <2>7. permits' \in [Surfaces -> Nat]
    <3>1. permits[s] - 1 \in Nat
      BY <1>5, <2>1
    <3> HIDE DEF s
    <3> QED BY <1>2, <1>5, <1>8, <3>1 DEF s
  <2> QED BY <1>1, <1>6, <1>8, <2>1, <2>4, <2>5, <2>6, <2>7, BeginKeeps DEF w
<1>9. CASE /\ w > 1 /\ ~ granted
           /\ req' = [req EXCEPT ![r].pc = "join"] /\ UNCHANGED <<workers, permits>>
  <2>1. /\ req' \in [Requests -> Request]
        /\ \A d \in Requests \ {r} : req'[d] = req[d]
        /\ Surface(r)' = Surface(r) /\ Images(r)' = Images(r) /\ Todo(r)' = Todo(r)
        /\ req'[r].tags = req[r].tags /\ req'[r].outs = req[r].outs
        /\ req'[r].next = req[r].next /\ req'[r].late = req[r].late
        /\ req'[r].pc = "join" /\ req'[r].reply = req[r].reply
    BY <1>2, <1>9 DEF TypeOK, Request, Surface, Images, Todo
  <2>2. OnCpu(r)'
    BY <2>1 DEF OnCpu
  <2>3. Counted'
    <3>1. \A d \in Requests : Surface(d)' = Surface(d)
      BY <2>1 DEF Surface
    <3> QED BY <1>1, <1>2, <1>9, <3>1, CountsKept
  <2>4. Slotted(r)' /\ Blame(r)'
    BY <1>1, <1>2, <2>1, <2>2, SlotsKept
  <2>5. Crewed(r)'
    BY <1>1, <1>2, <1>9, <2>1 DEF RequestInv, Crewed
  <2>6. Claims(r)'
    <3>1. 1 \in Crew /\ 1 <= Used(r)
      BY <1>3, <1>9
    <3>2. workers[r][1].at # "none"
      BY <1>3, <3>1
    <3>3. \A x \in Crew : InHand(r, x)' <=> InHand(r, x)
      BY <1>9, <2>1 DEF InHand
    <3> QED BY <1>1, <1>9, <2>1, <3>2, <3>3, ClaimsKept
  <2>7. /\ permits' \in [Surfaces -> Nat] /\ free' \in Nat
        /\ workers' \in [Requests -> Seq(WorkerState)]
        /\ \A d \in Requests : workers'[d] = workers[d]
        /\ Len(req[r].tags) = Size(r) /\ Len(req[r].outs) = Size(r)
    BY <1>1, <1>2, <1>9 DEF TypeOK, Shape
  <2> QED BY <1>1, <1>2, <2>1, <2>2, <2>3, <2>4, <2>5, <2>6, <2>7, CpuStep
<1> QED BY <1>7, <1>8, <1>9 DEF FanOut

\* A worker at work moves on: the first workers are still the ones that have begun.
LEMMA CrewMoves ==
  ASSUME BatchInv, NEW r \in Requests, NEW w \in DOMAIN workers[r], NEW v \in WorkerState,
         workers[r][w].at \notin {"none", "gone"},
         workers' = [workers EXCEPT ![r] = [workers[r] EXCEPT ![w] = v]],
         Surface(r)' = Surface(r), req'[r].pc = req[r].pc,
         v.at # "none", v.permit = workers[r][w].permit,
         v.at \in {"acquire", "gone"} => ~ v.holds, v.at = "run" => v.holds,
         v.at = "claim" => (v.holds <=> Surface(r) = "http_cpu")
  PROVE  /\ workers' \in [Requests -> Seq(WorkerState)]
         /\ \A d \in Requests \ {r} : workers'[d] = workers[d]
         /\ Len(workers'[r]) = MaxWorkers /\ DOMAIN workers'[r] = Crew
         /\ \A x \in Crew : workers'[r][x] = IF x = w THEN v ELSE workers[r][x]
         /\ Crewed(r)'
<1>1. req[r].pc \in {"fan", "join"} /\ OnCpu(r) /\ w \in Crew
  BY AtWork
<1>2. /\ TypeOK /\ RequestInv(r) /\ Len(workers[r]) = MaxWorkers
      /\ DOMAIN workers[r] = Crew /\ Crew = 1 .. MaxWorkers
  BY <1>1, CpuFacts, CrewSize
<1>3. /\ workers' \in [Requests -> Seq(WorkerState)]
      /\ \A d \in Requests \ {r} : workers'[d] = workers[d]
      /\ Len(workers'[r]) = MaxWorkers /\ DOMAIN workers'[r] = Crew
      /\ \A x \in Crew : workers'[r][x] = IF x = w THEN v ELSE workers[r][x]
  BY <1>1, <1>2, WorkerSet
<1>4. \E u \in Nat : \A x \in DOMAIN workers'[r] : workers'[r][x].at # "none" <=> x <= u
  <2>1. PICK u \in Nat : \A x \in Crew : workers[r][x].at # "none" <=> x <= u
    BY <1>2 DEF RequestInv, Crewed
  <2> QED BY <1>3, <2>1
<1>5. \A x \in DOMAIN workers'[r] :
        /\ workers'[r][x].at \in {"none", "acquire", "gone"} => ~ workers'[r][x].holds
        /\ workers'[r][x].at = "run" => workers'[r][x].holds
        /\ workers'[r][x].at = "claim" => (workers'[r][x].holds <=> Surface(r) = "http_cpu")
        /\ x > 1 /\ workers'[r][x].at \notin {"none", "gone"} => workers'[r][x].permit
        /\ workers'[r][x].at = "none" /\ Surface(r) = "http_cpu" => ~ workers'[r][x].permit
  BY <1>2, <1>3 DEF RequestInv, Crewed
<1>6. Crewed(r)'
  BY <1>1, <1>4, <1>5 DEF Crewed
<1> QED BY <1>3, <1>6

LEMMA AcquireKeeps ==
  ASSUME BatchInv, NEW r \in Requests, NEW w \in DOMAIN workers[r], Acquire(r, w)
  PROVE  BatchInv'
<1> DEFINE at == IF Surface(r) = "http_cpu" THEN "claim" ELSE "run"
           v == [workers[r][w] EXCEPT !.holds = TRUE, !.at = at]
<1>1. /\ workers[r][w].at = "acquire" /\ free > 0 /\ free' = free - 1
      /\ workers' = [workers EXCEPT ![r][w].holds = TRUE, ![r][w].at = at]
      /\ UNCHANGED <<req, task, futs, permits, faults, met>>
  BY DEF Acquire, errors
<1>2. req[r].pc \in {"fan", "join"} /\ OnCpu(r) /\ w \in Crew
  BY <1>1, AtWork
<1>3. /\ TypeOK /\ RequestInv(r) /\ Counted /\ Shape(r)
      /\ req[r].reply = "none" /\ Surface(r) \in {"http_cpu", "rpc_cpu"}
      /\ Len(workers[r]) = MaxWorkers /\ DOMAIN workers[r] = Crew
      /\ workers[r][w] \in WorkerState /\ permits \in [Surfaces -> Nat] /\ free \in Nat
  BY <1>2, CpuFacts
<1>4. ~ workers[r][w].holds
  BY <1>1, <1>3 DEF RequestInv, Crewed
<1>5. /\ at \in {"claim", "run"} /\ (at = "claim" <=> Surface(r) = "http_cpu")
  OBVIOUS
<1> HIDE DEF at
<1>6. /\ v \in WorkerState /\ v.holds = TRUE /\ v.at = at
      /\ v.permit = workers[r][w].permit /\ v.k = workers[r][w].k
  BY <1>3, <1>5 DEF WorkerState
<1>7. workers' = [workers EXCEPT ![r] = [workers[r] EXCEPT ![w] = v]]
  <2>1. workers \in [Requests -> Seq(WorkerState)]
    BY <1>3 DEF TypeOK
  <2> QED BY <1>1, <1>3, <2>1
<1> HIDE DEF v
<1>8. /\ Surface(r)' = Surface(r) /\ Images(r)' = Images(r) /\ Todo(r)' = Todo(r)
      /\ OnCpu(r)' /\ \A d \in Requests : Surface(d)' = Surface(d)
  BY <1>1, <1>2 DEF Surface, Images, Todo, OnCpu
<1>9. /\ workers' \in [Requests -> Seq(WorkerState)]
      /\ \A d \in Requests \ {r} : workers'[d] = workers[d]
      /\ Len(workers'[r]) = MaxWorkers /\ DOMAIN workers'[r] = Crew
      /\ \A x \in Crew : workers'[r][x] = IF x = w THEN v ELSE workers[r][x]
      /\ Crewed(r)'
  BY <1>1, <1>5, <1>6, <1>7, <1>8, CrewMoves
<1>10. Counted'
  <2>1. Due(v.holds) = 1 /\ Due(workers[r][w].holds) = 0
    BY <1>4, <1>6 DEF Due
  <2>2. free' = free - (Due(v.holds) - Due(workers[r][w].holds))
    BY <1>1, <2>1
  <2>3. Due(v.permit) = Due(workers[r][w].permit) /\ Due(v.permit) \in Nat
    BY <1>6 DEF Due
  <2>4. Surface(r) \in Surfaces
    BY <1>3 DEF Surfaces
  <2>5. permits[Surface(r)] - (Due(v.permit) - Due(workers[r][w].permit)) = permits[Surface(r)]
    BY <1>3, <2>3, <2>4
  <2>6. permits' = [permits EXCEPT ![Surface(r)] =
                      permits[Surface(r)] - (Due(v.permit) - Due(workers[r][w].permit))]
    BY <1>1, <1>3, <2>4, <2>5
  <2> QED BY <1>2, <1>3, <1>6, <1>7, <1>8, <2>2, <2>6, CountedStep
<1>11. Slotted(r)' /\ Blame(r)'
  BY <1>1, <1>2, <1>3, <1>8, SlotsKept
<1>12. Claims(r)'
  <2>1. \A x \in Crew : /\ InHand(r, x)' <=> InHand(r, x)
                        /\ workers'[r][x].k = workers[r][x].k
                        /\ workers'[r][x].at = "gone" => workers[r][x].at = "gone"
                        /\ workers[r][x].at # "none" => workers'[r][x].at # "none"
    BY <1>1, <1>3, <1>5, <1>6, <1>8, <1>9 DEF InHand
  <2> QED BY <1>1, <1>2, <1>8, <2>1, ClaimsKept
<1>13. /\ Len(req[r].tags) = Size(r) /\ Len(req[r].outs) = Size(r)
       /\ req \in [Requests -> Request] /\ free' \in Nat
  BY <1>1, <1>2, <1>3, CpuFacts DEF Shape, TypeOK
<1> QED BY <1>1, <1>2, <1>3, <1>8, <1>9, <1>10, <1>11, <1>12, <1>13, CpuStep

LEMMA ClaimKeeps ==
  ASSUME BatchInv, NEW r \in Requests, NEW w \in DOMAIN workers[r], Claim(r, w)
  PROVE  BatchInv'
<1> DEFINE k == req[r].next
           over == k > Len(Slots(r))
           skip == ~ over /\ req[r].tags[Slots(r)[k]] # NoTag
           at == IF over THEN "gone" ELSE IF skip THEN "claim"
                 ELSE IF Surface(r) = "http_cpu" THEN "run" ELSE "acquire"
           holds == workers[r][w].holds /\ ~ over
           v == [workers[r][w] EXCEPT !.k = k, !.holds = holds, !.at = at]
<1>1. /\ workers[r][w].at = "claim"
      /\ req' = IF over THEN req ELSE [req EXCEPT ![r].next = k + 1]
      /\ workers' = [workers EXCEPT ![r][w].k = k, ![r][w].holds = @ /\ ~ over, ![r][w].at = at]
      /\ free' = free + IF over /\ workers[r][w].holds THEN 1 ELSE 0
      /\ UNCHANGED <<task, futs, permits, faults, met>>
  BY DEF Claim, NextClaim, errors
<1>2. req[r].pc \in {"fan", "join"} /\ OnCpu(r) /\ w \in Crew
  BY <1>1, AtWork
<1>3. /\ TypeOK /\ RequestInv(r) /\ Counted /\ Shape(r) /\ Begun(r) /\ req[r] \in Request
      /\ req[r].reply = "none" /\ Surface(r) \in {"http_cpu", "rpc_cpu"}
      /\ Len(workers[r]) = MaxWorkers /\ DOMAIN workers[r] = Crew
      /\ workers[r][w] \in WorkerState /\ permits \in [Surfaces -> Nat] /\ free \in Nat
  BY <1>2, CpuFacts
<1>4. /\ Len(Slots(r)) \in Nat /\ k \in Nat \ {0}
      /\ \A l \in 1 .. Len(Slots(r)) : Slots(r)[l] \in 1 .. Size(r)
      /\ workers[r][w].holds <=> Surface(r) = "http_cpu"
      /\ workers[r][w].holds \in BOOLEAN
  <2>1. k \in Nat \ {0} /\ workers[r][w].holds \in BOOLEAN
    BY <1>3 DEF Request, Positive, WorkerState
  <2>2. workers[r][w].holds <=> Surface(r) = "http_cpu"
    BY <1>1, <1>3 DEF RequestInv, Crewed
  <2> QED BY <1>3, <2>1, <2>2, SharedSlots
<1>5. /\ over \in BOOLEAN /\ at \in {"gone", "claim", "run", "acquire"}
      /\ at = "gone" <=> over
      /\ at = "claim" <=> skip
      /\ at = "run" => Surface(r) = "http_cpu"
      /\ at = "acquire" => Surface(r) = "rpc_cpu"
      /\ holds \in BOOLEAN
      /\ holds <=> workers[r][w].holds /\ ~ over
  BY <1>3, <1>4
<1>6. workers \in [Requests -> Seq(WorkerState)]
  BY <1>3 DEF TypeOK
<1>7. workers' = [workers EXCEPT ![r] = [workers[r] EXCEPT ![w] = v]]
  <2> HIDE DEF k, over, at
  <2> QED BY <1>1, <1>3, <1>6 DEF holds
<1>8. /\ v \in WorkerState /\ v.k = k /\ v.holds = holds /\ v.at = at
      /\ v.permit = workers[r][w].permit
  <2>1. k \in Nat
    BY <1>4
  <2> HIDE DEF k, over, at, holds
  <2> QED BY <1>3, <1>5, <2>1 DEF WorkerState
<1> HIDE DEF v, at, holds
<1>9. /\ req' \in [Requests -> Request]
      /\ \A d \in Requests \ {r} : req'[d] = req[d]
      /\ Surface(r)' = Surface(r) /\ Images(r)' = Images(r) /\ Todo(r)' = Todo(r)
      /\ req'[r].tags = req[r].tags /\ req'[r].outs = req[r].outs
      /\ req'[r].late = req[r].late /\ req'[r].pc = req[r].pc /\ req'[r].reply = req[r].reply
      /\ req'[r].next = IF over THEN k ELSE k + 1
  <2>1. CASE over
    <3>1. req' = req
      BY <1>1, <2>1
    <3> QED BY <1>3, <2>1, <3>1 DEF TypeOK, Surface, Images, Todo
  <2>2. CASE ~ over
    <3> DEFINE l == k + 1
    <3>1. l \in Positive /\ req' = [req EXCEPT ![r].next = l]
      BY <1>1, <1>4, <2>2 DEF Positive
    <3> HIDE DEF l, over
    <3>2. /\ req' \in [Requests -> Request]
          /\ \A d \in Requests \ {r} : req'[d] = req[d]
          /\ Surface(r)' = Surface(r) /\ Images(r)' = Images(r) /\ Todo(r)' = Todo(r)
          /\ req'[r].tags = req[r].tags /\ req'[r].outs = req[r].outs
          /\ req'[r].late = req[r].late /\ req'[r].pc = req[r].pc
          /\ req'[r].reply = req[r].reply /\ req'[r].next = l
      BY <1>3, <3>1 DEF TypeOK, Request, Surface, Images, Todo
    <3> QED BY <2>2, <3>2 DEF l
  <2> QED BY <2>1, <2>2
<1>10. /\ OnCpu(r)' /\ \A d \in Requests : Surface(d)' = Surface(d)
  BY <1>2, <1>9 DEF Surface, OnCpu
<1>11. /\ workers' \in [Requests -> Seq(WorkerState)]
       /\ \A d \in Requests \ {r} : workers'[d] = workers[d]
       /\ Len(workers'[r]) = MaxWorkers /\ DOMAIN workers'[r] = Crew
       /\ \A x \in Crew : workers'[r][x] = IF x = w THEN v ELSE workers[r][x]
       /\ Crewed(r)'
  <2>1. /\ v.at # "none" /\ (v.at \in {"acquire", "gone"} => ~ v.holds)
        /\ v.at = "run" => v.holds
        /\ v.at = "claim" => (v.holds <=> Surface(r) = "http_cpu")
    BY <1>3, <1>4, <1>5, <1>8
  <2>2. workers[r][w].at \notin {"none", "gone"} /\ req'[r].pc = req[r].pc
        /\ Surface(r)' = Surface(r) /\ v.permit = workers[r][w].permit /\ v \in WorkerState
    BY <1>1, <1>8, <1>9
  <2> QED BY <1>7, <2>1, <2>2, CrewMoves
<1>12. Counted'
  <2>1. free' = free - (Due(v.holds) - Due(workers[r][w].holds))
    <3>1. (IF over /\ workers[r][w].holds THEN 1 ELSE 0)
            = Due(workers[r][w].holds) - Due(v.holds)
      <4> HIDE DEF over
      <4> QED BY <1>5, <1>8 DEF Due
    <3>2. Due(v.holds) \in Nat /\ Due(workers[r][w].holds) \in Nat
      BY DEF Due
    <3> QED BY <1>1, <1>3, <3>1, <3>2
  <2>3. Due(v.permit) = Due(workers[r][w].permit) /\ Due(v.permit) \in Nat
    BY <1>8 DEF Due
  <2>4. Surface(r) \in Surfaces
    BY <1>3 DEF Surfaces
  <2>5. permits[Surface(r)] - (Due(v.permit) - Due(workers[r][w].permit)) = permits[Surface(r)]
    BY <1>3, <2>3, <2>4
  <2>6. permits' = [permits EXCEPT ![Surface(r)] =
                      permits[Surface(r)] - (Due(v.permit) - Due(workers[r][w].permit))]
    BY <1>1, <1>3, <2>4, <2>5
  <2> QED BY <1>2, <1>3, <1>7, <1>8, <1>10, <2>1, <2>6, CountedStep
<1>13. Slotted(r)' /\ Blame(r)'
  BY <1>1, <1>2, <1>3, <1>9, <1>10, SlotsKept
<1>14. /\ Slots(r)' = Slots(r) /\ NumWorkers(r)' = NumWorkers(r)
       /\ \A i : Open(r, i)' <=> Open(r, i)
  BY <1>9 DEF Slots, NumWorkers, Open
<1>15. /\ Claims(r) /\ ~ InHand(r, w)
       /\ \A x \in Crew : x # w => (InHand(r, x)' <=> InHand(r, x)) /\ workers'[r][x] = workers[r][x]
       /\ workers'[r][w] = v
       /\ InHand(r, w)' <=> ~ over /\ ~ skip
  <2>1. InHand(r, w)' <=> ~ over /\ ~ skip
    <3> HIDE DEF over, skip
    <3> QED BY <1>2, <1>3, <1>5, <1>8, <1>9, <1>11 DEF InHand
  <2>2. ~ InHand(r, w)
    BY <1>1 DEF InHand
  <2> QED BY <1>2, <1>3, <1>9, <1>11, <2>1, <2>2 DEF RequestInv, InHand
<1>16. ~ over => /\ k \in 1 .. Len(Slots(r)) /\ req'[r].next = k + 1
                 /\ skip => ~ Open(r, Slots(r)[k])
                 /\ ~ skip => Open(r, Slots(r)[k])
  <2> HAVE ~ over
  <2>1. k \in 1 .. Len(Slots(r)) /\ req'[r].next = k + 1
    BY <1>4, <1>9
  <2>2. skip => ~ Open(r, Slots(r)[k])
    BY DEF Open
  <2>3. ASSUME ~ skip PROVE Open(r, Slots(r)[k])
    <3>1. Slots(r)[k] \in 1 .. Size(r) /\ req[r].tags[Slots(r)[k]] = NoTag
      BY <1>4, <2>1, <2>3
    <3>2. Slots(r)[k] \in Members(Todo(r))
      BY <1>3, <3>1 DEF RequestInv, Slotted
    <3>3. k >= req[r].next /\ ~ (k < req[r].next)
      BY <1>4
    <3> HIDE DEF k
    <3> QED BY <1>2, <1>15, <2>1, <3>2, <3>3 DEF Claims
  <2> QED BY <2>1, <2>2, <2>3
<1>17. Claims(r)'
  <2>0. Claims(r) /\ req[r].pc \in {"fan", "join"} /\ MaxWorkers \in Nat /\ 1 \in Crew
    BY <1>2, <1>15, CrewSize
  <2>1. ASSUME NEW x \in Crew, InHand(r, x)'
        PROVE  /\ workers'[r][x].k \in 1 .. Len(Slots(r)) /\ workers'[r][x].k < req'[r].next
               /\ Open(r, Slots(r)[workers'[r][x].k])
               /\ x = w => workers'[r][x].k = k
               /\ x # w => workers'[r][x].k = workers[r][x].k /\ workers[r][x].k < k /\ InHand(r, x)
    <3>1. CASE x = w
      BY <1>4, <1>8, <1>15, <1>16, <2>1, <3>1
    <3>2. CASE x # w
      <4>1. InHand(r, x) /\ workers'[r][x].k = workers[r][x].k
        BY <1>15, <2>1, <3>2
      <4>2. /\ workers[r][x].k \in 1 .. Len(Slots(r)) /\ workers[r][x].k < k
            /\ Open(r, Slots(r)[workers[r][x].k])
        BY <2>0, <4>1 DEF Claims
      <4>3. workers[r][x].k < req'[r].next
        BY <1>4, <1>9, <4>2
      <4> QED BY <3>2, <4>1, <4>2, <4>3
    <3> QED BY <3>1, <3>2
  <2>2. ASSUME NEW x \in Crew, NEW y \in Crew, InHand(r, x)', InHand(r, y)',
               workers'[r][x].k = workers'[r][y].k
        PROVE  x = y
    <3>1. CASE x = w /\ y # w
      BY <1>4, <2>1, <2>2, <3>1
    <3>2. CASE x # w /\ y = w
      BY <1>4, <2>1, <2>2, <3>2
    <3>3. CASE x # w /\ y # w
      BY <2>0, <2>1, <2>2, <3>3 DEF Claims
    <3> QED BY <3>1, <3>2, <3>3
  <2>3. ASSUME NEW l \in 1 .. Len(Slots(r))
        PROVE  \/ l >= req'[r].next /\ (Slots(r)[l] \in Members(Todo(r)) => Open(r, Slots(r)[l]))
               \/ l < req'[r].next /\ ~ Open(r, Slots(r)[l])
               \/ l < req'[r].next /\ \E x \in Crew : InHand(r, x)' /\ workers'[r][x].k = l
    <3>1. \/ l >= k /\ (Slots(r)[l] \in Members(Todo(r)) => Open(r, Slots(r)[l]))
          \/ l < k /\ ~ Open(r, Slots(r)[l])
          \/ l < k /\ \E x \in Crew : InHand(r, x) /\ workers[r][x].k = l
      BY <2>0 DEF Claims
    <3>2. CASE l < k
      <4>1. l < req'[r].next
        BY <1>4, <1>9, <3>2
      <4>2. ~ Open(r, Slots(r)[l]) \/ \E x \in Crew : InHand(r, x) /\ workers[r][x].k = l
        BY <1>4, <3>1, <3>2
      <4>3. \A x \in Crew : InHand(r, x) => InHand(r, x)' /\ workers'[r][x].k = workers[r][x].k
        BY <1>15
      <4> QED BY <4>1, <4>2, <4>3
    <3>3. CASE l = k
      <4>1. ~ over
        BY <1>4, <3>3
      <4>2. l < req'[r].next
        BY <1>4, <1>16, <3>3, <4>1
      <4>3. CASE skip
        BY <1>16, <3>3, <4>1, <4>2, <4>3
      <4>4. CASE ~ skip
        BY <1>2, <1>8, <1>15, <3>3, <4>1, <4>2, <4>4
      <4> QED BY <4>3, <4>4
    <3>4. CASE l > k
      <4>1. l >= req'[r].next
        BY <1>4, <1>9, <3>4
      <4>2. Slots(r)[l] \in Members(Todo(r)) => Open(r, Slots(r)[l])
        BY <1>4, <3>1, <3>4
      <4> QED BY <4>1, <4>2
    <3> QED BY <1>4, <3>2, <3>3, <3>4
  <2>4. ASSUME NEW x \in Crew, workers'[r][x].at = "gone" PROVE req'[r].next > Len(Slots(r))
    <3>1. CASE x = w
      BY <1>4, <1>5, <1>8, <1>9, <1>15, <2>4, <3>1
    <3>2. CASE x # w
      <4>1. k > Len(Slots(r))
        BY <1>15, <2>0, <2>4, <3>2 DEF Claims
      <4> QED BY <1>9, <4>1
    <3> QED BY <3>1, <3>2
  <2>5. req'[r].next > 0
    BY <1>4, <1>9
  <2>6. workers[r][1].at # "none" => workers'[r][1].at # "none"
    BY <1>5, <1>8, <1>15, <2>0
  <2> HIDE DEF k, over, skip
  <2> QED BY <1>9, <1>14, <2>0, <2>1, <2>2, <2>3, <2>4, <2>5, <2>6 DEF Claims
<1>18. /\ Len(req[r].tags) = Size(r) /\ Len(req[r].outs) = Size(r) /\ free' \in Nat
  <2>1. free' \in Nat
    BY <1>1, <1>3
  <2> QED BY <1>3, <2>1 DEF Shape
<1>19. /\ Len(req'[r].tags) = Size(r) /\ Len(req'[r].outs) = Size(r)
       /\ OnCpu(r)' /\ req'[r].reply = "none"
       /\ permits' \in [Surfaces -> Nat] /\ UNCHANGED <<task, futs, faults, met>>
  BY <1>1, <1>3, <1>9, <1>10, <1>18
<1> HIDE DEF k, over, skip
<1> QED BY <1>2, <1>9, <1>11, <1>12, <1>13, <1>17, <1>18, <1>19, CpuStep

Written(r, i) ==
  req' = IF Images(r)[i].runs = "faulty" THEN Tag(r, i, "inference_failed") ELSE Fill(r, i, i)

\* What a worker makes of an image is written into its slot and nowhere else.
LEMMA SlotWritten ==
  ASSUME TypeOK, NEW r \in Requests, Shape(r), Begun(r), NEW i \in 1 .. Size(r), Open(r, i),
         Written(r, i)
  PROVE  /\ req' \in [Requests -> Request]
         /\ \A d \in Requests \ {r} : req'[d] = req[d]
         /\ Surface(r)' = Surface(r) /\ Images(r)' = Images(r) /\ Todo(r)' = Todo(r)
         /\ req'[r].next = req[r].next /\ req'[r].late = req[r].late
         /\ req'[r].pc = req[r].pc /\ req'[r].reply = req[r].reply
         /\ Len(req'[r].tags) = Size(r) /\ Len(req'[r].outs) = Size(r)
         /\ \A j \in 1 .. Size(r) : j # i => /\ req'[r].tags[j] = req[r].tags[j]
                                             /\ req'[r].outs[j] = req[r].outs[j]
         /\ \/ req'[r].tags[i] = NoTag /\ req'[r].outs[i] = i
            \/ /\ req'[r].tags[i] = "inference_failed" /\ req'[r].outs[i] = 0
               /\ Images(r)[i].runs = "faulty"
<1>1. /\ req \in [Requests -> Request] /\ req[r] \in Request
      /\ req[r].tags \in Seq(Tags) /\ Len(req[r].tags) = Size(r)
      /\ req[r].outs \in Seq(Nat) /\ Len(req[r].outs) = Size(r)
      /\ req[r].next \in Positive
      /\ req[r].tags[i] = NoTag /\ req[r].outs[i] = 0
  BY DEF TypeOK, Request, Shape, Open
<1>2. "inference_failed" \in Tags /\ i \in Nat
  BY BatchShape DEF Tags
<1>3. CASE Images(r)[i].runs = "faulty"
  <2> DEFINE tags == [req[r].tags EXCEPT ![i] = "inference_failed"]
             outs == req[r].outs
             next == req[r].next
  <2>1. /\ tags \in Seq(Tags) /\ Len(tags) = Size(r)
        /\ \A j \in 1 .. Size(r) : tags[j] = IF j = i THEN "inference_failed" ELSE req[r].tags[j]
    BY <1>1, <1>2, ExceptSeq
  <2>2. req' = [req EXCEPT ![r] = [req[r] EXCEPT !.tags = tags, !.outs = outs, !.next = next]]
    BY <1>1, <1>3 DEF Written, Tag, Request
  <2>3. /\ outs = req[r].outs /\ next = req[r].next
        /\ outs \in Seq(Nat) /\ next \in Positive
    BY <1>1
  <2> HIDE DEF tags, outs, next
  <2>4. /\ req' \in [Requests -> Request]
        /\ \A d \in Requests \ {r} : req'[d] = req[d]
        /\ Surface(r)' = Surface(r) /\ Images(r)' = Images(r) /\ Todo(r)' = Todo(r)
        /\ req'[r].tags = tags /\ req'[r].outs = outs /\ req'[r].next = next
        /\ req'[r].late = req[r].late /\ req'[r].pc = req[r].pc
        /\ req'[r].reply = req[r].reply
    <3>1. TypeOK /\ tags \in Seq(Tags) /\ outs \in Seq(Nat) /\ next \in Positive
      BY <2>1, <2>3
    <3> QED BY ONLY <2>2, <3>1, r \in Requests, RequestSet
  <2> QED BY <1>1, <1>3, <2>1, <2>3, <2>4
<1>4. CASE Images(r)[i].runs # "faulty"
  <2> DEFINE tags == req[r].tags
             outs == [req[r].outs EXCEPT ![i] = i]
             next == req[r].next
  <2>1. /\ outs \in Seq(Nat) /\ Len(outs) = Size(r)
        /\ \A j \in 1 .. Size(r) : outs[j] = IF j = i THEN i ELSE req[r].outs[j]
    BY <1>1, <1>2, ExceptSeq
  <2>2. req' = [req EXCEPT ![r] = [req[r] EXCEPT !.tags = tags, !.outs = outs, !.next = next]]
    BY <1>1, <1>4 DEF Written, Fill, Request
  <2>3. /\ tags = req[r].tags /\ next = req[r].next
        /\ tags \in Seq(Tags) /\ next \in Positive
    BY <1>1
  <2> HIDE DEF tags, outs, next
  <2>4. /\ req' \in [Requests -> Request]
        /\ \A d \in Requests \ {r} : req'[d] = req[d]
        /\ Surface(r)' = Surface(r) /\ Images(r)' = Images(r) /\ Todo(r)' = Todo(r)
        /\ req'[r].tags = tags /\ req'[r].outs = outs /\ req'[r].next = next
        /\ req'[r].late = req[r].late /\ req'[r].pc = req[r].pc
        /\ req'[r].reply = req[r].reply
    <3>1. TypeOK /\ tags \in Seq(Tags) /\ outs \in Seq(Nat) /\ next \in Positive
      BY <2>1, <2>3
    <3> QED BY ONLY <2>2, <3>1, r \in Requests, RequestSet
  <2> QED BY <1>1, <1>4, <2>1, <2>3, <2>4
<1> QED BY <1>3, <1>4

LEMMA RunImageKeeps ==
  ASSUME BatchInv, NEW r \in Requests, NEW w \in DOMAIN workers[r], RunImage(r, w)
  PROVE  BatchInv'
<1> DEFINE back == OverRpc(Surface(r))
           v == [workers[r][w] EXCEPT !.at = "claim", !.holds = ~ back]
<1>1. /\ workers[r][w].at = "run"
      /\ Written(r, Slots(r)[workers[r][w].k])
      /\ workers' = [workers EXCEPT ![r][w].at = "claim", ![r][w].holds = ~ back]
      /\ free' = free + IF back THEN 1 ELSE 0
      /\ UNCHANGED <<task, futs, permits, faults, met>>
  BY DEF RunImage, Written, errors
<1>2. req[r].pc \in {"fan", "join"} /\ OnCpu(r) /\ w \in Crew
  BY <1>1, AtWork
<1>3. /\ TypeOK /\ RequestInv(r) /\ Counted /\ Shape(r) /\ Begun(r)
      /\ req[r].reply = "none" /\ Surface(r) \in {"http_cpu", "rpc_cpu"}
      /\ Size(r) \in Nat /\ Len(workers[r]) = MaxWorkers /\ DOMAIN workers[r] = Crew
      /\ workers[r][w] \in WorkerState /\ permits \in [Surfaces -> Nat] /\ free \in Nat
  BY <1>2, CpuFacts
<1>4. /\ Claims(r) /\ InHand(r, w) /\ workers[r][w].holds
      /\ back \in BOOLEAN /\ (back <=> Surface(r) # "http_cpu")
  BY <1>1, <1>2, <1>3 DEF RequestInv, Crewed, InHand, OverRpc
<1>5. PICK k \in 1 .. Len(Slots(r)) :
        k = workers[r][w].k /\ k < req[r].next /\ Open(r, Slots(r)[k])
  BY <1>2, <1>4 DEF Claims
<1>6. /\ Len(Slots(r)) \in Nat /\ NoRepeats(Slots(r))
      /\ \A l \in 1 .. Len(Slots(r)) : Slots(r)[l] \in 1 .. Size(r)
  BY <1>3, SharedSlots
<1>7. PICK i \in 1 .. Size(r) : i = Slots(r)[k] /\ i \in Members(Todo(r)) /\ Open(r, i)
  <2>1. Slots(r)[k] \in 1 .. Size(r)
    BY <1>5, <1>6
  <2>2. Slots(r)[k] \in Members(Todo(r))
    BY <1>3, <1>5, <2>1 DEF RequestInv, Slotted, Open
  <2> QED BY <1>5, <2>1, <2>2
<1> HIDE DEF back
<1>8. /\ req' \in [Requests -> Request]
      /\ \A d \in Requests \ {r} : req'[d] = req[d]
      /\ Surface(r)' = Surface(r) /\ Images(r)' = Images(r) /\ Todo(r)' = Todo(r)
      /\ req'[r].next = req[r].next /\ req'[r].late = req[r].late
      /\ req'[r].pc = req[r].pc /\ req'[r].reply = req[r].reply
      /\ Len(req'[r].tags) = Size(r) /\ Len(req'[r].outs) = Size(r)
      /\ \A j \in 1 .. Size(r) : j # i => /\ req'[r].tags[j] = req[r].tags[j]
                                          /\ req'[r].outs[j] = req[r].outs[j]
      /\ \/ req'[r].tags[i] = NoTag /\ req'[r].outs[i] = i
         \/ /\ req'[r].tags[i] = "inference_failed" /\ req'[r].outs[i] = 0
            /\ Images(r)[i].runs = "faulty"
  <2>1. Written(r, i)
    BY <1>1, <1>5, <1>7
  <2> QED BY <1>3, <1>7, <2>1, SlotWritten
<1>9. workers \in [Requests -> Seq(WorkerState)]
  BY <1>3 DEF TypeOK
<1>10. workers' = [workers EXCEPT ![r] = [workers[r] EXCEPT ![w] = v]]
  <2> QED BY <1>1, <1>3, <1>9
<1>11. /\ v \in WorkerState /\ v.k = k /\ v.holds = ~ back /\ v.at = "claim"
       /\ v.permit = workers[r][w].permit
  <2> QED BY <1>3, <1>4, <1>5 DEF WorkerState
<1> HIDE DEF v
<1>12. /\ OnCpu(r)' /\ \A d \in Requests : Surface(d)' = Surface(d)
  BY <1>2, <1>8 DEF Surface, OnCpu
<1>13. /\ workers' \in [Requests -> Seq(WorkerState)]
       /\ \A d \in Requests \ {r} : workers'[d] = workers[d]
       /\ Len(workers'[r]) = MaxWorkers /\ DOMAIN workers'[r] = Crew
       /\ \A x \in Crew : workers'[r][x] = IF x = w THEN v ELSE workers[r][x]
       /\ Crewed(r)'
  <2> QED BY <1>1, <1>4, <1>8, <1>10, <1>11, CrewMoves
<1>14. Counted'
  <2>1. free' = free - (Due(v.holds) - Due(workers[r][w].holds))
    <3>1. (IF back THEN 1 ELSE 0) = Due(workers[r][w].holds) - Due(v.holds)
      <4>1. Due(workers[r][w].holds) = 1
        BY <1>4 DEF Due
      <4>2. v.holds <=> ~ back
        BY <1>11
      <4>3. Due(v.holds) = IF back THEN 0 ELSE 1
        BY <4>2 DEF Due
      <4> QED BY <4>1, <4>3
    <3>2. Due(v.holds) \in Nat /\ Due(workers[r][w].holds) \in Nat
      BY DEF Due
    <3> QED BY <1>1, <1>3, <3>1, <3>2
  <2>3. Due(v.permit) = Due(workers[r][w].permit) /\ Due(v.permit) \in Nat
    BY <1>11 DEF Due
  <2>4. Surface(r) \in Surfaces
    BY <1>3 DEF Surfaces
  <2>5. permits[Surface(r)] - (Due(v.permit) - Due(workers[r][w].permit)) = permits[Surface(r)]
    BY <1>3, <2>3, <2>4
  <2>6. permits' = [permits EXCEPT ![Surface(r)] =
                      permits[Surface(r)] - (Due(v.permit) - Due(workers[r][w].permit))]
    BY <1>1, <1>3, <2>4, <2>5
  <2> QED BY <1>2, <1>3, <1>10, <1>11, <1>12, <2>1, <2>6, CountedStep
<1>15. Begun(r)' /\ Size(r)' = Size(r)
  BY <1>3, <1>8 DEF Begun, Size
<1>16. Slotted(r)'
  <2>1. ASSUME NEW j \in 1 .. Size(r)
        PROVE  /\ (Open(r, j) \/ Settled(r, j))'
               /\ j \notin Members(Todo(r)) => req'[r].tags[j] # NoTag
    <3>1. CASE j = i
      BY <1>7, <1>8, <3>1 DEF Settled, NoTag
    <3>2. CASE j # i
      <4>1. Open(r, j) \/ Settled(r, j)
        BY <1>3 DEF RequestInv, Slotted
      <4>2. j \notin Members(Todo(r)) => req[r].tags[j] # NoTag
        BY <1>3 DEF RequestInv, Slotted
      <4> QED BY <1>8, <3>2, <4>1, <4>2 DEF Settled, Open
    <3> QED BY <3>1, <3>2
  <2> QED BY <1>2, <1>3, <1>8, <1>15, <2>1 DEF Slotted
<1>17. Blame(r)'
  <2>1. ASSUME NEW j \in 1 .. Size(r), Blameless(Images(r)[j]) PROVE Excused(r, j)'
    <3>1. CASE j = i
      BY <1>8, <2>1, <3>1 DEF Excused, Blameless
    <3>2. CASE j # i
      <4>1. Excused(r, j)
        BY <1>3, <2>1 DEF RequestInv, Blame
      <4> QED BY <1>1, <1>8, <3>2, <4>1 DEF Excused
    <3> QED BY <3>1, <3>2
  <2> QED BY <1>8, <1>15, <2>1 DEF Blame
<1>18. Claims(r)'
  <2> DEFINE Free(j) == req'[r].tags[j] = NoTag /\ req'[r].outs[j] = 0
  <2>0. 1 \in Crew /\ NumWorkers(r)' = NumWorkers(r) /\ Slots(r)' = Slots(r)
    BY <1>8, CrewSize DEF Slots, NumWorkers
  <2>1. ~ Free(i) /\ ~ InHand(r, w)'
    BY <1>2, <1>3, <1>7, <1>8, <1>11, <1>13 DEF InHand, NoTag
  <2>2. \A x \in Crew : x # w => (InHand(r, x)' <=> InHand(r, x)) /\ workers'[r][x] = workers[r][x]
    BY <1>8, <1>13 DEF InHand
  <2>3. \A j \in 1 .. Size(r) : j # i => (Free(j) <=> Open(r, j))
    BY <1>8 DEF Open
  <2>4. \A l \in 1 .. Len(Slots(r)) : l # k => Slots(r)[l] # i
    BY <1>5, <1>6, <1>7 DEF NoRepeats
  <2>5. ASSUME NEW x \in Crew, InHand(r, x)'
        PROVE  /\ x # w /\ InHand(r, x) /\ workers'[r][x].k = workers[r][x].k
               /\ workers'[r][x].k \in 1 .. Len(Slots(r)) /\ workers'[r][x].k < req'[r].next
               /\ Free(Slots(r)[workers'[r][x].k])
    <3> HIDE DEF Free
    <3>1. x # w
      BY <2>1, <2>5
    <3>2. InHand(r, x) /\ workers'[r][x] = workers[r][x]
      BY <2>2, <2>5, <3>1
    <3>3. /\ workers[r][x].k \in 1 .. Len(Slots(r)) /\ workers[r][x].k < req[r].next
          /\ Open(r, Slots(r)[workers[r][x].k]) /\ workers[r][x].k # k
      BY <1>2, <1>4, <1>5, <3>1, <3>2 DEF Claims
    <3>4. Free(Slots(r)[workers[r][x].k])
      BY <1>6, <2>3, <2>4, <3>3
    <3> QED BY <1>8, <3>1, <3>2, <3>3, <3>4
  <2>6. ASSUME NEW l \in 1 .. Len(Slots(r))
        PROVE  \/ l >= req[r].next /\ (Slots(r)[l] \in Members(Todo(r)) => Free(Slots(r)[l]))
               \/ l < req[r].next /\ ~ Free(Slots(r)[l])
               \/ l < req[r].next /\ \E x \in Crew : InHand(r, x)' /\ workers'[r][x].k = l
    <3> HIDE DEF Free
    <3>1. CASE l = k
      BY <1>5, <1>7, <2>1, <3>1
    <3>2. CASE l # k
      <4>1. Slots(r)[l] \in 1 .. Size(r) /\ Slots(r)[l] # i
        BY <1>6, <2>4, <3>2
      <4>2. Free(Slots(r)[l]) <=> Open(r, Slots(r)[l])
        BY <2>3, <4>1
      <4>3. \A x \in Crew : InHand(r, x) /\ workers[r][x].k = l
              => InHand(r, x)' /\ workers'[r][x].k = l
        BY <1>5, <2>2, <3>2
      <4> QED BY <1>2, <1>4, <4>2, <4>3 DEF Claims
    <3> QED BY <3>1, <3>2
  <2>7. \A x \in Crew : /\ workers'[r][x].at = "gone" => workers[r][x].at = "gone"
                        /\ workers[r][x].at # "none" => workers'[r][x].at # "none"
    BY <1>11, <1>13
  <2>8. \A x, y \in Crew : InHand(r, x)' /\ InHand(r, y)' /\ workers'[r][x].k = workers'[r][y].k
           => x = y
    BY <1>2, <1>4, <2>5 DEF Claims
  <2>9. /\ req'[r].next > 0
        /\ \A x \in Crew : workers'[r][x].at = "gone" => req'[r].next > Len(Slots(r)')
        /\ req'[r].pc = "fan" => NumWorkers(r)' >= 1
        /\ req'[r].pc = "join" /\ NumWorkers(r)' >= 1 => workers'[r][1].at # "none"
    BY <1>2, <1>4, <1>8, <2>0, <2>7 DEF Claims
  <2>10. \A x \in Crew : InHand(r, x)' =>
           /\ workers'[r][x].k \in 1 .. Len(Slots(r)') /\ workers'[r][x].k < req'[r].next
           /\ Open(r, Slots(r)[workers[r][x].k])'
    BY <2>0, <2>5 DEF Open
  <2>11. \A l \in 1 .. Len(Slots(r)') :
           \/ l >= req'[r].next /\ (Slots(r)'[l] \in Members(Todo(r)') => Open(r, Slots(r)[l])')
           \/ l < req'[r].next /\ ~ Open(r, Slots(r)[l])'
           \/ l < req'[r].next /\ \E x \in Crew : InHand(r, x)' /\ workers'[r][x].k = l
    BY <1>8, <2>0, <2>6 DEF Open
  <2> HIDE DEF Free
  <2> QED BY <2>8, <2>9, <2>10, <2>11 DEF Claims
<1>19. /\ req'[r].reply = "none" /\ free' \in Nat
       /\ permits' \in [Surfaces -> Nat] /\ UNCHANGED <<task, futs, faults, met>>
  BY <1>1, <1>3, <1>8
<1> QED BY <1>2, <1>8, <1>12, <1>13, <1>14, <1>16, <1>17, <1>18, <1>19, CpuStep

\* The permits of one request are those its workers hold.
LEMMA OfOneRequest ==
  ASSUME TypeOK, NEW r \in Requests, DOMAIN workers[r] = Crew
  PROVE  LET E == {x \in Permitted(Surface(r)) : x[1] = r}
         IN  IsFiniteSet(E) /\ Cardinality(E) = Drawn(r) /\ Drawn(r) \in Nat
<1> DEFINE D == {w \in Crew : workers[r][w].permit}
           E == {x \in Permitted(Surface(r)) : x[1] = r}
           f == [w \in D |-> <<r, w>>]
<1>1. IsFiniteSet(D) /\ Drawn(r) = Cardinality(D) /\ Cardinality(D) \in Nat
  <2>1. IsFiniteSet(D)
    BY CrewSize, FS_Subset
  <2>2. Drawn(r) = Cardinality(D)
    BY DEF Drawn
  <2> QED BY <2>1, <2>2, FS_CardinalityType
<1>2. f \in [D -> E]
  BY DEF Permitted
<1>3. \A x \in E : x[2] \in D /\ x = <<r, x[2]>>
  BY DEF Permitted
<1>4. f \in Bijection(D, E)
  <2> HIDE DEF D, E
  <2>1. \A a, b \in D : f[a] = f[b] => a = b
    OBVIOUS
  <2>2. \A x \in E : \E a \in D : f[a] = x
    BY <1>3
  <2>3. f \in Injection(D, E)
    <3> HIDE DEF f
    <3> QED BY <1>2, <2>1, Fun_IsInj
  <2>4. f \in Surjection(D, E)
    <3> HIDE DEF f
    <3> QED BY <1>2, <2>2, Fun_IsSurj
  <2> HIDE DEF f
  <2> QED BY <2>3, <2>4 DEF Bijection
<1>5. ExistsBijection(D, E)
  <2> HIDE DEF D, E, f
  <2> QED BY <1>4 DEF ExistsBijection
<1> HIDE DEF D, E
<1>6. IsFiniteSet(E) /\ Cardinality(E) = Cardinality(D)
  BY <1>1, <1>5, FS_Bijection
<1> QED BY <1>1, <1>6 DEF E

\* When the threads are joined every slot has been claimed and settled.
LEMMA AllSettled ==
  ASSUME BatchInv, NEW r \in Requests, req[r].pc = "join", Joined(r)
  PROVE  \A i \in 1 .. Size(r) : ~ Open(r, i)
<1>1. OnCpu(r)
  BY DEF OnCpu
<1>2. /\ TypeOK /\ RequestInv(r) /\ Shape(r) /\ Begun(r) /\ Claims(r) /\ Slotted(r)
      /\ DOMAIN workers[r] = Crew /\ 1 \in Crew
  BY <1>1, CpuFacts, CrewSize DEF RequestInv
<1>3. /\ Len(Slots(r)) \in Nat /\ req[r].next \in Nat
      /\ \A i \in Members(Todo(r)) : \E k \in 1 .. Len(Slots(r)) : Slots(r)[k] = i
  BY <1>2, SharedSlots DEF TypeOK, Request, Positive
<1>4. /\ NumWorkers(r) \in Nat
      /\ NumWorkers(r) = 0 => Surface(r) = "http_cpu" /\ Len(Todo(r)) = 0
  BY <1>2, HowMany
<1>5. \A w \in Crew : ~ InHand(r, w)
  BY <1>2 DEF Joined, InHand
<1>6. \A i \in Members(Todo(r)) : ~ Open(r, i)
  <2>1. CASE NumWorkers(r) = 0
    <3>1. Members(Todo(r)) = {}
      BY <1>4, <2>1 DEF Members
    <3> QED BY <3>1
  <2>2. CASE NumWorkers(r) # 0
    <3>1. workers[r][1].at # "none"
      BY <1>2, <1>4, <2>2 DEF Claims
    <3>2. workers[r][1].at = "gone"
      BY <1>2, <3>1 DEF Joined
    <3>3. req[r].next > Len(Slots(r))
      BY <1>2, <3>2 DEF Claims
    <3>4. \A k \in 1 .. Len(Slots(r)) : ~ Open(r, Slots(r)[k])
      <4> SUFFICES ASSUME NEW k \in 1 .. Len(Slots(r)) PROVE ~ Open(r, Slots(r)[k])
        OBVIOUS
      <4>1. ~ (k >= req[r].next)
        BY <1>3, <3>3
      <4> QED BY <1>2, <1>5, <4>1 DEF Claims
    <3> QED BY <1>3, <3>4
  <2> QED BY <2>1, <2>2
<1> QED BY <1>2, <1>6 DEF Slotted, Open

LEMMA JoinKeeps ==
  ASSUME BatchInv, NEW r \in Requests, Join(r)
  PROVE  BatchInv'
<1>0. PICK s \in Surfaces : s = Surface(r)
  BY DEF BatchInv, TypeOK, Request, Surface
<1> DEFINE back == [w \in Crew |-> [workers[r][w] EXCEPT !.permit = FALSE]]
           E == {x \in Permitted(s) : x[1] = r}
<1>1. /\ req[r].pc = "join" /\ OnCpu(r) /\ Joined(r) /\ Reply(r, "200")
      /\ permits' = [permits EXCEPT ![s] = @ + Drawn(r)]
      /\ workers' = [workers EXCEPT ![r] =
                       [w \in DOMAIN workers[r] |-> [workers[r][w] EXCEPT !.permit = FALSE]]]
      /\ UNCHANGED <<task, futs, free, faults, met>>
  BY <1>0 DEF Join, OnCpu, errors
<1>2. /\ TypeOK /\ RequestInv(r) /\ Counted
      /\ Shape(r) /\ Begun(r) /\ Slotted(r) /\ Blame(r) /\ Crewed(r)
      /\ Surface(r) \in {"http_cpu", "rpc_cpu"}
      /\ Len(workers[r]) = MaxWorkers /\ DOMAIN workers[r] = Crew
      /\ \A w \in Crew : workers[r][w] \in WorkerState
      /\ permits \in [Surfaces -> Nat] /\ free \in Nat
  BY <1>1, CpuFacts DEF RequestInv
<1>3. /\ req' \in [Requests -> Request]
      /\ \A d \in Requests \ {r} : req'[d] = req[d]
      /\ Surface(r)' = Surface(r) /\ Images(r)' = Images(r) /\ Todo(r)' = Todo(r)
      /\ req'[r].tags = req[r].tags /\ req'[r].outs = req[r].outs
      /\ req'[r].next = req[r].next /\ req'[r].late = req[r].late
      /\ req'[r].pc = "replied" /\ req'[r].reply = "200"
  BY <1>1, <1>2, ReplyStep
<1>4. /\ back \in Seq(WorkerState) /\ Len(back) = MaxWorkers /\ DOMAIN back = Crew
      /\ \A w \in Crew : /\ back[w].at = workers[r][w].at /\ back[w].permit = FALSE
                         /\ back[w].holds = workers[r][w].holds
  <2>1. \A w \in Crew : [workers[r][w] EXCEPT !.permit = FALSE] \in WorkerState
    <3> SUFFICES ASSUME NEW w \in Crew
                 PROVE  [workers[r][w] EXCEPT !.permit = FALSE] \in WorkerState
      OBVIOUS
    <3>1. workers[r][w] \in WorkerState
      BY <1>2
    <3> QED BY <3>1 DEF WorkerState
  <2>2. back \in [1 .. MaxWorkers -> WorkerState] /\ MaxWorkers \in Nat /\ Crew = 1 .. MaxWorkers
    BY <2>1, CrewSize
  <2>3. \A w \in Crew : /\ back[w].at = workers[r][w].at /\ back[w].permit = FALSE
                        /\ back[w].holds = workers[r][w].holds
    <3> SUFFICES ASSUME NEW w \in Crew
                 PROVE  /\ back[w].at = workers[r][w].at /\ back[w].permit = FALSE
                        /\ back[w].holds = workers[r][w].holds
      OBVIOUS
    <3>1. workers[r][w] \in WorkerState /\ back[w] = [workers[r][w] EXCEPT !.permit = FALSE]
      BY <1>2
    <3> HIDE DEF back
    <3> QED BY <3>1 DEF WorkerState
  <2> HIDE DEF back
  <2> QED BY <2>2, <2>3, ListOf
<1>5. workers' = [workers EXCEPT ![r] = back]
  BY <1>1, <1>2
<1> HIDE DEF back
<1>6. /\ workers' \in [Requests -> Seq(WorkerState)] /\ workers'[r] = back
      /\ \A d \in Requests \ {r} : workers'[d] = workers[d]
  BY <1>2, <1>4, <1>5 DEF TypeOK
<1>7. Drawn(r) \in Nat /\ IsFiniteSet(E) /\ Cardinality(E) = Drawn(r)
  BY <1>0, <1>2, OfOneRequest
<1>8. permits' \in [Surfaces -> Nat] /\ permits'[s] = permits[s] + Drawn(r)
      /\ \A t \in Surfaces \ {s} : permits'[t] = permits[t]
  BY <1>1, <1>2, <1>7
<1>9. Counted'
  <2>1. \A d \in Requests : Surface(d)' = Surface(d)
    BY <1>3 DEF Surface
  <2>2. ASSUME NEW t \in Surfaces, t # s PROVE Permitted(t)' = Permitted(t)
    BY <1>0, <1>6, <2>1, <2>2 DEF Permitted
  <2>3. Permitted(s)' = Permitted(s) \ E
    BY <1>0, <1>2, <1>4, <1>6, <2>1 DEF Permitted
  <2>4. Holding' = Holding
    BY <1>2, <1>4, <1>6 DEF Holding
  <2>5. Cardinality(Permitted(s) \ E) = Cardinality(Permitted(s)) - Drawn(r)
        /\ Cardinality(Permitted(s)) \in Nat
    <3>1. IsFiniteSet(Permitted(s)) /\ Cardinality(Permitted(s)) \in Nat
      BY <1>2, FewPermits
    <3>2. Permitted(s) \cap E = E
      OBVIOUS
    <3> DEFINE P == Permitted(s)
    <3> HIDE DEF E, P
    <3>3. Cardinality(P \ E) = Cardinality(P) - Cardinality(P \cap E)
      BY <3>1, FS_Difference DEF P
    <3> QED BY <1>7, <3>1, <3>2, <3>3 DEF P
  <2> HIDE DEF E
  <2>6. ASSUME NEW t \in Surfaces PROVE permits'[t] + Cardinality(Permitted(t)') = Permits
    <3>1. permits[t] + Cardinality(Permitted(t)) = Permits /\ permits[t] \in Nat
      BY <1>2 DEF Counted
    <3>2. CASE t = s
      <4>1. permits'[t] = permits[t] + Drawn(r)
        BY <1>8, <3>2
      <4>2. Cardinality(Permitted(t)') = Cardinality(Permitted(t)) - Drawn(r)
        BY <2>3, <2>5, <3>2
      <4>3. Cardinality(Permitted(t)) \in Nat
        BY <2>5, <3>2
      <4> QED BY <1>7, <3>1, <4>1, <4>2, <4>3
    <3>3. CASE t # s
      BY <1>8, <2>2, <3>1, <3>3
    <3> QED BY <3>2, <3>3
  <2> QED BY <1>1, <1>2, <2>4, <2>6 DEF Counted
<1>10. Begun(r)' /\ Size(r)' = Size(r)
  BY <1>3 DEF Begun, Size
<1>11. Slotted(r)' /\ Blame(r)'
  <2>1. \A i \in 1 .. Size(r) : ~ Open(r, i)
    BY <1>1, AllSettled
  <2>2. \A i : (Open(r, i)' <=> Open(r, i)) /\ (Settled(r, i)' <=> Settled(r, i))
               /\ (Excused(r, i)' <=> Excused(r, i))
    BY <1>1, <1>3 DEF Open, Settled, Excused
  <2> QED BY <1>2, <1>3, <1>10, <2>1, <2>2 DEF Slotted, Blame
<1>12. Crewed(r)'
  <2>1. \E u \in Nat : \A w \in DOMAIN workers'[r] : workers'[r][w].at # "none" <=> w <= u
    <3>1. PICK u \in Nat : \A w \in Crew : workers[r][w].at # "none" <=> w <= u
      BY <1>2 DEF Crewed
    <3> QED BY <1>4, <1>6, <3>1
  <2>2. \A w \in DOMAIN workers'[r] :
          /\ workers'[r][w].at \in {"none", "gone"} /\ ~ workers'[r][w].permit
          /\ ~ workers'[r][w].holds
    BY <1>1, <1>2, <1>4, <1>6 DEF Joined, Crewed
  <2> QED BY <1>3, <2>1, <2>2 DEF Crewed
<1>13. Claims(r)'
  BY <1>3 DEF Claims
<1>14. /\ Len(workers'[r]) = MaxWorkers
       /\ Len(req'[r].tags) = Size(r) /\ Len(req'[r].outs) = Size(r) /\ free' \in Nat
       /\ UNCHANGED <<task, futs, faults, met>>
  BY <1>1, <1>2, <1>3, <1>4, <1>6 DEF Shape
<1> HIDE DEF E
<1> QED BY <1>1, <1>3, <1>6, <1>8, <1>9, <1>11, <1>12, <1>13, <1>14, CpuStep

----------------------------------------------------------------------------
(* The whole batch.                                                        *)

LEMMA PrepareKeeps ==
  ASSUME BatchInv, NEW r \in Requests, Prepare(r)
  PROVE  BatchInv'
<1> DEFINE n == Len(Images(r))
           tags == Prepared(Surface(r), Images(r))
           todo == Untouched(tags)
           pc == IF OnGpu(Surface(r)) THEN "submit" ELSE "permits"
           outs == [i \in 1 .. n |-> 0]
           none == [i \in 1 .. n |-> "none"]
           crew == [w \in 1 .. MaxWorkers |-> Worker]
<1>1. /\ TypeOK /\ RequestInv(r) /\ Counted /\ req[r] \in Request /\ req[r].pc = "new"
      /\ UNCHANGED <<task, permits, free, faults, met>>
  BY DEF BatchInv, Prepare, TypeOK, errors
<1>2. /\ ~ Begun(r) /\ req[r].reply = "none" /\ req[r].next = 1
      /\ Surface(r) \in Surfaces /\ Images(r) \in Seq(Image)
      /\ [surface |-> Surface(r), images |-> Images(r)] \in Batches
      /\ Todo(r) = <<>> /\ futs[r] = <<>> /\ workers[r] = <<>> /\ task[r].st = "none"
  BY <1>1 DEF RequestInv, Stage, Shape, Begun, Request, Surface, Images
<1>3. TagsOf[[surface |-> Surface(r), images |-> Images(r)]] = tags
  BY <1>2 DEF TagsOf
<1>4. /\ n \in Nat /\ DOMAIN Images(r) = 1 .. n /\ tags \in Seq(Tags) /\ Len(tags) = n
      /\ \A i \in 1 .. n :
           Blameless(Images(r)[i]) =>
             \/ tags[i] = NoTag
             \/ tags[i] = "batch_pixels_exceeded" /\ ~ DeviceJpeg(Surface(r), Images(r)[i])
  BY <1>2, ImagesListed, PreparedTags
<1>5. /\ todo \in Seq(Nat) /\ Members(todo) = {i \in 1 .. n : tags[i] = NoTag}
  <2>1. todo \in Seq(1 .. n) /\ Members(todo) = {i \in 1 .. n : tags[i] = NoTag}
    BY <1>4, UntouchedList
  <2> HIDE DEF todo
  <2>2. todo \in [1 .. Len(todo) -> Nat] /\ Len(todo) \in Nat
    BY <1>4, <2>1, LenProperties
  <2>3. todo \in Seq(Nat)
    BY <2>2
  <2> QED BY <2>1, <2>3
<1>6. /\ outs \in Seq(Nat) /\ Len(outs) = n /\ \A i \in 1 .. n : outs[i] = 0
      /\ none \in Seq(FutureStates) /\ Len(none) = n /\ \A i \in 1 .. n : none[i] = "none"
  <2>1. outs \in [1 .. n -> Nat] /\ none \in [1 .. n -> FutureStates]
    BY DEF FutureStates
  <2>2. \A i \in 1 .. n : outs[i] = 0 /\ none[i] = "none"
    OBVIOUS
  <2> HIDE DEF outs, none, n
  <2> QED BY <1>4, <2>1, <2>2, ListOf
<1>7. /\ crew \in Seq(WorkerState) /\ Len(crew) = MaxWorkers /\ DOMAIN crew = Crew
      /\ \A w \in Crew : crew[w].at = "none" /\ ~ crew[w].holds /\ ~ crew[w].permit
  <2>1. crew \in [1 .. MaxWorkers -> WorkerState] /\ MaxWorkers \in Nat /\ Crew = 1 .. MaxWorkers
    BY CrewSize DEF Worker, WorkerState
  <2>2. \A w \in Crew : crew[w].at = "none" /\ ~ crew[w].holds /\ ~ crew[w].permit
    BY <2>1 DEF Worker
  <2> HIDE DEF crew
  <2> QED BY <2>1, <2>2, ListOf
<1>8. CASE Reply(r, "400") /\ UNCHANGED <<futs, workers>>
  <2>1. /\ req' \in [Requests -> Request]
        /\ \A d \in Requests \ {r} : req'[d] = req[d]
        /\ Surface(r)' = Surface(r) /\ Images(r)' = Images(r) /\ Todo(r)' = Todo(r)
        /\ req'[r].pc = "replied" /\ req'[r].reply = "400"
    BY <1>1, <1>8, ReplyStep
  <2>2. TypeOK'
    BY <1>1, <1>8, <2>1 DEF TypeOK
  <2>3. Counted'
    <3>1. \A d \in Requests : Surface(d)' = Surface(d)
      BY <2>1 DEF Surface
    <3> QED BY <1>1, <1>8, <3>1, CountsKept
  <2>4. ~ Begun(r)'
    BY <2>1 DEF Begun
  <2>5. Shape(r)' /\ Stage(r)'
    BY <1>1, <1>2, <1>8, <2>1, <2>4 DEF Shape, Stage
  <2>6. Slotted(r)' /\ Blame(r)' /\ Futures(r)'
    BY <2>4 DEF Slotted, Blame, Futures
  <2>7. Chunks(r)'
    BY <1>1, <1>2 DEF Chunks
  <2>8. Crewed(r)' /\ Claims(r)'
    <3>1. DOMAIN workers'[r] = {} /\ 0 \in Nat
      BY <1>2, <1>8
    <3> QED BY <2>1, <3>1 DEF Crewed, Claims
  <2> QED BY <1>1, <1>8, <2>1, <2>2, <2>3, <2>5, <2>6, <2>7, <2>8, OneRequest DEF RequestInv
<1>9. CASE /\ n # 0
           /\ req' = [req EXCEPT ![r].tags = tags, ![r].outs = outs, ![r].todo = todo,
                                 ![r].pc = pc]
           /\ futs' = [futs EXCEPT ![r] = none]
           /\ workers' = [workers EXCEPT ![r] = crew]
  <2>1. /\ pc = "submit" => OnGpu(Surface(r))
        /\ pc = "permits" => ~ OnGpu(Surface(r))
        /\ pc \in {"submit", "permits"}
    OBVIOUS
  <2>2. todo = Untouched(Prepared(Surface(r), Images(r)))
    OBVIOUS
  <2> HIDE DEF tags, todo, pc, outs, none, crew
  <2>3. /\ req' \in [Requests -> Request]
        /\ \A d \in Requests \ {r} : req'[d] = req[d]
        /\ Surface(r)' = Surface(r) /\ Images(r)' = Images(r)
        /\ req'[r].tags = tags /\ req'[r].outs = outs /\ Todo(r)' = todo
        /\ req'[r].next = 1 /\ req'[r].late = req[r].late
        /\ req'[r].pc = pc /\ req'[r].reply = "none"
    <3> DEFINE q == [req[r] EXCEPT !.tags = tags, !.outs = outs, !.todo = todo, !.pc = pc]
    <3>1. pc \in {"new", "submit", "wait", "permits", "fan", "join", "replied"}
      BY <2>1
    <3>2. /\ q \in Request /\ q.surface = req[r].surface /\ q.images = req[r].images
          /\ q.tags = tags /\ q.outs = outs /\ q.todo = todo /\ q.next = req[r].next
          /\ q.late = req[r].late /\ q.pc = pc /\ q.reply = req[r].reply
      BY <1>1, <1>4, <1>5, <1>6, <3>1 DEF Request
    <3>3. req \in [Requests -> Request]
      BY <1>1 DEF TypeOK
    <3>4. req' = [req EXCEPT ![r] = q]
      BY <1>9, <3>3
    <3> HIDE DEF q
    <3>5. /\ req'[r] = q /\ req' \in [Requests -> Request]
          /\ \A d \in Requests \ {r} : req'[d] = req[d]
      BY <3>2, <3>3, <3>4
    <3> QED BY <1>2, <3>2, <3>5 DEF Surface, Images, Todo
  <2>4. /\ futs' \in [Requests -> Seq(FutureStates)] /\ futs'[r] = none
        /\ \A d \in Requests \ {r} : futs'[d] = futs[d]
    BY <1>1, <1>6, <1>9 DEF TypeOK
  <2>5. /\ workers' \in [Requests -> Seq(WorkerState)] /\ workers'[r] = crew
        /\ \A d \in Requests \ {r} : workers'[d] = workers[d]
    BY <1>1, <1>7, <1>9 DEF TypeOK
  <2>6. TypeOK'
    BY <1>1, <2>3, <2>4, <2>5 DEF TypeOK
  <2>7. Counted'
    <3>1. \A d \in Requests : Surface(d)' = Surface(d)
      BY <2>3 DEF Surface
    <3>2. DOMAIN workers[r] = {}
      BY <1>2
    <3>3. ASSUME NEW s \in Surfaces PROVE Permitted(s)' = Permitted(s)
      BY <1>7, <2>5, <3>1, <3>2 DEF Permitted
    <3>4. Holding' = Holding
      BY <1>7, <2>5, <3>2 DEF Holding
    <3> QED BY <1>1, <3>3, <3>4 DEF Counted
  <2>8. Begun(r)' /\ Size(r)' = n /\ n > 0
    BY <1>4, <1>9, <2>1, <2>3 DEF Begun, Size
  <2>9. Shape(r)'
    BY <1>2, <1>4, <1>6, <1>7, <2>2, <2>3, <2>4, <2>5, <2>8 DEF Shape
  <2>10. Stage(r)'
    BY <1>1, <1>2, <2>1, <2>3 DEF Stage
  <2>11. Slotted(r)'
    BY <1>5, <1>6, <2>1, <2>3, <2>8 DEF Slotted, Open, Settled
  <2>12. Blame(r)'
    BY <1>4, <2>3, <2>8 DEF Blame, Excused
  <2>13. Chunks(r)'
    BY <1>1, <1>2 DEF Chunks
  <2>14. Futures(r)'
    <3>1. \A i \in 1 .. n : futs'[r][i] = "none" /\ ~ (i < 1)
      BY <1>6, <2>4
    <3> QED BY <2>1, <2>3, <2>8, <3>1 DEF Futures
  <2>15. Crewed(r)'
    <3>1. 0 \in Nat /\ \A w \in DOMAIN workers'[r] : workers'[r][w].at # "none" <=> w <= 0
      BY <1>7, <2>5, CrewSize
    <3>2. \A w \in DOMAIN workers'[r] : /\ workers'[r][w].at = "none"
                                        /\ ~ workers'[r][w].holds /\ ~ workers'[r][w].permit
      BY <1>7, <2>5
    <3> QED BY <2>1, <2>3, <3>1, <3>2 DEF Crewed
  <2>16. Claims(r)'
    BY <2>1, <2>3 DEF Claims
  <2> QED BY <1>1, <2>3, <2>4, <2>5, <2>6, <2>7, <2>9, <2>10, <2>11, <2>12, <2>13, <2>14,
             <2>15, <2>16, OneRequest DEF RequestInv
<1> QED BY <1>3, <1>8, <1>9, <1>1 DEF Prepare

LEMMA BatchInvInit ==
  ASSUME Init PROVE BatchInv
<1>1. PICK s \in Scenarios :
        /\ req = [r \in Requests |->
                    [surface |-> s[r].surface, images |-> s[r].images, pc |-> "new",
                     tags |-> <<>>, outs |-> <<>>, todo |-> <<>>, next |-> 1, late |-> FALSE,
                     reply |-> "none"]]
        /\ task = [r \in Requests |-> NoTask]
        /\ futs = [r \in Requests |-> <<>>]
        /\ workers = [r \in Requests |-> <<>>]
        /\ permits = [s2 \in Surfaces |-> Permits]
        /\ free = Pipelines
        /\ faults = 0
  BY DEF Init
<1>2. s \in [Requests -> [surface : Surfaces, images : Seq(Image)]]
  BY BatchAssumption
<1>3. ASSUME NEW r \in Requests
      PROVE  /\ req[r] \in Request /\ task[r] \in Task /\ task[r].st = "none"
             /\ req[r].pc = "new" /\ req[r].reply = "none" /\ req[r].next = 1
             /\ Todo(r) = <<>> /\ futs[r] = <<>> /\ workers[r] = <<>>
             /\ Surface(r) = s[r].surface /\ Images(r) = s[r].images
  <2>1. s[r] \in [surface : Surfaces, images : Seq(Image)]
    BY <1>2
  <2>2. 1 \in Positive /\ <<>> \in Seq(Tags) /\ <<>> \in Seq(Nat)
    BY DEF Positive
  <2>3. req[r] \in Request
    BY <1>1, <2>1, <2>2 DEF Request
  <2>4. task[r] \in Task /\ task[r].st = "none"
    BY <1>1, <2>2 DEF Task, NoTask
  <2> QED BY <1>1, <2>3, <2>4 DEF Todo, Surface, Images
<1>4. TypeOK
  <2>1. Permits \in Nat /\ Pipelines \in Nat
    BY BatchAssumption
  <2>2. /\ req \in [Requests -> Request] /\ task \in [Requests -> Task]
    BY <1>1, <1>3
  <2>3. /\ futs \in [Requests -> Seq(FutureStates)] /\ workers \in [Requests -> Seq(WorkerState)]
    BY <1>1
  <2> QED BY <1>1, <2>1, <2>2, <2>3 DEF TypeOK
<1>5. ASSUME NEW r \in Requests PROVE RequestInv(r)
  <2>1. ~ Begun(r)
    BY <1>3 DEF Begun
  <2>2. [surface |-> Surface(r), images |-> Images(r)] \in Batches
    <3>1. s[r] \in [surface : Surfaces, images : Seq(Image)]
      BY <1>2
    <3>2. s[r] = [surface |-> Surface(r), images |-> Images(r)]
      BY <1>3, <3>1
    <3>3. s[r] \in Batches
      BY DEF Batches
    <3> QED BY <3>2, <3>3
  <2>3. Shape(r) /\ Stage(r)
    BY <1>3, <2>1, <2>2 DEF Shape, Stage
  <2>4. Slotted(r) /\ Blame(r) /\ Futures(r)
    BY <2>1 DEF Slotted, Blame, Futures
  <2>5. Chunks(r) /\ Claims(r)
    BY <1>3 DEF Chunks, Claims
  <2>6. Crewed(r)
    <3>1. DOMAIN workers[r] = {} /\ 0 \in Nat
      BY <1>3
    <3> QED BY <3>1 DEF Crewed
  <2> QED BY <2>3, <2>4, <2>5, <2>6 DEF RequestInv
<1>6. Counted
  <2>1. \A r \in Requests : DOMAIN workers[r] = {}
    BY <1>3
  <2>2. (\A t \in Surfaces : Permitted(t) = {}) /\ Holding = {}
    BY <2>1 DEF Permitted, Holding
  <2>3. Permits \in Nat /\ Pipelines \in Nat
    BY BatchAssumption
  <2>4. Cardinality({}) = 0
    BY FS_EmptySet
  <2>5. (\A t \in Surfaces : permits[t] = Permits) /\ free = Pipelines
    BY <1>1
  <2>6. \A t \in Surfaces : permits[t] + Cardinality(Permitted(t)) = Permits
    BY <2>2, <2>3, <2>4, <2>5
  <2>7. free + Cardinality(Holding) = Pipelines
    BY <2>2, <2>3, <2>4, <2>5
  <2> QED BY <2>6, <2>7 DEF Counted
<1> QED BY <1>4, <1>5, <1>6 DEF BatchInv

LEMMA Idle ==
  ASSUME BatchInv, UNCHANGED <<req, task, futs, workers, permits, free, met>>, faults' \in Nat
  PROVE  BatchInv'
<1>1. TypeOK /\ Counted /\ \A r \in Requests : RequestInv(r)
  BY DEF BatchInv
<1>2. TypeOK'
  BY <1>1 DEF TypeOK
<1>3. \A r \in Requests : RequestInv(r)'
  BY <1>1, OtherRequest
<1>4. Counted'
  BY <1>1, CountsKept DEF Surface
<1> QED BY <1>2, <1>3, <1>4 DEF BatchInv

LEMMA Stutters ==
  ASSUME BatchInv, UNCHANGED vars PROVE BatchInv'
<1>1. UNCHANGED <<req, task, futs, workers, permits, free, met>> /\ faults' \in Nat
  BY DEF BatchInv, TypeOK, vars
<1> QED BY <1>1, Idle

LEMMA BatchInvNext ==
  ASSUME BatchInv, [Next]_vars PROVE BatchInv'
<1>1. CASE UNCHANGED vars
  BY <1>1, Stutters
<1>2. ASSUME NEW r \in Requests, Handler(r) PROVE BatchInv'
  BY <1>2, PrepareKeeps, SubmitKeeps, CollectKeeps, ExpireKeeps, SubmitSlotsKeeps,
     AwaitSlotKeeps, PermitKeeps, FanOutKeeps, JoinKeeps DEF Handler
<1>3. ASSUME NEW r \in Requests, NEW i \in DOMAIN futs[r], Resolve(r, i) PROVE BatchInv'
  BY <1>3, ResolveKeeps
<1>4. ASSUME NEW r \in Requests, NEW w \in DOMAIN workers[r], WorkerStep(r, w) PROVE BatchInv'
  BY <1>4, AcquireKeeps, ClaimKeeps, RunImageKeeps DEF WorkerStep
<1>5. ASSUME NEW r \in Requests, RunChunk(r) \/ Deadline(r) PROVE BatchInv'
  BY <1>5, RunChunkKeeps, DeadlineKeeps
<1>6. ASSUME OtherCallFails PROVE BatchInv'
  <2>1. UNCHANGED <<req, task, futs, workers, permits, free, met>> /\ faults' \in Nat
    BY <1>6 DEF OtherCallFails, Faulty, BatchInv, TypeOK
  <2> QED BY <2>1, Idle
<1> QED BY <1>1, <1>2, <1>3, <1>4, <1>5, <1>6 DEF Next

\* The inductive invariant of the batch routes: what every handler, worker and
\* task of Batch.tla relies on holds in every state.
THEOREM BatchInvariant == Spec => []BatchInv
<1>1. Init => BatchInv
  BY BatchInvInit
<1>2. BatchInv /\ [Next]_vars => BatchInv'
  BY BatchInvNext
<1> QED BY <1>1, <1>2, PTL DEF Spec

----------------------------------------------------------------------------
(* What the batch routes promise.                                          *)

\* A batch that is answered with status 200 (batch_routes.cpp, the batch of
\* grpc_service.cpp) has in every slot the result of the slot's own image or the
\* tag of what went wrong with it, and never both.
THEOREM EverySlotAnswered == Spec => []SlotsAnswered
<1>1. BatchInv => SlotsAnswered
  <2> SUFFICES ASSUME BatchInv, NEW r \in Requests, req[r].reply = "200",
                      NEW i \in DOMAIN Images(r)
               PROVE  \/ req[r].outs[i] = i /\ req[r].tags[i] = NoTag
                      \/ req[r].outs[i] = 0 /\ req[r].tags[i] # NoTag
    BY DEF SlotsAnswered
  <2>1. TypeOK /\ RequestInv(r)
    BY DEF BatchInv
  <2>2. Begun(r) /\ Shape(r) /\ Slotted(r)
    BY <2>1 DEF RequestInv, Stage, Begun
  <2>3. i \in 1 .. Size(r)
    BY <2>1, <2>2, BatchShape
  <2>4. Settled(r, i)
    BY <2>2, <2>3 DEF Slotted
  <2> QED BY <2>4 DEF Settled
<1> QED BY <1>1, BatchInvariant, PTL

\* The errors that failed runs leave with the CUDA runtime: each is met once.
ErrorsInv ==
  /\ spills \in Nat
  /\ \A m \in met : m.of \in 1 .. spills
  /\ \A m, n \in met : m.of = n.of => m = n

LEMMA ErrorsStep ==
  ASSUME Next
  PROVE  \/ met' = met /\ spills' \in {spills, spills + 1}
         \/ /\ spills' = spills
            /\ \E m : m.of \in Left /\ met' = met \union {m}
<1>1. ASSUME NEW r \in Requests, Handler(r) \/ Deadline(r) PROVE UNCHANGED <<spills, met>>
  BY <1>1 DEF Handler, Deadline, Prepare, Submit, Collect, Expire, SubmitSlots, AwaitSlot,
              Permit, FanOut, Join, errors
<1>2. ASSUME NEW r \in Requests, NEW w \in DOMAIN workers[r], WorkerStep(r, w)
      PROVE  UNCHANGED <<spills, met>>
  BY <1>2 DEF WorkerStep, Acquire, Claim, RunImage, errors
<1>3. ASSUME NEW r \in Requests, RunChunk(r)
      PROVE  met' = met /\ spills' \in {spills, spills + 1}
  BY <1>3 DEF RunChunk, MayLeave
<1>4. ASSUME NEW r \in Requests, NEW i \in DOMAIN futs[r], Resolve(r, i)
      PROVE  \/ met' = met /\ spills' \in {spills, spills + 1}
             \/ /\ spills' = spills
                /\ \E m : m.of \in Left /\ met' = met \union {m}
  <2>1. \/ met' = met /\ spills' \in {spills, spills + 1}
        \/ /\ spills' = spills
           /\ \E n \in Left : met' = met \union {[r |-> r, slot |-> i, of |-> n]}
    BY <1>4 DEF Resolve, MayLeave
  <2>2. ASSUME NEW n \in Left, met' = met \union {[r |-> r, slot |-> i, of |-> n]}
        PROVE  \E m : m.of \in Left /\ met' = met \union {m}
    <3> DEFINE m == [r |-> r, slot |-> i, of |-> n]
    <3>1. m.of \in Left /\ met' = met \union {m}
      BY <2>2
    <3> HIDE DEF m
    <3> QED BY <3>1
  <2> QED BY <2>1, <2>2
<1>5. OtherCallFails => met' = met /\ spills' = spills + 1
  BY DEF OtherCallFails
<1> QED BY <1>1, <1>2, <1>3, <1>4, <1>5 DEF Next

\* No error is met twice, and none that no failed run has left.
LEMMA ErrorsMetOnce == Spec => []ErrorsInv
<1>1. Init => ErrorsInv
  BY DEF Init, ErrorsInv
<1>2. ErrorsInv /\ [Next]_vars => ErrorsInv'
  <2> SUFFICES ASSUME ErrorsInv, [Next]_vars PROVE ErrorsInv'
    OBVIOUS
  <2>1. CASE UNCHANGED vars
    BY <2>1 DEF ErrorsInv, vars
  <2>2. CASE met' = met /\ spills' \in {spills, spills + 1}
    BY <2>2 DEF ErrorsInv
  <2>3. CASE spills' = spills /\ \E m : m.of \in Left /\ met' = met \union {m}
    <3>1. PICK m : m.of \in Left /\ met' = met \union {m}
      BY <2>3
    <3>2. m.of \in 1 .. spills /\ \A n \in met : n.of # m.of
      BY <3>1 DEF Left
    <3> QED BY <2>3, <3>1, <3>2 DEF ErrorsInv
  <2> QED BY <2>1, <2>2, <2>3, ErrorsStep
<1> QED BY <1>1, <1>2, PTL DEF Spec

\* A run that fails costs its own slot and at most one other: an image that can be
\* decoded and read is tagged for the budget of its batch, for its deadline, or as
\* the one image that met the error of a failed run just before it on its thread.
THEOREM NeighboursAreSpared == Spec => []NeighboursSpared
<1>1. BatchInv /\ ErrorsInv => NeighboursSpared
  <2> SUFFICES ASSUME BatchInv, ErrorsInv PROVE NeighboursSpared
    OBVIOUS
  <2>1. ASSUME NEW r \in Requests, req[r].reply = "200",
               NEW i \in DOMAIN Images(r), Blameless(Images(r)[i])
        PROVE  Excused(r, i)
    <3>1. TypeOK /\ RequestInv(r)
      BY DEF BatchInv
    <3>2. Begun(r) /\ Shape(r) /\ Blame(r)
      BY <2>1, <3>1 DEF RequestInv, Stage, Begun
    <3>3. i \in 1 .. Size(r)
      BY <3>1, <3>2, BatchShape
    <3> QED BY <2>1, <3>2, <3>3 DEF Blame
  <2> QED BY <2>1 DEF NeighboursSpared, Excused, ErrorsInv
<1> QED BY <1>1, BatchInvariant, ErrorsMetOnce, PTL

\* The decoded images of a batch stay within its pixel budget, whatever the
\* images, their caps and their order: what batch_check_dims_pre lets through
\* and the decoding leaves over is never more than it has counted.
THEOREM BudgetIsHeld == Spec => []BudgetHeld
<1>1. BatchInv => BudgetHeld
  <2> SUFFICES ASSUME BatchInv, NEW r \in Requests, Todo(r) # <<>>
               PROVE  HeldPixels(Surface(r), Images(r), Todo(r)) <= PixelBudget
    BY DEF BudgetHeld
  <2>1. TypeOK /\ RequestInv(r) /\ req[r] \in Request
    BY DEF BatchInv, TypeOK
  <2>2. Todo(r) = Untouched(Prepared(Surface(r), Images(r)))
    BY <2>1 DEF RequestInv, Shape
  <2>3. Surface(r) \in Surfaces /\ Images(r) \in Seq(Image)
    BY <2>1 DEF Request, Surface, Images
  <2> QED BY <2>2, <2>3, WithinBudget
<1> QED BY <1>1, BatchInvariant, PTL

\* Extra workers of a surface never outnumber its permits, and every permit and
\* every pipeline is back once the last request has been answered.
THEOREM WorkersAreBounded == Spec => []WorkersBounded
<1>1. ASSUME BatchInv, NEW s \in Surfaces PROVE Cardinality(ExtrasOf(s)) <= Permits
  <2>1. TypeOK /\ permits[s] \in Nat /\ permits[s] + Cardinality(Permitted(s)) = Permits
    BY <1>1 DEF BatchInv, TypeOK, Counted
  <2>2. IsFiniteSet(Permitted(s)) /\ Cardinality(Permitted(s)) \in Nat
    BY <2>1, FewPermits
  <2>3. ExtrasOf(s) \subseteq Permitted(s)
    <3> SUFFICES ASSUME NEW x \in ExtrasOf(s) PROVE x \in Permitted(s)
      OBVIOUS
    <3>1. /\ x \in Requests \X (2 .. MaxWorkers) /\ Surface(x[1]) = s
          /\ x[2] \in DOMAIN workers[x[1]]
          /\ workers[x[1]][x[2]].at \notin {"none", "gone"}
      BY DEF ExtrasOf, Alive
    <3>2. Crewed(x[1])
      BY <1>1, <3>1 DEF BatchInv, RequestInv
    <3>3. x[2] > 1 /\ x \in Requests \X Crew
      BY <3>1, CrewSize
    <3>4. workers[x[1]][x[2]].permit
      BY <3>1, <3>2, <3>3 DEF Crewed
    <3> QED BY <3>1, <3>3, <3>4 DEF Permitted
  <2>4. IsFiniteSet(ExtrasOf(s)) /\ Cardinality(ExtrasOf(s)) <= Cardinality(Permitted(s))
    BY <2>2, <2>3, FS_Subset
  <2>5. Cardinality(ExtrasOf(s)) \in Nat
    BY <2>4, FS_CardinalityType
  <2> QED BY <2>1, <2>2, <2>4, <2>5
<1>2. ASSUME BatchInv, \A r \in Requests : req[r].reply # "none"
      PROVE  free = Pipelines /\ \A s \in Surfaces : permits[s] = Permits
  <2>1. TypeOK /\ Counted /\ \A r \in Requests : Stage(r) /\ Crewed(r)
    BY <1>2 DEF BatchInv, RequestInv
  <2>2. \A r \in Requests : \A w \in DOMAIN workers[r] :
          ~ workers[r][w].permit /\ ~ workers[r][w].holds
    BY <1>2, <2>1 DEF Stage, Crewed
  <2>3. (\A s \in Surfaces : Permitted(s) = {}) /\ Holding = {}
    BY <2>2 DEF Permitted, Holding
  <2>4. (\A s \in Surfaces : permits[s] \in Nat) /\ free \in Nat
    BY <2>1 DEF TypeOK
  <2>5. Cardinality({}) = 0
    BY FS_EmptySet
  <2> QED BY <2>1, <2>3, <2>4, <2>5 DEF Counted
<1>3. BatchInv => WorkersBounded
  BY <1>1, <1>2 DEF WorkersBounded
<1> QED BY <1>3, BatchInvariant, PTL
====
