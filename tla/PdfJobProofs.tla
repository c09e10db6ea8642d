---- MODULE PdfJobProofs ----
(***************************************************************************)
(* Theorems of the PDF job, for documents of any number of pages, with and *)
(* without a request timeout.                                              *)
(***************************************************************************)
EXTENDS PdfJob, SequenceTheorems, FiniteSetTheorems, WellFoundedInduction, TLAPS

USE PdfJobAssumption

----------------------------------------------------------------------------
(* The lines that go out before the render.                                *)

\* A set of naturals has a least member: what induction is reduced to.
LEMMA LeastNatural ==
  ASSUME NEW T \in SUBSET Nat, T # {}
  PROVE  \E x \in T : \A y \in T : x <= y
<1> DEFINE R == {ss \in Nat \X Nat : ss[1] < ss[2]}
<1>1. IsWellFoundedOn(R, Nat)
  BY NatLessThanWellFounded, Zenon DEF OpToRel
<1>2. \E x \in T : \A y \in T : ~ (<<y, x>> \in R)
  <2> HIDE DEF R
  <2> QED BY <1>1, WFMin
<1>3. PICK x \in T : \A y \in T : ~ (<<y, x>> \in R)
  BY <1>2
<1>4. ASSUME NEW y \in T PROVE x <= y
  <2>1. x \in Nat /\ y \in Nat
    OBVIOUS
  <2>2. ~ (<<y, x>> \in R)
    BY <1>3
  <2>3. ~ (y < x)
    BY <2>1, <2>2
  <2> QED BY <2>1, <2>3
<1> QED BY <1>4

LineType == [event : {"page", "page_error", "error", "end"}, n : Nat]

\* The loop over the pages, as the function it is: g[k] holds the lines of
\* the pages of S below k.
Walk(S, n, g) ==
  g = [k \in 0 .. n |->
        IF k = 0 THEN <<>>
        ELSE IF k - 1 \in S THEN Append(g[k - 1], Line("page", k - 1)) ELSE g[k - 1]]

LEMMA WalkExists ==
  ASSUME NEW S, NEW n \in Nat
  PROVE  \E g : Walk(S, n, g)
<1> DEFINE Bad == {m \in Nat : ~ \E g : Walk(S, m, g)}
<1> SUFFICES ASSUME Bad # {} PROVE FALSE
  OBVIOUS
<1>1. PICK m \in Bad : \A y \in Bad : m <= y
  <2>1. Bad \in SUBSET Nat
    OBVIOUS
  <2> HIDE DEF Bad
  <2> QED BY <2>1, LeastNatural
<1>2. m \in Nat /\ ~ \E g : Walk(S, m, g)
  OBVIOUS
<1>3. CASE m = 0
  <2> DEFINE g == [k \in 0 .. 0 |-> <<>>]
  <2>1. Walk(S, 0, g)
    BY DEF Walk
  <2> QED BY <1>2, <1>3, <2>1
<1>4. CASE m # 0
  <2>1. m - 1 \in Nat /\ ~ (m <= m - 1)
    BY <1>2, <1>4
  <2>2. PICK g : Walk(S, m - 1, g)
    BY <1>1, <2>1
  <2> DEFINE last == IF m - 1 \in S THEN Append(g[m - 1], Line("page", m - 1)) ELSE g[m - 1]
             h == [k \in 0 .. m |-> IF k = m THEN last ELSE g[k]]
  <2>3. ASSUME NEW k \in 0 .. m
        PROVE  h[k] = IF k = 0 THEN <<>>
                      ELSE IF k - 1 \in S THEN Append(h[k - 1], Line("page", k - 1)) ELSE h[k - 1]
    <3>1. CASE k = m
      <4>1. h[k] = last /\ h[k - 1] = g[k - 1]
        BY <2>1, <3>1
      <4> QED BY <1>4, <3>1, <4>1
    <3>2. CASE k # m /\ k = 0
      <4>1. h[k] = g[k] /\ k \in 0 .. m - 1
        BY <1>2, <3>2
      <4> QED BY <2>2, <3>2, <4>1 DEF Walk
    <3>3. CASE k # m /\ k # 0
      <4>1. h[k] = g[k] /\ h[k - 1] = g[k - 1] /\ k \in 0 .. m - 1
        BY <1>2, <3>3
      <4>2. g[k] = IF k - 1 \in S THEN Append(g[k - 1], Line("page", k - 1)) ELSE g[k - 1]
        BY <2>2, <3>3, <4>1 DEF Walk
      <4> QED BY <3>3, <4>1, <4>2
    <3> QED BY <3>1, <3>2, <3>3
  <2>4. Walk(S, m, h)
    BY <2>3 DEF Walk
  <2> QED BY <1>2, <2>4
<1> QED BY <1>3, <1>4

\* A list of page lines for the pages of S below k, each with one line.
LinesFor(s, S, k) ==
  /\ s \in Seq(LineType)
  /\ \A i \in 1 .. Len(s) : \E p \in S : p < k /\ s[i] = Line("page", p)
  /\ \A p \in S : p < k => \E i \in 1 .. Len(s) : s[i] = Line("page", p)
  /\ \A i, j \in 1 .. Len(s) : s[i].n = s[j].n => i = j

LEMMA LinesForAppend ==
  ASSUME NEW S \in SUBSET Pages, NEW k \in Pages, k \in S, NEW s, LinesFor(s, S, k)
  PROVE  LinesFor(Append(s, Line("page", k)), S, k + 1)
<1> DEFINE l == Line("page", k)
           t == Append(s, l)
<1>1. l \in LineType /\ l.n = k
  BY DEF Line, LineType, Pages
<1>2. /\ t \in Seq(LineType) /\ Len(t) = Len(s) + 1 /\ Len(s) \in Nat
      /\ \A i \in 1 .. Len(s) : t[i] = s[i]
      /\ t[Len(s) + 1] = l
  BY <1>1, AppendProperties, LenProperties DEF LinesFor
<1>3. S \subseteq Nat /\ k \in Nat
  BY DEF Pages
<1> HIDE DEF t, l
<1>4. ASSUME NEW i \in 1 .. Len(t) PROVE \E p \in S : p < k + 1 /\ t[i] = Line("page", p)
  <2>1. CASE i \in 1 .. Len(s)
    <3>1. PICK p \in S : p < k /\ s[i] = Line("page", p)
      BY <2>1 DEF LinesFor
    <3>2. p < k + 1 /\ t[i] = Line("page", p)
      BY <1>2, <1>3, <2>1, <3>1
    <3> QED BY <3>2
  <2>2. CASE i = Len(s) + 1
    BY <1>2, <1>3, <2>2 DEF l
  <2> QED BY <1>2, <2>1, <2>2
<1>5. ASSUME NEW p \in S, p < k + 1 PROVE \E i \in 1 .. Len(t) : t[i] = Line("page", p)
  <2>1. CASE p < k
    BY <1>2, <2>1 DEF LinesFor
  <2>2. CASE p = k
    BY <1>2, <2>2 DEF l
  <2> QED BY <1>3, <1>5, <2>1, <2>2
<1>6. ASSUME NEW i \in 1 .. Len(s) PROVE t[i].n \in Nat /\ t[i].n < k
  <2>1. PICK p \in S : p < k /\ s[i] = Line("page", p)
    BY DEF LinesFor
  <2> QED BY <1>2, <1>3, <2>1 DEF Line
<1>7. ASSUME NEW i \in 1 .. Len(t), NEW j \in 1 .. Len(t), t[i].n = t[j].n PROVE i = j
  <2>1. CASE i \in 1 .. Len(s) /\ j \in 1 .. Len(s)
    BY <1>2, <1>7, <2>1 DEF LinesFor
  <2>2. CASE i \in 1 .. Len(s) /\ j = Len(s) + 1
    BY <1>1, <1>2, <1>3, <1>6, <1>7, <2>2
  <2>3. CASE i = Len(s) + 1 /\ j \in 1 .. Len(s)
    BY <1>1, <1>2, <1>3, <1>6, <1>7, <2>3
  <2>4. CASE i = Len(s) + 1 /\ j = Len(s) + 1
    BY <2>4
  <2> QED BY <1>2, <2>1, <2>2, <2>3, <2>4
<1>8. LinesFor(t, S, k + 1)
  BY <1>2, <1>4, <1>5, <1>7 DEF LinesFor
<1> QED BY <1>8 DEF t, l

\* Each page without a render has one line before the render starts.
LEMMA SkippedHaveLines ==
  ASSUME skipped \subseteq Pages
  PROVE  LinesFor(SkippedLines, skipped, NumPages)
<1> DEFINE g == CHOOSE x : Walk(skipped, NumPages, x)
           Bad == {k \in 0 .. NumPages : ~ LinesFor(g[k], skipped, k)}
<1>1. Walk(skipped, NumPages, g)
  BY WalkExists
<1>2. SkippedLines = g[NumPages]
  BY DEF SkippedLines, Walk
<1> HIDE DEF g
<1>3. Bad = {}
  <2> SUFFICES ASSUME Bad # {} PROVE FALSE
    OBVIOUS
  <2>1. PICK m \in Bad : \A y \in Bad : m <= y
    <3>1. Bad \in SUBSET Nat
      OBVIOUS
    <3> HIDE DEF Bad
    <3> QED BY <3>1, LeastNatural
  <2>2. m \in 0 .. NumPages /\ ~ LinesFor(g[m], skipped, m)
    OBVIOUS
  <2>3. CASE m = 0
    <3>1. g[0] = <<>>
      BY <1>1 DEF Walk
    <3>2. <<>> \in Seq(LineType) /\ Len(<<>>) = 0
      OBVIOUS
    <3>3. \A p \in skipped : ~ (p < 0)
      BY DEF Pages
    <3>4. LinesFor(<<>>, skipped, 0)
      BY <3>2, <3>3 DEF LinesFor
    <3> QED BY <2>2, <2>3, <3>1, <3>4
  <2>4. CASE m # 0
    <3>1. m - 1 \in 0 .. NumPages /\ ~ (m <= m - 1) /\ m - 1 \in Pages /\ m - 1 + 1 = m
      BY <2>2, <2>4 DEF Pages
    <3>2. LinesFor(g[m - 1], skipped, m - 1)
      BY <2>1, <3>1
    <3>3. g[m] = IF m - 1 \in skipped THEN Append(g[m - 1], Line("page", m - 1)) ELSE g[m - 1]
      BY <1>1, <2>2, <2>4 DEF Walk
    <3>4. CASE m - 1 \in skipped
      <4>1. LinesFor(Append(g[m - 1], Line("page", m - 1)), skipped, m - 1 + 1)
        BY <3>1, <3>2, <3>4, LinesForAppend
      <4> QED BY <2>2, <3>1, <3>3, <3>4, <4>1
    <3>5. CASE m - 1 \notin skipped
      <4>1. \A p \in skipped : p < m <=> p < m - 1
        BY <2>2, <3>5 DEF Pages
      <4>2. LinesFor(g[m - 1], skipped, m)
        BY <3>2, <4>1 DEF LinesFor
      <4> QED BY <2>2, <3>3, <3>5, <4>2
    <3> QED BY <3>4, <3>5
  <2> QED BY <2>3, <2>4
<1>4. NumPages \in 0 .. NumPages
  OBVIOUS
<1> QED BY <1>2, <1>3, <1>4

----------------------------------------------------------------------------
(* The inductive invariant.                                                *)

Verdicts == Statuses \ {"RenderFailed", "TimedOut"}
Finished == {"none", "done", "threw"}
AtWork == {"render", "drain", "net", "join"}

\* The status is set when the job leaves its last loop, and once.
StatusPlace ==
  /\ pc \in {"start"} \cup AtWork => status = "none"
  /\ pc \in {"report", "end"} => status # "none"

\* Before the first page nothing has been handed out.
Fresh ==
  pc = "start" =>
    /\ delivered = {} /\ futures = <<>> /\ stored = {} /\ lines = <<>> /\ events = <<>>
    /\ unwritten = {} /\ reply = "none" /\ stream = "open"
    /\ \A p \in Pages : task[p] = "none"
    /\ \A n \in Files : file[n] = "absent"

\* Every delivered page is accounted for: it needs no render, the dispatcher
\* refused it, or its task is among the futures.
Handed ==
  /\ dropped \subseteq delivered
  /\ \A p \in delivered : p \in skipped \/ p \in dropped \/ task[p] # "none"
  /\ \A i \in 1 .. Len(futures) : futures[i] \in delivered \ skipped
  /\ \A p \in Pages : task[p] # "none" => \E i \in 1 .. Len(futures) : futures[i] = p

\* The futures before next are joined, and a task that threw was counted.
Joined ==
  /\ next \in 1 .. Len(futures) + 1
  /\ \A i \in 1 .. next - 1 : task[futures[i]] \in {"done", "threw"}
  /\ \A i \in 1 .. next - 1 : task[futures[i]] = "threw" => pageFailures > 0

\* A task that is done stored its page or counted its failure, and no page
\* is stored by anything else.
Slots ==
  /\ \A p \in Pages : task[p] = "done" => p \in stored \/ decodeFailures > 0 \/ pageFailures > 0
  /\ stored \subseteq skipped \cup {p \in Pages : task[p] = "done"}
  /\ pc \in AtWork \/ status # "none" => skipped \subseteq stored

\* A line of a page belongs to a page without a render or to a task that is
\* done, and there is one at most.
PageEvents == {"page", "page_error"}
PageLines ==
  /\ \A i \in 1 .. Len(lines) :
       lines[i].event \in PageEvents =>
         lines[i].n \in Pages /\ (lines[i].n \in skipped \/ task[lines[i].n] = "done")
  /\ \A i, j \in 1 .. Len(lines) :
       /\ lines[i].event \in PageEvents /\ lines[j].event \in PageEvents
       /\ lines[i].n = lines[j].n
       => i = j

\* What the client that is still there has read.
Wire ==
  /\ stream = "open" => \A p \in stored : HasLine("page", p)
  /\ HasLine("error", 0) => status # "Ok" /\ pc \in {"end", "finish", "ended"}
  /\ pc = "finish" /\ status = "Ok" /\ stream = "open" =>
       lines # <<>> /\ lines[Len(lines)] = Line("end", 0)

\* While no writer has died, no render was retried and none has failed, a
\* file that somebody still waits for is whole.
Clean == died = {} /\ attempt = 1 /\ reply # "failed"
Awaits ==
  Clean =>
    /\ decodeFailures = 0
    /\ \A p \in Pages : task[p] = "queued" => file[p + 1] = "whole"
    /\ \A n \in unwritten :
         /\ file[n] = "absent" /\ PageOf(n) \notin delivered
         /\ \A i \in 1 .. Len(events) : events[i] # n
    /\ status = "none" =>
         \A i \in 1 .. Len(events) :
           file[events[i]] = "whole" \/ PageOf(events[i]) \in delivered

\* What every step of the job, its tasks, the daemon and its writers keeps.
JobInv ==
  /\ TypeOK /\ StatusPlace /\ Fresh /\ Handed /\ Joined /\ Slots /\ PageLines /\ Wire
  /\ OkMeansStored /\ VerdictAfterTasks /\ Awaits

LEMMA JobInvInit == Init => JobInv
<1> SUFFICES ASSUME Init PROVE JobInv
  OBVIOUS
<1>1. <<>> \in Seq(Files) /\ <<>> \in Seq(Pages) /\ <<>> \in Seq(LineType) /\ Len(<<>>) = 0
  OBVIOUS
<1>2. TypeOK
  BY <1>1 DEF Init, TypeOK, LineType
<1>3. StatusPlace /\ Fresh /\ OkMeansStored /\ VerdictAfterTasks
  BY DEF Init, StatusPlace, Fresh, OkMeansStored, VerdictAfterTasks, AtWork
<1>4. Handed /\ Joined
  BY <1>1 DEF Init, Handed, Joined
<1>5. Slots
  BY DEF Init, Slots, AtWork
<1>6. DOMAIN lines = {}
  BY DEF Init
<1>7. PageLines /\ Wire
  BY <1>1, <1>6 DEF Init, PageLines, Wire, HasLine
<1>8. Awaits
  BY <1>1 DEF Init, Awaits
<1> QED BY <1>2, <1>3, <1>4, <1>5, <1>7, <1>8 DEF JobInv

----------------------------------------------------------------------------
(* The parts that a step leaves alone.                                     *)

\* A step that touches neither the pages' way to their tasks nor the wire.
LEMMA PagesKept ==
  ASSUME JobInv, UNCHANGED <<skipped, delivered, task, join, stored, counts, status, wire>>,
         pc' = pc
  PROVE  /\ StatusPlace' /\ Handed' /\ Joined' /\ Slots' /\ PageLines' /\ Wire'
         /\ OkMeansStored' /\ VerdictAfterTasks'
<1> USE DEF JobInv, join, counts, wire
<1>1. StatusPlace' /\ OkMeansStored' /\ VerdictAfterTasks'
  BY DEF StatusPlace, OkMeansStored, VerdictAfterTasks
<1>2. Handed' /\ Joined' /\ Slots'
  BY DEF Handed, Joined, Slots
<1>3. PageLines' /\ Wire'
  BY DEF PageLines, Wire, HasLine
<1> QED BY <1>1, <1>2, <1>3

----------------------------------------------------------------------------
(* The daemon and its writers.                                             *)

LEMMA WriteStartsKeeps ==
  ASSUME JobInv, NEW n \in Files, WriteStarts(n)
  PROVE  JobInv'
<1> USE DEF WriteStarts, Rendering
<1>1. /\ StatusPlace' /\ Handed' /\ Joined' /\ Slots' /\ PageLines' /\ Wire'
      /\ OkMeansStored' /\ VerdictAfterTasks'
  BY PagesKept
<1>2. file' = [file EXCEPT ![n] = "partial"] /\ unwritten' = unwritten \ {n} /\ n \in unwritten
  OBVIOUS
<1>3. TypeOK
  BY DEF JobInv
<1>4. \A m \in Files : file'[m] = IF m = n THEN "partial" ELSE file[m]
  BY <1>2, <1>3 DEF TypeOK
<1>5. TypeOK'
  <2>1. file' \in [Files -> {"absent", "partial", "whole", "torn"}]
    BY <1>2, <1>3 DEF TypeOK
  <2> QED BY <1>2, <1>3, <2>1 DEF TypeOK, join, counts, wire
<1>6. Fresh'
  BY <1>2 DEF JobInv, Fresh
<1>7. Awaits'
  <2> SUFFICES ASSUME Clean PROVE
        /\ decodeFailures' = 0
        /\ \A p \in Pages : task'[p] = "queued" => file'[p + 1] = "whole"
        /\ \A m \in unwritten' :
             /\ file'[m] = "absent" /\ PageOf(m) \notin delivered'
             /\ \A i \in 1 .. Len(events') : events'[i] # m
        /\ status' = "none" =>
             \A i \in 1 .. Len(events') :
               file'[events'[i]] = "whole" \/ PageOf(events'[i]) \in delivered'
    BY DEF Awaits, Clean, PageOf
  <2>1. /\ file[n] = "absent" /\ PageOf(n) \notin delivered
        /\ \A i \in 1 .. Len(events) : events[i] # n
    BY <1>2 DEF JobInv, Awaits
  <2>2. \A p \in Pages : task'[p] = "queued" => file'[p + 1] = "whole"
    BY <1>4, <2>1 DEF JobInv, Awaits, Pages, Files
  <2>3. \A i \in 1 .. Len(events) : events[i] \in Files
    BY <1>3, ElementOfSeq DEF TypeOK
  <2>4. unwritten \subseteq Files
    BY <1>3 DEF TypeOK
  <2>5. \A m \in unwritten' :
             /\ file'[m] = "absent" /\ PageOf(m) \notin delivered'
             /\ \A i \in 1 .. Len(events') : events'[i] # m
    BY <1>2, <1>4, <2>4 DEF JobInv, Awaits
  <2>6. status' = "none" =>
             \A i \in 1 .. Len(events') :
               file'[events'[i]] = "whole" \/ PageOf(events'[i]) \in delivered'
    BY <1>4, <2>1, <2>3 DEF JobInv, Awaits
  <2> QED BY <2>2, <2>5, <2>6 DEF JobInv, Awaits, counts
<1> QED BY <1>1, <1>5, <1>6, <1>7 DEF JobInv

LEMMA WriteEndsKeeps ==
  ASSUME JobInv, NEW n \in Files, WriteEnds(n)
  PROVE  JobInv'
<1> USE DEF WriteEnds, Rendering
<1>1. /\ StatusPlace' /\ Handed' /\ Joined' /\ Slots' /\ PageLines' /\ Wire'
      /\ OkMeansStored' /\ VerdictAfterTasks'
  BY PagesKept
<1>2. /\ file' = [file EXCEPT ![n] = "whole"] /\ events' = Append(events, n)
      /\ unwritten' = unwritten /\ file[n] = "partial"
  OBVIOUS
<1>3. TypeOK
  BY DEF JobInv
<1>4. \A m \in Files : file'[m] = IF m = n THEN "whole" ELSE file[m]
  BY <1>2, <1>3 DEF TypeOK
<1>5. /\ events' \in Seq(Files) /\ Len(events') = Len(events) + 1 /\ Len(events) \in Nat
      /\ \A i \in 1 .. Len(events) : events'[i] = events[i] /\ events[i] \in Files
      /\ events'[Len(events) + 1] = n
  BY <1>2, <1>3, AppendProperties, LenProperties, ElementOfSeq DEF TypeOK
<1>6. TypeOK'
  <2>1. file' \in [Files -> {"absent", "partial", "whole", "torn"}]
    BY <1>2, <1>3 DEF TypeOK
  <2> QED BY <1>2, <1>3, <1>5, <2>1 DEF TypeOK, join, counts, wire
<1>7. Fresh'
  BY <1>2 DEF JobInv, Fresh
<1>8. ASSUME NEW i \in 1 .. Len(events')
      PROVE  events'[i] = n \/ (i \in 1 .. Len(events) /\ events'[i] = events[i])
  BY <1>5
<1>9. Awaits'
  <2> SUFFICES ASSUME Clean PROVE
        /\ decodeFailures' = 0
        /\ \A p \in Pages : task'[p] = "queued" => file'[p + 1] = "whole"
        /\ \A m \in unwritten' :
             /\ file'[m] = "absent" /\ PageOf(m) \notin delivered'
             /\ \A i \in 1 .. Len(events') : events'[i] # m
        /\ status' = "none" =>
             \A i \in 1 .. Len(events') :
               file'[events'[i]] = "whole" \/ PageOf(events'[i]) \in delivered'
    BY DEF Awaits, Clean, PageOf
  <2>1. \A p \in Pages : task'[p] = "queued" => file'[p + 1] = "whole"
    BY <1>4 DEF JobInv, Awaits, Pages, Files
  <2>2. unwritten \subseteq Files /\ n \notin unwritten
    BY <1>2, <1>3 DEF TypeOK, JobInv, Awaits
  <2>3. \A m \in unwritten' :
             /\ file'[m] = "absent" /\ PageOf(m) \notin delivered'
             /\ \A i \in 1 .. Len(events') : events'[i] # m
    BY <1>2, <1>4, <1>8, <2>2 DEF JobInv, Awaits
  <2>4. status' = "none" =>
             \A i \in 1 .. Len(events') :
               file'[events'[i]] = "whole" \/ PageOf(events'[i]) \in delivered'
    BY <1>4, <1>5, <1>8 DEF JobInv, Awaits
  <2> QED BY <2>1, <2>3, <2>4 DEF JobInv, Awaits, counts
<1> QED BY <1>1, <1>6, <1>7, <1>9 DEF JobInv

LEMMA WriterDiesKeeps ==
  ASSUME JobInv, NEW n \in Files, WriterDies(n)
  PROVE  JobInv'
<1> USE DEF WriterDies, Rendering
<1>1. /\ StatusPlace' /\ Handed' /\ Joined' /\ Slots' /\ PageLines' /\ Wire'
      /\ OkMeansStored' /\ VerdictAfterTasks'
  BY PagesKept
<1>2. TypeOK
  BY DEF JobInv
<1>3. file' \in [Files -> {"absent", "partial", "whole", "torn"}]
  BY <1>2 DEF TypeOK
<1>4. events' \in Seq(Files)
  <2>1. events \in Seq(Files) /\ Append(events, n) \in Seq(Files)
    BY <1>2, AppendProperties DEF TypeOK
  <2> QED BY <2>1
<1>5. unwritten' \subseteq Files /\ died' \subseteq Files
  BY <1>2 DEF TypeOK
<1>6. TypeOK'
  BY <1>2, <1>3, <1>4, <1>5 DEF TypeOK, join, counts, wire
<1>7. Fresh'
  BY DEF JobInv, Fresh
<1>8. Awaits'
  BY DEF Awaits, Clean
<1> QED BY <1>1, <1>6, <1>7, <1>8 DEF JobInv

LEMMA DaemonKeeps ==
  ASSUME JobInv, Daemon
  PROVE  JobInv'
<1> USE DEF Daemon, ReplyOk, ReplyFails, Respawn, Rendering
<1>1. /\ StatusPlace' /\ Handed' /\ Joined' /\ Slots' /\ PageLines' /\ Wire'
      /\ OkMeansStored' /\ VerdictAfterTasks'
  BY PagesKept
<1>2. TypeOK'
  BY DEF JobInv, TypeOK, join, counts, wire
<1>3. Fresh'
  BY DEF JobInv, Fresh
<1>4. Awaits'
  <2>1. CASE ReplyOk
    BY <2>1 DEF JobInv, Awaits, Clean, counts
  <2>2. CASE ReplyFails \/ Respawn
    BY <2>2 DEF Awaits, Clean
  <2> QED BY <2>1, <2>2
<1> QED BY <1>1, <1>2, <1>3, <1>4 DEF JobInv

----------------------------------------------------------------------------
(* The stream.                                                             *)

\* One line is read, or the client is gone and nothing is added.
LEMMA OneLineSent ==
  ASSUME TypeOK, NEW l \in LineType, Send(<<l>>)
  PROVE  /\ lines' \in Seq(LineType)
         /\ stream' \in {"open", "lost", "closed"}
         /\ \/ stream = "open" /\ stream' = "open" /\ lines' = Append(lines, l)
            \/ stream' # "open" /\ lines' = lines
<1>1. lines \in Seq(LineType) /\ stream \in {"open", "lost", "closed"}
  BY DEF TypeOK, LineType
<1>2. Append(lines, l) \in Seq(LineType) /\ lines \o <<l>> = Append(lines, l)
  BY <1>1, AppendProperties, AppendIsConcat
<1>3. CASE stream = "open" /\ lines' = lines \o <<l>> /\ UNCHANGED stream
  BY <1>1, <1>2, <1>3
<1>4. CASE /\ stream = "open" /\ stream' = "lost"
           /\ \E k \in 1 .. Len(<<l>>) : lines' = lines \o SubSeq(<<l>>, 1, k - 1)
  <2>1. PICK k \in 1 .. 1 : lines' = lines \o SubSeq(<<l>>, 1, k - 1)
    BY <1>4
  <2>2. k = 1 /\ SubSeq(<<l>>, 1, 0) = <<>>
    BY SubSeqEmpty
  <2>3. lines' = lines
    BY <1>1, <2>1, <2>2, ConcatEmptySeq
  <2> QED BY <1>1, <1>4, <2>3
<1>5. CASE stream # "open" /\ UNCHANGED wire
  BY <1>1, <1>5 DEF wire
<1> QED BY <1>3, <1>4, <1>5 DEF Send

\* What the wire holds after a line: the line and what it held before.
LEMMA AppendedLine ==
  ASSUME TypeOK, NEW l \in LineType, lines' = Append(lines, l)
  PROVE  /\ Len(lines) \in Nat /\ Len(lines') = Len(lines) + 1
         /\ \A i \in 1 .. Len(lines) : lines'[i] = lines[i]
         /\ lines'[Len(lines) + 1] = l
         /\ \A event, n : HasLine(event, n)' <=> HasLine(event, n) \/ l = Line(event, n)
<1>1. lines \in Seq(LineType)
  BY DEF TypeOK, LineType
<1>2. /\ Len(lines) \in Nat /\ Len(lines') = Len(lines) + 1
      /\ \A i \in 1 .. Len(lines) : lines'[i] = lines[i]
      /\ lines'[Len(lines) + 1] = l
      /\ DOMAIN lines = 1 .. Len(lines) /\ DOMAIN lines' = 1 .. Len(lines) + 1
  <2>1. lines' \in Seq(LineType)
    BY <1>1, AppendProperties
  <2> QED BY <1>1, <2>1, AppendProperties, LenProperties
<1>3. ASSUME NEW event, NEW n
      PROVE  HasLine(event, n)' <=> HasLine(event, n) \/ l = Line(event, n)
  <2>1. ASSUME NEW i \in 1 .. Len(lines) + 1, lines'[i] = Line(event, n)
        PROVE  HasLine(event, n) \/ l = Line(event, n)
    <3>1. i \in 1 .. Len(lines) \/ i = Len(lines) + 1
      BY <1>2
    <3> QED BY <1>2, <2>1, <3>1 DEF HasLine
  <2>2. ASSUME NEW i \in 1 .. Len(lines), lines[i] = Line(event, n)
        PROVE  HasLine(event, n)'
    <3>1. i \in 1 .. Len(lines) + 1 /\ lines'[i] = Line(event, n)
      BY <1>2, <2>2
    <3> QED BY <1>2, <3>1 DEF HasLine, Line
  <2>3. ASSUME l = Line(event, n) PROVE HasLine(event, n)'
    <3>1. Len(lines) + 1 \in 1 .. Len(lines) + 1 /\ lines'[Len(lines) + 1] = Line(event, n)
      BY <1>2, <2>3
    <3> QED BY <1>2, <3>1 DEF HasLine, Line
  <2>4. HasLine(event, n)' => HasLine(event, n) \/ l = Line(event, n)
    BY <1>2, <2>1 DEF HasLine, Line
  <2>5. HasLine(event, n) => HasLine(event, n)'
    BY <1>2, <2>2 DEF HasLine
  <2> QED BY <2>3, <2>4, <2>5
<1> QED BY <1>2, <1>3

----------------------------------------------------------------------------
(* The start of the job.                                                   *)

LEMMA StartKeeps ==
  ASSUME JobInv, Start
  PROVE  JobInv'
<1>1. TypeOK /\ pc = "start"
  BY DEF JobInv, Start
<1>2. /\ delivered = {} /\ futures = <<>> /\ stored = {} /\ lines = <<>> /\ events = <<>>
      /\ unwritten = {} /\ reply = "none" /\ stream = "open" /\ status = "none"
      /\ \A p \in Pages : task[p] = "none"
      /\ \A n \in Files : file[n] = "absent"
  BY <1>1 DEF JobInv, Fresh, StatusPlace
<1>3. /\ UNCHANGED <<skipped, attempt, file, died, reply, events, delivered, task, futures,
                     next, dropped, decodeFailures, pageFailures, status>>
      /\ stored' = skipped /\ pc' \in {"join", "render"}
      /\ unwritten' = unwritten \/ unwritten' = Files
      /\ Send(SkippedLines)
  BY DEF Start, feed, join, counts
<1> DEFINE s == SkippedLines
<1>4. LinesFor(s, skipped, NumPages) /\ skipped \subseteq Pages
  BY <1>1, SkippedHaveLines DEF TypeOK
<1>5. s \in Seq(LineType) /\ Len(s) \in Nat /\ DOMAIN s = 1 .. Len(s)
  BY <1>4, LenProperties DEF LinesFor
<1> HIDE DEF s
<1>6. \/ stream' = "open" /\ lines' = s
      \/ stream' = "lost" /\ \E k \in 1 .. Len(s) : lines' = SubSeq(s, 1, k - 1)
      \/ s = <<>> /\ stream' = "open" /\ lines' = <<>>
  <2>1. \A t \in Seq(LineType) : <<>> \o t = t
    BY ConcatEmptySeq
  <2>2. \A k \in 1 .. Len(s) : SubSeq(s, 1, k - 1) \in Seq(LineType)
    <3> SUFFICES ASSUME NEW k \in 1 .. Len(s) PROVE SubSeq(s, 1, k - 1) \in Seq(LineType)
      OBVIOUS
    <3>1. \A i \in 1 .. k - 1 : s[i] \in LineType
      BY <1>5, ElementOfSeq
    <3> QED BY <1>5, <3>1, SubSeqProperties
  <2> QED BY <1>2, <1>3, <1>5, <2>1, <2>2 DEF Send, wire, s
<1>7. PICK k \in 0 .. Len(s) :
        /\ lines' = SubSeq(s, 1, k) /\ stream' \in {"open", "lost"}
        /\ stream' = "open" => k = Len(s)
  <2>0. SubSeq(s, 1, Len(s)) = s /\ Len(s) \in 0 .. Len(s)
    BY <1>5, SubSeqFull
  <2>1. CASE stream' = "open" /\ lines' = s
    BY <2>0, <2>1
  <2>2. CASE stream' = "lost" /\ \E i \in 1 .. Len(s) : lines' = SubSeq(s, 1, i - 1)
    <3>1. PICK i \in 1 .. Len(s) : lines' = SubSeq(s, 1, i - 1)
      BY <2>2
    <3>2. i - 1 \in 0 .. Len(s)
      BY <1>5
    <3> QED BY <2>2, <3>1, <3>2
  <2>3. CASE s = <<>> /\ stream' = "open" /\ lines' = <<>>
    BY <2>0, <2>3
  <2> QED BY <1>6, <2>1, <2>2, <2>3
<1>8. /\ lines' \in Seq(LineType) /\ Len(lines') = k /\ DOMAIN lines' = 1 .. k
      /\ \A i \in 1 .. k : lines'[i] = s[i] /\ i \in 1 .. Len(s)
  <2>1. \A i \in 1 .. k : s[i] \in LineType
    BY <1>5, ElementOfSeq
  <2>2. /\ lines' \in Seq(LineType) /\ Len(lines') = k
        /\ \A i \in 1 .. k : lines'[i] = s[i]
    <3>1. k \in Int /\ 1 \in Int /\ k - 1 + 1 = k /\ (IF 1 <= k THEN k - 1 + 1 ELSE 0) = k
      BY <1>5
    <3>2. /\ SubSeq(s, 1, k) \in Seq(LineType)
          /\ Len(SubSeq(s, 1, k)) = IF 1 <= k THEN k - 1 + 1 ELSE 0
          /\ \A i \in 1 .. k - 1 + 1 : SubSeq(s, 1, k)[i] = s[1 + i - 1]
      BY <2>1, <3>1, SubSeqProperties
    <3>3. \A i \in 1 .. k : 1 + i - 1 = i
      BY <3>1
    <3> QED BY <1>7, <3>1, <3>2, <3>3
  <2> QED BY <1>5, <2>2, LenProperties
<1>9. ASSUME NEW i \in 1 .. k
      PROVE  lines'[i].event = "page" /\ lines'[i].n \in skipped
  <2>1. PICK p \in skipped : s[i] = Line("page", p)
    BY <1>4, <1>8 DEF LinesFor
  <2> QED BY <1>8, <2>1 DEF Line
<1>10. TypeOK'
  BY <1>1, <1>3, <1>7, <1>8 DEF TypeOK, LineType
<1>11. StatusPlace' /\ Fresh' /\ OkMeansStored' /\ VerdictAfterTasks'
  BY <1>2, <1>3 DEF StatusPlace, AtWork, Fresh, OkMeansStored, VerdictAfterTasks
<1>12. Handed' /\ Joined'
  BY <1>3 DEF JobInv, Handed, Joined
<1>13. Slots'
  BY <1>2, <1>3 DEF Slots
<1>14. PageLines'
  <2>2. \A i, j \in 1 .. k : lines'[i].n = lines'[j].n => i = j
    BY <1>4, <1>8 DEF LinesFor
  <2>3. Len(lines') = k /\ skipped' = skipped /\ skipped \subseteq Pages
    BY <1>3, <1>4, <1>8
  <2>4. \A i \in 1 .. Len(lines') : lines'[i].n \in Pages /\ lines'[i].n \in skipped'
    BY <1>9, <2>3
  <2>5. \A i, j \in 1 .. Len(lines') : lines'[i].n = lines'[j].n => i = j
    BY <2>2, <2>3
  <2> HIDE DEF s
  <2> QED BY <2>4, <2>5 DEF PageLines
<1>15. Wire'
  <2>2. ~ HasLine("error", 0)'
    BY <1>8, <1>9 DEF HasLine, Line
  <2>3. ASSUME stream' = "open", NEW p \in skipped PROVE HasLine("page", p)'
    <3>1. p < NumPages /\ k = Len(s)
      BY <1>4, <1>7, <2>3 DEF Pages
    <3>2. PICK i \in 1 .. Len(s) : s[i] = Line("page", p)
      BY <1>4, <3>1 DEF LinesFor
    <3> QED BY <1>8, <3>1, <3>2 DEF HasLine, Line
  <2> QED BY <1>3, <2>2, <2>3 DEF Wire
<1>16. Awaits'
  <2>1. Len(events) = 0
    BY <1>2
  <2> QED BY <1>2, <1>3, <2>1 DEF JobInv, Awaits, Clean
<1> QED BY <1>10, <1>11, <1>12, <1>13, <1>14, <1>15, <1>16 DEF JobInv

LEMMA RefuseKeeps ==
  ASSUME JobInv, Refuse
  PROVE  JobInv'
<1>1. TypeOK /\ pc = "start" /\ pc' = "finish"
  BY DEF JobInv, Refuse
<1>2. UNCHANGED <<skipped, attempt, unwritten, file, died, reply, events, delivered, task,
                  futures, next, dropped, stored, decodeFailures, pageFailures, status>>
  BY DEF Refuse, render, feed, join, counts
<1>3. /\ stored = {} /\ lines = <<>> /\ status = "none"
  BY <1>1 DEF JobInv, Fresh, StatusPlace
<1> DEFINE l == Line("error", 0)
<1>4. l \in LineType /\ l.event = "error" /\ Send(<<l>>)
  BY DEF Line, LineType, Refuse
<1> HIDE DEF l
<1>5. /\ lines' \in Seq(LineType) /\ stream' \in {"open", "lost", "closed"}
      /\ lines' = Append(lines, l) \/ lines' = lines
  BY <1>1, <1>4, OneLineSent
<1>6. Len(lines) = 0
  BY <1>3
<1>7. \A i \in 1 .. Len(lines') : lines'[i].event = "error"
  <2>1. CASE lines' = lines
    BY <1>6, <2>1
  <2>2. CASE lines' = Append(lines, l)
    BY <1>1, <1>4, <1>6, <2>2, AppendedLine
  <2> QED BY <1>5, <2>1, <2>2
<1>8. TypeOK'
  BY <1>1, <1>2, <1>5 DEF TypeOK, LineType
<1>9. StatusPlace' /\ Fresh' /\ OkMeansStored' /\ VerdictAfterTasks'
  BY <1>1, <1>2, <1>3 DEF StatusPlace, AtWork, Fresh, OkMeansStored, VerdictAfterTasks, Statuses
<1>10. Handed' /\ Joined'
  BY <1>2 DEF JobInv, Handed, Joined
<1>11. Slots'
  BY <1>1, <1>2, <1>3 DEF JobInv, Slots, AtWork
<1>12. PageLines'
  BY <1>7 DEF PageLines, PageEvents
<1>13. Wire'
  BY <1>1, <1>2, <1>3 DEF Wire
<1>14. Awaits'
  BY <1>2 DEF JobInv, Awaits, Clean
<1> QED BY <1>8, <1>9, <1>10, <1>11, <1>12, <1>13, <1>14 DEF JobInv

----------------------------------------------------------------------------
(* A page is delivered.                                                    *)

LEMMA PageDelivered ==
  ASSUME JobInv, pc \in AtWork, NEW p \in Pages, p \notin delivered,
         delivered' = delivered \cup {p}, OnPage(p),
         UNCHANGED <<skipped, pc, next, stored, counts, status, wire>>
  PROVE  /\ delivered' \subseteq Pages /\ dropped' \subseteq Pages
         /\ futures' \in Seq(Pages)
         /\ task' \in [Pages -> {"none", "queued", "running", "done", "threw"}]
         /\ \A q \in Pages : task'[q] = task[q] \/ (q = p /\ task'[q] = "queued")
         /\ StatusPlace' /\ Handed' /\ Joined' /\ Slots' /\ PageLines' /\ Wire'
         /\ OkMeansStored' /\ VerdictAfterTasks'
<1>1. TypeOK /\ status = "none"
  BY DEF JobInv, StatusPlace
<1>2. task[p] = "none"
  <2> SUFFICES ASSUME task[p] # "none" PROVE FALSE
    OBVIOUS
  <2>1. PICK i \in 1 .. Len(futures) : futures[i] = p
    BY DEF JobInv, Handed
  <2> QED BY <2>1 DEF JobInv, Handed
<1>3. \/ p \in skipped /\ UNCHANGED <<task, futures, dropped>>
      \/ /\ p \notin skipped /\ task' = [task EXCEPT ![p] = "queued"]
         /\ futures' = Append(futures, p) /\ dropped' = dropped
      \/ p \notin skipped /\ dropped' = dropped \cup {p} /\ UNCHANGED <<task, futures>>
  BY DEF OnPage
<1>4. \A q \in Pages :
        task'[q] = IF q = p /\ p \notin skipped /\ futures' = Append(futures, p) /\ task' # task
                   THEN "queued" ELSE task[q]
  BY <1>1, <1>3 DEF TypeOK
<1>5. delivered' \subseteq Pages /\ dropped' \subseteq Pages
  BY <1>1, <1>3 DEF TypeOK
<1>6. task' \in [Pages -> {"none", "queued", "running", "done", "threw"}]
  BY <1>1, <1>3 DEF TypeOK
<1>7. /\ futures \in Seq(Pages) /\ Len(futures) \in Nat
      /\ \A i \in 1 .. Len(futures) : futures[i] \in Pages /\ futures[i] # p
      /\ Append(futures, p) \in Seq(Pages) /\ Len(Append(futures, p)) = Len(futures) + 1
      /\ \A i \in 1 .. Len(futures) : Append(futures, p)[i] = futures[i]
      /\ Append(futures, p)[Len(futures) + 1] = p
  BY <1>1, AppendProperties, LenProperties, ElementOfSeq DEF TypeOK, JobInv, Handed
<1>8. futures' \in Seq(Pages)
  BY <1>3, <1>7
<1>9. StatusPlace' /\ OkMeansStored' /\ VerdictAfterTasks'
  BY <1>1 DEF JobInv, StatusPlace, OkMeansStored, VerdictAfterTasks, Statuses
<1>10. CASE UNCHANGED <<task, futures>>
  <2>1. Handed'
    BY <1>3, <1>7, <1>10 DEF JobInv, Handed
  <2>2. Joined' /\ Slots' /\ PageLines'
    BY <1>10 DEF JobInv, Joined, Slots, PageLines, counts, wire
  <2>3. Wire'
    BY DEF JobInv, Wire, HasLine, wire
  <2>4. \A q \in Pages : task'[q] = task[q]
    BY <1>10
  <2> QED BY <1>5, <1>6, <1>8, <1>9, <2>1, <2>2, <2>3, <2>4
<1>11. CASE /\ p \notin skipped /\ task' = [task EXCEPT ![p] = "queued"]
            /\ futures' = Append(futures, p) /\ dropped' = dropped
  <2>1. \A q \in Pages : task'[q] = IF q = p THEN "queued" ELSE task[q]
    BY <1>1, <1>11 DEF TypeOK
  <2>2. Handed'
    <3>1. dropped' \subseteq delivered'
      BY <1>11 DEF JobInv, Handed
    <3>2. \A q \in delivered' : q \in skipped' \/ q \in dropped' \/ task'[q] # "none"
      BY <1>5, <1>11, <2>1 DEF JobInv, Handed
    <3>3. \A i \in 1 .. Len(futures') : futures'[i] \in delivered' \ skipped'
      BY <1>7, <1>11 DEF JobInv, Handed
    <3>4. ASSUME NEW q \in Pages, task'[q] # "none"
          PROVE  \E i \in 1 .. Len(futures') : futures'[i] = q
      <4>1. CASE q = p
        <5>1. Len(futures) + 1 \in 1 .. Len(futures')
          BY <1>7, <1>11
        <5> QED BY <1>7, <1>11, <4>1, <5>1
      <4>2. CASE q # p
        <5>1. PICK i \in 1 .. Len(futures) : futures[i] = q
          BY <2>1, <3>4, <4>2 DEF JobInv, Handed
        <5>2. i \in 1 .. Len(futures') /\ futures'[i] = q
          BY <1>7, <1>11, <5>1
        <5> QED BY <5>2
      <4> QED BY <4>1, <4>2
    <3> QED BY <3>1, <3>2, <3>3, <3>4 DEF Handed
  <2>3. Joined'
    <3>1. next \in 1 .. Len(futures) + 1
      BY DEF JobInv, Joined
    <3>2. \A i \in 1 .. next - 1 :
            i \in 1 .. Len(futures) /\ futures'[i] = futures[i]
            /\ task'[futures'[i]] = task[futures[i]]
      BY <1>7, <1>11, <2>1, <3>1
    <3>3. next' \in 1 .. Len(futures') + 1
      BY <1>7, <1>11, <3>1
    <3> QED BY <3>2, <3>3 DEF JobInv, Joined, counts
  <2>4. Slots'
    BY <1>1, <1>2, <2>1 DEF JobInv, Slots, TypeOK, counts
  <2>5. PageLines'
    BY <1>2, <2>1 DEF JobInv, PageLines, wire
  <2>6. Wire'
    BY DEF JobInv, Wire, HasLine, wire
  <2> QED BY <1>5, <1>6, <1>8, <1>9, <2>1, <2>2, <2>3, <2>4, <2>5, <2>6
<1> QED BY <1>3, <1>10, <1>11

LEMMA ReadEventKeeps ==
  ASSUME JobInv, ReadEvent
  PROVE  JobInv'
<1> DEFINE n == Head(events)
           p == PageOf(n)
<1>1. TypeOK /\ pc \in AtWork /\ pc # "start" /\ status = "none"
  BY DEF JobInv, ReadEvent, StatusPlace, AtWork
<1>2. /\ events' = Tail(events) /\ events # <<>>
      /\ UNCHANGED <<skipped, attempt, unwritten, file, died, reply, pc, next, stored,
                     counts, status, wire>>
  BY DEF ReadEvent, render
<1>3. /\ n \in Files /\ events' \in Seq(Files) /\ Len(events) \in Nat \ {0}
      /\ Len(events') = Len(events) - 1 /\ n = events[1]
      /\ \A i \in 1 .. Len(events') : events'[i] = events[i + 1]
      /\ \A i \in 1 .. Len(events) : events[i] \in Files
  BY <1>1, <1>2, HeadTailProperties, EmptySeq, LenProperties, ElementOfSeq DEF TypeOK
<1>4. p \in Pages /\ p + 1 = n
  BY <1>3 DEF Files, Pages, PageOf
<1> HIDE DEF n, p
<1>5. Clean' <=> Clean
  BY <1>2 DEF Clean
<1>6. \A i \in 1 .. Len(events') : \E j \in 1 .. Len(events) : events'[i] = events[j]
  <2> TAKE i \in 1 .. Len(events')
  <2>1. i + 1 \in 1 .. Len(events) /\ events'[i] = events[i + 1]
    BY <1>3
  <2> QED BY <2>1
<1>7. Fresh'
  BY <1>1, <1>2 DEF Fresh
<1>8. CASE p \in delivered /\ UNCHANGED <<delivered, task, futures, dropped>>
  <2>1. TypeOK'
    BY <1>1, <1>2, <1>3, <1>8 DEF TypeOK, counts, wire
  <2>2. /\ StatusPlace' /\ Handed' /\ Joined' /\ Slots' /\ PageLines' /\ Wire'
        /\ OkMeansStored' /\ VerdictAfterTasks'
    BY <1>2, <1>8, PagesKept DEF join
  <2>3. Awaits'
    BY <1>2, <1>5, <1>6, <1>8 DEF JobInv, Awaits, counts, PageOf
  <2> QED BY <1>7, <2>1, <2>2, <2>3 DEF JobInv
<1>9. CASE p \notin delivered /\ delivered' = delivered \cup {p} /\ OnPage(p)
  <2>1. /\ delivered' \subseteq Pages /\ dropped' \subseteq Pages
        /\ futures' \in Seq(Pages)
        /\ task' \in [Pages -> {"none", "queued", "running", "done", "threw"}]
        /\ \A q \in Pages : task'[q] = task[q] \/ (q = p /\ task'[q] = "queued")
        /\ StatusPlace' /\ Handed' /\ Joined' /\ Slots' /\ PageLines' /\ Wire'
        /\ OkMeansStored' /\ VerdictAfterTasks'
    BY <1>1, <1>2, <1>4, <1>9, PageDelivered
  <2>2. TypeOK'
    BY <1>1, <1>2, <1>3, <2>1 DEF TypeOK, counts, wire
  <2>3. ASSUME Clean
        PROVE  /\ decodeFailures = 0
               /\ file[n] = "whole"
               /\ \A q \in Pages : task'[q] = "queued" => file[q + 1] = "whole"
               /\ \A m \in unwritten :
                    /\ file[m] = "absent" /\ PageOf(m) \notin delivered'
                    /\ \A i \in 1 .. Len(events') : events'[i] # m
               /\ \A i \in 1 .. Len(events') :
                    file[events'[i]] = "whole" \/ PageOf(events'[i]) \in delivered'
    <3>1. file[n] = "whole"
      BY <1>1, <1>3, <1>9, <2>3 DEF JobInv, Awaits, p
    <3>2. \A q \in Pages : task'[q] = "queued" => file[q + 1] = "whole"
      BY <1>4, <2>1, <2>3, <3>1 DEF JobInv, Awaits
    <3>3. ASSUME NEW m \in unwritten
          PROVE  /\ file[m] = "absent" /\ PageOf(m) \notin delivered'
                 /\ \A i \in 1 .. Len(events') : events'[i] # m
      <4>1. m \in Files /\ file[m] = "absent" /\ PageOf(m) \notin delivered
        BY <1>1, <2>3 DEF JobInv, Awaits, TypeOK
      <4>2. PageOf(m) # p
        BY <1>3, <3>1, <4>1 DEF PageOf, p, Files
      <4>3. \A i \in 1 .. Len(events') : events'[i] # m
        BY <1>6, <2>3 DEF JobInv, Awaits
      <4> QED BY <1>9, <4>1, <4>2, <4>3
    <3>4. \A i \in 1 .. Len(events') :
            file[events'[i]] = "whole" \/ PageOf(events'[i]) \in delivered'
      BY <1>1, <1>6, <1>9, <2>3 DEF JobInv, Awaits
    <3> QED BY <2>3, <3>1, <3>2, <3>3, <3>4 DEF JobInv, Awaits
  <2>4. Awaits'
    BY <1>2, <1>5, <2>3 DEF Awaits, counts, PageOf
  <2> QED BY <1>7, <2>1, <2>2, <2>4 DEF JobInv
<1> QED BY <1>8, <1>9 DEF ReadEvent, Marked, n, p

LEMMA NetDeliversKeeps ==
  ASSUME JobInv, NEW n \in Files, NetDelivers(n)
  PROVE  JobInv'
<1> DEFINE p == PageOf(n)
<1>1. TypeOK /\ pc \in AtWork /\ pc # "start" /\ status = "none"
  BY DEF JobInv, NetDelivers, StatusPlace, AtWork
<1>2. /\ UNCHANGED <<skipped, attempt, unwritten, file, died, reply, events, pc, next, stored,
                     counts, status, wire>>
      /\ p \notin delivered /\ delivered' = delivered \cup {p} /\ OnPage(p)
      /\ file[n] = "whole"
  BY DEF NetDelivers, render, IsComplete
<1>3. p \in Pages /\ p + 1 = n
  BY DEF Files, Pages, PageOf
<1> HIDE DEF p
<1>4. /\ delivered' \subseteq Pages /\ dropped' \subseteq Pages
      /\ futures' \in Seq(Pages)
      /\ task' \in [Pages -> {"none", "queued", "running", "done", "threw"}]
      /\ \A q \in Pages : task'[q] = task[q] \/ (q = p /\ task'[q] = "queued")
      /\ StatusPlace' /\ Handed' /\ Joined' /\ Slots' /\ PageLines' /\ Wire'
      /\ OkMeansStored' /\ VerdictAfterTasks'
  BY <1>1, <1>2, <1>3, PageDelivered
<1>5. TypeOK'
  BY <1>1, <1>2, <1>4 DEF TypeOK, counts, wire
<1>6. Fresh'
  BY <1>1, <1>2 DEF Fresh
<1>7. ASSUME Clean
      PROVE  /\ \A q \in Pages : task'[q] = "queued" => file[q + 1] = "whole"
             /\ \A m \in unwritten : PageOf(m) \notin delivered'
  <2>1. \A q \in Pages : task'[q] = "queued" => file[q + 1] = "whole"
    BY <1>2, <1>3, <1>4, <1>7 DEF JobInv, Awaits
  <2>2. ASSUME NEW m \in unwritten PROVE PageOf(m) \notin delivered'
    <3>1. m \in Files /\ file[m] = "absent" /\ PageOf(m) \notin delivered
      BY <1>1, <1>7 DEF JobInv, Awaits, TypeOK
    <3>2. PageOf(m) # p
      BY <1>2, <3>1 DEF PageOf, p, Files
    <3> QED BY <1>2, <3>1, <3>2
  <2> QED BY <2>1, <2>2
<1>8. Awaits'
  BY <1>2, <1>7 DEF JobInv, Awaits, Clean, counts, PageOf
<1> QED BY <1>4, <1>5, <1>6, <1>8 DEF JobInv

----------------------------------------------------------------------------
(* The job moves on and gives its verdict.                                 *)

LEMMA MovesOn ==
  ASSUME JobInv, pc \in AtWork, pc' \in AtWork, stored' = stored, status' = status,
         UNCHANGED <<render, feed, task, futures, next, dropped, counts, wire>>
  PROVE  JobInv'
<1> USE DEF JobInv, render, feed, counts, wire
<1>1. status = "none" /\ pc' # "start"
  BY DEF StatusPlace, AtWork
<1>2. TypeOK'
  BY DEF TypeOK, AtWork
<1>3. StatusPlace' /\ Fresh' /\ OkMeansStored' /\ VerdictAfterTasks'
  BY <1>1 DEF StatusPlace, AtWork, Fresh, OkMeansStored, VerdictAfterTasks, Statuses
<1>4. Handed' /\ Joined' /\ Slots' /\ PageLines'
  BY DEF Handed, Joined, Slots, PageLines
<1>5. Wire'
  BY <1>1 DEF Wire, HasLine, AtWork
<1>6. Awaits'
  BY DEF Awaits, Clean, PageOf
<1> QED BY <1>2, <1>3, <1>4, <1>5, <1>6

LEMMA StatusGiven ==
  ASSUME JobInv, pc \in AtWork, pc' = "report", status' \in Statuses, stored' = stored,
         UNCHANGED <<skipped, attempt, died, reply, feed, task, futures, next, dropped,
                     counts, wire>>,
         UNCHANGED <<file, unwritten>> \/ (Removed /\ reply = "failed"),
         status' \in Verdicts => \A p \in Pages : task[p] \in Finished,
         status' = "Ok" => delivered \cup skipped \subseteq stored
  PROVE  JobInv'
<1> USE DEF feed, counts, wire
<1>1. status = "none" /\ TypeOK
  BY DEF JobInv, StatusPlace
<1>2. file' \in [Files -> {"absent", "partial", "whole", "torn"}] /\ unwritten' \subseteq Files
  <2>1. CASE UNCHANGED <<file, unwritten>>
    BY <1>1, <2>1 DEF TypeOK
  <2>2. CASE Removed
    BY <2>2 DEF Removed
  <2> QED BY <2>1, <2>2
<1>3. TypeOK'
  BY <1>1, <1>2 DEF TypeOK
<1>4. StatusPlace' /\ Fresh' /\ OkMeansStored' /\ VerdictAfterTasks'
  BY DEF StatusPlace, AtWork, Fresh, OkMeansStored, VerdictAfterTasks, Statuses, Verdicts, Finished
<1>5. Handed' /\ Joined' /\ PageLines'
  BY DEF JobInv, Handed, Joined, PageLines
<1>6. Slots'
  BY DEF JobInv, Slots
<1>7. Wire'
  <2>1. ~ HasLine("error", 0)
    BY DEF JobInv, Wire, AtWork
  <2> QED BY <2>1 DEF JobInv, Wire, HasLine
<1>8. Awaits'
  <2>1. CASE UNCHANGED <<file, unwritten>>
    BY <1>1, <2>1 DEF JobInv, Awaits, Clean, PageOf
  <2>2. CASE reply = "failed"
    BY <2>2 DEF Awaits, Clean
  <2> QED BY <2>1, <2>2
<1> QED BY <1>3, <1>4, <1>5, <1>6, <1>7, <1>8 DEF JobInv

LEMMA WaitsEndKeep ==
  ASSUME JobInv, PollEnds \/ Drained \/ NetEnds \/ JoinTimesOut
  PROVE  JobInv'
<1> USE DEF AtWork
<1>1. CASE PollEnds
  BY <1>1, MovesOn DEF PollEnds, join
<1>2. CASE NetEnds
  BY <1>2, MovesOn DEF NetEnds, join
<1>3. CASE Drained
  <2>1. CASE reply = "ok"
    <3>1. /\ pc \in AtWork /\ pc' \in AtWork /\ stored' = stored /\ status' = status
          /\ UNCHANGED <<render, feed, task, futures, next, dropped, counts, wire>>
      BY <1>3, <2>1 DEF Drained, join, render
    <3> QED BY <3>1, MovesOn
  <2>2. CASE reply = "failed"
    <3>1. /\ pc \in AtWork /\ pc' = "report" /\ status' = "RenderFailed" /\ stored' = stored
          /\ UNCHANGED <<skipped, attempt, died, reply, feed, task, futures, next, dropped,
                         counts, wire>>
          /\ Removed
      BY <1>3, <2>2 DEF Drained, join
    <3>2. status' \in Statuses /\ status' \notin Verdicts /\ status' # "Ok"
      BY <3>1 DEF Statuses, Verdicts
    <3> QED BY <2>2, <3>1, <3>2, StatusGiven
  <2> QED BY <1>3, <2>1, <2>2 DEF Drained
<1>4. CASE JoinTimesOut
  <2>1. /\ pc \in AtWork /\ pc' = "report" /\ status' = "TimedOut" /\ stored' = stored
        /\ UNCHANGED <<skipped, attempt, died, reply, feed, task, futures, next, dropped,
                       counts, wire>>
        /\ UNCHANGED <<file, unwritten>>
    BY <1>4 DEF JoinTimesOut, join, render
  <2>2. status' \in Statuses /\ status' \notin Verdicts /\ status' # "Ok"
    BY <2>1 DEF Statuses, Verdicts
  <2> QED BY <2>1, <2>2, StatusGiven
<1> QED BY <1>1, <1>2, <1>3, <1>4

LEMMA JoinKeeps ==
  ASSUME JobInv, Join
  PROVE  JobInv'
<1> DEFINE how == task[futures[next]]
<1>1. /\ pc = "join" /\ next <= Len(futures) /\ how \in {"done", "threw"}
      /\ next' = next + 1
      /\ pageFailures' = IF how = "threw" THEN pageFailures + 1 ELSE pageFailures
      /\ UNCHANGED <<render, feed, pc, task, futures, dropped, stored, decodeFailures,
                     status, wire>>
  BY DEF Join, JoinGoesOn, Counted
<1>2. TypeOK /\ status = "none"
  BY <1>1 DEF JobInv, StatusPlace, AtWork
<1>3. next \in 1 .. Len(futures) /\ Len(futures) \in Nat /\ pageFailures \in Nat
  BY <1>1, <1>2, LenProperties DEF JobInv, Joined, TypeOK
<1> HIDE DEF how
<1>4. pageFailures' \in Nat /\ (pageFailures > 0 => pageFailures' > 0)
      /\ (how = "threw" => pageFailures' > 0)
  BY <1>1, <1>3
<1> USE DEF render, feed, wire
<1>5. TypeOK'
  BY <1>1, <1>2, <1>3, <1>4 DEF TypeOK
<1>6. StatusPlace' /\ Fresh' /\ OkMeansStored' /\ VerdictAfterTasks'
  BY <1>1, <1>2 DEF StatusPlace, Fresh, OkMeansStored, VerdictAfterTasks, Statuses
<1>7. Handed' /\ PageLines'
  BY <1>1 DEF JobInv, Handed, PageLines
<1>8. Wire'
  BY <1>1 DEF JobInv, Wire, HasLine
<1>9. Joined'
  <2>1. \A i \in 1 .. next' - 1 : i \in 1 .. next - 1 \/ i = next
    BY <1>1, <1>3
  <2>2. \A i \in 1 .. next' - 1 : task[futures[i]] \in {"done", "threw"}
    BY <1>1, <2>1 DEF JobInv, Joined, how
  <2>3. \A i \in 1 .. next' - 1 : task[futures[i]] = "threw" => pageFailures' > 0
    BY <1>1, <1>4, <2>1 DEF JobInv, Joined, how
  <2>4. next' \in 1 .. Len(futures) + 1
    BY <1>1, <1>3
  <2> QED BY <1>1, <2>2, <2>3, <2>4 DEF Joined
<1>10. Slots'
  BY <1>1, <1>4 DEF JobInv, Slots
<1>11. Awaits'
  BY <1>1 DEF JobInv, Awaits, Clean, PageOf
<1> QED BY <1>5, <1>6, <1>7, <1>8, <1>9, <1>10, <1>11 DEF JobInv

LEMMA VerdictKeeps ==
  ASSUME JobInv, Verdict
  PROVE  JobInv'
<1>1. /\ pc = "join" /\ next > Len(futures) /\ pc' = "report" /\ stored' = stored
      /\ UNCHANGED <<skipped, attempt, died, reply, feed, task, futures, next, dropped,
                     counts, wire>>
      /\ UNCHANGED <<file, unwritten>>
  BY DEF Verdict, render, join
<1>2. TypeOK
  BY DEF JobInv
<1>3. /\ status' \in Statuses
      /\ status' = "Ok" => dropped = {} /\ ~ (decodeFailures > 0) /\ ~ (pageFailures > 0)
  BY DEF Verdict, Statuses
<1>4. next = Len(futures) + 1 /\ Len(futures) \in Nat
  BY <1>1, <1>2, LenProperties DEF JobInv, Joined, TypeOK
<1>5. \A i \in 1 .. Len(futures) : task[futures[i]] \in {"done", "threw"}
  BY <1>4 DEF JobInv, Joined
<1>6. ASSUME NEW p \in Pages, task[p] # "none"
      PROVE  task[p] \in {"done", "threw"} /\ (task[p] = "threw" => pageFailures > 0)
  <2>1. PICK i \in 1 .. Len(futures) : futures[i] = p
    BY <1>6 DEF JobInv, Handed
  <2> QED BY <1>4, <1>5, <2>1 DEF JobInv, Joined
<1>7. \A p \in Pages : task[p] \in Finished
  BY <1>6 DEF Finished
<1>8. ASSUME status' = "Ok", NEW p \in delivered, p \notin skipped PROVE p \in stored
  <2>1. p \in Pages /\ task[p] # "none"
    BY <1>2, <1>3, <1>8 DEF JobInv, Handed, TypeOK
  <2>2. task[p] = "done"
    BY <1>3, <1>6, <1>8, <2>1
  <2> QED BY <1>3, <1>8, <2>1, <2>2 DEF JobInv, Slots
<1>9. skipped \subseteq stored
  BY <1>1 DEF JobInv, Slots, AtWork
<1>10. status' = "Ok" => delivered \cup skipped \subseteq stored
  BY <1>8, <1>9
<1> QED BY <1>1, <1>3, <1>7, <1>10, StatusGiven DEF AtWork

----------------------------------------------------------------------------
(* The last lines of the stream.                                           *)

\* A line that is not about a page.
LEMMA NoticeSent ==
  ASSUME JobInv, NEW l \in LineType, l.event \in {"error", "end"}, Send(<<l>>),
         UNCHANGED <<skipped, task>>
  PROVE  /\ lines' \in Seq(LineType) /\ stream' \in {"open", "lost", "closed"} /\ PageLines'
         /\ \A p \in Pages : HasLine("page", p) => HasLine("page", p)'
         /\ HasLine("error", 0)' => HasLine("error", 0) \/ l = Line("error", 0)
         /\ stream' = "open" => stream = "open" /\ lines' # <<>> /\ lines'[Len(lines')] = l
<1>1. TypeOK
  BY DEF JobInv
<1>2. /\ lines' \in Seq(LineType) /\ stream' \in {"open", "lost", "closed"}
      /\ \/ stream = "open" /\ stream' = "open" /\ lines' = Append(lines, l)
         \/ stream' # "open" /\ lines' = lines
  BY <1>1, OneLineSent
<1>3. CASE stream' # "open" /\ lines' = lines
  BY <1>2, <1>3 DEF JobInv, PageLines, HasLine
<1>4. CASE stream = "open" /\ stream' = "open" /\ lines' = Append(lines, l)
  <2>1. /\ Len(lines) \in Nat /\ Len(lines') = Len(lines) + 1
        /\ \A i \in 1 .. Len(lines) : lines'[i] = lines[i]
        /\ lines'[Len(lines) + 1] = l
        /\ \A event, n : HasLine(event, n)' <=> HasLine(event, n) \/ l = Line(event, n)
    BY <1>1, <1>4, AppendedLine
  <2>2. \A i \in 1 .. Len(lines') :
          lines'[i].event \in PageEvents => i \in 1 .. Len(lines) /\ lines'[i] = lines[i]
    BY <2>1 DEF PageEvents
  <2>3. PageLines'
    BY <2>2 DEF JobInv, PageLines, PageEvents
  <2>4. lines' # <<>>
    BY <2>1
  <2> QED BY <1>2, <1>4, <2>1, <2>3, <2>4
<1> QED BY <1>2, <1>3, <1>4

LEMMA ReportErrorKeeps ==
  ASSUME JobInv, ReportError
  PROVE  JobInv'
<1>1. /\ pc = "report" /\ pc' = "end"
      /\ Send(IF status = "Ok" THEN <<>> ELSE <<Line("error", 0)>>)
      /\ UNCHANGED <<skipped, attempt, unwritten, file, died, reply, events, delivered, task,
                     futures, next, dropped, stored, decodeFailures, pageFailures, status>>
  BY DEF ReportError, render, feed, join, counts
<1>2. TypeOK /\ status # "none"
  BY <1>1 DEF JobInv, StatusPlace
<1>3. ~ HasLine("error", 0)
  BY <1>1 DEF JobInv, Wire
<1>4. /\ lines' \in Seq(LineType) /\ stream' \in {"open", "lost", "closed"} /\ PageLines'
      /\ \A p \in Pages : HasLine("page", p) => HasLine("page", p)'
      /\ HasLine("error", 0)' => status # "Ok"
      /\ stream' = "open" => stream = "open"
  <2>1. CASE status = "Ok"
    <3>1. Send(<<>>) /\ lines \in Seq(LineType) /\ Len(<<>>) = 0
      BY <1>1, <1>2, <2>1 DEF TypeOK, LineType
    <3>2. lines' = lines /\ stream' = stream
      BY <3>1, ConcatEmptySeq DEF Send, wire
    <3>3. PageLines' /\ (HasLine("error", 0)' => HasLine("error", 0))
          /\ \A p \in Pages : HasLine("page", p) => HasLine("page", p)'
      BY <1>1, <3>2 DEF JobInv, PageLines, HasLine
    <3> QED BY <1>2, <1>3, <3>1, <3>2, <3>3 DEF TypeOK
  <2>2. CASE status # "Ok"
    <3> DEFINE l == Line("error", 0)
    <3>1. l \in LineType /\ l.event \in {"error", "end"} /\ Send(<<l>>)
      BY <1>1, <2>2 DEF Line, LineType
    <3> HIDE DEF l
    <3>2. /\ lines' \in Seq(LineType) /\ stream' \in {"open", "lost", "closed"} /\ PageLines'
          /\ \A p \in Pages : HasLine("page", p) => HasLine("page", p)'
          /\ stream' = "open" => stream = "open"
      BY <1>1, <3>1, NoticeSent
    <3> QED BY <2>2, <3>2
  <2> QED BY <2>1, <2>2
<1>5. TypeOK'
  BY <1>1, <1>2, <1>4 DEF TypeOK, LineType
<1>6. StatusPlace' /\ Fresh' /\ OkMeansStored' /\ VerdictAfterTasks'
  BY <1>1, <1>2 DEF JobInv, StatusPlace, AtWork, Fresh, OkMeansStored, VerdictAfterTasks
<1>7. Handed' /\ Joined' /\ Slots'
  BY <1>1, <1>2 DEF JobInv, Handed, Joined, Slots
<1>8. Wire'
  <2>1. stored \subseteq Pages
    BY <1>2 DEF TypeOK
  <2> QED BY <1>1, <1>4, <2>1 DEF JobInv, Wire
<1>9. Awaits'
  BY <1>1 DEF JobInv, Awaits, Clean, PageOf
<1> QED BY <1>4, <1>5, <1>6, <1>7, <1>8, <1>9 DEF JobInv

LEMMA SendEndKeeps ==
  ASSUME JobInv, SendEnd
  PROVE  JobInv'
<1> DEFINE count == CASE status = "DecodeFailed" -> decodeFailures
                      [] status = "PageFailed"   -> pageFailures
                      [] OTHER                   -> 0
           l == Line("end", count)
<1>1. /\ pc = "end" /\ pc' = "finish" /\ Send(<<l>>)
      /\ UNCHANGED <<skipped, attempt, unwritten, file, died, reply, events, delivered, task,
                     futures, next, dropped, stored, decodeFailures, pageFailures, status>>
  BY DEF SendEnd, render, feed, join, counts
<1>2. TypeOK /\ status # "none"
  BY <1>1 DEF JobInv, StatusPlace
<1>3. count \in Nat /\ (status = "Ok" => count = 0)
  BY <1>2 DEF TypeOK
<1> HIDE DEF count
<1>4. l \in LineType /\ l.event = "end" /\ l # Line("error", 0)
      /\ (status = "Ok" => l = Line("end", 0))
  BY <1>3 DEF Line, LineType
<1> HIDE DEF l
<1>5. /\ lines' \in Seq(LineType) /\ stream' \in {"open", "lost", "closed"} /\ PageLines'
      /\ \A p \in Pages : HasLine("page", p) => HasLine("page", p)'
      /\ HasLine("error", 0)' => HasLine("error", 0)
      /\ stream' = "open" => stream = "open" /\ lines' # <<>> /\ lines'[Len(lines')] = l
  BY <1>1, <1>4, NoticeSent
<1>6. TypeOK'
  BY <1>1, <1>2, <1>5 DEF TypeOK, LineType
<1>7. StatusPlace' /\ Fresh' /\ OkMeansStored' /\ VerdictAfterTasks'
  BY <1>1, <1>2 DEF JobInv, StatusPlace, AtWork, Fresh, OkMeansStored, VerdictAfterTasks
<1>8. Handed' /\ Joined' /\ Slots'
  BY <1>1, <1>2 DEF JobInv, Handed, Joined, Slots
<1>9. Wire'
  <2>1. stored \subseteq Pages
    BY <1>2 DEF TypeOK
  <2>2. stream' = "open" => \A p \in stored' : HasLine("page", p)'
    BY <1>1, <1>5, <2>1 DEF JobInv, Wire
  <2>3. HasLine("error", 0)' => status' # "Ok" /\ pc' \in {"end", "finish", "ended"}
    BY <1>1, <1>5 DEF JobInv, Wire
  <2>4. status' = "Ok" /\ stream' = "open" => lines' # <<>> /\ lines'[Len(lines')] = Line("end", 0)
    BY <1>1, <1>4, <1>5
  <2>5. Line("end", 0)' = Line("end", 0)
    BY DEF Line
  <2> QED BY <2>2, <2>3, <2>4, <2>5 DEF Wire
<1>10. Awaits'
  BY <1>1 DEF JobInv, Awaits, Clean, PageOf
<1> QED BY <1>5, <1>6, <1>7, <1>8, <1>9, <1>10 DEF JobInv

LEMMA FinishKeeps ==
  ASSUME JobInv, Finish
  PROVE  JobInv'
<1> USE DEF Finish, render, feed, join, counts
<1>1. TypeOK' /\ StatusPlace' /\ Fresh'
  BY DEF JobInv, TypeOK, StatusPlace, AtWork, Fresh
<1>2. OkMeansStored' /\ VerdictAfterTasks' /\ Handed' /\ Joined' /\ PageLines'
  BY DEF JobInv, OkMeansStored, VerdictAfterTasks, Handed, Joined, PageLines
<1>3. Slots'
  BY DEF JobInv, Slots, AtWork
<1>4. Wire'
  BY DEF JobInv, Wire, HasLine
<1>5. Awaits'
  BY DEF JobInv, Awaits, Clean, PageOf
<1> QED BY <1>1, <1>2, <1>3, <1>4, <1>5 DEF JobInv

----------------------------------------------------------------------------
(* The page tasks.                                                         *)

\* A task at work has a page that was delivered and needs a render, and no
\* verdict has been drawn.
LEMMA AtWorkTask ==
  ASSUME JobInv, NEW p \in Pages, task[p] \in {"queued", "running"}
  PROVE  p \in delivered /\ p \notin skipped /\ status \notin Verdicts /\ pc # "start"
<1>1. PICK i \in 1 .. Len(futures) : futures[i] = p
  BY DEF JobInv, Handed
<1> QED BY <1>1 DEF JobInv, Handed, VerdictAfterTasks, Verdicts, Fresh

\* What a task that moves on leaves as it was.
LEMMA TaskMoves ==
  ASSUME JobInv, NEW p \in Pages, task[p] \in {"queued", "running"},
         NEW how \in {"running", "done", "threw"}, task' = [task EXCEPT ![p] = how],
         UNCHANGED <<skipped, delivered, futures, next, dropped, pc, status>>,
         stored \subseteq stored',
         pageFailures' \in Nat, pageFailures > 0 => pageFailures' > 0
  PROVE  /\ task' \in [Pages -> {"none", "queued", "running", "done", "threw"}]
         /\ \A q \in Pages : task'[q] = IF q = p THEN how ELSE task[q]
         /\ StatusPlace' /\ Fresh' /\ Handed' /\ Joined' /\ OkMeansStored' /\ VerdictAfterTasks'
<1>1. TypeOK /\ p \in delivered /\ p \notin skipped /\ status \notin Verdicts /\ pc # "start"
  BY AtWorkTask DEF JobInv
<1>2. \A q \in Pages : task'[q] = IF q = p THEN how ELSE task[q]
  BY <1>1 DEF TypeOK
<1>3. task' \in [Pages -> {"none", "queued", "running", "done", "threw"}]
  BY <1>1 DEF TypeOK
<1>4. StatusPlace' /\ Fresh' /\ OkMeansStored' /\ VerdictAfterTasks'
  BY <1>1 DEF JobInv, StatusPlace, Fresh, OkMeansStored, VerdictAfterTasks, Verdicts, Statuses
<1>5. Handed'
  <2>1. \A q \in Pages : task'[q] # "none" <=> task[q] # "none"
    BY <1>2
  <2>2. delivered \subseteq Pages
    BY <1>1 DEF TypeOK
  <2> QED BY <2>1, <2>2 DEF JobInv, Handed
<1>6. Joined'
  <2>1. /\ next \in 1 .. Len(futures) + 1 /\ Len(futures) \in Nat
        /\ \A i \in 1 .. Len(futures) : futures[i] \in Pages
    BY <1>1, LenProperties, ElementOfSeq DEF JobInv, Joined, TypeOK
  <2>2. ASSUME NEW i \in 1 .. next - 1 PROVE task'[futures[i]] = task[futures[i]]
    <3>1. futures[i] # p /\ futures[i] \in Pages
      BY <2>1 DEF JobInv, Joined
    <3> QED BY <1>2, <3>1
  <2> QED BY <2>2 DEF JobInv, Joined
<1> QED BY <1>2, <1>3, <1>4, <1>5, <1>6

\* The line of a task's page is the only one of that page.
LEMMA PageLineSent ==
  ASSUME JobInv, NEW p \in Pages, task[p] \in {"queued", "running"},
         NEW event \in PageEvents, Send(<<Line(event, p)>>),
         task' = [task EXCEPT ![p] = "done"], skipped' = skipped
  PROVE  /\ lines' \in Seq(LineType) /\ stream' \in {"open", "lost", "closed"} /\ PageLines'
         /\ \A q \in Pages : HasLine("page", q) => HasLine("page", q)'
         /\ HasLine("error", 0)' => HasLine("error", 0)
         /\ stream' = "open" => stream = "open" /\ HasLine(event, p)'
<1> DEFINE l == Line(event, p)
<1>1. TypeOK /\ p \notin skipped
  BY AtWorkTask DEF JobInv
<1>2. l \in LineType /\ l.event = event /\ l.n = p /\ l = Line(event, p) /\ l # Line("error", 0)
  BY DEF Line, LineType, PageEvents, Pages
<1> HIDE DEF l
<1>3. /\ lines' \in Seq(LineType) /\ stream' \in {"open", "lost", "closed"}
      /\ \/ stream = "open" /\ stream' = "open" /\ lines' = Append(lines, l)
         \/ stream' # "open" /\ lines' = lines
  BY <1>1, <1>2, OneLineSent DEF l
<1>4. \A q \in Pages : task'[q] = IF q = p THEN "done" ELSE task[q]
  BY <1>1 DEF TypeOK
<1>5. \A i \in 1 .. Len(lines) :
        lines[i].event \in PageEvents =>
          /\ lines[i].n \in Pages /\ lines[i].n # p
          /\ lines[i].n \in skipped \/ task'[lines[i].n] = "done"
  BY <1>1, <1>4 DEF JobInv, PageLines
<1>6. CASE stream' # "open" /\ lines' = lines
  <2>1. PageLines'
    BY <1>5, <1>6 DEF JobInv, PageLines
  <2> QED BY <1>3, <1>6, <2>1 DEF HasLine
<1>7. CASE stream = "open" /\ stream' = "open" /\ lines' = Append(lines, l)
  <2>1. /\ Len(lines) \in Nat /\ Len(lines') = Len(lines) + 1
        /\ \A i \in 1 .. Len(lines) : lines'[i] = lines[i]
        /\ lines'[Len(lines) + 1] = l
        /\ \A e, n : HasLine(e, n)' <=> HasLine(e, n) \/ l = Line(e, n)
    BY <1>1, <1>2, <1>7, AppendedLine
  <2>2. ASSUME NEW i \in 1 .. Len(lines')
        PROVE  (i \in 1 .. Len(lines) /\ lines'[i] = lines[i]) \/ (i = Len(lines) + 1 /\ lines'[i] = l)
    BY <2>1
  <2>3. ASSUME NEW i \in 1 .. Len(lines'), lines'[i].event \in PageEvents
        PROVE  lines'[i].n \in Pages /\ (lines'[i].n \in skipped \/ task'[lines'[i].n] = "done")
    BY <1>2, <1>4, <1>5, <2>2, <2>3
  <2>4. ASSUME NEW i \in 1 .. Len(lines'), NEW j \in 1 .. Len(lines'),
               lines'[i].event \in PageEvents, lines'[j].event \in PageEvents,
               lines'[i].n = lines'[j].n
        PROVE  i = j
    <3>1. CASE i \in 1 .. Len(lines) /\ j \in 1 .. Len(lines)
      BY <2>1, <2>4, <3>1 DEF JobInv, PageLines
    <3>2. CASE i = Len(lines) + 1 /\ j = Len(lines) + 1
      BY <3>2
    <3>3. CASE i \in 1 .. Len(lines) /\ j = Len(lines) + 1
      BY <1>2, <1>5, <2>1, <2>4, <3>3
    <3>4. CASE i = Len(lines) + 1 /\ j \in 1 .. Len(lines)
      BY <1>2, <1>5, <2>1, <2>4, <3>4
    <3> QED BY <2>2, <3>1, <3>2, <3>3, <3>4
  <2>5. PageLines'
    BY <2>3, <2>4 DEF PageLines
  <2> QED BY <1>2, <1>3, <1>7, <2>1, <2>5
<1> QED BY <1>3, <1>6, <1>7

LEMMA TaskDecodesKeeps ==
  ASSUME JobInv, NEW p \in Pages, TaskDecodes(p)
  PROVE  JobInv'
<1>1. /\ task[p] = "queued"
      /\ UNCHANGED <<skipped, attempt, unwritten, died, reply, events, delivered, pc, futures,
                     next, dropped, stored, pageFailures, status>>
  BY DEF TaskDecodes, feed, join
<1>2. TypeOK /\ p \in delivered /\ p \notin skipped /\ status \notin Verdicts
  BY <1>1, AtWorkTask DEF JobInv
<1>3. p + 1 \in Files /\ pageFailures \in Nat /\ decodeFailures \in Nat /\ PageOf(p + 1) = p
  BY <1>2 DEF Pages, Files, TypeOK, PageOf
<1>4. \A i \in 1 .. Len(events) : events[i] \in Files
  BY <1>2, ElementOfSeq DEF TypeOK
<1>5. CASE /\ file[p + 1] = "whole" /\ file' = [file EXCEPT ![p + 1] = "absent"]
           /\ task' = [task EXCEPT ![p] = "running"] /\ UNCHANGED <<decodeFailures, wire>>
  <2>1. /\ task' \in [Pages -> {"none", "queued", "running", "done", "threw"}]
        /\ \A q \in Pages : task'[q] = IF q = p THEN "running" ELSE task[q]
        /\ StatusPlace' /\ Fresh' /\ Handed' /\ Joined' /\ OkMeansStored' /\ VerdictAfterTasks'
    BY <1>1, <1>3, <1>5, TaskMoves
  <2>2. \A n \in Files : file'[n] = IF n = p + 1 THEN "absent" ELSE file[n]
    BY <1>2, <1>5 DEF TypeOK
  <2>3. file' \in [Files -> {"absent", "partial", "whole", "torn"}]
    BY <1>2, <1>5 DEF TypeOK
  <2>4. TypeOK'
    BY <1>1, <1>2, <1>5, <2>1, <2>3 DEF TypeOK, wire
  <2>5. Slots'
    BY <1>1, <1>2, <1>5, <2>1 DEF JobInv, Slots, TypeOK
  <2>6. PageLines'
    BY <1>1, <1>2, <1>5, <2>1 DEF JobInv, PageLines, wire
  <2>7. Wire'
    BY <1>1, <1>5 DEF JobInv, Wire, HasLine, wire
  <2>8. Awaits'
    <3> SUFFICES ASSUME Clean
                 PROVE  /\ decodeFailures' = 0
                        /\ \A q \in Pages : task'[q] = "queued" => file'[q + 1] = "whole"
                        /\ \A m \in unwritten :
                             /\ file'[m] = "absent" /\ PageOf(m) \notin delivered
                             /\ \A i \in 1 .. Len(events) : events[i] # m
                        /\ status = "none" =>
                             \A i \in 1 .. Len(events) :
                               file'[events[i]] = "whole" \/ PageOf(events[i]) \in delivered
      BY <1>1 DEF Awaits, Clean, PageOf
    <3>1. \A q \in Pages : task'[q] = "queued" => file'[q + 1] = "whole"
      <4> SUFFICES ASSUME NEW q \in Pages, task'[q] = "queued" PROVE file'[q + 1] = "whole"
        OBVIOUS
      <4>1. q # p /\ task[q] = "queued"
        BY <2>1
      <4>2. q + 1 \in Files /\ q + 1 # p + 1
        BY <4>1 DEF Pages, Files
      <4> QED BY <2>2, <4>1, <4>2 DEF JobInv, Awaits
    <3>2. unwritten \subseteq Files
      BY <1>2 DEF TypeOK
    <3>3. \A m \in unwritten :
            /\ file'[m] = "absent" /\ PageOf(m) \notin delivered
            /\ \A i \in 1 .. Len(events) : events[i] # m
      BY <2>2, <3>2 DEF JobInv, Awaits
    <3>4. status = "none" =>
            \A i \in 1 .. Len(events) :
              file'[events[i]] = "whole" \/ PageOf(events[i]) \in delivered
      BY <1>2, <1>3, <1>4, <2>2 DEF JobInv, Awaits
    <3> QED BY <1>5, <3>1, <3>3, <3>4 DEF JobInv, Awaits
  <2> QED BY <2>1, <2>4, <2>5, <2>6, <2>7, <2>8 DEF JobInv
<1>6. CASE /\ file[p + 1] # "whole" /\ file' \in {file, [file EXCEPT ![p + 1] = "absent"]}
           /\ task' = [task EXCEPT ![p] = "done"] /\ decodeFailures' = decodeFailures + 1
           /\ Send(<<Line("page_error", p)>>)
  <2>1. /\ task' \in [Pages -> {"none", "queued", "running", "done", "threw"}]
        /\ \A q \in Pages : task'[q] = IF q = p THEN "done" ELSE task[q]
        /\ StatusPlace' /\ Fresh' /\ Handed' /\ Joined' /\ OkMeansStored' /\ VerdictAfterTasks'
    BY <1>1, <1>3, <1>6, TaskMoves
  <2>2. /\ lines' \in Seq(LineType) /\ stream' \in {"open", "lost", "closed"} /\ PageLines'
        /\ \A q \in Pages : HasLine("page", q) => HasLine("page", q)'
        /\ HasLine("error", 0)' => HasLine("error", 0)
        /\ stream' = "open" => stream = "open"
    BY <1>1, <1>6, PageLineSent DEF PageEvents
  <2>3. file' \in [Files -> {"absent", "partial", "whole", "torn"}]
    BY <1>2, <1>6 DEF TypeOK
  <2>4. decodeFailures' \in Nat /\ decodeFailures' > 0
    BY <1>3, <1>6
  <2>5. TypeOK'
    BY <1>1, <1>2, <2>1, <2>2, <2>3, <2>4 DEF TypeOK, LineType
  <2>6. Slots'
    <3>1. stored \subseteq Pages
      BY <1>2 DEF TypeOK
    <3>2. stored' \subseteq skipped \cup {q \in Pages : task'[q] = "done"}
      BY <1>1, <2>1, <3>1 DEF JobInv, Slots
    <3> QED BY <1>1, <2>4, <3>2 DEF JobInv, Slots
  <2>7. Wire'
    <3>1. stored \subseteq Pages
      BY <1>2 DEF TypeOK
    <3>2. status # "Ok"
      BY <1>2 DEF Verdicts, Statuses
    <3> QED BY <1>1, <2>2, <3>1, <3>2 DEF JobInv, Wire
  <2>8. Awaits'
    BY <1>1, <1>6 DEF JobInv, Awaits, Clean
  <2> QED BY <2>1, <2>2, <2>5, <2>6, <2>7, <2>8 DEF JobInv
<1> QED BY <1>1, <1>5, <1>6 DEF TaskDecodes

\* The end of a task leaves no file waiting that was not waited for.
LEMMA AwaitsKept ==
  ASSUME JobInv, NEW p \in Pages, task[p] \in {"queued", "running"},
         \A q \in Pages : task'[q] = "queued" => task[q] = "queued",
         UNCHANGED <<attempt, unwritten, died, reply, events, delivered, file, decodeFailures,
                     status>>
  PROVE  Awaits'
BY DEF JobInv, Awaits, Clean, PageOf

LEMMA TaskEndsKeeps ==
  ASSUME JobInv, NEW p \in Pages, TaskEnds(p)
  PROVE  JobInv'
<1>1. /\ task[p] = "running" /\ task' = [task EXCEPT ![p] = "done"]
      /\ UNCHANGED <<skipped, attempt, unwritten, file, died, reply, events, delivered, pc,
                     futures, next, dropped, decodeFailures, status>>
  BY DEF TaskEnds, render, feed, join
<1>2. TypeOK /\ p \in delivered /\ p \notin skipped /\ status \notin Verdicts /\ status # "Ok"
  BY <1>1, AtWorkTask DEF JobInv, Verdicts, Statuses
<1>3. /\ stored' = stored \cup {p} \/ stored' = stored
      /\ pageFailures' = pageFailures \/ pageFailures' = pageFailures + 1
      /\ stored' = stored \cup {p} \/ pageFailures' > 0
  BY <1>2 DEF TaskEnds, TypeOK
<1>4. pageFailures \in Nat /\ pageFailures' \in Nat /\ (pageFailures > 0 => pageFailures' > 0)
  BY <1>2, <1>3 DEF TypeOK
<1>5. /\ task' \in [Pages -> {"none", "queued", "running", "done", "threw"}]
      /\ \A q \in Pages : task'[q] = IF q = p THEN "done" ELSE task[q]
      /\ StatusPlace' /\ Fresh' /\ Handed' /\ Joined' /\ OkMeansStored' /\ VerdictAfterTasks'
  BY <1>1, <1>3, <1>4, TaskMoves
<1>6. PICK event \in PageEvents :
        Send(<<Line(event, p)>>) /\ (stored' = stored \/ event = "page")
  BY DEF TaskEnds, PageEvents
<1>7. /\ lines' \in Seq(LineType) /\ stream' \in {"open", "lost", "closed"} /\ PageLines'
      /\ \A q \in Pages : HasLine("page", q) => HasLine("page", q)'
      /\ HasLine("error", 0)' => HasLine("error", 0)
      /\ stream' = "open" => stream = "open" /\ HasLine(event, p)'
  BY <1>1, <1>6, PageLineSent
<1>8. stored \subseteq Pages /\ stored' \subseteq Pages
  BY <1>2, <1>3 DEF TypeOK
<1>9. TypeOK'
  BY <1>1, <1>2, <1>4, <1>5, <1>7, <1>8 DEF TypeOK, LineType
<1>10. Slots'
  <2>1. stored' \subseteq skipped \cup {q \in Pages : task'[q] = "done"}
    BY <1>3, <1>5, <1>8 DEF JobInv, Slots
  <2>2. ASSUME NEW q \in Pages, task'[q] = "done"
        PROVE  q \in stored' \/ decodeFailures' > 0 \/ pageFailures' > 0
    <3>1. CASE q = p
      BY <1>3, <3>1
    <3>2. CASE q # p
      BY <1>1, <1>3, <1>4, <1>5, <2>2, <3>2 DEF JobInv, Slots
    <3> QED BY <3>1, <3>2
  <2> QED BY <1>1, <1>3, <2>1, <2>2 DEF JobInv, Slots
<1>11. Wire'
  <2>1. ASSUME stream' = "open", NEW q \in stored' PROVE HasLine("page", q)'
    <3>1. CASE q \in stored
      BY <1>7, <1>8, <2>1, <3>1 DEF JobInv, Wire
    <3>2. CASE q \notin stored
      <4>1. q = p /\ event = "page"
        BY <1>3, <1>6, <2>1, <3>2
      <4> QED BY <1>7, <2>1, <4>1
    <3> QED BY <3>1, <3>2
  <2> QED BY <1>1, <1>2, <1>7, <2>1 DEF JobInv, Wire
<1>12. Awaits'
  BY <1>1, <1>5, AwaitsKept
<1> QED BY <1>5, <1>7, <1>9, <1>10, <1>11, <1>12 DEF JobInv

LEMMA TaskThrowsKeeps ==
  ASSUME JobInv, NEW p \in Pages, TaskThrows(p)
  PROVE  JobInv'
<1>1. /\ task[p] \in {"queued", "running"} /\ task' = [task EXCEPT ![p] = "threw"]
      /\ UNCHANGED <<skipped, attempt, unwritten, file, died, reply, events, delivered, pc,
                     futures, next, dropped, stored, decodeFailures, pageFailures, status,
                     lines, stream>>
  BY DEF TaskThrows, render, feed, join, counts, wire
<1>2. TypeOK /\ pageFailures \in Nat
  BY DEF JobInv, TypeOK
<1>3. /\ task' \in [Pages -> {"none", "queued", "running", "done", "threw"}]
      /\ \A q \in Pages : task'[q] = IF q = p THEN "threw" ELSE task[q]
      /\ StatusPlace' /\ Fresh' /\ Handed' /\ Joined' /\ OkMeansStored' /\ VerdictAfterTasks'
  BY <1>1, <1>2, TaskMoves
<1>4. TypeOK'
  BY <1>1, <1>2, <1>3 DEF TypeOK
<1>5. Slots'
  <2>1. stored \subseteq Pages
    BY <1>2 DEF TypeOK
  <2> QED BY <1>1, <1>3, <2>1 DEF JobInv, Slots
<1>6. PageLines'
  <2>1. \A q \in Pages : task[q] = "done" => task'[q] = "done"
    BY <1>1, <1>3
  <2> QED BY <1>1, <2>1 DEF JobInv, PageLines
<1>7. Wire'
  BY <1>1 DEF JobInv, Wire, HasLine
<1>8. Awaits'
  BY <1>1, <1>3, AwaitsKept
<1> QED BY <1>3, <1>4, <1>5, <1>6, <1>7, <1>8 DEF JobInv

LEMMA CleanupKeeps ==
  ASSUME JobInv, Cleanup
  PROVE  JobInv'
<1> USE DEF Cleanup, Removed, NoOwnerLeft
<1>1. /\ StatusPlace' /\ Handed' /\ Joined' /\ Slots' /\ PageLines' /\ Wire'
      /\ OkMeansStored' /\ VerdictAfterTasks'
  <2>1. UNCHANGED <<skipped, delivered, task, join, stored, counts, status, wire>> /\ pc' = pc
    BY DEF feed
  <2> HIDE DEF Cleanup
  <2> QED BY <2>1, PagesKept
<1>2. TypeOK'
  <2>1. file' \in [Files -> {"absent", "partial", "whole", "torn"}]
    OBVIOUS
  <2> QED BY <2>1 DEF JobInv, TypeOK, feed, join, counts, wire
<1>3. Fresh'
  BY DEF JobInv, Fresh, StatusPlace
<1>4. Awaits'
  BY DEF JobInv, Awaits, Clean, feed, counts
<1> QED BY <1>1, <1>2, <1>3, <1>4 DEF JobInv

----------------------------------------------------------------------------
(* Theorems.                                                               *)

LEMMA JobInvNext == JobInv /\ [Next]_vars => JobInv'
<1> SUFFICES ASSUME JobInv, [Next]_vars PROVE JobInv'
  OBVIOUS
<1>1. CASE UNCHANGED vars
  <2>1. /\ StatusPlace' /\ Handed' /\ Joined' /\ Slots' /\ PageLines' /\ Wire'
        /\ OkMeansStored' /\ VerdictAfterTasks'
    BY <1>1, PagesKept DEF vars, render, feed
  <2>2. TypeOK' /\ Fresh'
    BY <1>1 DEF JobInv, TypeOK, Fresh, vars, render, feed, join, counts, wire
  <2>3. Awaits'
    BY <1>1 DEF JobInv, Awaits, Clean, vars, render, feed, join, counts, wire
  <2> QED BY <2>1, <2>2, <2>3 DEF JobInv
<1>2. CASE Job
  BY <1>2, StartKeeps, RefuseKeeps, ReadEventKeeps, WaitsEndKeep, NetDeliversKeeps, JoinKeeps,
     VerdictKeeps, ReportErrorKeeps, SendEndKeeps, FinishKeeps DEF Job
<1>3. ASSUME NEW n \in Files, WriteStarts(n) \/ WriteEnds(n) \/ WriterDies(n) PROVE JobInv'
  BY <1>3, WriteStartsKeeps, WriteEndsKeeps, WriterDiesKeeps
<1>4. ASSUME NEW p \in Pages, TaskDecodes(p) \/ TaskEnds(p) \/ TaskThrows(p) PROVE JobInv'
  BY <1>4, TaskDecodesKeeps, TaskEndsKeeps, TaskThrowsKeeps
<1> QED BY <1>1, <1>2, <1>3, <1>4, DaemonKeeps, CleanupKeeps DEF Next, Over

\* JobInv holds in every reachable state: the inductive invariant that the safety
\* of run_pdf_job_gpu() rests on.
THEOREM JobInvariant == Spec => []JobInv
BY JobInvInit, JobInvNext, PTL DEF Spec

\* Safety: whatever the order of events, retried renders, scans of the net and
\* late tasks, the wire shows a page once, an Ok job has stored every page it
\* was handed and sent the line of each, a verdict is drawn after the last
\* task, and a page fails to decode only when the renderer has failed.
THEOREM JobSafe == Spec => []Safety
<1>1. JobInv => Safety
  <2> SUFFICES ASSUME JobInv PROVE Safety
    OBVIOUS
  <2>1. OneLinePerPage
    <3> SUFFICES ASSUME NEW p \in Pages PROVE Cardinality(LinesOf(p)) <= 1
      BY DEF OneLinePerPage
    <3>1. DOMAIN lines = 1 .. Len(lines)
      BY LenProperties DEF JobInv, TypeOK
    <3>2. \A i, j \in LinesOf(p) : i = j
      BY <3>1 DEF JobInv, PageLines, LinesOf, PageEvents
    <3>3. CASE LinesOf(p) = {}
      BY <3>3, FS_EmptySet
    <3>4. CASE LinesOf(p) # {}
      <4>1. PICK i : LinesOf(p) = {i}
        BY <3>2, <3>4
      <4>2. Cardinality({i}) = 1
        BY FS_Singleton
      <4> QED BY <4>1, <4>2
    <3> QED BY <3>3, <3>4
  <2>2. OkStreamComplete
    <3> SUFFICES ASSUME pc = "finish", status = "Ok", stream = "open"
                 PROVE  /\ \A p \in delivered \cup skipped : HasLine("page", p)
                        /\ ~HasLine("error", 0)
                        /\ Last(lines) = Line("end", 0)
      BY DEF OkStreamComplete
    <3>1. delivered \cup skipped \subseteq stored
      BY DEF JobInv, OkMeansStored
    <3> QED BY <3>1 DEF JobInv, Wire, Last
  <2>3. DecodeFailuresHaveCause
    BY DEF JobInv, Awaits, Clean, DecodeFailuresHaveCause, TypeOK
  <2> QED BY <2>1, <2>2, <2>3 DEF JobInv, Safety
<1> QED BY <1>1, JobInvariant, PTL

====
