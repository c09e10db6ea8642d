-------------------------- MODULE OcrPipelineProofs --------------------------
(* The safety of the OCR pipeline, for every program of calls, every set of
   pages, buffer and batch size, and any number of faults.

   Three facts carry one another from step to step.  DeviceOK: a buffer that
   counts as large enough is there, and no copy is queued towards memory that a
   later allocation could free under it.  PixelsOK: which page each buffer holds
   at the worker's stage, or that its copy is the last one queued while staging
   still holds the page.  HostOK: how far every result of the call in hand and
   of every reply has come.  The memory needs to know only the page in hand; the
   results need both, because recognition and the layout read a page out of a
   buffer; the pixels need the stage the host has reached. *)
EXTENDS OcrPipeline, SequenceTheorems, FiniteSetTheorems, TLAPS

----------------------------------------------------------------------------
(* Types *)

PageOrNone == Pages \union {NoPage}
Stages == {"upload", "settle", "detect", "layout", "classify", "recognise",
           "collect", "table", "formula", "infer", "reply"}
Buffers == [cap: Nat, live: BOOLEAN, page: PageOrNone]
Copies == [to: BufIds, rows: Nat]
Outcomes == Outcome \union {"open"}
Results ==
  [page: Pages, source: PageOrNone, boxes: Nat, text: BOOLEAN, layout: PageOrNone,
   items: [Modalities -> Seq(Outcome)], waiting: [Modalities -> Seq(Outcomes)],
   degraded: SUBSET (Modalities \union {"text"}), ordered: BOOLEAN]
Replies == [st: {"none", "finalizing", "done", "failed", "empty"},
            results: Seq(Results), late: BOOLEAN]
Workers ==
  [at: Stages \union {"idle"}, call: Nat, chunk: Seq(Pages), left: Seq(Pages), i: Nat,
   enqueued: BOOLEAN, results: Seq(Results), done: Seq(Results)]

HostType ==
  /\ program \in Seq(Calls)
  /\ reply \in [1 .. Len(program) -> Replies]
  /\ worker \in Workers /\ worker.call <= Len(program)

DeviceType ==
  /\ bufs \in [BufIds -> Buffers] /\ cur \in {0, 1} /\ pinned \in Buffers
  /\ copies \in Seq(Copies)
  /\ layout \in [armed: BOOLEAN, input: BufIds]

----------------------------------------------------------------------------
(* Memory: what still counts is there. *)

Held(b) == b.cap > 0 => b.live
MemoryOK == UploadsFit /\ Held(pinned) /\ \A b \in BufIds: Held(bufs[b])

----------------------------------------------------------------------------
(* Results *)

AskedFor(cl, r, m) ==
  IF r.layout = NoPage \/ m \notin cl.want \/ cl.kind = "layout" THEN 0
  ELSE Regions[r.layout][m]

Raw(r, m) == r.items[m] = <<>> /\ r.waiting[m] = <<>>

(* Every region asked for has its item, or its future, or the stage is flagged. *)
Settled(r, cl, m) ==
  \/ m \in r.degraded
  \/ /\ Len(r.items[m]) + Len(r.waiting[m]) = AskedFor(cl, r, m)
     /\ \A j \in 1 .. Len(r.items[m]): r.items[m][j] # "blank"

OnlyStructure(cl) == cl.kind \in {"layout", "structure"}
Textful(r) == (r.boxes > 0 /\ ~r.text) => "text" \in r.degraded
Sourced(r, cl) ==
  IF OnlyStructure(cl) THEN r.source = NoPage /\ r.boxes = 0
  ELSE r.source = r.page /\ Textful(r)
OwnLayout(r) == r.layout \in {NoPage, r.page}
DefersAlone(r, cl) == \A m \in Modalities: r.waiting[m] # <<>> => cl.kind = "single"

Complete(r, p, cl) ==
  /\ r.page = p /\ OwnLayout(r) /\ Sourced(r, cl) /\ DefersAlone(r, cl)
  /\ \A m \in Modalities: Settled(r, cl, m)

----------------------------------------------------------------------------
(* The worker in a call *)

InBatch(w, cl) == cl.kind = "batch" /\ Len(w.chunk) > 1
Early == {"upload", "settle", "detect", "classify", "recognise"}

StageFits(w, cl) ==
  /\ w.at = "settle" => InBatch(w, cl)
  /\ w.at \in {"detect", "classify", "recognise"} => cl.kind \in {"single", "device", "batch"}
  /\ w.at \in {"layout", "collect", "reply"} => cl.kind # "infer"
  /\ w.at \in {"table", "formula"} => cl.kind \notin {"infer", "layout"}
  /\ w.at = "infer" => cl.kind = "infer"

(* The pages of the call are those done, those in hand and those left. *)
Placed(w, pages) ==
  /\ Len(w.chunk) <= MaxBatchImages
  /\ w.i \in 1 .. Len(w.chunk)
  /\ Len(w.results) = Len(w.chunk)
  /\ Len(w.done) + Len(w.chunk) + Len(w.left) = Len(pages)
  /\ \A k \in 1 .. Len(w.chunk): w.chunk[k] = pages[Len(w.done) + k]
  /\ \A k \in 1 .. Len(w.chunk): w.results[k].page = w.chunk[k]
  /\ \A k \in 1 .. Len(w.left): w.left[k] = pages[Len(w.done) + Len(w.chunk) + k]

DoneOK(w, cl) == \A k \in 1 .. Len(w.done): Complete(w.done[k], cl.pages[k], cl)

Recognised(w, cl) ==
  \/ w.at \in {"collect", "table", "formula", "reply"}
  \/ InBatch(w, cl) /\ w.at = "layout"
OpenAt(at, m) == at = m \/ (at = "table" /\ m = "formula")
Ahead(w, k, m) ==
  \/ w.at \in Early
  \/ w.at # "reply" /\ k > w.i
  \/ k = w.i /\ w.at \in {"layout", "collect", "table"}
  \/ k = w.i /\ w.at = "formula" /\ m = "formula"
Uncollected(w, k) ==
  \/ w.at \in Early
  \/ w.at # "reply" /\ k > w.i
  \/ k = w.i /\ w.at \in {"layout", "collect"}

ResultOK(w, cl, k, r) ==
  /\ OwnLayout(r) /\ DefersAlone(r, cl)
  /\ (OnlyStructure(cl) \/ Recognised(w, cl)) => Sourced(r, cl)
  /\ \A m \in Modalities:
       /\ Settled(r, cl, m) \/ (k = w.i /\ OpenAt(w.at, m))
       /\ Ahead(w, k, m) => Raw(r, m)
  /\ Uncollected(w, k) => r.layout = NoPage

ResultsOK(w, cl) == \A k \in 1 .. Len(w.results): ResultOK(w, cl, k, w.results[k])

WorkerOK ==
  worker.at # "idle" =>
    /\ worker.call > 0
    /\ StageFits(worker, Call)
    /\ Placed(worker, Call.pages)
    /\ DoneOK(worker, Call)
    /\ ResultsOK(worker, Call)

----------------------------------------------------------------------------
(* The page's pixels on their way to its buffer *)

Arrives(b, p) ==
  IF copies = <<>> THEN bufs[b].page = p
  ELSE /\ copies[Len(copies)] = [to |-> b, rows |-> Rows[p]]
       /\ pinned.page = p

Uploading == worker.at \in {"upload", "settle"}

PixelsOK ==
  (worker.at # "idle" /\ ~exited) =>
    /\ (~Batched /\ worker.at # "upload") => Arrives(ImgBuf, Page)
    /\ Batched => \A k \in 1 .. Len(worker.chunk):
         (k < worker.i \/ ~Uploading) => bufs[<<"batch", k>>].page = worker.chunk[k]
    /\ (/\ ~OnlyStructure(Call) /\ Call.kind # "infer"
        /\ ~Uploading /\ (Batched \/ worker.at # "detect"))
         => copies = <<>>
    /\ worker.at = "settle" => Arrives(Buf, Page)
    /\ (worker.at = "settle" /\ worker.i > 1) =>
         \A j \in 1 .. Len(copies): copies[j].to = Buf
    /\ (worker.at = "upload" /\ worker.i > 1) => copies = <<>>
    /\ worker.at \in {"upload", "settle", "detect"} => ~worker.enqueued
    /\ (/\ worker.enqueued
        /\ worker.at = "collect" \/ (~Batched /\ worker.at \in {"classify", "recognise"}))
         => layout.input = Buf

----------------------------------------------------------------------------
(* Replies *)

ReplyOK(c) ==
  LET cl == program[c]  r == reply[c]
  IN  /\ r.results = <<>> \/ Len(r.results) = Len(cl.pages)
      /\ \A k \in 1 .. Len(r.results): Complete(r.results[k], cl.pages[k], cl)
      /\ r.st = "finalizing" => r.results # <<>>
      /\ r.st = "done" =>
           \A k \in 1 .. Len(r.results): \A m \in Modalities: r.results[k].waiting[m] = <<>>
      /\ (c > worker.call \/ (c = worker.call /\ worker.at # "idle")) =>
           r.st = "none" /\ r.results = <<>>

RepliesOK == \A c \in 1 .. Len(program): ReplyOK(c)

HostOK == HostType /\ WorkerOK /\ RepliesOK
DeviceOK == DeviceType /\ MemoryOK
IInv == HostOK /\ DeviceOK /\ PixelsOK

----------------------------------------------------------------------------
(* Names of buffers, calls and pages *)

(* Two buffers of one instance are the same only under the same name. *)
LEMMA BufferNames ==
  /\ \A x \in {0, 1}: <<"img", x>> \in BufIds
  /\ \A k \in 1 .. MaxBatchImages: <<"batch", k>> \in BufIds
  /\ \A k, j \in 1 .. MaxBatchImages: <<"batch", k>> = <<"batch", j>> => k = j
  /\ \A x \in {0, 1}: \A k \in 1 .. MaxBatchImages: <<"img", x>> # <<"batch", k>>
BY DEF BufIds

(* What every call of a program is made of. *)
LEMMA CallShape ==
  ASSUME HostType, NEW c \in 1 .. Len(program)
  PROVE  /\ program[c] \in Calls
         /\ program[c].pages \in Seq(Pages) /\ Len(program[c].pages) > 0
         /\ program[c].kind # "batch" => Len(program[c].pages) = 1
         /\ program[c].kind \in {"single", "device", "batch", "layout", "structure", "infer"}
         /\ program[c].want \subseteq Modalities
         /\ program[c].layout \in BOOLEAN /\ program[c].order \in BOOLEAN
<1>1. program[c] \in Calls
  BY DEF HostType
<1>2. program[c].pages \in Seq(Pages) /\ program[c].pages # <<>>
  BY <1>1 DEF Calls
<1>3. Len(program[c].pages) > 0
  BY <1>2
<1> QED
  BY <1>1, <1>2, <1>3 DEF Calls

LEMMA OnePart ==
  ASSUME NEW a \in Nat, NEW b \in Nat, NEW c \in Nat, a + b + c = 1, b >= 1
  PROVE  b = 1
OBVIOUS

(* In a call the worker has a page in hand. *)
LEMMA PageInHand ==
  ASSUME HostOK, worker.at # "idle"
  PROVE  /\ worker.call \in 1 .. Len(program) /\ worker.call \in Nat
         /\ worker.i \in 1 .. Len(worker.chunk) /\ Page \in Pages /\ Rows[Page] \in Nat \ {0}
         /\ Len(worker.chunk) \in Nat /\ Len(worker.chunk) <= MaxBatchImages
         /\ \A k \in 1 .. Len(worker.chunk): worker.chunk[k] \in Pages
         /\ Call.kind # "batch" => Len(worker.chunk) = 1
         /\ ~Batched => Len(worker.chunk) = 1 /\ worker.i = 1
         /\ Call.kind \in {"single", "device", "batch", "layout", "structure", "infer"}
         /\ Call.layout \in BOOLEAN
<1>1. worker \in Workers /\ worker.chunk \in Seq(Pages) /\ worker.done \in Seq(Results)
      /\ worker.left \in Seq(Pages) /\ worker.call \in Nat
  BY DEF HostOK, HostType, Workers
<1>2. worker.call \in 1 .. Len(program)
  BY <1>1 DEF HostOK, HostType, WorkerOK
<1>3. /\ Call.pages \in Seq(Pages) /\ Len(Call.pages) > 0
      /\ Call.kind # "batch" => Len(Call.pages) = 1
      /\ Call.kind \in {"single", "device", "batch", "layout", "structure", "infer"}
      /\ Call.layout \in BOOLEAN
  BY <1>2, CallShape DEF HostOK, Call
<1>4. Placed(worker, Call.pages)
  BY DEF HostOK, WorkerOK
<1>5. worker.i \in 1 .. Len(worker.chunk) /\ Len(worker.chunk) <= MaxBatchImages
      /\ Len(worker.done) + Len(worker.chunk) + Len(worker.left) = Len(Call.pages)
  BY <1>4 DEF Placed
<1>6. Len(worker.chunk) \in Nat /\ Len(worker.done) \in Nat /\ Len(worker.left) \in Nat
  BY <1>1
<1>7. \A k \in 1 .. Len(worker.chunk): worker.chunk[k] \in Pages
  BY <1>1
<1>8. Page \in Pages /\ Rows[Page] \in Nat \ {0}
  BY <1>5, <1>7, PagesAssumption DEF Page
<1>11. Len(worker.chunk) >= 1
  BY <1>5, <1>6
<1>9. Call.kind # "batch" => Len(worker.chunk) = 1
  <2>1. ASSUME Len(Call.pages) = 1
        PROVE  Len(worker.chunk) = 1
    <3>1. Len(worker.done) + Len(worker.chunk) + Len(worker.left) = 1
      BY <1>5, <2>1
    <3> QED
      BY ONLY <1>6, <1>11, <3>1, OnePart
  <2> QED
    BY <1>3, <2>1
<1>10. ~Batched => Len(worker.chunk) = 1 /\ worker.i = 1
  <2>1. ~Batched => Len(worker.chunk) = 1
    <3>1. Call.kind = "batch" /\ ~Batched => ~(Len(worker.chunk) > 1)
      BY DEF Batched
    <3> QED
      <4>1. \A n \in Nat: n >= 1 /\ ~(n > 1) => n = 1
        OBVIOUS
      <4> QED
        BY ONLY <1>6, <1>9, <1>11, <3>1, <4>1
  <2>2. Len(worker.chunk) = 1 => worker.i = 1
    BY <1>5
  <2> QED
    BY <2>1, <2>2
<1> QED
  BY <1>1, <1>2, <1>3, <1>5, <1>6, <1>7, <1>8, <1>9, <1>10

----------------------------------------------------------------------------
(* Memory *)

Fits(b, n) == b.live /\ b.cap >= n
PageFits(b) == b.page # NoPage => Fits(b, Rows[b.page])
CopyFits(c) == Fits(bufs[c.to], c.rows) /\ Fits(pinned, c.rows)

(* The memory's part of the invariant, buffer by buffer and copy by copy. *)
LEMMA MemoryParts ==
  ASSUME DeviceType
  PROVE  MemoryOK <=> /\ \A k \in 1 .. Len(copies): CopyFits(copies[k])
                      /\ \A b \in BufIds: PageFits(bufs[b]) /\ Held(bufs[b])
                      /\ Held(pinned)
<1>1. DOMAIN bufs = BufIds /\ DOMAIN copies = 1 .. Len(copies)
  BY DEF DeviceType
<1> QED
  BY <1>1 DEF MemoryOK, UploadsFit, Fits, PageFits, CopyFits

(* The same after a step. *)
LEMMA MemoryPartsAfter ==
  ASSUME DeviceType',
         \A k \in 1 .. Len(copies'):
           Fits(bufs'[copies'[k].to], copies'[k].rows) /\ Fits(pinned', copies'[k].rows),
         \A b \in BufIds: PageFits(bufs'[b]) /\ Held(bufs'[b]),
         Held(pinned')
  PROVE  DeviceOK'
<1>1. DOMAIN bufs' = BufIds /\ DOMAIN copies' = 1 .. Len(copies')
  BY DEF DeviceType
<1> QED
  BY <1>1 DEF DeviceOK, MemoryOK, UploadsFit, Fits, PageFits

(* What growing a buffer leaves: room for the page, and the old page only in
   memory that stayed as it was. *)
LEMMA GrownFits ==
  ASSUME NEW b \in Buffers, Held(b), NEW n \in Nat \ {0}
  PROVE  /\ Grown(b, n) \in Buffers /\ Held(Grown(b, n)) /\ Fits(Grown(b, n), n)
         /\ b.cap >= n => Grown(b, n) = b
         /\ PageFits(b) => PageFits(Grown(b, n))
<1>1. CASE b.cap >= n
  BY <1>1 DEF Grown, Buffers, Held, Fits
<1>2. CASE ~(b.cap >= n)
  <2>1. Grown(b, n) = [cap |-> n, live |-> TRUE, page |-> NoPage]
    BY <1>2 DEF Grown
  <2> QED
    BY <1>2, <2>1 DEF Buffers, Held, Fits, PageFits, PageOrNone
<1> QED
  BY <1>1, <1>2

LEMMA FreedHolds ==
  ASSUME NEW b \in Buffers
  PROVE  Freed(b) \in Buffers /\ Held(Freed(b)) /\ PageFits(Freed(b))
BY DEF Freed, Buffers, Held, PageFits, PageOrNone

(* Memory with copies still to run into it is grown only if there are none. *)
LEMMA GrowthWaits ==
  ASSUME HostOK, DeviceOK, worker.at # "idle", NEW b \in Buffers, MayFree(b),
         Held(b), NEW n \in Nat, Fits(b, n), copies # <<>>
  PROVE  Grown(b, Rows[Page]) = b
<1>1. b.cap >= Rows[Page]
  BY DEF MayFree, Fits
<1> QED
  BY <1>1 DEF Grown

(* Staging a page keeps every copy and every page in memory that holds it. *)
LEMMA StagedKeepsMemory ==
  ASSUME HostOK, DeviceOK, worker.at # "idle", Staged, layout' = layout,
         \/ copies' = copies
         \/ copies' = Append(copies, [to |-> TargetImg, rows |-> Rows[Page]])
  PROVE  DeviceOK'
<1> DEFINE n == Rows[Page]
           t == TargetImg
<1>1. /\ DeviceType /\ MemoryOK /\ n \in Nat \ {0} /\ Page \in Pages
      /\ bufs \in [BufIds -> Buffers] /\ pinned \in Buffers /\ copies \in Seq(Copies)
  BY PageInHand DEF DeviceOK, DeviceType
<1>2. t \in BufIds /\ cur' \in {0, 1}
  <2>1. cur \in {0, 1} /\ 1 - cur \in {0, 1}
    BY <1>1 DEF DeviceType
  <2>2. worker.i \in 1 .. MaxBatchImages
    BY PageInHand, BatchAssumption
  <2> QED
    BY <2>1, <2>2, BufferNames DEF TargetImg, Staged, Toggled
<1>3. /\ \A k \in 1 .. Len(copies): CopyFits(copies[k])
      /\ \A b \in BufIds: PageFits(bufs[b]) /\ Held(bufs[b])
      /\ Held(pinned)
  BY <1>1, MemoryParts
<1>4. /\ MayFree(bufs[t]) /\ MayFree(pinned)
      /\ bufs' = [bufs EXCEPT ![t] = Grown(bufs[t], n)]
      /\ pinned' = [Grown(pinned, n) EXCEPT !.page = Page]
  BY DEF Staged
<1>5. /\ Grown(bufs[t], n) \in Buffers /\ Held(Grown(bufs[t], n)) /\ Fits(Grown(bufs[t], n), n)
      /\ PageFits(Grown(bufs[t], n))
  BY <1>1, <1>2, <1>3, GrownFits
<1>6. Grown(pinned, n) \in Buffers /\ Held(Grown(pinned, n)) /\ Fits(Grown(pinned, n), n)
  BY <1>1, <1>3, GrownFits
<1> HIDE DEF n, t
<1>7. /\ pinned' \in Buffers /\ Held(pinned') /\ Fits(pinned', n)
      /\ pinned'.cap = Grown(pinned, n).cap /\ pinned'.live = Grown(pinned, n).live
  BY <1>1, <1>4, <1>6 DEF Buffers, Held, Fits, PageOrNone
<1>8. /\ bufs' \in [BufIds -> Buffers] /\ bufs'[t] = Grown(bufs[t], n)
      /\ \A b \in BufIds: b # t => bufs'[b] = bufs[b]
  BY <1>1, <1>2, <1>4, <1>5
<1>9. \A k \in 1 .. Len(copies): copies[k] \in Copies /\ copies[k].to \in BufIds /\ copies[k].rows \in Nat
  <2>1. \A k \in 1 .. Len(copies): copies[k] \in Copies
    BY <1>1
  <2> QED
    BY <2>1 DEF Copies
<1>10. ASSUME NEW k \in 1 .. Len(copies)
       PROVE  Fits(bufs'[copies[k].to], copies[k].rows) /\ Fits(pinned', copies[k].rows)
  <2>1. Fits(bufs[copies[k].to], copies[k].rows) /\ Fits(pinned, copies[k].rows) /\ copies # <<>>
    BY <1>3, <1>1 DEF CopyFits
  <2>2. Grown(pinned, n) = pinned
    BY <1>1, <1>3, <1>4, <1>9, <2>1, GrowthWaits DEF n
  <2>3. Fits(pinned', copies[k].rows)
    BY <1>7, <2>1, <2>2 DEF Fits
  <2>4. CASE copies[k].to = t
    <3>1. Grown(bufs[t], n) = bufs[t]
      BY <1>1, <1>2, <1>3, <1>4, <1>9, <2>1, <2>4, GrowthWaits DEF n
    <3> QED
      BY <1>8, <2>1, <2>3, <2>4, <3>1
  <2>5. CASE copies[k].to # t
    BY <1>8, <1>9, <2>1, <2>3, <2>5
  <2> QED
    BY <2>4, <2>5
<1>11. \A b \in BufIds: PageFits(bufs'[b]) /\ Held(bufs'[b])
  BY <1>3, <1>5, <1>8
<1>12. CASE copies' = copies
  <2>1. DeviceType'
    BY <1>1, <1>2, <1>7, <1>8, <1>12 DEF DeviceType
  <2> QED
    BY <1>7, <1>10, <1>11, <1>12, <2>1, MemoryPartsAfter
<1>13. CASE copies' = Append(copies, [to |-> t, rows |-> n])
  <2>1. /\ copies' \in Seq(Copies) /\ Len(copies') = Len(copies) + 1
        /\ \A k \in 1 .. Len(copies): copies'[k] = copies[k]
        /\ copies'[Len(copies) + 1] = [to |-> t, rows |-> n]
    BY <1>1, <1>2, <1>13 DEF Copies
  <2>2. DeviceType'
    BY <1>1, <1>2, <1>7, <1>8, <2>1 DEF DeviceType
  <2>3. ASSUME NEW k \in 1 .. Len(copies')
        PROVE  Fits(bufs'[copies'[k].to], copies'[k].rows) /\ Fits(pinned', copies'[k].rows)
    <3>1. CASE k \in 1 .. Len(copies)
      BY <1>10, <2>1, <3>1
    <3>2. CASE k = Len(copies) + 1
      BY <1>5, <1>7, <1>8, <2>1, <3>2
    <3>3. Len(copies) \in Nat
      BY <1>1
    <3> QED
      BY <2>1, <3>1, <3>2, <3>3
  <2> QED
    BY <1>7, <1>11, <2>2, <2>3, MemoryPartsAfter
<1> QED
  BY <1>12, <1>13 DEF n, t

(* A buffer freed or grown while no copy is under way. *)
LEMMA QuietBuffer ==
  ASSUME DeviceOK, copies = <<>>, copies' = copies, layout' = layout, cur' \in {0, 1},
         NEW t \in BufIds, NEW b \in Buffers, Held(b), PageFits(b),
         bufs' = [bufs EXCEPT ![t] = b], pinned' \in Buffers, Held(pinned')
  PROVE  DeviceOK'
<1>1. DeviceType /\ MemoryOK /\ bufs \in [BufIds -> Buffers]
  BY DEF DeviceOK, DeviceType
<1>2. \A x \in BufIds: PageFits(bufs[x]) /\ Held(bufs[x])
  BY <1>1, MemoryParts
<1>3. bufs' \in [BufIds -> Buffers] /\ \A x \in BufIds: PageFits(bufs'[x]) /\ Held(bufs'[x])
  BY <1>1, <1>2
<1>4. DeviceType'
  BY <1>1, <1>3 DEF DeviceType
<1>5. Len(copies') = 0
  OBVIOUS
<1> QED
  BY <1>3, <1>4, <1>5, MemoryPartsAfter

LEMMA OutOfMemoryKeepsMemory ==
  ASSUME HostOK, DeviceOK, UploadOutOfMemory
  PROVE  DeviceOK'
<1> DEFINE n == Rows[Page]
           t == IF Call.kind = "device" THEN ImgBuf ELSE TargetImg
<1>1. worker.at # "idle" /\ copies = <<>> /\ UNCHANGED <<program, copies, layout>>
      /\ cur' = (IF Uploads THEN Toggled ELSE cur)
  BY DEF UploadOutOfMemory
<1>2. /\ DeviceType /\ MemoryOK /\ n \in Nat \ {0} /\ bufs \in [BufIds -> Buffers]
      /\ pinned \in Buffers /\ worker.i \in 1 .. MaxBatchImages /\ cur \in {0, 1}
  BY <1>1, PageInHand, BatchAssumption DEF DeviceOK, DeviceType
<1>3. t \in BufIds /\ cur' \in {0, 1}
  BY <1>1, <1>2, BufferNames DEF TargetImg, Toggled, ImgBuf
<1>4. Held(bufs[t]) /\ PageFits(bufs[t]) /\ Held(pinned)
  BY <1>2, <1>3, MemoryParts
<1>5. \/ bufs' = [bufs EXCEPT ![t] = Freed(bufs[t])] /\ pinned' = pinned
      \/ bufs' = [bufs EXCEPT ![t] = Grown(bufs[t], n)] /\ pinned' = Freed(pinned)
  BY DEF UploadOutOfMemory
<1>6. bufs[t] \in Buffers
  BY <1>2, <1>3
<1> HIDE DEF n, t
<1>7. CASE bufs' = [bufs EXCEPT ![t] = Freed(bufs[t])] /\ pinned' = pinned
  BY <1>1, <1>2, <1>3, <1>4, <1>6, <1>7, FreedHolds, QuietBuffer
<1>8. CASE bufs' = [bufs EXCEPT ![t] = Grown(bufs[t], n)] /\ pinned' = Freed(pinned)
  <2>1. Grown(bufs[t], n) \in Buffers /\ Held(Grown(bufs[t], n)) /\ PageFits(Grown(bufs[t], n))
    BY <1>2, <1>4, <1>6, GrownFits
  <2> QED
    BY <1>1, <1>2, <1>3, <1>8, <2>1, FreedHolds, QuietBuffer
<1> QED
  BY <1>5, <1>7, <1>8

LEMMA DecodeKeepsMemory ==
  ASSUME HostOK, DeviceOK, DecodeOnDevice
  PROVE  DeviceOK'
<1> DEFINE n == Rows[Page]
           g == Grown(bufs[ImgBuf], n)
           b == [g EXCEPT !.page = Page]
<1>1. /\ worker.at # "idle" /\ copies = <<>> /\ UNCHANGED <<cur, pinned, copies, layout>>
      /\ bufs' = [bufs EXCEPT ![ImgBuf] = b]
  BY DEF DecodeOnDevice, At
<1>2. /\ DeviceType /\ MemoryOK /\ n \in Nat \ {0} /\ Page \in Pages
      /\ bufs \in [BufIds -> Buffers] /\ pinned \in Buffers /\ cur \in {0, 1}
  BY <1>1, PageInHand DEF DeviceOK, DeviceType
<1>3. ImgBuf \in BufIds
  BY <1>2, BufferNames DEF ImgBuf
<1>4. Held(bufs[ImgBuf]) /\ Held(pinned) /\ bufs[ImgBuf] \in Buffers
  BY <1>2, <1>3, MemoryParts
<1>5. g \in Buffers /\ Held(g) /\ Fits(g, n)
  BY <1>2, <1>4, GrownFits
<1> HIDE DEF g
<1>6. b \in Buffers /\ b.page = Page /\ b.cap = g.cap /\ b.live = g.live
  BY <1>2, <1>5 DEF Buffers, PageOrNone
<1> HIDE DEF b
<1>7. Held(b) /\ PageFits(b)
  BY <1>5, <1>6 DEF Held, PageFits, Fits
<1> QED
  BY <1>1, <1>2, <1>3, <1>4, <1>6, <1>7, QuietBuffer

(* What a copy leaves is as large as what it was issued for. *)
LEMMA CopyKeepsMemory ==
  ASSUME DeviceOK, CopyRuns
  PROVE  DeviceOK'
<1> DEFINE c == Head(copies)
           page == IF pinned.page # NoPage /\ Rows[pinned.page] = c.rows
                   THEN pinned.page ELSE NoPage
           b == [bufs[c.to] EXCEPT !.page = page]
<1>1. /\ copies # <<>> /\ UNCHANGED <<cur, pinned, layout>> /\ copies' = Tail(copies)
      /\ bufs' = [bufs EXCEPT ![c.to] = b]
  BY DEF CopyRuns
<1>2. /\ DeviceType /\ MemoryOK /\ bufs \in [BufIds -> Buffers]
      /\ pinned \in Buffers /\ copies \in Seq(Copies)
  BY DEF DeviceOK, DeviceType
<1>3. /\ Len(copies) \in Nat /\ Len(copies) >= 1 /\ copies' \in Seq(Copies)
      /\ Len(copies') = Len(copies) - 1 /\ c = copies[1] /\ c \in Copies
      /\ \A k \in 1 .. Len(copies'): copies'[k] = copies[k + 1]
  BY <1>1, <1>2
<1>4. c.to \in BufIds /\ c.rows \in Nat /\ pinned.page \in PageOrNone /\ bufs[c.to] \in Buffers
  BY <1>2, <1>3 DEF Copies, Buffers
<1>5. /\ \A k \in 1 .. Len(copies): CopyFits(copies[k])
      /\ \A x \in BufIds: PageFits(bufs[x]) /\ Held(bufs[x])
      /\ Held(pinned)
  BY <1>2, MemoryParts
<1>6. Fits(bufs[c.to], c.rows)
  BY <1>3, <1>5 DEF CopyFits
<1>7. page \in PageOrNone /\ (page # NoPage => Rows[page] = c.rows)
  BY <1>4 DEF PageOrNone
<1> HIDE DEF c, page
<1>8. b \in Buffers /\ b.page = page /\ b.cap = bufs[c.to].cap /\ b.live = bufs[c.to].live
  BY <1>4, <1>7 DEF Buffers
<1> HIDE DEF b
<1>9. Held(b) /\ PageFits(b)
  BY <1>4, <1>5, <1>6, <1>7, <1>8 DEF Held, PageFits, Fits
<1>10. /\ bufs' \in [BufIds -> Buffers]
       /\ \A x \in BufIds: bufs'[x] = IF x = c.to THEN b ELSE bufs[x]
  BY <1>1, <1>2, <1>4, <1>8
<1>11. \A x \in BufIds: PageFits(bufs'[x]) /\ Held(bufs'[x])
  BY <1>5, <1>9, <1>10
<1>12. ASSUME NEW k \in 1 .. Len(copies')
       PROVE  Fits(bufs'[copies'[k].to], copies'[k].rows) /\ Fits(pinned', copies'[k].rows)
  <2>1. k + 1 \in 1 .. Len(copies) /\ copies'[k] = copies[k + 1]
    BY <1>3
  <2>2. copies[k + 1] \in Copies
    BY <1>2, <2>1
  <2>3. copies[k + 1].to \in BufIds
    BY <2>2 DEF Copies
  <2>4. Fits(bufs[copies[k + 1].to], copies[k + 1].rows) /\ Fits(pinned, copies[k + 1].rows)
    BY <1>5, <2>1 DEF CopyFits
  <2>5. Fits(bufs'[copies[k + 1].to], copies[k + 1].rows)
    BY <1>8, <1>10, <2>3, <2>4 DEF Fits
  <2> QED
    BY <1>1, <2>1, <2>4, <2>5
<1>13. DeviceType'
  BY <1>1, <1>2, <1>3, <1>10 DEF DeviceType
<1> QED
  BY <1>1, <1>5, <1>11, <1>12, <1>13, MemoryPartsAfter

(* The memory of a new instance. *)
LEMMA NewBuffers ==
  /\ \A b \in BufIds: NewBufs[b] \in Buffers /\ PageFits(NewBufs[b]) /\ Held(NewBufs[b])
  /\ NewBufs \in [BufIds -> Buffers] /\ NewPinned \in Buffers /\ Held(NewPinned)
  /\ NewLayout \in [armed: BOOLEAN, input: BufIds]
<1>1. \A b \in BufIds:
        NewBufs[b] \in Buffers /\ PageFits(NewBufs[b]) /\ Held(NewBufs[b])
  <2>1. DefaultRows \in Nat
    BY PagesAssumption
  <2> TAKE b \in BufIds
  <2> DEFINE q == [cap |-> IF b[1] = "img" THEN DefaultRows ELSE 0, live |-> b[1] = "img",
                   page |-> NoPage]
  <2>2. NewBufs[b] = q
    BY DEF NewBufs
  <2>3. CASE b[1] = "img"
    <3>1. q = [cap |-> DefaultRows, live |-> TRUE, page |-> NoPage]
      BY <2>3
    <3> QED
      BY <2>1, <2>2, <3>1 DEF Buffers, PageFits, Held, PageOrNone
  <2>4. CASE b[1] # "img"
    <3>1. q = [cap |-> 0, live |-> FALSE, page |-> NoPage]
      BY <2>4
    <3> QED
      BY <2>2, <3>1 DEF Buffers, PageFits, Held, PageOrNone
  <2> QED
    BY <2>3, <2>4
<1>2. NewBufs \in [BufIds -> Buffers]
  BY <1>1 DEF NewBufs
<1>3. NewPinned \in Buffers /\ Held(NewPinned)
  BY DEF NewPinned, Buffers, Held, PageOrNone
<1>4. NewLayout \in [armed: BOOLEAN, input: BufIds]
  BY BufferNames DEF NewLayout
<1> QED
  BY <1>1, <1>2, <1>3, <1>4

LEMMA NewMemory ==
  ASSUME bufs' = NewBufs, cur' = 0, pinned' = NewPinned, copies' = <<>>, layout' = NewLayout
  PROVE  DeviceOK'
<1>1. DeviceType'
  BY NewBuffers DEF DeviceType
<1>2. Len(copies') = 0
  OBVIOUS
<1> QED
  BY <1>1, <1>2, NewBuffers, MemoryPartsAfter

LEMMA LayoutKeepsMemory ==
  ASSUME DeviceOK, UNCHANGED <<bufs, cur, pinned, copies>>,
         layout' \in [armed: BOOLEAN, input: BufIds]
  PROVE  DeviceOK'
BY DEF DeviceOK, DeviceType, MemoryOK, UploadsFit

(* Every step keeps the memory's part of the invariant. *)
LEMMA DeviceStep ==
  ASSUME HostOK, DeviceOK, [Next]_vars
  PROVE  DeviceOK'
<1>1. /\ cur \in {0, 1} /\ bufs \in [BufIds -> Buffers]
      /\ layout \in [armed: BOOLEAN, input: BufIds]
  BY DEF DeviceOK, DeviceType
<1>2. ASSUME UNCHANGED device
      PROVE  DeviceOK'
  BY <1>2, <1>1, LayoutKeepsMemory DEF device
<1>3. CASE Upload
  BY <1>3, StagedKeepsMemory DEF Upload, At
<1>4. CASE CopyRefused
  BY <1>4, StagedKeepsMemory DEF CopyRefused
<1>5. CASE UploadOutOfMemory
  BY <1>5, OutOfMemoryKeepsMemory
<1>6. CASE DecodeOnDevice
  BY <1>6, DecodeKeepsMemory
<1>7. CASE CopyRuns
  BY <1>7, CopyKeepsMemory
<1>8. CASE Rebuild
  BY <1>8, NewMemory DEF Rebuild
<1>9. CASE EnqueueLayout
  <2>1. worker.at # "idle"
    BY <1>9 DEF EnqueueLayout, At
  <2>2. Buf \in BufIds
    <3>1. worker.i \in 1 .. MaxBatchImages
      BY <2>1, PageInHand, BatchAssumption
    <3> QED
      BY <1>1, <3>1, BufferNames DEF Buf, ImgBuf
  <2> QED
    BY <1>9, <2>2, LayoutKeepsMemory DEF EnqueueLayout
<1>10. CASE LayoutRefused
  <2>1. layout' \in [armed: BOOLEAN, input: BufIds]
    BY <1>1, <1>10 DEF LayoutRefused
  <2> QED
    BY <1>10, <2>1, LayoutKeepsMemory DEF LayoutRefused
<1>11. CASE \/ StartCall \/ SettleUpload \/ Detect \/ Classify \/ Recognise \/ Collect
            \/ Infer \/ Reply \/ MeetsOldError \/ ApiFails \/ LaunchFails \/ EngineFails
            \/ BackendUnavailable \/ (UNCHANGED vars)
  BY <1>2, <1>11 DEF StartCall, SettleUpload, Detect, Classify, Recognise, Collect, Infer, Reply,
       MeetsOldError, ApiFails, LaunchFails, EngineFails, BackendUnavailable, vars, device
<1>12. CASE \E m \in Modalities: RunStage(m) \/ SubmitStage(m) \/ SubmitFails(m)
  BY <1>2, <1>12 DEF RunStage, SubmitStage, SubmitFails
<1>13. CASE \E c \in DOMAIN program: Resolve(c) \/ DeadlinePasses(c) \/ Join(c) \/ Finish(c)
  BY <1>2, <1>13 DEF Resolve, DeadlinePasses, Join, Finish, SetReply
<1> QED
  BY <1>3, <1>4, <1>5, <1>6, <1>7, <1>8, <1>9, <1>10, <1>11, <1>12, <1>13
     DEF Next, Stage, Fault, Finalize

----------------------------------------------------------------------------
(* What each stage does to a result *)

(* q says of the modality m what r says of it, or has flagged more. *)
SaysAs(q, r, m) ==
  /\ q.items[m] = r.items[m] /\ q.waiting[m] = r.waiting[m]
  /\ r.degraded \subseteq q.degraded

LEMMA SettledKept ==
  ASSUME NEW q, NEW r, NEW cl, NEW m, SaysAs(q, r, m), q.layout = r.layout, Settled(r, cl, m)
  PROVE  Settled(q, cl, m)
BY DEF SaysAs, Settled, AskedFor

LEMMA ModalityNames == "table" \in Modalities /\ "formula" \in Modalities /\ "table" # "formula"
BY DEF Modalities

(* A page without a layout asks for nothing. *)
LEMMA RawIsSettled ==
  ASSUME NEW r, NEW cl, NEW m \in Modalities, Raw(r, m), r.layout = NoPage \/ cl.kind = "layout"
  PROVE  Settled(r, cl, m)
<1>1. Len(r.items[m]) + Len(r.waiting[m]) = 0 /\ 1 .. Len(r.items[m]) = {}
  BY DEF Raw
<1> QED
  BY <1>1 DEF Settled, AskedFor

LEMMA NewResultIs ==
  ASSUME NEW p \in Pages
  PROVE  /\ NewResult(p) \in Results /\ NewResult(p).page = p /\ NewResult(p).source = NoPage
         /\ NewResult(p).boxes = 0 /\ NewResult(p).layout = NoPage
         /\ \A m \in Modalities: Raw(NewResult(p), m)
<1>1. [m \in Modalities |-> <<>>] \in [Modalities -> Seq(Outcome)]
      /\ [m \in Modalities |-> <<>>] \in [Modalities -> Seq(Outcomes)]
  OBVIOUS
<1> QED
  BY <1>1 DEF NewResult, Results, PageOrNone, Raw

LEMMA BoxesSet ==
  ASSUME NEW r \in Results, NEW n \in Nat
  PROVE  LET q == [r EXCEPT !.boxes = n]
         IN  /\ q \in Results /\ q.boxes = n
             /\ q.page = r.page /\ q.source = r.source /\ q.layout = r.layout
             /\ \A m \in Modalities: SaysAs(q, r, m)
BY DEF Results, SaysAs

LEMMA OrderSet ==
  ASSUME NEW r \in Results, NEW n \in BOOLEAN
  PROVE  LET q == [r EXCEPT !.ordered = n]
         IN  /\ q \in Results /\ q.boxes = r.boxes /\ q.text = r.text /\ q.degraded = r.degraded
             /\ q.page = r.page /\ q.source = r.source /\ q.layout = r.layout
             /\ \A m \in Modalities: SaysAs(q, r, m)
BY DEF Results, SaysAs

LEMMA LayoutSet ==
  ASSUME NEW r \in Results, NEW n \in PageOrNone
  PROVE  LET q == [r EXCEPT !.layout = n]
         IN  /\ q \in Results /\ q.boxes = r.boxes /\ q.text = r.text /\ q.degraded = r.degraded
             /\ q.page = r.page /\ q.source = r.source /\ q.layout = n
             /\ \A m \in Modalities: SaysAs(q, r, m)
BY DEF Results, SaysAs

LEMMA TextSet ==
  ASSUME NEW r \in Results, NEW p \in PageOrNone, NEW u \in BOOLEAN,
         NEW d \in SUBSET (Modalities \union {"text"})
  PROVE  LET q == [r EXCEPT !.source = p, !.text = u, !.degraded = d]
         IN  /\ q \in Results /\ q.boxes = r.boxes /\ q.text = u /\ q.degraded = d
             /\ q.page = r.page /\ q.source = p /\ q.layout = r.layout
             /\ \A m \in Modalities: q.items[m] = r.items[m] /\ q.waiting[m] = r.waiting[m]
BY DEF Results

(* What the answers of one modality leave of the rest. *)
RestAs(q, r, m) ==
  /\ q \in Results
  /\ q.page = r.page /\ q.source = r.source /\ q.layout = r.layout
  /\ q.boxes = r.boxes /\ q.text = r.text /\ r.degraded \subseteq q.degraded
  /\ \A o \in Modalities \ {m}: SaysAs(q, r, o)

LEMMA FlagIs ==
  ASSUME NEW r \in Results, NEW m \in Modalities, NEW n
  PROVE  LET q == Flag(r, m, n)
         IN  /\ RestAs(q, r, m) /\ SaysAs(q, r, m)
             /\ n > 0 => m \in q.degraded
             /\ ~(n > 0) => q = r
<1>1. CASE n > 0
  <2> DEFINE q == [r EXCEPT !.degraded = r.degraded \union {m}]
  <2>1. /\ q \in Results /\ q.degraded = r.degraded \union {m}
        /\ q.page = r.page /\ q.source = r.source /\ q.layout = r.layout
        /\ q.boxes = r.boxes /\ q.text = r.text
        /\ q.items = r.items /\ q.waiting = r.waiting
    BY DEF Results
  <2>2. Flag(r, m, n) = q
    BY <1>1 DEF Flag
  <2> HIDE DEF q
  <2> QED
    BY <1>1, <2>1, <2>2 DEF RestAs, SaysAs
<1>2. CASE ~(n > 0)
  BY <1>2 DEF Flag, RestAs, SaysAs
<1> QED
  BY <1>1, <1>2

LEMMA ItemsSet ==
  ASSUME NEW r \in Results, NEW m \in Modalities, NEW s \in Seq(Outcome)
  PROVE  LET q == [r EXCEPT !.items[m] = s]
         IN  RestAs(q, r, m) /\ q.items[m] = s /\ q.waiting[m] = r.waiting[m]
             /\ q.degraded = r.degraded
<1> DEFINE f == [r.items EXCEPT ![m] = s]
           q == [r EXCEPT !.items = f]
<1>1. f \in [Modalities -> Seq(Outcome)] /\ f[m] = s /\ \A o \in Modalities \ {m}: f[o] = r.items[o]
  BY DEF Results
<1> HIDE DEF f
<1>2. /\ q \in Results /\ q.items = f /\ q.degraded = r.degraded
      /\ q.page = r.page /\ q.source = r.source /\ q.layout = r.layout
      /\ q.boxes = r.boxes /\ q.text = r.text /\ q.waiting = r.waiting
  BY <1>1 DEF Results
<1>3. [r EXCEPT !.items[m] = s] = q
  BY DEF f
<1> HIDE DEF q
<1> QED
  BY <1>1, <1>2, <1>3 DEF RestAs, SaysAs

LEMMA WaitingSet ==
  ASSUME NEW r \in Results, NEW m \in Modalities, NEW s \in Seq(Outcomes)
  PROVE  LET q == [r EXCEPT !.waiting[m] = s]
         IN  RestAs(q, r, m) /\ q.waiting[m] = s /\ q.items[m] = r.items[m]
             /\ q.degraded = r.degraded
<1> DEFINE f == [r.waiting EXCEPT ![m] = s]
           q == [r EXCEPT !.waiting = f]
<1>1. f \in [Modalities -> Seq(Outcomes)] /\ f[m] = s /\ \A o \in Modalities \ {m}: f[o] = r.waiting[o]
  BY DEF Results
<1> HIDE DEF f
<1>2. /\ q \in Results /\ q.waiting = f /\ q.degraded = r.degraded
      /\ q.page = r.page /\ q.source = r.source /\ q.layout = r.layout
      /\ q.boxes = r.boxes /\ q.text = r.text /\ q.items = r.items
  BY <1>1 DEF Results
<1>3. [r EXCEPT !.waiting[m] = s] = q
  BY DEF f
<1> HIDE DEF q
<1> QED
  BY <1>1, <1>2, <1>3 DEF RestAs, SaysAs

LEMMA RestTrans ==
  ASSUME NEW p, NEW q, NEW r, NEW m \in Modalities, RestAs(p, q, m), RestAs(q, r, m)
  PROVE  RestAs(p, r, m)
BY DEF RestAs, SaysAs

(* No blank is counted exactly when there is none. *)
LEMMA NoBlanks ==
  ASSUME NEW s \in Seq(Outcome)
  PROVE  /\ Blanks(s) \in Nat
         /\ Blanks(s) = 0 <=> \A j \in 1 .. Len(s): s[j] # "blank"
<1> DEFINE B == {k \in DOMAIN s: s[k] = "blank"}
<1>1. IsFiniteSet(B)
  <2>1. IsFiniteSet(1 .. Len(s))
    BY FS_Interval
  <2>2. B \subseteq 1 .. Len(s)
    OBVIOUS
  <2> QED
    BY <2>1, <2>2, FS_Subset
<1>2. Cardinality(B) \in Nat /\ (Cardinality(B) = 0 <=> B = {})
  BY <1>1, FS_CardinalityType, FS_EmptySet
<1>3. B = {} <=> \A j \in 1 .. Len(s): s[j] # "blank"
  OBVIOUS
<1>4. Blanks(s) = Cardinality(B)
  BY DEF Blanks
<1> QED
  BY <1>2, <1>3, <1>4

LEMMA RunIs ==
  ASSUME NEW r \in Results, NEW m \in Modalities, NEW n \in Nat,
         NEW s \in SeqsUpTo(Outcome, n), NEW cl, AskedFor(cl, r, m) = n, r.waiting[m] = <<>>
  PROVE  LET q == Flag([r EXCEPT !.items[m] = s], m, Failures(s, n))
         IN  RestAs(q, r, m) /\ Settled(q, cl, m) /\ q.waiting[m] = <<>>
<1> DEFINE q == [r EXCEPT !.items[m] = s]
           f == Failures(s, n)
           t == Flag(q, m, f)
<1>1. s \in Seq(Outcome) /\ Len(s) \in Nat /\ Len(s) <= n
  <2>1. PICK k \in 0 .. n: s \in [1 .. k -> Outcome]
    BY DEF SeqsUpTo
  <2>2. s \in Seq(Outcome) /\ Len(s) = k
    BY <2>1
  <2> QED
    BY <2>2
<1>2. RestAs(q, r, m) /\ q.items[m] = s /\ q.waiting[m] = <<>> /\ q.degraded = r.degraded
  <2>1. s \in Seq(Outcome)
    BY <1>1
  <2>2. RestAs(q, r, m) /\ q.items[m] = s /\ q.waiting[m] = r.waiting[m]
        /\ q.degraded = r.degraded
    BY ONLY <2>1, r \in Results, m \in Modalities, ItemsSet
  <2> QED
    BY <2>2
<1>3. Blanks(s) \in Nat /\ (Blanks(s) = 0 <=> \A j \in 1 .. Len(s): s[j] # "blank")
  BY <1>1, NoBlanks
<1>4. f = Blanks(s) + (n - Len(s)) /\ (~(f > 0) => Blanks(s) = 0 /\ Len(s) = n)
  BY <1>1, <1>3 DEF Failures
<1>5. q \in Results /\ q.layout = r.layout
  BY <1>2 DEF RestAs
<1> HIDE DEF q, f
<1>6. /\ RestAs(t, q, m) /\ SaysAs(t, q, m)
      /\ f > 0 => m \in t.degraded
      /\ ~(f > 0) => t = q
  BY <1>5, FlagIs
<1>7. Settled(t, cl, m)
  <2>1. CASE f > 0
    BY <1>6, <2>1 DEF Settled
  <2>2. CASE ~(f > 0)
    <3>1. t.items[m] = s /\ t.waiting[m] = <<>> /\ t.layout = r.layout
      BY <1>2, <1>5, <1>6, <2>2
    <3>2. Len(t.items[m]) + Len(t.waiting[m]) = n
      <4>1. Len(s) = n /\ Len(t.waiting[m]) = 0
        BY <1>4, <2>2, <3>1
      <4>2. Len(t.items[m]) = n
        BY <3>1, <4>1
      <4> QED
        BY ONLY <4>1, <4>2, n \in Nat
    <3>3. AskedFor(cl, t, m) = n
      BY <3>1 DEF AskedFor
    <3> QED
      BY <1>3, <1>4, <2>2, <3>1, <3>2, <3>3 DEF Settled
  <2> QED
    BY <2>1, <2>2
<1>8. t.waiting[m] = <<>>
  BY <1>2, <1>6 DEF SaysAs
<1> QED
  BY <1>2, <1>6, <1>7, <1>8, RestTrans DEF q, f

LEMMA SubmittedIs ==
  ASSUME NEW r \in Results, NEW m \in Modalities, NEW n \in Nat, NEW k \in 0 .. n,
         NEW cl, AskedFor(cl, r, m) = n, r.items[m] = <<>>
  PROVE  LET q == Flag([r EXCEPT !.waiting[m] = [j \in 1 .. k |-> "open"]], m, n - k)
         IN  RestAs(q, r, m) /\ Settled(q, cl, m)
<1> DEFINE s == [j \in 1 .. k |-> "open"]
           q == [r EXCEPT !.waiting[m] = s]
           t == Flag(q, m, n - k)
<1>1. s \in Seq(Outcomes) /\ Len(s) = k
  BY DEF Outcomes
<1> HIDE DEF s
<1>2. RestAs(q, r, m) /\ q.waiting[m] = s /\ q.items[m] = <<>> /\ q.degraded = r.degraded
  BY <1>1, WaitingSet
<1>3. q \in Results /\ q.layout = r.layout
  BY <1>2 DEF RestAs
<1> HIDE DEF q
<1>4. /\ RestAs(t, q, m) /\ SaysAs(t, q, m)
      /\ n - k > 0 => m \in t.degraded
      /\ ~(n - k > 0) => t = q
  BY <1>3, FlagIs
<1>5. Settled(t, cl, m)
  <2>1. CASE n - k > 0
    BY <1>4, <2>1 DEF Settled
  <2>2. CASE ~(n - k > 0)
    <3>1. t.items[m] = <<>> /\ t.waiting[m] = s /\ t.layout = r.layout /\ k = n
      BY <1>2, <1>3, <1>4, <2>2
    <3>2. Len(t.items[m]) + Len(t.waiting[m]) = n /\ 1 .. Len(t.items[m]) = {}
      <4>1. Len(s) = n /\ Len(t.items[m]) = 0
        BY <1>1, <3>1
      <4>2. Len(t.waiting[m]) = n
        BY <3>1, <4>1
      <4> QED
        <5>1. Len(t.items[m]) + Len(t.waiting[m]) = n
          <6>1. 0 + n = n
            OBVIOUS
          <6> QED
            BY ONLY <4>1, <4>2, <6>1, Zenon
        <5>2. 1 .. Len(t.items[m]) = {}
          BY <4>1
        <5> QED
          BY <5>1, <5>2
    <3>3. AskedFor(cl, t, m) = n
      BY <3>1 DEF AskedFor
    <3> QED
      BY <3>2, <3>3 DEF Settled
  <2> QED
    BY <2>1, <2>2
<1> QED
  BY <1>2, <1>4, <1>5, RestTrans DEF q, s

(* A future resolved while it waits. *)
LEMMA ResolvedIs ==
  ASSUME NEW r \in Results, NEW m \in Modalities, NEW k \in DOMAIN r.waiting[m], NEW v \in Outcome,
         NEW cl
  PROVE  LET q == [r EXCEPT !.waiting[m][k] = v]
         IN  /\ RestAs(q, r, m)
             /\ Settled(r, cl, m) => Settled(q, cl, m)
             /\ r.waiting[m] # <<>>
<1> DEFINE s == [r.waiting[m] EXCEPT ![k] = v]
           q == [r EXCEPT !.waiting[m] = s]
<1>1. r.waiting[m] \in Seq(Outcomes)
  BY DEF Results
<1>2. s \in Seq(Outcomes) /\ Len(s) = Len(r.waiting[m]) /\ r.waiting[m] # <<>>
  BY <1>1 DEF Outcomes
<1>3. [r EXCEPT !.waiting[m][k] = v] = q
  OBVIOUS
<1> HIDE DEF s
<1>4. RestAs(q, r, m) /\ q.waiting[m] = s /\ q.items[m] = r.items[m] /\ q.degraded = r.degraded
  BY <1>2, WaitingSet
<1>5. q.layout = r.layout
  BY <1>4 DEF RestAs
<1> HIDE DEF q
<1>6. Settled(r, cl, m) => Settled(q, cl, m)
  BY <1>2, <1>4, <1>5 DEF Settled, AskedFor
<1> QED
  BY <1>2, <1>3, <1>4, <1>6

(* A future joined: what it held, or a blank that is flagged. *)
AfterJoin(r, m, item) ==
  Flag([r EXCEPT !.waiting[m] = Tail(r.waiting[m]), !.items[m] = Append(r.items[m], item)],
       m, IF item = "blank" THEN 1 ELSE 0)

LEMMA JoinedIs ==
  ASSUME NEW r \in Results, NEW m \in Modalities, r.waiting[m] # <<>>, NEW cl,
         NEW item, item = Joined(Head(r.waiting[m]))
  PROVE  /\ RestAs(AfterJoin(r, m, item), r, m)
         /\ Settled(r, cl, m) => Settled(AfterJoin(r, m, item), cl, m)
<1> DEFINE w == r.waiting[m]
           s == Append(r.items[m], item)
           p == [r EXCEPT !.waiting[m] = Tail(w)]
           q == [p EXCEPT !.items[m] = s]
           n == IF item = "blank" THEN 1 ELSE 0
           t == Flag(q, m, n)
<1>1. w \in Seq(Outcomes) /\ r.items[m] \in Seq(Outcome)
  BY DEF Results
<1>2. Head(w) \in Outcomes /\ Tail(w) \in Seq(Outcomes) /\ Len(Tail(w)) = Len(w) - 1
      /\ Len(w) \in Nat
  BY <1>1
<1>3. item \in Outcome
  BY <1>2 DEF Joined, Outcomes, Outcome
<1>4. /\ s \in Seq(Outcome) /\ Len(s) = Len(r.items[m]) + 1 /\ Len(r.items[m]) \in Nat
      /\ \A j \in 1 .. Len(r.items[m]): s[j] = r.items[m][j]
      /\ s[Len(r.items[m]) + 1] = item
  BY <1>1, <1>3
<1> HIDE DEF w, s
<1>5. RestAs(p, r, m) /\ p.waiting[m] = Tail(w) /\ p.items[m] = r.items[m] /\ p.degraded = r.degraded
  BY <1>2, WaitingSet
<1>6. p \in Results /\ [r EXCEPT !.waiting[m] = Tail(w), !.items[m] = s] = q
  BY <1>5 DEF RestAs
<1> HIDE DEF p
<1>7. RestAs(q, p, m) /\ q.items[m] = s /\ q.waiting[m] = Tail(w) /\ q.degraded = p.degraded
  BY <1>4, <1>5, <1>6, ItemsSet
<1>8. RestAs(q, r, m) /\ q \in Results /\ q.layout = r.layout
  BY <1>5, <1>7, RestTrans DEF RestAs
<1> HIDE DEF q
<1>9. /\ RestAs(t, q, m) /\ SaysAs(t, q, m)
      /\ n > 0 => m \in t.degraded
      /\ ~(n > 0) => t = q
  BY <1>8, FlagIs
<1>10. ASSUME Settled(r, cl, m)
       PROVE  Settled(t, cl, m)
  <2>1. CASE n > 0
    BY <1>9, <2>1 DEF Settled
  <2>2. CASE m \in r.degraded
    BY <1>5, <1>7, <1>9, <2>2 DEF SaysAs, Settled
  <2>3. CASE ~(n > 0) /\ m \notin r.degraded
    <3>1. item # "blank"
      BY <2>3
    <3>2. t.items[m] = s /\ t.waiting[m] = Tail(w) /\ t.layout = r.layout
      BY <1>7, <1>8, <1>9, <2>3
    <3>3. /\ Len(r.items[m]) + Len(w) = AskedFor(cl, r, m)
          /\ \A j \in 1 .. Len(r.items[m]): r.items[m][j] # "blank"
      BY <1>10, <2>3 DEF Settled, w
    <3>4. Len(s) + Len(Tail(w)) = AskedFor(cl, r, m)
      <4>1. Len(s) + Len(Tail(w)) = Len(r.items[m]) + Len(w)
        BY ONLY <1>2, <1>4
      <4> QED
        BY <3>3, <4>1
    <3>5. AskedFor(cl, t, m) = AskedFor(cl, r, m)
      BY <3>2 DEF AskedFor
    <3>6. \A j \in 1 .. Len(s): s[j] # "blank"
      <4> TAKE j \in 1 .. Len(s)
      <4>1. j \in 1 .. Len(r.items[m]) \/ j = Len(r.items[m]) + 1
        BY <1>4
      <4> QED
        BY <1>4, <3>1, <3>3, <4>1, Zenon
    <3> QED
      BY <3>2, <3>4, <3>5, <3>6 DEF Settled
  <2> QED
    BY <2>1, <2>2, <2>3
<1> QED
  BY <1>6, <1>8, <1>9, <1>10, RestTrans DEF w, s, AfterJoin

(* A complete result stays complete when one modality's answers go on. *)
LEMMA CompleteKept ==
  ASSUME NEW r, NEW q, NEW p, NEW cl, NEW m \in Modalities, Complete(r, p, cl), RestAs(q, r, m),
         Settled(q, cl, m), q.waiting[m] # <<>> => cl.kind = "single"
  PROVE  Complete(q, p, cl)
<1>1. /\ r.page = p /\ OwnLayout(r) /\ Sourced(r, cl) /\ DefersAlone(r, cl)
      /\ \A o \in Modalities: Settled(r, cl, o)
  BY DEF Complete
<1>2. q.page = p /\ OwnLayout(q) /\ Sourced(q, cl)
  BY <1>1 DEF RestAs, OwnLayout, Sourced, Textful
<1>3. DefersAlone(q, cl)
  BY <1>1 DEF RestAs, SaysAs, DefersAlone
<1>4. \A o \in Modalities: Settled(q, cl, o)
  <2> TAKE o \in Modalities
  <2>1. CASE o = m
    BY <2>1
  <2>2. CASE o # m
    <3>1. SaysAs(q, r, o) /\ q.layout = r.layout
      BY <2>2 DEF RestAs
    <3> QED
      BY <1>1, <3>1, SettledKept
  <2> QED
    BY <2>1, <2>2
<1> QED
  BY <1>2, <1>3, <1>4 DEF Complete

----------------------------------------------------------------------------
(* The worker's way through a call *)

Reads(cl) == cl.kind \in {"single", "device", "batch"}

LEMMA Path ==
  ASSUME HostOK, worker.at # "idle"
  PROVE  /\ worker.at = "upload" => NextStage =
              IF Batched THEN "settle" ELSE IF Reads(Call) THEN "detect"
              ELSE IF Call.kind = "infer" THEN "infer" ELSE "layout"
         /\ worker.at = "settle" => NextStage =
              IF worker.i = Len(worker.chunk) THEN "detect" ELSE "upload"
         /\ worker.at = "detect" => NextStage =
              IF Batched \/ ~Call.layout THEN "classify" ELSE "layout"
         /\ worker.at = "layout" => NextStage =
              IF ~Batched /\ Reads(Call) THEN "classify" ELSE "collect"
         /\ worker.at = "classify" => NextStage = "recognise"
         /\ worker.at = "recognise" => NextStage =
              IF ~Batched THEN "collect" ELSE IF Call.layout THEN "layout" ELSE "reply"
         /\ worker.at = "collect" => NextStage = IF Call.kind = "layout" THEN "reply" ELSE "table"
         /\ worker.at = "table" => NextStage = "formula"
         /\ worker.at = "formula" => NextStage =
              IF Batched /\ worker.i # Len(worker.chunk) THEN "layout" ELSE "reply"
<1> DEFINE kind == IF Batched THEN "batch" ELSE IF Call.kind = "batch" THEN "single" ELSE Call.kind
<1>1. /\ Call.kind \in {"single", "device", "batch", "layout", "structure", "infer"}
      /\ Batched => Call.kind = "batch"
      /\ StageFits(worker, Call)
  BY PageInHand DEF Batched, HostOK, WorkerOK
<1>2. kind \in {"single", "device", "batch", "layout", "structure", "infer"}
      /\ (kind = "batch" <=> Batched)
      /\ (kind \in {"single", "device"} <=> ~Batched /\ Reads(Call))
      /\ (kind = "infer" <=> Call.kind = "infer")
      /\ (kind = "layout" <=> Call.kind = "layout")
      /\ (kind = "structure" <=> Call.kind = "structure")
  BY <1>1 DEF Reads
<1>3. NextStage =
      (CASE worker.at = "upload" ->
             (CASE kind \in {"single", "device"} -> "detect"
                [] kind = "batch" -> "settle"
                [] kind \in {"layout", "structure"} -> "layout"
                [] kind = "infer" -> "infer")
        [] worker.at = "settle" -> IF LastPage THEN "detect" ELSE "upload"
        [] worker.at = "detect" ->
             (IF kind = "batch" \/ ~Call.layout THEN "classify" ELSE "layout")
        [] worker.at = "layout" ->
             (IF kind \in {"single", "device"} THEN "classify" ELSE "collect")
        [] worker.at = "classify" -> "recognise"
        [] worker.at = "recognise" ->
             (IF kind = "batch" THEN IF Call.layout THEN "layout" ELSE "reply" ELSE "collect")
        [] worker.at = "collect" -> IF kind = "layout" THEN "reply" ELSE "table"
        [] worker.at = "table" -> "formula"
        [] worker.at = "formula" ->
             (IF kind = "batch" /\ ~LastPage THEN "layout" ELSE "reply"))
  BY DEF NextStage
<1> HIDE DEF kind
<1>4. CASE worker.at = "upload"
  <2>1. NextStage = CASE kind \in {"single", "device"} -> "detect"
                [] kind = "batch" -> "settle"
                [] kind \in {"layout", "structure"} -> "layout"
                [] kind = "infer" -> "infer"
    BY <1>3, <1>4
  <2> QED
    BY <1>2, <1>4, <2>1
<1>5. CASE worker.at = "settle"
  BY <1>3, <1>5 DEF LastPage
<1>6. CASE worker.at = "detect"
  BY <1>2, <1>3, <1>6
<1>7. CASE worker.at = "layout"
  BY <1>2, <1>3, <1>7
<1>8. CASE worker.at = "classify"
  BY <1>3, <1>8
<1>9. CASE worker.at = "recognise"
  BY <1>2, <1>3, <1>9
<1>10. CASE worker.at = "collect"
  BY <1>2, <1>3, <1>10
<1>11. CASE worker.at = "table"
  BY <1>3, <1>11
<1>12. CASE worker.at = "formula"
  BY <1>2, <1>3, <1>12 DEF LastPage
<1>13. worker.at \notin {"upload", "settle", "detect", "layout", "classify", "recognise",
                         "collect", "table", "formula"}
       \/ worker.at \in {"upload", "settle", "detect", "layout", "classify", "recognise",
                         "collect", "table", "formula"}
  OBVIOUS
<1> QED
  BY <1>4, <1>5, <1>6, <1>7, <1>8, <1>9, <1>10, <1>11, <1>12, <1>13

LEMMA PathIndex ==
  ASSUME HostOK, worker.at # "idle"
  PROVE  /\ NextIndex \in 1 .. Len(worker.chunk) /\ NextIndex \in Nat
         /\ worker.at \notin {"settle", "formula"} => NextIndex = worker.i
         /\ worker.at = "settle" => NextIndex =
              IF worker.i = Len(worker.chunk) THEN 1 ELSE worker.i + 1
         /\ worker.at = "formula" => NextIndex =
              IF Batched /\ worker.i # Len(worker.chunk) THEN worker.i + 1 ELSE worker.i
<1>1. worker.i \in 1 .. Len(worker.chunk) /\ Len(worker.chunk) \in Nat
      /\ (worker.at = "settle" => Batched)
  BY PageInHand DEF HostOK, WorkerOK, StageFits, InBatch, Batched
<1>2. CASE worker.at \in {"settle", "formula"} /\ Batched /\ ~LastPage
  <2>1. NextIndex = worker.i + 1
    BY <1>2 DEF NextIndex, LastPage
  <2> QED
    BY <1>1, <1>2, <2>1 DEF LastPage
<1>3. CASE worker.at = "settle" /\ LastPage
  <2>1. NextIndex = 1
    BY <1>3 DEF NextIndex, LastPage
  <2> QED
    BY <1>1, <1>3, <2>1 DEF LastPage
<1>4. CASE /\ ~(worker.at \in {"settle", "formula"} /\ Batched /\ ~LastPage)
           /\ ~(worker.at = "settle" /\ LastPage)
  <2>1. NextIndex = worker.i
    BY <1>4 DEF NextIndex
  <2> QED
    BY <1>1, <1>4, <2>1 DEF LastPage
<1> QED
  BY <1>2, <1>3, <1>4

(* Where the stages lead. *)
LEMMA PathFits ==
  ASSUME HostOK, worker.at # "idle", worker.at \notin {"infer", "reply"}
  PROVE  /\ NextStage \in Stages /\ NextStage # "idle"
         /\ \A w: w.at = NextStage /\ w.chunk = worker.chunk => StageFits(w, Call)
<1>1. /\ worker.at \in Stages
      /\ Call.kind \in {"single", "device", "batch", "layout", "structure", "infer"}
      /\ (Batched <=> InBatch(worker, Call))
      /\ StageFits(worker, Call)
  BY PageInHand DEF HostOK, HostType, Workers, WorkerOK, Batched, InBatch
<1>2. Batched => Call.kind = "batch"
  BY DEF Batched
<1>3. \A w: w.chunk = worker.chunk => (InBatch(w, Call) <=> Batched)
  BY DEF InBatch, Batched
<1>4. CASE worker.at = "upload"
  BY <1>1, <1>2, <1>3, <1>4, Path DEF StageFits, Stages, Reads
<1>5. CASE worker.at = "settle"
  BY <1>1, <1>2, <1>3, <1>5, Path DEF StageFits, Stages
<1>6. CASE worker.at = "detect"
  BY <1>1, <1>2, <1>3, <1>6, Path DEF StageFits, Stages
<1>7. CASE worker.at = "layout"
  BY <1>1, <1>2, <1>3, <1>7, Path DEF StageFits, Stages, Reads
<1>8. CASE worker.at = "classify"
  BY <1>1, <1>2, <1>3, <1>8, Path DEF StageFits, Stages
<1>9. CASE worker.at = "recognise"
  BY <1>1, <1>2, <1>3, <1>9, Path DEF StageFits, Stages
<1>10. CASE worker.at = "collect"
  BY <1>1, <1>2, <1>3, <1>10, Path DEF StageFits, Stages
<1>11. CASE worker.at \in {"table", "formula"}
  BY <1>1, <1>2, <1>3, <1>11, Path DEF StageFits, Stages
<1> QED
  BY <1>1, <1>4, <1>5, <1>6, <1>7, <1>8, <1>9, <1>10, <1>11 DEF Stages

(* The fields of the worker after a stage. *)
Goes(w) ==
  /\ w.at = NextStage /\ w.i = NextIndex /\ w.call = worker.call /\ w.chunk = worker.chunk
OnItsWay(w) ==
  /\ w \in Workers /\ Goes(w) /\ w.left = worker.left /\ w.done = worker.done

LEMMA MovedIs ==
  ASSUME HostOK, worker.at # "idle", worker.at \notin {"infer", "reply"}
  PROVE  /\ OnItsWay(Moved) /\ Moved.results = worker.results /\ Moved.enqueued = worker.enqueued
         /\ \A e \in BOOLEAN:
              LET w == [Moved EXCEPT !.enqueued = e]
              IN  OnItsWay(w) /\ w.results = worker.results /\ w.enqueued = e
         /\ \A rs \in Seq(Results):
              LET w == [Moved EXCEPT !.results = rs]
              IN  OnItsWay(w) /\ w.results = rs /\ w.enqueued = worker.enqueued
<1>1. worker \in Workers /\ NextStage \in Stages /\ NextIndex \in Nat
  BY PathFits, PathIndex DEF HostOK, HostType
<1>2. /\ Moved \in Workers /\ Moved.at = NextStage /\ Moved.i = NextIndex
      /\ Moved.call = worker.call /\ Moved.chunk = worker.chunk /\ Moved.left = worker.left
      /\ Moved.done = worker.done /\ Moved.results = worker.results
      /\ Moved.enqueued = worker.enqueued
  BY <1>1 DEF Moved, Workers
<1>3. \A e \in BOOLEAN:
        LET w == [Moved EXCEPT !.enqueued = e]
        IN  OnItsWay(w) /\ w.results = worker.results /\ w.enqueued = e
  BY <1>2 DEF Workers, OnItsWay, Goes
<1>4. \A rs \in Seq(Results):
        LET w == [Moved EXCEPT !.results = rs]
        IN  OnItsWay(w) /\ w.results = rs /\ w.enqueued = worker.enqueued
  BY <1>2 DEF Workers, OnItsWay, Goes
<1> QED
  BY <1>2, <1>3, <1>4 DEF OnItsWay, Goes

LEMMA MovedWithIs ==
  ASSUME HostOK, worker.at # "idle", worker.at \notin {"infer", "reply"}, NEW r \in Results
  PROVE  /\ OnItsWay(MovedWith(r)) /\ MovedWith(r).enqueued = worker.enqueued
         /\ Len(MovedWith(r).results) = Len(worker.results)
         /\ MovedWith(r).results[worker.i] = r
         /\ \A k \in 1 .. Len(worker.results):
              k # worker.i => MovedWith(r).results[k] = worker.results[k]
<1> DEFINE rs == [worker.results EXCEPT ![worker.i] = r]
<1>1. worker.results \in Seq(Results) /\ worker.i \in 1 .. Len(worker.results)
  BY PageInHand DEF HostOK, HostType, Workers, WorkerOK, Placed
<1>2. /\ rs \in Seq(Results) /\ Len(rs) = Len(worker.results) /\ rs[worker.i] = r
      /\ \A k \in 1 .. Len(worker.results): k # worker.i => rs[k] = worker.results[k]
  BY <1>1
<1>3. MovedWith(r) = [Moved EXCEPT !.results = rs]
  BY MovedIs DEF MovedWith
<1> HIDE DEF rs
<1> QED
  BY <1>2, <1>3, MovedIs

(* A step of the worker within its part of the call keeps what is known of the
   call as a whole. *)
LEMMA WithinPart ==
  ASSUME HostOK, worker.at # "idle", worker.at \notin {"infer", "reply"},
         program' = program, reply' = reply, OnItsWay(worker'),
         Len(worker'.results) = Len(worker.results),
         \A k \in 1 .. Len(worker.results):
           /\ worker'.results[k].page = worker.results[k].page
           /\ ResultOK(worker', Call, k, worker'.results[k])
  PROVE  HostOK'
<1>1. HostType'
  BY DEF OnItsWay, Goes, HostOK, HostType
<1>2. Call' = Call
  BY DEF Call, OnItsWay, Goes
<1>3. worker.call > 0 /\ Placed(worker, Call.pages) /\ DoneOK(worker, Call)
  BY DEF HostOK, WorkerOK
<1>4. StageFits(worker', Call) /\ NextIndex \in 1 .. Len(worker.chunk)
  BY PathFits, PathIndex DEF OnItsWay, Goes
<1>5. Placed(worker', Call.pages)
  BY <1>3, <1>4 DEF Placed, OnItsWay, Goes
<1>6. DoneOK(worker', Call)
  BY <1>3 DEF DoneOK, OnItsWay, Goes
<1>7. ResultsOK(worker', Call)
  BY DEF ResultsOK
<1>8. WorkerOK'
  BY <1>2, <1>3, <1>4, <1>5, <1>6, <1>7 DEF WorkerOK, OnItsWay, Goes
<1>9. RepliesOK'
  BY DEF HostOK, RepliesOK, ReplyOK, OnItsWay, Goes
<1> QED
  BY <1>1, <1>8, <1>9 DEF HostOK

(* What is known of a result a stage does not touch. *)
LEMMA OthersOK ==
  ASSUME HostOK, worker.at # "idle", NEW w, OnItsWay(w), NEW k \in 1 .. Len(worker.results),
         \/ worker.at \in {"upload", "settle", "classify", "layout"}
         \/ worker.at \in {"collect", "table", "formula"} /\ k # worker.i
  PROVE  ResultOK(w, Call, k, worker.results[k])
<1> DEFINE r == worker.results[k]
<1>1. /\ ResultOK(worker, Call, k, r) /\ StageFits(worker, Call)
      /\ Len(worker.results) = Len(worker.chunk) /\ k \in Nat /\ worker.i \in Nat
      /\ worker.i \in 1 .. Len(worker.chunk) /\ Len(worker.chunk) \in Nat
      /\ ~Batched => Len(worker.chunk) = 1 /\ worker.i = 1
      /\ Call.kind \in {"single", "device", "batch", "layout", "structure", "infer"}
  <2>1. /\ StageFits(worker, Call) /\ Placed(worker, Call.pages) /\ ResultsOK(worker, Call)
        /\ worker \in Workers
    BY DEF HostOK, HostType, WorkerOK
  <2>2. Len(worker.results) = Len(worker.chunk) /\ ResultOK(worker, Call, k, r)
    BY <2>1 DEF Placed, ResultsOK
  <2>3. worker.i \in Nat /\ k \in Nat
    BY <2>1 DEF Workers
  <2> QED
    BY <2>1, <2>2, <2>3, PageInHand
<1>2. w.at = NextStage /\ w.i = NextIndex /\ (InBatch(w, Call) <=> Batched)
      /\ (InBatch(worker, Call) <=> Batched)
  BY DEF OnItsWay, Goes, InBatch, Batched
<1>3. OwnLayout(r) /\ DefersAlone(r, Call)
  BY <1>1 DEF ResultOK
<1>4. ASSUME OnlyStructure(Call) \/ Recognised(w, Call)
      PROVE  Sourced(r, Call)
  <2>1. OnlyStructure(Call) \/ Recognised(worker, Call) => Sourced(r, Call)
    BY <1>1 DEF ResultOK
  <2>2. CASE worker.at \in {"upload", "settle", "classify"}
    <3>1. ~OnlyStructure(Call) => ~Recognised(w, Call)
      BY <1>1, <1>2, <2>2, Path DEF Recognised, OnlyStructure, Reads
    <3> QED
      BY <1>4, <2>1, <3>1
  <2>3. CASE worker.at = "layout"
    <3>1. ~OnlyStructure(Call) /\ Recognised(w, Call) => Recognised(worker, Call)
      BY <1>1, <1>2, <2>3, Path DEF Recognised, OnlyStructure, Reads, StageFits
    <3> QED
      BY <1>4, <2>1, <3>1
  <2>4. CASE worker.at \in {"collect", "table", "formula"}
    BY <2>1, <2>4 DEF Recognised
  <2> QED
    BY <2>2, <2>3, <2>4
<1>5. ASSUME NEW m \in Modalities
      PROVE  Settled(r, Call, m)
  <2>1. Settled(r, Call, m) \/ (k = worker.i /\ OpenAt(worker.at, m))
    BY <1>1 DEF ResultOK
  <2>2. ~(k = worker.i /\ OpenAt(worker.at, m))
    BY ModalityNames DEF OpenAt, Modalities
  <2> QED
    BY <2>1, <2>2
<1>6. ASSUME NEW m \in Modalities, Ahead(w, k, m)
      PROVE  Raw(r, m)
  <2>1. Ahead(worker, k, m)
    <3>1. CASE worker.at \in Early
      BY <3>1 DEF Ahead
    <3>2. CASE worker.at = "layout"
      <4>1. CASE w.at = "classify"
        <5>1. ~Batched
          BY <1>2, <3>2, <4>1, Path
        <5> QED
          BY <1>1, <3>2, <5>1 DEF Ahead
      <4>2. CASE w.at = "collect"
        BY <1>1, <1>2, <1>6, <3>2, <4>2, PathIndex DEF Ahead, Early
      <4> QED
        BY <1>2, <3>2, <4>1, <4>2, Path
    <3>3. CASE worker.at = "collect" /\ k # worker.i
      BY <1>1, <1>2, <1>6, <3>3, Path, PathIndex DEF Ahead, Early
    <3>4. CASE worker.at = "table" /\ k # worker.i
      BY <1>1, <1>2, <1>6, <3>4, Path, PathIndex DEF Ahead, Early
    <3>5. CASE worker.at = "formula" /\ k # worker.i
      <4>1. CASE w.at = "reply"
        BY <1>6, <4>1 DEF Ahead, Early
      <4>2. CASE w.at = "layout"
        <5>1. w.i = worker.i + 1
          BY <1>2, <3>5, <4>2, Path, PathIndex
        <5>2. k >= worker.i + 1
          <6>1. k >= w.i
            BY <1>1, <1>6, <4>2, <5>1 DEF Ahead, Early
          <6> QED
            BY <5>1, <6>1
        <5> QED
          BY <1>1, <3>5, <5>2 DEF Ahead
      <4> QED
        BY <1>2, <3>5, <4>1, <4>2, Path
    <3> QED
      BY <3>1, <3>2, <3>3, <3>4, <3>5 DEF Early
  <2> QED
    BY <1>1, <2>1 DEF ResultOK
<1>7. ASSUME Uncollected(w, k)
      PROVE  r.layout = NoPage
  <2>1. Uncollected(worker, k)
    <3>1. CASE worker.at \in Early
      BY <3>1 DEF Uncollected
    <3>2. CASE worker.at = "layout"
      <4>1. CASE w.at = "classify"
        <5>1. ~Batched
          BY <1>2, <3>2, <4>1, Path
        <5> QED
          BY <1>1, <3>2, <5>1 DEF Uncollected
      <4>2. CASE w.at = "collect"
        BY <1>1, <1>2, <1>7, <3>2, <4>2, PathIndex DEF Uncollected, Early
      <4> QED
        BY <1>2, <3>2, <4>1, <4>2, Path
    <3>3. CASE worker.at = "collect" /\ k # worker.i
      BY <1>1, <1>2, <1>7, <3>3, Path, PathIndex DEF Uncollected, Early
    <3>4. CASE worker.at = "table" /\ k # worker.i
      BY <1>1, <1>2, <1>7, <3>4, Path, PathIndex DEF Uncollected, Early
    <3>5. CASE worker.at = "formula" /\ k # worker.i
      <4>1. CASE w.at = "reply"
        BY <1>7, <4>1 DEF Uncollected, Early
      <4>2. CASE w.at = "layout"
        <5>1. w.i = worker.i + 1
          BY <1>2, <3>5, <4>2, Path, PathIndex
        <5>2. k >= worker.i + 1
          <6>1. k >= w.i
            BY <1>1, <1>7, <4>2, <5>1 DEF Uncollected, Early
          <6> QED
            BY <5>1, <6>1
        <5> QED
          BY <1>1, <3>5, <5>2 DEF Uncollected
      <4> QED
        BY <1>2, <3>5, <4>1, <4>2, Path
    <3> QED
      BY <3>1, <3>2, <3>3, <3>4, <3>5 DEF Early
  <2> QED
    BY <1>1, <2>1 DEF ResultOK
<1> QED
  BY <1>3, <1>4, <1>5, <1>6, <1>7 DEF ResultOK

LEMMA SeqOfMany ==
  ASSUME NEW S, NEW n \in Nat, NEW f, f = [k \in 1 .. n |-> f[k]], \A k \in 1 .. n: f[k] \in S
  PROVE  f \in Seq(S) /\ Len(f) = n
<1>1. f \in [1 .. n -> S]
  OBVIOUS
<1> QED
  BY <1>1

(* Uploading, classifying and enqueueing the layout touch no result. *)
LEMMA QuietStage ==
  ASSUME HostOK, worker.at \in {"upload", "settle", "classify", "layout"},
         program' = program, reply' = reply, OnItsWay(worker'), worker'.results = worker.results
  PROVE  HostOK'
BY OthersOK, WithinPart

LEMMA DetectKeepsHost ==
  ASSUME HostOK, Detect
  PROVE  HostOK'
<1> DEFINE rs == [k \in DOMAIN worker.results |->
                    [worker.results[k] EXCEPT !.boxes = TextBoxes[worker.chunk[k]]]]
<1>1. /\ worker.at = "detect" /\ program' = program /\ reply' = reply
      /\ worker' = [Moved EXCEPT !.results = rs]
  BY DEF Detect, At, Untouched
<1>2. /\ worker.results \in Seq(Results) /\ DOMAIN worker.results = 1 .. Len(worker.results)
      /\ Len(worker.results) = Len(worker.chunk) /\ Len(worker.results) \in Nat
      /\ ResultsOK(worker, Call) /\ StageFits(worker, Call)
  BY <1>1 DEF HostOK, HostType, Workers, WorkerOK, Placed
<1>3. ASSUME NEW k \in 1 .. Len(worker.results)
      PROVE  /\ rs[k] \in Results /\ rs[k].page = worker.results[k].page
             /\ rs[k].source = worker.results[k].source /\ rs[k].layout = worker.results[k].layout
             /\ \A m \in Modalities: SaysAs(rs[k], worker.results[k], m)
  <2>1. worker.results[k] \in Results /\ TextBoxes[worker.chunk[k]] \in Nat
    BY <1>1, <1>2, PageInHand, PagesAssumption
  <2> QED
    BY <1>2, <2>1, BoxesSet
<1>8. rs = [k \in 1 .. Len(worker.results) |-> rs[k]]
  BY <1>2
<1> HIDE DEF rs
<1>4. rs \in Seq(Results) /\ Len(rs) = Len(worker.results)
  BY <1>2, <1>3, <1>8, SeqOfMany
<1>5. OnItsWay(worker') /\ worker'.results = rs
  BY <1>1, <1>4, MovedIs
<1>6. worker'.at \in {"classify", "layout"} /\ worker'.i = worker.i
      /\ (worker'.at = "layout" => ~Batched)
  BY <1>1, <1>5, Path, PathIndex DEF OnItsWay, Goes
<1>7. ASSUME NEW k \in 1 .. Len(worker.results)
      PROVE  ResultOK(worker', Call, k, rs[k])
  <2>1. ResultOK(worker, Call, k, worker.results[k])
    BY <1>2 DEF ResultsOK
  <2>2. \A m \in Modalities: Raw(worker.results[k], m)
    BY <1>1, <2>1 DEF ResultOK, Ahead, Early
  <2>3. rs[k].layout = NoPage
    BY <1>1, <1>3, <2>1 DEF ResultOK, Uncollected, Early
  <2>4. \A m \in Modalities: Raw(rs[k], m)
    BY <1>3, <2>2 DEF SaysAs, Raw
  <2>5. \A m \in Modalities: Settled(rs[k], Call, m)
    BY <2>3, <2>4, RawIsSettled
  <2>6. ~OnlyStructure(Call) /\ ~Recognised(worker', Call)
    BY <1>1, <1>2, <1>5, <1>6 DEF OnlyStructure, StageFits, Recognised, InBatch, Batched, OnItsWay, Goes
  <2>7. DefersAlone(rs[k], Call)
    BY <2>4 DEF DefersAlone, Raw
  <2> QED
    BY <2>3, <2>4, <2>5, <2>6, <2>7 DEF ResultOK, OwnLayout
<1> QED
  BY <1>1, <1>3, <1>4, <1>5, <1>7, WithinPart

(* Recognition reads every page from its own buffer. *)
LEMMA BuffersRead ==
  ASSUME HostOK, DeviceOK, PixelsOK, At("recognise"), NEW k \in 1 .. Len(worker.results)
  PROVE  /\ copies = <<>>
         /\ bufs[IF Batched THEN <<"batch", k>> ELSE ImgBuf].page = worker.results[k].page
<1>1. worker.at = "recognise" /\ worker.at # "idle" /\ ~exited
  BY DEF At, Working
<1>2. /\ ~Batched => Arrives(ImgBuf, Page)
      /\ Batched => \A j \in 1 .. Len(worker.chunk): bufs[<<"batch", j>>].page = worker.chunk[j]
      /\ ~OnlyStructure(Call) /\ Call.kind # "infer" => copies = <<>>
  BY <1>1 DEF PixelsOK, Uploading
<1>3. /\ Len(worker.results) = Len(worker.chunk)
      /\ \A j \in 1 .. Len(worker.chunk): worker.results[j].page = worker.chunk[j]
      /\ ~OnlyStructure(Call) /\ Call.kind # "infer"
  BY <1>1 DEF HostOK, WorkerOK, Placed, StageFits, OnlyStructure
<1>4. ~Batched => Len(worker.chunk) = 1 /\ worker.i = 1
  BY <1>1, PageInHand
<1>5. CASE Batched
  BY <1>2, <1>3, <1>5
<1>6. CASE ~Batched
  <2>1. k = 1 /\ worker.results[k].page = Page
    BY <1>3, <1>4, <1>6 DEF Page
  <2> QED
    BY <1>2, <1>3, <1>6, <2>1 DEF Arrives
<1> QED
  BY <1>5, <1>6

LEMMA RecogniseKeepsHost ==
  ASSUME HostOK, DeviceOK, PixelsOK, Recognise
  PROVE  HostOK'
<1>1. worker.at = "recognise" /\ At("recognise") /\ program' = program /\ reply' = reply
  BY DEF Recognise, At, Untouched
<1>2. PICK usable, dropped \in [DOMAIN worker.results -> BOOLEAN]:
        worker' = [Moved EXCEPT !.results =
          [k \in DOMAIN worker.results |-> Read(k, usable[k], dropped[k])]]
  BY DEF Recognise
<1> DEFINE rs == [k \in DOMAIN worker.results |-> Read(k, usable[k], dropped[k])]
<1>3. /\ worker.results \in Seq(Results) /\ DOMAIN worker.results = 1 .. Len(worker.results)
      /\ Len(worker.results) = Len(worker.chunk) /\ Len(worker.results) \in Nat
      /\ ResultsOK(worker, Call) /\ StageFits(worker, Call)
  BY <1>1 DEF HostOK, HostType, Workers, WorkerOK, Placed
<1>4. ASSUME NEW k \in 1 .. Len(worker.results)
      PROVE  /\ rs[k] \in Results /\ rs[k].page = worker.results[k].page
             /\ rs[k].source = rs[k].page /\ rs[k].layout = worker.results[k].layout
             /\ Textful(rs[k])
             /\ \A m \in Modalities: /\ rs[k].items[m] = worker.results[k].items[m]
                                     /\ rs[k].waiting[m] = worker.results[k].waiting[m]
  <2> DEFINE r == worker.results[k]
             b == IF Batched THEN <<"batch", k>> ELSE ImgBuf
             u == usable[k]
             d == IF TextDegraded(r, u, dropped[k]) THEN {"text"} ELSE {}
             q == [r EXCEPT !.source = bufs[b].page, !.text = u, !.degraded = d]
  <2>1. rs[k] = q
    BY <1>3 DEF Read
  <2>7. r \in Results
    BY <1>3
  <2>8. u \in BOOLEAN
    BY <1>3
  <2>9. d \in SUBSET (Modalities \union {"text"})
    OBVIOUS
  <2>2. r \in Results /\ r.page \in Pages /\ u \in BOOLEAN
        /\ d \in SUBSET (Modalities \union {"text"})
    <3> HIDE DEF r, u, d
    <3> QED
      BY <2>7, <2>8, <2>9 DEF Results
  <2>3. bufs[b].page = r.page
    BY <1>1, BuffersRead
  <2>4. bufs[b].page \in PageOrNone
    BY <2>2, <2>3 DEF PageOrNone
  <2>5. (r.boxes > 0 /\ ~u) => "text" \in d
    BY DEF TextDegraded
  <2> HIDE DEF b, d, r, u
  <2>6. /\ q \in Results /\ q.boxes = r.boxes /\ q.text = u /\ q.degraded = d
        /\ q.page = r.page /\ q.source = bufs[b].page /\ q.layout = r.layout
        /\ \A m \in Modalities: q.items[m] = r.items[m] /\ q.waiting[m] = r.waiting[m]
    <3>1. bufs[b].page \in PageOrNone /\ r \in Results /\ u \in BOOLEAN
          /\ d \in SUBSET (Modalities \union {"text"})
      BY <2>2, <2>4
    <3> QED
      BY ONLY <3>1 DEF Results
  <2> HIDE DEF q
  <2> QED
    BY <2>1, <2>3, <2>5, <2>6 DEF Textful, r
<1>8. rs = [k \in 1 .. Len(worker.results) |-> rs[k]]
  BY <1>3
<1> HIDE DEF rs
<1>5. rs \in Seq(Results) /\ Len(rs) = Len(worker.results)
  <2>1. \A k \in 1 .. Len(worker.results): rs[k] \in Results
    BY <1>4
  <2>2. Len(worker.results) \in Nat
    BY <1>3
  <2> QED
    BY ONLY <1>8, <2>1, <2>2, SeqOfMany
<1>6. OnItsWay(worker') /\ worker'.results = rs
  BY <1>1, <1>2, <1>5, MovedIs DEF rs
<1>7. ASSUME NEW k \in 1 .. Len(worker.results)
      PROVE  ResultOK(worker', Call, k, rs[k])
  <2>1. ResultOK(worker, Call, k, worker.results[k])
    BY <1>3 DEF ResultsOK
  <2>2. \A m \in Modalities: Raw(worker.results[k], m)
    BY <1>1, <2>1 DEF ResultOK, Ahead, Early
  <2>3. rs[k].layout = NoPage
    BY <1>1, <1>4, <2>1 DEF ResultOK, Uncollected, Early
  <2>4. \A m \in Modalities: Raw(rs[k], m)
    BY <1>4, <2>2 DEF Raw
  <2>5. \A m \in Modalities: Settled(rs[k], Call, m)
    BY <2>3, <2>4, RawIsSettled
  <2>6. ~OnlyStructure(Call)
    BY <1>1, <1>3 DEF OnlyStructure, StageFits
  <2>7. Sourced(rs[k], Call)
    BY <1>4, <2>6 DEF Sourced
  <2>8. DefersAlone(rs[k], Call)
    BY <2>4 DEF DefersAlone, Raw
  <2> QED
    BY <2>3, <2>4, <2>5, <2>7, <2>8 DEF ResultOK, OwnLayout
<1> QED
  BY <1>1, <1>4, <1>5, <1>6, <1>7, WithinPart

(* The layout collected is the page's own. *)
LEMMA LayoutRead ==
  ASSUME HostOK, DeviceOK, PixelsOK, At("collect"), worker.enqueued, copies = <<>>
  PROVE  bufs[layout.input].page = Page
<1>1. worker.at = "collect" /\ worker.at # "idle" /\ ~exited
  BY DEF At, Working
<1>2. /\ ~Batched => Arrives(ImgBuf, Page)
      /\ Batched => \A j \in 1 .. Len(worker.chunk): bufs[<<"batch", j>>].page = worker.chunk[j]
      /\ layout.input = Buf
  BY <1>1 DEF PixelsOK, Uploading
<1>3. worker.i \in 1 .. Len(worker.chunk)
  BY <1>1, PageInHand
<1> QED
  BY <1>2, <1>3 DEF Arrives, Buf, Page

LEMMA CollectKeepsHost ==
  ASSUME HostOK, DeviceOK, PixelsOK, Collect
  PROVE  HostOK'
<1> DEFINE l == IF worker.enqueued /\ layout.armed THEN bufs[layout.input].page ELSE NoPage
           q == [Result EXCEPT !.layout = l]
<1>1. /\ worker.at = "collect" /\ At("collect") /\ program' = program /\ reply' = reply
      /\ worker' = MovedWith(q) /\ (worker.enqueued => copies = <<>>)
  BY DEF Collect, At, Untouched
<1>2. /\ worker.results \in Seq(Results) /\ worker.i \in 1 .. Len(worker.results)
      /\ Len(worker.results) \in Nat
      /\ ResultsOK(worker, Call) /\ StageFits(worker, Call) /\ Page \in Pages
      /\ Result \in Results /\ Result.page = Page /\ Result = worker.results[worker.i]
  <2>1. /\ worker.results \in Seq(Results) /\ Len(worker.results) = Len(worker.chunk)
        /\ ResultsOK(worker, Call) /\ StageFits(worker, Call)
        /\ \A k \in 1 .. Len(worker.chunk): worker.results[k].page = worker.chunk[k]
    BY <1>1 DEF HostOK, HostType, Workers, WorkerOK, Placed
  <2>2. worker.i \in 1 .. Len(worker.chunk) /\ Page \in Pages
    BY <1>1, PageInHand
  <2>3. Result.page = Page
    BY <2>1, <2>2 DEF Result, Page
  <2> QED
    BY <2>1, <2>2, <2>3 DEF Result
<1>3. l \in {NoPage, Page}
  <2>1. worker.enqueued => bufs[layout.input].page = Page
    BY <1>1, LayoutRead
  <2> QED
    BY <2>1
<1>4. /\ q \in Results /\ q.boxes = Result.boxes /\ q.text = Result.text
      /\ q.degraded = Result.degraded /\ q.page = Result.page /\ q.source = Result.source
      /\ q.layout = l /\ \A m \in Modalities: SaysAs(q, Result, m)
  <2>1. l \in PageOrNone
    BY <1>2, <1>3 DEF PageOrNone
  <2> HIDE DEF l
  <2> QED
    BY <1>2, <2>1, LayoutSet
<1> HIDE DEF l, q
<1>5. /\ OnItsWay(worker') /\ Len(worker'.results) = Len(worker.results)
      /\ worker'.results[worker.i] = q
      /\ \A k \in 1 .. Len(worker.results): k # worker.i => worker'.results[k] = worker.results[k]
  BY <1>1, <1>4, MovedWithIs
<1>6. worker'.i = worker.i /\ worker'.at = IF Call.kind = "layout" THEN "reply" ELSE "table"
  BY <1>1, <1>5, Path, PathIndex DEF OnItsWay, Goes
<1>7. ResultOK(worker, Call, worker.i, Result)
  BY <1>2 DEF ResultsOK
<1>8. ResultOK(worker', Call, worker.i, q)
  <2>1. \A m \in Modalities: Raw(q, m)
    BY <1>1, <1>4, <1>7 DEF ResultOK, Ahead, Early, SaysAs, Raw
  <2>2. \A m \in Modalities: Settled(q, Call, m) \/ OpenAt(worker'.at, m)
    <3>1. CASE Call.kind = "layout"
      BY <2>1, <3>1, RawIsSettled
    <3>2. CASE Call.kind # "layout"
      BY <1>6, <3>2 DEF OpenAt, Modalities
    <3> QED
      BY <3>1, <3>2
  <2>3. Sourced(q, Call)
    <3>1. Sourced(Result, Call)
      BY <1>1, <1>7 DEF ResultOK, Recognised
    <3> QED
      BY <1>4, <3>1 DEF Sourced, Textful
  <2>4. ~Uncollected(worker', worker.i)
    BY <1>6, <1>2 DEF Uncollected, Early
  <2>5. OwnLayout(q) /\ DefersAlone(q, Call)
    BY <1>2, <1>3, <1>4, <2>1 DEF OwnLayout, DefersAlone, Raw
  <2> QED
    BY <1>6, <2>1, <2>2, <2>3, <2>4, <2>5 DEF ResultOK
<1>9. ASSUME NEW k \in 1 .. Len(worker.results)
      PROVE  /\ worker'.results[k].page = worker.results[k].page
             /\ ResultOK(worker', Call, k, worker'.results[k])
  <2>1. CASE k = worker.i
    BY <1>2, <1>4, <1>5, <1>8, <2>1
  <2>2. CASE k # worker.i
    BY <1>1, <1>5, <2>2, OthersOK
  <2> QED
    BY <2>1, <2>2
<1> QED
  BY <1>1, <1>5, <1>9, WithinPart

(* A table or formula stage settles its modality for the page in hand. *)
LEMMA StructureStage ==
  ASSUME HostOK, NEW m \in Modalities, worker.at = m, NEW q, RestAs(q, Result, m),
         Settled(q, Call, m), q.waiting[m] # <<>> => Call.kind = "single",
         program' = program, reply' = reply, worker' = MovedWith(q)
  PROVE  HostOK'
<1> DEFINE r == Result
<1>1. /\ worker.at \in {"table", "formula"} /\ worker.at # "idle"
      /\ worker.at \notin {"infer", "reply"}
  BY DEF Modalities
<1>2. /\ worker.i \in 1 .. Len(worker.results) /\ Len(worker.results) \in Nat
      /\ ResultsOK(worker, Call) /\ StageFits(worker, Call) /\ worker.i \in Nat
      /\ r \in Results /\ r = worker.results[worker.i]
  <2>1. /\ worker.results \in Seq(Results) /\ Len(worker.results) = Len(worker.chunk)
        /\ ResultsOK(worker, Call) /\ StageFits(worker, Call)
    BY <1>1 DEF HostOK, HostType, Workers, WorkerOK, Placed
  <2>2. worker.i \in 1 .. Len(worker.chunk)
    BY <1>1, PageInHand
  <2> QED
    BY <2>1, <2>2 DEF Result
<1>3. ResultOK(worker, Call, worker.i, r)
  BY <1>2 DEF ResultsOK
<1> HIDE DEF r
<1>4. /\ q \in Results /\ q.page = r.page /\ q.layout = r.layout
      /\ \A o \in Modalities \ {m}: SaysAs(q, r, o)
  BY DEF RestAs, r
<1>5. /\ OnItsWay(worker') /\ Len(worker'.results) = Len(worker.results)
      /\ worker'.results[worker.i] = q
      /\ \A k \in 1 .. Len(worker.results): k # worker.i => worker'.results[k] = worker.results[k]
  BY <1>1, <1>4, MovedWithIs
<1>6. \/ worker'.at = "reply"
      \/ worker.at = "table" /\ worker'.at = "formula" /\ worker'.i = worker.i
      \/ worker.at = "formula" /\ worker'.at = "layout" /\ worker'.i = worker.i + 1
  BY <1>1, <1>5, Path, PathIndex DEF OnItsWay, Goes
<1>7. ResultOK(worker', Call, worker.i, q)
  <2>1. Sourced(q, Call)
    <3>1. Sourced(r, Call)
      BY <1>1, <1>3 DEF ResultOK, Recognised
    <3> QED
      BY <3>1 DEF Sourced, Textful, RestAs, r
  <2>2. DefersAlone(q, Call)
    BY <1>3, <1>4 DEF ResultOK, DefersAlone, SaysAs
  <2>3. \A o \in Modalities: Ahead(worker', worker.i, o) => Raw(q, o)
    <3> SUFFICES ASSUME NEW o \in Modalities, Ahead(worker', worker.i, o)
                 PROVE  Raw(q, o)
      OBVIOUS
    <3>1. worker.at = "table" /\ o = "formula" /\ m = "table"
      BY <1>2, <1>6 DEF Ahead, Early, Modalities
    <3>2. Raw(r, o)
      BY <1>3, <3>1 DEF ResultOK, Ahead
    <3> QED
      BY <1>4, <3>1, <3>2 DEF SaysAs, Raw
  <2>4. \A o \in Modalities:
          Settled(q, Call, o) \/ (worker.i = worker'.i /\ OpenAt(worker'.at, o))
    <3> TAKE o \in Modalities
    <3>1. CASE o = m
      BY <3>1
    <3>2. CASE o # m /\ worker.at = "table"
      <4>1. o = "formula"
        BY <3>2 DEF Modalities
      <4>2. worker'.at = "formula" /\ worker'.i = worker.i
        BY <1>5, <3>2, Path, PathIndex DEF OnItsWay, Goes
      <4> QED
        BY <4>1, <4>2 DEF OpenAt
    <3>3. CASE o # m /\ worker.at = "formula"
      <4>1. ~OpenAt(worker.at, o)
        BY <3>3 DEF OpenAt
      <4>2. Settled(r, Call, o)
        BY <1>3, <4>1 DEF ResultOK
      <4> QED
        BY <1>4, <3>3, <4>2, SettledKept
    <3> QED
      BY <1>1, <3>1, <3>2, <3>3
  <2>5. ~Uncollected(worker', worker.i)
    BY <1>2, <1>6 DEF Uncollected, Early
  <2>6. OwnLayout(q)
    BY <1>3, <1>4 DEF ResultOK, OwnLayout
  <2> QED
    BY <2>1, <2>2, <2>3, <2>4, <2>5, <2>6 DEF ResultOK
<1>8. ASSUME NEW k \in 1 .. Len(worker.results)
      PROVE  /\ worker'.results[k].page = worker.results[k].page
             /\ ResultOK(worker', Call, k, worker'.results[k])
  <2>1. CASE k = worker.i
    BY <1>2, <1>4, <1>5, <1>7, <2>1
  <2>2. CASE k # worker.i
    BY <1>1, <1>5, <2>2, OthersOK
  <2> QED
    BY <2>1, <2>2
<1> QED
  BY <1>1, <1>5, <1>8, WithinPart

(* What the stage is asked for, and that nothing has answered yet. *)
LEMMA StageAsked ==
  ASSUME HostOK, NEW m \in Modalities, worker.at = m
  PROVE  /\ Wanted(m) \in Nat /\ AskedFor(Call, Result, m) = Wanted(m)
         /\ Result \in Results /\ Raw(Result, m)
<1>1. worker.at \in {"table", "formula"} /\ worker.at # "idle"
  BY DEF Modalities
<1>2. /\ worker.results \in Seq(Results) /\ Len(worker.results) = Len(worker.chunk)
      /\ ResultsOK(worker, Call) /\ StageFits(worker, Call)
  BY <1>1 DEF HostOK, HostType, Workers, WorkerOK, Placed
<1>3. worker.i \in 1 .. Len(worker.chunk)
  BY <1>1, PageInHand
<1>4. Result \in Results /\ ResultOK(worker, Call, worker.i, Result)
  BY <1>2, <1>3 DEF Result, ResultsOK
<1>5. Raw(Result, m)
  BY <1>1, <1>4 DEF ResultOK, Ahead
<1>6. Call.kind # "layout"
  BY <1>1, <1>2 DEF StageFits
<1>7. Wanted(m) \in Nat
  <2>1. Result.layout # NoPage => Result.layout \in Pages
    BY <1>4 DEF Results, PageOrNone
  <2> QED
    BY <2>1, PagesAssumption DEF Wanted
<1> QED
  BY <1>4, <1>5, <1>6, <1>7 DEF Wanted, AskedFor

LEMMA RunStageKeepsHost ==
  ASSUME HostOK, NEW m \in Modalities, RunStage(m)
  PROVE  HostOK'
<1>1. worker.at = m /\ program' = program /\ reply' = reply
  BY DEF RunStage, At, Untouched
<1>2. PICK items \in SeqsUpTo(Outcome, Wanted(m)):
        worker' = MovedWith(Flag([Result EXCEPT !.items[m] = items], m,
                                 Failures(items, Wanted(m))))
  BY DEF RunStage
<1>3. /\ Wanted(m) \in Nat /\ AskedFor(Call, Result, m) = Wanted(m)
      /\ Result \in Results /\ Result.waiting[m] = <<>>
  BY <1>1, StageAsked DEF Raw
<1> DEFINE q == Flag([Result EXCEPT !.items[m] = items], m, Failures(items, Wanted(m)))
<1>4. RestAs(q, Result, m) /\ Settled(q, Call, m) /\ q.waiting[m] = <<>>
  BY <1>3, RunIs
<1>5. worker' = MovedWith(q)
  BY <1>2
<1> HIDE DEF q
<1> QED
  BY <1>1, <1>4, <1>5, StructureStage

LEMMA SubmitKeepsHost ==
  ASSUME HostOK, NEW m \in Modalities, worker.at = m, Deferred(m), program' = program,
         reply' = reply, NEW n \in 0 .. Wanted(m), worker' = MovedWith(Submitted(m, n))
  PROVE  HostOK'
<1>1. /\ Wanted(m) \in Nat /\ AskedFor(Call, Result, m) = Wanted(m)
      /\ Result \in Results /\ Result.items[m] = <<>>
  BY StageAsked DEF Raw
<1>2. RestAs(Submitted(m, n), Result, m) /\ Settled(Submitted(m, n), Call, m)
  BY <1>1, SubmittedIs DEF Submitted
<1>3. Call.kind = "single"
  BY DEF Deferred
<1> QED
  BY <1>2, <1>3, StructureStage

----------------------------------------------------------------------------
(* Beginning and ending a call *)

(* The next part of the pages left. *)
LEMMA ChunkIs ==
  ASSUME NEW w \in Workers, NEW left \in Seq(Pages), left # <<>>
  PROVE  LET q == Chunk(w, left)
         IN  /\ q \in Workers /\ q.at = "upload" /\ q.i = 1 /\ q.enqueued = FALSE
             /\ q.call = w.call /\ q.done = w.done
             /\ Len(q.chunk) \in Nat /\ Len(q.chunk) >= 1 /\ Len(q.chunk) <= MaxBatchImages
             /\ Len(q.chunk) + Len(q.left) = Len(left)
             /\ \A k \in 1 .. Len(q.chunk): q.chunk[k] = left[k] /\ q.chunk[k] \in Pages
             /\ \A k \in 1 .. Len(q.left): q.left[k] = left[Len(q.chunk) + k]
             /\ Len(q.results) = Len(q.chunk)
             /\ \A k \in 1 .. Len(q.chunk): q.results[k] = NewResult(q.chunk[k])
<1> DEFINE n == IF Len(left) < MaxBatchImages THEN Len(left) ELSE MaxBatchImages
           part == SubSeq(left, 1, n)
           rest == SubSeq(left, Len(part) + 1, Len(left))
           rs == [k \in DOMAIN part |-> NewResult(part[k])]
           q == [w EXCEPT !.at = "upload", !.chunk = part, !.i = 1, !.enqueued = FALSE,
                          !.left = rest, !.results = rs]
<1>1. Chunk(w, left) = q
  BY DEF Chunk
<1>2. Len(left) \in Nat /\ Len(left) >= 1
  BY EmptySeq
<1>3. n \in Nat /\ n >= 1 /\ n <= Len(left) /\ n <= MaxBatchImages
  BY <1>2, BatchAssumption
<1> HIDE DEF n
<1>4. part \in Seq(Pages) /\ Len(part) = n /\ \A k \in 1 .. n: part[k] = left[k]
  BY <1>2, <1>3, SubSeqProperties
<1>5. \A k \in 1 .. n: part[k] \in Pages
  BY <1>4
<1> HIDE DEF part
<1>6. /\ rest \in Seq(Pages) /\ Len(rest) = Len(left) - n
      /\ \A k \in 1 .. Len(rest): rest[k] = left[n + k]
  <2>1. n + 1 \in 1 .. Len(left) + 1 /\ Len(left) \in n .. Len(left)
    BY <1>2, <1>3
  <2>4. \A k \in n + 1 .. Len(left): left[k] \in Pages
    BY <1>2, <1>3
  <2>5. n + 1 \in Int /\ Len(left) \in Int
    BY <1>2, <1>3
  <2> DEFINE t == SubSeq(left, n + 1, Len(left))
  <2>6. /\ t \in Seq(Pages)
        /\ Len(t) = IF n + 1 <= Len(left) THEN Len(left) - (n + 1) + 1 ELSE 0
        /\ \A k \in 1 .. Len(left) - (n + 1) + 1: t[k] = left[n + 1 + k - 1]
    BY <2>4, <2>5, SubSeqProperties
  <2> HIDE DEF t
  <2>2. t \in Seq(Pages) /\ Len(t) = Len(left) - n
    BY <1>2, <1>3, <2>6
  <2>3. \A k \in 1 .. Len(left) - n: t[k] = left[n + k]
    <3> TAKE k \in 1 .. Len(left) - n
    <3>1. k \in 1 .. Len(left) - (n + 1) + 1 /\ n + 1 + k - 1 = n + k
      BY <1>2, <1>3
    <3> QED
      BY <2>6, <3>1
  <2>7. rest = t
    BY <1>4 DEF t
  <2> HIDE DEF rest
  <2> QED
    BY <2>2, <2>3, <2>7
<1> HIDE DEF rest
<1>7. DOMAIN part = 1 .. n
  BY <1>4
<1>8. rs = [k \in 1 .. n |-> rs[k]] /\ \A k \in 1 .. n: rs[k] = NewResult(part[k]) /\ rs[k] \in Results
  BY <1>5, <1>7, NewResultIs
<1> HIDE DEF rs
<1>9. rs \in Seq(Results) /\ Len(rs) = n
  BY <1>3, <1>8, SeqOfMany
<1>10. /\ q \in Workers /\ q.at = "upload" /\ q.i = 1 /\ q.enqueued = FALSE
       /\ q.call = w.call /\ q.done = w.done /\ q.chunk = part /\ q.left = rest /\ q.results = rs
  BY <1>4, <1>6, <1>9 DEF Workers, Stages
<1> HIDE DEF q
<1>11. Len(part) + Len(rest) = Len(left)
  BY <1>2, <1>3, <1>4, <1>6
<1> QED
  BY <1>1, <1>3, <1>4, <1>5, <1>6, <1>8, <1>9, <1>10, <1>11

(* Beginning a part keeps what is known of the call. *)
LEMMA PartBegins ==
  ASSUME program' = program, HostType', NEW w \in Workers, NEW left \in Seq(Pages), left # <<>>,
         worker' = Chunk(w, left), w.call > 0,
         NEW cl, cl = program[w.call],
         Len(w.done) + Len(left) = Len(cl.pages), DoneOK(w, cl),
         \A k \in 1 .. Len(left): left[k] = cl.pages[Len(w.done) + k]
  PROVE  WorkerOK'
<1> DEFINE q == Chunk(w, left)
<1>1. /\ q \in Workers /\ q.at = "upload" /\ q.i = 1
      /\ q.call = w.call /\ q.done = w.done
      /\ Len(q.chunk) \in Nat /\ Len(q.chunk) >= 1 /\ Len(q.chunk) <= MaxBatchImages
      /\ Len(q.chunk) + Len(q.left) = Len(left)
      /\ \A k \in 1 .. Len(q.chunk): q.chunk[k] = left[k] /\ q.chunk[k] \in Pages
      /\ \A k \in 1 .. Len(q.left): q.left[k] = left[Len(q.chunk) + k]
      /\ Len(q.results) = Len(q.chunk)
      /\ \A k \in 1 .. Len(q.chunk): q.results[k] = NewResult(q.chunk[k])
  BY ChunkIs
<1>2. worker' = q
  OBVIOUS
<1> HIDE DEF q
<1>3. Call' = cl
  BY <1>1, <1>2 DEF Call
<1> DEFINE a == Len(w.done)
           b == Len(q.chunk)
           d == Len(q.left)
           n == Len(left)
<1>4. /\ a \in Nat /\ b \in Nat /\ d \in Nat /\ n \in Nat /\ b >= 1
      /\ b + d = n /\ a + n = Len(cl.pages) /\ Len(q.done) = a
      /\ \A k \in 1 .. n: left[k] = cl.pages[a + k]
      /\ \A k \in 1 .. b: q.chunk[k] = left[k]
      /\ \A k \in 1 .. d: q.left[k] = left[b + k]
  <2>1. a \in Nat /\ d \in Nat /\ n \in Nat
    BY <1>1 DEF Workers
  <2> QED
    BY <1>1, <2>1
<1> HIDE DEF a, b, d, n
<1>5. Placed(q, cl.pages)
  <2>1. Len(q.done) + Len(q.chunk) + Len(q.left) = Len(cl.pages)
    <3>1. a + b + d = a + n
      BY <1>4
    <3> QED
      BY <1>4, <3>1 DEF b, d
  <2>2. \A k \in 1 .. Len(q.chunk): q.chunk[k] = cl.pages[Len(q.done) + k]
    <3>1. \A k \in 1 .. b: k \in 1 .. n
      BY <1>4
    <3>2. \A k \in 1 .. b: q.chunk[k] = cl.pages[a + k]
      BY <1>4, <3>1
    <3> QED
      BY <1>4, <3>2 DEF b
  <2>3. \A k \in 1 .. Len(q.left): q.left[k] = cl.pages[Len(q.done) + Len(q.chunk) + k]
    <3>1. \A k \in 1 .. d: b + k \in 1 .. n /\ a + (b + k) = a + b + k
      BY <1>4
    <3>2. \A k \in 1 .. d: q.left[k] = cl.pages[a + b + k]
      <4> TAKE k \in 1 .. d
      <4>1. left[b + k] = cl.pages[a + (b + k)]
        BY <1>4, <3>1
      <4> QED
        BY <1>4, <3>1, <4>1
    <3> QED
      BY <1>4, <3>2 DEF b, d
  <2>4. \A k \in 1 .. Len(q.chunk): q.results[k].page = q.chunk[k]
    <3>1. \A k \in 1 .. Len(q.chunk):
            q.chunk[k] \in Pages /\ q.results[k] = NewResult(q.chunk[k])
      BY <1>1
    <3> QED
      BY ONLY <3>1, NewResultIs
  <2>5. q.i \in 1 .. Len(q.chunk)
    BY <1>1
  <2> QED
    BY <1>1, <2>1, <2>2, <2>3, <2>4, <2>5 DEF Placed
<1>6. ResultsOK(q, cl)
  <2> SUFFICES ASSUME NEW k \in 1 .. Len(q.chunk)
               PROVE  ResultOK(q, cl, k, q.results[k])
    BY <1>1 DEF ResultsOK
  <2> DEFINE r == q.results[k]
  <2>1. /\ r.source = NoPage /\ r.boxes = 0 /\ r.layout = NoPage
        /\ \A m \in Modalities: Raw(r, m)
    <3>1. q.chunk[k] \in Pages /\ r = NewResult(q.chunk[k])
      BY <1>1
    <3> QED
      BY ONLY <3>1, NewResultIs
  <2> HIDE DEF r
  <2>2. \A m \in Modalities: Settled(r, cl, m)
    BY <2>1, RawIsSettled
  <2>3. ~Recognised(q, cl)
    BY <1>1 DEF Recognised
  <2>4. OnlyStructure(cl) => Sourced(r, cl)
    BY <2>1 DEF Sourced
  <2>5. OwnLayout(r) /\ DefersAlone(r, cl)
    BY <2>1 DEF OwnLayout, DefersAlone, Raw
  <2> QED
    BY <2>1, <2>2, <2>3, <2>4, <2>5 DEF ResultOK, r
<1>7. StageFits(q, cl) /\ DoneOK(q, cl)
  BY <1>1 DEF StageFits, DoneOK
<1> QED
  BY <1>1, <1>2, <1>3, <1>5, <1>6, <1>7 DEF WorkerOK

LEMMA StartKeepsHost ==
  ASSUME HostOK, StartCall
  PROVE  HostOK'
<1> DEFINE c == worker.call + 1
           w == [Idle EXCEPT !.call = c]
<1>1. /\ worker.at = "idle" /\ worker.call < Len(program) /\ program' = program /\ reply' = reply
      /\ worker' = Chunk(w, program[c].pages)
  BY DEF StartCall
<1>2. worker.call \in Nat /\ Len(program) \in Nat /\ HostType
  BY DEF HostOK, HostType, Workers
<1>3. c \in 1 .. Len(program) /\ c \in Nat /\ c > 0
  BY <1>1, <1>2
<1>4. program[c].pages \in Seq(Pages) /\ Len(program[c].pages) > 0
  BY <1>2, <1>3, CallShape
<1>5. program[c].pages # <<>>
  BY <1>4
<1> HIDE DEF c
<1>6. w \in Workers /\ w.call = c /\ w.done = <<>>
  <2>1. Idle \in Workers /\ Idle.done = <<>>
    BY DEF Idle, Workers
  <2> QED
    BY <1>3, <2>1 DEF Workers
<1> HIDE DEF w
<1>7. worker' \in Workers /\ worker'.call = c /\ worker'.at = "upload"
  BY <1>1, <1>4, <1>5, <1>6, ChunkIs
<1>8. HostType'
  BY <1>1, <1>2, <1>3, <1>7 DEF HostType
<1>9. WorkerOK'
  <2>1. Len(w.done) = 0 /\ DoneOK(w, program[c])
    BY <1>6 DEF DoneOK
  <2>2. Len(w.done) + Len(program[c].pages) = Len(program[c].pages)
        /\ \A k \in 1 .. Len(program[c].pages):
             program[c].pages[k] = program[c].pages[Len(w.done) + k]
    BY <1>4, <2>1
  <2> QED
    BY <1>1, <1>3, <1>4, <1>5, <1>6, <1>8, <2>1, <2>2, PartBegins
<1>10. RepliesOK'
  <2> SUFFICES ASSUME NEW d \in 1 .. Len(program)
               PROVE  ReplyOK(d)'
    BY <1>1 DEF RepliesOK
  <2>1. ReplyOK(d)
    BY DEF HostOK, RepliesOK
  <2>2. d >= worker'.call => d > worker.call
    BY <1>2, <1>7 DEF c
  <2> QED
    <3>1. d > worker.call => reply[d].st = "none" /\ reply[d].results = <<>>
      BY <2>1 DEF ReplyOK
    <3>2. d > worker'.call \/ d = worker'.call => d >= worker'.call
      BY <1>3, <1>7
    <3>3. (d > worker'.call \/ (d = worker'.call /\ worker'.at # "idle"))
          => reply[d].st = "none" /\ reply[d].results = <<>>
      BY <2>2, <3>1, <3>2
    <3> QED
      BY <1>1, <2>1, <3>3 DEF ReplyOK
<1> QED
  BY <1>8, <1>9, <1>10 DEF HostOK

(* The results of a part, put in reading order, are complete. *)
LEMMA PartComplete ==
  ASSUME HostOK, worker.at = "reply", NEW k \in 1 .. Len(worker.results)
  PROVE  /\ InOrder(worker.results[k]) \in Results
         /\ Complete(InOrder(worker.results[k]), Call.pages[Len(worker.done) + k], Call)
<1> DEFINE r == worker.results[k]
           b == Call.order /\ r.layout # NoPage /\ Call.kind \notin {"layout", "structure"}
           q == [r EXCEPT !.ordered = b]
<1>1. /\ worker.results \in Seq(Results) /\ Placed(worker, Call.pages) /\ ResultsOK(worker, Call)
  BY DEF HostOK, HostType, Workers, WorkerOK
<1>2. /\ r \in Results /\ ResultOK(worker, Call, k, r)
      /\ r.page = Call.pages[Len(worker.done) + k]
  <2>1. r \in Results
    BY <1>1
  <2>2. ResultOK(worker, Call, k, r)
    BY <1>1 DEF ResultsOK
  <2>3. r.page = Call.pages[Len(worker.done) + k]
    BY <1>1 DEF Placed
  <2> QED
    BY <2>1, <2>2, <2>3
<1>3. b \in BOOLEAN
  OBVIOUS
<1>4. InOrder(r) = q
  BY DEF InOrder
<1> HIDE DEF b, r
<1>5. /\ q \in Results /\ q.boxes = r.boxes /\ q.text = r.text /\ q.degraded = r.degraded
      /\ q.page = r.page /\ q.source = r.source /\ q.layout = r.layout
      /\ \A m \in Modalities: SaysAs(q, r, m)
  BY <1>2, <1>3, OrderSet
<1> HIDE DEF q
<1>6. Sourced(r, Call) /\ OwnLayout(r) /\ DefersAlone(r, Call)
  BY <1>2 DEF ResultOK, Recognised
<1>7. \A m \in Modalities: Settled(r, Call, m)
  BY <1>2 DEF ResultOK, OpenAt, Modalities
<1>8. \A m \in Modalities: Settled(q, Call, m)
  BY <1>5, <1>7, SettledKept
<1>9. Sourced(q, Call) /\ OwnLayout(q)
  BY <1>5, <1>6 DEF Sourced, Textful, OwnLayout
<1>10. DefersAlone(q, Call)
  BY <1>5, <1>6 DEF DefersAlone, SaysAs
<1> QED
  BY <1>2, <1>4, <1>5, <1>8, <1>9, <1>10 DEF Complete, r

(* What is done after the part in hand. *)
LEMMA DoneAfter ==
  ASSUME HostOK, worker.at = "reply", NEW done,
         done = worker.done \o [k \in DOMAIN worker.results |-> InOrder(worker.results[k])]
  PROVE  /\ done \in Seq(Results) /\ Len(done) \in Nat
         /\ Len(done) = Len(worker.done) + Len(worker.chunk)
         /\ \A k \in 1 .. Len(done): Complete(done[k], Call.pages[k], Call)
<1> DEFINE n == Len(worker.results)
           a == Len(worker.done)
           rs == [k \in DOMAIN worker.results |-> InOrder(worker.results[k])]
           old == worker.done
<1>1. /\ worker.results \in Seq(Results) /\ old \in Seq(Results)
      /\ Placed(worker, Call.pages) /\ DoneOK(worker, Call)
  BY DEF HostOK, HostType, Workers, WorkerOK
<1>2. /\ DOMAIN worker.results = 1 .. n /\ n \in Nat /\ a \in Nat /\ n = Len(worker.chunk)
      /\ a = Len(old)
  BY <1>1 DEF Placed
<1>3. rs = [k \in 1 .. n |-> rs[k]] /\ \A k \in 1 .. n: rs[k] = InOrder(worker.results[k])
  BY <1>2
<1>4. \A k \in 1 .. n: rs[k] \in Results /\ Complete(rs[k], Call.pages[a + k], Call)
  BY <1>3, PartComplete
<1>5. \A k \in 1 .. a: Complete(old[k], Call.pages[k], Call)
  BY <1>1 DEF DoneOK
<1>6. done = old \o rs
  OBVIOUS
<1> HIDE DEF rs, n, a, old
<1>7. rs \in Seq(Results) /\ Len(rs) = n
  BY <1>2, <1>3, <1>4, SeqOfMany
<1>8. /\ done \in Seq(Results) /\ Len(done) = a + n
      /\ \A k \in 1 .. a + n: done[k] = IF k <= a THEN old[k] ELSE rs[k - a]
  <2>1. old \in Seq(Results) /\ rs \in Seq(Results) /\ Len(old) = a /\ Len(rs) = n
    BY <1>1, <1>2, <1>7
  <2>2. /\ old \o rs \in Seq(Results) /\ Len(old \o rs) = Len(old) + Len(rs)
        /\ \A k \in 1 .. Len(old) + Len(rs):
             (old \o rs)[k] = IF k <= Len(old) THEN old[k] ELSE rs[k - Len(old)]
    BY ONLY <2>1, ConcatProperties
  <2> QED
    BY ONLY <1>6, <2>1, <2>2
<1>9. ASSUME NEW k \in 1 .. a + n
      PROVE  Complete(done[k], Call.pages[k], Call)
  <2>1. CASE k <= a
    BY <1>2, <1>5, <1>8, <2>1
  <2>2. CASE ~(k <= a)
    <3>1. k - a \in 1 .. n /\ a + (k - a) = k
      BY <1>2, <2>2
    <3>2. done[k] = rs[k - a]
      BY <1>8, <2>2
    <3>3. Complete(rs[k - a], Call.pages[a + (k - a)], Call)
      BY <1>4, <3>1
    <3> QED
      BY <3>1, <3>2, <3>3
  <2> QED
    BY <2>1, <2>2
<1>10. Len(done) = Len(worker.done) + Len(worker.chunk)
  BY <1>2, <1>8 DEF a, old
<1>11. Len(done) \in Nat
  BY <1>8
<1> QED
  BY <1>8, <1>9, <1>10, <1>11

(* The worker goes idle and only its own reply changes. *)
LEMMA CallEnds ==
  ASSUME HostOK, worker.at # "idle", program' = program,
         NEW e \in Replies, reply' = [reply EXCEPT ![worker.call] = e],
         worker' = [Idle EXCEPT !.call = worker.call],
         e.results = <<>> \/ Len(e.results) = Len(Call.pages),
         \A k \in 1 .. Len(e.results): Complete(e.results[k], Call.pages[k], Call),
         e.st = "finalizing" => e.results # <<>>,
         e.st = "done" => e.results = <<>>
  PROVE  HostOK'
<1> DEFINE c == worker.call
<1>1. /\ HostType /\ RepliesOK /\ c \in Nat /\ c \in 1 .. Len(program)
      /\ reply \in [1 .. Len(program) -> Replies]
  BY PageInHand DEF HostOK, HostType
<1>2. worker' \in Workers /\ worker'.call = c /\ worker'.at = "idle"
  <2>1. Idle \in Workers /\ Idle.at = "idle"
    BY DEF Idle, Workers
  <2> QED
    BY <1>1, <2>1 DEF Workers
<1>3. /\ reply' \in [1 .. Len(program) -> Replies] /\ reply'[c] = e
      /\ \A d \in 1 .. Len(program): d # c => reply'[d] = reply[d]
  BY <1>1
<1>4. HostType'
  BY <1>1, <1>2, <1>3 DEF HostType
<1>5. WorkerOK'
  BY <1>2 DEF WorkerOK
<1>6. ASSUME NEW d \in 1 .. Len(program)
      PROVE  ReplyOK(d)'
  <2>1. CASE d = c
    <3>1. ~(d > worker'.call \/ (d = worker'.call /\ worker'.at # "idle"))
      BY <1>1, <1>2, <2>1
    <3>2. program'[d] = Call /\ reply'[d] = e
      BY <1>3, <2>1 DEF Call
    <3>3. e.st = "done" => 1 .. Len(e.results) = {}
      OBVIOUS
    <3> QED
      BY <3>1, <3>2, <3>3 DEF ReplyOK
  <2>2. CASE d # c
    <3>1. ReplyOK(d)
      BY <1>1 DEF RepliesOK
    <3> QED
      BY <1>2, <1>3, <2>2, <3>1 DEF ReplyOK
  <2> QED
    BY <2>1, <2>2
<1>7. RepliesOK'
  BY <1>6 DEF RepliesOK
<1> QED
  BY <1>4, <1>5, <1>7 DEF HostOK

LEMMA ReplyKeepsHost ==
  ASSUME HostOK, Reply
  PROVE  HostOK'
<1> DEFINE done == worker.done \o [k \in DOMAIN worker.results |-> InOrder(worker.results[k])]
           c == worker.call
<1>1. /\ worker.at = "reply" /\ program' = program
      /\ IF worker.left # <<>>
         THEN worker' = Chunk([worker EXCEPT !.done = done], worker.left) /\ reply' = reply
         ELSE /\ reply' = [reply EXCEPT ![c] = [reply[c] EXCEPT !.results = done, !.st = "finalizing"]]
              /\ worker' = [Idle EXCEPT !.call = c]
  BY DEF Reply, At
<1>2. /\ done \in Seq(Results) /\ Len(done) \in Nat
      /\ Len(done) = Len(worker.done) + Len(worker.chunk)
      /\ \A k \in 1 .. Len(done): Complete(done[k], Call.pages[k], Call)
  BY <1>1, DoneAfter
<1>3. /\ worker \in Workers /\ worker.left \in Seq(Pages) /\ HostType /\ RepliesOK
      /\ Placed(worker, Call.pages) /\ worker.call > 0 /\ c \in 1 .. Len(program)
      /\ reply \in [1 .. Len(program) -> Replies]
      /\ worker.i \in 1 .. Len(worker.chunk) /\ Len(worker.chunk) \in Nat
      /\ worker.done \in Seq(Results)
  BY <1>1, PageInHand DEF HostOK, HostType, Workers, WorkerOK
<1>4. /\ Len(worker.done) + Len(worker.chunk) + Len(worker.left) = Len(Call.pages)
      /\ \A k \in 1 .. Len(worker.left):
           worker.left[k] = Call.pages[Len(worker.done) + Len(worker.chunk) + k]
  BY <1>3 DEF Placed
<1> HIDE DEF done
<1>5. CASE worker.left # <<>>
  <2> DEFINE w == [worker EXCEPT !.done = done]
  <2>1. w \in Workers /\ w.done = done /\ w.call = c
    BY <1>2, <1>3 DEF Workers
  <2>2. worker' = Chunk(w, worker.left) /\ reply' = reply
    BY <1>1, <1>5
  <2> HIDE DEF w
  <2>3. worker' \in Workers /\ worker'.call = c /\ worker'.at = "upload"
    BY <1>3, <1>5, <2>1, <2>2, ChunkIs
  <2>4. HostType'
    BY <1>1, <1>3, <2>2, <2>3 DEF HostType
  <2>5. DoneOK(w, Call) /\ Call = program[w.call]
    BY <1>2, <2>1 DEF DoneOK, Call
  <2>6. /\ Len(w.done) + Len(worker.left) = Len(Call.pages)
        /\ \A k \in 1 .. Len(worker.left): worker.left[k] = Call.pages[Len(w.done) + k]
    BY <1>2, <1>4, <2>1
  <2>7. WorkerOK'
    BY <1>1, <1>3, <1>5, <2>1, <2>2, <2>4, <2>5, <2>6, PartBegins
  <2>8. RepliesOK'
    BY <1>1, <1>3, <2>2, <2>3 DEF RepliesOK, ReplyOK
  <2> QED
    BY <2>4, <2>7, <2>8 DEF HostOK
<1>6. CASE worker.left = <<>>
  <2> DEFINE e == [reply[c] EXCEPT !.results = done, !.st = "finalizing"]
  <2>1. e \in Replies /\ e.results = done /\ e.st = "finalizing"
    <3>1. reply[c] \in Replies
      BY <1>3
    <3> QED
      BY <1>2, <3>1 DEF Replies
  <2>2. reply' = [reply EXCEPT ![c] = e] /\ worker' = [Idle EXCEPT !.call = c]
    BY <1>1, <1>6
  <2> HIDE DEF e
  <2>3. Len(done) = Len(Call.pages) /\ Len(done) >= 1
    <3>1. Len(worker.left) = 0 /\ Len(worker.chunk) >= 1 /\ Len(worker.done) \in Nat
      BY <1>3, <1>6
    <3> QED
      <4>1. \A x, y, z \in Nat: z = 0 /\ y >= 1 => x + y + z = x + y /\ x + y >= 1
        OBVIOUS
      <4>2. Len(worker.done) \in Nat /\ Len(worker.chunk) \in Nat /\ Len(worker.left) \in Nat
        BY <1>3
      <4> QED
        BY <1>2, <1>4, <3>1, <4>1, <4>2, Zenon
  <2>4. done # <<>>
    BY <2>3
  <2> QED
    BY <1>1, <1>2, <2>1, <2>2, <2>3, <2>4, CallEnds
<1> QED
  BY <1>5, <1>6

(* A call that ends with nothing to show, or a process that ends. *)
Halted ==
  \/ Answers("failed") \/ Answers("empty") \/ Answers("done")
  \/ exited' = TRUE /\ UNCHANGED <<reply, worker>>

LEMMA HaltKeepsHost ==
  ASSUME HostOK, worker.at # "idle", program' = program, Halted
  PROVE  HostOK'
<1>1. ASSUME NEW st \in {"failed", "empty", "done"}, Answers(st)
      PROVE  HostOK'
  <2> DEFINE c == worker.call
             e == [reply[c] EXCEPT !.st = st]
  <2>1. reply' = [reply EXCEPT ![c] = e] /\ worker' = [Idle EXCEPT !.call = c]
    BY <1>1 DEF Answers
  <2>2. c \in 1 .. Len(program) /\ reply[c] \in Replies
    BY PageInHand DEF HostOK, HostType
  <2>3. reply[c].results = <<>>
    BY <2>2 DEF HostOK, RepliesOK, ReplyOK
  <2>4. e \in Replies /\ e.results = <<>> /\ e.st = st
    BY <2>2, <2>3 DEF Replies
  <2> HIDE DEF e
  <2>5. 1 .. Len(e.results) = {}
    BY <2>4
  <2> QED
    BY <2>1, <2>4, <2>5, CallEnds
<1>2. CASE UNCHANGED <<reply, worker>>
  BY <1>2 DEF HostOK, HostType, WorkerOK, RepliesOK, ReplyOK, Call
<1> QED
  BY <1>1, <1>2 DEF Halted

LEMMA CudaErrorHalts ==
  ASSUME NEW code, CudaErrorAt(code)
  PROVE  Halted
<1>1. DetectionHandler(code) => Halted
  BY DEF DetectionHandler, Halted, Dies, EmptyAnswer, Throws
<1>2. StructureHandler(code) => Halted
  BY DEF StructureHandler, Halted, Dies, Throws
<1>3. InferHandler(code) => Halted
  BY DEF InferHandler, Halted, EmptyAnswer
<1>4. Escapes(code) => Halted
  BY DEF Escapes, Halted, Throws
<1> QED
  BY <1>1, <1>2, <1>3, <1>4 DEF CudaErrorAt

LEMMA EngineErrorHalts ==
  ASSUME NEW code, EngineErrorAt(code)
  PROVE  Halted
BY DEF EngineErrorAt, Escapes, Halted, Throws, Dies

----------------------------------------------------------------------------
(* The deferred crops, joined off the worker *)

(* A reply on its way: its results are there and complete. *)
LEMMA OnItsWayBack ==
  ASSUME HostOK, NEW c \in 1 .. Len(program), reply[c].st = "finalizing"
  PROVE  /\ reply[c] \in Replies /\ reply[c].results \in Seq(Results)
         /\ Len(reply[c].results) = Len(program[c].pages) /\ 1 \in 1 .. Len(reply[c].results)
         /\ \A k \in 1 .. Len(reply[c].results):
              /\ reply[c].results[k] \in Results
              /\ Complete(reply[c].results[k], program[c].pages[k], program[c])
         /\ program[c].kind = "single" => Len(reply[c].results) = 1
         /\ ~(c > worker.call \/ (c = worker.call /\ worker.at # "idle"))
<1>1. reply[c] \in Replies /\ ReplyOK(c) /\ HostType
  BY DEF HostOK, HostType, RepliesOK
<1>2. reply[c].results \in Seq(Results)
  BY <1>1 DEF Replies
<1>3. /\ reply[c].results # <<>> /\ Len(reply[c].results) = Len(program[c].pages)
      /\ \A k \in 1 .. Len(reply[c].results):
           Complete(reply[c].results[k], program[c].pages[k], program[c])
      /\ ~(c > worker.call \/ (c = worker.call /\ worker.at # "idle"))
  BY <1>1 DEF ReplyOK
<1>4. /\ program[c].kind # "batch" => Len(program[c].pages) = 1
      /\ Len(program[c].pages) > 0 /\ program[c].pages \in Seq(Pages)
  BY <1>1, CallShape
<1>5. 1 \in 1 .. Len(reply[c].results)
  BY <1>2, <1>3
<1>6. \A k \in 1 .. Len(reply[c].results): reply[c].results[k] \in Results
  BY <1>2
<1> QED
  BY <1>1, <1>2, <1>3, <1>4, <1>5, <1>6

LEMMA ReplySet ==
  ASSUME HostOK, NEW c \in 1 .. Len(program), reply[c].st = "finalizing",
         NEW e \in Replies, SetReply(c, e), e.st \in {"finalizing", "done"},
         Len(e.results) = Len(reply[c].results),
         \A k \in 1 .. Len(e.results): Complete(e.results[k], program[c].pages[k], program[c]),
         e.st = "done" =>
           \A k \in 1 .. Len(e.results): \A m \in Modalities: e.results[k].waiting[m] = <<>>
  PROVE  HostOK'
<1>1. /\ program' = program /\ worker' = worker /\ reply' = [reply EXCEPT ![c] = e]
  BY DEF SetReply
<1>2. reply \in [1 .. Len(program) -> Replies] /\ HostType /\ RepliesOK /\ WorkerOK
  BY DEF HostOK, HostType
<1>3. /\ reply' \in [1 .. Len(program) -> Replies] /\ reply'[c] = e
      /\ \A d \in 1 .. Len(program): d # c => reply'[d] = reply[d]
  BY <1>1, <1>2
<1>4. HostType' /\ WorkerOK'
  BY <1>1, <1>2, <1>3 DEF HostType, WorkerOK, Call
<1>5. e.results # <<>>
  BY OnItsWayBack
<1>6. ASSUME NEW d \in 1 .. Len(program)
      PROVE  ReplyOK(d)'
  <2>1. CASE d = c
    <3>1. Len(e.results) = Len(program[c].pages)
          /\ ~(c > worker.call \/ (c = worker.call /\ worker.at # "idle"))
      BY OnItsWayBack
    <3> QED
      BY <1>1, <1>3, <1>5, <2>1, <3>1 DEF ReplyOK
  <2>2. CASE d # c
    <3>1. ReplyOK(d)
      BY <1>2 DEF RepliesOK
    <3> QED
      BY <1>1, <1>3, <2>2, <3>1 DEF ReplyOK
  <2> QED
    BY <2>1, <2>2
<1>7. RepliesOK'
  BY <1>1, <1>6 DEF RepliesOK
<1> QED
  BY <1>4, <1>7 DEF HostOK

(* The first result goes on with one modality. *)
LEMMA FirstSet ==
  ASSUME HostOK, NEW c \in 1 .. Len(program), reply[c].st = "finalizing",
         NEW m \in Modalities, First(c).waiting[m] # <<>>,
         NEW q, RestAs(q, First(c), m),
         Settled(First(c), program[c], m) => Settled(q, program[c], m),
         SetReply(c, [reply[c] EXCEPT !.results = [reply[c].results EXCEPT ![1] = q]])
  PROVE  HostOK'
<1> DEFINE rs == [reply[c].results EXCEPT ![1] = q]
           e == [reply[c] EXCEPT !.results = rs]
           cl == program[c]
<1>1. /\ reply[c] \in Replies /\ reply[c].results \in Seq(Results)
      /\ 1 \in 1 .. Len(reply[c].results)
      /\ \A k \in 1 .. Len(reply[c].results):
           Complete(reply[c].results[k], cl.pages[k], cl)
  BY OnItsWayBack
<1>2. q \in Results
  BY DEF RestAs
<1>3. /\ rs \in Seq(Results) /\ Len(rs) = Len(reply[c].results) /\ rs[1] = q
      /\ \A k \in 1 .. Len(rs): k # 1 => rs[k] = reply[c].results[k]
  BY <1>1, <1>2
<1> HIDE DEF rs
<1>4. e \in Replies /\ e.results = rs /\ e.st = "finalizing"
  BY <1>1, <1>3 DEF Replies
<1> HIDE DEF cl
<1>5. Complete(First(c), cl.pages[1], cl)
  BY <1>1 DEF First
<1>6. Settled(First(c), cl, m) /\ cl.kind = "single"
  BY <1>5 DEF Complete, DefersAlone
<1>7. Complete(q, cl.pages[1], cl)
  BY <1>5, <1>6, CompleteKept DEF cl
<1>8. \A k \in 1 .. Len(rs): Complete(rs[k], cl.pages[k], cl)
  <2> TAKE k \in 1 .. Len(rs)
  <2>1. CASE k = 1
    BY <1>3, <1>7, <2>1
  <2>2. CASE k # 1
    BY <1>1, <1>3, <2>2
  <2> QED
    BY <2>1, <2>2
<1>9. SetReply(c, e)
  BY DEF rs
<1> HIDE DEF e
<1> QED
  BY <1>3, <1>4, <1>8, <1>9, ReplySet DEF cl

LEMMA ResolveKeepsHost ==
  ASSUME HostOK, NEW c \in 1 .. Len(program), Resolve(c)
  PROVE  HostOK'
<1>1. PICK m \in Modalities: \E k \in DOMAIN First(c).waiting[m]: \E v \in Outcome:
        /\ reply[c].st = "finalizing"
        /\ SetReply(c, [reply[c] EXCEPT !.results[1].waiting[m][k] = v])
  BY DEF Resolve
<1>2. PICK k \in DOMAIN First(c).waiting[m], v \in Outcome:
        /\ reply[c].st = "finalizing"
        /\ SetReply(c, [reply[c] EXCEPT !.results[1].waiting[m][k] = v])
  BY <1>1
<1> DEFINE q == [First(c) EXCEPT !.waiting[m][k] = v]
<1>3. First(c) \in Results
  BY <1>2, OnItsWayBack DEF First
<1>4. /\ RestAs(q, First(c), m) /\ First(c).waiting[m] # <<>>
      /\ Settled(First(c), program[c], m) => Settled(q, program[c], m)
  BY <1>3, ResolvedIs
<1>5. SetReply(c, [reply[c] EXCEPT !.results = [reply[c].results EXCEPT ![1] = q]])
  BY <1>2 DEF First
<1> HIDE DEF q
<1> QED
  BY <1>2, <1>4, <1>5, FirstSet

LEMMA JoinKeepsHost ==
  ASSUME HostOK, NEW c \in 1 .. Len(program), Join(c)
  PROVE  HostOK'
<1> DEFINE m == Pending(c)
           item == Joined(Head(First(c).waiting[m]))
           r == First(c)
           q == AfterJoin(r, m, item)
<1>1. /\ reply[c].st = "finalizing" /\ m # "none"
      /\ SetReply(c, [reply[c] EXCEPT !.results[1] = q])
  BY DEF Join, AfterJoin
<1>2. m \in Modalities /\ r.waiting[m] # <<>>
  BY <1>1, ModalityNames DEF Pending
<1>3. r \in Results
  BY <1>1, OnItsWayBack DEF First
<1>6. item = Joined(Head(r.waiting[m]))
  OBVIOUS
<1> HIDE DEF m, item, r
<1>4. RestAs(q, r, m) /\ (Settled(r, program[c], m) => Settled(q, program[c], m))
  BY <1>2, <1>3, <1>6, JoinedIs
<1>5. SetReply(c, [reply[c] EXCEPT !.results = [reply[c].results EXCEPT ![1] = q]])
  BY <1>1
<1> HIDE DEF q
<1> QED
  BY <1>1, <1>2, <1>4, <1>5, FirstSet DEF r

LEMMA FinishKeepsHost ==
  ASSUME HostOK, NEW c \in 1 .. Len(program), Finish(c) \/ DeadlinePasses(c)
  PROVE  HostOK'
<1>1. reply[c].st = "finalizing"
  BY DEF Finish, DeadlinePasses
<1>2. /\ reply[c] \in Replies /\ reply[c].results \in Seq(Results)
      /\ \A k \in 1 .. Len(reply[c].results):
           Complete(reply[c].results[k], program[c].pages[k], program[c])
      /\ program[c].kind = "single" => Len(reply[c].results) = 1
  BY <1>1, OnItsWayBack
<1>3. CASE Finish(c)
  <2> DEFINE e == [reply[c] EXCEPT !.st = "done"]
  <2>1. SetReply(c, e) /\ Pending(c) = "none"
    BY <1>3 DEF Finish
  <2>2. e \in Replies /\ e.results = reply[c].results /\ e.st = "done"
    BY <1>2 DEF Replies
  <2> HIDE DEF e
  <2>3. \A m \in Modalities: First(c).waiting[m] = <<>>
    BY <2>1 DEF Pending, Modalities
  <2>4. ASSUME NEW k \in 1 .. Len(reply[c].results), NEW m \in Modalities
        PROVE  reply[c].results[k].waiting[m] = <<>>
    <3>1. reply[c].results[k].waiting[m] # <<>> => program[c].kind = "single"
      BY <1>2 DEF Complete, DefersAlone
    <3>2. program[c].kind = "single" => k = 1
      BY <1>2
    <3> QED
      BY <2>3, <3>1, <3>2 DEF First
  <2> QED
    BY <1>1, <1>2, <2>1, <2>2, <2>4, ReplySet
<1>4. CASE DeadlinePasses(c)
  <2> DEFINE e == [reply[c] EXCEPT !.late = TRUE]
  <2>1. SetReply(c, e)
    BY <1>4 DEF DeadlinePasses
  <2>2. e \in Replies /\ e.results = reply[c].results /\ e.st = "finalizing"
    BY <1>1, <1>2 DEF Replies
  <2> HIDE DEF e
  <2> QED
    BY <1>1, <1>2, <2>1, <2>2, ReplySet
<1> QED
  BY <1>3, <1>4

(* Every step keeps the host's part of the invariant. *)
LEMMA HostStep ==
  ASSUME HostOK, DeviceOK, PixelsOK, [Next]_vars
  PROVE  HostOK'
<1>1. CASE Upload \/ DecodeOnDevice \/ SettleUpload \/ Classify
  <2>1. /\ worker.at \in {"upload", "settle", "classify"} /\ program' = program /\ reply' = reply
        /\ worker' = Moved
    BY <1>1 DEF Upload, DecodeOnDevice, SettleUpload, Classify, At, Untouched
  <2> QED
    BY <2>1, MovedIs, QuietStage
<1>2. CASE EnqueueLayout \/ LayoutRefused
  <2>1. PICK e \in BOOLEAN: worker' = [Moved EXCEPT !.enqueued = e]
    BY <1>2 DEF EnqueueLayout, LayoutRefused
  <2>2. worker.at = "layout" /\ program' = program /\ reply' = reply
    BY <1>2 DEF EnqueueLayout, LayoutRefused, At, Untouched
  <2>3. OnItsWay(worker') /\ worker'.results = worker.results
    BY <2>1, <2>2, MovedIs
  <2> QED
    BY <2>2, <2>3, QuietStage
<1>3. CASE Detect
  BY <1>3, DetectKeepsHost
<1>4. CASE Recognise
  BY <1>4, RecogniseKeepsHost
<1>5. CASE Collect
  BY <1>5, CollectKeepsHost
<1>6. CASE Infer
  BY <1>6, HaltKeepsHost DEF Infer, At, Halted
<1>7. CASE Reply
  BY <1>7, ReplyKeepsHost
<1>8. CASE \E m \in Modalities: RunStage(m)
  BY <1>8, RunStageKeepsHost
<1>9. CASE \E m \in Modalities: SubmitStage(m)
  <2>1. PICK m \in Modalities: SubmitStage(m)
    BY <1>9
  <2>2. /\ worker.at = m /\ Deferred(m) /\ program' = program /\ reply' = reply
        /\ worker' = MovedWith(Submitted(m, Wanted(m)))
    BY <2>1 DEF SubmitStage, At, Untouched
  <2>3. Wanted(m) \in 0 .. Wanted(m)
    BY <2>2, StageAsked
  <2> QED
    BY <2>2, <2>3, SubmitKeepsHost
<1>10. CASE \E m \in Modalities: SubmitFails(m)
  <2>1. PICK m \in Modalities: SubmitFails(m)
    BY <1>10
  <2>2. /\ worker.at = m /\ Deferred(m) /\ program' = program /\ reply' = reply
        /\ worker' = MovedWith(Submitted(m, 0))
    BY <2>1 DEF SubmitFails
  <2>3. 0 \in 0 .. Wanted(m)
    BY <2>2, StageAsked
  <2> QED
    BY <2>2, <2>3, SubmitKeepsHost
<1>11. CASE StartCall
  BY <1>11, StartKeepsHost
<1>12. CASE \/ MeetsOldError \/ ApiFails \/ LaunchFails \/ EngineFails \/ CopyRefused
            \/ UploadOutOfMemory \/ BackendUnavailable
  <2>1. worker.at # "idle" /\ program' = program
    BY <1>12 DEF MeetsOldError, ApiFails, LaunchFails, EngineFails, CopyRefused,
         UploadOutOfMemory, BackendUnavailable, NewFault, Working
  <2>2. Halted
    BY <1>12, CudaErrorHalts, EngineErrorHalts
       DEF MeetsOldError, ApiFails, LaunchFails, EngineFails, CopyRefused,
         UploadOutOfMemory, BackendUnavailable, Throws, Halted
  <2> QED
    BY <2>1, <2>2, HaltKeepsHost
<1>13. CASE Rebuild \/ CopyRuns \/ UNCHANGED vars
  <2>1. UNCHANGED <<program, reply, worker>>
    BY <1>13 DEF Rebuild, CopyRuns, Untouched, vars
  <2> QED
    BY <2>1 DEF HostOK, HostType, WorkerOK, RepliesOK, ReplyOK, Call
<1>14. CASE \E c \in DOMAIN program: Resolve(c) \/ DeadlinePasses(c) \/ Join(c) \/ Finish(c)
  <2>1. DOMAIN program = 1 .. Len(program)
    BY DEF HostOK, HostType
  <2> QED
    BY <1>14, <2>1, ResolveKeepsHost, JoinKeepsHost, FinishKeepsHost
<1> QED
  BY <1>1, <1>2, <1>3, <1>4, <1>5, <1>6, <1>7, <1>8, <1>9, <1>10, <1>11, <1>12, <1>13, <1>14
     DEF Next, Stage, Fault, Finalize

----------------------------------------------------------------------------
(* The pixels after a step *)

(* A step that leaves the worker in its stage and the device alone. *)
LEMMA SamePixels ==
  ASSUME PixelsOK, UNCHANGED <<program, worker, bufs, cur, pinned, copies, layout, exited>>
  PROVE  PixelsOK'
BY DEF PixelsOK, Arrives, Uploading, Batched, Call, Page, Buf, ImgBuf, OnlyStructure

(* What the pixels' invariant says of the worker, the stage's name apart. *)
LEMMA NoPixels ==
  ASSUME worker'.at = "idle" \/ exited' = TRUE
  PROVE  PixelsOK'
BY DEF PixelsOK

LEMMA HaltLosesPixels ==
  ASSUME HostOK, worker.at # "idle", Halted
  PROVE  worker'.at = "idle" \/ exited' = TRUE
<1>1. ASSUME NEW st, Answers(st)
      PROVE  worker'.at = "idle"
  BY <1>1 DEF Answers, Idle
<1> QED
  BY <1>1 DEF Halted

(* The names used by the pixels' invariant, after a step within the part. *)
LEMMA SameNames ==
  ASSUME program' = program, Goes(worker')
  PROVE  /\ Call' = Call /\ (Batched' <=> Batched)
         /\ Page' = worker.chunk[NextIndex]
         /\ (cur' = cur => ImgBuf' = ImgBuf)
         /\ Buf' = IF Batched THEN <<"batch", NextIndex>> ELSE ImgBuf'
BY DEF Goes, Call, Batched, Page, ImgBuf, Buf

(* A stage after the uploads that leaves the buffers alone. *)
LEMMA StillPixels ==
  ASSUME HostOK, PixelsOK, worker.at # "idle", ~exited,
         worker.at \notin {"upload", "settle", "infer", "reply"},
         program' = program, Goes(worker'),
         UNCHANGED <<bufs, cur, pinned, copies, exited>>,
         ~OnlyStructure(Call) => copies = <<>>,
         worker'.enqueued /\ (worker'.at = "collect"
           \/ (~Batched /\ worker'.at \in {"classify", "recognise"})) => layout'.input = Buf
  PROVE  PixelsOK'
<1>1. /\ Call' = Call /\ (Batched' <=> Batched) /\ ImgBuf' = ImgBuf
      /\ Page' = worker.chunk[NextIndex]
      /\ Buf' = IF Batched THEN <<"batch", NextIndex>> ELSE ImgBuf
  BY SameNames
<1>2. worker'.at \notin {"upload", "settle", "detect"} /\ worker'.at = NextStage
      /\ worker'.chunk = worker.chunk
  <2>1. NextStage \notin {"upload", "settle", "detect"}
    <3>1. worker.at \in {"detect", "layout", "classify", "recognise", "collect", "table", "formula"}
      BY DEF HostOK, HostType, Workers, Stages
    <3> QED
      BY <3>1, Path
  <2> QED
    BY <2>1 DEF Goes
<1>3. ~Batched => Page' = Page
  BY <1>1, PageInHand, PathIndex DEF Page
<1>4. worker'.at = "collect" \/ ~Batched => Buf' = Buf
  <2>1. CASE ~Batched
    BY <1>1, <2>1 DEF Buf
  <2>2. CASE worker'.at = "collect"
    <3>1. worker.at \notin {"settle", "formula"}
      BY <1>2, <2>2, Path
    <3> QED
      BY <1>1, <3>1, PathIndex DEF Buf
  <2> QED
    BY <2>1, <2>2
<1>5. ~Batched => Arrives(ImgBuf, Page)
  BY DEF PixelsOK
<1>6. Batched => \A k \in 1 .. Len(worker.chunk): bufs[<<"batch", k>>].page = worker.chunk[k]
  BY DEF PixelsOK, Uploading
<1>7. ~Batched' => Arrives(ImgBuf, Page)'
  BY <1>1, <1>3, <1>5 DEF Arrives
<1>8. Batched' => \A k \in 1 .. Len(worker'.chunk): bufs'[<<"batch", k>>].page = worker'.chunk[k]
  BY <1>1, <1>2, <1>6
<1>9. ~OnlyStructure(Call') => copies' = <<>>
  BY <1>1
<1>10. worker'.enqueued /\ (worker'.at = "collect"
           \/ (~Batched' /\ worker'.at \in {"classify", "recognise"})) => layout'.input = Buf'
  BY <1>1, <1>4
<1> QED
  BY <1>2, <1>7, <1>8, <1>9, <1>10 DEF PixelsOK, Uploading

LEMMA UploadKeepsPixels ==
  ASSUME HostOK, DeviceOK, PixelsOK, Upload
  PROVE  PixelsOK'
<1> DEFINE c == [to |-> TargetImg, rows |-> Rows[Page]]
<1>1. /\ worker.at = "upload" /\ worker.at # "idle" /\ ~exited /\ program' = program
      /\ exited' = exited /\ worker' = Moved /\ copies' = Append(copies, c) /\ cur' = Toggled
      /\ pinned' = [Grown(pinned, Rows[Page]) EXCEPT !.page = Page]
      /\ bufs' = [bufs EXCEPT ![TargetImg] = Grown(bufs[TargetImg], Rows[Page])]
  BY DEF Upload, Staged, At, Working, Untouched
<1>2. OnItsWay(worker') /\ worker'.enqueued = worker.enqueued
  BY <1>1, MovedIs
<1>3. /\ worker'.at = (IF Batched THEN "settle" ELSE IF Reads(Call) THEN "detect"
                       ELSE IF Call.kind = "infer" THEN "infer" ELSE "layout")
      /\ NextIndex = worker.i /\ worker'.i = worker.i /\ worker'.chunk = worker.chunk
  BY <1>1, <1>2, Path, PathIndex DEF OnItsWay, Goes
<1>4. Call' = Call /\ (Batched' <=> Batched) /\ Page' = Page
  BY <1>1, <1>2, <1>3, SameNames DEF Page, OnItsWay
<1>5. Buf' = TargetImg
  BY <1>1, <1>3, <1>4 DEF Buf, ImgBuf, TargetImg, Toggled
<1>6. /\ copies \in Seq(Copies) /\ pinned \in Buffers /\ Held(pinned) /\ Rows[Page] \in Nat \ {0}
      /\ bufs \in [BufIds -> Buffers] /\ worker.i \in 1 .. MaxBatchImages
      /\ \A k \in 1 .. Len(worker.chunk): k \in 1 .. MaxBatchImages
      /\ Len(copies) \in Nat
  <2>1. Len(worker.chunk) \in Nat /\ Len(worker.chunk) <= MaxBatchImages
    BY <1>1, PageInHand
  <2> QED
    BY <1>1, <2>1, PageInHand, BatchAssumption DEF DeviceOK, DeviceType, MemoryOK
<1>7. pinned'.page = Page
  <2>1. Grown(pinned, Rows[Page]) \in Buffers
    BY <1>6, GrownFits
  <2> QED
    BY <1>1, <2>1 DEF Buffers
<1> HIDE DEF c
<1>8. copies' # <<>> /\ copies'[Len(copies')] = c
  <2>1. copies' \in Seq(Copies \union {c}) /\ Len(copies') = Len(copies) + 1
        /\ copies'[Len(copies) + 1] = c
    BY <1>1, <1>6
  <2> QED
    BY <1>6, <2>1
<1>9. Arrives(Buf, Page)'
  BY <1>4, <1>5, <1>7, <1>8 DEF Arrives, c
<1>10. ~Batched => Arrives(ImgBuf, Page)'
  BY <1>4, <1>9 DEF Buf
<1>11. Batched => \A k \in 1 .. Len(worker.chunk):
         k < worker.i => bufs'[<<"batch", k>>].page = worker.chunk[k]
  <2> SUFFICES ASSUME Batched, NEW k \in 1 .. Len(worker.chunk), k < worker.i
               PROVE  bufs'[<<"batch", k>>].page = worker.chunk[k]
    OBVIOUS
  <2>1. bufs[<<"batch", k>>].page = worker.chunk[k]
    BY <1>1 DEF PixelsOK
  <2>2. k # worker.i /\ k \in 1 .. MaxBatchImages
    BY <1>6
  <2>3. TargetImg = <<"batch", worker.i>> /\ <<"batch", k>> # TargetImg /\ <<"batch", k>> \in BufIds
    BY <1>6, <2>2, BufferNames DEF TargetImg
  <2> QED
    BY <1>1, <1>6, <2>1, <2>3
<1>12. ASSUME worker.i > 1
       PROVE  \A j \in 1 .. Len(copies'): copies'[j].to = Buf'
  <2>1. copies = <<>>
    BY <1>1, <1>12 DEF PixelsOK
  <2>2. copies' = <<c>>
    BY <1>1, <2>1
  <2> QED
    BY <1>5, <2>2 DEF c
<1>13. ~worker'.enqueued
  BY <1>1, <1>2 DEF PixelsOK
<1>14. CASE Batched
  <2>1. worker'.at = "settle"
    BY <1>3, <1>14
  <2> QED
    BY <1>3, <1>4, <1>9, <1>11, <1>12, <1>13, <1>14, <2>1 DEF PixelsOK, Uploading
<1>15. CASE ~Batched
  <2>1. worker'.at \in {"detect", "infer", "layout"}
        /\ (worker'.at = "detect" \/ OnlyStructure(Call) \/ Call.kind = "infer")
    BY <1>3, <1>15, PageInHand, <1>1 DEF Reads, OnlyStructure
  <2> QED
    BY <1>4, <1>10, <1>13, <1>15, <2>1 DEF PixelsOK, Uploading
<1> QED
  BY <1>14, <1>15

LEMMA DecodeKeepsPixels ==
  ASSUME HostOK, DeviceOK, PixelsOK, DecodeOnDevice
  PROVE  PixelsOK'
<1> DEFINE g == Grown(bufs[ImgBuf], Rows[Page])
<1>1. /\ worker.at = "upload" /\ worker.at # "idle" /\ ~exited /\ program' = program
      /\ exited' = exited /\ worker' = Moved /\ copies' = <<>> /\ cur' = cur
      /\ Call.kind = "device"
      /\ bufs' = [bufs EXCEPT ![ImgBuf] = [g EXCEPT !.page = Page]]
  BY DEF DecodeOnDevice, At, Working, Untouched
<1>2. OnItsWay(worker') /\ worker'.enqueued = worker.enqueued /\ ~Batched
  BY <1>1, MovedIs DEF Batched
<1>3. worker'.at = "detect" /\ NextIndex = worker.i /\ worker'.i = worker.i
      /\ worker'.chunk = worker.chunk
  BY <1>1, <1>2, Path, PathIndex DEF OnItsWay, Goes, Reads
<1>4. Call' = Call /\ ~Batched' /\ Page' = Page /\ ImgBuf' = ImgBuf
  BY <1>1, <1>2, <1>3, SameNames DEF Page, OnItsWay
<1>5. /\ bufs \in [BufIds -> Buffers] /\ ImgBuf \in BufIds /\ Held(bufs[ImgBuf])
      /\ bufs[ImgBuf] \in Buffers /\ Rows[Page] \in Nat \ {0}
  <2>1. DeviceType /\ MemoryOK /\ ImgBuf \in BufIds
    BY BufferNames DEF DeviceOK, DeviceType, ImgBuf
  <2>2. Held(bufs[ImgBuf])
    BY <2>1 DEF MemoryOK
  <2>3. Rows[Page] \in Nat \ {0}
    BY <1>1, PageInHand
  <2> QED
    BY <2>1, <2>2, <2>3 DEF DeviceType
<1>6. g \in Buffers
  BY <1>5, GrownFits
<1> HIDE DEF g
<1>7. bufs'[ImgBuf].page = Page
  BY <1>1, <1>5, <1>6 DEF Buffers
<1>8. Arrives(ImgBuf, Page)'
  BY <1>1, <1>4, <1>7 DEF Arrives
<1>9. ~worker'.enqueued
  BY <1>1, <1>2 DEF PixelsOK
<1> QED
  BY <1>1, <1>3, <1>4, <1>8, <1>9 DEF PixelsOK

LEMMA SettleKeepsPixels ==
  ASSUME HostOK, DeviceOK, PixelsOK, SettleUpload
  PROVE  PixelsOK'
<1>1. /\ worker.at = "settle" /\ worker.at # "idle" /\ ~exited /\ program' = program
      /\ exited' = exited /\ worker' = Moved /\ copies = <<>>
      /\ UNCHANGED <<bufs, cur, pinned, copies, layout>>
  BY DEF SettleUpload, At, Working, Untouched, StagingFree, device
<1>2. OnItsWay(worker') /\ worker'.enqueued = worker.enqueued
  BY <1>1, MovedIs
<1>3. Batched
  BY <1>1 DEF HostOK, WorkerOK, StageFits, InBatch, Batched
<1>4. /\ worker'.at = NextStage /\ worker'.i = NextIndex /\ worker'.chunk = worker.chunk
      /\ NextStage = (IF worker.i = Len(worker.chunk) THEN "detect" ELSE "upload")
      /\ NextIndex = (IF worker.i = Len(worker.chunk) THEN 1 ELSE worker.i + 1)
  BY <1>1, <1>2, Path, PathIndex DEF OnItsWay, Goes
<1>5. Call' = Call /\ Batched'
  BY <1>1, <1>2, <1>3, SameNames DEF OnItsWay
<1>6. worker.i \in 1 .. Len(worker.chunk) /\ Len(worker.chunk) \in Nat
  BY <1>1, PageInHand
<1>7. bufs[<<"batch", worker.i>>].page = worker.chunk[worker.i]
  BY <1>1, <1>3 DEF PixelsOK, Arrives, Buf, Page
<1>8. \A k \in 1 .. Len(worker.chunk): k < worker.i => bufs[<<"batch", k>>].page = worker.chunk[k]
  BY <1>1, <1>3 DEF PixelsOK
<1>9. ASSUME NEW k \in 1 .. Len(worker'.chunk), k < worker'.i \/ ~Uploading'
      PROVE  bufs'[<<"batch", k>>].page = worker'.chunk[k]
  <2>1. k <= worker.i
    BY <1>4, <1>6, <1>9 DEF Uploading
  <2>2. k < worker.i \/ k = worker.i
    BY <1>4, <1>6, <2>1
  <2> QED
    BY <1>1, <1>4, <1>7, <1>8, <2>2
<1>10. ~worker'.enqueued
  BY <1>1, <1>2 DEF PixelsOK
<1> QED
  BY <1>1, <1>4, <1>5, <1>9, <1>10 DEF PixelsOK

LEMMA ArrivesKept ==
  ASSUME DeviceOK, CopyRuns, NEW b \in BufIds, NEW p \in Pages, Arrives(b, p)
  PROVE  IF copies' = <<>> THEN bufs'[b].page = p
         ELSE copies'[Len(copies')] = [to |-> b, rows |-> Rows[p]] /\ pinned'.page = p
<1>1. /\ copies # <<>> /\ copies' = Tail(copies) /\ pinned' = pinned
      /\ bufs' = [bufs EXCEPT ![Head(copies).to].page =
                IF pinned.page # NoPage /\ Rows[pinned.page] = Head(copies).rows
                THEN pinned.page ELSE NoPage]
  BY DEF CopyRuns
<1>2. copies \in Seq(Copies) /\ bufs \in [BufIds -> Buffers]
  BY DEF DeviceOK, DeviceType
<1>3. /\ Len(copies) \in Nat /\ Len(copies) >= 1 /\ Head(copies) = copies[1]
      /\ Len(copies') = Len(copies) - 1 /\ copies' \in Seq(Copies)
      /\ \A k \in 1 .. Len(copies'): copies'[k] = copies[k + 1]
  BY <1>1, <1>2
<1>4. copies[Len(copies)] = [to |-> b, rows |-> Rows[p]] /\ pinned.page = p
  BY <1>1 DEF Arrives
<1>5. CASE Len(copies) = 1
  <2>1. copies' = <<>>
    BY <1>3, <1>5
  <2>2. Head(copies).to = b /\ Head(copies).rows = Rows[p]
    BY <1>3, <1>4, <1>5
  <2>3. pinned.page # NoPage
    BY <1>4, PagesAssumption
  <2>4. bufs[b] \in Buffers
    BY <1>2
  <2>5. bufs' = [bufs EXCEPT ![b] = [bufs[b] EXCEPT !.page = p]]
    BY <1>1, <1>4, <2>2, <2>3
  <2>6. bufs'[b].page = p
    BY <1>2, <2>4, <2>5 DEF Buffers
  <2> QED
    BY <2>1, <2>6
<1>6. CASE Len(copies) # 1
  <2>1. Len(copies') >= 1 /\ Len(copies') \in 1 .. Len(copies')
        /\ Len(copies') + 1 = Len(copies)
    BY <1>3, <1>6
  <2>2. copies'[Len(copies')] = copies[Len(copies)] /\ copies' # <<>>
    BY <1>3, <2>1
  <2> QED
    BY <1>1, <1>4, <2>2
<1> QED
  BY <1>5, <1>6

LEMMA CopyKeepsPixels ==
  ASSUME HostOK, DeviceOK, PixelsOK, CopyRuns
  PROVE  PixelsOK'
<1>1. /\ UNCHANGED <<program, worker, cur, pinned, layout, exited>> /\ copies # <<>>
      /\ copies' = Tail(copies)
      /\ bufs' = [bufs EXCEPT ![Head(copies).to].page =
                IF pinned.page # NoPage /\ Rows[pinned.page] = Head(copies).rows
                THEN pinned.page ELSE NoPage]
  BY DEF CopyRuns, Untouched
<1> SUFFICES ASSUME worker.at # "idle", ~exited
             PROVE  PixelsOK'
  BY <1>1 DEF PixelsOK
<1>2. /\ Call' = Call /\ (Batched' <=> Batched) /\ Page' = Page /\ ImgBuf' = ImgBuf /\ Buf' = Buf
      /\ (Uploading' <=> Uploading)
  BY <1>1 DEF Call, Batched, Page, ImgBuf, Buf, Uploading
<1>3. /\ Page \in Pages /\ ImgBuf \in BufIds /\ Buf \in BufIds
      /\ copies \in Seq(Copies) /\ bufs \in [BufIds -> Buffers]
      /\ Len(worker.chunk) \in Nat /\ Len(worker.chunk) <= MaxBatchImages
      /\ worker.i \in 1 .. Len(worker.chunk)
  <2>1. worker.i \in 1 .. MaxBatchImages
    BY PageInHand, BatchAssumption
  <2>2. cur \in {0, 1}
    BY DEF DeviceOK, DeviceType
  <2> QED
    BY <2>1, <2>2, PageInHand, BufferNames DEF Buf, ImgBuf, DeviceOK, DeviceType
<1>4. /\ Head(copies) = copies[1] /\ Len(copies) \in Nat /\ Len(copies) >= 1
      /\ Len(copies') = Len(copies) - 1
      /\ \A k \in 1 .. Len(copies'): copies'[k] = copies[k + 1]
  BY <1>1, <1>3
<1>5. (~Batched /\ worker.at # "upload") => Arrives(ImgBuf, Page)'
  <2>1. (~Batched /\ worker.at # "upload") => Arrives(ImgBuf, Page)
    BY DEF PixelsOK
  <2> QED
    BY <1>2, <1>3, <2>1, ArrivesKept DEF Arrives
<1>6. worker.at = "settle" => Arrives(Buf, Page)'
  <2>1. worker.at = "settle" => Arrives(Buf, Page)
    BY DEF PixelsOK
  <2> QED
    BY <1>2, <1>3, <2>1, ArrivesKept DEF Arrives
<1>7. ASSUME Batched, NEW k \in 1 .. Len(worker.chunk), k < worker.i \/ ~Uploading
      PROVE  bufs'[<<"batch", k>>].page = worker.chunk[k]
  <2>1. bufs[<<"batch", k>>].page = worker.chunk[k]
    BY <1>7 DEF PixelsOK
  <2>2. Uploading /\ k < worker.i
    <3>1. ~Uploading => copies = <<>>
      BY <1>7 DEF PixelsOK, OnlyStructure, Batched
    <3> QED
      BY <1>1, <1>7, <3>1
  <2>3. worker.i > 1
    BY <1>3, <2>2
  <2>4. worker.at = "settle"
    BY <1>1, <2>2, <2>3 DEF Uploading, PixelsOK
  <2>5. Head(copies).to = Buf
    <3>1. 1 \in 1 .. Len(copies)
      BY <1>4
    <3>2. \A j \in 1 .. Len(copies): copies[j].to = Buf
      BY <2>3, <2>4 DEF PixelsOK
    <3> QED
      BY <1>4, <3>1, <3>2
  <2>6. <<"batch", k>> # Buf /\ <<"batch", k>> \in BufIds
    <3>1. k \in 1 .. MaxBatchImages /\ worker.i \in 1 .. MaxBatchImages /\ k # worker.i
      BY <1>3, <2>2, BatchAssumption
    <3> QED
      BY <1>7, <3>1, BufferNames DEF Buf
  <2> QED
    BY <1>1, <1>3, <2>1, <2>5, <2>6
<1>8. ASSUME worker.at = "settle", worker.i > 1, NEW j \in 1 .. Len(copies')
      PROVE  copies'[j].to = Buf
  <2>1. j + 1 \in 1 .. Len(copies)
    BY <1>4
  <2>2. \A k \in 1 .. Len(copies): copies[k].to = Buf
    BY <1>8 DEF PixelsOK
  <2> QED
    BY <1>4, <2>1, <2>2
<1>9. /\ ~(/\ ~OnlyStructure(Call) /\ Call.kind # "infer"
           /\ ~Uploading /\ (Batched \/ worker.at # "detect"))
      /\ ~(worker.at = "upload" /\ worker.i > 1)
      /\ worker.at \in {"upload", "settle", "detect"} => ~worker.enqueued
      /\ (/\ worker.enqueued
          /\ worker.at = "collect" \/ (~Batched /\ worker.at \in {"classify", "recognise"}))
         => layout.input = Buf
  BY <1>1 DEF PixelsOK
<1> QED
  BY <1>1, <1>2, <1>5, <1>6, <1>7, <1>8, <1>9 DEF PixelsOK

(* The worker's next place, whatever a stage makes of the results. *)
LEMMA MovesOn ==
  ASSUME HostOK, worker.at # "idle"
  PROVE  /\ Goes(Moved) /\ Moved.enqueued = worker.enqueued
         /\ \A e: Goes([Moved EXCEPT !.enqueued = e]) /\ [Moved EXCEPT !.enqueued = e].enqueued = e
         /\ \A rs: /\ Goes([Moved EXCEPT !.results = rs])
                   /\ [Moved EXCEPT !.results = rs].enqueued = worker.enqueued
         /\ \A r: Goes(MovedWith(r)) /\ MovedWith(r).enqueued = worker.enqueued
<1>1. worker \in Workers
  BY DEF HostOK, HostType
<1>2. Goes(Moved) /\ Moved.enqueued = worker.enqueued
  BY <1>1 DEF Moved, Workers, Goes
<1>3. \A e: Goes([Moved EXCEPT !.enqueued = e]) /\ [Moved EXCEPT !.enqueued = e].enqueued = e
  BY <1>1 DEF Moved, Workers, Goes
<1>4. \A rs: /\ Goes([Moved EXCEPT !.results = rs])
             /\ [Moved EXCEPT !.results = rs].enqueued = worker.enqueued
  BY <1>1 DEF Moved, Workers, Goes
<1>5. \A r: Goes(MovedWith(r)) /\ MovedWith(r).enqueued = worker.enqueued
  BY <1>1 DEF MovedWith, Moved, Workers, Goes
<1> QED
  BY <1>2, <1>3, <1>4, <1>5

(* A stage after the uploads, the one that enqueues the layout apart, leaves
   the layout's buffer as it was. *)
LEMMA ReadingPixels ==
  ASSUME HostOK, PixelsOK, worker.at # "idle", ~exited,
         worker.at \in {"detect", "classify", "recognise", "collect", "table", "formula"},
         worker.at = "detect" => copies = <<>>,
         program' = program, Goes(worker'), worker'.enqueued = worker.enqueued,
         UNCHANGED <<device, exited>>
  PROVE  PixelsOK'
<1>1. UNCHANGED <<bufs, cur, pinned, copies, layout, exited>>
  BY DEF device
<1>2. /\ worker.at \notin {"upload", "settle", "infer", "reply"}
      /\ worker'.at = NextStage
  BY DEF Goes
<1>3. ~OnlyStructure(Call) => copies = <<>>
  <2>1. CASE worker.at = "detect"
    BY <2>1
  <2>2. CASE worker.at # "detect"
    <3>1. Call.kind # "infer" /\ ~Uploading
      BY <2>2 DEF HostOK, WorkerOK, StageFits, Uploading
    <3> QED
      BY <2>2, <3>1 DEF PixelsOK
  <2> QED
    BY <2>1, <2>2
<1>4. worker'.enqueued /\ (worker'.at = "collect"
        \/ (~Batched /\ worker'.at \in {"classify", "recognise"})) => layout'.input = Buf
  <2> SUFFICES ASSUME worker.enqueued,
                      worker'.at = "collect" \/ (~Batched /\ worker'.at \in {"classify", "recognise"})
               PROVE  layout.input = Buf
    BY <1>1
  <2>1. worker.at # "detect"
    BY DEF PixelsOK
  <2>2. worker.at \in {"classify", "recognise"} /\ ~Batched
    BY <1>2, <2>1, Path
  <2> QED
    BY <2>2 DEF PixelsOK
<1> QED
  BY <1>1, <1>2, <1>3, <1>4, StillPixels

LEMMA EnqueueKeepsPixels ==
  ASSUME HostOK, PixelsOK, EnqueueLayout \/ LayoutRefused
  PROVE  PixelsOK'
<1>1. /\ worker.at = "layout" /\ worker.at # "idle" /\ ~exited /\ program' = program
      /\ UNCHANGED <<bufs, cur, pinned, copies, exited>>
  BY DEF EnqueueLayout, LayoutRefused, At, NewFault, Working, Untouched
<1>2. Goes(worker') /\ (worker'.enqueued => layout'.input = Buf)
  <2>1. CASE EnqueueLayout
    BY <1>1, <2>1, MovesOn DEF EnqueueLayout
  <2>2. CASE LayoutRefused
    BY <1>1, <2>2, MovesOn DEF LayoutRefused
  <2> QED
    BY <2>1, <2>2
<1>3. ~OnlyStructure(Call) => copies = <<>>
  <2>1. Call.kind # "infer" /\ ~Uploading
    BY <1>1 DEF HostOK, WorkerOK, StageFits, Uploading
  <2> QED
    BY <1>1, <2>1 DEF PixelsOK
<1> QED
  BY <1>1, <1>2, <1>3, StillPixels

(* A part of a call begins with nothing known of the buffers. *)
LEMMA BeginsWithoutPixels ==
  ASSUME worker'.at = "upload", worker'.i = 1, worker'.enqueued = FALSE
  PROVE  PixelsOK'
<1>1. Uploading' /\ ~(\E k \in 1 .. Len(worker'.chunk): k < worker'.i)
  BY DEF Uploading
<1> QED
  BY <1>1 DEF PixelsOK

LEMMA ReplyKeepsPixels ==
  ASSUME HostOK, PixelsOK, Reply
  PROVE  PixelsOK'
<1> DEFINE done == worker.done \o [k \in DOMAIN worker.results |-> InOrder(worker.results[k])]
           w == [worker EXCEPT !.done = done]
<1>1. /\ worker.left # <<>> => worker' = Chunk(w, worker.left)
      /\ worker.left = <<>> => worker' = [Idle EXCEPT !.call = worker.call]
  BY DEF Reply
<1>2. worker \in Workers
  BY DEF HostOK, HostType
<1>3. CASE worker.left # <<>>
  <2>1. worker'.at = "upload" /\ worker'.i = 1 /\ worker'.enqueued = FALSE
    BY <1>1, <1>2, <1>3 DEF Chunk, Workers
  <2> QED
    BY <2>1, BeginsWithoutPixels
<1>4. CASE worker.left = <<>>
  BY <1>1, <1>4, NoPixels DEF Idle
<1> QED
  BY <1>3, <1>4

(* Every step keeps the pixels' part of the invariant. *)
LEMMA PixelsStep ==
  ASSUME HostOK, DeviceOK, PixelsOK, [Next]_vars
  PROVE  PixelsOK'
<1>1. CASE Detect \/ Classify \/ Recognise \/ Collect
  <2>1. /\ worker.at \in {"detect", "classify", "recognise", "collect"}
        /\ worker.at # "idle" /\ ~exited /\ program' = program
        /\ UNCHANGED <<device, exited>>
        /\ worker.at = "detect" => copies = <<>>
    BY <1>1 DEF Detect, Classify, Recognise, Collect, At, Working, Untouched
  <2>2. Goes(worker') /\ worker'.enqueued = worker.enqueued
    <3>1. CASE Detect
      BY <2>1, <3>1, MovesOn DEF Detect
    <3>2. CASE Classify
      BY <2>1, <3>2, MovesOn DEF Classify
    <3>3. CASE Recognise
      <4>1. PICK rs: worker' = [Moved EXCEPT !.results = rs]
        BY <3>3 DEF Recognise
      <4> QED
        BY <2>1, <4>1, MovesOn
    <3>4. CASE Collect
      BY <2>1, <3>4, MovesOn DEF Collect
    <3> QED
      BY <1>1, <3>1, <3>2, <3>3, <3>4
  <2> QED
    BY <2>1, <2>2, ReadingPixels
<1>2. CASE \E m \in Modalities: RunStage(m) \/ SubmitStage(m) \/ SubmitFails(m)
  <2>1. PICK m \in Modalities: RunStage(m) \/ SubmitStage(m) \/ SubmitFails(m)
    BY <1>2
  <2>2. /\ worker.at = m /\ worker.at # "idle" /\ ~exited /\ program' = program
        /\ UNCHANGED <<device, exited>>
    BY <2>1 DEF RunStage, SubmitStage, SubmitFails, At, NewFault, Working, Untouched, Modalities
  <2>3. worker.at \in {"table", "formula"} /\ worker.at # "detect"
    BY <2>2 DEF Modalities
  <2>4. Goes(worker') /\ worker'.enqueued = worker.enqueued
    <3>1. PICK r: worker' = MovedWith(r)
      BY <2>1 DEF RunStage, SubmitStage, SubmitFails
    <3> QED
      BY <2>2, <3>1, MovesOn
  <2> QED
    BY <2>2, <2>3, <2>4, ReadingPixels
<1>3. CASE \/ MeetsOldError \/ ApiFails \/ LaunchFails \/ EngineFails \/ CopyRefused
           \/ UploadOutOfMemory \/ BackendUnavailable \/ Infer
  <2>1. worker.at # "idle"
    BY <1>3 DEF MeetsOldError, ApiFails, LaunchFails, EngineFails, CopyRefused,
         UploadOutOfMemory, BackendUnavailable, NewFault, Working, Infer, At
  <2>2. Halted
    BY <1>3, CudaErrorHalts, EngineErrorHalts
       DEF MeetsOldError, ApiFails, LaunchFails, EngineFails, CopyRefused,
         UploadOutOfMemory, BackendUnavailable, Throws, Halted, Infer
  <2> QED
    BY <2>1, <2>2, HaltLosesPixels, NoPixels
<1>4. CASE StartCall
  <2>1. worker'.at = "upload" /\ worker'.i = 1 /\ worker'.enqueued = FALSE
    BY <1>4 DEF StartCall, Chunk, Idle
  <2> QED
    BY <2>1, BeginsWithoutPixels
<1>5. CASE Rebuild
  BY <1>5, NoPixels DEF Rebuild
<1>6. CASE UNCHANGED vars
  BY <1>6, SamePixels DEF vars
<1>7. CASE \E c \in DOMAIN program: Resolve(c) \/ DeadlinePasses(c) \/ Join(c) \/ Finish(c)
  <2>1. UNCHANGED <<program, worker, bufs, cur, pinned, copies, layout, exited>>
    BY <1>7 DEF Resolve, DeadlinePasses, Join, Finish, SetReply, device
  <2> QED
    BY <2>1, SamePixels
<1> QED
  BY <1>1, <1>2, <1>3, <1>4, <1>5, <1>6, <1>7, UploadKeepsPixels, DecodeKeepsPixels,
     SettleKeepsPixels, CopyKeepsPixels, EnqueueKeepsPixels, ReplyKeepsPixels
     DEF Next, Stage, Fault, Finalize

----------------------------------------------------------------------------
(* The inductive invariant *)

LEMMA InvInit == Init => IInv
<1> SUFFICES ASSUME Init
             PROVE  IInv
  OBVIOUS
<1>1. /\ program \in Seq(Calls) /\ Len(program) \in Nat /\ DOMAIN program = 1 .. Len(program)
  BY ProgramsAssumption DEF Init
<1>2. NoReply \in Replies /\ NoReply.st = "none" /\ NoReply.results = <<>>
  BY DEF NoReply, Replies
<1>3. reply \in [1 .. Len(program) -> Replies] /\ \A c \in 1 .. Len(program): reply[c] = NoReply
  BY <1>1, <1>2 DEF Init
<1>4. worker \in Workers /\ worker.at = "idle" /\ worker.call = 0
  BY DEF Init, Idle, Workers
<1>5. HostType
  BY <1>1, <1>3, <1>4 DEF HostType
<1>6. RepliesOK
  <2>1. 1 .. Len(<<>>) = {}
    OBVIOUS
  <2> QED
    BY <1>2, <1>3, <2>1 DEF RepliesOK, ReplyOK
<1>7. HostOK
  BY <1>4, <1>5, <1>6 DEF HostOK, WorkerOK
<1>8. DeviceType
  BY NewBuffers DEF Init, DeviceType
<1>9. MemoryOK
  <2>1. 1 .. Len(copies) = {}
    BY DEF Init
  <2> QED
    BY <1>8, <2>1, NewBuffers, MemoryParts DEF Init
<1>10. PixelsOK
  BY <1>4 DEF PixelsOK
<1> QED
  BY <1>7, <1>8, <1>9, <1>10 DEF IInv, DeviceOK

LEMMA InvNext == IInv /\ [Next]_vars => IInv'
BY HostStep, DeviceStep, PixelsStep DEF IInv

(* What the inductive invariant says of one result of one call's reply. *)
LEMMA ReplyEntry ==
  ASSUME HostOK, NEW c \in DOMAIN program, NEW e \in ResultsOf(c)
  PROVE  /\ c \in 1 .. Len(program) /\ e[1] \in 1 .. Len(reply[c].results)
         /\ e[2] = reply[c].results[e[1]] /\ e[2] \in Results
         /\ Complete(e[2], program[c].pages[e[1]], program[c])
<1>1. c \in 1 .. Len(program) /\ reply[c] \in Replies
  BY DEF HostOK, HostType
<1>2. reply[c].results \in Seq(Results)
  BY <1>1 DEF Replies
<1>3. PICK k \in DOMAIN reply[c].results: e = <<k, reply[c].results[k]>>
  BY DEF ResultsOf
<1>4. k \in 1 .. Len(reply[c].results) /\ e[1] = k /\ e[2] = reply[c].results[k]
  BY <1>2, <1>3
<1>5. ReplyOK(c)
  BY <1>1 DEF HostOK, RepliesOK
<1> QED
  BY <1>1, <1>2, <1>4, <1>5 DEF ReplyOK

(* The inductive invariant holds of every run: the host's side of every call,
   the memory, and the pixels on their way through it. *)
THEOREM PipelineInvariant == Spec => []IInv
BY InvInit, InvNext, PTL DEF Spec

(* Safety: whatever is uploaded, copied late, refused or rebuilt, a result
   stands at its own page's place and was read from its own page's pixels, and
   so was its layout. *)
THEOREM PagesNeverMix == Spec => []OwnPixels
<1>1. IInv => OwnPixels
  <2> SUFFICES ASSUME IInv, NEW c \in DOMAIN program, NEW e \in ResultsOf(c)
               PROVE  /\ e[2].page = program[c].pages[e[1]]
                      /\ e[2].source = IF program[c].kind \in {"layout", "structure"} THEN NoPage
                                       ELSE e[2].page
                      /\ e[2].layout \in {NoPage, e[2].page}
    BY DEF OwnPixels
  <2>1. Complete(e[2], program[c].pages[e[1]], program[c])
    BY ReplyEntry DEF IInv
  <2> QED
    BY <2>1 DEF Complete, Sourced, OwnLayout, OnlyStructure
<1> QED
  BY <1>1, PipelineInvariant, PTL

(* Safety: no copy is under way into memory that is not there or too small,
   and no page stands in such memory, also after a call that met a fault with
   its copies still queued and after an allocation that failed. *)
THEOREM UploadsAlwaysFit == Spec => []UploadsFit
<1>1. IInv => UploadsFit
  BY DEF IInv, DeviceOK, MemoryOK
<1> QED
  BY <1>1, PipelineInvariant, PTL

(* Safety: every region the layout of an answered page routed has its content
   or its stage is flagged, and boxes without usable text are flagged too,
   whichever futures never resolved and whichever backends returned too little. *)
THEOREM NothingLostSilently == Spec => []NoSilentLoss
<1>1. IInv => NoSilentLoss
  <2> SUFFICES ASSUME IInv, NEW c \in DOMAIN program, reply[c].st = "done", NEW e \in ResultsOf(c)
               PROVE  LET r == e[2]
                          asked(m) == IF r.layout = NoPage \/ m \notin program[c].want
                                         \/ program[c].kind = "layout"
                                      THEN 0 ELSE Regions[r.layout][m]
                      IN  /\ \A m \in Modalities:
                               m \in r.degraded \/ (Len(r.items[m]) = asked(m) /\ Blanks(r.items[m]) = 0)
                          /\ r.boxes > 0 /\ ~r.text => "text" \in r.degraded
    BY DEF NoSilentLoss
  <2> DEFINE r == e[2]
             cl == program[c]
  <2>1. /\ c \in 1 .. Len(program) /\ e[1] \in 1 .. Len(reply[c].results)
        /\ r = reply[c].results[e[1]] /\ r \in Results
        /\ Complete(r, cl.pages[e[1]], cl)
    BY ReplyEntry DEF IInv
  <2>2. \A m \in Modalities: r.waiting[m] = <<>>
    BY <2>1 DEF IInv, HostOK, RepliesOK, ReplyOK
  <2> HIDE DEF r
  <2>3. ASSUME NEW m \in Modalities
        PROVE  m \in r.degraded
               \/ (Len(r.items[m]) = AskedFor(cl, r, m) /\ Blanks(r.items[m]) = 0)
    <3>1. r.items[m] \in Seq(Outcome)
      BY <2>1 DEF Results
    <3>2. Settled(r, cl, m)
      BY <2>1 DEF Complete
    <3>3. Len(r.waiting[m]) = 0 /\ Len(r.items[m]) \in Nat
      BY <2>2, <3>1
    <3>4. Len(r.items[m]) + Len(r.waiting[m]) = Len(r.items[m])
      <4>1. \A x, y \in Nat: y = 0 => x + y = x
        OBVIOUS
      <4> QED
        BY ONLY <3>3, <4>1, 0 \in Nat
    <3> QED
      BY <3>1, <3>2, <3>4, NoBlanks DEF Settled
  <2>4. r.boxes > 0 /\ ~r.text => "text" \in r.degraded
    BY <2>1 DEF Complete, Sourced, Textful, Results
  <2> QED
    BY <2>3, <2>4 DEF AskedFor, r
<1> QED
  BY <1>1, PipelineInvariant, PTL
=============================================================================
