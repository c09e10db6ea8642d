----------------------------- MODULE OcrPipeline -----------------------------
(* One OCR pipeline instance and the work of its GPU worker: uploads through
   one pinned staging buffer, the stages of the five entry points, the CUDA
   last-error slot of the worker's thread, the deferred crops joined off the
   worker, and the rebuild a fault asks for.  Pages are model values; a page's
   pixels are followed through the buffers.  Streams other than the caller's
   are ordered by the events the code records, so a kernel is modelled where
   the host first waits for it. *)
EXTENDS Naturals, Sequences, FiniteSets, SequencesExt

CONSTANTS Rows,            \* page -> its size, what a buffer must hold
          TextBoxes,       \* page -> how many text boxes detection finds
          Regions,         \* page -> modality -> regions its layout routes there
          Tiny,            \* pages with a side below 8 pixels
          Async,           \* modality -> BOOLEAN: its backend has submit_async
          MaxBatchImages, DefaultRows,
          MaxFaults,       \* bound on the faults injected
          MaxCalls,        \* bound on the calls of one program
          Programs         \* the sequences of calls to explore

Modalities == {"table", "formula"}
NoPage == "none"
Pages == DOMAIN Rows

(* What a caller may hand over: only a batch has several pages, and the entry
   points return at once for an image without pixels and for an empty batch. *)
Calls ==
  {c \in [kind: {"single", "device", "batch", "layout", "structure", "infer"},
          pages: Seq(Pages), layout: BOOLEAN, order: BOOLEAN,
          want: SUBSET Modalities, defer: BOOLEAN]:
     c.pages # <<>> /\ (c.kind # "batch" => Len(c.pages) = 1)}

ASSUME BatchAssumption == MaxBatchImages \in Nat \ {0}
ASSUME PagesAssumption ==
  /\ Rows \in [Pages -> Nat \ {0}] /\ NoPage \notin Pages /\ DefaultRows \in Nat
  /\ TextBoxes \in [Pages -> Nat] /\ Regions \in [Pages -> [Modalities -> Nat]]
ASSUME ProgramsAssumption == \A p \in Programs: p \in Seq(Calls)

Codes == {"pitch", "value", "memory", "sticky"}

VARIABLES program,   \* the calls, in the order the dispatcher hands them over
          reply,     \* call -> what its caller holds so far
          worker,    \* where the worker is in the current call
          bufs, cur, pinned,  \* device image buffers, the one in use, staging
          copies,    \* host-to-device copies issued and not yet performed
          layout,    \* the layout stage: armed or not, and the buffer it reads
          err,       \* the thread's CUDA last error
          recycle,   \* recycle_requested_
          exited,    \* the process ended on a poisoned context
          faults,    \* how many faults have been injected
          blamed     \* the calls that met a fault of their own
vars == <<program, reply, worker, bufs, cur, pinned, copies, layout, err,
          recycle, exited, faults, blamed>>

device == <<bufs, cur, pinned, copies, layout>>

----------------------------------------------------------------------------
(* Results *)

NewResult(p) ==
  [page |-> p, source |-> NoPage, boxes |-> 0, text |-> FALSE, layout |-> NoPage,
   items |-> [m \in Modalities |-> <<>>], waiting |-> [m \in Modalities |-> <<>>],
   degraded |-> {}, ordered |-> FALSE]

NoReply == [st |-> "none", results |-> <<>>, late |-> FALSE]
Idle == [at |-> "idle", call |-> 0, chunk |-> <<>>, left |-> <<>>, i |-> 1,
         enqueued |-> FALSE, results |-> <<>>, done |-> <<>>]

Call == program[worker.call]
Page == worker.chunk[worker.i]
Result == worker.results[worker.i]
Batched == Call.kind = "batch" /\ Len(worker.chunk) > 1

ImgBuf == <<"img", cur>>
Buf == IF Batched THEN <<"batch", worker.i>> ELSE ImgBuf

(* The regions of the page the router gives to a backend of this modality. *)
Wanted(m) ==
  IF Result.layout = NoPage \/ m \notin Call.want THEN 0 ELSE Regions[Result.layout][m]

(* The image buffers of one instance: two for single pages, one per batch slot. *)
BufIds == ({"img"} \X {0, 1}) \union ({"batch"} \X (1 .. MaxBatchImages))
NewBufs ==
  [b \in BufIds |->
     [cap |-> IF b[1] = "img" THEN DefaultRows ELSE 0, live |-> b[1] = "img",
      page |-> NoPage]]
NewPinned == [cap |-> 0, live |-> FALSE, page |-> NoPage]

NewLayout == [armed |-> FALSE, input |-> <<"img", 0>>]

Init ==
  /\ program \in Programs
  /\ reply = [c \in DOMAIN program |-> NoReply]
  /\ worker = Idle
  /\ bufs = NewBufs /\ cur = 0 /\ pinned = NewPinned
  /\ copies = <<>> /\ layout = NewLayout
  /\ err = "none" /\ recycle = FALSE /\ exited = FALSE /\ faults = 0 /\ blamed = {}

----------------------------------------------------------------------------
(* How a call ends *)

Final(c) == reply[c].st \in {"done", "failed", "empty"}

Answers(st) ==
  /\ reply' = [reply EXCEPT ![worker.call].st = st]
  /\ worker' = [Idle EXCEPT !.call = worker.call]

Throws == Answers("failed")

(* A result returned without the page having been read. *)
EmptyAnswer == Answers("empty")

(* std::_Exit on a poisoned context. *)
Dies == exited' = TRUE /\ UNCHANGED <<reply, worker>>

Degenerate(code) == code = "pitch" \/ (code = "value" /\ Page \in Tiny)
Cleared(code) == IF code = "sticky" THEN "sticky" ELSE "none"

(* The handler of upload and detection: it waits for the stream; a degenerate
   input has no text and everything else is loud; the last error is read and
   cleared either way. *)
DetectionHandler(code) ==
  /\ code = "sticky" \/ copies = <<>>
  /\ err' = Cleared(code) /\ UNCHANGED recycle
  /\ CASE code = "sticky" -> Dies
       [] code # "sticky" /\ Degenerate(code) /\ ~Batched
            -> EmptyAnswer /\ UNCHANGED exited
       [] OTHER -> Throws /\ UNCHANGED exited

(* The handler of the table and formula stages: what can be cleared asks for
   the pipeline to be rebuilt. *)
StructureHandler(code) ==
  /\ err' = Cleared(code)
  /\ IF code = "sticky" THEN Dies /\ UNCHANGED recycle
     ELSE Throws /\ recycle' = TRUE /\ UNCHANGED exited

(* infer_one takes every failure of the upload for a crop without pixels. *)
InferHandler(code) ==
  EmptyAnswer /\ err' = code /\ UNCHANGED <<recycle, exited>>

Escapes(code) == Throws /\ err' = code /\ UNCHANGED <<recycle, exited>>

InDetectionTry ==
  \/ worker.at = "detect" /\ Call.kind \in {"single", "device", "batch"}
  \/ worker.at = "upload" /\ Call.kind \in {"single", "batch"} /\ ~Batched

(* A CudaError thrown at the worker's stage, the last error standing at code. *)
CudaErrorAt(code) ==
  CASE InDetectionTry -> DetectionHandler(code)
    [] worker.at \in Modalities -> StructureHandler(code)
    [] worker.at = "upload" /\ Call.kind = "infer" -> InferHandler(code)
    [] OTHER -> Escapes(code)

(* TensorRT refuses the enqueue: a poisoned context ends the process, anything
   else is an InferenceError and leaves whatever last error there is. *)
EngineErrorAt(code) ==
  IF code = "sticky" THEN Dies /\ err' = code /\ UNCHANGED recycle
  ELSE Escapes(code)

----------------------------------------------------------------------------
(* Faults.  A launch check reads and clears the last error, whoever left it; a
   failing API call or enqueue leaves its code behind. *)

LaunchChecked == {"detect", "layout", "classify", "recognise"}

Working == worker.at # "idle" /\ ~exited

(* The stages that give the device nothing to do make no CUDA call. *)
Issues ==
  CASE worker.at \in Modalities -> Wanted(worker.at) > 0
    [] worker.at \in {"classify", "recognise"} ->
         \E k \in DOMAIN worker.results: worker.results[k].boxes > 0
    [] OTHER -> worker.at \notin {"infer", "reply"}

Clean ==
  \/ err = "none" \/ ~Issues
  \/ err # "sticky" /\ worker.at \notin LaunchChecked
At(stage) == Working /\ Clean /\ worker.at = stage

(* A launch check, or any call on a poisoned context, meets an earlier error. *)
MeetsOldError ==
  /\ Working /\ ~Clean
  /\ CudaErrorAt(Cleared(err))
  /\ UNCHANGED <<program, device, faults, blamed>>

NewFault ==
  /\ Working /\ Clean /\ faults < MaxFaults
  /\ faults' = faults + 1
  /\ blamed' = blamed \union {worker.call}

ApiFails ==
  /\ NewFault /\ Issues /\ ~(worker.at = "upload" /\ Call.kind = "device")
  /\ \E code \in Codes: CudaErrorAt(code)
  /\ UNCHANGED <<program, device>>

LaunchFails ==
  /\ NewFault /\ Issues /\ worker.at \in LaunchChecked
  /\ \E code \in Codes: CudaErrorAt(Cleared(code))
  /\ UNCHANGED <<program, device>>

EngineFails ==
  /\ NewFault /\ Issues /\ worker.at \in {"detect", "classify", "recognise"}
  /\ \E code \in Codes \union {"none"}: EngineErrorAt(code)
  /\ UNCHANGED <<program, device>>

----------------------------------------------------------------------------
(* Calls and stages *)

(* What follows a stage; the structure stages of a batch run page by page. *)
LastPage == worker.i = Len(worker.chunk)
NextStage ==
  LET kind == IF Batched THEN "batch" ELSE IF Call.kind = "batch" THEN "single" ELSE Call.kind
      afterReading == IF Call.layout THEN "layout" ELSE "reply"
  IN  CASE worker.at = "upload" ->
             (CASE kind \in {"single", "device"} -> "detect"
                [] kind = "batch" -> "settle"
                [] kind \in {"layout", "structure"} -> "layout"
                [] kind = "infer" -> "infer")
        [] worker.at = "settle" -> IF LastPage THEN "detect" ELSE "upload"
        [] worker.at = "detect" ->
             (IF kind = "batch" \/ ~Call.layout THEN "classify" ELSE "layout")
        [] worker.at = "layout" ->
             (IF kind \in {"single", "device"} THEN "classify" ELSE "collect")
        [] worker.at = "classify" -> "recognise"
        [] worker.at = "recognise" ->
             (IF kind = "batch" THEN afterReading ELSE "collect")
        [] worker.at = "collect" -> IF kind = "layout" THEN "reply" ELSE "table"
        [] worker.at = "table" -> "formula"
        [] worker.at = "formula" ->
             (IF kind = "batch" /\ ~LastPage THEN "layout" ELSE "reply")

NextIndex ==
  CASE worker.at \in {"settle", "formula"} /\ Batched /\ ~LastPage -> worker.i + 1
    [] worker.at = "settle" /\ LastPage -> 1
    [] OTHER -> worker.i

Moved == [worker EXCEPT !.at = NextStage, !.i = NextIndex]
MovedWith(r) == [Moved EXCEPT !.results[worker.i] = r]

Untouched == UNCHANGED <<program, reply, recycle, exited, faults, blamed>>

(* A call begins, or a batch longer than the buffers goes on to its next part;
   a part of one page takes the single-image path. *)
Chunk(w, left) ==
  LET part == SubSeq(left, 1, IF Len(left) < MaxBatchImages THEN Len(left)
                              ELSE MaxBatchImages)
  IN  [w EXCEPT !.at = "upload", !.chunk = part, !.i = 1, !.enqueued = FALSE,
                !.left = SubSeq(left, Len(part) + 1, Len(left)),
                !.results = [k \in DOMAIN part |-> NewResult(part[k])]]

StartCall ==
  /\ worker.at = "idle" /\ ~exited /\ ~recycle /\ worker.call < Len(program)
  /\ worker' = Chunk([Idle EXCEPT !.call = worker.call + 1],
                     program[worker.call + 1].pages)
  /\ UNCHANGED <<program, reply, device, err, recycle, exited, faults, blamed>>

(* grow_pitch_buf_ and grow_pinned_: the old memory is gone and the capacity
   zero before the new memory is asked for. *)
\* Mutant of Freed: the capacity outlives the memory.
StillCounted(b) == [b EXCEPT !.live = FALSE]
Freed(b) == [cap |-> 0, live |-> FALSE, page |-> NoPage]
Grown(b, size) ==
  IF b.cap >= size THEN b ELSE [cap |-> size, live |-> TRUE, page |-> NoPage]

Uploads == worker.at = "upload" /\ Call.kind # "device"
TargetImg == IF Batched THEN <<"batch", worker.i>> ELSE <<"img", 1 - cur>>
Toggled == IF Batched THEN cur ELSE 1 - cur

(* Freeing device or pinned memory waits for the copies still using it. *)
MayFree(b) == b.cap >= Rows[Page] \/ ~b.live \/ copies = <<>>

(* upload_image, and the upload loop of a batch: through the pinned buffer. *)
Staged ==
  /\ Uploads /\ MayFree(bufs[TargetImg]) /\ MayFree(pinned)
  /\ cur' = Toggled
  /\ bufs' = [bufs EXCEPT ![TargetImg] = Grown(@, Rows[Page])]
  /\ pinned' = [Grown(pinned, Rows[Page]) EXCEPT !.page = Page]

Upload ==
  /\ At("upload") /\ Staged
  /\ copies' = Append(copies, [to |-> TargetImg, rows |-> Rows[Page]])
  /\ worker' = Moved
  /\ UNCHANGED <<layout, err>> /\ Untouched

(* The device refuses the copy of a page that is staged already. *)
CopyRefused ==
  /\ NewFault /\ worker.at = "upload" /\ Staged
  /\ \E code \in Codes: CudaErrorAt(code)
  /\ UNCHANGED <<program, copies, layout>>

(* The allocation fails: the buffer is left empty and owned by nobody. *)
UploadOutOfMemory ==
  /\ NewFault /\ worker.at = "upload"
  /\ LET b == IF Call.kind = "device" THEN ImgBuf ELSE TargetImg
     IN  \/ /\ bufs[b].cap < Rows[Page]
            /\ bufs' = [bufs EXCEPT ![b] = Freed(@)]
            /\ UNCHANGED pinned
         \/ /\ Uploads /\ pinned.cap < Rows[Page]
            /\ bufs' = [bufs EXCEPT ![b] = Grown(@, Rows[Page])]
            /\ pinned' = Freed(pinned)
  /\ copies = <<>>
  /\ cur' = IF Uploads THEN Toggled ELSE cur
  /\ CudaErrorAt("memory")
  /\ UNCHANGED <<program, copies, layout>>

(* A device image was decoded by the caller into ensure_gpu_buf's buffer. *)
DecodeOnDevice ==
  /\ At("upload") /\ Call.kind = "device" /\ copies = <<>>
  /\ bufs' = [bufs EXCEPT ![ImgBuf] =
                [Grown(@, Rows[Page]) EXCEPT !.page = Page]]
  /\ worker' = Moved
  /\ UNCHANGED <<cur, pinned, copies, layout, err>> /\ Untouched

(* A copy reads the pinned buffer when the stream gets to it; if a page of
   another size has been staged since then, what it leaves is no page at all. *)
CopyRuns ==
  /\ copies # <<>> /\ ~exited
  /\ bufs' = [bufs EXCEPT ![Head(copies).to].page =
                IF pinned.page # NoPage /\ Rows[pinned.page] = Head(copies).rows
                THEN pinned.page ELSE NoPage]
  /\ copies' = Tail(copies)
  /\ UNCHANGED <<cur, pinned, layout, err, worker>> /\ Untouched

(* The next image of a batch may overwrite the pinned buffer. *)
\* Mutant of StagingFree: the next page is staged before the last copy ran.
NeverSettles == TRUE
StagingFree == copies = <<>>
SettleUpload ==
  /\ At("settle") /\ StagingFree
  /\ worker' = Moved
  /\ UNCHANGED <<device, err>> /\ Untouched

(* Detection waits for its own results, and so for the upload before it. *)
Detect ==
  /\ At("detect") /\ copies = <<>>
  /\ worker' = [Moved EXCEPT !.results = [k \in DOMAIN worker.results |->
                  [worker.results[k] EXCEPT !.boxes = TextBoxes[worker.chunk[k]]]]]
  /\ UNCHANGED <<device, err>> /\ Untouched

(* PaddleLayout::enqueue: armed only when everything was queued. *)
EnqueueLayout ==
  /\ At("layout")
  /\ layout' = [armed |-> TRUE, input |-> Buf]
  /\ worker' = [Moved EXCEPT !.enqueued = TRUE]
  /\ UNCHANGED <<bufs, cur, pinned, copies, err>> /\ Untouched

(* The engine refuses: the page goes on without a layout. *)
LayoutRefused ==
  /\ NewFault /\ worker.at = "layout"
  /\ layout' = [layout EXCEPT !.armed = FALSE]
  /\ \E code \in (Codes \ {"sticky"}) \union {"none"}: err' = code
  /\ worker' = [Moved EXCEPT !.enqueued = FALSE]
  /\ UNCHANGED <<program, reply, bufs, cur, pinned, copies, recycle, exited>>

(* Angle classification turns boxes around in place. *)
Classify ==
  /\ At("classify")
  /\ worker' = Moved
  /\ UNCHANGED <<device, err>> /\ Untouched

(* run or run_multi, then combine_recognition: some boxes decode to usable text
   or none do, and crops may have been dropped for lack of decode buffers; for
   a page without boxes the count may be that of an earlier one (RecQueue). *)
TextDegraded(r, usable, dropped) == (r.boxes > 0 /\ ~usable) \/ dropped

Read(k, usable, dropped) ==
  LET r == worker.results[k]
      b == IF Batched THEN <<"batch", k>> ELSE ImgBuf
  IN  [r EXCEPT !.source = bufs[b].page, !.text = usable,
                !.degraded = IF TextDegraded(r, usable, dropped) THEN {"text"} ELSE {}]

Recognise ==
  /\ At("recognise")
  /\ \E usable, dropped \in [DOMAIN worker.results -> BOOLEAN]:
       /\ \A k \in DOMAIN worker.results:
            usable[k] => worker.results[k].boxes > 0
       /\ worker' = [Moved EXCEPT !.results =
            [k \in DOMAIN worker.results |-> Read(k, usable[k], dropped[k])]]
  /\ UNCHANGED <<device, err>> /\ Untouched

(* PaddleLayout::collect, called only after a successful enqueue. *)
Collect ==
  /\ At("collect") /\ (worker.enqueued => copies = <<>>)
  /\ worker' = MovedWith([Result EXCEPT !.layout =
       IF worker.enqueued /\ layout.armed THEN bufs[layout.input].page ELSE NoPage])
  /\ UNCHANGED <<device, err>> /\ Untouched

----------------------------------------------------------------------------
(* Tables and formulas: dispatch_router_ *)

Deferred(m) == Call.kind \in {"single"} /\ Call.defer /\ Async[m]

Outcome == {"full", "blank"}
SeqsUpTo(S, n) == UNION {[1 .. k -> S]: k \in 0 .. n}

Blanks(items) == Cardinality({k \in DOMAIN items: items[k] = "blank"})

(* Regions without a result count as failed, whether blank or missing. *)
\* Mutant of Failures: a backend that returns too little goes unnoticed.
BlanksOnly(items, n) == Blanks(items)
Failures(items, n) == Blanks(items) + (n - Len(items))

Flag(r, m, failures) ==
  IF failures > 0 THEN [r EXCEPT !.degraded = @ \union {m}] ELSE r

(* The backend runs the regions now and may return fewer results. *)
RunStage(m) ==
  /\ At(m) /\ ~Deferred(m)
  /\ \E items \in SeqsUpTo(Outcome, Wanted(m)):
       worker' = MovedWith(Flag([Result EXCEPT !.items[m] = items], m,
                                Failures(items, Wanted(m))))
  /\ UNCHANGED <<device, err>> /\ Untouched

(* The crops are submitted and their futures left to finalize_deferred; the
   page copy may fail, which leaves its error and no futures at all. *)
Submitted(m, futures) ==
  Flag([Result EXCEPT !.waiting[m] = [k \in 1 .. futures |-> "open"]], m,
       Wanted(m) - futures)

SubmitStage(m) ==
  /\ At(m) /\ Deferred(m)
  /\ worker' = MovedWith(Submitted(m, Wanted(m)))
  /\ UNCHANGED <<device, err>> /\ Untouched

SubmitFails(m) ==
  /\ NewFault /\ worker.at = m /\ Deferred(m) /\ Wanted(m) > 0
  /\ worker' = MovedWith(Submitted(m, 0))
  /\ \E code \in Codes \ {"sticky"}: err' = code
  /\ UNCHANGED <<program, reply, device, recycle, exited>>

(* infer_one: a backend that is not ready is loud, an empty result is not. *)
Infer ==
  /\ At("infer") /\ copies = <<>> /\ Answers("done")
  /\ UNCHANGED <<program, device, err, recycle, exited, faults, blamed>>

BackendUnavailable ==
  /\ NewFault /\ worker.at = "infer" /\ Throws
  /\ UNCHANGED <<program, device, err, recycle, exited>>

(* Reading order, and the call's results to its caller; a batch goes on with
   its next part first. *)
InOrder(r) ==
  [r EXCEPT !.ordered = Call.order /\ r.layout # NoPage
                        /\ Call.kind \notin {"layout", "structure"}]

Reply ==
  /\ At("reply")
  /\ LET done == worker.done \o [k \in DOMAIN worker.results |-> InOrder(worker.results[k])]
     IN  IF worker.left # <<>>
         THEN worker' = Chunk([worker EXCEPT !.done = done], worker.left) /\ UNCHANGED reply
         ELSE /\ reply' = [reply EXCEPT ![worker.call] =
                   [@ EXCEPT !.results = done, !.st = "finalizing"]]
              /\ worker' = [Idle EXCEPT !.call = worker.call]
  /\ UNCHANGED <<program, device, err, recycle, exited, faults, blamed>>

(* The dispatcher consumes the request and rebuilds the pipeline; the thread,
   and with it the last error, stays. *)
Rebuild ==
  /\ worker.at = "idle" /\ recycle /\ ~exited
  /\ bufs' = NewBufs /\ cur' = 0 /\ pinned' = NewPinned
  /\ copies' = <<>> /\ layout' = NewLayout /\ recycle' = FALSE
  /\ UNCHANGED <<program, reply, worker, err, exited, faults, blamed>>

----------------------------------------------------------------------------
(* finalize_deferred, off the GPU worker *)

First(c) == reply[c].results[1]
Pending(c) ==
  IF First(c).waiting["formula"] # <<>> THEN "formula"
  ELSE IF First(c).waiting["table"] # <<>> THEN "table" ELSE "none"

SetReply(c, r) ==
  /\ reply' = [reply EXCEPT ![c] = r]
  /\ UNCHANGED <<program, worker, device, err, recycle, exited, faults, blamed>>

(* The crop pool resolves a crop's promise; a broken one reads as blank. *)
Resolve(c) ==
  /\ reply[c].st = "finalizing" /\ ~exited
  /\ \E m \in Modalities: \E k \in DOMAIN First(c).waiting[m]: \E v \in Outcome:
       /\ First(c).waiting[m][k] = "open"
       /\ SetReply(c, [reply[c] EXCEPT !.results[1].waiting[m][k] = v])

(* One deadline is shared by every join of the call. *)
DeadlinePasses(c) ==
  /\ reply[c].st = "finalizing" /\ Pending(c) # "none" /\ ~reply[c].late /\ ~exited
  /\ SetReply(c, [reply[c] EXCEPT !.late = TRUE])

\* Mutant of Joinable: a join without the shared deadline.
OnlyResolved(c, v) == v # "open"
Joinable(c, v) == v # "open" \/ reply[c].late
Joined(v) == IF v = "open" THEN "blank" ELSE v

Join(c) ==
  /\ reply[c].st = "finalizing" /\ Pending(c) # "none" /\ ~exited
  /\ LET m == Pending(c)
         v == Head(First(c).waiting[m])
         item == Joined(v)
         r == [First(c) EXCEPT !.waiting[m] = Tail(@), !.items[m] = Append(@, item)]
     IN  /\ Joinable(c, v)
         /\ SetReply(c, [reply[c] EXCEPT
              !.results[1] = Flag(r, m, IF item = "blank" THEN 1 ELSE 0)])

Finish(c) ==
  /\ reply[c].st = "finalizing" /\ Pending(c) = "none" /\ ~exited
  /\ SetReply(c, [reply[c] EXCEPT !.st = "done"])

----------------------------------------------------------------------------
Stage ==
  \/ Upload \/ DecodeOnDevice \/ SettleUpload \/ Detect \/ EnqueueLayout
  \/ Classify \/ Recognise \/ Collect \/ Infer \/ Reply
  \/ \E m \in Modalities: RunStage(m) \/ SubmitStage(m)

Fault ==
  \/ ApiFails \/ LaunchFails \/ EngineFails \/ CopyRefused \/ UploadOutOfMemory \/ LayoutRefused
  \/ BackendUnavailable
  \/ \E m \in Modalities: SubmitFails(m)

Work == StartCall \/ Stage \/ MeetsOldError \/ Rebuild
Finalize(c) == Join(c) \/ Finish(c)

Next ==
  \/ StartCall \/ Stage \/ MeetsOldError \/ Rebuild \/ Fault \/ CopyRuns
  \/ \E c \in DOMAIN program:
       Resolve(c) \/ DeadlinePasses(c) \/ Finalize(c)

(* The worker thread, the copy engine, the work-pool thread of each caller and
   the clock go on; nothing makes a remote backend answer. *)
Fairness ==
  /\ WF_vars(Work) /\ WF_vars(CopyRuns)
  /\ \A c \in 1 .. MaxCalls:
       /\ WF_vars(c \in DOMAIN program /\ Finalize(c))
       /\ WF_vars(c \in DOMAIN program /\ DeadlinePasses(c))

Spec == Init /\ [][Next]_vars /\ Fairness

----------------------------------------------------------------------------
(* Properties *)

ResultsOf(c) == {<<k, reply[c].results[k]>>: k \in DOMAIN reply[c].results}

(* Every result stands at its own page's place and was read from its own page's
   pixels, and so was its layout: the staging buffer shared by a batch, the two
   image buffers and the deferred layout readback never mix pages. *)
OwnPixels ==
  \A c \in DOMAIN program: \A e \in ResultsOf(c):
    /\ e[2].page = program[c].pages[e[1]]
    /\ e[2].source = IF program[c].kind \in {"layout", "structure"} THEN NoPage ELSE e[2].page
    /\ e[2].layout \in {NoPage, e[2].page}

(* No copy is under way into memory that is not there or too small and no page
   stands in such memory, also after an allocation failed in an earlier call. *)
UploadsFit ==
  /\ \A k \in DOMAIN copies:
       \A b \in {bufs[copies[k].to], pinned}: b.live /\ b.cap >= copies[k].rows
  /\ \A k \in DOMAIN bufs: bufs[k].page # NoPage =>
       bufs[k].live /\ bufs[k].cap >= Rows[bufs[k].page]

(* A page that is answered answers for everything its layout routed: each table
   or formula region asked for has content, or the stage is flagged; and boxes
   that gave no usable text are flagged too. *)
NoSilentLoss ==
  \A c \in DOMAIN program: reply[c].st = "done" =>
    \A e \in ResultsOf(c):
      LET r == e[2]
          asked(m) == IF r.layout = NoPage \/ m \notin program[c].want \/ program[c].kind = "layout"
                      THEN 0 ELSE Regions[r.layout][m]
      IN  /\ \A m \in Modalities:
               m \in r.degraded \/ (Len(r.items[m]) = asked(m) /\ Blanks(r.items[m]) = 0)
          /\ r.boxes > 0 /\ ~r.text => "text" \in r.degraded

(* Every call is answered, also when a backend never resolves a future. *)
CallsEnd == <>[](exited \/ \A c \in DOMAIN program: Final(c))

(* "there is no text to detect and the request shouldn't poison subsequent
   ones": while the context is healthy, a call fails only by its own fault. *)
FailsByItself ==
  \A c \in DOMAIN program:
    reply[c].st = "failed" => c \in blamed \/ err = "sticky"
=============================================================================
