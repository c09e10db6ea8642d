-------------------------------- MODULE Batch --------------------------------
(* A batch of images over its four surfaces: POST /ocr/batch and RecognizeBatch,
   on the GPU build (one dispatcher task in chunks; one future per slot) and on
   the CPU build (workers that claim slots from a shared counter and draw on a
   process-wide pool of permits).  An image is what the surfaces tell apart
   about it; a slot ends with the result of an image or with the tag of what
   went wrong with it. *)
EXTENDS Integers, Sequences, FiniteSets, FiniteSetsExt

CONSTANTS Requests, Scenarios,  \* request -> its surface and its images
          MaxBatchImages, ChunkImages, DimCap, PixelCap, PixelBudget,
          Pipelines,            \* pipelines of the CPU pool
          RpcWorkers,           \* workers one RPC may use
          Permits,              \* extra workers of one surface, process-wide
          MaxFaults             \* bound on the faults that are nobody's image

Surfaces == {"http_gpu", "rpc_gpu", "http_cpu", "rpc_cpu"}
Image ==
  [form : {"bytes", "empty", "garbled"}, jpeg : BOOLEAN, side : Nat, pixels : Nat,
   sniffed : BOOLEAN, decodes : BOOLEAN, runs : {"fine", "poison", "faulty", "wedged"}]

(* The flags bound the workers of an RPC from below by one, as the pool does its
   pipelines; a limit of the environment may be zero. *)
ASSUME BatchAssumption ==
  /\ IsFiniteSet(Requests)
  /\ Scenarios \subseteq [Requests -> [surface : Surfaces, images : Seq(Image)]]
  /\ PixelBudget \in Nat /\ Permits \in Nat
  /\ ChunkImages \in Nat \ {0} /\ Pipelines \in Nat \ {0} /\ RpcWorkers \in Nat \ {0}

OnGpu(s) == s \in {"http_gpu", "rpc_gpu"}
OverRpc(s) == s \in {"rpc_gpu", "rpc_cpu"}
NoTag == "ok"

----------------------------------------------------------------------------
(* What the request thread settles before any inference *)

Verdict(im) ==
  CASE im.side > DimCap -> "dimensions_too_large"
    [] im.side <= DimCap /\ im.pixels > PixelCap -> "pixels_too_large"
    [] OTHER -> NoTag

Untagged(images) == [i \in DOMAIN images |-> NoTag]

DecodeBase64(images) ==
  [i \in DOMAIN images |->
     CASE images[i].form = "empty" -> "empty"
       [] images[i].form = "garbled" -> "base64_decode_failed"
       [] OTHER -> NoTag]

(* The JPEGs of an RPC are decoded on the device, by the task that reads them. *)
DeviceJpeg(s, im) == s = "rpc_gpu" /\ im.jpeg
HostDecoded(s, im) == ~DeviceJpeg(s, im)

\* Mutant of CheckDimsPre: the budget bounds one image, not their sum.
CheckEachAlone(s, images, tags) ==
  [i \in DOMAIN images |->
     IF tags[i] # NoTag \/ ~images[i].sniffed THEN tags[i]
     ELSE IF Verdict(images[i]) # NoTag THEN Verdict(images[i])
     ELSE IF HostDecoded(s, images[i]) /\ images[i].pixels > PixelBudget
          THEN "batch_pixels_exceeded"
     ELSE NoTag]

(* What the sniff makes of an image when the images before it have taken sum. *)
Sniffed(s, im, tag, sum) ==
  IF tag # NoTag \/ ~im.sniffed THEN tag
  ELSE IF Verdict(im) # NoTag THEN Verdict(im)
  ELSE IF HostDecoded(s, im) /\ sum + im.pixels > PixelBudget THEN "batch_pixels_exceeded"
  ELSE NoTag
Counts(s, im, tag, sum) ==
  im.sniffed /\ HostDecoded(s, im) /\ Sniffed(s, im, tag, sum) = NoTag

(* The header sniff: each image against its own caps, then against what is left
   of the budget of the batch; what it refuses takes nothing from the budget. *)
CheckDimsPre(s, images, tags) ==
  LET spent[i \in 0 .. Len(images)] ==
        IF i = 0 THEN 0
        ELSE spent[i - 1]
               + IF Counts(s, images[i], tags[i], spent[i - 1]) THEN images[i].pixels ELSE 0
  IN [i \in DOMAIN images |-> Sniffed(s, images[i], tags[i], spent[i - 1])]

(* nvJPEG knows a JPEG's true size before it decodes; every other image is
   measured once it has been decoded. *)
DecodeImages(images, tags) ==
  [i \in DOMAIN images |->
     IF tags[i] # NoTag THEN tags[i]
     ELSE IF images[i].decodes \/ (images[i].jpeg /\ Verdict(images[i]) # NoTag)
          THEN Verdict(images[i])
     ELSE "decode_failed"]

(* The tags every slot has when inference may begin. *)
Prepared(s, images) ==
  IF ~OverRpc(s)
  THEN DecodeImages(images, CheckDimsPre(s, images, DecodeBase64(images)))
  ELSE LET pre == CheckDimsPre(s, images, Untagged(images))
       IN [i \in DOMAIN images |->
             IF DeviceJpeg(s, images[i]) THEN pre[i]
             ELSE DecodeImages(images, pre)[i]]

Batches == UNION {{s[r]: r \in Requests}: s \in Scenarios}
TagsOf == [b \in Batches |-> Prepared(b.surface, b.images)]

(* The slots that are still without a tag, in order. *)
Untouched(tags) ==
  LET upTo[i \in 0 .. Len(tags)] ==
        IF i = 0 THEN <<>>
        ELSE IF tags[i] = NoTag THEN Append(upTo[i - 1], i) ELSE upTo[i - 1]
  IN upTo[Len(tags)]

----------------------------------------------------------------------------
VARIABLES req,       \* request -> what its handler holds
          task,      \* request -> the dispatcher task of its chunks, which owns its images
          futs,      \* request -> slot -> its future
          workers,   \* request -> its worker threads
          permits,   \* CPU surface -> permits left
          free,      \* CPU pipelines in the pool
          faults,
          spills,    \* how many runs left their error with the CUDA runtime, in the
                     \* last-error slot of their dispatcher thread
          met        \* the slots of RPCs that met such an error
vars == <<req, task, futs, workers, permits, free, faults, spills, met>>
errors == <<spills, met>>

Images(r) == req[r].images
Surface(r) == req[r].surface
Todo(r) == req[r].todo
MaxWorkers == Max({Pipelines, RpcWorkers})
NumWorkers(r) ==
  IF Surface(r) = "http_cpu" THEN Min({Len(Todo(r)), Pipelines})
  ELSE Min({Len(Images(r)), RpcWorkers})

NoTask == [st |-> "none", offset |-> 0, outs |-> <<>>, errs |-> <<>>]
Worker == [at |-> "none", k |-> 0, holds |-> FALSE, permit |-> FALSE]

Init ==
  \E s \in Scenarios:
    /\ req = [r \in Requests |->
                [surface |-> s[r].surface, images |-> s[r].images, pc |-> "new",
                 tags |-> <<>>, outs |-> <<>>, todo |-> <<>>, next |-> 1, late |-> FALSE,
                 reply |-> "none"]]
    /\ task = [r \in Requests |-> NoTask]
    /\ futs = [r \in Requests |-> <<>>]
    /\ workers = [r \in Requests |-> <<>>]
    /\ permits = [s2 \in Surfaces |-> Permits]
    /\ free = Pipelines
    /\ faults = 0
    /\ spills = 0 /\ met = {}

Reply(r, status) == req' = [req EXCEPT ![r].reply = status, ![r].pc = "replied"]

Tag(r, i, tag) == [req EXCEPT ![r].tags[i] = tag]
Fill(r, i, image) == [req EXCEPT ![r].outs[i] = image]

Faulty == faults < MaxFaults /\ faults' = faults + 1

(* Validation, decoding and the checks, all on the request thread. *)
Prepare(r) ==
  /\ req[r].pc = "new"
  /\ LET n == Len(Images(r))
         tags == TagsOf[[surface |-> Surface(r), images |-> Images(r)]]
         todo == Untouched(tags)
     IN IF n = 0 \/ n > MaxBatchImages \/ (OverRpc(Surface(r)) /\ todo = <<>>)
        THEN Reply(r, "400") /\ UNCHANGED <<futs, workers>>
        ELSE /\ req' = [req EXCEPT
                  ![r].tags = tags, ![r].outs = [i \in 1 .. n |-> 0], ![r].todo = todo,
                  ![r].pc = IF OnGpu(Surface(r)) THEN "submit" ELSE "permits"]
             /\ futs' = [futs EXCEPT ![r] = [i \in 1 .. n |-> "none"]]
             /\ workers' = [workers EXCEPT ![r] =
                  [w \in 1 .. MaxWorkers |-> Worker]]
  /\ UNCHANGED <<task, permits, free, faults, errors>>

----------------------------------------------------------------------------
(* POST /ocr/batch, GPU: one task over all the valid images *)

Submit(r) ==
  /\ req[r].pc = "submit" /\ Surface(r) = "http_gpu"
  /\ \/ /\ Todo(r) = <<>>
        /\ Reply(r, "200") /\ UNCHANGED <<task, faults>>
     \/ /\ Todo(r) # <<>>
        /\ task' = [task EXCEPT ![r] =
             [st |-> "running", offset |-> 0, outs |-> [j \in DOMAIN Todo(r) |-> 0],
              errs |-> [j \in DOMAIN Todo(r) |-> NoTag]]]
        /\ req' = [req EXCEPT ![r].pc = "wait"]
        /\ UNCHANGED faults
     \/ /\ Todo(r) # <<>> /\ Faulty  \* the queue is full
        /\ Reply(r, "503") /\ UNCHANGED task
  /\ UNCHANGED <<futs, workers, permits, free, errors>>

Chunk(r) ==
  (task[r].offset + 1) .. Min({task[r].offset + ChunkImages, Len(Todo(r))})
ImageOf(r, j) == Images(r)[Todo(r)[j]]

Advance(r, outs, errs) ==
  LET last == task[r].offset + ChunkImages >= Len(Todo(r))
  IN task' = [task EXCEPT ![r] =
       [st |-> IF last THEN "done" ELSE "running", offset |-> task[r].offset + ChunkImages,
        outs |-> outs, errs |-> errs]]

\* A chunk of one image takes the single-image path, which degrades a degenerate
\* image by itself.
Poisoned(r) ==
  \E j \in Chunk(r): ImageOf(r, j).runs = "faulty"
                      \/ (ImageOf(r, j).runs = "poison" /\ Cardinality(Chunk(r)) > 1)

(* Each image of a chunk that failed as one runs again on its own, and may meet the
   error that the run before it left: the chunk's, or a neighbour's that failed on
   its own.  Detection's launch check meets it first, whose handler then finds the
   slot empty and takes the fault for a real one; a degenerate image comes no
   further than its own upload. *)
Exposed(r) ==
  {j \in Chunk(r): /\ ImageOf(r, j).runs = "fine"
                   /\ j = task[r].offset + 1 \/ ImageOf(r, j - 1).runs = "faulty"}

\* Mutant of RetriedErrs: the chunk shares the fate of its worst image.
ChunkCondemned(r, hit) ==
  [j \in DOMAIN Todo(r) |-> IF j \in Chunk(r) THEN "inference_failed" ELSE task[r].errs[j]]

RetryFails(r, j, hit) == ImageOf(r, j).runs = "faulty" \/ j \in hit
RetriedOuts(r, hit) ==
  [j \in DOMAIN Todo(r) |->
     IF j \in Chunk(r) /\ ~RetryFails(r, j, hit) THEN Todo(r)[j] ELSE task[r].outs[j]]
RetriedErrs(r, hit) ==
  [j \in DOMAIN Todo(r) |->
     IF j \in Chunk(r) /\ RetryFails(r, j, hit) THEN "inference_failed" ELSE task[r].errs[j]]

(* The error of a run that failed on its own stays in its thread's slot, unless the
   handler of detection met it. *)
MayLeave(failed) == spills' = spills \/ (failed /\ spills' = spills + 1)
LastFails(r) == ImageOf(r, Min({task[r].offset + ChunkImages, Len(Todo(r))})).runs = "faulty"

RunChunk(r) ==
  /\ task[r].st = "running"
  /\ \A j \in Chunk(r): ImageOf(r, j).runs # "wedged"
  /\ \/ /\ ~Poisoned(r)
        /\ Advance(r, [j \in DOMAIN Todo(r) |->
                         IF j \in Chunk(r) THEN Todo(r)[j] ELSE task[r].outs[j]], task[r].errs)
        /\ UNCHANGED <<faults, spills>>
     \/ /\ Poisoned(r)
        /\ \E hit \in SUBSET Exposed(r): Advance(r, RetriedOuts(r, hit), RetriedErrs(r, hit))
        /\ MayLeave(LastFails(r))
        /\ UNCHANGED faults
     \/ /\ Faulty  \* the pool refuses both the chunk and the retry
        /\ task' = [task EXCEPT ![r].st = "busy"]
        /\ UNCHANGED spills
  /\ UNCHANGED <<req, futs, workers, permits, free, met>>

\* Mutant of SlotOf: a result lands at its place among the valid images.
SlotByRank(r, j) == j

(* Results and tags go from the task's numbering back to the request's. *)
SlotOf(r, j) == Todo(r)[j]

Scattered(r) ==
  LET From(i) == {j \in DOMAIN Todo(r): SlotOf(r, j) = i}
  IN [req EXCEPT
       ![r].tags = [i \in DOMAIN Images(r) |->
          IF req[r].tags[i] = NoTag /\ \E j \in From(i): task[r].errs[j] # NoTag
          THEN "inference_failed" ELSE req[r].tags[i]],
       ![r].outs = [i \in DOMAIN Images(r) |->
          IF \E j \in From(i): task[r].errs[j] = NoTag
          THEN task[r].outs[CHOOSE j \in From(i): TRUE] ELSE req[r].outs[i]],
       ![r].reply = "200", ![r].pc = "replied"]

Collect(r) ==
  /\ req[r].pc = "wait" /\ Surface(r) = "http_gpu"
  /\ \/ task[r].st = "done" /\ req' = Scattered(r)
     \/ task[r].st = "busy" /\ Reply(r, "503")
  /\ UNCHANGED <<task, futs, workers, permits, free, faults, errors>>

(* The request timeout; the task runs on against images it owns. *)
Expire(r) ==
  /\ req[r].pc = "wait" /\ Surface(r) = "http_gpu" /\ task[r].st = "running"
  /\ Reply(r, "504")
  /\ UNCHANGED <<task, futs, workers, permits, free, faults, errors>>

----------------------------------------------------------------------------
(* RecognizeBatch, GPU: a future per slot, one deadline for them all *)

SubmitSlots(r) ==
  /\ req[r].pc = "submit" /\ Surface(r) = "rpc_gpu"
  /\ LET i == req[r].next
     IN IF i > Len(Images(r))
        THEN /\ req' = [req EXCEPT ![r].pc = "wait", ![r].next = 1]
             /\ UNCHANGED <<futs, faults>>
        ELSE \/ /\ futs' = [futs EXCEPT ![r][i] =
                     IF req[r].tags[i] = NoTag THEN "pending" ELSE "none"]
                /\ req' = [req EXCEPT ![r].next = i + 1]
                /\ UNCHANGED faults
             \/ /\ req[r].tags[i] = NoTag /\ Faulty  \* the futures so far are abandoned
                /\ Reply(r, "503") /\ UNCHANGED futs
  /\ UNCHANGED <<task, workers, permits, free, errors>>

Left == {n \in 1 .. spills: \A m \in met: m.of # n}

(* A worker of the dispatcher finishes a slot, its request waiting or gone.  Which
   of the dispatcher's threads it runs on is not modelled: it may meet any error
   that lies in one, and then fails in its place. *)
Resolve(r, i) ==
  /\ i \in DOMAIN futs[r] /\ futs[r][i] = "pending"
  /\ LET im == Images(r)[i]
         tooLarge == im.jpeg /\ Verdict(im) # NoTag
         Ends(how) == futs' = [futs EXCEPT ![r][i] = how]
     IN /\ im.runs # "wedged"
        /\ \/ /\ Ends(IF tooLarge THEN "too_large"
                     ELSE IF im.runs = "faulty" \/ ~im.decodes THEN "error" ELSE "value")
              /\ MayLeave(~tooLarge /\ im.decodes /\ im.runs = "faulty")
              /\ UNCHANGED met
           \/ /\ ~tooLarge /\ im.decodes /\ im.runs = "fine"
              /\ \E n \in Left: met' = met \union {[r |-> r, slot |-> i, of |-> n]}
              /\ Ends("error") /\ UNCHANGED spills
  /\ UNCHANGED <<req, task, workers, permits, free, faults>>

(* A call of another endpoint fails on one of the dispatcher's threads. *)
OtherCallFails ==
  /\ Faulty /\ spills' = spills + 1
  /\ UNCHANGED <<req, task, futs, workers, permits, free, met>>

Deadline(r) ==
  /\ req[r].pc = "wait" /\ Surface(r) = "rpc_gpu" /\ ~req[r].late
  /\ req' = [req EXCEPT ![r].late = TRUE]
  /\ UNCHANGED <<task, futs, workers, permits, free, faults, errors>>

\* Mutant of GivesUpOn: what is left of the deadline, zero, is passed on.
WaitsWithoutLimit(r, i) == req[r].late /\ futs[r][i] # "pending"

(* Once the deadline has passed a slot is not asked any more, not even one whose
   result is there: a timeout of zero would wait for ever. *)
GivesUpOn(r, i) == req[r].late

AwaitSlot(r) ==
  /\ req[r].pc = "wait" /\ Surface(r) = "rpc_gpu"
  /\ LET i == req[r].next
     IN IF i > Len(Images(r)) THEN Reply(r, "200")
        ELSE /\ \/ futs[r][i] # "pending"
                \/ GivesUpOn(r, i)
             /\ req' = [req EXCEPT
                  ![r].next = i + 1,
                  ![r].tags[i] = IF futs[r][i] = "none" THEN req[r].tags[i]
                                 ELSE IF GivesUpOn(r, i) THEN "inference_timeout"
                                 ELSE IF futs[r][i] = "too_large" THEN "image_too_large"
                                 ELSE IF futs[r][i] = "error" THEN "inference_failed"
                                 ELSE NoTag,
                  ![r].outs[i] = IF futs[r][i] = "value" /\ ~GivesUpOn(r, i) THEN i ELSE 0]
  /\ UNCHANGED <<task, futs, workers, permits, free, faults, errors>>

----------------------------------------------------------------------------
(* The CPU surfaces: the first worker is guaranteed, each further one needs a
   permit.  An RPC draws all its permits before it starts a thread, and starts
   threads up to the first it was refused; the HTTP route draws and starts one
   at a time and stops at the first refusal. *)

Used(r) == Cardinality({w \in DOMAIN workers[r]: workers[r][w].at # "none"})

\* Mutant of Drawn: a permit that was refused is returned all the same.
PermitSlots(r) == NumWorkers(r) - 1

(* The permits a request holds and returns. *)
Drawn(r) == Cardinality({w \in DOMAIN workers[r]: workers[r][w].permit})

Begin(r, w) ==
  workers' = [workers EXCEPT
    ![r][w].at = IF Surface(r) = "http_cpu" THEN "acquire" ELSE "claim"]

Permit(r) ==
  /\ req[r].pc = "permits"
  /\ LET w == req[r].next
         s == Surface(r)
         granted == permits[s] > 0
     IN \/ /\ s = "rpc_cpu" /\ w < NumWorkers(r)
           /\ req' = [req EXCEPT ![r].next = w + 1]
           /\ workers' = [workers EXCEPT ![r][w + 1].permit = granted]
           /\ permits' = [permits EXCEPT ![s] = @ - IF granted THEN 1 ELSE 0]
        \/ /\ s = "http_cpu" \/ w >= NumWorkers(r)
           /\ req' = [req EXCEPT ![r].next = 1,
                                 ![r].pc = IF NumWorkers(r) = 0 THEN "join" ELSE "fan"]
           /\ UNCHANGED <<workers, permits>>
  /\ UNCHANGED <<task, futs, free, faults, errors>>

FanOut(r) ==
  /\ req[r].pc = "fan"
  /\ LET w == Used(r) + 1
         s == Surface(r)
         granted == /\ w <= NumWorkers(r)
                    /\ IF s = "rpc_cpu" THEN workers[r][w].permit ELSE permits[s] > 0
     IN \/ /\ w = 1 \/ (s = "rpc_cpu" /\ granted)
           /\ Begin(r, w) /\ UNCHANGED <<req, permits>>
        \/ /\ w > 1 /\ s = "http_cpu" /\ granted
           /\ workers' = [workers EXCEPT ![r][w].at = "acquire", ![r][w].permit = TRUE]
           /\ permits' = [permits EXCEPT ![s] = @ - 1]
           /\ UNCHANGED req
        \/ /\ w > 1 /\ ~granted
           /\ req' = [req EXCEPT ![r].pc = "join"] /\ UNCHANGED <<workers, permits>>
  /\ UNCHANGED <<task, futs, free, faults, errors>>

(* The pool of CPU pipelines waits without a limit: an HTTP worker takes one for
   its life, an RPC worker one per image. *)
Acquire(r, w) ==
  /\ workers[r][w].at = "acquire" /\ free > 0
  /\ free' = free - 1
  /\ workers' = [workers EXCEPT ![r][w].holds = TRUE,
                   ![r][w].at = IF Surface(r) = "http_cpu" THEN "claim" ELSE "run"]
  /\ UNCHANGED <<req, task, futs, permits, faults, errors>>

Slots(r) == IF Surface(r) = "http_cpu" THEN Todo(r) ELSE [i \in DOMAIN Images(r) |-> i]

(* fetch_add on the shared counter. *)
NextClaim(r) == req[r].next + 1

Claim(r, w) ==
  /\ workers[r][w].at = "claim"
  /\ LET k == req[r].next
         over == k > Len(Slots(r))
         skip == ~over /\ req[r].tags[Slots(r)[k]] # NoTag
     IN /\ req' = IF over THEN req ELSE [req EXCEPT ![r].next = NextClaim(r)]
        /\ workers' = [workers EXCEPT
             ![r][w].k = k,
             ![r][w].holds = @ /\ ~over,
             ![r][w].at = IF over THEN "gone" ELSE IF skip THEN "claim"
                          ELSE IF Surface(r) = "http_cpu" THEN "run" ELSE "acquire"]
        /\ free' = free + IF over /\ workers[r][w].holds THEN 1 ELSE 0
  /\ UNCHANGED <<task, futs, permits, faults, errors>>

RunImage(r, w) ==
  /\ workers[r][w].at = "run"
  /\ LET i == Slots(r)[workers[r][w].k]
     IN req' = IF Images(r)[i].runs = "faulty" THEN Tag(r, i, "inference_failed")
               ELSE Fill(r, i, i)
  /\ LET back == OverRpc(Surface(r))
     IN /\ workers' = [workers EXCEPT ![r][w].at = "claim", ![r][w].holds = ~back]
        /\ free' = free + IF back THEN 1 ELSE 0
  /\ UNCHANGED <<task, futs, permits, faults, errors>>

(* The threads are joined before the permits are destroyed. *)
Joined(r) == \A w \in DOMAIN workers[r]: workers[r][w].at \in {"none", "gone"}

Join(r) ==
  /\ req[r].pc = "join" /\ Joined(r)
  /\ permits' = [permits EXCEPT ![Surface(r)] = @ + Drawn(r)]
  /\ workers' = [workers EXCEPT ![r] = [w \in DOMAIN @ |-> [@[w] EXCEPT !.permit = FALSE]]]
  /\ Reply(r, "200")
  /\ UNCHANGED <<task, futs, free, faults, errors>>

----------------------------------------------------------------------------
WorkerStep(r, w) == Acquire(r, w) \/ Claim(r, w) \/ RunImage(r, w)

Handler(r) ==
  \/ Prepare(r) \/ Submit(r) \/ Collect(r) \/ Expire(r)
  \/ SubmitSlots(r) \/ AwaitSlot(r)
  \/ Permit(r) \/ FanOut(r) \/ Join(r)

Next ==
  \/ \E r \in Requests:
       \/ Handler(r) \/ RunChunk(r) \/ Deadline(r)
       \/ \E i \in DOMAIN futs[r]: Resolve(r, i)
       \/ \E w \in DOMAIN workers[r]: WorkerStep(r, w)
  \/ OtherCallFails

(* Handlers and workers are threads that run; the clock moves; nothing is
   assumed of the dispatcher, whose GPU may be wedged. *)
Fairness ==
  \A r \in Requests:
    /\ WF_vars(Handler(r)) /\ WF_vars(Deadline(r))
    /\ WF_vars(\E w \in DOMAIN workers[r]: WorkerStep(r, w))

Spec == Init /\ [][Next]_vars /\ Fairness

----------------------------------------------------------------------------
(* In a reply with status 200 every slot holds the result of its own image or
   the tag of what went wrong with it, and never both. *)
SlotsAnswered ==
  \A r \in Requests: req[r].reply = "200" =>
    \A i \in DOMAIN Images(r):
      \/ req[r].outs[i] = i /\ req[r].tags[i] = NoTag
      \/ req[r].outs[i] = 0 /\ req[r].tags[i] # NoTag

(* An image that can be decoded and read by itself. *)
Blameless(im) ==
  im.form = "bytes" /\ im.decodes /\ im.runs \in {"fine", "poison"} /\ Verdict(im) = NoTag

(* The images retried just after a run that failed: the first of a chunk in which
   another image is not fine, and the one after an image that fails on its own. *)
AfterAFailure(images, todo, j) ==
  LET first == {c * ChunkImages + 1: c \in 0 .. Len(todo)}
      others == (j + 1) .. Min({j + ChunkImages - 1, Len(todo)})
  IN \/ j \in first /\ \E k \in others: images[todo[k]].runs # "fine"
     \/ j \notin first /\ images[todo[j - 1]].runs = "faulty"

Downstream(images, todo, i) ==
  \E j \in DOMAIN todo: todo[j] = i /\ AfterAFailure(images, todo, j)

(* A run that fails costs its own slot and at most one other, whatever the images
   of a batch do: a blameless image is tagged only for the budget of its batch, for
   its deadline, or because it ran just after a failed run and met the error that
   this one left in the last-error slot of their thread; and no error is met twice.
   On a CPU surface no neighbour pays. *)
NeighboursSpared ==
  /\ \A r \in Requests: req[r].reply = "200" =>
       \A i \in DOMAIN Images(r):
         Blameless(Images(r)[i]) =>
           \/ req[r].tags[i] = NoTag
           \/ req[r].tags[i] = "batch_pixels_exceeded" /\ ~DeviceJpeg(Surface(r), Images(r)[i])
           \/ req[r].tags[i] = "inference_timeout" /\ req[r].late
           \/ /\ req[r].tags[i] = "inference_failed"
              /\ \/ Surface(r) = "http_gpu" /\ Downstream(Images(r), Todo(r), i)
                 \/ Surface(r) = "rpc_gpu" /\ \E m \in met: m.r = r /\ m.slot = i
  /\ \A m, n \in met: m.of = n.of => m = n
  /\ \A m \in met: m.of \in 1 .. spills

(* What batch_support_gpu.cpp says of the retries ("per-slot isolation"), which
   does not hold: a readable image may be tagged for the image beside it. *)
PerSlotIsolation ==
  \A r \in Requests: req[r].reply = "200" =>
    \A i \in DOMAIN Images(r):
      Blameless(Images(r)[i]) => req[r].tags[i] # "inference_failed"

(* The images a batch holds decoded on the host at once, as far as their headers
   can be sniffed, stay within the pixel budget. *)
HeldPixels(s, images, todo) ==
  LET Held(i) == /\ \E j \in DOMAIN todo: todo[j] = i
                 /\ images[i].sniffed /\ HostDecoded(s, images[i])
      sum[i \in 0 .. Len(images)] ==
        IF i = 0 THEN 0 ELSE sum[i - 1] + IF Held(i) THEN images[i].pixels ELSE 0
  IN sum[Len(images)]

BudgetHeld ==
  \A r \in Requests:
    Todo(r) # <<>> => HeldPixels(Surface(r), Images(r), Todo(r)) <= PixelBudget

(* Extra worker threads of one surface never outnumber its permits, and every
   permit and pipeline is back when the last request has been answered. *)
Alive(r) == {w \in DOMAIN workers[r]: workers[r][w].at \notin {"none", "gone"}}
ExtrasOf(s) ==
  {x \in Requests \X (2 .. MaxWorkers): Surface(x[1]) = s /\ x[2] \in Alive(x[1])}

WorkersBounded ==
  /\ \A s \in Surfaces: Cardinality(ExtrasOf(s)) <= Permits
  /\ (\A r \in Requests: req[r].reply # "none")
       => free = Pipelines /\ \A s \in Surfaces: permits[s] = Permits

(* Every batch is answered, a wedged GPU notwithstanding. *)
BatchesEnd == \A r \in Requests: <>(req[r].reply # "none")
=============================================================================
