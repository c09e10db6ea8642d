------------------------------ MODULE RecQueue ------------------------------
(***************************************************************************)
(* The GPU text recogniser: a host thread sorts the crops of one or more   *)
(* images by width bucket and queues batch after batch on a CUDA stream    *)
(* that executes them in order, behind the host's back.  Every batch has a *)
(* slot of page-locked host buffers of its own; the device buffers are     *)
(* single.  Only when the slots are used up, and at the end, does the host *)
(* wait for the stream and decode what it has.                             *)
(*                                                                         *)
(* A crop is [img, box, width]; the contents of a device row is the image  *)
(* and the crop whose transform produced it.  A call is a sequence of      *)
(* images, each a sequence of crop widths.                                 *)
(***************************************************************************)
EXTENDS Integers, Sequences, FiniteSets, SequencesExt

CONSTANTS MaxBatch,      \* rec_batch_num_
          MaxSlots,      \* kMaxSlots
          Profiles,      \* kRecGraphProfiles, as records [batch, width]
          Calls,         \* the calls a worker may receive
          MaxCalls       \* bound: calls made in one behaviour

ASSUME RecQueueAssumption ==
  /\ MaxBatch \in Nat \ {0} /\ MaxSlots \in Nat \ {0} /\ MaxCalls \in Nat
  /\ \A p \in Profiles : p.batch \in Nat
  /\ Calls \subseteq Seq(Seq(Nat))

VARIABLES phase,         \* "idle", "queue", "warp", "decode" or "thrown"
          calls,         \* how many calls have begun
          crops,         \* the call's crops, sorted
          beg,           \* the first crop of the batch in hand
          row,           \* "warp": how many rows of it are queued to be warped
          slot,          \* the next output slot
          records,       \* batches queued and not decoded: [beg, end, slot]
          pinned,        \* per slot, the transforms the host wrote (h_M_invs)
          answers,       \* per slot, the rows copied back (h_indices, h_scores)
          transforms,    \* the device's copy of the transforms (d_M_invs_)
          pixels,        \* the batch input (d_batch_input_)
          output,        \* the logits (d_output_)
          stream,        \* the operations the device has not executed
          results,       \* per crop, what was emitted for it, in order
          dropped        \* per image, crops skipped as over-dimensioned

recVars == <<phase, calls, crops, beg, row, slot, records, pinned, answers,
             transforms, pixels, output, stream, results, dropped>>
deviceVars == <<answers, transforms, pixels, output>>

Slots == 0 .. MaxSlots - 1
Rows  == 1 .. MaxBatch
Nothing == [img |-> 0, box |-> 0, call |-> 0]

CropsOf(images) ==
  UNION {{[img |-> i, box |-> b, width |-> images[i][b]] : b \in DOMAIN images[i]} :
           i \in DOMAIN images}

\* A call's crops, sorted by bucket and image; std::ranges::sort leaves those
\* of one image and bucket in any order.
SortedCrops(images) ==
  {cs \in SetToSeqs(CropsOf(images)) :
     \A j, k \in DOMAIN cs : j < k =>
       \/ cs[j].width < cs[k].width
       \/ cs[j].width = cs[k].width /\ cs[j].img <= cs[k].img}

\* The exclusive end of the batch that begins at crop b.
BatchEnd(cs, b) ==
  CHOOSE e \in b + 1 .. Len(cs) + 1 :
    /\ e - b <= MaxBatch
    /\ \A i \in b .. e - 1 : cs[i].width = cs[b].width
    /\ e > Len(cs) \/ e - b = MaxBatch \/ cs[e].width # cs[b].width

\* The last crop before e of the run of crops of one image that begins at b.
RunEnd(cs, b, e) ==
  CHOOSE i \in b .. e - 1 :
    /\ \A k \in b .. i : cs[k].img = cs[b].img
    /\ i = e - 1 \/ cs[i + 1].img # cs[b].img

\* The rows a batch executes: those of the smallest recorded graph that fits,
\* when the batch fills three quarters of it, or exactly the batch's.
Baked == {p \in Profiles : p.batch <= MaxBatch}
Fitting(count, width) == {p.batch : p \in {q \in Profiles : q.width = width /\ q.batch >= count}}
ExecutedRows(count, width) ==
  LET fits == Fitting(count, width)
      best == CHOOSE n \in fits : \A m \in fits : n <= m
  IN  IF fits # {} /\ 4 * count >= 3 * best /\ [batch |-> best, width |-> width] \in Baked
      THEN best ELSE count

\* What the row of crop k is to hold, and the rows of the batch that begins
\* at crop b.
Content(k) == [img |-> crops[k].img, box |-> crops[k].box, call |-> calls]
Overwrite(old, new, n) == [r \in Rows |-> IF r <= n THEN new[r] ELSE old[r]]

\* An operation of the batch in hand on rows lo to hi.
Op(kind, lo, hi, img) ==
  [op |-> kind, call |-> calls, beg |-> beg, slot |-> slot, lo |-> lo, hi |-> hi, img |-> img]

\* The batch in hand, and how many crops it has.
End == BatchEnd(crops, beg)
Count == End - beg

RecInit ==
  /\ phase = "idle" /\ calls = 0 /\ crops = <<>> /\ beg = 1 /\ row = 0 /\ slot = 0
  /\ records = <<>> /\ stream = <<>> /\ results = <<>> /\ dropped = <<>>
  /\ pinned = [s \in Slots |-> [r \in Rows |-> Nothing]]
  /\ answers = [s \in Slots |-> [r \in Rows |-> Nothing]]
  /\ transforms = [r \in Rows |-> Nothing]
  /\ pixels = [r \in Rows |-> Nothing]
  /\ output = [r \in Rows |-> Nothing]

\* run() and run_multi() up to the queue loop.
Begin(images) ==
  /\ phase \in {"idle", "thrown"} /\ calls < MaxCalls
  /\ CropsOf(images) # {}
  /\ phase' = "queue" /\ calls' = calls + 1
  /\ crops' \in SortedCrops(images)
  /\ results' = [i \in DOMAIN crops' |-> <<>>]
  /\ dropped' = [i \in DOMAIN images |-> 0]
  /\ beg' = 1 /\ row' = 0 /\ slot' = 0 /\ records' = <<>>
  /\ UNCHANGED <<pinned, stream, deviceVars>>

\* A call without crops returns at once: the counts stay those of the last
\* call that had some.
NothingToRead(images) ==
  /\ phase \in {"idle", "thrown"} /\ calls < MaxCalls
  /\ CropsOf(images) = {}
  /\ phase' = "idle" /\ calls' = calls + 1
  /\ crops' = <<>> /\ results' = <<>> /\ records' = <<>>
  /\ beg' = 1 /\ row' = 0 /\ slot' = 0
  /\ UNCHANGED <<pinned, stream, dropped, deviceVars>>

\* The next batch, if it has a slot: the host writes the slot's transforms
\* and queues their copy, unless that throws.
Stage ==
  /\ phase = "queue" /\ beg <= Len(crops) /\ slot < MaxSlots
  /\ pinned' = [pinned EXCEPT ![slot] =
                  [r \in Rows |-> IF r <= Count THEN Content(beg + r - 1) ELSE @[r]]]
  /\ \/ phase' = "warp" /\ row' = 0 /\ stream' = Append(stream, Op("copy", 1, Count, 0))
     \/ phase' = "thrown" /\ UNCHANGED <<row, stream>>
  /\ UNCHANGED <<calls, crops, beg, slot, records, results, dropped, deviceVars>>

\* One warp for the crops of the next image in the batch.
Warp ==
  /\ phase = "warp" /\ row < Count
  /\ row' = RunEnd(crops, beg + row, End) - beg + 1
  /\ stream' = Append(stream, Op("warp", row + 1, row', crops[beg + row].img))
  /\ UNCHANGED <<phase, calls, crops, beg, slot, records, pinned, results, dropped, deviceVars>>

\* The inference of the batch and, when its output fits the decode buffers,
\* the argmax and the copy back, after which the batch is on record.
Infer ==
  /\ phase = "warp" /\ row = Count
  /\ LET infer == Op("infer", 1, ExecutedRows(Count, crops[beg].width), 0)
     IN  stream' = stream \o <<infer, Op("answer", 1, Count, 0)>>
  /\ records' = Append(records, [beg |-> beg, end |-> End, slot |-> slot])
  /\ phase' = "queue" /\ beg' = End /\ slot' = slot + 1
  /\ UNCHANGED <<calls, crops, row, pinned, results, dropped, deviceVars>>

\* Its output does not fit: the batch is counted and its slot left to the next.
InferOverDims ==
  /\ phase = "warp" /\ row = Count
  /\ stream' = Append(stream, Op("infer", 1, ExecutedRows(Count, crops[beg].width), 0))
  /\ dropped' = [i \in DOMAIN dropped |->
                   dropped[i] + Cardinality({k \in beg .. End - 1 : crops[k].img = i})]
  /\ phase' = "queue" /\ beg' = End
  /\ UNCHANGED <<calls, crops, row, slot, records, pinned, results, deviceVars>>

\* A launch or a wait throws; the stream keeps what was queued before it, the
\* inference included when what throws comes after it.
Throw ==
  /\ phase \in {"queue", "warp"}
  /\ phase' = "thrown"
  /\ \/ stream' = stream
     \/ /\ phase = "warp" /\ row = Count
        /\ stream' = Append(stream, Op("infer", 1, ExecutedRows(Count, crops[beg].width), 0))
  /\ UNCHANGED <<calls, crops, beg, row, slot, records, pinned, results, dropped, deviceVars>>

\* Mutant of Synchronised: the stream is not waited for.
NotAwaited == TRUE
\* cudaStreamSynchronize has returned.
Synchronised == stream = <<>>

\* No slot is left for the next batch, or there is no next: the host waits.
Synchronise ==
  /\ phase = "queue" /\ (beg > Len(crops) \/ slot >= MaxSlots)
  /\ Synchronised
  /\ phase' = "decode"
  /\ UNCHANGED <<calls, crops, beg, row, slot, records, pinned, stream, results,
                 dropped, deviceVars>>

\* decode_records emits the rows of the oldest record.
DecodeRecord ==
  /\ phase = "decode" /\ records # <<>>
  /\ LET rec == Head(records)
     IN  results' = [k \in DOMAIN results |->
                       IF k \in rec.beg .. rec.end - 1
                       THEN Append(results[k], answers[rec.slot][k - rec.beg + 1])
                       ELSE results[k]]
  /\ records' = Tail(records)
  /\ UNCHANGED <<phase, calls, crops, beg, row, slot, pinned, stream, dropped, deviceVars>>

\* All records are decoded: the next batch, or the end of the call.
Decoded ==
  /\ phase = "decode" /\ records = <<>>
  /\ phase' = IF beg > Len(crops) THEN "idle" ELSE "queue"
  /\ slot' = 0
  /\ UNCHANGED <<calls, crops, beg, row, records, pinned, stream, results, dropped, deviceVars>>

\* The device executes the oldest operation of the stream.  A warp reads an
\* image by a transform: what it writes is of that image only if the
\* transform belongs to it.
Warped(o, r) ==
  IF transforms[r].img = o.img /\ transforms[r].call = o.call THEN transforms[r] ELSE Nothing

ExecuteCopy(o) ==
  /\ o.op = "copy"
  /\ transforms' = Overwrite(transforms, pinned[o.slot], o.hi)
  /\ UNCHANGED <<pixels, output, answers>>
ExecuteWarp(o) ==
  /\ o.op = "warp"
  /\ pixels' = [r \in Rows |-> IF r \in o.lo .. o.hi THEN Warped(o, r) ELSE pixels[r]]
  /\ UNCHANGED <<transforms, output, answers>>
ExecuteInfer(o) ==
  /\ o.op = "infer"
  /\ output' = Overwrite(output, pixels, o.hi)
  /\ UNCHANGED <<transforms, pixels, answers>>
ExecuteAnswer(o) ==
  /\ o.op = "answer"
  /\ answers' = [answers EXCEPT ![o.slot] = Overwrite(@, output, o.hi)]
  /\ UNCHANGED <<transforms, pixels, output>>

Execute ==
  /\ stream # <<>>
  /\ LET o == Head(stream)
     IN  ExecuteCopy(o) \/ ExecuteWarp(o) \/ ExecuteInfer(o) \/ ExecuteAnswer(o)
  /\ stream' = Tail(stream)
  /\ UNCHANGED <<phase, calls, crops, beg, row, slot, records, pinned, results, dropped>>

RecNext == \/ \E images \in Calls : (Begin(images) \/ NothingToRead(images))
           \/ Stage \/ Warp \/ Infer \/ InferOverDims \/ Throw
           \/ Synchronise \/ DecodeRecord \/ Decoded
           \/ Execute

-----------------------------------------------------------------------------
\* When a call returns, every crop has been emitted exactly once, with the
\* rows its own pixels produced, or not at all, and then it is counted as
\* dropped against its image: no slot, row or batch is ever mixed up with
\* another, whatever the device had executed when the host reused a buffer.
EveryCropItsOwn ==
  phase = "idle" /\ crops # <<>> =>
    /\ \A k \in DOMAIN crops : results[k] \in {<<>>, <<Content(k)>>}
    /\ \A i \in DOMAIN dropped :
         dropped[i] = Cardinality({k \in DOMAIN crops : crops[k].img = i /\ results[k] = <<>>})

\* The counts are of the call made last, whatever it had to read (paddle_rec.h
\* lines 55 to 59).  It fails: a call without crops leaves those before it.
CountsOfTheLastCall ==
  phase = "idle" => \A i \in DOMAIN dropped :
    dropped[i] = Cardinality({k \in DOMAIN crops : crops[k].img = i /\ results[k] = <<>>})
=============================================================================
