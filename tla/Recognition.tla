---------------------------- MODULE Recognition ----------------------------
(***************************************************************************)
(* From a detected box to a line of text: the width of the crop, the       *)
(* batches the CPU recogniser makes of them and the decoding of the        *)
(* network's output.  A box is [w, h], the lengths of the edges that leave *)
(* its first corner; an output row is one score per class.                 *)
(***************************************************************************)
EXTENDS Integers, Sequences, SequencesExt, FiniteSetsExt

CONSTANTS RecHeight,      \* rec_image_h_
          MinRecWidth,    \* kMinRecWidth
          MaxRecWidth,    \* kMaxRecWidth
          WidthBuckets,   \* kRecWidthBuckets
          Lanes           \* the floats of one vector register

ASSUME WidthsAssumption ==
  /\ RecHeight \in Nat \ {0} /\ MinRecWidth \in Nat \ {0} /\ MaxRecWidth \in Nat
  /\ MinRecWidth <= MaxRecWidth /\ MaxRecWidth \in WidthBuckets /\ WidthBuckets \in SUBSET Nat
ASSUME LanesAssumption == Lanes \in Nat \ {0}

Blank == 0

-----------------------------------------------------------------------------
\* load_label_dict behind the blank: the lines of the file, without their
\* carriage returns, and the space.
LabelList(lines) == <<"blank">> \o lines \o <<" ">>
\* load_dict refuses a dictionary that is not as wide as the network's output.
DictFits(lines, classes) == Len(LabelList(lines)) = classes

\* The class of a row of scores: the first of the highest (the scalar loop).
BestClass(row) ==
  (CHOOSE j \in DOMAIN row : /\ \A k \in DOMAIN row : row[k] <= row[j]
                             /\ \A k \in 1 .. j - 1 : row[k] < row[j]) - 1

\* argmax_avx2: each lane keeps the first highest of its columns, the lanes
\* are reduced with ties to the smaller column, the last columns follow.
LaneBest(row, lane) ==
  LET cols == {j \in DOMAIN row : (j - 1) % Lanes = lane
                                  /\ j <= Len(row) - (Len(row) % Lanes)}
  IN  CHOOSE j \in cols : \A k \in cols : row[k] < row[j] \/ (row[k] = row[j] /\ j <= k)
Beats(row, a, b) == row[b] > row[a] \/ (row[b] = row[a] /\ b < a)
BestClassInLanes(row) ==
  LET whole == Len(row) - (Len(row) % Lanes)
      tail  == [i \in 1 .. Len(row) - whole |-> whole + i]
      lanes == IF whole = 0 THEN <<1>>   \* no register was filled: index 0
               ELSE [l \in 1 .. Lanes |-> LaneBest(row, l - 1)]
      reduced == FoldLeft(LAMBDA a, b : IF Beats(row, a, b) THEN b ELSE a,
                          Head(lanes), Tail(lanes))
  IN  FoldLeft(LAMBDA a, b : IF row[b] > row[a] THEN b ELSE a, reduced, tail) - 1

\* ctc_greedy_decode: a class that differs from the one before it and is
\* neither the blank nor beyond the dictionary is written; the score is the
\* mean over what was written.  [text, sum, last].
Collapse(indices, scores, labels) ==
  FoldLeft(LAMBDA out, i :
             [last |-> indices[i],
              text |-> IF indices[i] # out.last /\ indices[i] \in 1 .. Len(labels) - 1
                       THEN Append(out.text, labels[indices[i] + 1]) ELSE out.text,
              sum  |-> IF indices[i] # out.last /\ indices[i] \in 1 .. Len(labels) - 1
                       THEN out.sum + scores[i] ELSE out.sum],
           [last |-> -1, text |-> <<>>, sum |-> 0], [i \in DOMAIN indices |-> i])
Decode(indices, scores, labels) ==
  LET out == Collapse(indices, scores, labels)
  IN  [text |-> out.text,
       score |-> IF out.text = <<>> THEN 0 ELSE out.sum \div Len(out.text)]

\* ctc_greedy_decode_raw, by either argmax.
DecodeRaw(rows, simd, labels) ==
  LET index == [i \in DOMAIN rows |->
                  IF simd THEN BestClassInLanes(rows[i]) ELSE BestClass(rows[i])]
  IN  Decode(index, [i \in DOMAIN rows |-> rows[i][index[i] + 1]], labels)

-----------------------------------------------------------------------------
\* compute_crop_transform: a box half again as high as wide is read sideways,
\* its edges swapped; the content is as wide as its aspect asks for.
Upright(box) == IF 2 * box.h >= 3 * box.w THEN [w |-> box.h, h |-> box.w] ELSE box
CropWidth(box, height, max) ==
  LET b == Upright(box)
      wide == IF b.h > 0 THEN (height * b.w + b.h - 1) \div b.h ELSE 0
  IN  Max({Min({wide, max}), 1})

\* Mutant of InputWidth: the aspect of the box as it lies.
RawAspectWidth(box) ==
  Max({Min({(RecHeight * box.w + box.h - 1) \div Max({box.h, 1}), MaxRecWidth}), MinRecWidth})
\* rec_input_width.
InputWidth(box) == Max({CropWidth(box, RecHeight, MaxRecWidth), MinRecWidth})

\* snap_width_bucket and snap_width_step.
SnapBucket(w) == Min({b \in WidthBuckets : b >= Min({w, MaxRecWidth})})
SnapStep(w, step) == Max({Min({((w + step - 1) \div step) * step, MaxRecWidth}), w})

\* CpuPaddleRec::run_batched: the crops sorted by bucket and cut into batches
\* of one bucket; answer k of a batch is that of the crop it was made from.
CpuOrder(boxes, step) ==
  SetToSortSeq(DOMAIN boxes,
    LAMBDA i, j : LET a == SnapStep(InputWidth(boxes[i]), step)
                      b == SnapStep(InputWidth(boxes[j]), step)
                  IN  a < b \/ (a = b /\ i < j))
CpuBatches(boxes, step, size) ==
  LET order == CpuOrder(boxes, step)
      width(k) == SnapStep(InputWidth(boxes[order[k]]), step)
  IN  FoldLeft(LAMBDA bs, k :
        IF bs # <<>> /\ Len(Last(bs).crops) < size /\ width(k) = Last(bs).width
        THEN Append(Front(bs), [Last(bs) EXCEPT !.crops = Append(@, order[k])])
        ELSE Append(bs, [width |-> width(k), crops |-> <<order[k]>>]),
      <<>>, [k \in DOMAIN boxes |-> k])
\* The crop whose pixels answer a box: [box, content] per box, from the row of
\* its batch (run) or from a batch of its own (run with a batch size of one).
CpuAnswers(boxes, step, size) ==
  LET batches == CpuBatches(boxes, step, size)
      Row(b, j) == [box |-> b.crops[j],
                    content |-> CropWidth(boxes[b.crops[j]], RecHeight,
                                          InputWidth(boxes[b.crops[j]])),
                    pad |-> b.width - InputWidth(boxes[b.crops[j]])]
  IN  FoldLeft(LAMBDA out, b :
        FoldLeft(LAMBDA o, j : [o EXCEPT ![b.crops[j]] = Append(@, Row(b, j))],
                 out, [j \in DOMAIN b.crops |-> j]),
      [i \in DOMAIN boxes |-> <<>>], batches)

-----------------------------------------------------------------------------
\* Every alignment of a text decodes to that text: any number of repetitions
\* of a class, blanks anywhere and at least one between equal neighbours.
\* The texts an alignment stands for, by the definition of the loss the
\* network was trained with: repetitions first, then the blanks.
AlignedText(indices, labels) ==
  LET starts == SelectSeq([i \in DOMAIN indices |-> i],
                          LAMBDA i : i = 1 \/ indices[i - 1] # indices[i])
      kept == SelectSeq(starts, LAMBDA i : indices[i] # Blank /\ indices[i] < Len(labels))
  IN  [k \in DOMAIN kept |-> labels[indices[kept[k]] + 1]]

\* The text and its score do not depend on which argmax found the classes
\* (the claim of ctc_decode.cpp), the text is that of the alignment, and the
\* score is between those of the rows.
TextDecoded(rows, labels) ==
  LET scalar == DecodeRaw(rows, FALSE, labels)
      best(i) == Max({rows[i][j] : j \in DOMAIN rows[i]})
  IN  /\ DecodeRaw(rows, TRUE, labels) = scalar
      /\ scalar.text = AlignedText([i \in DOMAIN rows |-> BestClass(rows[i])], labels)
      /\ scalar.text # <<>> =>
           /\ scalar.score <= Max({best(i) : i \in DOMAIN rows})
           /\ scalar.score >= Min({best(i) : i \in DOMAIN rows})

\* Each box is answered once, from its own crop; neither recogniser squeezes
\* a crop that is narrower than the widest, and the CPU one pads it by less
\* than a step.
CropsAnswered(boxes, step, size) ==
  LET answers == CpuAnswers(boxes, step, size)
      natural(i) == CropWidth(boxes[i], RecHeight, MaxRecWidth)
  IN  \A i \in DOMAIN boxes :
        /\ Len(answers[i]) = 1
        /\ answers[i][1].box = i
        /\ answers[i][1].content = natural(i)
        /\ answers[i][1].pad \in 0 .. step - 1
        /\ CropWidth(boxes[i], RecHeight, SnapBucket(InputWidth(boxes[i]))) = natural(i)
=============================================================================
