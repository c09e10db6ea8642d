----------------------------- MODULE Detection -----------------------------
(***************************************************************************)
(* The text detector around its network: the size a page is resized to,    *)
(* the canvas a batch of pages shares, and the boxes its post-processing   *)
(* reads off the bitmap.  Text is a filled bar of pixels <<x0, y0, x1,     *)
(* y1>>; the network itself is external: it marks each bar where the       *)
(* resized page shows it.                                                  *)
(***************************************************************************)
EXTENDS Integers, Sequences, SequencesExt, FiniteSetsExt

CONSTANTS DetMaxSideMin,  \* kDetMaxSideMin
          DetMaxSideMax,  \* kDetMaxSideMax
          DetBatch,       \* kMaxBatchSize
          MaxCandidates   \* kMaxCandidates

ASSUME SidesAssumption ==
  /\ DetMaxSideMin \in Nat \ {0} /\ DetMaxSideMax \in Nat /\ DetMaxSideMin <= DetMaxSideMax
  /\ DetBatch \in Nat \ {0}

MinBoxSide == 3          \* kMinBoxSide
MinUnclippedSide == 5    \* kMinUnclippedSide

Clamped(v, lo, hi) == Max({lo, Min({v, hi})})
\* a / b rounded to the nearest integer, a half up.
Rounded(a, b) == (2 * a + b) \div (2 * b)
\* The same for a coordinate that may be negative (round half away from 0).
RoundedAway(a, b) == IF a >= 0 THEN Rounded(a, b) ELSE -Rounded(-a, b)

\* round32_floor of the quotient num / den.
Round32(num, den) == Max({32 * Rounded(num, 32 * den), 32})

\* compute_det_resize: grow the shorter side to the limit ("min") or shrink
\* the longer one to it ("max"), cap the longer side, both in steps of 32.
DetResize(page, p) ==
  LET longest  == Max({page.h, page.w})
      shortest == Min({page.h, page.w})
      ratio == IF p.policy = "max"
               THEN IF longest > p.limit THEN <<p.limit, longest>> ELSE <<1, 1>>
               ELSE IF shortest < p.limit THEN <<p.limit, shortest>> ELSE <<1, 1>>
      h == Round32(page.h * ratio[1], ratio[2])
      w == Round32(page.w * ratio[1], ratio[2])
      out == Max({h, w})
  IN  IF out <= p.cap THEN [h |-> h, w |-> w]
      ELSE [h |-> Round32(h * p.cap, out), w |-> Round32(w * p.cap, out)]

\* read_det_resize: each variable that is set overrides the model's base; the
\* side an engine was built for caps the output too; the "max" policy without
\* a limit of its own means the cap.  Unset is 0.
ReadDetResize(base, env) ==
  LET policy == IF env.policy = "" THEN base.policy ELSE env.policy
      Bounded(v) == Clamped(v, DetMaxSideMin, DetMaxSideMax)
      cap0 == IF env.cap = 0 THEN base.cap ELSE Bounded(env.cap)
      cap  == IF env.side = 0 THEN cap0 ELSE Min({cap0, Bounded(env.side)})
      limit == IF env.limit # 0 THEN Bounded(env.limit)
               ELSE IF base.policy = "min" /\ policy = "max" THEN cap ELSE base.limit
  IN  [policy |-> policy, limit |-> limit, cap |-> cap]

\* effective_det_max_side: what the engine profile and every buffer is sized by.
EffectiveMaxSide(p, env) ==
  LET v == Clamped(IF env.side = 0 THEN p.cap ELSE env.side, DetMaxSideMin, DetMaxSideMax)
  IN  32 * ((v + 31) \div 32)

\* order_quad_tl_tr_br_bl: a stable sort by x, then the upper of each pair.
OrderQuad(q) ==
  LET byX == SetToSortSeq(1 .. 4, LAMBDA i, j : \/ q[i][1] < q[j][1]
                                                \/ q[i][1] = q[j][1] /\ i < j)
      p(k) == q[byX[k]]
      tl == IF p(1)[2] < p(2)[2] THEN 1 ELSE 2
      tr == IF p(3)[2] < p(4)[2] THEN 3 ELSE 4
  IN  <<p(tl), p(tr), p(7 - tr), p(3 - tl)>>

\* unclip of a bar and its minimal rectangle: the bar grown by the area times
\* the ratio (tenths) over the perimeter of the contour through its pixels.
Growth(bar, ratio) ==
  LET w == bar[3] - bar[1]
      h == bar[4] - bar[2]
  IN  IF w + h = 0 THEN 0 ELSE (w * h * ratio) \div (20 * (w + h))
Unclipped(bar, ratio) ==
  LET d == Growth(bar, ratio) IN <<bar[1] - d, bar[2] - d, bar[3] + d, bar[4] + d>>
MinSide(bar) == Min({bar[3] - bar[1], bar[4] - bar[2]})

\* A coordinate of the bitmap in the page: over the ratio of the page's own
\* resized side to its original one.
MapBack(v, content, orig) == Clamped(RoundedAway(v * orig, content), 0, orig - 1)
PageBox(bar, content, page) ==
  <<MapBack(bar[1], content.w, page.w), MapBack(bar[2], content.h, page.h),
    MapBack(bar[3], content.w, page.w), MapBack(bar[4], content.h, page.h)>>

\* extract_boxes_from_bitmap: the candidates in the order of the contours,
\* those too thin, too faint or too small after growth left out.
ExtractBoxes(bars, content, page, p) ==
  LET kept == SelectSeq(SubSeq(bars, 1, Min({Len(bars), MaxCandidates})),
                LAMBDA b : /\ b.bar[3] - b.bar[1] >= 2 /\ b.bar[4] - b.bar[2] >= 2
                           /\ MinSide(b.bar) >= MinBoxSide
                           /\ b.score >= p.boxThresh
                           /\ MinSide(Unclipped(b.bar, p.unclip)) >= MinUnclippedSide)
      boxes == [i \in DOMAIN kept |->
                  PageBox(Unclipped(kept[i].bar, p.unclip), content, page)]
  IN  SelectSeq(boxes, LAMBDA b : b[3] - b[1] > 3 /\ b[4] - b[2] > 3)

\* The bars of a page's text on a bitmap of the given size (external).
Marked(page, content) ==
  [i \in DOMAIN page.text |->
     [bar |-> <<(page.text[i][1] * content.w) \div page.w,
                (page.text[i][2] * content.h) \div page.h,
                (page.text[i][3] * content.w) \div page.w,
                (page.text[i][4] * content.h) \div page.h>>,
      score |-> 80]]

\* PaddleDet::run and CpuPaddleDet::run: one page on a bitmap of its own.
DetRun(page, p) ==
  LET size == DetResize(page, p) IN ExtractBoxes(Marked(page, size), size, page, p)

\* run_batch: up to DetBatch pages keep their own size in the corner of a
\* canvas as large as the largest, the others go one by one.
Canvas(pages, p) ==
  LET sizes == {DetResize(pages[i], p) : i \in 1 .. Min({Len(pages), DetBatch})}
  IN  [h |-> Max({s.h : s \in sizes}), w |-> Max({s.w : s \in sizes})]
\* Mutant of ContentSize: every page stretched to the canvas.
StretchedToCanvas(page, canvas, p) == canvas
ContentSize(page, canvas, p) == DetResize(page, p)
DetRunBatch(pages, p) ==
  [i \in DOMAIN pages |->
     IF Len(pages) = 1 \/ i > DetBatch THEN DetRun(pages[i], p)
     ELSE LET size == DetResize(pages[i], p)
              content == ContentSize(pages[i], Canvas(pages, p), p)
          IN  ExtractBoxes(Marked(pages[i], size), content, pages[i], p)]

-----------------------------------------------------------------------------
Covers(b, t) == b[1] <= t[1] /\ b[2] <= t[2] /\ b[3] >= t[3] /\ b[4] >= t[4]

\* The order of a rectangle's corners does not depend on the one it was given
\* in: clockwise (with y down) from an upper left corner.
QuadsClockwise(rect) ==
  \A shift \in 0 .. 3 :
    LET q == OrderQuad([k \in 1 .. 4 |-> rect[((k + shift - 1) % 4) + 1]])
        Turn(a, b, c) == (b[1] - a[1]) * (c[2] - b[2]) - (b[2] - a[2]) * (c[1] - b[1])
    IN  \A k \in 1 .. 4 : Turn(q[k], q[(k % 4) + 1], q[((k + 1) % 4) + 1]) > 0

\* Whatever the environment asks for, no page and no batch is resized beyond
\* the buffers and the engine profile (det_config.h).
FitsBuffers(pages, base, env) ==
  LET p == ReadDetResize(base, env)
      canvas == Canvas(pages, p)
  IN  canvas.h <= EffectiveMaxSide(p, env) /\ canvas.w <= EffectiveMaxSide(p, env)

\* In a batch, as alone, the boxes of a page are its own, one for each text
\* and around it, in the coordinates of that page.
FoundInPlace(pages, p) ==
  \A i \in DOMAIN pages :
    LET found == DetRunBatch(pages, p)[i]
    IN  /\ Len(found) = Len(pages[i].text)
        /\ \A k \in DOMAIN found : Covers(found[k], pages[i].text[k])
=============================================================================
