------------------------------- MODULE XyCut -------------------------------
(***************************************************************************)
(* The recursive XY-cut that orders the blocks of a page: columns by the   *)
(* gaps of the horizontal projection, rows of a column by the gaps of the  *)
(* vertical one, and again inside each row.  A projection is the set of    *)
(* bins some box covers, since only "more than zero" is ever asked of it.  *)
(***************************************************************************)
EXTENDS Boxes

CONSTANTS ProjectionMaxBins,  \* kProjectionMaxBins, 4096 in the code
          MaxXyCutDepth       \* kMaxXyCutDepth, 64 in the code

Extent(b, axis) == IF axis = "x" THEN <<b.x0, b.x1>> ELSE <<b.y0, b.y1>>

\* The width of a bin, in pixels: 1 until the page outgrows the histogram.
ProjectionScale(maxEnd) ==
  IF maxEnd <= ProjectionMaxBins THEN 1
  ELSE (maxEnd + ProjectionMaxBins - 1) \div ProjectionMaxBins

\* The bins of width scale that a box covers; a start below zero is clamped.
BinsOf(b, axis, scale) ==
  LET a == Larger(0, Extent(b, axis)[1])
      e == Extent(b, axis)[2]
  IN  IF a >= e THEN {} ELSE (a \div scale) .. ((e + scale - 1) \div scale - 1)

\* The runs of covered bins: a new one starts where the distance to the
\* last covered bin exceeds gap.  Ends are exclusive.
SplitProfile(covered, gap) ==
  LET starts == {i \in covered : \A j \in covered : j < i => i - j > gap}
      last(i) == Max({j \in covered :
                        j >= i /\ \A s \in starts : s <= i \/ s > j})
  IN  [k \in 1 .. Cardinality(starts) |->
         LET i == Ascending(starts)[k] IN <<i, last(i) + 1>>]

\* Mutant of Segments: left in bins.
SegmentsInBins(rects, order, axis, gap) ==
  LET bs == {rects[i] : i \in ToSet(order)}
      scale == ProjectionScale(Max({0} \cup {Extent(b, axis)[2] : b \in bs}))
  IN  SplitProfile(UNION {BinsOf(b, axis, scale) : b \in bs}, gap)

Lifted(cuts, scale) ==
  [k \in DOMAIN cuts |-> <<cuts[k][1] * scale, cuts[k][2] * scale>>]
SegmentsAt(scale, bs, axis, gap) ==
  Lifted(SplitProfile(UNION {BinsOf(b, axis, scale) : b \in bs},
                      IF scale = 1 THEN gap ELSE Larger(1, gap \div scale)), scale)

\* The segments of the boxes named in order, lifted back to pixels.
Segments(rects, order, axis, gap) ==
  LET bs == {rects[i] : i \in ToSet(order)}
  IN  SegmentsAt(ProjectionScale(Max({0} \cup {Extent(b, axis)[2] : b \in bs})),
                 bs, axis, gap)

Absolute(n) == IF n < 0 THEN -n ELSE n

\* The boxes whose start lies in a segment, in the order they had.
Within(order, seg, start) ==
  SelectSeq(order, LAMBDA i : seg[1] <= start[i] /\ start[i] < seg[2])

RECURSIVE Cut(_, _, _, _)

\* One column: its rows top to bottom, each cut again unless it is the
\* only one or makes no progress.
CutRows(rects, byY, rows, gap, depth) ==
  LET top == [i \in DOMAIN rects |-> rects[i].y0]
      Row(seg) == LET row == Within(byY, seg, top)
                  IN  IF Len(row) = Len(byY) THEN row
                      ELSE Cut(rects, row, gap, depth + 1)
  IN  IF Len(rows) <= 1 THEN byY
      ELSE FlattenSeq([k \in DOMAIN rows |-> Row(rows[k])])
CutColumn(rects, column, gap, depth) ==
  LET byY == StableSort(column, LAMBDA i, j : rects[i].y0 < rects[j].y0)
  IN  CutRows(rects, byY, Segments(rects, byY, "y", gap), gap, depth)

\* The columns left to right; a negative start marks a right-to-left page.
CutColumns(rects, byX, segs, gap, depth) ==
  LET left == [i \in DOMAIN rects |-> Absolute(rects[i].x0)]
      cols == IF rects[byX[1]].x0 < 0 THEN Reverse(segs) ELSE segs
  IN  IF segs = <<>> THEN byX
      ELSE FlattenSeq([k \in DOMAIN cols |->
             CutColumn(rects, Within(byX, cols[k], left), gap, depth)])

Cut(rects, order, gap, depth) ==
  LET byX == StableSort(order, LAMBDA i, j : rects[i].x0 < rects[j].x0)
  IN  IF Len(order) <= 1 \/ depth >= MaxXyCutDepth THEN order
      ELSE CutColumns(rects, byX, Segments(rects, byX, "x", 1), gap, depth)

\* recursive_xy_cut: the indices of rects in reading order.
RecursiveXyCut(rects, gap) == Cut(rects, [i \in DOMAIN rects |-> i], gap, 0)

\* What every caller does with it: an index the recursion dropped is
\* appended in input order.
Completed(order, n) == order \o SelectSeq([i \in 1 .. n |-> i], LAMBDA i : i \notin ToSet(order))
XyCutSubset(rects, gap) == Completed(RecursiveXyCut(rects, gap), Len(rects))

Picked(s, order) == [k \in DOMAIN order |-> s[order[k]]]
=============================================================================
