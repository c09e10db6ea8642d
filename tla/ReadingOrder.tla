---------------------------- MODULE ReadingOrder ----------------------------
(***************************************************************************)
(* From recognised text lines and layout cells to the order in which a     *)
(* page is read: which cell owns a line, the lines and direction of a      *)
(* cell, and the three strata (header, body, footer), each ordered by      *)
(* XY-cut, by label-aware insertion and by parent and child.               *)
(*                                                                         *)
(* results is a sequence of boxes (a text line each), layout a sequence of *)
(* [cls, box]; cell numbers are positions, 0 is "no cell".                 *)
(***************************************************************************)
EXTENDS XyCut, LayoutBlocks

ReadingPriorityBucket(cls) ==
  CASE cls \in {"header", "header_image"} -> 0
    [] cls \in {"footer", "footer_image", "footnote", "reference",
                "reference_content", "vision_footnote"} -> 2
    [] OTHER -> 1

\* assign_reading_order: the cells alone, stratum by stratum.
AssignReadingOrder(layout, gap) ==
  LET Stratum(k) ==
        LET own == SelectSeq([i \in DOMAIN layout |-> i], LAMBDA i :
                     ReadingPriorityBucket(layout[i].cls) = k)
        IN  Picked(own, XyCutSubset([n \in DOMAIN own |-> layout[own[n]].box], gap))
  IN  Stratum(0) \o Stratum(1) \o Stratum(2)

\* assign_layout_ids: the first cell that has the line's centre.  The lines
\* nobody owns share one supplementary cell, the smallest around them.
AssignLayoutIds(results, layout) ==
  LET owners(r) == {i \in DOMAIN layout : CentreInside(results[r], layout[i].box)}
      orphans   == {r \in DOMAIN results : owners(r) = {}}
      supp      == [cls |-> "supplementary",
                    box |-> Enclosing({results[r] : r \in orphans})]
  IN  IF layout = <<>>
      THEN [cells |-> layout, owner |-> [r \in DOMAIN results |-> 0]]
      ELSE [cells |-> IF orphans = {} THEN layout ELSE Append(layout, supp),
            owner |-> [r \in DOMAIN results |->
                         IF r \in orphans THEN Len(layout) + 1
                         ELSE Min(owners(r))]]

\* The lines of a cell: spans sorted along the page, a new line whenever
\* the next span overlaps the current one by less than three fifths of the
\* shorter.
Clusters(spans, vertical) ==
  LET sorted == StableSort(spans, LAMBDA a, b : IF vertical THEN a.x0 > b.x0
                                                ELSE a.y0 < b.y0)
      Joins(ln, s) ==
        LET shared == IF vertical THEN Shared(ln.x0, ln.x1, s.x0, s.x1)
                      ELSE Shared(ln.y0, ln.y1, s.y0, s.y1)
            small  == IF vertical THEN Smaller(Width(ln), Width(s))
                      ELSE Smaller(Height(ln), Height(s))
        IN  shared > 0 /\ small > 0 /\ 5 * shared >= 3 * small
      Step(lines, s) ==
        IF lines # <<>> /\ Joins(Last(lines), s)
        THEN Front(lines) \o <<Enclosing({Last(lines), s})>>
        ELSE Append(lines, s)
  IN  FoldLeft(Step, <<>>, sorted)

\* A majority of the spans is higher than one and a half times its width.
IsVertical(spans) ==
  LET wide == Cardinality({i \in DOMAIN spans :
                3 * Width(spans[i]) >= 2 * Height(spans[i])})
  IN  wide < (Len(spans) + 1) \div 2

Mean(s) == FoldLeft(+, 0, s) \div Len(s)

\* cluster_text_lines, for one cell: its line count, mean line height and
\* width, direction, and where its first line starts and its last one ends.
Measured(cell, ls, v) ==
  [cls |-> cell.cls, box |-> cell.box, vertical |-> v,
   lines      |-> Len(ls),
   lineHeight |-> Mean([i \in DOMAIN ls |-> Height(ls[i])]),
   lineWidth  |-> Mean([i \in DOMAIN ls |-> Width(ls[i])]),
   segStart   |-> IF v THEN Head(ls).y0 ELSE Head(ls).x0,
   segEnd     |-> IF v THEN Last(ls).y1 ELSE Last(ls).x1]
Clustered(cell, spans) ==
  IF spans = <<>>
  THEN [cls |-> cell.cls, box |-> cell.box, vertical |-> FALSE, lines |-> 0,
        lineHeight |-> 0, lineWidth |-> 0, segStart |-> 0, segEnd |-> 0]
  ELSE Measured(cell, Clusters(spans, IsVertical(spans)), IsVertical(spans))

\* Majority of the text cells; the means count those with a line in them.
InferPageDirection(cells) ==
  LET texts == {i \in DOMAIN cells : cells[i].cls = "text"}
      across == {i \in texts : ~cells[i].vertical}
  IN  texts # {} /\ Cardinality(across) < (Cardinality(texts) + 1) \div 2
PageMean(cells, measure) ==
  LET lined == SelectSeq(cells, LAMBDA c : c.cls = "text" /\ c.lineHeight > 0)
  IN  IF lined = <<>> THEN 0 ELSE Mean([i \in DOMAIN lined |-> lined[i][measure]])

\* Lines of one cell in rows: a row is as high as a third of the median
\* line, so that a jitter of some pixels does not split a table row.
RowOrder(results, members) ==
  LET heights == StableSort([i \in DOMAIN members |->
                   Larger(1, Height(results[members[i]]))], <)
      tol == Larger(4, heights[Len(heights) \div 2 + 1] \div 3)
      row(r) == (TwiceCentre(results[r])[2] \div 2) \div tol
  IN  IF Len(members) < 2 THEN members
      ELSE StableSort(members, LAMBDA a, b :
             \/ row(a) < row(b)
             \/ /\ row(a) = row(b)
                /\ TwiceCentre(results[a])[1] < TwiceCentre(results[b])[1])

\* Without a usable layout: by the centres, top to bottom, left to right.
YxOrder(results) ==
  LET c(r) == TwiceCentre(results[r])
  IN  StableSort([r \in DOMAIN results |-> r], LAMBDA a, b :
        c(a)[2] < c(b)[2] \/ (c(a)[2] = c(b)[2] /\ c(a)[1] < c(b)[1]))

\* x reflected at the right edge of the widest box, so that the cut's left
\* to right gives right to left.
Mirrored(boxes) ==
  LET edge == Max({0} \cup {boxes[i].x1 : i \in DOMAIN boxes})
  IN  [i \in DOMAIN boxes |-> [boxes[i] EXCEPT !.x0 = edge - boxes[i].x1,
                                               !.x1 = edge - boxes[i].x0]]

\* One stratum: the body cells (and, in the middle one, the orphan lines)
\* by XY-cut, the other cells inserted, each cell's lines followed by those
\* of its descendants.
BucketOrder(bucket, results, owner, cells, kids, gap) ==
  LET vertical  == InferPageDirection(cells)
      lineWidth == PageMean(cells, "lineWidth")
      IsOrphan(r) == cells[owner[r]].cls = "supplementary"
      Block(i)  == [at |-> i, line |-> 0, box |-> cells[i].box,
                    label |-> OrderLabelFor(cells[i].cls)]
      own == SelectSeq([i \in DOMAIN cells |-> i], LAMBDA i :
               /\ cells[i].cls # "supplementary"
               /\ ~IsChild(kids, i)
               /\ ReadingPriorityBucket(cells[i].cls) = bucket)
      blocks == [k \in DOMAIN own |-> Block(own[k])]
      strays == IF bucket # 1 THEN <<>>
                ELSE SelectSeq([r \in DOMAIN results |-> r], IsOrphan)
      regular == SelectSeq(blocks, LAMBDA b : b.label = "body")
                 \o [k \in DOMAIN strays |->
                       [at |-> 0, line |-> strays[k],
                        box |-> results[strays[k]], label |-> "body"]]
      boxes == [k \in DOMAIN regular |-> regular[k].box]
      cut   == XyCutSubset(IF vertical THEN Mirrored(boxes) ELSE boxes, gap)
      order == MatchUnsortedBlocks(Picked(regular, cut),
                 SelectSeq(blocks, LAMBDA b : b.label # "body"),
                 cells, lineWidth, vertical)
      LinesOf(i) == RowOrder(results, SelectSeq([r \in DOMAIN results |-> r],
                                                LAMBDA r : owner[r] = i))
      Emit(b) == IF b.at = 0 THEN <<b.line>>
                 ELSE LET tree == <<b.at>> \o Descendants(cells, kids, b.at)
                      IN  FlattenSeq([k \in DOMAIN tree |-> LinesOf(tree[k])])
  IN  FoldLeft(LAMBDA out, b : out \o Emit(b), <<>>, order)

\* Fewer than a twentieth of the lines lie in a cell of the layout model.
MostlyOrphans(results, owner, cells) ==
  Cardinality({r \in DOMAIN results : cells[owner[r]].cls # "supplementary"})
    < Larger(1, (5 * Len(results) + 99) \div 100)

WithoutRepeats(s) ==
  FoldLeft(LAMBDA acc, r : IF r \in ToSet(acc) THEN acc ELSE Append(acc, r),
           <<>>, s)

\* The strata one after the other, each line where it first comes.
OrderInStrata(results, owner, cells, kids, gap) ==
  WithoutRepeats(FoldLeft(LAMBDA order, k :
    order \o BucketOrder(k, results, owner, cells, kids, gap), <<>>, <<0, 1, 2>>))
StrataOrder(results, owner, layout, gap) ==
  LET spans(i) == LET mine == SelectSeq([r \in DOMAIN results |-> r],
                                        LAMBDA r : owner[r] = i)
                  IN  [k \in DOMAIN mine |-> results[mine[k]]]
      cells == [i \in DOMAIN layout |-> Clustered(layout[i], spans(i))]
  IN  OrderInStrata(results, owner, cells,
                    DetectChildBlocks(cells, PageMean(cells, "lineHeight")), gap)

\* assign_reading_order_for_results, after assign_layout_ids.
AssignReadingOrderForResults(results, layout, gap) ==
  LET ids    == AssignLayoutIds(results, layout)
      strata == StrataOrder(results, ids.owner, ids.cells, gap)
  IN  IF results = <<>> THEN <<>>
      ELSE IF layout = <<>> \/ MostlyOrphans(results, ids.owner, ids.cells)
      THEN YxOrder(results)
      ELSE Completed(strata, Len(results))
=============================================================================
