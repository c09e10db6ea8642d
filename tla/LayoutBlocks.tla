---------------------------- MODULE LayoutBlocks ----------------------------
(***************************************************************************)
(* Which blocks of a page belong to another: the captions and footnotes of *)
(* an image, table or chart, the sub-headings of a heading, the sub-title  *)
(* and authors under a document title.  Parents claim children greedily,   *)
(* in three rounds, and a claimed block is nobody else's child.            *)
(*                                                                         *)
(* And where the blocks that the XY-cut leaves out (titles, figures,       *)
(* captions, cross references, page numbers) are inserted among the sorted *)
(* ones.                                                                   *)
(*                                                                         *)
(* A cell is [cls, box, lines, lineHeight, vertical, segStart, segEnd],    *)
(* with what the line clustering found in it; page is the mean line height *)
(* of the page's text cells.                                               *)
(***************************************************************************)
EXTENDS Boxes

----------------------------------------------------------------------------
(* Children.                                                               *)

Vision == {"image", "table", "chart"}

\* Gap between two boxes, summed over the axes they do not overlap on.
NearestEdge(a, b) ==
  LET gap(a0, a1, b0, b1) ==
        IF Shared(a0, a1, b0, b1) > 0 THEN 0
        ELSE Smaller(Distance(a0, b1), Distance(a1, b0))
  IN  gap(a.x0, a.x1, b.x0, b.x1) + gap(a.y0, a.y1, b.y0, b.y1)

\* More than nine tenths of the smaller box is shared.
Engulfed(a, b) ==
  LET small == Smaller(Area(a), Area(b))
  IN  small > 0 /\ 10 * SharedArea(a, b) > 9 * small

SameColumn(a, b) ==
  LET small == Smaller(a.x1 - a.x0, b.x1 - b.x0)
  IN  small > 0 /\ 10 * Shared(a.x0, a.x1, b.x0, b.x1) > small

\* Lines in a cell and their height; a cell without text is measured in
\* lines of the page.
NumLines(c, page) ==
  IF c.lines > 0 THEN c.lines
  ELSE Larger(1, Larger(1, Height(c.box)) \div Larger(1, page))
LineHeight(c, page) == IF c.lineHeight > 0 THEN c.lineHeight ELSE Larger(1, page)

Indices(cells, classes) ==
  SelectSeq([i \in DOMAIN cells |-> i], LAMBDA i : cells[i].cls \in classes)

\* The candidates above and below a parent, nearest first.
Above(cells, p, cand) ==
  StableSort(SelectSeq(cand, LAMBDA i : /\ SameColumn(cells[p].box, cells[i].box)
                                        /\ cells[i].box.y1 <= cells[p].box.y0),
             LAMBDA i, j : cells[i].box.y1 > cells[j].box.y1)
Below(cells, p, cand) ==
  StableSort(SelectSeq(cand, LAMBDA i : /\ SameColumn(cells[p].box, cells[i].box)
                                        /\ cells[i].box.y1 > cells[p].box.y0
                                        /\ cells[i].box.y0 >= cells[p].box.y1),
             LAMBDA i, j : cells[i].box.y0 < cells[j].box.y0)

\* The claims so far: kids of every cell, the claimed ones, and for the
\* parent being served whether its run ended and its footnote is found.
NoClaims(cells) == [kids |-> [i \in DOMAIN cells |-> <<>>], claimed |-> {},
                    stop |-> FALSE, footnote |-> FALSE]
Claim(st, p, i) == [st EXCEPT !.kids[p] = Append(@, i),
                              !.claimed = @ \cup {i}]
Free(st, i) == i \notin st.claimed
Fresh(st) == [st EXCEPT !.stop = FALSE]

\* Every text that lies in the parent is its child, near or not.
ClaimEngulfed(cells, st, p, texts) ==
  FoldLeft(LAMBDA s, i : IF Free(s, i) /\ Engulfed(cells[p].box, cells[i].box)
                         THEN Claim(s, p, i) ELSE s, st, texts)

\* A small block of at most two lines right next to a document title.
IsSubtitle(cells, page, p, i) ==
  LET parent == cells[p].box
      cand   == cells[i].box
  IN  /\ ShortSide(cand) < (ShortSide(parent) * 4) \div 5
      /\ \/ LongSide(cand) < LongSide(parent)
         \/ LongSide(cand) > (LongSide(parent) * 3) \div 2
      /\ NumLines(cells[i], page) < 3
      /\ NearestEdge(parent, cand) < 2 * LineHeight(cells[i], page)

DocTitleChildren(cells, page, st, p) ==
  LET texts == Indices(cells, {"text"})
      Try(s, run) == IF /\ run # <<>>
                        /\ Free(s, run[1])
                        /\ IsSubtitle(cells, page, p, run[1])
                     THEN Claim(s, p, run[1]) ELSE s
      near == Try(Try(st, Above(cells, p, texts)), Below(cells, p, texts))
  IN  ClaimEngulfed(cells, near, p, texts)

\* A run of headings with the parent's left edge, up to the first that is
\* taken, shifted or too far.
ParagraphTitleChildren(cells, page, st, p) ==
  LET titles == Indices(cells, {"paragraph_title"})
      height(i) == Smaller(LineHeight(cells[p], page), LineHeight(cells[i], page))
      Near(i) == /\ Distance(cells[i].box.x0, cells[p].box.x0) < 2 * height(i)
                 /\ NearestEdge(cells[p].box, cells[i].box)
                      <= (height(i) * 3) \div 2
      Step(s, i) == IF s.stop \/ i = p THEN s
                    ELSE IF Free(s, i) /\ Near(i) THEN Claim(s, p, i)
                    ELSE [s EXCEPT !.stop = TRUE]
      Run(s, run) == FoldLeft(Step, Fresh(s), run)
  IN  Run(Run(st, Above(cells, p, titles)), Below(cells, p, titles))

\* A short text under or over a figure: centred on it, or one line that
\* shares its left or right edge.
IsCaption(cells, page, p, i) ==
  LET parent == cells[p].box
      cand   == cells[i].box
      mid(b) == (b.x0 + b.x1) \div 2
  IN  /\ LongSide(cand) < LongSide(parent)
      /\ \/ /\ ShortSide(cand) < ShortSide(parent)
            /\ LongSide(cand) < LongSide(parent) \div 2
            /\ Distance(mid(parent), mid(cand)) < 10
         \/ /\ NumLines(cells[i], page) = 1
            /\ \/ Distance(parent.x0, cand.x0) < 10
               \/ Distance(parent.x1, cand.x1) < 10

VisionChildren(cells, page, st, p) ==
  LET texts == Indices(cells, {"text"})
      refs  == texts \o Indices(cells, {"figure_title"})
      Near(i) == NearestEdge(cells[p].box, cells[i].box)
                   <= 2 * LineHeight(cells[i], page)
      Step(s, i) ==
        IF s.stop THEN s
        ELSE IF Free(s, i) /\ Near(i) /\ cells[i].cls = "figure_title"
             THEN Claim(s, p, i)
        ELSE IF /\ Free(s, i) /\ Near(i) /\ cells[i].cls = "text"
                /\ ~s.footnote
                /\ IsCaption(cells, page, p, i)
             THEN [Claim(s, p, i) EXCEPT !.footnote = TRUE]
        ELSE [s EXCEPT !.stop = TRUE]
      Run(s, run) == FoldLeft(Step, Fresh(s), run)
      near == Run(Run([st EXCEPT !.footnote = FALSE], Above(cells, p, refs)),
                  Below(cells, p, refs))
  IN  ClaimEngulfed(cells, near, p, texts)

\* Mutant of MayParent.
EveryCellParent(st, p) == TRUE

\* A cell another cell has claimed is no parent any more.
MayParent(st, p) == Free(st, p)

\* detect_child_blocks: figures first, then headings, then the title.
DetectChildBlocks(cells, page) ==
  LET Round(st, parents, Children(_, _)) ==
        FoldLeft(LAMBDA s, p : IF MayParent(s, p) THEN Children(s, p) ELSE s,
                 st, parents)
      visions == Round(NoClaims(cells), Indices(cells, Vision),
                       LAMBDA s, p : VisionChildren(cells, page, s, p))
      titles  == Round(visions, Indices(cells, {"paragraph_title"}),
                       LAMBDA s, p : ParagraphTitleChildren(cells, page, s, p))
      docs    == Round(titles, Indices(cells, {"doc_title"}),
                       LAMBDA s, p : DocTitleChildren(cells, page, s, p))
  IN  IF page <= 0 THEN NoClaims(cells).kids ELSE docs.kids

IsChild(kids, i) == \E p \in DOMAIN kids : i \in ToSet(kids[p])

\* flatten_descendants: the tree below a cell, depth first, the children
\* of one parent top to bottom and then left to right.
RECURSIVE Walk(_, _, _, _)
Walk(cells, kids, todo, seen) ==
  IF todo = <<>> THEN Tail(seen)
  ELSE LET c == Head(todo)
           below == StableSort(kids[c], LAMBDA i, j :
                      \/ cells[i].box.y0 < cells[j].box.y0
                      \/ /\ cells[i].box.y0 = cells[j].box.y0
                         /\ cells[i].box.x0 < cells[j].box.x0)
       IN  IF c \in ToSet(seen) THEN Walk(cells, kids, Tail(todo), seen)
           ELSE Walk(cells, kids, below \o Tail(todo), Append(seen, c))
Descendants(cells, kids, p) == Walk(cells, kids, <<p>>, <<>>)

\* splice_child_blocks: children leave their own places and follow their
\* parent; a child whose parent is not in the list is kept at the end.
SpliceChildBlocks(cells, kids, sorted) ==
  LET top  == SelectSeq(sorted, LAMBDA i : ~IsChild(kids, i))
      tree == FlattenSeq([k \in DOMAIN top |->
                <<top[k]>> \o Descendants(cells, kids, top[k])])
  IN  tree \o SelectSeq([i \in DOMAIN cells |-> i],
                        LAMBDA i : IsChild(kids, i) /\ i \notin ToSet(tree))

----------------------------------------------------------------------------
(* Insertion.  A block is [at, box, label]: at is its cell, or 0 for a     *)
(* text line that lies in no cell.                                         *)

OrderLabelFor(cls) ==
  CASE cls = "doc_title"       -> "doc_title"
    [] cls = "paragraph_title" -> "paragraph_title"
    [] cls = "figure_title"    -> "vision_title"
    [] cls \in {"image", "table", "chart"} -> "vision"
    [] cls \in {"reference", "reference_content", "footnote", "vision_footnote"}
         -> "cross_reference"
    [] cls \in {"aside_text", "number", "formula_number", "seal"} -> "unordered"
    [] OTHER -> "body"

InsertAfter(s, k, b) == SubSeq(s, 1, k) \o <<b>> \o SubSeq(s, k + 1, Len(s))

\* The first index of the least element.
LeastIndex(s) ==
  CHOOSE i \in DOMAIN s : \A j \in DOMAIN s :
    \/ s[i] < s[j]
    \/ (s[i] = s[j] /\ i <= j)

\* A cross reference follows the lowest of the rightmost blocks above it,
\* and the first block when none is above it.
ReferenceInsert(b, s) ==
  LET above == {i \in DOMAIN s : s[i].box.y1 <= b.box.y0}
      far(i) == 10 * s[i].box.x1 + s[i].box.y1
      nearest == IF above = {} THEN 1
                 ELSE CHOOSE i \in above : \A j \in above :
                        \/ far(j) < far(i)
                        \/ (far(j) = far(i) /\ i <= j)
  IN  IF s = <<>> THEN <<b>> ELSE InsertAfter(s, nearest, b)

\* An unordered block follows the one with the nearest top left corner.
ManhattanInsert(b, s) ==
  LET dist == [i \in DOMAIN s |->
                 Distance(b.box.x0, s[i].box.x0) + Distance(b.box.y0, s[i].box.y0)]
  IN  IF s = <<>> THEN <<b>>
      ELSE InsertAfter(s, LeastIndex(dist), b)

\* The square of the (doubled) centre's distance from the page's corner.
Radius(box) == LET c == TwiceCentre(box) IN c[1] * c[1] + c[2] * c[2]

EuclideanInsert(b, s) ==
  LET further == {i \in DOMAIN s : Radius(s[i].box) > Radius(b.box)}
  IN  InsertAfter(s, IF further = {} THEN Len(s) ELSE Min(further) - 1, b)

\* seg_start_flag is false: the cell goes on with the paragraph that the
\* cell before it left unfinished at its far edge.
Continues(cells, cur, prev, vertical) ==
  LET c == cells[cur]
      p == cells[prev]
      farEdge  == IF vertical THEN p.box.y1 ELSE p.box.x1
      nearEdge == IF vertical THEN c.box.y0 ELSE c.box.x0
  IN  /\ p.lines > 1 /\ c.lines > 0 /\ p.lineHeight > 0
      /\ p.vertical = vertical /\ c.vertical = vertical
      /\ Distance(p.segEnd, farEdge) < 10
      /\ Distance(c.segStart, nearEdge) < 10

\* Ten times the directional weights <<left, right, up, down>>.
WeightsFor(label, vertical) ==
  IF label = "doc_title"
  THEN IF vertical THEN <<2, 1, 10, 10>> ELSE <<10, 1, 1, 10>>
  ELSE <<10, 10, 1, 10>>

\* Ten times the weighted gap between two boxes.
WeightedEdge(a, b, w) ==
  (IF Shared(a.x0, a.x1, b.x0, b.x1) > 0 THEN 0
   ELSE Smaller(Distance(a.x0, b.x1), Distance(a.x1, b.x0))
          * (IF a.x1 < b.x0 THEN w[1] ELSE w[2]))
  + (IF Shared(a.y0, a.y1, b.y0, b.y1) > 0 THEN 0
     ELSE Smaller(Distance(a.y0, b.y1), Distance(a.y1, b.y0))
            * (IF a.y1 < b.y0 THEN w[3] ELSE w[4]))

Unbounded == 1000000   \* the infinity the scan starts from

\* The place after which a title or figure goes: a scan that keeps the
\* least <<1000 * edge + up, left>> (the code's 10^4, 1 and 10^-4 weights)
\* and decides before or after each time it finds a smaller one.
WeightedInsert(b, s, cells, lineWidth, vertical) ==
  LET w == WeightsFor(b.label, vertical)
      isVision == b.label \in {"vision", "vision_title"}
      tolerance == IF b.label = "doc_title" THEN Larger(2, lineWidth) ELSE 2
      InCells(i) == s[i].at # 0
      \* Inserting after s[i], or before it, with the paragraph kept whole.
      After(i) == IF /\ isVision /\ i < Len(s)
                     /\ InCells(i) /\ InCells(i + 1)
                     /\ Continues(cells, s[i + 1].at, s[i].at, vertical)
                  THEN i + 1 ELSE i
      Before(i) == IF /\ isVision /\ i > 1
                      /\ InCells(i) /\ InCells(i - 1)
                      /\ Continues(cells, s[i].at, s[i - 1].at, vertical)
                   THEN i - 2 ELSE i - 1
      IsLater(t) ==
        IF b.box.y0 \div 2 # t.y0 \div 2 THEN b.box.y0 > t.y0
        ELSE IF ~vertical /\ b.box.x0 \div 2 # b.box.x1 \div 2
             THEN b.box.x0 > t.x0
        ELSE IF vertical /\ b.box.x0 # b.box.x1 THEN -b.box.x1 > -t.x1
        ELSE Radius(b.box) \div 4 > Radius(t) \div 4
      Step(st, i) ==
        LET t     == s[i].box
            below == IF vertical THEN t.x0 > b.box.x1 ELSE t.y1 < b.box.y0
            sign  == IF below THEN -1 ELSE 1
            raw   == sign * (IF vertical THEN -t.x1 ELSE t.y0)
            up    == IF Distance(st.up, raw) <= tolerance THEN st.up ELSE raw
            left  == sign * (IF vertical THEN t.y0 ELSE t.x0)
            cost  == <<1000 * WeightedEdge(b.box, t, w) + up, left>>
            better == \/ cost[1] < st.cost[1]
                      \/ cost[1] = st.cost[1] /\ cost[2] < st.cost[2]
        IN  [up   |-> Smaller(up, st.up),
             cost |-> IF better THEN cost ELSE st.cost,
             at   |-> IF ~better THEN st.at
                      ELSE IF IsLater(t) THEN After(i) ELSE Before(i)]
      scan == FoldLeft(Step, [up |-> Unbounded, cost |-> <<100 * Unbounded, 0>>,
                              at |-> 0], [i \in DOMAIN s |-> i])
  IN  IF s = <<>> THEN <<b>> ELSE InsertAfter(s, scan.at, b)

MatchUnsortedBlock(b, s, cells, lineWidth, vertical) ==
  CASE b.label = "cross_reference" -> ReferenceInsert(b, s)
    [] b.label = "unordered" -> ManhattanInsert(b, s)
    [] b.label = "body" -> EuclideanInsert(b, s)
    [] OTHER -> WeightedInsert(b, s, cells, lineWidth, vertical)

\* Document titles first, then the rest in their order.
MatchUnsortedBlocks(sorted, unsorted, cells, lineWidth, vertical) ==
  LET IsDoc(b) == b.label = "doc_title"
      order == SelectSeq(unsorted, IsDoc)
               \o SelectSeq(unsorted, LAMBDA b : ~IsDoc(b))
  IN  FoldLeft(LAMBDA s, b : MatchUnsortedBlock(b, s, cells, lineWidth, vertical),
               sorted, order)
=============================================================================
