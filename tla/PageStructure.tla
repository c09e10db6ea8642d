--------------------------- MODULE PageStructure ---------------------------
(***************************************************************************)
(* The regions of a page, the lines in them and the titles of a document,  *)
(* and what the algorithms that give them a structure promise whatever     *)
(* they are given: that nothing is dropped, left to nobody or ranked       *)
(* below without a reason.                                                 *)
(***************************************************************************)
EXTENDS LayoutFilter, RegionRouter, DocAssembly

CONSTANTS LabelClasses,    \* the classes of the layout model
          ScoreThreshold,  \* below which a detection is none, in hundredths
          PageSizes        \* the pages looked at, [w, h]

ASSUME StructureAssumption ==
  /\ ScoreThreshold \in Nat /\ PageSizes \subseteq [w : Nat \ {0}, h : Nat \ {0}]
  /\ Rounds \in Nat /\ MaxHeaderRows \in Nat

VARIABLES subject,  \* what is looked at
          cells,    \* detections of the layout model, the regions of a page, or pages
          lines     \* detected lines of text, or titles

RectType == [x0 : Int, y0 : Int, x1 : Int, y1 : Int]
CellType == [cls : STRING, score : Nat, box : RectType]
TitleType == [words : Seq(STRING), height : Nat]
RowType == Seq([text : STRING, col : Nat, row : Nat])
\* Only tables have rows.
BlockType ==
  {b \in [label : STRING, width : Int, words : Seq(STRING), rows : Seq(RowType)] :
     b.label = "table" \/ b.rows = <<>>}
StructureTypeOK ==
  /\ subject \in {"raw", "route"} => cells \in Seq(CellType)
  /\ subject = "route" => lines \in Seq(RectType)
  /\ subject = "titles" => lines \in Seq(TitleType)
  /\ subject = "document" => cells \in Seq(Seq(BlockType))

\* The class of region i, its score and its lines send it to a recogniser.
Trusted(i) == /\ DestinationFor(cells[i].cls) # "text" /\ TierFor(cells[i]) # "fallback"
              /\ ~(GateOverlapPass(cells) /\ IsTextInFigure(i, lines, cells))
Salvaged(i) == GateOverlapPass(cells) /\ IsFormulaSalvageCandidate(i, lines, cells)
\* j may take the place of i.
Outranks(j, i) ==
  LET pi == ClassPriority(cells[i].cls)
      pj == ClassPriority(cells[j].cls)
  IN  /\ Rivals(cells[i].box, cells[j].box)
      /\ pj > pi \/ (pj = pi /\ cells[j].score + 1 >= cells[i].score)
Contested(i, j) ==
  LET a == cells[i].box
      b == cells[j].box
  IN  /\ SharedArea(a, b) > 0 /\ Rivals(a, b)
      /\ ~Encloses(a, b) /\ ~Encloses(b, a)
RoutedWell(plan) ==
  LET placed == plan.tables \cup plan.formulas \cup plan.skip
      Own(i) == LET dest == DestinationFor(cells[i].cls) IN
        IF dest = "table" THEN plan.tables ELSE IF dest = "formula" THEN plan.formulas ELSE plan.skip
  IN  /\ \A i \in placed : \/ (Trusted(i) /\ i \in Own(i))
                             \/ (Salvaged(i) /\ i \in plan.formulas)
      /\ \A i \in DOMAIN cells : Trusted(i) /\ i \notin Own(i) =>
           \E j \in DOMAIN cells \ {i} :
             \/ Outranks(j, i)
             \/ cells[i].cls # "table" /\ Encloses(cells[i].box, cells[j].box)
      /\ \A i, j \in placed : i # j => ~Contested(i, j)
      /\ \A d \in plan.suppressed :
           LET o == OwningCell(lines[d], cells)
           IN  CentreInside(lines[d], cells[o].box) /\ o \in plan.tables \cup plan.formulas

\* The router's plan: a region has a place in it by its class, its score and its
\* lines, or as a formula the layout model missed; a region that its class and score
\* send to a recogniser loses its place only to a rival of a higher priority, to one
\* of its own priority that is at most a hundredth less sure, or to what it encloses,
\* which no table does; no two regions with a place are rivals for it, unless one
\* encloses the other; and a line is marked as another recogniser's only if a
\* region planned for the table or formula recogniser has its centre
\* (CuaRouter::classify, resolve_tie_breakers).
RegionsRouted == subject = "route" => RoutedWell(Classify(lines, cells))

FilteredWell(boxes, w, h) ==
  LET found == Unsuppressed(boxes)
      seen == PagesOwn(boxes, w, h)
      kept == PostfilterLayoutBoxes(boxes, "inner", w, h)
  IN  /\ \A i \in DOMAIN boxes \ found : \E j \in found :
           j < i /\ Alike(boxes[j], boxes[i]) /\ boxes[j].score >= boxes[i].score
      /\ \A i, j \in found : i # j => ~Alike(boxes[i], boxes[j])
      /\ \A i \in seen \ kept : \E j \in kept : Inside(boxes[j], boxes[i])
      /\ \A i \in DOMAIN boxes : LET b == boxes[i].box IN
           0 <= b.x0 /\ b.x0 < b.x1 /\ b.x1 < w /\ 0 <= b.y0 /\ b.y0 < b.y1 /\ b.y1 < h

\* A detection is suppressed only for a better one of the same thing, and of what
\* stays no two are the same; in the mode that keeps inner boxes, what is dropped
\* contains a box that is kept; and all boxes have an area on the page, in whatever
\* order the sort leaves equal scores (postfilter_layout_boxes).
DroppedForAnInnerBox ==
  subject = "raw" => \A page \in PageSizes :
    LET some == DecodedRows(cells, LabelClasses, ScoreThreshold, page.w, page.h)
    IN  \A at \in Orders(some, cells) :
          FilteredWell(SortedBoxes(cells, at, page.w, page.h), page.w, page.h)

RowsOf(blocks) ==
  LET upTo[k \in 0 .. Len(blocks)] == IF k = 0 THEN <<>> ELSE upTo[k - 1] \o blocks[k].rows
  IN  upTo[Len(blocks)]
\* s is t without some of its elements.
IsLeftOf(s, t) ==
  LET found[n \in 0 .. Len(t)] ==
        IF n = 0 THEN 0
        ELSE LET m == found[n - 1] IN IF m < Len(s) /\ s[m + 1] = t[n] THEN m + 1 ELSE m
  IN  found[Len(t)] = Len(s)
RowsKept(before, after) ==
  /\ IsLeftOf(RowsOf(after), RowsOf(before))
  /\ \A r \in ToSet(RowsOf(before)) : \E s \in ToSet(RowsOf(after)) : SameHeader(s, r)
  /\ \A k \in DOMAIN after : after[k].group # k =>
       LET first == after[after[k].group]
       IN  after[k].rows = <<>> /\ first.group = after[k].group /\ first.rows # <<>>

\* Joining the tables of a document moves rows and loses none but repeated
\* header rows: the rows of all pages stay in order, and of a row left out one of
\* the same texts and widths is there; a joined table is empty and its group that
\* of a block which is in its own group and has rows, however many pages a table
\* runs over (merge_tables_across_pages).
TableRowsKept ==
  subject = "document" => RowsKept(AllBlocks(cells), MergeTablesAcrossPages(cells))

LevelsFall(levels) ==
  LET bySize(i) == SymbolAndLevel(lines[i].words)[2] < 0 /\ lines[i].words # <<"keyword">>
  IN  /\ \A i \in DOMAIN lines : levels[i] \in 1 .. 6
      /\ \A i, j \in DOMAIN lines :
           (bySize(i) /\ bySize(j) /\ lines[i].height > lines[j].height)
             => levels[i] <= levels[j]

\* Of two titles told apart by their size alone the larger is never the deeper one,
\* and every level is a Markdown heading (assign_title_levels).
LargerIsHigher == subject = "titles" => LevelsFall(TitleLevels(lines))
=============================================================================
