------------------------------ MODULE Markdown ------------------------------
(***************************************************************************)
(* The Markdown view of a page: which region's text is written, in what    *)
(* order and in what form.  A cell is [cls, box]; a line is                *)
(* [text, owner, box] with a sequence of characters and the cell it was    *)
(* assigned to (0 when none was).  A part of the document is               *)
(* [kind, cell, body].  What a recogniser read of a formula is one of      *)
(* Results: nothing, LaTeX that repeats itself, LaTeX the viewer rejects,  *)
(* or LaTeX it shows; the scanners that tell them apart are left out.      *)
(***************************************************************************)
EXTENDS ReadingOrder

IgnoredLabels == {"header", "header_image", "footer", "footer_image", "number", "seal"}
ImageLabels   == {"image", "chart", "header_image", "footer_image", "seal"}
LengthGated   == {"text", "content", "abstract", "aside_text", "footnote",
                  "vision_footnote", "vertical_text", "reference",
                  "reference_content", "number", "supplementary"}
MinTextCodepoints == 2

----------------------------------------------------------------------------
(* Columns.                                                                *)

\* The corridors no more than 18% of the content height crosses, away from
\* the margins and wide enough, each given by twice its middle.
Gutters(rects) ==
  LET page == Enclosing(ToSet(rects))
      cw == page.x1 - page.x0
      ch == page.y1 - page.y0
      lo == page.x0 + (12 * cw) \div 100
      hi == page.x1 - (12 * cw + 99) \div 100
      step == Larger(1, cw \div 500)
      probes == {x \in lo .. hi : (x - lo) % step = 0}
      crossing(x) == FoldSet(LAMBDA i, s : s + rects[i].y1 - rects[i].y0, 0,
                             {i \in DOMAIN rects : rects[i].x0 < x /\ x < rects[i].x1})
      clear == {x \in probes : 100 * crossing(x) <= 18 * ch}
      bandEnd(x) == CHOOSE y \in clear : /\ y >= x
                      /\ \A z \in probes : x <= z /\ z <= y => z \in clear
                      /\ (y + step) \notin clear
      starts == {x \in clear : (x - step) \notin clear}
      wide(x) == LET w == bandEnd(x) - x IN w >= 8 /\ 200 * w >= 3 * cw
  IN  IF cw <= 0 \/ ch <= 0 \/ lo >= hi THEN <<>>
      ELSE Ascending({x + bandEnd(x) : x \in {s \in starts : wide(s)}})

ColMinBodyBlocks == 4
NoColumns == <<>>

\* column_major_order: the permutation, NoColumns when there is no clear
\* structure of columns.
InColumns(rects, gutters) ==
  LET page == Enclosing(ToSet(rects))
      edges == <<2 * page.x0>> \o gutters \o <<2 * page.x1>>
      crossed(i) == {k \in DOMAIN gutters : /\ 2 * rects[i].x0 < gutters[k]
                                            /\ gutters[k] < 2 * rects[i].x1}
      \* Into both sides by 18% of the narrower column.
      penetrates(i, k) ==
        LET pen == Smaller(gutters[k] - 2 * rects[i].x0, 2 * rects[i].x1 - gutters[k])
            narrow == Smaller(gutters[k] - edges[k], edges[k + 2] - gutters[k])
        IN  100 * pen >= 18 * narrow
      Spans(i) == \/ Cardinality(crossed(i)) >= 2
                  \/ \E k \in crossed(i) : penetrates(i, k)
      middle(i) == rects[i].x0 + rects[i].x1
      columnOf(i) == 1 + Cardinality({k \in DOMAIN gutters : middle(i) >= gutters[k]})
      columns == 1 .. Len(gutters) + 1
      inColumn == {i \in DOMAIN rects : ~Spans(i)}
      members(c) == {i \in inColumn : columnOf(i) = c}
      extent(c) == Enclosing({rects[i] : i \in members(c)})
      fair(c) == /\ Cardinality(members(c)) >= 2
                 /\ 100 * Cardinality(members(c)) >= 15 * Cardinality(inColumn)
      beside(a, b) == LET least == Smaller(a.y1 - a.y0, b.y1 - b.y0)
                      IN  least > 0 /\ 4 * (Smaller(a.y1, b.y1) - Larger(a.y0, b.y0)) >= least
      heightOf(i) == rects[i].y0 + rects[i].y1
      spanning == StableSort(SelectSeq([i \in DOMAIN rects |-> i], Spans),
                             LAMBDA a, b : heightOf(a) < heightOf(b))
      bandOf(i) == Cardinality({k \in DOMAIN spanning : heightOf(spanning[k]) < heightOf(i)})
      TopDown(S) == StableSort(Ascending(S), LAMBDA a, b :
                      \/ rects[a].y0 < rects[b].y0
                      \/ rects[a].y0 = rects[b].y0 /\ rects[a].x0 < rects[b].x0)
      columnIn(band, c) == TopDown({i \in members(c) : bandOf(i) = band})
      bandLines(band) == FlattenSeq([c \in columns |-> columnIn(band, c)])
      bands == [b \in 1 .. Len(spanning) + 1 |->
                 bandLines(b - 1) \o (IF b <= Len(spanning) THEN <<spanning[b]>> ELSE <<>>)]
  IN  IF Len(rects) < ColMinBodyBlocks \/ gutters = <<>> THEN NoColumns
      ELSE IF ~ \A c \in columns : fair(c) THEN NoColumns
      ELSE IF ~ \A c \in columns \ {Max(columns)} : beside(extent(c), extent(c + 1))
      THEN NoColumns
      ELSE FlattenSeq(bands)
ColumnMajorOrder(rects) == InColumns(rects, Gutters(rects))

----------------------------------------------------------------------------
(* The page.                                                               *)

\* li_of: the cell the line was given, else the first that has its centre.
CellOf(line, cells) ==
  LET in == {c \in DOMAIN cells : CentreInside(line.box, cells[c].box)}
  IN  IF line.owner \in DOMAIN cells THEN line.owner
      ELSE IF in = {} THEN 0 ELSE Min(in)

\* The place of every line: as in the reading order, then the ones it does
\* not mention from top to bottom.
Ranks(lines, reading) ==
  LET known == SelectSeq(WithoutRepeats(reading), LAMBDA r : r \in DOMAIN lines)
      Higher(a, b) == \/ lines[a].box.y0 < lines[b].box.y0
                      \/ /\ lines[a].box.y0 = lines[b].box.y0
                         /\ lines[a].box.x0 < lines[b].box.x0
      rest == StableSort(Ascending(DOMAIN lines \ ToSet(known)), Higher)
      all == known \o rest
  IN  [r \in DOMAIN lines |-> CHOOSE k \in DOMAIN all : all[k] = r]

MembersOf(c, lines, cells, rank) ==
  StableSort(Ascending({r \in DOMAIN lines : CellOf(lines[r], cells) = c}),
             LAMBDA a, b : rank[a] < rank[b])

\* gather: the lines that have any text.
Gather(c, lines, cells, rank) ==
  SelectSeq(MembersOf(c, lines, cells, rank), LAMBDA r : lines[r].text # <<>>)

\* The display formula on the same band whose right edge is nearest, or 0.
FormulaOfNumber(n, cells) ==
  LET beside == {d \in DOMAIN cells :
        /\ cells[d].cls = "display_formula"
        /\ LET mid == (cells[n].box.y0 + cells[n].box.y1) \div 2
           IN  cells[d].box.y0 <= mid /\ mid <= cells[d].box.y1}
      gap(d) == Distance(cells[n].box.x0, cells[d].box.x1)
      nearest == {d \in beside : \A e \in beside : gap(d) <= gap(e)}
  IN  IF beside = {} THEN 0 ELSE Min(nearest)

\* The equation numbers folded into a formula; of two for one formula the
\* later replaces the earlier.
FoldedNumbers(lines, cells, rank) ==
  {n \in DOMAIN cells : /\ cells[n].cls = "formula_number"
                        /\ FormulaOfNumber(n, cells) # 0
                        /\ Gather(n, lines, cells, rank) # <<>>}
TagOf(f, lines, cells, rank) ==
  LET mine == {n \in FoldedNumbers(lines, cells, rank) : FormulaOfNumber(n, cells) = f}
  IN  IF mine = {} THEN <<>> ELSE Gather(Max(mine), lines, cells, rank)

\* center_rank, doubled: the first line of the cell; else half a place after
\* the line nearest to it.
CellRank(c, lines, cells, rank) ==
  LET own == MembersOf(c, lines, cells, rank)
      far(r) == LET p == TwiceCentre(lines[r].box)
                    q == TwiceCentre(cells[c].box)
                IN  (p[1] - q[1]) * (p[1] - q[1]) + (p[2] - q[2]) * (p[2] - q[2])
      nearest == {r \in DOMAIN lines : \A s \in DOMAIN lines : far(r) <= far(s)}
  IN  IF own # <<>> THEN 2 * rank[own[1]]
      ELSE IF lines = <<>> THEN 2000000 + cells[c].box.y0
      ELSE 2 * rank[Min(nearest)] + 1

Precedes(a, b) ==
  \E k \in DOMAIN a : a[k] < b[k] /\ \A j \in 1 .. k - 1 : a[j] = b[j]

\* The body block by block, or column by column where there are columns.
ByColumns(blocks, columns) ==
  IF columns = NoColumns THEN blocks ELSE Picked(blocks, columns)

\* Header, body and footer; then the place of the cell; then its position.
EmitOrder(lines, cells, rank) ==
  LET bucket(c) == ReadingPriorityBucket(cells[c].cls)
      key(c) == <<bucket(c), CellRank(c, lines, cells, rank),
                  cells[c].box.y0, cells[c].box.x0>>
      order == StableSort([c \in DOMAIN cells |-> c], LAMBDA a, b : Precedes(key(a), key(b)))
      In(b) == SelectSeq(order, LAMBDA c : bucket(c) = b)
      rects == [k \in DOMAIN In(1) |-> cells[In(1)[k]].box]
  IN  In(0) \o ByColumns(In(1), ColumnMajorOrder(rects)) \o In(2)

Part(kind, c, body) == <<[kind |-> kind, cell |-> c, body |-> body]>>

Results == {"none", "collapsed", "unsafe", "safe"}

\* Mutant of FormulaPart: without a result the region is left out.
OnlyRecognised(c, lines, cells, rank, formulas) ==
  IF c \in DOMAIN formulas THEN Part("math", c, <<>>) ELSE <<>>

\* A formula as math, as code when it would break, as a note when it has
\* collapsed; without a recognised result, as the text of its region.  An
\* empty result makes math of that text.
FormulaPart(c, lines, cells, rank, formulas) ==
  LET text == Gather(c, lines, cells, rank)
      tag == IF cells[c].cls = "display_formula" THEN TagOf(c, lines, cells, rank)
             ELSE <<>>
  IN  IF c \notin DOMAIN formulas
      THEN IF text = <<>> THEN <<>> ELSE Part("text", c, text)
      ELSE CASE formulas[c] = "none" -> IF text = <<>> THEN <<>>
                                        ELSE Part("math", c, text \o tag)
             [] formulas[c] = "collapsed" -> Part("note", c, <<>>)
             [] formulas[c] = "unsafe" -> Part("code", c, tag)
             [] formulas[c] = "safe" -> Part("math", c, tag)

Letters(body, lines) == FoldLeft(LAMBDA n, r : n + Len(lines[r].text), 0, body)

HeadingOf(cls) ==
  CASE cls = "doc_title" -> "h1" [] cls = "paragraph_title" -> "h2"
    [] cls = "figure_title" -> "h3" [] cls = "abstract" -> "abstract"
    [] cls = "algorithm" -> "code" [] cls \in {"reference", "reference_content"} -> "item"
    [] OTHER -> "text"

\* What a cell adds to the document; tables and formulas are the results of
\* their recognisers, by cell.
PartOf(c, lines, cells, rank, tables, formulas) ==
  LET cls == cells[c].cls
      text == Gather(c, lines, cells, rank)
  IN  CASE c \in FoldedNumbers(lines, cells, rank) -> <<>>
        [] cls \in IgnoredLabels -> <<>>
        [] cls = "table" -> IF c \in tables THEN Part("html", c, <<>>)
                            ELSE IF text = <<>> THEN <<>> ELSE Part("text", c, text)
        [] cls \in {"display_formula", "inline_formula"} ->
             FormulaPart(c, lines, cells, rank, formulas)
        [] cls = "formula_number" -> <<>>
        [] cls \in ImageLabels -> Part("image", c, text)
        [] text = <<>> -> <<>>
        [] cls \in LengthGated /\ Letters(text, lines) < MinTextCodepoints -> <<>>
        [] OTHER -> Part(HeadingOf(cls), c, text)

\* The first item of the references is preceded by their heading.
WithReferences(parts) ==
  LET first == SelectInSeq(parts, LAMBDA p : p.kind = "item")
  IN  IF first = 0 THEN parts
      ELSE InsertAt(parts, first, [kind |-> "h3", cell |-> 0, body |-> <<>>])

\* render_markdown; without cells every line is a paragraph.
RenderMarkdown(lines, cells, reading, tables, formulas) ==
  LET rank == Ranks(lines, reading)
      kept == SelectSeq([r \in DOMAIN lines |-> r],
                        LAMBDA r : Len(lines[r].text) >= MinTextCodepoints)
      order == EmitOrder(lines, cells, rank)
  IN  IF cells = <<>> THEN [k \in DOMAIN kept |-> Part("text", 0, <<kept[k]>>)[1]]
      ELSE WithReferences(FoldLeft(LAMBDA parts, c :
             parts \o PartOf(c, lines, cells, rank, tables, formulas), <<>>, order))
=============================================================================
