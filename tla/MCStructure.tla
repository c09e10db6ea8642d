---------------------------- MODULE MCStructure ----------------------------
(***************************************************************************)
(* The algorithms that give a page its structure, over every input of a    *)
(* few cells and lines: a subject is chosen first and its input then grows *)
(* element by element, so that TLC evaluates each property on every prefix *)
(* of every input.                                                         *)
(***************************************************************************)
EXTENDS Markdown, PageStructure

KnownLabels == {"text", "table", "image", "display_formula"}
SmallPages == {[w |-> 100, h |-> 100]}
Subjects == {"page", "boxes", "route", "raw", "document", "titles", "markdown"}

Cell(c, x0, y0, x1, y1) == [cls |-> c, box |-> Box(x0, y0, x1, y1)]
Scored(c, score, x0, y0, x1, y1) ==
  [cls |-> c, score |-> score, box |-> Box(x0, y0, x1, y1)]
Line(text, owner, x0, y0, x1, y1) ==
  [text |-> text, owner |-> owner, box |-> Box(x0, y0, x1, y1)]

Block(l, w, rows) == [label |-> l, width |-> w, words |-> <<>>, rows |-> rows]
Td(t) == [text |-> t, col |-> 1, row |-> 1]
TallTd(t) == [text |-> t, col |-> 1, row |-> 2]
WideTd(t) == [text |-> t, col |-> 2, row |-> 2]
Header == <<Td("h"), Td("k")>>
SomeTables == { <<Header>>, <<Header, <<Td("a"), Td("b")>>>>,
                <<<<TallTd("h"), Td("k")>>, <<Td("b")>>>>, <<<<Td("c"), Td("d")>>>>, <<<<WideTd("e")>>, <<Td("f")>>>> }

\* What the input of a subject is made of.
SomeCells ==
  [page |->
     { Cell("header", 0, 0, 90, 12), Cell("footer", 0, 10, 90, 22),
       Cell("text", 0, 40, 40, 60),
       Cell("paragraph_title", 0, 24, 40, 34), Cell("paragraph_title", 2, 36, 40, 44),
       Cell("image", 0, 60, 90, 90), Cell("figure_title", 10, 50, 60, 58) },
   boxes |->
     { Cell("text", 0, 0, 40, 10), Cell("text", 60, 0, 100, 10),
       Cell("text", 0, 20, 40, 50), Cell("text", 60, 14, 100, 40),
       Cell("text", 0, 60, 100, 70), Cell("text", 50, 60, 50, 64) },
   route |->
     { Scored("table", 90, 0, 0, 40, 40), Scored("table", 45, 5, 0, 45, 40),
       Scored("table", 22, 10, 10, 30, 30), Scored("image", 60, 0, 0, 40, 36),
       Scored("display_formula", 70, 0, 50, 40, 60), Scored("text", 80, 0, 0, 40, 2),
       Scored("chart", 55, 2, 2, 38, 30), Scored("table", 91, 12, 0, 52, 40),
       Scored("display_formula", 70, 20, 0, 60, 40) },
   raw |->
     { Scored("text", 90, 0, 0, 40, 40), Scored("text", 80, 2, 0, 40, 40),
       Scored("table", 85, 0, 0, 40, 40), Scored("display_formula", 60, 5, 5, 15, 15),
       Scored("inline_formula", 50, 6, 6, 15, 15), Scored("image", 70, 0, 0, 99, 99),
       Scored("image", 40, 0, 0, 30, 36), Scored("text", 70, 90, 8, 130, 40),
       Scored("table", 20, 91, 0, 99, 40), Scored("text", 99, 120, 8, 130, 40) },
   document |->
     { <<Block("table", 100, t)>> : t \in SomeTables }
       \cup { <<Block("header", 100, <<>>), Block("table", 105, t), Block("number", 9, <<>>)>> :
                t \in SomeTables }
       \cup { <<Block("text", 100, <<>>)>> },
   titles |-> {},
   markdown |->
     { Cell("text", 0, 0, 40, 10), Cell("text", 60, 0, 100, 10),
       Cell("table", 0, 20, 40, 50), Cell("display_formula", 0, 60, 40, 70),
       Cell("formula_number", 45, 62, 50, 68), Cell("number", 0, 95, 10, 99),
       Cell("reference", 0, 80, 40, 90), Cell("image", 60, 20, 100, 50) }]
SomeLines ==
  [page |-> { Box(0, 0, 40, 10), Box(2, 42, 38, 50), Box(2, 26, 38, 33),
              Box(4, 64, 36, 66), Box(8, 40, 12, 60) },
   boxes |-> {}, raw |-> {}, document |-> {},
   route |-> { Box(0, 0, 38, 2), Box(12, 12, 20, 16), Box(0, 50, 40, 60),
               Box(60, 60, 80, 70) },
   titles |->
     { [words |-> w, height |-> h] : h \in {4, 9, 10, 30},
         w \in { <<"digit", ".", "digit">>, <<"digit">>, <<"(", "digit", ")">>,
                 <<"letter", "letter">>, <<"keyword">> } },
   markdown |-> { Line(<<"a", "b">>, 0, 2, 0, 38, 10), Line(<<"c">>, 0, 62, 0, 98, 10),
                  Line(<<"d", "e">>, 0, 2, 24, 38, 34), Line(<<"f", "g">>, 0, 46, 62, 49, 68),
                  Line(<<"h", "i">>, 0, 2, 82, 38, 88),
                  Line(<<"j", "k">>, 4, 2, 62, 38, 68) }]

MaxCells == [page |-> 3, boxes |-> 4, route |-> 3, raw |-> 4, document |-> 3,
             titles |-> 0, markdown |-> 2]
MaxLines == [page |-> 2, boxes |-> 0, route |-> 2, raw |-> 0, document |-> 0,
             titles |-> 3, markdown |-> 2]

Init == subject \in Subjects /\ cells = <<>> /\ lines = <<>>
AddCell == /\ Len(cells) < MaxCells[subject] /\ lines = <<>>
           /\ \E c \in SomeCells[subject] : cells' = Append(cells, c)
           /\ UNCHANGED <<subject, lines>>
AddLine == /\ Len(lines) < MaxLines[subject]
           /\ \E l \in SomeLines[subject] : lines' = Append(lines, l)
           /\ UNCHANGED <<subject, cells>>
Next == AddCell \/ AddLine
Spec == Init /\ [][Next]_<<subject, cells, lines>>

\* What is enumerated is of the types that PageStructure states.
ASSUME StructureInputs ==
  /\ SomeCells["raw"] \cup SomeCells["route"] \subseteq CellType
  /\ SomeLines["route"] \subseteq RectType
  /\ SomeCells["document"] \subseteq Seq(BlockType)
  /\ \A t \in SomeLines["titles"] : t.height \in Nat /\ \A k \in DOMAIN t.words : t.words[k] \in STRING

----------------------------------------------------------------------------

IsPermutation(s, n) == Len(s) = n /\ ToSet(s) = 1 .. n
\* Every line of a page with a usable layout is placed by its cell, by an
\* ancestor of its cell or as an orphan, exactly once and before the code
\* that appends what was forgotten (assign_reading_order_for_results); and
\* so is every cell where cells are ordered without lines, before and after
\* the children are moved behind their parents (assign_reading_order,
\* splice_child_blocks).
LinesPlaced ==
  LET ids   == AssignLayoutIds(lines, cells)
      alone == AssignReadingOrder(cells, 1)
      lined == [i \in DOMAIN cells |-> Clustered(cells[i], <<cells[i].box>>)]
      kids  == DetectChildBlocks(lined, 10)
  IN  /\ (subject = "page" /\ lines # <<>> /\ cells # <<>>
             /\ ~MostlyOrphans(lines, ids.owner, ids.cells))
            => IsPermutation(StrataOrder(lines, ids.owner, ids.cells, 1), Len(lines))
      /\ subject = "page" /\ lines = <<>> =>
           /\ IsPermutation(alone, Len(cells))
           /\ IsPermutation(SpliceChildBlocks(lined, kids, alone), Len(cells))

\* The cut places every box that has an area, its callers add the others,
\* and no box right of a gutter that all boxes respect comes before one left
\* of it; the Markdown view of columns keeps every block once.
BoxesPlaced ==
  LET rects == [i \in DOMAIN cells |-> cells[i].box]
      cut == RecursiveXyCut(rects, 1)
      all == XyCutSubset(rects, 1)
      columns == ColumnMajorOrder(rects)
      gutter == {x \in 0 .. 100 : \A i \in DOMAIN rects :
                   \/ rects[i].x1 < x
                   \/ rects[i].x0 > x}
      at(i) == CHOOSE k \in DOMAIN all : all[k] = i
  IN  subject = "boxes" /\ rects # <<>> =>
        /\ IsPermutation(all, Len(rects))
        /\ {i \in DOMAIN rects : Area(rects[i]) > 0} \subseteq ToSet(cut)
        /\ \A x \in gutter : \A i, j \in DOMAIN rects :
             (/\ rects[i].x1 < x /\ rects[j].x0 > x
              /\ Area(rects[i]) > 0 /\ Area(rects[j]) > 0) => at(i) < at(j)
        /\ columns = NoColumns \/ IsPermutation(columns, Len(rects))

WellWritten(parts, replaced) ==
  LET written == FlattenSeq([k \in DOMAIN parts |-> parts[k].body])
      silent(r) == LET c == CellOf(lines[r], cells) IN
        c \in {0} \cup replaced \/ cells[c].cls \in IgnoredLabels \cup {"formula_number"}
      bucket(p) == ReadingPriorityBucket(cells[p.cell].cls)
      owned == SelectSeq(parts, LAMBDA p : p.cell # 0)
  IN  /\ \A r \in DOMAIN lines :
           (Len(lines[r].text) >= MinTextCodepoints /\ ~silent(r))
             => Cardinality({k \in DOMAIN written : written[k] = r}) = 1
      /\ \A r \in DOMAIN lines : Cardinality({k \in DOMAIN written : written[k] = r}) <= 1
      /\ \A k \in 1 .. Len(owned) - 1 : bucket(owned[k]) <= bucket(owned[k + 1])

\* The Markdown of a page with regions has no line twice, and once every line of
\* two characters but four kinds: lines inside no region (render_markdown walks the
\* regions), lines of page furniture, equation numbers, and lines of a table or a
\* formula in whose place a recogniser's result stands; and the regions in the order
\* header, body, footer.  Whatever subset of the tables and formulas was recognised
\* and whatever the results are, one that came back empty replaces nothing.
TextWritten ==
  LET reading == AssignReadingOrderForResults([r \in DOMAIN lines |-> lines[r].box], cells, 1)
      Of(cls) == {c \in DOMAIN cells : cells[c].cls \in cls}
  IN  subject = "markdown" /\ cells # <<>> =>
        \A tables \in SUBSET Of({"table"}),
           read \in SUBSET Of({"display_formula", "inline_formula"}) :
          \A formulas \in [read -> Results] :
            WellWritten(RenderMarkdown(lines, cells, reading, tables, formulas),
                        tables \cup {c \in read : formulas[c] # "none"})
=============================================================================
