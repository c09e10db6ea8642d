------------------------------- MODULE Tables -------------------------------
(***************************************************************************)
(* Tables: from the structure network's tokens and quads, and the lines    *)
(* the page's text recognition found, to the HTML of a region; and from    *)
(* the OTSL a vision model writes to HTML.  HTML is a sequence of tags and *)
(* of texts, a text being the sequence of lines that fill a cell.          *)
(* Boxes are <<x0, y0, x1, y1>>.                                           *)
(***************************************************************************)
EXTENDS Integers, Sequences, FiniteSets, SequencesExt, FiniteSetsExt

CONSTANTS GridN,          \* GRID_N
          BandHeight,     \* READING_ORDER_BAND_PX
          MaxTokens,      \* kMaxTokens
          MaxRunRepeat,   \* kMaxRunRepeat
          MaxTableCells   \* kMaxTableCells

-----------------------------------------------------------------------------
\* Matching of lines to cells (cell_matcher.cpp).

BoxArea(b) == Max({b[3] - b[1], 0}) * Max({b[4] - b[2], 0})
Inter(a, b) == Max({Min({a[3], b[3]}) - Max({a[1], b[1]}), 0})
               * Max({Min({a[4], b[4]}) - Max({a[2], b[2]}), 0})
\* At least half of the line in the cell (TABLE_MATCH_INTER); the share that
\* rescues a line no cell has (TABLE_MATCH_FALLBACK, 0.15).
Half(cell, line) == 2 * Inter(cell, line) > BoxArea(line)
Share(cell, line) == IF BoxArea(line) = 0 THEN 0 ELSE (1000 * Inter(cell, line)) \div BoxArea(line)

\* The uniform grid over the lines' extent: the buckets a box touches.
Extent(lines) == <<Min({lines[i][1] : i \in DOMAIN lines}), Min({lines[i][2] : i \in DOMAIN lines}),
                   Max({lines[i][3] : i \in DOMAIN lines}), Max({lines[i][4] : i \in DOMAIN lines})>>
Bucket(v, lo, hi) ==
  LET span == Max({hi - lo, 1})
  IN  IF v <= lo THEN 0 ELSE Min({((v - lo) * GridN) \div span, GridN - 1})
Buckets(b, e) ==
  (Bucket(b[1], e[1], e[3]) .. Bucket(b[3], e[1], e[3]))
    \X (Bucket(b[2], e[2], e[4]) .. Bucket(b[4], e[2], e[4]))
Candidates(cell, lines) ==
  {i \in DOMAIN lines : Buckets(cell, Extent(lines)) \cap Buckets(lines[i], Extent(lines)) # {}}

\* match_cells_to_ocr: a line goes into every cell that holds half of it, or
\* else into the first of those that hold most of it; a cell is read by bands
\* and from left to right.
Rescued(cells, line) ==
  LET best == Max({Share(cells[c], line) : c \in DOMAIN cells} \cup {0})
  IN  IF best <= 150 THEN {}
      ELSE {Min({c \in DOMAIN cells : Share(cells[c], line) = best})}
InReadingOrder(is, lines) ==
  SetToSortSeq(is, LAMBDA i, j :
    LET band(k) == lines[k][2] \div BandHeight
    IN  \/ band(i) < band(j)
        \/ band(i) = band(j) /\ lines[i][1] < lines[j][1]
        \/ band(i) = band(j) /\ lines[i][1] = lines[j][1] /\ i < j)
MatchCells(cells, lines) ==
  LET held(c) == {i \in Candidates(cells[c], lines) : Half(cells[c], lines[i])}
      placed == UNION {held(c) : c \in DOMAIN cells}
  IN  IF lines = <<>> THEN [c \in DOMAIN cells |-> <<>>]
      ELSE [c \in DOMAIN cells |->
              InReadingOrder(held(c) \cup {i \in DOMAIN lines \ placed :
                                             c \in Rescued(cells, lines[i])}, lines)]

-----------------------------------------------------------------------------
\* The structure network's decoding (slanext_host_decode.cpp and
\* slanext_postprocess.cpp).  A step is [token, quad].

NoQuad == <<0, 0, 0, 0>>
IsTd(token) == token \in {"<td", "<td>", "<td></td>"}

\* The steps kept of those the network would take: up to the end token, the
\* longest run of one token and the longest sequence.
KeptSteps(steps) ==
  LET run[t \in 0 .. Len(steps)] ==
        IF t = 0 THEN 0
        ELSE IF t > 1 /\ steps[t - 1].token = steps[t].token THEN run[t - 1] + 1 ELSE 1
      ends == {t \in DOMAIN steps : steps[t].token = "eos" \/ run[t] >= MaxRunRepeat}
  IN  SubSeq(steps, 1, Min({t - 1 : t \in ends} \cup {Len(steps), MaxTokens}))

\* decode_structure: every token in the table's wrapping and, for each token
\* that opens a cell, the quad found at that step, empty or not.
\* Mutant of IsCellStep: only a cell with a quad counts.
HasQuad(step) == IsTd(step.token) /\ step.quad # NoQuad
IsCellStep(step) == IsTd(step.token)
Structure(steps) ==
  LET kept == SelectSeq(KeptSteps(steps), LAMBDA s : s.token # "sos")
      tds  == SelectSeq(kept, IsCellStep)
  IN  [html |-> <<"<html>", "<body>", "<table>">> \o [k \in DOMAIN kept |-> kept[k].token]
                \o <<"</table>", "</body>", "</html>">>,
       cells |-> [k \in DOMAIN tds |-> tds[k].quad]]

\* reconstruct_html: the next cell's text before each closing tag of a cell.
Tag(t) == [tag |-> t, text |-> <<>>]
Text(is) == [tag |-> "text", text |-> is]
Reconstruct(html, cells) ==
  LET IsSlot(k) == html[k] \in {"<td></td>", "</td>"} /\ k \in 4 .. Len(html) - 3
      index(k) == Cardinality({j \in 1 .. k : IsSlot(j)})
      text(k) == IF index(k) \in DOMAIN cells THEN cells[index(k)] ELSE <<>>
      part(k) == IF ~IsSlot(k) THEN <<Tag(html[k])>>
                 ELSE IF html[k] = "<td></td>" THEN <<Tag("<td>"), Text(text(k)), Tag("</td>")>>
                 ELSE <<Text(text(k)), Tag("</td>")>>
  IN  FlattenSeq([k \in DOMAIN html |-> IF Len(html) < 6 THEN <<Tag(html[k])>> ELSE part(k)])

\* SlanextTableRecognizer::run and its CPU twin, for one region: the lines
\* whose centre is inside, the quads moved to the page, and what the crop of
\* a cell without a line reads with confidence.  Texts: a line's number, or 0
\* for one read from the cell's own crop.
Centre(b) == <<(b[1] + b[3]) \div 2, (b[2] + b[4]) \div 2>>
Inside(region, line) ==
  LET c == Centre(line)
  IN  /\ c[1] >= Max({region[1], 0}) /\ c[1] <= region[3]
      /\ c[2] >= Max({region[2], 0}) /\ c[2] <= region[4]
Moved(quad, region) ==
  <<quad[1] + Max({region[1], 0}), quad[2] + Max({region[2], 0}),
    quad[3] + Max({region[1], 0}), quad[4] + Max({region[2], 0})>>
RegionLines(region, lines) == SelectSeq([i \in DOMAIN lines |-> i],
                                        LAMBDA i : Inside(region, lines[i]))
TableHtml(region, steps, lines, readable) ==
  LET own == RegionLines(region, lines)
      st  == Structure(steps)
      quads == [k \in DOMAIN st.cells |-> Moved(st.cells[k], region)]
      found == MatchCells(quads, [k \in DOMAIN own |-> lines[own[k]]])
      Cropped(q) == q[3] - q[1] >= 4 /\ q[4] - q[2] >= 4 /\ readable
      texts == [k \in DOMAIN found |->
                  IF found[k] # <<>> THEN [j \in DOMAIN found[k] |-> own[found[k][j]]]
                  ELSE IF Cropped(quads[k]) THEN <<0>> ELSE <<>>]
  IN  Reconstruct(st.html, texts)

\* run(): one result for each region, with no HTML when the region failed.
TableResults(regions, lines, readable) ==
  [r \in DOMAIN regions |->
     [box |-> regions[r].box,
      html |-> IF regions[r].fails THEN <<>>
               ELSE TableHtml(regions[r].box, regions[r].steps, lines, readable)]]

-----------------------------------------------------------------------------
\* OTSL (otsl_html.cpp): a sequence of tokens, "nl" at the end of a row.

OtslRows(tokens) ==
  LET rows == FoldLeft(LAMBDA rs, t : IF t = "nl" THEN Append(rs, <<>>)
                                      ELSE Append(Front(rs), Append(Last(rs), t)),
                       << <<>> >>, tokens)
  IN  SelectSeq(rows, LAMBDA r : r # <<>>)
PadToken(row) == IF Last(row) = "ucel" THEN "ecel" ELSE "lcel"
PadRows(rows) ==
  LET width == Max({Len(rows[r]) : r \in DOMAIN rows})
  IN  [r \in DOMAIN rows |-> [c \in 1 .. width |->
         IF c <= Len(rows[r]) THEN rows[r][c] ELSE PadToken(rows[r])]]
\* The cells of the table: [row, col, rows, cols].
OtslCells(tokens) ==
  LET rows == PadRows(OtslRows(tokens))
      R == Len(rows)
      C == Len(rows[1])
      right(r, c) == Max({n \in 0 .. C - c : \A k \in 1 .. n : rows[r][c + k] \in {"lcel", "xcel"}})
      down(r, c)  == Max({n \in 0 .. R - r : \A k \in 1 .. n : rows[r + k][c] \in {"ucel", "xcel"}})
  IN  IF OtslRows(tokens) = <<>> THEN {}
      ELSE IF R > MaxTableCells \div C THEN {}
      ELSE {[row |-> r, col |-> c, rows |-> 1 + down(r, c), cols |-> 1 + right(r, c)] :
              <<r, c>> \in {p \in (1 .. R) \X (1 .. C) : rows[p[1]][p[2]] \in {"fcel", "ecel"}}}

-----------------------------------------------------------------------------
\* Every way to cut a grid into rectangles, written as OTSL row by row, with
\* the merges at the end of a row left out or not.
Rectangle(cell) == (cell.row .. cell.row + cell.rows - 1) \X (cell.col .. cell.col + cell.cols - 1)
Otsl(cells, R, C, truncated) ==
  LET Of(r, c) == CHOOSE cell \in cells : <<r, c>> \in Rectangle(cell)
      tok(r, c) == LET o == Of(r, c) IN
                     IF r = o.row THEN IF c = o.col THEN "fcel" ELSE "lcel"
                     ELSE IF c = o.col THEN "ucel" ELSE "xcel"
      last(r) == IF r \in truncated
                 THEN Max({c \in 1 .. C : tok(r, c) # "lcel"}) ELSE C
  IN  FlattenSeq([r \in 1 .. R |-> [c \in 1 .. last(r) |-> tok(r, c)] \o <<"nl">>])
Tilings(R, C) ==
  LET all == {cell \in [row : 1 .. R, col : 1 .. C, rows : 1 .. R, cols : 1 .. C] :
                cell.row + cell.rows - 1 <= R /\ cell.col + cell.cols - 1 <= C}
      Tile(t) == /\ \A a, b \in t : a # b => Rectangle(a) \cap Rectangle(b) = {}
                 /\ UNION {Rectangle(a) : a \in t} = (1 .. R) \X (1 .. C)
  IN  {t \in SUBSET all : Tile(t)}

\* A table survives the trip through OTSL, also when the model's output was
\* cut off behind the last cell of some rows but one (otsl_html.cpp:122-130).
OtslRoundTrips(cells, R, C) ==
  \A truncated \in SUBSET (1 .. R) :
    LET tokens == Otsl(cells, R, C, truncated)
        rows == OtslRows(tokens)
    IN  Max({Len(rows[r]) : r \in DOMAIN rows}) = C => OtslCells(tokens) = cells

\* A cell of the structure has the lines its own quad holds between its own
\* tags, whatever cells before it had no quad or no line: a line is in every
\* cell of its region that holds half of it, wherever the grid puts it, and a
\* line of which some cell holds a fair share is in one at least, unless the
\* network stopped inside a cell; a region that failed keeps its place.
CellsHoldTheirLines(regions, lines, readable) ==
  LET results == TableResults(regions, lines, readable)
      HoldsOf(region, steps) ==
        LET kept == SelectSeq(KeptSteps(steps), LAMBDA s : s.token # "sos")
            opened == {k \in DOMAIN kept : IsTd(kept[k].token)}
            closers(k) == {j \in k .. Len(kept) : kept[j].token \in {"<td></td>", "</td>"}}
            tds == {k \in opened : closers(k) # {}}
            own == ToSet(RegionLines(region, lines))
            quad(k) == Moved(kept[k].quad, region)
            close(k) == Min(closers(k))
            html == TableHtml(region, steps, lines, readable)
            \* The text in front of the n-th closing tag of the HTML.
            closing == SelectSeq([j \in DOMAIN html |-> j], LAMBDA j : html[j].tag = "</td>")
            nth(k) == Cardinality({j \in 1 .. close(k) : kept[j].token \in {"<td></td>", "</td>"}})
            text(k) == ToSet(html[closing[nth(k)] - 1].text)
        IN  /\ \A k \in tds : {i \in own : Half(quad(k), lines[i])} \subseteq text(k)
            /\ \A k \in tds : \A i \in text(k) \ {0} : Inter(quad(k), lines[i]) > 0
            /\ tds = opened =>
                 \A i \in own : (\E k \in tds : Share(quad(k), lines[i]) > 150)
                                   => \E k \in tds : i \in text(k)
  IN  /\ Len(results) = Len(regions)
      /\ \A r \in DOMAIN regions :
           /\ results[r].box = regions[r].box
           /\ ~regions[r].fails => HoldsOf(regions[r].box, regions[r].steps)
=============================================================================
