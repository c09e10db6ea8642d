---------------------------- MODULE RegionRouter ----------------------------
(***************************************************************************)
(* The plan the router makes for a page: which regions are meant for the   *)
(* table recogniser, for the formula recogniser or for nobody, and which   *)
(* detected lines lie in a region that is meant for one of the two alone.  *)
(* A plan reads nothing.  Whether a planned region is read is settled by   *)
(* the dispatch that follows, by what the request asks and by the back     *)
(* ends there are (Wanted of OcrPipeline); and every line is recognised    *)
(* before the plan is made, so that its marked lines have no reader.       *)
(* A cell is [cls, score, box] with the score in hundredths; a detection   *)
(* is a box.                                                               *)
(***************************************************************************)
EXTENDS Boxes

DestinationFor(cls) ==
  CASE cls = "table" -> "table"
    [] cls \in {"display_formula", "inline_formula"} -> "formula"
    [] cls \in {"chart", "image", "header_image", "footer_image", "seal"} -> "skip"
    [] OTHER -> "text"

\* The default thresholds of RouterConfig, in hundredths.
TauTrust(cls) == CASE cls = "table" -> 60
                   [] cls \in {"display_formula", "inline_formula"} -> 55
                   [] cls \in {"image", "chart", "seal"} -> 50
                   [] OTHER -> 40
TauVerify(cls) == CASE cls = "table" -> 25
                    [] cls \in {"display_formula", "inline_formula", "image",
                                "chart", "seal"} -> 30
                    [] OTHER -> 20
TierFor(c) == IF c.score >= TauTrust(c.cls) THEN "trust"
              ELSE IF c.score >= TauVerify(c.cls) THEN "verify" ELSE "fallback"

\* The first cell that has the centre of the detection, or 0.
OwningCell(det, cells) ==
  LET in == {i \in DOMAIN cells : CentreInside(det, cells[i].box)}
  IN  IF in = {} THEN 0 ELSE Min(in)

\* build_overlap_stats: how many lines a cell owns, the share of it they
\* cover (in hundredths) and whether they are all flat or thin on average.
Owned(i, dets, cells) == {d \in DOMAIN dets : OwningCell(dets[d], cells) = i}
Coverage(i, dets, cells) ==
  LET covered == FoldSet(LAMBDA d, sum : sum + Area(dets[d]), 0, Owned(i, dets, cells))
  IN  IF Area(cells[i].box) = 0 THEN 0
      ELSE Smaller(100, (100 * covered) \div Area(cells[i].box))

\* Ten thousand times the mean of width over height.
MeanAspect(i, dets, cells) ==
  LET own  == Owned(i, dets, cells)
      aspect(d) == IF Width(dets[d]) > 0 /\ Height(dets[d]) > 0
                   THEN (10000 * Width(dets[d])) \div Height(dets[d]) ELSE 0
  IN  IF own = {} THEN 0
      ELSE FoldSet(LAMBDA d, sum : sum + aspect(d), 0, own) \div Cardinality(own)

\* n / log(1 + area) > 0.4, for the at most three lines it is asked of.
IsDense(n, area) == CASE n = 1 -> area <= 11
                      [] n = 2 -> area <= 147
                      [] n = 3 -> area <= 1807
                      [] OTHER -> FALSE

HasConfidentFormula(cells) ==
  \E i \in DOMAIN cells : /\ cells[i].cls \in {"display_formula", "inline_formula"}
                          /\ cells[i].score >= TauTrust(cells[i].cls)

\* A small text cell with a few flat or thin lines may be a formula the
\* layout model missed; it is planned for both recognisers.
IsFormulaSalvageCandidate(i, dets, cells) ==
  LET aspect == MeanAspect(i, dets, cells)
      n == Cardinality(Owned(i, dets, cells))
  IN  /\ HasConfidentFormula(cells)
      /\ cells[i].cls = "text"
      /\ n <= 3
      /\ aspect >= 60000 \/ (aspect > 0 /\ aspect <= 1666)
      /\ IsDense(n, Larger(1, Area(cells[i].box)))

\* gate_overlap_pass: without such a class on the page nobody counts.
GateOverlapPass(cells) ==
  \E i \in DOMAIN cells : cells[i].cls \in {"chart", "display_formula", "image",
                                            "inline_formula", "table"}

\* An image or chart with enough text in it is text.
IsTextInFigure(i, dets, cells) ==
  LET n == Cardinality(Owned(i, dets, cells))
  IN  \/ cells[i].cls = "chart" /\ n >= 2
      \/ cells[i].cls = "image" /\ n >= 3 /\ Coverage(i, dets, cells) >= 15

\* route: class default, figures with text, low confidence, salvage.
Route(i, dets, cells) ==
  LET counted == GateOverlapPass(cells)
      dest == IF counted /\ IsTextInFigure(i, dets, cells) THEN "text"
              ELSE IF TierFor(cells[i]) = "fallback" THEN "text"
              ELSE DestinationFor(cells[i].cls)
      salvaged == dest = "text" /\ counted
                  /\ IsFormulaSalvageCandidate(i, dets, cells)
  IN  [dest |-> IF salvaged THEN "formula" ELSE dest, alsoText |-> salvaged]

ClassPriority(cls) ==
  CASE cls = "table" -> 5 [] cls = "display_formula" -> 4
    [] cls = "inline_formula" -> 3
    [] cls \in {"footer_image", "header_image", "seal", "chart", "image"} -> 1
    [] OTHER -> 2

\* Mutant of MayLoseByContainment.
TablesLoseToo(c) == TRUE

\* Four fifths of b lie in the larger a; a table is never demoted for what
\* it encloses.
Encloses(a, b) == /\ Area(a) > Area(b)
                  /\ 5 * SharedArea(a, b) >= 4 * Area(b)
MayLoseByContainment(c) == c.cls # "table"

\* Intersection over union between 0.30 and 0.80.
Rivals(a, b) ==
  LET inter == SharedArea(a, b)
      union == Area(a) + Area(b) - inter
  IN  /\ 100 * inter >= 30 * union /\ 100 * inter <= 80 * union

\* The loser of two rivals, the earlier one first: by class, then score, then
\* size.  The last tie asks for the smaller id; no region has one before the
\* reading order gives it (both are -1), so that the earlier region loses.
LoserOf(i, j, cells) ==
  LET a == cells[i]
      b == cells[j]
      pa == ClassPriority(a.cls)
      pb == ClassPriority(b.cls)
  IN  IF pa # pb THEN IF pa > pb THEN j ELSE i
      ELSE IF Distance(a.score, b.score) > 1
           THEN IF a.score > b.score THEN j ELSE i
      ELSE IF Area(a.box) # Area(b.box)
           THEN IF Area(a.box) > Area(b.box) THEN j ELSE i
      ELSE i

\* resolve_tie_breakers: every pair of overlapping regions is compared once, by
\* containment first; a region that loses one comparison is text from then on,
\* whatever becomes of the other.
LosesTo(i, j, cells) ==
  LET a == cells[i].box
      b == cells[j].box
  IN  /\ SharedArea(a, b) > 0
      /\ \/ Encloses(a, b) /\ MayLoseByContainment(cells[i])
         \/ /\ ~Encloses(a, b) /\ ~Encloses(b, a) /\ Rivals(a, b)
            /\ LoserOf(Smaller(i, j), Larger(i, j), cells) = i
ResolveTieBreakers(ds, cells) ==
  [i \in DOMAIN cells |-> IF \E j \in DOMAIN cells \ {i} : LosesTo(i, j, cells)
                          THEN [ds[i] EXCEPT !.dest = "text"] ELSE ds[i]]

\* CuaRouter::classify: the regions planned for each recogniser, and the lines
\* in rec_suppress, whose first region with their centre is a recogniser's alone.
Classify(dets, cells) ==
  LET ds == ResolveTieBreakers([i \in DOMAIN cells |-> Route(i, dets, cells)], cells)
      To(dest) == {i \in DOMAIN cells : ds[i].dest = dest}
      suppressed(d) == LET o == OwningCell(dets[d], cells) IN
        o # 0 /\ ds[o].dest \in {"table", "formula"} /\ ~ds[o].alsoText
  IN  [tables |-> To("table"), formulas |-> To("formula"), skip |-> To("skip"),
       text |-> {d \in DOMAIN dets : ~suppressed(d)},
       suppressed |-> {d \in DOMAIN dets : suppressed(d)}]
=============================================================================
