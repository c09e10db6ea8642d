---------------------------- MODULE LayoutFilter ----------------------------
(***************************************************************************)
(* What becomes of the raw detections of the layout model: decoding and    *)
(* clamping to the page, suppression of duplicates, the oversized image,   *)
(* and the reconciliation of nested boxes by LAYOUT_MERGE_MODE.            *)
(* A detection is [cls, score, box]; each step is a set of places in the   *)
(* list that is sorted by score, whose order every later list keeps.       *)
(***************************************************************************)
EXTENDS Boxes

Clipped(n, most) == Larger(0, Smaller(n, most))
OnPage(b, w, h) == Box(Clipped(b.x0, w - 1), Clipped(b.y0, h - 1),
                       Clipped(b.x1, w - 1), Clipped(b.y1, h - 1))

\* A row of the model's output becomes a box of the page, or nothing: too
\* low a score, no known class, or no area after clamping.
DecodedRows(rows, classes, threshold, w, h) ==
  {r \in DOMAIN rows : /\ rows[r].score >= threshold /\ rows[r].cls \in classes
                       /\ LET b == OnPage(rows[r].box, w, h) IN b.x0 < b.x1 /\ b.y0 < b.y1}

\* std::sort by score: equal scores are left in any order.
Orders(S, rows) ==
  {at \in [1 .. Cardinality(S) -> S] : \A i, j \in DOMAIN at :
     i < j => at[i] # at[j] /\ rows[at[i]].score >= rows[at[j]].score}
SortedBoxes(rows, at, w, h) ==
  [k \in DOMAIN at |-> [rows[at[k]] EXCEPT !.box = OnPage(@, w, h)]]

\* Intersection over union reaches num / den; here the far edge counts as
\* a pixel of the box.
IouAtLeast(a, b, num, den) ==
  LET grown(c) == Box(c.x0, c.y0, c.x1 + 1, c.y1 + 1)
      inter == SharedArea(grown(a), grown(b))
      union == Area(grown(a)) + Area(grown(b)) - inter
  IN  union > 0 /\ den * inter >= num * union

\* Two boxes are one detection: 0.6 within a class, 0.98 across.
Alike(a, b) == IF a.cls = b.cls THEN IouAtLeast(a.box, b.box, 3, 5)
               ELSE IouAtLeast(a.box, b.box, 49, 50)

\* Non-maximum suppression, best score first: a box stays unless one that
\* has stayed is the same detection.
Unsuppressed(boxes) ==
  LET kept[k \in 0 .. Len(boxes)] ==
        IF k = 0 THEN {}
        ELSE IF \E i \in kept[k - 1] : Alike(boxes[i], boxes[k]) THEN kept[k - 1]
        ELSE kept[k - 1] \cup {k}
  IN  kept[Len(boxes)]

\* An image over more than 82% of a portrait page, 93% of another.
IsWholePage(c, w, h) ==
  /\ c.cls = "image"
  /\ 100 * Area(c.box) > (IF h > w THEN 82 ELSE 93) * (w * h)

IsFormula(cls) == cls \in {"display_formula", "inline_formula"}

\* Nine tenths of a lie in b; a formula only lies in a formula.
Inside(a, b) ==
  /\ IsFormula(a.cls) => IsFormula(b.cls)
  /\ Area(a.box) > 0
  /\ 10 * SharedArea(a.box, b.box) >= 9 * Area(a.box)

\* Mutant of Keeps: of two boxes inside each other none is kept.
KeepsInnermost(mode, nested, contains) ==
  CASE mode = "all" -> TRUE [] mode = "outer" -> ~nested [] mode = "inner" -> ~contains

\* Whether a box stays that lies in another, or has another inside.
Keeps(mode, nested, contains) ==
  CASE mode = "all"   -> TRUE
    [] mode = "outer" -> ~nested
    [] mode = "inner" -> ~contains \/ nested

Reconciled(boxes, seen, mode) ==
  LET nested(i)   == \E j \in seen \ {i} : Inside(boxes[i], boxes[j])
      contains(i) == \E j \in seen \ {i} : Inside(boxes[j], boxes[i])
  IN  {i \in seen : Keeps(mode, nested(i), contains(i))}

\* postfilter_layout_boxes, behind its sort.
PagesOwn(boxes, w, h) == {i \in Unsuppressed(boxes) : ~IsWholePage(boxes[i], w, h)}
PostfilterLayoutBoxes(boxes, mode, w, h) == Reconciled(boxes, PagesOwn(boxes, w, h), mode)
=============================================================================
