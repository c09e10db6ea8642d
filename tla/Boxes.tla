------------------------------- MODULE Boxes -------------------------------
(***************************************************************************)
(* Axis-aligned boxes in pixels and the few measures every layout module   *)
(* shares.  A detection quad is represented by its bounding box; the       *)
(* geometry is half open, as a box of width x1 - x0.                       *)
(***************************************************************************)
EXTENDS Integers, FiniteSets, Sequences, SequencesExt

Box(x0, y0, x1, y1) == [x0 |-> x0, y0 |-> y0, x1 |-> x1, y1 |-> y1]

Larger(a, b)  == IF a > b THEN a ELSE b
Smaller(a, b) == IF a < b THEN a ELSE b
Distance(a, b) == IF a > b THEN a - b ELSE b - a

Width(b)  == Larger(0, b.x1 - b.x0)
Height(b) == Larger(0, b.y1 - b.y0)
Area(b)   == Width(b) * Height(b)
ShortSide(b) == Smaller(Width(b), Height(b))
LongSide(b)  == Larger(Width(b), Height(b))

\* The smallest box around a nonempty set of boxes.
Enclosing(bs) == Box(Min({b.x0 : b \in bs}), Min({b.y0 : b \in bs}),
                     Max({b.x1 : b \in bs}), Max({b.y1 : b \in bs}))

\* The length two segments share, and the area two boxes share.
Shared(a0, a1, b0, b1) == Larger(0, Smaller(a1, b1) - Larger(a0, b0))
SharedArea(a, b) == Shared(a.x0, a.x1, b.x0, b.x1)
                  * Shared(a.y0, a.y1, b.y0, b.y1)

\* Twice the centre, so that it stays an integer.
TwiceCentre(b) == <<b.x0 + b.x1, b.y0 + b.y1>>

\* The one rule for "which cell owns this quad": its centre is inside.
CentreInside(b, cell) ==
  LET c == TwiceCentre(b) IN
    /\ 2 * cell.x0 <= c[1] /\ c[1] <= 2 * cell.x1
    /\ 2 * cell.y0 <= c[2] /\ c[2] <= 2 * cell.y1

\* std::stable_sort; std::sort of a handful of elements keeps ties as well.
StableSort(s, Before(_, _)) ==
  LET Earlier(i, j) == \/ Before(s[i], s[j])
                       \/ ~Before(s[j], s[i]) /\ i < j
      at == SortSeq([i \in DOMAIN s |-> i], Earlier)
  IN  [i \in DOMAIN s |-> s[at[i]]]

\* The elements of a finite set of integers in ascending order.
Ascending(S) == [k \in 1 .. Cardinality(S) |->
                   CHOOSE n \in S : Cardinality({m \in S : m < n}) = k - 1]
=============================================================================
