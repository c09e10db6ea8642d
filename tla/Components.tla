----------------------------- MODULE Components -----------------------------
(***************************************************************************)
(* The text detector's post-processing on the GPU: the components of the   *)
(* bitmap, their boxes and scores, and the distance each is grown by to    *)
(* undo the shrinking the network was trained with.  The bitmap is tiled   *)
(* into 2x2 blocks, numbered row by row, which UnionFind unites.           *)
(***************************************************************************)
EXTENDS UnionFind, FiniteSets, FiniteSetsExt, SequencesExt

CONSTANTS W, H,           \* the size of the bitmap
          MaxComponents,  \* kMaxGpuComponents
          ExtractSlots,   \* kExtractSlots: components a thread block can hold
          ThreadBlock,    \* pixels one thread block extracts
          BoxThreshold, UnclipRatio,   \* box_thresh and unclip_ratio, in hundredths
          MinExpand, MaxExpand         \* the bounds of an expansion, likewise

BlocksWide == (W + 1) \div 2
BlocksHigh == (H + 1) \div 2

ASSUME GridAssumption ==
  /\ W \in Nat \ {0} /\ H \in Nat \ {0} /\ NumBlocks = BlocksWide * BlocksHigh
  /\ MaxComponents \in Nat \ {0} /\ ExtractSlots \in Nat /\ ThreadBlock \in Nat \ {0}
  /\ BoxThreshold \in Nat /\ UnclipRatio \in Nat /\ MinExpand \in Nat /\ MaxExpand \in Nat

VARIABLES bitmap,      \* the foreground pixels <<x, y>>
          scores,      \* per foreground pixel, its probability (hundredths)
          stage,       \* the kernel that runs
          ids,         \* per block, the number of its component, or -1
          boxes,       \* per number, what has been accumulated
          extracted    \* the thread blocks whose pixels have been accumulated

cclVars == <<ufVars, bitmap, scores, stage, ids, boxes, extracted>>

Column(n) == n % BlocksWide
Row(n)    == n \div BlocksWide
Image == (0 .. W - 1) \X (0 .. H - 1)
BlockOf(p) == (p[2] \div 2) * BlocksWide + p[1] \div 2
Touch8(p, q) == p # q /\ p[1] - q[1] \in -1 .. 1 /\ p[2] - q[2] \in -1 .. 1

\* The backward neighbours a block is united with: N, NW, NE and W, each when
\* a pixel of one touches a pixel of the other.
When(condition, n) == IF condition THEN <<n>> ELSE <<>>
TouchingOf(map) ==
  [n \in Blocks |->
     LET x == 2 * Column(n)
         y == 2 * Row(n)
         Fg(i, j) == <<i, j>> \in map
     IN  When(/\ Row(n) > 0 /\ (Fg(x, y) \/ Fg(x + 1, y))
              /\ Fg(x, y - 1) \/ Fg(x + 1, y - 1), n - BlocksWide)
         \o When(/\ Row(n) > 0 /\ Column(n) > 0
                 /\ Fg(x, y) /\ Fg(x - 1, y - 1), n - BlocksWide - 1)
         \o When(/\ Row(n) > 0 /\ Column(n) + 1 < BlocksWide
                 /\ Fg(x + 1, y) /\ Fg(x + 2, y - 1), n - BlocksWide + 1)
         \o When(/\ Column(n) > 0 /\ (Fg(x, y) \/ Fg(x, y + 1))
                 /\ Fg(x - 1, y) \/ Fg(x - 1, y + 1), n - 1)]

\* ccl_init_bboxes_kernel.
NoBox == [xmin |-> W + H, ymin |-> W + H, xmax |-> 0, ymax |-> 0, count |-> 0, score |-> 0]

Detect(map, probability) ==
  /\ bitmap = map /\ scores = probability
  /\ UfInit(TouchingOf(map))
  /\ stage = "merge"
  /\ ids = [n \in Blocks |-> -1]
  /\ boxes = [c \in 0 .. MaxComponents - 1 |-> NoBox]
  /\ extracted = {}

MergeStep == stage = "merge" /\ UfNext /\ UNCHANGED <<bitmap, scores, stage, ids, boxes, extracted>>

\* ccl_buf_compress_kernel: every link to its root.  A thread that reads a
\* link another has already compressed arrives at the same root.  The threads
\* of the last kernel are gone and what they stored is visible to all.
Root == LET root[n \in Blocks] == IF labels[n] = n THEN n ELSE root[labels[n]] IN root
Compress ==
  /\ stage = "merge" /\ Merged
  /\ labels' = Root
  /\ held' = [n \in Blocks |-> {labels'[n]}]
  /\ UNCHANGED <<touching, pc, edge>>
  /\ one' = [n \in Blocks |-> n] /\ other' = one' /\ at' = one' /\ up' = one'
  /\ finding' = [n \in Blocks |-> "one"]
  /\ stage' = "assign"
  /\ UNCHANGED <<bitmap, scores, ids, boxes, extracted>>

\* ccl_buf_compact_assign_kernel: an atomic counter numbers the roots in any
\* order, -1 past the capacity; after the grid has synchronised, the other
\* blocks take the number of their root.
Roots == {BlockOf(p) : p \in bitmap} \cap {n \in Blocks : labels[n] = n}
Assign ==
  /\ stage = "assign"
  /\ \E order \in SetToSeqs(Roots) :
       LET number(n) == CHOOSE i \in DOMAIN order : order[i] = labels[n]
       IN  ids' = [n \in Blocks |->
                     IF labels[n] \notin Roots \/ number(n) > MaxComponents THEN -1
                     ELSE number(n) - 1]
  /\ stage' = "extract"
  /\ UNCHANGED <<ufVars, bitmap, scores, boxes, extracted>>

\* ccl_buf_scatter_kernel: the number of a pixel, -1 off the foreground.
IdOf(p) == IF p \in bitmap THEN ids[BlockOf(p)] ELSE -1

\* ccl_fused_extract_kernel, for one thread block: the components that claim a
\* slot of its shared table are accumulated there and flushed; the pixels of
\* the others go to the global boxes one by one.
Raster(p) == p[2] * W + p[1]
ThreadBlockOf(k) == {p \in bitmap : Raster(p) \div ThreadBlock = k /\ IdOf(p) >= 0}
ScoreOf(ps) == FoldSet(LAMBDA p, s : s + scores[p], 0, ps)
Accumulate(box, ps) ==
  IF ps = {} THEN box
  ELSE [xmin |-> Min({box.xmin} \cup {p[1] : p \in ps}),
        ymin |-> Min({box.ymin} \cup {p[2] : p \in ps}),
        xmax |-> Max({box.xmax} \cup {p[1] : p \in ps}),
        ymax |-> Max({box.ymax} \cup {p[2] : p \in ps}),
        count |-> box.count + Cardinality(ps),
        score |-> box.score + ScoreOf(ps)]
\* Mutant of Flush: the slot is stored, not added.
FlushStores(global, slot) == IF slot.count = 0 THEN global ELSE slot
Flush(global, slot) ==
  IF slot.count = 0 THEN global
  ELSE [xmin |-> Min({global.xmin, slot.xmin}), ymin |-> Min({global.ymin, slot.ymin}),
        xmax |-> Max({global.xmax, slot.xmax}), ymax |-> Max({global.ymax, slot.ymax}),
        count |-> global.count + slot.count, score |-> global.score + slot.score]
Extract(k) ==
  LET seen == {IdOf(p) : p \in ThreadBlockOf(k)}
      Of(c) == {p \in ThreadBlockOf(k) : IdOf(p) = c}
  IN  /\ stage = "extract" /\ k \notin extracted
      /\ \E slots \in {s \in SUBSET seen :
                         Cardinality(s) = Min({ExtractSlots, Cardinality(seen)})} :
           boxes' = [c \in DOMAIN boxes |->
                       IF c \in slots THEN Flush(boxes[c], Accumulate(NoBox, Of(c)))
                       ELSE Accumulate(boxes[c], Of(c))]
      /\ extracted' = extracted \cup {k}
      /\ UNCHANGED <<ufVars, bitmap, scores, stage, ids>>

ThreadBlocks == 0 .. (W * H - 1) \div ThreadBlock
Labelled ==
  /\ stage = "extract" /\ extracted = ThreadBlocks
  /\ stage' = "done"
  /\ UNCHANGED <<ufVars, bitmap, scores, ids, boxes, extracted>>

CclNext == \/ MergeStep \/ Compress \/ Assign
           \/ \E k \in ThreadBlocks : Extract(k)
           \/ Labelled

-----------------------------------------------------------------------------
\* ccl_filter_kernel and the size and score tests of the expansion: the
\* components worth growing, and by how much (hundredths of a pixel): the
\* area times the unclip ratio over the length of the pixel edges that face
\* background or the border, within [MinExpand, MaxExpand].
Side(box) == Min({box.xmax - box.xmin, box.ymax - box.ymin}) + 1
Kept(box) == box.count >= 3 /\ Side(box) >= 3 /\ box.score >= BoxThreshold * box.count

PixelsOf(c) == {p \in bitmap : IdOf(p) = c}
Perimeter(c) ==
  LET sides == PixelsOf(c) \X {<<-1, 0>>, <<1, 0>>, <<0, -1>>, <<0, 1>>}
  IN  Cardinality({s \in sides : <<s[1][1] + s[2][1], s[1][2] + s[2][2]>> \notin bitmap})
ExpandOf(c) ==
  IF ~Kept(boxes[c]) THEN 0
  ELSE Max({MinExpand, Min({MaxExpand, (boxes[c].count * UnclipRatio) \div Perimeter(c)})})

\* unclip_scatter_kernel and unclip_resolve_kernel: a kept component has its
\* own pixels, and a background pixel belongs to the component of the nearest
\* boundary pixel that reaches it, the smaller number when two are as near.
Background == Image \ bitmap
Growing == {p \in bitmap : IdOf(p) >= 0 /\ ExpandOf(IdOf(p)) > 0}
Seeds == {p \in Growing : \E q \in Background : Touch8(p, q)}
Distance2(p, q) == (p[1] - q[1]) * (p[1] - q[1]) + (p[2] - q[2]) * (p[2] - q[2])
Reaching(q, ps) ==
  {p \in ps : Distance2(p, q) * 10000 <= ExpandOf(IdOf(p)) * ExpandOf(IdOf(p))}
Key(p, q) == Distance2(p, q) * (MaxComponents + 1) + IdOf(p)
OwnerOf(q) ==
  LET near == Reaching(q, Seeds)
  IN  IF near = {} THEN -1 ELSE Min({Key(p, q) : p \in near}) % (MaxComponents + 1)
Grown(c) ==
  {p \in PixelsOf(c) : ExpandOf(c) > 0} \cup {q \in Background : OwnerOf(q) = c}

-----------------------------------------------------------------------------
\* The component of a pixel by its definition: the pixels reached from it
\* through touching foreground pixels.
ComponentOf(p) ==
  LET grow[k \in 0 .. Cardinality(bitmap)] ==
        IF k = 0 THEN {p}
        ELSE LET near == grow[k - 1]
             IN  near \cup {q \in bitmap : \E r \in near : Touch8(q, r)}
  IN  grow[Cardinality(bitmap)]

\* When the labelling has ended, a component's pixels have one number of their
\* own, or none when the numbers ran out; and its box, pixel count and score
\* are those of all its pixels, whichever thread accumulated them and however
\* many components met in one thread block.
ComponentsFound ==
  stage = "done" =>
    /\ \A p \in bitmap :
         \/ IdOf(p) = -1 /\ Cardinality({ids[n] : n \in Blocks} \ {-1}) = MaxComponents
         \/ PixelsOf(IdOf(p)) = ComponentOf(p)
    /\ \A c \in DOMAIN boxes : boxes[c] = Accumulate(NoBox, PixelsOf(c))

\* Growing from the boundary alone gives every background pixel to the kept
\* component nearest to it among those whose own distance reaches it, and to
\* none only when none does; no component loses a pixel to another.
NearestGrows ==
  stage = "done" => \A q \in Background :
    LET near == Reaching(q, Growing)
        owners == {c \in DOMAIN boxes : q \in Grown(c)}
        Nearest(p) == \A o \in near : Distance2(p, q) <= Distance2(o, q)
    IN  IF near = {} THEN owners = {}
        ELSE \E p \in near : owners = {IdOf(p)} /\ Nearest(p)

\* The boxes of a page are those of its components, grown to the nearest,
\* whatever the order of the threads (ccl_kernels.cu, jfa.cu).
BoxesFound == ComponentsFound /\ NearestGrows
=============================================================================
