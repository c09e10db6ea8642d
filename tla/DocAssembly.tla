---------------------------- MODULE DocAssembly ----------------------------
(***************************************************************************)
(* Steps over all the pages of a document: a table that runs on over the   *)
(* page break becomes one table, and the titles get their heading levels.  *)
(* A block is [label, width, words, rows], in the list of all blocks with  *)
(* its page and group; a row of a table is a sequence of cells             *)
(* [text, col, row] (text, colspan, rowspan),                              *)
(* and the words of a title are the tokens its numbering is told by.       *)
(***************************************************************************)
EXTENDS Integers, FiniteSets, Sequences, SequencesExt

CONSTANTS
  MaxHeaderRows,    \* rows compared when looking for a repeated header (5)
  MaxGridColumns,   \* ceiling of the column count (4096)
  Rounds            \* how often the clusters of heights are moved (100)

----------------------------------------------------------------------------
(* Tables over the page break.                                             *)

\* The columns of the grid: a cell goes past the columns that a cell of an
\* earlier row still blocks, and the count stops at the ceiling.
TotalColumns(rows) ==
  LET Place(st, cell, r) ==
        LET blocked(c) == c \in DOMAIN st.until /\ st.until[c] > r
            from == CHOOSE c \in st.col + 1 .. Len(st.until) + 1 + st.col :
                      ~blocked(c) /\ \A d \in st.col + 1 .. c - 1 : blocked(d)
            last == IF from + cell.col - 1 > MaxGridColumns
                    THEN MaxGridColumns ELSE from + cell.col - 1
            size == IF last > Len(st.until) THEN last ELSE Len(st.until)
        IN  [until |-> [c \in 1 .. size |->
                          IF c \in from .. last THEN r + cell.row
                          ELSE IF c \in DOMAIN st.until THEN st.until[c] ELSE 0],
             col |-> last, most |-> IF last > st.most THEN last ELSE st.most]
      PlaceRow(st, r) ==
        FoldLeft(LAMBDA s, cell : Place(s, cell, r), [st EXCEPT !.col = 0], rows[r])
  IN  FoldLeft(PlaceRow, [until |-> <<>>, col |-> 0, most |-> 0],
               [r \in DOMAIN rows |-> r]).most

SameHeader(r1, r2) ==
  /\ Len(r1) = Len(r2)
  /\ \A k \in DOMAIN r1 : r1[k].col = r2[k].col /\ r1[k].text = r2[k].text

\* The leading rows the two tables share.
HeaderRows(t1, t2) ==
  LET all == {Len(t1), Len(t2), MaxHeaderRows}
      most == CHOOSE n \in all : \A m \in all : n <= m
  IN  CHOOSE n \in 0 .. most :
        /\ \A i \in 1 .. n : SameHeader(t1[i], t2[i])
        /\ n = most \/ ~SameHeader(t1[n + 1], t2[n + 1])

RowColumns(row) == FoldLeft(LAMBDA sum, c : sum + c.col, 0, row)

\* The last row above the break looks like the first data row below it.
RowsMatch(t1, t2) ==
  LET h == HeaderRows(t1, t2)
  IN  /\ t1 # <<>> /\ Len(t2) > h
      /\ \/ RowColumns(t1[Len(t1)]) = RowColumns(t2[h + 1])
         \/ Len(t1[Len(t1)]) = Len(t2[h + 1])

\* can_merge_tables: widths within a tenth, only page furniture between the
\* two, and the same number of columns.
FurnitureAfter  == {"footer", "vision_footnote", "number", "footnote",
                    "footer_image", "seal"}
FurnitureBefore == {"header", "header_image", "number", "seal"}
SimilarWidth(w1, w2) ==
  LET gap == IF w1 > w2 THEN w1 - w2 ELSE w2 - w1
  IN  w1 # 0 /\ w2 # 0 /\ 10 * gap < (IF w1 < w2 THEN w1 ELSE w2)
CanMergeTables(blocks, i, j) ==
  /\ SimilarWidth(blocks[i].width, blocks[j].width)
  /\ \A k \in i + 1 .. j - 1 :
       IF blocks[k].page = blocks[i].page THEN blocks[k].label \in FurnitureAfter
       ELSE blocks[k].label \in FurnitureBefore \/ "continued" \in ToSet(blocks[k].words)
  /\ blocks[i].rows # <<>> /\ blocks[j].rows # <<>>
  /\ \/ TotalColumns(blocks[i].rows) = TotalColumns(blocks[j].rows)
     \/ RowsMatch(blocks[i].rows, blocks[j].rows)

\* Mutant of OwnRows: the first row of data goes with the header.
FirstRowLost(t1, t2) == SubSeq(t2, HeaderRows(t1, t2) + 2, Len(t2))

\* The rows of the lower table without the header it repeats.
OwnRows(t1, t2) == SubSeq(t2, HeaderRows(t1, t2) + 1, Len(t2))

\* The blocks of all pages in one list.  A block's place in it is its id, and
\* it begins as the only one of its group.
BlockWith(b, page, group, rows) ==
  [label |-> b.label, width |-> b.width, words |-> b.words,
   page |-> page, group |-> group, rows |-> rows]
AllBlocks(pages) ==
  LET upTo[p \in 0 .. Len(pages)] ==
        IF p = 0 THEN <<>>
        ELSE LET above == upTo[p - 1]
             IN  above \o [k \in DOMAIN pages[p] |->
                   BlockWith(pages[p][k], p, Len(above) + k, pages[p][k].rows)]
  IN  upTo[Len(pages)]

TablesOf(blocks, p) == {k \in DOMAIN blocks : blocks[k].page = p /\ blocks[k].label = "table"}

\* One page break: the first table of page p joins the last of the page
\* above, and leaves its own block empty.
JoinAcross(blocks, p) ==
  LET i == Max(TablesOf(blocks, p - 1))
      j == Min(TablesOf(blocks, p))
      above == blocks[i]
      here  == blocks[j]
  IN  IF TablesOf(blocks, p - 1) = {} \/ TablesOf(blocks, p) = {} THEN blocks
      ELSE IF ~CanMergeTables(blocks, i, j) THEN blocks
      ELSE [k \in DOMAIN blocks |->
              IF k = i THEN BlockWith(above, p - 1, above.group,
                                      above.rows \o OwnRows(above.rows, here.rows))
              ELSE IF k = j THEN BlockWith(here, p, i, <<>>)
              ELSE blocks[k]]

\* Every block goes to the group of the block it joined, block by block from
\* the first, so that the host has found its own before.
FollowedGroups(blocks) ==
  LET after[k \in 0 .. Len(blocks)] ==
        IF k = 0 THEN [b \in DOMAIN blocks |-> blocks[b].group]
        ELSE LET found == after[k - 1] IN [found EXCEPT ![k] = found[found[k]]]
      groups == after[Len(blocks)]
  IN  [k \in DOMAIN blocks |-> BlockWith(blocks[k], blocks[k].page, groups[k], blocks[k].rows)]

\* merge_tables_across_pages: from the last page break to the first; the
\* first page has no page above.
MergeTablesAcrossPages(pages) ==
  LET after[k \in 0 .. Len(pages)] ==
        IF k = 0 THEN AllBlocks(pages) ELSE JoinAcross(after[k - 1], Len(pages) + 1 - k)
  IN  FollowedGroups(after[Len(pages)])

----------------------------------------------------------------------------
(* Heading levels.                                                         *)

TokenAt(w, k) == IF k \in DOMAIN w THEN w[k] ELSE "end"

\* Where the run of tokens of these kinds from k ends.
KindsEnd(w, k, kinds) ==
  CHOOSE e \in k .. Len(w) + 1 : /\ \A i \in k .. e - 1 : w[i] \in kinds
                                 /\ TokenAt(w, e) \notin kinds

\* 1 or 1.2 or 1.2.3 from k: the place after it, k itself when there is none.
NumberEnd(w, k) ==
  LET ends == {e \in k .. Len(w) : /\ w[e] = "digit" /\ TokenAt(w, k) = "digit"
                                   /\ \A i \in k .. e : \/ w[i] = "digit"
                                                        \/ w[i] = "." /\ w[i + 1] = "digit"}
  IN  IF ends = {} THEN k
      ELSE (CHOOSE e \in ends : \A f \in ends : f <= e) + 1

\* get_symbol_and_level: the kinds of numbering in the order they are tried.
SymbolAndLevel(w) ==
  LET open == IF TokenAt(w, 1) = "(" THEN 2 ELSE 1
      bracketed == NumberEnd(w, open) > open /\ TokenAt(w, NumberEnd(w, open)) = ")"
      roman == KindsEnd(w, 1, {"roman"})
      hanOpen == IF TokenAt(w, 1) \in {"(", "di"} THEN 2 ELSE 1
      hanEnd == IF KindsEnd(w, hanOpen, {"han"}) > hanOpen + 2 THEN hanOpen + 2
                ELSE KindsEnd(w, hanOpen, {"han"})
      number == NumberEnd(w, 1)
  IN  IF bracketed THEN <<"NUM_LIST_BRACKET", 4>>
      ELSE IF roman > 1 /\ TokenAt(w, roman) \in {"end", ".", ")", " "} THEN <<"ROMAN", 1>>
      ELSE IF hanEnd > hanOpen /\ TokenAt(w, hanEnd) \notin {"letter", "roman", "ideograph"}
           THEN <<"CHINESE_NUM", 1>>
      ELSE IF TokenAt(w, 1) \in {"letter", "roman"} /\ TokenAt(w, 2) \in {".", ")", " "}
           THEN <<"LETTER", 2>>
      ELSE IF number > 1 /\ TokenAt(w, number) # ")"
           THEN <<"NUM_LIST", Cardinality({i \in 1 .. number - 1 : w[i] = "."}) + 1>>
      ELSE <<"", -1>>

\* k-means over the heights of all titles: the clusters start at evenly
\* spaced heights, and a height belongs to the nearest centre, the lower one
\* of two as near.  A centre is [sum, n], the mean sum / n.
NearestCentre(h, centres) ==
  LET gap(c) == IF h * c.n > c.sum THEN h * c.n - c.sum ELSE c.sum - h * c.n
      nearer(a, b) == gap(a) * b.n < gap(b) * a.n
  IN  CHOOSE j \in DOMAIN centres :
        /\ \A i \in 1 .. j - 1 : nearer(centres[j], centres[i])
        /\ \A i \in j + 1 .. Len(centres) : ~nearer(centres[i], centres[j])
\* What the heights nearest to centre j add up to, and how many they are.
ClusterTotal(heights, centres, j) ==
  LET total[i \in 0 .. Len(heights)] ==
        IF i = 0 THEN [sum |-> 0, n |-> 0]
        ELSE IF NearestCentre(heights[i], centres) = j
             THEN [sum |-> total[i - 1].sum + heights[i], n |-> total[i - 1].n + 1]
        ELSE total[i - 1]
  IN  total[Len(heights)]
MovedCentres(heights, centres) ==
  [j \in DOMAIN centres |-> IF ClusterTotal(heights, centres, j).n = 0 THEN centres[j]
                            ELSE ClusterTotal(heights, centres, j)]
\* The k-th smallest height.
NthHeight(S, k) == Min({h \in S : Cardinality({m \in S : m <= h}) >= k})
StartCentres(heights) ==
  LET uniq == ToSet(heights)
      size == Cardinality(uniq)
      k == IF size < 4 THEN size ELSE 4
      \* lround of j * (size - 1) / (k - 1).
      index(j) == IF k = 1 THEN 1
                  ELSE 1 + (2 * (j - 1) * (size - 1) + k - 1) \div (2 * (k - 1))
  IN  [j \in 1 .. k |-> [sum |-> NthHeight(uniq, index(j)), n |-> 1]]

\* The rounds after the centres have settled change nothing.
Centres(heights) ==
  LET after[r \in 0 .. Rounds] ==
        IF r = 0 THEN StartCentres(heights) ELSE MovedCentres(heights, after[r - 1])
  IN  after[Rounds]

\* Mutant of ClusterLevel: the clusters are ranked upwards.
ClusterOfHeight(h, heights) == NearestCentre(h, Centres(heights))

\* Larger titles are higher: 1 + the number of centres above its own.
ClusterLevel(h, heights) ==
  LET cs == Centres(heights)
      own == cs[NearestCentre(h, cs)]
  IN  1 + Cardinality({j \in DOMAIN cs : cs[j].sum * own.n > own.sum * cs[j].n})

\* The vote of the numbering, its order of appearance and the height.
Vote(semantic, relative, cluster) ==
  IF semantic = cluster THEN semantic ELSE relative

HeadingRange(n) == IF n < 1 THEN 1 ELSE IF n > 6 THEN 6 ELSE n

\* assign_title_levels over the titles [words, height] in document order.
TitleLevels(titles) ==
  LET heights == [i \in DOMAIN titles |-> titles[i].height]
      sl(i) == SymbolAndLevel(titles[i].words)
      numbered == {i \in DOMAIN titles : sl(i)[2] > 0}
      firstOf(s) == CHOOSE i \in DOMAIN titles : /\ sl(i)[1] = s
                      /\ \A j \in 1 .. i - 1 : sl(j)[1] # s
      \* The order in which the styles of numbering appear.
      seq(s) == 1 + Cardinality({t \in {sl(i)[1] : i \in numbered} :
                                   firstOf(t) < firstOf(s)})
      relative(i) == IF sl(i)[1] = "NUM_LIST"
                     THEN seq("NUM_LIST") + sl(i)[2] - sl(firstOf("NUM_LIST"))[2]
                     ELSE seq(sl(i)[1])
      cluster(i) == ClusterLevel(heights[i], heights)
  IN  [i \in DOMAIN titles |->
        HeadingRange(IF sl(i)[2] > 0 THEN Vote(sl(i)[2], relative(i), cluster(i))
                     ELSE IF titles[i].words = <<"keyword">> THEN 1
                     ELSE cluster(i))]
=============================================================================
