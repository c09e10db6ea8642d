----------------------------- MODULE MCReading -----------------------------
(***************************************************************************)
(* Reading a page on small instances: the labelling of a few bitmaps under *)
(* every interleaving of its threads, the sizes and boxes of every batch   *)
(* of a few pages under every setting of the environment, the GPU          *)
(* recogniser's queue in every order of host and device, every short       *)
(* output of the network, every list of a few boxes and every small table. *)
(***************************************************************************)
EXTENDS Components, Detection, RecQueue, Recognition, Tables

VARIABLES subject,  \* what this behaviour looks at
          input     \* what has been put together of the subject's input

\* Bitmaps with a bridge, a diagonal, a ring and a hook, on eight blocks.
Pixels(x0, y0, x1, y1) == (x0 .. x1) \X (y0 .. y1)
Bitmaps ==
  { Pixels(0, 0, 3, 2) \ {<<1, 0>>},
    {<<0, 0>>, <<1, 1>>, <<2, 2>>, <<5, 1>>, <<6, 2>>, <<7, 3>>},
    {<<0, 3>>, <<1, 2>>, <<2, 1>>, <<3, 0>>, <<3, 3>>, <<0, 0>>, <<6, 0>>},
    {<<0, 0>>, <<1, 0>>, <<2, 1>>, <<3, 1>>, <<2, 2>>, <<0, 3>>, <<1, 2>>} }

APage(h, w, text) == [h |-> h, w |-> w, text |-> text]
SomePages ==
  { APage(100, 100, << <<10, 10, 60, 40>> >>),
    APage(200, 70, << <<4, 20, 66, 60>>, <<4, 120, 66, 160>> >>),
    APage(40, 300, << <<100, 4, 200, 36>> >>), APage(16, 16, <<>>),
    APage(130, 130, << <<20, 60, 110, 100>> >>) }
Environments ==
  [policy : {"", "min", "max"}, limit : {0, 8, 64, 100}, cap : {0, 90, 110}, side : {0, 40, 72, 200}]
Unset == [policy |-> "", limit |-> 0, cap |-> 0, side |-> 0]
Base == [policy |-> "min", limit |-> 64, cap |-> 128]
Db == [boxThresh |-> 45, unclip |-> 14]
Params(e) == ReadDetResize(Base, e) @@ Db

\* Calls of the GPU recogniser: the widths of the chunks of each.
SomeCalls == { << <<1>>, <<1, 2, 3>> >>, << <<1, 1>> >>, << <<>>, <<>> >> }
SomeProfiles == { [batch |-> 2, width |-> 1], [batch |-> 4, width |-> 1] }

\* A network of five classes and the dictionaries it may be given.
Dictionaries == { <<"a", "b", "c">>, <<"a", "b">> }
SomeRows == { <<9, 1, 2, 3, 4>>, <<1, 8, 8, 2, 3>>, <<1, 2, 7, 3, 7>>, <<2, 3, 4, 6, 6>>,
              <<1, 1, 2, 3, 9>>, <<5, 5, 5, 5, 5>>, <<1, 6, 1, 1, 6>> }
SomeBoxes == { [w |-> w, h |-> h] : w \in {1, 10, 12, 100}, h \in {0, 5, 10, 30} }

Step(token, quad) == [token |-> token, quad |-> quad]
Fused(quad) == <<Step("<td></td>", quad)>>
Split(quad) == <<Step("<td", quad), Step(" colspan", NoQuad), Step(">", NoQuad), Step("</td>", NoQuad)>>
Row0 == <<Step("<tr>", NoQuad)>>
Row1 == <<Step("</tr>", NoQuad)>>
SomeQuads == { NoQuad, <<0, 0, 20, 10>>, <<20, 0, 40, 10>>, <<0, 10, 20, 24>>, <<20, 10, 40, 24>> }
SomePieces == { Fused(q) : q \in SomeQuads } \cup { Split(q) : q \in SomeQuads \ {<<0, 10, 20, 24>>} }
              \cup {Row0, <<Step("eos", NoQuad)>>}
Lines == << <<12, 11, 40, 15>>, <<14, 1, 26, 8>>, <<11, 13, 22, 19>>, <<32, 3, 46, 6>>, <<80, 80, 90, 88>> >>
Grids == { <<1, 3>>, <<2, 2>>, <<2, 3>>, <<3, 2>> }

-----------------------------------------------------------------------------
NoBitmap == Detect({}, <<>>)
Init == /\ RecInit
        /\ \/ /\ subject = "bitmap" /\ input = <<>>
              /\ \E b \in Bitmaps : Detect(b, [p \in b |-> 50 + 10 * p[1]])
           \/ /\ NoBitmap
              /\ \/ subject = "pages" /\ input \in { <<e, <<>> >> : e \in Environments }
                 \/ subject \in {"queue", "text", "crops", "table"} /\ input = <<>>
                 \/ subject = "otsl" /\ input \in { <<g, {}>> : g \in Grids }
Label == /\ subject = "bitmap" /\ CclNext
         /\ UNCHANGED <<recVars, subject, input>>
AddPage == /\ subject = "pages" /\ Len(input[2]) < (IF input[1] = Unset THEN 3 ELSE 2)
           /\ \E p \in SomePages : input' = <<input[1], Append(input[2], p)>>
           /\ UNCHANGED <<cclVars, recVars, subject>>
Queue == /\ subject = "queue" /\ RecNext
         /\ UNCHANGED <<cclVars, subject, input>>
MaxInput == [text |-> 4, crops |-> 3, table |-> 3]
More == [text |-> SomeRows, crops |-> SomeBoxes, table |-> SomePieces]
Add == /\ subject \in {"text", "crops", "table"} /\ Len(input) < MaxInput[subject]
       /\ \E e \in More[subject] : input' = Append(input, e)
       /\ UNCHANGED <<cclVars, recVars, subject>>
Tiled == /\ subject = "otsl" /\ input[2] = {}
         /\ \E t \in Tilings(input[1][1], input[1][2]) : input' = <<input[1], t>>
         /\ UNCHANGED <<cclVars, recVars, subject>>
Next == Label \/ AddPage \/ Queue \/ Add \/ Tiled
Spec == Init /\ [][Next]_<<cclVars, recVars, subject, input>>

-----------------------------------------------------------------------------
\* In every environment every batch fits the buffers the detector allocated,
\* and with the default one the boxes of each page are in place and in order.
PagesInPlace ==
  (subject = "pages" /\ input[2] # <<>>) =>
    LET env == input[1]
        pages == input[2]
    IN  /\ FitsBuffers(pages, Base, env)
        /\ env = Unset => FoundInPlace(pages, Params(env))
        /\ \A i \in DOMAIN pages : \A k \in DOMAIN pages[i].text :
             LET t == pages[i].text[k]
                 lean == (t[4] - t[2]) \div 2
             IN  QuadsClockwise(<< <<t[1] + lean, t[2]>>, <<t[3] + lean, t[2] + lean>>,
                                   <<t[3], t[4] + lean>>, <<t[1], t[4]>> >>)

\* Every line of text is decoded as its alignment says, and every crop is
\* answered from its own pixels at its own width (ctc_decode.cpp,
\* cpu_paddle_rec.cpp).
LinesDecoded ==
  /\ subject = "text" => \A d \in Dictionaries :
                           DictFits(d, 5) => TextDecoded(input, LabelList(d))
  /\ subject = "crops" => \A size \in {1, 2} : CropsAnswered(input, 16, size)

\* Two regions, one of them lost to a fault, and the tables of every grid:
\* each cell holds the lines that lie in it, and every table written in OTSL
\* is the table it spells (cell_matcher.cpp, html_reconstruct.cpp,
\* otsl_html.cpp).
TablesHoldTheirLines ==
  /\ subject = "table" =>
       LET steps == <<Step("sos", NoQuad)>> \o Row0 \o FlattenSeq(input) \o Row1
           region == [box |-> <<10, 0, 60, 30>>, steps |-> steps, fails |-> FALSE]
       IN  CellsHoldTheirLines(<<[region EXCEPT !.fails = TRUE], region>>, Lines, TRUE)
  /\ (subject = "otsl" /\ input[2] # {}) => OtslRoundTrips(input[2], input[1][1], input[1][2])
=============================================================================
