--------------------------- MODULE MCOcrPipeline ---------------------------
(* Two or three calls on one pipeline: a small page with text, a table and a formula,
   and a larger one without text. *)
EXTENDS OcrPipeline

SomeRows == [p |-> 1, q |-> 2, r |-> 1]
SomeTextBoxes == [p |-> 1, q |-> 0, r |-> 1]
SomeRegions ==
  [p |-> [table |-> 1, formula |-> 1], q |-> [table |-> 0, formula |-> 0],
   r |-> [table |-> 2, formula |-> 0]]
SomeTiny == {"q"}
SomeAsync == [table |-> TRUE, formula |-> FALSE]

Plain == [kind |-> "single", pages |-> <<"p">>, layout |-> FALSE, order |-> FALSE,
          want |-> {}, defer |-> FALSE]
Rich == [Plain EXCEPT !.layout = TRUE, !.order = TRUE, !.want = Modalities]

Before == {Plain, [Plain EXCEPT !.pages = <<"q">>, !.layout = TRUE],
          [Rich EXCEPT !.kind = "layout"],
          [Plain EXCEPT !.kind = "infer", !.pages = <<"r">>]}

After ==
  {Plain, [Rich EXCEPT !.defer = TRUE], [Rich EXCEPT !.defer = TRUE, !.pages = <<"r">>],
   [Rich EXCEPT !.kind = "device"], [Rich EXCEPT !.kind = "structure"],
   [Rich EXCEPT !.kind = "batch", !.pages = <<"p", "q", "r">>, !.want = {"formula"}],
   [Plain EXCEPT !.kind = "batch", !.pages = <<"q", "r">>]}

SomePrograms ==
  {<<a, b>>: a \in Before, b \in After}
    \union {[k \in 1 .. 2 |-> [Plain EXCEPT !.kind = "device", !.pages = <<"q">>]],
            <<Plain, [Plain EXCEPT !.pages = <<"q">>], Plain>>,
            <<[Plain EXCEPT !.pages = <<"q">>], Plain, [Plain EXCEPT !.pages = <<"q">>]>>}
=============================================================================
