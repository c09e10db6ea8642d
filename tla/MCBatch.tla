------------------------------ MODULE MCBatch ------------------------------
(* Two batches at a time, with the kinds of image the surfaces tell apart. *)
EXTENDS Batch

Good == [form |-> "bytes", jpeg |-> FALSE, side |-> 1, pixels |-> 2, sniffed |-> TRUE,
         decodes |-> TRUE, runs |-> "fine"]
Jpeg == [Good EXCEPT !.jpeg = TRUE]
Poison == [Good EXCEPT !.runs = "poison"]
Bad == [Good EXCEPT !.runs = "faulty"]
Stuck == [Jpeg EXCEPT !.runs = "wedged"]
Broken == [Good EXCEPT !.decodes = FALSE]
BrokenJpeg == [Jpeg EXCEPT !.decodes = FALSE]
Wide == [Good EXCEPT !.side = 9]
Hidden == [Jpeg EXCEPT !.sniffed = FALSE, !.pixels = 9]
Absent == [Good EXCEPT !.form = "empty"]
Garbled == [Good EXCEPT !.form = "garbled"]

Batch1(s, images) == [surface |-> s, images |-> images]
None == Batch1("http_gpu", <<>>)

GpuImages == {Good, Jpeg, Poison, Bad, Stuck, BrokenJpeg, Hidden}

Alone ==
  {Batch1("http_gpu", <<a, b, c>>): a \in {Good, Absent, Broken, Jpeg}, b \in GpuImages,
                                    c \in {Good, Poison, Wide, Bad}}
    \union {Batch1("rpc_gpu", <<a, b, c>>): a \in {Jpeg, Stuck, Broken}, b \in GpuImages,
                                            c \in {Good, Jpeg, Wide}}
    \union {Batch1("http_gpu", <<Good, Good, Jpeg, Good>>),
            Batch1("http_gpu", <<Wide, Garbled>>), Batch1("rpc_cpu", <<Wide, Broken>>),
            Batch1("http_cpu", <<Broken>>), Batch1("http_gpu", [i \in 1 .. 5 |-> Good])}

OnCpu == {<<Good, Bad, Good>>, <<Broken, Poison, Good>>}

SomeScenarios ==
  {[r \in Requests |-> IF r = 1 THEN b ELSE None]: b \in Alone}
    \union {[r \in Requests |-> Batch1(s, IF r = 1 THEN a ELSE b)]:
              s \in {"http_cpu", "rpc_cpu"}, a \in OnCpu, b \in OnCpu}
    \union {[r \in Requests |-> IF r = 1 THEN Batch1("http_cpu", a) ELSE Batch1("rpc_cpu", a)]:
              a \in OnCpu}
=============================================================================
