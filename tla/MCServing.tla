------------------------------- MODULE MCServing -------------------------------
(***************************************************************************)
(* What stands around the inference, on small instances: the renderer      *)
(* daemons, the readiness probe, the CPU server's pipelines, the endpoints *)
(* and the pages of a PDF job.  Each behaviour is about one of them, its   *)
(* `part`, and the others rest; Parts says which ones there are.           *)
(***************************************************************************)
EXTENDS RenderPool, Readiness, PipelinePool, Requests

CONSTANTS Parts, r1, r2, r3, c1, c2, t1, t2, t3, p1

VARIABLE part
others == <<part, endpoint, server, query, doc, mode, opts>>
svvars == <<rpvars, rdvars, ppvars, others>>

ThreeRenders == {r1, r2, r3}
TwoRenders == {r1, r2}
TwoCheckers == {c1, c2}
ThreeClients == {t1, t2, t3}
OneProbe == {p1}
Zero == {0}
AllParts == {"renders", "readiness", "pipelines", "endpoints", "pages"}
RendersOnly == {"renders"}

Deployments == {{}, {"layout", "table", "formula"}, {"layout", "doc_ori"}}
Demands == {{}, {"layout", "table", "formula"}}
OnePage == [a |-> [boxes |-> 2, legible |-> 0, regions |-> <<"table", "text", "formula">>,
                   blank |-> {3}]]

----------------------------------------------------------------------------
(* Servers, parameters and bodies *)

Gpu == [gpu |-> TRUE, nvjpeg |-> TRUE, layout |-> TRUE, table |-> TRUE, formula |-> TRUE,
        strict |-> FALSE, tableNames |-> {"slanext"}, formulaNames |-> {"pp", "vlm"},
        maxDim |-> 4, maxPixels |-> 12, adhoc |-> FALSE, json |-> TRUE, renderer |-> TRUE,
        ori |-> TRUE, mode |-> "ocr", maxPages |-> 2]
Cpu == [Gpu EXCEPT !.gpu = FALSE, !.nvjpeg = FALSE, !.tableNames = {}, !.formulaNames = {},
                   !.mode = "auto"]
Servers ==
  { Gpu, [Gpu EXCEPT !.layout = FALSE, !.strict = TRUE, !.nvjpeg = FALSE],
    [Gpu EXCEPT !.table = FALSE, !.ori = FALSE, !.adhoc = TRUE],
    [Gpu EXCEPT !.json = FALSE, !.renderer = FALSE],
    Cpu, [Cpu EXCEPT !.layout = FALSE, !.formula = FALSE], [Cpu EXCEPT !.strict = TRUE] }

Endpoints == {"raw", "ocr", "pixels", "markdown", "infer", "pdf", "stream"}
OnlyGpu == {"markdown", "infer", "stream"}

\* The values of a parameter that some endpoint tells apart.
Values(name) ==
  CASE name \in {"layout", "tables"} -> {"0", "1", "bad"}
    [] name \in {"reading_order", "as_blocks", "formulas", "autorotate", "as_pages"} -> {"1"}
    [] name = "text" -> {"0", "bad"}
    [] name = "markdown" -> {"1"}
    [] name = "route_formula" -> {"vlm", "nowhere", NoName}
    [] name = "mode" -> {"auto_verified", "typo"}
    [] name = "images" -> {"inline", "typo"}
    [] name \in {"dpi", "quality"} -> {"ok", "bad"}
    [] OTHER -> {"x"}
Names == << "layout", "reading_order", "as_blocks", "tables", "formulas", "text", "route_formula",
            "markdown", "as_pages", "dpi", "mode", "images", "quality", "autorotate", "frobnicate" >>
NamesFor(e) ==
  CASE e \in {"pdf", "stream"} -> 1 .. Len(Names)
    [] e \in {"markdown", "infer"} -> {1, 7, 10, 15}
    [] OTHER -> (1 .. 8) \cup {15}
NoQuery == [n \in {} |-> ""]

\* What the requests below are made of meets RequestTypeOK.
ASSUME RequestInputs ==
  /\ Servers \subseteq ServerType /\ Endpoints \subseteq STRING
  /\ \A e \in Endpoints : \A i \in NamesFor(e) :
       Names[i] \in STRING /\ Values(Names[i]) \subseteq STRING

AllFound == {"layout", "reading_order", "tables", "formulas", "text_degraded"}
Image == [present |-> TRUE, jpeg |-> FALSE, sniffed |-> TRUE, decodes |-> TRUE, w |-> 3, h |-> 4,
          outcome |-> "ok", found |-> AllFound]
SomeImages ==
  { Image, [Image EXCEPT !.present = FALSE], [Image EXCEPT !.decodes = FALSE, !.jpeg = TRUE],
    [Image EXCEPT !.w = 5, !.h = 1], [Image EXCEPT !.w = 4, !.sniffed = FALSE],
    [Image EXCEPT !.w = 4, !.sniffed = FALSE, !.jpeg = TRUE], [Image EXCEPT !.outcome = "timeout"],
    [Image EXCEPT !.outcome = "busy", !.jpeg = TRUE], [Image EXCEPT !.outcome = "throws"],
    [Image EXCEPT !.found = {"layout", "reading_order"}],
    [Image EXCEPT !.found = {"text_degraded"}], [Image EXCEPT !.found = {"table_degraded"}] }
Document == [form |-> "raw", readable |-> TRUE, bytes |-> TRUE, opens |-> TRUE, pages |-> 2,
             status |-> "Ok", found |-> AllFound]
SomeDocuments ==
  { [Document EXCEPT !.status = s] :
      s \in {"Ok", "RenderFailed", "Dropped", "DecodeFailed", "PageFailed", "TimedOut"} }
  \cup { [Document EXCEPT !.bytes = FALSE], [Document EXCEPT !.pages = 3],
         [Document EXCEPT !.found = {"formula_degraded"}],
         [Document EXCEPT !.found = {"layout"}], [Document EXCEPT !.found = {"text_degraded"}],
         [Document EXCEPT !.form = "json", !.readable = FALSE],
         [Document EXCEPT !.form = "multipart", !.bytes = FALSE] }
InferBody == [json |-> TRUE, base64 |-> TRUE, modality |-> "formula", backend |-> "name",
              name |-> "vlm", kind |-> ""]
SomeRegions ==
  { InferBody, [InferBody EXCEPT !.modality = "table", !.name = "slanext"],
    [InferBody EXCEPT !.modality = "table"],
    [InferBody EXCEPT !.backend = "object", !.name = "", !.kind = "openai"],
    [InferBody EXCEPT !.backend = "object", !.name = "", !.kind = "local"],
    [InferBody EXCEPT !.base64 = FALSE], [InferBody EXCEPT !.modality = "chart"] }
Size(w, h, c) == [width |-> w, height |-> h, channels |-> c]
NoSize == Size(None, None, None)
Dim(q, h, b) == [query |-> q, header |-> h, body |-> b]
SomeDims ==
  { Dim(Size(2, 3, None), NoSize, 18), Dim(Size(2, 3, None), NoSize, 6),
    Dim(NoSize, Size(2, 3, 1), 6), Dim(Size(2, 3, None), Size(2, 3, 1), 6),
    Dim(Size(2, 3, 1), Size(3, 3, None), 6), Dim(NoSize, NoSize, 0), Dim(NoSize, Size(2, None, 1), 2),
    Dim(Size(2, 0, 1), NoSize, 0), Dim(Size(5, 1, 3), NoSize, 15), Dim(Size(4, 4, 1), NoSize, 16),
    Dim(Size(2, 3, 0), NoSize, 18), Dim(Size(Garbage, 3, 1), Size(2, 3, 1), 6),
    Dim(Size(2, 3, 1), Size(Garbage, 3, 1), 6) }

----------------------------------------------------------------------------
(* The pages of the job *)

Page0 == [chars |-> 40, rotation |-> 0, fffd |-> 1, nonprint |-> 2, lines |-> 2,
          turned |-> 90, regions |-> <<"table", "text", "formula">>, fault |-> "none"]
SomePages ==
  { Page0, [Page0 EXCEPT !.chars = 0, !.lines = 0], [Page0 EXCEPT !.rotation = 90],
    [Page0 EXCEPT !.chars = 9], [Page0 EXCEPT !.fffd = 3], [Page0 EXCEPT !.nonprint = 5],
    [Page0 EXCEPT !.lines = 0, !.turned = 0], [Page0 EXCEPT !.regions = <<>>] }
FaultyPages == {[Page0 EXCEPT !.fault = f] : f \in {"none", "undecodable", "throws", "undelivered"}}
JobOptions ==
  { o \in [dpi : {100}, layout : BOOLEAN, order : BOOLEAN, tables : BOOLEAN, formulas : BOOLEAN,
           image : BOOLEAN, autorotate : BOOLEAN, markdown : BOOLEAN, text : BOOLEAN] :
      /\ o.order \/ o.tables \/ o.formulas \/ o.markdown => o.layout
      /\ o.markdown => o.order /\ ~o.image
      /\ ~o.text => ~(o.order \/ o.tables \/ o.formulas) /\ (o.layout \/ o.image) }
PlainOptions == CHOOSE o \in JobOptions : ~o.layout /\ ~o.image /\ ~o.autorotate

----------------------------------------------------------------------------
(* A part that rests is one that is over, or has not begun. *)

RendersRest ==
  /\ procs = <<>> /\ open = FALSE
  /\ slots = [d \in Slots |-> [pid |-> NoProcess, pipes |-> NoProcess]]
  /\ holder = [d \in Slots |-> Nobody]
  /\ calls = [r \in Renders |-> [NewCall(0) EXCEPT !.pc = "done"]]
  /\ faults = 0
ProbeRests ==
  /\ clock = 0 /\ stamp = 0 /\ ready = FALSE /\ prober = NoProber
  /\ passes = <<[began |-> 0, refused |-> FALSE, says |-> ready]>>
  /\ checks = [c \in Checkers |-> Check0] /\ draining = TRUE
PipelinesRest ==
  /\ idle = <<>> /\ models = <<>> /\ boot = [stage |-> Serving + 1, round |-> 0, want |-> {}]
  /\ stages = {} /\ users = [t \in Threads |-> Away]
EndpointsRest == endpoint = "none" /\ server = Gpu /\ query = NoQuery
PagesRest == doc = [opens |-> TRUE, pages |-> <<>>] /\ mode = "ocr" /\ opts = PlainOptions

Init ==
  /\ part \in Parts
  /\ IF part = "renders" THEN RpInit ELSE RendersRest
  /\ IF part = "readiness" THEN RdInit ELSE ProbeRests
  /\ IF part = "pipelines" THEN PpInit ELSE PipelinesRest
  /\ IF part = "endpoints"
     THEN /\ endpoint \in Endpoints /\ server \in Servers /\ query = NoQuery
          /\ endpoint \in OnlyGpu => server.gpu
     ELSE EndpointsRest
  /\ IF part = "pages"
     THEN doc \in [opens : BOOLEAN, pages : {<<>>}] /\ mode \in Modes /\ opts \in JobOptions
     ELSE PagesRest

RenderPart == part = "renders" /\ RpNext /\ UNCHANGED <<rdvars, ppvars, others>>
ProbePart == part = "readiness" /\ RdNext /\ UNCHANGED <<rpvars, ppvars, others>>
PipelinePart == part = "pipelines" /\ PpNext /\ UNCHANGED <<rpvars, rdvars, others>>

\* The parameters are given in the order of Names: at most three of an image, and
\* at most two of the many that a PDF has.
MostParameters == IF endpoint \in {"pdf", "stream"} THEN 2 ELSE 3
GiveParameter ==
  /\ part = "endpoints" /\ Cardinality(DOMAIN query) < MostParameters
  /\ \E i \in NamesFor(endpoint) :
       /\ \A j \in i .. Len(Names) : Names[j] \notin DOMAIN query
       /\ \E v \in Values(Names[i]) :
            query' = [n \in DOMAIN query \cup {Names[i]} |-> IF n = Names[i] THEN v ELSE query[n]]
  /\ UNCHANGED <<rpvars, rdvars, ppvars, part, endpoint, server, doc, mode, opts>>
AddPage ==
  /\ part = "pages" /\ Len(doc.pages) < 2
  /\ \E p \in IF doc.pages = <<>> THEN SomePages ELSE FaultyPages :
       doc' = [doc EXCEPT !.pages = Append(@, p)]
  /\ UNCHANGED <<rpvars, rdvars, ppvars, part, endpoint, server, query, mode, opts>>

Next == RenderPart \/ ProbePart \/ PipelinePart \/ GiveParameter \/ AddPage
(* Each part is as fair as its module says. *)
Spec == Init /\ [][Next]_svvars /\ RpFairness /\ PpFairness

----------------------------------------------------------------------------
\* Whoever waits for a daemon or a pipeline leaves with an answer or an error.
WaitsEnd == RendersEnd /\ EveryAcquireReturns
=============================================================================
