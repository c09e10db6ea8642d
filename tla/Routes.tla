-------------------------------- MODULE Routes --------------------------------
(* The endpoints: for each one the checks its handler makes, in its order, what it
   then runs, and which keys of the result its answer carries.  An image is
   [present, jpeg, sniffed, decodes, w, h, outcome, found]: `sniffed` if the header
   gives the size before the decode, `outcome` how the inference ends, and `found`
   the keys for which the page has something to show; a document is
   [form, readable, bytes, opens, pages, status, found]. *)
EXTENDS RequestOptions

----------------------------------------------------------------------------
(* What is run, and what it leaves in the result *)

NoRun == [text |-> FALSE, stages |-> {}, routing |-> NoRouting]
StageRun(opts, routing) ==
  IF opts.text THEN [text |-> TRUE, stages |-> opts.wants \ {"as_blocks"}, routing |-> routing]
  ELSE [NoRun EXCEPT !.stages = {"layout"}]

StageOf(key) ==
  CASE key = "table_degraded" -> "tables"
    [] key = "formula_degraded" -> "formulas"
    [] OTHER -> key
Output(run, found) ==
  {key \in found : IF key = "text_degraded" THEN run.text ELSE StageOf(key) \in run.stages}

(* The emitters.  A key is there only when the result has something for it. *)
Degradation == {"text_degraded", "table_degraded", "formula_degraded"}
Blocks(out, blocks) ==
  IF blocks /\ {"layout", "reading_order"} \subseteq out THEN {"blocks"} ELSE {}
PipelineKeys(out, blocks) == {"results"} \cup out \cup Blocks(out, blocks)
TextKeys(out) == {"results"} \cup (out \cap {"layout"})
ResultsKeys(out, blocks) ==
  TextKeys(out) \cup (out \cap {"reading_order"}) \cup Blocks(out, blocks)

Rich(out) == out \cap (Structure \cup Degradation) # {}
InferKeys(out, blocks) ==
  IF Rich(out) THEN PipelineKeys(out, blocks) ELSE ResultsKeys(out, blocks)
\* Mutant of PageKeys: a page has no long form.
PageKeysOfText(out, blocks) ==
  IF "reading_order" \in out THEN ResultsKeys(out, blocks) ELSE TextKeys(out)
PageKeys(out, blocks) ==
  IF Rich(out) THEN PipelineKeys(out, blocks)
  ELSE IF "reading_order" \in out THEN ResultsKeys(out, blocks) ELSE TextKeys(out)
StructuredKeys(out) == {"results"} \cup (out \cap {"reading_order", "text_degraded"})

(* A reply: refused with a code, or what ran and what the reply carries. *)
Refused(code) == [code |-> code, run |-> NoRun, keys |-> {}, ignored |-> {}]
Replied(checks, run, keys, ignored) ==
  IF FirstFault(checks) # Accepted THEN Refused(FirstFault(checks))
  ELSE [code |-> Accepted, run |-> run, keys |-> keys, ignored |-> ignored]
Codes(checks) == {checks[i] : i \in DOMAIN checks} \ {Accepted}

----------------------------------------------------------------------------
(* Images *)

Sized(img, srv) == SizeCode(img.w, img.h, srv)
PreCheck(img, srv) ==
  <<IF img.sniffed THEN Sized(img, srv) ELSE Accepted>>
HostChecks(img, srv) ==
  << Check(img.decodes, "IMAGE_DECODE_FAILED"),
     IF img.decodes THEN Sized(img, srv) ELSE Accepted >>
(* decode_jpeg_and_run decodes on the device; it has one code for both caps. *)
DeviceChecks(img, srv) ==
  << Check(img.decodes, "IMAGE_DECODE_FAILED"),
     Check(img.decodes => Sized(img, srv) = Accepted, "DIMENSIONS_TOO_LARGE") >>

(* run_with_error_handling and timeout_response *)
HttpOutcome(outcome) ==
  CASE outcome = "ok" -> Accepted
    [] outcome = "timeout" -> "INFERENCE_TIMEOUT"
    [] outcome = "busy" -> "SERVER_BUSY"
    [] outcome = "throws" -> "INFERENCE_ERROR"
HttpInference(outcome) == <<HttpOutcome(outcome)>>

ImageSpec(srv) == [EndpointSpec EXCEPT !.routing = srv.gpu]
(* What a handler takes from its query, whatever its gate lets pass. *)
ImageReads == OcrOptionParams \cup RoutingParams

(* /ocr/raw *)
RawDecode(img, text, srv) ==
  IF srv.gpu /\ srv.nvjpeg /\ img.jpeg /\ text THEN DeviceChecks(img, srv)
  ELSE HostChecks(img, srv)
RawChecks(q, img, srv) ==
  <<Check(img.present, "EMPTY_BODY")>>
    \o GateChecks(q, ImageSpec(srv), srv, FALSE)
    \o PreCheck(img, srv) \o RawDecode(img, WantsText(q), srv)
    \o HttpInference(img.outcome)
Raw(q, img, srv) ==
  LET run == StageRun(ParsedOptions(q), Applied(Override(q), NoRouting))
      out == Output(run, img.found)
      blocks == On(q, "as_blocks")
  IN  Replied(RawChecks(q, img, srv), run,
             IF srv.gpu THEN PipelineKeys(out, blocks) ELSE InferKeys(out, blocks),
             Ignored(q, ImageSpec(srv)))

(* /ocr: the image is base64 in a JSON body, [json, base64, routing]. *)
Base64Checks(q, body, img, srv) ==
  GateChecks(q, ImageSpec(srv), srv, FALSE)
    \o << Check(body.json, "INVALID_JSON"), Check(img.present, "MISSING_IMAGE") >>
    \o RoutingChecks(body.routing, ImageSpec(srv), srv)
    \o <<Check(body.base64, "BASE64_DECODE_FAILED")>>
    \o PreCheck(img, srv) \o HostChecks(img, srv) \o HttpInference(img.outcome)
Base64(q, body, img, srv) ==
  LET run == StageRun(ParsedOptions(q),
                      Applied(body.routing, Applied(Override(q), NoRouting)))
  IN  Replied(Base64Checks(q, body, img, srv), run,
             InferKeys(Output(run, img.found), On(q, "as_blocks")),
             Ignored(q, ImageSpec(srv)))

(* /ocr/pixels *)
PixelsSpec(srv) == [ImageSpec(srv) EXCEPT !.pixels = TRUE]
PixelsReads == ImageReads \cup PixelDimParams
PixelsChecks(q, dims, img, srv) ==
  GateChecks(q, PixelsSpec(srv), srv, FALSE)
    \o <<PixelDims(dims.query, dims.header, dims.body, srv).code>> \o HttpInference(img.outcome)
Pixels(q, dims, img, srv) ==
  LET run == StageRun(ParsedOptions(q), Applied(Override(q), NoRouting))
      out == Output(run, img.found)
      blocks == On(q, "as_blocks")
  IN  Replied(PixelsChecks(q, dims, img, srv), run,
             IF srv.gpu THEN PipelineKeys(out, blocks) ELSE InferKeys(out, blocks),
             Ignored(q, PixelsSpec(srv)))

(* /ocr/markdown always reads everything that the server has loaded. *)
MarkdownSpec == [EndpointSpec EXCEPT !.ocr = FALSE, !.embed = TRUE]
MarkdownReads == {"embed"}
LoadedStages(srv) ==
  {"layout", "reading_order"} \cup (IF srv.table THEN {"tables"} ELSE {})
    \cup (IF srv.formula THEN {"formulas"} ELSE {})
MarkdownPage(q, img, srv) ==
  LET run == StageRun(Options(LoadedStages(srv), TRUE), NoRouting)
  IN  Replied(<<Check(img.present, "EMPTY_BODY")>>
               \o GateChecks(q, MarkdownSpec, srv, FALSE)
               \o << Check(srv.layout, "LAYOUT_DISABLED"),
                     Check(Given(q, "embed") => q["embed"] # "0", Invalid) >>
               \o HostChecks(img, srv) \o HttpInference(img.outcome),
             run, {"markdown"} \cup (Output(run, img.found) \cap Degradation),
             Ignored(q, MarkdownSpec))

(* /infer: one region through a backend, named or given in the body, which is
   [json, modality, backend, name, kind, base64]. *)
InferSpec == [EndpointSpec EXCEPT !.ocr = FALSE]
InferReads == {}
InferNames(body, srv) ==
  IF body.modality = "table" THEN srv.tableNames ELSE srv.formulaNames
InlineChecks(body, srv) ==
  << Check(body.kind = "openai" => srv.adhoc, "ADHOC_BACKENDS_DISABLED"),
     Check(body.kind \in {"openai", "local"}, "ROUTING_BAD_KIND"),
     Check(body.kind # "local", "ADHOC_LOCAL_DISABLED") >>
BackendNamed(body, srv) ==
  CASE body.backend = "name" ->
         <<Check(body.name \in InferNames(body, srv), "ROUTING_UNKNOWN_OVERRIDE")>>
    [] body.backend = "object" -> InlineChecks(body, srv)
    [] OTHER -> <<Check(FALSE, Invalid)>>
Infer(q, body, img, srv) ==
  LET unavailable == Check(img.outcome # "unavailable", "BACKEND_UNAVAILABLE")
      outcome == IF img.outcome = "unavailable" THEN "ok" ELSE img.outcome
  IN  Replied(GateChecks(q, InferSpec, srv, FALSE)
               \o << Check(body.json, "INVALID_JSON"), Check(img.present, "MISSING_IMAGE"),
                     Check(body.modality \in {"table", "formula"}, Invalid) >>
               \o BackendNamed(body, srv)
               \o <<Check(body.base64, "BASE64_DECODE_FAILED")>>
               \o PreCheck(img, srv) \o HostChecks(img, srv)
               \o <<unavailable>> \o HttpInference(outcome),
             NoRun, {IF body.modality = "table" THEN "html" ELSE "latex"},
             Ignored(q, InferSpec))

----------------------------------------------------------------------------
(* gRPC Recognize: a message is [flags, routing, image, width, height, channels,
   body], where `image` says whether the field of the image is set, `body` is the
   length of the raw pixels, and `layout_only` is one more flag. *)

RpcOptionChecks(flags, srv) ==
  LET alone == "layout_only" \in flags
      textual == flags \cap {"reading_order", "as_blocks", "tables", "formulas"}
  IN  << Check(alone => srv.gpu, Invalid),
         Check(alone => textual = {}, Invalid),
         Check(flags # {} => srv.layout, "LAYOUT_DISABLED") >>
RpcWants(flags) ==
  LET asked == flags \cap Features
  IN  asked \cup (IF flags # {} THEN {"layout"} ELSE {})
        \cup (IF "as_blocks" \in asked THEN {"reading_order"} ELSE {})
RpcBackendChecks(flags, srv) ==
  << Check(srv.json \/ flags \subseteq {"reading_order"}, "STRUCTURED_MODE_NO_STRUCTURE"),
     Check("tables" \in flags => srv.table, "TABLE_BACKEND_DISABLED"),
     Check("formulas" \in flags => srv.formula, "FORMULA_BACKEND_DISABLED") >>

RpcOutcome(outcome) ==
  CASE outcome = "ok" -> Accepted
    [] outcome = "busy" -> "SERVER_BUSY"
    [] outcome = "timeout" -> "INFERENCE_TIMEOUT"
    [] outcome = "throws" -> "INFERENCE_ERROR"
RpcInference(outcome) == <<RpcOutcome(outcome)>>

(* Pixels that are empty are none: the message is one with an image, or without. *)
RpcImageChecks(m, img, srv) ==
  IF m.body > 0
  THEN <<RpcPixelCode(m.width, m.height, m.channels, m.body, srv)>>
  ELSE <<Check(m.image /\ img.present, "MISSING_IMAGE")>> \o PreCheck(img, srv)
         \o (IF srv.gpu /\ img.jpeg THEN DeviceChecks(img, srv) ELSE HostChecks(img, srv))
RecognizeChecks(m, img, srv) ==
  RoutingChecks(m.routing, ImageSpec(srv), srv)
    \o RpcOptionChecks(m.flags, srv) \o RpcBackendChecks(m.flags, srv)
    \o RpcImageChecks(m, img, srv) \o RpcInference(img.outcome)
(* fill_response *)
ResponseKeys(out, blocks, srv) ==
  IF srv.json THEN PipelineKeys(out, blocks) ELSE StructuredKeys(out)
Recognize(m, img, srv) ==
  LET run == StageRun(Options(RpcWants(m.flags), "layout_only" \notin m.flags),
                      Applied(m.routing, NoRouting))
  IN  Replied(RecognizeChecks(m, img, srv), run,
             ResponseKeys(Output(run, img.found), "as_blocks" \in m.flags, srv), {})

----------------------------------------------------------------------------
(* PDFs *)

Modes == {"ocr", "geometric", "auto", "auto_verified"}
EncodeParams == {"format", "lossless", "png_compression", "quality", "max_side"}
PdfSpec == [EndpointSpec EXCEPT !.pdf = TRUE]

(* extract_pdf_bytes runs before a parameter is looked at. *)
ExtractChecks(doc) ==
  CASE doc.form = "multipart" ->
         <<Check(doc.readable, "INVALID_MULTIPART"), Check(doc.bytes, "MISSING_FILE")>>
    [] doc.form = "json" ->
         <<Check(doc.readable, "MISSING_PDF"), Check(doc.bytes, "BASE64_DECODE_FAILED")>>
    [] doc.form = "raw" -> <<Check(doc.bytes, "EMPTY_BODY")>>

Inline(q) == Given(q, "images") /\ q["images"] = "inline"
ImageParamsValid(q) ==
  /\ Given(q, "images") => q["images"] \in {"inline", "none"}
  /\ \A n \in EncodeParams : Given(q, n) => q[n] # "bad"
DpiCheck(q) == <<Check(Given(q, "dpi") => q["dpi"] # "bad", "INVALID_DPI")>>
ModeCheck(q) == <<Check(Given(q, "mode") => q["mode"] \in Modes, Invalid)>>
ModeOf(q, srv) == IF Given(q, "mode") THEN q["mode"] ELSE srv.mode
RotateChecks(q, srv) ==
  << Check(WellFormed(q, "autorotate"), Invalid),
     Check(On(q, "autorotate") => srv.ori, "AUTOROTATE_DISABLED") >>
SomethingToShow(q) == WantsText(q) \/ On(q, "layout") \/ Inline(q)

(* With markdown=1 the stages that are loaded run unless the query says no. *)
PdfOptions(q, srv) ==
  LET default(n, loaded) == IF ~Given(q, n) /\ loaded THEN {n} ELSE {}
      opts == ParsedOptions(q)
  IN  IF ~On(q, "markdown") THEN opts
      ELSE Options(opts.wants \cup {"layout", "reading_order"}
                     \cup default("tables", srv.table) \cup default("formulas", srv.formula),
                   opts.text)
MarkdownChecks(q, srv) ==
  << Check(WellFormed(q, "markdown"), Invalid), Check(WellFormed(q, "as_pages"), Invalid),
     Check(On(q, "as_pages") => On(q, "markdown"), Invalid),
     Check(On(q, "markdown") => srv.layout, "LAYOUT_DISABLED"),
     Check(On(q, "markdown") => WantsText(q), Invalid) >>
PdfReads ==
  OcrOptionParams \cup {"markdown", "as_pages", "dpi", "mode", "images", "autorotate"}
    \cup EncodeParams
(* parse_pdf_request *)
PdfChecks(q, srv) ==
  OptionChecks(q, srv, srv.gpu) \o MarkdownChecks(q, srv) \o ParamChecks(q, PdfSpec, srv)
    \o BackendChecks(PdfOptions(q, srv).wants, srv) \o DpiCheck(q) \o ModeCheck(q)
    \o << Check(ImageParamsValid(q), Invalid),
          Check(~(On(q, "markdown") /\ Inline(q)), Invalid),
          Check(srv.gpu => SomethingToShow(q), Invalid) >>
    \o RotateChecks(q, srv)

(* The job: what it is asked to do, and the code of its verdict. *)
PdfRun(opts, mode, rotate, image, markdown, srv) ==
  [text |-> opts.text, stages |-> opts.wants \ {"as_blocks"}, routing |-> NoRouting,
   mode |-> IF mode = "auto_verified" /\ ~srv.gpu THEN "auto" ELSE mode,
   rotate |-> rotate, image |-> image, markdown |-> markdown]
TooManyPages(doc, srv) == doc.opens /\ doc.pages > srv.maxPages
JobCode(status) ==
  CASE status = "Ok" -> Accepted
    [] status = "RenderFailed" -> "PDF_RENDER_FAILED"
    [] status = "EmptyPdf" -> "EMPTY_PDF"
    [] status = "Dropped" -> "SERVER_BUSY"
    [] status = "DecodeFailed" -> "PAGE_DECODE_FAILED"
    [] status = "PageFailed" -> "PAGE_FAILED"
    [] status = "TimedOut" -> "INFERENCE_TIMEOUT"

(* /ocr/pdf *)
PdfRouteChecks(q, doc, srv) ==
  ExtractChecks(doc) \o PdfChecks(q, srv)
    \o << Check(~TooManyPages(doc, srv), "PDF_TOO_LARGE"),
          JobCode(doc.status) >>
PdfKeys(run, out, blocks) ==
  PageKeys(out, blocks) \cup (IF run.rotate THEN {"orientation"} ELSE {})
    \cup (IF run.image THEN {"image"} ELSE {})
PdfRoute(q, doc, srv) ==
  LET run == PdfRun(PdfOptions(q, srv), ModeOf(q, srv), On(q, "autorotate"), Inline(q),
                    On(q, "markdown"), srv)
      out == Output(run, doc.found)
  IN  Replied(PdfRouteChecks(q, doc, srv), run,
             IF run.markdown THEN {"markdown"} \cup (out \cap Degradation)
             ELSE PdfKeys(run, out, On(q, "as_blocks")),
             Ignored(q, PdfSpec))

(* /ocr/stream checks on the event loop; what fails later is an event.  Its gate is
   that of /ocr/pdf.  A document is read as the query says, but for the Markdown; of
   an image the options of a document are checked and then forgotten. *)
StreamPdfReads == OcrOptionParams \cup {"dpi", "mode", "images", "autorotate"} \cup EncodeParams
StreamImageReads == OcrOptionParams
StreamChecks(q, present, close, srv) ==
  << Check(present, "EMPTY_BODY"), Check(~close, Invalid) >>
    \o GateChecks(q, PdfSpec, srv, TRUE) \o DpiCheck(q) \o ModeCheck(q)
    \o <<Check(ImageParamsValid(q), Invalid)>> \o RotateChecks(q, srv)
StreamPdf(q, doc, close, srv) ==
  LET run == PdfRun(ParsedOptions(q), ModeOf(q, srv), On(q, "autorotate"), Inline(q), FALSE, srv)
      out == Output(run, doc.found)
  IN  Replied(StreamChecks(q, doc.bytes, close, srv)
               \o << Check(SomethingToShow(q), Invalid), Check(doc.opens, "INVALID_PDF"),
                     Check(~TooManyPages(doc, srv), "PDF_TOO_LARGE"),
                     Check(doc.pages > 0, "EMPTY_PDF"),
                     JobCode(doc.status) >>,
             run, PdfKeys(run, out, On(q, "as_blocks")), Ignored(q, PdfSpec))
StreamImage(q, img, close, srv) ==
  LET run == StageRun(ParsedOptions(q), NoRouting)
  IN  Replied(StreamChecks(q, img.present, close, srv)
               \o <<Check(WantsText(q) \/ On(q, "layout"), Invalid)>>
               \o HostChecks(img, srv) \o HttpInference(img.outcome),
             run, PipelineKeys(Output(run, img.found), On(q, "as_blocks")),
             Ignored(q, PdfSpec))

(* gRPC RecognizePDF: [flags, dpi, mode].  A mode it does not know is the default. *)
RpcMode(m, srv) == IF m.mode \in Modes THEN m.mode ELSE srv.mode
RpcJobCode(status) ==
  CASE status = "Ok" -> Accepted
    [] status = "RenderFailed" -> "PDF_RENDER_FAILED"
    [] status = "EmptyPdf" -> "EMPTY_PDF"
    [] status = "Dropped" -> "SERVER_BUSY"
    [] status = "DecodeFailed" -> "PAGE_DECODE_FAILED"
    [] status = "PageFailed" -> "PAGE_FAILED"
    [] status = "TimedOut" -> "INFERENCE_TIMEOUT"
RecognizePdfChecks(m, doc, srv) ==
  << Check(srv.renderer, "PDF_NOT_AVAILABLE"), Check(doc.bytes, "MISSING_PDF"),
     Check(m.flags # {} => srv.layout, "LAYOUT_DISABLED") >>
    \o RpcBackendChecks(m.flags, srv)
    \o << Check(m.dpi # "bad", "INVALID_DPI"), Check(~TooManyPages(doc, srv), "PDF_TOO_LARGE"),
          RpcJobCode(doc.status) >>
RecognizePdf(m, doc, srv) ==
  LET run == PdfRun(Options(RpcWants(m.flags), TRUE), RpcMode(m, srv), FALSE, FALSE, FALSE, srv)
  IN  Replied(RecognizePdfChecks(m, doc, srv), run,
             IF srv.json THEN PageKeys(Output(run, doc.found), "as_blocks" \in m.flags)
             ELSE {"results"}, {})

----------------------------------------------------------------------------
(* /capabilities *)
Offered(srv) ==
  {f \in {"layout", "tables", "formulas", "autorotate"} :
     CASE f = "layout" -> srv.layout [] f = "tables" -> srv.table
       [] f = "formulas" -> srv.formula [] f = "autorotate" -> srv.ori}
OfferedModes(srv) == Modes \ (IF srv.gpu THEN {} ELSE {"auto_verified"})
=============================================================================
