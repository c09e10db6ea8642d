---------------------------- MODULE RequestOptions ----------------------------
(* What every endpoint does with the parameters of a request before it does any
   work: the parsers of the options, the one validation core, and the sizes of an
   image.  A query is a function on the names it gives; a flag has the value
   "1", "0" or "bad", and any other value is one the endpoints tell apart.  The
   server, srv, is what its start-up has settled: the build, the models that are
   loaded, the names of the backends, and TURBO_OCR_STRICT_QUERY_PARAMS. *)
EXTENDS Integers, Sequences, FiniteSets, FiniteSetsExt, SequencesExt

Accepted == "ok"
Invalid == "INVALID_PARAMETER"
Check(holds, code) == IF holds THEN Accepted ELSE code

(* The handlers check one thing after the other and answer with the first code. *)
FirstFault(checks) ==
  LET faults == {i \in DOMAIN checks : checks[i] # Accepted}
  IN  IF faults = {} THEN Accepted ELSE checks[Min(faults)]

----------------------------------------------------------------------------
(* parse_query_options *)

Structure == {"tables", "formulas"}
Features == {"layout", "reading_order", "as_blocks"} \cup Structure

Given(q, name) == name \in DOMAIN q
On(q, name) == Given(q, name) /\ q[name] = "1"
WellFormed(q, name) == Given(q, name) => q[name] \in {"0", "1"}
Asked(q) == {f \in Features : On(q, f)}
WantsText(q) == ~(Given(q, "text") /\ q["text"] = "0")

(* Blocks aggregate over the reading order, and everything stands on the layout. *)
Closure(asked) ==
  asked \cup (IF "as_blocks" \in asked THEN {"reading_order"} ELSE {})
        \cup (IF asked # {} THEN {"layout"} ELSE {})

Loaded(q, name, srv) == On(q, name) => srv.layout
LayoutChecks(q, name, srv) ==
  <<Check(WellFormed(q, name), Invalid), Check(Loaded(q, name, srv), "LAYOUT_DISABLED")>>

(* text=0 runs the layout model alone, or on a PDF only renders its pages. *)
TextChecks(q, srv, imageOnly) ==
  LET wants == Closure(Asked(q))
      alone(P) == Check(WantsText(q) \/ P, Invalid)
  IN  << Check(WellFormed(q, "text"), Invalid),
         alone(srv.gpu),
         alone(wants \cap Structure = {}),
         alone("as_blocks" \notin wants),
         alone("reading_order" \notin wants),
         alone("layout" \in wants \/ imageOnly) >>

\* Mutant of OptionChecks: tables and formulas do not need the layout model.
OptionChecksWithoutModel(q, srv, imageOnly) ==
  LayoutChecks(q, "layout", srv) \o LayoutChecks(q, "reading_order", srv)
    \o LayoutChecks(q, "as_blocks", srv)
    \o <<Check(WellFormed(q, "tables"), Invalid), Check(WellFormed(q, "formulas"), Invalid)>>
    \o TextChecks(q, srv, imageOnly)
OptionChecks(q, srv, imageOnly) ==
  LayoutChecks(q, "layout", srv) \o LayoutChecks(q, "reading_order", srv)
    \o LayoutChecks(q, "as_blocks", srv)
    \o << Check(WellFormed(q, "tables"), Invalid), Check(WellFormed(q, "formulas"), Invalid),
          Check(Loaded(q, "tables", srv) /\ Loaded(q, "formulas", srv), "LAYOUT_DISABLED") >>
    \o TextChecks(q, srv, imageOnly)

Options(wants, text) == [wants |-> wants, text |-> text]
DefaultOptions == Options({}, TRUE)
ParsedOptions(q) == Options(Closure(Asked(q)), WantsText(q))

(* check_structure_backends: a backend that is not loaded is refused aloud. *)
BackendChecks(wants, srv) ==
  << Check("tables" \in wants => srv.table, "TABLE_BACKEND_DISABLED"),
     Check("formulas" \in wants => srv.formula, "FORMULA_BACKEND_DISABLED") >>

----------------------------------------------------------------------------
(* The validation core *)

OcrOptionParams == Features \cup {"text"}
RoutingParams == {"route_table", "route_formula"}
PixelDimParams == {"width", "height", "channels"}
PdfParams == {"dpi", "mode", "markdown", "as_pages", "images", "format", "lossless",
              "png_compression", "quality", "max_side", "autorotate"}
MarkdownParams == {"embed"}
KnownParams == OcrOptionParams \cup RoutingParams \cup PixelDimParams \cup PdfParams
                 \cup MarkdownParams

(* EndpointSpec, with its defaults. *)
EndpointSpec == [ocr |-> TRUE, layoutOnly |-> TRUE, routing |-> FALSE, pixels |-> FALSE,
                 pdf |-> FALSE, embed |-> FALSE]
SpecAllows(spec) ==
  (IF spec.ocr THEN OcrOptionParams ELSE {}) \cup (IF spec.pixels THEN PixelDimParams ELSE {})
    \cup (IF spec.pdf THEN PdfParams ELSE {}) \cup (IF spec.embed THEN MarkdownParams ELSE {})

Unsupported(q, spec) == DOMAIN q \ (SpecAllows(spec) \cup RoutingParams)
Ignored(q, spec) == Unsupported(q, spec) \cap KnownParams

NoName == ""
NoRouting == [table |-> NoName, formula |-> NoName]
Override(q) ==
  [table |-> IF Given(q, "route_table") THEN q["route_table"] ELSE NoName,
   formula |-> IF Given(q, "route_formula") THEN q["route_formula"] ELSE NoName]

(* apply_routing_override: the one policy behind the query, the JSON body and
   the gRPC fields. *)
RoutingChecks(over, spec, srv) ==
  << Check(over = NoRouting \/ spec.routing, Invalid),
     Check(over.table \in srv.tableNames \cup {NoName}, "ROUTING_UNKNOWN_OVERRIDE"),
     Check(over.formula \in srv.formulaNames \cup {NoName}, "ROUTING_UNKNOWN_OVERRIDE") >>
Applied(over, routing) ==
  [table |-> IF over.table = NoName THEN routing.table ELSE over.table,
   formula |-> IF over.formula = NoName THEN routing.formula ELSE over.formula]

ParamChecks(q, spec, srv) ==
  <<Check(srv.strict => Unsupported(q, spec) = {}, Invalid)>>
    \o RoutingChecks(Override(q), spec, srv)

(* validate_request: the gate of every HTTP endpoint but /ocr/pdf. *)
GateOptions(q, spec) == IF spec.ocr THEN ParsedOptions(q) ELSE DefaultOptions
GateChecks(q, spec, srv, imageOnly) ==
  (IF spec.ocr THEN OptionChecks(q, srv, imageOnly) ELSE <<>>)
    \o ParamChecks(q, spec, srv)
    \o <<Check(GateOptions(q, spec).text \/ spec.layoutOnly, Invalid)>>
    \o (IF spec.ocr THEN BackendChecks(GateOptions(q, spec).wants, srv) ELSE <<>>)

----------------------------------------------------------------------------
(* Sizes.  A length is a small number of units; both caps are srv's. *)

(* classify_image_size: the side before the area. *)
SizeCode(w, h, srv) ==
  FirstFault(<<Check(w <= srv.maxDim /\ h <= srv.maxDim, "DIMENSIONS_TOO_LARGE"),
               Check(w * h <= srv.maxPixels, "PIXELS_TOO_LARGE")>>)

None == 0 - 1
Garbage == 0 - 2
Absent(v) == v = None

Resolved(q, h) == IF Absent(q) THEN h ELSE q
Conflict(q, h) == q # Garbage /\ h # Garbage /\ ~Absent(q) /\ ~Absent(h) /\ q # h

PayloadChecks(w, h, channels, body, srv) ==
  LET size == SizeCode(w, h, srv)
  IN  << Check(w > 0 /\ h > 0 /\ channels \in {1, 3}, "INVALID_DIMENSIONS"),
         size,
         Check(body = w * h * channels, "BODY_SIZE_MISMATCH") >>

(* resolve_pixel_dims and validate_pixel_payload: the query, or else the old
   headers, and never one of two that disagree. *)
PixelDims(query, header, body, srv) ==
  LET value(n) == Resolved(query[n], header[n])
      channels == IF Absent(value("channels")) THEN 3 ELSE value("channels")
  IN  [code |-> FirstFault(
         << Check(\A n \in PixelDimParams : Garbage \notin {query[n], header[n]},
                  "INVALID_DIMENSIONS"),
            Check(\A n \in PixelDimParams : ~Conflict(query[n], header[n]), "DIMENSION_CONFLICT"),
            Check(~Absent(value("width")) /\ ~Absent(value("height")), "MISSING_DIMENSIONS") >>
         \o PayloadChecks(value("width"), value("height"), channels, body, srv)),
       width |-> value("width"), height |-> value("height"), channels |-> channels,
       deprecated |-> \E n \in PixelDimParams : header[n] \notin {None, Garbage}]

(* OCRRequest.pixels that are there: an int32 that is not set is 0. *)
RpcPixelCode(width, height, channels, body, srv) ==
  FirstFault(PayloadChecks(width, height, IF channels = 0 THEN 3 ELSE channels, body, srv))
=============================================================================
