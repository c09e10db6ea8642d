------------------------------ MODULE Requests -------------------------------
(* A request with its endpoint and its server, or a document with the mode and the
   options of its job, and what the answers to it must have in common: those of two
   transports, those of two builds, and an answer with what was asked. *)
EXTENDS Routes

Job == INSTANCE PageJob

CONSTANTS Images,     \* what may be sent as an image,
          Documents,  \* as a PDF,
          Dims,       \* as the size of raw pixels, in the query and in the headers,
          Regions     \* and as a region with its backend

VARIABLES endpoint, server, query,  \* an endpoint, its server, and the parameters given
          doc, mode, opts           \* a document, and how its pages are to be read

Shown == {"layout", "reading_order"} \cup Structure \cup Degradation
ImageType ==
  [present : BOOLEAN, jpeg : BOOLEAN, sniffed : BOOLEAN, decodes : BOOLEAN, w : Nat, h : Nat,
   outcome : {"ok", "timeout", "busy", "throws"}, found : SUBSET Shown]
DocumentType ==
  [form : {"raw", "json", "multipart"}, readable : BOOLEAN, bytes : BOOLEAN, opens : BOOLEAN,
   pages : Nat, found : SUBSET Shown,
   status : {"Ok", "RenderFailed", "EmptyPdf", "Dropped", "DecodeFailed", "PageFailed", "TimedOut"}]
Lengths == [PixelDimParams -> Nat \cup {None, Garbage}]
RegionType ==
  [json : BOOLEAN, base64 : BOOLEAN, modality : STRING, backend : STRING, name : STRING,
   kind : STRING]
ServerType ==
  [gpu : BOOLEAN, nvjpeg : BOOLEAN, layout : BOOLEAN, table : BOOLEAN, formula : BOOLEAN,
   strict : BOOLEAN, adhoc : BOOLEAN, json : BOOLEAN, renderer : BOOLEAN, ori : BOOLEAN,
   tableNames : SUBSET STRING, formulaNames : SUBSET STRING, mode : Modes,
   maxDim : Nat, maxPixels : Nat, maxPages : Nat]

ASSUME RequestsAssumption ==
  /\ Images \subseteq ImageType /\ Documents \subseteq DocumentType
  /\ Dims \subseteq [query : Lengths, header : Lengths, body : Nat]
  /\ Regions \subseteq RegionType

RequestTypeOK ==
  /\ endpoint \in STRING /\ server \in ServerType
  /\ DOMAIN query \subseteq STRING /\ \A n \in DOMAIN query : query[n] \in STRING

----------------------------------------------------------------------------
(* Two transports, and one answer *)

\* The gRPC request that says what the query says, if there is one.
Plain(q) ==
  /\ DOMAIN q \subseteq OcrOptionParams \cup RoutingParams
  /\ \A f \in OcrOptionParams : WellFormed(q, f)
  /\ WantsText(q) \/ On(q, "layout")
Flags(q) == Asked(q) \cup (IF WantsText(q) THEN {} ELSE {"layout_only"})
Message(q) == [flags |-> Flags(q), routing |-> Override(q), image |-> TRUE, width |-> 0,
               height |-> 0, channels |-> 0, body |-> 0]
PixelMessage(q, dims) ==
  LET field(n) == LET v == Resolved(dims.query[n], dims.header[n]) IN IF Absent(v) THEN 0 ELSE v
  IN  [Message(q) EXCEPT !.image = FALSE, !.width = field("width"), !.height = field("height"),
                         !.channels = field("channels"), !.body = dims.body]
PlainPdf(q) ==
  /\ DOMAIN q \subseteq Features \cup {"dpi", "mode"}
  /\ \A f \in Features : WellFormed(q, f)
  /\ ModeOf(q, server) \in Modes
PdfMessage(q) ==
  [flags |-> Asked(q), dpi |-> IF Given(q, "dpi") THEN q["dpi"] ELSE "",
   mode |-> IF Given(q, "mode") THEN q["mode"] ELSE ""]

\* Two codes for one condition: an empty body or image, and the caps of a size
\* that the header does not give.
Condition(code) ==
  CASE code \in {"EMPTY_BODY", "MISSING_IMAGE", "MISSING_PDF"} -> "empty"
    [] code \in {"PIXELS_TOO_LARGE", "DIMENSIONS_TOO_LARGE"} -> "too large"
    [] code \in {"INVALID_DIMENSIONS", "MISSING_DIMENSIONS"} -> "dimensions"
    [] OTHER -> code
Alike(http, list, rpc) ==
  /\ (http.code = Accepted) <=> (rpc.code = Accepted)
  /\ http.code = Accepted => rpc.run = http.run /\ rpc.keys = http.keys
  /\ (\A c \in Codes(list) : Condition(c) = Condition(http.code)) =>
       Condition(rpc.code) = Condition(http.code)

PlainBody == [json |-> TRUE, base64 |-> TRUE, routing |-> NoRouting]
\* An int32 field says no garbage, and nothing when it is 0.
Sayable(dims) ==
  /\ \A n \in PixelDimParams : Garbage \notin {dims.query[n], dims.header[n]}
  /\ Resolved(dims.query["channels"], dims.header["channels"]) # 0

(* One request over HTTP and over gRPC: both refuse it, and with the same code when
   one thing is wrong with it, or both run the same stages and say the same.  Raw
   pixels that are empty both refuse, each for a reason of its own: HTTP for their
   size, gRPC for an image that is missing. *)
TransportsAgree ==
  server.json /\ server.renderer =>
    /\ endpoint \in {"raw", "ocr"} /\ Plain(query) => \A img \in Images :
         LET rpc == Recognize(Message(query), img, server)
         IN  IF endpoint = "raw"
             THEN Alike(Raw(query, img, server), RawChecks(query, img, server), rpc)
             ELSE Alike(Base64(query, PlainBody, img, server),
                        Base64Checks(query, PlainBody, img, server), rpc)
    /\ endpoint = "pixels" /\ Plain(query) => \A dims \in Dims : \A img \in Images :
         LET http == Pixels(query, dims, img, server)
             rpc == Recognize(PixelMessage(query, dims), img, server)
         IN  Sayable(dims) /\ http.code # "DIMENSION_CONFLICT" =>
               IF dims.body = 0 THEN Accepted \notin {http.code, rpc.code}
               ELSE Alike(http, PixelsChecks(query, dims, img, server), rpc)
    /\ endpoint = "pdf" /\ PlainPdf(query) => \A d \in Documents : d.form = "raw" =>
         Alike(PdfRoute(query, d, server), PdfRouteChecks(query, d, server),
               RecognizePdf(PdfMessage(query), d, server))

----------------------------------------------------------------------------
(* An answer, and what was asked *)

\* What the page has of what was asked for, and what was degraded on the way.
Owed(asked, run, found) ==
  (asked \cap found) \cup {k \in found \cap Degradation : k \in Output(run, found)}
    \cup (IF "as_blocks" \in asked /\ {"layout", "reading_order"} \subseteq found
          THEN {"blocks"} ELSE {})
\* The parameters a request names; a route without a name asks for nothing.
Named(q) == (DOMAIN q \cap KnownParams) \ {n \in RoutingParams : Given(q, n) /\ q[n] = NoName}
\* Parameters the handler does not read and the answer does not name.
Unsaid(reply, reads) == Named(query) \ (reads \cup reply.ignored)
Complete(reply, asked, found, reads, lost) ==
  reply.code = Accepted =>
    /\ Owed(asked, reply.run, found) \subseteq reply.keys
    /\ reply.keys # {"results"} \/ reply.run.text \/ "layout" \notin found
    /\ Unsaid(reply, reads) = Named(query) \cap lost
MarkdownSays(reply, asked, found, reads) ==
  reply.code = Accepted =>
    /\ {"markdown"} \cup (found \cap Degradation \cap Output(reply.run, found)) \subseteq reply.keys
    /\ asked \subseteq reply.run.stages \cup {"as_blocks"}
    /\ Unsaid(reply, reads) = {}

\* /capabilities tells the truth: what is not offered is not run, and a request for
\* what is offered is not refused.  A feature of the structure is offered without
\* the layout it needs when only the layout model is missing (stages_gpu.cpp:81).
Offers(srv) == Offered(srv) \ (IF srv.layout THEN {} ELSE Structure)
OnlyOffered(q, srv) ==
  \A n \in DOMAIN q : IF n = "mode" THEN q[n] \in OfferedModes(srv)
                      ELSE n \in Offers(srv) /\ q[n] = "1"
Sound(d, srv) ==
  d.form = "raw" /\ d.bytes /\ d.status = "Ok" /\ ~TooManyPages(d, srv)
OfferKept(q, d, srv) ==
  LET reply == PdfRoute(q, d, srv)
  IN  /\ reply.code = Accepted =>
           /\ reply.run.stages \cap (Structure \cup {"layout"}) \subseteq Offered(srv)
           /\ reply.run.rotate => "autorotate" \in Offered(srv)
           /\ reply.run.mode \in OfferedModes(srv)
      /\ OnlyOffered(q, srv) /\ Sound(d, srv) => reply.code = Accepted

(* A region is answered in the form of its modality, and by an endpoint that the
   operator has configured, or allowed the client to name. *)
Unavailable(img) == [img EXCEPT !.outcome = "unavailable"]  \* the backend does not answer
RegionAnswered(reply, body, srv) ==
  reply.code = Accepted =>
    /\ reply.keys = (IF body.modality = "table" THEN {"html"} ELSE {"latex"})
    /\ body.name \in srv.tableNames \cup srv.formulaNames \/ srv.adhoc
    /\ Unsaid(reply, InferReads) = {}

(* An answer with 200 carries everything that was asked for and that the page has,
   and says which stages were degraded; a parameter that the handler does not read is
   named in the answer, on every endpoint but /ocr/stream, whose gate lets pass what
   it does not read: markdown and as_pages of a document and every parameter of a
   document of an image, and no other; and what the server offers can be asked for. *)
NothingAskedIsLost ==
  LET asked == Asked(query)
  IN  /\ \A img \in Images :
           /\ endpoint = "raw" =>
                Complete(Raw(query, img, server), asked, img.found, ImageReads, {})
           /\ endpoint = "ocr" =>
                Complete(Base64(query, PlainBody, img, server), asked, img.found, ImageReads, {})
           /\ endpoint = "pixels" => \A dims \in Dims :
                Complete(Pixels(query, dims, img, server), asked, img.found, PixelsReads, {})
           /\ endpoint = "markdown" =>
                MarkdownSays(MarkdownPage(query, img, server), {}, img.found, MarkdownReads)
           /\ endpoint = "infer" => \A body \in Regions : \A sent \in {img, Unavailable(img)} :
                RegionAnswered(Infer(query, body, sent, server), body, server)
           /\ endpoint = "stream" =>
                Complete(StreamImage(query, img, FALSE, server), asked, img.found,
                         StreamImageReads, PdfParams)
      /\ \A d \in Documents :
           /\ endpoint = "pdf" =>
                LET reply == PdfRoute(query, d, server)
                IN  /\ OfferKept(query, d, server)
                    /\ IF On(query, "markdown") THEN MarkdownSays(reply, asked, d.found, PdfReads)
                       ELSE Complete(reply, asked, d.found, PdfReads, {})
           /\ endpoint = "stream" =>
                Complete(StreamPdf(query, d, FALSE, server), asked, d.found,
                         StreamPdfReads, {"markdown", "as_pages"})

----------------------------------------------------------------------------
(* The pages of a PDF job, in two builds *)

PageType ==
  [chars : Nat, rotation : Nat, fffd : Nat, nonprint : Nat, lines : Nat, turned : Nat,
   regions : Seq(STRING), fault : {"none", "undecodable", "throws", "undelivered"}]
OptionType ==
  [dpi : Nat \ {0}, layout : BOOLEAN, order : BOOLEAN, tables : BOOLEAN, formulas : BOOLEAN,
   image : BOOLEAN, autorotate : BOOLEAN, markdown : BOOLEAN, text : BOOLEAN]
PagesTypeOK ==
  /\ doc \in [opens : BOOLEAN, pages : Seq(PageType)]
  /\ mode \in Modes
  /\ opts \in OptionType

\* Only the GPU build serves text=0.
Answers ==
  {Job!GpuJob(doc, mode, opts)}
    \cup (IF opts.text THEN {Job!CpuJob(doc, Job!Aliased(mode), opts)} ELSE {})

(* The two builds answer alike where they have the same feature, and on every page
   the boxes, the layout and the image are in the frame the page says it is in. *)
BuildsAgree ==
  /\ opts.text => Job!GpuJob(doc, Job!Aliased(mode), opts) =
                    Job!CpuJob(doc, Job!Aliased(mode), opts)
  /\ \A job \in Answers : \A i \in DOMAIN job.pages :
       LET page == job.pages[i]
       IN  /\ page.text # "none" => opts.text /\ page.frame = page.dpi
           /\ page.layout # <<>> => page.dpi = opts.dpi
           /\ doc.pages[i].fault = "none" /\ opts.image =>
                page.image = (IF page.turned = 0 THEN "as is" ELSE "turned")
           /\ page.mode = "geometric" => page.turned = 0 /\ page.text \in {"none", "layer"}
=============================================================================
