------------------------------- MODULE PageJob -------------------------------
(* What the PDF job makes of the pages of a document, in the GPU build and in the
   CPU build: which text a page gets, whether it is rendered, and in which frame
   its boxes are.  The order of the threads is in module PdfJob; here a page is
   what its text layer and its bitmap hold and what goes wrong on it:
   [chars, rotation, fffd, nonprint, lines] the extracted layer, `turned` the
   orientation the model finds, `regions` the classes of its layout, and `fault`
   one of "none", "undecodable", "throws" and "undelivered". *)
EXTENDS Integers, Sequences

Points == 72   \* a text layer is in PDF points

(* text_layer_quality_for: the first rule that applies *)
Quality(page) ==
  CASE page.chars = 0 -> "absent"
    [] page.chars > 0 /\ page.rotation # 0 -> "rejected"
    [] page.chars \in 1 .. 9 /\ page.rotation = 0 -> "absent"
    [] OTHER -> IF page.fffd * 20 > page.chars \/ page.nonprint * 10 > page.chars
                THEN "rejected" ELSE IF page.lines = 0 THEN "absent" ELSE "trusted"

(* A document that PDFium cannot open has no text layer: every page is read. *)
Opened(doc, mode) == IF doc.opens THEN mode ELSE "ocr"

(* The CPU route takes auto_verified for auto. *)
Aliased(mode) == IF mode = "auto_verified" THEN "auto" ELSE mode

----------------------------------------------------------------------------
(* prepopulate_pages *)

EmptySlot == [mode |-> "ocr", quality |-> "absent", text |-> "none", frame |-> 0, dpi |-> 0,
              layout |-> <<>>, order |-> FALSE, tables |-> {}, formulas |-> {},
              turned |-> 0, image |-> "none", markdown |-> FALSE]
InPoints(slot) == [slot EXCEPT !.frame = Points, !.dpi = Points]

Resolved(page, mode) ==
  IF mode # "auto" THEN mode ELSE IF Quality(page) = "trusted" THEN "geometric" ELSE "ocr"

Prefilled(page, mode) ==
  LET slot == [EmptySlot EXCEPT !.mode = Resolved(page, mode), !.quality = Quality(page)]
  IN  IF slot.mode # "geometric" THEN slot
      ELSE IF slot.quality = "trusted" THEN [InPoints(slot) EXCEPT !.text = "layer"]
      ELSE InPoints(slot)

\* Mutant of IsRendered: an image does not make a page of the text layer rendered.
RendersForModelsOnly(page, mode, opts) == Resolved(page, mode) # "geometric" \/ opts.layout
IsRendered(page, mode, opts) ==
  Resolved(page, mode) # "geometric" \/ opts.layout \/ opts.image

Slot(page, mode) == IF mode = "ocr" THEN EmptySlot ELSE Prefilled(page, mode)

----------------------------------------------------------------------------
(* The models on one bitmap *)

Of(page, class) == {i \in DOMAIN page.regions : page.regions[i] = class}
Seen(page, opts) == IF opts.layout THEN page.regions ELSE <<>>
Structured(slot, page, opts) ==
  [slot EXCEPT
     !.layout = Seen(page, opts),
     !.tables = IF opts.tables /\ opts.layout THEN Of(page, "table") ELSE {},
     !.formulas = IF opts.formulas /\ opts.layout THEN Of(page, "formula") ELSE {}]

(* maybe_assign_reading_order *)
Ordered(slot, opts) == [slot EXCEPT !.order = opts.order /\ slot.layout # <<>>]

Upright(page, opts) == IF opts.autorotate THEN page.turned ELSE 0
Drawn(slot, opts, turned) ==
  IF opts.image THEN [slot EXCEPT !.image = IF turned = 0 THEN "as is" ELSE "turned"] ELSE slot
InPixels(slot, opts) == [slot EXCEPT !.dpi = opts.dpi]
(* The text layer's points become pixels. *)
Rescaled(slot, opts) == [slot EXCEPT !.frame = opts.dpi]
Written(slot, opts) == [slot EXCEPT !.markdown = opts.markdown]

----------------------------------------------------------------------------
(* The GPU build: ocr_single_page and the store_* helpers *)

StoresGeometric(slot, page, opts) ==
  InPixels(Ordered([Rescaled(slot, opts) EXCEPT !.layout = Seen(page, opts)], opts), opts)

StoresStructure(slot, page, opts) ==
  InPixels(Ordered(Structured(Rescaled(slot, opts), page, opts), opts), opts)

(* Reads with the whole pipeline, or runs the layout model alone for text=0;
   auto_verified then asks the text layer about what was read. *)
StoresOcr(slot, page, opts, doc) ==
  LET turned == Upright(page, opts)
      text == IF slot.mode = "auto_verified" /\ doc.opens THEN "verified" ELSE "ocr"
      read == [Structured(slot, page, opts) EXCEPT !.text = text, !.frame = opts.dpi]
      seen == [slot EXCEPT !.layout = Seen(page, opts), !.frame = opts.dpi]
  IN  [InPixels(IF opts.text THEN Ordered(read, opts) ELSE seen, opts)
         EXCEPT !.turned = turned]

GpuTask(slot, page, opts, doc) ==
  Written(Drawn(IF slot.mode # "geometric" THEN StoresOcr(slot, page, opts, doc)
                ELSE IF (opts.tables \/ opts.formulas) /\ opts.layout
                     THEN StoresStructure(slot, page, opts)
                ELSE StoresGeometric(slot, page, opts),
                opts, IF slot.mode = "geometric" THEN 0 ELSE Upright(page, opts)),
          opts)

(* text=0 takes what the text layer had filled in. *)
WithoutText(slot, opts) == IF opts.text THEN slot ELSE [slot EXCEPT !.text = "none"]

GpuPage(page, mode, opts, doc) ==
  LET slot == WithoutText(Slot(page, mode), opts)
  IN  IF page.fault = "none" /\ (mode = "ocr" \/ IsRendered(page, mode, opts))
      THEN GpuTask(slot, page, opts, doc) ELSE slot

----------------------------------------------------------------------------
(* The CPU build: the callback of the render, which reads page after page *)

CpuTask(slot, page, opts) ==
  LET turned == IF slot.mode = "geometric" THEN 0 ELSE Upright(page, opts)
      models == IF opts.layout THEN Structured(Rescaled(slot, opts), page, opts)
                ELSE Rescaled(slot, opts)
      stored == IF slot.mode = "geometric" THEN models
                ELSE [Structured(slot, page, opts) EXCEPT !.text = "ocr", !.frame = opts.dpi]
  IN  Written(Drawn([InPixels(Ordered(stored, opts), opts) EXCEPT !.turned = turned],
                    opts, turned), opts)

CpuPage(page, mode, opts) ==
  LET slot == Slot(page, mode)
  IN  IF page.fault = "none" /\ (mode = "ocr" \/ IsRendered(page, mode, opts))
      THEN CpuTask(slot, page, opts) ELSE slot

----------------------------------------------------------------------------
(* run_pdf_job: the verdict over the pages that were rendered *)

Faulty(doc, mode, opts, fault) ==
  \E i \in DOMAIN doc.pages :
    /\ doc.pages[i].fault = fault
    /\ mode = "ocr" \/ IsRendered(doc.pages[i], mode, opts)

Job(doc, mode, opts, pages) ==
  LET status == CASE doc.pages = <<>> -> "EmptyPdf"
                  [] Faulty(doc, mode, opts, "undecodable") -> "DecodeFailed"
                  [] Faulty(doc, mode, opts, "throws") /\ ~Faulty(doc, mode, opts, "undecodable")
                       -> "PageFailed"
                  [] OTHER -> "Ok"
  IN  [status |-> status, pages |-> IF status = "Ok" THEN pages ELSE <<>>]

GpuJob(doc, asked, opts) ==
  LET mode == Opened(doc, asked)
  IN  Job(doc, mode, opts,
          [i \in DOMAIN doc.pages |-> GpuPage(doc.pages[i], mode, opts, doc)])

CpuJob(doc, asked, opts) ==
  LET mode == Opened(doc, asked)
  IN  Job(doc, mode, opts,
          [i \in DOMAIN doc.pages |-> CpuPage(doc.pages[i], mode, opts)])
=============================================================================
