---- MODULE MCPdfJob ----
(* A small instance of the PDF job for TLC. *)
EXTENDS PdfJob
====
