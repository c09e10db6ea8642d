---- MODULE MCCropPool ----
(* Small instances of the VLM crop pool for TLC. *)
EXTENDS CropPool

CONSTANTS c1, c2

TwoCrops == {c1, c2}

====
