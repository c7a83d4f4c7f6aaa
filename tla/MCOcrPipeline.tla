---------------------------- MODULE MCOcrPipeline ----------------------------
(* Receipt OCR on small instances. *)
EXTENDS OcrPipeline

CONSTANTS w1, w2, r1, r2, i1, i2
=============================================================================
