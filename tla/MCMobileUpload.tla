---------------------------- MODULE MCMobileUpload ----------------------------
(* The upload queue and its server on small instances. *)
EXTENDS MobileUpload

CONSTANTS u1, u2, u3, h1, h2
=============================================================================
