--------------------------- MODULE MCMobileSession ---------------------------
(* MobileSession on small instances. *)
EXTENDS MobileSession
CONSTANTS c1, c2, h1, h2
=============================================================================
