---------------------------- MODULE MCEmailIngest ----------------------------
(* E-mail ingestion on small instances. *)
EXTENDS EmailIngest

CONSTANTS t1, t2, o1, p1, p2, a1
=============================================================================
