----------------------------- MODULE MCAccounts -----------------------------
(* Accounts on small instances. *)
EXTENDS Accounts, TLC
CONSTANTS q1, q2, i1, i2, r1
MCSymmetry == Permutations(Requests) \cup Permutations(Invites)
=============================================================================
