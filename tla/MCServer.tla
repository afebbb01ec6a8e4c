------------------------------- MODULE MCServer -------------------------------
(* Server with a client of its own version and one that may be of another. *)
EXTENDS Server, TLC
CONSTANTS c1, c2, d1, d2
=============================================================================
