----------------------------- MODULE MCProgram -----------------------------
(* Program with a few workers and connections. *)
EXTENDS Program

CONSTANTS w1, w2, w3, t1, t2, t3
=============================================================================
