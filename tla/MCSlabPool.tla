----------------------------- MODULE MCSlabPool -----------------------------
(* SlabPool with slabs of a few objects. *)
EXTENDS SlabPool
==========================================================================
