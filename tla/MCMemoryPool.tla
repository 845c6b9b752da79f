---------------------------- MODULE MCMemoryPool ----------------------------
(* MemoryPool with small slabs and a small memory. *)
EXTENDS MemoryPool
==========================================================================
