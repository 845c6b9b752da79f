-------------------------- MODULE MCUringServer --------------------------
(* UringServer on small instances. *)
EXTENDS UringServer, TLC

CONSTANTS c1, c2, c3

\* The objects of the pool are interchangeable.
Symmetry == Permutations(Conns)

\* Nothing is claimed after an operation was repeated: such states are
\* reached and checked, but not gone on from.
UpToRepeat == ~io.again
==========================================================================
