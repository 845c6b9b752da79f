-------------------------- MODULE MCSubmissionRing --------------------------
(* SubmissionRing with two threads and a ring of a few entries. *)
EXTENDS SubmissionRing

CONSTANTS main, worker

\* Nothing is claimed once two threads used one slot or the tail went back:
\* such states are reached and checked, but not gone on from.
UpToRace == Clean
==========================================================================
