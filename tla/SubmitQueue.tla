---------------------------- MODULE SubmitQueue ----------------------------
(***************************************************************************)
(* What the server believes of the submission queue: an operation is       *)
(* posted at the end, if there is room, and a submit hands the oldest      *)
(* operations to the kernel in their order, each once.  One thing it does  *)
(* not know: an entry may be posted and then not be filled, and repeats    *)
(* what lay in its slot one turn of the ring before.                       *)
(***************************************************************************)
EXTENDS Integers, Sequences, SequencesExt

CONSTANTS Jobs, Entries, Blank

VARIABLES posted,  \* operations in the queue, oldest first
          taken,   \* operations that the kernel has, oldest first
          raced    \* nothing is promised any more

Init == posted = <<>> /\ taken = <<>> /\ raced = FALSE

Post(j) ==
    /\ Len(posted) < Entries
    /\ \A i \in DOMAIN posted : posted[i] # j
    /\ \A i \in DOMAIN taken : taken[i] # j
    /\ posted' = Append(posted, j)
    /\ UNCHANGED <<taken, raced>>

\* What the slot of the k-th operation posted held before.
Before(k) == LET i == Len(taken) + k - Entries IN IF i < 1 THEN Blank ELSE taken[i]

\* The entry of an operation is left as it was.
Repeat(k) ==
    /\ posted' = [posted EXCEPT ![k] = Before(k)]
    /\ UNCHANGED <<taken, raced>>

Submit(k) ==
    /\ taken' = taken \o SubSeq(posted, 1, k)
    /\ posted' = SubSeq(posted, k + 1, Len(posted))
    /\ UNCHANGED raced

Next ==
    \/ raced'
    \/ \E k \in DOMAIN posted : Submit(k) \/ Repeat(k)
    \/ \E j \in Jobs : Post(j)

Spec == Init /\ [][Next]_<<posted, taken, raced>>
=============================================================================
