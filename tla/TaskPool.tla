------------------------------ MODULE TaskPool ------------------------------
(***************************************************************************)
(* What whoever submits jobs expects of a pool of threads: a job waits,    *)
(* runs once, beside fewer than Capacity others, and is over.              *)
(***************************************************************************)
EXTENDS Naturals, FiniteSets

CONSTANTS Jobs, Capacity

VARIABLES pending,  \* submitted, not started
          active    \* started, not finished

Init == pending = {} /\ active = {}

Submit(j) ==
    /\ j \notin pending \cup active
    /\ pending' = pending \cup {j}
    /\ UNCHANGED active

Start(j) ==
    /\ j \in pending /\ Cardinality(active) < Capacity
    /\ pending' = pending \ {j}
    /\ active' = active \cup {j}

Finish(j) ==
    /\ j \in active
    /\ active' = active \ {j}
    /\ UNCHANGED pending

Next == \E j \in Jobs : Submit(j) \/ Start(j) \/ Finish(j)

Spec == Init /\ [][Next]_<<pending, active>>
=============================================================================
