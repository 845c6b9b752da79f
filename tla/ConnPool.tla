------------------------------ MODULE ConnPool ------------------------------
(***************************************************************************)
(* What a pool of connection objects promises its caller, whatever it is   *)
(* made of: acquire() returns an object that nobody holds or nothing, and  *)
(* only a release() makes an object available again.  It promises no       *)
(* minimal number of objects.                                              *)
(***************************************************************************)
CONSTANTS Objects,  \* the objects there may be
          NoObject  \* nullptr

VARIABLES held,     \* objects that callers have
          result    \* what the last acquire() returned

Init == held = {} /\ result = NoObject

Acquire(o) ==
    /\ o \notin held
    /\ held' = held \cup {o}
    /\ result' = o

Refuse == result' = NoObject /\ UNCHANGED held

Release(o) ==
    /\ o \in held
    /\ held' = held \ {o}
    /\ result' = NoObject

Next == Refuse \/ \E o \in Objects : Acquire(o) \/ Release(o)

Spec == Init /\ [][Next]_<<held, result>>
=============================================================================
