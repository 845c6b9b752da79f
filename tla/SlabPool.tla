------------------------------ MODULE SlabPool ------------------------------
(***************************************************************************)
(* The pool that connection objects come from                              *)
(* (src/lib/cache_pool/slab_pool/slab_pool.h).  A slab is a block of       *)
(* SlabSize objects with a bit set of free ones and a counter; each slab   *)
(* is on one of three linked lists.  Only the main thread of the server    *)
(* calls acquire() and release(), and both hold the pool's mutex: each     *)
(* call is one step.                                                       *)
(***************************************************************************)
EXTENDS Naturals, Sequences, FiniteSets, FiniteSetsExt, SequencesExt

CONSTANTS
    SlabSize,    \* objects of a slab (64)
    InitSlabs,   \* slabs that the constructor makes (2)
    MaxObjects,  \* _max_objects_ (URING_MAX_CONNECTIONS)
    WordSize,    \* size_t counts modulo this (2^64)
    MaxRefills   \* bound: how often a slab leaves the list of empty ones

ASSUME SizesAssumption ==
    /\ SlabSize \in Nat /\ SlabSize > 1
    /\ InitSlabs \in Nat /\ MaxObjects \in Nat /\ MaxRefills \in Nat
    /\ WordSize \in Nat /\ WordSize > SlabSize

Slabs == 1 .. InitSlabs
Slots == 0 .. SlabSize - 1
Objects == Slabs \X Slots
NoObject == <<>>

VARIABLES
    partial, complete, empty,  \* the three lists, head first
    free,      \* free_set of each slab
    count,     \* free_cout of each slab
    total,     \* _total_objects
    active,    \* _active_objects
    result,    \* what the last acquire() returned
    stuck,     \* the thread waits for a mutex that it holds itself
    refills    \* slabs taken from the list of empty ones so far

vars == <<partial, complete, empty, free, count, total, active, result, stuck,
          refills>>

Held == {o \in Objects : o[2] \notin free[o[1]]}

TypeOK ==
    /\ partial \in Seq(Slabs) /\ complete \in Seq(Slabs) /\ empty \in Seq(Slabs)
    /\ free \in [Slabs -> SUBSET Slots]
    /\ count \in [Slabs -> Nat]
    /\ total \in Nat /\ active \in Nat /\ refills \in Nat
    /\ result \in Objects \cup {NoObject}
    /\ stuck \in BOOLEAN

\* preallocate_slabs(InitSlabs), which puts each slab before the others.
Init ==
    /\ partial = <<>> /\ complete = <<>>
    /\ empty = [i \in 1 .. InitSlabs |-> InitSlabs + 1 - i]
    /\ free = [s \in Slabs |-> Slots]
    /\ count = [s \in Slabs |-> SlabSize]
    /\ total = InitSlabs * SlabSize
    /\ active = 0 /\ result = NoObject /\ stuck = FALSE /\ refills = 0

---------------------------------------------------------------------------
(* acquire *)

FirstFree(s) == Min(free[s])

\* Mutant: the bit is not cleared.
GiveKeepsBit(s) ==
    /\ count' = [count EXCEPT ![s] = @ - 1]
    /\ active' = active + 1
    /\ result' = <<s, FirstFree(s)>>
    /\ UNCHANGED free

\* The first free object of slab s is handed out.
Give(s) ==
    /\ free' = [free EXCEPT ![s] = @ \ {FirstFree(s)}]
    /\ count' = [count EXCEPT ![s] = @ - 1]
    /\ active' = active + 1
    /\ result' = <<s, FirstFree(s)>>

NoRoomInPartial == \A s \in ToSet(partial) : free[s] = {}

\* The first slab of the list of partial ones that has a free object.
AcquirePartial ==
    /\ ~stuck /\ active < MaxObjects
    /\ \E k \in DOMAIN partial :
         LET s == partial[k]
         IN /\ free[s] # {} /\ \A j \in 1 .. k - 1 : free[partial[j]] = {}
            /\ Give(s)
            /\ IF count[s] = 1
               THEN partial' = RemoveAt(partial, k) /\ complete' = <<s>> \o complete
               ELSE UNCHANGED <<partial, complete>>
    /\ UNCHANGED <<empty, total, stuck, refills>>

AcquireEmpty ==
    /\ ~stuck /\ active < MaxObjects /\ NoRoomInPartial
    /\ empty # <<>> /\ refills < MaxRefills
    /\ Give(Head(empty))
    /\ partial' = <<Head(empty)>> \o partial
    /\ empty' = Tail(empty)
    /\ total' = total + SlabSize
    /\ refills' = refills + 1
    /\ UNCHANGED <<complete, stuck>>

Exhausted == active < MaxObjects /\ NoRoomInPartial /\ empty = <<>>

\* The number of slabs that new_slab_count() wants to add: the loop before
\* this leaves count = _total_objects, so that the difference wraps around.
SlabsToAdd == ((total + WordSize - SlabSize - total) % WordSize) \div 68

\* The pool tries to grow: with the cache mutex in its hands it calls
\* preallocate_slabs(), which locks it again, and does not come back.
AcquireGrows ==
    /\ ~stuck /\ Exhausted /\ total < MaxObjects /\ SlabsToAdd > 0
    /\ stuck' = TRUE
    /\ UNCHANGED <<partial, complete, empty, free, count, total, active,
                   result, refills>>

\* nullptr: too many objects are active or seem to exist.
AcquireRefused ==
    /\ ~stuck
    /\ active >= MaxObjects \/ (Exhausted /\ total >= MaxObjects)
    /\ result' = NoObject
    /\ UNCHANGED <<partial, complete, empty, free, count, total, active,
                   stuck, refills>>

---------------------------------------------------------------------------
(* release *)

\* Mutant: a slab is added to the list it belongs to but not removed.
ReclassifyAddsOnly(s, n) ==
    /\ empty' = (IF n = SlabSize THEN <<s>> ELSE <<>>) \o empty
    /\ complete' = complete
    /\ partial' = (IF 0 < n /\ n < SlabSize THEN <<s>> ELSE <<>>) \o partial

\* remove_slab_from_list in one list: the first place of slab s is cut out.
Without(list, s) ==
    IF s \in ToSet(list)
    THEN RemoveAt(list, CHOOSE k \in DOMAIN list :
                            list[k] = s /\ \A j \in 1 .. k - 1 : list[j] # s)
    ELSE list

\* reclassify_slab: slab s, which has n free objects by its counter, goes to
\* the head of the list it belongs to.
Reclassify(s, n) ==
    /\ empty' = (IF n = SlabSize THEN <<s>> ELSE <<>>) \o Without(empty, s)
    /\ complete' = (IF n = 0 THEN <<s>> ELSE <<>>) \o Without(complete, s)
    /\ partial' = (IF 0 < n /\ n < SlabSize THEN <<s>> ELSE <<>>) \o Without(partial, s)

\* Mutant: the bit is not set.
ReleaseKeepsBit(o) ==
    /\ ~stuck /\ o \in Held
    /\ active' = active - 1
    /\ result' = NoObject
    /\ UNCHANGED <<partial, complete, empty, free, count, total, stuck, refills>>

\* The caller gives back an object that it holds.  The slab is looked for
\* among the partial and the complete ones.
Release(o) ==
    /\ ~stuck /\ o \in Held
    /\ LET s == o[1]
       IN IF s \in ToSet(partial) \cup ToSet(complete)
          THEN /\ free' = [free EXCEPT ![s] = @ \cup {o[2]}]
               /\ count' = [count EXCEPT ![s] = @ + 1]
               /\ Reclassify(s, count[s] + 1)
          ELSE UNCHANGED <<partial, complete, empty, free, count>>
    /\ active' = active - 1
    /\ result' = NoObject
    /\ UNCHANGED <<total, stuck, refills>>

Next ==
    \/ AcquirePartial \/ AcquireEmpty \/ AcquireGrows \/ AcquireRefused
    \/ \E o \in Objects : Release(o)

Spec == Init /\ [][Next]_vars

\* A thread that called acquire() goes on with it.
FairSpec == Spec /\ WF_vars(Next)

---------------------------------------------------------------------------
\* Every slab is on one list, once, and it is the list its bits ask for: no
\* slab is lost while lists are cut and joined, and none is searched in vain.
ListsExact ==
    /\ partial \o complete \o empty \in [1 .. InitSlabs -> Slabs]
    /\ IsInjective(partial \o complete \o empty)
    /\ \A s \in Slabs :
          IF free[s] = {} THEN s \in ToSet(complete)
          ELSE IF free[s] = Slots THEN s \in ToSet(empty)
          ELSE s \in ToSet(partial)

\* The counters, which decide about lists and refusals, agree with the bits.
CountsAgree ==
    /\ \A s \in Slabs : count[s] = Cardinality(free[s])
    /\ active = Cardinality(Held)

\* The bit sets behave like the set of objects in use of the abstract pool.
Abstract == INSTANCE ConnPool WITH held <- Held
IsConnPool == Abstract!Spec

\* An acquire() that finds no object makes a new slab (slab_pool.h:174) and
\* returns.
GrowthReturns == stuck ~> ~stuck
=============================================================================
