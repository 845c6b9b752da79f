----------------------------- MODULE MemoryPool -----------------------------
(***************************************************************************)
(* LayerMemoryPool (src/include/memery_pool.h): the pool of connection     *)
(* objects beside the pool of buffers, each with a mutex of its own.  All  *)
(* functions of the buffer pool that change it are modelled, those too     *)
(* that the server does not call: allocate_buffer is called for the rest   *)
(* of a request and by allocate_objects, deallocate_buffer by              *)
(* deallocate_objects.  The statistics only read it.                       *)
(***************************************************************************)
EXTENDS SlabPool, BuddyPool

VARIABLES
    lists,   \* free_lists
    given,   \* history: blocks in the hands of callers, and what was asked for
    lost,    \* history: those that callers gave back and that are not free
    state    \* of the buffer pool: "sound", or how it was lost

bufferVars == <<lists, given, lost, state>>
poolVars == <<vars, bufferVars>>

Blocks == [addr : 0 .. PoolSize, size : 0 .. PoolSize, buddy : 0 .. PoolSize,
           is_free : BOOLEAN]

\* The blocks that are on no list.
TakenBlocks == {g.block : g \in given \cup lost}

PoolTypeOK ==
    /\ TypeOK
    /\ lists \in [0 .. MaxOrder -> Seq(Blocks)]
    /\ given \cup lost \subseteq [block : Blocks, asked : 1 .. PoolSize]
    /\ state \in {"sound", "hung", "undefined"}

PoolInit ==
    Init /\ lists = AllFree /\ given = {} /\ lost = {} /\ state = "sound"

---------------------------------------------------------------------------
Allocate(size) ==
    /\ state = "sound"
    /\ LET a == AllocateBuffer(lists, size)
       IN /\ a.block # NoBlock
          /\ lists' = a.free
          /\ given' = given \cup {[block |-> a.block, asked |-> size]}
    /\ UNCHANGED <<vars, lost, state>>

\* The blocks in use with this address in the list of an order: what is looked through are
\* the lists of free blocks.
FoundIn(o, p) == {b \in ToSet(lists[o]) : ~b.is_free /\ b.addr = p}

\* deallocate_buffer: a caller gives its block back and does not look at the
\* result.
Deallocate(g) ==
    /\ state = "sound" /\ g \in given
    /\ given' = given \ {g}
    /\ IF \A o \in DOMAIN lists : FoundIn(o, g.block.addr) = {}
       THEN lost' = lost \cup {g} /\ UNCHANGED lists
       ELSE /\ \E o \in DOMAIN lists : \E b \in FoundIn(o, g.block.addr) :
                  lists' = GivenBack(lists, o, b)
            /\ UNCHANGED lost
    /\ UNCHANGED <<vars, state>>

\* A free block that defragment() comes to, whose buddy is free as well or is
\* no longer a block because it was split.
HasLoneBuddy(o, b) ==
    /\ b \in ToSet(lists[o]) /\ b.buddy # NoBuddy
    /\ \A g \in TakenBlocks : ~(g.addr = b.buddy /\ g.size = b.size)

\* defragment() reads through the pointer to the buddy, which is dangling
\* when the buddy was split, and after a merge goes on from a block that the
\* merge has deleted.
Defragment ==
    /\ state = "sound"
    /\ state' = IF \E o \in 0 .. MaxOrder - 1 : \E b \in Listed(lists) : HasLoneBuddy(o, b)
                THEN "undefined" ELSE "sound"
    /\ UNCHANGED <<vars, lists, given, lost>>

\* print_memory_status() calls get_fragmentation() with the mutex in its hands.
PrintMemoryStatus ==
    /\ state = "sound"
    /\ state' = "hung"
    /\ UNCHANGED <<vars, lists, given, lost>>

PoolNext ==
    \/ Next /\ UNCHANGED bufferVars
    \/ \E size \in 1 .. PoolSize : Allocate(size)
    \/ \E g \in given : Deallocate(g)
    \/ Defragment \/ PrintMemoryStatus

PoolSpec == PoolInit /\ [][PoolNext]_poolVars

---------------------------------------------------------------------------
\* Free and taken blocks lie apart and fill the memory: no byte has two
\* owners, and none is lost while blocks are split.
BlocksTile ==
    /\ LieApart(lists, TakenBlocks)
    /\ UNION {Cover(b) : b \in Listed(lists) \cup TakenBlocks} = 0 .. PoolSize - 1

\* A caller gets what he asked for, and is refused only when no free block is
\* that large, although blocks are looked for by order and not by size.
ServedByFit ==
    /\ \A g \in given : g.block.size >= g.asked
    /\ \A size \in 1 .. PoolSize :
          AllocateBuffer(lists, size).block = NoBlock =>
              \A b \in Listed(lists) : b.size < size

\* "Free the memory" (memery_pool.h:77), "put the block into the list of free
\* ones and try to merge it" (buddy_pool.cpp:170): what a caller gives back is
\* free again.
MemoryGivenBack == lost = {}
=============================================================================
