----------------------------- MODULE BuddyPool -----------------------------
(***************************************************************************)
(* Buffer_BuddySystem (src/lib/cache_pool/buddy_pool): what its functions, *)
(* each called under its mutex, do to the lists of free blocks.  A block   *)
(* knows its buddy by a pointer, here the address of the buddy's memory.   *)
(***************************************************************************)
EXTENDS Naturals, Sequences, FiniteSets, FiniteSetsExt, SequencesExt

CONSTANTS
    PoolSize,  \* total_pool_size
    MinBlock   \* min_block_size

ASSUME PoolAssumption ==
    PoolSize \in Nat /\ MinBlock \in Nat \ {0} /\ MinBlock <= PoolSize

\* block_size: the smallest size, doubled order times.  A block of an order
\* has at least this size.
BlockSize[order \in 0 .. PoolSize] ==
    IF order = 0 THEN MinBlock ELSE 2 * BlockSize[order - 1]

MaxOrder == Max({o \in 0 .. PoolSize : BlockSize[o] <= PoolSize})

NoBuddy == PoolSize

\* free_lists: for each order a list of blocks, the whole memory at first.
\* Its size need not be a power of two.
AllFree ==
    [o \in 0 .. MaxOrder |->
        IF o = MaxOrder
        THEN <<[addr |-> 0, size |-> PoolSize, buddy |-> NoBuddy, is_free |-> TRUE]>>
        ELSE <<>>]

\* nullptr
NoBlock == [addr |-> PoolSize, size |-> 0, buddy |-> NoBuddy, is_free |-> FALSE]

\* Mutant: a block of the very size is not taken for large enough.
CalculateOrderStrict(size) ==
    Min({MaxOrder} \cup {o \in 0 .. MaxOrder : BlockSize[o] > size})

\* calculate_order: the smallest order that is large enough, or the largest.
CalculateOrder(size) ==
    Min({MaxOrder} \cup {o \in 0 .. MaxOrder : BlockSize[o] >= size})

Left(b) ==
    [b EXCEPT !.size = @ \div 2, !.buddy = b.addr + b.size \div 2]
Right(b) ==
    [b EXCEPT !.size = @ \div 2, !.buddy = b.addr, !.addr = @ + b.size \div 2]

\* Mutant: the block stays in its list.
SplitBlockKeeps(free, o) ==
    [free EXCEPT ![o - 1] = <<Right(Head(free[o])), Left(Head(free[o]))>> \o @]

\* split_block: the first block of an order becomes two of the next lower.
SplitBlock(free, o) ==
    IF o = 0 \/ free[o] = <<>> THEN free
    ELSE [free EXCEPT ![o] = Tail(@),
                      ![o - 1] = <<Right(Head(free[o])), Left(Head(free[o]))>> \o @]

\* The free lists after each of the splits from an order downwards.
SplitDown(free, top) ==
    LET Down[k \in 0 .. top] ==
            IF k = 0 THEN free ELSE SplitBlock(Down[k - 1], top - k + 1)
    IN Down

\* allocate_buffer: the free lists afterwards and the block, which is taken
\* from the lowest order that has one, split as often as it can be.
AllocateBuffer(free, size) ==
    LET required == CalculateOrder(size)
        found == {o \in required .. MaxOrder : free[o] # <<>>}
        split == SplitDown(free, Min(found))[Min(found) - required]
    IN IF size = 0 \/ size > PoolSize \/ found = {}
       THEN [free |-> free, block |-> NoBlock]
       ELSE [free |-> [split EXCEPT ![required] = Tail(@)],
             block |-> [Head(split[required]) EXCEPT !.is_free = FALSE]]

Listed(free) == UNION {ToSet(free[o]) : o \in DOMAIN free}

Cover(b) == b.addr .. b.addr + b.size - 1

\* No block is on two lists or twice on one, and no two blocks, free or given,
\* have a byte in common.
LieApart(free, given) ==
    /\ \A o \in DOMAIN free : IsInjective(free[o])
    /\ \A o, q \in DOMAIN free : o # q => ToSet(free[o]) \cap ToSet(free[q]) = {}
    /\ Listed(free) \cap given = {}
    /\ \A b, c \in Listed(free) \cup given : b # c => Cover(b) \cap Cover(c) = {}

\* merge_buddies: two free halves of a block become that block again, which
\* has no buddy, so that it goes no further.
MergeBuddies(free, o, b) ==
    IF \E c \in ToSet(free[o]) : c.addr = b.buddy
    THEN [free EXCEPT
            ![o] = SelectSeq(@, LAMBDA c : c.addr \notin {b.addr, b.buddy}),
            ![o + 1] = <<[addr |-> Min({b.addr, b.buddy}), size |-> 2 * b.size,
                          buddy |-> NoBuddy, is_free |-> TRUE]>> \o @]
    ELSE free

\* The block is put back at the head of its list and merged.
GivenBack(free, o, b) ==
    LET back == [b EXCEPT !.is_free = TRUE]
    IN MergeBuddies([free EXCEPT ![o] = <<back>> \o SelectSeq(@, LAMBDA c : c # b)],
                    o, back)
=============================================================================
