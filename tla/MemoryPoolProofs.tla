-------------------------- MODULE MemoryPoolProofs --------------------------
(***************************************************************************)
(* The memory pool, for slabs of every size and number and a buffer memory *)
(* of every size.  The pool of connection objects: its lists are exact,    *)
(* its counters agree with the bits, and acquire() and release() do what   *)
(* ConnPool promises.  The pool of buffers: no byte has two owners, what   *)
(* is allocated does not come back, and the statistics are defined.        *)
(***************************************************************************)
EXTENDS MemoryPool, BuddyPoolProofs

\* A list that holds these slabs, each once.
OnlyOn(list, slabs) == IsInjective(list) /\ ToSet(list) = slabs

FullSlabs == {s \in Slabs : free[s] = {}}
EmptySlabs == {s \in Slabs : free[s] = Slots}
PartialSlabs == {s \in Slabs : free[s] # {} /\ free[s] # Slots}

ListsSorted ==
    /\ OnlyOn(complete, FullSlabs)
    /\ OnlyOn(empty, EmptySlabs)
    /\ OnlyOn(partial, PartialSlabs)

\* The inductive invariant of the pool.
LInv == TypeOK /\ ListsSorted /\ CountsAgree

---------------------------------------------------------------------------
(* Linked lists.                                                           *)

\* remove_slab_from_list takes a slab that is at one place off the list.
LEMMA WithoutFacts ==
    ASSUME NEW S, NEW q \in Seq(S), IsInjective(q), NEW x
    PROVE  /\ Without(q, x) \in Seq(S)
           /\ ToSet(Without(q, x)) = ToSet(q) \ {x}
           /\ IsInjective(Without(q, x))
<1>1. CASE x \notin ToSet(q)
  BY <1>1 DEF Without
<1>2. CASE x \in ToSet(q)
  <2> DEFINE First(k) == q[k] = x /\ \A j \in 1 .. k - 1 : q[j] # x
             c == CHOOSE k \in DOMAIN q : First(k)
  <2>1. \E k \in DOMAIN q : First(k)
    <3>1. PICK k \in DOMAIN q : q[k] = x
      BY <1>2 DEF ToSet
    <3>2. \A j \in 1 .. k - 1 : q[j] # x
      <4>1. \A j \in 1 .. k - 1 : j \in DOMAIN q /\ j # k
        OBVIOUS
      <4> QED  BY <3>1, <4>1 DEF IsInjective
    <3> QED  BY <3>1, <3>2
  <2>2. c \in DOMAIN q /\ q[c] = x
    BY <2>1
  <2>3. Without(q, x) = RemoveAt(q, c)
    BY <1>2 DEF Without
  <2> HIDE DEF c
  <2> QED  BY <2>2, <2>3, CutOut
<1> QED  BY <1>1, <1>2

---------------------------------------------------------------------------
(* Bits and counters.                                                      *)

\* find_first_free() finds an object if there is one.
LEMMA FirstFreeIsFree ==
    ASSUME NEW s, free[s] \subseteq Slots, free[s] # {}
    PROVE  FirstFree(s) \in free[s]
<1>1. free[s] \in SUBSET Nat
  BY SizesAssumption DEF Slots
<1> QED  BY <1>1, MinIsLeast DEF FirstFree

LEMMA SlotsFinite ==
    /\ IsFiniteSet(Slots) /\ Cardinality(Slots) = SlabSize
    /\ \A x \in SUBSET Slots : IsFiniteSet(x) /\ Cardinality(x) \in Nat
    /\ SlabSize \in Nat /\ SlabSize > 1 /\ Slots # {}
<1>1. SlabSize \in Nat /\ SlabSize > 1
  BY SizesAssumption
<1>2. IsFiniteSet(Slots) /\ Cardinality(Slots) = SlabSize
  <2>1. 0 \in Int /\ SlabSize - 1 \in Int /\ ~(0 > SlabSize - 1)
    BY <1>1
  <2>2. IsFiniteSet(0 .. SlabSize - 1) /\ Cardinality(0 .. SlabSize - 1) = SlabSize - 1 - 0 + 1
    BY <2>1, FS_Interval
  <2> QED  BY <1>1, <2>2 DEF Slots
<1>3. ASSUME NEW x \in SUBSET Slots PROVE IsFiniteSet(x) /\ Cardinality(x) \in Nat
  <2>1. IsFiniteSet(x)
    BY <1>2, FS_Subset
  <2> QED  BY <2>1, FS_CardinalityType
<1>4. Slots # {}
  BY <1>1 DEF Slots
<1> QED  BY <1>1, <1>2, <1>3, <1>4

LEMMA HeldFinite ==
    ASSUME TypeOK
    PROVE  /\ Held \subseteq Objects /\ IsFiniteSet(Held) /\ Cardinality(Held) \in Nat
<1>1. IsFiniteSet(Slabs)
  BY FS_Interval, SizesAssumption DEF Slabs
<1>2. IsFiniteSet(Objects)
  BY <1>1, SlotsFinite, FS_Product DEF Objects
<1>3. Held \in SUBSET Objects
  BY DEF Held
<1>4. IsFiniteSet(Held)
  BY <1>2, <1>3, FS_Subset
<1> QED  BY <1>3, <1>4, FS_CardinalityType

LEMMA InitLInv == Init => LInv
<1> SUFFICES ASSUME Init PROVE LInv
  OBVIOUS
<1>1. TypeOK
  <2>1. InitSlabs \in Nat /\ SlabSize \in Nat /\ InitSlabs * SlabSize \in Nat
    BY SizesAssumption
  <2>2. empty \in Seq(Slabs)
    <3>1. \A i \in 1 .. InitSlabs : InitSlabs + 1 - i \in Slabs
      BY <2>1 DEF Slabs
    <3> QED  BY <2>1, <3>1 DEF Init
  <2>3. partial \in Seq(Slabs) /\ complete \in Seq(Slabs)
    BY DEF Init
  <2> QED  BY <2>1, <2>2, <2>3 DEF Init, TypeOK
<1>2. ListsSorted
  <2>1. FullSlabs = {} /\ PartialSlabs = {} /\ EmptySlabs = Slabs
    BY SlotsFinite DEF Init, FullSlabs, PartialSlabs, EmptySlabs
  <2>2. OnlyOn(<<>>, {})
    BY DEF OnlyOn, IsInjective, ToSet
  <2>3. IsInjective(empty)
    BY SizesAssumption DEF Init, IsInjective
  <2>4. ToSet(empty) = Slabs
    <3>1. DOMAIN empty = 1 .. InitSlabs
      BY DEF Init
    <3>2. \A i \in 1 .. InitSlabs : empty[i] = InitSlabs + 1 - i /\ empty[i] \in Slabs
      BY SizesAssumption DEF Init, Slabs
    <3>3. ASSUME NEW s \in Slabs PROVE s \in ToSet(empty)
      <4>1. InitSlabs + 1 - s \in 1 .. InitSlabs /\ InitSlabs + 1 - (InitSlabs + 1 - s) = s
        BY SizesAssumption DEF Slabs
      <4>2. empty[InitSlabs + 1 - s] = s
        BY <3>2, <4>1
      <4> QED  BY <3>1, <4>1, <4>2 DEF ToSet
    <3> QED  BY <3>1, <3>2, <3>3 DEF ToSet
  <2> QED  BY <2>1, <2>2, <2>3, <2>4 DEF ListsSorted, OnlyOn, Init
<1>3. CountsAgree
  <2>1. \A s \in Slabs : count[s] = Cardinality(free[s])
    BY SlotsFinite DEF Init
  <2>2. Held = {}
    BY DEF Init, Held, Objects
  <2> QED  BY <2>1, <2>2, FS_EmptySet DEF CountsAgree, Init
<1> QED  BY <1>1, <1>2, <1>3 DEF LInv

\* The object that acquire() hands out was free, is no longer, and is counted.
LEMMA GiveFacts ==
    ASSUME LInv, NEW s \in Slabs, free[s] # {}, Give(s)
    PROVE  /\ FirstFree(s) \in free[s]
           /\ free' \in [Slabs -> SUBSET Slots] /\ count' \in [Slabs -> Nat]
           /\ active' \in Nat /\ result' \in Objects
           /\ free' = [free EXCEPT ![s] = @ \ {FirstFree(s)}]
           /\ Held' = Held \cup {result'} /\ result' \notin Held
           /\ CountsAgree'
           /\ count[s] = 1 <=> free'[s] = {}
<1>0. TypeOK /\ CountsAgree
  BY DEF LInv
<1>1. /\ free \in [Slabs -> SUBSET Slots] /\ count \in [Slabs -> Nat] /\ active \in Nat
      /\ count[s] \in Nat /\ free[s] \in SUBSET Slots
  BY <1>0 DEF TypeOK
<1> DEFINE x == FirstFree(s)
<1>2. x \in free[s]
  BY <1>1, FirstFreeIsFree
<1>3. /\ free' = [free EXCEPT ![s] = @ \ {x}] /\ count' = [count EXCEPT ![s] = @ - 1]
      /\ active' = active + 1 /\ result' = <<s, x>>
  BY DEF Give
<1> HIDE DEF x
<1>4. count[s] = Cardinality(free[s]) /\ IsFiniteSet(free[s]) /\ Cardinality(free[s]) \in Nat
  BY <1>0, <1>1, SlotsFinite DEF CountsAgree
<1>5. /\ IsFiniteSet(free[s] \ {x})
      /\ Cardinality(free[s] \ {x}) = Cardinality(free[s]) - 1
      /\ Cardinality(free[s] \ {x}) \in Nat
  <2>1. IsFiniteSet(free[s] \ {x}) /\ Cardinality(free[s] \ {x}) = Cardinality(free[s]) - 1
    BY <1>2, <1>4, FS_RemoveElement
  <2> QED  BY <2>1, FS_CardinalityType
<1>6. free' \in [Slabs -> SUBSET Slots] /\ free'[s] = free[s] \ {x}
  BY <1>1, <1>3
<1>7. count' \in [Slabs -> Nat] /\ count'[s] = count[s] - 1
  BY <1>1, <1>3, <1>4, <1>5
<1>8. result' \in Objects /\ active' \in Nat
  BY <1>1, <1>2, <1>3 DEF Objects
<1>9. result' \notin Held /\ Held' = Held \cup {result'}
  <2>1. result' \notin Held
    BY <1>2, <1>3 DEF Held
  <2>2. ASSUME NEW o \in Objects PROVE o[2] \notin free'[o[1]] <=> o[2] \notin free[o[1]] \/ o = result'
    <3>1. PICK u \in Slabs, y \in Slots : o = <<u, y>>
      BY DEF Objects
    <3>2. CASE u = s
      BY <1>2, <1>3, <1>6, <3>1, <3>2
    <3>3. CASE u # s
      <4>1. free'[u] = free[u]
        BY <1>1, <1>3, <3>3
      <4> QED  BY <1>3, <3>1, <3>3, <4>1
    <3> QED  BY <3>2, <3>3
  <2>3. Held' = {o \in Objects : o[2] \notin free'[o[1]]}
    BY DEF Held, Objects, Slabs, Slots
  <2> QED  BY <1>8, <2>1, <2>2, <2>3 DEF Held
<1>10. CountsAgree'
  <2>1. ASSUME NEW u \in Slabs PROVE count'[u] = Cardinality(free'[u])
    <3>1. CASE u = s
      BY <1>4, <1>5, <1>6, <1>7, <3>1
    <3>2. CASE u # s
      <4>1. free'[u] = free[u] /\ count'[u] = count[u]
        BY <1>1, <1>3, <3>2
      <4> QED  BY <1>0, <4>1 DEF CountsAgree
    <3> QED  BY <3>1, <3>2
  <2>2. active' = Cardinality(Held')
    <3>1. Cardinality(Held \cup {result'}) = Cardinality(Held) + 1
      BY <1>0, <1>9, HeldFinite, FS_AddElement
    <3>2. Cardinality(Held') = Cardinality(Held \cup {result'})
      BY <1>9, Zenon
    <3> QED  BY <1>0, <1>3, <3>1, <3>2 DEF CountsAgree
  <2> QED  BY <2>1, <2>2 DEF CountsAgree, Slabs
<1>11. count[s] = 1 <=> free'[s] = {}
  <2>1. Cardinality(free'[s]) = count[s] - 1 /\ IsFiniteSet(free'[s])
    BY <1>4, <1>5, <1>6
  <2>2. Cardinality(free'[s]) = 0 <=> free'[s] = {}
    BY <2>1, FS_EmptySet
  <2> QED  BY <1>1, <2>1, <2>2
<1> QED  BY <1>1, <1>2, <1>3, <1>6, <1>7, <1>8, <1>9, <1>10, <1>11 DEF x

---------------------------------------------------------------------------
(* The steps.                                                              *)

LEMMA ListTypes ==
    ASSUME LInv
    PROVE  /\ partial \in Seq(Slabs) /\ complete \in Seq(Slabs) /\ empty \in Seq(Slabs)
           /\ IsInjective(partial) /\ IsInjective(complete) /\ IsInjective(empty)
           /\ ToSet(partial) = PartialSlabs /\ ToSet(complete) = FullSlabs
           /\ ToSet(empty) = EmptySlabs
           /\ free \in [Slabs -> SUBSET Slots]
BY DEF LInv, TypeOK, ListsSorted, OnlyOn

LEMMA AcquirePartialKeeps == ASSUME LInv, AcquirePartial PROVE LInv'
<1>0. /\ partial \in Seq(Slabs) /\ complete \in Seq(Slabs) /\ empty \in Seq(Slabs)
      /\ IsInjective(partial) /\ IsInjective(complete) /\ IsInjective(empty)
      /\ ToSet(partial) = PartialSlabs /\ ToSet(complete) = FullSlabs
      /\ ToSet(empty) = EmptySlabs
      /\ free \in [Slabs -> SUBSET Slots]
  BY ListTypes
<1>1. PICK k \in DOMAIN partial :
        /\ free[partial[k]] # {} /\ Give(partial[k])
        /\ IF count[partial[k]] = 1
           THEN partial' = RemoveAt(partial, k) /\ complete' = <<partial[k]>> \o complete
           ELSE UNCHANGED <<partial, complete>>
  BY DEF AcquirePartial
<1> DEFINE s == partial[k]
<1>2. s \in PartialSlabs /\ s \in Slabs
  BY <1>0 DEF ToSet, PartialSlabs
<1>3. UNCHANGED <<empty, total, stuck, refills>>
  BY DEF AcquirePartial
<1>4. /\ FirstFree(s) \in free[s]
      /\ free' \in [Slabs -> SUBSET Slots] /\ count' \in [Slabs -> Nat]
      /\ active' \in Nat /\ result' \in Objects
      /\ free' = [free EXCEPT ![s] = @ \ {FirstFree(s)}]
      /\ CountsAgree'
      /\ count[s] = 1 <=> free'[s] = {}
  BY <1>1, <1>2, GiveFacts
<1>5. /\ s \notin EmptySlabs /\ s \notin FullSlabs
      /\ free'[s] # Slots /\ \A u \in Slabs : u # s => free'[u] = free[u]
  BY <1>0, <1>2, <1>4 DEF PartialSlabs, EmptySlabs, FullSlabs
<1>6. IF count[s] = 1
      THEN partial' = RemoveAt(partial, k) /\ complete' = <<s>> \o complete
      ELSE UNCHANGED <<partial, complete>>
  BY <1>1
<1>7. partial[k] = s
  OBVIOUS
<1> HIDE DEF s
<1>8. EmptySlabs' = EmptySlabs
  BY <1>0, <1>5 DEF EmptySlabs, Slots, Slabs
<1>9. CASE count[s] = 1
  <2>1. FullSlabs' = FullSlabs \cup {s} /\ PartialSlabs' = PartialSlabs \ {s}
    <3>1. free'[s] = {}
      BY <1>4, <1>9
    <3>2. ASSUME NEW u \in Slabs PROVE free'[u] = {} <=> free[u] = {} \/ u = s
      BY <1>5, <3>1
    <3>3. ASSUME NEW u \in Slabs
          PROVE free'[u] # {} /\ free'[u] # Slots <=> free[u] # {} /\ free[u] # Slots /\ u # s
      BY <1>5, <3>1
    <3> QED  BY <1>2, <3>2, <3>3 DEF FullSlabs, PartialSlabs, Slots, Slabs
  <2>2. partial' = RemoveAt(partial, k) /\ complete' = <<s>> \o complete
    BY <1>6, <1>9
  <2>3. /\ partial' \in Seq(Slabs) /\ ToSet(partial') = PartialSlabs' /\ IsInjective(partial')
    BY <1>0, <1>7, <2>1, <2>2, CutOut
  <2>4. /\ complete' \in Seq(Slabs) /\ ToSet(complete') = FullSlabs' /\ IsInjective(complete')
    BY <1>0, <1>2, <1>5, <2>1, <2>2, AddedAtHead
  <2>5. TypeOK'
    BY <1>3, <1>4, <2>3, <2>4 DEF LInv, TypeOK, Slabs, Slots, Objects
  <2>6. ListsSorted'
    BY <1>0, <1>3, <1>8, <2>3, <2>4 DEF ListsSorted, OnlyOn
  <2> QED  BY <1>4, <2>5, <2>6 DEF LInv
<1>10. CASE count[s] # 1
  <2>1. FullSlabs' = FullSlabs /\ PartialSlabs' = PartialSlabs
    <3>1. free'[s] # {} /\ free[s] # {} /\ free[s] # Slots
      BY <1>2, <1>4, <1>10 DEF PartialSlabs
    <3>2. ASSUME NEW u \in Slabs PROVE free'[u] = {} <=> free[u] = {}
      BY <1>5, <3>1
    <3>3. ASSUME NEW u \in Slabs PROVE free'[u] = Slots <=> free[u] = Slots
      BY <1>5, <3>1
    <3> QED  BY <3>2, <3>3 DEF FullSlabs, PartialSlabs, Slots, Slabs
  <2>2. partial' = partial /\ complete' = complete
    BY <1>6, <1>10
  <2>3. TypeOK'
    BY <1>0, <1>3, <1>4, <2>2 DEF LInv, TypeOK, Slabs, Slots, Objects
  <2>4. ListsSorted'
    BY <1>0, <1>3, <1>8, <2>1, <2>2 DEF ListsSorted, OnlyOn
  <2> QED  BY <1>4, <2>3, <2>4 DEF LInv
<1> QED  BY <1>9, <1>10

LEMMA AcquireEmptyKeeps == ASSUME LInv, AcquireEmpty PROVE LInv'
<1>0. /\ partial \in Seq(Slabs) /\ complete \in Seq(Slabs) /\ empty \in Seq(Slabs)
      /\ IsInjective(partial) /\ IsInjective(complete) /\ IsInjective(empty)
      /\ ToSet(partial) = PartialSlabs /\ ToSet(complete) = FullSlabs
      /\ ToSet(empty) = EmptySlabs
      /\ free \in [Slabs -> SUBSET Slots]
  BY ListTypes
<1> DEFINE s == Head(empty)
<1>1. /\ empty # <<>> /\ Give(s) /\ partial' = <<s>> \o partial /\ empty' = Tail(empty)
      /\ total' = total + SlabSize /\ refills' = refills + 1
      /\ UNCHANGED <<complete, stuck>>
  BY DEF AcquireEmpty
<1>2. /\ s \in ToSet(empty) /\ Tail(empty) \in Seq(Slabs)
      /\ ToSet(Tail(empty)) = ToSet(empty) \ {s}
      /\ IsInjective(Tail(empty))
  BY <1>0, <1>1, WithoutHead
<1> HIDE DEF s
<1>3. s \in Slabs /\ free[s] = Slots /\ free[s] # {}
  BY <1>0, <1>2, SlotsFinite DEF EmptySlabs
<1>4. /\ FirstFree(s) \in free[s]
      /\ free' \in [Slabs -> SUBSET Slots] /\ count' \in [Slabs -> Nat]
      /\ active' \in Nat /\ result' \in Objects
      /\ free' = [free EXCEPT ![s] = @ \ {FirstFree(s)}]
      /\ CountsAgree'
      /\ count[s] = 1 <=> free'[s] = {}
  BY <1>1, <1>3, GiveFacts
<1>5. /\ free'[s] # Slots /\ free'[s] # {}
      /\ \A u \in Slabs : u # s => free'[u] = free[u]
  <2>1. count[s] = SlabSize
    BY <1>3, SlotsFinite DEF LInv, CountsAgree
  <2>2. count[s] # 1
    BY <2>1, SlotsFinite
  <2> QED  BY <1>0, <1>3, <1>4, <2>2
<1>6. /\ EmptySlabs' = EmptySlabs \ {s} /\ PartialSlabs' = PartialSlabs \cup {s}
      /\ FullSlabs' = FullSlabs /\ s \notin PartialSlabs
  <2>1. ASSUME NEW u \in Slabs PROVE free'[u] = {} <=> free[u] = {}
    BY <1>3, <1>5
  <2>2. ASSUME NEW u \in Slabs PROVE free'[u] = Slots <=> free[u] = Slots /\ u # s
    BY <1>3, <1>5
  <2> QED  BY <1>3, <2>1, <2>2 DEF EmptySlabs, PartialSlabs, FullSlabs, Slots, Slabs
<1>7. partial' \in Seq(Slabs) /\ ToSet(partial') = PartialSlabs' /\ IsInjective(partial')
  BY <1>0, <1>1, <1>3, <1>6, AddedAtHead
<1>8. empty' \in Seq(Slabs) /\ ToSet(empty') = EmptySlabs' /\ IsInjective(empty')
  BY <1>0, <1>1, <1>2, <1>6
<1>9. total' \in Nat /\ refills' \in Nat
  BY <1>1, SizesAssumption DEF LInv, TypeOK
<1>10. TypeOK'
  BY <1>1, <1>4, <1>7, <1>8, <1>9 DEF LInv, TypeOK, Slabs, Slots, Objects
<1>11. ListsSorted'
  BY <1>0, <1>1, <1>6, <1>7, <1>8 DEF ListsSorted, OnlyOn
<1> QED  BY <1>4, <1>10, <1>11 DEF LInv

LEMMA NothingMoves ==
    ASSUME LInv, UNCHANGED <<partial, complete, empty, free, count, total, active, refills>>,
           result' \in Objects \cup {NoObject}, stuck' \in BOOLEAN
    PROVE  LInv' /\ Held' = Held
<1>1. Held' = Held
  BY DEF Held, Objects, Slabs, Slots
<1>2. TypeOK'
  BY DEF LInv, TypeOK, Objects, Slabs, Slots
<1>3. ListsSorted'
  BY DEF LInv, ListsSorted, OnlyOn, FullSlabs, EmptySlabs, PartialSlabs, Slabs, Slots
<1>4. CountsAgree'
  BY <1>1 DEF LInv, CountsAgree, Slabs
<1> QED  BY <1>1, <1>2, <1>3, <1>4 DEF LInv

\* An object that comes back is free and no longer counted.  Its slab is
\* found, because a slab with a held object is not on the list of empty ones.
LEMMA ReleaseFacts ==
    ASSUME LInv, NEW o \in Objects, Release(o)
    PROVE  LET s == o[1]
           IN /\ o \in Held /\ s \in Slabs /\ s \notin EmptySlabs
              /\ free' = [free EXCEPT ![s] = @ \cup {o[2]}]
              /\ Reclassify(s, count[s] + 1)
              /\ free' \in [Slabs -> SUBSET Slots] /\ count' \in [Slabs -> Nat]
              /\ active' \in Nat /\ result' = NoObject
              /\ count[s] + 1 = Cardinality(free'[s])
              /\ Held' = Held \ {o}
              /\ CountsAgree'
<1>0. TypeOK /\ CountsAgree
  BY DEF LInv
<1>1. /\ free \in [Slabs -> SUBSET Slots] /\ count \in [Slabs -> Nat] /\ active \in Nat
  BY <1>0 DEF TypeOK
<1>2. PICK s \in Slabs, x \in Slots : o = <<s, x>>
  BY DEF Objects
<1>3. o \in Held /\ x \notin free[s] /\ active' = active - 1 /\ result' = NoObject
  BY <1>2 DEF Release, Held
<1>4. s \notin EmptySlabs /\ s \in ToSet(partial) \cup ToSet(complete)
  <2>1. free[s] # Slots
    BY <1>2, <1>3
  <2>2. s \in PartialSlabs \cup FullSlabs
    BY <2>1 DEF PartialSlabs, FullSlabs
  <2> QED  BY <2>1, <2>2, ListTypes DEF EmptySlabs
<1>5. /\ free' = [free EXCEPT ![s] = @ \cup {x}] /\ count' = [count EXCEPT ![s] = @ + 1]
      /\ Reclassify(s, count[s] + 1)
  BY <1>2, <1>4 DEF Release
<1>6. free' \in [Slabs -> SUBSET Slots] /\ free'[s] = free[s] \cup {x}
  BY <1>1, <1>2, <1>5
<1>7. count' \in [Slabs -> Nat] /\ count'[s] = count[s] + 1
  BY <1>1, <1>5
<1>8. Cardinality(free'[s]) = count[s] + 1
  <2>1. IsFiniteSet(free[s]) /\ count[s] = Cardinality(free[s])
    BY <1>0, <1>1, SlotsFinite DEF CountsAgree
  <2>2. Cardinality(free[s] \cup {x}) = Cardinality(free[s]) + 1
    BY <1>3, <2>1, FS_AddElement
  <2> QED  BY <1>6, <2>1, <2>2
<1>9. Held' = Held \ {o}
  <2>1. ASSUME NEW p \in Objects PROVE p[2] \notin free'[p[1]] <=> p[2] \notin free[p[1]] /\ p # o
    <3>1. PICK u \in Slabs, y \in Slots : p = <<u, y>>
      BY DEF Objects
    <3>2. CASE u = s
      BY <1>2, <1>3, <1>6, <3>1, <3>2
    <3>3. CASE u # s
      <4>1. free'[u] = free[u]
        BY <1>1, <1>5, <3>3
      <4> QED  BY <1>2, <3>1, <3>3, <4>1
    <3> QED  BY <3>2, <3>3
  <2>2. Held' = {p \in Objects : p[2] \notin free'[p[1]]}
    BY DEF Held, Objects, Slabs, Slots
  <2> QED  BY <2>1, <2>2 DEF Held
<1>10. active' = Cardinality(Held') /\ active' \in Nat
  <2>1. /\ Cardinality(Held \ {o}) = Cardinality(Held) - 1
        /\ IsFiniteSet(Held \ {o})
    BY <1>0, <1>3, HeldFinite, FS_RemoveElement
  <2>2. Cardinality(Held') = Cardinality(Held \ {o})
    BY <1>9, Zenon
  <2>3. Cardinality(Held \ {o}) \in Nat
    BY <2>1, FS_CardinalityType
  <2> QED  BY <1>0, <1>3, <2>1, <2>2, <2>3 DEF CountsAgree
<1>11. CountsAgree'
  <2>1. ASSUME NEW u \in Slabs PROVE count'[u] = Cardinality(free'[u])
    <3>1. CASE u = s
      BY <1>7, <1>8, <3>1
    <3>2. CASE u # s
      <4>1. free'[u] = free[u] /\ count'[u] = count[u]
        BY <1>1, <1>5, <3>2
      <4> QED  BY <1>0, <4>1 DEF CountsAgree
    <3> QED  BY <3>1, <3>2
  <2> QED  BY <1>10, <2>1 DEF CountsAgree, Slabs
<1> QED  BY <1>2, <1>3, <1>4, <1>5, <1>6, <1>7, <1>8, <1>9, <1>10, <1>11

\* A slab that goes to the head of a list, or only leaves it.
LEMMA Moved ==
    ASSUME NEW q \in Seq(Slabs), IsInjective(q), NEW s \in Slabs, NEW here \in BOOLEAN
    PROVE  LET r == (IF here THEN <<s>> ELSE <<>>) \o Without(q, s)
           IN /\ r \in Seq(Slabs) /\ IsInjective(r)
              /\ ToSet(r) = IF here THEN ToSet(q) \cup {s} ELSE ToSet(q) \ {s}
<1> DEFINE w == Without(q, s)
<1>1. w \in Seq(Slabs) /\ ToSet(w) = ToSet(q) \ {s} /\ IsInjective(w)
  BY WithoutFacts
<1> HIDE DEF w
<1>2. CASE here
  <2>1. /\ <<s>> \o w \in Seq(Slabs) /\ IsInjective(<<s>> \o w)
        /\ ToSet(<<s>> \o w) = ToSet(w) \cup {s}
    BY <1>1, AddedAtHead
  <2> QED  BY <1>1, <1>2, <2>1 DEF w
<1>3. CASE ~here
  <2>1. <<>> \o w = w
    BY <1>1
  <2> QED  BY <1>1, <1>3, <2>1 DEF w
<1> QED  BY <1>2, <1>3

LEMMA ReleaseKeeps == ASSUME LInv, NEW o \in Objects, Release(o) PROVE LInv'
<1>0. /\ partial \in Seq(Slabs) /\ complete \in Seq(Slabs) /\ empty \in Seq(Slabs)
      /\ IsInjective(partial) /\ IsInjective(complete) /\ IsInjective(empty)
      /\ ToSet(partial) = PartialSlabs /\ ToSet(complete) = FullSlabs
      /\ ToSet(empty) = EmptySlabs
      /\ free \in [Slabs -> SUBSET Slots]
  BY ListTypes
<1> DEFINE s == o[1]
           n == count[s] + 1
<1>1. /\ s \in Slabs
      /\ free' = [free EXCEPT ![s] = @ \cup {o[2]}]
      /\ Reclassify(s, n)
      /\ free' \in [Slabs -> SUBSET Slots] /\ count' \in [Slabs -> Nat]
      /\ active' \in Nat /\ result' = NoObject
      /\ n = Cardinality(free'[s])
      /\ CountsAgree'
  BY ReleaseFacts
<1>2. count[s] \in Nat
  BY <1>1 DEF LInv, TypeOK
<1>3. n \in Nat /\ n > 0
  BY <1>2
<1> HIDE DEF n, s
<1>4. UNCHANGED <<total, stuck, refills>>
  BY DEF Release
<1>5. \A u \in Slabs : u # s => free'[u] = free[u]
  BY <1>0, <1>1
<1>6. n = SlabSize <=> free'[s] = Slots
  <2>1. free'[s] \in SUBSET Slots
    BY <1>1
  <2>2. free'[s] # Slots => Cardinality(free'[s]) # Cardinality(Slots)
    BY <2>1, SlotsFinite, FS_Subset
  <2> QED  BY <1>1, <2>2, SlotsFinite
<1>7. free'[s] # {} /\ n # 0
  BY <1>1, <1>3, FS_EmptySet
<1>8. n <= SlabSize
  <2>1. free'[s] \in SUBSET Slots
    BY <1>1
  <2> QED  BY <1>1, <2>1, SlotsFinite, FS_Subset
<1>9. SlabSize \in Nat
  BY SizesAssumption
<1>10. /\ empty' = (IF n = SlabSize THEN <<s>> ELSE <<>>) \o Without(empty, s)
       /\ complete' = (IF n = 0 THEN <<s>> ELSE <<>>) \o Without(complete, s)
       /\ partial' = (IF 0 < n /\ n < SlabSize THEN <<s>> ELSE <<>>) \o Without(partial, s)
  BY <1>1 DEF Reclassify
<1>11. /\ empty' \in Seq(Slabs) /\ IsInjective(empty')
       /\ ToSet(empty') = IF n = SlabSize THEN ToSet(empty) \cup {s} ELSE ToSet(empty) \ {s}
  BY <1>0, <1>1, <1>10, Moved
<1>12. /\ complete' \in Seq(Slabs) /\ IsInjective(complete')
       /\ ToSet(complete') = IF n = 0 THEN ToSet(complete) \cup {s} ELSE ToSet(complete) \ {s}
  BY <1>0, <1>1, <1>10, Moved
<1>13. /\ partial' \in Seq(Slabs) /\ IsInjective(partial')
       /\ ToSet(partial') = IF 0 < n /\ n < SlabSize THEN ToSet(partial) \cup {s}
                            ELSE ToSet(partial) \ {s}
  BY <1>0, <1>1, <1>10, Moved
<1>14. ToSet(empty') = EmptySlabs'
  <2>1. \A u \in Slabs : free'[u] = Slots <=> IF u = s THEN n = SlabSize ELSE u \in EmptySlabs
    BY <1>5, <1>6 DEF EmptySlabs
  <2>2. EmptySlabs' = {u \in Slabs : free'[u] = Slots}
    BY DEF EmptySlabs, Slabs, Slots
  <2>3. EmptySlabs \subseteq Slabs
    BY DEF EmptySlabs
  <2>4. ToSet(empty') \subseteq Slabs /\ EmptySlabs' \subseteq Slabs
    BY <1>0, <1>1, <1>11, <2>2, <2>3
  <2>5. ASSUME NEW u \in Slabs PROVE u \in ToSet(empty') <=> u \in EmptySlabs'
    <3>1. u \in EmptySlabs' <=> IF u = s THEN n = SlabSize ELSE u \in EmptySlabs
      BY <2>1, <2>2
    <3>2. CASE u = s
      BY <1>0, <1>11, <3>1, <3>2
    <3>3. CASE u # s
      BY <1>0, <1>11, <3>1, <3>3
    <3> QED  BY <3>2, <3>3
  <2> QED  BY <2>4, <2>5
<1>15. ToSet(complete') = FullSlabs'
  <2>1. \A u \in Slabs : free'[u] = {} <=> u # s /\ u \in FullSlabs
    BY <1>5, <1>7 DEF FullSlabs
  <2>2. FullSlabs' = {u \in Slabs : free'[u] = {}}
    BY DEF FullSlabs, Slabs
  <2>3. FullSlabs \subseteq Slabs
    BY DEF FullSlabs
  <2>4. ToSet(complete') \subseteq Slabs /\ FullSlabs' \subseteq Slabs
    BY <1>0, <1>1, <1>12, <2>2, <2>3
  <2>5. ASSUME NEW u \in Slabs PROVE u \in ToSet(complete') <=> u \in FullSlabs'
    <3>1. u \in FullSlabs' <=> u # s /\ u \in FullSlabs
      BY <2>1, <2>2
    <3>2. CASE u = s
      BY <1>0, <1>12, <3>1, <3>2, <1>7
    <3>3. CASE u # s
      BY <1>0, <1>12, <3>1, <3>3
    <3> QED  BY <3>2, <3>3
  <2> QED  BY <2>4, <2>5
<1>16. ToSet(partial') = PartialSlabs'
  <2>1. \A u \in Slabs : free'[u] # {} /\ free'[u] # Slots
                            <=> IF u = s THEN n # SlabSize ELSE u \in PartialSlabs
    BY <1>5, <1>6, <1>7 DEF PartialSlabs
  <2>2. PartialSlabs' = {u \in Slabs : free'[u] # {} /\ free'[u] # Slots}
    BY DEF PartialSlabs, Slabs, Slots
  <2>3. PartialSlabs \subseteq Slabs
    BY DEF PartialSlabs
  <2>4. 0 < n /\ n < SlabSize <=> n # SlabSize
    BY <1>3, <1>8, <1>9
  <2>5. ToSet(partial') \subseteq Slabs /\ PartialSlabs' \subseteq Slabs
    BY <1>0, <1>1, <1>13, <2>2, <2>3
  <2>6. ASSUME NEW u \in Slabs PROVE u \in ToSet(partial') <=> u \in PartialSlabs'
    <3>1. u \in PartialSlabs' <=> IF u = s THEN n # SlabSize ELSE u \in PartialSlabs
      BY <2>1, <2>2
    <3>2. CASE u = s
      BY <1>0, <1>13, <3>1, <3>2, <2>4
    <3>3. CASE u # s
      BY <1>0, <1>13, <3>1, <3>3
    <3> QED  BY <3>2, <3>3
  <2> QED  BY <2>5, <2>6
<1>17. TypeOK'
  BY <1>1, <1>4, <1>11, <1>12, <1>13 DEF LInv, TypeOK, Slabs, Slots, Objects
<1>18. ListsSorted'
  BY <1>11, <1>12, <1>13, <1>14, <1>15, <1>16 DEF ListsSorted, OnlyOn
<1> QED  BY <1>1, <1>17, <1>18 DEF LInv

LEMMA LStep == LInv /\ [Next]_vars => LInv'
<1> SUFFICES ASSUME LInv, [Next]_vars PROVE LInv'
  OBVIOUS
<1>0. result \in Objects \cup {NoObject} /\ stuck \in BOOLEAN
  BY DEF LInv, TypeOK
<1>1. CASE AcquireGrows
  BY <1>0, <1>1, NothingMoves DEF AcquireGrows
<1>2. CASE AcquireRefused
  BY <1>0, <1>2, NothingMoves DEF AcquireRefused
<1>3. CASE UNCHANGED vars
  BY <1>0, <1>3, NothingMoves DEF vars
<1> QED  BY <1>1, <1>2, <1>3, AcquirePartialKeeps, AcquireEmptyKeeps, ReleaseKeeps DEF Next

---------------------------------------------------------------------------
(* The properties.                                                         *)

LEMMA Joined ==
    ASSUME NEW S, NEW a \in Seq(S), NEW b \in Seq(S), IsInjective(a), IsInjective(b),
           ToSet(a) \cap ToSet(b) = {}
    PROVE  /\ a \o b \in Seq(S) /\ IsInjective(a \o b)
           /\ ToSet(a \o b) = ToSet(a) \cup ToSet(b)
<1> DEFINE r == a \o b
<1>0. /\ Len(a) \in Nat /\ Len(b) \in Nat
      /\ DOMAIN a = 1 .. Len(a) /\ DOMAIN b = 1 .. Len(b)
  OBVIOUS
<1>1. r \in Seq(S)
  OBVIOUS
<1>2. DOMAIN r = 1 .. Len(a) + Len(b)
  <2>1. \A c, d \in Seq(S) : Len(c \o d) = Len(c) + Len(d)
    OBVIOUS
  <2>2. Len(r) = Len(a) + Len(b)
    BY <2>1
  <2> QED  BY <1>1, <2>2
<1>3. \A i \in 1 .. Len(a) : r[i] = a[i]
  OBVIOUS
<1>4. \A i \in 1 .. Len(b) : r[Len(a) + i] = b[i]
  OBVIOUS
<1> HIDE DEF r
<1>5. \A i \in DOMAIN r : \/ i \in DOMAIN a /\ r[i] = a[i]
                          \/ i - Len(a) \in DOMAIN b /\ r[i] = b[i - Len(a)]
  <2>1. ASSUME NEW i \in DOMAIN r, i \notin DOMAIN a
        PROVE  i - Len(a) \in DOMAIN b /\ r[i] = b[i - Len(a)]
    <3>1. i - Len(a) \in 1 .. Len(b) /\ Len(a) + (i - Len(a)) = i
      BY <1>0, <1>2, <2>1
    <3> QED  BY <1>0, <1>4, <3>1
  <2> QED  BY <1>0, <1>3, <2>1
<1>6. \A i \in DOMAIN r : r[i] \in ToSet(a) <=> i \in DOMAIN a
  <2>1. \A i \in DOMAIN a : r[i] \in ToSet(a)
    BY <1>0, <1>3 DEF ToSet
  <2>2. ASSUME NEW i \in DOMAIN r, i \notin DOMAIN a PROVE r[i] \in ToSet(b)
    BY <1>5, <2>2 DEF ToSet
  <2> QED  BY <2>1, <2>2
<1>7. IsInjective(r)
  <2>1. ASSUME NEW i \in DOMAIN r, NEW j \in DOMAIN r, r[i] = r[j] PROVE i = j
    <3>1. CASE i \in DOMAIN a /\ j \in DOMAIN a
      BY <1>0, <1>3, <2>1, <3>1 DEF IsInjective
    <3>2. CASE i \notin DOMAIN a /\ j \notin DOMAIN a
      <4>1. /\ i - Len(a) \in DOMAIN b /\ j - Len(a) \in DOMAIN b
            /\ b[i - Len(a)] = b[j - Len(a)]
        BY <1>5, <2>1, <3>2
      <4>2. i - Len(a) = j - Len(a)
        BY <4>1 DEF IsInjective
      <4> QED  BY <1>0, <1>2, <4>2
    <3> QED  BY <1>6, <2>1, <3>1, <3>2
  <2> QED  BY <2>1 DEF IsInjective
<1>8. ToSet(r) = ToSet(a) \cup ToSet(b)
  <2>1. \A i \in DOMAIN r : r[i] \in ToSet(a) \cup ToSet(b)
    BY <1>5 DEF ToSet
  <2>2. \A i \in DOMAIN a : i \in DOMAIN r /\ r[i] = a[i]
    BY <1>0, <1>2, <1>3
  <2>3. ASSUME NEW i \in DOMAIN b PROVE b[i] \in ToSet(r)
    <3>1. Len(a) + i \in DOMAIN r /\ r[Len(a) + i] = b[i]
      BY <1>0, <1>2, <1>4
    <3> QED  BY <3>1 DEF ToSet
  <2> QED  BY <2>1, <2>2, <2>3 DEF ToSet
<1> QED  BY <1>1, <1>7, <1>8 DEF r

LEMMA ListsAreExact == LInv => ListsExact
<1> SUFFICES ASSUME LInv PROVE ListsExact
  OBVIOUS
<1>0. /\ partial \in Seq(Slabs) /\ complete \in Seq(Slabs) /\ empty \in Seq(Slabs)
      /\ IsInjective(partial) /\ IsInjective(complete) /\ IsInjective(empty)
      /\ ToSet(partial) = PartialSlabs /\ ToSet(complete) = FullSlabs
      /\ ToSet(empty) = EmptySlabs
  BY ListTypes
<1>1. /\ PartialSlabs \cap FullSlabs = {} /\ (PartialSlabs \cup FullSlabs) \cap EmptySlabs = {}
      /\ PartialSlabs \cup FullSlabs \cup EmptySlabs = Slabs
  BY SlotsFinite DEF PartialSlabs, FullSlabs, EmptySlabs
<1> DEFINE p == partial \o complete
           q == p \o empty
<1>2. p \in Seq(Slabs) /\ IsInjective(p) /\ ToSet(p) = PartialSlabs \cup FullSlabs
  BY <1>0, <1>1, Joined
<1> HIDE DEF p
<1>3. q \in Seq(Slabs) /\ IsInjective(q) /\ ToSet(q) = Slabs
  <2>1. ToSet(p) \cap ToSet(empty) = {}
    BY <1>0, <1>1, <1>2
  <2>2. /\ q \in Seq(Slabs) /\ IsInjective(q)
        /\ ToSet(q) = ToSet(p) \cup ToSet(empty)
    BY <1>0, <1>2, <2>1, Joined
  <2> QED  BY <1>0, <1>1, <1>2, <2>2
<1> HIDE DEF q
<1>4. Len(q) \in Nat /\ q \in [1 .. Len(q) -> Slabs]
  BY <1>3
<1>5. Cardinality(Slabs) = Len(q)
  <2>1. q \in Bijection(1 .. Len(q), Slabs)
    <3>1. \A t \in Slabs : \E i \in 1 .. Len(q) : q[i] = t
      BY <1>3, <1>4 DEF ToSet
    <3>2. \A i, j \in 1 .. Len(q) : q[i] = q[j] => i = j
      BY <1>3, <1>4 DEF IsInjective
    <3> QED  BY <1>4, <3>1, <3>2 DEF Bijection, Injection, Surjection, IsInjective
  <2>2. ExistsBijection(1 .. Len(q), Slabs)
    BY <2>1 DEF ExistsBijection
  <2> QED  BY <1>4, <2>2, FS_CountingElements
<1>6. Cardinality(Slabs) = InitSlabs
  <2>1. InitSlabs \in Nat
    BY SizesAssumption
  <2>2. Cardinality(1 .. InitSlabs) = IF 1 > InitSlabs THEN 0 ELSE InitSlabs - 1 + 1
    BY <2>1, FS_Interval
  <2> QED  BY <2>1, <2>2 DEF Slabs
<1>7. q \in [1 .. InitSlabs -> Slabs]
  BY <1>4, <1>5, <1>6
<1>8. \A s \in Slabs : IF free[s] = {} THEN s \in ToSet(complete)
                       ELSE IF free[s] = Slots THEN s \in ToSet(empty)
                       ELSE s \in ToSet(partial)
  BY <1>0 DEF PartialSlabs, FullSlabs, EmptySlabs
<1> QED  BY <1>3, <1>7, <1>8 DEF ListsExact, p, q

\* LInv is an invariant of acquire() and release().
THEOREM PoolInvariance == Spec => []LInv
<1> QED  BY InitLInv, LStep, PTL DEF Spec

\* The types of the pool's variables, for slabs of every size and number.
THEOREM TypeCorrect == Spec => []TypeOK
<1>1. LInv => TypeOK
  BY DEF LInv
<1> QED  BY <1>1, PoolInvariance, PTL

\* For slabs of every size and number: each slab is on one list, once, the
\* list that its bits ask for (reclassify_slab, allocate_from_cache).
THEOREM Lists == Spec => []ListsExact
<1> QED  BY ListsAreExact, PoolInvariance, PTL

\* The counters, which decide about lists and refusals (free_cout,
\* _active_objects), agree with the bits.
THEOREM Counters == Spec => []CountsAgree
<1>1. LInv => CountsAgree
  BY DEF LInv
<1> QED  BY <1>1, PoolInvariance, PTL

\* acquire() and release() implement the abstract pool: no object is given to
\* two callers, and what was released can be given again.
THEOREM PoolRefinement == Spec => IsConnPool
<1>1. Init => Abstract!Init
  BY DEF Init, Abstract!Init, Held, Objects
<1>2. ASSUME LInv, [Next]_vars PROVE [Abstract!Next]_<<Held, result>>
  <2>1. CASE AcquirePartial
    <3>1. PICK k \in DOMAIN partial : free[partial[k]] # {} /\ Give(partial[k])
      BY <2>1 DEF AcquirePartial
    <3>2. partial[k] \in Slabs
      BY <1>2, ListTypes
    <3>3. result' \in Objects /\ Held' = Held \cup {result'} /\ result' \notin Held
      BY <1>2, <3>1, <3>2, GiveFacts
    <3> QED  BY <3>3 DEF Abstract!Next, Abstract!Acquire
  <2>2. CASE AcquireEmpty
    <3>1. empty # <<>> /\ Give(Head(empty))
      BY <2>2 DEF AcquireEmpty
    <3>2. Head(empty) \in EmptySlabs
      BY <1>2, <3>1, ListTypes, WithoutHead
    <3>3. Head(empty) \in Slabs /\ free[Head(empty)] # {}
      BY <3>2, SlotsFinite DEF EmptySlabs
    <3>4. result' \in Objects /\ Held' = Held \cup {result'} /\ result' \notin Held
      BY <1>2, <3>1, <3>3, GiveFacts
    <3> QED  BY <3>4 DEF Abstract!Next, Abstract!Acquire
  <2>3. CASE AcquireGrows
    BY <2>3 DEF AcquireGrows, Held, Objects, Slabs, Slots
  <2>4. CASE AcquireRefused
    <3>1. result' = NoObject /\ Held' = Held
      BY <2>4 DEF AcquireRefused, Held, Objects, Slabs, Slots
    <3> QED  BY <3>1 DEF Abstract!Next, Abstract!Refuse
  <2>5. ASSUME NEW o \in Objects, Release(o) PROVE Abstract!Next
    <3>1. o \in Held /\ Held' = Held \ {o} /\ result' = NoObject
      BY <1>2, <2>5, ReleaseFacts
    <3> QED  BY <3>1 DEF Abstract!Next, Abstract!Release
  <2>6. CASE UNCHANGED vars
    BY <2>6 DEF vars, Held, Objects, Slabs, Slots
  <2> QED  BY <1>2, <2>1, <2>2, <2>3, <2>4, <2>5, <2>6 DEF Next
<1> QED  BY <1>1, <1>2, PoolInvariance, PTL DEF Spec, IsConnPool, Abstract!Spec

---------------------------------------------------------------------------
(* The pool of buffers beside it.                                          *)

\* Free and taken blocks are sound, and a caller had what he asked for.
Kept(fl, gs) ==
    /\ Sound(fl, {g.block : g \in gs})
    /\ gs \subseteq [block : AnyBlock, asked : 1 .. PoolSize]
    /\ \A g \in gs : g.block.size >= g.asked

\* The inductive invariant of both pools.
PInv ==
    LInv /\ Kept(lists, given \cup lost) /\ state \in {"sound", "hung", "undefined"}

LEMMA InitPInv == PoolInit => PInv
<1> SUFFICES ASSUME PoolInit PROVE PInv
  OBVIOUS
<1>1. LInv
  BY InitLInv DEF PoolInit
<1>2. lists = AllFree /\ given \cup lost = {} /\ state = "sound"
  BY DEF PoolInit
<1>3. Kept(lists, given \cup lost)
  <2>1. {g.block : g \in given \cup lost} = {}
    BY <1>2
  <2>2. Sound(lists, {g.block : g \in given \cup lost})
    BY <1>2, <2>1, SoundAtFirst
  <2> QED  BY <1>2, <2>2 DEF Kept
<1> QED  BY <1>1, <1>2, <1>3 DEF PInv

LEMMA AllocatedKeeps ==
    ASSUME NEW fl, NEW gs, Kept(fl, gs), NEW size \in 1 .. PoolSize,
           NEW a, a = AllocateBuffer(fl, size), a.block # NoBlock
    PROVE  Kept(a.free, gs \cup {[block |-> a.block, asked |-> size]})
<1> DEFINE B == {g.block : g \in gs}
           new == [block |-> a.block, asked |-> size]
<1>1. Sound(fl, B) /\ size \in Nat
  BY PoolAssumption DEF Kept
<1>2. /\ a.block \in AnyBlock /\ a.block.size >= size /\ Sound(a.free, B \cup {a.block})
  <2> HIDE DEF B
  <2> QED  BY <1>1, AllocateKeeps
<1>3. {g.block : g \in gs \cup {new}} = B \cup {a.block}
  <2>1. new.block = a.block
    OBVIOUS
  <2> HIDE DEF new
  <2>2. {g.block : g \in gs \cup {new}} = B \cup {new.block}
    OBVIOUS
  <2> QED  BY <2>1, <2>2
<1>4. Sound(a.free, {g.block : g \in gs \cup {new}})
  BY <1>2, <1>3
<1>5. gs \cup {new} \subseteq [block : AnyBlock, asked : 1 .. PoolSize]
  BY <1>2 DEF Kept
<1>6. \A g \in gs \cup {new} : g.block.size >= g.asked
  BY <1>2 DEF Kept
<1> QED  BY <1>4, <1>5, <1>6 DEF Kept

\* deallocate_buffer finds nothing: all blocks on the lists are free.
LEMMA NoneFound ==
    ASSUME PInv, NEW g, Deallocate(g)
    PROVE  UNCHANGED lists /\ given' \cup lost' = given \cup lost
<1>1. lists \in FreeLists /\ Sized(lists)
  BY DEF PInv, Kept, Sound
<1>2. ASSUME NEW o \in DOMAIN lists, NEW b \in FoundIn(o, g.block.addr) PROVE FALSE
  <2>1. o \in 0 .. MaxOrder /\ b \in ToSet(lists[o]) /\ ~b.is_free
    BY <1>1, <1>2 DEF FreeLists, FoundIn
  <2> QED  BY <1>1, <2>1 DEF Sized
<1>3. \A o \in DOMAIN lists : FoundIn(o, g.block.addr) = {}
  BY <1>2
<1> QED  BY <1>3 DEF Deallocate

\* A step of the memory pool is one of the pool of connection objects or
\* leaves that pool alone, and taken buffers stay taken.
LEMMA PoolStep ==
    ASSUME PInv, [PoolNext]_poolVars
    PROVE  PInv' /\ [Next]_vars /\ TakenBlocks \subseteq TakenBlocks'
<1> DEFINE T == given \cup lost
<1>0. LInv /\ Kept(lists, T) /\ state \in {"sound", "hung", "undefined"}
  BY DEF PInv
<1>1. ASSUME LInv', [Next]_vars, Kept(lists', T'), T \subseteq T',
             state' \in {"sound", "hung", "undefined"}
      PROVE  PInv' /\ [Next]_vars /\ TakenBlocks \subseteq TakenBlocks'
  BY <1>1 DEF PInv, TakenBlocks
<1>2. ASSUME LInv', [Next]_vars, lists' = lists, T' = T,
             state' \in {"sound", "hung", "undefined"}
      PROVE  PInv' /\ [Next]_vars /\ TakenBlocks \subseteq TakenBlocks'
  <2>1. Kept(lists', T')
    <3> HIDE DEF T
    <3> QED  BY <1>0, <1>2
  <2> QED  BY <1>1, <1>2, <2>1
<1>3. ASSUME UNCHANGED vars PROVE LInv' /\ [Next]_vars
  BY <1>0, <1>3, LStep
<1>4. CASE Next /\ UNCHANGED bufferVars
  <2>1. LInv'
    BY <1>0, <1>4, LStep
  <2> QED  BY <1>0, <1>2, <1>4, <2>1 DEF bufferVars
<1>5. ASSUME NEW size \in 1 .. PoolSize, Allocate(size)
      PROVE  PInv' /\ [Next]_vars /\ TakenBlocks \subseteq TakenBlocks'
  <2>1. PICK a : a = AllocateBuffer(lists, size)
    OBVIOUS
  <2> DEFINE new == [block |-> a.block, asked |-> size]
  <2>2. a.block # NoBlock /\ lists' = a.free /\ UNCHANGED vars /\ state' = state
    BY <1>5, <2>1 DEF Allocate
  <2>3. T' = T \cup {new}
    BY <1>5, <2>1 DEF Allocate
  <2>4. Kept(a.free, T \cup {new})
    <3> HIDE DEF T
    <3> QED  BY <1>0, <2>1, <2>2, AllocatedKeeps
  <2>5. Kept(lists', T')
    <3> HIDE DEF T, new
    <3> QED  BY <2>2, <2>3, <2>4
  <2>6. T \subseteq T'
    <3> HIDE DEF T, new
    <3> QED  BY <2>3
  <2> QED  BY <1>0, <1>1, <1>3, <2>2, <2>5, <2>6
<1>6. ASSUME NEW g, Deallocate(g)
      PROVE  PInv' /\ [Next]_vars /\ TakenBlocks \subseteq TakenBlocks'
  <2>1. lists' = lists /\ T' = T
    BY <1>6, NoneFound
  <2>2. UNCHANGED vars /\ state' = state
    BY <1>6 DEF Deallocate
  <2> QED  BY <1>0, <1>2, <1>3, <2>1, <2>2
<1>7. CASE Defragment \/ PrintMemoryStatus
  <2>1. /\ lists' = lists /\ T' = T /\ UNCHANGED vars
        /\ state' \in {"sound", "hung", "undefined"}
    BY <1>7 DEF Defragment, PrintMemoryStatus
  <2> QED  BY <1>2, <1>3, <2>1
<1>8. CASE UNCHANGED poolVars
  <2>1. lists' = lists /\ T' = T /\ UNCHANGED vars /\ state' = state
    BY <1>8 DEF poolVars, bufferVars
  <2> QED  BY <1>0, <1>2, <1>3, <2>1
<1> QED  BY <1>4, <1>5, <1>6, <1>7, <1>8 DEF PoolNext

\* PInv is an invariant of all the calls, and the calls for buffers leave the
\* pool of connection objects alone.
THEOREM MemoryInvariance == PoolSpec => []PInv /\ Spec
<1>1. PInv /\ [PoolNext]_poolVars => PInv' /\ [Next]_vars
  BY PoolStep
<1>2. PoolInit => Init
  BY DEF PoolInit
<1> QED  BY <1>1, <1>2, InitPInv, PTL DEF PoolSpec, Spec

\* In every state of the memory pool too: each slab is on the list that its
\* bits ask for, and the counters agree with the bits.
THEOREM MemoryLists == PoolSpec => []ListsExact /\ []CountsAgree
<1> QED  BY MemoryInvariance, Lists, Counters, PTL

\* The connection objects of the memory pool are those of the abstract pool.
THEOREM MemoryRefinement == PoolSpec => IsConnPool
<1> QED  BY MemoryInvariance, PoolRefinement, PTL

\* The types of both pools' variables, for slabs and memories of every size.
THEOREM PoolTypeCorrect == PoolSpec => []PoolTypeOK
<1>1. ASSUME PInv PROVE PoolTypeOK
  <2>1. TypeOK
    BY <1>1 DEF PInv, LInv
  <2>2. /\ Sound(lists, TakenBlocks)
        /\ given \cup lost \subseteq [block : AnyBlock, asked : 1 .. PoolSize]
    BY <1>1 DEF PInv, Kept, TakenBlocks
  <2>3. ASSUME NEW b \in Listed(lists) \cup TakenBlocks PROVE b \in Blocks
    <3>1. b \in AnyBlock /\ b.size > 0 /\ b.addr + b.size <= PoolSize /\ b.buddy <= PoolSize
      BY <2>2, <2>3, ListedTyped DEF Sound, Inside
    <3>2. b.addr \in 0 .. PoolSize /\ b.size \in 0 .. PoolSize /\ b.buddy \in 0 .. PoolSize
      BY <3>1, PoolAssumption DEF AnyBlock
    <3> QED  BY <3>1, <3>2 DEF AnyBlock, Blocks
  <2>4. lists \in [0 .. MaxOrder -> Seq(Blocks)]
    <3>1. lists \in FreeLists
      BY <2>2 DEF Sound
    <3>2. ASSUME NEW o \in 0 .. MaxOrder PROVE lists[o] \in Seq(Blocks)
      <4>1. lists[o] \in Seq(AnyBlock) /\ ToSet(lists[o]) \subseteq Listed(lists)
        BY <3>1, ListedIs DEF FreeLists
      <4>2. \A i \in 1 .. Len(lists[o]) : lists[o][i] \in Blocks
        BY <2>3, <4>1 DEF ToSet
      <4> QED  BY <4>1, <4>2
    <3> QED  BY <3>1, <3>2 DEF FreeLists
  <2>5. given \cup lost \subseteq [block : Blocks, asked : 1 .. PoolSize]
    <3>1. ASSUME NEW g \in given \cup lost PROVE g \in [block : Blocks, asked : 1 .. PoolSize]
      <4>1. g.block \in Blocks
        BY <2>3 DEF TakenBlocks
      <4>2. g \in [block : AnyBlock, asked : 1 .. PoolSize]
        BY <2>2
      <4> QED  BY <4>1, <4>2
    <3> QED  BY <3>1
  <2> QED  BY <1>1, <2>1, <2>4, <2>5 DEF PInv, PoolTypeOK
<1> QED  BY <1>1, MemoryInvariance, PTL

\* In a memory of every size, a multiple of the smallest block or not, no byte
\* has two owners, free or taken (split_block, allocate_buffer).
THEOREM Apart == PoolSpec => []LieApart(lists, TakenBlocks)
<1>1. PInv => LieApart(lists, TakenBlocks)
  BY DEF PInv, Kept, TakenBlocks, Sound
<1> QED  BY <1>1, MemoryInvariance, PTL

\* If the size is a power of two times the smallest block, as it is by
\* default, no byte is lost while blocks are split either.
THEOREM Tiling == ASSUME PowerOfTwo PROVE PoolSpec => []BlocksTile
<1>1. ASSUME PInv PROVE BlocksTile
  <2>1. Sound(lists, TakenBlocks)
    BY <1>1 DEF PInv, Kept, TakenBlocks
  <2> DEFINE B == Listed(lists) \cup TakenBlocks
  <2>2. \A x \in 0 .. PoolSize - 1 : \E b \in B : x \in Cover(b)
    BY <2>1 DEF Sound, Exact
  <2>3. ASSUME NEW b \in B PROVE Cover(b) \subseteq 0 .. PoolSize - 1
    <3>1. b \in AnyBlock /\ b.size > 0 /\ b.addr + b.size <= PoolSize
      BY <2>1, <2>3, ListedTyped DEF Sound, Inside
    <3> QED  BY <3>1, PoolAssumption DEF AnyBlock, Cover
  <2>4. UNION {Cover(b) : b \in B} = 0 .. PoolSize - 1
    <3> HIDE DEF B
    <3> QED  BY <2>2, <2>3
  <2> QED  BY <2>1, <2>4 DEF Sound, BlocksTile
<1> QED  BY <1>1, MemoryInvariance, PTL

\* A caller gets as much as he asked for; in such a memory he is refused only
\* when no free block is large enough (calculate_order, allocate_buffer).
THEOREM Fits == ASSUME PowerOfTwo PROVE PoolSpec => []ServedByFit
<1>1. ASSUME PInv PROVE ServedByFit
  <2>1. Sound(lists, TakenBlocks) /\ \A g \in given : g.block.size >= g.asked
    BY <1>1 DEF PInv, Kept, TakenBlocks
  <2>2. ASSUME NEW size \in 1 .. PoolSize, AllocateBuffer(lists, size).block = NoBlock,
               NEW b \in Listed(lists)
        PROVE  b.size < size
    <3>1. PICK a : a = AllocateBuffer(lists, size)
      OBVIOUS
    <3>2. size \in Nat
      BY PoolAssumption
    <3>3. \A o \in CalculateOrder(size) .. MaxOrder : lists[o] = <<>>
      BY <2>1, <2>2, <3>1, <3>2, AllocateKeeps
    <3>4. PICK o \in 0 .. MaxOrder : b \in ToSet(lists[o])
      BY <2>1, ListedIs DEF Sound
    <3>5. lists[o] # <<>>
      BY <3>4 DEF ToSet
    <3>6. CalculateOrder(size) \in 0 .. MaxOrder /\ MaxOrder \in Nat
      BY <3>2, OrderIsLeast, MaxOrderIs
    <3>7. o < CalculateOrder(size)
      BY <3>3, <3>5, <3>6
    <3>8. BlockSize[o] < size
      BY <3>2, <3>7, OrderIsLeast
    <3> QED  BY <2>1, <3>4, <3>8 DEF Sound, Exact
  <2> QED  BY <2>1, <2>2 DEF ServedByFit
<1> QED  BY <1>1, MemoryInvariance, PTL

\* No block that was ever allocated becomes free again, whoever gives it back
\* (deallocate_buffer): what the pool of buffers has given, it has lost.
THEOREM NeverFreed == PoolSpec => [][TakenBlocks \subseteq TakenBlocks']_poolVars
<1> DEFINE Stays == TakenBlocks \subseteq TakenBlocks'
<1>1. PInv /\ [PoolNext]_poolVars => [Stays]_poolVars
  BY PoolStep
<1> HIDE DEF Stays
<1>2. PoolSpec => [][Stays]_poolVars
  BY <1>1, MemoryInvariance, PTL DEF PoolSpec
<1> QED  BY <1>2 DEF Stays
=============================================================================
