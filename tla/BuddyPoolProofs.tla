-------------------------- MODULE BuddyPoolProofs --------------------------
(***************************************************************************)
(* The pool of buffers for memories of every size: how blocks are found    *)
(* and split leaves the free and the taken blocks sound.  The lemmas about *)
(* numbers and linked lists serve the pool of connection objects too.      *)
(***************************************************************************)
EXTENDS BuddyPool, FiniteSetTheorems, SequenceTheorems, TLAPS

---------------------------------------------------------------------------
(* Numbers.                                                                *)

\* A set of numbers has a least one: the sets of the numbers below each are
\* finite, and inclusion among finite sets is well-founded.
LEMMA Smallest ==
    ASSUME NEW S \in SUBSET Nat, S # {}
    PROVE  \E m \in S : \A k \in S : m <= k
<1> DEFINE Below(x) == 0 .. x - 1
           T == {Below(x) : x \in S}
<1>1. T \subseteq FiniteSubsetsOf(Nat) /\ T # {}
  <2>1. ASSUME NEW x \in S
        PROVE  Below(x) \in FiniteSubsetsOf(Nat)
    <3>1. x - 1 \in Int /\ Below(x) \subseteq Nat
      OBVIOUS
    <3> QED  BY <3>1, FS_Interval DEF FiniteSubsetsOf
  <2> QED  BY <2>1
<1>2. PICK t \in T : \A u \in T : <<u, t>> \notin StrictSubsetOrdering(Nat)
  BY <1>1, FS_StrictSubsetOrderingWellFounded, WFMin
<1>3. PICK x \in S : t = Below(x)
  OBVIOUS
<1>4. ASSUME NEW y \in S, y < x
      PROVE  FALSE
  <2>1. Below(y) \subseteq Below(x) /\ y \in Below(x) /\ y \notin Below(y)
    BY <1>4
  <2>2. Below(x) \subseteq Nat /\ Below(y) \subseteq Nat
    OBVIOUS
  <2>3. <<Below(y), Below(x)>> \in StrictSubsetOrdering(Nat)
    BY <2>1, <2>2 DEF StrictSubsetOrdering
  <2> QED  BY <1>2, <1>3, <2>3
<1>5. \A y \in S : x <= y
  BY <1>4
<1> QED  BY <1>5

LEMMA MinIsLeast ==
    ASSUME NEW S \in SUBSET Nat, S # {}
    PROVE  Min(S) \in S /\ \A k \in S : Min(S) <= k
BY Smallest DEF Min

LEMMA MaxIsGreatest ==
    ASSUME NEW n \in Nat, NEW S \in SUBSET (0 .. n), S # {}
    PROVE  Max(S) \in S /\ \A k \in S : k <= Max(S)
<1> DEFINE T == {n - k : k \in S}
<1>1. T \in SUBSET Nat /\ T # {}
  <2>1. \A k \in S : n - k \in Nat
    OBVIOUS
  <2>2. T # {}
    OBVIOUS
  <2> QED  BY <2>1, <2>2
<1>2. PICK m \in T : \A k \in T : m <= k
  <2> HIDE DEF T
  <2> QED  BY <1>1, Smallest
<1>3. PICK x \in S : m = n - x
  OBVIOUS
<1>4. \A k \in S : x >= k
  BY <1>2, <1>3
<1>5. Max(S) \in S /\ \A k \in S : Max(S) >= k
  BY <1>4 DEF Max
<1> QED  BY <1>5

\* Induction from 0 to n, about a set.
LEMMA UpToN ==
    ASSUME NEW n \in Nat, NEW P, 0 \in P,
           \A k \in 1 .. n : k - 1 \in P => k \in P
    PROVE  \A k \in 0 .. n : k \in P
<1> DEFINE S == {k \in 0 .. n : k \notin P}
<1>1. SUFFICES ASSUME S # {} PROVE FALSE
  OBVIOUS
<1>2. PICK m \in S : \A k \in S : m <= k
  <2>1. S \in SUBSET Nat
    OBVIOUS
  <2> HIDE DEF S
  <2> QED  BY <1>1, <2>1, Smallest
<1>3. m \in 1 .. n /\ m - 1 \in 0 .. n /\ ~(m <= m - 1)
  OBVIOUS
<1>4. m - 1 \in P
  BY <1>2, <1>3
<1> QED  BY <1>3, <1>4

Iterates(g, V, v, n, step) ==
    /\ g \in [0 .. n -> V] /\ g[0] = v
    /\ \A k \in 1 .. n : g[k] = step[<<g[k - 1], k>>]

\* What is computed step by step from a first value exists.
LEMMA Iterated ==
    ASSUME NEW V, NEW v \in V, NEW n \in Nat, NEW step \in [V \X (1 .. n) -> V]
    PROVE  \E g : Iterates(g, V, v, n, step)
<1> USE DEF Iterates
<1> DEFINE Good(g, m) == Iterates(g, V, v, m, step)
           P == {m \in 0 .. n : \E g : Good(g, m)}
<1>1. 0 \in P
  <2>1. Good([k \in 0 .. 0 |-> v], 0)
    OBVIOUS
  <2>2. 0 \in 0 .. n
    OBVIOUS
  <2> HIDE DEF Iterates
  <2> QED  BY <2>1, <2>2
<1>2. ASSUME NEW m \in 1 .. n, m - 1 \in P
      PROVE  m \in P
  <2>1. PICK g : Good(g, m - 1)
    BY <1>2
  <2> DEFINE h == [k \in 0 .. m |-> IF k = m THEN step[<<g[m - 1], m>>] ELSE g[k]]
  <2>2. m - 1 \in 0 .. m - 1 /\ m # 0 /\ 0 \in 0 .. m - 1
    OBVIOUS
  <2>3. step[<<g[m - 1], m>>] \in V
    BY <2>1, <2>2
  <2>4. \A k \in 0 .. m : k # m => k \in 0 .. m - 1
    OBVIOUS
  <2>5. h \in [0 .. m -> V] /\ h[0] = v
    BY <2>1, <2>2, <2>3, <2>4
  <2>6. ASSUME NEW k \in 1 .. m PROVE h[k] = step[<<h[k - 1], k>>]
    <3>1. k - 1 \in 0 .. m /\ k - 1 # m /\ h[k - 1] = g[k - 1]
      OBVIOUS
    <3>2. CASE k = m
      BY <3>1, <3>2
    <3>3. CASE k # m
      <4>1. k \in 1 .. m - 1 /\ h[k] = g[k]
        BY <3>3
      <4> QED  BY <2>1, <3>1, <4>1
    <3> QED  BY <3>2, <3>3
  <2>7. Good(h, m)
    BY <2>5, <2>6
  <2>8. m \in 0 .. n
    OBVIOUS
  <2> HIDE DEF Iterates, h
  <2> QED  BY <2>7, <2>8
<1> HIDE DEF P, Iterates
<1>3. n \in P
  BY <1>1, <1>2, UpToN
<1> QED  BY <1>3 DEF P

---------------------------------------------------------------------------
(* Linked lists.                                                           *)

LEMMA AddedAtHead ==
    ASSUME NEW S, NEW q \in Seq(S), NEW x \in S
    PROVE  /\ <<x>> \o q \in Seq(S)
           /\ ToSet(<<x>> \o q) = ToSet(q) \cup {x}
           /\ IsInjective(q) /\ x \notin ToSet(q) => IsInjective(<<x>> \o q)
<1> DEFINE r == <<x>> \o q
<1>1. r \in Seq(S) /\ Len(r) = Len(q) + 1 /\ Len(q) \in Nat
  OBVIOUS
<1>2. r[1] = x /\ \A i \in 1 .. Len(q) : r[i + 1] = q[i]
  OBVIOUS
<1>3. DOMAIN r = 1 .. Len(q) + 1 /\ DOMAIN q = 1 .. Len(q)
  BY <1>1
<1> HIDE DEF r
<1>4. \A i \in 2 .. Len(q) + 1 : i - 1 \in 1 .. Len(q) /\ r[i] = q[i - 1]
  <2>1. ASSUME NEW i \in 2 .. Len(q) + 1 PROVE i - 1 \in 1 .. Len(q) /\ (i - 1) + 1 = i
    BY <1>1
  <2> QED  BY <1>2, <2>1
<1>5. ToSet(r) = ToSet(q) \cup {x}
  <2>1. ASSUME NEW i \in DOMAIN r PROVE r[i] \in ToSet(q) \cup {x}
    <3>1. CASE i = 1
      BY <1>2, <3>1
    <3>2. CASE i # 1
      BY <1>1, <1>3, <1>4, <3>2 DEF ToSet
    <3> QED  BY <3>1, <3>2
  <2>2. x \in ToSet(r)
    BY <1>1, <1>2, <1>3 DEF ToSet
  <2>3. ASSUME NEW i \in DOMAIN q PROVE q[i] \in ToSet(r)
    <3>1. i + 1 \in DOMAIN r /\ r[i + 1] = q[i]
      BY <1>1, <1>2, <1>3
    <3> QED  BY <3>1 DEF ToSet
  <2> QED  BY <2>1, <2>2, <2>3 DEF ToSet
<1>6. ASSUME IsInjective(q), x \notin ToSet(q) PROVE IsInjective(r)
  <2>1. ASSUME NEW i \in DOMAIN r, NEW j \in DOMAIN r, r[i] = r[j] PROVE i = j
    <3>1. CASE i = 1 /\ j = 1
      BY <3>1
    <3>2. CASE i = 1 /\ j # 1
      <4>1. r[j] \in ToSet(q)
        BY <1>1, <1>3, <1>4, <3>2 DEF ToSet
      <4> QED  BY <1>2, <1>6, <2>1, <3>2, <4>1
    <3>3. CASE i # 1 /\ j = 1
      <4>1. r[i] \in ToSet(q)
        BY <1>1, <1>3, <1>4, <3>3 DEF ToSet
      <4> QED  BY <1>2, <1>6, <2>1, <3>3, <4>1
    <3>4. CASE i # 1 /\ j # 1
      <4>1. i \in 2 .. Len(q) + 1 /\ j \in 2 .. Len(q) + 1
        BY <1>1, <1>3, <3>4
      <4>2. i - 1 \in DOMAIN q /\ j - 1 \in DOMAIN q /\ q[i - 1] = q[j - 1]
        BY <1>3, <1>4, <2>1, <4>1
      <4>3. i - 1 = j - 1
        BY <1>6, <4>2 DEF IsInjective
      <4> QED  BY <1>1, <4>1, <4>3
    <3> QED  BY <3>1, <3>2, <3>3, <3>4
  <2> QED  BY <2>1 DEF IsInjective
<1> QED  BY <1>1, <1>5, <1>6 DEF r

LEMMA CutOut ==
    ASSUME NEW S, NEW q \in Seq(S), IsInjective(q), NEW k \in DOMAIN q
    PROVE  /\ RemoveAt(q, k) \in Seq(S)
           /\ ToSet(RemoveAt(q, k)) = ToSet(q) \ {q[k]}
           /\ IsInjective(RemoveAt(q, k))
<1> DEFINE r == RemoveAt(q, k)
           a == SubSeq(q, 1, k - 1)
           b == SubSeq(q, k + 1, Len(q))
<1>0. Len(q) \in Nat /\ DOMAIN q = 1 .. Len(q) /\ k \in 1 .. Len(q)
  OBVIOUS
<1>1. a \in Seq(S) /\ Len(a) = k - 1 /\ \A i \in 1 .. k - 1 : a[i] = q[i]
  BY <1>0
<1>2. b \in Seq(S) /\ Len(b) = Len(q) - k /\ \A i \in 1 .. Len(q) - k : b[i] = q[i + k]
  BY <1>0
<1>3. r = a \o b
  BY DEF RemoveAt
<1> HIDE DEF r, a, b
<1>4. r \in Seq(S) /\ Len(r) = Len(q) - 1
  <2>1. r \in Seq(S)
    BY <1>1, <1>2, <1>3
  <2>2. Len(r) = Len(a) + Len(b)
    <3>1. \A c, d \in Seq(S) : Len(c \o d) = Len(c) + Len(d)
      OBVIOUS
    <3> QED  BY <1>1, <1>2, <1>3, <3>1
  <2> QED  BY <1>0, <1>1, <1>2, <2>1, <2>2
<1>5. DOMAIN r = 1 .. Len(q) - 1
  BY <1>4
<1>6. \A i \in 1 .. Len(q) - 1 : r[i] = IF i < k THEN q[i] ELSE q[i + 1]
  <2>1. ASSUME NEW i \in 1 .. Len(q) - 1, i < k PROVE r[i] = q[i]
    BY <1>0, <1>1, <1>2, <1>3, <2>1
  <2>2. ASSUME NEW i \in 1 .. Len(q) - 1, ~(i < k) PROVE r[i] = q[i + 1]
    <3>1. i - (k - 1) \in 1 .. Len(q) - k /\ (i - (k - 1)) + k = i + 1
      BY <1>0, <2>2
    <3>2. r[i] = b[i - (k - 1)]
      BY <1>0, <1>1, <1>2, <1>3, <2>2, SMTT(20)
    <3> QED  BY <1>2, <3>1, <3>2
  <2> QED  BY <2>1, <2>2
<1>7. \A i, j \in 1 .. Len(q) : q[i] = q[j] => i = j
  BY <1>0 DEF IsInjective
<1>8. ToSet(r) = ToSet(q) \ {q[k]}
  <2>1. ASSUME NEW i \in DOMAIN r PROVE r[i] \in ToSet(q) \ {q[k]}
    <3>1. CASE i < k
      <4>1. i \in 1 .. Len(q) /\ i # k /\ r[i] = q[i]
        BY <1>0, <1>5, <1>6, <3>1
      <4> QED  BY <1>0, <1>7, <4>1 DEF ToSet
    <3>2. CASE ~(i < k)
      <4>1. i + 1 \in 1 .. Len(q) /\ i + 1 # k /\ r[i] = q[i + 1]
        BY <1>0, <1>5, <1>6, <3>2
      <4> QED  BY <1>0, <1>7, <4>1 DEF ToSet
    <3> QED  BY <3>1, <3>2
  <2>2. ASSUME NEW i \in DOMAIN q, q[i] # q[k] PROVE q[i] \in ToSet(r)
    <3>1. CASE i < k
      <4>1. i \in DOMAIN r /\ r[i] = q[i]
        BY <1>0, <1>5, <1>6, <3>1
      <4> QED  BY <4>1 DEF ToSet
    <3>2. CASE ~(i < k)
      <4>1. i - 1 \in 1 .. Len(q) - 1 /\ ~(i - 1 < k) /\ (i - 1) + 1 = i
        BY <1>0, <2>2, <3>2
      <4>2. i - 1 \in DOMAIN r /\ r[i - 1] = q[i]
        BY <1>5, <1>6, <4>1
      <4> QED  BY <4>2 DEF ToSet
    <3> QED  BY <3>1, <3>2
  <2> QED  BY <2>1, <2>2 DEF ToSet
<1>9. IsInjective(r)
  <2>1. ASSUME NEW i \in DOMAIN r, NEW j \in DOMAIN r, r[i] = r[j] PROVE i = j
    <3> DEFINE at(n) == IF n < k THEN n ELSE n + 1
    <3>1. \A n \in DOMAIN r : at(n) \in 1 .. Len(q) /\ r[n] = q[at(n)]
      BY <1>0, <1>5, <1>6
    <3>2. at(i) = at(j)
      <4> HIDE DEF at
      <4> QED  BY <1>7, <2>1, <3>1
    <3> QED  BY <1>0, <1>5, <3>2
  <2> QED  BY <2>1 DEF IsInjective
<1> QED  BY <1>4, <1>8, <1>9 DEF r

\* What a list loses with its head.
LEMMA WithoutHead ==
    ASSUME NEW S, NEW q \in Seq(S), IsInjective(q), q # <<>>
    PROVE  /\ Head(q) \in ToSet(q) /\ Tail(q) \in Seq(S)
           /\ ToSet(Tail(q)) = ToSet(q) \ {Head(q)}
           /\ IsInjective(Tail(q))
<1>0. Len(q) \in Nat /\ Len(q) > 0 /\ DOMAIN q = 1 .. Len(q)
  OBVIOUS
<1>1. 1 \in DOMAIN q /\ Head(q) = q[1]
  BY <1>0
<1>2. RemoveAt(q, 1) = Tail(q)
  <2>1. SubSeq(q, 1, 1 - 1) = <<>>
    OBVIOUS
  <2>2. SubSeq(q, 1 + 1, Len(q)) = Tail(q)
    BY <1>0
  <2>3. <<>> \o Tail(q) = Tail(q)
    BY <1>0
  <2>4. RemoveAt(q, 1) = SubSeq(q, 1, 1 - 1) \o SubSeq(q, 1 + 1, Len(q))
    BY DEF RemoveAt
  <2> QED  BY <2>1, <2>2, <2>3, <2>4, Zenon
<1>3. /\ RemoveAt(q, 1) \in Seq(S)
      /\ ToSet(RemoveAt(q, 1)) = ToSet(q) \ {q[1]}
      /\ IsInjective(RemoveAt(q, 1))
  BY <1>1, CutOut
<1>4. q[1] \in ToSet(q)
  BY <1>1 DEF ToSet
<1> QED  BY <1>1, <1>2, <1>3, <1>4

LEMMA TwoAtHead ==
    ASSUME NEW S, NEW q \in Seq(S), NEW x \in S, NEW y \in S
    PROVE  /\ <<x, y>> \o q \in Seq(S) /\ <<x, y>> \o q # <<>>
           /\ ToSet(<<x, y>> \o q) = ToSet(q) \cup {x, y}
           /\ IsInjective(q) /\ x # y /\ {x, y} \cap ToSet(q) = {} =>
                 IsInjective(<<x, y>> \o q)
<1> DEFINE r == <<y>> \o q
<1>1. /\ r \in Seq(S) /\ ToSet(r) = ToSet(q) \cup {y}
      /\ IsInjective(q) /\ y \notin ToSet(q) => IsInjective(r)
  BY AddedAtHead
<1>2. <<x, y>> \o q = <<x>> \o r
  <2>1. <<x>> \in Seq(S) /\ <<y>> \in Seq(S)
    OBVIOUS
  <2>2. <<x>> \o <<y>> = <<x, y>>
    <3> DEFINE c == <<x>> \o <<y>>
    <3>1. c \in Seq(S) /\ Len(c) = 2 /\ c[1] = x /\ c[2] = y
      OBVIOUS
    <3>2. <<x, y>> \in Seq(S) /\ Len(<<x, y>>) = 2
      OBVIOUS
    <3> HIDE DEF c
    <3>3. \A i \in 1 .. 2 : c[i] = <<x, y>>[i]
      BY <3>1
    <3>4. c = <<x, y>>
      BY <3>1, <3>2, <3>3, SeqEqual
    <3> QED  BY <3>4 DEF c
  <2>3. (<<x>> \o <<y>>) \o q = <<x>> \o (<<y>> \o q)
    BY <2>1, ConcatAssociative
  <2> QED  BY <2>2, <2>3, Zenon
<1>3. <<x, y>> \o q # <<>>
  OBVIOUS
<1> HIDE DEF r
<1>4. /\ <<x>> \o r \in Seq(S) /\ ToSet(<<x>> \o r) = ToSet(r) \cup {x}
      /\ IsInjective(r) /\ x \notin ToSet(r) => IsInjective(<<x>> \o r)
  BY <1>1, AddedAtHead
<1> QED  BY <1>1, <1>2, <1>3, <1>4

---------------------------------------------------------------------------
(* Sizes and orders.                                                       *)

LEMMA BlockSizeIs ==
    /\ BlockSize \in [0 .. PoolSize -> Nat]
    /\ BlockSize[0] = MinBlock
    /\ \A o \in 1 .. PoolSize : BlockSize[o] = 2 * BlockSize[o - 1]
<1> DEFINE step == [x \in Nat \X (1 .. PoolSize) |-> 2 * x[1]]
           Is(g) == g = [order \in 0 .. PoolSize |->
                            IF order = 0 THEN MinBlock ELSE 2 * g[order - 1]]
<1>1. step \in [Nat \X (1 .. PoolSize) -> Nat] /\ MinBlock \in Nat /\ PoolSize \in Nat
  BY PoolAssumption
<1>2. \A v \in Nat, k \in 1 .. PoolSize : step[<<v, k>>] = 2 * v
  OBVIOUS
<1> HIDE DEF step, Is
<1>0. PICK g : Iterates(g, Nat, MinBlock, PoolSize, step)
  BY <1>1, Iterated
<1>3. /\ g \in [0 .. PoolSize -> Nat] /\ g[0] = MinBlock
      /\ \A k \in 1 .. PoolSize : g[k] = step[<<g[k - 1], k>>]
  BY <1>0 DEF Iterates
<1>4. ASSUME NEW k \in 1 .. PoolSize
      PROVE  k - 1 \in 0 .. PoolSize /\ g[k] = 2 * g[k - 1]
  <2>1. k - 1 \in 0 .. PoolSize
    BY <1>1
  <2>2. g[k - 1] \in Nat /\ g[k] = step[<<g[k - 1], k>>]
    BY <1>3, <2>1
  <2> QED  BY <1>2, <2>1, <2>2
<1>5. Is(g)
  <2>1. \A k \in 0 .. PoolSize : g[k] = IF k = 0 THEN MinBlock ELSE 2 * g[k - 1]
    BY <1>1, <1>3, <1>4
  <2>2. g = [k \in 0 .. PoolSize |-> g[k]]
    BY <1>3
  <2> QED  BY <2>1, <2>2 DEF Is
<1>6. Is(BlockSize)
  <2>1. Is(CHOOSE h : Is(h))
    BY <1>5, Zenon
  <2> USE DEF Is
  <2>2. BlockSize = CHOOSE h : Is(h)
    BY DEF BlockSize
  <2> HIDE DEF Is
  <2> QED  BY <2>1, <2>2, Zenon
<1>7. \A k \in 1 .. PoolSize : k - 1 \in 0 .. PoolSize
  BY <1>1
<1>8. /\ BlockSize[0] = MinBlock
      /\ \A o \in 1 .. PoolSize : BlockSize[o] = 2 * BlockSize[o - 1]
  <2>1. BlockSize = [o \in 0 .. PoolSize |->
                       IF o = 0 THEN MinBlock ELSE 2 * BlockSize[o - 1]]
    BY <1>6 DEF Is
  <2>2. \A o \in 0 .. PoolSize :
           BlockSize[o] = IF o = 0 THEN MinBlock ELSE 2 * BlockSize[o - 1]
    BY <2>1, Zenon
  <2>3. 0 \in 0 .. PoolSize /\ \A o \in 1 .. PoolSize : o \in 0 .. PoolSize /\ o # 0
    BY <1>1
  <2> QED  BY <2>2, <2>3
<1>11. BlockSize = [o \in 0 .. PoolSize |-> BlockSize[o]]
  BY <1>6, Zenon DEF Is
<1> DEFINE P == {k \in 0 .. PoolSize : BlockSize[k] \in Nat}
<1>9. 0 \in P /\ \A k \in 1 .. PoolSize : k - 1 \in P => k \in P
  <2>1. 0 \in 0 .. PoolSize /\ \A k \in 1 .. PoolSize : k \in 0 .. PoolSize
    BY <1>1
  <2>2. \A k \in 1 .. PoolSize : BlockSize[k - 1] \in Nat => BlockSize[k] \in Nat
    BY <1>8
  <2>3. BlockSize[0] \in Nat
    BY <1>1, <1>8
  <2> QED  BY <2>1, <2>2, <2>3
<1>10. \A k \in 0 .. PoolSize : BlockSize[k] \in Nat
  <2> HIDE DEF P
  <2>1. \A k \in 0 .. PoolSize : k \in P
    BY <1>1, <1>9, UpToN
  <2> QED  BY <2>1 DEF P
<1> QED  BY <1>8, <1>10, <1>11

\* No size is below that of the smallest block.
LEMMA BlockSizePositive == \A o \in 0 .. PoolSize : BlockSize[o] >= MinBlock /\ BlockSize[o] > 0
<1> DEFINE P == {k \in 0 .. PoolSize : BlockSize[k] >= MinBlock}
<1>1. 0 \in P /\ \A k \in 1 .. PoolSize : k - 1 \in P => k \in P
  <2>1. 0 \in P
    BY BlockSizeIs, PoolAssumption
  <2>2. ASSUME NEW k \in 1 .. PoolSize, k - 1 \in P PROVE k \in P
    <3>1. k - 1 \in 0 .. PoolSize /\ k \in 0 .. PoolSize /\ BlockSize[k - 1] >= MinBlock
      BY <2>2, PoolAssumption
    <3>2. BlockSize[k] = 2 * BlockSize[k - 1] /\ BlockSize[k - 1] \in Nat
      BY <3>1, BlockSizeIs
    <3>3. BlockSize[k] >= MinBlock
      BY <3>1, <3>2, PoolAssumption
    <3> QED  BY <3>1, <3>3
  <2> QED  BY <2>1, <2>2
<1> HIDE DEF P
<1>2. \A k \in 0 .. PoolSize : k \in P
  BY <1>1, PoolAssumption, UpToN
<1>3. \A k \in 0 .. PoolSize : BlockSize[k] >= MinBlock /\ BlockSize[k] \in Nat
  BY <1>2, BlockSizeIs DEF P
<1> QED  BY <1>3, PoolAssumption

LEMMA MaxOrderIs ==
    /\ MaxOrder \in 0 .. PoolSize /\ BlockSize[MaxOrder] <= PoolSize
    /\ 0 .. MaxOrder \subseteq 0 .. PoolSize
<1> DEFINE S == {o \in 0 .. PoolSize : BlockSize[o] <= PoolSize}
<1>1. S \in SUBSET (0 .. PoolSize) /\ 0 \in S /\ PoolSize \in Nat
  BY BlockSizeIs, PoolAssumption
<1>2. MaxOrder = Max(S)
  BY DEF MaxOrder
<1> HIDE DEF S
<1>3. MaxOrder \in S
  BY <1>1, <1>2, MaxIsGreatest
<1> QED  BY <1>1, <1>3 DEF S

\* calculate_order yields the smallest order that is large enough, if there
\* is one.
LEMMA OrderIsLeast ==
    ASSUME NEW size \in Nat
    PROVE  /\ CalculateOrder(size) \in 0 .. MaxOrder
           /\ CalculateOrder(size) # MaxOrder => BlockSize[CalculateOrder(size)] >= size
           /\ \A o \in 0 .. MaxOrder :
                 o < CalculateOrder(size) => BlockSize[o] < size
<1> DEFINE S == {MaxOrder} \cup {o \in 0 .. MaxOrder : BlockSize[o] >= size}
<1>1. S \in SUBSET Nat /\ S # {} /\ MaxOrder \in Nat
  BY MaxOrderIs
<1>2. CalculateOrder(size) = Min(S)
  BY DEF CalculateOrder
<1> HIDE DEF S
<1>3. CalculateOrder(size) \in S /\ \A k \in S : CalculateOrder(size) <= k
  BY <1>1, <1>2, MinIsLeast
<1>4. ASSUME NEW o \in 0 .. MaxOrder, o < CalculateOrder(size)
      PROVE  BlockSize[o] < size
  <2>1. o \notin S
    <3>1. o \in Int /\ CalculateOrder(size) \in Int
      <4>1. CalculateOrder(size) \in Nat
        BY <1>1, <1>3, Zenon
      <4> QED  BY <1>1, <4>1
    <3>2. ~(CalculateOrder(size) <= o)
      BY <1>4, <3>1
    <3> QED  BY <1>3, <3>2
  <2>2. BlockSize[o] \in Nat
    BY BlockSizeIs, MaxOrderIs
  <2> QED  BY <2>1, <2>2 DEF S
<1> QED  BY <1>1, <1>3, <1>4 DEF S

---------------------------------------------------------------------------
(* Blocks.                                                                 *)

AnyBlock == [addr : Nat, size : Nat, buddy : Nat, is_free : BOOLEAN]
FreeLists == [0 .. MaxOrder -> Seq(AnyBlock)]

LEMMA TwoParts ==
    ASSUME NEW a \in Nat, NEW z \in Nat, NEW h \in Nat, h > 0, 2 * h <= z
    PROVE  /\ a .. a + h - 1 \subseteq a .. a + z - 1
           /\ a + h .. a + h + h - 1 \subseteq a .. a + z - 1
           /\ (a .. a + h - 1) \cap (a + h .. a + h + h - 1) = {}
           /\ 2 * h = z => a .. a + z - 1 \subseteq (a .. a + h - 1) \cup (a + h .. a + h + h - 1)
OBVIOUS

\* The halves of a block, which is at least two bytes long, share its bytes.
LEMMA Halves ==
    ASSUME NEW b \in AnyBlock, b.size >= 2
    PROVE  /\ Left(b) \in AnyBlock /\ Right(b) \in AnyBlock
           /\ Left(b).is_free = b.is_free /\ Right(b).is_free = b.is_free
           /\ Left(b).size = b.size \div 2 /\ Right(b).size = b.size \div 2
           /\ Left(b).size > 0 /\ Left(b).size < b.size /\ 2 * Left(b).size <= b.size
           /\ Left(b).addr = b.addr /\ Right(b).addr = b.addr + b.size \div 2
           /\ Left(b).buddy = b.addr + b.size \div 2 /\ Right(b).buddy = b.addr
           /\ Cover(Left(b)) \subseteq Cover(b) /\ Cover(Right(b)) \subseteq Cover(b)
           /\ Cover(Left(b)) \cap Cover(Right(b)) = {}
           /\ 2 * Left(b).size = b.size =>
                 Cover(b) \subseteq Cover(Left(b)) \cup Cover(Right(b))
<1>1. PICK a \in Nat, z \in Nat, y \in Nat, f \in BOOLEAN :
        b = [addr |-> a, size |-> z, buddy |-> y, is_free |-> f]
  BY DEF AnyBlock
<1>2. PICK h : h = z \div 2
  OBVIOUS
<1>3. h \in Nat /\ h > 0 /\ h < z /\ 2 * h <= z
  BY <1>1, <1>2
<1>4. b.addr = a /\ b.size = z /\ b.buddy = y /\ b.is_free = f
  BY <1>1
<1>5. Left(b) = [addr |-> a, size |-> h, buddy |-> a + h, is_free |-> f]
  <2>1. Left(b) = [b EXCEPT !.size = b.size \div 2, !.buddy = b.addr + b.size \div 2]
    BY DEF Left
  <2>2. Left(b) = [b EXCEPT !.size = h, !.buddy = a + h]
    BY <1>2, <1>4, <2>1
  <2> QED  BY <1>1, <2>2
<1>6. Right(b) = [addr |-> a + h, size |-> h, buddy |-> a, is_free |-> f]
  <2>1. Right(b) = [b EXCEPT !.size = b.size \div 2, !.buddy = b.addr,
                             !.addr = b.addr + b.size \div 2]
    BY DEF Right
  <2>2. Right(b) = [b EXCEPT !.size = h, !.buddy = a, !.addr = a + h]
    BY <1>2, <1>4, <2>1
  <2> QED  BY <1>1, <2>2
<1>7. Left(b) \in AnyBlock /\ Right(b) \in AnyBlock
  BY <1>3, <1>5, <1>6 DEF AnyBlock
<1>8. /\ Cover(b) = a .. a + z - 1
      /\ Cover(Left(b)) = a .. a + h - 1
      /\ Cover(Right(b)) = a + h .. a + h + h - 1
  BY <1>4, <1>5, <1>6 DEF Cover
<1>9. /\ Cover(Left(b)) \subseteq Cover(b) /\ Cover(Right(b)) \subseteq Cover(b)
      /\ Cover(Left(b)) \cap Cover(Right(b)) = {}
      /\ 2 * h = z => Cover(b) \subseteq Cover(Left(b)) \cup Cover(Right(b))
  BY <1>3, <1>8, TwoParts
<1> QED  BY <1>2, <1>3, <1>4, <1>5, <1>6, <1>7, <1>9

LEMMA HalvesTyped ==
    ASSUME NEW b \in AnyBlock
    PROVE  Left(b) \in AnyBlock /\ Right(b) \in AnyBlock
<1>1. b.addr \in Nat /\ b.size \in Nat /\ b.size \div 2 \in Nat /\ b.addr + b.size \div 2 \in Nat
  BY DEF AnyBlock
<1>2. Left(b) = [b EXCEPT !.size = b.size \div 2, !.buddy = b.addr + b.size \div 2]
  BY DEF Left
<1>3. Right(b) = [b EXCEPT !.size = b.size \div 2, !.buddy = b.addr,
                           !.addr = b.addr + b.size \div 2]
  BY DEF Right
<1>4. \A h, a \in Nat : [b EXCEPT !.size = h, !.buddy = a] \in AnyBlock
  BY <1>1 DEF AnyBlock
<1>5. \A h, a \in Nat : [b EXCEPT !.size = h, !.buddy = b.addr, !.addr = a] \in AnyBlock
  BY <1>1 DEF AnyBlock
<1>6. Left(b) \in AnyBlock
  BY <1>1, <1>2, <1>4
<1>7. Right(b) \in AnyBlock
  BY <1>1, <1>3, <1>5
<1> QED  BY <1>6, <1>7

\* Blocks without common bytes stay so when one makes room for parts of it.
LEMMA PartsApart ==
    ASSUME NEW S, \A c, d \in S : c # d => Cover(c) \cap Cover(d) = {},
           NEW b \in S, NEW N, \A c \in N : Cover(c) \subseteq Cover(b),
           \A c, d \in N : c # d => Cover(c) \cap Cover(d) = {}
    PROVE  \A c, d \in (S \ {b}) \cup N : c # d => Cover(c) \cap Cover(d) = {}
<1>1. ASSUME NEW c \in S \ {b}, NEW d \in N PROVE Cover(c) \cap Cover(d) = {}
  <2>1. Cover(c) \cap Cover(b) = {} /\ Cover(d) \subseteq Cover(b)
    OBVIOUS
  <2> QED  BY <2>1
<1>2. ASSUME NEW c \in (S \ {b}) \cup N, NEW d \in (S \ {b}) \cup N, c # d
      PROVE  Cover(c) \cap Cover(d) = {}
  BY <1>1, <1>2
<1> QED  BY <1>2

\* A part of a block is not among the blocks.
LEMMA PartIsNew ==
    ASSUME NEW S, \A c, d \in S : c # d => Cover(c) \cap Cover(d) = {},
           NEW b \in S, NEW c, Cover(c) \subseteq Cover(b), Cover(c) # {}, c # b
    PROVE  c \notin S
OBVIOUS

LEMMA ListedIs ==
    ASSUME NEW fl \in FreeLists
    PROVE  \A b : b \in Listed(fl) <=> \E o \in 0 .. MaxOrder : b \in ToSet(fl[o])
<1>1. DOMAIN fl = 0 .. MaxOrder
  BY DEF FreeLists
<1> QED  BY <1>1 DEF Listed

LEMMA ListedTyped ==
    ASSUME NEW fl \in FreeLists
    PROVE  Listed(fl) \subseteq AnyBlock
<1>1. ASSUME NEW q \in Seq(AnyBlock) PROVE ToSet(q) \subseteq AnyBlock
  BY DEF ToSet
<1>2. \A o \in 0 .. MaxOrder : fl[o] \in Seq(AnyBlock)
  BY DEF FreeLists
<1> QED  BY <1>1, <1>2, ListedIs

LEMMA SplitIs ==
    ASSUME NEW fl \in FreeLists, NEW o \in 1 .. MaxOrder, fl[o] # <<>>
    PROVE  /\ o - 1 \in 0 .. MaxOrder /\ o \in 0 .. MaxOrder /\ o - 1 # o
           /\ SplitBlock(fl, o)[o] = Tail(fl[o])
           /\ SplitBlock(fl, o)[o - 1] = <<Right(Head(fl[o])), Left(Head(fl[o]))>> \o fl[o - 1]
           /\ \A q \in 0 .. MaxOrder : q # o /\ q # o - 1 => SplitBlock(fl, o)[q] = fl[q]
           /\ Head(fl[o]) \in AnyBlock
           /\ SplitBlock(fl, o) \in FreeLists
<1>1. o - 1 \in 0 .. MaxOrder /\ o \in 0 .. MaxOrder /\ o # 0 /\ o - 1 # o
  BY MaxOrderIs
<1>2. /\ DOMAIN fl = 0 .. MaxOrder
      /\ \A q \in 0 .. MaxOrder : fl[q] \in Seq(AnyBlock)
  BY DEF FreeLists
<1>3. Head(fl[o]) \in AnyBlock /\ Tail(fl[o]) \in Seq(AnyBlock)
  BY <1>1, <1>2
<1> DEFINE new == SplitBlock(fl, o)
           two == <<Right(Head(fl[o])), Left(Head(fl[o]))>>
<1>4. new = [fl EXCEPT ![o] = Tail(fl[o]), ![o - 1] = two \o fl[o - 1]]
  BY <1>1 DEF SplitBlock
<1>5. two \o fl[o - 1] \in Seq(AnyBlock)
  BY <1>1, <1>2, <1>3, HalvesTyped, TwoAtHead
<1> HIDE DEF new, two
<1>6. /\ DOMAIN new = 0 .. MaxOrder /\ new[o] = Tail(fl[o]) /\ new[o - 1] = two \o fl[o - 1]
      /\ \A q \in 0 .. MaxOrder : q # o /\ q # o - 1 => new[q] = fl[q]
      /\ new = [q \in 0 .. MaxOrder |-> new[q]]
  BY <1>1, <1>2, <1>4
<1>7. \A q \in 0 .. MaxOrder : new[q] \in Seq(AnyBlock)
  BY <1>2, <1>3, <1>5, <1>6
<1>8. new \in FreeLists
  BY <1>6, <1>7 DEF FreeLists
<1> QED  BY <1>1, <1>3, <1>6, <1>8 DEF new, two

LEMMA SplitTyped ==
    ASSUME NEW fl \in FreeLists, NEW o \in 1 .. MaxOrder
    PROVE  SplitBlock(fl, o) \in FreeLists
<1>1. CASE fl[o] = <<>>
  BY <1>1 DEF SplitBlock
<1>2. CASE fl[o] # <<>>
  BY <1>2, SplitIs
<1> QED  BY <1>1, <1>2

---------------------------------------------------------------------------
(* What splitting and taking blocks leaves as it is.                       *)

\* Listed blocks are free and at least as large as their order says; the
\* memory as a whole is of the highest order.
Sized(fl) ==
    \A o \in 0 .. MaxOrder : \A b \in ToSet(fl[o]) :
        /\ b.is_free /\ b.size >= BlockSize[o]
        /\ o = MaxOrder => b.size = PoolSize

Inside(blocks) ==
    \A b \in blocks : b.size > 0 /\ b.addr + b.size <= PoolSize /\ b.buddy <= PoolSize

\* The size of the memory is that of the highest order.
PowerOfTwo == PoolSize = BlockSize[MaxOrder]

\* In such a memory no byte is lost, and blocks are as large as their order
\* says.
Exact(fl, given) ==
    PowerOfTwo =>
        /\ \A o \in 0 .. MaxOrder : \A b \in ToSet(fl[o]) : b.size = BlockSize[o]
        /\ \A x \in 0 .. PoolSize - 1 : \E b \in Listed(fl) \cup given : x \in Cover(b)

Sound(fl, given) ==
    /\ fl \in FreeLists /\ given \subseteq AnyBlock
    /\ \A g \in given : ~g.is_free
    /\ LieApart(fl, given) /\ Sized(fl)
    /\ Inside(Listed(fl) \cup given) /\ Exact(fl, given)

LEMMA SoundAtFirst == Sound(AllFree, {})
<1> DEFINE all == [addr |-> 0, size |-> PoolSize, buddy |-> NoBuddy, is_free |-> TRUE]
<1>1. /\ MaxOrder \in 0 .. PoolSize /\ PoolSize \in Nat /\ PoolSize > 0
      /\ BlockSize[MaxOrder] <= PoolSize /\ BlockSize[MaxOrder] \in Nat
  BY MaxOrderIs, BlockSizeIs, PoolAssumption
<1>2. all \in AnyBlock
  BY <1>1 DEF AnyBlock, NoBuddy
<1>3. /\ all.addr = 0 /\ all.size = PoolSize /\ all.buddy = PoolSize /\ all.is_free = TRUE
  BY DEF NoBuddy
<1>4. AllFree = [o \in 0 .. MaxOrder |-> IF o = MaxOrder THEN <<all>> ELSE <<>>]
  BY DEF AllFree
<1> HIDE DEF all
<1>5. /\ \A o \in 0 .. MaxOrder : AllFree[o] = IF o = MaxOrder THEN <<all>> ELSE <<>>
      /\ DOMAIN AllFree = 0 .. MaxOrder /\ MaxOrder \in 0 .. MaxOrder
  BY <1>1, <1>4
<1>6. <<all>> \in Seq(AnyBlock) /\ <<>> \in Seq(AnyBlock)
  BY <1>2
<1>7. AllFree \in FreeLists
  BY <1>4, <1>6 DEF FreeLists
<1>8. ToSet(<<all>>) = {all} /\ ToSet(<<>>) = {}
  BY DEF ToSet
<1>9. IsInjective(<<all>>) /\ IsInjective(<<>>)
  BY DEF IsInjective
<1>10. \A o \in 0 .. MaxOrder : ToSet(AllFree[o]) = IF o = MaxOrder THEN {all} ELSE {}
  BY <1>5, <1>8
<1>11. Listed(AllFree) = {all}
  BY <1>5, <1>7, <1>10, ListedIs
<1>12. LieApart(AllFree, {})
  BY <1>5, <1>9, <1>10, <1>11 DEF LieApart
<1>13. Sized(AllFree)
  BY <1>1, <1>3, <1>10 DEF Sized
<1>14. Inside(Listed(AllFree) \cup {})
  BY <1>1, <1>3, <1>11 DEF Inside
<1>15. Cover(all) = 0 .. PoolSize - 1
  BY <1>1, <1>3 DEF Cover
<1>16. Exact(AllFree, {})
  BY <1>3, <1>10, <1>11, <1>15 DEF Exact, PowerOfTwo
<1> QED  BY <1>7, <1>12, <1>13, <1>14, <1>16 DEF Sound

\* split_block loses no byte that it need not lose.
LEMMA SplitKeeps ==
    ASSUME NEW fl, NEW given, Sound(fl, given), NEW o \in 1 .. MaxOrder, fl[o] # <<>>
    PROVE  Sound(SplitBlock(fl, o), given) /\ SplitBlock(fl, o)[o - 1] # <<>>
<1>1. PICK new : new = SplitBlock(fl, o)
  OBVIOUS
<1>2. PICK b, l, r : b = Head(fl[o]) /\ l = Left(b) /\ r = Right(b)
  OBVIOUS
<1>3. fl \in FreeLists /\ given \subseteq AnyBlock
  BY DEF Sound
<1>4. /\ o - 1 \in 0 .. MaxOrder /\ o \in 0 .. MaxOrder /\ o - 1 # o
      /\ new[o] = Tail(fl[o]) /\ new[o - 1] = <<r, l>> \o fl[o - 1]
      /\ \A q \in 0 .. MaxOrder : q # o /\ q # o - 1 => new[q] = fl[q]
      /\ b \in AnyBlock /\ new \in FreeLists
  BY <1>1, <1>2, <1>3, SplitIs
<1>5. /\ \A q \in 0 .. MaxOrder : IsInjective(fl[q]) /\ fl[q] \in Seq(AnyBlock)
      /\ DOMAIN fl = 0 .. MaxOrder /\ DOMAIN new = 0 .. MaxOrder
  BY <1>3, <1>4 DEF Sound, LieApart, FreeLists
<1>6. /\ b \in ToSet(fl[o]) /\ ToSet(new[o]) = ToSet(fl[o]) \ {b}
      /\ IsInjective(new[o])
  BY <1>2, <1>4, <1>5, WithoutHead
<1>7. b \in Listed(fl)
  BY <1>3, <1>4, <1>6, ListedIs
<1> DEFINE S == Listed(fl) \cup given
<1>8. \A c, d \in S : c # d => Cover(c) \cap Cover(d) = {}
  BY DEF Sound, LieApart
<1>9. /\ BlockSize[o] = 2 * BlockSize[o - 1] /\ BlockSize[o - 1] \in Nat
      /\ BlockSize[o - 1] > 0
  BY <1>4, BlockSizeIs, BlockSizePositive, MaxOrderIs
<1>10. /\ b.size \in Nat /\ b.addr \in Nat /\ b.size >= BlockSize[o] /\ b.is_free
       /\ b.addr + b.size <= PoolSize
  BY <1>4, <1>6, <1>7 DEF Sound, Sized, Inside, AnyBlock
<1>11. b.size >= 2
  BY <1>9, <1>10
<1>12. /\ l \in AnyBlock /\ r \in AnyBlock
       /\ l.is_free = b.is_free /\ r.is_free = b.is_free
       /\ l.size = b.size \div 2 /\ r.size = b.size \div 2
       /\ l.size > 0 /\ l.size < b.size /\ 2 * l.size <= b.size
       /\ l.addr = b.addr /\ r.addr = b.addr + b.size \div 2
       /\ l.buddy = b.addr + b.size \div 2 /\ r.buddy = b.addr
       /\ Cover(l) \subseteq Cover(b) /\ Cover(r) \subseteq Cover(b)
       /\ Cover(l) \cap Cover(r) = {}
       /\ 2 * l.size = b.size => Cover(b) \subseteq Cover(l) \cup Cover(r)
  BY <1>2, <1>4, <1>11, Halves
<1>13. /\ l.size \in Nat /\ r.size = l.size /\ r.addr = b.addr + l.size
       /\ l.buddy = b.addr + l.size /\ r.size # b.size /\ l.size # b.size
  BY <1>10, <1>12 DEF AnyBlock
<1>14. Cover(l) # {} /\ Cover(r) # {}
  <2>1. l.addr \in Cover(l)
    BY <1>10, <1>12, <1>13 DEF Cover
  <2>2. r.addr \in Cover(r)
    BY <1>10, <1>12, <1>13 DEF Cover
  <2> QED  BY <2>1, <2>2
<1>15. l # r /\ l # b /\ r # b
  BY <1>12, <1>13, <1>14
<1>16. l \notin S /\ r \notin S
  <2>1. b \in S
    BY <1>7
  <2> HIDE DEF S
  <2> QED  BY <1>8, <1>12, <1>14, <1>15, <2>1, PartIsNew
<1>17. {l, r} \cap ToSet(fl[o - 1]) = {}
  BY <1>3, <1>4, <1>16, ListedIs
<1>18. /\ ToSet(new[o - 1]) = ToSet(fl[o - 1]) \cup {r, l} /\ IsInjective(new[o - 1])
       /\ new[o - 1] # <<>>
  BY <1>4, <1>5, <1>12, <1>15, <1>17, TwoAtHead
<1>19. \A q \in 0 .. MaxOrder : q # o => b \notin ToSet(fl[q])
  BY <1>4, <1>5, <1>6 DEF Sound, LieApart
<1>20. Listed(new) = (Listed(fl) \ {b}) \cup {l, r}
  <2>1. ASSUME NEW x \in Listed(new) PROVE x \in (Listed(fl) \ {b}) \cup {l, r}
    <3>1. PICK q \in 0 .. MaxOrder : x \in ToSet(new[q])
      BY <1>4, ListedIs
    <3>2. CASE q = o
      BY <1>3, <1>6, <3>1, <3>2, ListedIs
    <3>3. CASE q = o - 1
      BY <1>3, <1>4, <1>18, <1>19, <3>1, <3>3, ListedIs
    <3>4. CASE q # o /\ q # o - 1
      BY <1>3, <1>4, <1>19, <3>1, <3>4, ListedIs
    <3> QED  BY <3>2, <3>3, <3>4
  <2>2. ASSUME NEW x \in Listed(fl), x # b PROVE x \in Listed(new)
    <3>1. PICK q \in 0 .. MaxOrder : x \in ToSet(fl[q])
      BY <1>3, ListedIs
    <3>2. x \in ToSet(new[q])
      <4>1. CASE q = o
        BY <1>6, <2>2, <3>1, <4>1
      <4>2. CASE q = o - 1
        BY <1>18, <3>1, <4>2
      <4>3. CASE q # o /\ q # o - 1
        BY <1>4, <3>1, <4>3
      <4> QED  BY <4>1, <4>2, <4>3
    <3> QED  BY <1>4, <3>2, ListedIs
  <2>3. l \in Listed(new) /\ r \in Listed(new)
    BY <1>4, <1>18, ListedIs
  <2> QED  BY <2>1, <2>2, <2>3
<1>21. b \notin given
  BY <1>7 DEF Sound, LieApart
<1>22. LieApart(new, given)
  <2>1. \A q \in 0 .. MaxOrder : IsInjective(new[q])
    BY <1>4, <1>5, <1>6, <1>18
  <2>2. ASSUME NEW p \in 0 .. MaxOrder, NEW q \in 0 .. MaxOrder, p # q
        PROVE  ToSet(new[p]) \cap ToSet(new[q]) = {}
    <3>0. ToSet(fl[p]) \cap ToSet(fl[q]) = {}
      BY <1>5, <2>2 DEF Sound, LieApart
    <3>1. \A n \in 0 .. MaxOrder : l \notin ToSet(fl[n]) /\ r \notin ToSet(fl[n])
      BY <1>3, <1>16, ListedIs
    <3>2. \A n \in 0 .. MaxOrder : \/ n = o - 1 /\ ToSet(new[n]) = ToSet(fl[n]) \cup {r, l}
                                   \/ n # o - 1 /\ ToSet(new[n]) \subseteq ToSet(fl[n])
      BY <1>4, <1>6, <1>18
    <3> QED  BY <2>2, <3>0, <3>1, <3>2
  <2>3. Listed(new) \cap given = {}
    BY <1>16, <1>20 DEF Sound, LieApart
  <2>4. \A c, d \in (S \ {b}) \cup {l, r} : c # d => Cover(c) \cap Cover(d) = {}
    <3>1. /\ b \in S /\ \A c \in {l, r} : Cover(c) \subseteq Cover(b)
          /\ \A c, d \in {l, r} : c # d => Cover(c) \cap Cover(d) = {}
      BY <1>7, <1>12
    <3> HIDE DEF S
    <3> QED  BY <1>8, <3>1, PartsApart
  <2>5. Listed(new) \cup given = (S \ {b}) \cup {l, r}
    BY <1>20, <1>21
  <2>6. \A c, d \in Listed(new) \cup given : c # d => Cover(c) \cap Cover(d) = {}
    BY <2>4, <2>5
  <2> QED  BY <1>5, <2>1, <2>2, <2>3, <2>6 DEF LieApart
<1>23. Sized(new)
  <2>1. /\ l.size >= BlockSize[o - 1] /\ r.size >= BlockSize[o - 1] /\ o - 1 # MaxOrder
    <3>1. 2 * BlockSize[o - 1] <= b.size /\ b.size < 2 * (b.size \div 2) + 2
      BY <1>9, <1>10
    <3>2. b.size < 2 * l.size + 2
      BY <1>12, <3>1
    <3>3. o - 1 # MaxOrder
      BY MaxOrderIs
    <3>4. \A m, n, z \in Nat : 2 * m <= z /\ z < 2 * n + 2 => n >= m
      OBVIOUS
    <3>5. l.size >= BlockSize[o - 1]
      BY <1>9, <1>10, <1>13, <3>1, <3>2, <3>4
    <3> QED  BY <1>13, <3>3, <3>5
  <2>2. \A q \in 0 .. MaxOrder : \A c \in ToSet(new[q]) :
           c \in ToSet(fl[q]) \/ (q = o - 1 /\ c \in {l, r})
    BY <1>4, <1>6, <1>18
  <2> QED  BY <1>10, <1>12, <2>1, <2>2 DEF Sound, Sized
<1>24. Inside(Listed(new) \cup given)
  <2>1. PoolSize \in Nat
    BY PoolAssumption
  <2>2. /\ l.addr + l.size <= PoolSize /\ r.addr + r.size <= PoolSize
        /\ l.buddy <= PoolSize /\ r.buddy <= PoolSize
    BY <1>10, <1>12, <1>13, <2>1
  <2> QED  BY <1>12, <1>13, <1>20, <2>2 DEF Sound, Inside
<1>25. Exact(new, given)
  <2>1. SUFFICES ASSUME PowerOfTwo
                 PROVE  /\ \A q \in 0 .. MaxOrder : \A c \in ToSet(new[q]) : c.size = BlockSize[q]
                        /\ \A x \in 0 .. PoolSize - 1 :
                              \E c \in Listed(new) \cup given : x \in Cover(c)
    BY DEF Exact
  <2>2. /\ \A q \in 0 .. MaxOrder : \A c \in ToSet(fl[q]) : c.size = BlockSize[q]
        /\ \A x \in 0 .. PoolSize - 1 : \E c \in Listed(fl) \cup given : x \in Cover(c)
    BY <2>1 DEF Sound, Exact
  <2>3. l.size = BlockSize[o - 1] /\ 2 * l.size = b.size
    BY <1>4, <1>6, <1>9, <1>12, <2>2
  <2>4. \A q \in 0 .. MaxOrder : \A c \in ToSet(new[q]) :
           c \in ToSet(fl[q]) \/ (q = o - 1 /\ c \in {l, r})
    BY <1>4, <1>6, <1>18
  <2>5. \A q \in 0 .. MaxOrder : \A c \in ToSet(new[q]) : c.size = BlockSize[q]
    BY <1>13, <2>2, <2>3, <2>4
  <2>6. ASSUME NEW x \in 0 .. PoolSize - 1
        PROVE  \E c \in Listed(new) \cup given : x \in Cover(c)
    <3>1. PICK c \in Listed(fl) \cup given : x \in Cover(c)
      BY <2>2
    <3>2. CASE c = b
      BY <1>12, <1>20, <2>3, <3>1, <3>2
    <3>3. CASE c # b
      BY <1>20, <3>1, <3>3
    <3> QED  BY <3>2, <3>3
  <2> QED  BY <2>5, <2>6
<1>26. Sound(new, given)
  BY <1>3, <1>4, <1>22, <1>23, <1>24, <1>25 DEF Sound
<1> QED  BY <1>1, <1>18, <1>26

FirstBlock(fl, o) == [Head(fl[o]) EXCEPT !.is_free = FALSE]
OtherBlocks(fl, o) == [fl EXCEPT ![o] = Tail(@)]

\* Taking the first block of a list: it has as many bytes as were asked for,
\* if its list is the one for that size.
LEMMA TakeKeeps ==
    ASSUME NEW fl, NEW given, Sound(fl, given), NEW o \in 0 .. MaxOrder, fl[o] # <<>>,
           NEW b, b = FirstBlock(fl, o)
    PROVE  /\ Sound(OtherBlocks(fl, o), given \cup {b})
           /\ b \in AnyBlock /\ b \notin given /\ b.size > 0
           /\ b.size = Head(fl[o]).size /\ Head(fl[o]) \in ToSet(fl[o])
<1>1. PICK h : h = Head(fl[o])
  OBVIOUS
<1>2. PICK new : new = OtherBlocks(fl, o)
  OBVIOUS
<1>3. fl \in FreeLists /\ given \subseteq AnyBlock /\ \A g \in given : ~g.is_free
  BY DEF Sound
<1>4. /\ \A q \in 0 .. MaxOrder : IsInjective(fl[q]) /\ fl[q] \in Seq(AnyBlock)
      /\ DOMAIN fl = 0 .. MaxOrder
  BY <1>3 DEF Sound, LieApart, FreeLists
<1>5. /\ h \in ToSet(fl[o]) /\ Tail(fl[o]) \in Seq(AnyBlock)
      /\ ToSet(Tail(fl[o])) = ToSet(fl[o]) \ {h} /\ IsInjective(Tail(fl[o]))
  BY <1>1, <1>4, WithoutHead
<1>6. /\ DOMAIN new = 0 .. MaxOrder /\ new[o] = Tail(fl[o])
      /\ \A q \in 0 .. MaxOrder : q # o => new[q] = fl[q]
      /\ new = [q \in 0 .. MaxOrder |-> new[q]]
  BY <1>2, <1>4 DEF OtherBlocks
<1>7. new \in FreeLists
  <2>1. \A q \in 0 .. MaxOrder : new[q] \in Seq(AnyBlock)
    BY <1>4, <1>5, <1>6
  <2> QED  BY <1>6, <2>1 DEF FreeLists
<1>8. h \in Listed(fl) /\ h \in AnyBlock
  BY <1>3, <1>5, ListedIs, ListedTyped
<1>9. /\ h.is_free /\ h.size > 0 /\ h.addr + h.size <= PoolSize /\ h.buddy <= PoolSize
  BY <1>5, <1>8 DEF Sound, Sized, Inside
<1>10. /\ b \in AnyBlock /\ ~b.is_free /\ b.size = h.size /\ b.addr = h.addr
       /\ b.buddy = h.buddy /\ b # h
  BY <1>1, <1>8, <1>9 DEF AnyBlock, FirstBlock
<1>11. Cover(b) = Cover(h) /\ Cover(b) # {}
  <2>1. Cover(b) = Cover(h)
    BY <1>10 DEF Cover
  <2>2. h.addr \in Cover(h)
    BY <1>8, <1>9 DEF Cover, AnyBlock
  <2> QED  BY <2>1, <2>2
<1> DEFINE S == Listed(fl) \cup given
<1>12. \A c, d \in S : c # d => Cover(c) \cap Cover(d) = {}
  BY DEF Sound, LieApart
<1>13. b \notin S
  <2>1. h \in S
    BY <1>8
  <2> HIDE DEF S
  <2> QED  BY <1>10, <1>11, <1>12, <2>1, PartIsNew
<1>14. \A q \in 0 .. MaxOrder : q # o => h \notin ToSet(fl[q])
  BY <1>4, <1>5 DEF Sound, LieApart
<1>15. Listed(new) = Listed(fl) \ {h}
  <2>1. ASSUME NEW x \in Listed(new) PROVE x \in Listed(fl) /\ x # h
    <3>1. PICK q \in 0 .. MaxOrder : x \in ToSet(new[q])
      BY <1>7, ListedIs
    <3>2. x \in ToSet(fl[q]) /\ x # h
      BY <1>5, <1>6, <1>14, <3>1
    <3> QED  BY <1>3, <3>2, ListedIs
  <2>2. ASSUME NEW x \in Listed(fl), x # h PROVE x \in Listed(new)
    <3>1. PICK q \in 0 .. MaxOrder : x \in ToSet(fl[q])
      BY <1>3, ListedIs
    <3>2. x \in ToSet(new[q])
      BY <1>5, <1>6, <2>2, <3>1
    <3> QED  BY <1>7, <3>2, ListedIs
  <2> QED  BY <2>1, <2>2
<1>16. \A q \in 0 .. MaxOrder : ToSet(new[q]) \subseteq ToSet(fl[q]) /\ IsInjective(new[q])
  BY <1>4, <1>5, <1>6
<1>17. h \notin given
  BY <1>3, <1>9
<1>18. Listed(new) \cup (given \cup {b}) = (S \ {h}) \cup {b}
  BY <1>15, <1>17
<1>19. LieApart(new, given \cup {b})
  <2>1. \A c, d \in (S \ {h}) \cup {b} : c # d => Cover(c) \cap Cover(d) = {}
    <3>1. /\ h \in S /\ \A c \in {b} : Cover(c) \subseteq Cover(h)
          /\ \A c, d \in {b} : c # d => Cover(c) \cap Cover(d) = {}
      BY <1>8, <1>11
    <3> HIDE DEF S
    <3> QED  BY <1>12, <3>1, PartsApart
  <2>2. \A c, d \in Listed(new) \cup (given \cup {b}) :
           c # d => Cover(c) \cap Cover(d) = {}
    BY <1>18, <2>1
  <2>3. \A p, q \in 0 .. MaxOrder : p # q => ToSet(new[p]) \cap ToSet(new[q]) = {}
    <3>1. \A p, q \in 0 .. MaxOrder : p # q => ToSet(fl[p]) \cap ToSet(fl[q]) = {}
      BY <1>4 DEF Sound, LieApart
    <3> QED  BY <1>16, <3>1
  <2>4. Listed(new) \cap (given \cup {b}) = {}
    <3>1. Listed(fl) \cap given = {}
      BY DEF Sound, LieApart
    <3> QED  BY <1>13, <1>15, <3>1
  <2> QED  BY <1>6, <1>16, <2>2, <2>3, <2>4 DEF LieApart
<1>20. Sized(new)
  BY <1>16 DEF Sound, Sized
<1>21. Inside(Listed(new) \cup (given \cup {b}))
  BY <1>9, <1>10, <1>15 DEF Sound, Inside
<1>22. Exact(new, given \cup {b})
  <2>1. ASSUME PowerOfTwo, NEW x \in 0 .. PoolSize - 1
        PROVE  \E c \in Listed(new) \cup (given \cup {b}) : x \in Cover(c)
    <3>1. PICK c \in Listed(fl) \cup given : x \in Cover(c)
      BY <2>1 DEF Sound, Exact
    <3> QED  BY <1>11, <1>15, <3>1
  <2>2. ASSUME PowerOfTwo, NEW q \in 0 .. MaxOrder, NEW c \in ToSet(new[q])
        PROVE  c.size = BlockSize[q]
    BY <1>16, <2>2 DEF Sound, Exact
  <2> QED  BY <2>1, <2>2 DEF Exact
<1>23. Sound(new, given \cup {b})
  BY <1>3, <1>7, <1>10, <1>19, <1>20, <1>21, <1>22 DEF Sound
<1> QED  BY <1>1, <1>2, <1>5, <1>9, <1>10, <1>13, <1>23

\* The loop of allocate_buffer: after each split the next lower order has a
\* block.
LEMMA SplittingKeeps ==
    ASSUME NEW fl, NEW given, Sound(fl, given), NEW top \in 0 .. MaxOrder, fl[top] # <<>>,
           NEW k \in 0 .. top
    PROVE  /\ Sound(SplitDown(fl, top)[k], given)
           /\ SplitDown(fl, top)[k][top - k] # <<>>
<1>1. top \in Nat /\ MaxOrder \in Nat /\ fl \in FreeLists
  BY MaxOrderIs DEF Sound
<1> DEFINE step == [x \in FreeLists \X (1 .. top) |-> SplitBlock(x[1], top - x[2] + 1)]
           Is(g) == g = [j \in 0 .. top |->
                            IF j = 0 THEN fl ELSE SplitBlock(g[j - 1], top - j + 1)]
<1>2. \A j \in 1 .. top : top - j + 1 \in 1 .. MaxOrder
  BY <1>1
<1>3. step \in [FreeLists \X (1 .. top) -> FreeLists]
  <2>1. ASSUME NEW x \in FreeLists \X (1 .. top)
        PROVE  SplitBlock(x[1], top - x[2] + 1) \in FreeLists
    <3>1. x[1] \in FreeLists /\ x[2] \in 1 .. top
      OBVIOUS
    <3>2. top - x[2] + 1 \in 1 .. MaxOrder
      BY <1>2, <3>1
    <3> QED  BY <3>1, <3>2, SplitTyped
  <2> QED  BY <2>1
<1>4. \A x \in FreeLists, j \in 1 .. top : step[<<x, j>>] = SplitBlock(x, top - j + 1)
  OBVIOUS
<1> HIDE DEF step, Is
<1>5. PICK g : Iterates(g, FreeLists, fl, top, step)
  BY <1>1, <1>3, Iterated
<1>6. /\ g \in [0 .. top -> FreeLists] /\ g[0] = fl
      /\ \A j \in 1 .. top : g[j] = step[<<g[j - 1], j>>]
  BY <1>5 DEF Iterates
<1>7. \A j \in 1 .. top : j - 1 \in 0 .. top /\ j \in 0 .. top /\ j # 0
  BY <1>1
<1>8. \A j \in 1 .. top : g[j] = SplitBlock(g[j - 1], top - j + 1)
  BY <1>4, <1>6, <1>7
<1>9. Is(g)
  <2>1. \A j \in 0 .. top : g[j] = IF j = 0 THEN fl ELSE SplitBlock(g[j - 1], top - j + 1)
    <3>1. \A j \in 0 .. top : j = 0 \/ j \in 1 .. top
      BY <1>1
    <3> QED  BY <1>6, <1>8, <3>1
  <2>2. g = [j \in 0 .. top |-> g[j]]
    BY <1>6
  <2> QED  BY <2>1, <2>2 DEF Is
<1>10. PICK down : down = SplitDown(fl, top)
  OBVIOUS
<1>11. Is(down)
  <2>1. Is(CHOOSE h : Is(h))
    BY <1>9, Zenon
  <2>2. down = CHOOSE h : Is(h)
    BY <1>10 DEF SplitDown, Is
  <2> QED  BY <2>1, <2>2, Zenon
<1>12. \A j \in 0 .. top : down[j] = IF j = 0 THEN fl ELSE SplitBlock(down[j - 1], top - j + 1)
  BY <1>11, Zenon DEF Is
<1> DEFINE P == {j \in 0 .. top : Sound(down[j], given) /\ down[j][top - j] # <<>>}
<1>13. 0 \in P
  <2>1. 0 \in 0 .. top /\ top - 0 = top
    BY <1>1
  <2>2. down[0] = fl
    BY <1>12, <2>1
  <2> QED  BY <2>1, <2>2
<1>14. ASSUME NEW j \in 1 .. top, j - 1 \in P PROVE j \in P
  <2>1. /\ Sound(down[j - 1], given) /\ down[j - 1][top - (j - 1)] # <<>>
    BY <1>14
  <2>2. top - (j - 1) = top - j + 1 /\ top - j + 1 - 1 = top - j
    BY <1>1
  <2>3. down[j] = SplitBlock(down[j - 1], top - j + 1)
    BY <1>7, <1>12
  <2>4. Sound(down[j], given) /\ down[j][top - j + 1 - 1] # <<>>
    BY <1>2, <2>1, <2>2, <2>3, SplitKeeps
  <2> QED  BY <1>7, <2>2, <2>4
<1> HIDE DEF P
<1>15. k \in P
  BY <1>1, <1>13, <1>14, UpToN
<1> QED  BY <1>10, <1>15 DEF P

\* allocate_buffer yields nothing and changes nothing, or it yields a block
\* of its own that has room for what was asked for.
LEMMA AllocateKeeps ==
    ASSUME NEW fl, NEW given, Sound(fl, given), NEW size \in Nat,
           NEW a, a = AllocateBuffer(fl, size)
    PROVE  \/ /\ a.block = NoBlock /\ a.free = fl
              /\ size \in 1 .. PoolSize =>
                    \A o \in CalculateOrder(size) .. MaxOrder : fl[o] = <<>>
           \/ /\ a.block # NoBlock /\ a.block \in AnyBlock /\ a.block \notin given
              /\ a.block.size >= size /\ Sound(a.free, given \cup {a.block})
<1> DEFINE required == CalculateOrder(size)
           found == {o \in required .. MaxOrder : fl[o] # <<>>}
           split == SplitDown(fl, Min(found))[Min(found) - required]
<1>1. /\ required \in 0 .. MaxOrder /\ MaxOrder \in Nat /\ PoolSize \in Nat
      /\ required # MaxOrder => BlockSize[required] >= size
      /\ BlockSize[required] \in Nat
  <2>1. /\ required \in 0 .. MaxOrder
        /\ required # MaxOrder => BlockSize[required] >= size
    BY OrderIsLeast
  <2> HIDE DEF required, found, split
  <2>2. MaxOrder \in Nat /\ PoolSize \in Nat
    BY MaxOrderIs, PoolAssumption
  <2>3. BlockSize[required] \in Nat
    <3>1. required \in 0 .. PoolSize
      BY <2>1, MaxOrderIs
    <3> QED  BY <3>1, BlockSizeIs
  <2> QED  BY <2>1, <2>2, <2>3
<1>2. a = IF size = 0 \/ size > PoolSize \/ found = {}
          THEN [free |-> fl, block |-> NoBlock]
          ELSE [free |-> [split EXCEPT ![required] = Tail(@)],
                block |-> [Head(split[required]) EXCEPT !.is_free = FALSE]]
  BY DEF AllocateBuffer
<1> HIDE DEF required, split
<1>3. CASE size = 0 \/ size > PoolSize \/ found = {}
  <2>1. a.block = NoBlock /\ a.free = fl
    BY <1>2, <1>3
  <2>2. ASSUME size \in 1 .. PoolSize, NEW o \in required .. MaxOrder PROVE fl[o] = <<>>
    BY <1>1, <1>3, <2>2
  <2> QED  BY <2>1, <2>2 DEF required
<1>4. CASE ~(size = 0 \/ size > PoolSize \/ found = {})
  <2>1. found \in SUBSET Nat /\ found # {}
    BY <1>1, <1>4
  <2>2. Min(found) \in found
    <3> HIDE DEF found
    <3> QED  BY <2>1, MinIsLeast
  <2>3. /\ Min(found) \in 0 .. MaxOrder /\ fl[Min(found)] # <<>>
        /\ Min(found) - required \in 0 .. Min(found)
        /\ Min(found) - (Min(found) - required) = required
    BY <1>1, <2>2
  <2> HIDE DEF found
  <2>4. Sound(split, given) /\ split[required] # <<>>
    <3>1. PICK m, k : m = Min(found) /\ k = Min(found) - required
      OBVIOUS
    <3>2. m \in 0 .. MaxOrder /\ fl[m] # <<>> /\ k \in 0 .. m /\ m - k = required
      BY <2>3, <3>1
    <3>3. Sound(SplitDown(fl, m)[k], given) /\ SplitDown(fl, m)[k][m - k] # <<>>
      BY <3>2, SplittingKeeps
    <3>4. split = SplitDown(fl, m)[k]
      BY <3>1 DEF split
    <3> QED  BY <3>2, <3>3, <3>4
  <2>5. /\ a.free = [split EXCEPT ![required] = Tail(@)]
        /\ a.block = [Head(split[required]) EXCEPT !.is_free = FALSE]
    BY <1>2, <1>4
  <2>6. PICK b : b = a.block
    OBVIOUS
  <2>7. /\ Sound(a.free, given \cup {b}) /\ b \in AnyBlock /\ b \notin given /\ b.size > 0
        /\ b.size = Head(split[required]).size
        /\ Head(split[required]) \in ToSet(split[required])
    <3>1. PICK f, q : f = split /\ q = Head(split[required])
      OBVIOUS
    <3>2. /\ Sound(f, given) /\ f[required] # <<>> /\ q = Head(f[required])
          /\ b = FirstBlock(f, required) /\ a.free = OtherBlocks(f, required)
      BY <2>4, <2>5, <2>6, <3>1 DEF FirstBlock, OtherBlocks
    <3>3. /\ Sound(OtherBlocks(f, required), given \cup {b})
          /\ b \in AnyBlock /\ b \notin given /\ b.size > 0
          /\ b.size = Head(f[required]).size /\ Head(f[required]) \in ToSet(f[required])
      <4>1. PICK o \in 0 .. MaxOrder : o = required
        BY <1>1
      <4>2. Sound(f, given) /\ f[o] # <<>> /\ b = FirstBlock(f, o)
        BY <3>2, <4>1
      <4>3. /\ Sound(OtherBlocks(f, o), given \cup {b})
            /\ b \in AnyBlock /\ b \notin given /\ b.size > 0
            /\ b.size = Head(f[o]).size /\ Head(f[o]) \in ToSet(f[o])
        BY <4>2, TakeKeeps
      <4> QED  BY <4>1, <4>3
    <3> QED  BY <3>1, <3>2, <3>3
  <2>8. b.size >= size
    <3>1. CASE required = MaxOrder
      <4>1. b.size = PoolSize
        BY <1>1, <2>4, <2>7, <3>1 DEF Sound, Sized
      <4> QED  BY <1>1, <1>4, <4>1
    <3>2. CASE required # MaxOrder
      <4>1. b.size >= BlockSize[required]
        BY <1>1, <2>4, <2>7 DEF Sound, Sized
      <4>2. b.size \in Nat
        BY <2>7 DEF AnyBlock
      <4> QED  BY <1>1, <3>2, <4>1, <4>2
    <3> QED  BY <3>1, <3>2
  <2>9. b # NoBlock
    BY <2>7 DEF NoBlock
  <2> QED  BY <2>6, <2>7, <2>8, <2>9
<1> QED  BY <1>3, <1>4
=============================================================================
