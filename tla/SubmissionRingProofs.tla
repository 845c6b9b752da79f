------------------------ MODULE SubmissionRingProofs ------------------------
(***************************************************************************)
(* The submission ring for every number of threads, entries and            *)
(* operations, however the threads meet: the types, what a race can do to  *)
(* the entries and what it cannot, and the queue that the ring implements  *)
(* up to the first race.                                                   *)
(***************************************************************************)
EXTENDS SubmissionRing, SequenceTheorems, TLAPS

Submitting == {"flush", "publish", "enter"}

\* Numbers of operations, and when a submit is one at the end of a round.
Numbered(t) ==
    /\ th[t].n <= MaxOps(t)
    /\ th[t].pc # "idle" /\ th[t].mode # "round" => th[t].n > 0
    /\ th[t].pc \notin Submitting \cup {"idle"} => th[t].mode # "round"

TInv == TypeOK /\ \A t \in Threads : Numbered(t)

---------------------------------------------------------------------------
(* Arithmetic of slots and counters.                                       *)

LEMMA SlotType == \A i \in Int : Slot(i) \in 0 .. Entries - 1
BY RingAssumption DEF Slot

\* Entries that are less than a whole ring apart are in different slots.
LEMMA SlotsApart ==
    ASSUME NEW i \in Nat, NEW j \in Nat, i < j, j < i + Entries
    PROVE  Slot(i) # Slot(j)
<1> DEFINE d == (j \div Entries) - (i \div Entries)
<1> SUFFICES ASSUME i % Entries = j % Entries PROVE FALSE
  BY DEF Slot
<1>0. Entries \in Nat /\ Entries > 0
  BY RingAssumption
<1>1. /\ i = Entries * (i \div Entries) + (i % Entries)
      /\ j = Entries * (j \div Entries) + (j % Entries)
      /\ i \div Entries \in Int /\ j \div Entries \in Int
  <2>1. i \div Entries \in Int /\ j \div Entries \in Int
    BY <1>0
  <2>2. i = Entries * (i \div Entries) + (i % Entries)
    BY <1>0
  <2>3. j = Entries * (j \div Entries) + (j % Entries)
    BY <1>0
  <2> QED  BY <2>1, <2>2, <2>3
<1>2. d \in Int /\ j - i = Entries * d
  BY <1>1, RingAssumption
<1> HIDE DEF d
<1>3. CASE d <= 0
  <2>1. Entries * d <= 0
    BY <1>2, <1>3, RingAssumption
  <2> QED  BY <1>2, <2>1
<1>4. CASE d >= 1
  <2>1. Entries * d >= Entries
    BY <1>2, <1>4, RingAssumption
  <2> QED  BY <1>0, <1>2, <2>1
<1> QED  BY <1>2, <1>3, <1>4

\* One turn of the ring leads back to the slot.
LEMMA SlotNext == \A i \in Nat : Slot(i + Entries) = Slot(i)
<1> SUFFICES ASSUME NEW i \in Nat PROVE (i + Entries) % Entries = i % Entries
  BY DEF Slot
<1>0. Entries \in Nat /\ Entries > 0
  BY RingAssumption
<1>1. PICK q \in Int, a \in 0 .. Entries - 1 : i = Entries * q + a /\ a = i % Entries
  <2>1. i \div Entries \in Int /\ i % Entries \in 0 .. Entries - 1
    BY <1>0
  <2>2. i = Entries * (i \div Entries) + (i % Entries)
    BY <1>0
  <2> QED  BY <2>1, <2>2
<1>2. PICK r \in Int, b \in 0 .. Entries - 1 :
        i + Entries = Entries * r + b /\ b = (i + Entries) % Entries
  <2>1. PICK n \in Nat : n = i + Entries
    BY <1>0
  <2>2. n \div Entries \in Int /\ n % Entries \in 0 .. Entries - 1
    BY <1>0, <2>1
  <2>3. n = Entries * (n \div Entries) + (n % Entries)
    BY <1>0, <2>1
  <2> QED  BY <2>1, <2>2, <2>3
<1>3. PICK d \in Int : d = q + 1 - r
  OBVIOUS
<1>4. b - a = Entries * d
  BY <1>0, <1>1, <1>2, <1>3
<1>5. CASE d <= -1
  <2>1. Entries * d <= -Entries
    BY <1>0, <1>5
  <2> QED  BY <1>0, <1>4, <2>1
<1>6. CASE d >= 1
  <2>1. Entries * d >= Entries
    BY <1>0, <1>6
  <2> QED  BY <1>0, <1>4, <2>1
<1>7. CASE d = 0
  BY <1>0, <1>1, <1>2, <1>4, <1>7
<1> QED  BY <1>5, <1>6, <1>7

LEMMA DistanceType == \A a, b \in Int : Distance(a, b) \in 0 .. WordSize - 1
BY RingAssumption DEF Distance

\* Counters that are close are as far apart as their difference says.
LEMMA DistanceSmall ==
    ASSUME NEW a \in Nat, NEW b \in Nat, a <= b, b <= a + Entries + 1
    PROVE  Distance(a, b) = b - a
<1>1. b - a \in 0 .. WordSize - 1
  BY RingAssumption
<1> QED  BY <1>1, RingAssumption DEF Distance

---------------------------------------------------------------------------
(* Types, however the threads meet.                                        *)

ThType == [pc : {"idle", "get", "advance", "prep", "data", "state",
                 "flush", "publish", "enter"},
           mode : {"now", "later", "round"}, n : Nat,
           seen : Nat, todo : 0 .. WordSize - 1, again : BOOLEAN]
Races == [slot : BOOLEAN, tail : BOOLEAN, early : SUBSET (Nat \X Jobs)]
Entry == [op : Jobs \cup {Blank}, data : Jobs \cup {Blank}]

LEMMA JobsOf ==
    /\ \A t \in Threads : \A k \in 1 .. MaxOps(t) : <<t, k>> \in Jobs
    /\ \A t \in Threads : MaxOps(t) \in Nat
<1>1. \A t \in Threads : MaxOps(t) \in Nat
  BY RingAssumption DEF MaxOps
<1>2. ASSUME NEW t \in Threads, NEW k \in 1 .. MaxOps(t) PROVE <<t, k>> \in Jobs
  BY DEF Jobs
<1> QED  BY <1>1, <1>2

\* The job of a thread that is preparing it.
LEMMA JobOfThread ==
    ASSUME TInv, NEW t \in Threads, th[t].pc # "idle", th[t].mode # "round"
    PROVE  Job(t) \in Jobs
<1>1. th[t].n \in 1 .. MaxOps(t)
  BY JobsOf DEF TInv, TypeOK, Numbered
<1> QED  BY <1>1, JobsOf DEF Job

\* The types of the threads, and those of all the rest.
LEMMA Typed ==
    ASSUME TypeOK
    PROVE  /\ th \in [Threads -> ThType]
           /\ \A t \in Threads : /\ th[t].n \in Nat /\ th[t].seen \in Nat
                                 /\ th[t].todo \in 0 .. WordSize - 1
           /\ khead \in Nat /\ ktail \in Nat /\ tail \in Nat
           /\ slots \in [0 .. Entries - 1 -> Entry]
           /\ marked \subseteq Jobs /\ dropped \subseteq Jobs
           /\ race \in Races
<1>1. th \in [Threads -> ThType]
  BY DEF TypeOK, ThType
<1>2. \A r \in ThType : r.n \in Nat /\ r.seen \in Nat /\ r.todo \in 0 .. WordSize - 1
  BY DEF ThType
<1>3. \A t \in Threads : th[t] \in ThType
  BY <1>1
<1> QED  BY <1>1, <1>2, <1>3 DEF TypeOK, Entry, Races

LEMMA RestTyped ==
    ASSUME TypeOK, th' \in [Threads -> ThType],
           UNCHANGED <<khead, ktail, tail, slots, marked, taken, dropped, budget>>,
           race' \in Races
    PROVE  TypeOK'
BY DEF TypeOK, ThType, Races

LEMMA InitTInv == Init => TInv
<1> SUFFICES ASSUME Init PROVE TInv
  OBVIOUS
<1>1. TypeOK
  BY RingAssumption DEF Init, TypeOK
<1>2. \A t \in Threads : Numbered(t)
  BY JobsOf DEF Init, Numbered, Submitting
<1> QED  BY <1>1, <1>2 DEF TInv

LEMMA BeginTypes == ASSUME TInv, NEW t \in Threads, Begin(t) PROVE TInv'
<1>1. PICK m \in {"now", "later"} :
        th' = [th EXCEPT ![t].pc = "get", ![t].mode = m, ![t].n = @ + 1, ![t].again = FALSE]
  BY DEF Begin
<1>2. th \in [Threads -> ThType] /\ race \in Races
  BY Typed DEF TInv
<1>3. th' \in [Threads -> ThType]
  BY <1>1, <1>2 DEF ThType
<1>4. TypeOK'
  BY <1>2, <1>3, RestTyped DEF Begin, TInv
<1>5. \A u \in Threads : Numbered(u)'
  BY <1>1, <1>2, JobsOf DEF Begin, TInv, Numbered, Submitting, ThType
<1> QED  BY <1>4, <1>5 DEF TInv

LEMMA RoundTypes == ASSUME TInv, BeginRound PROVE TInv'
<1>1. th \in [Threads -> ThType] /\ Main \in Threads
  BY Typed, RingAssumption DEF TInv
<1>2. th' \in [Threads -> ThType]
  <2>1. [th[Main] EXCEPT !.pc = "flush", !.mode = "round", !.again = FALSE] \in ThType
    BY <1>1 DEF ThType
  <2>2. th' = [th EXCEPT ![Main] = [th[Main] EXCEPT !.pc = "flush", !.mode = "round",
                                                    !.again = FALSE]]
    BY <1>1 DEF BeginRound
  <2> QED  BY <1>1, <2>1, <2>2
<1>3. budget' \in [rounds : Nat, fails : Nat]
  <2>1. budget \in [rounds : Nat, fails : Nat]
    BY DEF TInv, TypeOK
  <2> QED  BY <2>1 DEF BeginRound
<1>4. TypeOK'
  BY <1>2, <1>3 DEF BeginRound, TInv, TypeOK, ThType
<1>5. \A u \in Threads : Numbered(u)'
  BY <1>1 DEF BeginRound, TInv, Numbered, Submitting, ThType
<1> QED  BY <1>4, <1>5 DEF TInv

LEMMA GetTypes ==
    ASSUME TInv, NEW t \in Threads, GetSqe(t) \/ GetSqeFull(t) \/ LeaveUnprepared(t)
    PROVE  TInv'
<1>0. th \in [Threads -> ThType] /\ tail \in Nat /\ race \in Races
  BY Typed DEF TInv
<1>1. CASE GetSqe(t)
  <2>1. th' = [th EXCEPT ![t].pc = "advance", ![t].seen = tail]
    BY <1>1 DEF GetSqe
  <2>2. th' \in [Threads -> ThType]
    <3>1. [th[t] EXCEPT !.pc = "advance", !.seen = tail] \in ThType
      BY <1>0 DEF ThType
    <3> QED  BY <1>0, <2>1, <3>1
  <2>3. race' \in Races
    <3>1. race' = [race EXCEPT !.slot = race.slot \/ Shared(t)]
      BY <1>1 DEF GetSqe
    <3>2. race.slot \/ Shared(t) \in BOOLEAN
      BY <1>0 DEF Races, Shared
    <3> QED  BY <1>0, <3>1, <3>2 DEF Races
  <2>5. TypeOK'
    BY <1>1, <2>2, <2>3, RestTyped DEF GetSqe, TInv
  <2>4. \A u \in Threads : Numbered(u)'
    BY <1>0, <1>1, <2>1 DEF GetSqe, TInv, Numbered, Submitting, ThType
  <2> QED  BY <2>4, <2>5 DEF TInv
<1>2. CASE GetSqeFull(t) \/ LeaveUnprepared(t)
  <2>1. th[t].pc \in {"get", "prep"} /\ Job(t) \in Jobs
    BY <1>2, JobOfThread DEF GetSqeFull, LeaveUnprepared, TInv, Numbered, Submitting
  <2>2. dropped' \subseteq Jobs
    BY <1>2, <2>1 DEF GetSqeFull, LeaveUnprepared, TInv, TypeOK
  <2>3. th' = [th EXCEPT ![t].pc = "idle"] \/ th' = [th EXCEPT ![t].pc = "flush", ![t].again = TRUE]
    BY <1>2 DEF GetSqeFull, LeaveUnprepared
  <2>4. th' \in [Threads -> ThType]
    BY <1>0, <2>3 DEF ThType
  <2>5. TypeOK'
    BY <1>2, <2>2, <2>4 DEF GetSqeFull, LeaveUnprepared, TInv, TypeOK, ThType
  <2>6. \A u \in Threads : Numbered(u)'
    BY <1>0, <2>1, <2>3 DEF TInv, Numbered, Submitting, ThType
  <2> QED  BY <2>5, <2>6 DEF TInv
<1> QED  BY <1>1, <1>2

LEMMA FillTypes ==
    ASSUME TInv, NEW t \in Threads,
           Advance(t) \/ Prepare(t) \/ SetData(t) \/ SetState(t)
    PROVE  TInv'
<1>0. th[t].pc \in {"advance", "prep", "data", "state"}
  BY DEF Advance, Prepare, SetData, SetState
<1>1. Job(t) \in Jobs
  BY <1>0, JobOfThread DEF TInv, Numbered, Submitting
<1>2. /\ th \in [Threads -> ThType] /\ tail \in Nat /\ th[t].seen \in Nat
      /\ slots \in [0 .. Entries - 1 -> Entry]
  BY Typed DEF TInv
<1>3. \E q \in {"prep", "data", "state", "flush", "idle"} : th' = [th EXCEPT ![t].pc = q]
  BY DEF Advance, Prepare, SetData, AfterData, SetState
<1>4. \A u \in Threads : Numbered(u)'
  BY <1>0, <1>2, <1>3 DEF TInv, Numbered, Submitting, ThType
<1>5. slots' \in [0 .. Entries - 1 -> Entry]
  <2>1. Slot(th[t].seen) \in 0 .. Entries - 1
    BY <1>2, SlotType
  <2>2. CASE Prepare(t)
    BY <1>1, <1>2, <2>1, <2>2 DEF Prepare, Entry
  <2>3. CASE SetData(t)
    BY <1>1, <1>2, <2>1, <2>3 DEF SetData, Entry
  <2> QED  BY <1>2, <2>2, <2>3 DEF Advance, SetState
<1>6. tail' \in Nat /\ marked' \subseteq Jobs
  BY <1>1, <1>2 DEF TInv, TypeOK, Advance, Prepare, SetData, SetState
<1>7. UNCHANGED <<khead, ktail, taken, dropped, race, budget>>
  BY DEF Advance, Prepare, SetData, SetState
<1>8. th' \in [Threads -> ThType]
  <2>1. PICK q \in {"prep", "data", "state", "flush", "idle"} : th' = [th EXCEPT ![t].pc = q]
    BY <1>3
  <2>2. [th[t] EXCEPT !.pc = q] \in ThType
    BY <1>2, <2>1 DEF ThType
  <2> QED  BY <1>2, <2>1, <2>2
<1>9. TypeOK'
  BY <1>5, <1>6, <1>7, <1>8 DEF TInv, TypeOK, ThType, Entry
<1> QED  BY <1>4, <1>9 DEF TInv

LEMMA FlushTypes ==
    ASSUME TInv, NEW t \in Threads, ReadTail(t) \/ Publish(t) PROVE TInv'
<1>1. /\ th \in [Threads -> ThType] /\ tail \in Nat /\ khead \in Nat
      /\ th[t].seen \in Nat /\ race \in Races
  BY Typed DEF TInv
<1>2. /\ Distance(khead, tail) \in 0 .. WordSize - 1
      /\ Distance(khead, th[t].seen) \in 0 .. WordSize - 1
  <2>1. khead \in Int /\ tail \in Int /\ th[t].seen \in Int
    BY <1>1
  <2> QED  BY <2>1, DistanceType
<1>3. CASE ReadTail(t)
  <2>1. PICK q \in Submitting :
          th' = [th EXCEPT ![t].pc = q, ![t].seen = tail, ![t].todo = Distance(khead, tail)]
    BY <1>3 DEF ReadTail, Submitting
  <2>2. th' \in [Threads -> ThType]
    <3>1. [th[t] EXCEPT !.pc = q, !.seen = tail, !.todo = Distance(khead, tail)] \in ThType
      BY <1>1, <1>2 DEF Submitting, ThType
    <3> QED  BY <1>1, <2>1, <3>1
  <2>3. TypeOK'
    BY <1>1, <1>3, <2>2, RestTyped DEF ReadTail, TInv
  <2>4. \A u \in Threads : Numbered(u)'
    BY <1>1, <1>3, <2>1 DEF ReadTail, TInv, Numbered, Submitting, ThType
  <2> QED  BY <2>3, <2>4 DEF TInv
<1>4. CASE Publish(t)
  <2>1. th' = [th EXCEPT ![t].pc = "enter", ![t].todo = Distance(khead, th[t].seen)]
    BY <1>4 DEF Publish
  <2>2. th' \in [Threads -> ThType]
    <3>1. [th[t] EXCEPT !.pc = "enter", !.todo = Distance(khead, th[t].seen)] \in ThType
      BY <1>1, <1>2 DEF ThType
    <3> QED  BY <1>1, <2>1, <3>1
  <2>5. race' \in Races
    BY <1>1, <1>4 DEF Publish, Races
  <2>3. TypeOK'
    BY <1>1, <1>4, <2>2, <2>5 DEF Publish, TInv, TypeOK, ThType, Races
  <2>4. \A u \in Threads : Numbered(u)'
    BY <1>1, <1>4, <2>1 DEF Publish, TInv, Numbered, Submitting, ThType
  <2> QED  BY <2>3, <2>4 DEF TInv
<1> QED  BY <1>3, <1>4

\* The entries that the kernel takes.
Batched(k) == [i \in 1 .. k |-> slots[Slot(khead + i - 1)]]

LEMMA EnterTypes ==
    ASSUME TInv, NEW t \in Threads, Enter(t) \/ EnterFails(t) PROVE TInv'
<1>0. /\ th \in [Threads -> ThType] /\ khead \in Nat /\ ktail \in Nat
      /\ th[t].todo \in 0 .. WordSize - 1
      /\ slots \in [0 .. Entries - 1 -> Entry]
  BY Typed DEF TInv
<1>1. Batch(t) \in Nat
  BY <1>0, DistanceType, RingAssumption DEF Batch, Min2
<1>2. Batched(Batch(t)) \in Seq(Entry)
  <2>1. \A i \in 1 .. Batch(t) : Slot(khead + i - 1) \in 0 .. Entries - 1
    <3>1. \A i \in 1 .. Batch(t) : khead + i - 1 \in Int
      BY <1>0, <1>1
    <3> QED  BY <3>1, SlotType
  <2>2. Batched(Batch(t)) \in [1 .. Batch(t) -> Entry]
    BY <1>0, <2>1 DEF Batched
  <2> QED  BY <1>1, <2>2
<1>3. th' = Resumed(t)
  BY DEF Enter, EnterFails
<1>4. th[t].pc = "enter"
  BY DEF Enter, EnterFails
<1>5. PICK q \in {"get", "idle"} : /\ th' = [th EXCEPT ![t].pc = q]
                                   /\ q = "get" => th[t].mode = "now"
  <2>1. CASE Retries(t)
    <3>1. th' = [th EXCEPT ![t].pc = "get"]
      BY <1>3, <2>1 DEF Resumed
    <3> QED  BY <2>1, <3>1 DEF Retries
  <2>2. CASE ~Retries(t)
    <3>1. th' = [th EXCEPT ![t].pc = "idle"]
      BY <1>3, <2>2 DEF Resumed
    <3> QED  BY <3>1
  <2> QED  BY <2>1, <2>2
<1>6. th' \in [Threads -> ThType] /\ \A u \in Threads : Numbered(u)'
  <2>1. th' \in [Threads -> ThType]
    <3>1. [th[t] EXCEPT !.pc = q] \in ThType
      BY <1>0 DEF ThType
    <3>2. th' = [th EXCEPT ![t] = [th[t] EXCEPT !.pc = q]]
      BY <1>5
    <3> QED  BY <1>0, <3>1, <3>2
  <2>2. \A u \in Threads : Numbered(u)'
    <3>1. th' = [th EXCEPT ![t].pc = q]
      BY <1>5
    <3>2. Numbered(t)'
      <4>1. th'[t].pc = q /\ th'[t].n = th[t].n /\ th'[t].mode = th[t].mode
        BY <1>0, <3>1 DEF ThType
      <4>2. Numbered(t)
        BY DEF TInv
      <4>3. q = "get" => th[t].mode # "round"
        BY <1>5
      <4> QED  BY <1>4, <4>1, <4>2, <4>3 DEF Numbered, Submitting
    <3>3. \A u \in Threads \ {t} : th'[u] = th[u]
      BY <1>0, <3>1
    <3>4. \A u \in Threads \ {t} : Numbered(u)'
      BY <3>3 DEF TInv, Numbered
    <3> QED  BY <3>2, <3>4
  <2> QED  BY <2>1, <2>2
<1>7. taken' \in Seq(Entry) /\ khead' \in Nat
  <2>1. taken \in Seq(Entry) /\ khead \in Nat
    BY DEF TInv, TypeOK, Entry
  <2>2. CASE Enter(t)
    <3>1. taken' = taken \o Batched(Batch(t)) /\ khead' = khead + Batch(t)
      BY <2>2 DEF Enter, Batch, Batched
    <3> QED  BY <1>1, <1>2, <2>1, <3>1
  <2>3. CASE EnterFails(t)
    BY <2>1, <2>3 DEF EnterFails
  <2> QED  BY <2>2, <2>3
<1>8. budget' \in [rounds : Nat, fails : Nat]
  <2>1. budget \in [rounds : Nat, fails : Nat]
    BY DEF TInv, TypeOK
  <2> QED  BY <2>1 DEF Enter, EnterFails
<1>9. UNCHANGED <<ktail, tail, slots, marked, dropped>>
  BY DEF Enter, EnterFails
<1>10. race' \in Races
  <2>1. race \in Races
    BY Typed DEF TInv
  <2>2. TakenEarly(Batch(t)) \in SUBSET (Nat \X Jobs)
    <3>1. \A u \in Threads : th[u].pc \in {"prep", "data", "state"} =>
                                th[u].seen \in Nat /\ Job(u) \in Jobs
      BY JobOfThread, Typed DEF TInv, Numbered, Submitting
    <3> QED  BY <3>1 DEF TakenEarly
  <2> QED  BY <2>1, <2>2 DEF Enter, EnterFails, Races
<1>11. TypeOK'
  BY <1>6, <1>7, <1>8, <1>9, <1>10 DEF TInv, TypeOK, ThType, Entry, Races
<1> QED  BY <1>6, <1>11 DEF TInv

LEMMA TStep == TInv /\ [Next]_vars => TInv'
<1> SUFFICES ASSUME TInv, [Next]_vars PROVE TInv'
  OBVIOUS
<1>1. CASE UNCHANGED vars
  BY <1>1 DEF vars, TInv, TypeOK, Numbered
<1> QED  BY <1>1, BeginTypes, RoundTypes, GetTypes, FillTypes, FlushTypes, EnterTypes
         DEF Next

\* The variables of the ring have their types, however the threads
\* meet: no slot outside the ring is written, no counter is negative and no
\* thread asks the kernel for more than a word can say (get_sqe, submit).
THEOREM TypeCorrect == Spec => []TypeOK
<1>1. TInv => TypeOK
  BY DEF TInv
<1> QED  BY <1>1, InitTInv, TStep, PTL DEF Spec
---------------------------------------------------------------------------
(* What a step leaves alone, and which operations are set up.              *)

\* All that a thread does but the start of an operation.
Works(t) ==
    \/ GetSqe(t) \/ GetSqeFull(t) \/ Advance(t) \/ LeaveUnprepared(t) \/ Prepare(t)
    \/ SetData(t) \/ SetState(t) \/ ReadTail(t) \/ Publish(t) \/ Enter(t) \/ EnterFails(t)

LEMMA OnlyOwn ==
    ASSUME TypeOK, NEW t \in Threads,
           Works(t) \/ Begin(t) \/ (BeginRound /\ t = Main)
    PROVE  \A u \in Threads \ {t} : th'[u] = th[u] /\ Job(u)' = Job(u)
<1>1. th \in [Threads -> ThType]
  BY Typed
<1>2. \A u \in Threads \ {t} : th'[u] = th[u]
  BY <1>1 DEF Works, GetSqe, GetSqeFull, Advance, LeaveUnprepared, Prepare, SetData, SetState,
              ReadTail, Publish, Enter, EnterFails, Begin, BeginRound, Resumed
<1> QED  BY <1>2 DEF Job

LEMMA SameNumber ==
    ASSUME TypeOK, NEW t \in Threads, Works(t)
    PROVE  th'[t].n = th[t].n /\ th'[t].mode = th[t].mode /\ Job(t)' = Job(t)
<1>1. th \in [Threads -> ThType]
  BY Typed
<1>2. th'[t].n = th[t].n /\ th'[t].mode = th[t].mode
  BY <1>1 DEF Works, GetSqe, GetSqeFull, Advance, LeaveUnprepared, Prepare, SetData, SetState,
              ReadTail, Publish, Enter, EnterFails, Resumed, ThType
<1> QED  BY <1>2 DEF Job

\* Only operations that were begun are marked: the main thread's from Prepare
\* on, a callback's at its end.
Marks(t) ==
    /\ \A k \in Nat : <<t, k>> \in marked => k <= th[t].n
    /\ th[t].pc \in {"get", "advance", "prep"} => Job(t) \notin marked
    /\ th[t].pc = "data" /\ t = Main => Job(t) \in marked

\* What was not set up is in no entry's user_data.
Absent(j) ==
    /\ \A s \in 0 .. Entries - 1 : slots[s].data # j
    /\ \A i \in DOMAIN taken : taken[i].data # j

NotYet(t) ==
    \A k \in Nat : k > th[t].n \/ (k = th[t].n /\ Pending(t)) => Absent(<<t, k>>)

MInv == TInv /\ \A t \in Threads : Marks(t) /\ NotYet(t)

LEMMA InitMInv == Init => MInv
<1> SUFFICES ASSUME Init PROVE MInv
  OBVIOUS
<1>1. TInv
  BY InitTInv
<1>2. \A t \in Threads : Marks(t)
  BY DEF Init, Marks
<1>3. ASSUME NEW t \in Threads PROVE NotYet(t)
  <2>1. \A k \in Nat : <<t, k>> # Blank
    BY DEF Blank
  <2>2. taken = <<>> /\ \A s \in 0 .. Entries - 1 : slots[s].data = Blank
    BY DEF Init
  <2>3. ASSUME NEW k \in Nat PROVE Absent(<<t, k>>)
    <3>1. \A s \in 0 .. Entries - 1 : slots[s].data # <<t, k>>
      BY <2>1, <2>2
    <3>2. DOMAIN taken = {}
      BY <2>2
    <3> QED  BY <3>1, <3>2 DEF Absent
  <2> QED  BY <2>3 DEF NotYet
<1> QED  BY <1>1, <1>2, <1>3 DEF MInv

\* What is marked: nothing but the job of the thread.
LEMMA MarkedStep ==
    ASSUME TypeOK, NEW t \in Threads, Works(t)
    PROVE  /\ marked \subseteq marked' /\ marked' \subseteq marked \cup {Job(t)}
           /\ Job(t) \in marked' =>
                Job(t) \in marked \/ (t = Main /\ Prepare(t)) \/ SetState(t)
BY DEF Works, GetSqe, GetSqeFull, Advance, LeaveUnprepared, Prepare, SetData, SetState,
       ReadTail, Publish, Enter, EnterFails

LEMMA MarksStep ==
    ASSUME MInv, NEW t \in Threads, Works(t), NEW u \in Threads
    PROVE  Marks(u)'
<1>1. /\ th \in [Threads -> ThType] /\ \A v \in Threads : th[v].n \in Nat
      /\ TypeOK /\ Marks(u) /\ Marks(t)
  BY Typed DEF MInv, TInv
<1>2. CASE u # t
  <2>1. th'[u] = th[u] /\ Job(u)' = Job(u)
    BY <1>1, <1>2, OnlyOwn
  <2>2. \A k : <<u, k>> # Job(t)
    BY <1>2 DEF Job
  <2>3. \A k : <<u, k>> \in marked' <=> <<u, k>> \in marked
    BY <1>1, <2>2, MarkedStep
  <2>4. Job(u) \in marked' <=> Job(u) \in marked
    BY <2>3 DEF Job
  <2> QED  BY <1>1, <2>1, <2>3, <2>4 DEF Marks
<1>3. CASE u = t
  <2>1. th'[t].n = th[t].n /\ Job(t)' = Job(t)
    BY <1>1, SameNumber
  <2>2. \A k \in Nat : <<t, k>> \in marked' => k <= th[t].n
    <3>1. \A k \in Nat : <<t, k>> \in marked' => <<t, k>> \in marked \/ k = th[t].n
      BY <1>1, MarkedStep DEF Job
    <3> QED  BY <1>1, <3>1 DEF Marks
  <2>3. th'[t].pc \in {"get", "advance", "prep"} => Job(t) \notin marked'
    <3>1. th'[t].pc \in {"get", "advance", "prep"} =>
             \/ th[t].pc \in {"get", "advance"} /\ UNCHANGED marked
             \/ Retries(t) /\ UNCHANGED marked
      BY <1>1 DEF Works, GetSqe, GetSqeFull, Advance, LeaveUnprepared, Prepare, SetData,
                  AfterData, SetState, ReadTail, Publish, Enter, EnterFails, Resumed, ThType
    <3> QED  BY <1>1, <3>1 DEF Marks, Retries
  <2>4. th'[t].pc = "data" /\ t = Main => Job(t) \in marked'
    <3>1. th'[t].pc = "data" => Prepare(t)
      BY <1>1 DEF Works, GetSqe, GetSqeFull, Advance, LeaveUnprepared, Prepare, SetData,
                  AfterData, SetState, ReadTail, Publish, Enter, EnterFails, Resumed, ThType
    <3> QED  BY <3>1 DEF Prepare
  <2> QED  BY <1>3, <2>1, <2>2, <2>3, <2>4 DEF Marks
<1> QED  BY <1>2, <1>3

\* A step does not make an operation pending, and with the user_data it is not
\* pending any more.
LEMMA PendingStep ==
    ASSUME MInv, NEW t \in Threads, Works(t)
    PROVE  /\ Pending(t)' => Pending(t)
           /\ SetData(t) => ~Pending(t)'
<1>1. TypeOK /\ th \in [Threads -> ThType] /\ Marks(t)
  BY Typed DEF MInv, TInv
<1>2. th'[t].mode = th[t].mode /\ Job(t)' = Job(t) /\ marked \subseteq marked'
  BY <1>1, SameNumber, MarkedStep
<1>3. CASE GetSqe(t) \/ GetSqeFull(t) \/ Advance(t) \/ LeaveUnprepared(t) \/ Prepare(t)
  <2>1. th[t].pc \in {"get", "advance", "prep"}
    BY <1>3 DEF GetSqe, GetSqeFull, Advance, LeaveUnprepared, Prepare
  <2>2. ~SetData(t)
    BY <2>1 DEF SetData
  <2> QED  BY <2>1, <2>2 DEF Pending
<1>4. CASE SetData(t) \/ SetState(t)
  <2>1. th'[t].pc \in {"state", "idle"} \/ (th'[t].pc = "flush" /\ Job(t) \in marked')
    <3>1. CASE SetData(t)
      <4>1. th'[t].pc = AfterData(t) /\ th[t].pc = "data"
        BY <1>1, <3>1 DEF SetData, ThType
      <4> QED  BY <1>1, <1>2, <4>1 DEF AfterData, Marks
    <3>2. CASE SetState(t)
      BY <1>1, <3>2 DEF SetState, ThType
    <3> QED  BY <1>4, <3>1, <3>2
  <2>2. ~Pending(t)'
    BY <1>2, <2>1 DEF Pending, Retries
  <2> QED  BY <2>2
<1>5. CASE ReadTail(t) \/ Publish(t)
  <2>1. /\ th[t].pc \in Submitting /\ th'[t].pc \in Submitting
        /\ th'[t].again = th[t].again /\ marked' = marked /\ ~SetData(t)
    BY <1>1, <1>5 DEF ReadTail, Publish, SetData, Submitting, ThType
  <2> QED  BY <1>2, <2>1 DEF Pending, Retries, Submitting
<1>6. CASE Enter(t) \/ EnterFails(t)
  <2>1. th[t].pc = "enter" /\ th'[t].pc = (IF Retries(t) THEN "get" ELSE "idle") /\ ~SetData(t)
    BY <1>1, <1>6 DEF Enter, EnterFails, Resumed, SetData, ThType
  <2> QED  BY <2>1 DEF Pending
<1> QED  BY <1>3, <1>4, <1>5, <1>6 DEF Works

\* The kernel takes entries from the slots.
LEMMA EnterTakes ==
    ASSUME TypeOK, NEW t \in Threads, Enter(t)
    PROVE  /\ Batch(t) \in Nat /\ khead' = khead + Batch(t)
           /\ taken' = taken \o Batched(Batch(t))
           /\ taken \in Seq(Entry) /\ Batched(Batch(t)) \in Seq(Entry)
           /\ Len(Batched(Batch(t))) = Batch(t)
           /\ \A i \in 1 .. Batch(t) : /\ Slot(khead + i - 1) \in 0 .. Entries - 1
                                       /\ Batched(Batch(t))[i] = slots[Slot(khead + i - 1)]
           /\ DOMAIN taken = 1 .. Len(taken) /\ DOMAIN taken' = 1 .. Len(taken) + Batch(t)
           /\ \A i \in 1 .. Len(taken) : taken'[i] = taken[i]
           /\ \A i \in 1 .. Batch(t) : taken'[Len(taken) + i] = slots[Slot(khead + i - 1)]
<1>0. /\ khead \in Nat /\ ktail \in Nat /\ th[t].todo \in 0 .. WordSize - 1
      /\ slots \in [0 .. Entries - 1 -> Entry] /\ taken \in Seq(Entry)
  BY Typed DEF TypeOK, Entry
<1>1. Batch(t) \in Nat
  BY <1>0, DistanceType, RingAssumption DEF Batch, Min2
<1>2. khead' = khead + Batch(t) /\ taken' = taken \o Batched(Batch(t))
  BY DEF Enter, Batched
<1>3. \A i \in 1 .. Batch(t) : Slot(khead + i - 1) \in 0 .. Entries - 1
  <2>1. \A i \in 1 .. Batch(t) : khead + i - 1 \in Int
    BY <1>0, <1>1
  <2> QED  BY <2>1, SlotType
<1>4. PICK k \in Nat : k = Batch(t)
  BY <1>1
<1>5. /\ Batched(k) \in Seq(Entry) /\ Len(Batched(k)) = k
      /\ \A i \in 1 .. k : Batched(k)[i] = slots[Slot(khead + i - 1)]
  <2>1. Batched(k) \in [1 .. k -> Entry]
    BY <1>0, <1>3, <1>4 DEF Batched
  <2> QED  BY <2>1 DEF Batched
<1>6. /\ DOMAIN taken = 1 .. Len(taken) /\ DOMAIN taken' = 1 .. Len(taken) + k
      /\ \A i \in 1 .. Len(taken) : taken'[i] = taken[i]
      /\ \A i \in 1 .. k : taken'[Len(taken) + i] = Batched(k)[i]
  BY <1>0, <1>2, <1>4, <1>5
<1> QED  BY <1>0, <1>1, <1>2, <1>3, <1>4, <1>5, <1>6

\* Only SetData changes user_data, and the kernel adds nothing of its own.
LEMMA AbsentStep ==
    ASSUME TypeOK, NEW t \in Threads, Works(t), NEW j, Absent(j), SetData(t) => j # Job(t)
    PROVE  Absent(j)'
<1>1. /\ slots \in [0 .. Entries - 1 -> Entry] /\ th[t].seen \in Nat
  BY Typed
<1>2. CASE Enter(t)
  <2>1. slots' = slots
    BY <1>2 DEF Enter
  <2>2. ASSUME NEW i \in 1 .. Len(taken) + Batch(t) PROVE taken'[i].data # j
    <3>1. CASE i \in 1 .. Len(taken)
      BY <1>2, <3>1, EnterTakes DEF Absent
    <3>2. CASE i \notin 1 .. Len(taken)
      <4>1. Len(taken) \in Nat /\ Batch(t) \in Nat
        BY <1>2, EnterTakes
      <4>2. i - Len(taken) \in 1 .. Batch(t) /\ Len(taken) + (i - Len(taken)) = i
        BY <3>2, <4>1
      <4>3. PICK m \in 1 .. Batch(t) : Len(taken) + m = i
        BY <4>2
      <4>4. taken'[i] = slots[Slot(khead + m - 1)] /\ Slot(khead + m - 1) \in 0 .. Entries - 1
        BY <1>2, <4>3, EnterTakes
      <4> QED  BY <4>4 DEF Absent
    <3> QED  BY <3>1, <3>2
  <2>3. DOMAIN taken' = 1 .. Len(taken) + Batch(t)
    BY <1>2, EnterTakes
  <2> QED  BY <2>1, <2>2, <2>3 DEF Absent
<1>3. CASE ~Enter(t)
  <2>1. taken' = taken
    BY <1>3 DEF Works, GetSqe, GetSqeFull, Advance, LeaveUnprepared, Prepare, SetData, SetState,
                ReadTail, Publish, EnterFails
  <2>2. ASSUME NEW s \in 0 .. Entries - 1 PROVE slots'[s].data # j
    <3>1. CASE SetData(t)
      <4>1. slots' = [slots EXCEPT ![Slot(th[t].seen)].data = Job(t)]
        BY <3>1 DEF SetData
      <4>2. slots[s].data # j /\ Job(t) # j
        BY <3>1 DEF Absent
      <4> QED  BY <1>1, <4>1, <4>2 DEF Entry
    <3>2. CASE Prepare(t)
      <4>1. slots' = [slots EXCEPT ![Slot(th[t].seen)].op = Job(t)]
        BY <3>2 DEF Prepare
      <4> QED  BY <1>1, <4>1 DEF Absent, Entry
    <3>3. CASE ~SetData(t) /\ ~Prepare(t)
      <4>1. slots' = slots
        BY <1>3, <3>3 DEF Works, GetSqe, GetSqeFull, Advance, LeaveUnprepared, SetState,
                          ReadTail, Publish, EnterFails
      <4> QED  BY <4>1 DEF Absent
    <3> QED  BY <3>1, <3>2, <3>3
  <2> QED  BY <2>1, <2>2 DEF Absent
<1> QED  BY <1>2, <1>3

LEMMA NotYetStep ==
    ASSUME MInv, NEW t \in Threads, Works(t), NEW u \in Threads PROVE NotYet(u)'
<1>1. TypeOK /\ NotYet(u) /\ \A v \in Threads : th[v].n \in Nat
  BY Typed DEF MInv, TInv
<1>2. th'[u].n = th[u].n
  BY <1>1, OnlyOwn, SameNumber
<1> SUFFICES ASSUME NEW k \in Nat, k > th[u].n \/ (k = th[u].n /\ Pending(u)') PROVE Absent(<<u, k>>)'
  BY <1>2 DEF NotYet, Absent
<1>3. Pending(u)' => Pending(u)
  <2>1. CASE u = t
    BY <2>1, PendingStep
  <2>2. CASE u # t
    <3>1. th'[u] = th[u] /\ Job(u)' = Job(u) /\ Job(u) # Job(t)
      BY <1>1, <2>2, OnlyOwn DEF Job
    <3>2. Job(u) \in marked' <=> Job(u) \in marked
      BY <1>1, <3>1, MarkedStep
    <3> QED  BY <3>1, <3>2 DEF Pending, Retries
  <2> QED  BY <2>1, <2>2
<1>4. Absent(<<u, k>>)
  BY <1>1, <1>3 DEF NotYet
<1>5. SetData(t) => <<u, k>> # Job(t)
  <2> SUFFICES ASSUME SetData(t), <<u, k>> = Job(t) PROVE FALSE
    OBVIOUS
  <2>1. u = t /\ k = th[t].n
    BY DEF Job
  <2> QED  BY <1>1, <2>1, PendingStep
<1> QED  BY <1>1, <1>4, <1>5, AbsentStep

LEMMA MStep == MInv /\ [Next]_vars => MInv'
<1> SUFFICES ASSUME MInv, [Next]_vars PROVE MInv'
  OBVIOUS
<1>0. TInv' /\ TypeOK /\ th \in [Threads -> ThType] /\ \A u \in Threads : th[u].n \in Nat
  BY TStep, Typed DEF MInv, TInv
<1>1. ASSUME NEW t \in Threads, Works(t) PROVE MInv'
  BY <1>0, <1>1, MarksStep, NotYetStep DEF MInv
<1>2. ASSUME NEW t \in Threads, Begin(t) PROVE MInv'
  <2>1. /\ th'[t].n = th[t].n + 1 /\ th'[t].pc = "get" /\ \A u \in Threads \ {t} : th'[u] = th[u]
        /\ marked' = marked /\ slots' = slots /\ taken' = taken
    BY <1>0, <1>2 DEF Begin, ThType
  <2>2. ASSUME NEW u \in Threads \ {t} PROVE Marks(u)' /\ NotYet(u)'
    BY <2>1 DEF MInv, Marks, NotYet, Absent, Pending, Retries, Job
  <2>3. Marks(t)'
    <3>1. \A k \in Nat : <<t, k>> \in marked => k <= th[t].n
      BY DEF MInv, Marks
    <3>2. Job(t)' = <<t, th[t].n + 1>> /\ th[t].n + 1 \in Nat
      BY <1>0, <2>1 DEF Job
    <3>3. Job(t)' \notin marked
      BY <1>0, <3>1, <3>2
    <3> QED  BY <1>0, <2>1, <3>1, <3>3 DEF Marks
  <2>4. NotYet(t)'
    <3>1. \A k \in Nat : k > th[t].n => Absent(<<t, k>>)
      BY DEF MInv, NotYet
    <3>2. \A k \in Nat : k > th[t].n + 1 \/ k = th[t].n + 1 => Absent(<<t, k>>)
      BY <1>0, <3>1
    <3> QED  BY <2>1, <3>2 DEF NotYet, Absent
  <2> QED  BY <1>0, <2>2, <2>3, <2>4 DEF MInv
<1>3. CASE BeginRound
  <2>1. /\ th'[Main].n = th[Main].n /\ th'[Main].pc = "flush" /\ ~th'[Main].again
        /\ \A u \in Threads \ {Main} : th'[u] = th[u]
        /\ marked' = marked /\ slots' = slots /\ taken' = taken
    BY <1>0, <1>3, RingAssumption DEF BeginRound, ThType
  <2>2. ASSUME NEW u \in Threads PROVE Marks(u)' /\ NotYet(u)'
    <3>1. CASE u # Main
      BY <2>1, <3>1 DEF MInv, Marks, NotYet, Absent, Pending, Retries, Job
    <3>2. CASE u = Main
      BY <2>1, <3>2 DEF MInv, Marks, NotYet, Absent, Pending, Retries, Job
    <3> QED  BY <3>1, <3>2
  <2> QED  BY <1>0, <2>2 DEF MInv
<1>4. CASE UNCHANGED vars
  BY <1>0, <1>4 DEF vars, MInv, Marks, NotYet, Absent, Pending, Retries, Job
<1> QED  BY <1>1, <1>2, <1>3, <1>4 DEF Next, Works

---------------------------------------------------------------------------
(* Whose an entry is.  Until two threads use one slot, a thread that has    *)
(* read the tail will move it by one, and the entries in use are different  *)
(* and less than one turn of the ring behind the tail.                      *)

Working(t) == th[t].pc \in {"prep", "data", "state"}

Counters ==
    /\ khead <= ktail /\ ktail <= tail /\ tail <= khead + Entries
    /\ Len(taken) = khead

\* The slot behind the tail is nobody else's.
Behind(t) ==
    /\ th[t].seen = tail /\ tail < khead + Entries
    /\ \A u \in Threads \ {t} : /\ th[u].pc # "advance"
                                /\ Working(u) => tail < th[u].seen + Entries

\* The entry is nobody else's, and recorded if the kernel has it already.
Owned(t) ==
    /\ th[t].seen < tail /\ tail <= th[t].seen + Entries
    /\ \A u \in Threads \ {t} : Working(u) => th[u].seen # th[t].seen
    /\ th[t].seen < khead => <<th[t].seen, Job(t)>> \in race.early

Position(t) ==
    /\ th[t].pc = "advance" => Behind(t)
    /\ Working(t) => Owned(t)
    /\ th[t].pc = "publish" => th[t].seen <= tail

PInv == Counters /\ \A t \in Threads : Position(t)

\* A race is not taken back.
LEMMA RacesStay ==
    ASSUME TypeOK, [Next]_vars
    PROVE  /\ Clean' => Clean
           /\ race.early \subseteq race'.early
<1>1. race \in Races
  BY Typed
<1>2. \/ race' = race
      \/ \E t \in Threads : \/ race' = [race EXCEPT !.slot = race.slot \/ Shared(t)]
                            \/ race' = [race EXCEPT !.tail = race.tail \/ th[t].seen < khead]
                            \/ race' = [race EXCEPT !.early = race.early \cup TakenEarly(Batch(t))]
  BY DEF Next, vars, Begin, BeginRound, GetSqe, GetSqeFull, Advance, LeaveUnprepared, Prepare,
         SetData, SetState, ReadTail, Publish, Enter, EnterFails
<1> QED  BY <1>1, <1>2 DEF Races, Clean

LEMMA InitPInv == Init => PInv
<1> SUFFICES ASSUME Init PROVE PInv
  OBVIOUS
<1>1. Counters
  BY RingAssumption DEF Init, Counters
<1>2. \A t \in Threads : Position(t)
  BY DEF Init, Position, Working
<1> QED  BY <1>1, <1>2 DEF PInv

\* A step that moves none of the counters and takes no entry.
Quiet(t) ==
    /\ UNCHANGED <<khead, ktail, tail, taken, race>>
    /\ \A u \in Threads \ {t} : th'[u] = th[u]
    /\ th'[t].pc # "advance"
    /\ Working(t)' => Working(t) /\ th'[t].seen = th[t].seen /\ Job(t)' = Job(t)
    /\ th'[t].pc = "publish" => th'[t].seen = tail

LEMMA QuietSteps ==
    ASSUME TypeOK, NEW t \in Threads,
           \/ Begin(t) \/ (BeginRound /\ t = Main) \/ GetSqeFull(t) \/ LeaveUnprepared(t)
           \/ Prepare(t) \/ SetData(t) \/ SetState(t) \/ ReadTail(t) \/ EnterFails(t)
    PROVE  Quiet(t)
<1>1. th \in [Threads -> ThType]
  BY Typed
<1>2. UNCHANGED <<khead, ktail, tail, taken, race>>
  BY DEF Begin, BeginRound, GetSqeFull, LeaveUnprepared, Prepare, SetData, SetState, ReadTail,
         EnterFails
<1>3. \A u \in Threads \ {t} : th'[u] = th[u]
  BY OnlyOwn DEF Works
<1>4. CASE Begin(t) \/ (BeginRound /\ t = Main)
  <2>1. th'[t].pc \in {"get", "flush"}
    <3>1. CASE Begin(t)
      <4>1. PICK m \in {"now", "later"} :
              th' = [th EXCEPT ![t].pc = "get", ![t].mode = m, ![t].n = @ + 1, ![t].again = FALSE]
        BY <3>1 DEF Begin
      <4> QED  BY <1>1, <4>1 DEF ThType
    <3>2. CASE BeginRound /\ t = Main
      BY <1>1, <3>2 DEF BeginRound, ThType
    <3> QED  BY <1>4, <3>1, <3>2
  <2> QED  BY <1>2, <1>3, <2>1 DEF Quiet, Working
<1>5. CASE GetSqeFull(t) \/ LeaveUnprepared(t) \/ EnterFails(t)
  <2>1. th'[t].pc \in {"idle", "flush", "get"}
    BY <1>1, <1>5 DEF GetSqeFull, LeaveUnprepared, EnterFails, Resumed, ThType
  <2> QED  BY <1>2, <1>3, <2>1 DEF Quiet, Working
<1>6. CASE Prepare(t) \/ SetData(t) \/ SetState(t)
  <2>1. /\ th[t].pc \in {"prep", "data", "state"} /\ th'[t].seen = th[t].seen
        /\ th'[t].pc \in {"data", "state", "flush", "idle"}
    BY <1>1, <1>6 DEF Prepare, SetData, AfterData, SetState, ThType
  <2>2. Job(t)' = Job(t)
    BY <1>6, SameNumber DEF Works
  <2> QED  BY <1>2, <1>3, <2>1, <2>2 DEF Quiet, Working
<1>7. CASE ReadTail(t)
  <2>1. th'[t].pc \in {"publish", "enter"} /\ th'[t].seen = tail
    BY <1>1, <1>7 DEF ReadTail, ThType
  <2> QED  BY <1>2, <1>3, <2>1 DEF Quiet, Working
<1> QED  BY <1>4, <1>5, <1>6, <1>7

LEMMA QuietPositions ==
    ASSUME TypeOK, PInv, NEW t \in Threads, Quiet(t) PROVE PInv'
<1>1. /\ khead' = khead /\ ktail' = ktail /\ tail' = tail /\ taken' = taken /\ race' = race
      /\ \A u \in Threads \ {t} : th'[u] = th[u] /\ Job(u)' = Job(u)
  BY DEF Quiet, Job
<1>2. Counters'
  BY <1>1 DEF PInv, Counters
<1>3. \A v \in Threads : Working(v)' => Working(v) /\ th'[v].seen = th[v].seen /\ Job(v)' = Job(v)
  BY <1>1 DEF Quiet, Working
<1>4. \A v \in Threads : th'[v].pc = "advance" => v # t /\ th[v].pc = "advance"
  BY <1>1 DEF Quiet
<1>5. ASSUME NEW u \in Threads PROVE Position(u)'
  <2>1. Position(u)
    BY DEF PInv
  <2>2. ASSUME th'[u].pc = "advance" PROVE Behind(u)'
    <3>1. u # t /\ Behind(u) /\ th'[u] = th[u]
      BY <1>1, <1>4, <2>1, <2>2 DEF Position
    <3>2. ASSUME NEW v \in Threads \ {u}
          PROVE  th'[v].pc # "advance" /\ (Working(v)' => tail' < th'[v].seen + Entries)
      BY <1>1, <1>3, <1>4, <3>1 DEF Behind
    <3> QED  BY <1>1, <3>1, <3>2 DEF Behind
  <2>3. ASSUME Working(u)' PROVE Owned(u)'
    <3>1. Owned(u) /\ th'[u].seen = th[u].seen /\ Job(u)' = Job(u)
      BY <1>3, <2>1, <2>3 DEF Position
    <3>2. ASSUME NEW v \in Threads \ {u}, Working(v)' PROVE th'[v].seen # th'[u].seen
      BY <1>3, <3>1, <3>2 DEF Owned
    <3> QED  BY <1>1, <3>1, <3>2 DEF Owned
  <2>4. th'[u].pc = "publish" => th'[u].seen <= tail'
    <3>1. CASE u = t
      <4>1. tail \in Nat
        BY Typed
      <4> QED  BY <1>1, <3>1, <4>1 DEF Quiet
    <3>2. CASE u # t
      BY <1>1, <2>1, <3>2 DEF Position
    <3> QED  BY <3>1, <3>2
  <2> QED  BY <2>2, <2>3, <2>4 DEF Position
<1> QED  BY <1>2, <1>5 DEF PInv

\* get_sqe: room for one more, and without a race a slot that nobody uses.
LEMMA GetSqePositions ==
    ASSUME TypeOK, PInv, NEW t \in Threads, GetSqe(t), Clean' PROVE PInv'
<1>1. /\ th \in [Threads -> ThType] /\ khead \in Nat /\ tail \in Nat /\ race \in Races
      /\ \A u \in Threads : th[u].seen \in Nat
      /\ khead <= tail /\ tail <= khead + Entries /\ Entries \in Nat /\ Entries > 0
  <2>1. khead \in Nat /\ ktail \in Nat /\ tail \in Nat
    BY Typed
  <2>2. khead <= ktail /\ ktail <= tail /\ tail <= khead + Entries
    BY DEF PInv, Counters
  <2>3. khead <= tail
    BY <2>1, <2>2
  <2> QED  BY <2>1, <2>2, <2>3, Typed, RingAssumption
<1>2. /\ UNCHANGED <<khead, ktail, tail, taken>>
      /\ th'[t].pc = "advance" /\ th'[t].seen = tail
      /\ \A u \in Threads \ {t} : th'[u] = th[u] /\ Job(u)' = Job(u)
  BY <1>1 DEF GetSqe, ThType, Job
<1>3. ~Shared(t) /\ race'.early = race.early
  <2>1. race' = [race EXCEPT !.slot = race.slot \/ Shared(t)]
    BY DEF GetSqe
  <2>2. race'.slot = (race.slot \/ Shared(t)) /\ race'.early = race.early
    BY <1>1, <2>1 DEF Races
  <2> QED  BY <2>2 DEF Clean
<1>4. tail < khead + Entries
  <2>1. Distance(khead, tail + 1) = tail + 1 - khead
    <3>1. tail + 1 \in Nat /\ khead <= tail + 1 /\ tail + 1 <= khead + Entries + 1
      BY <1>1
    <3> QED  BY <1>1, <3>1, DistanceSmall
  <2>2. Distance(khead, tail + 1) <= Entries
    BY DEF GetSqe, Room
  <2> QED  BY <1>1, <2>1, <2>2
<1>5. ASSUME NEW u \in Threads \ {t}
      PROVE  th[u].pc # "advance" /\ (Working(u) => tail < th[u].seen + Entries)
  <2>1. Uses(u) => Slot(th[u].seen) # Slot(tail)
    BY <1>3 DEF Shared
  <2>2. th[u].pc # "advance"
    <3> SUFFICES ASSUME th[u].pc = "advance" PROVE FALSE
      OBVIOUS
    <3>1. th[u].seen = tail /\ Uses(u)
      BY DEF PInv, Position, Behind, Uses
    <3> QED  BY <2>1, <3>1
  <2>3. ASSUME Working(u) PROVE tail < th[u].seen + Entries
    <3>1. tail <= th[u].seen + Entries /\ Uses(u)
      BY <2>3 DEF PInv, Position, Owned, Working, Uses
    <3>2. tail # th[u].seen + Entries
      <4>1. Slot(th[u].seen + Entries) = Slot(th[u].seen)
        BY <1>1, SlotNext
      <4> QED  BY <2>1, <3>1, <4>1
    <3> QED  BY <1>1, <3>1, <3>2
  <2> QED  BY <2>2, <2>3
<1>6. Behind(t)'
  <2>1. \A u \in Threads \ {t} : /\ th'[u].pc # "advance"
                                 /\ Working(u)' => tail' < th'[u].seen + Entries
    BY <1>2, <1>5 DEF Working
  <2> QED  BY <1>2, <1>4, <2>1 DEF Behind
<1>7. ASSUME NEW u \in Threads \ {t} PROVE Position(u)'
  <2>1. Position(u) /\ th'[u] = th[u] /\ Job(u)' = Job(u) /\ th[u].pc # "advance"
    BY <1>2, <1>5 DEF PInv
  <2>2. ASSUME Working(u) PROVE Owned(u)'
    <3>1. Owned(u)
      BY <2>1, <2>2 DEF Position
    <3>2. ASSUME NEW v \in Threads \ {u}, Working(v)' PROVE th'[v].seen # th'[u].seen
      <4>1. v # t
        BY <1>2, <3>2 DEF Working
      <4> QED  BY <1>2, <2>1, <3>1, <3>2, <4>1 DEF Owned, Working
    <3> QED  BY <1>2, <1>3, <2>1, <3>1, <3>2 DEF Owned
  <2> QED  BY <1>2, <2>1, <2>2 DEF Position, Working
<1>8. Position(t)'
  BY <1>2, <1>6 DEF Position, Working
<1>9. Counters'
  BY <1>2 DEF PInv, Counters
<1> QED  BY <1>7, <1>8, <1>9 DEF PInv

\* The tail is written back: the entry is the thread's, and the last one.
LEMMA AdvancePositions ==
    ASSUME TypeOK, PInv, NEW t \in Threads, Advance(t) PROVE PInv'
<1>1. /\ th \in [Threads -> ThType] /\ khead \in Nat /\ ktail \in Nat /\ tail \in Nat
      /\ \A u \in Threads : th[u].seen \in Nat
      /\ Entries \in Nat /\ Entries > 0 /\ Counters
  BY Typed, RingAssumption DEF PInv
<1>2. Behind(t)
  BY DEF PInv, Position, Advance
<1>3. /\ UNCHANGED <<khead, ktail, taken, race>> /\ tail' = tail + 1
      /\ th'[t].pc = "prep" /\ th'[t].seen = tail
      /\ \A u \in Threads \ {t} : th'[u] = th[u] /\ Job(u)' = Job(u)
  BY <1>1, <1>2 DEF Advance, Behind, ThType, Job
<1>4. Counters'
  BY <1>1, <1>2, <1>3 DEF Counters, Behind
<1>5. ASSUME NEW u \in Threads \ {t}
      PROVE  th[u].pc # "advance" /\ (Working(u) => Owned(u) /\ tail < th[u].seen + Entries)
  BY <1>2 DEF Behind, PInv, Position
<1>6. Owned(t)'
  <2>1. ASSUME NEW u \in Threads \ {t}, Working(u)' PROVE th'[u].seen # th'[t].seen
    <3>1. Working(u) /\ th'[u].seen = th[u].seen
      BY <1>3, <2>1 DEF Working
    <3>2. th[u].seen < tail
      BY <1>5, <3>1 DEF Owned
    <3> QED  BY <1>1, <1>3, <3>1, <3>2
  <2>2. ~(th'[t].seen < khead')
    BY <1>1, <1>3 DEF Counters
  <2>3. th'[t].seen < tail' /\ tail' <= th'[t].seen + Entries
    BY <1>1, <1>3
  <2> QED  BY <2>1, <2>2, <2>3 DEF Owned
<1>7. ASSUME NEW u \in Threads \ {t} PROVE Position(u)'
  <2>1. Position(u) /\ th'[u] = th[u] /\ Job(u)' = Job(u)
    BY <1>3 DEF PInv
  <2>2. ASSUME Working(u) PROVE Owned(u)'
    <3>1. Owned(u) /\ tail < th[u].seen + Entries
      BY <1>5, <2>2
    <3>2. ASSUME NEW v \in Threads \ {u}, Working(v)' PROVE th'[v].seen # th'[u].seen
      <4>1. CASE v = t
        BY <1>1, <1>3, <2>1, <3>1, <4>1 DEF Owned
      <4>2. CASE v # t
        BY <1>3, <2>1, <3>1, <3>2, <4>2 DEF Owned, Working
      <4> QED  BY <4>1, <4>2
    <3>3. th'[u].seen < tail' /\ tail' <= th'[u].seen + Entries
      BY <1>1, <1>3, <2>1, <3>1 DEF Owned
    <3> QED  BY <1>3, <2>1, <3>1, <3>2, <3>3 DEF Owned
  <2>3. th[u].pc = "publish" => th[u].seen <= tail'
    BY <1>1, <1>3, <2>1 DEF Position
  <2> QED  BY <1>5, <2>1, <2>2, <2>3 DEF Position, Working
<1>8. Position(t)'
  BY <1>3, <1>6 DEF Position, Working
<1> QED  BY <1>4, <1>7, <1>8 DEF PInv

\* Publishing is no race if it does not go back behind the kernel's head.
LEMMA PublishPositions ==
    ASSUME TypeOK, PInv, NEW t \in Threads, Publish(t), Clean' PROVE PInv'
<1>1. /\ th \in [Threads -> ThType] /\ khead \in Nat /\ tail \in Nat /\ race \in Races
      /\ th[t].seen \in Nat
  BY Typed
<1>2. ~(th[t].seen < khead) /\ race'.early = race.early
  <2>1. race' = [race EXCEPT !.tail = race.tail \/ th[t].seen < khead]
    BY DEF Publish
  <2>2. race'.tail = (race.tail \/ th[t].seen < khead) /\ race'.early = race.early
    BY <1>1, <2>1 DEF Races
  <2> QED  BY <2>2 DEF Clean
<1>3. /\ UNCHANGED <<khead, tail, taken>> /\ ktail' = th[t].seen /\ th'[t].pc = "enter"
      /\ \A u \in Threads \ {t} : th'[u] = th[u] /\ Job(u)' = Job(u)
  BY <1>1 DEF Publish, ThType, Job
<1>4. Counters'
  <2>1. th[t].seen <= tail
    BY DEF PInv, Position, Publish
  <2> QED  BY <1>1, <1>2, <1>3, <2>1 DEF PInv, Counters
<1>5. ASSUME NEW u \in Threads \ {t} PROVE Position(u)'
  <2>1. Position(u) /\ th'[u] = th[u] /\ Job(u)' = Job(u)
    BY <1>3 DEF PInv
  <2>2. \A v \in Threads : /\ Working(v)' => Working(v) /\ th'[v] = th[v]
                           /\ th'[v].pc = "advance" => th[v].pc = "advance"
    BY <1>3 DEF Working
  <2>3. Owned(u) => Owned(u)'
    BY <1>2, <1>3, <2>1, <2>2 DEF Owned
  <2>4. Behind(u) => Behind(u)'
    BY <1>3, <2>1, <2>2 DEF Behind
  <2> QED  BY <1>3, <2>1, <2>3, <2>4 DEF Position, Working
<1>6. Position(t)'
  BY <1>3 DEF Position, Working
<1> QED  BY <1>4, <1>5, <1>6 DEF PInv

\* The kernel takes at most what is published.
LEMMA BatchPublished ==
    ASSUME TypeOK, PInv, NEW t \in Threads
    PROVE  Batch(t) \in Nat /\ khead + Batch(t) <= ktail
<1>1. khead \in Nat /\ ktail \in Nat /\ tail \in Nat /\ th[t].todo \in 0 .. WordSize - 1
  BY Typed
<1>2. khead <= ktail /\ ktail <= khead + Entries /\ Entries \in Nat
  BY <1>1, RingAssumption DEF PInv, Counters
<1>3. Distance(khead, ktail) = ktail - khead
  BY <1>1, <1>2, DistanceSmall
<1> QED  BY <1>1, <1>2, <1>3, RingAssumption DEF Batch, Min2

LEMMA EnterPositions ==
    ASSUME TypeOK, PInv, NEW t \in Threads, Enter(t) PROVE PInv'
<1>1. /\ th \in [Threads -> ThType] /\ khead \in Nat /\ ktail \in Nat /\ tail \in Nat
      /\ race \in Races /\ \A u \in Threads : th[u].seen \in Nat
      /\ Entries \in Nat /\ Counters
  BY Typed, RingAssumption DEF PInv
<1>2. PICK k \in Nat : k = Batch(t) /\ khead + k <= ktail
  BY BatchPublished
<1>3. /\ khead' = khead + k /\ UNCHANGED <<ktail, tail>>
      /\ th'[t].pc \in {"get", "idle"}
      /\ \A u \in Threads \ {t} : th'[u] = th[u] /\ Job(u)' = Job(u)
      /\ race'.early = race.early \cup TakenEarly(k)
  BY <1>1, <1>2 DEF Enter, Resumed, ThType, Races, Job
<1>4. Len(taken') = Len(taken) + k
  BY <1>2, EnterTakes
<1>5. Counters'
  BY <1>1, <1>2, <1>3, <1>4 DEF Counters
<1>6. ASSUME NEW u \in Threads \ {t} PROVE Position(u)'
  <2>1. Position(u) /\ th'[u] = th[u] /\ Job(u)' = Job(u)
    BY <1>3 DEF PInv
  <2>2. \A v \in Threads : /\ Working(v)' => Working(v) /\ th'[v] = th[v]
                           /\ th'[v].pc = "advance" => th[v].pc = "advance"
    BY <1>3 DEF Working
  <2>3. ASSUME Working(u) PROVE Owned(u)'
    <3>1. Owned(u)
      BY <2>1, <2>3 DEF Position
    <3>2. th[u].seen < khead + k => <<th[u].seen, Job(u)>> \in race'.early
      <4>1. CASE th[u].seen < khead
        BY <1>3, <3>1, <4>1 DEF Owned
      <4>2. CASE ~(th[u].seen < khead) /\ th[u].seen < khead + k
        <5>1. th[u].seen \in khead .. khead + k - 1
          BY <1>1, <1>2, <4>2
        <5> QED  BY <1>3, <2>3, <5>1 DEF TakenEarly, Working
      <4> QED  BY <4>1, <4>2
    <3>3. \A v \in Threads \ {u} : Working(v)' => th'[v].seen # th'[u].seen
      BY <2>1, <2>2, <3>1 DEF Owned
    <3> QED  BY <1>3, <2>1, <3>1, <3>2, <3>3 DEF Owned
  <2>4. Behind(u) => Behind(u)'
    <3> SUFFICES ASSUME Behind(u) PROVE Behind(u)'
      OBVIOUS
    <3>1. tail < khead' + Entries
      BY <1>1, <1>2, <1>3 DEF Behind
    <3>2. \A v \in Threads \ {u} : /\ th'[v].pc # "advance"
                                   /\ Working(v)' => tail' < th'[v].seen + Entries
      BY <1>3, <2>2 DEF Behind
    <3> QED  BY <1>3, <2>1, <3>1, <3>2 DEF Behind
  <2> QED  BY <1>3, <2>1, <2>3, <2>4 DEF Position, Working
<1>7. Position(t)'
  BY <1>3 DEF Position, Working
<1> QED  BY <1>5, <1>6, <1>7 DEF PInv

LEMMA PStep == TypeOK /\ PInv /\ [Next]_vars /\ Clean' => PInv'
<1> SUFFICES ASSUME TypeOK, PInv, [Next]_vars, Clean' PROVE PInv'
  OBVIOUS
<1>1. ASSUME NEW t \in Threads,
             \/ Begin(t) \/ (BeginRound /\ t = Main) \/ GetSqeFull(t) \/ LeaveUnprepared(t)
             \/ Prepare(t) \/ SetData(t) \/ SetState(t) \/ ReadTail(t) \/ EnterFails(t)
      PROVE  PInv'
  BY <1>1, QuietSteps, QuietPositions
<1>2. CASE UNCHANGED vars
  BY <1>2 DEF vars, PInv, Counters, Position, Behind, Owned, Working, Job
<1>3. CASE BeginRound
  BY <1>1, <1>3, RingAssumption
<1> QED  BY <1>1, <1>2, <1>3, GetSqePositions, AdvancePositions, PublishPositions,
            EnterPositions DEF Next

---------------------------------------------------------------------------
(* What the entries hold.                                                  *)

\* A step of a thread.
Moves(t) == Works(t) \/ Begin(t) \/ (BeginRound /\ t = Main)

\* The entry of a thread that has prepared it, and of one that has finished it.
Filled(t) ==
    /\ th[t].pc = "data" => slots[Slot(th[t].seen)].op = Job(t)
    /\ th[t].pc = "state" => /\ slots[Slot(th[t].seen)].op = Job(t)
                             /\ slots[Slot(th[t].seen)].data = Job(t)

\* A slot that no thread is filling is whole.
Sound(s) ==
    \/ Whole(slots[s])
    \/ \E t \in Threads : th[t].pc \in {"data", "state"} /\ Slot(th[t].seen) = s

WInv ==
    /\ \A t \in Threads : Filled(t)
    /\ \A s \in 0 .. Entries - 1 : Sound(s)

LEMMA InitWInv == Init => WInv
<1> SUFFICES ASSUME Init PROVE WInv
  OBVIOUS
<1>1. \A s \in 0 .. Entries - 1 : slots[s] = [op |-> Blank, data |-> Blank]
  BY DEF Init
<1>2. \A s \in 0 .. Entries - 1 : Sound(s)
  BY <1>1 DEF Sound, Whole
<1>3. \A t \in Threads : Filled(t)
  BY DEF Init, Filled
<1> QED  BY <1>2, <1>3 DEF WInv

\* Entries less than one turn behind the tail lie in different slots.
LEMMA SameTurn ==
    ASSUME TypeOK, NEW a \in Nat, NEW b \in Nat, Slot(a) = Slot(b),
           a < tail, tail <= a + Entries, b < tail, tail <= b + Entries
    PROVE  a = b
<1>1. tail \in Nat /\ Entries \in Nat
  BY Typed, RingAssumption
<1>2. a < b => b < a + Entries
  BY <1>1
<1>3. b < a => a < b + Entries
  BY <1>1
<1> QED  BY <1>2, <1>3, SlotsApart

LEMMA OwnSlot ==
    ASSUME TypeOK, PInv, NEW t \in Threads, NEW u \in Threads \ {t}, Working(t), Working(u)
    PROVE  Slot(th[t].seen) # Slot(th[u].seen)
<1>1. th[t].seen \in Nat /\ th[u].seen \in Nat
  BY Typed
<1>2. Owned(t) /\ Owned(u)
  BY DEF PInv, Position
<1> QED  BY <1>1, <1>2, SameTurn DEF Owned

LEMMA OwnPosition ==
    ASSUME TypeOK, PInv, NEW t \in Threads, Working(t), NEW p \in khead .. tail - 1,
           Slot(p) = Slot(th[t].seen)
    PROVE  p = th[t].seen
<1>1. th[t].seen \in Nat /\ khead \in Nat /\ tail \in Nat /\ Entries \in Nat
  BY Typed, RingAssumption
<1>2. p \in Nat /\ p < tail /\ tail <= p + Entries
  <2>1. tail <= khead + Entries
    BY DEF PInv, Counters
  <2> QED  BY <1>1, <2>1
<1>3. th[t].seen < tail /\ tail <= th[t].seen + Entries
  BY DEF PInv, Position, Owned
<1> QED  BY <1>1, <1>2, <1>3, SameTurn

\* Slots are written by Prepare and SetData only, each its own.
LEMMA SlotsStep ==
    ASSUME TypeOK, NEW t \in Threads, Moves(t), NEW s \in 0 .. Entries - 1,
           s = Slot(th[t].seen) => ~Prepare(t) /\ ~SetData(t)
    PROVE  slots'[s] = slots[s]
<1>1. slots \in [0 .. Entries - 1 -> Entry]
  BY Typed
<1>2. CASE Prepare(t) \/ SetData(t)
  BY <1>1, <1>2 DEF Prepare, SetData
<1>3. CASE ~Prepare(t) /\ ~SetData(t)
  BY <1>3 DEF Moves, Works, GetSqe, GetSqeFull, Advance, LeaveUnprepared, SetState, ReadTail,
              Publish, Enter, EnterFails, Begin, BeginRound
<1> QED  BY <1>2, <1>3

LEMMA MarkedGrows ==
    ASSUME NEW t \in Threads, Moves(t) PROVE marked \subseteq marked'
BY DEF Moves, Works, GetSqe, GetSqeFull, Advance, LeaveUnprepared, Prepare, SetData, SetState,
       ReadTail, Publish, Enter, EnterFails, Begin, BeginRound

\* A thread comes to fill an entry, or goes on, only by Prepare and SetData.
LEMMA FillingStep ==
    ASSUME TypeOK, NEW t \in Threads, Moves(t)
    PROVE  /\ th'[t].pc = "data" => Prepare(t)
           /\ th'[t].pc = "state" => SetData(t)
           /\ Prepare(t) \/ SetData(t) => th'[t].seen = th[t].seen /\ Working(t)
<1>1. th \in [Threads -> ThType]
  BY Typed
<1>2. CASE Works(t)
  BY <1>1, <1>2 DEF Works, GetSqe, GetSqeFull, Advance, LeaveUnprepared, Prepare, SetData,
                    AfterData, SetState, ReadTail, Publish, Enter, EnterFails, Resumed, ThType,
                    Working
<1>3. CASE Begin(t)
  <2>1. PICK m \in {"now", "later"} :
          th' = [th EXCEPT ![t].pc = "get", ![t].mode = m, ![t].n = @ + 1, ![t].again = FALSE]
    BY <1>3 DEF Begin
  <2>2. th'[t].pc = "get" /\ th[t].pc = "idle"
    BY <1>1, <1>3, <2>1 DEF Begin, ThType
  <2> QED  BY <2>2 DEF Prepare, SetData
<1>4. CASE BeginRound /\ t = Main
  <2>1. th'[t].pc = "flush" /\ th[t].pc = "idle"
    BY <1>1, <1>4 DEF BeginRound, ThType
  <2> QED  BY <2>1 DEF Prepare, SetData
<1> QED  BY <1>2, <1>3, <1>4 DEF Moves

LEMMA OthersStay ==
    ASSUME TypeOK, NEW t \in Threads, Moves(t)
    PROVE  \A u \in Threads \ {t} : th'[u] = th[u] /\ Job(u)' = Job(u)
BY OnlyOwn DEF Moves

LEMMA FilledStep ==
    ASSUME MInv, PInv, WInv, NEW t \in Threads, Moves(t), NEW u \in Threads PROVE Filled(u)'
<1>1. /\ TypeOK /\ th \in [Threads -> ThType] /\ Filled(u) /\ Filled(t)
      /\ \A v \in Threads : th[v].seen \in Nat /\ Slot(th[v].seen) \in 0 .. Entries - 1
      /\ slots \in [0 .. Entries - 1 -> Entry]
  <2>1. TypeOK
    BY DEF MInv, TInv
  <2>2. \A v \in Threads : th[v].seen \in Nat /\ th[v].seen \in Int
    BY <2>1, Typed
  <2> QED  BY <2>1, <2>2, Typed, SlotType DEF WInv
<1>2. CASE u # t
  <2>1. th'[u] = th[u] /\ Job(u)' = Job(u)
    BY <1>1, <1>2, OthersStay
  <2>2. ASSUME Working(u) PROVE slots'[Slot(th[u].seen)] = slots[Slot(th[u].seen)]
    <3>1. Prepare(t) \/ SetData(t) => Slot(th[u].seen) # Slot(th[t].seen)
      BY <1>1, <1>2, <2>2, FillingStep, OwnSlot
    <3>2. PICK s \in 0 .. Entries - 1 : s = Slot(th[u].seen)
      BY <1>1
    <3> QED  BY <1>1, <3>1, <3>2, SlotsStep
  <2>3. Slot(th'[u].seen) = Slot(th[u].seen)
    BY <2>1
  <2> QED  BY <1>1, <2>1, <2>2, <2>3 DEF Filled, Working, Slot
<1>3. CASE u = t
  <2>1. ASSUME th'[t].pc = "data" PROVE slots'[Slot(th'[t].seen)].op = Job(t)'
    <3>1. Prepare(t) /\ th'[t].seen = th[t].seen
      BY <1>1, <2>1, FillingStep
    <3>2. Job(t)' = Job(t)
      BY <1>1, <3>1, SameNumber DEF Works
    <3>3. slots' = [slots EXCEPT ![Slot(th[t].seen)].op = Job(t)]
      BY <3>1 DEF Prepare
    <3>4. slots'[Slot(th[t].seen)].op = Job(t)
      BY <1>1, <3>3 DEF Entry
    <3> QED  BY <3>1, <3>2, <3>4
  <2>2. ASSUME th'[t].pc = "state"
        PROVE  /\ slots'[Slot(th'[t].seen)].op = Job(t)'
               /\ slots'[Slot(th'[t].seen)].data = Job(t)'
    <3>1. SetData(t) /\ th'[t].seen = th[t].seen /\ th[t].pc = "data"
      BY <1>1, <2>2, FillingStep DEF SetData
    <3>2. Job(t)' = Job(t)
      BY <1>1, <3>1, SameNumber DEF Works
    <3>3. slots' = [slots EXCEPT ![Slot(th[t].seen)].data = Job(t)]
      BY <3>1 DEF SetData
    <3>4. /\ slots'[Slot(th[t].seen)].data = Job(t)
          /\ slots'[Slot(th[t].seen)].op = slots[Slot(th[t].seen)].op
      BY <1>1, <3>3 DEF Entry
    <3> QED  BY <1>1, <3>1, <3>2, <3>4 DEF Filled
  <2> QED  BY <1>3, <2>1, <2>2 DEF Filled, Slot
<1> QED  BY <1>2, <1>3

LEMMA SoundStep ==
    ASSUME MInv, PInv, WInv, NEW t \in Threads, Moves(t), NEW s \in 0 .. Entries - 1
    PROVE  Sound(s)'
<1>1. /\ TypeOK /\ th \in [Threads -> ThType] /\ Filled(t) /\ Marks(t) /\ Sound(s)
      /\ slots \in [0 .. Entries - 1 -> Entry]
  <2>1. TypeOK
    BY DEF MInv, TInv
  <2> QED  BY <2>1, Typed DEF WInv, MInv
<1>2. marked \subseteq marked'
  BY MarkedGrows
<1>3. CASE Prepare(t) /\ s = Slot(th[t].seen)
  <2>1. th'[t].pc = "data" /\ th'[t].seen = th[t].seen
    BY <1>1, <1>3, FillingStep DEF Prepare, ThType
  <2>2. Slot(th'[t].seen) = s
    BY <1>3, <2>1
  <2> QED  BY <2>1, <2>2 DEF Sound, Slot
<1>4. CASE SetData(t) /\ s = Slot(th[t].seen)
  <2>1. /\ th[t].pc = "data" /\ th'[t].pc = AfterData(t) /\ th'[t].seen = th[t].seen
        /\ slots' = [slots EXCEPT ![s].data = Job(t)] /\ marked' = marked
    BY <1>1, <1>4, FillingStep DEF SetData, ThType
  <2>2. CASE t = Main
    <3>1. slots[s].op = Job(t) /\ Job(t) \in marked
      BY <1>1, <1>4, <2>1, <2>2 DEF Filled, Marks
    <3>2. slots'[s].data = Job(t) /\ slots'[s].op = slots[s].op
      BY <1>1, <2>1 DEF Entry
    <3> QED  BY <2>1, <3>1, <3>2 DEF Sound, Whole
  <2>3. CASE t # Main
    <3>1. th'[t].pc = "state" /\ Slot(th'[t].seen) = s
      BY <1>4, <2>1, <2>3 DEF AfterData
    <3> QED  BY <3>1 DEF Sound, Slot
  <2> QED  BY <2>2, <2>3
<1>5. CASE s = Slot(th[t].seen) => ~Prepare(t) /\ ~SetData(t)
  <2>1. slots'[s] = slots[s]
    BY <1>1, <1>5, SlotsStep
  <2>2. CASE Whole(slots[s])
    <3>1. Whole(slots[s])'
      BY <1>2, <2>1, <2>2 DEF Whole
    <3> QED  BY <3>1 DEF Sound
  <2>3. ASSUME NEW v \in Threads, th[v].pc \in {"data", "state"}, Slot(th[v].seen) = s
        PROVE  Sound(s)'
    <3>1. CASE v # t
      <4>1. th'[v] = th[v]
        BY <1>1, <3>1, OthersStay
      <4>2. Slot(th'[v].seen) = s
        BY <2>3, <4>1
      <4> QED  BY <2>3, <4>1, <4>2 DEF Sound, Slot
    <3>2. CASE v = t
      <4>1. SetState(t)
        BY <1>5, <2>3, <3>2 DEF Moves, Works, GetSqe, GetSqeFull, Advance, LeaveUnprepared,
              Prepare, SetData, ReadTail, Publish, Enter, EnterFails, Begin, BeginRound
      <4>2. slots[s].op = Job(t) /\ slots[s].data = Job(t) /\ Job(t) \in marked'
        BY <1>1, <2>3, <3>2, <4>1 DEF SetState, Filled
      <4>3. Whole(slots[s])'
        BY <2>1, <4>2 DEF Whole
      <4> QED  BY <4>3 DEF Sound
    <3> QED  BY <3>1, <3>2
  <2> QED  BY <1>1, <2>2, <2>3 DEF Sound
<1> QED  BY <1>3, <1>4, <1>5

\* The kernel takes whole entries, or records that it was early.
LEMMA WholeStep ==
    ASSUME MInv, PInv, WInv, Clean, Clean', TakenWhole, NEW t \in Threads, Moves(t)
    PROVE  TakenWhole'
<1>1. TypeOK /\ marked \subseteq marked' /\ race.early \subseteq race'.early
  <2>1. TypeOK
    BY DEF MInv, TInv
  <2>2. [Next]_vars
    BY DEF Moves, Works, Next
  <2> QED  BY <2>1, <2>2, MarkedGrows, RacesStay
<1>2. ASSUME NEW i \in DOMAIN taken, taken'[i] = taken[i]
      PROVE  Whole(taken[i])' \/ \E e \in race'.early : e[1] = i - 1
  <2>1. Whole(taken[i]) \/ \E e \in race.early : e[1] = i - 1
    BY DEF TakenWhole
  <2>2. Whole(taken[i]) => Whole(taken[i])'
    BY <1>1, <1>2 DEF Whole
  <2> QED  BY <1>1, <2>1, <2>2
<1>3. CASE ~Enter(t)
  <2>1. taken' = taken
    BY <1>3 DEF Moves, Works, GetSqe, GetSqeFull, Advance, LeaveUnprepared, Prepare, SetData,
                SetState, ReadTail, Publish, EnterFails, Begin, BeginRound
  <2> QED  BY <1>2, <2>1 DEF TakenWhole
<1>4. CASE Enter(t)
  <2>1. /\ khead \in Nat /\ ktail \in Nat /\ tail \in Nat /\ Len(taken) = khead
        /\ \A v \in Threads : th[v].seen \in Nat
        /\ slots \in [0 .. Entries - 1 -> Entry] /\ race \in Races
    BY <1>1, Typed DEF PInv, Counters
  <2>2. PICK k \in Nat : k = Batch(t) /\ khead + k <= ktail /\ khead + k <= tail
    <3>1. ktail <= tail
      BY DEF PInv, Counters
    <3> QED  BY <1>1, <2>1, <3>1, BatchPublished
  <2>3. race'.early = race.early \cup TakenEarly(k)
    BY <1>4, <2>1, <2>2 DEF Enter, Races
  <2>4. ASSUME NEW i \in khead + 1 .. khead + k
        PROVE  Whole(taken[i])' \/ \E e \in race'.early : e[1] = i - 1
    <3>1. PICK p \in khead .. tail - 1, m \in 1 .. k : p = i - 1 /\ i = khead + m
      <4>1. i - 1 \in khead .. tail - 1 /\ i - khead \in 1 .. k /\ i = khead + (i - khead)
        BY <2>1, <2>2
      <4> QED  BY <4>1
    <3>2. taken'[i] = slots[Slot(p)] /\ Slot(p) \in 0 .. Entries - 1
      <4>1. p = khead + m - 1
        BY <2>1, <3>1
      <4> QED  BY <1>1, <1>4, <2>1, <2>2, <3>1, <4>1, EnterTakes
    <3>3. CASE Whole(slots[Slot(p)])
      <4>1. marked' = marked
        BY <1>4 DEF Enter
      <4>2. Whole(taken[i])'
        BY <3>2, <3>3, <4>1 DEF Whole
      <4> QED  BY <4>2
    <3>4. ASSUME NEW v \in Threads, th[v].pc \in {"data", "state"}, Slot(th[v].seen) = Slot(p)
          PROVE  \E e \in race'.early : e[1] = i - 1
      <4>1. p = th[v].seen
        BY <1>1, <3>4, OwnPosition DEF Working
      <4>2. p \in khead .. khead + k - 1
        BY <2>1, <2>2, <3>1
      <4>3. <<p, Job(v)>> \in TakenEarly(k)
        BY <3>4, <4>1, <4>2 DEF TakenEarly
      <4>4. <<p, Job(v)>> \in race'.early /\ <<p, Job(v)>>[1] = i - 1
        BY <2>3, <3>1, <4>3
      <4> QED  BY <4>4
    <3>5. Sound(Slot(p))
      BY <3>2 DEF WInv
    <3> QED  BY <3>3, <3>4, <3>5 DEF Sound
  <2>5. DOMAIN taken = 1 .. khead /\ DOMAIN taken' = 1 .. khead + k
    BY <1>1, <1>4, <2>1, <2>2, EnterTakes
  <2>6. ASSUME NEW i \in 1 .. khead + k
        PROVE  Whole(taken[i])' \/ \E e \in race'.early : e[1] = i - 1
    <3>1. CASE i <= khead
      <4>1. i \in DOMAIN taken /\ taken'[i] = taken[i]
        BY <1>1, <1>4, <2>1, <2>5, <3>1, EnterTakes
      <4> QED  BY <1>2, <4>1
    <3>2. CASE i > khead
      <4>1. i \in khead + 1 .. khead + k
        BY <2>1, <3>2
      <4> QED  BY <2>4, <4>1
    <3> QED  BY <2>1, <3>1, <3>2
  <2> QED  BY <2>5, <2>6 DEF TakenWhole
<1> QED  BY <1>3, <1>4

---------------------------------------------------------------------------
(* Where the operations are that were set up.                              *)

\* The operation was given up, or the kernel was early and has it, or it lies in
\* the ring and no thread is going to write over it.
Kept(j) ==
    \/ j \in dropped
    \/ \E e \in race.early : e[2] = j
    \/ \E i \in DOMAIN taken : taken[i].data = j
    \/ \E p \in khead .. tail - 1 :
         /\ slots[Slot(p)].data = j
         /\ \A u \in Threads : th[u].pc \in {"prep", "data"} => th[u].seen # p

KInv == \A t \in Threads : \A j \in SetUp(t) : Kept(j)

LEMMA InitKInv == Init => KInv
<1> SUFFICES ASSUME Init, NEW t \in Threads, NEW j \in SetUp(t) PROVE FALSE
  BY DEF KInv
<1>1. th[t].n = 0
  BY DEF Init
<1>2. PICK k \in 1 .. MaxOps(t) : k < th[t].n \/ k = th[t].n
  BY DEF SetUp
<1> QED  BY <1>1, <1>2, JobsOf

\* The histories grow.
LEMMA HistoriesGrow ==
    ASSUME TypeOK, NEW t \in Threads, Moves(t)
    PROVE  /\ dropped \subseteq dropped' /\ race.early \subseteq race'.early
           /\ \A i \in DOMAIN taken : i \in DOMAIN taken' /\ taken'[i] = taken[i]
<1>1. race.early \subseteq race'.early
  BY RacesStay DEF Moves, Works, Next
<1>2. dropped \subseteq dropped'
  BY DEF Moves, Works, GetSqe, GetSqeFull, Advance, LeaveUnprepared, Prepare, SetData, SetState,
         ReadTail, Publish, Enter, EnterFails, Begin, BeginRound
<1>3. CASE Enter(t)
  <2>1. Len(taken) \in Nat /\ Batch(t) \in Nat
    BY <1>3, EnterTakes
  <2> QED  BY <1>1, <1>2, <1>3, <2>1, EnterTakes
<1>4. CASE ~Enter(t)
  <2>1. taken' = taken
    BY <1>4 DEF Moves, Works, GetSqe, GetSqeFull, Advance, LeaveUnprepared, Prepare, SetData,
                SetState, ReadTail, Publish, EnterFails, Begin, BeginRound
  <2> QED  BY <1>1, <1>2, <2>1
<1> QED  BY <1>3, <1>4

\* The counters, without Enter.
LEMMA CountersStep ==
    ASSUME TypeOK, PInv, NEW t \in Threads, Moves(t), ~Enter(t)
    PROVE  /\ khead' = khead /\ taken' = taken /\ tail' = IF Advance(t) THEN tail + 1 ELSE tail
           /\ Advance(t) => th[t].seen = tail
<1>1. khead' = khead /\ taken' = taken
  BY DEF Moves, Works, GetSqe, GetSqeFull, Advance, LeaveUnprepared, Prepare, SetData, SetState,
         ReadTail, Publish, EnterFails, Begin, BeginRound
<1>2. CASE Advance(t)
  <2>1. th[t].seen = tail
    BY <1>2 DEF PInv, Position, Behind, Advance
  <2> QED  BY <1>1, <1>2, <2>1 DEF Advance
<1>3. CASE ~Advance(t)
  <2>1. tail' = tail
    BY <1>3 DEF Moves, Works, GetSqe, GetSqeFull, LeaveUnprepared, Prepare, SetData, SetState,
                ReadTail, Publish, EnterFails, Begin, BeginRound
  <2> QED  BY <1>1, <1>3, <2>1
<1> QED  BY <1>2, <1>3

\* A thread that is to fill an entry after its step was given it by this step,
\* or was to fill it before.
LEMMA FillersStep ==
    ASSUME TypeOK, NEW t \in Threads, Moves(t), th'[t].pc \in {"prep", "data"}
    PROVE  /\ th'[t].seen = th[t].seen /\ Job(t)' = Job(t)
           /\ Advance(t) \/ (Prepare(t) /\ th[t].pc = "prep")
<1>1. th \in [Threads -> ThType]
  BY Typed
<1>2. CASE Works(t)
  <2>1. Advance(t) \/ Prepare(t)
    BY <1>1, <1>2 DEF Works, GetSqe, GetSqeFull, Advance, LeaveUnprepared, Prepare, SetData,
                    AfterData, SetState, ReadTail, Publish, Enter, EnterFails, Resumed, ThType
  <2>2. th'[t].seen = th[t].seen
    BY <1>1, <2>1 DEF Advance, Prepare, ThType
  <2> QED  BY <1>2, <2>1, <2>2, SameNumber DEF Prepare
<1>3. CASE Begin(t)
  <2>1. PICK m \in {"now", "later"} :
          th' = [th EXCEPT ![t].pc = "get", ![t].mode = m, ![t].n = @ + 1, ![t].again = FALSE]
    BY <1>3 DEF Begin
  <2> QED  BY <1>1, <2>1 DEF ThType
<1>4. CASE BeginRound /\ t = Main
  BY <1>1, <1>4 DEF BeginRound, ThType
<1> QED  BY <1>2, <1>3, <1>4 DEF Moves

\* An entry of the ring that nobody is to fill keeps its user_data.
LEMMA DataStays ==
    ASSUME TypeOK, PInv, NEW t \in Threads, Moves(t), NEW p \in khead .. tail - 1,
           th[t].pc = "data" => th[t].seen # p
    PROVE  slots'[Slot(p)].data = slots[Slot(p)].data
<1>1. /\ slots \in [0 .. Entries - 1 -> Entry] /\ khead \in Nat /\ tail \in Nat
  BY Typed
<1>2. PICK s \in 0 .. Entries - 1 : s = Slot(p)
  BY <1>1, SlotType
<1>3. CASE Prepare(t)
  <2>1. slots' = [slots EXCEPT ![Slot(th[t].seen)].op = Job(t)]
    BY <1>3 DEF Prepare
  <2>2. slots'[s].data = slots[s].data
    BY <1>1, <2>1 DEF Entry
  <2> QED  BY <1>2, <2>2
<1>4. CASE SetData(t)
  <2>1. th[t].pc = "data" /\ Working(t)
    BY <1>4 DEF SetData, Working
  <2>2. Slot(p) # Slot(th[t].seen)
    BY <2>1, OwnPosition
  <2> QED  BY <1>1, <1>2, <1>4, <2>2 DEF SetData
<1>5. CASE ~Prepare(t) /\ ~SetData(t)
  BY <1>2, <1>5, SlotsStep
<1> QED  BY <1>3, <1>4, <1>5

LEMMA KeptStep ==
    ASSUME TypeOK, PInv, NEW t \in Threads, Moves(t), NEW j, Kept(j) PROVE Kept(j)'
<1>0. /\ khead \in Nat /\ ktail \in Nat /\ tail \in Nat /\ Len(taken) = khead
      /\ th \in [Threads -> ThType]
  BY Typed DEF PInv, Counters
<1>1. CASE j \in dropped \/ (\E e \in race.early : e[2] = j)
            \/ \E i \in DOMAIN taken : taken[i].data = j
  BY <1>1, HistoriesGrow DEF Kept
<1>2. ASSUME NEW p \in khead .. tail - 1, slots[Slot(p)].data = j,
             \A u \in Threads : th[u].pc \in {"prep", "data"} => th[u].seen # p
      PROVE  Kept(j)'
  <2>1. slots'[Slot(p)].data = j
    BY <1>2, DataStays
  <2>2. ASSUME NEW u \in Threads, th'[u].pc \in {"prep", "data"} PROVE th'[u].seen # p
    <3>1. CASE u # t
      <4>1. th'[u] = th[u]
        BY <3>1, OthersStay
      <4> QED  BY <1>2, <2>2, <4>1
    <3>2. CASE u = t
      <4>1. /\ th'[t].seen = th[t].seen
            /\ Advance(t) \/ (Prepare(t) /\ th[t].pc = "prep")
        BY <2>2, <3>2, FillersStep
      <4>2. CASE Advance(t)
        <5>1. ~Enter(t)
          BY <4>2 DEF Advance, Enter
        <5> QED  BY <1>0, <3>2, <4>1, <4>2, <5>1, CountersStep
      <4>3. CASE th[t].pc = "prep"
        BY <1>2, <3>2, <4>1, <4>3
      <4> QED  BY <4>1, <4>2, <4>3
    <3> QED  BY <3>1, <3>2
  <2>3. CASE ~Enter(t)
    <3>1. p \in khead' .. tail' - 1
      BY <1>0, <2>3, CountersStep
    <3>2. Slot(p)' = Slot(p)
      BY DEF Slot
    <3> QED  BY <2>1, <2>2, <3>1, <3>2 DEF Kept
  <2>4. CASE Enter(t)
    <3>1. PICK k \in Nat : k = Batch(t) /\ khead' = khead + k /\ tail' = tail /\ slots' = slots
      BY <2>4, EnterTakes DEF Enter
    <3>2. CASE p >= khead + k
      <4>1. p \in khead' .. tail' - 1
        BY <1>0, <3>1, <3>2
      <4> QED  BY <2>1, <2>2, <4>1 DEF Kept, Slot
    <3>3. CASE ~(p >= khead + k)
      <4>1. PICK i \in 1 .. k : p = khead + i - 1
        <5>1. p - khead + 1 \in 1 .. k /\ p = khead + (p - khead + 1) - 1
          BY <1>0, <3>1, <3>3
        <5> QED  BY <5>1
      <4>2. PICK q \in Nat : q = Len(taken) + i
        BY <1>0
      <4>3. taken'[q] = slots[Slot(p)] /\ q \in DOMAIN taken'
        <5>1. q \in 1 .. Len(taken) + k
          BY <1>0, <4>2
        <5> QED  BY <2>4, <3>1, <4>1, <4>2, <5>1, EnterTakes
      <4> QED  BY <1>2, <4>3 DEF Kept
    <3> QED  BY <3>2, <3>3
  <2> QED  BY <2>3, <2>4
<1> QED  BY <1>1, <1>2 DEF Kept

\* An operation ceases to be pending when it is dropped, or lies in the ring.
LEMMA KeptNew ==
    ASSUME MInv, PInv, NEW t \in Threads, Works(t), Pending(t), ~Pending(t)'
    PROVE  Kept(Job(t))'
<1>0. /\ TypeOK /\ th \in [Threads -> ThType] /\ Marks(t) /\ Numbered(t)
      /\ khead \in Nat /\ tail \in Nat /\ th[t].seen \in Nat
      /\ slots \in [0 .. Entries - 1 -> Entry]
  <2>1. TypeOK
    BY DEF MInv, TInv
  <2> QED  BY <2>1, Typed DEF MInv, TInv
<1>1. /\ Job(t)' = Job(t) /\ th'[t].mode = th[t].mode
  BY <1>0, SameNumber
<1>2. CASE GetSqeFull(t) \/ LeaveUnprepared(t)
  <2>1. CASE Job(t) \in dropped'
    BY <1>1, <2>1 DEF Kept
  <2>2. CASE Job(t) \notin dropped'
    <3>1. /\ th[t].pc = "get" /\ th[t].mode # "later" /\ marked' = marked
          /\ th'[t].pc = "flush" /\ th'[t].again
      BY <1>0, <1>2, <2>2 DEF GetSqeFull, LeaveUnprepared, ThType
    <3>2. th[t].mode = "now" /\ Job(t) \notin marked
      BY <1>0, <3>1 DEF Numbered, Submitting, Marks, ThType
    <3>3. Pending(t)'
      BY <1>1, <3>1, <3>2 DEF Pending, Retries
    <3> QED  BY <3>3
  <2> QED  BY <2>1, <2>2
<1>3. CASE SetData(t)
  <2>1. /\ th[t].pc = "data" /\ th'[t].pc = AfterData(t)
        /\ slots' = [slots EXCEPT ![Slot(th[t].seen)].data = Job(t)]
        /\ khead' = khead /\ tail' = tail /\ race' = race
    BY <1>0, <1>3 DEF SetData, ThType
  <2>2. Owned(t)
    BY <2>1 DEF PInv, Position, Working
  <2>3. CASE th[t].seen < khead
    <3>1. <<th[t].seen, Job(t)>> \in race'.early
      BY <2>1, <2>2, <2>3 DEF Owned
    <3>2. \E e \in race'.early : e[2] = Job(t)
      BY <3>1
    <3> QED  BY <1>1, <3>2 DEF Kept
  <2>4. CASE ~(th[t].seen < khead)
    <3>1. PICK p \in khead' .. tail' - 1 : p = th[t].seen
      BY <1>0, <2>1, <2>2, <2>4 DEF Owned
    <3>2. slots'[Slot(p)].data = Job(t)
      <4>1. Slot(p) \in 0 .. Entries - 1
        BY <1>0, <3>1, SlotType
      <4> QED  BY <1>0, <2>1, <3>1, <4>1 DEF Entry
    <3>3. ASSUME NEW u \in Threads, th'[u].pc \in {"prep", "data"} PROVE th'[u].seen # p
      <4>1. u # t
        BY <2>1, <3>3 DEF AfterData
      <4>2. th'[u] = th[u]
        BY <1>0, <1>3, <4>1, OnlyOwn DEF Works
      <4> QED  BY <2>2, <3>1, <3>3, <4>1, <4>2 DEF Owned, Working
    <3>4. Slot(p)' = Slot(p)
      BY DEF Slot
    <3> QED  BY <1>1, <3>1, <3>2, <3>3, <3>4 DEF Kept
  <2> QED  BY <2>3, <2>4
<1>4. CASE GetSqe(t) \/ Advance(t) \/ Prepare(t)
  <2>1. th'[t].pc \in {"advance", "prep", "data"}
    BY <1>0, <1>4 DEF GetSqe, Advance, Prepare, ThType
  <2> QED  BY <2>1 DEF Pending
<1>5. CASE SetState(t)
  BY <1>5 DEF Pending, SetState
<1>6. CASE ReadTail(t) \/ Publish(t)
  <2>1. /\ th'[t].pc \in Submitting /\ th[t].pc \in Submitting
        /\ th'[t].again = th[t].again /\ marked' = marked
    BY <1>0, <1>6 DEF ReadTail, Publish, Submitting, ThType
  <2> QED  BY <1>1, <2>1 DEF Pending, Retries, Submitting
<1>7. CASE Enter(t) \/ EnterFails(t)
  <2>1. th[t].pc = "enter" /\ th'[t].pc = (IF Retries(t) THEN "get" ELSE "idle")
    BY <1>0, <1>7 DEF Enter, EnterFails, Resumed, ThType
  <2> QED  BY <2>1 DEF Pending
<1> QED  BY <1>2, <1>3, <1>4, <1>5, <1>6, <1>7 DEF Works

LEMMA KStep ==
    ASSUME MInv, PInv, KInv, NEW t \in Threads, Moves(t) PROVE KInv'
<1>0. /\ TypeOK /\ th \in [Threads -> ThType] /\ \A u \in Threads : th[u].n \in Nat
  <2>1. TypeOK
    BY DEF MInv, TInv
  <2> QED  BY <2>1, Typed
<1>1. ASSUME NEW u \in Threads, NEW k \in 1 .. MaxOps(u),
             k < th'[u].n \/ (k = th'[u].n /\ ~Pending(u)')
      PROVE  Kept(<<u, k>>)'
  <2>1. CASE k < th[u].n \/ (k = th[u].n /\ ~Pending(u))
    <3>1. <<u, k>> \in SetUp(u)
      BY <2>1 DEF SetUp
    <3>2. Kept(<<u, k>>)
      BY <3>1 DEF KInv
    <3> QED  BY <1>0, <3>2, KeptStep
  <2>2. CASE ~(k < th[u].n) /\ ~(k = th[u].n /\ ~Pending(u))
    <3>1. CASE u # t
      <4>1. th'[u] = th[u] /\ Job(u)' = Job(u)
        BY <1>0, <3>1, OthersStay
      <4>2. k = th[u].n /\ Pending(u) /\ ~Pending(u)'
        BY <1>0, <1>1, <2>2, <4>1
      <4>3. Retries(u) /\ ~Retries(u)'
        BY <4>1, <4>2 DEF Pending
      <4>4. Job(u) \notin marked /\ Job(u) \in marked'
        BY <4>1, <4>3 DEF Retries
      <4>5. Works(t)
        BY <4>4 DEF Moves, Begin, BeginRound
      <4>6. Job(u) = Job(t)
        BY <1>0, <4>4, <4>5, MarkedStep
      <4> QED  BY <3>1, <4>6 DEF Job
    <3>2. CASE u = t /\ Works(t)
      <4>1. th'[t].n = th[t].n /\ Job(t)' = Job(t)
        BY <1>0, <3>2, SameNumber
      <4>2. k = th[t].n /\ Pending(t) /\ ~Pending(t)'
        BY <1>0, <1>1, <2>2, <3>2, <4>1
      <4>3. Kept(Job(t))'
        BY <3>2, <4>2, KeptNew
      <4>4. <<u, k>> = Job(t)'
        BY <3>2, <4>1, <4>2 DEF Job
      <4> QED  BY <4>3, <4>4
    <3>3. CASE u = t /\ Begin(t)
      <4>1. PICK m \in {"now", "later"} :
              th' = [th EXCEPT ![t].pc = "get", ![t].mode = m, ![t].n = @ + 1, ![t].again = FALSE]
        BY <3>3 DEF Begin
      <4>2. th'[t].n = th[t].n + 1 /\ th'[t].pc = "get" /\ th[t].pc = "idle"
        BY <1>0, <3>3, <4>1 DEF Begin, ThType
      <4>3. Pending(t)' /\ ~Pending(t)
        BY <4>2 DEF Pending
      <4> QED  BY <1>0, <1>1, <2>2, <3>3, <4>2, <4>3
    <3>4. CASE u = t /\ BeginRound /\ t = Main
      <4>1. th'[t].n = th[t].n /\ th[t].pc = "idle"
        BY <1>0, <3>4 DEF BeginRound, ThType
      <4>2. ~Pending(t)
        BY <4>1 DEF Pending
      <4> QED  BY <1>0, <1>1, <2>2, <3>4, <4>1, <4>2
    <3> QED  BY <3>1, <3>2, <3>3, <3>4 DEF Moves
  <2> QED  BY <2>1, <2>2
<1>2. ASSUME NEW u \in Threads, NEW j \in SetUp(u)' PROVE Kept(j)'
  <2>1. PICK k \in 1 .. MaxOps(u) :
          j = <<u, k>> /\ (k < th'[u].n \/ (k = th'[u].n /\ ~Pending(u)'))
    BY <1>2 DEF SetUp, MaxOps
  <2> QED  BY <1>1, <2>1
<1> QED  BY <1>2 DEF KInv

---------------------------------------------------------------------------
(* What holds until the first race, of all threads together.               *)

UntilRace == Clean => PInv /\ WInv /\ KInv
RInv == MInv /\ UntilRace /\ TakenWhole

LEMMA InitRInv == Init => RInv
<1> SUFFICES ASSUME Init PROVE RInv
  OBVIOUS
<1>1. TakenWhole
  BY DEF Init, TakenWhole
<1> QED  BY <1>1, InitMInv, InitPInv, InitWInv, InitKInv DEF RInv, UntilRace

LEMMA RStep == RInv /\ [Next]_vars => RInv'
<1> SUFFICES ASSUME RInv, [Next]_vars PROVE RInv'
  OBVIOUS
<1>0. MInv /\ MInv' /\ TypeOK /\ (Clean' => Clean)
  <2>1. MInv /\ TypeOK
    BY DEF RInv, MInv, TInv
  <2> QED  BY <2>1, MStep, RacesStay
<1> SUFFICES ASSUME Clean' PROVE PInv' /\ WInv' /\ KInv' /\ TakenWhole'
  BY <1>0 DEF RInv, UntilRace, TakenWhole
<1>1. Clean /\ PInv /\ WInv /\ KInv /\ TakenWhole
  BY <1>0 DEF RInv, UntilRace
<1>2. PInv'
  BY <1>0, <1>1, PStep
<1>3. ASSUME NEW t \in Threads, Moves(t) PROVE WInv' /\ KInv' /\ TakenWhole'
  <2>1. KInv'
    BY <1>0, <1>1, <1>3, KStep
  <2>2. TakenWhole'
    BY <1>0, <1>1, <1>3, WholeStep
  <2>3. \A u \in Threads : Filled(u)'
    BY <1>0, <1>1, <1>3, FilledStep
  <2>4. \A s \in 0 .. Entries - 1 : Sound(s)'
    BY <1>0, <1>1, <1>3, SoundStep
  <2> QED  BY <2>1, <2>2, <2>3, <2>4 DEF WInv
<1>4. CASE UNCHANGED vars
  <2>1. WInv'
    BY <1>1, <1>4 DEF vars, WInv, Filled, Sound, Whole, Slot, Job
  <2>2. TakenWhole'
    BY <1>1, <1>4 DEF vars, TakenWhole, Whole, Clean
  <2>3. \A u \in Threads : SetUp(u)' = SetUp(u)
    BY <1>4 DEF vars, SetUp, Pending, Retries, Job, MaxOps
  <2>4. \A j : Kept(j) => Kept(j)'
    BY <1>4 DEF vars, Kept, Slot
  <2>5. ASSUME NEW u \in Threads, NEW j \in SetUp(u)' PROVE Kept(j)'
    <3>1. j \in SetUp(u)
      BY <2>3, <2>5
    <3> QED  BY <1>1, <2>4, <3>1 DEF KInv
  <2>6. KInv'
    BY <2>5 DEF KInv
  <2> QED  BY <1>2, <2>1, <2>2, <2>6
<1>5. (\E t \in Threads : Moves(t)) \/ UNCHANGED vars
  BY RingAssumption DEF Next, Moves, Works
<1> QED  BY <1>2, <1>3, <1>4, <1>5

\* Until two threads use one slot or the published tail goes back, whatever the
\* kernel takes is one whole operation whose connection has its state, unless
\* its thread is still at work on the entry.  No interleaving is excluded.
THEOREM WholeEntries == Spec => []TakenWhole
<1>1. RInv => TakenWhole
  BY DEF RInv
<1> QED  BY <1>1, InitRInv, RStep, PTL DEF Spec

\* Until then no operation that was set up is written over before the kernel
\* takes it, except by the thread whose entry the kernel took too early.
THEOREM NothingOverwritten == Spec => []NoneOverwritten
<1>1. RInv => NoneOverwritten
  <2> SUFFICES ASSUME RInv, Clean, NEW t \in Threads, NEW j \in SetUp(t)
               PROVE  \/ j \in dropped
                      \/ \E e \in race.early : e[2] = j
                      \/ \E i \in DOMAIN taken : taken[i].data = j
                      \/ \E i \in khead .. tail - 1 : slots[Slot(i)].data = j
    BY DEF NoneOverwritten
  <2>1. Kept(j)
    BY DEF RInv, UntilRace, KInv
  <2> QED  BY <2>1 DEF Kept
<1> QED  BY <1>1, InitRInv, RStep, PTL DEF Spec

---------------------------------------------------------------------------
(* The queue that the ring implements until the first race.                *)

Data == Jobs \cup {Blank}
Filling(t) == th[t].pc \in {"prep", "data"}

\* What the p-th entry finds in its slot: the entry of the turn before.
Lap(p) == IF p < Entries THEN Blank ELSE taken[p - Entries + 1].data

LInv ==
    /\ \A p \in tail .. khead + Entries - 1 : slots[Slot(p)].data = Lap(p)
    /\ \A t \in Threads : Filling(t) => slots[Slot(th[t].seen)].data = Lap(th[t].seen)

Unraced == Clean /\ race.early = {}
QInv == RInv /\ (Unraced => LInv)

LEMMA InitQInv == Init => QInv
<1> SUFFICES ASSUME Init PROVE QInv
  OBVIOUS
<1>1. RInv
  BY InitRInv
<1>2. LInv
  <2>1. khead = 0 /\ tail = 0 /\ \A s \in 0 .. Entries - 1 : slots[s].data = Blank
    BY DEF Init
  <2>2. ASSUME NEW p \in tail .. khead + Entries - 1 PROVE slots[Slot(p)].data = Lap(p)
    <3>1. p \in Int /\ p < Entries
      BY <2>1, RingAssumption
    <3> QED  BY <2>1, <3>1, SlotType DEF Lap
  <2>3. \A t \in Threads : ~Filling(t)
    BY DEF Init, Filling
  <2> QED  BY <2>2, <2>3 DEF LInv
<1> QED  BY <1>1, <1>2 DEF QInv

LEMMA QFacts ==
    ASSUME QInv, Unraced
    PROVE  /\ MInv /\ TypeOK /\ PInv /\ WInv /\ KInv /\ LInv
           /\ khead \in Nat /\ ktail \in Nat /\ tail \in Nat /\ Entries \in Nat /\ Entries > 0
           /\ khead <= ktail /\ ktail <= tail /\ tail <= khead + Entries /\ Len(taken) = khead
           /\ th \in [Threads -> ThType] /\ \A t \in Threads : th[t].seen \in Nat
           /\ slots \in [0 .. Entries - 1 -> Entry]
           /\ taken \in Seq(Entry) /\ DOMAIN taken = 1 .. khead
           /\ \A t \in Threads : Working(t) => th[t].seen \in khead .. tail - 1
<1>1. MInv /\ TypeOK /\ PInv /\ WInv /\ KInv /\ LInv
  BY DEF QInv, RInv, UntilRace, Unraced, MInv, TInv
<1>2. /\ khead \in Nat /\ ktail \in Nat /\ tail \in Nat /\ Entries \in Nat /\ Entries > 0
      /\ khead <= ktail /\ ktail <= tail /\ tail <= khead + Entries /\ Len(taken) = khead
      /\ th \in [Threads -> ThType] /\ \A t \in Threads : th[t].seen \in Nat
      /\ slots \in [0 .. Entries - 1 -> Entry]
  BY <1>1, Typed, RingAssumption DEF PInv, Counters
<1>3. taken \in Seq(Entry)
  BY <1>1 DEF TypeOK, Entry
<1>4. DOMAIN taken = 1 .. khead
  BY <1>2, <1>3
<1>5. ASSUME NEW t \in Threads, Working(t) PROVE th[t].seen \in khead .. tail - 1
  <2>1. Owned(t)
    BY <1>1, <1>5 DEF PInv, Position
  <2>2. ~(th[t].seen < khead)
    BY <2>1 DEF Owned, Unraced
  <2> QED  BY <1>2, <2>1, <2>2 DEF Owned
<1> QED  BY <1>1, <1>2, <1>3, <1>4, <1>5

\* What an entry was is not changed by what the kernel takes.
LEMMA LapStep ==
    ASSUME QInv, Unraced, NEW t \in Threads, Moves(t), NEW p \in Nat, p < khead + Entries
    PROVE  Lap(p)' = Lap(p)
<1>1. CASE p < Entries
  BY <1>1 DEF Lap
<1>2. CASE ~(p < Entries)
  <2>1. PICK i \in DOMAIN taken : i = p - Entries + 1
    <3>1. p - Entries + 1 \in 1 .. khead
      BY <1>2, QFacts
    <3> QED  BY <3>1, QFacts
  <2>2. taken'[i] = taken[i]
    BY HistoriesGrow, QFacts
  <2> QED  BY <1>2, <2>1, <2>2 DEF Lap
<1> QED  BY <1>1, <1>2

\* Outside the ring's entries and the one that it fills, a thread writes nothing.
LEMMA FreeStays ==
    ASSUME QInv, Unraced, NEW t \in Threads, Moves(t), NEW p \in tail .. khead + Entries - 1
    PROVE  slots'[Slot(p)] = slots[Slot(p)]
<1>1. /\ p \in Nat /\ khead \in Nat /\ tail \in Nat /\ Entries \in Nat /\ TypeOK
  <2>1. /\ khead \in Nat /\ tail \in Nat /\ Entries \in Nat /\ TypeOK
    BY QFacts
  <2> QED  BY <2>1
<1>2. ASSUME Prepare(t) \/ SetData(t) PROVE Slot(p) # Slot(th[t].seen)
  <2>1. Working(t)
    BY <1>1, <1>2, FillingStep
  <2>2. th[t].seen \in khead .. tail - 1
    BY <2>1, QFacts
  <2>3. th[t].seen \in Nat /\ th[t].seen < p /\ p < th[t].seen + Entries
    BY <1>1, <2>2
  <2> QED  BY <1>1, <2>3, SlotsApart
<1>3. PICK s \in 0 .. Entries - 1 : s = Slot(p)
  <2>1. p \in Int
    BY <1>1
  <2> QED  BY <2>1, SlotType
<1> QED  BY <1>1, <1>2, <1>3, SlotsStep

LEMMA LapsStep ==
    ASSUME QInv, Unraced, Unraced', NEW t \in Threads, Moves(t) PROVE LInv'
<1>0. /\ khead \in Nat /\ tail \in Nat /\ Entries \in Nat /\ Entries > 0 /\ TypeOK /\ PInv /\ LInv
      /\ tail <= khead + Entries /\ Len(taken) = khead /\ MInv
      /\ slots \in [0 .. Entries - 1 -> Entry]
      /\ th \in [Threads -> ThType]
  BY QFacts
<1>1. ASSUME NEW p \in tail' .. khead' + Entries - 1 PROVE slots'[Slot(p)].data = Lap(p)'
  <2>1. CASE ~Enter(t)
    <3>1. p \in tail .. khead + Entries - 1
      BY <1>0, <2>1, CountersStep
    <3>2. p \in Nat /\ p < khead + Entries
      BY <1>0, <3>1
    <3> QED  BY <1>0, <3>1, <3>2, FreeStays, LapStep DEF LInv
  <2>2. CASE Enter(t)
    <3>1. PICK k \in Nat : /\ k = Batch(t) /\ khead' = khead + k /\ tail' = tail /\ slots' = slots
                           /\ khead + k <= tail
      <4>1. ktail <= tail
        BY QFacts
      <4>2. Batch(t) \in Nat /\ khead + Batch(t) <= ktail
        BY <1>0, BatchPublished
      <4>3. khead' = khead + Batch(t) /\ tail' = tail /\ slots' = slots
        BY <2>2 DEF Enter
      <4>4. ktail \in Nat
        BY QFacts
      <4> QED  BY <1>0, <4>1, <4>2, <4>3, <4>4
    <3>2. CASE p < khead + Entries
      <4>1. p \in tail .. khead + Entries - 1 /\ p \in Nat
        BY <1>0, <3>1, <3>2
      <4> QED  BY <1>0, <3>1, <3>2, <4>1, LapStep DEF LInv
    <3>3. CASE ~(p < khead + Entries)
      <4>1. PICK q \in Nat, i \in 1 .. k : q = p - Entries /\ q = khead + i - 1
        <5>1. /\ p - Entries \in Nat /\ p - Entries - khead + 1 \in 1 .. k
              /\ p - Entries = khead + (p - Entries - khead + 1) - 1
          BY <1>0, <3>1, <3>3
        <5> QED  BY <5>1
      <4>2. Slot(p) = Slot(q)
        <5>1. Slot(q + Entries) = Slot(q)
          BY SlotNext
        <5>2. p = q + Entries
          BY <1>0, <4>1
        <5> QED  BY <5>1, <5>2
      <4>3. PICK m \in Nat : m = khead + i
        BY <1>0
      <4>4. taken'[m] = slots[Slot(q)]
        BY <1>0, <2>2, <3>1, <4>1, <4>3, EnterTakes
      <4>5. p - Entries + 1 = m /\ ~(p < Entries)
        BY <1>0, <3>3, <4>1, <4>3
      <4>6. Lap(p)' = taken'[m].data
        BY <4>5 DEF Lap
      <4> QED  BY <3>1, <4>2, <4>4, <4>6
    <3> QED  BY <3>2, <3>3
  <2> QED  BY <2>1, <2>2
<1>2. ASSUME NEW u \in Threads, Filling(u)'
      PROVE  slots'[Slot(th'[u].seen)].data = Lap(th[u].seen)'
  <2>1. PICK p \in Nat : p = th'[u].seen /\ p = th[u].seen
    <3>1. th'[u].seen = th[u].seen
      BY <1>0, <1>2, OthersStay, FillersStep DEF Filling
    <3> QED  BY <3>1, QFacts
  <2>2. CASE Filling(u) /\ ~(u = t /\ SetData(t))
    <3>1. p \in khead .. tail - 1
      BY <2>1, <2>2, QFacts DEF Filling, Working
    <3>2. th[t].pc = "data" => th[t].seen # p \/ ~SetData(t)
      <4>1. u # t /\ Working(t) => th[t].seen # th[u].seen
        BY <1>0, <2>2 DEF PInv, Position, Owned, Filling, Working
      <4> QED  BY <2>1, <2>2, <4>1 DEF Working
    <3>3. slots'[Slot(p)].data = slots[Slot(p)].data
      <4>1. CASE SetData(t)
        <5>1. th[t].pc = "data" => th[t].seen # p
          BY <3>2, <4>1
        <5> QED  BY <1>0, <3>1, <5>1, DataStays
      <4>2. CASE ~SetData(t)
        <5>1. PICK s \in 0 .. Entries - 1 : s = Slot(p)
          <6>1. p \in Int
            OBVIOUS
          <6> QED  BY <6>1, SlotType
        <5>2. CASE Prepare(t)
          BY <1>0, <5>1, <5>2 DEF Prepare, Entry
        <5>3. CASE ~Prepare(t)
          BY <1>0, <4>2, <5>1, <5>3, SlotsStep
        <5> QED  BY <5>2, <5>3
      <4> QED  BY <4>1, <4>2
    <3>4. slots[Slot(p)].data = Lap(p)
      BY <1>0, <2>1, <2>2 DEF LInv
    <3>5. p < khead + Entries
      BY <1>0, <3>1
    <3>6. Lap(p)' = Lap(p)
      BY <3>5, LapStep
    <3>7. Lap(th[u].seen)' = Lap(p)'
      BY <2>1 DEF Lap
    <3> QED  BY <2>1, <3>3, <3>4, <3>6, <3>7
  <2>3. CASE ~(Filling(u) /\ ~(u = t /\ SetData(t)))
    <3>1. u = t /\ Advance(t)
      <4>1. u # t => th'[u] = th[u]
        BY <1>0, OthersStay
      <4>2. u = t
        BY <1>2, <2>3, <4>1 DEF Filling
      <4>3. Advance(t) \/ (Prepare(t) /\ th[t].pc = "prep")
        BY <1>0, <1>2, <4>2, FillersStep DEF Filling
      <4> QED  BY <2>3, <4>2, <4>3 DEF Filling, Prepare, SetData
    <3>2. Behind(t)
      BY <1>0, <3>1 DEF PInv, Position, Advance
    <3>3. p \in tail .. khead + Entries - 1 /\ p < khead + Entries
      BY <1>0, <2>1, <3>1, <3>2 DEF Behind
    <3>4. slots'[Slot(p)].data = Lap(p)
      BY <1>0, <3>3, FreeStays DEF LInv
    <3>5. Lap(p)' = Lap(p)
      BY <3>3, LapStep
    <3>6. Lap(th[u].seen)' = Lap(p)'
      BY <2>1 DEF Lap
    <3> QED  BY <2>1, <3>4, <3>5, <3>6
  <2> QED  BY <2>2, <2>3
<1> QED  BY <1>1, <1>2 DEF LInv, Slot

LEMMA QStep == QInv /\ [Next]_vars => QInv'
<1> SUFFICES ASSUME QInv, [Next]_vars PROVE QInv'
  OBVIOUS
<1>1. RInv' /\ TypeOK
  BY RStep DEF QInv, RInv, MInv, TInv
<1>2. Unraced' => Unraced
  BY <1>1, RacesStay DEF Unraced
<1>3. ASSUME Unraced' PROVE LInv'
  <2>1. CASE UNCHANGED vars
    BY <1>2, <1>3, <2>1 DEF vars, QInv, LInv, Lap, Filling, Slot
  <2>2. ASSUME NEW t \in Threads, Moves(t) PROVE LInv'
    BY <1>1, <1>2, <1>3, <2>2, LapsStep
  <2>3. (\E t \in Threads : Moves(t)) \/ UNCHANGED vars
    BY RingAssumption DEF Next, Moves, Works
  <2> QED  BY <2>1, <2>2, <2>3
<1> QED  BY <1>1, <1>3 DEF QInv

---------------------------------------------------------------------------
(* The steps, seen as steps of the queue.                                  *)

TakenJobs == [i \in DOMAIN taken |-> taken[i].data]

\* What the entry at p will hold.
Users(p) == {t \in Threads : th[t].pc \in {"prep", "data"} /\ th[t].seen = p}
Holds(p) == IF Users(p) # {} THEN Job(CHOOSE t \in Users(p) : TRUE) ELSE slots[Slot(p)].data

LEMMA PostedHolds == Posted = [i \in 1 .. tail - khead |-> Holds(khead + i - 1)]
BY DEF Posted, Holds, Users

\* A thread at work holds its entry, in this state and in the next.
UsersHold == \A t \in Threads : Filling(t) => Holds(th[t].seen) = Job(t)
EachHolds == \A i \in 1 .. tail - khead : \A p \in Int : p = khead + i - 1 => Posted[i] = Holds(p)

LEMMA EachNow == EachHolds
BY PostedHolds DEF EachHolds

LEMMA EachNext == EachHolds'
BY EachNow, PTL

LEMMA HoldsUser == PInv => UsersHold
<1> SUFFICES ASSUME PInv, NEW t \in Threads, Filling(t) PROVE Holds(th[t].seen) = Job(t)
  BY DEF UsersHold
<1>1. t \in Users(th[t].seen)
  BY DEF Users, Filling
<1>2. ASSUME NEW u \in Users(th[t].seen) PROVE u = t
  <2>1. u \in Threads /\ Working(u) /\ th[u].seen = th[t].seen
    BY DEF Users, Working
  <2> QED  BY <2>1 DEF PInv, Position, Owned, Filling, Working
<1>3. (CHOOSE u \in Users(th[t].seen) : TRUE) = t
  BY <1>1, <1>2
<1> QED  BY <1>1, <1>3 DEF Holds

LEMMA HoldsUserNext == PInv' => UsersHold'
BY HoldsUser, PTL

LEMMA HoldsNone ==
    ASSUME NEW p, \A u \in Threads : Filling(u) => th[u].seen # p
    PROVE  Holds(p) = slots[Slot(p)].data
<1>1. Users(p) = {}
  BY DEF Users, Filling
<1> QED  BY <1>1 DEF Holds

\* What an entry will hold changes only when it is left unprepared.
LEMMA HoldsStep ==
    ASSUME TypeOK, PInv, PInv', NEW t \in Threads, Moves(t), NEW p \in khead .. tail - 1,
           LeaveUnprepared(t) => th[t].seen # p
    PROVE  Holds(p)' = Holds(p)
<1>0. /\ th \in [Threads -> ThType] /\ khead \in Nat /\ tail \in Nat
      /\ slots \in [0 .. Entries - 1 -> Entry]
  BY Typed
<1>1. ASSUME NEW u \in Threads, Filling(u), th[u].seen = p PROVE Holds(p)' = Holds(p)
  <2>0. Holds(p) = Job(u)
    BY <1>1, HoldsUser DEF UsersHold
  <2>1. CASE u # t \/ Prepare(t)
    <3>1. th'[u].pc \in {"prep", "data"} /\ th'[u].seen = p /\ Job(u)' = Job(u)
      <4>1. CASE u # t
        BY <1>1, <4>1, OthersStay DEF Filling
      <4>2. CASE u = t /\ Prepare(t)
        <5>1. th'[t].pc = "data" /\ th'[t].seen = th[t].seen
          BY <1>0, <4>2 DEF Prepare, ThType
        <5> QED  BY <1>1, <4>2, <5>1, SameNumber DEF Works
      <4> QED  BY <2>1, <4>1, <4>2
    <3>2. Filling(u)'
      BY <3>1 DEF Filling
    <3>3. Holds(th[u].seen)' = Job(u)'
      BY <3>2, HoldsUserNext DEF UsersHold
    <3>4. Holds(th[u].seen)' = Holds(p)'
      BY <3>1 DEF Holds, Users, Slot
    <3> QED  BY <2>0, <3>1, <3>3, <3>4
  <2>2. CASE u = t /\ SetData(t)
    <3>1. th[t].pc = "data" /\ th'[t].pc = AfterData(t)
          /\ slots' = [slots EXCEPT ![Slot(p)].data = Job(t)]
      BY <1>0, <1>1, <2>2 DEF SetData, ThType
    <3>2. slots'[Slot(p)].data = Job(t)
      <4>1. Slot(p) \in 0 .. Entries - 1
        BY <1>0, SlotType
      <4> QED  BY <1>0, <3>1, <4>1 DEF Entry
    <3>3. ASSUME NEW v \in Threads, th'[v].pc \in {"prep", "data"} PROVE th'[v].seen # p
      <4>1. v # t
        BY <3>1, <3>3 DEF AfterData
      <4>2. th'[v] = th[v]
        BY <4>1, OthersStay
      <4> QED  BY <1>1, <2>2, <3>3, <4>1, <4>2 DEF PInv, Position, Owned, Filling, Working
    <3>4. Users(p)' = {}
      BY <3>3 DEF Users
    <3>5. Holds(p)' = slots'[Slot(p)].data
      BY <3>4 DEF Holds, Slot
    <3> QED  BY <2>0, <2>2, <3>2, <3>5
  <2>3. u = t => Prepare(t) \/ SetData(t)
    BY <1>1 DEF Moves, Works, GetSqe, GetSqeFull, Advance, LeaveUnprepared, SetState, ReadTail,
          Publish, Enter, EnterFails, Begin, BeginRound, Filling
  <2> QED  BY <2>1, <2>2, <2>3
<1>2. CASE \A u \in Threads : Filling(u) => th[u].seen # p
  <2>1. ASSUME NEW u \in Threads, th'[u].pc \in {"prep", "data"} PROVE th'[u].seen # p
    <3>1. CASE u # t
      BY <1>2, <2>1, <3>1, OthersStay DEF Filling
    <3>2. CASE u = t
      <4>1. th'[t].seen = th[t].seen /\ (Advance(t) \/ (Prepare(t) /\ th[t].pc = "prep"))
        BY <2>1, <3>2, FillersStep
      <4>2. CASE Advance(t)
        <5>1. th[t].seen = tail
          BY <4>2 DEF Advance, PInv, Position, Behind
        <5> QED  BY <1>0, <3>2, <4>1, <5>1
      <4>3. CASE th[t].pc = "prep"
        BY <1>2, <3>2, <4>1, <4>3 DEF Filling
      <4> QED  BY <4>1, <4>2, <4>3
    <3> QED  BY <3>1, <3>2
  <2>2. Users(p)' = {}
    BY <2>1 DEF Users
  <2>3. Holds(p)' = slots'[Slot(p)].data
    BY <2>2 DEF Holds, Slot
  <2>4. slots'[Slot(p)].data = slots[Slot(p)].data
    BY <1>2, DataStays DEF Filling
  <2> QED  BY <1>2, <2>3, <2>4, HoldsNone
<1> QED  BY <1>1, <1>2

QueuesTyped ==
    /\ Posted \in Seq(Data) /\ Len(Posted) = tail - khead
    /\ DOMAIN Posted = 1 .. tail - khead
    /\ TakenJobs \in Seq(Data) /\ Len(TakenJobs) = khead /\ DOMAIN TakenJobs = 1 .. khead
    /\ tail - khead \in Nat

LEMMA Queues == QInv /\ Unraced => QueuesTyped
<1> SUFFICES ASSUME QInv, Unraced PROVE QueuesTyped
  OBVIOUS
<1>0. /\ khead \in Nat /\ tail \in Nat /\ khead <= tail /\ taken \in Seq(Entry)
      /\ DOMAIN taken = 1 .. khead /\ TypeOK /\ MInv /\ slots \in [0 .. Entries - 1 -> Entry]
  <2>1. /\ khead \in Nat /\ ktail \in Nat /\ tail \in Nat /\ khead <= ktail /\ ktail <= tail
    BY QFacts
  <2>2. khead <= tail
    BY <2>1
  <2> QED  BY <2>1, <2>2, QFacts
<1>1. \A e \in Entry : e.data \in Data
  BY DEF Entry, Data
<1>2. PICK n \in Nat : n = tail - khead
  BY <1>0
<1>3. ASSUME NEW i \in 1 .. n PROVE Holds(khead + i - 1) \in Data
  <2>1. PICK p \in Int : p = khead + i - 1
    BY <1>0
  <2>2. ASSUME NEW u \in Users(p) PROVE Job(u) \in Jobs
    <3>1. u \in Threads /\ th[u].pc \in {"prep", "data"}
      BY DEF Users
    <3>2. TInv /\ Numbered(u)
      BY <1>0, <3>1 DEF MInv, TInv
    <3> QED  BY <3>1, <3>2, JobOfThread DEF Numbered, Submitting
  <2>3. slots[Slot(p)].data \in Data
    BY <1>0, <1>1, <2>1, SlotType
  <2>4. CASE Users(p) # {}
    <3>1. (CHOOSE u \in Users(p) : TRUE) \in Users(p)
      BY <2>4
    <3> QED  BY <2>1, <2>2, <2>4, <3>1 DEF Holds, Data
  <2>5. CASE Users(p) = {}
    BY <2>1, <2>3, <2>5 DEF Holds
  <2> QED  BY <2>4, <2>5
<1>4. Posted \in [1 .. n -> Data]
  <2>1. Posted = [i \in 1 .. n |-> Holds(khead + i - 1)]
    BY <1>2, PostedHolds
  <2> QED  BY <1>3, <2>1
<1>5. Posted \in Seq(Data) /\ Len(Posted) = n /\ DOMAIN Posted = 1 .. n
  BY <1>4
<1>6. TakenJobs \in [1 .. khead -> Data]
  <2>1. \A i \in 1 .. khead : taken[i] \in Entry
    BY <1>0
  <2> QED  BY <1>0, <1>1, <2>1 DEF TakenJobs
<1>7. TakenJobs \in Seq(Data) /\ Len(TakenJobs) = khead /\ DOMAIN TakenJobs = 1 .. khead
  BY <1>0, <1>6
<1> QED  BY <1>0, <1>2, <1>5, <1>7 DEF QueuesTyped

LEMMA QueuesNext == QInv' /\ Unraced' => QueuesTyped'
BY Queues, PTL

\* The i-th operation posted.
LEMMA PostedAt ==
    ASSUME QInv, Unraced, NEW p \in khead .. tail - 1
    PROVE  p - khead + 1 \in DOMAIN Posted /\ Posted[p - khead + 1] = Holds(p)
<1>1. khead \in Nat /\ tail \in Nat
  BY QFacts
<1>2. PICK i \in 1 .. tail - khead : i = p - khead + 1
  BY <1>1
<1>3. khead + i - 1 = p
  BY <1>1, <1>2
<1> QED  BY <1>2, <1>3, PostedHolds

\* Every other step leaves both queues as they are.
LEMMA QueuesStay ==
    ASSUME QInv, Unraced, QInv', Unraced', NEW t \in Threads, Moves(t),
           ~Enter(t), ~Advance(t), ~LeaveUnprepared(t)
    PROVE  Posted' = Posted /\ TakenJobs' = TakenJobs
<1>1. khead' = khead /\ tail' = tail /\ taken' = taken
  BY CountersStep, QFacts
<1>2. khead \in Nat /\ tail \in Nat /\ TypeOK /\ PInv /\ PInv'
  <2>1. PInv'
    BY DEF QInv, RInv, UntilRace, Unraced
  <2> QED  BY <2>1, QFacts
<1>3. ASSUME NEW i \in 1 .. tail - khead PROVE Posted'[i] = Posted[i]
  <2>1. PICK p \in khead .. tail - 1 : p = khead + i - 1
    BY <1>2
  <2>2. Holds(p)' = Holds(p)
    BY <1>2, HoldsStep
  <2>3. Posted[i] = Holds(p)
    BY <2>1, PostedHolds
  <2>4. Posted'[i] = Holds(p)'
    <3>1. i \in 1 .. tail' - khead' /\ p = khead' + i - 1 /\ p \in Int
      BY <1>1, <1>2, <2>1
    <3> QED  BY <3>1, EachNext DEF EachHolds
  <2> QED  BY <2>2, <2>3, <2>4
<1>4. Posted' \in Seq(Data) /\ Len(Posted') = tail - khead
  <2>1. Posted' \in Seq(Data) /\ Len(Posted') = tail' - khead'
    BY QueuesNext DEF QueuesTyped
  <2> QED  BY <1>1, <2>1
<1>5. Posted \in Seq(Data) /\ Len(Posted) = tail - khead
  BY Queues DEF QueuesTyped
<1>6. Posted' = Posted
  BY <1>3, <1>4, <1>5, SeqEqual
<1> QED  BY <1>1, <1>6 DEF TakenJobs

\* Advance posts the thread's operation, which is new to both queues.
LEMMA AdvancePosts ==
    ASSUME QInv, Unraced, QInv', Unraced', NEW t \in Threads, Advance(t)
    PROVE  /\ Job(t) \in Jobs /\ Len(Posted) < Entries
           /\ \A i \in DOMAIN Posted : Posted[i] # Job(t)
           /\ \A i \in DOMAIN TakenJobs : TakenJobs[i] # Job(t)
           /\ Posted' = Append(Posted, Job(t)) /\ TakenJobs' = TakenJobs
<1>0. /\ khead \in Nat /\ tail \in Nat /\ TypeOK /\ MInv /\ PInv /\ PInv' /\ LInv
      /\ th \in [Threads -> ThType] /\ Entries \in Nat /\ th[t].pc = "advance"
      /\ DOMAIN taken = 1 .. khead
  <2>1. PInv' /\ th[t].pc = "advance"
    BY DEF QInv, RInv, UntilRace, Unraced, Advance
  <2> QED  BY <2>1, QFacts
<1>1. /\ Posted \in Seq(Data) /\ Len(Posted) = tail - khead /\ tail - khead \in Nat
      /\ DOMAIN Posted = 1 .. tail - khead /\ DOMAIN TakenJobs = 1 .. khead
  BY Queues DEF QueuesTyped
<1>2. Moves(t) /\ ~Enter(t) /\ ~LeaveUnprepared(t) /\ ~SetData(t)
  BY <1>0 DEF Moves, Works, Enter, LeaveUnprepared, SetData
<1>3. /\ khead' = khead /\ taken' = taken /\ tail' = tail + 1 /\ th[t].seen = tail
  BY <1>0, <1>2, CountersStep
<1>4. Job(t) \in Jobs
  BY <1>0, JobOfThread DEF MInv, TInv, Numbered, Submitting
<1>5. Len(Posted) < Entries
  <2>1. tail < khead + Entries
    BY <1>0 DEF PInv, Position, Behind
  <2> QED  BY <1>0, <1>1, <2>1
<1>6. Absent(Job(t))
  <2>1. Pending(t) /\ NotYet(t) /\ th[t].n \in Nat
    BY <1>0, Typed DEF Pending, MInv
  <2> QED  BY <2>1 DEF NotYet, Job
<1>7. ASSUME NEW i \in 1 .. tail - khead PROVE Posted[i] # Job(t)
  <2>1. PICK p \in Int : p = khead + i - 1
    BY <1>0
  <2>2. Posted[i] = Holds(p)
    BY <2>1, EachNow DEF EachHolds
  <2>3. ASSUME NEW u \in Users(p) PROVE Job(u) # Job(t)
    BY <1>0 DEF Users, Job
  <2>4. slots[Slot(p)].data # Job(t)
    BY <1>6, SlotType DEF Absent
  <2>5. CASE Users(p) # {}
    <3>1. (CHOOSE u \in Users(p) : TRUE) \in Users(p)
      BY <2>5
    <3> QED  BY <2>2, <2>3, <2>5, <3>1 DEF Holds
  <2>6. CASE Users(p) = {}
    BY <2>2, <2>4, <2>6 DEF Holds
  <2> QED  BY <2>5, <2>6
<1>8. \A i \in 1 .. khead : TakenJobs[i] # Job(t)
  BY <1>0, <1>6 DEF Absent, TakenJobs
<1>9. Posted' = Append(Posted, Job(t))
  <2>1. Posted' \in Seq(Data) /\ Len(Posted') = tail + 1 - khead
    <3>1. Posted' \in Seq(Data) /\ Len(Posted') = tail' - khead'
      BY QueuesNext DEF QueuesTyped
    <3> QED  BY <1>0, <1>3, <3>1
  <2>2. /\ Append(Posted, Job(t)) \in Seq(Data)
        /\ Len(Append(Posted, Job(t))) = tail - khead + 1
        /\ \A i \in 1 .. tail - khead : Append(Posted, Job(t))[i] = Posted[i]
        /\ Append(Posted, Job(t))[tail - khead + 1] = Job(t)
    <3>1. Job(t) \in Data
      BY <1>4 DEF Data
    <3>2. PICK s \in Seq(Data) : s = Posted
      BY <1>1
    <3>3. PICK j \in Data : j = Job(t)
      BY <3>1
    <3>4. /\ Append(s, j) \in Seq(Data) /\ Len(Append(s, j)) = Len(s) + 1
          /\ \A i \in 1 .. Len(s) : Append(s, j)[i] = s[i]
          /\ Append(s, j)[Len(s) + 1] = j
      OBVIOUS
    <3> QED  BY <1>1, <3>2, <3>3, <3>4
  <2>3. ASSUME NEW i \in 1 .. tail + 1 - khead PROVE Posted'[i] = Append(Posted, Job(t))[i]
    <3>1. PICK p \in Int : p = khead + i - 1
      BY <1>0
    <3>2. Posted'[i] = Holds(p)'
      <4>1. i \in 1 .. tail' - khead' /\ p = khead' + i - 1
        BY <1>0, <1>3, <3>1
      <4> QED  BY <4>1, EachNext DEF EachHolds
    <3>3. CASE p = tail
      <4>1. Filling(t)' /\ th'[t].seen = p /\ Job(t)' = Job(t)
        <5>1. th'[t].pc = "prep" /\ th'[t].seen = th[t].seen
          BY <1>0 DEF Advance, ThType
        <5> QED  BY <1>0, <1>2, <1>3, <3>3, <5>1, SameNumber DEF Filling, Works
      <4>2. Holds(th[t].seen)' = Job(t)'
        BY <1>0, <4>1, HoldsUserNext DEF UsersHold
      <4>3. Holds(th[t].seen)' = Holds(p)'
        BY <4>1 DEF Holds, Users, Slot
      <4>4. i = tail - khead + 1
        BY <1>0, <3>1, <3>3
      <4> QED  BY <2>2, <3>2, <4>1, <4>2, <4>3, <4>4
    <3>4. CASE p # tail
      <4>1. p \in khead .. tail - 1 /\ i \in 1 .. tail - khead
        BY <1>0, <3>1, <3>4
      <4>2. Holds(p)' = Holds(p)
        BY <1>0, <1>2, <4>1, HoldsStep
      <4>3. Posted[i] = Holds(p)
        BY <3>1, <4>1, EachNow DEF EachHolds
      <4> QED  BY <2>2, <3>2, <4>1, <4>2, <4>3
    <3> QED  BY <3>3, <3>4
  <2>4. PICK s \in Seq(Data) : s = Append(Posted, Job(t))
    BY <2>2
  <2>5. Len(s) = tail + 1 - khead
    <3>1. tail - khead + 1 = tail + 1 - khead
      BY <1>0
    <3> QED  BY <2>2, <2>4, <3>1
  <2>6. Posted' = s
    BY <2>1, <2>3, <2>4, <2>5, SeqEqual
  <2> QED  BY <2>4, <2>6
<1>10. TakenJobs' = TakenJobs
  BY <1>3 DEF TakenJobs
<1> QED  BY <1>1, <1>4, <1>5, <1>7, <1>8, <1>9, <1>10

\* An entry left unprepared repeats what lay in its slot.
LEMMA LeftRepeats ==
    ASSUME QInv, Unraced, QInv', Unraced', NEW t \in Threads, LeaveUnprepared(t)
    PROVE  /\ \E k \in DOMAIN Posted : Posted' = [Posted EXCEPT ![k] =
                LET i == Len(TakenJobs) + k - Entries IN IF i < 1 THEN Blank ELSE TakenJobs[i]]
           /\ TakenJobs' = TakenJobs
<1>0. /\ khead \in Nat /\ tail \in Nat /\ TypeOK /\ MInv /\ PInv /\ PInv' /\ LInv
      /\ th \in [Threads -> ThType] /\ Entries \in Nat /\ Entries > 0 /\ th[t].pc = "prep"
      /\ DOMAIN taken = 1 .. khead /\ tail <= khead + Entries
  <2>1. PInv' /\ th[t].pc = "prep"
    BY DEF QInv, RInv, UntilRace, Unraced, LeaveUnprepared
  <2> QED  BY <2>1, QFacts
<1>1. /\ Posted \in Seq(Data) /\ Len(Posted) = tail - khead /\ tail - khead \in Nat
      /\ DOMAIN Posted = 1 .. tail - khead /\ DOMAIN TakenJobs = 1 .. khead
      /\ TakenJobs \in Seq(Data) /\ Len(TakenJobs) = khead
  BY Queues DEF QueuesTyped
<1>2. Moves(t) /\ ~Enter(t) /\ ~Advance(t) /\ ~SetData(t) /\ ~Prepare(t)
  <2>1. ~Prepare(t)
    <3> SUFFICES ASSUME Prepare(t) PROVE FALSE
      OBVIOUS
    <3>1. th' = [th EXCEPT ![t].pc = "data"] /\ th' = [th EXCEPT ![t].pc = "idle"]
      BY DEF Prepare, LeaveUnprepared
    <3>2. th'[t].pc = "data" /\ th'[t].pc = "idle"
      BY <1>0, <3>1 DEF ThType
    <3> QED  BY <3>2
  <2> QED  BY <1>0, <2>1 DEF Moves, Works, Enter, Advance, SetData
<1>3. khead' = khead /\ taken' = taken /\ tail' = tail /\ slots' = slots
  BY DEF LeaveUnprepared
<1>4. PICK p \in khead .. tail - 1 : p = th[t].seen
  BY <1>0, QFacts DEF Working
<1>5. PICK k \in 1 .. tail - khead : k = p - khead + 1 /\ p = khead + k - 1
  <2>1. p - khead + 1 \in 1 .. tail - khead /\ p = khead + (p - khead + 1) - 1
    BY <1>0, <1>4
  <2> QED  BY <2>1
<1>6. PICK i \in Int : i = Len(TakenJobs) + k - Entries /\ i = p - Entries + 1
  <2>1. khead + k - Entries \in Int /\ khead + k - Entries = p - Entries + 1
    BY <1>0, <1>5
  <2> QED  BY <1>1, <2>1
<1> DEFINE b == IF i < 1 THEN Blank ELSE TakenJobs[i]
<1>7. b = Lap(p) /\ b \in Data
  <2>1. CASE i < 1
    <3>1. p < Entries
      BY <1>0, <1>6, <2>1
    <3> QED  BY <2>1, <3>1 DEF Lap, Data
  <2>2. CASE ~(i < 1)
    <3>1. ~(p < Entries) /\ i \in 1 .. khead
      BY <1>0, <1>6, <2>2
    <3>2. TakenJobs[i] = taken[i].data /\ TakenJobs[i] \in Data
      BY <1>0, <1>1, <3>1 DEF TakenJobs
    <3> QED  BY <1>6, <2>2, <3>1, <3>2 DEF Lap
  <2> QED  BY <2>1, <2>2
<1> HIDE DEF b
<1>8. Holds(p)' = b
  <2>1. ASSUME NEW u \in Threads, th'[u].pc \in {"prep", "data"} PROVE th'[u].seen # p
    <3>1. u # t
      BY <1>0, <2>1 DEF LeaveUnprepared, ThType
    <3>2. th'[u] = th[u]
      BY <1>0, <1>2, <3>1, OthersStay
    <3> QED  BY <1>0, <1>4, <2>1, <3>1, <3>2 DEF PInv, Position, Owned, Working
  <2>2. Users(p)' = {}
    BY <2>1 DEF Users
  <2>3. Holds(p)' = slots'[Slot(p)].data
    BY <2>2 DEF Holds, Slot
  <2>4. slots[Slot(p)].data = Lap(p)
    BY <1>0, <1>4 DEF LInv, Filling
  <2> QED  BY <1>3, <1>7, <2>3, <2>4
<1>9. Posted' \in Seq(Data) /\ Len(Posted') = tail - khead
  <2>1. Posted' \in Seq(Data) /\ Len(Posted') = tail' - khead'
    BY QueuesNext DEF QueuesTyped
  <2> QED  BY <1>3, <2>1
<1>10. ASSUME NEW m \in 1 .. tail - khead
       PROVE  Posted'[m] = IF m = k THEN b ELSE Posted[m]
  <2>1. PICK q \in khead .. tail - 1 : q = khead + m - 1
    BY <1>0
  <2>2. Posted[m] = Holds(q)
    BY <2>1, EachNow DEF EachHolds
  <2>3. Posted'[m] = Holds(q)'
    <3>1. m \in 1 .. tail' - khead' /\ q = khead' + m - 1
      BY <1>3, <2>1
    <3> QED  BY <3>1, EachNext DEF EachHolds
  <2>4. CASE m = k
    <3>1. q = p
      BY <1>5, <2>1, <2>4
    <3>2. Holds(q)' = Holds(p)'
      BY <3>1
    <3> QED  BY <1>8, <2>3, <2>4, <3>2
  <2>5. CASE m # k
    <3>1. q # p
      BY <1>0, <1>5, <2>1, <2>5
    <3>2. Holds(q)' = Holds(q)
      BY <1>0, <1>2, <1>4, <3>1, HoldsStep
    <3> QED  BY <2>2, <2>3, <2>5, <3>2
  <2> QED  BY <2>4, <2>5
<1>11. Posted' = [Posted EXCEPT ![k] = b]
  <2>1. PICK s \in Seq(Data) : s = [Posted EXCEPT ![k] = b] /\ Len(s) = Len(Posted)
    <3>1. k \in 1 .. Len(Posted)
      BY <1>1
    <3>2. /\ [Posted EXCEPT ![k] = b] \in Seq(Data)
          /\ Len([Posted EXCEPT ![k] = b]) = Len(Posted)
      <4>1. PICK q \in Seq(Data), d \in Data : q = Posted /\ d = b
        BY <1>1, <1>7
      <4>2. /\ [q EXCEPT ![k] = d] \in Seq(Data)
            /\ Len([q EXCEPT ![k] = d]) = Len(q)
        BY <3>1, <4>1, ExceptSeq
      <4> QED  BY <4>1, <4>2
    <3> QED  BY <3>2
  <2>2. /\ Len(s) = tail - khead
        /\ \A m \in 1 .. tail - khead : s[m] = IF m = k THEN b ELSE Posted[m]
    BY <1>1, <1>7, <2>1
  <2>3. \A m \in 1 .. Len(s) : Posted'[m] = s[m]
    BY <1>10, <2>2
  <2>4. Posted' = s
    BY <1>9, <2>2, <2>3, SeqEqual
  <2> QED  BY <2>1, <2>4
<1>12. k \in DOMAIN Posted /\ TakenJobs' = TakenJobs
  BY <1>1, <1>3 DEF TakenJobs
<1>13. b = LET x == Len(TakenJobs) + k - Entries IN IF x < 1 THEN Blank ELSE TakenJobs[x]
  BY <1>6 DEF b
<1> QED  BY <1>11, <1>12, <1>13

\* The kernel takes the oldest, in order.
LEMMA EnterSubmits ==
    ASSUME QInv, Unraced, QInv', Unraced', NEW t \in Threads, Enter(t)
    PROVE  \/ Posted' = Posted /\ TakenJobs' = TakenJobs
           \/ \E k \in DOMAIN Posted : /\ TakenJobs' = TakenJobs \o SubSeq(Posted, 1, k)
                                       /\ Posted' = SubSeq(Posted, k + 1, Len(Posted))
<1>0. /\ khead \in Nat /\ tail \in Nat /\ ktail \in Nat /\ TypeOK /\ PInv /\ PInv' /\ LInv
      /\ Entries \in Nat /\ ktail <= tail /\ khead <= ktail /\ Len(taken) = khead
      /\ race \in Races /\ DOMAIN taken = 1 .. khead /\ \A u \in Threads : th[u].seen \in Nat
  <2>1. PInv'
    BY DEF QInv, RInv, UntilRace, Unraced
  <2>2. TypeOK
    BY QFacts
  <2> QED  BY <2>1, <2>2, QFacts, Typed
<1>1. PICK k \in Nat : /\ k = Batch(t) /\ khead' = khead + k /\ khead + k <= tail
                       /\ tail' = tail /\ slots' = slots
  <2>1. Batch(t) \in Nat /\ khead + Batch(t) <= ktail
    BY <1>0, BatchPublished
  <2>2. khead' = khead + Batch(t) /\ tail' = tail /\ slots' = slots
    BY DEF Enter
  <2> QED  BY <1>0, <2>1, <2>2
<1>2. /\ Posted \in Seq(Data) /\ Len(Posted) = tail - khead
      /\ TakenJobs \in Seq(Data) /\ Len(TakenJobs) = khead
      /\ DOMAIN Posted = 1 .. tail - khead
  BY Queues DEF QueuesTyped
<1>3. /\ Posted' \in Seq(Data) /\ Len(Posted') = tail - khead - k
      /\ TakenJobs' \in Seq(Data) /\ Len(TakenJobs') = khead + k
  <2>1. /\ Posted' \in Seq(Data) /\ Len(Posted') = tail' - khead'
        /\ TakenJobs' \in Seq(Data) /\ Len(TakenJobs') = khead'
    BY QueuesNext DEF QueuesTyped
  <2>2. tail' - khead' = tail - khead - k
    BY <1>0, <1>1
  <2> QED  BY <1>1, <2>1, <2>2
<1>4. TakenEarly(k) = {}
  <2>1. race' = [race EXCEPT !.early = race.early \cup TakenEarly(k)]
    BY <1>1 DEF Enter
  <2>2. race'.early = race.early \cup TakenEarly(k)
    BY <1>0, <2>1 DEF Races
  <2> QED  BY <2>2 DEF Unraced
<1>5. ASSUME NEW p \in khead .. khead + k - 1 PROVE Holds(p) = slots[Slot(p)].data
  <2>1. ASSUME NEW u \in Threads, Filling(u) PROVE th[u].seen # p
    <3> SUFFICES ASSUME th[u].seen = p PROVE FALSE
      OBVIOUS
    <3>1. <<p, Job(u)>> \in TakenEarly(k)
      BY <2>1 DEF TakenEarly, Filling
    <3> QED  BY <1>4, <3>1
  <2> QED  BY <2>1, HoldsNone
<1>6. ~LeaveUnprepared(t) /\ Moves(t)
  BY DEF Enter, LeaveUnprepared, Moves, Works
<1>7. ASSUME NEW i \in 1 .. tail - khead - k PROVE Posted'[i] = Posted[k + i]
  <2>1. PICK p \in khead .. tail - 1, m \in 1 .. tail - khead :
          p = khead + k + i - 1 /\ m = k + i /\ p = khead + m - 1
    <3>1. PICK j \in Nat : j = k + i /\ 1 <= j /\ khead + j <= tail
      BY <1>0, <1>1
    <3>2. khead + j - 1 \in khead .. tail - 1 /\ j \in 1 .. tail - khead
      BY <1>0, <3>1
    <3>3. khead + k + i - 1 = khead + j - 1
      BY <1>0, <3>1
    <3> QED  BY <3>1, <3>2, <3>3
  <2>2. Holds(p)' = Holds(p)
    BY <1>0, <1>6, HoldsStep
  <2>3. Posted[m] = Holds(p)
    BY <2>1, EachNow DEF EachHolds
  <2>4. Posted'[i] = Holds(p)'
    <3>1. i \in 1 .. tail' - khead' /\ p = khead' + i - 1 /\ p \in Int
      BY <1>0, <1>1, <2>1
    <3> QED  BY <3>1, EachNext DEF EachHolds
  <2> QED  BY <2>1, <2>2, <2>3, <2>4
<1>8. \A i \in 1 .. khead : TakenJobs'[i] = TakenJobs[i]
  <2>1. \A i \in DOMAIN taken : i \in DOMAIN taken' /\ taken'[i] = taken[i]
    BY <1>0, <1>6, HistoriesGrow
  <2> QED  BY <1>0, <2>1 DEF TakenJobs
<1>9. ASSUME NEW i \in 1 .. k PROVE TakenJobs'[khead + i] = Posted[i]
  <2>1. PICK p \in khead .. khead + k - 1 : p = khead + i - 1
    BY <1>0
  <2>2. Posted[i] = slots[Slot(p)].data
    <3>1. i \in 1 .. tail - khead /\ p \in Int
      BY <1>0, <1>1
    <3>2. Posted[i] = Holds(p)
      BY <2>1, <3>1, EachNow DEF EachHolds
    <3> QED  BY <1>5, <3>2
  <2>3. taken'[khead + i] = slots[Slot(p)] /\ khead + i \in DOMAIN taken'
    <3>1. taken'[Len(taken) + i] = slots[Slot(khead + i - 1)] /\ DOMAIN taken' = 1 .. Len(taken) + k
      BY <1>0, <1>1, EnterTakes
    <3> QED  BY <1>0, <2>1, <3>1
  <2> QED  BY <2>2, <2>3 DEF TakenJobs
<1>10. CASE k = 0
  <2>1. \A i \in 1 .. tail - khead : Posted'[i] = Posted[i]
    BY <1>0, <1>7, <1>10
  <2>2. Posted' = Posted
    <3>1. Len(Posted') = Len(Posted)
      BY <1>0, <1>2, <1>3, <1>10
    <3> QED  BY <1>2, <1>3, <2>1, <3>1, SeqEqual
  <2>3. TakenJobs' = TakenJobs
    <3>1. Len(TakenJobs') = Len(TakenJobs)
      BY <1>0, <1>2, <1>3, <1>10
    <3> QED  BY <1>2, <1>3, <1>8, <3>1, SeqEqual
  <2> QED  BY <2>2, <2>3
<1>11. CASE k # 0
  <2>1. k \in DOMAIN Posted
    BY <1>0, <1>1, <1>2, <1>11
  <2>2. PICK s \in Seq(Data) :
          /\ s = SubSeq(Posted, 1, k) /\ Len(s) = k
          /\ \A i \in 1 .. k : s[i] = Posted[i]
    <3>1. \A i \in 1 .. k : Posted[i] \in Data
      BY <1>1, <1>0, <1>2
    <3>2. 1 \in Int /\ k \in Int
      OBVIOUS
    <3>3. /\ SubSeq(Posted, 1, k) \in Seq(Data)
          /\ Len(SubSeq(Posted, 1, k)) = IF 1 <= k THEN k - 1 + 1 ELSE 0
          /\ \A i \in 1 .. k - 1 + 1 : SubSeq(Posted, 1, k)[i] = Posted[1 + i - 1]
      BY <3>1, <3>2, SubSeqProperties
    <3>4. k - 1 + 1 = k /\ 1 <= k /\ \A i \in 1 .. k : 1 + i - 1 = i
      BY <1>11
    <3> QED  BY <3>3, <3>4
  <2>3. PICK r \in Seq(Data) :
          /\ r = SubSeq(Posted, k + 1, Len(Posted)) /\ Len(r) = tail - khead - k
          /\ \A i \in 1 .. tail - khead - k : r[i] = Posted[k + i]
    <3>1. PICK a \in Int, z \in Int : a = k + 1 /\ z = Len(Posted) /\ z = tail - khead
      BY <1>0, <1>2
    <3>2. \A i \in a .. z : Posted[i] \in Data
      <4>1. \A i \in a .. z : i \in 1 .. Len(Posted)
        BY <3>1
      <4> QED  BY <1>2, <4>1
    <3>3. /\ SubSeq(Posted, a, z) \in Seq(Data)
          /\ Len(SubSeq(Posted, a, z)) = IF a <= z THEN z - a + 1 ELSE 0
          /\ \A i \in 1 .. z - a + 1 : SubSeq(Posted, a, z)[i] = Posted[a + i - 1]
      BY <3>2, SubSeqProperties
    <3>4. (IF a <= z THEN z - a + 1 ELSE 0) = tail - khead - k
      BY <1>0, <1>1, <3>1
    <3>5. z - a + 1 = tail - khead - k
      BY <1>0, <1>1, <3>1
    <3>6. ASSUME NEW i \in 1 .. tail - khead - k
          PROVE  SubSeq(Posted, a, z)[i] = Posted[k + i]
      <4>1. a + i - 1 = k + i
        BY <3>1
      <4> QED  BY <3>3, <3>5, <4>1
    <3> QED  BY <3>1, <3>3, <3>4, <3>6
  <2>4. Posted' = r
    <3>1. Len(Posted') = Len(r) /\ \A i \in 1 .. Len(Posted') : Posted'[i] = r[i]
      BY <1>3, <1>7, <2>3
    <3> QED  BY <1>3, <3>1, SeqEqual
  <2>5. TakenJobs' = TakenJobs \o s
    <3>0. PICK c \in Seq(Data) :
            /\ c = TakenJobs \o s /\ Len(c) = Len(TakenJobs) + Len(s)
            /\ \A i \in 1 .. Len(TakenJobs) + Len(s) : c[i] =
                   IF i <= Len(TakenJobs) THEN TakenJobs[i] ELSE s[i - Len(TakenJobs)]
      <4>1. PICK q \in Seq(Data) : q = TakenJobs
        BY <1>2
      <4>2. /\ q \o s \in Seq(Data)
            /\ Len(q \o s) = Len(q) + Len(s)
            /\ \A i \in 1 .. Len(q) + Len(s) :
                 (q \o s)[i] = IF i <= Len(q) THEN q[i] ELSE s[i - Len(q)]
        BY ConcatProperties
      <4>3. PICK c \in Seq(Data) : c = q \o s
        BY <4>2
      <4> QED  BY <4>1, <4>2, <4>3
    <3>1. /\ c = TakenJobs \o s /\ Len(c) = khead + k
          /\ \A i \in 1 .. khead + k : c[i] = IF i <= khead THEN TakenJobs[i] ELSE s[i - khead]
      <4>1. Len(TakenJobs) = khead /\ Len(s) = k
        BY <1>2, <2>2
      <4> QED  BY <3>0, <4>1
    <3>2. ASSUME NEW i \in 1 .. khead + k PROVE TakenJobs'[i] = c[i]
      <4>1. CASE i <= khead
        BY <1>8, <3>1, <4>1
      <4>2. CASE ~(i <= khead)
        <5>1. PICK m \in 1 .. k : m = i - khead /\ khead + m = i
          <6>1. i - khead \in 1 .. k /\ khead + (i - khead) = i
            BY <1>0, <4>2
          <6> QED  BY <6>1
        <5> QED  BY <1>9, <2>2, <3>1, <4>2, <5>1
      <4> QED  BY <4>1, <4>2
    <3>3. TakenJobs' = c
      BY <1>3, <3>1, <3>2, SeqEqual
    <3> QED  BY <3>1, <3>3
  <2> QED  BY <2>1, <2>2, <2>3, <2>4, <2>5
<1> QED  BY <1>10, <1>11

\* However the threads meet, up to the first race the accesses of all of them
\* implement a queue: Advance posts an operation that is in no queue yet, Enter
\* submits the oldest in order, an entry left unprepared repeats what lay in
\* its slot one turn before, and no other access shows.
THEOREM QueueRefinement == Spec => IsSubmitQueue
<1>1. Init => Abstract!Init
  <2> SUFFICES ASSUME Init PROVE Abstract!Init
    OBVIOUS
  <2>1. Clean /\ race.early = {} /\ khead = 0 /\ tail = 0 /\ taken = <<>>
    BY DEF Init, Clean
  <2>2. Posted = <<>>
    <3>1. tail - khead = 0
      BY <2>1
    <3> QED  BY <3>1, PostedHolds
  <2> QED  BY <2>1, <2>2 DEF Abstract!Init
<1>2. ASSUME QInv, QInv', [Next]_vars
      PROVE  [Abstract!Next]_<<Posted, TakenJobs, ~Clean \/ race.early # {}>>
  <2>0. TypeOK
    BY <1>2 DEF QInv, RInv, MInv, TInv
  <2>1. CASE ~Unraced'
    <3>1. (~Clean \/ race.early # {})'
      BY <2>1 DEF Unraced
    <3> QED  BY <3>1 DEF Abstract!Next
  <2>2. CASE Unraced'
    <3>1. Unraced
      BY <1>2, <2>0, <2>2, RacesStay DEF Unraced
    <3>2. (~Clean \/ race.early # {})' = (~Clean \/ race.early # {})
      BY <2>2, <3>1 DEF Unraced
    <3>3. CASE UNCHANGED vars
      <4>1. Posted' = Posted /\ TakenJobs' = TakenJobs
        BY <3>3 DEF vars, Posted, TakenJobs, Job, Slot
      <4> QED  BY <3>2, <4>1
    <3>4. ASSUME NEW t \in Threads, Moves(t)
          PROVE  [Abstract!Next]_<<Posted, TakenJobs, ~Clean \/ race.early # {}>>
      <4>1. CASE Advance(t)
        <5>1. Abstract!Post(Job(t))
          BY <1>2, <2>2, <3>1, <3>2, <4>1, AdvancePosts DEF Abstract!Post, TakenJobs
        <5>2. Job(t) \in Jobs
          BY <1>2, <2>2, <3>1, <4>1, AdvancePosts
        <5> QED  BY <5>1, <5>2 DEF Abstract!Next
      <4>2. CASE LeaveUnprepared(t)
        <5>1. \E k \in DOMAIN Posted : Abstract!Repeat(k)
          BY <1>2, <2>2, <3>1, <3>2, <4>2, LeftRepeats
             DEF Abstract!Repeat, Abstract!Before, TakenJobs
        <5> QED  BY <5>1 DEF Abstract!Next
      <4>3. CASE Enter(t)
        <5>1. \/ Posted' = Posted /\ TakenJobs' = TakenJobs
              \/ \E k \in DOMAIN Posted : Abstract!Submit(k)
          BY <1>2, <2>2, <3>1, <3>2, <4>3, EnterSubmits DEF Abstract!Submit, TakenJobs
        <5> QED  BY <3>2, <5>1 DEF Abstract!Next
      <4>4. CASE ~Advance(t) /\ ~LeaveUnprepared(t) /\ ~Enter(t)
        BY <1>2, <2>2, <3>1, <3>2, <3>4, <4>4, QueuesStay
      <4> QED  BY <4>1, <4>2, <4>3, <4>4
    <3>5. (\E t \in Threads : Moves(t)) \/ UNCHANGED vars
      BY <1>2, RingAssumption DEF Next, Moves, Works
    <3> QED  BY <3>3, <3>4, <3>5
  <2> QED  BY <2>1, <2>2
<1>3. QInv /\ QInv' /\ [Next]_vars =>
        [Abstract!Next]_<<Posted, [i \in DOMAIN taken |-> taken[i].data],
                          ~Clean \/ race.early # {}>>
  BY <1>2 DEF TakenJobs
<1> QED  BY <1>1, <1>3, InitQInv, QStep, PTL DEF Spec, IsSubmitQueue, Abstract!Spec
=============================================================================
