--------------------------- MODULE SubmissionRing ---------------------------
(***************************************************************************)
(* The submission ring, shared by the main thread and by the callbacks     *)
(* that workers run, without a lock.                                       *)
(*                                                                         *)
(* UringServer takes get_sqe, prep, set_data and submit for one step.      *)
(* Here each access to the shared ring is a step of its own.  The ring     *)
(* itself is liburing's: get_sqe reads the user's tail and writes it       *)
(* back; submit publishes that tail and enters the kernel, which takes     *)
(* what lies between its head and the published tail.  The order of the    *)
(* accesses, and who makes them, are the server's, and the threads meet in *)
(* every way.  The history race records what goes wrong when they do, and  *)
(* the properties say that nothing else does.                              *)
(***************************************************************************)
EXTENDS Integers, Sequences, FiniteSets, SequencesExt

CONSTANTS
    Threads,     \* that use the ring
    Main,        \* the main thread, one of them
    Entries,     \* size of the ring
    WordSize,    \* ring counters are unsigned, modulo this (2^32)
    MainOps,     \* bound: operations that the main thread prepares
    WorkerOps,   \* bound: operations that another thread prepares
    MaxRounds,   \* bound: submits of the main thread without an operation
    MaxFails     \* bound: io_uring_enter calls that fail

ASSUME RingAssumption ==
    /\ Main \in Threads
    /\ Entries \in Nat \ {0} /\ WordSize \in Nat /\ WordSize > 2 * Entries
    /\ MainOps \in Nat /\ WorkerOps \in Nat
    /\ MaxRounds \in Nat /\ MaxFails \in Nat

MaxOps(t) == IF t = Main THEN MainOps ELSE WorkerOps

\* One operation on one connection each.
Jobs == UNION {{t} \X (1 .. MaxOps(t)) : t \in Threads}
Blank == <<>>                      \* a slot that was never written

VARIABLES
    khead,   \* entries that the kernel has taken
    ktail,   \* tail published to the kernel
    tail,    \* sqe_tail
    slots,   \* for each slot, whose operation it describes and whose user_data
    th,      \* the threads
    marked,  \* jobs whose connection has the state of the operation
    taken,   \* history: entries taken by the kernel, in order
    dropped, \* history: jobs for which no entry could be had, or none was set up
    race,    \* history: slot, a thread was given a slot that another still uses;
             \*   tail, the published tail went back behind the kernel's head;
             \*   early, entries that the kernel took from under their thread
    budget   \* what is left of the bounds

vars == <<khead, ktail, tail, slots, th, marked, taken, dropped, race, budget>>

Min2(a, b) == IF a < b THEN a ELSE b
Slot(i) == i % Entries
Distance(a, b) == (b - a) % WordSize   \* b - a as an unsigned number

Job(t) == <<t, th[t].n>>

TypeOK ==
    /\ khead \in Nat /\ ktail \in Nat /\ tail \in Nat
    /\ slots \in [0 .. Entries - 1 -> [op : Jobs \cup {Blank}, data : Jobs \cup {Blank}]]
    /\ th \in [Threads -> [pc : {"idle", "get", "advance", "prep", "data", "state",
                                 "flush", "publish", "enter"},
                           mode : {"now", "later", "round"}, n : Nat,
                           seen : Nat, todo : 0 .. WordSize - 1, again : BOOLEAN]]
    /\ marked \subseteq Jobs
    /\ taken \in Seq([op : Jobs \cup {Blank}, data : Jobs \cup {Blank}])
    /\ dropped \subseteq Jobs
    /\ race \in [slot : BOOLEAN, tail : BOOLEAN, early : SUBSET (Nat \X Jobs)]
    /\ budget \in [rounds : Nat, fails : Nat]

Init ==
    /\ khead = 0 /\ ktail = 0 /\ tail = 0
    /\ slots = [i \in 0 .. Entries - 1 |-> [op |-> Blank, data |-> Blank]]
    /\ th = [t \in Threads |-> [pc |-> "idle", mode |-> "now", n |-> 0, seen |-> 0,
                                todo |-> 0, again |-> FALSE]]
    /\ marked = {} /\ taken = <<>> /\ dropped = {}
    /\ race = [slot |-> FALSE, tail |-> FALSE, early |-> {}]
    /\ budget = [rounds |-> MaxRounds, fails |-> MaxFails]

---------------------------------------------------------------------------
\* A thread starts to set up an operation.  set_accept_event and
\* set_close_event leave the submit to the end of the main thread's round.
Begin(t) ==
    /\ th[t].pc = "idle" /\ th[t].n < MaxOps(t)
    /\ \E m \in IF t = Main THEN {"now", "later"} ELSE {"now"} :
         th' = [th EXCEPT ![t].pc = "get", ![t].mode = m, ![t].n = @ + 1,
                          ![t].again = FALSE]
    /\ UNCHANGED <<khead, ktail, tail, slots, marked, taken, dropped, race, budget>>

\* The submit at the end of a round.
BeginRound ==
    /\ th[Main].pc = "idle" /\ budget.rounds > 0
    /\ th' = [th EXCEPT ![Main].pc = "flush", ![Main].mode = "round",
                        ![Main].again = FALSE]
    /\ budget' = [budget EXCEPT !.rounds = @ - 1]
    /\ UNCHANGED <<khead, ktail, tail, slots, marked, taken, dropped, race>>

Room == Distance(khead, tail + 1) <= Entries

\* Between the read of the tail and the end of the set-up the entry is the
\* thread's, or so it believes.
Uses(t) == th[t].pc \in {"advance", "prep", "data", "state"}
Shared(t) == \E u \in Threads \ {t} : Uses(u) /\ Slot(th[u].seen) = Slot(tail)

\* io_uring_get_sqe finds room and has read the tail.
GetSqe(t) ==
    /\ th[t].pc = "get" /\ Room
    /\ th' = [th EXCEPT ![t].pc = "advance", ![t].seen = tail]
    /\ race' = [race EXCEPT !.slot = @ \/ Shared(t)]
    /\ UNCHANGED <<khead, ktail, tail, slots, marked, taken, dropped, budget>>

\* No room: the ring is submitted and get_sqe called once more, except by
\* set_accept_event and set_close_event.
GetSqeFull(t) ==
    /\ th[t].pc = "get" /\ ~Room
    /\ IF th[t].again \/ th[t].mode = "later"
       THEN /\ th' = [th EXCEPT ![t].pc = "idle"]
            /\ dropped' = dropped \cup {Job(t)}
       ELSE /\ th' = [th EXCEPT ![t].pc = "flush", ![t].again = TRUE]
            /\ UNCHANGED dropped
    /\ UNCHANGED <<khead, ktail, tail, slots, marked, taken, race, budget>>

\* ... and writes the tail back.
Advance(t) ==
    /\ th[t].pc = "advance"
    /\ tail' = th[t].seen + 1
    /\ th' = [th EXCEPT ![t].pc = "prep"]
    /\ UNCHANGED <<khead, ktail, slots, marked, taken, dropped, race, budget>>

\* set_accept_event finds no object, or the callback in its second attempt
\* no answer: the entry stays in the ring with what it held before.
LeaveUnprepared(t) ==
    /\ th[t].pc = "prep"
    /\ IF t = Main THEN th[t].mode = "later" ELSE th[t].again
    /\ th' = [th EXCEPT ![t].pc = "idle"]
    /\ dropped' = dropped \cup {Job(t)}
    /\ UNCHANGED <<khead, ktail, tail, slots, marked, taken, race, budget>>

\* Mutant: the operation is prepared for the connection before this one.
PrepareForLast(t) ==
    /\ th[t].pc = "prep"
    /\ slots' = [slots EXCEPT ![Slot(th[t].seen)].op = <<t, th[t].n - 1>>]
    /\ marked' = IF t = Main THEN marked \cup {Job(t)} ELSE marked
    /\ th' = [th EXCEPT ![t].pc = "data"]
    /\ UNCHANGED <<khead, ktail, tail, taken, dropped, race, budget>>

\* The main thread's functions assign conn->state before they prepare, the
\* callback of a worker at the end.
Prepare(t) ==
    /\ th[t].pc = "prep"
    /\ slots' = [slots EXCEPT ![Slot(th[t].seen)].op = Job(t)]
    /\ marked' = IF t = Main THEN marked \cup {Job(t)} ELSE marked
    /\ th' = [th EXCEPT ![t].pc = "data"]
    /\ UNCHANGED <<khead, ktail, tail, taken, dropped, race, budget>>

AfterData(t) == IF t # Main THEN "state" ELSE IF th[t].mode = "now" THEN "flush" ELSE "idle"

\* Mutant: the entry keeps the pointer of its last use.
SetDataForgotten(t) ==
    /\ th[t].pc = "data"
    /\ th' = [th EXCEPT ![t].pc = AfterData(t)]
    /\ UNCHANGED <<khead, ktail, tail, slots, marked, taken, dropped, race, budget>>

SetData(t) ==
    /\ th[t].pc = "data"
    /\ slots' = [slots EXCEPT ![Slot(th[t].seen)].data = Job(t)]
    /\ th' = [th EXCEPT ![t].pc = AfterData(t)]
    /\ UNCHANGED <<khead, ktail, tail, marked, taken, dropped, race, budget>>

SetState(t) ==
    /\ th[t].pc = "state"
    /\ marked' = marked \cup {Job(t)}
    /\ th' = [th EXCEPT ![t].pc = "flush"]
    /\ UNCHANGED <<khead, ktail, tail, slots, taken, dropped, race, budget>>

\* io_uring_submit reads the user's tail, publishes it unless it is already
\* published, and works out how many entries the kernel is to take.
ReadTail(t) ==
    /\ th[t].pc = "flush"
    /\ th' = [th EXCEPT ![t].pc = IF tail = ktail THEN "enter" ELSE "publish",
                        ![t].seen = tail, ![t].todo = Distance(khead, tail)]
    /\ UNCHANGED <<khead, ktail, tail, slots, marked, taken, dropped, race, budget>>

Publish(t) ==
    /\ th[t].pc = "publish"
    /\ ktail' = th[t].seen
    /\ th' = [th EXCEPT ![t].pc = "enter", ![t].todo = Distance(khead, th[t].seen)]
    /\ race' = [race EXCEPT !.tail = @ \/ th[t].seen < khead]
    /\ UNCHANGED <<khead, tail, slots, marked, taken, dropped, budget>>

\* Mutant: get_sqe is called once more although the first call succeeded.
RetriesAlways(t) == th[t].again /\ th[t].mode = "now"

\* After its submit the thread calls get_sqe once more.
Retries(t) == th[t].again /\ th[t].mode = "now" /\ Job(t) \notin marked

\* Mutant: get_sqe is not called again after the submit.
ResumedWithoutEntry(t) == [th EXCEPT ![t].pc = IF Retries(t) THEN "advance" ELSE "idle"]

\* What the thread does when its submit has returned.
Resumed(t) == [th EXCEPT ![t].pc = IF Retries(t) THEN "get" ELSE "idle"]

\* How many entries the kernel takes, and those in use by a thread.
Batch(t) == Min2(th[t].todo, Min2(Entries, Distance(khead, ktail)))
TakenEarly(k) ==
    {<<th[u].seen, Job(u)>> : u \in {v \in Threads :
        th[v].pc \in {"prep", "data", "state"} /\ th[v].seen \in khead .. khead + k - 1}}

\* The kernel takes the entries as they are at this moment.
Enter(t) ==
    /\ th[t].pc = "enter"
    /\ taken' = taken \o [i \in 1 .. Batch(t) |-> slots[Slot(khead + i - 1)]]
    /\ khead' = khead + Batch(t)
    /\ race' = [race EXCEPT !.early = @ \cup TakenEarly(Batch(t))]
    /\ th' = Resumed(t)
    /\ UNCHANGED <<ktail, tail, slots, marked, dropped, budget>>

EnterFails(t) ==
    /\ th[t].pc = "enter" /\ budget.fails > 0
    /\ budget' = [budget EXCEPT !.fails = @ - 1]
    /\ th' = Resumed(t)
    /\ UNCHANGED <<khead, ktail, tail, slots, marked, taken, dropped, race>>

Next ==
    \/ BeginRound
    \/ \E t \in Threads :
         \/ Begin(t) \/ GetSqe(t) \/ GetSqeFull(t) \/ Advance(t) \/ LeaveUnprepared(t)
         \/ Prepare(t) \/ SetData(t) \/ SetState(t) \/ ReadTail(t) \/ Publish(t)
         \/ Enter(t) \/ EnterFails(t)

Spec == Init /\ [][Next]_vars

---------------------------------------------------------------------------
\* No thread was given a slot that another was using, and the published tail
\* never went back behind the kernel's head.
Clean == ~race.slot /\ ~race.tail

Whole(e) == e.data = e.op /\ (e.op = Blank \/ e.op \in marked)

\* Whatever the threads do to each other: until two of them use one slot or
\* the published tail goes back, the kernel takes an entry with the parts of
\* two operations, or before its connection has the state of the operation,
\* only while its thread is still at work on it.  Nothing spreads from such an
\* entry, or from one that was left unprepared, to the others.  A torn entry's
\* completion would reach the wrong connection or the wrong handler.
TakenWhole ==
    Clean => \A i \in DOMAIN taken :
                \/ Whole(taken[i])
                \/ \E e \in race.early : e[1] = i - 1

\* The thread has not yet set up its latest operation.
Pending(t) ==
    \/ th[t].pc \in {"get", "advance", "prep", "data"}
    \/ th[t].pc \in {"flush", "publish", "enter"} /\ Retries(t)

SetUp(t) == {<<t, k>> : k \in {i \in 1 .. MaxOps(t) :
                i < th[t].n \/ (i = th[t].n /\ ~Pending(t))}}

\* Until two threads use one slot or the published tail goes back, an operation
\* that was set up lies in the ring until the kernel takes it, and no other is
\* written over it; only one whose entry the kernel took too early is lost.
NoneOverwritten ==
    Clean => \A t \in Threads : \A j \in SetUp(t) :
                \/ j \in dropped
                \/ \E e \in race.early : e[2] = j
                \/ \E i \in DOMAIN taken : taken[i].data = j
                \/ \E i \in khead .. tail - 1 : slots[Slot(i)].data = j

\* What the entries that the kernel has not taken will hold, oldest first.
Posted ==
    [i \in 1 .. tail - khead |->
        LET p == khead + i - 1
            users == {t \in Threads : th[t].pc \in {"prep", "data"} /\ th[t].seen = p}
        IN IF users # {} THEN Job(CHOOSE t \in users : TRUE) ELSE slots[Slot(p)].data]

\* The accesses of all threads together implement the queue that the server
\* believes the ring to be, each operation in its place, once and in order,
\* up to the first race; and the one exception, the operation that an entry
\* left unprepared repeats, is the one that lay in its slot before.
Abstract == INSTANCE SubmitQueue WITH
    posted <- Posted, taken <- [i \in DOMAIN taken |-> taken[i].data],
    raced <- ~Clean \/ race.early # {}
IsSubmitQueue == Abstract!Spec

\* The callback "sets up and submits the write event at once"
\* (dispatcher.h:47): when it returns, the kernel has the operation or the
\* ring had no room for it.
SubmittedAtOnce ==
    \A t \in Threads \ {Main} :
        th[t].pc = "idle" /\ th[t].n > 0 =>
            Job(t) \in dropped \/ \E i \in DOMAIN taken : taken[i].op = Job(t)
=============================================================================
