----------------------------- MODULE ThreadPool -----------------------------
(***************************************************************************)
(* The pool of worker threads (src/include/pthread_pool.h): a FIFO queue   *)
(* under a mutex, a condition variable and a stop flag.                    *)
(*                                                                         *)
(* A section of code under the mutex is one step; notifications are given  *)
(* after the mutex is released and are steps of their own.  Waiting        *)
(* releases the mutex and sleeps in one step, as std::condition_variable   *)
(* does, and a sleeper may wake without having been notified.  One thread, *)
(* the server's main thread, owns the pool.                                *)
(***************************************************************************)
EXTENDS Naturals, Sequences, FiniteSets, SequencesExt

CONSTANTS Workers,  \* threads of the pool
          Tasks,    \* bound: tasks that the owner submits, each once
          NoTask

ASSUME WorkersAssumption == Workers # {} /\ IsFiniteSet(Workers)
ASSUME TasksAssumption == NoTask \notin Tasks

VARIABLES
    owner,      \* what the owner of the pool is doing
    queue,      \* _tasks
    stop,       \* _stop
    pc,         \* where each worker is in its loop
    task,       \* what it runs
    submitted,  \* history: tasks in the order of their submission
    done        \* history: tasks that ran to their end

vars == <<owner, queue, stop, pc, task, submitted, done>>

At(place) == {w \in Workers : pc[w] = place}

TypeOK ==
    /\ owner \in {"free", "notify", "notifyAll", "joining", "joined"}
    /\ queue \in Seq(Tasks)
    /\ stop \in BOOLEAN
    /\ pc \in [Workers -> {"check", "sleep", "run", "exited"}]
    /\ task \in [Workers -> Tasks \cup {NoTask}]
    /\ submitted \in Seq(Tasks)
    /\ done \subseteq Tasks

Init ==
    /\ owner = "free" /\ queue = <<>> /\ stop = FALSE
    /\ pc = [w \in Workers |-> "check"]
    /\ task = [w \in Workers |-> NoTask]
    /\ submitted = <<>> /\ done = {}

---------------------------------------------------------------------------
(* The owner. *)

\* enqueue and enqueue_with_callback, up to the end of the locked section.
Enqueue(t) ==
    /\ owner = "free" /\ ~stop /\ t \notin ToSet(submitted)
    /\ queue' = Append(queue, t)
    /\ submitted' = Append(submitted, t)
    /\ owner' = "notify"
    /\ UNCHANGED <<stop, pc, task, done>>

\* Mutant: a notification that wakes nobody.
NotifyNobody ==
    /\ owner = "notify"
    /\ owner' = "free"
    /\ UNCHANGED <<queue, stop, pc, task, submitted, done>>

NotifyOne ==
    /\ owner = "notify"
    /\ owner' = "free"
    /\ IF At("sleep") = {} THEN UNCHANGED pc
       ELSE \E w \in At("sleep") : pc' = [pc EXCEPT ![w] = "check"]
    /\ UNCHANGED <<queue, stop, task, submitted, done>>

\* shutdown, which the destructor calls too unless it was called before.
Shutdown ==
    /\ owner = "free" /\ ~stop
    /\ stop' = TRUE
    /\ owner' = "notifyAll"
    /\ UNCHANGED <<queue, pc, task, submitted, done>>

\* Mutant: one worker is woken.
NotifyOnlyOne ==
    /\ owner = "notifyAll"
    /\ owner' = "joining"
    /\ IF At("sleep") = {} THEN UNCHANGED pc
       ELSE \E w \in At("sleep") : pc' = [pc EXCEPT ![w] = "check"]
    /\ UNCHANGED <<queue, stop, task, submitted, done>>

NotifyAll ==
    /\ owner = "notifyAll"
    /\ owner' = "joining"
    /\ pc' = [w \in Workers |-> IF pc[w] = "sleep" THEN "check" ELSE pc[w]]
    /\ UNCHANGED <<queue, stop, task, submitted, done>>

Joined ==
    /\ owner = "joining" /\ At("exited") = Workers
    /\ owner' = "joined"
    /\ UNCHANGED <<queue, stop, pc, task, submitted, done>>

---------------------------------------------------------------------------
(* A worker. *)

\* Mutant: it sleeps although there may be a task.
SleepsAnyway(w) ==
    /\ pc[w] = "check" /\ ~stop
    /\ pc' = [pc EXCEPT ![w] = "sleep"]
    /\ UNCHANGED <<owner, queue, stop, task, submitted, done>>

Sleeps(w) ==
    /\ pc[w] = "check" /\ ~stop /\ queue = <<>>
    /\ pc' = [pc EXCEPT ![w] = "sleep"]
    /\ UNCHANGED <<owner, queue, stop, task, submitted, done>>

WakesSpuriously(w) ==
    /\ pc[w] = "sleep"
    /\ pc' = [pc EXCEPT ![w] = "check"]
    /\ UNCHANGED <<owner, queue, stop, task, submitted, done>>

\* Mutant: the task is not removed from the queue.
TakesWithoutPop(w) ==
    /\ pc[w] = "check" /\ queue # <<>>
    /\ task' = [task EXCEPT ![w] = Head(queue)]
    /\ pc' = [pc EXCEPT ![w] = "run"]
    /\ UNCHANGED <<owner, queue, stop, submitted, done>>

Takes(w) ==
    /\ pc[w] = "check" /\ queue # <<>>
    /\ task' = [task EXCEPT ![w] = Head(queue)]
    /\ queue' = Tail(queue)
    /\ pc' = [pc EXCEPT ![w] = "run"]
    /\ UNCHANGED <<owner, stop, submitted, done>>

\* Mutant: the stop flag alone ends the loop.
ExitsAtOnce(w) ==
    /\ pc[w] = "check" /\ stop
    /\ pc' = [pc EXCEPT ![w] = "exited"]
    /\ UNCHANGED <<owner, queue, stop, task, submitted, done>>

Exits(w) ==
    /\ pc[w] = "check" /\ stop /\ queue = <<>>
    /\ pc' = [pc EXCEPT ![w] = "exited"]
    /\ UNCHANGED <<owner, queue, stop, task, submitted, done>>

\* Mutant: the task is looked at after it was reset.
FinishesAfterReset(w) ==
    /\ pc[w] = "run"
    /\ task' = [task EXCEPT ![w] = NoTask]
    /\ done' = done \cup {NoTask}
    /\ pc' = [pc EXCEPT ![w] = "check"]
    /\ UNCHANGED <<owner, queue, stop, submitted>>

\* The task returns, or throws into its packaged_task.
Finishes(w) ==
    /\ pc[w] = "run"
    /\ done' = done \cup {task[w]}
    /\ task' = [task EXCEPT ![w] = NoTask]
    /\ pc' = [pc EXCEPT ![w] = "check"]
    /\ UNCHANGED <<owner, queue, stop, submitted>>

---------------------------------------------------------------------------
WorkerStep(w) == Sleeps(w) \/ Takes(w) \/ Exits(w) \/ Finishes(w)

Next ==
    \/ \E t \in Tasks : Enqueue(t)
    \/ NotifyOne \/ Shutdown \/ NotifyAll \/ Joined
    \/ \E w \in Workers : WorkerStep(w) \/ WakesSpuriously(w)

Spec == Init /\ [][Next]_vars

---------------------------------------------------------------------------
Running == {task[w] : w \in At("run")}

\* While a worker sleeps, every queued task has a worker on its way to it or
\* a notification that is about to be given: no wakeup is lost, and no more
\* work waits than must.
NoIdleSleeper ==
    At("sleep") # {} =>
        Len(queue) <= Cardinality(At("check")) + (IF owner = "notify" THEN 1 ELSE 0)

\* Tasks start in the order of their submission and nothing is dropped: the
\* queue is what is left of the tasks submitted, and the others run or ran.
InOrder ==
    /\ queue = SubSeq(submitted, Len(submitted) - Len(queue) + 1, Len(submitted))
    /\ Running \cup done = ToSet(submitted) \ ToSet(queue)
    /\ Running \cap done = {}

\* When shutdown() returns, all that was submitted is done: the connections
\* that tasks work on may then be destroyed.
DrainedWhenJoined == owner = "joined" => done = ToSet(submitted)

Abstract == INSTANCE TaskPool WITH
    Jobs <- Tasks, Capacity <- Cardinality(Workers),
    pending <- ToSet(queue), active <- Running

\* The queue and the workers implement the abstract pool.
IsTaskPool == Abstract!Spec
=============================================================================
