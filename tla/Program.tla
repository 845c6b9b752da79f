------------------------------ MODULE Program ------------------------------
(***************************************************************************)
(* The program from main() to its end (src/src/main.cpp, the constructor,  *)
(* run, stop and destructor of IoUringServer, src/include/tcp.h), composed *)
(* with the pool of threads.  A connection is one of the pool's Tasks: it  *)
(* has an operation in the kernel, a completion that waits for the main    *)
(* thread, or a job in the pool; what the handlers do to it is the matter  *)
(* of UringServer.                                                         *)
(*                                                                         *)
(* A job uses the dispatcher and the ring by raw pointers.  One that runs  *)
(* when they are gone has no defined behaviour: it ends as if they were    *)
(* there, without effect, or it ends the program.                          *)
(***************************************************************************)
EXTENDS ThreadPool

CONSTANTS MaxSignals,  \* bound: signals
          MaxEvents    \* bound: completions

ASSUME BoundsAssumption == MaxSignals \in Nat /\ MaxEvents \in Nat

VARIABLES
    main,      \* where the main thread is
    running,   \* _running
    alive,     \* the parts of the server that exist
    listen,    \* _socket_fd: no socket, an open one, the number of a closed one
    inkernel,  \* connections with an operation in the kernel
    cqes,      \* connections with a completion that is not handled
    signals,   \* signals so far
    events,    \* completions so far
    asked      \* history: a signal has come, and the handler has said that it
               \* closes the server

serverVars == <<main, running, alive, listen, inkernel, cqes, signals, events, asked>>
allVars == <<vars, serverVars>>

Parts == {"ring", "dispatcher", "pool", "memory", "listener"}
InLoop == {"test", "wait", "work"}

ProgramTypeOK ==
    /\ TypeOK
    /\ main \in {"boot", "setup", "armed", "left", "ended", "crashed"} \cup InLoop
    /\ running \in BOOLEAN /\ asked \in BOOLEAN
    /\ alive \subseteq Parts
    /\ listen \in {"none", "open", "stale"}
    /\ inkernel \subseteq Tasks /\ cqes \subseteq Tasks
    /\ signals \in 0 .. MaxSignals /\ events \in 0 .. MaxEvents

ProgramInit ==
    /\ Init
    /\ main = "boot" /\ running = FALSE /\ alive = {} /\ listen = "none"
    /\ inkernel = {} /\ cqes = {} /\ signals = 0 /\ events = 0 /\ asked = FALSE

---------------------------------------------------------------------------
(* main() and run(). *)

\* The constructor of the server; g_server is set.
Build ==
    /\ main = "boot"
    /\ main' = "setup"
    /\ alive' = Parts
    /\ UNCHANGED <<vars, running, listen, inkernel, cqes, signals, events, asked>>

\* No ring: the constructor throws, and the members that it has made go.
BuildFails ==
    /\ main = "boot"
    /\ main' = "left"
    /\ alive' = {"pool", "memory", "listener"}
    /\ UNCHANGED <<vars, running, listen, inkernel, cqes, signals, events, asked>>

GetListenFd ==
    /\ main = "setup"
    /\ main' = "armed"
    /\ listen' = "open"
    /\ UNCHANGED <<vars, running, alive, inkernel, cqes, signals, events, asked>>

\* socket() fails, or one of the later calls: the descriptor is closed then,
\* but its number is kept.  run() throws.
GetListenFdFails ==
    /\ main = "setup"
    /\ main' = "left"
    /\ listen' \in {"none", "stale"}
    /\ UNCHANGED <<vars, running, alive, inkernel, cqes, signals, events, asked>>

StartServing ==
    /\ main = "armed"
    /\ main' = "test"
    /\ running' = TRUE
    /\ inkernel' = Tasks
    /\ UNCHANGED <<vars, alive, listen, cqes, signals, events, asked>>

\* Mutant: the flag is not looked at.
TestAlways ==
    /\ main = "test"
    /\ main' = "wait"
    /\ UNCHANGED <<vars, running, alive, listen, inkernel, cqes, signals, events, asked>>

\* The condition of the loop.
Test ==
    /\ main = "test"
    /\ main' = IF running THEN "wait" ELSE "left"
    /\ UNCHANGED <<vars, running, alive, listen, inkernel, cqes, signals, events, asked>>

WaitReturns ==
    /\ main = "wait" /\ cqes # {}
    /\ main' = "work"
    /\ UNCHANGED <<vars, running, alive, listen, inkernel, cqes, signals, events, asked>>

WaitAgain ==
    /\ main = "wait" /\ cqes = {}
    /\ main' = "test"
    /\ UNCHANGED <<vars, running, alive, listen, inkernel, cqes, signals, events, asked>>

\* A completion is a whole request: a job for the pool.
Dispatch(t) ==
    /\ main = "work" /\ t \in cqes
    /\ Enqueue(t)
    /\ cqes' = cqes \ {t}
    /\ UNCHANGED <<main, running, alive, listen, inkernel, signals, events, asked>>

\* It is something else: another operation is set up or the object released.
Handle(t) ==
    /\ main = "work" /\ owner = "free" /\ t \in cqes
    /\ cqes' = cqes \ {t}
    /\ inkernel' \in {inkernel, inkernel \cup {t}}
    /\ UNCHANGED <<vars, main, running, alive, listen, signals, events, asked>>

Notify ==
    /\ main = "work"
    /\ NotifyOne
    /\ UNCHANGED serverVars

WorkDone ==
    /\ main = "work" /\ owner = "free" /\ cqes = {}
    /\ main' = "test"
    /\ UNCHANGED <<vars, running, alive, listen, inkernel, cqes, signals, events, asked>>

---------------------------------------------------------------------------
(* The end of the server's life.  The destructor stops the loop and exits   *)
(* the ring; then the members go in the reverse order of their declaration. *)

\* Mutant: the order of the declarations in uring_server.h.
DeclarationOrder == <<"ring", "listener", "memory", "pool", "dispatcher">>

DestructionOrder == <<"ring", "dispatcher", "pool", "memory", "listener">>

NextPart(p) ==
    \E i \in DOMAIN DestructionOrder :
        /\ p = DestructionOrder[i] /\ p \in alive
        /\ \A j \in 1 .. i - 1 : DestructionOrder[j] \notin alive

ExitRing ==
    /\ main = "left" /\ NextPart("ring")
    /\ running' = FALSE
    /\ alive' = alive \ {"ring"}
    /\ inkernel' = {} /\ cqes' = {}
    /\ UNCHANGED <<vars, main, listen, signals, events, asked>>

DestroyMember(p) ==
    /\ main = "left" /\ NextPart(p) /\ p \in {"dispatcher", "memory"}
    /\ alive' = alive \ {p}
    /\ UNCHANGED <<vars, main, running, listen, inkernel, cqes, signals, events, asked>>

ShutdownPool ==
    /\ main = "left" /\ NextPart("pool")
    /\ Shutdown \/ NotifyAll \/ Joined
    /\ UNCHANGED serverVars

DestroyPool ==
    /\ main = "left" /\ NextPart("pool") /\ owner = "joined"
    /\ alive' = alive \ {"pool"}
    /\ UNCHANGED <<vars, main, running, listen, inkernel, cqes, signals, events, asked>>

CloseListener ==
    /\ main = "left" /\ NextPart("listener")
    /\ alive' = alive \ {"listener"}
    /\ listen' = "none"
    /\ UNCHANGED <<vars, main, running, inkernel, cqes, signals, events, asked>>

End ==
    /\ main = "left" /\ alive = {}
    /\ main' = "ended"
    /\ UNCHANGED <<vars, running, alive, listen, inkernel, cqes, signals, events, asked>>

---------------------------------------------------------------------------
(* The kernel, the user, the workers. *)

Complete(t) ==
    /\ main # "crashed" /\ t \in inkernel /\ events < MaxEvents
    /\ inkernel' = inkernel \ {t}
    /\ cqes' = cqes \cup {t}
    /\ events' = events + 1
    /\ UNCHANGED <<vars, main, running, alive, listen, signals, asked>>

\* The signal handler, which calls stop().  Earlier there is no server, later
\* _running is FALSE, and nothing is done in both cases.  A signal ends
\* io_uring_wait_cqe with an error and the loop with it, unless there is
\* something to return or the call has not begun.
Signal ==
    /\ main \in {"setup", "armed"} \cup InLoop /\ signals < MaxSignals
    /\ signals' = signals + 1
    /\ asked' = TRUE
    /\ running' = FALSE
    /\ main' \in {main} \cup (IF main = "wait" /\ cqes = {} THEN {"left"} ELSE {})
    /\ UNCHANGED <<vars, alive, listen, inkernel, cqes, events>>

PoolRuns == main # "crashed" /\ "pool" \in alive

\* A worker looks for a task, sleeps, wakes up, or ends.
Works(w) ==
    /\ PoolRuns
    /\ Sleeps(w) \/ Takes(w) \/ Exits(w)
    /\ UNCHANGED serverVars

Wakes(w) ==
    /\ PoolRuns
    /\ WakesSpuriously(w)
    /\ UNCHANGED serverVars

\* A job and its callback, which submits the answer, or reads on without one.
FinishesJob(w) ==
    /\ PoolRuns
    /\ Finishes(w)
    /\ inkernel' = IF "ring" \in alive THEN inkernel \cup {task[w]} ELSE inkernel
    /\ UNCHANGED <<main, running, alive, listen, cqes, signals, events, asked>>

\* It follows a pointer to what is no longer there.
Crashes(w) ==
    /\ PoolRuns /\ pc[w] = "run"
    /\ ~({"ring", "dispatcher"} \subseteq alive)
    /\ main' = "crashed"
    /\ UNCHANGED <<vars, running, alive, listen, inkernel, cqes, signals, events, asked>>

---------------------------------------------------------------------------
MainStep ==
    \/ Build \/ BuildFails \/ GetListenFd \/ GetListenFdFails \/ StartServing
    \/ Test \/ WaitReturns \/ Notify \/ WorkDone
    \/ \E t \in Tasks : Dispatch(t) \/ Handle(t)
    \/ ExitRing \/ ShutdownPool \/ DestroyPool \/ CloseListener \/ End
    \/ \E p \in Parts : DestroyMember(p)

WorkerRuns(w) == Works(w) \/ FinishesJob(w) \/ Crashes(w)

ProgramNext ==
    \/ MainStep \/ WaitAgain \/ Signal
    \/ \E t \in Tasks : Complete(t)
    \/ \E w \in Workers : WorkerRuns(w) \/ Wakes(w)

ProgramSpec == ProgramInit /\ [][ProgramNext]_allVars

\* Threads run and get the mutex, and jobs end.  Nothing has to complete,
\* nobody has to send a signal, and no call has to fail or to wake spuriously.
ProgramFairSpec ==
    /\ ProgramSpec
    /\ WF_allVars(MainStep)
    /\ \A w \in Workers : WF_allVars(WorkerRuns(w))

---------------------------------------------------------------------------
\* What somebody uses is there: when the connection objects are freed no job
\* is left that has a pointer to one, nor an operation in the kernel, and no
\* accept waits on a listening socket that is closed.
OutlivesUsers ==
    /\ main \notin {"boot", "crashed"} /\ "memory" \notin alive =>
          queue = <<>> /\ At("run") = {} /\ inkernel = {}
    /\ listen # "open" => inkernel = {}

\* Whatever is submitted to the pool is done in the end, whenever the program
\* is stopped, unless it crashes.
JobsDone == \A t \in Tasks : t \in ToSet(queue) ~> t \in done \/ main = "crashed"

\* After stop() the loop goes on for no longer than it takes to handle what
\* has completed.
LoopIsLeft == ~running /\ main \in InLoop /\ cqes # {} ~> main = "left"

\* Once the loop is left, or was never reached, the program comes to an end:
\* the destructor is not kept waiting by a sleeping worker.
Ends == main = "left" ~> main \in {"ended", "crashed"}

\* A signal closes the server (main.cpp:10), and closes it normally
\* (main.cpp:34).
StopsWhenAsked == asked ~> main = "ended"
=============================================================================
