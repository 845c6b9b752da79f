---------------------------- MODULE ProgramProofs ----------------------------
(***************************************************************************)
(* For every number of workers, connections, signals and completions: the  *)
(* program uses the pool of threads as ThreadPool says, so all that is     *)
(* proved of the pool holds in the program, and what a job or the kernel   *)
(* uses of the server outlives it.                                         *)
(***************************************************************************)
EXTENDS Program, ThreadPoolProofs

Starting == {"boot", "setup", "armed"}

\* Which parts exist where the main thread is, and what they wait for: the
\* listening socket for the operations of the ring, the ring and the pool for
\* the connections that are still in use.
Lifetimes ==
    /\ main \in {"boot", "ended"} => alive = {}
    /\ main \in {"setup", "armed"} \cup InLoop => alive = Parts
    /\ main \in Starting => submitted = <<>> /\ inkernel = {}
    /\ main \in {"armed"} \cup InLoop => listen = "open"
    /\ inkernel # {} => "ring" \in alive /\ listen = "open"
    /\ submitted # <<>> /\ "ring" \in alive => listen = "open"
    /\ main # "boot" /\ "pool" \notin alive => owner = "joined" /\ "ring" \notin alive
    /\ main # "boot" /\ "memory" \notin alive => "pool" \notin alive

ProgramInv == IInv /\ ProgramTypeOK /\ Lifetimes

---------------------------------------------------------------------------
(* The program and the pool.                                               *)

LEMMA StepPool == ProgramNext => [Next]_vars
<1> SUFFICES ASSUME ProgramNext PROVE [Next]_vars
  OBVIOUS
<1>1. CASE \/ Build \/ BuildFails \/ GetListenFd \/ GetListenFdFails \/ StartServing
           \/ Test \/ WaitReturns \/ WaitAgain \/ WorkDone
  BY <1>1 DEF Build, BuildFails, GetListenFd, GetListenFdFails, StartServing, Test,
     WaitReturns, WaitAgain, WorkDone
<1>2. CASE ExitRing \/ DestroyPool \/ CloseListener \/ End \/ Signal
  BY <1>2 DEF ExitRing, DestroyPool, CloseListener, End, Signal
<1>3. CASE \E t \in Tasks : Handle(t) \/ Complete(t)
  BY <1>3 DEF Handle, Complete
<1>4. CASE \E p \in Parts : DestroyMember(p)
  BY <1>4 DEF DestroyMember
<1>5. CASE \E w \in Workers : Crashes(w)
  BY <1>5 DEF Crashes
<1>6. CASE Notify \/ ShutdownPool
  BY <1>6 DEF Notify, ShutdownPool, Next
<1>7. CASE \E t \in Tasks : Dispatch(t)
  BY <1>7 DEF Dispatch, Next
<1>8. CASE \E w \in Workers : Works(w) \/ Wakes(w) \/ FinishesJob(w)
  BY <1>8 DEF Works, Wakes, FinishesJob, Next, WorkerStep
<1> QED  BY <1>1, <1>2, <1>3, <1>4, <1>5, <1>6, <1>7, <1>8
         DEF ProgramNext, MainStep, WorkerRuns

\* Main thread, destructor and jobs use the pool only as its specification
\* allows.
THEOREM ProgramUsesPool == ProgramSpec => Spec
<1>1. ProgramInit => Init
  BY DEF ProgramInit
<1>2. [ProgramNext]_allVars => [Next]_vars
  BY StepPool DEF allVars
<1> QED  BY <1>1, <1>2, PTL DEF ProgramSpec, Spec

\* So, in the program too, no connection that is ready waits for a sleeping
\* worker, jobs start in the order of their dispatch, each once, and the
\* pool is the abstract one.
THEOREM ProgramPool ==
    ProgramSpec => []NoIdleSleeper /\ []InOrder /\ IsTaskPool
BY ProgramUsesPool, NoLostWakeup, Order, Refinement, PTL

---------------------------------------------------------------------------
(* Types.                                                                  *)

LEMMA StepProgramType ==
    ASSUME ProgramTypeOK, IInv, TypeOK', [ProgramNext]_allVars
    PROVE  ProgramTypeOK'
<1> USE DEF ProgramTypeOK, Parts, InLoop
<1>0. /\ main \in {"boot", "setup", "armed", "left", "ended", "crashed",
                   "test", "wait", "work"}
      /\ running \in BOOLEAN /\ asked \in BOOLEAN
      /\ alive \subseteq Parts /\ listen \in {"none", "open", "stale"}
      /\ inkernel \subseteq Tasks /\ cqes \subseteq Tasks
      /\ signals \in 0 .. MaxSignals /\ events \in 0 .. MaxEvents
  OBVIOUS
<1>1. CASE \/ Build \/ BuildFails \/ GetListenFd \/ GetListenFdFails \/ StartServing
           \/ Test \/ WaitReturns \/ WaitAgain \/ WorkDone
  BY <1>1 DEF Build, BuildFails, GetListenFd, GetListenFdFails, StartServing, Test,
     WaitReturns, WaitAgain, WorkDone
<1>2. CASE ExitRing \/ DestroyPool \/ CloseListener \/ End
  BY <1>2 DEF ExitRing, DestroyPool, CloseListener, End
<1>3. ASSUME NEW t \in Tasks, Handle(t) PROVE ProgramTypeOK'
  BY <1>3 DEF Handle
<1>4. ASSUME NEW t \in Tasks, Complete(t) PROVE ProgramTypeOK'
  <2>1. events' \in 0 .. MaxEvents
    <3>1. events \in Nat /\ events < MaxEvents /\ events' = events + 1
      BY <1>0, <1>4, BoundsAssumption DEF Complete
    <3> QED  BY <3>1, BoundsAssumption
  <2> QED  BY <1>0, <1>4, <2>1 DEF Complete
<1>5. CASE Signal
  <2>1. signals' \in 0 .. MaxSignals
    <3>1. signals \in Nat /\ signals < MaxSignals /\ signals' = signals + 1
      BY <1>0, <1>5, BoundsAssumption DEF Signal
    <3> QED  BY <3>1, BoundsAssumption
  <2> QED  BY <1>0, <1>5, <2>1 DEF Signal
<1>6. ASSUME NEW p \in Parts, DestroyMember(p) PROVE ProgramTypeOK'
  BY <1>6 DEF DestroyMember
<1>7. CASE Notify \/ ShutdownPool \/ UNCHANGED allVars
  BY <1>7 DEF Notify, ShutdownPool, allVars, serverVars
<1>8. ASSUME NEW t \in Tasks, Dispatch(t) PROVE ProgramTypeOK'
  BY <1>8 DEF Dispatch
<1>9. ASSUME NEW w \in Workers, Works(w) \/ Wakes(w) \/ Crashes(w)
      PROVE  ProgramTypeOK'
  BY <1>9 DEF Works, Wakes, Crashes, serverVars
<1>10. ASSUME NEW w \in Workers, FinishesJob(w) PROVE ProgramTypeOK'
  <2>1. task[w] \in Tasks
    BY <1>10, RunsTask DEF FinishesJob, Finishes, At
  <2>2. inkernel' \subseteq Tasks
    BY <1>0, <1>10, <2>1 DEF FinishesJob
  <2> QED  BY <1>0, <1>10, <2>2 DEF FinishesJob
<1> QED  BY <1>1, <1>2, <1>3, <1>4, <1>5, <1>6, <1>7, <1>8, <1>9, <1>10
         DEF ProgramNext, MainStep, WorkerRuns

\* The types of the program's variables.
THEOREM ProgramTypeCorrect == ProgramSpec => []ProgramTypeOK
<1>1. ProgramInit => ProgramTypeOK
  <2>1. ProgramInit => TypeOK
    BY InitInv DEF ProgramInit, IInv
  <2>2. 0 \in 0 .. MaxSignals /\ 0 \in 0 .. MaxEvents
    BY BoundsAssumption
  <2> QED  BY <2>1, <2>2 DEF ProgramInit, ProgramTypeOK
<1>2. Spec => []IInv
  BY Invariance
<1>3. IInv => TypeOK
  BY DEF IInv
<1>4. ProgramTypeOK /\ IInv /\ TypeOK' /\ [ProgramNext]_allVars => ProgramTypeOK'
  BY StepProgramType
<1> QED  BY <1>1, <1>2, <1>3, <1>4, ProgramUsesPool, PTL DEF ProgramSpec

---------------------------------------------------------------------------
(* Lifetimes.                                                              *)

\* A part goes after those whose destruction comes before.
LEMMA PartsInOrder ==
    /\ NextPart("pool") => "ring" \notin alive
    /\ NextPart("memory") => "pool" \notin alive
    /\ NextPart("listener") => "ring" \notin alive
<1>1. /\ DOMAIN DestructionOrder = 1 .. 5
      /\ DestructionOrder[1] = "ring" /\ DestructionOrder[2] = "dispatcher"
      /\ DestructionOrder[3] = "pool" /\ DestructionOrder[4] = "memory"
      /\ DestructionOrder[5] = "listener"
  BY DEF DestructionOrder
<1>2. ASSUME NEW p, NextPart(p), NEW k \in 1 .. 5, p = DestructionOrder[k]
      PROVE  \A j \in 1 .. k - 1 : DestructionOrder[j] \notin alive
  <2>1. PICK i \in 1 .. 5 :
             /\ p = DestructionOrder[i]
             /\ \A j \in 1 .. i - 1 : DestructionOrder[j] \notin alive
    BY <1>1, <1>2 DEF NextPart
  <2>2. \A m \in 1 .. 5 : m = 1 \/ m = 2 \/ m = 3 \/ m = 4 \/ m = 5
    OBVIOUS
  <2>3. i = k
    BY <1>1, <1>2, <2>1, <2>2
  <2> QED  BY <2>1, <2>3
<1>3. NextPart("pool") => DestructionOrder[1] \notin alive
  BY <1>1, <1>2
<1>4. NextPart("memory") => DestructionOrder[3] \notin alive
  BY <1>1, <1>2
<1>5. NextPart("listener") => DestructionOrder[1] \notin alive
  BY <1>1, <1>2
<1> QED  BY <1>1, <1>3, <1>4, <1>5

\* Steps of the main thread up to the end of the loop.
LEMMA LoopLifetimes ==
    ASSUME Lifetimes, ProgramTypeOK,
           \/ Build \/ BuildFails \/ GetListenFd \/ GetListenFdFails \/ StartServing
           \/ Test \/ WaitReturns \/ WaitAgain \/ WorkDone \/ Notify
           \/ \E t \in Tasks : Dispatch(t) \/ Handle(t)
    PROVE  Lifetimes'
<1> USE DEF Lifetimes, Starting, InLoop
<1>1. CASE Build \/ BuildFails
  BY <1>1 DEF Build, BuildFails, Parts, vars
<1>2. CASE GetListenFd \/ GetListenFdFails
  BY <1>2 DEF GetListenFd, GetListenFdFails, Parts, vars
<1>3. CASE StartServing
  BY <1>3 DEF StartServing, Parts, vars
<1>4. CASE Test \/ WaitReturns \/ WaitAgain \/ WorkDone
  BY <1>4 DEF Test, WaitReturns, WaitAgain, WorkDone, Parts, vars
<1>5. CASE Notify
  BY <1>5 DEF Notify, NotifyOne, serverVars
<1>6. ASSUME NEW t \in Tasks, Dispatch(t) PROVE Lifetimes'
  BY <1>6 DEF Dispatch, Enqueue, Parts
<1>7. ASSUME NEW t \in Tasks, Handle(t) PROVE Lifetimes'
  BY <1>7 DEF Handle, Parts, vars
<1> QED  BY <1>1, <1>2, <1>3, <1>4, <1>5, <1>6, <1>7

\* Steps of the destructor.
LEMMA EndLifetimes ==
    ASSUME Lifetimes, ProgramTypeOK,
           \/ ExitRing \/ ShutdownPool \/ DestroyPool \/ CloseListener \/ End
           \/ \E p \in Parts : DestroyMember(p)
    PROVE  Lifetimes'
<1> USE DEF Lifetimes, Starting, InLoop
<1>1. CASE ExitRing
  BY <1>1 DEF ExitRing, vars
<1>2. CASE ShutdownPool
  <2>1. owner' = "joined" \/ owner # "joined"
    BY <1>2 DEF ShutdownPool, Shutdown, NotifyAll, Joined
  <2>2. UNCHANGED <<serverVars, submitted>>
    BY <1>2 DEF ShutdownPool, Shutdown, NotifyAll, Joined
  <2> QED  BY <1>2, <2>1, <2>2 DEF serverVars
<1>3. CASE DestroyPool
  BY <1>3, PartsInOrder DEF DestroyPool, vars
<1>4. CASE CloseListener
  BY <1>4, PartsInOrder DEF CloseListener, vars
<1>5. CASE End
  BY <1>5 DEF End, vars
<1>6. ASSUME NEW p \in Parts, DestroyMember(p) PROVE Lifetimes'
  <2>1. p = "dispatcher" \/ (p = "memory" /\ "pool" \notin alive)
    BY <1>6, PartsInOrder DEF DestroyMember
  <2> QED  BY <1>6, <2>1 DEF DestroyMember, vars
<1> QED  BY <1>1, <1>2, <1>3, <1>4, <1>5, <1>6

\* Steps of the others.
LEMMA OtherLifetimes ==
    ASSUME Lifetimes, IInv, ProgramTypeOK,
           \/ Signal \/ UNCHANGED allVars
           \/ \E t \in Tasks : Complete(t)
           \/ \E w \in Workers : WorkerRuns(w) \/ Wakes(w)
    PROVE  Lifetimes'
<1> USE DEF Lifetimes, Starting, InLoop
<1>1. CASE Signal
  BY <1>1 DEF Signal, vars
<1>2. CASE UNCHANGED allVars
  BY <1>2 DEF allVars, vars, serverVars
<1>3. ASSUME NEW t \in Tasks, Complete(t) PROVE Lifetimes'
  BY <1>3 DEF Complete, vars
<1>4. ASSUME NEW w \in Workers, Works(w) \/ Wakes(w) PROVE Lifetimes'
  <2>1. UNCHANGED <<serverVars, submitted, owner>>
    BY <1>4 DEF Works, Wakes, Sleeps, Takes, Exits, WakesSpuriously
  <2> QED  BY <2>1 DEF serverVars
<1>5. ASSUME NEW w \in Workers, Crashes(w) PROVE Lifetimes'
  BY <1>5 DEF Crashes, PoolRuns, vars
<1>6. ASSUME NEW w \in Workers, FinishesJob(w) PROVE Lifetimes'
  <2>1. submitted # <<>>
    <3>1. task[w] \in {submitted[i] : i \in 1 .. Started}
      BY <1>6 DEF FinishesJob, Finishes, Running, At, IInv, Ordered
    <3>2. /\ queue \in Seq(Tasks) /\ submitted \in Seq(Tasks)
          /\ Len(queue) \in Nat /\ Len(submitted) \in Nat /\ Started \in Nat
          /\ Started = Len(submitted) - Len(queue)
      BY DEF IInv, TypeOK, Ordered, Started
    <3>3. Len(submitted) # 0
      BY <3>1, <3>2
    <3> QED  BY <3>3
  <2>2. UNCHANGED <<main, alive, listen, submitted, owner>>
    BY <1>6 DEF FinishesJob, Finishes
  <2>3. inkernel' # {} => "ring" \in alive
    BY <1>6 DEF FinishesJob
  <2> QED  BY <2>1, <2>2, <2>3
<1> QED  BY <1>1, <1>2, <1>3, <1>4, <1>5, <1>6 DEF WorkerRuns

LEMMA ProgramInvariance == ProgramSpec => []ProgramInv
<1>1. ProgramInit => Lifetimes
  BY DEF ProgramInit, Init, Lifetimes, Starting, InLoop
<1>2. Lifetimes /\ IInv /\ ProgramTypeOK /\ [ProgramNext]_allVars => Lifetimes'
  BY LoopLifetimes, EndLifetimes, OtherLifetimes DEF ProgramNext, MainStep
<1> QED  BY <1>1, <1>2, ProgramUsesPool, Invariance, ProgramTypeCorrect, PTL
         DEF ProgramSpec, ProgramInv

\* When the connection objects are freed no job and no operation in the
\* kernel uses one, and no accept is left on a listening socket that is closed.
THEOREM PartsOutliveUsers == ProgramSpec => []OutlivesUsers
<1>1. ProgramInv => OutlivesUsers
  <2> SUFFICES ASSUME ProgramInv PROVE OutlivesUsers
    OBVIOUS
  <2>1. ASSUME main # "boot", "memory" \notin alive
        PROVE  queue = <<>> /\ At("run") = {} /\ inkernel = {}
    <3>1. owner = "joined" /\ "ring" \notin alive
      BY <2>1 DEF ProgramInv, Lifetimes
    <3>2. At("exited") = Workers
      BY <3>1 DEF ProgramInv, IInv, Drained
    <3>3. queue = <<>> /\ At("run") = {}
      BY <3>2, WorkersAssumption DEF ProgramInv, IInv, Drained, At
    <3> QED  BY <3>1, <3>3 DEF ProgramInv, Lifetimes
  <2>2. listen # "open" => inkernel = {}
    BY DEF ProgramInv, Lifetimes
  <2> QED  BY <2>1, <2>2 DEF OutlivesUsers
<1> QED  BY <1>1, ProgramInvariance, PTL

\* A program that comes to its end normally has done all that it dispatched.
THEOREM EndsDone == ProgramSpec => [](main = "ended" => done = ToSet(submitted))
<1>1. ProgramInv /\ DrainedWhenJoined => (main = "ended" => done = ToSet(submitted))
  BY DEF ProgramInv, Lifetimes, DrainedWhenJoined
<1> QED  BY <1>1, ProgramInvariance, ProgramUsesPool, ShutdownDrains, PTL
=============================================================================
