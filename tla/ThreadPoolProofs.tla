-------------------------- MODULE ThreadPoolProofs --------------------------
(***************************************************************************)
(* For every number of workers and tasks: no wakeup is lost, tasks start   *)
(* in order and once, the pool implements the abstract one, and when it is *)
(* shut down nothing is left.                                              *)
(***************************************************************************)
EXTENDS ThreadPool, FiniteSetTheorems, TLAPS

\* Tasks that have left the queue are a prefix of those submitted.
Started == Len(submitted) - Len(queue)

\* No task was submitted twice, the queue is the end of what was submitted,
\* and the tasks before it are done or run, each by one worker.
Ordered ==
    /\ Started \in Nat
    /\ \A i \in 1 .. Len(queue) : queue[i] = submitted[Started + i]
    /\ \A i, j \in DOMAIN submitted : submitted[i] = submitted[j] => i = j
    /\ Running \cup done = {submitted[i] : i \in 1 .. Started}
    /\ Running \cap done = {}
    /\ \A v, w \in At("run") : task[v] = task[w] => v = w

\* A worker leaves its loop only when nothing is left and nothing can come.
Drained ==
    /\ At("exited") # {} => stop /\ queue = <<>>
    /\ owner = "joined" => At("exited") = Workers

IInv == TypeOK /\ Ordered /\ Drained

---------------------------------------------------------------------------
LEMMA InitInv == Init => IInv
<1> SUFFICES ASSUME Init PROVE IInv
  OBVIOUS
<1>1. TypeOK
  <2>1. <<>> \in Seq(Tasks)
    OBVIOUS
  <2> QED  BY <2>1 DEF Init, TypeOK
<1>2. Ordered
  BY DEF Init, Ordered, Started, Running, At
<1>3. Drained
  BY WorkersAssumption DEF Init, Drained, At
<1> QED  BY <1>1, <1>2, <1>3 DEF IInv

LEMMA RunsTask == IInv => \A w \in At("run") : task[w] \in Tasks
BY DEF IInv, TypeOK, Ordered, Started, Running, At

LEMMA StepType == IInv /\ [Next]_vars => TypeOK'
<1> SUFFICES ASSUME IInv, [Next]_vars PROVE TypeOK'
  OBVIOUS
<1>0. TypeOK
  BY DEF IInv
<1> USE DEF TypeOK
<1>1. ASSUME NEW t \in Tasks, Enqueue(t) PROVE TypeOK'
  BY <1>0, <1>1 DEF Enqueue
<1>2. CASE NotifyOne
  BY <1>0, <1>2 DEF NotifyOne
<1>3. CASE Shutdown
  BY <1>0, <1>3 DEF Shutdown
<1>4. CASE NotifyAll
  BY <1>0, <1>4 DEF NotifyAll
<1>5. CASE Joined
  BY <1>0, <1>5 DEF Joined
<1>6. ASSUME NEW w \in Workers, Sleeps(w) PROVE TypeOK'
  BY <1>0, <1>6 DEF Sleeps
<1>7. ASSUME NEW w \in Workers, Takes(w) PROVE TypeOK'
  <2>1. Head(queue) \in Tasks /\ Tail(queue) \in Seq(Tasks)
    BY <1>0, <1>7 DEF Takes
  <2> QED  BY <1>0, <1>7, <2>1 DEF Takes
<1>8. ASSUME NEW w \in Workers, Exits(w) PROVE TypeOK'
  BY <1>0, <1>8 DEF Exits
<1>9. ASSUME NEW w \in Workers, Finishes(w) PROVE TypeOK'
  <2>1. task[w] \in Tasks
    BY <1>9, RunsTask DEF Finishes, At
  <2> QED  BY <1>0, <1>9, <2>1 DEF Finishes
<1>10. ASSUME NEW w \in Workers, WakesSpuriously(w) PROVE TypeOK'
  BY <1>0, <1>10 DEF WakesSpuriously
<1>11. CASE UNCHANGED vars
  BY <1>0, <1>11 DEF vars
<1> QED  BY <1>1, <1>2, <1>3, <1>4, <1>5, <1>6, <1>7, <1>8, <1>9, <1>10, <1>11
         DEF Next, WorkerStep

---------------------------------------------------------------------------
(* Order.                                                                  *)

\* What only moves the owner or sleeping workers leaves the order alone.
LEMMA SameOrder ==
    ASSUME Ordered, UNCHANGED <<queue, submitted, task, done>>, At("run")' = At("run")
    PROVE  Ordered'
BY DEF Ordered, Started, Running

LEMMA EnqueueOrdered ==
    ASSUME TypeOK, Ordered, NEW t \in Tasks, Enqueue(t)
    PROVE  Ordered'
<1>1. /\ queue \in Seq(Tasks) /\ submitted \in Seq(Tasks)
      /\ queue' = Append(queue, t) /\ submitted' = Append(submitted, t)
      /\ UNCHANGED <<pc, task, done>>
  BY DEF TypeOK, Enqueue
<1>2. \A i \in DOMAIN submitted : submitted[i] # t
  BY DEF Enqueue, ToSet
<1>3. /\ Len(queue') = Len(queue) + 1 /\ Len(submitted') = Len(submitted) + 1
      /\ Len(queue) \in Nat /\ Len(submitted) \in Nat
      /\ Started' = Started
  BY <1>1 DEF Started
<1>4. Started \in Nat /\ Started + Len(queue) = Len(submitted)
  BY <1>1, <1>3 DEF Ordered, Started
<1>5. \A i \in 1 .. Len(submitted) : submitted'[i] = submitted[i]
  BY <1>1
<1>6. submitted'[Len(submitted) + 1] = t /\ queue'[Len(queue) + 1] = t
  BY <1>1
<1>7. \A i \in 1 .. Len(queue') : queue'[i] = submitted'[Started + i]
  <2> SUFFICES ASSUME NEW i \in 1 .. Len(queue')
               PROVE  queue'[i] = submitted'[Started + i]
    OBVIOUS
  <2>1. CASE i = Len(queue) + 1
    BY <1>3, <1>4, <1>6, <2>1
  <2>2. CASE i \in 1 .. Len(queue)
    <3>1. queue'[i] = queue[i]
      BY <1>1, <2>2
    <3>2. Started + i \in 1 .. Len(submitted)
      BY <1>3, <1>4, <2>2
    <3> QED  BY <1>5, <2>2, <3>1, <3>2 DEF Ordered
  <2> QED  BY <1>3, <2>1, <2>2
<1>8. \A i, j \in DOMAIN submitted' : submitted'[i] = submitted'[j] => i = j
  <2>1. DOMAIN submitted' = 1 .. Len(submitted) + 1 /\ DOMAIN submitted = 1 .. Len(submitted)
    BY <1>1, <1>3
  <2> QED  BY <1>2, <1>3, <1>5, <1>6, <2>1 DEF Ordered
<1>9. {submitted'[i] : i \in 1 .. Started'} = {submitted[i] : i \in 1 .. Started}
  BY <1>3, <1>4, <1>5
<1>10. Running' = Running /\ At("run")' = At("run")
  BY <1>1 DEF Running, At
<1>11. /\ Running' \cup done' = {submitted'[i] : i \in 1 .. Started'}
       /\ Running' \cap done' = {}
       /\ \A v, w \in At("run")' : task'[v] = task'[w] => v = w
  BY <1>1, <1>9, <1>10 DEF Ordered
<1>12. Started' \in Nat
  BY <1>3, <1>4
<1>13. \A i \in 1 .. Len(queue') : queue'[i] = submitted'[Started' + i]
  BY <1>3, <1>7
<1> QED  BY <1>8, <1>11, <1>12, <1>13 DEF Ordered

LEMMA TakesOrdered ==
    ASSUME TypeOK, Ordered, NEW w \in Workers, Takes(w)
    PROVE  Ordered'
<1> DEFINE t == Head(queue)
<1>1. /\ queue \in Seq(Tasks) /\ submitted \in Seq(Tasks) /\ queue # <<>>
      /\ queue' = Tail(queue) /\ UNCHANGED <<submitted, done>>
      /\ task' = [task EXCEPT ![w] = t] /\ pc' = [pc EXCEPT ![w] = "run"]
      /\ w \notin At("run")
  BY DEF TypeOK, Takes, At
<1>2. /\ Len(queue) \in Nat \ {0} /\ Len(queue') = Len(queue) - 1
      /\ Len(submitted) \in Nat /\ t = queue[1]
      /\ \A i \in 1 .. Len(queue') : queue'[i] = queue[i + 1]
  BY <1>1
<1>3. /\ Started \in Nat /\ Started' = Started + 1
      /\ Started + Len(queue) = Len(submitted)
  BY <1>1, <1>2 DEF Ordered, Started
<1>4. t = submitted[Started + 1]
  BY <1>2, <1>3 DEF Ordered
<1>5. \A i \in 1 .. Len(queue') : queue'[i] = submitted'[Started' + i]
  BY <1>1, <1>2, <1>3 DEF Ordered
<1>6. At("run")' = At("run") \cup {w}
  BY <1>1 DEF At, TypeOK
<1>7. task'[w] = t /\ \A v \in At("run") : task'[v] = task[v]
  BY <1>1 DEF TypeOK, At
<1>8. Running' = Running \cup {t}
  BY <1>6, <1>7 DEF Running
<1>9. {submitted'[i] : i \in 1 .. Started'} = {submitted[i] : i \in 1 .. Started} \cup {t}
  <2>1. 1 .. Started' = (1 .. Started) \cup {Started + 1}
    BY <1>3
  <2> QED  BY <1>1, <1>4, <2>1
<1>10. t \notin Running \cup done
  <2>1. \A i \in 1 .. Started : i \in DOMAIN submitted /\ i # Started + 1
    BY <1>1, <1>2, <1>3
  <2>2. Started + 1 \in DOMAIN submitted
    BY <1>1, <1>2, <1>3
  <2> QED  BY <1>4, <2>1, <2>2 DEF Ordered
<1>11. Running' \cup done' = {submitted'[i] : i \in 1 .. Started'}
  BY <1>1, <1>8, <1>9 DEF Ordered
<1>12. Running' \cap done' = {}
  BY <1>1, <1>8, <1>10 DEF Ordered
<1>13. \A v, x \in At("run")' : task'[v] = task'[x] => v = x
  BY <1>6, <1>7, <1>10 DEF Ordered, Running
<1> QED  BY <1>1, <1>3, <1>5, <1>11, <1>12, <1>13 DEF Ordered

LEMMA FinishesOrdered ==
    ASSUME TypeOK, Ordered, NEW w \in Workers, Finishes(w)
    PROVE  Ordered'
<1>1. /\ w \in At("run") /\ done' = done \cup {task[w]}
      /\ task' = [task EXCEPT ![w] = NoTask] /\ pc' = [pc EXCEPT ![w] = "check"]
      /\ UNCHANGED <<queue, submitted>> /\ Started' = Started
  BY DEF TypeOK, Finishes, At, Started
<1>2. At("run")' = At("run") \ {w}
  BY <1>1 DEF At, TypeOK
<1>3. \A v \in At("run") \ {w} : task'[v] = task[v]
  BY <1>1 DEF TypeOK, At
<1>4. Running' = Running \ {task[w]} /\ task[w] \in Running
  BY <1>1, <1>2, <1>3 DEF Running, Ordered
<1>5. Running' \cup done' = Running \cup done /\ Running' \cap done' = {}
  BY <1>1, <1>4 DEF Ordered
<1>6. \A v, x \in At("run")' : task'[v] = task'[x] => v = x
  BY <1>2, <1>3 DEF Ordered
<1> QED  BY <1>1, <1>5, <1>6 DEF Ordered

LEMMA StepOrdered == IInv /\ [Next]_vars => Ordered'
<1> SUFFICES ASSUME IInv, [Next]_vars PROVE Ordered'
  OBVIOUS
<1>0. TypeOK /\ Ordered
  BY DEF IInv
<1>1. ASSUME NEW t \in Tasks, Enqueue(t) PROVE Ordered'
  BY <1>0, <1>1, EnqueueOrdered
<1>2. CASE NotifyOne
  <2>1. At("run")' = At("run")
    BY <1>0, <1>2 DEF NotifyOne, At, TypeOK
  <2> QED  BY <1>0, <1>2, <2>1, SameOrder DEF NotifyOne
<1>3. CASE Shutdown \/ Joined \/ UNCHANGED vars
  <2>1. UNCHANGED <<pc, queue, submitted, task, done>>
    BY <1>3 DEF Shutdown, Joined, vars
  <2>2. At("run")' = At("run")
    BY <2>1 DEF At
  <2> QED  BY <1>0, <2>1, <2>2, SameOrder
<1>4. CASE NotifyAll
  <2>1. At("run")' = At("run")
    BY <1>0, <1>4 DEF NotifyAll, At, TypeOK
  <2> QED  BY <1>0, <1>4, <2>1, SameOrder DEF NotifyAll
<1>5. ASSUME NEW w \in Workers, Sleeps(w) \/ Exits(w) \/ WakesSpuriously(w)
      PROVE  Ordered'
  <2>1. /\ pc[w] # "run" /\ UNCHANGED <<queue, submitted, task, done>>
        /\ \E place \in {"sleep", "exited", "check"} : pc' = [pc EXCEPT ![w] = place]
    BY <1>5 DEF Sleeps, Exits, WakesSpuriously
  <2>2. At("run")' = At("run")
    BY <1>0, <2>1 DEF At, TypeOK
  <2> QED  BY <1>0, <2>1, <2>2, SameOrder
<1>6. ASSUME NEW w \in Workers, Takes(w) PROVE Ordered'
  BY <1>0, <1>6, TakesOrdered
<1>7. ASSUME NEW w \in Workers, Finishes(w) PROVE Ordered'
  BY <1>0, <1>7, FinishesOrdered
<1> QED  BY <1>1, <1>2, <1>3, <1>4, <1>5, <1>6, <1>7 DEF Next, WorkerStep

---------------------------------------------------------------------------
LEMMA StepDrained == IInv /\ [Next]_vars => Drained'
<1> SUFFICES ASSUME IInv, [Next]_vars PROVE Drained'
  OBVIOUS
<1>0. TypeOK /\ Drained
  BY DEF IInv
<1>1. ASSUME NEW t \in Tasks, Enqueue(t) PROVE Drained'
  BY <1>0, <1>1 DEF Drained, Enqueue, At
<1>2. CASE NotifyOne \/ NotifyAll
  <2>1. At("exited")' = At("exited")
    BY <1>0, <1>2 DEF NotifyOne, NotifyAll, At, TypeOK
  <2> QED  BY <1>0, <1>2, <2>1 DEF Drained, NotifyOne, NotifyAll
<1>3. CASE Shutdown \/ Joined \/ UNCHANGED vars
  BY <1>0, <1>3 DEF Drained, Shutdown, Joined, vars, At
<1>4. ASSUME NEW w \in Workers, Sleeps(w) \/ WakesSpuriously(w) \/ Finishes(w)
      PROVE  Drained'
  <2>1. At("exited")' = At("exited")
    BY <1>0, <1>4 DEF Sleeps, WakesSpuriously, Finishes, At, TypeOK
  <2> QED  BY <1>0, <1>4, <2>1 DEF Drained, Sleeps, WakesSpuriously, Finishes
<1>5. ASSUME NEW w \in Workers, Exits(w) PROVE Drained'
  <2>1. At("exited") \subseteq At("exited")' /\ At("exited")' \subseteq Workers
    BY <1>0, <1>5 DEF Exits, At, TypeOK
  <2> QED  BY <1>0, <1>5, <2>1 DEF Drained, Exits
<1>6. ASSUME NEW w \in Workers, Takes(w) PROVE Drained'
  <2>1. At("exited")' = {} /\ At("exited") = {}
    BY <1>0, <1>6 DEF Takes, At, TypeOK, Drained
  <2>2. owner # "joined"
    BY <1>0, <2>1, WorkersAssumption DEF Drained
  <2> QED  BY <1>6, <2>1, <2>2 DEF Drained, Takes
<1> QED  BY <1>1, <1>2, <1>3, <1>4, <1>5, <1>6 DEF Next, WorkerStep

LEMMA Invariance == Spec => []IInv
<1>1. IInv /\ [Next]_vars => IInv'
  BY StepType, StepOrdered, StepDrained DEF IInv
<1> QED  BY InitInv, <1>1, PTL DEF Spec

\* The types of the pool's variables.
THEOREM TypeCorrect == Spec => []TypeOK
<1>1. IInv => TypeOK
  BY DEF IInv
<1> QED  BY Invariance, <1>1, PTL

LEMMA OrderedIsInOrder == IInv => InOrder
<1> SUFFICES ASSUME IInv PROVE InOrder
  OBVIOUS
<1>1. /\ queue \in Seq(Tasks) /\ submitted \in Seq(Tasks)
      /\ Len(queue) \in Nat /\ Len(submitted) \in Nat
      /\ Started \in Nat /\ Started + Len(queue) = Len(submitted)
  BY DEF IInv, TypeOK, Ordered, Started
<1>2. \A i \in 1 .. Len(queue) : queue[i] = submitted[Started + i]
  BY DEF IInv, Ordered
<1>3. queue = SubSeq(submitted, Started + 1, Len(submitted))
  <2> DEFINE rest == SubSeq(submitted, Started + 1, Len(submitted))
  <2>1. /\ rest \in Seq(Tasks) /\ Len(rest) = Len(queue)
        /\ \A i \in 1 .. Len(queue) : rest[i] = submitted[Started + i]
    BY <1>1
  <2> HIDE DEF rest
  <2>2. queue = rest
    BY <1>1, <1>2, <2>1
  <2> QED  BY <2>2 DEF rest
<1>4. {submitted[i] : i \in 1 .. Started} = ToSet(submitted) \ ToSet(queue)
  <2>1. DOMAIN queue = 1 .. Len(queue) /\ DOMAIN submitted = 1 .. Len(submitted)
    BY <1>1
  <2>2. ASSUME NEW i \in 1 .. Started
        PROVE  submitted[i] \in ToSet(submitted) \ ToSet(queue)
    <3>1. i \in DOMAIN submitted
      BY <1>1, <2>1
    <3>2. ASSUME NEW k \in DOMAIN queue PROVE queue[k] # submitted[i]
      <4>1. Started + k \in DOMAIN submitted /\ Started + k # i
        BY <1>1, <2>1
      <4> QED  BY <1>2, <2>1, <3>1, <4>1 DEF IInv, Ordered
    <3> QED  BY <3>1, <3>2 DEF ToSet
  <2>3. ASSUME NEW x \in ToSet(submitted) \ ToSet(queue)
        PROVE  \E i \in 1 .. Started : x = submitted[i]
    <3>1. PICK i \in DOMAIN submitted : x = submitted[i]
      BY DEF ToSet
    <3>2. ASSUME i > Started PROVE FALSE
      <4>1. i - Started \in DOMAIN queue /\ Started + (i - Started) = i
        BY <1>1, <2>1, <3>2
      <4> QED  BY <1>2, <2>1, <3>1, <4>1 DEF ToSet
    <3> QED  BY <1>1, <2>1, <3>1, <3>2
  <2> QED  BY <2>2, <2>3
<1> QED  BY <1>3, <1>4 DEF IInv, Ordered, InOrder, Started

\* Tasks start in the order of their submission, each once and on one worker,
\* and nothing is dropped.
THEOREM Order == Spec => []InOrder
BY Invariance, OrderedIsInOrder, PTL

\* shutdown() leaves nothing undone.
THEOREM ShutdownDrains == Spec => []DrainedWhenJoined
<1>1. IInv => DrainedWhenJoined
  <2> SUFFICES ASSUME IInv, owner = "joined" PROVE done = ToSet(submitted)
    BY DEF DrainedWhenJoined
  <2>1. At("exited") = Workers /\ queue = <<>> /\ At("run") = {}
    BY WorkersAssumption DEF IInv, Drained, At
  <2>2. Running = {} /\ ToSet(queue) = {}
    BY <2>1 DEF Running, ToSet
  <2> QED  BY <2>2, OrderedIsInOrder DEF InOrder
<1> QED  BY Invariance, <1>1, PTL

---------------------------------------------------------------------------
(* Wakeups.                                                                *)

LEMMA AtFinite ==
    ASSUME NEW place
    PROVE  IsFiniteSet(At(place)) /\ Cardinality(At(place)) \in Nat
<1>1. At(place) \in SUBSET Workers
  BY DEF At
<1> QED  BY <1>1, WorkersAssumption, FS_Subset, FS_CardinalityType

\* One worker more, or one less, looks for a task.
LEMMA OneMore ==
    ASSUME NEW w, w \notin At("check"), At("check")' = At("check") \cup {w}
    PROVE  Cardinality(At("check"))' = Cardinality(At("check")) + 1
BY AtFinite, FS_AddElement

LEMMA OneLess ==
    ASSUME NEW w, w \in At("check"), At("check")' = At("check") \ {w}
    PROVE  Cardinality(At("check"))' = Cardinality(At("check")) - 1
BY AtFinite, FS_RemoveElement

\* The two sides of what NoIdleSleeper compares the queue with.
Looking == Cardinality(At("check"))
Due == IF owner = "notify" THEN 1 ELSE 0

LEMMA StepSleeper == TypeOK /\ NoIdleSleeper /\ [Next]_vars => NoIdleSleeper'
<1> SUFFICES ASSUME TypeOK, NoIdleSleeper, [Next]_vars, At("sleep")' # {}
             PROVE  Len(queue') <= Looking' + Due'
  BY DEF NoIdleSleeper, Looking, Due
<1>0. /\ queue \in Seq(Tasks) /\ Len(queue) \in Nat
      /\ Looking \in Nat
      /\ pc \in [Workers -> {"check", "sleep", "run", "exited"}]
  BY AtFinite DEF TypeOK, Looking
<1>d. Due \in {0, 1} /\ Due' \in {0, 1}
  BY DEF Due
<1>s. At("sleep") # {} => Len(queue) <= Looking + Due
  BY DEF NoIdleSleeper, Looking, Due
<1>n. Looking' \in Nat
  <2>1. At("check")' \in SUBSET Workers
    BY DEF At
  <2> QED  BY <2>1, WorkersAssumption, FS_Subset, FS_CardinalityType DEF Looking
<1>1. ASSUME NEW t \in Tasks, Enqueue(t) PROVE Len(queue') <= Looking' + Due'
  <2>1. Len(queue') = Len(queue) + 1 /\ Looking' = Looking /\ At("sleep")' = At("sleep")
    BY <1>0, <1>1 DEF Enqueue, At, Looking
  <2>2. Due = 0 /\ Due' = 1
    BY <1>1 DEF Enqueue, Due
  <2> QED  BY <1>0, <1>s, <2>1, <2>2
<1>2. CASE NotifyOne
  <2>1. At("sleep") # {}
    BY <1>2 DEF NotifyOne, At
  <2>2. PICK w \in At("sleep") : pc' = [pc EXCEPT ![w] = "check"]
    BY <1>2, <2>1 DEF NotifyOne
  <2>3. w \notin At("check") /\ At("check")' = At("check") \cup {w}
    BY <1>0, <2>2 DEF At
  <2>4. Looking' = Looking + 1
    BY <2>3, OneMore DEF Looking
  <2>5. queue' = queue
    BY <1>2 DEF NotifyOne
  <2> QED  BY <1>0, <1>d, <1>s, <2>1, <2>4, <2>5
<1>3. CASE NotifyAll
  <2>1. At("sleep")' = {}
    BY <1>0, <1>3 DEF NotifyAll, At
  <2> QED  BY <2>1
<1>4. CASE Shutdown \/ Joined \/ UNCHANGED vars
  <2>1. Looking' = Looking /\ At("sleep")' = At("sleep") /\ queue' = queue
    BY <1>4 DEF Shutdown, Joined, vars, At, Looking
  <2>2. Due' = Due
    BY <1>4 DEF Shutdown, Joined, vars, Due
  <2> QED  BY <1>s, <2>1, <2>2
<1>5. ASSUME NEW w \in Workers, Sleeps(w) \/ Exits(w)
      PROVE  Len(queue') <= Looking' + Due'
  <2>1. Len(queue') = 0
    BY <1>5 DEF Sleeps, Exits
  <2>2. 0 <= Looking' + Due'
    <3>1. PICK m \in Nat : m = Looking'
      BY <1>n
    <3>2. PICK d \in {0, 1} : d = Due'
      BY <1>d
    <3>3. 0 <= m + d
      OBVIOUS
    <3> QED  BY <3>1, <3>2, <3>3
  <2> QED  BY <2>1, <2>2
<1>6. ASSUME NEW w \in Workers, Takes(w) PROVE Len(queue') <= Looking' + Due'
  <2>1. w \in At("check") /\ At("check")' = At("check") \ {w}
        /\ At("sleep")' = At("sleep")
    BY <1>0, <1>6 DEF Takes, At
  <2>2. Looking' = Looking - 1
    BY <2>1, OneLess DEF Looking
  <2>3. Len(queue') = Len(queue) - 1
    BY <1>0, <1>6 DEF Takes
  <2>4. Due' = Due
    BY <1>6 DEF Takes, Due
  <2> QED  BY <1>0, <1>d, <1>s, <2>1, <2>2, <2>3, <2>4
<1>7. ASSUME NEW w \in Workers, Finishes(w) \/ WakesSpuriously(w)
      PROVE  Len(queue') <= Looking' + Due'
  <2>1. w \notin At("check") /\ At("check")' = At("check") \cup {w}
        /\ At("sleep")' \subseteq At("sleep")
    BY <1>0, <1>7 DEF Finishes, WakesSpuriously, At
  <2>2. Looking' = Looking + 1
    BY <2>1, OneMore DEF Looking
  <2>3. queue' = queue /\ Due' = Due
    BY <1>7 DEF Finishes, WakesSpuriously, Due
  <2> QED  BY <1>0, <1>d, <1>s, <2>1, <2>2, <2>3
<1>8. Len(queue') <= Looking' + Due'
  <2>1. CASE \E t \in Tasks : Enqueue(t)
    BY <1>1, <2>1
  <2>2. CASE \E w \in Workers : WorkerStep(w) \/ WakesSpuriously(w)
    <3>1. PICK w \in Workers : WorkerStep(w) \/ WakesSpuriously(w)
      BY <2>2
    <3>2. Sleeps(w) \/ Exits(w) \/ Takes(w) \/ Finishes(w) \/ WakesSpuriously(w)
      BY <3>1 DEF WorkerStep
    <3> QED  BY <1>5, <1>6, <1>7, <3>2
  <2> QED  BY <1>2, <1>3, <1>4, <2>1, <2>2 DEF Next
<1> QED  BY <1>8

\* No wakeup is lost: as long as a worker sleeps, for each task that waits
\* another worker, or a notification, is on its way.
THEOREM NoLostWakeup == Spec => []NoIdleSleeper
<1>1. Init => NoIdleSleeper
  BY DEF Init, NoIdleSleeper, At
<1> QED  BY <1>1, StepSleeper, TypeCorrect, PTL DEF Spec

---------------------------------------------------------------------------
(* Refinement.                                                             *)

\* A worker that looks for a task leaves room for one more.
LEMMA RoomToStart ==
    ASSUME IInv, NEW w \in At("check")
    PROVE  Cardinality(Running) < Cardinality(Workers)
<1>1. /\ IsFiniteSet(At("run")) /\ At("run") \in SUBSET Workers
      /\ w \in Workers \ At("run")
  BY AtFinite DEF At
<1>2. Cardinality(At("run")) < Cardinality(Workers)
  <2>1. Cardinality(At("run")) <= Cardinality(Workers) /\ Cardinality(At("run")) # Cardinality(Workers)
    BY <1>1, WorkersAssumption, FS_Subset
  <2> QED  BY <2>1, AtFinite, WorkersAssumption, FS_CardinalityType
<1>3. Cardinality(Running) <= Cardinality(At("run"))
  <2> DEFINE f == [v \in At("run") |-> task[v]]
  <2>1. f \in Surjection(At("run"), Running)
    BY DEF Surjection, Running
  <2> HIDE DEF f
  <2> QED  BY <1>1, <2>1, FS_Surjection
<1>4. Cardinality(Running) \in Nat
  <2> DEFINE f == [v \in At("run") |-> task[v]]
  <2>1. f \in Surjection(At("run"), Running)
    BY DEF Surjection, Running
  <2> HIDE DEF f
  <2> QED  BY <1>1, <2>1, FS_Surjection, FS_CardinalityType
<1> QED  BY <1>2, <1>3, <1>4, AtFinite, WorkersAssumption, FS_CardinalityType

LEMMA StepAbstract ==
    IInv /\ [Next]_vars => [Abstract!Next]_<<ToSet(queue), Running>>
<1> SUFFICES ASSUME IInv, [Next]_vars
             PROVE  [Abstract!Next]_<<ToSet(queue), Running>>
  OBVIOUS
<1>0. TypeOK /\ Ordered /\ InOrder
  BY OrderedIsInOrder DEF IInv
<1>1. ASSUME NEW t \in Tasks, Enqueue(t) PROVE Abstract!Submit(t)
  <2>1. ToSet(queue') = ToSet(queue) \cup {t}
    <3>1. queue \in Seq(Tasks) /\ queue' = Append(queue, t) /\ Len(queue) \in Nat
      BY <1>0, <1>1 DEF TypeOK, Enqueue
    <3>2. DOMAIN queue = 1 .. Len(queue) /\ DOMAIN queue' = 1 .. Len(queue) + 1
          /\ queue'[Len(queue) + 1] = t
          /\ \A i \in 1 .. Len(queue) : queue'[i] = queue[i]
      BY <3>1
    <3>3. 1 .. Len(queue) + 1 = (1 .. Len(queue)) \cup {Len(queue) + 1}
      BY <3>1
    <3> QED  BY <3>2, <3>3 DEF ToSet
  <2>2. Running' = Running
    BY <1>1 DEF Enqueue, Running, At
  <2>3. ToSet(queue) \subseteq ToSet(submitted)
    <3>1. ASSUME NEW i \in DOMAIN queue
          PROVE  Started + i \in DOMAIN submitted /\ queue[i] = submitted[Started + i]
      <4>1. /\ Len(queue) \in Nat /\ Len(submitted) \in Nat /\ Started \in Nat
            /\ DOMAIN queue = 1 .. Len(queue) /\ DOMAIN submitted = 1 .. Len(submitted)
            /\ Started = Len(submitted) - Len(queue)
        BY <1>0 DEF TypeOK, Ordered, Started
      <4>2. Started + i \in DOMAIN submitted /\ i \in 1 .. Len(queue)
        BY <4>1
      <4> QED  BY <1>0, <4>2 DEF Ordered
    <3> QED  BY <3>1 DEF ToSet
  <2>4. t \notin ToSet(queue) \cup Running
    BY <1>0, <1>1, <2>3 DEF Enqueue, InOrder
  <2> QED  BY <2>1, <2>2, <2>4 DEF Abstract!Submit
<1>2. CASE NotifyOne \/ NotifyAll
  <2>1. At("run")' = At("run") /\ task' = task /\ queue' = queue
    BY <1>0, <1>2 DEF NotifyOne, NotifyAll, At, TypeOK
  <2> QED  BY <2>1 DEF Running
<1>3. CASE Shutdown \/ Joined \/ UNCHANGED vars
  BY <1>3 DEF Shutdown, Joined, vars, Running, At
<1>4. ASSUME NEW w \in Workers, Sleeps(w) \/ Exits(w) \/ WakesSpuriously(w)
      PROVE  UNCHANGED <<ToSet(queue), Running>>
  <2>1. At("run")' = At("run") /\ task' = task /\ queue' = queue
    BY <1>0, <1>4 DEF Sleeps, Exits, WakesSpuriously, At, TypeOK
  <2> QED  BY <2>1 DEF Running
<1>5. ASSUME NEW w \in Workers, Takes(w) PROVE \E t \in Tasks : Abstract!Start(t)
  <2> DEFINE t == Head(queue)
  <2>1. /\ queue \in Seq(Tasks) /\ queue # <<>> /\ t \in Tasks /\ t = queue[1]
        /\ queue' = Tail(queue) /\ task' = [task EXCEPT ![w] = t]
        /\ pc' = [pc EXCEPT ![w] = "run"] /\ w \in At("check")
    BY <1>0, <1>5 DEF TypeOK, Takes, At
  <2>2. At("run")' = At("run") \cup {w} /\ task'[w] = t
        /\ \A v \in At("run") : task'[v] = task[v]
    BY <1>0, <2>1 DEF TypeOK, At
  <2>3. Running' = Running \cup {t}
    BY <2>2 DEF Running
  <2>4. \A i, j \in DOMAIN queue : queue[i] = queue[j] => i = j
    <3>1. /\ DOMAIN queue = 1 .. Len(queue) /\ Len(queue) \in Nat
          /\ DOMAIN submitted = 1 .. Len(submitted) /\ Len(submitted) \in Nat
          /\ Started \in Nat /\ Started + Len(queue) = Len(submitted)
      BY <1>0 DEF TypeOK, Ordered, Started
    <3>2. \A i \in DOMAIN queue :
             Started + i \in DOMAIN submitted /\ queue[i] = submitted[Started + i]
      BY <1>0, <3>1 DEF Ordered
    <3>3. ASSUME NEW i \in DOMAIN queue, NEW j \in DOMAIN queue, queue[i] = queue[j]
          PROVE  i = j
      <4>1. Started + i = Started + j
        BY <1>0, <3>2, <3>3 DEF Ordered
      <4> QED  BY <3>1, <4>1
    <3> QED  BY <3>3
  <2>5. ToSet(queue') = ToSet(queue) \ {t} /\ t \in ToSet(queue)
    <3>1. /\ DOMAIN queue = 1 .. Len(queue) /\ DOMAIN queue' = 1 .. Len(queue) - 1
          /\ \A i \in 1 .. Len(queue) - 1 : queue'[i] = queue[i + 1]
          /\ Len(queue) \in Nat \ {0}
      BY <2>1
    <3>2. ASSUME NEW x \in ToSet(queue') PROVE x \in ToSet(queue) \ {t}
      <4>1. PICK i \in DOMAIN queue' : x = queue'[i]
        BY DEF ToSet
      <4>2. x = queue[i + 1] /\ i + 1 \in DOMAIN queue /\ i + 1 # 1 /\ 1 \in DOMAIN queue
        BY <3>1, <4>1
      <4> QED  BY <2>1, <2>4, <4>2 DEF ToSet
    <3>3. ASSUME NEW x \in ToSet(queue) \ {t} PROVE x \in ToSet(queue')
      <4>1. PICK i \in DOMAIN queue : x = queue[i]
        BY DEF ToSet
      <4>2. i - 1 \in DOMAIN queue' /\ queue'[i - 1] = x
        BY <2>1, <3>1, <4>1
      <4> QED  BY <4>2 DEF ToSet
    <3>4. 1 \in DOMAIN queue
      BY <3>1
    <3>5. t \in ToSet(queue)
      BY <2>1, <3>4 DEF ToSet
    <3> QED  BY <3>2, <3>3, <3>5
  <2>6. Cardinality(Running) < Cardinality(Workers)
    BY <2>1, RoomToStart
  <2>7. t \in Tasks
    BY <2>1
  <2> HIDE DEF t
  <2>8. Abstract!Start(t)
    <3>1. Abstract!Cardinality(Running) = Cardinality(Running)
      BY DEF Cardinality, Abstract!Cardinality
    <3> QED  BY <2>3, <2>5, <2>6, <3>1 DEF Abstract!Start
  <2> QED  BY <2>7, <2>8
<1>6. ASSUME NEW w \in Workers, Finishes(w) PROVE \E t \in Tasks : Abstract!Finish(t)
  <2>1. /\ w \in At("run") /\ queue' = queue
        /\ task' = [task EXCEPT ![w] = NoTask] /\ pc' = [pc EXCEPT ![w] = "check"]
    BY <1>6 DEF Finishes, At
  <2>2. At("run")' = At("run") \ {w}
        /\ \A v \in At("run") \ {w} : task'[v] = task[v]
    BY <1>0, <2>1 DEF TypeOK, At
  <2>3. Running' = Running \ {task[w]} /\ task[w] \in Running
    BY <1>0, <2>1, <2>2 DEF Running, Ordered
  <2>4. task[w] \in Tasks
    BY <2>1, RunsTask
  <2> QED  BY <2>1, <2>3, <2>4 DEF Abstract!Finish
<1> QED  BY <1>1, <1>2, <1>3, <1>4, <1>5, <1>6 DEF Next, WorkerStep, Abstract!Next

\* The queue and the workers behave like the abstract pool: a task waits,
\* runs once, beside fewer others than there are workers, and is over.
THEOREM Refinement == Spec => IsTaskPool
<1>1. Init => Abstract!Init
  BY DEF Init, Abstract!Init, Running, At, ToSet
<1> QED  BY <1>1, Invariance, StepAbstract, PTL DEF Spec, IsTaskPool, Abstract!Spec
=============================================================================
