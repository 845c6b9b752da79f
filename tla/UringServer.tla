---------------------------- MODULE UringServer ----------------------------
(***************************************************************************)
(* The event loop of the server (src/src/uring_server.cpp), the            *)
(* dispatcher's two ways of continuing a request (src/include/dispatcher.h)*)
(* and the two task queues they use, as one state machine.                 *)
(*                                                                         *)
(* A connection object is passed around by raw pointer.  At any time the   *)
(* pointer may sit in a submission queue entry, in an operation the kernel *)
(* is running, in a completion queue entry, in the main-thread queue, in   *)
(* the pool's queue or in a worker's hands.  io.ref[c] is the set of places*)
(* that hold one, and io.twice records that a second one was put where one *)
(* already was.  Nothing in the code limits them: that there is one at     *)
(* most is a theorem and not part of the model.                            *)
(*                                                                         *)
(* Each use of the submission queue (get_sqe, prep, set_data, submit) is   *)
(* one step here: this module describes the executions in which two        *)
(* threads do not overlap inside that sequence.  SubmissionRing.tla models *)
(* the overlap.  A completion handler, a task callback and a worker's      *)
(* callback are one step each; between them anything may be interleaved.   *)
(***************************************************************************)
EXTENDS Integers, Sequences, FiniteSets, FiniteSetsExt, SequencesExt

CONSTANTS
    Conns,          \* connection objects of the slab pool
    NumWorkers,     \* threads of the pool
    InitAccepts,    \* accepts armed by run() (10 in the code)
    SqEntries,      \* size of the submission queue (URING_MAX_QUEUE)
    QueueLimit,     \* limit of the main-thread queue (URING_MAX_QUEUE)
    ReadResults,    \* signs of the results that a read may have
    BufferCap,      \* units that fit in a write buffer (URING_BUFFER_SIZE)
    MaxSessions,    \* bound: clients that connect
    MaxAcceptErrs,  \* bound: accepts that fail
    MaxThrows,      \* bound: tasks that end in an exception
    MaxSubmitFails, \* bound: io_uring_submit calls that fail
    AllowStop       \* whether a signal may arrive

ASSUME CountsAssumption ==
    /\ NumWorkers \in Nat /\ InitAccepts \in Nat /\ SqEntries \in Nat
    /\ QueueLimit \in Nat /\ BufferCap \in Nat /\ MaxSessions \in Nat
    /\ MaxAcceptErrs \in Nat /\ MaxThrows \in Nat /\ MaxSubmitFails \in Nat
ASSUME ConnsAssumption == IsFiniteSet(Conns)
ASSUME StopAssumption == AllowStop \in BOOLEAN
ASSUME ReadAssumption == ReadResults \subseteq {"neg", "zero", "pos"}

NoFd == 0                                  \* conn->fd = -1
Sessions == 1 .. MaxSessions               \* accepted sockets, in order
Ops == {"accept", "read", "write", "close"}
Results == {"neg", "zero", "pos"}          \* the sign of cqe->res

Sq(op) == <<"sq", op, "none">>             \* in the submission queue
Kern(op) == <<"kern", op, "none">>         \* submitted, not completed
Cq(op, res) == <<"cq", op, res>>           \* completed, not yet handled
MainQ == <<"mainq", "read", "none">>       \* in the main-thread queue
Queued == <<"pool", "queued", "none">>     \* in the pool's queue
Running == <<"pool", "running", "none">>   \* a worker runs handle()
Callback == <<"pool", "callback", "none">> \* a worker is to run the callback

SqPlaces == {Sq(op) : op \in Ops}
KernPlaces == {Kern(op) : op \in Ops}
CqPlaces == {Cq(op, res) : op \in Ops, res \in Results}
TaskPlaces == {MainQ, Queued, Running, Callback}
Places == SqPlaces \cup KernPlaces \cup CqPlaces \cup TaskPlaces

VARIABLES
    pc,       \* where the main thread is in run()
    running,  \* _running
    armed,    \* loop counter of the accept loop at the start of run()
    inuse,    \* connection objects acquired from the pool
    st,       \* conn->state
    fd,       \* conn->fd
    wbuf,     \* readable part of conn->write_buffer: whose bytes, in order
    io,       \* who holds a pointer to which connection; the rings
    open,     \* sockets that are open
    nsess,    \* sockets handed to handle_accept_event so far
    budget,   \* what is left of the bounds on the environment
    denied,   \* history: accepts that were not armed again
    lost,     \* history: in use, but their pointer was thrown away
    failed    \* history: sockets whose connection was released by a write error

vars == <<pc, running, armed, inuse, st, fd, wbuf, io, open, nsess, budget,
          denied, lost, failed>>

---------------------------------------------------------------------------
(* The rings: io_uring_get_sqe, io_uring_prep_*, io_uring_submit.          *)

\* Entries between the kernel's head and the tail that get_sqe advances.
SqLen(g) ==
    g.blank + MapThenSumSet(LAMBDA c : Cardinality(g.ref[c] \cap SqPlaces), Conns)
Full(g) == SqLen(g) >= SqEntries

Put(g, c, p) == [g EXCEPT !.ref[c] = @ \cup {p}, !.twice = @ \/ p \in g.ref[c]]
Take(g, c, p) == [g EXCEPT !.ref[c] = @ \ {p}]
Move(g, c, p, q) == Put(Take(g, c, p), c, q)

\* An entry taken with get_sqe and left as it was: if the slot was never
\* used it is a no-op whose completion carries no pointer, else it still
\* holds an operation that was submitted before, and repeats it.
Unprepared(g) ==
    {[g EXCEPT !.blank = @ + 1]} \cup
    {[Put(g, x[1], Sq(x[2])) EXCEPT !.again = TRUE] : x \in g.past}

\* What io_uring_submit does when it succeeds: all entries go to the kernel.
Flush(g) ==
    [g EXCEPT
       !.ref = [c \in Conns |-> {IF p \in SqPlaces THEN Kern(p[2]) ELSE p :
                                   p \in g.ref[c]}],
       !.blank = 0,
       !.past = @ \cup {x \in Conns \X Ops : Sq(x[2]) \in g.ref[x[1]]}]

\* io_uring_submit: the entries stay in the queue when the call fails.
Submit(g) ==
    {Flush(g)} \cup
    (IF g.fails < MaxSubmitFails THEN {[g EXCEPT !.fails = @ + 1]} ELSE {})

\* get_sqe, and once more after a submit when the queue is full.
Retried(g) == IF Full(g) THEN Submit(g) ELSE {g}

\* set_read_event and set_write_event: the possible outcomes.  posted is
\* FALSE when no entry could be had; the callers ignore it.
SetEvent(g, c, op) ==
    {[posted |-> FALSE, g |-> h] : h \in {k \in Retried(g) : Full(k)}} \cup
    {[posted |-> TRUE, g |-> h] :
        h \in UNION {Submit(Put(k, c, Sq(op))) : k \in {k \in Retried(g) : ~Full(k)}}}

\* Effect of one such outcome on the connection: the state is assigned only
\* when the entry was had, else nobody has a pointer to the connection.
Settle(e, c, op) ==
    /\ io' = e.g
    /\ st' = IF e.posted THEN [st EXCEPT ![c] = op] ELSE st
    /\ lost' = IF e.posted THEN lost ELSE lost \cup {c}

---------------------------------------------------------------------------
TypeOK ==
    /\ pc \in {"setup", "wait", "cqes", "tasks", "submit", "stopped", "hung"}
    /\ running \in BOOLEAN
    /\ armed \in 0 .. InitAccepts
    /\ inuse \subseteq Conns
    /\ st \in [Conns -> Ops]
    /\ fd \in [Conns -> Nat]
    /\ wbuf \in [Conns -> Seq(Nat)]
    /\ io \in [ref : [Conns -> SUBSET Places], twice : BOOLEAN, blank : Nat,
               past : SUBSET (Conns \X Ops), again : BOOLEAN, fails : Nat]
    /\ open \subseteq Nat
    /\ nsess \in Nat
    /\ budget \in [clients : Nat, accepts : Nat, throws : Nat]
    /\ denied \in Nat
    /\ lost \subseteq Conns
    /\ failed \subseteq Nat

Init ==
    /\ pc = "setup" /\ running = FALSE /\ armed = 0
    /\ inuse = {}
    /\ st = [c \in Conns |-> "accept"]
    /\ fd = [c \in Conns |-> NoFd]
    /\ wbuf = [c \in Conns |-> <<>>]
    /\ io = [ref |-> [c \in Conns |-> {}], twice |-> FALSE, blank |-> 0,
             past |-> {}, again |-> FALSE, fails |-> 0]
    /\ open = {} /\ nsess = 0
    /\ budget = [clients |-> MaxSessions, accepts |-> MaxAcceptErrs,
                 throws |-> MaxThrows]
    /\ denied = 0 /\ lost = {} /\ failed = {}

---------------------------------------------------------------------------
(* The main thread.                                                        *)
\* set_accept_event, started with the rings g, the states s and the
\* descriptors f.  The entry is taken before the object: when the pool has
\* none, the entry stays in the queue unprepared.  The pool may then also
\* never return (SlabPool.tla shows how).
SetAccept(g, s, f, next) ==
    \/ /\ Full(g)
       /\ io' = g /\ st' = s /\ fd' = f /\ pc' = next
       /\ denied' = denied + 1
       /\ UNCHANGED inuse
    \/ /\ ~Full(g)
       /\ \E c \in Conns \ inuse :
            /\ io' = Put(g, c, Sq("accept"))
            /\ st' = [s EXCEPT ![c] = "accept"]
            /\ fd' = [f EXCEPT ![c] = NoFd]
            /\ inuse' = inuse \cup {c}
       /\ pc' = next
       /\ UNCHANGED denied
    \/ /\ ~Full(g) /\ inuse = Conns
       /\ io' \in Unprepared(g) /\ st' = s /\ fd' = f
       /\ denied' = denied + 1
       /\ pc' \in {next, "hung"}
       /\ UNCHANGED inuse
\* Mutant: the loop runs once too often.
ArmInitialAcceptPastEnd ==
    /\ pc = "setup" /\ armed <= InitAccepts
    /\ armed' = armed + 1
    /\ SetAccept(io, st, fd, "setup")
    /\ UNCHANGED <<running, wbuf, open, nsess, budget, lost, failed>>

ArmInitialAccept ==
    /\ pc = "setup" /\ armed < InitAccepts
    /\ armed' = armed + 1
    /\ SetAccept(io, st, fd, "setup")
    /\ UNCHANGED <<running, wbuf, open, nsess, budget, lost, failed>>

StartLoop ==
    /\ pc = "setup" /\ armed = InitAccepts
    /\ running' = TRUE
    /\ io' \in Submit(io)
    /\ pc' = "wait"
    /\ UNCHANGED <<armed, inuse, st, fd, wbuf, open, nsess, budget, denied,
                   lost, failed>>

CqEmpty == \A c \in Conns : io.ref[c] \cap CqPlaces = {}

\* io_uring_wait_cqe returns 0 with at least one completion in the queue.
WaitCqe ==
    /\ pc = "wait" /\ ~CqEmpty
    /\ pc' = "cqes"
    /\ UNCHANGED <<running, armed, inuse, st, fd, wbuf, io, open, nsess,
                   budget, denied, lost, failed>>

\* ... or -EAGAIN: only the tasks and the submit of the round are run.
WaitAgain ==
    /\ pc = "wait" /\ CqEmpty
    /\ pc' = "tasks"
    /\ UNCHANGED <<running, armed, inuse, st, fd, wbuf, io, open, nsess,
                   budget, denied, lost, failed>>

\* ... or another error, a signal's -EINTR above all: the loop is left.
WaitFails ==
    /\ pc = "wait" /\ CqEmpty /\ AllowStop
    /\ pc' = "stopped"
    /\ UNCHANGED <<running, armed, inuse, st, fd, wbuf, io, open, nsess,
                   budget, denied, lost, failed>>


\* process_completion_events consumes a completion of c and
\* handle_completion_event branches on conn->state, here s: the operation
\* that completed is not looked at.
RingAfter(c, op, res) == Take(io, c, Cq(op, res))
Arrived(c, s, op, res) ==
    pc = "cqes" /\ st[c] = s /\ Cq(op, res) \in io.ref[c]

HandleAcceptError(c) ==
    /\ \E op \in Ops : /\ Arrived(c, "accept", op, "neg")
                       /\ io' = RingAfter(c, op, "neg")
    /\ inuse' = inuse \ {c}
    /\ denied' = denied + 1
    /\ UNCHANGED <<pc, running, armed, st, fd, wbuf, open, nsess, budget,
                   lost, failed>>
\* Mutant: the accept is not armed again.
HandleAcceptOnce(c) ==
    /\ \E op \in Ops, res \in {"zero", "pos"} :
         /\ Arrived(c, "accept", op, res)
         /\ \E e \in SetEvent(RingAfter(c, op, res), c, "read") : Settle(e, c, "read")
    /\ fd' = [fd EXCEPT ![c] = nsess + 1]
    /\ nsess' = nsess + 1
    /\ open' = open \cup {nsess + 1}
    /\ UNCHANGED <<pc, running, armed, inuse, wbuf, budget, denied, failed>>

\* handle_accept_event: read from the new socket, then arm the next accept.
HandleAccept(c) ==
    /\ \E op \in Ops, res \in {"zero", "pos"} :
         /\ Arrived(c, "accept", op, res)
         /\ \E e \in SetEvent(RingAfter(c, op, res), c, "read") :
              /\ lost' = IF e.posted THEN lost ELSE lost \cup {c}
              /\ SetAccept(e.g,
                           IF e.posted THEN [st EXCEPT ![c] = "read"] ELSE st,
                           [fd EXCEPT ![c] = nsess + 1], "cqes")
    /\ nsess' = nsess + 1
    /\ open' = open \cup {nsess + 1}
    /\ UNCHANGED <<running, armed, wbuf, budget, failed>>
\* Mutant: the object is released and its socket is not closed.
HandleReadEofReleases(c) ==
    /\ \E op \in Ops :
         Arrived(c, "read", op, "zero") /\ io' = RingAfter(c, op, "zero")
    /\ inuse' = inuse \ {c}
    /\ UNCHANGED <<pc, running, armed, st, fd, wbuf, open, nsess, budget,
                   denied, lost, failed>>

\* End of stream: set_close_event, which does not retry and whose result
\* nobody looks at.
HandleReadEof(c) ==
    /\ \E op \in Ops :
         /\ Arrived(c, "read", op, "zero")
         /\ LET g == RingAfter(c, op, "zero")
            IN IF Full(g)
               THEN Settle([posted |-> FALSE, g |-> g], c, "close")
               ELSE Settle([posted |-> TRUE, g |-> Put(g, c, Sq("close"))], c, "close")
    /\ UNCHANGED <<pc, running, armed, inuse, fd, wbuf, open, nsess, budget,
                   denied, failed>>

\* The parameter of handle_read_event is a size_t, so an error is a large
\* positive count and takes the same path as data.
HasData(c, op, res) == res \in {"pos", "neg"} /\ Arrived(c, "read", op, res)

\* No handler for the data, or the rest of a body came in pieces: read on.
HandleReadMore(c) ==
    /\ \E op \in Ops, res \in Results :
         /\ HasData(c, op, res)
         /\ \E e \in SetEvent(RingAfter(c, op, res), c, "read") : Settle(e, c, "read")
    /\ UNCHANGED <<pc, running, armed, inuse, fd, wbuf, open, nsess, budget,
                   denied, failed>>
\* Mutant: dispatch() returns false after the task was queued.
DispatchCompleteReads(c) ==
    /\ \E op \in Ops, res \in Results :
         /\ HasData(c, op, res)
         /\ \E e \in SetEvent(Put(RingAfter(c, op, res), c, Queued), c, "read") :
              Settle(e, c, "read")
    /\ UNCHANGED <<pc, running, armed, inuse, fd, wbuf, open, nsess, budget,
                   denied, failed>>

\* dispatch() found a complete request: it goes to the thread pool.
DispatchComplete(c) ==
    /\ \E op \in Ops, res \in Results :
         /\ HasData(c, op, res)
         /\ io' = Put(RingAfter(c, op, res), c, Queued)
    /\ UNCHANGED <<pc, running, armed, inuse, st, fd, wbuf, open, nsess,
                   budget, denied, lost, failed>>

MainQueueSize(g) == Cardinality({c \in Conns : MainQ \in g.ref[c]})

\* dispatch() found the beginning of a request: a task of the main-thread
\* queue will read the rest, or when that queue is full the caller reads on.
DispatchIncomplete(c) ==
    /\ \E op \in Ops, res \in Results :
         /\ HasData(c, op, res)
         /\ LET g == RingAfter(c, op, res)
            IN IF MainQueueSize(g) < QueueLimit
               THEN io' = Put(g, c, MainQ) /\ UNCHANGED <<st, lost>>
               ELSE \E e \in SetEvent(g, c, "read") : Settle(e, c, "read")
    /\ UNCHANGED <<pc, running, armed, inuse, fd, wbuf, open, nsess, budget,
                   denied, failed>>
\* Mutant: a partial write is taken for a complete one.
HandleWritePartialIsDone(c) ==
    /\ \E op \in Ops, n \in 0 .. BufferCap :
         /\ Arrived(c, "write", op, "pos")
         /\ n <= Len(wbuf[c]) /\ (n = 0 => wbuf[c] = <<>>)
         /\ wbuf' = [wbuf EXCEPT ![c] = SubSeq(@, n + 1, Len(@))]
         /\ \E e \in SetEvent(RingAfter(c, op, "pos"), c, "read") : Settle(e, c, "read")
    /\ UNCHANGED <<pc, running, armed, inuse, fd, open, nsess, budget, denied,
                   failed>>

\* Mutant: the bytes written stay in the buffer.
HandleWriteKeepsBytes(c) ==
    /\ \E op \in Ops :
         /\ Arrived(c, "write", op, "pos")
         /\ \E e \in SetEvent(RingAfter(c, op, "pos"), c, "read") : Settle(e, c, "read")
    /\ UNCHANGED <<pc, running, armed, inuse, fd, wbuf, open, nsess, budget, denied,
                   failed>>

\* handle_write_event: write the rest, or read the next request.
HandleWrite(c) ==
    /\ \E op \in Ops, n \in 0 .. BufferCap :
         /\ Arrived(c, "write", op, "pos")
         /\ n <= Len(wbuf[c]) /\ (n = 0 => wbuf[c] = <<>>)
         /\ wbuf' = [wbuf EXCEPT ![c] = SubSeq(@, n + 1, Len(@))]
         /\ LET next == IF n < Len(wbuf[c]) THEN "write" ELSE "read"
            IN \E e \in SetEvent(RingAfter(c, op, "pos"), c, next) : Settle(e, c, next)
    /\ UNCHANGED <<pc, running, armed, inuse, fd, open, nsess, budget, denied,
                   failed>>

\* A write that failed: the object goes back to the pool as it is, its
\* buffer unread and its socket open.
HandleWriteError(c) ==
    /\ \E op \in Ops, res \in {"neg", "zero"} :
         Arrived(c, "write", op, res) /\ io' = RingAfter(c, op, res)
    /\ inuse' = inuse \ {c}
    /\ failed' = failed \cup {fd[c]}
    /\ UNCHANGED <<pc, running, armed, st, fd, wbuf, open, nsess, budget,
                   denied, lost>>
\* Mutant: the object of a closed connection is not released.
HandleCloseLeaks(c) ==
    /\ \E op \in Ops, res \in Results :
         Arrived(c, "close", op, res) /\ io' = RingAfter(c, op, res)
    /\ UNCHANGED <<pc, running, armed, inuse, st, fd, wbuf, open, nsess,
                   budget, denied, lost, failed>>

HandleClose(c) ==
    /\ \E op \in Ops, res \in Results :
         Arrived(c, "close", op, res) /\ io' = RingAfter(c, op, res)
    /\ inuse' = inuse \ {c}
    /\ UNCHANGED <<pc, running, armed, st, fd, wbuf, open, nsess, budget,
                   denied, lost, failed>>

CqesDone ==
    /\ pc = "cqes" /\ CqEmpty
    /\ pc' = "tasks"
    /\ UNCHANGED <<running, armed, inuse, st, fd, wbuf, io, open, nsess,
                   budget, denied, lost, failed>>

\* The callback of a task of the main-thread queue: read the rest of the
\* body.  It neither retries nor submits nor assigns conn->state.
RunMainTask(c) ==
    /\ pc = "tasks" /\ MainQ \in io.ref[c]
    /\ LET g == Take(io, c, MainQ)
       IN IF Full(g) THEN io' = g /\ lost' = lost \cup {c}
                     ELSE io' = Put(g, c, Sq("read")) /\ UNCHANGED lost
    /\ UNCHANGED <<pc, running, armed, inuse, st, fd, wbuf, open, nsess,
                   budget, denied, failed>>

TasksDone ==
    /\ pc = "tasks" /\ \A c \in Conns : MainQ \notin io.ref[c]
    /\ pc' = "submit"
    /\ UNCHANGED <<running, armed, inuse, st, fd, wbuf, io, open, nsess,
                   budget, denied, lost, failed>>

SubmitRound ==
    /\ pc = "submit"
    /\ io' \in Submit(io)
    /\ pc' = IF running THEN "wait" ELSE "stopped"
    /\ UNCHANGED <<running, armed, inuse, st, fd, wbuf, open, nsess, budget,
                   denied, lost, failed>>

\* stop(), from the signal handler.
Stop ==
    /\ AllowStop /\ running
    /\ running' = FALSE
    /\ UNCHANGED <<pc, armed, inuse, st, fd, wbuf, io, open, nsess, budget,
                   denied, lost, failed>>

---------------------------------------------------------------------------
(* The workers.                                                            *)

\* Workers that have a task in their hands.
Busy == Cardinality({x \in Conns \X {Running, Callback} : x[2] \in io.ref[x[1]]})
\* Mutant: one worker too few.
TakeTaskOneIdle(c) ==
    /\ Queued \in io.ref[c] /\ Busy < NumWorkers - 1
    /\ io' = Move(io, c, Queued, Running)
    /\ UNCHANGED <<pc, running, armed, inuse, st, fd, wbuf, open, nsess,
                   budget, denied, lost, failed>>

TakeTask(c) ==
    /\ Queued \in io.ref[c] /\ Busy < NumWorkers
    /\ io' = Move(io, c, Queued, Running)
    /\ UNCHANGED <<pc, running, armed, inuse, st, fd, wbuf, open, nsess,
                   budget, denied, lost, failed>>

\* handle(): n units of response are appended if they fit, none when the
\* request does not parse, the handler answers nothing or they do not fit.
RunTask(c) ==
    /\ Running \in io.ref[c]
    /\ io' = Move(io, c, Running, Callback)
    /\ \E n \in 0 .. BufferCap :
         /\ Len(wbuf[c]) + n <= BufferCap
         /\ wbuf' = [wbuf EXCEPT ![c] = @ \o [i \in 1 .. n |-> fd[c]]]
    /\ UNCHANGED <<pc, running, armed, inuse, st, fd, open, nsess, budget,
                   denied, lost, failed>>

\* An exception in handle() ends in the packaged_task: no callback is run.
TaskThrows(c) ==
    /\ Running \in io.ref[c] /\ budget.throws > 0
    /\ budget' = [budget EXCEPT !.throws = @ - 1]
    /\ io' = Take(io, c, Running)
    /\ lost' = lost \cup {c}
    /\ UNCHANGED <<pc, running, armed, inuse, st, fd, wbuf, open, nsess,
                   denied, failed>>
\* Mutant: nothing is done when there is no answer to write.
RunCallbackNoRead(c) ==
    /\ Callback \in io.ref[c]
    /\ IF wbuf[c] # <<>>
       THEN \E e \in SetEvent(Take(io, c, Callback), c, "write") : Settle(e, c, "write")
       ELSE io' = Take(io, c, Callback) /\ UNCHANGED <<st, lost>>
    /\ UNCHANGED <<pc, running, armed, inuse, fd, wbuf, open, nsess, budget,
                   denied, failed>>

\* Mutant: conn->state keeps its value.
RunCallbackKeepsState(c) ==
    /\ Callback \in io.ref[c]
    /\ \E e \in SetEvent(Take(io, c, Callback), c,
                         IF wbuf[c] # <<>> THEN "write" ELSE "read") :
         /\ io' = e.g
         /\ lost' = IF e.posted THEN lost ELSE lost \cup {c}
    /\ UNCHANGED <<pc, running, armed, inuse, st, fd, wbuf, open, nsess,
                   budget, denied, failed>>

\* Mutant: the entry is left for the main thread to submit.
RunCallbackNoSubmit(c) ==
    /\ Callback \in io.ref[c] /\ ~Full(io)
    /\ LET op == IF wbuf[c] # <<>> THEN "write" ELSE "read"
       IN Settle([posted |-> TRUE, g |-> Put(Take(io, c, Callback), c, Sq(op))], c, op)
    /\ UNCHANGED <<pc, running, armed, inuse, fd, wbuf, open, nsess, budget,
                   denied, failed>>

\* The callback: write the answer, or read when there is none.  The second
\* attempt to get an entry, after a submit, only knows how to write.
RunCallback(c) ==
    /\ Callback \in io.ref[c]
    /\ LET g == Take(io, c, Callback)
           answer == wbuf[c] # <<>>
           op == IF answer THEN "write" ELSE "read"
       IN IF answer \/ ~Full(g)
          THEN \E e \in SetEvent(g, c, op) : Settle(e, c, op)
          ELSE \E h \in Submit(g) : \E k \in IF Full(h) THEN {h} ELSE Unprepared(h) :
                 Settle([posted |-> FALSE, g |-> k], c, op)
    /\ UNCHANGED <<pc, running, armed, inuse, fd, wbuf, open, nsess, budget,
                   denied, failed>>

---------------------------------------------------------------------------
(* The kernel and the clients.                                             *)

Finish(c, op, res) ==
    Kern(op) \in io.ref[c] /\ io' = Move(io, c, Kern(op), Cq(op, res))

ClientConnects(c) ==
    /\ budget.clients > 0
    /\ Finish(c, "accept", "pos")
    /\ budget' = [budget EXCEPT !.clients = @ - 1]
    /\ UNCHANGED <<pc, running, armed, inuse, st, fd, wbuf, open, nsess,
                   denied, lost, failed>>

AcceptFails(c) ==
    /\ budget.accepts > 0
    /\ Finish(c, "accept", "neg")
    /\ budget' = [budget EXCEPT !.accepts = @ - 1]
    /\ UNCHANGED <<pc, running, armed, inuse, st, fd, wbuf, open, nsess,
                   denied, lost, failed>>

ReadCompletes(c) ==
    /\ \E res \in ReadResults : Finish(c, "read", res)
    /\ UNCHANGED <<pc, running, armed, inuse, st, fd, wbuf, open, nsess,
                   budget, denied, lost, failed>>

WriteCompletes(c) ==
    /\ \E res \in {"pos", "neg"} : Finish(c, "write", res)
    /\ UNCHANGED <<pc, running, armed, inuse, st, fd, wbuf, open, nsess,
                   budget, denied, lost, failed>>

CloseCompletes(c) ==
    /\ Finish(c, "close", "zero")
    /\ open' = open \ {fd[c]}
    /\ UNCHANGED <<pc, running, armed, inuse, st, fd, wbuf, nsess, budget,
                   denied, lost, failed>>

---------------------------------------------------------------------------
HandleCqe(c) ==
    \/ HandleAcceptError(c) \/ HandleAccept(c)
    \/ HandleReadEof(c) \/ HandleReadMore(c)
    \/ DispatchComplete(c) \/ DispatchIncomplete(c)
    \/ HandleWrite(c) \/ HandleWriteError(c)
    \/ HandleClose(c)

MainStep ==
    \/ ArmInitialAccept \/ StartLoop
    \/ WaitCqe \/ CqesDone \/ TasksDone \/ SubmitRound

Worker(c) == TakeTask(c) \/ RunTask(c) \/ TaskThrows(c) \/ RunCallback(c)

Kernel(c) ==
    \/ ClientConnects(c) \/ AcceptFails(c) \/ ReadCompletes(c)
    \/ WriteCompletes(c) \/ CloseCompletes(c)

Next ==
    \/ MainStep \/ WaitAgain \/ WaitFails \/ Stop
    \/ \E c \in Conns : HandleCqe(c) \/ RunMainTask(c) \/ Worker(c) \/ Kernel(c)

Spec == Init /\ [][Next]_vars

\* The main thread and the workers are threads that the scheduler runs.  The
\* completion queue and the pool's queue are FIFO, so that no entry is
\* overtaken for ever: strongly fair for TakeTask, which is disabled
\* whenever all workers are busy.  The kernel completes a close.  Nothing is
\* assumed of clients: a read, a write or an accept may never complete.
Fairness ==
    /\ WF_vars(MainStep)
    /\ \A c \in Conns : /\ WF_vars(HandleCqe(c))
                        /\ WF_vars(RunMainTask(c))
                        /\ SF_vars(TakeTask(c))
                        /\ WF_vars(RunTask(c) \/ TaskThrows(c))
                        /\ WF_vars(RunCallback(c))
                        /\ WF_vars(CloseCompletes(c))
FairSpec == Spec /\ Fairness

---------------------------------------------------------------------------
(* Properties.  After io.again an operation that the server did not ask    *)
(* for a second time runs on an object that may have another owner: the    *)
(* invariants say what holds until then.                                   *)

\* A connection's pointer is in one place at most: one operation, or one
\* task, never two, and none once it is back in the pool or lost.  This is
\* what lets workers touch a connection without a lock.
OneOwner ==
    ~io.again =>
        /\ ~io.twice
        /\ \A c \in Conns : \A p, q \in io.ref[c] : p = q
        /\ \A c \in Conns : io.ref[c] # {} => c \in inuse \ lost

\* A connection in use is always held somewhere, so that something will
\* happen to it, except where the code throws the pointer away.
NoOrphan == ~io.again => \A c \in inuse \ lost : io.ref[c] # {}

\* The handler that a completion reaches, chosen by conn->state, is the one
\* of the operation that completed; a task works on a connection in READ.
HandlerMatchesOp ==
    ~io.again =>
        \A c \in Conns : \A p \in io.ref[c] :
            st[c] = IF p \in TaskPlaces THEN "read" ELSE p[2]

\* Bookkeeping of the accepts, up to the first repeated operation: those that
\* run() armed still wait, or were denied by a failed accept, a full queue or
\* an exhausted pool, each of which is counted.
AcceptCredit ==
    ~io.again =>
        Cardinality({c \in inuse \ lost : st[c] = "accept"}) + denied = armed

\* A socket has one connection object at most, it stays open while an
\* operation or a task may use it, and it is closed before its object is
\* reused unless a write to it failed.
SocketOwned ==
    ~io.again =>
        /\ \A s \in open : s \in failed \/ \E c \in inuse : fd[c] = s
        /\ \A c, d \in inuse : fd[c] = fd[d] /\ fd[c] # NoFd => c = d
        /\ \A c \in Conns : \A p \in io.ref[c] :
               p[2] = "accept" \/ p = Cq("close", "zero") \/ fd[c] \in open

\* The write buffer of a connection holds bytes of its present client, or
\* what a client whose write failed left behind.
OwnBytes ==
    ~io.again => \A c \in Conns : ToSet(wbuf[c]) \subseteq {fd[c]} \cup failed

\* A request is read and handled only when the answer to the one before it
\* has been written completely.
ReadAfterDrain ==
    ~io.again =>
        \A c \in Conns : \A p \in io.ref[c] \ {Callback} :
            st[c] = "read" => fd[c] \notin ToSet(wbuf[c])

\* From the moment a connection is queued for the pool until its callback has
\* run, no step of anybody else changes it: handle() needs no lock.
WorkerExclusive ==
    [][\A c \in Conns : \A p \in {Queued, Running, Callback} :
          ~io.again /\ p \in io.ref[c] /\ p \in io'.ref[c] =>
              UNCHANGED <<st[c], fd[c], wbuf[c]>>]_vars

\* The server uses the threads as TaskPool.tla describes them, which
\* ThreadPool.tla implements: no connection is submitted while an earlier job
\* of it waits or runs.
Waiting == {c \in Conns : Queued \in io.ref[c]}
AtWork == {c \in Conns : io.ref[c] \cap {Running, Callback} # {}}
Pool == INSTANCE TaskPool WITH
    Jobs <- Conns, Capacity <- NumWorkers, pending <- Waiting, active <- AtWork
PoolUsed == [][~io'.again => [Pool!Next]_<<Waiting, AtWork>>]_vars

\* Whatever the pool is given it finishes.
JobFinishes ==
    \A c \in Conns :
        Queued \in io.ref[c]
            ~> io.ref[c] \cap {Queued, Running, Callback} = {}

\* A connection whose client is gone returns to the pool.
CloseFinishes == \A c \in Conns : (st[c] = "close" /\ c \in inuse) ~> c \notin inuse

\* An answer that the callback finds in the write buffer is handed to the
\* kernel, even though the main thread may be asleep.
AnswerSubmitted ==
    \A c \in Conns :
        (Callback \in io.ref[c] /\ wbuf[c] # <<>>) ~> Kern("write") \in io.ref[c]

=============================================================================
