# A TLA+ model of the io_uring web server

The repository is a small HTTP server in C++17.  A main thread drives an
io_uring event loop, a pool of worker threads handles requests, and two memory
pools provide connection objects and extra buffers.  This directory holds TLA+
modules translated from its source, TLC configurations that check them on
small instances, and proofs checked by TLAPS.

The committed tree does not build as it stands: `uring_server.cpp:18` calls
`ThreadPool::set_main_queue`, which is commented out in `pthread_pool.h`
(lines 123-126), and the constructor of `UringConnectionInfo`
(`uring_types.h:240`) initialises a member that is not declared.  Both are
without effect on the behaviour (the queue would only be stored, the member is
never read), and the models leave them out.

## Inventory

| Component | Source | State | Operations |
|---|---|---|---|
| Event loop | `src/uring_server.cpp` | `_running`, the rings, per connection `state`, `fd`, two buffers | `run`, `stop`, `set_*_event`, `handle_*_event`, `process_*` |
| Dispatcher | `include/dispatcher.h` | list of handlers, pointers to pool, queue, ring | `dispatch`, the worker's callback, the main-thread task |
| Main-thread queue | `include/uring_types.h:162-218` | FIFO of tasks | `push_task`, `try_pop_task`, `pop_task`, `stop` |
| Thread pool | `include/pthread_pool.h` | FIFO of tasks, `_stop`, threads | `enqueue`, `enqueue_with_callback`, `waitAll`, `shutdown` |
| Submission ring | liburing, used without a lock by main thread and workers | head, two tails, slots | `io_uring_get_sqe`, `prep`, `set_data`, `submit` |
| Connection pool | `lib/cache_pool/slab_pool/slab_pool.h` | three lists of slabs, bit sets, counters | `acquire`, `release`, growth |
| Buffer pool | `lib/cache_pool/buddy_pool/` | free lists by order | `allocate_buffer`, `deallocate_buffer`, `defragment`, statistics |
| Layer memory pool | `include/memery_pool.h` | the two pools | `allocate_*`, `deallocate_*`, `get_cache_stats`, `health_check` |
| Ring buffer | `include/uring_types.h:51-137` | head, tail | `write_data`, `read_data`, sizes |
| HTTP | `src/http_complete.cpp` | `parse_result`, `bytes_NO_read`, `extra_buffer` | framing, parsing, responses |
| Handlers | `include/taskHander.h` | none | `can_handle`, `is_parse_complete`, `handle` |
| Listener | `include/tcp.h` | `_socket_fd` | `initialize`, `get_listen_fd`, destructor |
| Program | `src/main.cpp`, constructor and destructor of the server | `g_server`, the server's members | start, signal handler, end |
| Old code | `dele/` | | not compiled |

How they interact.  The main thread sleeps in `io_uring_wait_cqe`.  Each
completion carries a raw pointer to a connection object, and
`handle_completion_event` branches on the `state` field of that object, not on
the operation that completed.  An accept leads to a read and to a new accept
with a new object; a read leads to the dispatcher, which gives a complete
request to the pool, an incomplete one to the main-thread queue, and anything
else back to a read; a write leads to another write or to a read; end of
stream leads to a close and the object back to the pool.  A worker handles the
request, which appends a response to the connection's write buffer, and then
runs a callback that sets up the write and submits it, from the worker's
thread.  Nothing but the two queues is protected by a lock: the code relies on
each connection being in one hand at a time.

What is hard:

- **Ownership.**  A raw pointer goes through the submission queue, the kernel,
  the completion queue, two task queues and workers.  Twice in them means two
  threads on one object; nowhere means a connection that is never served nor
  released.
- **State against operation.**  `state` is written by main thread and workers,
  at places some way from the operation it announces.
- **The submission ring** is used by several threads without a lock.
- **Failures that nobody looks at.**  `get_sqe` that finds no room, `submit`
  that fails, an exception in a handler, a failed accept, read or write.
- **Exhaustion** of the connection pool, whose growth locks a mutex that is
  already held, and of the accepts armed at the start, which nothing replaces.
- **Sleeping and waking** of workers; shutdown with tasks in the queue.
- **The end of the program.**  A signal may come at any point; the destructor
  exits the ring and destroys the dispatcher while jobs still use both, and
  frees the connection objects only after the pool of threads is joined.
- **Two buffers for one request.**  The rest of an incomplete request is read
  into another buffer, whose size is remembered in `bytes_NO_read` and which is
  put together with the read buffer by the worker; both survive errors and the
  end of the session.
- **Ring buffers read as if they were flat.**  Pointer and size are taken from
  a ring whose readable part may go around its end.

What makes each component correct:

| Component | Properties |
|---|---|
| Event loop, dispatcher, queues | each connection in one hand (`OneOwner`, `WorkerExclusive`, `PoolUsed`), none forgotten (`NoOrphan`), completions in the right handler (`HandlerMatchesOp`), accepts kept up (`AcceptCredit`), bytes and sockets of one session only (`SocketOwned`, `OwnBytes`, `ReadAfterDrain`), work comes to an end (`JobFinishes`, `CloseFinishes`, `AnswerSubmitted`) |
| Submission ring | up to the first race of two threads: entries whole and not overwritten (`TakenWhole`, `NoneOverwritten`), the queue the server believes in but for what an unprepared entry repeats (`IsSubmitQueue`); not kept: submitted when the call returns (`SubmittedAtOnce`) |
| Thread pool | no lost wakeup (`NoIdleSleeper`), tasks once and in order (`InOrder`, `IsTaskPool`), all done (`JobsDone`, and `DrainedWhenJoined` when it is shut down) |
| Program, listener | what is used is there (`OutlivesUsers`), the loop is left after `stop()` (`LoopIsLeft`), the destructor comes to its end (`Ends`); not kept: `StopsWhenAsked` |
| Connection pool | an object nobody holds or none (`IsConnPool`), lists and counters agree (`ListsExact`, `CountsAgree`); not kept: acquire returns (`GrowthReturns`) |
| Buffer pool, layer memory pool | blocks fill the memory and lie apart (`BlocksTile`, `BlocksApart`), requests are served by a block that fits and refused only without one (`ServedByFit`); not kept: what is given back is free again (`MemoryGivenBack`) |
| Ring buffer, HTTP, handlers | whole answers, in order, in one piece (`AnswersWhole`, `AnswersInOrder`, `AnswersInOnePiece`), extra buffer as large as it is said to be (`ExtraCovers`), whole requests answered or dropped (`Served`); not kept: `ProcessedIsRemoved`, `ClosedByClientOnly` |

## Modules

| Module | What it is |
|---|---|
| `UringServer` | the event loop, the dispatcher's continuations, both task queues, kernel and clients |
| `UringServerProofs` | types, ownership and handler agreement, for all constants |
| `UringServerSessionProofs` | what a client is promised: nobody forgotten, sockets, bytes, accepts, undisturbed workers; the use of `TaskPool` |
| `SubmitQueue` | abstract: what the server believes of the submission queue, and the one thing it does not know: an entry that is not filled repeats an old operation |
| `SubmissionRing` | the ring with every shared access a step and the threads meeting in every way; implements `SubmitQueue` up to the first race |
| `SubmissionRingProofs` | types; whole entries, none overwritten, the refinement of `SubmitQueue`, up to the first race and for all constants |
| `TaskPool` | abstract: jobs wait, run once beside a limited number of others, are over |
| `ThreadPool` | the pool with its mutex, condition variable and shutdown; implements `TaskPool` |
| `ThreadPoolProofs` | wakeups, order, shutdown and the refinement of `TaskPool`, for all constants |
| `Program` | from `main()` to its end, composed with `ThreadPool` |
| `ProgramProofs` | the program uses the pool as it must; types and lifetimes, for all constants |
| `ConnPool` | abstract: `acquire` returns an object nobody holds, or nothing |
| `SlabPool` | the pool of slabs; implements `ConnPool` |
| `RingBuffer` | the index arithmetic of the read and write buffers |
| `BuddyPool` | what the functions of the buddy system do to the lists of free blocks |
| `MemoryPool` | both memory pools side by side: `SlabPool` and the state of the buddy system |
| `BuddyPoolProofs` | sizes, orders and splitting for memories of every size; lemmas about numbers, induction and linked lists |
| `MemoryPoolProofs` | lists, counters and the refinement of `ConnPool`; blocks and fit, for all constants |
| `HttpConnection` | the bytes of one connection: framing, extra buffer, answers; uses `RingBuffer` and `BuddyPool` |
| `HttpConnectionProofs` | types, whole answers, in order and in one piece, extra buffers, for all constants |
| `MC*` | instances of the above for TLC |

### UringServer

`io.ref[c]` is the set of places that hold a pointer to connection `c`: an
entry of the submission queue, an operation in the kernel, a completion, the
main-thread queue, the pool's queue, or a worker before or after `handle()`.
Nothing restricts that set; that it never has two members is a theorem.  If a
pointer is put where one already is, `io.twice` records it.

Main thread: `ArmInitialAccept`, `StartLoop`, `WaitCqe`/`WaitAgain`/`WaitFails`
(the three results of `io_uring_wait_cqe`), one action per branch of the
completion handlers, `RunMainTask`, `SubmitRound`.  Workers: `TakeTask`,
`RunTask`, `TaskThrows`, `RunCallback`.  Kernel and clients: one action per
operation that completes.  A signal is `Stop` or `WaitFails`.

Points where the model follows the code and not what one would expect:

- `set_accept_event` takes the entry before the object.  When the pool has
  none, the entry stays in the queue as it was when it was last used: the old
  operation is submitted a second time (`Unprepared`, `io.again`).  From then
  on two operations may be pending for one object, and the invariants are
  claimed only until then.  The same happens in the callback's second attempt
  when there is no answer to write.
- `handle_read_event` takes the result as a `size_t`, so an error is a large
  count and goes the way of data (`HasData`).
- A failed write releases the object without closing its socket or emptying
  its buffers (`HandleWriteError`, history `failed`).
- A failed accept is not armed again (`denied`).
- Results of `set_*_event` are ignored: when no entry can be had the
  connection is in nobody's hand (`lost`), and an operation whose submit failed
  stays in the queue until someone submits again.

Abstracted: a buffer is the sequence of the sessions whose bytes it holds, in
units; whether a request is complete, incomplete or foreign is a choice, as is
the number of units of the answer; a completion result is its sign.  Using the
submission queue is one step.  `SubmissionRing` takes that step apart and shows
up to which point that is right: until two threads use one slot, the published
tail goes back, or the kernel takes an entry that its thread has not finished.
The code excludes none of these, so what `UringServer` says holds for runs
without such a race.  Completions are handled in any order.

### SubmissionRing

One step per access: `GetSqe` reads the tail, `Advance` writes it back,
`Prepare`, `SetData`, `SetState`, `ReadTail`, `Publish`, `Enter`.  The main
thread assigns `conn->state` right after it has the entry, the callback after
`set_data`; both orders are modelled.  `set_accept_event` without an object and
the callback's second attempt without an answer return with the entry taken and
not filled: `LeaveUnprepared`; the entry goes to the kernel with what its slot
held before.  What the ring does inside is liburing's and the kernel's, modelled
from the way the server uses it.

Nothing in the code keeps two threads out of the ring, so each access of one
may come between any two of another.  The history `race` records what goes wrong
when they do: `slot`, a thread was given a slot that another still uses; `tail`,
the published tail went back behind what the kernel had taken; `early`, the
entries that the kernel took while their thread was at work on them.  No action
looks at it.  `TakenWhole` and `NoneOverwritten` hold up to `slot` and `tail`
(`Clean`) and name the entries in `early` as the only ones that are torn or
lost: neither they, nor entries left unprepared, nor failed submits spoil
others.  `IsSubmitQueue` holds up to the first of the three, whatever threads do
until then; after it, `SubmitQueue` promises nothing (`raced`).  That the races
do happen is `RingShared`.

`SubmitQueue` is not the queue one would wish for: `Repeat` says that an entry
may be posted and then repeat what lay in its slot one turn of the ring before,
which is what the server does not know.

### ThreadPool

Sections under the mutex are steps, notifications are steps of their own, and
waking needs no notification.  `owner` is the main thread, the only caller.
It is checked as a part of `Program`, which decides when the owner acts.
The comment on `shutdown` (`pthread_pool.h:142`) says that it does not wait for
unfinished tasks; the code does, since workers leave only when the queue is
empty and `shutdown` joins them.  `JobsDone`, `EndsDone` and `ShutdownDrains` are
about what the code does.

### Program

`main` is where the main thread is: `boot` (before line 25 of `main.cpp`),
`setup` (`g_server` is set), `armed` (`run` has its listening socket), `test`,
`wait` and `work` in the loop, `left` (the loop was left, or `run` or the
constructor threw; the destructors run), `ended`.  `alive` holds the parts of
the server that exist; the destructor of `IoUringServer` exits the ring, and
then the members go against the order of their declaration: dispatcher, pool
of threads, memory, listener (`DestructionOrder`).  A constructor that throws
leaves the members it has made to the same order.

A connection is one of the pool's tasks.  It has an operation in the kernel
(`inkernel`), a completion that waits (`cqes`), or a job; `Handle` and
`Dispatch` are what a completion may lead to.  Every action of `ThreadPool` is
taken by someone here: `Enqueue` and `NotifyOne` by the loop, `Shutdown`,
`NotifyAll` and `Joined` by the destructor of the pool, the rest by workers.

Points where the model follows the code:

- `stop()` looks at `_running` first, so a signal does nothing before
  `StartServing` and after the loop; in between it ends a wait, unless there is
  something to return or the wait has not begun.  It may come to any of the
  three tests.
- A job that runs or is queued when the loop is left goes on: the pool empties
  its queue before it is joined.  Its callback uses the ring, which is exited,
  and the dispatcher, which is destroyed.  What comes of that is undefined, and
  the model lets it end the program (`Crashes`) or pass without effect.  The
  message "closed normally" (`main.cpp:34`) comes before the destructors and
  says nothing about that.
- `initialize` closes the socket when a later step fails and keeps the number
  (`listen = "stale"`).

Abstracted: what handlers do to a connection, the submission queue and its
failures; every connection object has an accept when the loop starts.
`io_uring_queue_exit` cancels what is in the kernel at once.

### SlabPool

The three lists are sequences, head first; bit sets and counters are kept
separately as in the code.  `_total_objects` grows each time a slab leaves the
list of empty ones, although it was counted when it was made.  Growing wraps
an unsigned difference around, which yields a huge number of slabs, and then
locks the cache mutex that `allocate_from_cache` holds: `stuck`.

### BuddyPool, MemoryPool

`BlockSize` doubles the smallest size with each order, as the loop of the code
does; `SplitDown` is the loop of `allocate_buffer`, whose k-th value is the
lists after k calls of `split_block`.  `LieApart` says that no block is listed
twice and no byte belongs to two blocks.
A block is its address, its size, the address of its buddy and its flag.  A
list holds blocks, head first; `lists` holds those of every order, `given` is a
history of what callers hold, and `lost` of what they gave back in vain.  `BuddyPool` is also what `HttpConnection`
allocates from.  Points where the model follows the code:

- `deallocate_buffer` looks for a block in use in the lists of free blocks,
  where there is none: it always returns `false`, and `deallocate_objects`
  destroys the objects and does not look at the result.  The caller no longer
  has the block, and the pool does not have it again (`lost`).
- `defragment` follows the pointer to the buddy.  It dangles when the buddy was
  split, and the first merge deletes the block the loop stands on: `undefined`.
  Blocks whose buddy is in use it leaves alone.
- `print_memory_status` calls `get_fragmentation`, which locks the mutex that
  it holds: `hung`.  In both states nothing more is claimed or done.
- A call that is refused, or that is given a pointer the pool does not know,
  changes nothing.

`get_fragmentation`, `get_available_memory`, `get_cache_stats` and
`health_check` only read and are left out.  One thing about them shows without
a model: the "total" memory is what is available plus a percentage of it
(`memery_pool.h:92-94`), so that at `memery_pool.h:119`, where the percentage is
80 at most, what is available is never below a tenth of it: the warning "Low
available memory" in line 120 is never given, not even when all is used up.

### HttpConnection, RingBuffer, BuddyPool

Bytes come in units: a request is its header, the blank line and, for a POST,
the units of its body; an answer is a number of units.  `<<r, i>>` is unit `i`
of request `r`, so that the model can tell where every byte of a buffer comes
from.  The kinds of requests are the branches of the code: without and with a
body, one that does not parse, chunked, for the file handler, for no handler.

The actions are those of the event loop as seen by one connection: `ReadData`,
`ReadEof` (a completion of a read into the read buffer), `ExtraData`,
`ExtraEof`, `ExtraFaults` (into the extra buffer, or into `nullptr`), `ReadFails`
(a failed read into either), `MainTask` (the task that allocates the extra
buffer), `Work` (a worker's job and its callback), `WriteData`
and `WriteFails`, `Closed`.  `HandleRead` is `handle_read_event`, `Dispatched`
is `dispatch`, `HandleMessage` is `handle_message`.  One job is one step: that
nobody else touches the connection meanwhile is a theorem of `UringServer`.

An *orderly* client sends a request as a whole, waits for the answer, and its
bytes arrive together; the bytes of a *loose* one arrive in any portions and
it does not wait.  The object is used by two clients one after the other and
keeps its buffers and what was left in them, as objects of the pool do.

Points where the model follows the code:

- `View` reads on behind the end of the memory when the readable part goes
  around it; what is there is a choice (`Outside`: nothing of meaning, or
  something that looks like a blank line).
- A failed read is a number short of 2^64: into the read buffer it is taken
  modulo the capacity, into an extra buffer it is a read of another size than
  expected.
- `bytes_NO_read` keeps its value when a header is incomplete.  When it is 0
  the read has length 0, completes with 0 and is taken for the end of the
  stream.  It wraps around when more was read than the request needs, and then
  no buffer of that size exists: the read goes to `nullptr`.
- While there is an extra buffer, a read of another size than expected is
  ignored; what it has brought stays behind the tail.
- When a request does not parse, or claims that it does and does not (chunked),
  the worker changes nothing, and the same bytes are looked at again.
- Blocks of the buffer pool are never given back (`held`).
- An answer needs room behind the tail of the write buffer, and the tail does not
  go back to the start when the buffer is empty: the second answer of a
  connection may be dropped although there is room (`dropped`).

Abstracted: what requests and answers say, header order and case, the status
line.  `faults` and `dropped` are histories; a property that says
`faults = {}` or `"write" \notin faults` is claimed up to the first fault, since
what a failed write leaves in the buffer is sent to the next client
(`UringServer`'s `OwnBytes` counts these).  The pool is used by one connection.

## Runs

| Run | What it checks | Size |
|---|---|---|
| `Server` | all safety properties with every fault: two clients, two workers, a failed accept, read, write, submit, an exception, a signal; `get_sqe` that finds no room, an accept that finds no object | 3 objects, 2 accepts, queue of 2 |
| `ServerLive` | tasks finish, closed connections return, answers reach the kernel | 3 objects, 1 worker |
| `Ring` | main thread and a callback in every interleaving up to the first race: whole entries, none overwritten, implements `SubmitQueue` | ring of 2, 3 + 2 operations, 1 round, 1 failed submit |
| `RingShared` | **violated**: both at the same time get the same entry | ring of 4, 1 operation each |
| `Program` | no lost wakeup, order, `TaskPool` implemented; parts outlive their users; jobs are done, the loop is left, the program ends | 3 workers, 3 connections, 3 completions, 1 signal |
| `StopSignal` | **violated**: a signal closes the server | 1 worker, 1 connection |
| `Memory` | lists, bits and counters of the slabs agree; `ConnPool` implemented; blocks fill the memory, lie apart and fit | 2 slabs of 3, memory of 4 blocks |
| `MemoryFree` | **violated**: a block that is given back is free again | as `Memory` |
| `SlabGrowth` | **violated**: an `acquire` that finds no object makes a slab and returns | 2 slabs of 3 |
| `Http` | whole answers, in order, in one piece; extra buffer and its block; whole requests are answered or dropped | 2 requests of 6 kinds, 2 clients, capacity 6, one failed read or write |
| `HttpRest` | **violated**: the data that were processed are removed from the read buffer | 1 POST |
| `HttpHeader` | **violated**: only the client ends a connection | 1 GET |

What the violations show.  `RingShared`: the main thread and a callback both
read `sqe_tail` before either writes it back, the callback submits an entry
with the main thread's operation and its write is gone.  `SlabGrowth`: the
first `acquire` with no free object hangs the main thread.  `HttpRest`: a body
that comes in a second piece leaves the header in the read buffer, because
`read_data` is asked to remove more than is there.  `HttpHeader`: a header that
comes in two pieces gets a read of length 0 and the connection is closed.
`MemoryFree`: a block is allocated and given back, and it is neither in use nor
free.  `StopSignal`: a signal
between the construction of the server and `_running = true` is forgotten, and
one between the test of the loop and the wait is not seen until something
completes; both leave a server that nobody can tell from one that was not asked.

Bounds.  Two clients on three objects let one connection be anywhere while
another is in a worker and a third is waiting for a client; sessions reuse
objects.  Two accepts and
three objects run out of objects when both connections are open; a queue of two
entries is full when an accept, a read and a callback come together, so that
the retry after a submit is taken, with and without success.  States in which
an operation was repeated (`io.again`) are checked and not gone on from
(`UpToRepeat`): nothing is claimed after them.
A buffer of two units has partial writes.  Each fault happens once.  For the
ring, five operations go round two slots more than twice, so that an entry left
unprepared repeats an operation that the kernel has had, and a thread that was
overtaken meets its slot again one turn later.  States after `slot` or `tail`
are checked and not gone on from (`UpToRace`).  For `Program`,
three workers and three jobs have two sleepers, one of which is woken while
another worker takes the job; three completions let the loop be left with jobs
queued, running and done; a signal may come at every point once.  Two slabs of three objects pass through all three
lists; the bound on refills lets `_total_objects` pass `_max_objects_` by
reuse alone.  A memory of four blocks has orders 0 to 2, is split twice and used up,
and every size from one unit to all of it is asked for.  In `Http` the buffers hold five units: a POST and a GET fill
them to the end exactly and the next byte goes to the start, two answers of
two and four units do the same for the write buffer, and one of four after one
of four does not fit.  The buffer pool has four units, so that the first
request for a rest splits twice and a third finds nothing.

Deadlock is not checked: an idle server waits for clients, a program ends, and
every model stops when its bounds are used up.

## Fairness

`UringServer`: the steps of the main thread and of each worker are weakly
fair, because threads run; taking a job is strongly fair, because the pool's
queue is first-in first-out while a worker may be taken by another job in
between; closing completes.  Accepts, reads and writes need not complete:
they depend on clients.  `WaitAgain`, `WaitFails` and `Stop` are not fair.
`Program`: the steps of the main thread and of each worker are weakly fair,
because threads run and get the mutex, and jobs end; nothing has to complete,
nobody has to send a signal, a wait need not return without a completion
(`WaitAgain`), and spurious wakeups are not counted on.  `SlabPool`: a call goes on.  `HttpConnection`: the steps of the
server are weakly fair: threads run, the kernel completes a read when there is
something to read or the client is gone, and a write because the client reads.
A loose client's bytes arrive at some time, since the network delivers them.
Nobody has to send or to close, and nothing has to fail.

## Proofs

`UringServerProofs` proves for every number of objects, queue size and bound:

- `TypeCorrect`: `Spec => []TypeOK`;
- `Ownership`: `Spec => []OneOwner`;
- `RightHandler`: `Spec => []HandlerMatchesOp`.

`OneOwner` is not inductive: that a handler does not put a second pointer down
follows from its having taken the only one, and that an accept finds an object
without pointers from the fact that only objects in use and not lost have
some; whether the pointer is put into a place that agrees with `state` depends
on the state it was taken with, which is `HandlerMatchesOp`.  The invariant
`IInv` is the conjunction of types, `Clean` (at most one pointer, only to live
connections, in the state its place asks for) and `lost \subseteq inuse`.
Lemmas describe what taking, putting, flushing and the `set_*_event` operators
do to `Clean`; the step theorem has one case per action.  `Clean` says nothing
about a pool that is exhausted: an operation that is repeated sets `io.again`,
and the invariant then only keeps the types.  The assumptions are those of
`UringServer`: counts are natural numbers and read results have a sign.

`UringServerSessionProofs` goes on from there, for the same constants and a
finite set of connections:

- `NobodyForgotten`: `Spec => []NoOrphan`;
- `AcceptsCounted`: `Spec => []AcceptCredit`, bookkeeping: what was armed is
  waiting or denied, and the failures that deny it are counted, not excluded;
- `SocketOwner`: `Spec => []SocketOwned`;
- `BuffersApart`: `Spec => []OwnBytes`;
- `DrainBeforeRead`: `Spec => []ReadAfterDrain`;
- `WorkersAlone`: `Spec => WorkerExclusive`, an action property;
- `PoolRefinement`: `Spec => PoolUsed`, each step is one of `TaskPool` or a
  stutter.

None of the five invariants is inductive, and they need each other: that a
socket is open when its read is handled depends on the place the pointer was
taken from, that the next session finds no bytes of the last one depends on
the write that came before the read.  `SInv` says of each connection what
holds at the place its pointer is at (`Fits`), and that it has one if it lives.
It does not matter to this whether an entry of the queue was submitted already:
`Seen` forgets the difference, so that a submit at whatever moment, successful
or not, leaves `SInv` alone, and only the handlers that move a pointer are work.  Accepts are counted with the library's theorems on cardinality.
Like `Clean`, all is claimed up to `io.again`.

`SubmissionRingProofs` proves for every number of threads, entries, operations
and failing submits, and with no hypothesis on how the threads meet:

- `TypeCorrect`: `Spec => []TypeOK`;
- `WholeEntries`: `Spec => []TakenWhole`;
- `NothingOverwritten`: `Spec => []NoneOverwritten`;
- `QueueRefinement`: `Spec => IsSubmitQueue`.

The condition (`Clean`) is in the properties and read off the behaviour, not
assumed of the threads; without it they are false, which `RingShared` shows.
Each part of the invariant is about one thing.  `MInv`: types, and which
operations have a state or an entry yet (`Marks`, `NotYet`).  `PInv`: where the
counters are to each other (`Counters`), that a thread that is about to write the
tail will move it by one (`Behind`), and that an entry in use is nobody else's
and was recorded as taken early if the kernel has it (`Owned`).  `WInv`: a slot
that no thread is filling is whole (`Filled`, `Sound`).  `KInv`: each operation set up is
dropped, lost early, taken or in the ring (`Kept`).  They need each other only up
to a race, so each is claimed until then (`UntilRace`), and races are never
forgotten (`RacesStay`).  Two numbers less than a ring apart have different slots
(`SlotsApart`), numbers in the same slot are a turn apart (`SameTurn`), and the
unsigned distance of the counters is their distance, since it is small
(`DistanceSmall`).

In the refinement the write of the tail posts the operation (`Advance`), since
from then on the entry is the thread's; leaving it unprepared is `Repeat`,
`Enter` submits, and all others stutter.  That an entry left unprepared holds
what the kernel took from its slot one turn before is `LInv`.  The step of the
first race makes the abstract `raced` true, after which every step is allowed.

`BuddyPoolProofs` and `MemoryPoolProofs` prove for slabs of every size and
number and a buffer memory of every size:

- `TypeCorrect`, `Lists`: `Spec => []ListsExact`, `Counters`:
  `Spec => []CountsAgree`, and `PoolRefinement`: `Spec => IsConnPool`; the same
  of `PoolSpec` (`MemoryLists`, `MemoryRefinement`), of which
  `MemoryInvariance` shows that it implies `Spec`;
- `PoolTypeCorrect`: `PoolSpec => []PoolTypeOK`;
- `Apart`: no block is listed twice and no two blocks, free or taken, share a
  byte;
- `NeverFreed`: no block that was ever taken is free again, an action property:
  what `MemoryFree` shows of one block is so of every one;
- `Tiling`: `PoolSpec => []BlocksTile`, and `Fits`: `PoolSpec => []ServedByFit`,
  both if the size of the memory is a power of two times the smallest block
  (`PowerOfTwo`).

`PowerOfTwo` is a hypothesis of the last two only.  It holds of the default
sizes (`uring_types.h:26`, 1 MiB of blocks of 4 KiB) and is needed: the
constructor puts a memory of any size on the list of an order below it, halves
lose a byte when the size is odd, and a block may be larger than its order
says, so that a request it could serve is refused.

The slabs: `LInv` replaces the concatenated lists of `ListsExact` by lists
that are injective and have exactly the slabs whose bits ask for them; counters
are the cardinalities of the sets of bits.  The buffers: `Sound` says that
listed blocks are free, as large as their order says, lie apart from each other
and from the taken ones and inside the memory; `SplitKeeps`, `SplittingKeeps`,
`TakeKeeps` and `AllocateKeeps` show that the parts of `allocate_buffer` keep
it.  `deallocate_buffer` finds nothing as all that is listed is free.  The
library's theorems on induction and recursive functions cannot be used (see
below), so these modules have their own: a set of numbers has a least member,
since inclusion among finite sets is well-founded (`Smallest`); from 0 to n by
induction about a set, not a predicate (`UpToN`); what is computed step by
step exists (`Iterated`), from which follow the values of `BlockSize` and
`SplitDown`.

`HttpConnectionProofs` proves for buffers of every capacity, requests and
answers of every size, a pool of buffers of every size and every bound:

- `TypeCorrect`: `Spec => []TypeOK`;
- `WritesInOnePiece`: `Spec => []AnswersInOnePiece`;
- `ExtraSize`: `Spec => []ExtraCovers`;
- `WholeAnswersOnly`: `Spec => []AnswersWhole`;
- `OrderedAnswers`: `Spec => []AnswersInOrder`;
- `ExtraBuffersApart`: `Spec => []BlocksApart`.

That a write starts from one piece is not inductive: it holds because a job
starts from an empty write buffer, and a job starts from an empty one because
the loop writes until nothing is left before it reads again.  `Piece` says
both; `WroteOnePiece` and `ConsumedOnePiece` say what the index functions do
to it, the case in which the tail comes to the end of the memory exactly being
the interesting one.  The size of the extra buffer needs the types of
everything that `bytes_NO_read` is computed from, so `IInv` is the conjunction
of types, `ExtraCovers` and `Piece`.

Order is about all places where units are: `AInv` says that what the client
received and what is to be written (`Answers`), what is in the read buffer
(`Unread`) and what is on its way (`net`) follow each other in the order of the
requests, and each part is in that order itself.  `PartWrote` and
`PartConsumed` say what writing and removing do to the units between head and
tail, around the end of the memory too.  Answers are only added to an empty
write buffer, so that what was received ends with a whole one.
`ExtraBuffersApart` rests on `AllocateKeeps`: the block that the task gets is
none of those that were given before, and no other step touches the blocks.
The assumptions are those of `RingBuffer`, `BuddyPool` and
`HttpConnection`: the capacity is above 1, it divides the number of values of a
`size_t` (32768 divides 2^64), and sizes are positive.

`ThreadPoolProofs` proves for every finite number of workers and any tasks:

- `NoLostWakeup`: `Spec => []NoIdleSleeper`;
- `Order`: `Spec => []InOrder`, and `TypeCorrect`;
- `ShutdownDrains`: `Spec => []DrainedWhenJoined`;
- `Refinement`: `Spec => IsTaskPool`.

`InOrder` is not inductive: that a task is not run twice needs to know that no
two workers have the same one and that none was submitted twice.  `Ordered`
says so, by indices: the tasks that left the queue are the first `Started` of
those submitted.  `Drained` says when a worker may leave its loop.
`NoIdleSleeper` is inductive beside the types; its steps count workers, with
the library's theorems on cardinality (`OneMore`, `OneLess`).  The refinement
needs `RoomToStart`: a worker that looks for a task is not among those that
run one, so there are fewer of these than workers.

`ProgramProofs` proves for every number of workers, connections, signals and
completions:

- `ProgramUsesPool`: `ProgramSpec => Spec`, the program takes steps of the
  pool or leaves it alone; hence `ProgramPool`: `NoIdleSleeper`, `InOrder` and
  `IsTaskPool` hold in the program;
- `ProgramTypeCorrect`: `ProgramSpec => []ProgramTypeOK`;
- `PartsOutliveUsers`: `ProgramSpec => []OutlivesUsers`;
- `EndsDone`: a program that ends normally has done what it dispatched.

`OutlivesUsers` follows from `Lifetimes`, which says for each part what the
others wait for: the memory for the pool, the pool for its workers and, with
the listener, for the ring.  That no worker is left when the pool is gone is
`Drained` of the pool, which the program inherits.

Model-checked only: the liveness properties, `Served`, `JobFinishes`,
`CloseFinishes`, `AnswerSubmitted`, `JobsDone`, `LoopIsLeft` and `Ends`, since
the prover has no rules for fairness and `ENABLED`.  Every invariant, action
property and refinement of a run that passes is a theorem.  Theorems with an operator as a
parameter, which the library uses for induction and for recursive functions,
cannot be instantiated by the installed provers; that is why the modules above
do induction about sets.

## Not modelled yet, and why

- `waitAll` of the pool of threads, `DefaultChatHandler`,
  `handle_http_request_with_callback`, `clear` and `is_empty` of the ring
  buffer: nobody calls them.  `waitAll` polls the length of the queue without
  the mutex and does not see tasks that run; the destructor does not use it.
- A failed `io_uring_submit` in the callback, whose result is only printed, is
  a fault of `Server`; that the answer is then late is plain, and `ServerLive`
  leaves it out.
- `pop_task` and `stop` of the main-thread queue: nobody calls them.
- Console output, logging: no state that the properties are about.
- That the number of a closed listening socket is closed a second time by the
  destructor: nothing else opens a descriptor between the two.
- `time_clock/time.h`: an empty stub.
- `dele/`, `build/`, `html/`: not compiled, generated, or data.

## Plan

Done: the event loop, the submission ring, both memory pools and the layer
above them, the bytes of a connection, the pool of threads and the program
around it, each with its proofs.  Next, in this order:

1. What the composition of the modules relies on: that one job of
   `HttpConnection` may be one step follows from `WorkerExclusive`, and that
   using the queue is one step, up to a race, from `QueueRefinement`; both as
   refinements instead of remarks.
2. That the parts outlive their users in terms of `UringServer`'s places, not
   only `Program`'s.
3. `HttpConnection` under the interleaving of `UringServer`, with a submission
   queue that is full.
