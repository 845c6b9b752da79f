--------------------------- MODULE HttpConnection ---------------------------
(***************************************************************************)
(* What happens to the bytes of one connection object: how requests are    *)
(* found in the read buffer (src/src/http_complete.cpp, taskHander.h), how *)
(* the rest of an incomplete one is read into an extra buffer              *)
(* (dispatcher.h, uring_server.cpp), and how answers get into the write    *)
(* buffer and out of it.                                                   *)
(*                                                                         *)
(* Bytes come in units: the first unit of a request is its request line    *)
(* and headers up to the blank line, the second the blank line, the others *)
(* its body.  A unit is <<r, i>>, unit i of the r-th request, whose kind   *)
(* is sent[r].  The object is used by one client after the other and keeps *)
(* its buffers, as objects of the slab pool do.  UringServer shows that    *)
(* one thread at a time works on a connection, so a worker's job is one    *)
(* step, and what happens when the submission queue is full.               *)
(***************************************************************************)
EXTENDS RingBuffer, BuddyPool, Sequences, FiniteSets, FiniteSetsExt, SequencesExt

CONSTANTS
    BodyLen,      \* units of the body of a POST
    AnswerSizes,  \* units that an answer may have
    ErrorSizes,   \* units by which a negative result, read as a size_t, is
                  \* short of a multiple of Capacity
    WordSize,     \* size_t counts modulo this (2^64)
    Manners,      \* of clients
    Kinds,        \* of requests
    MaxRequests, MaxSessions, MaxErrors   \* bounds

ASSUME UnitsAssumption ==
    /\ BodyLen \in Nat \ {0} /\ AnswerSizes \subseteq Nat \ {0}
    /\ ErrorSizes \subseteq 1 .. Capacity - 1
    /\ WordSize \in Nat \ {0} /\ WordSize % Capacity = 0
ASSUME ClientsAssumption ==
    /\ Manners \subseteq {"orderly", "loose"}
    /\ Kinds \subseteq {"get", "post", "bad", "chunked", "file", "foreign"}
    /\ MaxRequests \in Nat /\ MaxSessions \in Nat /\ MaxErrors \in Nat

\* "bad" has a request line that does not parse, "chunked" says so in a
\* header, "file" starts with FILE, "foreign" is claimed by no handler.
Size(kind) == IF kind = "post" THEN 2 + BodyLen ELSE 2
Request(r, kind) == [i \in 1 .. Size(kind) |-> <<r, i>>]
Answer(r, size) == [j \in 1 .. size |-> <<r, j, size>>]

Blank == <<0, 0>>       \* zero bytes, or bytes that mean nothing
StrayEnd == <<0, 2>>    \* bytes behind the end of a buffer that happen to
                        \* look like a blank line
Outside == {Blank, StrayEnd}

Units == ((1 .. MaxRequests) \X (1 .. 2 + BodyLen)) \cup Outside
VARIABLES
    op,       \* what the connection waits for
    rb, rmem, \* read_buffer: indices and memory
    wb, wmem, \* write_buffer
    parse,    \* parse_result: "more" or "complete"
    need,     \* bytes_NO_read
    extra,    \* extra_buffer and what is in it; <<>> is nullptr
    free,     \* the free blocks of the buffer pool
    client,   \* the client: its manner, whether it is gone, its first request
    sent,     \* kinds of the requests sent so far
    net,      \* units on their way to the server
    got,      \* units that the client has received
    left,     \* what is left of the bounds
    dropped,  \* history: requests whose answer was thrown away
    held,     \* history: the blocks that the buffer pool has given
    faults    \* history: whether a read or a write has failed

buffers == <<rb, rmem, wb, wmem, parse, need, extra, free, held>>
vars == <<op, buffers, client, sent, net, got, left, dropped, faults>>

TypeOK ==
    /\ op \in {"none", "read", "main", "extra", "work", "write", "close"}
    /\ rb \in Buffers /\ wb \in Buffers
    /\ rmem \in [Cells -> Units]
    /\ \A i \in Cells : wmem[i] = Blank \/ wmem[i][1] \in 0 .. MaxRequests
    /\ parse \in {"more", "complete"}
    /\ need \in 0 .. WordSize - 1
    /\ extra \in Seq(Units)
    /\ client \in [manner : Manners, gone : BOOLEAN, first : Nat]
    /\ sent \in Seq(Kinds) /\ net \in Seq(Units)
    /\ left \in [sessions : Nat, errors : Nat]
    /\ dropped \subseteq Nat
    /\ faults \subseteq {"read", "write"}

Init ==
    /\ op = "none"
    /\ rb = EmptyBuffer /\ wb = EmptyBuffer
    /\ rmem = [i \in Cells |-> Blank] /\ wmem = [i \in Cells |-> Blank]
    /\ parse = "more" /\ need = 0 /\ extra = <<>>
    /\ free = AllFree /\ held = <<>>
    /\ client \in [manner : Manners, gone : {TRUE}, first : {1}]
    /\ sent = <<>> /\ net = <<>> /\ got = <<>>
    /\ left = [sessions |-> MaxSessions, errors |-> MaxErrors]
    /\ dropped = {} /\ faults = {}

---------------------------------------------------------------------------
(* Reading requests. *)

\* The readable part as the code sees it: it takes it for one piece, and
\* reads on behind the end of the memory, where g is found.
View(mem, b, g) ==
    [i \in 1 .. Readable(b) |->
        IF b.head + i - 1 \in Cells THEN mem[b.head + i - 1] ELSE g]

KindOf(u) == IF u[1] \in DOMAIN sent THEN sent[u[1]] ELSE "none"

\* Where the first blank line is, 0 if there is none.
HeaderEnd(v) ==
    LET ends == {i \in DOMAIN v : v[i][2] = 2}
    IN IF ends = {} THEN 0 ELSE Min(ends)

\* A header of that kind of request is found before the blank line.
HeaderOf(v, kind) ==
    \E i \in 1 .. HeaderEnd(v) : v[i][2] = 1 /\ KindOf(v[i]) = kind

Total(v) == HeaderEnd(v) + (IF HeaderOf(v, "post") THEN BodyLen ELSE 0)

\* is_complete_message: COMPLETE or not, and what becomes of bytes_NO_read.
Complete(v) ==
    /\ HeaderEnd(v) > 0
    /\ IF HeaderOf(v, "post") THEN Len(v) >= Total(v) ELSE ~HeaderOf(v, "chunked")
NeedAfter(v) ==
    IF HeaderEnd(v) > 0 /\ HeaderOf(v, "post")
    THEN (WordSize + Total(v) - Len(v)) % WordSize ELSE need

\* The handler that claims the bytes.
Handler(v) ==
    IF v = <<>> \/ v[1][2] # 1 THEN "none"
    ELSE CASE KindOf(v[1]) \in {"get", "post", "bad", "chunked"} -> "http"
           [] KindOf(v[1]) = "file" -> "file"
           [] OTHER -> "none"

\* is_parse_complete of that handler, which for HTTP trusts parse_result.
IsParsed(v, p) ==
    IF Handler(v) = "http" THEN p = "complete" \/ Complete(v) ELSE Last(v)[2] = 2

\* Mutant: a request that ends with the buffer is not complete.
DispatchedTooLate(v, p) ==
    IF Handler(v) = "none" THEN [op |-> "read", parse |-> p, need |-> need]
    ELSE [op |-> IF IsParsed(v, p) /\ Len(v) > Total(v) THEN "work" ELSE "main",
          parse |-> IF IsParsed(v, p) THEN "complete" ELSE p,
          need |-> IF Handler(v) = "http" /\ p # "complete" THEN NeedAfter(v)
                   ELSE need]

\* dispatch(): to the thread pool, to the main-thread queue, or back.
Dispatched(v, p) ==
    IF Handler(v) = "none" THEN [op |-> "read", parse |-> p, need |-> need]
    ELSE [op |-> IF IsParsed(v, p) THEN "work" ELSE "main",
          parse |-> IF IsParsed(v, p) THEN "complete" ELSE p,
          need |-> IF Handler(v) = "http" /\ p # "complete" THEN NeedAfter(v)
                   ELSE need]

\* Mutant: what came of the rest is subtracted.
HandleReadCounts(n, mem) ==
    \E g \in Outside :
       IF extra # <<>> /\ n # need
       THEN /\ op' = "read" /\ need' = (WordSize + need - n) % WordSize
            /\ UNCHANGED <<rb, parse>>
       ELSE LET b == IF extra # <<>> THEN rb ELSE Wrote(rb, n)
                d == Dispatched(View(mem, b, g),
                                IF extra # <<>> THEN "complete" ELSE parse)
            IN rb' = b /\ op' = d.op /\ parse' = d.parse /\ need' = d.need

\* handle_read_event for n > 0: while there is an extra buffer, only a read
\* of the expected size counts.
HandleRead(n, mem) ==
    \E g \in Outside :
       IF extra # <<>> /\ n # need
       THEN op' = "read" /\ UNCHANGED <<rb, parse, need>>
       ELSE LET b == IF extra # <<>> THEN rb ELSE Wrote(rb, n)
                d == Dispatched(View(mem, b, g),
                                IF extra # <<>> THEN "complete" ELSE parse)
            IN rb' = b /\ op' = d.op /\ parse' = d.parse /\ need' = d.need

\* How much of what is there a read of that size takes.
Portions(size) ==
    LET most == Min({size, Len(net)})
    IN IF client.manner = "orderly" THEN {most} ELSE 1 .. most

ReadData ==
    /\ op = "read" /\ net # <<>> /\ Writable(rb) > 0
    /\ \E n \in Portions(Writable(rb)) :
         /\ rmem' = [i \in Cells |-> IF i \in rb.tail .. rb.tail + n - 1
                                     THEN net[i - rb.tail + 1] ELSE rmem[i]]
         /\ net' = SubSeq(net, n + 1, Len(net))
         /\ HandleRead(n, rmem')
    /\ UNCHANGED <<wb, wmem, extra, free, held, client, sent, got, left, dropped, faults>>

\* A read returns 0: the client is gone, or no room was offered.
ReadEof ==
    /\ op = "read" /\ (Writable(rb) = 0 \/ (client.gone /\ net = <<>>))
    /\ op' = "close"
    /\ UNCHANGED <<buffers, client, sent, net, got, left, dropped, faults>>

\* A read fails, into whichever buffer: the result is taken for a very large
\* count.
ReadFails ==
    /\ op \in {"read", "extra"} /\ left.errors > 0
    /\ left' = [left EXCEPT !.errors = @ - 1]
    /\ faults' = faults \cup {"read"}
    /\ \E e \in ErrorSizes : HandleRead(WordSize - e, rmem)
    /\ UNCHANGED <<rmem, wb, wmem, extra, free, held, client, sent, net, got, dropped>>

\* The task of the main-thread queue: a buffer for the rest, and a read
\* into it.  The buffer is cleared; there may be none.
MainTask ==
    /\ op = "main"
    /\ op' = "extra"
    /\ LET a == AllocateBuffer(free, need)
       IN /\ free' = a.free
          /\ IF a.block = NoBlock
             THEN extra' = <<>> /\ UNCHANGED held
             ELSE extra' = [i \in 1 .. need |-> Blank] /\ held' = Append(held, a.block)
    /\ UNCHANGED <<rb, rmem, wb, wmem, parse, need, client, sent, net, got, left,
                   dropped, faults>>

ExtraData ==
    /\ op = "extra" /\ extra # <<>> /\ net # <<>>
    /\ \E n \in Portions(need) :
         /\ extra' = SubSeq(net, 1, n) \o SubSeq(extra, n + 1, Len(extra))
         /\ net' = SubSeq(net, n + 1, Len(net))
         /\ HandleRead(n, rmem)
    /\ UNCHANGED <<rmem, wb, wmem, free, held, client, sent, got, left, dropped, faults>>

\* A read of length 0 returns 0 at once.
ExtraEof ==
    /\ op = "extra" /\ (need = 0 \/ (client.gone /\ net = <<>>))
    /\ op' = "close"
    /\ UNCHANGED <<buffers, client, sent, net, got, left, dropped, faults>>

\* A read into nullptr fails when there is something to read.
ExtraFaults ==
    /\ op = "extra" /\ extra = <<>> /\ need > 0 /\ net # <<>>
    /\ faults' = faults \cup {"read"}
    /\ \E e \in ErrorSizes : HandleRead(WordSize - e, rmem)
    /\ UNCHANGED <<rmem, wb, wmem, extra, free, held, client, sent, net, got, left, dropped>>

---------------------------------------------------------------------------
(* Answering. *)

Parses(data) ==
    /\ KindOf(data[1]) # "bad" /\ HeaderEnd(data) > 0 /\ Len(data) >= Total(data)

\* send_simple_response: n units for request r, if they fit in one piece.
Respond(r, n) ==
    IF Writable(wb) >= n
    THEN /\ wmem' = [i \in Cells |-> IF i \in wb.tail .. wb.tail + n - 1
                                     THEN Answer(r, n)[i - wb.tail + 1] ELSE wmem[i]]
         /\ wb' = Wrote(wb, n)
         /\ UNCHANGED dropped
    ELSE dropped' = dropped \cup {r} /\ UNCHANGED <<wb, wmem>>

\* handle_message: nothing is changed when the request does not parse.
HandleMessage(v) ==
    LET data == v \o extra
    IN IF ~Parses(data)
       THEN UNCHANGED <<rb, wb, wmem, parse, need, extra, dropped>>
       ELSE /\ \E n \in AnswerSizes : Respond(v[1][1], n)
            /\ parse' = "more"
            /\ extra' = <<>>
            /\ need' = IF extra # <<>> THEN 0 ELSE need
            /\ rb' = Consumed(rb, Total(data))

\* A worker's job and its callback.  The file handler does nothing.
Work ==
    /\ op = "work"
    /\ \E g \in Outside :
         LET v == View(rmem, rb, g)
         IN IF Handler(v) = "http" THEN HandleMessage(v)
            ELSE UNCHANGED <<rb, wb, wmem, parse, need, extra, dropped>>
    /\ op' = IF Readable(wb') > 0 THEN "write" ELSE "read"
    /\ UNCHANGED <<rmem, free, held, client, sent, net, got, left, faults>>

\* Mutant: everything counts as written.
WriteDataAll ==
    /\ op = "write"
    /\ \E n \in 1 .. Readable(wb), g \in Outside :
         /\ got' = got \o SubSeq(View(wmem, wb, g), 1, n)
         /\ wb' = Consumed(wb, Readable(wb))
    /\ op' = "read"
    /\ UNCHANGED <<rb, rmem, wmem, parse, need, extra, free, held, client, sent, net,
                   left, dropped, faults>>

\* handle_write_event, after n units were written.
WriteData ==
    /\ op = "write"
    /\ \E n \in 1 .. Readable(wb), g \in Outside :
         /\ got' = got \o SubSeq(View(wmem, wb, g), 1, n)
         /\ wb' = Consumed(wb, n)
    /\ op' = IF Readable(wb') > 0 THEN "write" ELSE "read"
    /\ UNCHANGED <<rb, rmem, wmem, parse, need, extra, free, held, client, sent, net,
                   left, dropped, faults>>

\* A write fails: the object goes back to the pool as it is.
WriteFails ==
    /\ op = "write" /\ left.errors > 0
    /\ left' = [left EXCEPT !.errors = @ - 1]
    /\ faults' = faults \cup {"write"}
    /\ op' = "none"
    /\ UNCHANGED <<buffers, client, sent, net, got, dropped>>

Closed ==
    /\ op = "close"
    /\ op' = "none"
    /\ UNCHANGED <<buffers, client, sent, net, got, left, dropped, faults>>

---------------------------------------------------------------------------
(* Clients. *)

Answered == {r \in DOMAIN sent : \E i \in DOMAIN got : got[i][1] = r /\ got[i][2] = got[i][3]}

\* The object is acquired for the next client.
Accept ==
    /\ op = "none" /\ left.sessions > 0
    /\ op' = "read"
    /\ left' = [left EXCEPT !.sessions = @ - 1]
    /\ client' = [client EXCEPT !.gone = FALSE, !.first = Len(sent) + 1]
    /\ net' = <<>> /\ got' = <<>>
    /\ UNCHANGED <<buffers, sent, dropped, faults>>

\* An orderly client sends a request as a whole when it has the answer to
\* the last one; the units of a loose client come in any portions.
ClientSends(kind) ==
    /\ op # "none" /\ ~client.gone /\ Len(sent) < MaxRequests
    /\ client.manner = "orderly" =>
          net = <<>> /\ client.first .. Len(sent) \subseteq Answered
    /\ sent' = Append(sent, kind)
    /\ net' = net \o Request(Len(sent) + 1, kind)
    /\ UNCHANGED <<op, buffers, client, got, left, dropped, faults>>

ClientCloses ==
    /\ op # "none" /\ ~client.gone
    /\ client' = [client EXCEPT !.gone = TRUE]
    /\ UNCHANGED <<op, buffers, sent, net, got, left, dropped, faults>>

ServerStep ==
    \/ ReadData \/ ReadEof \/ MainTask \/ ExtraData \/ ExtraEof \/ ExtraFaults
    \/ Work \/ WriteData \/ Closed

Next ==
    \/ ServerStep \/ ReadFails \/ WriteFails
    \/ Accept \/ ClientCloses \/ \E kind \in Kinds : ClientSends(kind)

Spec == Init /\ [][Next]_vars

\* Threads run, and the kernel completes what it can: reads when there is
\* something to read or the client is gone, writes because the client reads.
\* Nobody has to send or to close.
FairSpec == Spec /\ WF_vars(ServerStep)

---------------------------------------------------------------------------
\* The cells between head and tail of the write buffer.
Unwritten == [i \in 1 .. Readable(wb) |-> wmem[(wb.head + i - 1) % Capacity]]

\* What a client receives is whole answers, one after the other: none is cut
\* off, overtaken or mixed with another, however writes are split.
AnswersWhole ==
    "write" \notin faults =>
        LET s == got \o Unwritten
        IN /\ \A i \in DOMAIN s :
                IF s[i][2] = 1 THEN i = 1 \/ s[i - 1][2] = s[i - 1][3]
                ELSE i > 1 /\ s[i] = [s[i - 1] EXCEPT ![2] = @ + 1]
           /\ s # <<>> => Last(s)[2] = Last(s)[3]

\* A write never starts from a part of the buffer that goes around its end:
\* the kernel would send what lies behind it.
AnswersInOnePiece == "write" \notin faults => OnePiece(wb)

\* A client is never sent the answer to an earlier request after that to a
\* later one.
AnswersInOrder ==
    faults = {} => \A i, j \in DOMAIN got : i < j => got[i][1] <= got[j][1]

\* handle_message reads bytes_NO_read bytes from the extra buffer: the buffer
\* has that size from its allocation until it is forgotten, through failed
\* reads and new clients.
ExtraCovers == extra # <<>> => Len(extra) = need

\* The blocks that were given and those that are free lie apart from each
\* other inside the pool, and the extra buffer's is as large as what is read
\* into it.
BlocksApart ==
    /\ LieApart(free, ToSet(held)) /\ IsInjective(held)
    /\ \A b \in Listed(free) \cup ToSet(held) : Cover(b) \subseteq 0 .. PoolSize - 1
    /\ extra # <<>> => Last(held).size >= Len(extra)

\* A request that is there as a whole and fits into the read buffer before
\* its end is answered, unless the answer is dropped, a read or write fails,
\* or the client leaves.
Ready(r) ==
    /\ op = "read" /\ extra = <<>> /\ parse = "more" /\ faults = {}
    /\ Readable(rb) = 0 /\ client.manner = "orderly"
    /\ r \in DOMAIN sent /\ sent[r] \in {"get", "post"}
    /\ net = Request(r, sent[r]) /\ Len(net) <= Writable(rb)
Served ==
    \A r \in 1 .. MaxRequests :
        Ready(r) ~> r \in Answered \/ r \in dropped \/ faults # {} \/ client.gone

\* "After processing, remove the data that were processed from the read
\* buffer" (http_complete.cpp:360).
ProcessedIsRemoved ==
    faults = {} =>
        \A i \in 1 .. Readable(rb) :
            rmem[(rb.head + i - 1) % Capacity][1] \notin Answered

\* "The message is incomplete, more data must be read" (dispatcher.h:133):
\* the server does not close a connection whose client is there.
ClosedByClientOnly == op = "close" => client.gone
=============================================================================
