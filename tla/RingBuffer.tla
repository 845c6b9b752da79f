----------------------------- MODULE RingBuffer -----------------------------
(***************************************************************************)
(* The indices of UringRingBuffer (src/include/uring_types.h): what each   *)
(* member function computes from head and tail.  The memory belongs to the *)
(* users of the buffer, who get plain pointers to it: the writer fills it  *)
(* from the tail on, the reader looks at it from the head on, as if the    *)
(* readable part were one piece.                                           *)
(***************************************************************************)
EXTENDS Naturals

CONSTANT Capacity  \* URING_BUFFER_SIZE

ASSUME CapacityAssumption == Capacity \in Nat /\ Capacity > 1

Cells == 0 .. Capacity - 1
Buffers == [head : Cells, tail : Cells]

EmptyBuffer == [head |-> 0, tail |-> 0]

\* Mutant: all free cells, those at the start of the memory included.
WritableAround(b) ==
    IF b.tail >= b.head THEN Capacity - 1 - (b.tail - b.head)
                        ELSE b.head - b.tail - 1

\* get_writable_size: the free cells from the tail on, in one piece.
Writable(b) ==
    IF b.tail >= b.head THEN Capacity - b.tail - (IF b.head = 0 THEN 1 ELSE 0)
                        ELSE b.head - b.tail - 1

\* Mutant: an empty buffer is taken for a full one.
ReadableWhenEqual(b) ==
    IF b.tail > b.head THEN b.tail - b.head ELSE Capacity - b.head + b.tail

\* get_readable_size: around the end if need be.
Readable(b) ==
    IF b.tail >= b.head THEN b.tail - b.head ELSE Capacity - b.head + b.tail

\* write_data: refused when it would make the buffer look empty.
Wrote(b, n) ==
    IF n > 0 /\ (b.tail + n) % Capacity = b.head THEN b
    ELSE [b EXCEPT !.tail = (@ + n) % Capacity]

\* Mutant: the head is not brought back to the start.
ConsumedPastEnd(b, n) ==
    IF n > Readable(b) THEN b ELSE [b EXCEPT !.head = @ + n]

\* read_data: refused when there is less than that.
Consumed(b, n) ==
    IF n > Readable(b) THEN b ELSE [b EXCEPT !.head = (@ + n) % Capacity]

\* The cells between head and tail lie in one piece.
OnePiece(b) == b.head + Readable(b) <= Capacity
=============================================================================
