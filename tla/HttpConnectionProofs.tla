------------------------ MODULE HttpConnectionProofs ------------------------
(***************************************************************************)
(* For buffers of every capacity, requests and answers of every size and   *)
(* every bound: the write buffer's readable part is one piece whenever a   *)
(* write starts, and the extra buffer has the size that is read from it.   *)
(* As long as no write has failed the client gets whole answers, and as    *)
(* long as no read has failed either it gets them in the order of its      *)
(* requests.  The extra buffers lie apart in the memory of every size that *)
(* they come from, and are as large as what is read into them.             *)
(***************************************************************************)
EXTENDS HttpConnection, BuddyPoolProofs

---------------------------------------------------------------------------
(* The ring buffer. *)

LEMMA EmptyFacts ==
    /\ EmptyBuffer \in Buffers
    /\ \A b \in Buffers : Readable(b) \in Nat /\ (Readable(b) = 0 <=> b.head = b.tail)
BY CapacityAssumption DEF EmptyBuffer, Buffers, Cells, Readable

\* What is offered to a writer lies inside the memory, so that neither a read
\* nor memcpy writes past its end.
LEMMA WritableInside ==
    ASSUME NEW b \in Buffers
    PROVE  Writable(b) \in Nat /\ b.tail + Writable(b) <= Capacity
BY CapacityAssumption DEF Writable, Buffers, Cells

\* What is written from an empty buffer's tail on, if there is room, is all
\* there is, in one piece.
LEMMA WroteOnePiece ==
    ASSUME NEW b \in Buffers, NEW n \in Nat, b.head = b.tail, n <= Writable(b)
    PROVE  Wrote(b, n) \in Buffers /\ OnePiece(Wrote(b, n)) /\ Readable(Wrote(b, n)) = n
<1>1. /\ b.head \in 0 .. Capacity - 1 /\ b.tail = b.head
      /\ n <= Capacity - b.tail - (IF b.head = 0 THEN 1 ELSE 0)
  BY CapacityAssumption DEF Writable, Buffers, Cells
<1>2. (b.tail + n) % Capacity = IF b.tail + n = Capacity THEN 0 ELSE b.tail + n
  BY <1>1, CapacityAssumption
<1>3. Wrote(b, n) = [b EXCEPT !.tail = (@ + n) % Capacity]
  BY <1>1, <1>2, CapacityAssumption DEF Wrote
<1>4. /\ Wrote(b, n) \in Buffers /\ Wrote(b, n).head = b.head
      /\ Wrote(b, n).tail = (b.tail + n) % Capacity
  BY <1>1, <1>2, <1>3, CapacityAssumption DEF Buffers, Cells
<1>5. CASE b.tail + n = Capacity
  <2>1. /\ Wrote(b, n).tail = 0 /\ Wrote(b, n).head = b.head
        /\ b.head \in 1 .. Capacity - 1 /\ n = Capacity - b.head
    BY <1>1, <1>2, <1>4, <1>5, CapacityAssumption
  <2>2. Readable(Wrote(b, n)) = Capacity - b.head
    BY <2>1, CapacityAssumption DEF Readable
  <2> QED  BY <1>4, <2>1, <2>2, CapacityAssumption DEF OnePiece
<1>6. CASE b.tail + n # Capacity
  <2>1. Wrote(b, n).tail = b.head + n /\ Wrote(b, n).head = b.head
    BY <1>1, <1>2, <1>4, <1>6, CapacityAssumption
  <2> QED  BY <1>1, <1>4, <1>6, <2>1, CapacityAssumption DEF OnePiece, Readable
<1> QED  BY <1>5, <1>6

\* Taking from a buffer whose readable part is one piece leaves one piece.
LEMMA ConsumedOnePiece ==
    ASSUME NEW b \in Buffers, NEW n \in Nat, n <= Readable(b), OnePiece(b)
    PROVE  /\ Consumed(b, n) \in Buffers /\ OnePiece(Consumed(b, n))
           /\ Readable(Consumed(b, n)) = Readable(b) - n
<1>1. /\ b.head \in 0 .. Capacity - 1 /\ b.tail \in 0 .. Capacity - 1
      /\ b.head + n <= Capacity
  BY EmptyFacts, CapacityAssumption DEF Buffers, Cells, OnePiece
<1>2. (b.head + n) % Capacity = IF b.head + n = Capacity THEN 0 ELSE b.head + n
  BY <1>1, CapacityAssumption
<1>3. Consumed(b, n) = [b EXCEPT !.head = (@ + n) % Capacity]
  BY EmptyFacts DEF Consumed
<1>4. /\ Consumed(b, n) \in Buffers /\ Consumed(b, n).tail = b.tail
      /\ Consumed(b, n).head = (b.head + n) % Capacity
  BY <1>1, <1>2, <1>3, CapacityAssumption DEF Buffers, Cells
<1> QED  BY <1>1, <1>2, <1>4, CapacityAssumption DEF OnePiece, Readable

---------------------------------------------------------------------------
(* Units and where they are. *)

LEMMA RingTypes ==
    ASSUME NEW b \in Buffers, NEW n \in Int
    PROVE  Wrote(b, n) \in Buffers /\ Consumed(b, n) \in Buffers
<1>1. \A x \in Int : x % Capacity \in Cells
  BY CapacityAssumption DEF Cells
<1>2. b.head \in Int /\ b.tail \in Int
  BY CapacityAssumption DEF Buffers, Cells
<1>3. (b.tail + n) % Capacity \in Cells /\ (b.head + n) % Capacity \in Cells
  BY <1>1, <1>2
<1> QED  BY <1>3 DEF Wrote, Consumed, Buffers

LEMMA ViewType ==
    ASSUME NEW mem \in [Cells -> Units], NEW b \in Buffers, NEW g \in Outside
    PROVE  View(mem, b, g) \in Seq(Units) /\ Len(View(mem, b, g)) = Readable(b)
<1>1. Readable(b) \in Nat
  BY EmptyFacts
<1>2. View(mem, b, g) \in [1 .. Readable(b) -> Units]
  BY DEF View, Units
<1> QED  BY <1>1, <1>2, SeqDef

LEMMA UnitFacts ==
    ASSUME NEW u \in Units
    PROVE  u[1] \in 0 .. MaxRequests /\ u[2] \in Nat
BY UnitsAssumption, ClientsAssumption DEF Units, Outside, Blank, StrayEnd

LEMMA TotalType ==
    ASSUME NEW v \in Seq(Units)
    PROVE  HeaderEnd(v) \in Nat /\ Total(v) \in Nat
<1> DEFINE ends == {i \in DOMAIN v : v[i][2] = 2}
<1>1. ends \subseteq Nat
  OBVIOUS
<1>2. HeaderEnd(v) \in Nat
  <2>1. CASE ends = {}
    BY <2>1 DEF HeaderEnd
  <2>2. CASE ends # {}
    <3>1. Min(ends) \in ends
      BY <1>1, <2>2, MinIsLeast
    <3> QED  BY <1>1, <2>2, <3>1 DEF HeaderEnd
  <2> QED  BY <2>1, <2>2
<1> QED  BY <1>2, UnitsAssumption DEF Total

---------------------------------------------------------------------------
(* The invariant. *)

\* Outside of a write the write buffer is empty, and what is in it is one
\* piece; a failed write leaves bytes behind for the next client.
Piece ==
    "write" \notin faults =>
        OnePiece(wb) /\ (op # "write" => wb.head = wb.tail)

IInv == TypeOK /\ ExtraCovers /\ Piece

LEMMA DispatchedFacts ==
    ASSUME NEW v \in Seq(Units), NEW p \in {"more", "complete"},
           need \in 0 .. WordSize - 1
    PROVE  /\ Dispatched(v, p).op \in {"read", "work", "main"}
           /\ Dispatched(v, p).parse \in {"more", "complete"}
           /\ Dispatched(v, p).need \in 0 .. WordSize - 1
           /\ p = "complete" => Dispatched(v, p).need = need
<1>1. \A x \in Int : x % WordSize \in 0 .. WordSize - 1
  BY UnitsAssumption
<1>2. WordSize + Total(v) - Len(v) \in Int
  BY TotalType, UnitsAssumption
<1>3. NeedAfter(v) \in 0 .. WordSize - 1
  BY <1>1, <1>2 DEF NeedAfter
<1> QED  BY <1>3 DEF Dispatched

LEMMA HandleReadFacts ==
    ASSUME TypeOK, NEW n \in Int, NEW mem \in [Cells -> Units], HandleRead(n, mem)
    PROVE  /\ op' \in {"read", "work", "main"} /\ rb' \in Buffers
           /\ parse' \in {"more", "complete"} /\ need' \in 0 .. WordSize - 1
           /\ extra # <<>> => need' = need
<1>1. PICK g \in Outside : HandleRead(n, mem)!(g)
  BY DEF HandleRead
<1>2. CASE extra # <<>> /\ n # need
  BY <1>1, <1>2 DEF TypeOK
<1>3. CASE ~(extra # <<>> /\ n # need)
  <2> DEFINE b == IF extra # <<>> THEN rb ELSE Wrote(rb, n)
             p == IF extra # <<>> THEN "complete" ELSE parse
             d == Dispatched(View(mem, b, g), p)
  <2>1. rb' = b /\ op' = d.op /\ parse' = d.parse /\ need' = d.need
    BY <1>1, <1>3
  <2>2. b \in Buffers /\ p \in {"more", "complete"}
    BY RingTypes DEF TypeOK
  <2>3. View(mem, b, g) \in Seq(Units)
    BY <2>2, ViewType
  <2>4. /\ d.op \in {"read", "work", "main"} /\ d.parse \in {"more", "complete"}
        /\ d.need \in 0 .. WordSize - 1
        /\ p = "complete" => d.need = need
    BY <2>2, <2>3, DispatchedFacts DEF TypeOK
  <2> HIDE DEF d
  <2> QED  BY <2>1, <2>2, <2>4
<1> QED  BY <1>2, <1>3

LEMMA PortionsFacts ==
    ASSUME NEW size \in Nat \ {0}, net \in Seq(Units), net # <<>>,
           NEW n \in Portions(size)
    PROVE  n \in 1 .. size /\ n <= Len(net)
<1>1. Len(net) \in Nat \ {0}
  OBVIOUS
<1>2. {size, Len(net)} \subseteq Nat /\ {size, Len(net)} # {}
  BY <1>1
<1>3. /\ Min({size, Len(net)}) \in {size, Len(net)}
      /\ Min({size, Len(net)}) <= size /\ Min({size, Len(net)}) <= Len(net)
  BY <1>2, MinIsLeast
<1> QED  BY <1>1, <1>3 DEF Portions

LEMMA InitIInv == Init => IInv
<1> SUFFICES ASSUME Init
             PROVE  IInv
  OBVIOUS
<1>1. wb \in Buffers /\ OnePiece(wb) /\ wb.head = wb.tail
  BY CapacityAssumption DEF Init, EmptyBuffer, Buffers, Cells, OnePiece, Readable
<1>2. TypeOK
  <2>1. Blank \in Units
    BY DEF Units, Outside
  <2>2. PICK m \in Manners : client = [manner |-> m, gone |-> TRUE, first |-> 1]
    BY DEF Init
  <2> QED  BY <1>1, <2>1, <2>2, UnitsAssumption, ClientsAssumption DEF Init, TypeOK
<1> QED  BY <1>1, <1>2 DEF Init, IInv, ExtraCovers, Piece

\* A read into the read buffer, whatever its result.
LEMMA ReadStep ==
    ASSUME IInv, ReadData \/ ReadFails \/ ExtraFaults
    PROVE  IInv'
<1>1. TypeOK /\ op # "write"
  BY DEF IInv, ReadData, ReadFails, ExtraFaults
<1>2. CASE ReadData
  <2>1. PICK n \in Portions(Writable(rb)) :
          /\ rmem' = [i \in Cells |-> IF i \in rb.tail .. rb.tail + n - 1
                                      THEN net[i - rb.tail + 1] ELSE rmem[i]]
          /\ net' = SubSeq(net, n + 1, Len(net))
          /\ HandleRead(n, rmem')
    BY <1>2 DEF ReadData
  <2>2. Writable(rb) \in Nat \ {0} /\ net # <<>> /\ net \in Seq(Units)
    BY <1>1, <1>2, WritableInside DEF ReadData, TypeOK
  <2>3. n \in Nat /\ n <= Len(net)
    BY <2>2, PortionsFacts
  <2>4. rmem' \in [Cells -> Units]
    <3>1. rb.tail \in Nat /\ rmem \in [Cells -> Units]
      BY <1>1, CapacityAssumption DEF TypeOK, Buffers, Cells
    <3>2. ASSUME NEW i \in Cells, i \in rb.tail .. rb.tail + n - 1
          PROVE  net[i - rb.tail + 1] \in Units
      <4>1. i - rb.tail + 1 \in 1 .. Len(net)
        BY <2>2, <2>3, <3>1, <3>2
      <4> QED  BY <2>2, <4>1
    <3> QED  BY <2>1, <3>1, <3>2
  <2>5. net' \in Seq(Units)
    BY <2>1, <2>2, <2>3
  <2>6. /\ op' \in {"read", "work", "main"} /\ rb' \in Buffers
        /\ parse' \in {"more", "complete"} /\ need' \in 0 .. WordSize - 1
        /\ extra # <<>> => need' = need
    BY <1>1, <2>1, <2>3, <2>4, HandleReadFacts
  <2> QED  BY <1>1, <1>2, <2>4, <2>5, <2>6
           DEF ReadData, IInv, TypeOK, ExtraCovers, Piece, OnePiece
<1>3. CASE ReadFails \/ ExtraFaults
  <2>1. PICK e \in ErrorSizes : HandleRead(WordSize - e, rmem)
    BY <1>3 DEF ReadFails, ExtraFaults
  <2>2. WordSize - e \in Int /\ rmem \in [Cells -> Units]
    BY <1>1, UnitsAssumption, CapacityAssumption DEF TypeOK
  <2>3. /\ op' \in {"read", "work", "main"} /\ rb' \in Buffers
        /\ parse' \in {"more", "complete"} /\ need' \in 0 .. WordSize - 1
        /\ extra # <<>> => need' = need
    BY <1>1, <2>1, <2>2, HandleReadFacts
  <2>4. /\ UNCHANGED <<rmem, wb, wmem, extra, free, held, client, sent, net, got, dropped>>
        /\ faults' = faults \cup {"read"}
        /\ left' \in [sessions : Nat, errors : Nat]
    BY <1>1, <1>3 DEF ReadFails, ExtraFaults, TypeOK
  <2> QED  BY <1>1, <2>3, <2>4 DEF IInv, TypeOK, ExtraCovers, Piece, OnePiece
<1> QED  BY <1>2, <1>3

\* A buffer for the rest of a message: as large as what is missing, or none.
LEMMA MainStep ==
    ASSUME IInv, MainTask
    PROVE  IInv'
<1>1. TypeOK /\ need \in Nat /\ Blank \in Units
  BY UnitsAssumption DEF IInv, TypeOK, Units, Outside
<1>2. extra' = <<>> \/ extra' = [i \in 1 .. need |-> Blank]
  BY DEF MainTask
<1>3. extra' \in Seq(Units) /\ (extra' # <<>> => Len(extra') = need)
  <2>1. CASE extra' = <<>>
    BY <2>1
  <2>2. CASE extra' = [i \in 1 .. need |-> Blank]
    <3>1. extra' \in [1 .. need -> Units]
      BY <1>1, <2>2
    <3> QED  BY <1>1, <3>1, SeqDef
  <2> QED  BY <1>2, <2>1, <2>2
<1>4. op = "main" /\ op' = "extra"
      /\ UNCHANGED <<rb, rmem, wb, wmem, parse, need, client, sent, net, got, left,
                     dropped, faults>>
  BY DEF MainTask
<1> QED  BY <1>1, <1>3, <1>4 DEF IInv, TypeOK, ExtraCovers, Piece, OnePiece

\* A read into the extra buffer leaves its size as it is.
LEMMA ExtraStep ==
    ASSUME IInv, ExtraData
    PROVE  IInv'
<1>1. /\ TypeOK /\ op = "extra" /\ extra # <<>> /\ net # <<>>
      /\ extra \in Seq(Units) /\ net \in Seq(Units) /\ Len(extra) = need
      /\ rmem \in [Cells -> Units]
  BY DEF IInv, TypeOK, ExtraCovers, ExtraData
<1>2. PICK n \in Portions(need) :
        /\ extra' = SubSeq(net, 1, n) \o SubSeq(extra, n + 1, Len(extra))
        /\ net' = SubSeq(net, n + 1, Len(net))
        /\ HandleRead(n, rmem)
  BY DEF ExtraData
<1>3. need \in Nat \ {0}
  BY <1>1
<1>4. n \in 1 .. need /\ n <= Len(net)
  BY <1>1, <1>3, PortionsFacts
<1>5. net' \in Seq(Units)
  BY <1>1, <1>2, <1>4
<1>6. SubSeq(net, 1, n) \in Seq(Units) /\ Len(SubSeq(net, 1, n)) = n
  BY <1>1, <1>4
<1>7. /\ SubSeq(extra, n + 1, Len(extra)) \in Seq(Units)
      /\ Len(SubSeq(extra, n + 1, Len(extra))) = need - n
  BY <1>1, <1>3, <1>4
<1>8. extra' \in Seq(Units) /\ Len(extra') = need
  <2> DEFINE new == SubSeq(net, 1, n)
             rest == SubSeq(extra, n + 1, Len(extra))
  <2>1. extra' = new \o rest
    BY <1>2
  <2>2. new \in Seq(Units) /\ Len(new) = n
    BY <1>6
  <2>3. rest \in Seq(Units) /\ Len(rest) = need - n
    BY <1>7
  <2> HIDE DEF new, rest
  <2>4. new \o rest \in Seq(Units) /\ Len(new \o rest) = Len(new) + Len(rest)
    BY <2>2, <2>3
  <2>5. n + (need - n) = need
    BY <1>3, <1>4
  <2> QED  BY <2>1, <2>2, <2>3, <2>4, <2>5
<1>9. /\ op' \in {"read", "work", "main"} /\ rb' \in Buffers
      /\ parse' \in {"more", "complete"} /\ need' \in 0 .. WordSize - 1
      /\ need' = need
  BY <1>1, <1>2, <1>4, HandleReadFacts
<1>10. UNCHANGED <<rmem, wb, wmem, client, sent, got, left, dropped, faults>>
  BY DEF ExtraData
<1> QED  BY <1>1, <1>5, <1>8, <1>9, <1>10
         DEF IInv, TypeOK, ExtraCovers, Piece, OnePiece

\* An answer is written where there is room for it behind the tail.
LEMMA RespondFacts ==
    ASSUME TypeOK, NEW r \in 0 .. MaxRequests, NEW n \in AnswerSizes, Respond(r, n)
    PROVE  /\ wb' \in Buffers /\ dropped' \subseteq Nat
           /\ \A i \in Cells : wmem'[i] = Blank \/ wmem'[i][1] \in 0 .. MaxRequests
           /\ wb.head = wb.tail => OnePiece(wb')
<1>1. n \in Nat \ {0} /\ r \in Nat
  BY UnitsAssumption, ClientsAssumption
<1>2. wb \in Buffers /\ wb.tail \in Nat /\ (wb.head = wb.tail => OnePiece(wb))
  BY CapacityAssumption DEF TypeOK, Buffers, Cells, OnePiece, Readable
<1>3. CASE Writable(wb) >= n
  <2>1. /\ wmem' = [i \in Cells |-> IF i \in wb.tail .. wb.tail + n - 1
                                    THEN Answer(r, n)[i - wb.tail + 1] ELSE wmem[i]]
        /\ wb' = Wrote(wb, n) /\ dropped' = dropped
    BY <1>3 DEF Respond
  <2>2. n <= Writable(wb)
    BY <1>1, <1>2, <1>3, WritableInside
  <2>3. wb' \in Buffers /\ (wb.head = wb.tail => OnePiece(wb'))
    BY <1>1, <1>2, <2>1, <2>2, RingTypes, WroteOnePiece
  <2>4. ASSUME NEW i \in Cells
        PROVE  wmem'[i] = Blank \/ wmem'[i][1] \in 0 .. MaxRequests
    <3>1. CASE i \in wb.tail .. wb.tail + n - 1
      <4>1. i - wb.tail + 1 \in 1 .. n
        BY <1>1, <1>2, <3>1
      <4> QED  BY <2>1, <3>1, <4>1 DEF Answer
    <3>2. CASE i \notin wb.tail .. wb.tail + n - 1
      BY <2>1, <3>2 DEF TypeOK
    <3> QED  BY <3>1, <3>2
  <2> QED  BY <2>1, <2>3, <2>4 DEF TypeOK
<1>4. CASE ~(Writable(wb) >= n)
  BY <1>1, <1>2, <1>4 DEF Respond, TypeOK
<1> QED  BY <1>3, <1>4

LEMMA HandleMessageFacts ==
    ASSUME TypeOK, NEW v \in Seq(Units), v # <<>>, HandleMessage(v)
    PROVE  /\ wb' \in Buffers /\ rb' \in Buffers /\ dropped' \subseteq Nat
           /\ \A i \in Cells : wmem'[i] = Blank \/ wmem'[i][1] \in 0 .. MaxRequests
           /\ parse' \in {"more", "complete"} /\ need' \in 0 .. WordSize - 1
           /\ extra' \in Seq(Units)
           /\ extra' # <<>> => need' = need /\ extra' = extra
           /\ wb.head = wb.tail => OnePiece(wb')
<1> DEFINE data == v \o extra
<1>1. data \in Seq(Units)
  BY DEF TypeOK
<1>2. CASE ~Parses(data)
  <2>1. UNCHANGED <<rb, wb, wmem, parse, need, extra, dropped>>
    BY <1>2 DEF HandleMessage
  <2>2. wb.head = wb.tail => OnePiece(wb)
    BY CapacityAssumption DEF TypeOK, Buffers, Cells, OnePiece, Readable
  <2> QED  BY <2>1, <2>2 DEF TypeOK, OnePiece
<1>3. CASE Parses(data)
  <2>1. PICK n \in AnswerSizes : Respond(v[1][1], n)
    BY <1>3 DEF HandleMessage
  <2>2. /\ parse' = "more" /\ extra' = <<>>
        /\ need' = (IF extra # <<>> THEN 0 ELSE need)
        /\ rb' = Consumed(rb, Total(data))
    BY <1>3 DEF HandleMessage
  <2>3. v[1][1] \in 0 .. MaxRequests
    BY UnitFacts
  <2>4. rb' \in Buffers
    <3>1. Total(data) \in Int
      <4> HIDE DEF data
      <4>1. Total(data) \in Nat
        BY <1>1, TotalType
      <4> QED  BY <4>1
    <3> HIDE DEF data
    <3>2. Consumed(rb, Total(data)) \in Buffers
      BY <3>1, RingTypes DEF TypeOK
    <3> QED  BY <2>2, <3>2
  <2>5. extra' \in Seq(Units) /\ need' \in 0 .. WordSize - 1
    BY <2>2, UnitsAssumption DEF TypeOK
  <2> QED  BY <2>1, <2>2, <2>3, <2>4, <2>5, RespondFacts
<1> QED  BY <1>2, <1>3

\* A job starts from an empty write buffer, and a write follows if it leaves
\* something there.
LEMMA WorkStep ==
    ASSUME IInv, Work
    PROVE  IInv'
<1>1. TypeOK /\ op = "work" /\ ("write" \notin faults => wb.head = wb.tail)
      /\ (extra # <<>> => Len(extra) = need)
  BY DEF IInv, Work, Piece, ExtraCovers
<1>2. PICK g \in Outside :
        IF Handler(View(rmem, rb, g)) = "http" THEN HandleMessage(View(rmem, rb, g))
        ELSE UNCHANGED <<rb, wb, wmem, parse, need, extra, dropped>>
  BY DEF Work
<1>3. View(rmem, rb, g) \in Seq(Units)
  BY <1>1, ViewType DEF TypeOK
<1>4. /\ wb' \in Buffers /\ rb' \in Buffers /\ dropped' \subseteq Nat
      /\ \A i \in Cells : wmem'[i] = Blank \/ wmem'[i][1] \in 0 .. MaxRequests
      /\ parse' \in {"more", "complete"} /\ need' \in 0 .. WordSize - 1
      /\ extra' \in Seq(Units)
      /\ extra' # <<>> => need' = need /\ extra' = extra
      /\ wb.head = wb.tail => OnePiece(wb')
  <2>1. CASE Handler(View(rmem, rb, g)) = "http"
    <3>1. View(rmem, rb, g) # <<>>
      BY <2>1 DEF Handler
    <3> QED  BY <1>1, <1>2, <1>3, <2>1, <3>1, HandleMessageFacts
  <2>2. CASE Handler(View(rmem, rb, g)) # "http"
    <3>1. UNCHANGED <<rb, wb, wmem, parse, need, extra, dropped>>
      BY <1>2, <2>2
    <3>2. wb.head = wb.tail => OnePiece(wb)
      BY <1>1, CapacityAssumption DEF TypeOK, Buffers, Cells, OnePiece, Readable
    <3> QED  BY <1>1, <3>1, <3>2 DEF TypeOK, OnePiece
  <2> QED  BY <2>1, <2>2
<1>5. /\ op' = (IF Readable(wb') > 0 THEN "write" ELSE "read")
      /\ UNCHANGED <<rmem, client, sent, net, got, left, faults>>
  BY DEF Work
<1>6. op' # "write" => wb'.head = wb'.tail
  BY <1>4, <1>5, EmptyFacts
<1>7. op' \in {"read", "write"}
  BY <1>5
<1> QED  BY <1>1, <1>4, <1>5, <1>6, <1>7 DEF IInv, TypeOK, ExtraCovers, Piece, OnePiece

LEMMA WriteStep ==
    ASSUME IInv, WriteData
    PROVE  IInv'
<1>1. TypeOK /\ op = "write" /\ ("write" \notin faults => OnePiece(wb))
  BY DEF IInv, WriteData, Piece
<1>2. PICK n \in 1 .. Readable(wb) : wb' = Consumed(wb, n)
  BY DEF WriteData
<1>3. Readable(wb) \in Nat /\ n \in Nat /\ n <= Readable(wb) /\ wb \in Buffers
  BY <1>1, <1>2, EmptyFacts DEF TypeOK
<1>4. wb' \in Buffers /\ (OnePiece(wb) => OnePiece(wb'))
  BY <1>2, <1>3, RingTypes, ConsumedOnePiece
<1>5. /\ op' = (IF Readable(wb') > 0 THEN "write" ELSE "read")
      /\ UNCHANGED <<rb, rmem, wmem, parse, need, extra, free, held, client, sent,
                     net, left, dropped, faults>>
  BY DEF WriteData
<1>6. op' # "write" => wb'.head = wb'.tail
  BY <1>4, <1>5, EmptyFacts
<1>7. op' \in {"read", "write"}
  BY <1>5
<1> QED  BY <1>1, <1>4, <1>5, <1>6, <1>7 DEF IInv, TypeOK, ExtraCovers, Piece, OnePiece

LEMMA EndStep ==
    ASSUME IInv, ReadEof \/ ExtraEof \/ Closed \/ WriteFails
    PROVE  IInv'
<1>1. /\ UNCHANGED <<buffers, client, sent, net, got, dropped>>
      /\ op' \in {"close", "none"} /\ (op = "write" => "write" \in faults')
      /\ faults \subseteq faults' /\ faults' \subseteq {"read", "write"}
      /\ left' \in [sessions : Nat, errors : Nat]
  BY DEF IInv, TypeOK, ReadEof, ExtraEof, Closed, WriteFails
<1> QED  BY <1>1 DEF buffers, IInv, TypeOK, ExtraCovers, Piece, OnePiece

\* Clients change nothing but what is on its way; a new one finds the
\* buffers as the last one left them.
LEMMA ClientStep ==
    ASSUME IInv, Accept \/ ClientCloses \/ \E kind \in Kinds : ClientSends(kind)
    PROVE  IInv'
<1>1. TypeOK
  BY DEF IInv
<1>2. CASE Accept \/ ClientCloses
  <2>1. /\ UNCHANGED <<buffers, sent, dropped, faults>>
        /\ (op = "none" /\ op' = "read") \/ op' = op
        /\ net' = <<>> \/ net' = net
        /\ left' \in [sessions : Nat, errors : Nat]
    <3>1. CASE Accept
      BY <1>1, <3>1 DEF TypeOK, Accept
    <3>2. CASE ClientCloses
      BY <1>1, <3>2 DEF TypeOK, ClientCloses
    <3> QED  BY <1>2, <3>1, <3>2
  <2>2. client' \in [manner : Manners, gone : BOOLEAN, first : Nat]
    <3>1. Len(sent) + 1 \in Nat /\ client \in [manner : Manners, gone : BOOLEAN, first : Nat]
      BY <1>1 DEF TypeOK
    <3>2. \/ client' = [client EXCEPT !.gone = FALSE, !.first = Len(sent) + 1]
          \/ client' = [client EXCEPT !.gone = TRUE]
      BY <1>2 DEF Accept, ClientCloses
    <3> QED  BY <3>1, <3>2
  <2>3. net' \in Seq(Units) /\ op' \in {"none", "read", "main", "extra", "work", "write", "close"}
    <3>1. net \in Seq(Units) /\ <<>> \in Seq(Units)
      BY <1>1 DEF TypeOK
    <3>2. net' \in Seq(Units)
      BY <2>1, <3>1
    <3>3. op \in {"none", "read", "main", "extra", "work", "write", "close"}
      BY <1>1 DEF TypeOK
    <3> QED  BY <2>1, <3>2, <3>3
  <2>4. TypeOK'
    BY <1>1, <2>1, <2>2, <2>3 DEF buffers, TypeOK
  <2>5. ExtraCovers'
    BY <2>1 DEF buffers, IInv, ExtraCovers
  <2>6. Piece'
    BY <2>1 DEF buffers, IInv, Piece, OnePiece
  <2> QED  BY <2>4, <2>5, <2>6 DEF IInv
<1>3. ASSUME NEW kind \in Kinds, ClientSends(kind)
      PROVE  IInv'
  <2>1. Len(sent) + 1 \in 1 .. MaxRequests /\ sent' \in Seq(Kinds)
    BY <1>1, <1>3, ClientsAssumption DEF TypeOK, ClientSends
  <2>2. Request(Len(sent) + 1, kind) \in [1 .. Size(kind) -> Units] /\ Size(kind) \in Nat
    BY <2>1, UnitsAssumption DEF Request, Size, Units
  <2>3. Request(Len(sent) + 1, kind) \in Seq(Units)
    BY <2>2, SeqDef
  <2>4. net' \in Seq(Units)
    BY <1>1, <1>3, <2>3 DEF TypeOK, ClientSends
  <2>5. UNCHANGED <<op, buffers, client, got, left, dropped, faults>>
    BY <1>3 DEF ClientSends
  <2> QED  BY <2>1, <2>4, <2>5 DEF buffers, IInv, TypeOK, ExtraCovers, Piece, OnePiece
<1> QED  BY <1>2, <1>3

---------------------------------------------------------------------------
(* The theorems. *)

LEMMA Step == IInv /\ [Next]_vars => IInv'
<1> SUFFICES ASSUME IInv, [Next]_vars
             PROVE  IInv'
  OBVIOUS
<1>1. CASE ServerStep
  BY <1>1, ReadStep, EndStep, MainStep, ExtraStep, WorkStep, WriteStep DEF ServerStep
<1>2. CASE ReadFails \/ WriteFails
  BY <1>2, ReadStep, EndStep
<1>3. CASE Accept \/ ClientCloses \/ \E kind \in Kinds : ClientSends(kind)
  BY <1>3, ClientStep
<1>4. CASE UNCHANGED vars
  BY <1>4 DEF vars, buffers, IInv, TypeOK, ExtraCovers, Piece, OnePiece
<1> QED  BY <1>1, <1>2, <1>3, <1>4 DEF Next

THEOREM Invariance == Spec => []IInv
<1> QED  BY InitIInv, Step, PTL DEF Spec

\* The types of the variables; in particular a failed read, whose result is
\* taken for a size, leaves indices that are inside the buffers.
THEOREM TypeCorrect == Spec => []TypeOK
<1>1. IInv => TypeOK
  BY DEF IInv
<1> QED  BY <1>1, Invariance, PTL

\* Whatever the sizes of answers are and however writes are split, what the
\* kernel is asked to write never runs past the end of the write buffer.
THEOREM WritesInOnePiece == Spec => []AnswersInOnePiece
<1>1. IInv => AnswersInOnePiece
  BY DEF IInv, Piece, AnswersInOnePiece
<1> QED  BY <1>1, Invariance, PTL

\* handle_message never reads past the end of the extra buffer, although it
\* takes its size from bytes_NO_read.
THEOREM ExtraSize == Spec => []ExtraCovers
<1>1. IInv => ExtraCovers
  BY DEF IInv
<1> QED  BY <1>1, Invariance, PTL

---------------------------------------------------------------------------
(* What is between head and tail.                                          *)

Part(mem, b) == [i \in 1 .. Readable(b) |-> mem[(b.head + i - 1) % Capacity]]

LEMMA Around ==
    ASSUME NEW x \in 0 .. 2 * Capacity - 1
    PROVE  x % Capacity = IF x < Capacity THEN x ELSE x - Capacity
<1>1. CASE x < Capacity
  BY <1>1, CapacityAssumption
<1>2. CASE x >= Capacity
  <2>1. x - Capacity \in 0 .. Capacity - 1
    BY <1>2, CapacityAssumption
  <2>2. x = 1 * Capacity + (x - Capacity)
    BY CapacityAssumption
  <2> QED  BY <1>2, <2>1, <2>2, CapacityAssumption
<1> QED  BY <1>1, <1>2, CapacityAssumption

\* The i-th readable cell.
LEMMA CellFacts ==
    ASSUME NEW b \in Buffers, NEW i \in 1 .. Readable(b)
    PROVE  /\ (b.head + i - 1) % Capacity \in Cells
           /\ (b.head + i - 1) % Capacity =
                  IF b.head + i - 1 < Capacity THEN b.head + i - 1
                                               ELSE b.head + i - 1 - Capacity
<1>1. b.head \in 0 .. Capacity - 1 /\ b.tail \in 0 .. Capacity - 1
  BY DEF Buffers, Cells
<1>2. Readable(b) \in 0 .. Capacity - 1
  BY <1>1, CapacityAssumption DEF Readable
<1>3. b.head + i - 1 \in 0 .. 2 * Capacity - 1
  BY <1>1, <1>2, CapacityAssumption
<1> QED  BY <1>1, <1>2, <1>3, Around, CapacityAssumption DEF Cells

\* Who takes the readable part for one piece sees it as it is when it is one.
LEMMA PartViewed ==
    ASSUME NEW b \in Buffers, NEW mem, NEW g, OnePiece(b)
    PROVE  View(mem, b, g) = Part(mem, b)
<1>1. /\ b.head \in 0 .. Capacity - 1 /\ Readable(b) \in Nat
      /\ b.head + Readable(b) <= Capacity
  BY EmptyFacts DEF Buffers, Cells, OnePiece
<1>2. ASSUME NEW i \in 1 .. Readable(b)
      PROVE  b.head + i - 1 \in Cells /\ (b.head + i - 1) % Capacity = b.head + i - 1
  <2>1. b.head + i - 1 \in 0 .. Capacity - 1
    BY <1>1, CapacityAssumption
  <2> QED  BY <2>1, CapacityAssumption DEF Cells
<1> QED  BY <1>2 DEF View, Part

\* Taking n units leaves the others.
LEMMA PartConsumed ==
    ASSUME NEW b \in Buffers, NEW n \in Nat, n <= Readable(b), NEW mem
    PROVE  /\ Consumed(b, n) \in Buffers /\ Readable(Consumed(b, n)) = Readable(b) - n
           /\ \A i \in 1 .. Readable(b) - n :
                 Part(mem, Consumed(b, n))[i] = Part(mem, b)[n + i]
<1> DEFINE c == Consumed(b, n)
<1>1. b.head \in 0 .. Capacity - 1 /\ b.tail \in 0 .. Capacity - 1
  BY DEF Buffers, Cells
<1>2. Readable(b) \in 0 .. Capacity - 1
  BY <1>1, CapacityAssumption DEF Readable
<1>3. (b.head + n) % Capacity = IF b.head + n < Capacity THEN b.head + n
                                                         ELSE b.head + n - Capacity
  <2>1. b.head + n \in 0 .. 2 * Capacity - 1
    BY <1>1, <1>2, CapacityAssumption
  <2>2. b.head \in Int /\ n \in Int /\ Capacity \in Nat
    BY <1>1, CapacityAssumption
  <2> QED  BY <2>1, <2>2, Around, SMTT(30)
<1>4. c \in Buffers /\ c.head = (b.head + n) % Capacity /\ c.tail = b.tail
  <2>1. c = [b EXCEPT !.head = (@ + n) % Capacity]
    BY <1>2 DEF Consumed
  <2>2. (b.head + n) % Capacity \in Cells
    BY <1>1, <1>2, <1>3, CapacityAssumption DEF Cells
  <2> QED  BY <2>1, <2>2 DEF Buffers
<1> HIDE DEF c
<1>5. Readable(c) = Readable(b) - n
  BY <1>1, <1>3, <1>4, CapacityAssumption DEF Readable
<1>6. ASSUME NEW i \in 1 .. Readable(b) - n
      PROVE  Part(mem, c)[i] = Part(mem, b)[n + i]
  <2>1. n + i \in 1 .. Readable(b) /\ i \in 1 .. Readable(c)
    BY <1>2, <1>5
  <2>2. (c.head + i - 1) % Capacity =
            IF c.head + i - 1 < Capacity THEN c.head + i - 1 ELSE c.head + i - 1 - Capacity
    BY <1>4, <2>1, CellFacts
  <2>3. (b.head + (n + i) - 1) % Capacity =
            IF b.head + (n + i) - 1 < Capacity THEN b.head + (n + i) - 1
            ELSE b.head + (n + i) - 1 - Capacity
    BY <2>1, CellFacts
  <2>4. (c.head + i - 1) % Capacity = (b.head + (n + i) - 1) % Capacity
    BY <1>1, <1>2, <1>3, <1>4, <2>1, <2>2, <2>3, CapacityAssumption
  <2> QED  BY <2>1, <2>4 DEF Part
<1> QED  BY <1>4, <1>5, <1>6 DEF c

\* The memory with n units of d written from the tail on.
Filled(mem, b, n, d) ==
    [i \in Cells |-> IF i \in b.tail .. b.tail + n - 1 THEN d[i - b.tail + 1] ELSE mem[i]]

\* Writing n units leaves what was readable and appends these.
LEMMA PartWrote ==
    ASSUME NEW b \in Buffers, NEW n \in Nat \ {0}, n <= Writable(b), NEW mem, NEW d
    PROVE  /\ Wrote(b, n) \in Buffers /\ Readable(Wrote(b, n)) = Readable(b) + n
           /\ \A i \in 1 .. Readable(b) :
                 /\ Part(Filled(mem, b, n, d), b)[i] = Part(mem, b)[i]
                 /\ Part(Filled(mem, b, n, d), Wrote(b, n))[i] = Part(mem, b)[i]
           /\ \A i \in 1 .. n : Part(Filled(mem, b, n, d), Wrote(b, n))[Readable(b) + i] = d[i]
<1> DEFINE w == Wrote(b, n)
           new == Filled(mem, b, n, d)
<1>1. b.head \in 0 .. Capacity - 1 /\ b.tail \in 0 .. Capacity - 1
  BY DEF Buffers, Cells
<1>2. Readable(b) \in 0 .. Capacity - 1
  BY <1>1, CapacityAssumption DEF Readable
<1>3. /\ b.tail + n <= Capacity /\ Readable(b) + n <= Capacity - 1
      /\ b.tail < b.head => b.tail + n < b.head
      /\ b.tail + n = Capacity => b.head # 0
  BY <1>1, CapacityAssumption DEF Writable, Readable
<1>4. (b.tail + n) % Capacity = IF b.tail + n < Capacity THEN b.tail + n ELSE 0
  <2>1. b.tail + n \in 0 .. 2 * Capacity - 1
    BY <1>1, <1>3, CapacityAssumption
  <2> QED  BY <1>1, <1>3, <2>1, Around, CapacityAssumption
<1>5. w \in Buffers /\ w.head = b.head /\ w.tail = (b.tail + n) % Capacity
  <2>1. (b.tail + n) % Capacity # b.head
    <3>1. CASE b.tail + n < Capacity
      BY <1>1, <1>3, <1>4, <3>1
    <3>2. CASE b.tail + n = Capacity
      BY <1>3, <1>4, <3>2, CapacityAssumption
    <3> QED  BY <1>1, <1>3, <3>1, <3>2, CapacityAssumption
  <2>2. w = [b EXCEPT !.tail = (@ + n) % Capacity]
    BY <2>1 DEF Wrote
  <2>3. (b.tail + n) % Capacity \in Cells
    BY <1>1, <1>3, <1>4, CapacityAssumption DEF Cells
  <2> QED  BY <2>2, <2>3 DEF Buffers
<1> HIDE DEF w
<1>6. Readable(w) = Readable(b) + n
  BY <1>1, <1>3, <1>4, <1>5, CapacityAssumption DEF Readable
<1>7. ASSUME NEW i \in 1 .. Readable(b)
      PROVE  Part(new, b)[i] = Part(mem, b)[i] /\ Part(new, w)[i] = Part(mem, b)[i]
  <2> DEFINE k == (b.head + i - 1) % Capacity
  <2>1. k \in Cells /\ k = IF b.head + i - 1 < Capacity THEN b.head + i - 1
                                                       ELSE b.head + i - 1 - Capacity
    BY CellFacts
  <2> HIDE DEF k
  <2>2. k \notin b.tail .. b.tail + n - 1
    <3>1. CASE b.tail >= b.head
      <4>1. Readable(b) = b.tail - b.head
        BY <3>1 DEF Readable
      <4> QED  BY <1>1, <1>3, <2>1, <4>1, CapacityAssumption
    <3>2. CASE b.tail < b.head
      <4>1. Readable(b) = Capacity - b.head + b.tail
        BY <1>1, <3>2 DEF Readable
      <4> QED  BY <1>1, <1>3, <2>1, <3>2, <4>1, CapacityAssumption
    <3> QED  BY <1>1, <3>1, <3>2
  <2>3. new[k] = mem[k]
    BY <2>1, <2>2 DEF Filled
  <2>4. i \in 1 .. Readable(w)
    BY <1>2, <1>6
  <2> QED  BY <1>5, <2>3, <2>4 DEF Part, k
<1>8. ASSUME NEW i \in 1 .. n
      PROVE  Part(new, w)[Readable(b) + i] = d[i]
  <2> DEFINE r == Readable(b) + i
             k == (w.head + r - 1) % Capacity
  <2>1. r \in 1 .. Readable(w)
    BY <1>2, <1>6
  <2>2. k \in Cells /\ k = IF w.head + r - 1 < Capacity THEN w.head + r - 1
                                                       ELSE w.head + r - 1 - Capacity
    BY <1>5, <2>1, CellFacts
  <2>3. k = b.tail + i - 1
    <3> HIDE DEF k
    <3>1. CASE b.tail >= b.head
      <4>1. Readable(b) = b.tail - b.head
        BY <3>1 DEF Readable
      <4> QED  BY <1>1, <1>3, <1>5, <2>2, <4>1, CapacityAssumption
    <3>2. CASE b.tail < b.head
      <4>1. Readable(b) = Capacity - b.head + b.tail
        BY <1>1, <3>2 DEF Readable
      <4> QED  BY <1>1, <1>3, <1>5, <2>2, <3>2, <4>1, CapacityAssumption
    <3> QED  BY <1>1, <3>1, <3>2
  <2> HIDE DEF k
  <2>4. new[k] = d[i]
    <3>1. k \in b.tail .. b.tail + n - 1 /\ k - b.tail + 1 = i
      BY <1>1, <2>3
    <3> QED  BY <2>2, <3>1 DEF Filled
  <2> QED  BY <2>1, <2>4 DEF Part, k
<1> QED  BY <1>5, <1>6, <1>7, <1>8 DEF w

---------------------------------------------------------------------------
(* Sequences of units.                                                     *)

AnswerUnits == (0 .. MaxRequests) \X Nat \X Nat

LEMMA Joined ==
    ASSUME NEW S, NEW a \in Seq(S), NEW b \in Seq(S)
    PROVE  /\ a \o b \in Seq(S) /\ Len(a \o b) = Len(a) + Len(b)
           /\ DOMAIN (a \o b) = 1 .. Len(a) + Len(b)
           /\ \A i \in 1 .. Len(a) : (a \o b)[i] = a[i]
           /\ \A i \in 1 .. Len(b) : (a \o b)[Len(a) + i] = b[i]
<1>1. a \o b \in Seq(S) /\ Len(a \o b) = Len(a) + Len(b)
  OBVIOUS
<1>2. /\ \A i \in 1 .. Len(a) : (a \o b)[i] = a[i]
      /\ \A i \in 1 .. Len(b) : (a \o b)[Len(a) + i] = b[i]
  OBVIOUS
<1>3. DOMAIN (a \o b) = 1 .. Len(a) + Len(b)
  <2> DEFINE c == a \o b
  <2>1. c \in Seq(S) /\ Len(c) = Len(a) + Len(b)
    BY <1>1
  <2> HIDE DEF c
  <2>2. DOMAIN c = 1 .. Len(a) + Len(b)
    BY <2>1
  <2> QED  BY <2>2 DEF c
<1> QED  BY <1>1, <1>2, <1>3

\* Equal sequences.
LEMMA SameUnits ==
    ASSUME NEW S, NEW a \in Seq(S), NEW b \in Seq(S), Len(a) = Len(b),
           \A i \in 1 .. Len(a) : a[i] = b[i]
    PROVE  a = b
OBVIOUS

LEMMA AnswerFacts ==
    ASSUME NEW r \in 0 .. MaxRequests, NEW n \in Nat
    PROVE  /\ Answer(r, n) \in Seq(AnswerUnits) /\ Len(Answer(r, n)) = n
           /\ \A j \in 1 .. n : Answer(r, n)[j] = <<r, j, n>>
<1>1. Answer(r, n) \in [1 .. n -> AnswerUnits]
  BY DEF Answer, AnswerUnits
<1>2. \A j \in 1 .. n : Answer(r, n)[j] = <<r, j, n>>
  BY DEF Answer
<1> QED  BY <1>1, <1>2, SeqDef

\* Whole answers, one after the other.
Whole(s) ==
    /\ \A i \in DOMAIN s :
          IF s[i][2] = 1 THEN i = 1 \/ s[i - 1][2] = s[i - 1][3]
          ELSE i > 1 /\ s[i] = [s[i - 1] EXCEPT ![2] = @ + 1]
    /\ s # <<>> => Last(s)[2] = Last(s)[3]

\* One more answer.
LEMMA OneMore ==
    ASSUME NEW s \in Seq(AnswerUnits), Whole(s), NEW r \in 0 .. MaxRequests,
           NEW n \in Nat \ {0}
    PROVE  Whole(s \o Answer(r, n))
<1> DEFINE a == Answer(r, n)
           t == s \o a
<1>1. /\ a \in Seq(AnswerUnits) /\ Len(a) = n /\ Len(s) \in Nat
      /\ \A j \in 1 .. n : a[j] = <<r, j, n>>
  BY AnswerFacts
<1>2. /\ t \in Seq(AnswerUnits) /\ Len(t) = Len(s) + n
      /\ DOMAIN t = 1 .. Len(s) + n
      /\ \A i \in 1 .. Len(s) : t[i] = s[i]
      /\ \A j \in 1 .. n : t[Len(s) + j] = <<r, j, n>>
  <2> HIDE DEF a
  <2>1. /\ s \o a \in Seq(AnswerUnits) /\ Len(s \o a) = Len(s) + Len(a)
        /\ DOMAIN (s \o a) = 1 .. Len(s) + Len(a)
        /\ \A i \in 1 .. Len(s) : (s \o a)[i] = s[i]
        /\ \A j \in 1 .. Len(a) : (s \o a)[Len(s) + j] = a[j]
    <3>1. a \in Seq(AnswerUnits) /\ s \in Seq(AnswerUnits)
      BY <1>1
    <3> HIDE DEF t
    <3> QED  BY <3>1, Joined
  <2>2. t = s \o a
    OBVIOUS
  <2> HIDE DEF t
  <2> QED  BY <1>1, <2>1, <2>2
<1>3. DOMAIN s = 1 .. Len(s)
  OBVIOUS
<1> HIDE DEF a, t
<1>4. ASSUME NEW i \in DOMAIN t
      PROVE  IF t[i][2] = 1 THEN i = 1 \/ t[i - 1][2] = t[i - 1][3]
             ELSE i > 1 /\ t[i] = [t[i - 1] EXCEPT ![2] = @ + 1]
  <2>1. CASE i <= Len(s)
    <3>1. i \in DOMAIN s /\ t[i] = s[i] /\ (i > 1 => t[i - 1] = s[i - 1])
      BY <1>1, <1>2, <1>3, <2>1
    <3>2. CASE i = 1
      BY <3>1, <3>2 DEF Whole
    <3>3. CASE i > 1
      BY <3>1, <3>3 DEF Whole
    <3> QED  BY <1>2, <3>2, <3>3
  <2>2. CASE i = Len(s) + 1
    <3>1. t[i] = <<r, 1, n>>
      BY <1>1, <1>2, <2>2
    <3>2. CASE Len(s) = 0
      BY <2>2, <3>1, <3>2
    <3>3. CASE Len(s) > 0
      <4>1. s # <<>> /\ t[i - 1] = Last(s)
        BY <1>1, <1>2, <2>2, <3>3 DEF Last
      <4> QED  BY <3>1, <4>1 DEF Whole
    <3> QED  BY <1>1, <3>2, <3>3
  <2>3. CASE i > Len(s) + 1
    <3> DEFINE j == i - Len(s)
    <3>1. j \in 2 .. n /\ j - 1 \in 1 .. n /\ i = Len(s) + j /\ i - 1 = Len(s) + (j - 1)
      BY <1>1, <1>2, <2>3
    <3> HIDE DEF j
    <3>5. t[Len(s) + j] = <<r, j, n>> /\ t[Len(s) + (j - 1)] = <<r, j - 1, n>>
      <4>1. j \in 1 .. n
        BY <3>1
      <4>2. \A l \in 1 .. n : t[Len(s) + l] = <<r, l, n>>
        BY <1>2
      <4> QED  BY <3>1, <4>1, <4>2
    <3>2. t[i] = <<r, j, n>> /\ t[i - 1] = <<r, j - 1, n>>
      BY <3>1, <3>5
    <3>3. [<<r, j - 1, n>> EXCEPT ![2] = @ + 1] = <<r, j, n>>
      BY <3>1
    <3>4. i > 1
      BY <1>1, <1>2, <2>3
    <3> QED  BY <3>1, <3>2, <3>3, <3>4
  <2> QED  BY <1>1, <1>2, <2>1, <2>2, <2>3
<1>5. Last(t)[2] = Last(t)[3]
  <2>1. t[Len(s) + n] = <<r, n, n>>
    BY <1>2
  <2> QED  BY <1>2, <2>1 DEF Last
<1>6. Whole(t)
  BY <1>4, <1>5 DEF Whole
<1> QED  BY <1>6 DEF t, a

\* The numbers of requests do not go down within a sequence, or from one to
\* another, and are at most k.
Sorted(s) == \A i, j \in DOMAIN s : i <= j => s[i][1] <= s[j][1]
Before(s, t) == \A i \in DOMAIN s, j \in DOMAIN t : s[i][1] <= t[j][1]
UpTo(s, k) == \A i \in DOMAIN s : s[i][1] <= k

Order(a, u, w, k) ==
    /\ Sorted(a) /\ Sorted(u) /\ Sorted(w)
    /\ Before(a, u) /\ Before(a, w) /\ Before(u, w)
    /\ UpTo(a, k) /\ UpTo(u, k) /\ UpTo(w, k)

\* The first request that is there is answered.
LEMMA OrderAnswered ==
    ASSUME NEW a \in Seq(AnswerUnits), NEW u \in Seq(Units), NEW w \in Seq(Units),
           NEW k \in Nat, Order(a, u, w, k), u # <<>>, NEW n \in Nat,
           u[1][1] \in 0 .. MaxRequests
    PROVE  Order(a \o Answer(u[1][1], n), u, w, k)
<1> DEFINE r == u[1][1]
           t == a \o Answer(r, n)
<1>1. /\ Answer(r, n) \in Seq(AnswerUnits) /\ Len(Answer(r, n)) = n /\ Len(a) \in Nat
      /\ \A j \in 1 .. n : Answer(r, n)[j] = <<r, j, n>>
  <2>1. Len(a) \in Nat /\ r \in 0 .. MaxRequests
    OBVIOUS
  <2> HIDE DEF r
  <2> QED  BY <2>1, AnswerFacts
<1>2. /\ DOMAIN t = 1 .. Len(a) + n
      /\ \A i \in 1 .. Len(a) : t[i] = a[i]
      /\ \A j \in 1 .. n : t[Len(a) + j] = <<r, j, n>>
  <2> DEFINE b == Answer(r, n)
  <2>1. /\ b \in Seq(AnswerUnits) /\ Len(b) = n /\ \A j \in 1 .. n : b[j] = <<r, j, n>>
    BY <1>1
  <2> HIDE DEF b
  <2>2. /\ DOMAIN (a \o b) = 1 .. Len(a) + n
        /\ \A i \in 1 .. Len(a) : (a \o b)[i] = a[i]
        /\ \A j \in 1 .. n : (a \o b)[Len(a) + j] = <<r, j, n>>
    <3>1. a \in Seq(AnswerUnits) /\ b \in Seq(AnswerUnits)
      BY <2>1
    <3>2. /\ DOMAIN (a \o b) = 1 .. Len(a) + Len(b)
          /\ \A i \in 1 .. Len(a) : (a \o b)[i] = a[i]
          /\ \A j \in 1 .. Len(b) : (a \o b)[Len(a) + j] = b[j]
      <4> HIDE DEF t
      <4> QED  BY <3>1, Joined
    <3> QED  BY <2>1, <3>2
  <2> QED  BY <2>2 DEF b
<1>3. DOMAIN a = 1 .. Len(a) /\ 1 \in DOMAIN u
  OBVIOUS
<1>4. r \in Nat
  OBVIOUS
<1> HIDE DEF t, r
<1>5. \A i \in DOMAIN t : \/ i \in DOMAIN a /\ t[i] = a[i]
                          \/ i > Len(a) /\ t[i][1] = r
  <2>1. ASSUME NEW i \in DOMAIN t, i > Len(a)
        PROVE  t[i][1] = r
    <3>1. i - Len(a) \in 1 .. n /\ Len(a) + (i - Len(a)) = i
      BY <1>1, <1>2, <2>1
    <3>2. \A l \in 1 .. n : t[Len(a) + l] = <<r, l, n>>
      BY <1>2
    <3>3. t[Len(a) + (i - Len(a))] = <<r, i - Len(a), n>>
      BY <3>1, <3>2
    <3> QED  BY <3>1, <3>3
  <2> QED  BY <1>1, <1>2, <1>3, <2>1
<1>6. \A i \in DOMAIN a : a[i][1] <= r /\ a[i][1] \in Nat
  <2>1. \A i \in DOMAIN a : a[i][1] <= r
    BY <1>3 DEF Order, Before, r
  <2>2. \A i \in DOMAIN a : a[i] \in AnswerUnits
    OBVIOUS
  <2>3. \A x \in AnswerUnits : x[1] \in Nat
    BY DEF AnswerUnits
  <2> QED  BY <2>1, <2>2, <2>3
<1>7. Sorted(t)
  <2>1. ASSUME NEW i \in DOMAIN t, NEW j \in DOMAIN t, i <= j PROVE t[i][1] <= t[j][1]
    <3>1. CASE i \in DOMAIN a /\ j \in DOMAIN a
      <4>1. t[i] = a[i] /\ t[j] = a[j]
        BY <1>2, <1>3, <3>1
      <4>2. Sorted(a)
        BY DEF Order
      <4> QED  BY <2>1, <3>1, <4>1, <4>2 DEF Sorted
    <3>2. CASE j \notin DOMAIN a
      BY <1>4, <1>5, <1>6, <3>2
    <3>3. CASE i \notin DOMAIN a /\ j \in DOMAIN a
      BY <1>1, <1>2, <1>3, <2>1, <3>3
    <3> QED  BY <3>1, <3>2, <3>3
  <2> QED  BY <2>1 DEF Sorted
<1>8. Before(t, u)
  <2>1. \A j \in DOMAIN u : r <= u[j][1]
    BY <1>3 DEF Order, Sorted, r
  <2> QED  BY <1>5, <2>1 DEF Order, Before
<1>9. Before(t, w)
  <2>1. \A j \in DOMAIN w : r <= w[j][1]
    BY <1>3 DEF Order, Before, r
  <2> QED  BY <1>5, <2>1 DEF Order, Before
<1>10. UpTo(t, k)
  <2>1. r <= k
    BY <1>3 DEF Order, UpTo, r
  <2> QED  BY <1>5, <2>1 DEF Order, UpTo
<1>11. Order(t, u, w, k)
  BY <1>7, <1>8, <1>9, <1>10 DEF Order
<1> QED  BY <1>11 DEF t, r

\* The first m of the units that are there are gone.
LEMMA OrderConsumed ==
    ASSUME NEW a, NEW u \in Seq(Units), NEW w, NEW k, Order(a, u, w, k),
           NEW m \in Nat, NEW v \in Seq(Units), Len(v) = Len(u) - m,
           \A i \in 1 .. Len(v) : v[i] = u[m + i]
    PROVE  Order(a, v, w, k)
<1>1. \A i \in DOMAIN v : m + i \in DOMAIN u /\ v[i] = u[m + i]
  OBVIOUS
<1>2. \A i, j \in DOMAIN v : i <= j => m + i <= m + j
  OBVIOUS
<1> QED  BY <1>1, <1>2 DEF Order, Sorted, Before, UpTo

\* m units arrive.
LEMMA OrderArrived ==
    ASSUME NEW a, NEW u \in Seq(Units), NEW w \in Seq(Units), NEW k, Order(a, u, w, k),
           NEW m \in 1 .. Len(w), NEW v \in Seq(Units), Len(v) = Len(u) + m,
           \A i \in 1 .. Len(u) : v[i] = u[i],
           \A i \in 1 .. m : v[Len(u) + i] = w[i]
    PROVE  Order(a, v, SubSeq(w, m + 1, Len(w)), k)
<1> DEFINE x == SubSeq(w, m + 1, Len(w))
<1>1. /\ x \in Seq(Units) /\ Len(x) = Len(w) - m
      /\ \A i \in 1 .. Len(w) - m : x[i] = w[m + i]
  OBVIOUS
<1> HIDE DEF x
<1>2. \A i \in DOMAIN x : m + i \in DOMAIN w /\ x[i] = w[m + i]
  BY <1>1
<1>3. \A i \in DOMAIN v : \/ i \in DOMAIN u /\ v[i] = u[i]
                          \/ i > Len(u) /\ i - Len(u) \in 1 .. m /\ v[i] = w[i - Len(u)]
  <2>1. ASSUME NEW i \in DOMAIN v, i > Len(u)
        PROVE  i - Len(u) \in 1 .. m /\ v[i] = w[i - Len(u)]
    <3>1. i - Len(u) \in 1 .. m /\ Len(u) + (i - Len(u)) = i
      BY <2>1
    <3> QED  BY <3>1
  <2>2. ASSUME NEW i \in DOMAIN v, ~(i > Len(u))
        PROVE  i \in DOMAIN u /\ v[i] = u[i]
    <3>1. i \in 1 .. Len(u)
      BY <2>2
    <3> QED  BY <3>1
  <2> QED  BY <2>1, <2>2
<1>4. \A i \in 1 .. m : i \in DOMAIN w
  OBVIOUS
<1>5. Sorted(v)
  <2>1. ASSUME NEW i \in DOMAIN v, NEW j \in DOMAIN v, i <= j PROVE v[i][1] <= v[j][1]
    <3>1. CASE i \in DOMAIN u /\ j \in DOMAIN u
      <4>1. i \in 1 .. Len(u) /\ j \in 1 .. Len(u)
        BY <3>1
      <4>2. v[i] = u[i]
        BY <4>1
      <4>3. v[j] = u[j]
        BY <4>1
      <4>4. Sorted(u)
        BY DEF Order
      <4> QED  BY <2>1, <3>1, <4>2, <4>3, <4>4 DEF Sorted
    <3>2. CASE i \in DOMAIN u /\ j \notin DOMAIN u
      <4>1. v[i] = u[i] /\ j - Len(u) \in DOMAIN w /\ v[j] = w[j - Len(u)]
        BY <1>3, <1>4, <3>2
      <4> QED  BY <3>2, <4>1 DEF Order, Before
    <3>3. CASE i \notin DOMAIN u /\ j \notin DOMAIN u
      <4>1. /\ i - Len(u) \in DOMAIN w /\ v[i] = w[i - Len(u)]
            /\ j - Len(u) \in DOMAIN w /\ v[j] = w[j - Len(u)]
        BY <1>3, <1>4, <3>3
      <4>2. i - Len(u) <= j - Len(u)
        BY <2>1
      <4> QED  BY <4>1, <4>2 DEF Order, Sorted
    <3>4. CASE i \notin DOMAIN u /\ j \in DOMAIN u
      BY <2>1, <3>4
    <3> QED  BY <3>1, <3>2, <3>3, <3>4
  <2> QED  BY <2>1 DEF Sorted
<1>6. Sorted(x)
  <2>1. \A i, j \in DOMAIN x : i <= j => m + i <= m + j
    BY <1>1
  <2> QED  BY <1>2, <2>1 DEF Order, Sorted
<1>7. Before(a, v) /\ UpTo(v, k)
  BY <1>3, <1>4 DEF Order, Before, UpTo
<1>8. Before(a, x) /\ UpTo(x, k)
  BY <1>2 DEF Order, Before, UpTo
<1>9. Before(v, x)
  <2>1. ASSUME NEW i \in DOMAIN v, NEW j \in DOMAIN x PROVE v[i][1] <= x[j][1]
    <3>1. m + j \in DOMAIN w /\ x[j] = w[m + j]
      BY <1>2
    <3>2. CASE i \in DOMAIN u
      <4>0. i \in 1 .. Len(u)
        BY <3>2
      <4>1. v[i] = u[i]
        BY <4>0
      <4> QED  BY <3>1, <3>2, <4>1 DEF Order, Before
    <3>3. CASE i \notin DOMAIN u
      <4>1. i - Len(u) \in 1 .. m /\ i - Len(u) \in DOMAIN w /\ v[i] = w[i - Len(u)]
        BY <1>3, <1>4, <3>3
      <4>2. i - Len(u) <= m + j
        BY <1>1, <4>1
      <4> QED  BY <3>1, <4>1, <4>2 DEF Order, Sorted
    <3> QED  BY <3>2, <3>3
  <2> QED  BY <2>1 DEF Before
<1>10. Order(a, v, x, k)
  BY <1>5, <1>6, <1>7, <1>8, <1>9 DEF Order
<1> QED  BY <1>10 DEF x

\* m units are taken from the network and do not get into the read buffer.
LEMMA OrderSkipped ==
    ASSUME NEW a, NEW u, NEW w \in Seq(Units), NEW k, Order(a, u, w, k), NEW m \in 0 .. Len(w)
    PROVE  Order(a, u, SubSeq(w, m + 1, Len(w)), k)
<1> DEFINE x == SubSeq(w, m + 1, Len(w))
<1>1. /\ x \in Seq(Units) /\ Len(x) = Len(w) - m
      /\ \A i \in 1 .. Len(w) - m : x[i] = w[m + i]
  OBVIOUS
<1> HIDE DEF x
<1>2. \A i \in DOMAIN x : m + i \in DOMAIN w /\ x[i] = w[m + i]
  BY <1>1
<1>3. \A i, j \in DOMAIN x : i <= j => m + i <= m + j
  BY <1>1
<1>4. Order(a, u, x, k)
  BY <1>2, <1>3 DEF Order, Sorted, Before, UpTo
<1> QED  BY <1>4 DEF x

\* The next request is sent.
LEMMA OrderSent ==
    ASSUME NEW a \in Seq(AnswerUnits), NEW u \in Seq(Units), NEW w \in Seq(Units), NEW k \in Nat,
           Order(a, u, w, k), NEW q \in Seq(Units), \A i \in DOMAIN q : q[i][1] = k + 1
    PROVE  Order(a, u, w \o q, k + 1)
<1> DEFINE x == w \o q
<1>1. /\ DOMAIN x = 1 .. Len(w) + Len(q)
      /\ \A i \in 1 .. Len(w) : x[i] = w[i]
      /\ \A i \in 1 .. Len(q) : x[Len(w) + i] = q[i]
  BY Joined
<1> HIDE DEF x
<1>2. \A i \in DOMAIN x : \/ i \in DOMAIN w /\ x[i] = w[i]
                          \/ i > Len(w) /\ x[i][1] = k + 1
  <2>1. ASSUME NEW i \in DOMAIN x, i > Len(w)
        PROVE  x[i][1] = k + 1
    <3>1. i - Len(w) \in 1 .. Len(q) /\ Len(w) + (i - Len(w)) = i
      BY <1>1, <2>1
    <3>2. i - Len(w) \in DOMAIN q /\ x[i] = q[i - Len(w)]
      BY <1>1, <3>1
    <3> QED  BY <3>2
  <2>2. ASSUME NEW i \in DOMAIN x, ~(i > Len(w))
        PROVE  i \in DOMAIN w /\ x[i] = w[i]
    <3>1. i \in 1 .. Len(w)
      BY <1>1, <2>2
    <3> QED  BY <1>1, <3>1
  <2> QED  BY <2>1, <2>2
<1>3. /\ \A i \in DOMAIN a : a[i][1] <= k + 1
      /\ \A i \in DOMAIN u : u[i][1] <= k + 1
      /\ \A i \in DOMAIN w : w[i][1] <= k + 1
  <2>1. /\ \A i \in DOMAIN a : a[i] \in AnswerUnits
        /\ \A i \in DOMAIN u : u[i] \in Units
        /\ \A i \in DOMAIN w : w[i] \in Units
    OBVIOUS
  <2>2. \A y \in AnswerUnits : y[1] \in Int
    BY DEF AnswerUnits
  <2>3. \A y \in Units : y[1] \in Int
    BY UnitFacts
  <2>4. \A n \in Int : n <= k => n <= k + 1
    OBVIOUS
  <2>5. UpTo(a, k) /\ UpTo(u, k) /\ UpTo(w, k)
    BY DEF Order
  <2>6. \A i \in DOMAIN a : a[i][1] <= k + 1
    BY <2>1, <2>2, <2>4, <2>5 DEF UpTo
  <2>7. \A i \in DOMAIN u : u[i][1] <= k + 1
    BY <2>1, <2>3, <2>4, <2>5 DEF UpTo
  <2>8. \A i \in DOMAIN w : w[i][1] <= k + 1
    BY <2>1, <2>3, <2>4, <2>5 DEF UpTo
  <2> QED  BY <2>6, <2>7, <2>8
<1>4. Sorted(x)
  <2>1. ASSUME NEW i \in DOMAIN x, NEW j \in DOMAIN x, i <= j PROVE x[i][1] <= x[j][1]
    <3>1. CASE i \in DOMAIN w /\ j \in DOMAIN w
      <4>1. x[i] = w[i] /\ x[j] = w[j]
        BY <1>2, <3>1
      <4>2. Sorted(w)
        BY DEF Order
      <4> QED  BY <2>1, <3>1, <4>1, <4>2 DEF Sorted
    <3>2. CASE j \notin DOMAIN w
      BY <1>2, <1>3, <3>2
    <3>3. CASE i \notin DOMAIN w /\ j \in DOMAIN w
      BY <1>1, <2>1, <3>3
    <3> QED  BY <3>1, <3>2, <3>3
  <2> QED  BY <2>1 DEF Sorted
<1>5. Before(a, x) /\ Before(u, x) /\ UpTo(x, k + 1)
  <2>1. Before(a, w) /\ Before(u, w)
    BY DEF Order
  <2>2. Before(a, x)
    BY <1>2, <1>3, <2>1 DEF Before
  <2>3. Before(u, x)
    BY <1>2, <1>3, <2>1 DEF Before
  <2>4. UpTo(x, k + 1)
    <3>1. \A i \in DOMAIN x : x[i][1] <= k + 1
      <4>1. ASSUME NEW i \in DOMAIN x, i \in DOMAIN w PROVE x[i][1] <= k + 1
        BY <1>2, <1>3, <4>1
      <4>2. ASSUME NEW i \in DOMAIN x, i \notin DOMAIN w PROVE x[i][1] <= k + 1
        BY <1>2, <4>2
      <4> QED  BY <4>1, <4>2
    <3> QED  BY <3>1 DEF UpTo
  <2> QED  BY <2>2, <2>3, <2>4
<1>6. Order(a, u, x, k + 1)
  BY <1>3, <1>4, <1>5 DEF Order, UpTo
<1> QED  BY <1>6 DEF x

\* w consists of x and v.
LEMMA InTwoParts ==
    ASSUME NEW S, NEW x \in Seq(S), NEW v \in Seq(S), NEW w \in Seq(S),
           Len(w) = Len(x) + Len(v),
           \A i \in 1 .. Len(x) : w[i] = x[i],
           \A i \in 1 .. Len(v) : w[Len(x) + i] = v[i]
    PROVE  w = x \o v
<1>0. Len(x) \in Nat /\ Len(v) \in Nat
  OBVIOUS
<1>1. /\ x \o v \in Seq(S) /\ Len(x \o v) = Len(x) + Len(v)
      /\ \A i \in 1 .. Len(x) : (x \o v)[i] = x[i]
      /\ \A i \in 1 .. Len(v) : (x \o v)[Len(x) + i] = v[i]
  BY Joined
<1>2. ASSUME NEW i \in 1 .. Len(w) PROVE w[i] = (x \o v)[i]
  <2>1. CASE i <= Len(x)
    <3>1. i \in 1 .. Len(x)
      BY <1>0, <2>1
    <3> QED  BY <1>1, <3>1
  <2>2. CASE i > Len(x)
    <3>1. i - Len(x) \in 1 .. Len(v) /\ Len(x) + (i - Len(x)) = i
      BY <1>0, <2>2
    <3> QED  BY <1>1, <3>1
  <2> QED  BY <1>0, <2>1, <2>2
<1> QED  BY <1>1, <1>2, SameUnits

---------------------------------------------------------------------------
(* Answers: whole and in order.                                            *)

Unread == Part(rmem, rb)
Answers == got \o Unwritten

AnswersTyped ==
    "write" \notin faults =>
        got \in Seq(AnswerUnits) /\ Unwritten \in Seq(AnswerUnits)

\* What was received, what is to be written, what is to be read and what is
\* on its way follow each other in the order of the requests.
OneAfterTheOther == faults = {} => Order(Answers, Unread, net, Len(sent))

AInv == IInv /\ AnswersTyped /\ AnswersWhole /\ OneAfterTheOther

LEMMA WholeAnswers == AnswersWhole <=> ("write" \notin faults => Whole(Answers))
BY DEF AnswersWhole, Whole, Answers

LEMMA UnwrittenIsPart == Unwritten = Part(wmem, wb)
BY DEF Unwritten, Part

LEMMA NothingUnwritten ==
    ASSUME TypeOK, wb.head = wb.tail
    PROVE  Unwritten = <<>>
<1>1. Readable(wb) = 0
  BY EmptyFacts DEF TypeOK
<1> QED  BY <1>1 DEF Unwritten

LEMMA UnreadType ==
    ASSUME TypeOK
    PROVE  Unread \in Seq(Units) /\ Len(Unread) = Readable(rb)
<1>1. Readable(rb) \in Nat /\ rb \in Buffers /\ rmem \in [Cells -> Units]
  BY EmptyFacts DEF TypeOK
<1>2. Unread \in [1 .. Readable(rb) -> Units]
  BY <1>1, CellFacts DEF Unread, Part
<1> QED  BY <1>1, <1>2, SeqDef

LEMMA AnswersType ==
    ASSUME AnswersTyped, "write" \notin faults
    PROVE  Answers \in Seq(AnswerUnits)
BY DEF AnswersTyped, Answers

LEMMA InitAInv == Init => AInv
<1> SUFFICES ASSUME Init PROVE AInv
  OBVIOUS
<1>1. IInv
  BY InitIInv
<1>2. TypeOK /\ wb.head = wb.tail /\ rb.head = rb.tail
  BY <1>1 DEF Init, EmptyBuffer, IInv
<1>3. Unwritten = <<>> /\ got = <<>> /\ net = <<>> /\ sent = <<>>
  BY <1>2, NothingUnwritten DEF Init
<1>4. Unread = <<>>
  <2>1. Readable(rb) = 0
    BY <1>2, EmptyFacts DEF TypeOK
  <2> QED  BY <2>1 DEF Unread, Part
<1>5. Answers = <<>>
  BY <1>3 DEF Answers
<1>6. AnswersTyped
  BY <1>3 DEF AnswersTyped
<1>7. Whole(<<>>)
  BY DEF Whole
<1>8. Order(<<>>, <<>>, <<>>, 0)
  BY DEF Order, Sorted, Before, UpTo
<1> QED  BY <1>1, <1>3, <1>4, <1>5, <1>6, <1>7, <1>8, WholeAnswers
         DEF AInv, OneAfterTheOther

\* A step that leaves the write buffer and the client's answers alone.
LEMMA NothingSaid ==
    ASSUME AInv, UNCHANGED <<got, wb, wmem>>, faults \subseteq faults'
    PROVE  AnswersTyped' /\ AnswersWhole' /\ Answers' = Answers
<1>1. Unwritten' = Unwritten
  BY DEF Unwritten
<1>2. Answers' = Answers
  BY <1>1 DEF Answers
<1>3. AnswersTyped'
  BY <1>1 DEF AInv, AnswersTyped
<1>4. AnswersWhole'
  BY <1>1 DEF AInv, AnswersWhole
<1> QED  BY <1>2, <1>3, <1>4

\* What is written to an empty write buffer is one answer.
LEMMA RespondSays ==
    ASSUME TypeOK, AnswersTyped, "write" \notin faults, wb.head = wb.tail,
           NEW r \in 0 .. MaxRequests, NEW n \in AnswerSizes, Respond(r, n),
           Unwritten = <<>>
    PROVE  Unwritten' = <<>> \/ Unwritten' = Answer(r, n)
<1>1. wb \in Buffers /\ n \in Nat \ {0} /\ Readable(wb) = 0
  BY EmptyFacts, UnitsAssumption DEF TypeOK
<1>2. CASE Writable(wb) >= n
  <2> DEFINE d == Answer(r, n)
  <2>0. n <= Writable(wb)
    BY <1>1, <1>2, WritableInside
  <2>1. /\ wmem' = [i \in Cells |-> IF i \in wb.tail .. wb.tail + n - 1
                                    THEN d[i - wb.tail + 1] ELSE wmem[i]]
        /\ wb' = Wrote(wb, n)
    BY <1>2 DEF Respond
  <2>2. /\ Readable(wb') = 0 + n
        /\ \A i \in 1 .. n : Part(wmem', wb')[0 + i] = d[i]
    <3> HIDE DEF d
    <3>1. /\ Readable(Wrote(wb, n)) = Readable(wb) + n
          /\ \A i \in 1 .. n : Part(wmem', Wrote(wb, n))[Readable(wb) + i] = d[i]
      <4>1. wmem' = Filled(wmem, wb, n, d)
        BY <2>1 DEF Filled
      <4>2. /\ Readable(Wrote(wb, n)) = Readable(wb) + n
            /\ \A i \in 1 .. n :
                   Part(Filled(wmem, wb, n, d), Wrote(wb, n))[Readable(wb) + i] = d[i]
        BY <1>1, <2>0, PartWrote
      <4> QED  BY <4>1, <4>2
    <3> QED  BY <1>1, <2>1, <3>1
  <2>3. d = [i \in 1 .. n |-> d[i]]
    BY DEF Answer
  <2> HIDE DEF d
  <2>4. Part(wmem', wb') = [i \in 1 .. n |-> Part(wmem', wb')[i]]
    BY <1>1, <2>2 DEF Part
  <2>5. \A i \in 1 .. n : Part(wmem', wb')[i] = d[i]
    <3>1. ASSUME NEW i \in 1 .. n PROVE 0 + i = i
      BY <1>1
    <3> QED  BY <2>2, <3>1
  <2>6. Part(wmem', wb') = d
    BY <2>3, <2>4, <2>5
  <2> QED  BY <2>6 DEF d, Unwritten, Part
<1>3. CASE ~(Writable(wb) >= n)
  <2>1. wb' = wb /\ wmem' = wmem
    BY <1>3 DEF Respond
  <2> QED  BY <2>1 DEF Unwritten
<1> QED  BY <1>2, <1>3

\* A job answers the first request in the read buffer, or says nothing, and
\* takes units from the read buffer, or none.
LEMMA WorkSays ==
    ASSUME AInv, Work, "write" \notin faults
    PROVE  /\ got' = got
           /\ \/ Answers' = Answers /\ Unwritten' = Unwritten
              \/ /\ Unread # <<>> /\ Unread[1][1] \in 0 .. MaxRequests
                 /\ \E n \in Nat \ {0} :
                       /\ Answers' = Answers \o Answer(Unread[1][1], n)
                       /\ Unwritten' = Answer(Unread[1][1], n)
           /\ rmem' = rmem
           /\ rb' = rb \/ \E m \in Nat : m <= Readable(rb) /\ rb' = Consumed(rb, m)
<1>1. TypeOK /\ op = "work" /\ wb.head = wb.tail /\ AnswersTyped
  BY DEF AInv, IInv, Piece, Work
<1>2. Unwritten = <<>> /\ got \in Seq(AnswerUnits)
  BY <1>1, NothingUnwritten DEF AnswersTyped
<1>3. Answers = got
  BY <1>2 DEF Answers
<1>4. got' = got /\ rmem' = rmem
  BY DEF Work
<1>5. PICK g \in Outside :
        IF Handler(View(rmem, rb, g)) = "http" THEN HandleMessage(View(rmem, rb, g))
        ELSE UNCHANGED <<rb, wb, wmem, parse, need, extra, dropped>>
  BY DEF Work
<1> DEFINE v == View(rmem, rb, g)
           data == v \o extra
<1>6. CASE rb' = rb /\ wb' = wb /\ wmem' = wmem
  <2>1. Unwritten' = Unwritten
    BY <1>6 DEF Unwritten
  <2> QED  BY <1>4, <1>6, <2>1 DEF Answers
<1>7. CASE Handler(v) = "http" /\ Parses(data)
  <2>1. PICK n \in AnswerSizes : Respond(v[1][1], n)
    BY <1>5, <1>7 DEF HandleMessage
  <2>2. rb' = Consumed(rb, Total(data))
    BY <1>5, <1>7 DEF HandleMessage
  <2>3. v \in Seq(Units) /\ v # <<>> /\ Len(v) = Readable(rb)
    BY <1>1, <1>7, ViewType DEF Handler, TypeOK
  <2>4. Total(data) \in Nat
    <3>1. data \in Seq(Units)
      BY <1>1, <2>3 DEF TypeOK
    <3> HIDE DEF data
    <3> QED  BY <3>1, TotalType
  <2>5. rb' = rb \/ \E m \in Nat : m <= Readable(rb) /\ rb' = Consumed(rb, m)
    <3>1. Readable(rb) \in Nat
      BY <1>1, EmptyFacts DEF TypeOK
    <3> HIDE DEF data
    <3>2. CASE Total(data) > Readable(rb)
      BY <2>2, <3>2 DEF Consumed
    <3>3. CASE ~(Total(data) > Readable(rb))
      BY <2>2, <2>4, <3>1, <3>3
    <3> QED  BY <3>2, <3>3
  <2>6. v[1] = Unread[1] /\ Unread # <<>>
    <3>1. Readable(rb) \in Nat \ {0} /\ rb.head \in 0 .. Capacity - 1
      BY <1>1, <2>3, EmptyFacts DEF TypeOK, Buffers, Cells
    <3>2. rb.head + 1 - 1 \in Cells /\ (rb.head + 1 - 1) % Capacity = rb.head + 1 - 1
      BY <3>1, CapacityAssumption DEF Cells
    <3>3. 1 \in 1 .. Readable(rb)
      BY <3>1
    <3>4. v[1] = rmem[rb.head + 1 - 1]
      BY <3>2, <3>3 DEF View
    <3>5. Unread[1] = rmem[rb.head + 1 - 1]
      BY <3>2, <3>3 DEF Unread, Part
    <3>6. Unread # <<>>
      BY <1>1, <3>1, UnreadType
    <3> QED  BY <3>4, <3>5, <3>6
  <2>7. v[1][1] \in 0 .. MaxRequests
    <3>1. v[1] \in Units
      BY <2>3
    <3> QED  BY <3>1, UnitFacts
  <2>8. Unwritten' = <<>> \/ Unwritten' = Answer(v[1][1], n)
    BY <1>1, <1>2, <2>1, <2>7, RespondSays
  <2>9. n \in Nat \ {0}
    BY UnitsAssumption
  <2> HIDE DEF v
  <2>10. CASE Unwritten' = <<>>
    BY <1>2, <1>4, <2>2, <2>5, <2>10 DEF Answers
  <2>11. CASE Unwritten' = Answer(v[1][1], n)
    <3>1. Answers' = Answers \o Answer(v[1][1], n)
      BY <1>3, <1>4, <2>11 DEF Answers
    <3> QED  BY <1>4, <2>5, <2>6, <2>7, <2>9, <2>11, <3>1
  <2> QED  BY <2>8, <2>10, <2>11
<1>8. CASE ~(Handler(v) = "http" /\ Parses(data))
  BY <1>5, <1>6, <1>8 DEF HandleMessage
<1> QED  BY <1>7, <1>8

\* What a write takes from the buffer is what the client receives.
LEMMA WriteSays ==
    ASSUME AInv, WriteData, "write" \notin faults
    PROVE  /\ got' \in Seq(AnswerUnits) /\ Unwritten' \in Seq(AnswerUnits)
           /\ Answers' = Answers
<1>1. TypeOK /\ OnePiece(wb) /\ wb \in Buffers /\ Readable(wb) \in Nat
  BY EmptyFacts DEF AInv, IInv, Piece, TypeOK
<1>2. got \in Seq(AnswerUnits) /\ Unwritten \in Seq(AnswerUnits)
  BY DEF AInv, AnswersTyped
<1>3. PICK n \in 1 .. Readable(wb), g \in Outside :
        /\ got' = got \o SubSeq(View(wmem, wb, g), 1, n)
        /\ wb' = Consumed(wb, n)
  BY DEF WriteData
<1>4. wmem' = wmem
  BY DEF WriteData
<1>5. View(wmem, wb, g) = Unwritten
  BY <1>1, PartViewed, UnwrittenIsPart
<1>6. Len(Unwritten) = Readable(wb)
  BY <1>1 DEF Unwritten
<1>7. /\ Readable(wb') = Readable(wb) - n
      /\ \A i \in 1 .. Readable(wb) - n : Part(wmem, wb')[i] = Part(wmem, wb)[n + i]
  BY <1>1, <1>3, PartConsumed
<1>8. Unwritten' = Part(wmem, wb')
  BY <1>4 DEF Unwritten, Part
<1>9. /\ Unwritten' \in Seq(AnswerUnits) /\ Len(Unwritten') = Readable(wb) - n
      /\ \A i \in 1 .. Readable(wb) - n : Unwritten'[i] = Unwritten[n + i]
  <2>1. \A i \in 1 .. Readable(wb) - n : Unwritten'[i] = Unwritten[n + i]
    BY <1>7, <1>8, UnwrittenIsPart
  <2>2. \A i \in 1 .. Readable(wb) - n : Unwritten'[i] \in AnswerUnits
    BY <1>1, <1>2, <1>6, <2>1
  <2>3. Unwritten' = [i \in 1 .. Readable(wb) - n |-> Unwritten'[i]]
    BY <1>7, <1>8 DEF Part
  <2>4. Readable(wb) - n \in Nat
    BY <1>1
  <2>5. Unwritten' \in [1 .. Readable(wb) - n -> AnswerUnits]
    BY <2>2, <2>3
  <2> QED  BY <2>1, <2>4, <2>5, SeqDef
<1> DEFINE x == SubSeq(Unwritten, 1, n)
<1>10. /\ x \in Seq(AnswerUnits) /\ Len(x) = n
       /\ \A i \in 1 .. n : x[i] = Unwritten[i]
  BY <1>1, <1>2, <1>6
<1>11. got' = got \o x
  BY <1>3, <1>5
<1> HIDE DEF x
<1>12. got' \in Seq(AnswerUnits)
  BY <1>2, <1>10, <1>11
<1>13. (got \o x) \o Unwritten' = got \o Unwritten
  <2>1. Len(Unwritten) = Len(x) + Len(Unwritten')
    BY <1>1, <1>6, <1>9, <1>10
  <2>2. \A i \in 1 .. Len(x) : Unwritten[i] = x[i]
    BY <1>10
  <2>3. \A i \in 1 .. Len(Unwritten') : Unwritten[Len(x) + i] = Unwritten'[i]
    BY <1>9, <1>10
  <2>4. /\ got \in Seq(AnswerUnits) /\ x \in Seq(AnswerUnits)
        /\ Unwritten' \in Seq(AnswerUnits) /\ Unwritten \in Seq(AnswerUnits)
    BY <1>2, <1>9, <1>10
  <2>5. Unwritten = x \o Unwritten'
    BY <2>1, <2>2, <2>3, <2>4, InTwoParts
  <2>6. (got \o x) \o Unwritten' = got \o (x \o Unwritten')
    <3>1. \A p, q, z \in Seq(AnswerUnits) : (p \o q) \o z = p \o (q \o z)
      BY ConcatAssociative, SMTT(20)
    <3> HIDE DEF x
    <3> QED  BY <2>4, <3>1, SMTT(20)
  <2> QED  BY <2>5, <2>6, Zenon
<1> QED  BY <1>9, <1>11, <1>12, <1>13 DEF Answers

\* What a read brings goes to the end of the read buffer, or, while there is
\* an extra buffer, nowhere.
LEMMA ReadTakes ==
    ASSUME AInv, ReadData
    PROVE  \E n \in 1 .. Len(net) :
              /\ net' = SubSeq(net, n + 1, Len(net))
              /\ \/ Unread' = Unread
                 \/ /\ Len(Unread') = Len(Unread) + n
                    /\ \A i \in 1 .. Len(Unread) : Unread'[i] = Unread[i]
                    /\ \A i \in 1 .. n : Unread'[Len(Unread) + i] = net[i]
<1>1. TypeOK /\ rb \in Buffers /\ net \in Seq(Units) /\ net # <<>> /\ Writable(rb) > 0
  BY DEF AInv, IInv, TypeOK, ReadData
<1>2. PICK n \in Portions(Writable(rb)) :
        /\ rmem' = [i \in Cells |-> IF i \in rb.tail .. rb.tail + n - 1
                                    THEN net[i - rb.tail + 1] ELSE rmem[i]]
        /\ net' = SubSeq(net, n + 1, Len(net))
        /\ HandleRead(n, rmem')
  BY DEF ReadData
<1>3. Writable(rb) \in Nat \ {0}
  BY <1>1, WritableInside
<1>4. n \in 1 .. Writable(rb) /\ n \in 1 .. Len(net)
  BY <1>1, <1>3, PortionsFacts
<1>5. rb' = rb \/ rb' = Wrote(rb, n)
  BY <1>2 DEF HandleRead
<1>6. rmem' = Filled(rmem, rb, n, net)
  BY <1>2 DEF Filled
<1>7. /\ Readable(Wrote(rb, n)) = Readable(rb) + n
      /\ \A i \in 1 .. Readable(rb) :
            /\ Part(Filled(rmem, rb, n, net), rb)[i] = Part(rmem, rb)[i]
            /\ Part(Filled(rmem, rb, n, net), Wrote(rb, n))[i] = Part(rmem, rb)[i]
      /\ \A i \in 1 .. n :
            Part(Filled(rmem, rb, n, net), Wrote(rb, n))[Readable(rb) + i] = net[i]
  <2>1. n \in Nat \ {0} /\ n <= Writable(rb)
    BY <1>3, <1>4
  <2> QED  BY <1>1, <2>1, PartWrote
<1>8. /\ Unread' = Part(rmem', rb') /\ Unread = Part(rmem, rb)
      /\ Readable(rb) \in Nat /\ Len(Unread) = Readable(rb)
  BY <1>1, EmptyFacts, UnreadType DEF Unread, Part
<1>9. CASE rb' = rb
  <2>1. Unread' = [i \in 1 .. Readable(rb) |-> Unread'[i]]
    BY <1>8, <1>9 DEF Part
  <2>2. Unread = [i \in 1 .. Readable(rb) |-> Unread[i]]
    BY <1>8 DEF Part
  <2>3. \A i \in 1 .. Readable(rb) : Unread'[i] = Unread[i]
    BY <1>6, <1>7, <1>8, <1>9
  <2>4. Unread' = Unread
    BY <2>1, <2>2, <2>3
  <2> QED  BY <1>2, <1>4, <2>4
<1>10. CASE rb' = Wrote(rb, n)
  <2>1. Len(Unread') = Readable(rb) + n
    <3>1. Unread' = [i \in 1 .. Readable(rb) + n |-> Unread'[i]]
      BY <1>7, <1>8, <1>10 DEF Part
    <3>2. Readable(rb) + n \in Nat
      BY <1>4, <1>8
    <3> QED  BY <3>1, <3>2
  <2>2. \A i \in 1 .. Readable(rb) : Unread'[i] = Unread[i]
    BY <1>6, <1>7, <1>8, <1>10
  <2>3. \A i \in 1 .. n : Unread'[Readable(rb) + i] = net[i]
    BY <1>6, <1>7, <1>8, <1>10
  <2> QED  BY <1>2, <1>4, <1>8, <2>1, <2>2, <2>3
<1> QED  BY <1>5, <1>9, <1>10

\* What is left when units are taken from the read buffer.
LEMMA UnreadTaken ==
    ASSUME TypeOK, TypeOK', rmem' = rmem, NEW m \in Nat, m <= Readable(rb),
           rb' = Consumed(rb, m)
    PROVE  /\ Len(Unread') = Len(Unread) - m
           /\ \A i \in 1 .. Len(Unread') : Unread'[i] = Unread[m + i]
<1>1. rb \in Buffers
  BY DEF TypeOK
<1>2. /\ Readable(Consumed(rb, m)) = Readable(rb) - m
      /\ \A i \in 1 .. Readable(rb) - m :
            Part(rmem, Consumed(rb, m))[i] = Part(rmem, rb)[m + i]
  BY <1>1, PartConsumed
<1>3. Len(Unread) = Readable(rb)
  BY UnreadType
<1>4. Unread' \in Seq(Units) /\ Len(Unread') = Readable(rb')
  <2>1. /\ rb' \in Buffers /\ rmem' \in [Cells -> Units] /\ Readable(rb') \in Nat
    BY EmptyFacts DEF TypeOK
  <2>2. Part(rmem', rb') \in [1 .. Readable(rb') -> Units]
    BY <2>1, CellFacts DEF Part
  <2> QED  BY <2>1, <2>2, SeqDef DEF Unread
<1>5. Unread' = Part(rmem, Consumed(rb, m)) /\ Unread = Part(rmem, rb)
  BY DEF Unread, Part
<1> QED  BY <1>2, <1>3, <1>4, <1>5

LEMMA AStep == AInv /\ [Next]_vars => AInv'
<1> SUFFICES ASSUME AInv, [Next]_vars PROVE AInv'
  OBVIOUS
<1>0. IInv /\ IInv' /\ TypeOK /\ TypeOK'
  BY Step DEF AInv, IInv
<1>1. Unread \in Seq(Units) /\ net \in Seq(Units) /\ Len(sent) \in Nat
  BY <1>0, UnreadType DEF TypeOK
<1>2. ASSUME faults \subseteq faults',
             "write" \notin faults' =>
                 /\ got' \in Seq(AnswerUnits) /\ Unwritten' \in Seq(AnswerUnits)
                 /\ Whole(Answers'),
             faults' = {} => Order(Answers', Unread', net', Len(sent)')
      PROVE  AInv'
  BY <1>0, <1>2 DEF AInv, AnswersTyped, AnswersWhole, Whole, Answers, OneAfterTheOther
<1>3. "write" \notin faults => /\ got \in Seq(AnswerUnits) /\ Unwritten \in Seq(AnswerUnits)
                               /\ Answers \in Seq(AnswerUnits) /\ Whole(Answers)
  BY AnswersType, WholeAnswers DEF AInv, AnswersTyped
<1>4. faults = {} => Order(Answers, Unread, net, Len(sent))
  BY DEF AInv, OneAfterTheOther
<1>5. ASSUME UNCHANGED <<got, wb, wmem>>, faults \subseteq faults',
             faults' = {} => Order(Answers, Unread', net', Len(sent)')
      PROVE  AInv'
  <2>1. AnswersTyped' /\ AnswersWhole' /\ Answers' = Answers
    BY <1>5, NothingSaid
  <2> QED  BY <1>0, <1>5, <2>1 DEF AInv, OneAfterTheOther
<1>6. ASSUME UNCHANGED <<got, wb, wmem, rb, rmem, net, sent>>, faults \subseteq faults'
      PROVE  AInv'
  <2>1. Unread' = Unread
    BY <1>6 DEF Unread, Part
  <2>2. faults' = {} => faults = {}
    BY <1>6
  <2> QED  BY <1>4, <1>5, <1>6, <2>1, <2>2
<1>7. CASE ReadData
  <2>1. UNCHANGED <<got, wb, wmem, sent, faults>>
    BY <1>7 DEF ReadData
  <2>2. PICK n \in 1 .. Len(net) :
          /\ net' = SubSeq(net, n + 1, Len(net))
          /\ \/ Unread' = Unread
             \/ /\ Len(Unread') = Len(Unread) + n
                /\ \A i \in 1 .. Len(Unread) : Unread'[i] = Unread[i]
                /\ \A i \in 1 .. n : Unread'[Len(Unread) + i] = net[i]
    BY <1>7, ReadTakes
  <2>3. faults = {} => Order(Answers, Unread', net', Len(sent))
    <3>1. CASE Unread' = Unread
      <4>1. n \in 0 .. Len(net)
        OBVIOUS
      <4> QED  BY <1>1, <1>4, <2>2, <3>1, <4>1, OrderSkipped
    <3>2. CASE Unread' # Unread
      <4>1. Unread' \in Seq(Units)
        <5>1. /\ rb' \in Buffers /\ rmem' \in [Cells -> Units] /\ Readable(rb') \in Nat
          BY <1>0, EmptyFacts DEF TypeOK
        <5>2. Part(rmem', rb') \in [1 .. Readable(rb') -> Units]
          BY <5>1, CellFacts DEF Part
        <5> QED  BY <5>1, <5>2, SeqDef DEF Unread
      <4> QED  BY <1>1, <1>4, <2>2, <3>2, <4>1, OrderArrived
    <3> QED  BY <3>1, <3>2
  <2> QED  BY <1>5, <2>1, <2>3
<1>8. CASE ReadFails \/ ExtraFaults
  <2>1. UNCHANGED <<got, wb, wmem>> /\ faults' = faults \cup {"read"}
    BY <1>8 DEF ReadFails, ExtraFaults
  <2> QED  BY <1>5, <2>1
<1>9. CASE ExtraData
  <2>1. UNCHANGED <<got, wb, wmem, sent, faults, rmem>> /\ net # <<>> /\ extra # <<>>
    BY <1>9 DEF ExtraData
  <2>2. PICK n \in Portions(need) : net' = SubSeq(net, n + 1, Len(net)) /\ HandleRead(n, rmem)
    BY <1>9 DEF ExtraData
  <2>3. need \in Nat \ {0}
    BY <1>0, <2>1 DEF IInv, ExtraCovers, TypeOK
  <2>4. n \in 0 .. Len(net)
    BY <1>1, <2>1, <2>3, PortionsFacts
  <2>5. rb' = rb
    BY <2>1, <2>2 DEF HandleRead
  <2>6. Unread' = Unread
    BY <2>1, <2>5 DEF Unread, Part
  <2>7. faults = {} => Order(Answers, Unread, net', Len(sent))
    BY <1>1, <1>4, <2>2, <2>4, OrderSkipped
  <2> QED  BY <1>5, <2>1, <2>6, <2>7
<1>10. CASE Work
  <2>1. UNCHANGED <<net, sent, faults, rmem>>
    BY <1>10 DEF Work
  <2>2. CASE "write" \in faults
    BY <1>2, <2>1, <2>2
  <2>3. CASE "write" \notin faults
    <3>1. /\ got' = got
          /\ \/ Answers' = Answers /\ Unwritten' = Unwritten
             \/ /\ Unread # <<>> /\ Unread[1][1] \in 0 .. MaxRequests
                /\ \E n \in Nat \ {0} :
                      /\ Answers' = Answers \o Answer(Unread[1][1], n)
                      /\ Unwritten' = Answer(Unread[1][1], n)
          /\ rb' = rb \/ \E m \in Nat : m <= Readable(rb) /\ rb' = Consumed(rb, m)
      BY <1>10, <2>3, WorkSays
    <3>2. /\ got' \in Seq(AnswerUnits) /\ Unwritten' \in Seq(AnswerUnits)
          /\ Whole(Answers') /\ Answers' \in Seq(AnswerUnits)
          /\ faults = {} => Order(Answers', Unread, net, Len(sent))
      <4>1. CASE Answers' = Answers /\ Unwritten' = Unwritten
        BY <1>3, <1>4, <2>3, <3>1, <4>1
      <4>2. ASSUME Unread # <<>>, Unread[1][1] \in 0 .. MaxRequests, NEW n \in Nat \ {0},
                   Answers' = Answers \o Answer(Unread[1][1], n),
                   Unwritten' = Answer(Unread[1][1], n)
            PROVE  /\ Unwritten' \in Seq(AnswerUnits)
                   /\ Whole(Answers') /\ Answers' \in Seq(AnswerUnits)
                   /\ faults = {} => Order(Answers', Unread, net, Len(sent))
        <5>1. PICK a : a = Answers
          OBVIOUS
        <5>2. a \in Seq(AnswerUnits) /\ Whole(a) /\ (faults = {} => Order(a, Unread, net, Len(sent)))
          BY <1>3, <1>4, <2>3, <5>1
        <5>3. Answer(Unread[1][1], n) \in Seq(AnswerUnits)
          BY <4>2, AnswerFacts
        <5>4. Whole(a \o Answer(Unread[1][1], n))
          BY <4>2, <5>2, OneMore
        <5>5. faults = {} => Order(a \o Answer(Unread[1][1], n), Unread, net, Len(sent))
          BY <1>1, <4>2, <5>2, OrderAnswered
        <5>6. a \o Answer(Unread[1][1], n) \in Seq(AnswerUnits)
          BY <5>2, <5>3
        <5> QED  BY <4>2, <5>1, <5>3, <5>4, <5>5, <5>6
      <4> QED  BY <1>3, <2>3, <3>1, <4>1, <4>2
    <3>3. faults = {} => Order(Answers', Unread', net, Len(sent))
      <4>1. CASE rb' = rb
        <5>1. Unread' = Unread
          BY <2>1, <4>1 DEF Unread, Part
        <5> QED  BY <3>2, <5>1
      <4>2. ASSUME NEW m \in Nat, m <= Readable(rb), rb' = Consumed(rb, m)
            PROVE  faults = {} => Order(Answers', Unread', net, Len(sent))
        <5>1. /\ Len(Unread') = Len(Unread) - m
              /\ \A i \in 1 .. Len(Unread') : Unread'[i] = Unread[m + i]
          BY <1>0, <2>1, <4>2, UnreadTaken
        <5>2. PICK v : v = Unread'
          OBVIOUS
        <5>3. v \in Seq(Units)
          <6>1. /\ rb' \in Buffers /\ rmem' \in [Cells -> Units] /\ Readable(rb') \in Nat
            BY <1>0, EmptyFacts DEF TypeOK
          <6>2. Part(rmem', rb') \in [1 .. Readable(rb') -> Units]
            BY <6>1, CellFacts DEF Part
          <6> QED  BY <5>2, <6>1, <6>2, SeqDef DEF Unread
        <5>4. Len(v) = Len(Unread) - m /\ \A i \in 1 .. Len(v) : v[i] = Unread[m + i]
          BY <5>1, <5>2
        <5>5. faults = {} => Order(Answers', v, net, Len(sent))
          BY <1>1, <3>2, <5>3, <5>4, OrderConsumed
        <5> QED  BY <5>2, <5>5
      <4> QED  BY <3>1, <4>1, <4>2
    <3> QED  BY <1>2, <2>1, <3>2, <3>3
  <2> QED  BY <2>2, <2>3
<1>11. CASE WriteData
  <2>1. UNCHANGED <<rb, rmem, sent, net, faults>>
    BY <1>11 DEF WriteData
  <2>2. Unread' = Unread
    BY <2>1 DEF Unread, Part
  <2>3. CASE "write" \in faults
    BY <1>2, <2>1, <2>3
  <2>4. CASE "write" \notin faults
    <3>1. /\ got' \in Seq(AnswerUnits) /\ Unwritten' \in Seq(AnswerUnits)
          /\ Answers' = Answers
      BY <1>11, <2>4, WriteSays
    <3> QED  BY <1>2, <1>3, <1>4, <2>1, <2>2, <2>4, <3>1
  <2> QED  BY <2>3, <2>4
<1>12. CASE Accept
  <2>1. /\ UNCHANGED <<rb, rmem, wb, wmem, sent, faults>> /\ op = "none"
        /\ net' = <<>> /\ got' = <<>>
    BY <1>12 DEF Accept, buffers
  <2>2. Unread' = Unread /\ Unwritten' = Unwritten
    BY <2>1 DEF Unread, Part, Unwritten
  <2>3. "write" \notin faults => Unwritten = <<>>
    BY <1>0, <2>1, NothingUnwritten DEF IInv, Piece
  <2>4. "write" \notin faults => Answers' = <<>>
    BY <2>1, <2>2, <2>3 DEF Answers
  <2>5. Whole(<<>>)
    BY DEF Whole
  <2>6. faults = {} => Order(<<>>, Unread, <<>>, Len(sent))
    BY <1>4 DEF Order, Sorted, Before, UpTo
  <2>7. <<>> \in Seq(AnswerUnits)
    OBVIOUS
  <2>8. "write" \notin faults' =>
            /\ got' \in Seq(AnswerUnits) /\ Unwritten' \in Seq(AnswerUnits)
            /\ Whole(Answers')
    BY <2>1, <2>2, <2>3, <2>4, <2>5, <2>7
  <2>9. faults' = {} => Order(Answers', Unread', net', Len(sent)')
    BY <2>1, <2>2, <2>4, <2>6
  <2> QED  BY <1>2, <2>1, <2>8, <2>9
<1>13. ASSUME NEW kind \in Kinds, ClientSends(kind)
       PROVE  AInv'
  <2>1. /\ UNCHANGED <<got, rb, rmem, wb, wmem, faults>> /\ Len(sent)' = Len(sent) + 1
        /\ Len(sent) + 1 \in 1 .. MaxRequests
    BY <1>0, <1>13, ClientsAssumption DEF ClientSends, buffers, TypeOK
  <2>2. Unread' = Unread
    BY <2>1 DEF Unread, Part
  <2> DEFINE q == Request(Len(sent) + 1, kind)
  <2>3. q \in Seq(Units) /\ \A i \in DOMAIN q : q[i][1] = Len(sent) + 1
    <3>1. q \in [1 .. Size(kind) -> Units] /\ Size(kind) \in Nat
      BY <2>1, UnitsAssumption DEF Request, Size, Units
    <3>2. \A i \in DOMAIN q : q[i][1] = Len(sent) + 1
      BY DEF Request
    <3> QED  BY <3>1, <3>2, SeqDef
  <2>4. net' = net \o q
    BY <1>13 DEF ClientSends
  <2> HIDE DEF q
  <2>5. faults = {} => Order(Answers, Unread, net \o q, Len(sent) + 1)
    BY <1>1, <1>3, <1>4, <2>3, OrderSent
  <2> QED  BY <1>5, <2>1, <2>2, <2>4, <2>5
<1>14. CASE ReadEof \/ ExtraEof \/ Closed \/ WriteFails \/ MainTask \/ ClientCloses
  <2>1. UNCHANGED <<got, wb, wmem, rb, rmem, net, sent>> /\ faults \subseteq faults'
    BY <1>14 DEF ReadEof, ExtraEof, Closed, WriteFails, MainTask, ClientCloses, buffers
  <2> QED  BY <1>6, <2>1
<1>15. CASE UNCHANGED vars
  <2>1. UNCHANGED <<got, wb, wmem, rb, rmem, net, sent>> /\ faults \subseteq faults'
    BY <1>15 DEF vars, buffers
  <2> QED  BY <1>6, <2>1
<1> QED  BY <1>7, <1>8, <1>9, <1>10, <1>11, <1>12, <1>13, <1>14, <1>15 DEF Next, ServerStep

\* AInv is an invariant of the connection.
THEOREM AnswersInvariance == Spec => []AInv
<1> QED  BY InitAInv, AStep, PTL DEF Spec

\* Whatever the sizes of answers, of the buffer and of the parts that a write
\* takes: a client receives whole answers, one after the other
\* (send_simple_response, handle_write_event), unless a write fails.
THEOREM WholeAnswersOnly == Spec => []AnswersWhole
<1>1. AInv => AnswersWhole
  BY DEF AInv
<1> QED  BY <1>1, AnswersInvariance, PTL

\* The answers are those to the client's requests in their order, for every
\* way in which requests and answers go around the end of the buffers, as long
\* as no read and no write fails.
THEOREM OrderedAnswers == Spec => []AnswersInOrder
<1>1. ASSUME AInv PROVE AnswersInOrder
  <2> SUFFICES ASSUME faults = {}, NEW i \in DOMAIN got, NEW j \in DOMAIN got, i < j
               PROVE  got[i][1] <= got[j][1]
    BY DEF AnswersInOrder
  <2>1. got \in Seq(AnswerUnits) /\ Unwritten \in Seq(AnswerUnits) /\ Sorted(Answers)
    BY <1>1 DEF AInv, AnswersTyped, OneAfterTheOther, Order
  <2>2. /\ DOMAIN Answers = 1 .. Len(got) + Len(Unwritten)
        /\ \A n \in 1 .. Len(got) : Answers[n] = got[n]
    BY <2>1, Joined DEF Answers
  <2>3. i \in 1 .. Len(got) /\ j \in 1 .. Len(got) /\ Len(Unwritten) \in Nat
    BY <2>1
  <2>4. i \in DOMAIN Answers /\ j \in DOMAIN Answers /\ i <= j
    BY <2>2, <2>3
  <2> QED  BY <2>1, <2>2, <2>3, <2>4 DEF Sorted
<1> QED  BY <1>1, AnswersInvariance, PTL

---------------------------------------------------------------------------
(* The extra buffers in the memory that they come from.                    *)

\* The blocks that were given are distinct and lie apart from those that are
\* free, and the last one is behind the extra buffer.
Buffered(fl, hs, x) ==
    /\ hs \in Seq(AnyBlock) /\ IsInjective(hs) /\ Sound(fl, ToSet(hs))
    /\ x # <<>> => hs # <<>> /\ Last(hs).size >= Len(x)

BInv == IInv /\ Buffered(free, held, extra)

LEMMA AddedAtEnd ==
    ASSUME NEW S, NEW q \in Seq(S), IsInjective(q), NEW b \in S, b \notin ToSet(q)
    PROVE  /\ Append(q, b) \in Seq(S) /\ IsInjective(Append(q, b))
           /\ ToSet(Append(q, b)) = ToSet(q) \cup {b}
           /\ Append(q, b) # <<>> /\ Last(Append(q, b)) = b
<1>1. PICK r : r = Append(q, b)
  OBVIOUS
<1>2. Len(q) \in Nat /\ DOMAIN q = 1 .. Len(q)
  OBVIOUS
<1>3. /\ r \in Seq(S) /\ Len(r) = Len(q) + 1 /\ r[Len(q) + 1] = b
      /\ \A i \in 1 .. Len(q) : r[i] = q[i]
  BY <1>1
<1>4. DOMAIN r = 1 .. Len(q) + 1 /\ r # <<>>
  BY <1>2, <1>3
<1>5. Last(r) = b
  BY <1>3 DEF Last
<1>6. \A i \in 1 .. Len(q) : q[i] \in ToSet(q) /\ q[i] # b
  BY <1>2 DEF ToSet
<1>7. IsInjective(r)
  <2>1. ASSUME NEW i \in DOMAIN r, NEW j \in DOMAIN r, r[i] = r[j] PROVE i = j
    <3>1. CASE i \in 1 .. Len(q) /\ j \in 1 .. Len(q)
      BY <1>2, <1>3, <2>1, <3>1 DEF IsInjective
    <3>2. CASE ~(i \in 1 .. Len(q)) /\ ~(j \in 1 .. Len(q))
      BY <1>2, <1>4, <3>2
    <3>3. CASE ~(i \in 1 .. Len(q) <=> j \in 1 .. Len(q))
      BY <1>2, <1>3, <1>4, <1>6, <2>1, <3>3
    <3> QED  BY <3>1, <3>2, <3>3
  <2> QED  BY <2>1 DEF IsInjective
<1>8. ToSet(r) = ToSet(q) \cup {b}
  <2>1. \A i \in DOMAIN r : r[i] \in ToSet(q) \cup {b}
    BY <1>2, <1>3, <1>4, <1>6
  <2>2. \A i \in DOMAIN q : i \in DOMAIN r /\ r[i] = q[i]
    BY <1>2, <1>3, <1>4
  <2>3. Len(q) + 1 \in DOMAIN r
    BY <1>2, <1>4
  <2> QED  BY <1>3, <2>1, <2>2, <2>3 DEF ToSet
<1> QED  BY <1>1, <1>3, <1>4, <1>5, <1>7, <1>8

LEMMA InitBInv == Init => BInv
<1> SUFFICES ASSUME Init PROVE BInv
  OBVIOUS
<1>1. IInv /\ free = AllFree /\ held = <<>> /\ extra = <<>>
  BY InitIInv DEF Init
<1>2. ToSet(held) = {} /\ held \in Seq(AnyBlock) /\ IsInjective(held)
  BY <1>1 DEF ToSet, IsInjective
<1>3. Sound(free, ToSet(held))
  BY <1>1, <1>2, SoundAtFirst
<1> QED  BY <1>1, <1>2, <1>3 DEF BInv, Buffered

\* The task asks for as much as it then reads, and remembers the block.
LEMMA MainTaskBuffers == ASSUME BInv, MainTask PROVE Buffered(free', held', extra')
<1>1. /\ held \in Seq(AnyBlock) /\ IsInjective(held) /\ Sound(free, ToSet(held))
      /\ need \in Nat
  BY UnitsAssumption DEF BInv, Buffered, IInv, TypeOK
<1>2. PICK a : a = AllocateBuffer(free, need)
  OBVIOUS
<1>3. /\ free' = a.free
      /\ a.block = NoBlock => extra' = <<>> /\ held' = held
      /\ a.block # NoBlock => /\ extra' = [i \in 1 .. need |-> Blank]
                              /\ held' = Append(held, a.block)
  BY <1>2 DEF MainTask
<1>4. CASE a.block = NoBlock
  <2>1. a.free = free
    BY <1>1, <1>2, <1>4, AllocateKeeps
  <2> QED  BY <1>1, <1>3, <1>4, <2>1 DEF Buffered
<1>5. CASE a.block # NoBlock
  <2>1. /\ a.block \in AnyBlock /\ a.block \notin ToSet(held)
        /\ a.block.size >= need /\ Sound(a.free, ToSet(held) \cup {a.block})
    <3>1. PICK B : B = ToSet(held)
      OBVIOUS
    <3>2. Sound(free, B)
      BY <1>1, <3>1
    <3>3. /\ a.block \in AnyBlock /\ a.block \notin B
          /\ a.block.size >= need /\ Sound(a.free, B \cup {a.block})
      BY <1>1, <1>2, <1>5, <3>2, AllocateKeeps
    <3> QED  BY <3>1, <3>3
  <2>2. PICK b \in AnyBlock : b = a.block
    BY <2>1
  <2>3. /\ Append(held, b) \in Seq(AnyBlock) /\ IsInjective(Append(held, b))
        /\ ToSet(Append(held, b)) = ToSet(held) \cup {b}
        /\ Append(held, b) # <<>> /\ Last(Append(held, b)) = b
    BY <1>1, <2>1, <2>2, AddedAtEnd
  <2>4. held' = Append(held, b) /\ Len(extra') = need
    BY <1>1, <1>3, <1>5, <2>2
  <2> QED  BY <1>3, <2>1, <2>2, <2>3, <2>4 DEF Buffered
<1> QED  BY <1>4, <1>5

LEMMA ExtraKeepsSize == ASSUME IInv, ExtraData PROVE extra # <<>> /\ Len(extra') = Len(extra)
<1>1. /\ TypeOK /\ extra # <<>> /\ net # <<>>
      /\ extra \in Seq(Units) /\ net \in Seq(Units) /\ Len(extra) = need
  BY DEF IInv, TypeOK, ExtraCovers, ExtraData
<1>2. PICK n \in Portions(need) :
        extra' = SubSeq(net, 1, n) \o SubSeq(extra, n + 1, Len(extra))
  BY DEF ExtraData
<1>3. n \in 1 .. need /\ n <= Len(net) /\ need \in Nat \ {0} /\ Len(net) \in Nat
  <2>1. need \in Nat \ {0} /\ Len(net) \in Nat
    BY <1>1
  <2>2. n \in 1 .. need /\ n <= Len(net)
    BY <1>1, <2>1, PortionsFacts
  <2> QED  BY <2>1, <2>2
<1>4. PICK x : x = SubSeq(net, 1, n) /\ x \in Seq(Units) /\ Len(x) = n
  <2>1. SubSeq(net, 1, n) \in Seq(Units) /\ Len(SubSeq(net, 1, n)) = n
    BY <1>1, <1>3
  <2> QED  BY <2>1
<1>5. PICK y : y = SubSeq(extra, n + 1, Len(extra)) /\ y \in Seq(Units) /\ Len(y) = need - n
  <2>1. /\ SubSeq(extra, n + 1, Len(extra)) \in Seq(Units)
        /\ Len(SubSeq(extra, n + 1, Len(extra))) = need - n
    BY <1>1, <1>3
  <2> QED  BY <2>1
<1>6. Len(x \o y) = Len(x) + Len(y)
  BY <1>4, <1>5
<1> QED  BY <1>1, <1>2, <1>3, <1>4, <1>5, <1>6

LEMMA BStep == BInv /\ [Next]_vars => BInv'
<1> SUFFICES ASSUME BInv, [Next]_vars PROVE Buffered(free', held', extra')
  BY Step DEF BInv
<1>1. IInv /\ Buffered(free, held, extra)
  BY DEF BInv
<1>2. ASSUME free' = free, held' = held,
             extra' = extra \/ extra' = <<>> \/ (extra # <<>> /\ Len(extra') = Len(extra))
      PROVE  Buffered(free', held', extra')
  BY <1>1, <1>2 DEF Buffered
<1>3. CASE MainTask
  BY <1>3, MainTaskBuffers
<1>4. CASE ExtraData
  <2>1. extra # <<>> /\ Len(extra') = Len(extra)
    BY <1>1, <1>4, ExtraKeepsSize
  <2> QED  BY <1>2, <1>4, <2>1 DEF ExtraData
<1>5. CASE Work
  <2>1. extra' = extra \/ extra' = <<>>
    BY <1>5 DEF Work, HandleMessage
  <2> QED  BY <1>2, <1>5, <2>1 DEF Work
<1>6. CASE ReadData \/ ReadFails \/ ExtraFaults
  BY <1>2, <1>6 DEF ReadData, ReadFails, ExtraFaults
<1>7. CASE ReadEof \/ ExtraEof \/ WriteData \/ WriteFails \/ Closed
  BY <1>2, <1>7 DEF ReadEof, ExtraEof, WriteData, WriteFails, Closed, buffers
<1>8. CASE Accept \/ ClientCloses \/ \E kind \in Kinds : ClientSends(kind)
  BY <1>2, <1>8 DEF Accept, ClientCloses, ClientSends, buffers
<1>9. CASE UNCHANGED vars
  BY <1>2, <1>9 DEF vars, buffers
<1> QED  BY <1>3, <1>4, <1>5, <1>6, <1>7, <1>8, <1>9 DEF Next, ServerStep

\* BInv is an invariant of the connection.
THEOREM BuffersInvariance == Spec => []BInv
<1> QED  BY InitBInv, BStep, PTL DEF Spec

\* For a memory of every size and requests of every length: extra buffers lie
\* apart from each other and from the free blocks, inside the memory, and the
\* last is as large as what is read into it (io_uring_queue_extra_read).
THEOREM ExtraBuffersApart == Spec => []BlocksApart
<1>1. ASSUME BInv PROVE BlocksApart
  <2>1. /\ Sound(free, ToSet(held)) /\ IsInjective(held)
        /\ extra # <<>> => Last(held).size >= Len(extra)
    BY <1>1 DEF BInv, Buffered
  <2>2. ASSUME NEW b \in Listed(free) \cup ToSet(held)
        PROVE  Cover(b) \subseteq 0 .. PoolSize - 1
    <3>1. b \in AnyBlock /\ b.size > 0 /\ b.addr + b.size <= PoolSize
      BY <2>1, <2>2, ListedTyped DEF Sound, Inside
    <3> QED  BY <3>1, PoolAssumption DEF AnyBlock, Cover
  <2> QED  BY <2>1, <2>2 DEF Sound, BlocksApart
<1> QED  BY <1>1, BuffersInvariance, PTL
=============================================================================
