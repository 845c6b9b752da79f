------------------------- MODULE UringServerProofs -------------------------
(***************************************************************************)
(* For every pool, queue size and bound: the types of UringServer, the     *)
(* ownership of connections and the agreement of conn->state with the      *)
(* operation that is pending.                                              *)
(*                                                                         *)
(* Every handler takes the pointer out of one place and puts it into one   *)
(* other.  The lemmas say what the operations on the rings do to a clean   *)
(* bookkeeping (no pointer twice, every pointer to a connection in use and *)
(* in the state its place asks for); the step theorem then has one case    *)
(* per action.                                                             *)
(***************************************************************************)
EXTENDS UringServer, TLAPS

\* The state that a pointer at place p requires of its connection.
Expected(p) == IF p \in TaskPlaces THEN "read" ELSE p[2]

\* The rings g are clean for the states s and the set live of connections
\* that may have a pointer somewhere.
Clean(g, s, live) ==
    /\ ~g.twice
    /\ \A c \in Conns : \A p, q \in g.ref[c] : p = q
    /\ \A c \in Conns : g.ref[c] # {} => c \in live
    /\ \A c \in Conns : \A p \in g.ref[c] : s[c] = Expected(p)

IoType ==
    [ref : [Conns -> SUBSET Places], twice : BOOLEAN, blank : Nat,
     past : SUBSET (Conns \X Ops), again : BOOLEAN, fails : Nat]

\* The inductive invariant: as long as no operation was repeated, the rings
\* are clean for the connections in use, and a lost one is never released.
IInv ==
    /\ TypeOK
    /\ ~io.again => Clean(io, st, inuse \ lost) /\ lost \subseteq inuse

---------------------------------------------------------------------------
(* Places.                                                                 *)

LEMMA PlacesFacts ==
    /\ \A op \in Ops : Sq(op) \in Places /\ Kern(op) \in Places
                       /\ Sq(op) \notin TaskPlaces /\ Kern(op) \notin TaskPlaces
                       /\ Expected(Sq(op)) = op /\ Expected(Kern(op)) = op
    /\ \A op \in Ops, res \in Results :
           Cq(op, res) \in Places /\ Expected(Cq(op, res)) = op
    /\ \A p \in TaskPlaces : p \in Places /\ Expected(p) = "read"
    /\ \A p \in SqPlaces : p[2] \in Ops /\ p = Sq(p[2])
BY DEF Places, SqPlaces, KernPlaces, CqPlaces, TaskPlaces, Sq, Kern, Cq,
       MainQ, Queued, Running, Callback, Expected

\* Putting a pointer where none is keeps the rings clean.
LEMMA PutClean ==
    ASSUME NEW g \in IoType, NEW s, NEW live, NEW c \in Conns, NEW p \in Places,
           g.ref[c] = {}
    PROVE  /\ Put(g, c, p) \in IoType
           /\ Put(g, c, p).again = g.again
           /\ \A s2, live2 :
                 /\ Clean(g, s, live)
                 /\ \A d \in Conns \ {c} : s2[d] = s[d] /\ (d \in live => d \in live2)
                 /\ c \in live2 /\ s2[c] = Expected(p)
                 => Clean(Put(g, c, p), s2, live2)
BY DEF Put, IoType, Clean

LEMMA PutType ==
    ASSUME NEW g \in IoType, NEW c \in Conns, NEW p \in Places
    PROVE  Put(g, c, p) \in IoType /\ Put(g, c, p).again = g.again
BY DEF Put, IoType

\* Taking the only pointer of c leaves none; c may then change freely.
LEMMA TakeClean ==
    ASSUME NEW g \in IoType, NEW s, NEW live, NEW c \in Conns, NEW p \in g.ref[c]
    PROVE  /\ Take(g, c, p) \in IoType
           /\ Take(g, c, p).again = g.again
           /\ Clean(g, s, live) =>
                 /\ Take(g, c, p).ref[c] = {}
                 /\ c \in live /\ s[c] = Expected(p)
                 /\ \A s2, live2 :
                       (\A d \in Conns \ {c} : s2[d] = s[d] /\ (d \in live => d \in live2))
                         => Clean(Take(g, c, p), s2, live2)
BY DEF Take, IoType, Clean

LEMMA FlushClean ==
    ASSUME NEW g \in IoType, NEW s, NEW live
    PROVE  /\ Flush(g) \in IoType
           /\ Flush(g).again = g.again
           /\ \A c \in Conns : g.ref[c] = {} => Flush(g).ref[c] = {}
           /\ Clean(g, s, live) => Clean(Flush(g), s, live)
<1> DEFINE moved(p) == IF p \in SqPlaces THEN Kern(p[2]) ELSE p
<1>1. \A p \in Places : moved(p) \in Places /\ Expected(moved(p)) = Expected(p)
  BY PlacesFacts
<1>2. \A c \in Conns : Flush(g).ref[c] = {moved(p) : p \in g.ref[c]}
  BY DEF Flush, IoType
<1>3. Flush(g) \in IoType
  <2>1. \A c \in Conns : {moved(p) : p \in g.ref[c]} \subseteq Places
    BY <1>1 DEF IoType
  <2> QED  BY <2>1 DEF Flush, IoType
<1>4. Flush(g).again = g.again /\ Flush(g).twice = g.twice
  BY DEF Flush, IoType
<1>5. ASSUME Clean(g, s, live)
      PROVE  Clean(Flush(g), s, live)
  <2>1. ~Flush(g).twice
    BY <1>4, <1>5 DEF Clean
  <2>2. \A c \in Conns : \A p, q \in Flush(g).ref[c] : p = q
    BY <1>2, <1>5 DEF Clean
  <2>3. \A c \in Conns : Flush(g).ref[c] # {} => c \in live
    BY <1>2, <1>5 DEF Clean
  <2>4. \A c \in Conns : \A p \in Flush(g).ref[c] : s[c] = Expected(p)
    BY <1>1, <1>2, <1>5 DEF Clean, IoType
  <2> QED  BY <2>1, <2>2, <2>3, <2>4 DEF Clean
<1>6. \A c \in Conns : g.ref[c] = {} => Flush(g).ref[c] = {}
  BY <1>2
<1> QED  BY <1>3, <1>4, <1>5, <1>6

LEMMA SubmitClean ==
    ASSUME NEW g \in IoType, NEW h \in Submit(g)
    PROVE  /\ h \in IoType /\ h.again = g.again
           /\ \A c \in Conns : g.ref[c] = {} => h.ref[c] = {}
           /\ \A s, live : Clean(g, s, live) => Clean(h, s, live)
<1>1. CASE h = Flush(g)
  BY <1>1, FlushClean
<1>2. CASE h = [g EXCEPT !.fails = @ + 1]
  BY <1>2 DEF IoType, Clean
<1> QED  BY <1>1, <1>2 DEF Submit

LEMMA RetriedClean ==
    ASSUME NEW g \in IoType, NEW h \in Retried(g)
    PROVE  /\ h \in IoType /\ h.again = g.again
           /\ \A c \in Conns : g.ref[c] = {} => h.ref[c] = {}
           /\ \A s, live : Clean(g, s, live) => Clean(h, s, live)
BY SubmitClean DEF Retried

\* The states of connections without a pointer do not matter, nor whether
\* they are live.
LEMMA Reframe ==
    ASSUME NEW g, NEW s, NEW live, NEW c \in Conns, NEW s2, NEW live2,
           Clean(g, s, live), g.ref[c] = {},
           \A d \in Conns \ {c} : s2[d] = s[d] /\ (d \in live => d \in live2)
    PROVE  Clean(g, s2, live2)
BY DEF Clean

LEMMA SetEventClean ==
    ASSUME NEW g \in IoType, NEW c \in Conns, NEW op \in Ops,
           NEW e \in SetEvent(g, c, op)
    PROVE  /\ e.posted \in BOOLEAN
           /\ e.g \in IoType /\ e.g.again = g.again
           /\ \A s, live, s2, live2 :
                 /\ Clean(g, s, live) /\ g.ref[c] = {}
                 /\ \A d \in Conns \ {c} : s2[d] = s[d] /\ (d \in live => d \in live2)
                 /\ e.posted => c \in live2 /\ s2[c] = op
                 => Clean(e.g, s2, live2)
<1>1. CASE \E h \in Retried(g) : e = [posted |-> FALSE, g |-> h]
  <2>1. PICK h \in Retried(g) : e = [posted |-> FALSE, g |-> h]
    BY <1>1
  <2>2. e.posted = FALSE /\ e.g = h
    BY <2>1
  <2>3. \A s, live, s2, live2 :
           /\ Clean(g, s, live) /\ g.ref[c] = {}
           /\ \A d \in Conns \ {c} : s2[d] = s[d] /\ (d \in live => d \in live2)
           => Clean(h, s2, live2)
    BY RetriedClean, Reframe
  <2> QED  BY <2>2, <2>3, RetriedClean
<1>2. CASE \E k \in Retried(g) : \E h \in Submit(Put(k, c, Sq(op))) :
             e = [posted |-> TRUE, g |-> h]
  <2>0. PICK k \in Retried(g) : \E h \in Submit(Put(k, c, Sq(op))) :
            e = [posted |-> TRUE, g |-> h]
    BY <1>2
  <2>1. PICK h \in Submit(Put(k, c, Sq(op))) : e = [posted |-> TRUE, g |-> h]
    BY <2>0
  <2>2. e.posted = TRUE /\ e.g = h
    BY <2>1
  <2>3. k \in IoType /\ k.again = g.again
        /\ (g.ref[c] = {} => k.ref[c] = {})
        /\ \A s, live : Clean(g, s, live) => Clean(k, s, live)
    BY RetriedClean
  <2>4. Sq(op) \in Places /\ Expected(Sq(op)) = op
    BY PlacesFacts
  <2>5. Put(k, c, Sq(op)) \in IoType /\ Put(k, c, Sq(op)).again = g.again
    BY <2>3, <2>4, PutType
  <2>6. h \in IoType /\ h.again = g.again
        /\ \A s, live : Clean(Put(k, c, Sq(op)), s, live) => Clean(h, s, live)
    BY <2>5, SubmitClean
  <2>7. ASSUME NEW s, NEW live, NEW s2, NEW live2,
               Clean(g, s, live), g.ref[c] = {},
               \A d \in Conns \ {c} : s2[d] = s[d] /\ (d \in live => d \in live2),
               c \in live2, s2[c] = op
        PROVE  Clean(h, s2, live2)
    <3>1. Clean(k, s, live) /\ k.ref[c] = {}
      BY <2>3, <2>7
    <3>2. Clean(Put(k, c, Sq(op)), s2, live2)
      BY <3>1, <2>3, <2>4, <2>7, PutClean
    <3> QED  BY <3>2, <2>6
  <2> QED  BY <2>2, <2>6, <2>7
<1> QED  BY <1>1, <1>2 DEF SetEvent

---------------------------------------------------------------------------
(* set_accept_event.                                                       *)

LEMMA UnpreparedType ==
    ASSUME NEW g \in IoType, NEW h \in Unprepared(g)
    PROVE  /\ h \in IoType
           /\ ~h.again => ~g.again /\ \A s, live : Clean(g, s, live) => Clean(h, s, live)
<1>1. CASE h = [g EXCEPT !.blank = @ + 1]
  BY <1>1 DEF IoType, Clean
<1>2. CASE \E x \in g.past : h = [Put(g, x[1], Sq(x[2])) EXCEPT !.again = TRUE]
  <2>1. PICK x \in g.past : h = [Put(g, x[1], Sq(x[2])) EXCEPT !.again = TRUE]
    BY <1>2
  <2>2. x[1] \in Conns /\ x[2] \in Ops
    BY DEF IoType
  <2>3. Put(g, x[1], Sq(x[2])) \in IoType
    BY <2>2, PutType, PlacesFacts
  <2> QED  BY <2>1, <2>3 DEF IoType
<1> QED  BY <1>1, <1>2 DEF Unprepared

LEMMA SetAcceptClean ==
    ASSUME NEW g \in IoType, NEW s \in [Conns -> Ops], NEW f \in [Conns -> Nat],
           NEW next, NEW gone,
           inuse \subseteq Conns, denied \in Nat,
           SetAccept(g, s, f, next)
    PROVE  /\ io' \in IoType
           /\ st' \in [Conns -> Ops] /\ fd' \in [Conns -> Nat]
           /\ inuse' \subseteq Conns /\ denied' \in Nat
           /\ pc' \in {next, "hung"}
           /\ ~io'.again =>
                 /\ ~g.again
                 /\ Clean(g, s, inuse \ gone) /\ gone \subseteq inuse
                      => Clean(io', st', inuse' \ gone) /\ gone \subseteq inuse'
<1>1. CASE Full(g) /\ io' = g /\ st' = s /\ fd' = f /\ pc' = next
           /\ denied' = denied + 1 /\ inuse' = inuse
  BY <1>1
<1>2. CASE \E c \in Conns \ inuse :
             /\ io' = Put(g, c, Sq("accept"))
             /\ st' = [s EXCEPT ![c] = "accept"]
             /\ fd' = [f EXCEPT ![c] = NoFd]
             /\ inuse' = inuse \cup {c}
             /\ pc' = next /\ denied' = denied
  <2>1. PICK c \in Conns \ inuse :
             /\ io' = Put(g, c, Sq("accept"))
             /\ st' = [s EXCEPT ![c] = "accept"]
             /\ fd' = [f EXCEPT ![c] = NoFd]
             /\ inuse' = inuse \cup {c}
             /\ pc' = next /\ denied' = denied
    BY <1>2
  <2>2. Sq("accept") \in Places /\ Expected(Sq("accept")) = "accept"
    BY PlacesFacts DEF Ops
  <2>3. io' \in IoType /\ io'.again = g.again
    BY <2>1, <2>2, PutType
  <2>4. st' \in [Conns -> Ops] /\ fd' \in [Conns -> Nat]
    BY <2>1 DEF Ops, NoFd
  <2>5. ASSUME Clean(g, s, inuse \ gone), gone \subseteq inuse
        PROVE  Clean(io', st', inuse' \ gone)
    <3>1. g.ref[c] = {}
      BY <2>1, <2>5 DEF Clean
    <3>2. \A d \in Conns \ {c} :
              st'[d] = s[d] /\ (d \in inuse \ gone => d \in inuse' \ gone)
      BY <2>1
    <3>3. c \in inuse' \ gone /\ st'[c] = Expected(Sq("accept"))
      BY <2>1, <2>2, <2>5
    <3> QED  BY <2>1, <2>2, <2>5, <3>1, <3>2, <3>3, PutClean
  <2> QED  BY <2>1, <2>3, <2>4, <2>5
<1>3. CASE io' \in Unprepared(g) /\ st' = s /\ fd' = f /\ denied' = denied + 1
           /\ pc' \in {next, "hung"} /\ inuse' = inuse
  BY <1>3, UnpreparedType
<1> QED  BY <1>1, <1>2, <1>3 DEF SetAccept

---------------------------------------------------------------------------
(* One pointer of a connection is taken out of its place p.                *)

Owned(g, c) ==
    /\ g \in IoType /\ g.again = io.again
    /\ ~io.again =>
          /\ g.ref[c] = {} /\ c \in inuse /\ c \notin lost
          /\ Clean(g, st, inuse \ lost)

LEMMA TakeOwned ==
    ASSUME IInv, NEW c \in Conns, NEW p \in io.ref[c]
    PROVE  /\ Owned(Take(io, c, p), c)
           /\ ~io.again => st[c] = Expected(p)
<1>1. io \in IoType
  BY DEF IInv, TypeOK, IoType
<1>2. /\ Take(io, c, p) \in IoType
      /\ Take(io, c, p).again = io.again
  BY <1>1, TakeClean
<1>3. ASSUME ~io.again
      PROVE  /\ Take(io, c, p).ref[c] = {} /\ c \in inuse \ lost /\ st[c] = Expected(p)
             /\ Clean(Take(io, c, p), st, inuse \ lost)
  <2>1. Clean(io, st, inuse \ lost)
    BY <1>3 DEF IInv
  <2> QED  BY <1>1, <2>1, TakeClean
<1> QED  BY <1>2, <1>3 DEF Owned

LEMMA ArrivedOwned ==
    ASSUME IInv, NEW c \in Conns, NEW s, NEW op \in Ops, NEW res \in Results,
           Arrived(c, s, op, res)
    PROVE  Owned(RingAfter(c, op, res), c)
BY TakeOwned DEF Arrived, RingAfter

\* The pointer is put down again at a place that asks for the state st'[c].
LEMMA PutOwned ==
    ASSUME IInv, NEW c \in Conns, NEW g, Owned(g, c), NEW p \in Places,
           io' = Put(g, c, p), st' \in [Conns -> Ops],
           ~io.again => st'[c] = Expected(p),
           \A d \in Conns \ {c} : st'[d] = st[d],
           inuse' = inuse, lost' = lost
    PROVE  /\ io' \in IoType
           /\ ~io'.again => Clean(io', st', inuse' \ lost') /\ lost' \subseteq inuse'
<1>1. g \in IoType
  BY DEF Owned
<1>2. io' \in IoType /\ io'.again = g.again
  BY <1>1, PutType
<1>3. ASSUME ~io'.again
      PROVE  Clean(io', st', inuse' \ lost')
  <2>1. g.ref[c] = {} /\ c \in inuse \ lost /\ Clean(g, st, inuse \ lost)
        /\ st'[c] = Expected(p)
    BY <1>2, <1>3 DEF Owned
  <2> QED  BY <1>1, <2>1, PutClean
<1> QED  BY <1>2, <1>3 DEF Owned, IInv

\* The pointer is dropped: the connection is released or lost.
LEMMA DropOwned ==
    ASSUME IInv, NEW c \in Conns, NEW g, Owned(g, c), io' = g, st' = st,
           \/ inuse' = inuse \ {c} /\ lost' = lost
           \/ inuse' = inuse /\ lost' = lost \cup {c}
    PROVE  /\ io' \in IoType
           /\ ~io'.again => Clean(io', st', inuse' \ lost') /\ lost' \subseteq inuse'
<1>1. ASSUME ~io'.again
      PROVE  Clean(io', st', inuse' \ lost') /\ lost' \subseteq inuse'
  <2>1. g.ref[c] = {} /\ c \in inuse /\ c \notin lost /\ Clean(g, st, inuse \ lost)
        /\ lost \subseteq inuse
    BY <1>1 DEF Owned, IInv
  <2>2. \A d \in Conns \ {c} : d \in inuse \ lost => d \in inuse' \ lost'
    OBVIOUS
  <2> QED  BY <2>1, <2>2, Reframe
<1> QED  BY <1>1 DEF Owned

\* The pointer goes through set_read_event or set_write_event.
LEMMA SettleOwned ==
    ASSUME IInv, NEW c \in Conns, NEW g, Owned(g, c), NEW op \in Ops,
           NEW e \in SetEvent(g, c, op), Settle(e, c, op), inuse' = inuse
    PROVE  /\ io' \in IoType /\ st' \in [Conns -> Ops] /\ lost' \subseteq Conns
           /\ ~io'.again => Clean(io', st', inuse' \ lost') /\ lost' \subseteq inuse'
<1>1. e.posted \in BOOLEAN /\ e.g \in IoType /\ e.g.again = g.again
  BY SetEventClean DEF Owned
<1>2. st \in [Conns -> Ops] /\ lost \subseteq Conns
  BY DEF IInv, TypeOK
<1>3. st' \in [Conns -> Ops] /\ lost' \subseteq Conns
  BY <1>1, <1>2 DEF Settle
<1>4. ASSUME ~io'.again
      PROVE  Clean(io', st', inuse' \ lost') /\ lost' \subseteq inuse'
  <2>1. g.ref[c] = {} /\ c \in inuse /\ c \notin lost /\ Clean(g, st, inuse \ lost)
        /\ lost \subseteq inuse
    BY <1>1, <1>4 DEF Owned, IInv, Settle
  <2>0. \A s2, live2 :
           /\ \A d \in Conns \ {c} : s2[d] = st[d]
                                     /\ (d \in inuse \ lost => d \in live2)
           /\ e.posted => c \in live2 /\ s2[c] = op
           => Clean(e.g, s2, live2)
    <3>1. g \in IoType
      BY DEF Owned
    <3>2. \A s, live, s2, live2 :
             /\ Clean(g, s, live) /\ g.ref[c] = {}
             /\ \A d \in Conns \ {c} : s2[d] = s[d] /\ (d \in live => d \in live2)
             /\ e.posted => c \in live2 /\ s2[c] = op
             => Clean(e.g, s2, live2)
      BY <3>1, SetEventClean
    <3>3. g.ref[c] = {} /\ Clean(g, st, inuse \ lost)
      BY <2>1
    <3> QED  BY <3>2, <3>3
  <2>2. CASE e.posted
    <3>1. io' = e.g /\ st' = [st EXCEPT ![c] = op] /\ lost' = lost
      BY <2>2 DEF Settle
    <3>2. c \in inuse' \ lost' /\ st'[c] = op
          /\ \A d \in Conns \ {c} : st'[d] = st[d]
                                    /\ (d \in inuse \ lost => d \in inuse' \ lost')
      BY <1>2, <2>1, <3>1
    <3>3. Clean(e.g, st', inuse' \ lost')
      BY <2>0, <3>2
    <3> QED  BY <2>1, <3>1, <3>3
  <2>3. CASE ~e.posted
    <3>1. io' = e.g /\ st' = st /\ lost' = lost \cup {c}
      BY <2>3 DEF Settle
    <3>2. \A d \in Conns \ {c} : st'[d] = st[d]
                                 /\ (d \in inuse \ lost => d \in inuse' \ lost')
      BY <3>1
    <3>3. Clean(e.g, st', inuse' \ lost')
      BY <2>0, <2>3, <3>2
    <3> QED  BY <2>1, <3>1, <3>3
  <2> QED  BY <1>1, <2>2, <2>3
<1> QED  BY <1>1, <1>3, <1>4 DEF Settle

---------------------------------------------------------------------------
(* The step theorem.                                                       *)

LEMMA InitIInv == Init => IInv
<1> SUFFICES ASSUME Init PROVE IInv
  OBVIOUS
<1>1. io \in IoType
  BY DEF Init, IoType
<1>2. st \in [Conns -> Ops] /\ fd \in [Conns -> Nat]
  BY DEF Init, Ops, NoFd
<1>3. wbuf \in [Conns -> Seq(Nat)]
  BY DEF Init
<1>4. budget \in [clients : Nat, accepts : Nat, throws : Nat]
  BY CountsAssumption DEF Init
<1>5. armed \in 0 .. InitAccepts
  BY CountsAssumption DEF Init
<1>6. Clean(io, st, inuse \ lost) /\ lost \subseteq inuse
  BY DEF Init, Clean
<1>7. TypeOK
  BY <1>1, <1>2, <1>3, <1>4, <1>5 DEF Init, TypeOK, IoType
<1> QED  BY <1>6, <1>7 DEF IInv

\* What is left to show for an action once the rings are dealt with.
Rest ==
    /\ pc \in {"setup", "wait", "cqes", "tasks", "submit", "stopped", "hung"}
    /\ running \in BOOLEAN
    /\ armed \in 0 .. InitAccepts
    /\ inuse \subseteq Conns
    /\ fd \in [Conns -> Nat]
    /\ wbuf \in [Conns -> Seq(Nat)]
    /\ open \subseteq Nat
    /\ nsess \in Nat
    /\ budget \in [clients : Nat, accepts : Nat, throws : Nat]
    /\ denied \in Nat
    /\ failed \subseteq Nat

Ring ==
    /\ st \in [Conns -> Ops]
    /\ lost \subseteq Conns
    /\ io \in IoType
    /\ ~io.again => Clean(io, st, inuse \ lost) /\ lost \subseteq inuse

LEMMA Parts == IInv <=> Rest /\ Ring
BY DEF IInv, TypeOK, Rest, Ring, IoType

LEMMA SetupStep ==
    ASSUME Rest, Ring, ArmInitialAccept \/ StartLoop
    PROVE  Rest' /\ Ring'
<1>1. CASE ArmInitialAccept
  <2>1. SetAccept(io, st, fd, "setup")
    BY <1>1 DEF ArmInitialAccept
  <2>2. /\ io' \in IoType
        /\ st' \in [Conns -> Ops] /\ fd' \in [Conns -> Nat]
        /\ inuse' \subseteq Conns /\ denied' \in Nat
        /\ pc' \in {"setup", "hung"}
        /\ ~io'.again =>
              /\ ~io.again
              /\ Clean(io, st, inuse \ lost) /\ lost \subseteq inuse
                   => Clean(io', st', inuse' \ lost) /\ lost \subseteq inuse'
    BY <2>1, SetAcceptClean DEF Rest, Ring
  <2>3. Rest'
    BY <1>1, <2>2, CountsAssumption DEF Rest, ArmInitialAccept
  <2> QED  BY <1>1, <2>2, <2>3 DEF Ring, ArmInitialAccept
<1>2. CASE StartLoop
  <2>1. io' \in IoType /\ io'.again = io.again
        /\ \A s, live : Clean(io, s, live) => Clean(io', s, live)
    BY <1>2, SubmitClean DEF StartLoop, Ring
  <2> QED  BY <1>2, <2>1 DEF StartLoop, Rest, Ring
<1> QED  BY <1>1, <1>2

LEMMA LoopStep ==
    ASSUME Rest, Ring,
           \/ WaitCqe \/ WaitAgain \/ WaitFails \/ CqesDone \/ TasksDone
           \/ SubmitRound \/ Stop
    PROVE  Rest' /\ Ring'
<1>1. CASE WaitCqe \/ WaitAgain \/ WaitFails \/ CqesDone \/ TasksDone \/ Stop
  BY <1>1 DEF WaitCqe, WaitAgain, WaitFails, CqesDone, TasksDone, Stop, Rest, Ring
<1>2. CASE SubmitRound
  <2>1. io' \in IoType /\ io'.again = io.again
        /\ \A s, live : Clean(io, s, live) => Clean(io', s, live)
    BY <1>2, SubmitClean DEF SubmitRound, Ring
  <2> QED  BY <1>2, <2>1 DEF SubmitRound, Rest, Ring
<1> QED  BY <1>1, <1>2

\* Completions that end with the connection released.
LEMMA ReleaseStep ==
    ASSUME IInv, Rest, Ring, NEW c \in Conns,
           HandleAcceptError(c) \/ HandleWriteError(c) \/ HandleClose(c)
    PROVE  Rest' /\ Ring'
<1>1. Rest'
  <2>1. CASE HandleAcceptError(c)
    BY <2>1 DEF HandleAcceptError, Rest
  <2>2. CASE HandleWriteError(c)
    BY <2>2 DEF HandleWriteError, Rest
  <2>3. CASE HandleClose(c)
    BY <2>3 DEF HandleClose, Rest
  <2> QED  BY <2>1, <2>2, <2>3
<1>2. st' = st /\ lost' = lost /\ inuse' = inuse \ {c}
  BY DEF HandleAcceptError, HandleWriteError, HandleClose
<1>3. \E op \in Ops, res \in Results, s \in Ops :
          Arrived(c, s, op, res) /\ io' = RingAfter(c, op, res)
  BY DEF HandleAcceptError, HandleWriteError, HandleClose, Results, Ops
<1>4. PICK g : Owned(g, c) /\ io' = g
  BY <1>3, ArrivedOwned
<1>5. io' \in IoType
      /\ (~io'.again => Clean(io', st', inuse' \ lost') /\ lost' \subseteq inuse')
  BY <1>2, <1>4, DropOwned
<1> QED  BY <1>1, <1>2, <1>5 DEF Ring

LEMMA AcceptStep ==
    ASSUME IInv, Rest, Ring, NEW c \in Conns, HandleAccept(c)
    PROVE  Rest' /\ Ring'
<1> DEFINE s1(e) == IF e.posted THEN [st EXCEPT ![c] = "read"] ELSE st
           f1 == [fd EXCEPT ![c] = nsess + 1]
           l1(e) == IF e.posted THEN lost ELSE lost \cup {c}
<1>1. PICK op \in Ops, res \in {"zero", "pos"} :
         /\ Arrived(c, "accept", op, res)
         /\ \E e \in SetEvent(RingAfter(c, op, res), c, "read") :
              lost' = l1(e) /\ SetAccept(e.g, s1(e), f1, "cqes")
  BY DEF HandleAccept
<1> DEFINE g == RingAfter(c, op, res)
<1>2. PICK e \in SetEvent(g, c, "read") :
          lost' = l1(e) /\ SetAccept(e.g, s1(e), f1, "cqes")
  BY <1>1
<1>3. Owned(g, c)
  BY <1>1, ArrivedOwned DEF Results
<1> HIDE DEF g
<1>4. "read" \in Ops /\ g \in IoType
  BY <1>3 DEF Ops, Owned
<1>5. e.posted \in BOOLEAN /\ e.g \in IoType /\ e.g.again = g.again
  BY <1>4, SetEventClean
<1>6. s1(e) \in [Conns -> Ops] /\ f1 \in [Conns -> Nat] /\ lost' \subseteq Conns
  BY <1>2, <1>4 DEF Rest, Ring
<1>7. ASSUME ~e.g.again
      PROVE  Clean(e.g, s1(e), inuse \ lost') /\ lost' \subseteq inuse
  <2>1. g.ref[c] = {} /\ c \in inuse /\ c \notin lost /\ Clean(g, st, inuse \ lost)
        /\ lost \subseteq inuse
    BY <1>3, <1>5, <1>7 DEF Owned, Ring
  <2>2. \A d \in Conns \ {c} : s1(e)[d] = st[d]
                               /\ (d \in inuse \ lost => d \in inuse \ lost')
    BY <1>2 DEF Ring
  <2>3. e.posted => c \in inuse \ lost' /\ s1(e)[c] = "read"
    BY <1>2, <2>1 DEF Ring
  <2>4. \A s, live, s2, live2 :
             /\ Clean(g, s, live) /\ g.ref[c] = {}
             /\ \A d \in Conns \ {c} : s2[d] = s[d] /\ (d \in live => d \in live2)
             /\ e.posted => c \in live2 /\ s2[c] = "read"
             => Clean(e.g, s2, live2)
    BY <1>4, SetEventClean
  <2>5. Clean(e.g, s1(e), inuse \ lost')
    <3> HIDE DEF s1
    <3> QED  BY <2>1, <2>2, <2>3, <2>4
  <2>6. lost' \subseteq inuse
    BY <1>2, <2>1
  <2> QED  BY <2>5, <2>6
<1>8. /\ io' \in IoType
      /\ st' \in [Conns -> Ops] /\ fd' \in [Conns -> Nat]
      /\ inuse' \subseteq Conns /\ denied' \in Nat
      /\ pc' \in {"cqes", "hung"}
      /\ ~io'.again =>
            /\ ~e.g.again
            /\ Clean(e.g, s1(e), inuse \ lost') /\ lost' \subseteq inuse
                 => Clean(io', st', inuse' \ lost') /\ lost' \subseteq inuse'
  <2>1. inuse \subseteq Conns /\ denied \in Nat /\ SetAccept(e.g, s1(e), f1, "cqes")
    BY <1>2 DEF Rest
  <2> HIDE DEF s1, f1, l1
  <2> QED  BY <1>5, <1>6, <2>1, SetAcceptClean
<1>9. Rest'
  BY <1>8 DEF HandleAccept, Rest
<1> QED  BY <1>6, <1>7, <1>8, <1>9 DEF Ring


\* Completions after which the pointer goes through set_read_event,
\* set_write_event or set_close_event, and the connection keeps its object.
LEMMA AgainStep ==
    ASSUME IInv, Rest, Ring, NEW c \in Conns,
           HandleReadEof(c) \/ HandleReadMore(c) \/ HandleWrite(c)
    PROVE  Ring'
<1>1. CASE HandleReadEof(c)
  <2>1. PICK op \in Ops :
           /\ Arrived(c, "read", op, "zero")
           /\ LET g == RingAfter(c, op, "zero")
              IN IF Full(g)
                 THEN Settle([posted |-> FALSE, g |-> g], c, "close")
                 ELSE Settle([posted |-> TRUE, g |-> Put(g, c, Sq("close"))], c, "close")
    BY <1>1 DEF HandleReadEof
  <2> DEFINE g == RingAfter(c, op, "zero")
  <2>2. Owned(g, c)
    BY <2>1, ArrivedOwned DEF Results
  <2>3. \/ io' = g /\ st' = st /\ lost' = lost \cup {c}
        \/ io' = Put(g, c, Sq("close")) /\ st' = [st EXCEPT ![c] = "close"]
           /\ lost' = lost
    BY <2>1 DEF Settle
  <2>4. inuse' = inuse
    BY <1>1 DEF HandleReadEof
  <2> HIDE DEF g
  <2>5. CASE io' = g /\ st' = st /\ lost' = lost \cup {c}
    BY <2>2, <2>4, <2>5, DropOwned DEF Ring
  <2>6. CASE io' = Put(g, c, Sq("close")) /\ st' = [st EXCEPT ![c] = "close"]
             /\ lost' = lost
    <3>1. Sq("close") \in Places /\ Expected(Sq("close")) = "close"
      BY PlacesFacts DEF Ops
    <3>2. st' \in [Conns -> Ops] /\ st'[c] = "close"
          /\ \A d \in Conns \ {c} : st'[d] = st[d]
      BY <2>6 DEF Ring, Ops
    <3> QED  BY <2>2, <2>4, <2>6, <3>1, <3>2, PutOwned DEF Ring
  <2> QED  BY <2>3, <2>5, <2>6
<1>2. CASE HandleReadMore(c) \/ HandleWrite(c)
  <2>1. \E op \in Ops, res \in Results, next \in Ops :
           /\ Owned(RingAfter(c, op, res), c)
           /\ \E e \in SetEvent(RingAfter(c, op, res), c, next) : Settle(e, c, next)
    <3>1. CASE HandleReadMore(c)
      <4>1. PICK op \in Ops, res \in Results :
               /\ HasData(c, op, res)
               /\ \E e \in SetEvent(RingAfter(c, op, res), c, "read") : Settle(e, c, "read")
        BY <3>1 DEF HandleReadMore
      <4>2. Owned(RingAfter(c, op, res), c)
        BY <4>1, ArrivedOwned DEF HasData
      <4>3. "read" \in Ops
        BY DEF Ops
      <4> QED  BY <4>1, <4>2, <4>3
    <3>2. CASE HandleWrite(c)
      <4>1. PICK op \in Ops, n \in 0 .. BufferCap :
               /\ Arrived(c, "write", op, "pos")
               /\ LET next == IF n < Len(wbuf[c]) THEN "write" ELSE "read"
                  IN \E e \in SetEvent(RingAfter(c, op, "pos"), c, next) : Settle(e, c, next)
        BY <3>2 DEF HandleWrite
      <4>2. Owned(RingAfter(c, op, "pos"), c)
        BY <4>1, ArrivedOwned DEF Results
      <4>3. "read" \in Ops /\ "write" \in Ops /\ "pos" \in Results
        BY DEF Ops, Results
      <4> QED  BY <4>1, <4>2, <4>3
    <3> QED  BY <1>2, <3>1, <3>2
  <2>2. PICK op \in Ops, res \in Results, next \in Ops :
           /\ Owned(RingAfter(c, op, res), c)
           /\ \E e \in SetEvent(RingAfter(c, op, res), c, next) : Settle(e, c, next)
    BY <2>1
  <2>3. inuse' = inuse
    BY <1>2 DEF HandleReadMore, HandleWrite
  <2> QED  BY <2>2, <2>3, SettleOwned DEF Ring
<1> QED  BY <1>1, <1>2

\* dispatch(): the pointer goes to one of the two task queues, or back to a
\* read when the main-thread queue is full.
LEMMA DispatchStep ==
    ASSUME IInv, Rest, Ring, NEW c \in Conns,
           DispatchComplete(c) \/ DispatchIncomplete(c)
    PROVE  Ring'
<1>1. PICK op \in Ops, res \in Results :
         /\ HasData(c, op, res)
         /\ \/ \E p \in TaskPlaces : io' = Put(RingAfter(c, op, res), c, p)
                                     /\ st' = st /\ lost' = lost
            \/ \E e \in SetEvent(RingAfter(c, op, res), c, "read") : Settle(e, c, "read")
  <2>1. Queued \in TaskPlaces /\ MainQ \in TaskPlaces
    BY DEF TaskPlaces
  <2> QED  BY <2>1 DEF DispatchComplete, DispatchIncomplete
<1> DEFINE g == RingAfter(c, op, res)
<1>2. Arrived(c, "read", op, res)
  BY <1>1 DEF HasData
<1>3. Owned(g, c) /\ st[c] = "read"
  BY <1>2, ArrivedOwned DEF Arrived
<1>4. inuse' = inuse
  BY DEF DispatchComplete, DispatchIncomplete
<1>5. "read" \in Ops
  BY DEF Ops
<1> HIDE DEF g
<1>6. CASE \E p \in TaskPlaces : io' = Put(g, c, p) /\ st' = st /\ lost' = lost
  <2>1. PICK p \in TaskPlaces : io' = Put(g, c, p) /\ st' = st /\ lost' = lost
    BY <1>6
  <2>2. p \in Places /\ Expected(p) = "read"
    BY PlacesFacts
  <2>3. st' \in [Conns -> Ops] /\ lost' \subseteq Conns
    BY <2>1 DEF Ring
  <2>4. st'[c] = Expected(p) /\ \A d \in Conns \ {c} : st'[d] = st[d]
    BY <1>3, <2>1, <2>2
  <2> QED  BY <1>3, <1>4, <2>1, <2>2, <2>3, <2>4, PutOwned DEF Ring
<1>7. CASE \E e \in SetEvent(g, c, "read") : Settle(e, c, "read")
  BY <1>3, <1>4, <1>5, <1>7, SettleOwned DEF Ring
<1> QED  BY <1>1, <1>6, <1>7 DEF g

\* The handlers above change nothing else but the write buffer.
LEMMA HandlerRest ==
    ASSUME Rest, NEW c \in Conns,
           \/ HandleReadEof(c) \/ HandleReadMore(c) \/ HandleWrite(c)
           \/ DispatchComplete(c) \/ DispatchIncomplete(c)
    PROVE  Rest'
<1>1. CASE HandleWrite(c)
  <2>1. PICK n \in 0 .. BufferCap : wbuf' = [wbuf EXCEPT ![c] = SubSeq(@, n + 1, Len(@))]
    BY <1>1 DEF HandleWrite
  <2>2. wbuf[c] \in Seq(Nat)
    BY DEF Rest
  <2>3. SubSeq(wbuf[c], n + 1, Len(wbuf[c])) \in Seq(Nat)
    BY <2>2, CountsAssumption
  <2>4. wbuf' \in [Conns -> Seq(Nat)]
    BY <2>1, <2>3 DEF Rest
  <2> QED  BY <1>1, <2>4 DEF HandleWrite, Rest
<1>2. CASE HandleReadEof(c)
  BY <1>2 DEF HandleReadEof, Rest
<1>3. CASE HandleReadMore(c)
  BY <1>3 DEF HandleReadMore, Rest
<1>4. CASE DispatchComplete(c) \/ DispatchIncomplete(c)
  BY <1>4 DEF DispatchComplete, DispatchIncomplete, Rest
<1> QED  BY <1>1, <1>2, <1>3, <1>4

\* Steps that move the pointer between places of the same kind.
LEMMA MoveStep ==
    ASSUME IInv, Ring, NEW c \in Conns, NEW p \in Places, NEW q \in Places,
           Expected(p) = Expected(q),
           p \in io.ref[c], io' = Move(io, c, p, q),
           st' = st, inuse' = inuse, lost' = lost
    PROVE  Ring'
<1>1. Owned(Take(io, c, p), c) /\ (~io.again => st[c] = Expected(q))
  BY TakeOwned
<1>2. st' \in [Conns -> Ops] /\ lost' \subseteq Conns
  BY DEF Ring
<1>3. io' = Put(Take(io, c, p), c, q)
  BY DEF Move
<1>4. (~io.again => st'[c] = Expected(q)) /\ \A d \in Conns \ {c} : st'[d] = st[d]
  BY <1>1
<1> QED  BY <1>1, <1>2, <1>3, <1>4, PutOwned DEF Ring

LEMMA KernelStep ==
    ASSUME IInv, Rest, Ring, NEW c \in Conns, Kernel(c)
    PROVE  Rest' /\ Ring'
<1>1. \E op \in Ops, res \in Results : Finish(c, op, res)
  BY ReadAssumption DEF Kernel, ClientConnects, AcceptFails, ReadCompletes,
     WriteCompletes, CloseCompletes, Ops, Results
<1>2. PICK op \in Ops, res \in Results : Finish(c, op, res)
  BY <1>1
<1>3. st' = st /\ inuse' = inuse /\ lost' = lost
  BY DEF Kernel, ClientConnects, AcceptFails, ReadCompletes, WriteCompletes,
     CloseCompletes
<1>4. Kern(op) \in Places /\ Cq(op, res) \in Places
      /\ Expected(Kern(op)) = Expected(Cq(op, res))
  BY PlacesFacts
<1>5. Ring'
  BY <1>2, <1>3, <1>4, MoveStep DEF Finish
<1>6. Rest'
  <2>0. budget \in [clients : Nat, accepts : Nat, throws : Nat]
    BY DEF Rest
  <2>1. CASE ClientConnects(c)
    <3>1. budget' \in [clients : Nat, accepts : Nat, throws : Nat]
      BY <2>0, <2>1 DEF ClientConnects
    <3> QED  BY <2>1, <3>1 DEF ClientConnects, Rest
  <2>2. CASE AcceptFails(c)
    <3>1. budget' \in [clients : Nat, accepts : Nat, throws : Nat]
      BY <2>0, <2>2 DEF AcceptFails
    <3> QED  BY <2>2, <3>1 DEF AcceptFails, Rest
  <2>3. CASE ReadCompletes(c) \/ WriteCompletes(c) \/ CloseCompletes(c)
    BY <2>3 DEF ReadCompletes, WriteCompletes, CloseCompletes, Rest
  <2> QED  BY <2>1, <2>2, <2>3 DEF Kernel
<1> QED  BY <1>5, <1>6

\* TaskThrows and a RunMainTask with a full queue drop the pointer; the
\* other steps put it down again.
LEMMA TaskStep ==
    ASSUME IInv, Rest, Ring, NEW c \in Conns,
           RunMainTask(c) \/ TakeTask(c) \/ RunTask(c) \/ TaskThrows(c)
    PROVE  Rest' /\ Ring'
<1>1. \A p \in {MainQ, Queued, Running, Callback} :
         p \in Places /\ Expected(p) = "read"
  BY PlacesFacts DEF TaskPlaces
<1>2. CASE RunMainTask(c)
  <2> DEFINE g == Take(io, c, MainQ)
  <2>1. Owned(g, c) /\ (~io.again => st[c] = "read")
    BY <1>1, <1>2, TakeOwned DEF RunMainTask
  <2>2. st' = st /\ inuse' = inuse
        /\ \/ io' = g /\ lost' = lost \cup {c}
           \/ io' = Put(g, c, Sq("read")) /\ lost' = lost
    BY <1>2 DEF RunMainTask
  <2>3. Rest'
    BY <1>2 DEF RunMainTask, Rest
  <2>4. Sq("read") \in Places /\ Expected(Sq("read")) = "read"
    BY PlacesFacts DEF Ops
  <2> HIDE DEF g
  <2>5. CASE io' = g /\ lost' = lost \cup {c}
    BY <2>1, <2>2, <2>3, <2>5, DropOwned DEF Ring
  <2>6. CASE io' = Put(g, c, Sq("read")) /\ lost' = lost
    <3>1. st' \in [Conns -> Ops] /\ (~io.again => st'[c] = Expected(Sq("read")))
      BY <2>1, <2>2, <2>4 DEF Ring
    <3> QED  BY <2>1, <2>2, <2>3, <2>4, <2>6, <3>1, PutOwned DEF Ring
  <2> QED  BY <2>2, <2>5, <2>6
<1>3. CASE TakeTask(c)
  <2>1. Rest'
    BY <1>3 DEF TakeTask, Rest
  <2> QED  BY <1>1, <1>3, <2>1, MoveStep DEF TakeTask
<1>4. CASE RunTask(c)
  <2>1. PICK n \in 0 .. BufferCap :
            wbuf' = [wbuf EXCEPT ![c] = @ \o [i \in 1 .. n |-> fd[c]]]
    BY <1>4 DEF RunTask
  <2>2. wbuf[c] \in Seq(Nat) /\ [i \in 1 .. n |-> fd[c]] \in Seq(Nat)
    BY CountsAssumption DEF Rest
  <2>3. wbuf[c] \o [i \in 1 .. n |-> fd[c]] \in Seq(Nat)
    BY <2>2
  <2>4. wbuf' \in [Conns -> Seq(Nat)]
    BY <2>1, <2>3 DEF Rest
  <2>5. Rest'
    BY <1>4, <2>4 DEF RunTask, Rest
  <2> QED  BY <1>1, <1>4, <2>5, MoveStep DEF RunTask
<1>5. CASE TaskThrows(c)
  <2>0. budget \in [clients : Nat, accepts : Nat, throws : Nat]
    BY DEF Rest
  <2>3. budget' \in [clients : Nat, accepts : Nat, throws : Nat]
    BY <1>5, <2>0 DEF TaskThrows
  <2>1. Rest'
    BY <1>5, <2>3 DEF TaskThrows, Rest
  <2>2. Owned(Take(io, c, Running), c)
    BY <1>1, <1>5, TakeOwned DEF TaskThrows
  <2> QED  BY <1>5, <2>1, <2>2, DropOwned DEF TaskThrows, Ring
<1> QED  BY <1>2, <1>3, <1>4, <1>5

\* The worker's callback.  Its second attempt may leave an unprepared entry
\* behind: then an operation may be repeated and nothing is claimed.
LEMMA CallbackStep ==
    ASSUME IInv, Rest, Ring, NEW c \in Conns, RunCallback(c)
    PROVE  Rest' /\ Ring'
<1> DEFINE g == Take(io, c, Callback)
           op == IF wbuf[c] # <<>> THEN "write" ELSE "read"
<1>1. Rest'
  BY DEF RunCallback, Rest
<1>2. inuse' = inuse /\ op \in Ops
  BY DEF RunCallback, Ops
<1>3. Owned(g, c)
  BY TakeOwned DEF RunCallback
<1>4. \/ \E e \in SetEvent(g, c, op) : Settle(e, c, op)
      \/ \E h \in Submit(g) : \E k \in {h} \cup Unprepared(h) :
            Settle([posted |-> FALSE, g |-> k], c, op)
  BY DEF RunCallback
<1> HIDE DEF g, op
<1>5. CASE \E e \in SetEvent(g, c, op) : Settle(e, c, op)
  BY <1>1, <1>2, <1>3, <1>5, SettleOwned DEF Ring
<1>6. CASE \E h \in Submit(g) : \E k \in {h} \cup Unprepared(h) :
             Settle([posted |-> FALSE, g |-> k], c, op)
  <2>1. PICK h \in Submit(g) : \E k \in {h} \cup Unprepared(h) :
            Settle([posted |-> FALSE, g |-> k], c, op)
    BY <1>6
  <2>2. PICK k \in {h} \cup Unprepared(h) : Settle([posted |-> FALSE, g |-> k], c, op)
    BY <2>1
  <2>3. io' = k /\ st' = st /\ lost' = lost \cup {c}
    BY <2>2 DEF Settle
  <2>4. g \in IoType /\ g.again = io.again
    BY <1>3 DEF Owned
  <2>5. h \in IoType /\ h.again = g.again
        /\ (g.ref[c] = {} => h.ref[c] = {})
        /\ \A s, live : Clean(g, s, live) => Clean(h, s, live)
    BY <2>4, SubmitClean
  <2>6. k \in IoType
        /\ (~k.again => ~h.again /\ \A s, live : Clean(h, s, live) => Clean(k, s, live))
    BY <2>5, UnpreparedType
  <2>7. ASSUME ~io'.again
        PROVE  Clean(io', st', inuse' \ lost') /\ lost' \subseteq inuse'
    <3>1. ~io.again /\ ~h.again
      BY <2>3, <2>4, <2>5, <2>6, <2>7
    <3>2. g.ref[c] = {} /\ c \in inuse /\ Clean(g, st, inuse \ lost)
          /\ lost \subseteq inuse
      BY <1>3, <3>1 DEF Owned, Ring
    <3>3. \A d \in Conns \ {c} : st[d] = st[d]
                                 /\ (d \in inuse \ lost => d \in inuse \ (lost \cup {c}))
      OBVIOUS
    <3>4. Clean(g, st, inuse \ (lost \cup {c}))
      BY <3>2, <3>3, Reframe
    <3>5. Clean(k, st, inuse \ (lost \cup {c}))
      BY <2>3, <2>5, <2>6, <2>7, <3>4
    <3> QED  BY <1>2, <2>3, <3>2, <3>5
  <2> QED  BY <1>1, <1>2, <2>3, <2>6, <2>7 DEF Ring
<1> QED  BY <1>4, <1>5, <1>6

LEMMA Step == IInv /\ [Next]_vars => IInv'
<1> SUFFICES ASSUME IInv, [Next]_vars
             PROVE  Rest' /\ Ring'
  BY DEF Parts, IInv, TypeOK, Rest, Ring, IoType
<1>0. Rest /\ Ring
  BY Parts
<1>1. CASE MainStep \/ WaitAgain \/ WaitFails \/ Stop
  BY <1>0, <1>1, SetupStep, LoopStep DEF MainStep
<1>2. ASSUME NEW c \in Conns, HandleCqe(c)
      PROVE  Rest' /\ Ring'
  <2>1. CASE HandleAcceptError(c) \/ HandleWriteError(c) \/ HandleClose(c)
    BY <1>0, <2>1, ReleaseStep
  <2>2. CASE HandleAccept(c)
    BY <1>0, <2>2, AcceptStep
  <2>3. CASE HandleReadEof(c) \/ HandleReadMore(c) \/ HandleWrite(c)
    BY <1>0, <2>3, AgainStep, HandlerRest
  <2>4. CASE DispatchComplete(c) \/ DispatchIncomplete(c)
    BY <1>0, <2>4, DispatchStep, HandlerRest
  <2> QED  BY <1>2, <2>1, <2>2, <2>3, <2>4 DEF HandleCqe
<1>3. ASSUME NEW c \in Conns, RunMainTask(c) \/ Worker(c)
      PROVE  Rest' /\ Ring'
  BY <1>0, <1>3, TaskStep, CallbackStep DEF Worker
<1>4. ASSUME NEW c \in Conns, Kernel(c)
      PROVE  Rest' /\ Ring'
  BY <1>0, <1>4, KernelStep
<1>5. CASE UNCHANGED vars
  BY <1>0, <1>5 DEF vars, Rest, Ring
<1> QED  BY <1>1, <1>2, <1>3, <1>4, <1>5 DEF Next

\* IInv is an invariant of the event loop, its workers and the kernel.
THEOREM Invariance == Spec => []IInv
<1>1. Init => IInv
  BY InitIInv
<1>2. IInv /\ [Next]_vars => IInv'
  BY Step
<1> QED  BY <1>1, <1>2, PTL DEF Spec

\* The variables keep their types whatever the pool, the queues and the
\* bounds are; in particular handles and tasks never leave their places.
THEOREM TypeCorrect == Spec => []TypeOK
<1>1. IInv => TypeOK
  BY DEF IInv
<1> QED  BY <1>1, Invariance, PTL

\* One owner per connection: a pointer is never in two queues, never twice in
\* one, and never anywhere once the object is released or lost.  This is why
\* the workers' handlers may touch a connection without a lock.
THEOREM Ownership == Spec => []OneOwner
<1>1. IInv => OneOwner
  BY DEF IInv, Clean, OneOwner
<1> QED  BY <1>1, Invariance, PTL

\* handle_completion_event, which looks at conn->state alone, always reaches
\* the handler of the operation that completed.
THEOREM RightHandler == Spec => []HandlerMatchesOp
<1>1. IInv => HandlerMatchesOp
  BY DEF IInv, Clean, Expected, HandlerMatchesOp
<1> QED  BY <1>1, Invariance, PTL

=============================================================================
