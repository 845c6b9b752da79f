---------------------- MODULE UringServerSessionProofs ----------------------
(***************************************************************************)
(* For every pool, queue size and bound: what UringServer promises its     *)
(* clients.  A connection is never forgotten but where the code throws it  *)
(* away, a socket has one owner and stays open while it is used, a write   *)
(* buffer holds the bytes of one client, the next request waits for the    *)
(* answer before it, no accept gets lost, and workers are left alone.      *)
(*                                                                         *)
(* UringServerProofs shows that a pointer is in one place at most.  Here   *)
(* it matters which place that is, and not whether its entry was already   *)
(* submitted: Seen forgets the difference, so that a submit at whatever    *)
(* moment, successful or not, changes nothing that is talked about below.  *)
(***************************************************************************)
EXTENDS UringServerProofs, FiniteSetTheorems

\* A place, no matter whether its entry was submitted.
Mark(p) == IF p \in SqPlaces THEN Kern(p[2]) ELSE p
Seen(g) == [c \in Conns |-> {Mark(p) : p \in g.ref[c]}]

Live == inuse \ lost
Accepting == {c \in Live : st[c] = "accept"}

\* What holds of connection c when its pointer is at p.
Fits(c, p) ==
    /\ p[2] = "accept" \/ p = Cq("close", "zero") \/ fd[c] \in open
    /\ p \in CqPlaces /\ p[2] = "close" => p = Cq("close", "zero") /\ fd[c] \notin open
    /\ st[c] \in {"read", "close"} /\ p # Callback => fd[c] \notin ToSet(wbuf[c])

\* What holds of every connection: its descriptor is one that was given out,
\* its buffer has no bytes of other sessions, and nothing but leavings of
\* failed ones while it has no session.
Sound(c) ==
    /\ fd[c] \in 0 .. nsess
    /\ ToSet(wbuf[c]) \subseteq {fd[c]} \cup failed
    /\ c \in Live => Seen(io)[c] # {}
    /\ c \notin inuse \/ c \in Accepting => ToSet(wbuf[c]) \subseteq failed
    /\ c \in Accepting => fd[c] = NoFd
    /\ \A p \in Seen(io)[c] : Fits(c, p)

Sockets ==
    /\ open \subseteq 1 .. nsess
    /\ failed \subseteq 0 .. nsess
    /\ \A s \in open : s \in failed \/ \E c \in inuse : fd[c] = s
    /\ \A c, d \in inuse : fd[c] = fd[d] /\ fd[c] # NoFd => c = d

Credit == IsFiniteSet(Accepting) /\ Cardinality(Accepting) + denied = armed

SessionsSound == (\A c \in Conns : Sound(c)) /\ Sockets /\ Credit

\* The inductive invariant of this module.
SInv == IInv /\ (~io.again => SessionsSound)

---------------------------------------------------------------------------
(* What the operations on the rings do to what is seen of them.            *)

LEMMA MarkFacts ==
    /\ \A op \in Ops : Mark(Sq(op)) = Kern(op) /\ Mark(Kern(op)) = Kern(op)
    /\ \A op \in Ops, res \in Results : Mark(Cq(op, res)) = Cq(op, res)
    /\ \A p \in TaskPlaces : Mark(p) = p
    /\ \A p \in Places : Mark(p)[2] = p[2] /\ Mark(Mark(p)) = Mark(p)
    /\ \A p \in Places : (p \in TaskPlaces \/ p \in CqPlaces) => Mark(p) = p
    /\ \A p \in Places : p \in CqPlaces <=> Mark(p) \in CqPlaces
    /\ \A p \in Places : p \in TaskPlaces <=> Mark(p) \in TaskPlaces
BY DEF Mark, Places, SqPlaces, KernPlaces, CqPlaces, TaskPlaces, Sq, Kern, Cq,
       MainQ, Queued, Running, Callback

LEMMA SeenTake ==
    ASSUME NEW g \in IoType, NEW s, NEW live, Clean(g, s, live),
           NEW c \in Conns, NEW p \in g.ref[c]
    PROVE  /\ Seen(g)[c] = {Mark(p)}
           /\ Seen(Take(g, c, p)) = [Seen(g) EXCEPT ![c] = {}]
<1>1. g.ref[c] = {p}
  BY DEF Clean
<1>2. Take(g, c, p).ref = [g.ref EXCEPT ![c] = {}]
  BY <1>1 DEF Take, IoType
<1>3. g.ref \in [Conns -> SUBSET Places]
  BY DEF IoType
<1>4. \A d \in Conns : Take(g, c, p).ref[d] = IF d = c THEN {} ELSE g.ref[d]
  BY <1>2, <1>3
<1>5. Seen(g)[c] = {Mark(p)}
  BY <1>1 DEF Seen
<1>6. Seen(Take(g, c, p)) = [d \in Conns |-> IF d = c THEN {} ELSE Seen(g)[d]]
  BY <1>4 DEF Seen
<1> QED  BY <1>5, <1>6 DEF Seen

LEMMA SeenPut ==
    ASSUME NEW g \in IoType, NEW c \in Conns, NEW p
    PROVE  Seen(Put(g, c, p)) = [Seen(g) EXCEPT ![c] = @ \cup {Mark(p)}]
<1>1. Put(g, c, p).ref = [g.ref EXCEPT ![c] = @ \cup {p}]
  BY DEF Put, IoType
<1>2. {Mark(q) : q \in g.ref[c] \cup {p}} = {Mark(q) : q \in g.ref[c]} \cup {Mark(p)}
  OBVIOUS
<1> QED  BY <1>1, <1>2 DEF Seen, IoType

LEMMA SeenSubmit ==
    ASSUME NEW g \in IoType, NEW h \in Submit(g)
    PROVE  Seen(h) = Seen(g)
<1>1. CASE h = Flush(g)
  <2>1. \A c \in Conns : Flush(g).ref[c] = {Mark(p) : p \in g.ref[c]}
    BY DEF Flush, IoType, Mark
  <2>2. \A c \in Conns : \A p \in g.ref[c] : Mark(Mark(p)) = Mark(p)
    BY MarkFacts DEF IoType
  <2>3. \A c \in Conns : {Mark(q) : q \in {Mark(p) : p \in g.ref[c]}}
                           = {Mark(p) : p \in g.ref[c]}
    BY <2>2
  <2> QED  BY <1>1, <2>1, <2>3 DEF Seen
<1>2. CASE h = [g EXCEPT !.fails = @ + 1]
  BY <1>2 DEF Seen, IoType
<1> QED  BY <1>1, <1>2 DEF Submit

LEMMA SeenSetEvent ==
    ASSUME NEW g \in IoType, NEW c \in Conns, NEW op \in Ops,
           NEW e \in SetEvent(g, c, op)
    PROVE  Seen(e.g) = IF e.posted THEN [Seen(g) EXCEPT ![c] = @ \cup {Kern(op)}]
                       ELSE Seen(g)
<1>0. \A k \in Retried(g) : k \in IoType /\ Seen(k) = Seen(g)
  BY RetriedClean, SeenSubmit DEF Retried
<1>1. CASE \E h \in Retried(g) : e = [posted |-> FALSE, g |-> h]
  BY <1>0, <1>1
<1>2. CASE \E k \in Retried(g) : \E h \in Submit(Put(k, c, Sq(op))) :
             e = [posted |-> TRUE, g |-> h]
  <2>0. PICK k \in Retried(g) : \E h \in Submit(Put(k, c, Sq(op))) :
            e = [posted |-> TRUE, g |-> h]
    BY <1>2
  <2>1. PICK h \in Submit(Put(k, c, Sq(op))) : e = [posted |-> TRUE, g |-> h]
    BY <2>0
  <2>2. Put(k, c, Sq(op)) \in IoType
    BY <1>0, PutType, PlacesFacts
  <2>3. Seen(h) = Seen(Put(k, c, Sq(op)))
    BY <2>2, SeenSubmit
  <2>4. Seen(Put(k, c, Sq(op))) = [Seen(g) EXCEPT ![c] = @ \cup {Kern(op)}]
    BY <1>0, SeenPut, MarkFacts
  <2> QED  BY <2>1, <2>3, <2>4
<1> QED  BY <1>1, <1>2 DEF SetEvent

LEMMA SeenUnprepared ==
    ASSUME NEW g \in IoType, NEW h \in Unprepared(g), ~h.again
    PROVE  Seen(h) = Seen(g)
<1>1. CASE h = [g EXCEPT !.blank = @ + 1]
  BY <1>1 DEF Seen, IoType
<1>2. CASE \E x \in g.past : h = [Put(g, x[1], Sq(x[2])) EXCEPT !.again = TRUE]
  <2>1. PICK x \in g.past : h = [Put(g, x[1], Sq(x[2])) EXCEPT !.again = TRUE]
    BY <1>2
  <2>2. Put(g, x[1], Sq(x[2])) \in IoType
    BY PutType, PlacesFacts DEF IoType
  <2>3. h.again
    BY <2>1, <2>2 DEF IoType
  <2> QED  BY <2>3
<1> QED  BY <1>1, <1>2 DEF Unprepared

\* set_accept_event arms one accept on an object that was free, or none.
LEMMA SeenSetAccept ==
    ASSUME NEW g \in IoType, NEW s, NEW f, NEW next,
           s \in [Conns -> Ops], f \in [Conns -> Nat],
           SetAccept(g, s, f, next), ~io'.again
    PROVE  /\ ~g.again
           /\ \/ /\ Seen(io') = Seen(g) /\ st' = s /\ fd' = f /\ inuse' = inuse
                 /\ denied' = denied + 1
              \/ \E n \in Conns \ inuse :
                    /\ Seen(io') = [Seen(g) EXCEPT ![n] = @ \cup {Kern("accept")}]
                    /\ st' = [s EXCEPT ![n] = "accept"]
                    /\ fd' = [f EXCEPT ![n] = NoFd]
                    /\ inuse' = inuse \cup {n}
                    /\ denied' = denied
<1>1. CASE io' = g /\ st' = s /\ fd' = f /\ denied' = denied + 1 /\ inuse' = inuse
  BY <1>1
<1>2. CASE \E n \in Conns \ inuse :
             /\ io' = Put(g, n, Sq("accept"))
             /\ st' = [s EXCEPT ![n] = "accept"]
             /\ fd' = [f EXCEPT ![n] = NoFd]
             /\ inuse' = inuse \cup {n}
             /\ denied' = denied
  <2>1. PICK n \in Conns \ inuse :
             /\ io' = Put(g, n, Sq("accept"))
             /\ st' = [s EXCEPT ![n] = "accept"]
             /\ fd' = [f EXCEPT ![n] = NoFd]
             /\ inuse' = inuse \cup {n}
             /\ denied' = denied
    BY <1>2
  <2>2. "accept" \in Ops
    BY DEF Ops
  <2>3. Mark(Sq("accept")) = Kern("accept")
    BY <2>2, MarkFacts
  <2>4. Seen(io') = [Seen(g) EXCEPT ![n] = @ \cup {Kern("accept")}]
    BY <2>1, <2>3, SeenPut
  <2>5. io'.again = g.again
    BY <2>1, <2>2, PutType, PlacesFacts
  <2> QED  BY <2>1, <2>4, <2>5
<1>3. CASE io' \in Unprepared(g) /\ st' = s /\ fd' = f /\ denied' = denied + 1
           /\ inuse' = inuse
  BY <1>3, UnpreparedType, SeenUnprepared
<1> QED  BY <1>1, <1>2, <1>3 DEF SetAccept

---------------------------------------------------------------------------
(* Kinds of steps.                                                         *)

\* A step before which and after which no operation was repeated.
Unrepeated == IInv /\ IInv' /\ ~io.again /\ ~io'.again /\ SessionsSound

\* A pointer is seen at connections in use only.
LEMMA SeenLive ==
    ASSUME IInv, ~io.again, NEW c \in Conns, Seen(io)[c] # {}
    PROVE  c \in Live
BY DEF IInv, Clean, Seen, Live

\* A connection that a step does not touch stays sound.
LEMMA Kept ==
    ASSUME Unrepeated, NEW c \in Conns,
           Seen(io')[c] = Seen(io)[c],
           st'[c] = st[c], fd'[c] = fd[c], wbuf'[c] = wbuf[c],
           c \in inuse' <=> c \in inuse, c \in lost' <=> c \in lost,
           failed \subseteq failed', nsess <= nsess',
           Seen(io)[c] # {} => (fd[c] \in open' <=> fd[c] \in open)
    PROVE  Sound(c)' /\ (c \in Accepting' <=> c \in Accepting)
<1>1. Sound(c) /\ nsess \in Nat /\ nsess' \in Nat
  BY DEF Unrepeated, SessionsSound, IInv, TypeOK
<1>2. c \in Live' <=> c \in Live
  BY DEF Live
<1>3. c \in Accepting' <=> c \in Accepting
  BY <1>2 DEF Accepting
<1>4. fd'[c] \in 0 .. nsess'
  BY <1>1 DEF Sound
<1>5. ToSet(wbuf'[c]) \subseteq {fd'[c]} \cup failed'
  BY <1>1 DEF Sound
<1>6. \A p \in Seen(io')[c] : Fits(c, p)'
  BY <1>1 DEF Sound, Fits
<1>7. c \notin inuse' \/ c \in Accepting' => ToSet(wbuf'[c]) \subseteq failed'
  BY <1>1, <1>3 DEF Sound
<1> QED  BY <1>1, <1>2, <1>3, <1>4, <1>5, <1>6, <1>7 DEF Sound

\* Nothing that is seen changes.
LEMMA QuietStep ==
    ASSUME Unrepeated, Seen(io') = Seen(io),
           UNCHANGED <<armed, inuse, st, fd, wbuf, open, nsess, denied, lost, failed>>
    PROVE  SessionsSound'
<1>1. nsess <= nsess'
  BY DEF Unrepeated, IInv, TypeOK
<1>2. \A c \in Conns : Sound(c)'
  BY <1>1, Kept
<1>3. Sockets' /\ Credit'
  BY DEF Unrepeated, SessionsSound, Sockets, Credit, Accepting, Live
<1> QED  BY <1>2, <1>3 DEF SessionsSound

\* The pointer of c is moved to q.
LEMMA MovedStep ==
    ASSUME Unrepeated, NEW c \in Conns, NEW q, c \in Live,
           Seen(io') = [Seen(io) EXCEPT ![c] = {q}],
           UNCHANGED <<armed, inuse, fd, nsess, denied, lost, failed>>,
           \A d \in Conns \ {c} : st'[d] = st[d] /\ wbuf'[d] = wbuf[d],
           st'[c] = "accept" <=> st[c] = "accept",
           ToSet(wbuf'[c]) \subseteq {fd[c]} \cup failed,
           st[c] = "accept" => wbuf'[c] = wbuf[c],
           open' \subseteq open,
           \A d \in Conns \ {c} : Seen(io)[d] # {} => (fd[d] \in open' <=> fd[d] \in open),
           Fits(c, q)'
    PROVE  SessionsSound'
<1>1. nsess <= nsess' /\ inuse \subseteq Conns
  BY DEF Unrepeated, IInv, TypeOK
<1>2. \A d \in Conns \ {c} : Seen(io')[d] = Seen(io)[d]
  BY DEF Seen
<1>3. Seen(io')[c] = {q}
  BY DEF Seen
<1>4. \A d \in Conns \ {c} : Sound(d)'
  BY <1>1, <1>2, Kept
<1>5. Live' = Live /\ Accepting' = Accepting
  BY <1>1 DEF Live, Accepting
<1>6. Sound(c)
  BY DEF Unrepeated, SessionsSound
<1>7. Sound(c)'
  <2>1. fd'[c] \in 0 .. nsess' /\ ToSet(wbuf'[c]) \subseteq {fd'[c]} \cup failed'
    BY <1>6 DEF Sound
  <2>2. c \in Live' => Seen(io')[c] # {}
    BY <1>3
  <2>3. c \notin inuse' \/ c \in Accepting' => ToSet(wbuf'[c]) \subseteq failed'
    BY <1>5, <1>6 DEF Sound, Live, Accepting
  <2>4. c \in Accepting' => fd'[c] = NoFd
    BY <1>5, <1>6 DEF Sound
  <2>5. \A p \in Seen(io')[c] : Fits(c, p)'
    BY <1>3
  <2> QED  BY <2>1, <2>2, <2>3, <2>4, <2>5 DEF Sound
<1>8. Sockets' /\ Credit'
  BY <1>5 DEF Unrepeated, SessionsSound, Sockets, Credit
<1> QED  BY <1>4, <1>7, <1>8 DEF SessionsSound

\* The pointer of c is thrown away.
LEMMA LostStep ==
    ASSUME Unrepeated, NEW c \in Conns, c \in Live, st[c] # "accept",
           Seen(io') = [Seen(io) EXCEPT ![c] = {}],
           lost' = lost \cup {c},
           UNCHANGED <<armed, inuse, st, fd, open, nsess, denied, failed>>,
           \A d \in Conns \ {c} : wbuf'[d] = wbuf[d],
           ToSet(wbuf'[c]) \subseteq {fd[c]} \cup failed
    PROVE  SessionsSound'
<1>1. nsess <= nsess' /\ inuse \subseteq Conns
  BY DEF Unrepeated, IInv, TypeOK
<1>2. \A d \in Conns \ {c} : Seen(io')[d] = Seen(io)[d]
  BY DEF Seen
<1>3. Seen(io')[c] = {}
  BY DEF Seen
<1>4. \A d \in Conns \ {c} : Sound(d)'
  BY <1>1, <1>2, Kept
<1>5. Live' = Live \ {c} /\ Accepting' = Accepting
  BY DEF Live, Accepting
<1>6. Sound(c)
  BY DEF Unrepeated, SessionsSound
<1>7. Sound(c)'
  BY <1>3, <1>5, <1>6 DEF Sound, Live, Accepting
<1>8. Sockets' /\ Credit'
  BY <1>5 DEF Unrepeated, SessionsSound, Sockets, Credit
<1> QED  BY <1>4, <1>7, <1>8 DEF SessionsSound

\* The object of c goes back to the pool.
LEMMA ReleasedStep ==
    ASSUME Unrepeated, NEW c \in Conns, c \in Live,
           Seen(io') = [Seen(io) EXCEPT ![c] = {}],
           inuse' = inuse \ {c},
           UNCHANGED <<armed, st, fd, wbuf, open, nsess, lost>>,
           failed' = failed \/ failed' = failed \cup {fd[c]},
           fd[c] \notin open \/ fd[c] \in failed',
           ToSet(wbuf[c]) \subseteq failed',
           \/ st[c] = "accept" /\ denied' = denied + 1
           \/ st[c] # "accept" /\ denied' = denied
    PROVE  SessionsSound'
<1>1. nsess <= nsess' /\ inuse \subseteq Conns /\ denied \in Nat /\ nsess \in Nat
  BY DEF Unrepeated, IInv, TypeOK
<1>2. \A d \in Conns \ {c} : Seen(io')[d] = Seen(io)[d]
  BY DEF Seen
<1>3. Seen(io')[c] = {}
  BY DEF Seen
<1>4. \A d \in Conns \ {c} : Sound(d)'
  BY <1>1, <1>2, Kept
<1>5. Live' = Live \ {c} /\ Accepting' = Accepting \ {c}
  BY DEF Live, Accepting
<1>6. Sound(c) /\ Sockets /\ Credit
  BY DEF Unrepeated, SessionsSound
<1>7. Sound(c)'
  BY <1>3, <1>5, <1>6 DEF Sound, Live, Accepting
<1>8. Sockets'
  <2>1. failed' \subseteq 0 .. nsess'
    BY <1>6 DEF Sockets, Sound
  <2>2. ASSUME NEW s \in open'
        PROVE  s \in failed' \/ \E d \in inuse' : fd'[d] = s
    BY <1>6, <2>2 DEF Sockets
  <2>3. \A d, e \in inuse' : fd'[d] = fd'[e] /\ fd'[d] # NoFd => d = e
    BY <1>6 DEF Sockets
  <2> QED  BY <1>6, <2>1, <2>2, <2>3 DEF Sockets
<1>9. Credit'
  <2>1. CASE st[c] = "accept" /\ denied' = denied + 1
    <3>1. c \in Accepting
      BY <2>1 DEF Accepting
    <3>2. IsFiniteSet(Accepting') /\ Cardinality(Accepting') = Cardinality(Accepting) - 1
      BY <1>5, <1>6, <3>1, FS_RemoveElement DEF Credit
    <3>3. Cardinality(Accepting) \in Nat
      BY <1>6, FS_CardinalityType DEF Credit
    <3> QED  BY <1>1, <1>6, <2>1, <3>2, <3>3 DEF Credit
  <2>2. CASE st[c] # "accept" /\ denied' = denied
    <3>1. Accepting' = Accepting
      BY <1>5, <2>2 DEF Accepting
    <3> QED  BY <1>6, <2>2, <3>1 DEF Credit
  <2> QED  BY <2>1, <2>2
<1> QED  BY <1>4, <1>7, <1>8, <1>9 DEF SessionsSound

\* An object that is taken from the pool for an accept: what a session whose
\* write failed left in its buffer is all that is in it.
LEMMA NewAccept ==
    ASSUME Unrepeated, NEW n \in Conns \ inuse,
           Seen(io')[n] = {Kern("accept")}, st'[n] = "accept", fd'[n] = NoFd,
           wbuf'[n] = wbuf[n], failed' = failed
    PROVE  Sound(n)'
<1>1. Sound(n) /\ nsess' \in Nat
  BY DEF Unrepeated, SessionsSound, IInv, TypeOK
<1>2. Fits(n, Kern("accept"))'
  BY DEF Fits, Kern, CqPlaces, Cq
<1> QED  BY <1>1, <1>2 DEF Sound, NoFd

\* One more object waits for a client, or one more accept is given up.
ArmedOne(N) ==
    \/ N = {} /\ denied' = denied + 1
    \/ (\E n \in Conns \ inuse : N = {n}) /\ denied' = denied

\* What set_accept_event leaves of the objects in N and of the others.
ArmedOn(N, others) ==
    /\ inuse' = inuse \cup N
    /\ \A d \in N :
          Seen(io')[d] = {Kern("accept")} /\ st'[d] = "accept" /\ fd'[d] = NoFd
    /\ \A d \in others \ N :
          Seen(io')[d] = Seen(io)[d] /\ st'[d] = st[d] /\ fd'[d] = fd[d]

LEMMA ArmedType ==
    ASSUME NEW N, ArmedOne(N)
    PROVE  N \subseteq Conns \ inuse
BY DEF ArmedOne

\* Taking out c, which waits no longer or is none, and putting in N moves
\* the number of waiting objects as denied says.
LEMMA ArmedCredit ==
    ASSUME Unrepeated, NEW N, ArmedOne(N), NEW rest, rest \subseteq Accepting,
           Accepting' = rest \cup N
    PROVE  /\ IsFiniteSet(Accepting') /\ IsFiniteSet(rest)
           /\ Cardinality(Accepting') + denied' = Cardinality(rest) + denied + 1
<1>1. IsFiniteSet(Accepting) /\ denied \in Nat
  BY DEF Unrepeated, SessionsSound, Credit, IInv, TypeOK
<1>2. IsFiniteSet(rest) /\ Cardinality(rest) \in Nat
  BY <1>1, FS_Subset, FS_CardinalityType
<1>3. CASE N = {} /\ denied' = denied + 1
  <2>1. Accepting' = rest
    BY <1>3
  <2> QED  BY <1>1, <1>2, <1>3, <2>1
<1>4. CASE (\E n \in Conns \ inuse : N = {n}) /\ denied' = denied
  <2>1. PICK n \in Conns \ inuse : N = {n}
    BY <1>4
  <2>2. n \notin rest
    BY <2>1 DEF Accepting, Live
  <2>3. Accepting' = rest \cup {n}
    BY <2>1
  <2>4. IsFiniteSet(rest \cup {n}) /\ Cardinality(rest \cup {n}) = Cardinality(rest) + 1
    BY <1>2, <2>2, FS_AddElement
  <2>5. IsFiniteSet(Accepting') /\ Cardinality(Accepting') = Cardinality(rest) + 1
    BY <2>3, <2>4, Zenon
  <2> QED  BY <1>1, <1>2, <1>4, <2>5
<1> QED  BY <1>3, <1>4 DEF ArmedOne

LEMMA ArmForm ==
    ASSUME Unrepeated, ArmInitialAccept
    PROVE  \E N : ArmedOne(N) /\ ArmedOn(N, Conns)
<1>1. io \in IoType /\ st \in [Conns -> Ops] /\ fd \in [Conns -> Nat]
      /\ nsess \in Nat /\ inuse \subseteq Conns /\ lost \subseteq inuse
  BY DEF Unrepeated, IInv, TypeOK, IoType
<1>2. SetAccept(io, st, fd, "setup") /\ ~io'.again
  BY DEF ArmInitialAccept, Unrepeated
<1>3. CASE /\ Seen(io') = Seen(io) /\ st' = st /\ fd' = fd /\ inuse' = inuse
           /\ denied' = denied + 1
  <2>1. ArmedOne({}) /\ ArmedOn({}, Conns)
    BY <1>3 DEF ArmedOne, ArmedOn
  <2> QED  BY <2>1
<1>4. ASSUME NEW n \in Conns \ inuse,
             Seen(io') = [Seen(io) EXCEPT ![n] = @ \cup {Kern("accept")}],
             st' = [st EXCEPT ![n] = "accept"],
             fd' = [fd EXCEPT ![n] = NoFd],
             inuse' = inuse \cup {n}, denied' = denied
      PROVE  ArmedOne({n}) /\ ArmedOn({n}, Conns)
  <2>1. Seen(io)[n] = {}
    BY SeenLive DEF Unrepeated, Live
  <2>2. Seen(io) = [d \in Conns |-> Seen(io)[d]]
    BY DEF Seen
  <2>3. Seen(io')[n] = {Kern("accept")}
        /\ \A d \in Conns \ {n} : Seen(io')[d] = Seen(io)[d]
    BY <1>4, <2>1, <2>2
  <2> QED  BY <1>1, <1>4, <2>3 DEF ArmedOne, ArmedOn
<1> QED  BY <1>1, <1>2, <1>3, <1>4, SeenSetAccept

LEMMA ArmStep ==
    ASSUME Unrepeated, ArmInitialAccept
    PROVE  SessionsSound'
<1>1. io \in IoType /\ st \in [Conns -> Ops] /\ fd \in [Conns -> Nat]
      /\ nsess \in Nat /\ inuse \subseteq Conns /\ lost \subseteq inuse
  BY DEF Unrepeated, IInv, TypeOK, IoType
<1>2. PICK N : ArmedOne(N) /\ ArmedOn(N, Conns)
  BY ArmForm
<1>3. armed' = armed + 1 /\ UNCHANGED <<wbuf, open, nsess, lost, failed>>
  BY DEF ArmInitialAccept
<1>4. N \subseteq Conns \ inuse
  BY <1>2, ArmedType
<1>5. \A d \in Conns \ N : Sound(d)' /\ (d \in Accepting' <=> d \in Accepting)
  BY <1>1, <1>2, <1>3, Kept DEF ArmedOn
<1>6. \A d \in N : Sound(d)'
  BY <1>2, <1>3, <1>4, NewAccept DEF ArmedOn
<1>7. Accepting' = Accepting \cup N
  <2>1. \A d \in N : d \in Accepting'
    BY <1>1, <1>2, <1>3, <1>4 DEF ArmedOn, Accepting, Live
  <2>2. \A d \in Accepting \cup Accepting' : d \in Conns
    BY <1>1, <1>2, <1>4 DEF ArmedOn, Accepting, Live
  <2>3. \A d \in N : d \notin Accepting
    BY <1>4 DEF Accepting, Live
  <2> QED  BY <1>5, <2>1, <2>2, <2>3
<1>8. Credit'
  <2>1. IsFiniteSet(Accepting') /\ IsFiniteSet(Accepting)
        /\ Cardinality(Accepting') + denied' = Cardinality(Accepting) + denied + 1
    BY <1>2, <1>7, ArmedCredit
  <2>2. Cardinality(Accepting) + denied = armed
    BY DEF Unrepeated, SessionsSound, Credit
  <2> QED  BY <1>3, <2>1, <2>2 DEF Credit
<1>9. Sockets'
  <2>1. Sockets
    BY DEF Unrepeated, SessionsSound
  <2>2. \A d \in inuse : d \notin N /\ fd'[d] = fd[d]
    BY <1>1, <1>2, <1>4 DEF ArmedOn
  <2>3. \A d \in inuse' : d \in inuse \/ fd'[d] = NoFd
    BY <1>2 DEF ArmedOn
  <2>4. inuse \subseteq inuse'
    BY <1>2 DEF ArmedOn
  <2>5. \A s \in open' : s \in failed' \/ \E d \in inuse' : fd'[d] = s
    BY <1>3, <2>1, <2>2, <2>4 DEF Sockets
  <2>6. \A d, e \in inuse' : fd'[d] = fd'[e] /\ fd'[d] # NoFd => d = e
    BY <2>1, <2>2, <2>3 DEF Sockets
  <2> QED  BY <1>3, <2>1, <2>5, <2>6 DEF Sockets
<1> QED  BY <1>5, <1>6, <1>8, <1>9 DEF SessionsSound

\* What handle_accept_event leaves of its own object: the read is posted, or
\* the pointer is lost.
Accepted(c) ==
    /\ fd'[c] = nsess + 1
    /\ \/ Seen(io')[c] = {Kern("read")} /\ st'[c] = "read" /\ lost' = lost
       \/ Seen(io')[c] = {} /\ lost' = lost \cup {c}

LEMMA AcceptForm ==
    ASSUME Unrepeated, NEW c \in Conns, HandleAccept(c)
    PROVE  /\ c \in Accepting
           /\ \E N : ArmedOne(N) /\ ArmedOn(N, Conns \ {c}) /\ Accepted(c)
<1>1. io \in IoType /\ st \in [Conns -> Ops] /\ fd \in [Conns -> Nat]
      /\ nsess \in Nat /\ inuse \subseteq Conns /\ lost \subseteq inuse
      /\ Clean(io, st, inuse \ lost) /\ ~io'.again
  BY DEF Unrepeated, IInv, TypeOK, IoType
<1> DEFINE s1(b) == IF b THEN [st EXCEPT ![c] = "read"] ELSE st
           f1 == [fd EXCEPT ![c] = nsess + 1]
<1>2. PICK op \in Ops, res \in {"zero", "pos"} :
         /\ Arrived(c, "accept", op, res)
         /\ \E e \in SetEvent(RingAfter(c, op, res), c, "read") :
              /\ lost' = IF e.posted THEN lost ELSE lost \cup {c}
              /\ SetAccept(e.g, s1(e.posted), f1, "cqes")
  BY DEF HandleAccept
<1> DEFINE g == RingAfter(c, op, res)
<1>3. PICK e \in SetEvent(g, c, "read") :
              /\ lost' = IF e.posted THEN lost ELSE lost \cup {c}
              /\ SetAccept(e.g, s1(e.posted), f1, "cqes")
  BY <1>2
<1>4. Cq(op, res) \in io.ref[c] /\ st[c] = "accept"
  BY <1>2 DEF Arrived
<1>5. c \in Accepting /\ c \in inuse /\ c \notin lost
  BY <1>1, <1>4 DEF Accepting, Live, Clean
<1>6. Seen(g) = [Seen(io) EXCEPT ![c] = {}] /\ g \in IoType
  BY <1>1, <1>4, SeenTake, TakeClean DEF RingAfter
<1> HIDE DEF g
<1>7. "read" \in Ops
  BY DEF Ops
<1>8. /\ e.posted \in BOOLEAN /\ e.g \in IoType
      /\ Seen(e.g) = IF e.posted THEN [Seen(g) EXCEPT ![c] = @ \cup {Kern("read")}]
                     ELSE Seen(g)
  <2>1. e.posted \in BOOLEAN /\ e.g \in IoType
    BY <1>6, <1>7, SetEventClean
  <2> QED  BY <1>6, <1>7, <2>1, SeenSetEvent
<1>9. Seen(e.g) = [Seen(io) EXCEPT ![c] = IF e.posted THEN {Kern("read")} ELSE {}]
  BY <1>6, <1>8 DEF Seen
<1>10. s1(e.posted) \in [Conns -> Ops] /\ f1 \in [Conns -> Nat]
  BY <1>1, <1>7, <1>8
<1>11. s1(e.posted)[c] = (IF e.posted THEN "read" ELSE "accept") /\ f1[c] = nsess + 1
       /\ \A d \in Conns \ {c} : s1(e.posted)[d] = st[d] /\ f1[d] = fd[d]
  BY <1>1, <1>4
<1> HIDE DEF s1, f1
<1>12. CASE /\ Seen(io') = Seen(e.g) /\ st' = s1(e.posted) /\ fd' = f1
            /\ inuse' = inuse /\ denied' = denied + 1
  <2>1. ArmedOne({}) /\ ArmedOn({}, Conns \ {c}) /\ Accepted(c)
    BY <1>3, <1>8, <1>9, <1>11, <1>12 DEF ArmedOne, ArmedOn, Accepted, Seen
  <2> QED  BY <1>5, <2>1
<1>13. ASSUME NEW n \in Conns \ inuse,
              Seen(io') = [Seen(e.g) EXCEPT ![n] = @ \cup {Kern("accept")}],
              st' = [s1(e.posted) EXCEPT ![n] = "accept"],
              fd' = [f1 EXCEPT ![n] = NoFd],
              inuse' = inuse \cup {n}, denied' = denied
       PROVE  ArmedOne({n}) /\ ArmedOn({n}, Conns \ {c}) /\ Accepted(c)
  <2>1. n # c /\ Seen(io)[n] = {}
    BY <1>5, SeenLive DEF Unrepeated, Live
  <2>2. Seen(e.g)[n] = {} /\ Seen(e.g)[c] = (IF e.posted THEN {Kern("read")} ELSE {})
        /\ \A d \in Conns \ {c} : Seen(e.g)[d] = Seen(io)[d]
    BY <1>9, <2>1 DEF Seen
  <2>3. Seen(io')[n] = {Kern("accept")}
        /\ \A d \in Conns \ {n} : Seen(io')[d] = Seen(e.g)[d]
    BY <1>13, <2>2 DEF Seen
  <2>4. st'[n] = "accept" /\ fd'[n] = NoFd
        /\ \A d \in Conns \ {n} : st'[d] = s1(e.posted)[d] /\ fd'[d] = f1[d]
    BY <1>10, <1>13
  <2>5. ArmedOne({n}) /\ ArmedOn({n}, Conns \ {c})
    BY <1>11, <1>13, <2>2, <2>3, <2>4 DEF ArmedOne, ArmedOn
  <2>6. Accepted(c)
    BY <1>3, <1>8, <1>11, <2>1, <2>2, <2>3, <2>4 DEF Accepted
  <2> QED  BY <2>5, <2>6
<1>14. \/ /\ Seen(io') = Seen(e.g) /\ st' = s1(e.posted) /\ fd' = f1
          /\ inuse' = inuse /\ denied' = denied + 1
       \/ \E n \in Conns \ inuse :
             /\ Seen(io') = [Seen(e.g) EXCEPT ![n] = @ \cup {Kern("accept")}]
             /\ st' = [s1(e.posted) EXCEPT ![n] = "accept"]
             /\ fd' = [f1 EXCEPT ![n] = NoFd]
             /\ inuse' = inuse \cup {n}
             /\ denied' = denied
  BY <1>1, <1>3, <1>8, <1>10, SeenSetAccept
<1> QED  BY <1>5, <1>12, <1>13, <1>14

LEMMA AcceptSound ==
    ASSUME Unrepeated, NEW c \in Conns, HandleAccept(c)
    PROVE  SessionsSound'
<1>1. io \in IoType /\ st \in [Conns -> Ops] /\ fd \in [Conns -> Nat]
      /\ nsess \in Nat /\ inuse \subseteq Conns /\ lost \subseteq inuse
  BY DEF Unrepeated, IInv, TypeOK, IoType
<1>2. c \in Accepting /\ c \in Live /\ c \in inuse /\ c \notin lost
  BY AcceptForm DEF Accepting, Live
<1>3. PICK N : ArmedOne(N) /\ ArmedOn(N, Conns \ {c}) /\ Accepted(c)
  BY AcceptForm
<1>4. nsess' = nsess + 1 /\ open' = open \cup {nsess + 1}
      /\ UNCHANGED <<armed, wbuf, failed>>
  BY DEF HandleAccept
<1>5. N \subseteq Conns \ inuse /\ c \notin N
  BY <1>2, <1>3, ArmedType
<1>6. (\A d \in Conns : Sound(d)) /\ Sockets
  BY DEF Unrepeated, SessionsSound
<1>7. \A d \in Conns : fd[d] # nsess + 1
  BY <1>1, <1>6 DEF Sound
<1>8. \A d \in Conns \ {c} : d \in lost' <=> d \in lost
  BY <1>3 DEF Accepted
<1>9. \A d \in (Conns \ N) \ {c} : Sound(d)' /\ (d \in Accepting' <=> d \in Accepting)
  BY <1>1, <1>3, <1>4, <1>7, <1>8, Kept DEF ArmedOn
<1>10. \A d \in N : Sound(d)'
  BY <1>3, <1>4, <1>5, NewAccept DEF ArmedOn
<1>11. c \notin Accepting'
  BY <1>3 DEF Accepted, Accepting, Live
<1>12. Sound(c)'
  <2>1. fd'[c] = nsess' /\ fd'[c] \in open' /\ nsess' \in Nat
    BY <1>1, <1>3, <1>4 DEF Accepted
  <2>2. ToSet(wbuf'[c]) \subseteq failed'
    BY <1>2, <1>4, <1>6 DEF Sound
  <2>3. fd'[c] \notin ToSet(wbuf'[c])
    BY <1>1, <1>4, <1>6, <2>1, <2>2 DEF Sockets
  <2>4. Fits(c, Kern("read"))'
    BY <2>1, <2>3 DEF Fits, Kern, CqPlaces, Cq
  <2>5. \A p \in Seen(io')[c] : Fits(c, p)'
    BY <1>3, <2>4 DEF Accepted
  <2>6. c \in Live' => Seen(io')[c] # {}
    BY <1>3 DEF Accepted, Live
  <2> QED  BY <1>11, <2>1, <2>2, <2>5, <2>6 DEF Sound
<1>13. Accepting' = (Accepting \ {c}) \cup N
  <2>1. \A d \in N : d \in Accepting'
    BY <1>1, <1>3, <1>5, <1>8 DEF ArmedOn, Accepting, Live
  <2>2. \A d \in Accepting \cup Accepting' : d \in Conns
    BY <1>1, <1>3, <1>5 DEF ArmedOn, Accepting, Live
  <2>3. \A d \in N : d \notin Accepting
    BY <1>5 DEF Accepting, Live
  <2> QED  BY <1>9, <1>11, <2>1, <2>2, <2>3
<1>14. Credit'
  <2>1. IsFiniteSet(Accepting) /\ Cardinality(Accepting) + denied = armed
        /\ denied \in Nat /\ denied' \in Nat
    BY DEF Unrepeated, SessionsSound, Credit, IInv, TypeOK
  <2>2. /\ IsFiniteSet(Accepting')
        /\ Cardinality(Accepting') + denied' = Cardinality(Accepting \ {c}) + denied + 1
    BY <1>3, <1>13, ArmedCredit
  <2>3. Cardinality(Accepting \ {c}) = Cardinality(Accepting) - 1
    BY <1>2, <2>1, FS_RemoveElement
  <2>4. Cardinality(Accepting) \in Nat /\ Cardinality(Accepting') \in Nat
    BY <2>1, <2>2, FS_CardinalityType
  <2> QED  BY <1>4, <2>1, <2>2, <2>3, <2>4 DEF Credit
<1>15. Sockets'
  <2>1. \A d \in inuse : d \notin N /\ (d # c => fd'[d] = fd[d])
    BY <1>1, <1>3, <1>5 DEF ArmedOn
  <2>2. \A d \in inuse' : d \in inuse \/ fd'[d] = NoFd
    BY <1>3 DEF ArmedOn
  <2>3. inuse \subseteq inuse' /\ c \in inuse'
    BY <1>2, <1>3 DEF ArmedOn
  <2>4. fd'[c] = nsess + 1 /\ fd[c] = NoFd
    BY <1>2, <1>3, <1>6 DEF Accepted, Sound
  <2>5. ASSUME NEW s \in open'
        PROVE  s \in failed' \/ \E d \in inuse' : fd'[d] = s
    <3>1. CASE s = nsess + 1
      BY <2>3, <2>4, <3>1
    <3>2. CASE s \in open
      <4>1. s \in failed \/ \E d \in inuse : fd[d] = s
        BY <1>6, <3>2 DEF Sockets
      <4>2. s # NoFd
        BY <1>1, <1>6, <3>2 DEF Sockets, NoFd
      <4> QED  BY <1>4, <2>1, <2>3, <2>4, <4>1, <4>2
    <3> QED  BY <1>4, <2>5, <3>1, <3>2
  <2>6. \A d, e \in inuse' : fd'[d] = fd'[e] /\ fd'[d] # NoFd => d = e
    BY <1>1, <1>6, <1>7, <2>1, <2>2, <2>4 DEF Sockets
  <2>7. open' \subseteq 1 .. nsess' /\ failed' \subseteq 0 .. nsess'
    BY <1>1, <1>4, <1>6 DEF Sockets
  <2> QED  BY <2>5, <2>6, <2>7 DEF Sockets
<1>16. \A d \in Conns : Sound(d)'
  BY <1>9, <1>10, <1>12
<1> QED  BY <1>14, <1>15, <1>16 DEF SessionsSound

---------------------------------------------------------------------------
(* The other actions.                                                      *)

\* What is known of the owner of a pointer when it is taken from its place.
LEMMA Took ==
    ASSUME Unrepeated, NEW c \in Conns, NEW p \in io.ref[c]
    PROVE  /\ p \in Places /\ Take(io, c, p) \in IoType
           /\ Take(io, c, p).again = io.again
           /\ Seen(Take(io, c, p)) = [Seen(io) EXCEPT ![c] = {}]
           /\ io.ref[c] = {p} /\ Seen(io)[c] = {Mark(p)}
           /\ c \in Live /\ st[c] = Expected(p)
           /\ Sound(c) /\ Fits(c, Mark(p))
<1>1. io \in IoType /\ Clean(io, st, inuse \ lost)
  BY DEF Unrepeated, IInv, TypeOK, IoType
<1>2. p \in Places /\ Take(io, c, p) \in IoType /\ Take(io, c, p).again = io.again
  BY <1>1, TakeClean DEF IoType
<1>3. io.ref[c] = {p} /\ c \in Live /\ st[c] = Expected(p)
  BY <1>1 DEF Clean, Live
<1>4. Seen(io)[c] = {Mark(p)} /\ Seen(Take(io, c, p)) = [Seen(io) EXCEPT ![c] = {}]
  BY <1>1, SeenTake
<1>5. Sound(c) /\ Fits(c, Mark(p))
  BY <1>4 DEF Unrepeated, SessionsSound, Sound
<1> QED  BY <1>2, <1>3, <1>4, <1>5

\* What is seen when it is put down again, or goes through set_read_event or
\* set_write_event.
LEMMA SeenMove ==
    ASSUME Unrepeated, NEW c \in Conns, NEW p \in io.ref[c], NEW q \in Places
    PROVE  Seen(Put(Take(io, c, p), c, q)) = [Seen(io) EXCEPT ![c] = {Mark(q)}]
<1> DEFINE g == Take(io, c, p)
<1>1. g \in IoType /\ Seen(g) = [Seen(io) EXCEPT ![c] = {}]
  BY Took
<1> HIDE DEF g
<1>2. \A h \in IoType : Seen(Put(h, c, q)) = [Seen(h) EXCEPT ![c] = @ \cup {Mark(q)}]
  BY SeenPut
<1>3. Seen(Put(g, c, q)) = [[Seen(io) EXCEPT ![c] = {}] EXCEPT ![c] = @ \cup {Mark(q)}]
  BY <1>1, <1>2
<1>4. Seen(Put(g, c, q)) = [Seen(io) EXCEPT ![c] = {Mark(q)}]
  BY <1>3 DEF Seen
<1> QED  BY <1>4 DEF g

LEMMA SeenSettle ==
    ASSUME Unrepeated, NEW c \in Conns, NEW p \in io.ref[c], NEW op \in Ops,
           NEW e \in SetEvent(Take(io, c, p), c, op)
    PROVE  /\ e.posted \in BOOLEAN
           /\ e.posted => Seen(e.g) = [Seen(io) EXCEPT ![c] = {Kern(op)}]
           /\ ~e.posted => Seen(e.g) = [Seen(io) EXCEPT ![c] = {}]
<1> DEFINE g == Take(io, c, p)
<1>1. g \in IoType /\ Seen(g) = [Seen(io) EXCEPT ![c] = {}]
  BY Took
<1> HIDE DEF g
<1>2. e.posted \in BOOLEAN
  BY <1>1, SetEventClean DEF g
<1>3. Seen(e.g) = IF e.posted THEN [Seen(g) EXCEPT ![c] = @ \cup {Kern(op)}]
                  ELSE Seen(g)
  BY <1>1, SeenSetEvent DEF g
<1>4. CASE e.posted
  BY <1>1, <1>3, <1>4 DEF Seen
<1>5. CASE ~e.posted
  BY <1>1, <1>2, <1>3, <1>5
<1> QED  BY <1>2, <1>4, <1>5

\* The pointer is put down elsewhere and only state and buffer may change.
LEMMA PutSound ==
    ASSUME Unrepeated, NEW c \in Conns, NEW p \in io.ref[c], NEW q \in Places,
           io' = Put(Take(io, c, p), c, q),
           UNCHANGED <<armed, inuse, fd, nsess, denied, lost, failed>>,
           \A d \in Conns \ {c} : st'[d] = st[d] /\ wbuf'[d] = wbuf[d],
           st'[c] = "accept" <=> st[c] = "accept",
           ToSet(wbuf'[c]) \subseteq {fd[c]} \cup failed,
           st[c] = "accept" => wbuf'[c] = wbuf[c],
           open' \subseteq open,
           \A d \in Conns \ {c} : Seen(io)[d] # {} => (fd[d] \in open' <=> fd[d] \in open),
           Fits(c, Mark(q))'
    PROVE  SessionsSound'
<1>1. Seen(io') = [Seen(io) EXCEPT ![c] = {Mark(q)}] /\ c \in Live
  BY Took, SeenMove
<1> QED  BY <1>1, MovedStep

\* The pointer goes through set_read_event or set_write_event.
LEMMA SettleSound ==
    ASSUME Unrepeated, NEW c \in Conns, NEW p \in io.ref[c],
           NEW op \in {"read", "write"},
           NEW e \in SetEvent(Take(io, c, p), c, op), Settle(e, c, op),
           UNCHANGED <<armed, inuse, fd, open, nsess, denied, failed>>,
           \A d \in Conns \ {c} : wbuf'[d] = wbuf[d],
           st[c] # "accept", fd[c] \in open,
           ToSet(wbuf'[c]) \subseteq {fd[c]} \cup failed,
           op = "read" => fd[c] \notin ToSet(wbuf'[c])
    PROVE  SessionsSound'
<1>1. op \in Ops /\ c \in Live
  BY Took DEF Ops
<1>2. /\ e.posted \in BOOLEAN
      /\ e.posted => Seen(e.g) = [Seen(io) EXCEPT ![c] = {Kern(op)}]
      /\ ~e.posted => Seen(e.g) = [Seen(io) EXCEPT ![c] = {}]
  <2>1. \A o \in Ops : \A f \in SetEvent(Take(io, c, p), c, o) :
           /\ f.posted \in BOOLEAN
           /\ f.posted => Seen(f.g) = [Seen(io) EXCEPT ![c] = {Kern(o)}]
           /\ ~f.posted => Seen(f.g) = [Seen(io) EXCEPT ![c] = {}]
    BY SeenSettle
  <2> QED  BY <1>1, <2>1
<1>3. CASE e.posted
  <2>1. io' = e.g /\ st' = [st EXCEPT ![c] = op] /\ lost' = lost
    BY <1>3 DEF Settle
  <2>2. Seen(io') = [Seen(io) EXCEPT ![c] = {Kern(op)}]
    BY <1>2, <1>3, <2>1
  <2>3. st'[c] = op /\ \A d \in Conns \ {c} : st'[d] = st[d]
    BY <2>1 DEF Unrepeated, IInv, TypeOK
  <2>4. Fits(c, Kern(op))'
    BY <2>3 DEF Fits, Kern, CqPlaces, Cq
  <2> QED  BY <1>1, <2>1, <2>2, <2>3, <2>4, MovedStep
<1>4. CASE ~e.posted
  <2>1. io' = e.g /\ st' = st /\ lost' = lost \cup {c}
    BY <1>4 DEF Settle
  <2>2. Seen(io') = [Seen(io) EXCEPT ![c] = {}]
    BY <1>2, <1>4, <2>1
  <2> QED  BY <1>1, <2>1, <2>2, LostStep
<1> QED  BY <1>2, <1>3, <1>4

\* Completions of reads: the socket is open and nothing of an answer is left.
LEMMA ReadArrived ==
    ASSUME Unrepeated, NEW c \in Conns, NEW op \in Ops, NEW res \in Results,
           Arrived(c, "read", op, res)
    PROVE  /\ Cq(op, res) \in io.ref[c]
           /\ RingAfter(c, op, res) = Take(io, c, Cq(op, res))
           /\ c \in Live /\ st[c] = "read" /\ fd[c] \in open
           /\ fd[c] \notin ToSet(wbuf[c])
           /\ ToSet(wbuf[c]) \subseteq {fd[c]} \cup failed
<1>1. Cq(op, res) \in io.ref[c] /\ st[c] = "read"
  BY DEF Arrived
<1>2. Expected(Cq(op, res)) = op /\ Mark(Cq(op, res)) = Cq(op, res)
  BY PlacesFacts, MarkFacts
<1>3. st[c] = op /\ c \in Live /\ Sound(c) /\ Fits(c, Cq(op, res))
  BY <1>1, <1>2, Took
<1>4. op = "read"
  BY <1>1, <1>3
<1>5. fd[c] \in open /\ fd[c] \notin ToSet(wbuf[c])
  BY <1>1, <1>3, <1>4 DEF Fits, Cq, Callback
<1> QED  BY <1>1, <1>3, <1>5 DEF RingAfter, Sound

LEMMA ReadSound ==
    ASSUME Unrepeated, NEW c \in Conns,
           \/ HandleReadEof(c) \/ HandleReadMore(c)
           \/ DispatchComplete(c) \/ DispatchIncomplete(c)
    PROVE  SessionsSound'
<1>0. st \in [Conns -> Ops] /\ open' \subseteq open
  BY DEF Unrepeated, IInv, TypeOK, HandleReadEof, HandleReadMore, DispatchComplete,
     DispatchIncomplete
<1>1. \E op \in Ops, res \in Results :
         /\ Arrived(c, "read", op, res)
         /\ LET g == RingAfter(c, op, res)
            IN \/ io' = g /\ st' = st /\ lost' = lost \cup {c}
               \/ io' = Put(g, c, Sq("close")) /\ st' = [st EXCEPT ![c] = "close"]
                  /\ lost' = lost
               \/ \E q \in {Queued, MainQ} : io' = Put(g, c, q) /\ st' = st /\ lost' = lost
               \/ \E e \in SetEvent(g, c, "read") : Settle(e, c, "read")
  BY DEF HandleReadEof, HandleReadMore, DispatchComplete, DispatchIncomplete,
     HasData, Settle, Results
<1>2. PICK op \in Ops, res \in Results :
         /\ Arrived(c, "read", op, res)
         /\ LET g == RingAfter(c, op, res)
            IN \/ io' = g /\ st' = st /\ lost' = lost \cup {c}
               \/ io' = Put(g, c, Sq("close")) /\ st' = [st EXCEPT ![c] = "close"]
                  /\ lost' = lost
               \/ \E q \in {Queued, MainQ} : io' = Put(g, c, q) /\ st' = st /\ lost' = lost
               \/ \E e \in SetEvent(g, c, "read") : Settle(e, c, "read")
  BY <1>1
<1>3. UNCHANGED <<armed, inuse, fd, wbuf, open, nsess, denied, failed>>
  BY DEF HandleReadEof, HandleReadMore, DispatchComplete, DispatchIncomplete
<1> DEFINE g == RingAfter(c, op, res)
<1>4. /\ Cq(op, res) \in io.ref[c]
      /\ g = Take(io, c, Cq(op, res))
      /\ c \in Live /\ st[c] = "read" /\ fd[c] \in open
      /\ fd[c] \notin ToSet(wbuf[c])
      /\ ToSet(wbuf[c]) \subseteq {fd[c]} \cup failed
  BY <1>2, ReadArrived
<1> HIDE DEF g
<1>5. CASE io' = g /\ st' = st /\ lost' = lost \cup {c}
  <2>1. Seen(io') = [Seen(io) EXCEPT ![c] = {}]
    BY <1>4, <1>5, Took
  <2> QED  BY <1>3, <1>4, <1>5, <2>1, LostStep
<1>6. CASE io' = Put(g, c, Sq("close")) /\ st' = [st EXCEPT ![c] = "close"] /\ lost' = lost
  <2>1. st'[c] = "close" /\ \A d \in Conns \ {c} : st'[d] = st[d]
    BY <1>0, <1>6
  <2>2. Sq("close") \in Places /\ Mark(Sq("close")) = Kern("close")
    BY PlacesFacts, MarkFacts DEF Ops
  <2>3. Fits(c, Kern("close"))'
    BY <1>3, <1>4, <2>1 DEF Fits, Kern, CqPlaces, Cq
  <2> QED  BY <1>0, <1>3, <1>4, <1>6, <2>1, <2>2, <2>3, PutSound
<1>7. CASE \E q \in {Queued, MainQ} : io' = Put(g, c, q) /\ st' = st /\ lost' = lost
  <2>1. PICK q \in {Queued, MainQ} : io' = Put(g, c, q) /\ st' = st /\ lost' = lost
    BY <1>7
  <2>2. q \in Places /\ Mark(q) = q
    BY PlacesFacts, MarkFacts DEF TaskPlaces
  <2>3. Fits(c, q)'
    BY <1>3, <1>4, <2>1 DEF Fits, Queued, MainQ, CqPlaces, Cq
  <2> QED  BY <1>0, <1>3, <1>4, <2>1, <2>2, <2>3, PutSound
<1>8. CASE \E e \in SetEvent(g, c, "read") : Settle(e, c, "read")
  BY <1>3, <1>4, <1>8, SettleSound
<1> QED  BY <1>2, <1>5, <1>6, <1>7, <1>8 DEF g

\* The rest of a buffer, and a buffer with an answer of n units added.
LEMMA RestOfBuffer ==
    ASSUME NEW s \in Seq(Nat), NEW n \in Nat, n <= Len(s)
    PROVE  /\ ToSet(SubSeq(s, n + 1, Len(s))) \subseteq ToSet(s)
           /\ ~(n < Len(s)) => ToSet(SubSeq(s, n + 1, Len(s))) = {}
<1>1. SubSeq(s, n + 1, Len(s)) \in Seq(Nat)
      /\ Len(SubSeq(s, n + 1, Len(s))) = Len(s) - n
      /\ \A i \in 1 .. Len(s) - n : SubSeq(s, n + 1, Len(s))[i] = s[n + i]
  OBVIOUS
<1>2. \A i \in 1 .. Len(s) - n : n + i \in DOMAIN s
  OBVIOUS
<1> QED  BY <1>1, <1>2 DEF ToSet

LEMMA AnswerAdded ==
    ASSUME NEW s \in Seq(Nat), NEW n \in Nat, NEW x \in Nat
    PROVE  ToSet(s \o [i \in 1 .. n |-> x]) \subseteq ToSet(s) \cup {x}
<1> DEFINE t == [i \in 1 .. n |-> x]
<1>1. t \in Seq(Nat) /\ Len(t) = n /\ \A i \in 1 .. n : t[i] = x
  OBVIOUS
<1> HIDE DEF t
<1>2. /\ DOMAIN (s \o t) = 1 .. Len(s) + n
      /\ \A i \in 1 .. Len(s) + n :
            (s \o t)[i] = IF i <= Len(s) THEN s[i] ELSE t[i - Len(s)]
  BY <1>1
<1>3. \A i \in DOMAIN (s \o t) : (s \o t)[i] \in ToSet(s) \cup {x}
  BY <1>1, <1>2 DEF ToSet
<1>4. ToSet(s \o t) = {(s \o t)[i] : i \in DOMAIN (s \o t)}
  BY DEF ToSet
<1>5. ToSet(s \o t) \subseteq ToSet(s) \cup {x}
  BY <1>3, <1>4
<1> QED  BY <1>5 DEF t

LEMMA WriteSound ==
    ASSUME Unrepeated, NEW c \in Conns, HandleWrite(c)
    PROVE  SessionsSound'
<1>1. PICK op \in Ops, n \in 0 .. BufferCap :
         /\ Arrived(c, "write", op, "pos")
         /\ n <= Len(wbuf[c])
         /\ wbuf' = [wbuf EXCEPT ![c] = SubSeq(@, n + 1, Len(@))]
         /\ LET next == IF n < Len(wbuf[c]) THEN "write" ELSE "read"
            IN \E e \in SetEvent(RingAfter(c, op, "pos"), c, next) : Settle(e, c, next)
  BY DEF HandleWrite
<1> DEFINE next == IF n < Len(wbuf[c]) THEN "write" ELSE "read"
<1>2. PICK e \in SetEvent(RingAfter(c, op, "pos"), c, next) : Settle(e, c, next)
  BY <1>1
<1>3. Cq(op, "pos") \in io.ref[c] /\ st[c] = "write"
      /\ RingAfter(c, op, "pos") = Take(io, c, Cq(op, "pos"))
  BY <1>1 DEF Arrived, RingAfter
<1>4. Expected(Cq(op, "pos")) = op /\ Mark(Cq(op, "pos")) = Cq(op, "pos")
  BY PlacesFacts, MarkFacts DEF Results
<1>5. op = "write" /\ Sound(c) /\ Fits(c, Cq(op, "pos"))
  BY <1>3, <1>4, Took
<1>6. fd[c] \in open
  BY <1>5 DEF Fits, Cq
<1>7. wbuf \in [Conns -> Seq(Nat)] /\ n \in Nat
  BY CountsAssumption DEF Unrepeated, IInv, TypeOK
<1>8. wbuf'[c] = SubSeq(wbuf[c], n + 1, Len(wbuf[c]))
      /\ \A d \in Conns \ {c} : wbuf'[d] = wbuf[d]
  BY <1>1, <1>7
<1>9. ToSet(wbuf'[c]) \subseteq ToSet(wbuf[c])
      /\ (~(n < Len(wbuf[c])) => ToSet(wbuf'[c]) = {})
  BY <1>1, <1>7, <1>8, RestOfBuffer
<1>10. ToSet(wbuf'[c]) \subseteq {fd[c]} \cup failed
  BY <1>5, <1>9 DEF Sound
<1>11. UNCHANGED <<armed, inuse, fd, open, nsess, denied, failed>>
  BY DEF HandleWrite
<1>12. next \in {"read", "write"} /\ (next = "read" => ToSet(wbuf'[c]) = {})
  BY <1>9
<1> HIDE DEF next
<1> QED  BY <1>2, <1>3, <1>6, <1>8, <1>10, <1>11, <1>12, SettleSound

LEMMA ReleaseSound ==
    ASSUME Unrepeated, NEW c \in Conns,
           HandleAcceptError(c) \/ HandleWriteError(c) \/ HandleClose(c)
    PROVE  SessionsSound'
<1>1. PICK op \in Ops, res \in Results, s \in {"accept", "write", "close"} :
         /\ Arrived(c, s, op, res) /\ io' = RingAfter(c, op, res)
         /\ s = "accept" => HandleAcceptError(c)
         /\ s = "write" => HandleWriteError(c)
         /\ s = "close" => HandleClose(c)
  BY DEF HandleAcceptError, HandleWriteError, HandleClose, Results
<1>2. Cq(op, res) \in io.ref[c] /\ st[c] = s /\ io' = Take(io, c, Cq(op, res))
  BY <1>1 DEF Arrived, RingAfter
<1>3. Expected(Cq(op, res)) = op /\ Mark(Cq(op, res)) = Cq(op, res)
  BY PlacesFacts, MarkFacts
<1>4. /\ op = s /\ c \in Live /\ Sound(c) /\ Fits(c, Cq(op, res))
      /\ Seen(io') = [Seen(io) EXCEPT ![c] = {}]
  BY <1>2, <1>3, Took
<1>5. UNCHANGED <<armed, st, fd, wbuf, open, nsess, lost>> /\ inuse' = inuse \ {c}
  BY DEF HandleAcceptError, HandleWriteError, HandleClose
<1>6. Sockets /\ nsess \in Nat
  BY DEF Unrepeated, SessionsSound, IInv, TypeOK
<1>7. CASE s = "accept"
  <2>1. denied' = denied + 1 /\ failed' = failed
    BY <1>1, <1>7 DEF HandleAcceptError
  <2>2. ToSet(wbuf[c]) \subseteq failed /\ fd[c] \notin open
    BY <1>2, <1>4, <1>6, <1>7 DEF Sound, Accepting, Sockets, NoFd
  <2> QED  BY <1>2, <1>4, <1>5, <1>7, <2>1, <2>2, ReleasedStep
<1>8. CASE s = "write"
  <2>1. denied' = denied /\ failed' = failed \cup {fd[c]}
    BY <1>1, <1>8 DEF HandleWriteError
  <2>2. ToSet(wbuf[c]) \subseteq failed'
    BY <1>4, <2>1 DEF Sound
  <2> QED  BY <1>2, <1>4, <1>5, <1>8, <2>1, <2>2, ReleasedStep
<1>9. CASE s = "close"
  <2>1. denied' = denied /\ failed' = failed
    BY <1>1, <1>9 DEF HandleClose
  <2>2. Cq(op, res) \in CqPlaces /\ Cq(op, res)[2] = "close" /\ Cq(op, res) # Callback
    BY <1>4, <1>9 DEF CqPlaces, Cq, Callback
  <2>3. fd[c] \notin open /\ fd[c] \notin ToSet(wbuf[c])
    BY <1>2, <1>4, <1>9, <2>2 DEF Fits
  <2>4. ToSet(wbuf[c]) \subseteq failed
    BY <1>4, <2>3 DEF Sound
  <2> QED  BY <1>2, <1>4, <1>5, <1>9, <2>1, <2>3, <2>4, ReleasedStep
<1> QED  BY <1>7, <1>8, <1>9

\* A task works on an open socket, and up to its end on an empty buffer.
LEMMA TaskTook ==
    ASSUME Unrepeated, NEW c \in Conns, NEW p \in TaskPlaces, p \in io.ref[c]
    PROVE  /\ p \in Places /\ Mark(p) = p
           /\ Seen(Take(io, c, p)) = [Seen(io) EXCEPT ![c] = {}]
           /\ c \in Live /\ st[c] = "read" /\ fd[c] \in open
           /\ ToSet(wbuf[c]) \subseteq {fd[c]} \cup failed
           /\ p # Callback => fd[c] \notin ToSet(wbuf[c])
<1>1. p \in Places /\ Mark(p) = p /\ Expected(p) = "read"
  BY PlacesFacts, MarkFacts
<1>2. /\ Seen(Take(io, c, p)) = [Seen(io) EXCEPT ![c] = {}]
      /\ c \in Live /\ st[c] = "read" /\ Sound(c) /\ Fits(c, p)
  BY <1>1, Took
<1>3. p[2] # "accept" /\ p # Cq("close", "zero")
  BY DEF TaskPlaces, MainQ, Queued, Running, Callback, Cq
<1> QED  BY <1>1, <1>2, <1>3 DEF Fits, Sound

LEMMA TaskSound ==
    ASSUME Unrepeated, NEW c \in Conns,
           RunMainTask(c) \/ TakeTask(c) \/ RunTask(c) \/ TaskThrows(c)
    PROVE  SessionsSound'
<1>0. UNCHANGED <<armed, inuse, st, fd, open, nsess, denied, failed>>
  BY DEF RunMainTask, TakeTask, RunTask, TaskThrows
<1>1. {MainQ, Queued, Running, Callback} = TaskPlaces
  BY DEF TaskPlaces
<1>2. CASE RunMainTask(c)
  <2>1. /\ MainQ \in io.ref[c] /\ wbuf' = wbuf
        /\ \/ io' = Take(io, c, MainQ) /\ lost' = lost \cup {c}
           \/ io' = Put(Take(io, c, MainQ), c, Sq("read")) /\ lost' = lost
    BY <1>2 DEF RunMainTask
  <2>2. /\ Seen(Take(io, c, MainQ)) = [Seen(io) EXCEPT ![c] = {}]
        /\ c \in Live /\ st[c] = "read" /\ fd[c] \in open
        /\ ToSet(wbuf[c]) \subseteq {fd[c]} \cup failed
        /\ fd[c] \notin ToSet(wbuf[c])
    BY <1>1, <2>1, TaskTook DEF MainQ, Callback
  <2>3. CASE io' = Take(io, c, MainQ) /\ lost' = lost \cup {c}
    BY <1>0, <2>1, <2>2, <2>3, LostStep
  <2>4. CASE io' = Put(Take(io, c, MainQ), c, Sq("read")) /\ lost' = lost
    <3>1. Sq("read") \in Places /\ Mark(Sq("read")) = Kern("read")
      BY PlacesFacts, MarkFacts DEF Ops
    <3>2. Fits(c, Kern("read"))'
      BY <1>0, <2>1, <2>2 DEF Fits, Kern, CqPlaces, Cq
    <3> QED  BY <1>0, <2>1, <2>2, <2>4, <3>1, <3>2, PutSound
  <2> QED  BY <2>1, <2>3, <2>4
<1>3. CASE TakeTask(c)
  <2>1. Queued \in io.ref[c] /\ io' = Put(Take(io, c, Queued), c, Running)
        /\ wbuf' = wbuf /\ lost' = lost
    BY <1>3 DEF TakeTask, Move
  <2>2. /\ c \in Live /\ st[c] = "read" /\ fd[c] \in open
        /\ ToSet(wbuf[c]) \subseteq {fd[c]} \cup failed
        /\ fd[c] \notin ToSet(wbuf[c])
    BY <1>1, <2>1, TaskTook DEF Queued, Callback
  <2>3. Running \in Places /\ Mark(Running) = Running
    BY <1>1, PlacesFacts, MarkFacts
  <2>4. Fits(c, Running)'
    BY <1>0, <2>1, <2>2 DEF Fits, Running, CqPlaces, Cq
  <2> QED  BY <1>0, <2>1, <2>2, <2>3, <2>4, PutSound
<1>4. CASE RunTask(c)
  <2>1. /\ Running \in io.ref[c] /\ io' = Put(Take(io, c, Running), c, Callback)
        /\ lost' = lost
        /\ \E n \in 0 .. BufferCap :
              wbuf' = [wbuf EXCEPT ![c] = @ \o [i \in 1 .. n |-> fd[c]]]
    BY <1>4 DEF RunTask, Move
  <2>2. PICK n \in 0 .. BufferCap :
              wbuf' = [wbuf EXCEPT ![c] = @ \o [i \in 1 .. n |-> fd[c]]]
    BY <2>1
  <2>3. /\ c \in Live /\ st[c] = "read" /\ fd[c] \in open
        /\ ToSet(wbuf[c]) \subseteq {fd[c]} \cup failed
    BY <1>1, <2>1, TaskTook
  <2>4. wbuf \in [Conns -> Seq(Nat)] /\ fd[c] \in Nat /\ n \in Nat
    BY CountsAssumption DEF Unrepeated, IInv, TypeOK
  <2>5. wbuf'[c] = wbuf[c] \o [i \in 1 .. n |-> fd[c]]
        /\ \A d \in Conns \ {c} : wbuf'[d] = wbuf[d]
    BY <2>2, <2>4
  <2>6. ToSet(wbuf'[c]) \subseteq {fd[c]} \cup failed
    BY <2>3, <2>4, <2>5, AnswerAdded
  <2>7. Callback \in Places /\ Mark(Callback) = Callback
    BY <1>1, PlacesFacts, MarkFacts
  <2>8. Fits(c, Callback)'
    BY <1>0, <2>3 DEF Fits, Callback, CqPlaces, Cq
  <2> QED  BY <1>0, <2>1, <2>3, <2>5, <2>6, <2>7, <2>8, PutSound
<1>5. CASE TaskThrows(c)
  <2>1. Running \in io.ref[c] /\ io' = Take(io, c, Running) /\ wbuf' = wbuf
        /\ lost' = lost \cup {c}
    BY <1>5 DEF TaskThrows
  <2>2. /\ Seen(Take(io, c, Running)) = [Seen(io) EXCEPT ![c] = {}]
        /\ c \in Live /\ st[c] = "read"
        /\ ToSet(wbuf[c]) \subseteq {fd[c]} \cup failed
    BY <1>1, <2>1, TaskTook
  <2> QED  BY <1>0, <2>1, <2>2, LostStep
<1> QED  BY <1>2, <1>3, <1>4, <1>5

LEMMA CallbackSound ==
    ASSUME Unrepeated, NEW c \in Conns, RunCallback(c)
    PROVE  SessionsSound'
<1> DEFINE g == Take(io, c, Callback)
           op == IF wbuf[c] # <<>> THEN "write" ELSE "read"
<1>1. Callback \in io.ref[c]
      /\ UNCHANGED <<armed, inuse, fd, wbuf, open, nsess, denied, failed>>
  BY DEF RunCallback
<1>2. /\ Seen(g) = [Seen(io) EXCEPT ![c] = {}]
      /\ c \in Live /\ st[c] = "read" /\ fd[c] \in open
      /\ ToSet(wbuf[c]) \subseteq {fd[c]} \cup failed
  BY <1>1, TaskTook DEF TaskPlaces
<1>3. op \in {"read", "write"} /\ (op = "read" => fd[c] \notin ToSet(wbuf[c]))
  BY DEF ToSet
<1>4. \/ \E e \in SetEvent(g, c, op) : Settle(e, c, op)
      \/ \E h \in Submit(g) : \E k \in {h} \cup Unprepared(h) :
            Settle([posted |-> FALSE, g |-> k], c, op)
  BY DEF RunCallback
<1>5. CASE \E e \in SetEvent(g, c, op) : Settle(e, c, op)
  <2> HIDE DEF op
  <2> QED  BY <1>1, <1>2, <1>3, <1>5, SettleSound
<1>6. CASE \E h \in Submit(g) : \E k \in {h} \cup Unprepared(h) :
             Settle([posted |-> FALSE, g |-> k], c, op)
  <2>1. PICK h \in Submit(g) : \E k \in {h} \cup Unprepared(h) :
            Settle([posted |-> FALSE, g |-> k], c, op)
    BY <1>6
  <2>2. PICK k \in {h} \cup Unprepared(h) : Settle([posted |-> FALSE, g |-> k], c, op)
    BY <2>1
  <2>3. io' = k /\ st' = st /\ lost' = lost \cup {c}
    BY <2>2 DEF Settle
  <2>4. g \in IoType
    BY <1>1, Took
  <2> HIDE DEF g
  <2>5. h \in IoType /\ Seen(h) = Seen(g)
    BY <2>4, SubmitClean, SeenSubmit
  <2>6. ~k.again
    BY <2>3 DEF Unrepeated
  <2>7. Seen(k) = Seen(g)
    BY <2>5, <2>6, SeenUnprepared
  <2> QED  BY <1>1, <1>2, <2>3, <2>7, LostStep
<1> QED  BY <1>4, <1>5, <1>6

LEMMA KernelSound ==
    ASSUME Unrepeated, NEW c \in Conns, Kernel(c)
    PROVE  SessionsSound'
<1>1. PICK op \in Ops, res \in Results :
         /\ Finish(c, op, res)
         /\ \/ op # "close" /\ open' = open
            \/ op = "close" /\ res = "zero" /\ open' = open \ {fd[c]}
  BY ReadAssumption DEF Kernel, ClientConnects, AcceptFails, ReadCompletes,
     WriteCompletes, CloseCompletes, Ops, Results
<1>2. UNCHANGED <<armed, inuse, st, fd, wbuf, nsess, denied, lost, failed>>
  BY DEF Kernel, ClientConnects, AcceptFails, ReadCompletes, WriteCompletes,
     CloseCompletes
<1>3. Kern(op) \in io.ref[c] /\ io' = Put(Take(io, c, Kern(op)), c, Cq(op, res))
  BY <1>1 DEF Finish, Move
<1>4. /\ Cq(op, res) \in Places /\ Mark(Cq(op, res)) = Cq(op, res)
      /\ Mark(Kern(op)) = Kern(op) /\ Expected(Kern(op)) = op
  BY PlacesFacts, MarkFacts
<1>5. c \in Live /\ Sound(c) /\ Fits(c, Kern(op)) /\ st[c] = op
  BY <1>3, <1>4, Took
<1>6. ASSUME NEW d \in Conns \ {c}, Seen(io)[d] # {}
      PROVE  fd[d] \in open' <=> fd[d] \in open
  <2>1. c \in inuse /\ d \in inuse
    BY <1>5, <1>6, SeenLive DEF Unrepeated, Live
  <2>2. CASE op = "close" /\ open' = open \ {fd[c]}
    <3>1. fd[c] \in open
      BY <1>5, <2>2 DEF Fits, Kern, Cq
    <3>2. Sockets /\ nsess \in Nat
      BY DEF Unrepeated, SessionsSound, IInv, TypeOK
    <3>3. fd[c] # NoFd
      BY <3>1, <3>2 DEF Sockets, NoFd
    <3>4. fd[d] # fd[c]
      BY <2>1, <3>2, <3>3 DEF Sockets
    <3> QED  BY <2>2, <3>4
  <2> QED  BY <1>1, <2>2
<1>7. Fits(c, Cq(op, res))'
  <2>1. Kern(op)[2] = op /\ Cq(op, res)[2] = op
        /\ Kern(op) # Callback /\ Cq(op, res) # Callback
        /\ Kern(op) # Cq("close", "zero")
    BY DEF Kern, Cq, Callback
  <2>2. CASE op # "close" /\ open' = open
    BY <1>2, <1>5, <2>1, <2>2 DEF Fits
  <2>3. CASE op = "close" /\ res = "zero" /\ open' = open \ {fd[c]}
    BY <1>2, <1>5, <2>1, <2>3 DEF Fits
  <2> QED  BY <1>1, <2>2, <2>3
<1>8. ToSet(wbuf[c]) \subseteq {fd[c]} \cup failed /\ open' \subseteq open
  BY <1>1, <1>5 DEF Sound
<1> QED  BY <1>2, <1>3, <1>4, <1>5, <1>6, <1>7, <1>8, PutSound

---------------------------------------------------------------------------
(* The theorems.                                                           *)

\* That an operation was repeated is never forgotten.
LEMMA AgainStays ==
    ASSUME IInv, IInv', [Next]_vars, ~io'.again
    PROVE  ~io.again
<1>0. io \in IoType /\ st \in [Conns -> Ops] /\ fd \in [Conns -> Nat]
      /\ inuse \subseteq Conns /\ denied \in Nat
  BY DEF IInv, TypeOK, IoType
<1>1. \A c \in Conns : \A p \in io.ref[c] :
         /\ Take(io, c, p) \in IoType /\ Take(io, c, p).again = io.again
         /\ \A q \in Places : Put(Take(io, c, p), c, q).again = io.again
  BY <1>0, TakeClean, PutType
<1>2. \A g \in IoType : \A c \in Conns : \A op \in Ops : \A e \in SetEvent(g, c, op) :
         e.g \in IoType /\ e.g.again = g.again
  BY SetEventClean
<1>3. \A g \in IoType : \A h \in Submit(g) : h \in IoType /\ h.again = g.again
  BY SubmitClean
<1>4. \A p \in TaskPlaces : p \in Places
  BY PlacesFacts
<1>5. {MainQ, Queued, Running, Callback} = TaskPlaces
  BY DEF TaskPlaces
<1>6. Sq("close") \in Places /\ Sq("read") \in Places
      /\ "read" \in Ops /\ "write" \in Ops
  BY PlacesFacts DEF Ops
<1>7. CASE ArmInitialAccept
  BY <1>0, <1>7, SetAcceptClean DEF ArmInitialAccept
<1>8. CASE StartLoop \/ SubmitRound
  BY <1>0, <1>3, <1>8 DEF StartLoop, SubmitRound
<1>9. CASE WaitCqe \/ WaitAgain \/ WaitFails \/ CqesDone \/ TasksDone \/ Stop
  BY <1>9 DEF WaitCqe, WaitAgain, WaitFails, CqesDone, TasksDone, Stop
<1>10. CASE UNCHANGED vars
  BY <1>10 DEF vars
<1>11. ASSUME NEW c \in Conns,
              \/ HandleAcceptError(c) \/ HandleWriteError(c) \/ HandleClose(c)
              \/ DispatchComplete(c) \/ HandleReadEof(c)
       PROVE  ~io.again
  BY <1>1, <1>4, <1>5, <1>6, <1>11 DEF HandleAcceptError, HandleWriteError, HandleClose,
     DispatchComplete, HandleReadEof, HasData, Arrived, RingAfter, Settle
<1>12. ASSUME NEW c \in Conns,
              HandleReadMore(c) \/ DispatchIncomplete(c) \/ HandleWrite(c)
       PROVE  ~io.again
  BY <1>1, <1>2, <1>4, <1>5, <1>6, <1>12 DEF HandleReadMore, DispatchIncomplete,
     HandleWrite, HasData, Arrived, RingAfter, Settle
<1>13. ASSUME NEW c \in Conns, HandleAccept(c)
       PROVE  ~io.again
  <2>0. PICK op \in Ops, res \in {"zero", "pos"} :
           /\ Arrived(c, "accept", op, res)
           /\ \E e \in SetEvent(RingAfter(c, op, res), c, "read") :
                SetAccept(e.g, IF e.posted THEN [st EXCEPT ![c] = "read"] ELSE st,
                          [fd EXCEPT ![c] = nsess + 1], "cqes")
    BY <1>13 DEF HandleAccept
  <2>1. PICK e \in SetEvent(RingAfter(c, op, res), c, "read") :
           SetAccept(e.g, IF e.posted THEN [st EXCEPT ![c] = "read"] ELSE st,
                     [fd EXCEPT ![c] = nsess + 1], "cqes")
    BY <2>0
  <2>2. RingAfter(c, op, res) \in IoType /\ RingAfter(c, op, res).again = io.again
    BY <1>1, <2>0 DEF Arrived, RingAfter
  <2>3. e.g \in IoType /\ e.g.again = io.again
    BY <1>2, <1>6, <2>2
  <2>4. ~e.g.again
    <3> DEFINE s1 == IF e.posted THEN [st EXCEPT ![c] = "read"] ELSE st
               f1 == [fd EXCEPT ![c] = nsess + 1]
    <3>1. s1 \in [Conns -> Ops] /\ f1 \in [Conns -> Nat]
      <4>1. st \in [Conns -> Ops] /\ fd \in [Conns -> Nat] /\ nsess \in Nat /\ "read" \in Ops
        BY <1>0, <1>6 DEF IInv, TypeOK
      <4> QED  BY <4>1
    <3>2. SetAccept(e.g, s1, f1, "cqes")
      BY <2>1
    <3> HIDE DEF s1, f1
    <3> QED  BY <1>0, <2>3, <3>1, <3>2, SetAcceptClean
  <2> QED  BY <2>3, <2>4
<1>14. ASSUME NEW c \in Conns,
              RunMainTask(c) \/ TakeTask(c) \/ RunTask(c) \/ TaskThrows(c)
       PROVE  ~io.again
  BY <1>1, <1>4, <1>5, <1>6, <1>14 DEF RunMainTask, TakeTask, RunTask, TaskThrows, Move
<1>15. ASSUME NEW c \in Conns, RunCallback(c)
       PROVE  ~io.again
  <2> DEFINE g == Take(io, c, Callback)
             op == IF wbuf[c] # <<>> THEN "write" ELSE "read"
  <2>1. \/ \E e \in SetEvent(g, c, op) : io' = e.g
        \/ \E h \in Submit(g) : io' \in {h} \cup Unprepared(h)
    BY <1>15 DEF RunCallback, Settle
  <2>2. g \in IoType /\ g.again = io.again
    BY <1>1, <1>15 DEF RunCallback
  <2>3. op \in Ops
    BY <1>6
  <2> HIDE DEF g, op
  <2> QED  BY <1>2, <1>3, <2>1, <2>2, <2>3, UnpreparedType
<1>16. ASSUME NEW c \in Conns, Kernel(c)
       PROVE  ~io.again
  <2>1. \E op \in Ops, res \in Results : Finish(c, op, res)
    BY <1>16, ReadAssumption DEF Kernel, ClientConnects, AcceptFails, ReadCompletes,
       WriteCompletes, CloseCompletes, Ops, Results
  <2> QED  BY <1>1, <2>1, PlacesFacts DEF Finish, Move
<1> QED
  BY <1>7, <1>8, <1>9, <1>10, <1>11, <1>12, <1>13, <1>14, <1>15, <1>16
     DEF Next, MainStep, HandleCqe, Worker

LEMMA InitSInv == Init => SInv
<1> SUFFICES ASSUME Init PROVE SInv
  OBVIOUS
<1>1. IInv
  BY InitIInv
<1>2. \A c \in Conns : Sound(c)
  BY DEF Init, Sound, Seen, Accepting, Live, ToSet, NoFd
<1>3. Sockets
  BY DEF Init, Sockets
<1>4. Accepting = {}
  BY DEF Init, Accepting, Live
<1>5. Credit
  BY <1>4, FS_EmptySet DEF Init, Credit
<1> QED  BY <1>1, <1>2, <1>3, <1>5 DEF SInv, SessionsSound

LEMMA SStep == SInv /\ [Next]_vars => SInv'
<1> SUFFICES ASSUME SInv, [Next]_vars
             PROVE  SInv'
  OBVIOUS
<1>1. IInv /\ IInv'
  BY Step DEF SInv
<1>2. SUFFICES ASSUME ~io'.again
               PROVE  SessionsSound'
  BY <1>1 DEF SInv
<1>3. Unrepeated
  BY <1>1, <1>2, AgainStays DEF SInv, Unrepeated
<1>4. io \in IoType
  BY <1>1 DEF IInv, TypeOK, IoType
<1>5. CASE ArmInitialAccept
  BY <1>3, <1>5, ArmStep
<1>6. CASE StartLoop \/ SubmitRound
  <2>1. Seen(io') = Seen(io)
    BY <1>4, <1>6, SeenSubmit DEF StartLoop, SubmitRound
  <2> QED  BY <1>3, <1>6, <2>1, QuietStep DEF StartLoop, SubmitRound
<1>7. CASE WaitCqe \/ WaitAgain \/ WaitFails \/ CqesDone \/ TasksDone \/ Stop
  BY <1>3, <1>7, QuietStep DEF WaitCqe, WaitAgain, WaitFails, CqesDone, TasksDone, Stop
<1>8. ASSUME NEW c \in Conns, HandleCqe(c)
      PROVE  SessionsSound'
  BY <1>3, <1>8, ReleaseSound, AcceptSound, ReadSound, WriteSound DEF HandleCqe
<1>9. ASSUME NEW c \in Conns, RunMainTask(c) \/ Worker(c)
      PROVE  SessionsSound'
  BY <1>3, <1>9, TaskSound, CallbackSound DEF Worker
<1>10. ASSUME NEW c \in Conns, Kernel(c)
       PROVE  SessionsSound'
  BY <1>3, <1>10, KernelSound
<1>11. CASE UNCHANGED vars
  BY <1>3, <1>11, QuietStep DEF vars
<1> QED  BY <1>5, <1>6, <1>7, <1>8, <1>9, <1>10, <1>11 DEF Next, MainStep

\* SInv is an invariant: the places of a connection agree with its session and
\* with its buffers as long as no operation was repeated (run(), dispatch(),
\* the callback, release()).
THEOREM SessionInvariance == Spec => []SInv
<1> QED  BY InitSInv, SStep, PTL DEF Spec

\* A connection in use is never forgotten: whatever queue is full and
\* whatever submit fails, somebody has its pointer, except where the code
\* drops it (an exception in a task, no entry even after a submit).
THEOREM NobodyForgotten == Spec => []NoOrphan
<1>1. SInv => NoOrphan
  BY DEF SInv, SessionsSound, Sound, Seen, Live, NoOrphan, IInv, TypeOK
<1> QED  BY <1>1, SessionInvariance, PTL

\* Bookkeeping of run() and handle_accept_event up to the first repeated
\* operation: the accepts that wait and those that were denied make up what
\* was armed.  A denial (a failed accept, no entry, no object) is counted, not
\* excluded.
THEOREM AcceptsCounted == Spec => []AcceptCredit
<1>1. SInv => AcceptCredit
  BY DEF SInv, SessionsSound, Credit, Accepting, Live, AcceptCredit
<1> QED  BY <1>1, SessionInvariance, PTL

\* A socket belongs to one connection object, is open as long as an
\* operation or a task uses it, and is closed before its object is used for
\* another client unless a write to it failed.
THEOREM SocketOwner == Spec => []SocketOwned
<1>1. ASSUME SInv PROVE SocketOwned
  <2>1. ASSUME ~io.again, NEW c \in Conns, NEW p \in io.ref[c]
        PROVE  p[2] = "accept" \/ p = Cq("close", "zero") \/ fd[c] \in open
    <3>1. p \in Places /\ Mark(p) \in Seen(io)[c]
      BY <1>1, <2>1 DEF SInv, IInv, TypeOK, Seen
    <3>2. Fits(c, Mark(p))
      BY <1>1, <2>1, <3>1 DEF SInv, SessionsSound, Sound
    <3>3. Mark(p)[2] = p[2]
      BY <3>1, MarkFacts
    <3>4. Mark(p) = Cq("close", "zero") => p = Cq("close", "zero")
      BY DEF Mark, Kern, Cq
    <3> QED  BY <3>2, <3>3, <3>4 DEF Fits
  <2> QED  BY <1>1, <2>1 DEF SInv, SessionsSound, Sockets, SocketOwned
<1> QED  BY <1>1, SessionInvariance, PTL

\* The bytes in a write buffer are those of the client of the connection, or
\* of one whose write failed: clients never see each other's answers else.
THEOREM BuffersApart == Spec => []OwnBytes
<1>1. SInv => OwnBytes
  BY DEF SInv, SessionsSound, Sound, OwnBytes
<1> QED  BY <1>1, SessionInvariance, PTL

\* Partial writes and failed submits notwithstanding, no request is read
\* while a part of the answer before it is still in the write buffer.
THEOREM DrainBeforeRead == Spec => []ReadAfterDrain
<1>1. ASSUME SInv PROVE ReadAfterDrain
  <2>1. ASSUME ~io.again, NEW c \in Conns, NEW p \in io.ref[c] \ {Callback}, st[c] = "read"
        PROVE  fd[c] \notin ToSet(wbuf[c])
    <3>1. Mark(p) \in Seen(io)[c]
      BY <2>1 DEF Seen
    <3>2. Fits(c, Mark(p))
      BY <1>1, <2>1, <3>1 DEF SInv, SessionsSound, Sound
    <3>3. Mark(p) # Callback
      BY <2>1 DEF Mark, Kern, Callback
    <3> QED  BY <2>1, <3>2, <3>3 DEF Fits
  <2> QED  BY <2>1 DEF ReadAfterDrain
<1> QED  BY <1>1, SessionInvariance, PTL

---------------------------------------------------------------------------
(* The workers are left alone.                                             *)

WorkPlaces == {Queued, Running, Callback}

LEMMA SetAcceptOthers ==
    ASSUME NEW g, NEW s \in [Conns -> Ops], NEW f \in [Conns -> Nat], NEW next,
           SetAccept(g, s, f, next), NEW c \in Conns, c \in inuse
    PROVE  st'[c] = s[c] /\ fd'[c] = f[c]
BY DEF SetAccept

\* From the moment a request is queued until its callback has run, state,
\* descriptor and write buffer of the connection are changed by its worker
\* only, although main thread and kernel go on and no lock is held.
THEOREM WorkersAlone == Spec => WorkerExclusive
<1> DEFINE Alone == \A c \in Conns : \A p \in {Queued, Running, Callback} :
                       ~io.again /\ p \in io.ref[c] /\ p \in io'.ref[c] =>
                           UNCHANGED <<st[c], fd[c], wbuf[c]>>
<1>1. ASSUME IInv, [Next]_vars
      PROVE  [Alone]_vars
  <2> SUFFICES ASSUME Next, NEW c \in Conns, NEW p \in WorkPlaces,
                      ~io.again, p \in io.ref[c], p \in io'.ref[c]
               PROVE  st'[c] = st[c] /\ fd'[c] = fd[c] /\ wbuf'[c] = wbuf[c]
    BY <1>1 DEF WorkPlaces
  <2>1. /\ io \in IoType /\ st \in [Conns -> Ops] /\ fd \in [Conns -> Nat]
        /\ wbuf \in [Conns -> Seq(Nat)] /\ io.ref[c] = {p} /\ c \in inuse
    BY <1>1 DEF IInv, TypeOK, IoType, Clean
  <2>2. \A op \in Ops, res \in Results : Cq(op, res) \notin io.ref[c]
    BY <2>1 DEF WorkPlaces, Cq, Queued, Running, Callback
  <2>3. CASE MainStep \/ WaitAgain \/ WaitFails \/ Stop
    <3>1. CASE ArmInitialAccept
      <4>1. SetAccept(io, st, fd, "setup") /\ wbuf' = wbuf
        BY <3>1 DEF ArmInitialAccept
      <4> QED  BY <2>1, <4>1, SetAcceptOthers
    <3>2. CASE ~ArmInitialAccept
      BY <2>3, <3>2 DEF MainStep, StartLoop, WaitCqe, CqesDone, TasksDone,
         SubmitRound, WaitAgain, WaitFails, Stop
    <3> QED  BY <3>1, <3>2
  <2>4. ASSUME NEW d \in Conns, HandleCqe(d)
        PROVE  st'[c] = st[c] /\ fd'[c] = fd[c] /\ wbuf'[c] = wbuf[c]
    <3>1. d # c
      BY <2>2, <2>4 DEF HandleCqe, HandleAcceptError, HandleAccept, HandleReadEof,
         HandleReadMore, DispatchComplete, DispatchIncomplete, HandleWrite,
         HandleWriteError, HandleClose, HasData, Arrived, Results
    <3>2. CASE HandleAcceptError(d) \/ HandleWriteError(d) \/ HandleClose(d)
               \/ DispatchComplete(d)
      BY <3>2 DEF HandleAcceptError, HandleWriteError, HandleClose, DispatchComplete
    <3>3. CASE HandleReadEof(d) \/ HandleReadMore(d) \/ DispatchIncomplete(d)
      BY <2>1, <3>1, <3>3 DEF HandleReadEof, HandleReadMore, DispatchIncomplete, Settle
    <3>4. CASE HandleWrite(d)
      BY <2>1, <3>1, <3>4 DEF HandleWrite, Settle
    <3>5. CASE HandleAccept(d)
      <4> DEFINE f == [fd EXCEPT ![d] = nsess + 1]
      <4>1. PICK s, g : s \in [Conns -> Ops] /\ s[c] = st[c] /\ SetAccept(g, s, f, "cqes")
        <5>1. [st EXCEPT ![d] = "read"] \in [Conns -> Ops]
              /\ [st EXCEPT ![d] = "read"][c] = st[c]
          BY <2>1, <3>1 DEF Ops
        <5> QED  BY <2>1, <3>5, <5>1 DEF HandleAccept
      <4>2. f \in [Conns -> Nat] /\ f[c] = fd[c]
        BY <1>1, <2>1, <3>1 DEF IInv, TypeOK
      <4>3. wbuf' = wbuf
        BY <3>5 DEF HandleAccept
      <4> HIDE DEF f
      <4>4. st'[c] = s[c] /\ fd'[c] = f[c]
        <5>1. \E g2, next : SetAccept(g2, s, f, next)
          BY <4>1
        <5>2. s \in [Conns -> Ops] /\ f \in [Conns -> Nat] /\ c \in inuse
          BY <2>1, <4>1, <4>2
        <5> QED  BY <5>1, <5>2, SetAcceptOthers
      <4> QED  BY <4>1, <4>2, <4>3, <4>4
    <3> QED  BY <2>4, <3>2, <3>3, <3>4, <3>5 DEF HandleCqe
  <2>5. ASSUME NEW d \in Conns, RunMainTask(d) \/ TakeTask(d) \/ TaskThrows(d)
        PROVE  st'[c] = st[c] /\ fd'[c] = fd[c] /\ wbuf'[c] = wbuf[c]
    BY <2>5 DEF RunMainTask, TakeTask, TaskThrows
  <2>6. ASSUME NEW d \in Conns, RunTask(d)
        PROVE  st'[c] = st[c] /\ fd'[c] = fd[c] /\ wbuf'[c] = wbuf[c]
    <3>1. CASE d = c
      <4>1. p = Running /\ io'.ref[c] = {Callback}
        BY <2>1, <2>6, <3>1 DEF RunTask, Move, Put, Take, IoType
      <4> QED  BY <4>1 DEF Running, Callback
    <3>2. CASE d # c
      BY <2>1, <2>6, <3>2 DEF RunTask
    <3> QED  BY <3>1, <3>2
  <2>7. ASSUME NEW d \in Conns, RunCallback(d)
        PROVE  st'[c] = st[c] /\ fd'[c] = fd[c] /\ wbuf'[c] = wbuf[c]
    <3>1. fd' = fd /\ wbuf' = wbuf
      BY <2>7 DEF RunCallback
    <3>2. CASE d # c
      BY <2>1, <2>7, <3>1, <3>2 DEF RunCallback, Settle
    <3>3. CASE d = c /\ st' # st
      <4> DEFINE g == Take(io, c, Callback)
                 op == IF wbuf[c] # <<>> THEN "write" ELSE "read"
      <4>1. PICK e \in SetEvent(g, c, op) : io' = e.g
        BY <2>7, <3>3 DEF RunCallback, Settle
      <4>2. g \in IoType /\ g.ref[c] = {} /\ p = Callback
        <5>1. io.ref[c] = {Callback} /\ p = Callback
          BY <2>1, <2>7, <3>3 DEF RunCallback
        <5>2. g \in IoType
          BY <2>1, <5>1, TakeClean
        <5>3. g.ref[c] = {}
          BY <2>1, <5>1 DEF Take, IoType
        <5> QED  BY <5>1, <5>2, <5>3
      <4>3. op \in Ops
        BY DEF Ops
      <4> HIDE DEF g, op
      <4>4. Seen(io') = [Seen(g) EXCEPT ![c] = @ \cup {Kern(op)}] \/ Seen(io') = Seen(g)
        BY <4>1, <4>2, <4>3, SeenSetEvent
      <4>5. Seen(g)[c] = {}
        BY <4>2 DEF Seen
      <4>6. Seen(io')[c] \subseteq {Kern(op)}
        BY <4>4, <4>5 DEF Seen
      <4>7. Callback \in Seen(io')[c]
        BY <4>2, MarkFacts DEF Seen, TaskPlaces
      <4> QED  BY <4>6, <4>7 DEF Kern, Callback
    <3> QED  BY <3>1, <3>2, <3>3
  <2>8. ASSUME NEW d \in Conns, Kernel(d)
        PROVE  st'[c] = st[c] /\ fd'[c] = fd[c] /\ wbuf'[c] = wbuf[c]
    BY <2>8 DEF Kernel, ClientConnects, AcceptFails, ReadCompletes, WriteCompletes,
       CloseCompletes
  <2> QED  BY <2>3, <2>4, <2>5, <2>6, <2>7, <2>8 DEF Next, Worker
<1>2. IInv /\ [Next]_vars => [Alone]_vars
  BY <1>1
<1>3. (Spec => [][Alone]_vars) => (Spec => WorkerExclusive)
  BY DEF WorkerExclusive
<1> HIDE DEF Alone
<1> QED  BY <1>2, <1>3, Invariance, PTL DEF Spec

\* What the abstract pool knows is seen.
LEMMA WorkSeen ==
    ASSUME NEW g, NEW c \in Conns, NEW p \in WorkPlaces
    PROVE  p \in g.ref[c] <=> p \in Seen(g)[c]
<1>1. \A q : Mark(q) = p <=> q = p
  BY DEF Mark, Kern, SqPlaces, Sq, WorkPlaces, Queued, Running, Callback
<1> QED  BY <1>1 DEF Seen

\* Pointers that move elsewhere do not concern the pool.
LEMMA PoolApart ==
    ASSUME \A c \in Conns : Seen(io')[c] \cap WorkPlaces = Seen(io)[c] \cap WorkPlaces
    PROVE  Waiting' = Waiting /\ AtWork' = AtWork
<1>1. \A c \in Conns : \A p \in WorkPlaces : p \in io'.ref[c] <=> p \in io.ref[c]
  BY WorkSeen
<1> QED  BY <1>1 DEF Waiting, AtWork, WorkPlaces

\* The pointer of c leaves the place p and nothing of it is seen at a place
\* of the pool that is not in S.
LEMMA PoolMoves ==
    ASSUME Unrepeated, NEW c \in Conns, NEW p \in io.ref[c],
           NEW S, Seen(io') = [Seen(io) EXCEPT ![c] = S]
    PROVE  /\ Waiting' = (IF Queued \in S THEN Waiting \cup {c} ELSE Waiting \ {c})
           /\ AtWork' = IF S \cap {Running, Callback} # {} THEN AtWork \cup {c}
                        ELSE AtWork \ {c}
           /\ p \notin WorkPlaces => c \notin Waiting \cup AtWork
           /\ p = Queued => c \in Waiting /\ c \notin AtWork
           /\ p \in {Running, Callback} => c \in AtWork /\ c \notin Waiting
<1>1. \A d \in Conns : Seen(io')[d] = IF d = c THEN S ELSE Seen(io)[d]
  BY DEF Seen
<1>2. \A d \in Conns : \A q \in WorkPlaces :
         /\ q \in io'.ref[d] <=> q \in Seen(io')[d]
         /\ q \in io.ref[d] <=> q \in Seen(io)[d]
  BY WorkSeen
<1>3. \A d \in Conns \ {c} : \A q \in WorkPlaces : q \in io'.ref[d] <=> q \in io.ref[d]
  BY <1>1, <1>2
<1>4. \A q \in WorkPlaces : q \in io'.ref[c] <=> q \in S
  BY <1>1, <1>2
<1>5. io.ref[c] = {p}
  BY Took
<1>6. Queued \notin {Running, Callback}
  BY DEF Queued, Running, Callback
<1>7. Waiting' = (IF Queued \in S THEN Waiting \cup {c} ELSE Waiting \ {c})
  BY <1>3, <1>4 DEF Waiting, WorkPlaces
<1>8. AtWork' = IF S \cap {Running, Callback} # {} THEN AtWork \cup {c} ELSE AtWork \ {c}
  BY <1>3, <1>4 DEF AtWork, WorkPlaces
<1> QED  BY <1>5, <1>6, <1>7, <1>8 DEF Waiting, AtWork, WorkPlaces

\* Fewer connections are at work than workers have something in their hands,
\* or as many.
LEMMA BusyBound ==
    ASSUME Busy < NumWorkers
    PROVE  Cardinality(AtWork) < NumWorkers
<1> DEFINE B == {x \in Conns \X {Running, Callback} : x[2] \in io.ref[x[1]]}
           f == [x \in B |-> x[1]]
<1>1. IsFiniteSet({Running}) /\ IsFiniteSet({Running, Callback})
  <2>1. IsFiniteSet({Running})
    BY FS_Singleton
  <2>2. {Running, Callback} = {Running} \cup {Callback}
    OBVIOUS
  <2> QED  BY <2>1, <2>2, FS_AddElement
<1>2. IsFiniteSet(Conns \X {Running, Callback})
  BY <1>1, ConnsAssumption, FS_Product
<1>3. IsFiniteSet(B)
  BY <1>2, FS_Subset
<1>4. f \in Surjection(B, AtWork)
  <2>1. f \in [B -> AtWork]
    BY DEF AtWork
  <2>2. ASSUME NEW c \in AtWork
        PROVE  \E x \in B : f[x] = c
    <3>1. PICK p \in {Running, Callback} : p \in io.ref[c]
      BY DEF AtWork
    <3>2. c \in Conns /\ <<c, p>> \in B
      BY <3>1 DEF AtWork
    <3>3. f[<<c, p>>] = c
      BY <3>2
    <3> QED  BY <3>2, <3>3
  <2> QED  BY <2>1, <2>2 DEF Surjection
<1> HIDE DEF f
<1>5. IsFiniteSet(AtWork) /\ Cardinality(AtWork) <= Cardinality(B)
  BY <1>3, <1>4, FS_Surjection
<1>6. Cardinality(AtWork) \in Nat /\ Cardinality(B) \in Nat
  BY <1>3, <1>5, FS_CardinalityType
<1>7. Cardinality(B) < NumWorkers
  BY DEF Busy
<1> HIDE DEF B
<1> QED  BY <1>5, <1>6, <1>7, CountsAssumption

\* Steps on a connection that is not in the hands of the pool.
LEMMA OutsidePool ==
    ASSUME Unrepeated, NEW c \in Conns, NEW p \in io.ref[c], p \notin WorkPlaces,
           NEW S, S \cap WorkPlaces = {}, Seen(io') = [Seen(io) EXCEPT ![c] = S]
    PROVE  Waiting' = Waiting /\ AtWork' = AtWork
<1>1. Queued \notin S /\ S \cap {Running, Callback} = {}
  BY DEF WorkPlaces
<1>2. c \notin Waiting \cup AtWork
  BY PoolMoves
<1>3. Waiting' = Waiting \ {c} /\ AtWork' = AtWork \ {c}
  BY <1>1, PoolMoves
<1> QED  BY <1>2, <1>3

LEMMA WorkPlacesApart ==
    /\ \A op, res : Cq(op, res) \notin WorkPlaces
    /\ \A op : Kern(op) \notin WorkPlaces
    /\ MainQ \notin WorkPlaces
    /\ Queued # Running /\ Queued # Callback /\ Running # Callback
BY DEF WorkPlaces, Cq, Kern, MainQ, Queued, Running, Callback

\* The server's accept handlers and its start.
LEMMA AcceptsOutsidePool ==
    ASSUME Unrepeated, ArmInitialAccept \/ \E c \in Conns : HandleAccept(c)
    PROVE  Waiting' = Waiting /\ AtWork' = AtWork
<1>1. ASSUME NEW N, ArmedOne(N), NEW D \in SUBSET Conns, ArmedOn(N, D)
      PROVE  \A d \in D : Seen(io')[d] \cap WorkPlaces = Seen(io)[d] \cap WorkPlaces
  <2>1. \A d \in N : Seen(io)[d] = {}
    BY <1>1, ArmedType, SeenLive DEF Unrepeated, Live
  <2>2. \A d \in N : Seen(io')[d] = {Kern("accept")}
    BY <1>1 DEF ArmedOn
  <2> QED  BY <1>1, <2>1, <2>2, WorkPlacesApart DEF ArmedOn
<1>2. CASE ArmInitialAccept
  <2>1. PICK N : ArmedOne(N) /\ ArmedOn(N, Conns)
    BY <1>2, ArmForm
  <2> QED  BY <1>1, <2>1, PoolApart
<1>3. ASSUME NEW c \in Conns, HandleAccept(c)
      PROVE  Waiting' = Waiting /\ AtWork' = AtWork
  <2>1. PICK N : ArmedOne(N) /\ ArmedOn(N, Conns \ {c}) /\ Accepted(c)
    BY <1>3, AcceptForm
  <2>2. \A d \in Conns \ {c} : Seen(io')[d] \cap WorkPlaces = Seen(io)[d] \cap WorkPlaces
    BY <1>1, <2>1
  <2>3. PICK op \in Ops, res \in Results : Cq(op, res) \in io.ref[c]
    BY <1>3 DEF HandleAccept, Arrived, Results
  <2>4. Seen(io)[c] = {Cq(op, res)}
    BY <2>3, Took, MarkFacts
  <2>5. Seen(io')[c] \cap WorkPlaces = {} /\ Seen(io)[c] \cap WorkPlaces = {}
    BY <2>1, <2>4, WorkPlacesApart DEF Accepted
  <2> QED  BY <2>2, <2>5, PoolApart
<1> QED  BY <1>2, <1>3

\* The other completions, but for dispatch().
LEMMA CqesOutsidePool ==
    ASSUME Unrepeated, NEW c \in Conns,
           \/ HandleAcceptError(c) \/ HandleWriteError(c) \/ HandleClose(c)
           \/ HandleReadEof(c) \/ HandleReadMore(c) \/ HandleWrite(c)
           \/ DispatchIncomplete(c)
    PROVE  Waiting' = Waiting /\ AtWork' = AtWork
<1>1. PICK op \in Ops, res \in Results :
         /\ Cq(op, res) \in io.ref[c]
         /\ LET g == Take(io, c, Cq(op, res))
            IN \/ io' = g
               \/ io' = Put(g, c, Sq("close"))
               \/ io' = Put(g, c, MainQ)
               \/ \E o \in {"read", "write"} : \E e \in SetEvent(g, c, o) : io' = e.g
  BY DEF HandleAcceptError, HandleWriteError, HandleClose, HandleReadEof, HandleReadMore,
     HandleWrite, DispatchIncomplete, HasData, Arrived, RingAfter, Settle, Results
<1> DEFINE g == Take(io, c, Cq(op, res))
<1>2. \E S : S \cap WorkPlaces = {} /\ Seen(io') = [Seen(io) EXCEPT ![c] = S]
  <2>1. CASE io' = g
    BY <1>1, <2>1, Took
  <2>2. CASE io' = Put(g, c, Sq("close"))
    <3>1. Sq("close") \in Places /\ Mark(Sq("close")) = Kern("close")
      BY PlacesFacts, MarkFacts DEF Ops
    <3>2. Seen(io') = [Seen(io) EXCEPT ![c] = {Kern("close")}]
      BY <1>1, <2>2, <3>1, SeenMove
    <3>3. {Kern("close")} \cap WorkPlaces = {}
      BY WorkPlacesApart
    <3> QED  BY <3>2, <3>3
  <2>3. CASE io' = Put(g, c, MainQ)
    <3>1. MainQ \in Places /\ Mark(MainQ) = MainQ
      BY PlacesFacts, MarkFacts DEF TaskPlaces
    <3>2. Seen(io') = [Seen(io) EXCEPT ![c] = {MainQ}]
      BY <1>1, <2>3, <3>1, SeenMove
    <3> QED  BY <3>2, WorkPlacesApart
  <2>4. ASSUME NEW o \in {"read", "write"}, NEW e \in SetEvent(g, c, o), io' = e.g
        PROVE  \E S : S \cap WorkPlaces = {} /\ Seen(io') = [Seen(io) EXCEPT ![c] = S]
    <3>1. \A q \in Ops : \A h \in SetEvent(Take(io, c, Cq(op, res)), c, q) :
             /\ h.posted \in BOOLEAN
             /\ h.posted => Seen(h.g) = [Seen(io) EXCEPT ![c] = {Kern(q)}]
             /\ ~h.posted => Seen(h.g) = [Seen(io) EXCEPT ![c] = {}]
      BY <1>1, SeenSettle
    <3>2. o \in Ops
      BY DEF Ops
    <3>3. \/ Seen(io') = [Seen(io) EXCEPT ![c] = {Kern(o)}]
          \/ Seen(io') = [Seen(io) EXCEPT ![c] = {}]
      BY <2>4, <3>1, <3>2
    <3>4. {Kern(o)} \cap WorkPlaces = {} /\ {} \cap WorkPlaces = {}
      BY WorkPlacesApart
    <3> QED  BY <3>3, <3>4
  <2> QED  BY <1>1, <2>1, <2>2, <2>3, <2>4
<1> QED  BY <1>1, <1>2, OutsidePool, WorkPlacesApart

LEMMA TasksOutsidePool ==
    ASSUME Unrepeated, NEW c \in Conns, RunMainTask(c) \/ Kernel(c)
    PROVE  Waiting' = Waiting /\ AtWork' = AtWork
<1>1. CASE RunMainTask(c)
  <2>1. MainQ \in io.ref[c]
        /\ \/ io' = Take(io, c, MainQ)
           \/ io' = Put(Take(io, c, MainQ), c, Sq("read"))
    BY <1>1 DEF RunMainTask
  <2>2. Sq("read") \in Places /\ Mark(Sq("read")) = Kern("read")
    BY PlacesFacts, MarkFacts DEF Ops
  <2>3. \/ Seen(io') = [Seen(io) EXCEPT ![c] = {}]
        \/ Seen(io') = [Seen(io) EXCEPT ![c] = {Kern("read")}]
    BY <2>1, <2>2, Took, SeenMove
  <2>4. {Kern("read")} \cap WorkPlaces = {} /\ {} \cap WorkPlaces = {}
    BY WorkPlacesApart
  <2> QED  BY <2>1, <2>3, <2>4, OutsidePool, WorkPlacesApart
<1>2. CASE Kernel(c)
  <2>1. PICK op \in Ops, res \in Results : Finish(c, op, res)
    BY <1>2, ReadAssumption DEF Kernel, ClientConnects, AcceptFails, ReadCompletes,
       WriteCompletes, CloseCompletes, Ops, Results
  <2>2. Kern(op) \in io.ref[c] /\ io' = Put(Take(io, c, Kern(op)), c, Cq(op, res))
    BY <2>1 DEF Finish, Move
  <2>3. Cq(op, res) \in Places /\ Mark(Cq(op, res)) = Cq(op, res)
    BY PlacesFacts, MarkFacts
  <2>4. Seen(io') = [Seen(io) EXCEPT ![c] = {Cq(op, res)}]
    BY <2>2, <2>3, SeenMove
  <2>5. {Cq(op, res)} \cap WorkPlaces = {}
    BY WorkPlacesApart
  <2> QED  BY <2>2, <2>4, <2>5, OutsidePool, WorkPlacesApart
<1> QED  BY <1>1, <1>2

LEMMA PoolCardinality == ASSUME NEW S PROVE Pool!Cardinality(S) = Cardinality(S)
BY DEF Cardinality, Pool!Cardinality

\* dispatch() submits, and the workers start and finish, what the abstract
\* pool lets them.
LEMMA PoolTasks ==
    ASSUME Unrepeated, NEW c \in Conns,
           DispatchComplete(c) \/ TakeTask(c) \/ RunTask(c) \/ TaskThrows(c)
             \/ RunCallback(c)
    PROVE  Pool!Next \/ (Waiting' = Waiting /\ AtWork' = AtWork)
<1>1. \A p \in WorkPlaces : p \in Places /\ Mark(p) = p
  BY PlacesFacts, MarkFacts DEF WorkPlaces, TaskPlaces
<1>2. {Queued, Running, Callback} = WorkPlaces
  BY DEF WorkPlaces
<1>3. CASE DispatchComplete(c)
  <2>1. PICK op \in Ops, res \in Results :
           Cq(op, res) \in io.ref[c] /\ io' = Put(Take(io, c, Cq(op, res)), c, Queued)
    BY <1>3 DEF DispatchComplete, HasData, Arrived, RingAfter
  <2>2. Seen(io') = [Seen(io) EXCEPT ![c] = {Queued}]
    BY <1>1, <1>2, <2>1, SeenMove
  <2>3. Queued \in {Queued} /\ {Queued} \cap {Running, Callback} = {}
    BY WorkPlacesApart
  <2>4. c \notin Waiting \cup AtWork
        /\ Waiting' = Waiting \cup {c} /\ AtWork' = AtWork \ {c}
    BY <2>1, <2>2, <2>3, PoolMoves, WorkPlacesApart
  <2>5. AtWork' = AtWork
    BY <2>4
  <2> QED  BY <2>4, <2>5 DEF Pool!Next, Pool!Submit
<1>4. CASE TakeTask(c)
  <2>1. Queued \in io.ref[c] /\ io' = Put(Take(io, c, Queued), c, Running)
        /\ Busy < NumWorkers
    BY <1>4 DEF TakeTask, Move
  <2>2. Seen(io') = [Seen(io) EXCEPT ![c] = {Running}]
    BY <1>1, <1>2, <2>1, SeenMove
  <2>3. Queued \notin {Running} /\ {Running} \cap {Running, Callback} # {}
    BY WorkPlacesApart
  <2>4. c \in Waiting
        /\ Waiting' = Waiting \ {c} /\ AtWork' = AtWork \cup {c}
    BY <2>1, <2>2, <2>3, PoolMoves
  <2>5. Pool!Cardinality(AtWork) < NumWorkers
    BY <2>1, BusyBound, PoolCardinality
  <2> QED  BY <2>4, <2>5 DEF Pool!Next, Pool!Start
<1>5. CASE RunTask(c)
  <2>1. Running \in io.ref[c] /\ io' = Put(Take(io, c, Running), c, Callback)
    BY <1>5 DEF RunTask, Move
  <2>2. Seen(io') = [Seen(io) EXCEPT ![c] = {Callback}]
    BY <1>1, <1>2, <2>1, SeenMove
  <2>3. Queued \notin {Callback} /\ {Callback} \cap {Running, Callback} # {}
    BY WorkPlacesApart
  <2>4. c \in AtWork /\ c \notin Waiting
        /\ Waiting' = Waiting \ {c} /\ AtWork' = AtWork \cup {c}
    BY <2>1, <2>2, <2>3, PoolMoves
  <2> QED  BY <2>4
<1>6. ASSUME NEW p \in {Running, Callback}, p \in io.ref[c],
             NEW S, S \cap WorkPlaces = {}, Seen(io') = [Seen(io) EXCEPT ![c] = S]
      PROVE  Pool!Next
  <2>1. Queued \notin S /\ S \cap {Running, Callback} = {}
    BY <1>6 DEF WorkPlaces
  <2>2. c \in AtWork /\ c \notin Waiting
        /\ Waiting' = Waiting \ {c} /\ AtWork' = AtWork \ {c}
    BY <1>6, <2>1, PoolMoves
  <2>3. Waiting' = Waiting
    BY <2>2
  <2> QED  BY <2>2, <2>3 DEF Pool!Next, Pool!Finish
<1>7. CASE TaskThrows(c)
  <2>1. Running \in io.ref[c] /\ io' = Take(io, c, Running)
    BY <1>7 DEF TaskThrows
  <2>2. Seen(io') = [Seen(io) EXCEPT ![c] = {}]
    BY <2>1, Took
  <2> QED  BY <1>6, <2>1, <2>2
<1>8. CASE RunCallback(c)
  <2> DEFINE g == Take(io, c, Callback)
             op == IF wbuf[c] # <<>> THEN "write" ELSE "read"
  <2>1. /\ Callback \in io.ref[c]
        /\ \/ \E e \in SetEvent(g, c, op) : io' = e.g
           \/ \E h \in Submit(g) : io' \in {h} \cup Unprepared(h)
    BY <1>8 DEF RunCallback, Settle
  <2>2. op \in Ops
    BY DEF Ops
  <2>3. g \in IoType /\ Seen(g) = [Seen(io) EXCEPT ![c] = {}]
    BY <2>1, Took
  <2>4. CASE \E e \in SetEvent(g, c, op) : io' = e.g
    <3>1. \A q \in Ops : \A h \in SetEvent(Take(io, c, Callback), c, q) :
             /\ h.posted \in BOOLEAN
             /\ h.posted => Seen(h.g) = [Seen(io) EXCEPT ![c] = {Kern(q)}]
             /\ ~h.posted => Seen(h.g) = [Seen(io) EXCEPT ![c] = {}]
      BY <2>1, SeenSettle
    <3> HIDE DEF op
    <3>2. \/ Seen(io') = [Seen(io) EXCEPT ![c] = {Kern(op)}]
          \/ Seen(io') = [Seen(io) EXCEPT ![c] = {}]
      BY <2>2, <2>4, <3>1
    <3>3. {Kern(op)} \cap WorkPlaces = {} /\ {} \cap WorkPlaces = {}
      BY WorkPlacesApart
    <3> QED  BY <1>6, <2>1, <3>2, <3>3
  <2>5. CASE \E h \in Submit(g) : io' \in {h} \cup Unprepared(h)
    <3> HIDE DEF g
    <3>1. PICK h \in Submit(g) : io' \in {h} \cup Unprepared(h)
      BY <2>5
    <3>2. h \in IoType /\ Seen(h) = Seen(g)
      BY <2>3, <3>1, SubmitClean, SeenSubmit
    <3>3. Seen(io') = Seen(g)
      BY <3>1, <3>2, SeenUnprepared DEF Unrepeated
    <3> QED  BY <1>6, <2>1, <2>3, <3>3
  <2> QED  BY <2>1, <2>4, <2>5
<1> QED  BY <1>3, <1>4, <1>5, <1>7, <1>8

\* The event loop uses the threads as the abstract pool allows, which
\* ThreadPool implements: a connection is not submitted while a job of it
\* waits or runs, and no more jobs run than there are workers.
THEOREM PoolRefinement == Spec => PoolUsed
<1> DEFINE Used == [Pool!Next]_<<Waiting, AtWork>>
           UsedIf == ~io'.again => Used
<1>1. ASSUME SInv, [Next]_vars
      PROVE  [UsedIf]_vars
  <2> SUFFICES ASSUME Next, ~io'.again
               PROVE  Pool!Next \/ (Waiting' = Waiting /\ AtWork' = AtWork)
    BY <1>1
  <2>1. Unrepeated
    BY <1>1, Step, AgainStays DEF SInv, Unrepeated
  <2>2. CASE ArmInitialAccept \/ \E c \in Conns : HandleAccept(c)
    BY <2>1, <2>2, AcceptsOutsidePool
  <2>3. CASE StartLoop \/ SubmitRound
    <3>1. Seen(io') = Seen(io)
      BY <2>1, <2>3, SeenSubmit DEF StartLoop, SubmitRound, Unrepeated, IInv, TypeOK, IoType
    <3> QED  BY <3>1, PoolApart
  <2>4. CASE WaitCqe \/ WaitAgain \/ WaitFails \/ CqesDone \/ TasksDone \/ Stop
    <3>1. io' = io
      BY <2>4 DEF WaitCqe, WaitAgain, WaitFails, CqesDone, TasksDone, Stop
    <3> QED  BY <3>1 DEF Waiting, AtWork
  <2>5. ASSUME NEW c \in Conns, HandleCqe(c), ~HandleAccept(c)
        PROVE  Pool!Next \/ (Waiting' = Waiting /\ AtWork' = AtWork)
    BY <2>1, <2>5, CqesOutsidePool, PoolTasks DEF HandleCqe
  <2>6. ASSUME NEW c \in Conns, RunMainTask(c) \/ Worker(c) \/ Kernel(c)
        PROVE  Pool!Next \/ (Waiting' = Waiting /\ AtWork' = AtWork)
    BY <2>1, <2>6, TasksOutsidePool, PoolTasks DEF Worker
  <2> QED  BY <2>2, <2>3, <2>4, <2>5, <2>6 DEF Next, MainStep
<1>2. SInv /\ [Next]_vars => [UsedIf]_vars
  BY <1>1
<1>3. (Spec => [][UsedIf]_vars) => (Spec => PoolUsed)
  BY DEF PoolUsed
<1> HIDE DEF UsedIf
<1> QED  BY <1>2, <1>3, SessionInvariance, PTL DEF Spec

=============================================================================
