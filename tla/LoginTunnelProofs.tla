-------------------------- MODULE LoginTunnelProofs --------------------------
(***************************************************************************)
(* Theorems about LoginTunnel, for any number of clients, addresses and    *)
(* tunnels and everything that may go wrong: its types, that the ack queue *)
(* is the set of connections that wait for an ack, that an ack, even that  *)
(* of an earlier connection at the same address, only ends a connection    *)
(* whose login was handed over, and that mbbsd never takes the data of one *)
(* login with the socket of another.                                       *)
(***************************************************************************)
EXTENDS LoginTunnel, FiniteSetTheorems, SequenceTheorems, WellFoundedInduction, TLAPS

-----------------------------------------------------------------------------
(* What ackq_add and ackq_del do to the set of connections in the queue,   *)
(* and that they keep the queue consistent.                                *)

Queue(A, null) == [queue : Seq(A \cup {null}), reuse : Nat]

\* A set of naturals has a least element.
LEMMA LeastNatural ==
    ASSUME NEW T \in SUBSET Nat, T # {}
    PROVE  \E i \in T : \A j \in T : i <= j
<1>1. PICK i \in T : \A j \in T : ~ (<<j, i>> \in OpToRel(<, Nat))
  BY NatLessThanWellFounded, WFMin
<1>2. \A j \in T : ~ (j < i)
  BY <1>1 DEF OpToRel
<1> QED
  BY <1>2

\* The loops of ackq_add and ackq_del stop at a cell that they look for.
LEMMA FirstIsCell ==
    ASSUME NEW S, NEW s \in Seq(S), NEW a, Cells(s, a) # {}
    PROVE  First(s, a) \in Cells(s, a)
<1>1. Cells(s, a) \subseteq Nat
  BY LenProperties DEF Cells
<1>2. \E i \in Cells(s, a) : \A j \in Cells(s, a) : i <= j
  BY <1>1, LeastNatural
<1> QED
  BY <1>2 DEF First

LEMMA CellsFinite ==
    ASSUME NEW S, NEW s \in Seq(S), NEW a
    PROVE  /\ IsFiniteSet(1..Len(s)) /\ Cardinality(1..Len(s)) = Len(s)
           /\ IsFiniteSet(Cells(s, a)) /\ Cardinality(Cells(s, a)) \in Nat
<1>1. Len(s) \in Nat
  BY LenProperties
<1>2. IsFiniteSet(1..Len(s)) /\ Cardinality(1..Len(s)) = Len(s)
  BY SMTT(40), <1>1, FS_Interval
<1>3. Cells(s, a) \in SUBSET (1..Len(s))
  BY DEF Cells
<1> QED
  BY <1>2, <1>3, FS_Subset, FS_CardinalityType

\* ackq_gc resets a queue only if it holds nobody.
LEMMA GcKeeps ==
    ASSUME NEW A, NEW null, NEW q \in Queue(A, null), Consistent(q, null)
    PROVE  /\ ackq_gc(q) \in Queue(A, null)
           /\ Consistent(ackq_gc(q), null)
           /\ Items(ackq_gc(q), null) = Items(q, null)
<1>1. CASE q.reuse # Len(q.queue)
  BY <1>1 DEF ackq_gc
<1>2. CASE q.reuse = Len(q.queue)
  <2>1. ackq_gc(q) = EmptyQueue
    BY <1>2 DEF ackq_gc
  <2>2. q.queue \in Seq(A \cup {null})
    BY DEF Queue
  <2>3. Cells(q.queue, null) = 1..Len(q.queue)
    <3>1. Cells(q.queue, null) \in SUBSET (1..Len(q.queue))
      BY DEF Cells
    <3> QED
      BY <1>2, <2>2, <3>1, CellsFinite, FS_Subset DEF Consistent
  <2>4. Items(q, null) = {}
    BY <2>3 DEF Items, Cells
  <2>5. EmptyQueue.queue = <<>> /\ EmptyQueue.reuse = 0 /\ Len(<<>>) = 0
    BY DEF EmptyQueue
  <2>6. EmptyQueue \in Queue(A, null)
    BY EmptySeq DEF EmptyQueue, Queue
  <2>7. Items(EmptyQueue, null) = {}
    BY <2>5 DEF Items
  <2>8. Cells(<<>>, null) = {}
    BY <2>5 DEF Cells
  <2>9. Consistent(EmptyQueue, null)
    <3>1. 1..Len(EmptyQueue.queue) = {}
      BY <2>5
    <3>2. EmptyQueue.reuse = Cardinality(Cells(EmptyQueue.queue, null))
      BY <2>5, <2>8, FS_EmptySet
    <3> QED
      BY <3>1, <3>2 DEF Consistent
  <2> QED
    BY <2>1, <2>4, <2>6, <2>7, <2>9
<1> QED
  BY <1>1, <1>2

\* Putting a into a hole takes one cell from the free ones.
LEMMA FillCell ==
    ASSUME NEW A, NEW null, NEW s \in Seq(A \cup {null}),
           NEW a \in A, a # null, NEW i \in Cells(s, null)
    PROVE  LET r == [s EXCEPT ![i] = a] IN
           /\ r \in Seq(A \cup {null}) /\ Len(r) = Len(s)
           /\ \A j \in 1..Len(s) : r[j] = IF j = i THEN a ELSE s[j]
           /\ Cells(r, null) = Cells(s, null) \ {i}
<1> DEFINE r == [s EXCEPT ![i] = a]
<1>1. i \in 1..Len(s) /\ s[i] = null
  BY DEF Cells
<1>2. /\ r \in Seq(A \cup {null}) /\ Len(r) = Len(s)
      /\ \A j \in 1..Len(s) : r[j] = IF j = i THEN a ELSE s[j]
  BY <1>1, ExceptSeq
<1> HIDE DEF r
<1>3. Cells(r, null) = Cells(s, null) \ {i}
  BY <1>1, <1>2 DEF Cells
<1> QED
  BY <1>2, <1>3 DEF r

\* Freeing a cell that is in use adds it to the free ones.
LEMMA FreeCell ==
    ASSUME NEW S, NEW null \in S, NEW s \in Seq(S),
           NEW i \in 1..Len(s)
    PROVE  LET r == [s EXCEPT ![i] = null] IN
           /\ r \in Seq(S) /\ Len(r) = Len(s)
           /\ \A j \in 1..Len(s) : r[j] = IF j = i THEN null ELSE s[j]
           /\ Cells(r, null) = Cells(s, null) \cup {i}
<1> DEFINE r == [s EXCEPT ![i] = null]
<1>1. /\ r \in Seq(S) /\ Len(r) = Len(s)
      /\ \A j \in 1..Len(s) : r[j] = IF j = i THEN null ELSE s[j]
  BY ExceptSeq
<1> HIDE DEF r
<1>2. Cells(r, null) = Cells(s, null) \cup {i}
  BY <1>1 DEF Cells
<1> QED
  BY <1>1, <1>2 DEF r

\* ackq_add puts a connection that is not there into one cell, and nothing
\* else changes: the assertion "corrupted ack queue" of logind.c:464 cannot
\* fail, since a count that is right points to a free cell.
LEMMA AddKeeps ==
    ASSUME NEW A, NEW null, NEW q \in Queue(A, null), Consistent(q, null),
           NEW a \in A, a # null, a \notin Items(q, null)
    PROVE  /\ q.reuse > 0 => Cells(q.queue, null) # {}
           /\ ackq_add(q, a, null) \in Queue(A, null)
           /\ Consistent(ackq_add(q, a, null), null)
           /\ Items(ackq_add(q, a, null), null) = Items(q, null) \cup {a}
<1> DEFINE s == q.queue  i == First(s, null)
           f == [queue |-> [s EXCEPT ![i] = a], reuse |-> q.reuse - 1]
           n == [queue |-> Append(s, a), reuse |-> q.reuse]
<1>1. s \in Seq(A \cup {null}) /\ q.reuse \in Nat /\ Len(s) \in Nat
  BY LenProperties DEF Queue
<1>2. q.reuse = Cardinality(Cells(s, null)) /\ IsFiniteSet(Cells(s, null))
  BY <1>1, CellsFinite DEF Consistent
<1>3. \A j \in 1..Len(s) : s[j] # a
  BY DEF Items
<1>4. \A j, k \in 1..Len(s) : s[j] = s[k] /\ s[j] # null => j = k
  BY DEF Consistent
<1>5. q.reuse > 0 => Cells(s, null) # {}
  BY <1>2, FS_EmptySet
<1>6. CASE q.reuse > 0
  <2>1. i \in Cells(s, null)
    BY <1>1, <1>5, <1>6, FirstIsCell
  <2>2. i \in 1..Len(s) /\ s[i] = null
    BY <2>1 DEF Cells
  <2>3. /\ f.queue \in Seq(A \cup {null}) /\ Len(f.queue) = Len(s)
        /\ \A j \in 1..Len(s) : f.queue[j] = IF j = i THEN a ELSE s[j]
        /\ Cells(f.queue, null) = Cells(s, null) \ {i}
    BY <1>1, <2>1, FillCell
  <2>4. f.reuse = q.reuse - 1 /\ f.reuse \in Nat
    BY <1>1, <1>6
  <2>5. f.reuse = Cardinality(Cells(f.queue, null))
    BY <1>2, <2>1, <2>3, <2>4, FS_RemoveElement
  <2>6. f \in Queue(A, null)
    BY <2>3, <2>4 DEF Queue
  <2>7. ackq_add(q, a, null) = ackq_gc(f)
    BY <1>6 DEF ackq_add
  <2> HIDE DEF f, i, s
  <2>8. Consistent(f, null)
    BY <1>3, <1>4, <2>2, <2>3, <2>5 DEF Consistent
  <2>9. Items(f, null) = Items(q, null) \cup {a}
    BY <2>2, <2>3 DEF Items, s
  <2> QED
    BY <1>5, <2>6, <2>7, <2>8, <2>9, GcKeeps DEF s
<1>7. CASE ~ (q.reuse > 0)
  <2>1. /\ n.queue \in Seq(A \cup {null}) /\ Len(n.queue) = Len(s) + 1
        /\ \A j \in 1..Len(s) : n.queue[j] = s[j]
        /\ n.queue[Len(s) + 1] = a
    BY <1>1, AppendProperties
  <2>2. n.reuse = q.reuse
    OBVIOUS
  <2>3. ackq_add(q, a, null) = ackq_gc(n)
    BY <1>7 DEF ackq_add
  <2> HIDE DEF n, s
  <2>4. \A j \in 1..(Len(s) + 1) : j \in 1..Len(s) \/ j = Len(s) + 1
    BY <1>1
  <2>5. \A j \in 1..Len(s) : j \in 1..(Len(s) + 1)
    BY <1>1
  <2>6. Len(s) + 1 \in 1..(Len(s) + 1)
    BY <1>1
  <2>7. Cells(n.queue, null) = Cells(s, null)
    BY <2>1, <2>4, <2>5 DEF Cells
  <2>8. n \in Queue(A, null)
    BY <1>1, <2>1 DEF Queue, n
  <2>9. Consistent(n, null)
    <3>1. ASSUME NEW j \in 1..Len(n.queue), NEW k \in 1..Len(n.queue),
                 n.queue[j] = n.queue[k], n.queue[j] # null
          PROVE  j = k
      BY <1>3, <1>4, <2>1, <2>4, <3>1
    <3>2. n.reuse = Cardinality(Cells(n.queue, null))
      BY <1>2, <2>2, <2>7
    <3> QED
      BY <3>1, <3>2 DEF Consistent
  <2>10. Items(n, null) = Items(q, null) \cup {a}
    BY <2>1, <2>4, <2>5, <2>6 DEF Items, s
  <2> QED
    BY <1>7, <2>3, <2>8, <2>9, <2>10, GcKeeps
<1> QED
  BY <1>6, <1>7

\* ackq_del takes the connection out, if it is there, and nobody else.
LEMMA DelKeeps ==
    ASSUME NEW A, NEW null, NEW q \in Queue(A, null), Consistent(q, null),
           NEW a \in A, a # null
    PROVE  /\ ackq_del(q, a, null) \in Queue(A, null)
           /\ Consistent(ackq_del(q, a, null), null)
           /\ Items(ackq_del(q, a, null), null) = Items(q, null) \ {a}
<1> DEFINE s == q.queue  i == First(s, a)
           last == [queue |-> SubSeq(s, 1, Len(s) - 1), reuse |-> q.reuse]
           hole == [queue |-> [s EXCEPT ![i] = null], reuse |-> q.reuse + 1]
<1>1. s \in Seq(A \cup {null}) /\ q.reuse \in Nat /\ Len(s) \in Nat
  BY LenProperties DEF Queue
<1>2. q.reuse = Cardinality(Cells(s, null)) /\ IsFiniteSet(Cells(s, null))
  BY <1>1, CellsFinite DEF Consistent
<1>3. \A j, k \in 1..Len(s) : s[j] = s[k] /\ s[j] # null => j = k
  BY DEF Consistent
<1>4. CASE Cells(s, a) = {}
  <2>1. a \notin Items(q, null)
    BY <1>4 DEF Items, Cells
  <2> QED
    BY <1>4, <2>1 DEF ackq_del
<1>5. ASSUME Cells(s, a) # {} PROVE i \in 1..Len(s) /\ s[i] = a
  <2>1. i \in Cells(s, a)
    BY <1>1, <1>5, FirstIsCell
  <2> QED
    BY <2>1 DEF Cells
<1>6. CASE Cells(s, a) # {} /\ i = Len(s)
  <2>1. i \in 1..Len(s) /\ s[i] = a
    BY <1>5, <1>6
  <2>2. Len(s) - 1 \in Nat /\ 1 \in 1..(Len(s) + 1)
    BY <1>1, <2>1
  <2>3. Len(s) - 1 \in (1 - 1)..Len(s)
    BY <2>2
  <2>4. /\ last.queue \in Seq(A \cup {null})
        /\ Len(last.queue) = Len(s) - 1
        /\ \A j \in 1..(Len(s) - 1) : last.queue[j] = s[j]
    BY <1>1, <2>2, <2>3, SubSeqProperties
  <2>5. last.reuse = q.reuse
    OBVIOUS
  <2>6. ackq_del(q, a, null) = ackq_gc(last)
    BY <1>6 DEF ackq_del
  <2>7. last \in Queue(A, null)
    BY <1>1, <2>4 DEF Queue
  <2> HIDE DEF last, i, s
  <2>8. \A j \in 1..Len(s) : j \in 1..(Len(s) - 1) \/ j = i
    BY <1>1, <1>6
  <2>9. \A j \in 1..(Len(s) - 1) : j \in 1..Len(s) /\ j # i
    BY <1>1, <1>6
  <2>10. Cells(last.queue, null) = Cells(s, null)
    BY <2>1, <2>4, <2>8, <2>9 DEF Cells
  <2>11. Consistent(last, null)
    BY <1>2, <1>3, <2>4, <2>5, <2>9, <2>10 DEF Consistent
  <2>12. Items(last, null) = Items(q, null) \ {a}
    <3>1. ASSUME NEW j \in 1..(Len(s) - 1) PROVE last.queue[j] = s[j] /\ s[j] # a
      BY <1>3, <2>1, <2>4, <2>9
    <3>2. Items(last, null) = {s[j] : j \in 1..(Len(s) - 1)} \ {null}
      BY <2>4, <3>1 DEF Items
    <3>3. Items(q, null) = {s[j] : j \in 1..Len(s)} \ {null}
      BY DEF Items, s
    <3> QED
      BY <2>1, <2>8, <2>9, <3>1, <3>2, <3>3
  <2> QED
    BY <2>6, <2>7, <2>11, <2>12, GcKeeps
<1>7. CASE Cells(s, a) # {} /\ i # Len(s)
  <2>1. i \in 1..Len(s) /\ s[i] = a
    BY <1>5, <1>7
  <2>2. /\ hole.queue \in Seq(A \cup {null}) /\ Len(hole.queue) = Len(s)
        /\ \A j \in 1..Len(s) : hole.queue[j] = IF j = i THEN null ELSE s[j]
        /\ Cells(hole.queue, null) = Cells(s, null) \cup {i}
    <3> DEFINE r == [s EXCEPT ![i] = null]
    <3>1. hole.queue = r
      OBVIOUS
    <3> HIDE DEF i, s, hole
    <3>2. /\ r \in Seq(A \cup {null}) /\ Len(r) = Len(s)
          /\ \A j \in 1..Len(s) : r[j] = IF j = i THEN null ELSE s[j]
          /\ Cells(r, null) = Cells(s, null) \cup {i}
      BY SMTT(40), <1>1, <2>1, null \in A \cup {null}, FreeCell
    <3> QED
      BY <3>1, <3>2
  <2>3. hole.reuse = q.reuse + 1 /\ hole.reuse \in Nat
    BY <1>1
  <2>4. hole.reuse = Cardinality(Cells(hole.queue, null))
    <3>1. i \notin Cells(s, null)
      BY <2>1 DEF Cells
    <3> QED
      BY <1>2, <2>2, <2>3, <3>1, FS_AddElement
  <2>5. ackq_del(q, a, null) = ackq_gc(hole)
    BY <1>7 DEF ackq_del
  <2>6. hole \in Queue(A, null)
    BY <2>2, <2>3 DEF Queue
  <2> HIDE DEF hole, i, s
  <2>7. Consistent(hole, null)
    BY <1>3, <2>1, <2>2, <2>4 DEF Consistent
  <2>8. Items(hole, null) = Items(q, null) \ {a}
    BY <1>3, <2>1, <2>2 DEF Items, s
  <2> QED
    BY <2>5, <2>6, <2>7, <2>8, GcKeeps
<1> QED
  BY <1>4, <1>6, <1>7

-----------------------------------------------------------------------------
(* The invariant, one definition per part of the state.                    *)

\* A connection that is read has attempts left; the one that start_service
\* works for is neither waiting nor gone.
ConnInv ==
    /\ conn \in [Addrs -> Conn \cup {Freed}]
    /\ g_opened_fd = Cardinality(Live)
    /\ \A a \in Addrs : conn[a].state = "USERID" /\ ~ conn[a].timer
            => conn[a].retry < LOGINATTEMPTS
    /\ lpc \in {"send", "write"} => /\ cur \in Addrs
                                    /\ conn[cur] # Freed /\ conn[cur].state = "AUTH"

Waiting == {a \in Addrs : conn[a].state = "WAITACK"}

QueueInv ==
    /\ ackq \in Queue(Addrs, Null)
    /\ Consistent(ackq, Null)
    /\ Items(ackq, Null) = Waiting

WaitersHanded == \A a \in Waiting : conn[a].who \in handed

LoopInv ==
    /\ g_overload \in BOOLEAN
    /\ g_retry_times \in 0..LOGIND_MAX_RETRY_SERVICE
    /\ g_tunnel \in Tunnels \cup {Null} /\ ev_ack \in Tunnels \cup {Null}
    /\ lpc \in {"loop", "send", "write", "stuck"} /\ cur \in Addrs \cup {Null}
    /\ lpc \in {"send", "write"} => g_tunnel \in Tunnels
    /\ lend \in [Tunnels -> {"none", "backlog", "open", "closed"}]
    /\ starting \in Nat
    /\ handed \subseteq Clients

\* Login data in a tunnel, and what mbbsd is about to acknowledge, carry the
\* address of a connection; mbbsd has a socket while it works on a login.
Good == {m \in Msg : m.kind = "data" => m.ack \in Addrs}
TunnelInv ==
    /\ data \in [Tunnels -> Seq(Good)] /\ acks \in [Tunnels -> Seq(Addrs)]
    /\ mb \in [Tunnels -> {"off", "recv", "read", "ack", "fork", "exited", "died"}]
    /\ csock \in [Tunnels -> Clients \cup {Null}]
    /\ dat \in [Tunnels -> Addrs \cup {Null}]
    /\ \A t \in Tunnels : mb[t] \in {"read", "ack", "fork"} => csock[t] \in Clients
    /\ \A t \in Tunnels : mb[t] = "ack" => dat[t] \in Addrs
    /\ dropped \subseteq Clients
    /\ served \in [Clients -> Nat]

IInv == ConnInv /\ QueueInv /\ WaitersHanded /\ LoopInv /\ TunnelInv

LEMMA FreedIsNoConn == Freed \notin Conn /\ Freed.state = "" /\ Freed.timer = FALSE
  BY TunnelAssumption DEF Freed, Conn

LEMMA InvImplies == IInv => TypeOK /\ QueueMatches
<1> SUFFICES ASSUME IInv PROVE TypeOK /\ QueueMatches
  OBVIOUS
<1>1. Seq(Good) \subseteq Seq(Msg)
  BY SeqMonotonic DEF Good
<1>2. data \in [Tunnels -> Seq(Msg)]
  BY <1>1 DEF IInv, TunnelInv
<1>3. ackq.queue \in Seq(Addrs \cup {Null}) /\ ackq.reuse \in Nat
  BY DEF IInv, QueueInv, Queue
<1>4. TypeOK
  BY <1>2, <1>3 DEF IInv, ConnInv, LoopInv, TunnelInv, TypeOK
<1>5. Waiting = {a \in Live : conn[a].state = "WAITACK"}
  BY FreedIsNoConn DEF Waiting, Live
<1>6. QueueMatches
  BY <1>5 DEF IInv, QueueInv, QueueMatches
<1> QED
  BY <1>4, <1>6

LEMMA InitInv == Init => IInv
<1> SUFFICES ASSUME Init PROVE IInv
  OBVIOUS
<1>1. conn = [a \in Addrs |-> Freed]
  BY DEF Init
<1>2. Live = {} /\ Waiting = {}
  BY <1>1, FreedIsNoConn DEF Live, Waiting
<1>3. ConnInv
  BY <1>1, <1>2, FreedIsNoConn, FS_EmptySet DEF Init, ConnInv
<1>4. QueueInv
  <2>1. EmptyQueue.queue = <<>> /\ EmptyQueue.reuse = 0 /\ Len(<<>>) = 0
    BY DEF EmptyQueue
  <2>2. EmptyQueue \in Queue(Addrs, Null)
    BY EmptySeq DEF EmptyQueue, Queue
  <2>3. Cells(<<>>, Null) = {} /\ Items(EmptyQueue, Null) = {}
    BY <2>1 DEF Cells, Items
  <2>4. 1..Len(EmptyQueue.queue) = {}
    BY <2>1
  <2>5. EmptyQueue.reuse = Cardinality(Cells(EmptyQueue.queue, Null))
    BY <2>1, <2>3, FS_EmptySet
  <2>6. Consistent(EmptyQueue, Null)
    BY <2>4, <2>5 DEF Consistent
  <2> QED
    BY <1>2, <2>2, <2>3, <2>6 DEF Init, QueueInv
<1>5. WaitersHanded
  BY <1>2 DEF WaitersHanded
<1>6. LoopInv
  <2>1. 0 \in 0..LOGIND_MAX_RETRY_SERVICE
    BY TunnelAssumption
  <2>2. lend \in [Tunnels -> {"none", "backlog", "open", "closed"}]
    BY DEF Init
  <2>3. starting \in Nat
    BY TunnelAssumption DEF Init
  <2> QED
    BY <2>1, <2>2, <2>3 DEF Init, LoopInv
<1>7. TunnelInv
  BY EmptySeq DEF Init, TunnelInv
<1> QED
  BY <1>3, <1>4, <1>5, <1>6, <1>7 DEF IInv

-----------------------------------------------------------------------------
(* What the actions do to one connection.                                  *)

\* A connection is put at an address, or changed there.
LEMMA SetConn ==
    ASSUME ConnInv, NEW a \in Addrs, NEW v \in Conn,
           conn' = [conn EXCEPT ![a] = v]
    PROVE  /\ conn' \in [Addrs -> Conn \cup {Freed}]
           /\ conn'[a] = v /\ \A b \in Addrs \ {a} : conn'[b] = conn[b]
           /\ Live' = Live \cup {a}
           /\ a \in Live => Cardinality(Live') = g_opened_fd
           /\ a \notin Live => Cardinality(Live') = g_opened_fd + 1
           /\ Waiting' = IF v.state = "WAITACK" THEN Waiting \cup {a}
                         ELSE Waiting \ {a}
<1>1. conn \in [Addrs -> Conn \cup {Freed}] /\ g_opened_fd = Cardinality(Live)
  BY DEF ConnInv
<1>2. /\ conn' \in [Addrs -> Conn \cup {Freed}]
      /\ conn'[a] = v /\ \A b \in Addrs \ {a} : conn'[b] = conn[b]
  BY <1>1
<1>3. Live' = Live \cup {a}
  BY <1>2, FreedIsNoConn DEF Live
<1>4. IsFiniteSet(Live)
  BY TunnelAssumption, FS_Subset DEF Live
<1>5. a \in Live => Live' = Live
  BY <1>3
<1>6. a \notin Live => Cardinality(Live') = Cardinality(Live) + 1
  BY <1>3, <1>4, FS_AddElement
<1>7. Waiting' = IF v.state = "WAITACK" THEN Waiting \cup {a} ELSE Waiting \ {a}
  BY <1>2 DEF Waiting
<1> QED
  BY <1>1, <1>2, <1>3, <1>5, <1>6, <1>7

\* A connection is freed.
LEMMA EndConnKeeps ==
    ASSUME ConnInv, NEW a \in Live, EndConn(a)
    PROVE  /\ conn' \in [Addrs -> Conn \cup {Freed}]
           /\ conn'[a] = Freed /\ \A b \in Addrs \ {a} : conn'[b] = conn[b]
           /\ g_opened_fd' = Cardinality(Live')
           /\ Waiting' = Waiting \ {a}
<1>1. conn \in [Addrs -> Conn \cup {Freed}] /\ g_opened_fd = Cardinality(Live)
  BY DEF ConnInv
<1>2. a \in Addrs /\ conn[a] # Freed
  BY DEF Live
<1>3. /\ conn' \in [Addrs -> Conn \cup {Freed}]
      /\ conn'[a] = Freed /\ \A b \in Addrs \ {a} : conn'[b] = conn[b]
  BY <1>1, <1>2 DEF EndConn
<1>4. Live' = Live \ {a}
  BY <1>3 DEF Live
<1>5. IsFiniteSet(Live)
  BY TunnelAssumption, FS_Subset DEF Live
<1>6. Cardinality(Live') = Cardinality(Live) - 1
  BY <1>4, <1>5, FS_RemoveElement
<1>7. Waiting' = Waiting \ {a}
  BY <1>3, FreedIsNoConn DEF Waiting
<1> QED
  BY <1>1, <1>3, <1>6, <1>7 DEF EndConn

\* Unqueued and ack_cb take the connection that ends out of the queue.
LEMMA DelQueueInv ==
    ASSUME QueueInv, NEW a \in Addrs, ackq' = ackq_del(ackq, a, Null),
           Waiting' = Waiting \ {a}
    PROVE  QueueInv'
<1>1. a # Null
  BY TunnelAssumption
<1> QED
  BY <1>1, DelKeeps DEF QueueInv

LEMMA SameQueueInv ==
    ASSUME QueueInv, ackq' = ackq, Waiting' = Waiting
    PROVE  QueueInv'
  BY DEF QueueInv

LEMMA QueuedIsWaiting ==
    ASSUME QueueInv, NEW a \in Addrs
    PROVE  IsQueued(a) <=> a \in Waiting
<1>1. a # Null
  BY TunnelAssumption
<1>2. IsQueued(a) <=> a \in Items(ackq, Null)
  BY <1>1 DEF IsQueued, Cells, Items
<1> QED
  BY <1>2 DEF QueueInv

\* No tunnel and no mbbsd is touched.
LEMMA SameTunnelInv ==
    ASSUME TunnelInv, UNCHANGED <<data, acks, mb, csock, dat, dropped, served>>
    PROVE  TunnelInv'
  BY DEF TunnelInv

-----------------------------------------------------------------------------
(* One lemma per action of logind.                                         *)

LEMMA AcceptKeeps == ASSUME IInv, NEW c \in Clients, Accept(c) PROVE IInv'
<1>1. PICK a \in Addrs \ Live, turned \in BOOLEAN :
        /\ g_overload' \in {g_overload, FALSE}
                             \cup (IF "overload" \in Ops THEN {TRUE} ELSE {})
        /\ conn' = [conn EXCEPT ![a] = [who |-> c, state |-> "USERID",
                        retry |-> 0, timer |-> g_overload' \/ turned,
                        idle |-> FALSE]]
  BY DEF Accept
<1>2. g_overload' \in BOOLEAN
  BY <1>1 DEF IInv, LoopInv
<1> DEFINE v == [who |-> c, state |-> "USERID", retry |-> 0,
                 timer |-> g_overload' \/ turned, idle |-> FALSE]
<1>3. v \in Conn
  <2>1. 0 \in 0..LOGINATTEMPTS
    BY TunnelAssumption
  <2>2. (g_overload' \/ turned) \in BOOLEAN
    BY <1>2
  <2> QED
    BY <2>1, <2>2 DEF Conn
<1>4. conn' = [conn EXCEPT ![a] = v] /\ a \notin Live /\ a \in Addrs
  BY <1>1
<1>5. v.state = "USERID" /\ v.retry = 0
  OBVIOUS
<1> HIDE DEF v
<1>6. /\ conn' \in [Addrs -> Conn \cup {Freed}]
      /\ conn'[a] = v /\ \A b \in Addrs \ {a} : conn'[b] = conn[b]
      /\ Cardinality(Live') = g_opened_fd + 1
      /\ Waiting' = Waiting \ {a}
  BY <1>3, <1>4, <1>5, SetConn DEF IInv
<1>7. conn[a] = Freed /\ a \notin Waiting
  BY <1>4, FreedIsNoConn DEF Live, Waiting
<1>8. Waiting' = Waiting
  BY <1>6, <1>7
<1>9. ConnInv'
  <2>1. 0 < LOGINATTEMPTS
    BY TunnelAssumption
  <2> QED
    BY <1>5, <1>6, <2>1 DEF Accept, IInv, ConnInv
<1>10. QueueInv'
  BY <1>8, SameQueueInv DEF IInv, Accept
<1>11. WaitersHanded'
  BY <1>6, <1>7, <1>8 DEF IInv, Accept, WaitersHanded, Waiting, history
<1>12. LoopInv'
  BY <1>2 DEF IInv, Accept, LoopInv, mbbsd, history
<1>13. TunnelInv'
  BY SameTunnelInv DEF IInv, Accept, mbbsd, history
<1> QED
  BY <1>9, <1>10, <1>11, <1>12, <1>13 DEF IInv

\* ClientEnds, TimerEnds: Unqueued takes out what is queued, and only that.
LEMMA EndsKeeps ==
    ASSUME IInv, NEW a \in Live, lpc = "loop", EndConn(a), ackq' = Unqueued(a),
           UNCHANGED <<g_overload, g_retry_times, g_tunnel, ev_ack, lpc, cur,
                       data, acks, lend, mbbsd, history>>
    PROVE  IInv'
<1>1. a \in Addrs
  BY DEF Live
<1>2. /\ conn' \in [Addrs -> Conn \cup {Freed}]
      /\ conn'[a] = Freed /\ \A b \in Addrs \ {a} : conn'[b] = conn[b]
      /\ g_opened_fd' = Cardinality(Live')
      /\ Waiting' = Waiting \ {a}
  BY EndConnKeeps DEF IInv
<1>3. ConnInv'
  BY <1>2, FreedIsNoConn DEF IInv, ConnInv
<1>4. QueueInv'
  <2>1. CASE conn[a].state = "WAITACK"
    BY <1>1, <1>2, <2>1, DelQueueInv DEF IInv, Unqueued
  <2>2. CASE conn[a].state # "WAITACK"
    <3>1. Waiting' = Waiting
      BY <1>2, <2>2 DEF Waiting
    <3> QED
      BY <2>2, <3>1, SameQueueInv DEF IInv, Unqueued
  <2> QED
    BY <2>1, <2>2
<1>5. WaitersHanded'
  BY <1>2 DEF IInv, WaitersHanded, Waiting, history
<1>6. LoopInv'
  BY DEF IInv, LoopInv, mbbsd, history
<1>7. TunnelInv'
  BY SameTunnelInv DEF IInv, mbbsd, history
<1> QED
  BY <1>3, <1>4, <1>5, <1>6, <1>7 DEF IInv

LEMMA ClientEndsKeeps ==
    ASSUME IInv, NEW a \in Addrs, Disconnect(a) \/ IdleTimeout(a) PROVE IInv'
  BY EndsKeeps DEF Disconnect, IdleTimeout, Read, ClientEnds

\* Of a connection that is read, time and keys change nothing but its timeout.
LEMMA SetIdleKeeps ==
    ASSUME IInv, NEW a \in Addrs, NEW idle \in BOOLEAN, SetIdle(a, idle) PROVE IInv'
<1>1. a \in Live /\ lpc = "loop"
  BY DEF SetIdle, Read
<1>2. conn \in [Addrs -> Conn \cup {Freed}] /\ conn[a] \in Conn
  BY <1>1 DEF IInv, ConnInv, Live
<1> DEFINE v == [conn[a] EXCEPT !.idle = idle]
<1>3. /\ v \in Conn /\ v.state = conn[a].state /\ v.timer = conn[a].timer
      /\ v.retry = conn[a].retry /\ v.who = conn[a].who
  BY <1>2 DEF Conn
<1>4. conn' = [conn EXCEPT ![a] = v]
  BY <1>2 DEF SetIdle
<1> HIDE DEF v
<1>5. /\ conn' \in [Addrs -> Conn \cup {Freed}]
      /\ conn'[a] = v /\ \A b \in Addrs \ {a} : conn'[b] = conn[b]
  BY <1>2, <1>3, <1>4
<1>6. v # Freed
  BY <1>3, FreedIsNoConn
<1>7. Live' = Live
  BY <1>1, <1>5, <1>6 DEF Live
<1>8. Waiting' = Waiting
  BY <1>3, <1>5 DEF Waiting
<1>9. UNCHANGED <<g_opened_fd, ackq, handed, lpc>>
  BY DEF SetIdle, history
<1>10. ConnInv'
  BY <1>1, <1>3, <1>5, <1>7, <1>9 DEF IInv, ConnInv
<1>11. QueueInv'
  BY <1>8, <1>9, SameQueueInv DEF IInv
<1>12. WaitersHanded'
  BY <1>3, <1>5, <1>8, <1>9 DEF IInv, WaitersHanded, Waiting
<1>13. LoopInv'
  BY DEF IInv, LoopInv, SetIdle, mbbsd, history
<1>14. TunnelInv'
  BY SameTunnelInv DEF IInv, SetIdle, mbbsd, history
<1> QED
  BY <1>10, <1>11, <1>12, <1>13, <1>14 DEF IInv

LEMMA TimerEndsKeeps ==
    ASSUME IInv, NEW a \in Addrs, TimerEnds(a) PROVE IInv'
  BY EndsKeeps DEF TimerEnds

\* A connection that is live changes and does not wait for an ack after.
LEMMA ChangeKeeps ==
    ASSUME IInv, NEW a \in Live, NEW v \in Conn,
           conn' = [conn EXCEPT ![a] = v],
           a \notin Waiting, v.state # "WAITACK",
           v.state = "USERID" /\ ~ v.timer => v.retry < LOGINATTEMPTS,
           lpc' \in {"send", "write"} => cur' = a /\ v.state = "AUTH",
           UNCHANGED <<ackq, g_opened_fd, handed>>
    PROVE  ConnInv' /\ QueueInv' /\ WaitersHanded'
<1>1. a \in Addrs
  BY DEF Live
<1>2. /\ conn' \in [Addrs -> Conn \cup {Freed}]
      /\ conn'[a] = v /\ \A b \in Addrs \ {a} : conn'[b] = conn[b]
      /\ Cardinality(Live') = g_opened_fd
      /\ Waiting' = Waiting \ {a}
  BY <1>1, SetConn DEF IInv
<1>3. Waiting' = Waiting
  BY <1>2
<1>4. ConnInv'
  <2>1. v # Freed
    BY FreedIsNoConn
  <2> QED
    BY <1>1, <1>2, <2>1 DEF IInv, ConnInv
<1>5. QueueInv'
  BY <1>3, SameQueueInv DEF IInv
<1>6. WaitersHanded'
  BY <1>2, <1>3 DEF IInv, WaitersHanded, Waiting
<1> QED
  BY <1>4, <1>5, <1>6

LEMMA AuthFailKeeps ==
    ASSUME IInv, NEW a \in Addrs, AuthFail(a) PROVE IInv'
<1> DEFINE n == conn[a].retry + 1
           v == [conn[a] EXCEPT !.retry = n, !.timer = n >= LOGINATTEMPTS,
                                !.idle = FALSE]
<1>1. a \in Live /\ conn[a] \in Conn /\ conn[a].state = "USERID" /\ a \notin Waiting
  BY DEF AuthFail, Read, Live, Waiting, IInv, ConnInv
<1>2. n \in 0..LOGINATTEMPTS
  <2>1. conn[a].retry \in 0..LOGINATTEMPTS /\ conn[a].retry < LOGINATTEMPTS
    BY <1>1 DEF AuthFail, Read, IInv, ConnInv, Conn
  <2> QED
    BY <2>1, TunnelAssumption
<1>3. v \in Conn /\ v.state = "USERID" /\ v.retry = n /\ v.timer = (n >= LOGINATTEMPTS)
  <2>1. (n >= LOGINATTEMPTS) \in BOOLEAN
    OBVIOUS
  <2> HIDE DEF n
  <2> QED
    BY <1>1, <1>2, <2>1 DEF Conn
<1>4. conn' = [conn EXCEPT ![a] = v]
  BY <1>1 DEF AuthFail, IInv, ConnInv
<1>5. lpc' = "loop"
  BY DEF AuthFail, Read
<1> HIDE DEF v, n
<1>6. ~ v.timer => v.retry < LOGINATTEMPTS
  <2>1. ~ (n >= LOGINATTEMPTS) => n < LOGINATTEMPTS
    BY <1>2, TunnelAssumption
  <2> QED
    BY <1>3, <2>1
<1>7. ConnInv' /\ QueueInv' /\ WaitersHanded'
  BY <1>1, <1>3, <1>4, <1>5, <1>6, ChangeKeeps DEF AuthFail, history
<1>8. LoopInv'
  BY DEF IInv, LoopInv, AuthFail, mbbsd, history
<1>9. TunnelInv'
  BY SameTunnelInv DEF IInv, AuthFail, mbbsd, history
<1> QED
  BY <1>7, <1>8, <1>9 DEF IInv

\* login_conn_remove leaves a connection that only waits for its timer.
LEMMA SleepIsConn ==
    ASSUME ConnInv, NEW a \in Live, NEW s \in {"USERID", "AUTH", "WAITACK"}
    PROVE  LET v == [conn[a] EXCEPT !.state = s, !.timer = TRUE, !.idle = FALSE] IN
           /\ v \in Conn /\ v.state = s /\ v.timer = TRUE /\ v.who = conn[a].who
           /\ Sleep(a, s) = [conn EXCEPT ![a] = v]
<1>1. conn[a] \in Conn /\ conn \in [Addrs -> Conn \cup {Freed}]
  BY DEF ConnInv, Live
<1>2. Sleep(a, s) = [conn EXCEPT ![a] =
                        [conn[a] EXCEPT !.state = s, !.timer = TRUE, !.idle = FALSE]]
  BY <1>1 DEF Sleep, Live
<1> QED
  BY <1>1, <1>2 DEF Conn

LEMMA AuthStartKeeps ==
    ASSUME IInv, NEW a \in Addrs, AuthStart(a) PROVE IInv'
<1>1. a \in Live /\ conn[a] \in Conn /\ conn[a].state = "USERID" /\ a \notin Waiting
  BY DEF AuthStart, Read, Live, Waiting, IInv, ConnInv
<1>2. UNCHANGED <<ackq, g_opened_fd, handed>> /\ lpc = "loop"
  BY DEF AuthStart, Read, history
<1>3. ConnInv' /\ QueueInv' /\ WaitersHanded'
  <2>1. CASE conn' = Sleep(a, "AUTH") /\ UNCHANGED <<lpc, cur>>
    <3> DEFINE v == [conn[a] EXCEPT !.state = "AUTH", !.timer = TRUE, !.idle = FALSE]
    <3>1. v \in Conn /\ v.state = "AUTH" /\ conn' = [conn EXCEPT ![a] = v]
      BY <1>1, <2>1, SleepIsConn DEF IInv
    <3> HIDE DEF v
    <3> QED
      BY SMTT(40), <1>1, <1>2, <2>1, <3>1, ChangeKeeps
  <2>2. CASE /\ conn' = [conn EXCEPT ![a].state = "AUTH", ![a].idle = FALSE]
             /\ lpc' = "send" /\ cur' = a
    <3> DEFINE v == [conn[a] EXCEPT !.state = "AUTH", !.idle = FALSE]
    <3>1. v \in Conn /\ v.state = "AUTH"
      BY <1>1 DEF Conn
    <3>2. conn' = [conn EXCEPT ![a] = v]
      BY <2>2 DEF IInv, ConnInv
    <3> HIDE DEF v
    <3> QED
      BY <1>1, <1>2, <2>2, <3>1, <3>2, ChangeKeeps
  <2> QED
    BY <2>1, <2>2 DEF AuthStart
<1>4. LoopInv'
  BY DEF IInv, LoopInv, AuthStart, mbbsd, history
<1>5. TunnelInv'
  BY SameTunnelInv DEF IInv, AuthStart, mbbsd, history
<1> QED
  BY <1>3, <1>4, <1>5 DEF IInv

LEMMA StartFailsKeeps ==
    ASSUME IInv, lpc \in {"send", "write"}, StartFails PROVE IInv'
<1>1. cur \in Live /\ cur \notin Waiting
  BY DEF IInv, ConnInv, Live, Waiting
<1> DEFINE v == [conn[cur] EXCEPT !.state = "AUTH", !.timer = TRUE, !.idle = FALSE]
<1>2. v \in Conn /\ v.state = "AUTH" /\ conn' = [conn EXCEPT ![cur] = v]
  BY <1>1, SleepIsConn DEF IInv, StartFails
<1> HIDE DEF v
<1>3. lpc' = "loop" /\ UNCHANGED <<ackq, g_opened_fd, handed>>
  BY DEF StartFails, history
<1>4. ConnInv' /\ QueueInv' /\ WaitersHanded'
  BY <1>1, <1>2, <1>3, ChangeKeeps
<1>5. g_retry_times' \in 0..LOGIND_MAX_RETRY_SERVICE /\ starting' \in Nat
  BY TunnelAssumption DEF IInv, LoopInv, StartFails, RetryService
<1>6. LoopInv'
  BY <1>3, <1>5 DEF IInv, LoopInv, StartFails, RetryService, TunnelGivenUp, history
<1>7. TunnelInv'
  BY SameTunnelInv DEF IInv, StartFails, history
<1> QED
  BY <1>4, <1>6, <1>7 DEF IInv

\* Only data of the tunnel in use changes, by one message that is good.
LEMMA SendKeepsTunnel ==
    ASSUME TunnelInv, NEW t \in Tunnels, NEW m \in Good,
           data' = [data EXCEPT ![t] = Append(@, m)],
           UNCHANGED <<acks, mb, csock, dat, dropped, served>>
    PROVE  TunnelInv'
<1>1. data \in [Tunnels -> Seq(Good)]
  BY DEF TunnelInv
<1>2. Append(data[t], m) \in Seq(Good)
  BY <1>1, AppendProperties
<1>3. data' \in [Tunnels -> Seq(Good)]
  BY <1>1, <1>2
<1> QED
  BY <1>3 DEF TunnelInv

LEMMA SendFdKeeps == ASSUME IInv, SendFd PROVE IInv'
<1>1. cur \in Live /\ conn[cur] \in Conn /\ g_tunnel \in Tunnels
  BY DEF IInv, ConnInv, LoopInv, Live, SendFd
<1>2. Fd(conn[cur].who) \in Good
  BY <1>1 DEF Fd, Good, Msg, Conn
<1>3. TunnelInv'
  BY <1>1, <1>2, SendKeepsTunnel DEF IInv, SendFd, mbbsd, history
<1>4. ConnInv'
  BY DEF IInv, ConnInv, SendFd, Live
<1>5. Waiting' = Waiting
  BY DEF Waiting, SendFd
<1>6. QueueInv' /\ WaitersHanded'
  BY <1>5, SameQueueInv DEF IInv, WaitersHanded, SendFd, history
<1>7. LoopInv'
  BY DEF IInv, LoopInv, SendFd, mbbsd, history
<1> QED
  BY <1>3, <1>4, <1>6, <1>7 DEF IInv

\* The connection starts to wait for its ack in the step that queues it and
\* that hands its login over.
LEMMA WriteDataKeeps == ASSUME IInv, WriteData PROVE IInv'
<1>1. /\ cur \in Live /\ cur \in Addrs /\ conn[cur] \in Conn
      /\ g_tunnel \in Tunnels /\ cur \notin Waiting
  BY DEF IInv, ConnInv, LoopInv, Live, Waiting, WriteData
<1>2. LoginData(conn[cur].who, cur) \in Good
  BY <1>1 DEF LoginData, Good, Msg, Conn
<1>3. TunnelInv'
  BY <1>1, <1>2, SendKeepsTunnel DEF IInv, WriteData, mbbsd
<1> DEFINE v == [conn[cur] EXCEPT !.state = "WAITACK", !.timer = TRUE, !.idle = FALSE]
<1>4. /\ v \in Conn /\ v.state = "WAITACK" /\ v.who = conn[cur].who
      /\ conn' = [conn EXCEPT ![cur] = v]
  BY <1>1, SleepIsConn DEF IInv, WriteData
<1> HIDE DEF v
<1>5. /\ conn' \in [Addrs -> Conn \cup {Freed}]
      /\ conn'[cur] = v /\ \A b \in Addrs \ {cur} : conn'[b] = conn[b]
      /\ Cardinality(Live') = g_opened_fd
      /\ Waiting' = Waiting \cup {cur}
  BY <1>1, <1>4, SetConn DEF IInv
<1>6. ConnInv'
  BY <1>4, <1>5 DEF IInv, ConnInv, WriteData
<1>7. QueueInv'
  <2>1. /\ ackq \in Queue(Addrs, Null) /\ Consistent(ackq, Null)
        /\ cur \notin Items(ackq, Null) /\ cur # Null
    BY <1>1, TunnelAssumption DEF IInv, QueueInv
  <2> QED
    BY <1>1, <1>5, <2>1, AddKeeps DEF IInv, QueueInv, WriteData
<1>8. WaitersHanded'
  BY <1>4, <1>5 DEF IInv, WaitersHanded, Waiting, WriteData
<1>9. LoopInv'
  BY <1>1 DEF IInv, LoopInv, WriteData, mbbsd, Conn
<1> QED
  BY <1>3, <1>6, <1>7, <1>8, <1>9 DEF IInv

\* An ack takes out of the queue the connection it ends, if any.
LEMMA AckCbKeeps == ASSUME IInv, NEW t \in Tunnels, AckCb(t) PROVE IInv'
<1> DEFINE a == Head(acks[t])
<1>1. /\ acks \in [Tunnels -> Seq(Addrs)]
      /\ acks[t] \in Seq(Addrs) /\ acks[t] # <<>>
  BY DEF IInv, TunnelInv, AckCb
<1>2. a \in Addrs /\ Tail(acks[t]) \in Seq(Addrs)
  BY <1>1, HeadTailProperties
<1>3. acks' \in [Tunnels -> Seq(Addrs)]
  BY <1>1, <1>2 DEF AckCb
<1>4. ackq' = ackq_del(ackq, a, Null) /\ lpc' = lpc /\ lpc = "loop"
  BY DEF AckCb
<1>5. IF IsQueued(a) THEN EndConn(a) ELSE UNCHANGED <<conn, g_opened_fd>>
  BY DEF AckCb
<1> HIDE DEF a
<1>6. IsQueued(a) <=> a \in Waiting
  BY <1>2, QueuedIsWaiting DEF IInv
<1>7. /\ conn' \in [Addrs -> Conn \cup {Freed}]
      /\ g_opened_fd' = Cardinality(Live')
      /\ Waiting' = Waiting \ {a}
      /\ \A b \in Addrs : conn'[b] = Freed \/ conn'[b] = conn[b]
  <2>1. CASE a \in Waiting
    <3>1. a \in Live /\ EndConn(a)
      BY <1>5, <1>6, <2>1, FreedIsNoConn DEF Waiting, Live
    <3> QED
      BY <3>1, EndConnKeeps DEF IInv
  <2>2. CASE a \notin Waiting
    <3>1. conn' = conn /\ g_opened_fd' = g_opened_fd
      BY <1>5, <1>6, <2>2
    <3> QED
      BY <2>2, <3>1 DEF IInv, ConnInv, Live, Waiting
  <2> QED
    BY <2>1, <2>2
<1>8. ConnInv'
  BY <1>4, <1>7, FreedIsNoConn DEF IInv, ConnInv
<1>9. QueueInv'
  BY <1>2, <1>4, <1>7, DelQueueInv DEF IInv
<1>10. WaitersHanded'
  BY <1>7, FreedIsNoConn DEF IInv, WaitersHanded, Waiting, AckCb, history
<1>11. LoopInv'
  BY DEF IInv, LoopInv, AckCb, mbbsd, history
<1>12. TunnelInv'
  BY <1>3 DEF IInv, TunnelInv, AckCb, mbbsd, history
<1> QED
  BY <1>8, <1>9, <1>10, <1>11, <1>12 DEF IInv

\* The rest of the state is that of the connections and the queue.
LEMMA SameConnections ==
    ASSUME IInv, UNCHANGED <<conn, ackq, g_opened_fd, cur, handed>>,
           lpc' \in {"send", "write"} => lpc' = lpc
    PROVE  ConnInv' /\ QueueInv' /\ WaitersHanded'
<1>1. Live' = Live /\ Waiting' = Waiting
  BY DEF Live, Waiting
<1>2. QueueInv'
  BY <1>1, SameQueueInv DEF IInv
<1>3. ConnInv' /\ WaitersHanded'
  BY <1>1 DEF IInv, ConnInv, WaitersHanded
<1> QED
  BY <1>2, <1>3

LEMMA TunnelEofKeeps == ASSUME IInv, NEW t \in Tunnels, TunnelEof(t) PROVE IInv'
<1>1. ConnInv' /\ QueueInv' /\ WaitersHanded'
  BY SameConnections DEF TunnelEof, history
<1>2. LoopInv'
  BY DEF IInv, LoopInv, TunnelEof, mbbsd, history
<1>3. TunnelInv'
  BY SameTunnelInv DEF IInv, TunnelEof, mbbsd, history
<1> QED
  BY <1>1, <1>2, <1>3 DEF IInv

LEMMA TunnelCbKeeps == ASSUME IInv, NEW t \in Tunnels, TunnelCb(t) PROVE IInv'
<1>1. lpc' \in {"loop", "stuck"}
  BY DEF TunnelCb
<1>2. ConnInv' /\ QueueInv' /\ WaitersHanded'
  BY <1>1, SameConnections DEF TunnelCb, history
<1>3. lend' \in [Tunnels -> {"none", "backlog", "open", "closed"}]
  BY DEF IInv, LoopInv, TunnelCb
<1>4. LoopInv'
  BY <1>1, <1>3 DEF IInv, LoopInv, TunnelCb, mbbsd, history
<1>5. acks' \in [Tunnels -> Seq(Addrs)]
  BY EmptySeq DEF IInv, TunnelInv, TunnelCb
<1>6. TunnelInv'
  BY <1>5 DEF IInv, TunnelInv, TunnelCb, mbbsd, history
<1> QED
  BY <1>2, <1>4, <1>6 DEF IInv

-----------------------------------------------------------------------------
(* One lemma per action of mbbsd.                                          *)

\* A step of mbbsd leaves logind alone, but may connect a tunnel.
LEMMA MbbsdKeeps ==
    ASSUME IInv, UNCHANGED <<logind, handed>>, TunnelInv',
           lend' \in [Tunnels -> {"none", "backlog", "open", "closed"}],
           starting' \in Nat
    PROVE  IInv'
<1>1. ConnInv' /\ QueueInv' /\ WaitersHanded'
  BY SameConnections DEF logind
<1>2. LoopInv'
  BY DEF IInv, LoopInv, logind
<1> QED
  BY <1>1, <1>2 DEF IInv

LEMMA MbStartKeeps == ASSUME IInv, NEW t \in Tunnels, MbStart(t) PROVE IInv'
<1>1. starting' \in Nat
  BY DEF IInv, LoopInv, MbStart
<1>2. lend' \in [Tunnels -> {"none", "backlog", "open", "closed"}]
  BY DEF IInv, LoopInv, MbStart
<1>3. TunnelInv'
  BY DEF IInv, TunnelInv, MbStart, history
<1> QED
  BY <1>1, <1>2, <1>3, MbbsdKeeps DEF MbStart, history

LEMMA GoneKeeps ==
    ASSUME IInv, NEW t \in Tunnels, NEW how \in {"exited", "died"},
           Gone(t, how), UNCHANGED <<logind, acks, lend, starting, history>>
    PROVE  IInv'
<1>1. data' \in [Tunnels -> Seq(Good)]
  BY EmptySeq DEF IInv, TunnelInv, Gone
<1>2. TunnelInv'
  BY <1>1 DEF IInv, TunnelInv, Gone, history
<1>3. lend' \in [Tunnels -> {"none", "backlog", "open", "closed"}] /\ starting' \in Nat
  BY DEF IInv, LoopInv
<1> QED
  BY <1>2, <1>3, MbbsdKeeps DEF history

\* What mbbsd reads from its tunnel is good.
LEMMA HeadIsGood ==
    ASSUME TunnelInv, NEW t \in Tunnels, data[t] # <<>>
    PROVE  /\ Head(data[t]) \in Good
           /\ [data EXCEPT ![t] = Tail(@)] \in [Tunnels -> Seq(Good)]
<1>1. data \in [Tunnels -> Seq(Good)]
  BY DEF TunnelInv
<1>2. Head(data[t]) \in Good /\ Tail(data[t]) \in Seq(Good)
  BY <1>1, HeadTailProperties
<1> QED
  BY <1>1, <1>2

LEMMA MbRecvKeeps == ASSUME IInv, NEW t \in Tunnels, MbRecv(t) PROVE IInv'
<1>1. Head(data[t]) \in Good /\ data' \in [Tunnels -> Seq(Good)]
  BY HeadIsGood DEF IInv, MbRecv
<1>2. Head(data[t]).who \in Clients
  BY <1>1 DEF Good, Msg
<1>3. TunnelInv'
  BY <1>1, <1>2 DEF IInv, TunnelInv, MbRecv, history
<1>4. lend' \in [Tunnels -> {"none", "backlog", "open", "closed"}] /\ starting' \in Nat
  BY DEF IInv, LoopInv, MbRecv
<1> QED
  BY <1>3, <1>4, MbbsdKeeps DEF MbRecv, history

LEMMA MbReadKeeps == ASSUME IInv, NEW t \in Tunnels, MbRead(t) PROVE IInv'
<1>1. Head(data[t]) \in Good /\ data' \in [Tunnels -> Seq(Good)]
  BY HeadIsGood DEF IInv, MbRead
<1>2. Head(data[t]).ack \in Addrs
  BY <1>1 DEF Good, Msg, MbRead
<1>3. TunnelInv'
  BY <1>1, <1>2 DEF IInv, TunnelInv, MbRead, history
<1>4. lend' \in [Tunnels -> {"none", "backlog", "open", "closed"}] /\ starting' \in Nat
  BY DEF IInv, LoopInv, MbRead
<1> QED
  BY <1>3, <1>4, MbbsdKeeps DEF MbRead, history

LEMMA MbAckKeeps == ASSUME IInv, NEW t \in Tunnels, MbAck(t) PROVE IInv'
<1>1. dat[t] \in Addrs /\ acks \in [Tunnels -> Seq(Addrs)]
  BY DEF IInv, TunnelInv, MbAck
<1>2. Append(acks[t], dat[t]) \in Seq(Addrs)
  BY <1>1, AppendProperties
<1>3. acks' \in [Tunnels -> Seq(Addrs)]
  BY <1>1, <1>2 DEF MbAck
<1>4. TunnelInv'
  BY <1>3 DEF IInv, TunnelInv, MbAck, history
<1>5. lend' \in [Tunnels -> {"none", "backlog", "open", "closed"}] /\ starting' \in Nat
  BY DEF IInv, LoopInv, MbAck
<1> QED
  BY <1>4, <1>5, MbbsdKeeps DEF MbAck, history

LEMMA MbForkKeeps == ASSUME IInv, NEW t \in Tunnels, MbFork(t) PROVE IInv'
<1>1. csock[t] \in Clients
  BY DEF IInv, TunnelInv, MbFork
<1>2. served' \in [Clients -> Nat] /\ dropped' \subseteq Clients
  BY SMTT(40), <1>1 DEF IInv, TunnelInv, MbFork
<1>3. TunnelInv'
  BY <1>2 DEF IInv, TunnelInv, MbFork
<1>4. lend' \in [Tunnels -> {"none", "backlog", "open", "closed"}] /\ starting' \in Nat
  BY DEF IInv, LoopInv, MbFork
<1> QED
  BY <1>3, <1>4, MbbsdKeeps DEF MbFork

-----------------------------------------------------------------------------
LEMMA NextInv == IInv /\ [Next]_vars => IInv'
<1> SUFFICES ASSUME IInv, [Next]_vars PROVE IInv'
  OBVIOUS
<1>1. ASSUME NEW c \in Clients, Accept(c) PROVE IInv'
  BY <1>1, AcceptKeeps
<1>2. ASSUME NEW a \in Addrs,
             \/ Disconnect(a) \/ IdleTimeout(a) \/ TimePasses(a) \/ Keys(a)
             \/ TimerEnds(a) \/ AuthFail(a) \/ AuthStart(a)
      PROVE  IInv'
  <2>1. ASSUME TimePasses(a) \/ Keys(a) PROVE IInv'
    BY <2>1, SetIdleKeeps DEF TimePasses, Keys
  <2> QED
    BY <1>2, <2>1, ClientEndsKeeps, TimerEndsKeeps, AuthFailKeeps, AuthStartKeeps
<1>3. ASSUME StartService PROVE IInv'
  BY <1>3, SendFdKeeps, WriteDataKeeps, StartFailsKeeps DEF StartService
<1>4. ASSUME NEW t \in Tunnels, AckCb(t) \/ TunnelEof(t) \/ TunnelCb(t) PROVE IInv'
  BY <1>4, AckCbKeeps, TunnelEofKeeps, TunnelCbKeeps
<1>5. ASSUME NEW t \in Tunnels, MbStart(t) PROVE IInv'
  BY <1>5, MbStartKeeps
<1>6. ASSUME NEW t \in Tunnels, Mbbsd(t) PROVE IInv'
  <2>1. ASSUME MbExit(t) PROVE IInv'
    BY <2>1, GoneKeeps DEF MbExit
  <2> QED
    BY <1>6, <2>1, MbRecvKeeps, MbReadKeeps, MbAckKeeps, MbForkKeeps DEF Mbbsd
<1>7. ASSUME NEW t \in Tunnels, MbDie(t) PROVE IInv'
  BY <1>7, GoneKeeps DEF MbDie
<1>8. ASSUME UNCHANGED vars PROVE IInv'
  <2>1. UNCHANGED <<logind, data, acks, lend, mbbsd, history>>
    BY <1>8 DEF vars
  <2>2. TunnelInv'
    BY <2>1, SameTunnelInv DEF IInv, mbbsd, history
  <2>3. lend' \in [Tunnels -> {"none", "backlog", "open", "closed"}] /\ starting' \in Nat
    BY <2>1 DEF IInv, LoopInv, mbbsd
  <2> QED
    BY <2>1, <2>2, <2>3, MbbsdKeeps DEF history
<1> QED
  BY <1>1, <1>2, <1>3, <1>4, <1>5, <1>6, <1>7, <1>8 DEF Next

LEMMA Invariance == Spec => []IInv
  BY InitInv, NextInv, PTL DEF Spec

\* Every variable of logind and mbbsd keeps to its type, and g_opened_fd counts
\* the connections: endconn_cb counts each down once, whichever of the client,
\* the timer, an output error and the ack ends it first.
THEOREM TypeCorrect == Spec => []TypeOK
  BY Invariance, InvImplies, PTL

\* The ack queue is the set of the connections that wait for an ack: no other
\* pointer stays in g_ack_queue when its connection is freed (logind.c:1639),
\* and "corrupted ack queue" is never asserted (logind.c:464).
THEOREM QueueMatchesCorrect == Spec => []QueueMatches
  BY Invariance, InvImplies, PTL

\* Whatever address an ack carries, ack_cb only ends a connection whose login
\* was handed over: it looks the address up in g_ack_queue, which holds those
\* that wait, and a connection waits only from the step that sent its login
\* (logind.c:1421-1440, 1743-1751).
THEOREM AckEndsCorrect == Spec => AckEndsOnlyHanded
<1>1. ASSUME IInv, NEW t \in Tunnels, NEW a \in Addrs,
             AckCb(t), conn[a] # Freed, conn'[a] = Freed
      PROVE  conn[a].who \in handed
  <2> DEFINE b == Head(acks[t])
  <2>1. acks[t] \in Seq(Addrs) /\ acks[t] # <<>>
    BY <1>1 DEF IInv, TunnelInv, AckCb
  <2>2. b \in Addrs
    BY <2>1, HeadTailProperties
  <2>3. IF IsQueued(b) THEN EndConn(b) ELSE UNCHANGED <<conn, g_opened_fd>>
    BY <1>1 DEF AckCb
  <2> HIDE DEF b
  <2>4. IsQueued(b)
    BY <1>1, <2>3
  <2>5. b \in Waiting
    BY <1>1, <2>2, <2>4, QueuedIsWaiting DEF IInv
  <2>6. a = b
    BY <1>1, <2>2, <2>3, <2>4 DEF IInv, ConnInv, EndConn
  <2> QED
    BY <1>1, <2>5, <2>6 DEF IInv, WaitersHanded
<1>2. IInv => \A t \in Tunnels, a \in Addrs :
            AckCb(t) /\ conn[a] # Freed /\ conn'[a] = Freed
              => conn[a].who \in handed
  BY <1>1
<1> QED
  BY <1>2, Invariance, PTL DEF AckEndsOnlyHanded

-----------------------------------------------------------------------------
(* Why mbbsd never takes the data of one login with the socket of another, *)
(* whatever sends failed and whoever died: logind gives a tunnel up when a *)
(* login was only half sent, so that a tunnel that is used always ends     *)
(* with a whole login.                                                     *)

-----------------------------------------------------------------------------
(* Sequences of messages: s is what a tunnel holds, r the client whose     *)
(* socket mbbsd has taken out while its data is still to come, or Null.    *)

\* A socket, then the data of its client, then another socket.
Follows(m, n) ==
    \/ m.kind = "fd" /\ n.kind = "data" /\ n.who = m.who
    \/ m.kind = "data" /\ n.kind = "fd"

Starts(s, r) ==
    s # <<>> => IF r = Null THEN s[1].kind = "fd"
                ELSE s[1].kind = "data" /\ s[1].who = r

Ordered(s, r) ==
    Starts(s, r) /\ \A i \in 1..(Len(s) - 1) : Follows(s[i], s[i + 1])

\* The client whose data has to be written next, if any.
Owed(s, r) ==
    IF s = <<>> THEN r
    ELSE IF s[Len(s)].kind = "fd" THEN s[Len(s)].who ELSE Null

LEMMA AppendOne ==
    ASSUME NEW s \in Seq(Good), NEW r \in Clients \cup {Null},
           NEW m \in Good, Ordered(s, r),
           s # <<>> => Follows(s[Len(s)], m),
           s = <<>> => IF r = Null THEN m.kind = "fd"
                       ELSE m.kind = "data" /\ m.who = r
    PROVE  /\ Ordered(Append(s, m), r)
           /\ Owed(Append(s, m), r) = IF m.kind = "fd" THEN m.who ELSE Null
<1> DEFINE u == Append(s, m)
<1>1. /\ u \in Seq(Good) /\ u # <<>> /\ Len(u) = Len(s) + 1 /\ Len(s) \in Nat
      /\ \A i \in 1..Len(s) : u[i] = s[i]
      /\ u[Len(u)] = m
  BY AppendProperties, LenProperties
<1>2. s = <<>> <=> Len(s) = 0
  BY EmptySeq
<1>3. s = <<>> => u[1] = m
  BY <1>1, <1>2
<1> HIDE DEF u
<1>4. Starts(u, r)
  <2>1. CASE s = <<>>
    BY <1>3, <2>1 DEF Starts
  <2>2. CASE s # <<>>
    <3>1. 1 \in 1..Len(s)
      BY <1>1, <1>2, <2>2
    <3> QED
      BY <1>1, <2>2, <3>1 DEF Ordered, Starts
  <2> QED
    BY <2>1, <2>2
<1>5. ASSUME NEW i \in 1..(Len(u) - 1) PROVE Follows(u[i], u[i + 1])
  <2>1. i \in 1..Len(s) /\ u[i] = s[i]
    BY <1>1
  <2>2. CASE i = Len(s)
    <3>1. s # <<>> /\ u[i + 1] = m
      BY <1>1, <1>2, <2>1, <2>2
    <3> QED
      BY <2>1, <2>2, <3>1
  <2>3. CASE i # Len(s)
    <3>1. i \in 1..(Len(s) - 1) /\ i + 1 \in 1..Len(s)
      BY <1>1, <2>1, <2>3
    <3> QED
      BY <1>1, <2>1, <3>1 DEF Ordered
  <2> QED
    BY <2>2, <2>3
<1>6. Owed(u, r) = IF m.kind = "fd" THEN m.who ELSE Null
  BY <1>1 DEF Owed
<1> QED
  BY <1>4, <1>5, <1>6 DEF Ordered, u

\* send_remote_fd on a tunnel that is owed nothing
LEMMA AppendFd ==
    ASSUME NEW s \in Seq(Good), NEW r \in Clients \cup {Null},
           NEW c \in Clients, Ordered(s, r), Owed(s, r) = Null
    PROVE  Ordered(Append(s, Fd(c)), r) /\ Owed(Append(s, Fd(c)), r) = c
<1>1. Fd(c) \in Good /\ Fd(c).kind = "fd" /\ Fd(c).who = c
  BY DEF Fd, Good, Msg
<1>2. ASSUME s # <<>> PROVE Follows(s[Len(s)], Fd(c))
  <2>1. s[Len(s)] \in Good
    BY <1>2, EmptySeq, LenProperties, ElementOfSeq
  <2>2. s[Len(s)].kind # "fd"
    BY <1>2, <2>1, TunnelAssumption DEF Owed, Good, Msg
  <2> QED
    BY <1>1, <2>1, <2>2 DEF Follows, Good, Msg
<1>3. s = <<>> => r = Null
  BY DEF Owed
<1> QED
  BY <1>1, <1>2, <1>3, AppendOne

\* towrite(login_data) for the client whose socket was sent
LEMMA AppendData ==
    ASSUME NEW s \in Seq(Good), NEW r \in Clients \cup {Null},
           NEW c \in Clients, NEW a \in Addrs, Ordered(s, r), Owed(s, r) = c
    PROVE  /\ Ordered(Append(s, LoginData(c, a)), r)
           /\ Owed(Append(s, LoginData(c, a)), r) = Null
<1> DEFINE m == LoginData(c, a)
<1>1. m \in Good /\ m.kind = "data" /\ m.who = c
  BY DEF LoginData, Good, Msg
<1> HIDE DEF m
<1>2. c # Null
  BY TunnelAssumption
<1>3. ASSUME s # <<>> PROVE Follows(s[Len(s)], m)
  BY <1>1, <1>2, <1>3 DEF Owed, Follows
<1>4. s = <<>> => r = c
  BY DEF Owed
<1> QED
  BY <1>1, <1>2, <1>3, <1>4, AppendOne DEF m

\* mbbsd takes the first message.
LEMMA TakeOne ==
    ASSUME NEW s \in Seq(Good), NEW r, NEW x \in Clients \cup {Null},
           s # <<>>, Ordered(s, r),
           x = IF Head(s).kind = "fd" THEN Head(s).who ELSE Null
    PROVE  Ordered(Tail(s), x) /\ Owed(Tail(s), x) = Owed(s, r)
<1> DEFINE u == Tail(s)
<1>1. /\ u \in Seq(Good) /\ Len(u) = Len(s) - 1 /\ Len(s) \in Nat
      /\ Len(s) # 0 /\ Head(s) = s[1] /\ s[1] \in Good
      /\ \A i \in 1..Len(u) : u[i] = s[i + 1]
  BY HeadTailProperties, LenProperties, EmptySeq
<1>2. u = <<>> <=> Len(u) = 0
  BY <1>1, EmptySeq
<1> HIDE DEF u
<1>3. Starts(u, x)
  <2> SUFFICES ASSUME u # <<>>
               PROVE  IF x = Null THEN u[1].kind = "fd"
                      ELSE u[1].kind = "data" /\ u[1].who = x
    BY DEF Starts
  <2>1. 1 \in 1..(Len(s) - 1) /\ 1 \in 1..Len(u)
    BY <1>1, <1>2
  <2>2. u[1] = s[2] /\ Follows(s[1], s[2])
    BY <1>1, <2>1 DEF Ordered
  <2>3. s[1].who # Null
    BY <1>1, TunnelAssumption DEF Good, Msg
  <2> QED
    BY <1>1, <2>2, <2>3 DEF Follows
<1>4. ASSUME NEW i \in 1..(Len(u) - 1) PROVE Follows(u[i], u[i + 1])
  <2>1. /\ i \in 1..Len(u) /\ i + 1 \in 1..Len(u) /\ i + 1 \in 1..(Len(s) - 1)
    BY <1>1
  <2> QED
    BY <1>1, <2>1 DEF Ordered
<1>5. Owed(u, x) = Owed(s, r)
  <2>1. CASE u = <<>>
    <3>1. Len(s) = 1
      BY <1>1, <1>2, <2>1
    <3> QED
      BY <1>1, <2>1, <3>1 DEF Owed
  <2>2. CASE u # <<>>
    <3>1. Len(u) \in 1..Len(u) /\ Len(u) + 1 = Len(s)
      BY <1>1, <1>2, <2>2
    <3>2. u[Len(u)] = s[Len(s)]
      BY <1>1, <3>1
    <3> QED
      BY <2>2, <3>2 DEF Owed
  <2> QED
    BY <2>1, <2>2
<1> QED
  BY <1>3, <1>4, <1>5 DEF Ordered, u

-----------------------------------------------------------------------------
(* The invariant: every tunnel is in order, and the one in use is owed     *)
(* data exactly between the two sends of start_service.  A tunnel that     *)
(* nobody reads or that logind has not taken yet is empty.                 *)

Reading(t) == IF mb[t] = "read" THEN csock[t] ELSE Null

TunnelOwed ==
    g_tunnel # Null =>
        /\ lend[g_tunnel] \notin {"none", "backlog"}
        /\ Owed(data[g_tunnel], Reading(g_tunnel))
             = IF lpc = "write" /\ Alive(g_tunnel) THEN conn[cur].who ELSE Null

OrderInv ==
    /\ TunnelOwed
    /\ \A t \in Tunnels :
        /\ Ordered(data[t], Reading(t))
        /\ ~ Alive(t) => data[t] = <<>>
        /\ lend[t] \in {"none", "backlog"} => data[t] = <<>> /\ mb[t] # "read"
        /\ mb[t] = "off" => lend[t] = "none"

LEMMA OrderImplies == IInv /\ OrderInv => InStep
<1> SUFFICES ASSUME IInv, OrderInv, NEW t \in Tunnels, data[t] # <<>>
             PROVE  /\ mb[t] = "recv" => Head(data[t]).kind = "fd"
                    /\ mb[t] = "read" =>
                        Head(data[t]) = LoginData(csock[t], Head(data[t]).ack)
  BY DEF InStep
<1>1. Head(data[t]) \in Good
  BY HeadIsGood DEF IInv
<1>2. Head(data[t]) = data[t][1]
  OBVIOUS
<1>3. Starts(data[t], Reading(t))
  BY DEF OrderInv, Ordered
<1>4. CASE mb[t] = "recv"
  BY <1>2, <1>3, <1>4 DEF Starts, Reading
<1>5. CASE mb[t] = "read"
  <2>1. csock[t] # Null
    BY <1>5, TunnelAssumption DEF IInv, TunnelInv
  <2>2. Head(data[t]).kind = "data" /\ Head(data[t]).who = csock[t]
    BY <1>2, <1>3, <1>5, <2>1 DEF Starts, Reading
  <2> QED
    BY <1>1, <1>5, <2>2 DEF LoginData, Good, Msg
<1> QED
  BY <1>4, <1>5

LEMMA InitOrder == Init => OrderInv
<1> SUFFICES ASSUME Init PROVE OrderInv
  OBVIOUS
<1>1. ASSUME NEW t \in Tunnels
      PROVE  data[t] = <<>> /\ mb[t] = "off" /\ lend[t] = "none" /\ Reading(t) = Null
  BY <1>1 DEF Init, Reading
<1>2. Ordered(<<>>, Null)
  BY DEF Ordered, Starts
<1>3. TunnelOwed
  BY DEF Init, TunnelOwed
<1> QED
  BY <1>1, <1>2, <1>3 DEF OrderInv

\* logind writes nothing: it may give the tunnel up or close one.
LEMMA QuietKeeps ==
    ASSUME IInv, OrderInv, UNCHANGED <<data, mb, csock>>,
           g_tunnel' # Null =>
                g_tunnel' = g_tunnel /\ lpc # "write" /\ lpc' # "write",
           \A t \in Tunnels : \/ lend'[t] = lend[t]
                              \/ lend[t] = "open" /\ lend'[t] = "closed"
    PROVE  OrderInv'
<1>1. \A t \in Tunnels : Reading(t)' = Reading(t) /\ Alive(t)' = Alive(t)
  BY DEF Reading, Alive
<1>2. TunnelOwed'
  <2> SUFFICES ASSUME g_tunnel' # Null
               PROVE  /\ lend'[g_tunnel'] \notin {"none", "backlog"}
                      /\ Owed(data'[g_tunnel'], Reading(g_tunnel)') = Null
                      /\ lpc' # "write"
    BY DEF TunnelOwed
  <2>1. g_tunnel' = g_tunnel /\ lpc # "write" /\ lpc' # "write" /\ g_tunnel \in Tunnels
    BY DEF IInv, LoopInv
  <2>2. Reading(g_tunnel)' = Reading(g_tunnel)
    BY <2>1 DEF Reading
  <2> QED
    BY <2>1, <2>2 DEF OrderInv, TunnelOwed
<1>3. ASSUME NEW t \in Tunnels
      PROVE  /\ Ordered(data[t], Reading(t))'
             /\ ~ Alive(t)' => data'[t] = <<>>
             /\ lend'[t] \in {"none", "backlog"} => data'[t] = <<>> /\ mb'[t] # "read"
             /\ mb'[t] = "off" => lend'[t] = "none"
  BY <1>1, <1>3 DEF OrderInv
<1> QED
  BY <1>2, <1>3 DEF OrderInv

LEMMA TunnelCbOrder ==
    ASSUME IInv, OrderInv, NEW t \in Tunnels, TunnelCb(t) PROVE OrderInv'
<1>1. UNCHANGED <<data, mb, csock>> /\ g_tunnel' = t /\ lpc' # "write"
  BY DEF TunnelCb, mbbsd
<1>2. \A u \in Tunnels : Reading(u)' = Reading(u) /\ Alive(u)' = Alive(u)
  BY <1>1 DEF Reading, Alive
<1>3. lend' = [u \in Tunnels |-> IF u = t THEN "open"
                    ELSE IF u = g_tunnel THEN "closed" ELSE lend[u]]
  BY DEF TunnelCb
<1>4. TunnelOwed'
  <2>1. data[t] = <<>> /\ Reading(t) = Null /\ lend'[t] = "open"
    BY <1>3 DEF TunnelCb, OrderInv, Reading
  <2>2. Owed(data'[t], Reading(t)') = Null
    BY <1>1, <1>2, <2>1 DEF Owed
  <2> QED
    BY <1>1, <2>1, <2>2, TunnelAssumption DEF TunnelOwed
<1>5. ASSUME NEW u \in Tunnels, mb[u] = "off" PROVE lend'[u] = "none"
  <2>1. lend[u] = "none"
    BY <1>5 DEF OrderInv
  <2>2. u # t /\ u # g_tunnel
    BY <2>1, TunnelAssumption DEF TunnelCb, OrderInv, TunnelOwed
  <2> QED
    BY <1>3, <2>1, <2>2
<1>6. ASSUME NEW u \in Tunnels, lend'[u] \in {"none", "backlog"}
      PROVE  data[u] = <<>> /\ mb[u] # "read"
  BY <1>3, <1>6 DEF OrderInv
<1> QED
  BY <1>1, <1>2, <1>4, <1>5, <1>6 DEF OrderInv

\* start_service writes to the tunnel in use, which mbbsd reads.
LEMMA SendOrder ==
    ASSUME IInv, OrderInv, g_tunnel \in Tunnels, Alive(g_tunnel),
           NEW m \in Good, data' = [data EXCEPT ![g_tunnel] = Append(@, m)],
           UNCHANGED <<mb, csock, lend, g_tunnel>>,
           Ordered(Append(data[g_tunnel], m), Reading(g_tunnel)),
           Owed(Append(data[g_tunnel], m), Reading(g_tunnel))
             = IF lpc' = "write" THEN conn'[cur'].who ELSE Null
    PROVE  OrderInv'
<1>1. \A t \in Tunnels : Reading(t)' = Reading(t) /\ Alive(t)' = Alive(t)
  BY DEF Reading, Alive
<1>2. /\ data'[g_tunnel] = Append(data[g_tunnel], m)
      /\ \A t \in Tunnels \ {g_tunnel} : data'[t] = data[t]
  BY DEF IInv, TunnelInv
<1>3. lend[g_tunnel] \notin {"none", "backlog"}
  BY TunnelAssumption DEF OrderInv, TunnelOwed
<1>4. Reading(g_tunnel)' = Reading(g_tunnel) /\ Alive(g_tunnel)' = Alive(g_tunnel)
  BY DEF Reading, Alive
<1>5. TunnelOwed'
  BY <1>2, <1>3, <1>4 DEF TunnelOwed
<1>6. ASSUME NEW t \in Tunnels
      PROVE  /\ Ordered(data[t], Reading(t))'
             /\ ~ Alive(t)' => data'[t] = <<>>
             /\ lend'[t] \in {"none", "backlog"} => data'[t] = <<>> /\ mb'[t] # "read"
             /\ mb'[t] = "off" => lend'[t] = "none"
  <2>1. CASE t = g_tunnel
    BY <1>1, <1>2, <1>3, <2>1 DEF OrderInv
  <2>2. CASE t # g_tunnel
    BY <1>1, <1>2, <2>2 DEF OrderInv
  <2> QED
    BY <2>1, <2>2
<1> QED
  BY <1>5, <1>6 DEF OrderInv

\* What the conditions of SendFd and WriteData have in common.
LEMMA InUse ==
    ASSUME IInv, OrderInv, lpc \in {"send", "write"}, Alive(g_tunnel)
    PROVE  /\ cur \in Addrs /\ cur \in Live /\ conn[cur].who \in Clients
           /\ g_tunnel \in Tunnels /\ data[g_tunnel] \in Seq(Good)
           /\ Reading(g_tunnel) \in Clients \cup {Null}
           /\ Ordered(data[g_tunnel], Reading(g_tunnel))
           /\ Owed(data[g_tunnel], Reading(g_tunnel))
                = IF lpc = "write" THEN conn[cur].who ELSE Null
<1>1. /\ cur \in Addrs /\ cur \in Live /\ conn[cur].who \in Clients
      /\ g_tunnel \in Tunnels
  BY DEF IInv, ConnInv, LoopInv, Live, Conn
<1>2. data[g_tunnel] \in Seq(Good) /\ Reading(g_tunnel) \in Clients \cup {Null}
  BY <1>1 DEF IInv, TunnelInv, Reading
<1>3. g_tunnel # Null
  BY <1>1, TunnelAssumption
<1> QED
  BY <1>1, <1>2, <1>3 DEF OrderInv, TunnelOwed

LEMMA SendFdOrder == ASSUME IInv, OrderInv, SendFd PROVE OrderInv'
<1> DEFINE c == conn[cur].who
<1>1. /\ c \in Clients /\ g_tunnel \in Tunnels /\ data[g_tunnel] \in Seq(Good)
      /\ Reading(g_tunnel) \in Clients \cup {Null}
      /\ Ordered(data[g_tunnel], Reading(g_tunnel))
      /\ Owed(data[g_tunnel], Reading(g_tunnel)) = Null
  BY InUse DEF SendFd
<1>2. Fd(c) \in Good
  BY <1>1 DEF Fd, Good, Msg
<1>3. /\ Alive(g_tunnel) /\ data' = [data EXCEPT ![g_tunnel] = Append(@, Fd(c))]
      /\ UNCHANGED <<mb, csock, lend, g_tunnel>>
      /\ lpc' = "write" /\ conn'[cur'].who = c
  BY DEF SendFd, mbbsd
<1> HIDE DEF c
<1>4. /\ Ordered(Append(data[g_tunnel], Fd(c)), Reading(g_tunnel))
      /\ Owed(Append(data[g_tunnel], Fd(c)), Reading(g_tunnel)) = c
  BY <1>1, AppendFd
<1> QED
  BY <1>1, <1>2, <1>3, <1>4, SendOrder

LEMMA WriteDataOrder == ASSUME IInv, OrderInv, WriteData PROVE OrderInv'
<1> DEFINE c == conn[cur].who  m == LoginData(c, cur)
<1>1. /\ c \in Clients /\ g_tunnel \in Tunnels /\ data[g_tunnel] \in Seq(Good)
      /\ Reading(g_tunnel) \in Clients \cup {Null} /\ cur \in Addrs
      /\ Ordered(data[g_tunnel], Reading(g_tunnel))
      /\ Owed(data[g_tunnel], Reading(g_tunnel)) = c
  BY InUse DEF WriteData
<1>2. m \in Good
  BY <1>1 DEF LoginData, Good, Msg
<1>3. /\ Alive(g_tunnel) /\ data' = [data EXCEPT ![g_tunnel] = Append(@, m)]
      /\ UNCHANGED <<mb, csock, lend, g_tunnel>> /\ lpc' = "loop"
  BY DEF WriteData, mbbsd
<1>4. /\ Ordered(Append(data[g_tunnel], m), Reading(g_tunnel))
      /\ Owed(Append(data[g_tunnel], m), Reading(g_tunnel)) = Null
  <2> HIDE DEF c
  <2> QED
    BY <1>1, AppendData
<1> HIDE DEF m, c
<1> QED
  BY <1>1, <1>2, <1>3, <1>4, SendOrder

-----------------------------------------------------------------------------
(* The steps of mbbsd.                                                     *)

\* It takes a message or goes on, and owes and is owed what it was.
LEMMA MbOrder ==
    ASSUME IInv, OrderInv, NEW t \in Tunnels,
           UNCHANGED <<logind, lend>>, Alive(t), Alive(t)',
           data[t] = <<>> => data'[t] = <<>> /\ mb'[t] # "read",
           \A u \in Tunnels \ {t} :
                data'[u] = data[u] /\ mb'[u] = mb[u] /\ csock'[u] = csock[u],
           Ordered(data[t], Reading(t))',
           Owed(data[t], Reading(t))' = Owed(data[t], Reading(t))
    PROVE  OrderInv'
<1>1. \A u \in Tunnels \ {t} : Reading(u)' = Reading(u) /\ Alive(u)' = Alive(u)
  BY DEF Reading, Alive
<1>2. TunnelOwed'
  <2> SUFFICES ASSUME g_tunnel # Null PROVE TunnelOwed'
    BY DEF TunnelOwed, logind
  <2> DEFINE g == g_tunnel
  <2>1. g \in Tunnels /\ g' = g /\ lpc' = lpc /\ cur' = cur /\ conn' = conn /\ lend' = lend
    BY DEF IInv, LoopInv, logind
  <2>2. /\ lend[g] \notin {"none", "backlog"}
        /\ Owed(data[g], Reading(g))
             = IF lpc = "write" /\ Alive(g) THEN conn[cur].who ELSE Null
    BY DEF OrderInv, TunnelOwed
  <2>3. CASE g = t
    BY <2>1, <2>2, <2>3 DEF TunnelOwed
  <2>4. CASE g # t
    BY <1>1, <2>1, <2>2, <2>4 DEF TunnelOwed
  <2> QED
    BY <2>3, <2>4
<1>3. ASSUME NEW u \in Tunnels
      PROVE  /\ Ordered(data[u], Reading(u))'
             /\ ~ Alive(u)' => data'[u] = <<>>
             /\ lend'[u] \in {"none", "backlog"} => data'[u] = <<>> /\ mb'[u] # "read"
             /\ mb'[u] = "off" => lend'[u] = "none"
  <2>1. CASE u = t
    <3>1. mb'[t] # "off"
      BY DEF Alive
    <3>2. lend[t] \in {"none", "backlog"} => data[t] = <<>>
      BY DEF OrderInv
    <3> QED
      BY <2>1, <3>1, <3>2
  <2>2. CASE u # t
    BY <1>1, <2>2 DEF OrderInv
  <2> QED
    BY <2>1, <2>2
<1> QED
  BY <1>2, <1>3 DEF OrderInv

LEMMA MbRecvOrder == ASSUME IInv, OrderInv, NEW t \in Tunnels, MbRecv(t) PROVE OrderInv'
<1> DEFINE x == Head(data[t]).who
<1>1. /\ data[t] \in Seq(Good) /\ data[t] # <<>>
      /\ Head(data[t]).kind = "fd" /\ mb[t] = "recv"
  BY DEF MbRecv, IInv, TunnelInv
<1>2. Head(data[t]) \in Good /\ x \in Clients
  BY <1>1, HeadIsGood DEF IInv, Good, Msg
<1>3. data'[t] = Tail(data[t]) /\ mb'[t] = "read" /\ csock'[t] = x
  BY DEF MbRecv, IInv, TunnelInv
<1>4. Reading(t)' = x /\ Alive(t) /\ Alive(t)'
  BY <1>1, <1>3 DEF Reading, Alive
<1>5. Ordered(data[t], Reading(t))
  BY DEF OrderInv
<1>6. /\ Ordered(Tail(data[t]), x)
      /\ Owed(Tail(data[t]), x) = Owed(data[t], Reading(t))
  BY <1>1, <1>2, <1>5, TakeOne
<1>7. /\ Ordered(data[t], Reading(t))'
      /\ Owed(data[t], Reading(t))' = Owed(data[t], Reading(t))
  BY <1>3, <1>4, <1>6
<1>8. \A u \in Tunnels \ {t} :
        data'[u] = data[u] /\ mb'[u] = mb[u] /\ csock'[u] = csock[u]
  BY DEF MbRecv, IInv, TunnelInv
<1>9. UNCHANGED <<logind, lend>>
  BY DEF MbRecv
<1>10. data[t] # <<>>
  BY <1>1
<1> QED
  BY <1>4, <1>7, <1>8, <1>9, <1>10, MbOrder

LEMMA MbReadOrder == ASSUME IInv, OrderInv, NEW t \in Tunnels, MbRead(t) PROVE OrderInv'
<1>1. /\ data[t] \in Seq(Good) /\ data[t] # <<>>
      /\ Head(data[t]).kind = "data" /\ mb[t] = "read"
  BY DEF MbRead, IInv, TunnelInv
<1>2. data'[t] = Tail(data[t]) /\ mb'[t] = "ack" /\ csock' = csock
  BY DEF MbRead, IInv, TunnelInv
<1>3. Reading(t)' = Null /\ Alive(t) /\ Alive(t)'
  BY <1>1, <1>2 DEF Reading, Alive
<1>4. Ordered(data[t], Reading(t))
  BY DEF OrderInv
<1>5. /\ Ordered(Tail(data[t]), Null)
      /\ Owed(Tail(data[t]), Null) = Owed(data[t], Reading(t))
  BY <1>1, <1>4, TakeOne
<1>6. /\ Ordered(data[t], Reading(t))'
      /\ Owed(data[t], Reading(t))' = Owed(data[t], Reading(t))
  BY <1>2, <1>3, <1>5
<1>7. \A u \in Tunnels \ {t} :
        data'[u] = data[u] /\ mb'[u] = mb[u] /\ csock'[u] = csock[u]
  BY DEF MbRead, IInv, TunnelInv
<1>8. UNCHANGED <<logind, lend>>
  BY DEF MbRead
<1>9. data[t] # <<>>
  BY <1>1
<1> QED
  BY <1>3, <1>6, <1>7, <1>8, <1>9, MbOrder

\* MbAck and MbFork: the tunnel is not touched, and no socket waits for data.
LEMMA GoesOnOrder ==
    ASSUME IInv, OrderInv, NEW t \in Tunnels, UNCHANGED <<logind, lend, data>>,
           mb[t] \in {"ack", "fork"}, NEW next \in {"fork", "recv"},
           mb' = [mb EXCEPT ![t] = next],
           \A u \in Tunnels \ {t} : csock'[u] = csock[u]
    PROVE  OrderInv'
<1>1. mb'[t] = next /\ \A u \in Tunnels \ {t} : mb'[u] = mb[u]
  BY DEF IInv, TunnelInv
<1>2. Reading(t)' = Null /\ Reading(t) = Null /\ Alive(t) /\ Alive(t)'
  BY <1>1 DEF Reading, Alive
<1>3. /\ Ordered(data[t], Reading(t))'
      /\ Owed(data[t], Reading(t))' = Owed(data[t], Reading(t))
      /\ data'[t] = data[t] /\ mb'[t] # "read"
  BY <1>1, <1>2 DEF OrderInv
<1> QED
  BY <1>1, <1>2, <1>3, MbOrder

LEMMA MbStartOrder == ASSUME IInv, OrderInv, NEW t \in Tunnels, MbStart(t) PROVE OrderInv'
<1>1. mb[t] = "off" /\ lend[t] = "none" /\ data[t] = <<>> /\ UNCHANGED <<logind, data, csock>>
  BY DEF MbStart, OrderInv, Alive
<1>2. /\ mb'[t] = "recv" /\ lend'[t] = "backlog"
      /\ \A u \in Tunnels \ {t} : mb'[u] = mb[u] /\ lend'[u] = lend[u]
  BY DEF MbStart, IInv, TunnelInv, LoopInv
<1>3. Reading(t)' = Null /\ Alive(t)'
  BY <1>2 DEF Reading, Alive
<1>4. \A u \in Tunnels \ {t} : Reading(u)' = Reading(u) /\ Alive(u)' = Alive(u)
  BY <1>1, <1>2 DEF Reading, Alive
<1>5. Ordered(data[t], Reading(t))'
  BY <1>1, <1>3 DEF Ordered, Starts
<1>6. TunnelOwed'
  <2> SUFFICES ASSUME g_tunnel # Null PROVE TunnelOwed'
    BY <1>1 DEF TunnelOwed, logind
  <2>1. g_tunnel \in Tunnels \ {t}
    BY <1>1 DEF IInv, LoopInv, OrderInv, TunnelOwed
  <2> QED
    BY <1>1, <1>2, <1>4, <2>1 DEF OrderInv, TunnelOwed, logind
<1> QED
  BY <1>1, <1>2, <1>3, <1>4, <1>5, <1>6 DEF OrderInv

LEMMA GoneOrder ==
    ASSUME IInv, OrderInv, NEW t \in Tunnels, NEW how \in {"exited", "died"},
           Gone(t, how), UNCHANGED <<logind, lend>>
    PROVE  OrderInv'
<1>1. /\ mb'[t] = how /\ data'[t] = <<>>
      /\ \A u \in Tunnels \ {t} :
            data'[u] = data[u] /\ mb'[u] = mb[u] /\ csock'[u] = csock[u]
  BY DEF Gone, IInv, TunnelInv
<1>2. Reading(t)' = Null /\ ~ Alive(t)'
  BY <1>1 DEF Reading, Alive
<1>3. \A u \in Tunnels \ {t} : Reading(u)' = Reading(u) /\ Alive(u)' = Alive(u)
  BY <1>1 DEF Reading, Alive
<1>4. Ordered(data[t], Reading(t))' /\ Owed(data[t], Reading(t))' = Null
  BY <1>1, <1>2 DEF Ordered, Starts, Owed
<1>5. TunnelOwed'
  <2> SUFFICES ASSUME g_tunnel # Null PROVE TunnelOwed'
    BY DEF TunnelOwed, logind
  <2>1. g_tunnel \in Tunnels
    BY DEF IInv, LoopInv
  <2>2. CASE g_tunnel = t
    BY <1>2, <1>4, <2>2 DEF OrderInv, TunnelOwed, logind
  <2>3. CASE g_tunnel # t
    BY <1>1, <1>3, <2>1, <2>3 DEF OrderInv, TunnelOwed, logind
  <2> QED
    BY <2>2, <2>3
<1>6. ASSUME NEW u \in Tunnels
      PROVE  /\ Ordered(data[u], Reading(u))'
             /\ ~ Alive(u)' => data'[u] = <<>>
             /\ lend'[u] \in {"none", "backlog"} => data'[u] = <<>> /\ mb'[u] # "read"
             /\ mb'[u] = "off" => lend'[u] = "none"
  <2>1. CASE u = t
    BY <1>1, <1>4, <2>1
  <2>2. CASE u # t
    BY <1>1, <1>3, <2>2 DEF OrderInv
  <2> QED
    BY <2>1, <2>2
<1> QED
  BY <1>5, <1>6 DEF OrderInv

-----------------------------------------------------------------------------
LEMMA NextOrder == IInv /\ OrderInv /\ [Next]_vars => OrderInv'
<1> SUFFICES ASSUME IInv, OrderInv, [Next]_vars PROVE OrderInv'
  OBVIOUS
<1>1. ASSUME UNCHANGED <<data, mb, csock, lend, g_tunnel>>,
             lpc = "loop", lpc' # "write"
      PROVE  OrderInv'
  BY <1>1, QuietKeeps
<1>2. ASSUME NEW c \in Clients, Accept(c) PROVE OrderInv'
  BY <1>1, <1>2 DEF Accept, mbbsd
<1>3. ASSUME NEW a \in Addrs,
             \/ Disconnect(a) \/ IdleTimeout(a) \/ TimePasses(a) \/ Keys(a)
             \/ TimerEnds(a) \/ AuthFail(a) \/ AuthStart(a)
      PROVE  OrderInv'
  <2>1. UNCHANGED <<data, mb, csock, lend, g_tunnel>>
    BY <1>3 DEF Disconnect, IdleTimeout, ClientEnds, TimePasses, Keys, SetIdle,
                TimerEnds, AuthFail, AuthStart, mbbsd
  <2>2. lpc = "loop" /\ lpc' # "write"
    BY <1>3 DEF Disconnect, IdleTimeout, ClientEnds, TimePasses, Keys, SetIdle, Read,
                TimerEnds, AuthFail, AuthStart
  <2> QED
    BY <1>1, <2>1, <2>2
<1>4. ASSUME StartFails PROVE OrderInv'
  <2>1. UNCHANGED <<data, mb, csock, lend>> /\ g_tunnel' = Null
    BY <1>4 DEF StartFails, RetryService, TunnelGivenUp
  <2> QED
    BY <2>1, QuietKeeps
<1>5. ASSUME NEW t \in Tunnels, AckCb(t) PROVE OrderInv'
  BY <1>1, <1>5 DEF AckCb, mbbsd
<1>6. ASSUME NEW t \in Tunnels, TunnelEof(t) PROVE OrderInv'
  <2>1. /\ UNCHANGED <<data, mb, csock, lpc>> /\ lpc = "loop"
        /\ g_tunnel' = Null \/ g_tunnel' = g_tunnel
    BY <1>6 DEF TunnelEof, mbbsd
  <2>2. \A u \in Tunnels : \/ lend'[u] = lend[u]
                           \/ lend[u] = "open" /\ lend'[u] = "closed"
    BY <1>6 DEF TunnelEof, IInv, LoopInv
  <2> QED
    BY <2>1, <2>2, QuietKeeps
<1>7. ASSUME NEW t \in Tunnels, Mbbsd(t) PROVE OrderInv'
  <2>1. ASSUME MbExit(t) PROVE OrderInv'
    BY <2>1, GoneOrder DEF MbExit
  <2>2. ASSUME MbAck(t) PROVE OrderInv'
    BY <2>2, GoesOnOrder DEF MbAck
  <2>3. ASSUME MbFork(t) PROVE OrderInv'
    <3>1. \A u \in Tunnels \ {t} : csock'[u] = csock[u]
      BY <2>3 DEF MbFork, IInv, TunnelInv
    <3>2. UNCHANGED <<logind, lend, data>> /\ mb[t] = "fork" /\ mb' = [mb EXCEPT ![t] = "recv"]
      BY <2>3 DEF MbFork
    <3> QED
      BY <3>1, <3>2, GoesOnOrder
  <2> QED
    BY <1>7, <2>1, <2>2, <2>3, MbRecvOrder, MbReadOrder DEF Mbbsd
<1>8. ASSUME NEW t \in Tunnels, MbDie(t) PROVE OrderInv'
  BY <1>8, GoneOrder DEF MbDie
<1>9. ASSUME UNCHANGED vars PROVE OrderInv'
  <2>1. UNCHANGED <<logind, data, acks, lend, mbbsd, history>>
    BY <1>9 DEF vars
  <2>2. \A t \in Tunnels : Reading(t)' = Reading(t) /\ Alive(t)' = Alive(t)
    BY <2>1 DEF Reading, Alive, mbbsd
  <2>3. TunnelOwed'
    BY <2>1 DEF OrderInv, TunnelOwed, logind, mbbsd, Reading, Alive
  <2> QED
    BY <2>1, <2>2, <2>3 DEF OrderInv, mbbsd
<1> QED
  BY <1>2, <1>3, <1>4, <1>5, <1>6, <1>7, <1>8, <1>9, SendFdOrder, WriteDataOrder,
     TunnelCbOrder, MbStartOrder DEF Next, StartService

\* mbbsd never takes the data of one login with the socket of another: no send
\* that fails, no mbbsd that dies and no tunnel that is replaced puts a tunnel
\* out of step, since start_service gives it up in the callback in which a
\* send failed (logind.c:1350, 1414-1428; mbbsd.c:2130-2139).
THEOREM InStepCorrect == Spec => []InStep
<1>1. Spec => []OrderInv
  BY Invariance, InitOrder, NextOrder, PTL DEF Spec
<1> QED
  BY <1>1, Invariance, OrderImplies, PTL
=============================================================================
