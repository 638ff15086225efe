------------------------------ MODULE AckQueue ------------------------------
(* The queue of connections whose login was handed to mbbsd and not yet    *)
(* acknowledged (ackq_* of daemon/logind/logind.c): an array that is       *)
(* filled from its holes first and gives back only its last cell.          *)
EXTENDS Integers, Sequences, FiniteSets

\* queue: the cells 0..size-1; reuse: how many of them are free.
EmptyQueue == [queue |-> <<>>, reuse |-> 0]

Cells(s, a) == {i \in 1..Len(s) : s[i] = a}
First(s, a) == CHOOSE i \in Cells(s, a) : \A j \in Cells(s, a) : i <= j
Items(q, null) == {q.queue[i] : i \in 1..Len(q.queue)} \ {null}

ackq_size(q) == Len(q.queue) - q.reuse

\* Forget the cells when all of them are free.
ackq_gc(q) == IF q.reuse = Len(q.queue) THEN EmptyQueue ELSE q

ackq_add(q, a, null) ==
    IF q.reuse > 0
    THEN ackq_gc([queue |-> [q.queue EXCEPT ![First(q.queue, null)] = a],
                  reuse |-> q.reuse - 1])
    ELSE ackq_gc([queue |-> Append(q.queue, a), reuse |-> q.reuse])

ackq_del(q, a, null) ==
    LET n == Len(q.queue)  i == First(q.queue, a) IN
    IF Cells(q.queue, a) = {} THEN q
    ELSE IF i = n
    THEN ackq_gc([queue |-> SubSeq(q.queue, 1, n - 1), reuse |-> q.reuse])
    ELSE ackq_gc([queue |-> [q.queue EXCEPT ![i] = null],
                  reuse |-> q.reuse + 1])

\* The count is that of the free cells, and no connection has two cells: what
\* assert(!"corrupted ack queue") and the loops of ackq_add and ackq_del rely
\* on (logind.c:464).
Consistent(q, null) ==
    /\ q.reuse = Cardinality(Cells(q.queue, null))
    /\ \A i, j \in 1..Len(q.queue) :
            q.queue[i] = q.queue[j] /\ q.queue[i] # null => i = j
=============================================================================
