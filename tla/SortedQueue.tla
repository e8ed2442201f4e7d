---------------------------- MODULE SortedQueue ----------------------------
(* packet::SortedQueue, as operators on a sequence kept in ascending order: *)
(* head() and read() take its first element, tail() its last.  The code     *)
(* keeps the list in the opposite order and takes from the back.            *)
EXTENDS Integers, Sequences, SequencesExt, FiniteSetsExt

\* Packet::compare: negative, zero or positive.
CONSTANT compare(_, _)

\* The last packet, from the tail, that p is not before; 0 when there is none.
Position(q, p) ==
    LET reached == {i \in DOMAIN q : compare(p, q[i]) >= 0}
    IN  IF reached = {} THEN 0 ELSE Max(reached)

\* SortedQueue::write: a packet for a full queue and a packet equal to a queued
\* one are dropped, and the caller is told that all is well.
Write(q, p, maxSize) ==
    LET pos == Position(q, p)
        full == maxSize > 0 /\ Len(q) = maxSize
        duplicate == pos > 0 /\ compare(p, q[pos]) = 0
    IN  IF full \/ duplicate THEN q ELSE InsertAt(q, pos + 1, p)
=============================================================================
