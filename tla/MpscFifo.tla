------------------------------ MODULE MpscFifo ------------------------------
(***************************************************************************)
(* What roc_core/mpsc_queue.h promises: a first-in first-out queue with    *)
(* many producers and one consumer.  A push_back() takes its place in the  *)
(* order at one point and finishes at a later one; in between, and only    *)
(* in between or when the queue is empty, try_pop_front_exclusive() may    *)
(* return NULL.                                                            *)
(***************************************************************************)
EXTENDS Sequences

CONSTANTS Nodes,  \* the objects that are pushed and popped
          Null

VARIABLES queue,    \* pushed and not popped, oldest first
          linking,  \* the elements whose push_back() has not finished
          result    \* what the last pop returned

fifoVars == <<queue, linking, result>>

FifoInit == queue = <<>> /\ linking = {} /\ result = Null

FifoPush(n) ==
    /\ \A i \in DOMAIN queue : queue[i] # n
    /\ queue' = Append(queue, n) /\ linking' = linking \cup {n}
    /\ UNCHANGED result

FifoLink(n) ==
    /\ n \in linking
    /\ linking' = linking \ {n}
    /\ UNCHANGED <<queue, result>>

FifoPop ==
    /\ queue # <<>> /\ Head(queue) \notin linking
    /\ result' = Head(queue) /\ queue' = Tail(queue)
    /\ UNCHANGED linking

FifoPopNull ==
    /\ queue = <<>> \/ linking # {}
    /\ result' = Null
    /\ UNCHANGED <<queue, linking>>

FifoNext == FifoPop \/ FifoPopNull \/ \E n \in Nodes : FifoPush(n) \/ FifoLink(n)

FifoSpec == FifoInit /\ [][FifoNext]_fifoVars

=============================================================================
