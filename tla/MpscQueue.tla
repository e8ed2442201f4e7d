----------------------------- MODULE MpscQueue ------------------------------
(***************************************************************************)
(* The lock-free multi-producer single-consumer queue of                   *)
(* roc_core/mpsc_queue_impl.cpp, an intrusive list with a stub node.       *)
(*                                                                         *)
(* Every access to an atomic that another thread may write is one step.    *)
(* A node is in the hands of one producer at a time, so each node is its   *)
(* own producer; a node that was popped may be pushed again at once.       *)
(* Atomics are sequentially consistent.                                    *)
(***************************************************************************)
EXTENDS Naturals, Sequences

CONSTANTS
    Nodes,  \* the elements
    Stub,   \* stub_
    Null

ASSUME NodesAssumption == Stub \notin Nodes /\ Null \notin Nodes /\ Stub # Null

Cells == Nodes \cup {Stub}
MaxTries == 3  \* loads of try_wait_next_()

VARIABLES
    next,      \* MpscQueueData::next
    owned,     \* the nodes whose MpscQueueData::queue is this queue
    tail,      \* tail_
    head,      \* head_
    ppc,       \* where the push_back() of each node is
    prev,      \* its local prev; the consumer's one for the stub
    cpc,       \* where the consumer is
    can_spin,  \* argument of pop_front()
    chead,     \* local head of pop_node_()
    cnext,     \* local next of pop_node_()
    tries,     \* failed loads of try_wait_next_()
    result,    \* what the last pop returned
    queue,     \* history: the nodes from head_ on, in the order they swapped the tail
    stub_at    \* history: the place of the stub in the list that starts at head_, or 0

history == <<queue, stub_at>>
producers == <<ppc, owned>>
consumer == <<cpc, can_spin, chead, cnext, tries, result>>
queueVars == <<next, tail, head, prev, history, producers, consumer>>

QueueInit ==
    /\ next = [c \in Cells |-> Null] /\ owned = {}
    /\ tail = Stub /\ head = Stub
    /\ ppc = [n \in Nodes |-> "out"] /\ prev = [c \in Cells |-> Null]
    /\ cpc = "idle" /\ can_spin = FALSE /\ chead = Null /\ cnext = Null /\ tries = 0
    /\ result = Null
    /\ queue = <<>> /\ stub_at = 1

-----------------------------------------------------------------------------
(***************************************************************************)
(* push_back(): take ownership, then push_node_().                         *)
(***************************************************************************)
ChangeOwnerPush(n) ==
    /\ ppc[n] = "out" /\ n \notin owned
    /\ owned' = owned \cup {n}
    /\ ppc' = [ppc EXCEPT ![n] = "reset"]
    /\ UNCHANGED <<next, tail, head, prev, history, consumer>>

\* Seeded fault: next keeps the value it had when the node was popped.
PushKeepsNext(n) ==
    /\ ppc[n] = "reset"
    /\ ppc' = [ppc EXCEPT ![n] = "swap"]
    /\ UNCHANGED <<next, owned, tail, head, prev, history, consumer>>

PushReset(n) ==
    /\ ppc[n] = "reset"
    /\ next' = [next EXCEPT ![n] = Null]
    /\ ppc' = [ppc EXCEPT ![n] = "swap"]
    /\ UNCHANGED <<owned, tail, head, prev, history, consumer>>

Swap(c) ==
    /\ prev' = [prev EXCEPT ![c] = tail]
    /\ tail' = c
    /\ IF c = Stub THEN stub_at' = Len(queue) + 1 /\ UNCHANGED queue
                   ELSE queue' = Append(queue, c) /\ UNCHANGED stub_at
    /\ UNCHANGED <<next, head>>

PushSwap(n) ==
    /\ ppc[n] = "swap"
    /\ Swap(n)
    /\ ppc' = [ppc EXCEPT ![n] = "link"]
    /\ UNCHANGED <<owned, consumer>>

Link(c) ==
    /\ next' = [next EXCEPT ![prev[c]] = c]
    /\ prev' = [prev EXCEPT ![c] = Null]
    /\ UNCHANGED <<tail, head, history>>

\* Seeded fault: the previous tail is not linked to the new node.
PushLinkForgotten(n) ==
    /\ ppc[n] = "link"
    /\ prev' = [prev EXCEPT ![n] = Null]
    /\ ppc' = [ppc EXCEPT ![n] = "out"]
    /\ UNCHANGED <<next, tail, head, history, owned, consumer>>

PushLink(n) ==
    /\ ppc[n] = "link"
    /\ Link(n)
    /\ ppc' = [ppc EXCEPT ![n] = "out"]
    /\ UNCHANGED <<owned, consumer>>

Push(n) == PushReset(n) \/ PushSwap(n) \/ PushLink(n)

-----------------------------------------------------------------------------
(***************************************************************************)
(* pop_front(can_spin): pop_node_(), then give up ownership.               *)
(***************************************************************************)
shared == <<next, tail, head, prev, history, producers>>

\* A local value is forgotten when the call returns.
Return(r) ==
    /\ cpc' = "idle" /\ chead' = Null /\ cnext' = Null /\ tries' = 0
    /\ result' = r

PopBegin ==
    /\ cpc = "idle"
    /\ can_spin' \in BOOLEAN
    /\ chead' = head
    /\ cpc' = "next"
    /\ UNCHANGED <<shared, cnext, tries, result>>

\* Where pop_node_() goes once it has loaded a next of its head.
PopLoaded(h, n) ==
    IF n # Null THEN (IF h = Stub THEN "skip_stub" ELSE "advance")
                ELSE (IF h = Stub THEN "stub_tail" ELSE "node_tail")

PopLoadNext ==
    /\ cpc = "next"
    /\ cnext' = next[chead]
    /\ cpc' = PopLoaded(chead, next[chead])
    /\ UNCHANGED <<shared, can_spin, chead, tries, result>>

\* head is the stub and has no next: the queue is empty or a push is in progress.
PopCheckEmpty ==
    /\ cpc = "stub_tail"
    /\ IF tail = chead THEN Return(Null)
       ELSE cpc' = "wait_next" /\ UNCHANGED <<chead, cnext, tries, result>>
    /\ UNCHANGED <<shared, can_spin>>

\* wait_next_() and try_wait_next_().
WaitNext ==
    /\ cpc = "wait_next"
    /\ \/ /\ next[chead] # Null
          /\ cnext' = next[chead] /\ tries' = 0
          /\ cpc' = PopLoaded(chead, next[chead])
          /\ UNCHANGED <<chead, result>>
       \/ /\ next[chead] = Null /\ tries < MaxTries - 1
          /\ tries' = tries + 1
          /\ UNCHANGED <<cpc, chead, cnext, result>>
       \/ /\ next[chead] = Null /\ tries = MaxTries - 1 /\ ~can_spin
          /\ Return(Null)
    /\ UNCHANGED <<shared, can_spin>>

\* Seeded fault: next is not loaded again after the stub was skipped.
PopSkipStubStale ==
    /\ cpc = "skip_stub"
    /\ head' = cnext /\ chead' = cnext
    /\ cpc' = PopLoaded(cnext, cnext)
    /\ stub_at' = 0
    /\ UNCHANGED <<next, tail, prev, queue, producers, can_spin, cnext, tries, result>>

\* Remove the stub from the beginning of the list.
PopSkipStub ==
    /\ cpc = "skip_stub"
    /\ head' = cnext /\ chead' = cnext
    /\ cnext' = next[cnext]
    /\ cpc' = PopLoaded(cnext, next[cnext])
    /\ stub_at' = 0
    /\ UNCHANGED <<next, tail, prev, queue, producers, can_spin, tries, result>>

\* Seeded fault: the stub is never put back behind the last node.
PopCheckTailWaits ==
    /\ cpc = "node_tail"
    /\ cpc' = "wait_next"
    /\ UNCHANGED <<shared, can_spin, chead, cnext, tries, result>>

\* head is a node and has no next: it is the last one, or a push is in progress.
PopCheckTail ==
    /\ cpc = "node_tail"
    /\ cpc' = IF tail = chead THEN "stub_reset" ELSE "wait_next"
    /\ UNCHANGED <<shared, can_spin, chead, cnext, tries, result>>

StubReset ==
    /\ cpc = "stub_reset"
    /\ next' = [next EXCEPT ![Stub] = Null]
    /\ cpc' = "stub_swap"
    /\ UNCHANGED <<tail, head, prev, history, producers, can_spin, chead, cnext, tries, result>>

StubSwap ==
    /\ cpc = "stub_swap"
    /\ Swap(Stub)
    /\ cpc' = "stub_link"
    /\ UNCHANGED <<producers, can_spin, chead, cnext, tries, result>>

StubLink ==
    /\ cpc = "stub_link"
    /\ Link(Stub)
    /\ cpc' = "wait_next"
    /\ UNCHANGED <<producers, can_spin, chead, cnext, tries, result>>

Advance ==
    /\ head' = cnext
    /\ queue' = Tail(queue) /\ stub_at' = IF stub_at = 0 THEN 0 ELSE stub_at - 1

\* Seeded fault: ownership is not given up.
PopAdvanceKeepsOwner ==
    /\ cpc = "advance"
    /\ Advance
    /\ Return(chead)
    /\ UNCHANGED <<next, tail, prev, ppc, owned, can_spin>>

\* Move list head to the next node; change_owner_(node, this, NULL).
PopAdvance ==
    /\ cpc = "advance"
    /\ Advance
    /\ owned' = owned \ {chead}
    /\ Return(chead)
    /\ UNCHANGED <<next, tail, prev, ppc, can_spin>>

Pop == \/ PopLoadNext \/ PopCheckEmpty \/ WaitNext \/ PopSkipStub \/ PopCheckTail
       \/ StubReset \/ StubSwap \/ StubLink \/ PopAdvance

-----------------------------------------------------------------------------
QueueNext == PopBegin \/ Pop \/ \E n \in Nodes : ChangeOwnerPush(n) \/ Push(n)

\* Threads that are inside push_back() or pop_front() keep running.
QueueFairness == WF_queueVars(Pop) /\ \A n \in Nodes : WF_queueVars(Push(n))

QueueSpec == QueueInit /\ [][QueueNext]_queueVars
QueueFairSpec == QueueSpec /\ QueueFairness

-----------------------------------------------------------------------------
(***************************************************************************)
(* Properties.                                                             *)
(***************************************************************************)
ConsumerLabels == {"idle", "next", "stub_tail", "wait_next", "skip_stub", "node_tail",
                   "stub_reset", "stub_swap", "stub_link", "advance"}

\* Every variable has its type; in particular the head and the tail of the queue
\* are never NULL.
QueueOK ==
    /\ next \in [Cells -> Cells \cup {Null}] /\ prev \in [Cells -> Cells \cup {Null}]
    /\ tail \in Cells /\ head \in Cells /\ owned \subseteq Nodes
    /\ ppc \in [Nodes -> {"out", "reset", "swap", "link"}]
    /\ cpc \in ConsumerLabels /\ can_spin \in BOOLEAN /\ tries \in 0..(MaxTries - 1)
    /\ chead \in Cells \cup {Null} /\ cnext \in Cells \cup {Null}
    /\ result \in Nodes \cup {Null}
    /\ queue \in Seq(Nodes) /\ stub_at \in 0..(Len(queue) + 1)

\* The list that starts at head_: the nodes and the stub, in the order of their
\* tail swaps.
Length == Len(queue) + (IF stub_at = 0 THEN 0 ELSE 1)
List == [i \in 1..Length |-> IF stub_at = 0 \/ i < stub_at THEN queue[i]
                             ELSE IF i = stub_at THEN Stub ELSE queue[i - 1]]
Unlinked(c) == IF c = Stub THEN cpc = "stub_link" ELSE ppc[c] = "link"

\* The list is in order: it runs from head_ to tail_ through the next pointers,
\* with a gap exactly in front of each cell whose push_node_() is between its swap
\* and its link, and no cell is in it twice.
ListInOrder ==
    /\ Length > 0 /\ head = List[1] /\ tail = List[Length] /\ next[tail] = Null
    /\ \A i, j \in 1..Length : List[i] = List[j] => i = j
    /\ \A i \in 1..(Length - 1) :
          IF Unlinked(List[i + 1])
          THEN next[List[i]] = Null /\ prev[List[i + 1]] = List[i]
          ELSE next[List[i]] = List[i + 1]

\* Ownership: a node belongs to the queue from the beginning of its push_back() to
\* the moment it is popped, so change_owner_() never finds an unexpected owner.
OwnersMatch ==
    /\ \A n \in Nodes : n \in owned <=>
          ppc[n] \in {"reset", "swap"} \/ \E i \in 1..Length : List[i] = n
    /\ cpc = "advance" => chead \in owned

\* What the threads know of the list between two of their steps.
ProducersKnow ==
    \A n \in Nodes :
       /\ ppc[n] \in {"reset", "swap"} => \A i \in 1..Length : List[i] # n
       /\ ppc[n] = "swap" => next[n] = Null
       /\ ppc[n] = "link" => \E i \in 2..Length : List[i] = n
ConsumerKnows ==
    /\ cpc # "idle" => chead = head
    /\ ~Unlinked(head)
    /\ cpc \in {"skip_stub", "stub_tail"} => chead = Stub
    /\ cpc \in {"advance", "node_tail", "stub_reset", "stub_swap", "stub_link"} => chead \in Nodes
    /\ cpc \in {"skip_stub", "advance"} => cnext = next[chead] /\ cnext # Null
    /\ cpc \in {"wait_next", "stub_link"} => Length > 1
    /\ cpc \in {"stub_reset", "stub_swap"} => stub_at = 0
    /\ cpc = "stub_swap" => next[Stub] = Null
    /\ cpc = "stub_link" => stub_at > 1

Inv == QueueOK /\ ListInOrder /\ OwnersMatch /\ ProducersKnow /\ ConsumerKnows

Fifo == INSTANCE MpscFifo WITH linking <- {n \in Nodes : ppc[n] = "link"}

\* The queue is a FIFO: elements come out once, in the order of their push_back(),
\* and try_pop_front_exclusive() returns NULL only if the queue is empty or a
\* push_back() is running.
IsFifo == Fifo!FifoSpec

\* pop_front_exclusive() spins no longer than the push_back() calls it waits for.
PopReturns == cpc # "idle" ~> cpc = "idle"

\* An element is never stuck in the queue: as long as the consumer keeps calling,
\* it is popped, though each call may find a push_back() in progress.
PushedIsPopped ==
    []<>(cpc = "next") => \A n \in Nodes : ppc[n] = "link" ~> n \notin owned

=============================================================================
