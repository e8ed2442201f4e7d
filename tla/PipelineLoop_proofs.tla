------------------------ MODULE PipelineLoop_proofs ------------------------
(***************************************************************************)
(* The pipeline task scheduler, for any number of user threads and frame   *)
(* threads and any bounds: mutual exclusion, tasks are run once and waited *)
(* for safely, and pending tasks are counted exactly.  And the lock-free   *)
(* queue the tasks come through, for any set of nodes.                     *)
(***************************************************************************)
EXTENDS PipelineLoop, MpscQueue, TLAPS

-----------------------------------------------------------------------------
(***************************************************************************)
(* The lock-free queue is a FIFO, for any set of nodes.                    *)
(***************************************************************************)
\* The list is a function on positions whose values are cells.
LEMMA ListType ==
  ASSUME QueueOK
  PROVE  /\ Length \in Nat /\ List = [i \in 1..Length |-> List[i]]
         /\ \A i \in 1..Length : List[i] \in Cells
<1>1. Len(queue) \in Nat /\ DOMAIN queue = 1..Len(queue) /\ stub_at \in 0..(Len(queue) + 1)
      /\ \A i \in 1..Len(queue) : queue[i] \in Nodes
  BY SMT, Z3 DEF QueueOK
<1> QED BY <1>1, SMT, Z3 DEF Length, List, Cells

\* Swapping the tail puts the cell at the end of the list.
LEMMA SwapAppends ==
  ASSUME QueueOK, NEW c \in Cells, c = Stub => stub_at = 0, Swap(c)
  PROVE  /\ queue' \in Seq(Nodes) /\ stub_at' \in 0..(Len(queue') + 1) /\ Length' = Length + 1
         /\ List' = [i \in 1..(Length + 1) |-> IF i <= Length THEN List[i] ELSE c]
<1>1. Len(queue) \in Nat /\ queue \in Seq(Nodes) /\ stub_at \in 0..(Len(queue) + 1)
  BY SMT, Z3 DEF QueueOK
<1>2. CASE c = Stub
  <2>1. queue' = queue /\ stub_at' = Len(queue) + 1 /\ stub_at = 0 BY <1>2, Zenon DEF Swap
  <2> QED BY <1>1, <1>2, <2>1, SMT, Z3 DEF Length, List
<1>3. CASE c # Stub
  <2>1. queue' = Append(queue, c) /\ stub_at' = stub_at /\ c \in Nodes BY <1>3, Zenon DEF Swap, Cells
  <2>2. /\ queue' \in Seq(Nodes) /\ Len(queue') = Len(queue) + 1
        /\ \A i \in 1..Len(queue) : queue'[i] = queue[i]
        /\ queue'[Len(queue) + 1] = c
    BY <1>1, <2>1, SMT, Z3
  <2>3. Length' = Length + 1 BY <1>1, <2>1, <2>2, SMT, Z3 DEF Length
  <2>4. List' = [i \in 1..(Length + 1) |-> IF stub_at = 0 \/ i < stub_at THEN queue'[i]
                                           ELSE IF i = stub_at THEN Stub ELSE queue'[i - 1]]
    BY <2>1, <2>3, Zenon DEF List
  <2>5. ASSUME NEW i \in 1..(Length + 1)
        PROVE  (IF stub_at = 0 \/ i < stub_at THEN queue'[i]
                ELSE IF i = stub_at THEN Stub ELSE queue'[i - 1])
               = IF i <= Length THEN List[i] ELSE c
    <3>1. CASE stub_at = 0
      <4>1. Length = Len(queue) BY <1>1, <3>1, SMT, Z3 DEF Length
      <4> QED BY <1>1, <2>2, <3>1, <4>1, SMT, Z3 DEF List
    <3>2. CASE stub_at # 0
      <4>1. Length = Len(queue) + 1 BY <1>1, <3>2, Zenon DEF Length
      <4>2. CASE i <= Length
        <5>1. i < stub_at => i \in 1..Len(queue) BY <1>1, <4>1, SMT, Z3
        <5>2. i > stub_at => i - 1 \in 1..Len(queue) BY <1>1, <4>1, <4>2, <3>2, SMT, Z3
        <5>3. List[i] = IF i < stub_at THEN queue[i] ELSE IF i = stub_at THEN Stub ELSE queue[i - 1]
          BY <3>2, <4>2, <1>1, <4>1, SMT, Z3 DEF List
        <5> QED BY <1>1, <2>2, <3>2, <4>2, <5>1, <5>2, <5>3, SMT, Z3
      <4>3. CASE i > Length
        <5>1. i = Len(queue) + 2 /\ i - 1 = Len(queue) + 1 /\ i > stub_at BY <1>1, <4>1, <4>3, SMT, Z3
        <5> QED BY <1>1, <2>2, <3>2, <4>3, <5>1, <4>1, SMT, Z3
      <4> QED BY <1>1, <4>1, <4>2, <4>3, SMT, Z3
    <3> QED BY <3>1, <3>2, Zenon
  <2>6. stub_at' \in 0..(Len(queue') + 1) BY <1>1, <2>1, <2>2, SMT, Z3
  <2> QED BY <2>2, <2>3, <2>4, <2>5, <2>6, Zenon
<1> QED BY <1>2, <1>3, Zenon

\* Skipping the stub, or popping a node, takes the first cell off the list.
LEMMA FirstDropped ==
  ASSUME QueueOK, ListInOrder,
         \/ head = Stub /\ UNCHANGED queue /\ stub_at' = 0
         \/ /\ head \in Nodes /\ queue' = Tail(queue)
            /\ stub_at' = IF stub_at = 0 THEN 0 ELSE stub_at - 1
  PROVE  /\ queue' \in Seq(Nodes) /\ stub_at' \in 0..(Len(queue') + 1) /\ Length' = Length - 1
         /\ List' = [i \in 1..(Length - 1) |-> List[i + 1]]
         /\ head \in Nodes => queue # <<>> /\ Head(queue) = head
         /\ \A i \in 1..Len(queue') : queue'[i] # head
<1>1. /\ Len(queue) \in Nat /\ queue \in Seq(Nodes) /\ stub_at \in 0..(Len(queue) + 1)
      /\ Length > 0 /\ head = List[1] /\ \A i \in 1..Len(queue) : queue[i] \in Nodes
  BY SMT, Z3 DEF QueueOK, ListInOrder
<1>2. CASE head = Stub /\ UNCHANGED queue /\ stub_at' = 0
  <2>1. stub_at = 1 BY <1>1, <1>2, NodesAssumption, SMT, Z3 DEF Length, List
  <2>2. Length = Len(queue) + 1 /\ Length' = Len(queue) BY <1>1, <1>2, <2>1, SMT, Z3 DEF Length
  <2>3. List' = [i \in 1..(Length - 1) |-> queue[i]] BY <1>1, <1>2, <2>2, SMT, Z3 DEF List
  <2>4. \A i \in 1..(Length - 1) : List[i + 1] = queue[i] BY <1>1, <2>1, <2>2, SMT, Z3 DEF List
  <2> QED BY <1>1, <1>2, <2>1, <2>2, <2>3, <2>4, NodesAssumption, SMT, Z3
<1>3. CASE /\ head \in Nodes /\ queue' = Tail(queue)
           /\ stub_at' = IF stub_at = 0 THEN 0 ELSE stub_at - 1
  <2>1. stub_at # 1 BY <1>1, <1>3, NodesAssumption, SMT, Z3 DEF Length, List
  <2>2. Len(queue) > 0 /\ head = queue[1] BY <1>1, <2>1, SMT, Z3 DEF Length, List
  <2>3. /\ queue' \in Seq(Nodes) /\ Len(queue') = Len(queue) - 1 /\ Head(queue) = head
        /\ \A i \in 1..(Len(queue) - 1) : queue'[i] = queue[i + 1]
    BY <1>1, <1>3, <2>2, SMT, Z3
  <2>4. Length' = Length - 1
    <3>1. CASE stub_at = 0
      <4>1. stub_at' = 0 BY <1>3, <3>1, Zenon
      <4> QED BY <1>1, <2>3, <3>1, <4>1, SMT, Z3 DEF Length
    <3>2. CASE stub_at # 0
      <4>1. stub_at' # 0 BY <1>1, <1>3, <2>1, <3>2, SMT, Z3
      <4> QED BY <1>1, <2>3, <3>2, <4>1, SMT, Z3 DEF Length
    <3> QED BY <3>1, <3>2, Zenon
  <2>5. List' = [i \in 1..(Length - 1) |-> IF stub_at' = 0 \/ i < stub_at' THEN queue'[i]
                                           ELSE IF i = stub_at' THEN Stub ELSE queue'[i - 1]]
    BY <2>4, Zenon DEF List
  <2>6. ASSUME NEW i \in 1..(Length - 1)
        PROVE  (IF stub_at' = 0 \/ i < stub_at' THEN queue'[i]
                ELSE IF i = stub_at' THEN Stub ELSE queue'[i - 1]) = List[i + 1]
    <3>1. CASE stub_at = 0
      <4>1. Length = Len(queue) /\ stub_at' = 0 BY <1>1, <1>3, <3>1, SMT, Z3 DEF Length
      <4> QED BY <1>1, <2>3, <3>1, <4>1, SMT, Z3 DEF List
    <3>2. CASE stub_at # 0
      <4>1. Length = Len(queue) + 1 /\ stub_at' = stub_at - 1 /\ stub_at' # 0
        BY <1>1, <1>3, <2>1, <3>2, SMT, Z3 DEF Length
      <4>2. i < stub_at' => i \in 1..(Len(queue) - 1) BY <1>1, <4>1, SMT, Z3
      <4>3. i > stub_at' => i - 1 \in 1..(Len(queue) - 1) BY <1>1, <4>1, <2>1, <3>2, SMT, Z3
      <4>4. List[i + 1] = IF i + 1 < stub_at THEN queue[i + 1]
                          ELSE IF i + 1 = stub_at THEN Stub ELSE queue[i]
        BY <1>1, <3>2, <4>1, SMT, Z3 DEF List
      <4> QED BY <1>1, <2>3, <3>2, <4>1, <4>2, <4>3, <4>4, SMT, Z3
    <3> QED BY <3>1, <3>2, Zenon
  <2>7. \A i \in 1..(Len(queue) - 1) : queue[i + 1] # queue[1]
    <3> TAKE i \in 1..(Len(queue) - 1)
    <3> DEFINE k == IF stub_at = 0 \/ i + 1 < stub_at THEN i + 1 ELSE i + 2
    <3>1. k \in 1..Length /\ k # 1 /\ 1 \in 1..Length BY <1>1, <2>1, SMT, Z3 DEF Length
    <3>2. List[k] = queue[i + 1] /\ List[1] = queue[1] BY <1>1, <2>1, <2>2, <3>1, SMT, Z3 DEF List, Length
    <3> QED BY <3>1, <3>2, Zenon DEF ListInOrder
  <2>8. stub_at' \in 0..(Len(queue') + 1) 
    <3>1. stub_at' = 0 \/ (stub_at' = stub_at - 1 /\ stub_at # 0) BY <1>3, Zenon
    <3> QED BY <1>1, <2>2, <2>3, <3>1, SMT, Z3
  <2>9. \A i \in 1..Len(queue') : queue'[i] # head BY <2>2, <2>3, <2>7, Zenon
  <2>10. queue # <<>> BY <1>1, <2>2, SMT, Z3
  <2> QED BY <2>3, <2>4, <2>5, <2>6, <2>8, <2>9, <2>10, Zenon
<1> QED BY <1>2, <1>3, Zenon

\* The steps that leave the list alone keep the invariant.
LEMMA PlainSteps ==
  ASSUME Inv, \/ \E n \in Nodes : ChangeOwnerPush(n) \/ PushReset(n)
              \/ PopBegin \/ PopLoadNext \/ PopCheckEmpty \/ WaitNext \/ PopCheckTail \/ StubReset
  PROVE  Inv'
<1> USE NodesAssumption
<1>1. UNCHANGED <<queue, stub_at>>
  BY Zenon DEF ChangeOwnerPush, PushReset, PopBegin, PopLoadNext, PopCheckEmpty, WaitNext, PopCheckTail,
         StubReset, shared, history
<1>2. Length' = Length /\ List' = List BY <1>1, Zenon DEF Length, List
<1>3. /\ Length \in Nat /\ \A i \in 1..Length : List[i] \in Cells
      /\ head = List[1] /\ tail = List[Length] /\ Length > 0 /\ next[tail] = Null
  BY ListType, Zenon DEF Inv, ListInOrder
<1>4. head \in Nodes => head \in owned BY <1>3, SMT, Z3 DEF Inv, OwnersMatch
<1>5. stub_at = 0 => \A i \in 1..Length : List[i] \in Nodes
  BY SMT, Z3 DEF Inv, QueueOK, Length, List
<1>6. /\ tail # head => Length > 1
      /\ tail = head /\ head \in Nodes => stub_at = 0
  <2>1. tail # head => Length > 1 BY <1>3, SMT, Z3
  <2>2. ASSUME tail = head, head \in Nodes, stub_at # 0 PROVE FALSE
    <3>0. 1 \in 1..Length /\ Length \in 1..Length BY <1>3, SMT, Z3
    <3>1. Length = 1 BY <1>3, <2>2, <3>0, ZenonT(60) DEF Inv, ListInOrder
    <3>2. Len(queue) = 0 /\ stub_at = 1 BY <2>2, <3>1, SMT, Z3 DEF Inv, QueueOK, Length
    <3> QED BY <1>3, <2>2, <3>1, <3>2, SMT, Z3 DEF List
  <2> QED BY <2>1, <2>2, Zenon
<1> USE DEF Inv, QueueOK, Cells, shared, history, producers, consumer
<1>7. ASSUME NEW n \in Nodes, ChangeOwnerPush(n) PROVE Inv'
  <2>1. QueueOK' BY <1>1, <1>2, <1>3, <1>7 DEF ChangeOwnerPush, ConsumerLabels, MaxTries
  <2>2. ListInOrder'
    BY <1>1, <1>2, <1>3, <1>7, SMT, Z3 DEF ProducersKnow, ConsumerKnows, ChangeOwnerPush, ListInOrder, Unlinked
  <2>3. OwnersMatch' BY <1>1, <1>2, <1>3, <1>7, Zenon DEF ConsumerKnows, ChangeOwnerPush, OwnersMatch
  <2>4. ProducersKnow' BY <1>1, <1>2, <1>3, <1>7, SMT, Z3 DEF ChangeOwnerPush, ProducersKnow, OwnersMatch
  <2>5. ConsumerKnows'
    BY <1>1, <1>2, <1>3, <1>7, Zenon DEF ListInOrder, ChangeOwnerPush, ConsumerKnows, Unlinked
  <2> QED BY <2>1, <2>2, <2>3, <2>4, <2>5, Zenon DEF Inv
<1>8. ASSUME NEW n \in Nodes, PushReset(n) PROVE Inv'
  <2>1. QueueOK' BY <1>1, <1>2, <1>3, <1>8 DEF PushReset, ConsumerLabels, MaxTries
  <2>2. ListInOrder'
    BY <1>1, <1>2, <1>3, <1>8, SMT, Z3 DEF ProducersKnow, ConsumerKnows, PushReset, ListInOrder, Unlinked
  <2>3. OwnersMatch' BY <1>1, <1>2, <1>3, <1>8, Zenon DEF ConsumerKnows, PushReset, OwnersMatch
  <2>4. ProducersKnow' BY <1>1, <1>2, <1>3, <1>8, SMT, Z3 DEF PushReset, ProducersKnow
  <2>5. ConsumerKnows'
    BY <1>1, <1>2, <1>3, <1>8, SMT, Z3 DEF ListInOrder, PushReset, ConsumerKnows, Unlinked, ProducersKnow
  <2> QED BY <2>1, <2>2, <2>3, <2>4, <2>5, Zenon DEF Inv
<1>9. ASSUME PopBegin PROVE Inv'
  <2>1. QueueOK' BY <1>1, <1>2, <1>3, <1>9, Zenon DEF PopBegin, ConsumerLabels, MaxTries
  <2>2. ListInOrder'
    BY <1>1, <1>2, <1>3, <1>9 DEF ProducersKnow, ConsumerKnows, PopBegin, ListInOrder, Unlinked
  <2>3. OwnersMatch' BY <1>1, <1>2, <1>3, <1>9, Zenon DEF ConsumerKnows, PopBegin, OwnersMatch
  <2>4. ProducersKnow' BY <1>1, <1>2, <1>3, <1>9, Zenon DEF PopBegin, ProducersKnow
  <2>5. ConsumerKnows'
    BY <1>1, <1>2, <1>3, <1>9, Zenon DEF ListInOrder, PopBegin, ConsumerKnows, Unlinked
  <2> QED BY <2>1, <2>2, <2>3, <2>4, <2>5, Zenon DEF Inv
<1>10. ASSUME PopLoadNext PROVE Inv'
  <2>1. QueueOK'
    BY <1>1, <1>2, <1>3, <1>10, Zenon DEF PopLoadNext, PopLoaded, ConsumerLabels, MaxTries, ConsumerKnows
  <2>2. ListInOrder'
    BY <1>1, <1>2, <1>3, <1>10 DEF ProducersKnow, ConsumerKnows, PopLoadNext, ListInOrder, PopLoaded, Unlinked
  <2>3. OwnersMatch'
    BY <1>1, <1>2, <1>3, <1>10, <1>4, Zenon DEF ConsumerKnows, PopLoadNext, OwnersMatch, PopLoaded
  <2>4. ProducersKnow' BY <1>1, <1>2, <1>3, <1>10, Zenon DEF PopLoadNext, ProducersKnow, PopLoaded
  <2>5. ConsumerKnows'
    BY <1>1, <1>2, <1>3, <1>10, Zenon DEF ListInOrder, PopLoadNext, ConsumerKnows, PopLoaded, Unlinked
  <2> QED BY <2>1, <2>2, <2>3, <2>4, <2>5, Zenon DEF Inv
<1>11. ASSUME PopCheckEmpty PROVE Inv'
  <2>1. QueueOK' BY <1>1, <1>2, <1>3, <1>11, SMT, Z3 DEF PopCheckEmpty, Return, ConsumerLabels, MaxTries
  <2>2. ListInOrder'
    BY <1>1, <1>2, <1>3, <1>11 DEF ProducersKnow, ConsumerKnows, PopCheckEmpty, ListInOrder, Return, Unlinked
  <2>3. OwnersMatch'
    BY <1>1, <1>2, <1>3, <1>11, Zenon DEF ConsumerKnows, PopCheckEmpty, OwnersMatch, Return
  <2>4. ProducersKnow' BY <1>1, <1>2, <1>3, <1>11, Zenon DEF PopCheckEmpty, ProducersKnow, Return
  <2>5. ConsumerKnows'
    BY <1>1, <1>2, <1>3, <1>11, <1>6, Zenon DEF ListInOrder, PopCheckEmpty, ConsumerKnows, Return, Unlinked
  <2> QED BY <2>1, <2>2, <2>3, <2>4, <2>5, Zenon DEF Inv
<1>12. ASSUME WaitNext PROVE Inv'
  <2>1. QueueOK'
    BY <1>1, <1>2, <1>3, <1>12, SMT, Z3 DEF WaitNext, Return, PopLoaded, ConsumerLabels, MaxTries, ConsumerKnows
  <2>2. ListInOrder'
    BY <1>1, <1>2, <1>3, <1>12 DEF ProducersKnow, ConsumerKnows, WaitNext, ListInOrder, Return, PopLoaded, Unlinked
  <2>3. OwnersMatch'
    BY <1>1, <1>2, <1>3, <1>12, <1>4, Zenon DEF ConsumerKnows, WaitNext, OwnersMatch, Return, PopLoaded
  <2>4. ProducersKnow' BY <1>1, <1>2, <1>3, <1>12 DEF WaitNext, ProducersKnow, Return, PopLoaded
  <2>5. ConsumerKnows'
    BY <1>1, <1>2, <1>3, <1>12, Zenon DEF ListInOrder, WaitNext, ConsumerKnows, Return, PopLoaded, Unlinked
  <2> QED BY <2>1, <2>2, <2>3, <2>4, <2>5, Zenon DEF Inv
<1>13. ASSUME PopCheckTail PROVE Inv'
  <2>1. QueueOK' BY <1>1, <1>2, <1>3, <1>13, Zenon DEF PopCheckTail, ConsumerLabels, MaxTries
  <2>2. ListInOrder'
    BY <1>1, <1>2, <1>3, <1>13 DEF ProducersKnow, ConsumerKnows, PopCheckTail, ListInOrder, Unlinked
  <2>3. OwnersMatch' BY <1>1, <1>2, <1>3, <1>13, Zenon DEF ConsumerKnows, PopCheckTail, OwnersMatch
  <2>4. ProducersKnow' BY <1>1, <1>2, <1>3, <1>13, Zenon DEF PopCheckTail, ProducersKnow
  <2>5. ConsumerKnows'
    BY <1>1, <1>2, <1>3, <1>13, <1>6, Zenon DEF ListInOrder, PopCheckTail, ConsumerKnows, Unlinked
  <2> QED BY <2>1, <2>2, <2>3, <2>4, <2>5, Zenon DEF Inv
<1>14. ASSUME StubReset PROVE Inv'
  <2>1. QueueOK' BY <1>1, <1>2, <1>3, <1>14, Zenon DEF StubReset, ConsumerLabels, MaxTries
  <2>2. ListInOrder'
    BY <1>1, <1>2, <1>3, <1>14, <1>5, SMT, Z3 DEF ProducersKnow, ConsumerKnows, StubReset, ListInOrder, Unlinked
  <2>3. OwnersMatch' BY <1>1, <1>2, <1>3, <1>14, Zenon DEF ConsumerKnows, StubReset, OwnersMatch
  <2>4. ProducersKnow' BY <1>1, <1>2, <1>3, <1>14 DEF StubReset, ProducersKnow
  <2>5. ConsumerKnows'
    BY <1>1, <1>2, <1>3, <1>14, Zenon DEF ListInOrder, StubReset, ConsumerKnows, Unlinked
  <2> QED BY <2>1, <2>2, <2>3, <2>4, <2>5, Zenon DEF Inv
<1> QED BY <1>7, <1>8, <1>9, <1>10, <1>11, <1>12, <1>13, <1>14, Zenon

\* Swapping the tail keeps the list in order, with a gap in front of the new cell.
LEMMA SwapKeepsOrder ==
  ASSUME Inv, NEW c \in Cells, Swap(c), c = Stub => stub_at = 0, next[c] = Null,
         \A i \in 1..Length : List[i] # c, Unlinked(c)',
         \A d \in Cells \ {c} : Unlinked(d)' <=> Unlinked(d)
  PROVE  ListInOrder'
<1>1. /\ Length' = Length + 1
      /\ List' = [i \in 1..(Length + 1) |-> IF i <= Length THEN List[i] ELSE c]
  BY SwapAppends, Zenon DEF Inv
<1>2. /\ Length \in Nat /\ \A i \in 1..Length : List[i] \in Cells
      /\ head = List[1] /\ tail = List[Length] /\ Length > 0 /\ next[tail] = Null
  BY ListType, Zenon DEF Inv, ListInOrder
<1>3. \A i \in 1..Length : List'[i] = List[i] BY <1>1, <1>2, SMT, Z3
<1>4. List'[Length + 1] = c BY <1>1, <1>2, SMT, Z3
<1>5. tail' = c /\ head' = head /\ next' = next /\ prev' = [prev EXCEPT ![c] = tail] BY Zenon DEF Swap
<1>6. Length' > 0 /\ head' = List'[1] /\ tail' = List'[Length'] /\ next'[tail'] = Null
  BY <1>1, <1>2, <1>3, <1>4, <1>5, SMT, Z3
<1>7. \A i, j \in 1..Length' : List'[i] = List'[j] => i = j
  BY <1>1, <1>2, <1>3, <1>4, SMT, Z3 DEF Inv, ListInOrder
<1>8. ASSUME NEW i \in 1..(Length' - 1)
      PROVE  IF Unlinked(List[i + 1])'
             THEN next'[List'[i]] = Null /\ prev'[List'[i + 1]] = List'[i]
             ELSE next'[List'[i]] = List'[i + 1]
  <2>1. CASE i = Length
    <3>1. List'[i] = tail /\ List'[i + 1] = c BY <1>2, <1>3, <1>4, <2>1, SMT, Z3
    <3> QED BY <1>2, <1>5, <3>1, Zenon DEF Inv, QueueOK
  <2>2. CASE i < Length
    <3>1. i \in 1..(Length - 1) /\ i \in 1..Length /\ i + 1 \in 1..Length BY <1>1, <1>2, <2>2, SMT, Z3
    <3>2. List'[i] = List[i] /\ List'[i + 1] = List[i + 1] BY <1>3, <3>1, Zenon
    <3>3. List[i + 1] \in Cells \ {c} /\ List[i] # c BY <1>2, <3>1, Zenon
    <3>4. Unlinked(List[i + 1])' <=> Unlinked(List[i + 1]) BY <3>2, <3>3, Zenon
    <3> QED BY <1>5, <3>1, <3>2, <3>3, <3>4, Zenon DEF Inv, ListInOrder, QueueOK
  <2> QED BY <1>1, <1>2, <2>1, <2>2, SMT, Z3
<1> QED BY <1>6, <1>7, <1>8, Zenon DEF ListInOrder

\* Linking a cell closes the gap in front of it and no other.
LEMMA LinkKeepsOrder ==
  ASSUME Inv, NEW c \in Cells, Link(c), Unlinked(c), ~Unlinked(c)',
         NEW k \in 2..Length, List[k] = c,
         \A d \in Cells \ {c} : Unlinked(d)' <=> Unlinked(d)
  PROVE  ListInOrder'
<1>1. Length' = Length /\ List' = List BY Zenon DEF Link, Length, List, history
<1>2. /\ Length \in Nat /\ \A i \in 1..Length : List[i] \in Cells
      /\ head = List[1] /\ tail = List[Length] /\ Length > 0 /\ next[tail] = Null
  BY ListType, Zenon DEF Inv, ListInOrder
<1>3. k - 1 \in 1..(Length - 1) /\ k - 1 \in 1..Length /\ (k - 1) + 1 = k BY <1>2, SMT, Z3
<1>4. prev[c] = List[k - 1] BY <1>3, Zenon DEF Inv, ListInOrder
<1>5. /\ next' = [next EXCEPT ![List[k - 1]] = c] /\ prev' = [prev EXCEPT ![c] = Null]
      /\ tail' = tail /\ head' = head
  BY <1>4, Zenon DEF Link
<1>6. \A i, j \in 1..Length : List[i] = List[j] => i = j BY Zenon DEF Inv, ListInOrder
<1>7. tail # List[k - 1] BY <1>2, <1>3, <1>6, SMT, Z3
<1>8. next'[tail'] = Null BY <1>2, <1>5, <1>7, Zenon DEF Inv, QueueOK
<1>9. ASSUME NEW i \in 1..(Length' - 1)
      PROVE  IF Unlinked(List[i + 1])'
             THEN next'[List'[i]] = Null /\ prev'[List'[i + 1]] = List'[i]
             ELSE next'[List'[i]] = List'[i + 1]
  <2>1. CASE i = k - 1
    <3>1. i + 1 = k BY <1>3, <2>1, Zenon
    <3> QED BY <1>1, <1>2, <1>3, <1>5, <2>1, <3>1, Zenon DEF Inv, QueueOK
  <2>2. CASE i # k - 1
    <3>1. /\ i \in 1..(Length - 1) /\ i \in 1..Length /\ i + 1 \in 1..Length
          /\ i + 1 # k /\ k \in 1..Length
      BY <1>1, <1>2, <2>2, SMT, Z3
    <3>2. List[i] # List[k - 1] /\ List[i + 1] # c BY <1>3, <1>6, <2>2, <3>1, Zenon
    <3>3. Unlinked(List[i + 1])' <=> Unlinked(List[i + 1]) BY <1>1, <1>2, <3>1, <3>2, Zenon
    <3> QED BY <1>1, <1>2, <1>5, <3>1, <3>2, <3>3, Zenon DEF Inv, ListInOrder, QueueOK
  <2> QED BY <2>1, <2>2, Zenon
<1> QED BY <1>1, <1>2, <1>5, <1>6, <1>8, <1>9, Zenon DEF ListInOrder

\* Taking the first cell off keeps the rest of the list in order.
LEMMA DropKeepsOrder ==
  ASSUME Inv, Length > 1, Length' = Length - 1,
         List' = [i \in 1..(Length - 1) |-> List[i + 1]], head' = List[2],
         UNCHANGED <<next, tail, prev>>, \A d \in Cells : Unlinked(d)' <=> Unlinked(d)
  PROVE  ListInOrder'
<1>1. /\ Length \in Nat /\ \A i \in 1..Length : List[i] \in Cells
      /\ tail = List[Length] /\ next[tail] = Null
  BY ListType, Zenon DEF Inv, ListInOrder
<1>2. \A i \in 1..Length' : List'[i] = List[i + 1] /\ i + 1 \in 1..Length BY <1>1, SMT, Z3
<1>3. Length' > 0 /\ head' = List'[1] /\ tail' = List'[Length'] /\ next'[tail'] = Null
  BY <1>1, <1>2, SMT, Z3
<1>4. ASSUME NEW i \in 1..Length', NEW j \in 1..Length', List'[i] = List'[j] PROVE i = j
  <2>1. List[i + 1] = List[j + 1] /\ i + 1 \in 1..Length /\ j + 1 \in 1..Length BY <1>2, <1>4, Zenon
  <2>2. i + 1 = j + 1 BY <2>1, Zenon DEF Inv, ListInOrder
  <2> QED BY <1>1, <2>2, SMT, Z3
<1>5. ASSUME NEW i \in 1..(Length' - 1)
      PROVE  IF Unlinked(List[i + 1])'
             THEN next'[List'[i]] = Null /\ prev'[List'[i + 1]] = List'[i]
             ELSE next'[List'[i]] = List'[i + 1]
  <2>1. /\ i \in 1..Length' /\ i + 1 \in 1..Length' /\ i + 1 \in 1..(Length - 1)
        /\ (i + 1) + 1 \in 1..Length
    BY <1>1, SMT, Z3
  <2>2. List'[i] = List[i + 1] /\ List'[i + 1] = List[(i + 1) + 1] BY <1>2, <2>1, Zenon
  <2>3. Unlinked(List[i + 1])' <=> Unlinked(List[(i + 1) + 1]) BY <1>1, <2>1, <2>2, Zenon
  <2> QED BY <2>1, <2>2, <2>3, Zenon DEF Inv, ListInOrder
<1> QED BY <1>3, <1>4, <1>5, ZenonT(60) DEF ListInOrder

\* The tail swap of a producer keeps the invariant: its node is the new last
\* cell.
LEMMA PushSwapKeeps ==
  ASSUME Inv, NEW n \in Nodes, PushSwap(n)
  PROVE  Inv'
<1> USE NodesAssumption
<1>1. n \in Cells /\ n # Stub BY Zenon DEF Cells
<1>2. /\ Swap(n) /\ ppc[n] = "swap" /\ ppc' = [ppc EXCEPT ![n] = "link"]
      /\ UNCHANGED <<owned, cpc, can_spin, chead, cnext, tries, result>>
  BY Zenon DEF PushSwap, consumer
<1>3. next[n] = Null /\ \A i \in 1..Length : List[i] # n BY <1>2, Zenon DEF Inv, ProducersKnow
<1>4. Unlinked(n)' /\ \A d \in Cells \ {n} : Unlinked(d)' <=> Unlinked(d)
  BY <1>1, <1>2, Zenon DEF Unlinked, Inv, QueueOK, Cells
<1>5. ListInOrder' BY <1>1, <1>2, <1>3, <1>4, SwapKeepsOrder, Zenon
<1>6. /\ queue' \in Seq(Nodes) /\ stub_at' \in 0..(Len(queue') + 1) /\ Length' = Length + 1
      /\ List' = [i \in 1..(Length + 1) |-> IF i <= Length THEN List[i] ELSE n]
  BY <1>1, <1>2, SwapAppends, Zenon DEF Inv
<1>7. Length \in Nat /\ Length > 0 /\ head = List[1] BY ListType, Zenon DEF Inv, ListInOrder
<1>8. List'[Length + 1] = n /\ \A i \in 1..Length : List'[i] = List[i] BY <1>6, <1>7, SMT, Z3
<1>9. \A i \in 1..(Length + 1) : i = Length + 1 \/ i \in 1..Length BY <1>7, SMT, Z3
<1>10. prev' = [prev EXCEPT ![n] = tail] /\ tail' = n /\ UNCHANGED <<next, head, stub_at>>
  BY <1>1, <1>2, Zenon DEF Swap
<1>11. QueueOK' BY <1>1, <1>2, <1>6, <1>10, Zenon DEF Inv, QueueOK
<1>12. OwnersMatch'
  <2>1. \A m \in Nodes : (\E i \in 1..Length' : List'[i] = m) <=>
                         m = n \/ \E i \in 1..Length : List[i] = m
    BY <1>6, <1>7, <1>8, <1>9, SMT, Z3
  <2> QED BY <1>2, <2>1, Zenon DEF Inv, OwnersMatch, QueueOK
<1>13. ProducersKnow'
  <2> SUFFICES ASSUME NEW m \in Nodes
               PROVE  /\ ppc'[m] \in {"reset", "swap"} => \A i \in 1..Length' : List'[i] # m
                      /\ ppc'[m] = "swap" => next'[m] = Null
                      /\ ppc'[m] = "link" => \E i \in 2..Length' : List'[i] = m
    BY Zenon DEF ProducersKnow
  <2>1. CASE m = n
    <3>1. ppc'[m] = "link" BY <1>2, <2>1, Zenon DEF Inv, QueueOK
    <3>2. Length + 1 \in 2..Length' BY <1>6, <1>7, SMT, Z3
    <3> QED BY <1>8, <2>1, <3>1, <3>2, Zenon
  <2>2. CASE m # n
    <3>1. ppc'[m] = ppc[m] BY <1>2, <2>2, Zenon DEF Inv, QueueOK
    <3>2. ppc[m] \in {"reset", "swap"} => \A i \in 1..Length' : List'[i] # m
      BY <1>6, <1>8, <1>9, <2>2, Zenon DEF Inv, ProducersKnow
    <3>3. ppc[m] = "link" => \E i \in 2..Length' : List'[i] = m
      <4>1. 2..Length \subseteq 2..Length' /\ 2..Length \subseteq 1..Length BY <1>6, <1>7, SMT, Z3
      <4> QED BY <1>8, <4>1, Zenon DEF Inv, ProducersKnow
    <3> QED BY <1>10, <3>1, <3>2, <3>3, Zenon DEF Inv, ProducersKnow
  <2> QED BY <2>1, <2>2, Zenon
<1>14. ConsumerKnows'
  <2>1. head # n /\ head \in Cells BY <1>3, <1>7, SMT, Z3 DEF Inv, QueueOK
  <2>2. ~Unlinked(head)' BY <1>4, <1>10, <2>1, Zenon DEF Inv, ConsumerKnows
  <2> QED BY <1>2, <1>6, <1>7, <1>10, <2>2, SMT, Z3 DEF Inv, ConsumerKnows
<1> QED BY <1>5, <1>11, <1>12, <1>13, <1>14, Zenon DEF Inv

\* So does the tail swap by which the consumer puts the stub back.
LEMMA StubSwapKeeps ==
  ASSUME Inv, StubSwap
  PROVE  Inv'
<1> USE NodesAssumption
<1>1. Stub \in Cells BY Zenon DEF Cells
<1>2. /\ Swap(Stub) /\ cpc = "stub_swap" /\ cpc' = "stub_link"
      /\ UNCHANGED <<ppc, owned, can_spin, chead, cnext, tries, result>>
  BY Zenon DEF StubSwap, producers
<1>3. stub_at = 0 /\ next[Stub] = Null /\ chead \in Nodes /\ chead = head
  BY <1>2, Zenon DEF Inv, ConsumerKnows
<1>4. Len(queue) \in Nat /\ \A i \in 1..Len(queue) : queue[i] \in Nodes BY SMT, Z3 DEF Inv, QueueOK
<1>5. Length = Len(queue) /\ \A i \in 1..Length : List[i] \in Nodes /\ List[i] # Stub
  BY <1>3, <1>4, SMT, Z3 DEF Length, List
<1>6. Unlinked(Stub)' /\ \A d \in Cells \ {Stub} : Unlinked(d)' <=> Unlinked(d)
  BY <1>2, Zenon DEF Unlinked
<1>7. ListInOrder' BY <1>1, <1>2, <1>3, <1>5, <1>6, SwapKeepsOrder, Zenon
<1>8. /\ queue' \in Seq(Nodes) /\ stub_at' \in 0..(Len(queue') + 1) /\ Length' = Length + 1
      /\ List' = [i \in 1..(Length + 1) |-> IF i <= Length THEN List[i] ELSE Stub]
  BY <1>1, <1>2, <1>3, SwapAppends, Zenon DEF Inv
<1>9. Length \in Nat /\ Length > 0 BY ListType, Zenon DEF Inv, ListInOrder
<1>10. List'[Length + 1] = Stub /\ \A i \in 1..Length : List'[i] = List[i] BY <1>8, <1>9, SMT, Z3
<1>11. \A i \in 1..(Length + 1) : i = Length + 1 \/ i \in 1..Length BY <1>9, SMT, Z3
<1>12. /\ prev' = [prev EXCEPT ![Stub] = tail] /\ tail' = Stub /\ stub_at' = Len(queue) + 1
       /\ UNCHANGED <<next, head, queue>>
  BY <1>2, Zenon DEF Swap
<1>13. QueueOK' BY <1>1, <1>2, <1>8, <1>12, Zenon DEF Inv, QueueOK, ConsumerLabels
<1>14. OwnersMatch'
  <2>1. \A m \in Nodes : (\E i \in 1..Length' : List'[i] = m) <=> \E i \in 1..Length : List[i] = m
    BY <1>8, <1>9, <1>10, <1>11, SMT, Z3
  <2> QED BY <1>2, <2>1, Zenon DEF Inv, OwnersMatch
<1>15. ProducersKnow'
  <2> SUFFICES ASSUME NEW m \in Nodes
               PROVE  /\ ppc'[m] \in {"reset", "swap"} => \A i \in 1..Length' : List'[i] # m
                      /\ ppc'[m] = "swap" => next'[m] = Null
                      /\ ppc'[m] = "link" => \E i \in 2..Length' : List'[i] = m
    BY Zenon DEF ProducersKnow
  <2>1. ppc[m] \in {"reset", "swap"} => \A i \in 1..Length' : List'[i] # m
    BY <1>8, <1>10, <1>11, SMT, Z3 DEF Inv, ProducersKnow
  <2>2. ppc[m] = "link" => \E i \in 2..Length' : List'[i] = m
    <3>1. 2..Length \subseteq 2..Length' /\ 2..Length \subseteq 1..Length BY <1>8, <1>9, SMT, Z3
    <3> QED BY <1>10, <3>1, Zenon DEF Inv, ProducersKnow
  <2> QED BY <1>2, <1>12, <2>1, <2>2, Zenon DEF Inv, ProducersKnow
<1>16. ConsumerKnows'
  <2>1. head \in Nodes /\ head # Stub /\ head \in Cells BY <1>3, Zenon DEF Cells
  <2>2. ~Unlinked(head)' BY <1>6, <1>12, <2>1, Zenon DEF Inv, ConsumerKnows
  <2> QED BY <1>2, <1>3, <1>5, <1>8, <1>9, <1>12, <2>2, SMT, Z3 DEF ConsumerKnows
<1> QED BY <1>7, <1>13, <1>14, <1>15, <1>16, Zenon DEF Inv

\* A producer that links its node closes the one gap in front of it.
LEMMA PushLinkKeeps ==
  ASSUME Inv, NEW n \in Nodes, PushLink(n)
  PROVE  Inv'
<1> USE NodesAssumption
<1>1. n \in Cells /\ n # Stub BY Zenon DEF Cells
<1>2. /\ Link(n) /\ ppc[n] = "link" /\ ppc' = [ppc EXCEPT ![n] = "out"]
      /\ UNCHANGED <<owned, cpc, can_spin, chead, cnext, tries, result>>
  BY Zenon DEF PushLink, consumer
<1>3. PICK k \in 2..Length : List[k] = n BY <1>2, Zenon DEF Inv, ProducersKnow
<1>4. /\ Unlinked(n) /\ ~Unlinked(n)'
      /\ \A d \in Cells \ {n} : Unlinked(d)' <=> Unlinked(d)
  BY <1>1, <1>2, Zenon DEF Unlinked, Inv, QueueOK, Cells
<1>5. ListInOrder' BY <1>1, <1>2, <1>3, <1>4, LinkKeepsOrder, Zenon
<1>6. /\ next' = [next EXCEPT ![prev[n]] = n] /\ prev' = [prev EXCEPT ![n] = Null]
      /\ UNCHANGED <<tail, head, queue, stub_at>>
  BY <1>2, Zenon DEF Link, history
<1>7. Length' = Length /\ List' = List BY <1>6, Zenon DEF Length, List
<1>8. /\ Length \in Nat /\ Length > 0 /\ head = List[1]
      /\ \A i \in 1..Length : List[i] \in Cells
  BY ListType, Zenon DEF Inv, ListInOrder
<1>9. k - 1 \in 1..(Length - 1) /\ k - 1 \in 1..Length /\ k \in 1..Length /\ (k - 1) + 1 = k
  BY <1>8, SMT, Z3
<1>10. prev[n] = List[k - 1] /\ next[prev[n]] = Null /\ prev[n] \in Cells
  BY <1>3, <1>4, <1>8, <1>9, SMT, Z3 DEF Inv, ListInOrder
<1>11. QueueOK' BY <1>1, <1>2, <1>6, ZenonT(60) DEF Inv, QueueOK
<1>12. OwnersMatch' BY <1>2, <1>3, <1>7, <1>9, Zenon DEF Inv, OwnersMatch, QueueOK
<1>13. ProducersKnow'
  <2>1. \A m \in Nodes : ppc'[m] = IF m = n THEN "out" ELSE ppc[m] BY <1>2, Zenon DEF Inv, QueueOK
  <2>2. \A m \in Nodes : ppc'[m] = "swap" => next'[m] = Null
    BY <1>6, <1>9, <1>10, <2>1, SMT, Z3 DEF Inv, ProducersKnow, QueueOK
  <2> QED BY <1>7, <2>1, <2>2, Zenon DEF Inv, ProducersKnow
<1>14. ConsumerKnows'
  <2>1. ~Unlinked(head)' BY <1>4, <1>6, Zenon DEF Inv, ConsumerKnows, QueueOK
  <2>2. cpc \in {"skip_stub", "advance"} => cnext = next'[chead]
    BY <1>6, <1>10, Zenon DEF Inv, ConsumerKnows, QueueOK
  <2>3. cpc = "stub_swap" => next'[Stub] = Null
    <3>1. stub_at = 0 => List[k - 1] \in Nodes BY <1>9, SMT, Z3 DEF List, Length, Inv, QueueOK
    <3>2. cpc = "stub_swap" => prev[n] # Stub BY <1>10, <3>1, Zenon DEF Inv, ConsumerKnows
    <3> QED BY <1>6, <3>2, Zenon DEF Inv, ConsumerKnows, QueueOK, Cells
  <2> QED BY <1>2, <1>6, <1>7, <2>1, <2>2, <2>3, Zenon DEF Inv, ConsumerKnows
<1> QED BY <1>5, <1>11, <1>12, <1>13, <1>14, Zenon DEF Inv

\* So does the consumer when it links the stub.
LEMMA StubLinkKeeps ==
  ASSUME Inv, StubLink
  PROVE  Inv'
<1> USE NodesAssumption
<1>1. Stub \in Cells BY Zenon DEF Cells
<1>2. /\ Link(Stub) /\ cpc = "stub_link" /\ cpc' = "wait_next"
      /\ UNCHANGED <<ppc, owned, can_spin, chead, cnext, tries, result>>
  BY Zenon DEF StubLink, producers
<1>3. stub_at > 1 /\ chead = head /\ chead \in Nodes /\ Length > 1
  BY <1>2, Zenon DEF Inv, ConsumerKnows
<1>4. stub_at \in 2..Length /\ List[stub_at] = Stub BY <1>3, SMT, Z3 DEF Length, List, Inv, QueueOK
<1>5. /\ Unlinked(Stub) /\ ~Unlinked(Stub)'
      /\ \A d \in Cells \ {Stub} : Unlinked(d)' <=> Unlinked(d)
  BY <1>2, Zenon DEF Unlinked
<1>6. ListInOrder' BY <1>1, <1>2, <1>4, <1>5, LinkKeepsOrder, Zenon
<1>7. /\ next' = [next EXCEPT ![prev[Stub]] = Stub] /\ prev' = [prev EXCEPT ![Stub] = Null]
      /\ UNCHANGED <<tail, head, queue, stub_at>>
  BY <1>2, Zenon DEF Link, history
<1>8. Length' = Length /\ List' = List BY <1>7, Zenon DEF Length, List
<1>9. /\ Length \in Nat /\ Length > 0 /\ head = List[1]
      /\ \A i \in 1..Length : List[i] \in Cells
  BY ListType, Zenon DEF Inv, ListInOrder
<1>10. /\ stub_at - 1 \in 1..(Length - 1) /\ stub_at - 1 \in 1..Length
       /\ (stub_at - 1) + 1 = stub_at
  BY <1>4, <1>9, SMT, Z3
<1>11. prev[Stub] = List[stub_at - 1] /\ prev[Stub] \in Cells
  BY <1>4, <1>5, <1>9, <1>10, Zenon DEF Inv, ListInOrder
<1>12. QueueOK' BY <1>1, <1>2, <1>7, Zenon DEF Inv, QueueOK, ConsumerLabels
<1>13. OwnersMatch' BY <1>2, <1>8, Zenon DEF Inv, OwnersMatch
<1>14. ProducersKnow'
  <2>1. \A m \in Nodes : ppc[m] = "swap" => next'[m] = Null
    BY <1>7, <1>10, <1>11, SMT, Z3 DEF Inv, ProducersKnow, QueueOK
  <2> QED BY <1>2, <1>8, <2>1, Zenon DEF Inv, ProducersKnow
<1>15. ConsumerKnows'
  <2>1. ~Unlinked(head)' BY <1>5, <1>7, Zenon DEF Inv, ConsumerKnows, QueueOK
  <2> QED BY <1>2, <1>3, <1>7, <1>8, <2>1, Zenon DEF ConsumerKnows
<1> QED BY <1>6, <1>12, <1>13, <1>14, <1>15, Zenon DEF Inv

\* A head with a next has a linked cell behind it.
LEMMA SecondCell ==
  ASSUME Inv, cpc \in {"skip_stub", "advance"}
  PROVE  /\ Length \in Nat /\ Length > 1 /\ head = List[1] /\ chead = head
         /\ cnext = List[2] /\ ~Unlinked(List[2]) /\ List[2] # head /\ List[2] \in Cells
<1>1. chead = head /\ cnext = next[head] /\ cnext # Null BY Zenon DEF Inv, ConsumerKnows
<1>2. /\ Length \in Nat /\ Length > 0 /\ head = List[1] /\ tail = List[Length] /\ next[tail] = Null
      /\ \A i \in 1..Length : List[i] \in Cells
  BY ListType, Zenon DEF Inv, ListInOrder
<1>3. Length > 1 BY <1>1, <1>2, SMT, Z3
<1>4. 1 \in 1..(Length - 1) /\ 1 + 1 = 2 /\ 1 \in 1..Length /\ 2 \in 1..Length BY <1>2, <1>3, SMT, Z3
<1>5. ~Unlinked(List[2]) /\ next[head] = List[2] BY <1>1, <1>2, <1>4, Zenon DEF Inv, ListInOrder
<1>6. List[2] # List[1] BY <1>4, SMT, Z3 DEF Inv, ListInOrder
<1> QED BY <1>1, <1>2, <1>3, <1>4, <1>5, <1>6, Zenon

\* Without its first cell, the list holds the same producers' nodes that are
\* between their swap and their link.
LEMMA DropKeepsProducers ==
  ASSUME Inv, cpc \in {"skip_stub", "advance"}, Length' = Length - 1,
         List' = [i \in 1..(Length - 1) |-> List[i + 1]], UNCHANGED <<next, ppc>>
  PROVE  ProducersKnow'
<1> USE NodesAssumption
<1> SUFFICES ASSUME NEW m \in Nodes
             PROVE  /\ ppc[m] \in {"reset", "swap"} => \A i \in 1..Length' : List'[i] # m
                    /\ ppc[m] = "swap" => next[m] = Null
                    /\ ppc[m] = "link" => \E i \in 2..Length' : List'[i] = m
  BY Zenon DEF ProducersKnow
<1>1. Length \in Nat /\ Length > 1 /\ ~Unlinked(List[2]) BY SecondCell, Zenon
<1>2. \A i \in 1..Length' : List'[i] = List[i + 1] /\ i + 1 \in 1..Length BY <1>1, SMT, Z3
<1>3. ASSUME ppc[m] = "link" PROVE \E i \in 2..Length' : List'[i] = m
  <2>1. PICK i \in 2..Length : List[i] = m BY <1>3, Zenon DEF Inv, ProducersKnow
  <2>2. i # 2 BY <1>1, <1>3, <2>1, Zenon DEF Unlinked
  <2>3. i - 1 \in 2..Length' /\ i - 1 \in 1..Length' /\ (i - 1) + 1 = i BY <1>1, <2>2, SMT, Z3
  <2>4. List'[i - 1] = m BY <1>2, <2>1, <2>3, Zenon
  <2> QED BY <2>3, <2>4, Zenon
<1> QED BY <1>2, <1>3, Zenon DEF Inv, ProducersKnow

\* Removing the stub from the beginning of the list keeps the invariant.
LEMMA PopSkipStubKeeps ==
  ASSUME Inv, PopSkipStub
  PROVE  Inv'
<1> USE NodesAssumption
<1>1. /\ cpc = "skip_stub" /\ head' = cnext /\ chead' = cnext /\ cnext' = next[cnext]
      /\ cpc' = PopLoaded(cnext, next[cnext]) /\ stub_at' = 0
      /\ UNCHANGED <<next, tail, prev, queue, ppc, owned, can_spin, tries, result>>
  BY Zenon DEF PopSkipStub, producers
<1>2. /\ Length \in Nat /\ Length > 1 /\ head = List[1] /\ chead = head
      /\ cnext = List[2] /\ ~Unlinked(List[2]) /\ List[2] # head /\ List[2] \in Cells
  BY <1>1, SecondCell, Zenon
<1>3. head = Stub BY <1>1, <1>2, Zenon DEF Inv, ConsumerKnows
<1>4. cnext \in Nodes BY <1>2, <1>3, Zenon DEF Cells
<1>5. /\ queue' \in Seq(Nodes) /\ stub_at' \in 0..(Len(queue') + 1) /\ Length' = Length - 1
      /\ List' = [i \in 1..(Length - 1) |-> List[i + 1]]
  BY <1>1, <1>3, FirstDropped, Zenon DEF Inv
<1>6. cpc' \in {"advance", "node_tail"} /\ (cpc' = "advance" => cnext' # Null)
  BY <1>1, <1>4, Zenon DEF PopLoaded
<1>7. \A d \in Cells : Unlinked(d)' <=> Unlinked(d) BY <1>1, <1>6, Zenon DEF Unlinked
<1>8. ListInOrder' BY <1>1, <1>2, <1>5, <1>7, DropKeepsOrder, Zenon
<1>9. QueueOK' BY <1>1, <1>2, <1>5, <1>6, Zenon DEF Inv, QueueOK, ConsumerLabels
<1>10. \A i \in 1..Length' : List'[i] = List[i + 1] /\ i + 1 \in 1..Length BY <1>2, <1>5, SMT, Z3
<1>11. \A i \in 1..Length : i = 1 \/ (i - 1 \in 1..Length' /\ (i - 1) + 1 = i) BY <1>2, <1>5, SMT, Z3
<1>12. OwnersMatch'
  <2>1. ASSUME NEW m \in Nodes
        PROVE  (\E i \in 1..Length' : List'[i] = m) <=> \E i \in 1..Length : List[i] = m
    <3>1. ASSUME NEW i \in 1..Length, List[i] = m PROVE \E j \in 1..Length' : List'[j] = m
      <4>1. i # 1 BY <1>2, <1>3, <3>1, ZenonT(60)
      <4>2. i - 1 \in 1..Length' /\ (i - 1) + 1 = i BY <1>11, <4>1, Zenon
      <4>3. List'[i - 1] = m BY <1>10, <3>1, <4>2, Zenon
      <4> QED BY <4>2, <4>3, Zenon
    <3> QED BY <1>10, <3>1, Zenon
  <2>2. cnext \in owned
    <3>1. 2 \in 1..Length BY <1>2, SMT, Z3
    <3> QED BY <1>2, <1>4, <3>1, Zenon DEF Inv, OwnersMatch
  <2> QED BY <1>1, <2>1, <2>2, Zenon DEF Inv, OwnersMatch
<1>13. ProducersKnow' BY <1>1, <1>5, DropKeepsProducers, Zenon
<1>14. ConsumerKnows'
  <2>1. ~Unlinked(head)' BY <1>1, <1>2, <1>7, Zenon
  <2> QED BY <1>1, <1>4, <1>6, <2>1, Zenon DEF ConsumerKnows
<1> QED BY <1>8, <1>9, <1>12, <1>13, <1>14, Zenon DEF Inv

\* So does removing the node that pop_front() returns.
LEMMA PopAdvanceKeeps ==
  ASSUME Inv, PopAdvance
  PROVE  Inv'
<1> USE NodesAssumption
<1>1. /\ cpc = "advance" /\ head' = cnext /\ queue' = Tail(queue)
      /\ stub_at' = (IF stub_at = 0 THEN 0 ELSE stub_at - 1) /\ owned' = owned \ {chead}
      /\ cpc' = "idle" /\ chead' = Null /\ cnext' = Null /\ tries' = 0 /\ result' = chead
      /\ UNCHANGED <<next, tail, prev, ppc, can_spin>>
  BY Zenon DEF PopAdvance, Advance, Return
<1>2. /\ Length \in Nat /\ Length > 1 /\ head = List[1] /\ chead = head
      /\ cnext = List[2] /\ ~Unlinked(List[2]) /\ List[2] # head /\ List[2] \in Cells
  BY <1>1, SecondCell, Zenon
<1>3. head \in Nodes BY <1>1, <1>2, Zenon DEF Inv, ConsumerKnows
<1>4. /\ queue' \in Seq(Nodes) /\ stub_at' \in 0..(Len(queue') + 1) /\ Length' = Length - 1
      /\ List' = [i \in 1..(Length - 1) |-> List[i + 1]]
  BY <1>1, <1>3, FirstDropped, Zenon DEF Inv
<1>5. \A d \in Cells : Unlinked(d)' <=> Unlinked(d) BY <1>1, Zenon DEF Unlinked
<1>6. ListInOrder' BY <1>1, <1>2, <1>4, <1>5, DropKeepsOrder, Zenon
<1>7. QueueOK' BY <1>1, <1>2, <1>3, <1>4, SMT, Z3 DEF Inv, QueueOK, ConsumerLabels, MaxTries
<1>8. \A i \in 1..Length' : List'[i] = List[i + 1] /\ i + 1 \in 1..Length /\ i + 1 # 1
  BY <1>2, <1>4, SMT, Z3
<1>9. \A i \in 1..Length : i = 1 \/ (i - 1 \in 1..Length' /\ (i - 1) + 1 = i) BY <1>2, <1>4
<1>10. OwnersMatch'
  <2>0. 1 \in 1..Length BY <1>2, SMT, Z3
  <2>1. ASSUME NEW m \in Nodes, m # head
        PROVE  (\E i \in 1..Length' : List'[i] = m) <=> \E i \in 1..Length : List[i] = m
    <3>1. ASSUME NEW i \in 1..Length, List[i] = m PROVE \E j \in 1..Length' : List'[j] = m
      <4>1. i # 1 BY <1>2, <2>1, <3>1, Zenon
      <4>2. i - 1 \in 1..Length' /\ (i - 1) + 1 = i BY <1>9, <4>1, Zenon
      <4>3. List'[i - 1] = m BY <1>8, <3>1, <4>2, Zenon
      <4> QED BY <4>2, <4>3, Zenon
    <3> QED BY <1>8, <3>1, Zenon
  <2>2. ~\E i \in 1..Length' : List'[i] = head BY <1>2, <1>8, <2>0, Zenon DEF Inv, ListInOrder
  <2>3. ppc[head] \notin {"reset", "swap"} BY <1>2, <1>3, <2>0, Zenon DEF Inv, ProducersKnow
  <2> QED BY <1>1, <1>2, <2>1, <2>2, <2>3, Zenon DEF Inv, OwnersMatch
<1>11. ProducersKnow' BY <1>1, <1>4, DropKeepsProducers, Zenon
<1>12. ConsumerKnows'
  <2>1. ~Unlinked(head)' BY <1>1, <1>2, <1>5, Zenon
  <2> QED BY <1>1, <2>1, Zenon DEF ConsumerKnows
<1> QED BY <1>6, <1>7, <1>10, <1>11, <1>12, Zenon DEF Inv

-----------------------------------------------------------------------------
\* The queue is constructed with the stub as its only cell.
LEMMA InvInit == QueueInit => Inv
<1> SUFFICES ASSUME QueueInit PROVE Inv
  BY Zenon
<1> USE NodesAssumption DEF QueueInit
<1>1. queue \in Seq(Nodes) /\ Len(queue) = 0 BY SMT, Z3
<1>2. QueueOK
  <2>1. next \in [Cells -> Cells \cup {Null}] /\ prev \in [Cells -> Cells \cup {Null}]
    BY Zenon
  <2>2. ppc \in [Nodes -> {"out", "reset", "swap", "link"}] BY Zenon
  <2>3. cpc \in ConsumerLabels /\ tries \in 0..(MaxTries - 1) /\ tail \in Cells /\ head \in Cells
    BY SMT, Z3 DEF ConsumerLabels, MaxTries, Cells
  <2>4. queue \in Seq(Nodes) /\ stub_at \in 0..(Len(queue) + 1) BY <1>1, SMT, Z3
  <2> QED BY <2>1, <2>2, <2>3, <2>4, ZenonT(60) DEF QueueOK
<1>3. Length = 1 /\ List[1] = Stub BY <1>1, SMT, Z3 DEF Length, List
<1>4. ListInOrder BY <1>3, SMT, Z3 DEF ListInOrder, Cells
<1>5. \A i \in 1..Length : List[i] = Stub BY <1>3, SMT, Z3
<1>6. OwnersMatch BY <1>5, Zenon DEF OwnersMatch
<1>7. ProducersKnow BY Zenon DEF ProducersKnow
<1>8. ConsumerKnows BY Zenon DEF ConsumerKnows, Unlinked
<1> QED BY <1>2, <1>4, <1>6, <1>7, <1>8, Zenon DEF Inv

\* Every step of push_back() and pop_front() keeps the inductive invariant.
LEMMA InvKept == Inv /\ [QueueNext]_queueVars => Inv'
<1> SUFFICES ASSUME Inv, [QueueNext]_queueVars PROVE Inv'
  BY Zenon
<1>1. CASE UNCHANGED queueVars
  <2>1. UNCHANGED <<next, tail, head, prev, queue, stub_at, ppc, owned, cpc, can_spin, chead,
                    cnext, tries, result>>
    BY <1>1, Zenon DEF queueVars, history, producers, consumer
  <2>2. Length' = Length /\ List' = List BY <2>1, Zenon DEF Length, List
  <2>3. QueueOK' BY <2>1, Zenon DEF Inv, QueueOK
  <2>4. ListInOrder' BY <2>1, <2>2, Zenon DEF Inv, ListInOrder, Unlinked
  <2>5. OwnersMatch' /\ ProducersKnow' BY <2>1, <2>2, ZenonT(60) DEF Inv, OwnersMatch, ProducersKnow
  <2>6. ConsumerKnows' BY <2>1, <2>2, Zenon DEF Inv, ConsumerKnows, Unlinked
  <2> QED BY <2>3, <2>4, <2>5, <2>6, Zenon DEF Inv
<1>2. CASE PopBegin \/ PopLoadNext \/ PopCheckEmpty \/ WaitNext \/ PopCheckTail \/ StubReset
  BY <1>2, PlainSteps, Zenon
<1>3. CASE \E n \in Nodes : ChangeOwnerPush(n) \/ PushReset(n) BY <1>3, PlainSteps, Zenon
<1>4. CASE PopSkipStub BY <1>4, PopSkipStubKeeps, Zenon
<1>5. CASE StubSwap BY <1>5, StubSwapKeeps, Zenon
<1>6. CASE StubLink BY <1>6, StubLinkKeeps, Zenon
<1>7. CASE PopAdvance BY <1>7, PopAdvanceKeeps, Zenon
<1>8. CASE \E n \in Nodes : PushSwap(n) BY <1>8, PushSwapKeeps, Zenon
<1>9. CASE \E n \in Nodes : PushLink(n) BY <1>9, PushLinkKeeps, Zenon
<1> QED BY <1>1, <1>2, <1>3, <1>4, <1>5, <1>6, <1>7, <1>8, <1>9, Zenon DEF QueueNext, Pop, Push

\* The inductive invariant holds in every reachable state.
LEMMA InvHolds == QueueSpec => []Inv
BY InvInit, InvKept, PTL DEF QueueSpec

\* The types hold: the consumer never follows a NULL head.
THEOREM QueueTypeCorrect == QueueSpec => []QueueOK
<1>1. Inv => QueueOK BY Zenon DEF Inv
<1> QED BY <1>1, InvHolds, PTL

\* Whatever the interleaving of push_node_() and pop_node_(), the list runs from
\* head_ to tail_ in the order of the tail swaps, broken only in front of the cells
\* that are about to be linked.
THEOREM ListStaysInOrder == QueueSpec => []ListInOrder
<1>1. Inv => ListInOrder BY Zenon DEF Inv
<1> QED BY <1>1, InvHolds, PTL

\* change_owner_() never finds an unexpected owner.
THEOREM OwnersStayMatched == QueueSpec => []OwnersMatch
<1>1. Inv => OwnersMatch BY Zenon DEF Inv
<1> QED BY <1>1, InvHolds, PTL

-----------------------------------------------------------------------------
(***************************************************************************)
(* The refinement.  A push takes its place when it swaps the tail; a pop   *)
(* takes effect when it advances the head, or decides to return NULL.      *)
(***************************************************************************)
Linking == {n \in Nodes : ppc[n] = "link"}

\* Steps that touch neither the order, nor the pushes in progress, nor the result.
LEMMA Stutters ==
  ASSUME Inv,
         \/ \E n \in Nodes : ChangeOwnerPush(n) \/ PushReset(n)
         \/ PopBegin \/ PopLoadNext \/ PopSkipStub \/ PopCheckTail
         \/ StubReset \/ StubSwap \/ StubLink \/ UNCHANGED queueVars
  PROVE  UNCHANGED Fifo!fifoVars
<1>1. ASSUME NEW n \in Nodes, ChangeOwnerPush(n) \/ PushReset(n)
      PROVE  UNCHANGED <<queue, Linking, result>>
  BY <1>1, Zenon DEF ChangeOwnerPush, PushReset, history, consumer, Linking, Inv, QueueOK
<1>2. CASE \/ PopBegin \/ PopLoadNext \/ PopSkipStub \/ PopCheckTail
           \/ StubReset \/ StubSwap \/ StubLink \/ UNCHANGED queueVars
  <2>1. UNCHANGED <<queue, ppc, result>>
    <3>1. CASE PopBegin \/ PopLoadNext BY <3>1, Zenon DEF PopBegin, PopLoadNext, shared, history, producers
    <3>2. CASE PopSkipStub \/ PopCheckTail
      BY <3>2, NodesAssumption, Zenon DEF PopSkipStub, PopCheckTail, shared, history, producers
    <3>3. CASE StubReset \/ StubSwap \/ StubLink
      BY <3>3, NodesAssumption, Zenon DEF StubReset, StubSwap, StubLink, Swap, Link, history, producers
    <3>4. CASE UNCHANGED queueVars BY <3>4, Zenon DEF queueVars, history, producers, consumer
    <3> QED BY <1>2, <3>1, <3>2, <3>3, <3>4, Zenon
  <2> QED BY <2>1, Zenon DEF Linking, Fifo!fifoVars
<1> QED BY <1>1, <1>2, Zenon DEF Linking, Fifo!fifoVars

\* The tail swap of a producer is the push of the FIFO.
LEMMA PushSwapPushes ==
  ASSUME Inv, NEW n \in Nodes, PushSwap(n)
  PROVE  Fifo!FifoPush(n)
<1>1. ppc[n] = "swap" /\ queue' = Append(queue, n) /\ UNCHANGED result
  BY NodesAssumption, Zenon DEF PushSwap, Swap, consumer
<1>2. Linking' = Linking \cup {n} BY Zenon DEF PushSwap, Linking, Inv, QueueOK
<1>3. \A i \in DOMAIN queue : queue[i] # n
  <2> TAKE i \in DOMAIN queue
  <2> DEFINE k == IF stub_at = 0 \/ i < stub_at THEN i ELSE i + 1
  <2>1. k \in 1..Length /\ List[k] = queue[i] BY SMT, Z3 DEF Length, List, Inv, QueueOK
  <2> QED BY <1>1, <2>1, Zenon DEF Inv, ProducersKnow
<1> QED BY <1>1, <1>2, <1>3, Zenon DEF Fifo!FifoPush, Linking

\* The link of a producer is the end of its push in the FIFO.
LEMMA PushLinkLinks ==
  ASSUME Inv, NEW n \in Nodes, PushLink(n)
  PROVE  Fifo!FifoLink(n)
<1>1. ppc[n] = "link" /\ UNCHANGED <<queue, result>> BY Zenon DEF PushLink, Link, consumer, history
<1>2. Linking' = Linking \ {n} BY Zenon DEF PushLink, Linking, Inv, QueueOK
<1> QED BY <1>1, <1>2, Zenon DEF Fifo!FifoLink, Linking

\* Moving head_ past a node is the pop of the FIFO.
LEMMA PopAdvancePops ==
  ASSUME Inv, PopAdvance
  PROVE  Fifo!FifoPop
<1>1. /\ cpc = "advance" /\ queue' = Tail(queue) /\ result' = chead /\ UNCHANGED ppc
      /\ stub_at' = (IF stub_at = 0 THEN 0 ELSE stub_at - 1)
  BY Zenon DEF PopAdvance, Advance, Return
<1>2. chead = head /\ chead \in Nodes /\ ~Unlinked(head) BY <1>1, Zenon DEF Inv, ConsumerKnows
<1>3. queue # <<>> /\ Head(queue) = head BY <1>1, <1>2, FirstDropped, Zenon DEF Inv
<1>4. head \notin Linking BY <1>2, NodesAssumption, Zenon DEF Unlinked, Linking
<1> QED BY <1>1, <1>2, <1>3, <1>4, Zenon DEF Fifo!FifoPop, Linking

\* pop_node_() that finds head_ and tail_ at the stub returns NULL of an empty
\* queue.
LEMMA CheckEmptyReturns ==
  ASSUME Inv, PopCheckEmpty
  PROVE  Fifo!FifoPopNull \/ UNCHANGED Fifo!fifoVars
<1>1. cpc = "stub_tail" /\ chead = head /\ chead = Stub BY Zenon DEF PopCheckEmpty, Inv, ConsumerKnows
<1>2. UNCHANGED <<queue, ppc>> BY Zenon DEF PopCheckEmpty, shared, history, producers
<1>3. UNCHANGED Linking BY <1>2, Zenon DEF Linking
<1>4. CASE tail = chead
  <2>1. result' = Null BY <1>4, Zenon DEF PopCheckEmpty, Return
  <2>2. Length \in Nat /\ Length > 0 /\ head = List[1] /\ tail = List[Length]
    BY ListType, Zenon DEF Inv, ListInOrder
  <2>3. 1 \in 1..Length /\ Length \in 1..Length BY <2>2, SMT, Z3
  <2>4. Length = 1 BY <1>1, <1>4, <2>2, <2>3, Zenon DEF Inv, ListInOrder
  <2>5. stub_at = 1
    <3>1. /\ Len(queue) \in Nat /\ stub_at \in 0..(Len(queue) + 1)
          /\ \A i \in 1..Len(queue) : queue[i] \in Nodes
      BY SMT, Z3 DEF Inv, QueueOK
    <3>2. List[1] = Stub BY <1>1, <2>2, Zenon
    <3>3. CASE stub_at = 0
      <4>1. List[1] = queue[1] /\ 1 \in 1..Len(queue) BY <2>4, <3>1, <3>3, SMT, Z3 DEF List, Length
      <4> QED BY <3>1, <3>2, <4>1, NodesAssumption, Zenon
    <3>4. CASE stub_at > 1
      <4>1. List[1] = queue[1] /\ 1 \in 1..Len(queue) BY <2>3, <3>1, <3>4, SMT, Z3 DEF List
      <4> QED BY <3>1, <3>2, <4>1, NodesAssumption, Zenon
    <3> QED BY <3>1, <3>3, <3>4, SMT, Z3
  <2>6. queue = <<>> BY <2>4, <2>5, SMT, Z3 DEF Length, Inv, QueueOK
  <2> QED BY <1>2, <1>3, <2>1, <2>6, Zenon DEF Fifo!FifoPopNull, Linking
<1>5. CASE tail # chead
  <2>1. UNCHANGED result BY <1>5, Zenon DEF PopCheckEmpty
  <2> QED BY <1>2, <1>3, <2>1, Zenon DEF Fifo!fifoVars, Linking
<1> QED BY <1>4, <1>5, Zenon

\* try_wait_next_() that gives up returns NULL while a push is in progress.
LEMMA WaitNextReturns ==
  ASSUME Inv, WaitNext
  PROVE  Fifo!FifoPopNull \/ UNCHANGED Fifo!fifoVars
<1>1. cpc = "wait_next" /\ chead = head /\ Length > 1 BY Zenon DEF WaitNext, Inv, ConsumerKnows
<1>2. UNCHANGED <<queue, ppc>> BY Zenon DEF WaitNext, shared, history, producers
<1>3. UNCHANGED Linking BY <1>2, Zenon DEF Linking
<1>4. CASE UNCHANGED result BY <1>2, <1>3, <1>4, Zenon DEF Fifo!fifoVars, Linking
<1>5. CASE next[chead] = Null /\ result' = Null
  <2>1. /\ Length \in Nat /\ head = List[1] /\ \A i \in 1..Length : List[i] \in Cells
    BY ListType, Zenon DEF Inv, ListInOrder
  <2>2. 1 \in 1..(Length - 1) /\ 1 + 1 = 2 /\ 2 \in 1..Length BY <1>1, <2>1, SMT, Z3
  <2>3. Unlinked(List[2]) BY <1>1, <1>5, <2>1, <2>2, NodesAssumption, SMT, Z3 DEF Inv, ListInOrder, Cells
  <2>4. List[2] \in Linking BY <1>1, <2>1, <2>2, <2>3, Zenon DEF Unlinked, Cells, Linking
  <2> QED BY <1>2, <1>3, <1>5, <2>4, Zenon DEF Fifo!FifoPopNull, Linking
<1> QED BY <1>4, <1>5, Zenon DEF WaitNext, Return

\* The lock-free queue implements the FIFO of mpsc_queue.h, for any number of nodes
\* and producers.
THEOREM QueueIsFifo == QueueSpec => IsFifo
<1>1. QueueInit => Fifo!FifoInit
  <2> SUFFICES ASSUME QueueInit PROVE Fifo!FifoInit
    BY Zenon
  <2>1. Linking = {} BY Zenon DEF QueueInit, Linking
  <2> QED BY <2>1, Zenon DEF QueueInit, Linking, Fifo!FifoInit
<1>2. Inv /\ [QueueNext]_queueVars => [Fifo!FifoNext]_Fifo!fifoVars
  <2> SUFFICES ASSUME Inv, [QueueNext]_queueVars PROVE Fifo!FifoNext \/ UNCHANGED Fifo!fifoVars
    BY Zenon
  <2>1. CASE \/ PopBegin \/ PopLoadNext \/ PopSkipStub \/ PopCheckTail
             \/ StubReset \/ StubSwap \/ StubLink \/ UNCHANGED queueVars
    BY <2>1, Stutters, Zenon
  <2>2. CASE \E n \in Nodes : ChangeOwnerPush(n) \/ PushReset(n) BY <2>2, Stutters, Zenon
  <2>3. CASE \E n \in Nodes : PushSwap(n) BY <2>3, PushSwapPushes, Zenon DEF Fifo!FifoNext
  <2>4. CASE \E n \in Nodes : PushLink(n) BY <2>4, PushLinkLinks, Zenon DEF Fifo!FifoNext
  <2>5. CASE PopAdvance BY <2>5, PopAdvancePops, Zenon DEF Fifo!FifoNext
  <2>6. CASE PopCheckEmpty BY <2>6, CheckEmptyReturns, Zenon DEF Fifo!FifoNext
  <2>7. CASE WaitNext BY <2>7, WaitNextReturns, Zenon DEF Fifo!FifoNext
  <2> QED BY <2>1, <2>2, <2>3, <2>4, <2>5, <2>6, <2>7, Zenon DEF QueueNext, Pop, Push
<1> QED BY <1>1, <1>2, InvHolds, PTL DEF QueueSpec, IsFifo, Fifo!FifoSpec

-----------------------------------------------------------------------------
(***************************************************************************)
(* Type correctness and mutual exclusion.                                  *)
(***************************************************************************)
\* A jump to a label of the thread's own code keeps the control state typed.
LEMMA GotoTyped ==
  ASSUME ControlOK, NEW t \in Threads, NEW l, l \in Labels(t), Goto(t, l)
  PROVE  ControlOK'
BY Zenon DEF ControlOK, Goto, Labels, Returns, AllLabels

\* So does a call with a return address of the thread's own.
LEMMA CallTyped ==
  ASSUME ControlOK, NEW t \in Threads, NEW l, l \in Labels(t),
         NEW r, r \in Returns(t), Call(t, l, r)
  PROVE  ControlOK'
BY Zenon DEF ControlOK, Call, Labels, Returns, AllLabels, UserLabels, FrameLabels, ProcLabels

\* Running a task changes its state and perhaps its semaphore, within their types.
LEMMA ProcessTaskTyped ==
  ASSUME DataOK, NEW task, NEW notify \in BOOLEAN, ProcessTask(task, notify)
  PROVE  /\ task_queue' \in Seq(Users) /\ linking' \in SUBSET Users
         /\ task_state' \in [Users -> TaskStates] /\ sem' \in [Users -> Int]
<1>1. task_queue' \in Seq(Users) /\ linking' \in SUBSET Users BY Zenon DEF DataOK, ProcessTask
<1>2. task_state' \in [Users -> TaskStates] BY Zenon DEF DataOK, ProcessTask, TaskStates
<1>3. sem' \in [Users -> Int] BY ThreadsAssumption, SMT, Z3 DEF DataOK, ProcessTask
<1> QED BY <1>1, <1>2, <1>3, Zenon

\* The steps of schedule_async_task_processing_() and
\* cancel_async_task_processing_() keep the types, whichever thread calls them.
LEMMA AsyncTyped ==
  ASSUME TypeOK, NEW t \in Threads, AsyncStep(t)
  PROVE  TypeOK'
<1> USE ThreadsAssumption
<1>1. after[t] \in Labels(t)
  BY Zenon DEF TypeOK, ControlOK, Labels, Returns, UserLabels, FrameLabels, ProcLabels, Threads
<1>2. AsyncLabels \subseteq Labels(t)
  BY Zenon DEF Labels, UserLabels, FrameLabels, ProcLabels
<1>3. ControlOK'
  <2>1. CASE AsyncLoadDeadline(t) BY <2>1, <1>1, <1>2, GotoTyped, Zenon DEF TypeOK,
       AsyncLoadDeadline, AsyncLabels
  <2>2. CASE AsyncTryLock(t) BY <2>2, <1>1, <1>2, GotoTyped, Zenon DEF TypeOK, AsyncTryLock,
       TryLockScheduler, AsyncLabels
  <2>3. CASE AsyncSchedule(t) BY <2>3, <1>1, <1>2, GotoTyped, Zenon DEF TypeOK, AsyncSchedule,
       AsyncLabels
  <2>4. CASE AsyncSetState(t) BY <2>4, <1>1, <1>2, GotoTyped, Zenon DEF TypeOK, AsyncSetState,
       AsyncLabels
  <2>5. CASE AsyncUnlock(t) BY <2>5, <1>1, <1>2, GotoTyped, Zenon DEF TypeOK, AsyncUnlock,
       AsyncLabels
  <2>6. CASE AsyncRecheckFrames(t) BY <2>6, <1>1, <1>2, GotoTyped, Zenon DEF TypeOK,
       AsyncRecheckFrames, AsyncLabels
  <2>7. CASE CancelTryLock(t) BY <2>7, <1>1, <1>2, GotoTyped, Zenon DEF TypeOK, CancelTryLock,
       TryLockScheduler, AsyncLabels
  <2>8. CASE CancelSchedule(t) BY <2>8, <1>1, <1>2, GotoTyped, Zenon DEF TypeOK, CancelSchedule,
       AsyncLabels
  <2>9. CASE CancelSetState(t) BY <2>9, <1>1, <1>2, GotoTyped, Zenon DEF TypeOK, CancelSetState,
       AsyncLabels
  <2>10. CASE CancelUnlock(t) BY <2>10, <1>1, <1>2, GotoTyped, Zenon DEF TypeOK, CancelUnlock,
       AsyncLabels
  <2> QED BY <2>1, <2>2, <2>3, <2>4, <2>5, <2>6, <2>7, <2>8, <2>9, <2>10, Zenon DEF AsyncStep
<1>4. DataOK'
  <2>1. CASE AsyncLoadDeadline(t) BY <2>1, Zenon DEF TypeOK, DataOK, AsyncLoadDeadline, locks,
       tasks, timing, async, counters, locals
  <2>2. CASE AsyncTryLock(t) BY <2>2, Zenon DEF TypeOK, DataOK, AsyncTryLock, TryLockScheduler,
       tasks, timing, async, counters, locals
  <2>3. CASE AsyncSchedule(t) BY <2>3, Zenon DEF TypeOK, DataOK, AsyncSchedule, ProcStates, locks,
       tasks, timing, counters, locals
  <2>4. CASE AsyncSetState(t) BY <2>4, Zenon DEF TypeOK, DataOK, AsyncSetState, ProcStates, locks,
       tasks, timing, counters, locals
  <2>5. CASE AsyncUnlock(t) BY <2>5, Zenon DEF TypeOK, DataOK, AsyncUnlock, tasks, timing, async,
       counters, locals
  <2>6. CASE AsyncRecheckFrames(t) BY <2>6, Zenon DEF TypeOK, DataOK, AsyncRecheckFrames, locks,
       tasks, timing, async, counters, locals
  <2>7. CASE CancelTryLock(t) BY <2>7, Zenon DEF TypeOK, DataOK, CancelTryLock, TryLockScheduler,
       tasks, timing, async, counters, locals
  <2>8. CASE CancelSchedule(t) BY <2>8, Zenon DEF TypeOK, DataOK, CancelSchedule, ProcStates,
       locks, tasks, timing, counters, locals
  <2>9. CASE CancelSetState(t) BY <2>9, Zenon DEF TypeOK, DataOK, CancelSetState, ProcStates,
       locks, tasks, timing, counters, locals
  <2>10. CASE CancelUnlock(t) BY <2>10, Zenon DEF TypeOK, DataOK, CancelUnlock, tasks, timing,
       async, counters, locals
  <2> QED BY <2>1, <2>2, <2>3, <2>4, <2>5, <2>6, <2>7, <2>8, <2>9, <2>10 DEF AsyncStep
<1> QED BY <1>3, <1>4, Zenon DEF TypeOK

\* The steps of schedule() and schedule_and_wait() keep the types.
LEMMA UserTyped ==
  ASSUME TypeOK, NEW u \in Users, Schedule(u) \/ UserStep(u)
  PROVE  TypeOK'
<1> USE ThreadsAssumption
<1>a. CASE AsyncStep(u) BY <1>a, AsyncTyped, Zenon DEF Threads
<1>b. SUFFICES ASSUME ~AsyncStep(u) PROVE TypeOK' BY <1>a, Zenon
<1>1. u \in Threads /\ Labels(u) = UserLabels
  BY Zenon DEF Threads, Labels
<1>2. Returns(u) = {"idle", "wait", "done", "frames"}
  BY Zenon DEF Returns
<1>3. ControlOK'
  <2>1. CASE Schedule(u) BY <2>1, <1>1, <1>2, GotoTyped, CallTyped, Zenon DEF TypeOK, Schedule,
       Queued, UserLabels, AsyncLabels
  <2>2. CASE LoadDeadline(u) BY <2>2, <1>1, <1>2, GotoTyped, CallTyped, Zenon DEF TypeOK,
       LoadDeadline, Queued, UserLabels, AsyncLabels
  <2>3. CASE CheckAllowed(u) BY <2>3, <1>1, <1>2, GotoTyped, CallTyped, Zenon DEF TypeOK,
       CheckAllowed, UserLabels, AsyncLabels
  <2>4. CASE PushBegin(u) BY <2>4, <1>1, <1>2, GotoTyped, Zenon DEF TypeOK, PushBegin, UserLabels, AsyncLabels
  <2>5. CASE PushEnd(u) BY <2>5, <1>1, <1>2, GotoTyped, Zenon DEF TypeOK, PushEnd, ControlOK,
       UserLabels, AsyncLabels
  <2>6. CASE ScheduleIfNoFrames(u) BY <2>6, <1>1, <1>2, GotoTyped, CallTyped, Zenon DEF TypeOK,
       ScheduleIfNoFrames, Queued, Caller, Queued, UserLabels, AsyncLabels
  <2>7. CASE TryLockInPlace(u) BY <2>7, <1>1, <1>2, GotoTyped, CallTyped, Zenon DEF TypeOK,
       TryLockInPlace, Queued, UserLabels, AsyncLabels
  <2>8. CASE ProcessInPlace(u) BY <2>8, <1>1, <1>2, GotoTyped, Zenon DEF TypeOK, ProcessInPlace,
       UserLabels, AsyncLabels
  <2>9. CASE FinishInPlace(u) BY <2>9, <1>1, <1>2, GotoTyped, Zenon DEF TypeOK, FinishInPlace,
       UserLabels, AsyncLabels
  <2>10. CASE ReadFramesInPlace(u) BY <2>10, <1>1, <1>2, GotoTyped, Zenon DEF TypeOK,
       ReadFramesInPlace, UserLabels, AsyncLabels
  <2>11. CASE UnlockInPlace(u) BY <2>11, <1>1, <1>2, GotoTyped, Zenon DEF TypeOK, UnlockInPlace,
       UserLabels, AsyncLabels
  <2>12. CASE RecheckInPlace(u) BY <2>12, <1>1, <1>2, GotoTyped, CallTyped, Zenon DEF TypeOK,
       RecheckInPlace, Caller, Queued, UserLabels, AsyncLabels
  <2>13. CASE WaitTask(u) BY <2>13, <1>1, <1>2, GotoTyped, Zenon DEF TypeOK, WaitTask, UserLabels, AsyncLabels
  <2> QED BY <1>b, <2>1, <2>2, <2>3, <2>4, <2>5, <2>6, <2>7, <2>8, <2>9, <2>10, <2>11, <2>12,
       <2>13, Zenon DEF UserStep
<1>4. DataOK'
  <2>1. CASE Schedule(u) BY <2>1, <1>1, SMT, Z3 DEF TypeOK, DataOK, Schedule, TaskStates, locks,
       timing, async, locals
  <2>2. CASE LoadDeadline(u) BY <2>2, <1>1, Zenon DEF TypeOK, DataOK, LoadDeadline, locks, tasks,
       timing, async, counters, locals
  <2>3. CASE CheckAllowed(u) BY <2>3, <1>1, Zenon DEF TypeOK, DataOK, CheckAllowed,
       InterframeAllowed, locks, tasks, timing, async, counters, locals
  <2>4. CASE PushBegin(u) BY <2>4, <1>1, SMT, Z3 DEF TypeOK, DataOK, PushBegin, TaskStates, locks,
       timing, async, counters, locals
  <2>5. CASE PushEnd(u) BY <2>5, <1>1, Zenon DEF TypeOK, DataOK, PushEnd, TaskStates, locks,
       timing, async, counters, locals
  <2>6. CASE ScheduleIfNoFrames(u) BY <2>6, <1>1, Zenon DEF TypeOK, DataOK, ScheduleIfNoFrames,
       locks, tasks, timing, async, counters, locals
  <2>7. CASE TryLockInPlace(u) BY <2>7, <1>1, Zenon DEF TypeOK, DataOK, TryLockInPlace, tasks,
       timing, async, counters, locals
  <2>8. CASE ProcessInPlace(u) BY <2>8, <1>1, ProcessTaskTyped, Zenon DEF TypeOK, DataOK,
       ProcessInPlace, locks, timing, async, counters
  <2>9. CASE FinishInPlace(u) BY <2>9, <1>1, SMT, Z3 DEF TypeOK, DataOK, FinishInPlace, locks, tasks,
       timing, async, locals
  <2>10. CASE ReadFramesInPlace(u) BY <2>10, <1>1, Zenon DEF TypeOK, DataOK, ReadFramesInPlace,
       locks, tasks, timing, async, counters
  <2>11. CASE UnlockInPlace(u) BY <2>11, <1>1, Zenon DEF TypeOK, DataOK, UnlockInPlace, tasks,
       timing, async, counters, locals
  <2>12. CASE RecheckInPlace(u) BY <2>12, <1>1, SMT, Z3 DEF TypeOK, DataOK, RecheckInPlace, locks,
       tasks, timing, async, counters
  <2>13. CASE WaitTask(u) BY <2>13, <1>1, SMT, Z3 DEF TypeOK, DataOK, WaitTask, TaskStates, locks,
       timing, async, counters, locals
  <2> QED BY <1>b, <2>1, <2>2, <2>3, <2>4, <2>5, <2>6, <2>7, <2>8, <2>9, <2>10, <2>11, <2>12,
       <2>13 DEF UserStep
<1> QED BY <1>3, <1>4, Zenon DEF TypeOK

\* The steps of process_tasks() keep the types.
LEMMA ProcTyped ==
  ASSUME TypeOK, ProcessTasks \/ ProcStep
  PROVE  TypeOK'
<1> USE ThreadsAssumption
<1>a. CASE AsyncStep(Proc) BY <1>a, AsyncTyped, Zenon DEF Threads
<1>b. SUFFICES ASSUME ~AsyncStep(Proc) PROVE TypeOK' BY <1>a, Zenon
<1>1. Proc \in Threads /\ Labels(Proc) = ProcLabels
  BY Zenon DEF Threads, Labels
<1>2. Returns(Proc) = {"idle"}
  BY Zenon DEF Returns
<1>3. ControlOK'
  <2>1. CASE ProcessTasks BY <2>1, <1>1, <1>2, GotoTyped, Zenon DEF TypeOK, ProcessTasks,
       ProcLabels, AsyncLabels
  <2>2. CASE ProcLoadDeadline BY <2>2, <1>1, <1>2, GotoTyped, Zenon DEF TypeOK, ProcLoadDeadline,
       ProcLabels, AsyncLabels
  <2>3. CASE ProcTryLock BY <2>3, <1>1, <1>2, GotoTyped, Zenon DEF TypeOK, ProcTryLock,
       TryLockPipeline, ProcLabels, AsyncLabels
  <2>4. CASE ProcRunning BY <2>4, <1>1, <1>2, GotoTyped, Zenon DEF TypeOK, ProcRunning, ProcLabels, AsyncLabels
  <2>5. CASE ProcCheckAllowed BY <2>5, <1>1, <1>2, GotoTyped, Zenon DEF TypeOK, ProcCheckAllowed,
       ProcLabels, AsyncLabels
  <2>6. CASE ProcCheckFrames BY <2>6, <1>1, <1>2, GotoTyped, Zenon DEF TypeOK, ProcCheckFrames,
       ProcLabels, AsyncLabels
  <2>7. CASE ProcPop BY <2>7, <1>1, <1>2, GotoTyped, Zenon DEF TypeOK, ProcPop, TryPop, ProcLabels, AsyncLabels
  <2>8. CASE ProcProcessTask BY <2>8, <1>1, <1>2, GotoTyped, Zenon DEF TypeOK, ProcProcessTask,
       ProcLabels, AsyncLabels
  <2>9. CASE ProcFinishTask BY <2>9, <1>1, <1>2, GotoTyped, Zenon DEF TypeOK, ProcFinishTask,
       ProcLabels, AsyncLabels
  <2>10. CASE ProcUnlock BY <2>10, <1>1, <1>2, GotoTyped, Zenon DEF TypeOK, ProcUnlock, ProcLabels, AsyncLabels
  <2>11. CASE ProcRecheck BY <2>11, <1>1, <1>2, GotoTyped, Zenon DEF TypeOK, ProcRecheck,
       ProcLabels, AsyncLabels
  <2>12. CASE ProcReset BY <2>12, <1>1, <1>2, GotoTyped, CallTyped, Zenon DEF TypeOK, ProcReset,
       ProcLabels, AsyncLabels
  <2> QED BY <1>b, <2>1, <2>2, <2>3, <2>4, <2>5, <2>6, <2>7, <2>8, <2>9, <2>10, <2>11, <2>12, Zenon DEF ProcStep
<1>4. DataOK'
  <2>1. CASE ProcessTasks BY <2>1, <1>1, Zenon DEF TypeOK, DataOK, ProcessTasks, ProcStates, locks,
       tasks, timing, counters, locals
  <2>2. CASE ProcLoadDeadline BY <2>2, <1>1, Zenon DEF TypeOK, DataOK, ProcLoadDeadline, locks,
       tasks, timing, async, counters, locals
  <2>3. CASE ProcTryLock BY <2>3, <1>1, Zenon DEF TypeOK, DataOK, ProcTryLock, TryLockPipeline,
       tasks, timing, async, counters, locals
  <2>4. CASE ProcRunning BY <2>4, <1>1, Zenon DEF TypeOK, DataOK, ProcRunning, ProcStates, locks,
       tasks, timing, counters, locals
  <2>5. CASE ProcCheckAllowed BY <2>5, <1>1, Zenon DEF TypeOK, DataOK, ProcCheckAllowed,
       InterframeAllowed, locks, tasks, timing, async, counters, locals
  <2>6. CASE ProcCheckFrames BY <2>6, <1>1, Zenon DEF TypeOK, DataOK, ProcCheckFrames, locks,
       tasks, timing, async, counters
  <2>7. CASE ProcPop BY <2>7, <1>1, SMT, Z3 DEF TypeOK, DataOK, ProcPop, TryPop, Popped, locks,
       timing, async, counters
  <2>8. CASE ProcProcessTask BY <2>8, <1>1, ProcessTaskTyped, Zenon DEF TypeOK, DataOK,
       ProcProcessTask, locks, timing, async, counters, locals
  <2>9. CASE ProcFinishTask BY <2>9, <1>1, SMT, Z3 DEF TypeOK, DataOK, ProcFinishTask, locks, tasks,
       timing, async
  <2>10. CASE ProcUnlock BY <2>10, <1>1, Zenon DEF TypeOK, DataOK, ProcUnlock, tasks, timing,
       async, counters, locals
  <2>11. CASE ProcRecheck BY <2>11, <1>1, SMT, Z3 DEF TypeOK, DataOK, ProcRecheck, locks, tasks,
       timing, async, counters
  <2>12. CASE ProcReset BY <2>12, <1>1, Zenon DEF TypeOK, DataOK, ProcReset, ProcStates, locks,
       tasks, timing, counters, locals
  <2> QED BY <1>b, <2>1, <2>2, <2>3, <2>4, <2>5, <2>6, <2>7, <2>8, <2>9, <2>10, <2>11, <2>12 DEF ProcStep
<1> QED BY <1>3, <1>4, Zenon DEF TypeOK

\* The steps of process_subframes_and_tasks() keep the types.
LEMMA FrameTyped ==
  ASSUME TypeOK, NEW f \in Frames, StartFrame(f) \/ FrameStep(f)
  PROVE  TypeOK'
<1> USE ThreadsAssumption
<1>a. CASE AsyncStep(f) BY <1>a, AsyncTyped, Zenon DEF Threads
<1>b. SUFFICES ASSUME ~AsyncStep(f) PROVE TypeOK' BY <1>a, Zenon
<1>1. f \in Threads /\ Labels(f) = FrameLabels
  BY Zenon DEF Threads, Labels
<1>2. Returns(f) = {"idle", "f_lock"}
  BY Zenon DEF Returns
<1>3. ControlOK'
  <2>1. CASE StartFrame(f) BY <2>1, <1>1, <1>2, CallTyped, Zenon DEF TypeOK, StartFrame,
       FrameLabels, AsyncLabels
  <2>2. CASE LockFrame(f) BY <2>2, <1>1, <1>2, GotoTyped, Zenon DEF TypeOK, LockFrame, FrameLabels, AsyncLabels
  <2>3. CASE ProcessSubframe(f) BY <2>3, <1>1, <1>2, GotoTyped, Zenon DEF TypeOK, ProcessSubframe,
       FrameLabels, AsyncLabels
  <2>4. CASE StoreDeadlineBegin(f) BY <2>4, <1>1, <1>2, GotoTyped, Zenon DEF TypeOK,
       StoreDeadlineBegin, FrameLabels, AsyncLabels
  <2>5. CASE StoreDeadlineEnd(f) BY <2>5, <1>1, <1>2, GotoTyped, Zenon DEF TypeOK,
       StoreDeadlineEnd, FrameLabels, AsyncLabels
  <2>6. CASE StartSubframeTasks(f) BY <2>6, <1>1, <1>2, GotoTyped, Zenon DEF TypeOK,
       StartSubframeTasks, FrameLabels, AsyncLabels
  <2>7. CASE FramePop(f) BY <2>7, <1>1, <1>2, GotoTyped, Zenon DEF TypeOK, FramePop, TryPop,
       FrameLabels, AsyncLabels
  <2>8. CASE FrameProcessTask(f) BY <2>8, <1>1, <1>2, GotoTyped, Zenon DEF TypeOK,
       FrameProcessTask, FrameLabels, AsyncLabels
  <2>9. CASE FrameFinishTask(f) BY <2>9, <1>1, <1>2, GotoTyped, Zenon DEF TypeOK, FrameFinishTask,
       FrameLabels, AsyncLabels
  <2>10. CASE NextSubframe(f) BY <2>10, <1>1, <1>2, GotoTyped, Zenon DEF TypeOK, NextSubframe,
       FrameLabels, AsyncLabels
  <2>11. CASE ReportStats(f) BY <2>11, <1>1, <1>2, GotoTyped, Zenon DEF TypeOK, ReportStats,
       TryLockScheduler, FrameLabels, AsyncLabels
  <2>12. CASE ReportStatsUnlock(f) BY <2>12, <1>1, <1>2, GotoTyped, Zenon DEF TypeOK,
       ReportStatsUnlock, FrameLabels, AsyncLabels
  <2>13. CASE StoreFrameTid(f) BY <2>13, <1>1, <1>2, GotoTyped, Zenon DEF TypeOK, StoreFrameTid,
       FrameLabels, AsyncLabels
  <2>14. CASE UnlockFrame(f) BY <2>14, <1>1, <1>2, GotoTyped, Zenon DEF TypeOK, UnlockFrame,
       FrameLabels, AsyncLabels
  <2>15. CASE EndFrame(f) BY <2>15, <1>1, <1>2, GotoTyped, Zenon DEF TypeOK, EndFrame, FrameLabels, AsyncLabels
  <2>16. CASE RecheckFrame(f) BY <2>16, <1>1, <1>2, CallTyped, Zenon DEF TypeOK, RecheckFrame,
       FrameLabels, AsyncLabels
  <2> QED BY <1>b, <2>1, <2>2, <2>3, <2>4, <2>5, <2>6, <2>7, <2>8, <2>9, <2>10, <2>11, <2>12,
       <2>13, <2>14, <2>15, <2>16, Zenon DEF FrameStep
<1>4. DataOK'
  <2>1. CASE StartFrame(f) BY <2>1, <1>1, SMT, Z3 DEF TypeOK, DataOK, StartFrame, locks, tasks,
       timing, async, locals
  <2>2. CASE LockFrame(f) BY <2>2, <1>1, Zenon DEF TypeOK, DataOK, LockFrame, tasks, timing, async,
       counters, locals
  <2>3. CASE ProcessSubframe(f) BY <2>3, <1>1, SubframesAssumption, SMT, Z3 DEF TypeOK, DataOK,
       ProcessSubframe, locks, tasks, async, counters
  <2>4. CASE StoreDeadlineBegin(f) BY <2>4, <1>1, SubframesAssumption, Zenon DEF TypeOK, DataOK,
       StoreDeadlineBegin, locks, tasks, async, counters, locals
  <2>5. CASE StoreDeadlineEnd(f) BY <2>5, <1>1, SubframesAssumption, Zenon DEF TypeOK, DataOK,
       StoreDeadlineEnd, locks, tasks, async, counters, locals
  <2>6. CASE StartSubframeTasks(f) BY <2>6, <1>1, SubframesAssumption, SMT, Z3 DEF TypeOK, DataOK,
       StartSubframeTasks, locks, tasks, async, counters, locals
  <2>7. CASE FramePop(f) BY <2>7, <1>1, SMT, Z3 DEF TypeOK, DataOK, FramePop, TryPop, Popped, locks,
       timing, async, counters
  <2>8. CASE FrameProcessTask(f) BY <2>8, <1>1, ProcessTaskTyped, Zenon DEF TypeOK, DataOK,
       FrameProcessTask, locks, timing, async, counters, locals
  <2>9. CASE FrameFinishTask(f) BY <2>9, <1>1, SMT, Z3 DEF TypeOK, DataOK, FrameFinishTask, locks,
       tasks, timing, async
  <2>10. CASE NextSubframe(f)
    <3>1. frame_pos' = frame_pos \/ frame_pos' = [frame_pos EXCEPT ![f] = 0]
      BY <2>10, Zenon DEF NextSubframe
    <3>2. frame_pos' \in [Frames -> Nat] BY <3>1, SMT, Z3 DEF TypeOK, DataOK
    <3> QED BY <2>10, <3>2, Zenon DEF TypeOK, DataOK, NextSubframe, locks, tasks, timing, async, counters
  <2>11. CASE ReportStats(f) BY <2>11, <1>1, Zenon DEF TypeOK, DataOK, ReportStats,
       TryLockScheduler, tasks, timing, async, counters, locals
  <2>12. CASE ReportStatsUnlock(f) BY <2>12, <1>1, Zenon DEF TypeOK, DataOK, ReportStatsUnlock,
       tasks, timing, async, counters, locals
  <2>13. CASE StoreFrameTid(f) BY <2>13, <1>1, SubframesAssumption, Zenon DEF TypeOK, DataOK,
       StoreFrameTid, locks, tasks, async, counters, locals
  <2>14. CASE UnlockFrame(f) BY <2>14, <1>1, Zenon DEF TypeOK, DataOK, UnlockFrame, tasks, timing,
       async, counters, locals
  <2>15. CASE EndFrame(f) BY <2>15, <1>1, SMT, Z3 DEF TypeOK, DataOK, EndFrame, locks, tasks, timing,
       async, locals
  <2>16. CASE RecheckFrame(f) BY <2>16, <1>1, Zenon DEF TypeOK, DataOK, RecheckFrame, locks, tasks,
       timing, async, counters, locals
  <2> QED BY <1>b, <2>1, <2>2, <2>3, <2>4, <2>5, <2>6, <2>7, <2>8, <2>9, <2>10, <2>11, <2>12,
       <2>13, <2>14, <2>15, <2>16 DEF FrameStep
<1> QED BY <1>3, <1>4, Zenon DEF TypeOK

\* Every variable has its type and every thread stays inside the code of its
\* own entry points, whatever the number of threads.
THEOREM TypeCorrect == Spec => []TypeOK
<1>1. Init => TypeOK
  <2> SUFFICES ASSUME Init PROVE TypeOK OBVIOUS
  <2>1. /\ task_queue \in Seq(Users) /\ linking \in SUBSET Users
        /\ task_state \in [Users -> TaskStates] /\ sem \in [Users -> Int]
    BY SMT, Z3 DEF Init, TaskStates
  <2>3. /\ current \in [Threads -> Users \cup {NoThread}] /\ n_frames \in [Threads -> Int]
        /\ subframes \in 0..MinSubframes /\ frame_pos \in [Frames -> Nat]
    BY SubframesAssumption, SMT, Z3 DEF Init
  <2>4. /\ precise \in Configs /\ deadline_busy \in BOOLEAN
        /\ frame_seen \in BOOLEAN /\ requested \in BOOLEAN
    BY Zenon DEF Init
  <2>5. /\ pending_tasks \in Int /\ pending_frames \in Int /\ processing_state \in ProcStates
        /\ pipeline_mutex \in Threads \cup {NoThread}
        /\ scheduler_mutex \in Threads \cup {NoThread}
    BY SMT, Z3 DEF Init, ProcStates
  <2>6. DataOK BY <2>1, <2>3, <2>4, <2>5, Zenon DEF DataOK
  <2>2. ControlOK BY Zenon DEF Init, ControlOK, Labels, Returns, AllLabels, UserLabels, FrameLabels, ProcLabels
  <2> QED BY <2>2, <2>6, Zenon DEF TypeOK
<1>2. TypeOK /\ [Next]_vars => TypeOK'
  <2> SUFFICES ASSUME TypeOK, [Next]_vars PROVE TypeOK' OBVIOUS
  <2>1. CASE UNCHANGED vars
    BY <2>1, Zenon DEF TypeOK, DataOK, ControlOK, vars, locks, tasks, timing, async, counters, locals
  <2> QED BY <2>1, UserTyped, ProcTyped, FrameTyped, Zenon DEF Next
<1> QED BY <1>1, <1>2, PTL DEF Spec

\* Which thread may hold a mutex: the labels a thread returns to are outside of both.
LEMMA ReturnsUnlocked ==
  ASSUME TypeOK, NEW t \in Threads
  PROVE  after[t] \notin PipelineLabels /\ after[t] \notin SchedulerLabels
BY Zenon DEF TypeOK, ControlOK, Returns, PipelineLabels, SchedulerLabels

\* schedule_async_task_processing_() and cancel_async_task_processing_() release
\* the scheduler mutex they take, and leave the pipeline mutex alone.
LEMMA AsyncLocks ==
  ASSUME TypeOK, LockInv, NEW t \in Threads, AsyncStep(t)
  PROVE  LockInv'
<1> USE ThreadsAssumption DEF LockInv, Holder, PipelineLabels, SchedulerLabels
<1>1. /\ t \in Threads /\ NoThread \notin Threads /\ pc \in [Threads -> AllLabels]
      /\ after[t] \notin PipelineLabels /\ after[t] \notin SchedulerLabels
  BY ReturnsUnlocked, Zenon DEF Threads, TypeOK, ControlOK
<1>3. CASE AsyncLoadDeadline(t) BY <1>1, <1>3, Zenon DEF AsyncLoadDeadline, At, Goto, locks
<1>4. CASE AsyncTryLock(t) BY <1>1, <1>4, SMT, Z3 DEF AsyncTryLock, TryLockScheduler, At, Goto
<1>5. CASE AsyncSchedule(t) BY <1>1, <1>5, SMT, Z3 DEF AsyncSchedule, At, Goto, locks
<1>6. CASE AsyncSetState(t) BY <1>1, <1>6, Zenon DEF AsyncSetState, At, Goto, locks
<1>7. CASE AsyncUnlock(t) BY <1>1, <1>7, Zenon DEF AsyncUnlock, At, Goto
<1>8. CASE AsyncRecheckFrames(t) BY <1>1, <1>8, Zenon DEF AsyncRecheckFrames, At, Goto, locks
<1>9. CASE CancelTryLock(t) BY <1>1, <1>9, SMT, Z3 DEF CancelTryLock, TryLockScheduler, At, Goto
<1>10. CASE CancelSchedule(t) BY <1>1, <1>10, SMT, Z3 DEF CancelSchedule, At, Goto, locks
<1>11. CASE CancelSetState(t) BY <1>1, <1>11, Zenon DEF CancelSetState, At, Goto, locks
<1>12. CASE CancelUnlock(t) BY <1>1, <1>12 DEF CancelUnlock, At, Goto
<1> QED BY <1>3, <1>4, <1>5, <1>6, <1>7, <1>8, <1>9, <1>10, <1>11, <1>12, Zenon DEF AsyncStep

\* The in-place path of schedule() locks and unlocks the pipeline in pairs.
LEMMA UserLocks ==
  ASSUME TypeOK, LockInv, NEW u \in Users, Schedule(u) \/ UserStep(u)
  PROVE  LockInv'
<1> USE ThreadsAssumption DEF LockInv, Holder, PipelineLabels, SchedulerLabels
<1>1. /\ u \in Threads /\ NoThread \notin Threads /\ pc \in [Threads -> AllLabels]
      /\ after[u] \notin PipelineLabels /\ after[u] \notin SchedulerLabels
  BY ReturnsUnlocked, Zenon DEF Threads, TypeOK, ControlOK
<1>2. CASE AsyncStep(u) BY <1>1, <1>2, AsyncLocks, Zenon
<1>3. CASE Schedule(u) BY <1>1, <1>3, SMT, Z3 DEF Schedule, Queued, At, Goto, Call, locks
<1>4. CASE LoadDeadline(u) BY <1>1, <1>4, SMT, Z3 DEF LoadDeadline, Queued, At, Goto, Call, locks
<1>5. CASE CheckAllowed(u) BY <1>1, <1>5, SMT, Z3 DEF CheckAllowed, At, Goto, Call, locks
<1>6. CASE PushBegin(u) BY <1>1, <1>6, Zenon DEF PushBegin, At, Goto, locks
<1>7. CASE PushEnd(u) BY <1>1, <1>7, Zenon DEF PushEnd, At, Goto, locks
<1>8. CASE ScheduleIfNoFrames(u) BY <1>1, <1>8, SMT, Z3 DEF ScheduleIfNoFrames, Queued, Caller,
     Queued, At, Goto, Call, locks
<1>9. CASE TryLockInPlace(u) BY <1>1, <1>9, SMT, Z3 DEF TryLockInPlace, Queued, At, Goto, Call
<1>10. CASE ProcessInPlace(u) BY <1>1, <1>10 DEF ProcessInPlace, At, Goto, locks
<1>11. CASE FinishInPlace(u) BY <1>1, <1>11 DEF FinishInPlace, At, Goto, locks
<1>12. CASE ReadFramesInPlace(u) BY <1>1, <1>12 DEF ReadFramesInPlace, At, Goto, locks
<1>13. CASE UnlockInPlace(u) BY <1>1, <1>13 DEF UnlockInPlace, At, Goto
<1>14. CASE RecheckInPlace(u) BY <1>1, <1>14, SMT, Z3 DEF RecheckInPlace, Caller, Queued, At, Goto,
     Call, locks
<1>15. CASE WaitTask(u) BY <1>1, <1>15, Zenon DEF WaitTask, At, Goto, locks
<1> QED BY <1>2, <1>3, <1>4, <1>5, <1>6, <1>7, <1>8, <1>9, <1>10, <1>11, <1>12, <1>13,
     <1>14, <1>15, Zenon DEF UserStep

\* So does process_tasks().
LEMMA ProcLocks ==
  ASSUME TypeOK, LockInv, ProcessTasks \/ ProcStep
  PROVE  LockInv'
<1> USE ThreadsAssumption DEF LockInv, Holder, PipelineLabels, SchedulerLabels
<1>1. /\ Proc \in Threads /\ NoThread \notin Threads /\ pc \in [Threads -> AllLabels]
      /\ after[Proc] \notin PipelineLabels /\ after[Proc] \notin SchedulerLabels
  BY ReturnsUnlocked, Zenon DEF Threads, TypeOK, ControlOK
<1>2. CASE AsyncStep(Proc) BY <1>1, <1>2, AsyncLocks, Zenon
<1>3. CASE ProcessTasks BY <1>1, <1>3, Zenon DEF ProcessTasks, At, Goto, locks
<1>4. CASE ProcLoadDeadline BY <1>1, <1>4, Zenon DEF ProcLoadDeadline, At, Goto, locks
<1>5. CASE ProcTryLock BY <1>1, <1>5, SMT, Z3 DEF ProcTryLock, TryLockPipeline, At, Goto
<1>6. CASE ProcRunning BY <1>1, <1>6, Zenon DEF ProcRunning, At, Goto, locks
<1>7. CASE ProcCheckAllowed BY <1>1, <1>7 DEF ProcCheckAllowed, At, Goto, locks
<1>8. CASE ProcCheckFrames BY <1>1, <1>8 DEF ProcCheckFrames, At, Goto, locks
<1>9. CASE ProcPop BY <1>1, <1>9, SMT, Z3 DEF ProcPop, TryPop, At, Goto, locks
<1>10. CASE ProcProcessTask BY <1>1, <1>10, Zenon DEF ProcProcessTask, At, Goto, locks
<1>11. CASE ProcFinishTask BY <1>1, <1>11 DEF ProcFinishTask, At, Goto, locks
<1>12. CASE ProcUnlock BY <1>1, <1>12, Zenon DEF ProcUnlock, At, Goto
<1>13. CASE ProcRecheck BY <1>1, <1>13, Zenon DEF ProcRecheck, At, Goto, locks
<1>14. CASE ProcReset BY <1>1, <1>14, SMT, Z3 DEF ProcReset, At, Goto, Call, locks
<1> QED BY <1>2, <1>3, <1>4, <1>5, <1>6, <1>7, <1>8, <1>9, <1>10, <1>11, <1>12, <1>13, <1>14, Zenon DEF ProcStep

\* So does process_subframes_and_tasks().
LEMMA FrameLocks ==
  ASSUME TypeOK, LockInv, NEW f \in Frames, StartFrame(f) \/ FrameStep(f)
  PROVE  LockInv'
<1> USE ThreadsAssumption DEF LockInv, Holder, PipelineLabels, SchedulerLabels
<1>1. /\ f \in Threads /\ NoThread \notin Threads /\ pc \in [Threads -> AllLabels]
      /\ after[f] \notin PipelineLabels /\ after[f] \notin SchedulerLabels
  BY ReturnsUnlocked, Zenon DEF Threads, TypeOK, ControlOK
<1>2. CASE AsyncStep(f) BY <1>1, <1>2, AsyncLocks, Zenon
<1>3. CASE StartFrame(f) BY <1>1, <1>3, Zenon DEF StartFrame, At, Call, locks
<1>4. CASE LockFrame(f) BY <1>1, <1>4, Zenon DEF LockFrame, At, Goto
<1>5. CASE ProcessSubframe(f) BY <1>1, <1>5 DEF ProcessSubframe, At, Goto, locks
<1>6. CASE StoreDeadlineBegin(f) BY <1>1, <1>6, Zenon DEF StoreDeadlineBegin, At, Goto, locks
<1>7. CASE StoreDeadlineEnd(f) BY <1>1, <1>7, Zenon DEF StoreDeadlineEnd, At, Goto, locks
<1>8. CASE StartSubframeTasks(f) BY <1>1, <1>8, SMT, Z3 DEF StartSubframeTasks, At, Goto, locks
<1>9. CASE FramePop(f) BY <1>1, <1>9 DEF FramePop, TryPop, At, Goto, locks
<1>10. CASE FrameProcessTask(f) BY <1>1, <1>10, Zenon DEF FrameProcessTask, At, Goto, locks
<1>11. CASE FrameFinishTask(f) BY <1>1, <1>11 DEF FrameFinishTask, At, Goto, locks
<1>12. CASE NextSubframe(f) BY <1>1, <1>12, SMT, Z3 DEF NextSubframe, At, Goto, locks
<1>13. CASE ReportStats(f) BY <1>1, <1>13, SMT, Z3 DEF ReportStats, TryLockScheduler, At, Goto
<1>14. CASE ReportStatsUnlock(f) BY <1>1, <1>14, Zenon DEF ReportStatsUnlock, At, Goto
<1>15. CASE StoreFrameTid(f) BY <1>1, <1>15, Zenon DEF StoreFrameTid, At, Goto, locks
<1>16. CASE UnlockFrame(f) BY <1>1, <1>16, Zenon DEF UnlockFrame, At, Goto
<1>17. CASE EndFrame(f) BY <1>1, <1>17, Zenon DEF EndFrame, At, Goto, locks
<1>18. CASE RecheckFrame(f) BY <1>1, <1>18, Zenon DEF RecheckFrame, At, Call, locks
<1> QED BY <1>2, <1>3, <1>4, <1>5, <1>6, <1>7, <1>8, <1>9, <1>10, <1>11, <1>12, <1>13,
     <1>14, <1>15, <1>16, <1>17, <1>18, Zenon DEF FrameStep

\* In every reachable state the holder of each mutex is the thread that is
\* between its lock and its unlock, for any number of threads.
THEOREM LocksHeld == Spec => []LockInv
<1>1. Init => LockInv
  BY ThreadsAssumption, SMT, Z3 DEF Init, LockInv, Holder, PipelineLabels, SchedulerLabels, Threads
<1>2. TypeOK /\ LockInv /\ [Next]_vars => LockInv'
  <2> SUFFICES ASSUME TypeOK, LockInv, [Next]_vars PROVE LockInv' BY Zenon
  <2>1. CASE UNCHANGED vars BY <2>1, Zenon DEF LockInv, Holder, vars, locks
  <2> QED BY <2>1, UserLocks, ProcLocks, FrameLocks, Zenon DEF Next
<1> QED BY <1>1, <1>2, TypeCorrect, PTL DEF Spec

\* Frames and tasks never run at the same time, and neither do two tasks: at most
\* one thread is between pipeline_mutex_ lock and unlock.
THEOREM Exclusion == Spec => []PipelineExclusive
<1>1. LockInv => PipelineExclusive BY Zenon DEF LockInv, Holder, PipelineExclusive
<1> QED BY <1>1, LocksHeld, PTL

\* The calls to the IPipelineTaskScheduler are serialized, as its documentation
\* promises to the implementers.
THEOREM SchedulerCallsSerialized == Spec => []SchedulerSerialized
<1>1. LockInv => SchedulerSerialized BY ZenonT(30) DEF LockInv, Holder, SchedulerSerialized
<1> QED BY <1>1, LocksHeld, PTL

-----------------------------------------------------------------------------
(***************************************************************************)
(* Tasks are run once and waited for safely.                               *)
(***************************************************************************)
\* What is queued are tasks of the users.
LEMMA EnqueuedTyped ==
  ASSUME TypeOK
  PROVE  Enqueued \subseteq Users
BY SMT, Z3 DEF TypeOK, DataOK, Enqueued

\* push_back() adds one task to the queue and keeps its elements distinct.
LEMMA Pushed ==
  ASSUME DataOK, QueueInv, NEW u \in Users, u \notin Enqueued,
         task_queue' = Append(task_queue, u), task_state[u] = "Scheduled", UNCHANGED task_state
  PROVE  QueueInv' /\ Enqueued' = Enqueued \cup {u}
<1> DEFINE q == task_queue
           n == Len(q)
<1>1. q \in Seq(Users) /\ n \in Nat /\ DOMAIN q = 1..n BY SMT, Z3 DEF DataOK
<1>2. Append(q, u) \in Seq(Users) /\ Len(Append(q, u)) = n + 1 BY <1>1, SMT, Z3
<1>3. \A i \in 1..(n + 1) : Append(q, u)[i] = IF i <= n THEN q[i] ELSE u BY <1>1, SMT, Z3
<1>4. Enqueued' = Enqueued \cup {u}
  <2>1. Enqueued' = {Append(q, u)[i] : i \in 1..(n + 1)} BY <1>2, Zenon DEF Enqueued
  <2>2. \A x : x \in Enqueued' <=> x \in Enqueued \/ x = u
    <3> TAKE x
    <3>1. ASSUME x \in Enqueued' PROVE x \in Enqueued \/ x = u
      <4>1. PICK i \in 1..(n + 1) : x = Append(q, u)[i] BY <2>1, <3>1, Zenon
      <4>2. CASE i <= n
        <5>1. i \in 1..n /\ x = q[i] BY <4>1, <4>2, <1>1, <1>3, SMT, Z3
        <5> QED BY <5>1, Zenon DEF Enqueued
      <4> QED BY <4>1, <4>2, <1>1, <1>3, Zenon
    <3>2. ASSUME x \in Enqueued PROVE x \in Enqueued'
      <4>1. PICK i \in 1..n : x = q[i] BY <3>2, Zenon DEF Enqueued
      <4>2. i \in 1..(n + 1) /\ x = Append(q, u)[i] BY <4>1, <1>1, <1>3, SMT, Z3
      <4> QED BY <4>2, <2>1, Zenon
    <3>3. ASSUME x = u PROVE x \in Enqueued'
      <4>1. n + 1 \in 1..(n + 1) /\ x = Append(q, u)[n + 1] BY <3>3, <1>1, <1>3, SMT, Z3
      <4> QED BY <4>1, <2>1, Zenon
    <3> QED BY <3>1, <3>2, <3>3, Zenon
  <2> QED BY <2>2, Zenon
<1>5. \A i \in 1..n : q[i] # u BY Zenon DEF Enqueued
<1>6. \A i, j \in 1..(n + 1) : Append(q, u)[i] = Append(q, u)[j] => i = j
  BY <1>1, <1>3, <1>5, SMT, Z3 DEF QueueInv
<1> QED BY <1>2, <1>4, <1>6, Zenon DEF QueueInv

\* try_pop() removes the oldest task, and it is nowhere else in the queue.
LEMMA Removed ==
  ASSUME DataOK, QueueInv, task_queue # <<>>, task_queue' = Tail(task_queue), UNCHANGED task_state
  PROVE  /\ QueueInv' /\ Head(task_queue) \in Enqueued \cap Users
         /\ Enqueued' = Enqueued \ {Head(task_queue)}
<1> DEFINE q == task_queue
           n == Len(q)
<1>1. q \in Seq(Users) /\ n \in Nat \ {0} /\ DOMAIN q = 1..n /\ Head(q) = q[1] BY SMT, Z3 DEF DataOK
<1>2. Tail(q) \in Seq(Users) /\ Len(Tail(q)) = n - 1 BY <1>1, SMT, Z3
<1>3. \A i \in 1..(n - 1) : Tail(q)[i] = q[i + 1] BY <1>1, SMT, Z3
<1>4. Head(q) \in Enqueued \cap Users
  <2>1. 1 \in 1..n /\ q[1] \in Users BY <1>1, SMT, Z3
  <2> QED BY <2>1, <1>1, Zenon DEF Enqueued
<1>5. Enqueued' = Enqueued \ {Head(q)}
  <2>1. Enqueued' = {Tail(q)[i] : i \in 1..(n - 1)} BY <1>2, Zenon DEF Enqueued
  <2>2. \A x : x \in Enqueued' <=> x \in Enqueued /\ x # q[1]
    <3> TAKE x
    <3>1. ASSUME x \in Enqueued' PROVE x \in Enqueued /\ x # q[1]
      <4>1. PICK i \in 1..(n - 1) : x = Tail(q)[i] BY <2>1, <3>1, Zenon
      <4>2. i + 1 \in 1..n /\ x = q[i + 1] /\ i + 1 # 1 /\ 1 \in 1..n BY <4>1, <1>1, <1>3, SMT, Z3
      <4> QED BY <4>2, Zenon DEF Enqueued, QueueInv
    <3>2. ASSUME x \in Enqueued, x # q[1] PROVE x \in Enqueued'
      <4>1. PICK i \in 1..n : x = q[i] BY <3>2, Zenon DEF Enqueued
      <4>2. i # 1 BY <3>2, <4>1, Zenon
      <4>3. i - 1 \in 1..(n - 1) /\ (i - 1) + 1 = i BY <4>1, <4>2, <1>1, SMT, Z3
      <4>4. x = Tail(q)[i - 1] BY <4>1, <4>3, <1>3, Zenon
      <4> QED BY <4>3, <4>4, <2>1, Zenon
    <3> QED BY <3>1, <3>2, Zenon
  <2> QED BY <2>2, <1>1, Zenon
<1>6. \A i, j \in 1..(n - 1) : Tail(q)[i] = Tail(q)[j] => i = j
  <2> TAKE i, j \in 1..(n - 1)
  <2> HAVE Tail(q)[i] = Tail(q)[j]
  <2>1. i + 1 \in 1..n /\ j + 1 \in 1..n /\ q[i + 1] = q[j + 1] BY <1>1, <1>3, SMT, Z3
  <2>2. i + 1 = j + 1 BY <2>1, Zenon DEF QueueInv
  <2> QED BY <2>2, SMT, Z3
<1> QED BY <1>2, <1>4, <1>5, <1>6, Zenon DEF QueueInv

\* While the queue does not change, neither does the set of queued tasks.
LEMMA SameQueue == ASSUME UNCHANGED task_queue PROVE Enqueued' = Enqueued
BY Zenon DEF Enqueued

\* A step of a thread that moves no task and does not touch its state.
Quiet(t) ==
    /\ UNCHANGED <<task_queue, task_state>>
    /\ \A s \in Threads \ {t} : pc'[s] = pc[s] /\ after'[s] = after[s] /\ current'[s] = current[s]
    /\ pc'[t] \notin {"p_process", "f_process", "p_finish", "f_finish"}
    /\ t \in Users =>
          /\ pc'[t] \notin {"idle", "finish"} /\ current'[t] = current[t]
          /\ pc'[t] \in Unqueued => pc[t] \in Unqueued
          /\ pc'[t] \in {"push", "link"} \cup AsyncLabels => after'[t] # "idle"

\* A step that moreover leaves the counter and the semaphores alone.
FinishLabels == {"finish", "p_finish", "f_finish"}
Silent(t) ==
    /\ Quiet(t) /\ UNCHANGED <<sem, pending_tasks>> /\ {pc[t], pc'[t]} \cap FinishLabels = {}
    /\ t \in Waiters /\ (pc'[t] = "done" \/ after'[t] = "done") => current[t] = t

\* Such a step leaves every task where it was.
LEMMA QuietKeeps ==
  ASSUME TaskInv, NEW t \in Threads, Quiet(t)
  PROVE  TaskInv'
<1>1. Users \subseteq Threads BY Zenon DEF Threads
<1>2. Enqueued' = Enqueued /\ UNCHANGED <<task_queue, task_state>> BY SameQueue, Zenon DEF Quiet
<1>3. QueueInv' BY <1>2, Zenon DEF TaskInv, QueueInv
<1>4. ASSUME NEW u \in Users
      PROVE  /\ pc'[u] = "idle" => task_state[u] = "New"
             /\ pc'[u] \in Unqueued => task_state[u] = "Scheduled" /\ u \notin Enqueued
             /\ pc'[u] \in {"push", "link"} \cup AsyncLabels => after'[u] # "idle"
             /\ pc'[u] = "finish" \/ current'[u] = u => task_state[u] = "Finished"
  <2>1. CASE u = t BY <2>1, Zenon DEF Quiet, TaskInv, UserTaskInv
  <2>2. CASE u # t BY <1>1, <2>2, Zenon DEF Quiet, TaskInv, UserTaskInv
  <2> QED BY <2>1, <2>2, Zenon
<1>5. UserTaskInv' BY <1>2, <1>4, Zenon DEF UserTaskInv
<1>6. \A u \in Users : pc'[u] \in Unqueued => pc[u] \in Unqueued BY <1>1, Zenon DEF Quiet
<1>7. ASSUME NEW s \in Threads
      PROVE  /\ pc'[s] \in {"p_process", "f_process"} =>
                   /\ current'[s] \in Users /\ task_state[current'[s]] = "Scheduled"
                   /\ current'[s] \notin Enqueued /\ pc'[current'[s]] \notin Unqueued
             /\ pc'[s] \in {"p_finish", "f_finish"} =>
                   current'[s] \in Users /\ task_state[current'[s]] = "Finished"
  <2>1. CASE s = t BY <2>1, Zenon DEF Quiet
  <2>2. CASE s # t
    <3>1. pc'[s] = pc[s] /\ current'[s] = current[s] BY <2>2, Zenon DEF Quiet
    <3> QED BY <1>6, <3>1, Zenon DEF TaskInv, PoppedInv
  <2> QED BY <2>1, <2>2, Zenon
<1>8. PoppedInv' BY <1>2, <1>7, Zenon DEF PoppedInv
<1> QED BY <1>3, <1>5, <1>8, Zenon DEF TaskInv

\* It leaves the waiting users alone.
LEMMA SilentWait ==
  ASSUME TypeOK, TaskInv, WaitInv, NEW t \in Threads, Silent(t)
  PROVE  WaitInv'
<1>1. Waiters \subseteq Users /\ Users \subseteq Threads BY ThreadsAssumption, Zenon DEF Threads
<1>2. UNCHANGED <<sem, task_state>> BY Zenon DEF Silent, Quiet
<1>3. ASSUME NEW u \in Waiters
      PROVE  /\ sem[u] \in {0, 1}
             /\ sem[u] = 1 => task_state[u] = "Finished" /\ current'[u] # u /\ pc'[u] # "done"
             /\ pc'[u] = "done" => task_state[u] = "Finished"
             /\ after'[u] = "done" => current'[u] = u
  <2>1. u \in Users /\ u \in Threads BY <1>1, Zenon
  <2>2. CASE u # t
    <3>1. pc'[u] = pc[u] /\ after'[u] = after[u] /\ current'[u] = current[u]
      BY <2>1, <2>2, Zenon DEF Silent, Quiet
    <3> QED BY <3>1, Zenon DEF WaitInv
  <2>3. CASE u = t
    <3>1. current'[u] = current[u] /\ (pc'[u] = "done" \/ after'[u] = "done" => current[u] = u)
      BY <2>1, <2>3, Zenon DEF Silent, Quiet
    <3>2. current[u] = u => task_state[u] = "Finished" BY <2>1, Zenon DEF TaskInv, UserTaskInv
    <3> QED BY <3>1, <3>2, Zenon DEF WaitInv
  <2> QED BY <2>2, <2>3, Zenon
<1> QED BY <1>2, <1>3, Zenon DEF WaitInv

\* Asynchronous scheduling is silent,
LEMMA AsyncSilent ==
  ASSUME TypeOK, TaskInv, WaitInv, NEW t \in Threads, AsyncStep(t)
  PROVE  Silent(t)
<1> USE ThreadsAssumption
<1>1. /\ t \in Threads /\ pc \in [Threads -> AllLabels] /\ after \in [Threads -> AllLabels]
      /\ current \in [Threads -> Users \cup {NoThread}] /\ Users \subseteq Threads
      /\ NoThread \notin Threads /\ after[t] \in Returns(t)
  BY Zenon DEF Threads, TypeOK, ControlOK, DataOK
<1>2. /\ t \in Users /\ pc[t] \in {"push", "link"} \cup AsyncLabels => after[t] # "idle"
      /\ t \in Waiters /\ after[t] = "done" => current[t] = t
  BY Zenon DEF TaskInv, UserTaskInv, WaitInv
<1>3. CASE AsyncLoadDeadline(t)
  BY <1>1, <1>2, <1>3, Zenon DEF AsyncLoadDeadline, At, Returns, Goto, tasks, locals, Silent, Quiet,
     FinishLabels, counters, Unqueued, AsyncLabels
<1>4. CASE AsyncTryLock(t)
  BY <1>1, <1>2, <1>4, Zenon DEF AsyncTryLock, TryLockScheduler, At, Returns, Goto, tasks, locals,
     Silent, Quiet, FinishLabels, counters, Unqueued, AsyncLabels
<1>5. CASE AsyncSchedule(t)
  BY <1>1, <1>2, <1>5, Zenon DEF AsyncSchedule, At, Returns, Goto, tasks, locals, Silent, Quiet,
     FinishLabels, counters, Unqueued, AsyncLabels
<1>6. CASE AsyncSetState(t)
  BY <1>1, <1>2, <1>6, Zenon DEF AsyncSetState, At, Returns, Goto, tasks, locals, Silent, Quiet,
     FinishLabels, counters, Unqueued, AsyncLabels
<1>7. CASE AsyncUnlock(t)
  BY <1>1, <1>2, <1>7, Zenon DEF AsyncUnlock, At, Returns, Goto, tasks, locals, Silent, Quiet,
     FinishLabels, counters, Unqueued, AsyncLabels
<1>8. CASE AsyncRecheckFrames(t)
  BY <1>1, <1>2, <1>8, Zenon DEF AsyncRecheckFrames, At, Returns, Goto, tasks, locals, Silent, Quiet,
     FinishLabels, counters, Unqueued, AsyncLabels
<1>9. CASE CancelTryLock(t)
  BY <1>1, <1>2, <1>9, Zenon DEF CancelTryLock, TryLockScheduler, At, Returns, Goto, tasks, locals,
     Silent, Quiet, FinishLabels, counters, Unqueued, AsyncLabels
<1>10. CASE CancelSchedule(t)
  BY <1>1, <1>2, <1>10, Zenon DEF CancelSchedule, At, Returns, Goto, tasks, locals, Silent, Quiet,
     FinishLabels, counters, Unqueued, AsyncLabels
<1>11. CASE CancelSetState(t)
  BY <1>1, <1>2, <1>11, Zenon DEF CancelSetState, At, Returns, Goto, tasks, locals, Silent, Quiet,
     FinishLabels, counters, Unqueued, AsyncLabels
<1>12. CASE CancelUnlock(t)
  BY <1>1, <1>2, <1>12, Zenon DEF CancelUnlock, At, Returns, Goto, tasks, locals, Silent, Quiet,
     FinishLabels, counters, Unqueued, AsyncLabels
<1> QED BY <1>3, <1>4, <1>5, <1>6, <1>7, <1>8, <1>9, <1>10, <1>11, <1>12, Zenon DEF AsyncStep

\* and so are the steps of a user that neither move, run nor wait for a task,
LEMMA UserSilent ==
  ASSUME TypeOK, TaskInv, WaitInv, NEW u \in Users,
         LoadDeadline(u) \/ CheckAllowed(u) \/ PushEnd(u) \/ ScheduleIfNoFrames(u) \/
         TryLockInPlace(u) \/ ReadFramesInPlace(u) \/ UnlockInPlace(u) \/
         RecheckInPlace(u)
  PROVE  Silent(u)
<1> USE ThreadsAssumption
<1>1. /\ u \in Threads /\ pc \in [Threads -> AllLabels] /\ after \in [Threads -> AllLabels]
      /\ current \in [Threads -> Users \cup {NoThread}] /\ Users \subseteq Threads
      /\ NoThread \notin Threads /\ after[u] \in Returns(u)
  BY Zenon DEF Threads, TypeOK, ControlOK, DataOK
<1>2. /\ u \in Users /\ pc[u] \in {"push", "link"} \cup AsyncLabels => after[u] # "idle"
      /\ u \in Waiters /\ after[u] = "done" => current[u] = u
  BY Zenon DEF TaskInv, UserTaskInv, WaitInv
<1>3. CASE LoadDeadline(u)
  BY <1>1, <1>2, <1>3, Zenon DEF LoadDeadline, Queued, At, Returns, Goto, Call, tasks, locals, Silent,
     Quiet, FinishLabels, counters, Unqueued, AsyncLabels
<1>4. CASE CheckAllowed(u)
  BY <1>1, <1>2, <1>4, ZenonT(30) DEF CheckAllowed, At, Returns, Goto, Call, tasks, locals, Silent, Quiet,
     FinishLabels, counters, Unqueued, AsyncLabels
<1>5. CASE PushEnd(u)
  BY <1>1, <1>2, <1>5, Zenon DEF PushEnd, At, Returns, Goto, locals, Silent, Quiet, FinishLabels,
     counters, Unqueued, AsyncLabels
<1>6. CASE ScheduleIfNoFrames(u)
  BY <1>1, <1>2, <1>6, SMT, Z3 DEF ScheduleIfNoFrames, Queued, Caller, At, Returns, Goto, Call, tasks,
     locals, Silent, Quiet, FinishLabels, counters, Unqueued, AsyncLabels
<1>7. CASE TryLockInPlace(u)
  BY <1>1, <1>2, <1>7, ZenonT(30) DEF TryLockInPlace, Queued, At, Returns, Goto, Call, tasks, locals,
     Silent, Quiet, FinishLabels, counters, Unqueued, AsyncLabels
<1>8. CASE ReadFramesInPlace(u)
  BY <1>1, <1>2, <1>8, Zenon DEF ReadFramesInPlace, At, Returns, Goto, tasks, Silent, Quiet,
     FinishLabels, counters, Unqueued, AsyncLabels
<1>9. CASE UnlockInPlace(u)
  BY <1>1, <1>2, <1>9, Zenon DEF UnlockInPlace, At, Returns, Goto, tasks, locals, Silent, Quiet,
     FinishLabels, counters, Unqueued, AsyncLabels
<1>10. CASE RecheckInPlace(u)
  BY <1>1, <1>2, <1>10, SMT, Z3 DEF RecheckInPlace, Caller, Queued, At, Returns, Goto, Call, tasks,
     Silent, Quiet, FinishLabels, counters, Unqueued, AsyncLabels
<1> QED BY <1>3, <1>4, <1>5, <1>6, <1>7, <1>8, <1>9, <1>10, Zenon

\* of the task-processing thread
LEMMA ProcSilent ==
  ASSUME TypeOK,
         ProcessTasks \/ ProcLoadDeadline \/ ProcTryLock \/ ProcRunning \/
         ProcCheckAllowed \/ ProcCheckFrames \/ ProcUnlock \/ ProcRecheck \/ ProcReset
  PROVE  Silent(Proc)
<1> USE ThreadsAssumption
<1>1. /\ Proc \in Threads /\ pc \in [Threads -> AllLabels] /\ after \in [Threads -> AllLabels]
      /\ current \in [Threads -> Users \cup {NoThread}] /\ Users \subseteq Threads
      /\ NoThread \notin Threads /\ after[Proc] \in Returns(Proc)
  BY Zenon DEF Threads, TypeOK, ControlOK, DataOK
<1>2. Proc \notin Users /\ Proc \notin Waiters BY Zenon
<1>3. CASE ProcessTasks
  BY <1>1, <1>2, <1>3, Zenon DEF ProcessTasks, At, Goto, tasks, locals, Silent, Quiet, FinishLabels,
     counters
<1>4. CASE ProcLoadDeadline
  BY <1>1, <1>2, <1>4, Zenon DEF ProcLoadDeadline, At, Goto, tasks, locals, Silent, Quiet,
     FinishLabels, counters
<1>5. CASE ProcTryLock
  BY <1>1, <1>2, <1>5, Zenon DEF ProcTryLock, TryLockPipeline, At, Goto, tasks, locals, Silent, Quiet,
     FinishLabels, counters
<1>6. CASE ProcRunning
  BY <1>1, <1>2, <1>6, Zenon DEF ProcRunning, At, Goto, tasks, locals, Silent, Quiet, FinishLabels,
     counters
<1>7. CASE ProcCheckAllowed
  BY <1>1, <1>2, <1>7, Zenon DEF ProcCheckAllowed, At, Goto, tasks, locals, Silent, Quiet,
     FinishLabels, counters
<1>8. CASE ProcCheckFrames
  BY <1>1, <1>2, <1>8, Zenon DEF ProcCheckFrames, At, Goto, tasks, Silent, Quiet, FinishLabels,
     counters
<1>9. CASE ProcUnlock
  BY <1>1, <1>2, <1>9, Zenon DEF ProcUnlock, At, Goto, tasks, locals, Silent, Quiet, FinishLabels,
     counters
<1>10. CASE ProcRecheck
  BY <1>1, <1>2, <1>10, Zenon DEF ProcRecheck, At, Goto, tasks, Silent, Quiet, FinishLabels, counters
<1>11. CASE ProcReset
  BY <1>1, <1>2, <1>11, Zenon DEF ProcReset, At, Goto, Call, tasks, locals, Silent, Quiet,
     FinishLabels, counters
<1> QED BY <1>3, <1>4, <1>5, <1>6, <1>7, <1>8, <1>9, <1>10, <1>11, Zenon

\* and of a frame thread.
LEMMA FrameSilent ==
  ASSUME TypeOK, NEW f \in Frames,
         StartFrame(f) \/ LockFrame(f) \/ ProcessSubframe(f) \/ StoreDeadlineBegin(f) \/
         StoreDeadlineEnd(f) \/ StartSubframeTasks(f) \/ NextSubframe(f) \/
         ReportStats(f) \/ ReportStatsUnlock(f) \/ StoreFrameTid(f) \/ UnlockFrame(f) \/
         EndFrame(f) \/ RecheckFrame(f)
  PROVE  Silent(f)
<1> USE ThreadsAssumption
<1>1. /\ f \in Threads /\ pc \in [Threads -> AllLabels] /\ after \in [Threads -> AllLabels]
      /\ current \in [Threads -> Users \cup {NoThread}] /\ Users \subseteq Threads
      /\ NoThread \notin Threads /\ after[f] \in Returns(f)
  BY Zenon DEF Threads, TypeOK, ControlOK, DataOK
<1>2. f \notin Users /\ f \notin Waiters BY Zenon
<1>3. CASE StartFrame(f)
  BY <1>1, <1>2, <1>3, Zenon DEF StartFrame, At, Call, tasks, locals, Silent, Quiet, FinishLabels,
     counters
<1>4. CASE LockFrame(f)
  BY <1>1, <1>2, <1>4, Zenon DEF LockFrame, At, Goto, tasks, locals, Silent, Quiet, FinishLabels,
     counters
<1>5. CASE ProcessSubframe(f)
  BY <1>1, <1>2, <1>5, Zenon DEF ProcessSubframe, At, Goto, tasks, Silent, Quiet, FinishLabels,
     counters
<1>6. CASE StoreDeadlineBegin(f)
  BY <1>1, <1>2, <1>6, Zenon DEF StoreDeadlineBegin, At, Goto, tasks, locals, Silent, Quiet,
     FinishLabels, counters
<1>7. CASE StoreDeadlineEnd(f)
  BY <1>1, <1>2, <1>7, Zenon DEF StoreDeadlineEnd, At, Goto, tasks, locals, Silent, Quiet,
     FinishLabels, counters
<1>8. CASE StartSubframeTasks(f)
  BY <1>1, <1>2, <1>8, Zenon DEF StartSubframeTasks, At, Goto, tasks, locals, Silent, Quiet,
     FinishLabels, counters
<1>9. CASE NextSubframe(f)
  BY <1>1, <1>2, <1>9, Zenon DEF NextSubframe, At, Goto, tasks, Silent, Quiet, FinishLabels, counters
<1>10. CASE ReportStats(f)
  BY <1>1, <1>2, <1>10, Zenon DEF ReportStats, TryLockScheduler, At, Goto, tasks, locals, Silent,
     Quiet, FinishLabels, counters
<1>11. CASE ReportStatsUnlock(f)
  BY <1>1, <1>2, <1>11, Zenon DEF ReportStatsUnlock, At, Goto, tasks, locals, Silent, Quiet,
     FinishLabels, counters
<1>12. CASE StoreFrameTid(f)
  BY <1>1, <1>2, <1>12, Zenon DEF StoreFrameTid, At, Goto, tasks, locals, Silent, Quiet, FinishLabels,
     counters
<1>13. CASE UnlockFrame(f)
  BY <1>1, <1>2, <1>13, Zenon DEF UnlockFrame, At, Goto, tasks, locals, Silent, Quiet, FinishLabels,
     counters
<1>14. CASE EndFrame(f)
  BY <1>1, <1>2, <1>14, Zenon DEF EndFrame, At, Goto, tasks, locals, Silent, Quiet, FinishLabels,
     counters
<1>15. CASE RecheckFrame(f)
  BY <1>1, <1>2, <1>15, Zenon DEF RecheckFrame, At, Call, tasks, locals, Silent, Quiet, FinishLabels,
     counters
<1> QED BY <1>3, <1>4, <1>5, <1>6, <1>7, <1>8, <1>9, <1>10, <1>11, <1>12, <1>13, <1>14, <1>15, Zenon
    

\* The other steps.
Active ==
    \/ \E u \in Users : \/ Schedule(u) \/ PushBegin(u) \/ ProcessInPlace(u) \/ FinishInPlace(u)
                        \/ WaitTask(u)
    \/ ProcPop \/ ProcProcessTask \/ ProcFinishTask
    \/ \E f \in Frames : FramePop(f) \/ FrameProcessTask(f) \/ FrameFinishTask(f)

\* Every step of the scheduler is silent or one of these.
LEMMA SilentOrActive ==
  ASSUME TypeOK, TaskInv, WaitInv, Next
  PROVE  Active \/ \E t \in Threads : Silent(t)
<1>1. Users \subseteq Threads /\ Frames \subseteq Threads /\ Proc \in Threads BY Zenon DEF Threads
<1>2. ASSUME NEW u \in Users, Schedule(u) \/ UserStep(u) PROVE Active \/ Silent(u)
  <2>1. CASE AsyncStep(u) BY <1>1, <2>1, AsyncSilent, Zenon
  <2> QED BY <1>2, <2>1, UserSilent, Zenon DEF Active, UserStep
<1>3. ASSUME ProcessTasks \/ ProcStep PROVE Active \/ Silent(Proc)
  <2>1. CASE AsyncStep(Proc) BY <1>1, <2>1, AsyncSilent, Zenon
  <2> QED BY <1>3, <2>1, ProcSilent, Zenon DEF Active, ProcStep
<1>4. ASSUME NEW f \in Frames, StartFrame(f) \/ FrameStep(f) PROVE Active \/ Silent(f)
  <2>1. CASE AsyncStep(f) BY <1>1, <2>1, AsyncSilent, Zenon
  <2> QED BY <1>4, <2>1, FrameSilent, Zenon DEF Active, FrameStep
<1> QED BY <1>1, <1>2, <1>3, <1>4, Zenon DEF Next

\* A thread that pops a task takes it out of the queue and into its hands.
LEMMA PopKeeps ==
  ASSUME TypeOK, TaskInv, NEW t \in Threads \ Users, NEW popped \in {"p_process", "f_process"},
         NEW empty \in {"p_unlock", "f_next"}, pc[t] \in {"p_pop", "f_pop"},
         TryPop(t, popped, empty)
  PROVE  TaskInv'
<1> USE ThreadsAssumption
<1>1. /\ pc \in [Threads -> AllLabels] /\ current \in [Threads -> Users \cup {NoThread}]
      /\ Users \subseteq Threads /\ NoThread \notin Threads
  BY Zenon DEF Threads, TypeOK, ControlOK, DataOK
<1>2. PICK task \in Popped :
         /\ current' = [current EXCEPT ![t] = task]
         /\ task_queue' = IF task = NoThread THEN task_queue ELSE Tail(task_queue)
         /\ Goto(t, IF task = NoThread THEN empty ELSE popped)
  BY Zenon DEF TryPop
<1>3. UNCHANGED <<task_state, after>> BY <1>2, Zenon DEF TryPop, Goto
<1>4. \A s \in Threads \ {t} : pc'[s] = pc[s] /\ current'[s] = current[s] BY <1>1, <1>2, Zenon DEF Goto
<1>5. CASE task = NoThread
  <2>1. pc'[t] = empty /\ UNCHANGED task_queue BY <1>1, <1>2, <1>5, Zenon DEF Goto
  <2>2. Quiet(t) BY <1>3, <1>4, <2>1, Zenon DEF Quiet
  <2> QED BY <2>2, QuietKeeps, Zenon
<1>6. CASE task # NoThread
  <2>1. task_queue # <<>> /\ task = Head(task_queue) BY <1>2, <1>6, Zenon DEF Popped
  <2>2. QueueInv' /\ task \in Enqueued \cap Users /\ Enqueued' = Enqueued \ {task}
    BY <1>2, <1>3, <1>6, <2>1, Removed, Zenon DEF TypeOK, TaskInv
  <2>3. task_state[task] = "Scheduled" BY <2>2, Zenon DEF TaskInv, QueueInv
  <2>4. pc'[t] = popped /\ current'[t] = task BY <1>1, <1>2, <1>6, Zenon DEF Goto
  <2>5. \A u \in Users : pc'[u] = pc[u] /\ after'[u] = after[u] /\ current'[u] = current[u]
    BY <1>1, <1>3, <1>4, Zenon
  <2>6. UserTaskInv'
    <3>1. \A u \in Users : u \notin Enqueued => u \notin Enqueued' BY <2>2, Zenon
    <3> QED BY <1>3, <2>5, <3>1, ZenonT(30) DEF TaskInv, UserTaskInv
  <2>7. pc'[task] \notin Unqueued BY <2>2, <2>5, Zenon DEF TaskInv, UserTaskInv
  <2>8. ASSUME NEW s \in Threads
        PROVE  /\ pc'[s] \in {"p_process", "f_process"} =>
                     /\ current'[s] \in Users /\ task_state[current'[s]] = "Scheduled"
                     /\ current'[s] \notin Enqueued' /\ pc'[current'[s]] \notin Unqueued
               /\ pc'[s] \in {"p_finish", "f_finish"} =>
                     current'[s] \in Users /\ task_state[current'[s]] = "Finished"
    <3>1. CASE s = t BY <2>2, <2>3, <2>4, <2>7, <3>1, Zenon
    <3>2. CASE s # t
      <4>1. pc'[s] = pc[s] /\ current'[s] = current[s] BY <1>4, <3>2, Zenon
      <4> QED BY <2>2, <2>5, <4>1, ZenonT(30) DEF TaskInv, PoppedInv
    <3> QED BY <3>1, <3>2, Zenon
  <2>9. PoppedInv' BY <1>3, <2>8, Zenon DEF PoppedInv
  <2> QED BY <2>2, <2>6, <2>9, Zenon DEF TaskInv
<1> QED BY <1>5, <1>6, Zenon

\* The task a thread has popped is run by that thread alone.
LEMMA RunKeeps ==
  ASSUME TypeOK, LockInv, TaskInv, NEW t \in Threads \ Users,
         pc[t] \in {"p_process", "f_process"}, ProcessTask(current[t], TRUE),
         NEW l \in {"p_finish", "f_finish"}, Goto(t, l), UNCHANGED current
  PROVE  TaskInv'
<1>1. /\ pc \in [Threads -> AllLabels] /\ task_state \in [Users -> TaskStates]
      /\ Users \subseteq Threads
  BY Zenon DEF Threads, TypeOK, ControlOK, DataOK
<1>2. /\ current[t] \in Users /\ task_state[current[t]] = "Scheduled"
      /\ current[t] \notin Enqueued /\ pc[current[t]] \notin Unqueued
  BY Zenon DEF TaskInv, PoppedInv
<1>3. /\ task_state' = [task_state EXCEPT ![current[t]] = "Finished"] /\ UNCHANGED task_queue
  BY Zenon DEF ProcessTask
<1>4. Enqueued' = Enqueued BY <1>3, SameQueue, Zenon
<1>5. QueueInv'
  <2>1. Enqueued \subseteq Users BY EnqueuedTyped, Zenon
  <2>2. \A u \in Users \ {current[t]} : task_state'[u] = task_state[u] BY <1>1, <1>3, Zenon
  <2> QED BY <1>2, <1>3, <1>4, <2>1, <2>2, Zenon DEF TaskInv, QueueInv
<1>6. /\ \A s \in Threads \ {t} : pc'[s] = pc[s]
      /\ \A u \in Users : pc'[u] = pc[u]
      /\ pc'[t] = l /\ UNCHANGED <<after, current>>
  BY <1>1, Zenon DEF Goto
<1>7. \A u \in Users \ {current[t]} : task_state'[u] = task_state[u] BY <1>1, <1>3, Zenon
<1>8. task_state'[current[t]] = "Finished" BY <1>1, <1>2, <1>3, Zenon
<1>9. pc[current[t]] # "idle" BY <1>2, Zenon DEF TaskInv, UserTaskInv
<1>10. UserTaskInv'
  <2>1. ASSUME NEW u \in Users
        PROVE  /\ pc'[u] = "idle" => task_state'[u] = "New"
               /\ pc'[u] \in Unqueued => task_state'[u] = "Scheduled" /\ u \notin Enqueued'
               /\ pc'[u] \in {"push", "link"} \cup AsyncLabels => after'[u] # "idle"
               /\ pc'[u] = "finish" \/ current'[u] = u => task_state'[u] = "Finished"
    <3>1. CASE u = current[t] BY <1>2, <1>4, <1>6, <1>8, <1>9, <3>1, Zenon DEF TaskInv, UserTaskInv
    <3>2. CASE u # current[t] BY <1>4, <1>6, <1>7, <3>2, Zenon DEF TaskInv, UserTaskInv
    <3> QED BY <3>1, <3>2, Zenon
  <2> QED BY <2>1, Zenon DEF UserTaskInv
<1>11. \A s \in Threads \ {t} : pc[s] \notin {"p_process", "f_process", "p_finish", "f_finish"}
  <2>1. pipeline_mutex = t BY Zenon DEF LockInv, Holder, PipelineLabels
  <2> QED BY <2>1, Zenon DEF LockInv, Holder, PipelineLabels
<1>12. PoppedInv' BY <1>2, <1>6, <1>8, <1>11, ZenonT(30) DEF PoppedInv
<1> QED BY <1>5, <1>10, <1>12, Zenon DEF TaskInv

\* The steps of a user keep the tasks in their places.
LEMMA ScheduleTasks ==
  ASSUME TypeOK, TaskInv, NEW u \in Users, Schedule(u)
  PROVE  TaskInv'
<1> USE ThreadsAssumption
<1>0. /\ u \in Threads /\ pc \in [Threads -> AllLabels] /\ after \in [Threads -> AllLabels]
      /\ current \in [Threads -> Users \cup {NoThread}] /\ Users \subseteq Threads
      /\ NoThread \notin Threads /\ after[u] \in Returns(u)
  BY Zenon DEF Threads, TypeOK, ControlOK, DataOK
<1>1. /\ pc[u] = "idle" /\ pc'[u] \in {"push", "load"} /\ UNCHANGED <<task_queue, current>>
      /\ task_state' = [task_state EXCEPT ![u] = "Scheduled"]
      /\ pc'[u] = "push" => after'[u] # "idle"
      /\ \A s \in Threads \ {u} : pc'[s] = pc[s] /\ after'[s] = after[s]
  BY <1>0, Zenon DEF Schedule, At, Call, Goto, Queued, locals
<1>2. Enqueued' = Enqueued BY <1>1, SameQueue, Zenon
<1>3. task_state[u] = "New" /\ u \notin Enqueued /\ current[u] # u
  BY <1>1, Zenon DEF TaskInv, UserTaskInv, QueueInv
<1>4. task_state \in [Users -> TaskStates] BY Zenon DEF TypeOK, DataOK
<1>5. /\ \A v \in Users \ {u} : task_state'[v] = task_state[v]
      /\ task_state'[u] = "Scheduled"
  BY <1>1, <1>4, Zenon
<1>6. QueueInv' 
  <2>1. Enqueued \subseteq Users BY EnqueuedTyped, Zenon
  <2> QED BY <1>1, <1>2, <1>3, <1>5, <2>1, Zenon DEF TaskInv, QueueInv
<1>7. UserTaskInv'
  <2>1. ASSUME NEW v \in Users, v # u
        PROVE  /\ pc'[v] = pc[v] /\ after'[v] = after[v] /\ current'[v] = current[v]
               /\ task_state'[v] = task_state[v]
    BY <1>0, <1>1, <1>5, <2>1, Zenon
  <2>2. pc'[u] \notin {"idle", "link", "finish"} \cup AsyncLabels BY <1>1, Zenon DEF AsyncLabels
  <2>3. current'[u] # u /\ u \notin Enqueued' BY <1>1, <1>2, <1>3, Zenon
  <2> DEFINE OK(v) == /\ pc[v] = "idle" => task_state[v] = "New"
                      /\ pc[v] \in Unqueued => task_state[v] = "Scheduled" /\ v \notin Enqueued
                      /\ pc[v] \in {"push", "link"} \cup AsyncLabels => after[v] # "idle"
                      /\ pc[v] = "finish" \/ current[v] = v => task_state[v] = "Finished"
  <2>4. OK(u)' BY <1>1, <1>5, <2>2, <2>3, Zenon
  <2>5. ASSUME NEW v \in Users, v # u PROVE OK(v)'
    <3>1. OK(v) BY Zenon DEF TaskInv, UserTaskInv
    <3> QED BY <1>2, <2>1, <2>5, <3>1, Zenon
  <2> QED BY <2>4, <2>5, Zenon DEF UserTaskInv
<1>8. PoppedInv'
  <2>1. ASSUME NEW s \in Threads, pc'[s] \in {"p_process", "f_process", "p_finish", "f_finish"}
        PROVE  /\ s # u /\ current[s] \in Users /\ current[s] # u
               /\ pc'[s] = pc[s] /\ pc'[current[s]] = pc[current[s]]
    BY <1>0, <1>1, <1>3, <2>1, Zenon DEF TaskInv, PoppedInv
  <2> QED BY <1>1, <1>2, <1>5, <2>1, ZenonT(30) DEF TaskInv, PoppedInv
<1> QED BY <1>6, <1>7, <1>8, Zenon DEF TaskInv

\* A user that pushes its task passes it from its own hands to the queue.
LEMMA PushBeginTasks ==
  ASSUME TypeOK, TaskInv, NEW u \in Users, PushBegin(u)
  PROVE  TaskInv'
<1> USE ThreadsAssumption
<1>0. /\ u \in Threads /\ pc \in [Threads -> AllLabels] /\ after \in [Threads -> AllLabels]
      /\ current \in [Threads -> Users \cup {NoThread}] /\ Users \subseteq Threads
      /\ NoThread \notin Threads /\ after[u] \in Returns(u)
  BY Zenon DEF Threads, TypeOK, ControlOK, DataOK
<1>1. /\ pc[u] = "push" /\ pc' = [pc EXCEPT ![u] = "link"] /\ UNCHANGED <<after, current, task_state>>
      /\ task_queue' = Append(task_queue, u)
  BY Zenon DEF PushBegin, At, Goto, locals
<1>2. task_state[u] = "Scheduled" /\ u \notin Enqueued /\ after[u] # "idle" /\ current[u] # u
  BY <1>1, Zenon DEF TaskInv, UserTaskInv, Unqueued
<1>3. QueueInv' /\ Enqueued' = Enqueued \cup {u} BY <1>1, <1>2, Pushed, Zenon DEF TypeOK, TaskInv
<1>4. pc'[u] = "link" /\ \A s \in Threads \ {u} : pc'[s] = pc[s] BY <1>0, <1>1, Zenon
<1>5. UserTaskInv' BY <1>0, <1>1, <1>2, <1>3, <1>4, Zenon DEF TaskInv, UserTaskInv, Unqueued
<1>6. PoppedInv'
  <2>1. ASSUME NEW s \in Threads, pc'[s] \in {"p_process", "f_process", "p_finish", "f_finish"}
        PROVE  s # u /\ pc'[s] = pc[s] /\ current[s] \in Users
    BY <1>4, <2>1, Zenon DEF TaskInv, PoppedInv
  <2>2. ASSUME NEW s \in Threads, pc[s] \in {"p_process", "f_process"}
        PROVE  current[s] # u /\ pc'[current[s]] = pc[current[s]]
    BY <1>0, <1>1, <1>4, <2>2, Zenon DEF TaskInv, PoppedInv, Unqueued
  <2> QED BY <1>1, <1>3, <2>1, <2>2, Zenon DEF TaskInv, PoppedInv
<1> QED BY <1>3, <1>5, <1>6, Zenon DEF TaskInv

\* A user that processes its task in place leaves it finished, and never
\* queued.
LEMMA ProcessInPlaceTasks ==
  ASSUME TypeOK, TaskInv, NEW u \in Users, ProcessInPlace(u)
  PROVE  TaskInv'
<1> USE ThreadsAssumption
<1>0. /\ u \in Threads /\ pc \in [Threads -> AllLabels] /\ after \in [Threads -> AllLabels]
      /\ current \in [Threads -> Users \cup {NoThread}] /\ Users \subseteq Threads
      /\ NoThread \notin Threads /\ after[u] \in Returns(u)
  BY Zenon DEF Threads, TypeOK, ControlOK, DataOK
<1>1. /\ pc[u] = "process" /\ pc' = [pc EXCEPT ![u] = "finish"] /\ UNCHANGED <<after, task_queue>>
      /\ task_state' = [task_state EXCEPT ![u] = "Finished"]
      /\ current' = [current EXCEPT ![u] = u]
  BY Zenon DEF ProcessInPlace, ProcessTask, At, Goto
<1>2. task_state[u] = "Scheduled" /\ u \notin Enqueued
  BY <1>1, Zenon DEF TaskInv, UserTaskInv, Unqueued
<1>3. Enqueued' = Enqueued BY <1>1, SameQueue, Zenon
<1>4. task_state \in [Users -> TaskStates] BY Zenon DEF TypeOK, DataOK
<1>5. /\ \A v \in Users \ {u} : task_state'[v] = task_state[v]
      /\ task_state'[u] = "Finished"
  BY <1>1, <1>4, Zenon
<1>6. /\ pc'[u] = "finish" /\ current'[u] = u
      /\ \A s \in Threads \ {u} : pc'[s] = pc[s] /\ current'[s] = current[s]
  BY <1>0, <1>1, Zenon
<1>7. QueueInv'
  <2>1. Enqueued \subseteq Users BY EnqueuedTyped, Zenon
  <2> QED BY <1>1, <1>2, <1>3, <1>5, <2>1, ZenonT(30) DEF TaskInv, QueueInv
<1>8. UserTaskInv'
  BY <1>0, <1>1, <1>3, <1>5, <1>6, SMT, Z3 DEF TaskInv, UserTaskInv, Unqueued, AsyncLabels
<1>9. PoppedInv'
  <2>1. ASSUME NEW s \in Threads, pc'[s] \in {"p_process", "f_process", "p_finish", "f_finish"}
        PROVE  /\ s # u /\ current'[s] = current[s] /\ current[s] \in Users /\ current[s] # u
               /\ pc'[s] = pc[s] /\ pc'[current[s]] = pc[current[s]]
    <3>1. s # u /\ pc'[s] = pc[s] /\ current'[s] = current[s] BY <1>6, <2>1, Zenon
    <3>2. current[s] \in Users /\ current[s] # u
      BY <1>1, <1>2, <2>1, <3>1, ZenonT(30) DEF TaskInv, PoppedInv, Unqueued
    <3> QED BY <1>0, <1>6, <3>1, <3>2, Zenon
  <2>2. ASSUME NEW s \in Threads, pc'[s] \in {"p_process", "f_process"}
        PROVE  /\ current'[s] \in Users /\ task_state'[current'[s]] = "Scheduled"
               /\ current'[s] \notin Enqueued /\ pc'[current'[s]] \notin Unqueued
    <3>1. /\ pc[s] \in {"p_process", "f_process"} /\ current'[s] = current[s] /\ current[s] \in Users \ {u}
          /\ pc'[current[s]] = pc[current[s]]
      BY <2>1, <2>2, Zenon
    <3>2. /\ task_state[current[s]] = "Scheduled" /\ current[s] \notin Enqueued
          /\ pc[current[s]] \notin Unqueued
      BY <3>1, Zenon DEF TaskInv, PoppedInv
    <3> QED BY <1>5, <3>1, <3>2, Zenon
  <2>3. ASSUME NEW s \in Threads, pc'[s] \in {"p_finish", "f_finish"}
        PROVE  current'[s] \in Users /\ task_state'[current'[s]] = "Finished"
    BY <1>5, <2>1, <2>3, SMT, Z3 DEF TaskInv, PoppedInv
  <2> QED BY <1>3, <2>2, <2>3, Zenon DEF PoppedInv
<1> QED BY <1>7, <1>8, <1>9, Zenon DEF TaskInv

\* Every other step that moves, runs or waits for a task keeps them there too.
LEMMA ActiveTasks ==
  ASSUME TypeOK, LockInv, TaskInv, Active
  PROVE  TaskInv'
<1>1. /\ Users \subseteq Threads /\ Frames \subseteq Threads /\ Proc \in Threads
      /\ Frames \cap Users = {} /\ Proc \notin Users
      /\ pc \in [Threads -> AllLabels] /\ current \in [Threads -> Users \cup {NoThread}]
  BY ThreadsAssumption, Zenon DEF Threads, TypeOK, ControlOK, DataOK
<1>2. ASSUME NEW u \in Users, FinishInPlace(u) PROVE Quiet(u)
  BY <1>1, <1>2, Zenon DEF FinishInPlace, At, Goto, tasks, locals, Quiet, Unqueued, AsyncLabels
<1>3. ASSUME NEW u \in Users, WaitTask(u) PROVE Quiet(u)
  BY <1>1, <1>3, Zenon DEF WaitTask, At, Goto, locals, Quiet, Unqueued, AsyncLabels
<1>4. ASSUME ProcFinishTask PROVE Quiet(Proc)
  BY <1>1, <1>4, Zenon DEF ProcFinishTask, At, Goto, tasks, Quiet
<1>5. ASSUME NEW f \in Frames, FrameFinishTask(f) PROVE Quiet(f)
  BY <1>1, <1>5, Zenon DEF FrameFinishTask, At, Goto, tasks, Quiet
<1>6. ASSUME ProcPop \/ ProcProcessTask PROVE TaskInv'
  <2>1. CASE ProcPop BY <1>1, <2>1, PopKeeps, Zenon DEF ProcPop, At
  <2>2. CASE ProcProcessTask BY <1>1, <2>2, RunKeeps, Zenon DEF ProcProcessTask, At, locals
  <2> QED BY <1>6, <2>1, <2>2, Zenon
<1>7. ASSUME NEW f \in Frames, FramePop(f) \/ FrameProcessTask(f) PROVE TaskInv'
  <2>1. f \in Threads \ Users BY <1>1, Zenon
  <2>2. CASE FramePop(f) BY <2>1, <2>2, PopKeeps, Zenon DEF FramePop, At
  <2>3. CASE FrameProcessTask(f) BY <2>1, <2>3, RunKeeps, Zenon DEF FrameProcessTask, At, locals
  <2> QED BY <1>7, <2>2, <2>3, Zenon
<1>8. ASSUME NEW u \in Users, \/ Schedule(u) \/ PushBegin(u) \/ ProcessInPlace(u)
                              \/ FinishInPlace(u) \/ WaitTask(u)
      PROVE  TaskInv'
  BY <1>1, <1>2, <1>3, <1>8, QuietKeeps, ScheduleTasks, PushBeginTasks, ProcessInPlaceTasks, Zenon
<1> QED BY <1>1, <1>4, <1>5, <1>6, <1>7, <1>8, QuietKeeps, Zenon DEF Active

\* A step of another thread that posts no semaphore is nothing to a waiting user.
LEMMA OthersWait ==
  ASSUME WaitInv, UNCHANGED <<sem, task_state>>, 
         \A u \in Users : pc'[u] = pc[u] /\ after'[u] = after[u] /\ current'[u] = current[u]
  PROVE  WaitInv'
<1>1. Waiters \subseteq Users BY ThreadsAssumption, Zenon
<1> QED BY <1>1, Zenon DEF WaitInv

\* What WaitInv says of one user, and a step that concerns only that user.
WaitOK(u) ==
    /\ sem[u] \in {0, 1}
    /\ sem[u] = 1 => task_state[u] = "Finished" /\ current[u] # u /\ pc[u] # "done"
    /\ pc[u] = "done" => task_state[u] = "Finished"
    /\ after[u] = "done" => current[u] = u

\* A step that concerns only that user keeps WaitInv if it keeps what it says
\* of the user.
LEMMA OwnWait ==
  ASSUME WaitInv, NEW u \in Users, u \in Waiters => WaitOK(u)',
         \A w \in Users \ {u} : /\ pc'[w] = pc[w] /\ after'[w] = after[w]
                                 /\ current'[w] = current[w] /\ sem'[w] = sem[w]
                                 /\ task_state'[w] = task_state[w]
  PROVE  WaitInv'
<1>1. Waiters \subseteq Users BY ThreadsAssumption, Zenon
<1>2. ASSUME NEW w \in Waiters PROVE WaitOK(w)'
  <2>1. CASE w = u BY <2>1, Zenon
  <2>2. CASE w # u
    <3>1. /\ pc'[w] = pc[w] /\ after'[w] = after[w] /\ current'[w] = current[w]
          /\ sem'[w] = sem[w] /\ task_state'[w] = task_state[w]
      BY <1>1, <2>2, Zenon
    <3>2. WaitOK(w) BY Zenon DEF WaitInv, WaitOK
    <3> QED BY <3>1, <3>2, Zenon DEF WaitOK
  <2> QED BY <2>1, <2>2, Zenon
<1> QED BY <1>2, Zenon DEF WaitInv, WaitOK

\* A user's own steps: it schedules a task once, and waits for it once.
LEMMA UserWait ==
  ASSUME TypeOK, TaskInv, WaitInv, NEW u \in Users,
         Schedule(u) \/ PushBegin(u) \/ ProcessInPlace(u) \/ FinishInPlace(u) \/ WaitTask(u)
  PROVE  WaitInv'
<1>1. /\ Users \subseteq Threads /\ Waiters \subseteq Users /\ u \in Threads
      /\ pc \in [Threads -> AllLabels] /\ current \in [Threads -> Users \cup {NoThread}]
      /\ after \in [Threads -> AllLabels]
      /\ task_state \in [Users -> TaskStates] /\ sem \in [Users -> Int]
  BY ThreadsAssumption, Zenon DEF Threads, TypeOK, ControlOK, DataOK
<1>2. CASE Schedule(u)
  <2>1. /\ pc[u] = "idle" /\ UNCHANGED <<sem, current>>
        /\ task_state' = [task_state EXCEPT ![u] = "Scheduled"]
        /\ pc'[u] # "done" /\ (u \in Waiters => after'[u] \in {after[u], "wait"})
        /\ \A s \in Threads \ {u} : pc'[s] = pc[s] /\ after'[s] = after[s]
    BY <1>1, <1>2, Zenon DEF Schedule, At, Call, Goto, Queued, locals
  <2>2. task_state[u] = "New" /\ current[u] # u BY <2>1, Zenon DEF TaskInv, UserTaskInv
  <2>3. u \in Waiters => sem[u] = 0 /\ after[u] # "done" BY <2>2, Zenon DEF WaitInv
  <2>4. \A w \in Users \ {u} : task_state'[w] = task_state[w] BY <1>1, <2>1, Zenon
  <2>5. u \in Waiters => WaitOK(u)'
    <3>1. 0 # 1 BY SMT, Z3
    <3> QED BY <1>1, <2>1, <2>3, <3>1, Zenon DEF WaitOK
  <2> QED BY <1>1, <2>1, <2>4, <2>5, OwnWait, Zenon
<1>3. CASE PushBegin(u)
  <2>1. pc' = [pc EXCEPT ![u] = "link"] /\ UNCHANGED <<sem, after, current, task_state>>
    BY <1>3, Zenon DEF PushBegin, Goto, locals
  <2>2. u \in Waiters => WaitOK(u)' BY <1>1, <2>1, Zenon DEF WaitInv, WaitOK
  <2> QED BY <1>1, <2>1, <2>2, OwnWait, Zenon
<1>4. CASE ProcessInPlace(u)
  <2>1. /\ pc[u] = "process" /\ pc' = [pc EXCEPT ![u] = "finish"] /\ UNCHANGED <<sem, after>>
        /\ task_state' = [task_state EXCEPT ![u] = "Finished"]
        /\ current' = [current EXCEPT ![u] = u]
    BY <1>4, Zenon DEF ProcessInPlace, ProcessTask, At, Goto
  <2>2. task_state[u] = "Scheduled" BY <2>1, Zenon DEF TaskInv, UserTaskInv, Unqueued
  <2>3. u \in Waiters => sem[u] = 0 BY <2>2, ZenonT(60) DEF WaitInv
  <2>4. u \in Waiters => WaitOK(u)' BY <1>1, <2>1, <2>3, SMT, Z3 DEF WaitOK
  <2> QED BY <1>1, <2>1, <2>4, OwnWait, Zenon
<1>5. CASE FinishInPlace(u)
  <2>1. pc' = [pc EXCEPT ![u] = "preempt"] /\ UNCHANGED <<sem, after, current, task_state>>
    BY <1>5, Zenon DEF FinishInPlace, Goto, tasks, locals
  <2>2. u \in Waiters => WaitOK(u)' BY <1>1, <2>1, Zenon DEF WaitInv, WaitOK
  <2> QED BY <1>1, <2>1, <2>2, OwnWait, Zenon
<1>6. CASE WaitTask(u)
  <2>1. /\ pc' = [pc EXCEPT ![u] = "done"] /\ UNCHANGED <<after, current, task_state>>
        /\ sem[u] > 0 /\ sem' = [sem EXCEPT ![u] = @ - 1]
    BY <1>6, Zenon DEF WaitTask, Goto, locals
  <2>2. u \in Waiters => WaitOK(u)'
    <3>1. u \in Waiters => WaitOK(u) BY Zenon DEF WaitInv, WaitOK
    <3> QED BY <1>1, <2>1, <3>1, SMT, Z3 DEF WaitOK
  <2> QED BY <1>1, <2>1, <2>2, OwnWait, Zenon
<1> QED BY <1>2, <1>3, <1>4, <1>5, <1>6, Zenon

\* The thread that processes a popped task posts its semaphore once,
LEMMA RunWait ==
  ASSUME TypeOK, TaskInv, WaitInv, NEW t \in Threads \ Users,
         pc[t] \in {"p_process", "f_process"}, ProcessTask(current[t], TRUE),
         NEW l \in {"p_finish", "f_finish"}, Goto(t, l), UNCHANGED current
  PROVE  WaitInv'
<1> DEFINE v == current[t]
<1>1. /\ pc \in [Threads -> AllLabels] /\ task_state \in [Users -> TaskStates]
      /\ sem \in [Users -> Int] /\ Users \subseteq Threads /\ Waiters \subseteq Users
  BY ThreadsAssumption, ZenonT(60) DEF Threads, TypeOK, ControlOK, DataOK
<1>2. /\ v \in Users /\ task_state[v] = "Scheduled" BY ZenonT(60) DEF TaskInv, PoppedInv
<1>3. task_state' = [task_state EXCEPT ![v] = "Finished"]
  BY Zenon DEF ProcessTask
<1>4. sem' = IF v \in Waiters THEN [sem EXCEPT ![v] = @ + 1] ELSE sem
  BY Zenon DEF ProcessTask
<1>5. \A w \in Users : pc'[w] = pc[w] /\ after'[w] = after[w] /\ current'[w] = current[w]
  BY <1>1, Zenon DEF Goto
<1>6. v \in Waiters => sem[v] = 0 /\ current[v] # v /\ pc[v] # "done"
  BY <1>2, Zenon DEF WaitInv, TaskInv, UserTaskInv
<1>7. v \in Waiters => WaitOK(v)'
  <2>1. v \in Waiters => sem'[v] = 1 BY <1>1, <1>2, <1>4, <1>6, SMT, Z3
  <2>2. task_state'[v] = "Finished" BY <1>1, <1>2, <1>3, Zenon
  <2> QED BY <1>2, <1>5, <1>6, <2>1, <2>2, ZenonT(30) DEF WaitInv, WaitOK
<1>8. \A w \in Users \ {v} : task_state'[w] = task_state[w] /\ sem'[w] = sem[w]
  BY <1>1, <1>2, <1>3, <1>4, Zenon
<1> QED BY <1>2, <1>5, <1>7, <1>8, OwnWait, ZenonT(60)

\* Every step that moves, runs or waits for a task keeps WaitInv.
LEMMA ActiveWait ==
  ASSUME TypeOK, TaskInv, WaitInv, Active
  PROVE  WaitInv'
<1>1. /\ Users \subseteq Threads /\ Frames \subseteq Threads /\ Proc \in Threads
      /\ Frames \cap Users = {} /\ Proc \notin Users
      /\ pc \in [Threads -> AllLabels] /\ current \in [Threads -> Users \cup {NoThread}]
  BY ThreadsAssumption, Zenon DEF Threads, TypeOK, ControlOK, DataOK
<1>2. ASSUME ProcPop \/ ProcFinishTask PROVE WaitInv'
  <2>1. /\ UNCHANGED <<sem, task_state, after>>
        /\ \A s \in Threads \ {Proc} : pc'[s] = pc[s] /\ current'[s] = current[s]
    BY <1>1, <1>2, Zenon DEF ProcPop, TryPop, ProcFinishTask, Goto, tasks
  <2> QED BY <1>1, <2>1, OthersWait, Zenon
<1>3. ASSUME NEW f \in Frames, FramePop(f) \/ FrameFinishTask(f) PROVE WaitInv'
  <2>1. /\ UNCHANGED <<sem, task_state, after>>
        /\ \A s \in Threads \ {f} : pc'[s] = pc[s] /\ current'[s] = current[s]
    BY <1>1, <1>3, Zenon DEF FramePop, TryPop, FrameFinishTask, Goto, tasks
  <2> QED BY <1>1, <2>1, OthersWait, Zenon
<1>4. ASSUME ProcProcessTask PROVE WaitInv'
  BY <1>1, <1>4, RunWait, Zenon DEF ProcProcessTask, At, locals
<1>5. ASSUME NEW f \in Frames, FrameProcessTask(f) PROVE WaitInv'
  <2>1. f \in Threads \ Users BY <1>1, Zenon
  <2> QED BY <1>5, <2>1, RunWait, Zenon DEF FrameProcessTask, At, locals
<1> QED BY <1>2, <1>3, <1>4, <1>5, UserWait, Zenon DEF Active

\* In every reachable state a scheduled task is in exactly one place, and a waiting
\* user's semaphore agrees with the state of its task.
LEMMA TasksAndWaits == Spec => [](TaskInv /\ WaitInv)
<1>1. Init => TaskInv
  <2> SUFFICES ASSUME Init PROVE TaskInv BY Zenon
  <2>1. task_queue = <<>> /\ Len(task_queue) = 0 /\ Enqueued = {} BY SMT, Z3 DEF Init, Enqueued
  <2>2. QueueInv BY <2>1, SMT, Z3 DEF QueueInv
  <2>3. UserTaskInv
    BY ThreadsAssumption, Zenon DEF Init, UserTaskInv, Unqueued, AsyncLabels, Threads
  <2>4. PoppedInv BY Zenon DEF Init, PoppedInv
  <2> QED BY <2>2, <2>3, <2>4, Zenon DEF TaskInv
<1>2. Init => WaitInv BY ThreadsAssumption, SMT, Z3 DEF Init, WaitInv, Threads
<1>3. TypeOK /\ LockInv /\ TaskInv /\ WaitInv /\ [Next]_vars => TaskInv' /\ WaitInv'
  <2> SUFFICES ASSUME TypeOK, LockInv, TaskInv, WaitInv, [Next]_vars PROVE TaskInv' /\ WaitInv'
    BY Zenon
  <2>1. CASE UNCHANGED vars
    <3>1. UNCHANGED <<pc, after, current, task_queue, task_state, sem>>
      BY <2>1, Zenon DEF vars, tasks, locals
    <3>2. Enqueued' = Enqueued BY <3>1, SameQueue, Zenon
    <3>3. UserTaskInv' BY <3>1, <3>2, Zenon DEF TaskInv, UserTaskInv
    <3>4. QueueInv' BY <3>1, <3>2, Zenon DEF TaskInv, QueueInv
    <3>5. PoppedInv' BY <3>1, <3>2, Zenon DEF TaskInv, PoppedInv
    <3> QED BY <3>1, <3>3, <3>4, <3>5, Zenon DEF TaskInv, WaitInv
  <2>2. CASE Active BY <2>2, ActiveTasks, ActiveWait, Zenon
  <2>3. ASSUME NEW t \in Threads, Silent(t) PROVE TaskInv' /\ WaitInv'
    BY <2>3, QuietKeeps, SilentWait, Zenon DEF Silent
  <2> QED BY <2>1, <2>2, <2>3, SilentOrActive, Zenon
<1> QED BY <1>1, <1>2, <1>3, TypeCorrect, LocksHeld, PTL DEF Spec

\* In every reachable state a scheduled task is in exactly one place.
THEOREM TasksPlaced == Spec => []TaskInv
BY TasksAndWaits, PTL

\* A task is run once, and by one thread, however many threads schedule tasks,
\* process frames and drain the queue.
THEOREM TasksRunOnce == Spec => []RunOnce
<1>1. TypeOK /\ LockInv /\ TaskInv => RunOnce
  <2> SUFFICES ASSUME TypeOK, LockInv, TaskInv, NEW t \in Threads, NEW u \in Users,
                      pc[t] \in {"process", "p_process", "f_process"}, Running(t, u)
               PROVE  /\ task_state[u] = "Scheduled"
                      /\ \A i \in 1..Len(task_queue) : task_queue[i] # u
                      /\ \A s \in Threads \ {t} : ~Running(s, u)
    BY Zenon DEF RunOnce
  <2>1. task_state[u] = "Scheduled" /\ u \notin Enqueued
    <3>1. CASE t = u /\ pc[t] = "process"
      <4>1. pc[u] \in Unqueued BY <3>1, Zenon DEF Unqueued
      <4> QED BY <4>1, Zenon DEF TaskInv, UserTaskInv
    <3>2. CASE pc[t] \in {"p_process", "f_process"} /\ current[t] = u
      BY <3>2, Zenon DEF TaskInv, PoppedInv
    <3> QED BY <3>1, <3>2, Zenon DEF Running
  <2>2. ASSUME NEW s \in Threads \ {t}, Running(s, u) PROVE FALSE
    <3>1. pc[t] \in PipelineLabels BY Zenon DEF PipelineLabels
    <3>2. pc[s] \in PipelineLabels BY <2>2, Zenon DEF Running, PipelineLabels
    <3> QED BY <2>2, <3>1, <3>2, Zenon DEF LockInv, Holder
  <2> QED BY <2>1, <2>2, Zenon DEF Enqueued
<1> QED BY <1>1, TypeCorrect, LocksHeld, TasksPlaced, PTL

\* schedule_and_wait() returns after its task was processed and posted for the
\* last time: the task can be destroyed as soon as the call returns.
THEOREM WaitIsLast == Spec => []WaitReturnsLast
<1>1. TaskInv /\ WaitInv => WaitReturnsLast
  <2> SUFFICES ASSUME TaskInv, WaitInv, NEW u \in Waiters, At(u, "done")
               PROVE  /\ task_state[u] = "Finished" /\ sem[u] = 0
                      /\ \A i \in 1..Len(task_queue) : task_queue[i] # u
                      /\ \A t \in Threads : pc[t] \in {"p_process", "f_process"} => current[t] # u
    BY Zenon DEF WaitReturnsLast
  <2>1. task_state[u] = "Finished" /\ sem[u] = 0 BY Zenon DEF WaitInv, At
  <2>2. u \notin Enqueued BY <2>1, Zenon DEF TaskInv, QueueInv
  <2> QED BY <2>1, <2>2, Zenon DEF TaskInv, PoppedInv, Enqueued
<1> QED BY <1>1, TasksAndWaits, PTL

-----------------------------------------------------------------------------
(***************************************************************************)
(* Pending tasks are counted exactly.                                      *)
(***************************************************************************)
INSTANCE FiniteSetTheorems

\* No task is counted or uncounted by a step of a thread that has none to finish.
LEMMA CountKept ==
  ASSUME TypeOK, TaskInv, TaskInv', PendingCount, NEW t \in Threads,
         UNCHANGED <<task_state, pending_tasks>>, {pc[t], pc'[t]} \cap FinishLabels = {},
         \A s \in Threads \ {t} : pc'[s] = pc[s] /\ current'[s] = current[s]
  PROVE  PendingCount'
<1>1. Users \subseteq Threads BY Zenon DEF Threads
<1>2. ASSUME NEW u \in Users
      PROVE  Counted(u) <=> \/ task_state[u] = "Scheduled"
                            \/ \E r \in Threads : pc[r] \in FinishLabels /\ Running(r, u)
  <2>1. ASSUME NEW r \in Threads, Running(r, u), pc[r] \notin FinishLabels PROVE task_state[u] = "Scheduled"
    <3>1. \/ r = u /\ pc[r] = "process"
          \/ pc[r] \in {"p_process", "f_process"} /\ current[r] = u
      BY <2>1, Zenon DEF Running, FinishLabels
    <3>2. "process" \in Unqueued BY Zenon DEF Unqueued
    <3>3. CASE r = u /\ pc[r] = "process" BY <3>2, <3>3, Zenon DEF TaskInv, UserTaskInv
    <3>4. CASE pc[r] \in {"p_process", "f_process"} /\ current[r] = u
      BY <3>4, Zenon DEF TaskInv, PoppedInv
    <3> QED BY <3>1, <3>3, <3>4, Zenon
  <2> QED BY <2>1, Zenon DEF Counted
<1>3. ASSUME NEW u \in Users
      PROVE  Counted(u)' <=> \/ task_state'[u] = "Scheduled"
                             \/ \E r \in Threads : pc'[r] \in FinishLabels /\ Running(r, u)'
  <2>1. ASSUME NEW r \in Threads, Running(r, u)', pc'[r] \notin FinishLabels PROVE task_state'[u] = "Scheduled"
    <3>1. \/ r = u /\ pc'[r] = "process"
          \/ pc'[r] \in {"p_process", "f_process"} /\ current'[r] = u
      BY <2>1, Zenon DEF Running, FinishLabels
    <3>2. "process" \in Unqueued BY Zenon DEF Unqueued
    <3>3. CASE r = u /\ pc'[r] = "process" BY <3>2, <3>3, Zenon DEF TaskInv, UserTaskInv
    <3>4. CASE pc'[r] \in {"p_process", "f_process"} /\ current'[r] = u
      BY <3>4, Zenon DEF TaskInv, PoppedInv
    <3> QED BY <3>1, <3>3, <3>4, Zenon
  <2> QED BY <2>1, Zenon DEF Counted
<1>4. ASSUME NEW u \in Users, NEW r \in Threads
      PROVE  pc'[r] \in FinishLabels /\ Running(r, u)' <=> pc[r] \in FinishLabels /\ Running(r, u)
  <2>1. CASE r = t BY <2>1, Zenon
  <2>2. CASE r # t
    <3>1. pc'[r] = pc[r] /\ current'[r] = current[r] BY <2>2, Zenon
    <3> QED BY <3>1, Zenon DEF Running
  <2> QED BY <2>1, <2>2, Zenon
<1>5. \A u \in Users : Counted(u)' <=> Counted(u) BY <1>2, <1>3, <1>4, Zenon
<1>6. {u \in Users : Counted(u)}' = {u \in Users : Counted(u)} BY <1>5, Zenon
<1> QED BY <1>6, Zenon DEF PendingCount

\* A thread that runs a task it has popped, or its own in place, neither counts
\* nor uncounts it.
LEMMA RunCount ==
  ASSUME TypeOK, LockInv, TaskInv, PendingCount, NEW t \in Threads, NEW w \in Users,
         Running(t, w), pc[t] \notin FinishLabels, Running(t, w)',
         \A s \in Threads \ {t} : pc'[s] = pc[s] /\ current'[s] = current[s],
         task_state' = [task_state EXCEPT ![w] = "Finished"], UNCHANGED pending_tasks,
         pc'[t] \in {"finish", "p_finish", "f_finish"}, t \in Users => t = w
  PROVE  PendingCount'
<1>1. /\ task_state \in [Users -> TaskStates] /\ Users \subseteq Threads
  BY Zenon DEF Threads, TypeOK, DataOK
<1>2. task_state[w] = "Scheduled"
  <2>1. CASE pc[t] = "process" BY <2>1, Zenon DEF Running, TaskInv, UserTaskInv, Unqueued
  <2>2. CASE pc[t] \in {"p_process", "f_process"} BY <2>2, Zenon DEF Running, TaskInv, PoppedInv
  <2> QED BY <2>1, <2>2, Zenon DEF Running, FinishLabels
<1>3. \A s \in Threads \ {t} : pc[s] \notin PipelineLabels
  <2>1. pc[t] \in PipelineLabels BY Zenon DEF Running, PipelineLabels
  <2> QED BY <2>1, Zenon DEF LockInv, Holder
<1>4. \A s \in Threads \ {t}, u \in Users : ~Running(s, u) /\ ~Running(s, u)'
  BY <1>3, Zenon DEF Running, PipelineLabels
<1>5. \A u \in Users \ {w} : ~Running(t, u) /\ ~Running(t, u)'
  BY Zenon DEF Running, FinishLabels
<1>6. \A u \in Users : Counted(u)' <=> Counted(u) BY <1>1, <1>2, <1>4, <1>5, Zenon DEF Counted
<1>7. {u \in Users : Counted(u)}' = {u \in Users : Counted(u)} BY <1>6, Zenon
<1> QED BY <1>7, Zenon DEF PendingCount

\* A call that schedules a task counts it.
LEMMA ScheduleCount ==
  ASSUME TypeOK, TaskInv, PendingCount, NEW u \in Users, Schedule(u)
  PROVE  PendingCount'
<1> DEFINE C == {v \in Users : Counted(v)}
<1> USE ThreadsAssumption
<1>1. /\ pc \in [Threads -> AllLabels] /\ task_state \in [Users -> TaskStates]
      /\ u \in Threads
  BY Zenon DEF Threads, TypeOK, ControlOK, DataOK
<1>2. /\ pc[u] = "idle" /\ pc'[u] \in {"push", "load"} /\ UNCHANGED current
      /\ task_state' = [task_state EXCEPT ![u] = "Scheduled"]
      /\ pending_tasks' = pending_tasks + 1
      /\ \A s \in Threads \ {u} : pc'[s] = pc[s]
  BY <1>1, Zenon DEF Schedule, At, Call, Goto, Queued, locals
<1>3. task_state[u] = "New" BY <1>2, Zenon DEF TaskInv, UserTaskInv
<1>4. \A t \in Threads : ~Running(t, u) BY <1>2, <1>3, Zenon DEF Running, TaskInv, PoppedInv
<1>5. \A t \in Threads, v \in Users : Running(t, v)' <=> Running(t, v) BY <1>2, Zenon DEF Running
<1>6. \A v \in Users : v # u => (Counted(v)' <=> Counted(v)) BY <1>1, <1>2, <1>5, Zenon DEF Counted
<1>7. Counted(u)' /\ ~Counted(u) BY <1>1, <1>2, <1>3, <1>4, Zenon DEF Counted
<1>8. C' = C \cup {u} BY <1>6, <1>7, Zenon
<1>9. u \notin C /\ IsFiniteSet(C) BY <1>7, FS_Subset, Zenon
<1>10. Cardinality(C') = Cardinality(C) + 1 BY <1>8, <1>9, FS_AddElement, Zenon
<1> QED BY <1>2, <1>10, Zenon DEF PendingCount

\* A thread that has run a task uncounts it, and it was counted once.
LEMMA Uncounted ==
  ASSUME TypeOK, LockInv, TaskInv, PendingCount, NEW t \in Threads, NEW w \in Users, NEW l,
         \/ t = w /\ pc[t] = "finish" /\ l = "preempt" /\ UNCHANGED current
         \/ /\ t \notin Users /\ pc[t] \in {"p_finish", "f_finish"} /\ w = current[t]
            /\ l \in {"p_allowed", "f_pop", "f_next"}
            /\ current' = [current EXCEPT ![t] = NoThread],
         Goto(t, l), pending_tasks' = pending_tasks - 1, UNCHANGED task_state
  PROVE  PendingCount'
<1> USE ThreadsAssumption
<1> DEFINE C == {u \in Users : Counted(u)}
<1>1. /\ pc \in [Threads -> AllLabels] /\ current \in [Threads -> Users \cup {NoThread}]
      /\ Users \subseteq Threads
  BY Zenon DEF Threads, TypeOK, ControlOK, DataOK
<1>2. Running(t, w) /\ task_state[w] = "Finished"
  BY Zenon DEF Running, TaskInv, UserTaskInv, PoppedInv
<1>3. \A s \in Threads \ {t} : pc[s] \notin PipelineLabels
  <2>1. pc[t] \in PipelineLabels BY Zenon DEF PipelineLabels
  <2> QED BY <2>1, Zenon DEF LockInv, Holder
<1>4. \A s \in Threads, u \in Users : ~Running(s, u)'
  BY <1>1, <1>3, Zenon DEF Running, Goto, PipelineLabels
<1>5. \A s \in Threads, u \in Users : Running(s, u) => s = t /\ u = w
  BY <1>1, <1>3, Zenon DEF Running, PipelineLabels
<1>6. C' = C \ {w}
  <2>1. \A u \in Users : Counted(u)' <=> task_state[u] = "Scheduled" BY <1>4, Zenon DEF Counted
  <2>2. \A u \in Users : Counted(u) <=> task_state[u] = "Scheduled" \/ u = w
    BY <1>2, <1>5, Zenon DEF Counted
  <2>3. \A u \in Users : Counted(u)' <=> Counted(u) /\ u # w BY <2>1, <2>2, <1>2, Zenon
  <2> QED BY <2>3, Zenon
<1>7. w \in C /\ IsFiniteSet(C) BY <1>2, FS_Subset, Zenon DEF Counted
<1>8. Cardinality(C') = Cardinality(C) - 1 BY <1>6, <1>7, FS_RemoveElement, ZenonT(30)
<1> QED BY <1>8, Zenon DEF PendingCount

\* Every step that moves, runs or waits for a task keeps the count exact.
LEMMA ActiveCount ==
  ASSUME TypeOK, LockInv, TaskInv, TaskInv', PendingCount, Active
  PROVE  PendingCount'
<1>1. /\ Users \subseteq Threads /\ Frames \subseteq Threads /\ Proc \in Threads
      /\ Frames \cap Users = {} /\ Proc \notin Users
      /\ pc \in [Threads -> AllLabels] /\ current \in [Threads -> Users \cup {NoThread}]
  BY ThreadsAssumption, Zenon DEF Threads, TypeOK, ControlOK, DataOK
<1>2. ASSUME NEW u \in Users, PushBegin(u) \/ WaitTask(u) PROVE PendingCount'
  <2>1. /\ UNCHANGED <<task_state, pending_tasks, current>>
        /\ {pc[u], pc'[u]} \cap FinishLabels = {}
        /\ \A s \in Threads \ {u} : pc'[s] = pc[s]
    BY <1>1, <1>2, Zenon DEF PushBegin, WaitTask, At, Goto, counters, locals, FinishLabels
  <2> QED BY <1>1, <2>1, CountKept, Zenon
<1>3. ASSUME NEW u \in Users, ProcessInPlace(u) PROVE PendingCount'
  <2>1. /\ pc[u] = "process" /\ pc' = [pc EXCEPT ![u] = "finish"]
        /\ task_state' = [task_state EXCEPT ![u] = "Finished"]
        /\ current' = [current EXCEPT ![u] = u] /\ UNCHANGED pending_tasks
    BY <1>3, Zenon DEF ProcessInPlace, ProcessTask, At, Goto, counters
  <2>2. /\ Running(u, u) /\ Running(u, u)' /\ u \in Threads /\ pc'[u] = "finish"
        /\ \A s \in Threads \ {u} : pc'[s] = pc[s] /\ current'[s] = current[s]
    BY <1>1, <2>1, Zenon DEF Running
  <2>3. pc[u] \notin FinishLabels BY <2>1, Zenon DEF FinishLabels
  <2> QED BY <2>1, <2>2, <2>3, RunCount, Zenon
<1>4. ASSUME NEW t \in {Proc} \cup Frames, TryPop(t, "p_process", "p_unlock") \/ TryPop(t, "f_process", "f_next"),
             pc[t] \in {"p_pop", "f_pop"}, UNCHANGED counters
      PROVE  PendingCount'
  <2>1. /\ UNCHANGED <<task_state, pending_tasks>> /\ {pc[t], pc'[t]} \cap FinishLabels = {}
        /\ \A s \in Threads \ {t} : pc'[s] = pc[s] /\ current'[s] = current[s]
    BY <1>1, <1>4, SMT, Z3 DEF TryPop, Goto, counters, FinishLabels
  <2> QED BY <1>1, <2>1, CountKept, ZenonT(30)
<1>5. ASSUME NEW t \in {Proc} \cup Frames, pc[t] \in {"p_process", "f_process"},
             ProcessTask(current[t], TRUE), NEW l \in {"p_finish", "f_finish"}, Goto(t, l),
             UNCHANGED <<current, pending_tasks>>
      PROVE  PendingCount'
  <2> DEFINE w == current[t]
  <2>1. w \in Users /\ t \in Threads /\ t \notin Users BY <1>1, <1>5, Zenon DEF TaskInv, PoppedInv
  <2>2. pc'[t] = l /\ \A s \in Threads \ {t} : pc'[s] = pc[s] /\ current'[s] = current[s]
    BY <1>1, <1>5, Zenon DEF Goto
  <2>3. Running(t, w) /\ Running(t, w)' /\ pc[t] \notin FinishLabels
    BY <1>5, <2>2, Zenon DEF Running, FinishLabels
  <2>4. task_state' = [task_state EXCEPT ![w] = "Finished"] BY <1>5, Zenon DEF ProcessTask
  <2> QED BY <1>5, <2>1, <2>2, <2>3, <2>4, RunCount, Zenon
<1>6. ASSUME NEW u \in Users, FinishInPlace(u) PROVE PendingCount'
  BY <1>6, Uncounted, Zenon DEF FinishInPlace, At, tasks, locals, Threads
<1>7. ASSUME ProcFinishTask PROVE PendingCount'
  <2>1. Proc \in Threads \ Users /\ current[Proc] \in Users
    BY <1>1, <1>7, Zenon DEF ProcFinishTask, At, TaskInv, PoppedInv
  <2> QED BY <1>7, <2>1, Uncounted, Zenon DEF ProcFinishTask, At, tasks
<1>8. ASSUME NEW f \in Frames, FrameFinishTask(f) PROVE PendingCount'
  <2>1. f \in Threads \ Users /\ current[f] \in Users
    BY <1>1, <1>8, Zenon DEF FrameFinishTask, At, TaskInv, PoppedInv
  <2>2. PICK label \in {"f_pop", "f_next"} : Goto(f, label) BY <1>8, Zenon DEF FrameFinishTask
  <2> QED BY <1>8, <2>1, <2>2, Uncounted, Zenon DEF FrameFinishTask, At, tasks
<1>9. ASSUME ProcPop \/ ProcProcessTask PROVE PendingCount'
  <2>1. CASE ProcPop BY <2>1, <1>4, Zenon DEF ProcPop, At
  <2>2. CASE ProcProcessTask BY <2>2, <1>5, Zenon DEF ProcProcessTask, At, locals, counters
  <2> QED BY <1>9, <2>1, <2>2, Zenon
<1>10. ASSUME NEW f \in Frames, FramePop(f) \/ FrameProcessTask(f) PROVE PendingCount'
  <2>1. CASE FramePop(f) BY <2>1, <1>4, Zenon DEF FramePop, At
  <2>2. CASE FrameProcessTask(f) BY <2>2, <1>5, Zenon DEF FrameProcessTask, At, locals, counters
  <2> QED BY <1>10, <2>1, <2>2, Zenon
<1> QED BY <1>2, <1>3, <1>6, <1>7, <1>8, <1>9, <1>10, ScheduleCount, Zenon DEF Active

\* pending_tasks_ counts exactly the tasks scheduled and not yet accounted for.
THEOREM PendingCounted == Spec => []PendingCount
<1>1. Init => PendingCount
  <2> SUFFICES ASSUME Init PROVE PendingCount OBVIOUS
  <2>1. \A u \in Users : ~Counted(u)
    BY ThreadsAssumption, Zenon DEF Init, Counted, Running, Threads
  <2>2. {u \in Users : Counted(u)} = {} BY <2>1, Zenon
  <2> QED BY <2>2, FS_EmptySet, Zenon DEF PendingCount, Init
<1>2. /\ TypeOK /\ LockInv /\ TaskInv /\ WaitInv /\ PendingCount /\ [Next]_vars /\ TaskInv'
      => PendingCount'
  <2> SUFFICES ASSUME TypeOK, LockInv, TaskInv, WaitInv, PendingCount, [Next]_vars, TaskInv'
               PROVE  PendingCount'
    BY Zenon
  <2>1. CASE UNCHANGED vars
    BY <2>1, Zenon DEF PendingCount, Counted, Running, vars, tasks, counters, locals
  <2>2. ASSUME NEW t \in Threads, Silent(t) PROVE PendingCount'
    BY <2>2, CountKept, Zenon DEF Silent, Quiet
  <2> QED BY <2>1, <2>2, ActiveCount, SilentOrActive, Zenon
<1> QED BY <1>1, <1>2, TypeCorrect, LocksHeld, TasksAndWaits, PTL DEF Spec

\* The destructor's panic cannot fire once every call was waited for.
THEOREM DestroySafe == Spec => []SafeToDestroy
<1>1. TypeOK /\ PendingCount => SafeToDestroy
  <2> SUFFICES ASSUME TypeOK, PendingCount, At(Proc, "idle"), \A f \in Frames : At(f, "idle"),
                      \A u \in Users : pc[u] = "done" /\ task_state[u] = "Finished"
               PROVE  pending_tasks = 0
    BY Zenon DEF SafeToDestroy
  <2>1. \A u \in Users : ~Counted(u) BY Zenon DEF Counted, Running, At, Threads
  <2>2. {u \in Users : Counted(u)} = {} BY <2>1, Zenon
  <2> QED BY <2>2, FS_EmptySet, Zenon DEF PendingCount
<1> QED BY <1>1, TypeCorrect, PendingCounted, PTL

=============================================================================
