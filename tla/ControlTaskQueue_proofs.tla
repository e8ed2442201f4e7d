---------------------- MODULE ControlTaskQueue_proofs -----------------------
(***************************************************************************)
(* What the control task queue guarantees, for any number of user threads  *)
(* and tasks, any deadlines and any workload.                              *)
(***************************************************************************)
EXTENDS ControlTaskQueue_ready, ControlTaskQueue_tasks, ControlTaskQueue_requests,
        ControlTaskQueue_progress, FiniteSetTheorems

-----------------------------------------------------------------------------
(***************************************************************************)
(* Types.                                                                  *)
(***************************************************************************)
\* A set of positions has a first one.
LEMMA FirstPosition == FirstExists
<1> SUFFICES ASSUME NEW S \in SUBSET Nat, S # {} PROVE HasFirst(S) BY Zenon DEF FirstExists
<1> DEFINE R == {ss \in Nat \X Nat : ss[1] < ss[2]}
<1>1. IsWellFoundedOn(R, Nat) BY NatLessThanWellFounded, Zenon DEF OpToRel
<1> HIDE DEF R
<1>2. PICK m \in S : \A n \in S : ~(<<n, m>> \in R) BY <1>1, WFMin, Zenon
<1>3. \A n \in S : ~(n < m) BY <1>2, Zenon DEF R
<1> QED BY <1>3, SMT, Z3 DEF HasFirst

\* The data and the locals of the threads have their types, and every thread is
\* where its locals fit, for any number of users and tasks.
THEOREM TypesCorrect == Spec => []TypeOK
<1>1. Init => TypeOK BY InitTyped
<1>2. TypeOK /\ [Next]_vars => TypeOK' BY FirstPosition, NextTyped
<1> QED BY <1>1, <1>2, PTL DEF Spec

-----------------------------------------------------------------------------
(***************************************************************************)
(* Mutual exclusion and the ready queue.                                   *)
(***************************************************************************)
\* task_mutex_ excludes: the thread that holds it is the one in the code it
\* protects, so at most one thread is there.
THEOREM MutualExclusion == Spec => []LockInv
<1>1. Init => LockInv
  <2>1. ASSUME Init, NEW x \in Threads PROVE task_mutex # x /\ pc[x] \notin CriticalLabels
    BY <2>1, ThreadsAssumption, CriticalSet DEF Init, Threads
  <2> QED BY <2>1 DEF LockInv
<1>2. TypeOK /\ LockInv /\ [Next]_vars => LockInv'
  <2> SUFFICES ASSUME TypeOK, LockInv, [Next]_vars PROVE LockInv' BY Zenon
  <2>1. CASE UNCHANGED <<task_mutex, pc>> BY <2>1 DEF LockInv
  <2>2. Tick \/ UNCHANGED vars => UNCHANGED <<task_mutex, pc>> BY DEF Tick, vars
  <2> QED BY <2>1, <2>2, UserLock, LoopLocks DEF Next, Terminated
<1> QED BY <1>1, <1>2, TypesCorrect, PTL DEF Spec

\* Every task that is ready is queued at one place or held by one thread.
THEOREM ReadyHeldOnce == Spec => []ReadyInv
<1>1. Init => ReadyInv
  <2> SUFFICES ASSUME Init PROVE ReadyInv OBVIOUS
  <2>1. ready_queue = <<>> /\ \A t \in Tasks : state[t] # "Ready" BY Zenon DEF Init
  <2>2. \A x \in Threads : pc[x] \notin HoldLabels BY Zenon DEF Init, HoldLabels
  <2> QED BY <2>1, <2>2, SMT, Z3 DEF ReadyInv, Holds
<1>2. TypeOK /\ ReadyInv /\ [Next]_vars => ReadyInv'
  <2> SUFFICES ASSUME TypeOK, ReadyInv, [Next]_vars PROVE ReadyInv' OBVIOUS
  <2>1. CASE UNCHANGED <<ready_queue, state, pc, loc>> BY <2>1 DEF ReadyInv, Holds, Task
  <2>2. Tick \/ UNCHANGED vars => UNCHANGED <<ready_queue, state, pc, loc>>
    BY Zenon DEF Tick, vars, atomics, ready
  <2>3. ASSUME NEW x \in Users, SharedStep(x) PROVE ReadyInv'
    <3>1. x \in Threads BY Zenon DEF Threads
    <3> QED BY <2>3, <3>1, SharedReady
  <2> QED BY <2>1, <2>2, <2>3, UserReady, LoopReady DEF Next, Terminated, UserStep
<1> QED BY <1>1, <1>2, TypesCorrect, PTL DEF Spec

-----------------------------------------------------------------------------
(***************************************************************************)
(* Tasks and their lists.                                                  *)
(***************************************************************************)
\* While a thread works on a task with the lock held, the task is in the state the
\* thread has moved it to or has been moved back to StateReady.
THEOREM TasksInStage == Spec => []StageInv
<1>1. Init => StageInv BY StageInit
<1>2. TypeOK /\ LockInv /\ StageInv /\ [Next]_vars => StageInv' BY StageStays
<1> QED BY <1>1, <1>2, TypesCorrect, MutualExclusion, PTL DEF Spec

\* A task is where its state and its flags say: in the lists once, by its deadline,
\* and in none of them while it is executed.
THEOREM TasksKept == Spec => []TasksInv
<1>1. Init => TasksInv BY TasksInit
<1>2. TypeOK /\ LockInv /\ ReadyInv /\ StageInv /\ TasksInv /\ [Next]_vars => TasksInv' BY FirstPosition, TasksStay
<1> QED BY <1>1, <1>2, TypesCorrect, MutualExclusion, ReadyHeldOnce, TasksInStage, PTL DEF Spec

\* The sleeping queue is sorted by deadline, without a task twice, and a sleeping
\* task is in it, paused, or about to be put there.
THEOREM SleepersAreKept == Spec => []SleepersKept
<1>1. TypeOK /\ TasksInv => SleepersKept BY SleepersListed
<1> QED BY <1>1, TypesCorrect, TasksKept, PTL

\* The only panic of the queue is that of cancel_task_() for a task that was
\* cancelled already, and a task has at most one of its final and paused flags.
THEOREM PanicsOnlyInCancel == Spec => []OnlyCancelPanics
<1>1. TypeOK /\ TasksInv => OnlyCancelPanics
  <2> SUFFICES ASSUME TypeOK, TasksInv, NEW t \in Tasks
               PROVE  Cardinality(flags[t] \cap {"Succeeded", "Cancelled", "Paused"}) <= 1
    BY Zenon DEF OnlyCancelPanics, TasksInv
  <2> DEFINE S == flags[t] \cap {"Succeeded", "Cancelled", "Paused"}
  <2>1. TaskOK(t) BY DEF TasksInv
  <2>2. S = {} \/ S = {"Succeeded"} \/ S = {"Cancelled"} \/ S = {"Paused"} BY <2>1 DEF TaskOK
  <2> HIDE DEF S
  <2>3. Cardinality(S) = 0 \/ Cardinality(S) = 1 BY <2>2, FS_EmptySet, FS_Singleton
  <2> QED BY <2>3, SMT, Z3 DEF S
<1> QED BY <1>1, TasksKept, TypesCorrect, PTL

-----------------------------------------------------------------------------
(***************************************************************************)
(* The ready queue and its size.                                           *)
(***************************************************************************)
\* A task is in StateReady exactly when it is in the ready queue, once, or in the
\* hands of one thread, for any number of threads and tasks: request_renew_(),
\* try_renew_inplace_(), renew_scheduling_() and reborn_task_() never queue a task
\* twice, lose it or renew it at the same time.
THEOREM ReadyOnceHolds == Spec => []ReadyOnce
<1>1. TypeOK /\ ReadyInv => ReadyOnce
  <2> SUFFICES ASSUME TypeOK, ReadyInv, NEW t \in Tasks
               PROVE  Cardinality(Holders(t))
                        + Cardinality({i \in DOMAIN ready_queue : ready_queue[i] = t})
                          = IF state[t] = "Ready" THEN 1 ELSE 0
    BY Zenon DEF ReadyOnce
  <2> DEFINE H == Holders(t)
             Q == {i \in DOMAIN ready_queue : ready_queue[i] = t}
  <2> SUFFICES Cardinality(H) + Cardinality(Q) = IF state[t] = "Ready" THEN 1 ELSE 0
    BY Zenon
  <2>1. H = {x \in Threads : Holds(x, t)} BY Zenon DEF Holders, Holds, HoldLabels
  <2>2. Cardinality({}) = 0 /\ \A e : Cardinality({e}) = 1 BY FS_EmptySet, FS_Singleton
  <2>3. CASE state[t] # "Ready"
    <3>1. H = {} /\ Q = {} BY <2>1, <2>3 DEF ReadyInv
    <3>2. Cardinality(H) = 0 /\ Cardinality(Q) = 0 BY <2>2, <3>1, Zenon
    <3> HIDE DEF H, Q
    <3> QED BY <2>3, <3>2, SMT, Z3
  <2>4. CASE state[t] = "Ready" /\ \E i \in DOMAIN ready_queue : ready_queue[i] = t
    <3>1. PICK i \in DOMAIN ready_queue : ready_queue[i] = t BY <2>4
    <3>2. \A j \in DOMAIN ready_queue : ready_queue[j] = t => j = i BY <3>1, Zenon DEF ReadyInv
    <3>3. Q = {i} BY <3>1, <3>2, ZenonT(30)
    <3>4. H = {} BY <2>1, <3>1 DEF ReadyInv
    <3>5. Cardinality(H) = 0 /\ Cardinality(Q) = 1 BY <2>2, <3>3, <3>4, ZenonT(30)
    <3> HIDE DEF H, Q
    <3> QED BY <2>4, <3>5, SMT, Z3
  <2>5. CASE state[t] = "Ready" /\ ~\E i \in DOMAIN ready_queue : ready_queue[i] = t
    <3>1. PICK x \in Threads : Holds(x, t) BY <2>5 DEF ReadyInv
    <3>2. \A y \in Threads : Holds(y, t) => y = x BY <3>1, Zenon DEF ReadyInv
    <3>3. H = {x} BY <2>1, <3>1, <3>2, ZenonT(30)
    <3>4. Q = {} BY <2>5
    <3>5. Cardinality(H) = 1 /\ Cardinality(Q) = 0 BY <2>2, <3>3, <3>4, ZenonT(30)
    <3> HIDE DEF H, Q
    <3> QED BY <2>5, <3>5, SMT, Z3
  <2> QED BY <2>3, <2>4, <2>5
<1> QED BY <1>1, TypesCorrect, ReadyHeldOnce, PTL

\* Where a user counts in ready_queue_size_, and which users do.
CountLabels == CompleteLabels \cup {"push", "trylock", "unlock_push", "renew", "x_flags", "dec"}
InFlight == {x \in Users : pc[x] \in CountLabels}

\* The number of users that count stays, goes up or goes down by one, as the user
\* that moves does.
LEMMA InFlightMoves ==
  ASSUME NEW x \in Threads, Moves(x)
  PROVE  /\ Cardinality(InFlight) \in Nat
         /\ x = Loop \/ (pc'[x] \in CountLabels <=> pc[x] \in CountLabels) => InFlight' = InFlight
         /\ x # Loop /\ pc[x] \notin CountLabels /\ pc'[x] \in CountLabels =>
               Cardinality(InFlight') = Cardinality(InFlight) + 1
         /\ x # Loop /\ pc[x] \in CountLabels /\ pc'[x] \notin CountLabels =>
               Cardinality(InFlight') = Cardinality(InFlight) - 1
<1>1. IsFiniteSet(InFlight)
  <2>1. InFlight \subseteq Users BY Zenon DEF InFlight
  <2> QED BY <2>1, ThreadsAssumption, FS_Subset
<1>2. Cardinality(InFlight) \in Nat BY <1>1, FS_CardinalityType
<1>3. \A y \in Users : y # x => (y \in InFlight' <=> y \in InFlight) BY Zenon DEF Moves, InFlight, Threads
<1>4. /\ \A y : y \in InFlight \/ y \in InFlight' => y \in Users
      /\ \A y \in Users : (y \in InFlight <=> pc[y] \in CountLabels) /\ (y \in InFlight' <=> pc'[y] \in CountLabels)
  BY Zenon DEF InFlight
<1>5. x # Loop => x \in Users BY Zenon DEF Threads
<1>6. ASSUME x = Loop \/ (pc'[x] \in CountLabels <=> pc[x] \in CountLabels) PROVE InFlight' = InFlight
  BY <1>3, <1>4, <1>6, ThreadsAssumption
<1>7. ASSUME x # Loop, pc[x] \notin CountLabels, pc'[x] \in CountLabels
      PROVE  Cardinality(InFlight') = Cardinality(InFlight) + 1
  <2>1. x \notin InFlight /\ InFlight' = InFlight \cup {x} BY <1>3, <1>4, <1>5, <1>7
  <2> QED BY <1>1, <2>1, FS_AddElement, ZenonT(30)
<1>8. ASSUME x # Loop, pc[x] \in CountLabels, pc'[x] \notin CountLabels
      PROVE  Cardinality(InFlight') = Cardinality(InFlight) - 1
  <2>1. x \in InFlight /\ InFlight' = InFlight \ {x} BY <1>3, <1>4, <1>5, <1>8
  <2> QED BY <1>1, <2>1, FS_RemoveElement
<1> QED BY <1>2, <1>6, <1>7, <1>8

\* ready_queue_size_ less what is in the queue and what the event loop thread has in
\* its hands.
LoopHolds == pc[Loop] \in {"load", "newstate", "recheck"}
SizeInv == ready_queue_size = Len(ready_queue) + Cardinality(InFlight) + (IF LoopHolds THEN 1 ELSE 0)

\* The numbers involved.
LEMMA SizeTypes ==
  ASSUME TypeOK
  PROVE  /\ ready_queue_size \in Int /\ Len(ready_queue) \in Nat
         /\ \A t : t \in Tasks => Len(Append(ready_queue, t)) = Len(ready_queue) + 1
         /\ ready_queue # <<>> => Len(Tail(ready_queue)) = Len(ready_queue) - 1
<1>1. ready_queue \in Seq(Tasks) /\ ready_queue_size \in Int BY DEF TypeOK, DataOK
<1> QED BY <1>1, SMT, Z3

\* A step that leaves the queue and its size alone and does not change who counts.
LEMMA SizeKept ==
  ASSUME TypeOK, SizeInv, NEW x \in Threads, Moves(x), UNCHANGED <<ready_queue, ready_queue_size>>,
         x # Loop => (pc'[x] \in CountLabels <=> pc[x] \in CountLabels),
         x = Loop => (pc'[Loop] \in {"load", "newstate", "recheck"} <=> LoopHolds)
  PROVE  SizeInv'
<1>1. InFlight' = InFlight BY InFlightMoves
<1>2. LoopHolds' <=> LoopHolds BY Zenon DEF LoopHolds, Moves, Threads
<1> QED BY <1>1, <1>2 DEF SizeInv

\* A user begins to count, stops to count, or queues the task it counts for.
LEMMA SizeUser ==
  ASSUME TypeOK, SizeInv, NEW x \in Users, Moves(x),
         \/ /\ pc[x] \notin CountLabels /\ pc'[x] \in CountLabels
            /\ ready_queue_size' = ready_queue_size + 1 /\ ready_queue' = ready_queue
         \/ /\ pc[x] \in CountLabels /\ pc'[x] \notin CountLabels
            /\ ready_queue_size' = ready_queue_size - 1 /\ ready_queue' = ready_queue
         \/ /\ pc[x] \in CountLabels /\ pc'[x] \notin CountLabels
            /\ ready_queue_size' = ready_queue_size
            /\ Task(x) \in Tasks /\ ready_queue' = Append(ready_queue, Task(x))
  PROVE  SizeInv'
<1>1. x \in Threads /\ x # Loop BY ThreadsAssumption DEF Threads
<1>2. LoopHolds' <=> LoopHolds BY <1>1 DEF LoopHolds, Moves, Threads
<1>3. /\ Cardinality(InFlight) \in Nat
      /\ pc[x] \notin CountLabels /\ pc'[x] \in CountLabels =>
            Cardinality(InFlight') = Cardinality(InFlight) + 1
      /\ pc[x] \in CountLabels /\ pc'[x] \notin CountLabels =>
            Cardinality(InFlight') = Cardinality(InFlight) - 1
  BY <1>1, InFlightMoves, ZenonT(30)
<1> DEFINE n == Cardinality(InFlight)
           m == Cardinality(InFlight')
           h == IF LoopHolds THEN 1 ELSE 0
<1>4. ready_queue_size = Len(ready_queue) + n + h BY Zenon DEF SizeInv
<1>5. SUFFICES ready_queue_size' = Len(ready_queue') + m + h BY <1>2 DEF SizeInv
<1>6. n \in Nat /\ h \in Nat BY <1>3
<1>7. /\ pc[x] \notin CountLabels /\ pc'[x] \in CountLabels => m = n + 1
      /\ pc[x] \in CountLabels /\ pc'[x] \notin CountLabels => m = n - 1
  BY <1>3
<1> HIDE DEF n, m, h
<1> QED BY <1>4, <1>6, <1>7, SizeTypes, SMT, Z3

\* The event loop thread takes a task from the queue, gives it back, is done with
\* it, or queues one.
LEMMA SizeLoop ==
  ASSUME TypeOK, SizeInv, Moves(Loop),
         \/ /\ ~LoopHolds /\ pc'[Loop] \in {"load", "newstate", "recheck"}
            /\ ready_queue # <<>> /\ ready_queue' = Tail(ready_queue) /\ ready_queue_size' = ready_queue_size
         \/ /\ LoopHolds /\ pc'[Loop] \notin {"load", "newstate", "recheck"}
            /\ ready_queue_size' = ready_queue_size - 1 /\ ready_queue' = ready_queue
         \/ /\ LoopHolds /\ pc'[Loop] \notin {"load", "newstate", "recheck"}
            /\ ready_queue_size' = ready_queue_size
            /\ Task(Loop) \in Tasks /\ ready_queue' = Append(ready_queue, Task(Loop))
         \/ /\ ~LoopHolds /\ pc'[Loop] \notin {"load", "newstate", "recheck"}
            /\ ready_queue_size' = ready_queue_size + 1
            /\ Task(Loop) \in Tasks /\ ready_queue' = Append(ready_queue, Task(Loop))
  PROVE  SizeInv'
<1>1. Loop \in Threads BY Zenon DEF Threads
<1>2. InFlight' = InFlight /\ Cardinality(InFlight) \in Nat BY <1>1, InFlightMoves, ZenonT(30)
<1>3. LoopHolds' <=> pc'[Loop] \in {"load", "newstate", "recheck"} BY Zenon DEF LoopHolds
<1> DEFINE n == Cardinality(InFlight)
<1>4. ready_queue_size = Len(ready_queue) + n + (IF LoopHolds THEN 1 ELSE 0) /\ n \in Nat
  BY <1>2 DEF SizeInv
<1>5. SUFFICES ready_queue_size' = Len(ready_queue') + n + (IF LoopHolds' THEN 1 ELSE 0) BY <1>2 DEF SizeInv
<1> HIDE DEF n
<1> QED BY <1>3, <1>4, SizeTypes, SMT, Z3

\* The labels where a user counts.
LEMMA CountSet ==
  CountLabels = {"c_start", "c_sem", "c_done", "c_post", "push", "trylock", "unlock_push", "renew",
                 "x_flags", "dec"}
BY Zenon DEF CountLabels, CompleteLabels

\* The calls of the users, wait() and the steps of a request.
LEMMA UserSize ==
  ASSUME TypeOK, SizeInv, NEW x \in Users,
         \/ RenewStep(x) \/ WaitStep(x) \/ Stop(x)
         \/ \E t \in Tasks : Schedule(x, t) \/ AsyncCancel(x, t) \/ Resume(x, t) \/ Wait(x, t)
  PROVE  SizeInv'
<1> USE DEF ready
<1>1. x \in Threads /\ x # Loop /\ ControlOK BY ThreadsAssumption DEF Threads, TypeOK
<1>2. ASSUME NEW t \in Tasks, Schedule(x, t) \/ AsyncCancel(x, t) \/ Resume(x, t) \/ Wait(x, t)
      PROVE  SizeInv'
  <2>1. UNCHANGED <<ready_queue, ready_queue_size>>
    BY <1>2, ZenonT(30) DEF Schedule, AsyncCancel, Renew, Resume, Wait
  <2>2. /\ pc[x] = "idle"
        /\ UNCHANGED <<pc, loc>> \/ (Moves(x) /\ pc'[x] \in {"store", "exchange", "w_attach"})
    BY <1>2, CallEdges, ZenonT(30)
  <2>3. CASE UNCHANGED <<pc, loc>> BY <2>1, <2>3 DEF SizeInv, InFlight, LoopHolds
  <2>4. CASE Moves(x) /\ pc'[x] \in {"store", "exchange", "w_attach"}
    <3>1. pc'[x] \notin CountLabels /\ pc[x] \notin CountLabels BY <2>2, <2>4, CountSet
    <3> QED BY <1>1, <2>1, <2>4, <3>1, SizeKept, ZenonT(30)
  <2> QED BY <2>2, <2>3, <2>4
<1>3. CASE RenewStore(x) \/ RenewCancel(x) \/ RenewPaused(x) \/ ExchangeReady(x) \/ Link(x) \/ RequestSet(x)
           \/ Return(x) \/ Stop(x) \/ WaitStep(x)
  <2>1. UNCHANGED <<ready_queue, ready_queue_size>>
    BY <1>3, ZenonT(30) DEF RenewStore, RenewCancel, RenewPaused, ExchangeReady, Link, RequestSet, TrySet, Commit,
       Return, Stop, WaitStep, WaitAttach, WaitSpin, WaitReadState, WaitReadSem, WaitSem, WaitEnd
  <2>2. loc[x].ret \in {"unguard", "return", "join"} BY <1>1 DEF ControlOK, LocalsOK, UserLocals
  <2>3. /\ Moves(x)
        /\ pc[x] \in {"idle", "store", "cancel", "paused", "exchange", "link", "set", "commit", "unguard",
                      "return", "w_attach", "w_spin", "w_state", "w_pointer", "w_sem", "w_end"}
        /\ pc'[x] \in {"idle", "cancel", "paused", "exchange", "size", "set", "commit", "unguard", "return",
                       "join", "w_spin", "w_state", "w_pointer", "w_sem", "w_end"}
    BY <1>3, <2>2, RequestEdges, CallEdges, WaitEdges, ZenonT(30) DEF Works, WaitStep
  <2>4. pc'[x] \notin CountLabels /\ pc[x] \notin CountLabels BY <2>3, CountSet
  <2> QED BY <1>1, <2>1, <2>3, <2>4, SizeKept, ZenonT(30)
<1>4. CASE TryLock(x) \/ UnlockPush(x) \/ RenewInplace(x)
  <2>1. UNCHANGED <<ready_queue, ready_queue_size>> BY <1>4, Zenon DEF TryLock, UnlockPush, RenewInplace
  <2>2. /\ Moves(x) /\ pc[x] \in {"trylock", "unlock_push", "renew"}
        /\ pc'[x] \in {"push", "renew", "unlock_push", "x_flags", "dec"}
    BY <1>4, RequestEdges, ZenonT(30) DEF Works
  <2>3. pc'[x] \in CountLabels /\ pc[x] \in CountLabels BY <2>2, CountSet
  <2> QED BY <1>1, <2>1, <2>2, <2>3, SizeKept, ZenonT(30)
<1>5. CASE CommitSize(x)
  <2>1. Moves(x) /\ pc[x] = "size" /\ pc'[x] \in {"trylock", "push"} BY <1>5, RequestEdges, ZenonT(30) DEF Works
  <2>2. pc'[x] \in CountLabels /\ pc[x] \notin CountLabels BY <2>1, CountSet
  <2>3. ready_queue_size' = ready_queue_size + 1 /\ ready_queue' = ready_queue BY <1>5 DEF CommitSize
  <2> QED BY <2>1, <2>2, <2>3, SizeUser, ZenonT(30)
<1>6. CASE Push(x)
  <2>1. Moves(x) /\ pc[x] = "push" /\ pc'[x] = "link" BY <1>6, RequestEdges, ZenonT(30) DEF Works
  <2>2. pc[x] \in CountLabels /\ pc'[x] \notin CountLabels BY <2>1, CountSet
  <2>3. Task(x) \in Tasks BY <1>1, <2>1, UserTask
  <2>4. ready_queue_size' = ready_queue_size /\ ready_queue' = Append(ready_queue, Task(x))
    BY <1>6 DEF Push
  <2> QED BY <2>1, <2>2, <2>3, <2>4, SizeUser, ZenonT(30)
<1>7. CASE RenewedInplace(x)
  <2>1. Moves(x) /\ pc[x] = "dec" /\ pc'[x] = "update" BY <1>7, RequestEdges, ZenonT(30) DEF Works
  <2>2. pc[x] \in CountLabels /\ pc'[x] \notin CountLabels BY <2>1, CountSet
  <2>3. ready_queue_size' = ready_queue_size - 1 /\ ready_queue' = ready_queue BY <1>7 DEF RenewedInplace
  <2> QED BY <2>1, <2>2, <2>3, SizeUser, ZenonT(30)
<1> QED BY <1>2, <1>3, <1>4, <1>5, <1>6, <1>7 DEF RenewStep

\* The steps that users and the event loop thread share.
LEMMA SharedSize ==
  ASSUME TypeOK, SizeInv, NEW x \in Threads, SharedStep(x)
  PROVE  SizeInv'
<1>1. UNCHANGED <<ready_queue, ready_queue_size>>
  BY Zenon DEF SharedStep, UpdateWakeup, UpdateSet, UpdateCheck, TrySet, Commit, Unlock, CancelFlags,
     CompleteStart, CompleteTakeSem, CompleteDone, CompletePost, ready
<1>2. CASE UpdateWakeup(x) \/ UpdateSet(x) \/ UpdateCheck(x) \/ Unlock(x)
  <2>1. /\ Moves(x) /\ pc[x] \in {"update", "u_set", "u_commit", "u_check", "unlock"}
        /\ pc'[x] \in {"u_set", "u_commit", "u_check", "unlock", "unguard", "stopped", "wait", "pop", "sleep"}
    BY <1>2, SharedEdges, ZenonT(30) DEF Works
  <2>2. pc'[x] \notin CountLabels /\ pc[x] \notin CountLabels BY <2>1, CountSet
  <2>3. /\ pc'[x] \notin {"load", "newstate", "recheck"}
        /\ pc[x] \notin {"load", "newstate", "recheck"}
    BY <2>1
  <2> QED BY <1>1, <2>1, <2>2, <2>3, SizeKept, ZenonT(30) DEF LoopHolds
<1>3. CASE CancelFlags(x) \/ CompleteStart(x) \/ CompleteTakeSem(x) \/ CompleteDone(x) \/ CompletePost(x)
  <2>1. /\ Moves(x) /\ pc[x] \in {"x_flags", "c_start", "c_sem", "c_done", "c_post"}
        /\ pc'[x] \in {"c_start", "c_sem", "c_done", "c_post", "dec", "pop", "sleep", "reborn"}
        /\ x # Loop => pc'[x] \in {"c_start", "c_sem", "c_done", "c_post", "dec"}
    BY <1>3, SharedEdges, ZenonT(30) DEF Works
  <2>2. pc[x] \in CountLabels /\ (x # Loop => pc'[x] \in CountLabels) BY <2>1, CountSet
  <2>3. /\ pc'[x] \notin {"load", "newstate", "recheck"}
        /\ pc[x] \notin {"load", "newstate", "recheck"}
    BY <2>1
  <2> QED BY <1>1, <2>1, <2>2, <2>3, SizeKept, ZenonT(30) DEF LoopHolds
<1> QED BY <1>2, <1>3 DEF SharedStep

\* The steps of the event loop thread.
LEMMA LoopSize ==
  ASSUME TypeOK, SizeInv, LoopStep
  PROVE  SizeInv'
<1> USE DEF ready
<1> DEFINE H == {"load", "newstate", "recheck"}
<1>1. Loop \in Threads /\ ControlOK BY Zenon DEF Threads, TypeOK
<1>2. LoopHolds <=> pc[Loop] \in H BY Zenon DEF LoopHolds
<1>3. CASE LoopWake \/ LoopLock \/ FetchSleeping \/ ExecuteBegin \/ ExecuteFinish \/ CheckRenewed
           \/ ExecuteOperation \/ ExecutePause \/ PauseTask \/ PauseCheck \/ ExecuteContinue
  <2>1. UNCHANGED <<ready_queue, ready_queue_size>>
    BY <1>3, ZenonT(30) DEF LoopWake, LoopLock, FetchSleeping, ExecuteBegin, ExecuteFinish, CheckRenewed,
       ExecuteOperation, ExecutePause, PauseTask, PauseCheck, ExecuteContinue
  <2>2. /\ Moves(Loop)
        /\ pc[Loop] \in {"wait", "lock", "sleep", "exec", "run", "renewed", "pause", "p_sleep", "p_check"}
        /\ pc'[Loop] \in {"lock", "pop", "sleep", "update", "exec", "run", "renewed", "c_start", "pause",
                          "p_sleep", "p_check", "reborn"}
    BY <1>3, LoopEdges, ZenonT(30) DEF Works
  <2>3. pc[Loop] \notin H /\ pc'[Loop] \notin H BY <2>2
  <2> QED BY <1>1, <1>2, <2>1, <2>2, <2>3, SizeKept, ZenonT(30)
<1>4. CASE FetchNewState \/ FetchPanic
  <2>1. UNCHANGED <<ready_queue, ready_queue_size>> BY <1>4, ZenonT(30) DEF FetchNewState, FetchPanic
  <2>2. Moves(Loop) /\ pc[Loop] \in {"newstate", "recheck"} /\ pc'[Loop] \in {"newstate", "recheck"}
    BY <1>4, LoopEdges, ZenonT(30) DEF Works
  <2>3. pc[Loop] \in H /\ pc'[Loop] \in H BY <2>2
  <2> QED BY <1>1, <1>2, <2>1, <2>2, <2>3, SizeKept, ZenonT(30)
<1>5. CASE FetchPop
  <2>1. ready_queue_size' = ready_queue_size /\ pc[Loop] = "pop" BY <1>5 DEF FetchPop, At
  <2>2. CASE Moves(Loop) /\ pc'[Loop] \in {"sleep", "update"} /\ ready_queue' = ready_queue
    <3>1. pc[Loop] \notin H /\ pc'[Loop] \notin H BY <2>1, <2>2
    <3> QED BY <1>1, <1>2, <2>1, <2>2, <3>1, SizeKept, ZenonT(30)
  <2>3. CASE Moves(Loop) /\ pc'[Loop] = "load" /\ ready_queue # <<>> /\ ready_queue' = Tail(ready_queue)
    <3>1. pc[Loop] \notin H /\ pc'[Loop] \in H BY <2>1, <2>3
    <3> QED BY <1>2, <2>1, <2>3, <3>1, SizeLoop, ZenonT(30)
  <2> QED BY <1>5, <2>2, <2>3, FetchMoves, ZenonT(30)
<1>6. CASE FetchLoad
  <2>1. ready_queue_size' = ready_queue_size /\ pc[Loop] = "load" BY <1>6 DEF FetchLoad, At
  <2>2. Task(Loop) \in Tasks BY <1>1, <2>1, LoopTask
  <2>3. CASE Works(Loop) /\ pc'[Loop] = "pop" /\ ready_queue' = Append(ready_queue, Task(Loop))
    <3>1. pc[Loop] \in H /\ pc'[Loop] \notin H /\ Moves(Loop) BY <2>1, <2>3 DEF Works
    <3> QED BY <1>2, <2>1, <2>2, <2>3, <3>1, SizeLoop, ZenonT(30)
  <2>4. CASE Moves(Loop) /\ pc'[Loop] = "newstate" /\ ready_queue' = ready_queue
    <3>1. pc[Loop] \in H /\ pc'[Loop] \in H BY <2>1, <2>4
    <3> QED BY <1>1, <1>2, <2>1, <2>4, <3>1, SizeKept, ZenonT(30)
  <2> QED BY <1>6, <2>3, <2>4, FetchMoves, ZenonT(30)
<1>7. CASE FetchAgain
  <2>1. Moves(Loop) /\ pc[Loop] = "recheck" /\ pc'[Loop] = "pop" BY <1>7, LoopEdges, ZenonT(30) DEF Works
  <2>2. pc[Loop] \in H /\ pc'[Loop] \notin H BY <2>1, ZenonT(30)
  <2>3. Task(Loop) \in Tasks BY <1>1, <2>1, LoopTask
  <2>4. \/ ready_queue' = Append(ready_queue, Task(Loop)) /\ ready_queue_size' = ready_queue_size
        \/ ready_queue_size' = ready_queue_size - 1 /\ ready_queue' = ready_queue
    BY <1>7, ZenonT(30) DEF FetchAgain
  <2> QED BY <1>2, <2>1, <2>2, <2>3, <2>4, SizeLoop, ZenonT(30)
<1>8. CASE FetchReady
  <2>1. Moves(Loop) /\ pc[Loop] = "recheck" /\ pc'[Loop] \in {"x_flags", "exec", "pop"}
    BY <1>8, LoopEdges, ZenonT(30)
  <2>2. pc[Loop] \in H /\ pc'[Loop] \notin H BY <2>1
  <2>3. ready_queue_size' = ready_queue_size - 1 /\ ready_queue' = ready_queue
    BY <1>8, ZenonT(30) DEF FetchReady
  <2> QED BY <1>2, <2>1, <2>2, <2>3, SizeLoop, ZenonT(30)
<1>9. CASE RebornTask
  <2>1. Moves(Loop) /\ pc[Loop] = "reborn" /\ pc'[Loop] \in {"pop", "sleep"} BY <1>9, LoopEdges, ZenonT(30)
  <2>2. pc[Loop] \notin H /\ pc'[Loop] \notin H BY <2>1, Zenon
  <2>3. Task(Loop) \in Tasks BY <1>1, <2>1, LoopTask
  <2>4. \/ ready_queue' = Append(ready_queue, Task(Loop)) /\ ready_queue_size' = ready_queue_size + 1
        \/ UNCHANGED <<ready_queue, ready_queue_size>>
    BY <1>9, Zenon DEF RebornTask
  <2>5. CASE ready_queue' = Append(ready_queue, Task(Loop)) /\ ready_queue_size' = ready_queue_size + 1
    BY <1>2, <2>1, <2>2, <2>3, <2>5, SizeLoop, ZenonT(30)
  <2>6. CASE UNCHANGED <<ready_queue, ready_queue_size>>
    BY <1>1, <1>2, <2>1, <2>2, <2>6, SizeKept, ZenonT(30)
  <2> QED BY <2>4, <2>5, <2>6
<1> QED BY <1>1, <1>3, <1>4, <1>5, <1>6, <1>7, <1>8, <1>9, SharedSize DEF LoopStep

\* ready_queue_size_ counts the queued tasks and those in the hands of a thread,
\* for any number of threads and tasks: process_tasks_() and update_wakeup_timer_()
\* may take zero to mean that no request is left to be handled.
THEOREM SizeCounted == Spec => []SizeCounts
<1>1. SizeInv <=> SizeCounts BY Zenon DEF SizeInv, SizeCounts, InFlight, CountLabels, LoopHolds
<1>2. Init => SizeInv
  <2> SUFFICES ASSUME Init PROVE SizeInv OBVIOUS
  <2>1. ready_queue = <<>> /\ ready_queue_size = 0 BY Zenon DEF Init
  <2>2. \A x \in Threads : pc[x] \in {"wait", "idle"} BY Zenon DEF Init
  <2>3. \A x \in Threads : pc[x] \notin CountLabels BY <2>2, CountSet
  <2>4. InFlight = {} /\ ~LoopHolds BY <2>2, <2>3 DEF InFlight, LoopHolds, Threads
  <2>5. Cardinality(InFlight) = 0 BY <2>4, FS_EmptySet
  <2> QED BY <2>1, <2>4, <2>5, SMT, Z3 DEF SizeInv
<1>3. TypeOK /\ SizeInv /\ [Next]_vars => SizeInv'
  <2> SUFFICES ASSUME TypeOK, SizeInv, [Next]_vars PROVE SizeInv' OBVIOUS
  <2>1. CASE UNCHANGED <<ready_queue, ready_queue_size, pc>> BY <2>1 DEF SizeInv, InFlight, LoopHolds
  <2>2. Tick \/ UNCHANGED vars => UNCHANGED <<ready_queue, ready_queue_size, pc>> BY DEF Tick, vars, ready
  <2>3. ASSUME NEW x \in Users, SharedStep(x) PROVE SizeInv'
    <3>1. x \in Threads BY DEF Threads
    <3> QED BY <2>3, <3>1, SharedSize
  <2> QED BY <2>1, <2>2, <2>3, UserSize, LoopSize DEF Next, Terminated, UserStep
<1> QED BY <1>1, <1>2, <1>3, TypesCorrect, PTL DEF Spec

-----------------------------------------------------------------------------
(***************************************************************************)
(* wait().                                                                 *)
(***************************************************************************)
\* A waiter is not forgotten, whoever completes or re-schedules the task meanwhile.
THEOREM WaitersKept == Spec => []WaitInv
<1>1. Init => WaitInv BY WaitInit
<1>2. TypeOK /\ LockInv /\ StageInv /\ WaitInv /\ [Next]_vars => WaitInv' BY WaitStays
<1> QED BY <1>1, <1>2, TypesCorrect, MutualExclusion, TasksInStage, PTL DEF Spec

\* A wait() that blocks is sure to be woken: complete_task_() has posted its
\* semaphore or is about to, or the task is not completed and has the semaphore.
THEOREM WaiterIsWoken == Spec => []WaiterWoken
<1>1. WaitInv => WaiterWoken
  <2> SUFFICES ASSUME WaitInv, NEW x \in Users, pc[x] = "w_sem"
               PROVE  \/ sem[Task(x)] > 0
                      \/ \E y \in Threads : Task(y) = Task(x) /\ pc[y] \in CompleteLabels /\ loc[y].sem
                      \/ sem_attached[Task(x)] /\ state[Task(x)] # "Completed"
    BY Zenon DEF WaiterWoken
  <2>1. \/ Signalled(Task(x)) \/ Taken(Task(x))
        \/ sem_attached[Task(x)] /\ state[Task(x)] # "Completed"
    BY Zenon DEF WaitInv, Waiter
  <2>2. \A y \in Threads : loc[y].sem => pc[y] \in CompleteLabels BY DEF WaitInv, CompleteLabels
  <2> QED BY <2>1, <2>2, ZenonT(30) DEF Signalled, Taken
<1> QED BY <1>1, WaitersKept, PTL

-----------------------------------------------------------------------------
(***************************************************************************)
(* No task is forgotten.                                                   *)
(***************************************************************************)
\* The timer of the event loop thread is late for no task, ready or sleeping,
\* unless a thread is on its way to set it.
THEOREM TimerIsSet == Spec => []WakeInv
<1>1. Init => WakeInv BY WakeInit
<1>2. TypeOK /\ LockInv /\ TasksInv /\ WakeInv /\ [Next]_vars => WakeInv' BY WakeStep
<1> QED BY <1>1, <1>2, TypesCorrect, MutualExclusion, TasksKept, PTL DEF Spec

\* What renew_scheduling_() and fetch_task_() hand on is what the task was scheduled
\* or cancelled with last, unless its version shows that it has been renewed since.
THEOREM RequestsKept == Spec => []RequestInv
<1>1. Init => RequestInv BY RequestInit
<1>2. TypeOK /\ RequestInv /\ [Next]_vars => RequestInv' BY RequestStep
<1> QED BY <1>1, <1>2, TypesCorrect, PTL DEF Spec

\* A task that is neither asleep nor completed, or whose latest deadline is not in
\* effect, is ready or in the hands of a thread that moves it on; so is a task that
\* is cancelled while it sleeps.  Not so a task that is paused, or that was cancelled
\* after it had paused.
THEOREM TasksMoveOn == Spec => []ProgressInv
<1>1. Init => ProgressInv BY ProgressInit
<1>2. TypeOK /\ LockInv /\ StageInv /\ TasksInv /\ RequestInv /\ ProgressInv /\ [Next]_vars => ProgressInv'
  BY ProgressStep
<1> QED BY <1>1, <1>2, TypesCorrect, MutualExclusion, TasksInStage, TasksKept, RequestsKept, PTL DEF Spec

\* Nobody has anything left to do while the event loop thread sleeps.
LEMMA NothingLeft ==
  ASSUME TypeOK, ReadyInv, WakeInv, ProgressInv, Len(ready_queue) <= ready_queue_size, Asleep
  PROVE  /\ ready_queue = <<>> /\ ready_queue_size = 0
         /\ \A i \in DOMAIN sleeping_queue : 0 <= wakeup /\ wakeup <= effective_deadline[sleeping_queue[i]]
         /\ \A t \in Tasks : state[t] \in {"Sleeping", "Completed"} /\ ~Stale(t)
<1>1. \A x \in Threads : pc[x] \in {"idle", "wait"} \cup WaitLabels BY DEF Asleep, Threads
<1>2. /\ now \in Int /\ wakeup \in Int /\ ready_queue \in Seq(Tasks) /\ ready_queue_size \in Int
      /\ state \in [Tasks -> States]
  BY DEF TypeOK, DataOK
<1>3. \A x \in Threads : pc[x] \notin CriticalLabels
  <2>1. ({"idle", "wait"} \cup WaitLabels) \cap CriticalLabels = {} BY CriticalSet DEF WaitLabels
  <2> QED BY <1>1, <2>1
<1>4. \A x \in Threads : pc[x] \notin AlertLabels \cup ListingLabels \cup HoldLabels \cup MovingLabels /\ pc[x] # "commit"
  BY <1>1, <1>3 DEF AlertLabels, ListingLabels, HoldLabels, MovingLabels, WaitLabels
<1>5. ~Committing BY <1>4 DEF Committing
<1>6. wakeup # 0 BY <1>2, SMT, Z3 DEF Asleep, WakeInv
<1>7. ready_queue = <<>> /\ ready_queue_size = 0
  <2>1. ~(ready_queue_size > 0) BY <1>4, <1>5, <1>6, ZenonT(30) DEF WakeInv, Zero
  <2>2. Len(ready_queue) = 0 /\ ready_queue_size = 0 BY <1>2, <2>1, SMT, Z3
  <2> QED BY <1>2, <2>2, SMT, Z3
<1>8. Covered(wakeup) BY <1>4, <1>5 DEF WakeInv
<1>9. ASSUME NEW t \in Tasks PROVE state[t] \in {"Sleeping", "Completed"} /\ ~Stale(t)
  <2>1. state[t] # "Ready"
    <3>1. \A i \in DOMAIN ready_queue : FALSE BY <1>7, SMT, Z3
    <3>2. \A x \in Threads : ~Holds(x, t) BY <1>4 DEF Holds
    <3> QED BY <3>1, <3>2 DEF ReadyInv
  <2>2. state[t] \notin {"Cancelling", "Processing", "Completing"} BY <1>4 DEF ProgressInv, Progress, BusyOK
  <2>3. \A x \in Threads : ~Renewing(x) BY <1>1 DEF Renewing, WaitLabels, CompleteLabels
  <2>4. ~Stale(t) BY <2>1, <2>3 DEF ProgressInv, Progress, StaleOK
  <2>5. state[t] \in States BY <1>2
  <2> QED BY <2>1, <2>2, <2>4, <2>5 DEF States
<1> QED BY <1>7, <1>8, <1>9 DEF Covered

\* The event loop thread sleeps no longer than until the first deadline, and only
\* when every request has been handled but those NoTaskForgotten names: for a task
\* that has completed, that is paused, or that was cancelled after it had paused.
THEOREM NothingForgotten == Spec => []NoTaskForgotten
<1>1. TypeOK /\ SizeCounts => Len(ready_queue) <= ready_queue_size
  <2> SUFFICES ASSUME TypeOK, SizeCounts PROVE Len(ready_queue) <= ready_queue_size OBVIOUS
  <2>1. SizeInv BY Zenon DEF SizeInv, SizeCounts, InFlight, CountLabels, LoopHolds
  <2>2. InFlight \subseteq Users BY DEF InFlight
  <2>3. Cardinality(InFlight) \in Nat BY <2>2, ThreadsAssumption, FS_Subset, FS_CardinalityType
  <2>4. Len(ready_queue) \in Nat BY SizeTypes
  <2> QED BY <2>1, <2>3, <2>4, SMT, Z3 DEF SizeInv
<1>2. ASSUME TypeOK, NEW t \in Tasks, state[t] \in {"Sleeping", "Completed"}, ~Stale(t)
      PROVE  \/ effective_version[t] = version[t]
             \/ renewed_deadline[t] < 0 /\ state[t] = "Completed"
             \/ "Paused" \in flags[t]
             \/ PausingCancelled(t)
  <2>1. renewed_deadline[t] \in Int BY <1>2 DEF TypeOK, DataOK
  <2>2. ~(renewed_deadline[t] >= 0) => renewed_deadline[t] < 0 BY <2>1, SMT, Z3
  <2> QED BY <1>2, <2>2, Zenon DEF Stale
<1>3. TypeOK /\ ReadyInv /\ WakeInv /\ ProgressInv /\ SizeCounts => NoTaskForgotten
  BY <1>1, <1>2, NothingLeft, ZenonT(30) DEF NoTaskForgotten
<1> QED BY <1>3, TypesCorrect, ReadyHeldOnce, TimerIsSet, TasksMoveOn, SizeCounted, PTL

=============================================================================
