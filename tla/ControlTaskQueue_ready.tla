----------------------- MODULE ControlTaskQueue_ready -----------------------
(***************************************************************************)
(* The control task queue: mutual exclusion, the ready queue, and wait().  *)
(***************************************************************************)
EXTENDS ControlTaskQueue_types

-----------------------------------------------------------------------------
(***************************************************************************)
(* Mutual exclusion.                                                       *)
(***************************************************************************)
\* A step that stays on its side of the lock.
LEMMA LockKept ==
  ASSUME LockInv, NEW x \in Threads, Moves(x), task_mutex' = task_mutex,
         pc'[x] \in CriticalLabels <=> pc[x] \in CriticalLabels
  PROVE  LockInv'
BY Zenon DEF LockInv, Moves

\* A step that takes the lock.
LEMMA LockTaken ==
  ASSUME LockInv, NEW x \in Threads, Moves(x), task_mutex = NoThread, task_mutex' = x,
         pc'[x] \in CriticalLabels
  PROVE  LockInv'
BY ThreadsAssumption, Zenon DEF LockInv, Moves, Threads

\* A step that releases the lock.
LEMMA LockReleased ==
  ASSUME LockInv, NEW x \in Threads, Moves(x), pc[x] \in CriticalLabels, task_mutex' = NoThread,
         pc'[x] \notin CriticalLabels
  PROVE  LockInv'
BY ThreadsAssumption, Zenon DEF LockInv, Moves, Threads

\* The users keep to the lock.
LEMMA UserLock ==
  ASSUME TypeOK, LockInv, NEW x \in Users,
         \/ UserStep(x) \/ Stop(x)
         \/ \E t \in Tasks : Schedule(x, t) \/ AsyncCancel(x, t) \/ Resume(x, t) \/ Wait(x, t)
  PROVE  LockInv'
<1>1. x \in Threads /\ x # Loop BY ThreadsAssumption, Zenon DEF Threads
<1>2. ASSUME NEW t \in Tasks, Schedule(x, t) \/ AsyncCancel(x, t) \/ Resume(x, t) \/ Wait(x, t)
      PROVE  LockInv'
  <2>1. task_mutex' = task_mutex
    BY <1>2, Zenon DEF Schedule, AsyncCancel, Renew, Resume, Wait
  <2>2. /\ pc[x] = "idle"
        /\ UNCHANGED <<pc, loc>> \/ (Moves(x) /\ pc'[x] \in {"store", "exchange", "w_attach"})
    BY <1>2, CallEdges, Zenon
  <2>3. CASE UNCHANGED <<pc, loc>> BY <2>1, <2>3, Zenon DEF LockInv
  <2>4. CASE Moves(x) /\ pc'[x] \in {"store", "exchange", "w_attach"}
    <3>1. pc'[x] \in CriticalLabels <=> pc[x] \in CriticalLabels BY <2>2, <2>4, CriticalSet, Zenon
    <3> QED BY <1>1, <2>1, <2>4, <3>1, LockKept, Zenon
  <2> QED BY <2>2, <2>3, <2>4, Zenon
<1>3. CASE \/ RenewStore(x) \/ RenewCancel(x) \/ RenewPaused(x) \/ ExchangeReady(x) \/ CommitSize(x)
           \/ Push(x) \/ Link(x) \/ RequestSet(x) \/ Return(x) \/ Stop(x)
  <2>1. task_mutex' = task_mutex
    BY <1>3, Zenon DEF RenewStore, RenewCancel, RenewPaused, ExchangeReady, CommitSize, Push, Link,
       RequestSet, TrySet, Commit, Return, Stop
  <2>2. loc[x].ret \in {"unguard", "return", "join"}
    BY <1>1, Zenon DEF TypeOK, ControlOK, LocalsOK, UserLocals
  <2>3. /\ Moves(x)
        /\ pc[x] \in {"idle", "store", "cancel", "paused", "exchange", "size", "push", "link", "set",
                      "commit", "unguard", "return"}
        /\ pc'[x] \in {"idle", "cancel", "paused", "exchange", "size", "push", "link", "set", "commit",
                       "unguard", "return", "join", "trylock"}
    BY <1>3, <2>2, RequestEdges, CallEdges, Zenon DEF Works
  <2>4. pc'[x] \in CriticalLabels <=> pc[x] \in CriticalLabels BY <2>3, CriticalSet, Zenon
  <2> QED BY <1>1, <2>1, <2>3, <2>4, LockKept, Zenon
<1>4. CASE TryLock(x)
  <2>1. /\ Moves(x) /\ pc[x] = "trylock"
        /\ pc'[x] \in IF task_mutex = NoThread THEN {"renew", "unlock_push"} ELSE {"push"}
    BY <1>4, RequestEdges, Zenon
  <2>2. CASE task_mutex = NoThread
    <3>1. task_mutex' = x BY <1>4, <2>2, Zenon DEF TryLock
    <3>2. pc'[x] \in CriticalLabels BY <2>1, <2>2, CriticalSet, Zenon
    <3> QED BY <1>1, <2>1, <2>2, <3>1, <3>2, LockTaken, Zenon
  <2>3. CASE task_mutex # NoThread
    <3>1. task_mutex' = task_mutex BY <1>4, <2>3, Zenon DEF TryLock
    <3>2. pc'[x] \in CriticalLabels <=> pc[x] \in CriticalLabels BY <2>1, <2>3, CriticalSet, Zenon
    <3> QED BY <1>1, <2>1, <3>1, <3>2, LockKept, Zenon
  <2> QED BY <2>2, <2>3, Zenon
<1>5. CASE UnlockPush(x)
  <2>1. Moves(x) /\ pc[x] = "unlock_push" /\ pc'[x] = "push" BY <1>5, RequestEdges, Zenon DEF Works
  <2>2. task_mutex' = NoThread BY <1>5, Zenon DEF UnlockPush
  <2>3. pc[x] \in CriticalLabels /\ pc'[x] \notin CriticalLabels BY <2>1, CriticalSet, Zenon
  <2> QED BY <1>1, <2>1, <2>2, <2>3, LockReleased, Zenon
<1>6. CASE RenewInplace(x) \/ RenewedInplace(x)
  <2>1. Moves(x) /\ pc[x] \in {"renew", "dec"} /\ pc'[x] \in {"renew", "x_flags", "dec", "update"}
    BY <1>6, RequestEdges, Zenon DEF Works
  <2>2. task_mutex' = task_mutex BY <1>6, Zenon DEF RenewInplace, RenewedInplace
  <2>3. pc'[x] \in CriticalLabels <=> pc[x] \in CriticalLabels BY <2>1, CriticalSet, Zenon
  <2> QED BY <1>1, <2>1, <2>2, <2>3, LockKept, Zenon
<1>7. CASE WaitStep(x)
  <2>1. /\ Moves(x) /\ pc[x] \in {"w_attach", "w_spin", "w_state", "w_pointer", "w_sem", "w_end"}
        /\ pc'[x] \in {"w_spin", "w_state", "w_pointer", "w_sem", "w_end", "idle"}
    BY <1>7, WaitEdges, Zenon DEF WaitStep, Works
  <2>2. task_mutex' = task_mutex
    BY <1>7, Zenon DEF WaitStep, WaitAttach, WaitSpin, WaitReadState, WaitReadSem, WaitSem, WaitEnd
  <2>3. pc'[x] \in CriticalLabels <=> pc[x] \in CriticalLabels BY <2>1, CriticalSet, Zenon
  <2> QED BY <1>1, <2>1, <2>2, <2>3, LockKept, Zenon
<1>8. CASE SharedStep(x) /\ ~Unlock(x)
  <2>1. /\ Moves(x)
        /\ pc[x] \in {"update", "u_set", "u_commit", "u_check", "x_flags", "c_start", "c_sem", "c_done",
                      "c_post"}
        /\ pc'[x] \in {"u_set", "u_commit", "u_check", "unlock", "c_start", "c_sem", "c_done", "c_post", "dec"}
    BY <1>1, <1>8, SharedEdges, Zenon DEF SharedStep, Works
  <2>2. task_mutex' = task_mutex
    BY <1>8, Zenon DEF SharedStep, UpdateWakeup, UpdateSet, UpdateCheck, TrySet, Commit, CancelFlags,
       CompleteStart, CompleteTakeSem, CompleteDone, CompletePost
  <2>3. pc'[x] \in CriticalLabels <=> pc[x] \in CriticalLabels BY <2>1, CriticalSet, Zenon
  <2> QED BY <1>1, <2>1, <2>2, <2>3, LockKept, Zenon
<1>9. CASE Unlock(x)
  <2>1. Moves(x) /\ pc[x] = "unlock" /\ pc'[x] = "unguard"
    BY <1>1, <1>9, SharedEdges, Zenon
  <2>2. task_mutex' = NoThread BY <1>9, Zenon DEF Unlock
  <2>3. pc[x] \in CriticalLabels /\ pc'[x] \notin CriticalLabels BY <2>1, CriticalSet, Zenon
  <2> QED BY <1>1, <2>1, <2>2, <2>3, LockReleased, Zenon
<1> QED BY <1>2, <1>3, <1>4, <1>5, <1>6, <1>7, <1>8, <1>9, Zenon DEF UserStep, RenewStep

\* So does the event loop thread.
LEMMA LoopLocks ==
  ASSUME TypeOK, LockInv, LoopStep
  PROVE  LockInv'
<1>1. Loop \in Threads BY Zenon DEF Threads
<1>2. CASE LoopWake
  <2>1. Moves(Loop) /\ pc[Loop] = "wait" /\ pc'[Loop] = "lock" BY <1>2, LoopEdges, Zenon DEF Works
  <2>2. task_mutex' = task_mutex BY <1>2, Zenon DEF LoopWake
  <2>3. pc'[Loop] \in CriticalLabels <=> pc[Loop] \in CriticalLabels BY <2>1, CriticalSet, Zenon
  <2> QED BY <1>1, <2>1, <2>2, <2>3, LockKept, Zenon
<1>3. CASE LoopLock
  <2>1. Moves(Loop) /\ pc'[Loop] \in {"pop", "sleep"} BY <1>3, LoopEdges, Zenon DEF Works
  <2>2. task_mutex = NoThread /\ task_mutex' = Loop BY <1>3, Zenon DEF LoopLock
  <2>3. pc'[Loop] \in CriticalLabels BY <2>1, CriticalSet, Zenon
  <2> QED BY <1>1, <2>1, <2>2, <2>3, LockTaken, Zenon
<1>4. CASE Unlock(Loop)
  <2>1. Moves(Loop) /\ pc[Loop] = "unlock" /\ pc'[Loop] \in {"stopped", "wait"}
    BY <1>1, <1>4, SharedEdges, Zenon
  <2>2. task_mutex' = NoThread BY <1>4, Zenon DEF Unlock
  <2>3. pc[Loop] \in CriticalLabels /\ pc'[Loop] \notin CriticalLabels BY <2>1, CriticalSet, Zenon
  <2> QED BY <1>1, <2>1, <2>2, <2>3, LockReleased, Zenon
<1>5. CASE SharedStep(Loop) /\ ~Unlock(Loop)
  <2>1. /\ Moves(Loop)
        /\ pc[Loop] \in {"update", "u_set", "u_commit", "u_check", "x_flags", "c_start", "c_sem", "c_done",
                         "c_post"}
        /\ pc'[Loop] \in {"u_set", "u_commit", "u_check", "unlock", "c_start", "c_sem", "c_done", "c_post",
                          "pop", "sleep", "reborn"}
    BY <1>1, <1>5, SharedEdges, Zenon DEF SharedStep, Works
  <2>2. task_mutex' = task_mutex
    BY <1>5, Zenon DEF SharedStep, UpdateWakeup, UpdateSet, UpdateCheck, TrySet, Commit, CancelFlags,
       CompleteStart, CompleteTakeSem, CompleteDone, CompletePost
  <2>3. pc'[Loop] \in CriticalLabels <=> pc[Loop] \in CriticalLabels BY <2>1, CriticalSet, Zenon
  <2> QED BY <1>1, <2>1, <2>2, <2>3, LockKept, Zenon
<1>6. CASE \/ FetchPop \/ FetchLoad \/ FetchNewState \/ FetchAgain \/ FetchPanic \/ FetchReady
           \/ FetchSleeping \/ ExecuteBegin \/ ExecuteFinish \/ CheckRenewed \/ ExecuteOperation
           \/ ExecutePause \/ PauseTask \/ PauseCheck \/ ExecuteContinue \/ RebornTask
  <2>1. /\ Moves(Loop)
        /\ pc[Loop] \in {"pop", "sleep", "load", "newstate", "recheck", "exec", "run", "renewed", "pause",
                         "p_sleep", "p_check", "reborn"}
        /\ pc'[Loop] \in {"pop", "sleep", "update", "load", "newstate", "recheck", "x_flags", "exec", "run",
                          "renewed", "c_start", "pause", "p_sleep", "p_check", "reborn"}
    BY <1>6, LoopEdges, Zenon DEF Works
  <2>2. task_mutex' = task_mutex
    BY <1>6, Zenon DEF FetchPop, FetchLoad, FetchNewState, FetchAgain, FetchPanic, FetchReady,
       FetchSleeping, ExecuteBegin, ExecuteFinish, CheckRenewed, ExecuteOperation, ExecutePause,
       PauseTask, PauseCheck, ExecuteContinue, RebornTask
  <2>3. pc'[Loop] \in CriticalLabels <=> pc[Loop] \in CriticalLabels BY <2>1, CriticalSet, Zenon
  <2> QED BY <1>1, <2>1, <2>2, <2>3, LockKept, Zenon
<1> QED BY <1>2, <1>3, <1>4, <1>5, <1>6, Zenon DEF LoopStep

-----------------------------------------------------------------------------
(***************************************************************************)
(* The ready queue.                                                        *)
(***************************************************************************)
\* A step of x that keeps the tasks x holds, the queue and which tasks are ready.
LEMMA ReadyKept ==
  ASSUME ReadyInv, NEW x \in Threads, Moves(x), ready_queue' = ready_queue,
         \A t \in Tasks : state'[t] = "Ready" <=> state[t] = "Ready",
         pc'[x] \in HoldLabels <=> pc[x] \in HoldLabels,
         pc[x] \in HoldLabels => loc'[x].task = loc[x].task
  PROVE  ReadyInv'
<1>1. \A y \in Threads : \A t : Holds(y, t)' <=> Holds(y, t) BY Zenon DEF Moves, Holds, Task
<1> QED BY <1>1 DEF ReadyInv

\* A task that was not ready becomes ready, and the thread that has made it so holds it.
LEMMA ReadyHeld ==
  ASSUME ReadyInv, NEW x \in Threads, Moves(x), ready_queue' = ready_queue, NEW t \in Tasks,
         state \in [Tasks -> States], state[t] # "Ready", state' = [state EXCEPT ![t] = "Ready"],
         pc[x] \notin HoldLabels, pc'[x] \in HoldLabels, loc'[x].task = t
  PROVE  ReadyInv'
<1>1. \A y \in Threads \ {x} : \A u : Holds(y, u)' <=> Holds(y, u) BY Zenon DEF Moves, Holds, Task
<1>2. \A u : (Holds(x, u)' <=> u = t) /\ ~Holds(x, u) BY Zenon DEF Holds, Task
<1>3. (\A y \in Threads : ~Holds(y, t)) /\ (\A i \in DOMAIN ready_queue : ready_queue[i] # t)
  BY Zenon DEF ReadyInv
<1>4. /\ \A u \in Tasks, y, z \in Threads : Holds(y, u)' /\ Holds(z, u)' => y = z
      /\ \A y \in Threads, i \in DOMAIN ready_queue : ~Holds(y, ready_queue[i])'
  BY <1>1, <1>2, <1>3, SMT, Z3 DEF ReadyInv
<1>5. ASSUME NEW u \in Tasks
      PROVE  state'[u] = "Ready" <=>
               (\E i \in DOMAIN ready_queue : ready_queue[i] = u) \/ (\E y \in Threads : Holds(y, u)')
  <2>1. CASE u = t BY <1>2, <2>1, Zenon
  <2>2. CASE u # t
    <3>1. state'[u] = state[u] BY <2>2, Zenon
    <3>2. (\E y \in Threads : Holds(y, u)') <=> (\E y \in Threads : Holds(y, u)) BY <1>1, <1>2, <2>2, Zenon
    <3> QED BY <3>1, <3>2, Zenon DEF ReadyInv
  <2> QED BY <2>1, <2>2, Zenon
<1> QED BY <1>4, <1>5, Zenon DEF ReadyInv

\* The holder of a task appends it to the queue.
LEMMA ReadyQueued ==
  ASSUME ReadyInv, NEW x \in Threads, Moves(x), NEW t \in Tasks, ready_queue \in Seq(Tasks),
         ready_queue' = Append(ready_queue, t), state' = state, Holds(x, t), pc'[x] \notin HoldLabels
  PROVE  ReadyInv'
<1>1. \A y \in Threads \ {x} : \A u : Holds(y, u)' <=> Holds(y, u) BY Zenon DEF Moves, Holds, Task
<1>2. (\A u : ~Holds(x, u)') /\ (\A u : Holds(x, u) => u = t) BY Zenon DEF Holds, Task
<1>3. (\A y \in Threads \ {x} : ~Holds(y, t)) /\ (\A i \in DOMAIN ready_queue : ready_queue[i] # t)
  BY SMT, Z3 DEF ReadyInv
<1>4. /\ DOMAIN ready_queue = 1..Len(ready_queue) /\ DOMAIN ready_queue' = 1..(Len(ready_queue) + 1)
      /\ Len(ready_queue) \in Nat
      /\ ready_queue'[Len(ready_queue) + 1] = t
      /\ \A i \in 1..Len(ready_queue) : ready_queue'[i] = ready_queue[i]
  BY SMT, Z3
<1>5. \A i, j \in DOMAIN ready_queue' : ready_queue'[i] = ready_queue'[j] => i = j
  BY <1>3, <1>4, SMT, Z3 DEF ReadyInv
<1>6. \A u : (\E i \in DOMAIN ready_queue' : ready_queue'[i] = u)
               <=> (\E i \in DOMAIN ready_queue : ready_queue[i] = u) \/ u = t
  BY <1>4, SMT, Z3
<1>7. \A y \in Threads, i \in DOMAIN ready_queue' : \A u : u = ready_queue'[i] => ~Holds(y, u)'
  BY <1>1, <1>2, <1>3, <1>4, SMT, Z3 DEF ReadyInv
<1>8. \A u \in Tasks, y, z \in Threads : Holds(y, u)' /\ Holds(z, u)' => y = z
  BY <1>1, <1>2 DEF ReadyInv
<1>9. ASSUME NEW u \in Tasks
      PROVE  state'[u] = "Ready" <=>
               (\E i \in DOMAIN ready_queue' : ready_queue'[i] = u) \/ (\E y \in Threads : Holds(y, u)')
  <2>1. (\E y \in Threads : Holds(y, u)) <=> u = t \/ (\E y \in Threads : Holds(y, u)')
    BY <1>1, <1>2, <1>3, Zenon
  <2> QED BY <1>6, <2>1, Zenon DEF ReadyInv
<1> QED BY <1>5, <1>7, <1>8, <1>9, Zenon DEF ReadyInv

\* The first task of the queue is taken by a thread.
LEMMA ReadyTaken ==
  ASSUME ReadyInv, NEW x \in Threads, Moves(x), ready_queue \in Seq(Tasks), ready_queue # <<>>,
         ready_queue' = Tail(ready_queue), state' = state, pc[x] \notin HoldLabels,
         pc'[x] \in HoldLabels, loc'[x].task = Head(ready_queue)
  PROVE  ReadyInv'
<1> DEFINE t == Head(ready_queue)
<1>0. t \in Tasks BY SMT, Z3
<1>1. \A y \in Threads \ {x} : \A u : Holds(y, u)' <=> Holds(y, u) BY Zenon DEF Moves, Holds, Task
<1>2. \A u : (Holds(x, u)' <=> u = t) /\ ~Holds(x, u) BY Zenon DEF Holds, Task
<1>4. /\ DOMAIN ready_queue = 1..Len(ready_queue) /\ DOMAIN ready_queue' = 1..(Len(ready_queue) - 1)
      /\ Len(ready_queue) \in Nat \ {0}
      /\ ready_queue[1] = t
      /\ \A i \in 1..(Len(ready_queue) - 1) : ready_queue'[i] = ready_queue[i + 1]
  BY SMT, Z3
<1> HIDE DEF t
<1>3. \A y \in Threads : ~Holds(y, t) BY <1>4, SMT, Z3 DEF ReadyInv
<1>5. \A i, j \in DOMAIN ready_queue' : ready_queue'[i] = ready_queue'[j] => i = j
  <2>1. ASSUME NEW i \in DOMAIN ready_queue', NEW j \in DOMAIN ready_queue', ready_queue'[i] = ready_queue'[j]
        PROVE  i = j
    <3>1. i + 1 \in DOMAIN ready_queue /\ j + 1 \in DOMAIN ready_queue /\ i \in Int /\ j \in Int BY <1>4, SMT, Z3
    <3>2. ready_queue[i + 1] = ready_queue[j + 1] BY <1>4, <2>1, Zenon
    <3>3. i + 1 = j + 1 BY <3>1, <3>2, Zenon DEF ReadyInv
    <3> QED BY <3>1, <3>3, SMT, Z3
  <2> QED BY <2>1, Zenon
<1>6. ASSUME NEW i \in DOMAIN ready_queue'
      PROVE  ready_queue'[i] # t /\ \E j \in DOMAIN ready_queue : ready_queue'[i] = ready_queue[j]
  <2>1. i + 1 \in DOMAIN ready_queue /\ 1 \in DOMAIN ready_queue /\ i + 1 # 1 BY <1>4, SMT, Z3
  <2>2. ready_queue'[i] = ready_queue[i + 1] BY <1>4, Zenon
  <2>3. ready_queue[i + 1] # ready_queue[1] BY <2>1, Zenon DEF ReadyInv
  <2> QED BY <1>4, <2>1, <2>2, <2>3, Zenon
<1>7. ASSUME NEW j \in DOMAIN ready_queue, ready_queue[j] # t
      PROVE  \E i \in DOMAIN ready_queue' : ready_queue'[i] = ready_queue[j]
  <2>1. j - 1 \in DOMAIN ready_queue' /\ ready_queue'[j - 1] = ready_queue[j] BY <1>4, <1>7, SMT, Z3
  <2> QED BY <2>1, Zenon
<1>8. \A y \in Threads, i \in DOMAIN ready_queue' : \A u : u = ready_queue'[i] => ~Holds(y, u)'
  BY <1>1, <1>2, <1>6, SMT, Z3 DEF ReadyInv
<1>9. \A u \in Tasks, y, z \in Threads : Holds(y, u)' /\ Holds(z, u)' => y = z
  BY <1>1, <1>2, <1>3, SMT, Z3 DEF ReadyInv
<1>10. ASSUME NEW u \in Tasks
       PROVE  state'[u] = "Ready" <=>
                (\E i \in DOMAIN ready_queue' : ready_queue'[i] = u) \/ (\E y \in Threads : Holds(y, u)')
  <2>1. CASE u = t
    <3>1. 1 \in DOMAIN ready_queue BY <1>4, SMT, Z3
    <3>2. state[u] = "Ready" BY <1>0, <1>4, <2>1, <3>1, Zenon DEF ReadyInv
    <3> QED BY <1>2, <2>1, <3>2, Zenon
  <2>2. CASE u # t
    <3>1. (\E i \in DOMAIN ready_queue' : ready_queue'[i] = u) <=> (\E i \in DOMAIN ready_queue : ready_queue[i] = u)
      BY <1>6, <1>7, <2>2, SMT, Z3
    <3>2. (\E y \in Threads : Holds(y, u)') <=> (\E y \in Threads : Holds(y, u)) BY <1>1, <1>2, <2>2, Zenon
    <3> QED BY <3>1, <3>2, Zenon DEF ReadyInv
  <2> QED BY <2>1, <2>2, Zenon
<1> QED BY <1>5, <1>8, <1>9, <1>10, Zenon DEF ReadyInv

\* The holder of a task moves it to another state.
LEMMA ReadyLeft ==
  ASSUME ReadyInv, NEW x \in Threads, Moves(x), NEW t \in Tasks, ready_queue' = ready_queue,
         state \in [Tasks -> States], NEW s, s # "Ready", state' = [state EXCEPT ![t] = s],
         Holds(x, t), pc'[x] \notin HoldLabels
  PROVE  ReadyInv'
<1>1. \A y \in Threads \ {x} : \A u : Holds(y, u)' <=> Holds(y, u) BY Zenon DEF Moves, Holds, Task
<1>2. (\A u : ~Holds(x, u)') /\ (\A u : Holds(x, u) => u = t) BY Zenon DEF Holds, Task
<1>3. (\A y \in Threads \ {x} : ~Holds(y, t)) /\ (\A i \in DOMAIN ready_queue : ready_queue[i] # t)
  BY SMT, Z3 DEF ReadyInv
<1>4. /\ \A u \in Tasks, y, z \in Threads : Holds(y, u)' /\ Holds(z, u)' => y = z
      /\ \A y \in Threads, i \in DOMAIN ready_queue : ~Holds(y, ready_queue[i])'
  BY <1>1, <1>2, SMT, Z3 DEF ReadyInv
<1>5. ASSUME NEW u \in Tasks
      PROVE  state'[u] = "Ready" <=>
               (\E i \in DOMAIN ready_queue : ready_queue[i] = u) \/ (\E y \in Threads : Holds(y, u)')
  <2>1. CASE u = t BY <1>1, <1>2, <1>3, <2>1, Zenon
  <2>2. CASE u # t
    <3>1. state'[u] = state[u] BY <2>2, Zenon
    <3>2. (\E y \in Threads : Holds(y, u)') <=> (\E y \in Threads : Holds(y, u)) BY <1>1, <1>2, <2>2, Zenon
    <3> QED BY <3>1, <3>2, Zenon DEF ReadyInv
  <2> QED BY <2>1, <2>2, Zenon
<1> QED BY <1>4, <1>5, Zenon DEF ReadyInv

\* A task that was not ready becomes ready and is appended to the queue.
LEMMA ReadyAgain ==
  ASSUME ReadyInv, NEW x \in Threads, Moves(x), NEW t \in Tasks, ready_queue \in Seq(Tasks),
         ready_queue' = Append(ready_queue, t),
         state \in [Tasks -> States], state[t] # "Ready", state' = [state EXCEPT ![t] = "Ready"],
         pc[x] \notin HoldLabels, pc'[x] \notin HoldLabels
  PROVE  ReadyInv'
<1>1. \A y \in Threads : \A u : Holds(y, u)' <=> Holds(y, u) BY Zenon DEF Moves, Holds, Task
<1>3. (\A y \in Threads : ~Holds(y, t)) /\ (\A i \in DOMAIN ready_queue : ready_queue[i] # t)
  BY Zenon DEF ReadyInv
<1>4. /\ DOMAIN ready_queue = 1..Len(ready_queue) /\ DOMAIN ready_queue' = 1..(Len(ready_queue) + 1)
      /\ Len(ready_queue) \in Nat
      /\ ready_queue'[Len(ready_queue) + 1] = t
      /\ \A i \in 1..Len(ready_queue) : ready_queue'[i] = ready_queue[i]
  BY SMT, Z3
<1>5. \A i, j \in DOMAIN ready_queue' : ready_queue'[i] = ready_queue'[j] => i = j
  BY <1>3, <1>4, SMT, Z3 DEF ReadyInv
<1>6. \A u : (\E i \in DOMAIN ready_queue' : ready_queue'[i] = u)
               <=> (\E i \in DOMAIN ready_queue : ready_queue[i] = u) \/ u = t
  BY <1>4, SMT, Z3
<1>7. \A y \in Threads, i \in DOMAIN ready_queue' : \A u : u = ready_queue'[i] => ~Holds(y, u)'
  BY <1>1, <1>3, <1>4, SMT, Z3 DEF ReadyInv
<1>8. \A u \in Tasks, y, z \in Threads : Holds(y, u)' /\ Holds(z, u)' => y = z
  BY <1>1, Zenon DEF ReadyInv
<1>9. ASSUME NEW u \in Tasks
      PROVE  state'[u] = "Ready" <=>
               (\E i \in DOMAIN ready_queue' : ready_queue'[i] = u) \/ (\E y \in Threads : Holds(y, u)')
  <2>1. CASE u = t BY <1>6, <2>1, Zenon
  <2>2. CASE u # t
    <3>1. state'[u] = state[u] BY <2>2, Zenon
    <3> QED BY <1>1, <1>6, <2>2, <3>1, Zenon DEF ReadyInv
  <2> QED BY <2>1, <2>2, Zenon
<1> QED BY <1>5, <1>7, <1>8, <1>9, Zenon DEF ReadyInv

\* A step of x that has nothing to do with ready tasks.
LEMMA ReadyAside ==
  ASSUME ReadyInv, NEW x \in Threads, Moves(x), ready_queue' = ready_queue, state' = state,
         pc[x] \notin HoldLabels, pc'[x] \notin HoldLabels
  PROVE  ReadyInv'
BY ReadyKept, Zenon

\* A step of x that moves a task from a state that is not StateReady to another.
LEMMA ReadyMoved ==
  ASSUME TypeOK, ReadyInv, NEW x \in Threads, Moves(x), ready_queue' = ready_queue,
         NEW t \in Tasks, NEW s, s # "Ready", state[t] # "Ready", state' = [state EXCEPT ![t] = s],
         pc[x] \notin HoldLabels, pc'[x] \notin HoldLabels
  PROVE  ReadyInv'
<1>1. state \in [Tasks -> States] BY Zenon DEF TypeOK, DataOK
<1>2. \A u \in Tasks : state'[u] = "Ready" <=> state[u] = "Ready" BY <1>1, Zenon
<1> QED BY <1>2, ReadyKept, Zenon

\* The calls of the users, wait() and the steps of a request.
LEMMA UserReady ==
  ASSUME TypeOK, ReadyInv, NEW x \in Users,
         \/ RenewStep(x) \/ WaitStep(x) \/ Stop(x)
         \/ \E t \in Tasks : Schedule(x, t) \/ AsyncCancel(x, t) \/ Resume(x, t) \/ Wait(x, t)
  PROVE  ReadyInv'
<1> USE DEF atomics, ready
<1>1. /\ x \in Threads /\ x # Loop /\ ControlOK /\ state \in [Tasks -> States] /\ ready_queue \in Seq(Tasks)
  BY ThreadsAssumption, Zenon DEF Threads, TypeOK, DataOK
<1>2. ASSUME NEW t \in Tasks, Schedule(x, t) \/ AsyncCancel(x, t) \/ Resume(x, t) \/ Wait(x, t)
      PROVE  ReadyInv'
  <2>1. UNCHANGED <<ready_queue, state>> BY <1>2, Zenon DEF Schedule, AsyncCancel, Renew, Resume, Wait
  <2>2. /\ pc[x] = "idle"
        /\ UNCHANGED <<pc, loc>> \/ (Moves(x) /\ pc'[x] \in {"store", "exchange", "w_attach"})
    BY <1>2, CallEdges, Zenon
  <2>3. CASE UNCHANGED <<pc, loc>> BY <2>1, <2>3, Zenon DEF ReadyInv, Holds, Task
  <2>4. CASE Moves(x) /\ pc'[x] \in {"store", "exchange", "w_attach"}
    <3>1. pc'[x] \notin HoldLabels /\ pc[x] \notin HoldLabels BY <2>2, <2>4, Zenon DEF HoldLabels
    <3> QED BY <1>1, <2>1, <2>4, <3>1, ReadyAside, Zenon
  <2> QED BY <2>2, <2>3, <2>4, Zenon
<1>3. CASE RenewStore(x) \/ RenewPaused(x) \/ Link(x) \/ RequestSet(x) \/ RenewedInplace(x) \/ Return(x)
           \/ Stop(x) \/ WaitStep(x)
  <2>1. UNCHANGED <<ready_queue, state>>
    BY <1>3, Zenon DEF RenewStore, RenewPaused, Link, RequestSet, TrySet, Commit, RenewedInplace, Return,
       Stop, WaitStep, WaitAttach, WaitSpin, WaitReadState, WaitReadSem, WaitSem, WaitEnd
  <2>2. /\ Moves(x)
        /\ pc[x] \in {"idle", "store", "paused", "link", "set", "commit", "unguard", "return", "dec",
                      "w_attach", "w_spin", "w_state", "w_pointer", "w_sem", "w_end"}
        /\ pc'[x] \in {"idle", "cancel", "paused", "exchange", "set", "commit", "unguard", "return", "join",
                       "update", "w_spin", "w_state", "w_pointer", "w_sem", "w_end"}
    BY <1>3, RequestEdges, CallEdges, WaitEdges, Zenon DEF Works, WaitStep
  <2>3. pc'[x] \notin HoldLabels /\ pc[x] \notin HoldLabels BY <2>2, Zenon DEF HoldLabels
  <2> QED BY <1>1, <2>1, <2>2, <2>3, ReadyAside, Zenon
<1>4. ASSUME ~RequestSet(x), RenewStep(x) PROVE Task(x) \in Tasks /\ loc[x].ret \in {"unguard", "return"}
  <2>1. pc[x] \notin {"idle", "set", "commit", "join"}
    BY <1>4, Zenon DEF RenewStep, RenewStore, RenewCancel, RenewPaused, ExchangeReady, CommitSize, Push, Link,
       Return, TryLock, UnlockPush, RenewInplace, RenewedInplace, At
  <2> QED BY <1>1, <2>1, UserTask, Zenon
<1>5. CASE RenewCancel(x) /\ ~RequestSet(x)
  <2>1. /\ Moves(x) /\ loc'[x].task = Task(x) /\ pc[x] = "cancel"
        /\ pc'[x] = IF state[Task(x)] = "Sleeping" THEN "size" ELSE "unguard"
    BY <1>5, RequestEdges, Zenon DEF Works, Task
  <2>2. Task(x) \in Tasks /\ ready_queue' = ready_queue BY <1>4, <1>5, Zenon DEF RenewStep, RenewCancel
  <2>3. CASE state[Task(x)] = "Sleeping"
    <3>1. state' = [state EXCEPT ![Task(x)] = "Ready"] BY <1>5, <2>3, Zenon DEF RenewCancel
    <3>2. pc[x] \notin HoldLabels /\ pc'[x] \in HoldLabels /\ state[Task(x)] # "Ready"
      BY <2>1, <2>3, Zenon DEF HoldLabels
    <3> QED BY <1>1, <2>1, <2>2, <3>1, <3>2, ReadyHeld, Zenon
  <2>4. CASE state[Task(x)] # "Sleeping"
    <3>1. state' = state BY <1>5, <2>4, Zenon DEF RenewCancel
    <3>2. pc[x] \notin HoldLabels /\ pc'[x] \notin HoldLabels BY <2>1, <2>4, Zenon DEF HoldLabels
    <3> QED BY <1>1, <2>1, <2>2, <3>1, <3>2, ReadyAside, Zenon
  <2> QED BY <2>3, <2>4, Zenon
<1>6. CASE ExchangeReady(x) /\ ~RequestSet(x)
  <2>1. /\ Moves(x) /\ loc'[x].task = Task(x) /\ pc[x] = "exchange"
        /\ pc'[x] = IF state[Task(x)] = "Ready" THEN loc[x].ret ELSE "size"
    BY <1>6, RequestEdges, Zenon DEF Works, Task
  <2>2. /\ Task(x) \in Tasks /\ loc[x].ret \in {"unguard", "return"} /\ ready_queue' = ready_queue
        /\ state' = [state EXCEPT ![Task(x)] = "Ready"]
    BY <1>4, <1>6, Zenon DEF RenewStep, ExchangeReady
  <2>3. CASE state[Task(x)] # "Ready"
    <3>1. pc[x] \notin HoldLabels /\ pc'[x] \in HoldLabels BY <2>1, <2>3, Zenon DEF HoldLabels
    <3> QED BY <1>1, <2>1, <2>2, <2>3, <3>1, ReadyHeld, Zenon
  <2>4. CASE state[Task(x)] = "Ready"
    <3>1. state' = state BY <1>1, <2>2, <2>4, Zenon
    <3>2. pc[x] \notin HoldLabels /\ pc'[x] \notin HoldLabels BY <2>1, <2>2, <2>4, Zenon DEF HoldLabels
    <3> QED BY <1>1, <2>1, <2>2, <3>1, <3>2, ReadyAside, Zenon
  <2> QED BY <2>3, <2>4, Zenon
<1>7. CASE CommitSize(x) \/ TryLock(x) \/ UnlockPush(x)
  <2>1. /\ Moves(x) /\ loc'[x].task = loc[x].task /\ pc[x] \in {"size", "trylock", "unlock_push"}
        /\ pc'[x] \in {"trylock", "push", "renew", "unlock_push"}
    BY <1>7, RequestEdges, TryLockMoves, Zenon DEF Works
  <2>2. UNCHANGED <<ready_queue, state>> BY <1>7, Zenon DEF CommitSize, TryLock, UnlockPush
  <2>3. pc[x] \in HoldLabels /\ pc'[x] \in HoldLabels BY <2>1, Zenon DEF HoldLabels
  <2> QED BY <1>1, <2>1, <2>2, <2>3, ReadyKept, Zenon
<1>8. CASE Push(x) /\ ~RequestSet(x)
  <2>1. Moves(x) /\ pc[x] = "push" /\ pc'[x] = "link" BY <1>8, RequestEdges, Zenon DEF Works
  <2>2. Task(x) \in Tasks /\ ready_queue' = Append(ready_queue, Task(x)) /\ state' = state
    BY <1>4, <1>8, Zenon DEF RenewStep, Push
  <2>3. Holds(x, Task(x)) /\ pc'[x] \notin HoldLabels BY <2>1, Zenon DEF Holds, HoldLabels
  <2> QED BY <1>1, <2>1, <2>2, <2>3, ReadyQueued, Zenon
<1>9. CASE RenewInplace(x) /\ ~RequestSet(x)
  <2>1. Works(x) /\ pc[x] = "renew" /\ pc'[x] \in {"renew", "x_flags", "dec"}
    BY <1>9, RequestEdges, Zenon
  <2>2. Task(x) \in Tasks /\ ready_queue' = ready_queue BY <1>4, <1>9, Zenon DEF RenewStep, RenewInplace
  <2>3. CASE pc' = pc /\ state' = state
    <3>1. Moves(x) /\ loc'[x].task = loc[x].task BY <2>1, Zenon DEF Works
    <3> QED BY <1>1, <2>2, <2>3, <3>1, ReadyKept, Zenon
  <2>4. CASE ~(pc' = pc /\ state' = state)
    <3> DEFINE s == NewState(loc[x].flags, loc[x].deadline)
    <3>1. /\ state' = [state EXCEPT ![Task(x)] = s]
          /\ Goto(x, IF loc[x].deadline < 0 THEN "x_flags" ELSE "dec")
      BY <1>9, <2>4, Zenon DEF RenewInplace, Panic
    <3>2. s # "Ready" BY Zenon DEF NewState
    <3>3. pc'[x] \in {"x_flags", "dec"} BY <1>1, <3>1, Zenon DEF Goto, ControlOK
    <3> HIDE DEF s
    <3>4. Holds(x, Task(x)) /\ pc'[x] \notin HoldLabels /\ Moves(x)
      BY <2>1, <3>3, Zenon DEF Holds, HoldLabels, Works
    <3> QED BY <1>1, <2>2, <3>1, <3>2, <3>4, ReadyLeft, Zenon
  <2> QED BY <2>3, <2>4, Zenon
<1> QED BY <1>2, <1>3, <1>5, <1>6, <1>7, <1>8, <1>9 DEF RenewStep

\* The steps that users and the event loop thread share.
LEMMA SharedReady ==
  ASSUME TypeOK, ReadyInv, NEW x \in Threads, SharedStep(x)
  PROVE  ReadyInv'
<1> USE DEF atomics, ready
<1>1. ControlOK /\ LocalsOK(x) BY Zenon DEF TypeOK, ControlOK
<1>2. /\ Moves(x) /\ pc[x] \in UpdateLabels \cup CompleteLabels \cup {"x_flags"}
      /\ pc'[x] \in UpdateLabels \cup CompleteLabels
                    \cup {"unguard", "dec", "stopped", "wait", "pop", "sleep", "reborn"}
  <2>1. /\ Moves(x)
        /\ pc[x] \in {"update", "u_set", "u_commit", "u_check", "unlock", "x_flags", "c_start", "c_sem",
                      "c_done", "c_post"}
        /\ pc'[x] \in {"u_set", "u_commit", "u_check", "unlock", "c_start", "c_sem", "c_done", "c_post",
                       "unguard", "dec", "stopped", "wait", "pop", "sleep", "reborn"}
    BY SharedEdges, Zenon DEF SharedStep, Works
  <2> QED BY <2>1, Zenon DEF UpdateLabels, CompleteLabels
<1>3. pc[x] \notin HoldLabels /\ pc'[x] \notin HoldLabels
  BY <1>2, Zenon DEF HoldLabels, UpdateLabels, CompleteLabels
<1>4. ready_queue' = ready_queue
  BY Zenon DEF SharedStep, UpdateWakeup, UpdateSet, UpdateCheck, TrySet, Commit, Unlock, CancelFlags,
     CompleteStart, CompleteTakeSem, CompleteDone, CompletePost
<1>5. CASE state' = state BY <1>2, <1>3, <1>4, <1>5, ReadyAside, Zenon
<1>6. CASE CompleteStart(x) /\ state' # state
  <2>1. pc[x] = "c_start" /\ pc[x] \in {"x_flags"} \cup CompleteLabels BY <1>6, Zenon DEF CompleteStart, At, CompleteLabels
  <2>2. Task(x) \in Tasks BY <1>1, <2>1, CompletingTask, Zenon
  <2>3. loc[x].from \in {"Processing", "Cancelling"} BY <1>1, <2>1, Zenon DEF LocalsOK, LoopLocals, UserLocals
  <2>4. state[Task(x)] = loc[x].from /\ state' = [state EXCEPT ![Task(x)] = "Completing"]
    BY <1>6, Zenon DEF CompleteStart
  <2>5. state[Task(x)] # "Ready" /\ "Completing" # "Ready" BY <2>3, <2>4, Zenon
  <2> QED BY <1>2, <1>3, <1>4, <2>2, <2>4, <2>5, ReadyMoved, Zenon
<1>7. CASE CompleteDone(x) /\ state' # state
  <2>1. pc[x] \in {"x_flags"} \cup CompleteLabels BY <1>7, Zenon DEF CompleteDone, At, CompleteLabels
  <2>2. Task(x) \in Tasks BY <1>1, <2>1, CompletingTask, Zenon
  <2>3. state[Task(x)] = "Completing" /\ state' = [state EXCEPT ![Task(x)] = "Completed"]
    BY <1>7, Zenon DEF CompleteDone
  <2>4. state[Task(x)] # "Ready" /\ "Completed" # "Ready" BY <2>3, Zenon
  <2> QED BY <1>2, <1>3, <1>4, <2>2, <2>3, <2>4, ReadyMoved, Zenon
<1>8. state' = state \/ CompleteStart(x) \/ CompleteDone(x)
  BY Zenon DEF SharedStep, UpdateWakeup, UpdateSet, UpdateCheck, TrySet, Commit, Unlock, CancelFlags,
     CompleteTakeSem, CompletePost
<1> QED BY <1>5, <1>6, <1>7, <1>8, Zenon

\* The steps of the event loop thread.
LEMMA LoopReady ==
  ASSUME TypeOK, ReadyInv, LoopStep
  PROVE  ReadyInv'
<1> USE DEF atomics, ready
<1>1. /\ Loop \in Threads /\ ControlOK /\ LoopLocals /\ state \in [Tasks -> States]
      /\ ready_queue \in Seq(Tasks)
  BY Zenon DEF Threads, TypeOK, DataOK, ControlOK, LocalsOK
<1>2. CASE LoopWake \/ LoopLock \/ FetchPanic \/ FetchReady \/ ExecuteBegin \/ ExecuteFinish \/ CheckRenewed
           \/ ExecuteOperation \/ ExecutePause \/ PauseCheck \/ ExecuteContinue
  <2>1. UNCHANGED <<ready_queue, state>>
    BY <1>2, Zenon DEF LoopWake, LoopLock, FetchPanic, FetchReady, ExecuteBegin, ExecuteFinish,
       CheckRenewed, ExecuteOperation, ExecutePause, PauseCheck, ExecuteContinue
  <2>2. /\ Moves(Loop)
        /\ pc[Loop] \in {"wait", "lock", "recheck", "exec", "run", "renewed", "pause", "p_check"}
        /\ pc'[Loop] \in {"lock", "pop", "sleep", "recheck", "x_flags", "exec", "run", "renewed", "c_start",
                          "pause", "p_sleep", "reborn"}
    BY <1>2, LoopEdges, Zenon DEF Works
  <2>3. pc[Loop] \notin HoldLabels /\ pc'[Loop] \notin HoldLabels BY <2>2, Zenon DEF HoldLabels
  <2> QED BY <1>1, <2>1, <2>2, <2>3, ReadyAside, Zenon
<1>3. CASE FetchPop
  <2>1. state' = state /\ pc[Loop] = "pop" BY <1>3, Zenon DEF FetchPop, At
  <2>2. CASE Moves(Loop) /\ pc'[Loop] \in {"sleep", "update"} /\ ready_queue' = ready_queue
    <3>1. pc[Loop] \notin HoldLabels /\ pc'[Loop] \notin HoldLabels BY <2>1, <2>2, Zenon DEF HoldLabels
    <3> QED BY <1>1, <2>1, <2>2, <3>1, ReadyAside, Zenon
  <2>3. CASE /\ Moves(Loop) /\ pc'[Loop] = "load" /\ ready_queue # <<>> /\ ready_queue' = Tail(ready_queue)
             /\ loc'[Loop].task = Head(ready_queue)
    <3>1. pc[Loop] \notin HoldLabels /\ pc'[Loop] \in HoldLabels BY <2>1, <2>3, Zenon DEF HoldLabels
    <3> QED BY <1>1, <2>1, <2>3, <3>1, ReadyTaken, Zenon
  <2> QED BY <1>3, <2>2, <2>3, FetchMoves, Zenon
<1>4. CASE FetchLoad
  <2>1. state' = state /\ pc[Loop] = "load" BY <1>4, Zenon DEF FetchLoad, At
  <2>2. Task(Loop) \in Tasks BY <1>1, <2>1, LoopTask, Zenon
  <2>3. CASE Works(Loop) /\ pc'[Loop] = "pop" /\ ready_queue' = Append(ready_queue, Task(Loop))
    <3>1. Holds(Loop, Task(Loop)) /\ pc'[Loop] \notin HoldLabels /\ Moves(Loop)
      BY <2>1, <2>3, Zenon DEF HoldLabels, Holds, Works
    <3> QED BY <1>1, <2>1, <2>2, <2>3, <3>1, ReadyQueued, Zenon
  <2>4. CASE Moves(Loop) /\ pc'[Loop] = "newstate" /\ ready_queue' = ready_queue
             /\ loc'[Loop].task = loc[Loop].task
    <3>1. pc[Loop] \in HoldLabels /\ pc'[Loop] \in HoldLabels BY <2>1, <2>4, Zenon DEF HoldLabels
    <3> QED BY <1>1, <2>1, <2>4, <3>1, ReadyKept, Zenon
  <2> QED BY <1>4, <2>3, <2>4, FetchMoves, Zenon
<1>5. CASE FetchNewState
  <2>1. pc[Loop] = "newstate" /\ ready_queue' = ready_queue BY <1>5, Zenon DEF FetchNewState, At
  <2>2. Task(Loop) \in Tasks BY <1>1, <2>1, LoopTask, Zenon
  <2>3. CASE UNCHANGED <<pc, loc, state>> BY <2>1, <2>3, Zenon DEF ReadyInv, Holds, Task
  <2>4. CASE ~UNCHANGED <<pc, loc, state>>
    <3> DEFINE s == NewState(loc[Loop].flags, loc[Loop].deadline)
    <3>1. state' = [state EXCEPT ![Task(Loop)] = s] /\ Goto(Loop, "recheck")
      BY <1>5, <2>4, Zenon DEF FetchNewState, Panic
    <3>2. s # "Ready" BY Zenon DEF NewState
    <3>3. pc'[Loop] = "recheck" BY <1>1, <3>1, Zenon DEF Goto, ControlOK
    <3>4. Moves(Loop) BY <1>5, LoopEdges, Zenon
    <3> HIDE DEF s
    <3>5. Holds(Loop, Task(Loop)) /\ pc'[Loop] \notin HoldLabels BY <2>1, <3>3, Zenon DEF Holds, HoldLabels
    <3> QED BY <1>1, <2>1, <2>2, <3>1, <3>2, <3>4, <3>5, ReadyLeft, Zenon
  <2> QED BY <2>3, <2>4, Zenon
<1>6. CASE FetchAgain \/ RebornTask
  <2>1. /\ Moves(Loop) /\ pc[Loop] \in {"recheck", "reborn"} /\ pc'[Loop] \in {"pop", "sleep"}
    BY <1>6, LoopEdges, Zenon DEF Works
  <2>2. Task(Loop) \in Tasks BY <1>1, <2>1, LoopTask, Zenon
  <2>3. pc[Loop] \notin HoldLabels /\ pc'[Loop] \notin HoldLabels BY <2>1, Zenon DEF HoldLabels
  <2>4. loc[Loop].from # "Ready" BY <1>1, <2>1, Zenon DEF LoopLocals, NewState
  <2>5. CASE UNCHANGED <<state, ready_queue>> BY <1>1, <2>1, <2>3, <2>5, ReadyAside, Zenon
  <2>6. CASE /\ state[Task(Loop)] = loc[Loop].from /\ state' = [state EXCEPT ![Task(Loop)] = "Ready"]
             /\ ready_queue' = Append(ready_queue, Task(Loop))
    <3>1. state[Task(Loop)] # "Ready" BY <2>4, <2>6, Zenon
    <3> QED BY <1>1, <2>1, <2>2, <2>3, <2>6, <3>1, ReadyAgain, Zenon
  <2> QED BY <1>6, <2>5, <2>6, Zenon DEF FetchAgain, RebornTask
<1>7. CASE FetchSleeping
  <2>1. /\ Moves(Loop) /\ pc[Loop] = "sleep" /\ pc'[Loop] \in {"pop", "update", "exec"}
    BY <1>7, LoopEdges, Zenon
  <2>2. pc[Loop] \notin HoldLabels /\ pc'[Loop] \notin HoldLabels BY <2>1, Zenon DEF HoldLabels
  <2>3. ready_queue' = ready_queue BY <1>7, Zenon DEF FetchSleeping
  <2>4. CASE state' = state BY <1>1, <2>1, <2>2, <2>3, <2>4, ReadyAside, Zenon
  <2>5. CASE state' # state
    <3> DEFINE t == Head(sleeping_queue)
    <3>1. sleeping_queue # <<>> /\ state[t] = "Sleeping" /\ state' = [state EXCEPT ![t] = "Processing"]
      BY <1>7, <2>5, Zenon DEF FetchSleeping
    <3>2. t \in Tasks BY <3>1, SMT, Z3 DEF TypeOK, DataOK
    <3>3. state[t] # "Ready" /\ "Processing" # "Ready" BY <3>1, Zenon
    <3> HIDE DEF t
    <3> QED BY <1>1, <2>1, <2>2, <2>3, <3>1, <3>2, <3>3, ReadyMoved, Zenon
  <2> QED BY <2>4, <2>5, Zenon
<1>8. CASE PauseTask
  <2>1. /\ Moves(Loop) /\ pc[Loop] = "p_sleep" /\ pc'[Loop] \in {"p_sleep", "p_check"}
    BY <1>8, LoopEdges, Zenon DEF Works
  <2>2. pc[Loop] \notin HoldLabels /\ pc'[Loop] \notin HoldLabels BY <2>1, Zenon DEF HoldLabels
  <2>3. ready_queue' = ready_queue BY <1>8, Zenon DEF PauseTask
  <2>4. Task(Loop) \in Tasks BY <1>1, <2>1, LoopTask, Zenon
  <2>5. CASE state' = state BY <1>1, <2>1, <2>2, <2>3, <2>5, ReadyAside, Zenon
  <2>6. CASE state' # state
    <3>1. state[Task(Loop)] = "Processing" /\ state' = [state EXCEPT ![Task(Loop)] = "Sleeping"]
      BY <1>8, <2>6, Zenon DEF PauseTask
    <3>2. state[Task(Loop)] # "Ready" /\ "Sleeping" # "Ready" BY <3>1, Zenon
    <3> QED BY <1>1, <2>1, <2>2, <2>3, <2>4, <3>1, <3>2, ReadyMoved, Zenon
  <2> QED BY <2>5, <2>6
<1> QED BY <1>1, <1>2, <1>3, <1>4, <1>5, <1>6, <1>7, <1>8, SharedReady DEF LoopStep

-----------------------------------------------------------------------------
(***************************************************************************)
(* The waiters.                                                            *)
(***************************************************************************)
\* The semaphore of a waiter is attached to the task, taken, or posted.
Signalled(t) == sem[t] > 0
Taken(t) == \E y \in Threads : Task(y) = t /\ loc[y].sem
AttachedLabels == {"w_spin", "w_state", "w_pointer", "w_sem"}

\* A wait() has the task's guard.  A thread that completes the task after the
\* waiter has looked has taken the semaphore of the waiter, and one that blocks
\* is sure to be woken.
Waiter(x) ==
    /\ pc[x] \in WaitLabels => wait_guard[Task(x)]
    /\ pc[x] \in AttachedLabels =>
          Signalled(Task(x)) \/ sem_attached[Task(x)] \/ Taken(Task(x))
    /\ \A y \in Threads :
          /\ pc[x] \in AttachedLabels \ {"w_spin"} /\ pc[y] = "c_done" /\ Task(y) = Task(x)
          /\ state[Task(x)] = "Completing"
          => Signalled(Task(x)) \/ loc[y].sem
    /\ pc[x] = "w_sem" =>
          \/ Signalled(Task(x)) \/ Taken(Task(x))
          \/ sem_attached[Task(x)] /\ state[Task(x)] # "Completed"

\* A task has one waiter at a time, and its semaphore is taken only between
\* taking and posting it.
WaitInv ==
    /\ \A x \in Users : Waiter(x)
    /\ \A x, y \in Users :
          pc[x] \in WaitLabels /\ pc[y] \in WaitLabels /\ Task(x) = Task(y) => x = y
    /\ \A t \in Tasks : sem[t] >= 0
    /\ \A x \in Threads : loc[x].sem => pc[x] \in {"c_done", "c_post"}

\* The labels of wait().
LEMMA WaitSet ==
  /\ WaitLabels = {"w_attach", "w_spin", "w_state", "w_pointer", "w_sem", "w_end"}
  /\ AttachedLabels \subseteq WaitLabels /\ "w_sem" \in AttachedLabels
BY Zenon DEF WaitLabels, AttachedLabels

\* A waiter has a task.
LEMMA WaiterTask ==
  ASSUME TypeOK, NEW x \in Users, pc[x] \in WaitLabels
  PROVE  Task(x) \in Tasks
<1>1. pc[x] \notin {"idle", "set", "commit", "join"} BY WaitSet, Zenon
<1> QED BY <1>1, UserTask, Zenon DEF TypeOK

\* A step of a thread that has no semaphore in its hands takes or returns none.
LEMMA TakenKept ==
  ASSUME NEW x \in Threads, Moves(x), ~loc[x].sem, ~loc'[x].sem
  PROVE  \A t : Taken(t)' <=> Taken(t)
<1>1. \A y \in Threads : \A t : (Task(y) = t /\ loc[y].sem) <=> (loc'[y].task = t /\ loc'[y].sem)
  BY Zenon DEF Moves, Task
<1> QED BY <1>1, Zenon DEF Taken, Task

\* A waiter is not affected by the steps of others that leave its task alone.
LEMMA OtherWaiter ==
  ASSUME NEW x \in Threads, Moves(x), NEW z \in Users, z # x, Waiter(z), NEW t, t = Task(z),
         pc[z] \in WaitLabels =>
            /\ wait_guard[t] => wait_guard'[t]
            /\ Signalled(t)' <=> Signalled(t)
            /\ sem_attached'[t] <=> sem_attached[t]
            /\ Taken(t)' <=> Taken(t)
            /\ state'[t] = "Completing" => \/ state[t] = "Completing"
                                           \/ \A y \in Threads \ {x} : pc[y] # "c_done"
            /\ state'[t] = "Completed" => state[t] = "Completed"
            /\ pc'[x] = "c_done" => loc'[x].task # t
  PROVE  Waiter(z)'
<1>1. z \in Threads BY Zenon DEF Threads
<1>2. pc'[z] = pc[z] /\ Task(z)' = t BY <1>1, Zenon DEF Moves, Task
<1>3. CASE pc[z] \notin WaitLabels
  <2>1. pc'[z] \notin WaitLabels /\ pc'[z] \notin AttachedLabels /\ pc'[z] # "w_sem"
    BY <1>2, <1>3, WaitSet, Zenon
  <2> QED BY <2>1, Zenon DEF Waiter
<1>4. CASE pc[z] \in WaitLabels
  <2>1. pc'[z] \in WaitLabels => wait_guard'[t] BY <1>2, <1>4, Zenon DEF Waiter
  <2>2. pc'[z] \in AttachedLabels => Signalled(t)' \/ sem_attached'[t] \/ Taken(t)'
    BY <1>2, <1>4, Zenon DEF Waiter
  <2>3. ASSUME NEW y \in Threads, pc'[z] \in AttachedLabels \ {"w_spin"}, pc'[y] = "c_done",
               loc'[y].task = t, state'[t] = "Completing"
        PROVE  Signalled(t)' \/ loc'[y].sem
    <3>1. y # x BY <1>4, <2>3, Zenon
    <3>2. pc'[y] = pc[y] /\ loc'[y] = loc[y] BY <3>1, Zenon DEF Moves
    <3>3. pc[y] = "c_done" /\ Task(y) = t /\ state[t] = "Completing" BY <1>4, <2>3, <3>1, <3>2, Zenon DEF Task
    <3>4. Signalled(t) \/ loc[y].sem BY <1>2, <2>3, <3>3, Zenon DEF Waiter
    <3> QED BY <1>4, <3>2, <3>4, Zenon
  <2>4. pc'[z] = "w_sem" => Signalled(t)' \/ Taken(t)' \/ (sem_attached'[t] /\ state'[t] # "Completed")
    BY <1>2, <1>4, Zenon DEF Waiter
  <2>5. \A y \in Threads :
          /\ pc'[z] \in AttachedLabels \ {"w_spin"} /\ pc'[y] = "c_done" /\ Task(y)' = t
          /\ state'[t] = "Completing"
          => Signalled(t)' \/ loc'[y].sem
    BY <2>3, Zenon DEF Task
  <2> QED BY <1>2, <2>1, <2>2, <2>4, <2>5, Zenon DEF Waiter
<1> QED BY <1>3, <1>4, Zenon

\* A step outside of wait() that leaves the semaphores alone.
LEMMA WaitAside ==
  ASSUME TypeOK, LockInv, WaitInv, NEW x \in Threads, Moves(x), UNCHANGED waiting,
         x = Loop \/ (pc[x] \notin WaitLabels /\ pc'[x] \notin WaitLabels),
         pc[x] \notin {"c_done", "c_post"}, loc'[x].sem = loc[x].sem \/ ~loc'[x].sem, pc'[x] # "c_done",
         \A t \in Tasks :
            /\ state'[t] = "Completing" => state[t] = "Completing" \/ pc[x] \in CriticalLabels
            /\ state'[t] = "Completed" => state[t] = "Completed"
  PROVE  WaitInv'
<1>1. ~loc[x].sem /\ ~loc'[x].sem BY Zenon DEF WaitInv
<1>2. \A t : Taken(t)' <=> Taken(t) BY <1>1, TakenKept, Zenon
<1>3. /\ \A t : Signalled(t)' <=> Signalled(t)
      /\ \A t : (wait_guard[t] => wait_guard'[t]) /\ (sem_attached'[t] <=> sem_attached[t])
  BY Zenon DEF waiting, Signalled
<1>4. pc[x] \in CriticalLabels => \A y \in Threads \ {x} : pc[y] # "c_done"
  BY CriticalSet, OneInside, Zenon
<1>5. ASSUME NEW z \in Users PROVE Waiter(z)'
  <2>1. CASE z = x
    <3>1. x # Loop BY <2>1, ThreadsAssumption, Zenon
    <3>2. pc'[z] \notin WaitLabels /\ pc'[z] \notin AttachedLabels /\ pc'[z] # "w_sem"
      BY <2>1, <3>1, WaitSet, Zenon
    <3> QED BY <3>2, Zenon DEF Waiter
  <2>2. CASE z # x
    <3>1. Waiter(z) BY Zenon DEF WaitInv
    <3>2. pc[z] \in WaitLabels => Task(z) \in Tasks BY WaiterTask, Zenon
    <3>3. pc'[x] = "c_done" => loc'[x].task # Task(z) BY Zenon
    <3> QED BY <1>2, <1>3, <1>4, <2>2, <3>1, <3>2, <3>3, OtherWaiter, Zenon
  <2> QED BY <2>1, <2>2, Zenon
<1>6. \A y \in Users : pc'[y] \in WaitLabels => pc[y] \in WaitLabels /\ Task(y)' = Task(y)
  BY ThreadsAssumption, Zenon DEF Moves, Threads, Task
<1>7. \A t \in Tasks : sem'[t] >= 0 BY Zenon DEF WaitInv, waiting
<1>8. \A y \in Threads : loc'[y].sem => pc'[y] \in {"c_done", "c_post"} BY <1>1, Zenon DEF Moves, WaitInv
<1>9. ASSUME NEW y \in Users, NEW z \in Users, pc'[y] \in WaitLabels, pc'[z] \in WaitLabels,
             Task(y)' = Task(z)'
      PROVE  y = z
  <2>1. pc[y] \in WaitLabels /\ pc[z] \in WaitLabels /\ Task(y) = Task(z) BY <1>6, <1>9, Zenon
  <2> QED BY <2>1, Zenon DEF WaitInv
<1> QED BY <1>5, <1>7, <1>8, <1>9, Zenon DEF WaitInv

\* A step that moves no thread and leaves the semaphores and the states alone.
LEMMA WaitStutters ==
  ASSUME WaitInv, UNCHANGED <<pc, loc, state>>, UNCHANGED waiting
  PROVE  WaitInv'
<1>1. \A x : Task(x)' = Task(x) BY Zenon DEF Task
<1>2. \A t : (Taken(t)' <=> Taken(t)) /\ (Signalled(t)' <=> Signalled(t)) BY <1>1, Zenon DEF waiting, Taken, Signalled
<1>3. \A x \in Users : Waiter(x)' BY <1>1, <1>2, Zenon DEF WaitInv, Waiter, waiting
<1> QED BY <1>1, <1>3, Zenon DEF WaitInv, waiting

\* wait() begins, unless the task is completed.
LEMMA WaitCalled ==
  ASSUME TypeOK, WaitInv, NEW x \in Users, NEW t \in Tasks, Wait(x, t)
  PROVE  WaitInv'
<1>1. x \in Threads /\ ControlOK /\ wait_guard \in [Tasks -> BOOLEAN] BY Zenon DEF Threads, TypeOK, DataOK
<1>2. /\ pc[x] = "idle" /\ ~wait_guard[t] /\ UNCHANGED <<sem_attached, sem, state>>
  BY Zenon DEF Wait, At, atomics
<1>3. CASE UNCHANGED <<pc, loc>>
  <2>1. ~Goto(x, "w_attach") BY <1>1, <1>2, <1>3, Zenon DEF Goto, ControlOK
  <2>2. UNCHANGED waiting BY <1>2, <2>1, Zenon DEF Wait, waiting
  <2> QED BY <1>2, <1>3, <2>2, WaitStutters, Zenon
<1>4. CASE ~UNCHANGED <<pc, loc>>
  <2>1. Moves(x) /\ pc'[x] = "w_attach" /\ loc'[x].task = t /\ loc'[x].sem = FALSE
    BY <1>4, CallEdges, Zenon
  <2>2. wait_guard' = [wait_guard EXCEPT ![t] = TRUE] BY <1>4, Zenon DEF Wait
  <2>3. wait_guard'[t] /\ \A u \in Tasks : wait_guard[u] => wait_guard'[u] BY <1>1, <2>2, Zenon
  <2>4. ~loc[x].sem BY <1>1, <1>2, Zenon DEF WaitInv
  <2>5. \A u : Taken(u)' <=> Taken(u) BY <1>1, <2>1, <2>4, TakenKept, Zenon
  <2>6. \A u : Signalled(u)' <=> Signalled(u) BY <1>2, Zenon DEF Signalled
  <2>7. ASSUME NEW z \in Users PROVE Waiter(z)'
    <3>1. CASE z = x
      <4>1. Task(z)' = t /\ pc'[z] = "w_attach" BY <2>1, <3>1, Zenon DEF Task
      <4>2. pc'[z] \notin AttachedLabels /\ pc'[z] # "w_sem" BY <4>1, Zenon DEF AttachedLabels
      <4> QED BY <2>3, <4>1, <4>2, Zenon DEF Waiter
    <3>2. CASE z # x
      <4>1. Waiter(z) BY Zenon DEF WaitInv
      <4>2. pc[z] \in WaitLabels => Task(z) \in Tasks BY WaiterTask, Zenon
      <4>3. pc'[x] # "c_done" BY <2>1, Zenon
      <4> QED BY <1>1, <1>2, <2>1, <2>3, <2>5, <2>6, <3>2, <4>1, <4>2, <4>3, OtherWaiter, ZenonT(30)
    <3> QED BY <3>1, <3>2, Zenon
  <2>8. \A y \in Users \ {x} : pc'[y] = pc[y] /\ Task(y)' = Task(y) BY <2>1, Zenon DEF Moves, Threads, Task
  <2>9. \A y \in Users : pc[y] \in WaitLabels => Task(y) # t BY <1>2, Zenon DEF WaitInv, Waiter
  <2>10. Task(x)' = t BY <2>1, Zenon DEF Task
  <2>11. \A y, z \in Users : pc'[y] \in WaitLabels /\ pc'[z] \in WaitLabels /\ Task(y)' = Task(z)' => y = z
    <3> SUFFICES ASSUME NEW y \in Users, NEW z \in Users, pc'[y] \in WaitLabels, pc'[z] \in WaitLabels,
                        Task(y)' = Task(z)', y # z
                 PROVE  FALSE
      BY Zenon
    <3>1. CASE y = x BY <2>8, <2>9, <2>10, <3>1, Zenon
    <3>2. CASE z = x BY <2>8, <2>9, <2>10, <3>2, Zenon
    <3>3. CASE y # x /\ z # x BY <2>8, <3>3, Zenon DEF WaitInv
    <3> QED BY <3>1, <3>2, <3>3, Zenon
  <2>12. \A u \in Tasks : sem'[u] >= 0 BY <1>2, Zenon DEF WaitInv
  <2>13. \A z \in Threads : loc'[z].sem => pc'[z] \in {"c_done", "c_post"} BY <2>1, Zenon DEF Moves, WaitInv
  <2> QED BY <2>7, <2>11, <2>12, <2>13, Zenon DEF WaitInv
<1> QED BY <1>3, <1>4, Zenon

\* A waiter goes on: its own part of the invariant is to be shown.
LEMMA WaiterMoves ==
  ASSUME TypeOK, WaitInv, NEW x \in Users, Works(x), pc[x] \in WaitLabels, pc'[x] \in WaitLabels,
         state' = state, wait_guard' = wait_guard,
         \A t \in Tasks \ {Task(x)} : sem'[t] = sem[t] /\ sem_attached'[t] = sem_attached[t],
         sem'[Task(x)] >= 0, Waiter(x)'
  PROVE  WaitInv'
<1>1. /\ x \in Threads /\ Moves(x) /\ Task(x)' = Task(x) /\ loc'[x].sem = loc[x].sem
      /\ pc'[x] \notin {"c_done", "c_post"} /\ pc[x] \notin {"c_done", "c_post"}
  BY WaitSet, Zenon DEF Threads, Works, Task
<1>2. ~loc[x].sem /\ ~loc'[x].sem BY <1>1, Zenon DEF WaitInv
<1>3. \A u : Taken(u)' <=> Taken(u) BY <1>1, <1>2, TakenKept, Zenon
<1>4. \A u \in Tasks \ {Task(x)} : (Signalled(u)' <=> Signalled(u)) /\ (sem_attached'[u] <=> sem_attached[u])
  BY Zenon DEF Signalled
<1>5. ASSUME NEW z \in Users PROVE Waiter(z)'
  <2>1. CASE z = x BY <2>1, Zenon
  <2>2. CASE z # x
    <3>1. Waiter(z) BY Zenon DEF WaitInv
    <3>2. pc[z] \in WaitLabels => Task(z) \in Tasks \ {Task(x)}
      <4>1. pc[z] \in WaitLabels => Task(z) \in Tasks BY WaiterTask, Zenon
      <4> QED BY <2>2, <4>1, Zenon DEF WaitInv
    <3> QED BY <1>1, <1>3, <1>4, <2>2, <3>1, <3>2, OtherWaiter, Zenon
  <2> QED BY <2>1, <2>2, Zenon
<1>6. \A y \in Users : (pc'[y] \in WaitLabels <=> pc[y] \in WaitLabels) /\ Task(y)' = Task(y)
  BY <1>1, Zenon DEF Moves, Threads, Task
<1>7. \A y, z \in Users : pc'[y] \in WaitLabels /\ pc'[z] \in WaitLabels /\ Task(y)' = Task(z)' => y = z
  BY <1>6, Zenon DEF WaitInv
<1>8. \A u \in Tasks : sem'[u] >= 0 BY Zenon DEF WaitInv
<1>9. \A z \in Threads : loc'[z].sem => pc'[z] \in {"c_done", "c_post"} BY <1>1, <1>2, Zenon DEF Moves, WaitInv
<1> QED BY <1>5, <1>7, <1>8, <1>9, Zenon DEF WaitInv

\* The steps of wait().
LEMMA WaitSteps ==
  ASSUME TypeOK, WaitInv, NEW x \in Users, WaitStep(x)
  PROVE  WaitInv'
<1>0. PICK t : t = Task(x) BY Zenon
<1> USE <1>0
<1>1. x \in Threads /\ Waiter(x) BY Zenon DEF Threads, WaitInv
<1>2. pc[x] \in WaitLabels BY WaitEdges, WaitSet, Zenon DEF WaitStep
<1>3. t \in Tasks BY <1>2, WaiterTask, Zenon
<1>4. wait_guard[t] /\ sem[t] >= 0 BY <1>1, <1>2, <1>3, Zenon DEF Waiter, WaitInv
<1>5. /\ sem \in [Tasks -> Int] /\ sem_attached \in [Tasks -> BOOLEAN] /\ wait_guard \in [Tasks -> BOOLEAN]
  BY Zenon DEF TypeOK, DataOK
<1>6. ASSUME Works(x) PROVE Task(x)' = t BY <1>6, Zenon DEF Works, Task
<1>7. ASSUME Works(x), ~loc[x].sem PROVE \A u : Taken(u)' <=> Taken(u)
  <2>1. Moves(x) /\ ~loc'[x].sem BY <1>7, Zenon DEF Works
  <2> QED BY <1>1, <1>7, <2>1, TakenKept, Zenon
<1>8. ~loc[x].sem BY <1>1, <1>2, WaitSet, Zenon DEF WaitInv
<1>9. CASE WaitAttach(x)
  <2>1. Works(x) /\ pc'[x] = "w_spin" BY <1>9, WaitEdges, Zenon
  <2>2. /\ state' = state /\ wait_guard' = wait_guard /\ sem' = sem
        /\ sem_attached' = [sem_attached EXCEPT ![t] = TRUE]
    BY <1>9, Zenon DEF WaitAttach, atomics
  <2>3. /\ sem_attached'[t] /\ \A u \in Tasks \ {t} : sem'[u] = sem[u] /\ sem_attached'[u] = sem_attached[u]
    BY <1>3, <1>5, <2>2, Zenon
  <2>4. pc'[x] \in WaitLabels /\ pc'[x] # "w_sem" /\ pc'[x] \notin AttachedLabels \ {"w_spin"}
    BY <2>1, WaitSet, Zenon
  <2>5. Task(x)' = t /\ wait_guard'[t] /\ sem'[t] >= 0 BY <1>4, <1>6, <2>1, <2>2, Zenon
  <2>6. Waiter(x)' BY <2>3, <2>4, <2>5, Zenon DEF Waiter
  <2> QED BY <1>2, <2>1, <2>2, <2>3, <2>4, <2>5, <2>6, WaiterMoves, Zenon
<1>10. CASE WaitSpin(x)
  <2>1. Works(x) /\ pc[x] = "w_spin" /\ pc'[x] = "w_state" BY <1>10, WaitEdges, Zenon
  <2>2. state' = state /\ UNCHANGED waiting /\ state[t] # "Completing" BY <1>10, Zenon DEF WaitSpin, atomics
  <2>3. \A u : (Taken(u)' <=> Taken(u)) /\ (Signalled(u)' <=> Signalled(u))
    BY <1>7, <1>8, <2>1, <2>2, Zenon DEF waiting, Signalled
  <2>4. pc'[x] \in WaitLabels /\ pc'[x] # "w_sem" /\ pc[x] \in AttachedLabels BY <2>1, Zenon DEF WaitLabels, AttachedLabels
  <2>5. Task(x)' = t /\ wait_guard'[t] /\ sem'[t] >= 0 BY <1>4, <1>6, <2>1, <2>2, Zenon DEF waiting
  <2>6. Signalled(t)' \/ sem_attached'[t] \/ Taken(t)'
    <3>1. Signalled(t) \/ sem_attached[t] \/ Taken(t) BY <1>1, <2>4, Zenon DEF Waiter
    <3> QED BY <2>2, <2>3, <3>1, Zenon DEF waiting
  <2>7. Waiter(x)' BY <2>2, <2>4, <2>5, <2>6, Zenon DEF Waiter
  <2> QED BY <1>2, <2>1, <2>2, <2>4, <2>5, <2>7, WaiterMoves, Zenon DEF waiting
<1>11. CASE WaitReadState(x) \/ WaitReadSem(x)
  <2>1. /\ Works(x) /\ pc[x] \in {"w_state", "w_pointer"} /\ pc'[x] \in {"w_sem", "w_pointer", "w_end"}
        /\ pc'[x] = "w_sem" => state[t] # "Completed" \/ ~sem_attached[t]
    BY <1>11, WaitEdges, Zenon
  <2>2. state' = state /\ UNCHANGED waiting BY <1>11, Zenon DEF WaitReadState, WaitReadSem, atomics
  <2>3. \A u : (Taken(u)' <=> Taken(u)) /\ (Signalled(u)' <=> Signalled(u))
    BY <1>7, <1>8, <2>1, <2>2, Zenon DEF waiting, Signalled
  <2>4. pc'[x] \in WaitLabels /\ pc[x] \in AttachedLabels /\ pc[x] \in AttachedLabels \ {"w_spin"}
    BY <2>1, Zenon DEF WaitLabels, AttachedLabels
  <2>5. Task(x)' = t /\ wait_guard'[t] /\ sem'[t] >= 0 BY <1>4, <1>6, <2>1, <2>2, Zenon DEF waiting
  <2>6. Signalled(t) \/ sem_attached[t] \/ Taken(t) BY <1>1, <2>4, Zenon DEF Waiter
  <2>7. \A y \in Threads : pc[y] = "c_done" /\ Task(y) = t /\ state[t] = "Completing" => Signalled(t) \/ loc[y].sem
    BY <1>1, <2>4, Zenon DEF Waiter
  <2>8. pc[x] # "c_done" /\ pc'[x] # "c_done" BY <2>1, Zenon
  <2>9. \A y \in Threads \ {x} : pc'[y] = pc[y] /\ loc'[y] = loc[y] BY <2>1, Zenon DEF Works, Moves
  <2>10. Signalled(t)' \/ sem_attached'[t] \/ Taken(t)' BY <2>2, <2>3, <2>6, Zenon DEF waiting
  <2>11. \A y \in Threads : pc'[y] = "c_done" /\ Task(y)' = t /\ state'[t] = "Completing"
                              => Signalled(t)' \/ loc'[y].sem
    <3> SUFFICES ASSUME NEW y \in Threads, pc'[y] = "c_done", loc'[y].task = t, state'[t] = "Completing"
                 PROVE  Signalled(t)' \/ loc'[y].sem
      BY Zenon DEF Task
    <3>1. pc[y] = "c_done" /\ loc'[y] = loc[y] BY <2>8, <2>9, Zenon
    <3>2. Task(y) = t /\ state[t] = "Completing" BY <2>2, <3>1, Zenon DEF Task
    <3> QED BY <2>3, <2>7, <3>1, <3>2, Zenon
  <2>12. pc'[x] = "w_sem" => Signalled(t)' \/ Taken(t)' \/ (sem_attached'[t] /\ state'[t] # "Completed")
    BY <2>1, <2>2, <2>3, <2>6, Zenon DEF waiting
  <2>13. Waiter(x)' BY <2>4, <2>5, <2>10, <2>11, <2>12, Zenon DEF Waiter
  <2> QED BY <1>2, <2>1, <2>2, <2>4, <2>5, <2>13, WaiterMoves, ZenonT(30) DEF waiting
<1>12. CASE WaitSem(x)
  <2>1. Works(x) /\ pc'[x] = "w_end" BY <1>12, WaitEdges, Zenon
  <2>2. /\ state' = state /\ wait_guard' = wait_guard /\ sem_attached' = sem_attached
        /\ sem' = [sem EXCEPT ![t] = @ - 1] /\ sem[t] > 0
    BY <1>12, Zenon DEF WaitSem, atomics
  <2>3. sem'[t] >= 0 /\ \A u \in Tasks \ {t} : sem'[u] = sem[u] /\ sem_attached'[u] = sem_attached[u]
    BY <1>3, <1>5, <2>2, SMT, Z3
  <2>4. pc'[x] \in WaitLabels /\ pc'[x] # "w_sem" /\ pc'[x] \notin AttachedLabels
    BY <2>1, Zenon DEF WaitLabels, AttachedLabels
  <2>5. Task(x)' = t /\ wait_guard'[t] BY <1>4, <1>6, <2>1, <2>2, Zenon
  <2>6. Waiter(x)' BY <2>4, <2>5, Zenon DEF Waiter
  <2> QED BY <1>2, <2>1, <2>2, <2>3, <2>4, <2>6, WaiterMoves, ZenonT(30)
<1>13. CASE WaitEnd(x)
  <2>1. /\ Moves(x) /\ pc'[x] = "idle" /\ loc'[x] = NoLocals BY <1>13, WaitEdges, Zenon
  <2>2. ~loc'[x].sem BY <2>1, SMT, Z3 DEF NoLocals
  <2>3. \A u : Taken(u)' <=> Taken(u) BY <1>1, <1>8, <2>1, <2>2, TakenKept, Zenon
  <2>4. /\ state' = state /\ sem' = sem /\ wait_guard' = [wait_guard EXCEPT ![t] = FALSE]
        /\ sem_attached' = [sem_attached EXCEPT ![t] = FALSE]
    BY <1>13, Zenon DEF WaitEnd, atomics
  <2>5. /\ \A u : Signalled(u)' <=> Signalled(u)
        /\ \A u \in Tasks \ {t} : wait_guard'[u] = wait_guard[u] /\ sem_attached'[u] = sem_attached[u]
    BY <1>5, <2>4, Zenon DEF Signalled
  <2>6. pc'[x] \notin WaitLabels /\ pc'[x] \notin AttachedLabels /\ pc'[x] # "w_sem" /\ pc'[x] # "c_done"
    BY <2>1, Zenon DEF WaitLabels, AttachedLabels
  <2>7. ASSUME NEW z \in Users PROVE Waiter(z)'
    <3>1. CASE z = x BY <2>6, <3>1, Zenon DEF Waiter
    <3>2. CASE z # x
      <4>1. Waiter(z) BY Zenon DEF WaitInv
      <4>2. pc[z] \in WaitLabels => Task(z) \in Tasks BY WaiterTask, Zenon
      <4>3. pc[z] \in WaitLabels => Task(z) # t BY <1>2, <3>2, Zenon DEF WaitInv
      <4>4. pc[z] \in WaitLabels => Task(z) \in Tasks \ {t} BY <4>2, <4>3, Zenon
      <4> QED BY <1>1, <2>1, <2>3, <2>4, <2>5, <2>6, <3>2, <4>1, <4>4, OtherWaiter, ZenonT(30)
    <3> QED BY <3>1, <3>2, Zenon
  <2>8. \A y \in Users : pc'[y] \in WaitLabels => pc[y] \in WaitLabels /\ Task(y)' = Task(y)
    BY <2>1, <2>6, Zenon DEF Moves, Threads, Task
  <2>9. ASSUME NEW y \in Users, NEW z \in Users, pc'[y] \in WaitLabels, pc'[z] \in WaitLabels,
               Task(y)' = Task(z)'
        PROVE  y = z
    <3>1. pc[y] \in WaitLabels /\ pc[z] \in WaitLabels /\ Task(y) = Task(z) BY <2>8, <2>9, Zenon
    <3> QED BY <3>1, Zenon DEF WaitInv
  <2>10. \A u \in Tasks : sem'[u] >= 0 BY <2>4, Zenon DEF WaitInv
  <2>11. \A y \in Threads : loc'[y].sem => pc'[y] \in {"c_done", "c_post"} BY <2>1, <2>2, Zenon DEF Moves, WaitInv
  <2> QED BY <2>7, <2>9, <2>10, <2>11, Zenon DEF WaitInv
<1> QED BY <1>9, <1>10, <1>11, <1>12, <1>13, Zenon DEF WaitStep


\* What renew_state_() moves a task to.
LEMMA NewStates ==
  ASSUME NEW f, NEW d \in Int
  PROVE  NewState(f, d) \in {"Cancelling", "Processing", "Sleeping"}
BY Zenon DEF NewState

\* The calls and the steps of a request.
LEMMA UserWait ==
  ASSUME TypeOK, LockInv, WaitInv, NEW x \in Users,
         \/ RenewStep(x) \/ Stop(x)
         \/ \E t \in Tasks : Schedule(x, t) \/ AsyncCancel(x, t) \/ Resume(x, t)
  PROVE  WaitInv'
<1> USE DEF atomics
<1>1. x \in Threads /\ ControlOK /\ state \in [Tasks -> States] BY Zenon DEF Threads, TypeOK, DataOK
<1>2. ASSUME NEW t \in Tasks, Schedule(x, t) \/ AsyncCancel(x, t) \/ Resume(x, t)
      PROVE  WaitInv'
  <2>1. state' = state /\ UNCHANGED waiting BY <1>2, Zenon DEF Schedule, AsyncCancel, Renew, Resume
  <2>2. /\ pc[x] = "idle"
        /\ \/ UNCHANGED <<pc, loc>>
           \/ Moves(x) /\ pc'[x] \in {"store", "exchange"} /\ loc'[x].sem = FALSE
    BY <1>2, CallEdges, Zenon
  <2>3. CASE UNCHANGED <<pc, loc>> BY <2>1, <2>3, WaitStutters, Zenon
  <2>4. CASE Moves(x) /\ pc'[x] \in {"store", "exchange"} /\ loc'[x].sem = FALSE
    <3>1. /\ pc[x] \notin WaitLabels /\ pc'[x] \notin WaitLabels /\ pc'[x] # "c_done"
          /\ pc[x] \notin {"c_done", "c_post"} /\ ~loc'[x].sem
      BY <2>2, <2>4, WaitSet, Zenon
    <3> QED BY <1>1, <2>1, <2>4, <3>1, WaitAside, Zenon
  <2> QED BY <2>2, <2>3, <2>4, Zenon
<1>3. CASE RenewStep(x) \/ Stop(x)
  <2>1. loc[x].ret \in {"unguard", "return", "join"} BY <1>1, ThreadsAssumption, Zenon DEF ControlOK, LocalsOK, UserLocals
  <2>2. /\ Moves(x)
        /\ pc[x] \in {"idle", "store", "cancel", "paused", "exchange", "size", "push", "link", "set", "commit",
                      "trylock", "unlock_push", "renew", "dec", "unguard", "return"}
        /\ pc'[x] \in {"idle", "cancel", "paused", "exchange", "size", "trylock", "push", "link", "set",
                       "commit", "unguard", "return", "join", "renew", "unlock_push", "x_flags", "dec", "update"}
    BY <1>3, <2>1, RequestEdges, CallEdges, Zenon DEF Works, RenewStep
  <2>3. /\ pc[x] \notin WaitLabels /\ pc'[x] \notin WaitLabels /\ pc'[x] # "c_done"
        /\ pc[x] \notin {"c_done", "c_post"}
    BY <2>2, WaitSet, Zenon
  <2>4. loc'[x].sem = loc[x].sem \/ ~loc'[x].sem
    <3>1. CASE TryLock(x)
      <4>1. loc' = loc \/ loc' = [loc EXCEPT ![x].flags = flags[Task(x)]] BY <3>1, Zenon DEF TryLock
      <4> QED BY <1>1, <4>1, Zenon DEF ControlOK, Locals
    <3>2. CASE Return(x)
      <4>1. loc'[x] = NoLocals BY <3>2, RequestEdges, Zenon
      <4> QED BY <4>1, SMT, Z3 DEF NoLocals
    <3>3. CASE ~TryLock(x) /\ ~Return(x)
      BY <1>3, <3>3, RequestEdges, CallEdges, Zenon DEF Works, RenewStep
    <3> QED BY <3>1, <3>2, <3>3, Zenon
  <2>5. UNCHANGED waiting
    BY <1>3, Zenon DEF RenewStep, RenewStore, RenewPaused, RenewCancel, ExchangeReady, CommitSize, Push, Link,
       RequestSet, TrySet, Commit, Return, TryLock, UnlockPush, RenewInplace, RenewedInplace, Stop
  <2>6. \/ state' = state \/ state' = [state EXCEPT ![Task(x)] = "Ready"]
        \/ state' = [state EXCEPT ![Task(x)] = NewState(loc[x].flags, loc[x].deadline)]
    BY <1>3, Zenon DEF RenewStep, RenewStore, RenewPaused, RenewCancel, ExchangeReady, CommitSize, Push, Link,
       RequestSet, TrySet, Commit, Return, TryLock, UnlockPush, RenewInplace, RenewedInplace, Stop
  <2>7. NewState(loc[x].flags, loc[x].deadline) \in {"Cancelling", "Processing", "Sleeping"}
    <3>1. loc[x].deadline \in Int BY <1>1, LocalsTyped, Zenon
    <3> QED BY <3>1, NewStates, Zenon
  <2>8. \A t \in Tasks : /\ state'[t] = "Completing" => state[t] = "Completing"
                         /\ state'[t] = "Completed" => state[t] = "Completed"
    BY <1>1, <2>6, <2>7, Zenon
  <2> QED BY <1>1, <2>2, <2>3, <2>4, <2>5, <2>8, WaitAside, ZenonT(30)
<1> QED BY <1>2, <1>3, Zenon

\* The steps of the event loop thread.
LEMMA LoopWait ==
  ASSUME TypeOK, LockInv, WaitInv, LoopStep, ~SharedStep(Loop)
  PROVE  WaitInv'
<1> USE DEF atomics
<1>1. Loop \in Threads /\ ControlOK /\ state \in [Tasks -> States] BY Zenon DEF Threads, TypeOK, DataOK
<1>2. /\ Moves(Loop) /\ pc[Loop] \notin {"c_done", "c_post"} /\ pc'[Loop] # "c_done"
  <2>1. /\ Moves(Loop)
        /\ pc[Loop] \in {"wait", "lock", "pop", "load", "newstate", "recheck", "sleep", "exec", "run", "renewed",
                         "pause", "p_sleep", "p_check", "reborn"}
        /\ pc'[Loop] \in {"lock", "pop", "sleep", "update", "load", "newstate", "recheck", "x_flags", "exec", "run",
                          "renewed", "c_start", "pause", "p_sleep", "p_check", "reborn"}
    BY LoopEdges, Zenon DEF Works, LoopStep
  <2> QED BY <2>1, Zenon
<1>3. loc'[Loop].sem = loc[Loop].sem \/ ~loc'[Loop].sem
  <2>1. ~NoLocals.sem BY Zenon DEF NoLocals
  <2> QED BY <2>1, LoopEdges, FetchMoves, ExecuteMoves, Zenon DEF Works, LoopStep
<1>4. UNCHANGED waiting
  BY Zenon DEF LoopStep, LoopWake, LoopLock, FetchPop, FetchLoad, FetchNewState, FetchAgain, FetchPanic,
     FetchReady, FetchSleeping, ExecuteBegin, ExecuteFinish, CheckRenewed, ExecuteOperation, ExecutePause,
     PauseTask, PauseCheck, ExecuteContinue, RebornTask
<1>5. \E t, s : /\ state' = state \/ state' = [state EXCEPT ![t] = s]
                /\ s \in {"Ready", "Processing", "Sleeping", NewState(loc[Loop].flags, loc[Loop].deadline)}
  BY Zenon DEF LoopStep, LoopWake, LoopLock, FetchPop, FetchLoad, FetchNewState, FetchAgain, FetchPanic,
     FetchReady, FetchSleeping, ExecuteBegin, ExecuteFinish, CheckRenewed, ExecuteOperation, ExecutePause,
     PauseTask, PauseCheck, ExecuteContinue, RebornTask
<1>6. NewState(loc[Loop].flags, loc[Loop].deadline) \in {"Cancelling", "Processing", "Sleeping"}
  <2>1. loc[Loop].deadline \in Int BY <1>1, LocalsTyped, Zenon
  <2> QED BY <2>1, NewStates, Zenon
<1>7. \A t \in Tasks : /\ state'[t] = "Completing" => state[t] = "Completing"
                       /\ state'[t] = "Completed" => state[t] = "Completed"
  BY <1>1, <1>5, <1>6, Zenon
<1> QED BY <1>1, <1>2, <1>3, <1>4, <1>7, WaitAside, Zenon

\* A step of the completion of a task: the waiter for the task is to be looked at.
LEMMA CompletionWait ==
  ASSUME TypeOK, LockInv, WaitInv, NEW x \in Threads, Moves(x), KeepsCall(x),
         pc[x] \in {"c_sem", "c_done", "c_post"}, pc'[x] \notin WaitLabels, wait_guard' = wait_guard,
         NEW t \in Tasks, t = Task(x),
         \A u \in Tasks \ {t} : /\ sem'[u] = sem[u] /\ sem_attached'[u] = sem_attached[u]
                                /\ state'[u] = state[u],
         sem'[t] >= 0, loc'[x].sem => pc'[x] \in {"c_done", "c_post"},
         \A z \in Users \ {x} : pc[z] \in WaitLabels /\ Task(z) = t => Waiter(z)'
  PROVE  WaitInv'
<1>1. Task(x)' = t /\ loc'[x].task = t /\ loc[x].task = t BY Zenon DEF KeepsCall, Task
<1>2. \A u \in Tasks \ {t} : Taken(u)' <=> Taken(u)
  <2> SUFFICES ASSUME NEW u \in Tasks \ {t} PROVE Taken(u)' <=> Taken(u) BY Zenon
  <2>1. \A y \in Threads : (Task(y) = u /\ loc[y].sem) <=> (loc'[y].task = u /\ loc'[y].sem)
    BY <1>1, Zenon DEF Moves, Task
  <2> QED BY <2>1, Zenon DEF Taken, Task
<1>3. \A u \in Tasks \ {t} : Signalled(u)' <=> Signalled(u) BY Zenon DEF Signalled
<1>4. ASSUME NEW z \in Users PROVE Waiter(z)'
  <2>1. CASE z = x
    <3>1. pc'[z] \notin WaitLabels /\ pc'[z] \notin AttachedLabels /\ pc'[z] # "w_sem"
      BY <2>1, WaitSet, Zenon
    <3> QED BY <3>1, Zenon DEF Waiter
  <2>2. CASE z # x /\ pc[z] \in WaitLabels /\ Task(z) = t BY <2>2, Zenon
  <2>3. CASE z # x /\ ~(pc[z] \in WaitLabels /\ Task(z) = t)
    <3>1. Waiter(z) BY Zenon DEF WaitInv
    <3>2. pc[z] \in WaitLabels => Task(z) \in Tasks BY WaiterTask, Zenon
    <3>3. pc[z] \in WaitLabels => Task(z) \in Tasks \ {t} BY <2>3, <3>2, Zenon
    <3>4. pc[z] \in WaitLabels => loc'[x].task # Task(z) BY <1>1, <3>3, Zenon
    <3> QED BY <1>2, <1>3, <2>3, <3>1, <3>3, <3>4, OtherWaiter, Zenon
  <2> QED BY <2>1, <2>2, <2>3, Zenon
<1>5. pc[x] \notin WaitLabels BY WaitSet, Zenon
<1>6. \A y \in Users : pc'[y] \in WaitLabels => pc[y] \in WaitLabels /\ Task(y)' = Task(y)
  BY Zenon DEF Moves, Threads, Task
<1>7. ASSUME NEW y \in Users, NEW z \in Users, pc'[y] \in WaitLabels, pc'[z] \in WaitLabels,
             Task(y)' = Task(z)'
      PROVE  y = z
  <2>1. pc[y] \in WaitLabels /\ pc[z] \in WaitLabels /\ Task(y) = Task(z) BY <1>6, <1>7, Zenon
  <2> QED BY <2>1, Zenon DEF WaitInv
<1>8. \A u \in Tasks : sem'[u] >= 0 BY Zenon DEF WaitInv
<1>9. \A y \in Threads : loc'[y].sem => pc'[y] \in {"c_done", "c_post"} BY Zenon DEF Moves, WaitInv
<1> QED BY <1>4, <1>7, <1>8, <1>9, Zenon DEF WaitInv

\* The waiter for the task that is completed: nobody else completes the task.
LEMMA CompletedWaiter ==
  ASSUME LockInv, NEW x \in Threads, Moves(x), pc[x] \in CriticalLabels,
         NEW z \in Users, z # x, NEW t, t = Task(z), wait_guard'[t],
         pc[z] \in AttachedLabels => Signalled(t)' \/ sem_attached'[t] \/ Taken(t)',
         pc[z] \in AttachedLabels /\ pc'[x] = "c_done" => Signalled(t)' \/ loc'[x].sem,
         pc[z] = "w_sem" => Signalled(t)' \/ Taken(t)' \/ (sem_attached'[t] /\ state'[t] # "Completed")
  PROVE  Waiter(z)'
<1>1. z \in Threads BY Zenon DEF Threads
<1>2. pc'[z] = pc[z] /\ Task(z)' = t BY <1>1, Zenon DEF Moves, Task
<1>3. \A y \in Threads : pc'[y] = "c_done" => y = x
  <2>1. \A y \in Threads : pc[y] = "c_done" => y = x BY CriticalSet, OneInside, Zenon
  <2> QED BY <2>1, Zenon DEF Moves
<1>4. pc'[z] \in AttachedLabels \ {"w_spin"} => pc[z] \in AttachedLabels BY <1>2, Zenon
<1>5. \A y \in Threads : pc'[z] \in AttachedLabels \ {"w_spin"} /\ pc'[y] = "c_done" => Signalled(t)' \/ loc'[y].sem
  BY <1>3, <1>4, Zenon
<1> QED BY <1>2, <1>5, Zenon DEF Waiter

\* The steps that the users and the event loop thread share.
LEMMA SharedWait ==
  ASSUME TypeOK, LockInv, StageInv, WaitInv, NEW x \in Threads, SharedStep(x)
  PROVE  WaitInv'
<1> USE DEF atomics
<1>1. ControlOK /\ InStage(x) BY Zenon DEF TypeOK, StageInv
<1>2. /\ state \in [Tasks -> States] /\ sem \in [Tasks -> Int] /\ sem_attached \in [Tasks -> BOOLEAN]
  BY Zenon DEF TypeOK, DataOK
<1>3. CASE \/ UpdateWakeup(x) \/ UpdateSet(x) \/ UpdateCheck(x) \/ Unlock(x) \/ CancelFlags(x)
           \/ CompleteStart(x)
  <2>1. /\ Moves(x) /\ (loc'[x].sem = loc[x].sem \/ ~loc'[x].sem)
        /\ pc[x] \in {"update", "u_set", "u_commit", "u_check", "unlock", "x_flags", "c_start"}
        /\ pc'[x] \in {"u_set", "u_commit", "u_check", "unlock", "unguard", "stopped", "wait", "pop", "sleep",
                       "c_start", "c_sem"}
    BY <1>3, SharedEdges, Zenon DEF Works
  <2>2. /\ pc[x] \notin WaitLabels /\ pc'[x] \notin WaitLabels /\ pc'[x] # "c_done"
        /\ pc[x] \notin {"c_done", "c_post"} /\ pc[x] \in CriticalLabels
    BY <2>1, WaitSet, CriticalSet, Zenon
  <2>3. /\ UNCHANGED waiting
        /\ state' = state \/ state' = [state EXCEPT ![Task(x)] = "Completing"]
    BY <1>3, Zenon DEF UpdateWakeup, UpdateSet, TrySet, Commit, UpdateCheck, Unlock, CancelFlags, CompleteStart
  <2>4. \A u \in Tasks : state'[u] = "Completed" => state[u] = "Completed" BY <1>2, <2>3, Zenon
  <2> QED BY <2>1, <2>2, <2>3, <2>4, WaitAside, Zenon
<1>4. CASE CompleteTakeSem(x) \/ CompleteDone(x) \/ CompletePost(x)
  <2>0. PICK t : t = Task(x) BY Zenon
  <2> USE <2>0
  <2>1. /\ Moves(x) /\ KeepsCall(x) /\ pc[x] \in {"c_sem", "c_done", "c_post"}
        /\ pc'[x] \in {"c_done", "c_post", "pop", "sleep", "reborn", "dec"}
    BY <1>4, SharedEdges, Zenon
  <2>2. pc[x] \in CriticalLabels /\ pc'[x] \notin WaitLabels BY <2>1, WaitSet, CriticalSet, Zenon
  <2>3. t \in Tasks
    <3>1. CASE x = Loop BY <1>1, <2>1, <3>1, LoopTask, Zenon
    <3>2. CASE x # Loop
      <4>1. x \in Users /\ pc[x] \notin {"idle", "set", "commit", "join"} BY <2>1, <3>2, Zenon DEF Threads
      <4> QED BY <1>1, <4>1, UserTask, Zenon
    <3> QED BY <3>1, <3>2, Zenon
  <2>4. \A y \in Threads : loc[y].sem => y = x
    <3>1. \A y \in Threads : loc[y].sem => pc[y] \in CriticalLabels BY CriticalSet, Zenon DEF WaitInv
    <3> QED BY <2>2, <3>1, OneInside, Zenon
  <2>5. Taken(t) <=> loc[x].sem BY <2>4, Zenon DEF Taken
  <2>6. loc'[x].sem => Taken(t)' BY <2>1, Zenon DEF Taken, KeepsCall, Task
  <2>7. ASSUME NEW z \in Users \ {x}, pc[z] \in WaitLabels, Task(z) = t
        PROVE  /\ wait_guard[t]
               /\ pc[z] \in AttachedLabels => Signalled(t) \/ sem_attached[t] \/ loc[x].sem
               /\ pc[z] = "w_sem" /\ pc[x] = "c_done" /\ state[t] = "Completing" => Signalled(t) \/ loc[x].sem
               /\ pc[z] = "w_sem" => Signalled(t) \/ loc[x].sem \/ (sem_attached[t] /\ state[t] # "Completed")
    <3>1. Waiter(z) BY Zenon DEF WaitInv
    <3>2. pc[z] = "w_sem" => pc[z] \in AttachedLabels \ {"w_spin"} BY Zenon DEF AttachedLabels
    <3> QED BY <2>5, <2>7, <3>1, <3>2, Zenon DEF Waiter
  <2>8. sem[t] >= 0 BY <2>3, Zenon DEF WaitInv
  <2>9. CASE CompleteTakeSem(x)
    <3>1. pc[x] = "c_sem" /\ pc'[x] = "c_done" /\ loc'[x].sem = sem_attached[t] BY <2>9, SharedEdges, Zenon
    <3>2. /\ state' = state /\ sem' = sem /\ wait_guard' = wait_guard
          /\ sem_attached' = [sem_attached EXCEPT ![t] = FALSE]
      BY <2>9, Zenon DEF CompleteTakeSem
    <3>3. \A u \in Tasks \ {t} : sem_attached'[u] = sem_attached[u] BY <1>2, <2>3, <3>2, Zenon
    <3>4. Signalled(t)' <=> Signalled(t) BY <3>2, Zenon DEF Signalled
    <3>5. ~loc[x].sem BY <3>1, Zenon DEF WaitInv
    <3>6. ASSUME NEW z \in Users \ {x}, pc[z] \in WaitLabels, Task(z) = t PROVE Waiter(z)'
      <4>1. wait_guard'[t] BY <2>7, <3>2, <3>6, Zenon
      <4>2. pc[z] \in AttachedLabels => Signalled(t)' \/ loc'[x].sem BY <2>7, <3>1, <3>4, <3>5, <3>6, Zenon
      <4>3. pc[z] = "w_sem" => pc[z] \in AttachedLabels BY WaitSet, Zenon
      <4> QED BY <2>1, <2>2, <2>6, <3>6, <4>1, <4>2, <4>3, CompletedWaiter, Zenon
    <3> QED BY <2>1, <2>2, <2>3, <2>8, <3>1, <3>2, <3>3, <3>6, CompletionWait, ZenonT(30)
  <2>10. CASE CompleteDone(x) /\ state[t] = "Completing"
    <3>1. pc[x] = "c_done" /\ pc'[x] = "c_post" BY <2>10, SharedEdges, Zenon
    <3>2. /\ state' = [state EXCEPT ![t] = "Completed"] /\ sem' = sem /\ wait_guard' = wait_guard
          /\ sem_attached' = sem_attached /\ loc' = loc
      BY <2>10, Zenon DEF CompleteDone
    <3>3. \A u \in Tasks \ {t} : state'[u] = state[u] BY <1>2, <2>3, <3>2, Zenon
    <3>4. (Signalled(t)' <=> Signalled(t)) /\ pc'[x] # "c_done" BY <3>1, <3>2, Zenon DEF Signalled
    <3>5. ASSUME NEW z \in Users \ {x}, pc[z] \in WaitLabels, Task(z) = t PROVE Waiter(z)'
      <4>1. wait_guard'[t] BY <2>7, <3>2, <3>5, Zenon
      <4>2. pc[z] \in AttachedLabels => Signalled(t)' \/ sem_attached'[t] \/ Taken(t)'
        BY <2>6, <2>7, <3>2, <3>4, <3>5, Zenon
      <4>3. pc[z] = "w_sem" => Signalled(t)' \/ Taken(t)' BY <2>6, <2>7, <2>10, <3>1, <3>2, <3>4, <3>5, ZenonT(30)
      <4> QED BY <2>1, <2>2, <3>4, <3>5, <4>1, <4>2, <4>3, CompletedWaiter, ZenonT(30)
    <3> QED BY <2>1, <2>2, <2>3, <2>8, <3>1, <3>2, <3>3, <3>5, CompletionWait, ZenonT(30)
  <2>11. CASE CompleteDone(x) /\ state[t] # "Completing"
    <3>1. pc[x] = "c_done" /\ pc'[x] = "c_post" /\ loc'[x].sem = FALSE BY <2>11, SharedEdges, Zenon
    <3>2. /\ state' = state /\ sem' = sem /\ wait_guard' = wait_guard
          /\ sem_attached' = [sem_attached EXCEPT ![t] = @ \/ loc[x].sem]
      BY <2>11, Zenon DEF CompleteDone
    <3>3. /\ \A u \in Tasks \ {t} : sem_attached'[u] = sem_attached[u]
          /\ sem_attached'[t] <=> sem_attached[t] \/ loc[x].sem
      BY <1>2, <2>3, <3>2, Zenon
    <3>4. (Signalled(t)' <=> Signalled(t)) /\ pc'[x] # "c_done" BY <3>1, <3>2, Zenon DEF Signalled
    <3>5. state'[t] # "Completed" BY <1>1, <2>11, <3>1, <3>2, Zenon DEF InStage
    <3>6. ASSUME NEW z \in Users \ {x}, pc[z] \in WaitLabels, Task(z) = t PROVE Waiter(z)'
      <4>1. wait_guard'[t] BY <2>7, <3>2, <3>6, Zenon
      <4>2. pc[z] \in AttachedLabels => Signalled(t)' \/ sem_attached'[t] BY <2>7, <3>3, <3>4, <3>6, ZenonT(30)
      <4>3. pc[z] = "w_sem" => pc[z] \in AttachedLabels BY WaitSet, Zenon
      <4> QED BY <2>1, <2>2, <3>4, <3>5, <3>6, <4>1, <4>2, <4>3, CompletedWaiter, ZenonT(30)
    <3> QED BY <2>1, <2>2, <2>3, <2>8, <3>1, <3>2, <3>3, <3>6, CompletionWait, ZenonT(30)
  <2>12. CASE CompletePost(x)
    <3>1. pc[x] = "c_post" /\ pc'[x] # "c_done" /\ loc'[x].sem = FALSE
      <4>1. pc[x] = "c_post" /\ loc'[x].sem = FALSE /\ pc'[x] \in {"pop", "sleep", "reborn", "dec"}
        BY <2>12, SharedEdges, Zenon
      <4> QED BY <4>1, Zenon
    <3>2. /\ state' = state /\ wait_guard' = wait_guard /\ sem_attached' = sem_attached
          /\ sem' = IF loc[x].sem THEN [sem EXCEPT ![t] = @ + 1] ELSE sem
      BY <2>12, Zenon DEF CompletePost
    <3>3. /\ \A u \in Tasks \ {t} : sem'[u] = sem[u]
          /\ sem'[t] >= 0 /\ (loc[x].sem => Signalled(t)')
      BY <1>2, <2>3, <2>8, <3>2, SMT, Z3 DEF Signalled
    <3>4. Signalled(t) => Signalled(t)' BY <1>2, <2>3, <3>2, SMT, Z3 DEF Signalled
    <3>5. ASSUME NEW z \in Users \ {x}, pc[z] \in WaitLabels, Task(z) = t PROVE Waiter(z)'
      <4>1. wait_guard'[t] BY <2>7, <3>2, <3>5, Zenon
      <4>2. pc[z] \in AttachedLabels => Signalled(t)' \/ sem_attached'[t] BY <2>7, <3>2, <3>3, <3>4, <3>5, Zenon
      <4>3. pc[z] = "w_sem" => Signalled(t)' \/ (sem_attached'[t] /\ state'[t] # "Completed")
        BY <2>7, <3>2, <3>3, <3>4, <3>5, Zenon
      <4> QED BY <2>1, <2>2, <3>1, <3>5, <4>1, <4>2, <4>3, CompletedWaiter, ZenonT(30)
    <3> QED BY <2>1, <2>2, <2>3, <3>1, <3>2, <3>3, <3>5, CompletionWait, ZenonT(30)
  <2> QED BY <1>4, <2>9, <2>10, <2>11, <2>12
<1> QED BY <1>3, <1>4, Zenon DEF SharedStep

\* Nobody waits at the start.
LEMMA WaitInit ==
  ASSUME Init
  PROVE  WaitInv
<1>1. /\ \A x \in Threads : pc[x] \in {"wait", "idle"} /\ ~loc[x].sem
      /\ \A t \in Tasks : sem[t] >= 0
  BY SMT, Z3 DEF Init, NoLocals
<1>2. \A x \in Users : pc[x] \notin WaitLabels /\ pc[x] \notin AttachedLabels /\ pc[x] # "w_sem"
  BY <1>1, Zenon DEF Threads, WaitLabels, AttachedLabels
<1>3. \A x \in Users : Waiter(x) BY <1>2, Zenon DEF Waiter
<1> QED BY <1>1, <1>2, <1>3, Zenon DEF WaitInv

\* Nobody waits in vain, whoever moves.
LEMMA WaitStays ==
  ASSUME TypeOK, LockInv, StageInv, WaitInv, [Next]_vars
  PROVE  WaitInv'
<1>1. Tick \/ UNCHANGED vars => UNCHANGED <<state, pc, loc>> /\ UNCHANGED waiting BY Zenon DEF Tick, vars, atomics
<1>2. ASSUME NEW x \in Users, SharedStep(x) PROVE WaitInv'
  <2>1. x \in Threads BY Zenon DEF Threads
  <2> QED BY <1>2, <2>1, SharedWait, Zenon
<1>3. ASSUME LoopStep PROVE WaitInv'
  <2>1. Loop \in Threads BY Zenon DEF Threads
  <2> QED BY <1>3, <2>1, LoopWait, SharedWait, Zenon
<1> QED BY <1>1, <1>2, <1>3, UserWait, WaitCalled, WaitSteps, WaitStutters DEF Next, Terminated, UserStep

=============================================================================
