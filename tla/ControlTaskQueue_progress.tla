--------------------- MODULE ControlTaskQueue_progress ----------------------
(***************************************************************************)
(* The control task queue: a task that is worked on is in the state for it,*)
(* and no task stays in a state that is none to rest in or with a deadline *)
(* of old.  The lemmas take the invariants that the other modules are about*)
(* as hypotheses.                                                          *)
(***************************************************************************)
EXTENDS ControlTaskQueue_types

-----------------------------------------------------------------------------
(***************************************************************************)
(* The states of the tasks that are worked on.                             *)
(***************************************************************************)
\* A thread moves a task out of StateReady, or on to its next state, only with the
\* lock: a step keeps the stages of the other threads.
LEMMA StageMoves ==
  ASSUME TypeOK, LockInv, StageInv, NEW x \in Threads, Moves(x),
         pc[x] \in CriticalLabels \/ \A t \in Tasks : state'[t] \in {state[t], "Ready"},
         InStage(x)'
  PROVE  StageInv'
<1> SUFFICES ASSUME NEW y \in Threads, y # x PROVE InStage(y)' BY Zenon DEF StageInv
<1>1. pc'[y] = pc[y] /\ loc'[y] = loc[y] /\ InStage(y) BY Zenon DEF Moves, StageInv
<1>2. CASE pc[y] \notin StageLabels BY <1>1, <1>2, Zenon DEF InStage, StageLabels
<1>3. CASE pc[y] \in StageLabels
  <2>1. Task(y) \in Tasks /\ pc[y] \in CriticalLabels BY <1>3, StageTask, Zenon
  <2>2. pc[x] \notin CriticalLabels BY <2>1, OneInside, Zenon
  <2>3. state'[Task(y)] \in {state[Task(y)], "Ready"} BY <2>1, <2>2, Zenon
  <2>4. Task(y)' = Task(y) BY <1>1, Zenon DEF Task
  <2> QED BY <1>1, <2>3, <2>4, Zenon DEF InStage
<1> QED BY <1>2, <1>3, Zenon

\* A step of a thread that works on nothing afterwards.
LEMMA StageLeft ==
  ASSUME TypeOK, LockInv, StageInv, NEW x \in Threads, Moves(x),
         pc[x] \in CriticalLabels \/ \A t \in Tasks : state'[t] \in {state[t], "Ready"},
         pc'[x] \notin StageLabels
  PROVE  StageInv'
<1>1. InStage(x)' BY Zenon DEF InStage, StageLabels
<1> QED BY <1>1, StageMoves, Zenon

\* The calls of the users, wait() and the steps of a request.
LEMMA UserStage ==
  ASSUME TypeOK, LockInv, StageInv, NEW x \in Users,
         \/ RenewStep(x) \/ WaitStep(x) \/ Stop(x)
         \/ \E t \in Tasks : Schedule(x, t) \/ AsyncCancel(x, t) \/ Resume(x, t) \/ Wait(x, t)
  PROVE  StageInv'
<1> USE DEF atomics
<1>1. x \in Threads /\ x # Loop /\ ControlOK /\ state \in [Tasks -> States]
  BY ThreadsAssumption, Zenon DEF Threads, TypeOK, DataOK
<1>2. ASSUME NEW t \in Tasks, Schedule(x, t) \/ AsyncCancel(x, t) \/ Resume(x, t) \/ Wait(x, t)
      PROVE  StageInv'
  <2>1. state' = state BY <1>2, Zenon DEF Schedule, AsyncCancel, Renew, Resume, Wait
  <2>2. UNCHANGED <<pc, loc>> \/ (Moves(x) /\ pc'[x] \in {"store", "exchange", "w_attach"})
    BY <1>2, CallEdges, Zenon
  <2>3. CASE UNCHANGED <<pc, loc>> BY <2>1, <2>3, Zenon DEF StageInv, InStage, Task
  <2>4. CASE Moves(x) /\ pc'[x] \in {"store", "exchange", "w_attach"}
    <3>1. pc'[x] \notin StageLabels BY <2>4, Zenon DEF StageLabels
    <3>2. \A u \in Tasks : state'[u] \in {state[u], "Ready"} BY <2>1, Zenon
    <3> QED BY <1>1, <2>4, <3>1, <3>2, StageLeft, Zenon
  <2> QED BY <2>2, <2>3, <2>4, Zenon
<1>3. CASE \/ RenewStore(x) \/ RenewPaused(x) \/ RenewCancel(x) \/ ExchangeReady(x) \/ CommitSize(x)
           \/ Push(x) \/ Link(x) \/ RequestSet(x) \/ Return(x) \/ TryLock(x) \/ UnlockPush(x)
           \/ RenewedInplace(x) \/ Stop(x) \/ WaitStep(x)
  <2>1. state' = state \/ state' = [state EXCEPT ![Task(x)] = "Ready"]
    BY <1>3, Zenon DEF RenewStore, RenewPaused, RenewCancel, ExchangeReady, CommitSize, Push, Link,
       RequestSet, TrySet, Commit, Return, TryLock, UnlockPush, RenewedInplace, Stop, WaitStep, WaitAttach,
       WaitSpin, WaitReadState, WaitReadSem, WaitSem, WaitEnd
  <2>2. \A u \in Tasks : state'[u] \in {state[u], "Ready"} BY <1>1, <2>1, Zenon
  <2>3. loc[x].ret \in {"unguard", "return", "join"} BY <1>1, Zenon DEF ControlOK, LocalsOK, UserLocals
  <2>4. /\ Moves(x)
        /\ pc'[x] \in {"idle", "cancel", "paused", "exchange", "size", "trylock", "push", "link", "set",
                       "commit", "unguard", "return", "join", "renew", "unlock_push", "update", "w_spin",
                       "w_state", "w_pointer", "w_sem", "w_end"}
    BY <1>3, <2>3, RequestEdges, CallEdges, WaitEdges, Zenon DEF Works, WaitStep
  <2>5. pc'[x] \notin StageLabels BY <2>4, Zenon DEF StageLabels
  <2> QED BY <1>1, <2>2, <2>4, <2>5, StageLeft, Zenon
<1>4. CASE RenewInplace(x)
  <2>1. Works(x) /\ pc[x] = "renew" /\ pc'[x] \in {"renew", "x_flags", "dec"}
    BY <1>4, RequestEdges, Zenon
  <2>2. Moves(x) /\ pc[x] \in CriticalLabels BY <2>1, CriticalSet, Zenon DEF Works
  <2>3. CASE pc'[x] # "x_flags"
    <3>1. pc'[x] \notin StageLabels BY <2>1, <2>3, Zenon DEF StageLabels
    <3> QED BY <1>1, <2>2, <3>1, StageLeft, Zenon
  <2>4. CASE pc'[x] = "x_flags"
    <3>1. Task(x) \in Tasks BY <1>1, <2>1, UserTask, Zenon
    <3>2. pc' # pc BY <2>1, <2>4, Zenon
    <3>3. /\ state' = [state EXCEPT ![Task(x)] = NewState(loc[x].flags, loc[x].deadline)]
          /\ Goto(x, IF loc[x].deadline < 0 THEN "x_flags" ELSE "dec")
      BY <1>4, <3>2, Zenon DEF RenewInplace, Panic
    <3>4. loc[x].deadline < 0 BY <1>1, <2>4, <3>3, Zenon DEF Goto, ControlOK
    <3>8. loc[x].deadline \in Int BY <1>1, LocalsTyped, Zenon
    <3>9. NewState(loc[x].flags, loc[x].deadline) = "Cancelling" BY <3>4, <3>8, SMT, Z3 DEF NewState
    <3>5. state'[Task(x)] = "Cancelling" BY <1>1, <3>1, <3>3, <3>9, Zenon
    <3>6. Task(x)' = Task(x) BY <2>1, Zenon DEF Works, Task
    <3>7. InStage(x)' BY <2>4, <3>5, <3>6, Zenon DEF InStage
    <3> QED BY <1>1, <2>2, <3>7, StageMoves, Zenon
  <2> QED BY <2>3, <2>4, Zenon
<1> QED BY <1>2, <1>3, <1>4, Zenon DEF RenewStep

\* The steps that users and the event loop thread share.
LEMMA SharedStage ==
  ASSUME TypeOK, LockInv, StageInv, NEW x \in Threads, SharedStep(x)
  PROVE  StageInv'
<1> USE DEF atomics
<1>1. ControlOK /\ state \in [Tasks -> States] /\ InStage(x) BY Zenon DEF TypeOK, DataOK, StageInv
<1>2. CASE UpdateWakeup(x) \/ UpdateSet(x) \/ UpdateCheck(x) \/ Unlock(x) \/ CompleteDone(x) \/ CompletePost(x)
  <2>1. /\ Moves(x) /\ pc[x] \in {"update", "u_set", "u_commit", "u_check", "unlock", "c_done", "c_post"}
        /\ pc'[x] \in {"u_set", "u_commit", "u_check", "unlock", "unguard", "stopped", "wait", "pop", "sleep",
                       "reborn", "dec", "c_post"}
    BY <1>2, SharedEdges, Zenon DEF Works
  <2>2. pc'[x] \notin StageLabels BY <2>1, Zenon DEF StageLabels
  <2>3. pc[x] \in CriticalLabels BY <2>1, CriticalSet, Zenon
  <2> QED BY <2>1, <2>2, <2>3, StageLeft, Zenon
<1>3. CASE CancelFlags(x)
  <2>1. /\ Moves(x) /\ KeepsCall(x) /\ pc[x] = "x_flags" /\ pc'[x] = "c_start" /\ loc'[x].from = "Cancelling"
    BY <1>3, SharedEdges, Zenon
  <2>2. state' = state BY <1>3, Zenon DEF CancelFlags
  <2>3. Task(x)' = Task(x) BY <2>1, Zenon DEF KeepsCall, Task
  <2>4. InStage(x)' BY <1>1, <2>1, <2>2, <2>3, Zenon DEF InStage
  <2>5. pc[x] \in CriticalLabels BY <2>1, CriticalSet, Zenon
  <2> QED BY <2>1, <2>4, <2>5, StageMoves, Zenon
<1>4. CASE CompleteStart(x)
  <2>1. Works(x) /\ pc[x] = "c_start" /\ pc'[x] = "c_sem" BY <1>4, SharedEdges, Zenon
  <2>2. pc[x] \in StageLabels => Task(x) \in Tasks BY StageTask, Zenon
  <2>8. Task(x) \in Tasks BY <2>1, <2>2, Zenon DEF StageLabels
  <2>3. Task(x)' = Task(x) /\ Moves(x) BY <2>1, Zenon DEF Works, Task
  <2>4. state' = IF state[Task(x)] = loc[x].from THEN [state EXCEPT ![Task(x)] = "Completing"] ELSE state
    BY <1>4, Zenon DEF CompleteStart
  <2>5. state'[Task(x)] \in {"Completing", "Ready"} BY <1>1, <2>1, <2>8, <2>4, Zenon DEF InStage
  <2>6. InStage(x)' BY <2>1, <2>3, <2>5, Zenon DEF InStage
  <2>7. pc[x] \in CriticalLabels BY <2>1, CriticalSet, Zenon
  <2> QED BY <2>3, <2>6, <2>7, StageMoves, Zenon
<1>5. CASE CompleteTakeSem(x)
  <2>1. Moves(x) /\ KeepsCall(x) /\ pc[x] = "c_sem" /\ pc'[x] = "c_done" BY <1>5, SharedEdges, Zenon
  <2>2. state' = state BY <1>5, Zenon DEF CompleteTakeSem
  <2>3. Task(x)' = Task(x) BY <2>1, Zenon DEF KeepsCall, Task
  <2>4. InStage(x)' BY <1>1, <2>1, <2>2, <2>3, Zenon DEF InStage
  <2>5. pc[x] \in CriticalLabels BY <2>1, CriticalSet, Zenon
  <2> QED BY <2>1, <2>4, <2>5, StageMoves, Zenon
<1> QED BY <1>2, <1>3, <1>4, <1>5, Zenon DEF SharedStep

\* The steps of the event loop thread.
LEMMA LoopStage ==
  ASSUME TypeOK, LockInv, StageInv, LoopStep
  PROVE  StageInv'
<1> USE DEF atomics
<1>1. /\ Loop \in Threads /\ ControlOK /\ state \in [Tasks -> States] /\ InStage(Loop) /\ LoopLocals
  BY Zenon DEF TypeOK, DataOK, StageInv, Threads, ControlOK, LocalsOK
<1>2. CASE \/ LoopWake \/ LoopLock \/ FetchPop \/ FetchLoad \/ FetchAgain \/ PauseCheck \/ ExecuteContinue
           \/ RebornTask
  <2>1. /\ Moves(Loop) /\ pc[Loop] \in {"wait", "lock", "pop", "load", "recheck", "p_check", "run", "reborn"}
        /\ pc'[Loop] \in {"lock", "pop", "sleep", "update", "load", "newstate", "reborn"}
    BY <1>2, LoopEdges, Zenon DEF Works
  <2>2. pc'[Loop] \notin StageLabels BY <2>1, Zenon DEF StageLabels
  <2>3. CASE pc[Loop] \in CriticalLabels BY <1>1, <2>1, <2>2, <2>3, StageLeft, Zenon
  <2>4. CASE pc[Loop] \notin CriticalLabels
    <3>1. pc[Loop] \in {"wait", "lock"} BY <2>1, <2>4, CriticalSet, Zenon
    <3>2. LoopWake \/ LoopLock
      BY <1>2, <3>1, Zenon DEF FetchPop, FetchLoad, FetchAgain, PauseCheck, ExecuteContinue, RebornTask, At
    <3>3. state' = state BY <3>2, Zenon DEF LoopWake, LoopLock
    <3>4. \A u \in Tasks : state'[u] \in {state[u], "Ready"} BY <3>3, Zenon
    <3> QED BY <1>1, <2>1, <2>2, <3>4, StageLeft, Zenon
  <2> QED BY <2>3, <2>4, Zenon
<1>3. CASE FetchNewState
  <2>1. Moves(Loop) /\ pc[Loop] = "newstate" /\ pc'[Loop] \in {"newstate", "recheck"}
    BY <1>3, LoopEdges, Zenon
  <2>2. pc[Loop] \in CriticalLabels BY <2>1, CriticalSet, Zenon
  <2>3. CASE pc'[Loop] = "newstate"
    <3>1. pc'[Loop] \notin StageLabels BY <2>3, Zenon DEF StageLabels
    <3> QED BY <1>1, <2>1, <2>2, <3>1, StageLeft, Zenon
  <2>4. CASE pc'[Loop] = "recheck"
    <3>1. pc' # pc BY <2>1, <2>4, Zenon
    <3>2. /\ Task(Loop)' = Task(Loop) /\ loc'[Loop].from = NewState(loc[Loop].flags, loc[Loop].deadline)
      BY <1>3, <3>1, ExecuteMoves, Zenon DEF Task
    <3>3. state' = [state EXCEPT ![Task(Loop)] = NewState(loc[Loop].flags, loc[Loop].deadline)]
      BY <1>3, <3>1, Zenon DEF FetchNewState, Panic
    <3>4. Task(Loop) \in Tasks BY <1>1, <2>1, LoopTask, Zenon
    <3>5. state'[Task(Loop)] = loc'[Loop].from BY <1>1, <3>2, <3>3, <3>4, Zenon
    <3>6. InStage(Loop)' BY <2>4, <3>2, <3>5, Zenon DEF InStage
    <3> QED BY <1>1, <2>1, <2>2, <3>6, StageMoves, Zenon
  <2> QED BY <2>1, <2>3, <2>4, Zenon
<1>4. CASE FetchReady
  <2>1. Moves(Loop) /\ pc[Loop] = "recheck" /\ pc'[Loop] \in {"x_flags", "exec", "pop"}
    BY <1>4, LoopEdges, Zenon
  <2>2. pc[Loop] \in CriticalLabels BY <2>1, CriticalSet, Zenon
  <2>3. Task(Loop)' = Task(Loop) BY <1>4, ExecuteMoves, Zenon DEF Task
  <2>4. state' = state BY <1>4, Zenon DEF FetchReady
  <2>5. loc[Loop].deadline \in Int BY <1>1, LocalsTyped, Zenon
  <2>6. state[Task(Loop)] \in {NewState(loc[Loop].flags, loc[Loop].deadline), "Ready"}
    BY <1>1, <2>1, Zenon DEF InStage, LoopLocals
  <2>7. /\ pc'[Loop] = "x_flags" => loc[Loop].deadline < 0
        /\ pc'[Loop] = "exec" => /\ loc[Loop].deadline >= 0
                                 /\ IF "Paused" \in loc[Loop].flags THEN "Resumed" \in loc[Loop].flags
                                    ELSE loc[Loop].deadline = 0
    <3>1. \E l : /\ Goto(Loop, l)
                 /\ l = "x_flags" => loc[Loop].deadline < 0
                 /\ l = "exec" => /\ loc[Loop].deadline >= 0
                                  /\ IF "Paused" \in loc[Loop].flags THEN "Resumed" \in loc[Loop].flags
                                     ELSE loc[Loop].deadline = 0
      BY <1>4, SMT, Z3 DEF FetchReady
    <3> QED BY <1>1, <3>1, Zenon DEF Goto, ControlOK
  <2>8. /\ pc'[Loop] = "x_flags" => state'[Task(Loop)] \in {"Cancelling", "Ready"}
        /\ pc'[Loop] = "exec" => state'[Task(Loop)] \in {"Processing", "Ready"}
    BY <2>4, <2>5, <2>6, <2>7, SMT, Z3 DEF NewState
  <2>9. InStage(Loop)' BY <2>1, <2>3, <2>8, Zenon DEF InStage
  <2> QED BY <1>1, <2>1, <2>2, <2>9, StageMoves, Zenon
<1>5. CASE FetchSleeping
  <2>1. Moves(Loop) /\ pc[Loop] = "sleep" /\ pc'[Loop] \in {"pop", "update", "exec"}
    BY <1>5, LoopEdges, Zenon
  <2>2. pc[Loop] \in CriticalLabels BY <2>1, CriticalSet, Zenon
  <2>3. CASE pc'[Loop] \in {"pop", "update"}
    <3>1. pc'[Loop] \notin StageLabels BY <2>3, Zenon DEF StageLabels
    <3> QED BY <1>1, <2>1, <2>2, <3>1, StageLeft, Zenon
  <2>4. CASE pc'[Loop] \notin {"pop", "update"}
    <3>1. /\ pc'[Loop] = "exec" /\ sleeping_queue # <<>> /\ loc'[Loop].task = Head(sleeping_queue)
          /\ state' = [state EXCEPT ![Head(sleeping_queue)] = "Processing"]
      BY <1>5, <2>4, FetchMoves, Zenon
    <3>2. sleeping_queue \in Seq(Tasks) BY Zenon DEF TypeOK, DataOK
    <3>3. Head(sleeping_queue) \in Tasks BY <3>1, <3>2, SMT, Z3
    <3>4. state'[Head(sleeping_queue)] = "Processing" BY <1>1, <3>1, <3>3, Zenon
    <3>5. InStage(Loop)' BY <3>1, <3>4, Zenon DEF InStage, Task
    <3> QED BY <1>1, <2>1, <2>2, <3>5, StageMoves, Zenon
  <2> QED BY <2>3, <2>4, Zenon
<1>6. CASE FetchPanic \/ ExecuteBegin \/ ExecuteFinish \/ CheckRenewed \/ ExecuteOperation \/ ExecutePause
  <2>1. /\ Moves(Loop) /\ pc[Loop] \in {"recheck", "exec", "run", "renewed", "pause"}
        /\ pc[Loop] = "recheck" => pc'[Loop] = "recheck" /\ loc'[Loop].from = loc[Loop].from
        /\ pc[Loop] # "recheck" => pc'[Loop] \in {"exec", "run", "renewed", "c_start", "pause", "p_sleep"}
        /\ pc'[Loop] = "c_start" => pc[Loop] = "renewed" /\ loc'[Loop].from = loc[Loop].from
        /\ Task(Loop)' = Task(Loop)
    BY <1>6, LoopEdges, ExecuteMoves, Zenon DEF Works, Task
  <2>2. pc[Loop] \in CriticalLabels BY <2>1, CriticalSet, Zenon
  <2>3. state' = state
    BY <1>6, Zenon DEF FetchPanic, ExecuteBegin, ExecuteFinish, CheckRenewed, ExecuteOperation, ExecutePause
  <2>4. CASE pc[Loop] = "recheck"
    <3>1. InStage(Loop)' BY <1>1, <2>1, <2>3, <2>4 DEF InStage
    <3> QED BY <1>1, <2>1, <2>2, <3>1, StageMoves, Zenon
  <2>5. CASE pc[Loop] # "recheck"
    <3>1. state'[Task(Loop)] \in {"Processing", "Ready"} BY <1>1, <2>1, <2>3, <2>5, Zenon DEF InStage
    <3>2. pc'[Loop] = "c_start" => loc'[Loop].from = "Processing" BY <1>1, <2>1, Zenon DEF LoopLocals
    <3>3. InStage(Loop)' BY <2>1, <2>5, <3>1, <3>2, Zenon DEF InStage
    <3> QED BY <1>1, <2>1, <2>2, <3>3, StageMoves, Zenon
  <2> QED BY <2>4, <2>5, Zenon
<1>7. CASE PauseTask
  <2>1. Works(Loop) /\ pc[Loop] = "p_sleep" /\ pc'[Loop] \in {"p_sleep", "p_check"}
    BY <1>7, LoopEdges, Zenon
  <2>2. Moves(Loop) /\ Task(Loop)' = Task(Loop) /\ pc[Loop] \in CriticalLabels
    BY <2>1, CriticalSet, Zenon DEF Works, Task
  <2>3. CASE pc'[Loop] = "p_check"
    <3>1. pc'[Loop] \notin StageLabels BY <2>3, Zenon DEF StageLabels
    <3> QED BY <1>1, <2>2, <3>1, StageLeft, Zenon
  <2>4. CASE pc'[Loop] # "p_check"
    <3>1. ~Goto(Loop, "p_check") BY <1>1, <2>4, Zenon DEF Goto, ControlOK
    <3>2. state' = state BY <1>7, <3>1, Zenon DEF PauseTask
    <3>3. InStage(Loop)' BY <1>1, <2>1, <2>2, <2>4, <3>2, Zenon DEF InStage
    <3> QED BY <1>1, <2>2, <3>3, StageMoves, Zenon
  <2> QED BY <2>3, <2>4, Zenon
<1> QED BY <1>1, <1>2, <1>3, <1>4, <1>5, <1>6, <1>7, SharedStage DEF LoopStep

\* No task is worked on at the start.
LEMMA StageInit ==
  ASSUME Init
  PROVE  StageInv
<1>1. ASSUME NEW x \in Threads PROVE InStage(x)
  <2>1. pc[x] \in {"wait", "idle"} BY Zenon DEF Init
  <2> QED BY <2>1, Zenon DEF InStage
<1> QED BY <1>1, Zenon DEF StageInv

\* Every task that is worked on is in the state for it, whoever moves.
LEMMA StageStays ==
  ASSUME TypeOK, LockInv, StageInv, [Next]_vars
  PROVE  StageInv'
<1>1. CASE UNCHANGED <<state, pc, loc>> BY <1>1, Zenon DEF StageInv, InStage, Task
<1>2. Tick \/ UNCHANGED vars => UNCHANGED <<state, pc, loc>> BY Zenon DEF Tick, vars, atomics
<1>3. ASSUME NEW x \in Users, SharedStep(x) PROVE StageInv'
  <2>1. x \in Threads BY Zenon DEF Threads
  <2> QED BY <1>3, <2>1, SharedStage, Zenon
<1> QED BY <1>1, <1>2, <1>3, UserStage, LoopStage, Zenon DEF Next, Terminated, UserStep

-----------------------------------------------------------------------------
(***************************************************************************)
(* The way of a request.                                                   *)
(***************************************************************************)
\* Places of a thread that moves its task on, and of one that sees to it that the
\* latest deadline of its task gets into effect.
MovingLabels == {"recheck", "x_flags", "exec", "run", "renewed", "pause", "p_sleep", "reborn",
                 "c_start", "c_sem", "c_done"}
Renewing(x) ==
    \/ pc[x] \in {"store", "cancel", "paused", "exchange", "recheck", "renewed", "reborn"}
    \/ pc[x] \in CompleteLabels /\ loc[x].ret = "reborn"

\* The latest deadline of the task, or its cancellation while it sleeps, is not in
\* effect and ought to be.
Stale(t) ==
    /\ effective_version[t] # version[t]
    /\ "Paused" \notin flags[t] /\ ~PausingCancelled(t)
    /\ renewed_deadline[t] >= 0 \/ state[t] = "Sleeping"

\* A task neither stays in a state that is none to rest in nor with a deadline of
\* old unless it is ready or some thread works on it.
BusyOK(t) ==
    state[t] \in {"Cancelling", "Processing", "Completing"} =>
        \E x \in Threads : Task(x) = t /\ pc[x] \in MovingLabels
StaleOK(t) == Stale(t) => state[t] = "Ready" \/ \E x \in Threads : Task(x) = t /\ Renewing(x)
Progress(t) == BusyOK(t) /\ StaleOK(t)

\* Where complete_task_(), pause_task_() and reborn_task_() find their task:
\* execute_task_() calls the last one also for a task that it has paused.
EndOK(x) ==
    /\ pc[x] = "c_post" => state[Task(x)] \in {"Completed", "Ready"}
    /\ pc[x] = "p_check" => state[Task(x)] \in {"Sleeping", "Ready"} /\ "Paused" \in flags[Task(x)]
    /\ pc[x] = "reborn" => \/ state[Task(x)] \in {loc[x].from, "Ready"}
                           \/ state[Task(x)] = "Sleeping" /\ "Paused" \in flags[Task(x)]

ProgressInv == (\A t \in Tasks : Progress(t)) /\ \A x \in Threads : EndOK(x)

\* A step that lets no other thread find its task otherwise.
LetsEnd(x) ==
    pc[x] \in CriticalLabels \/
        \A t \in Tasks : state'[t] \in {state[t], "Ready"} /\ ("Paused" \in flags[t] => "Paused" \in flags'[t])

\* complete_task_(), pause_task_() and reborn_task_() run under the lock.
LEMMA EndKept ==
  ASSUME TypeOK, LockInv, ProgressInv, NEW x \in Threads, Moves(x), LetsEnd(x), NEW y \in Threads, y # x
  PROVE  EndOK(y)'
<1>1. pc'[y] = pc[y] /\ loc'[y] = loc[y] /\ EndOK(y) BY Zenon DEF ProgressInv, Moves
<1>2. CASE pc[y] \notin {"c_post", "p_check", "reborn"} BY <1>1, <1>2, Zenon DEF EndOK
<1>3. CASE pc[y] \in {"c_post", "p_check", "reborn"}
  <2>1. pc[y] \in CriticalLabels BY <1>3, CriticalSet, Zenon
  <2>2. pc[x] \notin CriticalLabels BY <2>1, OneInside, Zenon
  <2>3. Task(y) \in Tasks
    <3>1. CASE y = Loop BY <1>3, <3>1, LoopTask, Zenon DEF TypeOK
    <3>2. CASE y # Loop
      <4>1. y \in Users /\ pc[y] \notin {"idle", "set", "commit", "join"} BY <1>3, <3>2, Zenon DEF Threads
      <4> QED BY <4>1, UserTask, Zenon DEF TypeOK
    <3> QED BY <3>1, <3>2, Zenon
  <2>4. /\ state'[Task(y)] \in {state[Task(y)], "Ready"} /\ Task(y)' = Task(y)
        /\ "Paused" \in flags[Task(y)] => "Paused" \in flags'[Task(y)]
    BY <1>1, <2>2, <2>3, Zenon DEF Task, LetsEnd
  <2> QED BY <1>1, <2>4, Zenon DEF EndOK
<1> QED BY <1>2, <1>3, Zenon

\* A step that changes one task, or none: the others go on as before.
LEMMA ProgressOf ==
  ASSUME TypeOK, LockInv, ProgressInv, NEW x \in Threads, Moves(x), NEW t \in Tasks,
         \A s \in Tasks \ {t} : state'[s] = state[s] /\ (Stale(s)' => Stale(s)),
         LetsEnd(x),
         Task(x) = t \/ (pc[x] \notin MovingLabels /\ ~Renewing(x)),
         Progress(t)', EndOK(x)'
  PROVE  ProgressInv'
<1>1. \A y \in Threads \ {x} : pc'[y] = pc[y] /\ loc'[y] = loc[y] BY Zenon DEF Moves
<1>2. ASSUME NEW s \in Tasks, s # t PROVE Progress(s)'
  <2>1. Progress(s) /\ state'[s] = state[s] /\ (Stale(s)' => Stale(s)) BY <1>2, Zenon DEF ProgressInv
  <2>2. \A y \in Threads : Task(y) = s /\ pc[y] \in MovingLabels => Task(y)' = s /\ pc'[y] \in MovingLabels
    BY <1>1, <1>2, Zenon DEF Task
  <2>3. \A y \in Threads : Task(y) = s /\ Renewing(y) => Task(y)' = s /\ Renewing(y)'
    BY <1>1, <1>2, Zenon DEF Task, Renewing
  <2> QED BY <2>1, <2>2, <2>3, Zenon DEF Progress, BusyOK, StaleOK
<1>3. ASSUME NEW y \in Threads, y # x PROVE EndOK(y)' BY <1>3, EndKept, Zenon
<1> QED BY <1>2, <1>3, Zenon DEF ProgressInv

\* A thread that moved a task on does so after its step, or the state is another one.
LEMMA BusyKept ==
  ASSUME ProgressInv, NEW x \in Threads, Moves(x), NEW t \in Tasks, state'[t] \in {state[t], "Ready"},
         Task(x) = t /\ pc[x] \in MovingLabels => pc'[x] \in MovingLabels /\ loc'[x].task = loc[x].task
  PROVE  BusyOK(t)'
<1>1. BusyOK(t) BY Zenon DEF ProgressInv, Progress
<1>2. \A y \in Threads : Task(y) = t /\ pc[y] \in MovingLabels => Task(y)' = t /\ pc'[y] \in MovingLabels
  BY Zenon DEF Moves, Task
<1> QED BY <1>1, <1>2, Zenon DEF BusyOK

\* A thread that saw to the latest deadline does so after its step.
LEMMA StaleKept ==
  ASSUME ProgressInv, NEW x \in Threads, Moves(x), NEW t \in Tasks, Stale(t)' => Stale(t),
         state[t] = "Ready" => state'[t] = "Ready",
         Task(x) = t /\ Renewing(x) => Renewing(x)' /\ loc'[x].task = loc[x].task
  PROVE  StaleOK(t)'
<1>1. StaleOK(t) BY Zenon DEF ProgressInv, Progress
<1>2. \A y \in Threads : Task(y) = t /\ Renewing(y) => Task(y)' = t /\ Renewing(y)'
  BY Zenon DEF Moves, Task, Renewing
<1> QED BY <1>1, <1>2, Zenon DEF StaleOK

\* A step that changes no task: the thread goes on with what it has begun.
LEMMA ProgressAside ==
  ASSUME TypeOK, LockInv, ProgressInv, NEW x \in Threads, Moves(x), UNCHANGED state, LetsEnd(x),
         \A t \in Tasks : Stale(t)' => Stale(t),
         pc[x] \in MovingLabels => pc'[x] \in MovingLabels /\ loc'[x].task = loc[x].task,
         Renewing(x) => Renewing(x)' /\ loc'[x].task = loc[x].task,
         EndOK(x)'
  PROVE  ProgressInv'
<1>1. ASSUME NEW t \in Tasks PROVE Progress(t)' BY BusyKept, StaleKept, Zenon DEF Progress
<1>2. ASSUME NEW y \in Threads, y # x PROVE EndOK(y)' BY <1>2, EndKept, Zenon
<1> QED BY <1>1, <1>2, Zenon DEF ProgressInv

\* A step that changes nothing the invariant speaks of.
LEMMA ProgressSame ==
  ASSUME ProgressInv, UNCHANGED <<kind, state, flags, renewed_deadline, version, effective_version, pc, loc>>
  PROVE  ProgressInv'
<1>1. \A t \in Tasks : Stale(t)' <=> Stale(t) BY Zenon DEF Stale, PausingCancelled
<1>2. \A x \in Threads : Task(x)' = Task(x) /\ (Renewing(x)' <=> Renewing(x)) BY Zenon DEF Task, Renewing
<1>3. \A x \in Threads : EndOK(x)' BY <1>2, Zenon DEF ProgressInv, EndOK
<1> QED BY <1>1, <1>2, <1>3, ZenonT(30) DEF ProgressInv, Progress, BusyOK, StaleOK

\* A step of a thread that works on nothing, before or after it.
LEMMA ProgressRest ==
  ASSUME TypeOK, LockInv, ProgressInv, NEW x \in Threads, Moves(x), UNCHANGED state, LetsEnd(x),
         \A t \in Tasks : Stale(t)' => Stale(t),
         pc[x] \notin {"store", "cancel", "paused", "exchange"} \cup MovingLabels \cup CompleteLabels,
         pc'[x] \notin {"c_post", "p_check", "reborn"}
  PROVE  ProgressInv'
<1>1. ~Renewing(x) /\ pc[x] \notin MovingLabels BY Zenon DEF Renewing, MovingLabels
<1>2. EndOK(x)' BY Zenon DEF EndOK
<1> QED BY <1>1, <1>2, ProgressAside, Zenon

\* Nothing happens to the deadlines of a task that does not fall asleep and, once it
\* is cancelled or completed, does not begin again.
LEMMA StaleMoved ==
  ASSUME NEW t \in Tasks, kind' = kind, flags'[t] = flags[t], renewed_deadline'[t] = renewed_deadline[t],
         version'[t] = version[t], effective_version'[t] = effective_version[t],
         \/ state'[t] = state[t]
         \/ state'[t] \in {"Completing", "Completed"}
         \/ state'[t] # "Sleeping" /\ state[t] \notin {"Cancelling", "Completing", "Completed"}
  PROVE  Stale(t)' => Stale(t)
BY Zenon DEF Stale, PausingCancelled

\* Nothing happens to the tasks.
LEMMA StaleSame ==
  ASSUME UNCHANGED <<kind, state, flags, renewed_deadline, version, effective_version>>
  PROVE  (\A t \in Tasks : Stale(t)' => Stale(t)) /\ \A x \in Threads : LetsEnd(x)
BY Zenon DEF Stale, PausingCancelled, LetsEnd

\* The calls of the users and the steps of wait(); schedule() has a new deadline to
\* store.
LEMMA CallProgress ==
  ASSUME TypeOK, LockInv, ProgressInv, kind' = kind, NEW x \in Users,
         \/ \E t \in Tasks : Schedule(x, t) \/ AsyncCancel(x, t) \/ Resume(x, t) \/ Wait(x, t)
         \/ Stop(x) \/ WaitStep(x) \/ Return(x)
  PROVE  ProgressInv'
<1>1. x \in Threads BY Zenon DEF Threads
<1>2. ASSUME NEW t \in Tasks, Schedule(x, t) \/ AsyncCancel(x, t) PROVE ProgressInv'
  <2>1. pc[x] = "idle"
        /\ (UNCHANGED <<pc, loc>> \/ (Moves(x) /\ pc'[x] = "store" /\ loc'[x].task = t))
    BY <1>2, CallEdges, Zenon
  <2>2. PICK d \in Int : Renew(x, t, d) BY <1>2, BoundsAssumption, SMT, Z3 DEF Schedule, AsyncCancel
  <2>3. UNCHANGED <<state, flags, renewed_deadline, effective_version>> BY <2>2, Zenon DEF Renew, effective
  <2>4. CASE UNCHANGED <<version, pc, loc>> BY <2>3, <2>4, ProgressSame, Zenon
  <2>5. CASE version' = [version EXCEPT ![t] = @ + 1] /\ pc'[x] = "store"
    <3>1. Moves(x) /\ loc'[x].task = t BY <2>1, <2>5, Zenon
    <3>2. \A s \in Tasks \ {t} : version'[s] = version[s] BY <2>5, Zenon DEF TypeOK, DataOK
    <3>3. \A s \in Tasks \ {t} : state'[s] = state[s] /\ (Stale(s)' => Stale(s)) 
      BY <2>3, <3>2, Zenon DEF Stale, PausingCancelled
    <3>4. pc[x] \notin MovingLabels /\ ~Renewing(x) BY <2>1, Zenon DEF MovingLabels, Renewing, CompleteLabels
    <3>5. BusyOK(t)' BY <1>1, <2>3, <3>1, <3>4, BusyKept, Zenon
    <3>6. StaleOK(t)' BY <1>1, <2>5, <3>1, Zenon DEF StaleOK, Task, Renewing
    <3>7. EndOK(x)' /\ LetsEnd(x) BY <2>3, <2>5, Zenon DEF EndOK, LetsEnd
    <3> QED BY <1>1, <2>3, <3>1, <3>3, <3>4, <3>5, <3>6, <3>7, ProgressOf DEF Progress
  <2>6. UNCHANGED <<version, pc, loc>> \/ (version' = [version EXCEPT ![t] = @ + 1] /\ pc'[x] = "store")
    <3>1. pc \in [Threads -> UserLabels \cup LoopLabels] BY Zenon DEF TypeOK, ControlOK
    <3> QED BY <1>1, <2>2, <3>1, Zenon DEF Renew, Goto
  <2> QED BY <2>4, <2>5, <2>6, Zenon
<1>3. ASSUME NEW t \in Tasks, Resume(x, t) \/ Wait(x, t) PROVE ProgressInv'
  <2>1. pc[x] = "idle"
        /\ (UNCHANGED <<pc, loc>> \/ (Moves(x) /\ pc'[x] \in {"exchange", "w_attach"}))
    BY <1>3, CallEdges, Zenon
  <2>2. UNCHANGED <<state, renewed_deadline, version, effective_version>>
    BY <1>3, Zenon DEF Resume, Wait, atomics, effective
  <2>3. \A s \in Tasks : /\ "Paused" \in flags[s] => "Paused" \in flags'[s]
                         /\ "Cancelled" \in flags[s] => "Cancelled" \in flags'[s]
    <3>1. flags' = flags \/ flags' = [flags EXCEPT ![t] = flags[t] \cup {"Resumed"}]
      BY <1>3, Zenon DEF Resume, Wait, atomics
    <3>2. flags \in [Tasks -> SUBSET Flags] BY Zenon DEF TypeOK, DataOK
    <3> QED BY <3>1, <3>2, Zenon
  <2>4. LetsEnd(x) /\ \A s \in Tasks : Stale(s)' => Stale(s)
    BY <2>2, <2>3, Zenon DEF LetsEnd, Stale, PausingCancelled
  <2>5. Moves(x) /\ pc'[x] \in {"idle", "exchange", "w_attach"} BY <2>1, Zenon DEF Moves, TypeOK, ControlOK
  <2> QED BY <1>1, <2>1, <2>2, <2>4, <2>5, ProgressRest, Zenon DEF MovingLabels, CompleteLabels
<1>4. ASSUME Stop(x) \/ WaitStep(x) \/ Return(x) PROVE ProgressInv'
  <2>1. /\ Moves(x) /\ pc[x] \in {"idle", "unguard", "return"} \cup WaitLabels
        /\ pc'[x] \in {"set", "idle"} \cup WaitLabels
    <3>1. Stop(x) => Moves(x) /\ pc[x] = "idle" /\ pc'[x] = "set" BY CallEdges, Zenon
    <3>2. Return(x) => Moves(x) /\ pc[x] \in {"unguard", "return"} /\ pc'[x] = "idle" BY RequestEdges, Zenon
    <3>3. WaitStep(x) => Moves(x) /\ pc[x] \in WaitLabels /\ pc'[x] \in {"idle"} \cup WaitLabels
      BY WaitEdges, Zenon DEF WaitStep, Works, WaitLabels
    <3> QED BY <1>4, <3>1, <3>2, <3>3, Zenon
  <2>2. UNCHANGED <<state, flags, renewed_deadline, version, effective_version>>
    BY <1>4, Zenon DEF Stop, WaitStep, WaitAttach, WaitSpin, WaitReadState, WaitReadSem, WaitSem, WaitEnd, Return,
                atomics, effective
  <2> QED BY <1>1, <2>1, <2>2, StaleSame, ProgressRest, Zenon DEF MovingLabels, CompleteLabels, WaitLabels
<1> QED BY <1>2, <1>3, <1>4, Zenon

\* The steps of a request that leave the task as it is.
LEMMA QueueProgress ==
  ASSUME TypeOK, LockInv, ProgressInv, kind' = kind, NEW x \in Users,
         \/ CommitSize(x) \/ Push(x) \/ Link(x) \/ RequestSet(x) \/ TryLock(x) \/ UnlockPush(x)
         \/ RenewedInplace(x)
  PROVE  ProgressInv'
<1>1. x \in Threads BY Zenon DEF Threads
<1>2. /\ Moves(x) /\ pc[x] \in {"size", "push", "link", "set", "commit", "trylock", "unlock_push", "dec"}
      /\ pc'[x] \notin {"c_post", "p_check", "reborn"}
  <2>1. /\ Moves(x) /\ pc[x] \in {"size", "push", "link", "set", "commit", "trylock", "unlock_push", "dec"}
        /\ pc'[x] \in {"trylock", "push", "link", "set", "commit", "unguard", "return", "join", "renew",
                       "unlock_push", "update"}
    BY RequestEdges, Zenon DEF Works
  <2> QED BY <2>1, Zenon
<1>3. UNCHANGED <<state, flags, renewed_deadline, version, effective_version>>
  BY Zenon DEF CommitSize, Push, Link, RequestSet, TrySet, Commit, TryLock, UnlockPush, RenewedInplace, atomics, effective
<1> QED BY <1>1, <1>2, <1>3, StaleSame, ProgressRest, Zenon DEF MovingLabels, CompleteLabels

\* The deadline is stored, and the task moved to the ready queue unless it is
\* paused or, when it is cancelled, does not sleep.
LEMMA StoreProgress ==
  ASSUME TypeOK, LockInv, RequestInv, ProgressInv, kind' = kind, NEW x \in Users,
         RenewStore(x) \/ RenewCancel(x) \/ RenewPaused(x) \/ ExchangeReady(x)
  PROVE  ProgressInv'
<1>1. x \in Threads /\ x # Loop /\ pc[x] \in {"store", "cancel", "paused", "exchange"}
  BY ThreadsAssumption, RequestEdges, Zenon DEF Threads
<1>2. /\ Works(x) /\ Moves(x) /\ loc'[x].task = loc[x].task
      /\ pc'[x] \in {"cancel", "paused", "size", "unguard", "exchange", "return"}
  <2>1. loc[x].ret \in {"unguard", "return"} BY <1>1, UserTask, Zenon DEF TypeOK
  <2> QED BY <2>1, RequestEdges, Zenon DEF Works
<1>3. Task(x) \in Tasks BY <1>1, UserTask, Zenon DEF TypeOK
<1> PICK t \in Tasks : t = Task(x) BY <1>3, Zenon
<1>4. Task(x)' = t BY <1>2, Zenon DEF Task
<1>5. pc[x] \notin MovingLabels /\ EndOK(x)' BY <1>1, <1>2, Zenon DEF MovingLabels, EndOK
<1>6. UNCHANGED <<flags, effective_version>>
  BY Zenon DEF RenewStore, RenewCancel, RenewPaused, ExchangeReady, atomics, effective
<1>7. /\ state \in [Tasks -> States] /\ version \in [Tasks -> Int] /\ renewed_deadline \in [Tasks -> Int]
      /\ pc \in [Threads -> UserLabels \cup LoopLabels] /\ loc[x].deadline \in Int
  BY <1>1, LocalsTyped, Zenon DEF TypeOK, DataOK, ControlOK
<1>8. ASSUME RenewStore(x) PROVE ProgressInv'
  <2>1. UNCHANGED state BY <1>8, Zenon DEF RenewStore
  <2>2. /\ renewed_deadline' = [renewed_deadline EXCEPT ![t] = loc[x].deadline]
        /\ version' = [version EXCEPT ![t] = @ + 1]
        /\ pc'[x] = IF loc[x].deadline < 0 THEN "cancel" ELSE "paused"
    BY <1>1, <1>7, <1>8, Zenon DEF RenewStore, Goto
  <2>3. \A s \in Tasks \ {t} : state'[s] = state[s] /\ (Stale(s)' => Stale(s))
    BY <1>6, <1>7, <2>1, <2>2, StaleMoved, Zenon
  <2>4. BusyOK(t)' BY <1>1, <1>2, <1>5, <2>1, BusyKept, Zenon
  <2>5. StaleOK(t)'
    <3>1. Renewing(x)' BY <2>2, Zenon DEF Renewing
    <3> QED BY <1>1, <1>4, <3>1, Zenon DEF StaleOK
  <2>6. LetsEnd(x) BY <1>6, <2>1, Zenon DEF LetsEnd
  <2> QED BY <1>1, <1>2, <1>5, <2>3, <2>4, <2>5, <2>6, ProgressOf, Zenon DEF Progress
<1>9. ASSUME ~RenewStore(x) PROVE UNCHANGED <<renewed_deadline, version>>
  BY <1>9, Zenon DEF RenewCancel, RenewPaused, ExchangeReady, atomics
<1>10. ASSUME RenewPaused(x) PROVE ProgressInv'
  <2>1. UNCHANGED <<state, renewed_deadline, version>> BY <1>10, Zenon DEF RenewPaused, atomics
  <2>2. LetsEnd(x) /\ \A s \in Tasks : Stale(s)' => Stale(s) BY <1>1, <1>6, <2>1, StaleSame, Zenon
  <2>3. pc'[x] = IF "Paused" \in flags[t] THEN "unguard" ELSE "exchange"
    BY <1>1, <1>7, <1>10, Zenon DEF RenewPaused, Goto
  <2>4. BusyOK(t)' BY <1>1, <1>2, <1>5, <2>1, BusyKept, Zenon
  <2>5. StaleOK(t)'
    <3>1. CASE "Paused" \in flags[t] BY <1>6, <3>1, Zenon DEF StaleOK, Stale
    <3>2. CASE "Paused" \notin flags[t]
      <4>1. Renewing(x)' BY <2>3, <3>2, Zenon DEF Renewing
      <4> QED BY <1>1, <1>4, <4>1 DEF StaleOK
    <3> QED BY <3>1, <3>2, Zenon
  <2> QED BY <1>1, <1>2, <1>5, <2>1, <2>2, <2>4, <2>5, ProgressOf, Zenon DEF Progress
<1>11. ASSUME RenewCancel(x) \/ ExchangeReady(x), state' = [state EXCEPT ![t] = "Ready"] PROVE ProgressInv'
  <2>1. state'[t] = "Ready" /\ \A s \in Tasks \ {t} : state'[s] = state[s] BY <1>7, <1>11, Zenon
  <2>2. ~RenewStore(x)
    <3>1. pc[x] # "store" BY <1>11, RequestEdges, Zenon
    <3> QED BY <3>1, Zenon DEF RenewStore, At
  <2>3. LetsEnd(x) /\ \A s \in Tasks \ {t} : Stale(s)' => Stale(s)
    BY <1>6, <1>9, <2>1, <2>2, StaleMoved, Zenon DEF LetsEnd
  <2>4. BusyOK(t)' /\ StaleOK(t)' BY <2>1, Zenon DEF BusyOK, StaleOK
  <2> QED BY <1>1, <1>2, <1>5, <2>1, <2>3, <2>4, ProgressOf, Zenon DEF Progress
<1>12. ASSUME RenewCancel(x), UNCHANGED state PROVE ProgressInv'
  <2>1. pc[x] = "cancel" /\ ~RenewStore(x) BY <1>12, Zenon DEF RenewCancel, RenewStore, At
  <2>2. LetsEnd(x) /\ \A s \in Tasks : Stale(s)' => Stale(s) BY <1>1, <1>6, <1>9, <1>12, <2>1, StaleSame, Zenon
  <2>3. state[t] # "Sleeping"
    <3>1. state[t] = "Sleeping" => state' = [state EXCEPT ![t] = "Ready"] BY <1>12, Zenon DEF RenewCancel
    <3> QED BY <1>7, <1>12, <3>1, Zenon
  <2>4. loc[x].deadline < 0 /\ renewed_deadline[t] = loc[x].deadline
    BY <1>1, <2>1, GuardSet, Zenon DEF RequestInv, RequestOK, GuardOK, Loaded, StoredLabels
  <2>5. ~Stale(t)'
    <3>1. ~(renewed_deadline[t] >= 0) BY <1>7, <2>4, SMT, Z3
    <3> QED BY <1>9, <1>12, <2>1, <2>3, <3>1, Zenon DEF Stale
  <2>6. BusyOK(t)' BY <1>1, <1>2, <1>5, <1>12, BusyKept, Zenon
  <2> QED BY <1>1, <1>2, <1>5, <1>12, <2>2, <2>5, <2>6, ProgressOf, Zenon DEF Progress, StaleOK
<1>13. RenewCancel(x) => UNCHANGED state \/ state' = [state EXCEPT ![t] = "Ready"] BY Zenon DEF RenewCancel
<1>14. ExchangeReady(x) => state' = [state EXCEPT ![t] = "Ready"] BY Zenon DEF ExchangeReady
<1> QED BY <1>8, <1>10, <1>11, <1>12, <1>13, <1>14, Zenon

\* The latest deadline gets into effect without the event loop thread.
LEMMA InplaceProgress ==
  ASSUME TypeOK, LockInv, TasksInv, RequestInv, ProgressInv, kind' = kind, NEW x \in Users, RenewInplace(x)
  PROVE  ProgressInv'
<1>1. /\ x \in Threads /\ x # Loop /\ Works(x) /\ Moves(x) /\ pc[x] = "renew"
      /\ pc'[x] \in {"renew", "x_flags", "dec"} /\ loc'[x].task = loc[x].task
  BY ThreadsAssumption, RequestEdges, Zenon DEF Threads, Works
<1>2. /\ Task(x) \in Tasks /\ loc[x].deadline # 0 /\ loc[x].deadline = renewed_deadline[Task(x)]
      /\ loc[x].version = version[Task(x)]
  BY <1>1, GuardSet, Zenon DEF RequestInv, RequestOK, GuardOK, Loaded, StoredLabels
<1> PICK t \in Tasks : t = Task(x) BY <1>2, Zenon
<1> PICK d \in Int : d = loc[x].deadline BY <1>1, LocalsTyped, Zenon DEF TypeOK
<1>3. Task(x)' = t BY <1>1, Zenon DEF Task
<1>4. UNCHANGED <<flags, renewed_deadline, version>> BY Zenon DEF RenewInplace
<1>5. CASE UNCHANGED <<state, effective, pc, loc>>
  <2>1. UNCHANGED <<state, effective_version, pc, loc>> BY <1>5, Zenon DEF effective
  <2> QED BY <1>4, <2>1, ProgressSame, Zenon
<1>6. CASE /\ state' = [state EXCEPT ![t] = NewState(loc[x].flags, d)]
           /\ effective_version' = [effective_version EXCEPT ![t] = loc[x].version]
           /\ pc'[x] = IF d < 0 THEN "x_flags" ELSE "dec"
  <2>1. state \in [Tasks -> States] /\ effective_version \in [Tasks -> Int] BY Zenon DEF TypeOK, DataOK
  <2>2. /\ state'[t] = NewState(loc[x].flags, d) /\ effective_version'[t] = version[t]
        /\ \A s \in Tasks \ {t} : state'[s] = state[s] /\ effective_version'[s] = effective_version[s]
    BY <1>2, <1>6, <2>1, Zenon
  <2>3. \A s \in Tasks \ {t} : state'[s] = state[s] /\ (Stale(s)' => Stale(s))
    BY <1>4, <2>2, StaleMoved, Zenon
  <2>4. StaleOK(t)' BY <1>4, <2>2, Zenon DEF StaleOK, Stale
  <2>5. BusyOK(t)'
    <3>1. CASE d < 0
      <4>1. pc'[x] \in MovingLabels BY <1>6, <3>1, Zenon DEF MovingLabels
      <4> QED BY <1>1, <1>3, <4>1, Zenon DEF BusyOK
    <3>2. CASE d > 0
      <4>1. "Paused" \notin loc[x].flags BY <1>1, <3>2, SMT, Z3 DEF TasksInv, ThreadOK
      <4>2. state'[t] = "Sleeping" BY <2>2, <3>2, <4>1, SMT, Z3 DEF NewState
      <4> QED BY <4>2, Zenon DEF BusyOK
    <3> QED BY <1>2, <3>1, <3>2, SMT, Z3
  <2>6. LetsEnd(x) /\ EndOK(x)' BY <1>1, CriticalSet, Zenon DEF LetsEnd, EndOK
  <2> QED BY <1>1, <2>3, <2>4, <2>5, <2>6, ProgressOf, Zenon DEF Progress
<1>7. \/ UNCHANGED <<state, effective, pc, loc>>
      \/ /\ state' = [state EXCEPT ![t] = NewState(loc[x].flags, d)]
         /\ effective_version' = [effective_version EXCEPT ![t] = loc[x].version]
         /\ pc' = [pc EXCEPT ![x] = IF d < 0 THEN "x_flags" ELSE "dec"]
  BY Zenon DEF RenewInplace, Panic, CancelTask, RescheduleTask, Goto
<1>8. pc \in [Threads -> UserLabels \cup LoopLabels] BY Zenon DEF TypeOK, ControlOK
<1> QED BY <1>1, <1>5, <1>6, <1>7, <1>8, Zenon

\* The end of a completion, and the timer.
LEMMA SharedProgress ==
  ASSUME TypeOK, LockInv, StageInv, RequestInv, ProgressInv, kind' = kind, NEW x \in Threads, SharedStep(x)
  PROVE  ProgressInv'
<1>1. ASSUME UpdateWakeup(x) \/ UpdateSet(x) \/ UpdateCheck(x) \/ Unlock(x) PROVE ProgressInv'
  <2>1. /\ Moves(x) /\ pc[x] \in {"update", "u_set", "u_commit", "u_check", "unlock"}
        /\ pc'[x] \in {"u_set", "u_commit", "u_check", "unlock", "pop", "sleep", "stopped", "wait", "unguard"}
    BY <1>1, SharedEdges, Zenon DEF Works
  <2>2. UNCHANGED <<state, flags, renewed_deadline, version, effective_version>>
    BY <1>1, Zenon DEF UpdateWakeup, UpdateSet, TrySet, Commit, UpdateCheck, Unlock, atomics, effective
  <2> QED BY <2>1, <2>2, StaleSame, ProgressRest, Zenon DEF MovingLabels, CompleteLabels
<1>2. ASSUME CancelFlags(x) \/ CompleteStart(x) \/ CompleteTakeSem(x) \/ CompleteDone(x) \/ CompletePost(x)
      PROVE  ProgressInv'
  <2>1. /\ Moves(x) /\ loc'[x].task = loc[x].task /\ loc'[x].ret = loc[x].ret
        /\ pc[x] \in {"x_flags", "c_start", "c_sem", "c_done", "c_post"}
    <3>1. CompleteStart(x) => Works(x) /\ pc[x] = "c_start" BY SharedEdges, Zenon
    <3>2. CASE ~CompleteStart(x)
      <4>1. Moves(x) /\ KeepsCall(x) /\ pc[x] \in {"x_flags", "c_sem", "c_done", "c_post"} BY <1>2, <3>2, SharedEdges, Zenon
      <4> QED BY <4>1, Zenon DEF KeepsCall
    <3> QED BY <3>1, <3>2, Zenon DEF Works
  <2>2. Task(x) \in Tasks /\ (x = Loop => loc[x].ret \in {"pop", "sleep", "reborn"})
    BY <2>1, CompletingTask, Zenon DEF TypeOK, CompleteLabels
  <2> PICK t \in Tasks : t = Task(x) BY <2>2, Zenon
  <2>3. Task(x)' = t /\ LetsEnd(x) BY <2>1, CriticalSet, Zenon DEF Task, LetsEnd
  <2>4. UNCHANGED <<renewed_deadline, version, effective_version>>
    BY <1>2, Zenon DEF CancelFlags, CompleteStart, CompleteTakeSem, CompleteDone, CompletePost, atomics, effective
  <2>5. state \in [Tasks -> States] /\ flags \in [Tasks -> SUBSET Flags] BY Zenon DEF TypeOK, DataOK
  <2>6. CASE CancelFlags(x)
    <3>1. pc[x] = "x_flags" /\ pc'[x] = "c_start" BY <2>6, SharedEdges, Zenon
    <3>2. UNCHANGED state /\ flags' = [flags EXCEPT ![t] = {"Cancelled"}] BY <2>6, Zenon DEF CancelFlags
    <3>3. flags'[t] = {"Cancelled"} /\ \A s \in Tasks \ {t} : flags'[s] = flags[s] BY <2>5, <3>2, Zenon
    <3>4. \A s \in Tasks \ {t} : state'[s] = state[s] /\ (Stale(s)' => Stale(s))
      BY <2>4, <3>2, <3>3, StaleMoved, Zenon
    <3>5. ~Renewing(x) /\ pc'[x] \in MovingLabels /\ EndOK(x)'
      BY <3>1, Zenon DEF Renewing, CompleteLabels, MovingLabels, EndOK
    <3>6. BusyOK(t)' BY <2>1, <3>2, <3>5, BusyKept, Zenon
    <3>7. state[t] \in {"Cancelling", "Ready"} BY <3>1, Zenon DEF StageInv, InStage
    <3>8. StaleOK(t)'
      <4>1. CASE state[t] = "Ready" BY <3>2, <4>1, Zenon DEF StaleOK
      <4>2. CASE state[t] = "Cancelling" /\ kind[t] = "pausing"
        BY <3>2, <3>3, <4>2, Zenon DEF StaleOK, Stale, PausingCancelled
      <4>3. CASE kind[t] = "plain"
        <5>1. "Paused" \notin flags[t] BY <4>3, Zenon DEF RequestInv, Requested
        <5>2. Stale(t)' => Stale(t) BY <2>4, <3>2, <4>3, <5>1, Zenon DEF Stale, PausingCancelled
        <5> QED BY <2>1, <3>2, <3>5, <5>2, StaleKept, Zenon
      <4>4. kind[t] \in {"plain", "pausing"} BY Zenon DEF TypeOK, DataOK
      <4> QED BY <3>7, <4>1, <4>2, <4>3, <4>4, Zenon
    <3> QED BY <2>1, <2>3, <3>4, <3>5, <3>6, <3>8, ProgressOf, Zenon DEF Progress
  <2>7. ASSUME ~CancelFlags(x) PROVE flags' = flags
    BY <1>2, <2>7, Zenon DEF CompleteStart, CompleteTakeSem, CompleteDone, CompletePost, atomics
  <2>8. pc'[x] \in CompleteLabels /\ Renewing(x) => Renewing(x)' BY <2>1, Zenon DEF Renewing, CompleteLabels
  <2>9. CASE CompleteStart(x) \/ CompleteDone(x)
    <3>1. \/ pc[x] = "c_start" /\ pc'[x] = "c_sem"
          \/ pc[x] = "c_done" /\ pc'[x] = "c_post"
      BY <2>9, SharedEdges, Zenon
    <3>2. flags' = flags BY <2>7, <3>1, Zenon DEF CancelFlags, At
    <3>3. \/ state' = state
          \/ CompleteStart(x) /\ state[t] = loc[x].from /\ state' = [state EXCEPT ![t] = "Completing"]
          \/ CompleteDone(x) /\ state[t] = "Completing" /\ state' = [state EXCEPT ![t] = "Completed"]
      BY <2>9, Zenon DEF CompleteStart, CompleteDone
    <3>4. /\ \A s \in Tasks \ {t} : state'[s] = state[s]
          /\ state[t] = "Ready" /\ state'[t] # "Ready" => CompleteStart(x) /\ state[t] = loc[x].from
      BY <2>5, <3>3, Zenon
    <3>5. CompleteStart(x) => loc[x].from # "Ready"
      <4>1. CASE x = Loop BY <3>1, <4>1, Zenon DEF CompleteStart, At, TypeOK, ControlOK, LocalsOK, LoopLocals, CompleteLabels
      <4>2. CASE x # Loop
        BY <3>1, <4>2, Zenon DEF CompleteStart, At, TypeOK, ControlOK, LocalsOK, UserLocals, CompleteLabels
      <4> QED BY <4>1, <4>2, Zenon
    <3>6. pc'[x] \in CompleteLabels BY <3>1, Zenon DEF CompleteLabels
    <3>7. StaleOK(t)'
      <4>1. state'[t] = state[t] \/ state'[t] \in {"Completing", "Completed"} BY <2>5, <3>3, Zenon
      <4>2. Stale(t)' => Stale(t) BY <2>4, <3>2, <4>1, StaleMoved, Zenon
      <4> QED BY <2>1, <2>8, <3>4, <3>5, <3>6, <4>2, StaleKept, Zenon
    <3>8. \A s \in Tasks \ {t} : Stale(s)' => Stale(s) BY <2>4, <3>2, <3>4, StaleMoved, Zenon
    <3>9. CASE pc'[x] = "c_sem"
      <4>1. pc'[x] \in MovingLabels /\ EndOK(x)' BY <3>9, Zenon DEF MovingLabels, EndOK
      <4>2. BusyOK(t)' BY <2>3, <4>1, Zenon DEF BusyOK
      <4>3. Progress(t)' BY <3>7, <4>2, Zenon DEF Progress
      <4> QED BY <2>1, <2>3, <3>4, <3>8, <4>1, <4>3, ProgressOf, Zenon
    <3>10. CASE pc'[x] = "c_post"
      <4>1. CompleteDone(x) /\ pc[x] = "c_done" BY <2>9, <3>1, <3>10, Zenon DEF CompleteStart, At
      <4>2. state[t] \in {"Completing", "Ready"} BY <4>1, Zenon DEF StageInv, InStage
      <4>3. state'[t] \in {"Completed", "Ready"} BY <2>5, <4>1, <4>2, Zenon DEF CompleteDone
      <4>4. BusyOK(t)' /\ EndOK(x)' BY <2>3, <3>10, <4>3, Zenon DEF BusyOK, EndOK
      <4> QED BY <2>1, <2>3, <3>4, <3>7, <3>8, <4>4, ProgressOf DEF Progress
    <3> QED BY <3>1, <3>9, <3>10, Zenon
  <2>10. CASE CompleteTakeSem(x)
    <3>1. pc[x] = "c_sem" /\ pc'[x] = "c_done" BY <2>10, SharedEdges, Zenon
    <3>2. UNCHANGED <<state, flags>> BY <2>7, <2>10, <3>1, Zenon DEF CancelFlags, At, CompleteTakeSem, atomics
    <3>3. \A s \in Tasks : Stale(s)' => Stale(s) BY <2>4, <3>2, StaleSame, Zenon
    <3>4. pc'[x] \in MovingLabels /\ pc'[x] \in CompleteLabels /\ EndOK(x)'
      BY <3>1, Zenon DEF MovingLabels, CompleteLabels, EndOK
    <3> QED BY <2>1, <2>3, <2>8, <3>2, <3>3, <3>4, ProgressAside
  <2>11. CASE CompletePost(x)
    <3>1. pc[x] = "c_post" BY <2>11, SharedEdges, Zenon
    <3>2. UNCHANGED <<state, flags>> BY <2>7, <2>11, <3>1, Zenon DEF CancelFlags, At, CompletePost, atomics
    <3>3. \A s \in Tasks : Stale(s)' => Stale(s) BY <2>4, <3>2, StaleSame, Zenon
    <3>4. (x = Loop => loc[x].ret \in LoopLabels) /\ (pc[x] \in {"x_flags"} \cup CompleteLabels => Task(x) \in Tasks)
      BY <2>2, LabelSets, Zenon
    <3>5. pc'[x] = (IF x = Loop THEN loc[x].ret ELSE "dec") /\ loc'[x].from = "Completed"
      BY <2>11, <3>4, CompleteMoves, Zenon
    <3>6. Renewing(x) => pc'[x] = "reborn"
      <4>1. Renewing(x) => loc[x].ret = "reborn" BY <3>1, Zenon DEF Renewing
      <4>2. x # Loop => loc[x].ret # "reborn" BY Zenon DEF TypeOK, ControlOK, LocalsOK, UserLocals
      <4> QED BY <3>5, <4>1, <4>2, Zenon
    <3>7. Renewing(x) => Renewing(x)' BY <3>6, Zenon DEF Renewing
    <3>8. pc[x] \notin MovingLabels /\ pc'[x] \notin {"c_post", "p_check"} BY <2>2, <3>1, <3>5, Zenon DEF MovingLabels
    <3>9. state[t] \in {"Completed", "Ready"} BY <3>1, Zenon DEF ProgressInv, EndOK
    <3>10. EndOK(x)' BY <2>3, <3>2, <3>5, <3>8, <3>9, Zenon DEF EndOK
    <3> QED BY <2>1, <2>3, <3>2, <3>3, <3>7, <3>8, <3>10, ProgressAside, Zenon
  <2> QED BY <1>2, <2>6, <2>9, <2>10, <2>11, Zenon
<1> QED BY <1>1, <1>2, Zenon DEF SharedStep

\* fetch_task_() up to the check that nothing has changed meanwhile.
LEMMA FetchProgress ==
  ASSUME TypeOK, LockInv, StageInv, ProgressInv, kind' = kind,
         LoopWake \/ LoopLock \/ FetchPop \/ FetchLoad \/ FetchNewState \/ FetchAgain \/ FetchPanic
  PROVE  ProgressInv'
<1>1. Loop \in Threads BY Zenon DEF Threads
<1>2. UNCHANGED <<flags, renewed_deadline, version, effective_version>>
  BY Zenon DEF LoopWake, LoopLock, FetchPop, FetchLoad, FetchNewState, FetchAgain, FetchPanic, atomics, effective
<1>3. ASSUME NEW t \in Tasks, \A s \in Tasks \ {t} : state'[s] = state[s]
      PROVE  \A s \in Tasks \ {t} : state'[s] = state[s] /\ (Stale(s)' => Stale(s))
  BY <1>2, <1>3, StaleMoved, Zenon
<1>4. ASSUME LoopWake \/ LoopLock \/ FetchPop \/ FetchLoad PROVE ProgressInv'
  <2>1. /\ Moves(Loop) /\ pc[Loop] \in {"wait", "lock", "pop", "load"}
        /\ pc'[Loop] \in {"lock", "pop", "sleep", "update", "load", "newstate"}
    BY <1>4, LoopEdges, Zenon DEF Works
  <2>2. UNCHANGED state BY <1>4, Zenon DEF LoopWake, LoopLock, FetchPop, FetchLoad, atomics
  <2> QED BY <1>1, <1>2, <2>1, <2>2, StaleSame, ProgressRest, Zenon DEF MovingLabels, CompleteLabels
<1>5. ASSUME UNCHANGED <<state, pc, loc>> PROVE ProgressInv' BY <1>2, <1>5, ProgressSame, Zenon
<1>6. FetchPanic => UNCHANGED <<state, pc, loc>> BY Zenon DEF FetchPanic, Panic, atomics
<1>7. ASSUME FetchNewState, ~UNCHANGED <<state, pc, loc>> PROVE ProgressInv'
  <2>1. pc[Loop] = "newstate" /\ Task(Loop) \in Tasks BY <1>7, LoopEdges, LoopTask, Zenon DEF TypeOK
  <2> PICK t \in Tasks : t = Task(Loop) BY <2>1, Zenon
  <2>2. pc'[Loop] = "recheck" /\ \E s : state' = [state EXCEPT ![t] = s]
    <3>1. pc \in [Threads -> UserLabels \cup LoopLabels] BY Zenon DEF TypeOK, ControlOK
    <3> QED BY <1>1, <1>7, <3>1, Zenon DEF FetchNewState, Panic, Goto
  <2>3. Moves(Loop) /\ loc'[Loop].task = t
    <3>1. pc' # pc BY <2>1, <2>2, Zenon
    <3> QED BY <1>7, <3>1, ExecuteMoves, Zenon DEF Task
  <2>4. \A s \in Tasks \ {t} : state'[s] = state[s] BY <2>2, Zenon DEF TypeOK, DataOK
  <2>5. Task(Loop)' = t /\ pc'[Loop] \in MovingLabels /\ Renewing(Loop)' /\ EndOK(Loop)'
    BY <2>2, <2>3, Zenon DEF Task, MovingLabels, Renewing, EndOK
  <2>6. Progress(t)' BY <1>1, <2>5, Zenon DEF Progress, BusyOK, StaleOK
  <2>7. LetsEnd(Loop) BY <2>1, CriticalSet, Zenon DEF LetsEnd
  <2>8. \A s \in Tasks \ {t} : state'[s] = state[s] /\ (Stale(s)' => Stale(s)) BY <1>3, <2>4, Zenon
  <2> QED BY <1>1, <2>3, <2>5, <2>6, <2>7, <2>8, ProgressOf, Zenon
<1>8. ASSUME FetchAgain PROVE ProgressInv'
  <2>1. pc[Loop] = "recheck" /\ pc'[Loop] = "pop" /\ Works(Loop) /\ Moves(Loop) BY <1>8, LoopEdges, Zenon DEF Works
  <2>2. Task(Loop) \in Tasks BY <2>1, LoopTask, Zenon DEF TypeOK
  <2> PICK t \in Tasks : t = Task(Loop) BY <2>2, Zenon
  <2>3. state[t] \in {loc[Loop].from, "Ready"} BY <1>1, <2>1, Zenon DEF StageInv, InStage
  <2>4. state \in [Tasks -> States] BY Zenon DEF TypeOK, DataOK
  <2>5. \/ state[t] = loc[Loop].from /\ state' = [state EXCEPT ![t] = "Ready"]
        \/ state[t] # loc[Loop].from /\ state' = state
    BY <1>8, Zenon DEF FetchAgain
  <2>6. state'[t] = "Ready" /\ \A s \in Tasks \ {t} : state'[s] = state[s] BY <2>3, <2>4, <2>5, Zenon
  <2>7. Progress(t)' BY <2>6, Zenon DEF Progress, BusyOK, StaleOK
  <2>8. EndOK(Loop)' /\ LetsEnd(Loop) BY <2>1, CriticalSet, Zenon DEF EndOK, LetsEnd
  <2>9. \A s \in Tasks \ {t} : state'[s] = state[s] /\ (Stale(s)' => Stale(s)) BY <1>3, <2>6, Zenon
  <2> QED BY <1>1, <2>1, <2>7, <2>8, <2>9, ProgressOf, Zenon
<1> QED BY <1>4, <1>5, <1>6, <1>7, <1>8, Zenon

\* fetch_task_() has a task to execute, to cancel or to put to sleep: its latest
\* deadline is in effect.
LEMMA FetchedProgress ==
  ASSUME TypeOK, LockInv, StageInv, RequestInv, ProgressInv, kind' = kind, FetchReady \/ FetchSleeping
  PROVE  ProgressInv'
<1>1. Loop \in Threads BY Zenon DEF Threads
<1>2. UNCHANGED <<flags, renewed_deadline, version>> BY Zenon DEF FetchReady, FetchSleeping, atomics
<1>3. state \in [Tasks -> States] /\ effective_version \in [Tasks -> Int] BY Zenon DEF TypeOK, DataOK
<1>4. ASSUME FetchReady PROVE ProgressInv'
  <2>1. /\ Moves(Loop) /\ pc[Loop] = "recheck" /\ pc'[Loop] \in {"x_flags", "exec", "pop"}
        /\ loc'[Loop].task = loc[Loop].task
    BY <1>4, LoopEdges, ExecuteMoves, Zenon
  <2>2. Task(Loop) \in Tasks BY <2>1, LoopTask, Zenon DEF TypeOK
  <2> PICK t \in Tasks : t = Task(Loop) BY <2>2, Zenon
  <2> PICK d \in Int : d = loc[Loop].deadline BY <1>1, LocalsTyped, Zenon DEF TypeOK
  <2>3. /\ version[t] = loc[Loop].version /\ flags[t] = loc[Loop].flags /\ UNCHANGED state
        /\ pc' = [pc EXCEPT ![Loop] = IF d < 0 THEN "x_flags"
                                      ELSE IF d >= 0 /\ (IF "Paused" \in flags[t] THEN "Resumed" \in flags[t] ELSE d = 0)
                                      THEN "exec" ELSE "pop"]
    BY <1>4, Zenon DEF FetchReady, Changed, Goto, atomics
  <2>4. \/ effective_version' = [effective_version EXCEPT ![t] = version[t]]
        \/ "Paused" \in flags[t] /\ effective_version' = effective_version
    BY <1>4, <2>3, Zenon DEF FetchReady, CancelTask, RescheduleTask, effective
  <2>5. /\ \A s \in Tasks \ {t} : effective_version'[s] = effective_version[s]
        /\ "Paused" \in flags[t] \/ effective_version'[t] = version[t]
    BY <1>3, <2>4, Zenon
  <2>6. \A s \in Tasks \ {t} : state'[s] = state[s] /\ (Stale(s)' => Stale(s))
    BY <1>2, <2>3, <2>5, StaleMoved, Zenon
  <2>7. StaleOK(t)' BY <1>2, <2>5, Zenon DEF StaleOK, Stale
  <2>8. state[t] \in {NewState(flags[t], d), "Ready"}
    BY <1>1, <2>1, <2>3, Zenon DEF StageInv, InStage, TypeOK, ControlOK, LocalsOK, LoopLocals
  <2>9. BusyOK(t)'
    <3>1. pc \in [Threads -> UserLabels \cup LoopLabels] BY Zenon DEF TypeOK, ControlOK
    <3>2. CASE pc'[Loop] \in {"x_flags", "exec"}
      <4>1. Task(Loop)' = t /\ pc'[Loop] \in MovingLabels BY <2>1, <3>2, Zenon DEF Task, MovingLabels
      <4> QED BY <1>1, <4>1, Zenon DEF BusyOK
    <3>3. CASE pc'[Loop] = "pop"
      <4>1. ~(d < 0) /\ ~(d >= 0 /\ (IF "Paused" \in flags[t] THEN "Resumed" \in flags[t] ELSE d = 0))
        BY <1>1, <2>3, <3>1, <3>3, Zenon
      <4>2. NewState(flags[t], d) = "Sleeping" BY <4>1, SMT, Z3 DEF NewState
      <4> QED BY <2>3, <2>8, <4>2, Zenon DEF BusyOK
    <3> QED BY <2>1, <3>2, <3>3, Zenon
  <2>10. EndOK(Loop)' /\ LetsEnd(Loop) BY <2>1, CriticalSet, Zenon DEF EndOK, LetsEnd
  <2> QED BY <1>1, <2>1, <2>3, <2>6, <2>7, <2>9, <2>10, ProgressOf, Zenon DEF Progress
<1>5. ASSUME FetchSleeping PROVE ProgressInv'
  <2>1. Moves(Loop) /\ pc[Loop] = "sleep" /\ pc'[Loop] \in {"pop", "update", "exec"} BY <1>5, LoopEdges, Zenon
  <2>2. effective_version' = effective_version BY <1>5, Zenon DEF FetchSleeping, effective
  <2>3. LetsEnd(Loop) BY <2>1, CriticalSet, Zenon DEF LetsEnd
  <2>4. CASE UNCHANGED state
    BY <1>1, <1>2, <2>1, <2>2, <2>3, <2>4, StaleSame, ProgressRest, Zenon DEF MovingLabels, CompleteLabels
  <2>5. CASE ~UNCHANGED state
    <3>1. /\ pc'[Loop] = "exec" /\ sleeping_queue # <<>> /\ loc'[Loop].task = Head(sleeping_queue)
          /\ state[Head(sleeping_queue)] = "Sleeping"
          /\ state' = [state EXCEPT ![Head(sleeping_queue)] = "Processing"]
      <4>1. UNCHANGED state \/ pc' = [pc EXCEPT ![Loop] = "exec"] BY <1>5, Zenon DEF FetchSleeping, Goto
      <4>2. pc \in [Threads -> UserLabels \cup LoopLabels] BY Zenon DEF TypeOK, ControlOK
      <4>3. pc'[Loop] = "exec" BY <1>1, <2>5, <4>1, <4>2, Zenon
      <4> QED BY <1>5, <4>3, FetchMoves, Zenon
    <3>2. Head(sleeping_queue) \in Tasks BY <3>1, SMT, Z3 DEF TypeOK, DataOK
    <3> PICK t \in Tasks : t = Head(sleeping_queue) BY <3>2, Zenon
    <3>3. state[t] = "Sleeping" /\ state'[t] = "Processing" /\ \A s \in Tasks \ {t} : state'[s] = state[s]
      BY <1>3, <3>1, Zenon
    <3>4. Task(Loop)' = t /\ pc'[Loop] \in MovingLabels /\ EndOK(Loop)'
      BY <3>1, Zenon DEF Task, MovingLabels, EndOK
    <3>5. pc[Loop] \notin MovingLabels /\ ~Renewing(Loop)
      BY <2>1, Zenon DEF MovingLabels, Renewing, CompleteLabels
    <3>6. BusyOK(t)' BY <1>1, <3>4, Zenon DEF BusyOK
    <3>7. \A s \in Tasks : Stale(s)' => Stale(s) BY <1>2, <2>2, <3>3, StaleMoved, Zenon
    <3>8. StaleOK(t)' BY <1>1, <2>1, <3>3, <3>5, <3>7, StaleKept, Zenon
    <3> QED BY <1>1, <2>1, <2>3, <3>3, <3>4, <3>5, <3>6, <3>7, <3>8, ProgressOf, Zenon DEF Progress
  <2> QED BY <2>4, <2>5, Zenon
<1> QED BY <1>4, <1>5, Zenon

\* execute_task_(): a task that was renewed meanwhile is reborn.
LEMMA ExecuteProgress ==
  ASSUME TypeOK, LockInv, StageInv, TasksInv, RequestInv, ProgressInv, kind' = kind,
         \/ ExecuteBegin \/ ExecuteFinish \/ CheckRenewed \/ ExecuteOperation \/ ExecutePause \/ PauseTask
         \/ PauseCheck \/ ExecuteContinue \/ RebornTask
  PROVE  ProgressInv'
<1>1. /\ Loop \in Threads /\ Moves(Loop)
      /\ pc[Loop] \in {"exec", "run", "renewed", "pause", "p_sleep", "p_check", "reborn"}
  BY LoopEdges, Zenon DEF Threads, Works
<1>2. Task(Loop) \in Tasks BY <1>1, LoopTask, Zenon DEF TypeOK
<1> PICK t \in Tasks : t = Task(Loop) BY <1>2, Zenon
<1>3. UNCHANGED <<renewed_deadline, version, effective_version>>
  BY Zenon DEF ExecuteBegin, ExecuteFinish, CheckRenewed, ExecuteOperation, ExecutePause, PauseTask, PauseCheck,
         ExecuteContinue, RebornTask, atomics, effective
<1>4. state \in [Tasks -> States] /\ flags \in [Tasks -> SUBSET Flags] BY Zenon DEF TypeOK, DataOK
<1>5. LetsEnd(Loop) BY <1>1, CriticalSet, Zenon DEF LetsEnd
<1>6. ASSUME UNCHANGED <<state, flags>> PROVE \A s \in Tasks : Stale(s)' => Stale(s) BY <1>3, <1>6, StaleSame, Zenon
<1>7. ASSUME \A s \in Tasks \ {t} : state'[s] = state[s] /\ flags'[s] = flags[s]
      PROVE  \A s \in Tasks \ {t} : state'[s] = state[s] /\ (Stale(s)' => Stale(s))
  BY <1>3, <1>7, StaleMoved, Zenon
<1>8. CASE ExecuteBegin \/ ExecuteOperation \/ ExecutePause
  <2>1. UNCHANGED state BY <1>8, Zenon DEF ExecuteBegin, ExecuteOperation, ExecutePause, atomics
  <2>2. \/ UNCHANGED flags
        \/ flags' = [flags EXCEPT ![t] = flags[t] \ {"Succeeded", "Cancelled", "Resumed"}]
        \/ flags' = [flags EXCEPT ![t] = flags[t] \cup {"Paused"}]
    BY <1>8, Zenon DEF ExecuteBegin, ExecuteOperation, ExecutePause, atomics
  <2>3. pc[Loop] \in {"exec", "run", "pause"} /\ pc'[Loop] \in {"exec", "run", "pause", "p_sleep"}
    BY <1>8, LoopEdges, Zenon
  <2>4. ASSUME NEW s \in Tasks PROVE Stale(s)' => Stale(s)
    <3>1. CASE s # t
      <4>1. \A r \in Tasks \ {t} : flags'[r] = flags[r] BY <1>4, <2>2, Zenon
      <4> QED BY <1>7, <2>1, <3>1, <4>1, Zenon
    <3>2. CASE s = t
      <4>1. state[t] \in {"Processing", "Ready"} BY <1>1, <2>3, Zenon DEF StageInv, InStage
      <4>2. ~PausingCancelled(t) BY <4>1, Zenon DEF PausingCancelled
      <4>3. "Paused" \in flags[t] => "Paused" \in flags'[t] BY <1>4, <2>2, Zenon
      <4> QED BY <1>3, <2>1, <3>2, <4>2, <4>3, Zenon DEF Stale
    <3> QED BY <3>1, <3>2, Zenon
  <2>5. loc'[Loop].task = loc[Loop].task BY <1>8, LoopEdges, ExecuteMoves, Zenon DEF Works
  <2>6. pc'[Loop] \in MovingLabels /\ ~Renewing(Loop) /\ EndOK(Loop)'
    BY <2>3, Zenon DEF MovingLabels, Renewing, CompleteLabels, EndOK
  <2> QED BY <1>1, <1>5, <2>1, <2>4, <2>5, <2>6, ProgressAside, Zenon
<1>9. CASE ExecuteFinish \/ ExecuteContinue
  <2>1. UNCHANGED state /\ \E f : flags' = [flags EXCEPT ![t] = f] BY <1>9, Zenon DEF ExecuteFinish, ExecuteContinue
  <2>2. \A s \in Tasks \ {t} : state'[s] = state[s] /\ (Stale(s)' => Stale(s)) BY <1>4, <1>7, <2>1, Zenon
  <2>3. /\ Works(Loop) /\ pc[Loop] = "run" /\ pc'[Loop] \in {"renewed", "reborn"}
    BY <1>9, LoopEdges, Zenon
  <2>4. Task(Loop)' = t /\ loc'[Loop].from = loc[Loop].from BY <2>3, Zenon DEF Works, Task
  <2>5. pc'[Loop] \in MovingLabels /\ Renewing(Loop)' BY <2>3, Zenon DEF MovingLabels, Renewing
  <2>6. Progress(t)' BY <1>1, <2>4, <2>5, Zenon DEF Progress, BusyOK, StaleOK
  <2>7. state[t] \in {"Processing", "Ready"} /\ loc[Loop].from = "Processing"
    BY <1>1, <2>3, Zenon DEF StageInv, InStage, TypeOK, ControlOK, LocalsOK, LoopLocals
  <2>8. EndOK(Loop)' BY <2>1, <2>3, <2>4, <2>7, Zenon DEF EndOK
  <2> QED BY <1>1, <1>5, <2>2, <2>6, <2>8, ProgressOf, Zenon
<1>10. CASE CheckRenewed
  <2>1. UNCHANGED <<state, flags>> BY <1>10, Zenon DEF CheckRenewed, atomics
  <2>2. \A s \in Tasks : Stale(s)' => Stale(s) BY <1>6, <2>1, Zenon
  <2>3. pc[Loop] = "renewed" /\ pc'[Loop] = "c_start" /\ loc'[Loop].task = loc[Loop].task
    BY <1>10, LoopEdges, ExecuteMoves, Zenon
  <2>4. Task(Loop)' = t /\ pc'[Loop] \in MovingLabels /\ EndOK(Loop)' BY <2>3, Zenon DEF Task, MovingLabels, EndOK
  <2>5. BusyOK(t)' BY <1>1, <2>4, Zenon DEF BusyOK
  <2>6. StaleOK(t)'
    <3>1. CASE ~Dirty(t) /\ version[t] # effective_version[t] /\ renewed_deadline[t] >= 0
      <4>1. loc' = [loc EXCEPT ![Loop].ret = "reborn"] BY <1>10, <3>1, Zenon DEF CheckRenewed
      <4>2. loc \in [Threads -> Locals] BY Zenon DEF TypeOK, ControlOK
      <4>3. loc'[Loop].ret = "reborn" BY <1>1, <4>1, <4>2, Zenon DEF Locals
      <4>4. Renewing(Loop)' BY <2>3, <4>3, Zenon DEF Renewing, CompleteLabels
      <4> QED BY <1>1, <2>4, <4>4, Zenon DEF StaleOK
    <3>2. CASE Dirty(t)
      <4>1. PICK y \in Users : pc[y] = "store" /\ Task(y) = t BY <3>2, Zenon DEF RequestInv, Requested
      <4>2. y \in Threads /\ pc'[y] = "store" /\ Task(y)' = t BY <1>1, <2>3, <4>1, Zenon DEF Threads, Moves, Task
      <4>3. Renewing(y)' BY <4>2, Zenon DEF Renewing
      <4> QED BY <4>2, <4>3, Zenon DEF StaleOK
    <3>3. CASE version[t] = effective_version[t] \/ ~(renewed_deadline[t] >= 0)
      <4>1. state[t] \in {"Processing", "Ready"} BY <1>1, <2>3, Zenon DEF StageInv, InStage
      <4> QED BY <1>3, <2>1, <3>3, <4>1, Zenon DEF StaleOK, Stale
    <3> QED BY <3>1, <3>2, <3>3, Zenon
  <2> QED BY <1>1, <1>5, <2>1, <2>2, <2>4, <2>5, <2>6, ProgressOf, Zenon DEF Progress
<1>11. CASE PauseTask \/ PauseCheck
  <2>1. flags' = flags BY <1>11, Zenon DEF PauseTask, PauseCheck, atomics
  <2>2. PauseCheck => \A s \in Tasks : Stale(s)' => Stale(s) BY <1>6, <2>1, Zenon DEF PauseCheck, atomics
  <2>3. CASE PauseCheck
    <3>1. UNCHANGED state BY <2>3, Zenon DEF PauseCheck, atomics
    <3>2. pc[Loop] = "p_check" /\ pc'[Loop] \in {"reborn", "pop", "sleep"} BY <2>3, LoopEdges, Zenon
    <3>3. state[t] \in {"Sleeping", "Ready"} /\ "Paused" \in flags[t] BY <1>1, <3>2, Zenon DEF ProgressInv, EndOK
    <3>4. pc'[Loop] = "reborn" => loc'[Loop].task = loc[Loop].task
      <4>1. pc \in [Threads -> UserLabels \cup LoopLabels] BY Zenon DEF TypeOK, ControlOK
      <4>2. Fetch => pc'[Loop] # "reborn" BY <1>1, <4>1, Zenon DEF Fetch, Goto, FetchLabel
      <4> QED BY <2>3, <4>2, Zenon DEF PauseCheck
    <3>5. EndOK(Loop)' BY <2>1, <3>1, <3>2, <3>3, <3>4, Zenon DEF EndOK, Task
    <3>6. pc[Loop] \notin MovingLabels /\ ~Renewing(Loop) BY <3>2, Zenon DEF MovingLabels, Renewing, CompleteLabels
    <3> QED BY <1>1, <1>5, <2>2, <2>3, <3>1, <3>5, <3>6, ProgressAside, Zenon
  <2>4. CASE PauseTask
    <3>1. pc[Loop] = "p_sleep" BY <2>4, LoopEdges, Zenon
    <3>2. state[t] \in {"Processing", "Ready"} BY <1>1, <3>1, Zenon DEF StageInv, InStage
    <3>3. CASE UNCHANGED <<state, pc, loc>> BY <1>3, <2>1, <3>3, ProgressSame, Zenon
    <3>4. CASE ~UNCHANGED <<state, pc, loc>>
      <4>1. /\ state' = IF state[t] = "Processing" THEN [state EXCEPT ![t] = "Sleeping"] ELSE state
            /\ pc' = [pc EXCEPT ![Loop] = "p_check"]
        BY <2>4, <3>4, Zenon DEF PauseTask, Panic, Goto
      <4>2. /\ state'[t] \in {"Sleeping", "Ready"} /\ (state[t] = "Ready" => state'[t] = "Ready")
            /\ \A s \in Tasks \ {t} : state'[s] = state[s]
        BY <1>4, <3>2, <4>1, Zenon
      <4>3. "Paused" \in flags[t] BY <1>1, <3>1, Zenon DEF TasksInv, ThreadOK
      <4>4. BusyOK(t)' BY <4>2, Zenon DEF BusyOK
      <4>5. StaleOK(t)' BY <2>1, <4>3, Zenon DEF StaleOK, Stale
      <4>6. Works(Loop) /\ pc'[Loop] \in {"p_sleep", "p_check"} BY <2>4, LoopEdges, Zenon
      <4>7. EndOK(Loop)' BY <2>1, <4>2, <4>3, <4>6, Zenon DEF EndOK, Works, Task
      <4>8. \A s \in Tasks \ {t} : state'[s] = state[s] /\ (Stale(s)' => Stale(s)) BY <1>7, <2>1, <4>2, Zenon
      <4> QED BY <1>1, <1>5, <4>4, <4>5, <4>7, <4>8, ProgressOf, Zenon DEF Progress
    <3> QED BY <3>3, <3>4, Zenon
  <2> QED BY <1>11, <2>3, <2>4, Zenon
<1>12. CASE RebornTask
  <2>1. pc[Loop] = "reborn" /\ pc'[Loop] \in {"pop", "sleep"} BY <1>12, LoopEdges, Zenon
  <2>2. \/ state[t] \in {loc[Loop].from, "Ready"}
        \/ state[t] = "Sleeping" /\ "Paused" \in flags[t]
    BY <1>1, <2>1, Zenon DEF ProgressInv, EndOK
  <2>3. state' = (IF state[t] = loc[Loop].from THEN [state EXCEPT ![t] = "Ready"] ELSE state) /\ flags' = flags
    BY <1>12, Zenon DEF RebornTask
  <2>4. /\ state'[t] = "Ready" \/ (state'[t] = "Sleeping" /\ "Paused" \in flags'[t])
        /\ \A s \in Tasks \ {t} : state'[s] = state[s]
    BY <1>4, <2>2, <2>3, Zenon
  <2>5. \A s \in Tasks \ {t} : state'[s] = state[s] /\ (Stale(s)' => Stale(s)) BY <1>7, <2>3, <2>4, Zenon
  <2>6. Progress(t)' BY <2>4, Zenon DEF Progress, BusyOK, StaleOK, Stale
  <2>7. EndOK(Loop)' BY <2>1, Zenon DEF EndOK
  <2> QED BY <1>1, <1>5, <2>5, <2>6, <2>7, ProgressOf, Zenon
<1> QED BY <1>8, <1>9, <1>10, <1>11, <1>12, Zenon

\* A task stays of its kind.
LEMMA KindKept ==
  ASSUME [Next]_vars
  PROVE  kind' = kind
<1>1. ASSUME NEW x \in Threads, SharedStep(x) PROVE kind' = kind
  BY <1>1, Zenon DEF SharedStep, UpdateWakeup, UpdateSet, TrySet, Commit, UpdateCheck, Unlock, CancelFlags,
         CompleteStart, CompleteTakeSem, CompleteDone, CompletePost, misc
<1>2. ASSUME NEW x \in Users, RenewStep(x) PROVE kind' = kind
  BY <1>2, Zenon DEF RenewStep, RenewStore, RenewCancel, RenewPaused, ExchangeReady, CommitSize, TryLock, Push, Link,
         RequestSet, TrySet, Commit, UnlockPush, RenewInplace, RenewedInplace, Return, misc
<1>3. ASSUME NEW x \in Users, NEW t \in Tasks, Schedule(x, t) \/ AsyncCancel(x, t) \/ Resume(x, t) \/ Wait(x, t)
      PROVE  kind' = kind
  BY <1>3, Zenon DEF Schedule, AsyncCancel, Renew, Resume, Wait, misc
<1>4. ASSUME NEW x \in Users, WaitStep(x) \/ Stop(x) PROVE kind' = kind
  BY <1>4, Zenon DEF Stop, WaitStep, WaitAttach, WaitSpin, WaitReadState, WaitReadSem, WaitSem, WaitEnd, misc
<1>5. ASSUME LoopStep, ~SharedStep(Loop) PROVE kind' = kind
  BY <1>5, Zenon DEF LoopStep, LoopWake, LoopLock, FetchPop, FetchLoad, FetchNewState, FetchAgain, FetchPanic,
         FetchReady, FetchSleeping, ExecuteBegin, ExecuteFinish, CheckRenewed, ExecuteOperation, ExecutePause,
         PauseTask, PauseCheck, ExecuteContinue, RebornTask, misc
<1>6. ASSUME Tick \/ UNCHANGED vars PROVE kind' = kind BY <1>6, Zenon DEF Tick, vars, misc
<1>7. Loop \in Threads /\ \A x \in Users : x \in Threads BY Zenon DEF Threads
<1> QED BY <1>1, <1>2, <1>3, <1>4, <1>5, <1>6, <1>7, Zenon DEF Next, UserStep, Terminated

LEMMA ProgressStep ==
  ASSUME TypeOK, LockInv, StageInv, TasksInv, RequestInv, ProgressInv, [Next]_vars
  PROVE  ProgressInv'
<1>1. ASSUME NEW x \in Threads, SharedStep(x) PROVE ProgressInv' BY KindKept, <1>1, SharedProgress, Zenon
<1>2. ASSUME NEW x \in Users, RenewStep(x) PROVE ProgressInv'
  BY KindKept, <1>2, StoreProgress, QueueProgress, InplaceProgress, CallProgress, Zenon DEF RenewStep
<1>3. ASSUME NEW x \in Users, NEW t \in Tasks, Schedule(x, t) \/ AsyncCancel(x, t) \/ Resume(x, t) \/ Wait(x, t)
      PROVE  ProgressInv'
  BY KindKept, <1>3, CallProgress, Zenon
<1>4. ASSUME NEW x \in Users, WaitStep(x) \/ Stop(x) PROVE ProgressInv' BY KindKept, <1>4, CallProgress, Zenon
<1>5. ASSUME LoopStep PROVE ProgressInv'
  <2>1. Loop \in Threads BY Zenon DEF Threads
  <2> QED BY KindKept, <1>1, <1>5, <2>1, FetchProgress, FetchedProgress, ExecuteProgress, Zenon DEF LoopStep
<1>6. ASSUME Tick \/ UNCHANGED vars PROVE ProgressInv'
  <2>1. UNCHANGED <<state, flags, renewed_deadline, version, effective_version, pc, loc>>
    BY <1>6, Zenon DEF Tick, vars, atomics, effective, misc
  <2> QED BY KindKept, <2>1, ProgressSame, Zenon
<1>7. \A x \in Users : x \in Threads BY Zenon DEF Threads
<1> QED BY <1>1, <1>2, <1>3, <1>4, <1>5, <1>6, <1>7, Zenon DEF Next, UserStep, Terminated

LEMMA ProgressInit ==
  ASSUME Init
  PROVE  ProgressInv
<1>1. /\ \A t \in Tasks : state[t] = "Completed" /\ version[t] = 0 /\ effective_version[t] = 0
      /\ \A x \in Threads : pc[x] \in {"wait", "idle"}
  BY Zenon DEF Init
<1>2. \A t \in Tasks : Progress(t) BY <1>1, Zenon DEF Progress, BusyOK, StaleOK, Stale
<1>3. \A x \in Threads : EndOK(x) BY <1>1, Zenon DEF EndOK
<1> QED BY <1>2, <1>3, Zenon DEF ProgressInv

=============================================================================
