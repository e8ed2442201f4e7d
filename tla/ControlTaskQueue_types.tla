----------------------- MODULE ControlTaskQueue_types -----------------------
(***************************************************************************)
(* Types in the control task queue, and what its steps do to the control   *)
(* state, for any number of user threads and tasks, any deadlines and any  *)
(* workload.                                                               *)
(***************************************************************************)
EXTENDS ControlTaskQueue, TLAPS

-----------------------------------------------------------------------------
(***************************************************************************)
(* The inductive invariants.                                               *)
(***************************************************************************)
\* Labels of update_wakeup_timer_() and of the release of the lock, of the code
\* only users run, of their part that holds the lock, and of the code only the
\* event loop thread runs with the lock held.
UpdateLabels == {"update", "u_set", "u_commit", "u_check", "unlock"}
RequestLabels == {"store", "cancel", "paused", "exchange", "size", "push", "link", "set",
                  "commit", "unguard", "return", "join", "trylock"}
InplaceLabels == {"unlock_push", "renew", "dec"}
FetchLabels == {"pop", "sleep", "load", "newstate", "recheck"}
ExecuteLabels == {"exec", "run", "renewed", "pause", "p_sleep", "p_check", "reborn"}

SharedLabels == {"x_flags"} \cup CompleteLabels \cup UpdateLabels
UserLabels == {"idle"} \cup RequestLabels \cup InplaceLabels \cup SharedLabels \cup WaitLabels
LoopLabels == {"wait", "lock", "stopped"} \cup FetchLabels \cup ExecuteLabels \cup SharedLabels
CriticalLabels == InplaceLabels \cup FetchLabels \cup ExecuteLabels \cup SharedLabels

Returns == {"unguard", "return", "join", "pop", "sleep", "reborn"}
Locals == [task : Tasks \cup {NoTask}, deadline : Int, version : Int, flags : SUBSET Flags,
           from : States, sem : BOOLEAN, wakeup : Int, ret : Returns]

\* The data are of their types.
DataOK ==
    /\ state \in [Tasks -> States] /\ flags \in [Tasks -> SUBSET Flags]
    /\ renew_guard \in [Tasks -> BOOLEAN]
    /\ renewed_deadline \in [Tasks -> Int] /\ version \in [Tasks -> Int]
    /\ effective_deadline \in [Tasks -> Int] /\ effective_version \in [Tasks -> Int]
    /\ completer \in [Tasks -> BOOLEAN] /\ wait_guard \in [Tasks -> BOOLEAN]
    /\ sem_attached \in [Tasks -> BOOLEAN] /\ sem \in [Tasks -> Int]
    /\ kind \in [Tasks -> {"plain", "pausing"}]
    /\ operation \in [Tasks -> {"none", "running", "done"}]
    /\ ready_queue \in Seq(Tasks) /\ linking \in SUBSET Tasks /\ ready_queue_size \in Int
    /\ sleeping_queue \in Seq(Tasks) /\ paused_queue \in Seq(Tasks)
    /\ task_mutex \in Threads \cup {NoThread} /\ wakeup \in Int
    /\ wakeup_setter \in Threads \cup {NoThread}
    /\ fetch_ready \in BOOLEAN /\ stop \in BOOLEAN /\ now \in Int
    /\ panic \in {"none", "non-ready", "cancelled", "effective", "list"} /\ calls \in Int

\* Where the threads are, and what their locals hold there: the task they work
\* on, where the call in progress returns to, and the state of the task that
\* complete_task_(), reborn_task_() and the re-adding of a task start from.
UserLocals(x) ==
    /\ pc[x] \in UserLabels /\ loc[x].ret \in {"unguard", "return", "join"}
    /\ pc[x] = "idle" \/ loc[x].ret = "join" \/ Task(x) \in Tasks
    /\ loc[x].ret = "join" => pc[x] \in {"set", "commit", "join"}
    /\ pc[x] \in {"join", "return"} => loc[x].ret = pc[x]
    /\ pc[x] \in CompleteLabels => loc[x].from = "Cancelling"

LoopLocals ==
    /\ pc[Loop] \in LoopLabels
    /\ pc[Loop] \in {"load", "newstate", "recheck", "x_flags"} \cup ExecuteLabels \cup CompleteLabels
          => Task(Loop) \in Tasks
    /\ pc[Loop] \in {"x_flags"} \cup CompleteLabels => loc[Loop].ret \in {"pop", "sleep", "reborn"}
    /\ pc[Loop] = "recheck" => loc[Loop].from = NewState(loc[Loop].flags, loc[Loop].deadline)
    /\ pc[Loop] \in {"run", "renewed", "pause", "p_sleep", "p_check"} => loc[Loop].from = "Processing"
    /\ pc[Loop] = "reborn" => loc[Loop].from \in {"Processing", "Completed"}
    /\ pc[Loop] \in CompleteLabels => loc[Loop].from \in {"Processing", "Cancelling"}

LocalsOK(x) == IF x = Loop THEN LoopLocals ELSE UserLocals(x)

ControlOK ==
    /\ pc \in [Threads -> UserLabels \cup LoopLabels] /\ loc \in [Threads -> Locals]
    /\ \A x \in Threads : LocalsOK(x)

TypeOK == DataOK /\ ControlOK

\* The thread that holds task_mutex_ is the one in the code it protects.
LockInv == \A x \in Threads : task_mutex = x <=> pc[x] \in CriticalLabels

\* The ready queue and the holders of tasks, without counting: each task that is
\* ready is queued at one place or held by one thread, and no other task is.
HoldLabels == {"size", "push", "trylock", "unlock_push", "renew", "load", "newstate"}
Holds(x, t) == Task(x) = t /\ pc[x] \in HoldLabels

ReadyInv ==
    /\ \A i, j \in DOMAIN ready_queue : ready_queue[i] = ready_queue[j] => i = j
    /\ \A t \in Tasks, x, y \in Threads : Holds(x, t) /\ Holds(y, t) => x = y
    /\ \A x \in Threads, i \in DOMAIN ready_queue : ~Holds(x, ready_queue[i])
    /\ \A t \in Tasks : state[t] = "Ready" <=>
          (\E i \in DOMAIN ready_queue : ready_queue[i] = t) \/ (\E x \in Threads : Holds(x, t))

\* The task a thread works on with the lock held is in the state the thread
\* has moved it to, unless somebody has moved it back to StateReady since.
InStage(x) ==
    /\ pc[x] \in {"recheck", "c_start"} => state[Task(x)] \in {loc[x].from, "Ready"}
    /\ pc[x] = "x_flags" => state[Task(x)] \in {"Cancelling", "Ready"}
    /\ pc[x] \in {"exec", "run", "renewed", "pause", "p_sleep"} =>
          state[Task(x)] \in {"Processing", "Ready"}
    /\ pc[x] \in {"c_sem", "c_done"} => state[Task(x)] \in {"Completing", "Ready"}

StageInv == \A x \in Threads : InStage(x)

\* A thread is at this place, and works on the task.
AtTask(label, t) == \E x \in Threads : pc[x] = label /\ Task(x) = t

\* No task is twice in the list, nor before one that is due earlier.
Once(list) == \A i, j \in DOMAIN list : list[i] = list[j] => i = j
Sorted(list, deadline) ==
    \A i, j \in DOMAIN list : i < j => deadline[list[i]] <= deadline[list[j]]

\* A paused task has an operation and is in the paused queue, unless it is being
\* cancelled or just about to be put there.  A task sleeps in one of the lists.
TaskOK(t) ==
    /\ "Succeeded" \in flags[t] => "Cancelled" \notin flags[t] /\ "Paused" \notin flags[t]
    /\ "Cancelled" \in flags[t] => "Paused" \notin flags[t]
    /\ "Paused" \in flags[t] =>
          /\ operation[t] # "none"
          /\ effective_deadline[t] >= 0 \/ AtTask("x_flags", t)
          /\ InList(t, paused_queue) \/ AtTask("x_flags", t) \/ AtTask("p_sleep", t)
    /\ InList(t, sleeping_queue) =>
          ~InList(t, paused_queue) /\ effective_deadline[t] > 0 /\ state[t] # "Completed"
    /\ state[t] = "Sleeping" =>
          \/ InList(t, sleeping_queue) \/ AtTask("recheck", t)
          \/ InList(t, paused_queue) /\ "Paused" \in flags[t]

\* A task that is being executed or completed does not sleep.  One that starts an
\* operation is not in the paused queue; one that is resumed has its operation.
BusyLabels == {"x_flags", "exec", "run", "renewed", "pause", "p_sleep", "c_start", "c_sem", "c_done"}
ThreadOK(x) ==
    /\ pc[x] \in BusyLabels => ~InList(Task(x), sleeping_queue)
    /\ pc[x] \in {"exec", "run", "pause", "p_sleep"} => effective_deadline[Task(x)] >= 0
    /\ pc[x] \in {"run", "pause"} =>
          "Succeeded" \notin flags[Task(x)] /\ "Cancelled" \notin flags[Task(x)]
    /\ pc[x] \in {"exec", "run"} /\ InList(Task(x), paused_queue) => operation[Task(x)] # "none"
    /\ pc[x] = "pause" => operation[Task(x)] # "none"
    /\ pc[x] \in {"pause", "p_sleep"} => ~InList(Task(x), paused_queue)
    /\ pc[x] = "p_sleep" => "Paused" \in flags[Task(x)]
    /\ pc[x] = "renew" /\ loc[x].deadline >= 0 =>
          "Paused" \notin flags[Task(x)] /\ "Paused" \notin loc[x].flags

TasksInv ==
    /\ panic \in {"none", "cancelled"}
    /\ Once(paused_queue) /\ Once(sleeping_queue) /\ Sorted(sleeping_queue, effective_deadline)
    /\ \A t \in Tasks : TaskOK(t)
    /\ \A x \in Threads : ThreadOK(x)

-----------------------------------------------------------------------------
(***************************************************************************)
(* The locals of a thread.                                                 *)
(***************************************************************************)
\* The locals a call or the event loop thread starts with.
LEMMA FreshLocals ==
  /\ NoLocals \in Locals /\ NoLocals.task = NoTask /\ NoLocals.ret = "return"
  /\ NoLocals.sem = FALSE /\ NoLocals.from = "Ready"
BY SMT, Z3 DEF NoLocals, Locals, States, Returns

\* wait() and resume() start with the task only, and so does the execution of a
\* task that has slept.
LEMMA TaskLocals ==
  ASSUME NEW t \in Tasks, NEW l, l = [NoLocals EXCEPT !.task = t]
  PROVE  l \in Locals /\ l.task = t /\ l.ret = "return" /\ l.sem = FALSE
BY FreshLocals, Zenon DEF Locals

\* The destructor has no task.
LEMMA StopLocals ==
  ASSUME NEW r \in Returns, NEW l, l = [NoLocals EXCEPT !.ret = r]
  PROVE  l \in Locals /\ l.ret = r /\ l.sem = FALSE
BY FreshLocals, Zenon DEF Locals

-----------------------------------------------------------------------------
(***************************************************************************)
(* What the steps do to the control state.                                 *)
(***************************************************************************)
\* Only x moves.
Moves(x) ==
    /\ pc' \in [Threads -> UserLabels \cup LoopLabels] /\ loc' \in [Threads -> Locals]
    /\ \A y \in Threads \ {x} : pc'[y] = pc[y] /\ loc'[y] = loc[y]

\* Only x moves, and it goes on with the task it works on.
Works(x) ==
    /\ Moves(x)
    /\ loc'[x].task = loc[x].task /\ loc'[x].ret = loc[x].ret /\ loc'[x].from = loc[x].from
    /\ loc'[x].sem = loc[x].sem /\ loc'[x].deadline = loc[x].deadline
    /\ loc'[x].flags = loc[x].flags

\* A jump moves one thread.
LEMMA Jump ==
  ASSUME ControlOK, NEW x \in Threads, NEW l \in UserLabels \cup LoopLabels, Goto(x, l)
  PROVE  /\ pc' \in [Threads -> UserLabels \cup LoopLabels]
         /\ pc'[x] = l /\ \A y \in Threads \ {x} : pc'[y] = pc[y]
BY Zenon DEF Goto, ControlOK

\* A jump with the locals left alone.
LEMMA JumpWorks ==
  ASSUME ControlOK, NEW x \in Threads, NEW l \in UserLabels \cup LoopLabels, Goto(x, l),
         loc' = loc
  PROVE  Works(x) /\ pc'[x] = l
BY Jump, Zenon DEF Works, Moves, ControlOK

\* A jump of a thread that keeps the version it has stored.
LEMMA SetVersion ==
  ASSUME ControlOK, NEW x \in Threads, NEW l \in UserLabels \cup LoopLabels, Goto(x, l),
         NEW v \in Int, loc' = [loc EXCEPT ![x].version = v]
  PROVE  Works(x) /\ pc'[x] = l
<1>1. loc \in [Threads -> Locals] BY Zenon DEF ControlOK
<1>2. /\ loc' \in [Threads -> Locals] /\ \A y \in Threads \ {x} : loc'[y] = loc[y]
      /\ loc'[x].task = loc[x].task /\ loc'[x].deadline = loc[x].deadline /\ loc'[x].flags = loc[x].flags
      /\ loc'[x].from = loc[x].from /\ loc'[x].sem = loc[x].sem /\ loc'[x].wakeup = loc[x].wakeup
      /\ loc'[x].ret = loc[x].ret /\ loc'[x].version = v
  BY <1>1, Zenon DEF Locals
<1>3. /\ pc' \in [Threads -> UserLabels \cup LoopLabels] /\ pc'[x] = l
      /\ \A y \in Threads \ {x} : pc'[y] = pc[y]
  BY Jump, Zenon
<1> QED BY <1>2, <1>3, Zenon DEF Moves, Works

\* A jump of a thread that knows what to set the timer to.
LEMMA SetWakeup ==
  ASSUME ControlOK, NEW x \in Threads, NEW l \in UserLabels \cup LoopLabels, Goto(x, l),
         NEW w \in Int, loc' = [loc EXCEPT ![x].wakeup = w]
  PROVE  Works(x) /\ pc'[x] = l
<1>1. loc \in [Threads -> Locals] BY Zenon DEF ControlOK
<1>2. /\ loc' \in [Threads -> Locals] /\ \A y \in Threads \ {x} : loc'[y] = loc[y]
      /\ loc'[x].task = loc[x].task /\ loc'[x].deadline = loc[x].deadline /\ loc'[x].version = loc[x].version
      /\ loc'[x].flags = loc[x].flags /\ loc'[x].from = loc[x].from /\ loc'[x].sem = loc[x].sem
      /\ loc'[x].ret = loc[x].ret /\ loc'[x].wakeup = w
  BY <1>1, Zenon DEF Locals
<1>3. /\ pc' \in [Threads -> UserLabels \cup LoopLabels] /\ pc'[x] = l
      /\ \A y \in Threads \ {x} : pc'[y] = pc[y]
  BY Jump, Zenon
<1> QED BY <1>2, <1>3, Zenon DEF Moves, Works

\* A jump of the event loop thread, which has loaded a deadline and its version.
LEMMA SetDeadline ==
  ASSUME ControlOK, NEW x \in Threads, NEW l \in UserLabels \cup LoopLabels, Goto(x, l),
         NEW d \in Int, NEW v \in Int,
         loc' = [loc EXCEPT ![x].deadline = d, ![x].version = v]
  PROVE  /\ Moves(x) /\ pc'[x] = l
         /\ loc'[x].task = loc[x].task /\ loc'[x].flags = loc[x].flags /\ loc'[x].from = loc[x].from
         /\ loc'[x].sem = loc[x].sem /\ loc'[x].wakeup = loc[x].wakeup /\ loc'[x].ret = loc[x].ret
         /\ loc'[x].deadline = d /\ loc'[x].version = v
<1>1. loc \in [Threads -> Locals] BY Zenon DEF ControlOK
<1>2. /\ loc' \in [Threads -> Locals] /\ \A y \in Threads \ {x} : loc'[y] = loc[y]
      /\ loc'[x].task = loc[x].task /\ loc'[x].flags = loc[x].flags /\ loc'[x].from = loc[x].from
      /\ loc'[x].sem = loc[x].sem /\ loc'[x].wakeup = loc[x].wakeup /\ loc'[x].ret = loc[x].ret
      /\ loc'[x].deadline = d /\ loc'[x].version = v
  BY <1>1, Zenon DEF Locals
<1>3. /\ pc' \in [Threads -> UserLabels \cup LoopLabels] /\ pc'[x] = l
      /\ \A y \in Threads \ {x} : pc'[y] = pc[y]
  BY Jump, Zenon
<1> QED BY <1>2, <1>3, Zenon DEF Moves

\* A jump of a thread that has looked at the flags.
LEMMA SetFlags ==
  ASSUME ControlOK, NEW x \in Threads, NEW l \in UserLabels \cup LoopLabels, Goto(x, l),
         NEW f \in SUBSET Flags, loc' = [loc EXCEPT ![x].flags = f]
  PROVE  /\ Moves(x) /\ pc'[x] = l
         /\ loc'[x].task = loc[x].task /\ loc'[x].deadline = loc[x].deadline /\ loc'[x].version = loc[x].version
         /\ loc'[x].from = loc[x].from /\ loc'[x].sem = loc[x].sem /\ loc'[x].wakeup = loc[x].wakeup
         /\ loc'[x].ret = loc[x].ret /\ loc'[x].flags = f
<1>1. loc \in [Threads -> Locals] BY Zenon DEF ControlOK
<1>2. /\ loc' \in [Threads -> Locals] /\ \A y \in Threads \ {x} : loc'[y] = loc[y]
      /\ loc'[x].task = loc[x].task /\ loc'[x].deadline = loc[x].deadline /\ loc'[x].version = loc[x].version
      /\ loc'[x].from = loc[x].from /\ loc'[x].sem = loc[x].sem /\ loc'[x].wakeup = loc[x].wakeup
      /\ loc'[x].ret = loc[x].ret /\ loc'[x].flags = f
  BY <1>1, Zenon DEF Locals
<1>3. /\ pc' \in [Threads -> UserLabels \cup LoopLabels] /\ pc'[x] = l
      /\ \A y \in Threads \ {x} : pc'[y] = pc[y]
  BY Jump, Zenon
<1> QED BY <1>2, <1>3, Zenon DEF Moves

\* A jump of a thread that knows the state a later step starts from.
LEMMA SetFrom ==
  ASSUME ControlOK, NEW x \in Threads, NEW l \in UserLabels \cup LoopLabels, Goto(x, l),
         NEW s \in States, loc' = [loc EXCEPT ![x].from = s]
  PROVE  /\ Moves(x) /\ pc'[x] = l
         /\ loc'[x].task = loc[x].task /\ loc'[x].deadline = loc[x].deadline /\ loc'[x].version = loc[x].version
         /\ loc'[x].flags = loc[x].flags /\ loc'[x].sem = loc[x].sem /\ loc'[x].wakeup = loc[x].wakeup
         /\ loc'[x].ret = loc[x].ret /\ loc'[x].from = s
<1>1. loc \in [Threads -> Locals] BY Zenon DEF ControlOK
<1>2. /\ loc' \in [Threads -> Locals] /\ \A y \in Threads \ {x} : loc'[y] = loc[y]
      /\ loc'[x].task = loc[x].task /\ loc'[x].deadline = loc[x].deadline /\ loc'[x].version = loc[x].version
      /\ loc'[x].flags = loc[x].flags /\ loc'[x].sem = loc[x].sem /\ loc'[x].wakeup = loc[x].wakeup
      /\ loc'[x].ret = loc[x].ret /\ loc'[x].from = s
  BY <1>1, Zenon DEF Locals
<1>3. /\ pc' \in [Threads -> UserLabels \cup LoopLabels] /\ pc'[x] = l
      /\ \A y \in Threads \ {x} : pc'[y] = pc[y]
  BY Jump, Zenon
<1> QED BY <1>2, <1>3, Zenon DEF Moves

\* A jump of a thread that has, or has not, taken a semaphore.
LEMMA SetSem ==
  ASSUME ControlOK, NEW x \in Threads, NEW l \in UserLabels \cup LoopLabels, Goto(x, l),
         NEW b \in BOOLEAN, loc' = [loc EXCEPT ![x].sem = b]
  PROVE  /\ Moves(x) /\ pc'[x] = l
         /\ loc'[x].task = loc[x].task /\ loc'[x].deadline = loc[x].deadline /\ loc'[x].version = loc[x].version
         /\ loc'[x].flags = loc[x].flags /\ loc'[x].from = loc[x].from /\ loc'[x].wakeup = loc[x].wakeup
         /\ loc'[x].ret = loc[x].ret /\ loc'[x].sem = b
<1>1. loc \in [Threads -> Locals] BY Zenon DEF ControlOK
<1>2. /\ loc' \in [Threads -> Locals] /\ \A y \in Threads \ {x} : loc'[y] = loc[y]
      /\ loc'[x].task = loc[x].task /\ loc'[x].deadline = loc[x].deadline /\ loc'[x].version = loc[x].version
      /\ loc'[x].flags = loc[x].flags /\ loc'[x].from = loc[x].from /\ loc'[x].wakeup = loc[x].wakeup
      /\ loc'[x].ret = loc[x].ret /\ loc'[x].sem = b
  BY <1>1, Zenon DEF Locals
<1>3. /\ pc' \in [Threads -> UserLabels \cup LoopLabels] /\ pc'[x] = l
      /\ \A y \in Threads \ {x} : pc'[y] = pc[y]
  BY Jump, Zenon
<1> QED BY <1>2, <1>3, Zenon DEF Moves

\* A jump at the end of complete_task_().
LEMMA SetPosted ==
  ASSUME ControlOK, NEW x \in Threads, NEW l \in UserLabels \cup LoopLabels, Goto(x, l),
         loc' = [loc EXCEPT ![x].sem = FALSE, ![x].from = "Completed"]
  PROVE  /\ Moves(x) /\ pc'[x] = l
         /\ loc'[x].task = loc[x].task /\ loc'[x].deadline = loc[x].deadline /\ loc'[x].version = loc[x].version
         /\ loc'[x].flags = loc[x].flags /\ loc'[x].wakeup = loc[x].wakeup /\ loc'[x].ret = loc[x].ret
         /\ loc'[x].sem = FALSE /\ loc'[x].from = "Completed"
<1>1. loc \in [Threads -> Locals] BY Zenon DEF ControlOK
<1>0. "Completed" \in States BY Zenon DEF States
<1>2. /\ loc' \in [Threads -> Locals] /\ \A y \in Threads \ {x} : loc'[y] = loc[y]
      /\ loc'[x].task = loc[x].task /\ loc'[x].deadline = loc[x].deadline /\ loc'[x].version = loc[x].version
      /\ loc'[x].flags = loc[x].flags /\ loc'[x].wakeup = loc[x].wakeup /\ loc'[x].ret = loc[x].ret
      /\ loc'[x].sem = FALSE /\ loc'[x].from = "Completed"
  BY <1>1, <1>0, Zenon DEF Locals
<1>3. /\ pc' \in [Threads -> UserLabels \cup LoopLabels] /\ pc'[x] = l
      /\ \A y \in Threads \ {x} : pc'[y] = pc[y]
  BY Jump, Zenon
<1> QED BY <1>2, <1>3, Zenon DEF Moves

\* A jump of the event loop thread, which knows where to go on later.
LEMMA SetRet ==
  ASSUME ControlOK, NEW x \in Threads, NEW l \in UserLabels \cup LoopLabels, Goto(x, l),
         NEW r \in Returns, loc' = [loc EXCEPT ![x].ret = r]
  PROVE  /\ Moves(x) /\ pc'[x] = l
         /\ loc'[x].task = loc[x].task /\ loc'[x].deadline = loc[x].deadline /\ loc'[x].version = loc[x].version
         /\ loc'[x].flags = loc[x].flags /\ loc'[x].from = loc[x].from /\ loc'[x].sem = loc[x].sem
         /\ loc'[x].wakeup = loc[x].wakeup /\ loc'[x].ret = r
<1>1. loc \in [Threads -> Locals] BY Zenon DEF ControlOK
<1>2. /\ loc' \in [Threads -> Locals] /\ \A y \in Threads \ {x} : loc'[y] = loc[y]
      /\ loc'[x].task = loc[x].task /\ loc'[x].deadline = loc[x].deadline /\ loc'[x].version = loc[x].version
      /\ loc'[x].flags = loc[x].flags /\ loc'[x].from = loc[x].from /\ loc'[x].sem = loc[x].sem
      /\ loc'[x].wakeup = loc[x].wakeup /\ loc'[x].ret = r
  BY <1>1, Zenon DEF Locals
<1>3. /\ pc' \in [Threads -> UserLabels \cup LoopLabels] /\ pc'[x] = l
      /\ \A y \in Threads \ {x} : pc'[y] = pc[y]
  BY Jump, Zenon
<1> QED BY <1>2, <1>3, Zenon DEF Moves

\* A jump of a thread whose locals are all set, or reset.
LEMMA SetLocals ==
  ASSUME ControlOK, NEW x \in Threads, NEW l \in UserLabels \cup LoopLabels, Goto(x, l),
         NEW m \in Locals, loc' = [loc EXCEPT ![x] = m]
  PROVE  Moves(x) /\ pc'[x] = l /\ loc'[x] = m
<1>1. loc \in [Threads -> Locals] BY Zenon DEF ControlOK
<1>2. /\ loc' \in [Threads -> Locals] /\ \A y \in Threads \ {x} : loc'[y] = loc[y]
      /\ loc'[x] = m
  BY <1>1, Zenon
<1> QED BY <1>2, Jump, Zenon DEF Moves

\* The locals have their types, whoever moves.
LEMMA LocalsTyped ==
  ASSUME ControlOK, NEW x \in Threads
  PROVE  /\ pc[x] \in UserLabels \cup LoopLabels
         /\ loc[x].task \in Tasks \cup {NoTask} /\ loc[x].deadline \in Int /\ loc[x].version \in Int
         /\ loc[x].flags \in SUBSET Flags /\ loc[x].from \in States /\ loc[x].sem \in BOOLEAN
         /\ loc[x].wakeup \in Int /\ loc[x].ret \in Returns
BY Zenon DEF ControlOK, Locals

\* A user in the middle of a call has a task.
LEMMA UserTask ==
  ASSUME ControlOK, NEW x \in Users, pc[x] \notin {"idle", "set", "commit", "join"}
  PROVE  /\ Task(x) \in Tasks /\ loc[x].ret \in {"unguard", "return"}
         /\ x \in Threads /\ x # Loop
BY ThreadsAssumption, Zenon DEF ControlOK, LocalsOK, UserLocals, Task, Threads

\* The labels, one by one.
LEMMA LabelSets ==
  /\ UserLabels = {"idle", "store", "cancel", "paused", "exchange", "size", "push", "link",
        "set", "commit", "unguard", "return", "join", "trylock", "unlock_push", "renew", "dec",
        "x_flags", "c_start", "c_sem", "c_done", "c_post", "update", "u_set", "u_commit",
        "u_check", "unlock", "w_attach", "w_spin", "w_state", "w_pointer", "w_sem", "w_end"}
  /\ LoopLabels = {"wait", "lock", "stopped", "pop", "sleep", "load", "newstate", "recheck",
        "exec", "run", "renewed", "pause", "p_sleep", "p_check", "reborn", "x_flags", "c_start",
        "c_sem", "c_done", "c_post", "update", "u_set", "u_commit", "u_check", "unlock"}
BY Zenon DEF UserLabels, LoopLabels, RequestLabels, InplaceLabels, SharedLabels, CompleteLabels,
   UpdateLabels, WaitLabels, FetchLabels, ExecuteLabels

\* The steps of a request that go on with the task.
LEMMA RequestWorks ==
  ASSUME TypeOK, NEW x \in Users,
         \/ RenewStore(x) \/ RenewCancel(x) \/ RenewPaused(x) \/ ExchangeReady(x)
         \/ CommitSize(x) \/ Push(x) \/ Link(x) \/ RequestSet(x)
         \/ UnlockPush(x) \/ RenewInplace(x) \/ RenewedInplace(x)
  PROVE  Works(x)
<1> USE LabelSets
<1>1. ControlOK /\ x \in Threads BY Zenon DEF TypeOK, Threads
<1>2. pc \in [Threads -> UserLabels \cup LoopLabels] /\ loc \in [Threads -> Locals]
  BY <1>1, Zenon DEF ControlOK
<1>3. pc[x] \in UserLabels /\ loc[x].ret \in {"unguard", "return", "join"}
  BY <1>1, ThreadsAssumption, Zenon DEF ControlOK, LocalsOK, UserLocals
<1>4. CASE RenewStore(x)
  <2>1. pc[x] = "store" BY <1>4, Zenon DEF RenewStore, At
  <2>2. Task(x) \in Tasks BY <1>1, <2>1, UserTask, Zenon
  <2>3. version[Task(x)] + 1 \in Int BY <2>2, SMT, Z3 DEF TypeOK, DataOK
  <2>4. loc' = [loc EXCEPT ![x].version = version[Task(x)] + 1] BY <1>4, Zenon DEF RenewStore
  <2>5. PICK l \in UserLabels \cup LoopLabels : Goto(x, l) BY <1>4, Zenon DEF RenewStore
  <2> QED BY <1>1, <2>3, <2>4, <2>5, SetVersion, Zenon
<1>5. CASE RenewCancel(x) \/ RenewPaused(x) \/ ExchangeReady(x) \/ CommitSize(x) \/ Push(x)
  <2>1. loc' = loc BY <1>5, Zenon DEF RenewCancel, RenewPaused, ExchangeReady, CommitSize, Push
  <2>2. \E l \in UserLabels : Goto(x, l)
    BY <1>3, <1>5, Zenon DEF RenewCancel, RenewPaused, ExchangeReady, CommitSize, Push
  <2> QED BY <1>1, <2>1, <2>2, JumpWorks, Zenon
<1>6. CASE Link(x)
  <2>1. loc' = [loc EXCEPT ![x].wakeup = 0] /\ Goto(x, "set") BY <1>6, Zenon DEF Link
  <2>2. "set" \in UserLabels \cup LoopLabels /\ 0 \in Int BY SMT, Z3
  <2> QED BY <1>1, <2>1, <2>2, SetWakeup, Zenon
<1>7. CASE RequestSet(x)
  <2>1. loc' = loc BY <1>7, Zenon DEF RequestSet, TrySet, Commit
  <2>2. \E l \in UserLabels : Goto(x, l) BY <1>3, <1>7, Zenon DEF RequestSet, TrySet, Commit
  <2> QED BY <1>1, <2>1, <2>2, JumpWorks
<1>8. CASE UnlockPush(x) \/ RenewedInplace(x)
  <2>1. loc' = loc BY <1>8, Zenon DEF UnlockPush, RenewedInplace
  <2>2. \E l \in UserLabels : Goto(x, l) BY <1>8, Zenon DEF UnlockPush, RenewedInplace
  <2> QED BY <1>1, <2>1, <2>2, JumpWorks
<1>9. CASE RenewInplace(x)
  <2>1. loc' = loc BY <1>9, Zenon DEF RenewInplace, Panic
  <2>2. pc' = pc \/ \E l \in UserLabels : Goto(x, l) BY <1>9, Zenon DEF RenewInplace, Panic
  <2> QED BY <1>1, <1>2, <2>1, <2>2, JumpWorks, Zenon DEF Works, Moves
<1> QED BY <1>4, <1>5, <1>6, <1>7, <1>8, <1>9, Zenon

\* The steps of wait() that go on with the task.
LEMMA WaitWorks ==
  ASSUME TypeOK, NEW x \in Users,
         \/ WaitAttach(x) \/ WaitSpin(x) \/ WaitReadState(x) \/ WaitReadSem(x) \/ WaitSem(x)
  PROVE  Works(x)
<1> USE LabelSets
<1>1. ControlOK /\ x \in Threads BY Zenon DEF TypeOK, Threads
<1>2. loc' = loc BY Zenon DEF WaitAttach, WaitSpin, WaitReadState, WaitReadSem, WaitSem
<1>3. \E l \in UserLabels : Goto(x, l)
  BY Zenon DEF WaitAttach, WaitSpin, WaitReadState, WaitReadSem, WaitSem
<1> QED BY <1>1, <1>2, <1>3, JumpWorks, Zenon

\* The steps of update_wakeup_timer_() and the first of complete_task_().
LEMMA SharedWorks ==
  ASSUME TypeOK, NEW x \in Threads,
         UpdateWakeup(x) \/ UpdateSet(x) \/ UpdateCheck(x) \/ CompleteStart(x)
  PROVE  Works(x)
<1> USE LabelSets
<1>1. ControlOK BY Zenon DEF TypeOK
<1>2. CASE UpdateWakeup(x)
  <2>1. "u_set" \in UserLabels \cup LoopLabels /\ Goto(x, "u_set") BY <1>2, Zenon DEF UpdateWakeup
  <2>2. CASE sleeping_queue = <<>> \/ ready_queue_size # 0
    <3>1. 0 \in Int /\ -1 \in Int BY SMT, Z3
    <3>2. loc' = [loc EXCEPT ![x].wakeup = 0] \/ loc' = [loc EXCEPT ![x].wakeup = -1]
      BY <1>2, <2>2, Zenon DEF UpdateWakeup
    <3> QED BY <1>1, <2>1, <3>1, <3>2, SetWakeup, Zenon
  <2>3. CASE sleeping_queue # <<>> /\ ready_queue_size = 0
    <3>1. Head(sleeping_queue) \in Tasks BY <2>3, SMT, Z3 DEF TypeOK, DataOK
    <3>2. effective_deadline[Head(sleeping_queue)] \in Int BY <3>1, Zenon DEF TypeOK, DataOK
    <3>3. loc' = [loc EXCEPT ![x].wakeup = effective_deadline[Head(sleeping_queue)]]
      BY <1>2, <2>3, Zenon DEF UpdateWakeup
    <3> QED BY <1>1, <2>1, <3>2, <3>3, SetWakeup, Zenon
  <2> QED BY <2>2, <2>3, Zenon
<1>3. CASE UpdateSet(x) \/ CompleteStart(x)
  <2>1. loc' = loc BY <1>3, Zenon DEF UpdateSet, TrySet, Commit, CompleteStart
  <2>2. \E l \in UserLabels : Goto(x, l) BY <1>3, Zenon DEF UpdateSet, TrySet, Commit, CompleteStart
  <2> QED BY <1>1, <2>1, <2>2, JumpWorks, Zenon
<1>4. CASE UpdateCheck(x)
  <2>1. \E l \in UserLabels \cup LoopLabels : Goto(x, l) BY <1>4, Zenon DEF UpdateCheck, FetchLabel
  <2>2. loc' = loc \/ loc' = [loc EXCEPT ![x].wakeup = 0] BY <1>4, Zenon DEF UpdateCheck
  <2> QED BY <1>1, <2>1, <2>2, JumpWorks, SetWakeup, SMT, Z3
<1> QED BY <1>2, <1>3, <1>4, Zenon

\* The steps of the event loop thread that go on with the task.
LEMMA LoopWorks ==
  ASSUME TypeOK,
         \/ LoopWake \/ LoopLock \/ FetchAgain \/ FetchPanic \/ ExecuteFinish
         \/ ExecuteOperation \/ ExecutePause \/ PauseTask \/ ExecuteContinue
  PROVE  Works(Loop)
<1> USE LabelSets
<1>1. ControlOK /\ Loop \in Threads BY Zenon DEF TypeOK, Threads
<1>2. loc' = loc
  BY Zenon DEF LoopWake, LoopLock, FetchAgain, FetchPanic, ExecuteFinish, ExecuteOperation,
     ExecutePause, PauseTask, ExecuteContinue, Panic
<1>3. pc' = pc \/ \E l \in LoopLabels : Goto(Loop, l)
  BY Zenon DEF LoopWake, LoopLock, FetchAgain, FetchPanic, ExecuteFinish, ExecuteOperation,
     ExecutePause, PauseTask, ExecuteContinue, Panic, FetchLabel
<1>4. CASE pc' = pc BY <1>1, <1>2, <1>4, Zenon DEF Works, Moves, ControlOK
<1> QED BY <1>1, <1>2, <1>3, <1>4, JumpWorks, Zenon

\* A call of a user thread starts with fresh locals, or ends at once.
LEMMA CallMoves ==
  ASSUME TypeOK, NEW x \in Users, NEW t \in Tasks
  PROVE  /\ \A d \in Int : Renew(x, t, d) =>
               \/ UNCHANGED <<pc, loc>>
               \/ /\ Moves(x) /\ pc'[x] = "store" /\ loc'[x].task = t /\ loc'[x].deadline = d
                  /\ loc'[x].ret = "unguard" /\ loc'[x].sem = FALSE
         /\ Resume(x, t) =>
               \/ UNCHANGED <<pc, loc>>
               \/ /\ Moves(x) /\ pc'[x] = "exchange" /\ loc'[x].task = t
                  /\ loc'[x].ret = "return" /\ loc'[x].sem = FALSE
         /\ Wait(x, t) =>
               \/ UNCHANGED <<pc, loc>>
               \/ /\ Moves(x) /\ pc'[x] = "w_attach" /\ loc'[x].task = t
                  /\ loc'[x].ret = "return" /\ loc'[x].sem = FALSE
<1>1. ControlOK /\ x \in Threads BY Zenon DEF TypeOK, Threads
<1>2. {"store", "exchange", "w_attach"} \subseteq UserLabels \cup LoopLabels BY LabelSets, Zenon
<1>3. ASSUME NEW d \in Int, Renew(x, t, d), ~UNCHANGED <<pc, loc>>
      PROVE  /\ Moves(x) /\ pc'[x] = "store" /\ loc'[x].task = t /\ loc'[x].deadline = d
             /\ loc'[x].ret = "unguard" /\ loc'[x].sem = FALSE
  <2> DEFINE m == [NoLocals EXCEPT !.task = t, !.ret = "unguard", !.deadline = d]
  <2>1. loc' = [loc EXCEPT ![x] = m] /\ Goto(x, "store") BY <1>3, Zenon DEF Renew
  <2>2. m \in Locals /\ m.task = t /\ m.ret = "unguard" /\ m.deadline = d /\ m.sem = FALSE
    <3>1. "unguard" \in Returns BY Zenon DEF Returns
    <3> QED BY <3>1, FreshLocals, Zenon DEF Locals
  <2> HIDE DEF m
  <2>3. "store" \in UserLabels \cup LoopLabels BY <1>2, Zenon
  <2> QED BY <1>1, <2>1, <2>2, <2>3, SetLocals, Zenon
<1>4. ASSUME NEW l \in {"exchange", "w_attach"}, Goto(x, l),
             loc' = [loc EXCEPT ![x] = [NoLocals EXCEPT !.task = t]]
      PROVE  /\ Moves(x) /\ pc'[x] = l /\ loc'[x].task = t
             /\ loc'[x].ret = "return" /\ loc'[x].sem = FALSE
  <2> DEFINE m == [NoLocals EXCEPT !.task = t]
  <2>1. m \in Locals /\ m.task = t /\ m.ret = "return" /\ m.sem = FALSE BY TaskLocals, Zenon
  <2>2. loc' = [loc EXCEPT ![x] = m] BY <1>4, Zenon
  <2> HIDE DEF m
  <2>3. l \in UserLabels \cup LoopLabels /\ Goto(x, l) BY <1>2, <1>4, Zenon
  <2> QED BY <1>1, <2>1, <2>2, <2>3, SetLocals, Zenon
<1>5. ASSUME Resume(x, t), ~UNCHANGED <<pc, loc>>
      PROVE  /\ Goto(x, "exchange") /\ loc' = [loc EXCEPT ![x] = [NoLocals EXCEPT !.task = t]]
  BY <1>5, Zenon DEF Resume
<1>6. ASSUME Wait(x, t), ~UNCHANGED <<pc, loc>>
      PROVE  /\ Goto(x, "w_attach") /\ loc' = [loc EXCEPT ![x] = [NoLocals EXCEPT !.task = t]]
  BY <1>6, Zenon DEF Wait
<1> QED BY <1>3, <1>4, <1>5, <1>6, Zenon

\* A call of a user thread ends, and the destructor begins.
LEMMA ReturnMoves ==
  ASSUME TypeOK, NEW x \in Users
  PROVE  /\ Return(x) \/ WaitEnd(x) => Moves(x) /\ pc'[x] = "idle" /\ loc'[x] = NoLocals
         /\ Stop(x) => Moves(x) /\ pc'[x] = "set" /\ loc'[x].ret = "join" /\ loc'[x].sem = FALSE
<1>1. ControlOK /\ x \in Threads BY Zenon DEF TypeOK, Threads
<1>2. {"idle", "set"} \subseteq UserLabels \cup LoopLabels BY LabelSets, Zenon
<1>3. ASSUME Return(x) \/ WaitEnd(x)
      PROVE  Goto(x, "idle") /\ loc' = [loc EXCEPT ![x] = NoLocals]
  BY <1>3, Zenon DEF Return, WaitEnd
<1>4. ASSUME Stop(x)
      PROVE  Moves(x) /\ pc'[x] = "set" /\ loc'[x].ret = "join" /\ loc'[x].sem = FALSE
  <2> DEFINE m == [NoLocals EXCEPT !.ret = "join"]
  <2>1. loc' = [loc EXCEPT ![x] = m] /\ Goto(x, "set") BY <1>4, Zenon DEF Stop
  <2>2. "join" \in Returns BY Zenon DEF Returns
  <2>3. m \in Locals /\ m.ret = "join" /\ m.sem = FALSE BY <2>2, StopLocals, Zenon
  <2> HIDE DEF m
  <2>4. "set" \in UserLabels \cup LoopLabels BY <1>2, Zenon
  <2> QED BY <1>1, <2>1, <2>3, <2>4, SetLocals, Zenon
<1> QED BY <1>1, <1>2, <1>3, <1>4, FreshLocals, SetLocals, Zenon

\* Only the flags a thread has looked at change when it tries to get the lock.
LEMMA TryLockMoves ==
  ASSUME TypeOK, NEW x \in Users, TryLock(x)
  PROVE  /\ Moves(x) /\ pc'[x] \in {"renew", "unlock_push", "push"}
         /\ loc'[x].task = loc[x].task /\ loc'[x].ret = loc[x].ret /\ loc'[x].sem = loc[x].sem
         /\ loc'[x].deadline = loc[x].deadline
         /\ pc'[x] # "push" => loc'[x].flags = flags[Task(x)]
<1>1. ControlOK /\ x \in Threads BY Zenon DEF TypeOK, Threads
<1>2. {"renew", "unlock_push", "push"} \subseteq UserLabels \cup LoopLabels BY LabelSets, Zenon
<1>3. CASE task_mutex = NoThread
  <2>1. pc[x] = "trylock" BY Zenon DEF TryLock, At
  <2>2. Task(x) \in Tasks BY <1>1, <2>1, UserTask, Zenon
  <2>3. flags[Task(x)] \in SUBSET Flags BY <2>2, Zenon DEF TypeOK, DataOK
  <2>4. loc' = [loc EXCEPT ![x].flags = flags[Task(x)]] BY <1>3, Zenon DEF TryLock
  <2>5. PICK l \in {"renew", "unlock_push"} : Goto(x, l) BY <1>3, Zenon DEF TryLock
  <2>6. l \in UserLabels \cup LoopLabels BY <1>2, Zenon
  <2>7. l # "push" BY <2>5, Zenon
  <2> QED BY <1>1, <2>3, <2>4, <2>5, <2>6, <2>7, SetFlags, Zenon
<1>4. CASE task_mutex # NoThread
  <2>1. loc' = loc /\ Goto(x, "push") BY <1>4, Zenon DEF TryLock
  <2> QED BY <1>1, <1>2, <2>1, JumpWorks, Zenon DEF Works
<1> QED BY <1>3, <1>4, Zenon

\* The locals that complete_task_() and its caller leave alone.
KeepsCall(x) == loc'[x].task = loc[x].task /\ loc'[x].ret = loc[x].ret

\* The steps of the completion of a task that set locals.
LEMMA CompleteMoves ==
  ASSUME TypeOK, NEW x \in Threads, pc[x] \in {"x_flags"} \cup CompleteLabels => Task(x) \in Tasks
  PROVE  /\ CancelFlags(x) =>
               /\ Moves(x) /\ KeepsCall(x) /\ pc'[x] = "c_start"
               /\ loc'[x].from = "Cancelling" /\ loc'[x].sem = loc[x].sem
         /\ CompleteTakeSem(x) =>
               /\ Moves(x) /\ KeepsCall(x) /\ pc'[x] = "c_done"
               /\ loc'[x].from = loc[x].from /\ loc'[x].sem = sem_attached[Task(x)]
         /\ CompleteDone(x) =>
               /\ Moves(x) /\ KeepsCall(x) /\ pc'[x] = "c_post" /\ loc'[x].from = loc[x].from
               /\ loc'[x].sem = (loc[x].sem /\ state[Task(x)] = "Completing")
         /\ CompletePost(x) /\ (x = Loop => loc[x].ret \in LoopLabels) =>
               /\ Moves(x) /\ KeepsCall(x) /\ pc'[x] = IF x = Loop THEN loc[x].ret ELSE "dec"
               /\ loc'[x].from = "Completed" /\ loc'[x].sem = FALSE
<1>1. ControlOK BY Zenon DEF TypeOK
<1>2. {"c_start", "c_done", "c_post", "dec"} \subseteq UserLabels \cup LoopLabels BY LabelSets, Zenon
<1>3. "Cancelling" \in States BY Zenon DEF States
<1>4. loc[x].sem \in BOOLEAN BY <1>1, LocalsTyped, Zenon
<1>5. ASSUME CancelFlags(x)
      PROVE  /\ Moves(x) /\ KeepsCall(x) /\ pc'[x] = "c_start"
             /\ loc'[x].from = "Cancelling" /\ loc'[x].sem = loc[x].sem
  <2>1. Goto(x, "c_start") /\ loc' = [loc EXCEPT ![x].from = "Cancelling"]
    BY <1>5, Zenon DEF CancelFlags
  <2>2. "c_start" \in UserLabels \cup LoopLabels BY <1>2, Zenon
  <2> QED BY <1>1, <1>3, <2>1, <2>2, SetFrom, Zenon DEF KeepsCall
<1>6. ASSUME CompleteTakeSem(x)
      PROVE  /\ Moves(x) /\ KeepsCall(x) /\ pc'[x] = "c_done"
             /\ loc'[x].from = loc[x].from /\ loc'[x].sem = sem_attached[Task(x)]
  <2>1. Goto(x, "c_done") /\ loc' = [loc EXCEPT ![x].sem = sem_attached[Task(x)]]
    BY <1>6, Zenon DEF CompleteTakeSem
  <2>2. "c_done" \in UserLabels \cup LoopLabels BY <1>2, Zenon
  <2>3. sem_attached[Task(x)] \in BOOLEAN
    BY <1>6, Zenon DEF CompleteTakeSem, At, CompleteLabels, TypeOK, DataOK
  <2> QED BY <1>1, <2>1, <2>2, <2>3, SetSem, Zenon DEF KeepsCall
<1>7. ASSUME CompleteDone(x)
      PROVE  /\ Moves(x) /\ KeepsCall(x) /\ pc'[x] = "c_post" /\ loc'[x].from = loc[x].from
             /\ loc'[x].sem = (loc[x].sem /\ state[Task(x)] = "Completing")
  <2>1. Goto(x, "c_post") /\ "c_post" \in UserLabels \cup LoopLabels BY <1>2, <1>7, Zenon DEF CompleteDone
  <2>2. CASE state[Task(x)] = "Completing"
    <3>1. loc' = loc BY <1>7, <2>2, Zenon DEF CompleteDone
    <3> QED BY <1>1, <1>4, <2>1, <2>2, <3>1, JumpWorks, Zenon DEF Works, KeepsCall
  <2>3. CASE state[Task(x)] # "Completing"
    <3>1. loc' = [loc EXCEPT ![x].sem = FALSE] BY <1>7, <2>3, Zenon DEF CompleteDone
    <3>2. FALSE \in BOOLEAN BY Zenon
    <3> QED BY <1>1, <2>1, <2>3, <3>1, <3>2, SetSem, ZenonT(30) DEF KeepsCall
  <2> QED BY <2>2, <2>3, Zenon
<1>8. ASSUME CompletePost(x), x = Loop => loc[x].ret \in LoopLabels
      PROVE  /\ Moves(x) /\ KeepsCall(x) /\ pc'[x] = IF x = Loop THEN loc[x].ret ELSE "dec"
             /\ loc'[x].from = "Completed" /\ loc'[x].sem = FALSE
  <2> DEFINE l == IF x = Loop THEN loc[x].ret ELSE "dec"
  <2>1. Goto(x, l) /\ loc' = [loc EXCEPT ![x].sem = FALSE, ![x].from = "Completed"]
    BY <1>8, Zenon DEF CompletePost
  <2>2. l \in UserLabels \cup LoopLabels BY <1>2, <1>8, Zenon
  <2> HIDE DEF l
  <2>3. Moves(x) /\ KeepsCall(x) /\ pc'[x] = l /\ loc'[x].from = "Completed" /\ loc'[x].sem = FALSE
    BY <1>1, <2>1, <2>2, SetPosted, Zenon DEF KeepsCall
  <2> QED BY <2>3, Zenon DEF l
<1> QED BY <1>5, <1>6, <1>7, <1>8, Zenon

\* The lock is released; the event loop thread forgets its task.
LEMMA UnlockMoves ==
  ASSUME TypeOK, NEW x \in Threads, Unlock(x)
  PROVE  /\ x # Loop => Works(x) /\ pc'[x] = "unguard"
         /\ x = Loop => Moves(x) /\ pc'[x] \in {"stopped", "wait"} /\ loc'[x] = NoLocals
<1>1. ControlOK BY Zenon DEF TypeOK
<1>2. CASE x # Loop
  <2>1. Goto(x, "unguard") /\ loc' = loc BY <1>2, Zenon DEF Unlock
  <2>2. "unguard" \in UserLabels \cup LoopLabels BY LabelSets, Zenon
  <2> QED BY <1>1, <1>2, <2>1, <2>2, JumpWorks, Zenon
<1>3. CASE x = Loop
  <2>1. PICK l \in {"stopped", "wait"} : Goto(x, l) BY <1>3, Zenon DEF Unlock
  <2>2. loc' = [loc EXCEPT ![x] = NoLocals] BY <1>3, Zenon DEF Unlock
  <2>3. l \in UserLabels \cup LoopLabels BY LabelSets, Zenon
  <2> QED BY <1>1, <1>3, <2>1, <2>2, <2>3, FreshLocals, SetLocals, Zenon
<1> QED BY <1>2, <1>3, Zenon

\* The steps of fetch_ready_task_() and fetch_sleeping_task_() that set locals.
LEMMA FetchMoves ==
  ASSUME TypeOK
  PROVE  /\ FetchPop =>
               \/ /\ Moves(Loop) /\ pc'[Loop] \in {"sleep", "update"} /\ loc'[Loop] = NoLocals
                  /\ ready_queue' = ready_queue
               \/ /\ Moves(Loop) /\ pc'[Loop] = "load"
                  /\ ready_queue # <<>> /\ ready_queue' = Tail(ready_queue)
                  /\ loc'[Loop].task = Head(ready_queue) /\ loc'[Loop].sem = FALSE
                  /\ loc'[Loop].flags = flags[Head(ready_queue)]
         /\ FetchLoad =>
               \/ /\ Works(Loop) /\ pc'[Loop] = "pop" /\ ready_queue' = Append(ready_queue, Task(Loop))
               \/ /\ Moves(Loop) /\ pc'[Loop] = "newstate" /\ ready_queue' = ready_queue
                  /\ loc'[Loop].task = loc[Loop].task /\ loc'[Loop].sem = loc[Loop].sem
                  /\ loc'[Loop].flags = loc[Loop].flags
                  /\ loc'[Loop].deadline = renewed_deadline[Task(Loop)]
         /\ FetchSleeping =>
               \/ /\ Works(Loop) /\ pc'[Loop] \in {"pop", "update"}
               \/ /\ Moves(Loop) /\ pc'[Loop] = "exec" /\ sleeping_queue # <<>>
                  /\ loc'[Loop].task = Head(sleeping_queue) /\ loc'[Loop].sem = FALSE
                  /\ sleeping_queue' = Tail(sleeping_queue)
                  /\ state[Head(sleeping_queue)] = "Sleeping"
                  /\ state' = [state EXCEPT ![Head(sleeping_queue)] = "Processing"]
<1>1. ControlOK /\ Loop \in Threads BY Zenon DEF TypeOK, Threads
<1>2. {"sleep", "update", "load", "pop", "newstate", "exec"} \subseteq UserLabels \cup LoopLabels
  BY LabelSets, Zenon
<1>3. ASSUME FetchPop
      PROVE  \/ /\ Moves(Loop) /\ pc'[Loop] \in {"sleep", "update"} /\ loc'[Loop] = NoLocals
                /\ ready_queue' = ready_queue
             \/ /\ Moves(Loop) /\ pc'[Loop] = "load"
                /\ ready_queue # <<>> /\ ready_queue' = Tail(ready_queue)
                /\ loc'[Loop].task = Head(ready_queue) /\ loc'[Loop].sem = FALSE
                /\ loc'[Loop].flags = flags[Head(ready_queue)]
  <2>1. PICK t \in Popped : IF t = NoTask
                  THEN /\ Goto(Loop, IF fetch_ready THEN "sleep" ELSE "update")
                       /\ loc' = [loc EXCEPT ![Loop] = NoLocals] /\ UNCHANGED ready_queue
                  ELSE /\ Goto(Loop, "load")
                       /\ loc' = [loc EXCEPT ![Loop] =
                                     [NoLocals EXCEPT !.task = t, !.flags = flags[t]]]
                       /\ ready_queue' = Tail(ready_queue)
    BY <1>3, Zenon DEF FetchPop
  <2>2. CASE t = NoTask
    <3>1. loc' = [loc EXCEPT ![Loop] = NoLocals] /\ ready_queue' = ready_queue BY <2>1, <2>2, Zenon
    <3>2. PICK l \in {"sleep", "update"} : Goto(Loop, l) BY <2>1, <2>2, Zenon
    <3>3. l \in UserLabels \cup LoopLabels BY <1>2, Zenon
    <3> QED BY <1>1, <3>1, <3>2, <3>3, FreshLocals, SetLocals, Zenon
  <2>3. CASE t # NoTask
    <3>1. t = Head(ready_queue) /\ ready_queue # <<>> BY <2>3, Zenon DEF Popped
    <3>2. t \in Tasks BY <3>1, SMT, Z3 DEF TypeOK, DataOK
    <3>3. flags[t] \in SUBSET Flags BY <3>2, Zenon DEF TypeOK, DataOK
    <3> DEFINE m == [NoLocals EXCEPT !.task = t, !.flags = flags[t]]
    <3>4. m \in Locals /\ m.task = t /\ m.flags = flags[t] /\ m.sem = FALSE
      BY <3>2, <3>3, FreshLocals, Zenon DEF Locals
    <3>5. /\ loc' = [loc EXCEPT ![Loop] = m] /\ Goto(Loop, "load")
          /\ ready_queue' = Tail(ready_queue)
      BY <2>1, <2>3, Zenon
    <3> HIDE DEF m
    <3>6. "load" \in UserLabels \cup LoopLabels BY <1>2, Zenon
    <3>7. Moves(Loop) /\ pc'[Loop] = "load" /\ loc'[Loop] = m
      BY <1>1, <3>4, <3>5, <3>6, SetLocals, Zenon
    <3> QED BY <3>1, <3>4, <3>5, <3>7, Zenon
  <2> QED BY <2>2, <2>3, Zenon
<1>4. ASSUME FetchLoad
      PROVE  \/ /\ Works(Loop) /\ pc'[Loop] = "pop"
                /\ ready_queue' = Append(ready_queue, Task(Loop))
             \/ /\ Moves(Loop) /\ pc'[Loop] = "newstate" /\ ready_queue' = ready_queue
                /\ loc'[Loop].task = loc[Loop].task /\ loc'[Loop].sem = loc[Loop].sem
                /\ loc'[Loop].flags = loc[Loop].flags
                /\ loc'[Loop].deadline = renewed_deadline[Task(Loop)]
  <2>1. CASE Dirty(Task(Loop))
    <3>1. loc' = loc /\ Goto(Loop, "pop") /\ ready_queue' = Append(ready_queue, Task(Loop))
      BY <1>4, <2>1, Zenon DEF FetchLoad
    <3>2. "pop" \in UserLabels \cup LoopLabels BY <1>2, Zenon
    <3> QED BY <1>1, <3>1, <3>2, JumpWorks, Zenon
  <2>2. CASE ~Dirty(Task(Loop))
    <3> DEFINE d == renewed_deadline[Task(Loop)]  v == version[Task(Loop)]
    <3>1. Task(Loop) \in Tasks BY <1>1, <1>4, Zenon DEF FetchLoad, At, ControlOK, LocalsOK, LoopLocals
    <3>2. d \in Int /\ v \in Int BY <3>1, Zenon DEF TypeOK, DataOK
    <3>3. /\ loc' = [loc EXCEPT ![Loop].deadline = d, ![Loop].version = v]
          /\ Goto(Loop, "newstate") /\ ready_queue' = ready_queue
      BY <1>4, <2>2, Zenon DEF FetchLoad
    <3>4. "newstate" \in UserLabels \cup LoopLabels BY <1>2, Zenon
    <3> HIDE DEF d, v
    <3>5. /\ Moves(Loop) /\ pc'[Loop] = "newstate" /\ loc'[Loop].task = loc[Loop].task
          /\ loc'[Loop].sem = loc[Loop].sem /\ loc'[Loop].flags = loc[Loop].flags
          /\ loc'[Loop].deadline = d
      BY <1>1, <3>2, <3>3, <3>4, SetDeadline, Zenon
    <3> QED BY <3>3, <3>5, Zenon DEF d
  <2> QED BY <2>1, <2>2, Zenon
<1>5. ASSUME FetchSleeping
      PROVE  \/ /\ Works(Loop) /\ pc'[Loop] \in {"pop", "update"}
             \/ /\ Moves(Loop) /\ pc'[Loop] = "exec" /\ sleeping_queue # <<>>
                /\ loc'[Loop].task = Head(sleeping_queue) /\ loc'[Loop].sem = FALSE
                /\ sleeping_queue' = Tail(sleeping_queue)
                /\ state[Head(sleeping_queue)] = "Sleeping"
                /\ state' = [state EXCEPT ![Head(sleeping_queue)] = "Processing"]
  <2> DEFINE t == Head(sleeping_queue)
  <2>1. CASE \/ sleeping_queue = <<>> \/ effective_deadline[t] > now
             \/ state[t] # "Sleeping"
    <3>1. loc' = loc /\ \E l \in {"pop", "update"} : Goto(Loop, l)
      BY <1>5, <2>1, Zenon DEF FetchSleeping
    <3> QED BY <1>1, <1>2, <3>1, JumpWorks, Zenon
  <2>2. CASE ~ (\/ sleeping_queue = <<>> \/ effective_deadline[t] > now
                \/ state[t] # "Sleeping")
    <3> DEFINE m == [NoLocals EXCEPT !.task = t]
    <3>1. t \in Tasks BY <2>2, SMT, Z3 DEF TypeOK, DataOK
    <3>2. /\ loc' = [loc EXCEPT ![Loop] = m] /\ Goto(Loop, "exec")
          /\ sleeping_queue' = Tail(sleeping_queue)
          /\ state' = [state EXCEPT ![t] = "Processing"]
      BY <1>5, <2>2, Zenon DEF FetchSleeping
    <3>3. m \in Locals /\ m.task = t /\ m.ret = "return" /\ m.sem = FALSE
      BY <3>1, TaskLocals, Zenon
    <3>4. "exec" \in UserLabels \cup LoopLabels BY <1>2, Zenon
    <3> HIDE DEF m
    <3>5. Moves(Loop) /\ pc'[Loop] = "exec" /\ loc'[Loop] = m
      BY <1>1, <3>2, <3>3, <3>4, SetLocals, Zenon
    <3> QED BY <2>2, <3>2, <3>3, <3>5, Zenon
  <2> QED BY <2>1, <2>2, Zenon
<1> QED BY <1>3, <1>4, <1>5, Zenon

\* The other steps of the event loop thread that set locals.
LEMMA ExecuteMoves ==
  ASSUME TypeOK
  PROVE  /\ FetchNewState =>
               \/ Works(Loop) /\ pc' = pc
               \/ /\ Moves(Loop) /\ pc'[Loop] = "recheck"
                  /\ loc'[Loop].task = loc[Loop].task /\ loc'[Loop].sem = loc[Loop].sem
                  /\ loc'[Loop].flags = loc[Loop].flags /\ loc'[Loop].deadline = loc[Loop].deadline
                  /\ loc'[Loop].from = NewState(loc[Loop].flags, loc[Loop].deadline)
         /\ FetchReady =>
               /\ Moves(Loop) /\ pc'[Loop] \in {"x_flags", "exec", "pop"}
               /\ loc'[Loop].task = loc[Loop].task /\ loc'[Loop].sem = loc[Loop].sem
               /\ loc'[Loop].ret = "pop"
         /\ ExecuteBegin =>
               \/ Works(Loop) /\ pc' = pc
               \/ /\ Moves(Loop) /\ pc'[Loop] = "run"
                  /\ loc'[Loop].task = loc[Loop].task /\ loc'[Loop].sem = loc[Loop].sem
                  /\ loc'[Loop].from = "Processing"
         /\ CheckRenewed =>
               /\ Moves(Loop) /\ pc'[Loop] = "c_start"
               /\ loc'[Loop].task = loc[Loop].task /\ loc'[Loop].sem = loc[Loop].sem
               /\ loc'[Loop].from = loc[Loop].from /\ loc'[Loop].ret \in {"reborn", "pop", "sleep"}
         /\ PauseCheck =>
               \/ Works(Loop) /\ pc'[Loop] = "reborn"
               \/ Moves(Loop) /\ pc'[Loop] \in {"pop", "sleep"} /\ loc'[Loop] = NoLocals
         /\ RebornTask =>
               Moves(Loop) /\ pc'[Loop] \in {"pop", "sleep"} /\ loc'[Loop] = NoLocals
<1>1. ControlOK /\ Loop \in Threads /\ pc \in [Threads -> UserLabels \cup LoopLabels]
      /\ loc \in [Threads -> Locals]
  BY Zenon DEF TypeOK, Threads, ControlOK
<1>2. {"recheck", "x_flags", "exec", "pop", "run", "c_start", "reborn", "sleep"}
         \subseteq UserLabels \cup LoopLabels
  BY LabelSets, Zenon
<1>3. ASSUME pc' = pc, loc' = loc PROVE Works(Loop) BY <1>1, <1>3, Zenon DEF Works, Moves
<1>4. ASSUME Goto(Loop, FetchLabel), loc' = [loc EXCEPT ![Loop] = NoLocals]
      PROVE  Moves(Loop) /\ pc'[Loop] \in {"pop", "sleep"} /\ loc'[Loop] = NoLocals
  <2>1. PICK l \in {"pop", "sleep"} : Goto(Loop, l) BY <1>4, Zenon DEF FetchLabel
  <2>2. l \in UserLabels \cup LoopLabels BY <1>2, Zenon
  <2> QED BY <1>1, <1>4, <2>1, <2>2, FreshLocals, SetLocals, Zenon
<1>5. ASSUME FetchNewState, ~UNCHANGED <<pc, loc>>
      PROVE  /\ Moves(Loop) /\ pc'[Loop] = "recheck"
             /\ loc'[Loop].task = loc[Loop].task /\ loc'[Loop].sem = loc[Loop].sem
             /\ loc'[Loop].flags = loc[Loop].flags /\ loc'[Loop].deadline = loc[Loop].deadline
             /\ loc'[Loop].from = NewState(loc[Loop].flags, loc[Loop].deadline)
  <2> DEFINE s == NewState(loc[Loop].flags, loc[Loop].deadline)
  <2>1. Goto(Loop, "recheck") /\ loc' = [loc EXCEPT ![Loop].from = s]
    BY <1>5, Zenon DEF FetchNewState, Panic
  <2>2. s \in States /\ "recheck" \in UserLabels \cup LoopLabels BY <1>2, Zenon DEF NewState, States
  <2> HIDE DEF s
  <2>3. /\ Moves(Loop) /\ pc'[Loop] = "recheck"
        /\ loc'[Loop].task = loc[Loop].task /\ loc'[Loop].sem = loc[Loop].sem
        /\ loc'[Loop].flags = loc[Loop].flags /\ loc'[Loop].deadline = loc[Loop].deadline
        /\ loc'[Loop].from = s
    BY <1>1, <2>1, <2>2, SetFrom, Zenon
  <2> QED BY <2>3, Zenon DEF s
<1>6. ASSUME FetchReady
      PROVE  /\ Moves(Loop) /\ pc'[Loop] \in {"x_flags", "exec", "pop"}
             /\ loc'[Loop].task = loc[Loop].task /\ loc'[Loop].sem = loc[Loop].sem
             /\ loc'[Loop].ret = "pop"
  <2>1. loc' = [loc EXCEPT ![Loop].ret = "pop"] BY <1>6, Zenon DEF FetchReady
  <2>2. PICK l \in {"x_flags", "exec", "pop"} : Goto(Loop, l) BY <1>6, Zenon DEF FetchReady
  <2>3. l \in UserLabels \cup LoopLabels /\ "pop" \in Returns BY <1>2, Zenon DEF Returns
  <2> QED BY <1>1, <2>1, <2>2, <2>3, SetRet, Zenon
<1>7. ASSUME ExecuteBegin, ~UNCHANGED <<pc, loc>>
      PROVE  /\ Moves(Loop) /\ pc'[Loop] = "run"
             /\ loc'[Loop].task = loc[Loop].task /\ loc'[Loop].sem = loc[Loop].sem
             /\ loc'[Loop].from = "Processing"
  <2>1. Goto(Loop, "run") /\ loc' = [loc EXCEPT ![Loop].from = "Processing"]
    BY <1>7, Zenon DEF ExecuteBegin, Panic
  <2>2. "Processing" \in States /\ "run" \in UserLabels \cup LoopLabels BY <1>2, Zenon DEF States
  <2> QED BY <1>1, <2>1, <2>2, SetFrom, Zenon
<1>8. ASSUME CheckRenewed
      PROVE  /\ Moves(Loop) /\ pc'[Loop] = "c_start"
             /\ loc'[Loop].task = loc[Loop].task /\ loc'[Loop].sem = loc[Loop].sem
             /\ loc'[Loop].from = loc[Loop].from /\ loc'[Loop].ret \in {"reborn", "pop", "sleep"}
  <2>1. Goto(Loop, "c_start") /\ "c_start" \in UserLabels \cup LoopLabels
    BY <1>2, <1>8, Zenon DEF CheckRenewed
  <2>2. PICK r \in {"reborn", "pop", "sleep"} : loc' = [loc EXCEPT ![Loop].ret = r]
    BY <1>8, Zenon DEF CheckRenewed, FetchLabel
  <2>3. r \in Returns BY Zenon DEF Returns
  <2> QED BY <1>1, <2>1, <2>2, <2>3, SetRet, Zenon
<1>9. ASSUME PauseCheck
      PROVE  \/ Works(Loop) /\ pc'[Loop] = "reborn"
             \/ Goto(Loop, FetchLabel) /\ loc' = [loc EXCEPT ![Loop] = NoLocals]
  <2>1. \/ Goto(Loop, "reborn") /\ loc' = loc
        \/ Goto(Loop, FetchLabel) /\ loc' = [loc EXCEPT ![Loop] = NoLocals]
    BY <1>9, Zenon DEF PauseCheck, Fetch
  <2>2. "reborn" \in UserLabels \cup LoopLabels BY <1>2, Zenon
  <2> QED BY <1>1, <2>1, <2>2, JumpWorks, Zenon
<1>10. ASSUME RebornTask
       PROVE  Goto(Loop, FetchLabel) /\ loc' = [loc EXCEPT ![Loop] = NoLocals]
  BY <1>10, Zenon DEF RebornTask, Fetch
<1> QED BY <1>3, <1>4, <1>5, <1>6, <1>7, <1>8, <1>9, <1>10, Zenon

-----------------------------------------------------------------------------
(***************************************************************************)
(* Where the steps lead.                                                   *)
(***************************************************************************)
\* A thread that completes a task has a task.
LEMMA CompletingTask ==
  ASSUME ControlOK, NEW x \in Threads, pc[x] \in {"x_flags"} \cup CompleteLabels
  PROVE  Task(x) \in Tasks /\ (x = Loop => loc[x].ret \in {"pop", "sleep", "reborn"})
<1>1. LocalsOK(x) BY Zenon DEF ControlOK
<1>2. CASE x = Loop BY <1>1, <1>2, Zenon DEF LocalsOK, LoopLocals
<1>3. CASE x # Loop
  <2>1. x \in Users /\ pc[x] \notin {"idle", "set", "commit", "join"}
    BY <1>3, Zenon DEF Threads, CompleteLabels
  <2> QED BY <1>3, <2>1, UserTask, Zenon
<1> QED BY <1>2, <1>3, Zenon

\* The event loop thread has a task between fetching it and letting it go.
LEMMA LoopTask ==
  ASSUME ControlOK,
         pc[Loop] \in {"load", "newstate", "recheck", "x_flags", "exec", "run", "renewed", "pause",
                       "p_sleep", "p_check", "reborn", "c_start", "c_sem", "c_done", "c_post"}
  PROVE  Task(Loop) \in Tasks
<1>1. LoopLocals BY Zenon DEF ControlOK, LocalsOK, Threads
<1> QED BY <1>1, Zenon DEF LoopLocals, ExecuteLabels, CompleteLabels

\* The steps of a request.
LEMMA RequestEdges ==
  ASSUME TypeOK, NEW x \in Users
  PROVE  /\ RenewStore(x) => Works(x) /\ pc[x] = "store" /\ pc'[x] \in {"cancel", "paused"}
         /\ RenewCancel(x) => /\ Works(x) /\ pc[x] = "cancel"
                              /\ pc'[x] = IF state[Task(x)] = "Sleeping" THEN "size" ELSE "unguard"
         /\ RenewPaused(x) => Works(x) /\ pc[x] = "paused" /\ pc'[x] \in {"unguard", "exchange"}
         /\ ExchangeReady(x) => /\ Works(x) /\ pc[x] = "exchange"
                                /\ pc'[x] = IF state[Task(x)] = "Ready" THEN loc[x].ret ELSE "size"
         /\ CommitSize(x) => Works(x) /\ pc[x] = "size" /\ pc'[x] \in {"trylock", "push"}
         /\ Push(x) => Works(x) /\ pc[x] = "push" /\ pc'[x] = "link"
         /\ Link(x) => Works(x) /\ pc[x] = "link" /\ pc'[x] = "set"
         /\ RequestSet(x) => /\ Works(x) /\ pc[x] \in {"set", "commit"}
                             /\ pc'[x] \in {"commit", "unguard", "return", "join"}
         /\ TryLock(x) => /\ Moves(x) /\ pc[x] = "trylock"
                          /\ pc'[x] \in IF task_mutex = NoThread THEN {"renew", "unlock_push"} ELSE {"push"}
         /\ UnlockPush(x) => Works(x) /\ pc[x] = "unlock_push" /\ pc'[x] = "push"
         /\ RenewInplace(x) => Works(x) /\ pc[x] = "renew" /\ pc'[x] \in {"renew", "x_flags", "dec"}
         /\ RenewedInplace(x) => Works(x) /\ pc[x] = "dec" /\ pc'[x] = "update"
         /\ Return(x) => Moves(x) /\ pc[x] \in {"unguard", "return"} /\ pc'[x] = "idle" /\ loc'[x] = NoLocals
<1>1. /\ pc \in [Threads -> UserLabels \cup LoopLabels] /\ x \in Threads
      /\ loc[x].ret \in {"unguard", "return", "join"}
  BY ThreadsAssumption, Zenon DEF TypeOK, ControlOK, Threads, LocalsOK, UserLocals
<1>2. /\ RenewStore(x) => pc[x] = "store" /\ pc'[x] \in {"cancel", "paused"}
      /\ RenewCancel(x) => /\ pc[x] = "cancel"
                           /\ pc'[x] = IF state[Task(x)] = "Sleeping" THEN "size" ELSE "unguard"
      /\ RenewPaused(x) => pc[x] = "paused" /\ pc'[x] \in {"unguard", "exchange"}
      /\ ExchangeReady(x) => /\ pc[x] = "exchange"
                             /\ pc'[x] = IF state[Task(x)] = "Ready" THEN loc[x].ret ELSE "size"
  BY <1>1, Zenon DEF RenewStore, RenewCancel, RenewPaused, ExchangeReady, At, Goto
<1>3. /\ CommitSize(x) => pc[x] = "size" /\ pc'[x] \in {"trylock", "push"}
      /\ Push(x) => pc[x] = "push" /\ pc'[x] = "link"
      /\ Link(x) => pc[x] = "link" /\ pc'[x] = "set"
      /\ RequestSet(x) => /\ pc[x] \in {"set", "commit"}
                          /\ pc'[x] \in {"commit", "unguard", "return", "join"}
  BY <1>1, Zenon DEF CommitSize, Push, Link, RequestSet, TrySet, Commit, At, Goto
<1>4. /\ TryLock(x) => /\ pc[x] = "trylock"
                       /\ pc'[x] \in IF task_mutex = NoThread THEN {"renew", "unlock_push"} ELSE {"push"}
      /\ UnlockPush(x) => pc[x] = "unlock_push" /\ pc'[x] = "push"
      /\ RenewInplace(x) => pc[x] = "renew" /\ pc'[x] \in {"renew", "x_flags", "dec"}
      /\ RenewedInplace(x) => pc[x] = "dec" /\ pc'[x] = "update"
  BY <1>1, Zenon DEF TryLock, UnlockPush, RenewInplace, RenewedInplace, Panic, At, Goto
<1>5. Return(x) => pc[x] \in {"unguard", "return"} BY Zenon DEF Return
<1> QED BY <1>2, <1>3, <1>4, <1>5, RequestWorks, TryLockMoves, ReturnMoves, Zenon

\* The steps of wait().
LEMMA WaitEdges ==
  ASSUME TypeOK, NEW x \in Users
  PROVE  /\ WaitAttach(x) => Works(x) /\ pc[x] = "w_attach" /\ pc'[x] = "w_spin"
         /\ WaitSpin(x) => Works(x) /\ pc[x] = "w_spin" /\ pc'[x] = "w_state"
         /\ WaitReadState(x) =>
               /\ Works(x) /\ pc[x] = "w_state"
               /\ pc'[x] = IF state[Task(x)] # "Completed" THEN "w_sem" ELSE "w_pointer"
         /\ WaitReadSem(x) => /\ Works(x) /\ pc[x] = "w_pointer"
                              /\ pc'[x] = IF sem_attached[Task(x)] THEN "w_end" ELSE "w_sem"
         /\ WaitSem(x) => Works(x) /\ pc[x] = "w_sem" /\ pc'[x] = "w_end"
         /\ WaitEnd(x) => Moves(x) /\ pc[x] = "w_end" /\ pc'[x] = "idle" /\ loc'[x] = NoLocals
<1>1. pc \in [Threads -> UserLabels \cup LoopLabels] /\ x \in Threads
  BY Zenon DEF TypeOK, ControlOK, Threads
<1>2. /\ WaitAttach(x) => pc[x] = "w_attach" /\ pc'[x] = "w_spin"
      /\ WaitSpin(x) => pc[x] = "w_spin" /\ pc'[x] = "w_state"
      /\ WaitReadState(x) => /\ pc[x] = "w_state"
                             /\ pc'[x] = IF state[Task(x)] # "Completed" THEN "w_sem" ELSE "w_pointer"
      /\ WaitReadSem(x) => /\ pc[x] = "w_pointer"
                           /\ pc'[x] = IF sem_attached[Task(x)] THEN "w_end" ELSE "w_sem"
      /\ WaitSem(x) => pc[x] = "w_sem" /\ pc'[x] = "w_end"
      /\ WaitEnd(x) => pc[x] = "w_end"
  BY <1>1, Zenon DEF WaitAttach, WaitSpin, WaitReadState, WaitReadSem, WaitSem, WaitEnd, At, Goto
<1> QED BY <1>2, WaitWorks, ReturnMoves, Zenon

\* The steps that users and the event loop thread share.
LEMMA SharedEdges ==
  ASSUME TypeOK, NEW x \in Threads
  PROVE  /\ UpdateWakeup(x) => Works(x) /\ pc[x] = "update" /\ pc'[x] = "u_set"
         /\ UpdateSet(x) => Works(x) /\ pc[x] \in {"u_set", "u_commit"} /\ pc'[x] \in {"u_commit", "u_check"}
         /\ UpdateCheck(x) => /\ Works(x) /\ pc[x] = "u_check"
                              /\ pc'[x] \in {"u_set", "unlock"} \cup IF x = Loop THEN {"pop", "sleep"} ELSE {}
         /\ Unlock(x) => /\ Moves(x) /\ pc[x] = "unlock"
                         /\ pc'[x] \in IF x = Loop THEN {"stopped", "wait"} ELSE {"unguard"}
                         /\ loc'[x].sem = loc[x].sem \/ ~loc'[x].sem
         /\ CancelFlags(x) => Moves(x) /\ KeepsCall(x) /\ pc[x] = "x_flags" /\ pc'[x] = "c_start"
                              /\ loc'[x].from = "Cancelling" /\ loc'[x].sem = loc[x].sem
         /\ CompleteStart(x) => Works(x) /\ pc[x] = "c_start" /\ pc'[x] = "c_sem"
         /\ CompleteTakeSem(x) => Moves(x) /\ KeepsCall(x) /\ pc[x] = "c_sem" /\ pc'[x] = "c_done"
                                  /\ loc'[x].sem = sem_attached[Task(x)]
         /\ CompleteDone(x) => Moves(x) /\ KeepsCall(x) /\ pc[x] = "c_done" /\ pc'[x] = "c_post"
                               /\ loc'[x].sem = (loc[x].sem /\ state[Task(x)] = "Completing")
         /\ CompletePost(x) => /\ Moves(x) /\ KeepsCall(x) /\ pc[x] = "c_post" /\ loc'[x].sem = FALSE
                               /\ pc'[x] \in IF x = Loop THEN {"pop", "sleep", "reborn"} ELSE {"dec"}
<1>1. pc \in [Threads -> UserLabels \cup LoopLabels] /\ ControlOK BY Zenon DEF TypeOK, ControlOK
<1>2. /\ UpdateWakeup(x) => pc[x] = "update" /\ pc'[x] = "u_set"
      /\ UpdateSet(x) => pc[x] \in {"u_set", "u_commit"} /\ pc'[x] \in {"u_commit", "u_check"}
      /\ UpdateCheck(x) => /\ pc[x] = "u_check"
                           /\ pc'[x] \in {"u_set", "unlock"} \cup IF x = Loop THEN {"pop", "sleep"} ELSE {}
      /\ CompleteStart(x) => pc[x] = "c_start" /\ pc'[x] = "c_sem"
  BY <1>1, Zenon DEF UpdateWakeup, UpdateSet, UpdateCheck, CompleteStart, TrySet, Commit, At, Goto, FetchLabel
<1>3. /\ Unlock(x) => pc[x] = "unlock"
      /\ CancelFlags(x) => pc[x] = "x_flags"
      /\ CompleteTakeSem(x) => pc[x] = "c_sem"
      /\ CompleteDone(x) => pc[x] = "c_done"
      /\ CompletePost(x) => pc[x] = "c_post"
  BY Zenon DEF Unlock, CancelFlags, CompleteTakeSem, CompleteDone, CompletePost, At
<1>4. pc[x] \in {"x_flags"} \cup CompleteLabels =>
        Task(x) \in Tasks /\ (x = Loop => loc[x].ret \in {"pop", "sleep", "reborn"})
  BY <1>1, CompletingTask, Zenon
<1>5. ASSUME Unlock(x)
      PROVE  /\ Moves(x) /\ pc'[x] \in IF x = Loop THEN {"stopped", "wait"} ELSE {"unguard"}
             /\ loc'[x].sem = loc[x].sem \/ ~loc'[x].sem
  BY <1>5, UnlockMoves, FreshLocals, Zenon DEF Works
<1>6. ASSUME CompletePost(x)
      PROVE  /\ Moves(x) /\ KeepsCall(x) /\ loc'[x].sem = FALSE
             /\ pc'[x] \in IF x = Loop THEN {"pop", "sleep", "reborn"} ELSE {"dec"}
  <2>1. Task(x) \in Tasks /\ (x = Loop => loc[x].ret \in {"pop", "sleep", "reborn"})
    BY <1>3, <1>4, <1>6, Zenon DEF CompleteLabels
  <2>2. x = Loop => loc[x].ret \in LoopLabels BY <2>1, LabelSets, Zenon
  <2>3. /\ Moves(x) /\ KeepsCall(x) /\ pc'[x] = IF x = Loop THEN loc[x].ret ELSE "dec"
        /\ loc'[x].sem = FALSE
    BY <1>6, <2>1, <2>2, CompleteMoves, Zenon
  <2> QED BY <2>1, <2>3, Zenon
<1> QED BY <1>2, <1>3, <1>4, <1>5, <1>6, SharedWorks, CompleteMoves, Zenon

\* The steps of the event loop thread.
LEMMA LoopEdges ==
  ASSUME TypeOK
  PROVE  /\ LoopWake => Works(Loop) /\ pc[Loop] = "wait" /\ pc'[Loop] = "lock"
         /\ LoopLock => Works(Loop) /\ pc[Loop] = "lock" /\ pc'[Loop] \in {"pop", "sleep"}
         /\ FetchPop => Moves(Loop) /\ pc[Loop] = "pop" /\ pc'[Loop] \in {"sleep", "update", "load"}
         /\ FetchLoad => Moves(Loop) /\ pc[Loop] = "load" /\ pc'[Loop] \in {"pop", "newstate"}
         /\ FetchNewState => Moves(Loop) /\ pc[Loop] = "newstate" /\ pc'[Loop] \in {"newstate", "recheck"}
         /\ FetchAgain => Works(Loop) /\ pc[Loop] = "recheck" /\ pc'[Loop] = "pop"
         /\ FetchPanic => Works(Loop) /\ pc[Loop] = "recheck" /\ pc'[Loop] = "recheck"
         /\ FetchReady => Moves(Loop) /\ pc[Loop] = "recheck" /\ pc'[Loop] \in {"x_flags", "exec", "pop"}
         /\ FetchSleeping => Moves(Loop) /\ pc[Loop] = "sleep" /\ pc'[Loop] \in {"pop", "update", "exec"}
         /\ ExecuteBegin => Moves(Loop) /\ pc[Loop] = "exec" /\ pc'[Loop] \in {"exec", "run"}
         /\ ExecuteFinish => Works(Loop) /\ pc[Loop] = "run" /\ pc'[Loop] = "renewed"
         /\ CheckRenewed => Moves(Loop) /\ pc[Loop] = "renewed" /\ pc'[Loop] = "c_start"
         /\ ExecuteOperation => Works(Loop) /\ pc[Loop] = "run" /\ pc'[Loop] = "pause"
         /\ ExecutePause => Works(Loop) /\ pc[Loop] = "pause" /\ pc'[Loop] = "p_sleep"
         /\ PauseTask => Works(Loop) /\ pc[Loop] = "p_sleep" /\ pc'[Loop] \in {"p_sleep", "p_check"}
         /\ PauseCheck => Moves(Loop) /\ pc[Loop] = "p_check" /\ pc'[Loop] \in {"reborn", "pop", "sleep"}
         /\ ExecuteContinue => Works(Loop) /\ pc[Loop] = "run" /\ pc'[Loop] = "reborn"
         /\ RebornTask => Moves(Loop) /\ pc[Loop] = "reborn" /\ pc'[Loop] \in {"pop", "sleep"}
<1>1. pc \in [Threads -> UserLabels \cup LoopLabels] /\ Loop \in Threads
  BY Zenon DEF TypeOK, ControlOK, Threads
<1>2. /\ LoopWake => pc[Loop] = "wait" /\ pc'[Loop] = "lock"
      /\ LoopLock => pc[Loop] = "lock" /\ pc'[Loop] \in {"pop", "sleep"}
      /\ FetchAgain => pc[Loop] = "recheck" /\ pc'[Loop] = "pop"
      /\ FetchPanic => pc[Loop] = "recheck" /\ pc'[Loop] = "recheck"
  BY <1>1, Zenon DEF LoopWake, LoopLock, FetchAgain, FetchPanic, Panic, At, Goto, FetchLabel
<1>3. /\ ExecuteFinish => pc[Loop] = "run" /\ pc'[Loop] = "renewed"
      /\ ExecuteOperation => pc[Loop] = "run" /\ pc'[Loop] = "pause"
      /\ ExecutePause => pc[Loop] = "pause" /\ pc'[Loop] = "p_sleep"
      /\ PauseTask => pc[Loop] = "p_sleep" /\ pc'[Loop] \in {"p_sleep", "p_check"}
      /\ ExecuteContinue => pc[Loop] = "run" /\ pc'[Loop] = "reborn"
  BY <1>1, Zenon DEF ExecuteFinish, ExecuteOperation, ExecutePause, PauseTask, ExecuteContinue, Panic, At, Goto
<1>4. /\ FetchPop => pc[Loop] = "pop"
      /\ FetchLoad => pc[Loop] = "load"
      /\ FetchNewState => pc[Loop] = "newstate"
      /\ FetchReady => pc[Loop] = "recheck"
      /\ FetchSleeping => pc[Loop] = "sleep"
      /\ ExecuteBegin => pc[Loop] = "exec"
      /\ CheckRenewed => pc[Loop] = "renewed"
      /\ PauseCheck => pc[Loop] = "p_check"
      /\ RebornTask => pc[Loop] = "reborn"
  BY Zenon DEF FetchPop, FetchLoad, FetchNewState, FetchReady, FetchSleeping, ExecuteBegin, CheckRenewed,
     PauseCheck, RebornTask, At
<1>5. /\ FetchPop => Moves(Loop) /\ pc'[Loop] \in {"sleep", "update", "load"}
      /\ FetchLoad => Moves(Loop) /\ pc'[Loop] \in {"pop", "newstate"}
      /\ FetchSleeping => Moves(Loop) /\ pc'[Loop] \in {"pop", "update", "exec"}
  BY FetchMoves, Zenon DEF Works
<1>6. /\ FetchNewState => Moves(Loop) /\ pc'[Loop] \in {"newstate", "recheck"}
      /\ ExecuteBegin => Moves(Loop) /\ pc'[Loop] \in {"exec", "run"}
      /\ PauseCheck => Moves(Loop) /\ pc'[Loop] \in {"reborn", "pop", "sleep"}
  BY <1>4, ExecuteMoves, Zenon DEF Works
<1>7. /\ FetchReady => Moves(Loop) /\ pc'[Loop] \in {"x_flags", "exec", "pop"}
      /\ CheckRenewed => Moves(Loop) /\ pc'[Loop] = "c_start"
      /\ RebornTask => Moves(Loop) /\ pc'[Loop] \in {"pop", "sleep"}
  BY ExecuteMoves, Zenon
<1> QED BY <1>2, <1>3, <1>4, <1>5, <1>6, <1>7, LoopWorks, Zenon

\* The calls of the users: the call begins, or there is nothing to do.
LEMMA CallEdges ==
  ASSUME TypeOK, NEW x \in Users
  PROVE  /\ \A t \in Tasks : Schedule(x, t) \/ AsyncCancel(x, t) =>
               /\ pc[x] = "idle"
               /\ \/ UNCHANGED <<pc, loc>>
                  \/ Moves(x) /\ pc'[x] = "store" /\ loc'[x].task = t /\ loc'[x].sem = FALSE
         /\ \A t \in Tasks : Resume(x, t) =>
               /\ pc[x] = "idle"
               /\ \/ UNCHANGED <<pc, loc>>
                  \/ Moves(x) /\ pc'[x] = "exchange" /\ loc'[x].task = t /\ loc'[x].sem = FALSE
         /\ \A t \in Tasks : Wait(x, t) =>
               /\ pc[x] = "idle"
               /\ \/ UNCHANGED <<pc, loc>>
                  \/ Moves(x) /\ pc'[x] = "w_attach" /\ loc'[x].task = t /\ loc'[x].sem = FALSE
         /\ Stop(x) => Moves(x) /\ pc[x] = "idle" /\ pc'[x] = "set" /\ loc'[x].sem = FALSE
<1>1. ASSUME NEW t \in Tasks, Schedule(x, t) \/ AsyncCancel(x, t)
      PROVE  /\ pc[x] = "idle"
             /\ \/ UNCHANGED <<pc, loc>>
                \/ Moves(x) /\ pc'[x] = "store" /\ loc'[x].task = t /\ loc'[x].sem = FALSE
  <2>1. PICK d \in Int : Renew(x, t, d)
    BY <1>1, BoundsAssumption, SMT, Z3 DEF Schedule, AsyncCancel
  <2>2. pc[x] = "idle" BY <2>1, Zenon DEF Renew, At
  <2> QED BY <2>1, <2>2, CallMoves, Zenon
<1>2. ASSUME NEW t \in Tasks, Resume(x, t)
      PROVE  /\ pc[x] = "idle"
             /\ \/ UNCHANGED <<pc, loc>>
                \/ Moves(x) /\ pc'[x] = "exchange" /\ loc'[x].task = t /\ loc'[x].sem = FALSE
  <2>1. pc[x] = "idle" BY <1>2, Zenon DEF Resume, At
  <2> QED BY <1>2, <2>1, CallMoves, Zenon
<1>3. ASSUME NEW t \in Tasks, Wait(x, t)
      PROVE  /\ pc[x] = "idle"
             /\ \/ UNCHANGED <<pc, loc>>
                \/ Moves(x) /\ pc'[x] = "w_attach" /\ loc'[x].task = t /\ loc'[x].sem = FALSE
  <2>1. pc[x] = "idle" BY <1>3, Zenon DEF Wait, At
  <2> QED BY <1>3, <2>1, CallMoves, Zenon
<1>4. Stop(x) => pc[x] = "idle" BY Zenon DEF Stop, At
<1> QED BY <1>1, <1>2, <1>3, <1>4, ReturnMoves, Zenon

-----------------------------------------------------------------------------
(***************************************************************************)
(* Mutual exclusion.                                                       *)
(***************************************************************************)
\* The labels in the code that task_mutex_ protects.
LEMMA CriticalSet ==
  CriticalLabels = {"unlock_push", "renew", "dec", "pop", "sleep", "load", "newstate", "recheck",
        "exec", "run", "renewed", "pause", "p_sleep", "p_check", "reborn", "x_flags", "c_start",
        "c_sem", "c_done", "c_post", "update", "u_set", "u_commit", "u_check", "unlock"}
BY Zenon DEF CriticalLabels, InplaceLabels, FetchLabels, ExecuteLabels, SharedLabels, CompleteLabels, UpdateLabels

\* The lock is not shared.
LEMMA OneInside ==
  ASSUME LockInv, NEW x \in Threads, NEW y \in Threads, pc[x] \in CriticalLabels, pc[y] \in CriticalLabels
  PROVE  x = y
BY Zenon DEF LockInv

\* The places that InStage() speaks of are in the code the lock protects, and a
\* thread that is at one of them has a task.
StageLabels == {"recheck", "x_flags", "exec", "run", "renewed", "pause", "p_sleep",
                "c_start", "c_sem", "c_done"}

\* A thread that is at a stage has a task and the lock.
LEMMA StageTask ==
  ASSUME TypeOK, NEW x \in Threads, pc[x] \in StageLabels
  PROVE  Task(x) \in Tasks /\ pc[x] \in CriticalLabels
<1>1. ControlOK BY Zenon DEF TypeOK
<1>2. pc[x] \in CriticalLabels BY CriticalSet, Zenon DEF StageLabels
<1>3. CASE x = Loop
  <2>1. Task(Loop) \in Tasks BY <1>1, <1>3, LoopTask, Zenon DEF StageLabels
  <2> QED BY <1>2, <1>3, <2>1, Zenon
<1>4. CASE x # Loop
  <2>1. x \in Users BY <1>4, Zenon DEF Threads
  <2>2. pc[x] \notin {"idle", "set", "commit", "join"} BY Zenon DEF StageLabels
  <2> QED BY <1>1, <1>2, <2>1, <2>2, UserTask, Zenon
<1> QED BY <1>2, <1>3, <1>4, Zenon

-----------------------------------------------------------------------------
(***************************************************************************)
(* The requests.                                                           *)
(***************************************************************************)
\* Labels of request_renew_() only, and those between the store of a deadline and
\* its use without the event loop thread.
GuardLabels == {"store", "cancel", "paused", "trylock", "unguard"} \cup InplaceLabels \cup SharedLabels
StoredLabels == {"cancel", "paused", "exchange", "size", "trylock", "renew"}

\* A thread has loaded, or stored, the latest deadline of its task.
Loaded(x) == loc[x].version = version[Task(x)] => loc[x].deadline = renewed_deadline[Task(x)]

\* request_renew_() holds the guard of its task until it returns, and what it has
\* stored is the latest deadline until then.
GuardOK(x) ==
    /\ pc[x] \in GuardLabels => loc[x].ret = "unguard"
    /\ loc[x].ret = "unguard" =>
          /\ Task(x) \in Tasks /\ renew_guard[Task(x)]
          /\ pc[x] = "store" => Dirty(Task(x))
          /\ pc[x] \in StoredLabels => loc[x].version = version[Task(x)] /\ Loaded(x)
    /\ pc[x] \in {"trylock", "renew"} => loc[x].deadline # 0
    /\ pc[x] = "cancel" => loc[x].deadline < 0

\* A plain task does not pause; and a deadline that was loaded is the latest one
\* unless the version has grown since.
RequestOK(x) ==
    /\ pc[x] \in {"pause", "p_sleep", "p_check"} => kind[Task(x)] = "pausing"
    /\ pc[x] \in {"newstate", "recheck"} => loc[x].version <= version[Task(x)] /\ Loaded(x)
    /\ x # Loop => GuardOK(x)

Requested(t) ==
    /\ kind[t] = "plain" => "Paused" \notin flags[t]
    /\ Dirty(t) => \E x \in Users : pc[x] = "store" /\ Task(x) = t

RequestInv ==
    /\ \A t \in Tasks : Requested(t)
    /\ \A x \in Threads : RequestOK(x)
    /\ \A x, y \in Users :
          loc[x].ret = "unguard" /\ loc[y].ret = "unguard" /\ Task(x) = Task(y) => x = y

\* The labels, one by one.
LEMMA GuardSet ==
  GuardLabels = {"store", "cancel", "paused", "trylock", "unguard", "unlock_push", "renew", "dec", "x_flags",
                 "c_start", "c_sem", "c_done", "c_post", "update", "u_set", "u_commit", "u_check", "unlock"}
BY Zenon DEF GuardLabels, InplaceLabels, SharedLabels, CompleteLabels, UpdateLabels

-----------------------------------------------------------------------------
(***************************************************************************)
(* The lists.                                                              *)
(***************************************************************************)
\* A set of positions has a first one.  The proof, in ControlTaskQueue_proofs, is
\* by well-founded induction; the lemmas that need this have it as a hypothesis.
HasFirst(S) == \E m \in S : \A n \in S : m <= n
FirstExists == \A S \in SUBSET Nat : S # {} => HasFirst(S)

\* A task is appended to a list of tasks.
LEMMA AppendSeq ==
  ASSUME NEW list \in Seq(Tasks), NEW t \in Tasks
  PROVE  Append(list, t) \in Seq(Tasks)
BY SMT, Z3

\* The first task of a list is taken off.
LEMMA TailSeq ==
  ASSUME NEW list \in Seq(Tasks), list # <<>>
  PROVE  Tail(list) \in Seq(Tasks)
BY SMT, Z3

\* An element is removed: those behind it move up.
LEMMA RemoveAtSeq ==
  ASSUME NEW list \in Seq(Tasks), NEW k \in 1..Len(list)
  PROVE  /\ RemoveAt(list, k) \in Seq(Tasks) /\ Len(RemoveAt(list, k)) = Len(list) - 1
         /\ \A i \in 1..(Len(list) - 1) : RemoveAt(list, k)[i] = IF i < k THEN list[i] ELSE list[i + 1]
BY SMT, Z3 DEF RemoveAt

\* An element is inserted: those at its place and behind it move down.
LEMMA InsertAtSeq ==
  ASSUME NEW list \in Seq(Tasks), NEW t \in Tasks, NEW p \in 1..(Len(list) + 1)
  PROVE  /\ InsertAt(list, p, t) \in Seq(Tasks) /\ Len(InsertAt(list, p, t)) = Len(list) + 1
         /\ \A i \in 1..(Len(list) + 1) : InsertAt(list, p, t)[i] =
                IF i < p THEN list[i] ELSE IF i = p THEN t ELSE list[i - 1]
BY SMT, Z3 DEF InsertAt

\* A task is removed from a list, at a place it has there.
LEMMA WithoutSeq ==
  ASSUME NEW list \in Seq(Tasks), NEW t
  PROVE  /\ Without(t, list) \in Seq(Tasks)
         /\ \/ ~InList(t, list) /\ Without(t, list) = list
            \/ \E k \in 1..Len(list) :
                  /\ list[k] = t /\ Len(Without(t, list)) = Len(list) - 1
                  /\ \A i \in 1..(Len(list) - 1) :
                        Without(t, list)[i] = IF i < k THEN list[i] ELSE list[i + 1]
<1>1. CASE ~InList(t, list) BY <1>1, Zenon DEF Without
<1>2. CASE InList(t, list)
  <2> DEFINE k == CHOOSE i \in DOMAIN list : list[i] = t
  <2>1. k \in DOMAIN list /\ list[k] = t BY <1>2, Zenon DEF InList
  <2>2. Without(t, list) = RemoveAt(list, k) BY <1>2, Zenon DEF Without
  <2> HIDE DEF k
  <2>3. k \in 1..Len(list) /\ list[k] = t BY <2>1, SMT, Z3
  <2>4. /\ RemoveAt(list, k) \in Seq(Tasks) /\ Len(RemoveAt(list, k)) = Len(list) - 1
        /\ \A i \in 1..(Len(list) - 1) :
              RemoveAt(list, k)[i] = IF i < k THEN list[i] ELSE list[i + 1]
    BY <2>3, RemoveAtSeq, Zenon
  <2> QED BY <2>2, <2>3, <2>4, Zenon
<1> QED BY <1>1, <1>2, Zenon

\* A task is inserted behind the tasks that are not later than it.
LEMMA InsertSeq ==
  ASSUME FirstExists, NEW list \in Seq(Tasks), NEW t \in Tasks, NEW d \in Int,
         effective_deadline \in [Tasks -> Int]
  PROVE  /\ InsertSleeping(t, d, list) \in Seq(Tasks)
         /\ Len(InsertSleeping(t, d, list)) = Len(list) + 1
         /\ \E p \in 1..(Len(list) + 1) :
               /\ \A i \in 1..(Len(list) + 1) : InsertSleeping(t, d, list)[i] =
                      IF i < p THEN list[i] ELSE IF i = p THEN t ELSE list[i - 1]
               /\ \A i \in 1..Len(list) : i < p => effective_deadline[list[i]] <= d
               /\ p <= Len(list) => effective_deadline[list[p]] > d
<1> DEFINE Later == {i \in DOMAIN list : effective_deadline[list[i]] > d}
           pos == IF Later = {} THEN Len(list) + 1
                  ELSE CHOOSE i \in Later : \A j \in Later : i <= j
<1>1. InsertSleeping(t, d, list) = InsertAt(list, pos, t) BY Zenon DEF InsertSleeping
<1>2. /\ pos \in 1..(Len(list) + 1)
      /\ \A i \in 1..Len(list) : i < pos => effective_deadline[list[i]] <= d
      /\ pos <= Len(list) => effective_deadline[list[pos]] > d
  <2>1. CASE Later = {} BY <2>1, SMT, Z3
  <2>2. CASE Later # {}
    <3>1. Later \in SUBSET Nat BY SMT, Z3
    <3>2. \E i \in Later : \A j \in Later : i <= j BY <2>2, <3>1, Zenon DEF FirstExists, HasFirst
    <3>3. pos \in Later /\ \A j \in Later : pos <= j BY <2>2, <3>2, Zenon
    <3> HIDE DEF pos
    <3> QED BY <3>3, SMT, Z3
  <2> QED BY <2>1, <2>2, Zenon
<1> HIDE DEF pos, Later
<1>3. /\ InsertAt(list, pos, t) \in Seq(Tasks) /\ Len(InsertAt(list, pos, t)) = Len(list) + 1
      /\ \A i \in 1..(Len(list) + 1) : InsertAt(list, pos, t)[i] =
            IF i < pos THEN list[i] ELSE IF i = pos THEN t ELSE list[i - 1]
  <2>1. pos \in 1..(Len(list) + 1) BY <1>2, Zenon
  <2> QED BY <2>1, InsertAtSeq, ZenonT(30)
<1> QED BY <1>1, <1>2, <1>3, Zenon

-----------------------------------------------------------------------------
(***************************************************************************)
(* Types.                                                                  *)
(***************************************************************************)
\* The control state is typed when the thread that moves has the locals its new
\* place calls for.
LEMMA MovesTyped ==
  ASSUME ControlOK, NEW x \in Threads, Moves(x), LocalsOK(x)'
  PROVE  ControlOK'
<1>1. ASSUME NEW y \in Threads, y # x PROVE LocalsOK(y)'
  <2>1. pc'[y] = pc[y] /\ loc'[y] = loc[y] /\ LocalsOK(y) BY <1>1, Zenon DEF Moves, ControlOK
  <2> QED BY <2>1, Zenon DEF LocalsOK, LoopLocals, UserLocals, Task, NewState
<1> QED BY <1>1, Zenon DEF ControlOK, Moves

\* Locals of a thread, as a step of the thread leaves them.
LEMMA UserLocalsNext ==
  ASSUME TypeOK, NEW x \in Users, Works(x), pc[x] # "idle",
         pc'[x] \in UserLabels \ {"idle"}, pc'[x] \in {"join", "return"} => loc[x].ret = pc'[x],
         loc[x].ret = "join" => pc'[x] \in {"set", "commit", "join"},
         pc'[x] \in CompleteLabels => loc[x].from = "Cancelling"
  PROVE  ControlOK'
<1>1. ControlOK /\ x \in Threads /\ x # Loop /\ Moves(x) BY ThreadsAssumption, Zenon DEF TypeOK, Threads, Works
<1>2. UserLocals(x) BY <1>1, Zenon DEF ControlOK, LocalsOK
<1>3. loc'[x].task = loc[x].task /\ loc'[x].ret = loc[x].ret /\ loc'[x].from = loc[x].from
  BY Zenon DEF Works
<1>4. UserLocals(x)' BY <1>2, <1>3, Zenon DEF UserLocals, Task
<1> QED BY <1>1, <1>4, MovesTyped, Zenon DEF LocalsOK

\* The steps of a request keep the control state typed.
LEMMA RequestControl ==
  ASSUME TypeOK, NEW x \in Users,
         \/ RenewStore(x) \/ RenewCancel(x) \/ RenewPaused(x) \/ ExchangeReady(x)
         \/ CommitSize(x) \/ Push(x) \/ Link(x) \/ RequestSet(x)
         \/ UnlockPush(x) \/ RenewInplace(x) \/ RenewedInplace(x)
  PROVE  ControlOK'
<1>1. Works(x) BY RequestWorks, Zenon
<1>2. UserLocals(x) /\ pc \in [Threads -> UserLabels \cup LoopLabels] /\ x \in Threads
  BY ThreadsAssumption, Zenon DEF TypeOK, ControlOK, LocalsOK, Threads
<1>3. CASE RenewStore(x) \/ RenewCancel(x) \/ RenewPaused(x) \/ CommitSize(x) \/ Push(x) \/ Link(x)
           \/ UnlockPush(x) \/ RenewedInplace(x)
  <2>1. /\ pc[x] \in {"store", "cancel", "paused", "size", "push", "link", "unlock_push", "dec"}
        /\ pc'[x] \in {"cancel", "paused", "size", "unguard", "exchange", "trylock", "push", "link",
                       "set", "update"}
    BY <1>2, <1>3, Zenon DEF RenewStore, RenewCancel, RenewPaused, CommitSize, Push, Link, UnlockPush,
       RenewedInplace, At, Goto
  <2>2. loc[x].ret # "join" BY <1>2, <2>1, Zenon DEF UserLocals
  <2>3. pc'[x] \in UserLabels \ {"idle"} /\ pc'[x] \notin CompleteLabels \cup {"join", "return"}
    BY <2>1, LabelSets, Zenon DEF CompleteLabels
  <2> QED BY <1>1, <2>1, <2>2, <2>3, UserLocalsNext, Zenon
<1>4. CASE ExchangeReady(x)
  <2>1. pc[x] = "exchange" /\ pc'[x] \in {loc[x].ret, "size"} BY <1>2, <1>4, Zenon DEF ExchangeReady, At, Goto
  <2>2. loc[x].ret \in {"unguard", "return"} BY <1>2, <2>1, Zenon DEF UserLocals
  <2>3. /\ pc'[x] \in UserLabels \ {"idle"} /\ pc'[x] \notin CompleteLabels
        /\ pc'[x] \in {"join", "return"} => loc[x].ret = pc'[x]
    BY <2>1, <2>2, LabelSets DEF CompleteLabels
  <2> QED BY <1>1, <2>1, <2>2, <2>3, UserLocalsNext, Zenon
<1>5. CASE RequestSet(x)
  <2>1. pc[x] \in {"set", "commit"} /\ pc'[x] \in {loc[x].ret, "commit"}
    BY <1>2, <1>5, Zenon DEF RequestSet, TrySet, Commit, At, Goto
  <2>2. loc[x].ret \in {"unguard", "return", "join"} BY <1>2, Zenon DEF UserLocals
  <2>3. /\ pc'[x] \in UserLabels \ {"idle"} /\ pc'[x] \notin CompleteLabels
        /\ pc'[x] \in {"join", "return"} => loc[x].ret = pc'[x]
        /\ loc[x].ret = "join" => pc'[x] \in {"set", "commit", "join"}
    BY <2>1, <2>2, LabelSets, Zenon DEF CompleteLabels
  <2> QED BY <1>1, <2>1, <2>3, UserLocalsNext, Zenon
<1>6. CASE RenewInplace(x)
  <2>1. pc[x] = "renew" /\ pc'[x] \in {"renew", "x_flags", "dec"}
    BY <1>2, <1>6, Zenon DEF RenewInplace, Panic, At, Goto
  <2>2. loc[x].ret # "join" BY <1>2, <2>1, Zenon DEF UserLocals
  <2>3. pc'[x] \in UserLabels \ {"idle"} /\ pc'[x] \notin CompleteLabels \cup {"join", "return"}
    BY <2>1, LabelSets, Zenon DEF CompleteLabels
  <2> QED BY <1>1, <2>1, <2>2, <2>3, UserLocalsNext, Zenon
<1> QED BY <1>3, <1>4, <1>5, <1>6, Zenon

\* So do the steps of wait(), and the calls and returns of the users.
LEMMA CallControl ==
  ASSUME TypeOK, NEW x \in Users,
         \/ \E t \in Tasks : Schedule(x, t) \/ AsyncCancel(x, t) \/ Resume(x, t) \/ Wait(x, t)
         \/ Stop(x) \/ Return(x) \/ TryLock(x) \/ WaitStep(x)
  PROVE  ControlOK'
<1>1. ControlOK /\ x \in Threads /\ x # Loop BY ThreadsAssumption, Zenon DEF TypeOK, Threads
<1>2. UserLocals(x) BY <1>1, Zenon DEF ControlOK, LocalsOK
<1>3. CASE UNCHANGED <<pc, loc>>
  BY <1>1, <1>3, Zenon DEF ControlOK, LocalsOK, LoopLocals, UserLocals, Task, NewState
<1>4. ASSUME Moves(x), UserLocals(x)' PROVE ControlOK' BY <1>1, <1>4, MovesTyped, Zenon DEF LocalsOK
<1>5. ASSUME NEW t \in Tasks, Schedule(x, t) \/ AsyncCancel(x, t) PROVE ControlOK'
  <2>1. PICK d \in Int : Renew(x, t, d)
    BY <1>5, BoundsAssumption, SMT, Z3 DEF Schedule, AsyncCancel
  <2>2. CASE ~UNCHANGED <<pc, loc>>
    <3>1. /\ Moves(x) /\ pc'[x] = "store" /\ loc'[x].task = t /\ loc'[x].ret = "unguard"
      BY <2>1, <2>2, CallMoves, Zenon
    <3>2. UserLocals(x)' BY <3>1, LabelSets, Zenon DEF UserLocals, Task, CompleteLabels
    <3> QED BY <1>4, <3>1, <3>2, Zenon
  <2> QED BY <1>3, <2>2, Zenon
<1>6. ASSUME NEW t \in Tasks, Resume(x, t) \/ Wait(x, t) PROVE ControlOK'
  <2>1. CASE ~UNCHANGED <<pc, loc>>
    <3>1. /\ Moves(x) /\ pc'[x] \in {"exchange", "w_attach"} /\ loc'[x].task = t
          /\ loc'[x].ret = "return"
      BY <1>6, <2>1, CallMoves, Zenon
    <3>2. UserLocals(x)' BY <3>1, LabelSets, Zenon DEF UserLocals, Task, CompleteLabels
    <3> QED BY <1>4, <3>1, <3>2, Zenon
  <2> QED BY <1>3, <2>1, Zenon
<1>7. CASE Stop(x)
  <2>1. Moves(x) /\ pc'[x] = "set" /\ loc'[x].ret = "join" BY <1>7, ReturnMoves, Zenon
  <2>2. UserLocals(x)' BY <2>1, LabelSets, Zenon DEF UserLocals, CompleteLabels
  <2> QED BY <1>4, <2>1, <2>2, Zenon
<1>8. CASE Return(x) \/ WaitEnd(x)
  <2>1. Moves(x) /\ pc'[x] = "idle" /\ loc'[x] = NoLocals BY <1>8, ReturnMoves, Zenon
  <2>2. loc'[x].ret = "return" BY <2>1, FreshLocals, Zenon
  <2>3. UserLocals(x)' BY <2>1, <2>2, LabelSets, Zenon DEF UserLocals, CompleteLabels
  <2> QED BY <1>4, <2>1, <2>3, Zenon
<1>9. CASE TryLock(x)
  <2>1. /\ Moves(x) /\ pc'[x] \in {"renew", "unlock_push", "push"}
        /\ loc'[x].task = loc[x].task /\ loc'[x].ret = loc[x].ret
    BY <1>9, TryLockMoves, Zenon
  <2>2. pc[x] = "trylock" BY <1>9, Zenon DEF TryLock, At
  <2>3. Task(x) \in Tasks /\ loc[x].ret \in {"unguard", "return"} BY <1>1, <2>2, UserTask, Zenon
  <2>4. UserLocals(x)' BY <2>1, <2>3, LabelSets, Zenon DEF UserLocals, CompleteLabels, Task
  <2> QED BY <1>4, <2>1, <2>4, Zenon
<1>10. CASE WaitAttach(x) \/ WaitSpin(x) \/ WaitReadState(x) \/ WaitReadSem(x) \/ WaitSem(x)
  <2>1. Works(x) BY <1>10, WaitWorks, Zenon
  <2>2. pc \in [Threads -> UserLabels \cup LoopLabels] BY <1>1, Zenon DEF ControlOK
  <2>3. pc[x] \in WaitLabels /\ pc'[x] \in WaitLabels
    BY <1>1, <1>10, <2>2, Zenon
       DEF WaitAttach, WaitSpin, WaitReadState, WaitReadSem, WaitSem, At, Goto, WaitLabels
  <2>4. pc[x] \notin {"idle", "set", "commit", "join"} BY <2>3, Zenon DEF WaitLabels
  <2>5. loc[x].ret # "join" BY <1>1, <2>4, UserTask, Zenon
  <2>6. pc'[x] \in UserLabels \ {"idle"} /\ pc'[x] \notin CompleteLabels \cup {"join", "return"}
    BY <2>3, LabelSets, Zenon DEF WaitLabels, CompleteLabels
  <2> QED BY <2>1, <2>4, <2>5, <2>6, UserLocalsNext, Zenon
<1> QED BY <1>5, <1>6, <1>7, <1>8, <1>9, <1>10, Zenon DEF WaitStep

\* The steps that users and the event loop thread share keep the control state typed.
LEMMA SharedControl ==
  ASSUME TypeOK, NEW x \in Threads, SharedStep(x)
  PROVE  ControlOK'
<1>0. x = Loop \/ (x \in Users /\ x # Loop) BY ThreadsAssumption, Zenon DEF Threads
<1>1. /\ ControlOK /\ LocalsOK(x) /\ pc \in [Threads -> UserLabels \cup LoopLabels]
      /\ (x = Loop \/ (x \in Users /\ x # Loop))
  BY <1>0, Zenon DEF TypeOK, ControlOK
<1>2. ASSUME Works(x), pc[x] \in UpdateLabels \cup {"c_start"},
             pc'[x] \in UpdateLabels \cup {"c_sem"} \cup (IF x = Loop THEN {"pop", "sleep"} ELSE {"unguard"}),
             pc'[x] = "c_sem" => pc[x] = "c_start"
      PROVE  ControlOK'
  <2>1. CASE x = Loop
    <3>1. LoopLocals BY <1>1, <2>1, Zenon DEF LocalsOK
    <3>2. loc'[x].task = loc[x].task /\ loc'[x].ret = loc[x].ret /\ loc'[x].from = loc[x].from
      BY <1>2, Zenon DEF Works
    <3>3. pc'[x] \in LoopLabels /\ pc'[x] \in {"pop", "sleep", "c_sem"} \cup UpdateLabels
      BY <1>2, <2>1, LabelSets, Zenon DEF UpdateLabels
    <3>4. LoopLocals' BY <1>2, <2>1, <3>1, <3>2, <3>3, Zenon
      DEF LoopLocals, UpdateLabels, CompleteLabels, ExecuteLabels, Task
    <3> QED BY <1>1, <1>2, <2>1, <3>4, MovesTyped, Zenon DEF LocalsOK, Works
  <2>2. CASE x \in Users /\ x # Loop
    <3>1. UserLocals(x) BY <1>1, <2>2, Zenon DEF LocalsOK
    <3>2. pc[x] \notin {"idle", "set", "commit", "join"} BY <1>2, Zenon DEF UpdateLabels
    <3>3. loc[x].ret # "join" BY <1>1, <2>2, <3>2, UserTask, Zenon
    <3>4. /\ pc'[x] \in UserLabels \ {"idle"} /\ pc'[x] \notin {"join", "return"}
          /\ pc'[x] \in CompleteLabels => loc[x].from = "Cancelling"
      BY <1>2, <2>2, <3>1, LabelSets, Zenon DEF UpdateLabels, CompleteLabels, UserLocals
    <3> QED BY <1>2, <2>2, <3>2, <3>3, <3>4, UserLocalsNext, Zenon
  <2> QED BY <1>1, <2>1, <2>2, Zenon
<1>3. CASE UpdateWakeup(x) \/ UpdateSet(x) \/ UpdateCheck(x) \/ CompleteStart(x)
  <2>1. Works(x) BY <1>3, SharedWorks, Zenon
  <2>2. /\ pc[x] \in {"update", "u_set", "u_commit", "u_check", "c_start"}
        /\ pc'[x] \in {"u_set", "u_commit", "u_check", "unlock", "c_sem"}
                      \cup (IF x = Loop THEN {"pop", "sleep"} ELSE {})
        /\ pc'[x] = "c_sem" => pc[x] = "c_start"
    BY <1>1, <1>3, Zenon DEF UpdateWakeup, UpdateSet, UpdateCheck, CompleteStart, TrySet, Commit, At, Goto,
       FetchLabel
  <2> QED BY <1>2, <2>1, <2>2, Zenon DEF UpdateLabels
<1>4. CASE Unlock(x)
  <2>1. CASE x # Loop
    <3>1. Works(x) /\ pc'[x] = "unguard" BY <1>4, <2>1, UnlockMoves, Zenon
    <3>2. pc[x] = "unlock" BY <1>4, Zenon DEF Unlock, At
    <3> QED BY <1>2, <2>1, <3>1, <3>2, Zenon DEF UpdateLabels
  <2>2. CASE x = Loop
    <3>1. Moves(x) /\ pc'[x] \in {"stopped", "wait"} BY <1>4, <2>2, UnlockMoves, Zenon
    <3>2. LoopLocals' BY <2>2, <3>1, LabelSets DEF LoopLocals, CompleteLabels, ExecuteLabels
    <3> QED BY <1>1, <2>2, <3>1, <3>2, MovesTyped, Zenon DEF LocalsOK
  <2> QED BY <2>1, <2>2, Zenon
<1>5. CASE CancelFlags(x) \/ CompleteTakeSem(x) \/ CompleteDone(x)
  <2>1. pc[x] \in {"x_flags", "c_sem", "c_done"} /\ pc[x] \in {"x_flags"} \cup CompleteLabels
    BY <1>5, Zenon DEF CancelFlags, CompleteTakeSem, CompleteDone, At, CompleteLabels
  <2>2. Task(x) \in Tasks /\ (x = Loop => loc[x].ret \in {"pop", "sleep", "reborn"})
    BY <1>1, <2>1, CompletingTask, Zenon
  <2>3. /\ Moves(x) /\ loc'[x].task = loc[x].task /\ loc'[x].ret = loc[x].ret
        /\ pc'[x] \in {"c_start", "c_done", "c_post"}
        /\ loc'[x].from = "Cancelling" \/ (loc'[x].from = loc[x].from /\ pc[x] # "x_flags")
    BY <1>5, <2>1, <2>2, CompleteMoves, Zenon DEF KeepsCall, CancelFlags, CompleteTakeSem, CompleteDone, At
  <2>4. pc'[x] \in LoopLabels /\ pc'[x] \in UserLabels BY <2>3, LabelSets, Zenon
  <2>5. CASE x = Loop
    <3>1. LoopLocals BY <1>1, <2>5 DEF LocalsOK
    <3>2. LoopLocals' BY <2>1, <2>2, <2>3, <2>4, <2>5, <3>1, Zenon
      DEF LoopLocals, CompleteLabels, ExecuteLabels, Task
    <3> QED BY <1>1, <2>3, <2>5, <3>2, MovesTyped DEF LocalsOK
  <2>6. CASE x \in Users /\ x # Loop
    <3>1. UserLocals(x) BY <1>1, <2>6 DEF LocalsOK
    <3>2. UserLocals(x)' BY <2>1, <2>2, <2>3, <2>4, <3>1 DEF UserLocals, CompleteLabels, Task
    <3> QED BY <1>1, <2>3, <2>6, <3>2, MovesTyped, Zenon DEF LocalsOK
  <2> QED BY <1>1, <2>5, <2>6
<1>6. CASE CompletePost(x)
  <2>1. pc[x] = "c_post" /\ pc[x] \in {"x_flags"} \cup CompleteLabels
    BY <1>6, Zenon DEF CompletePost, At, CompleteLabels
  <2>2. Task(x) \in Tasks /\ (x = Loop => loc[x].ret \in {"pop", "sleep", "reborn"})
    BY <1>1, <2>1, CompletingTask, Zenon
  <2>3. x = Loop => loc[x].ret \in LoopLabels BY <2>2, LabelSets, Zenon
  <2>4. /\ Moves(x) /\ loc'[x].task = loc[x].task /\ loc'[x].ret = loc[x].ret
        /\ pc'[x] = IF x = Loop THEN loc[x].ret ELSE "dec"
        /\ loc'[x].from = "Completed"
    BY <1>6, <2>2, <2>3, CompleteMoves, Zenon DEF KeepsCall
  <2>5. CASE x = Loop
    <3>2. LoopLocals' BY <2>2, <2>4, <2>5, LabelSets, Zenon
      DEF LoopLocals, CompleteLabels, ExecuteLabels, Task
    <3> QED BY <1>1, <2>4, <2>5, <3>2, MovesTyped, Zenon DEF LocalsOK
  <2>6. CASE x \in Users /\ x # Loop
    <3>1. UserLocals(x) BY <1>1, <2>6 DEF LocalsOK
    <3>2. UserLocals(x)' BY <2>1, <2>2, <2>4, <2>6, <3>1, LabelSets, Zenon DEF UserLocals, CompleteLabels, Task
    <3> QED BY <1>1, <2>4, <2>6, <3>2, MovesTyped DEF LocalsOK
  <2> QED BY <1>1, <2>5, <2>6
<1> QED BY <1>3, <1>4, <1>5, <1>6, Zenon DEF SharedStep

\* The steps of the event loop thread keep the control state typed.
LEMMA LoopControl ==
  ASSUME TypeOK, LoopStep
  PROVE  ControlOK'
<1>1. /\ ControlOK /\ LoopLocals /\ pc \in [Threads -> UserLabels \cup LoopLabels]
      /\ Loop \in Threads
  BY Zenon DEF TypeOK, ControlOK, Threads, LocalsOK
<1>2. ASSUME Moves(Loop), LoopLocals' PROVE ControlOK'
  BY <1>1, <1>2, MovesTyped, Zenon DEF LocalsOK
<1>3. ASSUME Moves(Loop), pc'[Loop] \in {"wait", "lock", "stopped", "pop", "sleep", "update"}
      PROVE  ControlOK'
  <2>1. LoopLocals' BY <1>3, LabelSets, Zenon DEF LoopLocals, CompleteLabels, ExecuteLabels
  <2> QED BY <1>2, <1>3, <2>1, Zenon
<1>4. ASSUME Works(Loop), pc'[Loop] = pc[Loop] PROVE ControlOK'
  <2>1. LoopLocals' BY <1>1, <1>4, Zenon DEF LoopLocals, Works, Task, NewState
  <2> QED BY <1>2, <1>4, <2>1, Zenon DEF Works
<1>5. ASSUME Moves(Loop), loc'[Loop].task = loc[Loop].task, loc'[Loop].from = "Processing",
             pc[Loop] \in {"exec", "run", "pause", "p_sleep", "p_check"},
             pc'[Loop] \in {"run", "renewed", "pause", "p_sleep", "p_check", "reborn"}
      PROVE  ControlOK'
  <2>1. Task(Loop) \in Tasks BY <1>1, <1>5, LoopTask, Zenon
  <2>2. LoopLocals' BY <1>5, <2>1, LabelSets, Zenon DEF LoopLocals, CompleteLabels, ExecuteLabels, Task
  <2> QED BY <1>2, <1>5, <2>2, Zenon
<1>6. CASE LoopWake \/ LoopLock \/ FetchAgain \/ FetchPanic \/ ExecuteFinish
           \/ ExecuteOperation \/ ExecutePause \/ PauseTask \/ ExecuteContinue
  <2>1. Works(Loop) BY <1>6, LoopWorks, Zenon
  <2>2. CASE LoopWake \/ LoopLock \/ FetchAgain \/ FetchPanic
    <3>1. pc'[Loop] = pc[Loop] \/ pc'[Loop] \in {"lock", "pop", "sleep"}
      BY <1>1, <2>2, Zenon DEF LoopWake, LoopLock, FetchAgain, FetchPanic, Panic, Goto, FetchLabel
    <3> QED BY <1>3, <1>4, <2>1, <3>1, Zenon DEF Works
  <2>3. CASE ExecuteFinish \/ ExecuteOperation \/ ExecutePause \/ PauseTask \/ ExecuteContinue
    <3>1. /\ pc[Loop] \in {"run", "pause", "p_sleep"}
          /\ pc'[Loop] = pc[Loop] \/ pc'[Loop] \in {"renewed", "pause", "p_sleep", "p_check", "reborn"}
      BY <1>1, <2>3, Zenon DEF ExecuteFinish, ExecuteOperation, ExecutePause, PauseTask, ExecuteContinue,
         Panic, Goto, At
    <3>2. loc[Loop].from = "Processing" BY <1>1, <3>1, Zenon DEF LoopLocals
    <3> QED BY <1>4, <1>5, <2>1, <3>1, <3>2, Zenon DEF Works
  <2> QED BY <1>6, <2>2, <2>3, Zenon
<1>7. CASE FetchPop
  <2>1. CASE Moves(Loop) /\ pc'[Loop] = "load" /\ ready_queue # <<>> /\ loc'[Loop].task = Head(ready_queue)
    <3>1. Head(ready_queue) \in Tasks BY <2>1, SMT, Z3 DEF TypeOK, DataOK
    <3>2. LoopLocals' BY <2>1, <3>1, LabelSets, Zenon DEF LoopLocals, CompleteLabels, ExecuteLabels, Task
    <3> QED BY <1>2, <2>1, <3>2, Zenon
  <2> QED BY <1>3, <1>7, <2>1, FetchMoves, Zenon
<1>8. CASE FetchLoad
  <2>1. CASE Moves(Loop) /\ pc'[Loop] = "newstate" /\ loc'[Loop].task = loc[Loop].task
    <3>1. pc[Loop] = "load" BY <1>8, Zenon DEF FetchLoad, At
    <3>2. Task(Loop) \in Tasks BY <1>1, <3>1, LoopTask, Zenon
    <3>3. LoopLocals' BY <2>1, <3>2, LabelSets, Zenon DEF LoopLocals, CompleteLabels, ExecuteLabels, Task
    <3> QED BY <1>2, <2>1, <3>3, Zenon
  <2>2. "pop" \in {"wait", "lock", "stopped", "pop", "sleep", "update"} BY Zenon
  <2> QED BY <1>3, <1>8, <2>1, <2>2, FetchMoves, Zenon DEF Works
<1>9. CASE FetchSleeping
  <2>1. CASE Moves(Loop) /\ pc'[Loop] = "exec" /\ sleeping_queue # <<>>
             /\ loc'[Loop].task = Head(sleeping_queue)
    <3>1. Head(sleeping_queue) \in Tasks BY <2>1, SMT, Z3 DEF TypeOK, DataOK
    <3>2. LoopLocals' BY <2>1, <3>1, LabelSets, Zenon DEF LoopLocals, CompleteLabels, ExecuteLabels, Task
    <3> QED BY <1>2, <2>1, <3>2, Zenon
  <2> QED BY <1>3, <1>9, <2>1, FetchMoves, Zenon DEF Works
<1>10. CASE FetchNewState
  <2>1. pc[Loop] = "newstate" BY <1>10, Zenon DEF FetchNewState, At
  <2>2. Task(Loop) \in Tasks BY <1>1, <2>1, LoopTask, Zenon
  <2>3. CASE /\ Moves(Loop) /\ pc'[Loop] = "recheck" /\ loc'[Loop].task = loc[Loop].task
             /\ loc'[Loop].flags = loc[Loop].flags /\ loc'[Loop].deadline = loc[Loop].deadline
             /\ loc'[Loop].from = NewState(loc[Loop].flags, loc[Loop].deadline)
    <3>1. loc'[Loop].from = NewState(loc'[Loop].flags, loc'[Loop].deadline) BY <2>3, Zenon
    <3>2. LoopLocals'
      BY <2>2, <2>3, <3>1, LabelSets, Zenon DEF LoopLocals, CompleteLabels, ExecuteLabels, Task, NewState
    <3> QED BY <1>2, <2>3, <3>2, Zenon
  <2> QED BY <1>4, <1>10, <2>3, ExecuteMoves, Zenon
<1>11. CASE FetchReady
  <2>1. pc[Loop] = "recheck" BY <1>11, Zenon DEF FetchReady, At
  <2>2. Task(Loop) \in Tasks BY <1>1, <2>1, LoopTask, Zenon
  <2>3. /\ Moves(Loop) /\ pc'[Loop] \in {"x_flags", "exec", "pop"}
        /\ loc'[Loop].task = loc[Loop].task /\ loc'[Loop].ret = "pop"
    BY <1>11, ExecuteMoves, Zenon
  <2>4. LoopLocals' BY <2>2, <2>3, LabelSets, Zenon DEF LoopLocals, CompleteLabels, ExecuteLabels, Task
  <2> QED BY <1>2, <2>3, <2>4, Zenon
<1>12. CASE ExecuteBegin
  <2>1. pc[Loop] = "exec" BY <1>12, Zenon DEF ExecuteBegin, At
  <2>2. \/ Works(Loop) /\ pc' = pc
        \/ /\ Moves(Loop) /\ pc'[Loop] = "run" /\ loc'[Loop].task = loc[Loop].task
           /\ loc'[Loop].from = "Processing"
    BY <1>12, ExecuteMoves, Zenon
  <2> QED BY <1>4, <1>5, <2>1, <2>2, Zenon
<1>13. CASE CheckRenewed
  <2>1. pc[Loop] = "renewed" BY <1>13, Zenon DEF CheckRenewed, At
  <2>2. Task(Loop) \in Tasks /\ loc[Loop].from = "Processing" BY <1>1, <2>1, LoopTask, Zenon DEF LoopLocals
  <2>3. /\ Moves(Loop) /\ pc'[Loop] = "c_start" /\ loc'[Loop].task = loc[Loop].task
        /\ loc'[Loop].from = loc[Loop].from /\ loc'[Loop].ret \in {"reborn", "pop", "sleep"}
    BY <1>13, ExecuteMoves, Zenon
  <2>4. LoopLocals' BY <2>2, <2>3, LabelSets, Zenon DEF LoopLocals, CompleteLabels, ExecuteLabels, Task
  <2> QED BY <1>2, <2>3, <2>4, Zenon
<1>14. CASE PauseCheck \/ RebornTask
  <2>1. \/ Moves(Loop) /\ pc'[Loop] \in {"pop", "sleep"}
        \/ Works(Loop) /\ pc'[Loop] = "reborn" /\ PauseCheck
    BY <1>14, ExecuteMoves, Zenon
  <2>2. CASE Works(Loop) /\ pc'[Loop] = "reborn" /\ PauseCheck
    <3>1. pc[Loop] = "p_check" BY <2>2, Zenon DEF PauseCheck, At
    <3>2. loc[Loop].from = "Processing" BY <1>1, <3>1, Zenon DEF LoopLocals
    <3> QED BY <1>5, <2>2, <3>1, <3>2, Zenon DEF Works
  <2> QED BY <1>3, <2>1, <2>2, Zenon
<1> QED BY <1>1, <1>6, <1>7, <1>8, <1>9, <1>10, <1>11, <1>12, <1>13, <1>14, SharedControl DEF LoopStep

\* The steps of a request keep the data typed.
LEMMA RequestData ==
  ASSUME FirstExists, TypeOK, NEW x \in Users, RenewStep(x)
  PROVE  DataOK'
<1> USE DEF atomics, effective, waiting, ready, lists, timer, misc
<1>1. ControlOK /\ DataOK /\ x \in Threads /\ loc[x].deadline \in Int /\ loc[x].version \in Int
      /\ loc[x].wakeup \in Int /\ loc[x].flags \in SUBSET Flags
  BY LocalsTyped, Zenon DEF TypeOK, Threads
<1>2. CASE RequestSet(x)
  <2>1. /\ wakeup' \in {wakeup, loc[x].wakeup} /\ wakeup_setter' \in {wakeup_setter, x, NoThread}
        /\ UNCHANGED <<atomics, effective, waiting, ready, lists, misc, task_mutex>>
    BY <1>2, Zenon DEF RequestSet, TrySet, Commit
  <2> QED BY <1>1, <2>1, Zenon DEF DataOK
<1>3. ASSUME ~RequestSet(x) PROVE Task(x) \in Tasks
  <2>1. pc[x] \notin {"idle", "set", "commit", "join"}
    BY <1>3, Zenon DEF RenewStep, RenewStore, RenewCancel, RenewPaused, ExchangeReady, CommitSize, Push, Link,
       Return, TryLock, UnlockPush, RenewInplace, RenewedInplace, At
  <2> QED BY <1>1, <2>1, UserTask, Zenon
<1>4. CASE RenewStore(x) /\ ~RequestSet(x)
  <2>1. /\ renewed_deadline \in [Tasks -> Int] /\ version \in [Tasks -> Int] /\ Task(x) \in Tasks
        /\ loc[x].deadline \in Int
    BY <1>1, <1>3, <1>4, Zenon DEF DataOK
  <2>2. /\ renewed_deadline' = [renewed_deadline EXCEPT ![Task(x)] = loc[x].deadline]
        /\ version' = [version EXCEPT ![Task(x)] = @ + 1]
    BY <1>4, Zenon DEF RenewStore
  <2>3. renewed_deadline' \in [Tasks -> Int] /\ version' \in [Tasks -> Int] BY <2>1, <2>2, SMT, Z3
  <2> QED BY <1>1, <1>4, <2>3, Zenon DEF RenewStore, DataOK
<1>5. CASE (RenewCancel(x) \/ ExchangeReady(x)) /\ ~RequestSet(x)
  BY <1>1, <1>3, <1>5, Zenon DEF RenewCancel, ExchangeReady, DataOK, States
<1>6. CASE RenewPaused(x) BY <1>1, <1>6, Zenon DEF RenewPaused, DataOK
<1>7. CASE CommitSize(x) \/ RenewedInplace(x)
  <2>1. ready_queue_size \in Int /\ ready_queue_size' \in {ready_queue_size + 1, ready_queue_size - 1}
    BY <1>1, <1>7, Zenon DEF CommitSize, RenewedInplace, DataOK
  <2>2. ready_queue_size' \in Int BY <2>1, SMT, Z3
  <2> QED BY <1>1, <1>7, <2>2, Zenon DEF CommitSize, RenewedInplace, DataOK
<1>8. CASE (Push(x) \/ Link(x)) /\ ~RequestSet(x)
  <2>1. linking' \in SUBSET Tasks BY <1>1, <1>3, <1>8 DEF Push, Link, DataOK
  <2>2. ready_queue' \in Seq(Tasks)
    <3>1. ready_queue \in Seq(Tasks) /\ Task(x) \in Tasks BY <1>1, <1>3, <1>8, Zenon DEF DataOK
    <3>2. ready_queue' = Append(ready_queue, Task(x)) \/ ready_queue' = ready_queue BY <1>8, Zenon DEF Push, Link
    <3> QED BY <3>1, <3>2, AppendSeq, Zenon
  <2>3. UNCHANGED <<atomics, effective, waiting, ready_queue_size, lists, timer, misc, task_mutex>>
    BY <1>8, Zenon DEF Push, Link
  <2> QED BY <1>1, <2>1, <2>2, <2>3, Zenon DEF DataOK
<1>9. CASE Return(x) /\ ~RequestSet(x)
  <2>1. renew_guard \in [Tasks -> BOOLEAN] /\ Task(x) \in Tasks BY <1>1, <1>3, <1>9, Zenon DEF DataOK
  <2>2. renew_guard' \in {renew_guard, [renew_guard EXCEPT ![Task(x)] = FALSE]} BY <1>9, Zenon DEF Return
  <2>3. renew_guard' \in [Tasks -> BOOLEAN] BY <2>1, <2>2, Zenon
  <2> QED BY <1>1, <1>9, <2>3, Zenon DEF Return, DataOK
<1>10. CASE TryLock(x) \/ UnlockPush(x)
  BY <1>1, <1>10, Zenon DEF TryLock, UnlockPush, DataOK
<1>11. CASE RenewInplace(x) /\ ~RequestSet(x)
  <2> DEFINE t == Task(x)
  <2>1. t \in Tasks BY <1>3, <1>11, Zenon
  <2> HIDE DEF t
  <2>2. /\ state' \in [Tasks -> States] /\ panic' \in {panic, "non-ready", "cancelled"}
    BY <1>1, <1>11, <2>1, Zenon DEF RenewInplace, Panic, DataOK, NewState, States, t
  <2>3. /\ paused_queue' \in Seq(Tasks) /\ sleeping_queue' \in Seq(Tasks)
        /\ effective_deadline' \in [Tasks -> Int] /\ effective_version' \in [Tasks -> Int]
    <3>1. Without(t, paused_queue) \in Seq(Tasks) /\ Without(t, sleeping_queue) \in Seq(Tasks)
      BY <1>1, WithoutSeq, Zenon DEF DataOK
    <3>2. InsertSleeping(t, loc[x].deadline, Without(t, sleeping_queue)) \in Seq(Tasks)
      BY <1>1, <2>1, <3>1, InsertSeq, Zenon DEF DataOK
    <3>3. CASE UNCHANGED <<effective, lists>> BY <1>1, <3>3, Zenon DEF DataOK
    <3>4. CASE CancelTask(t, loc[x].version) BY <1>1, <2>1, <3>1, <3>4, SMT, Z3 DEF CancelTask, DataOK
    <3>5. CASE RescheduleTask(t, loc[x].deadline, loc[x].version)
      BY <1>1, <2>1, <3>1, <3>2, <3>5, Zenon DEF RescheduleTask, DataOK
    <3> QED BY <1>11, <3>3, <3>4, <3>5, Zenon DEF RenewInplace, t
  <2>4. UNCHANGED <<flags, renew_guard, renewed_deadline, version, waiting, ready, timer,
                    completer, kind, operation, fetch_ready, stop, now, calls, task_mutex>>
    BY <1>11, Zenon DEF RenewInplace
  <2> QED BY <1>1, <2>2, <2>3, <2>4, Zenon DEF DataOK
<1> QED BY <1>2, <1>4, <1>5, <1>6, <1>7, <1>8, <1>9, <1>10, <1>11 DEF RenewStep

\* So do the calls of the users and the steps of wait().
LEMMA CallData ==
  ASSUME TypeOK, NEW x \in Users,
         \/ \E t \in Tasks : Schedule(x, t) \/ AsyncCancel(x, t) \/ Resume(x, t) \/ Wait(x, t)
         \/ Stop(x) \/ WaitStep(x)
  PROVE  DataOK'
<1> USE DEF atomics, effective, waiting, ready, lists, timer, misc
<1>1. ControlOK /\ DataOK /\ x \in Threads BY Zenon DEF TypeOK, Threads
<1>2. ASSUME NEW t \in Tasks, Schedule(x, t) \/ AsyncCancel(x, t) PROVE DataOK'
  <2>1. PICK d : Renew(x, t, d) BY <1>2, Zenon DEF Schedule, AsyncCancel
  <2>2. renew_guard' = renew_guard \/ renew_guard' = [renew_guard EXCEPT ![t] = TRUE]
    BY <2>1, Zenon DEF Renew
  <2>3. renew_guard' \in [Tasks -> BOOLEAN] BY <1>1, <2>2, Zenon DEF DataOK
  <2>4. version' \in [Tasks -> Int] /\ calls' \in Int
    <3>1. version' = version \/ version' = [version EXCEPT ![t] = @ + 1] BY <2>1, Zenon DEF Renew
    <3>2. calls' = calls - 1 BY <2>1, Zenon DEF Renew
    <3>3. version \in [Tasks -> Int] /\ calls \in Int BY <1>1, Zenon DEF DataOK
    <3> QED BY <3>1, <3>2, <3>3, SMT, Z3
  <2> QED BY <1>1, <2>1, <2>3, <2>4, Zenon DEF Renew, DataOK
<1>3. ASSUME NEW t \in Tasks, Resume(x, t) PROVE DataOK'
  BY <1>1, <1>3, Zenon DEF Resume, DataOK, Flags
<1>4. ASSUME NEW t \in Tasks, Wait(x, t) PROVE DataOK'
  <2>1. wait_guard' = wait_guard \/ wait_guard' = [wait_guard EXCEPT ![t] = TRUE]
    BY <1>4, Zenon DEF Wait
  <2>2. wait_guard' \in [Tasks -> BOOLEAN] BY <1>1, <2>1, Zenon DEF DataOK
  <2>3. calls' \in Int BY <1>1, <1>4, SMT, Z3 DEF DataOK, Wait
  <2> QED BY <1>1, <1>4, <2>2, <2>3, Zenon DEF Wait, DataOK
<1>5. CASE Stop(x) BY <1>1, <1>5, Zenon DEF Stop, DataOK
<1>6. CASE WaitStep(x)
  <2>1. pc[x] \notin {"idle", "set", "commit", "join"}
    BY <1>6, Zenon DEF WaitStep, WaitAttach, WaitSpin, WaitReadState, WaitReadSem, WaitSem, WaitEnd, At
  <2>2. Task(x) \in Tasks BY <1>1, <2>1, UserTask, Zenon
  <2>3. CASE WaitSpin(x) \/ WaitReadState(x) \/ WaitReadSem(x)
    BY <1>1, <2>3, Zenon DEF WaitSpin, WaitReadState, WaitReadSem, DataOK
  <2>4. CASE WaitAttach(x) BY <1>1, <2>2, <2>4, Zenon DEF WaitAttach, DataOK
  <2>5. CASE WaitSem(x) BY <1>1, <2>2, <2>5, SMT, Z3 DEF WaitSem, DataOK
  <2>6. CASE WaitEnd(x) BY <1>1, <2>2, <2>6, Zenon DEF WaitEnd, DataOK
  <2> QED BY <1>6, <2>3, <2>4, <2>5, <2>6, Zenon DEF WaitStep
<1> QED BY <1>2, <1>3, <1>4, <1>5, <1>6, Zenon

\* So do the steps that users and the event loop thread share.
LEMMA SharedData ==
  ASSUME TypeOK, NEW x \in Threads, SharedStep(x)
  PROVE  DataOK'
<1> USE DEF atomics, effective, waiting, ready, lists, timer, misc
<1>1. ControlOK /\ DataOK /\ loc[x].wakeup \in Int /\ loc[x].sem \in BOOLEAN BY LocalsTyped, Zenon DEF TypeOK
<1>2. CASE UpdateWakeup(x) \/ UpdateCheck(x) \/ Unlock(x)
  BY <1>1, <1>2, Zenon DEF UpdateWakeup, UpdateCheck, Unlock, DataOK
<1>3. CASE UpdateSet(x)
  <2>1. /\ wakeup' \in {wakeup, loc[x].wakeup} /\ wakeup_setter' \in {wakeup_setter, x, NoThread}
        /\ UNCHANGED <<atomics, effective, waiting, ready, lists, misc, task_mutex>>
    BY <1>3, Zenon DEF UpdateSet, TrySet, Commit
  <2> QED BY <1>1, <2>1, Zenon DEF DataOK
<1>4. CASE CancelFlags(x) \/ CompleteStart(x) \/ CompleteTakeSem(x) \/ CompleteDone(x) \/ CompletePost(x)
  <2>1. pc[x] \in {"x_flags"} \cup CompleteLabels
    BY <1>4, Zenon DEF CancelFlags, CompleteStart, CompleteTakeSem, CompleteDone, CompletePost, At, CompleteLabels
  <2>2. Task(x) \in Tasks BY <1>1, <2>1, CompletingTask, Zenon
  <2>3. CASE CancelFlags(x) BY <1>1, <2>2, <2>3, Zenon DEF CancelFlags, DataOK, Flags
  <2>4. CASE CompleteStart(x) BY <1>1, <2>2, <2>4, Zenon DEF CompleteStart, DataOK, States
  <2>5. CASE CompleteTakeSem(x) BY <1>1, <2>2, <2>5, Zenon DEF CompleteTakeSem, DataOK
  <2>6. CASE CompleteDone(x)
    <3>1. state' \in {state, [state EXCEPT ![Task(x)] = "Completed"]} BY <2>6, Zenon DEF CompleteDone
    <3>2. state' \in [Tasks -> States] BY <1>1, <2>2, <3>1, Zenon DEF DataOK, States
    <3>3. sem_attached' \in [Tasks -> BOOLEAN] BY <1>1, <2>2, <2>6, Zenon DEF CompleteDone, DataOK
    <3> QED BY <1>1, <2>6, <3>2, <3>3, Zenon DEF CompleteDone, DataOK
  <2>7. CASE CompletePost(x) BY <1>1, <2>2, <2>7, SMT, Z3 DEF CompletePost, DataOK
  <2> QED BY <1>4, <2>3, <2>4, <2>5, <2>6, <2>7, Zenon
<1> QED BY <1>2, <1>3, <1>4, Zenon DEF SharedStep

\* So do the steps of the event loop thread.
LEMMA LoopData ==
  ASSUME FirstExists, TypeOK, LoopStep
  PROVE  DataOK'
<1> USE DEF atomics, effective, waiting, ready, lists, timer, misc
<1>1. ControlOK /\ DataOK /\ Loop \in Threads BY Zenon DEF TypeOK, Threads
<1>2. loc[Loop].deadline \in Int /\ loc[Loop].version \in Int /\ loc[Loop].flags \in SUBSET Flags
  BY <1>1, LocalsTyped, Zenon
<1>q. ready_queue \in Seq(Tasks) /\ sleeping_queue \in Seq(Tasks) /\ paused_queue \in Seq(Tasks)
  BY <1>1, Zenon DEF DataOK
<1>r. /\ flags \in [Tasks -> SUBSET Flags] /\ operation \in [Tasks -> {"none", "running", "done"}]
       /\ state \in [Tasks -> States]
  BY <1>1, Zenon DEF DataOK
<1>3. CASE LoopWake \/ LoopLock \/ FetchPanic \/ CheckRenewed
  BY <1>1, <1>3, Zenon DEF LoopWake, LoopLock, FetchPanic, CheckRenewed, Panic, DataOK
<1>4. CASE PauseCheck BY <1>1, <1>4, Zenon DEF PauseCheck, DataOK
<1>5. CASE FetchPop
  <2>1. ready_queue' = ready_queue \/ (ready_queue # <<>> /\ ready_queue' = Tail(ready_queue))
    BY <1>5, FetchMoves, Zenon
  <2>2. ready_queue' \in Seq(Tasks) BY <1>q, <2>1, TailSeq, Zenon
  <2> QED BY <1>1, <1>5, <2>2, Zenon DEF FetchPop, DataOK
<1>6. ASSUME ~(LoopWake \/ LoopLock \/ FetchPop \/ FetchSleeping \/ SharedStep(Loop))
      PROVE  Task(Loop) \in Tasks
  <2>1. pc[Loop] \in {"load", "newstate", "recheck", "exec", "run", "renewed", "pause", "p_sleep",
                      "p_check", "reborn"}
    BY <1>6, Zenon DEF LoopStep, FetchLoad, FetchNewState, FetchAgain, FetchPanic, FetchReady, ExecuteBegin,
       ExecuteFinish, CheckRenewed, ExecuteOperation, ExecutePause, PauseTask, PauseCheck,
       ExecuteContinue, RebornTask, At
  <2> QED BY <1>1, <2>1, LoopTask, Zenon
<1>7. CASE FetchSleeping
  <2>1. \/ UNCHANGED <<state, sleeping_queue, fetch_ready>>
        \/ /\ sleeping_queue # <<>> /\ sleeping_queue' = Tail(sleeping_queue)
           /\ state' \in {state, [state EXCEPT ![Head(sleeping_queue)] = "Processing"]}
           /\ fetch_ready' \in {fetch_ready, TRUE}
    BY <1>7, Zenon DEF FetchSleeping
  <2>2. sleeping_queue' \in Seq(Tasks)
    <3>1. CASE sleeping_queue' = sleeping_queue BY <1>q, <3>1, Zenon
    <3>2. CASE sleeping_queue # <<>> /\ sleeping_queue' = Tail(sleeping_queue)
      BY <1>q, <3>2, TailSeq, Zenon
    <3> QED BY <2>1, <3>1, <3>2, Zenon
  <2>3. state' \in [Tasks -> States]
    <3>1. "Processing" \in States BY Zenon DEF States
    <3>2. state' = state \/ state' = [state EXCEPT ![Head(sleeping_queue)] = "Processing"] BY <2>1, Zenon
    <3> QED BY <1>r, <3>1, <3>2, Zenon
  <2>4. fetch_ready' \in BOOLEAN BY <1>1, <2>1, Zenon DEF DataOK
  <2> QED BY <1>1, <1>7, <2>2, <2>3, <2>4, Zenon DEF FetchSleeping, DataOK
<1>8. ASSUME Task(Loop) \in Tasks, FetchLoad \/ FetchAgain \/ RebornTask PROVE DataOK'
  <2>1. ready_queue' = ready_queue \/ ready_queue' = Append(ready_queue, Task(Loop))
    BY <1>8, Zenon DEF FetchLoad, FetchAgain, RebornTask
  <2>2. ready_queue' \in Seq(Tasks) BY <1>q, <1>8, <2>1, AppendSeq, Zenon
  <2>3. state' = state \/ state' = [state EXCEPT ![Task(Loop)] = "Ready"]
    BY <1>8, Zenon DEF FetchLoad, FetchAgain, RebornTask
  <2>4. state' \in [Tasks -> States] BY <1>1, <2>3, Zenon DEF DataOK, States
  <2>5. ready_queue_size' \in {ready_queue_size, ready_queue_size + 1, ready_queue_size - 1}
    BY <1>8, Zenon DEF FetchLoad, FetchAgain, RebornTask
  <2>6. ready_queue_size' \in Int BY <1>1, <2>5, SMT, Z3 DEF DataOK
  <2> QED BY <1>1, <1>8, <2>2, <2>4, <2>6, Zenon DEF FetchLoad, FetchAgain, RebornTask, DataOK
<1>9. ASSUME Task(Loop) \in Tasks, FetchNewState PROVE DataOK'
  <2>1. panic' \in {panic, "non-ready"} BY <1>9, Zenon DEF FetchNewState, Panic
  <2>2. state' \in {state, [state EXCEPT ![Task(Loop)] = NewState(loc[Loop].flags, loc[Loop].deadline)]}
    BY <1>9, Zenon DEF FetchNewState
  <2>3. NewState(loc[Loop].flags, loc[Loop].deadline) \in States BY Zenon DEF NewState, States
  <2>4. state' \in [Tasks -> States] BY <1>1, <1>9, <2>2, <2>3, Zenon DEF DataOK
  <2>5. panic' \in {"none", "non-ready", "cancelled", "effective", "list"} BY <1>1, <2>1, Zenon DEF DataOK
  <2> QED BY <1>1, <1>9, <2>4, <2>5, Zenon DEF FetchNewState, DataOK
<1>10. ASSUME Task(Loop) \in Tasks, FetchReady PROVE DataOK'
  <2> DEFINE t == Task(Loop)
  <2> HIDE DEF t
  <2>1. /\ paused_queue' \in Seq(Tasks) /\ sleeping_queue' \in Seq(Tasks)
        /\ effective_deadline' \in [Tasks -> Int] /\ effective_version' \in [Tasks -> Int]
    <3>0. t \in Tasks BY <1>10, Zenon DEF t
    <3>1. Without(t, paused_queue) \in Seq(Tasks) /\ Without(t, sleeping_queue) \in Seq(Tasks)
      BY <1>1, WithoutSeq, Zenon DEF DataOK
    <3>2. InsertSleeping(t, loc[Loop].deadline, Without(t, sleeping_queue)) \in Seq(Tasks)
      BY <1>1, <1>2, <3>0, <3>1, InsertSeq, Zenon DEF DataOK
    <3>3. CASE UNCHANGED <<effective, lists>> BY <1>1, <3>3, Zenon DEF DataOK
    <3>4. CASE CancelTask(t, loc[Loop].version) BY <1>1, <1>2, <3>0, <3>1, <3>4, SMT, Z3 DEF CancelTask, DataOK
    <3>5. CASE RescheduleTask(t, loc[Loop].deadline, loc[Loop].version)
      BY <1>1, <1>2, <3>0, <3>1, <3>2, <3>5, Zenon DEF RescheduleTask, DataOK
    <3> QED BY <1>10, <3>3, <3>4, <3>5, Zenon DEF FetchReady, t
  <2>2. ready_queue_size' \in Int BY <1>1, <1>10, SMT, Z3 DEF FetchReady, DataOK
  <2>3. fetch_ready' \in {fetch_ready, FALSE} BY <1>10, Zenon DEF FetchReady
  <2>4. fetch_ready' \in BOOLEAN BY <1>1, <2>3, Zenon DEF DataOK
  <2> QED BY <1>1, <1>10, <2>1, <2>2, <2>4, Zenon DEF FetchReady, DataOK
<1>11. ASSUME Task(Loop) \in Tasks,
              \/ ExecuteBegin \/ ExecuteFinish \/ ExecuteOperation \/ ExecutePause \/ ExecuteContinue
       PROVE  DataOK'
  <2>1. panic' \in {panic, "effective"}
    BY <1>11, Zenon
       DEF ExecuteBegin, ExecuteFinish, ExecuteOperation, ExecutePause, ExecuteContinue, Panic
  <2>2. panic' \in {"none", "non-ready", "cancelled", "effective", "list"} BY <1>1, <2>1, Zenon DEF DataOK
  <2>3. flags' \in [Tasks -> SUBSET Flags]
    <3>1. flags[Task(Loop)] \subseteq Flags BY <1>r, <1>11, Zenon
    <3> DEFINE f == flags[Task(Loop)]
    <3>2. \/ flags' = flags
          \/ \E g \in {f \ {"Succeeded", "Cancelled", "Resumed"}, {"Succeeded"}, {}, f \cup {"Paused"},
                       f \ {"Paused"}} : flags' = [flags EXCEPT ![Task(Loop)] = g]
      BY <1>11, Zenon
         DEF ExecuteBegin, ExecuteFinish, ExecuteOperation, ExecutePause, ExecuteContinue
    <3>3. {f \ {"Succeeded", "Cancelled", "Resumed"}, {"Succeeded"}, {}, f \cup {"Paused"},
           f \ {"Paused"}} \subseteq SUBSET Flags
      BY <3>1, Zenon DEF Flags
    <3> QED BY <1>r, <3>2, <3>3, Zenon
  <2>4. operation' \in [Tasks -> {"none", "running", "done"}]
    BY <1>r, <1>11, Zenon
       DEF ExecuteBegin, ExecuteFinish, ExecuteOperation, ExecutePause, ExecuteContinue
  <2>5. calls' \in Int
    BY <1>1, <1>11, SMT, Z3
       DEF ExecuteBegin, ExecuteFinish, ExecuteOperation, ExecutePause, ExecuteContinue, DataOK
  <2> QED BY <1>1, <1>11, <2>2, <2>3, <2>4, <2>5, Zenon
      DEF ExecuteBegin, ExecuteFinish, ExecuteOperation, ExecutePause, ExecuteContinue, DataOK
<1>12. ASSUME Task(Loop) \in Tasks, PauseTask PROVE DataOK'
  <2>1. panic' \in {panic, "list"} BY <1>12, Zenon DEF PauseTask, Panic
  <2>2. panic' \in {"none", "non-ready", "cancelled", "effective", "list"} BY <1>1, <2>1, Zenon DEF DataOK
  <2>3. state' \in {state, [state EXCEPT ![Task(Loop)] = "Sleeping"]} BY <1>12, Zenon DEF PauseTask
  <2>4. state' \in [Tasks -> States] BY <1>1, <2>3, Zenon DEF DataOK, States
  <2>5. paused_queue' \in {paused_queue, Append(paused_queue, Task(Loop))} BY <1>12, Zenon DEF PauseTask
  <2>6. paused_queue' \in Seq(Tasks) BY <1>q, <1>12, <2>5, AppendSeq, Zenon
  <2> QED BY <1>1, <1>12, <2>2, <2>4, <2>6, Zenon DEF PauseTask, DataOK
<1> QED BY <1>1, <1>3, <1>4, <1>5, <1>6, <1>7, <1>8, <1>9, <1>10, <1>11, <1>12, SharedData, ZenonT(30) DEF LoopStep

\* The types at the start.
LEMMA InitTyped ==
  ASSUME Init
  PROVE  TypeOK
<1>1. DataOK
  <2>1. PICK w \in Workloads : /\ kind = [t \in Tasks |-> w.kind] /\ completer = [t \in Tasks |-> w.completer]
                               /\ calls = w.calls
    BY Zenon DEF Init
  <2>2. w.kind \in {"plain", "pausing"} /\ w.completer \in BOOLEAN /\ w.calls \in Nat
    BY <2>1, WorkloadsAssumption, Zenon
  <2>3. /\ completer \in [Tasks -> BOOLEAN] /\ kind \in [Tasks -> {"plain", "pausing"}] /\ calls \in Int
    BY <2>1, <2>2, SMT, Z3
  <2>4. /\ renew_guard \in [Tasks -> BOOLEAN] /\ wait_guard \in [Tasks -> BOOLEAN]
        /\ sem_attached \in [Tasks -> BOOLEAN]
    BY Zenon DEF Init
  <2>5. /\ state \in [Tasks -> States] /\ flags \in [Tasks -> SUBSET Flags]
        /\ operation \in [Tasks -> {"none", "running", "done"}]
    BY Zenon DEF Init, States, Flags
  <2>6. /\ renewed_deadline \in [Tasks -> Int] /\ version \in [Tasks -> Int] /\ sem \in [Tasks -> Int]
        /\ effective_deadline \in [Tasks -> Int] /\ effective_version \in [Tasks -> Int]
    BY SMT, Z3 DEF Init
  <2>7. /\ ready_queue \in Seq(Tasks) /\ linking \in SUBSET Tasks /\ ready_queue_size \in Int
        /\ sleeping_queue \in Seq(Tasks) /\ paused_queue \in Seq(Tasks)
    BY SMT, Z3 DEF Init
  <2>8. /\ task_mutex \in Threads \cup {NoThread} /\ wakeup \in Int
        /\ wakeup_setter \in Threads \cup {NoThread} /\ now \in Int
        /\ panic \in {"none", "non-ready", "cancelled", "effective", "list"}
    BY SMT, Z3 DEF Init
  <2>9. fetch_ready \in BOOLEAN /\ stop \in BOOLEAN BY Zenon DEF Init
  <2> QED BY <2>3, <2>4, <2>5, <2>6, <2>7, <2>8, <2>9, Zenon DEF DataOK
<1>2. ControlOK
  <2>1. {"wait", "idle"} \subseteq UserLabels \cup LoopLabels BY LabelSets, Zenon
  <2>2. pc \in [Threads -> UserLabels \cup LoopLabels] BY <2>1, Zenon DEF Init
  <2>3. loc \in [Threads -> Locals] BY FreshLocals, Zenon DEF Init
  <2>4. ASSUME NEW x \in Threads PROVE LocalsOK(x)
    <3>1. loc[x].ret = "return" /\ pc[x] = IF x = Loop THEN "wait" ELSE "idle" BY FreshLocals, Zenon DEF Init
    <3> QED BY <3>1, LabelSets, Zenon DEF LocalsOK, LoopLocals, UserLocals, CompleteLabels, ExecuteLabels
  <2> QED BY <2>2, <2>3, <2>4, Zenon DEF ControlOK
<1> QED BY <1>1, <1>2, Zenon DEF TypeOK

\* The types are preserved.
LEMMA NextTyped ==
  ASSUME FirstExists, TypeOK, [Next]_vars
  PROVE  TypeOK'
<1>1. ASSUME NEW x \in Users, UserStep(x) PROVE TypeOK'
  <2>1. x \in Threads BY Zenon DEF Threads
  <2>2. CASE RenewStep(x)
    <3>1. ControlOK' BY <2>2, RequestControl, CallControl, Zenon DEF RenewStep
    <3> QED BY <2>2, <3>1, RequestData, Zenon DEF TypeOK
  <2>3. CASE SharedStep(x) BY <2>1, <2>3, SharedControl, SharedData, Zenon DEF TypeOK
  <2>4. CASE WaitStep(x) BY <2>4, CallControl, CallData, Zenon DEF TypeOK
  <2> QED BY <1>1, <2>2, <2>3, <2>4, Zenon DEF UserStep
<1>2. ASSUME NEW x \in Users,
             Stop(x) \/ \E t \in Tasks : Schedule(x, t) \/ AsyncCancel(x, t) \/ Resume(x, t) \/ Wait(x, t)
      PROVE  TypeOK'
  BY <1>2, CallControl, CallData, Zenon DEF TypeOK
<1>3. CASE LoopStep BY <1>3, LoopControl, LoopData, Zenon DEF TypeOK
<1>4. CASE Tick
  <2>1. now' \in Int BY <1>4, SMT, Z3 DEF Tick, TypeOK, DataOK
  <2>2. DataOK' BY <1>4, <2>1, Zenon
    DEF Tick, TypeOK, DataOK, atomics, effective, waiting, ready, lists, timer
  <2>3. ControlOK' BY <1>4, Zenon DEF Tick, TypeOK, ControlOK, LocalsOK, LoopLocals, UserLocals, Task, NewState
  <2> QED BY <2>2, <2>3, Zenon DEF TypeOK
<1>5. CASE UNCHANGED vars
  <2>1. DataOK' BY <1>5, Zenon
    DEF vars, TypeOK, DataOK, atomics, effective, waiting, ready, lists, timer, misc
  <2>2. UNCHANGED <<pc, loc>> BY <1>5, Zenon DEF vars
  <2>3. ControlOK' BY <2>2, Zenon DEF TypeOK, ControlOK, LocalsOK, LoopLocals, UserLocals, Task, NewState
  <2> QED BY <2>1, <2>3 DEF TypeOK
<1> QED BY <1>1, <1>2, <1>3, <1>4, <1>5, Zenon DEF Next, Terminated

=============================================================================
