-------------------------- MODULE ControlTaskQueue --------------------------
(***************************************************************************)
(* The task queue of roc_ctl/control_task_queue.cpp.                       *)
(*                                                                         *)
(* User threads schedule, re-schedule, cancel, resume and wait for tasks;  *)
(* the event loop thread executes them.  Each access to an atomic field of *)
(* a task, to ready_queue_size_, to the ready queue, to the timer or to    *)
(* the mutex is a step; what task_mutex_ protects (sleeping_queue_,        *)
(* paused_queue_, the effective deadline and version) changes together     *)
(* with the access before it.                                              *)
(*                                                                         *)
(* A plain task succeeds, fails or asks to continue.  A pausing task runs  *)
(* in two phases, as those of roc_ctl/control_loop.cpp do: it starts an    *)
(* operation and pauses, is resumed when the operation is done, and then   *)
(* succeeds or fails.  A panic stops the program.                          *)
(***************************************************************************)
EXTENDS Integers, FiniteSets, Sequences

CONSTANTS
    Users,       \* threads that use the queue
    Loop,        \* the event loop thread
    Tasks,
    NoThread,    \* the mutex is free, the timer is not being set
    NoTask,
    Deadlines,   \* deadlines tasks are scheduled with; 0 is as soon as possible
    Workloads,   \* what behaviours start with: the kind of the tasks ("plain" or
                 \* "pausing"), whether they have a completer, and a bound on the
                 \* calls of the users and the executions that continue
    MaxTime      \* bound: the latest time

ASSUME ThreadsAssumption ==
    /\ IsFiniteSet(Users) /\ Loop \notin Users /\ NoThread \notin Users \cup {Loop}
    /\ IsFiniteSet(Tasks) /\ NoTask \notin Tasks

ASSUME WorkloadsAssumption ==
    Workloads \subseteq [kind : {"plain", "pausing"}, completer : BOOLEAN, calls : Nat]

ASSUME BoundsAssumption ==
    Deadlines \subseteq Nat /\ MaxTime \in Nat

Threads == Users \cup {Loop}

VARIABLES
    state,               \* ControlTask::state_
    flags,               \* ControlTask::flags_, a set
    renew_guard,         \* ControlTask::renew_guard_
    renewed_deadline,    \* value of ControlTask::renewed_deadline_
    version,             \* its seqlock version, odd while it is being stored
    effective_deadline, effective_version,
    completer,           \* the task has a completer
    wait_guard,          \* ControlTask::wait_guard_
    sem_attached,        \* ControlTask::sem_ is not NULL
    sem,                 \* value of the semaphore of sem_holder_
    kind,                \* what the task function does
    operation,           \* of a pausing task: "none", "running" or "done"
    ready_queue, linking,  \* ready_queue_, and what push_back() has not linked yet
    ready_queue_size, sleeping_queue, paused_queue,
    task_mutex,          \* holder of task_mutex_
    wakeup,              \* deadline of wakeup_timer_
    wakeup_setter,       \* thread whose try_set_deadline() is in progress
    fetch_ready, stop,
    now,                 \* timestamp(ClockMonotonic)
    panic,               \* why the program panicked, or "none"
    calls,               \* calls that may still be made
    pc,                  \* where each thread is
    loc                  \* locals of each thread

atomics == <<state, flags, renew_guard, renewed_deadline, version>>
effective == <<effective_deadline, effective_version>>
waiting == <<wait_guard, sem_attached, sem>>
ready == <<ready_queue, linking, ready_queue_size>>
lists == <<sleeping_queue, paused_queue>>
timer == <<wakeup, wakeup_setter>>
misc == <<completer, kind, operation, fetch_ready, stop, now, panic, calls>>
vars == <<atomics, effective, waiting, ready, lists, timer, misc, task_mutex, pc, loc>>

States == {"Ready", "Sleeping", "Cancelling", "Processing", "Completing", "Completed"}
Flags == {"Succeeded", "Paused", "Resumed", "Cancelled"}

\* Locals: the task, its deadline, version and flags as they were read, the
\* state a compare_exchange() starts from, whether a semaphore was taken, the
\* wake-up deadline, and where the call in progress returns to.
NoLocals == [task |-> NoTask, deadline |-> 0, version |-> 0, flags |-> {},
             from |-> "Ready", sem |-> FALSE, wakeup |-> 0, ret |-> "return"]

Init ==
    /\ state = [t \in Tasks |-> "Completed"] /\ flags = [t \in Tasks |-> {}]
    /\ renew_guard = [t \in Tasks |-> FALSE]
    /\ renewed_deadline = [t \in Tasks |-> 0] /\ version = [t \in Tasks |-> 0]
    /\ effective_deadline = [t \in Tasks |-> 0]
    /\ effective_version = [t \in Tasks |-> 0]
    /\ \E w \in Workloads :
         /\ kind = [t \in Tasks |-> w.kind] /\ completer = [t \in Tasks |-> w.completer]
         /\ calls = w.calls
    /\ wait_guard = [t \in Tasks |-> FALSE]
    /\ sem_attached = [t \in Tasks |-> FALSE] /\ sem = [t \in Tasks |-> 0]
    /\ operation = [t \in Tasks |-> "none"]
    /\ ready_queue = <<>> /\ linking = {} /\ ready_queue_size = 0
    /\ sleeping_queue = <<>> /\ paused_queue = <<>>
    /\ task_mutex = NoThread /\ wakeup = 0 /\ wakeup_setter = NoThread
    /\ fetch_ready = TRUE /\ stop = FALSE
    /\ now = 1 /\ panic = "none"
    /\ pc = [x \in Threads |-> IF x = Loop THEN "wait" ELSE "idle"]
    /\ loc = [x \in Threads |-> NoLocals]

-----------------------------------------------------------------------------
(***************************************************************************)
(* Control flow and small helpers.                                         *)
(***************************************************************************)
At(x, label) == pc[x] = label /\ panic = "none"
Goto(x, label) == pc' = [pc EXCEPT ![x] = label]
Task(x) == loc[x].task
InList(t, list) == \E i \in DOMAIN list : list[i] = t
RemoveAt(list, k) ==
    [i \in 1..(Len(list) - 1) |-> IF i < k THEN list[i] ELSE list[i + 1]]
InsertAt(list, k, t) ==
    [i \in 1..(Len(list) + 1) |-> IF i < k THEN list[i] ELSE IF i = k THEN t ELSE list[i - 1]]
Without(t, list) ==
    IF InList(t, list) THEN RemoveAt(list, CHOOSE k \in DOMAIN list : list[k] = t) ELSE list
Dirty(t) == version[t] % 2 = 1

\* Panic(why) takes the place of the step that would have gone on.
Panic(x, why) == panic' = why /\ UNCHANGED <<pc, loc>>

\* Seeded fault: the task goes to the end, whatever its deadline.
InsertLast(t, deadline, list) == Append(list, t)

\* insert_sleeping_task_(): before the first task with a later deadline.
InsertSleeping(t, deadline, list) ==
    LET Later == {i \in DOMAIN list : effective_deadline[list[i]] > deadline}
        pos == IF Later = {} THEN Len(list) + 1
               ELSE CHOOSE i \in Later : \A j \in Later : i <= j
    IN  InsertAt(list, pos, t)

\* What try_pop_front_exclusive() may return: a queue with a push_back() in
\* progress may look empty, and never yields a task that is not linked.
Popped ==
    (IF ready_queue # <<>> /\ Head(ready_queue) \notin linking
     THEN {Head(ready_queue)} ELSE {NoTask})
    \cup (IF linking # {} THEN {NoTask} ELSE {})

\* The state renew_state_() moves a task with these flags and deadline to.
NewState(task_flags, deadline) ==
    CASE deadline < 0 -> "Cancelling"
      [] deadline >= 0 /\ "Paused" \in task_flags ->
            IF "Resumed" \in task_flags THEN "Processing" ELSE "Sleeping"
      [] OTHER -> IF deadline = 0 THEN "Processing" ELSE "Sleeping"

-----------------------------------------------------------------------------
(***************************************************************************)
(* schedule(), schedule_at() and async_cancel(): request_renew_().         *)
(***************************************************************************)
\* Only one of several concurrent calls gets the guard; it starts to store.
Renew(x, t, deadline) ==
    /\ At(x, "idle") /\ ~stop /\ calls > 0
    /\ calls' = calls - 1
    /\ \/ renew_guard[t] /\ UNCHANGED <<renew_guard, version, pc, loc>>
       \/ /\ ~renew_guard[t] /\ renew_guard' = [renew_guard EXCEPT ![t] = TRUE]
          /\ version' = [version EXCEPT ![t] = @ + 1]
          /\ loc' = [loc EXCEPT ![x] = [NoLocals EXCEPT !.task = t, !.ret = "unguard",
                                                       !.deadline = deadline]]
          /\ Goto(x, "store")
    /\ UNCHANGED <<state, flags, renewed_deadline, effective, waiting, ready, lists,
                   timer, completer, kind, operation, fetch_ready, stop, now, panic,
                   task_mutex>>

Schedule(x, t) == \E deadline \in Deadlines : Renew(x, t, deadline)
AsyncCancel(x, t) == Renew(x, t, -1)

RenewStore(x) ==
    /\ At(x, "store")
    /\ LET t == Task(x) IN
       /\ renewed_deadline' = [renewed_deadline EXCEPT ![t] = loc[x].deadline]
       /\ version' = [version EXCEPT ![t] = @ + 1]
       /\ loc' = [loc EXCEPT ![x].version = version[t] + 1]
    /\ Goto(x, IF loc[x].deadline < 0 THEN "cancel" ELSE "paused")
    /\ UNCHANGED <<state, flags, renew_guard, effective, waiting, ready, lists, timer,
                   misc, task_mutex>>

\* Cancellation: only a sleeping task is woken.
RenewCancel(x) ==
    /\ At(x, "cancel")
    /\ IF state[Task(x)] = "Sleeping"
       THEN state' = [state EXCEPT ![Task(x)] = "Ready"] /\ Goto(x, "size")
       ELSE UNCHANGED state /\ Goto(x, "unguard")
    /\ UNCHANGED <<flags, renew_guard, renewed_deadline, version, effective, waiting,
                   ready, lists, timer, misc, task_mutex, loc>>

\* Scheduling: a paused task is left alone.
RenewPaused(x) ==
    /\ At(x, "paused")
    /\ Goto(x, IF "Paused" \in flags[Task(x)] THEN "unguard" ELSE "exchange")
    /\ UNCHANGED <<atomics, effective, waiting, ready, lists, timer, misc, task_mutex, loc>>

\* Seeded fault: a task that is in the ready queue already is queued again.
ExchangeIgnored(x) ==
    /\ At(x, "exchange")
    /\ state' = [state EXCEPT ![Task(x)] = "Ready"]
    /\ Goto(x, "size")
    /\ UNCHANGED <<flags, renew_guard, renewed_deadline, version, effective, waiting,
                   ready, lists, timer, misc, task_mutex, loc>>

\* Scheduling and resuming: nothing to do if the task is in the ready queue.
ExchangeReady(x) ==
    /\ At(x, "exchange")
    /\ state' = [state EXCEPT ![Task(x)] = "Ready"]
    /\ Goto(x, IF state[Task(x)] = "Ready" THEN loc[x].ret ELSE "size")
    /\ UNCHANGED <<flags, renew_guard, renewed_deadline, version, effective, waiting,
                   ready, lists, timer, misc, task_mutex, loc>>

\* May the request be handled without waking the event loop thread?
MaybeInplace(x) ==
    /\ loc[x].ret = "unguard" /\ ready_queue_size = 0
    /\ loc[x].deadline > 0 \/ (loc[x].deadline < 0 /\ ~completer[Task(x)])

CommitSize(x) ==
    /\ At(x, "size")
    /\ ready_queue_size' = ready_queue_size + 1
    /\ Goto(x, IF MaybeInplace(x) THEN "trylock" ELSE "push")
    /\ UNCHANGED <<atomics, effective, waiting, ready_queue, linking, lists, timer, misc,
                   task_mutex, loc>>

Push(x) ==
    /\ At(x, "push")
    /\ ready_queue' = Append(ready_queue, Task(x)) /\ linking' = linking \cup {Task(x)}
    /\ Goto(x, "link")
    /\ UNCHANGED <<atomics, effective, waiting, ready_queue_size, lists, timer, misc,
                   task_mutex, loc>>

\* The push is finished; next, try_set_deadline(0).
Link(x) ==
    /\ At(x, "link")
    /\ linking' = linking \ {Task(x)}
    /\ loc' = [loc EXCEPT ![x].wakeup = 0]
    /\ Goto(x, "set")
    /\ UNCHANGED <<atomics, effective, waiting, ready_queue, ready_queue_size, lists,
                   timer, misc, task_mutex>>

\* The call returns; one that holds the guard releases it.
Return(x) ==
    /\ pc[x] \in {"unguard", "return"} /\ panic = "none"
    /\ renew_guard' = IF At(x, "unguard") THEN [renew_guard EXCEPT ![Task(x)] = FALSE]
                      ELSE renew_guard
    /\ Goto(x, "idle") /\ loc' = [loc EXCEPT ![x] = NoLocals]
    /\ UNCHANGED <<state, flags, renewed_deadline, version, effective, waiting, ready,
                   lists, timer, misc, task_mutex>>

-----------------------------------------------------------------------------
(***************************************************************************)
(* resume() and the destructor.                                            *)
(***************************************************************************)
\* The operation a task waits for is done and resumes it, once.
Resume(x, t) ==
    /\ At(x, "idle") /\ operation[t] = "running"
    /\ operation' = [operation EXCEPT ![t] = "done"]
    /\ flags' = [flags EXCEPT ![t] = @ \cup {"Resumed"}]
    /\ IF "Resumed" \in flags[t] THEN UNCHANGED <<pc, loc>>
       ELSE /\ loc' = [loc EXCEPT ![x] = [NoLocals EXCEPT !.task = t]]
            /\ Goto(x, "exchange")
    /\ UNCHANGED <<state, renew_guard, renewed_deadline, version, effective, waiting,
                   ready, lists, timer, completer, kind, fetch_ready, stop, now, panic, calls,
                   task_mutex>>

\* The owner stops the queue when all tasks are completed.
Stop(x) ==
    /\ At(x, "idle") /\ ~stop
    /\ \A t \in Tasks : state[t] = "Completed" /\ operation[t] # "running"
    /\ \A u \in Users : At(u, "idle")
    /\ stop' = TRUE
    /\ loc' = [loc EXCEPT ![x] = [NoLocals EXCEPT !.ret = "join"]]
    /\ Goto(x, "set")
    /\ UNCHANGED <<atomics, effective, waiting, ready, lists, timer, completer, kind,
                   operation, fetch_ready, now, panic, calls, task_mutex>>

-----------------------------------------------------------------------------
(***************************************************************************)
(* wakeup_timer_.try_set_deadline(), which gives up if another call is in  *)
(* progress, and update_wakeup_timer_().                                   *)
(***************************************************************************)
TrySet(x, label, commit, next) ==
    /\ At(x, label)
    /\ IF wakeup_setter = NoThread
       THEN wakeup_setter' = x /\ Goto(x, commit)
       ELSE UNCHANGED wakeup_setter /\ Goto(x, next)
    /\ UNCHANGED <<atomics, effective, waiting, ready, lists, wakeup, misc, task_mutex, loc>>

Commit(x, label, next) ==
    /\ At(x, label)
    /\ wakeup' = loc[x].wakeup /\ wakeup_setter' = NoThread
    /\ Goto(x, next)
    /\ UNCHANGED <<atomics, effective, waiting, ready, lists, misc, task_mutex, loc>>

RequestSet(x) == TrySet(x, "set", "commit", loc[x].ret) \/ Commit(x, "commit", loc[x].ret)

\* Seeded fault: the event loop thread does not wake up for a sleeping task.
UpdateForgetsSleepers(x) ==
    /\ At(x, "update")
    /\ loc' = [loc EXCEPT ![x].wakeup = IF ready_queue_size # 0 THEN 0 ELSE -1]
    /\ Goto(x, "u_set")
    /\ UNCHANGED <<atomics, effective, waiting, ready, lists, timer, misc, task_mutex>>

UpdateWakeup(x) ==
    /\ At(x, "update")
    /\ loc' = [loc EXCEPT ![x].wakeup =
                  IF ready_queue_size # 0 THEN 0
                  ELSE IF sleeping_queue = <<>> THEN -1
                  ELSE effective_deadline[Head(sleeping_queue)]]
    /\ Goto(x, "u_set")
    /\ UNCHANGED <<atomics, effective, waiting, ready, lists, timer, misc, task_mutex>>

UpdateSet(x) == TrySet(x, "u_set", "u_commit", "u_check") \/ Commit(x, "u_commit", "u_check")

FetchLabel == IF fetch_ready THEN "pop" ELSE "sleep"

\* If tasks were queued while the timer was being set, set it to zero.
UpdateCheck(x) ==
    /\ At(x, "u_check")
    /\ IF loc[x].wakeup # 0 /\ ready_queue_size # 0
       THEN loc' = [loc EXCEPT ![x].wakeup = 0] /\ Goto(x, "u_set")
       ELSE /\ UNCHANGED loc
            /\ Goto(x, IF x = Loop /\ loc[x].wakeup = 0 THEN FetchLabel ELSE "unlock")
    /\ UNCHANGED <<atomics, effective, waiting, ready, lists, timer, misc, task_mutex>>

\* process_tasks_() reads stop_ before its lock is released.
Unlock(x) ==
    /\ At(x, "unlock")
    /\ task_mutex' = NoThread
    /\ Goto(x, IF x # Loop THEN "unguard" ELSE IF stop THEN "stopped" ELSE "wait")
    /\ loc' = IF x = Loop THEN [loc EXCEPT ![x] = NoLocals] ELSE loc
    /\ UNCHANGED <<atomics, effective, waiting, ready, lists, timer, misc>>

-----------------------------------------------------------------------------
(***************************************************************************)
(* renew_scheduling_() and try_renew_inplace_().                           *)
(***************************************************************************)
\* reschedule_task_()
RescheduleTask(t, deadline, ver) ==
    /\ paused_queue' = Without(t, paused_queue)
    /\ sleeping_queue' = IF deadline = 0 THEN Without(t, sleeping_queue)
                         ELSE InsertSleeping(t, deadline, Without(t, sleeping_queue))
    /\ effective_deadline' = [effective_deadline EXCEPT ![t] = deadline]
    /\ effective_version' = [effective_version EXCEPT ![t] = ver]

\* cancel_task_(), before it completes the task.
CancelTask(t, ver) ==
    /\ paused_queue' = Without(t, paused_queue)
    /\ sleeping_queue' = Without(t, sleeping_queue)
    /\ effective_deadline' = [effective_deadline EXCEPT ![t] = -1]
    /\ effective_version' = [effective_version EXCEPT ![t] = ver]

\* cancel_task_() panics if the task was cancelled already.
CancelledTwice(x) == loc[x].deadline < 0 /\ effective_deadline[Task(x)] = -1

\* can_renew_inplace
CanRenew(x) ==
    "Paused" \notin flags[Task(x)] \/ (loc[x].deadline < 0 /\ ~completer[Task(x)])

TryLock(x) ==
    /\ At(x, "trylock")
    /\ IF task_mutex = NoThread
       THEN /\ task_mutex' = x
            /\ loc' = [loc EXCEPT ![x].flags = flags[Task(x)]]
            /\ Goto(x, IF CanRenew(x) THEN "renew" ELSE "unlock_push")
       ELSE UNCHANGED <<task_mutex, loc>> /\ Goto(x, "push")
    /\ UNCHANGED <<atomics, effective, waiting, ready, lists, timer, misc>>

UnlockPush(x) ==
    /\ At(x, "unlock_push")
    /\ task_mutex' = NoThread /\ Goto(x, "push")
    /\ UNCHANGED <<atomics, effective, waiting, ready, lists, timer, misc, loc>>

RenewInplace(x) ==
    /\ At(x, "renew")
    /\ LET t == Task(x)  deadline == loc[x].deadline IN
       IF state[t] # "Ready" \/ CancelledTwice(x)
       THEN /\ Panic(x, IF state[t] # "Ready" THEN "non-ready" ELSE "cancelled")
            /\ UNCHANGED <<state, effective, lists>>
       ELSE /\ state' = [state EXCEPT ![t] = NewState(loc[x].flags, deadline)]
            /\ IF deadline < 0 THEN CancelTask(t, loc[x].version)
                               ELSE RescheduleTask(t, deadline, loc[x].version)
            /\ Goto(x, IF deadline < 0 THEN "x_flags" ELSE "dec")
            /\ UNCHANGED <<panic, loc>>
    /\ UNCHANGED <<flags, renew_guard, renewed_deadline, version, waiting, ready, timer,
                   completer, kind, operation, fetch_ready, stop, now, calls, task_mutex>>

RenewedInplace(x) ==
    /\ At(x, "dec")
    /\ ready_queue_size' = ready_queue_size - 1
    /\ Goto(x, "update")
    /\ UNCHANGED <<atomics, effective, waiting, ready_queue, linking, lists, timer, misc,
                   task_mutex, loc>>

-----------------------------------------------------------------------------
(***************************************************************************)
(* cancel_task_() and complete_task_(), in the event loop thread and, for  *)
(* a cancellation in place, in a user's.                                   *)
(***************************************************************************)
CancelFlags(x) ==
    /\ At(x, "x_flags")
    /\ flags' = [flags EXCEPT ![Task(x)] = {"Cancelled"}]
    /\ loc' = [loc EXCEPT ![x].from = "Cancelling"]
    /\ Goto(x, "c_start")
    /\ UNCHANGED <<state, renew_guard, renewed_deadline, version, effective, waiting,
                   ready, lists, timer, misc, task_mutex>>

CompleteStart(x) ==
    /\ At(x, "c_start")
    /\ state' = IF state[Task(x)] = loc[x].from
                THEN [state EXCEPT ![Task(x)] = "Completing"] ELSE state
    /\ Goto(x, "c_sem")
    /\ UNCHANGED <<flags, renew_guard, renewed_deadline, version, effective, waiting,
                   ready, lists, timer, misc, task_mutex, loc>>

CompleteTakeSem(x) ==
    /\ At(x, "c_sem")
    /\ loc' = [loc EXCEPT ![x].sem = sem_attached[Task(x)]]
    /\ sem_attached' = [sem_attached EXCEPT ![Task(x)] = FALSE]
    /\ Goto(x, "c_done")
    /\ UNCHANGED <<atomics, effective, wait_guard, sem, ready, lists, timer, misc,
                   task_mutex>>

\* Seeded fault: the semaphore is not given back to a task that was
\* re-scheduled while it was being processed.
DoneDropsSem(x) ==
    /\ At(x, "c_done")
    /\ IF state[Task(x)] = "Completing"
       THEN state' = [state EXCEPT ![Task(x)] = "Completed"] /\ UNCHANGED loc
       ELSE loc' = [loc EXCEPT ![x].sem = FALSE] /\ UNCHANGED state
    /\ Goto(x, "c_post")
    /\ UNCHANGED <<flags, renew_guard, renewed_deadline, version, effective, waiting,
                   ready, lists, timer, misc, task_mutex>>

CompleteDone(x) ==
    /\ At(x, "c_done")
    /\ IF state[Task(x)] = "Completing"
       THEN /\ state' = [state EXCEPT ![Task(x)] = "Completed"]
            /\ UNCHANGED <<sem_attached, loc>>
       ELSE /\ sem_attached' = [sem_attached EXCEPT ![Task(x)] = @ \/ loc[x].sem]
            /\ loc' = [loc EXCEPT ![x].sem = FALSE] /\ UNCHANGED state
    /\ Goto(x, "c_post")
    /\ UNCHANGED <<flags, renew_guard, renewed_deadline, version, effective, wait_guard,
                   sem, ready, lists, timer, misc, task_mutex>>

\* The semaphore is posted and the completer called.
CompletePost(x) ==
    /\ At(x, "c_post")
    /\ sem' = IF loc[x].sem THEN [sem EXCEPT ![Task(x)] = @ + 1] ELSE sem
    /\ loc' = [loc EXCEPT ![x].sem = FALSE, ![x].from = "Completed"]
    /\ Goto(x, IF x = Loop THEN loc[x].ret ELSE "dec")
    /\ UNCHANGED <<atomics, effective, wait_guard, sem_attached, ready, lists, timer,
                   misc, task_mutex>>

-----------------------------------------------------------------------------
(***************************************************************************)
(* wait(): wait_task_().                                                   *)
(***************************************************************************)
\* Two users never wait for one task at the same time.
Wait(x, t) ==
    /\ At(x, "idle") /\ ~stop /\ ~wait_guard[t] /\ calls > 0
    /\ calls' = calls - 1
    /\ IF state[t] = "Completed" THEN UNCHANGED <<wait_guard, pc, loc>>
       ELSE /\ wait_guard' = [wait_guard EXCEPT ![t] = TRUE]
            /\ loc' = [loc EXCEPT ![x] = [NoLocals EXCEPT !.task = t]]
            /\ Goto(x, "w_attach")
    /\ UNCHANGED <<atomics, effective, sem_attached, sem, ready, lists, timer, completer, kind,
                   operation, fetch_ready, stop, now, panic, task_mutex>>

WaitAttach(x) ==
    /\ At(x, "w_attach")
    /\ sem_attached' = [sem_attached EXCEPT ![Task(x)] = TRUE]
    /\ Goto(x, "w_spin")
    /\ UNCHANGED <<atomics, effective, wait_guard, sem, ready, lists, timer, misc,
                   task_mutex, loc>>

WaitSpin(x) ==
    /\ At(x, "w_spin") /\ state[Task(x)] # "Completing"
    /\ Goto(x, "w_state")
    /\ UNCHANGED <<atomics, effective, waiting, ready, lists, timer, misc, task_mutex, loc>>

WaitReadState(x) ==
    /\ At(x, "w_state")
    /\ Goto(x, IF state[Task(x)] # "Completed" THEN "w_sem" ELSE "w_pointer")
    /\ UNCHANGED <<atomics, effective, waiting, ready, lists, timer, misc, task_mutex, loc>>

WaitReadSem(x) ==
    /\ At(x, "w_pointer")
    /\ Goto(x, IF sem_attached[Task(x)] THEN "w_end" ELSE "w_sem")
    /\ UNCHANGED <<atomics, effective, waiting, ready, lists, timer, misc, task_mutex, loc>>

WaitSem(x) ==
    /\ At(x, "w_sem") /\ sem[Task(x)] > 0
    /\ sem' = [sem EXCEPT ![Task(x)] = @ - 1]
    /\ Goto(x, "w_end")
    /\ UNCHANGED <<atomics, effective, wait_guard, sem_attached, ready, lists, timer,
                   misc, task_mutex, loc>>

WaitEnd(x) ==
    /\ At(x, "w_end")
    /\ sem_attached' = [sem_attached EXCEPT ![Task(x)] = FALSE]
    /\ wait_guard' = [wait_guard EXCEPT ![Task(x)] = FALSE]
    /\ Goto(x, "idle") /\ loc' = [loc EXCEPT ![x] = NoLocals]
    /\ UNCHANGED <<atomics, effective, sem, ready, lists, timer, misc, task_mutex>>

-----------------------------------------------------------------------------
(***************************************************************************)
(* The event loop thread: run(), process_tasks_(), fetch_task_().          *)
(***************************************************************************)
LoopWake ==
    /\ At(Loop, "wait") /\ wakeup_setter = NoThread
    /\ 0 <= wakeup /\ wakeup <= now
    /\ Goto(Loop, "lock")
    /\ UNCHANGED <<atomics, effective, waiting, ready, lists, timer, misc, task_mutex, loc>>

LoopLock ==
    /\ At(Loop, "lock") /\ task_mutex = NoThread
    /\ task_mutex' = Loop
    /\ Goto(Loop, FetchLabel)
    /\ UNCHANGED <<atomics, effective, waiting, ready, lists, timer, misc, loc>>

\* Nothing found first: look in the other queue; nothing there: update the timer.
FetchPop ==
    /\ At(Loop, "pop")
    /\ \E t \in Popped :
       IF t = NoTask
       THEN /\ Goto(Loop, IF fetch_ready THEN "sleep" ELSE "update")
            /\ loc' = [loc EXCEPT ![Loop] = NoLocals] /\ UNCHANGED ready_queue
       ELSE /\ Goto(Loop, "load")
            /\ loc' = [loc EXCEPT ![Loop] = [NoLocals EXCEPT !.task = t, !.flags = flags[t]]]
            /\ ready_queue' = Tail(ready_queue)
    /\ UNCHANGED <<atomics, effective, waiting, linking, ready_queue_size, lists, timer,
                   misc, task_mutex>>

\* A deadline that is being stored is looked at later.
FetchLoad ==
    /\ At(Loop, "load")
    /\ LET t == Task(Loop) IN
       IF Dirty(t)
       THEN ready_queue' = Append(ready_queue, t) /\ Goto(Loop, "pop") /\ UNCHANGED loc
       ELSE /\ loc' = [loc EXCEPT ![Loop].deadline = renewed_deadline[t],
                                  ![Loop].version = version[t]]
            /\ Goto(Loop, "newstate") /\ UNCHANGED ready_queue
    /\ UNCHANGED <<atomics, effective, waiting, linking, ready_queue_size, lists, timer,
                   misc, task_mutex>>

FetchNewState ==
    /\ At(Loop, "newstate")
    /\ LET t == Task(Loop)
           new_state == NewState(loc[Loop].flags, loc[Loop].deadline) IN
       IF state[t] # "Ready" THEN Panic(Loop, "non-ready") /\ UNCHANGED state
       ELSE /\ state' = [state EXCEPT ![t] = new_state]
            /\ loc' = [loc EXCEPT ![Loop].from = new_state]
            /\ Goto(Loop, "recheck") /\ UNCHANGED panic
    /\ UNCHANGED <<flags, renew_guard, renewed_deadline, version, effective, waiting,
                   ready, lists, timer, completer, kind, operation, fetch_ready, stop, now,
                   calls, task_mutex>>

Changed(t) == version[t] # loc[Loop].version \/ flags[t] # loc[Loop].flags

\* The task was renewed or resumed meanwhile: back to the ready queue with it,
\* unless somebody else has put it there.
FetchAgain ==
    /\ At(Loop, "recheck") /\ Changed(Task(Loop))
    /\ LET t == Task(Loop) IN
       IF state[t] = loc[Loop].from
       THEN /\ state' = [state EXCEPT ![t] = "Ready"]
            /\ ready_queue' = Append(ready_queue, t) /\ UNCHANGED ready_queue_size
       ELSE ready_queue_size' = ready_queue_size - 1 /\ UNCHANGED <<state, ready_queue>>
    /\ Goto(Loop, "pop")
    /\ UNCHANGED <<flags, renew_guard, renewed_deadline, version, effective, waiting,
                   linking, lists, timer, misc, task_mutex, loc>>

\* cancel_task_() panics.
FetchPanic ==
    /\ At(Loop, "recheck") /\ ~Changed(Task(Loop)) /\ CancelledTwice(Loop)
    /\ Panic(Loop, "cancelled")
    /\ UNCHANGED <<atomics, effective, waiting, ready, lists, timer, completer, kind,
                   operation, fetch_ready, stop, now, calls, task_mutex>>

\* The request is handled: cancel, resume, execute at once or put to sleep.
FetchReady ==
    /\ At(Loop, "recheck") /\ ~Changed(Task(Loop))
    /\ ready_queue_size' = ready_queue_size - 1
    /\ LET t == Task(Loop)  deadline == loc[Loop].deadline
           paused == "Paused" \in loc[Loop].flags
           execute == deadline >= 0 /\ (IF paused THEN "Resumed" \in loc[Loop].flags
                                        ELSE deadline = 0) IN
       /\ ~CancelledTwice(Loop)
       /\ Goto(Loop, IF deadline < 0 THEN "x_flags" ELSE IF execute THEN "exec" ELSE "pop")
       /\ loc' = [loc EXCEPT ![Loop].ret = "pop"]
       /\ fetch_ready' = IF execute THEN FALSE ELSE fetch_ready
       /\ IF deadline < 0 THEN CancelTask(t, loc[Loop].version)
          ELSE IF paused THEN UNCHANGED <<effective, lists>>
          ELSE RescheduleTask(t, deadline, loc[Loop].version)
    /\ UNCHANGED <<atomics, waiting, ready_queue, linking, timer, completer, kind, operation,
                   stop, now, panic, calls, task_mutex>>

\* fetch_sleeping_task_()
FetchSleeping ==
    /\ At(Loop, "sleep")
    /\ IF sleeping_queue = <<>> \/ effective_deadline[Head(sleeping_queue)] > now
       THEN /\ Goto(Loop, IF fetch_ready THEN "update" ELSE "pop")
            /\ UNCHANGED <<state, sleeping_queue, fetch_ready, loc>>
       ELSE LET t == Head(sleeping_queue) IN
            /\ sleeping_queue' = Tail(sleeping_queue)
            /\ IF state[t] = "Sleeping"
               THEN /\ state' = [state EXCEPT ![t] = "Processing"]
                    /\ fetch_ready' = TRUE
                    /\ loc' = [loc EXCEPT ![Loop] = [NoLocals EXCEPT !.task = t]]
                    /\ Goto(Loop, "exec")
               ELSE /\ Goto(Loop, IF fetch_ready THEN "update" ELSE "pop")
                    /\ UNCHANGED <<state, fetch_ready, loc>>
    /\ UNCHANGED <<flags, renew_guard, renewed_deadline, version, effective, waiting,
                   ready, paused_queue, timer, completer, kind, operation, stop, now, panic,
                   calls, task_mutex>>

-----------------------------------------------------------------------------
(***************************************************************************)
(* execute_task_()                                                         *)
(***************************************************************************)
\* Back to fetch_task_().
Fetch == Goto(Loop, FetchLabel) /\ loc' = [loc EXCEPT ![Loop] = NoLocals]

ExecuteBegin ==
    /\ At(Loop, "exec")
    /\ IF effective_deadline[Task(Loop)] < 0
       THEN Panic(Loop, "effective") /\ UNCHANGED flags
       ELSE /\ flags' = [flags EXCEPT ![Task(Loop)] =
                            @ \ {"Succeeded", "Cancelled", "Resumed"}]
            /\ loc' = [loc EXCEPT ![Loop].from = "Processing"]
            /\ Goto(Loop, "run") /\ UNCHANGED panic
    /\ UNCHANGED <<state, renew_guard, renewed_deadline, version, effective, waiting,
                   ready, lists, timer, completer, kind, operation, fetch_ready, stop, now,
                   calls, task_mutex>>

\* The task function returns ControlTaskSuccess or ControlTaskFailure, which
\* clears all other flags.
ExecuteFinish ==
    /\ At(Loop, "run")
    /\ LET t == Task(Loop) IN
       /\ kind[t] = "pausing" => operation[t] # "none"
       /\ \E result \in {{"Succeeded"}, {}} : flags' = [flags EXCEPT ![t] = result]
       /\ operation' = [operation EXCEPT ![t] = IF @ = "done" THEN "none" ELSE @]
    /\ Goto(Loop, "renewed")
    /\ UNCHANGED <<state, renew_guard, renewed_deadline, version, effective, waiting,
                   ready, lists, timer, completer, kind, fetch_ready, stop, now, panic, calls,
                   task_mutex, loc>>

\* Seeded fault: a task that was renewed while it was paused is forgotten.
RenewedForgotten ==
    /\ At(Loop, "renewed")
    /\ loc' = [loc EXCEPT ![Loop].ret = FetchLabel]
    /\ Goto(Loop, "c_start")
    /\ UNCHANGED <<atomics, effective, waiting, ready, lists, timer, misc, task_mutex>>

\* Was the task renewed since it was fetched?
CheckRenewed ==
    /\ At(Loop, "renewed")
    /\ LET t == Task(Loop)
           renewed == /\ ~Dirty(t) /\ version[t] # effective_version[t]
                      /\ renewed_deadline[t] >= 0 IN
       loc' = [loc EXCEPT ![Loop].ret = IF renewed THEN "reborn" ELSE FetchLabel]
    /\ Goto(Loop, "c_start")
    /\ UNCHANGED <<atomics, effective, waiting, ready, lists, timer, misc, task_mutex>>

\* The task function starts its operation and will return ControlTaskPause.
ExecuteOperation ==
    /\ At(Loop, "run") /\ kind[Task(Loop)] = "pausing" /\ operation[Task(Loop)] = "none"
    /\ operation' = [operation EXCEPT ![Task(Loop)] = "running"]
    /\ Goto(Loop, "pause")
    /\ UNCHANGED <<atomics, effective, waiting, ready, lists, timer, completer, kind,
                   fetch_ready, stop, now, panic, calls, task_mutex, loc>>

ExecutePause ==
    /\ At(Loop, "pause")
    /\ flags' = [flags EXCEPT ![Task(Loop)] = @ \cup {"Paused"}]
    /\ Goto(Loop, "p_sleep")
    /\ UNCHANGED <<state, renew_guard, renewed_deadline, version, effective, waiting,
                   ready, lists, timer, misc, task_mutex, loc>>

\* pause_task_(); the list panics if the task is in it.
PauseTask ==
    /\ At(Loop, "p_sleep")
    /\ LET t == Task(Loop) IN
       IF InList(t, paused_queue) THEN Panic(Loop, "list") /\ UNCHANGED <<state, paused_queue>>
       ELSE /\ state' = IF state[t] = "Processing" THEN [state EXCEPT ![t] = "Sleeping"]
                        ELSE state
            /\ paused_queue' = Append(paused_queue, t)
            /\ Goto(Loop, "p_check") /\ UNCHANGED <<loc, panic>>
    /\ UNCHANGED <<flags, renew_guard, renewed_deadline, version, effective, waiting,
                   ready, sleeping_queue, timer, completer, kind, operation, fetch_ready, stop,
                   now, calls, task_mutex>>

\* Was the task cancelled before it went to sleep?
PauseCheck ==
    /\ At(Loop, "p_check")
    /\ IF ~Dirty(Task(Loop)) /\ renewed_deadline[Task(Loop)] < 0
       THEN Goto(Loop, "reborn") /\ UNCHANGED loc
       ELSE Fetch
    /\ UNCHANGED <<atomics, effective, waiting, ready, lists, timer, misc, task_mutex>>

\* The task function returns ControlTaskContinue.
ExecuteContinue ==
    /\ At(Loop, "run") /\ kind[Task(Loop)] = "plain" /\ calls > 0
    /\ calls' = calls - 1
    /\ flags' = [flags EXCEPT ![Task(Loop)] = @ \ {"Paused"}]
    /\ Goto(Loop, "reborn")
    /\ UNCHANGED <<state, renew_guard, renewed_deadline, version, effective, waiting,
                   ready, lists, timer, completer, kind, operation, fetch_ready, stop, now,
                   panic, task_mutex, loc>>

\* Seeded fault: the size is not counted up.
RebornUncounted ==
    /\ At(Loop, "reborn")
    /\ IF state[Task(Loop)] = loc[Loop].from
       THEN /\ state' = [state EXCEPT ![Task(Loop)] = "Ready"]
            /\ ready_queue' = Append(ready_queue, Task(Loop))
       ELSE UNCHANGED <<state, ready_queue>>
    /\ Fetch
    /\ UNCHANGED <<flags, renew_guard, renewed_deadline, version, effective, waiting,
                   ready_queue_size, linking, lists, timer, misc, task_mutex>>

\* reborn_task_()
RebornTask ==
    /\ At(Loop, "reborn")
    /\ IF state[Task(Loop)] = loc[Loop].from
       THEN /\ state' = [state EXCEPT ![Task(Loop)] = "Ready"]
            /\ ready_queue_size' = ready_queue_size + 1
            /\ ready_queue' = Append(ready_queue, Task(Loop))
       ELSE UNCHANGED <<state, ready_queue, ready_queue_size>>
    /\ Fetch
    /\ UNCHANGED <<flags, renew_guard, renewed_deadline, version, effective, waiting,
                   linking, lists, timer, misc, task_mutex>>

Tick ==
    /\ panic = "none" /\ now < MaxTime /\ now' = now + 1
    /\ UNCHANGED <<atomics, effective, waiting, ready, lists, timer, completer, kind, operation,
                   fetch_ready, stop, panic, calls, task_mutex, pc, loc>>

-----------------------------------------------------------------------------
RenewStep(x) ==
    RenewStore(x) \/ RenewCancel(x) \/ RenewPaused(x) \/ ExchangeReady(x)
    \/ CommitSize(x) \/ Push(x) \/ Link(x) \/ RequestSet(x) \/ Return(x)
    \/ TryLock(x) \/ UnlockPush(x) \/ RenewInplace(x) \/ RenewedInplace(x)

SharedStep(x) ==
    UpdateWakeup(x) \/ UpdateSet(x) \/ UpdateCheck(x) \/ Unlock(x) \/ CancelFlags(x)
    \/ CompleteStart(x) \/ CompleteTakeSem(x) \/ CompleteDone(x) \/ CompletePost(x)

WaitStep(x) ==
    WaitAttach(x) \/ WaitSpin(x) \/ WaitReadState(x) \/ WaitReadSem(x)
    \/ WaitSem(x) \/ WaitEnd(x)

LoopStep ==
    LoopWake \/ LoopLock \/ FetchPop \/ FetchLoad \/ FetchNewState \/ FetchAgain
    \/ FetchPanic \/ FetchReady \/ FetchSleeping \/ ExecuteBegin \/ ExecuteFinish
    \/ CheckRenewed \/ ExecuteOperation \/ ExecutePause \/ PauseTask \/ PauseCheck
    \/ ExecuteContinue \/ RebornTask \/ SharedStep(Loop)

UserStep(x) == RenewStep(x) \/ SharedStep(x) \/ WaitStep(x)

Terminated == (panic # "none" \/ pc[Loop] = "stopped") /\ UNCHANGED vars

Next ==
    \/ \E x \in Users, t \in Tasks :
          Schedule(x, t) \/ AsyncCancel(x, t) \/ Resume(x, t) \/ Wait(x, t)
    \/ \E x \in Users : Stop(x) \/ UserStep(x)
    \/ LoopStep \/ Tick \/ Terminated

\* The threads run, the clock goes on, and an operation that a paused task
\* waits for ends and resumes it.
Fairness ==
    /\ \A x \in Users : WF_pc(UserStep(x))
    /\ WF_pc(LoopStep) /\ WF_now(Tick)
    /\ WF_operation(\E x \in Users, t \in Tasks : Resume(x, t))

Spec == Init /\ [][Next]_vars /\ Fairness

-----------------------------------------------------------------------------
(***************************************************************************)
(* Properties                                                              *)
(***************************************************************************)
CompleteLabels == {"c_start", "c_sem", "c_done", "c_post"}
WaitLabels == {"w_attach", "w_spin", "w_state", "w_pointer", "w_sem", "w_end"}

\* Threads that have moved the task to StateReady and not queued it yet, or
\* that have fetched it and not moved it to another state yet.
Holders(t) == {x \in Threads : Task(x) = t /\ pc[x] \in
                  {"size", "push", "trylock", "unlock_push", "renew", "load", "newstate"}}

\* A task is in StateReady exactly when it is in the ready queue, once, or in
\* the hands of one thread, whatever renewals, resumptions and re-additions
\* race: it is never queued twice, never lost, and never renewed by two threads.
ReadyOnce ==
    \A t \in Tasks :
        Cardinality(Holders(t)) + Cardinality({i \in DOMAIN ready_queue : ready_queue[i] = t})
            = IF state[t] = "Ready" THEN 1 ELSE 0

\* ready_queue_size_ counts the queued tasks and those still in the hands of a
\* thread, so that zero means that the event loop thread may sleep.
SizeCounts ==
    ready_queue_size = Len(ready_queue)
        + Cardinality({x \in Users : pc[x] \in CompleteLabels \cup
              {"push", "trylock", "unlock_push", "renew", "x_flags", "dec"}})
        + (IF pc[Loop] \in {"load", "newstate", "recheck"} THEN 1 ELSE 0)

\* The sleeping queue is sorted by deadline and holds no completed task, and a
\* task sleeps only in it or in the paused queue.
SleepersKept ==
    /\ \A i, j \in DOMAIN sleeping_queue : i < j =>
          /\ sleeping_queue[i] # sleeping_queue[j]
          /\ effective_deadline[sleeping_queue[i]] <= effective_deadline[sleeping_queue[j]]
    /\ \A i \in DOMAIN sleeping_queue :
          /\ effective_deadline[sleeping_queue[i]] > 0
          /\ state[sleeping_queue[i]] # "Completed"
    /\ \A t \in Tasks : state[t] = "Sleeping" =>
          \/ InList(t, sleeping_queue)
          \/ InList(t, paused_queue) /\ "Paused" \in flags[t]
          \/ pc[Loop] = "recheck" /\ Task(Loop) = t

\* No call is in progress and the event loop thread sleeps until `wakeup'.
Asleep ==
    /\ \A x \in Users : pc[x] = "idle" \/ pc[x] \in WaitLabels
    /\ pc[Loop] = "wait" /\ wakeup_setter = NoThread /\ ~(0 <= wakeup /\ wakeup <= now)

\* cancel_task_() has completed a task that pauses, or is doing so.
PausingCancelled(t) ==
    /\ kind[t] = "pausing" /\ "Cancelled" \in flags[t]
    /\ state[t] \in {"Cancelling", "Completing", "Completed"}

\* The event loop thread sleeps only when every request has been handled, and
\* no longer than until the first deadline: a failed try_set_deadline() loses
\* nothing, and the request in effect is the last one made for a task.  Three
\* cases are excepted.  A task that is completed is not cancelled any more.  A
\* request for a paused task is handled when it is resumed; so is, against
\* control_task_queue.h:194-198, a cancellation made while the task was processed,
\* before it paused.  And a task that pauses may lose what it was scheduled with
\* while it was being cancelled, because request_renew_guarded_() still finds it
\* paused, though control_task_queue.h:151-152 says that it is executed again.
NoTaskForgotten ==
    Asleep =>
        /\ ready_queue = <<>> /\ ready_queue_size = 0
        /\ \A i \in DOMAIN sleeping_queue :
              0 <= wakeup /\ wakeup <= effective_deadline[sleeping_queue[i]]
        /\ \A t \in Tasks :
              /\ state[t] \in {"Sleeping", "Completed"}
              /\ \/ effective_version[t] = version[t]
                 \/ renewed_deadline[t] < 0 /\ state[t] = "Completed"
                 \/ "Paused" \in flags[t]
                 \/ PausingCancelled(t)

\* A wait() that blocks is sure to be woken: its semaphore is posted, or taken
\* by complete_task_() to be posted, or attached to a task that is not completed.
WaiterWoken ==
    \A x \in Users : pc[x] = "w_sem" =>
        LET t == Task(x) IN
        \/ sem[t] > 0
        \/ \E y \in Threads : Task(y) = t /\ pc[y] \in CompleteLabels /\ loc[y].sem
        \/ sem_attached[t] /\ state[t] # "Completed"

\* Of the panics that catch impossible states only the one of cancel_task_() is
\* reachable: also validate_flags() always finds at most one outcome of a task.
OnlyCancelPanics ==
    /\ panic \in {"none", "cancelled"}
    /\ \A t \in Tasks : Cardinality(flags[t] \cap {"Succeeded", "Cancelled", "Paused"}) <= 1

\* "The upper code should prevent cancelling a task twice": cancel_task_() is
\* not called for a task that was cancelled already.
NeverCancelledTwice == panic # "cancelled"

Halted == panic # "none"

\* wait() returns: a thread that waits for a semaphore is woken.
WaitReturns == \A x \in Users : pc[x] = "w_sem" ~> (pc[x] = "idle" \/ Halted)
=============================================================================
