---------------------------- MODULE PipelineLoop ----------------------------
(***************************************************************************)
(* The task scheduler of roc_pipeline/pipeline_loop.cpp.                   *)
(*                                                                         *)
(* Three kinds of threads share one pipeline.  A user thread calls         *)
(* schedule() or schedule_and_wait() with a task of its own, a frame       *)
(* thread calls process_subframes_and_tasks() once per frame, and the      *)
(* task-processing thread (the control loop) calls process_tasks() when    *)
(* the IPipelineTaskScheduler has asked it to.  Every shared access (an    *)
(* atomic, a mutex, a seqlock, the task queue) is one step of the model,   *)
(* so the steps of different threads interleave as the code's do.          *)
(*                                                                         *)
(* Time is abstracted: whether the clock is inside the interval where      *)
(* tasks are prohibited is a free choice each time the code looks.  Locals  *)
(* go back to their initial value when the code is done with them.         *)
(***************************************************************************)
EXTENDS Integers, Sequences, FiniteSets

CONSTANTS
    Users,         \* threads that schedule a task; the task has its thread's name
    Waiters,       \* the users that call schedule_and_wait(), not schedule()
    Frames,        \* threads that process frames
    Proc,          \* the thread that calls process_tasks()
    NoThread,      \* nobody holds the mutex / no task was popped
    Configs,       \* values enable_precise_task_scheduling is configured with
    MinSubframes,  \* min_samples_between_tasks_, counted in subframes
    MaxSubframes   \* number of subframes the largest frame is split into

ASSUME ThreadsAssumption ==
    /\ IsFiniteSet(Users) /\ Waiters \subseteq Users
    /\ Users \cap Frames = {} /\ Proc \notin Users \cup Frames
    /\ NoThread \notin Users \cup Frames \cup {Proc}
    /\ Configs \subseteq BOOLEAN

ASSUME SubframesAssumption ==
    MinSubframes \in Nat /\ MaxSubframes \in Nat \ {0}

Threads == Users \cup Frames \cup {Proc}

VARIABLES
    precise,           \* config_.enable_precise_task_scheduling
    pending_tasks,     \* counter of tasks scheduled and not yet processed
    pending_frames,    \* counter of frames that wait for or hold the pipeline
    processing_state,  \* asynchronous processing state
    pipeline_mutex,    \* holder of pipeline_mutex_, or NoThread
    scheduler_mutex,   \* holder of scheduler_mutex_, or NoThread
    task_queue,        \* the tasks in task_queue_, oldest first
    linking,           \* tasks whose push_back() has swapped the tail, not linked yet
    deadline_busy,     \* next_frame_deadline_ is being stored
    frame_seen,        \* frame_processing_tid_ was stored by some frame
    subframes,         \* samples_processed_, in subframes, capped at MinSubframes
    task_state,        \* PipelineTask::state_
    sem,               \* value of PipelineTask::sem_
    requested,         \* the scheduler has a process_tasks() call outstanding
    pc,                \* where each thread is
    after,             \* return address of the call each thread is in
    n_frames,          \* local n_pending_frames
    current,           \* local task pointer of process_task_()
    frame_pos          \* local frame_pos of a frame thread, in subframes

locks == <<pipeline_mutex, scheduler_mutex>>
tasks == <<task_queue, linking, task_state, sem>>
timing == <<precise, deadline_busy, frame_seen, subframes>>
async == <<processing_state, requested>>
counters == <<pending_tasks, pending_frames>>
locals == <<n_frames, current, frame_pos>>
vars == <<locks, tasks, timing, async, counters, locals, pc, after>>

ProcStates == {"NotScheduled", "Scheduled", "Running"}
TaskStates == {"New", "Scheduled", "Finished"}

Init ==
    /\ precise \in Configs
    /\ pending_tasks = 0 /\ pending_frames = 0
    /\ processing_state = "NotScheduled" /\ requested = FALSE
    /\ pipeline_mutex = NoThread /\ scheduler_mutex = NoThread
    /\ task_queue = <<>> /\ linking = {}
    /\ deadline_busy = FALSE /\ frame_seen = FALSE /\ subframes = 0
    /\ task_state = [u \in Users |-> "New"] /\ sem = [u \in Users |-> 0]
    /\ pc = [t \in Threads |-> "idle"] /\ after = [t \in Threads |-> "idle"]
    /\ n_frames = [t \in Threads |-> 0]
    /\ current = [t \in Threads |-> NoThread]
    /\ frame_pos = [f \in Frames |-> 0]

-----------------------------------------------------------------------------
(***************************************************************************)
(* Control flow.                                                           *)
(***************************************************************************)
At(t, label) == pc[t] = label
Goto(t, label) == pc' = [pc EXCEPT ![t] = label] /\ UNCHANGED after
Call(t, label, return) ==
    /\ pc' = [pc EXCEPT ![t] = label]
    /\ after' = [after EXCEPT ![t] = return]

\* Where schedule() or schedule_and_wait() continues after a task was queued.
Queued(u) == IF u \in Waiters THEN "wait" ELSE "done"

\* Seeded fault: schedule_and_wait() never waits.
CallerNeverWaits(t) == IF t \in Users THEN "done" ELSE "idle"

\* Where the caller of schedule_async_task_processing_() continues.
Caller(t) == IF t \notin Users THEN "idle" ELSE
             IF current[t] = t THEN "done" ELSE Queued(t)

\* interframe_task_processing_allowed_(): always, unless precise scheduling is
\* on and some frame has stored, or is storing, its thread; then the clock decides.
InterframeAllowed ==
    IF precise /\ (frame_seen \/ \E f \in Frames : At(f, "f_tid")) THEN BOOLEAN ELSE {TRUE}

\* What try_pop_front_exclusive() may return.  A queue with a push_back() in
\* progress may look empty, and never yields an element that is not linked.
Popped ==
    (IF task_queue # <<>> /\ Head(task_queue) \notin linking
     THEN {Head(task_queue)} ELSE {NoThread})
    \cup (IF linking # {} THEN {NoThread} ELSE {})

\* process_task_(): run the task, then post its semaphore if it has no
\* completer and the caller asks to notify. Store and post are one step: once a
\* task is scheduled only its owner reads the state, in success() and in the
\* destructor, and an owner that is to be notified is in wait() until the post.
ProcessTask(task, notify) ==
    /\ task_state' = [task_state EXCEPT ![task] = "Finished"]
    /\ sem' = IF notify /\ task \in Waiters THEN [sem EXCEPT ![task] = @ + 1] ELSE sem
    /\ UNCHANGED <<task_queue, linking>>

TryPop(t, popped, empty) ==
    \E task \in Popped :
       /\ current' = [current EXCEPT ![t] = task]
       /\ task_queue' = IF task = NoThread THEN task_queue ELSE Tail(task_queue)
       /\ Goto(t, IF task = NoThread THEN empty ELSE popped)
       /\ UNCHANGED <<linking, task_state, sem, n_frames, frame_pos>>

TryLockPipeline(t, locked, busy) ==
    IF pipeline_mutex = NoThread
    THEN pipeline_mutex' = t /\ Goto(t, locked)
    ELSE UNCHANGED pipeline_mutex /\ Goto(t, busy)

TryLockScheduler(t, locked, busy) ==
    IF scheduler_mutex = NoThread
    THEN scheduler_mutex' = t /\ Goto(t, locked)
    ELSE UNCHANGED scheduler_mutex /\ Goto(t, busy)

-----------------------------------------------------------------------------
(***************************************************************************)
(* schedule_async_task_processing_() and cancel_async_task_processing_(),  *)
(* called from every kind of thread.                                       *)
(***************************************************************************)
AsyncLoadDeadline(t) ==
    /\ At(t, "sa_load")
    /\ Goto(t, IF deadline_busy THEN after[t] ELSE "sa_lock")
    /\ UNCHANGED <<locks, tasks, timing, async, counters, locals>>

AsyncTryLock(t) ==
    /\ At(t, "sa_lock")
    /\ TryLockScheduler(t, "sa_schedule", after[t])
    /\ UNCHANGED <<pipeline_mutex, tasks, timing, async, counters, locals>>

\* The scheduler is called first and the state stored afterwards.
AsyncSchedule(t) ==
    /\ At(t, "sa_schedule")
    /\ IF processing_state = "NotScheduled"
       THEN requested' = TRUE /\ Goto(t, "sa_set")
       ELSE UNCHANGED requested /\ Goto(t, "sa_unlock")
    /\ UNCHANGED <<locks, tasks, timing, processing_state, counters, locals>>

AsyncSetState(t) ==
    /\ At(t, "sa_set")
    /\ processing_state' = "Scheduled"
    /\ Goto(t, "sa_unlock")
    /\ UNCHANGED <<locks, tasks, timing, requested, counters, locals>>

AsyncUnlock(t) ==
    /\ At(t, "sa_unlock")
    /\ scheduler_mutex' = NoThread
    /\ Goto(t, "sa_frames")
    /\ UNCHANGED <<pipeline_mutex, tasks, timing, async, counters, locals>>

AsyncRecheckFrames(t) ==
    /\ At(t, "sa_frames")
    /\ Goto(t, IF pending_frames # 0 THEN "ca_lock" ELSE after[t])
    /\ UNCHANGED <<locks, tasks, timing, async, counters, locals>>

\* Seeded fault: the result of try_lock() is ignored.
CancelTryLockIgnored(t) ==
    /\ At(t, "ca_lock")
    /\ scheduler_mutex' = t /\ Goto(t, "ca_cancel")
    /\ UNCHANGED <<pipeline_mutex, tasks, timing, async, counters, locals>>

CancelTryLock(t) ==
    /\ At(t, "ca_lock")
    /\ TryLockScheduler(t, "ca_cancel", after[t])
    /\ UNCHANGED <<pipeline_mutex, tasks, timing, async, counters, locals>>

CancelSchedule(t) ==
    /\ At(t, "ca_cancel")
    /\ IF processing_state = "Scheduled"
       THEN requested' = FALSE /\ Goto(t, "ca_set")
       ELSE UNCHANGED requested /\ Goto(t, "ca_unlock")
    /\ UNCHANGED <<locks, tasks, timing, processing_state, counters, locals>>

CancelSetState(t) ==
    /\ At(t, "ca_set")
    /\ processing_state' = "NotScheduled"
    /\ Goto(t, "ca_unlock")
    /\ UNCHANGED <<locks, tasks, timing, requested, counters, locals>>

CancelUnlock(t) ==
    /\ At(t, "ca_unlock")
    /\ scheduler_mutex' = NoThread
    /\ Goto(t, after[t])
    /\ UNCHANGED <<pipeline_mutex, tasks, timing, async, counters, locals>>

AsyncStep(t) ==
    \/ AsyncLoadDeadline(t) \/ AsyncTryLock(t) \/ AsyncSchedule(t)
    \/ AsyncSetState(t) \/ AsyncUnlock(t) \/ AsyncRecheckFrames(t)
    \/ CancelTryLock(t) \/ CancelSchedule(t) \/ CancelSetState(t) \/ CancelUnlock(t)

-----------------------------------------------------------------------------
(***************************************************************************)
(* A user thread: schedule() and schedule_and_wait().                      *)
(***************************************************************************)
Schedule(u) ==
    /\ At(u, "idle")
    /\ task_state' = [task_state EXCEPT ![u] = "Scheduled"]
    /\ pending_tasks' = pending_tasks + 1
    /\ IF pending_tasks' # 1 THEN Call(u, "push", Queued(u)) ELSE Goto(u, "load")
    /\ UNCHANGED <<locks, task_queue, linking, sem, timing, async, pending_frames, locals>>

LoadDeadline(u) ==
    /\ At(u, "load")
    /\ IF deadline_busy THEN Call(u, "push", Queued(u)) ELSE Goto(u, "allowed")
    /\ UNCHANGED <<locks, tasks, timing, async, counters, locals>>

CheckAllowed(u) ==
    /\ At(u, "allowed")
    /\ \E allowed \in InterframeAllowed :
          IF allowed THEN Goto(u, "trylock") ELSE Call(u, "push", "frames")
    /\ UNCHANGED <<locks, tasks, timing, async, counters, locals>>

\* push_back() swaps the tail of the queue, then links the new element.
PushBegin(u) ==
    /\ At(u, "push")
    /\ task_queue' = Append(task_queue, u)
    /\ linking' = linking \cup {u}
    /\ Goto(u, "link")
    /\ UNCHANGED <<locks, task_state, sem, timing, async, counters, locals>>

PushEnd(u) ==
    /\ At(u, "link")
    /\ linking' = linking \ {u}
    /\ Goto(u, after[u])
    /\ UNCHANGED <<locks, task_queue, task_state, sem, timing, async, counters, locals>>

ScheduleIfNoFrames(u) ==
    /\ At(u, "frames")
    /\ IF pending_frames = 0 THEN Call(u, "sa_load", Caller(u)) ELSE Goto(u, Queued(u))
    /\ UNCHANGED <<locks, tasks, timing, async, counters, locals>>

TryLockInPlace(u) ==
    /\ At(u, "trylock")
    /\ IF pipeline_mutex = NoThread
       THEN pipeline_mutex' = u /\ Goto(u, "process")
       ELSE UNCHANGED pipeline_mutex /\ Call(u, "push", Queued(u))
    /\ UNCHANGED <<scheduler_mutex, tasks, timing, async, counters, locals>>

ProcessInPlace(u) ==
    /\ At(u, "process")
    /\ ProcessTask(u, FALSE)
    /\ current' = [current EXCEPT ![u] = u]
    /\ Goto(u, "finish")
    /\ UNCHANGED <<locks, timing, async, counters, n_frames, frame_pos>>

\* Seeded fault: the in-place path forgets to uncount its task.
FinishInPlaceUncounted(u) ==
    /\ At(u, "finish")
    /\ Goto(u, "preempt")
    /\ UNCHANGED <<locks, tasks, timing, async, counters, locals>>

FinishInPlace(u) ==
    /\ At(u, "finish")
    /\ pending_tasks' = pending_tasks - 1
    /\ Goto(u, "preempt")
    /\ UNCHANGED <<locks, tasks, timing, async, pending_frames, locals>>

ReadFramesInPlace(u) ==
    /\ At(u, "preempt")
    /\ n_frames' = [n_frames EXCEPT ![u] = pending_frames]
    /\ Goto(u, "unlock")
    /\ UNCHANGED <<locks, tasks, timing, async, counters, current, frame_pos>>

\* Seeded fault: a path that returns without unlocking the pipeline.
UnlockInPlaceMissing(u) ==
    /\ At(u, "unlock")
    /\ Goto(u, "recheck")
    /\ UNCHANGED <<locks, tasks, timing, async, counters, locals>>

UnlockInPlace(u) ==
    /\ At(u, "unlock")
    /\ pipeline_mutex' = NoThread
    /\ Goto(u, "recheck")
    /\ UNCHANGED <<scheduler_mutex, tasks, timing, async, counters, locals>>

RecheckInPlace(u) ==
    /\ At(u, "recheck")
    /\ IF n_frames[u] = 0 /\ pending_tasks # 0
       THEN Call(u, "sa_load", Caller(u)) ELSE Goto(u, Caller(u))
    /\ n_frames' = [n_frames EXCEPT ![u] = 0]
    /\ UNCHANGED <<locks, tasks, timing, async, counters, current, frame_pos>>

WaitTask(u) ==
    /\ At(u, "wait")
    /\ sem[u] > 0
    /\ sem' = [sem EXCEPT ![u] = @ - 1]
    /\ Goto(u, "done")
    /\ UNCHANGED <<locks, task_queue, linking, task_state, timing, async, counters, locals>>

UserStep(u) ==
    \/ LoadDeadline(u) \/ CheckAllowed(u) \/ PushBegin(u) \/ PushEnd(u)
    \/ ScheduleIfNoFrames(u) \/ TryLockInPlace(u) \/ ProcessInPlace(u)
    \/ FinishInPlace(u) \/ ReadFramesInPlace(u) \/ UnlockInPlace(u)
    \/ RecheckInPlace(u) \/ WaitTask(u) \/ AsyncStep(u)

-----------------------------------------------------------------------------
(***************************************************************************)
(* The task-processing thread: process_tasks(), maybe_process_tasks_().    *)
(***************************************************************************)
ProcessTasks ==
    /\ At(Proc, "idle") /\ requested
    /\ requested' = FALSE
    /\ Goto(Proc, "p_load")
    /\ UNCHANGED <<locks, tasks, timing, processing_state, counters, locals>>

ProcLoadDeadline ==
    /\ At(Proc, "p_load")
    /\ Goto(Proc, IF deadline_busy THEN "p_reset" ELSE "p_trylock")
    /\ UNCHANGED <<locks, tasks, timing, async, counters, locals>>

\* Seeded fault: process_tasks() goes on when try_lock() fails.
ProcTryLockIgnored ==
    /\ At(Proc, "p_trylock")
    /\ TryLockPipeline(Proc, "p_running", "p_running")
    /\ UNCHANGED <<scheduler_mutex, tasks, timing, async, counters, locals>>

ProcTryLock ==
    /\ At(Proc, "p_trylock")
    /\ TryLockPipeline(Proc, "p_running", "p_reset")
    /\ UNCHANGED <<scheduler_mutex, tasks, timing, async, counters, locals>>

ProcRunning ==
    /\ At(Proc, "p_running")
    /\ processing_state' = "Running"
    /\ Goto(Proc, "p_allowed")
    /\ UNCHANGED <<locks, tasks, timing, requested, counters, locals>>

ProcCheckAllowed ==
    /\ At(Proc, "p_allowed")
    /\ \E allowed \in InterframeAllowed : Goto(Proc, IF allowed THEN "p_frames" ELSE "p_unlock")
    /\ UNCHANGED <<locks, tasks, timing, async, counters, locals>>

ProcCheckFrames ==
    /\ At(Proc, "p_frames")
    /\ n_frames' = [n_frames EXCEPT ![Proc] = pending_frames]
    /\ Goto(Proc, IF pending_frames # 0 THEN "p_unlock" ELSE "p_pop")
    /\ UNCHANGED <<locks, tasks, timing, async, counters, current, frame_pos>>

\* Seeded fault: the task is read from the queue and left there.
ProcPeek ==
    /\ At(Proc, "p_pop")
    /\ \E task \in Popped :
          /\ current' = [current EXCEPT ![Proc] = task]
          /\ Goto(Proc, IF task = NoThread THEN "p_unlock" ELSE "p_process")
    /\ UNCHANGED <<locks, tasks, timing, async, counters, n_frames, frame_pos>>

ProcPop ==
    /\ At(Proc, "p_pop")
    /\ TryPop(Proc, "p_process", "p_unlock")
    /\ UNCHANGED <<locks, timing, async, counters>>

ProcProcessTask ==
    /\ At(Proc, "p_process")
    /\ ProcessTask(current[Proc], TRUE)
    /\ Goto(Proc, "p_finish")
    /\ UNCHANGED <<locks, timing, async, counters, locals>>

ProcFinishTask ==
    /\ At(Proc, "p_finish")
    /\ pending_tasks' = pending_tasks - 1
    /\ current' = [current EXCEPT ![Proc] = NoThread]
    /\ Goto(Proc, "p_allowed")
    /\ UNCHANGED <<locks, tasks, timing, async, pending_frames, n_frames, frame_pos>>

ProcUnlock ==
    /\ At(Proc, "p_unlock")
    /\ pipeline_mutex' = NoThread
    /\ Goto(Proc, "p_recheck")
    /\ UNCHANGED <<scheduler_mutex, tasks, timing, async, counters, locals>>

ProcRecheck ==
    /\ At(Proc, "p_recheck")
    /\ Goto(Proc, IF n_frames[Proc] = 0 /\ pending_tasks # 0 THEN "p_reset_more" ELSE "p_reset")
    /\ n_frames' = [n_frames EXCEPT ![Proc] = 0]
    /\ UNCHANGED <<locks, tasks, timing, async, counters, current, frame_pos>>

\* process_tasks() stores the state without holding a mutex.
ProcReset ==
    /\ pc[Proc] \in {"p_reset", "p_reset_more"}
    /\ processing_state' = "NotScheduled"
    /\ IF At(Proc, "p_reset_more") THEN Call(Proc, "sa_load", "idle") ELSE Goto(Proc, "idle")
    /\ UNCHANGED <<locks, tasks, timing, requested, counters, locals>>

ProcStep ==
    \/ ProcLoadDeadline \/ ProcTryLock \/ ProcRunning \/ ProcCheckAllowed
    \/ ProcCheckFrames \/ ProcPop \/ ProcProcessTask \/ ProcFinishTask
    \/ ProcUnlock \/ ProcRecheck \/ ProcReset \/ AsyncStep(Proc)

-----------------------------------------------------------------------------
(***************************************************************************)
(* A frame thread: process_subframes_and_tasks(), simple and precise.      *)
(***************************************************************************)
StartFrame(f) ==
    /\ At(f, "idle")
    /\ pending_frames' = pending_frames + 1
    /\ Call(f, "ca_lock", "f_lock")
    /\ UNCHANGED <<locks, tasks, timing, async, pending_tasks, locals>>

LockFrame(f) ==
    /\ At(f, "f_lock") /\ pipeline_mutex = NoThread
    /\ pipeline_mutex' = f
    /\ Goto(f, IF precise THEN "f_subframe" ELSE "f_unlock")
    /\ UNCHANGED <<scheduler_mutex, tasks, timing, async, counters, locals>>

ProcessSubframe(f) ==
    /\ At(f, "f_subframe")
    /\ frame_pos' = [frame_pos EXCEPT ![f] = @ + 1]
    /\ subframes' = IF subframes < MinSubframes THEN subframes + 1 ELSE subframes
    /\ Goto(f, IF frame_pos[f] = 0 THEN "f_deadline" ELSE "f_tasks")
    /\ UNCHANGED <<locks, tasks, precise, deadline_busy, frame_seen, async, counters,
                   n_frames, current>>

StoreDeadlineBegin(f) ==
    /\ At(f, "f_deadline")
    /\ deadline_busy' = TRUE
    /\ Goto(f, "f_deadline_end")
    /\ UNCHANGED <<locks, tasks, precise, frame_seen, subframes, async, counters, locals>>

StoreDeadlineEnd(f) ==
    /\ At(f, "f_deadline_end")
    /\ deadline_busy' = FALSE
    /\ Goto(f, "f_tasks")
    /\ UNCHANGED <<locks, tasks, precise, frame_seen, subframes, async, counters, locals>>

\* Seeded fault: off by one, there are never enough samples.
StartSubframeTasksNever(f) ==
    /\ At(f, "f_tasks")
    /\ IF pending_tasks # 0 /\ subframes > MinSubframes
       THEN subframes' = 0 /\ Goto(f, "f_pop")
       ELSE UNCHANGED subframes /\ Goto(f, "f_next")
    /\ UNCHANGED <<locks, tasks, precise, deadline_busy, frame_seen, async, counters, locals>>

StartSubframeTasks(f) ==
    /\ At(f, "f_tasks")
    /\ IF pending_tasks # 0 /\ subframes >= MinSubframes
       THEN subframes' = 0 /\ Goto(f, "f_pop")
       ELSE UNCHANGED subframes /\ Goto(f, "f_next")
    /\ UNCHANGED <<locks, tasks, precise, deadline_busy, frame_seen, async, counters, locals>>

FramePop(f) ==
    /\ At(f, "f_pop")
    /\ TryPop(f, "f_process", "f_next")
    /\ UNCHANGED <<locks, timing, async, counters>>

FrameProcessTask(f) ==
    /\ At(f, "f_process")
    /\ ProcessTask(current[f], TRUE)
    /\ Goto(f, "f_finish")
    /\ UNCHANGED <<locks, timing, async, counters, locals>>

\* Seeded fault: a task processed inside a frame stays counted.
FrameFinishTaskUncounted(f) ==
    /\ At(f, "f_finish")
    /\ current' = [current EXCEPT ![f] = NoThread]
    /\ \E next \in {"f_pop", "f_next"} : Goto(f, next)
    /\ UNCHANGED <<locks, tasks, timing, async, counters, n_frames, frame_pos>>

\* Then subframe_task_processing_allowed_() asks the clock.
FrameFinishTask(f) ==
    /\ At(f, "f_finish")
    /\ pending_tasks' = pending_tasks - 1
    /\ current' = [current EXCEPT ![f] = NoThread]
    /\ \E next \in {"f_pop", "f_next"} : Goto(f, next)
    /\ UNCHANGED <<locks, tasks, timing, async, pending_frames, n_frames, frame_pos>>

NextSubframe(f) ==
    /\ At(f, "f_next")
    /\ \/ frame_pos[f] < MaxSubframes /\ Goto(f, "f_subframe") /\ UNCHANGED frame_pos
       \/ Goto(f, "f_stats") /\ frame_pos' = [frame_pos EXCEPT ![f] = 0]
    /\ UNCHANGED <<locks, tasks, timing, async, counters, n_frames, current>>

\* report_stats_() takes the scheduler mutex when the rate limiter lets it.
ReportStats(f) ==
    /\ At(f, "f_stats")
    /\ \/ TryLockScheduler(f, "f_stats_unlock", "f_tid")
       \/ UNCHANGED scheduler_mutex /\ Goto(f, "f_tid")
    /\ UNCHANGED <<pipeline_mutex, tasks, timing, async, counters, locals>>

ReportStatsUnlock(f) ==
    /\ At(f, "f_stats_unlock")
    /\ scheduler_mutex' = NoThread
    /\ Goto(f, "f_tid")
    /\ UNCHANGED <<pipeline_mutex, tasks, timing, async, counters, locals>>

StoreFrameTid(f) ==
    /\ At(f, "f_tid")
    /\ frame_seen' = TRUE
    /\ Goto(f, "f_unlock")
    /\ UNCHANGED <<locks, tasks, precise, deadline_busy, subframes, async, counters, locals>>

UnlockFrame(f) ==
    /\ At(f, "f_unlock")
    /\ pipeline_mutex' = NoThread
    /\ Goto(f, "f_end")
    /\ UNCHANGED <<scheduler_mutex, tasks, timing, async, counters, locals>>

EndFrame(f) ==
    /\ At(f, "f_end")
    /\ pending_frames' = pending_frames - 1
    /\ Goto(f, IF pending_frames' = 0 THEN "f_recheck" ELSE "idle")
    /\ UNCHANGED <<locks, tasks, timing, async, pending_tasks, locals>>

RecheckFrame(f) ==
    /\ At(f, "f_recheck")
    /\ Call(f, IF pending_tasks # 0 THEN "sa_load" ELSE "idle", "idle")
    /\ UNCHANGED <<locks, tasks, timing, async, counters, locals>>

FrameStep(f) ==
    \/ LockFrame(f) \/ ProcessSubframe(f) \/ StoreDeadlineBegin(f) \/ StoreDeadlineEnd(f)
    \/ StartSubframeTasks(f) \/ FramePop(f) \/ FrameProcessTask(f) \/ FrameFinishTask(f)
    \/ NextSubframe(f) \/ ReportStats(f) \/ ReportStatsUnlock(f) \/ StoreFrameTid(f)
    \/ UnlockFrame(f) \/ EndFrame(f) \/ RecheckFrame(f) \/ AsyncStep(f)

-----------------------------------------------------------------------------
Next ==
    \/ \E u \in Users : Schedule(u) \/ UserStep(u)
    \/ ProcessTasks \/ ProcStep
    \/ \E f \in Frames : StartFrame(f) \/ FrameStep(f)

\* Every thread that is inside a call is scheduled by the operating system,
\* the control loop runs what it was asked to run, and the pipeline clock
\* keeps asking for frames.  Users are never obliged to schedule a task.
Fairness ==
    /\ \A u \in Users : WF_vars(UserStep(u))
    /\ WF_vars(ProcStep) /\ WF_vars(ProcessTasks)
    /\ \A f \in Frames : WF_vars(FrameStep(f)) /\ WF_vars(StartFrame(f))

Spec == Init /\ [][Next]_vars
FairSpec == Spec /\ Fairness

-----------------------------------------------------------------------------
(***************************************************************************)
(* Properties.                                                             *)
(***************************************************************************)
AsyncLabels == {"sa_load", "sa_lock", "sa_schedule", "sa_set", "sa_unlock", "sa_frames",
                "ca_lock", "ca_cancel", "ca_set", "ca_unlock"}
UserLabels == {"idle", "load", "allowed", "push", "link", "frames", "trylock", "process",
               "finish", "preempt", "unlock", "recheck", "wait", "done"} \cup AsyncLabels
ProcLabels == {"idle", "p_load", "p_trylock", "p_running", "p_allowed", "p_frames", "p_pop",
               "p_process", "p_finish", "p_unlock", "p_recheck", "p_reset", "p_reset_more"}
              \cup AsyncLabels
FrameLabels == {"idle", "f_lock", "f_subframe", "f_deadline", "f_deadline_end", "f_tasks",
                "f_pop", "f_process", "f_finish", "f_next", "f_stats", "f_stats_unlock",
                "f_tid", "f_unlock", "f_end", "f_recheck"} \cup AsyncLabels

\* The code between taking and releasing pipeline_mutex_ / scheduler_mutex_.
PipelineLabels ==
    {"process", "finish", "preempt", "unlock",
     "p_running", "p_allowed", "p_frames", "p_pop", "p_process", "p_finish", "p_unlock",
     "f_subframe", "f_deadline", "f_deadline_end", "f_tasks", "f_pop", "f_process",
     "f_finish", "f_next", "f_stats", "f_stats_unlock", "f_tid", "f_unlock"}
SchedulerLabels ==
    {"sa_schedule", "sa_set", "sa_unlock", "ca_cancel", "ca_set", "ca_unlock",
     "f_stats_unlock"}

\* Each thread stays inside the code of its own entry points.
AllLabels == UserLabels \cup ProcLabels \cup FrameLabels
Labels(t) == IF t \in Users THEN UserLabels ELSE IF t \in Frames THEN FrameLabels ELSE ProcLabels
Returns(t) == IF t \in Users THEN {"idle", "wait", "done", "frames"} ELSE
              IF t \in Frames THEN {"idle", "f_lock"} ELSE {"idle"}

ControlOK ==
    /\ pc \in [Threads -> AllLabels] /\ \A t \in Threads : pc[t] \in Labels(t)
    /\ after \in [Threads -> AllLabels] /\ \A t \in Threads : after[t] \in Returns(t)

DataOK ==
    /\ precise \in Configs /\ deadline_busy \in BOOLEAN /\ frame_seen \in BOOLEAN
    /\ subframes \in 0..MinSubframes
    /\ pending_tasks \in Int /\ pending_frames \in Int
    /\ processing_state \in ProcStates /\ requested \in BOOLEAN
    /\ pipeline_mutex \in Threads \cup {NoThread}
    /\ scheduler_mutex \in Threads \cup {NoThread}
    /\ task_queue \in Seq(Users) /\ linking \in SUBSET Users
    /\ task_state \in [Users -> TaskStates] /\ sem \in [Users -> Int]
    /\ n_frames \in [Threads -> Int]
    /\ current \in [Threads -> Users \cup {NoThread}]
    /\ frame_pos \in [Frames -> Nat]

\* Every variable has its type and every thread is inside the code of its own
\* entry points, with a bounded number of subframes accounted for.
TypeOK == DataOK /\ ControlOK

\* Frames and tasks never run at the same time: at most one thread is between
\* pipeline_mutex_ lock and unlock, whether it is processing a frame, draining the
\* queue in process_tasks(), or running its own task in place.
PipelineExclusive ==
    \A s, t \in Threads : pc[s] \in PipelineLabels /\ pc[t] \in PipelineLabels => s = t

\* IPipelineTaskScheduler promises its implementers that "method calls may come
\* from different threads, but are serialized".
SchedulerSerialized ==
    \A s, t \in Threads : pc[s] \in SchedulerLabels /\ pc[t] \in SchedulerLabels => s = t

\* Each mutex is held by exactly the thread whose code is between lock and unlock:
\* no path leaves with the mutex held, and none unlocks a mutex of another thread.
Holder(labels, mutex) == \A t \in Threads : pc[t] \in labels <=> mutex = t
LockInv == Holder(PipelineLabels, pipeline_mutex) /\ Holder(SchedulerLabels, scheduler_mutex)

\* The thread t is about to run, or has run and not yet uncounted, the task u.
Running(t, u) ==
    \/ t = u /\ pc[t] \in {"process", "finish"}
    \/ pc[t] \in {"p_process", "p_finish", "f_process", "f_finish"} /\ current[t] = u
Counted(u) == task_state[u] = "Scheduled" \/ \E t \in Threads : Running(t, u)

\* pending_tasks_ counts exactly the tasks that were scheduled and whose
\* processing is not accounted for yet, whichever thread runs them: the counter
\* the destructor's panic and every rescheduling decision rely on.
PendingCount == pending_tasks = Cardinality({u \in Users : Counted(u)})

\* A task is run once: a thread that is about to run a task finds it scheduled
\* and not run, it is not in the queue any more, and no other thread has it.
RunOnce ==
    \A t \in Threads, u \in Users :
       pc[t] \in {"process", "p_process", "f_process"} /\ Running(t, u) =>
          /\ task_state[u] = "Scheduled"
          /\ \A i \in 1..Len(task_queue) : task_queue[i] # u
          /\ \A s \in Threads \ {t} : ~Running(s, u)

\* schedule_and_wait() returns only when its task was processed, and once it has
\* returned (the task usually lives on the caller's stack) nobody will touch the
\* task again: it is not queued, nobody is about to run it or to post its semaphore.
WaitReturnsLast ==
    \A u \in Waiters : At(u, "done") =>
       /\ task_state[u] = "Finished" /\ sem[u] = 0
       /\ \A i \in 1..Len(task_queue) : task_queue[i] # u
       /\ \A t \in Threads : pc[t] \in {"p_process", "f_process"} => current[t] # u

\* The destructor's panic "attempt to destroy pipeline before finishing all tasks"
\* cannot fire once the owner has waited for its own calls and, as the nodes'
\* destructors do, for the asynchronous processing and the frame threads.
SafeToDestroy ==
    (/\ \A u \in Users : pc[u] = "done" /\ task_state[u] = "Finished"
     /\ At(Proc, "idle")
     /\ \A f \in Frames : At(f, "idle")) => pending_tasks = 0

\* Where a task is.  It is in the hands of its user until it is queued or run in
\* place, then in the queue at most once, then in the hands of the thread that
\* popped it; it is run from one of these places, and leaves it finished.
Unqueued == {"load", "allowed", "push", "trylock", "process"}
Enqueued == {task_queue[i] : i \in 1..Len(task_queue)}
UserTaskInv ==
    \A u \in Users :
       /\ pc[u] = "idle" => task_state[u] = "New"
       /\ pc[u] \in Unqueued => task_state[u] = "Scheduled" /\ u \notin Enqueued
       /\ pc[u] \in {"push", "link"} \cup AsyncLabels => after[u] # "idle"
       /\ pc[u] = "finish" \/ current[u] = u => task_state[u] = "Finished"
QueueInv ==
    /\ \A i, j \in 1..Len(task_queue) : task_queue[i] = task_queue[j] => i = j
    /\ \A u \in Enqueued : task_state[u] = "Scheduled"
PoppedInv ==
    \A t \in Threads :
       /\ pc[t] \in {"p_process", "f_process"} =>
             /\ current[t] \in Users /\ task_state[current[t]] = "Scheduled"
             /\ current[t] \notin Enqueued /\ pc[current[t]] \notin Unqueued
       /\ pc[t] \in {"p_finish", "f_finish"} =>
             current[t] \in Users /\ task_state[current[t]] = "Finished"
TaskInv == UserTaskInv /\ QueueInv /\ PoppedInv

\* What the semaphore of a waiting user may be.
WaitInv ==
    \A u \in Waiters :
       /\ sem[u] \in {0, 1}
       /\ sem[u] = 1 => task_state[u] = "Finished" /\ current[u] # u /\ pc[u] # "done"
       /\ pc[u] = "done" => task_state[u] = "Finished"
       /\ after[u] = "done" => current[u] = u

\* When no call is in progress and no asynchronous processing is requested, no
\* task is left in the queue: "it's guaranteed that the thread locking it will
\* check pending tasks after unlocking the mutex and will either process them or
\* scheduler asynchronous processing" (pipeline_loop.h).
NoTaskLeftBehind ==
    (/\ \A u \in Users : pc[u] \in {"idle", "wait", "done"}
     /\ At(Proc, "idle") /\ ~requested
     /\ \A f \in Frames : At(f, "idle")) => task_queue = <<>>

\* A frame that asks for the pipeline gets it and completes: task processing
\* gives way to pending frames.
FrameCompletes == \A f \in Frames : At(f, "f_lock") ~> At(f, "f_end")

\* With precise scheduling, every scheduled task is eventually processed as long
\* as frames keep coming, even when the wakeup of process_tasks() was lost.
TaskCompletes ==
    \A u \in Users : precise /\ task_state[u] = "Scheduled" ~> task_state[u] = "Finished"

=============================================================================
