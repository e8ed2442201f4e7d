----------------------- MODULE ControlTaskQueue_tasks -----------------------
(***************************************************************************)
(* What happens to the tasks of the control task queue: their states and   *)
(* flags agree with the threads that work on them and with the queues they *)
(* are in, and the sleeping tasks are kept in order.                       *)
(***************************************************************************)
EXTENDS ControlTaskQueue_types

-----------------------------------------------------------------------------
(***************************************************************************)
(* Flags, lists and deadlines of the tasks.                                *)
(***************************************************************************)
\* A task is removed from a list that holds it once at most.
LEMMA WithoutList ==
  ASSUME NEW list \in Seq(Tasks), Once(list), NEW t, NEW e \in [Tasks -> Int]
  PROVE  /\ Without(t, list) \in Seq(Tasks) /\ Once(Without(t, list))
         /\ \A u : InList(u, Without(t, list)) <=> InList(u, list) /\ u # t
         /\ Sorted(list, e) => Sorted(Without(t, list), e)
<1> DEFINE new == Without(t, list)
<1>1. /\ new \in Seq(Tasks)
      /\ \/ ~InList(t, list) /\ new = list
         \/ \E k \in 1..Len(list) :
               /\ list[k] = t /\ Len(new) = Len(list) - 1
               /\ \A i \in 1..(Len(list) - 1) : new[i] = IF i < k THEN list[i] ELSE list[i + 1]
  BY WithoutSeq, ZenonT(30)
<1> HIDE DEF new
<1>2. CASE ~InList(t, list) /\ new = list BY <1>1, <1>2, Zenon DEF new
<1>3. CASE \E k \in 1..Len(list) :
               /\ list[k] = t /\ Len(new) = Len(list) - 1
               /\ \A i \in 1..(Len(list) - 1) : new[i] = IF i < k THEN list[i] ELSE list[i + 1]
  <2>1. PICK k \in 1..Len(list) :
               /\ list[k] = t /\ Len(new) = Len(list) - 1
               /\ \A i \in 1..(Len(list) - 1) : new[i] = IF i < k THEN list[i] ELSE list[i + 1]
    BY <1>3, Zenon
  <2>2. DOMAIN list = 1..Len(list) /\ DOMAIN new = 1..(Len(list) - 1) /\ Len(list) \in Nat BY <1>1, <2>1, SMT, Z3
  <2> DEFINE old == [i \in 1..(Len(list) - 1) |-> IF i < k THEN i ELSE i + 1]
  <2>3. \A i \in 1..(Len(list) - 1) : old[i] \in 1..Len(list) /\ old[i] # k /\ new[i] = list[old[i]]
    BY <2>1, <2>2, SMT, Z3
  <2>4. \A i, j \in 1..(Len(list) - 1) : i < j => old[i] < old[j] BY <2>1, <2>2, SMT, Z3
  <2>5. \A j \in 1..Len(list) : j # k => \E i \in 1..(Len(list) - 1) : old[i] = j
    <3> SUFFICES ASSUME NEW j \in 1..Len(list), j # k PROVE \E i \in 1..(Len(list) - 1) : old[i] = j BY Zenon
    <3>1. CASE j < k
      <4>1. j \in 1..(Len(list) - 1) /\ old[j] = j BY <2>1, <2>2, <3>1, SMT, Z3
      <4> QED BY <4>1, Zenon
    <3>2. CASE k < j
      <4>1. j - 1 \in 1..(Len(list) - 1) /\ old[j - 1] = j BY <2>1, <2>2, <3>2, SMT, Z3
      <4> QED BY <4>1, Zenon
    <3> QED BY <2>2, <3>1, <3>2, SMT, Z3
  <2> HIDE DEF old
  <2>6. Once(new)
    <3> SUFFICES ASSUME NEW i \in 1..(Len(list) - 1), NEW j \in 1..(Len(list) - 1), new[i] = new[j]
                 PROVE  i = j
      BY <2>2, Zenon DEF Once
    <3>1. old[i] = old[j]
      <4>1. old[i] \in DOMAIN list /\ old[j] \in DOMAIN list /\ list[old[i]] = list[old[j]] BY <2>2, <2>3, Zenon
      <4> QED BY <4>1, Zenon DEF Once
    <3>2. old[i] \in Int /\ ~(i < j) /\ ~(j < i) BY <2>3, <2>4, <3>1, SMT, Z3
    <3> QED BY <2>2, <3>2, SMT, Z3
  <2>7. ASSUME NEW u, InList(u, list), u # t PROVE InList(u, new)
    <3>1. PICK i \in 1..Len(list) : list[i] = u BY <2>2, <2>7, Zenon DEF InList
    <3>2. PICK j \in 1..(Len(list) - 1) : old[j] = i BY <2>1, <2>5, <2>7, <3>1, Zenon
    <3> QED BY <2>2, <2>3, <3>1, <3>2, Zenon DEF InList
  <2>8. ASSUME NEW u, InList(u, new) PROVE InList(u, list) /\ u # t
    <3>1. PICK i \in 1..(Len(list) - 1) : new[i] = u BY <2>2, <2>8, Zenon DEF InList
    <3>2. old[i] \in DOMAIN list /\ old[i] # k /\ list[old[i]] = u /\ k \in DOMAIN list BY <2>2, <2>3, <3>1, Zenon
    <3> QED BY <2>1, <3>2, Zenon DEF InList, Once
  <2>9. ASSUME Sorted(list, e) PROVE Sorted(new, e)
    <3> SUFFICES ASSUME NEW i \in 1..(Len(list) - 1), NEW j \in 1..(Len(list) - 1), i < j
                 PROVE  e[new[i]] <= e[new[j]]
      BY <2>2, Zenon DEF Sorted
    <3>1. old[i] \in DOMAIN list /\ old[j] \in DOMAIN list /\ old[i] < old[j] BY <2>2, <2>3, <2>4, Zenon
    <3> QED BY <2>3, <2>9, <3>1, Zenon DEF Sorted
  <2> QED BY <1>1, <2>6, <2>7, <2>8, <2>9, Zenon DEF new
<1> QED BY <1>1, <1>2, <1>3, Zenon

\* A task with a new deadline is inserted in a list that does not hold it.
LEMMA InsertList ==
  ASSUME FirstExists, NEW list \in Seq(Tasks), Once(list), Sorted(list, effective_deadline), NEW t \in Tasks,
         ~InList(t, list), NEW d \in Int, effective_deadline \in [Tasks -> Int],
         NEW e, e = [effective_deadline EXCEPT ![t] = d]
  PROVE  /\ Once(InsertSleeping(t, d, list)) /\ Sorted(InsertSleeping(t, d, list), e)
         /\ \A u : InList(u, InsertSleeping(t, d, list)) <=> InList(u, list) \/ u = t
<1> DEFINE new == InsertSleeping(t, d, list)
<1>1. new \in Seq(Tasks) /\ Len(new) = Len(list) + 1 BY InsertSeq, Zenon
<1>2. PICK p \in 1..(Len(list) + 1) :
         /\ \A i \in 1..(Len(list) + 1) : new[i] = IF i < p THEN list[i] ELSE IF i = p THEN t ELSE list[i - 1]
         /\ \A i \in 1..Len(list) : i < p => effective_deadline[list[i]] <= d
         /\ p <= Len(list) => effective_deadline[list[p]] > d
  BY InsertSeq, Zenon
<1> HIDE DEF new
<1>3. DOMAIN list = 1..Len(list) /\ DOMAIN new = 1..(Len(list) + 1) /\ Len(list) \in Nat BY <1>1, SMT, Z3
<1>4. \A i \in 1..Len(list) : list[i] # t /\ list[i] \in Tasks /\ e[list[i]] = effective_deadline[list[i]]
  BY <1>3, SMT, Z3 DEF InList
<1>5. e[t] = d BY Zenon
<1>6. \A i \in 1..Len(list) : i >= p => effective_deadline[list[i]] > d
  <2> SUFFICES ASSUME NEW i \in 1..Len(list), i >= p PROVE effective_deadline[list[i]] > d BY Zenon
  <2>1. p \in 1..Len(list) /\ effective_deadline[list[p]] > d BY <1>2, <1>3, SMT, Z3
  <2>2. effective_deadline[list[p]] <= effective_deadline[list[i]]
    <3>1. CASE i = p BY <1>4, <3>1, SMT, Z3
    <3>2. CASE p < i BY <1>3, <2>1, <3>2, Zenon DEF Sorted
    <3> QED BY <1>3, <3>1, <3>2, SMT, Z3
  <2> QED BY <1>4, <2>1, <2>2, SMT, Z3
<1>7. Once(new)
  <2> SUFFICES ASSUME NEW i \in 1..(Len(list) + 1), NEW j \in 1..(Len(list) + 1), new[i] = new[j], i < j
               PROVE  FALSE
    BY <1>3, SMT, Z3 DEF Once
  <2>1. CASE j < p BY <1>2, <1>3, <2>1, SMT, Z3 DEF Once
  <2>2. CASE j = p \/ i = p BY <1>2, <1>3, <1>4, <2>2, SMT, Z3
  <2>3. CASE i < p /\ p < j
    <3>1. i \in DOMAIN list /\ j - 1 \in DOMAIN list /\ list[i] = list[j - 1] BY <1>2, <1>3, <2>3, SMT, Z3
    <3>2. i = j - 1 BY <3>1, Zenon DEF Once
    <3> QED BY <2>3, <3>2, SMT, Z3
  <2>4. CASE p < i
    <3>1. i - 1 \in DOMAIN list /\ j - 1 \in DOMAIN list /\ list[i - 1] = list[j - 1] BY <1>2, <1>3, <2>4, SMT, Z3
    <3>2. i - 1 = j - 1 BY <3>1, Zenon DEF Once
    <3> QED BY <3>2, SMT, Z3
  <2> QED BY <1>2, <2>1, <2>2, <2>3, <2>4, SMT, Z3
<1>8. Sorted(new, e)
  <2> SUFFICES ASSUME NEW i \in 1..(Len(list) + 1), NEW j \in 1..(Len(list) + 1), i < j
               PROVE  e[new[i]] <= e[new[j]]
    BY <1>3, Zenon DEF Sorted
  <2>1. CASE j < p
    <3>1. i \in 1..Len(list) /\ j \in 1..Len(list) /\ new[i] = list[i] /\ new[j] = list[j] BY <1>2, <1>3, <2>1, SMT, Z3
    <3> QED BY <1>3, <1>4, <3>1, Zenon DEF Sorted
  <2>2. CASE j = p
    <3>1. i \in 1..Len(list) /\ i < p /\ new[i] = list[i] /\ new[j] = t BY <1>2, <1>3, <2>2, SMT, Z3
    <3> QED BY <1>2, <1>4, <1>5, <3>1, Zenon
  <2>3. CASE i = p
    <3>1. j - 1 \in 1..Len(list) /\ j - 1 >= p /\ new[i] = t /\ new[j] = list[j - 1] BY <1>2, <1>3, <2>3, SMT, Z3
    <3>2. effective_deadline[list[j - 1]] > d /\ list[j - 1] \in Tasks BY <1>4, <1>6, <3>1, Zenon
    <3> QED BY <1>4, <1>5, <3>1, <3>2, SMT, Z3
  <2>4. CASE i < p /\ p < j
    <3>1. i \in 1..Len(list) /\ j - 1 \in 1..Len(list) /\ i < j - 1 /\ new[i] = list[i] /\ new[j] = list[j - 1]
      BY <1>2, <1>3, <2>4, SMT, Z3
    <3>2. CASE i < j - 1 BY <1>3, <1>4, <3>1, <3>2, Zenon DEF Sorted
    <3> QED BY <3>1, <3>2, Zenon
  <2>5. CASE p < i
    <3>1. /\ i - 1 \in 1..Len(list) /\ j - 1 \in 1..Len(list) /\ i - 1 < j - 1
          /\ new[i] = list[i - 1] /\ new[j] = list[j - 1]
      BY <1>2, <1>3, <2>5, SMT, Z3
    <3> QED BY <1>3, <1>4, <3>1, Zenon DEF Sorted
  <2> QED BY <1>2, <2>1, <2>2, <2>3, <2>4, <2>5, SMT, Z3
<1>9. ASSUME NEW u PROVE InList(u, new) <=> InList(u, list) \/ u = t
  <2>1. ASSUME InList(u, new) PROVE InList(u, list) \/ u = t BY <1>2, <1>3, <2>1, SMT, Z3 DEF InList
  <2>2. InList(t, new) BY <1>2, <1>3, SMT, Z3 DEF InList
  <2>3. ASSUME InList(u, list) PROVE InList(u, new)
    <3>1. PICK i \in 1..Len(list) : list[i] = u BY <1>3, <2>3, Zenon DEF InList
    <3>2. CASE i < p
      <4>1. i \in 1..(Len(list) + 1) /\ new[i] = u BY <1>2, <1>3, <3>1, <3>2, SMT, Z3
      <4> QED BY <1>3, <4>1, Zenon DEF InList
    <3>3. CASE i >= p
      <4>1. i + 1 \in 1..(Len(list) + 1) /\ new[i + 1] = u BY <1>2, <1>3, <3>1, <3>3, SMT, Z3
      <4> QED BY <1>3, <4>1, Zenon DEF InList
    <3> QED BY <1>2, <1>3, <3>2, <3>3, SMT, Z3
  <2> QED BY <2>1, <2>2, <2>3, Zenon
<1> QED BY <1>7, <1>8, <1>9, Zenon DEF new

\* A step leaves a task alone, but for its place in the lists.
SameTask(u) ==
    /\ flags'[u] = flags[u] /\ operation'[u] = operation[u] /\ state'[u] = state[u]
    /\ effective_deadline'[u] = effective_deadline[u]
    /\ InList(u, paused_queue)' <=> InList(u, paused_queue)
    /\ InList(u, sleeping_queue)' <=> InList(u, sleeping_queue)

\* The places that TaskOK() and ThreadOK() speak of are protected by the lock.
LEMMA GuardedLabels ==
  /\ BusyLabels \cup {"recheck", "renew"} \subseteq CriticalLabels
  /\ {"x_flags", "exec", "run", "pause", "p_sleep"} \subseteq BusyLabels
BY CriticalSet, Zenon DEF BusyLabels

\* A thread that is not at one of these places after a step.
LEMMA ThreadLeaves ==
  ASSUME NEW x, pc'[x] \notin BusyLabels \cup {"renew"}
  PROVE  ThreadOK(x)'
<1>1. pc'[x] \notin BusyLabels /\ pc'[x] # "renew" /\ pc'[x] \notin {"exec", "run", "pause", "p_sleep"}
  BY GuardedLabels, Zenon
<1> QED BY <1>1, Zenon DEF ThreadOK

\* A step of the thread that has the lock: the task it changes is to be looked at.
LEMMA TasksInside ==
  ASSUME LockInv, TasksInv, NEW x \in Threads, Moves(x), pc[x] \in CriticalLabels,
         panic' \in {"none", "cancelled"},
         Once(paused_queue)', Once(sleeping_queue)', Sorted(sleeping_queue, effective_deadline)',
         NEW t, pc[x] \in {"x_flags", "p_sleep", "recheck"} => Task(x) = t,
         \A u \in Tasks \ {t} : SameTask(u), t \in Tasks => TaskOK(t)', ThreadOK(x)'
  PROVE  TasksInv'
<1>1. ASSUME NEW u \in Tasks \ {t} PROVE TaskOK(u)'
  <2>1. \A y \in Threads : pc[y] \in {"x_flags", "p_sleep", "recheck"} => y = x
    BY GuardedLabels, OneInside, Zenon DEF BusyLabels
  <2>2. ~AtTask("x_flags", u) /\ ~AtTask("p_sleep", u) /\ ~AtTask("recheck", u) BY <2>1, Zenon DEF AtTask
  <2>3. TaskOK(u) /\ SameTask(u) BY Zenon DEF TasksInv
  <2> QED BY <2>2, <2>3, Zenon DEF TaskOK, SameTask
<1>2. ASSUME NEW y \in Threads, y # x PROVE ThreadOK(y)'
  <2>1. pc[y] \notin CriticalLabels BY <1>2, OneInside, Zenon
  <2>2. pc'[y] \notin CriticalLabels BY <1>2, <2>1, Zenon DEF Moves
  <2>3. pc'[y] \notin BusyLabels \cup {"renew"} BY <2>2, GuardedLabels, Zenon
  <2> QED BY <2>3, ThreadLeaves, Zenon
<1> QED BY <1>1, <1>2, Zenon DEF TasksInv

\* A step of the thread that has the lock and changes no task.
LEMMA TasksSame ==
  ASSUME LockInv, TasksInv, NEW x \in Threads, Moves(x), pc[x] \in CriticalLabels,
         panic' \in {"none", "cancelled"}, pc[x] \notin {"x_flags", "p_sleep", "recheck"},
         UNCHANGED <<flags, operation, state, effective_deadline, paused_queue, sleeping_queue>>,
         ThreadOK(x)'
  PROVE  TasksInv'
<1>1. Once(paused_queue)' /\ Once(sleeping_queue)' /\ Sorted(sleeping_queue, effective_deadline)'
  BY Zenon DEF TasksInv, Once, Sorted
<1>2. \A u \in Tasks \ {NoTask} : SameTask(u) BY Zenon DEF SameTask, InList
<1>3. NoTask \notin Tasks BY ThreadsAssumption, Zenon
<1> QED BY <1>1, <1>2, <1>3, TasksInside, Zenon

\* A thread that is at one of these places has a task.
LEMMA BusyTask ==
  ASSUME TypeOK, NEW y \in Threads, pc[y] \in BusyLabels \cup {"recheck", "renew"}
  PROVE  Task(y) \in Tasks
<1>1. ControlOK BY Zenon DEF TypeOK
<1>2. CASE pc[y] \in StageLabels BY <1>2, StageTask, Zenon
<1>3. CASE pc[y] \notin StageLabels
  <2>1. pc[y] = "renew" BY <1>3, Zenon DEF StageLabels, BusyLabels
  <2>2. y # Loop BY <1>1, <2>1, Zenon DEF ControlOK, LocalsOK, LoopLocals, LoopLabels, FetchLabels, ExecuteLabels, SharedLabels, CompleteLabels, UpdateLabels
  <2>3. y \in Users /\ pc[y] \notin {"idle", "set", "commit", "join"} BY <2>1, <2>2, Zenon DEF Threads
  <2> QED BY <1>1, <2>3, UserTask, Zenon
<1> QED BY <1>2, <1>3, Zenon

\* A step of a thread that does not have the lock.
LEMMA TasksOutside ==
  ASSUME TypeOK, TasksInv, NEW x \in Threads, Moves(x), pc[x] \notin CriticalLabels,
         UNCHANGED <<panic, paused_queue, sleeping_queue, effective_deadline>>,
         \A u \in Tasks : /\ flags'[u] = flags[u] \/ flags'[u] = flags[u] \cup {"Resumed"}
                          /\ operation'[u] = operation[u] \/ operation'[u] = "done"
                          /\ state'[u] = state[u] \/ state'[u] = "Ready",
         ThreadOK(x)'
  PROVE  TasksInv'
<1>1. ASSUME NEW u \in Tasks PROVE TaskOK(u)'
  <2>1. TaskOK(u) BY Zenon DEF TasksInv
  <2>2. pc[x] \notin {"x_flags", "p_sleep", "recheck"} BY GuardedLabels, Zenon DEF BusyLabels
  <2>3. \A y \in Threads \ {x} : pc'[y] = pc[y] /\ Task(y)' = Task(y) BY Zenon DEF Moves, Task
  <2>4. /\ AtTask("x_flags", u) => AtTask("x_flags", u)'
        /\ AtTask("p_sleep", u) => AtTask("p_sleep", u)'
        /\ AtTask("recheck", u) => AtTask("recheck", u)'
    BY <2>2, <2>3, Zenon DEF AtTask
  <2>5. /\ (InList(u, paused_queue)' <=> InList(u, paused_queue))
        /\ (InList(u, sleeping_queue)' <=> InList(u, sleeping_queue))
    BY Zenon DEF InList
  <2> QED BY <2>1, <2>4, <2>5, SMT, Z3 DEF TaskOK
<1>2. ASSUME NEW y \in Threads, y # x PROVE ThreadOK(y)'
  <2>1. ThreadOK(y) /\ pc'[y] = pc[y] /\ loc'[y] = loc[y] /\ Task(y)' = Task(y) BY <1>2, Zenon DEF TasksInv, Moves, Task
  <2>2. CASE pc[y] \in BusyLabels \cup {"renew"}
    <3>1. Task(y) \in Tasks BY <2>2, BusyTask, Zenon
    <3>2. /\ (InList(Task(y), paused_queue)' <=> InList(Task(y), paused_queue))
          /\ (InList(Task(y), sleeping_queue)' <=> InList(Task(y), sleeping_queue))
      BY <2>1, Zenon DEF InList
    <3> QED BY <2>1, <3>1, <3>2, SMT, Z3 DEF ThreadOK
  <2>3. CASE pc[y] \notin BusyLabels \cup {"renew"} BY <2>1, <2>3, GuardedLabels, Zenon DEF ThreadOK
  <2> QED BY <2>2, <2>3, Zenon
<1>3. Once(paused_queue)' /\ Once(sleeping_queue)' /\ Sorted(sleeping_queue, effective_deadline)'
  BY Zenon DEF TasksInv, Once, Sorted
<1> QED BY <1>1, <1>2, <1>3, Zenon DEF TasksInv

\* Another deadline for a task that is not in the list.
LEMMA SortedStill ==
  ASSUME NEW list \in Seq(Tasks), NEW t \in Tasks, ~InList(t, list), NEW e \in [Tasks -> Int], Sorted(list, e),
         NEW d, NEW f, f = [e EXCEPT ![t] = d]
  PROVE  Sorted(list, f)
<1>1. \A i \in DOMAIN list : list[i] # t /\ list[i] \in Tasks BY SMT, Z3 DEF InList
<1>2. \A i \in DOMAIN list : f[list[i]] = e[list[i]] BY <1>1, Zenon
<1> QED BY <1>2, Zenon DEF Sorted

\* What cancel_task_() and reschedule_task_() do to the lists.
LEMMA Relisted ==
  ASSUME FirstExists, TypeOK, TasksInv, NEW t \in Tasks, NEW d \in Int, NEW v,
         (d = -1 /\ CancelTask(t, v)) \/ (d >= 0 /\ RescheduleTask(t, d, v))
  PROVE  /\ Once(paused_queue)' /\ Once(sleeping_queue)' /\ Sorted(sleeping_queue, effective_deadline)'
         /\ ~InList(t, paused_queue)' /\ (InList(t, sleeping_queue)' <=> d > 0)
         /\ effective_deadline'[t] = d
         /\ \A u \in Tasks \ {t} : /\ effective_deadline'[u] = effective_deadline[u]
                                   /\ InList(u, paused_queue)' <=> InList(u, paused_queue)
                                   /\ InList(u, sleeping_queue)' <=> InList(u, sleeping_queue)
<1> DEFINE p == Without(t, paused_queue)
           s == Without(t, sleeping_queue)
<1>1. /\ effective_deadline \in [Tasks -> Int] /\ paused_queue \in Seq(Tasks) /\ sleeping_queue \in Seq(Tasks)
      /\ Once(paused_queue) /\ Once(sleeping_queue) /\ Sorted(sleeping_queue, effective_deadline)
  BY Zenon DEF TypeOK, DataOK, TasksInv
<1>2. /\ Once(p) /\ \A u : InList(u, p) <=> InList(u, paused_queue) /\ u # t
  BY <1>1, WithoutList, Zenon
<1>3. /\ s \in Seq(Tasks) /\ Once(s) /\ Sorted(s, effective_deadline)
      /\ \A u : InList(u, s) <=> InList(u, sleeping_queue) /\ u # t
  BY <1>1, WithoutList, Zenon
<1>4. /\ paused_queue' = p /\ effective_deadline' = [effective_deadline EXCEPT ![t] = d]
      /\ d <= 0 => sleeping_queue' = s
      /\ d > 0 => sleeping_queue' = InsertSleeping(t, d, s)
  <2>1. CASE d = -1 /\ CancelTask(t, v) BY <2>1, SMT, Z3 DEF CancelTask
  <2>2. CASE d >= 0 /\ RescheduleTask(t, d, v) BY <2>2, SMT, Z3 DEF RescheduleTask
  <2> QED BY <2>1, <2>2, Zenon
<1> HIDE DEF p, s
<1>5. /\ effective_deadline'[t] = d
      /\ \A u \in Tasks \ {t} : effective_deadline'[u] = effective_deadline[u]
  BY <1>1, <1>4, Zenon
<1>6. Once(paused_queue)' /\ \A u : InList(u, paused_queue)' <=> InList(u, paused_queue) /\ u # t
  BY <1>2, <1>4, Zenon DEF Once, InList
<1>7. CASE d <= 0
  <2>1. Sorted(s, effective_deadline')  BY <1>1, <1>3, <1>4, SortedStill, Zenon
  <2>2. Once(sleeping_queue)' /\ Sorted(sleeping_queue, effective_deadline)'
    BY <1>3, <1>4, <1>7, <2>1, Zenon DEF Once, Sorted
  <2>3. \A u : InList(u, sleeping_queue)' <=> InList(u, sleeping_queue) /\ u # t
    BY <1>3, <1>4, <1>7, Zenon DEF InList
  <2> QED BY <1>5, <1>6, <1>7, <2>2, <2>3, SMT, Z3
<1>8. CASE d > 0
  <2> DEFINE q == InsertSleeping(t, d, s)
  <2>1. ~InList(t, s) BY <1>3, Zenon
  <2>2. Once(q) /\ Sorted(q, effective_deadline') /\ \A u : InList(u, q) <=> InList(u, s) \/ u = t
    BY <1>1, <1>3, <1>4, <2>1, InsertList, Zenon
  <2>3. sleeping_queue' = q BY <1>4, <1>8, Zenon
  <2> HIDE DEF q
  <2>4. Once(sleeping_queue)' /\ Sorted(sleeping_queue, effective_deadline)' BY <2>2, <2>3, Zenon DEF Once, Sorted
  <2>5. \A u : InList(u, sleeping_queue)' <=> InList(u, sleeping_queue) \/ u = t
    BY <1>3, <2>2, <2>3, Zenon DEF InList
  <2> QED BY <1>5, <1>6, <1>8, <2>4, <2>5
<1> QED BY <1>7, <1>8, SMT, Z3

\* The calls of the users and the steps of wait().
LEMMA CallTasks ==
  ASSUME TypeOK, TasksInv, NEW x \in Users,
         \/ WaitStep(x) \/ Stop(x)
         \/ \E t \in Tasks : Schedule(x, t) \/ AsyncCancel(x, t) \/ Resume(x, t) \/ Wait(x, t)
  PROVE  TasksInv'
<1> USE DEF atomics, misc, lists, effective
<1>1. x \in Threads /\ ControlOK /\ flags \in [Tasks -> SUBSET Flags] /\ operation \in [Tasks -> {"none", "running", "done"}]
  BY Zenon DEF Threads, TypeOK, DataOK
<1>2. /\ UNCHANGED <<panic, paused_queue, sleeping_queue, effective_deadline, state>>
      /\ UNCHANGED <<flags, operation>> \/ \E t \in Tasks : Resume(x, t)
  BY Zenon DEF WaitStep, WaitAttach, WaitSpin, WaitReadState, WaitReadSem, WaitSem, WaitEnd, Stop, Schedule,
     AsyncCancel, Renew, Resume, Wait
<1>3. \A u \in Tasks : /\ flags'[u] = flags[u] \/ flags'[u] = flags[u] \cup {"Resumed"}
                       /\ operation'[u] = operation[u] \/ operation'[u] = "done"
  <2>1. ASSUME NEW t \in Tasks, Resume(x, t), NEW u \in Tasks
        PROVE  /\ flags'[u] = flags[u] \/ flags'[u] = flags[u] \cup {"Resumed"}
               /\ operation'[u] = operation[u] \/ operation'[u] = "done"
    <3>1. flags' = [flags EXCEPT ![t] = @ \cup {"Resumed"}] /\ operation' = [operation EXCEPT ![t] = "done"]
      BY <2>1, Zenon DEF Resume
    <3> QED BY <1>1, <3>1, Zenon
  <2> QED BY <1>2, <2>1, Zenon
<1>4. pc[x] \in {"idle", "w_attach", "w_spin", "w_state", "w_pointer", "w_sem", "w_end"}
  BY CallEdges, WaitEdges, Zenon DEF WaitStep
<1>5. \/ UNCHANGED <<pc, loc>>
      \/ /\ Moves(x)
         /\ pc'[x] \in {"idle", "store", "exchange", "w_attach", "set", "w_spin", "w_state", "w_pointer", "w_sem", "w_end"}
  BY CallEdges, WaitEdges, Zenon DEF WaitStep, Works
<1>6. Moves(x) BY <1>1, <1>5, Zenon DEF Moves, ControlOK
<1>7. pc'[x] \notin BusyLabels \cup {"renew"} /\ pc[x] \notin CriticalLabels
  BY <1>4, <1>5, CriticalSet, Zenon DEF BusyLabels
<1>8. ThreadOK(x)' BY <1>7, ThreadLeaves, Zenon
<1> QED BY <1>1, <1>2, <1>3, <1>6, <1>7, <1>8, TasksOutside, Zenon

\* The steps of a request that leave the lists alone.
LEMMA RequestTasks ==
  ASSUME TypeOK, LockInv, TasksInv, NEW x \in Users, RenewStep(x), ~RenewInplace(x)
  PROVE  TasksInv'
<1> USE DEF atomics, misc, lists, effective
<1>1. x \in Threads /\ ControlOK /\ state \in [Tasks -> States] BY Zenon DEF Threads, TypeOK, DataOK
<1>2. /\ UNCHANGED <<panic, paused_queue, sleeping_queue, effective_deadline, flags, operation>>
      /\ state' = state \/ state' = [state EXCEPT ![Task(x)] = "Ready"]
  BY Zenon DEF RenewStep, RenewStore, RenewPaused, RenewCancel, ExchangeReady, CommitSize, Push, Link,
     RequestSet, TrySet, Commit, Return, TryLock, UnlockPush, RenewedInplace
<1>3. \A u \in Tasks : /\ flags'[u] = flags[u] /\ operation'[u] = operation[u]
                       /\ state'[u] = state[u] \/ state'[u] = "Ready"
  BY <1>1, <1>2, Zenon
<1>4. loc[x].ret \in {"unguard", "return", "join"}
  BY <1>1, ThreadsAssumption, Zenon DEF ControlOK, LocalsOK, UserLocals
<1>5. CASE UnlockPush(x) \/ RenewedInplace(x)
  <2>1. Moves(x) /\ pc[x] \in {"unlock_push", "dec"} /\ pc'[x] \in {"push", "update"}
    BY <1>5, RequestEdges, Zenon DEF Works
  <2>2. /\ pc[x] \in CriticalLabels /\ pc[x] \notin {"x_flags", "p_sleep", "recheck"}
        /\ pc'[x] \notin BusyLabels \cup {"renew"}
    BY <2>1, CriticalSet, Zenon DEF BusyLabels
  <2>3. ThreadOK(x)' BY <2>2, ThreadLeaves, Zenon
  <2>4. state' = state BY <1>5, Zenon DEF UnlockPush, RenewedInplace
  <2>5. panic' \in {"none", "cancelled"} BY <1>2, Zenon DEF TasksInv
  <2> QED BY <1>1, <1>2, <2>1, <2>2, <2>3, <2>4, <2>5, TasksSame, Zenon
<1>6. CASE TryLock(x)
  <2>1. Moves(x) /\ pc[x] = "trylock" /\ pc'[x] \in {"renew", "unlock_push", "push"}
    BY <1>6, RequestEdges, Zenon
  <2>2. pc[x] \notin CriticalLabels BY <2>1, CriticalSet, Zenon
  <2>3. ThreadOK(x)'
    <3>1. CASE pc'[x] # "renew"
      <4>1. pc'[x] \notin BusyLabels \cup {"renew"} BY <2>1, <3>1, Zenon DEF BusyLabels
      <4> QED BY <4>1, ThreadLeaves, Zenon
    <3>2. CASE pc'[x] = "renew"
      <4>1. /\ loc' = [loc EXCEPT ![x].flags = flags[Task(x)]]
            /\ Goto(x, IF CanRenew(x) THEN "renew" ELSE "unlock_push")
        <5>1. ~Goto(x, "push") BY <1>1, <3>2, Zenon DEF Goto, ControlOK
        <5> QED BY <1>6, <5>1, Zenon DEF TryLock
      <4>2. CanRenew(x) BY <1>1, <3>2, <4>1, Zenon DEF Goto, ControlOK
      <4>3. /\ loc'[x].flags = flags[Task(x)] /\ loc'[x].deadline = loc[x].deadline /\ Task(x)' = Task(x)
        BY <1>1, <4>1, Zenon DEF ControlOK, Locals, Task
      <4>4. loc[x].deadline \in Int BY <1>1, LocalsTyped, Zenon
      <4>5. loc'[x].deadline >= 0 => "Paused" \notin flags[Task(x)] BY <4>2, <4>3, <4>4, SMT, Z3 DEF CanRenew
      <4>6. pc'[x] \notin BusyLabels /\ pc'[x] \notin {"exec", "run", "pause", "p_sleep"} BY <3>2, Zenon DEF BusyLabels
      <4> QED BY <1>2, <4>3, <4>5, <4>6, Zenon DEF ThreadOK
    <3> QED BY <3>1, <3>2, Zenon
  <2> QED BY <1>1, <1>2, <1>3, <2>1, <2>2, <2>3, TasksOutside, Zenon
<1>7. CASE ~(UnlockPush(x) \/ RenewedInplace(x) \/ TryLock(x))
  <2>1. /\ Moves(x)
        /\ pc[x] \in {"store", "cancel", "paused", "exchange", "size", "push", "link", "set", "commit",
                      "unguard", "return"}
        /\ pc'[x] \in {"idle", "cancel", "paused", "exchange", "size", "trylock", "push", "link", "set",
                       "commit", "unguard", "return", "join"}
    BY <1>4, <1>7, RequestEdges, Zenon DEF Works, RenewStep
  <2>2. pc[x] \notin CriticalLabels /\ pc'[x] \notin BusyLabels \cup {"renew"} BY <2>1, CriticalSet, Zenon DEF BusyLabels
  <2>3. ThreadOK(x)' BY <2>2, ThreadLeaves, Zenon
  <2> QED BY <1>1, <1>2, <1>3, <2>1, <2>2, <2>3, TasksOutside, Zenon
<1> QED BY <1>5, <1>6, <1>7, Zenon

\* try_renew_inplace_(): the task is ready, so that only cancel_task_() may panic.
LEMMA InplaceTasks ==
  ASSUME FirstExists, TypeOK, LockInv, ReadyInv, TasksInv, NEW x \in Users, RenewInplace(x)
  PROVE  TasksInv'
<1> USE DEF atomics, lists, effective
<1>0. PICK t : t = Task(x) BY Zenon
<1> USE <1>0
<1>1. /\ x \in Threads /\ ControlOK /\ state \in [Tasks -> States] /\ loc[x].deadline \in Int
  BY LocalsTyped, Zenon DEF Threads, TypeOK, DataOK
<1>2. /\ Works(x) /\ Moves(x) /\ pc[x] = "renew" /\ pc'[x] \in {"renew", "x_flags", "dec"}
  BY RequestEdges, Zenon DEF Works
<1>3. t \in Tasks /\ pc[x] \in CriticalLabels BY <1>1, <1>2, UserTask, CriticalSet, Zenon
<1>4. state[t] = "Ready"
  <2>1. Holds(x, t) BY <1>2, Zenon DEF Holds, HoldLabels
  <2> QED BY <1>1, <1>3, <2>1, Zenon DEF ReadyInv
<1>5. ThreadOK(x) /\ TaskOK(t) /\ pc[x] \notin {"x_flags", "p_sleep", "recheck"} BY <1>1, <1>2, <1>3, Zenon DEF TasksInv
<1>6. flags' = flags /\ operation' = operation BY Zenon DEF RenewInplace
<1>7. CASE CancelledTwice(x)
  <2>1. panic' = "cancelled" /\ UNCHANGED <<pc, loc, state, effective_deadline, sleeping_queue, paused_queue>>
    BY <1>4, <1>7, Zenon DEF RenewInplace, Panic
  <2>2. ThreadOK(x)' BY <1>5, <1>6, <2>1, Zenon DEF ThreadOK, InList, Task
  <2>3. panic' \in {"none", "cancelled"} BY <2>1, Zenon
  <2> QED BY <1>1, <1>2, <1>3, <1>5, <1>6, <2>1, <2>2, <2>3, TasksSame, Zenon
<1>8. CASE ~CancelledTwice(x)
  <2>1. /\ state' = [state EXCEPT ![t] = NewState(loc[x].flags, loc[x].deadline)]
        /\ IF loc[x].deadline < 0 THEN CancelTask(t, loc[x].version)
           ELSE RescheduleTask(t, loc[x].deadline, loc[x].version)
        /\ Goto(x, IF loc[x].deadline < 0 THEN "x_flags" ELSE "dec")
        /\ panic' = panic
    BY <1>4, <1>8, Zenon DEF RenewInplace
  <2> DEFINE d == IF loc[x].deadline < 0 THEN -1 ELSE loc[x].deadline
  <2>2. d \in Int /\ ((d = -1 /\ CancelTask(t, loc[x].version)) \/ (d >= 0 /\ RescheduleTask(t, d, loc[x].version)))
    BY <1>1, <2>1, SMT, Z3
  <2>3. /\ Once(paused_queue)' /\ Once(sleeping_queue)' /\ Sorted(sleeping_queue, effective_deadline)'
        /\ ~InList(t, paused_queue)' /\ (InList(t, sleeping_queue)' <=> d > 0)
        /\ effective_deadline'[t] = d
        /\ \A u \in Tasks \ {t} : /\ effective_deadline'[u] = effective_deadline[u]
                                  /\ InList(u, paused_queue)' <=> InList(u, paused_queue)
                                  /\ InList(u, sleeping_queue)' <=> InList(u, sleeping_queue)
    <3> HIDE DEF d
    <3> QED BY <1>3, <2>2, Relisted, Zenon
  <2>4. \A u \in Tasks \ {t} : SameTask(u) BY <1>1, <1>3, <1>6, <2>1, <2>3, Zenon DEF SameTask
  <2>5. state'[t] = NewState(loc[x].flags, loc[x].deadline) BY <1>1, <1>3, <2>1, Zenon
  <2>6. Task(x)' = t BY <1>2, Zenon DEF Works, Task
  <2>7. TaskOK(t)' /\ ThreadOK(x)'
    <3>1. CASE loc[x].deadline < 0
      <4>1. pc'[x] = "x_flags" BY <1>1, <2>1, <3>1, Zenon DEF Goto, ControlOK
      <4>2. AtTask("x_flags", t)' BY <1>1, <2>6, <4>1, Zenon DEF AtTask
      <4>3. state'[t] = "Cancelling" BY <1>1, <2>5, <3>1, SMT, Z3 DEF NewState
      <4>4. ~InList(t, sleeping_queue)' BY <2>3, <3>1, SMT, Z3
      <4>5. TaskOK(t)' BY <1>5, <1>6, <4>2, <4>3, <4>4, Zenon DEF TaskOK
      <4>6. ThreadOK(x)' BY <2>6, <4>1, <4>4, Zenon DEF ThreadOK
      <4> QED BY <4>5, <4>6, Zenon
    <3>2. CASE loc[x].deadline >= 0
      <4>1. pc'[x] = "dec" BY <1>1, <2>1, <3>2, SMT, Z3 DEF Goto, ControlOK
      <4>2. "Paused" \notin flags[t] /\ "Paused" \notin loc[x].flags BY <1>2, <1>5, <3>2, Zenon DEF ThreadOK
      <4>3. state'[t] = IF loc[x].deadline = 0 THEN "Processing" ELSE "Sleeping"
        BY <1>1, <2>5, <3>2, <4>2, SMT, Z3 DEF NewState
      <4>4. InList(t, sleeping_queue)' => effective_deadline'[t] > 0 /\ ~InList(t, paused_queue)'
        BY <2>3, Zenon
      <4>5. state'[t] = "Sleeping" => InList(t, sleeping_queue)' BY <1>1, <2>3, <3>2, <4>3, SMT, Z3
      <4>6. TaskOK(t)' BY <1>5, <1>6, <4>2, <4>3, <4>4, <4>5, Zenon DEF TaskOK
      <4>7. pc'[x] \notin BusyLabels \cup {"renew"} BY <4>1, Zenon DEF BusyLabels
      <4> QED BY <4>6, <4>7, ThreadLeaves, Zenon
    <3> QED BY <1>1, <3>1, <3>2, SMT, Z3
  <2>8. panic' \in {"none", "cancelled"} BY <2>1, Zenon DEF TasksInv
  <2> QED BY <1>1, <1>2, <1>3, <1>5, <2>3, <2>4, <2>7, <2>8, TasksInside, Zenon
<1> QED BY <1>7, <1>8, Zenon

\* The steps that the users and the event loop thread share.
LEMMA SharedTasks ==
  ASSUME TypeOK, LockInv, StageInv, TasksInv, NEW x \in Threads, SharedStep(x)
  PROVE  TasksInv'
<1> USE DEF atomics, misc, lists, effective
<1>0. PICK t : t = Task(x) BY Zenon
<1> USE <1>0
<1>1. /\ InStage(x) /\ ThreadOK(x) /\ state \in [Tasks -> States] /\ flags \in [Tasks -> SUBSET Flags]
  BY Zenon DEF StageInv, TasksInv, TypeOK, DataOK
<1>2. /\ UNCHANGED <<operation, effective_deadline, paused_queue, sleeping_queue>>
      /\ panic' = panic
  BY Zenon DEF SharedStep, UpdateWakeup, UpdateSet, TrySet, Commit, UpdateCheck, Unlock, CancelFlags,
     CompleteStart, CompleteTakeSem, CompleteDone, CompletePost
<1>3. /\ Once(paused_queue)' /\ Once(sleeping_queue)' /\ Sorted(sleeping_queue, effective_deadline)'
      /\ panic' \in {"none", "cancelled"}
  BY <1>2, Zenon DEF TasksInv, Once, Sorted
<1>4. CASE \/ UpdateWakeup(x) \/ UpdateSet(x) \/ UpdateCheck(x) \/ Unlock(x) \/ CompleteTakeSem(x)
           \/ CompletePost(x)
  <2>1. /\ Moves(x) /\ pc[x] \in {"update", "u_set", "u_commit", "u_check", "unlock", "c_sem", "c_post"}
        /\ pc'[x] \in {"u_set", "u_commit", "u_check", "unlock", "unguard", "stopped", "wait", "pop", "sleep",
                       "reborn", "dec", "c_done"}
        /\ pc'[x] = "c_done" => pc[x] = "c_sem" /\ Task(x)' = t
    BY <1>4, SharedEdges, Zenon DEF Works, KeepsCall, Task
  <2>2. flags' = flags /\ state' = state
    BY <1>4, Zenon DEF UpdateWakeup, UpdateSet, TrySet, Commit, UpdateCheck, Unlock, CompleteTakeSem, CompletePost
  <2>3. pc[x] \in CriticalLabels /\ pc[x] \notin {"x_flags", "p_sleep", "recheck"} BY <2>1, CriticalSet, Zenon
  <2>4. ThreadOK(x)'
    <3>1. CASE pc'[x] = "c_done" BY <1>1, <1>2, <2>1, <3>1, Zenon DEF ThreadOK, BusyLabels, InList
    <3>2. CASE pc'[x] # "c_done"
      <4>1. pc'[x] \notin BusyLabels \cup {"renew"} BY <2>1, <3>2, Zenon DEF BusyLabels
      <4> QED BY <4>1, ThreadLeaves, Zenon
    <3> QED BY <3>1, <3>2, Zenon
  <2> QED BY <1>2, <1>3, <2>1, <2>2, <2>3, <2>4, TasksSame, Zenon
<1>5. CASE CancelFlags(x) \/ CompleteStart(x) \/ CompleteDone(x)
  <2>1. /\ Moves(x) /\ KeepsCall(x) /\ pc[x] \in {"x_flags", "c_start", "c_done"}
        /\ pc'[x] \in {"c_start", "c_sem", "c_post"}
        /\ CancelFlags(x) => pc[x] = "x_flags"
        /\ CompleteStart(x) => pc[x] = "c_start"
        /\ CompleteDone(x) => pc[x] = "c_done"
    BY <1>5, SharedEdges, Zenon DEF Works, KeepsCall
  <2>2. Task(x)' = t BY <2>1, Zenon DEF KeepsCall, Task
  <2>3. pc[x] \in BusyLabels /\ pc[x] \in CriticalLabels BY <2>1, CriticalSet, Zenon DEF BusyLabels
  <2>4. t \in Tasks BY <2>3, BusyTask, Zenon
  <2>5. ~InList(t, sleeping_queue) /\ ~InList(t, sleeping_queue)' /\ TaskOK(t)
    BY <1>1, <1>2, <2>3, <2>4, Zenon DEF ThreadOK, TasksInv, InList
  <2>6. /\ flags' = flags \/ flags' = [flags EXCEPT ![t] = {"Cancelled"}]
        /\ state' = state \/ state' = [state EXCEPT ![t] = "Completing"] \/ state' = [state EXCEPT ![t] = "Completed"]
        /\ ~CancelFlags(x) => flags' = flags
        /\ CancelFlags(x) => flags' = [flags EXCEPT ![t] = {"Cancelled"}]
    BY <1>5, <2>1, Zenon DEF CancelFlags, CompleteStart, CompleteDone
  <2>7. state'[t] # "Sleeping"
    <3>1. state[t] # "Sleeping"
      <4>1. CASE pc[x] = "c_start"
        <5>1. loc[x].from \in {"Processing", "Cancelling"}
          <6>1. CASE x = Loop BY <4>1, <6>1, Zenon DEF TypeOK, ControlOK, LocalsOK, LoopLocals, CompleteLabels
          <6>2. CASE x # Loop BY <4>1, <6>2, Zenon DEF TypeOK, ControlOK, LocalsOK, UserLocals, CompleteLabels
          <6> QED BY <6>1, <6>2, Zenon
        <5> QED BY <1>1, <4>1, <5>1, Zenon DEF InStage
      <4>2. CASE pc[x] # "c_start" BY <1>1, <2>1, <4>2, Zenon DEF InStage
      <4> QED BY <4>1, <4>2, Zenon
    <3> QED BY <1>1, <2>4, <2>6, <3>1, Zenon
  <2>8. \A u \in Tasks \ {t} : SameTask(u) BY <1>1, <1>2, <2>4, <2>6, Zenon DEF SameTask, InList
  <2>9. TaskOK(t)'
    <3>1. CASE CancelFlags(x)
      <4>1. flags'[t] = {"Cancelled"} BY <1>1, <2>4, <2>6, <3>1, Zenon
      <4> QED BY <2>5, <2>7, <4>1, Zenon DEF TaskOK
    <3>2. CASE ~CancelFlags(x)
      <4>1. ~AtTask("x_flags", t) /\ ~AtTask("p_sleep", t)
        <5>1. pc[x] \in {"c_start", "c_done"} BY <1>5, <2>1, <3>2, Zenon
        <5>2. \A y \in Threads : pc[y] \in CriticalLabels => y = x BY <2>3, OneInside, Zenon
        <5> QED BY <5>1, <5>2, CriticalSet, Zenon DEF AtTask
      <4>2. InList(t, paused_queue)' <=> InList(t, paused_queue) BY <1>2, Zenon DEF InList
      <4> QED BY <1>2, <2>5, <2>6, <2>7, <3>2, <4>1, <4>2, ZenonT(30) DEF TaskOK
    <3> QED BY <3>1, <3>2, Zenon
  <2>10. ThreadOK(x)'
    <3>1. pc'[x] \notin {"exec", "run", "pause", "p_sleep"} /\ pc'[x] # "renew" BY <2>1, Zenon
    <3> QED BY <2>2, <2>5, <3>1, Zenon DEF ThreadOK
  <2> QED BY <1>3, <2>1, <2>3, <2>8, <2>9, <2>10, TasksInside, Zenon
<1> QED BY <1>4, <1>5, Zenon DEF SharedStep

\* The first task is taken off a list.
LEMMA TailList ==
  ASSUME NEW list \in Seq(Tasks), list # <<>>, NEW e, Once(list), Sorted(list, e)
  PROVE  /\ Once(Tail(list)) /\ Sorted(Tail(list), e) /\ Head(list) \in Tasks /\ InList(Head(list), list)
         /\ \A u : InList(u, Tail(list)) <=> InList(u, list) /\ u # Head(list)
<1>1. /\ Len(list) \in Nat \ {0} /\ DOMAIN list = 1..Len(list) /\ DOMAIN Tail(list) = 1..(Len(list) - 1)
      /\ \A i \in 1..(Len(list) - 1) : Tail(list)[i] = list[i + 1]
      /\ Head(list) = list[1] /\ Head(list) \in Tasks
  BY SMT, Z3
<1>2. Once(Tail(list)) /\ Sorted(Tail(list), e)
  <2>1. ASSUME NEW i \in 1..(Len(list) - 1), NEW j \in 1..(Len(list) - 1)
        PROVE  /\ Tail(list)[i] = Tail(list)[j] => i = j
               /\ i < j => e[Tail(list)[i]] <= e[Tail(list)[j]]
    <3>1. /\ i + 1 \in DOMAIN list /\ j + 1 \in DOMAIN list
          /\ Tail(list)[i] = list[i + 1] /\ Tail(list)[j] = list[j + 1]
          /\ (i + 1 = j + 1 => i = j) /\ (i < j => i + 1 < j + 1)
      BY <1>1, SMT, Z3
    <3> QED BY <3>1, Zenon DEF Once, Sorted
  <2> QED BY <1>1, <2>1, Zenon DEF Once, Sorted
<1>3. InList(Head(list), list) BY <1>1, SMT, Z3 DEF InList
<1>4. ASSUME NEW u PROVE InList(u, Tail(list)) <=> InList(u, list) /\ u # Head(list)
  <2>1. ASSUME InList(u, Tail(list)) PROVE InList(u, list) /\ u # Head(list)
    <3>1. PICK i \in 1..(Len(list) - 1) : list[i + 1] = u BY <1>1, <2>1, Zenon DEF InList
    <3>2. i + 1 \in DOMAIN list /\ 1 \in DOMAIN list /\ i + 1 # 1 BY <1>1, <3>1, SMT, Z3
    <3> QED BY <1>1, <3>1, <3>2, Zenon DEF InList, Once
  <2>2. ASSUME InList(u, list), u # Head(list) PROVE InList(u, Tail(list))
    <3>1. PICK i \in 1..Len(list) : list[i] = u BY <1>1, <2>2, Zenon DEF InList
    <3>2. i # 1 BY <1>1, <2>2, <3>1, Zenon
    <3>3. i - 1 \in 1..(Len(list) - 1) /\ (i - 1) + 1 = i BY <1>1, <3>1, <3>2, SMT, Z3
    <3>4. Tail(list)[i - 1] = u BY <1>1, <3>1, <3>3, Zenon
    <3> QED BY <1>1, <3>3, <3>4, Zenon DEF InList
  <2> QED BY <2>1, <2>2, Zenon
<1> QED BY <1>1, <1>2, <1>3, <1>4, Zenon

\* A task is appended to a list it is not in.
LEMMA AppendList ==
  ASSUME NEW list \in Seq(Tasks), NEW t \in Tasks, ~InList(t, list), Once(list)
  PROVE  Once(Append(list, t)) /\ \A u : InList(u, Append(list, t)) <=> InList(u, list) \/ u = t
<1>1. /\ Len(list) \in Nat /\ DOMAIN list = 1..Len(list) /\ DOMAIN Append(list, t) = 1..(Len(list) + 1)
      /\ \A i \in 1..Len(list) : Append(list, t)[i] = list[i]
      /\ Append(list, t)[Len(list) + 1] = t
  BY SMT, Z3
<1>2. \A i \in 1..Len(list) : list[i] # t BY <1>1, Zenon DEF InList
<1>3. Once(Append(list, t)) BY <1>1, <1>2, SMT, Z3 DEF Once
<1>4. \A u : InList(u, Append(list, t)) <=> InList(u, list) \/ u = t BY <1>1, SMT, Z3 DEF InList
<1> QED BY <1>3, <1>4, Zenon

\* Nobody but the thread that has the lock is at a place the lock protects.
LEMMA AtInside ==
  ASSUME LockInv, NEW x \in Threads, pc[x] \in CriticalLabels, NEW l \in CriticalLabels, NEW u, AtTask(l, u)
  PROVE  pc[x] = l /\ Task(x) = u
<1>1. PICK y \in Threads : pc[y] = l /\ Task(y) = u BY Zenon DEF AtTask
<1>2. y = x BY <1>1, OneInside, Zenon
<1> QED BY <1>1, <1>2, Zenon

\* The steps of the event loop thread that change no task.
LEMMA LoopSame ==
  ASSUME TypeOK, LockInv, TasksInv,
         LoopWake \/ LoopLock \/ FetchPop \/ FetchLoad \/ PauseCheck \/ CheckRenewed
  PROVE  TasksInv'
<1> USE DEF atomics, misc, lists, effective
<1>1. UNCHANGED <<panic, flags, operation, state, effective_deadline, paused_queue, sleeping_queue>>
  BY Zenon DEF LoopWake, LoopLock, FetchPop, FetchLoad, PauseCheck, CheckRenewed
<1>2. /\ Loop \in Threads /\ ThreadOK(Loop) /\ panic' \in {"none", "cancelled"} BY <1>1, Zenon DEF Threads, TasksInv
<1>3. /\ Moves(Loop) /\ pc[Loop] \in {"wait", "lock", "pop", "load", "p_check", "renewed"}
      /\ pc'[Loop] \in {"lock", "pop", "sleep", "update", "load", "newstate", "reborn", "c_start"}
      /\ pc'[Loop] = "c_start" => pc[Loop] = "renewed" /\ Task(Loop)' = Task(Loop)
  BY LoopEdges, ExecuteMoves, Zenon DEF Works, Task
<1>4. ThreadOK(Loop)'
  <2>1. CASE pc'[Loop] = "c_start" BY <1>1, <1>2, <1>3, <2>1, Zenon DEF ThreadOK, BusyLabels, InList
  <2>2. CASE pc'[Loop] # "c_start"
    <3>1. pc'[Loop] \notin BusyLabels \cup {"renew"} BY <1>3, <2>2, Zenon DEF BusyLabels
    <3> QED BY <3>1, ThreadLeaves, Zenon
  <2> QED BY <2>1, <2>2, Zenon
<1>5. CASE pc[Loop] \in CriticalLabels
  <2>1. pc[Loop] \notin {"x_flags", "p_sleep", "recheck"} BY <1>3, Zenon
  <2> QED BY <1>1, <1>2, <1>3, <1>4, <1>5, <2>1, TasksSame, Zenon
<1>6. CASE pc[Loop] \notin CriticalLabels
  <2>1. \A u \in Tasks : flags'[u] = flags[u] /\ operation'[u] = operation[u] /\ state'[u] = state[u] BY <1>1, Zenon
  <2> QED BY <1>1, <1>2, <1>3, <1>4, <1>6, <2>1, TasksOutside, Zenon
<1> QED BY <1>5, <1>6, Zenon

\* The event loop thread moves a task to another state, or panics because the
\* task is cancelled again.
LEMMA LoopStates ==
  ASSUME TypeOK, LockInv, ReadyInv, StageInv, TasksInv,
         FetchNewState \/ FetchAgain \/ FetchPanic \/ RebornTask
  PROVE  TasksInv'
<1> USE DEF atomics, misc, lists, effective
<1>0. PICK t : t = Task(Loop) BY Zenon
<1> USE <1>0
<1>1. /\ Loop \in Threads /\ ControlOK /\ state \in [Tasks -> States] /\ InStage(Loop) /\ panic \in {"none", "cancelled"}
  BY Zenon DEF Threads, TypeOK, DataOK, StageInv, TasksInv
<1>2. /\ Moves(Loop) /\ pc[Loop] \in {"newstate", "recheck", "reborn"}
      /\ pc'[Loop] \in {"newstate", "recheck", "pop", "sleep"}
      /\ FetchNewState => pc[Loop] = "newstate" /\ Task(Loop)' = t
      /\ FetchAgain => pc[Loop] = "recheck"
      /\ FetchPanic => pc[Loop] = "recheck" /\ pc'[Loop] = "recheck" /\ Task(Loop)' = t
      /\ RebornTask => pc[Loop] = "reborn"
  BY LoopEdges, ExecuteMoves, Zenon DEF Works, Task
<1>3. pc[Loop] \in CriticalLabels /\ t \in Tasks BY <1>1, <1>2, CriticalSet, LoopTask, Zenon
<1>4. TaskOK(t) BY <1>3, Zenon DEF TasksInv
<1>5. ThreadOK(Loop)'
  <2>1. pc'[Loop] \notin BusyLabels \cup {"renew"} BY <1>2, Zenon DEF BusyLabels
  <2> QED BY <2>1, ThreadLeaves, Zenon
<1>6. UNCHANGED <<flags, operation, effective_deadline, paused_queue, sleeping_queue>>
  BY Zenon DEF FetchNewState, FetchAgain, FetchPanic, RebornTask
<1>7. /\ Once(paused_queue)' /\ Once(sleeping_queue)' /\ Sorted(sleeping_queue, effective_deadline)'
      /\ (InList(t, paused_queue)' <=> InList(t, paused_queue))
      /\ (InList(t, sleeping_queue)' <=> InList(t, sleeping_queue))
  BY <1>6, Zenon DEF TasksInv, Once, Sorted, InList
<1>8. /\ panic' \in {"none", "cancelled"} /\ \A u \in Tasks \ {t} : state'[u] = state[u]
      /\ \/ state'[t] = "Ready"
         \/ state'[t] # "Completed" /\ AtTask("recheck", t)'
         \/ state'[t] = state[t] /\ (AtTask("recheck", t) => AtTask("recheck", t)')
  <2>1. CASE FetchNewState
    <3>1. Holds(Loop, t) BY <1>2, <2>1, Zenon DEF Holds, HoldLabels
    <3>2. state[t] = "Ready" BY <1>1, <1>3, <3>1, Zenon DEF ReadyInv
    <3>3. /\ state' = [state EXCEPT ![t] = NewState(loc[Loop].flags, loc[Loop].deadline)]
          /\ Goto(Loop, "recheck") /\ panic' = panic
      BY <2>1, <3>2, Zenon DEF FetchNewState
    <3>4. pc'[Loop] = "recheck" BY <1>1, <3>3, Zenon DEF Goto, ControlOK
    <3>5. AtTask("recheck", t)' BY <1>1, <1>2, <2>1, <3>4, Zenon DEF AtTask
    <3>6. NewState(loc[Loop].flags, loc[Loop].deadline) # "Completed"
      <4>1. loc[Loop].deadline \in Int BY <1>1, LocalsTyped, Zenon
      <4> QED BY <4>1, Zenon DEF NewState
    <3> QED BY <1>1, <1>3, <3>3, <3>5, <3>6
  <2>2. CASE FetchAgain
    <3>1. state[t] \in {loc[Loop].from, "Ready"} BY <1>1, <1>2, <2>2, Zenon DEF InStage
    <3>2. /\ panic' = panic
          /\ state' = IF state[t] = loc[Loop].from THEN [state EXCEPT ![t] = "Ready"] ELSE state
      BY <2>2, Zenon DEF FetchAgain
    <3> QED BY <1>1, <1>3, <3>1, <3>2, Zenon
  <2>3. CASE FetchPanic
    <3>1. panic' = "cancelled" /\ state' = state BY <2>3, Zenon DEF FetchPanic, Panic
    <3>2. AtTask("recheck", t)' BY <1>1, <1>2, <2>3, Zenon DEF AtTask
    <3> QED BY <3>1, <3>2, Zenon
  <2>4. CASE RebornTask
    <3>1. panic' = panic /\ (state' = state \/ state' = [state EXCEPT ![t] = "Ready"])
      BY <2>4, Zenon DEF RebornTask
    <3>2. "recheck" \in CriticalLabels BY CriticalSet, Zenon
    <3>3. ~AtTask("recheck", t) BY <1>1, <1>2, <1>3, <2>4, <3>2, AtInside
    <3> QED BY <1>1, <1>3, <3>1, <3>3, Zenon
  <2> QED BY <2>1, <2>2, <2>3, <2>4, Zenon
<1>9. \A u \in Tasks \ {t} : SameTask(u) BY <1>6, <1>8, Zenon DEF SameTask, InList
<1>10. ~AtTask("x_flags", t) /\ ~AtTask("p_sleep", t)
  <2>1. "x_flags" \in CriticalLabels /\ "p_sleep" \in CriticalLabels BY CriticalSet, Zenon
  <2>2. pc[Loop] # "x_flags" /\ pc[Loop] # "p_sleep" BY <1>2, Zenon
  <2> QED BY <1>1, <1>3, <2>1, <2>2, AtInside, Zenon
<1>11. TaskOK(t)' BY <1>4, <1>6, <1>7, <1>8, <1>10, Zenon DEF TaskOK
<1> QED BY <1>1, <1>2, <1>3, <1>5, <1>7, <1>8, <1>9, <1>11, TasksInside, ZenonT(30)

\* fetch_ready_task_() handles a request: the task is cancelled, resumed, executed
\* at once or put to sleep.
LEMMA FetchedTasks ==
  ASSUME FirstExists, TypeOK, LockInv, StageInv, TasksInv, FetchReady
  PROVE  TasksInv'
<1> USE DEF atomics, misc, lists, effective
<1>0. PICK t : t = Task(Loop) BY Zenon
<1> USE <1>0
<1> DEFINE d == loc[Loop].deadline
           paused == "Paused" \in loc[Loop].flags
<1>1. /\ Loop \in Threads /\ ControlOK /\ LoopLocals /\ InStage(Loop) /\ d \in Int
      /\ panic \in {"none", "cancelled"}
  BY LocalsTyped, Zenon DEF Threads, TypeOK, ControlOK, LocalsOK, StageInv, TasksInv
<1>2. /\ Moves(Loop) /\ pc[Loop] = "recheck" /\ pc'[Loop] \in {"x_flags", "exec", "pop"} /\ Task(Loop)' = t
  BY LoopEdges, ExecuteMoves, Zenon DEF Task
<1>3. pc[Loop] \in CriticalLabels /\ t \in Tasks BY <1>1, <1>2, CriticalSet, LoopTask, Zenon
<1>4. TaskOK(t) BY <1>3, Zenon DEF TasksInv
<1>5. UNCHANGED <<flags, operation, state, panic>> BY Zenon DEF FetchReady
<1>6. flags[t] = loc[Loop].flags BY Zenon DEF FetchReady, Changed
<1>7. state[t] \in {NewState(loc[Loop].flags, d), "Ready"} BY <1>1, <1>2, Zenon DEF InStage, LoopLocals
<1>8. ~AtTask("x_flags", t) /\ ~AtTask("p_sleep", t)
  <2>1. "x_flags" \in CriticalLabels /\ "p_sleep" \in CriticalLabels BY CriticalSet, Zenon
  <2> QED BY <1>1, <1>2, <1>3, <2>1, AtInside
<1>9. /\ pc'[Loop] = IF d < 0 THEN "x_flags" ELSE IF (IF paused THEN "Resumed" \in loc[Loop].flags ELSE d = 0)
                     THEN "exec" ELSE "pop"
      /\ IF d < 0 THEN CancelTask(t, loc[Loop].version)
         ELSE IF paused THEN UNCHANGED <<effective, lists>>
         ELSE RescheduleTask(t, d, loc[Loop].version)
  <2>1. /\ \E l : /\ Goto(Loop, l)
                  /\ l = IF d < 0 THEN "x_flags"
                         ELSE IF (IF paused THEN "Resumed" \in loc[Loop].flags ELSE d = 0) THEN "exec" ELSE "pop"
        /\ IF d < 0 THEN CancelTask(t, loc[Loop].version)
           ELSE IF paused THEN UNCHANGED <<effective, lists>>
           ELSE RescheduleTask(t, d, loc[Loop].version)
    BY <1>1, SMT, Z3 DEF FetchReady
  <2> QED BY <1>1, <2>1, Zenon DEF Goto, ControlOK
<1> HIDE DEF d
<1>10. CASE d >= 0 /\ paused
  <2>1. UNCHANGED <<effective_deadline, paused_queue, sleeping_queue>> BY <1>1, <1>9, <1>10, SMT, Z3
  <2>2. /\ Once(paused_queue)' /\ Once(sleeping_queue)' /\ Sorted(sleeping_queue, effective_deadline)'
        /\ (InList(t, paused_queue)' <=> InList(t, paused_queue))
        /\ (InList(t, sleeping_queue)' <=> InList(t, sleeping_queue))
    BY <2>1, Zenon DEF TasksInv, Once, Sorted, InList
  <2>3. "Paused" \in flags[t] BY <1>6, <1>10, Zenon
  <2>4. /\ operation[t] # "none" /\ effective_deadline[t] >= 0 /\ InList(t, paused_queue)
        /\ ~InList(t, sleeping_queue)
    BY <1>4, <1>8, <2>3, Zenon DEF TaskOK
  <2>5. \A u \in Tasks \ {t} : SameTask(u) BY <1>5, <2>1, Zenon DEF SameTask, InList
  <2>6. TaskOK(t)' BY <1>4, <1>5, <2>1, <2>2, <2>3, <2>4, Zenon DEF TaskOK
  <2>7. pc'[Loop] \in {"exec", "pop"} BY <1>1, <1>9, <1>10, SMT, Z3
  <2>8. ThreadOK(Loop)' BY <1>2, <1>5, <2>1, <2>2, <2>4, <2>7, Zenon DEF ThreadOK
  <2>9. panic' \in {"none", "cancelled"} BY <1>1, <1>5, Zenon
  <2> QED BY <1>1, <1>2, <1>3, <2>2, <2>5, <2>6, <2>8, <2>9, TasksInside, ZenonT(30)
<1>11. CASE ~(d >= 0 /\ paused)
  <2> DEFINE e == IF d < 0 THEN -1 ELSE d
  <2>1. e \in Int /\ ((e = -1 /\ CancelTask(t, loc[Loop].version)) \/ (e >= 0 /\ RescheduleTask(t, e, loc[Loop].version)))
    BY <1>1, <1>9, <1>11, SMT, Z3
  <2>2. /\ Once(paused_queue)' /\ Once(sleeping_queue)' /\ Sorted(sleeping_queue, effective_deadline)'
        /\ ~InList(t, paused_queue)' /\ (InList(t, sleeping_queue)' <=> e > 0)
        /\ effective_deadline'[t] = e
        /\ \A u \in Tasks \ {t} : /\ effective_deadline'[u] = effective_deadline[u]
                                  /\ InList(u, paused_queue)' <=> InList(u, paused_queue)
                                  /\ InList(u, sleeping_queue)' <=> InList(u, sleeping_queue)
    <3> HIDE DEF e
    <3> QED BY <1>3, <2>1, Relisted, Zenon
  <2>3. \A u \in Tasks \ {t} : SameTask(u) BY <1>5, <2>2, Zenon DEF SameTask
  <2>4. TaskOK(t)' /\ ThreadOK(Loop)'
    <3>1. CASE d < 0
      <4>1. pc'[Loop] = "x_flags" BY <1>9, <3>1, Zenon
      <4>2. AtTask("x_flags", t)' BY <1>1, <1>2, <4>1, Zenon DEF AtTask
      <4>3. state'[t] \in {"Cancelling", "Ready"} BY <1>1, <1>5, <1>7, <3>1, SMT, Z3 DEF NewState
      <4>4. ~InList(t, sleeping_queue)' BY <2>2, <3>1, SMT, Z3
      <4>5. TaskOK(t)' BY <1>4, <1>5, <4>2, <4>3, <4>4, Zenon DEF TaskOK
      <4>6. ThreadOK(Loop)' BY <1>2, <4>1, <4>4, Zenon DEF ThreadOK
      <4> QED BY <4>5, <4>6, Zenon
    <3>2. CASE d >= 0
      <4>1. "Paused" \notin flags'[t] /\ ~paused BY <1>5, <1>6, <1>11, <3>2, Zenon
      <4>2. pc'[Loop] = IF d = 0 THEN "exec" ELSE "pop" BY <1>1, <1>9, <3>2, <4>1, SMT, Z3
      <4>3. state'[t] \in {IF d = 0 THEN "Processing" ELSE "Sleeping", "Ready"}
        BY <1>1, <1>5, <1>7, <3>2, <4>1, SMT, Z3 DEF NewState
      <4>4. effective_deadline'[t] = d /\ ~InList(t, paused_queue)' /\ (InList(t, sleeping_queue)' <=> d > 0)
        BY <1>1, <2>2, <3>2, SMT, Z3
      <4>5. TaskOK(t)'
        <5>1. /\ state'[t] = "Sleeping" => InList(t, sleeping_queue)'
              /\ state'[t] # "Completed" /\ (InList(t, sleeping_queue)' => effective_deadline'[t] > 0)
          BY <1>1, <3>2, <4>3, <4>4, SMT, Z3
        <5> QED BY <1>4, <1>5, <4>1, <4>4, <5>1, Zenon DEF TaskOK
      <4>6. ThreadOK(Loop)' BY <1>1, <1>2, <3>2, <4>2, <4>4, SMT, Z3 DEF ThreadOK, BusyLabels
      <4> QED BY <4>5, <4>6
    <3> QED BY <1>1, <3>1, <3>2, SMT, Z3
  <2>5. panic' \in {"none", "cancelled"} BY <1>1, <1>5
  <2> QED BY <1>1, <1>2, <1>3, <2>2, <2>3, <2>4, <2>5, TasksInside, ZenonT(30)
<1> QED BY <1>10, <1>11, Zenon

\* fetch_sleeping_task_()
LEMMA LoopSleeping ==
  ASSUME TypeOK, LockInv, TasksInv, FetchSleeping
  PROVE  TasksInv'
<1> USE DEF atomics, misc, lists, effective
<1>1. /\ Loop \in Threads /\ ControlOK /\ state \in [Tasks -> States] /\ sleeping_queue \in Seq(Tasks)
      /\ panic \in {"none", "cancelled"}
      /\ Once(paused_queue) /\ Once(sleeping_queue) /\ Sorted(sleeping_queue, effective_deadline)
  BY Zenon DEF Threads, TypeOK, DataOK, TasksInv
<1>2. Moves(Loop) /\ pc[Loop] = "sleep" /\ pc'[Loop] \in {"pop", "update", "exec"} BY LoopEdges, Zenon
<1>3. pc[Loop] \in CriticalLabels /\ pc[Loop] \notin {"x_flags", "p_sleep", "recheck"} BY <1>2, CriticalSet, Zenon
<1>4. UNCHANGED <<flags, operation, effective_deadline, paused_queue, panic>> BY Zenon DEF FetchSleeping
<1>5. CASE sleeping_queue = <<>> \/ effective_deadline[Head(sleeping_queue)] > now
  <2>1. UNCHANGED <<state, sleeping_queue>> /\ \E l \in {"update", "pop"} : Goto(Loop, l) BY <1>5, Zenon DEF FetchSleeping
  <2>2. pc'[Loop] \in {"update", "pop"} BY <1>1, <2>1, Zenon DEF Goto, ControlOK
  <2>3. pc'[Loop] \notin BusyLabels \cup {"renew"} BY <2>2, Zenon DEF BusyLabels
  <2>4. ThreadOK(Loop)' BY <2>3, ThreadLeaves, Zenon
  <2>5. panic' \in {"none", "cancelled"} BY <1>1, <1>4, Zenon
  <2> QED BY <1>1, <1>2, <1>3, <1>4, <2>1, <2>4, <2>5, TasksSame, Zenon
<1>6. CASE ~(sleeping_queue = <<>> \/ effective_deadline[Head(sleeping_queue)] > now)
  <2>0. PICK t : t = Head(sleeping_queue) BY Zenon
  <2>1. /\ sleeping_queue' = Tail(sleeping_queue) /\ sleeping_queue # <<>>
        /\ \/ state[t] = "Sleeping" /\ state' = [state EXCEPT ![t] = "Processing"]
           \/ state[t] # "Sleeping" /\ state' = state
    BY <1>6, <2>0, Zenon DEF FetchSleeping
  <2>2. /\ Once(Tail(sleeping_queue)) /\ Sorted(Tail(sleeping_queue), effective_deadline)
        /\ t \in Tasks /\ InList(t, sleeping_queue)
        /\ \A u : InList(u, Tail(sleeping_queue)) <=> InList(u, sleeping_queue) /\ u # t
    BY <1>1, <2>0, <2>1, TailList, Zenon
  <2>3. /\ Once(paused_queue)' /\ Once(sleeping_queue)' /\ Sorted(sleeping_queue, effective_deadline)'
        /\ \A u : /\ InList(u, sleeping_queue)' <=> InList(u, sleeping_queue) /\ u # t
                  /\ InList(u, paused_queue)' <=> InList(u, paused_queue)
    BY <1>1, <1>4, <2>1, <2>2, Zenon DEF Once, Sorted, InList
  <2>4. TaskOK(t) BY <2>2, Zenon DEF TasksInv
  <2>5. ~InList(t, paused_queue) /\ effective_deadline[t] > 0 BY <2>2, <2>4, Zenon DEF TaskOK
  <2>6. ~AtTask("x_flags", t) /\ ~AtTask("p_sleep", t)
    <3>1. "x_flags" \in CriticalLabels /\ "p_sleep" \in CriticalLabels BY CriticalSet, Zenon
    <3> QED BY <1>1, <1>2, <1>3, <3>1, AtInside
  <2>7. "Paused" \notin flags[t] BY <2>4, <2>5, <2>6, Zenon DEF TaskOK
  <2>8. state'[t] # "Sleeping" /\ \A u \in Tasks \ {t} : state'[u] = state[u] BY <1>1, <2>1, <2>2, Zenon
  <2>9. ~InList(t, sleeping_queue)' /\ ~InList(t, paused_queue)' BY <2>3, <2>5, Zenon
  <2>10. TaskOK(t)' BY <1>4, <2>4, <2>7, <2>8, <2>9, Zenon DEF TaskOK
  <2>11. \A u \in Tasks \ {t} : SameTask(u) BY <1>4, <2>3, <2>8, Zenon DEF SameTask
  <2>12. ThreadOK(Loop)'
    <3>1. CASE pc'[Loop] # "exec"
      <4>1. pc'[Loop] \notin BusyLabels \cup {"renew"} BY <1>2, <3>1, Zenon DEF BusyLabels
      <4> QED BY <4>1, ThreadLeaves
    <3>2. CASE pc'[Loop] = "exec"
      <4>1. Task(Loop)' = t
        <5>1. pc'[Loop] \notin {"pop", "update"} BY <3>2, Zenon
        <5> QED BY <2>0, <5>1, FetchMoves, Zenon DEF Task
      <4>2. effective_deadline'[t] >= 0
        <5>1. effective_deadline[t] \in Int BY <2>2, Zenon DEF TypeOK, DataOK
        <5> QED BY <1>4, <2>5, <5>1, SMT, Z3
      <4> QED BY <2>9, <3>2, <4>1, <4>2, Zenon DEF ThreadOK
    <3> QED BY <3>1, <3>2, Zenon
  <2>13. panic' \in {"none", "cancelled"} BY <1>1, <1>4
  <2> QED BY <1>1, <1>2, <1>3, <2>3, <2>10, <2>11, <2>12, <2>13, TasksInside, ZenonT(30)
<1> QED BY <1>5, <1>6, Zenon

\* execute_task_() up to the moment the task is paused, completed or continued.
LEMMA ExecuteTasks ==
  ASSUME TypeOK, LockInv, StageInv, TasksInv,
         ExecuteBegin \/ ExecuteFinish \/ ExecuteOperation \/ ExecutePause \/ ExecuteContinue
  PROVE  TasksInv'
<1> USE DEF atomics, misc, lists, effective
<1>0. PICK t : t = Task(Loop) BY Zenon
<1> USE <1>0
<1>1. /\ Loop \in Threads /\ ControlOK /\ InStage(Loop) /\ ThreadOK(Loop) /\ panic \in {"none", "cancelled"}
      /\ flags \in [Tasks -> SUBSET Flags] /\ operation \in [Tasks -> {"none", "running", "done"}]
  BY Zenon DEF Threads, TypeOK, DataOK, StageInv, TasksInv
<1>2. /\ Moves(Loop) /\ pc[Loop] \in {"exec", "run", "pause"} /\ Task(Loop)' = t
      /\ pc'[Loop] \in {"exec", "run", "renewed", "pause", "p_sleep", "reborn"}
      /\ ExecuteBegin => pc[Loop] = "exec"
      /\ ExecuteFinish => pc[Loop] = "run" /\ pc'[Loop] = "renewed"
      /\ ExecuteOperation => pc[Loop] = "run" /\ pc'[Loop] = "pause"
      /\ ExecutePause => pc[Loop] = "pause" /\ pc'[Loop] = "p_sleep"
      /\ ExecuteContinue => pc[Loop] = "run" /\ pc'[Loop] = "reborn"
  BY LoopEdges, ExecuteMoves, Zenon DEF Works, Task
<1>3. pc[Loop] \in CriticalLabels /\ t \in Tasks BY <1>1, <1>2, CriticalSet, LoopTask, Zenon
<1>4. TaskOK(t) /\ flags[t] \in SUBSET Flags BY <1>1, <1>3, Zenon DEF TasksInv
<1>5. UNCHANGED <<state, effective_deadline, paused_queue, sleeping_queue>>
  BY Zenon DEF ExecuteBegin, ExecuteFinish, ExecuteOperation, ExecutePause, ExecuteContinue
<1>6. /\ Once(paused_queue)' /\ Once(sleeping_queue)' /\ Sorted(sleeping_queue, effective_deadline)'
      /\ (InList(t, paused_queue)' <=> InList(t, paused_queue))
      /\ (InList(t, sleeping_queue)' <=> InList(t, sleeping_queue))
  BY <1>5, Zenon DEF TasksInv, Once, Sorted, InList
<1>7. /\ effective_deadline[t] >= 0 /\ ~InList(t, sleeping_queue) /\ state[t] # "Sleeping"
  BY <1>1, <1>2, Zenon DEF ThreadOK, BusyLabels, InStage
<1>8. ~AtTask("x_flags", t) /\ ~AtTask("p_sleep", t)
  <2>1. "x_flags" \in CriticalLabels /\ "p_sleep" \in CriticalLabels BY CriticalSet, Zenon
  <2>2. pc[Loop] # "x_flags" /\ pc[Loop] # "p_sleep" BY <1>2, Zenon
  <2> QED BY <1>1, <1>3, <2>1, <2>2, AtInside, Zenon
<1>9. SUFFICES /\ panic' = panic /\ TaskOK(t)' /\ ThreadOK(Loop)'
               /\ \A u \in Tasks \ {t} : flags'[u] = flags[u] /\ operation'[u] = operation[u]
  <2>1. ASSUME \A u \in Tasks \ {t} : flags'[u] = flags[u] /\ operation'[u] = operation[u]
        PROVE  \A u \in Tasks \ {t} : SameTask(u)
    BY <1>5, <2>1, Zenon DEF SameTask, InList
  <2>2. pc[Loop] \notin {"x_flags", "p_sleep", "recheck"} BY <1>2, Zenon
  <2> QED BY <1>1, <1>2, <1>3, <1>6, <2>1, <2>2, TasksInside, ZenonT(30)
<1>10. CASE ExecuteBegin
  <2>1. /\ flags' = [flags EXCEPT ![t] = @ \ {"Succeeded", "Cancelled", "Resumed"}]
        /\ Goto(Loop, "run") /\ operation' = operation /\ panic' = panic
    <3>1. ~(effective_deadline[t] < 0)
      <4>1. effective_deadline[t] \in Int BY <1>3, Zenon DEF TypeOK, DataOK
      <4> QED BY <1>7, <4>1, SMT, Z3
    <3> QED BY <1>10, <3>1, Zenon DEF ExecuteBegin
  <2>2. /\ flags'[t] = flags[t] \ {"Succeeded", "Cancelled", "Resumed"} /\ operation'[t] = operation[t]
        /\ \A u \in Tasks \ {t} : flags'[u] = flags[u] /\ operation'[u] = operation[u]
    BY <1>1, <1>3, <2>1, Zenon
  <2>3. pc'[Loop] = "run" BY <1>1, <2>1, Zenon DEF Goto, ControlOK
  <2>4. TaskOK(t)' BY <1>4, <1>5, <1>6, <1>7, <1>8, <2>2, ZenonT(30) DEF TaskOK
  <2>5. InList(t, paused_queue) => operation[t] # "none" BY <1>1, <1>2, <1>10, Zenon DEF ThreadOK
  <2>6. ThreadOK(Loop)' BY <1>2, <1>5, <1>6, <1>7, <2>2, <2>3, <2>5, ZenonT(30) DEF ThreadOK
  <2> QED BY <2>1, <2>2, <2>4, <2>6, Zenon
<1>11. CASE ExecuteFinish
  <2>1. /\ flags' = [flags EXCEPT ![t] = {"Succeeded"}] \/ flags' = [flags EXCEPT ![t] = {}]
        /\ operation' = [operation EXCEPT ![t] = IF @ = "done" THEN "none" ELSE @] /\ panic' = panic
    BY <1>11, Zenon DEF ExecuteFinish
  <2>2. /\ flags'[t] \in {{"Succeeded"}, {}}
        /\ \A u \in Tasks \ {t} : flags'[u] = flags[u] /\ operation'[u] = operation[u]
    BY <1>1, <1>3, <2>1, Zenon
  <2>3. TaskOK(t)' BY <1>5, <1>6, <1>7, <2>2, Zenon DEF TaskOK
  <2>4. ThreadOK(Loop)' BY <1>2, <1>6, <1>7, <1>11, Zenon DEF ThreadOK
  <2> QED BY <2>1, <2>2, <2>3, <2>4, Zenon
<1>12. CASE ExecuteOperation
  <2>1. /\ operation[t] = "none" /\ operation' = [operation EXCEPT ![t] = "running"]
        /\ flags' = flags /\ panic' = panic
    BY <1>12, Zenon DEF ExecuteOperation
  <2>2. /\ operation'[t] = "running" /\ \A u \in Tasks \ {t} : operation'[u] = operation[u] BY <1>1, <1>3, <2>1, Zenon
  <2>3. /\ ~InList(t, paused_queue) /\ "Succeeded" \notin flags[t] /\ "Cancelled" \notin flags[t]
    BY <1>1, <1>2, <1>12, <2>1, Zenon DEF ThreadOK
  <2>4. TaskOK(t)' BY <1>4, <1>5, <1>6, <1>7, <1>8, <2>1, <2>2, ZenonT(30) DEF TaskOK
  <2>5. ThreadOK(Loop)' BY <1>2, <1>5, <1>6, <1>7, <1>12, <2>1, <2>2, <2>3, ZenonT(30) DEF ThreadOK
  <2> QED BY <2>1, <2>2, <2>4, <2>5, Zenon
<1>13. CASE ExecutePause
  <2>1. /\ flags' = [flags EXCEPT ![t] = @ \cup {"Paused"}] /\ operation' = operation /\ panic' = panic
    BY <1>13, Zenon DEF ExecutePause
  <2>2. flags'[t] = flags[t] \cup {"Paused"} /\ \A u \in Tasks \ {t} : flags'[u] = flags[u] BY <1>1, <1>3, <2>1, Zenon
  <2>3. /\ ~InList(t, paused_queue) /\ operation[t] # "none"
        /\ "Succeeded" \notin flags[t] /\ "Cancelled" \notin flags[t]
    BY <1>1, <1>2, <1>13, Zenon DEF ThreadOK
  <2>4. AtTask("p_sleep", t)' BY <1>1, <1>2, <1>13, Zenon DEF AtTask
  <2>5. TaskOK(t)' BY <1>5, <1>6, <1>7, <2>1, <2>2, <2>3, <2>4, ZenonT(30) DEF TaskOK
  <2>6. ThreadOK(Loop)' BY <1>2, <1>5, <1>6, <1>7, <1>13, <2>1, <2>2, <2>3, ZenonT(30) DEF ThreadOK
  <2> QED BY <2>1, <2>2, <2>5, <2>6, Zenon
<1>14. CASE ExecuteContinue
  <2>1. /\ flags' = [flags EXCEPT ![t] = @ \ {"Paused"}] /\ operation' = operation /\ panic' = panic
    BY <1>14, Zenon DEF ExecuteContinue
  <2>2. flags'[t] = flags[t] \ {"Paused"} /\ \A u \in Tasks \ {t} : flags'[u] = flags[u] BY <1>1, <1>3, <2>1, Zenon
  <2>3. TaskOK(t)' BY <1>4, <1>5, <1>6, <1>7, <2>1, <2>2, ZenonT(30) DEF TaskOK
  <2>4. pc'[Loop] \notin BusyLabels \cup {"renew"} BY <1>2, <1>14, Zenon DEF BusyLabels
  <2>5. ThreadOK(Loop)' BY <2>4, ThreadLeaves, Zenon
  <2> QED BY <2>1, <2>2, <2>3, <2>5, Zenon
<1> QED BY <1>10, <1>11, <1>12, <1>13, <1>14, Zenon

\* pause_task_(): the task is not in the list, so that the list does not panic.
LEMMA PausedTask ==
  ASSUME TypeOK, LockInv, TasksInv, PauseTask
  PROVE  TasksInv'
<1> USE DEF atomics, misc, lists, effective
<1>0. PICK t : t = Task(Loop) BY Zenon
<1> USE <1>0
<1>1. /\ Loop \in Threads /\ ControlOK /\ ThreadOK(Loop) /\ panic \in {"none", "cancelled"}
      /\ state \in [Tasks -> States] /\ paused_queue \in Seq(Tasks) /\ Once(paused_queue)
  BY Zenon DEF Threads, TypeOK, DataOK, TasksInv
<1>2. /\ Moves(Loop) /\ pc[Loop] = "p_sleep" /\ Task(Loop)' = t BY LoopEdges, Zenon DEF Works, Task
<1>3. pc[Loop] \in CriticalLabels /\ t \in Tasks BY <1>1, <1>2, CriticalSet, LoopTask, Zenon
<1>4. TaskOK(t) BY <1>3, Zenon DEF TasksInv
<1>5. /\ ~InList(t, paused_queue) /\ ~InList(t, sleeping_queue) /\ effective_deadline[t] >= 0
      /\ "Paused" \in flags[t]
  BY <1>1, <1>2, Zenon DEF ThreadOK, BusyLabels
<1>6. /\ paused_queue' = Append(paused_queue, t) /\ Goto(Loop, "p_check")
      /\ state' = state \/ state' = [state EXCEPT ![t] = "Sleeping"]
      /\ UNCHANGED <<panic, flags, operation, effective_deadline, sleeping_queue>>
  BY <1>5, Zenon DEF PauseTask
<1>7. /\ Once(Append(paused_queue, t))
      /\ \A u : InList(u, Append(paused_queue, t)) <=> InList(u, paused_queue) \/ u = t
  BY <1>1, <1>3, <1>5, AppendList, Zenon
<1>8. /\ Once(paused_queue)' /\ \A u : InList(u, paused_queue)' <=> InList(u, paused_queue) \/ u = t
  BY <1>6, <1>7, Zenon DEF Once, InList
<1>9. /\ Once(sleeping_queue)' /\ Sorted(sleeping_queue, effective_deadline)'
      /\ \A u : InList(u, sleeping_queue)' <=> InList(u, sleeping_queue)
  BY <1>6, Zenon DEF TasksInv, Once, Sorted, InList
<1>10. \A u \in Tasks \ {t} : state'[u] = state[u] BY <1>1, <1>3, <1>6, Zenon
<1>11. \A u \in Tasks \ {t} : SameTask(u) BY <1>6, <1>8, <1>9, <1>10, Zenon DEF SameTask
<1>12. InList(t, paused_queue)' /\ ~InList(t, sleeping_queue)' BY <1>5, <1>8, <1>9, Zenon
<1>13. TaskOK(t)' BY <1>4, <1>5, <1>6, <1>12, Zenon DEF TaskOK
<1>14. ThreadOK(Loop)'
  <2>1. pc'[Loop] = "p_check" BY <1>1, <1>6, Zenon DEF Goto, ControlOK
  <2>2. pc'[Loop] \notin BusyLabels \cup {"renew"} BY <2>1, Zenon DEF BusyLabels
  <2> QED BY <2>2, ThreadLeaves, Zenon
<1>15. panic' \in {"none", "cancelled"} BY <1>1, <1>6, Zenon
<1> QED BY <1>1, <1>2, <1>3, <1>8, <1>9, <1>11, <1>13, <1>14, <1>15, TasksInside, ZenonT(30)

\* The tasks and their lists at the start.
LEMMA TasksInit ==
  ASSUME Init
  PROVE  TasksInv
<1>1. /\ panic = "none" /\ sleeping_queue = <<>> /\ paused_queue = <<>>
      /\ \A t \in Tasks : flags[t] = {} /\ state[t] = "Completed"
      /\ \A x \in Threads : pc[x] \in {"wait", "idle"}
  BY Zenon DEF Init
<1>2. \A u : ~InList(u, sleeping_queue) /\ ~InList(u, paused_queue) BY <1>1, SMT, Z3 DEF InList
<1>3. \A t \in Tasks : TaskOK(t) BY <1>1, <1>2, Zenon DEF TaskOK
<1>4. \A x \in Threads : ThreadOK(x) BY <1>1, Zenon DEF ThreadOK, BusyLabels
<1>5. /\ Once(paused_queue) /\ Once(sleeping_queue) /\ Sorted(sleeping_queue, effective_deadline)
  BY <1>1, SMT, Z3 DEF Once, Sorted
<1> QED BY <1>1, <1>3, <1>4, <1>5, Zenon DEF TasksInv

\* The tasks and their lists, whoever moves.
LEMMA TasksStay ==
  ASSUME FirstExists, TypeOK, LockInv, ReadyInv, StageInv, TasksInv, [Next]_vars
  PROVE  TasksInv'
<1>1. ASSUME Tick \/ UNCHANGED vars PROVE TasksInv'
  <2>1. UNCHANGED <<panic, flags, operation, state, effective_deadline, paused_queue, sleeping_queue, pc, loc>>
    BY <1>1, Zenon DEF Tick, vars, atomics, lists, effective, misc
  <2>2. \A t \in Tasks : TaskOK(t)' BY <2>1, ZenonT(30) DEF TasksInv, TaskOK, AtTask, Task, InList
  <2>3. \A x \in Threads : ThreadOK(x)' BY <2>1, Zenon DEF TasksInv, ThreadOK, Task, InList
  <2>4. Once(paused_queue)' /\ Once(sleeping_queue)' /\ Sorted(sleeping_queue, effective_deadline)'
    BY <2>1, Zenon DEF TasksInv, Once, Sorted
  <2>5. panic' \in {"none", "cancelled"} BY <2>1, Zenon DEF TasksInv
  <2> QED BY <2>2, <2>3, <2>4, <2>5, Zenon DEF TasksInv
<1>2. ASSUME NEW x \in Users, UserStep(x) PROVE TasksInv'
  <2>1. x \in Threads BY Zenon DEF Threads
  <2> QED BY <1>2, <2>1, SharedTasks, CallTasks, RequestTasks, InplaceTasks DEF UserStep
<1>3. ASSUME LoopStep PROVE TasksInv'
  <2>1. Loop \in Threads BY Zenon DEF Threads
  <2> QED BY <1>3, <2>1, LoopSame, LoopStates, FetchedTasks, LoopSleeping, ExecuteTasks, PausedTask, SharedTasks
      DEF LoopStep
<1> QED BY <1>1, <1>2, <1>3, CallTasks, Zenon DEF Next, Terminated

\* Tasks sleep in order, and none is lost.
LEMMA SleepersListed ==
  ASSUME TypeOK, TasksInv
  PROVE  SleepersKept
<1>1. sleeping_queue \in Seq(Tasks) /\ Once(sleeping_queue) /\ Sorted(sleeping_queue, effective_deadline)
  BY Zenon DEF TypeOK, DataOK, TasksInv
<1>2. \A i, j \in DOMAIN sleeping_queue : i < j =>
         /\ sleeping_queue[i] # sleeping_queue[j]
         /\ effective_deadline[sleeping_queue[i]] <= effective_deadline[sleeping_queue[j]]
  <2>1. \A i \in DOMAIN sleeping_queue : ~(i < i) BY <1>1, SMT, Z3
  <2> QED BY <1>1, <2>1, Zenon DEF Once, Sorted
<1>3. \A i \in DOMAIN sleeping_queue :
         effective_deadline[sleeping_queue[i]] > 0 /\ state[sleeping_queue[i]] # "Completed"
  <2> SUFFICES ASSUME NEW i \in DOMAIN sleeping_queue
               PROVE  effective_deadline[sleeping_queue[i]] > 0 /\ state[sleeping_queue[i]] # "Completed"
    BY Zenon
  <2>1. sleeping_queue[i] \in Tasks /\ InList(sleeping_queue[i], sleeping_queue) BY <1>1, SMT, Z3 DEF InList
  <2> QED BY <2>1, Zenon DEF TasksInv, TaskOK
<1>4. ASSUME NEW t \in Tasks, AtTask("recheck", t) PROVE pc[Loop] = "recheck" /\ Task(Loop) = t
  <2>1. PICK x \in Threads : pc[x] = "recheck" /\ Task(x) = t BY <1>4, Zenon DEF AtTask
  <2>2. x # Loop => pc[x] \in UserLabels BY Zenon DEF TypeOK, ControlOK, LocalsOK, UserLocals
  <2> QED BY <2>1, <2>2, LabelSets, Zenon
<1>5. \A t \in Tasks : state[t] = "Sleeping" =>
         \/ InList(t, sleeping_queue)
         \/ InList(t, paused_queue) /\ "Paused" \in flags[t]
         \/ pc[Loop] = "recheck" /\ Task(Loop) = t
  BY <1>4, Zenon DEF TasksInv, TaskOK
<1> QED BY <1>2, <1>3, <1>5, Zenon DEF SleepersKept
=============================================================================
